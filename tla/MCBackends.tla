---------------------------- MODULE MCBackends ----------------------------
(***************************************************************************)
(* An instance of Backends for TLC.                                        *)
(***************************************************************************)
EXTENDS Backends

CONSTANTS k1, k2   \* object keys
=============================================================================
