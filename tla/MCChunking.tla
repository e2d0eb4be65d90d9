----------------------------- MODULE MCChunking -----------------------------
(***************************************************************************)
(* An instance of Chunking for TLC.                                        *)
(***************************************************************************)
EXTENDS Chunking
=============================================================================
