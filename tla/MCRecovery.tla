----------------------------- MODULE MCRecovery -----------------------------
(***************************************************************************)
(* Instances of Recovery for TLC.                                          *)
(***************************************************************************)
EXTENDS Recovery

CONSTANTS d1, d2   \* two chunk contents

\* A chunk that a stream has twice: a crash can come between the two.
TwiceStream == {<<d1, d1>>}
OneStream == {<<d1>>}
NoLineage == {{}}
NoPolicies == {}
=============================================================================
