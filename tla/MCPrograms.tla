----------------------------- MODULE MCPrograms -----------------------------
(***************************************************************************)
(* Instances of Programs for TLC.                                          *)
(***************************************************************************)
EXTENDS Programs

CONSTANT d1   \* a chunk content

OneStream == {<<d1>>}
NoLineage == {{}}
NoPolicies == {}
KeepTwo == {[latest_n |-> 2, ttl |-> FALSE, policy_protected |-> FALSE]}
=============================================================================
