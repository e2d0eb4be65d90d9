------------------------------ MODULE MCStore ------------------------------
(***************************************************************************)
(* Instances of Store for TLC.                                             *)
(***************************************************************************)
EXTENDS Store

CONSTANTS d1, d2   \* two chunk contents

\* Streams of one chunk, of two different ones, of one twice; of no chunk.
SomeStreams == {<<d1>>, <<d1, d2>>, <<d1, d1>>}
SharingStreams == {<<d1>>, <<d1, d2>>}
NoData == {<<>>}

NoLineage == {{}}
\* No ancestor, the first or the second checkpoint.
SomeLineages == {{}, {1}, {2}}

Terms(n, ttl, protect) == [latest_n |-> n, ttl |-> ttl, policy_protected |-> protect]
NoPolicies == {}
\* Policies that disagree about latest_n; both let ttl checkpoints expire.
TwoOrThree == {Terms(2, TRUE, FALSE), Terms(3, TRUE, FALSE)}
=============================================================================
