----------------------------- MODULE MCService -----------------------------
(***************************************************************************)
(* An instance of Service for TLC.                                         *)
(***************************************************************************)
EXTENDS Service

CONSTANTS w1, w2   \* worker processes

\* A checksum that tells the payloads of this instance apart, and apart from
\* every other cell.
Checksum(p) == 100 + Len(p) + (IF p = <<>> THEN 0 ELSE 10 * p[1])

ASSUME ChecksumAssumption == DetectsDamage

TwoPayloads == {<<>>, <<2>>}
=============================================================================
