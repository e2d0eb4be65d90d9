------------------------------ MODULE Chunking ------------------------------
(***************************************************************************)
(* Splitting a byte stream into fixed-size chunks (src/chunking.cpp) and   *)
(* the check of the manifest built from them (src/store.cpp, publish).     *)
(***************************************************************************)
EXTENDS Naturals, Sequences

CONSTANTS
    Sizes,          \* stream sizes
    ChunkSizes,     \* configured chunk sizes, valid or not
    kMaxChunkSize   \* 64 MiB

ASSUME ChunkingAssumption ==
    Sizes \subseteq Nat /\ ChunkSizes \subseteq Nat /\ kMaxChunkSize \in Nat

VARIABLES
    size, chunk,   \* the arguments
    phase,          \* "split", "check", or the outcome "accepted" or "rejected"
    offset,        \* the loop variable of chunk_stream
    ranges,        \* the ranges produced so far
    expected, at   \* the loop variables of the manifest check

chunkVars == <<size, chunk, phase, offset, ranges, expected, at>>

valid_chunk_size(n) == n >= 1 /\ n <= kMaxChunkSize

\* Mutant: the check counts from zero.
ChunkInit_FromZero ==
    /\ size \in Sizes
    /\ chunk \in ChunkSizes
    /\ phase = IF valid_chunk_size(chunk) THEN "split" ELSE "rejected"
    /\ offset = 0 /\ ranges = <<>> /\ expected = 0 /\ at = 0

ChunkInit ==
    /\ size \in Sizes
    /\ chunk \in ChunkSizes
    /\ phase = IF valid_chunk_size(chunk) THEN "split" ELSE "rejected"
    /\ offset = 0
    /\ ranges = <<>>
    /\ expected = 0
    /\ at = 1

\* Mutant: the last piece is as long as the others.
Take_Rounded == chunk

\* The length of the next piece.
Take == IF size - offset < chunk THEN size - offset ELSE chunk

\* One round of the loop of fixed_chunk_ranges and chunk_stream.
Split ==
    /\ phase = "split"
    /\ offset < size
    /\ ranges' = Append(ranges, [offset |-> offset, size |-> Take])
    /\ offset' = offset + Take
    /\ UNCHANGED <<size, chunk, phase, expected, at>>

\* Mutant: the loop goes on at the end of the stream.
SplitDone_OffByOne ==
    /\ phase = "split"
    /\ offset > size
    /\ phase' = "check"
    /\ UNCHANGED <<size, chunk, offset, ranges, expected, at>>

SplitDone ==
    /\ phase = "split"
    /\ offset >= size
    /\ phase' = "check"
    /\ UNCHANGED <<size, chunk, offset, ranges, expected, at>>

\* One round of the manifest's gap check.
Check ==
    /\ phase = "check"
    /\ at <= Len(ranges)
    /\ IF ranges[at].offset # expected
       THEN phase' = "rejected" /\ UNCHANGED <<expected, at>>
       ELSE /\ expected' = expected + ranges[at].size
            /\ at' = at + 1
            /\ UNCHANGED phase
    /\ UNCHANGED <<size, chunk, offset, ranges>>

\* The manifest's total against the stream.
CheckDone ==
    /\ phase = "check"
    /\ at > Len(ranges)
    /\ phase' = IF expected = size THEN "accepted" ELSE "rejected"
    /\ UNCHANGED <<size, chunk, offset, ranges, expected, at>>

ChunkNext == Split \/ SplitDone \/ Check \/ CheckDone

ChunkSpec     == ChunkInit /\ [][ChunkNext]_chunkVars
ChunkFairSpec == ChunkSpec /\ WF_chunkVars(ChunkNext)

-----------------------------------------------------------------------------
(***************************************************************************)
(* Properties.                                                             *)
(***************************************************************************)
\* Every variable has its type.
ChunkTypeOK ==
    /\ size \in Nat /\ chunk \in Nat
    /\ phase \in {"split", "check", "accepted", "rejected"}
    /\ offset \in Nat /\ expected \in Nat /\ at \in Nat \ {0}
    /\ ranges \in Seq([offset : Nat, size : Nat])

\* chunking.hpp, "Offsets are monotonic and non-overlapping, and the total of
\* the ranges equals the input size": when the split is over, the pieces start
\* at the multiples of the chunk size, every piece but the last is full, the
\* last is not empty, and they end where the stream ends.
Partition ==
    phase \in {"check", "accepted"} =>
        /\ \A i \in DOMAIN ranges :
              /\ ranges[i].offset = (i - 1) * chunk
              /\ ranges[i].size \in 1..chunk
              /\ i < Len(ranges) => ranges[i].size = chunk
              /\ i = Len(ranges) => ranges[i].offset + ranges[i].size = size
        /\ ranges = <<>> <=> size = 0

\* The manifest check never rejects what the chunker has produced.
ChunkerPassesCheck == valid_chunk_size(chunk) => phase # "rejected"

\* Both loops end, for every valid chunk size, the empty stream included.
Terminates == <>(phase \in {"accepted", "rejected"})
=============================================================================
