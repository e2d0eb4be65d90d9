---------------------------- MODULE StreamProofs ----------------------------
(***************************************************************************)
(* The chunker splits every stream correctly, whatever its size and for     *)
(* every valid chunk size, and its manifest passes the check.  What         *)
(* encode_frame writes, decode_frame and try_read_frame read back, for      *)
(* every payload, every checksum function and every bound on the length;    *)
(* and the serve loop dispatches what its workers sent and answers them.    *)
(***************************************************************************)
EXTENDS Chunking, Service, SequenceTheorems, TLAPS

\* The provers for a leaf that names none, in the order in which they are tried.
\* tlapm drops an attempt that takes it over 5 seconds to prepare: the next repeats it.
USE SMTT(60), SMTT(61), SMTT(62), SMTT(63), SMTT(64), ZenonT(60), SMTT(65), SMTT(66)

\* The pieces so far are full, except that the last one ends at offset.
Pieces ==
    \A i \in 1..Len(ranges) :
        /\ ranges[i].offset = (i - 1) * chunk
        /\ ranges[i].size \in 1..chunk
        /\ i < Len(ranges) => ranges[i].size = chunk
        /\ i = Len(ranges) => ranges[i].offset + ranges[i].size = offset

\* While the stream is not used up every piece is full; the check has come to
\* the piece that starts at expected.
LoopInv ==
    /\ ChunkTypeOK
    /\ ~ valid_chunk_size(chunk) => phase = "rejected"
    /\ valid_chunk_size(chunk) =>
          /\ phase # "rejected"
          /\ Pieces
          /\ offset <= size
          /\ offset < size => offset = Len(ranges) * chunk
          /\ offset = 0 <=> Len(ranges) = 0
          /\ at <= Len(ranges) + 1
          /\ phase = "split" => at = 1
          /\ phase # "split" => offset = size
          /\ at = 1 => expected = 0
          /\ at > 1 => expected = ranges[at - 1].offset + ranges[at - 1].size

\* chunk_stream enters its loop within the invariant.
LEMMA LoopInit == ChunkInit => LoopInv
<1> SUFFICES ASSUME ChunkInit PROVE LoopInv
  OBVIOUS
<1>1. ranges = <<>> /\ Len(ranges) = 0 /\ ranges \in Seq([offset : Nat, size : Nat])
  BY DEF ChunkInit
<1>2. ChunkTypeOK
  BY <1>1, ChunkingAssumption DEF ChunkInit, ChunkTypeOK
<1>3. offset = 0 /\ expected = 0 /\ at = 1 /\ size \in Nat /\ chunk \in Nat
      /\ phase = IF valid_chunk_size(chunk) THEN "split" ELSE "rejected"
  BY ChunkingAssumption DEF ChunkInit
<1> QED
  BY <1>1, <1>2, <1>3 DEF LoopInv, Pieces

\* Every round of the two loops keeps it.
LEMMA LoopStep == LoopInv /\ [ChunkNext]_chunkVars => LoopInv'
<1> SUFFICES ASSUME LoopInv, [ChunkNext]_chunkVars PROVE LoopInv'
  OBVIOUS
<1>1. CASE Split
  <2> DEFINE piece == [offset |-> offset, size |-> Take]
             n == Len(ranges)
  <2>1. /\ valid_chunk_size(chunk) /\ chunk \in Nat /\ chunk >= 1 /\ offset < size
        /\ size \in Nat /\ offset \in Nat /\ n \in Nat /\ phase = "split" /\ at = 1
        /\ expected = 0
    BY <1>1 DEF LoopInv, ChunkTypeOK, valid_chunk_size, Split
  <2>1a. offset = n * chunk
    BY <2>1 DEF LoopInv
  <2>2. /\ Take \in Nat /\ Take >= 1 /\ Take <= chunk
        /\ offset + Take <= size
        /\ offset + Take < size => Take = chunk
    BY <2>1 DEF Take
  <2>3. piece \in [offset : Nat, size : Nat]
    BY <2>1, <2>2
  <2>4. ranges' = Append(ranges, piece) /\ offset' = offset + Take
        /\ UNCHANGED <<size, chunk, phase, expected, at>>
    BY <1>1 DEF Split
  <2> HIDE DEF piece
  <2>5. /\ ranges' \in Seq([offset : Nat, size : Nat])
        /\ Len(ranges') = n + 1
        /\ \A i \in 1..n : ranges'[i] = ranges[i]
        /\ ranges'[n + 1] = piece
    BY <2>3, <2>4, AppendProperties DEF LoopInv, ChunkTypeOK
  <2>6. piece.offset = offset /\ piece.size = Take
    BY DEF piece
  <2>7. ChunkTypeOK'
    BY <2>1, <2>2, <2>4, <2>5 DEF LoopInv, ChunkTypeOK
  \* The pieces that were there are full, as the next one starts at n * chunk.
  <2>8. \A i \in 1..n : /\ ranges[i].offset = (i - 1) * chunk
                        /\ ranges[i].size = chunk
    <3> SUFFICES ASSUME NEW i \in 1..n
                 PROVE  ranges[i].offset = (i - 1) * chunk /\ ranges[i].size = chunk
      OBVIOUS
    <3>1. /\ ranges[i].offset = (i - 1) * chunk
          /\ ranges[i].size \in 1..chunk
          /\ i < n => ranges[i].size = chunk
          /\ i = n => ranges[i].offset + ranges[i].size = offset
      BY ZenonT(60), <2>1 DEF LoopInv, Pieces
    <3>2. n * chunk = (n - 1) * chunk + chunk
      BY <2>1
    <3> QED
      BY <2>1, <2>1a, <3>1, <3>2
  <2>9. Pieces'
    <3> SUFFICES ASSUME NEW i \in 1..(n + 1)
                 PROVE  /\ ranges'[i].offset = (i - 1) * chunk
                        /\ ranges'[i].size \in 1..chunk
                        /\ i < n + 1 => ranges'[i].size = chunk
                        /\ i = n + 1 => ranges'[i].offset + ranges'[i].size = offset'
      BY ZenonT(60), <2>4, <2>5 DEF Pieces
    <3>1. CASE i \in 1..n
      <4>1. ranges'[i] = ranges[i] /\ i < n + 1 /\ ~ (i = n + 1)
        BY <2>1, <2>5, <3>1
      <4>2. chunk \in 1..chunk
        BY <2>1
      <4> QED
        BY <2>8, <3>1, <4>1, <4>2
    <3>2. CASE i = n + 1
      <4>1. ranges'[i].offset = offset /\ ranges'[i].size = Take /\ i - 1 = n
            /\ ~ (i < n + 1) /\ Take \in 1..chunk
        BY <2>1, <2>2, <2>5, <2>6, <3>2
      <4> QED
        BY <2>1a, <2>4, <4>1
    <3> QED
      BY <2>1, <3>1, <3>2
  <2>10. offset' < size' => offset' = (n + 1) * chunk
    <3>1. (n + 1) * chunk = n * chunk + chunk
      BY <2>1
    <3> QED
      BY <2>1a, <2>1, <2>2, <2>4, <3>1
  <2> QED
    BY <2>1, <2>2, <2>4, <2>5, <2>7, <2>9, <2>10 DEF LoopInv
<1>2. CASE SplitDone
  BY <1>2 DEF SplitDone, LoopInv, ChunkTypeOK, Pieces
<1>3. CASE Check
  <2>1. /\ valid_chunk_size(chunk) /\ phase = "check" /\ at \in 1..Len(ranges)
        /\ Len(ranges) \in Nat /\ chunk \in Nat /\ at \in Nat /\ expected \in Nat
    BY <1>3 DEF Check, LoopInv, ChunkTypeOK
  <2>2. ranges[at] \in [offset : Nat, size : Nat]
    <3>1. ranges \in Seq([offset : Nat, size : Nat])
      BY DEF LoopInv, ChunkTypeOK
    <3> QED
      BY ZenonT(60), <2>1, <3>1, ElementOfSeq
  <2>3. ranges[at].offset = expected
    <3>1. CASE at = 1
      BY <2>1, <3>1 DEF LoopInv, Pieces
    <3>2. CASE at > 1
      <4>1. at - 1 \in 1..Len(ranges) /\ at - 1 < Len(ranges)
        BY <2>1, <3>2
      <4>2. ranges[at - 1].offset = (at - 1 - 1) * chunk /\ ranges[at - 1].size = chunk
        BY <2>1, <4>1 DEF LoopInv, Pieces
      <4>3. ranges[at].offset = (at - 1) * chunk
        BY ZenonT(60), <2>1 DEF LoopInv, Pieces
      <4>4. (at - 1) * chunk = (at - 1 - 1) * chunk + chunk
        BY <2>1
      <4> QED
        BY <2>1, <3>2, <4>2, <4>3, <4>4 DEF LoopInv
    <3> QED
      BY <2>1, <3>1, <3>2
  <2>4. expected' = expected + ranges[at].size /\ at' = at + 1 /\ phase' = phase
        /\ UNCHANGED <<size, chunk, offset, ranges>>
    BY <1>3, <2>3 DEF Check
  <2>5. expected' = ranges'[at' - 1].offset + ranges'[at' - 1].size
    <3>1. at' - 1 = at
      BY <2>1, <2>4
    <3> QED
      BY <2>3, <2>4, <3>1
  <2>6. ChunkTypeOK'
    BY <2>1, <2>2, <2>4 DEF LoopInv, ChunkTypeOK
  <2> QED
    BY <2>1, <2>4, <2>5, <2>6 DEF LoopInv, Pieces
<1>4. CASE CheckDone
  <2>1. valid_chunk_size(chunk) /\ Len(ranges) \in Nat /\ at = Len(ranges) + 1 /\ offset = size
    BY <1>4 DEF CheckDone, LoopInv, ChunkTypeOK
  <2>2. expected = size
    <3>1. CASE Len(ranges) = 0
      BY <2>1, <3>1 DEF LoopInv
    <3>2. CASE Len(ranges) > 0
      BY <2>1, <3>2 DEF LoopInv, Pieces
    <3> QED
      BY <2>1, <3>1, <3>2
  <2>3. phase' = "accepted"
    BY <1>4, <2>2 DEF CheckDone
  <2> QED
    BY <1>4, <2>1, <2>3 DEF CheckDone, LoopInv, ChunkTypeOK, Pieces
<1>5. CASE UNCHANGED chunkVars
  BY <1>5 DEF chunkVars, LoopInv, ChunkTypeOK, Pieces
<1> QED
  BY <1>1, <1>2, <1>3, <1>4, <1>5 DEF ChunkNext

\* For every stream size and every chunk size, the pieces that chunk_stream
\* returns partition the stream.
THEOREM ChunksPartition == ChunkSpec => []Partition
<1>1. LoopInv => Partition
  <2> SUFFICES ASSUME LoopInv, phase \in {"check", "accepted"}
               PROVE  /\ \A i \in DOMAIN ranges :
                            /\ ranges[i].offset = (i - 1) * chunk
                            /\ ranges[i].size \in 1..chunk
                            /\ i < Len(ranges) => ranges[i].size = chunk
                            /\ i = Len(ranges) => ranges[i].offset + ranges[i].size = size
                      /\ ranges = <<>> <=> size = 0
    BY DEF Partition
  <2>1. valid_chunk_size(chunk) /\ offset = size /\ DOMAIN ranges = 1..Len(ranges)
    BY DEF LoopInv, ChunkTypeOK
  <2>2. ranges = <<>> <=> Len(ranges) = 0
    BY EmptySeq DEF LoopInv, ChunkTypeOK
  <2> QED
    BY ZenonT(60), <2>1, <2>2 DEF LoopInv, Pieces
<1> QED
  BY <1>1, LoopInit, LoopStep, PTL DEF ChunkSpec

\* For every stream size and every valid chunk size, publish's check of the
\* manifest finds no gap, no overlap and the right total.
THEOREM ManifestAccepted == ChunkSpec => []ChunkerPassesCheck
<1>1. LoopInv => ChunkerPassesCheck
  BY DEF LoopInv, ChunkerPassesCheck
<1> QED
  BY <1>1, LoopInit, LoopStep, PTL DEF ChunkSpec

\* Offsets, lengths and loop variables of chunk_stream and of the manifest check
\* stay in range, whatever the arguments.
THEOREM ChunkingTypes == ChunkSpec => []ChunkTypeOK
BY LoopInit, LoopStep, PTL DEF ChunkSpec, LoopInv

\* The bytes left to split, the ranges left to check, and the loop under way.
RoundsLeft == IF phase = "split" THEN size - offset
              ELSE IF phase = "check" THEN Len(ranges) + 1 - at ELSE 0
LoopsLeft == IF phase = "split" THEN 2 ELSE IF phase = "check" THEN 1 ELSE 0

\* Every round of chunk_stream consumes a byte at least and every round of the
\* manifest check a range, and neither loop is entered twice.
LoopsAdvance ==
    [][/\ RoundsLeft \in Nat
       /\ \/ LoopsLeft' < LoopsLeft
          \/ LoopsLeft' = LoopsLeft /\ RoundsLeft' < RoundsLeft]_chunkVars

\* Both loops end after finitely many rounds, whatever the size of the stream and
\* the valid chunk size: a chunk size of zero would never advance the offset, and
\* valid_chunk_size keeps it out.
THEOREM ChunkingAdvances == ChunkSpec => LoopsAdvance
<1> DEFINE Advance == /\ RoundsLeft \in Nat
                      /\ \/ LoopsLeft' < LoopsLeft
                         \/ LoopsLeft' = LoopsLeft /\ RoundsLeft' < RoundsLeft
<1>1. LoopInv /\ [ChunkNext]_chunkVars => [Advance]_chunkVars
  <2> SUFFICES ASSUME LoopInv, ChunkNext PROVE Advance
    OBVIOUS
  <2>0. valid_chunk_size(chunk)
    BY DEF LoopInv, ChunkNext, Split, SplitDone, Check, CheckDone
  <2>1. ChunkTypeOK /\ Len(ranges) \in Nat /\ offset <= size
    BY <2>0 DEF LoopInv, ChunkTypeOK
  <2>2. at <= Len(ranges) + 1
    BY <2>0 DEF LoopInv
  <2>3. RoundsLeft \in Nat
    BY <2>1, <2>2 DEF RoundsLeft, ChunkTypeOK
  <2>4. CASE Split
    <3>1. Take \in Nat \ {0} /\ Take <= size - offset
      BY <2>0, <2>1, <2>4 DEF ChunkTypeOK, valid_chunk_size, Split, Take
    <3> QED
      BY <2>1, <2>3, <2>4, <3>1 DEF Split, RoundsLeft, LoopsLeft, ChunkTypeOK
  <2>5. CASE SplitDone
    BY <2>3, <2>5 DEF SplitDone, LoopsLeft
  <2>6. CASE Check
    BY <2>1, <2>2, <2>3, <2>6 DEF Check, RoundsLeft, LoopsLeft, ChunkTypeOK
  <2>7. CASE CheckDone
    BY <2>3, <2>7 DEF CheckDone, LoopsLeft
  <2> QED
    BY <2>4, <2>5, <2>6, <2>7 DEF ChunkNext
<1> QED
  BY <1>1, LoopInit, LoopStep, PTL DEF ChunkSpec, LoopsAdvance
-----------------------------------------------------------------------------
(***************************************************************************)
(* Frames.                                                                 *)
(***************************************************************************)
\* The cells of two sequences put together.
LEMMA Joined ==
    ASSUME NEW s \in Seq(Nat), NEW t \in Seq(Nat)
    PROVE  /\ s \o t \in Seq(Nat)
           /\ Len(s \o t) \in Nat /\ Len(s) \in Nat /\ Len(t) \in Nat
           /\ Len(s \o t) = Len(s) + Len(t)
           /\ \A i \in 1..Len(s) : (s \o t)[i] = s[i]
           /\ \A i \in 1..Len(t) : (s \o t)[Len(s) + i] = t[i]
OBVIOUS

\* A header, a payload, a checksum and what follows them.
Layout(h, p, c, rest) == ((h \o p) \o c) \o rest

\* The cells of such a sequence v.
HasCells(v, h, p, c, rest) ==
    /\ v \in Seq(Nat)
    /\ Len(v) = Len(h) + Len(p) + Len(c) + Len(rest)
    /\ \A i \in 1..Len(h) : v[i] = h[i]
    /\ \A i \in 1..Len(p) : v[Len(h) + i] = p[i]
    /\ \A i \in 1..Len(c) : v[Len(h) + Len(p) + i] = c[i]

\* Each part is found at its place.
LEMMA LayoutCells ==
    ASSUME NEW h \in Seq(Nat), NEW p \in Seq(Nat), NEW c \in Seq(Nat),
           NEW rest \in Seq(Nat)
    PROVE  HasCells(Layout(h, p, c, rest), h, p, c, rest)
<1> DEFINE a == h \o p
           b == a \o c
           v == Layout(h, p, c, rest)
<1>1. /\ a \in Seq(Nat) /\ Len(a) \in Nat /\ Len(h) \in Nat /\ Len(p) \in Nat
      /\ Len(a) = Len(h) + Len(p)
      /\ \A i \in 1..Len(h) : a[i] = h[i]
      /\ \A i \in 1..Len(p) : a[Len(h) + i] = p[i]
  BY Joined, ZenonT(60)
<1> HIDE DEF a
<1>2. /\ b \in Seq(Nat) /\ Len(b) \in Nat /\ Len(c) \in Nat
      /\ Len(b) = Len(a) + Len(c)
      /\ \A i \in 1..Len(a) : b[i] = a[i]
      /\ \A i \in 1..Len(c) : b[Len(a) + i] = c[i]
  BY <1>1, Joined, ZenonT(60)
<1>0. v = b \o rest
  BY DEF Layout, a
<1> HIDE DEF b, v
<1>3. /\ v \in Seq(Nat) /\ Len(v) \in Nat /\ Len(rest) \in Nat
      /\ Len(v) = Len(b) + Len(rest)
      /\ \A i \in 1..Len(b) : v[i] = b[i]
  <2>1. /\ b \o rest \in Seq(Nat) /\ Len(b \o rest) \in Nat /\ Len(rest) \in Nat
        /\ Len(b \o rest) = Len(b) + Len(rest)
        /\ \A i \in 1..Len(b) : (b \o rest)[i] = b[i]
    BY <1>2, Joined, ZenonT(60)
  <2> QED
    BY <1>0, <2>1, ZenonT(60)
<1>4. /\ Len(h) \in Nat /\ Len(p) \in Nat /\ Len(c) \in Nat
      /\ Len(a) = Len(h) + Len(p) /\ Len(b) = Len(a) + Len(c)
  BY <1>1, <1>2, ZenonT(60)
<1>5. ASSUME NEW i \in 1..Len(h) PROVE v[i] = h[i]
  <2>1. i \in 1..Len(a) /\ i \in 1..Len(b)
    BY <1>4
  <2> QED
    BY <1>1, <1>2, <1>3, <2>1, ZenonT(60)
<1>6. ASSUME NEW i \in 1..Len(p) PROVE v[Len(h) + i] = p[i]
  <2>1. Len(h) + i \in 1..Len(a) /\ Len(h) + i \in 1..Len(b)
    BY <1>4
  <2>2. v[Len(h) + i] = b[Len(h) + i] /\ b[Len(h) + i] = a[Len(h) + i]
    BY <1>2, <1>3, <2>1, ZenonT(60)
  <2> QED
    BY <1>1, <2>2, ZenonT(60)
<1>7. ASSUME NEW i \in 1..Len(c) PROVE v[Len(h) + Len(p) + i] = c[i]
  <2>1. Len(a) + i \in 1..Len(b) /\ Len(a) + i = Len(h) + Len(p) + i
    BY <1>4
  <2>2. v[Len(a) + i] = b[Len(a) + i] /\ b[Len(a) + i] = c[i]
    BY <1>2, <1>3, <2>1, ZenonT(60)
  <2> QED
    BY <2>1, <2>2, ZenonT(60)
<1> QED
  <2>1. Len(v) = Len(h) + Len(p) + Len(c) + Len(rest)
    BY <1>3, <1>4
  <2> QED
    BY <1>3, <1>5, <1>6, <1>7, <2>1, ZenonT(60) DEF HasCells, v

-----------------------------------------------------------------------------
\* The frames that a peer can receive: encode_frame's payload is within the
\* bound, and a checksum is a number.
Sendable(k, p) ==
    k \in 0..kBye /\ p \in Seq(Nat) /\ Len(p) <= kMaxPayloadBytes /\ crc32(p) \in Nat

\* The sequence v starts with the frame of k and p, and has more cells.
HasFrame(v, k, p, more) ==
    /\ v \in Seq(Nat)
    /\ Len(v) = FrameCells(Len(p)) + more
    /\ v[1] = kMagic /\ v[2] = kVersion /\ v[3] = k /\ v[4] = Len(p)
    /\ \A i \in 1..Len(p) : v[HeaderCells + i] = p[i]
    /\ v[FrameCells(Len(p))] = crc32(p)

\* The cells of an encoded frame and of what follows it in a buffer.
LEMMA FrameLayout ==
    ASSUME NEW k, NEW p, Sendable(k, p), NEW rest \in Seq(Nat)
    PROVE  HasFrame(encode_frame(k, p) \o rest, k, p, Len(rest))
<1> DEFINE h == <<kMagic, kVersion, k, Len(p)>>
           c == <<crc32(p)>>
           v == Layout(h, p, c, rest)
<1>1. p \in Seq(Nat) /\ k \in Nat /\ crc32(p) \in Nat /\ Len(p) \in Nat
  BY DEF Sendable, kBye
<1>2. /\ h \in Seq(Nat) /\ Len(h) = 4
      /\ h[1] = kMagic /\ h[2] = kVersion /\ h[3] = k /\ h[4] = Len(p)
  BY <1>1, FramesAssumption
<1>3. c \in Seq(Nat) /\ Len(c) = 1 /\ c[1] = crc32(p)
  BY <1>1
<1>4. v = encode_frame(k, p) \o rest
  BY DEF encode_frame, Layout
<1>0. v = Layout(h, p, c, rest)
  OBVIOUS
<1> HIDE DEF h, c, v
<1>5. /\ v \in Seq(Nat)
      /\ Len(v) = Len(h) + Len(p) + Len(c) + Len(rest)
      /\ \A i \in 1..Len(h) : v[i] = h[i]
      /\ \A i \in 1..Len(p) : v[Len(h) + i] = p[i]
      /\ \A i \in 1..Len(c) : v[Len(h) + Len(p) + i] = c[i]
  <2>1. h \in Seq(Nat) /\ p \in Seq(Nat) /\ c \in Seq(Nat)
    BY <1>1, <1>2, <1>3, ZenonT(60)
  <2>2. HasCells(Layout(h, p, c, rest), h, p, c, rest)
    BY <2>1, LayoutCells, ZenonT(60)
  <2> QED
    BY <1>0, <2>1, <2>2, ZenonT(60) DEF HasCells
<1>6. Len(v) = 4 + Len(p) + 1 + Len(rest)
  BY <1>2, <1>3, <1>5
<1>7. v[1] = kMagic /\ v[2] = kVersion /\ v[3] = k /\ v[4] = Len(p)
  <2>1. v[1] = h[1] /\ v[2] = h[2] /\ v[3] = h[3] /\ v[4] = h[4]
    <3>1. 1 \in 1..Len(h) /\ 2 \in 1..Len(h) /\ 3 \in 1..Len(h) /\ 4 \in 1..Len(h)
      BY <1>2
    <3> QED
      BY <1>5, <3>1, ZenonT(60)
  <2> QED
    BY <1>2, <2>1
<1>8. v[4 + Len(p) + 1] = crc32(p)
  <2>1. 1 \in 1..Len(c)
    BY <1>3
  <2>2. v[Len(h) + Len(p) + 1] = c[1]
    BY <1>5, <2>1, ZenonT(60)
  <2> QED
    BY <1>2, <1>3, <2>2
<1>9. ASSUME NEW i \in 1..Len(p) PROVE v[4 + i] = p[i]
  BY <1>2, <1>5, ZenonT(60)
<1> QED
  <2>1. HasFrame(v, k, p, Len(rest))
    BY ZenonT(60), <1>1, <1>5, <1>6, <1>7, <1>8, <1>9 DEF HasFrame, FrameCells, HeaderCells
  <2> QED
    BY <1>4, <2>1, ZenonT(60)

\* A part of a sequence.
LEMMA Part ==
    ASSUME NEW v \in Seq(Nat), NEW m \in 1..(Len(v) + 1), NEW n \in Nat, m - 1 <= n, n <= Len(v)
    PROVE  /\ SubSeq(v, m, n) \in Seq(Nat)
           /\ Len(SubSeq(v, m, n)) = (n - m) + 1
           /\ \A i \in 1..((n - m) + 1) : SubSeq(v, m, n)[i] = v[(m + i) - 1]
OBVIOUS

\* Sequences with the same cells are the same.
LEMMA SameCells ==
    ASSUME NEW s \in Seq(Nat), NEW t \in Seq(Nat), Len(s) = Len(t),
           \A i \in 1..Len(s) : s[i] = t[i]
    PROVE  s = t
OBVIOUS

\* The payload is found in an encoded frame.
LEMMA PayloadFound ==
    ASSUME NEW v \in Seq(Nat), NEW p \in Seq(Nat), v[4] = Len(p),
           Len(v) >= FrameCells(Len(p)),
           \A i \in 1..Len(p) : v[HeaderCells + i] = p[i]
    PROVE  PayloadOf(v) = p
<1> DEFINE n == 4 + Len(p)
           s == SubSeq(v, 5, n)
<1>1. Len(p) \in Nat /\ Len(v) \in Nat /\ n \in Nat /\ n <= Len(v) /\ 5 \in 1..(Len(v) + 1)
      /\ 5 - 1 <= n /\ (n - 5) + 1 = Len(p)
  BY DEF FrameCells, HeaderCells
<1>2. PayloadOf(v) = s
  BY DEF PayloadOf, HeaderCells
<1> HIDE DEF n
<1>3. /\ s \in Seq(Nat) /\ Len(s) = (n - 5) + 1
      /\ \A i \in 1..((n - 5) + 1) : s[i] = v[(5 + i) - 1]
  BY <1>1, Part, ZenonT(60)
<1> HIDE DEF s
<1>4. ASSUME NEW i \in 1..Len(s) PROVE s[i] = p[i]
  <2>1. (5 + i) - 1 = HeaderCells + i /\ i \in 1..((n - 5) + 1) /\ i \in 1..Len(p)
    BY <1>1, <1>3 DEF HeaderCells
  <2> QED
    BY <1>3, <2>1, ZenonT(60)
<1>5. Len(s) = Len(p)
  BY <1>1, <1>3, ZenonT(60)
<1> QED
  BY <1>2, <1>3, <1>4, <1>5, SameCells, ZenonT(60)

\* An encoded frame on its own.
LEMMA EncodedFrame ==
    ASSUME NEW k, NEW p, Sendable(k, p)
    PROVE  HasFrame(encode_frame(k, p), k, p, 0)
<1>1. encode_frame(k, p) \in Seq(Nat)
  BY FramesAssumption DEF encode_frame, Sendable, kBye
<1>2. encode_frame(k, p) \o <<>> = encode_frame(k, p)
  BY <1>1
<1>3. <<>> \in Seq(Nat) /\ Len(<<>>) = 0
  OBVIOUS
<1>4. HasFrame(encode_frame(k, p) \o <<>>, k, p, Len(<<>>))
  BY <1>3, FrameLayout, ZenonT(60)
<1> QED
  BY <1>2, <1>3, <1>4, ZenonT(60)

\* decode_frame returns the kind and the payload that encode_frame was given.
THEOREM FrameRoundTrip ==
    ASSUME NEW k, NEW p, Sendable(k, p)
    PROVE  decode_frame(encode_frame(k, p)) = Accepted(k, p)
<1> DEFINE v == encode_frame(k, p)
<1>1. HasFrame(v, k, p, 0)
  BY EncodedFrame, ZenonT(60)
<1> HIDE DEF v
<1>2. /\ p \in Seq(Nat) /\ Len(p) \in Nat /\ Len(p) <= kMaxPayloadBytes
      /\ k \in Nat /\ k <= kBye
  BY DEF Sendable, kBye
<1>3. /\ v \in Seq(Nat) /\ Len(v) = FrameCells(Len(p))
      /\ Len(v) >= FrameCells(0) /\ Len(v) >= FrameCells(Len(p)) /\ Len(v) \in Nat
  BY <1>1, <1>2 DEF HasFrame, FrameCells, HeaderCells
<1>4. PayloadOf(v) = p
  BY <1>1, <1>2, <1>3, PayloadFound, ZenonT(60) DEF HasFrame
<1>5. ~ (Len(v) < FrameCells(0)) /\ ~ (k > kBye) /\ ~ (Len(p) > kMaxPayloadBytes)
      /\ ~ (Len(v) < FrameCells(Len(p)))
  BY <1>2, <1>3, FramesAssumption DEF FrameCells, HeaderCells, kBye
<1>6. decode_frame(v) = Accepted(k, p)
  BY <1>1, <1>3, <1>4, <1>5, ZenonT(60) DEF decode_frame, HasFrame
<1> QED
  BY <1>6 DEF v

\* try_read_frame takes exactly the first frame from a buffer that holds it,
\* whatever follows, and says how many cells to drop.
THEOREM BufferedFrameRead ==
    ASSUME NEW k, NEW p, Sendable(k, p), NEW rest \in Seq(Nat)
    PROVE  try_read_frame(encode_frame(k, p) \o rest) =
             Read("ok", Accepted(k, p), Len(encode_frame(k, p)))
<1> DEFINE e == encode_frame(k, p)
           v == e \o rest
           n == FrameCells(Len(p))
           s == SubSeq(v, 1, n)
<1>1. HasFrame(v, k, p, Len(rest)) /\ HasFrame(e, k, p, 0)
  BY FrameLayout, EncodedFrame, ZenonT(60)
<1>2. Len(p) \in Nat /\ Len(p) <= kMaxPayloadBytes /\ n \in Nat /\ Len(rest) \in Nat
  BY DEF Sendable, FrameCells, HeaderCells
<1>3. \A i \in 1..Len(e) : v[i] = e[i]
  BY <1>1, Joined, ZenonT(60) DEF HasFrame
<1> HIDE DEF e, v
<1>4. /\ e \in Seq(Nat) /\ v \in Seq(Nat) /\ Len(v) \in Nat
      /\ Len(e) = n /\ Len(v) = n + Len(rest)
      /\ 1 \in 1..(Len(v) + 1) /\ 1 - 1 <= n /\ n <= Len(v) /\ (n - 1) + 1 = n
  BY <1>1, <1>2 DEF HasFrame
<1> HIDE DEF n
<1>5. s = e
  <2>1. /\ s \in Seq(Nat) /\ Len(s) = (n - 1) + 1
        /\ \A i \in 1..((n - 1) + 1) : s[i] = v[(1 + i) - 1]
    BY <1>2, <1>4, Part, ZenonT(60)
  <2> HIDE DEF s
  <2>2. ASSUME NEW i \in 1..Len(s) PROVE s[i] = e[i]
    <3>1. (1 + i) - 1 = i /\ i \in 1..Len(e) /\ i \in 1..((n - 1) + 1)
      BY <1>2, <1>4, <2>1
    <3> QED
      BY <1>3, <2>1, <3>1, ZenonT(60)
  <2>3. Len(s) = Len(e)
    BY <1>4, <2>1, ZenonT(60)
  <2> QED
    BY <1>4, <2>1, <2>2, <2>3, SameCells, ZenonT(60)
<1>6. decode_frame(s) = Accepted(k, p)
  BY <1>5, FrameRoundTrip, ZenonT(60) DEF e
<1> HIDE DEF s
<1>7. /\ ~ (Len(v) < FrameCells(0)) /\ ~ (Len(p) > kMaxPayloadBytes) /\ ~ (Len(v) < n)
  BY <1>2, <1>4, FramesAssumption DEF n, FrameCells, HeaderCells
<1>8. try_read_frame(v) = IF Accepted(k, p).ok THEN Read("ok", Accepted(k, p), n)
                          ELSE Read("throws", Accepted(k, p), 0)
  BY <1>1, <1>6, <1>7, ZenonT(60) DEF try_read_frame, HasFrame, n, s
<1>9. Accepted(k, p).ok
  BY DEF Accepted
<1> QED
  BY <1>4, <1>8, <1>9, ZenonT(60) DEF v, e

\* try_read_frame asks for more as long as the frame is incomplete: a frame
\* that arrives in pieces is neither refused nor cut short.
THEOREM PartialFrameWaits ==
    ASSUME NEW k, NEW p, Sendable(k, p), NEW n \in Nat, n < Len(encode_frame(k, p))
    PROVE  try_read_frame(SubSeq(encode_frame(k, p), 1, n)) = Read("need_more", NoFrame, 0)
<1> DEFINE e == encode_frame(k, p)
           s == SubSeq(e, 1, n)
<1>1. HasFrame(e, k, p, 0)
  BY EncodedFrame, ZenonT(60)
<1>2. Len(p) \in Nat /\ Len(p) <= kMaxPayloadBytes
  BY DEF Sendable
<1>0. n < Len(e)
  OBVIOUS
<1> HIDE DEF e
<1>3. /\ e \in Seq(Nat) /\ Len(e) \in Nat /\ Len(e) = FrameCells(Len(p))
      /\ 1 \in 1..(Len(e) + 1) /\ 1 - 1 <= n /\ n <= Len(e) /\ (n - 1) + 1 = n
  BY <1>0, <1>1, <1>2 DEF HasFrame, FrameCells, HeaderCells
<1>4. /\ Len(s) = n /\ \A i \in 1..n : s[i] = e[(1 + i) - 1]
  <2>1. /\ s \in Seq(Nat) /\ Len(s) = (n - 1) + 1
        /\ \A i \in 1..((n - 1) + 1) : s[i] = e[(1 + i) - 1]
    BY <1>3, Part, ZenonT(60)
  <2> QED
    BY <1>3, <2>1, ZenonT(60)
<1> HIDE DEF s
<1>5. CASE n < FrameCells(0)
  BY <1>4, <1>5, ZenonT(60) DEF try_read_frame, s, e
<1>6. CASE ~ (n < FrameCells(0))
  <2>1. 1 \in 1..n /\ 4 \in 1..n /\ (1 + 1) - 1 = 1 /\ (1 + 4) - 1 = 4
    BY <1>6 DEF FrameCells, HeaderCells
  <2>2. s[1] = kMagic /\ s[4] = Len(p)
    BY <1>1, <1>4, <2>1 DEF HasFrame
  <2>3. ~ (Len(p) > kMaxPayloadBytes) /\ n < FrameCells(Len(p))
    BY <1>0, <1>2, <1>3, FramesAssumption
  <2> QED
    BY <1>4, <1>6, <2>2, <2>3, ZenonT(60) DEF try_read_frame, s, e
<1> QED
  BY <1>5, <1>6

\* decode_frame accepts a sequence only if it is, cell for cell, what
\* encode_frame makes of the kind and the payload that it returns: nothing is
\* accepted that has a cell too many, too few or out of place.
THEOREM AcceptedIsEncoded ==
    ASSUME NEW v \in Seq(Nat), decode_frame(v).ok
    PROVE  /\ decode_frame(v) = Accepted(v[3], PayloadOf(v))
           /\ v = encode_frame(v[3], PayloadOf(v)) /\ Sendable(v[3], PayloadOf(v))
<1>1. \A x : ~ Rejected(x).ok
  BY DEF Rejected
<1>2. /\ ~ (Len(v) < FrameCells(0)) /\ v[1] = kMagic /\ v[2] = kVersion
      /\ ~ (v[3] > kBye) /\ ~ (v[4] > kMaxPayloadBytes)
      /\ v[FrameCells(v[4])] = crc32(PayloadOf(v)) /\ Len(v) = FrameCells(v[4])
      /\ decode_frame(v) = Accepted(v[3], PayloadOf(v))
  BY <1>1, ZenonT(60) DEF decode_frame
<1> DEFINE p == PayloadOf(v)
           k == v[3]
           e == encode_frame(k, p)
<1>3. v[4] \in Nat /\ v[3] \in Nat /\ Len(v) \in Nat /\ Len(v) = v[4] + 5
      /\ v[FrameCells(v[4])] \in Nat
  <2>1. Len(v) \in Nat /\ Len(v) >= 5 /\ \A i \in 1..Len(v) : v[i] \in Nat
    BY <1>2 DEF FrameCells, HeaderCells
  <2>2. v[3] \in Nat /\ v[4] \in Nat
    BY <2>1
  <2>3. Len(v) = 4 + v[4] + 1 /\ FrameCells(v[4]) = Len(v)
    BY <1>2 DEF FrameCells, HeaderCells
  <2>4. Len(v) = v[4] + 5
    BY <2>1, <2>2, <2>3
  <2>5. v[FrameCells(v[4])] \in Nat
    BY <2>1, <2>3
  <2> QED
    BY <2>1, <2>2, <2>4, <2>5
<1>4. /\ p \in Seq(Nat) /\ Len(p) = v[4]
      /\ \A i \in 1..Len(p) : p[i] = v[HeaderCells + i]
  <2> DEFINE n == 4 + v[4]
  <2>1. /\ n \in Nat /\ 5 \in 1..(Len(v) + 1) /\ 5 - 1 <= n /\ n <= Len(v)
        /\ (n - 5) + 1 = v[4]
    <3>1. Len(v) \in Nat /\ v[4] \in Nat /\ Len(v) = v[4] + 5
      BY <1>3, ZenonT(60)
    <3> QED
      BY <3>1
  <2>2. p = SubSeq(v, 5, n)
    BY DEF PayloadOf, HeaderCells
  <2> HIDE DEF n, p
  <2>3. /\ SubSeq(v, 5, n) \in Seq(Nat) /\ Len(SubSeq(v, 5, n)) = (n - 5) + 1
        /\ \A i \in 1..((n - 5) + 1) : SubSeq(v, 5, n)[i] = v[(5 + i) - 1]
    BY <2>1, Part, ZenonT(60)
  <2>4. ASSUME NEW i \in 1..v[4] PROVE (5 + i) - 1 = HeaderCells + i
    BY <1>3 DEF HeaderCells
  <2>5. p \in Seq(Nat) /\ Len(p) = v[4]
    BY <2>1, <2>2, <2>3, ZenonT(60)
  <2>6. \A i \in 1..v[4] : p[i] = v[HeaderCells + i]
    BY <2>1, <2>2, <2>3, <2>4, ZenonT(60)
  <2> QED
    BY <2>5, <2>6, ZenonT(60)
<1> HIDE DEF p
<1>5. Sendable(k, p)
  <2>1. k \in 0..kBye
    <3>1. v[3] \in Nat /\ ~ (v[3] > kBye)
      BY <1>2, <1>3, ZenonT(60)
    <3>2. \A x \in Nat : ~ (x > kBye) => x \in 0..kBye
      BY DEF kBye
    <3> QED
      BY <3>1, <3>2, ZenonT(60)
  <2>2. Len(p) <= kMaxPayloadBytes
    <3>1. v[4] \in Nat /\ ~ (v[4] > kMaxPayloadBytes) /\ Len(p) = v[4]
      BY <1>2, <1>3, <1>4, ZenonT(60)
    <3> QED
      BY <3>1, FramesAssumption
  <2>3. crc32(p) \in Nat
    BY <1>2, <1>3, ZenonT(60) DEF p
  <2> QED
    BY <1>4, <2>1, <2>2, <2>3, ZenonT(60) DEF Sendable
<1>6. HasFrame(e, k, p, 0)
  BY <1>5, EncodedFrame, ZenonT(60)
<1> HIDE DEF k, e
<1>7. e \in Seq(Nat) /\ Len(e) = Len(v)
  BY <1>2, <1>3, <1>4, <1>6 DEF HasFrame, FrameCells, HeaderCells
<1>8. ASSUME NEW i \in 1..Len(v) PROVE v[i] = e[i]
  <2>1. i \in 1..4 \/ (i \in 5..(4 + v[4])) \/ i = FrameCells(v[4])
    BY <1>3 DEF FrameCells, HeaderCells
  <2>2. CASE i \in 1..4
    <3>1. i = 1 \/ i = 2 \/ i = 3 \/ i = 4
      BY <2>2
    <3> QED
      BY <1>2, <1>4, <1>6, <3>1, ZenonT(60) DEF HasFrame, k
  <2>3. CASE i \in 5..(4 + v[4])
    <3>1. i - 4 \in 1..Len(p) /\ HeaderCells + (i - 4) = i
      BY <1>3, <1>4, <2>3 DEF HeaderCells
    <3>2. p[i - 4] = v[HeaderCells + (i - 4)] /\ e[HeaderCells + (i - 4)] = p[i - 4]
      BY <1>4, <1>6, <3>1, ZenonT(60) DEF HasFrame
    <3> QED
      BY <3>1, <3>2, ZenonT(60)
  <2>4. CASE i = FrameCells(v[4])
    BY <1>2, <1>4, <1>6, <2>4, ZenonT(60) DEF HasFrame, p
  <2> QED
    BY <2>1, <2>2, <2>3, <2>4
<1>9. v = e
  BY <1>7, <1>8, SameCells, ZenonT(60)
<1> QED
  BY <1>2, <1>5, <1>9, ZenonT(60) DEF e, k, p

-----------------------------------------------------------------------------
(***************************************************************************)
(* Streams of frames: what one side has sent, the other has read in part   *)
(* and the rest of which is on the way.                                    *)
(***************************************************************************)
\* Of a stream g, b has been read and s is on the way; the rest is lost.
Cut(g, b, s) == \E m, n \in 0..Len(g) : m <= n /\ b = SubSeq(g, 1, m) /\ s = SubSeq(g, m + 1, n)

\* The two parts of a cut stream.
LEMMA CutCells ==
    ASSUME NEW g \in Seq(Nat), NEW m \in 0..Len(g), NEW n \in 0..Len(g), m <= n
    PROVE  /\ SubSeq(g, 1, m) \in Seq(Nat) /\ Len(SubSeq(g, 1, m)) = m
           /\ \A i \in 1..m : SubSeq(g, 1, m)[i] = g[i]
           /\ SubSeq(g, m + 1, n) \in Seq(Nat) /\ Len(SubSeq(g, m + 1, n)) = n - m
           /\ \A i \in 1..(n - m) : SubSeq(g, m + 1, n)[i] = g[m + i]
OBVIOUS

\* A frame that has been sent, and of which nothing has been read.
LEMMA CutAll ==
    ASSUME NEW g \in Seq(Nat)
    PROVE  Cut(g, <<>>, g)
<1>1. Len(g) \in Nat /\ 0 \in 0..Len(g) /\ Len(g) \in 0..Len(g) /\ 0 <= Len(g)
  OBVIOUS
<1>2. SubSeq(g, 1, 0) = <<>>
  OBVIOUS
<1>3. SubSeq(g, 0 + 1, Len(g)) = g
  OBVIOUS
<1> QED
  BY <1>1, <1>2, <1>3, ZenonT(60) DEF Cut

\* What one recv of read_exact leaves in the buffer and on the stream: no more
\* than was wanted is taken, and cells keep their order.
LEMMA ReceivedCells ==
    ASSUME NEW b \in Seq(Nat), NEW s \in Seq(Nat), NEW x \in Received(b, s)
    PROVE  \E n \in 1..Len(s) :
              /\ n <= Wanted(b) - Len(b)
              /\ x[1] = b \o SubSeq(s, 1, n) /\ x[2] = SubSeq(s, n + 1, Len(s))
              /\ x[1] \in Seq(Nat) /\ Len(x[1]) = Len(b) + n
              /\ x[2] \in Seq(Nat) /\ Len(x[2]) = Len(s) - n
              /\ \A i \in 1..Len(b) : x[1][i] = b[i]
              /\ \A i \in 1..n : x[1][Len(b) + i] = s[i]
              /\ \A i \in 1..(Len(s) - n) : x[2][i] = s[n + i]
<1>1. PICK n \in 1..Len(s) : /\ n <= Wanted(b) - Len(b)
                             /\ x = <<b \o SubSeq(s, 1, n), SubSeq(s, n + 1, Len(s))>>
  BY ZenonT(60) DEF Received
<1>2. x[1] = b \o SubSeq(s, 1, n) /\ x[2] = SubSeq(s, n + 1, Len(s))
  BY ZenonT(60), <1>1
<1> DEFINE t == SubSeq(s, 1, n)
           r == SubSeq(s, n + 1, Len(s))
<1>3. /\ t \in Seq(Nat) /\ Len(t) = n /\ \A i \in 1..n : t[i] = s[i]
      /\ r \in Seq(Nat) /\ Len(r) = Len(s) - n /\ \A i \in 1..(Len(s) - n) : r[i] = s[n + i]
  <2>1. n \in 0..Len(s) /\ Len(s) \in 0..Len(s) /\ n <= Len(s)
    OBVIOUS
  <2> QED
    BY <2>1, CutCells, ZenonT(60)
<1> HIDE DEF t, r
<1>4. /\ b \o t \in Seq(Nat) /\ Len(b \o t) = Len(b) + n
      /\ \A i \in 1..Len(b) : (b \o t)[i] = b[i]
      /\ \A i \in 1..n : (b \o t)[Len(b) + i] = t[i]
  BY <1>3, Joined, ZenonT(60)
<1>5. x[1] = b \o t /\ x[2] = r
  BY <1>2 DEF t, r
<1>6. \A i \in 1..n : x[1][Len(b) + i] = s[i]
  BY <1>3, <1>4, <1>5, ZenonT(60)
<1> QED
  BY <1>1, <1>2, <1>3, <1>4, <1>5, <1>6, ZenonT(60)

\* Reading moves the cut.
LEMMA CutRead ==
    ASSUME NEW g \in Seq(Nat), NEW b, NEW s, Cut(g, b, s), NEW x \in Received(b, s)
    PROVE  Cut(g, x[1], x[2])
<1>1. PICK m \in 0..Len(g), n \in 0..Len(g) :
             m <= n /\ b = SubSeq(g, 1, m) /\ s = SubSeq(g, m + 1, n)
  BY ZenonT(60) DEF Cut
<1>2. /\ b \in Seq(Nat) /\ Len(b) = m /\ \A i \in 1..m : b[i] = g[i]
      /\ s \in Seq(Nat) /\ Len(s) = n - m /\ \A i \in 1..(n - m) : s[i] = g[m + i]
  BY <1>1, CutCells, ZenonT(60)
<1>3. PICK k \in 1..Len(s) :
              /\ x[1] \in Seq(Nat) /\ Len(x[1]) = Len(b) + k
              /\ x[2] \in Seq(Nat) /\ Len(x[2]) = Len(s) - k
              /\ \A i \in 1..Len(b) : x[1][i] = b[i]
              /\ \A i \in 1..k : x[1][Len(b) + i] = s[i]
              /\ \A i \in 1..(Len(s) - k) : x[2][i] = s[k + i]
  BY <1>2, ReceivedCells, ZenonT(60)
<1> DEFINE q == m + k
<1>4. /\ q \in 0..Len(g) /\ q <= n /\ k \in Nat /\ m \in Nat /\ n \in Nat /\ k <= n - m /\ k >= 1
      /\ Len(g) \in Nat /\ q = m + k
  <2>1. m <= n /\ Len(s) = n - m /\ k \in 1..Len(s)
    BY <1>1, <1>2, ZenonT(60)
  <2> QED
    BY <2>1
<1> HIDE DEF q
<1>5. /\ SubSeq(g, 1, q) \in Seq(Nat) /\ Len(SubSeq(g, 1, q)) = q
      /\ \A i \in 1..q : SubSeq(g, 1, q)[i] = g[i]
      /\ SubSeq(g, q + 1, n) \in Seq(Nat) /\ Len(SubSeq(g, q + 1, n)) = n - q
      /\ \A i \in 1..(n - q) : SubSeq(g, q + 1, n)[i] = g[q + i]
  BY <1>4, CutCells, ZenonT(60)
<1>6. x[1] = SubSeq(g, 1, q)
  <2>1. Len(x[1]) = q /\ Len(x[1]) = Len(SubSeq(g, 1, q))
    BY <1>2, <1>3, <1>4, <1>5, ZenonT(60)
  <2>2. ASSUME NEW i \in 1..q PROVE x[1][i] = g[i]
    <3>1. i \in 1..m \/ (i - m \in 1..k /\ m + (i - m) = i /\ i - m \in 1..(n - m))
      BY <1>4
    <3>2. CASE i \in 1..m
      BY <1>2, <1>3, <3>2, ZenonT(60)
    <3>3. CASE i - m \in 1..k /\ m + (i - m) = i /\ i - m \in 1..(n - m)
      <4>1. x[1][m + (i - m)] = s[i - m] /\ s[i - m] = g[m + (i - m)]
        BY <1>2, <1>3, <3>3, ZenonT(60)
      <4> QED
        BY <3>3, <4>1, ZenonT(60)
    <3> QED
      BY <3>1, <3>2, <3>3
  <2>3. \A i \in 1..Len(x[1]) : x[1][i] = SubSeq(g, 1, q)[i]
    BY <1>5, <2>1, <2>2, ZenonT(60)
  <2> QED
    BY <1>3, <1>5, <2>1, <2>3, SameCells, ZenonT(60)
<1>7. x[2] = SubSeq(g, q + 1, n)
  <2>1. Len(x[2]) = n - q /\ Len(x[2]) = Len(SubSeq(g, q + 1, n))
    <3>1. (n - m) - k = n - q
      BY <1>4
    <3> QED
      BY <1>2, <1>3, <1>5, <3>1, ZenonT(60)
  <2>2. ASSUME NEW i \in 1..(n - q) PROVE x[2][i] = g[q + i]
    <3>1. i \in 1..((n - m) - k) /\ k + i \in 1..(n - m) /\ m + (k + i) = q + i
      BY <1>4
    <3>2. x[2][i] = s[k + i] /\ s[k + i] = g[m + (k + i)]
      BY <1>2, <1>3, <3>1, ZenonT(60)
    <3> QED
      BY <3>1, <3>2, ZenonT(60)
  <2>3. \A i \in 1..Len(x[2]) : x[2][i] = SubSeq(g, q + 1, n)[i]
    BY <1>5, <2>1, <2>2, ZenonT(60)
  <2> QED
    BY <1>3, <1>5, <2>1, <2>3, SameCells, ZenonT(60)
<1> QED
  BY <1>4, <1>6, <1>7, ZenonT(60) DEF Cut

\* A killed worker can lose the end of what it sent.
LEMMA CutKill ==
    ASSUME NEW g \in Seq(Nat), NEW b, NEW s, Cut(g, b, s), NEW k \in 0..Len(s)
    PROVE  Cut(g, b, SubSeq(s, 1, k))
<1>1. PICK m \in 0..Len(g), n \in 0..Len(g) :
             m <= n /\ b = SubSeq(g, 1, m) /\ s = SubSeq(g, m + 1, n)
  BY ZenonT(60) DEF Cut
<1>2. s \in Seq(Nat) /\ Len(s) = n - m /\ \A i \in 1..(n - m) : s[i] = g[m + i]
  BY <1>1, CutCells, ZenonT(60)
<1> DEFINE q == m + k
           t == SubSeq(s, 1, k)
           u == SubSeq(g, m + 1, q)
<1>3. /\ q \in 0..Len(g) /\ m <= q /\ k = q - m /\ Len(s) \in Nat /\ k <= n - m
      /\ k \in Nat /\ n - m \in Nat
  <2>1. m <= n /\ Len(s) = n - m
    BY <1>1, <1>2, ZenonT(60)
  <2> QED
    BY <2>1
<1> HIDE DEF q
<1>4. u \in Seq(Nat) /\ Len(u) = q - m /\ \A i \in 1..(q - m) : u[i] = g[m + i]
  BY <1>3, CutCells, ZenonT(60)
<1>5. t \in Seq(Nat) /\ Len(t) = k /\ \A i \in 1..k : t[i] = s[i]
  <2>1. k \in 0..Len(s) /\ k <= k
    BY <1>3
  <2> QED
    BY <1>2, <2>1, CutCells, ZenonT(60)
<1>6. t = u
  <2> HIDE DEF t, u
  <2>1. ASSUME NEW i \in 1..k PROVE t[i] = u[i]
    <3>1. i \in 1..(n - m)
      BY <1>3
    <3> QED
      BY <1>2, <1>3, <1>4, <1>5, <3>1, ZenonT(60)
  <2>2. Len(t) = Len(u)
    BY <1>3, <1>4, <1>5, ZenonT(60)
  <2> QED
    BY <1>4, <1>5, <2>1, <2>2, SameCells, ZenonT(60)
<1> QED
  BY <1>1, <1>3, <1>6, ZenonT(60) DEF Cut

\* A damaged cell on the way is a damaged cell of the stream.
LEMMA CutDamage ==
    ASSUME NEW g \in Seq(Nat), NEW b, NEW s, Cut(g, b, s), NEW i \in DOMAIN s, NEW v \in Nat
    PROVE  \E j \in DOMAIN g : Cut([g EXCEPT ![j] = v], b, [s EXCEPT ![i] = v])
<1>1. PICK m \in 0..Len(g), n \in 0..Len(g) :
             m <= n /\ b = SubSeq(g, 1, m) /\ s = SubSeq(g, m + 1, n)
  BY ZenonT(60) DEF Cut
<1>2. /\ b \in Seq(Nat) /\ Len(b) = m /\ \A x \in 1..m : b[x] = g[x]
      /\ s \in Seq(Nat) /\ Len(s) = n - m /\ \A x \in 1..(n - m) : s[x] = g[m + x]
  BY <1>1, CutCells, ZenonT(60)
<1> DEFINE j == m + i
           h == [g EXCEPT ![j] = v]
           r == [s EXCEPT ![i] = v]
<1>3. /\ i \in 1..(n - m) /\ j \in 1..Len(g) /\ j \in DOMAIN g /\ j > m /\ j = m + i
      /\ m \in Nat /\ n \in Nat /\ i \in Nat /\ Len(g) \in Nat /\ n <= Len(g) /\ m <= n
  <2>1. m <= n /\ Len(s) = n - m /\ DOMAIN s = 1..Len(s)
    BY <1>1, <1>2
  <2> QED
    BY <2>1
<1>4. h \in Seq(Nat) /\ Len(h) = Len(g) /\ \A x \in 1..Len(g) : h[x] = IF x = j THEN v ELSE g[x]
  BY <1>3
<1>5. r \in Seq(Nat) /\ Len(r) = Len(s) /\ \A x \in 1..Len(s) : r[x] = IF x = i THEN v ELSE s[x]
  BY <1>2
<1> HIDE DEF h, r, j
<1>6. m \in 0..Len(h) /\ n \in 0..Len(h)
  BY <1>4
<1>7. /\ SubSeq(h, 1, m) \in Seq(Nat) /\ Len(SubSeq(h, 1, m)) = m
      /\ \A x \in 1..m : SubSeq(h, 1, m)[x] = h[x]
      /\ SubSeq(h, m + 1, n) \in Seq(Nat) /\ Len(SubSeq(h, m + 1, n)) = n - m
      /\ \A x \in 1..(n - m) : SubSeq(h, m + 1, n)[x] = h[m + x]
  BY <1>1, <1>4, <1>6, CutCells, ZenonT(60)
<1>8. b = SubSeq(h, 1, m)
  <2>1. ASSUME NEW x \in 1..m PROVE b[x] = h[x]
    <3>1. x \in 1..Len(g) /\ x # j
      BY <1>3
    <3> QED
      BY <1>2, <1>4, <3>1, ZenonT(60)
  <2> QED
    BY <1>2, <1>7, <2>1, SameCells, ZenonT(60)
<1>9. r = SubSeq(h, m + 1, n)
  <2>1. ASSUME NEW x \in 1..(n - m) PROVE r[x] = h[m + x]
    <3>0. m \in Nat /\ n \in Nat /\ i \in Nat /\ Len(g) \in Nat /\ n <= Len(g) /\ j = m + i
      BY <1>3, ZenonT(60)
    <3>1. m + x \in 1..Len(g) /\ (m + x = j <=> x = i)
      BY <3>0
    <3> QED
      BY <1>2, <1>4, <1>5, <3>1, ZenonT(60)
  <2>2. Len(r) = n - m /\ Len(r) = Len(SubSeq(h, m + 1, n))
    BY <1>2, <1>5, <1>7, ZenonT(60)
  <2>3. \A x \in 1..Len(r) : r[x] = SubSeq(h, m + 1, n)[x]
    BY <1>7, <2>1, <2>2, ZenonT(60)
  <2> QED
    BY <1>5, <1>7, <2>2, <2>3, SameCells, ZenonT(60)
<1> QED
  <2>1. Cut(h, b, r)
    BY <1>1, <1>6, <1>8, <1>9, ZenonT(60) DEF Cut
  <2> QED
    BY <1>3, <2>1, ZenonT(60) DEF h, r

\* A frame e can have become g on the way.
Arrives(e, g) ==
    g = e \/ (damages > 0 /\ \E i \in DOMAIN e, v \in Cells : g = [e EXCEPT ![i] = v])

\* No cell has been damaged, or one at most can be and the checksum detects it.
Trusted == damages = 0 \/ (MaxDamages <= 1 /\ DetectsDamage)

\* Nothing is in an empty stream.
LEMMA EmptyLengths == \A q : q = <<>> => Len(q) # 1 /\ 1..Len(q) = {}
OBVIOUS

\* The requests of workers, and the replies to them, can be sent.
LEMMA PayloadsSendable ==
    ASSUME NEW k \in 0..kBye, NEW p \in Payloads
    PROVE  /\ Sendable(k, p) /\ p \in Seq(Nat) /\ encode_frame(k, p) \in Seq(Nat)
           /\ Len(encode_frame(k, p)) = FrameCells(Len(p))
<1>1. Sendable(k, p) /\ p \in Seq(Nat)
  BY ServiceAssumption, ZenonT(60) DEF Sendable
<1>2. HasFrame(encode_frame(k, p), k, p, 0)
  BY <1>1, EncodedFrame, ZenonT(60)
<1>3. Len(p) \in Nat
  BY <1>1
<1> QED
  BY <1>1, <1>2, <1>3 DEF HasFrame, FrameCells, HeaderCells

\* A frame in which one cell was damaged, or what has been read of it, either
\* does not decode or has the payload that was sent: with another length the
\* checksum is not where decode_frame looks for it, and with another payload it
\* does not fit.
THEOREM OneDamageIsDetected ==
    ASSUME DetectsDamage, NEW k \in 0..kBye, NEW p \in Payloads,
           NEW i \in DOMAIN encode_frame(k, p), NEW v \in Cells,
           NEW n \in 0..Len(encode_frame(k, p)), NEW b,
           b = SubSeq([encode_frame(k, p) EXCEPT ![i] = v], 1, n), decode_frame(b).ok
    PROVE  decode_frame(b).payload = p
<1> DEFINE e == encode_frame(k, p)
           g == [e EXCEPT ![i] = v]
           q == PayloadOf(b)
<1>1. /\ Sendable(k, p) /\ p \in Seq(Nat) /\ Len(p) \in Nat /\ e \in Seq(Nat)
      /\ HasFrame(e, k, p, 0)
  <2>1. Sendable(k, p) /\ p \in Seq(Nat) /\ e \in Seq(Nat)
    BY PayloadsSendable, ZenonT(60)
  <2> QED
    BY <2>1, EncodedFrame
<1>2. v \in Nat
  BY ServiceAssumption
<1>3. /\ Len(e) = Len(p) + 5 /\ e[4] = Len(p) /\ e[Len(p) + 5] = crc32(p)
      /\ \A j \in 1..Len(p) : e[4 + j] = p[j]
  BY <1>1 DEF HasFrame, FrameCells, HeaderCells
<1>4. i \in 1..(Len(p) + 5) /\ n \in 0..(Len(p) + 5)
  BY <1>1, <1>3
<1> HIDE DEF e
<1>5. /\ g \in Seq(Nat) /\ Len(g) = Len(p) + 5 /\ g[i] = v
      /\ \A j \in 1..(Len(p) + 5) : j # i => g[j] = e[j]
  BY <1>1, <1>2, <1>3, <1>4
<1>6. b = SubSeq(g, 1, n)
  BY DEF e
<1> HIDE DEF g
<1>7. b \in Seq(Nat) /\ Len(b) = n /\ \A j \in 1..n : b[j] = g[j]
  BY <1>4, <1>5, <1>6
<1>8. /\ decode_frame(b) = Accepted(b[3], q)
      /\ b = encode_frame(b[3], q) /\ Sendable(b[3], q)
  BY <1>7, AcceptedIsEncoded, ZenonT(60)
<1>9. HasFrame(b, b[3], q, 0)
  <2>1. HasFrame(encode_frame(b[3], q), b[3], q, 0)
    BY <1>8, EncodedFrame, ZenonT(60)
  <2> QED
    BY <1>8, <2>1, ZenonT(60)
<1> HIDE DEF q
<1>10. /\ q \in Seq(Nat) /\ Len(q) \in Nat /\ n = Len(q) + 5 /\ b[4] = Len(q)
       /\ b[Len(q) + 5] = crc32(q) /\ \A j \in 1..Len(q) : b[4 + j] = q[j]
  BY <1>7, <1>8, <1>9 DEF HasFrame, FrameCells, HeaderCells, Sendable
<1>11. Len(q) <= Len(p) /\ g[4] = Len(q) /\ g[Len(q) + 5] = crc32(q)
       /\ \A j \in 1..Len(q) : g[4 + j] = q[j]
  <2>1. Len(q) <= Len(p) /\ 4 \in 1..n /\ Len(q) + 5 \in 1..n
    BY <1>1, <1>4, <1>10
  <2>2. \A j \in 1..Len(q) : 4 + j \in 1..n
    BY <1>10
  <2> QED
    BY <1>7, <1>10, <2>1, <2>2, ZenonT(60)
<1>12. CASE Len(q) < Len(p)
  <2>1. i = 4
    BY <1>1, <1>3, <1>5, <1>11, <1>12
  <2>2. ASSUME NEW j \in 1..(Len(q) + 1) PROVE g[4 + j] = p[j]
    <3>1. j \in 1..Len(p) /\ 4 + j \in 1..(Len(p) + 5) /\ 4 + j # i
      BY <1>1, <1>10, <1>12, <2>1
    <3> QED
      BY <1>3, <1>5, <3>1, ZenonT(60)
  <2>3. \A j \in 1..Len(q) : q[j] = p[j]
    <3>1. \A j \in 1..Len(q) : j \in 1..(Len(q) + 1)
      BY <1>10
    <3> QED
      BY <1>11, <2>2, <3>1, ZenonT(60)
  <2>4. crc32(q) = p[Len(q) + 1]
    <3>1. Len(q) + 1 \in 1..(Len(q) + 1) /\ 4 + (Len(q) + 1) = Len(q) + 5
      BY <1>10
    <3> QED
      BY <1>11, <2>2, <3>1, ZenonT(60)
  <2>5. q = SubSeq(p, 1, Len(q))
    BY <1>1, <1>10, <1>12, <2>3
  <2>6. Len(q) \in 0..(Len(p) - 1)
    BY <1>1, <1>10, <1>12
  <2> QED
    BY <2>4, <2>5, <2>6, ZenonT(60) DEF DetectsDamage
<1>13. CASE Len(q) = Len(p) /\ i \in 5..(Len(p) + 4)
  <2> DEFINE h == i - 4
             r == [p EXCEPT ![h] = v]
  <2>1. h \in DOMAIN p /\ h \in 1..Len(p)
    BY <1>1, <1>13
  <2>2. r \in Seq(Nat) /\ Len(r) = Len(p) /\ r[h] = v /\ \A j \in 1..Len(p) : j # h => r[j] = p[j]
    BY <1>1, <1>2, <2>1
  <2>3. ASSUME NEW j \in 1..Len(q) PROVE q[j] = r[j]
    <3>1. CASE j = h
      <4>1. 4 + j = i
        BY <1>1, <1>13, <3>1
      <4> QED
        BY <1>5, <1>11, <2>2, <3>1, <4>1, ZenonT(60)
    <3>2. CASE j # h
      <4>1. 4 + j # i /\ 4 + j \in 1..(Len(p) + 5) /\ j \in 1..Len(p)
        BY <1>1, <1>13, <2>1, <3>2
      <4> QED
        BY <1>3, <1>5, <1>11, <2>2, <3>2, <4>1, ZenonT(60)
    <3> QED
      BY <3>1, <3>2
  <2>4. crc32(q) = crc32(p)
    <3>1. Len(q) + 5 \in 1..(Len(p) + 5) /\ Len(q) + 5 # i /\ Len(q) = Len(p)
      BY <1>1, <1>13
    <3> QED
      BY <1>3, <1>5, <1>11, <3>1, ZenonT(60)
  <2> HIDE DEF r
  <2>5. q = r
    BY <1>10, <1>13, <2>2, <2>3, SameCells, ZenonT(60)
  <2>6. v = p[h]
    BY <2>1, <2>4, <2>5, ZenonT(60) DEF DetectsDamage, r
  <2>7. \A j \in 1..Len(q) : q[j] = p[j]
    BY <1>13, <2>2, <2>5, <2>6, ZenonT(60)
  <2>8. q = p
    BY <1>1, <1>10, <1>13, <2>7, SameCells, ZenonT(60)
  <2> QED
    BY <1>8, <2>8 DEF Accepted
<1>14. CASE Len(q) = Len(p) /\ i \notin 5..(Len(p) + 4)
  <2>1. ASSUME NEW j \in 1..Len(q) PROVE q[j] = p[j]
    <3>1. j \in 1..Len(p) /\ 4 + j \in 1..(Len(p) + 5) /\ 4 + j # i
      BY <1>1, <1>14
    <3> QED
      BY <1>3, <1>5, <1>11, <3>1, ZenonT(60)
  <2>2. q = p
    BY <1>1, <1>10, <1>14, <2>1, SameCells, ZenonT(60)
  <2> QED
    BY <1>8, <2>2 DEF Accepted
<1> QED
  BY <1>1, <1>10, <1>11, <1>12, <1>13, <1>14

\* A frame keeps its length on the way.
LEMMA ArrivalsTyped ==
    ASSUME NEW e \in Seq(Nat), NEW g, Arrives(e, g)
    PROVE  g \in Seq(Nat) /\ Len(g) = Len(e)
<1>1. CASE g = e
  BY <1>1
<1>2. ASSUME NEW i \in DOMAIN e, NEW v \in Cells, g = [e EXCEPT ![i] = v]
      PROVE  g \in Seq(Nat) /\ Len(g) = Len(e)
  <2>1. v \in Nat
    BY ServiceAssumption
  <2> QED
    BY <1>2, <2>1
<1> QED
  BY <1>1, <1>2, ZenonT(60) DEF Arrives

\* Once the loop has read as much as it wants of an undamaged frame, it has read
\* the frame, and nothing is left.
LEMMA WholeFrame ==
    ASSUME NEW k, NEW p, Sendable(k, p), NEW b, NEW s,
           Cut(encode_frame(k, p), b, s), Complete(b)
    PROVE  b = encode_frame(k, p)
<1> DEFINE e == encode_frame(k, p)
<1>1. HasFrame(e, k, p, 0)
  BY EncodedFrame, ZenonT(60)
<1>2. PICK m \in 0..Len(e), n \in 0..Len(e) :
             m <= n /\ b = SubSeq(e, 1, m) /\ s = SubSeq(e, m + 1, n)
  BY ZenonT(60) DEF Cut
<1> HIDE DEF e
<1>3. e \in Seq(Nat) /\ Len(p) \in Nat /\ Len(e) = 4 + Len(p) + 1 /\ e[4] = Len(p)
  BY <1>1 DEF HasFrame, FrameCells, HeaderCells, Sendable
<1>4. b \in Seq(Nat) /\ Len(b) = m /\ \A i \in 1..m : b[i] = e[i]
  BY <1>2, <1>3, CutCells, ZenonT(60)
<1>5. m >= 4
  BY <1>4 DEF Complete, Wanted, HeaderCells, FrameCells
<1>6. b[4] = Len(p)
  <2>1. 4 \in 1..m
    BY <1>5
  <2> QED
    BY <1>3, <1>4, <2>1, ZenonT(60)
<1>7. m = Len(e)
  <2>1. Len(b) = m /\ m \in Nat
    BY <1>4
  <2>2. m = IF m < 4 THEN 4 ELSE 4 + Len(p) + 1
    BY <1>6, <2>1 DEF Complete, Wanted, HeaderCells, FrameCells
  <2> QED
    BY <1>3, <1>5, <2>1, <2>2
<1>8. b = e
  BY <1>3, <1>4, <1>7, SameCells, ZenonT(60)
<1> QED
  BY <1>8 DEF e

\* Nothing is left of a stream that has been read to its end.
LEMMA CutEnd ==
    ASSUME NEW g \in Seq(Nat), NEW b, NEW s, Cut(g, b, s), Len(b) = Len(g)
    PROVE  s = <<>>
<1>1. PICK m \in 0..Len(g), n \in 0..Len(g) :
             m <= n /\ b = SubSeq(g, 1, m) /\ s = SubSeq(g, m + 1, n)
  BY ZenonT(60) DEF Cut
<1>2. Len(b) = m /\ s \in Seq(Nat) /\ Len(s) = n - m
  BY <1>1, CutCells, ZenonT(60)
<1>3. Len(s) = 0
  BY <1>1, <1>2
<1> QED
  BY <1>2, <1>3

\* A frame that decodes has the payload that was sent, and, if nothing was
\* damaged, its kind.
LEMMA DecodedAsSent ==
    ASSUME Trusted, NEW k \in 0..kBye, NEW p \in Payloads,
           NEW g, Arrives(encode_frame(k, p), g), NEW b \in Seq(Nat), NEW s,
           Cut(g, b, s), Complete(b), decode_frame(b).ok
    PROVE  /\ decode_frame(b) = Accepted(b[3], p)
           /\ damages = 0 => b[3] = k
           /\ s = <<>>
<1> DEFINE e == encode_frame(k, p)
<1>1. /\ Sendable(k, p) /\ p \in Seq(Nat) /\ e \in Seq(Nat)
      /\ Len(e) = FrameCells(Len(p))
  BY PayloadsSendable, ZenonT(60)
<1>2. g \in Seq(Nat) /\ Len(g) = Len(e)
  BY <1>1, ArrivalsTyped, ZenonT(60)
<1>3. /\ decode_frame(b) = Accepted(b[3], PayloadOf(b))
      /\ b = encode_frame(b[3], PayloadOf(b)) /\ Sendable(b[3], PayloadOf(b))
  BY AcceptedIsEncoded, ZenonT(60)
<1>4. CASE g = e
  <2>1. b = e
    BY <1>1, <1>4, WholeFrame, ZenonT(60)
  <2>2. decode_frame(b) = Accepted(k, p)
    BY <1>1, <2>1, FrameRoundTrip, ZenonT(60)
  <2>3. HasFrame(e, k, p, 0)
    BY <1>1, EncodedFrame, ZenonT(60)
  <2>4. b[3] = k
    BY <2>1, <2>3, ZenonT(60) DEF HasFrame
  <2>5. s = <<>>
    BY <1>2, <1>4, <2>1, CutEnd, ZenonT(60)
  <2> QED
    BY <2>2, <2>4, <2>5, ZenonT(60)
<1>5. CASE g # e
  <2>1. PICK i \in DOMAIN e, v \in Cells : g = [e EXCEPT ![i] = v]
    BY <1>5, ZenonT(60) DEF Arrives
  <2>2. damages # 0
    BY <1>5 DEF Arrives
  <2>3. DetectsDamage
    BY <2>2 DEF Trusted
  <2>4. PICK m \in 0..Len(g) : b = SubSeq(g, 1, m)
    BY ZenonT(60) DEF Cut
  <2>5. decode_frame(b).payload = p
    <3>1. m \in 0..Len(e) /\ b = SubSeq([e EXCEPT ![i] = v], 1, m)
      BY <1>2, <2>1, <2>4, ZenonT(60)
    <3> QED
      BY <2>3, <3>1, OneDamageIsDetected, ZenonT(60)
  <2>6. PayloadOf(b) = p
    BY <1>3, <2>5 DEF Accepted
  <2>7. HasFrame(b, b[3], p, 0)
    BY <1>3, <2>6, EncodedFrame, ZenonT(60)
  <2>8. Len(b) = Len(g)
    BY <1>1, <1>2, <2>7 DEF HasFrame, FrameCells, HeaderCells
  <2>9. s = <<>>
    BY <1>2, <2>8, CutEnd, ZenonT(60)
  <2> QED
    BY <1>3, <2>2, <2>6, <2>9, ZenonT(60)
<1> QED
  BY <1>4, <1>5

\* What decode_frame returns, and that a reply with an accepted payload can be
\* sent.
LEMMA DecodedTyped ==
    ASSUME NEW v \in Seq(Nat)
    PROVE  /\ decode_frame(v) \in Decoded
           /\ decode_frame(v).ok => \A k \in {kAck, kNack} :
                 encode_frame(k, decode_frame(v).payload) \in Seq(Nat)
<1>1. CASE decode_frame(v).ok
  <2> DEFINE p == PayloadOf(v)
  <2>1. decode_frame(v) = Accepted(v[3], p) /\ Sendable(v[3], p)
    BY <1>1, AcceptedIsEncoded, ZenonT(60)
  <2> HIDE DEF p
  <2>2. v[3] \in Nat /\ p \in Seq(Nat)
    BY <2>1 DEF Sendable, kBye
  <2>3. decode_frame(v) \in Decoded /\ decode_frame(v).payload = p
    BY <2>1, <2>2 DEF Decoded, Accepted, Errors
  <2>4. ASSUME NEW k \in {kAck, kNack} PROVE encode_frame(k, p) \in Seq(Nat)
    <3>1. k \in 0..kBye
      BY DEF kAck, kNack, kBye
    <3>2. Sendable(k, p)
      BY <2>1, <3>1, ZenonT(60) DEF Sendable
    <3> QED
      BY <3>2, EncodedFrame, ZenonT(60) DEF HasFrame
  <2> QED
    BY <2>3, <2>4, ZenonT(60)
<1>2. CASE ~ decode_frame(v).ok
  <2>1. \A k, p : Accepted(k, p).ok
    BY DEF Accepted
  <2>2. \E x \in Errors : decode_frame(v) = Rejected(x)
    BY <1>2, <2>1, ZenonT(60) DEF decode_frame, Errors
  <2>3. \A x \in Errors : Rejected(x) \in Decoded
    BY DEF Rejected, Decoded
  <2> QED
    BY <1>2, <2>2, <2>3, ZenonT(60)
<1> QED
  BY <1>1, <1>2

-----------------------------------------------------------------------------
(***************************************************************************)
(* The serve loop and its workers.                                         *)
(***************************************************************************)
\* The loop never holds more than it wants of a frame.
TypeInv == TypeOK /\ Len(buf) <= Wanted(buf)

\* A recv leaves cells, and no more than wanted in the buffer.
LEMMA ReceivedWanted ==
    ASSUME NEW b \in Seq(Nat), NEW s \in Seq(Nat), NEW x \in Received(b, s)
    PROVE  x[1] \in Seq(Nat) /\ x[2] \in Seq(Nat) /\ Len(x[1]) <= Wanted(x[1])
<1>1. PICK n \in 1..Len(s) :
              /\ n <= Wanted(b) - Len(b)
              /\ x[1] \in Seq(Nat) /\ Len(x[1]) = Len(b) + n /\ x[2] \in Seq(Nat)
              /\ \A i \in 1..Len(b) : x[1][i] = b[i]
  BY ReceivedCells, ZenonT(60)
<1> DEFINE y == x[1]
<1>2. /\ y \in Seq(Nat) /\ Len(y) = Len(b) + n /\ Len(b) \in Nat /\ n \in Nat
      /\ Len(y) \in Nat /\ n <= Wanted(b) - Len(b)
  BY <1>1
<1>3. Len(b) >= 4 => y[4] = b[4] /\ b[4] \in Nat
  <2> SUFFICES ASSUME Len(b) >= 4 PROVE y[4] = b[4] /\ b[4] \in Nat
    OBVIOUS
  <2>1. 4 \in 1..Len(b)
    OBVIOUS
  <2>2. b[4] \in Nat
    BY <2>1
  <2> QED
    BY <1>1, <2>1, <2>2, ZenonT(60)
<1> HIDE DEF y
<1>4. Len(y) >= 4 => y[4] \in Nat
  BY <1>2
<1>5. Len(y) <= Wanted(y)
  <2>1. CASE Len(b) < 4
    <3>1. Len(y) <= 4
      BY <1>2, <2>1 DEF Wanted, HeaderCells
    <3> QED
      BY <1>2, <1>4, <3>1 DEF Wanted, HeaderCells, FrameCells
  <2>2. CASE ~ (Len(b) < 4)
    <3>0. b[4] \in Nat /\ y[4] = b[4] /\ Wanted(b) = 4 + b[4] + 1
      BY <1>2, <1>3, <2>2 DEF Wanted, HeaderCells, FrameCells
    <3>a. \A l, k, c \in Nat : k <= (4 + c + 1) - l => l + k <= 4 + c + 1
      OBVIOUS
    <3>b. Len(y) <= 4 + b[4] + 1
      BY <1>2, <3>0, <3>a, ZenonT(60)
    <3>1. b[4] \in Nat /\ y[4] = b[4] /\ Len(y) <= 4 + b[4] + 1 /\ ~ (Len(y) < 4)
      BY <1>2, <2>2, <3>0, <3>b
    <3> QED
      BY <3>1 DEF Wanted, HeaderCells, FrameCells
  <2> QED
    BY <2>1, <2>2
<1> QED
  BY <1>1, <1>5 DEF y

\* The loop starts with nothing.
LEMMA TypeInit == Init => TypeInv
<1> SUFFICES ASSUME Init PROVE TypeInv
  OBVIOUS
<1>1. NoFrame \in Decoded
  BY DEF NoFrame, Rejected, Decoded, Errors
<1>2. <<>> \in Seq(Nat) /\ <<>> \in Seq(Decoded) /\ <<>> \in Seq(Workers) /\ Len(<<>>) = 0
  OBVIOUS
<1>3. TypeOK
  BY <1>1, <1>2, ServiceAssumption DEF Init, TypeOK
<1>4. Len(buf) <= Wanted(buf)
  BY <1>2 DEF Init, Wanted, HeaderCells
<1> QED
  BY <1>3, <1>4 DEF TypeInv

\* A connection joins the queue only once.
LEMMA QueueGrows ==
    ASSUME TypeOK, NEW w \in Workers, Connect(w)
    PROVE  /\ queue' \in Seq(Workers) /\ Len(queue') <= Backlog
           /\ \A i, j \in DOMAIN queue' : queue'[i] # conn /\ (queue'[i] = queue'[j] => i = j)
           /\ \A x : Served(x)' <=> (Served(x) \/ x = w)
<1>1. /\ queue' = Append(queue, w) /\ Len(queue) < Backlog /\ conn' = conn
      /\ conn # w /\ \A i \in DOMAIN queue : queue[i] # w
  BY DEF Connect, Served
<1>2. /\ queue \in Seq(Workers) /\ Len(queue) \in Nat /\ Backlog \in Nat
      /\ \A i, j \in 1..Len(queue) : queue[i] # conn /\ (queue[i] = queue[j] => i = j)
  <2>1. queue \in Seq(Workers) /\ Backlog \in Nat
    BY ServiceAssumption DEF TypeOK
  <2>2. DOMAIN queue = 1..Len(queue) /\ Len(queue) \in Nat
    BY <2>1
  <2> QED
    BY <2>1, <2>2, ZenonT(60) DEF TypeOK
<1>3. /\ queue' \in Seq(Workers) /\ Len(queue') = Len(queue) + 1
      /\ DOMAIN queue' = 1..(Len(queue) + 1) /\ DOMAIN queue = 1..Len(queue)
      /\ \A i \in 1..Len(queue) : queue'[i] = queue[i]
      /\ queue'[Len(queue) + 1] = w
  BY <1>1, <1>2
<1>4. Len(queue') <= Backlog
  BY <1>1, <1>2, <1>3
<1>5. \A i \in 1..(Len(queue) + 1) : i \in 1..Len(queue) \/ i = Len(queue) + 1
  BY <1>2
<1>6. \A i \in 1..Len(queue) : i \in 1..(Len(queue) + 1) /\ Len(queue) + 1 \in 1..(Len(queue) + 1)
  BY <1>2
<1>7. \A i, j \in DOMAIN queue' : queue'[i] # conn /\ (queue'[i] = queue'[j] => i = j)
  <2> SUFFICES ASSUME NEW i \in 1..(Len(queue) + 1), NEW j \in 1..(Len(queue) + 1)
               PROVE  queue'[i] # conn /\ (queue'[i] = queue'[j] => i = j)
    BY <1>3, ZenonT(60)
  <2>1. CASE i \in 1..Len(queue) /\ j \in 1..Len(queue)
    BY <1>2, <1>3, <2>1, ZenonT(60)
  <2>2. CASE i \in 1..Len(queue) /\ j = Len(queue) + 1
    BY <1>1, <1>2, <1>3, <2>2, ZenonT(60)
  <2>3. CASE i = Len(queue) + 1 /\ j \in 1..Len(queue)
    BY <1>1, <1>2, <1>3, <2>3, ZenonT(60)
  <2>4. CASE i = Len(queue) + 1 /\ j = Len(queue) + 1
    BY <1>1, <1>3, <2>4, ZenonT(60)
  <2> QED
    BY <1>5, <2>1, <2>2, <2>3, <2>4, ZenonT(60)
<1>8. Len(queue) + 1 \in 1..(Len(queue) + 1)
  BY <1>2
<1>9. \A x : Served(x)' <=> (Served(x) \/ x = w)
  BY <1>1, <1>3, <1>5, <1>6, <1>8, ZenonT(60) DEF Served
<1> QED
  BY <1>3, <1>4, <1>7, <1>9, ZenonT(60)

\* The accepted connection leaves the queue.
LEMMA QueueShrinks ==
    ASSUME TypeOK, Accept
    PROVE  /\ queue' \in Seq(Workers) /\ Len(queue') <= Backlog /\ conn' \in Workers
           /\ \A i, j \in DOMAIN queue' : queue'[i] # conn' /\ (queue'[i] = queue'[j] => i = j)
           /\ \A x \in Workers : Served(x)' <=> Served(x)
<1> DEFINE n == Len(queue)
<1>1. queue' = Tail(queue) /\ conn' = Head(queue) /\ queue # <<>> /\ conn = NoConn
  BY DEF Accept
<1>2. /\ queue \in Seq(Workers) /\ n \in Nat /\ n <= Backlog /\ Backlog \in Nat
      /\ \A i, j \in 1..n : queue[i] = queue[j] => i = j
      /\ DOMAIN queue = 1..n
  <2>1. queue \in Seq(Workers) /\ Backlog \in Nat
    BY ServiceAssumption DEF TypeOK
  <2>2. DOMAIN queue = 1..n /\ n \in Nat
    BY <2>1
  <2> QED
    BY <2>1, <2>2, ZenonT(60) DEF TypeOK
<1>3. /\ n >= 1 /\ queue' \in Seq(Workers) /\ Len(queue') = n - 1
      /\ DOMAIN queue' = 1..(n - 1) /\ conn' = queue[1] /\ conn' \in Workers
      /\ \A i \in 1..(n - 1) : queue'[i] = queue[i + 1]
  BY <1>1, <1>2
<1> HIDE DEF n
<1>4. /\ 1 \in 1..n /\ n - 1 <= Backlog
      /\ \A i \in 1..(n - 1) : i + 1 \in 1..n /\ i + 1 # 1
      /\ \A i, j \in 1..(n - 1) : i + 1 = j + 1 => i = j
  <2>1. n >= 1 /\ n \in Nat /\ n <= Backlog /\ Backlog \in Nat
    BY <1>2, <1>3, ZenonT(60)
  <2> QED
    BY <2>1
<1>5. \A i, j \in DOMAIN queue' : queue'[i] # conn' /\ (queue'[i] = queue'[j] => i = j)
  <2> SUFFICES ASSUME NEW i \in 1..(n - 1), NEW j \in 1..(n - 1)
               PROVE  queue'[i] # conn' /\ (queue'[i] = queue'[j] => i = j)
    BY <1>3, ZenonT(60)
  <2>1. queue'[i] = queue[i + 1] /\ queue'[j] = queue[j + 1] /\ conn' = queue[1]
    BY <1>3, ZenonT(60)
  <2>2. queue[i + 1] # queue[1] /\ (queue[i + 1] = queue[j + 1] => i + 1 = j + 1)
    BY <1>2, <1>4, ZenonT(60)
  <2> QED
    BY <1>4, <2>1, <2>2, ZenonT(60)
<1>6. \A i \in 1..n : i = 1 \/ (i - 1 \in 1..(n - 1) /\ (i - 1) + 1 = i)
  <2>1. n \in Nat
    BY <1>2, ZenonT(60)
  <2> QED
    BY <2>1
<1>7. ASSUME NEW x \in Workers PROVE Served(x)' <=> Served(x)
  <2>1. conn # x
    BY <1>1, ServiceAssumption DEF NoConn
  <2>2. Served(x) <=> \E i \in 1..n : queue[i] = x
    BY <1>2, <2>1, ZenonT(60) DEF Served
  <2>3. Served(x)' <=> (queue[1] = x \/ \E i \in 1..(n - 1) : queue[i + 1] = x)
    BY <1>3, ZenonT(60) DEF Served
  <2> QED
    BY <1>4, <1>6, <2>2, <2>3, ZenonT(60)
<1> QED
  BY <1>3, <1>4, <1>5, <1>7, ZenonT(60)

\* Every step of a worker or of the loop keeps the types.
LEMMA TypeStep == TypeInv /\ [Next]_vars => TypeInv'
<1> SUFFICES ASSUME TypeInv, [Next]_vars PROVE TypeInv'
  OBVIOUS
<1>0. TypeOK /\ Len(buf) <= Wanted(buf)
  BY DEF TypeInv
<1>a. <<>> \in Seq(Nat) /\ <<>> \in Seq(Decoded) /\ <<>> \in Seq(Workers) /\ Len(<<>>) = 0
      /\ Len(<<>>) <= Wanted(<<>>) /\ DOMAIN <<>> = {}
  BY DEF Wanted, HeaderCells
<1>b. NoFrame \in Decoded
  BY DEF NoFrame, Rejected, Decoded, Errors
<1>c. ASSUME NEW w \in Workers, Connect(w),
             step' \in [Workers -> {"off", "waiting", "exiting"}],
             req' \in [Workers -> Requests \cup {NoRequest}], up' \in [Workers -> Seq(Nat)]
      PROVE  TypeInv'
  <2>1. /\ queue' \in Seq(Workers) /\ Len(queue') <= Backlog
        /\ \A i, j \in DOMAIN queue' : queue'[i] # conn /\ (queue'[i] = queue'[j] => i = j)
    BY <1>0, <1>c, QueueGrows, ZenonT(60)
  <2>2. UNCHANGED <<alive, conn, buf, down, rbuf, reply, damages>> /\ seen' = [seen EXCEPT ![w] = <<>>]
    BY <1>c DEF Connect
  <2>3. seen' \in [Workers -> Seq(Decoded)]
    BY <1>0, <1>a, <2>2 DEF TypeOK
  <2> QED
    BY <1>0, <1>c, <2>1, <2>2, <2>3, ZenonT(60) DEF TypeOK, TypeInv, Wanted
<1>d. ASSUME NEW w \in Workers, Close(w), up' \in [Workers -> Seq(Nat)]
      PROVE  TypeInv'
  <2>1. UNCHANGED <<alive, queue, conn, buf, req, seen, damages>>
    BY <1>d DEF Close, loopVars
  <2>2. /\ step' \in [Workers -> {"off", "waiting", "exiting"}]
        /\ down' \in [Workers -> Seq(Nat)] /\ rbuf' \in [Workers -> Seq(Nat)]
        /\ reply' \in [Workers -> Decoded]
    BY ZenonT(60), <1>0, <1>a, <1>b, <1>d DEF Close, TypeOK
  <2> QED
    BY <1>0, <1>d, <2>1, <2>2, ZenonT(60) DEF TypeOK, TypeInv, Wanted
<1>1. ASSUME NEW w \in Workers, NEW r \in Requests, request(w, r) PROVE TypeInv'
  <2>1. encode_frame(r.kind, r.payload) \in Seq(Nat)
    <3>1. r.kind \in 0..kBye /\ r.payload \in Payloads
      <4>1. r.kind \in Kinds /\ r.payload \in Payloads
        BY DEF Requests
      <4>2. 0..(kAck - 1) \subseteq 0..kBye
        BY DEF kAck, kBye
      <4> QED
        BY <4>1, <4>2, ServiceAssumption, ZenonT(60)
    <3> QED
      BY <3>1, PayloadsSendable, ZenonT(60)
  <2>2. /\ step' \in [Workers -> {"off", "waiting", "exiting"}]
        /\ req' \in [Workers -> Requests \cup {NoRequest}] /\ up' \in [Workers -> Seq(Nat)]
    BY ZenonT(60), <1>0, <1>1, <2>1 DEF request, TypeOK
  <2> QED
    BY <1>1, <1>c, <2>2 DEF request
<1>2. ASSUME NEW w \in Workers, Sleep(w) PROVE TypeInv'
  <2>1. /\ step' \in [Workers -> {"off", "waiting", "exiting"}]
        /\ req' \in [Workers -> Requests \cup {NoRequest}] /\ up' \in [Workers -> Seq(Nat)]
    BY ZenonT(60), <1>0, <1>2, <1>a DEF Sleep, TypeOK
  <2> QED
    BY <1>2, <1>c, <2>1 DEF Sleep
<1>3. ASSUME NEW w \in Workers, RecvReply(w) PROVE TypeInv'
  <2>1. PICK x \in Received(rbuf[w], down[w]) :
               rbuf' = [rbuf EXCEPT ![w] = x[1]] /\ down' = [down EXCEPT ![w] = x[2]]
    BY ZenonT(60), <1>3 DEF RecvReply
  <2>2. rbuf[w] \in Seq(Nat) /\ down[w] \in Seq(Nat)
    BY <1>0 DEF TypeOK
  <2>3. x[1] \in Seq(Nat) /\ x[2] \in Seq(Nat)
    BY <2>2, ReceivedWanted, ZenonT(60)
  <2>4. rbuf' \in [Workers -> Seq(Nat)] /\ down' \in [Workers -> Seq(Nat)]
    BY ZenonT(60), <1>0, <2>1, <2>3 DEF TypeOK
  <2>5. UNCHANGED <<alive, queue, conn, buf, step, req, reply, up, seen, damages>>
    BY ZenonT(60), <1>3 DEF RecvReply, loopVars
  <2> QED
    BY <1>0, <2>4, <2>5, ZenonT(60) DEF TypeOK, TypeInv, Wanted
<1>4. ASSUME NEW w \in Workers, TakeReply(w) PROVE TypeInv'
  <2>1. decode_frame(rbuf[w]) \in Decoded
    <3>1. rbuf[w] \in Seq(Nat)
      BY <1>0 DEF TypeOK
    <3> QED
      BY <3>1, DecodedTyped, ZenonT(60)
  <2>2. /\ step' \in [Workers -> {"off", "waiting", "exiting"}]
        /\ reply' \in [Workers -> Decoded]
    BY <1>0, <1>4, <2>1 DEF TakeReply, TypeOK
  <2>3. UNCHANGED <<alive, queue, conn, buf, req, rbuf, up, down, seen, damages>>
    BY <1>4 DEF TakeReply, loopVars
  <2> QED
    BY <1>0, <2>2, <2>3, ZenonT(60) DEF TypeOK, TypeInv, Wanted
<1>5. ASSUME NEW w \in Workers, ReplyLost(w) PROVE TypeInv'
  <2>1. step' \in [Workers -> {"off", "waiting", "exiting"}]
    BY ZenonT(60), <1>0, <1>5 DEF ReplyLost, TypeOK
  <2>2. UNCHANGED <<alive, queue, conn, buf, req, rbuf, reply, up, down, seen, damages>>
    BY ZenonT(60), <1>5 DEF ReplyLost, loopVars
  <2> QED
    BY <1>0, <2>1, <2>2, ZenonT(60) DEF TypeOK, TypeInv, Wanted
<1>6. ASSUME NEW w \in Workers, Exit(w) PROVE TypeInv'
  <2>1. up' \in [Workers -> Seq(Nat)]
    BY <1>0, <1>6 DEF Exit, TypeOK
  <2> QED
    BY <1>6, <1>d, <2>1 DEF Exit
<1>7. ASSUME NEW w \in Workers, Kill(w) PROVE TypeInv'
  <2>1. PICK n \in 0..Len(up[w]) : up' = [up EXCEPT ![w] = SubSeq(up[w], 1, n)]
    BY ZenonT(60), <1>7 DEF Kill
  <2>2. up[w] \in Seq(Nat) /\ up \in [Workers -> Seq(Nat)]
    BY <1>0 DEF TypeOK
  <2>3. SubSeq(up[w], 1, n) \in Seq(Nat)
    BY <2>2
  <2>4. up' \in [Workers -> Seq(Nat)]
    BY <2>1, <2>2, <2>3
  <2> QED
    BY <1>7, <1>d, <2>4 DEF Kill
<1>8. ASSUME NEW w \in Workers, Damage(w) PROVE TypeInv'
  <2>1. damages' \in 0..MaxDamages
    <3>1. damages \in 0..MaxDamages /\ MaxDamages \in Nat
      BY <1>0, ServiceAssumption DEF TypeOK
    <3>2. damages < MaxDamages /\ damages' = damages + 1
      BY <1>8 DEF Damage
    <3> QED
      BY <3>1, <3>2
  <2>2. UNCHANGED <<alive, queue, conn, buf, step, req, rbuf, reply, seen>>
    BY <1>8 DEF Damage, loopVars, workerVars
  <2>3. up' \in [Workers -> Seq(Nat)] /\ down' \in [Workers -> Seq(Nat)]
    <3>1. up \in [Workers -> Seq(Nat)] /\ down \in [Workers -> Seq(Nat)]
      BY ZenonT(60), <1>0 DEF TypeOK
    <3>2. \A s \in Seq(Nat), v \in Cells : \A i \in DOMAIN s : [s EXCEPT ![i] = v] \in Seq(Nat)
      BY ServiceAssumption
    <3>3. PICK v \in Cells :
             \/ /\ \E i \in DOMAIN up[w] : up' = [up EXCEPT ![w] = [up[w] EXCEPT ![i] = v]]
                /\ UNCHANGED down
             \/ /\ \E i \in DOMAIN down[w] : down' = [down EXCEPT ![w] = [down[w] EXCEPT ![i] = v]]
                /\ UNCHANGED up
      BY <1>8 DEF Damage
    <3>4. up[w] \in Seq(Nat) /\ down[w] \in Seq(Nat)
      BY <3>1
    <3>5. \A f \in [Workers -> Seq(Nat)], s \in Seq(Nat) : [f EXCEPT ![w] = s] \in [Workers -> Seq(Nat)]
      OBVIOUS
    <3>6. ASSUME NEW i \in DOMAIN up[w], up' = [up EXCEPT ![w] = [up[w] EXCEPT ![i] = v]], UNCHANGED down
          PROVE  up' \in [Workers -> Seq(Nat)] /\ down' \in [Workers -> Seq(Nat)]
      <4>1. [up[w] EXCEPT ![i] = v] \in Seq(Nat)
        BY <3>2, <3>4, ZenonT(60)
      <4> QED
        BY <3>1, <3>5, <3>6, <4>1, ZenonT(60)
    <3>7. ASSUME NEW i \in DOMAIN down[w], down' = [down EXCEPT ![w] = [down[w] EXCEPT ![i] = v]], UNCHANGED up
          PROVE  up' \in [Workers -> Seq(Nat)] /\ down' \in [Workers -> Seq(Nat)]
      <4>1. [down[w] EXCEPT ![i] = v] \in Seq(Nat)
        BY <3>2, <3>4, ZenonT(60)
      <4> QED
        BY <3>1, <3>5, <3>7, <4>1, ZenonT(60)
    <3> QED
      BY <3>3, <3>6, <3>7, ZenonT(60)
  <2> QED
    BY <1>0, <2>1, <2>2, <2>3, ZenonT(60) DEF TypeOK, TypeInv, Wanted
<1>9. CASE Accept
  <2>1. /\ queue' \in Seq(Workers) /\ Len(queue') <= Backlog /\ conn' \in Workers
        /\ \A i, j \in DOMAIN queue' : queue'[i] # conn' /\ (queue'[i] = queue'[j] => i = j)
    BY <1>0, <1>9, QueueShrinks, ZenonT(60)
  <2>2. UNCHANGED <<alive, buf, step, req, rbuf, reply, up, down, seen, damages>>
    BY <1>9 DEF Accept, workerVars
  <2>3. conn' # NoConn
    BY <2>1, ServiceAssumption DEF NoConn
  <2> QED
    BY <1>0, <2>1, <2>2, <2>3, ZenonT(60) DEF TypeOK, TypeInv, Wanted
<1>10. CASE Recv
  <2>1. PICK x \in Received(buf, up[conn]) : buf' = x[1] /\ up' = [up EXCEPT ![conn] = x[2]]
    BY ZenonT(60), <1>10 DEF Recv
  <2>2. conn \in Workers /\ buf \in Seq(Nat) /\ up[conn] \in Seq(Nat)
    BY <1>0, <1>10 DEF Recv, TypeOK
  <2>3. x[1] \in Seq(Nat) /\ x[2] \in Seq(Nat) /\ Len(x[1]) <= Wanted(x[1])
    BY <2>2, ReceivedWanted, ZenonT(60)
  <2>4. up' \in [Workers -> Seq(Nat)]
    BY ZenonT(60), <1>0, <2>1, <2>3 DEF TypeOK
  <2>5. UNCHANGED <<alive, queue, conn, step, req, rbuf, reply, down, seen, damages>> /\ conn # NoConn
    BY <1>10 DEF Recv, workerVars
  <2>6. TypeOK'
    BY <1>0, <2>1, <2>3, <2>4, <2>5, ZenonT(60) DEF TypeOK
  <2>7. Len(buf') <= Wanted(buf')
    BY <2>1, <2>3, ZenonT(60)
  <2> QED
    BY <2>6, <2>7, ZenonT(60) DEF TypeInv, Wanted
<1>e. ASSUME buf' = <<>>, UNCHANGED <<step, req, rbuf, reply, damages>>, alive' \in BOOLEAN,
             \/ conn' = conn /\ queue' = queue
             \/ conn' = NoConn /\ queue' \in {queue, <<>>},
             up' \in [Workers -> Seq(Nat)], down' \in [Workers -> Seq(Nat)],
             seen' \in [Workers -> Seq(Decoded)]
      PROVE  TypeInv'
  <2>0. TypeOK' => TypeInv'
    <3>1. Len(buf') <= Wanted(buf')
      BY <1>a, <1>e, ZenonT(60)
    <3> QED
      BY <3>1, ZenonT(60) DEF TypeInv, Wanted
  <2>1. CASE conn' = conn /\ queue' = queue
    BY <1>0, <1>a, <1>e, <2>0, <2>1, ZenonT(60) DEF TypeOK
  <2>2. CASE conn' = NoConn /\ queue' = queue
    <3>1. \A i \in DOMAIN queue : queue[i] # NoConn
      BY <1>0, ServiceAssumption DEF TypeOK, NoConn
    <3> QED
      BY <1>0, <1>a, <1>e, <2>0, <2>2, <3>1, ZenonT(60) DEF TypeOK
  <2>3. CASE conn' = NoConn /\ queue' = <<>>
    <3>1. Len(<<>>) <= Backlog
      BY <1>a, ServiceAssumption
    <3>2. TypeOK'
      BY <1>0, <1>a, <1>e, <2>3, <3>1, ZenonT(60) DEF TypeOK
    <3> QED
      BY <2>0, <3>2, ZenonT(60)
  <2> QED
    BY <1>e, <2>1, <2>2, <2>3, ZenonT(60)
<1>11. CASE Hangup
  <2>1. up' \in [Workers -> Seq(Nat)]
    BY ZenonT(60), <1>0, <1>11, <1>a DEF Hangup, TypeOK
  <2>2. /\ alive' \in BOOLEAN /\ down' \in [Workers -> Seq(Nat)]
        /\ seen' \in [Workers -> Seq(Decoded)]
        /\ UNCHANGED <<queue, step, req, rbuf, reply, damages>> /\ conn' = NoConn /\ buf' = <<>>
    BY <1>0, <1>11 DEF Hangup, TypeOK, workerVars
  <2> QED
    BY <1>e, <2>1, <2>2, ZenonT(60)
<1>12. CASE Dispatch
  <2> DEFINE f == decode_frame(buf)
  <2>1. conn \in Workers /\ buf \in Seq(Nat) /\ f.ok
    BY <1>0, <1>12 DEF Dispatch, Ready, TypeOK
  <2>2. /\ f \in Decoded
        /\ \A k \in {kAck, kNack} : encode_frame(k, f.payload) \in Seq(Nat)
    BY <2>1, DecodedTyped, ZenonT(60)
  <2>3. PICK k \in Answers(f.kind) :
          down' = [down EXCEPT ![conn] = IF step[conn] = "off" THEN <<>>
                                         ELSE encode_frame(k, f.payload)]
    BY ZenonT(60), <1>12 DEF Dispatch
  <2>4. seen' = [seen EXCEPT ![conn] = Append(seen[conn], f)]
    BY <1>12 DEF Dispatch
  <2>5. /\ alive' \in BOOLEAN /\ up' \in [Workers -> Seq(Nat)] /\ buf' = <<>>
        /\ UNCHANGED <<queue, conn, step, req, rbuf, reply, damages>>
    BY <1>0, <1>12 DEF Dispatch, TypeOK, workerVars
  <2> HIDE DEF f
  <2>6. down' \in [Workers -> Seq(Nat)]
    <3>1. encode_frame(k, f.payload) \in Seq(Nat)
      BY <2>2, ZenonT(60) DEF Answers
    <3> QED
      BY ZenonT(60), <1>0, <1>a, <2>3, <3>1 DEF TypeOK
  <2>7. seen' \in [Workers -> Seq(Decoded)]
    <3>1. seen[conn] \in Seq(Decoded) /\ seen \in [Workers -> Seq(Decoded)]
      BY <1>0, <2>1 DEF TypeOK
    <3>2. Append(seen[conn], f) \in Seq(Decoded)
      BY <2>2, <3>1
    <3> QED
      BY ZenonT(60), <2>4, <3>1, <3>2
  <2> QED
    BY <1>e, <2>5, <2>6, <2>7, ZenonT(60)
<1>13. CASE Terminate
  <2>1. /\ alive' \in BOOLEAN /\ down' \in [Workers -> Seq(Nat)]
        /\ seen' \in [Workers -> Seq(Decoded)] /\ up' \in [Workers -> Seq(Nat)]
        /\ UNCHANGED <<step, req, rbuf, reply, damages>>
        /\ conn' = NoConn /\ buf' = <<>> /\ queue' = <<>>
    BY ZenonT(60), <1>0, <1>13, <1>a DEF Terminate, TypeOK, workerVars
  <2> QED
    BY <1>e, <2>1, ZenonT(60)
<1>14. CASE Restart
  <2>1. /\ alive' \in BOOLEAN
        /\ UNCHANGED <<queue, conn, buf, step, req, rbuf, reply, up, down, seen, damages>>
    BY <1>14 DEF Restart, workerVars
  <2> QED
    BY <1>0, <2>1, ZenonT(60) DEF TypeOK, TypeInv, Wanted
<1>15. CASE UNCHANGED vars
  <2>1. UNCHANGED <<alive, queue, conn, buf, step, req, rbuf, reply, up, down, seen, damages>>
    BY <1>15 DEF vars, loopVars, workerVars
  <2> QED
    BY <1>0, <2>1, ZenonT(60) DEF TypeOK, TypeInv, Wanted
<1> QED
  BY ZenonT(60), <1>1, <1>2, <1>3, <1>4, <1>5, <1>6, <1>7, <1>8, <1>9, <1>10, <1>11, <1>12, <1>13,
     <1>14, <1>15 DEF Next, Work, Loop

-----------------------------------------------------------------------------
\* What the loop has read of the connection of w.
Got(w) == IF conn = w THEN buf ELSE <<>>

\* What is on its way from a worker, or read in part, is the one frame of its
\* request, which has not been dispatched yet.
RequestInv(w) ==
    \/ Got(w) = <<>> /\ up[w] = <<>>
    \/ /\ Served(w) /\ seen[w] = <<>> /\ req[w] \in Requests
       /\ \E g : Arrives(encode_frame(req[w].kind, req[w].payload), g) /\ Cut(g, Got(w), up[w])

\* What is on its way to a worker, or read in part, is the one answer to what
\* has been dispatched for it.
AnswerInv(w) ==
    \/ rbuf[w] = <<>> /\ down[w] = <<>>
    \/ /\ step[w] # "off" /\ Len(seen[w]) = 1 /\ req[w] \in Requests
       /\ \E k, g : /\ k \in Answers(seen[w][1].kind)
                     /\ Arrives(encode_frame(k, req[w].payload), g) /\ Cut(g, rbuf[w], down[w])

\* DispatchedAsSent and ReplyIsOwn for one worker.
SeenInv(w) ==
    seen[w] # <<>> =>
        /\ Len(seen[w]) = 1
        /\ seen[w][1].payload = req[w].payload
        /\ damages = 0 => seen[w][1].kind = req[w].kind
OwnInv(w) ==
    /\ step[w] = "off" => ~ reply[w].ok
    /\ reply[w].ok =>
          /\ Len(seen[w]) = 1
          /\ reply[w].payload = req[w].payload
          /\ damages = 0 => reply[w].kind \in Answers(req[w].kind)

StreamInv == \A w \in Workers : RequestInv(w) /\ AnswerInv(w) /\ SeenInv(w) /\ OwnInv(w)

\* A step that leaves a worker and its connection alone keeps what is known of
\* them.
LEMMA RequestUntouched ==
    ASSUME NEW w, RequestInv(w), Served(w)' = Served(w), Got(w)' = Got(w), up'[w] = up[w],
           seen'[w] = seen[w], req'[w] = req[w], damages' = damages
    PROVE  RequestInv(w)'
BY ZenonT(60) DEF RequestInv, Arrives

LEMMA AnswerUntouched ==
    ASSUME NEW w, AnswerInv(w), rbuf'[w] = rbuf[w], down'[w] = down[w],
           (step'[w] = "off") = (step[w] = "off"),
           seen'[w] = seen[w], req'[w] = req[w], damages' = damages
    PROVE  AnswerInv(w)'
BY ZenonT(60) DEF AnswerInv, Arrives

LEMMA SeenUntouched ==
    ASSUME NEW w, SeenInv(w), seen'[w] = seen[w], req'[w] = req[w], damages' = damages
    PROVE  SeenInv(w)'
BY ZenonT(60) DEF SeenInv

LEMMA OwnUntouched ==
    ASSUME NEW w, OwnInv(w), (step'[w] = "off") = (step[w] = "off"), reply'[w] = reply[w],
           seen'[w] = seen[w], req'[w] = req[w], damages' = damages
    PROVE  OwnInv(w)'
BY ZenonT(60) DEF OwnInv

\* Kinds of requests and of answers.
LEMMA KindsKnown ==
    /\ \A r \in Requests : r.kind \in 0..kBye /\ r.payload \in Payloads
    /\ \A kind : \A k \in Answers(kind) : k \in 0..kBye
<1>1. \A r \in Requests : r.kind \in Kinds /\ r.payload \in Payloads
  BY DEF Requests
<1>2. 0..(kAck - 1) \subseteq 0..kBye
  BY DEF kAck, kBye
<1>3. kAck \in 0..kBye /\ kNack \in 0..kBye
  BY DEF kAck, kNack, kBye
<1>4. \A kind : \A k \in Answers(kind) : k = kAck \/ k = kNack
  BY ZenonT(60) DEF Answers
<1> QED
  BY <1>1, <1>2, <1>3, <1>4, ServiceAssumption, ZenonT(60)

\* A buffer that is complete is not empty.
LEMMA CompleteNonEmpty == \A b \in Seq(Nat) : Complete(b) => b # <<>>
<1>1. Len(<<>>) = 0
  OBVIOUS
<1>2. Len(<<>>) # Wanted(<<>>)
  BY <1>1 DEF Wanted, HeaderCells
<1> QED
  BY <1>2, ZenonT(60) DEF Complete

\* Steps of a worker.
LEMMA ConnectStream ==
    ASSUME TypeOK, StreamInv, NEW w \in Workers, Connect(w),
           NEW r, NEW c \in {"waiting", "exiting"}, NEW s,
           step' = [step EXCEPT ![w] = c], req' = [req EXCEPT ![w] = r], up' = [up EXCEPT ![w] = s],
           s = <<>> \/ (r \in Requests /\ s = encode_frame(r.kind, r.payload))
    PROVE  StreamInv'
<1>1. /\ step[w] = "off" /\ ~ Served(w) /\ seen' = [seen EXCEPT ![w] = <<>>]
      /\ UNCHANGED <<conn, buf, down, rbuf, reply, damages>>
  BY DEF Connect
<1>2. \A x : Served(x)' <=> (Served(x) \/ x = w)
  BY QueueGrows, ZenonT(60)
<1>3. /\ step \in [Workers -> {"off", "waiting", "exiting"}] /\ up \in [Workers -> Seq(Nat)]
      /\ req \in [Workers -> Requests \cup {NoRequest}] /\ seen \in [Workers -> Seq(Decoded)]
  BY ZenonT(60) DEF TypeOK
<1>4. \A x : Got(x)' = Got(x)
  BY <1>1, ZenonT(60) DEF Got
<1>5. ASSUME NEW x \in Workers, x # w
      PROVE  RequestInv(x)' /\ AnswerInv(x)' /\ SeenInv(x)' /\ OwnInv(x)'
  <2>1. /\ step'[x] = step[x] /\ up'[x] = up[x] /\ req'[x] = req[x] /\ seen'[x] = seen[x]
    BY <1>1, <1>3, <1>5
  <2>2. Served(x)' = Served(x) /\ Got(x)' = Got(x)
    BY <1>2, <1>4, <1>5, ZenonT(60) DEF Served
  <2>3. /\ down'[x] = down[x] /\ rbuf'[x] = rbuf[x] /\ reply'[x] = reply[x] /\ damages' = damages
    BY <1>1
  <2>4. RequestInv(x) /\ AnswerInv(x) /\ SeenInv(x) /\ OwnInv(x)
    BY ZenonT(60) DEF StreamInv
  <2> QED
    BY ZenonT(60), <2>1, <2>2, <2>3, <2>4, RequestUntouched, AnswerUntouched, SeenUntouched,
       OwnUntouched, ZenonT(60)
<1>6. RequestInv(w)' /\ AnswerInv(w)' /\ SeenInv(w)' /\ OwnInv(w)'
  <2>1. /\ step'[w] # "off" /\ up'[w] = s /\ req'[w] = r /\ seen'[w] = <<>>
    BY <1>1, <1>3
  <2>2. Got(w)' = <<>>
    BY <1>1, <1>4, ZenonT(60) DEF Got, Served
  <2>3. AnswerInv(w) /\ OwnInv(w)
    BY ZenonT(60) DEF StreamInv
  <2>4. RequestInv(w)'
    <3>1. CASE s = <<>>
      BY <2>1, <2>2, <3>1, ZenonT(60) DEF RequestInv
    <3>2. CASE r \in Requests /\ s = encode_frame(r.kind, r.payload)
      <4>1. s \in Seq(Nat)
        BY <3>2, KindsKnown, PayloadsSendable, ZenonT(60)
      <4>2. Cut(s, <<>>, s)
        BY <4>1, CutAll, ZenonT(60)
      <4> QED
        BY <1>2, <2>1, <2>2, <3>2, <4>2, ZenonT(60) DEF RequestInv, Arrives
    <3> QED
      BY <3>1, <3>2
  <2>5. AnswerInv(w)'
    BY <1>1, <2>3, ZenonT(60) DEF AnswerInv
  <2>6. SeenInv(w)' /\ OwnInv(w)'
    BY <1>1, <2>1, <2>3, ZenonT(60) DEF SeenInv, OwnInv
  <2> QED
    BY ZenonT(60), <2>4, <2>5, <2>6
<1> QED
  BY <1>5, <1>6, ZenonT(60) DEF StreamInv

LEMMA ReplyStream ==
    ASSUME TypeOK, Trusted, StreamInv, NEW w \in Workers,
           RecvReply(w) \/ TakeReply(w) \/ ReplyLost(w)
    PROVE  StreamInv'
<1>1. /\ UNCHANGED <<alive, queue, conn, buf, req, up, seen, damages>> /\ step[w] = "waiting"
      /\ step' \in {step, [step EXCEPT ![w] = "exiting"]}
  BY DEF RecvReply, TakeReply, ReplyLost, loopVars
<1>2. /\ step \in [Workers -> {"off", "waiting", "exiting"}] /\ rbuf \in [Workers -> Seq(Nat)]
      /\ down \in [Workers -> Seq(Nat)] /\ reply \in [Workers -> Decoded]
  BY DEF TypeOK
<1>3. \A x : Got(x)' = Got(x) /\ Served(x)' = Served(x)
  BY <1>1, ZenonT(60) DEF Got, Served
<1>4. \A x \in Workers : (step'[x] = "off") = (step[x] = "off")
  BY <1>1, <1>2
<1>5. \A x \in Workers : RequestInv(x) /\ AnswerInv(x) /\ SeenInv(x) /\ OwnInv(x)
  BY ZenonT(60) DEF StreamInv
<1>6. ASSUME NEW x \in Workers PROVE RequestInv(x)' /\ SeenInv(x)'
  BY <1>1, <1>3, <1>5, RequestUntouched, SeenUntouched, ZenonT(60)
<1>7. ASSUME NEW x \in Workers, x # w PROVE AnswerInv(x)' /\ OwnInv(x)'
  <2>1. rbuf'[x] = rbuf[x] /\ down'[x] = down[x] /\ reply'[x] = reply[x]
    BY ZenonT(60), <1>2, <1>7 DEF RecvReply, TakeReply, ReplyLost
  <2> QED
    BY <1>1, <1>4, <1>5, <2>1, AnswerUntouched, OwnUntouched, ZenonT(60)
<1>8. AnswerInv(w)'
  <2>1. CASE RecvReply(w)
    <3>1. PICK x \in Received(rbuf[w], down[w]) :
               rbuf' = [rbuf EXCEPT ![w] = x[1]] /\ down' = [down EXCEPT ![w] = x[2]]
      BY ZenonT(60), <2>1 DEF RecvReply
    <3>2. rbuf'[w] = x[1] /\ down'[w] = x[2]
      BY <1>2, <3>1
    <3>3. down[w] # <<>>
      <4>1. \E n \in 1..Len(down[w]) : TRUE
        BY ZenonT(60) DEF Received
      <4> QED
        BY <4>1, EmptyLengths, ZenonT(60)
    <3>4. PICK k, g : /\ k \in Answers(seen[w][1].kind)
                     /\ Arrives(encode_frame(k, req[w].payload), g) /\ Cut(g, rbuf[w], down[w])
      BY <1>5, <3>3, ZenonT(60) DEF AnswerInv
    <3>5. /\ step[w] # "off" /\ Len(seen[w]) = 1 /\ req[w] \in Requests
      BY <1>5, <3>3, ZenonT(60) DEF AnswerInv
    <3>6. g \in Seq(Nat)
      BY <3>4, <3>5, KindsKnown, PayloadsSendable, ArrivalsTyped, ZenonT(60)
    <3>7. Cut(g, x[1], x[2])
      BY <3>4, <3>6, CutRead, ZenonT(60)
    <3> QED
      BY <1>1, <1>4, <3>2, <3>4, <3>5, <3>7, ZenonT(60) DEF AnswerInv, Arrives
  <2>2. CASE ~ RecvReply(w)
    <3>1. rbuf'[w] = rbuf[w] /\ down'[w] = down[w]
      BY ZenonT(60), <2>2 DEF TakeReply, ReplyLost
    <3> QED
      BY <1>1, <1>4, <1>5, <3>1, AnswerUntouched, ZenonT(60)
  <2> QED
    BY <2>1, <2>2
<1>9. OwnInv(w)'
  <2>1. CASE TakeReply(w)
    <3>1. reply'[w] = decode_frame(rbuf[w]) /\ Complete(rbuf[w]) /\ rbuf[w] \in Seq(Nat)
      BY <1>2, <2>1 DEF TakeReply
    <3>2. rbuf[w] # <<>>
      BY <3>1, CompleteNonEmpty, ZenonT(60)
    <3>3. PICK k, g : /\ k \in Answers(seen[w][1].kind)
                     /\ Arrives(encode_frame(k, req[w].payload), g) /\ Cut(g, rbuf[w], down[w])
      BY <1>5, <3>2, ZenonT(60) DEF AnswerInv
    <3>4. /\ step[w] # "off" /\ Len(seen[w]) = 1 /\ req[w] \in Requests
      BY <1>5, <3>2, ZenonT(60) DEF AnswerInv
    <3>5. k \in 0..kBye /\ req[w].payload \in Payloads
      BY <3>3, <3>4, KindsKnown, ZenonT(60)
    <3>6. decode_frame(rbuf[w]).ok =>
             /\ decode_frame(rbuf[w]) = Accepted(rbuf[w][3], req[w].payload)
             /\ damages = 0 => rbuf[w][3] = k
      <4> SUFFICES ASSUME decode_frame(rbuf[w]).ok
                   PROVE  /\ decode_frame(rbuf[w]) = Accepted(rbuf[w][3], req[w].payload)
                          /\ damages = 0 => rbuf[w][3] = k
        OBVIOUS
      <4> DEFINE b == rbuf[w]
                 s == down[w]
                 p == req[w].payload
      <4>1. /\ b \in Seq(Nat) /\ p \in Payloads /\ k \in 0..kBye
            /\ Arrives(encode_frame(k, p), g) /\ Cut(g, b, s) /\ Complete(b) /\ decode_frame(b).ok
        BY <3>1, <3>3, <3>5, ZenonT(60)
      <4> HIDE DEF b, s, p
      <4>2. decode_frame(b) = Accepted(b[3], p) /\ (damages = 0 => b[3] = k)
        BY <4>1, DecodedAsSent, ZenonT(60)
      <4> QED
        BY ZenonT(60), <4>2 DEF b, p
    <3>7. decode_frame(rbuf[w]).ok =>
             /\ decode_frame(rbuf[w]).payload = req[w].payload
             /\ damages = 0 => decode_frame(rbuf[w]).kind = k
      BY <3>6 DEF Accepted
    <3>8. damages = 0 => k \in Answers(req[w].kind)
      BY <1>5, <3>3, <3>4, EmptyLengths, ZenonT(60) DEF SeenInv
    <3> QED
      BY <1>1, <1>4, <3>1, <3>4, <3>7, <3>8, ZenonT(60) DEF OwnInv
  <2>2. CASE ~ TakeReply(w)
    <3>1. reply' = reply
      BY ZenonT(60), <2>2 DEF RecvReply, ReplyLost
    <3> QED
      BY <1>1, <1>4, <1>5, <3>1, OwnUntouched, ZenonT(60)
  <2> QED
    BY <2>1, <2>2
<1> QED
  BY <1>6, <1>7, <1>8, <1>9, ZenonT(60) DEF StreamInv

LEMMA CloseStream ==
    ASSUME TypeOK, StreamInv, NEW w \in Workers, Exit(w) \/ Kill(w)
    PROVE  StreamInv'
<1>1. /\ UNCHANGED <<alive, queue, conn, buf, req, seen, damages>>
      /\ step' = [step EXCEPT ![w] = "off"] /\ down' = [down EXCEPT ![w] = <<>>]
      /\ rbuf' = [rbuf EXCEPT ![w] = <<>>] /\ reply' = [reply EXCEPT ![w] = NoFrame]
  BY DEF Exit, Kill, Close, loopVars
<1>2. /\ step \in [Workers -> {"off", "waiting", "exiting"}] /\ rbuf \in [Workers -> Seq(Nat)]
      /\ down \in [Workers -> Seq(Nat)] /\ reply \in [Workers -> Decoded]
      /\ up \in [Workers -> Seq(Nat)]
  BY DEF TypeOK
<1>3. PICK n \in 0..Len(up[w]) : up' = up \/ up' = [up EXCEPT ![w] = SubSeq(up[w], 1, n)]
  <2>1. up[w] \in Seq(Nat)
    BY <1>2
  <2>2. 0 \in 0..Len(up[w])
    BY <2>1
  <2> QED
    BY <2>2, ZenonT(60) DEF Exit, Kill
<1>4. \A x : Got(x)' = Got(x) /\ Served(x)' = Served(x)
  BY <1>1, ZenonT(60) DEF Got, Served
<1>5. \A x \in Workers : RequestInv(x) /\ AnswerInv(x) /\ SeenInv(x) /\ OwnInv(x)
  BY ZenonT(60) DEF StreamInv
<1>6. ASSUME NEW x \in Workers, x # w
      PROVE  RequestInv(x)' /\ AnswerInv(x)' /\ SeenInv(x)' /\ OwnInv(x)'
  <2>1. /\ step'[x] = step[x] /\ up'[x] = up[x] /\ rbuf'[x] = rbuf[x] /\ down'[x] = down[x]
        /\ reply'[x] = reply[x]
    BY <1>1, <1>2, <1>3, <1>6
  <2> QED
    BY ZenonT(60), <1>1, <1>4, <1>5, <2>1, RequestUntouched, AnswerUntouched, SeenUntouched,
       OwnUntouched, ZenonT(60)
<1>7. AnswerInv(w)' /\ SeenInv(w)' /\ OwnInv(w)'
  <2>1. rbuf'[w] = <<>> /\ down'[w] = <<>> /\ reply'[w] = NoFrame
    BY <1>1, <1>2
  <2>2. ~ NoFrame.ok
    BY DEF NoFrame, Rejected
  <2> QED
    BY <1>1, <1>5, <2>1, <2>2, SeenUntouched, ZenonT(60) DEF AnswerInv, OwnInv
<1>8. RequestInv(w)'
  <2>1. CASE up' = up
    BY <1>1, <1>4, <1>5, <2>1, RequestUntouched, ZenonT(60)
  <2>2. CASE up' = [up EXCEPT ![w] = SubSeq(up[w], 1, n)]
    <3>1. up'[w] = SubSeq(up[w], 1, n)
      BY <1>2, <2>2
    <3>2. CASE Got(w) = <<>> /\ up[w] = <<>>
      <4>1. n = 0
        BY <3>2
      <4>2. SubSeq(up[w], 1, n) = <<>>
        BY <3>2, <4>1
      <4> QED
        BY <1>4, <3>1, <3>2, <4>2, ZenonT(60) DEF RequestInv
    <3>3. CASE ~ (Got(w) = <<>> /\ up[w] = <<>>)
      <4>1. PICK g : /\ Arrives(encode_frame(req[w].kind, req[w].payload), g)
                     /\ Cut(g, Got(w), up[w])
        BY <1>5, <3>3, ZenonT(60) DEF RequestInv
      <4>2. Served(w) /\ seen[w] = <<>> /\ req[w] \in Requests
        BY <1>5, <3>3, ZenonT(60) DEF RequestInv
      <4>3. g \in Seq(Nat)
        BY <4>1, <4>2, KindsKnown, PayloadsSendable, ArrivalsTyped, ZenonT(60)
      <4>4. Cut(g, Got(w), SubSeq(up[w], 1, n))
        BY <4>1, <4>3, CutKill, ZenonT(60)
      <4> QED
        BY <1>1, <1>4, <3>1, <4>1, <4>2, <4>4, ZenonT(60) DEF RequestInv, Arrives
    <3> QED
      BY <3>2, <3>3
  <2> QED
    BY <1>3, <2>1, <2>2
<1> QED
  BY <1>6, <1>7, <1>8, ZenonT(60) DEF StreamInv

\* The first damage: until then everything on the way was as it was sent.
LEMMA DamageStream ==
    ASSUME TypeOK, StreamInv, NEW w \in Workers, Damage(w), damages = 0
    PROVE  StreamInv'
<1>1. UNCHANGED <<alive, queue, conn, buf, step, req, rbuf, reply, seen>>
  BY DEF Damage, loopVars, workerVars
<1>2. damages' > 0 /\ damages' # 0
  BY DEF Damage
<1>3. PICK v \in Cells :
         \/ /\ \E i \in DOMAIN up[w] : up' = [up EXCEPT ![w] = [up[w] EXCEPT ![i] = v]]
            /\ UNCHANGED down
         \/ /\ \E i \in DOMAIN down[w] : down' = [down EXCEPT ![w] = [down[w] EXCEPT ![i] = v]]
            /\ UNCHANGED up
  BY ZenonT(60) DEF Damage
<1>4. /\ up \in [Workers -> Seq(Nat)] /\ down \in [Workers -> Seq(Nat)] /\ v \in Nat
  BY ZenonT(60), ServiceAssumption DEF TypeOK
<1>5. \A x : Got(x)' = Got(x) /\ Served(x)' = Served(x)
  BY <1>1, ZenonT(60) DEF Got, Served
<1>6. \A x \in Workers : RequestInv(x) /\ AnswerInv(x) /\ SeenInv(x) /\ OwnInv(x)
  BY ZenonT(60) DEF StreamInv
<1>7. ASSUME NEW x \in Workers PROVE SeenInv(x)' /\ OwnInv(x)'
  BY <1>1, <1>2, <1>6, ZenonT(60) DEF SeenInv, OwnInv
<1>8. \A e, g : Arrives(e, g) => g = e
  BY DEF Arrives
<1>9. ASSUME NEW x \in Workers PROVE RequestInv(x)'
  <2>1. CASE up'[x] = up[x]
    <3>1. \A e : Arrives(e, e)'
      BY ZenonT(60) DEF Arrives
    <3>2. CASE Got(x) = <<>> /\ up[x] = <<>>
      BY <1>5, <2>1, <3>2, ZenonT(60) DEF RequestInv
    <3>3. CASE ~ (Got(x) = <<>> /\ up[x] = <<>>)
      <4>1. /\ Served(x) /\ seen[x] = <<>> /\ req[x] \in Requests
            /\ Cut(encode_frame(req[x].kind, req[x].payload), Got(x), up[x])
        BY <1>6, <1>8, <3>3, ZenonT(60) DEF RequestInv
      <4> QED
        BY <1>1, <1>5, <2>1, <3>1, <4>1, ZenonT(60) DEF RequestInv
    <3> QED
      BY <3>2, <3>3
  <2>2. CASE up'[x] # up[x]
    <3>1. PICK i \in DOMAIN up[x] : up'[x] = [up[x] EXCEPT ![i] = v] /\ up[x] # <<>>
      <4>1. PICK i \in DOMAIN up[w] : up' = [up EXCEPT ![w] = [up[w] EXCEPT ![i] = v]]
        BY <1>3, <2>2, ZenonT(60)
      <4>2. x = w
        BY <1>4, <2>2, <4>1
      <4>3. up'[w] = [up[w] EXCEPT ![i] = v]
        BY <1>4, <4>1
      <4>4. up[w] # <<>>
        OBVIOUS
      <4> QED
        BY <4>2, <4>3, <4>4, ZenonT(60)
    <3> DEFINE e == encode_frame(req[x].kind, req[x].payload)
    <3>2. Served(x) /\ seen[x] = <<>> /\ req[x] \in Requests /\ Cut(e, Got(x), up[x])
      BY <1>6, <1>8, <3>1, ZenonT(60) DEF RequestInv
    <3>3. e \in Seq(Nat)
      BY <3>2, KindsKnown, PayloadsSendable, ZenonT(60)
    <3> HIDE DEF e
    <3>4. PICK j \in DOMAIN e : Cut([e EXCEPT ![j] = v], Got(x), up'[x])
      <4>1. \E j \in DOMAIN e : Cut([e EXCEPT ![j] = v], Got(x), [up[x] EXCEPT ![i] = v])
        BY <1>4, <3>2, <3>3, CutDamage, ZenonT(60)
      <4> QED
        BY <3>1, <4>1, ZenonT(60)
    <3>5. Arrives(e, [e EXCEPT ![j] = v])'
      BY <1>1, <1>2, ZenonT(60) DEF Arrives, e
    <3> QED
      BY <1>1, <1>5, <3>2, <3>4, <3>5, ZenonT(60) DEF RequestInv, e
  <2> QED
    BY <2>1, <2>2
<1>10. ASSUME NEW x \in Workers PROVE AnswerInv(x)'
  <2>1. CASE down'[x] = down[x]
    <3>1. CASE rbuf[x] = <<>> /\ down[x] = <<>>
      BY <1>1, <2>1, <3>1, ZenonT(60) DEF AnswerInv
    <3>2. CASE ~ (rbuf[x] = <<>> /\ down[x] = <<>>)
      <4>1. PICK k, g : /\ k \in Answers(seen[x][1].kind)
                       /\ Arrives(encode_frame(k, req[x].payload), g) /\ Cut(g, rbuf[x], down[x])
        BY <1>6, <3>2, ZenonT(60) DEF AnswerInv
      <4>2. step[x] # "off" /\ Len(seen[x]) = 1 /\ req[x] \in Requests
        BY <1>6, <3>2, ZenonT(60) DEF AnswerInv
      <4>3. g = encode_frame(k, req[x].payload)
        BY <1>8, <4>1, ZenonT(60)
      <4> QED
        BY <1>1, <2>1, <4>1, <4>2, <4>3, ZenonT(60) DEF AnswerInv, Arrives
    <3> QED
      BY <3>1, <3>2
  <2>2. CASE down'[x] # down[x]
    <3>1. PICK i \in DOMAIN down[x] : down'[x] = [down[x] EXCEPT ![i] = v] /\ down[x] # <<>>
      <4>1. PICK i \in DOMAIN down[w] : down' = [down EXCEPT ![w] = [down[w] EXCEPT ![i] = v]]
        BY <1>3, <2>2, ZenonT(60)
      <4>2. x = w
        BY <1>4, <2>2, <4>1
      <4>3. down'[w] = [down[w] EXCEPT ![i] = v]
        BY <1>4, <4>1
      <4>4. down[w] # <<>>
        OBVIOUS
      <4> QED
        BY <4>2, <4>3, <4>4, ZenonT(60)
    <3>2. PICK k \in Answers(seen[x][1].kind) :
             /\ step[x] # "off" /\ Len(seen[x]) = 1 /\ req[x] \in Requests
             /\ Cut(encode_frame(k, req[x].payload), rbuf[x], down[x])
      <4>1. PICK k, g : /\ k \in Answers(seen[x][1].kind)
                       /\ Arrives(encode_frame(k, req[x].payload), g) /\ Cut(g, rbuf[x], down[x])
        BY <1>6, <3>1, ZenonT(60) DEF AnswerInv
      <4>2. step[x] # "off" /\ Len(seen[x]) = 1 /\ req[x] \in Requests
        BY <1>6, <3>1, ZenonT(60) DEF AnswerInv
      <4>3. g = encode_frame(k, req[x].payload)
        BY <1>8, <4>1, ZenonT(60)
      <4> QED
        BY <4>1, <4>2, <4>3, ZenonT(60)
    <3> DEFINE e == encode_frame(k, req[x].payload)
    <3>3. e \in Seq(Nat)
      BY <3>2, KindsKnown, PayloadsSendable, ZenonT(60)
    <3>a. Cut(e, rbuf[x], down[x])
      BY <3>2
    <3> HIDE DEF e
    <3>4. PICK j \in DOMAIN e : Cut([e EXCEPT ![j] = v], rbuf[x], down'[x])
      <4>1. \E j \in DOMAIN e : Cut([e EXCEPT ![j] = v], rbuf[x], [down[x] EXCEPT ![i] = v])
        BY <1>4, <3>a, <3>3, CutDamage, ZenonT(60)
      <4> QED
        BY <3>1, <4>1, ZenonT(60)
    <3>5. Arrives(e, [e EXCEPT ![j] = v])'
      BY <1>1, <1>2, ZenonT(60) DEF Arrives, e
    <3> QED
      BY <1>1, <3>2, <3>4, <3>5, ZenonT(60) DEF AnswerInv, e
  <2> QED
    BY <2>1, <2>2
<1> QED
  BY <1>7, <1>9, <1>10, ZenonT(60) DEF StreamInv

\* Steps of the loop.  Reading, and closing a connection, touch the stream of
\* the connection that is served; accepting touches none.
LEMMA LoopStream ==
    ASSUME TypeOK, StreamInv, Accept \/ Recv \/ Hangup \/ Terminate \/ Restart
    PROVE  StreamInv'
<1>1. UNCHANGED <<step, req, rbuf, reply, down, seen, damages>>
  BY ZenonT(60) DEF Accept, Recv, Hangup, Terminate, Restart, workerVars
<1>2. /\ up \in [Workers -> Seq(Nat)] /\ buf \in Seq(Nat) /\ conn \in Workers \cup {NoConn}
      /\ NoConn \notin Workers /\ (conn = NoConn => buf = <<>>)
  BY ServiceAssumption DEF TypeOK, NoConn
<1>3. \A x \in Workers : RequestInv(x) /\ AnswerInv(x) /\ SeenInv(x) /\ OwnInv(x)
  BY ZenonT(60) DEF StreamInv
<1>4. ASSUME NEW x \in Workers PROVE AnswerInv(x)' /\ SeenInv(x)' /\ OwnInv(x)'
  BY <1>1, <1>3, AnswerUntouched, SeenUntouched, OwnUntouched, ZenonT(60)
<1>5. ASSUME NEW x \in Workers PROVE RequestInv(x)'
  <2>1. CASE Accept
    <3>1. conn' \in Workers /\ Served(x)' = Served(x)
      BY <2>1, QueueShrinks, ZenonT(60) DEF Served
    <3>2. conn = NoConn /\ UNCHANGED <<buf, up>>
      BY <2>1 DEF Accept
    <3>3. Got(x)' = Got(x)
      BY <1>2, <3>2, ZenonT(60) DEF Got
    <3> QED
      BY <1>1, <1>3, <3>1, <3>2, <3>3, RequestUntouched, ZenonT(60)
  <2>2. CASE Recv
    <3>1. PICK y \in Received(buf, up[conn]) : buf' = y[1] /\ up' = [up EXCEPT ![conn] = y[2]]
      BY ZenonT(60), <2>2 DEF Recv
    <3>2. conn \in Workers /\ UNCHANGED <<queue, conn>>
      BY <1>2, <2>2 DEF Recv
    <3>3. Served(x)' = Served(x)
      BY <3>2, ZenonT(60) DEF Served
    <3>4. CASE x # conn
      <4>1. up'[x] = up[x]
        BY <1>2, <3>1, <3>4
      <4>2. Got(x)' = Got(x)
        BY <3>2, <3>4, ZenonT(60) DEF Got
      <4> QED
        BY <1>1, <1>3, <3>3, <4>1, <4>2, RequestUntouched, ZenonT(60)
    <3>5. CASE x = conn
      <4>1. Got(x) = buf /\ Got(x)' = y[1]
        BY <3>1, <3>2, <3>5, ZenonT(60) DEF Got
      <4>2. up'[x] = y[2] /\ up[conn] # <<>>
        BY <1>2, <3>1, <3>2, <3>5 DEF Received
      <4>3. PICK g : /\ Arrives(encode_frame(req[x].kind, req[x].payload), g)
                     /\ Cut(g, Got(x), up[x])
        BY <1>3, <3>5, <4>2, ZenonT(60) DEF RequestInv
      <4>4. Served(x) /\ seen[x] = <<>> /\ req[x] \in Requests
        BY <1>3, <3>5, <4>2, ZenonT(60) DEF RequestInv
      <4>5. g \in Seq(Nat)
        BY <4>3, <4>4, KindsKnown, PayloadsSendable, ArrivalsTyped, ZenonT(60)
      <4>6. Cut(g, buf, up[conn])
        BY <3>5, <4>1, <4>3, ZenonT(60)
      <4>7. Cut(g, y[1], y[2])
        BY <4>5, <4>6, CutRead, ZenonT(60)
      <4> QED
        BY <1>1, <3>3, <4>1, <4>2, <4>3, <4>4, <4>7, ZenonT(60) DEF RequestInv, Arrives
    <3> QED
      BY <3>4, <3>5
  <2>3. CASE Hangup
    <3>1. conn' = NoConn /\ buf' = <<>> /\ up' = [up EXCEPT ![conn] = <<>>] /\ queue' = queue
      BY <2>3 DEF Hangup
    <3>2. Got(x)' = <<>>
      BY <1>2, <3>1, ZenonT(60) DEF Got
    <3>3. CASE x = conn
      <4>1. up'[x] = <<>>
        BY <1>2, <3>1, <3>3
      <4> QED
        BY <3>2, <4>1, ZenonT(60) DEF RequestInv
    <3>4. CASE x # conn
      <4>1. up'[x] = up[x]
        BY <1>2, <3>1, <3>4
      <4>2. Got(x) = <<>>
        BY <3>4, ZenonT(60) DEF Got
      <4>3. Served(x)' = Served(x)
        BY <1>2, <3>1, <3>4, ZenonT(60) DEF Served
      <4> QED
        BY <1>1, <1>3, <3>2, <4>1, <4>2, <4>3, RequestUntouched, ZenonT(60)
    <3> QED
      BY <3>3, <3>4
  <2>4. CASE Terminate
    <3>1. conn' = NoConn /\ up'[x] = <<>>
      BY <2>4 DEF Terminate
    <3>2. Got(x)' = <<>>
      BY <1>2, <3>1, ZenonT(60) DEF Got
    <3> QED
      BY <3>1, <3>2, ZenonT(60) DEF RequestInv
  <2>5. CASE Restart
    <3>1. UNCHANGED <<queue, conn, buf, up>>
      BY <2>5 DEF Restart
    <3>2. Got(x)' = Got(x) /\ Served(x)' = Served(x)
      BY <3>1, ZenonT(60) DEF Got, Served
    <3> QED
      BY <1>1, <1>3, <3>1, <3>2, RequestUntouched, ZenonT(60)
  <2> QED
    BY <2>1, <2>2, <2>3, <2>4, <2>5
<1> QED
  BY <1>4, <1>5, ZenonT(60) DEF StreamInv

\* What is dispatched is the request of the connection, all of it, and leaves
\* nothing to be dispatched again.
LEMMA DispatchStream ==
    ASSUME TypeOK, Trusted, StreamInv, Dispatch
    PROVE  StreamInv'
<1> DEFINE f == decode_frame(buf)
<1>0. PICK w \in Workers : w = conn
  BY DEF Dispatch, Ready, TypeOK
<1>1. /\ UNCHANGED <<queue, conn, step, req, rbuf, reply, up, damages>> /\ buf' = <<>>
      /\ Complete(buf) /\ f.ok /\ conn # NoConn
  BY DEF Dispatch, Ready, workerVars
<1>2. seen' = [seen EXCEPT ![w] = Append(seen[w], f)]
  BY <1>0 DEF Dispatch
<1>3. PICK k \in Answers(f.kind) :
        down' = [down EXCEPT ![w] = IF step[w] = "off" THEN <<>> ELSE encode_frame(k, f.payload)]
  BY ZenonT(60), <1>0 DEF Dispatch
<1>4. /\ w \in Workers /\ buf \in Seq(Nat) /\ seen \in [Workers -> Seq(Decoded)]
      /\ down \in [Workers -> Seq(Nat)]
  BY <1>1 DEF TypeOK
<1>5. \A x \in Workers : RequestInv(x) /\ AnswerInv(x) /\ SeenInv(x) /\ OwnInv(x)
  BY ZenonT(60) DEF StreamInv
<1>6. Got(w) = buf /\ buf # <<>>
  BY <1>0, <1>1, <1>4, CompleteNonEmpty, ZenonT(60) DEF Got
<1> HIDE DEF f
<1>7. PICK g : Arrives(encode_frame(req[w].kind, req[w].payload), g) /\ Cut(g, buf, up[w])
  BY <1>4, <1>5, <1>6, ZenonT(60) DEF RequestInv
<1>8. Served(w) /\ seen[w] = <<>> /\ req[w] \in Requests
  BY <1>4, <1>5, <1>6, ZenonT(60) DEF RequestInv
<1>9. f = Accepted(buf[3], req[w].payload) /\ (damages = 0 => buf[3] = req[w].kind) /\ up[w] = <<>>
  <2> DEFINE p == req[w].payload
             c == req[w].kind
             s == up[w]
             b == buf
  <2>1. /\ c \in 0..kBye /\ p \in Payloads /\ Arrives(encode_frame(c, p), g) /\ Cut(g, b, s)
        /\ Complete(b) /\ decode_frame(b).ok /\ b \in Seq(Nat)
    BY <1>1, <1>4, <1>7, <1>8, KindsKnown, ZenonT(60) DEF f
  <2> HIDE DEF p, c, s, b
  <2>2. decode_frame(b) = Accepted(b[3], p) /\ (damages = 0 => b[3] = c) /\ s = <<>>
    BY <2>1, DecodedAsSent
  <2> QED
    BY <2>2 DEF f, p, c, s, b
<1>10. f.payload = req[w].payload /\ (damages = 0 => f.kind = req[w].kind)
  BY <1>9 DEF Accepted
<1>11. rbuf[w] = <<>> /\ down[w] = <<>>
  <2>1. Len(seen[w]) # 1
    BY <1>8
  <2> QED
    BY <1>4, <1>5, <2>1, ZenonT(60) DEF AnswerInv
<1>12. ASSUME NEW x \in Workers, x # w
       PROVE  RequestInv(x)' /\ AnswerInv(x)' /\ SeenInv(x)' /\ OwnInv(x)'
  <2>1. seen'[x] = seen[x] /\ down'[x] = down[x]
    BY <1>2, <1>3, <1>4, <1>12
  <2>2. Got(x)' = Got(x) /\ Served(x)' = Served(x)
    BY <1>0, <1>1, <1>12, ZenonT(60) DEF Got, Served
  <2> QED
    BY ZenonT(60), <1>1, <1>5, <2>1, <2>2, RequestUntouched, AnswerUntouched, SeenUntouched,
       OwnUntouched, ZenonT(60)
<1>13. seen'[w] = <<f>> /\ Len(seen'[w]) = 1 /\ seen'[w][1] = f
  BY <1>2, <1>4, <1>8
<1>14. RequestInv(w)'
  <2>1. Got(w)' = <<>>
    BY <1>1, ZenonT(60) DEF Got
  <2> QED
    BY <1>1, <1>9, <2>1, ZenonT(60) DEF RequestInv
<1>15. SeenInv(w)'
  BY <1>1, <1>10, <1>13, ZenonT(60) DEF SeenInv
<1>16. OwnInv(w)'
  <2>1. ~ reply[w].ok
    <3>1. Len(seen[w]) # 1
      BY <1>8
    <3> QED
      BY <1>4, <1>5, <3>1, ZenonT(60) DEF OwnInv
  <2> QED
    BY <1>1, <2>1, ZenonT(60) DEF OwnInv
<1>17. AnswerInv(w)'
  <2>1. CASE step[w] = "off"
    <3>1. down'[w] = <<>>
      BY <1>3, <1>4, <2>1
    <3> QED
      BY <1>1, <1>11, <3>1, ZenonT(60) DEF AnswerInv
  <2>2. CASE step[w] # "off"
    <3> DEFINE e == encode_frame(k, req[w].payload)
    <3>1. down'[w] = e
      BY <1>3, <1>4, <1>10, <2>2
    <3>2. e \in Seq(Nat)
      BY <1>8, KindsKnown, PayloadsSendable, ZenonT(60)
    <3>3. Cut(e, <<>>, e)
      BY <3>2, CutAll, ZenonT(60)
    <3>4. Arrives(e, e)'
      BY ZenonT(60) DEF Arrives
    <3> QED
      BY <1>1, <1>8, <1>11, <1>13, <2>2, <3>1, <3>3, <3>4, ZenonT(60) DEF AnswerInv
  <2> QED
    BY <2>1, <2>2
<1> QED
  BY <1>12, <1>14, <1>15, <1>16, <1>17, ZenonT(60) DEF StreamInv

\* The streams are as described as long as damage is detected, and without
\* damage the loop does not end.
ServiceInv == TypeInv /\ OnlyDamageTerminates /\ (Trusted => StreamInv)

LEMMA ServiceInit == Init => ServiceInv
<1> SUFFICES ASSUME Init PROVE ServiceInv
  OBVIOUS
<1>1. ~ NoFrame.ok
  BY DEF NoFrame, Rejected
<1>2. ASSUME NEW w \in Workers
      PROVE  RequestInv(w) /\ AnswerInv(w) /\ SeenInv(w) /\ OwnInv(w)
  <2>1. /\ up[w] = <<>> /\ down[w] = <<>> /\ rbuf[w] = <<>> /\ seen[w] = <<>>
        /\ reply[w] = NoFrame /\ buf = <<>>
    BY DEF Init
  <2> QED
    BY <1>1, <2>1, ZenonT(60) DEF RequestInv, AnswerInv, SeenInv, OwnInv, Got
<1>3. OnlyDamageTerminates
  BY DEF Init, OnlyDamageTerminates
<1> QED
  BY <1>2, <1>3, TypeInit, ZenonT(60) DEF ServiceInv, StreamInv

\* Without damage, what the loop has read in full decodes.
LEMMA UndamagedDecodes ==
    ASSUME TypeOK, StreamInv, damages = 0, Ready
    PROVE  decode_frame(buf).ok
<1>1. PICK w \in Workers : w = conn
  BY DEF Ready, TypeOK
<1>2. Got(w) = buf /\ buf # <<>> /\ Complete(buf)
  BY <1>1, CompleteNonEmpty, ZenonT(60) DEF Got, Ready, TypeOK
<1>3. RequestInv(w)
  BY ZenonT(60) DEF StreamInv
<1> DEFINE p == req[w].payload
           k == req[w].kind
<1>4. req[w] \in Requests /\ Cut(encode_frame(k, p), buf, up[w])
  <2>1. \A e, g : Arrives(e, g) => g = e
    BY DEF Arrives
  <2> QED
    BY <1>2, <1>3, <2>1, ZenonT(60) DEF RequestInv
<1>5. Sendable(k, p)
  BY <1>4, KindsKnown, PayloadsSendable, ZenonT(60)
<1> HIDE DEF p, k
<1>6. buf = encode_frame(k, p)
  BY <1>2, <1>4, <1>5, WholeFrame, ZenonT(60)
<1>7. decode_frame(buf) = Accepted(k, p)
  BY <1>5, <1>6, FrameRoundTrip, ZenonT(60)
<1> QED
  BY <1>7 DEF Accepted

LEMMA ServiceStep == ServiceInv /\ [Next]_vars => ServiceInv'
<1> SUFFICES ASSUME ServiceInv, [Next]_vars PROVE ServiceInv'
  OBVIOUS
<1>1. TypeInv /\ TypeInv' /\ TypeOK
  BY TypeStep DEF ServiceInv, TypeInv
<1>2. damages' = damages \/ \E w \in Workers : Damage(w)
  BY ZenonT(60) DEF Next, Work, Loop, request, Sleep, Connect, RecvReply, TakeReply,
     ReplyLost, Exit, Kill,
         Close, Accept, Recv, Hangup, Dispatch, Terminate, Restart, vars
<1>3. ASSUME NEW w \in Workers, Damage(w)
      PROVE  /\ damages' > 0 /\ damages' # 0 /\ (MaxDamages <= 1 => damages = 0)
             /\ alive' = alive
  <2>1. damages \in Nat /\ MaxDamages \in Nat
    BY <1>1, ServiceAssumption DEF TypeOK
  <2>2. damages < MaxDamages /\ damages' = damages + 1 /\ alive' = alive
    BY <1>3 DEF Damage, loopVars
  <2> QED
    BY <2>1, <2>2
<1>4. OnlyDamageTerminates'
  <2>1. CASE alive' = alive
    <3>1. damages \in Nat /\ damages' >= damages
      <4>1. damages \in Nat
        BY <1>1, ServiceAssumption DEF TypeOK
      <4>2. damages' = damages \/ damages' = damages + 1
        BY <1>2 DEF Damage
      <4> QED
        BY <4>1, <4>2
    <3> QED
      <4>1. damages' > 0 \/ damages = 0
        <5>1. damages' \in Nat
          BY <1>1, ServiceAssumption DEF TypeInv, TypeOK
        <5> QED
          BY <3>1, <5>1
      <4>2. alive \/ damages # 0
        BY DEF ServiceInv, OnlyDamageTerminates
      <4> QED
        BY <2>1, <4>1, <4>2, ZenonT(60) DEF OnlyDamageTerminates
  <2>2. CASE alive' # alive
    <3>1. Terminate \/ alive'
      BY ZenonT(60), <2>2 DEF Next, Work, Loop, request, Sleep, Connect, RecvReply, TakeReply,
         ReplyLost, Exit,
             Kill, Close, Accept, Recv, Hangup, Dispatch, Restart, Damage, vars, loopVars
    <3>2. CASE Terminate
      <4>1. Ready /\ ~ decode_frame(buf).ok /\ damages' = damages
        BY <3>2 DEF Terminate
      <4>2. damages # 0
        BY <1>1, <4>1, UndamagedDecodes, ZenonT(60) DEF ServiceInv, Trusted
      <4>3. damages \in Nat
        BY <1>1, ServiceAssumption DEF TypeOK
      <4> QED
        BY <4>1, <4>2, <4>3 DEF OnlyDamageTerminates
    <3> QED
      BY ZenonT(60), <3>1, <3>2 DEF OnlyDamageTerminates
  <2> QED
    BY <2>1, <2>2
<1>5. ASSUME Trusted' PROVE StreamInv'
  <2>1. Trusted
    BY <1>2, <1>3, <1>5, ZenonT(60) DEF Trusted
  <2>2. StreamInv
    BY <2>1, ZenonT(60) DEF ServiceInv
  <2>3. ASSUME NEW w \in Workers, NEW r \in Requests, request(w, r) PROVE StreamInv'
    BY <1>1, <2>2, <2>3, ConnectStream, ZenonT(60) DEF request
  <2>4. ASSUME NEW w \in Workers, Sleep(w) PROVE StreamInv'
    BY <1>1, <2>2, <2>4, ConnectStream, ZenonT(60) DEF Sleep
  <2>5. ASSUME NEW w \in Workers, RecvReply(w) \/ TakeReply(w) \/ ReplyLost(w) PROVE StreamInv'
    BY <1>1, <2>1, <2>2, <2>5, ReplyStream, ZenonT(60)
  <2>6. ASSUME NEW w \in Workers, Exit(w) \/ Kill(w) PROVE StreamInv'
    BY <1>1, <2>2, <2>6, CloseStream, ZenonT(60)
  <2>7. ASSUME NEW w \in Workers, Damage(w) PROVE StreamInv'
    <3>1. damages = 0
      BY <1>3, <1>5, <2>7, ZenonT(60) DEF Trusted
    <3> QED
      BY <1>1, <2>2, <2>7, <3>1, DamageStream, ZenonT(60)
  <2>8. CASE Accept \/ Recv \/ Hangup \/ Terminate \/ Restart
    BY <1>1, <2>2, <2>8, LoopStream, ZenonT(60)
  <2>9. CASE Dispatch
    BY <1>1, <2>1, <2>2, <2>9, DispatchStream, ZenonT(60)
  <2>10. CASE UNCHANGED vars
    <3>1. UNCHANGED <<alive, queue, conn, buf, step, req, rbuf, reply, up, down, seen, damages>>
      BY <2>10 DEF vars, loopVars, workerVars
    <3>2. \A x : Got(x)' = Got(x) /\ Served(x)' = Served(x)
      BY <3>1, ZenonT(60) DEF Got, Served
    <3> QED
      BY <2>2, <3>1, <3>2, RequestUntouched, AnswerUntouched, SeenUntouched, OwnUntouched, ZenonT(60)
      DEF StreamInv
  <2> QED
    BY <2>3, <2>4, <2>5, <2>6, <2>7, <2>8, <2>9, <2>10 DEF Next, Work, Loop
<1> QED
  BY <1>1, <1>4, <1>5, ZenonT(60) DEF ServiceInv

LEMMA ServiceInvHolds == Spec => []ServiceInv
BY ServiceInit, ServiceStep, PTL DEF Spec

\* The variables of the loop and its workers keep their types, the listening
\* socket never holds more than its backlog, and no connection is in two places.
THEOREM ServiceTypes == Spec => []TypeOK
<1>1. ServiceInv => TypeOK
  BY DEF ServiceInv, TypeInv
<1> QED
  BY <1>1, ServiceInvHolds, PTL

\* However requests are cut off, connections closed and workers killed, the
\* coordinator's process ends only at a damaged frame.
THEOREM OnlyDamageEndsTheLoop == Spec => []OnlyDamageTerminates
<1>1. ServiceInv => OnlyDamageTerminates
  BY DEF ServiceInv
<1> QED
  BY <1>1, ServiceInvHolds, PTL

LEMMA StreamSafe == StreamInv => DispatchedAsSent /\ ReplyIsOwn
BY ZenonT(60) DEF StreamInv, DispatchedAsSent, ReplyIsOwn, SeenInv, OwnInv

\* As long as nothing is damaged, whatever the checksum is: every request is
\* dispatched as it was sent, at most once, and every reply is the worker's own.
THEOREM UndamagedService == Spec => [](damages = 0 => DispatchedAsSent /\ ReplyIsOwn)
<1>1. ServiceInv => (damages = 0 => DispatchedAsSent /\ ReplyIsOwn)
  BY StreamSafe, ZenonT(60) DEF ServiceInv, Trusted
<1> QED
  BY <1>1, ServiceInvHolds, PTL

\* With a cell damaged, a checksum that detects it is enough: what the loop
\* dispatches has the payload that the worker of that connection sent, and is
\* dispatched once.
THEOREM RequestsAsSent ==
    ASSUME MaxDamages <= 1, DetectsDamage
    PROVE  Spec => []DispatchedAsSent
<1>1. ServiceInv => DispatchedAsSent
  BY StreamSafe, ZenonT(60) DEF ServiceInv, Trusted
<1> QED
  BY <1>1, ServiceInvHolds, PTL

\* And a reply that a worker accepts is the one to its own request.
THEOREM RepliesAreOwn ==
    ASSUME MaxDamages <= 1, DetectsDamage
    PROVE  Spec => []ReplyIsOwn
<1>1. ServiceInv => ReplyIsOwn
  BY StreamSafe, ZenonT(60) DEF ServiceInv, Trusted
<1> QED
  BY <1>1, ServiceInvHolds, PTL

\* The loop's own reading and try_read_frame agree about every part of a frame
\* that the loop can have read: when to go on, when to give up, and what the
\* frame is.
THEOREM ReadersAgree == Spec => []BoundedReadAgrees
<1>1. ServiceInv => BoundedReadAgrees
  <2> SUFFICES ASSUME ServiceInv PROVE BoundedReadAgrees
    OBVIOUS
  <2> DEFINE t == try_read_frame(buf)
             f == decode_frame(buf)
             n == FrameCells(buf[4])
             whole == SubSeq(buf, 1, n)
  <2>1. buf \in Seq(Nat) /\ Len(buf) \in Nat /\ Len(buf) <= Wanted(buf)
    BY DEF ServiceInv, TypeInv, TypeOK
  <2>2. Len(buf) >= 4 => buf[4] \in Nat /\ Wanted(buf) = n /\ n \in Nat /\ n >= 5
    <3> SUFFICES ASSUME Len(buf) >= 4 PROVE buf[4] \in Nat /\ Wanted(buf) = n /\ n \in Nat /\ n >= 5
      OBVIOUS
    <3>1. buf[4] \in Nat
      BY <2>1
    <3> QED
      BY <2>1, <3>1 DEF Wanted, HeaderCells, FrameCells
  <2>3. Complete(buf) <=> Len(buf) >= 4 /\ Len(buf) = n
    BY <2>1, <2>2 DEF Complete, Wanted, HeaderCells
  <2>4. ~ (Len(buf) < n) /\ Len(buf) >= 4 => Complete(buf) /\ whole = buf /\ ~ (Len(buf) < FrameCells(0))
    <3> SUFFICES ASSUME ~ (Len(buf) < n), Len(buf) >= 4
                 PROVE  Complete(buf) /\ whole = buf /\ ~ (Len(buf) < FrameCells(0))
      OBVIOUS
    <3>1. Len(buf) = n
      BY <2>1, <2>2
    <3>2. SubSeq(buf, 1, Len(buf)) = buf
      BY <2>1
    <3> QED
      BY <2>1, <2>2, <2>3, <3>1, <3>2 DEF FrameCells, HeaderCells
  <2>5. ~ (Len(buf) < FrameCells(0)) => Len(buf) >= 4
    BY <2>1 DEF FrameCells, HeaderCells
  <2>6. t.result \in {"ok", "throws"} =>
           /\ ~ (Len(buf) < FrameCells(0)) /\ ~ (Len(buf) < n)
           /\ ~ (buf[4] > kMaxPayloadBytes)
    <3>1. \A r, x, c : Read(r, x, c).result = r
      BY DEF Read
    <3> QED
      BY <3>1 DEF try_read_frame
  <2>7. f.ok => buf[1] = kMagic
    <3>1. \A x : ~ Rejected(x).ok
      BY DEF Rejected
    <3> QED
      BY <3>1, ZenonT(60) DEF decode_frame
  <2>8. Complete(buf) /\ ~ TooLong(buf) =>
           IF f.ok THEN t = Read("ok", f, Len(buf)) ELSE t.result \in {"throws", "error"}
    <3> SUFFICES ASSUME Complete(buf), ~ TooLong(buf)
                 PROVE  IF f.ok THEN t = Read("ok", f, Len(buf)) ELSE t.result \in {"throws", "error"}
      OBVIOUS
    <3>1. Len(buf) = n /\ Len(buf) >= 4 /\ ~ (Len(buf) < n)
      BY <2>1, <2>3
    <3>2. whole = buf /\ ~ (Len(buf) < FrameCells(0)) /\ ~ (buf[4] > kMaxPayloadBytes)
      BY <2>4, <3>1 DEF TooLong, HeaderCells
    <3>3. \A r, x, c : Read(r, x, c).result = r
      BY DEF Read
    <3>4. t = IF buf[1] # kMagic THEN Read("error", NoFrame, 0)
              ELSE IF f.ok THEN Read("ok", f, n) ELSE Read("throws", f, 0)
      BY <3>1, <3>2, ZenonT(60) DEF try_read_frame
    <3> HIDE DEF t, f, n, whole
    <3> QED
      BY <2>7, <3>1, <3>3, <3>4, ZenonT(60)
  <2>9. TooLong(buf) => t.result # "ok"
    BY <2>6, ZenonT(60) DEF TooLong
  <2> HIDE DEF t, f
  <2>10. t.result \in {"ok", "throws"} => Complete(buf)
    BY <2>4, <2>5, <2>6, ZenonT(60)
  <2> QED
    BY <2>8, <2>9, <2>10, ZenonT(60) DEF BoundedReadAgrees, t, f
<1> QED
  BY <1>1, ServiceInvHolds, PTL
=============================================================================
