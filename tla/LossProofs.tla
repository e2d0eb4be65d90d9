----------------------------- MODULE LossProofs -----------------------------
(***************************************************************************)
(* What garbage collection and crashes take from a store that loads its    *)
(* records, for every value of the constants: no crash, save or load loses *)
(* a chunk of a live checkpoint, and no sweep takes what policies keep.    *)
(***************************************************************************)
EXTENDS RecoveryProofs

\* The provers for a leaf that names none, in the order in which they are tried.
\* tlapm drops an attempt that takes it over 5 seconds to prepare: the next repeats it.
USE SMTT(60), SMTT(61), SMTT(62), SMTT(63), SMTT(64), ZenonT(60), SMTT(65), SMTT(66)

(***************************************************************************)
(* Chunks through crashes.                                                 *)
(***************************************************************************)
\* A chunk that is in place: its bytes are intact and the dedup table knows it.
InPlace(d) == disk[d] = "good" /\ d \in entries

\* Without faults the chunks of every live checkpoint that no gc_run has swept,
\* and those that publish has placed, are in place.  publish never rewrites a
\* chunk that is in place, so that a crash inside a write loses none of them.
PlaceInv ==
    faults = 0 =>
        /\ available
        /\ \A c \in Live \ swept : \A d \in ChunksOf(c) : InPlace(d)
        /\ pub.step # "idle" => \A d \in PlacedChunks : InPlace(d)
        /\ pub.step = "write" => ~ InPlace(Chunk)

\* The chunks of a record in the state file.
SavedChunks(c) == {image.records.chunks[c][i] : i \in DOMAIN image.records.chunks[c]}

\* A checkpoint that the state file calls live and no gc_run has swept is live,
\* and the dedup table of the state file lists its chunks.
FileInv ==
    faults = 0 /\ image.saved =>
        \A c \in Ids \ swept : image.records.life[c] \in {"committed", "retired"} =>
            c \in Live /\ SavedChunks(c) \subseteq image.dedup.entries

\* gc_run removes no dedup entry of a checkpoint that it leaves.
LEMMA GcSparesEntries ==
    ASSUME TypeOK, gc_run, ~ ClockMovesInGc, NEW c \in Live', NEW d \in ChunksOf(c),
           InPlace(d)
    PROVE  InPlace(d)'
<1>1. d \in Digests
  BY DEF InPlace, TypeOK
<1>2. disk'[d] = disk[d]
  BY <1>1, GcSpares
<1>3. PICK eligible, retained, stuck : Sweep(eligible, retained, stuck)
  BY DEF gc_run
<1>4. PICK removed : disk' = Without(removed) /\ entries' = entries \ removed
  BY <1>3 DEF Sweep
<1>5. d \notin removed
  BY <1>1, <1>2, <1>4 DEF InPlace, Without
<1> QED
  BY <1>2, <1>4, <1>5 DEF InPlace

\* Without a fault a step of the store keeps in place what was in place, apart
\* from what gc_run takes from the checkpoints it sweeps, and no rollback happens.
LEMMA StorePlaces ==
    ASSUME TypeInv, IdInv, PlaceInv, [Next]_vars, ~ ClockMovesInGc, faults' = 0,
           swept' = (swept \cup {c \in Live : life'[c] = "deleted"}) \ (Existing' \ Existing),
           swept \subseteq Existing
    PROVE  PlaceInv'
<1> USE DEF MutexFree
<1>1. /\ faults = 0 /\ available
      /\ ~ FailWrite /\ ~ (\E d \in Digests : Damage(d)) /\ ~ Outage
      /\ \A c \in Live \ swept : \A d \in ChunksOf(c) : InPlace(d)
      /\ pub.step # "idle" => \A d \in PlacedChunks : InPlace(d)
      /\ pub.step = "write" => ~ InPlace(Chunk)
  BY NoFaultNow DEF PlaceInv
<1>2. pub.step \in {"lookup", "write"} =>
         pub \in Publishing /\ pub.at \in 1..Len(pub.data) /\ pub.data \in Seq(Digests)
         /\ Chunk \in Digests
  BY DEF TypeInv, TypeOK, PublishInRange, Publishing, Streams, Chunk
\* A live checkpoint that is not swept afterwards was not swept before, unless
\* publish has just committed it.
<1>3. ASSUME NEW c \in Live' \ swept' PROVE c \in Live \ swept \/ (Commit /\ c = pub.id)
  <2>1. life \in [Ids -> {"none", "committed", "retired", "deleted"}] /\ c \in Ids
    BY DEF TypeInv, TypeOK, Live
  <2>2. CASE c \notin Existing
    <3>1. life[c] = "none" /\ life'[c] \in {"committed", "retired"}
      BY <2>1, <2>2 DEF Existing, Live
    <3> QED
      BY ZenonT(60), <2>1, <3>1, LifeStep DEF retire, Live
  <2>3. CASE c \in Existing
    <3>1. c \notin swept
      BY <2>3
    <3>2. c \in Live \/ c = pub.id
      BY <2>3, RecordsStay
    <3>3. Commit => pub.id \notin Existing
      BY DEF Commit, IdInv
    <3>4. c = pub.id /\ c \notin Live => Commit
      <4> SUFFICES ASSUME c \notin Live, ~ Commit PROVE FALSE
        OBVIOUS
      <4>1. life[c] \in {"none", "deleted"} /\ life'[c] \in {"committed", "retired"}
        BY <2>1 DEF Live
      <4> QED
        BY <2>1, <4>1, LifeStep DEF retire, Live
    <3> QED
      BY ZenonT(60), <2>3, <3>1, <3>2, <3>3, <3>4
  <2> QED
    BY <2>2, <2>3
\* Steps that take nothing away.
<1>4. ASSUME ~ Commit, chunks' = chunks, available' = available,
             \A d : InPlace(d) => InPlace(d)'
      PROVE  \A c \in Live' \ swept' : \A d \in ChunksOf(c)' : InPlace(d)'
  BY <1>1, <1>3, <1>4 DEF ChunksOf
<1>5. CASE UNCHANGED <<life, chunks, entries, disk, available, pub>>
  <2>1. \A d : InPlace(d)' <=> InPlace(d)
    BY <1>5 DEF InPlace
  <2>2. ~ Commit \/ pub.step = "idle"
    <3>1. Commit => pub'.step = "idle" /\ pub.step = "verify"
      BY DEF Commit, Idle
    <3> QED
      BY ZenonT(60), <1>5, <3>1
  <2>3. ~ Commit
    BY <2>2 DEF Commit
  <2>4. PlacedChunks' = PlacedChunks /\ Chunk' = Chunk
    BY <1>5 DEF PlacedChunks, Chunk
  <2> QED
    BY ZenonT(60), <1>1, <1>4, <1>5, <2>1, <2>3, <2>4 DEF PlaceInv
<1>6. CASE \E c \in Ids, data \in Contents : publish(c, data)
  <2>1. PICK c \in Ids, data \in Contents : publish(c, data)
    BY <1>6
  <2>2. data \in Seq(Digests)
    BY ZenonT(60), StoreAssumption
  <2>3. PlacedChunks' = {} /\ pub'.step # "write" /\ ~ Commit
    BY <2>1, <2>2 DEF publish, PlacedChunks, Commit
  <2>4. UNCHANGED <<chunks, entries, disk, available>>
    BY <2>1 DEF publish, catalogVars, dedupVars, envVars
  <2>5. \A d : InPlace(d)' <=> InPlace(d)
    BY <2>4 DEF InPlace
  <2> QED
    BY ZenonT(60), <1>1, <1>4, <2>3, <2>4, <2>5 DEF PlaceInv
\* A step that puts the chunk at pub.at in place.
<1>7. ASSUME pub.step \in {"lookup", "write"}, pub'.data = pub.data, pub'.step = AfterChunk,
             pub'.at = pub.at + 1, chunks' = chunks, available' = available,
             \A d : InPlace(d) => InPlace(d)', NEW x, x = Chunk, InPlace(x)'
      PROVE  PlaceInv'
  <2>1. PlacedChunks' \subseteq PlacedChunks \cup {x}
    <3> SUFFICES ASSUME NEW i \in DOMAIN pub.data, AfterChunk = "verify" \/ i < pub.at + 1,
                        i # pub.at
                 PROVE  i < pub.at
      BY <1>7 DEF PlacedChunks, Chunk
    <3>1. i \in 1..Len(pub.data) /\ pub.at \in 1..Len(pub.data) /\ Len(pub.data) \in Nat
      BY <1>2, <1>7
    <3>2. AfterChunk = "verify" => pub.at = Len(pub.data)
      BY DEF AfterChunk
    <3> QED
      BY <3>1, <3>2
  <2>2. ~ Commit /\ AfterChunk # "write"
    BY <1>7 DEF Commit, AfterChunk
  <2>3. \A c \in Live' \ swept' : \A d \in ChunksOf(c)' : InPlace(d)'
    BY <1>4, <1>7, <2>2
  <2>4. \A d \in PlacedChunks' : InPlace(d)'
    BY ZenonT(60), <1>1, <1>7, <2>1
  <2> QED
    BY <1>1, <1>7, <2>2, <2>3, <2>4 DEF PlaceInv
<1>8. CASE ReuseChunk
  <2>1. /\ pub.step = "lookup" /\ pub'.data = pub.data /\ pub'.step = AfterChunk
        /\ pub'.at = pub.at + 1
    BY <1>2, <1>8 DEF ReuseChunk, Publishing
  <2>2. /\ UNCHANGED <<chunks, entries, disk, available>>
        /\ Chunk \in entries /\ disk[Chunk] = "good"
    BY <1>8 DEF ReuseChunk, Verified, catalogVars, envVars
  <2>3. \A d : InPlace(d) => InPlace(d)'
    BY <2>2 DEF InPlace
  <2>4. disk'[Chunk] = "good" /\ Chunk \in entries'
    BY <2>2
  <2>5. PICK x : x = Chunk
    OBVIOUS
  <2>6. InPlace(x)'
    BY <2>4, <2>5 DEF InPlace
  <2> QED
    BY ZenonT(60), <1>7, <2>1, <2>2, <2>3, <2>5, <2>6
<1>9. CASE MissChunk
  <2>1. pub.step = "lookup" /\ pub'.data = pub.data /\ pub'.step = "write" /\ pub'.at = pub.at
    BY <1>2, <1>9 DEF MissChunk, Publishing
  <2>2. UNCHANGED <<chunks, entries, disk, available>>
    BY <1>9 DEF MissChunk, catalogVars, dedupVars, envVars
  <2>3. PlacedChunks' = PlacedChunks /\ Chunk' = Chunk
    BY <2>1 DEF PlacedChunks, Chunk
  <2>4. ~ (Chunk \in entries /\ disk[Chunk] = "good")
    BY <1>1, <1>9 DEF MissChunk, Verified
  <2>5. ~ (InPlace(Chunk)')
    BY <2>2, <2>3, <2>4 DEF InPlace
  <2>6. \A d : InPlace(d) <=> InPlace(d)'
    BY <2>2 DEF InPlace
  <2>7. ~ Commit
    BY <2>1 DEF Commit
  <2> QED
    BY ZenonT(60), <1>1, <1>4, <2>1, <2>2, <2>3, <2>5, <2>6, <2>7 DEF PlaceInv
<1>10. CASE WriteChunk
  <2>1. /\ pub.step = "write" /\ pub'.data = pub.data /\ pub'.step = AfterChunk
        /\ pub'.at = pub.at + 1
    BY <1>2, <1>10 DEF WriteChunk, Publishing
  <2>2. /\ UNCHANGED <<chunks, available>>
        /\ disk' = [disk EXCEPT ![Chunk] = "good"] /\ entries' = entries \cup {Chunk}
    BY <1>10 DEF WriteChunk, catalogVars, Put
  <2>3. PICK x \in Digests : x = Chunk
    BY ZenonT(60), <1>2, <2>1
  <2>4. disk \in [Digests -> {"absent", "good", "bad"}] /\ entries \subseteq Digests
    BY DEF TypeInv, TypeOK
  <2>5. InPlace(x)' /\ \A d : InPlace(d) => InPlace(d)'
    BY <2>2, <2>3, <2>4 DEF InPlace
  <2> QED
    BY <1>7, <2>1, <2>2, <2>3, <2>5
<1>11. ASSUME pub.step = "verify", NEW i \in DOMAIN pub.data PROVE InPlace(pub.data[i])
  <2>1. pub.data[i] \in PlacedChunks
    BY <1>11 DEF PlacedChunks
  <2> QED
    BY <1>1, <1>11, <2>1
<1>12. ~ FailReadBack
  BY <1>1, <1>11 DEF FailReadBack, ReadBackOk, InPlace
<1>13. CASE Commit
  <2>1. /\ UNCHANGED <<entries, disk, available>> /\ pub'.step = "idle" /\ pub.step = "verify"
        /\ chunks' = [chunks EXCEPT ![pub.id] = pub.data] /\ pub.id \in Ids
    BY <1>13 DEF Commit, envVars, Idle, TypeInv, PublishInRange, Made
  <2>2. \A d : InPlace(d) <=> InPlace(d)'
    BY <2>1 DEF InPlace
  <2>3. chunks \in [Ids -> Streams]
    BY DEF TypeInv, TypeOK
  <2>4. ASSUME NEW c \in Live' \ swept', NEW d \in ChunksOf(c)' PROVE InPlace(d)
    <3>1. CASE c = pub.id
      <4>1. chunks'[c] = pub.data
        BY <2>1, <2>3, <3>1
      <4> QED
        BY <1>11, <2>1, <4>1 DEF ChunksOf
    <3>2. CASE c # pub.id
      <4>1. c \in Live \ swept /\ chunks'[c] = chunks[c]
        BY <1>3, <2>1, <2>3, <3>2 DEF Live
      <4> QED
        BY <1>1, <4>1 DEF ChunksOf
    <3> QED
      BY <3>1, <3>2
  <2> QED
    BY ZenonT(60), <1>1, <2>1, <2>2, <2>4 DEF PlaceInv
<1>14. CASE \E c \in Ids : retire(c)
  <2>1. UNCHANGED <<chunks, entries, disk, available, pub>> /\ pub.step = "idle"
    BY <1>14 DEF retire, dedupVars, envVars
  <2>2. ~ Commit /\ \A d : InPlace(d) <=> InPlace(d)'
    BY <2>1 DEF Commit, InPlace
  <2> QED
    BY <1>1, <1>4, <2>1, <2>2 DEF PlaceInv
<1>15. CASE gc_run
  <2>1. UNCHANGED <<chunks, available, pub>> /\ pub.step = "idle" /\ ~ Commit
    BY <1>15 DEF gc_run, Commit
  <2>2. ASSUME NEW c \in Live' \ swept', NEW d \in ChunksOf(c) PROVE InPlace(d)'
    <3>1. c \in Live \ swept
      BY <1>3, <2>1
    <3>2. InPlace(d)
      BY <1>1, <3>1
    <3> QED
      BY <1>15, <3>2, GcSparesEntries DEF TypeInv
  <2>3. \A c : ChunksOf(c)' = ChunksOf(c)
    BY <2>1 DEF ChunksOf
  <2> QED
    BY <1>1, <2>1, <2>2, <2>3 DEF PlaceInv
<1>16. CASE Return
  BY <1>1, <1>16 DEF Return
<1> QED
  BY ZenonT(60), <1>1, <1>5, <1>6, <1>8, <1>9, <1>10, <1>12, <1>13, <1>14, <1>15, <1>16
  DEF Next, Environment, vars, create_family, make_full_descriptor, set_authority_boot,
      set_retention_policy, gc_plan, reset_authority, verify_checkpoint, restore,
      catalogVars, dedupVars, envVars

\* Chunks stay in place through steps of the store, saves, crashes, exits and loads.
LEMMA LossStep ==
    ASSUME RecTypeInv, IdInv, ImageInv, PlaceInv, FileInv, [RecNext]_allVars \/ Restart,
           ~ ClockMovesInGc
    PROVE  PlaceInv' /\ FileInv'
<1>1. TypeInv /\ ImageType /\ swept \subseteq Existing /\ Existing \subseteq Ids
  BY DEF RecTypeInv, RecTypeOK, Existing
<1>2. CASE StoreStep
  <2>1. /\ Next /\ image' = image
        /\ swept' = (swept \cup {c \in Live : life'[c] = "deleted"}) \ (Existing' \ Existing)
    BY <1>2 DEF StoreStep, InMemory, Next
  <2>2. faults' = 0 => faults = 0
    BY <1>1, <2>1, NoFaultNow
  <2>3. PlaceInv'
    <3>1. CASE faults' = 0
      BY <1>1, <2>1, <3>1, StorePlaces
    <3>2. CASE faults' # 0
      BY <3>2 DEF PlaceInv
    <3> QED
      BY <3>1, <3>2
  <2>4. ASSUME faults' = 0, image.saved, NEW c \in Ids \ swept',
               image.records.life[c] \in {"committed", "retired"}
        PROVE  c \in Live' /\ SavedChunks(c) \subseteq image.dedup.entries
    <3>1. c \in Existing
      BY <2>4 DEF ImageInv, SavedRecordsKept
    <3>2. c \notin swept
      BY <2>1, <2>4, <3>1
    <3>3. c \in Live /\ SavedChunks(c) \subseteq image.dedup.entries
      BY <2>2, <2>4, <3>2 DEF FileInv
    <3>4. life'[c] # "deleted"
      BY <2>1, <2>4, <3>1, <3>3
    <3> QED
      BY ZenonT(60), <1>1, <2>1, <3>3, <3>4, RecordsStay
  <2>5. \A c : SavedChunks(c)' = SavedChunks(c)
    BY <2>1 DEF SavedChunks
  <2>6. FileInv'
    BY <2>1, <2>4, <2>5 DEF FileInv
  <2> QED
    BY <2>3, <2>6
<1>3. CASE UNCHANGED <<vars, swept>>
  <2>1. UNCHANGED <<life, chunks, entries, disk, available, faults, pub, swept>>
    BY <1>3 DEF vars
  <2>2. Live' = Live /\ PlacedChunks' = PlacedChunks /\ Chunk' = Chunk
        /\ \A d : (InPlace(d)' <=> InPlace(d)) /\ ChunksOf(d)' = ChunksOf(d)
    BY <2>1 DEF Live, PlacedChunks, Chunk, InPlace, ChunksOf
  <2>3. InPlace(Chunk)' <=> InPlace(Chunk)
    BY <2>1, <2>2 DEF InPlace
  <2>4. PlaceInv'
    BY <2>1, <2>2, <2>3 DEF PlaceInv
  <2>5. CASE image' = image
    BY <2>1, <2>2, <2>4, <2>5 DEF FileInv, SavedChunks
  <2>6. CASE image' = NoImage
    BY <2>4, <2>6 DEF FileInv, NoImage
  <2>7. CASE image' = Snapshot
    <3>1. /\ Snapshot.records.life = life /\ Snapshot.records.chunks = chunks
          /\ Snapshot.dedup.entries = entries
      BY DEF Snapshot, SavedRecords, SavedBlobs
    <3>2. ASSUME faults = 0, NEW c \in Ids \ swept, life[c] \in {"committed", "retired"}
          PROVE  c \in Live /\ SavedChunks(c)' \subseteq entries
      <4>1. c \in Live
        BY <3>2 DEF Live
      <4>2. SavedChunks(c)' = ChunksOf(c)
        BY <2>7, <3>1 DEF SavedChunks, ChunksOf
      <4> QED
        BY <3>2, <4>1, <4>2 DEF PlaceInv, InPlace
    <3> QED
      BY ZenonT(60), <2>1, <2>2, <2>4, <2>7, <3>1, <3>2 DEF FileInv
  <2> QED
    BY <1>3, <2>5, <2>6, <2>7
    DEF RecNext, StoreStep, InMemory, WriteTemp, RemoveOld, Rename, Crash, Restart, NewProcess,
        allVars, recVars
<1>4. CASE Restart
  <2>1. /\ image' = image /\ faults' = faults /\ available' = available /\ pub'.step = "idle"
        /\ disk' \in CrashDisks
    BY ZenonT(60), <1>4 DEF Restart, NewProcess, Idle
  <2>2. CASE faults # 0
    BY ZenonT(60), <2>1, <2>2 DEF PlaceInv, FileInv
  <2>3. CASE faults = 0 /\ ~ image.saved
    <3>1. Live' = {}
      BY <1>4, <2>3 DEF Restart, NewProcess, start_empty, Live
    <3> QED
      BY ZenonT(60), <2>1, <2>3, <3>1 DEF PlaceInv, FileInv
  <2>4. CASE faults = 0 /\ image.saved
    <3>1. load_state /\ swept' = {c \in swept : image.records.life[c] # "none"}
      BY <1>4, <2>4 DEF Restart, NewProcess
    <3>2. /\ life' = image.records.life /\ chunks' = image.records.chunks
          /\ entries' = image.dedup.entries
      BY <3>1 DEF load_state
    <3>3. ASSUME NEW c \in Ids \ swept', image.records.life[c] \in {"committed", "retired"}
          PROVE  /\ c \in Live \ swept /\ SavedChunks(c) \subseteq image.dedup.entries
                 /\ SavedChunks(c) = ChunksOf(c)
      <4>1. c \notin swept
        BY <3>1, <3>3
      <4>2. c \in Live /\ SavedChunks(c) \subseteq image.dedup.entries
        BY <2>4, <3>3, <4>1 DEF FileInv
      <4>3. chunks[c] = image.records.chunks[c]
        BY <2>4, <3>3 DEF ImageInv, SavedRecordsKept
      <4> QED
        BY <4>1, <4>2, <4>3 DEF SavedChunks, ChunksOf
    <3>4. ASSUME NEW d, InPlace(d) PROVE disk'[d] = "good"
      <4>1. CASE disk' = disk
        BY <3>4, <4>1 DEF InPlace
      <4>2. CASE pub.step = "write" /\ \E x \in {"absent", "good"} :
                    disk' = [disk EXCEPT ![Chunk] = x]
        <5>1. d # Chunk
          BY <2>4, <3>4, <4>2 DEF PlaceInv
        <5>2. PICK x : disk' = [disk EXCEPT ![Chunk] = x]
          BY ZenonT(60), <4>2
        <5>3. d \in Digests /\ disk \in [Digests -> {"absent", "good", "bad"}]
          BY <1>1, <3>4 DEF TypeInv, TypeOK, InPlace
        <5> QED
          BY <3>4, <5>1, <5>2, <5>3 DEF InPlace
      <4> QED
        BY <2>1, <4>1, <4>2 DEF CrashDisks
    <3>5. ASSUME NEW c \in Live' \ swept', NEW d \in ChunksOf(c)' PROVE InPlace(d)'
      <4>1. c \in Ids \ swept' /\ image.records.life[c] \in {"committed", "retired"}
        BY <3>2 DEF Live
      <4>2. /\ c \in Live \ swept /\ SavedChunks(c) \subseteq image.dedup.entries
            /\ SavedChunks(c) = ChunksOf(c)
        BY <3>3, <4>1
      <4>3. ChunksOf(c)' = SavedChunks(c) /\ d \in ChunksOf(c)
        <5>1. ChunksOf(c)' = SavedChunks(c)
          BY <3>2 DEF ChunksOf, SavedChunks
        <5> QED
          BY <4>2, <5>1
      <4>4. InPlace(d)
        BY <2>4, <4>2, <4>3 DEF PlaceInv
      <4>5. disk'[d] = "good" /\ d \in entries'
        BY <3>2, <3>4, <4>2, <4>3, <4>4
      <4> QED
        BY <4>5 DEF InPlace
    <3>6. available
      BY <2>4 DEF PlaceInv
    <3>7. PlaceInv'
      BY ZenonT(60), <2>1, <3>5, <3>6 DEF PlaceInv
    <3>8. ASSUME NEW c \in Ids \ swept', image'.records.life[c] \in {"committed", "retired"}
          PROVE  c \in Live' /\ SavedChunks(c)' \subseteq image'.dedup.entries
      <4>1. SavedChunks(c)' = SavedChunks(c)
        BY <2>1 DEF SavedChunks
      <4>2. c \in Live'
        BY <2>1, <3>2, <3>8 DEF Live
      <4> QED
        BY ZenonT(60), <2>1, <3>3, <3>8, <4>1, <4>2
    <3>9. FileInv'
      BY <3>8 DEF FileInv
    <3> QED
      BY <3>7, <3>9
  <2> QED
    BY <2>2, <2>3, <2>4
<1> QED
  BY <1>2, <1>3, <1>4, CrashRestarts DEF RecNext, WriteTemp, RemoveOld, Rename, allVars, recVars

\* Nothing is live at the start.
LEMMA LossInit == RecInit => PlaceInv /\ FileInv
<1> SUFFICES ASSUME RecInit PROVE PlaceInv /\ FileInv
  OBVIOUS
<1>1. Init /\ available = TRUE /\ image = NoImage
  BY ZenonT(60) DEF RecInit, Init
<1>2. pub.step = "idle" /\ Live = {} /\ available /\ ~ image.saved
  BY <1>1, StartsEmpty DEF NoImage
<1> QED
  BY ZenonT(60), <1>2 DEF PlaceInv, FileInv

\* Without backend faults, a crash at any point of publish, gc_run or save_state
\* and the load that follows cost a checkpoint nothing, unless some gc_run had
\* swept it, if gc_run reads one time.
THEOREM LossOnlyByCollection ==
    ASSUME ~ ClockMovesInGc
    PROVE  RecSpec => []LossOnlyBySweep
<1>1. RecInit => PlaceInv /\ FileInv
  BY LossInit
<1>2. RecTypeInv /\ IdInv /\ ImageInv /\ [RecNext]_allVars => IdInv' /\ ImageInv'
  BY RecordStep
<1>3. RecTypeInv /\ IdInv /\ ImageInv /\ PlaceInv /\ FileInv /\ [RecNext]_allVars
        => PlaceInv' /\ FileInv'
  BY LossStep
<1>4. PlaceInv => LossOnlyBySweep
  BY DEF PlaceInv, LossOnlyBySweep, InPlace
<1>5. RecTypeInv /\ [RecNext]_allVars => RecTypeInv'
  BY RecTypeStep
<1> QED
  BY <1>1, <1>2, <1>3, <1>4, <1>5, RecTypeInit, RecordInit, PTL DEF RecSpec
-----------------------------------------------------------------------------
(***************************************************************************)
(* Sweeps, with loaded records.                                            *)
(***************************************************************************)
\* A record belongs to a family, and what the state file calls deleted is.
SweptInv ==
    /\ Existing \subseteq Made
    /\ image.saved =>
          \A c \in Ids : image.records.life[c] = "deleted" => life[c] = "deleted"

\* A step of the store keeps records in families, and revives none.
LEMMA StoreRevivesNone ==
    ASSUME TypeInv, IdInv, Existing \subseteq Made, [Next]_vars
    PROVE  /\ Existing' \subseteq Made'
           /\ \A c \in Ids : life[c] = "deleted" => life'[c] = "deleted"
<1>1. /\ life \in [Ids -> {"none", "committed", "retired", "deleted"}]
      /\ \A c \in Existing : desc'[c] = desc[c]
  BY StoreKeepsRecords DEF TypeInv, TypeOK
<1>2. ASSUME Existing' = Existing PROVE Existing' \subseteq Made'
  BY <1>1, <1>2 DEF Made
<1>3. CASE life' = life
  <2>1. Existing' = Existing
    BY ZenonT(60), <1>3 DEF Existing
  <2> QED
    BY <1>2, <1>3, <2>1
<1>4. CASE Commit /\ life' = [life EXCEPT ![pub.id] = "committed"] /\ pub.id \in Ids
  <2>1. desc' = desc /\ pub.id \in Made /\ pub.id \notin Existing
    BY <1>4 DEF Commit, TypeInv, PublishInRange, IdInv
  <2>2. Existing' \subseteq Existing \cup {pub.id} /\ Made' = Made
    BY <1>1, <1>4, <2>1 DEF Existing, Made
  <2>3. \A c \in Ids : life[c] = "deleted" => life'[c] = "deleted"
    BY <1>1, <1>4, <2>1 DEF Existing
  <2> QED
    BY ZenonT(60), <2>1, <2>2, <2>3
<1>5. CASE \E c \in Ids : retire(c) /\ life' = [life EXCEPT ![c] = "retired"]
  <2>1. PICK c \in Ids : life[c] = "committed" /\ life' = [life EXCEPT ![c] = "retired"]
    BY ZenonT(60), <1>5 DEF retire
  <2>2. Existing' = Existing /\ \A x \in Ids : life[x] = "deleted" => life'[x] = "deleted"
    BY <1>1, <2>1 DEF Existing
  <2> QED
    BY <1>2, <2>2
<1>6. CASE \E S \in SUBSET Live : life' = [c \in Ids |-> IF c \in S THEN "deleted" ELSE life[c]]
  <2>1. Existing' = Existing /\ \A x \in Ids : life[x] = "deleted" => life'[x] = "deleted"
    BY <1>1, <1>6 DEF Existing, Live
  <2> QED
    BY <1>2, <2>1
<1> QED
  BY ZenonT(60), <1>3, <1>4, <1>5, <1>6, LifeStep

\* The same with saves, crashes, exits and loads.
LEMMA SweptStep ==
    ASSUME RecTypeInv, IdInv, ImageInv, SweptInv, [RecNext]_allVars \/ Restart
    PROVE  SweptInv'
<1>0. TypeInv /\ Existing \subseteq Made
  BY DEF RecTypeInv, SweptInv
<1>1. CASE [Next]_vars /\ image' = image
  BY ZenonT(60), <1>0, <1>1, StoreRevivesNone DEF SweptInv
<1>2. CASE UNCHANGED vars /\ image' = NoImage
  <2>1. Existing' = Existing /\ Made' = Made
    BY <1>2 DEF vars, Existing, Made
  <2> QED
    BY ZenonT(60), <1>0, <1>2, <2>1 DEF SweptInv, NoImage
<1>3. CASE UNCHANGED vars /\ image' = Snapshot
  <2>1. Existing' = Existing /\ Made' = Made /\ life' = life
    BY <1>3 DEF vars, Existing, Made
  <2>2. image'.records.life = life
    BY <1>3 DEF Snapshot, SavedRecords
  <2> QED
    BY ZenonT(60), <1>0, <2>1, <2>2 DEF SweptInv
<1>4. CASE Restart
  <2>1. CASE image.saved
    <3>1. image' = image /\ life' = image.records.life /\ desc' = image.records.desc
      BY ZenonT(60), <1>4, <2>1 DEF Restart, NewProcess, load_state
    <3>2. \A c \in Existing' : c \in Existing /\ desc'[c] = desc[c]
      BY ZenonT(60), <2>1, <3>1 DEF ImageInv, SavedRecordsKept, Existing
    <3>3. Existing' \subseteq Made'
      BY <1>0, <3>2 DEF Made
    <3> QED
      BY ZenonT(60), <3>1, <3>3 DEF SweptInv
  <2>2. CASE ~ image.saved
    <3>1. image' = image /\ Existing' = {}
      BY <1>4, <2>2 DEF Restart, NewProcess, start_empty, Existing
    <3> QED
      BY ZenonT(60), <2>2, <3>1 DEF SweptInv
  <2> QED
    BY ZenonT(60), <2>1, <2>2
<1>5. CASE StoreStep
  BY <1>1, <1>5 DEF StoreStep, InMemory, Next
<1>6. CASE WriteTemp \/ RemoveOld \/ Rename
  BY <1>1, <1>2, <1>3, <1>6 DEF WriteTemp, RemoveOld, Rename
<1>7. CASE UNCHANGED allVars
  BY <1>1, <1>7 DEF allVars, recVars
<1> QED
  BY <1>4, <1>5, <1>6, <1>7, CrashRestarts DEF RecNext

\* There are no records at the start.
LEMMA SweptInit == RecInit => SweptInv
<1> SUFFICES ASSUME RecInit PROVE SweptInv
  OBVIOUS
<1>1. Existing = {} /\ image = NoImage
  BY ZenonT(60), StartsEmpty DEF RecInit
<1> QED
  BY <1>1 DEF SweptInv, NoImage

\* Neither a sweep nor a load deletes one of the n newest.
LEMMA RecLatestStep ==
    ASSUME RecTypeInv, SweptInv, [RecNext]_allVars \/ Restart,
           NEW c \in Ids, NEW n \in 1..MaxIds,
           life[c] = "committed", desc[c].retention = "keep_latest_n",
           n > 1 => PoliciesOf(desc[c].family) # {},
           \A p \in PoliciesOf(desc[c].family) : p.latest_n >= n \/ n = 1,
           Cardinality(Newer(c)) < n
    PROVE  life'[c] # "deleted"
<1>1. CASE [Next]_vars
  BY ZenonT(60), <1>1, LatestStep DEF RecTypeInv, SweptInv
<1>2. CASE Restart
  <2>1. CASE image.saved
    BY ZenonT(60), <1>2, <2>1 DEF Restart, NewProcess, load_state, SweptInv
  <2>2. CASE ~ image.saved
    BY ZenonT(60), <1>2, <2>2 DEF Restart, NewProcess, start_empty
  <2> QED
    BY ZenonT(60), <2>1, <2>2
<1> QED
  BY ZenonT(60), <1>1, <1>2, CrashRestarts
  DEF RecNext, StoreStep, Next, WriteTemp, RemoveOld, Rename, allVars

\* With records and policies that come from a state file, in which generations of
\* a family can repeat, the n newest checkpoints of a family still survive every
\* gc_run, and no load brings one of them back as deleted.
THEOREM RecoveredLatestAreKept == RecSpec => LatestKept
<1> DEFINE Cond(c, n) ==
              /\ life[c] = "committed"
              /\ desc[c].retention = "keep_latest_n"
              /\ n > 1 => PoliciesOf(desc[c].family) # {}
              /\ \A p \in PoliciesOf(desc[c].family) : p.latest_n >= n \/ n = 1
              /\ Cardinality(Newer(c)) < n
           Kept == \A c \in Ids, n \in 1..MaxIds : Cond(c, n) => life'[c] # "deleted"
<1>1. RecInit => SweptInv
  BY ZenonT(60), SweptInit
<1>2. RecTypeInv /\ SweptInv /\ [RecNext]_allVars => [Kept]_vars
  BY RecLatestStep
<1>3. RecTypeInv /\ IdInv /\ ImageInv /\ SweptInv /\ [RecNext]_allVars
        => RecTypeInv' /\ IdInv' /\ ImageInv' /\ SweptInv'
  BY RecordStep, RecTypeStep, SweptStep
<1> QED
  BY <1>1, <1>2, <1>3, RecTypeInit, RecordInit, PTL DEF RecSpec, LatestKept

\* Nor does a sweep, a save or a load take an intact chunk from a checkpoint that
\* survives it, however wrong the loaded refcounts are, if gc_run reads one time.
THEOREM RecoveredGcSafe ==
    ASSUME ~ ClockMovesInGc
    PROVE  RecSpec => GcKeepsLiveChunks
<1> DEFINE Kept == MutexFree /\ faults' = faults =>
                     \A c \in Live \cap Live' : \A d \in ChunksOf(c) :
                         disk[d] = "good" => disk'[d] = "good"
<1>1. RecTypeInv /\ [RecNext]_allVars => [Kept]_vars
  <2> SUFFICES ASSUME RecTypeInv, [RecNext]_allVars, MutexFree, faults' = faults
               PROVE  \A c \in Live \cap Live' : \A d \in ChunksOf(c) :
                          disk[d] = "good" => disk'[d] = "good"
    OBVIOUS
  <2>1. CASE [Next]_vars
    BY <2>1, GcSafeStep DEF RecTypeInv
  <2>2. CASE Crash
    <3>1. disk' = disk
      BY <2>2 DEF Crash, CrashDisks, MutexFree
    <3> QED
      BY <3>1
  <2> QED
    BY ZenonT(60), <2>1, <2>2
    DEF RecNext, StoreStep, Next, WriteTemp, RemoveOld, Rename, allVars
<1>2. RecTypeInv /\ [RecNext]_allVars => RecTypeInv'
  BY RecTypeStep
<1> QED
  BY <1>1, <1>2, RecTypeInit, PTL DEF RecSpec, GcKeepsLiveChunks
=============================================================================
