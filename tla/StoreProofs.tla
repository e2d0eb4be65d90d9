---------------------------- MODULE StoreProofs ----------------------------
(***************************************************************************)
(* Theorems about Store, for every value of its constants.                 *)
(***************************************************************************)
EXTENDS Store, FiniteSetTheorems, TLAPS

\* The provers for a leaf that names none, in the order in which they are tried.
\* tlapm drops an attempt that takes it over 5 seconds to prepare: the next repeats it.
USE SMTT(60), SMTT(61), SMTT(62), SMTT(63), SMTT(64), ZenonT(60), SMTT(65), SMTT(66)

\* While publish runs it works on a descriptor that was made, and while it
\* is placing chunks its position is inside the stream.
PublishInRange ==
    pub.step # "idle" =>
        /\ pub.id \in Made
        /\ pub.step \in {"lookup", "write"} => pub.at \in DOMAIN pub.data

TypeInv == TypeOK /\ PublishInRange

\* There are finitely many ids.
LEMMA IdsFinite == IsFiniteSet(Ids)
BY FS_Interval, StoreAssumption DEF Ids

\* References are counted by natural numbers.
LEMMA ReferencesFinite ==
    ASSUME NEW S \in SUBSET Ids, NEW d
    PROVE  /\ IsFiniteSet(References(S, d))
           /\ Cardinality(References(S, d)) \in Nat
<1>1. IsFiniteSet(Ids) /\ IsFiniteSet(1..MaxChunks)
  BY IdsFinite, FS_Interval, StoreAssumption
<1>2. IsFiniteSet(S)
  BY <1>1, FS_Subset
<1>3. IsFiniteSet(S \X (1..MaxChunks))
  BY ZenonT(60), <1>1, <1>2, FS_Product
<1>4. References(S, d) \in SUBSET (S \X (1..MaxChunks))
  BY DEF References
<1> QED
  BY <1>3, <1>4, FS_Subset, FS_CardinalityType

\* The store starts without records, and with no publish under way.
LEMMA StartsEmpty ==
    ASSUME Init
    PROVE  /\ Made = {} /\ Existing = {} /\ Live = {} /\ life = [c \in Ids |-> "none"]
           /\ pub = Idle /\ pub.step = "idle" /\ pub.data = <<>>
<1>1. desc = [c \in Ids |-> NoDesc] /\ life = [c \in Ids |-> "none"] /\ pub = Idle
  BY ZenonT(60) DEF Init
<1>2. NoDesc.family \notin FamilyIds
  BY DEF NoDesc, FamilyIds
<1>3. Made = {}
  BY <1>1, <1>2 DEF Made
<1>4. Existing = {} /\ Live = {}
  BY <1>1 DEF Existing, Live
<1>5. pub.step = "idle" /\ pub.data = <<>>
  BY <1>1 DEF Idle
<1> QED
  BY ZenonT(60), <1>1, <1>3, <1>4, <1>5

\* An empty store is typed.
LEMMA TypeInit == Init => TypeInv
<1> SUFFICES ASSUME Init PROVE TypeInv
  OBVIOUS
<1>1. NoDesc \in Descriptors
  BY StoreAssumption DEF NoDesc, Descriptors
<1>2. Idle \in Publishing
  BY StoreAssumption DEF Idle, NoFresh, Publishing, Streams
<1>3. <<>> \in Streams
  BY StoreAssumption DEF Streams
<1>4. NoPolicy \in Policies
  BY StoreAssumption DEF NoPolicy, Policies
<1>5. gc \in Snapshots
  BY StoreAssumption DEF Init, Snapshots
<1> QED
  BY <1>1, <1>2, <1>3, <1>4, <1>5, StoreAssumption
  DEF Init, TypeInv, TypeOK, PublishInRange, Made, Ids, FamilyIds, Idle

\* Every operation and every fault keeps the types.
LEMMA TypeStep == TypeInv /\ [Next]_vars => TypeInv'
<1> SUFFICES ASSUME TypeInv, [Next]_vars PROVE TypeInv'
  OBVIOUS
<1> USE DEF TypeInv, MutexFree
<1>1. CASE create_family
  <2>1. nextGen' \in [FamilyIds -> Nat] /\ nextFamily' \in 1..(MaxFamilies + 1)
    BY <1>1, StoreAssumption DEF create_family, TypeOK, FamilyIds
  <2> QED
    BY <1>1, <2>1 DEF create_family, TypeOK, PublishInRange, Made, catalogVars, dedupVars,
                      ctlVars, envVars
<1>2. CASE \E f \in FamilyIds, r \in RetentionClasses, l \in Lineages, n \in ReplicaCounts :
              make_full_descriptor(f, r, l, n)
  <2>1. PICK f \in FamilyIds, r \in RetentionClasses, l \in Lineages, n \in ReplicaCounts :
              make_full_descriptor(f, r, l, n)
    BY <1>2
  <2> DEFINE new == [family |-> f, gen |-> nextGen[f], boot |-> boot, retention |-> r,
                     lineage |-> l, replicas |-> n]
  <2>2. new \in Descriptors
    BY StoreAssumption DEF Descriptors, TypeOK, FamilyIds
  <2>3. desc' = [desc EXCEPT ![nextId] = new] /\ nextId \in Ids /\ nextId' = nextId + 1
    BY <2>1 DEF make_full_descriptor
  <2> HIDE DEF new
  <2>4. nextId' \in 1..(MaxIds + 1) /\ desc' \in [Ids -> Descriptors]
    BY <2>2, <2>3, StoreAssumption DEF TypeOK, Ids
  <2> QED
    BY <2>1, <2>4 DEF make_full_descriptor, TypeOK, PublishInRange, Made, dedupVars,
                            ctlVars, envVars
<1>3. CASE \E b \in Boots : set_authority_boot(b)
  BY <1>3 DEF set_authority_boot, TypeOK, PublishInRange, Made, idVars, catalogVars, dedupVars,
              envVars
<1>4. CASE \E c \in Ids, data \in Contents : publish(c, data)
  <2>1. PICK c \in Ids, data \in Contents : publish(c, data)
    BY <1>4
  <2>2. data \in Streams
    BY StoreAssumption DEF Streams
  <2>3. pub' \in Publishing
    BY <2>1, <2>2, StoreAssumption DEF publish, NoFresh, Ids, Publishing
  <2>4. PublishInRange'
    <3>1. c \in Made
      BY <2>1 DEF publish, Admitted
    <3>2. data # <<>> => 1 \in DOMAIN data
      BY <2>2 DEF Streams
    <3> QED
      BY ZenonT(60), <2>1, <3>1, <3>2 DEF publish, PublishInRange, idVars, catalogVars, Made
  <2> QED
    BY <2>1, <2>3, <2>4 DEF publish, TypeOK, idVars, catalogVars, dedupVars, ctlVars, envVars
\* Placing a chunk moves publish to the next one.
<1> DEFINE Placed == [pub EXCEPT !.step = AfterChunk, !.at = @ + 1]
<1>5. ASSUME pub.step \in {"lookup", "write"}
      PROVE  /\ Chunk \in Digests
             /\ Placed \in Publishing
             /\ Placed.step \in {"lookup", "verify"}
             /\ Placed.step = "lookup" => pub.at + 1 \in DOMAIN pub.data
             /\ Placed.at = pub.at + 1 /\ Placed.id = pub.id /\ Placed.data = pub.data
             /\ pub.id \in Made
  <2>1. pub.data \in Seq(Digests) /\ pub.at \in DOMAIN pub.data /\ pub \in Publishing
    BY <1>5 DEF TypeOK, PublishInRange, Made, Publishing, Streams
  <2>2. Chunk \in Digests
    BY <2>1 DEF Chunk
  <2>3. pub.at \in 1..Len(pub.data) /\ DOMAIN pub.data = 1..Len(pub.data)
        /\ Len(pub.data) \in Nat
    BY <2>1
  <2>4. AfterChunk \in {"lookup", "verify"}
    BY DEF AfterChunk
  <2>5. AfterChunk = "lookup" => pub.at + 1 \in DOMAIN pub.data
    BY <2>3 DEF AfterChunk
  <2>6. Placed \in Publishing
    <3>1. AfterChunk \in {"idle", "lookup", "write", "verify"} /\ pub.at + 1 \in Nat
      BY <2>3, <2>4
    <3> QED
      BY <2>1, <3>1, ZenonT(60) DEF Publishing
  <2>7. /\ Placed.step = AfterChunk
        /\ Placed.at = pub.at + 1 /\ Placed.id = pub.id /\ Placed.data = pub.data
    BY <2>1 DEF Publishing
  <2>8. pub.id \in Made
    BY <1>5 DEF PublishInRange
  <2> QED
    BY <2>2, <2>4, <2>5, <2>6, <2>7, <2>8
<1> HIDE DEF Placed
<1>6. CASE ReuseChunk
  <2>1. pub' = Placed /\ pub.step = "lookup"
    BY <1>6 DEF ReuseChunk, Placed
  <2>2. PublishInRange'
    BY ZenonT(60), <1>5, <1>6, <2>1 DEF PublishInRange, ReuseChunk, catalogVars, Made
  <2>3. refs' \in [Digests -> Nat] /\ \A d \in Digests \ entries : refs'[d] = 0
    BY <1>5, <1>6, <2>1 DEF ReuseChunk, add_reference, TypeOK
  <2> QED
    BY <1>5, <1>6, <2>1, <2>2, <2>3
    DEF ReuseChunk, TypeOK, idVars, catalogVars, ctlVars, envVars
<1>7. CASE MissChunk
  <2>1. pub' \in Publishing
    BY <1>7 DEF MissChunk, TypeOK, Publishing
  <2> QED
    BY <1>7, <2>1 DEF MissChunk, TypeOK, PublishInRange, Made, idVars, catalogVars, dedupVars,
                      ctlVars, envVars, Publishing
<1>8. CASE WriteChunk
  <2>1. pub.step = "write" /\ pub' = [Placed EXCEPT !.fresh[Chunk] = @ + 1]
    BY <1>8 DEF WriteChunk, Placed, TypeOK, Publishing
  <2>2. pub' \in Publishing
    BY <1>5, <2>1 DEF Publishing
  <2>3. PublishInRange'
    <3>1. /\ pub'.step = Placed.step /\ pub'.at = Placed.at /\ pub'.id = Placed.id
          /\ pub'.data = Placed.data
      BY <1>5, <2>1 DEF Publishing
    <3> QED
      BY <1>5, <1>8, <2>1, <3>1 DEF PublishInRange, WriteChunk, catalogVars, Made
  <2>4. refs' \in [Digests -> Nat] /\ \A d \in Digests \ entries' : refs'[d] = 0
    BY <1>5, <1>8, <2>1 DEF WriteChunk, insert, TypeOK
  <2>5. disk' \in [Digests -> {"absent", "good", "bad"}]
    BY <1>5, <1>8, <2>1 DEF WriteChunk, Put, TypeOK
  <2> QED
    BY <1>5, <1>8, <2>1, <2>2, <2>3, <2>4, <2>5
    DEF WriteChunk, TypeOK, idVars, catalogVars, ctlVars
<1>9. ASSUME NEW gone, NEW stuck, Rollback(gone, stuck), faults' \in 0..MaxFaults
      PROVE  TypeInv'
  <2>1. Idle \in Publishing
    BY StoreAssumption DEF Idle, NoFresh, Publishing, Streams
  <2>2. pub.fresh \in [Digests -> Nat]
    BY DEF TypeOK, Publishing
  <2>3. refs' \in [Digests -> Nat] /\ \A d \in Digests \ entries' : refs'[d] = 0
    BY <1>9, <2>2 DEF Rollback, release_reference, TypeOK, Fresh
  <2>4. disk' \in [Digests -> {"absent", "good", "bad"}]
    BY <1>9 DEF Rollback, Without, TypeOK
  <2> QED
    BY ZenonT(60), <1>9, <2>1, <2>3, <2>4 DEF Rollback, TypeOK, PublishInRange, Made,
       idVars, catalogVars, ctlVars, Idle
<1>10. CASE FailWrite
  <2>1. faults' \in 0..MaxFaults
    BY <1>10, StoreAssumption DEF FailWrite, TypeOK
  <2> QED
    BY <1>9, <1>10, <2>1 DEF FailWrite
<1>11. CASE FailReadBack
  <2>1. faults' \in 0..MaxFaults
    BY ZenonT(60), <1>11, StoreAssumption DEF FailReadBack, TypeOK
  <2> QED
    BY <1>9, <1>11, <2>1 DEF FailReadBack
<1>12. CASE Commit
  <2>1. pub.id \in Made /\ pub.id \in Ids
    BY <1>12 DEF Commit, PublishInRange, Made
  <2>2. Idle \in Publishing
    BY StoreAssumption DEF Idle, NoFresh, Publishing, Streams
  <2>3. pub.data \in Streams /\ pub.data \in Seq(Digests)
    BY DEF TypeOK, Publishing, Streams
  <2>4. desc[pub.id].family \in FamilyIds /\ desc[pub.id].gen \in Nat
    BY <2>1 DEF TypeOK, Descriptors, Made
  <2>5. nextGen' \in [FamilyIds -> Nat]
    BY <1>12, <2>4 DEF Commit, TypeOK
  <2>6. chunks' \in [Ids -> Streams]
    BY ZenonT(60), <1>12, <2>3 DEF Commit, TypeOK
  <2>7. held' \subseteq Digests
    <3>1. \A i \in DOMAIN pub.data : pub.data[i] \in Digests
      BY <2>3
    <3> QED
      BY <1>12, <3>1 DEF Commit, TypeOK
  <2> QED
    BY <1>12, <2>1, <2>2, <2>5, <2>6, <2>7
    DEF Commit, TypeOK, PublishInRange, Made, Idle, ctlVars, envVars
<1>13. CASE \E p \in PolicyIds, f \in FamilyIds, t \in PolicyTerms :
               set_retention_policy(p, f, t)
  <2>1. PICK p \in PolicyIds, f \in FamilyIds, t \in PolicyTerms : set_retention_policy(p, f, t)
    BY <1>13
  <2>2. [family |-> f, latest_n |-> t.latest_n, ttl |-> t.ttl,
         policy_protected |-> t.policy_protected] \in Policies
    <3>1. t \in [latest_n : Nat, ttl : BOOLEAN, policy_protected : BOOLEAN]
      BY StoreAssumption
    <3> QED
      BY <3>1, StoreAssumption DEF Policies, FamilyIds
  <2>3. retention' \in [PolicyIds -> Policies]
    BY ZenonT(60), <2>1, <2>2 DEF set_retention_policy, TypeOK
  <2> QED
    BY <2>1, <2>3 DEF set_retention_policy, TypeOK, PublishInRange, Made, idVars, catalogVars,
                      dedupVars, envVars
<1>14. CASE \E c \in Ids : retire(c)
  BY <1>14 DEF retire, TypeOK, PublishInRange, Made, idVars, dedupVars, ctlVars, envVars
<1>15. CASE gc_plan
  <2>1. gc' \in Snapshots
    BY <1>15 DEF gc_plan, TypeOK, Snapshots
  <2> QED
    BY <1>15, <2>1 DEF gc_plan, TypeOK, PublishInRange, Made, idVars, catalogVars,
       dedupVars, envVars
<1>16. CASE gc_run
  <2>1. PICK eligible \in SUBSET Ids, retained \in SUBSET Ids, stuck \in SUBSET Digests :
             Sweep(eligible, retained, stuck)
    <3>1. \A pick, young : /\ gc_eligible_checkpoints(pick, young) \in SUBSET Ids
                           /\ compute_protected(pick, young) \in SUBSET Ids
      BY DEF gc_eligible_checkpoints, compute_protected, Live, Existing
    <3>2. SUBSET gc.reclaimable \subseteq SUBSET Digests
      BY DEF TypeOK, Snapshots
    <3> QED
      BY <1>16, <3>1, <3>2 DEF gc_run
  <2>2. refs' \in [Digests -> Nat]
    BY <2>1, ReferencesFinite DEF Sweep, RefsAfterSweep, release_reference, TypeOK
  <2>3. \A d \in Digests \ entries' : refs'[d] = 0
    BY <2>1, ReferencesFinite DEF Sweep, RefsAfterSweep, release_reference, Reclaimable, TypeOK
  <2>4. gc' \in Snapshots
    BY ZenonT(60), <2>1 DEF Sweep, TypeOK, Snapshots
  <2>5. /\ life' \in [Ids -> {"none", "committed", "retired", "deleted"}]
        /\ disk' \in [Digests -> {"absent", "good", "bad"}]
        /\ entries' \subseteq Digests /\ blobs' \subseteq Digests /\ held' \subseteq Digests
    BY <2>1 DEF Sweep, Without, TypeOK
  <2> QED
    BY ZenonT(60), <1>16, <2>2, <2>3, <2>4, <2>5
    DEF gc_run, TypeOK, PublishInRange, Made, idVars
<1>17. CASE reset_authority
  <2>1. gc' \in Snapshots
    BY ZenonT(60), <1>17 DEF reset_authority, TypeOK, Snapshots
  <2> QED
    BY <1>17, <2>1 DEF reset_authority, TypeOK, PublishInRange, Made, idVars, catalogVars,
                       dedupVars, envVars
<1>18. CASE \E c \in Probed : verify_checkpoint(c) \/ restore(c)
  BY <1>18 DEF verify_checkpoint, restore, TypeOK, PublishInRange, Made, idVars, dedupVars,
               ctlVars, envVars
<1>19. CASE \E d \in Digests : Damage(d)
  <2>1. faults' \in 0..MaxFaults /\ disk' \in [Digests -> {"absent", "good", "bad"}]
    BY <1>19, StoreAssumption DEF Damage, TypeOK
  <2> QED
    BY <1>19, <2>1 DEF Damage, TypeOK, PublishInRange, Made, idVars, catalogVars, dedupVars,
       ctlVars
<1>20. CASE Outage \/ Return
  <2>1. faults' \in 0..MaxFaults
    BY <1>20, StoreAssumption DEF Outage, Return, TypeOK
  <2> QED
    BY ZenonT(60), <1>20, <2>1 DEF Outage, Return, TypeOK, PublishInRange, Made, idVars,
       catalogVars, dedupVars, ctlVars
<1>21. CASE UNCHANGED vars
  BY <1>21 DEF vars, TypeOK, PublishInRange, Made
<1> QED
  BY ZenonT(60), <1>1, <1>2, <1>3, <1>4, <1>6, <1>7, <1>8, <1>10, <1>11, <1>12, <1>13, <1>14,
     <1>15, <1>16, <1>17, <1>18, <1>19, <1>20, <1>21 DEF Next, Environment

\* Every variable of the store keeps its type, and a digest without a dedup
\* entry has refcount 0, whatever clients and backend do.
THEOREM TypeCorrect == Spec => []TypeOK
<1>1. Spec => []TypeInv
  BY TypeInit, TypeStep, PTL DEF Spec
<1> QED
  BY <1>1, PTL DEF TypeInv
-----------------------------------------------------------------------------
(***************************************************************************)
(* Garbage collection and the chunks of live checkpoints.                  *)
(***************************************************************************)
\* A checkpoint that gc_run leaves live was live before.
LEMMA GcSurvivor ==
    ASSUME gc_run, NEW c \in Live'
    PROVE  c \in Live
<1>1. PICK eligible, retained, stuck : Sweep(eligible, retained, stuck)
  BY DEF gc_run
<1>2. life' = [x \in Ids |-> IF x \in eligible THEN "deleted" ELSE life[x]]
  BY ZenonT(60), <1>1 DEF Sweep
<1> QED
  BY ZenonT(60), <1>2 DEF Live

\* What gc_run reclaims is unreachable from what it does not sweep, provided
\* that it sees the same protected set when it sweeps and when it marks.
LEMMA GcSpares ==
    ASSUME TypeOK, gc_run, ~ ClockMovesInGc, NEW c \in Live', NEW d \in ChunksOf(c)
    PROVE  /\ c \in Live
           /\ d \in Digests => disk'[d] = disk[d]
           /\ d \in blobs => d \in blobs'
           /\ d \in held => d \in held'
<1>1. PICK pick \in find_policy, young \in SUBSET Timed, stuck \in SUBSET gc.reclaimable :
          Sweep(gc_eligible_checkpoints(pick, young), compute_protected(pick, young), stuck)
  BY ZenonT(60) DEF gc_run
<1> DEFINE eligible == gc_eligible_checkpoints(pick, young)
           retained == compute_protected(pick, young)
           reclaim  == Reclaimable(retained, RefsAfterSweep(eligible))
<1>2. c \notin eligible /\ c \in Live
  <2>1. life' = [x \in Ids |-> IF x \in eligible THEN "deleted" ELSE life[x]]
    BY <1>1 DEF Sweep
  <2> QED
    BY <2>1 DEF Live
<1>3. c \in retained
  BY <1>2 DEF gc_eligible_checkpoints
<1>4. d \in compute_reachable(retained)
  BY <1>3 DEF compute_reachable
<1>5. d \notin reclaim
  BY <1>4 DEF Reclaimable
<1>6. /\ disk' = [x \in Digests |->
                    IF x \in {y \in reclaim \cap held : disk[y] # "absent"} \ stuck
                    THEN "absent" ELSE disk[x]]
      /\ blobs' = blobs \ reclaim
      /\ held' = held \ reclaim
  BY <1>1 DEF Sweep, Without
<1> QED
  BY ZenonT(60), <1>2, <1>5, <1>6

\* Chunks that publish has already found or put in place.
PlacedChunks ==
    {pub.data[i] : i \in {j \in DOMAIN pub.data : pub.step = "verify" \/ j < pub.at}}

\* The count of faults never falls, so that a step that leaves it at 0 is none of
\* the backend's failures.
LEMMA NoFaultNow ==
    ASSUME TypeInv, [Next]_vars, faults' = 0
    PROVE  /\ faults = 0 /\ ~ (\E d \in Digests : Damage(d)) /\ ~ Outage
           /\ available => ~ FailWrite
<1>1. faults \in Nat
  BY StoreAssumption DEF TypeInv, TypeOK
<1>2. ~ (\E d \in Digests : Damage(d)) /\ ~ Outage
  BY <1>1 DEF Damage, Outage
<1>3. FailWrite => faults' \in {faults, faults + 1}
  BY ZenonT(60) DEF FailWrite
<1>4. faults = 0
  BY <1>1, <1>2, <1>3 DEF Next, Environment, vars, create_family, make_full_descriptor,
     set_authority_boot, publish, ReuseChunk, MissChunk, WriteChunk, FailReadBack, Commit,
     set_retention_policy, retire, gc_plan, gc_run, reset_authority, verify_checkpoint,
     restore, Return, envVars
<1>5. available => ~ FailWrite
  BY <1>1, <1>4 DEF FailWrite
<1> QED
  BY <1>2, <1>4, <1>5

\* Without a fault the backend answers, the chunks of live checkpoints are
\* intact, and so are the chunks that the publish under way has placed: its
\* read-back cannot fail, so that no rollback happens at all.
NoFaultInv ==
    faults = 0 =>
        /\ available
        /\ \A c \in Live : \A d \in ChunksOf(c) : disk[d] = "good"
        /\ pub.step # "idle" => \A d \in PlacedChunks : disk[d] = "good"

\* As long as nothing failed, every operation keeps the chunks of live checkpoints intact.
LEMMA NoFaultStep ==
    ASSUME TypeInv, NoFaultInv, [Next]_vars, ~ ClockMovesInGc
    PROVE  NoFaultInv'
<1> SUFFICES ASSUME faults' = 0 PROVE NoFaultInv'
  BY DEF NoFaultInv
<1> USE DEF MutexFree
<1>1. /\ faults = 0 /\ available
      /\ ~ FailWrite /\ ~ (\E d \in Digests : Damage(d)) /\ ~ Outage
      /\ \A c \in Live : \A d \in ChunksOf(c) : disk[d] = "good"
      /\ pub.step # "idle" => \A d \in PlacedChunks : disk[d] = "good"
  BY NoFaultNow DEF NoFaultInv
<1>2. CASE /\ UNCHANGED <<life, chunks, disk, available>>
           /\ pub' = pub \/ pub'.step = "idle"
  BY <1>1, <1>2 DEF NoFaultInv, Live, ChunksOf, PlacedChunks
<1>3. CASE \E c \in Ids, data \in Contents : publish(c, data)
  <2>1. PICK c \in Ids, data \in Contents : publish(c, data)
    BY <1>3
  <2>2. data \in Seq(Digests)
    BY StoreAssumption
  <2>3. PlacedChunks' = {}
    BY <2>1, <2>2 DEF publish, PlacedChunks
  <2> QED
    BY <1>1, <2>1, <2>3 DEF publish, catalogVars, envVars, NoFaultInv, Live, ChunksOf
<1>4. pub.step \in {"lookup", "write"} => pub \in Publishing /\ pub.at \in 1..Len(pub.data)
      /\ pub.data \in Seq(Digests) /\ Chunk \in Digests
  BY DEF TypeInv, TypeOK, PublishInRange, Made, Publishing, Streams, Chunk
\* The chunks in place after a step that places the chunk at pub.at.
<1>5. ASSUME pub.step \in {"lookup", "write"}, pub'.data = pub.data,
             pub'.step = AfterChunk, pub'.at = pub.at + 1
      PROVE  PlacedChunks' \subseteq PlacedChunks \cup {Chunk}
  <2> SUFFICES ASSUME NEW i \in DOMAIN pub.data, AfterChunk = "verify" \/ i < pub.at + 1,
                      i # pub.at
               PROVE  i < pub.at
    BY <1>5 DEF PlacedChunks, Chunk
  <2>1. i \in 1..Len(pub.data) /\ pub.at \in 1..Len(pub.data) /\ Len(pub.data) \in Nat
    BY <1>4, <1>5
  <2>2. AfterChunk = "verify" => pub.at = Len(pub.data)
    BY DEF AfterChunk
  <2> QED
    BY <2>1, <2>2
<1>6. CASE ReuseChunk
  <2>1. /\ pub.step = "lookup" /\ pub'.data = pub.data /\ pub'.step = AfterChunk
        /\ pub'.at = pub.at + 1
    BY <1>4, <1>6 DEF ReuseChunk, Publishing
  <2>2. PlacedChunks' \subseteq PlacedChunks \cup {Chunk} /\ disk[Chunk] = "good"
    BY <1>5, <1>6, <2>1 DEF ReuseChunk, Verified
  <2> QED
    BY <1>1, <1>6, <2>1, <2>2 DEF ReuseChunk, catalogVars, envVars, NoFaultInv, Live, ChunksOf
<1>7. CASE MissChunk
  <2>1. pub.step = "lookup" /\ pub'.data = pub.data /\ pub'.step = "write" /\ pub'.at = pub.at
    BY <1>4, <1>7 DEF MissChunk, Publishing
  <2>2. PlacedChunks' = PlacedChunks
    BY <2>1 DEF PlacedChunks
  <2> QED
    BY <1>1, <1>7, <2>1, <2>2 DEF MissChunk, catalogVars, envVars, NoFaultInv, Live, ChunksOf
<1>8. CASE WriteChunk
  <2>1. /\ pub.step = "write" /\ pub'.data = pub.data /\ pub'.step = AfterChunk
        /\ pub'.at = pub.at + 1
    BY <1>4, <1>8 DEF WriteChunk, Publishing
  <2>2. PlacedChunks' \subseteq PlacedChunks \cup {Chunk}
    BY <1>5, <2>1
  <2>3. \A d : disk[d] = "good" => disk'[d] = "good"
    BY <1>4, <1>8, <2>1 DEF WriteChunk, Put, TypeInv, TypeOK
  <2>4. disk'[Chunk] = "good"
    BY <1>4, <1>8, <2>1 DEF WriteChunk, Put, TypeInv, TypeOK
  <2> QED
    BY <1>1, <1>8, <2>1, <2>2, <2>3, <2>4
    DEF WriteChunk, catalogVars, NoFaultInv, Live, ChunksOf
<1>9. ~ FailReadBack
  <2>1. ASSUME pub.step = "verify", NEW i \in DOMAIN pub.data
        PROVE  disk[pub.data[i]] = "good"
    <3>1. pub.data[i] \in PlacedChunks
      BY ZenonT(60), <2>1 DEF PlacedChunks
    <3> QED
      BY <1>1, <2>1, <3>1
  <2> QED
    BY <1>1, <2>1 DEF FailReadBack, ReadBackOk
<1>10. CASE Commit
  <2>1. /\ pub.id \in Ids /\ pub'.step = "idle" /\ disk' = disk /\ available' = available
        /\ life' = [life EXCEPT ![pub.id] = "committed"]
        /\ chunks' = [chunks EXCEPT ![pub.id] = pub.data]
        /\ \A i \in DOMAIN pub.data : disk[pub.data[i]] = "good"
    BY <1>10, StoreAssumption DEF Commit, TypeInv, TypeOK, PublishInRange, Made, Idle, envVars,
                                  ReadBackOk
  <2>2. \A c \in Live' : c = pub.id \/ (c \in Live /\ chunks'[c] = chunks[c])
    <3> SUFFICES ASSUME NEW c \in Live', c # pub.id
                 PROVE  c \in Live /\ chunks'[c] = chunks[c]
      OBVIOUS
    <3>1. c \in Ids /\ life'[c] \in {"committed", "retired"}
      BY DEF Live
    <3>2. life'[c] = life[c] /\ chunks'[c] = chunks[c]
      BY <2>1, <3>1 DEF TypeInv, TypeOK
    <3> QED
      BY <3>1, <3>2 DEF Live
  <2>3. chunks'[pub.id] = pub.data
    BY <2>1 DEF TypeInv, TypeOK
  <2> QED
    BY <1>1, <2>1, <2>2, <2>3 DEF NoFaultInv, ChunksOf
<1>11. CASE \E c \in Ids : retire(c)
  <2>1. Live' = Live /\ UNCHANGED <<chunks, disk, available, pub>>
    BY <1>11 DEF retire, Live, TypeInv, TypeOK, envVars
  <2> QED
    BY <1>1, <2>1 DEF NoFaultInv, ChunksOf, PlacedChunks
<1>12. CASE gc_run
  <2>1. UNCHANGED <<chunks, available, pub>> /\ pub.step = "idle"
    BY ZenonT(60), <1>12 DEF gc_run
  <2>2. \A c \in Live' : c \in Live /\ \A d \in ChunksOf(c) : disk'[d] = disk[d]
    <3> SUFFICES ASSUME NEW c \in Live'
                 PROVE  c \in Live /\ \A d \in ChunksOf(c) : disk'[d] = disk[d]
      OBVIOUS
    <3>1. \A d \in ChunksOf(c) : d \in Digests
      BY DEF TypeInv, TypeOK, Streams, ChunksOf, Live
    <3>2. c \in Live
      BY <1>12, GcSurvivor
    <3>3. ASSUME NEW d \in ChunksOf(c) PROVE disk'[d] = disk[d]
      BY <1>12, <3>1, GcSpares DEF TypeInv
    <3> QED
      BY <3>2, <3>3
  <2> QED
    BY <1>1, <2>1, <2>2 DEF NoFaultInv, ChunksOf
<1>13. CASE Return
  BY <1>1, <1>13 DEF Return
<1> QED
  BY ZenonT(60), <1>1, <1>2, <1>3, <1>6, <1>7, <1>8, <1>9, <1>10, <1>11, <1>12, <1>13
  DEF Next, Environment, vars, create_family, make_full_descriptor, set_authority_boot,
      set_retention_policy, gc_plan, reset_authority, verify_checkpoint, restore,
      catalogVars, envVars

\* Nothing is live at the start, and the backend answers.
LEMMA NoFaultInit == Init => NoFaultInv
<1>1. Init => available
  BY ZenonT(60) DEF Init
<1> QED
  BY ZenonT(60), <1>1, StartsEmpty DEF NoFaultInv

\* As long as no backend call has failed and gc_run reads one time, every
\* checkpoint that is committed and not swept can be read back in full.
THEOREM NoLossWithoutFaults ==
    ASSUME ~ ClockMovesInGc
    PROVE  Spec => []NoFaultNoLoss
<1>1. Init => NoFaultInv
  BY NoFaultInit
<1>2. TypeInv /\ NoFaultInv /\ [Next]_vars => NoFaultInv'
  BY NoFaultStep
<1>3. NoFaultInv => NoFaultNoLoss
  BY ZenonT(60) DEF NoFaultInv, NoFaultNoLoss
<1> QED
  BY <1>1, <1>2, <1>3, TypeInit, TypeStep, PTL DEF Spec

\* No call but publish takes an intact chunk from a checkpoint that survives it.
LEMMA GcSafeStep ==
    ASSUME TypeInv, [Next]_vars, ~ ClockMovesInGc, MutexFree, faults' = faults
    PROVE  \A c \in Live \cap Live' : \A d \in ChunksOf(c) : disk[d] = "good" => disk'[d] = "good"
<1> SUFFICES ASSUME NEW c \in Live \cap Live', NEW d \in ChunksOf(c), disk[d] = "good"
             PROVE  disk'[d] = "good"
  OBVIOUS
<1>1. d \in Digests
  BY DEF TypeInv, TypeOK, Streams, ChunksOf, Live
<1>2. CASE gc_run
  BY <1>1, <1>2, GcSpares DEF TypeInv
<1>3. faults \in Nat
  BY StoreAssumption DEF TypeInv, TypeOK
<1> QED
  BY <1>2, <1>3 DEF Next, Environment, MutexFree, create_family, make_full_descriptor,
     set_authority_boot, publish, ReuseChunk, MissChunk, WriteChunk, FailWrite,
     FailReadBack, Commit, set_retention_policy, retire, gc_plan, reset_authority,
     verify_checkpoint, restore, Damage, Outage, Return, envVars, vars

\* However wrong the refcounts are, and whatever has failed before, no
\* operation other than publish takes an intact chunk from a checkpoint that
\* survives it, if gc_run reads one time.
THEOREM GcSafe ==
    ASSUME ~ ClockMovesInGc
    PROVE  Spec => GcKeepsLiveChunks
<1> DEFINE Kept == MutexFree /\ faults' = faults =>
                     \A c \in Live \cap Live' : \A d \in ChunksOf(c) :
                         disk[d] = "good" => disk'[d] = "good"
<1>1. TypeInv /\ [Next]_vars => [Kept]_vars
  BY GcSafeStep
<1> QED
  BY <1>1, TypeInit, TypeStep, PTL DEF Spec, GcKeepsLiveChunks
-----------------------------------------------------------------------------
(***************************************************************************)
(* Retention.                                                              *)
(***************************************************************************)
\* Only gc_run deletes.
LEMMA OnlyGcDeletes ==
    ASSUME TypeInv, [Next]_vars, ~ gc_run
    PROVE  \A c \in Ids : /\ c \in Live => c \in Live'
                          /\ life'[c] = "deleted" => life[c] = "deleted"
<1>1. life \in [Ids -> {"none", "committed", "retired", "deleted"}]
  BY DEF TypeInv, TypeOK
<1>2. CASE Commit
  <2>1. life' = [life EXCEPT ![pub.id] = "committed"]
    BY <1>2 DEF Commit
  <2> QED
    BY <1>1, <2>1 DEF Live
<1>3. CASE \E x \in Ids : retire(x)
  BY <1>1, <1>3 DEF retire, Live
<1>4. CASE life' = life
  BY <1>4 DEF Live
<1> QED
  BY ZenonT(60), <1>2, <1>3, <1>4 DEF Next, Environment, vars, create_family,
     make_full_descriptor, set_authority_boot, publish, ReuseChunk, MissChunk, WriteChunk,
     FailWrite, FailReadBack, Rollback, set_retention_policy, gc_plan, reset_authority,
     verify_checkpoint, restore, Damage, Outage, Return, catalogVars

\* compute_protected contains what is protected in its own right and is closed
\* under recorded ancestry.
LEMMA ProtectedClosed ==
    ASSUME NEW pick, NEW young
    PROVE  /\ \A c \in Existing :
                 is_protected(c, pick, young) => c \in compute_protected(pick, young)
           /\ LineageClosed(compute_protected(pick, young))
<1> DEFINE own == {c \in Existing : is_protected(c, pick, young)}
           protected == compute_protected(pick, young)
<1>1. \A c : c \in protected <=>
                /\ c \in Existing
                /\ \A P \in SUBSET Existing : own \subseteq P /\ LineageClosed(P) => c \in P
  BY DEF compute_protected
<1> HIDE DEF protected
<1>2. own \subseteq protected
  BY <1>1
<1>3. ASSUME NEW c \in protected, NEW x \in desc[c].lineage \cap Existing
      PROVE  x \in protected
  <2> SUFFICES ASSUME NEW P \in SUBSET Existing, own \subseteq P, LineageClosed(P)
               PROVE  x \in P
    BY <1>1
  <2>1. c \in P
    BY <1>1
  <2> QED
    BY <2>1 DEF LineageClosed
<1> QED
  BY <1>2, <1>3 DEF LineageClosed, protected

\* gc_run deletes the live checkpoints outside one protected set.
LEMMA SweptUnprotected ==
    ASSUME gc_run
    PROVE  \E pick \in find_policy, young \in SUBSET Timed :
              life' = [c \in Ids |-> IF c \in Live \ compute_protected(pick, young)
                                     THEN "deleted" ELSE life[c]]
BY DEF gc_run, Sweep, gc_eligible_checkpoints

\* gc_run never deletes a recorded ancestor of a checkpoint that it leaves, even
\* when the clock moves while it runs.
THEOREM AncestorsAreKept == Spec => AncestorsOutlive
<1> DEFINE Kept == \A c \in Live \cap Live' : desc[c].lineage \cap Live \subseteq Live'
<1>1. TypeInv /\ [Next]_vars => [Kept]_vars
  <2> SUFFICES ASSUME TypeInv, Next, NEW c \in Live \cap Live',
                      NEW x \in desc[c].lineage \cap Live
               PROVE  x \in Live'
    BY DEF vars
  <2>1. c \in Ids /\ x \in Ids /\ x \in Existing /\ c \in Existing
    BY DEF Live, Existing
  <2>2. CASE gc_run
    <3>1. PICK pick \in find_policy, young \in SUBSET Timed :
              life' = [y \in Ids |-> IF y \in Live \ compute_protected(pick, young)
                                     THEN "deleted" ELSE life[y]]
      BY ZenonT(60), <2>2, SweptUnprotected
    <3>2. c \in compute_protected(pick, young)
      BY <2>1, <3>1 DEF Live
    <3>3. x \in compute_protected(pick, young)
      BY <2>1, <3>2, ProtectedClosed DEF LineageClosed
    <3> QED
      BY ZenonT(60), <2>1, <3>1, <3>3 DEF Live
  <2> QED
    BY <2>1, <2>2, OnlyGcDeletes
<1> QED
  BY <1>1, TypeInit, TypeStep, PTL DEF Spec, AncestorsOutlive

\* gc_run protects a committed checkpoint that is among the n newest of its family
\* when every policy of the family keeps n or more, and no other call deletes.
LEMMA LatestStep ==
    ASSUME TypeInv, Existing \subseteq Made, [Next]_vars, NEW c \in Ids, NEW n \in 1..MaxIds,
           life[c] = "committed", desc[c].retention = "keep_latest_n",
           n > 1 => PoliciesOf(desc[c].family) # {},
           \A p \in PoliciesOf(desc[c].family) : p.latest_n >= n \/ n = 1,
           Cardinality(Newer(c)) < n
    PROVE  life'[c] # "deleted"
<1>1. c \in Existing /\ c \in Live /\ desc[c].family \in FamilyIds
  BY ZenonT(60) DEF Existing, Live, Made
<1>2. ASSUME gc_run PROVE life'[c] # "deleted"
  <2>1. PICK pick \in find_policy, young \in SUBSET Timed :
            life' = [y \in Ids |-> IF y \in Live \ compute_protected(pick, young)
                                   THEN "deleted" ELSE life[y]]
    BY ZenonT(60), <1>2, SweptUnprotected
  <2>2. Cardinality(Newer(c)) \in Nat
    <3>1. Newer(c) \in SUBSET Ids
      BY ZenonT(60) DEF Newer, Existing
    <3> QED
      BY ZenonT(60), <3>1, IdsFinite, FS_Subset, FS_CardinalityType
  <2> DEFINE policy == pick[desc[c].family]
             keeps  == IF policy.latest_n > 0 THEN policy.latest_n ELSE 1
  <2>3. \/ PoliciesOf(desc[c].family) = {} /\ policy = NoPolicy
        \/ policy \in PoliciesOf(desc[c].family)
    BY <1>1 DEF find_policy
  <2>4. policy.latest_n \in Nat
    <3>1. PoliciesOf(desc[c].family) \subseteq Policies
      BY DEF PoliciesOf, TypeInv, TypeOK
    <3> HIDE DEF policy
    <3>2. ASSUME policy = NoPolicy PROVE policy.latest_n \in Nat
      BY ZenonT(60), <3>2 DEF NoPolicy
    <3>3. ASSUME policy \in Policies PROVE policy.latest_n \in Nat
      BY <3>3 DEF Policies
    <3> QED
      BY ZenonT(60), <2>3, <3>1, <3>2, <3>3
  <2>5. PoliciesOf(desc[c].family) = {} => n = 1
    BY StoreAssumption
  <2>6. n \in Nat /\ Cardinality(Newer(c)) < n
    BY StoreAssumption
  <2>7. policy \in PoliciesOf(desc[c].family) => policy.latest_n >= n \/ n = 1
    BY ZenonT(60)
  <2> HIDE DEF policy
  <2>8. Cardinality(Newer(c)) < keeps
    BY <2>2, <2>3, <2>4, <2>5, <2>6, <2>7
  <2>9. is_protected(c, pick, young)
    BY ZenonT(60), <2>8 DEF is_protected, AmongLatest, policy
  <2>10. c \in compute_protected(pick, young)
    BY <1>1, <2>9, ProtectedClosed
  <2> QED
    BY ZenonT(60), <2>1, <2>10
<1> QED
  BY ZenonT(60), <1>2, OnlyGcDeletes
-----------------------------------------------------------------------------
(***************************************************************************)
(* Records.                                                                *)
(***************************************************************************)
\* A store step changes life only by Commit, retire and gc_run.
LEMMA LifeStep ==
    ASSUME TypeInv, [Next]_vars
    PROVE  \/ life' = life
           \/ Commit /\ life' = [life EXCEPT ![pub.id] = "committed"] /\ pub.id \in Ids
           \/ \E c \in Ids : retire(c) /\ life' = [life EXCEPT ![c] = "retired"]
           \/ /\ gc_run
              /\ \E S \in SUBSET Live :
                    life' = [c \in Ids |-> IF c \in S THEN "deleted" ELSE life[c]]
<1>1. CASE Commit
  BY ZenonT(60), <1>1 DEF Commit, TypeInv, PublishInRange, Made
<1>2. CASE \E c \in Ids : retire(c)
  BY ZenonT(60), <1>2 DEF retire
<1>3. CASE gc_run
  <2>1. \E S \in SUBSET Live : life' = [c \in Ids |-> IF c \in S THEN "deleted" ELSE life[c]]
    BY <1>3 DEF gc_run, Sweep, gc_eligible_checkpoints
  <2> QED
    BY ZenonT(60), <1>3, <2>1
<1> QED
  BY ZenonT(60), <1>1, <1>2, <1>3 DEF Next, Environment, vars, create_family,
     make_full_descriptor, set_authority_boot, publish, ReuseChunk, MissChunk, WriteChunk,
     FailWrite, FailReadBack, Rollback, set_retention_policy, gc_plan, reset_authority,
     verify_checkpoint, restore, Damage, Outage, Return, catalogVars

\* No store step removes a record, and a live one ends only as deleted.
LEMMA RecordsStay ==
    ASSUME TypeInv, [Next]_vars
    PROVE  /\ Existing \subseteq Existing'
           /\ \A c \in Live : c \in Live' \/ life'[c] = "deleted"
           /\ \A c \in Existing : c \in Live' => c \in Live \/ c = pub.id
<1>1. life \in [Ids -> {"none", "committed", "retired", "deleted"}]
  BY DEF TypeInv, TypeOK
<1>2. CASE life' = life
  BY <1>2 DEF Existing, Live
<1>3. CASE life' = [life EXCEPT ![pub.id] = "committed"]
  BY ZenonT(60), <1>1, <1>3 DEF Existing, Live
<1>4. CASE \E c \in Ids : retire(c) /\ life' = [life EXCEPT ![c] = "retired"]
  BY <1>1, <1>4 DEF Existing, Live, retire
<1>5. CASE \E S \in SUBSET Live : life' = [c \in Ids |-> IF c \in S THEN "deleted" ELSE life[c]]
  BY <1>1, <1>5 DEF Existing, Live
<1> QED
  BY <1>2, <1>3, <1>4, <1>5, LifeStep

\* Ids are handed out in order, and publish works on an id that has no record
\* yet.
IdInv ==
    /\ \A c \in Ids : c >= nextId => c \notin Made /\ life[c] = "none"
    /\ pub.step # "idle" => pub.id \notin Existing

\* The ids of an empty store.
LEMMA IdInit == Init => IdInv
<1> SUFFICES ASSUME Init PROVE IdInv
  OBVIOUS
<1>1. \A c \in Ids : c \notin Made /\ life[c] = "none"
  BY ZenonT(60), StartsEmpty
<1> QED
  BY ZenonT(60), <1>1, StartsEmpty DEF IdInv

\* A step of the store keeps ids in order and overwrites no record.
LEMMA StoreKeepsRecords ==
    ASSUME TypeInv, IdInv, [Next]_vars
    PROVE  /\ IdInv'
           /\ \A c \in Existing : desc'[c] = desc[c] /\ chunks'[c] = chunks[c]
<1> USE DEF MutexFree
<1>1. /\ life \in [Ids -> {"none", "committed", "retired", "deleted"}]
      /\ desc \in [Ids -> Descriptors] /\ chunks \in [Ids -> Streams] /\ pub \in Publishing
      /\ nextId \in Nat /\ Ids \subseteq Nat /\ Existing \subseteq Ids
  BY DEF TypeInv, TypeOK, Ids, Existing
<1>2. ASSUME UNCHANGED <<nextId, desc, chunks>>, Existing' = Existing,
             pub' = pub \/ pub'.step = "idle" \/ (pub'.id = pub.id /\ pub.step # "idle")
      PROVE  /\ IdInv'
             /\ \A c \in Existing : desc'[c] = desc[c] /\ chunks'[c] = chunks[c]
  <2>1. Made' = Made /\ \A c \in Ids : life'[c] = "none" <=> life[c] = "none"
    BY ZenonT(60), <1>2 DEF Made, Existing
  <2> QED
    BY ZenonT(60), <1>2, <2>1 DEF IdInv
<1>3. CASE UNCHANGED <<nextId, desc, chunks, life>> /\ (pub' = pub \/ pub' = Idle)
  BY <1>2, <1>3 DEF Existing, Idle
<1>4. CASE ReuseChunk \/ MissChunk \/ WriteChunk
  <2>1. UNCHANGED <<nextId, desc, chunks, life>> /\ pub.step # "idle"
    BY <1>4 DEF ReuseChunk, MissChunk, WriteChunk, catalogVars, idVars
  <2>2. pub'.id = pub.id
    <3>1. CASE ReuseChunk
      BY <1>1, <3>1 DEF ReuseChunk, Publishing
    <3>2. CASE MissChunk
      BY <1>1, <3>2 DEF MissChunk, Publishing
    <3>3. CASE WriteChunk
      BY <1>1, <3>3 DEF WriteChunk, Publishing
    <3> QED
      BY <1>4, <3>1, <3>2, <3>3
  <2> QED
    BY <1>2, <2>1, <2>2 DEF Existing
<1>5. CASE \E c \in Ids, data \in Contents : publish(c, data)
  <2>1. PICK c \in Ids, data \in Contents : publish(c, data)
    BY ZenonT(60), <1>5
  <2>2. UNCHANGED <<nextId, desc, chunks, life>> /\ pub'.id = c /\ c \notin Existing
    BY <2>1 DEF publish, Admitted, catalogVars, idVars
  <2>3. Existing' = Existing /\ Made' = Made
    BY <2>2 DEF Existing, Made
  <2> QED
    BY <2>2, <2>3 DEF IdInv
<1>6. CASE \E f \in FamilyIds, r \in RetentionClasses, l \in Lineages, n \in ReplicaCounts :
              make_full_descriptor(f, r, l, n)
  <2>1. /\ nextId \in Ids /\ nextId' = nextId + 1 /\ UNCHANGED <<chunks, life, pub>>
        /\ \A c \in Ids : c # nextId => desc'[c] = desc[c]
        /\ pub.step = "idle"
    BY <1>1, <1>6 DEF make_full_descriptor
  <2>2. nextId \notin Existing
    BY <1>1, <2>1 DEF IdInv, Existing
  <2>3. ASSUME NEW c \in Ids, c >= nextId + 1 PROVE c \notin Made' /\ life'[c] = "none"
    <3>1. c # nextId /\ c >= nextId
      BY <1>1, <2>1, <2>3
    <3> QED
      BY ZenonT(60), <2>1, <3>1 DEF IdInv, Made
  <2> QED
    BY ZenonT(60), <1>1, <2>1, <2>2, <2>3 DEF IdInv
<1>7. CASE Commit
  <2>1. /\ pub.id \in Made /\ pub.id \in Ids /\ pub.id \notin Existing /\ pub'.step = "idle"
        /\ life' = [life EXCEPT ![pub.id] = "committed"]
        /\ chunks' = [chunks EXCEPT ![pub.id] = pub.data]
        /\ desc' = desc /\ nextId' = nextId
    BY ZenonT(60), <1>7 DEF Commit, TypeInv, PublishInRange, Made, IdInv, Idle
  <2>2. \A c \in Existing : chunks'[c] = chunks[c]
    BY <1>1, <2>1
  <2>3. ASSUME NEW c \in Ids, c >= nextId PROVE c \notin Made /\ life'[c] = "none"
    BY <1>1, <2>1, <2>3 DEF IdInv
  <2>4. Made' = Made
    BY <2>1 DEF Made
  <2> QED
    BY ZenonT(60), <2>1, <2>2, <2>3, <2>4 DEF IdInv
<1>8. CASE \E c \in Ids : retire(c)
  <2>1. UNCHANGED <<nextId, desc, chunks, pub>> /\ Existing' = Existing
    BY ZenonT(60), <1>1, <1>8 DEF retire, Existing, idVars
  <2> QED
    BY <1>2, <2>1
<1>9. CASE gc_run
  <2>1. UNCHANGED <<nextId, desc, chunks, pub>>
    BY <1>9 DEF gc_run, idVars
  <2>2. \E S \in SUBSET Live : life' = [c \in Ids |-> IF c \in S THEN "deleted" ELSE life[c]]
    BY <1>9 DEF gc_run, Sweep, gc_eligible_checkpoints
  <2>3. Existing' = Existing
    BY ZenonT(60), <2>2 DEF Existing, Live
  <2> QED
    BY ZenonT(60), <1>2, <2>1, <2>3
<1>10. CASE FailWrite \/ FailReadBack
  <2>1. \E gone, stuck : Rollback(gone, stuck)
    BY <1>10 DEF FailWrite, FailReadBack
  <2> QED
    BY <1>3, <2>1 DEF Rollback, catalogVars, idVars
<1> QED
  BY ZenonT(60), <1>3, <1>4, <1>5, <1>6, <1>7, <1>8, <1>9, <1>10 DEF Next, Environment, vars,
     create_family, set_authority_boot, set_retention_policy, gc_plan, reset_authority,
     verify_checkpoint, restore, Damage, Outage, Return, catalogVars, idVars

-----------------------------------------------------------------------------
(***************************************************************************)
(* The boot of a publish.                                                  *)
(***************************************************************************)
\* publish works on a descriptor of the current boot.
OwnBoot == pub.step # "idle" => desc[pub.id].boot = boot

\* The boot and the descriptor do not change while publish has the mutex, and
\* only Commit makes a record.
LEMMA OwnBootStep ==
    ASSUME TypeInv, OwnBoot, [Next]_vars
    PROVE  /\ OwnBoot'
           /\ \A c \in Ids : life[c] = "none" /\ life'[c] # "none" => desc[c].boot = boot
<1>1. OwnBoot'
  <2>1. CASE pub'.step = "idle"
    BY <2>1 DEF OwnBoot
  <2>2. CASE UNCHANGED <<pub, desc, boot>>
    BY <2>2 DEF OwnBoot
  <2>3. CASE \E c \in Ids, data \in Contents : publish(c, data)
    <3>1. PICK c \in Ids, data \in Contents : publish(c, data)
      BY <2>3
    <3>2. pub'.id = c /\ desc[c].boot = boot /\ UNCHANGED <<desc, boot>>
      BY ZenonT(60), <3>1 DEF publish, Admitted, catalogVars, ctlVars
    <3> QED
      BY ZenonT(60), <3>2 DEF OwnBoot
  <2>4. CASE ReuseChunk \/ MissChunk \/ WriteChunk
    <3>1. pub \in Publishing /\ pub.step # "idle" /\ UNCHANGED <<desc, boot>>
      BY <2>4 DEF TypeInv, TypeOK, ReuseChunk, MissChunk, WriteChunk, catalogVars, ctlVars
    <3>2. CASE ReuseChunk
      BY <3>1, <3>2 DEF ReuseChunk, Publishing, OwnBoot
    <3>3. CASE MissChunk
      BY <3>1, <3>3 DEF MissChunk, Publishing, OwnBoot
    <3>4. CASE WriteChunk
      BY <3>1, <3>4 DEF WriteChunk, Publishing, OwnBoot
    <3> QED
      BY <2>4, <3>2, <3>3, <3>4
  <2>5. CASE FailWrite \/ FailReadBack \/ Commit
    <3>1. pub' = Idle
      BY ZenonT(60), <2>5 DEF FailWrite, FailReadBack, Commit, Rollback
    <3> QED
      BY <2>1, <3>1 DEF Idle
  <2>6. CASE \/ \E f \in FamilyIds, r \in RetentionClasses, l \in Lineages, n \in ReplicaCounts :
                   make_full_descriptor(f, r, l, n)
             \/ \E b \in Boots : set_authority_boot(b)
    <3>1. MutexFree /\ pub' = pub
      BY ZenonT(60), <2>6 DEF make_full_descriptor, set_authority_boot
    <3> QED
      BY <2>1, <3>1 DEF MutexFree
  <2> QED
    BY ZenonT(60), <2>2, <2>3, <2>4, <2>5, <2>6 DEF Next, Environment, vars, create_family,
       set_retention_policy, retire, gc_plan, gc_run, reset_authority, verify_checkpoint,
       restore, Damage, Outage, Return, catalogVars, ctlVars
<1>2. ASSUME NEW c \in Ids, life[c] = "none", life'[c] # "none" PROVE desc[c].boot = boot
  <2>1. life \in [Ids -> {"none", "committed", "retired", "deleted"}]
    BY ZenonT(60) DEF TypeInv, TypeOK
  <2>2. CASE Commit /\ life' = [life EXCEPT ![pub.id] = "committed"]
    <3>1. c = pub.id
      BY <1>2, <2>1, <2>2
    <3> QED
      BY <2>2, <3>1 DEF OwnBoot, Commit
  <2>3. CASE \E x \in Ids : retire(x) /\ life' = [life EXCEPT ![x] = "retired"]
    BY <1>2, <2>1, <2>3 DEF retire
  <2>4. CASE \E S \in SUBSET Live : life' = [x \in Ids |-> IF x \in S THEN "deleted" ELSE life[x]]
    BY <1>2, <2>4 DEF Live
  <2> QED
    BY ZenonT(60), <1>2, <2>2, <2>3, <2>4, LifeStep
<1> QED
  BY <1>1, <1>2

\* publish commits only under the boot its descriptor was made under, although
\* it compares the two before the first chunk and not again.
THEOREM CommitsUnderOwnBoot == Spec => PublishedUnderOwnBoot
<1> DEFINE Own == \A c \in Ids : life[c] = "none" /\ life'[c] # "none" => desc[c].boot = boot
<1>1. Init => OwnBoot
  BY ZenonT(60), StartsEmpty DEF OwnBoot
<1>2. TypeInv /\ OwnBoot /\ [Next]_vars => OwnBoot' /\ [Own]_vars
  BY OwnBootStep
<1> QED
  BY <1>1, <1>2, TypeInit, TypeStep, PTL DEF Spec, PublishedUnderOwnBoot
-----------------------------------------------------------------------------
(***************************************************************************)
(* Counting references.                                                    *)
(***************************************************************************)
\* The chunks under way are counted by natural numbers.
LEMMA InFlightFinite ==
    ASSUME TypeOK, NEW d
    PROVE  /\ IsFiniteSet(InFlight(d))
           /\ Cardinality(InFlight(d)) \in Nat
<1>1. pub.data \in Seq(Digests) /\ Len(pub.data) \in Nat
  BY DEF TypeOK, Publishing, Streams
<1>2. IsFiniteSet(1..Len(pub.data)) /\ DOMAIN pub.data = 1..Len(pub.data)
  BY <1>1, FS_Interval
<1>3. InFlight(d) \in SUBSET (1..Len(pub.data))
  BY <1>2 DEF InFlight
<1> QED
  BY <1>2, <1>3, FS_Subset, FS_CardinalityType

\* A publish that is over leaves no data behind.
LEMMA IdleHasNoData ==
    ASSUME TypeOK, pub.step = "idle" => pub.data = <<>>, [Next]_vars
    PROVE  pub'.step = "idle" => pub'.data = <<>>
<1>0. pub \in Publishing
  BY DEF TypeOK
<1>1. ASSUME ReuseChunk \/ MissChunk \/ WriteChunk PROVE pub'.step # "idle"
  <2>1. CASE ReuseChunk
    BY <1>0, <2>1 DEF ReuseChunk, Publishing, AfterChunk
  <2>2. CASE MissChunk
    BY <1>0, <2>2 DEF MissChunk, Publishing
  <2>3. CASE WriteChunk
    BY ZenonT(60), <1>0, <2>3 DEF WriteChunk, Publishing, AfterChunk
  <2> QED
    BY <1>1, <2>1, <2>2, <2>3
<1>2. ASSUME NEW c \in Ids, NEW data \in Contents, publish(c, data) PROVE pub'.step # "idle"
  BY <1>2 DEF publish
<1>3. FailWrite \/ FailReadBack \/ Commit => pub' = Idle
  BY ZenonT(60) DEF FailWrite, FailReadBack, Commit, Rollback
<1>4. CASE pub' = pub
  BY ZenonT(60), <1>0, <1>4
<1>5. CASE pub' = Idle
  BY ZenonT(60), <1>5 DEF Idle
<1> QED
  BY ZenonT(60), <1>1, <1>2, <1>3, <1>4, <1>5 DEF Next, Environment, vars, create_family,
     make_full_descriptor, set_authority_boot, set_retention_policy, retire, gc_plan, gc_run,
     reset_authority, verify_checkpoint, restore, Damage, Outage, Return

\* The chunks in place after the chunk at pub.at is placed.
LEMMA OneMorePlaced ==
    ASSUME TypeInv, pub.step \in {"lookup", "write"}, pub'.data = pub.data,
           pub'.step = AfterChunk, pub'.at = pub.at + 1
    PROVE  PlacedChunks' \subseteq PlacedChunks \cup {Chunk}
<1> SUFFICES ASSUME NEW i \in DOMAIN pub.data, AfterChunk = "verify" \/ i < pub.at + 1,
                    i # pub.at
             PROVE  i < pub.at
  BY ZenonT(60) DEF PlacedChunks, Chunk
<1>1. i \in 1..Len(pub.data) /\ pub.at \in 1..Len(pub.data) /\ Len(pub.data) \in Nat
  BY DEF TypeInv, TypeOK, PublishInRange, Publishing, Streams
<1>2. AfterChunk = "verify" => pub.at = Len(pub.data)
  BY DEF AfterChunk
<1> QED
  BY <1>1, <1>2

\* Placing the chunk at pub.at adds one reference under way on its digest.
LEMMA OneMoreInFlight ==
    ASSUME TypeInv, pub.step \in {"lookup", "write"}, pub'.data = pub.data,
           pub'.step = AfterChunk, pub'.at = pub.at + 1, NEW d \in Digests
    PROVE  Cardinality(InFlight(d)') =
              IF d = Chunk THEN Cardinality(InFlight(d)) + 1 ELSE Cardinality(InFlight(d))
<1>1. /\ pub.data \in Seq(Digests) /\ Len(pub.data) \in Nat
      /\ DOMAIN pub.data = 1..Len(pub.data) /\ pub.at \in 1..Len(pub.data)
  BY DEF TypeInv, TypeOK, PublishInRange, Publishing, Streams
<1>2. \A i \in DOMAIN pub.data :
          (pub'.step = "verify" \/ i < pub'.at) <=> (i < pub.at \/ i = pub.at)
  <2> SUFFICES ASSUME NEW i \in 1..Len(pub.data)
               PROVE  (AfterChunk = "verify" \/ i < pub.at + 1) <=> (i < pub.at \/ i = pub.at)
    BY ZenonT(60), <1>1
  <2> QED
    BY <1>1 DEF AfterChunk
<1>3. InFlight(d)' = {i \in DOMAIN pub.data : pub.data[i] = d /\ (i < pub.at \/ i = pub.at)}
  BY <1>2 DEF InFlight
<1>4. InFlight(d) = {i \in DOMAIN pub.data : pub.data[i] = d /\ i < pub.at}
  BY DEF InFlight
<1>5. CASE d = Chunk
  <2>1. InFlight(d)' = InFlight(d) \cup {pub.at} /\ pub.at \notin InFlight(d)
    BY <1>1, <1>3, <1>4, <1>5 DEF Chunk
  <2> QED
    BY ZenonT(60), <1>5, <2>1, InFlightFinite, FS_AddElement DEF TypeInv
<1>6. CASE d # Chunk
  <2>1. InFlight(d)' = InFlight(d)
    BY <1>3, <1>4, <1>6 DEF Chunk
  <2> QED
    BY <1>6, <2>1
<1> QED
  BY ZenonT(60), <1>5, <1>6

\* The references of two disjoint sets of checkpoints add up.
LEMMA ReferencesAdd ==
    ASSUME NEW S \in SUBSET Ids, NEW T \in SUBSET Ids, S \cap T = {}, NEW d
    PROVE  Cardinality(References(S \cup T, d))
             = Cardinality(References(S, d)) + Cardinality(References(T, d))
<1>1. References(S \cup T, d) = References(S, d) \cup References(T, d)
  BY DEF References
<1>2. References(S, d) \cap References(T, d) = {}
  BY DEF References
<1>3. /\ IsFiniteSet(References(S, d)) /\ Cardinality(References(S, d)) \in Nat
      /\ IsFiniteSet(References(T, d)) /\ Cardinality(References(T, d)) \in Nat
  BY ReferencesFinite
<1> DEFINE A == References(S, d)
           B == References(T, d)
<1> HIDE DEF A, B
<1>4. Cardinality(A \cup B) = Cardinality(A) + Cardinality(B) - Cardinality(A \cap B)
  BY <1>3, FS_Union DEF A, B
<1>5. Cardinality(A \cap B) = 0 /\ Cardinality(A) \in Nat /\ Cardinality(B) \in Nat
  BY <1>2, <1>3, FS_EmptySet DEF A, B
<1>6. Cardinality(A \cup B) = Cardinality(A) + Cardinality(B)
  BY <1>4, <1>5
<1> QED
  BY ZenonT(60), <1>1, <1>6 DEF A, B

\* Commit turns the chunks under way into references of the new checkpoint.
LEMMA CommitKeepsCount ==
    ASSUME TypeOK, pub.id \in Ids \ Existing, Commit, NEW d \in Digests
    PROVE  /\ Cardinality(References(Live, d)') =
                 Cardinality(References(Live, d)) + Cardinality(InFlight(d))
           /\ InFlight(d)' = {}
<1>1. TypeOK
  OBVIOUS
<1>2. PICK new \in Ids : new = pub.id
  OBVIOUS
<1>3. /\ new \notin Existing /\ pub.data \in Seq(Digests) /\ Len(pub.data) <= MaxChunks
      /\ Len(pub.data) \in Nat /\ pub.step = "verify" /\ pub' = Idle
      /\ life' = [life EXCEPT ![new] = "committed"]
      /\ chunks' = [chunks EXCEPT ![new] = pub.data]
  <2>1. pub \in Publishing
    BY <1>1 DEF TypeOK
  <2>2. pub.data \in Seq(Digests) /\ Len(pub.data) <= MaxChunks
    BY <2>1 DEF Publishing, Streams
  <2>3. Len(pub.data) \in Nat
    BY <2>2
  <2>4. /\ pub.step = "verify" /\ pub' = Idle
        /\ life' = [life EXCEPT ![pub.id] = "committed"]
        /\ chunks' = [chunks EXCEPT ![pub.id] = pub.data]
    BY ZenonT(60) DEF Commit
  <2> QED
    BY ZenonT(60), <1>2, <2>2, <2>3, <2>4
<1>4. Live' = Live \cup {new} /\ new \notin Live
  BY ZenonT(60), <1>1, <1>3 DEF Live, Existing, TypeOK
<1>5. chunks'[new] = pub.data /\ \A c \in Live : chunks'[c] = chunks[c]
  BY ZenonT(60), <1>1, <1>3, <1>4 DEF TypeOK, Live
<1>6. References(Live, d)' = References(Live, d) \cup ({new} \X InFlight(d))
  <2>1. InFlight(d) = {i \in DOMAIN pub.data : pub.data[i] = d}
    BY ZenonT(60), <1>3 DEF InFlight
  <2>2. DOMAIN pub.data \subseteq 1..MaxChunks
    BY <1>3, StoreAssumption
  <2>3. \A r \in Live \X (1..MaxChunks) : chunks'[r[1]] = chunks[r[1]]
    BY ZenonT(60), <1>5
  <2>4. ASSUME NEW r
        PROVE  r \in References(Live, d)' <=>
                  r \in References(Live, d) \cup ({new} \X InFlight(d))
    <3>1. r \in References(Live, d)' <=>
             /\ r \in (Live \cup {new}) \X (1..MaxChunks)
             /\ r[2] \in DOMAIN chunks'[r[1]] /\ chunks'[r[1]][r[2]] = d
      BY ZenonT(60), <1>4 DEF References
    <3>2. r \in References(Live, d) <=>
             /\ r \in Live \X (1..MaxChunks)
             /\ r[2] \in DOMAIN chunks[r[1]] /\ chunks[r[1]][r[2]] = d
      BY ZenonT(60) DEF References
    <3>3. r \in {new} \X InFlight(d) <=>
             /\ r \in {new} \X (1..MaxChunks)
             /\ r[2] \in DOMAIN pub.data /\ pub.data[r[2]] = d
      BY <2>1, <2>2
    <3>4. r \in (Live \cup {new}) \X (1..MaxChunks) <=>
             r \in Live \X (1..MaxChunks) \/ r \in {new} \X (1..MaxChunks)
      OBVIOUS
    <3>5. r \in {new} \X (1..MaxChunks) => chunks'[r[1]] = pub.data
      BY <1>5
    <3> QED
      BY ZenonT(60), <2>3, <3>1, <3>2, <3>3, <3>4, <3>5
  <2> QED
    BY <2>4
<1> DEFINE A == References(Live, d)
           B == {new} \X InFlight(d)
<1>7. IsFiniteSet(A) /\ Cardinality(A) \in Nat /\ A \cap B = {}
  <2>1. Live \in SUBSET Ids
    BY DEF Live
  <2>2. A \cap B = {}
    BY ZenonT(60), <1>4 DEF References
  <2> QED
    BY <2>1, <2>2, ReferencesFinite
<1>8. IsFiniteSet(B) /\ Cardinality(B) = Cardinality(InFlight(d)) /\ Cardinality(B) \in Nat
  <2>1. IsFiniteSet(InFlight(d)) /\ Cardinality(InFlight(d)) \in Nat
    BY <1>1, InFlightFinite
  <2>2. IsFiniteSet({new}) /\ Cardinality({new}) = 1
    BY ZenonT(60), FS_Singleton
  <2>3. IsFiniteSet(B) /\ Cardinality(B) = Cardinality({new}) * Cardinality(InFlight(d))
    BY <2>1, <2>2, FS_Product
  <2> QED
    BY <2>1, <2>2, <2>3
<1> HIDE DEF A, B
<1>9. Cardinality(A \cup B) = Cardinality(A) + Cardinality(B) - Cardinality(A \cap B)
  BY <1>7, <1>8, FS_Union
<1>10. Cardinality(A \cap B) = 0
  BY ZenonT(60), <1>7, FS_EmptySet
<1>11. Cardinality(A \cup B) = Cardinality(A) + Cardinality(B)
  BY <1>7, <1>8, <1>9, <1>10
<1>12. InFlight(d)' = {}
  BY <1>3 DEF InFlight, Idle
<1> QED
  BY ZenonT(60), <1>6, <1>8, <1>11, <1>12 DEF A, B

\* gc_run releases exactly the references of the checkpoints it sweeps.
LEMMA SweepKeepsCount ==
    ASSUME TypeOK, gc_run, NEW d \in Digests
    PROVE  /\ refs[d] = Cardinality(References(Live, d)) =>
                 refs'[d] = Cardinality(References(Live, d)')
           /\ refs[d] <= Cardinality(References(Live, d)) =>
                 refs'[d] <= Cardinality(References(Live, d)')
<1>1. PICK swept \in SUBSET Live :
          /\ refs' = RefsAfterSweep(swept)
          /\ life' = [c \in Ids |-> IF c \in swept THEN "deleted" ELSE life[c]]
  BY DEF gc_run, Sweep, gc_eligible_checkpoints
<1>2. Live' = Live \ swept
  BY ZenonT(60), <1>1 DEF Live
<1>3. References(Live, d)' = References(Live \ swept, d)
  BY <1>2 DEF References, gc_run
<1>4. swept \in SUBSET Ids /\ Live \ swept \in SUBSET Ids /\ Live = swept \cup (Live \ swept)
  BY DEF Live
<1>5. Cardinality(References(Live, d))
        = Cardinality(References(swept, d)) + Cardinality(References(Live \ swept, d))
  BY <1>4, ReferencesAdd
<1>6. /\ Cardinality(References(swept, d)) \in Nat
      /\ Cardinality(References(Live \ swept, d)) \in Nat
  BY ZenonT(60), <1>4, ReferencesFinite
<1>7. refs'[d] = release_reference(d, Cardinality(References(swept, d))) /\ refs[d] \in Nat
  BY <1>1 DEF RefsAfterSweep, TypeOK
<1>8. \A n, gone, left \in Nat :
         LET after == IF n > gone THEN n - gone ELSE 0
         IN  (n = gone + left => after = left) /\ (n <= gone + left => after <= left)
  OBVIOUS
<1> DEFINE gone == Cardinality(References(swept, d))
           left == Cardinality(References(Live \ swept, d))
<1>9. /\ refs'[d] = IF refs[d] > gone THEN refs[d] - gone ELSE 0
      /\ refs[d] \in Nat /\ gone \in Nat /\ left \in Nat
      /\ Cardinality(References(Live, d)) = gone + left
      /\ Cardinality(References(Live, d)') = left
  BY ZenonT(60), <1>3, <1>5, <1>6, <1>7 DEF release_reference
<1> HIDE DEF gone, left
<1> QED
  BY <1>8, <1>9
=============================================================================
