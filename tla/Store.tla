------------------------------- MODULE Store -------------------------------
(***************************************************************************)
(* The in-memory checkpoint store (src/store.cpp, gc.cpp, retention.cpp,   *)
(* restore.cpp, dedup.cpp) over one storage backend.                       *)
(*                                                                         *)
(* Every public operation holds the store's mutex from start to end, so    *)
(* operations are atomic with respect to one another.  publish is split    *)
(* into steps all the same: between two of its backend calls the backend   *)
(* can fail or its files can change, and the mutex does not exclude that.  *)
(*                                                                         *)
(* A chunk is its digest.  A blob id is a prefix of the digest and a       *)
(* backend key is derived from it, so one digest names the dedup entry,    *)
(* the blob record and the file.  A replica belongs to exactly one         *)
(* committed checkpoint.                                                   *)
(***************************************************************************)
EXTENDS Naturals, Sequences, FiniteSets

CONSTANTS
    Digests,          \* contents a chunk can have
    Contents,         \* byte streams clients publish, as sequences of chunks
    MaxChunks,        \* bound: the longest stream has this many chunks
    MaxFamilies,      \* bound: families ever created
    MaxIds,           \* bound: descriptors ever made
    Boots,            \* authority boot ids
    RetentionClasses, \* retention classes clients ask for
    Lineages,         \* ancestor sets clients put in descriptors
    ReplicaCounts,    \* required_replica_count values clients ask for
    PolicyIds,        \* keys of the retention map
    PolicyTerms,      \* policies clients set: latest_n, ttl > 0, policy_protected
    Probed,           \* checkpoints clients verify and restore
    MaxFaults,        \* bound: backend faults
    ClockMovesInGc    \* may the clock advance between gc_run's two readings?

Ids == 1..MaxIds
FamilyIds == 1..MaxFamilies

ASSUME StoreAssumption ==
    /\ MaxChunks \in Nat /\ MaxFamilies \in Nat /\ MaxIds \in Nat
    /\ MaxFaults \in Nat
    /\ Contents \subseteq {s \in Seq(Digests) : Len(s) <= MaxChunks}
    /\ Boots # {}
    /\ RetentionClasses \subseteq
         {"pinned", "keep_latest_n", "ttl", "ancestry_required",
          "restore_point", "recomputable", "gc_eligible"}
    /\ Lineages \subseteq SUBSET Ids
    /\ ReplicaCounts \subseteq Nat
    /\ PolicyIds \subseteq Nat
    /\ PolicyTerms \subseteq
         [latest_n : Nat, ttl : BOOLEAN, policy_protected : BOOLEAN]
    /\ Probed \subseteq Ids
    /\ ClockMovesInGc \in BOOLEAN

VARIABLES
    nextFamily,   \* next_family_id
    nextGen,      \* next_checkpoint_generation; 0 where the family is unknown
    nextId,       \* next_id_counter, as far as it numbers checkpoints
    desc,         \* descriptors made so far, by checkpoint id
    life,         \* lifecycle of the record; "none" when there is no record
    chunks,       \* the record's chunk list
    dur,          \* replica_set.durability_state
    integ,        \* the record's integrity
    entries,      \* digests with a DedupEntry
    refs,         \* DedupTable::refcount, 0 for an absent entry
    blobs,        \* digests with a BlobDescriptor
    held,         \* blobs that list at least one replica the store knows
    retention,    \* retention policies by policy id
    gc,           \* gc.phase and gc.reclaimable_blobs
    boot,         \* options_.boot_id
    pub,          \* the publish call in progress
    disk,         \* what the backend holds under each digest's key
    available,    \* does the backend answer?
    faults        \* backend faults so far

catalogVars == <<desc, life, chunks, dur, integ>>
idVars      == <<nextFamily, nextGen, nextId>>
dedupVars   == <<entries, refs, blobs, held>>
ctlVars     == <<retention, gc, boot>>
envVars     == <<disk, available, faults>>
vars == <<nextFamily, nextGen, nextId, desc, life, chunks, dur, integ, entries,
          refs, blobs, held, retention, gc, boot, pub, disk, available, faults>>

NoDesc   == [family |-> 0, gen |-> 0, boot |-> CHOOSE b \in Boots : TRUE,
             retention |-> "keep_latest_n", lineage |-> {}, replicas |-> 0]
NoPolicy == [family |-> 0, latest_n |-> 0, ttl |-> FALSE,
             policy_protected |-> FALSE]
NoFresh  == [d \in Digests |-> 0]
Idle     == [step |-> "idle", id |-> 0, data |-> <<>>, at |-> 1,
             fresh |-> NoFresh]

-----------------------------------------------------------------------------
(***************************************************************************)
(* The catalogue.                                                          *)
(***************************************************************************)
Existing == {c \in Ids : life[c] # "none"}
Live     == {c \in Ids : life[c] \in {"committed", "retired"}}
ChunksOf(c) == {chunks[c][i] : i \in DOMAIN chunks[c]}

\* The chunk references that the checkpoints of S hold on digest d.
References(S, d) ==
    {r \in S \X (1..MaxChunks) :
        r[2] \in DOMAIN chunks[r[1]] /\ chunks[r[1]][r[2]] = d}

-----------------------------------------------------------------------------
(***************************************************************************)
(* Retention.  find_policy returns the first policy of the family in the   *)
(* iteration order of an unordered map: a choice function picks one.       *)
(* young is the set of checkpoints for which now < created_at + ttl.       *)
(***************************************************************************)
PoliciesOf(f) == {retention[p] : p \in {q \in PolicyIds : retention[q].family = f}}

find_policy ==
    {pick \in [FamilyIds -> {NoPolicy} \cup {retention[p] : p \in PolicyIds}] :
        \A f \in FamilyIds :
            IF PoliciesOf(f) = {} THEN pick[f] = NoPolicy ELSE pick[f] \in PoliciesOf(f)}

\* The checkpoints after c in its family's list, deleted ones included, sorted
\* by generation.  Equal generations, which only a restart can bring about,
\* stay in the order of publication.
Newer(c) ==
    {x \in Existing : /\ desc[x].family = desc[c].family
                      /\ desc[x].gen > desc[c].gen \/ (desc[x].gen = desc[c].gen /\ x > c)}

\* Mutant: the oldest of the latest n is not one of them.
AmongLatest_OffByOne(c, n) == Cardinality(Newer(c)) + 1 < n

\* slot + latest_n >= ids.size().
AmongLatest(c, n) == Cardinality(Newer(c)) < n

\* Mutant: missing replicas protect nothing.
is_protected_AnyReplicas(c, pick, young) ==
    LET policy == pick[desc[c].family] IN
    \/ desc[c].retention \in {"pinned", "restore_point"}
    \/ policy.policy_protected
    \/ /\ life[c] = "committed"
       /\ \/ /\ desc[c].retention = "keep_latest_n"
             /\ AmongLatest(c, IF policy.latest_n > 0 THEN policy.latest_n ELSE 1)
          \/ /\ desc[c].retention = "ttl"
             /\ policy.ttl => c \in young

is_protected(c, pick, young) ==
    LET policy == pick[desc[c].family] IN
    \/ dur[c] = "under_replicated"
    \/ desc[c].retention \in {"pinned", "restore_point"}
    \/ policy.policy_protected
    \/ /\ life[c] = "committed"
       /\ \/ /\ desc[c].retention = "keep_latest_n"
             /\ AmongLatest(c, IF policy.latest_n > 0 THEN policy.latest_n ELSE 1)
          \/ /\ desc[c].retention = "ttl"
             /\ policy.ttl => c \in young

\* Mutant: ancestry protects nothing.
LineageClosed_Ignored(P) == TRUE

LineageClosed(P) == \A c \in P : desc[c].lineage \cap Existing \subseteq P

\* The least set that contains every checkpoint protected in its own right
\* and the recorded ancestors of each of its members.
compute_protected(pick, young) ==
    LET own == {c \in Existing : is_protected(c, pick, young)}
    IN  {c \in Existing :
           \A P \in SUBSET Existing : own \subseteq P /\ LineageClosed(P) => c \in P}

\* The checkpoints whose protection can depend on the clock.
Timed == {c \in Live : desc[c].retention = "ttl"}

gc_eligible_checkpoints(pick, young) == Live \ compute_protected(pick, young)

-----------------------------------------------------------------------------
(***************************************************************************)
(* Families and descriptors.                                               *)
(***************************************************************************)
Init ==
    /\ nextFamily = 1
    /\ nextGen = [f \in FamilyIds |-> 0]
    /\ nextId = 1
    /\ desc = [c \in Ids |-> NoDesc]
    /\ life = [c \in Ids |-> "none"]
    /\ chunks = [c \in Ids |-> <<>>]
    /\ dur = [c \in Ids |-> "healthy"]
    /\ integ = [c \in Ids |-> "unknown"]
    /\ entries = {}
    /\ refs = [d \in Digests |-> 0]
    /\ blobs = {}
    /\ held = {}
    /\ retention = [p \in PolicyIds |-> NoPolicy]
    /\ gc = [phase |-> "idle", reclaimable |-> {}]
    /\ boot \in Boots
    /\ pub = Idle
    /\ disk = [d \in Digests |-> "absent"]
    /\ available = TRUE
    /\ faults = 0

MutexFree == pub.step = "idle"

\* families.emplace keeps an existing record; the next generation is reset.
create_family ==
    /\ MutexFree
    /\ nextFamily \in FamilyIds
    /\ nextFamily' = nextFamily + 1
    /\ nextGen' = [nextGen EXCEPT ![nextFamily] = 1]
    /\ UNCHANGED <<nextId, catalogVars, dedupVars, ctlVars, pub, envVars>>

\* The client then sets retention, lineage and replica count as it likes.
make_full_descriptor(f, ret, lineage, replicas) ==
    /\ MutexFree
    /\ nextId \in Ids
    /\ nextGen[f] > 0
    /\ nextId' = nextId + 1
    /\ desc' = [desc EXCEPT ![nextId] =
                  [family |-> f, gen |-> nextGen[f], boot |-> boot, retention |-> ret,
                   lineage |-> lineage, replicas |-> replicas]]
    /\ UNCHANGED <<nextFamily, nextGen, life, chunks, dur, integ, dedupVars,
                   ctlVars, pub, envVars>>

\* Mutant: the new boot does not wait for the publish under way.
set_authority_boot_NoMutex(b) ==
    /\ boot' = b
    /\ UNCHANGED <<idVars, catalogVars, dedupVars, retention, gc, pub, envVars>>

set_authority_boot(b) ==
    /\ MutexFree
    /\ boot' = b
    /\ UNCHANGED <<idVars, catalogVars, dedupVars, retention, gc, pub, envVars>>

-----------------------------------------------------------------------------
(***************************************************************************)
(* publish.  pub.step is "lookup" before the dedup decision on the chunk   *)
(* pub.at, "write" once the decision is to write it, and "verify" when     *)
(* every chunk is placed.  pub.fresh[d] counts how often d is listed in    *)
(* new_blob_keys and new_digests.                                          *)
(***************************************************************************)
Chunk == pub.data[pub.at]

\* The descriptors that clients hold.
Made == {c \in Ids : desc[c].family \in FamilyIds}

\* The step that follows chunk pub.at.
AfterChunk == IF pub.at = Len(pub.data) THEN "verify" ELSE "lookup"

\* Mutant: the generation is not compared.
Admitted_AnyGeneration(c) ==
    /\ c \in Made
    /\ desc[c].boot = boot
    /\ c \notin Existing
    /\ nextGen[desc[c].family] > 0

\* The checks before anything is written: current boot, id not committed,
\* known family, current generation.
Admitted(c) ==
    /\ c \in Made
    /\ desc[c].boot = boot
    /\ c \notin Existing
    /\ nextGen[desc[c].family] > 0
    /\ desc[c].gen = nextGen[desc[c].family]

publish(c, data) ==
    /\ MutexFree
    /\ Admitted(c)
    /\ pub' = [step |-> IF data = <<>> THEN "verify" ELSE "lookup",
               id |-> c, data |-> data, at |-> 1, fresh |-> NoFresh]
    /\ UNCHANGED <<idVars, catalogVars, dedupVars, ctlVars, envVars>>

\* IBackend::verify = kVerified.
Verified(d) == available /\ disk[d] = "good"

\* IBackend::put_temp and commit, and IBackend::remove of several keys: what
\* the backend then holds.
Put(d) == [disk EXCEPT ![d] = "good"]
Without(S) == [d \in Digests |-> IF d \in S THEN "absent" ELSE disk[d]]

\* DedupTable: the refcounts after add_reference, after insert, which leaves an
\* entry that is already there as it is, and the refcount after n calls of
\* release_reference, which throws at zero.
add_reference(d) == [refs EXCEPT ![d] = @ + 1]
insert(d) == IF d \in entries THEN refs ELSE [refs EXCEPT ![d] = 1]
release_reference(d, n) == IF refs[d] > n THEN refs[d] - n ELSE 0

\* Mutant: the hit takes no reference.
ReuseChunk_NoReference ==
    /\ pub.step = "lookup"
    /\ Chunk \in entries
    /\ Verified(Chunk)
    /\ blobs' = blobs \cup {Chunk}
    /\ pub' = [pub EXCEPT !.step = AfterChunk, !.at = @ + 1]
    /\ UNCHANGED <<idVars, catalogVars, entries, refs, held, ctlVars, envVars>>

\* A dedup hit whose bytes verify takes a reference.
ReuseChunk ==
    /\ pub.step = "lookup"
    /\ Chunk \in entries
    /\ Verified(Chunk)
    /\ refs' = add_reference(Chunk)
    /\ blobs' = blobs \cup {Chunk}
    /\ pub' = [pub EXCEPT !.step = AfterChunk, !.at = @ + 1]
    /\ UNCHANGED <<idVars, catalogVars, entries, held, ctlVars, envVars>>

\* A miss, or a hit that does not verify, is going to be written.
MissChunk ==
    /\ pub.step = "lookup"
    /\ ~ (Chunk \in entries /\ Verified(Chunk))
    /\ pub' = [pub EXCEPT !.step = "write"]
    /\ UNCHANGED <<idVars, catalogVars, dedupVars, ctlVars, envVars>>

WriteChunk ==
    /\ pub.step = "write"
    /\ available
    /\ disk' = Put(Chunk)
    /\ entries' = entries \cup {Chunk}
    /\ refs' = insert(Chunk)
    /\ blobs' = blobs \cup {Chunk}
    /\ pub' = [pub EXCEPT !.step = AfterChunk, !.at = @ + 1, !.fresh[Chunk] = @ + 1]
    /\ UNCHANGED <<idVars, catalogVars, held, ctlVars, available, faults>>

Fresh == {d \in Digests : pub.fresh[d] > 0}

\* The catch block.  It removes the keys written by this call and releases
\* one reference per entry of new_digests, erasing entries that reach zero.
\* References taken by ReuseChunk and blob records stay.  gone is what the
\* failing call itself removed, stuck are the keys that remove cannot remove.
Rollback(gone, stuck) ==
    /\ disk' = Without(gone \cup (Fresh \ stuck))
    /\ refs' = [d \in Digests |-> release_reference(d, pub.fresh[d])]
    /\ entries' = entries \ {d \in Fresh : refs[d] <= pub.fresh[d]}
    /\ pub' = Idle
    /\ UNCHANGED <<idVars, catalogVars, blobs, held, ctlVars, available>>

\* Mutant: the chunk is tried again until the backend takes it.
FailWrite_Retries ==
    /\ pub.step = "write"
    /\ available => faults < MaxFaults
    /\ faults' = IF available THEN faults + 1 ELSE faults
    /\ pub' = [pub EXCEPT !.step = "lookup"]
    /\ UNCHANGED <<idVars, catalogVars, dedupVars, ctlVars, disk, available>>

\* put_temp or commit throws: the backend is away, or fails this once.  When
\* its rename fails, LocalBackend::commit has already removed the old file.
FailWrite ==
    /\ pub.step = "write"
    /\ available => faults < MaxFaults
    /\ faults' = IF available THEN faults + 1 ELSE faults
    /\ \E gone \in IF available THEN {{}, {Chunk}} ELSE {{}}, stuck \in SUBSET Fresh :
          Rollback(gone, stuck)

\* The read-back of every chunk finds the bytes that were meant.
ReadBackOk == available /\ \A i \in DOMAIN pub.data : disk[pub.data[i]] = "good"

FailReadBack ==
    /\ pub.step = "verify"
    /\ ~ ReadBackOk
    /\ \E stuck \in SUBSET Fresh : Rollback({}, stuck)
    /\ UNCHANGED faults

Commit ==
    /\ pub.step = "verify"
    /\ ReadBackOk
    /\ life' = [life EXCEPT ![pub.id] = "committed"]
    /\ chunks' = [chunks EXCEPT ![pub.id] = pub.data]
    /\ integ' = [integ EXCEPT ![pub.id] = "verified"]
    /\ dur' = [dur EXCEPT ![pub.id] = IF desc[pub.id].replicas <= 1
                                        THEN "healthy" ELSE "under_replicated"]
    /\ nextGen' = [nextGen EXCEPT ![desc[pub.id].family] = desc[pub.id].gen + 1]
    /\ held' = held \cup {pub.data[i] : i \in DOMAIN pub.data}
    /\ pub' = Idle
    /\ UNCHANGED <<nextFamily, nextId, desc, entries, refs, blobs, ctlVars, envVars>>

-----------------------------------------------------------------------------
(***************************************************************************)
(* Retention changes and garbage collection.                               *)
(***************************************************************************)
set_retention_policy(p, f, terms) ==
    /\ MutexFree
    /\ retention' = [retention EXCEPT ![p] =
                       [family |-> f, latest_n |-> terms.latest_n, ttl |-> terms.ttl,
                        policy_protected |-> terms.policy_protected]]
    /\ UNCHANGED <<idVars, catalogVars, dedupVars, gc, boot, pub, envVars>>

retire(c) ==
    /\ MutexFree
    /\ life[c] = "committed"
    /\ life' = [life EXCEPT ![c] = "retired"]
    /\ UNCHANGED <<idVars, desc, chunks, dur, integ, dedupVars, ctlVars, pub, envVars>>

compute_reachable(retained) == UNION {ChunksOf(c) : c \in retained}

gc_plan ==
    /\ MutexFree
    /\ \E pick \in find_policy, young \in SUBSET Timed :
          gc' = [phase |-> "marking",
                 reclaimable |-> blobs \ compute_reachable(compute_protected(pick, young))]
    /\ UNCHANGED <<idVars, catalogVars, dedupVars, retention, boot, pub, envVars>>

\* Mutant: a release below zero is not stopped.
RefsAfterSweep_Underflow(eligible) ==
    [d \in Digests |-> refs[d] - Cardinality(References(eligible, d))]

\* One release per chunk of every swept checkpoint.
RefsAfterSweep(eligible) ==
    [d \in Digests |-> release_reference(d, Cardinality(References(eligible, d)))]

\* Mutant: what the plan listed is reclaimed without a second look.
Reclaimable_TrustPlan(retained, left) == gc.reclaimable \cap blobs

\* Mutant: reachability is not recomputed, the refcount alone decides.
Reclaimable_TrustRefcount(retained, left) == {d \in gc.reclaimable \cap blobs : left[d] = 0}

\* Listed by the plan, and at delete time unreachable and unreferenced.
Reclaimable(retained, left) ==
    {d \in gc.reclaimable \cap blobs :
        d \notin compute_reachable(retained) /\ left[d] = 0}

\* eligible is computed from one reading of the clock, retained from a later
\* one.  stuck are the keys that remove cannot remove.
Sweep(eligible, retained, stuck) ==
    LET left     == RefsAfterSweep(eligible)
        reclaim  == Reclaimable(retained, left)
        removed  == {d \in reclaim \cap held : disk[d] # "absent"} \ stuck
    IN  /\ life' = [c \in Ids |-> IF c \in eligible THEN "deleted" ELSE life[c]]
        /\ refs' = left
        /\ disk' = Without(removed)
        /\ entries' = entries \ removed
        /\ blobs' = blobs \ reclaim
        /\ held' = held \ reclaim
        /\ gc' = [gc EXCEPT !.phase = "complete", !.reclaimable = {}]

gc_run ==
    /\ MutexFree
    /\ \E pick \in find_policy, young \in SUBSET Timed, stuck \in SUBSET gc.reclaimable :
       \E later \in {y \in SUBSET young : ClockMovesInGc \/ y = young} :
          Sweep(gc_eligible_checkpoints(pick, young), compute_protected(pick, later), stuck)
    /\ UNCHANGED <<idVars, desc, chunks, dur, integ, retention, boot, pub,
                   available, faults>>

\* Writing and creating records, blob freshness and blob integrity are not
\* part of the model: no operation reads them.  The snapshot stays.
reset_authority ==
    /\ MutexFree
    /\ gc' = [gc EXCEPT !.phase = "idle"]
    /\ UNCHANGED <<idVars, catalogVars, dedupVars, retention, boot, pub, envVars>>

-----------------------------------------------------------------------------
(***************************************************************************)
(* Verification and restore.                                               *)
(***************************************************************************)
\* The positions of c's chunks that do not read back as written.
Unreadable(c) == {i \in DOMAIN chunks[c] : ~ available \/ disk[chunks[c][i]] # "good"}

\* What the backend holds for the chunk at which a pass over c stops.
FirstUnreadable(c) ==
    LET first == CHOOSE i \in Unreadable(c) : \A j \in Unreadable(c) : i <= j
    IN  disk[chunks[c][first]]

\* A backend that does not answer throws (no change) or reports missing.
verify_checkpoint(c) ==
    /\ MutexFree
    /\ c \in Existing
    /\ integ' = [integ EXCEPT ![c] =
                   IF Unreadable(c) = {} THEN "verified"
                   ELSE IF available /\ FirstUnreadable(c) = "bad" THEN "corrupt"
                   ELSE "missing"]
    /\ UNCHANGED <<idVars, desc, life, chunks, dur, dedupVars, ctlVars, pub, envVars>>

\* A chunk with wrong bytes quarantines the replica and degrades the set.
restore(c) ==
    /\ MutexFree
    /\ c \in Live
    /\ integ' = [integ EXCEPT ![c] = IF Unreadable(c) = {} THEN "verified" ELSE "corrupt"]
    /\ dur' = IF Unreadable(c) # {} /\ available /\ FirstUnreadable(c) = "bad"
              THEN [dur EXCEPT ![c] = "degraded"] ELSE dur
    /\ UNCHANGED <<idVars, desc, life, chunks, dedupVars, ctlVars, pub, envVars>>

-----------------------------------------------------------------------------
(***************************************************************************)
(* The backend: its files change behind the store's back, and it may stop  *)
(* answering for a while.                                                  *)
(***************************************************************************)
Damage(d) ==
    /\ faults < MaxFaults
    /\ \E state \in {"bad", "absent"} :
          /\ disk[d] \notin {state, "absent"}
          /\ disk' = [disk EXCEPT ![d] = state]
    /\ faults' = faults + 1
    /\ UNCHANGED <<idVars, catalogVars, dedupVars, ctlVars, pub, available>>

Outage ==
    /\ faults < MaxFaults
    /\ available
    /\ available' = FALSE
    /\ faults' = faults + 1
    /\ UNCHANGED <<idVars, catalogVars, dedupVars, ctlVars, pub, disk>>

Return ==
    /\ ~ available
    /\ available' = TRUE
    /\ UNCHANGED <<idVars, catalogVars, dedupVars, ctlVars, pub, disk, faults>>

Environment ==
    \/ \E d \in Digests : Damage(d)
    \/ Outage
    \/ Return

Next ==
    \/ create_family
    \/ \E f \in FamilyIds, r \in RetentionClasses, l \in Lineages, n \in ReplicaCounts :
          make_full_descriptor(f, r, l, n)
    \/ \E b \in Boots : set_authority_boot(b)
    \/ \E c \in Ids, data \in Contents : publish(c, data)
    \/ ReuseChunk \/ MissChunk \/ WriteChunk \/ FailWrite \/ FailReadBack \/ Commit
    \/ \E p \in PolicyIds, f \in FamilyIds, t \in PolicyTerms : set_retention_policy(p, f, t)
    \/ \E c \in Ids : retire(c)
    \/ gc_plan
    \/ gc_run
    \/ reset_authority
    \/ \E c \in Probed : verify_checkpoint(c) \/ restore(c)
    \/ Environment

Spec == Init /\ [][Next]_vars

-----------------------------------------------------------------------------
(***************************************************************************)
(* Properties.                                                             *)
(***************************************************************************)
Streams     == {s \in Seq(Digests) : Len(s) <= MaxChunks}
Descriptors == [family : 0..MaxFamilies, gen : Nat, boot : Boots,
                retention : RetentionClasses \cup {"keep_latest_n"},
                lineage : SUBSET Ids, replicas : Nat]
Policies    == [family : 0..MaxFamilies, latest_n : Nat, ttl : BOOLEAN,
                policy_protected : BOOLEAN]
Snapshots   == [phase : {"idle", "marking", "complete"}, reclaimable : SUBSET Digests]
Publishing  == [step : {"idle", "lookup", "write", "verify"}, id : 0..MaxIds,
                data : Streams, at : Nat, fresh : [Digests -> Nat]]

\* Every variable has its type, and the refcount of an absent entry is 0.
TypeOK ==
    /\ nextFamily \in 1..(MaxFamilies + 1)
    /\ nextGen \in [FamilyIds -> Nat]
    /\ nextId \in 1..(MaxIds + 1)
    /\ desc \in [Ids -> Descriptors]
    /\ life \in [Ids -> {"none", "committed", "retired", "deleted"}]
    /\ chunks \in [Ids -> Streams]
    /\ dur \in [Ids -> {"healthy", "under_replicated", "degraded"}]
    /\ integ \in [Ids -> {"unknown", "verified", "corrupt", "missing"}]
    /\ entries \subseteq Digests /\ blobs \subseteq Digests /\ held \subseteq Digests
    /\ refs \in [Digests -> Nat]
    /\ \A d \in Digests \ entries : refs[d] = 0
    /\ retention \in [PolicyIds -> Policies]
    /\ gc \in Snapshots
    /\ boot \in Boots
    /\ pub \in Publishing
    /\ disk \in [Digests -> {"absent", "good", "bad"}]
    /\ available \in BOOLEAN
    /\ faults \in 0..MaxFaults

\* As long as the backend has not failed, every chunk of every checkpoint that
\* publish committed and gc_run has not swept is on the backend, intact.
NoFaultNoLoss == faults = 0 => \A c \in Live : \A d \in ChunksOf(c) : disk[d] = "good"

\* With no publish under way and no fault, no operation - gc_run above all -
\* costs a checkpoint that survives it a chunk that was intact, whatever the
\* age of the plan and however wrong the refcounts.
GcKeepsLiveChunks ==
    [][MutexFree /\ faults' = faults =>
         \A c \in Live \cap Live' : \A d \in ChunksOf(c) :
             disk[d] = "good" => disk'[d] = "good"]_vars

\* A digest's refcount is the number of chunk references that checkpoints not
\* yet swept and the publish under way hold, as long as nothing failed.
InFlight(d) ==
    {i \in DOMAIN pub.data : pub.data[i] = d /\ (pub.step = "verify" \/ i < pub.at)}
RefcountExactWithoutFaults ==
    faults = 0 => \A d \in Digests :
                     refs[d] = Cardinality(References(Live, d)) + Cardinality(InFlight(d))

\* Garbage collection can see every chunk it may have to keep or reclaim: a
\* live checkpoint's chunks have a blob record that names a known replica.
LiveChunksTracked == \A c \in Live : ChunksOf(c) \subseteq blobs \cap held

\* The generations a family has committed are 1, 2, 3, ... without a gap or a
\* repetition, although any number of descriptors may carry the same one.
GenerationsDense ==
    \A f \in FamilyIds :
        LET members == {c \in Existing : desc[c].family = f}
        IN  /\ {desc[c].gen : c \in members} = 1..(nextGen[f] - 1)
            /\ \A c, x \in members : desc[c].gen = desc[x].gen => c = x

\* A checkpoint is committed only under the boot its descriptor was made under,
\* however many backend calls and boot changes lie between the two.
\* README.md: "A stale boot cannot restore or publish a fresh result".
PublishedUnderOwnBoot ==
    [][\A c \in Ids : life[c] = "none" /\ life'[c] # "none" => desc[c].boot = boot]_vars

\* A sweep never takes a recorded ancestor and leaves its descendant.
AncestorsOutlive ==
    [][\A c \in Live \cap Live' : desc[c].lineage \cap Live \subseteq Live']_vars

\* A checkpoint that asked for more replicas than the store makes is never swept,
\* whatever its retention, as long as no chunk was damaged: restore then marks
\* its replica set degraded, and the protection is gone.
UnderReplicatedKept ==
    [][faults = 0 => \A c \in Live : desc[c].replicas > 1 => c \in Live']_vars

\* A committed keep_latest_n checkpoint is not swept while it is among the n
\* newest of its family and every policy of the family keeps n or more.
LatestKept ==
    [][\A c \in Ids, n \in 1..MaxIds :
         /\ life[c] = "committed"
         /\ desc[c].retention = "keep_latest_n"
         /\ n > 1 => PoliciesOf(desc[c].family) # {}
         /\ \A p \in PoliciesOf(desc[c].family) : p.latest_n >= n \/ n = 1
         /\ Cardinality(Newer(c)) < n
         => life'[c] # "deleted"]_vars

\* What clients see of a checkpoint record, and of the catalogue.
VisibleEntry(d, data, l) ==
    IF l = "none" THEN [life |-> "none"]
    ELSE [family |-> d.family, gen |-> d.gen, data |-> data, lineage |-> d.lineage,
          retention |-> d.retention, life |-> l]
Visible == [c \in Ids |-> VisibleEntry(desc[c], chunks[c], life[c])]

\* The store implements the catalogue it promises: publish takes effect at
\* Commit or not at all, gc_run deletes only what retention allows, and every
\* other step leaves the catalogue alone.
Cat == INSTANCE Catalog
         WITH Families <- FamilyIds,
              Classes  <- RetentionClasses \cup {"keep_latest_n"},
              catalog  <- Visible
ImplementsCatalog == Cat!CatalogSpec

-----------------------------------------------------------------------------
(***************************************************************************)
(* A statement of the documentation that the code does not keep.           *)
(***************************************************************************)
\* publish's catch block, "existing shared blobs are untouched": a failed
\* publish costs no live checkpoint an intact chunk.
SharedBlobsUntouched ==
    [][~ MutexFree /\ MutexFree' =>
         \A c \in Live : \A d \in ChunksOf(c) : disk[d] = "good" => disk'[d] = "good"]_vars
=============================================================================
