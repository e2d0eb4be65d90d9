-------------------------- MODULE NeighbourProofs --------------------------
(***************************************************************************)
(* The two neighbours of the store: the coordinator that calls it, and the *)
(* backend that it calls.                                                  *)
(***************************************************************************)
EXTENDS Coordinator, Backends, FiniteSetTheorems, TLAPS

\* The provers for a leaf that names none, in the order in which they are tried.
\* tlapm drops an attempt that takes it over 5 seconds to prepare: the next repeats it.
USE SMTT(60), SMTT(61), SMTT(62), SMTT(63), SMTT(64), ZenonT(60), SMTT(65), SMTT(66)

(***************************************************************************)
(* Coordinator: fencing of writes, for any number of workers, boots and    *)
(* epochs.                                                                 *)
(***************************************************************************)
\* A request that is on its way was sent by a worker.
Sent == \A w \in Workers : worker[w].step \in {"sent", "orphan"} => worker[w].req \in Requests

\* The last accepted write belongs to an earlier run, to an earlier epoch, or to
\* the boot that is still active; the last accepted restore belongs to an
\* earlier run, to this epoch or to an earlier one.
Fenced ==
    /\ last.run <= restarts /\ restored.run <= restarts
    /\ last.run = restarts =>
         last.epoch <= epoch /\ (last.epoch = epoch => last.boot = active /\ active \in Boots)
    /\ restored.run = restarts => restored.epoch <= epoch

Authorities == [boot : Boots \cup {0}, epoch : Nat, run : Nat]

FenceInv ==
    /\ epoch \in Nat /\ epoch >= 1
    /\ active \in Boots \cup {0}
    /\ restarts \in Nat
    /\ last \in Authorities /\ restored \in Authorities
    /\ worker \in [Workers -> [step : {"off", "sent", "exiting", "orphan"},
                               req : Requests \cup {NoRequest}]]
    /\ conn \in Workers \cup {NoConn}
    /\ queue \in Seq(Workers)
    /\ Sent

\* What writing, restoring and registering requests carry.
LEMMA RequestFields ==
    ASSUME NEW r \in Requests
    PROVE  /\ r.kind \in Mutating \cup {"restore"} => r.boot \in Boots /\ r.epoch \in Nat
           /\ r.kind = "register" => r.boot \in Boots
<1>1. ASSUME NEW k \in Kinds \cap (Mutating \cup {"restore"}), NEW b \in Boots,
             NEW e \in 1..MaxEpoch, r = Request(k, b, e)
      PROVE  r.boot \in Boots /\ r.epoch \in Nat
  BY <1>1, CoordinatorAssumption DEF Request
<1>2. ASSUME NEW b \in Boots, r = Request("register", b, 0)
      PROVE  r.boot \in Boots /\ r.kind = "register"
  BY <1>2 DEF Request
<1>3. ASSUME NEW k \in Kinds \cap {"advance", "save", "retain", "family", "verify"},
             r = Request(k, 0, 0)
      PROVE  r.kind = k
  BY <1>3 DEF Request
<1>4. ASSUME NEW k \in Kinds \cap (Mutating \cup {"restore"}), NEW b, NEW e,
             r = Request(k, b, e)
      PROVE  r.kind = k
  BY <1>4 DEF Request
<1> QED
  BY <1>1, <1>2, <1>3, <1>4 DEF Requests, Mutating

\* A coordinator that has just started has accepted nothing.
LEMMA FenceInit == Init => FenceInv /\ Fenced
<1> SUFFICES ASSUME Init PROVE FenceInv /\ Fenced
  OBVIOUS
<1>1. Off \in [step : {"off", "sent", "exiting", "orphan"}, req : Requests \cup {NoRequest}]
  BY DEF Off
<1>2. Off.step = "off"
  BY DEF Off
<1>3. /\ last \in Authorities /\ last.epoch = 0 /\ last.run = 0
      /\ restored \in Authorities /\ restored.epoch = 0 /\ restored.run = 0
  BY DEF Init, Nobody, Authorities
<1> QED
  BY <1>1, <1>2, <1>3 DEF Init, FenceInv, Fenced, Sent

\* What a dispatched request does to the authority.
LEMMA DispatchAuthority ==
    ASSUME FenceInv, Dispatch
    PROVE  \/ UNCHANGED <<epoch, active, last>>
           \/ /\ active = 0 /\ active' \in Boots
              /\ UNCHANGED <<epoch, last>>
           \/ /\ active \in Boots /\ last' = [boot |-> active, epoch |-> epoch, run |-> restarts]
              /\ UNCHANGED <<epoch, active>>
           \/ /\ epoch' = epoch + 1 /\ active' = 0
              /\ UNCHANGED last
<1> DEFINE r == worker[conn].req
<1>1. r \in Requests
  BY DEF FenceInv, Sent, Dispatch
<1>2. /\ r.kind \in Mutating => r.boot \in Boots
      /\ r.kind = "register" => r.boot \in Boots
  BY <1>1, RequestFields
<1>3. \/ RegisterBackend(r) \/ Write(r) \/ Restore(r) \/ Other(r)
      \/ AdvanceEpoch(r) \/ Save(r)
  BY DEF Dispatch
<1> HIDE DEF r
<1>4. CASE RegisterBackend(r)
  BY <1>2, <1>4 DEF RegisterBackend, histVars
<1>5. CASE Write(r)
  BY <1>2, <1>5 DEF Write, publish_authority_ok, Granted, authVars
<1>6. CASE Restore(r) \/ Other(r) \/ Save(r)
  BY <1>6 DEF Restore, Other, Save, authVars, histVars
<1>7. CASE AdvanceEpoch(r)
  BY <1>7 DEF AdvanceEpoch, histVars
<1> QED
  BY <1>3, <1>4, <1>5, <1>6, <1>7

\* What a dispatched request does to the record of accepted restores.
LEMMA DispatchRestored ==
    ASSUME FenceInv, Dispatch
    PROVE  \/ UNCHANGED restored
           \/ /\ \E b \in Boots \cap roster :
                   restored' = [boot |-> b, epoch |-> epoch, run |-> restarts]
              /\ UNCHANGED <<epoch, active, last>>
<1> DEFINE r == worker[conn].req
<1>1. r \in Requests
  BY DEF FenceInv, Sent, Dispatch
<1>2. r.kind = "restore" => r.boot \in Boots
  BY <1>1, RequestFields
<1>3. \/ RegisterBackend(r) \/ Write(r) \/ Restore(r) \/ Other(r)
      \/ AdvanceEpoch(r) \/ Save(r)
  BY DEF Dispatch
<1> HIDE DEF r
<1>4. CASE Restore(r)
  BY <1>2, <1>4 DEF Restore, restore_authority_ok, Granted, authVars
<1>5. CASE ~ Restore(r)
  BY <1>3, <1>5 DEF RegisterBackend, Write, Other, AdvanceEpoch, Save, histVars
<1> QED
  BY <1>4, <1>5

\* Types, and the origin of requests, are kept by every step.
LEMMA FenceInvStep == FenceInv /\ [Next]_vars => FenceInv'
<1> SUFFICES ASSUME FenceInv, [Next]_vars PROVE FenceInv'
  OBVIOUS
<1> DEFINE States == [step : {"off", "sent", "exiting", "orphan"},
                      req : Requests \cup {NoRequest}]
<1>1. /\ Off \in States /\ Off.step = "off"
      /\ Exiting \in States /\ Exiting.step = "exiting"
  BY DEF Off, Exiting
<1>2. CASE \E w \in Workers, r \in Requests : Start(w, r)
  <2>1. PICK w \in Workers, r \in Requests : Start(w, r)
    BY <1>2
  <2> DEFINE new == [step |-> "sent", req |-> r]
  <2>2. new \in States /\ new.req = r
    OBVIOUS
  <2>3. worker' = [worker EXCEPT ![w] = new]
    BY <2>1 DEF Start
  <2> HIDE DEF new
  <2>4. worker' \in [Workers -> States] /\ Sent'
    BY <2>2, <2>3 DEF FenceInv, Sent
  <2>5. queue' \in Seq(Workers)
    BY <2>1 DEF Start, FenceInv
  <2> QED
    BY <2>1, <2>4, <2>5 DEF Start, FenceInv, authVars, histVars
<1>3. CASE \E w \in Workers : Exit(w) \/ Kill(w)
  <2>1. PICK w \in Workers : Exit(w) \/ Kill(w)
    BY <1>3
  <2>2. \/ worker' = [worker EXCEPT ![w] = Off]
        \/ /\ worker[w].step = "sent"
           /\ worker' = [worker EXCEPT ![w] = [worker[w] EXCEPT !.step = "orphan"]]
    BY <2>1 DEF Exit, Kill, FenceInv
  <2>3. worker' \in [Workers -> States] /\ Sent'
    <3>1. CASE worker' = [worker EXCEPT ![w] = Off]
      BY <1>1, <3>1 DEF FenceInv, Sent
    <3>2. CASE /\ worker[w].step = "sent"
               /\ worker' = [worker EXCEPT ![w] = [worker[w] EXCEPT !.step = "orphan"]]
      BY <3>2 DEF FenceInv, Sent
    <3> QED
      BY <2>2, <3>1, <3>2
  <2> QED
    BY <2>1, <2>3 DEF Exit, Kill, FenceInv, authVars, histVars
<1>4. CASE Accept
  BY <1>4 DEF Accept, FenceInv, Sent, authVars, histVars
<1>5. CASE Close
  BY <1>5 DEF Close, FenceInv, Sent, authVars, histVars
<1>6. CASE Dispatch
  <2>1. conn \in Workers
    BY <1>6 DEF Dispatch, FenceInv
  <2>2. \/ worker' = [worker EXCEPT ![conn] = Off]
        \/ worker' = [worker EXCEPT ![conn] = Exiting]
    BY ZenonT(60), <1>6, <2>1 DEF Dispatch, FenceInv
  <2>3. worker' \in [Workers -> States] /\ Sent'
    <3>1. CASE worker' = [worker EXCEPT ![conn] = Off]
      BY <1>1, <2>1, <3>1 DEF FenceInv, Sent
    <3>2. CASE worker' = [worker EXCEPT ![conn] = Exiting]
      BY <1>1, <2>1, <3>2 DEF FenceInv, Sent
    <3> QED
      BY <2>2, <3>1, <3>2
  <2>4. epoch' \in Nat /\ epoch' >= 1 /\ active' \in Boots \cup {0}
        /\ last' \in Authorities
    BY <1>6, DispatchAuthority DEF FenceInv, Authorities
  <2>5. restored' \in Authorities
    BY <1>6, DispatchRestored DEF FenceInv, Authorities
  <2> QED
    BY <1>6, <2>3, <2>4, <2>5 DEF Dispatch, FenceInv
<1>7. CASE Restart
  BY <1>1, <1>7 DEF Restart, FenceInv, Sent, histVars
<1>8. CASE UNCHANGED vars
  BY <1>8 DEF vars, FenceInv, Sent, authVars, netVars, histVars
<1> QED
  BY <1>2, <1>3, <1>4, <1>5, <1>6, <1>7, <1>8 DEF Next

\* A request that is dispatched never takes the authority back.
LEMMA DispatchFenced ==
    ASSUME FenceInv, Fenced, Dispatch
    PROVE  /\ Fenced'
           /\ last' # last /\ last'.run = last.run => last'.epoch > last.epoch
           /\ restored' # restored =>
                /\ restored'.run = restored.run => restored'.epoch >= restored.epoch
                /\ restored'.run = last.run => restored'.epoch >= last.epoch
                /\ restored'.boot \in roster
<1>1. restarts' = restarts
  BY DEF Dispatch
<1>2. /\ epoch \in Nat /\ epoch >= 1 /\ restarts \in Nat
      /\ last \in Authorities /\ last.epoch \in Nat /\ last.run \in Nat
      /\ restored.epoch \in Nat /\ restored.run \in Nat
  BY DEF FenceInv, Authorities
<1>3. epoch' \in Nat
  BY DispatchAuthority DEF FenceInv
<1>4. /\ last'.run <= restarts
      /\ last'.run = restarts =>
           last'.epoch <= epoch' /\ (last'.epoch = epoch' => last'.boot = active' /\ active' \in Boots)
      /\ last' # last /\ last'.run = last.run => last'.epoch > last.epoch
      /\ epoch' >= epoch
  <2>1. CASE UNCHANGED <<epoch, active, last>>
    BY <1>2, <2>1 DEF Fenced
  <2>2. CASE active = 0 /\ active' \in Boots /\ UNCHANGED <<epoch, last>>
    BY <1>2, <2>2, CoordinatorAssumption DEF Fenced
  <2>3. CASE /\ active \in Boots
             /\ last' = [boot |-> active, epoch |-> epoch, run |-> restarts]
             /\ UNCHANGED <<epoch, active>>
    <3>1. last.run = restarts /\ last.epoch = epoch => last' = last
      BY <1>2, <2>3 DEF Fenced, Authorities
    <3> QED
      BY <1>2, <2>3, <3>1 DEF Fenced
  <2>4. CASE epoch' = epoch + 1 /\ active' = 0 /\ UNCHANGED last
    BY <1>2, <2>4 DEF Fenced
  <2> QED
    BY <2>1, <2>2, <2>3, <2>4, DispatchAuthority
<1>5. /\ restored'.run <= restarts
      /\ restored'.run = restarts => restored'.epoch <= epoch'
      /\ restored' # restored =>
           /\ restored'.run = restored.run => restored'.epoch >= restored.epoch
           /\ restored'.run = last.run => restored'.epoch >= last.epoch
           /\ restored'.boot \in roster
  <2>1. CASE UNCHANGED restored
    BY <1>2, <1>3, <1>4, <2>1 DEF Fenced
  <2>2. CASE /\ \E b \in Boots \cap roster :
                   restored' = [boot |-> b, epoch |-> epoch, run |-> restarts]
             /\ UNCHANGED <<epoch, active, last>>
    BY <1>2, <2>2 DEF Fenced
  <2> QED
    BY <2>1, <2>2, DispatchRestored
<1> QED
  BY <1>1, <1>4, <1>5 DEF Fenced

\* The authority moves by dispatching a request, and by a restart, which begins
\* another run.
LEMMA FencedStep ==
    ASSUME FenceInv, Fenced, [Next]_vars
    PROVE  /\ Fenced'
           /\ last' # last /\ last'.run = last.run => last'.epoch > last.epoch
           /\ restored' # restored =>
                /\ restored'.run = restored.run => restored'.epoch >= restored.epoch
                /\ restored'.run = last.run => restored'.epoch >= last.epoch
                /\ restored'.boot \in roster
<1>1. CASE Dispatch
  BY <1>1, DispatchFenced
<1>2. CASE Restart
  <2>1. last.run \in Nat /\ restored.run \in Nat /\ restarts \in Nat
    BY DEF FenceInv, Authorities
  <2> QED
    BY <1>2, <2>1 DEF Restart, Fenced, histVars
<1>3. CASE UNCHANGED <<epoch, active, last, restored, restarts>>
  BY <1>3 DEF Fenced
<1>4. Dispatch \/ Restart \/ UNCHANGED <<epoch, active, last, restored, restarts>>
  BY ZenonT(60) DEF Next, vars, Start, Exit, Kill, Accept, Close, authVars, histVars
<1> QED
  BY <1>1, <1>2, <1>3, <1>4

\* In one run of the coordinator accepted writes never return to an earlier
\* epoch and come from one boot per epoch, whatever requests are delayed,
\* orphaned or replayed, and however many runs there are.
THEOREM WritesAreFenced == Spec => WritesFenced
<1>1. FenceInv /\ Fenced /\ [Next]_vars
        => Fenced' /\ [last' # last /\ last'.run = last.run => last'.epoch > last.epoch]_vars
  BY FencedStep
<1> QED
  BY <1>1, FenceInit, FenceInvStep, PTL DEF Spec, WritesFenced

\* In one run of the coordinator a restore is accepted only under an epoch that
\* no accepted write or restore has passed, from a registered boot.
THEOREM RestoresAreFenced == Spec => RestoresFenced
<1>1. FenceInv /\ Fenced /\ [Next]_vars
        => Fenced' /\ [restored' # restored =>
                          /\ restored'.run = restored.run => restored'.epoch >= restored.epoch
                          /\ restored'.run = last.run => restored'.epoch >= last.epoch
                          /\ restored'.boot \in roster]_vars
  BY FencedStep
<1> QED
  BY <1>1, FenceInit, FenceInvStep, PTL DEF Spec, RestoresFenced

\* Whatever boot the state file held, the boot that may write is the one that
\* the store accepts.
THEOREM ActiveBootAccepted == Spec => []ActiveIsStoreBoot
<1>1. Init => ActiveIsStoreBoot
  BY DEF Init, ActiveIsStoreBoot
<1>2. ActiveIsStoreBoot /\ [Next]_vars => ActiveIsStoreBoot'
  <2> SUFFICES ASSUME ActiveIsStoreBoot, [Next]_vars PROVE ActiveIsStoreBoot'
    OBVIOUS
  <2>1. CASE Dispatch
    <3> DEFINE r == worker[conn].req
    <3>1. \/ RegisterBackend(r) \/ Write(r) \/ Restore(r) \/ Other(r)
          \/ AdvanceEpoch(r) \/ Save(r)
      BY <2>1 DEF Dispatch
    <3> HIDE DEF r
    <3> QED
      BY <3>1 DEF ActiveIsStoreBoot, RegisterBackend, Write, Restore, Other, AdvanceEpoch,
                  Save, authVars
  <2>2. CASE Restart
    BY <2>2 DEF Restart, ActiveIsStoreBoot
  <2>3. CASE UNCHANGED <<active, storeBoot>>
    BY <2>3 DEF ActiveIsStoreBoot
  <2>4. Dispatch \/ Restart \/ UNCHANGED <<active, storeBoot>>
    BY ZenonT(60) DEF Next, vars, Start, Exit, Kill, Accept, Close, authVars
  <2> QED
    BY <2>1, <2>2, <2>3, <2>4
<1> QED
  BY <1>1, <1>2, PTL DEF Spec

-----------------------------------------------------------------------------
(***************************************************************************)
(* Types.                                                                  *)
(***************************************************************************)
\* Requests to advance the epoch that are on their way.
Advancing == {w \in Workers : worker[w].req.kind = "advance"}

\* The epoch stays in its bound because each such request has its place below
\* the bound from when it is sent.
EpochInv == epoch + Cardinality(Advancing) <= MaxEpoch

AuthorityInv ==
    /\ active \in roster \cup {0} /\ roster \subseteq Boots
    /\ storeBoot \in Boots \cup {0} /\ image \in [saved : BOOLEAN, boot : Boots \cup {0}]
    /\ restarts \in 0..MaxRestarts
    /\ last \in Authority /\ restored \in Authority

QueueInv ==
    /\ queue \in Seq(Workers) /\ Len(queue) <= Backlog
    /\ conn \in Workers \cup {NoConn}
    /\ \A i, j \in DOMAIN queue : queue[i] # conn /\ (queue[i] = queue[j] => i = j)

\* The set of these requests is finite.
LEMMA AdvancingFinite == IsFiniteSet(Advancing) /\ Cardinality(Advancing) \in Nat
<1>1. Advancing \in SUBSET Workers
  BY DEF Advancing
<1>2. IsFiniteSet(Advancing)
  BY <1>1, CoordinatorAssumption, FS_Subset, ZenonT(60)
<1> QED
  BY <1>2, FS_CardinalityType, ZenonT(60)

\* An epoch is only left by a request that was counted.
LEMMA EpochStep ==
    ASSUME FenceInv, EpochInv, [Next]_vars
    PROVE  EpochInv'
<1> DEFINE A == Advancing
           B == Advancing'
<1>0. /\ epoch \in Nat /\ MaxEpoch \in Nat /\ Cardinality(A) \in Nat /\ IsFiniteSet(A)
      /\ MaxEpoch >= 1
  BY AdvancingFinite, CoordinatorAssumption DEF FenceInv
<1>1. epoch + Cardinality(A) <= MaxEpoch
  BY DEF EpochInv
<1>2. EpochInv' <=> epoch' + Cardinality(B) <= MaxEpoch
  BY DEF EpochInv
<1>a. Off.req.kind # "advance" /\ Exiting.req.kind # "advance"
  BY DEF Off, Exiting, NoRequest, Request
<1>b. /\ B = {x \in Workers : worker'[x].req.kind = "advance"}
      /\ worker \in [Workers -> [step : {"off", "sent", "exiting", "orphan"},
                                 req : Requests \cup {NoRequest}]]
  BY DEF Advancing, FenceInv
<1>c. ASSUME UNCHANGED epoch, B \in SUBSET A PROVE EpochInv'
  <2>1. Cardinality(B) <= Cardinality(A) /\ IsFiniteSet(B)
    BY <1>0, <1>c, FS_Subset, ZenonT(60)
  <2>2. Cardinality(B) \in Nat
    BY <2>1, FS_CardinalityType, ZenonT(60)
  <2> HIDE DEF A, B
  <2> QED
    BY <1>0, <1>1, <1>2, <1>c, <2>1, <2>2
<1>3. ASSUME NEW w \in Workers, NEW r \in Requests, Start(w, r) PROVE EpochInv'
  <2>1. worker' = [worker EXCEPT ![w] = [step |-> "sent", req |-> r]] /\ epoch' = epoch
    BY <1>3 DEF Start, authVars
  <2>2. CASE r.kind = "advance"
    <3>1. epoch + Cardinality(A) < MaxEpoch
      BY <1>3, <2>2 DEF Start, Advancing
    <3>2. B = A \cup {w}
      BY <1>b, <2>1, <2>2 DEF Advancing
    <3>3. Cardinality(B) = IF w \in A THEN Cardinality(A) ELSE Cardinality(A) + 1
      BY <1>0, <3>2, FS_AddElement, ZenonT(60)
    <3> HIDE DEF A, B
    <3> QED
      BY <1>0, <1>2, <2>1, <3>1, <3>3
  <2>3. CASE r.kind # "advance"
    <3>1. B \in SUBSET A
      BY <1>b, <2>1, <2>3 DEF Advancing
    <3> QED
      BY <1>c, <2>1, <3>1, ZenonT(60)
  <2> QED
    BY <2>2, <2>3
<1>4. ASSUME NEW w \in Workers, Exit(w) \/ Kill(w) PROVE EpochInv'
  <2>1. epoch' = epoch
    BY <1>4 DEF Exit, Kill, authVars
  <2>2. \/ worker' = [worker EXCEPT ![w] = Off]
        \/ worker' = [worker EXCEPT ![w] = [worker[w] EXCEPT !.step = "orphan"]]
    BY <1>4, <1>b DEF Exit, Kill
  <2>3. B \in SUBSET A
    <3>1. CASE worker' = [worker EXCEPT ![w] = Off]
      BY <1>a, <1>b, <3>1 DEF Advancing
    <3>2. CASE worker' = [worker EXCEPT ![w] = [worker[w] EXCEPT !.step = "orphan"]]
      BY <1>b, <3>2 DEF Advancing
    <3> QED
      BY <2>2, <3>1, <3>2
  <2> QED
    BY <1>c, <2>1, <2>3, ZenonT(60)
<1>5. CASE Dispatch
  <2> DEFINE r == worker[conn].req
  <2>1. conn \in Workers
    BY <1>5 DEF Dispatch, FenceInv
  <2>2. \/ worker' = [worker EXCEPT ![conn] = Off]
        \/ worker' = [worker EXCEPT ![conn] = Exiting]
    BY ZenonT(60), <1>5, <2>1 DEF Dispatch, FenceInv
  <2>3. B = A \ {conn}
    <3>1. CASE worker' = [worker EXCEPT ![conn] = Off]
      BY <1>a, <1>b, <3>1 DEF Advancing
    <3>2. CASE worker' = [worker EXCEPT ![conn] = Exiting]
      BY <1>a, <1>b, <3>2 DEF Advancing
    <3> QED
      BY <2>2, <3>1, <3>2
  <2>4. CASE r.kind = "advance"
    <3>1. conn \in A
      BY <2>1, <2>4 DEF Advancing
    <3>2. Cardinality(B) = Cardinality(A) - 1
      BY <1>0, <2>3, <3>1, FS_RemoveElement, ZenonT(60)
    <3>3. epoch' = epoch + 1 \/ epoch' = epoch
      BY <1>5, DispatchAuthority
    <3> HIDE DEF A, B
    <3> QED
      BY <1>0, <1>1, <1>2, <3>2, <3>3
  <2>5. CASE r.kind # "advance"
    <3>1. epoch' = epoch
      BY <1>5, <2>5 DEF Dispatch, RegisterBackend, Write, Restore, Other, AdvanceEpoch,
         Save, authVars
    <3>2. B \in SUBSET A
      BY <2>3
    <3> QED
      BY <1>c, <3>1, <3>2, ZenonT(60)
  <2> QED
    BY <2>4, <2>5
<1>6. CASE Restart
  <2>1. epoch' = 1 /\ worker' = [w \in Workers |-> Off]
    BY <1>6 DEF Restart
  <2>2. B = {}
    BY <1>a, <1>b, <2>1
  <2>3. Cardinality(B) = 0
    BY <2>2, FS_EmptySet, ZenonT(60)
  <2> HIDE DEF B
  <2> QED
    BY <1>0, <1>2, <2>1, <2>3
<1>7. CASE Accept \/ Close \/ UNCHANGED vars
  <2>1. UNCHANGED <<epoch, worker>>
    BY <1>7 DEF Accept, Close, vars, authVars, netVars
  <2>2. B \in SUBSET A
    BY <1>b, <2>1 DEF Advancing
  <2> QED
    BY <1>c, <2>1, <2>2, ZenonT(60)
<1> QED
  BY <1>3, <1>4, <1>5, <1>6, <1>7 DEF Next

\* The epochs of accepted requests are epochs that the coordinator was in.
LEMMA AuthorityStep ==
    ASSUME FenceInv, EpochInv, AuthorityInv, [Next]_vars
    PROVE  AuthorityInv'
<1>0. epoch \in 1..MaxEpoch /\ epoch \in 0..MaxEpoch
  <2>1. epoch \in Nat /\ epoch >= 1 /\ Cardinality(Advancing) \in Nat /\ MaxEpoch \in Nat
    BY AdvancingFinite, CoordinatorAssumption DEF FenceInv
  <2> QED
    BY <2>1 DEF EpochInv
<1>1. CASE Dispatch
  <2> DEFINE r == worker[conn].req
  <2>1. r \in Requests
    BY <1>1 DEF FenceInv, Sent, Dispatch
  <2>2. r.kind \in Mutating \cup {"restore", "register"} => r.boot \in Boots
    BY <2>1, RequestFields
  <2>3. \/ RegisterBackend(r) \/ Write(r) \/ Restore(r) \/ Other(r)
        \/ AdvanceEpoch(r) \/ Save(r)
    BY <1>1 DEF Dispatch
  <2>4. restarts' = restarts
    BY <1>1 DEF Dispatch
  <2>5. ASSUME r.boot \in Boots, r.epoch = epoch PROVE Granted(r) \in Authority
    BY <1>0, <2>5 DEF Granted, Authority, AuthorityInv
  <2> HIDE DEF r
  <2>6. CASE RegisterBackend(r)
    <3>1. roster' = roster \cup {r.boot} /\ r.boot \in Boots
      BY <2>2, <2>6 DEF RegisterBackend
    <3>2. active' \in {active, r.boot} /\ storeBoot' \in {storeBoot, r.boot}
      BY <2>6 DEF RegisterBackend
    <3>3. UNCHANGED <<image, last, restored>>
      BY <2>6 DEF RegisterBackend, histVars
    <3> QED
      BY <2>4, <3>1, <3>2, <3>3 DEF AuthorityInv
  <2>7. CASE Write(r)
    <3>1. UNCHANGED <<active, roster, storeBoot, image, restored>>
      BY <2>7 DEF Write, authVars
    <3>2. last' = last \/ (r.epoch = epoch /\ last' = Granted(r))
      BY <2>7 DEF Write, publish_authority_ok
    <3>3. r.boot \in Boots
      BY <2>2, <2>7 DEF Write
    <3> QED
      BY <2>4, <2>5, <3>1, <3>2, <3>3 DEF AuthorityInv
  <2>8. CASE Restore(r)
    <3>1. UNCHANGED <<active, roster, storeBoot, image, last>>
      BY <2>8 DEF Restore, authVars
    <3>2. restored' = restored \/ (r.epoch = epoch /\ restored' = Granted(r))
      BY <2>8 DEF Restore, restore_authority_ok
    <3>3. r.boot \in Boots
      BY <2>2, <2>8 DEF Restore
    <3> QED
      BY <2>4, <2>5, <3>1, <3>2, <3>3 DEF AuthorityInv
  <2>9. CASE Other(r)
    BY <2>4, <2>9 DEF Other, AuthorityInv, authVars, histVars
  <2>10. CASE AdvanceEpoch(r)
    BY <2>4, <2>10 DEF AdvanceEpoch, AuthorityInv, histVars
  <2>11. CASE Save(r)
    BY <2>4, <2>11 DEF Save, AuthorityInv, authVars, histVars
  <2> QED
    BY ZenonT(60), <2>3, <2>6, <2>7, <2>8, <2>9, <2>10, <2>11
<1>2. CASE Restart
  <2>1. /\ restarts < MaxRestarts /\ restarts' = restarts + 1 /\ active' = 0 /\ roster' = {}
        /\ storeBoot' \in {image.boot, 0} /\ UNCHANGED <<image, last, restored>>
    BY <1>2 DEF Restart, histVars, coordinator_boot
  <2>2. restarts' \in 0..MaxRestarts
    BY <2>1, CoordinatorAssumption DEF AuthorityInv
  <2> QED
    BY <2>1, <2>2 DEF AuthorityInv
<1>3. CASE UNCHANGED <<active, roster, storeBoot, image, restarts, last, restored>>
  BY <1>3 DEF AuthorityInv
<1>4. Dispatch \/ Restart \/ UNCHANGED <<active, roster, storeBoot, image, restarts, last, restored>>
  BY ZenonT(60) DEF Next, vars, Start, Exit, Kill, Accept, Close, authVars, histVars
<1> QED
  BY <1>1, <1>2, <1>3, <1>4

\* A connection is held by the listening socket or served, once.
LEMMA QueueStep ==
    ASSUME QueueInv, [Next]_vars
    PROVE  QueueInv'
<1> DEFINE n == Len(queue)
<1>0. /\ queue \in Seq(Workers) /\ n \in Nat /\ n <= Backlog /\ Backlog \in Nat
      /\ DOMAIN queue = 1..n /\ conn \in Workers \cup {NoConn}
      /\ \A i, j \in 1..n : queue[i] # conn /\ (queue[i] = queue[j] => i = j)
  <2>1. queue \in Seq(Workers) /\ Backlog \in Nat
    BY CoordinatorAssumption DEF QueueInv
  <2>2. DOMAIN queue = 1..n /\ n \in Nat
    BY <2>1
  <2> QED
    BY <2>1, <2>2, ZenonT(60) DEF QueueInv
<1>1. ASSUME NEW w \in Workers, NEW r, Start(w, r) PROVE QueueInv'
  <2>1. /\ queue' = Append(queue, w) /\ n < Backlog /\ conn' = conn
        /\ conn # w /\ \A i \in 1..n : queue[i] # w
    BY <1>0, <1>1 DEF Start
  <2>2. /\ queue' \in Seq(Workers) /\ Len(queue') = n + 1 /\ DOMAIN queue' = 1..(n + 1)
        /\ \A i \in 1..n : queue'[i] = queue[i]
        /\ queue'[n + 1] = w
    BY <1>0, <2>1
  <2>3. Len(queue') <= Backlog
    BY <1>0, <2>1, <2>2
  <2> HIDE DEF n
  <2>4. ASSUME NEW i \in 1..(n + 1), NEW j \in 1..(n + 1)
        PROVE  queue'[i] # conn /\ (queue'[i] = queue'[j] => i = j)
    <3>1. (i \in 1..n \/ i = n + 1) /\ (j \in 1..n \/ j = n + 1)
      BY <1>0
    <3>2. CASE i \in 1..n /\ j \in 1..n
      BY <1>0, <2>2, <3>2, ZenonT(60)
    <3>3. CASE i = n + 1 /\ j \in 1..n
      BY <2>1, <2>2, <3>3, ZenonT(60)
    <3>4. CASE i \in 1..n /\ j = n + 1
      BY <1>0, <2>1, <2>2, <3>4, ZenonT(60)
    <3>5. CASE i = n + 1 /\ j = n + 1
      BY <2>1, <2>2, <3>5, ZenonT(60)
    <3> QED
      BY <3>1, <3>2, <3>3, <3>4, <3>5, ZenonT(60)
  <2> QED
    BY <1>0, <2>1, <2>2, <2>3, <2>4, ZenonT(60) DEF QueueInv
<1>2. CASE Accept
  <2>1. queue' = Tail(queue) /\ conn' = Head(queue) /\ queue # <<>>
    BY <1>2 DEF Accept
  <2>2. /\ n >= 1 /\ queue' \in Seq(Workers) /\ Len(queue') = n - 1
        /\ DOMAIN queue' = 1..(n - 1) /\ conn' = queue[1] /\ conn' \in Workers
        /\ \A i \in 1..(n - 1) : queue'[i] = queue[i + 1]
    BY <1>0, <2>1
  <2> HIDE DEF n
  <2>3. /\ 1 \in 1..n /\ n - 1 <= Backlog
        /\ \A i \in 1..(n - 1) : i + 1 \in 1..n /\ i + 1 # 1
        /\ \A i, j \in 1..(n - 1) : i + 1 = j + 1 => i = j
    <3>1. n >= 1 /\ n \in Nat /\ n <= Backlog /\ Backlog \in Nat
      BY <1>0, <2>2, ZenonT(60)
    <3> QED
      BY <3>1
  <2>4. ASSUME NEW i \in 1..(n - 1), NEW j \in 1..(n - 1)
        PROVE  queue'[i] # conn' /\ (queue'[i] = queue'[j] => i = j)
    <3>1. queue'[i] = queue[i + 1] /\ queue'[j] = queue[j + 1] /\ conn' = queue[1]
      BY <2>2, ZenonT(60)
    <3>2. queue[i + 1] # queue[1] /\ (queue[i + 1] = queue[j + 1] => i + 1 = j + 1)
      BY <1>0, <2>3, ZenonT(60)
    <3> QED
      BY <2>3, <3>1, <3>2, ZenonT(60)
  <2> QED
    BY <2>2, <2>3, <2>4, ZenonT(60) DEF QueueInv
<1>3. CASE Restart
  <2>1. queue' = <<>> /\ conn' = NoConn
    BY <1>3 DEF Restart
  <2>2. <<>> \in Seq(Workers) /\ Len(<<>>) = 0 /\ 0 <= Backlog /\ DOMAIN <<>> = {}
    BY <1>0
  <2> QED
    BY <2>1, <2>2, ZenonT(60) DEF QueueInv
<1>4. CASE Close
  <2>1. conn' = NoConn /\ queue' = queue
    BY <1>4 DEF Close
  <2>2. \A i \in 1..n : queue[i] # NoConn
    BY <1>0, CoordinatorAssumption DEF NoConn
  <2> QED
    BY <1>0, <2>1, <2>2, ZenonT(60) DEF QueueInv
<1>5. CASE UNCHANGED <<queue, conn>>
  BY <1>5, ZenonT(60) DEF QueueInv
<1>6. \/ \E w \in Workers, r \in Requests : Start(w, r)
      \/ Accept \/ Restart \/ Close \/ UNCHANGED <<queue, conn>>
  BY DEF Next, vars, Exit, Kill, Dispatch, netVars
<1> QED
  BY <1>1, <1>2, <1>3, <1>4, <1>5, <1>6, ZenonT(60)

\* The variables keep their types: the epoch does not pass its bound, no
\* connection is in two places, and what was accepted was accepted by a boot
\* and in an epoch that the coordinator knows.
THEOREM CoordinatorTypes == Spec => []TypeOK
<1> DEFINE Inv == FenceInv /\ EpochInv /\ AuthorityInv /\ QueueInv
<1>1. Init => Inv
  <2> SUFFICES ASSUME Init PROVE Inv
    OBVIOUS
  <2>1. Off.req.kind # "advance"
    BY DEF Off, NoRequest, Request
  <2>2. Advancing = {}
    BY <2>1 DEF Advancing, Init
  <2>3. EpochInv
    <3>1. Cardinality(Advancing) = 0
      BY <2>2, FS_EmptySet, ZenonT(60)
    <3> QED
      BY <3>1, CoordinatorAssumption DEF Init, EpochInv
  <2>4. Nobody \in Authority /\ NoImage \in [saved : BOOLEAN, boot : Boots \cup {0}]
    BY CoordinatorAssumption DEF Nobody, Authority, NoImage
  <2>5. AuthorityInv
    BY <2>4, CoordinatorAssumption DEF Init, AuthorityInv, coordinator_boot
  <2>6. QueueInv
    BY CoordinatorAssumption DEF Init, QueueInv
  <2> QED
    BY <2>3, <2>5, <2>6, FenceInit
<1>2. Inv /\ [Next]_vars => Inv'
  BY FenceInvStep, EpochStep, AuthorityStep, QueueStep
<1>3. Inv => TypeOK
  <2> SUFFICES ASSUME Inv PROVE TypeOK
    OBVIOUS
  <2>1. epoch \in 1..MaxEpoch
    <3>1. epoch \in Nat /\ epoch >= 1 /\ Cardinality(Advancing) \in Nat /\ MaxEpoch \in Nat
      BY AdvancingFinite, CoordinatorAssumption DEF FenceInv
    <3> QED
      BY <3>1 DEF EpochInv
  <2> QED
    BY <2>1, ZenonT(60) DEF FenceInv, AuthorityInv, QueueInv, TypeOK
<1> QED
  BY <1>1, <1>2, <1>3, PTL DEF Spec

-----------------------------------------------------------------------------
(***************************************************************************)
(* Backends: both stage whole objects only, leave no more temporary        *)
(* objects than calls failed and processes died, and keep the contract of  *)
(* module ObjectStore, for every set of keys and every bound.              *)
(***************************************************************************)
\* The bounds are numbers.
Bounds == MaxSeq \in Nat /\ MaxSerial \in Nat /\ NoKey \notin Keys

\* The assumptions on the constants, in the form the proofs use.
LEMMA BoundsHold == Bounds
BY BackendsAssumption DEF Bounds

LocalTypes ==
    /\ files \in [Keys -> FileStates]
    /\ temps \in [Keys \X (1..MaxSeq) -> FileStates]
    /\ staged \in [Keys -> Nat]
    /\ seq \in Nat /\ seq <= MaxSeq
    /\ call \in [step : {"none", "write", "lookup", "rename"}, key : Keys \cup {NoKey}]

\* A write has a key.  The numbers in staged_ are not ahead of seq_, and the
\* file that put_temp is writing is not one of those staged under its key.
LocalInv ==
    /\ LocalTypes
    /\ call.step = "none" <=> call.key = NoKey
    /\ \A k \in Keys : staged[k] <= seq
    /\ \A k \in Keys : staged[k] > 0 => temps[<<k, staged[k]>>] = "whole"
    /\ call.step = "write" => staged[call.key] < seq
    /\ call.step \in {"lookup", "rename"} => staged[call.key] > 0

SynthTypes ==
    /\ objects \subseteq Keys /\ corrupt \subseteq Keys /\ missing \subseteq Keys
    /\ temp_objects \subseteq Keys \X (1..MaxSerial)
    /\ entry \in [Keys -> Nat]
    /\ serial \in Nat /\ serial <= MaxSerial
    /\ doing \in [step : {"none", "staged", "checked"}, key : Keys \cup {NoKey}]

\* The same of the synthetic backend.
SynthInv ==
    /\ SynthTypes
    /\ doing.step = "none" <=> doing.key = NoKey
    /\ \A k \in Keys : entry[k] <= serial
    /\ \A k \in Keys : entry[k] > 0 => <<k, entry[k]>> \in temp_objects
    /\ doing.step # "none" => entry[doing.key] > 0

Inv == kind \in {"local", "synthetic"} /\ LocalInv /\ SynthInv

\* Both backends start within the invariant.
LEMMA InitInv == BackendInit => Inv
<1> SUFFICES ASSUME BackendInit PROVE Inv
  OBVIOUS
<1> USE BoundsHold DEF Bounds
<1>1. LocalInv
  BY DEF BackendInit, LocalInit, LocalInv, LocalTypes, NoCall, FileStates
<1>2. SynthInv
  BY DEF BackendInit, Synthetic!SynthInit, SynthInv, SynthTypes, Synthetic!Nothing
<1> QED
  BY <1>1, <1>2 DEF BackendInit, Inv

-----------------------------------------------------------------------------
\* The local backend.
LEMMA LocalStep ==
    ASSUME LocalInv, LocalNext
    PROVE  LocalInv'
<1> USE BoundsHold DEF Bounds
<1>1. ASSUME NEW k \in Keys, OpenTemp(k) PROVE LocalInv'
  <2>1. /\ LocalTypes' /\ call'.step = "write" /\ call'.key = k
        /\ staged' = staged /\ seq' = seq + 1
    BY <1>1 DEF LocalInv, LocalTypes, OpenTemp, At, FileStates
  <2>2. ASSUME NEW j \in Keys, staged[j] > 0 PROVE temps'[<<j, staged[j]>>] = "whole"
    <3>1. staged[j] # seq + 1 /\ <<j, staged[j]>> \in Keys \X (1..MaxSeq)
      BY <2>2 DEF LocalInv, LocalTypes
    <3> QED
      BY ZenonT(60), <1>1, <2>2, <3>1 DEF LocalInv, LocalTypes, OpenTemp
  <2> QED
    BY <1>1, <2>1, <2>2 DEF LocalInv, LocalTypes
<1>2. CASE FailOpen
  BY <1>2 DEF LocalInv, LocalTypes, FailOpen, Throw, NoCall, At
<1>3. CASE WriteTemp
  <2>1. call.key \in Keys /\ call.step = "write" /\ seq \in 1..MaxSeq
    BY <1>3 DEF LocalInv, LocalTypes, WriteTemp, At
  <2>2. /\ LocalTypes' /\ call'.step = "lookup" /\ call'.key = call.key
        /\ staged' = [staged EXCEPT ![call.key] = seq] /\ seq' = seq
        /\ temps' = [temps EXCEPT ![<<call.key, seq>>] = "whole"]
    BY <1>3, <2>1 DEF LocalInv, LocalTypes, WriteTemp, Goto, temp_path, FileStates
  <2>3. ASSUME NEW j \in Keys, staged'[j] > 0 PROVE temps'[<<j, staged'[j]>>] = "whole"
    <3>1. <<j, staged'[j]>> \in Keys \X (1..MaxSeq)
      BY <2>1, <2>2, <2>3 DEF LocalInv, LocalTypes
    <3>2. CASE j = call.key
      BY ZenonT(60), <2>1, <2>2, <3>1, <3>2 DEF LocalInv, LocalTypes
    <3>3. CASE j # call.key
      BY ZenonT(60), <2>1, <2>2, <2>3, <3>1, <3>3 DEF LocalInv, LocalTypes
    <3> QED
      BY <3>2, <3>3
  <2> QED
    BY <2>1, <2>2, <2>3 DEF LocalInv, LocalTypes
<1>4. CASE FailTemp
  BY ZenonT(60), <1>4 DEF LocalInv, LocalTypes, FailTemp, Throw, NoCall
<1>5. CASE RemoveOld
  <2>1. call.key \in Keys /\ call.step = "lookup"
    BY <1>5 DEF LocalInv, LocalTypes, RemoveOld, At
  <2>2. /\ LocalTypes' /\ call'.step = "rename" /\ call'.key = call.key
        /\ staged' = staged /\ seq' = seq /\ temps' = temps
    BY ZenonT(60), <1>5, <2>1 DEF LocalInv, LocalTypes, RemoveOld, Goto, FileStates
  <2> QED
    BY <2>1, <2>2 DEF LocalInv
<1>6. CASE Rename
  <2>1. call.key \in Keys /\ staged[call.key] \in 1..MaxSeq
    BY <1>6 DEF LocalInv, LocalTypes, Rename, At
  <2>2. /\ LocalTypes' /\ call'.step = "none" /\ call'.key = NoKey
        /\ staged' = [staged EXCEPT ![call.key] = 0] /\ seq' = seq
        /\ temps' = [temps EXCEPT ![<<call.key, staged[call.key]>>] = "absent"]
    BY <1>6, <2>1 DEF LocalInv, LocalTypes, Rename, NoCall, FileStates
  <2>3. ASSUME NEW j \in Keys, staged'[j] > 0 PROVE temps'[<<j, staged'[j]>>] = "whole"
    <3>1. j # call.key /\ staged'[j] = staged[j] /\ staged[j] \in 1..MaxSeq
      BY <2>1, <2>2, <2>3 DEF LocalInv, LocalTypes
    <3>2. temps[<<j, staged[j]>>] = "whole"
      BY <3>1 DEF LocalInv, LocalTypes
    <3>3. temps'[<<j, staged[j]>>] = temps[<<j, staged[j]>>]
      BY ZenonT(60), <2>1, <2>2, <3>1 DEF LocalInv, LocalTypes
    <3> QED
      BY ZenonT(60), <3>1, <3>2, <3>3
  <2> QED
    BY <2>1, <2>2, <2>3 DEF LocalInv, LocalTypes
<1>7. CASE FailRename
  BY <1>7 DEF LocalInv, LocalTypes, FailRename, Throw, NoCall
<1>8. ASSUME NEW k \in Keys, remove(k) PROVE LocalInv'
  BY ZenonT(60), <1>8 DEF LocalInv, LocalTypes, remove, FileStates
<1>9. CASE NewProcess
  BY <1>9 DEF LocalInv, LocalTypes, NewProcess, NoCall
<1>10. ASSUME NEW k \in Keys, LoseFile(k) PROVE LocalInv'
  BY <1>10 DEF LocalInv, LocalTypes, LoseFile, FileStates
<1> QED
  BY ZenonT(60), <1>1, <1>2, <1>3, <1>4, <1>5, <1>6, <1>7, <1>8, <1>9, <1>10 DEF LocalNext

\* The synthetic backend.
LEMMA SynthStep ==
    ASSUME SynthInv, Synthetic!SynthNext
    PROVE  SynthInv'
<1> USE BoundsHold DEF Bounds
<1>1. ASSUME NEW k \in Keys, Synthetic!put_temp(k) PROVE SynthInv'
  <2>1. SynthTypes'
    BY <1>1 DEF SynthInv, SynthTypes, Synthetic!put_temp, Synthetic!flagVars
  <2> QED
    BY <1>1, <2>1 DEF SynthInv, SynthTypes, Synthetic!put_temp
<1>2. CASE Synthetic!commit_unavailable
  BY <1>2 DEF SynthInv, SynthTypes, Synthetic!commit_unavailable, Synthetic!flagVars,
              Synthetic!Nothing
<1>3. CASE Synthetic!commit_checked
  BY ZenonT(60), <1>3 DEF SynthInv, SynthTypes, Synthetic!commit_checked, Synthetic!flagVars
<1>4. CASE Synthetic!commit
  <2>1. doing.key \in Keys
    BY ZenonT(60), <1>4 DEF SynthInv, SynthTypes, Synthetic!commit
  <2>2. SynthTypes'
    BY ZenonT(60), <1>4, <2>1 DEF SynthInv, SynthTypes, Synthetic!commit, Synthetic!Nothing
  <2>3. ASSUME NEW j \in Keys, entry'[j] > 0 PROVE <<j, entry'[j]>> \in temp_objects'
    <3>1. j # doing.key /\ entry'[j] = entry[j]
      BY <1>4, <2>1, <2>3 DEF SynthInv, SynthTypes, Synthetic!commit
    <3> QED
      BY ZenonT(60), <1>4, <2>3, <3>1 DEF SynthInv, SynthTypes, Synthetic!commit
  <2> QED
    BY <1>4, <2>1, <2>2, <2>3 DEF SynthInv, SynthTypes, Synthetic!commit, Synthetic!Nothing
<1>5. ASSUME NEW k \in Keys, Synthetic!erase(k) PROVE SynthInv'
  BY ZenonT(60), <1>5 DEF SynthInv, SynthTypes, Synthetic!erase, Synthetic!flagVars
<1>6. CASE Synthetic!close
  BY <1>6 DEF SynthInv, SynthTypes, Synthetic!close
<1>7. ASSUME NEW b \in BOOLEAN, Synthetic!set_available(b) PROVE SynthInv'
  BY <1>7 DEF SynthInv, SynthTypes, Synthetic!set_available, Synthetic!Switch,
     Synthetic!flagVars
<1>8. ASSUME NEW k \in Keys, Synthetic!set_corrupt(k) PROVE SynthInv'
  BY <1>8 DEF SynthInv, SynthTypes, Synthetic!set_corrupt, Synthetic!Switch
<1>9. ASSUME NEW k \in Keys, Synthetic!set_missing(k) PROVE SynthInv'
  BY <1>9 DEF SynthInv, SynthTypes, Synthetic!set_missing, Synthetic!Switch
<1> QED
  BY ZenonT(60), <1>1, <1>2, <1>3, <1>4, <1>5, <1>6, <1>7, <1>8, <1>9 DEF Synthetic!SynthNext

\* Every step of either backend keeps the invariant.
LEMMA InvStep ==
    ASSUME Inv, [BackendNext]_backendVars
    PROVE  Inv'
<1>1. ASSUME UNCHANGED localVars, LocalInv PROVE LocalInv'
  BY <1>1 DEF localVars, LocalInv, LocalTypes
<1>2. ASSUME UNCHANGED synthVars, SynthInv PROVE SynthInv'
  BY <1>2 DEF synthVars, SynthInv, SynthTypes
<1>3. CASE kind = "local" /\ LocalNext /\ UNCHANGED synthVars /\ UNCHANGED kind
  BY <1>2, <1>3, LocalStep DEF Inv
<1>4. CASE kind = "synthetic" /\ Synthetic!SynthNext /\ UNCHANGED localVars /\ UNCHANGED kind
  BY <1>1, <1>4, SynthStep DEF Inv
<1>5. CASE UNCHANGED backendVars
  <2>1. UNCHANGED localVars /\ UNCHANGED synthVars /\ UNCHANGED kind
    BY <1>5 DEF backendVars, localVars, synthVars
  <2> QED
    BY ZenonT(60), <1>1, <1>2, <2>1 DEF Inv
<1> QED
  BY ZenonT(60), <1>3, <1>4, <1>5 DEF BackendNext

\* The strengthened invariant holds in every state of either backend.
THEOREM BackendsInvariant == BackendSpec => []Inv
<1>1. BackendInit => Inv
  BY InitInv
<1>2. Inv /\ [BackendNext]_backendVars => Inv'
  BY InvStep
<1> QED
  BY <1>1, <1>2, PTL DEF BackendSpec

\* Both backends keep their types through every call, failure and restart, and
\* a commit under way finds its key in staged_.
THEOREM BackendsTypeCorrect == BackendSpec => []BackendTypeOK
<1>1. Inv => BackendTypeOK
  <2> SUFFICES ASSUME Inv PROVE BackendTypeOK
    OBVIOUS
  <2> USE BoundsHold DEF Bounds
  <2>1. staged \in [Keys -> 0..MaxSeq] /\ seq \in 0..MaxSeq
    BY DEF Inv, LocalInv, LocalTypes
  <2>2. entry \in [Keys -> 0..MaxSerial] /\ serial \in 0..MaxSerial
    BY DEF Inv, SynthInv, SynthTypes
  <2> QED
    BY <2>1, <2>2 DEF Inv, LocalInv, LocalTypes, SynthInv, SynthTypes, BackendTypeOK
<1> QED
  BY <1>1, BackendsInvariant, PTL

\* What is staged can be committed, in both backends: put_temp enters a
\* temporary object in staged_ only when it is whole, and no later call,
\* failure or process overwrites or removes it while the entry stands.
THEOREM StagedObjectsAreWhole == BackendSpec => []StagedIsWhole
<1>1. Inv => StagedIsWhole
  BY DEF Inv, LocalInv, SynthInv, StagedIsWhole
<1> QED
  BY <1>1, BackendsInvariant, PTL

-----------------------------------------------------------------------------
(***************************************************************************)
(* What failed calls and dead processes leave behind.                      *)
(***************************************************************************)
\* The temporary files that are there.
Files == {n \in DOMAIN temps : temps[n] # "absent"}

\* The file that put_temp writes is there since it was opened.
LocalLeft ==
    /\ ioErrors \in Nat /\ deaths \in Nat
    /\ call.step = "write" => <<call.key, seq>> \in Files
    /\ IsFiniteSet(Files)
    /\ Cardinality(Files) <= ioErrors + deaths + (IF call.step = "none" THEN 0 ELSE 1)

\* A commit that is about to find the backend unavailable has an outage of its
\* own to blame: the backend was available when put_temp staged the object.
SynthLeft ==
    /\ outages \in Nat /\ available \in BOOLEAN
    /\ IsFiniteSet(temp_objects)
    /\ Cardinality(temp_objects) <= outages + (IF doing.step = "none" THEN 0 ELSE 1)
    /\ doing.step = "staged" /\ ~ available => Cardinality(temp_objects) <= outages

LeftInv == LocalLeft /\ SynthLeft

\* A new process starts with no temporary object.
LEMMA LeftInit == BackendInit => LeftInv
<1> SUFFICES ASSUME BackendInit PROVE LeftInv
  OBVIOUS
<1>1. Files = {} /\ call.step = "none" /\ ioErrors = 0 /\ deaths = 0
  BY DEF BackendInit, LocalInit, Files, NoCall
<1>2. temp_objects = {} /\ doing.step = "none" /\ outages = 0 /\ available = TRUE
  BY DEF BackendInit, Synthetic!SynthInit, Synthetic!Nothing
<1>3. IsFiniteSet({}) /\ Cardinality({}) = 0
  BY FS_EmptySet
<1>4. LocalLeft
  BY <1>1, <1>3 DEF LocalLeft
<1>5. SynthLeft
  BY <1>2, <1>3 DEF SynthLeft
<1> QED
  BY <1>4, <1>5 DEF LeftInv

\* Every step of the local backend that leaves a temporary file without a call
\* that will take it away counts an error or the end of a process.
LEMMA LocalLeftStep ==
    ASSUME LocalInv, LocalInv', LocalLeft, LocalNext
    PROVE  LocalLeft'
<1> USE BoundsHold DEF Bounds
<1>0. Cardinality(Files) \in Nat
  BY FS_CardinalityType DEF LocalLeft
<1>1. ASSUME temps' = temps PROVE Files' = Files
  BY <1>1 DEF Files
<1>2. ASSUME NEW n \in Keys \X (1..MaxSeq), NEW f \in {"whole", "broken"},
             temps' = [temps EXCEPT ![n] = f]
      PROVE  /\ Files' = Files \cup {n} /\ IsFiniteSet(Files')
             /\ Cardinality(Files') = IF n \in Files THEN Cardinality(Files)
                                      ELSE Cardinality(Files) + 1
  <2>1. Files' = Files \cup {n}
    BY <1>2 DEF Files, LocalInv, LocalTypes
  <2> QED
    BY ZenonT(60), <2>1, FS_AddElement DEF LocalLeft
<1>3. ASSUME NEW k \in Keys, OpenTemp(k) PROVE LocalLeft'
  <2>1. <<k, seq + 1>> \in Keys \X (1..MaxSeq)
    BY <1>3 DEF OpenTemp, LocalInv, LocalTypes
  <2>2. /\ temps' = [temps EXCEPT ![<<k, seq + 1>>] = "broken"] /\ seq' = seq + 1
        /\ call.step = "none" /\ call'.step = "write" /\ call'.key = k
        /\ ioErrors' = ioErrors /\ deaths' = deaths
    BY <1>3 DEF OpenTemp, At, counters
  <2>3. /\ Files' = Files \cup {<<k, seq + 1>>} /\ IsFiniteSet(Files')
        /\ Cardinality(Files') \in {Cardinality(Files), Cardinality(Files) + 1}
    BY ZenonT(60), <1>2, <2>1, <2>2
  <2>4. <<call'.key, seq'>> \in Files'
    BY <2>2, <2>3
  <2> QED
    BY <1>0, <2>2, <2>3, <2>4 DEF LocalLeft
<1>4. ASSUME temps' = temps, Throw PROVE LocalLeft'
  <2>1. call'.step = "none" /\ ioErrors' = ioErrors + 1 /\ deaths' = deaths
    BY <1>4 DEF Throw, NoCall
  <2> QED
    BY <1>0, <1>1, <1>4, <2>1 DEF LocalLeft
<1>5. CASE FailOpen \/ FailTemp \/ FailRename
  BY ZenonT(60), <1>4, <1>5 DEF FailOpen, FailTemp, FailRename
<1>6. CASE WriteTemp
  <2>1. call.step = "write" /\ <<call.key, seq>> \in Files
    BY ZenonT(60), <1>6 DEF WriteTemp, At, LocalLeft
  <2>2. <<call.key, seq>> \in Keys \X (1..MaxSeq)
    BY <2>1 DEF Files, LocalInv, LocalTypes
  <2>3. /\ temps' = [temps EXCEPT ![<<call.key, seq>>] = "whole"]
        /\ call'.step = "lookup" /\ ioErrors' = ioErrors /\ deaths' = deaths
    BY <1>6 DEF WriteTemp, temp_path, Goto, counters, LocalInv, LocalTypes
  <2>4. IsFiniteSet(Files') /\ Cardinality(Files') = Cardinality(Files)
    BY ZenonT(60), <1>2, <2>1, <2>2, <2>3
  <2> QED
    BY <1>0, <2>1, <2>3, <2>4 DEF LocalLeft
<1>7. CASE RemoveOld
  <2>1. /\ temps' = temps /\ call.step = "lookup" /\ call'.step = "rename"
        /\ ioErrors' = ioErrors /\ deaths' = deaths
    BY <1>7 DEF RemoveOld, At, Goto, counters, LocalInv, LocalTypes
  <2> QED
    BY <1>1, <2>1 DEF LocalLeft
<1>8. CASE Rename
  <2> DEFINE n == <<call.key, staged[call.key]>>
  <2>1. /\ call.step = "rename" /\ n \in Keys \X (1..MaxSeq) /\ temps[n] = "whole"
    BY <1>8 DEF Rename, At, LocalInv, LocalTypes
  <2>2. /\ temps' = [temps EXCEPT ![n] = "absent"] /\ call'.step = "none"
        /\ ioErrors' = ioErrors /\ deaths' = deaths
    BY ZenonT(60), <1>8 DEF Rename, NoCall, counters
  <2>3. n \in Files /\ Files' = Files \ {n}
    BY <2>1, <2>2 DEF Files, LocalInv, LocalTypes
  <2>4. IsFiniteSet(Files') /\ Cardinality(Files') = Cardinality(Files) - 1
    BY ZenonT(60), <2>3, FS_RemoveElement DEF LocalLeft
  <2> QED
    BY <1>0, <2>1, <2>2, <2>4 DEF LocalLeft
<1>9. ASSUME NEW k \in Keys, remove(k) \/ LoseFile(k) PROVE LocalLeft'
  <2>1. /\ temps' = temps /\ call' = call /\ seq' = seq
        /\ ioErrors' = ioErrors /\ deaths' = deaths
    BY <1>9 DEF remove, LoseFile, counters
  <2> QED
    BY <1>1, <2>1 DEF LocalLeft
<1>10. CASE NewProcess
  <2>1. /\ temps' = temps /\ call'.step = "none"
        /\ ioErrors' = ioErrors /\ deaths' = deaths + 1
    BY <1>10 DEF NewProcess, NoCall
  <2> QED
    BY <1>0, <1>1, <2>1 DEF LocalLeft
<1> QED
  BY ZenonT(60), <1>3, <1>5, <1>6, <1>7, <1>8, <1>9, <1>10 DEF LocalNext

\* The same of the synthetic backend and its outages.
LEMMA SynthLeftStep ==
    ASSUME SynthInv, SynthLeft, Synthetic!SynthNext
    PROVE  SynthLeft'
<1>0. Cardinality(temp_objects) \in Nat
  BY FS_CardinalityType DEF SynthLeft
<1>1. ASSUME NEW k \in Keys, Synthetic!put_temp(k) PROVE SynthLeft'
  <2>1. /\ temp_objects' = temp_objects \cup {<<k, serial + 1>>}
        /\ doing.step = "none" /\ doing'.step = "staged"
        /\ available /\ available' = available /\ outages' = outages
    BY <1>1 DEF Synthetic!put_temp
  <2>2. /\ IsFiniteSet(temp_objects')
        /\ Cardinality(temp_objects') \in {Cardinality(temp_objects),
                                           Cardinality(temp_objects) + 1}
    BY ZenonT(60), <2>1, FS_AddElement DEF SynthLeft
  <2> QED
    BY <1>0, <2>1, <2>2 DEF SynthLeft
<1>2. CASE Synthetic!commit_unavailable
  <2>1. /\ temp_objects' = temp_objects /\ doing.step = "staged" /\ doing'.step = "none"
        /\ ~ available /\ available' = available /\ outages' = outages
    BY <1>2 DEF Synthetic!commit_unavailable, Synthetic!Nothing
  <2> QED
    BY <1>0, <2>1 DEF SynthLeft
<1>3. CASE Synthetic!commit_checked
  <2>1. /\ temp_objects' = temp_objects /\ doing.step = "staged" /\ doing'.step = "checked"
        /\ available' = available /\ outages' = outages
    BY <1>3 DEF Synthetic!commit_checked, SynthInv, SynthTypes
  <2> QED
    BY <1>0, <2>1 DEF SynthLeft
<1>4. CASE Synthetic!commit
  <2> DEFINE n == <<doing.key, entry[doing.key]>>
  <2>1. /\ temp_objects' = temp_objects \ {n} /\ doing.step = "checked" /\ doing'.step = "none"
        /\ available' = available /\ outages' = outages
    BY <1>4 DEF Synthetic!commit, Synthetic!Nothing
  <2>2. n \in temp_objects
    BY <2>1 DEF SynthInv, SynthTypes
  <2>3. /\ IsFiniteSet(temp_objects')
        /\ Cardinality(temp_objects') = Cardinality(temp_objects) - 1
    BY ZenonT(60), <2>1, <2>2, FS_RemoveElement DEF SynthLeft
  <2> QED
    BY <1>0, <2>1, <2>3 DEF SynthLeft
<1>5. ASSUME NEW k \in Keys,
             Synthetic!erase(k) \/ Synthetic!set_corrupt(k) \/ Synthetic!set_missing(k)
      PROVE  SynthLeft'
  <2>1. /\ temp_objects' = temp_objects /\ doing' = doing
        /\ available' = available /\ outages' = outages
    BY <1>5 DEF Synthetic!erase, Synthetic!set_corrupt, Synthetic!set_missing, Synthetic!Switch
  <2> QED
    BY ZenonT(60), <2>1 DEF SynthLeft
<1>6. CASE Synthetic!close
  <2>1. temp_objects' = {} /\ doing' = doing /\ available' = available /\ outages' = outages
    BY <1>6 DEF Synthetic!close
  <2>2. IsFiniteSet({}) /\ Cardinality({}) = 0
    BY FS_EmptySet
  <2> QED
    BY <2>1, <2>2 DEF SynthLeft
<1>7. ASSUME NEW b \in BOOLEAN, Synthetic!set_available(b) PROVE SynthLeft'
  <2>1. /\ temp_objects' = temp_objects /\ doing' = doing /\ available' = b
        /\ outages' = IF b THEN outages ELSE outages + 1
    BY <1>7 DEF Synthetic!set_available, Synthetic!Switch
  <2> QED
    BY <1>0, <2>1 DEF SynthLeft
<1> QED
  BY ZenonT(60), <1>1, <1>2, <1>3, <1>4, <1>5, <1>6, <1>7 DEF Synthetic!SynthNext

\* Temporary objects are left behind only by calls that failed and by processes
\* that died, one by each, however many calls were made: a put_temp that is
\* followed by its commit leaves none.
THEOREM TemporariesAreBounded == BackendSpec => []TempsBounded
<1>1. BackendInit => LeftInv
  BY LeftInit
<1>2. Inv /\ Inv' /\ LeftInv /\ [BackendNext]_backendVars => LeftInv'
  <2> SUFFICES ASSUME Inv, Inv', LeftInv, [BackendNext]_backendVars PROVE LeftInv'
    OBVIOUS
  <2>1. ASSUME UNCHANGED localVars PROVE LocalLeft'
    BY ZenonT(60), <2>1 DEF localVars, LeftInv, LocalLeft, Files
  <2>2. ASSUME UNCHANGED synthVars PROVE SynthLeft'
    BY <2>2 DEF synthVars, LeftInv, SynthLeft
  <2>3. CASE LocalNext /\ UNCHANGED synthVars
    BY <2>2, <2>3, LocalLeftStep DEF Inv, LeftInv
  <2>4. CASE Synthetic!SynthNext /\ UNCHANGED localVars
    BY <2>1, <2>4, SynthLeftStep DEF Inv, LeftInv
  <2>5. CASE UNCHANGED backendVars
    <3>1. UNCHANGED localVars /\ UNCHANGED synthVars
      BY ZenonT(60), <2>5 DEF backendVars, localVars, synthVars
    <3> QED
      BY ZenonT(60), <2>1, <2>2, <3>1 DEF LeftInv
  <2> QED
    BY <2>3, <2>4, <2>5 DEF BackendNext
<1>3. LeftInv => TempsBounded
  BY DEF LeftInv, LocalLeft, SynthLeft, TempsBounded, Files
<1> QED
  BY <1>1, <1>2, <1>3, BackendsInvariant, PTL DEF BackendSpec

-----------------------------------------------------------------------------
(***************************************************************************)
(* Every step of a backend is a step of the contract, or changes nothing   *)
(* that the contract speaks of.                                            *)
(***************************************************************************)
\* What the contract speaks of.
Object == IF kind = "local" THEN LocalObject ELSE Synthetic!verify
Busy   == IF kind = "local" THEN call.key ELSE doing.key

\* The steps of the contract in these terms.
LEMMA ContractSteps ==
    /\ Contract!ObjectInit <=> Object = [k \in Keys |-> "absent"] /\ Busy = NoKey
    /\ \A k \in Keys : Busy = NoKey /\ Busy' = k /\ Object' = Object => Contract!ObjectNext
    /\ Busy # NoKey /\ Object' = [Object EXCEPT ![Busy] = "absent"] /\ Busy' = Busy
         => Contract!ObjectNext
    /\ Busy # NoKey /\ Object' = [Object EXCEPT ![Busy] = "good"] /\ Busy' = NoKey
         => Contract!ObjectNext
    /\ Busy # NoKey /\ Busy' = NoKey /\ Object' = Object => Contract!ObjectNext
    /\ \A S \in SUBSET Keys :
         /\ Busy = NoKey /\ Busy' = Busy
         /\ Object' = [k \in Keys |-> IF k \in S THEN "absent" ELSE Object[k]]
         => Contract!ObjectNext
    /\ \A k \in Keys, s \in {"bad", "absent"} :
         Object[k] # "absent" /\ Object' = [Object EXCEPT ![k] = s] /\ Busy' = Busy
         => Contract!ObjectNext
BY ZenonT(60) DEF Contract!ObjectInit, Contract!ObjectNext, Contract!BeginWrite, Contract!DropOld,
       Contract!EndWrite, Contract!FailWrite, Contract!Remove, Contract!Damage,
       Contract!Set, Object, Busy

\* Every step of LocalBackend is a step of the object store or changes nothing in it.
LEMMA LocalRefines ==
    ASSUME LocalInv, LocalNext, kind = "local", kind' = "local"
    PROVE  Contract!ObjectNext \/ (Object' = Object /\ Busy' = Busy)
<1> USE BoundsHold DEF Bounds
<1>0. /\ Object = LocalObject /\ Object' = LocalObject'
      /\ Busy = call.key /\ Busy' = call'.key
      /\ LocalObject \in [Keys -> {"absent", "good", "bad"}]
  BY DEF Object, Busy, LocalInv, LocalTypes, LocalObject, FileStates
<1>1. ASSUME files' = files PROVE Object' = Object
  BY <1>0, <1>1 DEF LocalObject
<1>2. ASSUME NEW k \in Keys, NEW f \in FileStates, files' = [files EXCEPT ![k] = f]
      PROVE  Object' = [Object EXCEPT ![k] = IF f = "absent" THEN "absent"
                                             ELSE IF f = "whole" THEN "good" ELSE "bad"]
  BY <1>0, <1>2 DEF LocalObject, LocalInv, LocalTypes, FileStates
<1>3. ASSUME NEW k \in Keys, OpenTemp(k) PROVE Contract!ObjectNext
  <2>1. call.key = NoKey /\ call'.key = k /\ files' = files
    BY <1>3 DEF OpenTemp, At, LocalInv
  <2> QED
    BY <1>0, <1>1, <2>1, ContractSteps, ZenonT(60)
<1>4. ASSUME files' = files, call' = NoCall
      PROVE  Contract!ObjectNext \/ (Object' = Object /\ Busy' = Busy)
  <2>1. Busy' = NoKey
    BY ZenonT(60), <1>0, <1>4 DEF NoCall
  <2> QED
    BY <1>1, <1>4, <2>1, ContractSteps, ZenonT(60)
<1>5. CASE FailOpen \/ FailTemp \/ FailRename \/ NewProcess
  BY <1>4, <1>5 DEF FailOpen, FailTemp, FailRename, NewProcess, Throw
<1>6. CASE WriteTemp
  <2>1. files' = files /\ call'.key = call.key
    BY ZenonT(60), <1>6 DEF WriteTemp, Goto, LocalInv, LocalTypes
  <2> QED
    BY <1>0, <1>1, <2>1, ZenonT(60)
<1>7. CASE RemoveOld
  <2>1. call.key \in Keys /\ call'.key = call.key
    BY <1>7 DEF RemoveOld, At, Goto, LocalInv, LocalTypes
  <2>2. CASE files' = files
    BY <1>0, <1>1, <2>1, <2>2, ZenonT(60)
  <2>3. CASE files' = [files EXCEPT ![call.key] = "absent"]
    <3>1. Object' = [Object EXCEPT ![Busy] = "absent"] /\ Busy # NoKey /\ Busy' = Busy
      BY ZenonT(60), <1>0, <1>2, <2>1, <2>3 DEF FileStates
    <3> QED
      BY <3>1, ContractSteps, ZenonT(60)
  <2> QED
    BY <1>7, <2>2, <2>3 DEF RemoveOld
<1>8. CASE Rename
  <2>1. /\ call.key \in Keys /\ call'.key = NoKey
        /\ files' = [files EXCEPT ![call.key] = "whole"]
    BY ZenonT(60), <1>8 DEF Rename, At, NoCall, LocalInv, LocalTypes
  <2>2. Object' = [Object EXCEPT ![Busy] = "good"] /\ Busy # NoKey /\ Busy' = NoKey
    BY ZenonT(60), <1>0, <1>2, <2>1 DEF FileStates
  <2> QED
    BY <2>2, ContractSteps, ZenonT(60)
<1>9. ASSUME NEW k \in Keys, remove(k) PROVE Contract!ObjectNext
  <2>1. call.key = NoKey /\ call'.key = NoKey /\ files' = [files EXCEPT ![k] = "absent"]
    BY <1>9 DEF remove, At, LocalInv
  <2>2. Object' = [j \in Keys |-> IF j \in {k} THEN "absent" ELSE Object[j]]
    <3>1. Object' = [Object EXCEPT ![k] = "absent"]
      BY ZenonT(60), <1>2, <2>1 DEF FileStates
    <3> QED
      BY ZenonT(60), <1>0, <3>1
  <2>3. {k} \in SUBSET Keys /\ Busy = NoKey /\ Busy' = Busy
    BY <1>0, <2>1
  <2> QED
    BY <2>2, <2>3, ContractSteps, ZenonT(60)
<1>10. ASSUME NEW k \in Keys, LoseFile(k) PROVE Contract!ObjectNext
  <2>1. PICK f \in {"absent", "broken"} : files' = [files EXCEPT ![k] = f]
    BY ZenonT(60), <1>10 DEF LoseFile
  <2>2. files[k] = "whole" /\ call' = call
    BY <1>10 DEF LoseFile
  <2>3. Object[k] # "absent" /\ Busy' = Busy
    BY <1>0, <2>2 DEF LocalObject
  <2>4. CASE f = "absent"
    BY ZenonT(60), <1>2, <2>1, <2>3, <2>4, ContractSteps DEF FileStates
  <2>5. CASE f = "broken"
    <3>1. Object' = [Object EXCEPT ![k] = "bad"]
      BY ZenonT(60), <1>2, <2>1, <2>5 DEF FileStates
    <3> QED
      BY <2>3, <3>1, ContractSteps, ZenonT(60)
  <2> QED
    BY ZenonT(60), <2>4, <2>5
<1> QED
  BY ZenonT(60), <1>3, <1>5, <1>6, <1>7, <1>8, <1>9, <1>10 DEF LocalNext

\* Every step of SyntheticBackend is a step of the object store or changes nothing in it.
LEMMA SynthRefines ==
    ASSUME SynthInv, Synthetic!SynthNext, kind = "synthetic", kind' = "synthetic"
    PROVE  Contract!ObjectNext \/ (Object' = Object /\ Busy' = Busy)
<1> USE BoundsHold DEF Bounds
<1>0. /\ Object = Synthetic!verify /\ Object' = Synthetic!verify'
      /\ Busy = doing.key /\ Busy' = doing'.key
      /\ Synthetic!verify \in [Keys -> {"absent", "good", "bad"}]
  BY DEF Object, Busy, Synthetic!verify
<1>1. ASSUME objects' = objects, corrupt' = corrupt, missing' = missing
      PROVE  Object' = Object
  BY <1>0, <1>1 DEF Synthetic!verify
<1>2. ASSUME NEW k \in Keys, Synthetic!put_temp(k) PROVE Contract!ObjectNext
  <2>1. doing.key = NoKey /\ doing'.key = k /\ objects' = objects
        /\ corrupt' = corrupt /\ missing' = missing
    BY <1>2 DEF Synthetic!put_temp, Synthetic!flagVars, SynthInv
  <2> QED
    BY <1>0, <1>1, <2>1, ContractSteps, ZenonT(60)
<1>3. CASE Synthetic!commit_unavailable
  <2>1. doing.key # NoKey /\ doing'.key = NoKey /\ objects' = objects
        /\ corrupt' = corrupt /\ missing' = missing
    BY ZenonT(60), <1>3
    DEF Synthetic!commit_unavailable, Synthetic!flagVars, Synthetic!Nothing, SynthInv
  <2> QED
    BY <1>0, <1>1, <2>1, ContractSteps, ZenonT(60)
<1>4. CASE Synthetic!commit_checked
  <2>1. doing'.key = doing.key /\ objects' = objects
        /\ corrupt' = corrupt /\ missing' = missing
    BY <1>4 DEF Synthetic!commit_checked, Synthetic!flagVars, SynthInv, SynthTypes
  <2> QED
    BY <1>0, <1>1, <2>1, ZenonT(60)
<1>5. CASE Synthetic!commit
  <2>1. doing.key \in Keys /\ doing'.key = NoKey
    BY ZenonT(60), <1>5 DEF Synthetic!commit, Synthetic!Nothing, SynthInv, SynthTypes
  <2>2. Object' = [Object EXCEPT ![Busy] = "good"]
    BY ZenonT(60), <1>0, <1>5, <2>1 DEF Synthetic!commit, Synthetic!verify
  <2>3. Busy # NoKey /\ Busy' = NoKey
    BY <1>0, <2>1
  <2> QED
    BY <2>2, <2>3, ContractSteps, ZenonT(60)
<1>6. ASSUME NEW k \in Keys, Synthetic!erase(k) PROVE Contract!ObjectNext
  <2>1. doing.key = NoKey /\ doing' = doing
    BY <1>6 DEF Synthetic!erase, SynthInv
  <2>2. Object' = [j \in Keys |-> IF j \in {k} THEN "absent" ELSE Object[j]]
    BY <1>0, <1>6 DEF Synthetic!erase, Synthetic!flagVars, Synthetic!verify
  <2>3. {k} \in SUBSET Keys /\ Busy = NoKey /\ Busy' = Busy
    BY <1>0, <2>1
  <2> QED
    BY <2>2, <2>3, ContractSteps, ZenonT(60)
<1>7. CASE Synthetic!close
  <2>1. doing.key = NoKey /\ doing' = doing
    BY ZenonT(60), <1>7 DEF Synthetic!close, SynthInv
  <2>2. Object' = [j \in Keys |-> IF j \in Keys THEN "absent" ELSE Object[j]]
    BY <1>0, <1>7 DEF Synthetic!close, Synthetic!verify
  <2>3. Keys \in SUBSET Keys /\ Busy = NoKey /\ Busy' = Busy
    BY <1>0, <2>1
  <2> QED
    BY <2>2, <2>3, ContractSteps, ZenonT(60)
<1>8. ASSUME NEW b \in BOOLEAN, Synthetic!set_available(b)
      PROVE  Object' = Object /\ Busy' = Busy
  <2>1. doing' = doing /\ objects' = objects /\ corrupt' = corrupt /\ missing' = missing
    BY <1>8 DEF Synthetic!set_available, Synthetic!Switch, Synthetic!flagVars
  <2> QED
    BY <1>0, <1>1, <2>1, ZenonT(60)
<1>9. ASSUME NEW k \in Keys, Synthetic!set_corrupt(k)
      PROVE  Contract!ObjectNext \/ (Object' = Object /\ Busy' = Busy)
  <2>1. doing' = doing /\ objects' = objects /\ corrupt' = corrupt \cup {k} /\ missing' = missing
    BY <1>9 DEF Synthetic!set_corrupt, Synthetic!Switch
  <2>2. Busy' = Busy
    BY ZenonT(60), <1>0, <2>1
  <2>3. CASE Object[k] = "absent"
    BY ZenonT(60), <1>0, <2>1, <2>2, <2>3 DEF Synthetic!verify
  <2>4. CASE Object[k] # "absent"
    <3>1. Object' = [Object EXCEPT ![k] = "bad"]
      BY ZenonT(60), <1>0, <2>1, <2>4 DEF Synthetic!verify
    <3> QED
      BY <2>2, <2>4, <3>1, ContractSteps, ZenonT(60)
  <2> QED
    BY <2>3, <2>4
<1>10. ASSUME NEW k \in Keys, Synthetic!set_missing(k)
       PROVE  Contract!ObjectNext \/ (Object' = Object /\ Busy' = Busy)
  <2>1. doing' = doing /\ objects' = objects /\ corrupt' = corrupt /\ missing' = missing \cup {k}
    BY ZenonT(60), <1>10 DEF Synthetic!set_missing, Synthetic!Switch
  <2>2. Busy' = Busy
    BY ZenonT(60), <1>0, <2>1
  <2>3. CASE Object[k] = "absent"
    BY <1>0, <2>1, <2>2, <2>3 DEF Synthetic!verify
  <2>4. CASE Object[k] # "absent"
    <3>1. Object' = [Object EXCEPT ![k] = "absent"]
      BY <1>0, <2>1, <2>4 DEF Synthetic!verify
    <3> QED
      BY <2>2, <2>4, <3>1, ContractSteps, ZenonT(60)
  <2> QED
    BY <2>3, <2>4
<1> QED
  BY ZenonT(60), <1>2, <1>3, <1>4, <1>5, <1>6, <1>7, <1>8, <1>9, <1>10 DEF Synthetic!SynthNext

\* Whichever backend is registered, what the store sees of it is a behaviour of
\* module ObjectStore: the assumptions that module Store makes about put_temp,
\* commit, remove and damage hold of both implementations.
THEOREM BackendsImplementObjectStore == BackendSpec => ImplementsObjectStore
<1>1. BackendInit => Contract!ObjectInit
  BY ContractSteps DEF BackendInit, LocalInit, Synthetic!SynthInit, NoCall, Synthetic!Nothing,
                       Object, Busy, LocalObject, Synthetic!verify
<1>2. Inv /\ [BackendNext]_backendVars => Contract!ObjectNext \/ (Object' = Object /\ Busy' = Busy)
  <2> SUFFICES ASSUME Inv, [BackendNext]_backendVars
               PROVE  Contract!ObjectNext \/ (Object' = Object /\ Busy' = Busy)
    OBVIOUS
  <2>1. CASE kind = "local" /\ LocalNext /\ UNCHANGED kind
    BY <2>1, LocalRefines DEF Inv
  <2>2. CASE kind = "synthetic" /\ Synthetic!SynthNext /\ UNCHANGED kind
    BY <2>2, SynthRefines DEF Inv
  <2>3. CASE UNCHANGED backendVars
    BY <2>3 DEF backendVars, localVars, synthVars, Object, Busy, LocalObject, Synthetic!verify
  <2> QED
    BY <2>1, <2>2, <2>3 DEF BackendNext
<1>3. Inv /\ [BackendNext]_backendVars =>
        [Contract!ObjectNext]_<<IF kind = "local" THEN LocalObject ELSE Synthetic!verify,
                                IF kind = "local" THEN call.key ELSE doing.key>>
  BY <1>2 DEF Object, Busy
<1> QED
  BY <1>1, <1>3, BackendsInvariant, PTL DEF BackendSpec, ImplementsObjectStore,
     Contract!ObjectSpec
=============================================================================
