---------------------------- MODULE Coordinator ----------------------------
(***************************************************************************)
(* The coordinator process and its workers (tools/coordinator.cpp,         *)
(* tools/worker.cpp).                                                      *)
(*                                                                         *)
(* A worker is a process that connects, sends at most one request, waits   *)
(* for the reply and exits.  The coordinator is one thread: it accepts one *)
(* connection at a time and serves it until the worker closes it.  Boot id *)
(* and epoch of a request are the ones its operator put on the worker's    *)
(* command line.  Of the store the module keeps what authority depends on: *)
(* its boot id.  How a request travels is in module Service.               *)
(***************************************************************************)
EXTENDS Naturals, Sequences, FiniteSets

CONSTANTS
    Workers,       \* worker processes that can exist at one time
    Boots,         \* boot ids operators give to workers
    Kinds,         \* commands operators use
    Backlog,       \* the listen backlog
    MaxEpoch,      \* bound: the highest epoch
    MaxRestarts    \* bound: restarts of the coordinator

Mutating == {"publish", "retire", "gc"}

ASSUME CoordinatorAssumption ==
    /\ Boots \subseteq Nat \ {0}
    /\ Kinds \subseteq Mutating \cup {"register", "restore", "advance", "retain", "save",
                                    "family", "verify"}
    /\ IsFiniteSet(Workers) /\ "none" \notin Workers
    /\ Backlog \in Nat \ {0} /\ MaxEpoch \in Nat \ {0} /\ MaxRestarts \in Nat

VARIABLES
    epoch, active, roster,   \* epoch_, active_boot_, roster_
    storeBoot,               \* options_.boot_id of the store
    image,                   \* the boot id in the state file, or NoImage
    queue,                   \* connections the listening socket holds
    conn,                    \* the connection being served
    worker,                  \* what each worker process is doing
    restarts,
    last,                    \* history: authority of the last accepted write
    restored                 \* history: authority of the last accepted restore

authVars  == <<epoch, active, roster>>
netVars   == <<queue, conn, worker>>
histVars  == <<last, restored>>
vars == <<authVars, storeBoot, image, netVars, restarts, histVars>>

coordinator_boot == 0     \* 0xEEEE: a boot id no worker has
NoConn   == "none"
NoImage  == [saved |-> FALSE, boot |-> 0]
Nobody   == [boot |-> 0, epoch |-> 0, run |-> 0]

Request(k, b, e) == [kind |-> k, boot |-> b, epoch |-> e]
NoRequest == Request("none", 0, 0)
Requests ==
    {Request(k, b, e) : k \in Kinds \cap (Mutating \cup {"restore"}), b \in Boots, e \in 1..MaxEpoch}
    \cup {Request(k, b, 0) : k \in Kinds \cap {"register"}, b \in Boots}
    \cup {Request(k, 0, 0) : k \in Kinds \cap {"advance", "save", "retain", "family", "verify"}}

\* step: "sent" from the request until the reply, then "exiting"; "orphan" when
\* the process was killed and its request is still on the way.
Off     == [step |-> "off", req |-> NoRequest]
Exiting == [step |-> "exiting", req |-> NoRequest]

Init ==
    /\ epoch = 1 /\ active = 0 /\ roster = {}
    /\ storeBoot = coordinator_boot /\ image = NoImage
    /\ queue = <<>> /\ conn = NoConn /\ worker = [w \in Workers |-> Off]
    /\ restarts = 0
    /\ last = Nobody /\ restored = Nobody

-----------------------------------------------------------------------------
(***************************************************************************)
(* Worker processes.                                                       *)
(***************************************************************************)
\* Connect and send, with whatever epoch the operator chose.  hold is a
\* register that takes an hour to exit.
Start(w, r) ==
    /\ worker[w].step = "off"
    /\ Len(queue) < Backlog
    /\ \A i \in DOMAIN queue : queue[i] # w
    /\ conn # w
    /\ r.kind = "advance" =>
          epoch + Cardinality({x \in Workers : worker[x].req.kind = "advance"}) < MaxEpoch
    /\ worker' = [worker EXCEPT ![w] =
                    [step |-> "sent", req |-> r]]
    /\ queue' = Append(queue, w)
    /\ UNCHANGED <<authVars, storeBoot, image, conn, restarts, histVars>>

\* The process has its reply, or never wanted one, and exits.
Exit(w) ==
    /\ worker[w].step = "exiting"
    /\ worker' = [worker EXCEPT ![w] = Off]
    /\ UNCHANGED <<authVars, storeBoot, image, queue, conn, restarts, histVars>>

\* The process is killed.  A request that it has sent can still arrive, and
\* then the reply goes nowhere.
Kill(w) ==
    /\ worker[w].step \in {"sent", "exiting"}
    /\ \E step \in {"off", IF worker[w].step = "sent" THEN "orphan" ELSE "off"} :
          worker' = [worker EXCEPT ![w] =
                       IF step = "off" THEN Off ELSE [@ EXCEPT !.step = step]]
    /\ UNCHANGED <<authVars, storeBoot, image, queue, conn, restarts, histVars>>

-----------------------------------------------------------------------------
(***************************************************************************)
(* The coordinator's loop.                                                 *)
(***************************************************************************)
Accept ==
    /\ conn = NoConn
    /\ queue # <<>>
    /\ conn' = Head(queue)
    /\ queue' = Tail(queue)
    /\ UNCHANGED <<authVars, storeBoot, image, worker, restarts, histVars>>

\* read_exact fails: the peer has closed.
Close ==
    /\ conn # NoConn
    /\ worker[conn].step = "off"
    /\ conn' = NoConn
    /\ UNCHANGED <<authVars, storeBoot, image, queue, worker, restarts, histVars>>

\* Mutant: a stale epoch may still write.
publish_authority_ok_AnyEpoch(r) == r.boot = active

publish_authority_ok(r) == r.boot = active /\ r.epoch = epoch

\* Mutant: a registered boot may restore under an earlier epoch.
restore_authority_ok_AnyEpoch(r) == r.boot \in roster

restore_authority_ok(r) == r.epoch = epoch /\ r.boot \in roster

\* Mutant: the store is not told.
RegisterBackend_StoreNotTold(r) ==
    /\ r.kind = "register"
    /\ roster' = roster \cup {r.boot}
    /\ active' = IF active = 0 THEN r.boot ELSE active
    /\ UNCHANGED <<epoch, storeBoot, image, histVars>>

\* Mutant: the roster lists only boots that came while another was active.
RegisterBackend_OthersOnly(r) ==
    /\ r.kind = "register"
    /\ roster' = IF active # 0 THEN roster \cup {r.boot} ELSE roster
    /\ active' = IF active = 0 THEN r.boot ELSE active
    /\ storeBoot' = IF active = 0 THEN r.boot ELSE storeBoot
    /\ UNCHANGED <<epoch, image, histVars>>

\* revoked_ is never filled, so that it excludes no one.
RegisterBackend(r) ==
    /\ r.kind = "register"
    /\ roster' = roster \cup {r.boot}
    /\ active' = IF active = 0 THEN r.boot ELSE active
    /\ storeBoot' = IF active = 0 THEN r.boot ELSE storeBoot
    /\ UNCHANGED <<epoch, image, histVars>>

\* The authority that request r was accepted under, by this run of the process.
Granted(r) == [boot |-> r.boot, epoch |-> r.epoch, run |-> restarts]

\* publish, retire and gc under the same check.
Write(r) ==
    /\ r.kind \in Mutating
    /\ last' = IF publish_authority_ok(r) THEN Granted(r) ELSE last
    /\ UNCHANGED <<authVars, storeBoot, image, restored>>

Restore(r) ==
    /\ r.kind = "restore"
    /\ restored' = IF restore_authority_ok(r) THEN Granted(r) ELSE restored
    /\ UNCHANGED <<authVars, storeBoot, image, last>>

\* Calls that need no authority and change nothing it depends on.
Other(r) ==
    /\ r.kind \in {"family", "verify", "retain"}
    /\ UNCHANGED <<authVars, storeBoot, image, histVars>>

AdvanceEpoch(r) ==
    /\ r.kind = "advance"
    /\ epoch' = epoch + 1
    /\ active' = 0
    /\ UNCHANGED <<roster, storeBoot, image, histVars>>

Save(r) ==
    /\ r.kind = "save"
    /\ image' = [saved |-> TRUE, boot |-> storeBoot]
    /\ UNCHANGED <<authVars, storeBoot, histVars>>

\* One request is read, carried out and answered.
Dispatch ==
    /\ conn # NoConn
    /\ worker[conn].step \in {"sent", "orphan"}
    /\ LET r == worker[conn].req IN
          \/ RegisterBackend(r) \/ Write(r) \/ Restore(r) \/ Other(r)
          \/ AdvanceEpoch(r) \/ Save(r)
    /\ worker' = [worker EXCEPT ![conn] =
                    IF @.step = "sent" THEN Exiting ELSE Off]
    /\ UNCHANGED <<queue, conn, restarts>>

\* The coordinator dies and is started again: connections are gone, the store
\* is loaded, and epoch_, active_boot_ and roster_ have their initial values.
Restart ==
    /\ restarts < MaxRestarts
    /\ restarts' = restarts + 1
    /\ epoch' = 1 /\ active' = 0 /\ roster' = {}
    /\ storeBoot' = IF image.saved THEN image.boot ELSE coordinator_boot
    /\ queue' = <<>> /\ conn' = NoConn
    /\ worker' = [w \in Workers |-> Off]
    /\ UNCHANGED <<image, histVars>>

Next ==
    \/ \E w \in Workers, r \in Requests : Start(w, r)
    \/ \E w \in Workers : Exit(w) \/ Kill(w)
    \/ Accept \/ Close \/ Dispatch
    \/ Restart

Spec == Init /\ [][Next]_vars

-----------------------------------------------------------------------------
(***************************************************************************)
(* Properties.                                                             *)
(***************************************************************************)
Authority == [boot : Boots \cup {0}, epoch : 0..MaxEpoch, run : 0..MaxRestarts]

\* Every variable has its type, and no connection is in two places.
TypeOK ==
    /\ epoch \in 1..MaxEpoch
    /\ active \in roster \cup {0} /\ roster \subseteq Boots
    /\ storeBoot \in Boots \cup {0} /\ image \in [saved : BOOLEAN, boot : Boots \cup {0}]
    /\ queue \in Seq(Workers) /\ Len(queue) <= Backlog
    /\ conn \in Workers \cup {NoConn}
    /\ \A i, j \in DOMAIN queue : queue[i] # conn /\ (queue[i] = queue[j] => i = j)
    /\ worker \in [Workers -> [step : {"off", "sent", "exiting", "orphan"},
                               req : Requests \cup {NoRequest}]]
    /\ restarts \in 0..MaxRestarts
    /\ last \in Authority /\ restored \in Authority

\* The writes that one run of the coordinator accepts never go back to an earlier
\* epoch, and within one epoch they come from one boot: requests that were sent
\* under authority since revoked are refused, however late they arrive.
\* README.md: "a worker cannot publish or restore under a stale boot or a
\* stale epoch".
WritesFenced ==
    [][last' # last /\ last'.run = last.run => last'.epoch > last.epoch]_vars

\* A restore is never accepted under an epoch older than one in which the same
\* run of the coordinator accepted a restore or a write, and only from a boot
\* that has registered with this run.
\* README.md: "A stale boot cannot restore or publish a fresh result".
RestoresFenced ==
    [][restored' # restored =>
         /\ restored'.run = restored.run => restored'.epoch >= restored.epoch
         /\ restored'.run = last.run => restored'.epoch >= last.epoch
         /\ restored'.boot \in roster]_vars

\* The boot that the coordinator lets write is the one the store accepts, also
\* after a restart that loaded the boot of another incarnation.
ActiveIsStoreBoot == active # 0 => storeBoot = active

\* README.md: "A stale replay is rejected".  Accepted writes never go back to an
\* earlier epoch, whichever run of the coordinator accepts them.  The epoch is
\* not saved, so that it begins at 1 again in the next run.
EpochsNeverReturn == [][last'.epoch >= last.epoch]_vars
=============================================================================
