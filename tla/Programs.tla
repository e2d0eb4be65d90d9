------------------------------ MODULE Programs ------------------------------
(***************************************************************************)
(* The programs that use the store: the command line tool (cli/cli.cpp),   *)
(* one command per process, and the coordinator (tools/coordinator.cpp),   *)
(* one request after the other in one process.  Both keep their data in    *)
(* the same files under one root; here one process runs at a time.         *)
(*                                                                         *)
(* A command is a script of calls to the store.  A call that throws ends   *)
(* it: the tool exits with 1 and does not save, the coordinator sends a    *)
(* Nack and goes on.                                                       *)
(***************************************************************************)
EXTENDS Recovery

CONSTANTS
    CliCommands,          \* commands operators give
    CoordinatorRequests,  \* requests workers send
    MaxRequests,          \* bound: requests that reach one coordinator
    MaxProcesses          \* bound: processes that end by themselves

\* The commands and requests are those that the programs know.  What they ask
\* of the store is among what its clients ask: any checkpoint can be named, a
\* descriptor keeps its defaults, the coordinator's policy has the id 1, and no
\* policy of theirs protects a whole family.
ASSUME ProgramsAssumption ==
    /\ MaxRequests \in Nat /\ MaxProcesses \in Nat
    /\ CliCommands \subseteq
         {"family-create", "checkpoint-create", "simulate", "benchmark", "retain", "retire",
          "gc-plan", "gc-run", "verify", "restore", "save", "recover"}
    /\ CoordinatorRequests \subseteq
         {"register", "family", "publish", "verify", "restore", "retire", "gc", "retain", "save"}
    /\ "keep_latest_n" \in RetentionClasses /\ {} \in Lineages /\ 1 \in ReplicaCounts
    /\ 1 \in PolicyIds /\ Probed = Ids
    /\ \A t \in PolicyTerms : ~ t.policy_protected

VARIABLES
    prog,      \* "cli" or "coordinator": the process that runs
    asked,     \* commands or requests that it was given
    todo,      \* the calls that the command has yet to make
    target,    \* the checkpoint the command is about
    failed,    \* has a call thrown?
    ended,     \* processes that have ended by themselves
    acked      \* history: the checkpoints commands that exited with 0 were about

progVars == <<prog, asked, todo, target, failed, ended, acked>>
allProgVars == <<allVars, progVars>>

\* Mutant: checkpoint-create does not save.
CliScript_CreateUnsaved(cmd) ==
    CASE cmd = "family-create"     -> <<"family", "save">>
      [] cmd = "checkpoint-create" -> <<"describe", "publish">>
      [] cmd = "simulate"          -> <<"family", "describe own", "publish", "save">>
      [] cmd = "benchmark"         -> <<"family", "describe own", "publish", "restore", "save">>
      [] cmd \in {"retain", "retire"} -> <<cmd, "save">>
      [] cmd = "gc-plan"           -> <<"plan">>
      [] cmd = "gc-run"            -> <<"plan", "run", "save">>
      [] OTHER                     -> <<cmd>>

\* Mutant: gc-run does not make a plan first.
CliScript_GcUnplanned(cmd) ==
    CASE cmd = "family-create"     -> <<"family", "save">>
      [] cmd = "checkpoint-create" -> <<"describe", "publish", "save">>
      [] cmd = "simulate"          -> <<"family", "describe own", "publish", "save">>
      [] cmd = "benchmark"         -> <<"family", "describe own", "publish", "restore", "save">>
      [] cmd \in {"retain", "retire"} -> <<cmd, "save">>
      [] cmd = "gc-plan"           -> <<"plan">>
      [] cmd = "gc-run"            -> <<"run", "save">>
      [] OTHER                     -> <<cmd>>

\* save, verify and restore are one call each; recover verifies a second store
\* that it loads from the same file and then drops.  The commands that only show
\* something make no call that changes the store.
CliScript(cmd) ==
    CASE cmd = "family-create"     -> <<"family", "save">>
      [] cmd = "checkpoint-create" -> <<"describe", "publish", "save">>
      [] cmd = "simulate"          -> <<"family", "describe own", "publish", "save">>
      [] cmd = "benchmark"         -> <<"family", "describe own", "publish", "restore", "save">>
      [] cmd \in {"retain", "retire"} -> <<cmd, "save">>
      [] cmd = "gc-plan"           -> <<"plan">>
      [] cmd = "gc-run"            -> <<"plan", "run", "save">>
      [] OTHER                     -> <<cmd>>

\* A first register gives the store its boot.  Authority is in module
\* Coordinator: a request that it refuses makes no call at all.
dispatch(req) ==
    CASE req = "register" -> <<"boot", "reset">>
      [] req = "publish"  -> <<"describe", "publish">>
      [] req = "gc"       -> <<"plan", "run">>
      [] OTHER            -> <<req>>

ProgInit ==
    /\ RecInit
    /\ prog \in {"cli", "coordinator"} /\ asked = 0
    /\ todo = <<>> /\ target = 0 /\ failed = FALSE /\ ended = 0 /\ acked = {}

-----------------------------------------------------------------------------
(***************************************************************************)
(* Commands.                                                               *)
(***************************************************************************)
\* The bounds of the model leave room for what the script makes.
Fits(script) ==
    \A i \in DOMAIN script :
        /\ script[i] \in {"describe", "describe own"} => nextId \in Ids
        /\ script[i] = "family" => nextFamily \in FamilyIds

\* Some commands name a checkpoint, also one that does not exist.
Begin(script) ==
    /\ todo = <<>> /\ Fits(script)
    /\ todo' = script /\ failed' = FALSE /\ asked' = asked + 1
    /\ target' \in IF Head(script) \in {"retire", "verify", "restore"} THEN Ids ELSE {0}
    /\ UNCHANGED <<allVars, prog, ended, acked>>

Command(cmd) == prog = "cli" /\ asked = 0 /\ Begin(CliScript(cmd))

Request(req) == prog = "coordinator" /\ asked < MaxRequests /\ Begin(dispatch(req))

Call(name) == todo # <<>> /\ Head(todo) = name

\* The call in progress returns, or throws.
Returns == todo' = Tail(todo) /\ UNCHANGED <<prog, asked, target, failed, ended, acked>>
Throws  == todo' = <<>> /\ failed' = TRUE /\ UNCHANGED <<prog, asked, target, ended, acked>>

\* The calls that return at once.  The coordinator puts every family's policy
\* under the id 1; the tool's user may choose another one.
SimpleCall ==
    /\ \/ Call("family") /\ create_family
       \/ Call("boot") /\ \E b \in Boots : set_authority_boot(b)
       \/ Call("reset") /\ reset_authority
       \/ Call("retain") /\ \E p \in IF prog = "cli" THEN PolicyIds ELSE {1} :
                             \E f \in FamilyIds, t \in PolicyTerms : set_retention_policy(p, f, t)
       \/ Call("retire") /\ retire(target)
       \/ Call("plan") /\ gc_plan
       \/ Call("run") /\ gc_run
       \/ Call("verify") /\ verify_checkpoint(target)
       \/ Call("restore") /\ restore(target) /\ integ'[target] = "verified"
       \/ Call("recover") /\ UNCHANGED vars
    /\ InMemory
    /\ Returns

\* An unknown family, a checkpoint that is not committed or not there, chunks
\* that cannot be read.
RefusedCall ==
    /\ \/ Call("describe") /\ \E f \in FamilyIds : nextGen[f] = 0
       \/ Call("retire") /\ life[target] # "committed"
       \/ Call("verify") /\ target \notin Existing
       \/ Call("restore") /\ target \notin Live
    /\ UNCHANGED allVars
    /\ Throws

FailedRestore ==
    /\ Call("restore") /\ restore(target) /\ integ'[target] # "verified"
    /\ InMemory
    /\ Throws

\* The family is a parameter, or the one that the command has just created;
\* class and replica count are the defaults of a descriptor.
Describe ==
    /\ \E f \in FamilyIds :
          /\ Call("describe") \/ (Call("describe own") /\ f = nextFamily - 1)
          /\ make_full_descriptor(f, "keep_latest_n", {}, 1)
    /\ InMemory
    /\ target' = nextId /\ todo' = Tail(todo)
    /\ UNCHANGED <<prog, asked, failed, ended, acked>>

\* publish begins; the steps of publish; publish returns or has thrown.
StartPublish ==
    /\ Call("publish")
    /\ \E data \in Contents : publish(target, data)
    /\ InMemory
    /\ todo' = <<"publishing">> \o Tail(todo)
    /\ UNCHANGED <<prog, asked, target, failed, ended, acked>>

PublishStep ==
    /\ ReuseChunk \/ MissChunk \/ WriteChunk \/ FailWrite \/ FailReadBack \/ Commit
    /\ InMemory
    /\ UNCHANGED progVars

\* Mutant: the answer does not wait for publish to return.
EndPublish_Early ==
    /\ Call("publishing")
    /\ IF MutexFree /\ target \notin Existing THEN Throws ELSE Returns
    /\ UNCHANGED allVars

EndPublish ==
    /\ Call("publishing") /\ MutexFree
    /\ IF target \in Existing THEN Returns ELSE Throws
    /\ UNCHANGED allVars

SaveStep ==
    /\ Call("save")
    /\ WriteTemp \/ RemoveOld
    /\ UNCHANGED progVars

EndSave ==
    /\ Call("save")
    /\ Rename
    /\ IF image' = Snapshot THEN Returns ELSE Throws

-----------------------------------------------------------------------------
(***************************************************************************)
(* Processes.                                                              *)
(***************************************************************************)
\* What is acknowledged is forgotten when the state file is.
Remembered == {a \in acked : image.saved}

\* The tool exits, or the coordinator is stopped, and another process starts.
Exit ==
    /\ ended < MaxProcesses
    /\ todo = <<>>
    /\ prog = "cli" => asked = 1
    /\ ended' = ended + 1
    /\ NewProcess
    /\ acked' = Remembered \cup
                  IF prog = "cli" /\ ~ failed /\ target \in Existing
                  THEN {[id |-> target, data |-> chunks[target]]} ELSE {}
    /\ prog' \in {"cli", "coordinator"} /\ asked' = 0
    /\ target' = 0 /\ failed' = FALSE
    /\ UNCHANGED <<disk, crashes, todo>>

Die ==
    /\ Crash
    /\ acked' = Remembered
    /\ prog' \in {"cli", "coordinator"} /\ asked' = 0
    /\ todo' = <<>> /\ target' = 0 /\ failed' = FALSE
    /\ UNCHANGED ended

Calls == \/ SimpleCall \/ RefusedCall \/ FailedRestore \/ Describe
         \/ StartPublish \/ PublishStep \/ EndPublish \/ SaveStep \/ EndSave

ProgNext ==
    \/ \E cmd \in CliCommands : Command(cmd)
    \/ \E req \in CoordinatorRequests : Request(req)
    \/ Calls \/ Exit \/ Die
    \/ Environment /\ InMemory /\ UNCHANGED progVars

ProgSpec == ProgInit /\ [][ProgNext]_allProgVars

\* A program goes on with its calls.
FairProgSpec == ProgSpec /\ WF_allProgVars(Calls)

-----------------------------------------------------------------------------
(***************************************************************************)
(* Properties.                                                             *)
(***************************************************************************)
\* The variables have their types, and the store is inside publish or
\* save_state only when the command under way is.
ProgTypeOK ==
    /\ RecTypeOK
    /\ prog \in {"cli", "coordinator"} /\ asked \in Nat /\ failed \in BOOLEAN
    /\ target \in 0..MaxIds /\ ended \in 0..MaxProcesses
    /\ ~ MutexFree => Call("publishing")
    /\ saving # "no" => Call("save")

\* The descriptor that a command or a request makes passes all checks of the
\* publish that follows, whatever earlier processes saved, lost or repeated:
\* a publish of these programs fails only in the backend.
DescribedIsAdmitted == Call("publish") => Admitted(target)

\* While there is a state file, it has the record, with the same stream, of
\* every checkpoint that a command which exited with 0 published, retired,
\* verified or restored, whichever processes ran, failed and died since.
AcknowledgedKept ==
    image.saved => \A a \in acked : /\ image.records.life[a.id] # "none"
                                    /\ image.records.chunks[a.id] = a.data

\* As long as the backend has not failed, whichever process runs can restore
\* what was acknowledged: its store has the record, with the same stream, and the
\* backend has every chunk, unless a collection has swept the checkpoint.
AcknowledgedRestorable ==
    \A a \in acked : /\ a.id \in Existing /\ chunks[a.id] = a.data
                     /\ faults = 0 /\ a.id \in Live \ swept =>
                          \A d \in ChunksOf(a.id) : disk[d] = "good"

\* A garbage collection, planned and run by one command, leaves a blob record
\* only for chunks of live checkpoints, as long as the backend has not failed:
\* restarts and loads leak no references.
GcLeavesNoGarbage ==
    [][Call("run") /\ crashes' = crashes /\ faults' = 0 =>
         blobs' \subseteq compute_reachable(Live)']_allProgVars

\* Every command and every request comes to an end: it returns, throws, or
\* dies with its process.
CommandsEnd == todo # <<>> ~> todo = <<>>
=============================================================================
