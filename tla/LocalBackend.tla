---------------------------- MODULE LocalBackend ----------------------------
(***************************************************************************)
(* The local filesystem backend (src/local_backend.cpp), file operation by *)
(* file operation, as the store calls it: put_temp followed by commit, and *)
(* remove, one call at a time under the store's mutex.                     *)
(*                                                                         *)
(* A temporary file is named by its key and a sequence number that starts  *)
(* again with every process, so that a new process can meet the temporary  *)
(* files of an earlier one.                                                *)
(***************************************************************************)
EXTENDS Naturals, FiniteSets

CONSTANTS
    Keys, NoKey,
    MaxSeq,         \* bound: put_temp calls of one process
    MaxIoErrors,    \* bound: file operations that fail
    MaxDeaths,      \* bound: ends of the process
    MaxLosses       \* bound: objects damaged behind the backend's back

VARIABLES
    files,     \* the object files: "absent", "whole" or "broken"
    temps,     \* the temporary files, by key and number
    staged,    \* staged_: the number of the temporary file, 0 if there is none
    seq,       \* seq_
    call,      \* the step the write in progress has reached, and its key
    ioErrors, deaths, losses

localVars == <<files, temps, staged, seq, call, ioErrors, deaths, losses>>
counters  == <<ioErrors, deaths, losses>>

FileStates == {"absent", "whole", "broken"}
NoCall == [step |-> "none", key |-> NoKey]
At(step) == call.step = step
Goto(step) == call' = [call EXCEPT !.step = step]

LocalInit ==
    /\ files = [k \in Keys |-> "absent"]
    /\ temps = [n \in Keys \X (1..MaxSeq) |-> "absent"]
    /\ staged = [k \in Keys |-> 0] /\ seq = 0 /\ call = NoCall
    /\ ioErrors = 0 /\ deaths = 0 /\ losses = 0

\* A file operation of the write in progress fails: the call throws.
Throw ==
    /\ ioErrors < MaxIoErrors
    /\ ioErrors' = ioErrors + 1
    /\ call' = NoCall
    /\ UNCHANGED <<deaths, losses>>

temp_path == <<call.key, seq>>

-----------------------------------------------------------------------------
(***************************************************************************)
(* put_temp.                                                               *)
(***************************************************************************)
\* The temporary file is truncated if it is there.
OpenTemp(k) ==
    /\ At("none") /\ seq < MaxSeq
    /\ seq' = seq + 1
    /\ temps' = [temps EXCEPT ![<<k, seq + 1>>] = "broken"]
    /\ call' = [step |-> "write", key |-> k]
    /\ UNCHANGED <<files, staged, counters>>

\* The number is used up all the same.
FailOpen ==
    /\ At("none") /\ seq < MaxSeq
    /\ seq' = seq + 1
    /\ Throw
    /\ UNCHANGED <<files, temps, staged>>

\* Mutant: the file is not entered in staged_.
WriteTemp_NotStaged ==
    /\ At("write")
    /\ temps' = [temps EXCEPT ![temp_path] = "whole"]
    /\ Goto("lookup")
    /\ UNCHANGED <<files, staged, seq, counters>>

WriteTemp ==
    /\ At("write")
    /\ temps' = [temps EXCEPT ![temp_path] = "whole"]
    /\ staged' = [staged EXCEPT ![call.key] = seq]
    /\ Goto("lookup")
    /\ UNCHANGED <<files, seq, counters>>

\* The file stays, incomplete and not staged.
FailTemp ==
    /\ At("write")
    /\ Throw
    /\ UNCHANGED <<files, temps, staged, seq>>

-----------------------------------------------------------------------------
(***************************************************************************)
(* commit.                                                                 *)
(***************************************************************************)
\* The error of remove is ignored.
RemoveOld ==
    /\ At("lookup")
    /\ files' \in {[files EXCEPT ![call.key] = "absent"], files}
    /\ Goto("rename")
    /\ UNCHANGED <<temps, staged, seq, counters>>

\* Mutant: the temporary file is copied.
Rename_Copy ==
    /\ At("rename")
    /\ files' = [files EXCEPT ![call.key] = temps[<<call.key, staged[call.key]>>]]
    /\ staged' = [staged EXCEPT ![call.key] = 0]
    /\ call' = NoCall
    /\ UNCHANGED <<temps, seq, counters>>

\* Mutant: the entry stays in staged_.
Rename_KeepsStaged ==
    /\ At("rename")
    /\ files' = [files EXCEPT ![call.key] = temps[<<call.key, staged[call.key]>>]]
    /\ temps' = [temps EXCEPT ![<<call.key, staged[call.key]>>] = "absent"]
    /\ call' = NoCall
    /\ UNCHANGED <<staged, seq, counters>>

Rename ==
    /\ At("rename")
    /\ files' = [files EXCEPT ![call.key] = temps[<<call.key, staged[call.key]>>]]
    /\ temps' = [temps EXCEPT ![<<call.key, staged[call.key]>>] = "absent"]
    /\ staged' = [staged EXCEPT ![call.key] = 0]
    /\ call' = NoCall
    /\ UNCHANGED <<seq, counters>>

\* The old file is gone already; the temporary file and its entry stay.
FailRename ==
    /\ At("rename")
    /\ Throw
    /\ UNCHANGED <<files, temps, staged, seq>>

-----------------------------------------------------------------------------
\* IBackend::remove.
remove(k) ==
    /\ At("none")
    /\ files' = [files EXCEPT ![k] = "absent"]
    /\ UNCHANGED <<temps, staged, seq, call, counters>>

\* The process ends at any point and another one is started on the same root.
NewProcess ==
    /\ deaths < MaxDeaths
    /\ deaths' = deaths + 1
    /\ staged' = [k \in Keys |-> 0] /\ seq' = 0 /\ call' = NoCall
    /\ UNCHANGED <<files, temps, ioErrors, losses>>

LoseFile(k) ==
    /\ losses < MaxLosses
    /\ losses' = losses + 1
    /\ files[k] = "whole"
    /\ files' \in {[files EXCEPT ![k] = s] : s \in {"absent", "broken"}}
    /\ UNCHANGED <<temps, staged, seq, call, ioErrors, deaths>>

LocalNext ==
    \/ \E k \in Keys : OpenTemp(k) \/ remove(k) \/ LoseFile(k)
    \/ FailOpen \/ WriteTemp \/ FailTemp \/ RemoveOld \/ Rename \/ FailRename \/ NewProcess

\* What verify finds under each key.
LocalObject ==
    [k \in Keys |-> CASE files[k] = "absent" -> "absent"
                      [] files[k] = "whole"  -> "good"
                      [] files[k] = "broken" -> "bad"]
=============================================================================
