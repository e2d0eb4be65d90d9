------------------------------ MODULE Durable ------------------------------
(***************************************************************************)
(* What the store promises its clients about restarts (README.md,          *)
(* "Persistence and recovery"; save_state and load_state of                *)
(* src/persistence.cpp): a catalogue in memory and a copy of it in a file, *)
(* with no id counter, no generations, no backend and no references.       *)
(***************************************************************************)
EXTENDS Naturals

CONSTANT Ids   \* checkpoint ids

VARIABLES
    memory,   \* the running process: the entry of each id
    file,     \* the state file
    busy      \* is a save under way?

NoEntry == [life |-> "none"]
NoFile  == [saved |-> FALSE]
Empty   == [c \in Ids |-> NoEntry]

DurableInit == memory = Empty /\ file = NoFile /\ busy = FALSE

\* An id that has no entry gets one.
Publish(c) ==
    /\ ~ busy
    /\ memory[c] = NoEntry
    /\ memory'[c].life = "committed"
    /\ memory' = [memory EXCEPT ![c] = memory'[c]]
    /\ UNCHANGED <<file, busy>>

\* Entries change in no other way than this: they are retired, or deleted.
Change(S, from, to) ==
    /\ ~ busy
    /\ \A c \in S : memory[c].life \in from
    /\ memory' = [c \in Ids |-> IF c \in S THEN [memory[c] EXCEPT !.life = to] ELSE memory[c]]
    /\ UNCHANGED <<file, busy>>

\* The file may be gone until the save is over.
BeginSave == ~ busy /\ busy' = TRUE /\ UNCHANGED <<memory, file>>
DropOld   == busy /\ file' = NoFile /\ UNCHANGED <<memory, busy>>
EndSave   == /\ busy /\ busy' = FALSE
             /\ file' \in {file, [saved |-> TRUE, entries |-> memory]}
             /\ UNCHANGED memory

\* The process ends, at any point, and the next one has what the file has.
Restart ==
    /\ memory' = IF file.saved THEN file.entries ELSE Empty
    /\ busy' = FALSE
    /\ UNCHANGED file

DurableNext ==
    \/ \E c \in Ids : Publish(c)
    \/ \E S \in SUBSET Ids : \/ Change(S, {"committed"}, "retired")
                             \/ Change(S, {"committed", "retired"}, "deleted")
    \/ BeginSave \/ DropOld \/ EndSave \/ Restart

DurableSpec == DurableInit /\ [][DurableNext]_<<memory, file, busy>>
=============================================================================
