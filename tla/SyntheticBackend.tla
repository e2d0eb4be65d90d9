-------------------------- MODULE SyntheticBackend --------------------------
(***************************************************************************)
(* The synthetic in-memory backend (src/synthetic_backend.cpp) with its    *)
(* switches for faults, as the store calls it: put_temp followed by        *)
(* commit, and remove, one call at a time.  The switches can be moved at   *)
(* any time, also between the two parts of commit, which do not share one  *)
(* critical section.                                                       *)
(***************************************************************************)
EXTENDS Naturals, FiniteSets

CONSTANTS
    Keys, NoKey,
    MaxSerial,      \* bound: put_temp calls
    MaxSwitches     \* bound: uses of the switches

VARIABLES
    objects,        \* the keys of objects_
    temp_objects,   \* the keys of temp_objects_: key and serial
    entry,          \* staged_: the serial of the temporary object, 0 if none
    serial,         \* serial_
    available,      \* available_
    corrupt, missing,   \* corrupt_, missing_
    doing,          \* the step the write in progress has reached, and its key
    switches, outages

flagVars  == <<corrupt, missing>>

Nothing == [step |-> "none", key |-> NoKey]

SynthInit ==
    /\ objects = {} /\ temp_objects = {} /\ entry = [k \in Keys |-> 0] /\ serial = 0
    /\ available = TRUE /\ corrupt = {} /\ missing = {}
    /\ doing = Nothing /\ switches = 0 /\ outages = 0

\* A put_temp that finds the backend unavailable throws and changes nothing.
put_temp(k) ==
    /\ doing.step = "none" /\ serial < MaxSerial
    /\ available
    /\ serial' = serial + 1
    /\ temp_objects' = temp_objects \cup {<<k, serial + 1>>}
    /\ entry' = [entry EXCEPT ![k] = serial + 1]
    /\ doing' = [step |-> "staged", key |-> k]
    /\ UNCHANGED <<objects, available, flagVars, switches, outages>>

commit_unavailable ==
    /\ doing.step = "staged"
    /\ ~ available
    /\ doing' = Nothing
    /\ UNCHANGED <<objects, temp_objects, entry, serial, available, flagVars, switches, outages>>

\* The backend was available; what follows holds the mutex.
commit_checked ==
    /\ doing.step = "staged"
    /\ available
    /\ doing' = [doing EXCEPT !.step = "checked"]
    /\ UNCHANGED <<objects, temp_objects, entry, serial, available, flagVars, switches, outages>>

\* Mutant: a flag of the object that was there before stays.
commit_KeepsFlags ==
    /\ doing.step = "checked"
    /\ LET k == doing.key IN
          /\ objects' = objects \cup {k}
          /\ temp_objects' = temp_objects \ {<<k, entry[k]>>}
          /\ entry' = [entry EXCEPT ![k] = 0]
    /\ doing' = Nothing
    /\ UNCHANGED <<serial, available, flagVars, switches, outages>>

commit ==
    /\ doing.step = "checked"
    /\ LET k == doing.key IN
          /\ objects' = objects \cup {k}
          /\ temp_objects' = temp_objects \ {<<k, entry[k]>>}
          /\ entry' = [entry EXCEPT ![k] = 0]
          /\ corrupt' = corrupt \ {k} /\ missing' = missing \ {k}
    /\ doing' = Nothing
    /\ UNCHANGED <<serial, available, switches, outages>>

\* Also while the backend is unavailable, and without touching the flags.
erase(k) ==
    /\ doing.step = "none"
    /\ objects' = objects \ {k}
    /\ UNCHANGED <<temp_objects, entry, serial, available, flagVars, doing, switches, outages>>

close ==
    /\ doing.step = "none"
    /\ objects' = {} /\ temp_objects' = {} /\ entry' = [k \in Keys |-> 0]
    /\ corrupt' = {} /\ missing' = {}
    /\ UNCHANGED <<serial, available, doing, switches, outages>>

-----------------------------------------------------------------------------
(***************************************************************************)
(* The switches.                                                           *)
(***************************************************************************)
Switch ==
    /\ switches < MaxSwitches
    /\ switches' = switches + 1
    /\ UNCHANGED <<objects, temp_objects, entry, serial, doing>>

set_available(b) ==
    /\ Switch
    /\ available # b /\ available' = b
    /\ outages' = IF b THEN outages ELSE outages + 1
    /\ UNCHANGED flagVars

set_corrupt(k) == Switch /\ corrupt' = corrupt \cup {k} /\ UNCHANGED <<available, missing, outages>>
set_missing(k) == Switch /\ missing' = missing \cup {k} /\ UNCHANGED <<available, corrupt, outages>>

SynthNext ==
    \/ \E k \in Keys : put_temp(k) \/ erase(k) \/ set_corrupt(k) \/ set_missing(k)
    \/ commit_unavailable \/ commit_checked \/ commit \/ close
    \/ \E b \in BOOLEAN : set_available(b)

\* What verify finds under each key when the backend is available.
verify ==
    [k \in Keys |-> IF k \in missing \/ k \notin objects THEN "absent"
                    ELSE IF k \in corrupt THEN "bad" ELSE "good"]
=============================================================================
