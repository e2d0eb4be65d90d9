---------------------------- MODULE ObjectStore ----------------------------
(***************************************************************************)
(* What the store relies on in a backend (IBackend of storage/backend.hpp, *)
(* as src/store.cpp and src/gc.cpp use it): objects by key, written one at *)
(* a time.                                                                 *)
(*                                                                         *)
(* A visible object is whole.  A write that fails, and a process that dies *)
(* while it writes, can cost the object that the key had before, and no    *)
(* other.  Module Store makes the same assumptions in WriteChunk,          *)
(* FailWrite, Rollback, Sweep and Damage, module Recovery in CrashDisks.   *)
(***************************************************************************)
EXTENDS Naturals

CONSTANTS Keys, NoKey

VARIABLES
    object,   \* "absent", "good" or "bad", by key
    busy      \* the key being written, or NoKey

Set(k, s) == object' = [object EXCEPT ![k] = s]

ObjectInit == object = [k \in Keys |-> "absent"] /\ busy = NoKey

BeginWrite(k) == busy = NoKey /\ busy' = k /\ UNCHANGED object

\* The old object goes before the new one is there.
DropOld == busy # NoKey /\ Set(busy, "absent") /\ UNCHANGED busy

EndWrite == busy # NoKey /\ Set(busy, "good") /\ busy' = NoKey

\* Also the end of the process that writes.
FailWrite == busy # NoKey /\ busy' = NoKey /\ UNCHANGED object

Remove(S) ==
    /\ busy = NoKey
    /\ object' = [k \in Keys |-> IF k \in S THEN "absent" ELSE object[k]]
    /\ UNCHANGED busy

\* Bytes change or disappear behind the backend's back, at any time.
Damage(k) == object[k] # "absent" /\ (Set(k, "bad") \/ Set(k, "absent")) /\ UNCHANGED busy

ObjectNext ==
    \/ \E k \in Keys : BeginWrite(k) \/ Damage(k)
    \/ \E S \in SUBSET Keys : Remove(S)
    \/ DropOld \/ EndWrite \/ FailWrite

ObjectSpec == ObjectInit /\ [][ObjectNext]_<<object, busy>>
=============================================================================
