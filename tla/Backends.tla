------------------------------ MODULE Backends ------------------------------
(***************************************************************************)
(* A store's backend is one of the two that implement IBackend, and keeps  *)
(* the contract of module ObjectStore.                                     *)
(***************************************************************************)
EXTENDS LocalBackend

CONSTANTS MaxSerial, MaxSwitches

VARIABLES
    kind,   \* which backend was registered: "local" or "synthetic"
    objects, temp_objects, entry, serial, available, corrupt, missing, doing, switches, outages

Synthetic == INSTANCE SyntheticBackend

ASSUME BackendsAssumption ==
    /\ NoKey \notin Keys
    /\ {MaxSeq, MaxIoErrors, MaxDeaths, MaxLosses, MaxSerial, MaxSwitches} \subseteq Nat

synthVars == <<objects, temp_objects, entry, serial, available, corrupt, missing, doing,
               switches, outages>>
backendVars == <<kind, localVars, synthVars>>

BackendInit == kind \in {"local", "synthetic"} /\ LocalInit /\ Synthetic!SynthInit

BackendNext ==
    /\ UNCHANGED kind
    /\ \/ kind = "local" /\ LocalNext /\ UNCHANGED synthVars
       \/ kind = "synthetic" /\ Synthetic!SynthNext /\ UNCHANGED localVars

BackendSpec == BackendInit /\ [][BackendNext]_backendVars

-----------------------------------------------------------------------------
(***************************************************************************)
(* Properties.                                                             *)
(***************************************************************************)
\* Every variable has its type, and a call that is past put_temp has its key
\* staged.
BackendTypeOK ==
    /\ files \in [Keys -> FileStates] /\ temps \in [Keys \X (1..MaxSeq) -> FileStates]
    /\ staged \in [Keys -> 0..MaxSeq] /\ seq \in 0..MaxSeq
    /\ call.step \in {"none", "write", "lookup", "rename"} /\ call.key \in Keys \cup {NoKey}
    /\ objects \subseteq Keys /\ corrupt \subseteq Keys /\ missing \subseteq Keys
    /\ temp_objects \subseteq Keys \X (1..MaxSerial)
    /\ entry \in [Keys -> 0..MaxSerial] /\ serial \in 0..MaxSerial
    /\ doing.step \in {"none", "staged", "checked"} /\ doing.key \in Keys \cup {NoKey}
    /\ call.step \in {"lookup", "rename"} => staged[call.key] > 0
    /\ doing.step # "none" => entry[doing.key] > 0

\* What is staged can be committed: its temporary object is there and whole,
\* also after calls that failed halfway and in a process that found the
\* temporary files of an earlier one.  commit removes the old object before it
\* looks, so that a staged key without its file would cost the object.
StagedIsWhole ==
    /\ \A k \in Keys : staged[k] > 0 => temps[<<k, staged[k]>>] = "whole"
    /\ \A k \in Keys : entry[k] > 0 => <<k, entry[k]>> \in temp_objects

\* Temporary objects are left behind only by calls that failed and by
\* processes that died, one by each: the backends never clean them up.
TempsBounded ==
    /\ Cardinality({n \in DOMAIN temps : temps[n] # "absent"}) <=
         ioErrors + deaths + (IF call.step = "none" THEN 0 ELSE 1)
    /\ Cardinality(temp_objects) <= outages + (IF doing.step = "none" THEN 0 ELSE 1)

\* Both backends keep the contract: a visible object is whole unless it was
\* damaged, and a write that fails or is cut off costs at most the object it
\* was to replace.
Contract == INSTANCE ObjectStore
              WITH object <- IF kind = "local" THEN LocalObject ELSE Synthetic!verify,
                   busy   <- IF kind = "local" THEN call.key ELSE doing.key
ImplementsObjectStore == Contract!ObjectSpec
=============================================================================
