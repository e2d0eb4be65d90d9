-------------------------- MODULE ProgramsProofs --------------------------
(***************************************************************************)
(* What the command line tool and the coordinator can rely on, for every   *)
(* value of the constants, whichever processes ran, failed and died.       *)
(***************************************************************************)
EXTENDS Programs, RecoveryProofs

\* The provers for a leaf that names none, in the order in which they are tried.
\* tlapm drops an attempt that takes it over 5 seconds to prepare: the next repeats it.
USE SMTT(60), SMTT(61), SMTT(62), SMTT(63), SMTT(64), ZenonT(60), SMTT(65), SMTT(66)

(***************************************************************************)
(* Scripts, by which call follows which.                                   *)
(***************************************************************************)
CallNames ==
    {"family", "boot", "reset", "retain", "retire", "plan", "run", "verify", "restore",
     "recover", "describe", "describe own", "publish", "publishing", "save"}

Follows ==
    {<<"family", "save">>, <<"family", "describe own">>, <<"describe", "publish">>,
     <<"describe own", "publish">>, <<"publish", "save">>, <<"publish", "restore">>,
     <<"publishing", "save">>, <<"publishing", "restore">>, <<"restore", "save">>,
     <<"retain", "save">>, <<"retire", "save">>, <<"plan", "run">>, <<"run", "save">>,
     <<"boot", "reset">>}

Scripted(s) ==
    /\ s \in Seq(CallNames)
    /\ \A i \in 1..(Len(s) - 1) : <<s[i], s[i + 1]>> \in Follows

\* The tool's commands end with a save, or consist of a call that changes no
\* record.
Saves(s)  == s # <<>> /\ s[Len(s)] = "save"
Single(s) == Len(s) = 1 /\ s[1] \in {"plan", "verify", "restore", "recover"}

\* The calls of a script in their order.
Then(a, b) == a \in CallNames /\ b \in CallNames /\ <<a, b>> \in Follows

\* Which call follows which.
LEMMA Pairs ==
    /\ Then("family", "save") /\ Then("family", "describe own")
    /\ Then("describe", "publish") /\ Then("describe own", "publish")
    /\ Then("publish", "save") /\ Then("publish", "restore")
    /\ Then("publishing", "save") /\ Then("publishing", "restore")
    /\ Then("restore", "save") /\ Then("retain", "save") /\ Then("retire", "save")
    /\ Then("plan", "run") /\ Then("run", "save") /\ Then("boot", "reset")
BY DEF Then, CallNames, Follows

\* Scripts of one to five calls.
LEMMA ShortScripts ==
    /\ \A a \in CallNames : Scripted(<<a>>)
    /\ \A a, b : Then(a, b) => Scripted(<<a, b>>)
    /\ \A a, b, c : Then(a, b) /\ Then(b, c) => Scripted(<<a, b, c>>)
    /\ \A a, b, c, d : Then(a, b) /\ Then(b, c) /\ Then(c, d) => Scripted(<<a, b, c, d>>)
    /\ \A a, b, c, d, e : Then(a, b) /\ Then(b, c) /\ Then(c, d) /\ Then(d, e)
                            => Scripted(<<a, b, c, d, e>>)
<1>1. \A a \in CallNames : Scripted(<<a>>)
  BY DEF Scripted
<1>2. \A a, b : Then(a, b) => Scripted(<<a, b>>)
  BY DEF Scripted, Then
<1>3. \A a, b, c : Then(a, b) /\ Then(b, c) => Scripted(<<a, b, c>>)
  BY DEF Scripted, Then
<1>4. \A a, b, c, d : Then(a, b) /\ Then(b, c) /\ Then(c, d) => Scripted(<<a, b, c, d>>)
  BY DEF Scripted, Then
<1>5. \A a, b, c, d, e : Then(a, b) /\ Then(b, c) /\ Then(c, d) /\ Then(d, e)
                           => Scripted(<<a, b, c, d, e>>)
  BY DEF Scripted, Then
<1> QED
  BY <1>1, <1>2, <1>3, <1>4, <1>5

\* The two longest scripts begin and end as they should.
LEMMA LongScripts ==
    ASSUME NEW s, \/ s = <<"family", "describe own", "publish", "save">>
                  \/ s = <<"family", "describe own", "publish", "restore", "save">>
    PROVE  Saves(s) /\ s # <<>> /\ s[1] = "family"
<1>1. CASE s = <<"family", "describe own", "publish", "save">>
  <2>1. Len(s) = 4 /\ s[4] = "save" /\ s[1] = "family"
    BY ZenonT(60), <1>1
  <2>2. s # <<>>
    BY ZenonT(60), <1>1
  <2> QED
    BY ZenonT(60), <2>1, <2>2 DEF Saves
<1>2. CASE s = <<"family", "describe own", "publish", "restore", "save">>
  <2>1. Len(s) = 5 /\ s[5] = "save" /\ s[1] = "family"
    BY ZenonT(60), <1>2
  <2>2. s # <<>>
    BY ZenonT(60), <1>2
  <2> QED
    BY ZenonT(60), <2>1, <2>2 DEF Saves
<1> QED
  BY ZenonT(60), <1>1, <1>2

\* Every command of the tool is such a script.
LEMMA CliScripts ==
    ASSUME NEW cmd \in CliCommands
    PROVE  /\ Scripted(CliScript(cmd)) /\ CliScript(cmd) # <<>>
           /\ Saves(CliScript(cmd)) \/ Single(CliScript(cmd))
           /\ CliScript(cmd)[1] \notin {"publish", "publishing", "run"}
<1> PICK s : s = CliScript(cmd)
  OBVIOUS
<1>1. CASE cmd = "family-create"
  <2>1. s = <<"family", "save">>
    BY <1>1 DEF CliScript
  <2>2. Scripted(s)
    BY ZenonT(60), <2>1, Pairs, ShortScripts
  <2> QED
    BY <2>1, <2>2 DEF Saves
<1>2. CASE cmd = "checkpoint-create"
  <2>1. s = <<"describe", "publish", "save">>
    BY <1>2 DEF CliScript
  <2>2. Scripted(s)
    BY ZenonT(60), <2>1, Pairs, ShortScripts
  <2> QED
    BY <2>1, <2>2 DEF Saves
<1>3. CASE cmd = "simulate"
  <2>1. s = <<"family", "describe own", "publish", "save">>
    BY ZenonT(60), <1>3 DEF CliScript
  <2>2. Scripted(s)
    BY ZenonT(60), <2>1, Pairs, ShortScripts
  <2> QED
    BY ZenonT(60), <2>1, <2>2, LongScripts
<1>4. CASE cmd = "benchmark"
  <2>1. s = <<"family", "describe own", "publish", "restore", "save">>
    BY ZenonT(60), <1>4 DEF CliScript
  <2>2. Scripted(s)
    BY ZenonT(60), <2>1, Pairs, ShortScripts
  <2> QED
    BY ZenonT(60), <2>1, <2>2, LongScripts
<1>5. CASE cmd \in {"retain", "retire"}
  <2>1. s = <<cmd, "save">>
    BY <1>5 DEF CliScript
  <2>2. Scripted(s)
    BY ZenonT(60), <1>5, <2>1, Pairs, ShortScripts
  <2> QED
    BY <1>5, <2>1, <2>2 DEF Saves
<1>6. CASE cmd = "gc-plan"
  <2>1. s = <<"plan">>
    BY <1>6 DEF CliScript
  <2>2. Scripted(s)
    BY ZenonT(60), <2>1, ShortScripts DEF CallNames
  <2> QED
    BY <2>1, <2>2 DEF Saves, Single
<1>7. CASE cmd = "gc-run"
  <2>1. s = <<"plan", "run", "save">>
    BY <1>7 DEF CliScript
  <2>2. Scripted(s)
    BY ZenonT(60), <2>1, Pairs, ShortScripts
  <2> QED
    BY <2>1, <2>2 DEF Saves
<1>8. CASE cmd \in {"verify", "restore", "save", "recover"}
  <2>1. s = <<cmd>>
    BY ZenonT(60), <1>8 DEF CliScript
  <2>2. Scripted(s)
    BY ZenonT(60), <1>8, <2>1, ShortScripts DEF CallNames
  <2> QED
    BY <1>8, <2>1, <2>2 DEF Saves, Single
<1> QED
  BY ZenonT(60), <1>1, <1>2, <1>3, <1>4, <1>5, <1>6, <1>7, <1>8, ProgramsAssumption

\* So is what the coordinator does for a request.
LEMMA RequestScripts ==
    ASSUME NEW req \in CoordinatorRequests
    PROVE  /\ Scripted(dispatch(req)) /\ dispatch(req) # <<>>
           /\ dispatch(req)[1] \notin {"publish", "publishing", "run"}
<1> PICK s : s = dispatch(req)
  OBVIOUS
<1>1. CASE req = "register"
  <2>1. s = <<"boot", "reset">>
    BY <1>1 DEF dispatch
  <2>2. Scripted(s)
    BY ZenonT(60), <2>1, Pairs, ShortScripts
  <2> QED
    BY <2>1, <2>2
<1>2. CASE req = "publish"
  <2>1. s = <<"describe", "publish">>
    BY <1>2 DEF dispatch
  <2>2. Scripted(s)
    BY ZenonT(60), <2>1, Pairs, ShortScripts
  <2> QED
    BY <2>1, <2>2
<1>3. CASE req = "gc"
  <2>1. s = <<"plan", "run">>
    BY <1>3 DEF dispatch
  <2>2. Scripted(s)
    BY ZenonT(60), <2>1, Pairs, ShortScripts
  <2> QED
    BY <2>1, <2>2
<1>4. CASE req \in {"family", "verify", "restore", "retire", "retain", "save"}
  <2>1. s = <<req>>
    BY <1>4 DEF dispatch
  <2>2. Scripted(s)
    BY ZenonT(60), <1>4, <2>1, ShortScripts DEF CallNames
  <2> QED
    BY <1>4, <2>1, <2>2
<1> QED
  BY ZenonT(60), <1>1, <1>2, <1>3, <1>4, ProgramsAssumption

\* What is left of a script when a call returns.
LEMMA TailScripted ==
    ASSUME NEW s, Scripted(s), s # <<>>
    PROVE  /\ Scripted(Tail(s))
           /\ Head(s) = s[1] /\ Len(s) >= 1
           /\ Len(s) = 1 => Tail(s) = <<>>
           /\ Tail(s) # <<>> => <<Head(s), Head(Tail(s))>> \in Follows
           /\ Saves(s) /\ Head(s) # "save" => Saves(Tail(s))
<1>1. s \in Seq(CallNames) /\ Len(s) \in Nat /\ Len(s) >= 1 /\ Head(s) = s[1]
  BY DEF Scripted
<1>2. /\ Tail(s) \in Seq(CallNames) /\ Len(Tail(s)) = Len(s) - 1
      /\ \A i \in 1..(Len(s) - 1) : Tail(s)[i] = s[i + 1]
  BY <1>1
<1>3. ASSUME NEW i \in 1..(Len(Tail(s)) - 1) PROVE <<Tail(s)[i], Tail(s)[i + 1]>> \in Follows
  <2>1. i + 1 \in 1..(Len(s) - 1) /\ i \in 1..(Len(s) - 1)
    BY <1>1, <1>2
  <2>2. <<s[i + 1], s[(i + 1) + 1]>> \in Follows
    BY <2>1 DEF Scripted
  <2> QED
    BY ZenonT(60), <1>2, <2>1, <2>2
<1>4. ASSUME Tail(s) # <<>> PROVE <<Head(s), Head(Tail(s))>> \in Follows
  <2>1. 1 \in 1..(Len(s) - 1) /\ Head(Tail(s)) = Tail(s)[1]
    BY <1>1, <1>2, <1>4
  <2>2. <<s[1], s[1 + 1]>> \in Follows
    BY <2>1 DEF Scripted
  <2> QED
    BY ZenonT(60), <1>1, <1>2, <2>1, <2>2
<1>5. ASSUME Saves(s), Head(s) # "save" PROVE Saves(Tail(s))
  <2>1. Len(s) # 1
    BY <1>1, <1>5 DEF Saves
  <2>2. Len(Tail(s)) \in 1..(Len(s) - 1) /\ Len(Tail(s)) + 1 = Len(s)
    BY <1>1, <1>2, <2>1
  <2>3. Tail(s)[Len(Tail(s))] = s[Len(s)]
    BY <1>2, <2>2
  <2> QED
    BY <1>2, <1>5, <2>2, <2>3 DEF Saves
<1>6. Len(s) = 1 => Tail(s) = <<>>
  <2>1. \A t \in Seq(CallNames) : Len(t) = 0 => t = <<>>
    OBVIOUS
  <2>2. ASSUME Len(s) = 1 PROVE Len(Tail(s)) = 0
    BY <1>2, <2>2
  <2> QED
    BY ZenonT(60), <1>2, <2>1, <2>2
<1> QED
  BY ZenonT(60), <1>1, <1>2, <1>3, <1>4, <1>5, <1>6 DEF Scripted

\* publish is under way.
LEMMA PublishingScripted ==
    ASSUME NEW s, Scripted(s), s # <<>>, Head(s) = "publish"
    PROVE  LET t == <<"publishing">> \o Tail(s)
           IN  /\ Scripted(t) /\ t # <<>> /\ Head(t) = "publishing"
               /\ Saves(s) => Saves(t)
<1> DEFINE t == <<"publishing">> \o Tail(s)
<1>1. s \in Seq(CallNames) /\ Len(s) \in Nat /\ Len(s) >= 1 /\ s[1] = "publish"
  BY DEF Scripted
<1>2. /\ Tail(s) \in Seq(CallNames) /\ Len(Tail(s)) = Len(s) - 1
      /\ \A i \in 1..(Len(s) - 1) : Tail(s)[i] = s[i + 1]
  BY <1>1
<1>3. <<"publishing">> \in Seq(CallNames) /\ Len(<<"publishing">>) = 1
  BY DEF CallNames
<1>4. t \in Seq(CallNames) /\ Len(t) = Len(s) /\ t[1] = "publishing"
  BY <1>1, <1>2, <1>3
<1>5. ASSUME NEW i \in 2..Len(s) PROVE t[i] = s[i]
  <2>1. i - 1 \in 1..(Len(s) - 1) /\ (i - 1) + 1 = i
    BY <1>1
  <2>2. t[i] = Tail(s)[i - 1]
    BY <1>1, <1>2, <1>3, <2>1
  <2> QED
    BY ZenonT(60), <1>2, <2>1, <2>2
<1>6. ASSUME NEW i \in 1..(Len(t) - 1) PROVE <<t[i], t[i + 1]>> \in Follows
  <2>1. <<s[i], s[i + 1]>> \in Follows /\ i + 1 \in 2..Len(s) /\ t[i + 1] = s[i + 1]
    BY <1>1, <1>4, <1>5 DEF Scripted
  <2>2. CASE i = 1
    <3>1. <<"publish", s[2]>> \in Follows
      BY <1>1, <2>1, <2>2
    <3>2. s[2] \in {"save", "restore"}
      BY <3>1 DEF Follows
    <3>3. t[i] = "publishing" /\ t[i + 1] = s[2]
      BY <1>4, <2>1, <2>2
    <3> HIDE DEF t
    <3> QED
      BY ZenonT(60), <3>2, <3>3, Pairs DEF Then
  <2>3. CASE i # 1
    <3>1. i \in 2..Len(s)
      BY <1>4, <2>3, <1>1
    <3> QED
      BY ZenonT(60), <1>5, <2>1, <3>1
  <2> QED
    BY ZenonT(60), <2>2, <2>3
<1>7. ASSUME Saves(s) PROVE Saves(t)
  <2>1. Len(s) \in 2..Len(s)
    BY <1>1, <1>7 DEF Saves
  <2> QED
    BY <1>4, <1>5, <1>7, <2>1 DEF Saves
<1>8. t # <<>> /\ Head(t) = "publishing"
  BY <1>1, <1>4
<1> QED
  BY ZenonT(60), <1>4, <1>6, <1>7, <1>8 DEF Scripted

-----------------------------------------------------------------------------
(***************************************************************************)
(* The steps of the programs are steps of module Recovery, or exits.       *)
(***************************************************************************)
\* The calls that are about the checkpoint that the command has named or made.
Naming == {"retire", "verify", "restore", "publish", "publishing"}

ScriptInv ==
    /\ prog \in {"cli", "coordinator"} /\ asked \in Nat /\ failed \in BOOLEAN
    /\ target \in 0..MaxIds /\ ended \in 0..MaxProcesses
    /\ Scripted(todo)
    /\ todo # <<>> \/ failed => asked > 0
    /\ todo # <<>> /\ Head(todo) \in Naming => target \in Ids
    /\ prog = "cli" /\ todo # <<>> => Saves(todo) \/ Single(todo)

\* The store is inside publish or save_state only when the command is.
LockInv ==
    /\ ~ MutexFree => Call("publishing")
    /\ saving # "no" => Call("save")

ProgTypeInv == RecTypeInv /\ ScriptInv /\ LockInv

\* A call that is over when the step is: it returns, unless the next call is
\* publish, or throws.
PlainCall ==
    /\ todo # <<>> /\ MutexFree /\ saving = "no"
    /\ Throws \/ (Returns /\ Head(todo) \notin {"describe", "describe own", "publish", "save"})
    /\ StoreStep \/ UNCHANGED allVars
    /\ UNCHANGED <<desc, pub, image, saving>>

\* With the mutex free and no save under way, a call is a step of the store.
LEMMA CallIsStoreStep ==
    ASSUME saving = "no", InMemory,
           \/ create_family \/ gc_plan \/ gc_run \/ reset_authority
           \/ \E b \in Boots : set_authority_boot(b)
           \/ \E p \in PolicyIds, f \in FamilyIds, t \in PolicyTerms :
                 set_retention_policy(p, f, t)
           \/ \E c \in Ids : retire(c) \/ verify_checkpoint(c) \/ restore(c)
    PROVE  StoreStep /\ UNCHANGED <<desc, pub, image, saving>> /\ MutexFree
<1>1. Next
  BY ZenonT(60), ProgramsAssumption DEF Next
<1>2. desc' = desc /\ pub' = pub /\ MutexFree
  BY DEF create_family, gc_plan, gc_run, reset_authority, set_authority_boot,
         set_retention_policy, retire, verify_checkpoint, restore, catalogVars
<1>3. StoreStep /\ image' = image /\ saving' = saving
  BY <1>1 DEF StoreStep, InMemory
<1> QED
  BY <1>2, <1>3

\* While a call other than publish and save is made, the store is at rest.
LEMMA AtRest ==
    ASSUME LockInv, todo # <<>>, Head(todo) \notin {"publishing", "save"}
    PROVE  MutexFree /\ saving = "no"
BY DEF LockInv, Call

\* A simple call is a plain one.
LEMMA SimpleIsPlain ==
    ASSUME ProgTypeInv, SimpleCall
    PROVE  PlainCall
<1>1. /\ todo # <<>> /\ Returns /\ InMemory
      /\ Head(todo) \in {"family", "boot", "reset", "retain", "retire", "plan", "run",
                         "verify", "restore", "recover"}
  BY DEF SimpleCall, Call
<1>2. MutexFree /\ saving = "no"
  BY <1>1, AtRest DEF ProgTypeInv
<1>3. CASE UNCHANGED vars /\ Head(todo) = "recover"
  <2>1. life' = life /\ pub' = pub /\ desc' = desc
    BY <1>3 DEF vars
  <2>2. swept' = swept /\ UNCHANGED <<image, saving, crashes>>
    BY <1>1, <2>1 DEF InMemory, Live, Existing
  <2>3. UNCHANGED allVars
    BY <1>3, <2>2 DEF allVars, recVars
  <2> QED
    BY ZenonT(60), <1>1, <1>2, <1>3, <2>1, <2>2, <2>3 DEF PlainCall
<1>4. ASSUME \/ create_family \/ gc_plan \/ gc_run \/ reset_authority
             \/ \E b \in Boots : set_authority_boot(b)
             \/ \E p \in PolicyIds, f \in FamilyIds, t \in PolicyTerms :
                   set_retention_policy(p, f, t)
             \/ \E c \in Ids : retire(c) \/ verify_checkpoint(c) \/ restore(c)
      PROVE  PlainCall
  <2>1. StoreStep /\ UNCHANGED <<desc, pub, image, saving>>
    BY ZenonT(60), <1>1, <1>2, <1>4, CallIsStoreStep
  <2> QED
    BY ZenonT(60), <1>1, <1>2, <2>1 DEF PlainCall
<1>5. Head(todo) \in {"retire", "verify", "restore"} => target \in Ids
  BY <1>1 DEF ProgTypeInv, ScriptInv, Naming
<1>6. (IF prog = "cli" THEN PolicyIds ELSE {1}) \subseteq PolicyIds
  BY ProgramsAssumption
<1> QED
  BY ZenonT(60), <1>1, <1>3, <1>4, <1>5, <1>6 DEF SimpleCall, Call

\* So are a call that is refused or fails, and the end of publish.
LEMMA OtherPlain ==
    ASSUME ProgTypeInv, RefusedCall \/ FailedRestore \/ EndPublish
    PROVE  PlainCall
<1>1. CASE RefusedCall
  <2>1. /\ todo # <<>> /\ Throws /\ UNCHANGED allVars
        /\ Head(todo) \in {"describe", "retire", "verify", "restore"}
    BY <1>1 DEF RefusedCall, Call
  <2>2. MutexFree /\ saving = "no"
    BY <2>1, AtRest DEF ProgTypeInv
  <2> QED
    BY ZenonT(60), <2>1, <2>2 DEF PlainCall, allVars, recVars, vars
<1>2. CASE FailedRestore
  <2>1. todo # <<>> /\ Throws /\ InMemory /\ Head(todo) = "restore" /\ restore(target)
    BY <1>2 DEF FailedRestore, Call
  <2>2. MutexFree /\ saving = "no" /\ target \in Ids
    BY <2>1, AtRest DEF ProgTypeInv, ScriptInv, Naming
  <2>3. StoreStep /\ UNCHANGED <<desc, pub, image, saving>>
    BY ZenonT(60), <2>1, <2>2, CallIsStoreStep
  <2> QED
    BY <2>1, <2>2, <2>3 DEF PlainCall
<1>3. CASE EndPublish
  <2>1. /\ todo # <<>> /\ Head(todo) = "publishing" /\ MutexFree /\ UNCHANGED allVars
        /\ Throws \/ Returns
    BY <1>3 DEF EndPublish, Call
  <2>2. saving = "no"
    BY <2>1 DEF ProgTypeInv, LockInv, Call
  <2> QED
    BY ZenonT(60), <2>1, <2>2 DEF PlainCall, allVars, recVars, vars
<1> QED
  BY ZenonT(60), <1>1, <1>2, <1>3

\* The steps of the programs.
LEMMA ProgCases ==
    ASSUME ProgTypeInv, [ProgNext]_allProgVars
    PROVE  \/ \E cmd \in CliCommands : Command(cmd)
           \/ \E req \in CoordinatorRequests : Request(req)
           \/ PlainCall \/ Describe \/ StartPublish \/ PublishStep \/ SaveStep \/ EndSave
           \/ Exit \/ Die
           \/ Environment /\ InMemory /\ UNCHANGED progVars
           \/ UNCHANGED allProgVars
BY ZenonT(60), SimpleIsPlain, OtherPlain DEF ProgNext, Calls

\* Describe, the start of publish and its steps are steps of the store.
LEMMA PublishSteps ==
    ASSUME ProgTypeInv, Describe \/ StartPublish \/ PublishStep
    PROVE  /\ StoreStep /\ UNCHANGED <<image, saving>> /\ saving = "no"
           /\ PublishStep => Call("publishing") /\ ~ MutexFree
<1>1. CASE Describe
  <2>1. /\ todo # <<>> /\ Head(todo) \in {"describe", "describe own"} /\ InMemory
        /\ \E f \in FamilyIds : make_full_descriptor(f, "keep_latest_n", {}, 1)
    BY ZenonT(60), <1>1 DEF Describe, Call
  <2>2. MutexFree /\ saving = "no"
    BY ZenonT(60), <2>1, AtRest DEF ProgTypeInv
  <2>3. Next
    BY ZenonT(60), <2>1, ProgramsAssumption DEF Next
  <2>4. ~ PublishStep
    BY <2>2 DEF MutexFree, PublishStep, ReuseChunk, MissChunk, WriteChunk, FailWrite,
                FailReadBack, Commit
  <2> QED
    BY ZenonT(60), <2>1, <2>2, <2>3, <2>4 DEF StoreStep, InMemory
<1>2. CASE StartPublish
  <2>1. /\ todo # <<>> /\ Head(todo) = "publish" /\ InMemory
        /\ \E data \in Contents : publish(target, data)
    BY <1>2 DEF StartPublish, Call
  <2>2. MutexFree /\ saving = "no" /\ target \in Ids
    BY <2>1, AtRest DEF ProgTypeInv, ScriptInv, Naming
  <2>3. Next
    BY ZenonT(60), <2>1, <2>2 DEF Next
  <2>4. ~ PublishStep
    BY <2>2 DEF MutexFree, PublishStep, ReuseChunk, MissChunk, WriteChunk, FailWrite,
                FailReadBack, Commit
  <2> QED
    BY ZenonT(60), <2>1, <2>2, <2>3, <2>4 DEF StoreStep, InMemory
<1>3. CASE PublishStep
  <2>1. ~ MutexFree /\ InMemory
    BY <1>3 DEF MutexFree, PublishStep, ReuseChunk, MissChunk, WriteChunk, FailWrite,
                FailReadBack, Commit
  <2>2. Call("publishing")
    BY <2>1 DEF ProgTypeInv, LockInv
  <2>3. saving = "no"
    BY <2>2 DEF ProgTypeInv, LockInv, Call
  <2>4. Next
    BY ZenonT(60), <1>3 DEF PublishStep, Next
  <2> QED
    BY ZenonT(60), <2>1, <2>2, <2>3, <2>4 DEF StoreStep, InMemory
<1> QED
  BY <1>1, <1>2, <1>3

\* Every step of a program is one of module Recovery, or ends a process.
LEMMA ProgIsRec ==
    ASSUME ProgTypeInv, [ProgNext]_allProgVars
    PROVE  [RecNext]_allVars \/ Restart
<1>1. CASE \/ \E cmd \in CliCommands : Command(cmd)
           \/ \E req \in CoordinatorRequests : Request(req)
           \/ UNCHANGED allProgVars
  BY <1>1 DEF Command, Request, Begin, allProgVars
<1>2. CASE PlainCall
  BY ZenonT(60), <1>2 DEF PlainCall, RecNext
<1>3. CASE Describe \/ StartPublish \/ PublishStep
  BY <1>3, PublishSteps DEF RecNext
<1>4. CASE SaveStep \/ EndSave \/ Die
  BY <1>4 DEF SaveStep, EndSave, Die, RecNext
<1>5. CASE Exit
  <2>1. NewProcess /\ disk' = disk /\ crashes' = crashes
    BY <1>5 DEF Exit
  <2>2. disk \in CrashDisks /\ crashes \in 0..MaxCrashes
    BY DEF CrashDisks, ProgTypeInv, RecTypeInv, RecTypeOK
  <2> QED
    BY ZenonT(60), <2>1, <2>2 DEF Restart
<1>6. CASE Environment /\ InMemory /\ UNCHANGED progVars
  <2>1. StoreStep
    BY <1>6 DEF StoreStep, Next
  <2> QED
    BY <2>1 DEF RecNext
<1> QED
  BY ZenonT(60), <1>1, <1>2, <1>3, <1>4, <1>5, <1>6, ProgCases

\* The script goes on as it should.
LEMMA ScriptStep ==
    ASSUME ProgTypeInv, [ProgNext]_allProgVars
    PROVE  ScriptInv'
<1>0. ScriptInv /\ MaxIds \in Nat /\ MaxProcesses \in Nat
  BY StoreAssumption, ProgramsAssumption DEF ProgTypeInv
<1>1. Scripted(<<>>)
  BY DEF Scripted
<1>2. ASSUME NEW s, Begin(s), Scripted(s), s # <<>>, s[1] \notin {"publish", "publishing", "run"},
             prog = "cli" => Saves(s) \/ Single(s)
      PROVE  ScriptInv'
  <2>1. Head(s) = s[1]
    BY <1>2, TailScripted
  <2>2. /\ todo' = s /\ failed' = FALSE /\ asked' = asked + 1 /\ prog' = prog /\ ended' = ended
        /\ target' \in IF Head(s) \in {"retire", "verify", "restore"} THEN Ids ELSE {0}
    BY <1>2 DEF Begin
  <2>3. target' \in 0..MaxIds /\ (Head(s) \in Naming => target' \in Ids)
    BY <1>0, <1>2, <2>1, <2>2 DEF Naming, Ids
  <2>4. asked' \in Nat /\ asked' > 0
    BY <1>0, <2>2 DEF ScriptInv
  <2>5. /\ prog' = prog /\ prog \in {"cli", "coordinator"} /\ todo' = s
        /\ failed' \in BOOLEAN /\ ended' \in 0..MaxProcesses
    BY ZenonT(60), <1>0, <2>2 DEF ScriptInv
  <2> QED
    BY ZenonT(60), <1>2, <2>3, <2>4, <2>5 DEF ScriptInv
<1>3. CASE \E cmd \in CliCommands : Command(cmd)
  BY ZenonT(60), <1>2, <1>3, CliScripts DEF Command
<1>4. CASE \E req \in CoordinatorRequests : Request(req)
  <2>1. prog # "cli"
    BY <1>4 DEF Request
  <2> QED
    BY ZenonT(60), <1>2, <1>4, <2>1, RequestScripts DEF Request
<1>5. ASSUME todo # <<>>, Throws PROVE ScriptInv'
  <2>1. /\ todo' = <<>> /\ failed' = TRUE
        /\ UNCHANGED <<prog, asked, target, ended>>
    BY ZenonT(60), <1>5 DEF Throws
  <2> QED
    BY ZenonT(60), <1>0, <1>1, <1>5, <2>1 DEF ScriptInv
<1>6. ASSUME todo # <<>>, todo' = Tail(todo), UNCHANGED <<prog, asked, failed, ended>>,
             target' \in 0..MaxIds,
             Tail(todo) # <<>> /\ Head(Tail(todo)) \in Naming => target' \in Ids
      PROVE  ScriptInv'
  <2>1. /\ Scripted(Tail(todo)) /\ Head(todo) = todo[1]
        /\ Len(todo) = 1 => Tail(todo) = <<>>
        /\ Saves(todo) /\ Head(todo) # "save" => Saves(Tail(todo))
        /\ Tail(todo) # <<>> => <<Head(todo), Head(Tail(todo))>> \in Follows
    BY ZenonT(60), <1>0, <1>6, TailScripted DEF ScriptInv
  <2>2. Tail(todo) # <<>> => Head(todo) # "save"
    BY ZenonT(60), <2>1 DEF Follows
  <2>3. prog = "cli" /\ Tail(todo) # <<>> => Saves(Tail(todo))
    BY ZenonT(60), <1>0, <1>6, <2>1, <2>2 DEF ScriptInv, Single
  <2> QED
    BY ZenonT(60), <1>0, <1>6, <2>1, <2>3 DEF ScriptInv
<1>7. ASSUME todo # <<>>, Returns, Head(todo) \notin {"describe", "describe own"}
      PROVE  ScriptInv'
  <2>1. /\ todo' = Tail(todo) /\ UNCHANGED <<prog, asked, target, failed, ended>>
    BY ZenonT(60), <1>7 DEF Returns
  <2>2. ASSUME Tail(todo) # <<>>, Head(Tail(todo)) \in Naming PROVE target \in Ids
    <3>1. <<Head(todo), Head(Tail(todo))>> \in Follows
      BY ZenonT(60), <1>0, <1>7, <2>2, TailScripted DEF ScriptInv
    <3>2. Head(todo) \in {"publish", "publishing"}
      BY ZenonT(60), <1>7, <2>2, <3>1 DEF Follows, Naming
    <3> QED
      BY ZenonT(60), <1>0, <1>7, <3>2 DEF ScriptInv, Naming
  <2>3. target' \in 0..MaxIds
    BY <1>0, <2>1 DEF ScriptInv
  <2> QED
    BY ZenonT(60), <1>6, <1>7, <2>1, <2>2, <2>3
<1>8. CASE PlainCall
  BY ZenonT(60), <1>5, <1>7, <1>8 DEF PlainCall
<1>9. CASE EndSave
  BY ZenonT(60), <1>5, <1>7, <1>9 DEF EndSave, Call
<1>10. CASE Describe
  <2>1. /\ todo # <<>> /\ target' = nextId /\ nextId \in Ids /\ todo' = Tail(todo)
        /\ UNCHANGED <<prog, asked, failed, ended>>
    BY ZenonT(60), <1>10 DEF Describe, Call, make_full_descriptor
  <2>2. target' \in 0..MaxIds /\ target' \in Ids
    BY <1>0, <2>1 DEF Ids
  <2> QED
    BY ZenonT(60), <1>6, <2>1, <2>2
<1>11. CASE StartPublish
  <2>1. /\ todo # <<>> /\ Head(todo) = "publish"
        /\ todo' = <<"publishing">> \o Tail(todo)
        /\ UNCHANGED <<prog, asked, target, failed, ended>>
    BY <1>11 DEF StartPublish, Call
  <2>2. /\ Scripted(todo') /\ todo' # <<>> /\ Head(todo') = "publishing"
        /\ Saves(todo) => Saves(todo')
    BY ZenonT(60), <1>0, <2>1, PublishingScripted DEF ScriptInv
  <2>3. target \in Ids /\ asked > 0
    BY ZenonT(60), <1>0, <2>1 DEF ScriptInv, Naming
  <2>4. prog = "cli" => Saves(todo)
    <3>1. Head(todo) = todo[1]
      BY ZenonT(60), <1>0, <2>1, TailScripted DEF ScriptInv
    <3> QED
      BY ZenonT(60), <1>0, <2>1, <3>1 DEF ScriptInv, Single
  <2> QED
    BY ZenonT(60), <1>0, <2>1, <2>2, <2>3, <2>4 DEF ScriptInv
<1>12. CASE UNCHANGED progVars
  BY <1>0, <1>12 DEF progVars, ScriptInv
<1>13. CASE Exit \/ Die
  <2>1. /\ prog' \in {"cli", "coordinator"} /\ asked' = 0 /\ failed' = FALSE /\ target' = 0
        /\ todo' = <<>> /\ ended' \in 0..MaxProcesses
    BY <1>0, <1>13 DEF Exit, Die, ScriptInv
  <2>2. asked' \in Nat /\ target' \in 0..MaxIds
    BY <1>0, <2>1
  <2>3. failed' \in BOOLEAN
    BY ZenonT(60), <2>1
  <2> QED
    BY ZenonT(60), <1>1, <2>1, <2>2, <2>3 DEF ScriptInv
<1> QED
  BY ZenonT(60), <1>3, <1>4, <1>8, <1>9, <1>10, <1>11, <1>12, <1>13, ProgCases
  DEF PublishStep, SaveStep, allProgVars

\* The program is where the store is.
LEMMA LockStep ==
    ASSUME ProgTypeInv, [ProgNext]_allProgVars
    PROVE  LockInv'
<1> USE DEF MutexFree
<1>0. LockInv /\ ScriptInv /\ (saving # "no" => MutexFree)
  BY DEF ProgTypeInv, RecTypeInv, RecTypeOK
<1>1. CASE UNCHANGED <<pub, saving>> /\ pub.step = "idle" /\ saving = "no"
  BY <1>1 DEF LockInv
<1>2. CASE UNCHANGED <<pub, saving, todo>>
  BY <1>0, <1>2 DEF LockInv, Call
<1>3. CASE pub'.step = "idle" /\ saving' = "no"
  BY ZenonT(60), <1>3 DEF LockInv
<1>4. CASE \/ \E cmd \in CliCommands : Command(cmd)
           \/ \E req \in CoordinatorRequests : Request(req)
  <2>1. todo = <<>> /\ UNCHANGED <<pub, saving>>
    BY <1>4 DEF Command, Request, Begin, allVars, vars, recVars
  <2> QED
    BY ZenonT(60), <1>0, <1>1, <2>1 DEF LockInv, Call
<1>5. CASE PlainCall
  BY ZenonT(60), <1>1, <1>5 DEF PlainCall
<1>6. CASE Describe
  BY ZenonT(60), <1>1, <1>6, PublishSteps DEF Describe, make_full_descriptor
<1>7. CASE StartPublish
  <2>1. /\ todo # <<>> /\ Head(todo) = "publish" /\ todo' = <<"publishing">> \o Tail(todo)
        /\ saving' = "no"
    BY <1>7, PublishSteps DEF StartPublish, Call
  <2>2. Call("publishing")'
    BY <1>0, <2>1, PublishingScripted DEF ScriptInv, Call
  <2> QED
    BY <2>1, <2>2 DEF LockInv
<1>8. CASE PublishStep
  <2>1. Call("publishing")' /\ saving' = "no"
    BY <1>8, PublishSteps DEF PublishStep, progVars, Call
  <2> QED
    BY <2>1 DEF LockInv
<1>9. CASE SaveStep
  <2>1. Call("save")' /\ pub' = pub /\ pub.step = "idle"
    BY <1>0, <1>9 DEF SaveStep, WriteTemp, RemoveOld, progVars, Call, vars
  <2> QED
    BY <2>1 DEF LockInv
<1>10. CASE EndSave
  BY ZenonT(60), <1>0, <1>3, <1>10 DEF EndSave, Rename, vars
<1>11. CASE Exit \/ Die
  BY <1>3, <1>11 DEF Exit, Die, Crash, NewProcess, Idle
<1>12. CASE Environment /\ InMemory /\ UNCHANGED progVars
  BY ZenonT(60), <1>2, <1>12 DEF Environment, Damage, Outage, Return, InMemory, progVars
<1>13. CASE UNCHANGED allProgVars
  BY <1>2, <1>13 DEF allProgVars, allVars, vars, recVars, progVars
<1> QED
  BY ZenonT(60), <1>4, <1>5, <1>6, <1>7, <1>8, <1>9, <1>10, <1>11, <1>12, <1>13, ProgCases

LEMMA ProgTypeStep == ProgTypeInv /\ [ProgNext]_allProgVars => ProgTypeInv'
BY ZenonT(60), ProgIsRec, RecTypeStep, ScriptStep, LockStep DEF ProgTypeInv

LEMMA ProgTypeInit == ProgInit => ProgTypeInv
<1> SUFFICES ASSUME ProgInit PROVE ProgTypeInv
  BY ZenonT(60)
<1>1. RecTypeInv /\ MutexFree /\ saving = "no"
  <2>1. RecInit /\ pub = Idle /\ saving = "no"
    BY ZenonT(60) DEF ProgInit, RecInit, Init
  <2> QED
    BY <2>1, RecTypeInit DEF MutexFree, Idle
<1>2. /\ prog \in {"cli", "coordinator"} /\ asked = 0 /\ todo = <<>> /\ target = 0
      /\ failed = FALSE /\ ended = 0
  BY DEF ProgInit
<1>3. asked \in Nat /\ target \in 0..MaxIds /\ ended \in 0..MaxProcesses /\ Scripted(<<>>)
  BY <1>2, StoreAssumption, ProgramsAssumption DEF Scripted
<1>4. failed \in BOOLEAN
  BY ZenonT(60), <1>2
<1>5. ScriptInv
  BY ZenonT(60), <1>2, <1>3, <1>4 DEF ScriptInv
<1> QED
  BY <1>1, <1>5 DEF ProgTypeInv, LockInv

\* The programs keep the types of the store, its state file and their own
\* variables; the store is inside publish or save_state only when the command
\* under way is.
THEOREM ProgramTypes == ProgSpec => []ProgTypeOK
<1>1. ProgTypeInv => ProgTypeOK
  BY DEF ProgTypeInv, RecTypeInv, ScriptInv, LockInv, ProgTypeOK
<1> QED
  BY <1>1, ProgTypeInit, ProgTypeStep, PTL DEF ProgSpec

-----------------------------------------------------------------------------
(***************************************************************************)
(* Descriptors.                                                            *)
(***************************************************************************)
ProgRecordInv == ProgTypeInv /\ IdInv /\ ImageInv

LEMMA ProgRecordStep == ProgRecordInv /\ [ProgNext]_allProgVars => ProgRecordInv'
BY ZenonT(60), ProgIsRec, RecordStep, ProgTypeStep DEF ProgRecordInv, ProgTypeInv

LEMMA ProgRecordInit == ProgInit => ProgRecordInv
BY ProgTypeInit, RecordInit DEF ProgInit, ProgRecordInv

\* Only a descriptor is followed by publish.
LEMMA AfterCall ==
    ASSUME ScriptInv, todo # <<>>, Head(todo) \notin {"describe", "describe own"},
           todo' = Tail(todo)
    PROVE  ~ Call("publish")'
<1>1. Tail(todo) # <<>> => <<Head(todo), Head(Tail(todo))>> \in Follows
  BY ZenonT(60), TailScripted DEF ScriptInv
<1> QED
  BY ZenonT(60), <1>1 DEF Follows, Call

\* A fresh descriptor is admitted, and stays so until publish takes it.
LEMMA AdmittedStep ==
    ASSUME ProgTypeInv, IdInv, DescribedIsAdmitted, [ProgNext]_allProgVars
    PROVE  DescribedIsAdmitted'
<1>0. ScriptInv /\ TypeOK
  BY ZenonT(60) DEF ProgTypeInv, RecTypeInv, RecTypeOK
<1>1. CASE UNCHANGED <<todo, target, desc, life, boot, nextGen>>
  BY <1>1 DEF DescribedIsAdmitted, Call, Admitted, Made, Existing
<1>2. CASE ~ Call("publish")'
  BY <1>2 DEF DescribedIsAdmitted
<1>3. ASSUME NEW s, Begin(s), Scripted(s), s # <<>>, s[1] \notin {"publish", "publishing", "run"}
      PROVE  ~ Call("publish")'
  BY ZenonT(60), <1>3, TailScripted DEF Begin, Call
<1>4. CASE \/ \E cmd \in CliCommands : Command(cmd)
           \/ \E req \in CoordinatorRequests : Request(req)
  BY ZenonT(60), <1>2, <1>3, <1>4, CliScripts, RequestScripts DEF Command, Request
<1>5. CASE PlainCall \/ EndSave
  <2>1. CASE Throws
    BY <1>2, <2>1 DEF Throws, Call
  <2>2. CASE Returns /\ todo # <<>> /\ Head(todo) \notin {"describe", "describe own"}
    BY ZenonT(60), <1>0, <1>2, <2>2, AfterCall DEF Returns
  <2> QED
    BY ZenonT(60), <1>5, <2>1, <2>2 DEF PlainCall, EndSave, Call
<1>6. CASE Describe
  <2>1. PICK f \in FamilyIds : make_full_descriptor(f, "keep_latest_n", {}, 1)
    BY ZenonT(60), <1>6 DEF Describe
  <2>2. /\ target' = nextId /\ nextId \in Ids /\ nextGen[f] > 0
        /\ desc' = [desc EXCEPT ![nextId] =
                      [family |-> f, gen |-> nextGen[f], boot |-> boot,
                       retention |-> "keep_latest_n", lineage |-> {}, replicas |-> 1]]
        /\ UNCHANGED <<nextGen, life, boot>>
    BY ZenonT(60), <1>6, <2>1 DEF Describe, make_full_descriptor, ctlVars
  <2>3. desc'[nextId].family = f /\ desc'[nextId].gen = nextGen[f] /\ desc'[nextId].boot = boot
    BY ZenonT(60), <1>0, <2>2 DEF TypeOK
  <2>4. life[nextId] = "none"
    BY <1>0, <2>2 DEF IdInv, TypeOK
  <2>5. Admitted(target)'
    BY ZenonT(60), <2>1, <2>2, <2>3, <2>4 DEF Admitted, Made, Existing
  <2> QED
    BY <2>5 DEF DescribedIsAdmitted
<1>7. CASE StartPublish
  <2>1. todo # <<>> /\ Head(todo) = "publish" /\ todo' = <<"publishing">> \o Tail(todo)
    BY <1>7 DEF StartPublish, Call
  <2>2. Head(todo') = "publishing"
    BY ZenonT(60), <1>0, <2>1, PublishingScripted DEF ScriptInv
  <2> QED
    BY <1>2, <2>2 DEF Call
<1>8. CASE PublishStep \/ SaveStep
  BY ZenonT(60), <1>2, <1>8, PublishSteps DEF PublishStep, SaveStep, progVars, Call
<1>9. CASE Exit \/ Die
  BY ZenonT(60), <1>2, <1>9 DEF Exit, Die, Call
<1>10. CASE Environment /\ InMemory /\ UNCHANGED progVars
  BY ZenonT(60), <1>1, <1>10 DEF Environment, Damage, Outage, Return, progVars, idVars,
     catalogVars, ctlVars
<1>11. CASE UNCHANGED allProgVars
  BY <1>1, <1>11 DEF allProgVars, allVars, vars, progVars, idVars, catalogVars, ctlVars
<1> QED
  BY ZenonT(60), <1>4, <1>5, <1>6, <1>7, <1>8, <1>9, <1>10, <1>11, ProgCases

\* The descriptor that a command or a request has made passes all checks of
\* the publish that follows, whatever earlier processes saved, lost or repeated.
THEOREM PublishIsAdmitted == ProgSpec => []DescribedIsAdmitted
<1>1. ProgInit => DescribedIsAdmitted
  BY DEF ProgInit, DescribedIsAdmitted, Call
<1>2. ProgRecordInv /\ DescribedIsAdmitted /\ [ProgNext]_allProgVars => DescribedIsAdmitted'
  BY AdmittedStep DEF ProgRecordInv
<1> QED
  BY <1>1, <1>2, ProgRecordInit, ProgRecordStep, PTL DEF ProgSpec

\* The programs' state file never disagrees with the running store, and the
\* store knows every checkpoint in it, whichever processes ran and died.
THEOREM ProgramsKeepRecords == ProgSpec => []SavedRecordsKept
<1>1. ProgRecordInv => SavedRecordsKept
  BY DEF ProgRecordInv, ImageInv, SavedRecordsKept
<1> QED
  BY <1>1, ProgRecordInit, ProgRecordStep, PTL DEF ProgSpec

\* For both programs the store and its state file are the durable catalogue of
\* module Durable, whichever commands run, fail, exit and die.
THEOREM ProgramsAreDurable == ProgSpec => ImplementsDurable
<1>1. ProgRecordInv /\ [ProgNext]_allProgVars
        => [Dur!DurableNext]_<<Visible, VisibleFile, saving # "no">>
  BY ProgIsRec, DurableStep DEF ProgRecordInv, ProgTypeInv
<1>2. ProgInit => Dur!DurableInit
  BY DurableStart DEF ProgInit
<1> QED
  BY <1>1, <1>2, ProgRecordInit, ProgRecordStep, PTL
  DEF ProgSpec, ImplementsDurable, Dur!DurableSpec

\* A boot that register gives the store in the coordinator, and the boot that a
\* load brings back, reach no publish under way: every program commits a
\* checkpoint only under the boot its descriptor was made under.
THEOREM ProgramsCommitUnderOwnBoot == ProgSpec => PublishedUnderOwnBoot
<1> DEFINE Own == \A c \in Ids : life[c] = "none" /\ life'[c] # "none" => desc[c].boot = boot
<1>1. ProgInit => OwnBoot
  <2> SUFFICES ASSUME ProgInit PROVE OwnBoot
    OBVIOUS
  <2>1. pub = Idle
    BY ZenonT(60) DEF ProgInit, RecInit, Init
  <2> QED
    BY <2>1 DEF OwnBoot, Idle
<1>2. ProgRecordInv /\ OwnBoot /\ [ProgNext]_allProgVars => OwnBoot' /\ [Own]_vars
  BY ZenonT(60), ProgIsRec, RecBootStep DEF ProgRecordInv, ProgTypeInv
<1> QED
  BY <1>1, <1>2, ProgRecordInit, ProgRecordStep, PTL DEF ProgSpec, PublishedUnderOwnBoot
-----------------------------------------------------------------------------
(***************************************************************************)
(* Progress: how far a command is from its end.                            *)
(***************************************************************************)
\* What is left of the publish under way, and of the save.
PublishLeft ==
    CASE pub.step = "lookup" -> 2 * (Len(pub.data) - pub.at) + 3
      [] pub.step = "write"  -> 2 * (Len(pub.data) - pub.at) + 2
      [] OTHER               -> 1
SaveLeft == IF saving = "no" THEN 2 ELSE IF saving = "temp" THEN 1 ELSE 0

\* What is left of the call under way.
WorkLeft ==
    IF ~ MutexFree THEN PublishLeft
    ELSE IF Call("publish") THEN 2 * MaxChunks + 2
    ELSE IF Call("save") THEN SaveLeft ELSE 0

\* Every step of a command or a request either ends a call or brings the call
\* under way nearer to its end; the backend's faults do not set it back.
CommandsAdvance ==
    [][todo # <<>> => /\ WorkLeft \in Nat
                      /\ \/ Len(todo') < Len(todo)
                         \/ Len(todo') = Len(todo) /\ WorkLeft' < WorkLeft
                         \/ Environment /\ UNCHANGED <<todo, WorkLeft>>]_allProgVars

\* The publish under way has work left.
LEMMA PublishLeftTyped ==
    ASSUME TypeInv, ~ MutexFree
    PROVE  /\ PublishLeft \in Nat \ {0} /\ pub \in Publishing
           /\ Len(pub.data) \in Nat /\ Len(pub.data) <= MaxChunks
           /\ pub.step \in {"lookup", "write"} =>
                 pub.at \in Nat /\ pub.at >= 1 /\ pub.at <= Len(pub.data)
<1>1. pub \in Publishing /\ pub.data \in Seq(Digests) /\ Len(pub.data) <= MaxChunks
  BY DEF TypeInv, TypeOK, Publishing, Streams
<1>2. Len(pub.data) \in Nat /\ DOMAIN pub.data = 1..Len(pub.data)
  BY <1>1
<1>3. pub.step \in {"lookup", "write"} =>
         pub.at \in Nat /\ pub.at >= 1 /\ pub.at <= Len(pub.data)
  BY <1>1, <1>2 DEF TypeInv, PublishInRange, MutexFree
<1>4. PublishLeft \in Nat \ {0}
  <2>1. CASE pub.step = "lookup"
    BY <1>2, <1>3, <2>1 DEF PublishLeft
  <2>2. CASE pub.step = "write"
    BY <1>2, <1>3, <2>2 DEF PublishLeft
  <2>3. CASE pub.step \notin {"lookup", "write"}
    BY <2>3 DEF PublishLeft
  <2> QED
    BY ZenonT(60), <2>1, <2>2, <2>3
<1> QED
  BY ZenonT(60), <1>1, <1>2, <1>3, <1>4

\* Every step of publish leaves less to do.
LEMMA PublishAdvances ==
    ASSUME TypeInv, ~ MutexFree,
           ReuseChunk \/ MissChunk \/ WriteChunk \/ FailWrite \/ FailReadBack \/ Commit
    PROVE  ~ MutexFree' => PublishLeft' < PublishLeft
<1>1. /\ pub \in Publishing /\ Len(pub.data) \in Nat
      /\ pub.step \in {"lookup", "write"} =>
            pub.at \in Nat /\ pub.at >= 1 /\ pub.at <= Len(pub.data)
  BY PublishLeftTyped
<1>2. ASSUME pub.step \in {"lookup", "write"}, pub'.data = pub.data, pub'.at = pub.at + 1,
             pub'.step = AfterChunk
      PROVE  PublishLeft' < PublishLeft
  <2>1. CASE pub.at = Len(pub.data)
    <3>1. pub'.step = "verify"
      BY <1>2, <2>1 DEF AfterChunk
    <3>2. PublishLeft' = 1
      BY <3>1 DEF PublishLeft
    <3>3. PublishLeft >= 2
      BY <1>1, <1>2, <2>1 DEF PublishLeft
    <3> QED
      BY <3>2, <3>3, PublishLeftTyped
  <2>2. CASE pub.at # Len(pub.data)
    <3>1. pub'.step = "lookup"
      BY <1>2, <2>2 DEF AfterChunk
    <3>2. PublishLeft' = 2 * (Len(pub.data) - (pub.at + 1)) + 3
      BY <1>2, <3>1 DEF PublishLeft
    <3>3. PublishLeft \in {2 * (Len(pub.data) - pub.at) + 3, 2 * (Len(pub.data) - pub.at) + 2}
      BY <1>2 DEF PublishLeft
    <3> QED
      BY <1>1, <1>2, <3>2, <3>3
  <2> QED
    BY ZenonT(60), <2>1, <2>2
<1>3. CASE ReuseChunk
  BY ZenonT(60), <1>1, <1>2, <1>3 DEF ReuseChunk, Publishing
<1>4. CASE MissChunk
  <2>1. pub.step = "lookup" /\ pub'.step = "write" /\ pub'.data = pub.data /\ pub'.at = pub.at
    BY <1>1, <1>4 DEF MissChunk, Publishing
  <2>2. /\ PublishLeft = 2 * (Len(pub.data) - pub.at) + 3
        /\ PublishLeft' = 2 * (Len(pub.data) - pub.at) + 2
    BY <2>1 DEF PublishLeft
  <2> QED
    BY <1>1, <2>1, <2>2
<1>5. CASE WriteChunk
  BY ZenonT(60), <1>1, <1>2, <1>5 DEF WriteChunk, Publishing
<1>6. CASE FailWrite \/ FailReadBack \/ Commit
  <2>1. pub' = Idle
    BY ZenonT(60), <1>6 DEF FailWrite, FailReadBack, Commit, Rollback
  <2> QED
    BY <2>1 DEF Idle, MutexFree
<1> QED
  BY ZenonT(60), <1>3, <1>4, <1>5, <1>6

\* A command's calls are a finite script, each of them takes finitely many steps, and
\* no step repeats or adds one (the loops of publish, the steps of save_state, the
\* early returns and throws of the commands): a failing chunk write, its rollback or
\* a failing save cannot keep a command or a request busy for ever.
THEOREM ProgramsAdvance == ProgSpec => CommandsAdvance
<1> DEFINE Advance == todo # <<>> => /\ WorkLeft \in Nat
                                     /\ \/ Len(todo') < Len(todo)
                                        \/ Len(todo') = Len(todo) /\ WorkLeft' < WorkLeft
                                        \/ Environment /\ UNCHANGED <<todo, WorkLeft>>
<1>1. ProgTypeInv /\ [ProgNext]_allProgVars => [Advance]_allProgVars
  <2> SUFFICES ASSUME ProgTypeInv, ProgNext, ~ UNCHANGED allProgVars, todo # <<>>
               PROVE  /\ WorkLeft \in Nat
                      /\ \/ Len(todo') < Len(todo)
                         \/ Len(todo') = Len(todo) /\ WorkLeft' < WorkLeft
                         \/ Environment /\ UNCHANGED <<todo, WorkLeft>>
    BY ZenonT(60)
  <2>1. /\ TypeInv /\ Scripted(todo) /\ Len(todo) \in Nat /\ Len(todo) >= 1
        /\ Len(Tail(todo)) < Len(todo) /\ MaxChunks \in Nat
    BY StoreAssumption DEF ProgTypeInv, RecTypeInv, ScriptInv, Scripted
  <2>2. WorkLeft \in Nat
    BY <2>1, PublishLeftTyped DEF WorkLeft, SaveLeft
  <2>3. ASSUME todo' = Tail(todo) \/ todo' = <<>> PROVE Len(todo') < Len(todo)
    BY <2>1, <2>3
  <2>4. CASE PlainCall \/ Describe \/ EndSave \/ Die
    BY ZenonT(60), <2>2, <2>3, <2>4 DEF PlainCall, Returns, Throws, Describe, EndSave, Die
  <2>5. CASE StartPublish
    <3>1. PICK data \in Contents : publish(target, data)
      BY ZenonT(60), <2>5 DEF StartPublish
    <3>2. Call("publish") /\ MutexFree /\ todo' = <<"publishing">> \o Tail(todo)
      BY ZenonT(60), <2>5, <3>1 DEF StartPublish, publish
    <3>3. Len(todo') = Len(todo)
      BY <2>1, <3>2 DEF Scripted
    <3>4. Len(data) \in Nat /\ Len(data) <= MaxChunks /\ (Len(data) = 0 => data = <<>>)
      BY StoreAssumption
    <3>5. /\ pub'.data = data /\ pub'.at = 1
          /\ pub'.step = IF data = <<>> THEN "verify" ELSE "lookup"
      BY ZenonT(60), <3>1 DEF publish
    <3>6. ~ MutexFree' /\ WorkLeft' = PublishLeft'
      BY ZenonT(60), <3>5 DEF MutexFree, WorkLeft
    <3>7. PublishLeft' < 2 * MaxChunks + 2
      <4>1. CASE data = <<>>
        BY <2>1, <3>5, <4>1 DEF PublishLeft
      <4>2. CASE data # <<>>
        <5>1. PublishLeft' = 2 * (Len(data) - 1) + 3
          BY ZenonT(60), <3>5, <4>2 DEF PublishLeft
        <5> QED
          BY <2>1, <3>4, <5>1
      <4> QED
        BY <4>1, <4>2
    <3>8. WorkLeft = 2 * MaxChunks + 2
      BY <3>2 DEF WorkLeft
    <3> QED
      BY ZenonT(60), <2>2, <3>3, <3>6, <3>7, <3>8
  <2>6. CASE PublishStep
    <3>1. todo' = todo /\ ~ MutexFree /\ Call("publishing")
      BY ZenonT(60), <2>6, PublishSteps DEF PublishStep, progVars
    <3>2. WorkLeft = PublishLeft /\ PublishLeft \in Nat \ {0}
      BY ZenonT(60), <2>1, <3>1, PublishLeftTyped DEF WorkLeft
    <3>3. ~ MutexFree' => WorkLeft' < WorkLeft
      BY ZenonT(60), <2>1, <2>6, <3>1, <3>2, PublishAdvances DEF WorkLeft, PublishStep
    <3>4. MutexFree' => WorkLeft' = 0
      BY <3>1 DEF WorkLeft, Call
    <3> QED
      BY <2>2, <3>1, <3>2, <3>3, <3>4
  <2>7. CASE SaveStep
    <3>1. todo' = todo /\ Call("save") /\ Call("save")' /\ MutexFree /\ MutexFree'
      BY ZenonT(60), <2>7
      DEF SaveStep, progVars, Call, ProgTypeInv, LockInv, WriteTemp, RemoveOld, vars,
         MutexFree
    <3>2. ~ Call("publish") /\ ~ Call("publish")'
      BY ZenonT(60), <3>1 DEF Call
    <3>3. WorkLeft = SaveLeft /\ WorkLeft' = SaveLeft'
      BY ZenonT(60), <3>1, <3>2 DEF WorkLeft
    <3>4. SaveLeft' < SaveLeft
      BY <2>7 DEF SaveStep, WriteTemp, RemoveOld, SaveLeft
    <3> QED
      BY ZenonT(60), <2>2, <3>1, <3>3, <3>4
  <2>8. CASE Environment /\ InMemory /\ UNCHANGED progVars
    <3>1. UNCHANGED <<pub, todo, saving>>
      BY <2>8 DEF Environment, Damage, Outage, Return, InMemory, progVars
    <3>2. WorkLeft' = WorkLeft
      BY ZenonT(60), <3>1 DEF WorkLeft, PublishLeft, SaveLeft, MutexFree, Call
    <3> QED
      BY ZenonT(60), <2>2, <2>8, <3>1, <3>2
  <2>9. ~ Exit /\ ~ (\E cmd \in CliCommands : Command(cmd))
        /\ ~ (\E req \in CoordinatorRequests : Request(req))
    BY DEF Exit, Command, Request, Begin
  <2> QED
    BY ZenonT(60), <2>4, <2>5, <2>6, <2>7, <2>8, <2>9, ProgCases
<1> QED
  BY <1>1, ProgTypeInit, ProgTypeStep, PTL DEF ProgSpec, CommandsAdvance
=============================================================================
