--------------------------- MODULE CatalogProofs ---------------------------
(***************************************************************************)
(* What the catalogue of the store keeps in order, for every value of the  *)
(* constants: generations, retention, the marks of missing replicas, the   *)
(* blob records, the refcounts and the refinement of module Catalog.       *)
(***************************************************************************)
EXTENDS StoreProofs

\* The provers for a leaf that names none, in the order in which they are tried.
\* tlapm drops an attempt that takes it over 5 seconds to prepare: the next repeats it.
USE SMTT(60), SMTT(61), SMTT(62), SMTT(63), SMTT(64), ZenonT(60), SMTT(65), SMTT(66)

\* Ids and families are handed out in order, and only descriptors that were
\* made become records.
Numbered ==
    /\ \A c \in Ids : c >= nextId => c \notin Made /\ life[c] = "none"
    /\ \A f \in FamilyIds : f >= nextFamily => nextGen[f] = 0
    /\ Existing \subseteq Made
    /\ \A c \in Made : desc[c].gen > 0

\* What publish has checked stays true until it commits or fails.
StillAdmitted == pub.step # "idle" => Admitted(pub.id)

CatalogInv == TypeInv /\ Numbered /\ StillAdmitted /\ GenerationsDense

\* An empty store satisfies the invariant.
LEMMA CatalogInvInit == Init => CatalogInv
<1> SUFFICES ASSUME Init PROVE CatalogInv
  OBVIOUS
<1>1. /\ Made = {} /\ Existing = {} /\ life = [c \in Ids |-> "none"]
      /\ nextGen = [f \in FamilyIds |-> 0]
  <2>1. nextGen = [f \in FamilyIds |-> 0]
    BY ZenonT(60) DEF Init
  <2> QED
    BY ZenonT(60), <2>1, StartsEmpty
<1>2. Numbered
  BY <1>1 DEF Numbered
<1>3. StillAdmitted
  BY ZenonT(60), StartsEmpty DEF StillAdmitted
<1>4. GenerationsDense
  <2> SUFFICES ASSUME NEW f \in FamilyIds
               PROVE  {} = 1..(nextGen[f] - 1)
    BY <1>1 DEF GenerationsDense
  <2> QED
    BY <1>1
<1> QED
  BY <1>2, <1>3, <1>4, TypeInit DEF CatalogInv

\* The members of a family, and what GenerationsDense says about it.
Members(f) == {c \in Existing : desc[c].family = f}
DenseAt(f) ==
    /\ {desc[c].gen : c \in Members(f)} = 1..(nextGen[f] - 1)
    /\ \A c, x \in Members(f) : desc[c].gen = desc[x].gen => c = x

\* GenerationsDense, one family at a time.
LEMMA DenseByFamily == GenerationsDense <=> \A f \in FamilyIds : DenseAt(f)
BY ZenonT(60) DEF GenerationsDense, DenseAt, Members

\* Every operation of the store keeps the catalogue in order.
LEMMA CatalogInvStep == CatalogInv /\ [Next]_vars => CatalogInv'
<1> SUFFICES ASSUME CatalogInv, [Next]_vars PROVE Numbered' /\ StillAdmitted' /\ GenerationsDense'
  BY TypeStep DEF CatalogInv
<1> USE DEF MutexFree
<1>1. TypeInv /\ TypeInv' /\ Numbered /\ StillAdmitted /\ GenerationsDense
  BY TypeStep DEF CatalogInv
<1>2. ASSUME UNCHANGED <<idVars, desc>>, Existing' = Existing
      PROVE  Numbered' /\ GenerationsDense'
  <2>1. UNCHANGED <<nextFamily, nextGen, nextId, desc>>
    BY <1>2 DEF idVars
  <2>2. Made' = Made
    BY <2>1 DEF Made
  <2>3. \A c \in Ids : life[c] = "none" <=> life'[c] = "none"
    BY <1>2 DEF Existing
  <2>4. Numbered'
    BY <1>1, <1>2, <2>1, <2>2, <2>3 DEF Numbered
  <2>5. GenerationsDense'
    BY <1>1, <1>2, <2>1 DEF GenerationsDense
  <2> QED
    BY <2>4, <2>5
<1>3. ASSUME UNCHANGED <<idVars, desc, life, boot>>, NEW c \in Ids, Admitted(c)
      PROVE  Admitted(c)'
  BY <1>3 DEF Admitted, Made, Existing, idVars
\* The steps that change neither the catalogue nor publish.
<1>4. CASE UNCHANGED <<idVars, desc, life, boot, pub>>
  <2>1. Existing' = Existing
    BY <1>4 DEF Existing
  <2>2. StillAdmitted'
    <3>1. pub.step # "idle" => pub.id \in Ids
      BY <1>1 DEF StillAdmitted, Admitted, Made
    <3> QED
      BY <1>1, <1>3, <1>4, <3>1 DEF StillAdmitted
  <2> QED
    BY <1>2, <1>4, <2>1, <2>2
\* The steps of publish before it ends.
<1>5. CASE ReuseChunk \/ MissChunk \/ WriteChunk
  <2>1. /\ UNCHANGED <<idVars, desc, life, boot>> /\ pub.step # "idle"
        /\ pub'.id = pub.id
    <3>1. UNCHANGED <<idVars, desc, life, boot>> /\ pub.step # "idle"
      BY <1>5 DEF ReuseChunk, MissChunk, WriteChunk, catalogVars, ctlVars
    <3>2. pub'.id = pub.id
      <4>1. pub \in Publishing
        BY <1>1 DEF TypeInv, TypeOK
      <4>2. CASE ReuseChunk
        BY <4>1, <4>2 DEF ReuseChunk, Publishing
      <4>3. CASE MissChunk
        BY <4>1, <4>3 DEF MissChunk, Publishing
      <4>4. CASE WriteChunk
        BY <4>1, <4>4 DEF WriteChunk, Publishing
      <4> QED
        BY <1>5, <4>2, <4>3, <4>4
    <3> QED
      BY <3>1, <3>2
  <2>2. Existing' = Existing
    BY <2>1 DEF Existing
  <2>3. Admitted(pub.id) /\ pub.id \in Ids
    BY <1>1, <2>1 DEF StillAdmitted, Admitted, Made
  <2> QED
    BY <1>2, <1>3, <2>1, <2>2, <2>3 DEF StillAdmitted, Admitted, Made, Existing, idVars
<1>6. CASE FailWrite \/ FailReadBack
  <2>1. UNCHANGED <<idVars, desc, life, boot>> /\ pub' = Idle
    BY ZenonT(60), <1>6 DEF FailWrite, FailReadBack, Rollback, catalogVars, ctlVars
  <2> QED
    BY <1>2, <2>1 DEF StillAdmitted, Idle, Existing
<1>7. CASE \E c \in Ids, data \in Contents : publish(c, data)
  <2>1. PICK c \in Ids, data \in Contents : publish(c, data)
    BY <1>7
  <2>2. UNCHANGED <<idVars, desc, life, boot>> /\ pub'.id = c /\ Admitted(c)
    BY <2>1 DEF publish, catalogVars, ctlVars
  <2>3. Admitted(c)'
    BY <1>3, <2>2
  <2>4. Existing' = Existing
    BY <2>2 DEF Existing
  <2> QED
    BY <1>2, <2>2, <2>3, <2>4 DEF StillAdmitted, Admitted, Made, Existing, idVars
<1>8. CASE \E b \in Boots : set_authority_boot(b)
  <2>1. UNCHANGED <<idVars, desc, life, pub>> /\ pub.step = "idle"
    BY <1>8 DEF set_authority_boot, catalogVars
  <2> QED
    BY <1>2, <2>1 DEF StillAdmitted, Existing
<1>9. CASE create_family
  <2>1. /\ nextFamily \in FamilyIds /\ nextFamily' = nextFamily + 1
        /\ nextGen' = [nextGen EXCEPT ![nextFamily] = 1]
        /\ UNCHANGED <<nextId, desc, life, pub>> /\ pub.step = "idle"
    BY <1>9 DEF create_family, catalogVars
  <2>2. Made' = Made /\ Existing' = Existing
    BY <2>1 DEF Made, Existing
  <2>3. nextGen \in [FamilyIds -> Nat] /\ FamilyIds \subseteq Nat
    BY <1>1 DEF TypeInv, TypeOK, FamilyIds
  <2>4. nextGen[nextFamily] = 0
    BY <1>1, <2>1, <2>3 DEF Numbered
  <2>5. Numbered'
    <3>1. ASSUME NEW f \in FamilyIds, f >= nextFamily' PROVE nextGen'[f] = 0
      <4>1. f # nextFamily /\ f >= nextFamily
        BY <2>1, <2>3, <3>1
      <4> QED
        BY <1>1, <2>1, <2>3, <4>1 DEF Numbered
    <3>2. UNCHANGED <<nextId, desc, life>>
      BY <2>1
    <3> QED
      BY <1>1, <2>2, <3>1, <3>2 DEF Numbered
  <2>6. ASSUME NEW f \in FamilyIds PROVE DenseAt(f)'
    <3>1. Members(f)' = Members(f) /\ DenseAt(f)
      BY <1>1, <2>1, <2>2, DenseByFamily DEF Members
    <3>2. 1..(nextGen'[f] - 1) = 1..(nextGen[f] - 1)
      <4>1. CASE f = nextFamily
        <5>1. nextGen'[f] = 1 /\ nextGen[f] = 0
          BY <2>1, <2>3, <2>4, <4>1
        <5> QED
          BY <5>1
      <4>2. CASE f # nextFamily
        BY <2>1, <2>3, <4>2
      <4> QED
        BY <4>1, <4>2
    <3>3. desc' = desc
      BY <2>1
    <3> QED
      <4>1. {desc'[c].gen : c \in Members(f)'} = {desc[c].gen : c \in Members(f)}
        BY <3>1, <3>3
      <4>2. {desc'[c].gen : c \in Members(f)'} = 1..(nextGen'[f] - 1)
        BY <3>1, <3>2, <4>1, ZenonT(60) DEF DenseAt
      <4>3. \A c, x \in Members(f)' : desc'[c].gen = desc'[x].gen => c = x
        BY <3>1, <3>3, ZenonT(60) DEF DenseAt
      <4> QED
        BY <4>2, <4>3 DEF DenseAt
  <2>7. GenerationsDense'
    BY <2>6 DEF GenerationsDense, DenseAt, Members
  <2> QED
    BY <2>1, <2>5, <2>7 DEF StillAdmitted
<1>10. CASE \E f \in FamilyIds, r \in RetentionClasses, l \in Lineages, n \in ReplicaCounts :
               make_full_descriptor(f, r, l, n)
  <2>1. PICK f \in FamilyIds, r \in RetentionClasses, l \in Lineages, n \in ReplicaCounts :
               make_full_descriptor(f, r, l, n)
    BY <1>10
  <2>2. /\ nextId \in Ids /\ nextId' = nextId + 1 /\ nextGen[f] > 0 /\ pub.step = "idle"
        /\ UNCHANGED <<nextFamily, nextGen, life, pub>>
    BY <2>1 DEF make_full_descriptor
  <2>3. Ids \subseteq Nat /\ nextId \in Nat /\ desc \in [Ids -> Descriptors]
    BY <1>1 DEF TypeInv, TypeOK, Ids
  <2>4. /\ \A c \in Ids : c # nextId => desc'[c] = desc[c]
        /\ desc'[nextId].gen = nextGen[f]
    BY <2>1, <2>2, <2>3 DEF make_full_descriptor
  <2>5. Existing' = Existing /\ nextId \notin Existing
    BY <1>1, <2>2, <2>3 DEF Existing, Numbered
  <2>6. \A c \in Ids : c # nextId => (c \in Made' <=> c \in Made)
    BY <2>4 DEF Made
  <2>7. Numbered'
    <3>1. ASSUME NEW c \in Ids, c >= nextId' PROVE c \notin Made' /\ life'[c] = "none"
      BY <1>1, <2>2, <2>3, <2>6, <3>1 DEF Numbered
    <3>2. Existing' \subseteq Made'
      BY <1>1, <2>5, <2>6 DEF Numbered, Existing
    <3>3. ASSUME NEW c \in Made' PROVE desc'[c].gen > 0
      <4>1. c \in Ids
        BY DEF Made
      <4> QED
        BY <1>1, <2>2, <2>4, <2>6, <4>1 DEF Numbered
    <3> QED
      BY ZenonT(60), <1>1, <2>2, <3>1, <3>2, <3>3 DEF Numbered
  <2>8. GenerationsDense'
    <3> SUFFICES ASSUME NEW g \in FamilyIds PROVE DenseAt(g)'
      BY DEF GenerationsDense, DenseAt, Members
    <3>1. \A c \in Existing : desc'[c] = desc[c]
      BY <2>4, <2>5 DEF Existing
    <3>2. Members(g)' = Members(g) /\ DenseAt(g)
      BY <1>1, <2>5, <3>1, DenseByFamily DEF Members
    <3>3. \A c \in Members(g) : desc'[c] = desc[c]
      BY <3>1 DEF Members
    <3> QED
      BY <2>2, <3>2, <3>3 DEF DenseAt
  <2> QED
    BY <2>2, <2>7, <2>8 DEF StillAdmitted
\* Commit adds pub.id, with the next generation, to its family.
<1>11. CASE Commit
  <2>0. PICK new \in Ids, F \in FamilyIds, G \in Nat :
           new = pub.id /\ F = desc[new].family /\ G = desc[new].gen
    <3>1. pub.id \in Ids /\ desc[pub.id].family \in FamilyIds
      BY <1>1, <1>11 DEF Commit, StillAdmitted, Admitted, Made
    <3>2. desc[pub.id].gen \in Nat
      BY <1>1, <3>1 DEF TypeInv, TypeOK, Descriptors
    <3> QED
      BY ZenonT(60), <3>1, <3>2
  <2>1. Admitted(new) /\ new \in Made
    BY ZenonT(60), <1>1, <1>11, <2>0 DEF Commit, StillAdmitted, Admitted, Made
  <2>2. /\ new \notin Existing /\ F \in FamilyIds /\ G = nextGen[F] /\ G > 0 /\ G \in Nat
        /\ nextGen \in [FamilyIds -> Nat] /\ Ids \subseteq Nat /\ FamilyIds \subseteq Nat
        /\ nextId \in Nat /\ nextFamily \in Nat
    BY <1>1, <2>0, <2>1 DEF Admitted, Made, TypeInv, TypeOK, Ids, FamilyIds
  <2>3. /\ life' = [life EXCEPT ![new] = "committed"]
        /\ nextGen' = [nextGen EXCEPT ![F] = G + 1]
        /\ UNCHANGED <<nextFamily, nextId, desc>> /\ pub' = Idle
    BY ZenonT(60), <1>11, <2>0 DEF Commit
  <2>4. Existing' = Existing \cup {new} /\ Made' = Made
    BY <1>1, <2>1, <2>3 DEF Existing, Made, TypeInv, TypeOK
  <2>5. /\ nextGen'[F] = G + 1
        /\ \A f \in FamilyIds : f # F => nextGen'[f] = nextGen[f]
    BY <2>2, <2>3
  <2>6. Numbered'
    <3>1. ASSUME NEW c \in Ids, c >= nextId PROVE c \notin Made /\ life'[c] = "none"
      BY <1>1, <2>1, <2>3, <3>1 DEF Numbered, TypeInv, TypeOK
    <3>2. ASSUME NEW f \in FamilyIds, f >= nextFamily PROVE nextGen'[f] = 0
      BY <1>1, <2>2, <2>5, <3>2 DEF Numbered
    <3>3. Existing' \subseteq Made' /\ \A c \in Made' : desc'[c].gen > 0
      BY <1>1, <2>1, <2>3, <2>4 DEF Numbered
    <3>4. nextId' = nextId /\ nextFamily' = nextFamily /\ Made' = Made
      BY <2>3, <2>4
    <3> QED
      BY ZenonT(60), <3>1, <3>2, <3>3, <3>4 DEF Numbered
  <2>7. ASSUME NEW f \in FamilyIds, f # F PROVE DenseAt(f)'
    <3>1. Members(f)' = Members(f) /\ DenseAt(f)
      BY ZenonT(60), <1>1, <2>3, <2>4, <2>7, <2>0, DenseByFamily DEF Members
    <3>2. nextGen'[f] = nextGen[f] /\ desc' = desc
      BY <2>3, <2>5, <2>7
    <3> QED
      BY <3>1, <3>2 DEF DenseAt
  <2>8. DenseAt(F)'
    <3>1. Members(F)' = Members(F) \cup {new} /\ desc' = desc
      BY <2>0, <2>3, <2>4 DEF Members
    <3>2. DenseAt(F)
      BY <1>1, <2>2, DenseByFamily
    <3>3. {desc[c].gen : c \in Members(F)} = 1..(G - 1)
      BY <2>2, <3>2 DEF DenseAt
    <3>4. {desc[c].gen : c \in Members(F) \cup {new}} = 1..G
      <4>1. {desc[c].gen : c \in Members(F) \cup {new}}
              = {desc[c].gen : c \in Members(F)} \cup {G}
        BY <2>0
      <4>2. (1..(G - 1)) \cup {G} = 1..G
        BY <2>2
      <4> QED
        BY ZenonT(60), <3>3, <4>1, <4>2
    <3>5. \A c \in Members(F) : desc[c].gen # G
      <4> SUFFICES ASSUME NEW c \in Members(F) PROVE desc[c].gen # G
        OBVIOUS
      <4>1. desc[c].gen \in 1..(G - 1)
        BY <3>3
      <4> QED
        BY <2>2, <4>1
    <3>6. \A c, x \in Members(F) \cup {new} : desc[c].gen = desc[x].gen => c = x
      BY <2>0, <3>2, <3>5 DEF DenseAt
    <3>7. (G + 1) - 1 = G
      BY <2>2
    <3>8. {desc[c].gen : c \in Members(F) \cup {new}} = 1..(nextGen'[F] - 1)
      BY ZenonT(60), <2>5, <3>4, <3>7
    <3> QED
      BY ZenonT(60), <3>1, <3>6, <3>8 DEF DenseAt
  <2>9. GenerationsDense'
    BY <2>7, <2>8 DEF GenerationsDense, DenseAt, Members
  <2> QED
    BY <2>3, <2>6, <2>9 DEF StillAdmitted, Idle
\* Retirement and collection remove nothing from the catalogue.
<1>12. CASE \E c \in Ids : retire(c)
  <2>1. Existing' = Existing
    BY <1>1, <1>12 DEF retire, Existing, TypeInv, TypeOK
  <2> QED
    BY ZenonT(60), <1>2, <1>12, <2>1 DEF retire, StillAdmitted
<1>13. CASE gc_run
  <2>1. Existing' = Existing
    <3>1. PICK eligible \in SUBSET Live :
              life' = [c \in Ids |-> IF c \in eligible THEN "deleted" ELSE life[c]]
      BY <1>13 DEF gc_run, Sweep, gc_eligible_checkpoints
    <3> QED
      BY <3>1 DEF Existing, Live
  <2> QED
    BY ZenonT(60), <1>2, <1>13, <2>1 DEF gc_run, StillAdmitted
<1> QED
  BY ZenonT(60), <1>4, <1>5, <1>6, <1>7, <1>8, <1>9, <1>10, <1>11, <1>12, <1>13
  DEF Next, Environment, vars, idVars, catalogVars, ctlVars, set_retention_policy, gc_plan,
      reset_authority, verify_checkpoint, restore, Damage, Outage, Return

\* The generations that publish has committed in a family are 1, 2, 3, ... up
\* to the next one, each once, for any number of descriptors and boots.
THEOREM GenerationsAreDense == Spec => []GenerationsDense
BY CatalogInvInit, CatalogInvStep, PTL DEF Spec, CatalogInv
-----------------------------------------------------------------------------
(***************************************************************************)
(* The newest generations.                                                 *)
(***************************************************************************)
\* The n newest checkpoints of a family survive gc_run while they are committed,
\* of class keep_latest_n, and every policy of the family keeps n or more.
THEOREM LatestAreKept == Spec => LatestKept
<1> DEFINE Cond(c, n) ==
              /\ life[c] = "committed"
              /\ desc[c].retention = "keep_latest_n"
              /\ n > 1 => PoliciesOf(desc[c].family) # {}
              /\ \A p \in PoliciesOf(desc[c].family) : p.latest_n >= n \/ n = 1
              /\ Cardinality(Newer(c)) < n
           Kept == \A c \in Ids, n \in 1..MaxIds : Cond(c, n) => life'[c] # "deleted"
<1>1. CatalogInv /\ [Next]_vars => [Kept]_vars
  <2> SUFFICES ASSUME CatalogInv, [Next]_vars, NEW c \in Ids, NEW n \in 1..MaxIds, Cond(c, n)
               PROVE  life'[c] # "deleted"
    OBVIOUS
  <2>1. TypeInv /\ Existing \subseteq Made
    BY DEF CatalogInv, Numbered
  <2> QED
    BY ZenonT(60), <2>1, LatestStep
<1> QED
  BY <1>1, CatalogInvInit, CatalogInvStep, PTL DEF Spec, LatestKept

-----------------------------------------------------------------------------
(***************************************************************************)
(* The refinement of Catalog.                                              *)
(***************************************************************************)
\* The sets of Catalog in terms of the store's records.
LEMMA VisibleSets ==
    ASSUME TypeOK
    PROVE  /\ Cat!Committed = Existing
           /\ Cat!Restorable = Live
           /\ \A f : Cat!FamilyOf(f) = Members(f)
           /\ \A c \in Existing : /\ Visible[c].family = desc[c].family
                                  /\ Visible[c].gen = desc[c].gen
                                  /\ Visible[c].lineage = desc[c].lineage
                                  /\ Visible[c].retention = desc[c].retention
                                  /\ Visible[c].life = life[c]
<1>1. ASSUME NEW c \in Existing
      PROVE  /\ Visible[c].family = desc[c].family
             /\ Visible[c].gen = desc[c].gen
             /\ Visible[c].lineage = desc[c].lineage
             /\ Visible[c].retention = desc[c].retention
             /\ Visible[c].life = life[c]
  BY ZenonT(60) DEF Visible, VisibleEntry, Existing
<1>2. Cat!Committed = Existing
  BY DEF Cat!Committed, Visible, VisibleEntry, Existing
<1>3. Cat!Restorable = Live
  <2>1. \A c \in Ids : c \in Live <=> c \in Existing /\ life[c] # "deleted"
    BY DEF Live, Existing, TypeOK
  <2>2. Cat!Restorable = {c \in Existing : life[c] # "deleted"}
    BY <1>1, <1>2 DEF Cat!Restorable
  <2> QED
    BY <2>1, <2>2 DEF Live, Existing
<1>4. ASSUME NEW f PROVE Cat!FamilyOf(f) = Members(f)
  BY <1>1, <1>2 DEF Cat!FamilyOf, Members
<1> QED
  BY ZenonT(60), <1>1, <1>2, <1>3, <1>4

\* Commit publishes one entry.
LEMMA CommitPublishes ==
    ASSUME CatalogInv, Commit
    PROVE  \E c \in Ids : Cat!Publish(c)
<1>1. TypeOK /\ StillAdmitted /\ GenerationsDense
  BY ZenonT(60) DEF CatalogInv, TypeInv
<1>2. PICK new \in Ids : new = pub.id
  BY ZenonT(60), <1>1 DEF Commit, StillAdmitted, Admitted, Made
<1>3. /\ new \notin Existing /\ desc[new].family \in FamilyIds /\ desc[new] \in Descriptors
      /\ desc[new].gen = nextGen[desc[new].family] /\ desc[new].gen > 0
      /\ pub.data \in Streams
  BY ZenonT(60), <1>1, <1>2 DEF Commit, StillAdmitted, Admitted, Made, TypeOK, Publishing
<1>4. /\ desc' = desc
      /\ life' = [life EXCEPT ![new] = "committed"]
      /\ chunks' = [chunks EXCEPT ![new] = pub.data]
  BY <1>2 DEF Commit
<1> DEFINE entry == [family |-> desc[new].family, gen |-> desc[new].gen, data |-> pub.data,
                     lineage |-> desc[new].lineage, retention |-> desc[new].retention,
                     life |-> "committed"]
<1>5. Visible' = [Visible EXCEPT ![new] = entry]
  <2>1. /\ life'[new] = "committed" /\ chunks'[new] = pub.data
        /\ \A c \in Ids : c # new => life'[c] = life[c] /\ chunks'[c] = chunks[c]
    BY ZenonT(60), <1>1, <1>4 DEF TypeOK
  <2>2. Visible'[new] = entry
    BY ZenonT(60), <1>4, <2>1 DEF Visible, VisibleEntry
  <2>3. \A c \in Ids : c # new => Visible'[c] = Visible[c]
    BY <1>4, <2>1 DEF Visible, VisibleEntry
  <2>4. /\ Visible' = [c \in Ids |-> Visible'[c]]
        /\ [Visible EXCEPT ![new] = entry] = [c \in Ids |-> IF c = new THEN entry ELSE Visible[c]]
    BY ZenonT(60) DEF Visible
  <2> HIDE DEF entry
  <2> QED
    BY <2>2, <2>3, <2>4
<1>6. Visible'[new] = entry
  BY ZenonT(60), <1>5 DEF Visible
<1>7. entry \in Cat!Entries /\ entry.life = "committed"
  <2>1. /\ desc[new].gen \in Nat \ {0} /\ desc[new].lineage \in SUBSET Ids
        /\ desc[new].retention \in RetentionClasses \cup {"keep_latest_n"}
    BY <1>3 DEF Descriptors
  <2> QED
    BY ZenonT(60), <1>3, <2>1 DEF Cat!Entries
<1>8. entry.family = desc[new].family /\ entry.gen = desc[new].gen
  BY ZenonT(60)
<1> HIDE DEF entry
<1> DEFINE F == desc[new].family
           G == desc[new].gen
<1>9. {desc[c].gen : c \in Members(F)} = 1..(G - 1) /\ G \in Nat /\ G > 0
  BY <1>1, <1>3, DenseByFamily DEF DenseAt, Descriptors
<1>10. \A x \in Members(F) : desc[x].gen < G
  <2> SUFFICES ASSUME NEW x \in Members(F) PROVE desc[x].gen < G
    OBVIOUS
  <2>1. desc[x].gen \in 1..(G - 1)
    BY <1>9
  <2> QED
    BY <1>9, <2>1
<1>11. G = 1 \/ \E x \in Members(F) : desc[x].gen = G - 1
  <2>1. G # 1 => G - 1 \in 1..(G - 1)
    BY <1>9
  <2> QED
    BY <1>9, <2>1
<1>12. Cat!FamilyOf(F) = Members(F) /\ new \notin Cat!Committed
       /\ \A x \in Members(F) : Visible[x].gen = desc[x].gen
  BY <1>1, <1>3, VisibleSets DEF Members
<1>13. /\ \A x \in Cat!FamilyOf(F) : Visible[x].gen < G
       /\ G = 1 \/ \E x \in Cat!FamilyOf(F) : Visible[x].gen = G - 1
  BY <1>10, <1>11, <1>12
<1> HIDE DEF F, G
<1>14. entry.family = F /\ entry.gen = G
  BY <1>8 DEF F, G
<1>15. Cat!Publish(new)
  BY ZenonT(60), <1>5, <1>6, <1>7, <1>12, <1>13, <1>14 DEF Cat!Publish
<1> QED
  BY <1>15

\* retire takes one entry out of use.
LEMMA RetireRetires ==
    ASSUME CatalogInv, NEW c \in Ids, retire(c)
    PROVE  Cat!Retire(c)
<1>1. /\ TypeOK /\ life[c] = "committed" /\ c \in Existing
      /\ life' = [life EXCEPT ![c] = "retired"] /\ desc' = desc /\ chunks' = chunks
  BY DEF CatalogInv, TypeInv, retire, Existing
<1>2. c \in Cat!Committed /\ Visible[c].life = "committed"
  BY <1>1, VisibleSets
<1>3. Visible' = [Visible EXCEPT ![c].life = "retired"]
  <2>1. life'[c] = "retired" /\ \A x \in Ids : x # c => life'[x] = life[x]
    BY <1>1 DEF TypeOK
  <2>2. Visible'[c] = [Visible[c] EXCEPT !.life = "retired"]
    BY <1>1, <2>1 DEF Visible, VisibleEntry
  <2>3. \A x \in Ids : x # c => Visible'[x] = Visible[x]
    BY ZenonT(60), <1>1, <2>1 DEF Visible, VisibleEntry
  <2>4. Visible' = [x \in Ids |-> Visible'[x]] /\ Visible = [x \in Ids |-> Visible[x]]
    BY DEF Visible
  <2> QED
    BY <2>2, <2>3, <2>4
<1> QED
  BY <1>2, <1>3 DEF Cat!Retire

\* gc_run collects only what retention allows.
LEMMA GcCollects ==
    ASSUME CatalogInv, gc_run
    PROVE  \E S \in SUBSET Ids : Cat!Collect(S)
<1>1. TypeOK /\ GenerationsDense /\ Numbered
  BY DEF CatalogInv, TypeInv
<1>2. PICK pick \in find_policy, young \in SUBSET Timed :
          life' = [c \in Ids |-> IF c \in Live \ compute_protected(pick, young)
                                 THEN "deleted" ELSE life[c]]
  BY SweptUnprotected
<1>3. PICK S : S = Live \ compute_protected(pick, young)
  BY ZenonT(60)
<1>4. S \subseteq Live /\ Live \subseteq Existing /\ Live \subseteq Ids
  BY <1>3 DEF Live, Existing
<1>5. ASSUME NEW c \in S
      PROVE  /\ Visible[c].retention \notin {"pinned", "restore_point"}
             /\ ~ (Visible[c].retention = "keep_latest_n" /\ Cat!Newest(c))
  <2>1. c \in Existing /\ ~ is_protected(c, pick, young)
    BY ZenonT(60), <1>3, <1>4, ProtectedClosed
  <2>2. /\ Visible[c].retention = desc[c].retention /\ Visible[c].life = life[c]
        /\ Visible[c].family = desc[c].family /\ Visible[c].gen = desc[c].gen
    BY ZenonT(60), <1>1, <2>1, VisibleSets
  <2>3. desc[c].retention \notin {"pinned", "restore_point"}
    BY ZenonT(60), <2>1 DEF is_protected
  <2>4. ASSUME desc[c].retention = "keep_latest_n", Cat!Newest(c) PROVE FALSE
    <3>1. desc[c].family \in FamilyIds /\ c \in Members(desc[c].family)
      BY ZenonT(60), <1>1, <2>1 DEF Numbered, Made, Members
    <3>2. \A x \in Members(desc[c].family) : desc[x].gen <= desc[c].gen
      BY <1>1, <2>2, <2>4, VisibleSets DEF Cat!Newest, Members
    <3>3. life[c] = "committed"
      BY ZenonT(60), <2>2, <2>4 DEF Cat!Newest
    <3>4. \A x \in Members(desc[c].family) : desc[x].gen = desc[c].gen => x = c
      BY <1>1, <3>1, DenseByFamily DEF DenseAt
    <3>5. \A x \in Existing : desc[x].gen \in Nat /\ x \in Nat
      BY <1>1 DEF Existing, TypeOK, Descriptors, Ids
    <3>6. Newer(c) = {}
      <4> SUFFICES ASSUME NEW x \in Newer(c) PROVE FALSE
        OBVIOUS
      <4>1. /\ x \in Members(desc[c].family) /\ x \in Existing
            /\ desc[x].gen > desc[c].gen \/ (desc[x].gen = desc[c].gen /\ x > c)
        BY DEF Newer, Members
      <4> QED
        BY <2>1, <3>2, <3>4, <3>5, <4>1
    <3>7. Cardinality(Newer(c)) = 0
      BY ZenonT(60), <3>6, FS_EmptySet
    <3> DEFINE policy == pick[desc[c].family]
    <3>8. policy.latest_n \in Nat
      <4>1. \A p \in PolicyIds : retention[p] \in Policies
        BY ZenonT(60), <1>1 DEF TypeOK
      <4>2. policy \in {NoPolicy} \cup {retention[p] : p \in PolicyIds}
        BY <3>1 DEF find_policy
      <4> QED
        BY <4>1, <4>2 DEF NoPolicy, Policies
    <3> HIDE DEF policy
    <3>9. 0 < IF policy.latest_n > 0 THEN policy.latest_n ELSE 1
      BY <3>8
    <3> QED
      BY ZenonT(60), <2>1, <2>4, <3>3, <3>7, <3>9 DEF is_protected, AmongLatest, policy
  <2> QED
    BY <2>2, <2>3, <2>4
<1>6. ASSUME NEW c \in Live \ S PROVE Visible[c].lineage \cap S = {}
  <2>1. c \in compute_protected(pick, young) /\ c \in Existing
    BY ZenonT(60), <1>3, <1>4
  <2>2. desc[c].lineage \cap Existing \subseteq compute_protected(pick, young)
    BY ZenonT(60), <2>1, ProtectedClosed DEF LineageClosed
  <2>3. Visible[c].lineage = desc[c].lineage
    BY <1>1, <2>1, VisibleSets
  <2> QED
    BY ZenonT(60), <1>3, <1>4, <2>2, <2>3
<1>7. Visible' = [c \in Ids |-> IF c \in S THEN [Visible[c] EXCEPT !.life = "deleted"]
                                 ELSE Visible[c]]
  <2>1. /\ \A c \in Ids : life'[c] = IF c \in S THEN "deleted" ELSE life[c]
        /\ desc' = desc /\ chunks' = chunks
    BY ZenonT(60), <1>2, <1>3 DEF gc_run
  <2>2. ASSUME NEW c \in S PROVE Visible'[c] = [Visible[c] EXCEPT !.life = "deleted"]
    <3>1. c \in Ids /\ life[c] # "none" /\ life'[c] = "deleted"
      BY <1>4, <2>1 DEF Existing
    <3> QED
      BY <2>1, <3>1 DEF Visible, VisibleEntry
  <2>3. \A c \in Ids : c \notin S => Visible'[c] = Visible[c]
    BY ZenonT(60), <2>1 DEF Visible, VisibleEntry
  <2>4. Visible' = [c \in Ids |-> Visible'[c]]
    BY DEF Visible
  <2> QED
    BY ZenonT(60), <2>2, <2>3, <2>4
<1>8. Cat!Restorable = Live
  BY <1>1, VisibleSets
<1>9. Cat!Collect(S)
  BY ZenonT(60), <1>4, <1>5, <1>6, <1>7, <1>8 DEF Cat!Collect
<1> QED
  BY <1>4, <1>9

\* Whatever the interleaving of calls, chunk writes, faults and sweeps, what
\* clients see of the store is a behaviour of Catalog.
THEOREM StoreImplementsCatalog == Spec => ImplementsCatalog
<1>1. Init => Cat!CatalogInit
  <2> SUFFICES ASSUME Init PROVE Cat!CatalogInit
    OBVIOUS
  <2>1. life = [c \in Ids |-> "none"]
    BY ZenonT(60), StartsEmpty
  <2> QED
    BY <2>1 DEF Cat!CatalogInit, Cat!NoEntry, Visible, VisibleEntry
<1>2. CatalogInv /\ [Next]_vars => [Cat!CatalogNext]_Visible
  <2> SUFFICES ASSUME CatalogInv, [Next]_vars PROVE Cat!CatalogNext \/ Visible' = Visible
    OBVIOUS
  <2>1. CASE Commit
    BY <2>1, CommitPublishes DEF Cat!CatalogNext
  <2>2. CASE \E c \in Ids : retire(c)
    BY <2>2, RetireRetires DEF Cat!CatalogNext
  <2>3. CASE gc_run
    BY <2>3, GcCollects DEF Cat!CatalogNext
  <2>4. CASE UNCHANGED <<desc, life, chunks>>
    BY <2>4 DEF Visible
  <2>5. CASE \E f \in FamilyIds, r \in RetentionClasses, l \in Lineages, n \in ReplicaCounts :
                make_full_descriptor(f, r, l, n)
    <3>1. /\ life' = life /\ chunks' = chunks /\ nextId \in Ids
          /\ \A c \in Ids : c # nextId => desc'[c] = desc[c]
      BY <2>5 DEF make_full_descriptor, CatalogInv, TypeInv, TypeOK
    <3>2. life[nextId] = "none"
      BY <3>1 DEF CatalogInv, Numbered, Ids
    <3>3. \A c \in Ids : Visible'[c] = Visible[c]
      BY ZenonT(60), <3>1, <3>2 DEF Visible, VisibleEntry
    <3>4. Visible' = [c \in Ids |-> Visible'[c]] /\ Visible = [c \in Ids |-> Visible[c]]
      BY ZenonT(60) DEF Visible
    <3> QED
      BY ZenonT(60), <3>3, <3>4
  <2> QED
    BY ZenonT(60), <2>1, <2>2, <2>3, <2>4, <2>5 DEF Next, Environment, vars, create_family,
       set_authority_boot, publish, ReuseChunk, MissChunk, WriteChunk, FailWrite, FailReadBack,
       Rollback, set_retention_policy, gc_plan, reset_authority, verify_checkpoint, restore,
       Damage, Outage, Return, catalogVars
<1> QED
  BY <1>1, <1>2, CatalogInvInit, CatalogInvStep, PTL
  DEF Spec, ImplementsCatalog, Cat!CatalogSpec

-----------------------------------------------------------------------------
(***************************************************************************)
(* Replicas.                                                               *)
(***************************************************************************)
\* As long as nothing failed, no restore has degraded a replica set, so that what
\* asked for more replicas than publish makes is still marked under-replicated.
MarkedInv ==
    faults = 0 => \A c \in Live : desc[c].replicas > 1 => dur[c] = "under_replicated"

\* MarkedInv is inductive with NoFaultInv, by which every chunk a restore reads
\* is intact as long as nothing failed.
LEMMA MarkedStep ==
    ASSUME CatalogInv, NoFaultInv, MarkedInv, [Next]_vars
    PROVE  MarkedInv'
<1> SUFFICES ASSUME faults' = 0, NEW c \in Live', desc'[c].replicas > 1
             PROVE  dur'[c] = "under_replicated"
  BY DEF MarkedInv
<1> USE DEF MutexFree
<1>1. /\ TypeOK /\ c \in Ids /\ life'[c] \in {"committed", "retired"}
      /\ dur \in [Ids -> {"healthy", "under_replicated", "degraded"}]
  BY ZenonT(60) DEF CatalogInv, TypeInv, TypeOK, Live
<1>2. faults = 0
  BY NoFaultNow DEF CatalogInv
<1>3. \A x \in Live : desc[x].replicas > 1 => dur[x] = "under_replicated"
  BY <1>2 DEF MarkedInv
<1>4. CASE UNCHANGED <<desc, life, dur>>
  BY <1>1, <1>3, <1>4 DEF Live
<1>5. CASE \E f \in FamilyIds, r \in RetentionClasses, l \in Lineages, n \in ReplicaCounts :
              make_full_descriptor(f, r, l, n)
  <2>1. /\ life' = life /\ dur' = dur /\ nextId \in Ids
        /\ \A x \in Ids : x # nextId => desc'[x] = desc[x]
    BY <1>1, <1>5 DEF make_full_descriptor, TypeOK
  <2>2. c # nextId
    <3>1. life[nextId] = "none"
      BY <1>1, <2>1 DEF CatalogInv, Numbered, TypeOK, Ids
    <3> QED
      BY ZenonT(60), <1>1, <2>1, <3>1
  <2> QED
    BY ZenonT(60), <1>1, <1>3, <2>1, <2>2 DEF Live
<1>6. CASE Commit
  <2>1. /\ desc' = desc
        /\ life' = [life EXCEPT ![pub.id] = "committed"]
        /\ dur' = [dur EXCEPT ![pub.id] = IF desc[pub.id].replicas <= 1
                                            THEN "healthy" ELSE "under_replicated"]
    BY ZenonT(60), <1>6 DEF Commit
  <2>2. CASE c = pub.id
    <3>1. desc[c].replicas > 1 /\ desc[c].replicas \in Nat
      BY <1>1, <2>1 DEF TypeOK, Descriptors
    <3>2. dur'[c] = IF desc[c].replicas <= 1 THEN "healthy" ELSE "under_replicated"
      <4>1. c \in DOMAIN dur
        BY ZenonT(60), <1>1 DEF TypeOK
      <4> QED
        BY ZenonT(60), <2>1, <2>2, <4>1
    <3> QED
      BY <3>1, <3>2
  <2>3. CASE c # pub.id
    <3>1. life'[c] = life[c] /\ dur'[c] = dur[c]
      BY ZenonT(60), <1>1, <2>1, <2>3 DEF TypeOK
    <3> QED
      BY ZenonT(60), <1>1, <1>3, <2>1, <3>1 DEF Live
  <2> QED
    BY <2>2, <2>3
<1>7. CASE \E x \in Ids : retire(x)
  <2>1. Live' = Live /\ desc' = desc /\ dur' = dur
    BY <1>1, <1>7 DEF retire, Live, TypeOK
  <2> QED
    BY ZenonT(60), <1>3, <2>1
<1>8. CASE gc_run
  <2>1. c \in Live /\ desc' = desc /\ dur' = dur
    BY ZenonT(60), <1>8, GcSurvivor DEF gc_run
  <2> QED
    BY ZenonT(60), <1>3, <2>1
<1>9. CASE \E x \in Probed : verify_checkpoint(x)
  BY ZenonT(60), <1>4, <1>9 DEF verify_checkpoint
<1>10. CASE \E x \in Probed : restore(x)
  <2>1. PICK x \in Probed : restore(x)
    BY ZenonT(60), <1>10
  <2>2. x \in Live /\ desc' = desc /\ life' = life
    BY ZenonT(60), <2>1 DEF restore
  <2>3. Unreadable(x) = {}
    BY <1>2, <2>2 DEF NoFaultInv, Unreadable, ChunksOf
  <2>4. dur' = dur
    BY <2>1, <2>3 DEF restore
  <2> QED
    BY <1>4, <2>2, <2>4
<1> QED
  BY ZenonT(60), <1>4, <1>5, <1>6, <1>7, <1>8, <1>9, <1>10 DEF Next, Environment, vars,
     create_family, set_authority_boot, publish, ReuseChunk, MissChunk, WriteChunk,
     FailWrite, FailReadBack, Rollback, set_retention_policy, gc_plan, reset_authority,
     Damage, Outage, Return, catalogVars

\* As long as nothing failed and gc_run reads one time, a checkpoint that asked
\* for more replicas than publish makes is never deleted.
THEOREM UnderReplicatedAreKept ==
    ASSUME ~ ClockMovesInGc
    PROVE  Spec => UnderReplicatedKept
<1> DEFINE Kept == faults = 0 => \A c \in Live : desc[c].replicas > 1 => c \in Live'
<1>1. Init => NoFaultInv /\ MarkedInv
  BY ZenonT(60), NoFaultInit, StartsEmpty DEF MarkedInv
<1>2. CatalogInv /\ NoFaultInv /\ MarkedInv /\ [Next]_vars => NoFaultInv' /\ MarkedInv'
  BY NoFaultStep, MarkedStep DEF CatalogInv
<1>3. CatalogInv /\ MarkedInv /\ [Next]_vars => [Kept]_vars
  <2> SUFFICES ASSUME CatalogInv, MarkedInv, Next, faults = 0, NEW c \in Live,
                      desc[c].replicas > 1
               PROVE  c \in Live'
    BY ZenonT(60) DEF vars
  <2>1. c \in Ids /\ c \in Existing /\ dur[c] = "under_replicated"
    BY DEF MarkedInv, Live, Existing
  <2>2. CASE gc_run
    <3>1. PICK pick \in find_policy, young \in SUBSET Timed :
              life' = [y \in Ids |-> IF y \in Live \ compute_protected(pick, young)
                                     THEN "deleted" ELSE life[y]]
      BY ZenonT(60), <2>2, SweptUnprotected
    <3>2. is_protected(c, pick, young)
      BY ZenonT(60), <2>1 DEF is_protected
    <3>3. c \in compute_protected(pick, young)
      BY ZenonT(60), <2>1, <3>2, ProtectedClosed
    <3> QED
      BY ZenonT(60), <2>1, <3>1, <3>3 DEF Live
  <2> QED
    BY <2>1, <2>2, OnlyGcDeletes DEF CatalogInv
<1> QED
  BY <1>1, <1>2, <1>3, CatalogInvInit, CatalogInvStep, PTL DEF Spec, UnderReplicatedKept
-----------------------------------------------------------------------------
(***************************************************************************)
(* Blob records.                                                           *)
(***************************************************************************)
\* Live chunks are tracked, and what publish has placed has a blob record
\* before Commit makes it part of a live checkpoint.
TrackedInv ==
    /\ LiveChunksTracked
    /\ pub.step # "idle" => PlacedChunks \subseteq blobs

\* TrackedInv is inductive if gc_run reads one time.
LEMMA TrackedStep ==
    ASSUME TypeInv, TrackedInv, [Next]_vars, ~ ClockMovesInGc
    PROVE  TrackedInv'
<1> USE DEF MutexFree
<1>1. /\ TypeOK /\ LiveChunksTracked
      /\ pub.step # "idle" => PlacedChunks \subseteq blobs
  BY ZenonT(60) DEF TypeInv, TrackedInv
<1>2. CASE /\ UNCHANGED <<life, chunks, blobs, held>>
           /\ pub' = pub \/ pub'.step = "idle"
  BY <1>1, <1>2 DEF TrackedInv, LiveChunksTracked, Live, ChunksOf, PlacedChunks
<1>3. CASE \E c \in Ids, data \in Contents : publish(c, data)
  <2>1. PICK c \in Ids, data \in Contents : publish(c, data)
    BY <1>3
  <2>2. data \in Seq(Digests)
    BY ZenonT(60), StoreAssumption
  <2>3. PlacedChunks' = {}
    BY <2>1, <2>2 DEF publish, PlacedChunks
  <2> QED
    BY <1>1, <2>1, <2>3
    DEF publish, catalogVars, dedupVars, TrackedInv, LiveChunksTracked, Live, ChunksOf
<1>4. pub.step \in {"lookup", "write"} => pub \in Publishing /\ pub.at \in 1..Len(pub.data)
      /\ pub.data \in Seq(Digests)
  BY DEF TypeInv, TypeOK, PublishInRange, Made, Publishing, Streams
\* A step that places the chunk at pub.at and records its blob.
<1>5. ASSUME pub.step \in {"lookup", "write"}, pub'.data = pub.data, pub'.step = AfterChunk,
             pub'.at = pub.at + 1, blobs' = blobs \cup {Chunk}, UNCHANGED <<life, chunks, held>>
      PROVE  TrackedInv'
  <2>1. PlacedChunks' \subseteq PlacedChunks \cup {Chunk}
    <3> SUFFICES ASSUME NEW i \in DOMAIN pub.data, AfterChunk = "verify" \/ i < pub.at + 1,
                        i # pub.at
                 PROVE  i < pub.at
      BY <1>5 DEF PlacedChunks, Chunk
    <3>1. i \in 1..Len(pub.data) /\ pub.at \in 1..Len(pub.data) /\ Len(pub.data) \in Nat
      BY <1>4, <1>5
    <3>2. AfterChunk = "verify" => pub.at = Len(pub.data)
      BY DEF AfterChunk
    <3> QED
      BY <3>1, <3>2
  <2> QED
    BY <1>1, <1>5, <2>1 DEF TrackedInv, LiveChunksTracked, Live, ChunksOf
<1>6. CASE ReuseChunk
  <2>1. /\ pub.step = "lookup" /\ pub'.data = pub.data /\ pub'.step = AfterChunk
        /\ pub'.at = pub.at + 1
    BY <1>4, <1>6 DEF ReuseChunk, Publishing
  <2> QED
    BY <1>5, <1>6, <2>1 DEF ReuseChunk, catalogVars
<1>7. CASE MissChunk
  <2>1. pub.step = "lookup" /\ pub'.data = pub.data /\ pub'.step = "write" /\ pub'.at = pub.at
    BY <1>4, <1>7 DEF MissChunk, Publishing
  <2>2. PlacedChunks' = PlacedChunks
    BY <2>1 DEF PlacedChunks
  <2> QED
    BY <1>1, <1>7, <2>1, <2>2
    DEF MissChunk, catalogVars, dedupVars, TrackedInv, LiveChunksTracked, Live, ChunksOf
<1>8. CASE WriteChunk
  <2>1. /\ pub.step = "write" /\ pub'.data = pub.data /\ pub'.step = AfterChunk
        /\ pub'.at = pub.at + 1
    BY ZenonT(60), <1>4, <1>8 DEF WriteChunk, Publishing
  <2> QED
    BY <1>5, <1>8, <2>1 DEF WriteChunk, catalogVars
<1>9. CASE Commit
  <2>1. /\ pub.id \in Ids /\ pub'.step = "idle" /\ blobs' = blobs
        /\ life' = [life EXCEPT ![pub.id] = "committed"]
        /\ chunks' = [chunks EXCEPT ![pub.id] = pub.data]
        /\ held' = held \cup {pub.data[i] : i \in DOMAIN pub.data}
    BY ZenonT(60), <1>9 DEF Commit, TypeInv, PublishInRange, Made, Idle
  <2>2. {pub.data[i] : i \in DOMAIN pub.data} \subseteq blobs
    BY ZenonT(60), <1>1, <1>9 DEF Commit, PlacedChunks
  <2>3. chunks'[pub.id] = pub.data
    BY <1>1, <2>1 DEF TypeOK
  <2>4. ASSUME NEW c \in Live' PROVE ChunksOf(c)' \subseteq blobs' \cap held'
    <3>1. CASE c = pub.id
      BY ZenonT(60), <2>1, <2>2, <2>3, <3>1 DEF ChunksOf
    <3>2. CASE c # pub.id
      <4>1. life'[c] = life[c] /\ chunks'[c] = chunks[c] /\ c \in Live
        BY ZenonT(60), <1>1, <2>1, <3>2 DEF Live, TypeOK
      <4> QED
        BY ZenonT(60), <1>1, <2>1, <4>1 DEF LiveChunksTracked, ChunksOf
    <3> QED
      BY <3>1, <3>2
  <2> QED
    BY ZenonT(60), <2>1, <2>4 DEF TrackedInv, LiveChunksTracked
<1>10. CASE \E c \in Ids : retire(c)
  <2>1. Live' = Live /\ UNCHANGED <<chunks, blobs, held, pub>> /\ pub.step = "idle"
    BY <1>1, <1>10 DEF retire, Live, TypeOK, dedupVars
  <2> QED
    BY <1>1, <2>1 DEF TrackedInv, LiveChunksTracked, ChunksOf
<1>11. CASE gc_run
  <2>1. chunks' = chunks /\ pub'.step = "idle"
    BY ZenonT(60), <1>11 DEF gc_run
  <2>2. ASSUME NEW c \in Live', NEW d \in ChunksOf(c) PROVE d \in blobs' \cap held'
    <3>1. c \in Live
      BY <1>11, GcSurvivor
    <3>2. d \in blobs \cap held
      BY ZenonT(60), <1>1, <3>1 DEF LiveChunksTracked
    <3> QED
      BY <1>1, <1>11, <3>2, GcSpares
  <2>3. \A c : ChunksOf(c)' = ChunksOf(c)
    BY ZenonT(60), <2>1 DEF ChunksOf
  <2> QED
    BY ZenonT(60), <2>1, <2>2, <2>3 DEF TrackedInv, LiveChunksTracked
<1>12. CASE FailWrite \/ FailReadBack
  <2>1. \E gone, stuck : Rollback(gone, stuck)
    BY <1>12 DEF FailWrite, FailReadBack
  <2> QED
    BY <1>2, <2>1 DEF Rollback, catalogVars, Idle
<1> QED
  BY ZenonT(60), <1>2, <1>3, <1>6, <1>7, <1>8, <1>9, <1>10, <1>11, <1>12 DEF Next,
     Environment, vars, create_family, make_full_descriptor, set_authority_boot,
     set_retention_policy, gc_plan, reset_authority, verify_checkpoint, restore, Damage,
     Outage, Return, catalogVars, dedupVars

\* Whatever the backend does, every chunk of a live checkpoint has a blob record
\* that names a known replica, if gc_run reads one time.
THEOREM LiveChunksAreTracked ==
    ASSUME ~ ClockMovesInGc
    PROVE  Spec => []LiveChunksTracked
<1>1. Init => TrackedInv
  BY ZenonT(60), StartsEmpty DEF TrackedInv, LiveChunksTracked
<1>2. TypeInv /\ TrackedInv /\ [Next]_vars => TrackedInv'
  BY ZenonT(60), TrackedStep
<1> QED
  BY <1>1, <1>2, TypeInit, TypeStep, PTL DEF Spec, TrackedInv
-----------------------------------------------------------------------------
(***************************************************************************)
(* Refcounts.                                                              *)
(***************************************************************************)
\* Without a fault every dedup entry has its bytes on the backend, so that a
\* lookup that misses has no entry, and what publish has placed has one: its
\* read-back cannot fail, and no rollback releases a reference.
RefInv ==
    /\ pub.step = "idle" => pub.data = <<>>
    /\ faults = 0 =>
          /\ available
          /\ \A d \in entries : disk[d] = "good"
          /\ pub.step # "idle" => PlacedChunks \subseteq entries
          /\ pub.step = "write" => Chunk \notin entries
    /\ RefcountExactWithoutFaults

\* RefInv is inductive with the types and the order of ids.
LEMMA RefStep ==
    ASSUME TypeInv, IdInv, RefInv, [Next]_vars
    PROVE  RefInv'
<1> USE DEF MutexFree
<1>1. /\ TypeInv /\ TypeOK /\ (pub.step = "idle" => pub.data = <<>>) /\ pub \in Publishing
      /\ Live \in SUBSET Ids /\ faults \in Nat /\ refs \in [Digests -> Nat]
  <2>1. TypeInv /\ TypeOK
    BY DEF TypeInv
  <2>2. pub \in Publishing /\ refs \in [Digests -> Nat] /\ faults \in 0..MaxFaults
    BY <2>1 DEF TypeOK
  <2>3. faults \in Nat
    BY <2>2, StoreAssumption
  <2>4. pub.step = "idle" => pub.data = <<>>
    BY DEF RefInv
  <2>5. Live \in SUBSET Ids
    BY DEF Live
  <2> QED
    BY <2>1, <2>2, <2>3, <2>4, <2>5
<1>2. pub.step \in {"lookup", "write"} =>
         /\ pub.data \in Seq(Digests) /\ pub.at \in 1..Len(pub.data) /\ Chunk \in Digests
         /\ pub.data # <<>>
  BY <1>1 DEF TypeInv, PublishInRange, Publishing, Streams, Chunk
<1>3. pub'.step = "idle" => pub'.data = <<>>
  BY ZenonT(60), <1>1, IdleHasNoData
<1> DEFINE Exact(d) == refs[d] = Cardinality(References(Live, d)) + Cardinality(InFlight(d))
           Sound == /\ available
                    /\ \A d \in entries : disk[d] = "good"
                    /\ pub.step # "idle" => PlacedChunks \subseteq entries
                    /\ pub.step = "write" => Chunk \notin entries
<1> SUFFICES ASSUME faults' = 0 PROVE Sound' /\ \A d \in Digests : Exact(d)'
  BY ZenonT(60), <1>3 DEF RefInv, RefcountExactWithoutFaults
<1>4. /\ faults = 0 /\ Sound /\ (\A d \in Digests : Exact(d))
      /\ ~ FailWrite /\ ~ (\E d \in Digests : Damage(d)) /\ ~ Outage
  <2>1. Sound /\ \A d \in Digests : Exact(d)
    BY ZenonT(60), NoFaultNow DEF RefInv, RefcountExactWithoutFaults
  <2> QED
    BY ZenonT(60), <2>1, NoFaultNow
<1>5. CASE UNCHANGED <<life, chunks, entries, refs, disk, available, pub>>
  <2>1. Sound'
    BY ZenonT(60), <1>4, <1>5 DEF PlacedChunks, Chunk
  <2>2. ASSUME NEW d \in Digests PROVE Exact(d)'
    <3>1. References(Live, d)' = References(Live, d) /\ InFlight(d)' = InFlight(d)
      BY ZenonT(60), <1>5 DEF References, Live, InFlight
    <3> QED
      BY ZenonT(60), <1>4, <1>5, <3>1
  <2> QED
    BY ZenonT(60), <2>1, <2>2
\* In the steps of publish, References do not change.
<1>6. ASSUME UNCHANGED <<life, chunks>>, NEW d PROVE References(Live, d)' = References(Live, d)
  BY ZenonT(60), <1>6 DEF References, Live
<1>7. CASE \E c \in Ids, data \in Contents : publish(c, data)
  <2>1. PICK c \in Ids, data \in Contents : publish(c, data)
    BY <1>7
  <2>2. data \in Seq(Digests) /\ pub.step = "idle" /\ pub.data = <<>>
    BY ZenonT(60), <1>1, <2>1, StoreAssumption DEF publish
  <2>3. /\ UNCHANGED <<life, chunks, entries, refs, disk, available>>
        /\ pub'.data = data /\ pub'.at = 1
        /\ pub'.step = IF data = <<>> THEN "verify" ELSE "lookup"
    BY ZenonT(60), <2>1 DEF publish, catalogVars, dedupVars, envVars
  <2>4. PlacedChunks' = {}
    BY <2>2, <2>3 DEF PlacedChunks
  <2>5. ASSUME NEW d \in Digests PROVE Exact(d)'
    <3>1. InFlight(d) = {} /\ InFlight(d)' = {}
      BY <2>2, <2>3 DEF InFlight
    <3>2. References(Live, d)' = References(Live, d) /\ refs' = refs
      BY <1>6, <2>3
    <3> QED
      BY ZenonT(60), <1>4, <3>1, <3>2
  <2> QED
    BY ZenonT(60), <1>4, <2>3, <2>4, <2>5
<1>9. CASE ReuseChunk
  <2>1. /\ pub.step = "lookup" /\ pub'.data = pub.data /\ pub'.step = AfterChunk
        /\ pub'.at = pub.at + 1
    BY <1>1, <1>9 DEF ReuseChunk, Publishing
  <2>2. /\ UNCHANGED <<life, chunks, entries, disk, available>> /\ Chunk \in entries
        /\ refs' = [refs EXCEPT ![Chunk] = @ + 1]
    BY ZenonT(60), <1>9 DEF ReuseChunk, catalogVars, envVars, add_reference
  <2>3. Sound'
    BY ZenonT(60), <1>1, <1>4, <2>1, <2>2, OneMorePlaced DEF AfterChunk
  <2>4. ASSUME NEW d \in Digests PROVE Exact(d)'
    <3>1. Cardinality(InFlight(d)') =
             IF d = Chunk THEN Cardinality(InFlight(d)) + 1 ELSE Cardinality(InFlight(d))
      BY ZenonT(60), <1>1, <2>1, OneMoreInFlight
    <3>2. References(Live, d)' = References(Live, d)
      BY ZenonT(60), <1>6, <2>2
    <3>3. Cardinality(InFlight(d)) \in Nat /\ Cardinality(References(Live, d)) \in Nat
      BY ZenonT(60), <1>1, InFlightFinite, ReferencesFinite
    <3>4. refs'[d] = IF d = Chunk THEN refs[d] + 1 ELSE refs[d]
      BY <1>1, <2>2
    <3> QED
      BY <1>4, <3>1, <3>2, <3>3, <3>4
  <2> QED
    BY <2>3, <2>4
<1>10. CASE MissChunk
  <2>1. pub.step = "lookup" /\ pub'.data = pub.data /\ pub'.step = "write" /\ pub'.at = pub.at
    BY <1>1, <1>10 DEF MissChunk, Publishing
  <2>2. UNCHANGED <<life, chunks, entries, refs, disk, available>>
    BY <1>10 DEF MissChunk, catalogVars, dedupVars, envVars
  <2>3. PlacedChunks' = PlacedChunks /\ Chunk' = Chunk
    BY <2>1 DEF PlacedChunks, Chunk
  <2>4. Chunk \notin entries
    BY ZenonT(60), <1>4, <1>10 DEF MissChunk, Verified
  <2>5. Sound'
    BY ZenonT(60), <1>4, <2>1, <2>2, <2>3, <2>4
  <2>6. ASSUME NEW d \in Digests PROVE Exact(d)'
    <3>1. InFlight(d)' = InFlight(d)
      BY <2>1 DEF InFlight
    <3>2. References(Live, d)' = References(Live, d) /\ refs' = refs
      BY <1>6, <2>2
    <3> QED
      BY ZenonT(60), <1>4, <3>1, <3>2
  <2> QED
    BY <2>5, <2>6
<1>11. CASE WriteChunk
  <2>1. /\ pub.step = "write" /\ pub'.data = pub.data /\ pub'.step = AfterChunk
        /\ pub'.at = pub.at + 1
    BY ZenonT(60), <1>1, <1>11 DEF WriteChunk, Publishing
  <2>2. Chunk \notin entries /\ Chunk \in Digests
    BY ZenonT(60), <1>2, <1>4, <2>1
  <2>3. /\ UNCHANGED <<life, chunks, available>> /\ entries' = entries \cup {Chunk}
        /\ disk' = [disk EXCEPT ![Chunk] = "good"] /\ refs' = [refs EXCEPT ![Chunk] = 1]
    BY ZenonT(60), <1>11, <2>2 DEF WriteChunk, catalogVars, Put, insert
  <2>4. Sound'
    <3>1. \A d \in entries' : disk'[d] = "good"
      <4>1. DOMAIN disk = Digests /\ entries \subseteq Digests
        BY <1>1 DEF TypeOK
      <4> QED
        BY ZenonT(60), <1>4, <2>2, <2>3, <4>1
    <3>2. PlacedChunks' \subseteq entries'
      BY ZenonT(60), <1>1, <1>4, <2>1, <2>3, OneMorePlaced
    <3> QED
      BY ZenonT(60), <1>4, <2>1, <2>3, <3>1, <3>2 DEF AfterChunk
  <2>5. ASSUME NEW d \in Digests PROVE Exact(d)'
    <3>1. Cardinality(InFlight(d)') =
             IF d = Chunk THEN Cardinality(InFlight(d)) + 1 ELSE Cardinality(InFlight(d))
      BY <1>1, <2>1, OneMoreInFlight
    <3>2. References(Live, d)' = References(Live, d)
      BY ZenonT(60), <1>6, <2>3
    <3>3. Cardinality(InFlight(d)) \in Nat /\ Cardinality(References(Live, d)) \in Nat
      BY <1>1, InFlightFinite, ReferencesFinite
    <3>4. refs[Chunk] = 0
      BY ZenonT(60), <1>1, <2>2 DEF TypeOK
    <3>5. refs'[d] = IF d = Chunk THEN refs[d] + 1 ELSE refs[d]
      BY <1>1, <2>2, <2>3, <3>4
    <3> QED
      BY <1>4, <3>1, <3>2, <3>3, <3>5
  <2> QED
    BY <2>4, <2>5
<1>12. ~ FailReadBack
  <2>1. ASSUME pub.step = "verify", NEW i \in DOMAIN pub.data PROVE disk[pub.data[i]] = "good"
    <3>1. pub.data[i] \in PlacedChunks
      BY <2>1 DEF PlacedChunks
    <3> QED
      BY <1>4, <2>1, <3>1
  <2> QED
    BY ZenonT(60), <1>4, <2>1 DEF FailReadBack, ReadBackOk
<1>13. CASE Commit
  <2>0. pub.id \in Ids \ Existing
    BY <1>13 DEF Commit, IdInv, TypeInv, PublishInRange, Made
  <2>1. UNCHANGED <<entries, refs, disk, available>> /\ pub'.step = "idle"
    BY ZenonT(60), <1>13 DEF Commit, envVars, Idle
  <2>2. ASSUME NEW d \in Digests PROVE Exact(d)'
    <3>1. /\ Cardinality(References(Live, d)') =
                Cardinality(References(Live, d)) + Cardinality(InFlight(d))
          /\ InFlight(d)' = {}
      BY ZenonT(60), <1>1, <1>13, <2>0, CommitKeepsCount
    <3>2. Cardinality(InFlight(d)) \in Nat /\ Cardinality(References(Live, d)) \in Nat
      BY <1>1, InFlightFinite, ReferencesFinite
    <3>3. Cardinality(InFlight(d)') = 0 /\ refs'[d] = refs[d]
      BY ZenonT(60), <2>1, <3>1, FS_EmptySet
    <3> QED
      BY <1>4, <3>1, <3>2, <3>3
  <2> QED
    BY ZenonT(60), <1>4, <2>1, <2>2
<1>14. CASE \E c \in Ids : retire(c)
  <2>1. /\ Live' = Live
        /\ UNCHANGED <<chunks, entries, refs, disk, available, pub>>
    BY ZenonT(60), <1>1, <1>14 DEF retire, Live, TypeOK, dedupVars, envVars
  <2>2. ASSUME NEW d \in Digests PROVE Exact(d)'
    <3>1. References(Live, d)' = References(Live, d) /\ InFlight(d)' = InFlight(d)
      BY <2>1 DEF References, InFlight
    <3> QED
      BY <1>4, <2>1, <3>1
  <2> QED
    BY ZenonT(60), <1>4, <2>1, <2>2 DEF PlacedChunks, Chunk
<1>15. CASE gc_run
  <2>1. pub.step = "idle" /\ pub' = pub /\ available' = available
    BY ZenonT(60), <1>15 DEF gc_run
  <2>2. ASSUME NEW d \in entries' PROVE disk'[d] = "good"
    <3>1. PICK removed \in SUBSET Digests :
              /\ disk' = [x \in Digests |-> IF x \in removed THEN "absent" ELSE disk[x]]
              /\ entries' = entries \ removed
      <4>1. \A R, stuck : {x \in R \cap held : disk[x] # "absent"} \ stuck \in SUBSET Digests
        BY ZenonT(60), <1>1 DEF TypeOK
      <4> QED
        BY ZenonT(60), <1>15, <4>1 DEF gc_run, Sweep, Without
    <3> QED
      BY <1>1, <1>4, <3>1 DEF TypeOK
  <2>3. ASSUME NEW d \in Digests PROVE Exact(d)'
    <3>1. InFlight(d) = {} /\ InFlight(d)' = {}
      BY <1>1, <2>1 DEF InFlight
    <3>2. Cardinality({}) = 0 /\ Cardinality(References(Live, d)) \in Nat
      BY ZenonT(60), <1>1, FS_EmptySet, ReferencesFinite
    <3>3. refs[d] = Cardinality(References(Live, d))
      BY <1>4, <3>1, <3>2
    <3>4. refs'[d] = Cardinality(References(Live, d)') /\ refs'[d] \in Nat
      BY ZenonT(60), <1>1, <1>15, <3>3, SweepKeepsCount, TypeStep DEF TypeInv, TypeOK
    <3> QED
      BY <3>1, <3>2, <3>4
  <2> QED
    BY ZenonT(60), <1>4, <2>1, <2>2, <2>3
<1>16. CASE Return
  BY ZenonT(60), <1>4, <1>16 DEF Return
<1> HIDE DEF Sound, Exact
<1> QED
  BY ZenonT(60), <1>4, <1>5, <1>7, <1>9, <1>10, <1>11, <1>12, <1>13, <1>14, <1>15, <1>16
  DEF Next, Environment, vars, create_family, make_full_descriptor, set_authority_boot,
      set_retention_policy, gc_plan, reset_authority, verify_checkpoint, restore,
      catalogVars, dedupVars, envVars

\* As long as no backend call has failed, the refcount of every digest is the
\* number of references that live checkpoints and the publish under way hold,
\* even when the clock moves while gc_run works.
THEOREM RefcountsAreExact == Spec => []RefcountExactWithoutFaults
<1>1. Init => RefInv
  <2> SUFFICES ASSUME Init PROVE RefInv
    OBVIOUS
  <2>0. entries = {} /\ available = TRUE /\ refs = [d \in Digests |-> 0]
    BY ZenonT(60) DEF Init
  <2>1. /\ pub.step = "idle" /\ pub.data = <<>> /\ entries = {} /\ available /\ Live = {}
        /\ refs = [d \in Digests |-> 0]
    BY ZenonT(60), <2>0, StartsEmpty
  <2>2. ASSUME NEW d \in Digests
        PROVE  refs[d] = Cardinality(References(Live, d)) + Cardinality(InFlight(d))
    <3>1. InFlight(d) = {} /\ refs[d] = 0
      BY <2>1 DEF InFlight
    <3>2. References(Live, d) = {}
      BY <2>1 DEF References
    <3> QED
      BY <3>1, <3>2, FS_EmptySet
  <2> QED
    BY <2>1, <2>2 DEF RefInv, RefcountExactWithoutFaults
<1>2. TypeInv /\ IdInv /\ RefInv /\ [Next]_vars => TypeInv' /\ IdInv' /\ RefInv'
  BY RefStep, TypeStep, StoreKeepsRecords
<1> QED
  BY <1>1, <1>2, IdInit, TypeInit, PTL DEF Spec, RefInv
=============================================================================
