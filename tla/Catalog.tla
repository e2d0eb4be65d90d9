------------------------------ MODULE Catalog ------------------------------
(***************************************************************************)
(* What the checkpoint store promises its clients about the catalogue,     *)
(* with publication, retirement and collection as single steps and no      *)
(* backend, no refcounts and no garbage-collection snapshot: README.md,    *)
(* "Checkpoint families and generations", "Retention" and "Transactional   *)
(* publication".                                                           *)
(***************************************************************************)
EXTENDS Naturals

CONSTANTS
    Ids,       \* checkpoint ids
    Families,  \* family ids
    Streams,   \* contents a checkpoint can have
    Classes    \* retention classes

VARIABLE catalog   \* the entry of each id

\* The entry of an id that was never committed.
NoEntry == [life |-> "none"]

Entries == [family : Families, gen : Nat \ {0}, data : Streams, lineage : SUBSET Ids,
            retention : Classes, life : {"committed", "retired", "deleted"}]

Committed   == {c \in Ids : catalog[c].life # "none"}
Restorable  == {c \in Committed : catalog[c].life # "deleted"}
FamilyOf(f) == {c \in Committed : catalog[c].family = f}

CatalogInit == catalog = [c \in Ids |-> NoEntry]

\* A fresh id becomes the next generation of its family.
Publish(c) ==
    LET e == catalog'[c] IN
    /\ c \notin Committed
    /\ e \in Entries
    /\ e.life = "committed"
    /\ \A x \in FamilyOf(e.family) : catalog[x].gen < e.gen
    /\ e.gen = 1 \/ \E x \in FamilyOf(e.family) : catalog[x].gen = e.gen - 1
    /\ catalog' = [catalog EXCEPT ![c] = e]

Retire(c) ==
    /\ c \in Committed
    /\ catalog[c].life = "committed"
    /\ catalog' = [catalog EXCEPT ![c].life = "retired"]

\* The newest member of its family, and not retired.
Newest(c) ==
    /\ catalog[c].life = "committed"
    /\ \A x \in FamilyOf(catalog[c].family) : catalog[x].gen <= catalog[c].gen

\* Collection takes restorable checkpoints only: none that is pinned, none
\* that is the newest of its family and kept for that, and no ancestor of
\* one that stays.
Collect(S) ==
    /\ S \subseteq Restorable
    /\ \A c \in S :
          /\ catalog[c].retention \notin {"pinned", "restore_point"}
          /\ ~ (catalog[c].retention = "keep_latest_n" /\ Newest(c))
    /\ \A c \in Restorable \ S : catalog[c].lineage \cap S = {}
    /\ catalog' = [c \in Ids |-> IF c \in S THEN [catalog[c] EXCEPT !.life = "deleted"]
                                 ELSE catalog[c]]

CatalogNext ==
    \/ \E c \in Ids : Publish(c) \/ Retire(c)
    \/ \E S \in SUBSET Ids : Collect(S)

CatalogSpec == CatalogInit /\ [][CatalogNext]_catalog
=============================================================================
