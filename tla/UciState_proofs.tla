--------------------------- MODULE UciState_proofs ---------------------------
(***************************************************************************)
(* Proofs about UciState: its type invariant, the overlay invariant, and   *)
(* that it implements ConfigTable.                                         *)
(***************************************************************************)
EXTENDS UciState, FiniteSetTheorems, TLAPS

USE DEF Package, Blank, EmptyPackage

\* A rank is a number: sections() writes numbers into the indices.
LEMMA RankIsNat ==
    ASSUME NEW c, NEW type, NEW s
    PROVE  Rank(c, type, s) \in Nat
<1>1. \A places \in SUBSET Sids : Cardinality(places) \in Nat
    BY SidsAssumption, FS_Subset, FS_CardinalityType
<1>2. /\ {t \in Listed(c, type) : Before(c, t, s)} \in SUBSET Sids
      /\ {t \in Shadowed(c, type) : ShadowedBefore(c, t, s)} \in SUBSET Sids
    BY DEF Listed, Shadowed
<1>3. QED
    BY <1>1, <1>2 DEF Rank

LEMMA BlankIsContent == Blank \in [Options -> Values \cup {None}]
OBVIOUS

LEMMA EntryIsSection ==
    ASSUME TypeOK, NEW c \in Configs, NEW s \in Sids, Exists(c, s)
    PROVE  Entry(c, s) \in Section
BY DEF TypeOK, Exists, Created, Loaded, Entry

\* Two versions of a package that differ in the indices of their sections alone.
SameButIndex(p, q) ==
    /\ q \in Package
    /\ \A x \in Sids : /\ (q[x] = NoSection) <=> (p[x] = NoSection)
                       /\ p[x] # NoSection => q[x].opts = p[x].opts /\ q[x].birth = p[x].birth

LEMMA NewIndices ==
    ASSUME NEW p \in Package, NEW moved \in SUBSET Sids, NEW index,
           \A x \in moved : p[x] \in Section /\ index[x] \in Nat
    PROVE  SameButIndex(p, [x \in Sids |-> IF x \in moved
                                           THEN [p[x] EXCEPT !.index = index[x]] ELSE p[x]])
<1>1. \A x \in moved : /\ [p[x] EXCEPT !.index = index[x]] \in Section
                       /\ [p[x] EXCEPT !.index = index[x]].opts = p[x].opts
                       /\ [p[x] EXCEPT !.index = index[x]].birth = p[x].birth
    BY DEF Section
<1>2. QED
    BY <1>1, SectionAssumption DEF SameButIndex

\* swap and sections() change nothing but indices.
LEMMA SwapIndices ==
    ASSUME TypeOK, NEW c \in Configs, NEW s \in Sids, NEW t \in Sids, Swap(c, s, t)
    PROVE  \A d \in Configs : SameButIndex(values[d], values'[d]) /\ SameButIndex(creates[d], creates'[d])
<1> DEFINE new == {x \in {s, t} : Created(c, x)}
           ix == [x \in Sids |-> Entry(c, IF x = s THEN t ELSE s).index]
<1>1. Exists(c, s) /\ Exists(c, t)
    BY DEF Swap, Rendered, Listed, Exists
<1>2. ix[s] \in Nat /\ ix[t] \in Nat
    BY <1>1, EntryIsSection DEF Section
<1>3. SameButIndex(values[c], Reindexed(values[c], c, s, t, {s, t} \ new))
    <2>1. \A x \in {s, t} \ new : values[c][x] \in Section /\ ix[x] \in Nat
        BY <1>1, <1>2 DEF TypeOK, Exists, Created, Loaded
    <2> HIDE DEF ix
    <2>2. values[c] \in Package /\ {s, t} \ new \in SUBSET Sids
        BY DEF TypeOK
    <2>3. SameButIndex(values[c],
              [x \in Sids |-> IF x \in {s, t} \ new
                              THEN [values[c][x] EXCEPT !.index = ix[x]] ELSE values[c][x]])
        BY <2>1, <2>2, NewIndices
    <2>4. QED
        BY <2>3 DEF Reindexed, ix
<1>4. SameButIndex(creates[c], Reindexed(creates[c], c, s, t, new))
    <2>1. \A x \in new : creates[c][x] \in Section /\ ix[x] \in Nat
        BY <1>2 DEF TypeOK, Created
    <2> HIDE DEF ix
    <2>2. creates[c] \in Package /\ new \in SUBSET Sids
        BY DEF TypeOK
    <2>3. SameButIndex(creates[c],
              [x \in Sids |-> IF x \in new
                              THEN [creates[c][x] EXCEPT !.index = ix[x]] ELSE creates[c][x]])
        BY <2>1, <2>2, NewIndices
    <2>4. QED
        BY <2>3 DEF Reindexed, ix
<1>5. /\ values' = [values EXCEPT ![c] = Reindexed(values[c], c, s, t, {s, t} \ new)]
      /\ creates' = [creates EXCEPT ![c] = Reindexed(creates[c], c, s, t, new)]
    BY DEF Swap
<1> HIDE DEF new
<1>6. QED
    BY <1>3, <1>4, <1>5 DEF TypeOK, SameButIndex

LEMMA ReadIndices ==
    ASSUME TypeOK, NEW c \in Configs, NEW type, ReadSections(c, type)
    PROVE  \A d \in Configs : SameButIndex(creates[d], creates'[d])
<1> DEFINE moved == {s \in Sids : Created(c, s) /\ s \in Listed(c, type)}
           ix == [s \in Sids |-> Rank(c, type, s)]
<1>1. \A s \in moved : creates[c][s] \in Section /\ ix[s] \in Nat
    BY RankIsNat DEF TypeOK, Created
<1>2. creates' = [creates EXCEPT ![c] =
                    [s \in Sids |-> IF s \in moved
                                    THEN [creates[c][s] EXCEPT !.index = ix[s]] ELSE creates[c][s]]]
    BY DEF ReadSections
<1> HIDE DEF moved, ix
<1>3. creates[c] \in Package /\ moved \in SUBSET Sids
    BY DEF TypeOK, moved
<1>4. SameButIndex(creates[c],
          [s \in Sids |-> IF s \in moved
                          THEN [creates[c][s] EXCEPT !.index = ix[s]] ELSE creates[c][s]])
    BY <1>1, <1>3, NewIndices
<1>5. QED
    BY <1>2, <1>4 DEF TypeOK, SameButIndex

LEMMA SwapType ==
    ASSUME TypeOK, NEW c \in Configs, NEW s \in Sids, NEW t \in Sids, Swap(c, s, t)
    PROVE  TypeOK'
BY SwapIndices DEF TypeOK, Swap, SameButIndex

LEMMA ReadType ==
    ASSUME TypeOK, NEW c \in Configs, NEW type, ReadSections(c, type)
    PROVE  TypeOK'
BY ReadIndices DEF TypeOK, ReadSections, SameButIndex

\* Every call keeps the state a state of the cache.
LEMMA TypeStep == TypeOK /\ [Next]_vars => TypeOK'
<1> SUFFICES ASSUME TypeOK, [Next]_vars
             PROVE  TypeOK'
    OBVIOUS
<1>1. ASSUME NEW c \in Configs, NEW snapshot \in Snapshots, Load(c, snapshot)
      PROVE  TypeOK'
    BY <1>1, SnapshotsAssumption DEF TypeOK, Load
<1>2. ASSUME NEW packages \in SUBSET Configs, Unload(packages)
      PROVE  TypeOK'
    BY <1>2, BlankIsContent DEF TypeOK, Unload
<1>3. ASSUME NEW c \in Configs, NEW s \in Sids, NEW type \in Types, Create(c, type, s)
      PROVE  TypeOK'
    <2>1. [type |-> type, index |-> NewBase + newidx, birth |-> newidx, opts |-> Blank]
            \in Section
        BY BlankIsContent, BoundsAssumption DEF Section, TypeOK
    <2>2. QED
        BY <1>3, <2>1 DEF TypeOK, Create
<1>4. ASSUME NEW c \in Configs, NEW s \in Sids, RemoveCreated(c, s)
      PROVE  TypeOK'
    BY <1>4 DEF TypeOK, RemoveCreated
<1>5. ASSUME NEW c \in Configs, NEW s \in Sids, RemoveLoaded(c, s)
      PROVE  TypeOK'
    BY <1>5, BlankIsContent DEF TypeOK, RemoveLoaded
<1>6. ASSUME NEW c \in Configs, NEW s \in Sids, NEW o \in Options,
             NEW val \in Values \cup {None}, SetCreated(c, s, o, val)
      PROVE  TypeOK'
    <2>1. creates[c][s] \in Section
        BY <1>6 DEF TypeOK, SetCreated, Created
    <2>2. [creates[c][s] EXCEPT !.opts[o] = val] \in Section
        BY <2>1 DEF Section
    <2>3. QED
        BY <1>6, <2>2 DEF TypeOK, SetCreated
<1>7. ASSUME NEW c \in Configs, NEW s \in Sids, NEW o \in Options,
             NEW val \in Values \cup {None}, SetChange(c, s, o, val)
      PROVE  TypeOK'
    BY <1>7 DEF TypeOK, SetChange
<1>8. ASSUME NEW c \in Configs, NEW s \in Sids, NEW o \in Options,
             NEW val \in Values \cup {None}, SetDelete(c, s, o, val)
      PROVE  TypeOK'
    BY <1>8 DEF TypeOK, SetDelete
<1>9. CASE UNCHANGED vars
    BY <1>9 DEF TypeOK, vars
<1>10. QED
    BY <1>1, <1>2, <1>3, <1>4, <1>5, <1>6, <1>7, <1>8, <1>9, ReadType, SwapType
       DEF Next, AddNamed, AddAnonymous

\* The cache stays well formed, whatever the views call.
THEOREM TypeCorrect == Spec => []TypeOK
<1>1. Init => TypeOK
    BY BlankIsContent DEF Init, TypeOK
<1>2. QED
    BY <1>1, TypeStep, PTL DEF Spec

-----------------------------------------------------------------------------

\* Every call keeps what is pending consistent.
LEMMA OverlayStep == TypeOK /\ OverlayOK /\ [Next]_vars => OverlayOK'
<1> SUFFICES ASSUME TypeOK, OverlayOK, [Next]_vars
             PROVE  OverlayOK'
    OBVIOUS
<1> USE DEF OverlayOK, NoConflict, PendingIsReal, Created, Loaded
<1>1. ASSUME NEW c \in Configs, NEW snapshot \in Snapshots, Load(c, snapshot)
      PROVE  OverlayOK'
    \* nothing is pending in a package that was not loaded
    BY <1>1 DEF TypeOK, Load
<1>2. ASSUME NEW packages \in SUBSET Configs, Unload(packages)
      PROVE  OverlayOK'
    BY <1>2 DEF TypeOK, Unload
<1>3. ASSUME NEW c \in Configs, NEW s \in Sids, NEW type \in Types,
             ~Exists(c, s), Create(c, type, s)
      PROVE  OverlayOK'
    BY <1>3 DEF TypeOK, Create, Exists
<1>4. ASSUME NEW c \in Configs, NEW s \in Sids, RemoveCreated(c, s)
      PROVE  OverlayOK'
    BY <1>4 DEF TypeOK, RemoveCreated
<1>5. ASSUME NEW c \in Configs, NEW s \in Sids, RemoveLoaded(c, s)
      PROVE  OverlayOK'
    BY <1>5 DEF TypeOK, RemoveLoaded, Listed
<1>6. ASSUME NEW c \in Configs, NEW s \in Sids, NEW o \in Options,
             NEW val \in Values \cup {None}, SetCreated(c, s, o, val)
      PROVE  OverlayOK'
    BY <1>6 DEF TypeOK, SetCreated
<1>7. ASSUME NEW c \in Configs, NEW s \in Sids, NEW o \in Options,
             NEW val \in Values \cup {None}, SetChange(c, s, o, val)
      PROVE  OverlayOK'
    BY <1>7 DEF TypeOK, SetChange
<1>8. ASSUME NEW c \in Configs, NEW s \in Sids, NEW o \in Options,
             NEW val \in Values \cup {None}, SetDelete(c, s, o, val)
      PROVE  OverlayOK'
    BY <1>8 DEF TypeOK, SetDelete
<1>9. ASSUME NEW c \in Configs, NEW type, ReadSections(c, type)
      PROVE  OverlayOK'
    BY <1>9, ReadIndices DEF TypeOK, ReadSections, SameButIndex
<1>10. ASSUME NEW c \in Configs, NEW s \in Sids, NEW t \in Sids, Swap(c, s, t)
       PROVE  OverlayOK'
    <2>1. \A d \in Configs, x \in Sids :
             (Created(d, x)' <=> Created(d, x)) /\ (Loaded(d, x)' <=> Loaded(d, x))
        BY <1>10, SwapIndices DEF SameButIndex
    <2>2. UNCHANGED <<loaded, changes, deletesAll, deletesOpt>>
        BY <1>10 DEF Swap
    <2>3. QED
        BY <2>1, <2>2
<1>11. CASE UNCHANGED vars
    BY <1>11 DEF vars
<1>12. QED
    BY <1>1, <1>2, <1>3, <1>4, <1>5, <1>6, <1>7, <1>8, <1>9, <1>10, <1>11
       DEF Next, AddNamed, AddAnonymous

LEMMA OverlayKept == Spec => [](TypeOK /\ OverlayOK)
<1>1. Init => TypeOK /\ OverlayOK
    BY BlankIsContent DEF Init, TypeOK, OverlayOK, NoConflict, PendingIsReal, Created, Loaded
<1>2. TypeOK /\ OverlayOK /\ [Next]_vars => (TypeOK /\ OverlayOK)'
    BY TypeStep, OverlayStep
<1>3. QED
    BY <1>1, <1>2, PTL DEF Spec

\* No name is both added and changed or deleted: the order in which save sends
\* additions, changes and deletions loses nothing.
THEOREM OverlayCorrect == Spec => []NoConflict
BY OverlayKept, PTL DEF OverlayOK

\* Only sections that are there are changed or deleted, whatever is loaded, unloaded,
\* added and removed in between.
THEOREM PendingReal == Spec => []PendingIsReal
BY OverlayKept, PTL DEF OverlayOK

-----------------------------------------------------------------------------
(* The table the views see *)

\* Tables that agree but on one package, or on one section of one package.
LEMMA TableExcept ==
    ASSUME NEW f, NEW g, NEW c \in Configs, NEW v,
           f = [d \in Configs |-> f[d]],
           g = [d \in Configs |-> g[d]],
           g[c] = v,
           \A d \in Configs : d # c => g[d] = f[d]
    PROVE  g = [f EXCEPT ![c] = v]
OBVIOUS

LEMMA SectionExcept ==
    ASSUME NEW f, NEW g, NEW c \in Configs, NEW s \in Sids, NEW v,
           f = [d \in Configs |-> [x \in Sids |-> f[d][x]]],
           g = [d \in Configs |-> [x \in Sids |-> g[d][x]]],
           g[c][s] = v,
           \A d \in Configs, x \in Sids : <<d, x>> # <<c, s>> => g[d][x] = f[d][x]
    PROVE  g = [f EXCEPT ![c][s] = v]
<1>1. \A d \in Configs : g[d] = [f EXCEPT ![c][s] = v][d]
    <2> SUFFICES ASSUME NEW d \in Configs
                 PROVE  g[d] = [f EXCEPT ![c][s] = v][d]
        OBVIOUS
    <2>1. g[d] = [x \in Sids |-> g[d][x]] /\ f[d] = [x \in Sids |-> f[d][x]]
        OBVIOUS
    <2>2. CASE d = c
        <3>1. [f EXCEPT ![c][s] = v][d] = [f[c] EXCEPT ![s] = v]
            BY <2>2
        <3>2. g[c] = [f[c] EXCEPT ![s] = v]
            BY <2>1, <2>2
        <3>3. QED
            BY <2>2, <3>1, <3>2
    <2>3. CASE d # c
        BY <2>1, <2>3
    <2>4. QED
        BY <2>2, <2>3
<1>2. QED
    BY <1>1

LEMMA ViewsAreTables ==
    /\ baseView = [c \in Configs |-> [s \in Sids |-> baseView[c][s]]]
    /\ tableView = [c \in Configs |-> [s \in Sids |-> tableView[c][s]]]
    /\ baseView' = [c \in Configs |-> [s \in Sids |-> baseView'[c][s]]]
    /\ tableView' = [c \in Configs |-> [s \in Sids |-> tableView'[c][s]]]
BY DEF baseView, tableView

LEMMA OwnExcept ==
    ASSUME NEW c \in Configs, NEW v,
           \A x \in Sids : Created(c, x)' <=> x \in v,
           v \subseteq Sids,
           \A d \in Configs, x \in Sids : d # c => (Created(d, x)' <=> Created(d, x))
    PROVE  ownView' = [ownView EXCEPT ![c] = v]
<1>1. ownView'[c] = v
    BY DEF ownView
<1>2. \A d \in Configs : d # c => ownView'[d] = ownView[d]
    BY DEF ownView
<1>3. ownView = [d \in Configs |-> ownView[d]] /\ ownView' = [d \in Configs |-> ownView'[d]]
    BY DEF ownView
<1>4. QED
    BY <1>1, <1>2, <1>3, TableExcept

LEMMA LoadIsFetch ==
    ASSUME TypeOK, OverlayOK, NEW c \in Configs, NEW snapshot \in Snapshots, Load(c, snapshot)
    PROVE  Table!Fetch(c)
<1>1. snapshot \in Package
    BY SnapshotsAssumption
<1>2. \A s \in Sids : /\ ~Loaded(c, s)
                      /\ s \notin deletesAll[c]
                      /\ changes[c][s] = Blank
                      /\ deletesOpt[c][s] = {}
    BY DEF Load, OverlayOK, PendingIsReal
<1>3. \A d \in Configs, s \in Sids :
         /\ values'[d][s] = IF d = c THEN snapshot[s] ELSE values[d][s]
         /\ Created(d, s)' <=> Created(d, s)
    BY <1>1 DEF Load, TypeOK, Created
<1>4. baseView[c] = Table!Nothing
    BY <1>2 DEF baseView, Table!Nothing
<1>5. \A s \in Sids : snapshot[s] # NoSection =>
         snapshot[s].opts \in [Options -> Values \cup {None}]
    BY <1>1 DEF Section
<1>6. baseView'[c] \in Table!Tables
    BY <1>3, <1>5 DEF baseView, Loaded, Table!Tables, Table!Content
<1>7. \A d \in Configs : d # c => baseView'[d] = baseView[d]
    BY <1>3 DEF baseView, Loaded
<1>8. baseView' = [baseView EXCEPT ![c] = baseView'[c]]
    BY <1>7, ViewsAreTables, TableExcept
<1>9. ownView' = ownView
    BY <1>3 DEF ownView
<1>10. \A s \in Sids :
          tableView'[c][s] = IF s \in ownView[c] THEN tableView[c][s] ELSE baseView'[c][s]
    <2> SUFFICES ASSUME NEW s \in Sids
                 PROVE  tableView'[c][s] = IF s \in ownView[c] THEN tableView[c][s]
                                           ELSE baseView'[c][s]
        OBVIOUS
    <2>1. CASE Created(c, s)
        BY <2>1, <1>3 DEF tableView, ownView, Shown, Get, Load, Created
    <2>2. CASE ~Created(c, s)
        <3>1. \A o \in Options : Loaded(c, s)' => Get(c, s, o)' = snapshot[s].opts[o]
            BY <2>2, <1>2, <1>3 DEF Get, Load, Loaded
        <3>2. tableView'[c][s] = IF Loaded(c, s)' THEN [o \in Options |-> Get(c, s, o)']
                                 ELSE NoSection
            BY <2>2, <1>2, <1>3 DEF tableView, Shown, Load
        <3>3. CASE Loaded(c, s)'
            <4>1. [o \in Options |-> Get(c, s, o)'] = snapshot[s].opts
                BY <3>1, <3>3, <1>3, <1>5 DEF Loaded
            <4>2. QED
                BY <2>2, <3>2, <3>3, <4>1, <1>3 DEF baseView, ownView
        <3>4. CASE ~Loaded(c, s)'
            BY <2>2, <3>2, <3>4, <1>3 DEF baseView, ownView
        <3>5. QED
            BY <3>3, <3>4
    <2>3. QED
        BY <2>1, <2>2
<1>11. \A d \in Configs : d # c => tableView'[d] = tableView[d]
    BY <1>3 DEF tableView, Shown, Get, Load, Loaded, Created, TypeOK
<1>12. tableView' = [tableView EXCEPT ![c] =
          [s \in Sids |-> IF s \in ownView[c] THEN tableView[c][s] ELSE baseView'[c][s]]]
    BY <1>10, <1>11, ViewsAreTables, TableExcept
<1>13. QED
    BY <1>4, <1>6, <1>8, <1>9, <1>12 DEF Table!Fetch

LEMMA UnloadIsDiscard ==
    ASSUME TypeOK, NEW packages \in SUBSET Configs, Unload(packages)
    PROVE  Table!Discard(packages)
<1>1. \A c \in packages, s \in Sids : ~Loaded(c, s)' /\ ~Created(c, s)' /\ ~Shown(c, s)'
    BY DEF Unload, Loaded, Created, Shown
<1>2. \A c \in Configs \ packages :
         /\ values'[c] = values[c] /\ creates'[c] = creates[c] /\ changes'[c] = changes[c]
         /\ deletesAll'[c] = deletesAll[c] /\ deletesOpt'[c] = deletesOpt[c]
    BY DEF Unload
<1>3. baseView' = [c \in Configs |-> IF c \in packages THEN Table!Nothing ELSE baseView[c]]
    BY <1>1, <1>2 DEF baseView, Loaded, Table!Nothing
<1>4. ownView' = [c \in Configs |-> IF c \in packages THEN {} ELSE ownView[c]]
    BY <1>1, <1>2 DEF ownView, Created
<1>5. \A c \in Configs \ packages : tableView'[c] = tableView[c]
    BY <1>2 DEF tableView, Shown, Get, Created, Loaded
<1>6. \A c \in packages : tableView'[c] = Table!Nothing
    BY <1>1 DEF tableView, Table!Nothing
<1>7. tableView' = [c \in Configs |-> IF c \in packages THEN Table!Nothing ELSE tableView[c]]
    BY <1>5, <1>6 DEF tableView
<1>8. QED
    BY <1>3, <1>4, <1>7 DEF Table!Discard

LEMMA CreateIsInsert ==
    ASSUME TypeOK, NEW c \in Configs, NEW type \in Types, NEW s \in Sids,
           ~Exists(c, s), Create(c, type, s)
    PROVE  Table!Insert(c, s)
<1> DEFINE new == [type |-> type, index |-> NewBase + newidx, birth |-> newidx, opts |-> Blank]
<1>1. new \in Section
    BY BlankIsContent, BoundsAssumption DEF TypeOK, Section
<1>2. creates'[c][s] = new /\ new # NoSection /\ new.opts = Blank
    BY <1>1, SectionAssumption DEF Create, TypeOK
<1>3. \A d \in Configs, x \in Sids : <<d, x>> # <<c, s>> => creates'[d][x] = creates[d][x]
    BY DEF Create, TypeOK
<1> HIDE DEF new
<1>4. UNCHANGED <<values, changes, deletesAll, deletesOpt>>
    BY DEF Create
<1>5. tableView[c][s] = NoSection /\ baseView[c][s] = NoSection
    BY DEF tableView, baseView, Shown, Exists
<1>6. baseView' = baseView
    BY <1>4 DEF baseView, Loaded
<1>7. ownView' = [ownView EXCEPT ![c] = @ \cup {s}]
    <2>1. \A d \in Configs, x \in Sids :
             Created(d, x)' <=> Created(d, x) \/ <<d, x>> = <<c, s>>
        BY <1>2, <1>3 DEF Created
    <2>2. \A x \in Sids : Created(c, x)' <=> x \in ownView[c] \cup {s}
        BY <2>1 DEF ownView
    <2>3. ownView[c] \cup {s} \subseteq Sids
        BY DEF ownView
    <2>4. QED
        BY <2>1, <2>2, <2>3, OwnExcept
<1>8. tableView'[c][s] = Blank
    BY <1>2 DEF tableView, Shown, Get, Created
<1>9. \A d \in Configs, x \in Sids : <<d, x>> # <<c, s>> => tableView'[d][x] = tableView[d][x]
    BY <1>3, <1>4 DEF tableView, Shown, Get, Created, Loaded
<1>10. tableView' = [tableView EXCEPT ![c][s] = Blank]
    BY <1>8, <1>9, ViewsAreTables, SectionExcept
<1>11. QED
    BY <1>5, <1>6, <1>7, <1>10 DEF Table!Insert, Table!Blank

\* What get() answers, and that a section is seen exactly when it is shown.
LEMMA TableEntry ==
    ASSUME TypeOK, NEW c \in Configs, NEW s \in Sids
    PROVE  /\ \A o \in Options : Get(c, s, o) \in Values \cup {None}
           /\ Shown(c, s) <=> tableView[c][s] # NoSection
<1>1. \A o \in Options : Get(c, s, o) \in Values \cup {None}
    BY DEF TypeOK, Get, Created, Loaded, Section
<1>2. [o \in Options |-> Get(c, s, o)] # NoSection
    \* the content of a section, a function, is not the absence of one
    BY <1>1, SectionAssumption
<1>3. QED
    BY <1>1, <1>2 DEF tableView

LEMMA RemoveIsDelete ==
    ASSUME TypeOK, OverlayOK, NEW c \in Configs, NEW s \in Sids,
           RemoveCreated(c, s) \/ RemoveLoaded(c, s)
    PROVE  Table!Delete(c, s)
<1>1. tableView[c][s] # NoSection
    BY TableEntry DEF RemoveCreated, RemoveLoaded, Listed, Shown
<1>2. baseView' = baseView
    BY DEF baseView, Loaded, RemoveCreated, RemoveLoaded
<1>3. CASE RemoveCreated(c, s)
    <2>1. /\ creates'[c][s] = NoSection
          /\ \A d \in Configs, x \in Sids :
                <<d, x>> # <<c, s>> => creates'[d][x] = creates[d][x]
          /\ UNCHANGED <<values, changes, deletesAll, deletesOpt>>
        BY <1>3 DEF RemoveCreated, TypeOK
    <2>2. s \in ownView[c] /\ ownView' = [ownView EXCEPT ![c] = @ \ {s}]
        <3>1. \A d \in Configs, x \in Sids :
                 Created(d, x)' <=> Created(d, x) /\ <<d, x>> # <<c, s>>
            BY <2>1 DEF Created
        <3>2. \A x \in Sids : Created(c, x)' <=> x \in ownView[c] \ {s}
            BY <3>1 DEF ownView
        <3>3. ownView[c] \ {s} \subseteq Sids /\ s \in ownView[c]
            BY <1>3 DEF ownView, RemoveCreated
        <3>4. QED
            BY <3>1, <3>2, <3>3, OwnExcept
    <2>3. s \notin deletesAll[c] /\ changes[c][s] = Blank /\ deletesOpt[c][s] = {}
        BY <1>3 DEF OverlayOK, NoConflict, RemoveCreated
    <2>4. tableView'[c][s] = baseView[c][s]
        <3>1. ~Created(c, s)' /\ (Shown(c, s)' <=> Loaded(c, s))
            BY <2>1, <2>3 DEF Created, Shown, Loaded
        <3>2. CASE Loaded(c, s)
            <4>1. values[c][s].opts \in [Options -> Values \cup {None}]
                BY <3>2 DEF Loaded, TypeOK, Section
            <4>2. \A o \in Options : Get(c, s, o)' = values[c][s].opts[o]
                BY <2>1, <2>3, <3>1, <3>2 DEF Get, Loaded
            <4>3. tableView'[c][s] = [o \in Options |-> Get(c, s, o)']
                BY <3>1, <3>2 DEF tableView
            <4>4. QED
                BY <3>2, <4>1, <4>2, <4>3 DEF baseView
        <3>3. CASE ~Loaded(c, s)
            BY <3>1, <3>3 DEF tableView, baseView
        <3>4. QED
            BY <3>2, <3>3
    <2>5. \A d \in Configs, x \in Sids : <<d, x>> # <<c, s>> => tableView'[d][x] = tableView[d][x]
        BY <2>1 DEF tableView, Shown, Get, Created, Loaded
    <2>6. tableView' = [tableView EXCEPT ![c][s] = baseView[c][s]]
        BY <2>4, <2>5, ViewsAreTables, SectionExcept
    <2>7. QED
        BY <1>1, <1>2, <2>2, <2>6 DEF Table!Delete
<1>4. CASE RemoveLoaded(c, s)
    <2>1. /\ deletesAll' = [deletesAll EXCEPT ![c] = @ \cup {s}]
          /\ \A d \in Configs, x \in Sids : <<d, x>> # <<c, s>> =>
                changes'[d][x] = changes[d][x] /\ deletesOpt'[d][x] = deletesOpt[d][x]
          /\ ~Created(c, s)
          /\ UNCHANGED <<values, creates>>
        BY <1>4 DEF RemoveLoaded, TypeOK
    <2>2. s \notin ownView[c]
        BY <2>1 DEF ownView
    <2>3. ownView' = [ownView EXCEPT ![c] = @ \ {s}]
        <3>1. ownView' = ownView
            BY <2>1 DEF ownView, Created
        <3>2. ownView[c] \ {s} = ownView[c]
            BY <2>2
        <3>3. ownView = [ownView EXCEPT ![c] = ownView[c]]
            BY DEF ownView
        <3>4. QED
            BY <3>1, <3>2, <3>3
    <2>4. tableView'[c][s] = NoSection
        <3>1. s \in deletesAll'[c] /\ creates'[c][s] = creates[c][s]
            BY <2>1 DEF TypeOK
        <3>2. ~Shown(c, s)'
            BY <2>1, <3>1 DEF Shown, Created
        <3>3. QED
            BY <3>2 DEF tableView
    <2>5. \A d \in Configs, x \in Sids : <<d, x>> # <<c, s>> => tableView'[d][x] = tableView[d][x]
        <3>1. \A d \in Configs, x \in Sids : <<d, x>> # <<c, s>> =>
                 (x \in deletesAll'[d] <=> x \in deletesAll[d])
            BY <2>1 DEF TypeOK
        <3>2. ASSUME NEW d \in Configs, NEW x \in Sids, <<d, x>> # <<c, s>>
              PROVE  tableView'[d][x] = tableView[d][x]
            <4>1. /\ changes'[d][x] = changes[d][x] /\ deletesOpt'[d][x] = deletesOpt[d][x]
                  /\ (x \in deletesAll'[d] <=> x \in deletesAll[d])
                  /\ values' = values /\ creates' = creates
                BY <2>1, <3>1, <3>2
            <4>2. QED
                BY <4>1 DEF tableView, Shown, Get, Created, Loaded
        <3>3. QED
            BY <3>2
    <2>6. tableView' = [tableView EXCEPT ![c][s] = NoSection]
        BY <2>4, <2>5, ViewsAreTables, SectionExcept
    <2>7. QED
        BY <1>1, <1>2, <2>2, <2>3, <2>6 DEF Table!Delete
<1>5. QED
    BY <1>3, <1>4

\* A call that changes what get() answers for one option of a shown section, and
\* nothing else, is a write of that option.
LEMMA GetChangeIsWrite ==
    ASSUME TypeOK, NEW c \in Configs, NEW s \in Sids, NEW o \in Options, NEW val,
           Shown(c, s),
           Get(c, s, o)' = val,
           \A p \in Options : p # o => Get(c, s, p)' = Get(c, s, p),
           \A d \in Configs, x \in Sids : Shown(d, x)' <=> Shown(d, x),
           \A d \in Configs, x \in Sids : <<d, x>> # <<c, s>> =>
              \A p \in Options : Get(d, x, p)' = Get(d, x, p),
           \A d \in Configs, x \in Sids : Created(d, x)' <=> Created(d, x),
           UNCHANGED values
    PROVE  Table!Write(c, s, o, val)
<1>1. baseView' = baseView
    BY DEF baseView, Loaded
<1>2. ownView' = ownView
    BY DEF ownView
<1>3. tableView[c][s] = [p \in Options |-> Get(c, s, p)]
    BY DEF tableView
<1>4. tableView'[c][s] = [p \in Options |-> Get(c, s, p)']
    BY DEF tableView
<1>5. tableView'[c][s] = [tableView[c][s] EXCEPT ![o] = val]
    BY <1>3, <1>4
<1>6. \A d \in Configs, x \in Sids : <<d, x>> # <<c, s>> => tableView'[d][x] = tableView[d][x]
    BY DEF tableView
<1>7. tableView' = [tableView EXCEPT ![c][s] = [tableView[c][s] EXCEPT ![o] = val]]
    BY <1>5, <1>6, ViewsAreTables, SectionExcept
<1>8. tableView' = [tableView EXCEPT ![c][s][o] = val]
    BY <1>7
<1>9. tableView[c][s] # NoSection
    BY TableEntry
<1>10. QED
    BY <1>1, <1>2, <1>8, <1>9 DEF Table!Write

LEMMA SetIsWrite ==
    ASSUME TypeOK, OverlayOK, NEW c \in Configs, NEW s \in Sids, NEW o \in Options,
           NEW val \in Values \cup {None},
           SetCreated(c, s, o, val) \/ SetChange(c, s, o, val) \/ SetDelete(c, s, o, val)
    PROVE  \E written \in Values \cup {None} : Table!Write(c, s, o, written)
<1>1. CASE SetCreated(c, s, o, val)
    <2>1. creates[c][s] \in Section
        BY <1>1 DEF TypeOK, SetCreated, Created
    <2>2. [creates[c][s] EXCEPT !.opts[o] = val] \in Section
        BY <2>1 DEF Section
    <2>3. /\ creates'[c][s] = [creates[c][s] EXCEPT !.opts[o] = val]
          /\ \A d \in Configs, x \in Sids :
                <<d, x>> # <<c, s>> => creates'[d][x] = creates[d][x]
          /\ UNCHANGED <<values, changes, deletesAll, deletesOpt>>
        BY <1>1 DEF SetCreated, TypeOK
    <2>4. creates'[c][s].opts = [creates[c][s].opts EXCEPT ![o] = val]
        BY <2>1, <2>3 DEF Section
    <2>5. \A d \in Configs, x \in Sids : Created(d, x)' <=> Created(d, x)
        BY <1>1, <2>2, <2>3, SectionAssumption DEF Created, SetCreated
    <2>6. \A d \in Configs, x \in Sids : Shown(d, x)' <=> Shown(d, x)
        BY <2>3, <2>5 DEF Shown, Loaded
    <2>7. \A p \in Options : Get(c, s, p)' = IF p = o THEN val ELSE Get(c, s, p)
        BY <1>1, <2>1, <2>4, <2>5 DEF Get, SetCreated, Section
    <2>8. \A d \in Configs, x \in Sids : <<d, x>> # <<c, s>> =>
             \A p \in Options : Get(d, x, p)' = Get(d, x, p)
        BY <2>3, <2>5 DEF Get, Loaded
    <2>9. Shown(c, s)
        BY <1>1 DEF Shown, SetCreated
    <2>10. QED
        BY <2>3, <2>5, <2>6, <2>7, <2>8, <2>9, GetChangeIsWrite
<1>2. CASE SetChange(c, s, o, val)
    <2>1. /\ \A d \in Configs, x \in Sids : <<d, x>> # <<c, s>> =>
                changes'[d][x] = changes[d][x] /\ deletesOpt'[d][x] = deletesOpt[d][x]
          /\ \A p \in Options : changes'[c][s][p] = IF p = o THEN val ELSE changes[c][s][p]
          /\ deletesOpt'[c][s] = deletesOpt[c][s] \ {o}
          /\ UNCHANGED <<values, creates, deletesAll>>
        BY <1>2 DEF SetChange, TypeOK
    <2>2. \A d \in Configs, x \in Sids :
             (Created(d, x)' <=> Created(d, x)) /\ (Shown(d, x)' <=> Shown(d, x))
        BY <2>1 DEF Shown, Loaded, Created
    <2>3. Shown(c, s) /\ ~Created(c, s) /\ s \notin deletesAll[c] /\ val # None
        BY <1>2 DEF SetChange, Shown
    <2>4. \A p \in Options : Get(c, s, p)' = IF p = o THEN val ELSE Get(c, s, p)
        BY <2>1, <2>2, <2>3 DEF Get, Loaded
    <2>5. \A d \in Configs, x \in Sids : <<d, x>> # <<c, s>> =>
             \A p \in Options : Get(d, x, p)' = Get(d, x, p)
        BY <2>1, <2>2 DEF Get, Loaded
    <2>6. QED
        BY <2>1, <2>2, <2>3, <2>4, <2>5, GetChangeIsWrite
<1>3. CASE SetDelete(c, s, o, val)
    <2>1. /\ \A d \in Configs, x \in Sids : <<d, x>> # <<c, s>> =>
                deletesOpt'[d][x] = deletesOpt[d][x]
          /\ deletesOpt'[c][s] = deletesOpt[c][s] \cup {o}
          /\ UNCHANGED <<values, creates, changes, deletesAll>>
        BY <1>3 DEF SetDelete, TypeOK
    <2>2. \A d \in Configs, x \in Sids :
             (Created(d, x)' <=> Created(d, x)) /\ (Shown(d, x)' <=> Shown(d, x))
        BY <2>1 DEF Shown, Loaded, Created
    <2>3. Shown(c, s) /\ ~Created(c, s)
        BY <1>3 DEF SetDelete, Shown
    <2>4. \A p \in Options : Get(c, s, p)' = IF p = o THEN None ELSE Get(c, s, p)
        BY <2>1, <2>2, <2>3 DEF Get, Loaded
    <2>5. \A d \in Configs, x \in Sids : <<d, x>> # <<c, s>> =>
             \A p \in Options : Get(d, x, p)' = Get(d, x, p)
        BY <2>1, <2>2 DEF Get, Loaded
    <2>6. QED
        BY <2>1, <2>2, <2>3, <2>4, <2>5, GetChangeIsWrite
<1>4. QED
    BY <1>1, <1>2, <1>3

\* swap and sections() are not seen in the table: they write indices only.
LEMMA IndicesAreHidden ==
    ASSUME TypeOK,
           \A d \in Configs : SameButIndex(values[d], values'[d]) /\ SameButIndex(creates[d], creates'[d]),
           UNCHANGED <<changes, deletesAll, deletesOpt>>
    PROVE  UNCHANGED <<baseView, ownView, tableView>>
<1>1. \A d \in Configs, x \in Sids :
         /\ Created(d, x)' <=> Created(d, x)
         /\ Loaded(d, x)' <=> Loaded(d, x)
         /\ Created(d, x) => creates'[d][x].opts = creates[d][x].opts
         /\ Loaded(d, x) => values'[d][x].opts = values[d][x].opts
    BY DEF SameButIndex, Created, Loaded
<1>2. baseView' = baseView /\ ownView' = ownView
    BY <1>1 DEF baseView, ownView
<1>3. \A d \in Configs, x \in Sids : tableView'[d][x] = tableView[d][x]
    BY <1>1 DEF tableView, Shown, Get
<1>4. tableView' = tableView
    BY <1>3, ViewsAreTables
<1>5. QED
    BY <1>2, <1>4

LEMMA TableStep == TypeOK /\ OverlayOK /\ [Next]_vars => [Table!Next]_(Table!vars)
<1> SUFFICES ASSUME TypeOK, OverlayOK, [Next]_vars
             PROVE  [Table!Next]_(Table!vars)
    OBVIOUS
<1>1. ASSUME NEW c \in Configs, NEW type, ReadSections(c, type)
      PROVE  UNCHANGED Table!vars
    <2>1. \A d \in Configs : SameButIndex(values[d], values'[d])
        BY <1>1 DEF ReadSections, SameButIndex, TypeOK
    <2>2. QED
        BY <1>1, <2>1, ReadIndices, IndicesAreHidden DEF ReadSections, Table!vars
<1>2. ASSUME NEW c \in Configs, NEW s \in Sids, NEW t \in Sids, Swap(c, s, t)
      PROVE  UNCHANGED Table!vars
    BY <1>2, SwapIndices, IndicesAreHidden DEF Swap, Table!vars
<1>3. CASE UNCHANGED vars
    <2>1. UNCHANGED <<baseView, ownView, tableView>>
        BY <1>3 DEF vars, baseView, ownView, tableView, Shown, Get, Created, Loaded
    <2>2. QED
        BY <2>1 DEF Table!vars
<1>4. ASSUME NEW c \in Configs, NEW snapshot \in Snapshots, Load(c, snapshot)
      PROVE  Table!Next
    BY <1>4, LoadIsFetch DEF Table!Next
<1>5. ASSUME NEW packages \in SUBSET Configs, Unload(packages)
      PROVE  Table!Next
    BY <1>5, UnloadIsDiscard DEF Table!Next
<1>6. ASSUME NEW c \in Configs, NEW s \in Sids, NEW type \in Types,
             AddNamed(c, type, s) \/ AddAnonymous(c, type, s)
      PROVE  Table!Next
    BY <1>6, CreateIsInsert DEF Table!Next, AddNamed, AddAnonymous
<1>7. ASSUME NEW c \in Configs, NEW s \in Sids, RemoveCreated(c, s) \/ RemoveLoaded(c, s)
      PROVE  Table!Next
    BY <1>7, RemoveIsDelete DEF Table!Next
<1>8. ASSUME NEW c \in Configs, NEW s \in Sids, NEW o \in Options,
             NEW val \in Values \cup {None},
             SetCreated(c, s, o, val) \/ SetChange(c, s, o, val) \/ SetDelete(c, s, o, val)
      PROVE  Table!Next
    BY <1>8, SetIsWrite DEF Table!Next
<1>9. QED
    BY <1>1, <1>2, <1>3, <1>4, <1>5, <1>6, <1>7, <1>8 DEF Next

\* The cache implements the table: every edit is seen by get() at once and by
\* nobody else, and the copy loaded from the router stays as it was loaded.
THEOREM CacheImplementsTable == Spec => ImplementsTable
<1>1. Init => Table!Init
    BY DEF Init, Table!Init, baseView, ownView, tableView, Table!Nothing, Created, Loaded, Shown
<1>2. Init => TypeOK /\ OverlayOK
    BY BlankIsContent DEF Init, TypeOK, OverlayOK, NoConflict, PendingIsReal, Created, Loaded
<1>3. TypeOK /\ OverlayOK /\ [Next]_vars => (TypeOK /\ OverlayOK)'
    BY TypeStep, OverlayStep
<1>4. QED
    BY <1>1, <1>2, <1>3, TableStep, PTL DEF Spec, ImplementsTable, Table!Spec

\* get() answers with what was last set, through every layer of the cache.
LEMMA SetIsSeen ==
    ASSUME TypeOK, NEW c \in Configs, NEW s \in Sids, NEW o \in Options,
           NEW val \in Values \cup {None},
           SetCreated(c, s, o, val) \/ SetChange(c, s, o, val) \/ SetDelete(c, s, o, val)
    PROVE  Get(c, s, o)' = IF val = EmptyString /\ ~Created(c, s) THEN None ELSE val
<1>1. CASE SetCreated(c, s, o, val)
    <2>1. creates[c][s] \in Section
        BY <1>1 DEF TypeOK, SetCreated, Created
    <2>2. [creates[c][s] EXCEPT !.opts[o] = val] \in Section
        BY <2>1 DEF Section
    <2>3. creates'[c][s] = [creates[c][s] EXCEPT !.opts[o] = val]
        BY <1>1 DEF SetCreated, TypeOK
    <2>4. creates'[c][s].opts[o] = val
        BY <2>1, <2>3 DEF Section
    <2>5. Created(c, s) /\ Created(c, s)'
        BY <1>1, <2>2, <2>3, SectionAssumption DEF SetCreated, Created
    <2>6. QED
        BY <2>4, <2>5 DEF Get
<1>2. CASE SetChange(c, s, o, val)
    <2>1. ~Created(c, s) /\ ~Created(c, s)' /\ s \notin deletesAll'[c] /\ val \notin {None, EmptyString}
        BY <1>2 DEF SetChange, Created
    <2>2. o \notin deletesOpt'[c][s] /\ changes'[c][s][o] = val
        BY <1>2 DEF SetChange, TypeOK
    <2>3. QED
        BY <2>1, <2>2 DEF Get
<1>3. CASE SetDelete(c, s, o, val)
    <2>1. ~Created(c, s) /\ ~Created(c, s)' /\ val \in {None, EmptyString}
        BY <1>3 DEF SetDelete, Created
    <2>2. o \in deletesOpt'[c][s]
        BY <1>3 DEF SetDelete, TypeOK
    <2>3. QED
        BY <2>1, <2>2 DEF Get
<1>4. QED
    BY <1>1, <1>2, <1>3

LEMMA RemoveIsSeen ==
    ASSUME TypeOK, OverlayOK, NEW c \in Configs, NEW s \in Sids,
           RemoveCreated(c, s) \/ RemoveLoaded(c, s)
    PROVE  Shown(c, s)' <=> Created(c, s) /\ Loaded(c, s)
<1>1. CASE RemoveCreated(c, s)
    <2>1. Created(c, s) /\ ~Created(c, s)' /\ s \notin deletesAll[c]
        BY <1>1 DEF RemoveCreated, Created, TypeOK, OverlayOK, NoConflict
    <2>2. QED
        BY <1>1, <2>1 DEF RemoveCreated, Shown, Loaded
<1>2. CASE RemoveLoaded(c, s)
    BY <1>2 DEF RemoveLoaded, Shown, Created, TypeOK
<1>3. QED
    BY <1>1, <1>2

\* Every edit is seen at once: get() answers with it, and no removed section is
\* seen but for the one a created section was hiding.
THEOREM EditsSeen == Spec => EditsAreSeen
<1> DEFINE Seen == \A c \in Configs, s \in Sids :
          /\ \A o \in Options, val \in Values \cup {None} :
                SetCreated(c, s, o, val) \/ SetChange(c, s, o, val) \/ SetDelete(c, s, o, val) =>
                  Get(c, s, o)' = IF val = EmptyString /\ ~Created(c, s) THEN None ELSE val
          /\ RemoveCreated(c, s) \/ RemoveLoaded(c, s) =>
                Shown(c, s)' = (Created(c, s) /\ Loaded(c, s))
<1>1. Init => TypeOK /\ OverlayOK
    BY BlankIsContent DEF Init, TypeOK, OverlayOK, NoConflict, PendingIsReal, Created, Loaded
<1>2. TypeOK /\ OverlayOK /\ [Next]_vars => (TypeOK /\ OverlayOK)'
    BY TypeStep, OverlayStep
<1>3. TypeOK /\ OverlayOK => Seen
    <2>1. ASSUME TypeOK, OverlayOK, NEW c \in Configs, NEW s \in Sids,
                 RemoveCreated(c, s) \/ RemoveLoaded(c, s)
          PROVE  Shown(c, s)' = (Created(c, s) /\ Loaded(c, s))
        BY <2>1, RemoveIsSeen DEF Shown, Created, Loaded
    <2>2. QED
        BY <2>1, SetIsSeen
<1>4. TypeOK /\ OverlayOK /\ [Next]_vars => [Seen]_vars
    BY <1>3
<1>5. QED
    BY <1>1, <1>2, <1>4, PTL DEF Spec, EditsAreSeen
=============================================================================
