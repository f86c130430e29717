------------------------------ MODULE UciState ------------------------------
(***************************************************************************)
(* The client side configuration cache: the object L.uci of uci.js.  It    *)
(* keeps the sections loaded from the router (state.values) and, beside    *)
(* them, the edits the user has not saved: sections created, options       *)
(* changed, sections and options deleted, and packages to be reordered.    *)
(* The loads and the saves themselves are in UciSave; here a load is its   *)
(* reply.                                                                   *)
(***************************************************************************)
EXTENDS Naturals, FiniteSets

CONSTANTS
    Configs,    \* uci packages
    Sids,       \* section names
    Temps,      \* the names createSID draws from: a section with such a name is anonymous
    Types,      \* section types
    Options,    \* option names
    Values,     \* option values
    EmptyString,\* the value '', which set treats as a deletion
    None,       \* JavaScript's undefined, for an option
    NoSection,  \* JavaScript's undefined, for a section
    AnyType,    \* sections() called without a type
    ReadTypes,  \* the types the views call sections() with, AnyType among them
    NewBase,    \* the first index of a created section (1000 in the code)
    MaxNew,     \* bound on the number of sections created, for TLC
    Snapshots   \* the packages the router may answer a load with

Section == [type : Types, index : Nat, birth : Nat, opts : [Options -> Values \cup {None}]]
Package == [Sids -> Section \cup {NoSection}]
Blank   == [o \in Options |-> None]
EmptyPackage == [s \in Sids |-> NoSection]

ASSUME SidsAssumption == IsFiniteSet(Sids) /\ Temps \subseteq Sids
ASSUME ValuesAssumption == EmptyString \in Values /\ None \notin Values
ASSUME SectionAssumption ==
    NoSection \notin Section /\ NoSection \notin [Options -> Values \cup {None}]
ASSUME ReadTypesAssumption == ReadTypes \subseteq Types \cup {AnyType}
ASSUME BoundsAssumption == NewBase \in Nat /\ MaxNew \in Nat
ASSUME SnapshotsAssumption == Snapshots \subseteq Package
\* A created section counts from an index above every place of a package, with
\* room for a loaded and a created section of each name.
ASSUME RoomAssumption ==
    /\ 2 * Cardinality(Sids) <= NewBase
    /\ \A p \in Snapshots, s \in Sids : p[s] # NoSection => p[s].index < NewBase

VARIABLES
    values,     \* state.values: the sections as loaded (only swap changes them, their index)
    loaded,     \* the packages state.values has an entry for
    creates,    \* state.creates: the sections added and not saved
    opened,     \* the packages state.creates has an entry for, be it empty
    changes,    \* state.changes: new values of options of loaded sections
    deletesAll, \* state.deletes, where it is true: sections to delete
    deletesOpt, \* state.deletes, where it is a list: options to delete
    reorder,    \* state.reorder: packages whose order is to be saved
    newidx      \* state.newidx

vars == <<values, loaded, creates, opened, changes, deletesAll, deletesOpt, reorder, newidx>>

TypeOK ==
    /\ values \in [Configs -> Package]
    /\ loaded \subseteq Configs
    /\ creates \in [Configs -> Package]
    /\ opened \subseteq Configs
    /\ changes \in [Configs -> [Sids -> [Options -> Values \cup {None}]]]
    /\ deletesAll \in [Configs -> SUBSET Sids]
    /\ deletesOpt \in [Configs -> [Sids -> SUBSET Options]]
    /\ reorder \subseteq Configs
    /\ newidx \in Nat

Init ==
    /\ values = [c \in Configs |-> EmptyPackage]
    /\ loaded = {}
    /\ creates = [c \in Configs |-> EmptyPackage]
    /\ opened = {}
    /\ changes = [c \in Configs |-> [s \in Sids |-> Blank]]
    /\ deletesAll = [c \in Configs |-> {}]
    /\ deletesOpt = [c \in Configs |-> [s \in Sids |-> {}]]
    /\ reorder = {}
    /\ newidx = 0

-----------------------------------------------------------------------------
(* Reading *)

Created(c, s) == creates[c][s] # NoSection
Loaded(c, s)  == values[c][s] # NoSection

\* Mutant of Exists: a section whose deletion is pending is not found.
ExistsUnlessDeleted(c, s) == Created(c, s) \/ (Loaded(c, s) /\ s \notin deletesAll[c])

\* get(conf, sid): a section is found even when its deletion is pending.
Exists(c, s) == Created(c, s) \/ Loaded(c, s)

\* get(conf, sid, opt)
Get(c, s, o) ==
    IF Created(c, s) THEN creates[c][s].opts[o]
    ELSE IF s \in deletesAll[c] \/ o \in deletesOpt[c][s] THEN None
    ELSE IF changes[c][s][o] # None THEN changes[c][s][o]
    ELSE IF Loaded(c, s) THEN values[c][s].opts[o]
    ELSE None

\* What sections() sorts, by index; sort is stable and the loaded sections come
\* first in it, each group in the order in which JavaScript keeps its keys.
Entry(c, s) == IF Created(c, s) THEN creates[c][s] ELSE values[c][s]

Before(c, s, t) ==
    LET a == Entry(c, s)
        b == Entry(c, t)
    IN  \/ a.index < b.index
        \/ a.index = b.index /\ ~Created(c, s) /\ Created(c, t)
        \/ a.index = b.index /\ (Created(c, s) <=> Created(c, t)) /\ a.birth < b.birth

\* The sections sections(conf, type) lists.
Listed(c, type) ==
    {s \in Sids : /\ c \in loaded
                  /\ Created(c, s) \/ (Loaded(c, s) /\ s \notin deletesAll[c])
                  /\ type \in {AnyType, Entry(c, s).type}}

\* A section that was loaded after one of its name was added is listed as well.
Shadowed(c, type) ==
    {s \in Sids : Created(c, s) /\ Loaded(c, s) /\ type \in {AnyType, values[c][s].type}}

ShadowedBefore(c, t, s) ==
    LET a == values[c][t]
        b == Entry(c, s)
    IN  \/ a.index < b.index
        \/ a.index = b.index /\ (Created(c, s) \/ a.birth < b.birth)

\* Mutant of Rank: counts from -1.
RankOffByOne(c, type, s) == Cardinality({t \in Listed(c, type) : Before(c, t, s)}) - 1

\* The place of a section in what sections() lists.
Rank(c, type, s) ==
    Cardinality({t \in Listed(c, type) : Before(c, t, s)})
      + Cardinality({t \in Shadowed(c, type) : ShadowedBefore(c, t, s)})

-----------------------------------------------------------------------------
(* Loading and dropping packages *)

\* The reply to load: only a package without an entry was asked for.  A call
\* that fails alone answers as an empty package.
Load(c, snapshot) ==
    /\ c \notin loaded
    /\ values' = [values EXCEPT ![c] = snapshot]
    /\ loaded' = loaded \cup {c}
    /\ UNCHANGED <<creates, opened, changes, deletesAll, deletesOpt, reorder, newidx>>

\* Mutant of Unload: forgets to drop the changes.
UnloadKeepsChanges(packages) ==
    /\ values' = [c \in Configs |-> IF c \in packages THEN EmptyPackage ELSE values[c]]
    /\ loaded' = loaded \ packages
    /\ creates' = [c \in Configs |-> IF c \in packages THEN EmptyPackage ELSE creates[c]]
    /\ opened' = opened \ packages
    /\ deletesAll' = [c \in Configs |-> IF c \in packages THEN {} ELSE deletesAll[c]]
    /\ deletesOpt' = [c \in Configs |->
                        IF c \in packages THEN [s \in Sids |-> {}] ELSE deletesOpt[c]]
    /\ UNCHANGED <<changes, reorder, newidx>>

\* unload leaves state.reorder alone.
Unload(packages) ==
    /\ values' = [c \in Configs |-> IF c \in packages THEN EmptyPackage ELSE values[c]]
    /\ loaded' = loaded \ packages
    /\ creates' = [c \in Configs |-> IF c \in packages THEN EmptyPackage ELSE creates[c]]
    /\ opened' = opened \ packages
    /\ changes' = [c \in Configs |->
                     IF c \in packages THEN [s \in Sids |-> Blank] ELSE changes[c]]
    /\ deletesAll' = [c \in Configs |-> IF c \in packages THEN {} ELSE deletesAll[c]]
    /\ deletesOpt' = [c \in Configs |->
                        IF c \in packages THEN [s \in Sids |-> {}] ELSE deletesOpt[c]]
    /\ UNCHANGED <<reorder, newidx>>

-----------------------------------------------------------------------------
(* Adding and removing sections *)

\* Mutant of Create: every created section gets the same index.
CreateSameIndex(c, type, s) ==
    /\ newidx < MaxNew
    /\ creates' = [creates EXCEPT ![c][s] =
                     [type |-> type, index |-> NewBase, birth |-> newidx, opts |-> Blank]]
    /\ opened' = opened \cup {c}
    /\ newidx' = newidx + 1
    /\ UNCHANGED <<values, loaded, changes, deletesAll, deletesOpt, reorder>>

Create(c, type, s) ==
    /\ newidx < MaxNew
    /\ creates' = [creates EXCEPT ![c][s] =
                     [type |-> type, index |-> NewBase + newidx, birth |-> newidx, opts |-> Blank]]
    /\ opened' = opened \cup {c}
    /\ newidx' = newidx + 1
    /\ UNCHANGED <<values, loaded, changes, deletesAll, deletesOpt, reorder>>

\* add with a name: handleSID (cbi.js) refuses a name get() finds.
AddNamed(c, type, s) ==
    /\ s \notin Temps
    /\ ~Exists(c, s)
    /\ Create(c, type, s)

\* add without a name: createSID retries until the name is free.
AddAnonymous(c, type, s) ==
    /\ s \in Temps
    /\ ~Exists(c, s)
    /\ Create(c, type, s)

RemoveCreated(c, s) ==
    /\ Created(c, s)
    /\ creates' = [creates EXCEPT ![c][s] = NoSection]
    /\ UNCHANGED <<values, loaded, opened, changes, deletesAll, deletesOpt, reorder, newidx>>

\* Mutant of RemoveLoaded: keeps the changes of the section.
RemoveKeepsChanges(c, s) ==
    /\ s \in Listed(c, AnyType)
    /\ ~Created(c, s)
    /\ deletesAll' = [deletesAll EXCEPT ![c] = @ \cup {s}]
    /\ deletesOpt' = [deletesOpt EXCEPT ![c][s] = {}]
    /\ UNCHANGED <<values, loaded, creates, opened, changes, reorder, newidx>>

\* The views offer the removal of the sections they list.
RemoveLoaded(c, s) ==
    /\ s \in Listed(c, AnyType)
    /\ ~Created(c, s)
    /\ changes' = [changes EXCEPT ![c][s] = Blank]
    /\ deletesAll' = [deletesAll EXCEPT ![c] = @ \cup {s}]
    /\ deletesOpt' = [deletesOpt EXCEPT ![c][s] = {}]
    /\ UNCHANGED <<values, loaded, creates, opened, reorder, newidx>>

-----------------------------------------------------------------------------
(* set and unset: the branches of set, in its order *)

SetCreated(c, s, o, val) ==
    /\ Created(c, s)
    /\ creates' = [creates EXCEPT ![c][s].opts[o] = val]
    /\ UNCHANGED <<values, loaded, opened, changes, deletesAll, deletesOpt, reorder, newidx>>

\* Mutant of SetChange: does not undelete the option.
SetChangeStillDeleted(c, s, o, val) ==
    /\ ~Created(c, s)
    /\ val \notin {None, EmptyString}
    /\ s \notin deletesAll[c]
    /\ Loaded(c, s)
    /\ changes' = [changes EXCEPT ![c][s][o] = val]
    /\ UNCHANGED <<values, loaded, creates, opened, deletesAll, deletesOpt, reorder, newidx>>

SetChange(c, s, o, val) ==
    /\ ~Created(c, s)
    /\ val \notin {None, EmptyString}
    /\ s \notin deletesAll[c]
    /\ Loaded(c, s)
    /\ deletesOpt' = [deletesOpt EXCEPT ![c][s] = @ \ {o}]
    /\ changes' = [changes EXCEPT ![c][s][o] = val]
    /\ UNCHANGED <<values, loaded, creates, opened, deletesAll, reorder, newidx>>

\* The change of the option stays in state.changes; the deletion hides it.
SetDelete(c, s, o, val) ==
    /\ ~Created(c, s)
    /\ val \in {None, EmptyString}
    /\ s \notin deletesAll[c]
    /\ Loaded(c, s)
    /\ deletesOpt' = [deletesOpt EXCEPT ![c][s] = @ \cup {o}]
    /\ UNCHANGED <<values, loaded, creates, opened, changes, deletesAll, reorder, newidx>>

-----------------------------------------------------------------------------
(* The order of the sections *)

\* sections(conf, type) writes each listed section's rank into its index.  A
\* loaded section is copied first, so only the created ones keep it.
ReadSections(c, type) ==
    /\ c \in loaded
    /\ creates' = [creates EXCEPT ![c] =
                     [s \in Sids |-> IF Created(c, s) /\ s \in Listed(c, type)
                                     THEN [creates[c][s] EXCEPT !.index = Rank(c, type, s)]
                                     ELSE creates[c][s]]]
    /\ UNCHANGED <<values, loaded, opened, changes, deletesAll, deletesOpt, reorder, newidx>>

\* The sort buttons are on rendered sections: sections() has ranked them.
Rendered(c, s) == s \in Listed(c, AnyType) /\ (Created(c, s) => Entry(c, s).index < NewBase)

\* swap exchanges the indices of two sections where get() finds them: a created
\* section in creates, another one in values.
Reindexed(package, c, s, t, moved) ==
    [x \in Sids |-> IF x \in moved
                    THEN [package[x] EXCEPT !.index = Entry(c, IF x = s THEN t ELSE s).index]
                    ELSE package[x]]

\* Mutant of Swap: writes the index of the first section only.
SwapOneSided(c, s, t) ==
    LET new == {x \in {s} : Created(c, x)}
    IN  /\ s # t
        /\ Rendered(c, s) /\ Rendered(c, t)
        /\ values' = [values EXCEPT ![c] = Reindexed(@, c, s, t, {s} \ new)]
        /\ creates' = [creates EXCEPT ![c] = Reindexed(@, c, s, t, new)]
        /\ reorder' = reorder \cup {c}
        /\ UNCHANGED <<loaded, opened, changes, deletesAll, deletesOpt, newidx>>

Swap(c, s, t) ==
    LET new == {x \in {s, t} : Created(c, x)}
    IN  /\ s # t
        /\ Rendered(c, s) /\ Rendered(c, t)
        /\ values' = [values EXCEPT ![c] = Reindexed(@, c, s, t, {s, t} \ new)]
        /\ creates' = [creates EXCEPT ![c] = Reindexed(@, c, s, t, new)]
        /\ reorder' = reorder \cup {c}
        /\ UNCHANGED <<loaded, opened, changes, deletesAll, deletesOpt, newidx>>

-----------------------------------------------------------------------------

Next ==
    \/ \E c \in Configs, snapshot \in Snapshots : Load(c, snapshot)
    \/ \E packages \in SUBSET Configs : Unload(packages)
    \/ \E c \in Configs, s \in Sids, type \in Types : AddNamed(c, type, s)
    \/ \E c \in Configs, s \in Sids, type \in Types : AddAnonymous(c, type, s)
    \/ \E c \in Configs, s \in Sids : RemoveCreated(c, s)
    \/ \E c \in Configs, s \in Sids : RemoveLoaded(c, s)
    \/ \E c \in Configs, s \in Sids, o \in Options, val \in Values \cup {None} :
          \/ SetCreated(c, s, o, val)
          \/ SetChange(c, s, o, val)
          \/ SetDelete(c, s, o, val)
    \/ \E c \in Configs, type \in ReadTypes : ReadSections(c, type)
    \/ \E c \in Configs, s, t \in Sids : Swap(c, s, t)

Spec == Init /\ [][Next]_vars

-----------------------------------------------------------------------------
(* Properties *)

\* save sends every addition, then every change, then every deletion.  That order
\* loses nothing because no name is both added and changed or deleted: a name
\* whose deletion is pending cannot be taken again before it is saved.
NoConflict ==
    \A c \in Configs, s \in Sids :
        Created(c, s) => /\ s \notin deletesAll[c]
                         /\ changes[c][s] = Blank
                         /\ deletesOpt[c][s] = {}

\* Changes and deletions are only pending for sections of a loaded package that
\* are there (the router would refuse the others), and nothing is pending inside a
\* section that is to be deleted as a whole.
PendingIsReal ==
    \A c \in Configs, s \in Sids :
        /\ Loaded(c, s) => c \in loaded
        /\ \/ s \in deletesAll[c]
           \/ changes[c][s] # Blank
           \/ deletesOpt[c][s] # {}
           => Loaded(c, s)
        /\ s \in deletesAll[c] => changes[c][s] = Blank /\ deletesOpt[c][s] = {}

\* The invariant that both rest on is their conjunction.
OverlayOK == NoConflict /\ PendingIsReal

\* What the views see of the cache, as the table of ConfigTable.
Shown(c, s) == Created(c, s) \/ (Loaded(c, s) /\ s \notin deletesAll[c])

baseView ==
    [c \in Configs |-> [s \in Sids |-> IF Loaded(c, s) THEN values[c][s].opts ELSE NoSection]]
ownView == [c \in Configs |-> {s \in Sids : Created(c, s)}]
tableView ==
    [c \in Configs |-> [s \in Sids |-> IF Shown(c, s) THEN [o \in Options |-> Get(c, s, o)]
                                       ELSE NoSection]]

Table == INSTANCE ConfigTable
           WITH base <- baseView, own <- ownView, table <- tableView, Absent <- NoSection

\* get() answers with the last value written, wherever the overlay keeps it, and
\* no call disturbs what another section, option or package holds.
ImplementsTable == Table!Spec

\* get() answers an option with what was last set, whether the section is created
\* or loaded, and the option new, changed or deleted before; '' deletes an option of
\* a loaded section.  A section that was removed is no longer seen, unless it was
\* created over one that was loaded later.
EditsAreSeen ==
    [][ \A c \in Configs, s \in Sids :
          /\ \A o \in Options, val \in Values \cup {None} :
                SetCreated(c, s, o, val) \/ SetChange(c, s, o, val) \/ SetDelete(c, s, o, val) =>
                  Get(c, s, o)' = IF val = EmptyString /\ ~Created(c, s) THEN None ELSE val
          /\ RemoveCreated(c, s) \/ RemoveLoaded(c, s) =>
                Shown(c, s)' = (Created(c, s) /\ Loaded(c, s)) ]_vars

\* The indices of a loaded package are in order when they differ and the ones
\* that sections() has ranked are 0, 1, 2, ... without a gap, and no section hides
\* another.
Compact(c) ==
    LET listed == Listed(c, AnyType)
        ranked == {s \in listed : Entry(c, s).index < NewBase}
    IN  /\ c \in loaded
        /\ Shadowed(c, AnyType) = {}
        /\ \A s, t \in listed : Entry(c, s).index = Entry(c, t).index => s = t
        /\ {Entry(c, s).index : s \in ranked} = 0 .. (Cardinality(ranked) - 1)

TypedRead(c) == \E type \in ReadTypes \ {AnyType} : ReadSections(c, type)

\* Reading, adding, moving and editing sections keep a package in order, for as
\* long as no section of it is removed and sections() is called without a type:
\* the rank that it writes into a created section is then never the index of
\* another one.
CompactKept ==
    [][ \A c \in Configs :
          /\ Compact(c)
          /\ c \in loaded'
          /\ ~TypedRead(c)
          /\ ~ \E s \in Sids : RemoveCreated(c, s) \/ RemoveLoaded(c, s)
          => Compact(c)' ]_vars

\* The listed sections that a step neither removes nor adds over.
Staying(c) ==
    {s \in Listed(c, AnyType) : /\ (s \in Listed(c, AnyType))'
                                /\ Created(c, s)' = Created(c, s)}

KeepsPlaces(c) ==
    IF \E s, t \in Staying(c) : Swap(c, s, t)
    THEN \E s, t \in Staying(c) :
            /\ s # t
            /\ Rank(c, AnyType, s)' = Rank(c, AnyType, t)
            /\ Rank(c, AnyType, t)' = Rank(c, AnyType, s)
            /\ \A x \in Staying(c) \ {s, t} : Rank(c, AnyType, x)' = Rank(c, AnyType, x)
    ELSE \A s, t \in Staying(c) : Before(c, s, t)' = Before(c, s, t)

\* In a package in order, sections keep their places whatever is read, added,
\* edited or removed, and a swap moves the two sections it is given, each to
\* the place of the other.
PlacesKept == [][ \A c \in Configs : Compact(c) /\ ~TypedRead(c) => KeepsPlaces(c) ]_vars

\* "Move up" (cbi.js) promises that the section passes the one above it.
MoveUpMoves ==
    [][ \A c \in Configs, s, t \in Sids :
          /\ Shadowed(c, AnyType) = {}
          /\ Swap(c, s, t)
          /\ Entry(c, s).type = Entry(c, t).type
          /\ Rank(c, AnyType, s) = Rank(c, AnyType, t) + 1
          => Rank(c, AnyType, s)' < Rank(c, AnyType, t)' ]_vars
=============================================================================
