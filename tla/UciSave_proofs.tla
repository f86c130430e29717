---------------------------- MODULE UciSave_proofs ----------------------------
(***************************************************************************)
(* Theorems about saving, for any packages, sections, options and values,  *)
(* and any number of saves, faults and changes by others: client, batches  *)
(* and router are well typed (SaveTyped), a save alters no option that the *)
(* user did not edit (OnlyAsked), and one that nothing disturbed leaves on *)
(* the router what was shown (SavedShown), in the order in which it was    *)
(* shown (OrderShown).                                                     *)
(***************************************************************************)
EXTENDS UciSave, UciState_proofs, SequenceTheorems, TLAPS

-----------------------------------------------------------------------------
(* Induction over the numbers, from their order *)

LEMMA Least ==
    ASSUME NEW S \in SUBSET Nat, S # {}
    PROVE  \E m \in S : \A n \in S : m <= n
<1> DEFINE R == OpToRel(<, Nat)
<1>1. IsWellFoundedOn(R, Nat)
  BY NatLessThanWellFounded
<1>2. \A m, n \in Nat : m < n => <<m, n>> \in R
  BY DEF OpToRel
<1> HIDE DEF R
<1>3. PICK m \in S : \A n \in S : ~(<<n, m>> \in R)
  <2>1. \E m \in S : \A n \in S : ~(<<n, m>> \in R)
    BY <1>1, WFMin
  <2> QED
    BY <2>1
<1>4. ASSUME NEW n \in S PROVE m <= n
  <2>1. m \in Nat /\ n \in Nat
    OBVIOUS
  <2>2. ~(n < m)
    BY <1>2, <1>3, <2>1, Zenon
  <2> QED
    BY <2>1, <2>2
<1> QED
  BY <1>4

\* What is so for 0, and for n + 1 when it is for n, is so up to N.
LEMMA UpTo ==
    ASSUME NEW N \in Nat, NEW S, 0 \in S, \A n \in 1 .. N : n - 1 \in S => n \in S
    PROVE  \A n \in 0 .. N : n \in S
<1> SUFFICES ASSUME NEW out, out = {n \in 0 .. N : n \notin S}, out # {} PROVE FALSE
  OBVIOUS
<1>1. out \in SUBSET Nat
  OBVIOUS
<1>2. PICK m \in out : \A n \in out : m <= n
  BY <1>1, Least
<1>3. m \in 0 .. N /\ m # 0
  OBVIOUS
<1>4. m \in 1 .. N /\ m - 1 \in 0 .. N /\ ~(m <= m - 1)
  BY <1>3
<1>5. m - 1 \in S
  BY <1>2, <1>4
<1> QED
  BY <1>4, <1>5

-----------------------------------------------------------------------------
(* Sequences *)

Elements(s) == {s[i] : i \in DOMAIN s}
IsSeq(s)    == s \in Seq(Elements(s))

LEMMA SeqIs ==
    ASSUME NEW S, NEW s \in Seq(S)
    PROVE  IsSeq(s) /\ Elements(s) \subseteq S
<1>1. Len(s) \in Nat /\ s \in [1 .. Len(s) -> S] /\ DOMAIN s = 1 .. Len(s)
  BY LenProperties
<1>2. s \in [1 .. Len(s) -> Elements(s)]
  BY <1>1 DEF Elements
<1>3. s \in Seq(Elements(s))
  BY <1>1, <1>2, SeqDef
<1> QED
  BY <1>1, <1>3 DEF IsSeq, Elements

LEMMA NoElements == IsSeq(<<>>) /\ Elements(<<>>) = {}
BY DEF IsSeq, Elements

LEMMA FirstAndRest ==
    ASSUME NEW s, IsSeq(s), s # <<>>
    PROVE  /\ Head(s) \in Elements(s)
           /\ IsSeq(Tail(s)) /\ Elements(Tail(s)) \subseteq Elements(s)
           /\ Len(s) \in Nat /\ Len(Tail(s)) = Len(s) - 1
<1>1. s \in Seq(Elements(s)) /\ Tail(s) \in Seq(Elements(s)) /\ Head(s) \in Elements(s)
  BY HeadTailProperties DEF IsSeq
<1>2. Len(s) \in Nat /\ Len(Tail(s)) = Len(s) - 1
  BY <1>1, HeadTailProperties
<1> QED
  BY <1>1, <1>2, SeqIs

LEMMA Joined ==
    ASSUME NEW s, IsSeq(s), NEW t, IsSeq(t)
    PROVE  IsSeq(s \o t) /\ Elements(s \o t) \subseteq Elements(s) \cup Elements(t)
<1> DEFINE both == Elements(s) \cup Elements(t)
<1>1. s \in Seq(both) /\ t \in Seq(both)
  BY SeqMonotonic DEF IsSeq
<1>2. s \o t \in Seq(both)
  BY <1>1
<1> QED
  BY <1>2, SeqIs

LEMMA FromOneOn ==
    ASSUME NEW n \in Nat, NEW s, DOMAIN s = 1 .. n, s = [i \in 1 .. n |-> s[i]]
    PROVE  IsSeq(s) /\ Len(s) = n
<1>1. s \in [1 .. n -> Elements(s)]
  BY DEF Elements
<1>2. s \in Seq(Elements(s))
  BY <1>1, SeqDef
<1>3. Len(s) = n
  BY <1>2, LenProperties
<1> QED
  BY <1>2, <1>3 DEF IsSeq

-----------------------------------------------------------------------------
(* Packages on the router *)

\* Sections as they stand, each under a name of its own.
FileSections(file) == {file[i] : i \in DOMAIN file}

FileIs(file) ==
    /\ file \in Seq(RouterSection) /\ Len(file) \in Nat /\ DOMAIN file = 1 .. Len(file)
    /\ \A i, j \in 1 .. Len(file) : file[i].name = file[j].name => i = j

LEMMA FileMeans == ASSUME NEW file PROVE IsFile(file) <=> FileIs(file)
<1> DEFINE called == [i \in DOMAIN file |-> file[i].name]
<1>1. IsInjective(called) <=> \A i, j \in DOMAIN file : file[i].name = file[j].name => i = j
  BY DEF IsInjective
<1>2. file \in Seq(RouterSection) => Len(file) \in Nat /\ DOMAIN file = 1 .. Len(file)
  BY LenProperties
<1> QED
  BY <1>1, <1>2 DEF IsFile, FileIs

LEMMA AtIs ==
    ASSUME NEW file, IsFile(file), NEW name \in NamesIn(file)
    PROVE  /\ At(file, name) \in 1 .. Len(file)
           /\ file[At(file, name)].name = name
           /\ file[At(file, name)] \in RouterSection
           /\ \A i \in 1 .. Len(file) : file[i].name = name => i = At(file, name)
<1>1. FileIs(file)
  BY FileMeans
<1>2. \E i \in DOMAIN file : file[i].name = name
  BY DEF NamesIn
<1>3. At(file, name) \in DOMAIN file /\ file[At(file, name)].name = name
  BY <1>2 DEF At
<1> QED
  BY <1>1, <1>3, ElementOfSeq DEF FileIs

\* Another section stands under a name, and all else as it stood.
Replaced(file, made, name, new) ==
    /\ IsFile(made) /\ NamesIn(made) = NamesIn(file)
    /\ made[At(made, name)] = new
    /\ \A s \in NamesIn(file) : s # name => made[At(made, s)] = file[At(file, s)]

LEMMA OptionsIn ==
    ASSUME NEW file, IsFile(file), NEW name \in NamesIn(file),
           NEW new \in RouterSection, new.name = name,
           NEW made, made = [file EXCEPT ![At(file, name)] = new]
    PROVE  Replaced(file, made, name, new)
<1> DEFINE at   == At(file, name)
<1>1. /\ FileIs(file) /\ at \in 1 .. Len(file) /\ file[at].name = name
      /\ made = [file EXCEPT ![at] = new]
  BY FileMeans, AtIs
<1> HIDE DEF at
<1>2. /\ made \in Seq(RouterSection) /\ Len(made) = Len(file) /\ DOMAIN made = 1 .. Len(file)
      /\ \A i \in 1 .. Len(file) : made[i] = IF i = at THEN new ELSE file[i]
  <2> DEFINE ex == [file EXCEPT ![at] = new]
  <2>1. file \in Seq(RouterSection)
    BY <1>1 DEF FileIs
  <2>2. /\ ex \in Seq(RouterSection) /\ Len(ex) = Len(file)
        /\ \A i \in 1 .. Len(file) : ex[i] = IF i = at THEN new ELSE file[i]
    BY <1>1, <2>1, ExceptSeq
  <2> HIDE DEF ex
  <2>3. DOMAIN ex = 1 .. Len(file)
    BY <2>2, LenProperties
  <2> QED
    BY <1>1, <2>2, <2>3 DEF ex
<1>3. ASSUME NEW i \in 1 .. Len(file) PROVE made[i].name = file[i].name
  <2>1. CASE i = at
    BY <1>1, <1>2, <2>1
  <2>2. CASE i # at
    BY <1>2, <2>2
  <2> QED
    BY <2>1, <2>2
<1>4. FileIs(made)
  <2>1. \A i, j \in 1 .. Len(file) : file[i].name = file[j].name => i = j
    BY <1>1 DEF FileIs
  <2>2. \A i, j \in 1 .. Len(file) : made[i].name = made[j].name => i = j
    BY <1>3, <2>1, Zenon
  <2>3. Len(file) \in Nat
    BY <1>1 DEF FileIs
  <2> QED
    BY <1>2, <2>2, <2>3 DEF FileIs
<1>5. IsFile(made) /\ NamesIn(made) = NamesIn(file)
  <2>1. DOMAIN made = 1 .. Len(file) /\ DOMAIN file = 1 .. Len(file)
    BY <1>1, <1>2 DEF FileIs
  <2>2. \A x : x \in NamesIn(made) <=> x \in NamesIn(file)
    BY <1>3, <2>1, Zenon DEF NamesIn
  <2> QED
    BY <1>4, <2>2, FileMeans
<1>6. ASSUME NEW s \in NamesIn(file)
      PROVE  made[At(made, s)] = IF s = name THEN new ELSE file[At(file, s)]
  <2>1. At(file, s) \in 1 .. Len(file) /\ file[At(file, s)].name = s
    BY AtIs
  <2>2. At(made, s) = At(file, s)
    BY <1>2, <1>3, <1>5, <2>1, AtIs
  <2>3. At(file, s) = at <=> s = name
    BY <1>1, <2>1 DEF FileIs
  <2> QED
    BY <1>2, <2>1, <2>2, <2>3
<1> QED
  BY <1>5, <1>6 DEF Replaced

\* What is in a file stands under its name, wherever it stands.
LEMMA SameSection ==
    ASSUME NEW file, IsFile(file), NEW x \in FileSections(file)
    PROVE  x.name \in NamesIn(file) /\ file[At(file, x.name)] = x
<1>1. FileIs(file)
  BY FileMeans
<1>2. PICK i \in 1 .. Len(file) : file[i] = x
  BY <1>1 DEF FileSections, FileIs
<1>3. x.name \in NamesIn(file)
  BY <1>1, <1>2 DEF NamesIn, FileIs
<1> QED
  BY <1>2, <1>3, AtIs

\* The options of the sections of a file are the same in another, but for some.
Spares(old, new, touched) ==
    \A s \in NamesIn(old), o \in Options :
        <<s, o>> \notin touched =>
            s \in NamesIn(new) /\ new[At(new, s)].opts[o] = old[At(old, s)].opts[o]

LEMMA MergedOptions ==
    ASSUME NEW old \in [Options -> Values \cup {None}], NEW new \in [Options -> Values \cup {None}]
    PROVE  /\ Merged(old, new) \in [Options -> Values \cup {None}]
           /\ \A o \in Options : new[o] = None => Merged(old, new)[o] = old[o]
BY ValuesAssumption DEF Merged, Written

LEMMA AddedSpares ==
    ASSUME NEW file, IsFile(file), NEW name \in Sids, NEW section \in Section
    PROVE  LET new == Added(file, name, section)
           IN  IsFile(new) /\ Spares(file, new, {name} \X Options)
<1> DEFINE new == Added(file, name, section)
<1>1. section.type \in Types /\ section.opts \in [Options -> Values \cup {None}]
  BY DEF Section
<1>2. CASE name \in NamesIn(file)
  <2> DEFINE old  == file[At(file, name)]
             made == [name |-> name, type |-> section.type, opts |-> Merged(old.opts, section.opts)]
  <2>1. old \in RouterSection
    BY <1>2, AtIs
  <2>2. made \in RouterSection /\ made.name = name
    BY <1>1, <2>1, MergedOptions DEF RouterSection
  <2>3. new = [file EXCEPT ![At(file, name)] = made]
    BY <1>2 DEF Added
  <2> HIDE DEF made, new
  <2>4. Replaced(file, new, name, made)
    BY <1>2, <2>2, <2>3, OptionsIn
  <2>5. Spares(file, new, {name} \X Options)
    BY <2>4 DEF Spares, Replaced
  <2> QED
    BY <2>4, <2>5 DEF new, Replaced
<1>3. CASE name \notin NamesIn(file)
  <2> DEFINE made == [name |-> name, type |-> section.type, opts |-> Merged(Blank, section.opts)]
  <2>1. made \in RouterSection /\ made.name = name
    BY <1>1, MergedOptions, BlankIsContent DEF RouterSection
  <2>2. new = Append(file, made)
    BY <1>3 DEF Added
  <2> HIDE DEF made, new
  <2>3. FileIs(file)
    BY FileMeans
  <2>4. /\ new \in Seq(RouterSection) /\ Len(new) = Len(file) + 1 /\ DOMAIN new = 1 .. Len(file) + 1
        /\ \A i \in 1 .. Len(file) : new[i] = file[i]
        /\ new[Len(file) + 1] = made
    BY <2>1, <2>2, <2>3, AppendProperties DEF FileIs
  <2>5. \A i \in 1 .. Len(file) : file[i].name # name
    BY <1>3, <2>3 DEF FileIs, NamesIn
  <2>6. FileIs(new)
    BY <2>1, <2>3, <2>4, <2>5 DEF FileIs
  <2>7. IsFile(new)
    BY <2>6, FileMeans
  <2>8. FileSections(file) \subseteq FileSections(new)
    BY <2>3, <2>4 DEF FileSections, FileIs
  <2>9. ASSUME NEW s \in NamesIn(file) PROVE s \in NamesIn(new) /\ new[At(new, s)] = file[At(file, s)]
    <3>1. file[At(file, s)] \in FileSections(new) /\ file[At(file, s)].name = s
      BY <2>3, <2>8, AtIs DEF FileSections, FileIs
    <3> QED
      BY <2>7, <3>1, SameSection
  <2>10. Spares(file, new, {name} \X Options)
    BY <2>9 DEF Spares
  <2> QED
    BY <2>7, <2>10 DEF new
<1> QED
  BY <1>2, <1>3

LEMMA SetSpares ==
    ASSUME NEW file, IsFile(file), NEW name \in Sids, NEW opts \in [Options -> Values \cup {None}]
    PROVE  LET new == SetIn(file, name, opts)
           IN  /\ IsFile(new) /\ NamesIn(new) = NamesIn(file)
               /\ Spares(file, new, {name} \X {o \in Options : opts[o] # None})
<1> DEFINE new == SetIn(file, name, opts)
<1>1. CASE name \in NamesIn(file)
  <2> DEFINE old  == file[At(file, name)]
             made == [old EXCEPT !.opts = Merged(old.opts, opts)]
  <2>1. old \in RouterSection /\ old.name = name
    BY <1>1, AtIs
  <2> HIDE DEF old
  <2>2. old.opts \in [Options -> Values \cup {None}]
    BY <2>1 DEF RouterSection
  <2>3. /\ made \in RouterSection /\ made.name = name
        /\ made.opts = Merged(old.opts, opts)
    BY <2>1, <2>2, MergedOptions DEF RouterSection
  <2>4. new = [file EXCEPT ![At(file, name)] = made]
    BY <1>1 DEF SetIn, old
  <2> HIDE DEF made, new
  <2>5. Replaced(file, new, name, made)
    BY <1>1, <2>3, <2>4, OptionsIn
  <2>6. \A o \in Options : opts[o] = None => made.opts[o] = file[At(file, name)].opts[o]
    BY <2>2, <2>3, MergedOptions DEF old
  <2>7. Spares(file, new, {name} \X {o \in Options : opts[o] # None})
    BY <2>5, <2>6 DEF Spares, Replaced
  <2> QED
    BY <2>5, <2>7 DEF new, Replaced
<1>2. CASE name \notin NamesIn(file)
  BY <1>2 DEF SetIn, Spares
<1> QED
  BY <1>1, <1>2

LEMMA OptionsDeletedSpares ==
    ASSUME NEW file, IsFile(file), NEW name \in Sids, NEW gone \in SUBSET Options
    PROVE  LET new == OptionsDeletedIn(file, name, gone)
           IN  IsFile(new) /\ Spares(file, new, {name} \X gone)
<1> DEFINE new == OptionsDeletedIn(file, name, gone)
<1>1. CASE name \in NamesIn(file)
  <2> DEFINE old  == file[At(file, name)]
             left == [o \in Options |-> IF o \in gone THEN None ELSE old.opts[o]]
             made == [old EXCEPT !.opts = left]
  <2>1. old \in RouterSection /\ old.name = name
    BY <1>1, AtIs
  <2>2. new = [file EXCEPT ![At(file, name)] = made]
    BY <1>1 DEF OptionsDeletedIn
  <2> HIDE DEF old, new
  <2>3. left \in [Options -> Values \cup {None}]
    BY <2>1 DEF RouterSection
  <2>4. \A o \in Options : o \notin gone => left[o] = old.opts[o]
    OBVIOUS
  <2> HIDE DEF left
  <2>5. made \in RouterSection /\ made.name = name /\ made.opts = left
    BY <2>1, <2>3 DEF RouterSection
  <2> HIDE DEF made
  <2>6. Replaced(file, new, name, made)
    BY <1>1, <2>2, <2>5, OptionsIn
  <2>7. Spares(file, new, {name} \X gone)
    BY <2>4, <2>5, <2>6 DEF Spares, Replaced, old
  <2> QED
    BY <2>6, <2>7 DEF new, Replaced
<1>2. CASE name \notin NamesIn(file)
  BY <1>2 DEF OptionsDeletedIn, Spares
<1> QED
  BY <1>1, <1>2

ShorterBy(S, s, i, less) ==
    /\ less \in Seq(S) /\ Len(less) = Len(s) - 1
    /\ \A j \in 1 .. Len(s) - 1 : less[j] = IF j < i THEN s[j] ELSE s[j + 1]

LEMMA Shortened ==
    ASSUME NEW S, NEW s \in Seq(S), NEW i \in 1 .. Len(s), NEW less, less = RemoveAt(s, i)
    PROVE  ShorterBy(S, s, i, less)
<1> DEFINE n == Len(s)
           front == SubSeq(s, 1, i - 1)
           rest  == SubSeq(s, i + 1, n)
<1>1. n \in Nat /\ i \in 1 .. n
  BY LenProperties
<1>2. front \in Seq(S) /\ Len(front) = i - 1 /\ \A j \in 1 .. i - 1 : front[j] = s[j]
  BY <1>1
<1>3. rest \in Seq(S) /\ Len(rest) = n - i /\ \A j \in 1 .. n - i : rest[j] = s[i + j]
  BY <1>1
<1>4. less = front \o rest
  BY DEF RemoveAt
<1> HIDE DEF front, rest, n
<1>5. less \in Seq(S) /\ Len(less) = n - 1
  <2>1. less \in Seq(S) /\ Len(less) = Len(front) + Len(rest)
    BY <1>2, <1>3, <1>4, ConcatProperties
  <2>2. (i - 1) + (n - i) = n - 1
    BY <1>1
  <2> QED
    BY <1>2, <1>3, <2>1, <2>2
<1>6. ASSUME NEW j \in 1 .. n - 1, j < i PROVE less[j] = s[j]
  BY <1>1, <1>2, <1>3, <1>4, <1>6
<1>7. ASSUME NEW j \in 1 .. n - 1, ~(j < i) PROVE less[j] = s[j + 1]
  <2>1. less[j] = rest[j - (i - 1)] /\ j - (i - 1) \in 1 .. n - i
    BY <1>1, <1>2, <1>3, <1>4, <1>7
  <2>2. i + (j - (i - 1)) = j + 1
    BY <1>1
  <2> QED
    BY <1>3, <2>1, <2>2
<1> QED
  BY <1>5, <1>6, <1>7 DEF n, ShorterBy

\* Taking a section out of a file.
TakenOut(file, less, x) ==
    FileIs(less) /\ FileSections(less) = FileSections(file) \ {x}

LEMMA LessOne ==
    ASSUME NEW file, FileIs(file), NEW i \in 1 .. Len(file), NEW less, less = RemoveAt(file, i)
    PROVE  TakenOut(file, less, file[i])
<1> DEFINE n == Len(file)
           old(j) == IF j < i THEN j ELSE j + 1
<1>1. /\ file \in Seq(RouterSection) /\ n \in Nat /\ DOMAIN file = 1 .. n /\ i \in 1 .. n
      /\ \A j, k \in 1 .. n : file[j].name = file[k].name => j = k
  BY DEF FileIs
<1>2. /\ less \in Seq(RouterSection) /\ Len(less) = n - 1
      /\ \A j \in 1 .. n - 1 : less[j] = IF j < i THEN file[j] ELSE file[j + 1]
  <2>1. file \in Seq(RouterSection) /\ i \in 1 .. Len(file)
    BY <1>1
  <2>2. ShorterBy(RouterSection, file, i, less)
    BY <2>1, Shortened
  <2> QED
    BY <2>2 DEF ShorterBy
<1>3. DOMAIN less = 1 .. n - 1
  BY <1>2, LenProperties
<1> HIDE DEF n
<1>4. \A j \in 1 .. n - 1 : old(j) \in 1 .. n /\ old(j) # i /\ less[j] = file[old(j)]
  <2>1. ASSUME NEW j \in 1 .. n - 1, j < i PROVE old(j) \in 1 .. n /\ old(j) # i /\ less[j] = file[old(j)]
    BY <1>1, <1>2, <2>1
  <2>2. ASSUME NEW j \in 1 .. n - 1, ~(j < i) PROVE old(j) \in 1 .. n /\ old(j) # i /\ less[j] = file[old(j)]
    BY <1>1, <1>2, <2>2
  <2> QED
    BY <2>1, <2>2
<1>5. \A j, k \in 1 .. n - 1 : old(j) = old(k) => j = k
  BY <1>1
<1>6. \A j \in 1 .. n : j # i => \E k \in 1 .. n - 1 : old(k) = j
  <2>1. ASSUME NEW j \in 1 .. n, j < i PROVE j \in 1 .. n - 1 /\ old(j) = j
    BY <1>1, <2>1
  <2>2. ASSUME NEW j \in 1 .. n, j > i PROVE j - 1 \in 1 .. n - 1 /\ old(j - 1) = j
    BY <1>1, <2>2
  <2> HIDE DEF old
  <2>3. ASSUME NEW j \in 1 .. n, j # i PROVE \E k \in 1 .. n - 1 : old(k) = j
    <3>1. CASE j < i
      BY <2>1, <3>1
    <3>2. CASE j > i
      BY <2>2, <3>2
    <3> QED
      BY <1>1, <2>3, <3>1, <3>2
  <2> QED
    BY <2>3
<1> HIDE DEF old
<1>7. FileIs(less)
  <2>1. ASSUME NEW j \in 1 .. n - 1, NEW k \in 1 .. n - 1, less[j].name = less[k].name PROVE j = k
    <3>1. /\ old(j) \in 1 .. n /\ less[j] = file[old(j)]
          /\ old(k) \in 1 .. n /\ less[k] = file[old(k)]
      BY <1>4
    <3>2. old(j) = old(k)
      BY <1>1, <2>1, <3>1
    <3> QED
      BY <1>5, <3>2
  <2>2. n - 1 \in Nat
    BY <1>1
  <2> QED
    BY <1>2, <1>3, <2>1, <2>2 DEF FileIs
<1>8. \A j \in 1 .. n : j # i => file[j] # file[i]
  BY <1>1, Zenon
<1>9. ASSUME NEW x \in FileSections(less) PROVE x \in FileSections(file) \ {file[i]}
  <2>1. PICK j \in 1 .. n - 1 : x = less[j]
    BY <1>3 DEF FileSections
  <2>2. x = file[old(j)] /\ old(j) \in 1 .. n /\ old(j) # i
    BY <1>4, <2>1
  <2> QED
    BY <1>1, <1>8, <2>2 DEF FileSections
<1>10. ASSUME NEW x \in FileSections(file) \ {file[i]} PROVE x \in FileSections(less)
  <2>1. PICK j \in 1 .. n : x = file[j]
    BY <1>1 DEF FileSections
  <2>2. j # i
    BY <1>10, <2>1
  <2>3. PICK k \in 1 .. n - 1 : old(k) = j
    BY <1>6, <2>2
  <2>4. x = less[k]
    BY <1>4, <2>1, <2>3
  <2> QED
    BY <1>3, <2>4 DEF FileSections
<1> QED
  BY <1>7, <1>9, <1>10 DEF TakenOut

\* Putting a section into a file, at some place.
PutIn(file, x, k, more) ==
    /\ FileIs(more) /\ FileSections(more) = FileSections(file) \cup {x}
    /\ Len(more) = Len(file) + 1
    /\ \A j \in 1 .. k : more[j] = file[j]
    /\ more[k + 1] = x

LEMMA MoreOne ==
    ASSUME NEW file, FileIs(file), NEW x \in RouterSection,
           \A y \in FileSections(file) : y.name # x.name,
           NEW k \in 0 .. Len(file), NEW more,
           more = SubSeq(file, 1, k) \o <<x>> \o SubSeq(file, k + 1, Len(file))
    PROVE  PutIn(file, x, k, more)
<1> DEFINE n == Len(file)
           front == SubSeq(file, 1, k)
           rest  == SubSeq(file, k + 1, n)
<1>1. /\ file \in Seq(RouterSection) /\ n \in Nat /\ DOMAIN file = 1 .. n
      /\ \A i, j \in 1 .. n : file[i].name = file[j].name => i = j
  BY DEF FileIs
<1> HIDE DEF n
<1>2. k \in 0 .. n
  BY DEF n
<1>3. front \in Seq(RouterSection) /\ Len(front) = k /\ \A j \in 1 .. k : front[j] = file[j]
  BY <1>1, <1>2
<1>4. rest \in Seq(RouterSection) /\ Len(rest) = n - k /\ \A j \in 1 .. n - k : rest[j] = file[k + j]
  BY <1>1, <1>2
<1>5. more = (front \o <<x>>) \o rest
  BY DEF n
<1> HIDE DEF front, rest
<1> DEFINE first == front \o <<x>>
<1>6. /\ first \in Seq(RouterSection) /\ Len(first) = k + 1
      /\ \A j \in 1 .. k : first[j] = file[j]
      /\ first[k + 1] = x
  <2> DEFINE last == <<x>>
  <2>1. last \in Seq(RouterSection) /\ Len(last) = 1 /\ last[1] = x
    OBVIOUS
  <2>2. first = front \o last
    OBVIOUS
  <2> HIDE DEF first, front, last
  <2>3. /\ front \o last \in Seq(RouterSection) /\ Len(front \o last) = k + 1
        /\ \A j \in 1 .. k + 1 : (front \o last)[j] = IF j <= k THEN front[j] ELSE last[j - k]
    <3>1. front \in Seq(RouterSection) /\ last \in Seq(RouterSection) /\ Len(front) = k /\ Len(last) = 1
      BY <1>3, <2>1
    <3>2. front \o last \in Seq(RouterSection) /\ Len(front \o last) = Len(front) + Len(last)
      BY <3>1, ConcatProperties
    <3>3. \A j \in 1 .. Len(front) + Len(last) :
            (front \o last)[j] = IF j <= Len(front) THEN front[j] ELSE last[j - Len(front)]
      BY <3>1, ConcatProperties
    <3> QED
      BY <3>1, <3>2, <3>3
  <2>4. k + 1 \in 1 .. k + 1 /\ ~(k + 1 <= k) /\ (k + 1) - k = 1 /\ \A j \in 1 .. k : j \in 1 .. k + 1 /\ j <= k
    BY <1>2
  <2> QED
    BY <1>3, <2>1, <2>2, <2>3, <2>4
<1>7. more = first \o rest
  BY <1>5
<1> HIDE DEF first
<1>8. more \in Seq(RouterSection) /\ Len(more) = Len(first) + Len(rest)
  <2>1. first \in Seq(RouterSection) /\ rest \in Seq(RouterSection)
    BY <1>4, <1>6
  <2> DEFINE all == first \o rest
  <2>2. all \in Seq(RouterSection) /\ Len(all) = Len(first) + Len(rest)
    BY <2>1, ConcatProperties
  <2> QED
    BY <1>7, <2>2
<1>9. ASSUME NEW j \in 1 .. Len(first) + Len(rest)
      PROVE  more[j] = IF j <= Len(first) THEN first[j] ELSE rest[j - Len(first)]
  <2>1. first \in Seq(RouterSection) /\ rest \in Seq(RouterSection)
    BY <1>4, <1>6
  <2> DEFINE all == first \o rest
  <2>2. all[j] = IF j <= Len(first) THEN first[j] ELSE rest[j - Len(first)]
    BY <2>1, ConcatProperties
  <2> QED
    BY <1>7, <2>2
<1> HIDE DEF first
<1>10. DOMAIN more = 1 .. n + 1 /\ Len(more) = n + 1 /\ k + 1 \in 1 .. n + 1
  <2>1. Len(first) + Len(rest) = n + 1
    BY <1>1, <1>2, <1>4, <1>6
  <2>2. DOMAIN more = 1 .. Len(more)
    BY <1>8, LenProperties
  <2>3. Len(more) = n + 1
    BY <1>8, <2>1
  <2>4. k + 1 \in 1 .. n + 1
    BY <1>1, <1>2
  <2> QED
    BY <2>2, <2>3, <2>4
<1>11. ASSUME NEW j \in 1 .. k PROVE more[j] = file[j]
  <2>1. j \in 1 .. Len(first) + Len(rest) /\ j <= Len(first)
    BY <1>1, <1>2, <1>4, <1>6
  <2>2. more[j] = first[j]
    BY <1>9, <2>1
  <2> QED
    BY <1>6, <2>2
<1>12. more[k + 1] = x
  <2>1. k + 1 \in 1 .. Len(first) + Len(rest) /\ k + 1 <= Len(first)
    BY <1>1, <1>2, <1>4, <1>6
  <2>2. more[k + 1] = first[k + 1]
    BY <1>9, <2>1
  <2> QED
    BY <1>6, <2>2
<1>13. ASSUME NEW j \in k + 2 .. n + 1 PROVE more[j] = file[j - 1]
  <2>1. j \in 1 .. n + 1 /\ ~(j <= k + 1) /\ j - (k + 1) \in 1 .. n - k
    BY <1>1, <1>2
  <2>2. more[j] = rest[j - (k + 1)]
    <3>1. j \in 1 .. Len(first) + Len(rest) /\ ~(j <= Len(first)) /\ Len(first) = k + 1
      BY <1>1, <1>2, <1>4, <1>6, <2>1
    <3> QED
      BY <1>9, <3>1
  <2>3. k + (j - (k + 1)) = j - 1
    BY <1>1, <1>2
  <2> QED
    BY <1>4, <2>1, <2>2, <2>3
<1> DEFINE old(j) == IF j < k + 1 THEN j ELSE j - 1
<1>14. ASSUME NEW j \in 1 .. n + 1, j # k + 1 PROVE old(j) \in 1 .. n /\ more[j] = file[old(j)]
  <2>1. CASE j < k + 1
    <3>1. old(j) = j /\ j \in 1 .. k /\ j \in 1 .. n
      BY <1>1, <1>2, <2>1
    <3> QED
      BY <1>11, <3>1
  <2>2. CASE j > k + 1
    <3>1. old(j) = j - 1 /\ j \in k + 2 .. n + 1 /\ j - 1 \in 1 .. n
      BY <1>1, <1>2, <2>2
    <3> QED
      BY <1>13, <3>1
  <2>3. j < k + 1 \/ j > k + 1
    BY <1>1, <1>2, <1>14
  <2> QED
    BY <2>1, <2>2, <2>3
<1>15. \A i, j \in 1 .. n + 1 : i # k + 1 /\ j # k + 1 /\ old(i) = old(j) => i = j
  BY <1>1, <1>2
<1>16. ASSUME NEW j \in 1 .. n PROVE \E i \in 1 .. n + 1 : i # k + 1 /\ old(i) = j
  <2>1. CASE j < k + 1
    <3>1. j \in 1 .. n + 1 /\ j # k + 1 /\ old(j) = j
      BY <1>1, <1>2, <2>1
    <3> QED
      BY <3>1
  <2>2. CASE ~(j < k + 1)
    <3>1. j + 1 \in 1 .. n + 1 /\ j + 1 # k + 1 /\ old(j + 1) = j
      BY <1>1, <1>2, <2>2
    <3> HIDE DEF old
    <3> QED
      BY <3>1
  <2> QED
    BY <2>1, <2>2
<1> HIDE DEF old
<1>17. \A j \in 1 .. n : file[j].name # x.name
  BY <1>1 DEF FileSections
<1>18. FileIs(more)
  <2>1. ASSUME NEW i \in 1 .. n + 1, NEW j \in 1 .. n + 1, more[i].name = more[j].name PROVE i = j
    <3>1. CASE i # k + 1 /\ j # k + 1
      <4>1. /\ old(i) \in 1 .. n /\ more[i] = file[old(i)]
            /\ old(j) \in 1 .. n /\ more[j] = file[old(j)]
        BY <1>14, <3>1
      <4>2. old(i) = old(j)
        BY <1>1, <2>1, <4>1
      <4> QED
        BY <1>15, <3>1, <4>2
    <3>2. CASE i # k + 1 /\ j = k + 1
      <4>1. old(i) \in 1 .. n /\ more[i] = file[old(i)]
        BY <1>14, <3>2
      <4> QED
        BY <1>12, <1>17, <2>1, <3>2, <4>1
    <3>3. CASE i = k + 1 /\ j # k + 1
      <4>1. old(j) \in 1 .. n /\ more[j] = file[old(j)]
        BY <1>14, <3>3
      <4> QED
        BY <1>12, <1>17, <2>1, <3>3, <4>1
    <3> QED
      BY <3>1, <3>2, <3>3
  <2>2. n + 1 \in Nat
    BY <1>1
  <2> QED
    BY <1>8, <1>10, <2>1, <2>2 DEF FileIs
<1>19. ASSUME NEW y \in FileSections(more) PROVE y \in FileSections(file) \cup {x}
  <2>1. PICK j \in 1 .. n + 1 : y = more[j]
    BY <1>10 DEF FileSections
  <2>2. CASE j = k + 1
    BY <1>12, <2>1, <2>2
  <2>3. CASE j # k + 1
    <3>1. old(j) \in 1 .. n /\ y = file[old(j)]
      BY <1>14, <2>1, <2>3
    <3> QED
      BY <1>1, <3>1 DEF FileSections
  <2> QED
    BY <2>2, <2>3
<1>20. ASSUME NEW y \in FileSections(file) PROVE y \in FileSections(more)
  <2>1. PICK j \in 1 .. n : y = file[j]
    BY <1>1 DEF FileSections
  <2>2. PICK i \in 1 .. n + 1 : i # k + 1 /\ old(i) = j
    BY <1>16
  <2>3. y = more[i]
    BY <1>14, <2>1, <2>2
  <2> QED
    BY <1>10, <2>3 DEF FileSections
<1>21. x \in FileSections(more)
  BY <1>10, <1>12 DEF FileSections
<1> QED
  BY <1>10, <1>11, <1>12, <1>18, <1>19, <1>20, <1>21 DEF n, PutIn

\* A file of sections that another holds as well, but for those of one name.
LEMMA KeptSections ==
    ASSUME NEW file, IsFile(file), NEW new, IsFile(new), NEW name,
           \A x \in FileSections(file) : x.name # name => x \in FileSections(new)
    PROVE  Spares(file, new, {name} \X Options)
<1>1. ASSUME NEW s \in NamesIn(file), s # name
      PROVE  s \in NamesIn(new) /\ new[At(new, s)] = file[At(file, s)]
  <2>1. file[At(file, s)] \in FileSections(file) /\ file[At(file, s)].name = s
    BY AtIs, FileMeans DEF FileSections, FileIs
  <2> QED
    BY <1>1, <2>1, SameSection
<1> QED
  BY <1>1 DEF Spares

LEMMA DeletedLacks ==
    ASSUME NEW file, IsFile(file), NEW name \in NamesIn(file)
    PROVE  TakenOut(file, DeletedIn(file, name), file[At(file, name)])
<1>1. At(file, name) \in 1 .. Len(file) /\ FileIs(file)
  BY AtIs, FileMeans
<1> QED
  BY <1>1, LessOne DEF DeletedIn

LEMMA DeletedSpares ==
    ASSUME NEW file, IsFile(file), NEW name
    PROVE  LET new == DeletedIn(file, name)
           IN  IsFile(new) /\ Spares(file, new, {name} \X Options)
<1> DEFINE new == DeletedIn(file, name)
<1>1. CASE name \in NamesIn(file)
  <2>1. FileIs(new) /\ FileSections(new) = FileSections(file) \ {file[At(file, name)]}
    BY <1>1, DeletedLacks DEF TakenOut
  <2> HIDE DEF new
  <2>2. IsFile(new)
    BY <2>1, FileMeans
  <2>3. file[At(file, name)].name = name
    BY <1>1, AtIs
  <2>4. Spares(file, new, {name} \X Options)
    BY <2>1, <2>2, <2>3, KeptSections
  <2> QED
    BY <2>2, <2>4 DEF new
<1>2. CASE name \notin NamesIn(file)
  BY <1>2 DEF DeletedIn, Spares
<1> QED
  BY <1>1, <1>2

\* The same sections, in some order.
SameFile(file, new) == IsFile(new) /\ FileSections(new) = FileSections(file)

LEMMA MovedKeeps ==
    ASSUME NEW file, IsFile(file), NEW name \in NamesIn(file), NEW place \in Nat
    PROVE  SameFile(file, MovedTo(file, name, place))
<1> DEFINE rest == DeletedIn(file, name)
           k    == IF place < Len(rest) THEN place ELSE Len(rest)
           x    == file[At(file, name)]
           more == SubSeq(rest, 1, k) \o <<x>> \o SubSeq(rest, k + 1, Len(rest))
<1>1. MovedTo(file, name, place) = more
  BY DEF MovedTo
<1>2. FileIs(rest) /\ FileSections(rest) = FileSections(file) \ {x}
  BY DeletedLacks DEF TakenOut
<1>3. FileIs(file) /\ x \in RouterSection /\ x \in FileSections(file) /\ x.name = name
  BY FileMeans, AtIs DEF FileSections, FileIs
<1>4. \A y \in FileSections(rest) : y.name # x.name
  <2>1. ASSUME NEW y \in FileSections(file), y.name = x.name PROVE y = x
    BY <1>3, <2>1, SameSection
  <2> QED
    BY <1>2, <2>1
<1> HIDE DEF rest
<1>5. k \in 0 .. Len(rest)
  BY <1>2 DEF FileIs
<1> HIDE DEF k, x
<1>6. PutIn(rest, x, k, more)
  BY <1>2, <1>3, <1>4, <1>5, MoreOne
<1> HIDE DEF more
<1> QED
  BY <1>1, <1>2, <1>3, <1>6, FileMeans DEF SameFile, PutIn

\* A step of OrderedIn, and its steps up to the n-th.
Start(file) == [file |-> file, place |-> 0]

Move(order, i, last) ==
    IF order[i] \in NamesIn(last.file)
    THEN [file |-> MovedTo(last.file, order[i], last.place), place |-> last.place + 1]
    ELSE last

Moves(file, order, done, n) ==
    done = [i \in 0 .. n |-> IF i = 0 THEN Start(file) ELSE Move(order, i, done[i - 1])]

LEMMA MovesExist ==
    ASSUME NEW file, NEW order, Len(order) \in Nat
    PROVE  \E done : Moves(file, order, done, Len(order))
<1> DEFINE S == {n \in Nat : \E done : Moves(file, order, done, n)}
<1>1. 0 \in S
  <2> DEFINE done == [i \in 0 .. 0 |-> Start(file)]
  <2>1. Moves(file, order, done, 0)
    BY DEF Moves
  <2> QED
    BY <2>1
<1>2. ASSUME NEW n \in 1 .. Len(order), n - 1 \in S PROVE n \in S
  <2>1. PICK done : Moves(file, order, done, n - 1)
    BY <1>2
  <2>2. ASSUME NEW i \in 0 .. n - 1
        PROVE  done[i] = IF i = 0 THEN Start(file) ELSE Move(order, i, done[i - 1])
    BY <2>1 DEF Moves
  <2> DEFINE next == Move(order, n, done[n - 1])
             more == [i \in 0 .. n |-> IF i = n THEN next ELSE done[i]]
  <2> HIDE DEF next
  <2>3. ASSUME NEW i \in 0 .. n
        PROVE  more[i] = IF i = 0 THEN Start(file) ELSE Move(order, i, more[i - 1])
    <3>1. CASE i = 0
      BY <2>2, <3>1
    <3>2. CASE i = n
      <4>1. more[i] = Move(order, n, done[n - 1]) /\ more[i - 1] = done[n - 1] /\ i # 0
        BY <3>2 DEF next
      <4> QED
        BY <3>2, <4>1
    <3>3. CASE i # 0 /\ i # n
      <4>1. i \in 0 .. n - 1 /\ i - 1 \in 0 .. n /\ i - 1 # n
        BY <3>3
      <4>2. more[i] = done[i] /\ more[i - 1] = done[i - 1]
        BY <3>3, <4>1
      <4>3. done[i] = Move(order, i, done[i - 1])
        BY <2>2, <3>3, <4>1
      <4> QED
        BY <3>3, <4>2, <4>3
    <3> QED
      BY <3>1, <3>2, <3>3
  <2>4. more = [i \in 0 .. n |-> more[i]]
    OBVIOUS
  <2> HIDE DEF more
  <2>5. Moves(file, order, more, n)
    BY <2>3, <2>4 DEF Moves
  <2> QED
    BY <2>5
<1> HIDE DEF S
<1>3. \A n \in 0 .. Len(order) : n \in S
  BY <1>1, <1>2, UpTo
<1>4. Len(order) \in S
  BY <1>3
<1> QED
  BY <1>4 DEF S

LEMMA OrderedKeeps ==
    ASSUME NEW file, IsFile(file), NEW order, Len(order) \in Nat
    PROVE  SameFile(file, OrderedIn(file, order))
<1> DEFINE N    == Len(order)
           done == CHOOSE done : Moves(file, order, done, N)
<1>1. OrderedIn(file, order) = done[N].file
  BY DEF OrderedIn, Moves, Move, Start
<1>2. Moves(file, order, done, N)
  BY MovesExist
<1> HIDE DEF done
<1>3. ASSUME NEW i \in 0 .. N
      PROVE  done[i] = IF i = 0 THEN Start(file) ELSE Move(order, i, done[i - 1])
  BY <1>2 DEF Moves
<1> DEFINE S == {i \in 0 .. N : SameFile(file, done[i].file) /\ done[i].place \in Nat}
<1>4. 0 \in S
  <2>1. 0 \in 0 .. N /\ done[0] = Start(file)
    BY <1>3
  <2> QED
    BY <2>1 DEF Start, SameFile
<1>5. ASSUME NEW n \in 1 .. N, n - 1 \in S PROVE n \in S
  <2> DEFINE last == done[n - 1]
  <2>1. done[n] = Move(order, n, last) /\ n \in 0 .. N
    BY <1>3
  <2>2. SameFile(file, last.file) /\ last.place \in Nat
    BY <1>5
  <2> HIDE DEF last
  <2>3. CASE order[n] \in NamesIn(last.file)
    <3>1. done[n] = [file |-> MovedTo(last.file, order[n], last.place), place |-> last.place + 1]
      BY <2>1, <2>3 DEF Move
    <3>2. SameFile(last.file, MovedTo(last.file, order[n], last.place))
      BY <2>2, <2>3, MovedKeeps DEF SameFile
    <3>3. SameFile(file, MovedTo(last.file, order[n], last.place))
      BY <2>2, <3>2 DEF SameFile
    <3>4. done[n].file = MovedTo(last.file, order[n], last.place) /\ done[n].place = last.place + 1
      BY <3>1
    <3> QED
      BY <2>1, <2>2, <3>3, <3>4
  <2>4. CASE order[n] \notin NamesIn(last.file)
    BY <2>1, <2>2, <2>4 DEF Move
  <2> QED
    BY <2>3, <2>4
<1> HIDE DEF S, N
<1>6. N \in Nat
  BY DEF N
<1>7. N \in S
  BY <1>4, <1>5, <1>6, UpTo
<1> QED
  BY <1>1, <1>7 DEF S

LEMMA OrderedSpares ==
    ASSUME NEW file, IsFile(file), NEW order, Len(order) \in Nat
    PROVE  LET new == OrderedIn(file, order)
           IN  IsFile(new) /\ Spares(file, new, {})
<1> DEFINE new == OrderedIn(file, order)
<1>1. IsFile(new) /\ FileSections(new) = FileSections(file)
  BY OrderedKeeps DEF SameFile
<1> HIDE DEF new
<1>2. ASSUME NEW s \in NamesIn(file)
      PROVE  s \in NamesIn(new) /\ new[At(new, s)] = file[At(file, s)]
  <2>1. file[At(file, s)] \in FileSections(file) /\ file[At(file, s)].name = s
    BY AtIs, FileMeans DEF FileSections, FileIs
  <2> QED
    BY <1>1, <2>1, SameSection
<1> QED
  BY <1>1, <1>2 DEF Spares, new

LEMMA SnapshotTyped ==
    ASSUME NEW file, IsFile(file)
    PROVE  Snapshot(file) \in Package
<1> SUFFICES ASSUME NEW s \in Sids
             PROVE  Snapshot(file)[s] \in Section \cup {NoSection}
  BY DEF Snapshot, Package
<1>1. CASE s \in NamesIn(file)
  <2> DEFINE i == At(file, s)
             x == file[i]
  <2>1. i \in 1 .. Len(file) /\ x \in RouterSection /\ Len(file) \in Nat
    BY <1>1, AtIs, FileMeans DEF FileIs
  <2>2. Snapshot(file)[s] = [type |-> x.type, index |-> i - 1, birth |-> i - 1, opts |-> x.opts]
    BY <1>1 DEF Snapshot
  <2> HIDE DEF x, i
  <2>3. i - 1 \in Nat
    BY <2>1
  <2>4. x.type \in Types /\ x.opts \in [Options -> Values \cup {None}]
    BY <2>1 DEF RouterSection
  <2> QED
    BY <2>2, <2>3, <2>4 DEF Section
<1>2. CASE s \notin NamesIn(file)
  BY <1>2 DEF Snapshot
<1> QED
  BY <1>1, <1>2

-----------------------------------------------------------------------------
(* Calls and answers *)

CallOK(call) ==
    /\ call.conf \in Configs
    /\ \/ call.op = "add"     /\ call.sid \in Sids /\ call.arg \in Section
       \/ call.op = "set"     /\ call.sid \in Sids /\ call.arg \in [Options -> Values \cup {None}]
       \/ call.op = "delete"  /\ call.sid \in Sids
       \/ call.op = "options" /\ call.sid \in Sids /\ call.arg \in SUBSET Options
       \/ call.op = "order"   /\ Len(call.arg) \in Nat
       \/ call.op = "load"

\* The options that a call may alter.
Touches(call) ==
    CASE call.op = "add"     -> {s \in {call.sid} : s \notin Temps} \X Options
      [] call.op = "set"     -> {call.sid} \X {o \in Options : call.arg[o] # None}
      [] call.op = "delete"  -> {call.sid} \X Options
      [] call.op = "options" -> {call.sid} \X call.arg
      [] OTHER               -> {}

EffectOK(call, effect) ==
    /\ IsFile(effect.file)
    /\ Spares(server[call.conf], effect.file, Touches(call))
    /\ effect.reply \in IF call.op = "load" THEN Package ELSE Sids \cup {None}

LEMMA NamesAreSids == ASSUME NEW file, IsFile(file) PROVE NamesIn(file) \subseteq Sids
<1>1. ASSUME NEW s \in NamesIn(file) PROVE s \in Sids
  BY AtIs DEF RouterSection
<1> QED
  BY <1>1

LEMMA AddEffect ==
    ASSUME NEW call, CallOK(call), call.op = "add", IsFile(server[call.conf]),
           NEW effect \in Effects(call)
    PROVE  EffectOK(call, effect)
<1> DEFINE file == server[call.conf]
<1>1. PICK name \in IF call.sid \in Temps THEN Fresh \ NamesIn(file) ELSE {call.sid} :
          effect = [file |-> Added(file, name, call.arg), reply |-> name]
  BY DEF Effects
<1>2. call.sid \in Sids /\ call.arg \in Section
  BY DEF CallOK
<1>3. name \in Sids /\ (call.sid \in Temps => name \notin NamesIn(file))
  BY <1>1, <1>2, FreshAssumption
<1> DEFINE new == Added(file, name, call.arg)
<1>4. IsFile(new) /\ Spares(file, new, {name} \X Options)
  BY <1>2, <1>3, AddedSpares
<1> HIDE DEF new
<1>5. effect.file = new /\ effect.reply = name
  BY <1>1 DEF new
<1>6. Touches(call) = {s \in {call.sid} : s \notin Temps} \X Options
  BY DEF Touches
<1>7. Spares(file, new, Touches(call))
  <2>1. CASE call.sid \in Temps
    BY <1>3, <1>4, <2>1 DEF Spares
  <2>2. CASE call.sid \notin Temps
    BY <1>1, <1>4, <1>6, <2>2 DEF Spares
  <2> QED
    BY <2>1, <2>2
<1> QED
  BY <1>3, <1>4, <1>5, <1>7 DEF EffectOK

LEMMA EffectsOK ==
    ASSUME NEW call, CallOK(call), IsFile(server[call.conf]), NEW effect \in Effects(call)
    PROVE  EffectOK(call, effect)
<1> DEFINE file == server[call.conf]
<1>1. CASE call.op = "add"
  BY <1>1, AddEffect
<1>2. CASE call.op = "set"
  <2> DEFINE new == SetIn(file, call.sid, call.arg)
  <2>1. call.sid \in Sids /\ call.arg \in [Options -> Values \cup {None}]
    BY <1>2 DEF CallOK
  <2>2. IsFile(new) /\ Spares(file, new, Touches(call))
    BY <1>2, <2>1, SetSpares DEF Touches
  <2>3. effect = [file |-> new, reply |-> None]
    BY <1>2 DEF Effects
  <2> HIDE DEF new
  <2> QED
    BY <1>2, <2>2, <2>3 DEF EffectOK
<1>3. CASE call.op = "delete"
  <2> DEFINE new == DeletedIn(file, call.sid)
  <2>1. IsFile(new) /\ Spares(file, new, Touches(call))
    BY <1>3, DeletedSpares DEF Touches
  <2>2. effect = [file |-> new, reply |-> None]
    BY <1>3 DEF Effects
  <2> HIDE DEF new
  <2> QED
    BY <1>3, <2>1, <2>2 DEF EffectOK
<1>4. CASE call.op = "options"
  <2> DEFINE new == OptionsDeletedIn(file, call.sid, call.arg)
  <2>1. call.sid \in Sids /\ call.arg \in SUBSET Options
    BY <1>4 DEF CallOK
  <2>2. IsFile(new) /\ Spares(file, new, Touches(call))
    BY <1>4, <2>1, OptionsDeletedSpares DEF Touches
  <2>3. effect = [file |-> new, reply |-> None]
    BY <1>4 DEF Effects
  <2> HIDE DEF new
  <2> QED
    BY <1>4, <2>2, <2>3 DEF EffectOK
<1>5. CASE call.op = "order"
  <2> DEFINE new == OrderedIn(file, call.arg)
  <2>1. Len(call.arg) \in Nat
    BY <1>5 DEF CallOK
  <2>2. IsFile(new) /\ Spares(file, new, {})
    BY <2>1, OrderedSpares
  <2>3. effect = [file |-> new, reply |-> None]
    BY <1>5 DEF Effects
  <2> HIDE DEF new
  <2>4. Touches(call) = {}
    BY <1>5 DEF Touches
  <2> QED
    BY <1>5, <2>2, <2>3, <2>4 DEF EffectOK
<1>6. CASE call.op = "load"
  <2>1. effect = [file |-> file, reply |-> Snapshot(file)]
    BY <1>6 DEF Effects
  <2>2. Snapshot(file) \in Package
    BY SnapshotTyped
  <2> QED
    BY <1>6, <2>1, <2>2 DEF EffectOK, Spares
<1> QED
  BY <1>1, <1>2, <1>3, <1>4, <1>5, <1>6 DEF CallOK

-----------------------------------------------------------------------------
(* Sets listed in some order *)

LEMMA SetListed ==
    ASSUME NEW S, IsFiniteSet(S)
    PROVE  LET list == SetToSeq(S)
           IN  /\ IsSeq(list) /\ Len(list) = Cardinality(S) /\ DOMAIN list = 1 .. Cardinality(S)
               /\ \A i \in 1 .. Cardinality(S) : list[i] \in S
               /\ \A i, j \in 1 .. Cardinality(S) : list[i] = list[j] => i = j
               /\ \A x \in S : \E i \in 1 .. Cardinality(S) : list[i] = x
<1> DEFINE n    == Cardinality(S)
           list == SetToSeq(S)
<1>1. n \in Nat /\ ExistsBijection(1 .. n, S)
  BY FS_CardinalityType
<1>2. \E f \in [1 .. n -> S] : IsInjective(f)
  BY <1>1 DEF ExistsBijection, Bijection, Injection
<1>3. list \in [1 .. n -> S] /\ IsInjective(list)
  BY <1>2 DEF SetToSeq
<1> HIDE DEF list
<1>4. list \in Injection(1 .. n, S)
  BY <1>3 DEF Injection
<1>5. IsFiniteSet(1 .. n) /\ Cardinality(1 .. n) = n
  BY <1>1, FS_Interval
<1>6. list \in Surjection(1 .. n, S)
  BY <1>4, <1>5, FS_Injection
<1>7. \A x \in S : \E i \in 1 .. n : list[i] = x
  BY <1>6 DEF Surjection
<1>8. \A i, j \in 1 .. n : list[i] = list[j] => i = j
  BY <1>3 DEF IsInjective
<1>9. IsSeq(list) /\ Len(list) = n
  BY <1>1, <1>3, FromOneOn
<1> QED
  BY <1>3, <1>7, <1>8, <1>9 DEF list

\* A relation that puts the elements of a set one after the other.
Orders(R, S) ==
    /\ \A x \in S : <<x, x>> \notin R
    /\ \A x, y, z \in S : <<x, y>> \in R /\ <<y, z>> \in R => <<x, z>> \in R
    /\ \A x, y \in S : x = y \/ <<x, y>> \in R \/ <<y, x>> \in R

LEMMA SortedLists ==
    ASSUME NEW S, IsFiniteSet(S), NEW R, Orders(R, S)
    PROVE  LET list == Sorted(S, R)
           IN  /\ IsSeq(list) /\ DOMAIN list = 1 .. Cardinality(S)
               /\ \A i \in 1 .. Cardinality(S) : list[i] \in S
               /\ \A x \in S : \E i \in 1 .. Cardinality(S) : list[i] = x
               /\ \A i, j \in 1 .. Cardinality(S) : i < j <=> <<list[i], list[j]>> \in R
               /\ \A i, j \in 1 .. Cardinality(S) : list[i] = list[j] => i = j
<1> DEFINE n     == Cardinality(S)
           below == [x \in S |-> {y \in S : <<y, x>> \in R}]
           place == [x \in S |-> Cardinality(below[x]) + 1]
           list  == Sorted(S, R)
<1>1. n \in Nat
  BY FS_CardinalityType
<1>2. ASSUME NEW x \in S
      PROVE  /\ IsFiniteSet(below[x]) /\ Cardinality(below[x]) \in Nat
             /\ Cardinality(below[x]) < n
  <2>1. below[x] \in SUBSET S /\ x \notin below[x]
    BY DEF Orders
  <2> HIDE DEF below
  <2>2. /\ IsFiniteSet(below[x]) /\ Cardinality(below[x]) <= n
        /\ n = Cardinality(below[x]) => S = below[x]
    BY <2>1, FS_Subset
  <2>3. Cardinality(below[x]) \in Nat
    BY <2>2, FS_CardinalityType
  <2> QED
    BY <1>1, <2>1, <2>2, <2>3
<1>3. ASSUME NEW x \in S, NEW y \in S, <<x, y>> \in R
      PROVE  Cardinality(below[x]) < Cardinality(below[y])
  <2>1. below[x] \in SUBSET below[y]
    BY <1>3 DEF Orders
  <2>2. x \in below[y] /\ x \notin below[x]
    BY <1>3 DEF Orders
  <2> HIDE DEF below
  <2>3. /\ Cardinality(below[x]) <= Cardinality(below[y])
        /\ Cardinality(below[y]) = Cardinality(below[x]) => below[y] = below[x]
    BY <1>2, <2>1, FS_Subset
  <2>4. Cardinality(below[x]) \in Nat /\ Cardinality(below[y]) \in Nat
    BY <1>2
  <2> QED
    BY <2>2, <2>3, <2>4
<1> HIDE DEF below, n
<1>4. place \in [S -> 1 .. n]
  <2>1. ASSUME NEW x \in S PROVE Cardinality(below[x]) + 1 \in 1 .. n
    BY <1>1, <1>2
  <2> QED
    BY <2>1
<1>5. ASSUME NEW x \in S, NEW y \in S, place[x] = place[y] PROVE x = y
  <2>1. Cardinality(below[x]) = Cardinality(below[y])
    BY <1>2, <1>5
  <2>2. Cardinality(below[x]) \in Nat /\ Cardinality(below[y]) \in Nat
    BY <1>2
  <2>3. ~(<<x, y>> \in R) /\ ~(<<y, x>> \in R)
    BY <1>3, <2>1, <2>2
  <2> QED
    BY <2>3 DEF Orders
<1>6. place \in Injection(S, 1 .. n)
  <2>1. DOMAIN place = S
    OBVIOUS
  <2> HIDE DEF place
  <2> QED
    BY <1>4, <1>5, <2>1 DEF Injection, IsInjective
<1>7. IsFiniteSet(1 .. n) /\ Cardinality(1 .. n) = n
  BY <1>1, FS_Interval
<1>8. place \in Surjection(S, 1 .. n)
  <2> HIDE DEF place
  <2> QED
    BY <1>6, <1>7, FS_Injection DEF n
<1>9. ASSUME NEW i \in 1 .. n PROVE \E x \in S : Cardinality({y \in S : <<y, x>> \in R}) = i - 1
  <2>1. PICK x \in S : place[x] = i
    BY <1>8 DEF Surjection
  <2>2. Cardinality(below[x]) = i - 1
    BY <1>1, <1>2, <2>1
  <2> QED
    BY <2>2 DEF below
<1>10. list = [i \in 1 .. n |-> CHOOSE x \in S : Cardinality({y \in S : <<y, x>> \in R}) = i - 1]
  BY DEF Sorted, n
<1> HIDE DEF list
<1>11. ASSUME NEW i \in 1 .. n PROVE list[i] \in S /\ place[list[i]] = i
  <2>1. list[i] \in S /\ Cardinality({y \in S : <<y, list[i]>> \in R}) = i - 1
    BY <1>9, <1>10
  <2>2. Cardinality(below[list[i]]) = i - 1
    BY <2>1 DEF below
  <2> QED
    BY <1>1, <2>1, <2>2
<1>12. IsSeq(list) /\ DOMAIN list = 1 .. n
  BY <1>1, <1>10, FromOneOn
<1>13. ASSUME NEW x \in S, NEW y \in S PROVE place[x] < place[y] <=> <<x, y>> \in R
  <2>1. Cardinality(below[x]) \in Nat /\ Cardinality(below[y]) \in Nat
    BY <1>2
  <2>2. /\ <<x, y>> \in R => Cardinality(below[x]) < Cardinality(below[y])
        /\ <<y, x>> \in R => Cardinality(below[y]) < Cardinality(below[x])
    BY <1>3
  <2>3. x = y \/ <<x, y>> \in R \/ <<y, x>> \in R
    BY DEF Orders
  <2> QED
    BY <2>1, <2>2, <2>3
<1>14. ASSUME NEW x \in S PROVE place[x] \in 1 .. n
  BY <1>4
<1> HIDE DEF place
<1>15. \A x \in S : \E i \in 1 .. n : list[i] = x
  <2>1. ASSUME NEW x \in S PROVE list[place[x]] = x
    BY <1>5, <1>11, <1>14
  <2> QED
    BY <1>14, <2>1
<1>16. \A i, j \in 1 .. n : i < j <=> <<list[i], list[j]>> \in R
  BY <1>11, <1>13, Zenon
<1>17. \A i, j \in 1 .. n : list[i] = list[j] => i = j
  BY <1>11, Zenon
<1> QED
  BY <1>11, <1>12, <1>15, <1>16, <1>17 DEF list, n

-----------------------------------------------------------------------------
(* The created sections *)

\* The sections of a package were added one after the other.
Births ==
    \A c \in Configs, s \in Sids : Created(c, s) =>
        /\ creates[c][s].birth < newidx
        /\ \A t \in Sids : Created(c, t) /\ creates[c][t].birth = creates[c][s].birth => t = s

\* No section is added, and those there are keep the time of their addition.
NoneAdded ==
    /\ newidx' = newidx
    /\ \A c \in Configs, s \in Sids :
         Created(c, s)' => Created(c, s) /\ creates'[c][s].birth = creates[c][s].birth

LEMMA BirthsKept == Births /\ NoneAdded => Births'
BY DEF Births, NoneAdded

LEMMA ReadBirths ==
    ASSUME TypeOK, NEW c \in Configs, NEW type, ReadSections(c, type)
    PROVE  NoneAdded
BY ReadIndices DEF NoneAdded, SameButIndex, ReadSections, Created

LEMMA SwapBirths ==
    ASSUME TypeOK, NEW c \in Configs, NEW s \in Sids, NEW t \in Sids, Swap(c, s, t)
    PROVE  NoneAdded
BY SwapIndices DEF NoneAdded, SameButIndex, Swap, Created

LEMMA CreateBirths ==
    ASSUME TypeOK, Births, NEW c \in Configs, NEW s \in Sids, NEW type \in Types, Create(c, type, s)
    PROVE  Births'
<1> DEFINE new == [type |-> type, index |-> NewBase + newidx, birth |-> newidx, opts |-> Blank]
<1>1. newidx \in Nat /\ newidx' = newidx + 1
  BY DEF TypeOK, Create
<1>2. creates'[c][s] = new /\ new.birth = newidx
  BY DEF Create, TypeOK, Package
<1> HIDE DEF new
<1>3. \A d \in Configs, x \in Sids : <<d, x>> # <<c, s>> => creates'[d][x] = creates[d][x]
  BY DEF Create, TypeOK, Package
<1>4. ASSUME NEW d \in Configs, NEW x \in Sids, Created(d, x)
      PROVE  creates[d][x].birth \in Nat
  BY <1>4 DEF TypeOK, Package, Section, Created
<1> QED
  BY <1>1, <1>2, <1>3, <1>4 DEF Births, Created

LEMMA BirthStep == TypeOK /\ Births /\ [Next]_vars => Births'
<1> SUFFICES ASSUME TypeOK, Births, [Next]_vars PROVE Births'
  OBVIOUS
<1>1. ASSUME NEW c \in Configs, NEW snapshot \in Snapshots, Load(c, snapshot) PROVE Births'
  BY <1>1 DEF Load, Births, Created
<1>2. ASSUME NEW packages \in SUBSET Configs, Unload(packages) PROVE Births'
  <2>1. NoneAdded
    BY <1>2 DEF Unload, NoneAdded, Created, EmptyPackage
  <2> QED
    BY <2>1, BirthsKept
<1>3. ASSUME NEW c \in Configs, NEW s \in Sids, NEW type \in Types,
             AddNamed(c, type, s) \/ AddAnonymous(c, type, s)
      PROVE  Births'
  BY <1>3, CreateBirths DEF AddNamed, AddAnonymous
<1>4. ASSUME NEW c \in Configs, NEW s \in Sids, RemoveCreated(c, s) \/ RemoveLoaded(c, s)
      PROVE  Births'
  <2>1. CASE RemoveCreated(c, s)
    <3>1. \A d \in Configs, x \in Sids :
             creates'[d][x] # NoSection => creates'[d][x] = creates[d][x]
      BY <2>1 DEF RemoveCreated, TypeOK, Package
    <3>2. NoneAdded
      BY <2>1, <3>1 DEF RemoveCreated, NoneAdded, Created
    <3> QED
      BY <3>2, BirthsKept
  <2>2. CASE RemoveLoaded(c, s)
    BY <2>2 DEF RemoveLoaded, Births, Created
  <2> QED
    BY <1>4, <2>1, <2>2
<1>5. ASSUME NEW c \in Configs, NEW s \in Sids, NEW o \in Options, NEW val \in Values \cup {None},
             SetCreated(c, s, o, val) \/ SetChange(c, s, o, val) \/ SetDelete(c, s, o, val)
      PROVE  Births'
  <2>1. CASE SetCreated(c, s, o, val)
    <3>1. /\ creates'[c][s] = [creates[c][s] EXCEPT !.opts[o] = val]
          /\ creates[c][s] \in Section
          /\ \A d \in Configs, x \in Sids : <<d, x>> # <<c, s>> => creates'[d][x] = creates[d][x]
      <4>1. creates[c][s] \in Section
        BY <2>1 DEF SetCreated, Created, TypeOK, Package
      <4>2. creates'[c][s] = [creates[c][s] EXCEPT !.opts[o] = val]
        BY <2>1 DEF SetCreated, TypeOK, Package
      <4>3. \A d \in Configs, x \in Sids : <<d, x>> # <<c, s>> => creates'[d][x] = creates[d][x]
        BY <2>1 DEF SetCreated, TypeOK, Package
      <4> QED
        BY <4>1, <4>2, <4>3
    <3>2. creates'[c][s].birth = creates[c][s].birth /\ Created(c, s)
      <4> DEFINE old == creates[c][s]
      <4>1. [old EXCEPT !.opts[o] = val].birth = old.birth
        BY <3>1 DEF Section
      <4> QED
        BY <2>1, <3>1, <4>1 DEF SetCreated
    <3>3. ASSUME NEW d \in Configs, NEW x \in Sids, Created(d, x)'
          PROVE  Created(d, x) /\ creates'[d][x].birth = creates[d][x].birth
      <4>1. CASE <<d, x>> = <<c, s>>
        BY <3>2, <4>1
      <4>2. CASE <<d, x>> # <<c, s>>
        BY <3>1, <3>3, <4>2 DEF Created
      <4> QED
        BY <4>1, <4>2
    <3>4. newidx' = newidx
      BY <2>1 DEF SetCreated
    <3>5. NoneAdded
      BY <3>3, <3>4 DEF NoneAdded
    <3> QED
      BY <3>5, BirthsKept
  <2>2. CASE SetChange(c, s, o, val) \/ SetDelete(c, s, o, val)
    BY <2>2 DEF SetChange, SetDelete, Births, Created
  <2> QED
    BY <1>5, <2>1, <2>2
<1>6. ASSUME NEW c \in Configs, NEW type \in ReadTypes, ReadSections(c, type) PROVE Births'
  BY <1>6, ReadBirths, BirthsKept
<1>7. ASSUME NEW c \in Configs, NEW s \in Sids, NEW t \in Sids, Swap(c, s, t) PROVE Births'
  BY <1>7, SwapBirths, BirthsKept
<1>8. CASE UNCHANGED vars
  BY <1>8 DEF vars, Births, Created
<1> QED
  BY <1>1, <1>2, <1>3, <1>4, <1>5, <1>6, <1>7, <1>8 DEF Next

-----------------------------------------------------------------------------
(* The batches that the client sends *)

LEMMA PlacesDiffer ==
    /\ \A c \in Configs : Place(c) \in Nat
    /\ \A c, d \in Configs : Place(c) = Place(d) => c = d
<1> DEFINE n    == Cardinality(Configs)
           list == SetToSeq(Configs)
<1>1. \A c \in Configs : \E i \in 1 .. n : list[i] = c
  BY ConfigsAssumption, SetListed
<1>2. \A c \in Configs : Place(c) \in 1 .. n /\ list[Place(c)] = c
  BY <1>1 DEF Place
<1> HIDE DEF list
<1> QED
  BY <1>2

LEMMA AdditionsOrdered ==
    ASSUME TypeOK, Births
    PROVE  Orders({p \in Additions \X Additions : AddedBefore(p[1], p[2])}, Additions)
<1> DEFINE R == {p \in Additions \X Additions : AddedBefore(p[1], p[2])}
<1>1. \A e, f \in Additions : <<e, f>> \in R <=> AddedBefore(e, f)
  OBVIOUS
<1> HIDE DEF R
<1>2. \A e \in Additions :
        /\ e = <<e[1], e[2]>> /\ e[1] \in Configs /\ e[2] \in Sids /\ Created(e[1], e[2])
        /\ creates[e[1]][e[2]].birth \in Nat
  BY DEF Additions, Created, TypeOK, Package, Section
<1>3. \A e \in Additions : Place(e[1]) \in Nat
  BY <1>2, PlacesDiffer
<1>4. ASSUME NEW e \in Additions PROVE ~AddedBefore(e, e)
  BY <1>2, <1>3 DEF AddedBefore
<1>5. ASSUME NEW e \in Additions, NEW f \in Additions, NEW g \in Additions,
             AddedBefore(e, f), AddedBefore(f, g)
      PROVE  AddedBefore(e, g)
  <2>1. /\ Place(e[1]) \in Nat /\ Place(f[1]) \in Nat /\ Place(g[1]) \in Nat
        /\ creates[e[1]][e[2]].birth \in Nat /\ creates[f[1]][f[2]].birth \in Nat
        /\ creates[g[1]][g[2]].birth \in Nat
    BY <1>2, <1>3
  <2> QED
    BY <1>5, <2>1 DEF AddedBefore
<1>6. ASSUME NEW e \in Additions, NEW f \in Additions
      PROVE  e = f \/ AddedBefore(e, f) \/ AddedBefore(f, e)
  <2>1. /\ e = <<e[1], e[2]>> /\ e[1] \in Configs /\ e[2] \in Sids /\ Created(e[1], e[2])
        /\ f = <<f[1], f[2]>> /\ f[1] \in Configs /\ f[2] \in Sids /\ Created(f[1], f[2])
        /\ creates[e[1]][e[2]].birth \in Nat /\ creates[f[1]][f[2]].birth \in Nat
    BY <1>2
  <2>2. CASE e[1] # f[1]
    <3>1. Place(e[1]) # Place(f[1]) /\ Place(e[1]) \in Nat /\ Place(f[1]) \in Nat
      BY <2>1, <2>2, PlacesDiffer
    <3> QED
      BY <3>1 DEF AddedBefore
  <2>3. CASE e[1] = f[1]
    <3>1. creates[e[1]][e[2]].birth = creates[f[1]][f[2]].birth => e[2] = f[2]
      BY <2>1, <2>3 DEF Births
    <3> QED
      BY <2>1, <2>3, <3>1 DEF AddedBefore
  <2> QED
    BY <2>2, <2>3
<1>7. Orders(R, Additions)
  BY <1>1, <1>4, <1>5, <1>6 DEF Orders
<1> QED
  BY <1>7 DEF R

LEMMA SnewLists ==
    ASSUME TypeOK, Births
    PROVE  /\ IsSeq(Snew) /\ Elements(Snew) \subseteq Additions
           /\ DOMAIN Snew = 1 .. Cardinality(Additions) /\ Cardinality(Additions) \in Nat
<1> DEFINE R == {p \in Additions \X Additions : AddedBefore(p[1], p[2])}
<1>1. Orders(R, Additions)
  BY AdditionsOrdered
<1>2. IsFiniteSet(Additions)
  BY ConfigsAssumption, SidsAssumption, FS_Product, FS_Subset DEF Additions
<1>3. Snew = Sorted(Additions, R)
  BY DEF Snew
<1> HIDE DEF R
<1>4. /\ IsSeq(Snew) /\ DOMAIN Snew = 1 .. Cardinality(Additions)
      /\ \A i \in 1 .. Cardinality(Additions) : Snew[i] \in Additions
  BY <1>1, <1>2, <1>3, SortedLists
<1> QED
  BY <1>2, <1>4, FS_CardinalityType DEF Elements

\* A batch of calls, each about options that were edited.
AboutEdits(call, edits) == \A p \in Touches(call) : <<call.conf, p[1], p[2]>> \in edits

BatchOK(batch, edits) ==
    IsSeq(batch) /\ \A call \in Elements(batch) : CallOK(call) /\ AboutEdits(call, edits)

LEMMA BatchAfter ==
    ASSUME NEW edits, NEW batch, BatchOK(batch, edits), batch # <<>>
    PROVE  /\ CallOK(Head(batch)) /\ AboutEdits(Head(batch), edits) /\ Head(batch) \in Elements(batch)
           /\ BatchOK(Tail(batch), edits) /\ Elements(Tail(batch)) \subseteq Elements(batch)
BY FirstAndRest DEF BatchOK

LEMMA BatchesJoined ==
    ASSUME NEW edits, NEW s, BatchOK(s, edits), NEW t, BatchOK(t, edits)
    PROVE  BatchOK(s \o t, edits) /\ Elements(s \o t) \subseteq Elements(s) \cup Elements(t)
BY Joined DEF BatchOK

LEMMA MoreEdits ==
    ASSUME NEW edits, NEW more, edits \subseteq more, NEW batch, BatchOK(batch, edits)
    PROVE  BatchOK(batch, more)
BY DEF BatchOK, AboutEdits

LEMMA NoCalls == ASSUME NEW edits PROVE BatchOK(<<>>, edits)
BY NoElements DEF BatchOK

Edits == {e \in Configs \X Sids \X Options : Edited(e[1], e[2], e[3])}

LEMMA AddCallOK ==
    ASSUME TypeOK, NEW c \in Configs, NEW s \in Sids, Created(c, s)
    PROVE  CallOK(AddCall(c, s)) /\ AboutEdits(AddCall(c, s), Edits) /\ AddCall(c, s).op = "add"
<1> DEFINE call == AddCall(c, s)
<1>1. call.op = "add" /\ call.conf = c /\ call.sid = s /\ call.arg = creates[c][s]
  BY DEF AddCall
<1> HIDE DEF call
<1>2. creates[c][s] \in Section
  BY DEF TypeOK, Package, Created
<1>3. CallOK(call)
  BY <1>1, <1>2 DEF CallOK
<1>4. Touches(call) \subseteq {s} \X Options
  BY <1>1 DEF Touches
<1>5. \A o \in Options : <<c, s, o>> \in Edits
  BY DEF Edits, Edited
<1>6. AboutEdits(call, Edits)
  BY <1>1, <1>4, <1>5 DEF AboutEdits
<1> QED
  BY <1>1, <1>3, <1>6 DEF call

LEMMA SetCallOK ==
    ASSUME TypeOK, NEW c \in Configs, NEW s \in Sids
    PROVE  CallOK(SetCall(c, s)) /\ AboutEdits(SetCall(c, s), Edits) /\ SetCall(c, s).op = "set"
<1> DEFINE call == SetCall(c, s)
<1>1. call.op = "set" /\ call.conf = c /\ call.sid = s /\ call.arg = changes[c][s]
  BY DEF SetCall
<1> HIDE DEF call
<1>2. changes[c][s] \in [Options -> Values \cup {None}]
  BY DEF TypeOK
<1>3. CallOK(call)
  BY <1>1, <1>2 DEF CallOK
<1>4. Touches(call) = {s} \X {o \in Options : changes[c][s][o] # None}
  BY <1>1 DEF Touches
<1>5. \A o \in Options : changes[c][s][o] # None => <<c, s, o>> \in Edits
  BY DEF Edits, Edited
<1>6. AboutEdits(call, Edits)
  BY <1>1, <1>4, <1>5 DEF AboutEdits
<1> QED
  BY <1>1, <1>3, <1>6 DEF call

LEMMA DeleteCallOK ==
    ASSUME TypeOK, NEW c \in Configs, NEW s \in Sids
    PROVE  CallOK(DeleteCall(c, s)) /\ AboutEdits(DeleteCall(c, s), Edits) /\ DeleteCall(c, s).op # "load"
<1> DEFINE call == DeleteCall(c, s)
<1>1. CASE s \in deletesAll[c]
  <2>1. call.op = "delete" /\ call.conf = c /\ call.sid = s
    BY <1>1 DEF DeleteCall
  <2> HIDE DEF call
  <2>2. Touches(call) = {s} \X Options
    BY <2>1 DEF Touches
  <2>3. \A o \in Options : <<c, s, o>> \in Edits
    BY <1>1 DEF Edits, Edited
  <2>4. AboutEdits(call, Edits)
    BY <2>1, <2>2, <2>3 DEF AboutEdits
  <2>5. CallOK(call)
    BY <2>1 DEF CallOK
  <2> QED
    BY <2>1, <2>4, <2>5 DEF call
<1>2. CASE s \notin deletesAll[c]
  <2>1. call.op = "options" /\ call.conf = c /\ call.sid = s /\ call.arg = deletesOpt[c][s]
    BY <1>2 DEF DeleteCall
  <2> HIDE DEF call
  <2>2. deletesOpt[c][s] \in SUBSET Options
    BY DEF TypeOK
  <2>3. Touches(call) = {s} \X deletesOpt[c][s]
    BY <2>1 DEF Touches
  <2>4. \A o \in deletesOpt[c][s] : <<c, s, o>> \in Edits
    BY <2>2 DEF Edits, Edited
  <2>5. AboutEdits(call, Edits)
    BY <2>1, <2>3, <2>4 DEF AboutEdits
  <2>6. CallOK(call)
    BY <2>1, <2>2 DEF CallOK
  <2> QED
    BY <2>1, <2>5, <2>6 DEF call
<1> QED
  BY <1>1, <1>2

\* The edits of a save that are listed are sections of packages.
LEMMA PairsListed ==
    ASSUME NEW S \in SUBSET (Configs \X Sids)
    PROVE  LET list == SetToSeq(S)
           IN  /\ DOMAIN list = 1 .. Cardinality(S) /\ Cardinality(S) \in Nat
               /\ \A i \in DOMAIN list : list[i] \in S
<1>1. IsFiniteSet(S)
  BY ConfigsAssumption, SidsAssumption, FS_Product, FS_Subset
<1> QED
  BY <1>1, SetListed, FS_CardinalityType

\* One call of some kind for each of some sections.
EachCall(list, batch) ==
    /\ DOMAIN batch = DOMAIN list /\ batch = [i \in DOMAIN list |-> batch[i]]
    /\ \A i \in DOMAIN list :
         CallOK(batch[i]) /\ AboutEdits(batch[i], Edits) /\ batch[i].op # "load"

LEMMA EachCallOK ==
    ASSUME NEW list, NEW n \in Nat, DOMAIN list = 1 .. n, NEW batch, EachCall(list, batch)
    PROVE  BatchOK(batch, Edits) /\ \A call \in Elements(batch) : call.op # "load"
<1>1. DOMAIN batch = 1 .. n /\ batch = [i \in 1 .. n |-> batch[i]]
  BY DEF EachCall
<1>2. IsSeq(batch)
  BY <1>1, FromOneOn
<1> QED
  BY <1>1, <1>2 DEF BatchOK, EachCall, Elements

LEMMA EditCallsOK ==
    ASSUME TypeOK, Births
    PROVE  BatchOK(EditCalls, Edits) /\ \A call \in Elements(EditCalls) : call.op # "load"
<1> DEFINE adds    == Calls(Snew, AddCall)
           sets    == Calls(SetToSeq(Changed), SetCall)
           deletes == Calls(SetToSeq(Deleted), DeleteCall)
<1>1. BatchOK(adds, Edits) /\ \A call \in Elements(adds) : call.op # "load"
  <2>1. /\ DOMAIN Snew = 1 .. Cardinality(Additions) /\ Cardinality(Additions) \in Nat
        /\ \A i \in DOMAIN Snew : Snew[i] \in Additions
    BY SnewLists DEF Elements
  <2>2. adds = [i \in DOMAIN Snew |-> AddCall(Snew[i][1], Snew[i][2])]
    BY DEF Calls
  <2> HIDE DEF adds
  <2>3. ASSUME NEW i \in DOMAIN Snew
        PROVE  CallOK(adds[i]) /\ AboutEdits(adds[i], Edits) /\ adds[i].op # "load"
    <3>1. Snew[i][1] \in Configs /\ Snew[i][2] \in Sids /\ Created(Snew[i][1], Snew[i][2])
      BY <2>1 DEF Additions
    <3>2. adds[i] = AddCall(Snew[i][1], Snew[i][2])
      BY <2>2
    <3> QED
      BY <3>1, <3>2, AddCallOK
  <2>4. EachCall(Snew, adds)
    BY <2>2, <2>3 DEF EachCall
  <2> QED
    BY <2>1, <2>4, EachCallOK
<1>2. BatchOK(sets, Edits) /\ \A call \in Elements(sets) : call.op # "load"
  <2> DEFINE list == SetToSeq(Changed)
  <2>1. Changed \in SUBSET (Configs \X Sids)
    BY DEF Changed
  <2>2. /\ DOMAIN list = 1 .. Cardinality(Changed) /\ Cardinality(Changed) \in Nat
        /\ \A i \in DOMAIN list : list[i] \in Changed
    BY <2>1, PairsListed
  <2>3. sets = [i \in DOMAIN list |-> SetCall(list[i][1], list[i][2])]
    BY DEF Calls
  <2> HIDE DEF sets, list
  <2>4. ASSUME NEW i \in DOMAIN list
        PROVE  CallOK(sets[i]) /\ AboutEdits(sets[i], Edits) /\ sets[i].op # "load"
    <3>1. list[i][1] \in Configs /\ list[i][2] \in Sids
      BY <2>1, <2>2
    <3>2. sets[i] = SetCall(list[i][1], list[i][2])
      BY <2>3
    <3> QED
      BY <3>1, <3>2, SetCallOK
  <2>5. EachCall(list, sets)
    BY <2>3, <2>4 DEF EachCall
  <2> QED
    BY <2>2, <2>5, EachCallOK
<1>3. BatchOK(deletes, Edits) /\ \A call \in Elements(deletes) : call.op # "load"
  <2> DEFINE list == SetToSeq(Deleted)
  <2>1. Deleted \in SUBSET (Configs \X Sids)
    BY DEF Deleted
  <2>2. /\ DOMAIN list = 1 .. Cardinality(Deleted) /\ Cardinality(Deleted) \in Nat
        /\ \A i \in DOMAIN list : list[i] \in Deleted
    BY <2>1, PairsListed
  <2>3. deletes = [i \in DOMAIN list |-> DeleteCall(list[i][1], list[i][2])]
    BY DEF Calls
  <2> HIDE DEF deletes, list
  <2>4. ASSUME NEW i \in DOMAIN list
        PROVE  CallOK(deletes[i]) /\ AboutEdits(deletes[i], Edits) /\ deletes[i].op # "load"
    <3>1. list[i][1] \in Configs /\ list[i][2] \in Sids
      BY <2>1, <2>2
    <3>2. deletes[i] = DeleteCall(list[i][1], list[i][2])
      BY <2>3
    <3> QED
      BY <3>1, <3>2, DeleteCallOK
  <2>5. EachCall(list, deletes)
    BY <2>3, <2>4 DEF EachCall
  <2> QED
    BY <2>2, <2>5, EachCallOK
<1> HIDE DEF adds, sets, deletes
<1>4. /\ BatchOK(adds \o sets, Edits)
      /\ \A call \in Elements(adds \o sets) : call.op # "load"
  BY <1>1, <1>2, BatchesJoined
<1> DEFINE first == adds \o sets
<1> HIDE DEF first
<1>5. BatchOK(first \o deletes, Edits) /\ \A call \in Elements(first \o deletes) : call.op # "load"
  BY <1>3, <1>4, BatchesJoined DEF first
<1>6. EditCalls = first \o deletes
  BY DEF EditCalls, first, adds, sets, deletes
<1> QED
  BY <1>5, <1>6

LEMMA LoadCallsOK ==
    ASSUME NEW packages \in SUBSET Configs
    PROVE  /\ BatchOK(LoadCalls(packages), {})
           /\ \A call \in Elements(LoadCalls(packages)) : call.op = "load"
           /\ Len(LoadCalls(packages)) = Cardinality(packages) /\ Cardinality(packages) \in Nat
<1> DEFINE list == SetToSeq(packages)
           n    == Cardinality(packages)
           load(c) == [op |-> "load", conf |-> c, sid |-> None, arg |-> None]
           batch == LoadCalls(packages)
<1>1. IsFiniteSet(packages) /\ n \in Nat
  BY ConfigsAssumption, FS_Subset, FS_CardinalityType
<1>2. DOMAIN list = 1 .. n /\ \A i \in 1 .. n : list[i] \in packages
  BY <1>1, SetListed
<1>3. batch = [i \in DOMAIN list |-> load(list[i])]
  BY DEF LoadCalls
<1> HIDE DEF list, n, batch
<1>4. ASSUME NEW c \in packages
      PROVE  CallOK(load(c)) /\ load(c).op = "load" /\ Touches(load(c)) = {}
  BY DEF CallOK, Touches
<1>5. IsSeq(batch) /\ Len(batch) = n
  BY <1>1, <1>2, <1>3, FromOneOn
<1>6. ASSUME NEW call \in Elements(batch)
      PROVE  CallOK(call) /\ call.op = "load" /\ Touches(call) = {}
  <2>1. PICK i \in 1 .. n : call = load(list[i])
    BY <1>2, <1>3 DEF Elements
  <2> QED
    BY <1>2, <1>4, <2>1
<1>7. BatchOK(batch, {})
  BY <1>5, <1>6 DEF BatchOK, AboutEdits
<1> QED
  BY <1>1, <1>5, <1>6, <1>7 DEF batch, n

LEMMA GatheredFinite == ASSUME NEW c PROVE Cardinality(Gathered(c)) \in Nat
<1>1. Gathered(c) \in SUBSET ({TRUE, FALSE} \X Sids)
  <2>1. ASSUME NEW e \in Gathered(c) PROVE \E s \in Sids : e = <<TRUE, s>> \/ e = <<FALSE, s>>
    BY Zenon DEF Gathered
  <2>2. ASSUME NEW s \in Sids, NEW kind \in {TRUE, FALSE} PROVE <<kind, s>> \in {TRUE, FALSE} \X Sids
    OBVIOUS
  <2>3. TRUE \in {TRUE, FALSE} /\ FALSE \in {TRUE, FALSE}
    OBVIOUS
  <2>4. ASSUME NEW e \in Gathered(c) PROVE e \in {TRUE, FALSE} \X Sids
    BY <2>1, <2>2, <2>3, Zenon
  <2> QED
    BY <2>4, Zenon
<1>2. IsFiniteSet({TRUE, FALSE})
  <2>1. IsFiniteSet({TRUE})
    BY FS_Singleton
  <2>2. IsFiniteSet({TRUE} \cup {FALSE})
    BY <2>1, FS_AddElement
  <2>3. {TRUE} \cup {FALSE} = {TRUE, FALSE}
    OBVIOUS
  <2> QED
    BY <2>2, <2>3
<1>3. IsFiniteSet({TRUE, FALSE} \X Sids)
  BY <1>2, SidsAssumption, FS_Product
<1> QED
  BY <1>1, <1>3, FS_Subset, FS_CardinalityType

LEMMA OrderCallsOK ==
    ASSUME TypeOK, NEW named
    PROVE  /\ BatchOK(OrderCalls(named), {})
           /\ \A call \in Elements(OrderCalls(named)) : call.op # "load"
<1> DEFINE set  == {c \in reorder : Gathered(c) # {}}
           list == SetToSeq(set)
           n    == Cardinality(set)
           order(c) == Sorted(Gathered(c), {p \in Gathered(c) \X Gathered(c) : OrderBefore(c, p[1], p[2])})
           arg(c)   == [j \in DOMAIN order(c) |->
                          IF order(c)[j][1] THEN named[c][order(c)[j][2]] ELSE order(c)[j][2]]
           call(c)  == [op |-> "order", conf |-> c, sid |-> None, arg |-> arg(c)]
           batch == OrderCalls(named)
<1>1. set \in SUBSET Configs
  BY DEF TypeOK
<1>2. IsFiniteSet(set) /\ n \in Nat
  BY <1>1, ConfigsAssumption, FS_Subset, FS_CardinalityType
<1>3. batch = [i \in DOMAIN list |-> call(list[i])]
  BY DEF OrderCalls, OrderCallsWith
<1> HIDE DEF set, batch
<1>4. DOMAIN list = 1 .. n /\ \A i \in 1 .. n : list[i] \in set
  BY <1>2, SetListed
<1> HIDE DEF list, n
<1>5. ASSUME NEW c \in set PROVE Len(arg(c)) \in Nat
  <2>1. DOMAIN order(c) = 1 .. Cardinality(Gathered(c))
    BY DEF Sorted
  <2> HIDE DEF order
  <2>2. DOMAIN arg(c) = 1 .. Cardinality(Gathered(c)) /\ arg(c) = [j \in 1 .. Cardinality(Gathered(c)) |-> arg(c)[j]]
    BY <2>1
  <2> HIDE DEF arg
  <2> QED
    BY <2>2, GatheredFinite, FromOneOn
<1> HIDE DEF arg
<1>6. ASSUME NEW c \in set
      PROVE  CallOK(call(c)) /\ call(c).op # "load" /\ Touches(call(c)) = {}
  BY <1>1, <1>5 DEF CallOK, Touches
<1> HIDE DEF call
<1>7. IsSeq(batch)
  <2>1. DOMAIN batch = 1 .. n /\ batch = [i \in 1 .. n |-> batch[i]]
    BY <1>3, <1>4
  <2> QED
    BY <1>2, <2>1, FromOneOn
<1>8. ASSUME NEW x \in Elements(batch)
      PROVE  CallOK(x) /\ x.op # "load" /\ Touches(x) = {}
  <2>1. PICK i \in 1 .. n : x = call(list[i])
    BY <1>3, <1>4 DEF Elements
  <2> QED
    BY <1>4, <1>6, <2>1
<1>9. BatchOK(batch, {})
  BY <1>7, <1>8 DEF BatchOK, AboutEdits
<1> QED
  BY <1>8, <1>9 DEF batch

-----------------------------------------------------------------------------
(* The invariant *)

\* The answers are of the kind that the client waits for, and every call of a
\* batch, be it given up, is about what the user edited.
WireOK ==
    /\ BatchOK(calls, asked) /\ BatchOK(stale, asked) /\ IsSeq(replies)
    /\ phase \in {"saving", "ordering"} =>
         /\ \A call \in Elements(calls) : call.op # "load"
         /\ Elements(replies) \subseteq Sids \cup {None}
    /\ phase = "loading" =>
         /\ \A call \in Elements(calls) : call.op = "load"
         /\ Elements(replies) \subseteq Package
         /\ Len(calls) + Len(replies) = Cardinality(pkgs)

SaveInv == SaveTypeOK /\ Births /\ WireOK /\ foreign \in Nat

ServerOK == DOMAIN server = Configs /\ \A c \in Configs : IsFile(server[c])

LEMMA Appended ==
    ASSUME NEW s, IsSeq(s), NEW x
    PROVE  /\ IsSeq(Append(s, x)) /\ Elements(Append(s, x)) \subseteq Elements(s) \cup {x}
           /\ Len(Append(s, x)) = Len(s) + 1 /\ Len(s) \in Nat
<1> DEFINE all == Elements(s) \cup {x}
           t   == Append(s, x)
<1>1. s \in Seq(all) /\ x \in all
  BY SeqMonotonic DEF IsSeq
<1> HIDE DEF all
<1>2. t \in Seq(all) /\ Len(t) = Len(s) + 1
  BY <1>1, AppendProperties
<1>3. Len(s) \in Nat
  BY <1>1, LenProperties
<1> HIDE DEF t
<1>4. IsSeq(t) /\ Elements(t) \subseteq all
  BY <1>2, SeqIs
<1> QED
  BY <1>2, <1>3, <1>4 DEF all, t

LEMMA FileStored ==
    ASSUME ServerOK, NEW c \in Configs, NEW file, IsFile(file), server' = [server EXCEPT ![c] = file]
    PROVE  /\ ServerOK' /\ server'[c] = file
           /\ \A d \in Configs : d # c => server'[d] = server[d]
<1>1. DOMAIN server' = Configs /\ \A d \in Configs : server'[d] = IF d = c THEN file ELSE server[d]
  BY DEF ServerOK
<1>2. ASSUME NEW d \in Configs PROVE IsFile(server'[d])
  <2>1. CASE d = c
    BY <1>1, <2>1
  <2>2. CASE d # c
    BY <1>1, <2>2 DEF ServerOK
  <2> QED
    BY <2>1, <2>2
<1> QED
  BY <1>1, <1>2 DEF ServerOK

LEMMA CacheKept ==
    ASSUME SaveInv, UNCHANGED vars
    PROVE  TypeOK' /\ Births'
BY DEF SaveInv, SaveTypeOK, vars, TypeOK, Births, Created

LEMMA InitInv == SaveInit => SaveInv
<1> SUFFICES ASSUME SaveInit PROVE SaveInv
  OBVIOUS
<1>1. TypeOK /\ Births
  BY BlankIsContent DEF SaveInit, Init, TypeOK, Births, Created, Package, EmptyPackage, Blank
<1>2. DOMAIN server = Configs /\ \A c \in Configs : IsFile(server[c])
  BY FilesAssumption DEF SaveInit
<1>3. calls = <<>> /\ replies = <<>> /\ stale = <<>> /\ phase = "idle" /\ pkgs = {} /\ foreign = 0
  BY DEF SaveInit
<1>4. names \in [Configs -> [Sids -> Sids \cup {None}]]
  BY DEF SaveInit
<1>5. WireOK
  BY <1>3, NoCalls, NoElements DEF WireOK
<1> QED
  BY <1>1, <1>2, <1>3, <1>4, <1>5 DEF SaveInv, SaveTypeOK

-----------------------------------------------------------------------------
(* The router *)

LEMMA RouterRunsStep == SaveInv /\ RouterRuns => SaveInv'
<1> SUFFICES ASSUME SaveInv, RouterRuns PROVE SaveInv'
  OBVIOUS
<1> DEFINE call == Head(calls)
<1>1. PICK effect \in Effects(call) :
        /\ server' = [server EXCEPT ![call.conf] = effect.file]
        /\ replies' = Append(replies, effect.reply)
  BY DEF RouterRuns
<1>2. /\ calls # <<>> /\ calls' = Tail(calls)
      /\ UNCHANGED vars /\ UNCHANGED <<phase, stale, pkgs, names, foreign, asked>>
  BY DEF RouterRuns, ghostVars
<1>3. /\ BatchOK(calls, asked) /\ BatchOK(stale, asked) /\ IsSeq(replies)
      /\ phase \in {"saving", "ordering", "loading"} /\ ServerOK
  BY <1>2 DEF SaveInv, SaveTypeOK, WireOK, ServerOK
<1>4. /\ CallOK(call) /\ call \in Elements(calls)
      /\ BatchOK(calls', asked) /\ Elements(calls') \subseteq Elements(calls)
      /\ Len(calls) \in Nat /\ Len(calls') = Len(calls) - 1
  BY <1>2, <1>3, BatchAfter, FirstAndRest DEF BatchOK
<1> HIDE DEF call
<1>5. EffectOK(call, effect) /\ call.conf \in Configs
  BY <1>3, <1>4, EffectsOK DEF ServerOK, CallOK
<1>6. ServerOK'
  BY <1>1, <1>3, <1>5, FileStored DEF EffectOK
<1>7. /\ IsSeq(replies') /\ Elements(replies') \subseteq Elements(replies) \cup {effect.reply}
      /\ Len(replies') = Len(replies) + 1 /\ Len(replies) \in Nat
  BY <1>1, <1>3, Appended
<1>8. phase' \in {"saving", "ordering"} =>
        /\ \A x \in Elements(calls') : x.op # "load"
        /\ Elements(replies') \subseteq Sids \cup {None}
  BY <1>2, <1>4, <1>5, <1>7 DEF SaveInv, WireOK, EffectOK
<1>9. phase' = "loading" =>
        /\ \A x \in Elements(calls') : x.op = "load"
        /\ Elements(replies') \subseteq Package
        /\ Len(calls') + Len(replies') = Cardinality(pkgs')
  <2> SUFFICES ASSUME phase' = "loading"
               PROVE  /\ \A x \in Elements(calls') : x.op = "load"
                      /\ Elements(replies') \subseteq Package
                      /\ Len(calls') + Len(replies') = Cardinality(pkgs')
    OBVIOUS
  <2>1. /\ \A x \in Elements(calls) : x.op = "load"
        /\ Elements(replies) \subseteq Package
        /\ Len(calls) + Len(replies) = Cardinality(pkgs)
    BY <1>2 DEF SaveInv, WireOK
  <2>2. effect.reply \in Package
    BY <1>4, <1>5, <2>1 DEF EffectOK
  <2>3. Len(calls') + Len(replies') = Cardinality(pkgs')
    BY <1>2, <1>4, <1>7, <2>1
  <2> QED
    BY <1>4, <1>7, <2>1, <2>2, <2>3
<1>10. WireOK'
  BY <1>2, <1>3, <1>4, <1>7, <1>8, <1>9 DEF WireOK
<1>11. SaveTypeOK'
  BY <1>2, <1>3, <1>6, CacheKept DEF SaveInv, SaveTypeOK, ServerOK
<1> QED
  BY <1>2, <1>10, <1>11, CacheKept DEF SaveInv

LEMMA RouterRefusesStep == SaveInv /\ RouterRefuses => SaveInv'
<1> SUFFICES ASSUME SaveInv, RouterRefuses PROVE SaveInv'
  OBVIOUS
<1> DEFINE call  == Head(calls)
           reply == FailedReply(call)
<1>1. /\ calls # <<>> /\ calls' = Tail(calls) /\ replies' = Append(replies, reply)
      /\ UNCHANGED vars /\ UNCHANGED <<server, phase, stale, pkgs, names, foreign, asked>>
  BY DEF RouterRefuses
<1>2. /\ BatchOK(calls, asked) /\ BatchOK(stale, asked) /\ IsSeq(replies)
      /\ phase \in {"saving", "ordering", "loading"}
  BY <1>1 DEF SaveInv, SaveTypeOK, WireOK
<1>3. /\ call \in Elements(calls)
      /\ BatchOK(calls', asked) /\ Elements(calls') \subseteq Elements(calls)
      /\ Len(calls) \in Nat /\ Len(calls') = Len(calls) - 1
  BY <1>1, <1>2, BatchAfter, FirstAndRest DEF BatchOK
<1>4. reply \in IF call.op = "load" THEN Package ELSE Sids \cup {None}
  BY DEF FailedReply, EmptyPackage, Package
<1> HIDE DEF call, reply
<1>5. /\ IsSeq(replies') /\ Elements(replies') \subseteq Elements(replies) \cup {reply}
      /\ Len(replies') = Len(replies) + 1 /\ Len(replies) \in Nat
  BY <1>1, <1>2, Appended
<1>6. phase' \in {"saving", "ordering"} =>
        /\ \A x \in Elements(calls') : x.op # "load"
        /\ Elements(replies') \subseteq Sids \cup {None}
  BY <1>1, <1>3, <1>4, <1>5 DEF SaveInv, WireOK
<1>7. phase' = "loading" =>
        /\ \A x \in Elements(calls') : x.op = "load"
        /\ Elements(replies') \subseteq Package
        /\ Len(calls') + Len(replies') = Cardinality(pkgs')
  <2> SUFFICES ASSUME phase' = "loading"
               PROVE  /\ \A x \in Elements(calls') : x.op = "load"
                      /\ Elements(replies') \subseteq Package
                      /\ Len(calls') + Len(replies') = Cardinality(pkgs')
    OBVIOUS
  <2>1. /\ \A x \in Elements(calls) : x.op = "load"
        /\ Elements(replies) \subseteq Package
        /\ Len(calls) + Len(replies) = Cardinality(pkgs)
    BY <1>1 DEF SaveInv, WireOK
  <2>2. reply \in Package
    BY <1>3, <1>4, <2>1
  <2>3. Len(calls') + Len(replies') = Cardinality(pkgs')
    BY <1>1, <1>3, <1>5, <2>1
  <2> QED
    BY <1>3, <1>5, <2>1, <2>2, <2>3
<1>8. WireOK'
  BY <1>1, <1>2, <1>3, <1>5, <1>6, <1>7 DEF WireOK
<1>9. SaveTypeOK'
  BY <1>1, <1>2, CacheKept DEF SaveInv, SaveTypeOK
<1> QED
  BY <1>1, <1>8, <1>9, CacheKept DEF SaveInv

LEMMA RouterRunsStaleStep == SaveInv /\ RouterRunsStale => SaveInv'
<1> SUFFICES ASSUME SaveInv, RouterRunsStale PROVE SaveInv'
  OBVIOUS
<1> DEFINE call == Head(stale)
<1>1. PICK effect \in Effects(call) : server' = [server EXCEPT ![call.conf] = effect.file]
  BY DEF RouterRunsStale
<1>2. /\ stale # <<>> /\ stale' = Tail(stale)
      /\ UNCHANGED vars /\ UNCHANGED <<phase, calls, replies, pkgs, names, foreign, asked>>
  BY DEF RouterRunsStale
<1>3. BatchOK(stale, asked) /\ ServerOK
  BY DEF SaveInv, SaveTypeOK, WireOK, ServerOK
<1>4. CallOK(call) /\ BatchOK(stale', asked)
  BY <1>2, <1>3, BatchAfter
<1> HIDE DEF call
<1>5. EffectOK(call, effect) /\ call.conf \in Configs
  BY <1>3, <1>4, EffectsOK DEF ServerOK, CallOK
<1>6. ServerOK'
  BY <1>1, <1>3, <1>5, FileStored DEF EffectOK
<1>7. WireOK'
  BY <1>2, <1>4 DEF SaveInv, WireOK
<1>8. SaveTypeOK'
  BY <1>2, <1>6, CacheKept DEF SaveInv, SaveTypeOK, ServerOK
<1> QED
  BY <1>2, <1>7, <1>8, CacheKept DEF SaveInv

LEMMA RouterDropsStaleStep == SaveInv /\ RouterDropsStale => SaveInv'
<1> SUFFICES ASSUME SaveInv, RouterDropsStale PROVE SaveInv'
  OBVIOUS
<1>1. /\ stale' = <<>>
      /\ UNCHANGED vars /\ UNCHANGED <<server, phase, calls, replies, pkgs, names, foreign, asked>>
  BY DEF RouterDropsStale, ghostVars
<1>2. BatchOK(stale', asked')
  BY <1>1, NoCalls
<1>3. WireOK'
  BY <1>1, <1>2 DEF SaveInv, WireOK
<1>4. SaveTypeOK'
  BY <1>1, CacheKept DEF SaveInv, SaveTypeOK
<1> QED
  BY <1>1, <1>3, <1>4, CacheKept DEF SaveInv

LEMMA ForeignEditStep == SaveInv /\ ForeignEdit => SaveInv' /\ foreign' # foreign
<1> SUFFICES ASSUME SaveInv, ForeignEdit PROVE SaveInv' /\ foreign' # foreign
  OBVIOUS
<1>1. /\ foreign' = foreign + 1 /\ foreign \in Nat
      /\ UNCHANGED vars /\ UNCHANGED <<phase, calls, replies, stale, pkgs, names, asked>>
  BY DEF ForeignEdit, wireVars, SaveInv
<1>2. ServerOK
  BY DEF SaveInv, SaveTypeOK, ServerOK
<1>3. \E c \in Configs : \E file : IsFile(file) /\ server' = [server EXCEPT ![c] = file]
  <2>0. PICK c \in Configs : \E s \in NamesIn(server[c]) :
          \/ \E o \in Options, val \in Values :
               server' = [server EXCEPT ![c] = SetIn(@, s, [Blank EXCEPT ![o] = val])]
          \/ server' = [server EXCEPT ![c] = DeletedIn(@, s)]
    BY DEF ForeignEdit
  <2>1. PICK s \in NamesIn(server[c]) :
          \/ \E o \in Options, val \in Values :
               server' = [server EXCEPT ![c] = SetIn(@, s, [Blank EXCEPT ![o] = val])]
          \/ server' = [server EXCEPT ![c] = DeletedIn(@, s)]
    BY <2>0
  <2>2. IsFile(server[c]) /\ s \in Sids
    BY <1>2, NamesAreSids DEF ServerOK
  <2>3. ASSUME NEW o \in Options, NEW val \in Values,
               server' = [server EXCEPT ![c] = SetIn(@, s, [Blank EXCEPT ![o] = val])]
        PROVE  \E file : IsFile(file) /\ server' = [server EXCEPT ![c] = file]
    <3> DEFINE opts == [Blank EXCEPT ![o] = val]
               file == SetIn(server[c], s, opts)
    <3>1. opts \in [Options -> Values \cup {None}]
      BY BlankIsContent
    <3> HIDE DEF opts
    <3>2. IsFile(file)
      BY <2>2, <3>1, SetSpares
    <3>3. server' = [server EXCEPT ![c] = file]
      BY <2>3 DEF opts
    <3> QED
      BY <3>2, <3>3
  <2>4. ASSUME server' = [server EXCEPT ![c] = DeletedIn(@, s)]
        PROVE  \E file : IsFile(file) /\ server' = [server EXCEPT ![c] = file]
    <3>1. IsFile(DeletedIn(server[c], s))
      BY <2>2, DeletedSpares
    <3> QED
      BY <2>4, <3>1
  <2> QED
    BY <2>1, <2>3, <2>4
<1>4. ServerOK'
  BY <1>2, <1>3, FileStored
<1>5. WireOK'
  BY <1>1 DEF SaveInv, WireOK
<1>6. SaveTypeOK'
  BY <1>1, <1>4, CacheKept DEF SaveInv, SaveTypeOK, ServerOK
<1> QED
  BY <1>1, <1>5, <1>6, CacheKept DEF SaveInv

-----------------------------------------------------------------------------
(* The client *)

\* The part of the invariant about the cache is kept by every call of the views.
LEMMA CacheStep ==
    ASSUME SaveInv, Next
    PROVE  TypeOK' /\ Births'
BY TypeStep, BirthStep DEF SaveInv, SaveTypeOK

LEMMA EditIsNext == Edit => Next
<1> SUFFICES ASSUME Edit PROVE Next
  OBVIOUS
<1>1. ASSUME NEW c \in Configs, Unload({c}) PROVE Next
  BY <1>1 DEF Next
<1>2. ASSUME NEW c \in Configs, NEW s \in Sids \ Fresh, NEW type \in Types,
             AddNamed(c, type, s) \/ AddAnonymous(c, type, s)
      PROVE  Next
  BY <1>2 DEF Next
<1>3. ASSUME NEW c \in Configs, NEW s \in Sids, RemoveCreated(c, s) \/ RemoveLoaded(c, s) PROVE Next
  BY <1>3 DEF Next
<1>4. ASSUME NEW c \in Configs, NEW s \in Sids, NEW o \in Options, NEW val \in Values \cup {None},
             SetCreated(c, s, o, val) \/ SetChange(c, s, o, val) \/ SetDelete(c, s, o, val)
      PROVE  Next
  BY <1>4 DEF Next
<1>5. ASSUME NEW c \in Configs, NEW type \in ReadTypes, ReadSections(c, type) PROVE Next
  BY <1>5 DEF Next
<1>6. ASSUME NEW c \in Configs, NEW s \in Sids, NEW t \in Sids, Swap(c, s, t) PROVE Next
  BY <1>6 DEF Next
<1> QED
  BY <1>1, <1>2, <1>3, <1>4, <1>5, <1>6 DEF Edit

LEMMA EditStep == SaveInv /\ Edit => SaveInv'
<1> SUFFICES ASSUME SaveInv, Edit PROVE SaveInv'
  OBVIOUS
<1>1. TypeOK' /\ Births'
  BY EditIsNext, CacheStep
<1>2. UNCHANGED <<server, phase, calls, replies, stale, pkgs, names, foreign, asked>>
  BY DEF Edit, saveVars, wireVars, ghostVars
<1>3. WireOK'
  BY <1>2 DEF SaveInv, WireOK
<1>4. SaveTypeOK'
  BY <1>1, <1>2 DEF SaveInv, SaveTypeOK
<1> QED
  BY <1>1, <1>2, <1>3, <1>4 DEF SaveInv

\* The client waits for the loads it has sent.
LEMMA LoadsSent ==
    ASSUME pkgs' \in SUBSET Configs, phase' = "loading", Send(LoadCalls(pkgs')),
           BatchOK(stale', asked')
    PROVE  WireOK'
<1>1. calls' = LoadCalls(pkgs') /\ replies' = <<>>
  BY DEF Send
<1>2. /\ BatchOK(calls', {}) /\ \A call \in Elements(calls') : call.op = "load"
      /\ Len(calls') = Cardinality(pkgs') /\ Cardinality(pkgs') \in Nat
  BY <1>1, LoadCallsOK
<1>3. BatchOK(calls', asked')
  BY <1>2, MoreEdits
<1>4. IsSeq(replies') /\ Elements(replies') = {} /\ Len(replies') = 0
  BY <1>1, NoElements
<1>5. Len(calls') + Len(replies') = Cardinality(pkgs')
  BY <1>2, <1>4
<1> QED
  BY <1>2, <1>3, <1>4, <1>5 DEF WireOK

LEMMA LoadPackagesStep ==
    ASSUME SaveInv, NEW packages \in SUBSET Configs, LoadPackages(packages)
    PROVE  SaveInv'
<1>1. /\ pkgs' = packages \ loaded /\ phase' = "loading" /\ Send(LoadCalls(packages \ loaded))
      /\ UNCHANGED vars /\ UNCHANGED <<server, stale, names, foreign, asked>>
  BY DEF LoadPackages, ghostVars
<1>2. pkgs' \in SUBSET Configs
  BY <1>1
<1>3. BatchOK(stale', asked')
  BY <1>1 DEF SaveInv, WireOK
<1>4. WireOK'
  BY <1>1, <1>2, <1>3, LoadsSent
<1>5. SaveTypeOK'
  BY <1>1, <1>2, CacheKept DEF SaveInv, SaveTypeOK
<1> QED
  BY <1>1, <1>4, <1>5, CacheKept DEF SaveInv

LEMMA LoadReplyStep == SaveInv /\ LoadReply => SaveInv'
<1> SUFFICES ASSUME SaveInv, LoadReply PROVE SaveInv'
  OBVIOUS
<1> DEFINE list == SetToSeq(pkgs)
           answer(c) == replies[CHOOSE i \in DOMAIN list : list[i] = c]
<1>1. /\ phase = "loading" /\ calls = <<>>
      /\ values' = [c \in Configs |-> IF c \in pkgs THEN answer(c) ELSE values[c]]
      /\ loaded' = loaded \cup pkgs /\ phase' = "idle" /\ pkgs' = {} /\ replies' = <<>>
      /\ names' = [c \in Configs |-> [s \in Sids |-> s]]
      /\ UNCHANGED <<creates, opened, changes, deletesAll, deletesOpt, reorder, newidx>>
      /\ UNCHANGED <<server, calls, stale, foreign, asked>>
  BY DEF LoadReply
<1>2. pkgs \in SUBSET Configs /\ IsSeq(replies) /\ Elements(replies) \subseteq Package
  BY <1>1 DEF SaveInv, SaveTypeOK, WireOK
<1>3. IsFiniteSet(pkgs) /\ Cardinality(pkgs) \in Nat
  BY <1>2, ConfigsAssumption, FS_Subset, FS_CardinalityType
<1>4. /\ DOMAIN list = 1 .. Cardinality(pkgs)
      /\ \A c \in pkgs : \E i \in 1 .. Cardinality(pkgs) : list[i] = c
  BY <1>3, SetListed
<1>5. DOMAIN replies = 1 .. Cardinality(pkgs)
  <2>1. Len(calls) + Len(replies) = Cardinality(pkgs)
    BY <1>1 DEF SaveInv, WireOK
  <2>2. Len(calls) = 0
    BY <1>1
  <2>3. Len(replies) \in Nat /\ DOMAIN replies = 1 .. Len(replies)
    BY <1>2, LenProperties DEF IsSeq
  <2> QED
    BY <2>1, <2>2, <2>3
<1> HIDE DEF list
<1>6. ASSUME NEW c \in pkgs PROVE answer(c) \in Package
  <2>1. (CHOOSE i \in DOMAIN list : list[i] = c) \in DOMAIN replies
    BY <1>4, <1>5
  <2> QED
    BY <1>2, <2>1 DEF Elements
<1> HIDE DEF answer
<1>7. TypeOK'
  <2>1. values' \in [Configs -> Package]
    BY <1>1, <1>6 DEF SaveInv, SaveTypeOK, TypeOK
  <2> QED
    BY <1>1, <1>2, <2>1 DEF SaveInv, SaveTypeOK, TypeOK
<1>8. Births'
  BY <1>1 DEF SaveInv, Births, Created
<1>9. WireOK'
  BY <1>1, NoElements DEF SaveInv, WireOK
<1>10. SaveTypeOK'
  BY <1>1, <1>7 DEF SaveInv, SaveTypeOK
<1> QED
  BY <1>1, <1>8, <1>9, <1>10 DEF SaveInv

LEMMA LoadGivenUpStep == SaveInv /\ LoadGivenUp => SaveInv'
<1> SUFFICES ASSUME SaveInv, LoadGivenUp PROVE SaveInv'
  OBVIOUS
<1>1. /\ phase' = "idle" /\ pkgs' = {} /\ calls' = <<>> /\ replies' = <<>>
      /\ names' = [c \in Configs |-> [s \in Sids |-> s]]
      /\ UNCHANGED vars /\ UNCHANGED <<server, stale, foreign, asked>>
  BY DEF LoadGivenUp
<1>2. WireOK'
  BY <1>1, NoCalls, NoElements DEF SaveInv, WireOK
<1>3. SaveTypeOK'
  BY <1>1, CacheKept DEF SaveInv, SaveTypeOK
<1> QED
  BY <1>1, <1>2, <1>3, CacheKept DEF SaveInv

LEMMA SaveStep == SaveInv /\ Save => SaveInv'
<1> SUFFICES ASSUME SaveInv, Save PROVE SaveInv'
  OBVIOUS
<1>1. /\ pkgs' = EditedPackages /\ phase' = "saving" /\ calls' = EditCalls /\ replies' = <<>>
      /\ asked' = asked \cup Edits
      /\ UNCHANGED vars /\ UNCHANGED <<server, stale, names, foreign>>
  BY DEF Save, Send, Edits
<1>2. EditedPackages \subseteq Configs
  BY DEF SaveInv, SaveTypeOK, TypeOK, EditedPackages, Changed, Deleted
<1>3. BatchOK(EditCalls, Edits) /\ \A call \in Elements(EditCalls) : call.op # "load"
  BY EditCallsOK DEF SaveInv, SaveTypeOK
<1>4. BatchOK(calls', asked') /\ BatchOK(stale', asked')
  BY <1>1, <1>3, MoreEdits DEF SaveInv, WireOK
<1>5. IsSeq(replies') /\ Elements(replies') = {}
  BY <1>1, NoElements
<1>6. WireOK'
  BY <1>1, <1>3, <1>4, <1>5 DEF WireOK
<1>7. SaveTypeOK'
  BY <1>1, <1>2, CacheKept DEF SaveInv, SaveTypeOK
<1> QED
  BY <1>1, <1>6, <1>7, CacheKept DEF SaveInv

\* The end of a save: the packages are dropped, and asked for again.
LEMMA ReloadStep ==
    ASSUME SaveInv, UnloadAndLoad, UNCHANGED <<server, pkgs, foreign, asked>>,
           BatchOK(stale', asked'), names' \in [Configs -> [Sids -> Sids \cup {None}]]
    PROVE  SaveInv'
<1>1. pkgs \in SUBSET Configs
  BY DEF SaveInv, SaveTypeOK
<1>2. Unload(pkgs) /\ phase' = "loading" /\ Send(LoadCalls(pkgs')) /\ pkgs' = pkgs
  BY DEF UnloadAndLoad
<1>3. TypeOK' /\ Births'
  BY <1>1, <1>2, CacheStep DEF Next
<1>4. WireOK'
  BY <1>1, <1>2, LoadsSent
<1>5. SaveTypeOK'
  BY <1>1, <1>2, <1>3 DEF SaveInv, SaveTypeOK
<1> QED
  BY <1>3, <1>4, <1>5 DEF SaveInv

LEMMA AnsweredStep ==
    ASSUME SaveInv, NEW responses, Elements(responses) \subseteq Sids \cup {None},
           Answered(responses), BatchOK(stale', asked')
    PROVE  SaveInv'
<1> DEFINE list  == Snew
           named == [c \in Configs |-> [s \in Sids |->
                       IF Created(c, s)
                       THEN LET i == CHOOSE i \in DOMAIN list : list[i] = <<c, s>>
                            IN  IF i \in DOMAIN responses THEN responses[i] ELSE None
                       ELSE s]]
<1>1. /\ names' = named
      /\ UNCHANGED <<server, pkgs, foreign, asked>>
      /\ \/ UnloadAndLoad
         \/ /\ phase' = "ordering" /\ Send(OrderCalls(named)) /\ reorder' = {}
            /\ UNCHANGED <<values, loaded, creates, opened, changes, deletesAll, deletesOpt, newidx>>
  BY DEF Answered
<1>2. named \in [Configs -> [Sids -> Sids \cup {None}]]
  <2>1. ASSUME NEW i PROVE (IF i \in DOMAIN responses THEN responses[i] ELSE None) \in Sids \cup {None}
    BY DEF Elements
  <2> QED
    BY <2>1
<1> HIDE DEF named
<1>3. CASE UnloadAndLoad
  BY <1>1, <1>2, <1>3, ReloadStep
<1>4. CASE /\ phase' = "ordering" /\ Send(OrderCalls(named)) /\ reorder' = {}
           /\ UNCHANGED <<values, loaded, creates, opened, changes, deletesAll, deletesOpt, newidx>>
  <2>1. calls' = OrderCalls(named) /\ replies' = <<>>
    BY <1>4 DEF Send
  <2>2. /\ BatchOK(OrderCalls(named), {})
        /\ \A call \in Elements(OrderCalls(named)) : call.op # "load"
    BY OrderCallsOK DEF SaveInv, SaveTypeOK
  <2>3. BatchOK(calls', asked')
    BY <2>1, <2>2, MoreEdits
  <2>4. IsSeq(replies') /\ Elements(replies') = {}
    BY <2>1, NoElements
  <2>5. WireOK'
    BY <1>4, <2>1, <2>2, <2>3, <2>4 DEF WireOK
  <2>6. TypeOK' /\ Births'
    BY <1>4 DEF SaveInv, SaveTypeOK, TypeOK, Births, Created
  <2>7. SaveTypeOK'
    BY <1>1, <1>2, <1>4, <2>6 DEF SaveInv, SaveTypeOK
  <2> QED
    BY <1>1, <2>5, <2>6, <2>7 DEF SaveInv
<1> QED
  BY <1>1, <1>3, <1>4

LEMMA SaveReplyStep == SaveInv /\ SaveReply => SaveInv'
<1> SUFFICES ASSUME SaveInv, SaveReply PROVE SaveInv'
  OBVIOUS
<1>1. Answered(replies) /\ UNCHANGED <<stale, asked>>
  BY DEF SaveReply, Answered
<1>2. Elements(replies) \subseteq Sids \cup {None} /\ BatchOK(stale', asked')
  BY <1>1 DEF SaveReply, SaveInv, WireOK
<1> QED
  BY <1>1, <1>2, AnsweredStep

LEMMA SaveGivenUpStep == SaveInv /\ SaveGivenUp => SaveInv'
<1> SUFFICES ASSUME SaveInv, SaveGivenUp PROVE SaveInv'
  OBVIOUS
<1>1. Answered(<<>>) /\ stale' = stale \o calls /\ asked' = asked
  BY DEF SaveGivenUp, Answered
<1>2. BatchOK(stale, asked) /\ BatchOK(calls, asked)
  BY DEF SaveInv, WireOK
<1>3. BatchOK(stale', asked')
  BY <1>1, <1>2, BatchesJoined
<1>4. Elements(<<>>) \subseteq Sids \cup {None}
  BY NoElements
<1> QED
  BY <1>1, <1>3, <1>4, AnsweredStep

LEMMA OrderReplyStep == SaveInv /\ OrderReply => SaveInv'
<1> SUFFICES ASSUME SaveInv, OrderReply PROVE SaveInv'
  OBVIOUS
<1>1. UnloadAndLoad /\ UNCHANGED <<server, stale, pkgs, names, foreign, asked>>
  BY DEF OrderReply, ghostVars
<1>2. BatchOK(stale', asked') /\ names' \in [Configs -> [Sids -> Sids \cup {None}]]
  BY <1>1 DEF SaveInv, SaveTypeOK, WireOK
<1> QED
  BY <1>1, <1>2, ReloadStep

LEMMA OrderGivenUpStep == SaveInv /\ OrderGivenUp => SaveInv'
<1> SUFFICES ASSUME SaveInv, OrderGivenUp PROVE SaveInv'
  OBVIOUS
<1>1. /\ UnloadAndLoad /\ stale' = stale \o calls
      /\ UNCHANGED <<server, pkgs, names, foreign, asked>>
  BY DEF OrderGivenUp
<1>2. BatchOK(stale, asked) /\ BatchOK(calls, asked)
  BY DEF SaveInv, WireOK
<1>3. BatchOK(stale', asked')
  BY <1>1, <1>2, BatchesJoined
<1>4. names' \in [Configs -> [Sids -> Sids \cup {None}]]
  BY <1>1 DEF SaveInv, SaveTypeOK
<1> QED
  BY <1>1, <1>3, <1>4, ReloadStep

LEMMA InvStep == SaveInv /\ [SaveNext]_allVars => SaveInv'
<1> SUFFICES ASSUME SaveInv, [SaveNext]_allVars PROVE SaveInv'
  OBVIOUS
<1>1. CASE Waiting
  BY <1>1, RouterRunsStep, RouterRefusesStep, LoadReplyStep, SaveReplyStep, OrderReplyStep,
     LoadGivenUpStep, SaveGivenUpStep, OrderGivenUpStep DEF Waiting
<1>2. ASSUME NEW packages \in SUBSET Configs, LoadPackages(packages) PROVE SaveInv'
  BY <1>2, LoadPackagesStep
<1>3. CASE UNCHANGED allVars
  <2>1. UNCHANGED vars /\ UNCHANGED <<server, phase, calls, replies, stale, pkgs, names, foreign, asked>>
    BY <1>3 DEF allVars, saveVars, wireVars, ghostVars
  <2>2. WireOK'
    BY <2>1 DEF SaveInv, WireOK
  <2>3. SaveTypeOK'
    BY <2>1, CacheKept DEF SaveInv, SaveTypeOK
  <2> QED
    BY <2>1, <2>2, <2>3, CacheKept DEF SaveInv
<1> QED
  BY <1>1, <1>2, <1>3, EditStep, SaveStep, RouterRunsStaleStep, RouterDropsStaleStep, ForeignEditStep
  DEF SaveNext

LEMMA SaveInvKept == SaveSpec => []SaveInv
BY InitInv, InvStep, PTL DEF SaveSpec

\* Whatever is edited, saved, loaded, refused, given up or changed by others, the
\* cache, the batches and the packages on the router keep their form: sections of
\* a package stand under names of their own, and every section has a name.
THEOREM SaveTyped == SaveSpec => []SaveTypeOK
BY SaveInvKept, PTL DEF SaveInv

-----------------------------------------------------------------------------
(* What saving leaves alone *)

\* A call that runs alters no option but of those the user edited.
LEMMA RunSpares ==
    ASSUME SaveInv, NEW batch, BatchOK(batch, asked), batch # <<>>,
           NEW effect \in Effects(Head(batch)),
           server' = [server EXCEPT ![Head(batch).conf] = effect.file],
           NEW c \in Configs
    PROVE  Spares(server[c], server'[c], {p \in Sids \X Options : <<c, p[1], p[2]>> \in asked})
<1> DEFINE call == Head(batch)
           mine == {p \in Sids \X Options : <<c, p[1], p[2]>> \in asked}
<1>1. CallOK(call) /\ AboutEdits(call, asked)
  BY BatchAfter
<1> HIDE DEF call
<1>2. ServerOK
  BY DEF SaveInv, SaveTypeOK, ServerOK
<1>3. EffectOK(call, effect) /\ call.conf \in Configs
  BY <1>1, <1>2, EffectsOK DEF ServerOK, CallOK, call
<1>4. /\ server'[call.conf] = effect.file
      /\ \A d \in Configs : d # call.conf => server'[d] = server[d]
  BY <1>2, <1>3, FileStored DEF EffectOK, call
<1>5. CASE c = call.conf
  <2>1. Spares(server[c], server'[c], Touches(call))
    BY <1>3, <1>4, <1>5 DEF EffectOK
  <2>2. \A s \in Sids, o \in Options : <<s, o>> \in Touches(call) => <<s, o>> \in mine
    BY <1>1, <1>5 DEF AboutEdits
  <2>3. NamesIn(server[c]) \subseteq Sids
    BY <1>2, NamesAreSids DEF ServerOK
  <2> HIDE DEF mine
  <2>4. Spares(server[c], server'[c], mine)
    BY <2>1, <2>2, <2>3, Zenon DEF Spares
  <2> QED
    BY <2>4 DEF mine
<1>6. CASE c # call.conf
  BY <1>4, <1>6 DEF Spares
<1> QED
  BY <1>5, <1>6

\* Whatever fails or is late, the calls of the client and of a batch that it has
\* given up alter no option that the user did not edit, and drop no section of it.
THEOREM OnlyAsked == SaveSpec => OnlyAskedChanges
<1> DEFINE Kept == foreign' = foreign =>
             \A c \in Configs, s \in Sids, o \in Options :
               LET now(file)   == file[At(file, s)].opts[o]
               IN  s \in NamesIn(server[c]) /\ <<c, s, o>> \notin asked =>
                     s \in NamesIn(server'[c]) /\ now(server'[c]) = now(server[c])
<1>1. SaveInv /\ [SaveNext]_allVars => Kept
  <2> SUFFICES ASSUME SaveInv, [SaveNext]_allVars, foreign' = foreign, NEW c \in Configs
               PROVE  Spares(server[c], server'[c], {p \in Sids \X Options : <<c, p[1], p[2]>> \in asked})
    BY DEF Spares
  <2>1. CASE RouterRuns
    BY <2>1, RunSpares DEF RouterRuns, SaveInv, WireOK
  <2>2. CASE RouterRunsStale
    BY <2>2, RunSpares DEF RouterRunsStale, SaveInv, WireOK
  <2>3. CASE ForeignEdit
    BY <2>3, ForeignEditStep
  <2>4. CASE server' = server
    BY <2>4 DEF Spares
  <2>5. RouterRuns \/ RouterRunsStale \/ ForeignEdit \/ server' = server
    <3>1. Edit => server' = server
      BY DEF Edit, saveVars
    <3>2. ASSUME NEW packages \in SUBSET Configs, LoadPackages(packages) PROVE server' = server
      BY <3>2 DEF LoadPackages
    <3>3. Save => server' = server
      BY DEF Save
    <3>4. RouterRefuses \/ LoadReply \/ OrderReply \/ LoadGivenUp \/ OrderGivenUp => server' = server
      BY DEF RouterRefuses, LoadReply, OrderReply, LoadGivenUp, OrderGivenUp
    <3>5. SaveReply \/ SaveGivenUp => server' = server
      BY DEF SaveReply, SaveGivenUp, Answered
    <3>6. RouterDropsStale => server' = server
      BY DEF RouterDropsStale
    <3>7. UNCHANGED allVars => server' = server
      BY DEF allVars, saveVars
    <3> QED
      BY <3>1, <3>2, <3>3, <3>4, <3>5, <3>6, <3>7 DEF SaveNext, Waiting
  <2> QED
    BY <2>1, <2>2, <2>3, <2>4, <2>5
<1> QED
  BY <1>1, SaveInvKept, PTL DEF SaveSpec, OnlyAskedChanges

\* The section of a package that stands under a name.
Sect(file, name) == file[At(file, name)]

LEMMA SectIs ==
    ASSUME NEW file, IsFile(file), NEW name \in NamesIn(file)
    PROVE  Sect(file, name) \in RouterSection /\ Sect(file, name).name = name
BY AtIs DEF Sect

LEMMA SectionsByName ==
    ASSUME NEW file, IsFile(file)
    PROVE  FileSections(file) = {Sect(file, s) : s \in NamesIn(file)}
<1>1. ASSUME NEW x \in FileSections(file) PROVE \E s \in NamesIn(file) : x = Sect(file, s)
  BY SameSection DEF Sect
<1>2. ASSUME NEW s \in NamesIn(file) PROVE Sect(file, s) \in FileSections(file)
  BY AtIs, FileMeans DEF FileSections, FileIs, Sect
<1> QED
  BY <1>1, <1>2

\* The sections of a router, by what they are made of.
LEMMA SectionMade ==
    ASSUME NEW x \in RouterSection
    PROVE  /\ x = [name |-> x.name, type |-> x.type, opts |-> x.opts]
           /\ x.type \in Types /\ x.opts \in [Options -> Values \cup {None}]
BY DEF RouterSection

LEMMA WithOptions ==
    ASSUME NEW x \in RouterSection, NEW opts \in [Options -> Values \cup {None}]
    PROVE  /\ [x EXCEPT !.opts = opts] = [name |-> x.name, type |-> x.type, opts |-> opts]
           /\ [x EXCEPT !.opts = opts] \in RouterSection
BY DEF RouterSection

\* A section more: those that were there stay as they are.
OneMore(file, more, name, new) ==
    /\ IsFile(more) /\ NamesIn(more) = NamesIn(file) \cup {name}
    /\ Sect(more, name) = new
    /\ \A s \in NamesIn(file) : Sect(more, s) = Sect(file, s)

OneLess(file, less, name) ==
    /\ IsFile(less) /\ NamesIn(less) = NamesIn(file) \ {name}
    /\ \A s \in NamesIn(less) : Sect(less, s) = Sect(file, s)

\* What adding a section that is not there makes of a package.
AddedSection(name, section) ==
    [name |-> name, type |-> section.type, opts |-> [o \in Options |-> Written(section.opts[o])]]

LEMMA NamesOfSections ==
    ASSUME NEW file, IsFile(file)
    PROVE  NamesIn(file) = {x.name : x \in FileSections(file)}
BY DEF NamesIn, FileSections

LEMMA AddedMore ==
    ASSUME NEW file, IsFile(file), NEW name \in Sids, name \notin NamesIn(file), NEW section \in Section
    PROVE  OneMore(file, Added(file, name, section), name, AddedSection(name, section))
<1> DEFINE new  == Added(file, name, section)
           made == AddedSection(name, section)
           opts == [o \in Options |-> Written(section.opts[o])]
<1>1. section.type \in Types /\ section.opts \in [Options -> Values \cup {None}]
  BY DEF Section
<1>2. Merged(Blank, section.opts) = opts
  BY <1>1, ValuesAssumption DEF Merged, Written, Blank
<1>3. opts \in [Options -> Values \cup {None}]
  BY <1>1, ValuesAssumption DEF Written
<1>4. new = Append(file, made) 
  BY <1>2 DEF Added, AddedSection
<1>5. made \in RouterSection /\ made.name = name
  BY <1>1, <1>3 DEF RouterSection, AddedSection
<1> HIDE DEF new, made
<1>6. FileIs(file)
  BY FileMeans
<1>7. /\ new \in Seq(RouterSection) /\ Len(new) = Len(file) + 1 /\ DOMAIN new = 1 .. Len(file) + 1
      /\ \A i \in 1 .. Len(file) : new[i] = file[i]
      /\ new[Len(file) + 1] = made
  BY <1>4, <1>5, <1>6, AppendProperties DEF FileIs
<1>8. \A i \in 1 .. Len(file) : file[i].name # name
  BY <1>6 DEF FileIs, NamesIn
<1>9. FileIs(new)
  BY <1>5, <1>6, <1>7, <1>8 DEF FileIs
<1>10. IsFile(new)
  BY <1>9, FileMeans
<1>11. FileSections(new) = FileSections(file) \cup {made}
  <2>1. ASSUME NEW x \in FileSections(new) PROVE x \in FileSections(file) \cup {made}
    BY <1>6, <1>7 DEF FileSections, FileIs
  <2>2. ASSUME NEW x \in FileSections(file) PROVE x \in FileSections(new)
    BY <1>6, <1>7 DEF FileSections, FileIs
  <2>3. made \in FileSections(new)
    BY <1>6, <1>7 DEF FileSections, FileIs
  <2> QED
    BY <2>1, <2>2, <2>3
<1>12. NamesIn(new) = NamesIn(file) \cup {name}
  BY <1>5, <1>10, <1>11, NamesOfSections
<1>13. Sect(new, name) = made
  BY <1>5, <1>10, <1>11, SameSection DEF Sect
<1>14. ASSUME NEW s \in NamesIn(file) PROVE Sect(new, s) = Sect(file, s)
  <2>1. Sect(file, s) \in FileSections(new) /\ Sect(file, s).name = s
    BY <1>11, SectIs, SectionsByName
  <2> QED
    BY <1>10, <2>1, SameSection DEF Sect
<1> QED
  BY <1>10, <1>12, <1>13, <1>14 DEF OneMore, new, made

LEMMA SetReplaced ==
    ASSUME NEW file, IsFile(file), NEW name \in NamesIn(file), NEW opts \in [Options -> Values \cup {None}]
    PROVE  Replaced(file, SetIn(file, name, opts), name,
                    [name |-> name, type |-> Sect(file, name).type,
                     opts |-> Merged(Sect(file, name).opts, opts)])
<1> DEFINE old  == file[At(file, name)]
           all  == Merged(old.opts, opts)
           made == [name |-> name, type |-> old.type, opts |-> all]
<1>1. old \in RouterSection /\ old.name = name
  BY AtIs
<1>2. all \in [Options -> Values \cup {None}]
  BY <1>1, SectionMade, MergedOptions
<1>3. SetIn(file, name, opts) = [file EXCEPT ![At(file, name)] = [old EXCEPT !.opts = all]]
  BY DEF SetIn
<1> HIDE DEF old, all
<1>4. [old EXCEPT !.opts = all] = made /\ made \in RouterSection
  BY <1>1, <1>2, WithOptions
<1>5. made.name = name
  OBVIOUS
<1> HIDE DEF made
<1>6. Replaced(file, SetIn(file, name, opts), name, made)
  <2> DEFINE new == SetIn(file, name, opts)
  <2>1. new = [file EXCEPT ![At(file, name)] = made]
    BY <1>3, <1>4
  <2> HIDE DEF new
  <2>2. Replaced(file, new, name, made)
    BY <1>4, <1>5, <2>1, OptionsIn
  <2> QED
    BY <2>2 DEF new
<1> QED
  BY <1>6 DEF made, old, all, Sect

LEMMA OptionsReplaced ==
    ASSUME NEW file, IsFile(file), NEW name \in NamesIn(file), NEW gone \in SUBSET Options
    PROVE  Replaced(file, OptionsDeletedIn(file, name, gone), name,
                    [name |-> name, type |-> Sect(file, name).type,
                     opts |-> [o \in Options |-> IF o \in gone THEN None ELSE Sect(file, name).opts[o]]])
<1> DEFINE old  == file[At(file, name)]
           all  == [o \in Options |-> IF o \in gone THEN None ELSE old.opts[o]]
           made == [name |-> name, type |-> old.type, opts |-> all]
<1>1. old \in RouterSection /\ old.name = name
  BY AtIs
<1>2. all \in [Options -> Values \cup {None}]
  BY <1>1 DEF RouterSection
<1>3. OptionsDeletedIn(file, name, gone) = [file EXCEPT ![At(file, name)] = [old EXCEPT !.opts = all]]
  BY DEF OptionsDeletedIn
<1> HIDE DEF old, all
<1>4. [old EXCEPT !.opts = all] = made /\ made \in RouterSection
  BY <1>1, <1>2, WithOptions
<1>5. made.name = name
  OBVIOUS
<1> HIDE DEF made
<1>6. Replaced(file, OptionsDeletedIn(file, name, gone), name, made)
  <2> DEFINE new == OptionsDeletedIn(file, name, gone)
  <2>1. new = [file EXCEPT ![At(file, name)] = made]
    BY <1>3, <1>4
  <2> HIDE DEF new
  <2>2. Replaced(file, new, name, made)
    BY <1>4, <1>5, <2>1, OptionsIn
  <2> QED
    BY <2>2 DEF new
<1> QED
  BY <1>6 DEF made, old, all, Sect

LEMMA DeletedLess ==
    ASSUME NEW file, IsFile(file), NEW name \in NamesIn(file)
    PROVE  OneLess(file, DeletedIn(file, name), name)
<1> DEFINE less == DeletedIn(file, name)
<1>1. FileIs(less) /\ FileSections(less) = FileSections(file) \ {Sect(file, name)}
  BY DeletedLacks DEF TakenOut, Sect
<1> HIDE DEF less
<1>2. IsFile(less)
  BY <1>1, FileMeans
<1>3. \A x \in FileSections(file) : x.name = name => x = Sect(file, name)
  BY SameSection DEF Sect
<1>4. Sect(file, name).name = name
  BY SectIs
<1>5. NamesIn(less) = NamesIn(file) \ {name}
  BY <1>1, <1>2, <1>3, <1>4, NamesOfSections
<1>6. ASSUME NEW s \in NamesIn(less) PROVE Sect(less, s) = Sect(file, s)
  <2>1. Sect(less, s) \in FileSections(file) /\ Sect(less, s).name = s
    BY <1>1, <1>2, SectIs, SectionsByName
  <2> QED
    BY <2>1, SameSection DEF Sect
<1> QED
  BY <1>2, <1>5, <1>6 DEF OneLess, less

\* The additions are listed one by one, in the order in which they were made.
LEMMA SnewInOrder ==
    ASSUME TypeOK, Births
    PROVE  LET n == Cardinality(Additions)
           IN  /\ n \in Nat /\ DOMAIN Snew = 1 .. n /\ Len(Snew) = n
               /\ \A i \in 1 .. n : Snew[i] \in Additions
               /\ \A e \in Additions : \E i \in 1 .. n : Snew[i] = e
               /\ \A i, j \in 1 .. n : i < j <=> AddedBefore(Snew[i], Snew[j])
               /\ \A i, j \in 1 .. n : Snew[i] = Snew[j] => i = j
<1> DEFINE R == {p \in Additions \X Additions : AddedBefore(p[1], p[2])}
           n == Cardinality(Additions)
<1>1. Orders(R, Additions)
  BY AdditionsOrdered
<1>2. IsFiniteSet(Additions)
  BY ConfigsAssumption, SidsAssumption, FS_Product, FS_Subset DEF Additions
<1>3. Snew = Sorted(Additions, R)
  BY DEF Snew
<1>4. \A e, f \in Additions : <<e, f>> \in R <=> AddedBefore(e, f)
  OBVIOUS
<1> HIDE DEF R
<1>5. /\ IsSeq(Snew) /\ DOMAIN Snew = 1 .. n
      /\ \A i \in 1 .. n : Snew[i] \in Additions
      /\ \A e \in Additions : \E i \in 1 .. n : Snew[i] = e
      /\ \A i, j \in 1 .. n : i < j <=> <<Snew[i], Snew[j]>> \in R
      /\ \A i, j \in 1 .. n : Snew[i] = Snew[j] => i = j
  BY <1>1, <1>2, <1>3, SortedLists
<1>6. n \in Nat
  BY <1>2, FS_CardinalityType
<1> HIDE DEF n
<1>7. Len(Snew) = n
  BY <1>5, <1>6, LenProperties DEF IsSeq
<1>8. \A i, j \in 1 .. n : i < j <=> AddedBefore(Snew[i], Snew[j])
  BY <1>4, <1>5
<1> QED
  BY <1>5, <1>6, <1>7, <1>8 DEF n

\* Each pair of a set is in its list, once.
Lists(list, S) ==
    LET n == Cardinality(S)
    IN  /\ n \in Nat /\ DOMAIN list = 1 .. n
        /\ \A i \in 1 .. n : list[i] \in S
        /\ \A e \in S : \E i \in 1 .. n : list[i] = e
        /\ \A i, j \in 1 .. n : list[i] = list[j] => i = j

LEMMA PairsOnce ==
    ASSUME NEW S \in SUBSET (Configs \X Sids)
    PROVE  Lists(SetToSeq(S), S)
<1>1. IsFiniteSet(S)
  BY ConfigsAssumption, SidsAssumption, FS_Product, FS_Subset
<1>2. Cardinality(S) \in Nat
  BY <1>1, FS_CardinalityType
<1> DEFINE list == SetToSeq(S)
           n    == Cardinality(S)
<1>3. /\ DOMAIN list = 1 .. n
      /\ \A i \in 1 .. n : list[i] \in S
      /\ \A i, j \in 1 .. n : list[i] = list[j] => i = j
      /\ \A x \in S : \E i \in 1 .. n : list[i] = x
  BY <1>1, SetListed
<1> HIDE DEF list, n
<1>4. n \in Nat
  BY <1>2 DEF n
<1> QED
  BY <1>3, <1>4 DEF Lists, list, n

\* The batch of a save, call by call.
AddsN    == Cardinality(Additions)
SetsN    == Cardinality(Changed)
DeletesN == Cardinality(Deleted)

Batch(edits) ==
    /\ Lists(Snew, Additions) /\ Lists(SetToSeq(Changed), Changed) /\ Lists(SetToSeq(Deleted), Deleted)
    /\ Len(edits) = AddsN + SetsN + DeletesN
    /\ \A i \in 1 .. AddsN : edits[i] = AddCall(Snew[i][1], Snew[i][2])
    /\ \A i \in 1 .. SetsN :
         edits[AddsN + i] = SetCall(SetToSeq(Changed)[i][1], SetToSeq(Changed)[i][2])
    /\ \A i \in 1 .. DeletesN :
         edits[AddsN + SetsN + i] = DeleteCall(SetToSeq(Deleted)[i][1], SetToSeq(Deleted)[i][2])

PartsAre(s, a, b, d) ==
    /\ Len(s) = Len(a) + Len(b) + Len(d)
    /\ \A i \in 1 .. Len(a) : s[i] = a[i]
    /\ \A i \in 1 .. Len(b) : s[Len(a) + i] = b[i]
    /\ \A i \in 1 .. Len(d) : s[Len(a) + Len(b) + i] = d[i]

LEMMA ThreeParts ==
    ASSUME NEW a, NEW b, NEW d, IsSeq(a), IsSeq(b), IsSeq(d), NEW s, s = a \o b \o d
    PROVE  PartsAre(s, a, b, d)
<1> DEFINE S == Elements(a) \cup Elements(b) \cup Elements(d)
           f == a \o b
<1>1. a \in Seq(S) /\ b \in Seq(S) /\ d \in Seq(S)
  BY SeqMonotonic DEF IsSeq
<1> HIDE DEF S
<1>2. Len(a) \in Nat /\ Len(b) \in Nat /\ Len(d) \in Nat
  BY <1>1, LenProperties
<1>3. /\ f \in Seq(S) /\ Len(f) = Len(a) + Len(b)
      /\ \A i \in 1 .. Len(a) + Len(b) : f[i] = IF i <= Len(a) THEN a[i] ELSE b[i - Len(a)]
  BY <1>1, ConcatProperties
<1>4. s = f \o d
  OBVIOUS
<1> HIDE DEF f
<1>5. /\ Len(s) = Len(f) + Len(d)
      /\ \A i \in 1 .. Len(f) + Len(d) : s[i] = IF i <= Len(f) THEN f[i] ELSE d[i - Len(f)]
  <2> DEFINE r == f \o d
  <2>1. /\ Len(r) = Len(f) + Len(d)
        /\ \A i \in 1 .. Len(f) + Len(d) : r[i] = IF i <= Len(f) THEN f[i] ELSE d[i - Len(f)]
    <3>1. f \in Seq(S) /\ d \in Seq(S)
      BY <1>1, <1>3
    <3>2. Len(f \o d) = Len(f) + Len(d)
      BY <3>1, ConcatProperties
    <3>3. ASSUME NEW i \in 1 .. Len(f) + Len(d)
          PROVE  r[i] = IF i <= Len(f) THEN f[i] ELSE d[i - Len(f)]
      BY <3>1, ConcatProperties
    <3> QED
      BY <3>2, <3>3
  <2> QED
    BY <1>4, <2>1
<1>6. Len(s) = Len(a) + Len(b) + Len(d)
  BY <1>2, <1>3, <1>5
<1>7. ASSUME NEW i \in 1 .. Len(a) PROVE s[i] = a[i]
  <2>1. i \in 1 .. Len(f) + Len(d) /\ i <= Len(f) /\ i \in 1 .. Len(a) + Len(b) /\ i <= Len(a)
    BY <1>2, <1>3
  <2> QED
    BY <1>3, <1>5, <2>1
<1>8. ASSUME NEW i \in 1 .. Len(b) PROVE s[Len(a) + i] = b[i]
  <2> DEFINE k == Len(a) + i
  <2>1. /\ k \in 1 .. Len(f) + Len(d) /\ k <= Len(f) /\ k \in 1 .. Len(a) + Len(b) /\ ~(k <= Len(a))
        /\ k - Len(a) = i
    BY <1>2, <1>3
  <2> HIDE DEF k
  <2>2. s[k] = b[i]
    BY <1>3, <1>5, <2>1
  <2> QED
    BY <2>2 DEF k
<1>9. ASSUME NEW i \in 1 .. Len(d) PROVE s[Len(a) + Len(b) + i] = d[i]
  <2> DEFINE k == Len(a) + Len(b) + i
  <2>1. k \in 1 .. Len(f) + Len(d) /\ ~(k <= Len(f)) /\ k - Len(f) = i
    BY <1>2, <1>3
  <2> HIDE DEF k
  <2>2. s[k] = d[i]
    BY <1>5, <2>1
  <2> QED
    BY <2>2 DEF k
<1> QED
  BY <1>6, <1>7, <1>8, <1>9 DEF PartsAre

LEMMA BatchIs ==
    ASSUME TypeOK, Births
    PROVE  Batch(EditCalls)
<1> DEFINE a == Calls(Snew, AddCall)
           b == Calls(SetToSeq(Changed), SetCall)
           d == Calls(SetToSeq(Deleted), DeleteCall)
<1>1. Lists(Snew, Additions) /\ Lists(SetToSeq(Changed), Changed) /\ Lists(SetToSeq(Deleted), Deleted)
  <2>1. Lists(Snew, Additions)
    BY SnewInOrder, Zenon DEF Lists
  <2>2. Changed \in SUBSET (Configs \X Sids) /\ Deleted \in SUBSET (Configs \X Sids)
    BY DEF Changed, Deleted
  <2> QED
    BY <2>1, <2>2, PairsOnce
<1>2. a = [i \in DOMAIN Snew |-> AddCall(Snew[i][1], Snew[i][2])]
  BY DEF Calls
<1>3. b = [i \in DOMAIN SetToSeq(Changed) |-> SetCall(SetToSeq(Changed)[i][1], SetToSeq(Changed)[i][2])]
  BY DEF Calls
<1>4. d = [i \in DOMAIN SetToSeq(Deleted) |-> DeleteCall(SetToSeq(Deleted)[i][1], SetToSeq(Deleted)[i][2])]
  BY DEF Calls
<1>5. EditCalls = a \o b \o d
  BY DEF EditCalls
<1> HIDE DEF a, b, d
<1>6. /\ AddsN \in Nat /\ DOMAIN Snew = 1 .. AddsN
      /\ SetsN \in Nat /\ DOMAIN SetToSeq(Changed) = 1 .. SetsN
      /\ DeletesN \in Nat /\ DOMAIN SetToSeq(Deleted) = 1 .. DeletesN
  BY <1>1 DEF Lists, AddsN, SetsN, DeletesN
<1>7. /\ DOMAIN a = 1 .. AddsN /\ a = [i \in 1 .. AddsN |-> a[i]]
      /\ DOMAIN b = 1 .. SetsN /\ b = [i \in 1 .. SetsN |-> b[i]]
      /\ DOMAIN d = 1 .. DeletesN /\ d = [i \in 1 .. DeletesN |-> d[i]]
  BY <1>2, <1>3, <1>4, <1>6
<1>8. IsSeq(a) /\ Len(a) = AddsN /\ IsSeq(b) /\ Len(b) = SetsN /\ IsSeq(d) /\ Len(d) = DeletesN
  BY <1>6, <1>7, FromOneOn
<1>9. /\ Len(EditCalls) = AddsN + SetsN + DeletesN
      /\ \A i \in 1 .. AddsN : EditCalls[i] = a[i]
      /\ \A i \in 1 .. SetsN : EditCalls[AddsN + i] = b[i]
      /\ \A i \in 1 .. DeletesN : EditCalls[AddsN + SetsN + i] = d[i]
  <2> DEFINE s == EditCalls
  <2>1. s = a \o b \o d
    BY <1>5
  <2> HIDE DEF s
  <2>2. PartsAre(s, a, b, d)
    BY <1>8, <2>1, ThreeParts, Zenon
  <2>3. Len(s) = AddsN + SetsN + DeletesN
    BY <1>8, <2>2 DEF PartsAre
  <2>4. \A i \in 1 .. AddsN : s[i] = a[i]
    BY <1>8, <2>2, Zenon DEF PartsAre
  <2>5. \A i \in 1 .. SetsN : s[AddsN + i] = b[i]
    BY <1>8, <2>2, Zenon DEF PartsAre
  <2>6. \A i \in 1 .. DeletesN : s[AddsN + SetsN + i] = d[i]
    BY <1>8, <2>2, Zenon DEF PartsAre
  <2> QED
    BY <2>3, <2>4, <2>5, <2>6 DEF s
<1>10. \A i \in 1 .. AddsN : EditCalls[i] = AddCall(Snew[i][1], Snew[i][2])
  BY <1>2, <1>6, <1>9
<1>11. \A i \in 1 .. SetsN :
         EditCalls[AddsN + i] = SetCall(SetToSeq(Changed)[i][1], SetToSeq(Changed)[i][2])
  BY <1>3, <1>6, <1>9
<1>12. \A i \in 1 .. DeletesN :
         EditCalls[AddsN + SetsN + i] = DeleteCall(SetToSeq(Deleted)[i][1], SetToSeq(Deleted)[i][2])
  BY <1>4, <1>6, <1>9
<1> QED
  BY <1>1, <1>9, <1>10, <1>11, <1>12 DEF Batch

\* How far the batch of a save has got, after n calls: whether the call for a section
\* of a list ran, if b calls come before those of the list.
Ran(list, b, e, n) == \E i \in DOMAIN list : list[i] = e /\ b + i <= n

AddRan(c, s, n)    == Ran(Snew, 0, <<c, s>>, n)
SetRan(c, s, n)    == Ran(SetToSeq(Changed), AddsN, <<c, s>>, n)
DeleteRan(c, s, n) == Ran(SetToSeq(Deleted), AddsN + SetsN, <<c, s>>, n)

\* The place of an addition in the batch, and of its answer.
PlaceIn(list, e) == CHOOSE i \in DOMAIN list : list[i] = e
Spot(c, s)       == PlaceIn(Snew, <<c, s>>)

\* The next call is one of the list, comes before them, or after.
RunsOne(list, b, e, n) ==
    /\ ~Ran(list, b, e, n)
    /\ \A x : Ran(list, b, x, n + 1) <=> Ran(list, b, x, n) \/ x = e

NoneRan(list, b, n) == \A x : ~Ran(list, b, x, n)

NoMoreRun(list, b, n) == \A x : Ran(list, b, x, n + 1) <=> Ran(list, b, x, n)

LEMMA RanNext ==
    ASSUME NEW list, NEW S, Lists(list, S), NEW b \in Nat, NEW n \in Nat
    PROVE  /\ \A k \in 1 .. Cardinality(S) : n + 1 = b + k => RunsOne(list, b, list[k], n)
           /\ n <= b => NoneRan(list, b, n)
           /\ b + Cardinality(S) <= n => NoMoreRun(list, b, n)
<1>1. /\ Cardinality(S) \in Nat /\ DOMAIN list = 1 .. Cardinality(S)
      /\ \A i, j \in 1 .. Cardinality(S) : list[i] = list[j] => i = j
  BY DEF Lists
<1>2. ASSUME NEW k \in 1 .. Cardinality(S), n + 1 = b + k PROVE RunsOne(list, b, list[k], n)
  <2>1. \A i \in 1 .. Cardinality(S) : b + i <= n + 1 <=> b + i <= n \/ i = k
    BY <1>1, <1>2
  <2>2. ~(b + k <= n)
    BY <1>1, <1>2
  <2> QED
    BY <1>1, <2>1, <2>2, Zenon DEF RunsOne, Ran
<1>3. ASSUME n <= b PROVE NoneRan(list, b, n)
  <2>1. \A i \in 1 .. Cardinality(S) : ~(b + i <= n)
    BY <1>1, <1>3
  <2> QED
    BY <1>1, <2>1, Zenon DEF NoneRan, Ran
<1>4. ASSUME b + Cardinality(S) <= n PROVE NoMoreRun(list, b, n)
  <2>1. \A i \in 1 .. Cardinality(S) : b + i <= n /\ b + i <= n + 1
    BY <1>1, <1>4
  <2> QED
    BY <1>1, <2>1, Zenon DEF NoMoreRun, Ran
<1> QED
  BY <1>2, <1>3, <1>4

LEMMA SpotIs ==
    ASSUME TypeOK, Births, NEW c \in Configs, NEW s \in Sids
    PROVE  /\ Created(c, s) => Spot(c, s) \in 1 .. AddsN /\ Snew[Spot(c, s)] = <<c, s>>
           /\ \A i \in 1 .. AddsN : Snew[i] = <<c, s>> => i = Spot(c, s) /\ Created(c, s)
           /\ \A n \in Nat : AddRan(c, s, n) <=> Created(c, s) /\ Spot(c, s) <= n
<1>1. /\ AddsN \in Nat /\ DOMAIN Snew = 1 .. AddsN
      /\ \A i \in 1 .. AddsN : Snew[i] \in Additions
      /\ \A e \in Additions : \E i \in 1 .. AddsN : Snew[i] = e
      /\ \A i, j \in 1 .. AddsN : Snew[i] = Snew[j] => i = j
  BY SnewInOrder DEF AddsN
<1>2. Created(c, s) => Spot(c, s) \in 1 .. AddsN /\ Snew[Spot(c, s)] = <<c, s>>
  <2>1. Created(c, s) => <<c, s>> \in Additions
    BY DEF Additions
  <2> QED
    BY <1>1, <2>1 DEF Spot, PlaceIn
<1>3. ASSUME NEW i \in 1 .. AddsN, Snew[i] = <<c, s>> PROVE Created(c, s)
  BY <1>1, <1>3 DEF Additions
<1>4. \A i \in 1 .. AddsN : Snew[i] = <<c, s>> => i = Spot(c, s) /\ Created(c, s)
  BY <1>1, <1>2, <1>3
<1>5. ASSUME NEW n \in Nat PROVE AddRan(c, s, n) <=> Created(c, s) /\ Spot(c, s) <= n
  <2>1. ASSUME AddRan(c, s, n) PROVE Created(c, s) /\ Spot(c, s) <= n
    <3>1. PICK i \in 1 .. AddsN : Snew[i] = <<c, s>> /\ 0 + i <= n
      BY <1>1, <2>1 DEF AddRan, Ran
    <3>2. i = Spot(c, s) /\ Created(c, s) /\ 0 + i = i
      BY <1>4, <3>1
    <3> QED
      BY <3>1, <3>2
  <2>2. ASSUME Created(c, s), Spot(c, s) <= n PROVE AddRan(c, s, n)
    <3>1. Spot(c, s) \in DOMAIN Snew /\ Snew[Spot(c, s)] = <<c, s>> /\ 0 + Spot(c, s) <= n
      BY <1>1, <1>2, <2>2
    <3> QED
      BY <3>1 DEF AddRan, Ran
  <2> QED
    BY <2>1, <2>2
<1> QED
  BY <1>2, <1>4, <1>5

\* What the next call of the batch is.
AddIsNext(c, s, n) ==
    /\ Created(c, s) /\ EditCalls[n + 1] = AddCall(c, s) /\ Spot(c, s) = n + 1
    /\ RunsOne(Snew, 0, <<c, s>>, n)
    /\ \A m \in {n, n + 1} : NoneRan(SetToSeq(Changed), AddsN, m) /\ NoneRan(SetToSeq(Deleted), AddsN + SetsN, m)

SetIsNext(c, s, n) ==
    /\ <<c, s>> \in Changed /\ EditCalls[n + 1] = SetCall(c, s)
    /\ NoMoreRun(Snew, 0, n)
    /\ RunsOne(SetToSeq(Changed), AddsN, <<c, s>>, n)
    /\ \A m \in {n, n + 1} : NoneRan(SetToSeq(Deleted), AddsN + SetsN, m)

DeleteIsNext(c, s, n) ==
    /\ <<c, s>> \in Deleted /\ EditCalls[n + 1] = DeleteCall(c, s)
    /\ NoMoreRun(Snew, 0, n) /\ NoMoreRun(SetToSeq(Changed), AddsN, n)
    /\ RunsOne(SetToSeq(Deleted), AddsN + SetsN, <<c, s>>, n)

LEMMA NextCall ==
    ASSUME TypeOK, Births, NEW n \in Nat, n < Len(EditCalls)
    PROVE  \E c \in Configs, s \in Sids :
              AddIsNext(c, s, n) \/ SetIsNext(c, s, n) \/ DeleteIsNext(c, s, n)
<1>1. Batch(EditCalls)
  BY BatchIs
<1> DEFINE sets    == SetToSeq(Changed)
           deletes == SetToSeq(Deleted)
<1>2. /\ Lists(Snew, Additions) /\ Lists(sets, Changed) /\ Lists(deletes, Deleted)
      /\ AddsN \in Nat /\ SetsN \in Nat /\ DeletesN \in Nat
      /\ Len(EditCalls) = AddsN + SetsN + DeletesN
  BY <1>1 DEF Batch, Lists, AddsN, SetsN, DeletesN
<1>3. /\ \A k \in 1 .. AddsN : n + 1 = 0 + k => RunsOne(Snew, 0, Snew[k], n)
      /\ 0 + AddsN <= n => NoMoreRun(Snew, 0, n)
  BY <1>2, RanNext DEF AddsN
<1>4. /\ \A k \in 1 .. SetsN : n + 1 = AddsN + k => RunsOne(sets, AddsN, sets[k], n)
      /\ AddsN + SetsN <= n => NoMoreRun(sets, AddsN, n)
  BY <1>2, RanNext DEF SetsN
<1>5. \A k \in 1 .. DeletesN : n + 1 = AddsN + SetsN + k => RunsOne(deletes, AddsN + SetsN, deletes[k], n)
  <2>1. AddsN + SetsN \in Nat
    BY <1>2
  <2> QED
    BY <1>2, <2>1, RanNext DEF DeletesN
<1>6. \A m \in Nat : m <= AddsN => NoneRan(sets, AddsN, m)
  BY <1>2, RanNext
<1>7. \A m \in Nat : m <= AddsN + SetsN => NoneRan(deletes, AddsN + SetsN, m)
  <2>1. AddsN + SetsN \in Nat
    BY <1>2
  <2> QED
    BY <1>2, <2>1, RanNext
<1>8. CASE n < AddsN
  <2>1. n + 1 \in 1 .. AddsN /\ n + 1 = 0 + (n + 1)
    BY <1>2, <1>8
  <2>2. Snew[n + 1] \in Additions /\ EditCalls[n + 1] = AddCall(Snew[n + 1][1], Snew[n + 1][2])
    BY <1>1, <2>1 DEF Batch, Lists, AddsN
  <2>3. PICK c \in Configs, s \in Sids : Snew[n + 1] = <<c, s>> /\ Created(c, s)
    BY <2>2 DEF Additions
  <2>4. RunsOne(Snew, 0, <<c, s>>, n) /\ Spot(c, s) = n + 1
    BY <1>3, <2>1, <2>3, SpotIs
  <2>5. \A m \in {n, n + 1} : m \in Nat /\ m <= AddsN /\ m <= AddsN + SetsN
    BY <1>2, <1>8
  <2>6. AddIsNext(c, s, n)
    BY <1>6, <1>7, <2>2, <2>3, <2>4, <2>5 DEF AddIsNext
  <2> QED
    BY <2>6
<1>9. CASE ~(n < AddsN) /\ n < AddsN + SetsN
  <2> DEFINE k == n + 1 - AddsN
  <2>1. k \in 1 .. SetsN /\ n + 1 = AddsN + k /\ 0 + AddsN <= n
    BY <1>2, <1>9
  <2> HIDE DEF k
  <2>2. sets[k] \in Changed /\ EditCalls[n + 1] = SetCall(sets[k][1], sets[k][2])
    BY <1>1, <2>1 DEF Batch, Lists, SetsN
  <2>3. PICK c \in Configs, s \in Sids : sets[k] = <<c, s>>
    <3>1. Changed \subseteq Configs \X Sids
      BY DEF Changed
    <3> QED
      BY <2>2, <3>1
  <2>4. RunsOne(sets, AddsN, <<c, s>>, n) /\ NoMoreRun(Snew, 0, n)
    BY <1>3, <1>4, <2>1, <2>3
  <2>5. \A m \in {n, n + 1} : m \in Nat /\ m <= AddsN + SetsN
    BY <1>2, <1>9
  <2>6. SetIsNext(c, s, n)
    BY <1>7, <2>2, <2>3, <2>4, <2>5 DEF SetIsNext
  <2> QED
    BY <2>6
<1>10. CASE ~(n < AddsN + SetsN)
  <2> DEFINE k == n + 1 - (AddsN + SetsN)
  <2>1. k \in 1 .. DeletesN /\ n + 1 = AddsN + SetsN + k /\ 0 + AddsN <= n /\ AddsN + SetsN <= n
    BY <1>2, <1>10
  <2> HIDE DEF k
  <2>2. deletes[k] \in Deleted /\ EditCalls[n + 1] = DeleteCall(deletes[k][1], deletes[k][2])
    BY <1>1, <2>1 DEF Batch, Lists, DeletesN
  <2>3. PICK c \in Configs, s \in Sids : deletes[k] = <<c, s>>
    <3>1. Deleted \subseteq Configs \X Sids
      BY DEF Deleted
    <3> QED
      BY <2>2, <3>1
  <2>4. RunsOne(deletes, AddsN + SetsN, <<c, s>>, n) /\ NoMoreRun(Snew, 0, n) /\ NoMoreRun(sets, AddsN, n)
    BY <1>3, <1>4, <1>5, <2>1, <2>3
  <2>5. DeleteIsNext(c, s, n)
    BY <2>2, <2>3, <2>4 DEF DeleteIsNext
  <2> QED
    BY <2>5
<1> QED
  BY <1>8, <1>9, <1>10

\* After the last call, every addition, change and deletion ran.
AllRan(n) ==
    \A c \in Configs, s \in Sids :
        /\ AddRan(c, s, n) <=> Created(c, s)
        /\ SetRan(c, s, n) <=> <<c, s>> \in Changed
        /\ DeleteRan(c, s, n) <=> <<c, s>> \in Deleted

LEMMA RanAll ==
    ASSUME NEW list, NEW S, Lists(list, S), NEW b \in Nat, NEW n \in Nat, b + Cardinality(S) <= n
    PROVE  \A x : Ran(list, b, x, n) <=> x \in S
<1>1. /\ Cardinality(S) \in Nat /\ DOMAIN list = 1 .. Cardinality(S)
      /\ \A i \in 1 .. Cardinality(S) : list[i] \in S
      /\ \A e \in S : \E i \in 1 .. Cardinality(S) : list[i] = e
  BY DEF Lists
<1>2. \A i \in 1 .. Cardinality(S) : b + i <= n
  BY <1>1
<1> QED
  BY <1>1, <1>2, Zenon DEF Ran

LEMMA BatchRan ==
    ASSUME TypeOK, Births
    PROVE  AllRan(Len(EditCalls))
<1>1. Batch(EditCalls)
  BY BatchIs
<1> DEFINE n == Len(EditCalls)
<1>2. /\ Lists(Snew, Additions) /\ Lists(SetToSeq(Changed), Changed) /\ Lists(SetToSeq(Deleted), Deleted)
      /\ AddsN \in Nat /\ SetsN \in Nat /\ DeletesN \in Nat
      /\ n = AddsN + SetsN + DeletesN
  BY <1>1 DEF Batch, Lists, AddsN, SetsN, DeletesN
<1> HIDE DEF n
<1>3. /\ n \in Nat /\ 0 + AddsN <= n /\ AddsN + SetsN <= n /\ AddsN + SetsN \in Nat
      /\ (AddsN + SetsN) + DeletesN <= n
  BY <1>2
<1>4. \A x : Ran(Snew, 0, x, n) <=> x \in Additions
  BY <1>2, <1>3, RanAll DEF AddsN
<1>5. \A x : Ran(SetToSeq(Changed), AddsN, x, n) <=> x \in Changed
  BY <1>2, <1>3, RanAll DEF SetsN
<1>6. \A x : Ran(SetToSeq(Deleted), AddsN + SetsN, x, n) <=> x \in Deleted
  BY <1>2, <1>3, RanAll DEF DeletesN
<1>7. \A c \in Configs, s \in Sids : <<c, s>> \in Additions <=> Created(c, s)
  BY DEF Additions
<1> QED
  BY <1>4, <1>5, <1>6, <1>7, Zenon DEF AllRan, AddRan, SetRan, DeleteRan, n

LEMMA NothingRan ==
    ASSUME TypeOK, Births, NEW c, NEW s
    PROVE  ~AddRan(c, s, 0) /\ ~SetRan(c, s, 0) /\ ~DeleteRan(c, s, 0)
<1>1. Batch(EditCalls)
  BY BatchIs
<1>2. /\ Lists(Snew, Additions) /\ Lists(SetToSeq(Changed), Changed) /\ Lists(SetToSeq(Deleted), Deleted)
      /\ AddsN \in Nat /\ SetsN \in Nat
  BY <1>1 DEF Batch, Lists, AddsN, SetsN
<1>3. 0 \in Nat /\ 0 <= 0 /\ 0 <= AddsN /\ 0 <= AddsN + SetsN /\ AddsN + SetsN \in Nat
  BY <1>2
<1>4. NoneRan(Snew, 0, 0) /\ NoneRan(SetToSeq(Changed), AddsN, 0)
  BY <1>2, <1>3, RanNext
<1>5. NoneRan(SetToSeq(Deleted), AddsN + SetsN, 0)
  BY <1>2, <1>3, RanNext
<1> QED
  BY <1>4, <1>5 DEF NoneRan, AddRan, SetRan, DeleteRan

\* A loaded section of a package after n calls of the batch of a save.
Stays(c, s, n) == Loaded(c, s) /\ ~(s \in deletesAll[c] /\ DeleteRan(c, s, n))

Kept(c, s, n) ==
    [name |-> s, type |-> values[c][s].type,
     opts |-> [o \in Options |->
                 IF o \in deletesOpt[c][s] /\ DeleteRan(c, s, n) THEN None
                 ELSE IF changes[c][s][o] # None /\ SetRan(c, s, n) THEN Written(changes[c][s][o])
                 ELSE values[c][s].opts[o]]]

\* An added one, under the name that the router answered with.
Given(c, s, answers) == answers[Spot(c, s)]
Made(c, s, answers)  == AddedSection(Given(c, s, answers), creates[c][s])

\* The package on the router after the calls that have these answers.
Names(c, answers) ==
    {s \in Sids : Stays(c, s, Len(answers))}
      \cup {Given(c, s, answers) : s \in {x \in Sids : AddRan(c, x, Len(answers))}}

Holds(c, file, answers) ==
    /\ NamesIn(file) = Names(c, answers)
    /\ \A s \in Sids : Stays(c, s, Len(answers)) => Sect(file, s) = Kept(c, s, Len(answers))
    /\ \A s \in Sids : AddRan(c, s, Len(answers)) =>
         /\ Sect(file, Given(c, s, answers)) = Made(c, s, answers)
         /\ Given(c, s, answers) \in Sids /\ ~Loaded(c, Given(c, s, answers))
         /\ \A t \in Sids : AddRan(c, t, Len(answers)) /\ Given(c, t, answers) = Given(c, s, answers) => t = s

\* The router named the anonymous sections, and those only.
NamedRight(answers) ==
    \A i \in DOMAIN Snew : i <= Len(answers) =>
        answers[i] \in IF Snew[i][2] \in Temps THEN Fresh ELSE {Snew[i][2]}

\* Only sections that are not loaded are created, with names of the user's.
Alone(c) == c \in loaded /\ \A s \in Sids : Loaded(c, s) => ~Created(c, s)

NamesAreUsers == \A c \in Configs, s \in Sids : Created(c, s) => s \notin Fresh

LEMMA GivenStays ==
    ASSUME TypeOK, Births, NEW c \in Configs, NEW s \in Sids,
           NEW answers, IsSeq(answers), AddRan(c, s, Len(answers)), NEW x
    PROVE  /\ Given(c, s, Append(answers, x)) = Given(c, s, answers)
           /\ Made(c, s, Append(answers, x)) = Made(c, s, answers)
<1> DEFINE n == Len(answers)
           S == Elements(answers) \cup {x}
           more == Append(answers, x)
<1>1. n \in Nat /\ answers \in Seq(S) /\ x \in S
  BY SeqMonotonic, LenProperties DEF IsSeq
<1> HIDE DEF S
<1>2. \A i \in 1 .. n : more[i] = answers[i]
  BY <1>1, AppendProperties
<1>3. Spot(c, s) \in 1 .. n
  <2>1. Created(c, s) /\ Spot(c, s) <= n
    BY <1>1, SpotIs
  <2>2. Spot(c, s) \in 1 .. AddsN /\ AddsN \in Nat
    BY <2>1, SpotIs, SnewInOrder DEF AddsN
  <2> QED
    BY <1>1, <2>1, <2>2
<1> HIDE DEF more
<1>4. more[Spot(c, s)] = answers[Spot(c, s)]
  BY <1>2, <1>3
<1> QED
  BY <1>4 DEF Given, Made, more

\* What a package keeps does not change with a call about another section.
SameRan(c, s, n) ==
    (SetRan(c, s, n + 1) <=> SetRan(c, s, n)) /\ (DeleteRan(c, s, n + 1) <=> DeleteRan(c, s, n))

LEMMA KeptSame ==
    ASSUME NEW c, NEW s, NEW n, SameRan(c, s, n)
    PROVE  (Stays(c, s, n + 1) <=> Stays(c, s, n)) /\ Kept(c, s, n + 1) = Kept(c, s, n)
BY DEF SameRan, Stays, Kept

LEMMA LongerByOne ==
    ASSUME NEW answers, IsSeq(answers), NEW x
    PROVE  /\ Len(answers) \in Nat /\ Len(Append(answers, x)) = Len(answers) + 1
           /\ Append(answers, x)[Len(answers) + 1] = x
<1> DEFINE S == Elements(answers) \cup {x}
<1>1. answers \in Seq(S) /\ x \in S
  BY SeqMonotonic DEF IsSeq
<1> HIDE DEF S
<1> QED
  BY <1>1, AppendProperties, LenProperties

LEMMA HoldsElsewhere ==
    ASSUME TypeOK, Births, NEW c \in Configs, NEW file, NEW answers, IsSeq(answers), NEW x,
           Holds(c, file, answers),
           \A s \in Sids : SameRan(c, s, Len(answers))
                           /\ (AddRan(c, s, Len(answers) + 1) <=> AddRan(c, s, Len(answers)))
    PROVE  Holds(c, file, Append(answers, x))
<1> DEFINE n == Len(answers)
           more == Append(answers, x)
<1>1. Len(more) = n + 1
  BY LongerByOne
<1>2. \A s \in Sids : AddRan(c, s, n) =>
         Given(c, s, more) = Given(c, s, answers) /\ Made(c, s, more) = Made(c, s, answers)
  BY GivenStays
<1>3. \A s \in Sids : (Stays(c, s, n + 1) <=> Stays(c, s, n)) /\ Kept(c, s, n + 1) = Kept(c, s, n)
  BY KeptSame
<1>4. \A s \in Sids : AddRan(c, s, n + 1) <=> AddRan(c, s, n)
  OBVIOUS
<1> HIDE DEF more
<1>5. Names(c, more) = Names(c, answers)
  BY <1>1, <1>2, <1>3, <1>4 DEF Names
<1>6. Holds(c, file, more)
  BY <1>1, <1>2, <1>3, <1>4, <1>5 DEF Holds
<1> QED
  BY <1>6 DEF more

\* The router adds a section.
LEMMA HoldsAdd ==
    ASSUME TypeOK, Births, NEW c \in Configs, NEW s \in Sids, NEW file, IsFile(file),
           NEW answers, IsSeq(answers), Holds(c, file, answers), AddIsNext(c, s, Len(answers)),
           NEW name \in Sids, name \notin NamesIn(file)
    PROVE  Holds(c, Added(file, name, creates[c][s]), Append(answers, name))
<1> DEFINE n    == Len(answers)
           more == Append(answers, name)
           new  == Added(file, name, creates[c][s])
<1>1. n \in Nat /\ Len(more) = n + 1 /\ more[n + 1] = name
  BY LongerByOne
<1>2. \A t \in Sids : AddRan(c, t, n) =>
         Given(c, t, more) = Given(c, t, answers) /\ Made(c, t, more) = Made(c, t, answers)
  BY GivenStays
<1> HIDE DEF more
<1>3. Created(c, s) /\ Spot(c, s) = n + 1
  BY DEF AddIsNext
<1>4. Given(c, s, more) = name
  BY <1>1, <1>3 DEF Given
<1>5. /\ ~AddRan(c, s, n)
      /\ \A t \in Sids : AddRan(c, t, n + 1) <=> AddRan(c, t, n) \/ t = s
  <2>1. \A t \in Sids : <<c, t>> = <<c, s>> <=> t = s
    OBVIOUS
  <2> QED
    BY <2>1, Zenon DEF AddIsNext, RunsOne, AddRan
<1>6. \A t \in Sids : SameRan(c, t, n)
  BY DEF AddIsNext, NoneRan, SameRan, SetRan, DeleteRan
<1>7. \A t \in Sids : (Stays(c, t, n + 1) <=> Stays(c, t, n)) /\ Kept(c, t, n + 1) = Kept(c, t, n)
  BY <1>6, KeptSame
<1>8. creates[c][s] \in Section
  BY <1>3 DEF TypeOK, Package, Created
<1>9. OneMore(file, new, name, AddedSection(name, creates[c][s]))
  BY <1>8, AddedMore
<1> HIDE DEF new
<1>10. /\ NamesIn(new) = NamesIn(file) \cup {name}
       /\ Sect(new, name) = Made(c, s, more)
       /\ \A x \in NamesIn(file) : Sect(new, x) = Sect(file, x)
  BY <1>4, <1>9 DEF OneMore, Made
<1>11. /\ \A t \in Sids : Stays(c, t, n) => t \in NamesIn(file)
       /\ \A t \in Sids : AddRan(c, t, n) => Given(c, t, answers) \in NamesIn(file)
  BY DEF Holds, Names
<1>12. ~Loaded(c, name)
  <2>1. ~DeleteRan(c, name, n)
    BY DEF AddIsNext, NoneRan, DeleteRan
  <2>2. Loaded(c, name) => Stays(c, name, n)
    BY <2>1 DEF Stays
  <2> QED
    BY <1>11, <2>2
<1>13. NamesIn(new) = Names(c, more)
  <2>1. NamesIn(file) = {t \in Sids : Stays(c, t, n)}
                          \cup {Given(c, t, answers) : t \in {x \in Sids : AddRan(c, x, n)}}
    BY DEF Holds, Names
  <2>2. Names(c, more) = {t \in Sids : Stays(c, t, n + 1)}
                          \cup {Given(c, t, more) : t \in {x \in Sids : AddRan(c, x, n + 1)}}
    BY <1>1 DEF Names
  <2>3. {t \in Sids : Stays(c, t, n + 1)} = {t \in Sids : Stays(c, t, n)}
    BY <1>7
  <2>4. {Given(c, t, more) : t \in {x \in Sids : AddRan(c, x, n + 1)}}
          = {Given(c, t, answers) : t \in {x \in Sids : AddRan(c, x, n)}} \cup {name}
    BY <1>2, <1>4, <1>5
  <2> QED
    BY <1>10, <2>1, <2>2, <2>3, <2>4
<1>14. ASSUME NEW t \in Sids, Stays(c, t, n + 1) PROVE Sect(new, t) = Kept(c, t, n + 1)
  BY <1>7, <1>10, <1>11, <1>14 DEF Holds
<1>15. ASSUME NEW t \in Sids, AddRan(c, t, n + 1)
       PROVE  /\ Sect(new, Given(c, t, more)) = Made(c, t, more)
              /\ Given(c, t, more) \in Sids /\ ~Loaded(c, Given(c, t, more))
  <2>1. CASE t = s
    BY <1>4, <1>10, <1>12, <2>1
  <2>2. CASE AddRan(c, t, n)
    BY <1>2, <1>10, <1>11, <2>2 DEF Holds
  <2> QED
    BY <1>5, <1>15, <2>1, <2>2
<1>16. ASSUME NEW t \in Sids, NEW x \in Sids, AddRan(c, t, n + 1), AddRan(c, x, n + 1),
              Given(c, x, more) = Given(c, t, more)
       PROVE  x = t
  <2>1. \A y \in Sids : AddRan(c, y, n) => Given(c, y, more) # name /\ Given(c, y, more) = Given(c, y, answers)
    BY <1>2, <1>11
  <2>2. CASE t = s /\ x # s
    BY <1>4, <1>5, <1>16, <2>1, <2>2
  <2>3. CASE x = s /\ t # s
    BY <1>4, <1>5, <1>16, <2>1, <2>3
  <2>4. CASE x # s /\ t # s
    BY <1>5, <1>16, <2>1, <2>4 DEF Holds
  <2> QED
    BY <2>2, <2>3, <2>4
<1>17. Holds(c, new, more)
  BY <1>1, <1>13, <1>14, <1>15, <1>16 DEF Holds
<1> QED
  BY <1>17 DEF new, more

\* What a loaded section keeps of itself as its changes and deletions run.
LEMMA KeptSet ==
    ASSUME TypeOK, OverlayOK, NEW c \in Configs, NEW s \in Sids, NEW n, SetIsNext(c, s, n)
    PROVE  /\ Stays(c, s, n) /\ Stays(c, s, n + 1)
           /\ Kept(c, s, n + 1) = [name |-> s, type |-> Kept(c, s, n).type,
                                   opts |-> Merged(Kept(c, s, n).opts, changes[c][s])]
<1>1. changes[c][s] # Blank
  BY DEF SetIsNext, Changed
<1>2. Loaded(c, s) /\ s \notin deletesAll[c]
  BY <1>1 DEF OverlayOK, PendingIsReal
<1>3. Stays(c, s, n) /\ Stays(c, s, n + 1)
  BY <1>2 DEF Stays
<1>4. ~SetRan(c, s, n) /\ SetRan(c, s, n + 1)
  BY DEF SetIsNext, RunsOne, SetRan
<1>5. ~DeleteRan(c, s, n) /\ ~DeleteRan(c, s, n + 1)
  BY DEF SetIsNext, NoneRan, DeleteRan
<1>6. values[c][s] \in Section
  BY <1>2 DEF TypeOK, Package, Loaded
<1>7. Kept(c, s, n).type = values[c][s].type /\ \A o \in Options : Kept(c, s, n).opts[o] = values[c][s].opts[o]
  BY <1>4, <1>5 DEF Kept
<1>8. Kept(c, s, n + 1) =
        [name |-> s, type |-> values[c][s].type,
         opts |-> [o \in Options |-> IF changes[c][s][o] = None THEN values[c][s].opts[o]
                                     ELSE Written(changes[c][s][o])]]
  BY <1>4, <1>5 DEF Kept
<1>9. Merged(Kept(c, s, n).opts, changes[c][s]) =
        [o \in Options |-> IF changes[c][s][o] = None THEN values[c][s].opts[o]
                           ELSE Written(changes[c][s][o])]
  BY <1>7 DEF Merged
<1> QED
  BY <1>3, <1>7, <1>8, <1>9

LEMMA KeptDelete ==
    ASSUME TypeOK, OverlayOK, NEW c \in Configs, NEW s \in Sids, NEW n, DeleteIsNext(c, s, n)
    PROVE  /\ Stays(c, s, n)
           /\ s \in deletesAll[c] => ~Stays(c, s, n + 1)
           /\ s \notin deletesAll[c] =>
                /\ Stays(c, s, n + 1)
                /\ Kept(c, s, n + 1) =
                     [name |-> s, type |-> Kept(c, s, n).type,
                      opts |-> [o \in Options |-> IF o \in deletesOpt[c][s] THEN None ELSE Kept(c, s, n).opts[o]]]
<1>1. s \in deletesAll[c] \/ deletesOpt[c][s] # {}
  BY DEF DeleteIsNext, Deleted
<1>2. Loaded(c, s)
  BY <1>1 DEF OverlayOK, PendingIsReal
<1>3. ~DeleteRan(c, s, n) /\ DeleteRan(c, s, n + 1)
  BY DEF DeleteIsNext, RunsOne, DeleteRan
<1>4. SetRan(c, s, n + 1) <=> SetRan(c, s, n)
  BY DEF DeleteIsNext, NoMoreRun, SetRan
<1>5. Stays(c, s, n) /\ (s \in deletesAll[c] => ~Stays(c, s, n + 1)) /\ (s \notin deletesAll[c] => Stays(c, s, n + 1))
  BY <1>2, <1>3 DEF Stays
<1> DEFINE written(o) == IF changes[c][s][o] # None /\ SetRan(c, s, n) THEN Written(changes[c][s][o])
                         ELSE values[c][s].opts[o]
<1>6. Kept(c, s, n).type = values[c][s].type /\ \A o \in Options : Kept(c, s, n).opts[o] = written(o)
  BY <1>3 DEF Kept
<1>7. Kept(c, s, n + 1) =
        [name |-> s, type |-> values[c][s].type,
         opts |-> [o \in Options |-> IF o \in deletesOpt[c][s] THEN None ELSE written(o)]]
  BY <1>3, <1>4 DEF Kept
<1> HIDE DEF written
<1> QED
  BY <1>5, <1>6, <1>7

\* Calls about a loaded section leave the added ones alone.
LEMMA AddedStay ==
    ASSUME TypeOK, Births, NEW c \in Configs, NEW s \in Sids, NEW file, NEW new,
           NEW answers, IsSeq(answers), Holds(c, file, answers),
           NoMoreRun(Snew, 0, Len(answers)), Loaded(c, s), NEW x,
           \A t \in NamesIn(file) : t # s => t \in NamesIn(new) /\ Sect(new, t) = Sect(file, t)
    PROVE  LET n    == Len(answers)
               more == Append(answers, x)
           IN  /\ \A t \in Sids : AddRan(c, t, n + 1) <=> AddRan(c, t, n)
               /\ \A t \in Sids : AddRan(c, t, n + 1) =>
                    /\ Given(c, t, more) = Given(c, t, answers)
                    /\ Sect(new, Given(c, t, more)) = Made(c, t, more)
                    /\ Given(c, t, more) \in Sids /\ ~Loaded(c, Given(c, t, more))
                    /\ \A y \in Sids : AddRan(c, y, n + 1) /\ Given(c, y, more) = Given(c, t, more) => y = t
<1> DEFINE n    == Len(answers)
           more == Append(answers, x)
<1>1. \A t \in Sids : AddRan(c, t, n + 1) <=> AddRan(c, t, n)
  BY DEF NoMoreRun, AddRan
<1>2. \A t \in Sids : AddRan(c, t, n) =>
         Given(c, t, more) = Given(c, t, answers) /\ Made(c, t, more) = Made(c, t, answers)
  BY GivenStays
<1> HIDE DEF more
<1>3. ASSUME NEW t \in Sids, AddRan(c, t, n)
      PROVE  /\ Sect(new, Given(c, t, more)) = Made(c, t, more)
             /\ Given(c, t, more) \in Sids /\ ~Loaded(c, Given(c, t, more))
  <2>1. /\ Sect(file, Given(c, t, answers)) = Made(c, t, answers)
        /\ Given(c, t, answers) \in Sids /\ ~Loaded(c, Given(c, t, answers))
        /\ Given(c, t, answers) \in NamesIn(file)
    BY <1>3 DEF Holds, Names
  <2>2. Given(c, t, answers) # s
    BY <2>1
  <2> QED
    BY <1>2, <1>3, <2>1, <2>2
<1>4. ASSUME NEW t \in Sids, NEW y \in Sids, AddRan(c, t, n), AddRan(c, y, n),
             Given(c, y, more) = Given(c, t, more)
      PROVE  y = t
  BY <1>2, <1>4 DEF Holds
<1> QED
  BY <1>1, <1>2, <1>3, <1>4 DEF more

\* Another section stands in the place of a loaded one.
LEMMA HoldsReplaced ==
    ASSUME TypeOK, Births, NEW c \in Configs, NEW s \in Sids, NEW file, NEW new,
           NEW answers, IsSeq(answers), Holds(c, file, answers),
           NoMoreRun(Snew, 0, Len(answers)), NEW x,
           Stays(c, s, Len(answers)), Stays(c, s, Len(answers) + 1),
           \A t \in Sids : t # s => SameRan(c, t, Len(answers)),
           Replaced(file, new, s, Kept(c, s, Len(answers) + 1))
    PROVE  Holds(c, new, Append(answers, x))
<1> DEFINE n    == Len(answers)
           more == Append(answers, x)
<1>1. Len(more) = n + 1
  BY LongerByOne
<1>2. /\ NamesIn(new) = NamesIn(file) /\ Sect(new, s) = Kept(c, s, n + 1)
      /\ \A t \in NamesIn(file) : t # s => t \in NamesIn(new) /\ Sect(new, t) = Sect(file, t)
  BY DEF Replaced, Sect
<1>3. Loaded(c, s)
  BY DEF Stays
<1>4. /\ \A t \in Sids : AddRan(c, t, n + 1) <=> AddRan(c, t, n)
      /\ \A t \in Sids : AddRan(c, t, n + 1) =>
           /\ Given(c, t, more) = Given(c, t, answers)
           /\ Sect(new, Given(c, t, more)) = Made(c, t, more)
           /\ Given(c, t, more) \in Sids /\ ~Loaded(c, Given(c, t, more))
           /\ \A y \in Sids : AddRan(c, y, n + 1) /\ Given(c, y, more) = Given(c, t, more) => y = t
  BY <1>2, <1>3, AddedStay
<1> HIDE DEF more
<1>5. \A t \in Sids : t # s => (Stays(c, t, n + 1) <=> Stays(c, t, n)) /\ Kept(c, t, n + 1) = Kept(c, t, n)
  BY KeptSame
<1>6. \A t \in Sids : Stays(c, t, n + 1) <=> Stays(c, t, n)
  BY <1>5
<1>7. NamesIn(new) = Names(c, more)
  <2>1. Names(c, more) = Names(c, answers)
    BY <1>1, <1>4, <1>6 DEF Names
  <2> QED
    BY <1>2, <2>1 DEF Holds
<1>8. ASSUME NEW t \in Sids, Stays(c, t, n + 1) PROVE Sect(new, t) = Kept(c, t, n + 1)
  <2>1. Stays(c, t, n) /\ t \in NamesIn(file) /\ Sect(file, t) = Kept(c, t, n)
    BY <1>6, <1>8 DEF Holds, Names
  <2> QED
    BY <1>2, <1>5, <2>1
<1>9. Holds(c, new, more)
  BY <1>1, <1>4, <1>7, <1>8 DEF Holds
<1> QED
  BY <1>9 DEF more

\* A loaded section is taken out.
LEMMA HoldsLess ==
    ASSUME TypeOK, Births, NEW c \in Configs, NEW s \in Sids, NEW file, NEW new,
           NEW answers, IsSeq(answers), Holds(c, file, answers),
           NoMoreRun(Snew, 0, Len(answers)), NEW x,
           Stays(c, s, Len(answers)), ~Stays(c, s, Len(answers) + 1),
           \A t \in Sids : t # s => SameRan(c, t, Len(answers)),
           OneLess(file, new, s)
    PROVE  Holds(c, new, Append(answers, x))
<1> DEFINE n    == Len(answers)
           more == Append(answers, x)
<1>1. Len(more) = n + 1
  BY LongerByOne
<1>2. /\ NamesIn(new) = NamesIn(file) \ {s}
      /\ \A t \in NamesIn(file) : t # s => t \in NamesIn(new) /\ Sect(new, t) = Sect(file, t)
  BY DEF OneLess
<1>3. Loaded(c, s)
  BY DEF Stays
<1>4. /\ \A t \in Sids : AddRan(c, t, n + 1) <=> AddRan(c, t, n)
      /\ \A t \in Sids : AddRan(c, t, n + 1) =>
           /\ Given(c, t, more) = Given(c, t, answers)
           /\ Sect(new, Given(c, t, more)) = Made(c, t, more)
           /\ Given(c, t, more) \in Sids /\ ~Loaded(c, Given(c, t, more))
           /\ \A y \in Sids : AddRan(c, y, n + 1) /\ Given(c, y, more) = Given(c, t, more) => y = t
  BY <1>2, <1>3, AddedStay
<1> HIDE DEF more
<1>5. \A t \in Sids : t # s => (Stays(c, t, n + 1) <=> Stays(c, t, n)) /\ Kept(c, t, n + 1) = Kept(c, t, n)
  BY KeptSame
<1>6. {t \in Sids : Stays(c, t, n + 1)} = {t \in Sids : Stays(c, t, n)} \ {s}
  BY <1>5
<1>7. NamesIn(new) = Names(c, more)
  <2>1. NamesIn(file) = {t \in Sids : Stays(c, t, n)}
                          \cup {Given(c, t, answers) : t \in {y \in Sids : AddRan(c, y, n)}}
    BY DEF Holds, Names
  <2>2. Names(c, more) = {t \in Sids : Stays(c, t, n + 1)}
                          \cup {Given(c, t, more) : t \in {y \in Sids : AddRan(c, y, n + 1)}}
    BY <1>1 DEF Names
  <2>3. {Given(c, t, more) : t \in {y \in Sids : AddRan(c, y, n + 1)}}
          = {Given(c, t, answers) : t \in {y \in Sids : AddRan(c, y, n)}}
    BY <1>4
  <2>4. s \notin {Given(c, t, more) : t \in {y \in Sids : AddRan(c, y, n + 1)}}
    BY <1>3, <1>4
  <2> QED
    BY <1>2, <1>6, <2>1, <2>2, <2>3, <2>4
<1>8. ASSUME NEW t \in Sids, Stays(c, t, n + 1) PROVE Sect(new, t) = Kept(c, t, n + 1)
  <2>1. t # s /\ Stays(c, t, n) /\ t \in NamesIn(file) /\ Sect(file, t) = Kept(c, t, n)
    BY <1>5, <1>8 DEF Holds, Names
  <2> QED
    BY <1>2, <1>5, <2>1
<1>9. Holds(c, new, more)
  BY <1>1, <1>4, <1>7, <1>8 DEF Holds
<1> QED
  BY <1>9 DEF more

LEMMA HoldsSet ==
    ASSUME TypeOK, Births, OverlayOK, NEW c \in Configs, NEW s \in Sids, NEW file, IsFile(file),
           NEW answers, IsSeq(answers), Holds(c, file, answers), SetIsNext(c, s, Len(answers)), NEW x
    PROVE  Holds(c, SetIn(file, s, changes[c][s]), Append(answers, x))
<1> DEFINE n   == Len(answers)
           new == SetIn(file, s, changes[c][s])
<1>1. /\ Stays(c, s, n) /\ Stays(c, s, n + 1)
      /\ Kept(c, s, n + 1) = [name |-> s, type |-> Kept(c, s, n).type,
                              opts |-> Merged(Kept(c, s, n).opts, changes[c][s])]
  BY KeptSet
<1>2. s \in NamesIn(file) /\ Sect(file, s) = Kept(c, s, n)
  BY <1>1 DEF Holds, Names
<1>3. changes[c][s] \in [Options -> Values \cup {None}]
  BY DEF TypeOK
<1>4. Replaced(file, new, s, Kept(c, s, n + 1))
  BY <1>1, <1>2, <1>3, SetReplaced
<1> HIDE DEF new
<1>5. NoMoreRun(Snew, 0, n)
  BY DEF SetIsNext
<1>6. ASSUME NEW t \in Sids, t # s PROVE SameRan(c, t, n)
  <2>1. <<c, t>> # <<c, s>>
    BY <1>6
  <2> QED
    BY <2>1, Zenon DEF SetIsNext, RunsOne, NoneRan, SameRan, SetRan, DeleteRan
<1>7. Holds(c, new, Append(answers, x))
  BY <1>1, <1>4, <1>5, <1>6, HoldsReplaced
<1> QED
  BY <1>7 DEF new

LEMMA HoldsDelete ==
    ASSUME TypeOK, Births, OverlayOK, NEW c \in Configs, NEW s \in Sids, NEW file, IsFile(file),
           NEW answers, IsSeq(answers), Holds(c, file, answers), DeleteIsNext(c, s, Len(answers)), NEW x
    PROVE  /\ s \in deletesAll[c] => Holds(c, DeletedIn(file, s), Append(answers, x))
           /\ s \notin deletesAll[c] =>
                Holds(c, OptionsDeletedIn(file, s, deletesOpt[c][s]), Append(answers, x))
<1> DEFINE n   == Len(answers)
           less == DeletedIn(file, s)
           new == OptionsDeletedIn(file, s, deletesOpt[c][s])
<1>1. /\ Stays(c, s, n)
      /\ s \in deletesAll[c] => ~Stays(c, s, n + 1)
      /\ s \notin deletesAll[c] =>
           /\ Stays(c, s, n + 1)
           /\ Kept(c, s, n + 1) =
                [name |-> s, type |-> Kept(c, s, n).type,
                 opts |-> [o \in Options |-> IF o \in deletesOpt[c][s] THEN None ELSE Kept(c, s, n).opts[o]]]
  BY KeptDelete
<1>2. s \in NamesIn(file) /\ Sect(file, s) = Kept(c, s, n)
  BY <1>1 DEF Holds, Names
<1>3. NoMoreRun(Snew, 0, n)
  BY DEF DeleteIsNext
<1>4. ASSUME NEW t \in Sids, t # s PROVE SameRan(c, t, n)
  <2>1. <<c, t>> # <<c, s>>
    BY <1>4
  <2> QED
    BY <2>1, Zenon DEF DeleteIsNext, RunsOne, NoMoreRun, SameRan, SetRan, DeleteRan
<1>5. ASSUME s \in deletesAll[c] PROVE Holds(c, less, Append(answers, x))
  <2>1. OneLess(file, less, s)
    BY <1>2, DeletedLess
  <2> HIDE DEF less
  <2> QED
    BY <1>1, <1>3, <1>4, <1>5, <2>1, HoldsLess
<1>6. ASSUME s \notin deletesAll[c] PROVE Holds(c, new, Append(answers, x))
  <2>1. deletesOpt[c][s] \in SUBSET Options
    BY DEF TypeOK
  <2>2. Replaced(file, new, s, Kept(c, s, n + 1))
    BY <1>1, <1>2, <1>6, <2>1, OptionsReplaced
  <2> HIDE DEF new
  <2> QED
    BY <1>1, <1>3, <1>4, <1>6, <2>2, HoldsReplaced
<1> QED
  BY <1>5, <1>6

\* A name of the user's that is added is not on the router.
LEMMA NameIsFree ==
    ASSUME TypeOK, Births, NamesAreUsers, NEW c \in Configs, NEW s \in Sids, NEW file, Alone(c),
           NEW answers, IsSeq(answers), NamedRight(answers), Holds(c, file, answers),
           AddIsNext(c, s, Len(answers)), s \notin Temps
    PROVE  s \notin NamesIn(file)
<1> DEFINE n == Len(answers)
<1>1. n \in Nat
  BY LenProperties DEF IsSeq
<1>2. Created(c, s) /\ Spot(c, s) = n + 1
  BY DEF AddIsNext
<1>3. ~Stays(c, s, n)
  BY <1>2 DEF Alone, Stays
<1>4. ASSUME NEW t \in Sids, AddRan(c, t, n) PROVE Given(c, t, answers) # s
  <2>1. /\ Created(c, t) /\ Spot(c, t) <= n
        /\ Spot(c, t) \in DOMAIN Snew /\ Snew[Spot(c, t)] = <<c, t>>
    BY <1>1, <1>4, SpotIs, SnewInOrder DEF AddsN
  <2>2. Given(c, t, answers) \in IF t \in Temps THEN Fresh ELSE {t}
    <3> DEFINE i == Spot(c, t)
    <3>1. i \in DOMAIN Snew /\ i <= n /\ Snew[i][2] = t
      BY <2>1
    <3> HIDE DEF i
    <3>2. answers[i] \in IF t \in Temps THEN Fresh ELSE {t}
      BY <3>1 DEF NamedRight
    <3> QED
      BY <3>2 DEF i, Given
  <2>3. t # s
    BY <1>1, <1>2, <2>1
  <2>4. s \notin Fresh
    BY <1>2 DEF NamesAreUsers
  <2> QED
    BY <2>2, <2>3, <2>4
<1> QED
  BY <1>3, <1>4 DEF Holds, Names

LEMMA RunHolds ==
    ASSUME TypeOK, Births, OverlayOK, NamesAreUsers,
           NEW answers, IsSeq(answers), NamedRight(answers), Len(answers) < Len(EditCalls),
           NEW c \in Configs, IsFile(server[c]), Alone(c), Holds(c, server[c], answers),
           NEW call, call = EditCalls[Len(answers) + 1], NEW effect \in Effects(call)
    PROVE  Holds(c, IF c = call.conf THEN effect.file ELSE server[c], Append(answers, effect.reply))
<1> DEFINE n == Len(answers)
           file == server[c]
<1>1. n \in Nat
  BY LenProperties DEF IsSeq
<1>2. PICK d \in Configs, s \in Sids : AddIsNext(d, s, n) \/ SetIsNext(d, s, n) \/ DeleteIsNext(d, s, n)
  BY <1>1, NextCall
<1>3. call.conf = d
  BY <1>2 DEF AddIsNext, SetIsNext, DeleteIsNext, AddCall, SetCall, DeleteCall
<1>4. CASE c # d
  <2>1. \A t \in Sids : <<c, t>> # <<d, s>>
    BY <1>4
  <2>2. \A t \in Sids : SameRan(c, t, n) /\ (AddRan(c, t, n + 1) <=> AddRan(c, t, n))
    BY <1>2, <2>1, Zenon DEF AddIsNext, SetIsNext, DeleteIsNext, RunsOne, NoneRan, NoMoreRun,
       SameRan, AddRan, SetRan, DeleteRan
  <2> QED
    BY <1>3, <1>4, <2>2, HoldsElsewhere
<1>5. CASE c = d /\ AddIsNext(c, s, n)
  <2>1. call.op = "add" /\ call.conf = c /\ call.sid = s /\ call.arg = creates[c][s]
    BY <1>5 DEF AddIsNext, AddCall
  <2>2. PICK name \in IF s \in Temps THEN Fresh \ NamesIn(file) ELSE {s} :
          effect = [file |-> Added(file, name, creates[c][s]), reply |-> name]
    BY <2>1 DEF Effects
  <2>3. name \in Sids /\ name \notin NamesIn(file)
    BY <1>5, <2>2, NameIsFree, FreshAssumption
  <2>4. Holds(c, Added(file, name, creates[c][s]), Append(answers, name))
    BY <1>5, <2>3, HoldsAdd
  <2>5. effect.file = Added(file, name, creates[c][s]) /\ effect.reply = name
    BY <2>2
  <2> QED
    BY <2>1, <2>4, <2>5
<1>6. CASE c = d /\ SetIsNext(c, s, n)
  <2>1. call.op = "set" /\ call.conf = c /\ call.sid = s /\ call.arg = changes[c][s]
    BY <1>6 DEF SetIsNext, SetCall
  <2>2. effect.file = SetIn(file, s, changes[c][s])
    BY <2>1 DEF Effects
  <2>3. Holds(c, SetIn(file, s, changes[c][s]), Append(answers, effect.reply))
    BY <1>6, HoldsSet
  <2> QED
    BY <2>1, <2>2, <2>3
<1>7. CASE c = d /\ DeleteIsNext(c, s, n)
  <2>1. CASE s \in deletesAll[c]
    <3>1. call.op = "delete" /\ call.conf = c /\ call.sid = s
      BY <1>7, <2>1 DEF DeleteIsNext, DeleteCall
    <3>2. effect.file = DeletedIn(file, s)
      BY <3>1 DEF Effects
    <3>3. Holds(c, DeletedIn(file, s), Append(answers, effect.reply))
      BY <1>7, <2>1, HoldsDelete
    <3> QED
      BY <3>1, <3>2, <3>3
  <2>2. CASE s \notin deletesAll[c]
    <3>1. call.op = "options" /\ call.conf = c /\ call.sid = s /\ call.arg = deletesOpt[c][s]
      BY <1>7, <2>2 DEF DeleteIsNext, DeleteCall
    <3>2. effect.file = OptionsDeletedIn(file, s, deletesOpt[c][s])
      BY <3>1 DEF Effects
    <3>3. Holds(c, OptionsDeletedIn(file, s, deletesOpt[c][s]), Append(answers, effect.reply))
      BY <1>7, <2>2, HoldsDelete
    <3> QED
      BY <3>1, <3>2, <3>3
  <2> QED
    BY <2>1, <2>2
<1> QED
  BY <1>2, <1>4, <1>5, <1>6, <1>7

LEMMA RunNamed ==
    ASSUME TypeOK, Births, NEW answers, IsSeq(answers), NamedRight(answers),
           Len(answers) < Len(EditCalls),
           NEW call, call = EditCalls[Len(answers) + 1], NEW effect \in Effects(call)
    PROVE  NamedRight(Append(answers, effect.reply))
<1> DEFINE n == Len(answers)
           more == Append(answers, effect.reply)
<1>1. n \in Nat /\ Len(more) = n + 1 /\ more[n + 1] = effect.reply
  BY LongerByOne
<1>2. \A i \in 1 .. n : more[i] = answers[i]
  <2> DEFINE S == Elements(answers) \cup {effect.reply}
  <2>1. answers \in Seq(S) /\ effect.reply \in S
    BY SeqMonotonic DEF IsSeq
  <2> HIDE DEF S
  <2> QED
    BY <2>1, AppendProperties
<1>3. DOMAIN Snew = 1 .. AddsN /\ AddsN \in Nat
  BY SnewInOrder DEF AddsN
<1> HIDE DEF more
<1> SUFFICES ASSUME NEW i \in 1 .. AddsN, i <= n + 1
             PROVE  more[i] \in IF Snew[i][2] \in Temps THEN Fresh ELSE {Snew[i][2]}
  BY <1>1, <1>3 DEF NamedRight, more
<1>4. CASE i <= n
  <2>1. i \in 1 .. n
    BY <1>1, <1>3, <1>4
  <2> QED
    BY <1>2, <1>3, <1>4, <2>1 DEF NamedRight
<1>5. CASE i = n + 1
  <2>1. Batch(EditCalls)
    BY BatchIs
  <2>2. call = AddCall(Snew[i][1], Snew[i][2])
    BY <1>5, <2>1 DEF Batch
  <2>3. call.op = "add" /\ call.sid = Snew[i][2]
    BY <2>2 DEF AddCall
  <2>4. effect.reply \in IF call.sid \in Temps THEN Fresh \ NamesIn(server[call.conf]) ELSE {call.sid}
    BY <2>3 DEF Effects
  <2> QED
    BY <1>1, <1>5, <2>3, <2>4
<1> QED
  BY <1>1, <1>3, <1>4, <1>5

-----------------------------------------------------------------------------
(* What a save makes of the packages *)

\* What the batch was answered with is what the views showed, under the names given.
NameFor(c, s, answers) == IF Created(c, s) THEN Given(c, s, answers) ELSE s

LEMMA BeforeOrders ==
    ASSUME TypeOK, Births, NEW c \in Configs,
           \A s, t \in Sids : Loaded(c, s) /\ Loaded(c, t) /\ values[c][s].birth = values[c][t].birth => s = t
    PROVE  LET listed == Listed(c, AnyType)
           IN  Orders({p \in listed \X listed : Before(c, p[1], p[2])}, listed)
<1> DEFINE listed == Listed(c, AnyType)
           R == {p \in listed \X listed : Before(c, p[1], p[2])}
<1>1. \A s, t \in listed : <<s, t>> \in R <=> Before(c, s, t)
  OBVIOUS
<1>2. \A s \in listed : s \in Sids /\ (Created(c, s) \/ Loaded(c, s))
  BY DEF Listed
<1>3. \A s \in listed : Entry(c, s).index \in Nat /\ Entry(c, s).birth \in Nat
  <2>1. ASSUME NEW s \in listed PROVE Entry(c, s) \in Section
    BY <1>2, EntryIsSection DEF Exists
  <2> QED
    BY <2>1 DEF Section
<1> HIDE DEF R, listed
<1>4. ASSUME NEW s \in listed PROVE ~Before(c, s, s)
  BY <1>3 DEF Before
<1>5. ASSUME NEW s \in listed, NEW t \in listed, NEW x \in listed, Before(c, s, t), Before(c, t, x)
      PROVE  Before(c, s, x)
  <2>1. /\ Entry(c, s).index \in Nat /\ Entry(c, s).birth \in Nat
        /\ Entry(c, t).index \in Nat /\ Entry(c, t).birth \in Nat
        /\ Entry(c, x).index \in Nat /\ Entry(c, x).birth \in Nat
    BY <1>3
  <2> QED
    BY <1>5, <2>1 DEF Before
<1>6. ASSUME NEW s \in listed, NEW t \in listed PROVE s = t \/ Before(c, s, t) \/ Before(c, t, s)
  <2>1. /\ Entry(c, s).index \in Nat /\ Entry(c, s).birth \in Nat
        /\ Entry(c, t).index \in Nat /\ Entry(c, t).birth \in Nat
    BY <1>3
  <2>2. (Created(c, s) <=> Created(c, t)) /\ Entry(c, s).birth = Entry(c, t).birth => s = t
    BY <1>2 DEF Entry, Births
  <2> QED
    BY <2>1, <2>2 DEF Before
<1>7. Orders(R, listed)
  BY <1>1, <1>4, <1>5, <1>6 DEF Orders
<1> QED
  BY <1>7 DEF R, listed

LEMMA ListingLists ==
    ASSUME TypeOK, Births, NEW c \in Configs,
           \A s, t \in Sids : Loaded(c, s) /\ Loaded(c, t) /\ values[c][s].birth = values[c][t].birth => s = t
    PROVE  LET n == Cardinality(Listed(c, AnyType))
           IN  /\ n \in Nat /\ DOMAIN Listing(c) = 1 .. n
               /\ \A i \in 1 .. n : Listing(c)[i] \in Listed(c, AnyType)
               /\ \A s \in Listed(c, AnyType) : \E i \in 1 .. n : Listing(c)[i] = s
               /\ \A i, j \in 1 .. n : i < j <=> Before(c, Listing(c)[i], Listing(c)[j])
               /\ \A i, j \in 1 .. n : Listing(c)[i] = Listing(c)[j] => i = j
<1> DEFINE listed == Listed(c, AnyType)
           R == {p \in listed \X listed : Before(c, p[1], p[2])}
           n == Cardinality(listed)
           list == Listing(c)
<1>1. Orders(R, listed)
  BY BeforeOrders
<1>2. IsFiniteSet(listed)
  BY SidsAssumption, FS_Subset DEF Listed
<1>3. list = Sorted(listed, R)
  BY DEF Listing
<1>4. \A s, t \in listed : <<s, t>> \in R <=> Before(c, s, t)
  OBVIOUS
<1> HIDE DEF R, list, listed
<1>5. /\ DOMAIN list = 1 .. n
      /\ \A i \in 1 .. n : list[i] \in listed
      /\ \A s \in listed : \E i \in 1 .. n : list[i] = s
      /\ \A i, j \in 1 .. n : i < j <=> <<list[i], list[j]>> \in R
      /\ \A i, j \in 1 .. n : list[i] = list[j] => i = j
  BY <1>1, <1>2, <1>3, SortedLists
<1>6. n \in Nat
  BY <1>2, FS_CardinalityType
<1> HIDE DEF n
<1>7. \A i, j \in 1 .. n : i < j <=> Before(c, list[i], list[j])
  BY <1>4, <1>5
<1> QED
  BY <1>5, <1>6, <1>7 DEF n, list, listed

\* What a section that is shown is on the router when all calls ran.
Saved(c, s, answers) == [Shows(c, s) EXCEPT !.name = NameFor(c, s, answers)]

LEMMA SavedIs ==
    ASSUME TypeOK, Births, OverlayOK, NEW c \in Configs, NEW s \in Sids, Alone(c),
           NEW answers, NEW n, AllRan(n)
    PROVE  /\ Saved(c, s, answers) = [name |-> NameFor(c, s, answers), type |-> Shows(c, s).type,
                                      opts |-> Shows(c, s).opts]
           /\ Created(c, s) => Saved(c, s, answers) = Made(c, s, answers)
           /\ Stays(c, s, n) => Saved(c, s, answers) = Kept(c, s, n) /\ NameFor(c, s, answers) = s
           /\ Stays(c, s, n) <=> Loaded(c, s) /\ s \notin deletesAll[c]
<1> DEFINE opts == [o \in Options |-> IF Edited(c, s, o) THEN Written(Get(c, s, o)) ELSE Get(c, s, o)]
           type == Entry(c, s).type
           name == NameFor(c, s, answers)
<1>1. Shows(c, s) = [name |-> s, type |-> type, opts |-> opts]
  BY DEF Shows
<1> HIDE DEF opts, type, name
<1>2. Saved(c, s, answers) = [name |-> name, type |-> type, opts |-> opts]
  BY <1>1 DEF Saved, name
<1>3. Shows(c, s).type = type /\ Shows(c, s).opts = opts
  BY <1>1
<1>4. ASSUME Created(c, s) PROVE Saved(c, s, answers) = Made(c, s, answers)
  <2>1. opts = [o \in Options |-> Written(creates[c][s].opts[o])]
    BY <1>4 DEF opts, Edited, Get
  <2>2. type = creates[c][s].type /\ name = Given(c, s, answers)
    BY <1>4 DEF type, name, Entry, NameFor
  <2> QED
    BY <1>2, <2>1, <2>2 DEF Made, AddedSection
<1>5. Stays(c, s, n) <=> Loaded(c, s) /\ s \notin deletesAll[c]
  <2>1. s \in deletesAll[c] => <<c, s>> \in Deleted
    BY DEF Deleted
  <2> QED
    BY <2>1 DEF Stays, AllRan
<1>6. ASSUME Stays(c, s, n) PROVE Saved(c, s, answers) = Kept(c, s, n) /\ name = s
  <2>1. ~Created(c, s) /\ s \notin deletesAll[c] /\ Loaded(c, s)
    BY <1>5, <1>6 DEF Alone
  <2>2. type = values[c][s].type /\ name = s
    BY <2>1 DEF type, name, Entry, NameFor
  <2>3. \A o \in Options : o \in deletesOpt[c][s] => DeleteRan(c, s, n)
    BY DEF AllRan, Deleted
  <2>4. \A o \in Options : changes[c][s][o] # None => SetRan(c, s, n)
    BY DEF AllRan, Changed, Blank
  <2>5. Written(None) = None
    BY ValuesAssumption DEF Written
  <2>6. ASSUME NEW o \in Options
        PROVE  (IF Edited(c, s, o) THEN Written(Get(c, s, o)) ELSE Get(c, s, o)) =
               IF o \in deletesOpt[c][s] /\ DeleteRan(c, s, n) THEN None
               ELSE IF changes[c][s][o] # None /\ SetRan(c, s, n) THEN Written(changes[c][s][o])
               ELSE values[c][s].opts[o]
    <3>1. CASE o \in deletesOpt[c][s]
      BY <2>1, <2>3, <2>5, <3>1 DEF Edited, Get
    <3>2. CASE o \notin deletesOpt[c][s] /\ changes[c][s][o] # None
      BY <2>1, <2>4, <3>2 DEF Edited, Get
    <3>3. CASE o \notin deletesOpt[c][s] /\ changes[c][s][o] = None
      BY <2>1, <3>3 DEF Edited, Get
    <3> QED
      BY <3>1, <3>2, <3>3
  <2>7. opts = Kept(c, s, n).opts
    BY <2>6, Zenon DEF opts, Kept
  <2>8. Kept(c, s, n) = [name |-> s, type |-> values[c][s].type, opts |-> Kept(c, s, n).opts]
    BY DEF Kept
  <2> QED
    BY <1>2, <2>2, <2>7, <2>8
<1> QED
  BY <1>2, <1>3, <1>4, <1>5, <1>6 DEF name

LEMMA AllSaved ==
    ASSUME TypeOK, Births, OverlayOK, NEW c \in Configs, Alone(c),
           NEW answers, AllRan(Len(answers)), NEW file, IsFile(file), Holds(c, file, answers)
    PROVE  FileSections(file) = {Saved(c, s, answers) : s \in Listed(c, AnyType)}
<1> DEFINE n == Len(answers)
<1>1. ASSUME NEW s \in Sids
      PROVE  /\ s \in Listed(c, AnyType) <=> AddRan(c, s, n) \/ Stays(c, s, n)
             /\ AddRan(c, s, n) => Sect(file, Given(c, s, answers)) = Saved(c, s, answers)
             /\ Stays(c, s, n) => Sect(file, s) = Saved(c, s, answers)
  <2>1. AddRan(c, s, n) <=> Created(c, s)
    BY DEF AllRan
  <2>2. /\ Created(c, s) => Saved(c, s, answers) = Made(c, s, answers)
        /\ Stays(c, s, n) => Saved(c, s, answers) = Kept(c, s, n)
        /\ Stays(c, s, n) <=> Loaded(c, s) /\ s \notin deletesAll[c]
    BY SavedIs
  <2>3. s \in Listed(c, AnyType) <=> Created(c, s) \/ (Loaded(c, s) /\ s \notin deletesAll[c])
    BY DEF Listed, Alone
  <2> QED
    BY <2>1, <2>2, <2>3 DEF Holds
<1>2. NamesIn(file) = {s \in Sids : Stays(c, s, n)}
                        \cup {Given(c, s, answers) : s \in {x \in Sids : AddRan(c, x, n)}}
  BY DEF Holds, Names
<1>3. FileSections(file) = {Sect(file, s) : s \in NamesIn(file)}
  BY SectionsByName
<1>4. ASSUME NEW x \in NamesIn(file) PROVE \E s \in Listed(c, AnyType) : Sect(file, x) = Saved(c, s, answers)
  <2>1. CASE x \in Sids /\ Stays(c, x, n)
    BY <1>1, <2>1
  <2>2. ASSUME NEW s \in Sids, AddRan(c, s, n), x = Given(c, s, answers)
        PROVE  \E t \in Listed(c, AnyType) : Sect(file, x) = Saved(c, t, answers)
    BY <1>1, <2>2
  <2> QED
    BY <1>2, <1>4, <2>1, <2>2
<1>5. ASSUME NEW s \in Listed(c, AnyType) PROVE \E x \in NamesIn(file) : Sect(file, x) = Saved(c, s, answers)
  <2>1. s \in Sids
    BY DEF Listed
  <2> QED
    BY <1>1, <1>2, <2>1
<1> QED
  BY <1>3, <1>4, <1>5

\* What is to be saved.
AsSaved(c) == {[before[c][i] EXCEPT !.name = names[c][@]] : i \in DOMAIN before[c]}

SavedAs(list, named) == {[list[i] EXCEPT !.name = named[@]] : i \in DOMAIN list}

Views(c) == [i \in DOMAIN Listing(c) |-> Shows(c, Listing(c)[i])]

LEMMA SavedAsListed ==
    ASSUME TypeOK, Births, NEW c \in Configs,
           \A s, t \in Sids : Loaded(c, s) /\ Loaded(c, t) /\ values[c][s].birth = values[c][t].birth => s = t,
           NEW answers, NEW named, \A s \in Sids : named[s] = NameFor(c, s, answers)
    PROVE  SavedAs(Views(c), named) = {Saved(c, s, answers) : s \in Listed(c, AnyType)}
<1> DEFINE n == Cardinality(Listed(c, AnyType))
           list == Listing(c)
           listed == Listed(c, AnyType)
<1>1. /\ DOMAIN list = 1 .. n
      /\ \A i \in 1 .. n : list[i] \in listed
      /\ \A s \in listed : \E i \in 1 .. n : list[i] = s
  BY ListingLists
<1>2. listed \subseteq Sids
  BY DEF Listed
<1>3. DOMAIN Views(c) = 1 .. n /\ \A i \in 1 .. n : Views(c)[i] = Shows(c, list[i])
  BY <1>1 DEF Views
<1> HIDE DEF list, listed, n
<1>4. ASSUME NEW i \in 1 .. n
      PROVE  [Views(c)[i] EXCEPT !.name = named[@]] = Saved(c, list[i], answers)
  <2>1. Views(c)[i] = Shows(c, list[i]) /\ list[i] \in Sids
    BY <1>1, <1>2, <1>3
  <2>2. Shows(c, list[i]).name = list[i]
    BY DEF Shows
  <2> QED
    BY <2>1, <2>2 DEF Saved
<1>5. SavedAs(Views(c), named) = {Saved(c, list[i], answers) : i \in 1 .. n}
  BY <1>3, <1>4 DEF SavedAs
<1>6. {Saved(c, list[i], answers) : i \in 1 .. n} = {Saved(c, s, answers) : s \in listed}
  BY <1>1
<1> QED
  BY <1>5, <1>6 DEF listed

\* While the cache stays as it is, so does what a save makes of it.
LEMMA BatchSame ==
    ASSUME UNCHANGED <<values, creates, changes, deletesAll, deletesOpt, opened>>
    PROVE  /\ Snew' = Snew /\ Changed' = Changed /\ Deleted' = Deleted
           /\ AddsN' = AddsN /\ SetsN' = SetsN /\ DeletesN' = DeletesN
           /\ EditCalls' = EditCalls /\ EditedPackages' = EditedPackages
<1>1. Additions' = Additions
  BY DEF Additions, Created
<1>2. Snew' = Snew
  <2>1. {p \in Additions \X Additions : AddedBefore(p[1], p[2])}'
          = {p \in Additions \X Additions : AddedBefore(p[1], p[2])}
    BY <1>1 DEF AddedBefore
  <2> DEFINE R == {p \in Additions \X Additions : AddedBefore(p[1], p[2])}
  <2>2. Snew = Sorted(Additions, R) /\ Snew' = Sorted(Additions', R')
    BY DEF Snew
  <2> QED
    BY <1>1, <2>1, <2>2
<1>3. Changed' = Changed /\ Deleted' = Deleted
  BY DEF Changed, Deleted
<1>4. EditedPackages' = EditedPackages
  BY <1>3 DEF EditedPackages
<1>5. Calls(Snew, AddCall)' = Calls(Snew, AddCall)
  BY <1>2 DEF Calls, AddCall
<1>6. Calls(SetToSeq(Changed), SetCall)' = Calls(SetToSeq(Changed), SetCall)
  BY <1>3 DEF Calls, SetCall
<1>7. Calls(SetToSeq(Deleted), DeleteCall)' = Calls(SetToSeq(Deleted), DeleteCall)
  BY <1>3 DEF Calls, DeleteCall
<1>8. EditCalls' = EditCalls
  BY <1>5, <1>6, <1>7 DEF EditCalls
<1> QED
  BY <1>1, <1>2, <1>3, <1>4, <1>8 DEF AddsN, SetsN, DeletesN

LEMMA RanSame ==
    ASSUME UNCHANGED <<values, creates, changes, deletesAll, deletesOpt, opened>>, NEW c, NEW s, NEW n, NEW answers
    PROVE  /\ (AddRan(c, s, n))' <=> AddRan(c, s, n)
           /\ (SetRan(c, s, n))' <=> SetRan(c, s, n)
           /\ (DeleteRan(c, s, n))' <=> DeleteRan(c, s, n)
           /\ (Stays(c, s, n))' <=> Stays(c, s, n)
           /\ Kept(c, s, n)' = Kept(c, s, n)
           /\ Spot(c, s)' = Spot(c, s)
           /\ Given(c, s, answers)' = Given(c, s, answers)
           /\ Made(c, s, answers)' = Made(c, s, answers)
<1>1. Snew' = Snew /\ Changed' = Changed /\ Deleted' = Deleted /\ AddsN' = AddsN /\ SetsN' = SetsN
  BY BatchSame
<1>2. (AddRan(c, s, n))' <=> AddRan(c, s, n)
  BY <1>1 DEF AddRan
<1>3. (SetRan(c, s, n))' <=> SetRan(c, s, n)
  BY <1>1 DEF SetRan
<1>4. (DeleteRan(c, s, n))' <=> DeleteRan(c, s, n)
  BY <1>1 DEF DeleteRan
<1>5. (Stays(c, s, n))' <=> Stays(c, s, n)
  BY <1>4 DEF Stays, Loaded
<1>6. Kept(c, s, n)' = Kept(c, s, n)
  BY <1>3, <1>4 DEF Kept
<1>7. Spot(c, s)' = Spot(c, s)
  BY <1>1 DEF Spot
<1>8. Given(c, s, answers)' = Given(c, s, answers)
  BY <1>7 DEF Given
<1>9. Made(c, s, answers)' = Made(c, s, answers)
  BY <1>8 DEF Made
<1> QED
  BY <1>2, <1>3, <1>4, <1>5, <1>6, <1>7, <1>8, <1>9

LEMMA HoldsSame ==
    ASSUME UNCHANGED <<values, creates, changes, deletesAll, deletesOpt, opened>>, NEW c, NEW file, NEW answers
    PROVE  /\ (Holds(c, file, answers))' <=> Holds(c, file, answers)
           /\ (NamedRight(answers))' <=> NamedRight(answers)
<1> DEFINE n == Len(answers)
<1>1. /\ \A s \in Sids : (AddRan(c, s, n))' <=> AddRan(c, s, n)
      /\ \A s \in Sids : (Stays(c, s, n))' <=> Stays(c, s, n)
      /\ \A s \in Sids : Kept(c, s, n)' = Kept(c, s, n)
      /\ \A s \in Sids : Given(c, s, answers)' = Given(c, s, answers)
      /\ \A s \in Sids : Made(c, s, answers)' = Made(c, s, answers)
  BY RanSame
<1>2. \A x : (Loaded(c, x))' <=> Loaded(c, x)
  BY DEF Loaded
<1>3. Names(c, answers)' = Names(c, answers)
  <2>1. {s \in Sids : Stays(c, s, n)}' = {s \in Sids : Stays(c, s, n)}
    BY <1>1
  <2>2. {x \in Sids : AddRan(c, x, n)}' = {x \in Sids : AddRan(c, x, n)}
    BY <1>1
  <2>3. {Given(c, s, answers) : s \in {x \in Sids : AddRan(c, x, n)}}'
          = {Given(c, s, answers) : s \in {x \in Sids : AddRan(c, x, n)}}
    BY <1>1, <2>2
  <2> QED
    BY <2>1, <2>3 DEF Names
<1>4. (Holds(c, file, answers))' <=> Holds(c, file, answers)
  <2>1. NamesIn(file)' = NamesIn(file) /\ \A s : Sect(file, s)' = Sect(file, s)
    BY DEF NamesIn, Sect, At
  <2> QED
    BY <1>1, <1>2, <1>3, <2>1 DEF Holds
<1>5. Snew' = Snew
  BY BatchSame
<1> QED
  BY <1>4, <1>5 DEF NamedRight

\* The sections of a package came in at different times, so that equal indices are
\* put in an order.
Apart(p) ==
    \A s, t \in Sids : p[s] # NoSection /\ p[t] # NoSection /\ p[s].birth = p[t].birth => s = t

\* What a save relies on of the cache.
CacheOK == OverlayOK /\ NamesAreUsers /\ \A c \in Configs : Apart(values[c])

LEMMA CacheSame == CacheOK /\ UNCHANGED vars => CacheOK'
<1> SUFFICES ASSUME CacheOK, UNCHANGED vars PROVE CacheOK'
  OBVIOUS
<1>1. OverlayOK'
  BY DEF vars, CacheOK, OverlayOK, NoConflict, PendingIsReal, Created, Loaded
<1>2. NamesAreUsers'
  BY DEF vars, CacheOK, NamesAreUsers, Created
<1> QED
  BY <1>1, <1>2 DEF vars, CacheOK, Apart

\* Sections that were in the cache before, and no loaded one anew.
NothingNew ==
    /\ \A c \in Configs, s \in Sids : Created(c, s)' => Created(c, s)
    /\ \A c \in Configs :
         values'[c] \in {values[c], EmptyPackage} \/ SameButIndex(values[c], values'[c])

LEMMA NothingNewStep ==
    ASSUME TypeOK, CacheOK, Next, NothingNew
    PROVE  CacheOK'
<1>1. OverlayOK'
  BY OverlayStep DEF CacheOK
<1>2. NamesAreUsers'
  BY DEF CacheOK, NamesAreUsers, NothingNew
<1>3. ASSUME NEW c \in Configs PROVE Apart(values'[c])
  <2>1. Apart(values[c])
    BY DEF CacheOK
  <2>2. CASE values'[c] = EmptyPackage
    BY <2>2 DEF EmptyPackage, Apart
  <2>3. CASE SameButIndex(values[c], values'[c])
    BY <2>1, <2>3 DEF SameButIndex, Apart
  <2> QED
    BY <2>1, <2>2, <2>3 DEF NothingNew
<1>4. (\A c \in Configs : Apart(values[c]))'
  BY <1>3 DEF Apart
<1> QED
  BY <1>1, <1>2, <1>4 DEF CacheOK

LEMMA UnloadCache ==
    ASSUME TypeOK, CacheOK, NEW packages \in SUBSET Configs, Unload(packages)
    PROVE  CacheOK'
<1>1. Next
  BY DEF Next
<1>2. NothingNew
  BY DEF Unload, NothingNew, Created, EmptyPackage
<1> QED
  BY <1>1, <1>2, NothingNewStep

LEMMA EditCache == TypeOK /\ CacheOK /\ Edit => CacheOK'
<1> SUFFICES ASSUME TypeOK, CacheOK, Edit PROVE CacheOK'
  OBVIOUS
<1>0. Next
  BY EditIsNext
<1>1. ASSUME NEW c \in Configs, Unload({c}) PROVE CacheOK'
  BY <1>1, UnloadCache
<1>2. ASSUME NEW c \in Configs, NEW s \in Sids \ Fresh, NEW type \in Types,
             AddNamed(c, type, s) \/ AddAnonymous(c, type, s)
      PROVE  CacheOK'
  <2>1. Create(c, type, s)
    BY <1>2 DEF AddNamed, AddAnonymous
  <2>2. values' = values /\ \A d \in Configs, x \in Sids : <<d, x>> # <<c, s>> => creates'[d][x] = creates[d][x]
    BY <2>1 DEF Create, TypeOK, Package
  <2>3. OverlayOK'
    BY <1>0, OverlayStep DEF CacheOK
  <2>4. NamesAreUsers'
    <3> SUFFICES ASSUME NEW d \in Configs, NEW x \in Sids, Created(d, x)' PROVE x \notin Fresh
      BY DEF NamesAreUsers
    <3>1. CASE <<d, x>> = <<c, s>>
      BY <1>2, <3>1
    <3>2. CASE <<d, x>> # <<c, s>>
      BY <2>2, <3>2 DEF CacheOK, NamesAreUsers, Created
    <3> QED
      BY <3>1, <3>2
  <2>5. (\A d \in Configs : Apart(values[d]))'
    BY <2>2 DEF CacheOK, Apart
  <2> QED
    BY <2>3, <2>4, <2>5 DEF CacheOK
<1>3. ASSUME NEW c \in Configs, NEW s \in Sids, RemoveCreated(c, s) \/ RemoveLoaded(c, s)
      PROVE  CacheOK'
  <2>1. values' = values
    BY <1>3 DEF RemoveCreated, RemoveLoaded
  <2>2. \A d \in Configs, x \in Sids : creates'[d][x] # NoSection => creates'[d][x] = creates[d][x]
    <3>1. CASE RemoveCreated(c, s)
      BY <3>1 DEF RemoveCreated, TypeOK, Package
    <3>2. CASE RemoveLoaded(c, s)
      BY <3>2 DEF RemoveLoaded
    <3> QED
      BY <1>3, <3>1, <3>2
  <2>3. NothingNew
    BY <2>1, <2>2 DEF NothingNew, Created
  <2> QED
    BY <1>0, <2>3, NothingNewStep
<1>4. ASSUME NEW c \in Configs, NEW s \in Sids, NEW o \in Options, NEW val \in Values \cup {None},
             SetCreated(c, s, o, val) \/ SetChange(c, s, o, val) \/ SetDelete(c, s, o, val)
      PROVE  CacheOK'
  <2>1. values' = values
    BY <1>4 DEF SetCreated, SetChange, SetDelete
  <2>2. \A d \in Configs, x \in Sids : Created(d, x)' => Created(d, x)
    <3>1. CASE SetCreated(c, s, o, val)
      <4>1. \A d \in Configs, x \in Sids : <<d, x>> # <<c, s>> => creates'[d][x] = creates[d][x]
        BY <3>1 DEF SetCreated, TypeOK, Package
      <4>2. Created(c, s)
        BY <3>1 DEF SetCreated
      <4> SUFFICES ASSUME NEW d \in Configs, NEW x \in Sids, Created(d, x)' PROVE Created(d, x)
        OBVIOUS
      <4>3. CASE <<d, x>> = <<c, s>>
        BY <4>2, <4>3
      <4>4. CASE <<d, x>> # <<c, s>>
        BY <4>1, <4>4 DEF Created
      <4> QED
        BY <4>3, <4>4
    <3>2. CASE ~SetCreated(c, s, o, val)
      BY <1>4, <3>2 DEF SetChange, SetDelete, Created
    <3> QED
      BY <3>1, <3>2
  <2>3. NothingNew
    BY <2>1, <2>2 DEF NothingNew
  <2> QED
    BY <1>0, <2>3, NothingNewStep
<1>5. ASSUME NEW c \in Configs, NEW type \in ReadTypes, ReadSections(c, type) PROVE CacheOK'
  <2>1. values' = values
    BY <1>5 DEF ReadSections
  <2>2. \A d \in Configs, x \in Sids : Created(d, x)' => Created(d, x)
    BY <1>5, ReadBirths DEF NoneAdded
  <2>3. NothingNew
    BY <2>1, <2>2 DEF NothingNew
  <2> QED
    BY <1>0, <2>3, NothingNewStep
<1>6. ASSUME NEW c \in Configs, NEW s \in Sids, NEW t \in Sids, Swap(c, s, t) PROVE CacheOK'
  <2>1. \A d \in Configs : SameButIndex(values[d], values'[d])
    BY <1>6, SwapIndices
  <2>2. \A d \in Configs, x \in Sids : Created(d, x)' => Created(d, x)
    BY <1>6, SwapBirths DEF NoneAdded
  <2>3. NothingNew
    BY <2>1, <2>2 DEF NothingNew
  <2> QED
    BY <1>0, <2>3, NothingNewStep
<1> QED
  BY <1>1, <1>2, <1>3, <1>4, <1>5, <1>6 DEF Edit

\* The answers to loads replace no section that is edited.
LEMMA LoadedCache ==
    ASSUME TypeOK, CacheOK, NEW packages \in SUBSET Configs, packages \cap loaded = {},
           NEW answer, \A c \in packages : answer[c] \in Package /\ Apart(answer[c]),
           values' = [c \in Configs |-> IF c \in packages THEN answer[c] ELSE values[c]],
           loaded' = loaded \cup packages,
           UNCHANGED <<creates, opened, changes, deletesAll, deletesOpt>>
    PROVE  CacheOK'
<1>1. NamesAreUsers'
  BY DEF CacheOK, NamesAreUsers, Created
<1>2. (\A c \in Configs : Apart(values[c]))'
  <2>1. ASSUME NEW c \in Configs PROVE Apart(values'[c])
    BY DEF CacheOK
  <2> QED
    BY <2>1 DEF Apart
<1>3. NoConflict'
  BY DEF CacheOK, OverlayOK, NoConflict, Created
<1>4. PendingIsReal'
  <2>1. ASSUME NEW c \in Configs, NEW s \in Sids
        PROVE  /\ Loaded(c, s)' => c \in loaded'
               /\ c \in packages => ~Loaded(c, s)
               /\ Loaded(c, s) => Loaded(c, s)'
    BY DEF Loaded, CacheOK, OverlayOK, PendingIsReal
  <2> QED
    BY <2>1 DEF CacheOK, OverlayOK, PendingIsReal
<1> QED
  BY <1>1, <1>2, <1>3, <1>4 DEF CacheOK, OverlayOK

\* The calls of a batch that are left after n of them.
Remaining(s, batch, n) == Len(s) + n = Len(batch) /\ \A j \in 1 .. Len(s) : s[j] = batch[n + j]

LEMMA RemainingRest ==
    ASSUME NEW s, IsSeq(s), s # <<>>, NEW batch, NEW n \in Nat, Remaining(s, batch, n)
    PROVE  Head(s) = batch[n + 1] /\ n < Len(batch) /\ Remaining(Tail(s), batch, n + 1)
<1>1. Len(s) \in Nat /\ Len(s) # 0 /\ Len(Tail(s)) = Len(s) - 1 /\ Head(s) = s[1]
  BY LenProperties, HeadTailProperties, EmptySeq DEF IsSeq
<1>2. \A j \in 1 .. Len(s) - 1 : Tail(s)[j] = s[j + 1]
  BY HeadTailProperties DEF IsSeq
<1>3. ASSUME NEW j \in 1 .. Len(Tail(s)) PROVE Tail(s)[j] = batch[n + 1 + j]
  <2>1. j + 1 \in 1 .. Len(s) /\ n + (j + 1) = n + 1 + j
    BY <1>1
  <2>2. s[j + 1] = batch[n + (j + 1)]
    BY <2>1 DEF Remaining
  <2> QED
    BY <1>1, <1>2, <2>1, <2>2
<1>4. s[1] = batch[n + 1]
  BY <1>1 DEF Remaining
<1> QED
  BY <1>1, <1>3, <1>4 DEF Remaining

LEMMA SnapshotApart == ASSUME NEW file, IsFile(file) PROVE Apart(Snapshot(file))
<1> SUFFICES ASSUME NEW s \in Sids, NEW t \in Sids,
                    Snapshot(file)[s] # NoSection, Snapshot(file)[t] # NoSection,
                    Snapshot(file)[s].birth = Snapshot(file)[t].birth
             PROVE  s = t
  BY DEF Apart
<1>1. s \in NamesIn(file) /\ t \in NamesIn(file)
  BY DEF Snapshot
<1>2. Snapshot(file)[s].birth = At(file, s) - 1 /\ Snapshot(file)[t].birth = At(file, t) - 1
  BY <1>1 DEF Snapshot
<1>3. Len(file) \in Nat
  BY FileMeans DEF FileIs
<1>4. At(file, s) \in 1 .. Len(file) /\ At(file, t) \in 1 .. Len(file)
  BY <1>1, AtIs
<1>5. At(file, s) = At(file, t)
  <2>1. \A i, j \in 1 .. Len(file) : i - 1 = j - 1 => i = j
    BY <1>3
  <2>2. At(file, s) - 1 = At(file, t) - 1
    BY <1>2, Zenon
  <2> QED
    BY <1>4, <2>1, <2>2, Zenon
<1> QED
  BY <1>1, <1>5, AtIs

\* While the cache stays as it is, so does what the views show.
LEMMA ViewsSame == ASSUME UNCHANGED vars, NEW c PROVE Views(c)' = Views(c)
<1>1. UNCHANGED <<values, loaded, creates, opened, changes, deletesAll, deletesOpt, reorder, newidx>>
  BY DEF vars
<1>2. Listed(c, AnyType)' = Listed(c, AnyType)
  BY <1>1 DEF Listed, Created, Loaded, Entry
<1>3. \A s, t : (Before(c, s, t))' <=> Before(c, s, t)
  BY <1>1 DEF Before, Entry, Created
<1> DEFINE R == {p \in Listed(c, AnyType) \X Listed(c, AnyType) : Before(c, p[1], p[2])}
<1>4. R' = R
  BY <1>2, <1>3
<1>5. Listing(c) = Sorted(Listed(c, AnyType), R) /\ Listing(c)' = Sorted(Listed(c, AnyType)', R')
  BY DEF Listing
<1>6. Listing(c)' = Listing(c)
  BY <1>2, <1>4, <1>5
<1>7. \A s, o : ((Edited(c, s, o))' <=> Edited(c, s, o)) /\ Get(c, s, o)' = Get(c, s, o)
  BY <1>1 DEF Edited, Get, Created, Loaded
<1>8. \A s : Shows(c, s)' = Shows(c, s)
  BY <1>1, <1>7 DEF Shows, Entry, Created
<1> QED
  BY <1>6, <1>8 DEF Views

\* Nothing of a package is edited.
Untouched(c) ==
    /\ deletesAll[c] = {}
    /\ \A s \in Sids : ~Created(c, s) /\ changes[c][s] = Blank /\ deletesOpt[c][s] = {}

\* What the client waits for.
PhaseOK ==
    /\ phase = "idle" => ~clean
    /\ phase = "ordering" => \A call \in Elements(calls) : call.op = "order"
    /\ phase = "loading" => pkgs \cap loaded = {} /\ \A p \in Elements(replies) : Apart(p)
    /\ ordered \subseteq Configs
    /\ phase = "saving" => ordered \subseteq pkgs \cup reorder

\* A save that nothing disturbs: the packages hold what the calls that ran made of them, ...
SavingOK ==
    phase = "saving" =>
        /\ Remaining(calls, EditCalls, Len(replies))
        /\ \A c \in Configs : before[c] = Views(c)
        /\ clean => /\ NamedRight(replies)
                    /\ \A c \in pkgs \cup reorder : Alone(c) /\ Holds(c, server[c], replies)

\* ... after the last call what the views showed, ...
SavedOK ==
    clean /\ phase \in {"ordering", "loading"} =>
        \A c \in pkgs \cup ordered : FileSections(server[c]) = AsSaved(c)

\* ... and that is loaded again, over no edits.
LoadingOK ==
    phase = "loading" =>
        /\ Remaining(calls, LoadCalls(pkgs), Len(replies))
        /\ clean => /\ \A c \in pkgs : Untouched(c)
                    /\ \A i \in 1 .. Len(replies) : replies[i] = Snapshot(server[SetToSeq(pkgs)[i]])

SaveOK == SaveInv /\ CacheOK /\ PhaseOK /\ SavingOK /\ SavedOK /\ LoadingOK

LEMMA RunsSaving ==
    ASSUME SaveOK, RouterRuns, phase = "saving"
    PROVE  SavingOK'
<1> DEFINE n == Len(replies)
           call == Head(calls)
<1>1. PICK effect \in Effects(call) :
        /\ server' = [server EXCEPT ![call.conf] = effect.file]
        /\ replies' = Append(replies, effect.reply)
  BY DEF RouterRuns
<1>2. /\ calls # <<>> /\ calls' = Tail(calls)
      /\ UNCHANGED vars /\ UNCHANGED <<phase, pkgs, before, clean>>
  BY DEF RouterRuns, ghostVars
<1>3. UNCHANGED <<values, loaded, creates, changes, deletesAll, deletesOpt, opened, reorder>>
  BY <1>2 DEF vars
<1>4. /\ TypeOK /\ Births /\ OverlayOK /\ NamesAreUsers
      /\ BatchOK(calls, asked) /\ IsSeq(calls) /\ IsSeq(replies) /\ ServerOK
  BY DEF SaveOK, SaveInv, SaveTypeOK, WireOK, BatchOK, CacheOK, ServerOK
<1>5. n \in Nat /\ Remaining(calls, EditCalls, n)
  BY <1>4, LenProperties DEF SaveOK, SavingOK, IsSeq
<1>6. call = EditCalls[n + 1] /\ n < Len(EditCalls) /\ Remaining(calls', EditCalls, n + 1)
  BY <1>2, <1>4, <1>5, RemainingRest
<1>7. CallOK(call)
  BY <1>2, <1>4, BatchAfter
<1> HIDE DEF call
<1>8. Len(replies') = n + 1
  BY <1>1, <1>4, Appended
<1>9. EditCalls' = EditCalls /\ \A c : Views(c)' = Views(c)
  BY <1>2, <1>3, BatchSame, ViewsSame
<1>10. Remaining(calls', EditCalls', Len(replies'))
  BY <1>6, <1>8, <1>9
<1>11. \A c \in Configs : before'[c] = Views(c)'
  BY <1>2, <1>9 DEF SaveOK, SavingOK
<1>12. ASSUME clean
       PROVE  /\ (NamedRight(replies))'
              /\ \A c \in pkgs \cup reorder : (Alone(c) /\ Holds(c, server[c], replies))'
  <2>1. NamedRight(replies) /\ \A c \in pkgs \cup reorder : Alone(c) /\ Holds(c, server[c], replies)
    BY <1>12 DEF SaveOK, SavingOK
  <2>2. PICK answers : answers = replies'
    OBVIOUS
  <2>3. NamedRight(answers)
    BY <1>1, <1>4, <1>6, <2>1, <2>2, RunNamed
  <2>4. (NamedRight(answers))'
    BY <1>3, <2>3, HoldsSame
  <2>5. (NamedRight(replies))'
    BY <2>2, <2>4 DEF NamedRight
  <2>6. ASSUME NEW c \in pkgs \cup reorder PROVE (Alone(c) /\ Holds(c, server[c], replies))'
    <3>1. c \in Configs /\ IsFile(server[c])
      BY <1>4 DEF SaveOK, SaveInv, SaveTypeOK, TypeOK, ServerOK
    <3>2. PICK file : file = server'[c]
      OBVIOUS
    <3>3. file = IF c = call.conf THEN effect.file ELSE server[c]
      BY <1>1, <1>4, <3>1, <3>2 DEF ServerOK
    <3>4. Holds(c, file, answers)
      BY <1>1, <1>4, <1>6, <2>1, <2>2, <3>1, <3>3, RunHolds
    <3>5. (Holds(c, file, answers))'
      BY <1>3, <3>4, HoldsSame
    <3>6. (Holds(c, server[c], replies))'
      BY <2>2, <3>2, <3>5 DEF Holds, Names, AddRan, Stays, Kept, Given, Made
    <3>7. (Alone(c))'
      BY <1>3, <2>1 DEF Alone, Loaded, Created
    <3> QED
      BY <3>6, <3>7
  <2> QED
    BY <2>5, <2>6
<1>13. clean' => /\ (NamedRight(replies))'
                 /\ \A c \in pkgs' \cup reorder' : (Alone(c) /\ Holds(c, server[c], replies))'
  BY <1>2, <1>3, <1>12
<1> QED
  BY <1>10, <1>11, <1>13 DEF SavingOK

\* Calls that order or load a package keep its sections.
LEMMA SectionsKept ==
    ASSUME ServerOK, NEW call, CallOK(call), call.op \in {"order", "load"}, NEW effect \in Effects(call),
           server' = [server EXCEPT ![call.conf] = effect.file], NEW c \in Configs
    PROVE  /\ FileSections(server'[c]) = FileSections(server[c])
           /\ call.op = "load" => server'[c] = server[c] /\ effect.reply = Snapshot(server[call.conf])
<1> DEFINE file == server[call.conf]
<1>1. call.conf \in Configs /\ IsFile(file)
  BY DEF CallOK, ServerOK
<1>2. CASE call.op = "order"
  <2>1. effect = [file |-> OrderedIn(file, call.arg), reply |-> None]
    BY <1>2 DEF Effects
  <2>2. Len(call.arg) \in Nat
    BY <1>2 DEF CallOK
  <2>3. SameFile(file, OrderedIn(file, call.arg))
    BY <1>1, <2>2, OrderedKeeps
  <2>4. FileSections(effect.file) = FileSections(file)
    BY <2>1, <2>3 DEF SameFile
  <2>5. server'[c] = IF c = call.conf THEN effect.file ELSE server[c]
    BY <1>1 DEF ServerOK
  <2> QED
    BY <1>2, <2>4, <2>5
<1>3. CASE call.op = "load"
  <2>1. effect = [file |-> file, reply |-> Snapshot(file)]
    BY <1>3 DEF Effects
  <2>2. server'[c] = IF c = call.conf THEN effect.file ELSE server[c]
    BY <1>1 DEF ServerOK
  <2> QED
    BY <2>1, <2>2
<1> QED
  BY <1>2, <1>3

LEMMA RunsSaved ==
    ASSUME SaveOK, RouterRuns
    PROVE  SavedOK'
<1> SUFFICES ASSUME clean', phase' \in {"ordering", "loading"}, NEW c \in pkgs' \cup ordered'
             PROVE  FileSections(server'[c]) = AsSaved(c)'
  BY DEF SavedOK, FileSections
<1> DEFINE call == Head(calls)
<1>1. PICK effect \in Effects(call) : server' = [server EXCEPT ![call.conf] = effect.file]
  BY DEF RouterRuns
<1>2. /\ calls # <<>>
      /\ UNCHANGED vars /\ UNCHANGED <<phase, pkgs, before, clean, names, ordered>>
  BY DEF RouterRuns, ghostVars
<1>3. BatchOK(calls, asked) /\ ServerOK /\ pkgs \cup ordered \in SUBSET Configs
  BY DEF SaveOK, SaveInv, SaveTypeOK, WireOK, ServerOK, PhaseOK
<1>4. CallOK(call) /\ call \in Elements(calls)
  BY <1>2, <1>3, BatchAfter
<1>5. call.op \in {"order", "load"}
  BY <1>2, <1>4 DEF SaveOK, PhaseOK, SaveInv, WireOK
<1> HIDE DEF call
<1>6. c \in Configs
  BY <1>2, <1>3
<1>7. FileSections(server'[c]) = FileSections(server[c])
  BY <1>1, <1>3, <1>4, <1>5, <1>6, SectionsKept
<1>8. AsSaved(c)' = AsSaved(c)
  BY <1>2 DEF AsSaved
<1> QED
  BY <1>2, <1>7, <1>8 DEF SaveOK, SavedOK

LEMMA PackagesListed ==
    ASSUME NEW packages \in SUBSET Configs
    PROVE  LET list == SetToSeq(packages)
           IN  /\ Cardinality(packages) \in Nat /\ Len(LoadCalls(packages)) = Cardinality(packages)
               /\ DOMAIN list = 1 .. Cardinality(packages)
               /\ \A i \in 1 .. Cardinality(packages) :
                    list[i] \in packages /\ LoadCalls(packages)[i].conf = list[i]
               /\ \A c \in packages : \E i \in 1 .. Cardinality(packages) : list[i] = c
<1> DEFINE list == SetToSeq(packages)
           n    == Cardinality(packages)
<1>1. IsFiniteSet(packages) /\ n \in Nat
  BY ConfigsAssumption, FS_Subset, FS_CardinalityType
<1>2. /\ DOMAIN list = 1 .. n /\ \A i \in 1 .. n : list[i] \in packages
      /\ \A c \in packages : \E i \in 1 .. n : list[i] = c
  BY <1>1, SetListed
<1>3. Len(LoadCalls(packages)) = n
  BY LoadCallsOK
<1>4. LoadCalls(packages) = [i \in DOMAIN list |-> [op |-> "load", conf |-> list[i], sid |-> None, arg |-> None]]
  BY DEF LoadCalls
<1> HIDE DEF list
<1>5. \A i \in 1 .. n : LoadCalls(packages)[i].conf = list[i]
  BY <1>2, <1>4
<1> QED
  BY <1>1, <1>2, <1>3, <1>5 DEF list

LEMMA RunsLoading ==
    ASSUME SaveOK, RouterRuns, phase = "loading"
    PROVE  LoadingOK' /\ \A p \in Elements(replies') : Apart(p)
<1> DEFINE n == Len(replies)
           call == Head(calls)
           list == SetToSeq(pkgs)
<1>1. PICK effect \in Effects(call) :
        /\ server' = [server EXCEPT ![call.conf] = effect.file]
        /\ replies' = Append(replies, effect.reply)
  BY DEF RouterRuns
<1>2. /\ calls # <<>> /\ calls' = Tail(calls)
      /\ UNCHANGED vars /\ UNCHANGED <<phase, pkgs, clean>>
  BY DEF RouterRuns, ghostVars
<1>3. /\ BatchOK(calls, asked) /\ ServerOK /\ pkgs \in SUBSET Configs /\ IsSeq(calls) /\ IsSeq(replies)
  BY DEF SaveOK, SaveInv, SaveTypeOK, WireOK, ServerOK, BatchOK
<1>4. CallOK(call) /\ call \in Elements(calls) /\ call.conf \in Configs
  BY <1>2, <1>3, BatchAfter DEF CallOK
<1>5. call.op = "load"
  BY <1>2, <1>4 DEF SaveOK, SaveInv, WireOK
<1>6. n \in Nat /\ Remaining(calls, LoadCalls(pkgs), n)
  BY <1>3, LenProperties DEF SaveOK, LoadingOK, IsSeq
<1>7. call = LoadCalls(pkgs)[n + 1] /\ n < Len(LoadCalls(pkgs)) /\ Remaining(calls', LoadCalls(pkgs), n + 1)
  BY <1>2, <1>3, <1>6, RemainingRest
<1>8. /\ \A c \in Configs : server'[c] = server[c]
      /\ effect.reply = Snapshot(server[call.conf])
  <2>1. \A c \in Configs : server'[c] = server[c] /\ effect.reply = Snapshot(server[call.conf])
    BY <1>1, <1>3, <1>4, <1>5, SectionsKept
  <2> QED
    BY <1>4, <2>1
<1>9. call.conf = list[n + 1] /\ \A i \in 1 .. n + 1 : list[i] \in Configs
  <2>1. /\ Len(LoadCalls(pkgs)) = Cardinality(pkgs) /\ Cardinality(pkgs) \in Nat
        /\ \A i \in 1 .. Cardinality(pkgs) : list[i] \in pkgs /\ LoadCalls(pkgs)[i].conf = list[i]
    BY <1>3, PackagesListed
  <2>2. n + 1 \in 1 .. Cardinality(pkgs) /\ \A i \in 1 .. n + 1 : i \in 1 .. Cardinality(pkgs)
    BY <1>6, <1>7, <2>1
  <2> QED
    BY <1>3, <1>7, <2>1, <2>2
<1> HIDE DEF call
<1>10. /\ Len(replies') = n + 1 /\ Elements(replies') \subseteq Elements(replies) \cup {effect.reply}
  BY <1>1, <1>3, Appended
<1>11. /\ \A i \in 1 .. n : replies'[i] = replies[i]
       /\ replies'[n + 1] = effect.reply
  <2>1. PICK S : S = Elements(replies) \cup {effect.reply}
    OBVIOUS
  <2>2. replies \in Seq(S) /\ effect.reply \in S
    BY <1>3, <2>1 DEF IsSeq, Elements
  <2> QED
    BY <1>1, <2>2, AppendProperties
<1>12. Apart(effect.reply)
  BY <1>3, <1>4, <1>8, SnapshotApart DEF ServerOK
<1>13. \A p \in Elements(replies') : Apart(p)
  BY <1>10, <1>12 DEF SaveOK, PhaseOK
<1>14. ASSUME clean
       PROVE  /\ \A c \in pkgs : (Untouched(c))'
              /\ \A i \in 1 .. n + 1 : replies'[i] = Snapshot(server'[list[i]])
  <2>1. /\ \A c \in pkgs : Untouched(c)
        /\ \A i \in 1 .. n : replies[i] = Snapshot(server[list[i]])
    BY <1>14 DEF SaveOK, LoadingOK
  <2>2. \A c \in pkgs : (Untouched(c))'
    BY <1>2, <2>1 DEF vars, Untouched, Created
  <2> HIDE DEF list
  <2>3. \A i \in 1 .. n + 1 : i \in 1 .. n \/ i = n + 1
    BY <1>6
  <2>4. \A i \in 1 .. n + 1 : server'[list[i]] = server[list[i]]
    BY <1>8, <1>9
  <2>5. ASSUME NEW i \in 1 .. n + 1 PROVE replies'[i] = Snapshot(server'[list[i]])
    <3>1. CASE i \in 1 .. n
      BY <1>11, <2>1, <2>4, <3>1
    <3>2. CASE i = n + 1
      BY <1>8, <1>9, <1>11, <2>4, <3>2
    <3> QED
      BY <2>3, <3>1, <3>2
  <2> QED
    BY <2>2, <2>5
<1>15. SetToSeq(pkgs)' = SetToSeq(pkgs) /\ LoadCalls(pkgs)' = LoadCalls(pkgs)
  BY <1>2
<1>16. Remaining(calls', LoadCalls(pkgs'), Len(replies'))
  BY <1>2, <1>7, <1>10
<1>17. clean' => /\ \A c \in pkgs' : (Untouched(c))'
                 /\ \A i \in 1 .. Len(replies') : replies'[i] = Snapshot(server'[SetToSeq(pkgs')[i]])
  BY <1>2, <1>10, <1>14
<1>18. LoadingOK'
  BY <1>16, <1>17 DEF LoadingOK
<1> QED
  BY <1>13, <1>18

LEMMA RouterRunsSaves == SaveOK /\ RouterRuns => SaveOK'
<1> SUFFICES ASSUME SaveOK, RouterRuns PROVE SaveOK'
  OBVIOUS
<1>1. /\ calls # <<>> /\ calls' = Tail(calls)
      /\ UNCHANGED vars /\ UNCHANGED <<phase, pkgs, clean, ordered>>
  BY DEF RouterRuns, ghostVars
<1>2. SaveInv'
  BY RouterRunsStep DEF SaveOK
<1>3. CacheOK'
  BY <1>1, CacheSame DEF SaveOK
<1>4. SavingOK'
  BY <1>1, RunsSaving DEF SavingOK
<1>5. SavedOK'
  BY RunsSaved
<1>6. LoadingOK'
  BY <1>1, RunsLoading DEF LoadingOK
<1>7. PhaseOK'
  <2>1. Elements(calls') \subseteq Elements(calls)
    BY <1>1, BatchAfter, FirstAndRest DEF SaveOK, SaveInv, WireOK, BatchOK
  <2>2. phase = "loading" => \A p \in Elements(replies') : Apart(p)
    BY RunsLoading
  <2> QED
    BY <1>1, <2>1, <2>2 DEF SaveOK, PhaseOK, vars
<1> QED
  BY <1>2, <1>3, <1>4, <1>5, <1>6, <1>7 DEF SaveOK

LEMMA SaveOKInit == SaveInit => SaveOK
<1> SUFFICES ASSUME SaveInit PROVE SaveOK
  OBVIOUS
<1>1. SaveInv
  BY InitInv
<1>2. CacheOK
  BY DEF SaveInit, Init, CacheOK, OverlayOK, NoConflict, PendingIsReal, NamesAreUsers, Apart,
         Created, Loaded, EmptyPackage
<1>3. phase = "idle" /\ clean = FALSE /\ ordered = {}
  BY DEF SaveInit
<1> QED
  BY <1>1, <1>2, <1>3 DEF SaveOK, PhaseOK, SavingOK, SavedOK, LoadingOK

-----------------------------------------------------------------------------
(* What disturbs a save *)

LEMMA RefusesSaves == SaveOK /\ RouterRefuses => SaveOK'
<1> SUFFICES ASSUME SaveOK, RouterRefuses PROVE SaveOK'
  OBVIOUS
<1> DEFINE reply == FailedReply(Head(calls))
           n == Len(replies)
<1>1. /\ calls # <<>> /\ calls' = Tail(calls) /\ replies' = Append(replies, reply) /\ clean' = FALSE
      /\ UNCHANGED vars /\ UNCHANGED <<server, phase, pkgs, before, ordered>>
  BY DEF RouterRefuses
<1>2. SaveInv' /\ CacheOK'
  BY <1>1, RouterRefusesStep, CacheSame DEF SaveOK
<1>3. BatchOK(calls, asked) /\ IsSeq(calls) /\ IsSeq(replies) /\ n \in Nat
  BY LenProperties DEF SaveOK, SaveInv, WireOK, BatchOK, IsSeq
<1>4. /\ Len(replies') = n + 1 /\ Elements(replies') \subseteq Elements(replies) \cup {reply}
      /\ Head(calls) \in Elements(calls) /\ Elements(calls') \subseteq Elements(calls)
  BY <1>1, <1>3, Appended, FirstAndRest
<1>5. \A batch : Remaining(calls, batch, n) => Remaining(calls', batch, Len(replies'))
  BY <1>1, <1>3, <1>4, RemainingRest
<1>6. EditCalls' = EditCalls /\ \A c : Views(c)' = Views(c)
  BY <1>1, BatchSame, ViewsSame DEF vars
<1>7. SavingOK'
  BY <1>1, <1>5, <1>6 DEF SaveOK, SavingOK
<1>8. LoadingOK'
  BY <1>1, <1>5 DEF SaveOK, LoadingOK
<1>9. SavedOK'
  BY <1>1 DEF SavedOK
<1>10. phase = "loading" => \A p \in Elements(replies') : Apart(p)
  <2> SUFFICES ASSUME phase = "loading" PROVE \A p \in Elements(replies') : Apart(p)
    OBVIOUS
  <2>1. Head(calls).op = "load"
    BY <1>4 DEF SaveOK, SaveInv, WireOK
  <2>2. reply = EmptyPackage
    BY <2>1 DEF FailedReply
  <2>3. Apart(EmptyPackage)
    BY DEF Apart, EmptyPackage
  <2> QED
    BY <1>4, <2>2, <2>3 DEF SaveOK, PhaseOK
<1>11. PhaseOK'
  BY <1>1, <1>4, <1>10 DEF SaveOK, PhaseOK, vars
<1> QED
  BY <1>2, <1>7, <1>8, <1>9, <1>11 DEF SaveOK

LEMMA DisturbedSaves ==
    ASSUME SaveOK, SaveInv', UNCHANGED vars, UNCHANGED <<phase, calls, replies, pkgs, before, ordered>>,
           clean' = FALSE
    PROVE  SaveOK'
<1>1. CacheOK'
  BY CacheSame DEF SaveOK
<1>2. EditCalls' = EditCalls /\ \A c : Views(c)' = Views(c)
  BY BatchSame, ViewsSame DEF vars
<1>3. SavingOK'
  BY <1>2 DEF SaveOK, SavingOK
<1>4. SavedOK' /\ LoadingOK' /\ PhaseOK'
  BY DEF SaveOK, SavedOK, LoadingOK, PhaseOK, vars
<1> QED
  BY <1>1, <1>3, <1>4 DEF SaveOK

\* Nothing that a save depends on changes.
LEMMA UndisturbedSaves ==
    ASSUME SaveOK, SaveInv', UNCHANGED vars,
           UNCHANGED <<server, phase, calls, replies, pkgs, names, before, clean, ordered>>
    PROVE  SaveOK'
<1>1. CacheOK'
  BY CacheSame DEF SaveOK
<1>2. EditCalls' = EditCalls /\ \A c : Views(c)' = Views(c)
  BY BatchSame, ViewsSame DEF vars
<1>3. PICK answers : answers = replies
  OBVIOUS
<1>4. /\ (NamedRight(answers))' <=> NamedRight(answers)
      /\ \A c, file : (Holds(c, file, answers))' <=> Holds(c, file, answers)
  BY HoldsSame DEF vars
<1>5. (NamedRight(replies))' <=> NamedRight(replies)
  BY <1>3, <1>4 DEF NamedRight
<1>6. ASSUME NEW c PROVE (Holds(c, server[c], replies))' <=> Holds(c, server[c], replies)
  <2>1. PICK file : file = server[c]
    OBVIOUS
  <2>2. (Holds(c, file, answers))' <=> Holds(c, file, answers)
    BY <1>4
  <2>3. (Holds(c, server[c], replies))' <=> (Holds(c, file, answers))'
    BY <1>3, <2>1 DEF Holds, Names, AddRan, Stays, Kept, Given, Made
  <2> QED
    BY <1>3, <2>1, <2>2, <2>3
<1>7. \A c : (Alone(c))' <=> Alone(c)
  BY DEF vars, Alone, Loaded, Created
<1>8. SavingOK'
  BY <1>2, <1>5, <1>6, <1>7 DEF SaveOK, SavingOK, vars
<1>9. SavedOK' /\ PhaseOK'
  BY DEF SaveOK, SavedOK, PhaseOK, vars, AsSaved, FileSections
<1>10. LoadingOK'
  BY DEF SaveOK, LoadingOK, vars, Untouched, Created
<1> QED
  BY <1>1, <1>8, <1>9, <1>10 DEF SaveOK

LEMMA StaleSaves == SaveOK /\ (RouterRunsStale \/ RouterDropsStale \/ ForeignEdit) => SaveOK'
<1>1. ASSUME SaveOK, RouterRunsStale PROVE SaveOK'
  BY <1>1, RouterRunsStaleStep, DisturbedSaves DEF SaveOK, RouterRunsStale
<1>2. ASSUME SaveOK, ForeignEdit PROVE SaveOK'
  BY <1>2, ForeignEditStep, DisturbedSaves DEF SaveOK, ForeignEdit, wireVars
<1>3. ASSUME SaveOK, RouterDropsStale PROVE SaveOK'
  BY <1>3, RouterDropsStaleStep, UndisturbedSaves DEF SaveOK, RouterDropsStale, ghostVars
<1> QED
  BY <1>1, <1>2, <1>3

-----------------------------------------------------------------------------
(* The steps of the client *)

LEMMA AllRemain == ASSUME NEW batch, Len(batch) \in Nat PROVE Remaining(batch, batch, 0)
BY DEF Remaining

\* The client asks for packages of which nothing is edited.
LEMMA LoadsSentSaves ==
    ASSUME SaveInv', CacheOK', phase' = "loading", Send(LoadCalls(pkgs')), pkgs' \in SUBSET Configs,
           pkgs' \cap loaded' = {}, ordered' \subseteq Configs,
           clean' => /\ \A c \in pkgs' : (Untouched(c))'
                     /\ \A c \in pkgs' \cup ordered' : FileSections(server'[c]) = AsSaved(c)'
    PROVE  SaveOK'
<1>1. calls' = LoadCalls(pkgs') /\ replies' = <<>>
  BY DEF Send
<1>2. Len(LoadCalls(pkgs')) \in Nat /\ Len(replies') = 0 /\ Elements(replies') = {}
  BY <1>1, LoadCallsOK, NoElements
<1>3. PhaseOK'
  BY <1>2 DEF PhaseOK
<1>4. SavingOK'
  BY DEF SavingOK
<1>5. SavedOK'
  BY DEF SavedOK, FileSections
<1>6. Remaining(calls', LoadCalls(pkgs'), Len(replies'))
  BY <1>1, <1>2, AllRemain
<1>7. 1 .. Len(replies') = {}
  BY <1>2
<1>8. LoadingOK'
  BY <1>6, <1>7 DEF LoadingOK
<1> QED
  BY <1>3, <1>4, <1>5, <1>8 DEF SaveOK

LEMMA ReloadSaves ==
    ASSUME SaveOK, SaveInv', UnloadAndLoad, UNCHANGED <<pkgs, ordered>>,
           clean' => \A c \in pkgs \cup ordered : FileSections(server'[c]) = AsSaved(c)'
    PROVE  SaveOK'
<1>1. pkgs \in SUBSET Configs /\ TypeOK
  BY DEF SaveOK, SaveInv, SaveTypeOK
<1>2. Unload(pkgs) /\ phase' = "loading" /\ Send(LoadCalls(pkgs')) /\ pkgs' = pkgs
  BY DEF UnloadAndLoad
<1>3. CacheOK'
  BY <1>1, <1>2, UnloadCache DEF SaveOK
<1>4. pkgs' \cap loaded' = {}
  BY <1>2 DEF Unload
<1>5. \A c \in pkgs' : (Untouched(c))'
  BY <1>1, <1>2 DEF Unload, Untouched, Created, EmptyPackage
<1>6. ordered' \subseteq Configs
  BY DEF SaveOK, PhaseOK
<1> QED
  BY <1>1, <1>2, <1>3, <1>4, <1>5, <1>6, LoadsSentSaves

LEMMA LoadPackagesSaves ==
    ASSUME SaveOK, NEW packages \in SUBSET Configs, LoadPackages(packages)
    PROVE  SaveOK'
<1>1. /\ phase = "idle" /\ pkgs' = packages \ loaded /\ phase' = "loading" /\ Send(LoadCalls(pkgs'))
      /\ UNCHANGED vars /\ clean' = clean /\ ordered' = ordered
  BY DEF LoadPackages, ghostVars
<1>2. SaveInv' /\ CacheOK'
  BY <1>1, LoadPackagesStep, CacheSame DEF SaveOK
<1>3. ~clean' /\ pkgs' \in SUBSET Configs /\ pkgs' \cap loaded' = {} /\ ordered' \subseteq Configs
  BY <1>1 DEF SaveOK, PhaseOK, vars
<1> QED
  BY <1>1, <1>2, <1>3, LoadsSentSaves

LEMMA IdleSaves ==
    ASSUME SaveInv', CacheOK', phase' = "idle", clean' = FALSE, ordered' \subseteq Configs
    PROVE  SaveOK'
BY DEF SaveOK, PhaseOK, SavingOK, SavedOK, LoadingOK

LEMMA EditSaves == SaveOK /\ Edit => SaveOK'
<1> SUFFICES ASSUME SaveOK, Edit PROVE SaveOK'
  OBVIOUS
<1>1. SaveInv' /\ CacheOK'
  BY EditStep, EditCache DEF SaveOK, SaveInv, SaveTypeOK
<1>2. phase' = "idle" /\ clean' = clean /\ phase = "idle" /\ ordered' = ordered
  BY DEF Edit, saveVars, wireVars, ghostVars
<1>4. ~clean'
  BY <1>2 DEF SaveOK, PhaseOK
<1> QED
  BY <1>1, <1>2, <1>4 DEF SaveOK, PhaseOK, SavingOK, SavedOK, LoadingOK

\* The answers to the loads are all there, each of a package it was asked for.
LEMMA AllLoaded ==
    ASSUME SaveOK, phase = "loading", calls = <<>>, NEW c \in pkgs
    PROVE  LET list == SetToSeq(pkgs)
               i    == CHOOSE i \in DOMAIN list : list[i] = c
           IN  i \in 1 .. Len(replies) /\ i \in DOMAIN replies /\ list[i] = c
<1> DEFINE list == SetToSeq(pkgs)
           i    == CHOOSE i \in DOMAIN list : list[i] = c
<1>1. pkgs \in SUBSET Configs /\ IsSeq(replies)
  BY DEF SaveOK, SaveInv, SaveTypeOK, WireOK
<1>2. /\ Cardinality(pkgs) \in Nat /\ DOMAIN list = 1 .. Cardinality(pkgs)
      /\ \E j \in 1 .. Cardinality(pkgs) : list[j] = c
  BY <1>1, PackagesListed
<1>3. Len(replies) \in Nat /\ DOMAIN replies = 1 .. Len(replies)
  BY <1>1, LenProperties DEF IsSeq
<1>4. Len(replies) = Cardinality(pkgs)
  <2>1. Len(calls) + Len(replies) = Cardinality(pkgs) /\ Len(calls) = 0
    BY DEF SaveOK, SaveInv, WireOK
  <2> QED
    BY <1>2, <1>3, <2>1
<1> HIDE DEF list
<1>5. i \in DOMAIN list /\ list[i] = c
  BY <1>2
<1> QED
  BY <1>2, <1>3, <1>4, <1>5 DEF list

LEMMA LoadReplySaves == SaveOK /\ LoadReply => SaveOK'
<1> SUFFICES ASSUME SaveOK, LoadReply PROVE SaveOK'
  OBVIOUS
<1> DEFINE list == SetToSeq(pkgs)
           answer == [c \in pkgs |-> replies[CHOOSE i \in DOMAIN list : list[i] = c]]
<1>1. /\ phase = "loading" /\ calls = <<>>
      /\ loaded' = loaded \cup pkgs /\ phase' = "idle" /\ clean' = FALSE
      /\ UNCHANGED <<creates, opened, changes, deletesAll, deletesOpt>>
  BY DEF LoadReply
<1>2. values' = [c \in Configs |-> IF c \in pkgs THEN answer[c] ELSE values[c]]
  BY DEF LoadReply
<1>3. ASSUME NEW c \in pkgs PROVE answer[c] \in Elements(replies)
  BY <1>1, AllLoaded DEF Elements
<1> HIDE DEF answer
<1>4. Elements(replies) \subseteq Package /\ \A p \in Elements(replies) : Apart(p)
  BY <1>1 DEF SaveOK, SaveInv, WireOK, PhaseOK
<1>5. TypeOK /\ CacheOK /\ pkgs \in SUBSET Configs /\ pkgs \cap loaded = {}
  BY <1>1 DEF SaveOK, SaveInv, SaveTypeOK, PhaseOK
<1>6. CacheOK'
  BY <1>1, <1>2, <1>3, <1>4, <1>5, LoadedCache
<1>7. SaveInv'
  BY LoadReplyStep DEF SaveOK
<1>8. ordered' \subseteq Configs
  BY DEF LoadReply, SaveOK, PhaseOK
<1> QED
  BY <1>1, <1>6, <1>7, <1>8, IdleSaves

LEMMA LoadGivenUpSaves == SaveOK /\ LoadGivenUp => SaveOK'
<1> SUFFICES ASSUME SaveOK, LoadGivenUp PROVE SaveOK'
  OBVIOUS
<1>1. phase' = "idle" /\ clean' = FALSE /\ UNCHANGED vars /\ ordered' \subseteq Configs
  BY DEF LoadGivenUp, GivesUp, SaveOK, PhaseOK
<1>2. SaveInv' /\ CacheOK'
  BY <1>1, LoadGivenUpStep, CacheSame DEF SaveOK
<1> QED
  BY <1>1, <1>2, IdleSaves

LEMMA OrderEnds == SaveOK /\ (OrderReply \/ OrderGivenUp) => SaveOK'
<1>1. ASSUME SaveOK, OrderReply PROVE SaveOK'
  <2>1. SaveInv'
    BY <1>1, OrderReplyStep DEF SaveOK
  <2>2. /\ phase = "ordering" /\ UnloadAndLoad
        /\ UNCHANGED <<server, pkgs, before, clean, names, ordered>>
    BY <1>1 DEF OrderReply, ghostVars
  <2>3. clean' => \A c \in pkgs \cup ordered : FileSections(server'[c]) = AsSaved(c)'
    BY <1>1, <2>2 DEF SaveOK, SavedOK, AsSaved
  <2> QED
    BY <1>1, <2>1, <2>2, <2>3, ReloadSaves
<1>2. ASSUME SaveOK, OrderGivenUp PROVE SaveOK'
  <2>1. SaveInv'
    BY <1>2, OrderGivenUpStep DEF SaveOK
  <2>2. UnloadAndLoad /\ UNCHANGED <<pkgs, ordered>> /\ ~clean'
    BY <1>2 DEF OrderGivenUp, GivesUp
  <2> QED
    BY <1>2, <2>1, <2>2, ReloadSaves
<1> QED
  BY <1>1, <1>2

\* What is loaded is what the router has: before the first call, the packages hold that.
LEMMA InSyncHolds ==
    ASSUME TypeOK, Births, ServerOK, NEW c \in Configs, InSync(c)
    PROVE  Alone(c) /\ Holds(c, server[c], <<>>)
<1> DEFINE file == server[c]
<1>1. IsFile(file)
  BY DEF ServerOK
<1>2. Alone(c)
  BY DEF InSync, Alone
<1>3. Len(<<>>) = 0
  BY LenProperties
<1>4. \A s : ~AddRan(c, s, 0) /\ ~SetRan(c, s, 0) /\ ~DeleteRan(c, s, 0)
  BY NothingRan
<1>5. \A s : Stays(c, s, 0) <=> Loaded(c, s)
  BY <1>4 DEF Stays
<1>6. ASSUME NEW s \in Sids, Loaded(c, s) PROVE Sect(file, s) = Kept(c, s, 0)
  <2>1. s \in NamesIn(file)
    BY <1>6 DEF InSync
  <2>2. Sect(file, s) \in RouterSection /\ Sect(file, s).name = s
    BY <1>1, <2>1, AtIs DEF Sect
  <2>3. values[c][s].type = Sect(file, s).type /\ values[c][s].opts = Sect(file, s).opts
    BY <1>6 DEF InSync, Sect
  <2>4. Kept(c, s, 0) = [name |-> s, type |-> values[c][s].type, opts |-> [o \in Options |-> values[c][s].opts[o]]]
    BY <1>4 DEF Kept
  <2> QED
    BY <2>2, <2>3, <2>4 DEF RouterSection
<1>7. NamesIn(file) = Names(c, <<>>)
  <2>1. {s \in Sids : Stays(c, s, 0)} = NamesIn(file)
    BY <1>5 DEF InSync
  <2>2. {x \in Sids : AddRan(c, x, 0)} = {}
    BY <1>4
  <2> QED
    BY <1>3, <2>1, <2>2 DEF Names
<1> HIDE DEF file
<1>8. Holds(c, file, <<>>)
  BY <1>3, <1>4, <1>5, <1>6, <1>7 DEF Holds
<1> QED
  BY <1>2, <1>8 DEF file

LEMMA SaveSaves == SaveOK /\ Save => SaveOK'
<1> SUFFICES ASSUME SaveOK, Save PROVE SaveOK'
  OBVIOUS
<1>1. /\ pkgs' = EditedPackages /\ phase' = "saving" /\ calls' = EditCalls /\ replies' = <<>>
      /\ UNCHANGED vars /\ server' = server
      /\ clean' = (\A c \in EditedPackages \cup reorder : InSync(c))
  BY DEF Save, Send
<1>2. before' = [c \in Configs |-> Views(c)]
  BY DEF Save, Views
<1>3. SaveInv' /\ CacheOK'
  BY <1>1, SaveStep, CacheSame DEF SaveOK
<1>4. TypeOK /\ Births /\ ServerOK
  BY DEF SaveOK, SaveInv, SaveTypeOK, ServerOK
<1>5. UNCHANGED <<values, loaded, creates, changes, deletesAll, deletesOpt, opened, reorder>>
  BY <1>1 DEF vars
<1>6. EditCalls' = EditCalls /\ \A c : Views(c)' = Views(c)
  BY <1>1, <1>5, BatchSame, ViewsSame
<1>7. Remaining(calls', EditCalls', Len(replies'))
  <2>1. Len(EditCalls) \in Nat
    BY <1>4, EditCallsOK, LenProperties DEF BatchOK, IsSeq
  <2>2. Len(replies') = 0
    BY <1>1
  <2> QED
    BY <1>1, <1>6, <2>1, <2>2, AllRemain
<1>8. ASSUME clean'
      PROVE  /\ (NamedRight(replies))'
             /\ \A c \in (pkgs \cup reorder)' : (Alone(c) /\ Holds(c, server[c], replies))'
  <2>1. PICK answers : answers = <<>>
    OBVIOUS
  <2>2. NamedRight(answers)
    <3>1. DOMAIN Snew = 1 .. AddsN /\ AddsN \in Nat
      BY <1>4, BatchIs DEF Batch, Lists, AddsN
    <3>2. Len(answers) = 0
      BY <2>1
    <3> QED
      BY <3>1, <3>2 DEF NamedRight
  <2>3. (NamedRight(answers))'
    BY <1>5, <2>2, HoldsSame
  <2>4. (NamedRight(replies))'
    BY <1>1, <2>1, <2>3 DEF NamedRight
  <2>5. ASSUME NEW c \in (pkgs \cup reorder)' PROVE (Alone(c) /\ Holds(c, server[c], replies))'
    <3>1. c \in EditedPackages \cup reorder /\ c \in Configs
      BY <1>1, <1>3, <1>5 DEF SaveInv, SaveTypeOK, TypeOK
    <3>2. InSync(c)
      BY <1>1, <1>8, <3>1
    <3>3. PICK file : file = server[c]
      OBVIOUS
    <3>4. Alone(c) /\ Holds(c, file, answers)
      BY <1>4, <2>1, <3>1, <3>2, <3>3, InSyncHolds
    <3>5. (Holds(c, file, answers))'
      BY <1>5, <3>4, HoldsSame
    <3>6. (Holds(c, server[c], replies))'
      BY <1>1, <2>1, <3>3, <3>5 DEF Holds, Names, AddRan, Stays, Kept, Given, Made
    <3>7. (Alone(c))'
      BY <1>5, <3>4 DEF Alone, Loaded, Created
    <3> QED
      BY <3>6, <3>7
  <2> QED
    BY <2>4, <2>5
<1>9. SavingOK'
  BY <1>2, <1>6, <1>7, <1>8 DEF SavingOK
<1>10. ordered' \subseteq EditedPackages \cup reorder /\ ordered' \subseteq Configs
  BY <1>4 DEF Save, EditedPackages, Changed, Deleted, TypeOK
<1>11. PhaseOK' /\ SavedOK' /\ LoadingOK'
  BY <1>1, <1>5, <1>10 DEF PhaseOK, SavedOK, LoadingOK
<1> QED
  BY <1>3, <1>9, <1>11 DEF SaveOK

\* The calls of the order batch.
LEMMA OrderOps == ASSUME NEW named PROVE \A call \in Elements(OrderCalls(named)) : call.op = "order"
<1> DEFINE list == SetToSeq({c \in reorder : Gathered(c) # {}})
           order(c) == Sorted(Gathered(c), {p \in Gathered(c) \X Gathered(c) : OrderBefore(c, p[1], p[2])})
           arg(c) == [j \in DOMAIN order(c) |->
                        IF order(c)[j][1] THEN named[c][order(c)[j][2]] ELSE order(c)[j][2]]
<1>1. OrderCalls(named) =
        [i \in DOMAIN list |-> [op |-> "order", conf |-> list[i], sid |-> None, arg |-> arg(list[i])]]
  BY DEF OrderCalls, OrderCallsWith
<1> HIDE DEF list, arg
<1>2. \A i \in DOMAIN list : OrderCalls(named)[i].op = "order"
  BY <1>1
<1> QED
  BY <1>1, <1>2 DEF Elements

\* The last answer: all calls were run, and the sections are named as they were answered.
LEMMA NamedAsAnswered ==
    ASSUME SaveOK, phase = "saving", calls = <<>>, Answered(replies), NEW c \in Configs
    PROVE  AllRan(Len(replies)) /\ \A s \in Sids : names'[c][s] = NameFor(c, s, replies)
<1>1. TypeOK /\ Births /\ IsSeq(replies)
  BY DEF SaveOK, SaveInv, SaveTypeOK, WireOK
<1>2. Len(replies) = Len(EditCalls) /\ Len(replies) \in Nat /\ DOMAIN replies = 1 .. Len(replies)
  <2>1. Len(replies) \in Nat /\ DOMAIN replies = 1 .. Len(replies)
    BY <1>1, LenProperties DEF IsSeq
  <2>2. Len(calls) = 0 /\ Len(calls) + Len(replies) = Len(EditCalls)
    BY DEF SaveOK, SavingOK, Remaining
  <2> QED
    BY <2>1, <2>2
<1>3. AllRan(Len(replies))
  BY <1>1, <1>2, BatchRan
<1>4. PICK named : named = names'[c]
  OBVIOUS
<1>5. ASSUME NEW s \in Sids PROVE named[s] = NameFor(c, s, replies)
  <2>1. Created(c, s) => Spot(c, s) \in DOMAIN replies
    <3>1. Created(c, s) <=> AddRan(c, s, Len(replies))
      BY <1>1, <1>3 DEF AllRan
    <3>2. AddRan(c, s, Len(replies)) <=> Created(c, s) /\ Spot(c, s) <= Len(replies)
      BY <1>1, <1>2, SpotIs
    <3>3. Created(c, s) => Spot(c, s) \in 1 .. AddsN
      BY <1>1, SpotIs
    <3>4. AddsN \in Nat
      BY <1>1, BatchIs DEF Batch, Lists, AddsN
    <3> QED
      BY <1>2, <3>1, <3>2, <3>3, <3>4
  <2>2. named[s] = IF Created(c, s)
                   THEN IF Spot(c, s) \in DOMAIN replies THEN replies[Spot(c, s)] ELSE None
                   ELSE s
    BY <1>1, <1>4 DEF Answered, Spot, PlaceIn
  <2> QED
    BY <2>1, <2>2 DEF NameFor, Given
<1> QED
  BY <1>3, <1>4, <1>5

\* After the last answer, the packages hold what the views showed, under the names given.
LEMMA SaveAnswered ==
    ASSUME SaveOK, phase = "saving", calls = <<>>, clean, Answered(replies),
           NEW c \in pkgs \cup ordered
    PROVE  FileSections(server[c]) = AsSaved(c)'
<1>1. /\ TypeOK /\ Births /\ OverlayOK /\ ServerOK
      /\ c \in pkgs \cup reorder /\ c \in Configs
  BY DEF SaveOK, SaveInv, SaveTypeOK, CacheOK, ServerOK, PhaseOK, TypeOK
<1>2. Alone(c) /\ Holds(c, server[c], replies) /\ before[c] = Views(c)
  BY <1>1 DEF SaveOK, SavingOK
<1>3. PICK named : named = names'[c]
  OBVIOUS
<1>4. AllRan(Len(replies)) /\ \A s \in Sids : named[s] = NameFor(c, s, replies)
  BY <1>1, <1>3, NamedAsAnswered
<1>5. FileSections(server[c]) = {Saved(c, s, replies) : s \in Listed(c, AnyType)}
  BY <1>1, <1>2, <1>4, AllSaved DEF ServerOK
<1>6. SavedAs(Views(c), named) = {Saved(c, s, replies) : s \in Listed(c, AnyType)}
  <2>1. Apart(values[c])
    BY <1>1 DEF SaveOK, CacheOK
  <2>2. \A s, t \in Sids : Loaded(c, s) /\ Loaded(c, t) /\ values[c][s].birth = values[c][t].birth => s = t
    BY <2>1 DEF Apart, Loaded
  <2> QED
    BY <1>1, <1>4, <2>2, SavedAsListed
<1>7. AsSaved(c)' = SavedAs(Views(c), named)
  BY <1>2, <1>3 DEF AsSaved, SavedAs, Answered
<1> QED
  BY <1>5, <1>6, <1>7

\* The answer to a save, or none.
LEMMA AnsweredSaves ==
    ASSUME SaveOK, SaveInv', NEW responses, Answered(responses),
           clean' => \A c \in pkgs \cup ordered : FileSections(server[c]) = AsSaved(c)'
    PROVE  SaveOK'
<1>1. UNCHANGED <<server, pkgs, ordered>>
  BY DEF Answered
<1>2. CASE UnloadAndLoad
  BY <1>1, <1>2, ReloadSaves
<1>3. CASE ~UnloadAndLoad
  <2>1. PICK named : /\ phase' = "ordering" /\ Send(OrderCalls(named))
                     /\ UNCHANGED <<values, loaded, creates, opened, changes, deletesAll, deletesOpt>>
    BY <1>3 DEF Answered
  <2>2. CacheOK'
    BY <2>1 DEF SaveOK, CacheOK, OverlayOK, NoConflict, PendingIsReal, NamesAreUsers, Apart, Created, Loaded
  <2>3. PhaseOK'
    BY <1>1, <2>1, OrderOps DEF SaveOK, PhaseOK, Send
  <2>4. SavingOK' /\ LoadingOK'
    BY <2>1 DEF SavingOK, LoadingOK
  <2>5. SavedOK'
    BY <1>1 DEF SavedOK, FileSections
  <2> QED
    BY <2>2, <2>3, <2>4, <2>5 DEF SaveOK
<1> QED
  BY <1>2, <1>3

LEMMA SaveEndsSaves == SaveOK /\ (SaveReply \/ SaveGivenUp) => SaveOK'
<1>1. ASSUME SaveOK, SaveReply PROVE SaveOK'
  <2>1. SaveInv'
    BY <1>1, SaveReplyStep DEF SaveOK
  <2>2. phase = "saving" /\ calls = <<>> /\ Answered(replies) /\ clean' = clean
    BY <1>1 DEF SaveReply
  <2>3. clean' => \A c \in pkgs \cup ordered : FileSections(server[c]) = AsSaved(c)'
    BY <1>1, <2>2, SaveAnswered
  <2> QED
    BY <1>1, <2>1, <2>2, <2>3, AnsweredSaves
<1>2. ASSUME SaveOK, SaveGivenUp PROVE SaveOK'
  <2>1. SaveInv'
    BY <1>2, SaveGivenUpStep DEF SaveOK
  <2>2. Answered(<<>>) /\ ~clean'
    BY <1>2 DEF SaveGivenUp, GivesUp
  <2> QED
    BY <1>2, <2>1, <2>2, AnsweredSaves
<1> QED
  BY <1>1, <1>2

LEMMA SaveOKStep == SaveOK /\ [SaveNext]_allVars => SaveOK'
<1> SUFFICES ASSUME SaveOK, [SaveNext]_allVars PROVE SaveOK'
  OBVIOUS
<1>1. CASE Waiting
  BY <1>1, RouterRunsSaves, RefusesSaves, LoadReplySaves, SaveEndsSaves, OrderEnds, LoadGivenUpSaves DEF Waiting
<1>2. ASSUME NEW packages \in SUBSET Configs, LoadPackages(packages) PROVE SaveOK'
  BY <1>2, LoadPackagesSaves
<1>3. CASE UNCHANGED allVars
  <2>1. SaveInv'
    BY InvStep DEF SaveOK
  <2> QED
    BY <1>3, <2>1, UndisturbedSaves DEF allVars, saveVars, wireVars, ghostVars
<1> QED
  BY <1>1, <1>2, <1>3, EditSaves, SaveSaves, StaleSaves DEF SaveNext

LEMMA SaveOKKept == SaveSpec => []SaveOK
BY SaveOKInit, SaveOKStep, PTL DEF SaveSpec

\* Nothing is edited in a package that was just loaded: the views show what the router has.
LEMMA LoadedShown ==
    ASSUME SaveOK, LoadReply, clean, NEW c \in pkgs
    PROVE  {Shows(c, s)' : s \in Listed(c, AnyType)'} = FileSections(server'[c])
<1> DEFINE file == server[c]
           list == SetToSeq(pkgs)
           i == CHOOSE i \in DOMAIN list : list[i] = c
<1>1. /\ phase = "loading" /\ calls = <<>>
      /\ loaded' = loaded \cup pkgs /\ server' = server
      /\ UNCHANGED <<creates, changes, deletesAll, deletesOpt>>
  BY DEF LoadReply
<1>2. pkgs \in SUBSET Configs /\ c \in Configs
  BY DEF SaveOK, SaveInv, SaveTypeOK
<1>3. values'[c] = replies[i]
  BY <1>2 DEF LoadReply
<1>4. i \in 1 .. Len(replies) /\ list[i] = c
  BY <1>1, AllLoaded
<1>5. values'[c] = Snapshot(file) /\ Untouched(c) /\ IsFile(file)
  <2>1. replies[i] = Snapshot(server[list[i]])
    BY <1>1, <1>4 DEF SaveOK, LoadingOK
  <2>2. Untouched(c) /\ IsFile(file)
    BY <1>1, <1>2 DEF SaveOK, LoadingOK, SaveInv, SaveTypeOK
  <2> QED
    BY <1>3, <1>4, <2>1, <2>2
<1> HIDE DEF i, list, file
<1>6. NamesIn(file) \subseteq Sids
  BY <1>5, NamesAreSids
<1>7. \A s \in NamesIn(file) : /\ file[At(file, s)] \in RouterSection /\ file[At(file, s)].name = s
                               /\ file[At(file, s)] \in FileSections(file)
  BY <1>5, AtIs DEF FileSections, NamesIn
<1>8. ASSUME NEW s \in Sids
      PROVE  /\ s \notin NamesIn(file) => values'[c][s] = NoSection
             /\ s \in NamesIn(file) => /\ values'[c][s] # NoSection
                                       /\ values'[c][s].type = file[At(file, s)].type
                                       /\ values'[c][s].opts = file[At(file, s)].opts
  <2>1. CASE s \in NamesIn(file)
    <3>1. values'[c][s] = [type |-> file[At(file, s)].type, index |-> At(file, s) - 1,
                           birth |-> At(file, s) - 1, opts |-> file[At(file, s)].opts]
      BY <1>5, <2>1 DEF Snapshot
    <3>2. values'[c][s] \in Section \cup {NoSection}
      BY <1>5, SnapshotTyped DEF Package
    <3>3. values'[c][s] \in Section
      <4>1. At(file, s) - 1 \in Nat
        <5>1. At(file, s) \in 1 .. Len(file) /\ Len(file) \in Nat
          BY <1>5, <2>1, AtIs, FileMeans DEF FileIs
        <5> QED
          BY <5>1
      <4> QED
        BY <1>7, <2>1, <3>1, <4>1 DEF Section, RouterSection
    <3> QED
      BY <2>1, <3>1, <3>3, SectionAssumption
  <2>2. CASE s \notin NamesIn(file)
    BY <1>5, <2>2 DEF Snapshot
  <2> QED
    BY <2>1, <2>2
<1>9. Listed(c, AnyType)' = NamesIn(file)
  <2>1. \A s \in Sids : ~Created(c, s)'
    BY <1>1, <1>5 DEF Untouched, Created
  <2>2. \A s \in Sids : Loaded(c, s)' <=> s \in NamesIn(file)
    BY <1>8 DEF Loaded
  <2>3. deletesAll'[c] = {} /\ c \in loaded'
    BY <1>1, <1>5 DEF Untouched
  <2> QED
    BY <1>6, <2>1, <2>2, <2>3 DEF Listed
<1>10. ASSUME NEW s \in NamesIn(file) PROVE Shows(c, s)' = file[At(file, s)]
  <2>1. s \in Sids /\ ~Created(c, s)' /\ Loaded(c, s)'
    BY <1>1, <1>5, <1>6, <1>8 DEF Untouched, Created, Loaded
  <2>2. \A o \in Options : ~Edited(c, s, o)' /\ Get(c, s, o)' = values'[c][s].opts[o]
    BY <1>1, <1>5, <2>1 DEF Edited, Get, Untouched, Blank
  <2>3. Entry(c, s)' = values'[c][s]
    BY <2>1 DEF Entry
  <2>4. Shows(c, s)' = [name |-> s, type |-> values'[c][s].type, opts |-> [o \in Options |-> values'[c][s].opts[o]]]
    BY <2>2, <2>3 DEF Shows
  <2> QED
    BY <1>7, <1>8, <2>1, <2>4 DEF RouterSection
<1>11. \A x \in FileSections(file) : x.name \in NamesIn(file) /\ file[At(file, x.name)] = x
  BY <1>5, SameSection
<1>12. {Shows(c, s)' : s \in Listed(c, AnyType)'} = {file[At(file, s)] : s \in NamesIn(file)}
  BY <1>9, <1>10
<1>13. {file[At(file, s)] : s \in NamesIn(file)} = FileSections(file)
  BY <1>7, <1>11
<1> QED
  BY <1>1, <1>12, <1>13 DEF file

\* A save that no fault, late call or change by others disturbs leaves on the router
\* exactly the sections that the views showed, with what they showed of each option,
\* under the names that the router gave, and the views then show them.
THEOREM SavedShown == SaveSpec => SavedAsShown
<1> DEFINE Saves == SaveEnded =>
          \A c \in pkgs :
            LET asSaved == {[before[c][i] EXCEPT !.name = names[c][@]] : i \in DOMAIN before[c]}
            IN  /\ asSaved = {server'[c][i] : i \in DOMAIN server'[c]}
                /\ asSaved = {Shows(c, s)' : s \in Listed(c, AnyType)'}
<1>1. SaveOK /\ [SaveNext]_allVars => Saves
  <2> SUFFICES ASSUME SaveOK, clean, LoadReply, NEW c \in pkgs
               PROVE  AsSaved(c) = FileSections(server'[c]) /\ AsSaved(c) = {Shows(c, s)' : s \in Listed(c, AnyType)'}
    BY DEF SaveEnded, AsSaved, FileSections
  <2>1. AsSaved(c) = FileSections(server[c]) /\ server' = server
    BY DEF LoadReply, SaveOK, SavedOK
  <2> QED
    BY <2>1, LoadedShown
<1> QED
  BY <1>1, SaveOKKept, PTL DEF SaveSpec, SavedAsShown

-----------------------------------------------------------------------------
(* Indices *)

\* The indices of the loaded sections of a package are 0, 1, 2, ...
Filled(p) ==
    /\ \A s, t \in Sids : p[s] # NoSection /\ p[t] # NoSection /\ p[s].index = p[t].index => s = t
    /\ \A s \in Sids : p[s] # NoSection =>
         \A k \in 0 .. p[s].index : \E t \in Sids : p[t] # NoSection /\ p[t].index = k

\* Sections that the views list together.
Together(c, s, t) == creates[c][s].type = creates[c][t].type \/ ReadTypes \subseteq {AnyType}

\* The created sections that are listed together are in the order of their additions.
Ranked(c) ==
    \A s, t \in Sids : Created(c, s) /\ Created(c, t) =>
        /\ creates[c][s].index < NewBase + newidx
        /\ Together(c, s, t) /\ creates[c][s].birth < creates[c][t].birth =>
             creates[c][s].index <= creates[c][t].index

\* Nothing was swapped since the last load or save.
Unmoved(c) == c \notin reorder /\ phase # "ordering"

IndexOK ==
    /\ \A c \in Configs : c \notin opened \/ Unmoved(c) => Filled(values[c])
    /\ \A c \in Configs, s \in Sids : Created(c, s) => c \in opened
    /\ \A c \in Configs : Unmoved(c) => Ranked(c)
    /\ phase \in {"saving", "ordering"} => opened \subseteq pkgs
    /\ phase = "loading" => \A p \in Elements(replies) : Filled(p)

LEMMA EmptyFilled == Filled(EmptyPackage)
BY DEF Filled, EmptyPackage

\* A snapshot numbers the sections as they stand.
LEMMA SnapshotFilled == ASSUME NEW file, IsFile(file) PROVE Filled(Snapshot(file))
<1> DEFINE p == Snapshot(file)
<1>1. \A s \in Sids : p[s] # NoSection => s \in NamesIn(file)
  BY DEF Snapshot
<1>2. \A s \in Sids : s \in NamesIn(file) => p[s].index = At(file, s) - 1
  BY DEF Snapshot
<1>3. Len(file) \in Nat /\ NamesIn(file) \subseteq Sids
  BY FileMeans, NamesAreSids DEF FileIs
<1>4. \A s \in NamesIn(file) : At(file, s) \in 1 .. Len(file) /\ file[At(file, s)].name = s
  BY AtIs
<1>5. \A s \in Sids : s \in NamesIn(file) => p[s] # NoSection
  <2> SUFFICES ASSUME NEW s \in Sids, s \in NamesIn(file) PROVE p[s] # NoSection
    OBVIOUS
  <2>1. p[s] = [type |-> file[At(file, s)].type, index |-> At(file, s) - 1,
                birth |-> At(file, s) - 1, opts |-> file[At(file, s)].opts]
    BY DEF Snapshot
  <2>2. At(file, s) - 1 \in Nat
    BY <1>3, <1>4
  <2>3. file[At(file, s)] \in RouterSection
    BY AtIs
  <2>4. p[s] \in Section
    BY <2>1, <2>2, <2>3 DEF Section, RouterSection
  <2> QED
    BY <2>4, SectionAssumption
<1> HIDE DEF p
<1>6. ASSUME NEW s \in Sids, NEW t \in Sids, p[s] # NoSection, p[t] # NoSection, p[s].index = p[t].index
      PROVE  s = t
  <2>1. s \in NamesIn(file) /\ t \in NamesIn(file)
    BY <1>1, <1>6
  <2>2. PICK i : i = At(file, s)
    OBVIOUS
  <2>3. PICK j : j = At(file, t)
    OBVIOUS
  <2>4. i \in 1 .. Len(file) /\ j \in 1 .. Len(file) /\ i - 1 = j - 1 /\ file[i].name = s /\ file[j].name = t
    BY <1>2, <1>4, <1>6, <2>1, <2>2, <2>3
  <2>5. i = j
    BY <1>3, <2>4
  <2> QED
    BY <2>4, <2>5
<1>7. ASSUME NEW s \in Sids, p[s] # NoSection, NEW k \in 0 .. p[s].index
      PROVE  \E t \in Sids : p[t] # NoSection /\ p[t].index = k
  <2>1. s \in NamesIn(file)
    BY <1>1, <1>7
  <2>2. PICK i : i = At(file, s)
    OBVIOUS
  <2>3. i \in 1 .. Len(file) /\ p[s].index = i - 1
    BY <1>2, <1>4, <2>1, <2>2
  <2>4. k + 1 \in 1 .. Len(file) /\ k + 1 - 1 = k
    BY <1>3, <1>7, <2>3
  <2> DEFINE t == file[k + 1].name
  <2>5. t \in NamesIn(file)
    BY <2>4, FileMeans DEF NamesIn, FileIs
  <2>6. At(file, t) = k + 1
    <3>1. At(file, t) \in 1 .. Len(file) /\ file[At(file, t)].name = t
      BY <1>4, <2>5
    <3> QED
      BY <2>4, <3>1, FileMeans DEF FileIs
  <2>7. t \in Sids /\ p[t] # NoSection
    BY <1>3, <1>5, <2>5
  <2> HIDE DEF t
  <2>8. p[t].index = k
    BY <1>2, <2>4, <2>5, <2>6, <2>7
  <2> QED
    BY <2>7, <2>8
<1> QED
  BY <1>6, <1>7 DEF Filled, p

\* A step that moves none of the created sections of a package.
Unchanging(c) ==
    /\ newidx \in Nat /\ newidx' \in Nat /\ newidx <= newidx'
    /\ \A s \in Sids : Created(c, s)' =>
         /\ Created(c, s)
         /\ creates'[c][s].index = creates[c][s].index /\ creates'[c][s].birth = creates[c][s].birth
         /\ creates'[c][s].type = creates[c][s].type

LEMMA StillRanked ==
    ASSUME TypeOK, NEW c \in Configs, Unchanging(c), Ranked(c)
    PROVE  Ranked(c)'
<1> SUFFICES ASSUME NEW s \in Sids, NEW t \in Sids, Created(c, s)', Created(c, t)'
             PROVE  /\ creates'[c][s].index < NewBase + newidx'
                    /\ Together(c, s, t)' /\ creates'[c][s].birth < creates'[c][t].birth =>
                         creates'[c][s].index <= creates'[c][t].index
  BY DEF Ranked, Together
<1>1. /\ Created(c, s) /\ Created(c, t)
      /\ creates'[c][s].index = creates[c][s].index /\ creates'[c][s].birth = creates[c][s].birth
      /\ creates'[c][t].index = creates[c][t].index /\ creates'[c][t].birth = creates[c][t].birth
      /\ Together(c, s, t)' <=> Together(c, s, t)
  BY DEF Unchanging, Together
<1>2. creates[c][s].index < NewBase + newidx
  BY <1>1 DEF Ranked
<1>3. creates[c][s].index \in Nat
  BY <1>1 DEF TypeOK, Package, Section, Created
<1>4. creates'[c][s].index < NewBase + newidx'
  BY <1>1, <1>2, <1>3, BoundsAssumption DEF Unchanging
<1> QED
  BY <1>1, <1>4 DEF Ranked

\* A rank counts loaded and created sections.
LEMMA RankBound ==
    ASSUME NEW c, NEW type, NEW s
    PROVE  Rank(c, type, s) \in Nat /\ Rank(c, type, s) <= NewBase
<1> DEFINE listed   == {t \in Listed(c, type) : Before(c, t, s)}
           shadowed == {t \in Shadowed(c, type) : ShadowedBefore(c, t, s)}
           n        == Cardinality(Sids)
<1>1. listed \in SUBSET Sids /\ shadowed \in SUBSET Sids
  BY DEF Listed, Shadowed
<1>2. Rank(c, type, s) = Cardinality(listed) + Cardinality(shadowed)
  BY DEF Rank
<1> HIDE DEF listed, shadowed
<1>3. /\ IsFiniteSet(listed) /\ Cardinality(listed) <= n
      /\ IsFiniteSet(shadowed) /\ Cardinality(shadowed) <= n
  BY <1>1, SidsAssumption, FS_Subset
<1>4. n \in Nat /\ Cardinality(listed) \in Nat /\ Cardinality(shadowed) \in Nat
  BY <1>3, SidsAssumption, FS_CardinalityType
<1>5. NewBase \in Nat /\ 2 * n <= NewBase
  BY BoundsAssumption, RoomAssumption
<1> HIDE DEF n
<1> QED
  BY <1>2, <1>3, <1>4, <1>5

\* A created section that was added before another one, and is not behind it, is not
\* ranked behind it.
LEMMA RanksFollow ==
    ASSUME TypeOK, NEW c \in Configs, NEW type, NEW s \in Sids, NEW t \in Sids,
           Created(c, s), Created(c, t),
           creates[c][s].birth < creates[c][t].birth, creates[c][s].index <= creates[c][t].index
    PROVE  Rank(c, type, s) <= Rank(c, type, t)
<1> DEFINE listed(y)   == {x \in Listed(c, type) : Before(c, x, y)}
           shadowed(y) == {x \in Shadowed(c, type) : ShadowedBefore(c, x, y)}
<1>1. creates[c][s] \in Section /\ creates[c][t] \in Section
  BY DEF TypeOK, Package, Created
<1>2. /\ creates[c][s].index \in Nat /\ creates[c][s].birth \in Nat
      /\ creates[c][t].index \in Nat /\ creates[c][t].birth \in Nat
  BY <1>1 DEF Section
<1>3. Entry(c, s) = creates[c][s] /\ Entry(c, t) = creates[c][t]
  BY DEF Entry
<1>4. ASSUME NEW x \in Listed(c, type), Before(c, x, s) PROVE Before(c, x, t)
  <2>1. Entry(c, x) \in Section
    BY EntryIsSection DEF Listed, Exists
  <2>2. Entry(c, x).index \in Nat /\ Entry(c, x).birth \in Nat
    BY <2>1 DEF Section
  <2>3. Entry(c, x).index <= Entry(c, s).index
    BY <1>2, <1>3, <1>4, <2>2 DEF Before
  <2>4. CASE Entry(c, x).index < Entry(c, t).index
    BY <2>4 DEF Before
  <2>5. CASE ~(Entry(c, x).index < Entry(c, t).index)
    <3>1. Entry(c, x).index = Entry(c, s).index /\ Entry(c, x).index = Entry(c, t).index
      BY <1>2, <1>3, <2>2, <2>3, <2>5
    <3>2. ~(Entry(c, x).index < Entry(c, s).index)
      BY <1>2, <1>3, <3>1
    <3>3. Created(c, x) => Entry(c, x).birth < Entry(c, s).birth
      BY <1>4, <3>2 DEF Before
    <3>4. Created(c, x) => Entry(c, x).birth < Entry(c, t).birth
      BY <1>2, <1>3, <2>2, <3>3
    <3> QED
      BY <3>1, <3>4 DEF Before
  <2> QED
    BY <2>4, <2>5
<1>5. ASSUME NEW x \in Shadowed(c, type), ShadowedBefore(c, x, s) PROVE ShadowedBefore(c, x, t)
  <2>1. values[c][x].index \in Nat
    BY DEF Shadowed, TypeOK, Package, Section, Loaded
  <2>2. values[c][x].index <= creates[c][s].index
    BY <1>2, <1>3, <1>5, <2>1 DEF ShadowedBefore
  <2>3. values[c][x].index < creates[c][t].index \/ values[c][x].index = creates[c][t].index
    BY <1>2, <2>1, <2>2
  <2> QED
    BY <1>3, <2>3 DEF ShadowedBefore
<1>6. /\ listed(s) \subseteq listed(t) /\ shadowed(s) \subseteq shadowed(t)
      /\ listed(s) \subseteq Sids /\ listed(t) \subseteq Sids
      /\ shadowed(s) \subseteq Sids /\ shadowed(t) \subseteq Sids
  BY <1>4, <1>5 DEF Listed, Shadowed
<1>7. \A y : Rank(c, type, y) = Cardinality(listed(y)) + Cardinality(shadowed(y))
  BY DEF Rank
<1> HIDE DEF listed, shadowed
<1>8. Cardinality(listed(s)) <= Cardinality(listed(t)) /\ Cardinality(shadowed(s)) <= Cardinality(shadowed(t))
  BY <1>6, SidsAssumption, FS_Subset
<1>9. /\ Cardinality(listed(s)) \in Nat /\ Cardinality(listed(t)) \in Nat
      /\ Cardinality(shadowed(s)) \in Nat /\ Cardinality(shadowed(t)) \in Nat
  BY <1>6, SidsAssumption, FS_Subset, FS_CardinalityType
<1> QED
  BY <1>7, <1>8, <1>9

LEMMA RankedRead ==
    ASSUME TypeOK, Births, NEW c \in Configs, NEW type \in ReadTypes, ReadSections(c, type), Ranked(c)
    PROVE  Ranked(c)'
<1>1. \A s \in Sids :
         creates'[c][s] = IF Created(c, s) /\ s \in Listed(c, type)
                          THEN [creates[c][s] EXCEPT !.index = Rank(c, type, s)] ELSE creates[c][s]
  BY DEF ReadSections, TypeOK
<1>2. newidx' = newidx /\ c \in loaded /\ newidx \in Nat
  BY DEF ReadSections, TypeOK
<1>3. ASSUME NEW s \in Sids, Created(c, s)'
      PROVE  /\ Created(c, s) /\ creates[c][s] \in Section
             /\ creates'[c][s].birth = creates[c][s].birth /\ creates'[c][s].type = creates[c][s].type
             /\ creates'[c][s].index = IF s \in Listed(c, type) THEN Rank(c, type, s) ELSE creates[c][s].index
             /\ s \in Listed(c, type) <=> type \in {AnyType, creates[c][s].type}
  <2>1. Created(c, s)
    BY <1>1, <1>3 DEF Created
  <2>2. creates[c][s] \in Section
    BY <2>1 DEF TypeOK, Package, Created
  <2>3. s \in Listed(c, type) <=> type \in {AnyType, creates[c][s].type}
    BY <1>2, <2>1 DEF Listed, Entry
  <2>4. CASE s \in Listed(c, type)
    <3>1. creates'[c][s] = [creates[c][s] EXCEPT !.index = Rank(c, type, s)]
      BY <1>1, <2>1, <2>4
    <3> HIDE DEF Rank
    <3> QED
      BY <2>1, <2>2, <2>3, <2>4, <3>1 DEF Section
  <2>5. CASE s \notin Listed(c, type)
    BY <1>1, <2>1, <2>2, <2>3, <2>5
  <2> QED
    BY <2>4, <2>5
<1> SUFFICES ASSUME NEW s \in Sids, NEW t \in Sids, Created(c, s)', Created(c, t)'
             PROVE  /\ creates'[c][s].index < NewBase + newidx'
                    /\ Together(c, s, t)' /\ creates'[c][s].birth < creates'[c][t].birth =>
                         creates'[c][s].index <= creates'[c][t].index
  BY DEF Ranked, Together
<1>4. /\ creates'[c][s].index = IF s \in Listed(c, type) THEN Rank(c, type, s) ELSE creates[c][s].index
      /\ creates'[c][t].index = IF t \in Listed(c, type) THEN Rank(c, type, t) ELSE creates[c][t].index
      /\ creates'[c][s].birth = creates[c][s].birth /\ creates'[c][t].birth = creates[c][t].birth
      /\ Created(c, s) /\ Created(c, t)
  BY <1>3
<1>5. creates'[c][s].index < NewBase + newidx'
  <2>1. creates[c][s].birth \in Nat /\ creates[c][s].birth < newidx /\ creates[c][s].index < NewBase + newidx
    BY <1>3 DEF Births, Ranked, Section
  <2>2. Rank(c, type, s) < NewBase + newidx
    BY <1>2, <2>1, RankBound, BoundsAssumption
  <2> QED
    BY <1>2, <1>4, <2>1, <2>2
<1>6. ASSUME Together(c, s, t)', creates'[c][s].birth < creates'[c][t].birth
      PROVE  creates'[c][s].index <= creates'[c][t].index
  <2>1. Together(c, s, t)
    BY <1>3, <1>6 DEF Together
  <2>2. creates[c][s].index <= creates[c][t].index /\ creates[c][s].birth < creates[c][t].birth
    BY <1>4, <1>6, <2>1 DEF Ranked
  <2>3. s \in Listed(c, type) <=> t \in Listed(c, type)
    BY <1>3, <2>1 DEF Together
  <2>4. Rank(c, type, s) <= Rank(c, type, t)
    BY <1>4, <2>2, RanksFollow
  <2> QED
    BY <1>4, <2>2, <2>3, <2>4
<1> QED
  BY <1>5, <1>6

LEMMA RankedCreate ==
    ASSUME TypeOK, Births, NEW c \in Configs, NEW s \in Sids, NEW type \in Types, Create(c, type, s), Ranked(c)
    PROVE  Ranked(c)'
<1> DEFINE new == [type |-> type, index |-> NewBase + newidx, birth |-> newidx, opts |-> Blank]
<1>1. creates'[c][s] = new /\ new.index = NewBase + newidx /\ new.birth = newidx
  BY DEF Create, TypeOK, Package
<1> HIDE DEF new
<1>2. \A x \in Sids : x # s => creates'[c][x] = creates[c][x]
  BY DEF Create, TypeOK, Package
<1>3. newidx' = newidx + 1 /\ newidx \in Nat /\ NewBase \in Nat
  BY BoundsAssumption DEF Create, TypeOK
<1> SUFFICES ASSUME NEW x \in Sids, NEW y \in Sids, Created(c, x)', Created(c, y)'
             PROVE  /\ creates'[c][x].index < NewBase + newidx'
                    /\ Together(c, x, y)' /\ creates'[c][x].birth < creates'[c][y].birth =>
                         creates'[c][x].index <= creates'[c][y].index
  BY DEF Ranked, Together
<1>4. ASSUME NEW z \in Sids, z # s, Created(c, z)'
      PROVE  /\ Created(c, z) /\ creates'[c][z] = creates[c][z]
             /\ creates[c][z].index \in Nat /\ creates[c][z].birth \in Nat
             /\ creates[c][z].index < NewBase + newidx /\ creates[c][z].birth < newidx
  <2>1. Created(c, z) /\ creates'[c][z] = creates[c][z]
    BY <1>2, <1>4 DEF Created
  <2>2. creates[c][z] \in Section
    BY <2>1 DEF TypeOK, Package, Created
  <2> QED
    BY <2>1, <2>2 DEF Section, Ranked, Births
<1>5. CASE x = s /\ y = s
  BY <1>1, <1>3, <1>5
<1>6. CASE x = s /\ y # s
  BY <1>1, <1>3, <1>4, <1>6
<1>7. CASE x # s /\ y = s
  BY <1>1, <1>3, <1>4, <1>7
<1>8. CASE x # s /\ y # s
  BY <1>3, <1>4, <1>8 DEF Ranked, Together
<1> QED
  BY <1>5, <1>6, <1>7, <1>8

\* A swap of loaded sections exchanges their indices.
LEMMA FilledSwap ==
    ASSUME TypeOK, NEW c \in Configs, NEW s \in Sids, NEW t \in Sids, Swap(c, s, t),
           \A x \in Sids : ~Created(c, x), Filled(values[c])
    PROVE  Filled(values'[c])
<1> DEFINE other == [x \in Sids |-> IF x = s THEN t ELSE IF x = t THEN s ELSE x]
           new == {x \in {s, t} : Created(c, x)}
<1>1. PICK p : p = values[c]
  OBVIOUS
<1>2. PICK q : q = values'[c]
  OBVIOUS
<1>3. Loaded(c, s) /\ Loaded(c, t)
  BY DEF Swap, Rendered, Listed
<1>4. \A x \in Sids : Entry(c, x) = p[x]
  BY <1>1 DEF Entry
<1>5. {s, t} \ new = {s, t}
  OBVIOUS
<1>6. \A x \in Sids : q[x] = IF x \in {s, t} THEN [p[x] EXCEPT !.index = Entry(c, IF x = s THEN t ELSE s).index]
                             ELSE p[x]
  <2>1. values'[c] = Reindexed(values[c], c, s, t, {s, t} \ new)
    BY DEF Swap, TypeOK
  <2> QED
    BY <1>1, <1>2, <1>5, <2>1 DEF Reindexed
<1>7. \A x \in Sids : (q[x] = NoSection <=> p[x] = NoSection) /\ p[x] \in Section \cup {NoSection}
  BY <1>1, <1>2, SwapIndices DEF SameButIndex, TypeOK, Package
<1> HIDE DEF new
<1>8. ASSUME NEW x \in Sids, p[x] # NoSection
      PROVE  q[x].index = p[other[x]].index
  <2>1. p[x] \in Section
    BY <1>7, <1>8
  <2>2. CASE x = s
    <3>1. q[x] = [p[x] EXCEPT !.index = p[t].index] /\ other[x] = t
      BY <1>4, <1>6, <2>2
    <3> QED
      BY <2>1, <3>1 DEF Section
  <2>3. CASE x # s /\ x = t
    <3>1. q[x] = [p[x] EXCEPT !.index = p[s].index] /\ other[x] = s
      BY <1>4, <1>6, <2>3
    <3> QED
      BY <2>1, <3>1 DEF Section
  <2>4. CASE x # s /\ x # t
    BY <1>6, <2>4
  <2> QED
    BY <2>2, <2>3, <2>4
<1>9. \A x \in Sids : /\ other[x] \in Sids /\ other[other[x]] = x
                      /\ p[other[x]] # NoSection <=> p[x] # NoSection
  BY <1>1, <1>3 DEF Loaded
<1> HIDE DEF other
<1>10. Filled(p)
  BY <1>1
<1>11. ASSUME NEW x \in Sids, NEW y \in Sids, q[x] # NoSection, q[y] # NoSection, q[x].index = q[y].index
       PROVE  x = y
  <2>1. p[x] # NoSection /\ p[y] # NoSection /\ p[other[x]].index = p[other[y]].index
    BY <1>7, <1>8, <1>11
  <2>2. other[x] = other[y]
    BY <1>9, <1>10, <2>1 DEF Filled
  <2> QED
    BY <1>9, <2>2
<1>12. ASSUME NEW x \in Sids, q[x] # NoSection, NEW k \in 0 .. q[x].index
       PROVE  \E y \in Sids : q[y] # NoSection /\ q[y].index = k
  <2>1. p[x] # NoSection /\ k \in 0 .. p[other[x]].index /\ p[other[x]] # NoSection
    BY <1>7, <1>8, <1>9, <1>12
  <2>2. PICK z \in Sids : p[z] # NoSection /\ p[z].index = k
    BY <1>9, <1>10, <2>1 DEF Filled
  <2>3. other[z] \in Sids /\ p[other[z]] # NoSection /\ other[other[z]] = z
    BY <1>9, <2>2
  <2>4. q[other[z]].index = k /\ q[other[z]] # NoSection
    BY <1>7, <1>8, <2>2, <2>3
  <2> QED
    BY <2>3, <2>4
<1> QED
  BY <1>2, <1>11, <1>12 DEF Filled

LEMMA IndexInit == SaveInit => IndexOK
<1> SUFFICES ASSUME SaveInit PROVE IndexOK
  OBVIOUS
<1>1. /\ \A c \in Configs : values[c] = EmptyPackage
      /\ \A c \in Configs, s \in Sids : ~Created(c, s)
      /\ phase = "idle"
  BY DEF SaveInit, Init, Created, EmptyPackage
<1> QED
  BY <1>1, EmptyFilled DEF IndexOK, Ranked

LEMMA IndexSame ==
    ASSUME IndexOK, UNCHANGED vars, phase' = "ordering" <=> phase = "ordering",
           phase' \in {"saving", "ordering"} => opened \subseteq pkgs',
           phase' = "loading" => \A p \in Elements(replies') : Filled(p)
    PROVE  IndexOK'
<1>1. UNCHANGED <<values, creates, opened, reorder, newidx>>
  BY DEF vars
<1>2. \A c \in Configs : Unmoved(c)' <=> Unmoved(c)
  BY <1>1 DEF Unmoved
<1>3. \A c \in Configs : Ranked(c) => Ranked(c)'
  BY <1>1 DEF Ranked, Together, Created
<1>4. (\A c \in Configs : c \notin opened \/ Unmoved(c) => Filled(values[c]))'
  BY <1>1, <1>2 DEF IndexOK
<1>5. (\A c \in Configs, s \in Sids : Created(c, s) => c \in opened)'
  BY <1>1 DEF IndexOK, Created
<1>6. (\A c \in Configs : Unmoved(c) => Ranked(c))'
  BY <1>2, <1>3 DEF IndexOK
<1>7. (phase = "loading" => \A p \in Elements(replies) : Filled(p))'
  BY DEF Elements
<1> QED
  BY <1>1, <1>4, <1>5, <1>6, <1>7 DEF IndexOK

\* Packages are dropped; the others stay as they are.
LEMMA UnloadIndex ==
    ASSUME TypeOK, IndexOK, NEW packages \in SUBSET Configs, Unload(packages),
           \A c \in Configs \ packages : c \notin opened \/ Unmoved(c)' => c \notin opened \/ Unmoved(c),
           \A c \in Configs \ packages : Unmoved(c)' => Unmoved(c) \/ c \notin opened,
           phase' \notin {"saving", "ordering"}, phase' = "loading" => Elements(replies') = {}
    PROVE  IndexOK'
<1>1. /\ \A c \in packages : values'[c] = EmptyPackage /\ creates'[c] = EmptyPackage
      /\ \A c \in Configs \ packages : values'[c] = values[c] /\ creates'[c] = creates[c]
      /\ opened' = opened \ packages /\ newidx' = newidx
  BY DEF Unload
<1>2. \A c \in packages, s \in Sids : ~Created(c, s)'
  BY <1>1 DEF Created, EmptyPackage
<1>3. ASSUME NEW c \in Configs, c \notin opened' \/ Unmoved(c)' PROVE Filled(values'[c])
  <2>1. CASE c \in packages
    BY <1>1, <2>1, EmptyFilled
  <2>2. CASE c \notin packages
    BY <1>1, <1>3, <2>2 DEF IndexOK
  <2> QED
    BY <2>1, <2>2
<1>4. ASSUME NEW c \in Configs, NEW s \in Sids, Created(c, s)' PROVE c \in opened'
  BY <1>1, <1>2, <1>4 DEF IndexOK, Created
<1>5. ASSUME NEW c \in Configs, Unmoved(c)' PROVE Ranked(c)'
  <2>1. CASE c \in packages
    BY <1>2, <2>1 DEF Ranked
  <2>2. CASE c \notin packages /\ c \notin opened
    BY <1>1, <1>4, <2>2 DEF Ranked
  <2>3. CASE c \notin packages /\ c \in opened
    <3>1. Ranked(c)
      BY <1>5, <2>3 DEF IndexOK
    <3> QED
      BY <1>1, <2>3, <3>1 DEF Ranked, Together, Created
  <2> QED
    BY <2>1, <2>2, <2>3
<1>6. (\A c \in Configs : c \notin opened \/ Unmoved(c) => Filled(values[c]))'
  BY <1>3 DEF Filled
<1>7. (phase = "loading" => \A p \in Elements(replies) : Filled(p))'
  BY DEF Elements
<1> QED
  BY <1>4, <1>5, <1>6, <1>7 DEF IndexOK

\* An edit that leaves the order alone.
LEMMA EditIndex ==
    ASSUME IndexOK, phase = "idle", phase' = "idle", UNCHANGED <<values, reorder>>, opened \subseteq opened',
           \A c \in Configs, s \in Sids : Created(c, s)' => Created(c, s) \/ c \in opened',
           \A c \in Configs : Ranked(c) => Ranked(c)'
    PROVE  IndexOK'
<1>1. \A c \in Configs : Unmoved(c)' <=> Unmoved(c)
  BY DEF Unmoved
<1>2. (\A c \in Configs : c \notin opened \/ Unmoved(c) => Filled(values[c]))'
  BY <1>1 DEF IndexOK
<1>3. (\A c \in Configs, s \in Sids : Created(c, s) => c \in opened)'
  BY DEF IndexOK
<1>4. (\A c \in Configs : Unmoved(c) => Ranked(c))'
  BY <1>1 DEF IndexOK
<1> QED
  BY <1>2, <1>3, <1>4 DEF IndexOK

LEMMA OthersUnchanging ==
    ASSUME TypeOK, NEW c \in Configs, creates'[c] = creates[c], newidx' \in {newidx, newidx + 1}
    PROVE  Unchanging(c)
BY DEF Unchanging, Created, TypeOK

LEMMA AddIndex ==
    ASSUME TypeOK, Births, IndexOK, phase = "idle", phase' = "idle",
           NEW c \in Configs, NEW s \in Sids, NEW type \in Types, Create(c, type, s)
    PROVE  IndexOK'
<1>1. /\ UNCHANGED <<values, reorder>> /\ opened' = opened \cup {c} /\ newidx' = newidx + 1
      /\ \A d \in Configs : d # c => creates'[d] = creates[d]
  BY DEF Create, TypeOK
<1>2. \A d \in Configs : Ranked(d) => Ranked(d)'
  BY <1>1, RankedCreate, OthersUnchanging, StillRanked
<1>3. \A d \in Configs, x \in Sids : Created(d, x)' => Created(d, x) \/ d \in opened'
  BY <1>1 DEF Created
<1> QED
  BY <1>1, <1>2, <1>3, EditIndex

LEMMA RemoveIndex ==
    ASSUME TypeOK, IndexOK, phase = "idle", phase' = "idle",
           NEW c \in Configs, NEW s \in Sids, RemoveCreated(c, s) \/ RemoveLoaded(c, s)
    PROVE  IndexOK'
<1>1. UNCHANGED <<values, reorder, opened, newidx>>
  BY DEF RemoveCreated, RemoveLoaded
<1>2. \A d \in Configs, x \in Sids : creates'[d][x] # NoSection => creates'[d][x] = creates[d][x]
  <2>1. CASE RemoveCreated(c, s)
    BY <2>1 DEF RemoveCreated, TypeOK, Package
  <2>2. CASE RemoveLoaded(c, s)
    BY <2>2 DEF RemoveLoaded
  <2> QED
    BY <2>1, <2>2
<1>3. \A d \in Configs : Unchanging(d)
  BY <1>1, <1>2 DEF Unchanging, Created, TypeOK
<1> QED
  BY <1>1, <1>2, <1>3, EditIndex, StillRanked DEF Created

LEMMA SetIndex ==
    ASSUME TypeOK, IndexOK, phase = "idle", phase' = "idle",
           NEW c \in Configs, NEW s \in Sids, NEW o \in Options, NEW val \in Values \cup {None},
           SetCreated(c, s, o, val) \/ SetChange(c, s, o, val) \/ SetDelete(c, s, o, val)
    PROVE  IndexOK'
<1>1. UNCHANGED <<values, reorder, opened, newidx>> /\ newidx \in Nat
  BY DEF SetCreated, SetChange, SetDelete, TypeOK
<1>2. ASSUME NEW d \in Configs, NEW x \in Sids, Created(d, x)'
      PROVE  /\ Created(d, x)
             /\ creates'[d][x].index = creates[d][x].index /\ creates'[d][x].birth = creates[d][x].birth
             /\ creates'[d][x].type = creates[d][x].type
  <2>1. CASE SetCreated(c, s, o, val) /\ <<d, x>> = <<c, s>>
    <3>1. Created(c, s) /\ creates[c][s] \in Section
      BY <2>1 DEF SetCreated, Created, TypeOK, Package
    <3>2. creates'[c][s] = [creates[c][s] EXCEPT !.opts[o] = val]
      BY <2>1 DEF SetCreated, TypeOK, Package
    <3> QED
      BY <2>1, <3>1, <3>2 DEF Section
  <2>2. CASE ~(SetCreated(c, s, o, val) /\ <<d, x>> = <<c, s>>)
    <3>1. creates'[d][x] = creates[d][x]
      BY <2>2 DEF SetCreated, SetChange, SetDelete, TypeOK, Package
    <3> QED
      BY <1>2, <3>1 DEF Created
  <2> QED
    BY <2>1, <2>2
<1>3. \A d \in Configs : Unchanging(d)
  BY <1>1, <1>2 DEF Unchanging
<1> QED
  BY <1>1, <1>2, <1>3, EditIndex, StillRanked

LEMMA ReadIndex ==
    ASSUME TypeOK, Births, IndexOK, phase = "idle", phase' = "idle",
           NEW c \in Configs, NEW type \in ReadTypes, ReadSections(c, type)
    PROVE  IndexOK'
<1>1. UNCHANGED <<values, reorder, opened, newidx>>
  BY DEF ReadSections
<1>2. \A d \in Configs : d # c => creates'[d] = creates[d]
  BY DEF ReadSections, TypeOK
<1>3. \A d \in Configs : Ranked(d) => Ranked(d)'
  BY <1>1, <1>2, RankedRead, OthersUnchanging, StillRanked
<1>4. \A d \in Configs, x \in Sids : Created(d, x)' => Created(d, x)
  BY ReadBirths DEF NoneAdded
<1> QED
  BY <1>1, <1>3, <1>4, EditIndex

LEMMA SwapIndex ==
    ASSUME TypeOK, IndexOK, phase = "idle", phase' = "idle",
           NEW c \in Configs, NEW s \in Sids, NEW t \in Sids, Swap(c, s, t)
    PROVE  IndexOK'
<1>1. /\ UNCHANGED <<opened, newidx>> /\ reorder' = reorder \cup {c}
      /\ \A d \in Configs : d # c => values'[d] = values[d] /\ creates'[d] = creates[d]
  BY DEF Swap, TypeOK
<1>2. \A d \in Configs : Unmoved(d)' => Unmoved(d) /\ d # c
  BY <1>1 DEF Unmoved
<1>3. ASSUME NEW d \in Configs, d \notin opened' \/ Unmoved(d)' PROVE Filled(values'[d])
  <2>1. CASE d = c
    <3>1. d \notin opened /\ \A x \in Sids : ~Created(c, x)
      BY <1>1, <1>2, <1>3, <2>1 DEF IndexOK
    <3>2. Filled(values[c])
      BY <2>1, <3>1 DEF IndexOK
    <3> QED
      BY <2>1, <3>1, <3>2, FilledSwap
  <2>2. CASE d # c
    BY <1>1, <1>2, <1>3, <2>2 DEF IndexOK
  <2> QED
    BY <2>1, <2>2
<1>4. \A d \in Configs, x \in Sids : Created(d, x)' => d \in opened'
  BY <1>1, SwapBirths DEF NoneAdded, IndexOK
<1>5. \A d \in Configs : Unmoved(d)' => Ranked(d)'
  <2> SUFFICES ASSUME NEW d \in Configs, Unmoved(d)' PROVE Ranked(d)'
    OBVIOUS
  <2>1. Ranked(d) /\ d # c
    BY <1>2 DEF IndexOK
  <2> QED
    BY <1>1, <2>1, OthersUnchanging, StillRanked
<1>6. (\A d \in Configs : d \notin opened \/ Unmoved(d) => Filled(values[d]))'
  BY <1>3 DEF Filled
<1> QED
  BY <1>4, <1>5, <1>6 DEF IndexOK

LEMMA EditIndexStep ==
    ASSUME TypeOK, Births, IndexOK, Edit
    PROVE  IndexOK'
<1>1. phase = "idle" /\ phase' = "idle"
  BY DEF Edit, saveVars, wireVars
<1>2. ASSUME NEW c \in Configs, Unload({c}) PROVE IndexOK'
  <2>1. reorder' = reorder
    BY <1>2 DEF Unload
  <2>2. \A d \in Configs : Unmoved(d)' <=> Unmoved(d)
    BY <1>1, <2>1 DEF Unmoved
  <2> QED
    BY <1>1, <1>2, <2>2, UnloadIndex
<1>3. ASSUME NEW c \in Configs, NEW s \in Sids \ Fresh, NEW type \in Types,
             AddNamed(c, type, s) \/ AddAnonymous(c, type, s)
      PROVE  IndexOK'
  BY <1>1, <1>3, AddIndex DEF AddNamed, AddAnonymous
<1> QED
  BY <1>1, <1>2, <1>3, RemoveIndex, SetIndex, ReadIndex, SwapIndex DEF Edit

LEMMA RouterRunsIndex ==
    ASSUME SaveOK, IndexOK, RouterRuns
    PROVE  IndexOK'
<1> DEFINE call == Head(calls)
<1>1. PICK effect \in Effects(call) :
        /\ server' = [server EXCEPT ![call.conf] = effect.file]
        /\ replies' = Append(replies, effect.reply)
  BY DEF RouterRuns
<1>2. /\ calls # <<>> /\ UNCHANGED vars /\ UNCHANGED <<phase, pkgs>>
  BY DEF RouterRuns
<1>3. phase = "loading" => \A p \in Elements(replies') : Filled(p)
  <2> SUFFICES ASSUME phase = "loading" PROVE \A p \in Elements(replies') : Filled(p)
    OBVIOUS
  <2>1. /\ BatchOK(calls, asked) /\ ServerOK /\ IsSeq(replies)
    BY DEF SaveOK, SaveInv, SaveTypeOK, WireOK, ServerOK
  <2>2. CallOK(call) /\ call \in Elements(calls) /\ call.conf \in Configs
    BY <1>2, <2>1, BatchAfter DEF CallOK
  <2>3. call.op = "load"
    BY <2>2 DEF SaveOK, SaveInv, WireOK
  <2>4. effect.reply = Snapshot(server[call.conf])
    <3>1. \A c \in Configs : server'[c] = server[c] /\ effect.reply = Snapshot(server[call.conf])
      BY <1>1, <2>1, <2>2, <2>3, SectionsKept
    <3> QED
      BY <2>2, <3>1
  <2> HIDE DEF call
  <2>5. Filled(effect.reply)
    BY <2>1, <2>2, <2>4, SnapshotFilled DEF ServerOK
  <2>6. Elements(replies') \subseteq Elements(replies) \cup {effect.reply}
    BY <1>1, <2>1, Appended
  <2> QED
    BY <2>5, <2>6 DEF IndexOK
<1> HIDE DEF call
<1> QED
  BY <1>2, <1>3, IndexSame DEF IndexOK

LEMMA RefusesIndex ==
    ASSUME SaveOK, IndexOK, RouterRefuses
    PROVE  IndexOK'
<1> DEFINE reply == FailedReply(Head(calls))
<1>1. /\ calls # <<>> /\ replies' = Append(replies, reply)
      /\ UNCHANGED vars /\ UNCHANGED <<phase, pkgs>>
  BY DEF RouterRefuses
<1>2. phase = "loading" => \A p \in Elements(replies') : Filled(p)
  <2> SUFFICES ASSUME phase = "loading" PROVE \A p \in Elements(replies') : Filled(p)
    OBVIOUS
  <2>1. BatchOK(calls, asked) /\ IsSeq(calls) /\ IsSeq(replies)
    BY DEF SaveOK, SaveInv, WireOK, BatchOK
  <2>2. Head(calls).op = "load"
    BY <1>1, <2>1, FirstAndRest DEF SaveOK, SaveInv, WireOK
  <2>3. reply = EmptyPackage
    BY <2>2 DEF FailedReply
  <2>4. Elements(replies') \subseteq Elements(replies) \cup {reply}
    BY <1>1, <2>1, Appended
  <2> QED
    BY <2>3, <2>4, EmptyFilled DEF IndexOK
<1> HIDE DEF reply
<1> QED
  BY <1>1, <1>2, IndexSame DEF IndexOK

LEMMA LoadReplyIndex ==
    ASSUME SaveOK, IndexOK, LoadReply
    PROVE  IndexOK'
<1> DEFINE list == SetToSeq(pkgs)
           answer == [c \in pkgs |-> replies[CHOOSE i \in DOMAIN list : list[i] = c]]
<1>1. /\ phase = "loading" /\ calls = <<>> /\ phase' = "idle"
      /\ UNCHANGED <<creates, opened, reorder, newidx>>
  BY DEF LoadReply
<1>2. values' = [c \in Configs |-> IF c \in pkgs THEN answer[c] ELSE values[c]]
  BY DEF LoadReply
<1>3. \A c \in pkgs : answer[c] \in Elements(replies)
  BY <1>1, AllLoaded DEF Elements
<1> HIDE DEF answer
<1>4. \A p \in Elements(replies) : Filled(p)
  BY <1>1 DEF IndexOK
<1>5. \A c \in Configs : Unmoved(c)' <=> Unmoved(c)
  BY <1>1 DEF Unmoved
<1>6. ASSUME NEW c \in Configs, c \notin opened' \/ Unmoved(c)' PROVE Filled(values'[c])
  BY <1>1, <1>2, <1>3, <1>4, <1>5, <1>6 DEF IndexOK
<1>7. (\A c \in Configs : c \notin opened \/ Unmoved(c) => Filled(values[c]))'
  BY <1>6 DEF Filled
<1>8. (\A c \in Configs, s \in Sids : Created(c, s) => c \in opened)'
  BY <1>1 DEF IndexOK, Created
<1>9. \A c \in Configs : Ranked(c)' <=> Ranked(c)
  BY <1>1 DEF Ranked, Together, Created
<1> QED
  BY <1>1, <1>5, <1>7, <1>8, <1>9 DEF IndexOK

\* The answer to a save: the packages are dropped, or ordered first.
LEMMA AnsweredIndex ==
    ASSUME TypeOK, SaveTypeOK, IndexOK, NEW responses, phase = "saving", Answered(responses)
    PROVE  IndexOK'
<1>1. CASE reorder = {} /\ UnloadAndLoad
  <2>1. Unload(pkgs) /\ phase' = "loading" /\ replies' = <<>> /\ pkgs \in SUBSET Configs
    BY <1>1 DEF UnloadAndLoad, Send, SaveTypeOK
  <2>2. \A c \in Configs : Unmoved(c)
    BY <1>1 DEF Unmoved
  <2>3. Elements(replies') = {}
    BY <2>1, NoElements
  <2> QED
    BY <2>1, <2>2, <2>3, UnloadIndex
<1>2. CASE /\ phase' = "ordering" /\ UNCHANGED <<values, creates, opened, newidx>> /\ UNCHANGED pkgs
  <2>1. \A c \in Configs : ~Unmoved(c)'
    BY <1>2 DEF Unmoved
  <2>2. (\A c \in Configs : c \notin opened \/ Unmoved(c) => Filled(values[c]))'
    BY <1>2, <2>1 DEF IndexOK
  <2>3. (\A c \in Configs, s \in Sids : Created(c, s) => c \in opened)'
    BY <1>2 DEF IndexOK, Created
  <2> QED
    BY <1>2, <2>1, <2>2, <2>3 DEF IndexOK
<1> QED
  BY <1>1, <1>2 DEF Answered

LEMMA OrderEndsIndex ==
    ASSUME SaveTypeOK, IndexOK, phase = "ordering", UnloadAndLoad
    PROVE  IndexOK'
<1>1. Unload(pkgs) /\ phase' = "loading" /\ replies' = <<>> /\ pkgs \in SUBSET Configs /\ TypeOK
  BY DEF UnloadAndLoad, Send, SaveTypeOK
<1>2. \A c \in Configs \ pkgs : c \notin opened
  BY DEF IndexOK
<1>3. Elements(replies') = {}
  BY <1>1, NoElements
<1> QED
  BY <1>1, <1>2, <1>3, UnloadIndex

LEMMA IndexStep == SaveOK /\ IndexOK /\ [SaveNext]_allVars => IndexOK'
<1> SUFFICES ASSUME SaveOK, IndexOK, [SaveNext]_allVars PROVE IndexOK'
  OBVIOUS
<1>1. TypeOK /\ SaveTypeOK /\ Births
  BY DEF SaveOK, SaveInv, SaveTypeOK
<1>2. CASE Save
  <2>1. UNCHANGED vars /\ phase = "idle" /\ phase' = "saving" /\ opened \subseteq pkgs'
    BY <1>2 DEF Save, EditedPackages
  <2> QED
    BY <2>1, IndexSame
<1>3. ASSUME NEW packages \in SUBSET Configs, LoadPackages(packages) PROVE IndexOK'
  <2>1. UNCHANGED vars /\ phase = "idle" /\ phase' = "loading" /\ Elements(replies') = {}
    BY <1>3, NoElements DEF LoadPackages, Send
  <2> QED
    BY <2>1, IndexSame
<1>4. CASE LoadGivenUp
  <2>1. UNCHANGED vars /\ phase = "loading" /\ phase' = "idle"
    BY <1>4 DEF LoadGivenUp
  <2> QED
    BY <2>1, IndexSame
<1>5. CASE SaveReply \/ SaveGivenUp
  BY <1>1, <1>5, AnsweredIndex DEF SaveReply, SaveGivenUp
<1>6. CASE OrderReply \/ OrderGivenUp
  BY <1>1, <1>6, OrderEndsIndex DEF OrderReply, OrderGivenUp
<1>7. CASE RouterRunsStale \/ RouterDropsStale \/ ForeignEdit \/ UNCHANGED allVars
  <2>1. UNCHANGED vars /\ UNCHANGED <<phase, pkgs, replies>>
    BY <1>7 DEF RouterRunsStale, RouterDropsStale, ForeignEdit, allVars, saveVars, wireVars, ghostVars
  <2> QED
    BY <2>1, IndexSame DEF IndexOK
<1> QED
  BY <1>1, <1>2, <1>3, <1>4, <1>5, <1>6, <1>7, EditIndexStep, RouterRunsIndex, RefusesIndex, LoadReplyIndex
     DEF SaveNext, Waiting

-----------------------------------------------------------------------------
(* The order in which a save that sorts nothing leaves a package *)

\* Changing the options of a section moves no section.
LEMMA SamePlaces ==
    ASSUME NEW file, IsFile(file), NEW at \in 1 .. Len(file), NEW opts, NEW new,
           new = [file EXCEPT ![at].opts = opts], IsFile(new)
    PROVE  \A s \in NamesIn(file) : At(new, s) = At(file, s)
<1>1. FileIs(file) /\ FileIs(new)
  BY FileMeans
<1>2. file[at] \in RouterSection
  BY <1>1, ElementOfSeq DEF FileIs
<1>3. [file[at] EXCEPT !.opts = opts].name = file[at].name
  BY <1>2 DEF RouterSection
<1>4. DOMAIN new = DOMAIN file /\ \A i \in 1 .. Len(file) : new[i].name = file[i].name
  BY <1>1, <1>3 DEF FileIs
<1> SUFFICES ASSUME NEW s \in NamesIn(file) PROVE At(new, s) = At(file, s)
  OBVIOUS
<1>5. At(file, s) \in 1 .. Len(file) /\ file[At(file, s)].name = s
  BY AtIs
<1>6. At(file, s) \in 1 .. Len(new) /\ new[At(file, s)].name = s
  BY <1>1, <1>4, <1>5 DEF FileIs
<1>7. s \in NamesIn(new)
  BY <1>1, <1>6 DEF NamesIn, FileIs
<1>8. \A i \in 1 .. Len(new) : new[i].name = s => i = At(new, s)
  BY <1>7, AtIs
<1> QED
  BY <1>6, <1>8

\* A section that is added stands behind the others, which stay where they are.
LEMMA AddedLast ==
    ASSUME NEW file, IsFile(file), NEW name \in Sids, name \notin NamesIn(file), NEW section \in Section,
           NEW new, new = Added(file, name, section)
    PROVE  \A s \in NamesIn(file) : At(new, s) = At(file, s) /\ At(new, s) < At(new, name)
<1> DEFINE made == [name |-> name, type |-> section.type, opts |-> Merged(Blank, section.opts)]
           S == RouterSection \cup {made}
           n == Len(file)
<1>1. FileIs(file) /\ OneMore(file, new, name, AddedSection(name, section))
  BY FileMeans, AddedMore
<1>2. FileIs(new) /\ NamesIn(new) = NamesIn(file) \cup {name}
  BY <1>1, FileMeans DEF OneMore
<1>3. new = Append(file, made) /\ made.name = name
  BY DEF Added
<1> HIDE DEF made
<1>4. file \in Seq(S) /\ made \in S
  BY <1>1, SeqMonotonic DEF FileIs
<1> HIDE DEF S
<1>5. Len(new) = n + 1 /\ (\A i \in 1 .. n : new[i] = file[i]) /\ new[n + 1] = made /\ n \in Nat
  BY <1>1, <1>3, <1>4, AppendProperties DEF FileIs
<1>6. At(new, name) = n + 1
  <2>1. n + 1 \in 1 .. Len(new) /\ new[n + 1].name = name
    BY <1>3, <1>5
  <2> QED
    BY <1>1, <1>2, <2>1, AtIs DEF OneMore
<1>7. ASSUME NEW s \in NamesIn(file) PROVE At(new, s) = At(file, s) /\ At(file, s) \in 1 .. n
  <2>1. At(file, s) \in 1 .. n /\ file[At(file, s)].name = s
    BY AtIs
  <2>2. At(file, s) \in 1 .. Len(new) /\ new[At(file, s)].name = s
    BY <1>5, <2>1
  <2> QED
    BY <1>1, <1>2, <2>1, <2>2, AtIs DEF OneMore
<1>8. \A i \in 1 .. n : i < n + 1
  BY <1>5
<1> QED
  BY <1>6, <1>7, <1>8

InRow(file, x, y) == At(file, x) < At(file, y)

\* The loaded sections stand as they were loaded, and behind them the added ones in the
\* order of their additions.
Arranged(c, file, answers) ==
    LET n == Len(answers)
    IN  /\ \A s, t \in Sids : Loaded(c, s) /\ Loaded(c, t) /\ values[c][s].index < values[c][t].index =>
             InRow(file, s, t)
        /\ \A s, t \in Sids : Loaded(c, s) /\ AddRan(c, t, n) => InRow(file, s, Given(c, t, answers))
        /\ \A s, t \in Sids : AddRan(c, s, n) /\ AddRan(c, t, n) /\ Spot(c, s) < Spot(c, t) =>
             InRow(file, Given(c, s, answers), Given(c, t, answers))

LEMMA ArrangedNames ==
    ASSUME NEW c, deletesAll[c] = {}, NEW file, NEW answers, Holds(c, file, answers), NEW s \in Sids
    PROVE  /\ Loaded(c, s) => s \in NamesIn(file)
           /\ AddRan(c, s, Len(answers)) => Given(c, s, answers) \in NamesIn(file)
BY DEF Holds, Names, Stays

\* A call that moves no section of the package and adds none.
LEMMA ArrangedStill ==
    ASSUME TypeOK, Births, NEW c \in Configs, deletesAll[c] = {}, NEW file,
           NEW answers, IsSeq(answers), Holds(c, file, answers), Arranged(c, file, answers), NEW x,
           \A s \in Sids : AddRan(c, s, Len(answers) + 1) <=> AddRan(c, s, Len(answers)),
           NEW new, \A s \in NamesIn(file) : At(new, s) = At(file, s)
    PROVE  Arranged(c, new, Append(answers, x))
<1> DEFINE n    == Len(answers)
           more == Append(answers, x)
<1>1. Len(more) = n + 1
  BY LongerByOne
<1>2. \A s \in Sids : AddRan(c, s, n) => Given(c, s, more) = Given(c, s, answers)
  BY GivenStays
<1> HIDE DEF more
<1>3. \A s, t \in NamesIn(file) : InRow(file, s, t) => InRow(new, s, t)
  BY DEF InRow
<1>4. Arranged(c, new, more)
  BY <1>1, <1>2, <1>3, ArrangedNames DEF Arranged
<1> QED
  BY <1>4 DEF more

LEMMA ArrangedAdd ==
    ASSUME TypeOK, Births, NEW c \in Configs, deletesAll[c] = {}, NEW s \in Sids, NEW file, IsFile(file),
           NEW answers, IsSeq(answers), Holds(c, file, answers), Arranged(c, file, answers),
           AddIsNext(c, s, Len(answers)), NEW name \in Sids, name \notin NamesIn(file)
    PROVE  Arranged(c, Added(file, name, creates[c][s]), Append(answers, name))
<1> DEFINE n    == Len(answers)
           more == Append(answers, name)
           new  == Added(file, name, creates[c][s])
<1>1. n \in Nat /\ Len(more) = n + 1 /\ more[n + 1] = name
  BY LongerByOne
<1>2. \A t \in Sids : AddRan(c, t, n) => Given(c, t, more) = Given(c, t, answers)
  BY GivenStays
<1> HIDE DEF more
<1>3. Created(c, s) /\ Spot(c, s) = n + 1
  BY DEF AddIsNext
<1>4. Given(c, s, more) = name
  BY <1>1, <1>3 DEF Given
<1>5. \A t \in Sids : AddRan(c, t, n + 1) <=> AddRan(c, t, n) \/ t = s
  <2>1. \A t \in Sids : <<c, t>> = <<c, s>> <=> t = s
    OBVIOUS
  <2> QED
    BY <2>1, Zenon DEF AddIsNext, RunsOne, AddRan
<1>6. creates[c][s] \in Section
  BY <1>3 DEF TypeOK, Package, Created
<1>7. \A x \in NamesIn(file) : At(new, x) = At(file, x) /\ At(new, x) < At(new, name)
  BY <1>6, AddedLast
<1> HIDE DEF new
<1>8. /\ \A x, y \in NamesIn(file) : InRow(file, x, y) => InRow(new, x, y)
      /\ \A x \in NamesIn(file) : InRow(new, x, name)
  BY <1>7 DEF InRow
<1>9. \A t \in Sids : AddRan(c, t, n) => Spot(c, t) \in Nat /\ Spot(c, t) <= n
  BY <1>1, SpotIs
<1>10. ASSUME NEW x \in Sids, NEW t \in Sids, Loaded(c, x), AddRan(c, t, n + 1)
       PROVE  InRow(new, x, Given(c, t, more))
  <2>1. CASE t = s
    BY <1>4, <1>8, <1>10, <2>1, ArrangedNames
  <2>2. CASE AddRan(c, t, n)
    BY <1>2, <1>8, <1>10, <2>2, ArrangedNames DEF Arranged
  <2> QED
    BY <1>5, <1>10, <2>1, <2>2
<1>11. ASSUME NEW x \in Sids, NEW t \in Sids, AddRan(c, x, n + 1), AddRan(c, t, n + 1), Spot(c, x) < Spot(c, t)
       PROVE  InRow(new, Given(c, x, more), Given(c, t, more))
  <2>1. CASE AddRan(c, x, n) /\ AddRan(c, t, n)
    BY <1>2, <1>8, <1>11, <2>1, ArrangedNames DEF Arranged
  <2>2. CASE AddRan(c, x, n) /\ t = s
    BY <1>2, <1>4, <1>8, <2>2, ArrangedNames
  <2>3. CASE x = s
    <3>1. t = s => ~(Spot(c, x) < Spot(c, t))
      BY <1>1, <1>3, <2>3
    <3>2. AddRan(c, t, n) => ~(Spot(c, x) < Spot(c, t))
      BY <1>1, <1>3, <1>9, <2>3
    <3> QED
      BY <1>5, <1>11, <3>1, <3>2
  <2> QED
    BY <1>5, <1>11, <2>1, <2>2, <2>3
<1>12. \A x, t \in Sids : Loaded(c, x) /\ Loaded(c, t) /\ values[c][x].index < values[c][t].index => InRow(new, x, t)
  BY <1>8, ArrangedNames DEF Arranged
<1>13. Arranged(c, new, more)
  BY <1>1, <1>10, <1>11, <1>12 DEF Arranged
<1> QED
  BY <1>13 DEF new, more

LEMMA RunArranged ==
    ASSUME TypeOK, Births, OverlayOK, NamesAreUsers,
           NEW answers, IsSeq(answers), NamedRight(answers), Len(answers) < Len(EditCalls),
           NEW c \in Configs, IsFile(server[c]), Alone(c), Holds(c, server[c], answers), deletesAll[c] = {},
           NEW call, call = EditCalls[Len(answers) + 1], NEW effect \in Effects(call),
           Arranged(c, server[c], answers)
    PROVE  Arranged(c, IF c = call.conf THEN effect.file ELSE server[c], Append(answers, effect.reply))
<1> DEFINE n == Len(answers)
           file == server[c]
<1>1. n \in Nat
  BY LenProperties DEF IsSeq
<1>2. PICK d \in Configs, s \in Sids : AddIsNext(d, s, n) \/ SetIsNext(d, s, n) \/ DeleteIsNext(d, s, n)
  BY <1>1, NextCall
<1>3. call.conf = d
  BY <1>2 DEF AddIsNext, SetIsNext, DeleteIsNext, AddCall, SetCall, DeleteCall
<1>4. CASE c # d
  <2>1. \A t \in Sids : <<c, t>> # <<d, s>>
    BY <1>4
  <2>2. \A t \in Sids : AddRan(c, t, n + 1) <=> AddRan(c, t, n)
    BY <1>2, <2>1, Zenon DEF AddIsNext, SetIsNext, DeleteIsNext, RunsOne, NoMoreRun, AddRan
  <2> QED
    BY <1>3, <1>4, <2>2, ArrangedStill
<1>5. CASE c = d /\ AddIsNext(c, s, n)
  <2>1. call.op = "add" /\ call.conf = c /\ call.sid = s /\ call.arg = creates[c][s]
    BY <1>5 DEF AddIsNext, AddCall
  <2>2. PICK name \in IF s \in Temps THEN Fresh \ NamesIn(file) ELSE {s} :
          effect = [file |-> Added(file, name, creates[c][s]), reply |-> name]
    BY <2>1 DEF Effects
  <2>3. name \in Sids /\ name \notin NamesIn(file)
    BY <1>5, <2>2, NameIsFree, FreshAssumption
  <2>4. Arranged(c, Added(file, name, creates[c][s]), Append(answers, name))
    BY <1>5, <2>3, ArrangedAdd
  <2>5. effect.file = Added(file, name, creates[c][s]) /\ effect.reply = name
    BY <2>2
  <2> QED
    BY <2>1, <2>4, <2>5
<1>6. CASE c = d /\ SetIsNext(c, s, n)
  <2>1. call.op = "set" /\ call.conf = c /\ call.sid = s /\ call.arg = changes[c][s]
    BY <1>6 DEF SetIsNext, SetCall
  <2>2. effect.file = SetIn(file, s, changes[c][s])
    BY <2>1 DEF Effects
  <2>3. Stays(c, s, n) /\ changes[c][s] \in [Options -> Values \cup {None}]
    BY <1>6, KeptSet DEF TypeOK
  <2>4. s \in NamesIn(file)
    BY <2>3 DEF Holds, Names
  <2> DEFINE new == SetIn(file, s, changes[c][s])
             opts == Merged(file[At(file, s)].opts, changes[c][s])
  <2>5. IsFile(new)
    BY <2>3, <2>4, SetReplaced DEF Replaced
  <2>6. new = [file EXCEPT ![At(file, s)].opts = opts]
    BY <2>4 DEF SetIn
  <2> HIDE DEF new, opts
  <2>7. \A t \in NamesIn(file) : At(new, t) = At(file, t)
    <3>1. PICK at : at = At(file, s)
      OBVIOUS
    <3>2. at \in 1 .. Len(file)
      BY <2>4, <3>1, AtIs
    <3>3. new = [file EXCEPT ![at].opts = opts]
      BY <2>6, <3>1, Zenon
    <3> QED
      BY <2>5, <3>2, <3>3, SamePlaces
  <2>8. \A t \in Sids : AddRan(c, t, n + 1) <=> AddRan(c, t, n)
    BY <1>6 DEF SetIsNext, NoMoreRun, AddRan
  <2>9. Arranged(c, new, Append(answers, effect.reply))
    BY <2>7, <2>8, ArrangedStill
  <2> QED
    BY <2>1, <2>2, <2>9 DEF new
<1>7. CASE c = d /\ DeleteIsNext(c, s, n)
  <2>1. call.op = "options" /\ call.conf = c /\ call.sid = s /\ call.arg = deletesOpt[c][s]
    BY <1>7 DEF DeleteIsNext, DeleteCall
  <2>2. effect.file = OptionsDeletedIn(file, s, deletesOpt[c][s])
    BY <2>1 DEF Effects
  <2>3. Stays(c, s, n) /\ deletesOpt[c][s] \in SUBSET Options
    BY <1>7, KeptDelete DEF TypeOK
  <2>4. s \in NamesIn(file)
    BY <2>3 DEF Holds, Names
  <2> DEFINE new == OptionsDeletedIn(file, s, deletesOpt[c][s])
             opts == [o \in Options |-> IF o \in deletesOpt[c][s] THEN None ELSE file[At(file, s)].opts[o]]
  <2>5. IsFile(new)
    BY <2>3, <2>4, OptionsReplaced DEF Replaced
  <2>6. new = [file EXCEPT ![At(file, s)].opts = opts]
    BY <2>4 DEF OptionsDeletedIn
  <2> HIDE DEF new, opts
  <2>7. \A t \in NamesIn(file) : At(new, t) = At(file, t)
    <3>1. PICK at : at = At(file, s)
      OBVIOUS
    <3>2. at \in 1 .. Len(file)
      BY <2>4, <3>1, AtIs
    <3>3. new = [file EXCEPT ![at].opts = opts]
      BY <2>6, <3>1, Zenon
    <3> QED
      BY <2>5, <3>2, <3>3, SamePlaces
  <2>8. \A t \in Sids : AddRan(c, t, n + 1) <=> AddRan(c, t, n)
    BY <1>7 DEF DeleteIsNext, NoMoreRun, AddRan
  <2>9. Arranged(c, new, Append(answers, effect.reply))
    BY <2>7, <2>8, ArrangedStill
  <2> QED
    BY <2>1, <2>2, <2>9 DEF new
<1> QED
  BY <1>2, <1>4, <1>5, <1>6, <1>7

LEMMA ArrangedSame ==
    ASSUME UNCHANGED <<values, creates, changes, deletesAll, deletesOpt, opened>>, NEW c, NEW file, NEW answers
    PROVE  (Arranged(c, file, answers))' <=> Arranged(c, file, answers)
<1> DEFINE n == Len(answers)
<1>1. /\ \A s \in Sids : (AddRan(c, s, n))' <=> AddRan(c, s, n)
      /\ \A s \in Sids : Given(c, s, answers)' = Given(c, s, answers)
      /\ \A s \in Sids : Spot(c, s)' = Spot(c, s)
  BY RanSame
<1>2. \A x, y : (InRow(file, x, y))' <=> InRow(file, x, y)
  BY DEF InRow, At
<1> QED
  BY <1>1, <1>2 DEF Arranged, Loaded

\* The packages whose order a save has to keep: those that it does not sort stay arranged.
KeepsOK ==
    phase = "saving" =>
        /\ \A c \in ordered : Compact(c) /\ deletesAll[c] = {}
        /\ clean => \A c \in ordered \ reorder : Arranged(c, server[c], replies)

LEMMA CompactSame ==
    ASSUME UNCHANGED vars, NEW c
    PROVE  Compact(c)' <=> Compact(c)
<1>1. Listed(c, AnyType)' = Listed(c, AnyType) /\ \A s : Entry(c, s)' = Entry(c, s)
  BY DEF vars, Listed, Entry, Created, Loaded
<1>2. Shadowed(c, AnyType)' = Shadowed(c, AnyType)
  BY DEF vars, Shadowed, Created, Loaded
<1> DEFINE ranked == {s \in Listed(c, AnyType) : Entry(c, s).index < NewBase}
<1>3. ranked' = ranked
  BY <1>1
<1>4. {Entry(c, s).index : s \in ranked}' = {Entry(c, s).index : s \in ranked}
  BY <1>1, <1>3
<1>5. Compact(c) <=> /\ c \in loaded
                     /\ Shadowed(c, AnyType) = {}
                     /\ \A s, t \in Listed(c, AnyType) : Entry(c, s).index = Entry(c, t).index => s = t
                     /\ {Entry(c, s).index : s \in ranked} = 0 .. (Cardinality(ranked) - 1)
  BY DEF Compact
<1>6. Compact(c)' <=> /\ c \in loaded'
                      /\ Shadowed(c, AnyType)' = {}
                      /\ \A s, t \in Listed(c, AnyType)' : Entry(c, s).index' = Entry(c, t).index' => s = t
                      /\ {Entry(c, s).index : s \in ranked}' = 0 .. (Cardinality(ranked') - 1)
  BY DEF Compact
<1> HIDE DEF ranked
<1>7. /\ loaded' = loaded
      /\ \A s, t : (Entry(c, s).index' = Entry(c, t).index') <=> (Entry(c, s).index = Entry(c, t).index)
  BY <1>1 DEF vars
<1> QED
  BY <1>1, <1>2, <1>3, <1>4, <1>5, <1>6, <1>7

LEMMA RunsKeeps ==
    ASSUME SaveOK, KeepsOK, RouterRuns
    PROVE  KeepsOK'
<1> SUFFICES ASSUME phase' = "saving" PROVE KeepsOK'
  BY DEF KeepsOK
<1> DEFINE n == Len(replies)
           call == Head(calls)
<1>1. PICK effect \in Effects(call) :
        /\ server' = [server EXCEPT ![call.conf] = effect.file]
        /\ replies' = Append(replies, effect.reply)
  BY DEF RouterRuns
<1>2. /\ calls # <<>> /\ calls' = Tail(calls) /\ phase = "saving"
      /\ UNCHANGED vars /\ UNCHANGED <<phase, pkgs, before, clean, ordered>>
  BY DEF RouterRuns, ghostVars
<1>3. UNCHANGED <<values, loaded, creates, changes, deletesAll, deletesOpt, opened, reorder>>
  BY <1>2 DEF vars
<1>4. /\ TypeOK /\ Births /\ OverlayOK /\ NamesAreUsers
      /\ BatchOK(calls, asked) /\ IsSeq(calls) /\ IsSeq(replies) /\ ServerOK
  BY DEF SaveOK, SaveInv, SaveTypeOK, WireOK, BatchOK, CacheOK, ServerOK
<1>5. n \in Nat /\ Remaining(calls, EditCalls, n)
  BY <1>2, <1>4, LenProperties DEF SaveOK, SavingOK, IsSeq
<1>6. call = EditCalls[n + 1] /\ n < Len(EditCalls)
  BY <1>2, <1>4, <1>5, RemainingRest
<1>7. CallOK(call)
  BY <1>2, <1>4, BatchAfter
<1> HIDE DEF call
<1>8. ASSUME clean, NEW c \in ordered \ reorder PROVE (Arranged(c, server[c], replies))'
  <2>1. /\ NamedRight(replies) /\ Alone(c) /\ Holds(c, server[c], replies)
        /\ c \in Configs /\ IsFile(server[c]) /\ deletesAll[c] = {} /\ Arranged(c, server[c], replies)
    BY <1>2, <1>4, <1>8 DEF SaveOK, SavingOK, PhaseOK, KeepsOK, ServerOK
  <2>2. PICK answers : answers = replies'
    OBVIOUS
  <2>3. PICK file : file = server'[c]
    OBVIOUS
  <2>4. file = IF c = call.conf THEN effect.file ELSE server[c]
    BY <1>1, <1>4, <2>1, <2>3 DEF ServerOK
  <2>5. Arranged(c, file, answers)
    BY <1>1, <1>4, <1>6, <2>1, <2>2, <2>4, RunArranged
  <2>6. (Arranged(c, file, answers))'
    BY <1>3, <2>5, ArrangedSame
  <2> QED
    BY <2>2, <2>3, <2>6 DEF Arranged, AddRan, Given
<1>9. \A c \in ordered : Compact(c)' /\ deletesAll'[c] = {}
  BY <1>2, <1>3, CompactSame DEF KeepsOK
<1> QED
  BY <1>2, <1>3, <1>8, <1>9 DEF KeepsOK

LEMMA SaveKeeps == SaveOK /\ Save => KeepsOK'
<1> SUFFICES ASSUME SaveOK, Save PROVE KeepsOK'
  OBVIOUS
<1>1. /\ phase' = "saving" /\ replies' = <<>> /\ UNCHANGED vars /\ server' = server
      /\ ordered' = {c \in EditedPackages \cup reorder :
                       /\ InSync(c) /\ Compact(c) /\ deletesAll[c] = {}
                       /\ c \in reorder \/ InOrder(c)}
  BY DEF Save, Send
<1>2. UNCHANGED <<values, creates, changes, deletesAll, deletesOpt, opened, reorder>>
  BY <1>1 DEF vars
<1>3. TypeOK /\ Births
  BY DEF SaveOK, SaveInv, SaveTypeOK
<1>4. \A c \in ordered' : Compact(c)' /\ deletesAll'[c] = {}
  BY <1>1, <1>2, CompactSame
<1>5. ASSUME NEW c \in ordered' \ reorder' PROVE (Arranged(c, server[c], replies))'
  <2>1. PICK answers : answers = <<>>
    OBVIOUS
  <2>2. PICK file : file = server[c]
    OBVIOUS
  <2>3. InSync(c) /\ InOrder(c)
    BY <1>1, <1>2, <1>5
  <2>4. Len(answers) = 0
    BY <2>1
  <2>5. \A s \in Sids : ~AddRan(c, s, Len(answers))
    BY <1>3, <2>4, NothingRan
  <2>6. \A s \in Sids : Loaded(c, s) => s \in NamesIn(file)
    BY <2>2, <2>3 DEF InSync
  <2>7. \A s, t \in NamesIn(file) : values[c][s].index < values[c][t].index => InRow(file, s, t)
    BY <2>2, <2>3 DEF InOrder, InRow
  <2>8. Arranged(c, file, answers)
    BY <2>5, <2>6, <2>7 DEF Arranged
  <2>9. (Arranged(c, file, answers))'
    BY <1>2, <2>8, ArrangedSame
  <2> QED
    BY <1>1, <2>1, <2>2, <2>9 DEF Arranged, AddRan, Given
<1> QED
  BY <1>4, <1>5 DEF KeepsOK

LEMMA KeepsStep == SaveOK /\ KeepsOK /\ [SaveNext]_allVars => KeepsOK'
<1> SUFFICES ASSUME SaveOK, KeepsOK, [SaveNext]_allVars, phase' = "saving" PROVE KeepsOK'
  BY DEF KeepsOK
<1>1. CASE RouterRefuses \/ RouterRunsStale \/ ForeignEdit
  <2>1. UNCHANGED vars /\ UNCHANGED <<phase, ordered>> /\ clean' = FALSE
    BY <1>1 DEF RouterRefuses, RouterRunsStale, ForeignEdit, wireVars
  <2> QED
    BY <2>1, CompactSame DEF KeepsOK, vars
<1>2. CASE RouterDropsStale \/ UNCHANGED allVars
  <2>1. UNCHANGED vars /\ UNCHANGED <<server, replies, phase, ordered, clean>>
    BY <1>2 DEF RouterDropsStale, ghostVars, allVars, saveVars, wireVars
  <2>2. PICK answers : answers = replies
    OBVIOUS
  <2>3. ASSUME NEW c, Arranged(c, server[c], replies) PROVE (Arranged(c, server[c], replies))'
    <3>1. PICK file : file = server[c]
      OBVIOUS
    <3>2. Arranged(c, file, answers)
      BY <2>2, <2>3, <3>1
    <3>3. (Arranged(c, file, answers))'
      BY <2>1, <3>2, ArrangedSame DEF vars
    <3> QED
      BY <2>1, <2>2, <3>1, <3>3 DEF Arranged, AddRan, Given
  <2> QED
    BY <2>1, <2>3, CompactSame DEF KeepsOK, vars
<1>3. CASE Edit
  BY <1>3 DEF Edit, saveVars, wireVars
<1>4. CASE LoadReply \/ LoadGivenUp \/ SaveReply \/ SaveGivenUp \/ OrderReply \/ OrderGivenUp
  BY <1>4 DEF LoadReply, LoadGivenUp, SaveReply, SaveGivenUp, OrderReply, OrderGivenUp, Answered, UnloadAndLoad
<1>5. ASSUME NEW packages \in SUBSET Configs, LoadPackages(packages) PROVE FALSE
  BY <1>5 DEF LoadPackages
<1> QED
  BY <1>1, <1>2, <1>3, <1>4, <1>5, RunsKeeps, SaveKeeps DEF SaveNext, Waiting

-----------------------------------------------------------------------------
(* The order in which a save that sorts leaves a package *)

\* A section that is moved to the front takes its place there, behind those before it.
LEMMA MovedPlaces ==
    ASSUME NEW file, IsFile(file), NEW name \in NamesIn(file), NEW place \in Nat,
           place < At(file, name), NEW new, new = MovedTo(file, name, place)
    PROVE  /\ IsFile(new) /\ NamesIn(new) = NamesIn(file)
           /\ \A x \in NamesIn(file) : At(file, x) \in 1 .. place => At(new, x) = At(file, x)
           /\ At(new, name) = place + 1
<1> DEFINE rest == DeletedIn(file, name)
           k    == IF place < Len(rest) THEN place ELSE Len(rest)
           at   == At(file, name)
           x    == file[at]
           n    == Len(file)
<1>1. new = SubSeq(rest, 1, k) \o <<x>> \o SubSeq(rest, k + 1, Len(rest))
  BY DEF MovedTo
<1>2. FileIs(rest) /\ FileSections(rest) = FileSections(file) \ {x}
  BY DeletedLacks DEF TakenOut
<1>3. FileIs(file) /\ x \in RouterSection /\ x \in FileSections(file) /\ x.name = name /\ at \in 1 .. n /\ n \in Nat
  BY FileMeans, AtIs DEF FileSections, FileIs
<1>4. \A y \in FileSections(rest) : y.name # x.name
  <2>1. ASSUME NEW y \in FileSections(file), y.name = x.name PROVE y = x
    BY <1>3, <2>1, SameSection
  <2> QED
    BY <1>2, <2>1
<1>5. Len(rest) = n - 1 /\ \A j \in 1 .. n - 1 : j < at => rest[j] = file[j]
  <2>1. rest = RemoveAt(file, at) /\ file \in Seq(RouterSection)
    BY <1>3 DEF DeletedIn, FileIs
  <2> HIDE DEF rest, at
  <2>2. ShorterBy(RouterSection, file, at, rest)
    BY <1>3, <2>1, Shortened
  <2> QED
    BY <2>2 DEF ShorterBy
<1>6. place < at
  OBVIOUS
<1> HIDE DEF rest, at, x, n
<1>7. k = place /\ k \in 0 .. Len(rest) /\ place + 1 \in 1 .. n /\ \A j \in 1 .. place : j \in 1 .. n - 1 /\ j < at /\ j \in 1 .. n
  BY <1>3, <1>5, <1>6
<1> HIDE DEF k
<1>8. PutIn(rest, x, place, new)
  <2>1. new = SubSeq(rest, 1, place) \o <<x>> \o SubSeq(rest, place + 1, Len(rest))
    BY <1>1, <1>7
  <2>2. place \in 0 .. Len(rest)
    BY <1>7
  <2> QED
    BY <1>2, <1>3, <1>4, <2>1, <2>2, MoreOne
<1>9. IsFile(new) /\ FileSections(new) = FileSections(file)
  BY <1>2, <1>3, <1>8, FileMeans DEF PutIn
<1>10. NamesIn(new) = NamesIn(file)
  BY <1>9, NamesOfSections
<1>11. Len(new) = n
  BY <1>3, <1>5, <1>8 DEF PutIn
<1>12. At(new, name) = place + 1
  BY <1>3, <1>7, <1>8, <1>9, <1>10, <1>11, AtIs DEF PutIn
<1>13. ASSUME NEW y \in NamesIn(file), At(file, y) \in 1 .. place PROVE At(new, y) = At(file, y)
  <2>1. PICK j : j = At(file, y)
    OBVIOUS
  <2>2. j \in 1 .. place /\ j \in 1 .. n /\ file[j].name = y
    BY <1>7, <1>13, <2>1, AtIs
  <2>3. new[j] = file[j]
    BY <1>5, <1>7, <1>8, <2>2 DEF PutIn
  <2> QED
    BY <1>9, <1>10, <1>11, <2>1, <2>2, <2>3, AtIs
<1> QED
  BY <1>9, <1>10, <1>12, <1>13

\* The first n sections of a list stand in their places.
Laid(file, order, n, last) ==
    /\ IsFile(last.file) /\ NamesIn(last.file) = NamesIn(file)
    /\ last.place = n
    /\ \A k \in 1 .. n : At(last.file, order[k]) = k

\* A list of the sections of a file, each of them once.
NamesOnce(file, order) ==
    /\ Len(order) \in Nat
    /\ \A k \in 1 .. Len(order) : order[k] \in NamesIn(file)
    /\ \A k, l \in 1 .. Len(order) : order[k] = order[l] => k = l

LEMMA LaidNext ==
    ASSUME NEW file, NEW order, NamesOnce(file, order), NEW n \in 1 .. Len(order),
           NEW last, Laid(file, order, n - 1, last)
    PROVE  Laid(file, order, n, Move(order, n, last))
<1> DEFINE f    == last.file
           name == order[n]
           new  == MovedTo(f, name, last.place)
<1>1. IsFile(f) /\ NamesIn(f) = NamesIn(file) /\ last.place = n - 1 /\ \A k \in 1 .. n - 1 : At(f, order[k]) = k
  BY DEF Laid
<1>2. name \in NamesIn(f) /\ Len(order) \in Nat
  BY <1>1 DEF NamesOnce
<1>3. Move(order, n, last) = [file |-> new, place |-> last.place + 1]
  BY <1>2 DEF Move
<1>4. \A k \in 1 .. n - 1 : k \in 1 .. Len(order) /\ order[k] \in NamesIn(f)
  BY <1>1, <1>2 DEF NamesOnce
<1> HIDE DEF f, name
<1>5. n - 1 \in Nat /\ n - 1 < At(f, name)
  <2>1. At(f, name) \in 1 .. Len(f) /\ f[At(f, name)].name = name
    BY <1>1, <1>2, AtIs
  <2>2. PICK k : k = At(f, name)
    OBVIOUS
  <2>3. ASSUME k \in 1 .. n - 1 PROVE FALSE
    <3>1. At(f, order[k]) = k /\ order[k] \in NamesIn(f)
      BY <1>1, <1>4, <2>3
    <3>2. f[At(f, order[k])].name = order[k]
      BY <1>1, <3>1, AtIs
    <3>3. order[k] = order[n]
      BY <2>1, <2>2, <3>1, <3>2 DEF name
    <3>4. k = n
      BY <1>4, <2>3, <3>3 DEF NamesOnce
    <3> QED
      BY <1>2, <2>3, <3>4
  <2>4. Len(f) \in Nat
    BY <1>1, FileMeans DEF FileIs
  <2>5. k \in Nat /\ k >= 1 /\ n \in Nat /\ n >= 1
    BY <1>2, <2>1, <2>2, <2>4
  <2> QED
    BY <2>2, <2>3, <2>5
<1> DEFINE place == n - 1
<1>6. new = MovedTo(f, name, place) /\ place \in Nat /\ place < At(f, name)
  BY <1>1, <1>5
<1> HIDE DEF new, place
<1>7. /\ IsFile(new) /\ NamesIn(new) = NamesIn(f)
      /\ \A x \in NamesIn(f) : At(f, x) \in 1 .. place => At(new, x) = At(f, x)
      /\ At(new, name) = place + 1
  BY <1>1, <1>2, <1>6, MovedPlaces
<1>8. \A k \in 1 .. n - 1 : At(new, order[k]) = k
  BY <1>1, <1>4, <1>7 DEF place
<1>9. At(new, order[n]) = n /\ last.place + 1 = n
  BY <1>1, <1>2, <1>7 DEF place, name
<1>10. \A k \in 1 .. n : k \in 1 .. n - 1 \/ k = n
  BY <1>2
<1>11. \A k \in 1 .. n : At(new, order[k]) = k
  BY <1>8, <1>9, <1>10
<1> QED
  BY <1>1, <1>3, <1>7, <1>9, <1>11 DEF Laid

\* Each section of the list ends at its place in the list.
LEMMA OrderedPlaces ==
    ASSUME NEW file, IsFile(file), NEW order, NamesOnce(file, order)
    PROVE  LET new == OrderedIn(file, order)
           IN  /\ IsFile(new) /\ NamesIn(new) = NamesIn(file)
               /\ \A k \in 1 .. Len(order) : At(new, order[k]) = k
<1> DEFINE N    == Len(order)
           done == CHOOSE done : Moves(file, order, done, N)
<1>1. OrderedIn(file, order) = done[N].file
  BY DEF OrderedIn, Moves, Move, Start
<1>2. Moves(file, order, done, N)
  BY MovesExist DEF NamesOnce
<1> HIDE DEF done
<1>3. ASSUME NEW i \in 0 .. N
      PROVE  done[i] = IF i = 0 THEN Start(file) ELSE Move(order, i, done[i - 1])
  BY <1>2 DEF Moves
<1> DEFINE S == {i \in 0 .. N : Laid(file, order, i, done[i])}
<1>4. N \in Nat
  BY DEF NamesOnce
<1>5. 0 \in S
  <2>1. 0 \in 0 .. N /\ done[0] = Start(file)
    BY <1>3, <1>4
  <2>2. Laid(file, order, 0, Start(file))
    BY DEF Laid, Start
  <2> QED
    BY <2>1, <2>2
<1>6. ASSUME NEW n \in 1 .. N, n - 1 \in S PROVE n \in S
  <2>1. n \in 0 .. N /\ n # 0
    BY <1>4
  <2>2. done[n] = Move(order, n, done[n - 1])
    BY <1>3, <2>1
  <2>3. Laid(file, order, n - 1, done[n - 1])
    BY <1>6
  <2>4. Laid(file, order, n, Move(order, n, done[n - 1]))
    BY <2>3, LaidNext
  <2> QED
    BY <2>1, <2>2, <2>4
<1> HIDE DEF S, N
<1>7. N \in S
  BY <1>4, <1>5, <1>6, UpTo
<1> QED
  BY <1>1, <1>7 DEF S, N, Laid

\* What the views list in some order stands in that order, under the names given to it.
Alike(list, i, j) == list[i].type = list[j].type \/ ReadTypes \subseteq {AnyType}

InPlace(list, named, file) ==
    \A i, j \in DOMAIN list :
        i < j /\ Alike(list, i, j) => InRow(file, named[list[i].name], named[list[j].name])

\* The listing of a package, in which no two sections have one index.
LEMMA ListedApart ==
    ASSUME SaveOK, NEW c \in Configs, Alone(c), Compact(c)
    PROVE  LET n == Cardinality(Listed(c, AnyType))
           IN  /\ n \in Nat /\ DOMAIN Views(c) = 1 .. n
               /\ \A i \in 1 .. n :
                    /\ Listing(c)[i] \in Listed(c, AnyType)
                    /\ Views(c)[i].name = Listing(c)[i]
                    /\ Views(c)[i].type = Entry(c, Listing(c)[i]).type
               /\ \A s \in Listed(c, AnyType) : \E i \in 1 .. n : Listing(c)[i] = s
               /\ \A i, j \in 1 .. n :
                    i < j <=> Entry(c, Listing(c)[i]).index < Entry(c, Listing(c)[j]).index
<1> DEFINE listed == Listed(c, AnyType)
           list   == Listing(c)
           n      == Cardinality(listed)
<1>1. TypeOK /\ Births /\ Apart(values[c])
  BY DEF SaveOK, SaveInv, SaveTypeOK, CacheOK
<1>2. \A s, t \in Sids : Loaded(c, s) /\ Loaded(c, t) /\ values[c][s].birth = values[c][t].birth => s = t
  BY <1>1 DEF Apart, Loaded
<1>3. /\ n \in Nat /\ DOMAIN list = 1 .. n
      /\ \A i \in 1 .. n : list[i] \in listed
      /\ \A s \in listed : \E i \in 1 .. n : list[i] = s
      /\ \A i, j \in 1 .. n : i < j <=> Before(c, list[i], list[j])
      /\ \A i, j \in 1 .. n : list[i] = list[j] => i = j
  BY <1>1, <1>2, ListingLists
<1>4. DOMAIN Views(c) = 1 .. n /\ \A i \in 1 .. n : Views(c)[i] = Shows(c, list[i])
  BY <1>3 DEF Views
<1>5. \A s : Shows(c, s).name = s /\ Shows(c, s).type = Entry(c, s).type
  BY DEF Shows
<1>6. \A s, t \in listed : Entry(c, s).index = Entry(c, t).index => s = t
  BY DEF Compact
<1>7. \A s \in listed : Entry(c, s).index \in Nat
  <2>1. ASSUME NEW s \in listed PROVE Entry(c, s) \in Section
    BY <1>1, EntryIsSection DEF Listed, Exists
  <2> QED
    BY <2>1 DEF Section
<1> HIDE DEF listed, list, n
<1>8. ASSUME NEW i \in 1 .. n, NEW j \in 1 .. n
      PROVE  i < j <=> Entry(c, list[i]).index < Entry(c, list[j]).index
  <2>1. i < j <=> Before(c, list[i], list[j])
    BY <1>3
  <2>2. i < j \/ i = j \/ j < i
    BY <1>3
  <2>3. j < i <=> Before(c, list[j], list[i])
    BY <1>3
  <2>4. Entry(c, list[i]).index \in Nat /\ Entry(c, list[j]).index \in Nat
    BY <1>3, <1>7
  <2>5. Entry(c, list[i]).index = Entry(c, list[j]).index => i = j
    BY <1>3, <1>6
  <2>6. Entry(c, list[i]).index < Entry(c, list[j]).index => Before(c, list[i], list[j])
    BY DEF Before
  <2>7. Before(c, list[i], list[j]) => Entry(c, list[i]).index <= Entry(c, list[j]).index
    BY <2>4 DEF Before
  <2>8. i = j => ~(i < j)
    BY <1>3
  <2> QED
    BY <2>1, <2>4, <2>5, <2>6, <2>7, <2>8
<1> QED
  BY <1>3, <1>4, <1>5, <1>8 DEF n, list, listed

\* An added section is not listed before a loaded one, in a package nobody sorted.
LEMMA LoadedFirst ==
    ASSUME TypeOK, NEW c \in Configs, Alone(c), Compact(c), deletesAll[c] = {}, Filled(values[c]),
           NEW s \in Sids, NEW t \in Sids, Created(c, s), Loaded(c, t),
           creates[c][s].index < values[c][t].index
    PROVE  FALSE
<1>1. creates[c][s].index \in Nat /\ values[c][t].index \in Nat
  BY DEF TypeOK, Package, Section, Created, Loaded
<1>2. creates[c][s].index \in 0 .. values[c][t].index
  BY <1>1
<1>3. PICK u \in Sids : values[c][u] # NoSection /\ values[c][u].index = creates[c][s].index
  BY <1>2 DEF Filled, Loaded
<1>4. Loaded(c, u) /\ ~Created(c, u) /\ u # s /\ c \in loaded
  BY <1>3 DEF Alone, Loaded
<1>5. Entry(c, u) = values[c][u] /\ Entry(c, s) = creates[c][s]
  BY <1>4 DEF Entry
<1>6. u \in Listed(c, AnyType) /\ s \in Listed(c, AnyType)
  BY <1>4 DEF Listed
<1> QED
  BY <1>3, <1>4, <1>5, <1>6 DEF Compact

\* The added sections of one type were added in the order in which they are listed.
LEMMA AddedInOrder ==
    ASSUME TypeOK, Births, NEW c \in Configs, Ranked(c), NEW s \in Sids, NEW t \in Sids,
           Created(c, s), Created(c, t), Together(c, s, t), creates[c][s].index < creates[c][t].index
    PROVE  Spot(c, s) < Spot(c, t)
<1>1. creates[c][s] \in Section /\ creates[c][t] \in Section
  BY DEF TypeOK, Package, Created
<1>2. /\ creates[c][s].index \in Nat /\ creates[c][t].index \in Nat
      /\ creates[c][s].birth \in Nat /\ creates[c][t].birth \in Nat
  BY <1>1 DEF Section
<1>3. Together(c, t, s)
  BY DEF Together
<1>4. ~(creates[c][t].birth < creates[c][s].birth)
  <2>1. creates[c][t].birth < creates[c][s].birth => creates[c][t].index <= creates[c][s].index
    BY <1>3 DEF Ranked
  <2> QED
    BY <1>2, <2>1
<1>5. s # t
  BY <1>2
<1>6. creates[c][t].birth # creates[c][s].birth
  BY <1>5 DEF Births
<1>7. creates[c][s].birth < creates[c][t].birth
  BY <1>2, <1>4, <1>6
<1>8. AddedBefore(<<c, s>>, <<c, t>>)
  <2>1. <<c, s>>[1] = c /\ <<c, s>>[2] = s /\ <<c, t>>[1] = c /\ <<c, t>>[2] = t
    OBVIOUS
  <2> QED
    BY <1>7, <2>1 DEF AddedBefore
<1>9. /\ Spot(c, s) \in 1 .. AddsN /\ Snew[Spot(c, s)] = <<c, s>>
      /\ Spot(c, t) \in 1 .. AddsN /\ Snew[Spot(c, t)] = <<c, t>>
  BY SpotIs
<1>10. \A i, j \in 1 .. AddsN : i < j <=> AddedBefore(Snew[i], Snew[j])
  BY SnewInOrder DEF AddsN
<1> QED
  BY <1>8, <1>9, <1>10

\* A package that was not sorted stands as the views listed it.
LEMMA ArrangedInPlace ==
    ASSUME SaveOK, NEW c \in Configs, Alone(c), Compact(c), deletesAll[c] = {},
           Filled(values[c]), Ranked(c), NEW answers, AllRan(Len(answers)),
           NEW file, Arranged(c, file, answers),
           NEW named, \A s \in Sids : named[s] = NameFor(c, s, answers)
    PROVE  InPlace(Views(c), named, file)
<1> DEFINE n == Cardinality(Listed(c, AnyType))
           list == Listing(c)
           views == Views(c)
<1>1. TypeOK /\ Births
  BY DEF SaveOK, SaveInv, SaveTypeOK
<1>2. /\ n \in Nat /\ DOMAIN views = 1 .. n
      /\ \A i \in 1 .. n : /\ list[i] \in Listed(c, AnyType)
                           /\ views[i].name = list[i] /\ views[i].type = Entry(c, list[i]).type
      /\ \A i, j \in 1 .. n : i < j <=> Entry(c, list[i]).index < Entry(c, list[j]).index
  BY ListedApart
<1> HIDE DEF n, list, views
<1>3. ASSUME NEW i \in 1 .. n, NEW j \in 1 .. n, i < j, Alike(views, i, j)
      PROVE  InRow(file, named[views[i].name], named[views[j].name])
  <2>1. PICK s : s = list[i]
    OBVIOUS
  <2>2. PICK t : t = list[j]
    OBVIOUS
  <2>3. /\ s \in Sids /\ t \in Sids
        /\ Created(c, s) \/ Loaded(c, s)
        /\ Created(c, t) \/ Loaded(c, t)
    BY <1>2, <2>1, <2>2 DEF Listed
  <2>4. Entry(c, s).index < Entry(c, t).index /\ views[i].name = s /\ views[j].name = t
    BY <1>2, <1>3, <2>1, <2>2
  <2>5. Entry(c, s).type = Entry(c, t).type \/ ReadTypes \subseteq {AnyType}
    BY <1>2, <1>3, <2>1, <2>2 DEF Alike
  <2>6. named[s] = NameFor(c, s, answers) /\ named[t] = NameFor(c, t, answers)
    BY <2>3
  <2>7. \A x \in Sids : AddRan(c, x, Len(answers)) <=> Created(c, x)
    BY DEF AllRan
  <2>8. CASE Created(c, s) /\ Created(c, t)
    <3>1. Entry(c, s) = creates[c][s] /\ Entry(c, t) = creates[c][t]
      BY <2>8 DEF Entry
    <3>2. Together(c, s, t)
      BY <2>5, <3>1 DEF Together
    <3>3. Spot(c, s) < Spot(c, t)
      BY <1>1, <2>3, <2>4, <2>8, <3>1, <3>2, AddedInOrder
    <3>4. InRow(file, Given(c, s, answers), Given(c, t, answers))
      BY <2>3, <2>7, <2>8, <3>3 DEF Arranged
    <3> QED
      BY <2>4, <2>6, <2>8, <3>4 DEF NameFor
  <2>9. CASE Created(c, s) /\ ~Created(c, t)
    <3>1. Entry(c, s) = creates[c][s] /\ Entry(c, t) = values[c][t] /\ Loaded(c, t)
      BY <2>3, <2>9 DEF Entry
    <3>2. FALSE
      BY <1>1, <2>3, <2>4, <2>9, <3>1, LoadedFirst
    <3> QED
      BY <3>2
  <2>10. CASE ~Created(c, s) /\ Created(c, t)
    <3>1. InRow(file, s, Given(c, t, answers))
      BY <2>3, <2>7, <2>10 DEF Arranged
    <3> QED
      BY <2>4, <2>6, <2>10, <3>1 DEF NameFor
  <2>11. CASE ~Created(c, s) /\ ~Created(c, t)
    <3>1. Entry(c, s) = values[c][s] /\ Entry(c, t) = values[c][t]
      BY <2>11 DEF Entry
    <3>2. InRow(file, s, t)
      BY <2>3, <2>4, <2>11, <3>1 DEF Arranged
    <3> QED
      BY <2>4, <2>6, <2>11, <3>2 DEF NameFor
  <2> QED
    BY <2>8, <2>9, <2>10, <2>11
<1>4. InPlace(views, named, file)
  BY <1>2, <1>3 DEF InPlace
<1> QED
  BY <1>4 DEF views

\* No two sections get one name.
LEMMA NamedApart ==
    ASSUME NEW c \in Configs, Alone(c), NEW file, NEW answers, AllRan(Len(answers)), Holds(c, file, answers),
           NEW s \in Listed(c, AnyType), NEW t \in Listed(c, AnyType),
           NameFor(c, s, answers) = NameFor(c, t, answers)
    PROVE  s = t
<1>1. /\ s \in Sids /\ t \in Sids
      /\ Created(c, s) \/ Loaded(c, s)
      /\ Created(c, t) \/ Loaded(c, t)
  BY DEF Listed
<1>2. \A x \in Sids : AddRan(c, x, Len(answers)) <=> Created(c, x)
  BY DEF AllRan
<1>3. \A x \in Sids : Created(c, x) => NameFor(c, x, answers) = Given(c, x, answers) /\ ~Loaded(c, Given(c, x, answers))
  BY <1>2 DEF Holds, NameFor
<1>4. \A x \in Sids : ~Created(c, x) => NameFor(c, x, answers) = x
  BY DEF NameFor
<1>5. CASE Created(c, s) /\ Created(c, t)
  <2>1. Given(c, s, answers) = Given(c, t, answers)
    BY <1>1, <1>3, <1>5
  <2> QED
    BY <1>1, <1>2, <1>5, <2>1 DEF Holds
<1>6. CASE Created(c, s) /\ ~Created(c, t)
  BY <1>1, <1>3, <1>4, <1>6
<1>7. CASE ~Created(c, s) /\ Created(c, t)
  BY <1>1, <1>3, <1>4, <1>7
<1>8. CASE ~Created(c, s) /\ ~Created(c, t)
  BY <1>1, <1>4, <1>8
<1> QED
  BY <1>5, <1>6, <1>7, <1>8

-----------------------------------------------------------------------------
(* The calls that sort the packages *)

\* What the call for a package names, and in which order.
OrderList(c) == Sorted(Gathered(c), {p \in Gathered(c) \X Gathered(c) : OrderBefore(c, p[1], p[2])})

SentOrder(named, c) ==
    [j \in DOMAIN OrderList(c) |->
        IF OrderList(c)[j][1] THEN named[c][OrderList(c)[j][2]] ELSE OrderList(c)[j][2]]

LEMMA OrderCallsAre ==
    ASSUME reorder \in SUBSET Configs, NEW named
    PROVE  /\ \A call \in Elements(OrderCalls(named)) :
                /\ call.op = "order" /\ call.conf \in reorder
                /\ call.arg = SentOrder(named, call.conf)
           /\ \A c \in reorder : Gathered(c) # {} =>
                \E call \in Elements(OrderCalls(named)) : call.op = "order" /\ call.conf = c
<1> DEFINE sorts == {c \in reorder : Gathered(c) # {}}
           list  == SetToSeq(sorts)
           sent  == OrderCalls(named)
<1>1. sent = [i \in DOMAIN list |-> [op |-> "order", conf |-> list[i], sid |-> None, arg |-> SentOrder(named, list[i])]]
  BY DEF OrderCalls, OrderCallsWith, SentOrder, OrderList
<1>2. IsFiniteSet(sorts)
  BY ConfigsAssumption, FS_Subset
<1>3. /\ DOMAIN list = 1 .. Cardinality(sorts)
      /\ \A i \in 1 .. Cardinality(sorts) : list[i] \in sorts
      /\ \A c \in sorts : \E i \in 1 .. Cardinality(sorts) : list[i] = c
  BY <1>2, SetListed
<1>4. \A c : c \in sorts <=> c \in reorder /\ Gathered(c) # {}
  OBVIOUS
<1> HIDE DEF list, sorts, sent
<1>5. DOMAIN sent = DOMAIN list
  BY <1>1
<1>6. \A i \in DOMAIN list : sent[i].op = "order" /\ sent[i].conf = list[i] /\ sent[i].arg = SentOrder(named, list[i])
  BY <1>1
<1>7. ASSUME NEW call \in Elements(sent)
      PROVE  call.op = "order" /\ call.conf \in reorder /\ call.arg = SentOrder(named, call.conf)
  <2>1. PICK i \in DOMAIN list : call = sent[i]
    BY <1>5 DEF Elements
  <2> QED
    BY <1>3, <1>4, <1>6, <2>1
<1>8. ASSUME NEW c \in reorder, Gathered(c) # {}
      PROVE  \E call \in Elements(sent) : call.op = "order" /\ call.conf = c
  <2>1. PICK i \in DOMAIN list : list[i] = c
    BY <1>3, <1>4, <1>8
  <2> QED
    BY <1>5, <1>6, <2>1 DEF Elements
<1> QED
  BY <1>7, <1>8 DEF sent

\* What is gathered of a package in which no two sections have one index.
LEMMA GatheredAre ==
    ASSUME SaveOK, NEW c \in Configs, Alone(c), Compact(c), deletesAll[c] = {}
    PROVE  /\ IsFiniteSet(Gathered(c))
           /\ \A e \in Gathered(c) : /\ e[2] \in Listed(c, AnyType)
                                     /\ e[1] <=> Created(c, e[2])
                                     /\ Entry(c, e[2]).index \in Nat
           /\ \A s \in Listed(c, AnyType) : \E e \in Gathered(c) : e[2] = s
           /\ \A e, f \in Gathered(c) : Entry(c, e[2]).index = Entry(c, f[2]).index => e = f
           /\ \A e, f \in Gathered(c) :
                OrderBefore(c, e, f) <=> Entry(c, e[2]).index < Entry(c, f[2]).index
<1>1. TypeOK
  BY DEF SaveOK, SaveInv, SaveTypeOK
<1> DEFINE G == Gathered(c)
<1>2. ASSUME NEW e \in G
      PROVE  \/ e = <<TRUE, e[2]>>  /\ e[1] = TRUE  /\ e[2] \in Sids /\ Created(c, e[2])
             \/ e = <<FALSE, e[2]>> /\ e[1] = FALSE /\ e[2] \in Sids /\ Loaded(c, e[2])
  <2>1. \/ \E s \in Sids : Created(c, s) /\ e = <<TRUE, s>>
        \/ \E s \in Sids : Loaded(c, s) /\ e = <<FALSE, s>>
    BY Zenon DEF Gathered
  <2>2. CASE \E s \in Sids : Created(c, s) /\ e = <<TRUE, s>>
    <3>1. PICK s \in Sids : Created(c, s) /\ e = <<TRUE, s>>
      BY <2>2
    <3>2. e[1] = TRUE /\ e[2] = s
      BY <3>1
    <3> QED
      BY <3>1, <3>2
  <2>3. CASE \E s \in Sids : Loaded(c, s) /\ e = <<FALSE, s>>
    <3>1. PICK s \in Sids : Loaded(c, s) /\ e = <<FALSE, s>>
      BY <2>3
    <3>2. e[1] = FALSE /\ e[2] = s
      BY <3>1
    <3> QED
      BY <3>1, <3>2
  <2> QED
    BY <2>1, <2>2, <2>3
<1>3. \A s \in Sids : /\ Created(c, s) => <<TRUE, s>> \in G
                      /\ Loaded(c, s) => <<FALSE, s>> \in G
  BY DEF Gathered
<1>4. IsFiniteSet(G)
  <2> DEFINE new == {<<TRUE, s>> : s \in {x \in Sids : Created(c, x)}}
             old == {<<FALSE, s>> : s \in {x \in Sids : Loaded(c, x)}}
  <2>1. new \subseteq {TRUE} \X Sids /\ old \subseteq {FALSE} \X Sids
    <3>1. \A s \in Sids : <<TRUE, s>> \in {TRUE} \X Sids /\ <<FALSE, s>> \in {FALSE} \X Sids
      OBVIOUS
    <3> QED
      BY <3>1, Zenon
  <2>2. IsFiniteSet(new) /\ IsFiniteSet(old)
    <3>1. IsFiniteSet({TRUE}) /\ IsFiniteSet({FALSE})
      BY FS_Singleton
    <3>2. IsFiniteSet({TRUE} \X Sids) /\ IsFiniteSet({FALSE} \X Sids)
      BY <3>1, SidsAssumption, FS_Product
    <3> HIDE DEF new, old
    <3> QED
      BY <2>1, <3>2, FS_Subset
  <2>3. G = new \cup old
    BY DEF Gathered
  <2> HIDE DEF new, old, G
  <2> QED
    BY <2>2, <2>3, FS_Union
<1> HIDE DEF G
<1>5. \A s \in Sids : Loaded(c, s) => ~Created(c, s)
  BY DEF Alone
<1>6. \A e \in G : e[2] \in Sids /\ (e[1] <=> Created(c, e[2])) /\ (Created(c, e[2]) \/ Loaded(c, e[2]))
  BY <1>2, <1>5
<1>7. \A e \in G : e[2] \in Listed(c, AnyType)
  BY <1>6 DEF Listed, Alone
<1>8. \A s \in Listed(c, AnyType) : \E e \in G : e[2] = s
  <2> SUFFICES ASSUME NEW s \in Listed(c, AnyType) PROVE \E e \in G : e[2] = s
    OBVIOUS
  <2>1. s \in Sids /\ (Created(c, s) \/ Loaded(c, s))
    BY DEF Listed
  <2>2. <<TRUE, s>>[2] = s /\ <<FALSE, s>>[2] = s
    OBVIOUS
  <2> QED
    BY <1>3, <2>1, <2>2
<1>9. \A s, t \in Listed(c, AnyType) : Entry(c, s).index = Entry(c, t).index => s = t
  BY DEF Compact
<1>10. ASSUME NEW e \in G, NEW f \in G, Entry(c, e[2]).index = Entry(c, f[2]).index PROVE e = f
  <2>1. PICK s : s = e[2]
    OBVIOUS
  <2>2. f[2] = s /\ s \in Sids
    BY <1>6, <1>7, <1>9, <1>10, <2>1
  <2>3. CASE Created(c, s)
    <3>1. e = <<TRUE, s>> /\ f = <<TRUE, s>>
      BY <1>2, <1>5, <2>1, <2>2, <2>3
    <3> QED
      BY <3>1
  <2>4. CASE ~Created(c, s)
    <3>1. e = <<FALSE, s>> /\ f = <<FALSE, s>>
      BY <1>2, <2>1, <2>2, <2>4
    <3> QED
      BY <3>1
  <2> QED
    BY <2>3, <2>4
<1>11. \A e \in G : Entry(c, e[2]) \in Section
  BY <1>1, <1>6, EntryIsSection DEF Exists
<1>12. \A e \in G : Entry(c, e[2]).index \in Nat /\ Entry(c, e[2]).birth \in Nat
  BY <1>11 DEF Section
<1>13. ASSUME NEW e \in G, NEW f \in G
       PROVE  OrderBefore(c, e, f) <=> Entry(c, e[2]).index < Entry(c, f[2]).index
  <2>1. /\ (IF e[1] THEN creates[c][e[2]] ELSE values[c][e[2]]) = Entry(c, e[2])
        /\ (IF f[1] THEN creates[c][f[2]] ELSE values[c][f[2]]) = Entry(c, f[2])
    BY <1>6 DEF Entry
  <2>2. CASE Entry(c, e[2]).index = Entry(c, f[2]).index
    <3>1. e = f
      BY <1>10, <2>2
    <3>2. ~(Entry(c, e[2]).index < Entry(c, e[2]).index) /\ ~(Entry(c, e[2]).birth < Entry(c, e[2]).birth)
      BY <1>12
    <3>3. ~OrderBefore(c, e, e)
      BY <2>1, <3>1, <3>2 DEF OrderBefore
    <3> QED
      BY <3>1, <3>2, <3>3
  <2>3. CASE Entry(c, e[2]).index # Entry(c, f[2]).index
    BY <2>1, <2>3 DEF OrderBefore
  <2> QED
    BY <2>2, <2>3
<1> QED
  BY <1>4, <1>6, <1>7, <1>8, <1>10, <1>12, <1>13 DEF G

\* They are named in the order of their indices.
LEMMA OrderListed ==
    ASSUME SaveOK, NEW c \in Configs, Alone(c), Compact(c), deletesAll[c] = {}
    PROVE  LET n == Cardinality(Gathered(c))
           IN  /\ n \in Nat /\ DOMAIN OrderList(c) = 1 .. n
               /\ \A k \in 1 .. n : /\ OrderList(c)[k][2] \in Listed(c, AnyType)
                                    /\ OrderList(c)[k][1] <=> Created(c, OrderList(c)[k][2])
               /\ \A s \in Listed(c, AnyType) : \E k \in 1 .. n : OrderList(c)[k][2] = s
               /\ \A k, l \in 1 .. n :
                    k < l <=> Entry(c, OrderList(c)[k][2]).index < Entry(c, OrderList(c)[l][2]).index
<1> DEFINE G == Gathered(c)
           R == {p \in G \X G : OrderBefore(c, p[1], p[2])}
           n == Cardinality(G)
           list == OrderList(c)
           index(e) == Entry(c, e[2]).index
<1>1. /\ IsFiniteSet(G)
      /\ \A e \in G : e[2] \in Listed(c, AnyType) /\ (e[1] <=> Created(c, e[2])) /\ index(e) \in Nat
      /\ \A s \in Listed(c, AnyType) : \E e \in G : e[2] = s
      /\ \A e, f \in G : index(e) = index(f) => e = f
      /\ \A e, f \in G : OrderBefore(c, e, f) <=> index(e) < index(f)
  BY GatheredAre
<1>2. list = Sorted(G, R)
  BY DEF OrderList
<1>3. \A e, f \in G : <<e, f>> \in R <=> OrderBefore(c, e, f)
  OBVIOUS
<1> HIDE DEF R, G, list, index
<1>4. \A e, f \in G : <<e, f>> \in R <=> index(e) < index(f)
  BY <1>1, <1>3
<1>5. Orders(R, G)
  <2>1. \A e \in G : <<e, e>> \notin R
    BY <1>1, <1>4
  <2>2. ASSUME NEW e \in G, NEW f \in G, NEW g \in G, <<e, f>> \in R, <<f, g>> \in R PROVE <<e, g>> \in R
    <3>1. index(e) < index(f) /\ index(f) < index(g) /\ index(e) \in Nat /\ index(f) \in Nat /\ index(g) \in Nat
      BY <1>1, <1>4, <2>2
    <3>2. index(e) < index(g)
      BY <3>1
    <3> QED
      BY <1>4, <3>2
  <2>3. ASSUME NEW e \in G, NEW f \in G PROVE e = f \/ <<e, f>> \in R \/ <<f, e>> \in R
    <3>1. index(e) \in Nat /\ index(f) \in Nat
      BY <1>1
    <3>2. index(e) = index(f) \/ index(e) < index(f) \/ index(f) < index(e)
      BY <3>1
    <3> QED
      BY <1>1, <1>4, <3>2
  <2> QED
    BY <2>1, <2>2, <2>3 DEF Orders
<1>6. /\ DOMAIN list = 1 .. n
      /\ \A k \in 1 .. n : list[k] \in G
      /\ \A e \in G : \E k \in 1 .. n : list[k] = e
      /\ \A k, l \in 1 .. n : k < l <=> <<list[k], list[l]>> \in R
  BY <1>1, <1>2, <1>5, SortedLists
<1>7. n \in Nat
  BY <1>1, FS_CardinalityType
<1> HIDE DEF n
<1>8. \A k, l \in 1 .. n : k < l <=> index(list[k]) < index(list[l])
  BY <1>4, <1>6
<1>9. \A s \in Listed(c, AnyType) : \E k \in 1 .. n : list[k][2] = s
  BY <1>1, <1>6
<1> QED
  BY <1>1, <1>6, <1>7, <1>8, <1>9 DEF n, list, G, index

\* A call names what the views listed, each section once, in the order of the list.
OrdersAs(list, named, order) ==
    /\ Len(order) \in Nat
    /\ \A i \in DOMAIN list : \E k \in 1 .. Len(order) : order[k] = named[list[i].name]
    /\ \A k \in 1 .. Len(order) : \E i \in DOMAIN list : order[k] = named[list[i].name]
    /\ \A k, l \in 1 .. Len(order) : order[k] = order[l] => k = l
    /\ \A i, j \in DOMAIN list : i < j =>
         \A k, l \in 1 .. Len(order) :
             order[k] = named[list[i].name] /\ order[l] = named[list[j].name] => k < l

LEMMA SentOrdersAs ==
    ASSUME SaveOK, NEW c \in Configs, Alone(c), Compact(c), deletesAll[c] = {},
           NEW answers, AllRan(Len(answers)), NEW file, Holds(c, file, answers),
           NEW named, \A s \in Sids : named[c][s] = NameFor(c, s, answers)
    PROVE  OrdersAs(Views(c), named[c], SentOrder(named, c))
<1> DEFINE n     == Cardinality(Listed(c, AnyType))
           m     == Cardinality(Gathered(c))
           views == Views(c)
           list  == Listing(c)
           sorts == OrderList(c)
           order == SentOrder(named, c)
           name  == named[c]
           index(s) == Entry(c, s).index
           listed == Listed(c, AnyType)
<1>1. /\ n \in Nat /\ DOMAIN views = 1 .. n
      /\ \A i \in 1 .. n : list[i] \in listed /\ views[i].name = list[i]
      /\ \A s \in listed : \E i \in 1 .. n : list[i] = s
      /\ \A i, j \in 1 .. n : i < j <=> index(list[i]) < index(list[j])
  BY ListedApart
<1>2. /\ m \in Nat /\ DOMAIN sorts = 1 .. m
      /\ \A k \in 1 .. m : sorts[k][2] \in listed /\ (sorts[k][1] <=> Created(c, sorts[k][2]))
      /\ \A s \in listed : \E k \in 1 .. m : sorts[k][2] = s
      /\ \A k, l \in 1 .. m : k < l <=> index(sorts[k][2]) < index(sorts[l][2])
  BY OrderListed
<1>3. order = [k \in 1 .. m |-> IF sorts[k][1] THEN name[sorts[k][2]] ELSE sorts[k][2]]
  BY <1>2 DEF SentOrder
<1>4. \A s \in listed : s \in Sids
  BY DEF Listed
<1>5. \A s, t \in listed : name[s] = name[t] => s = t
  <2>1. \A s, t \in listed : NameFor(c, s, answers) = NameFor(c, t, answers) => s = t
    BY NamedApart
  <2> QED
    BY <1>4, <2>1
<1>6. \A s \in listed : ~Created(c, s) => name[s] = s
  BY <1>4 DEF NameFor
<1> HIDE DEF n, m, views, list, sorts, order, name, index, listed
<1>7. \A k \in 1 .. m : order[k] = name[sorts[k][2]]
  BY <1>2, <1>3, <1>6
<1>8. Len(order) = m
  <2>1. DOMAIN order = 1 .. m /\ order = [k \in 1 .. m |-> order[k]]
    BY <1>3
  <2> QED
    BY <1>2, <2>1, FromOneOn
<1>9. ASSUME NEW i \in 1 .. n PROVE \E k \in 1 .. m : order[k] = name[views[i].name]
  <2>1. PICK k \in 1 .. m : sorts[k][2] = list[i]
    BY <1>1, <1>2
  <2> QED
    BY <1>1, <1>7, <2>1
<1>10. ASSUME NEW k \in 1 .. m PROVE \E i \in 1 .. n : order[k] = name[views[i].name]
  <2>1. PICK i \in 1 .. n : list[i] = sorts[k][2]
    BY <1>1, <1>2
  <2> QED
    BY <1>1, <1>7, <2>1
<1>11. ASSUME NEW k \in 1 .. m, NEW l \in 1 .. m, order[k] = order[l] PROVE k = l
  <2>1. sorts[k][2] = sorts[l][2]
    BY <1>2, <1>5, <1>7, <1>11
  <2>2. (k < l <=> l < k) /\ k \in Nat /\ l \in Nat
    BY <1>2, <2>1
  <2> QED
    BY <2>2
<1>12. ASSUME NEW i \in 1 .. n, NEW j \in 1 .. n, i < j, NEW k \in 1 .. m, NEW l \in 1 .. m,
              order[k] = name[views[i].name], order[l] = name[views[j].name]
       PROVE  k < l
  <2>1. sorts[k][2] = list[i] /\ sorts[l][2] = list[j]
    <3>1. /\ sorts[k][2] \in listed /\ name[sorts[k][2]] = name[list[i]] /\ list[i] \in listed
          /\ sorts[l][2] \in listed /\ name[sorts[l][2]] = name[list[j]] /\ list[j] \in listed
      BY <1>1, <1>2, <1>7, <1>12
    <3> QED
      BY <1>5, <3>1
  <2>2. index(list[i]) < index(list[j])
    BY <1>1, <1>12
  <2> QED
    BY <1>2, <2>1, <2>2
<1>13. OrdersAs(views, name, order)
  BY <1>1, <1>2, <1>8, <1>9, <1>10, <1>11, <1>12 DEF OrdersAs
<1> QED
  BY <1>13 DEF views, name, order

\* A package of which nothing is gathered shows nothing.
LEMMA NothingGathered ==
    ASSUME SaveOK, NEW c \in Configs, Alone(c), Compact(c), deletesAll[c] = {}, Gathered(c) = {},
           NEW named, NEW file
    PROVE  InPlace(Views(c), named, file)
<1>1. Listed(c, AnyType) = {}
  BY GatheredAre
<1>2. DOMAIN Views(c) = {}
  BY <1>1, ListedApart
<1> QED
  BY <1>2 DEF InPlace

\* The router runs such a call: the package stands in the order of the list.
LEMMA OrderedAs ==
    ASSUME NEW file, IsFile(file), NEW list, NEW named, NEW order, OrdersAs(list, named, order),
           NamesIn(file) = {named[list[i].name] : i \in DOMAIN list}
    PROVE  InPlace(list, named, OrderedIn(file, order))
<1>1. NamesOnce(file, order)
  BY DEF OrdersAs, NamesOnce
<1> DEFINE new == OrderedIn(file, order)
<1>2. \A k \in 1 .. Len(order) : At(new, order[k]) = k
  BY <1>1, OrderedPlaces
<1> HIDE DEF new
<1>3. ASSUME NEW i \in DOMAIN list, NEW j \in DOMAIN list, i < j
      PROVE  InRow(new, named[list[i].name], named[list[j].name])
  <2>1. PICK k \in 1 .. Len(order) : order[k] = named[list[i].name]
    BY DEF OrdersAs
  <2>2. PICK l \in 1 .. Len(order) : order[l] = named[list[j].name]
    BY DEF OrdersAs
  <2>3. k < l
    BY <1>3, <2>1, <2>2 DEF OrdersAs
  <2> QED
    BY <1>2, <2>1, <2>2, <2>3 DEF InRow
<1> QED
  BY <1>3 DEF InPlace, new

\* The packages to sort: the calls that are to come sort them, or they are sorted.
SortsNow(call, c) == call.op = "order" /\ call.conf = c

OrderingOK ==
    clean /\ phase \in {"ordering", "loading"} =>
        \A c \in ordered :
            /\ \A call \in Elements(calls) : SortsNow(call, c) => OrdersAs(before[c], names[c], call.arg)
            /\ (\A call \in Elements(calls) : ~SortsNow(call, c)) => InPlace(before[c], names[c], server[c])

LEMMA HeadOrRest ==
    ASSUME NEW s, IsSeq(s), s # <<>>, NEW x \in Elements(s)
    PROVE  x = Head(s) \/ x \in Elements(Tail(s))
<1> DEFINE S == Elements(s)
           t == Tail(s)
<1>1. s \in Seq(S)
  BY DEF IsSeq
<1> HIDE DEF S
<1>2. Len(s) \in Nat /\ DOMAIN s = 1 .. Len(s) /\ Head(s) = s[1]
  BY <1>1, LenProperties
<1>3. t \in Seq(S) /\ Len(t) = Len(s) - 1 /\ \A i \in 1 .. Len(t) : t[i] = s[i + 1]
  BY <1>1, HeadTailProperties
<1> HIDE DEF t
<1>4. DOMAIN t = 1 .. Len(t)
  BY <1>3, LenProperties
<1>5. PICK i \in 1 .. Len(s) : x = s[i]
  BY <1>2 DEF Elements
<1>6. CASE i = 1
  BY <1>2, <1>5, <1>6
<1>7. CASE i # 1
  <2>1. i - 1 \in 1 .. Len(t) /\ (i - 1) + 1 = i
    BY <1>2, <1>3, <1>7
  <2>2. t[i - 1] = x
    BY <1>3, <1>5, <2>1
  <2> QED
    BY <1>4, <2>1, <2>2 DEF Elements, t
<1> QED
  BY <1>6, <1>7

\* A section under another name.
LEMMA Renamed ==
    ASSUME NEW r, NEW v, [r EXCEPT !.name = v] \in RouterSection
    PROVE  [r EXCEPT !.name = v].name = v
<1> DEFINE x == [r EXCEPT !.name = v]
<1>1. DOMAIN x = DOMAIN r
  OBVIOUS
<1>2. DOMAIN x = {"name", "type", "opts"}
  BY DEF RouterSection
<1>3. "name" \in DOMAIN r
  BY <1>1, <1>2
<1> QED
  BY <1>3

LEMMA SavedNames ==
    ASSUME SaveOK, clean, phase \in {"ordering", "loading"}, NEW c \in ordered
    PROVE  /\ c \in Configs /\ IsFile(server[c])
           /\ NamesIn(server[c]) = {names[c][before[c][i].name] : i \in DOMAIN before[c]}
<1> DEFINE as(i)   == [before[c][i] EXCEPT !.name = names[c][@]]
           name(i) == names[c][before[c][i].name]
<1>1. c \in Configs /\ IsFile(server[c])
  BY DEF SaveOK, SaveInv, SaveTypeOK, PhaseOK
<1>2. FileSections(server[c]) = AsSaved(c)
  BY DEF SaveOK, SavedOK
<1>3. AsSaved(c) = {as(i) : i \in DOMAIN before[c]}
  BY DEF AsSaved
<1>4. \A x \in FileSections(server[c]) : x \in RouterSection
  <2>1. FileIs(server[c])
    BY <1>1, FileMeans
  <2> QED
    BY <2>1, ElementOfSeq DEF FileSections, FileIs
<1>5. ASSUME NEW i \in DOMAIN before[c] PROVE as(i).name = name(i)
  <2>1. as(i) \in RouterSection
    BY <1>2, <1>3, <1>4
  <2>2. PICK v : v = names[c][before[c][i].name]
    OBVIOUS
  <2>3. as(i) = [before[c][i] EXCEPT !.name = v]
    BY <2>2
  <2>4. [before[c][i] EXCEPT !.name = v].name = v
    BY <2>1, <2>3, Renamed
  <2> QED
    BY <2>2, <2>3, <2>4
<1>6. NamesIn(server[c]) = {x.name : x \in FileSections(server[c])}
  BY <1>1, NamesOfSections
<1> HIDE DEF as, name
<1>7. {x.name : x \in {as(i) : i \in DOMAIN before[c]}} = {name(i) : i \in DOMAIN before[c]}
  BY <1>5
<1> QED
  BY <1>1, <1>2, <1>3, <1>6, <1>7 DEF name

\* The router runs a call that sorts, or one that loads.
LEMMA RouterRunsOrdering == SaveOK /\ OrderingOK /\ RouterRuns => OrderingOK'
<1> SUFFICES ASSUME SaveOK, OrderingOK, RouterRuns, clean', phase' \in {"ordering", "loading"},
                    NEW c \in ordered'
             PROVE  /\ \A call \in Elements(calls') :
                         SortsNow(call, c) => OrdersAs(before'[c], names'[c], call.arg)
                    /\ (\A call \in Elements(calls') : ~SortsNow(call, c)) =>
                         InPlace(before'[c], names'[c], server'[c])
  BY DEF OrderingOK, OrdersAs, InPlace, SortsNow, Elements, InRow, At, Alike
<1> DEFINE first == Head(calls)
<1>1. PICK effect \in Effects(first) : server' = [server EXCEPT ![first.conf] = effect.file]
  BY DEF RouterRuns
<1>2. /\ calls # <<>> /\ calls' = Tail(calls)
      /\ UNCHANGED vars /\ UNCHANGED <<phase, names, before, clean, ordered>>
  BY DEF RouterRuns, ghostVars
<1>3. BatchOK(calls, asked) /\ IsSeq(calls) /\ ServerOK
  BY DEF SaveOK, SaveInv, SaveTypeOK, WireOK, BatchOK, ServerOK
<1>4. /\ CallOK(first) /\ first \in Elements(calls) /\ first.conf \in Configs
      /\ Elements(Tail(calls)) \subseteq Elements(calls)
  BY <1>2, <1>3, BatchAfter DEF CallOK
<1>5. /\ c \in ordered /\ c \in Configs /\ IsFile(server[c])
      /\ NamesIn(server[c]) = {names[c][before[c][i].name] : i \in DOMAIN before[c]}
  BY <1>2, SavedNames
<1>6. /\ \A call \in Elements(calls) : SortsNow(call, c) => OrdersAs(before[c], names[c], call.arg)
      /\ (\A call \in Elements(calls) : ~SortsNow(call, c)) => InPlace(before[c], names[c], server[c])
  BY <1>2, <1>5 DEF OrderingOK
<1>7. \A call \in Elements(calls) : call = first \/ call \in Elements(Tail(calls))
  BY <1>2, <1>3, HeadOrRest
<1> HIDE DEF first
<1>8. CASE SortsNow(first, c)
  <2>1. OrdersAs(before[c], names[c], first.arg)
    BY <1>4, <1>6, <1>8
  <2>2. effect.file = OrderedIn(server[c], first.arg)
    BY <1>8 DEF SortsNow, Effects
  <2>3. server'[c] = OrderedIn(server[c], first.arg)
    BY <1>1, <1>3, <1>5, <1>8, <2>2 DEF SortsNow, ServerOK
  <2>4. InPlace(before[c], names[c], OrderedIn(server[c], first.arg))
    BY <1>5, <2>1, OrderedAs
  <2> QED
    BY <1>2, <1>4, <1>6, <2>3, <2>4
<1>9. CASE ~SortsNow(first, c)
  <2>1. server'[c] = server[c]
    <3>1. CASE phase = "ordering"
      <4>1. first.op = "order"
        BY <1>4, <3>1 DEF SaveOK, PhaseOK
      <4>2. first.conf # c
        BY <1>9, <4>1 DEF SortsNow
      <4> QED
        BY <1>1, <1>3, <1>5, <4>2 DEF ServerOK
    <3>2. CASE phase = "loading"
      <4>1. first.op = "load"
        BY <1>4, <3>2 DEF SaveOK, SaveInv, WireOK
      <4> QED
        BY <1>1, <1>3, <1>4, <1>5, <4>1, SectionsKept
    <3> QED
      BY <1>2, <3>1, <3>2
  <2> QED
    BY <1>2, <1>4, <1>6, <1>7, <1>9, <2>1
<1> QED
  BY <1>8, <1>9

\* The last answer to a save: the packages not to sort stand as they were listed, and
\* the calls sent now sort the others.
LEMMA SaveReplyOrdering == SaveOK /\ IndexOK /\ KeepsOK /\ SaveReply => OrderingOK'
<1> SUFFICES ASSUME SaveOK, IndexOK, KeepsOK, SaveReply, clean', NEW c \in ordered'
             PROVE  /\ \A call \in Elements(calls') :
                         SortsNow(call, c) => OrdersAs(before'[c], names'[c], call.arg)
                    /\ (\A call \in Elements(calls') : ~SortsNow(call, c)) =>
                         InPlace(before'[c], names'[c], server'[c])
  BY DEF OrderingOK, OrdersAs, InPlace, SortsNow, Elements, InRow, At, Alike
<1>1. /\ phase = "saving" /\ calls = <<>> /\ clean /\ Answered(replies)
      /\ server' = server /\ before' = before /\ ordered' = ordered
  BY DEF SaveReply, Answered
<1>2. /\ c \in ordered /\ c \in Configs /\ c \in pkgs \cup reorder /\ TypeOK /\ Births
      /\ Compact(c) /\ deletesAll[c] = {}
      /\ c \notin reorder => Arranged(c, server[c], replies)
  BY <1>1 DEF SaveOK, PhaseOK, KeepsOK, SaveInv, SaveTypeOK
<1>3. Alone(c) /\ Holds(c, server[c], replies) /\ before[c] = Views(c)
  BY <1>1, <1>2 DEF SaveOK, SavingOK
<1>4. PICK named : named = names'
  OBVIOUS
<1>5. AllRan(Len(replies)) /\ \A s \in Sids : named[c][s] = NameFor(c, s, replies)
  BY <1>1, <1>2, <1>4, NamedAsAnswered
<1>6. PICK sent : sent = calls'
  OBVIOUS
<1>7. PICK views : views = Views(c)
  OBVIOUS
<1>8. c \notin reorder => InPlace(views, named[c], server[c])
  <2> SUFFICES ASSUME c \notin reorder PROVE InPlace(views, named[c], server[c])
    OBVIOUS
  <2>1. Filled(values[c]) /\ Ranked(c)
    BY <1>1, <1>2 DEF IndexOK, Unmoved
  <2>2. PICK name : name = named[c]
    OBVIOUS
  <2>3. \A s \in Sids : name[s] = NameFor(c, s, replies)
    BY <1>5, <2>2
  <2>4. InPlace(Views(c), name, server[c])
    BY <1>2, <1>3, <1>5, <2>1, <2>3, ArrangedInPlace
  <2> QED
    BY <1>7, <2>2, <2>4
<1>9. /\ \A call \in Elements(sent) : SortsNow(call, c) => OrdersAs(views, named[c], call.arg)
      /\ (\A call \in Elements(sent) : ~SortsNow(call, c)) => InPlace(views, named[c], server[c])
  <2>1. CASE reorder = {}
    <3>1. phase' = "loading"
      BY <1>1, <2>1 DEF Answered, UnloadAndLoad
    <3>2. \A call \in Elements(sent) : call.op = "load"
      <4>1. SaveInv'
        BY SaveReplyStep DEF SaveOK
      <4> QED
        BY <1>6, <3>1, <4>1 DEF SaveInv, WireOK, Elements
    <3> QED
      BY <1>8, <2>1, <3>2 DEF SortsNow
  <2>2. CASE reorder # {}
    <3>1. sent = OrderCalls(named) /\ reorder \in SUBSET Configs
      BY <1>1, <1>2, <1>4, <1>6, <2>2 DEF Answered, Send, TypeOK
    <3>2. /\ \A call \in Elements(sent) : /\ call.op = "order" /\ call.conf \in reorder
                                          /\ call.arg = SentOrder(named, call.conf)
          /\ \A d \in reorder : Gathered(d) # {} =>
               \E call \in Elements(sent) : call.op = "order" /\ call.conf = d
      BY <3>1, OrderCallsAre
    <3>3. CASE c \notin reorder
      BY <1>8, <3>2, <3>3 DEF SortsNow
    <3>4. CASE c \in reorder
      <4>1. OrdersAs(views, named[c], SentOrder(named, c))
        BY <1>2, <1>3, <1>5, <1>7, SentOrdersAs
      <4>2. Gathered(c) = {} => InPlace(views, named[c], server[c])
        BY <1>2, <1>3, <1>7, NothingGathered
      <4> QED
        BY <3>2, <3>4, <4>1, <4>2 DEF SortsNow
    <3> QED
      BY <3>3, <3>4
  <2> QED
    BY <2>1, <2>2
<1> QED
  BY <1>1, <1>3, <1>4, <1>6, <1>7, <1>9

LEMMA OrderReplyOrdering == SaveOK /\ OrderingOK /\ OrderReply => OrderingOK'
<1> SUFFICES ASSUME SaveOK, OrderingOK, OrderReply, clean', NEW c \in ordered'
             PROVE  /\ \A call \in Elements(calls') :
                         SortsNow(call, c) => OrdersAs(before'[c], names'[c], call.arg)
                    /\ (\A call \in Elements(calls') : ~SortsNow(call, c)) =>
                         InPlace(before'[c], names'[c], server'[c])
  BY DEF OrderingOK, OrdersAs, InPlace, SortsNow, Elements, InRow, At, Alike
<1>1. /\ phase = "ordering" /\ calls = <<>> /\ clean /\ phase' = "loading"
      /\ server' = server /\ before' = before /\ ordered' = ordered /\ names' = names
  BY DEF OrderReply, UnloadAndLoad, ghostVars
<1>2. \A call \in Elements(calls') : call.op = "load"
  <2>1. SaveInv'
    BY OrderReplyStep DEF SaveOK
  <2> QED
    BY <1>1, <2>1 DEF SaveInv, WireOK, Elements
<1>3. Elements(calls) = {}
  BY <1>1 DEF Elements
<1>4. InPlace(before[c], names[c], server[c])
  BY <1>1, <1>3 DEF OrderingOK
<1> QED
  BY <1>1, <1>2, <1>4 DEF SortsNow

LEMMA OrderingStep ==
    SaveOK /\ IndexOK /\ KeepsOK /\ OrderingOK /\ [SaveNext]_allVars => OrderingOK'
<1> SUFFICES ASSUME SaveOK, IndexOK, KeepsOK, OrderingOK, [SaveNext]_allVars,
                    clean', phase' \in {"ordering", "loading"}
             PROVE  OrderingOK'
  BY DEF OrderingOK
<1>1. CASE RouterRefuses \/ RouterRunsStale \/ ForeignEdit \/ LoadReply \/ LoadGivenUp \/ SaveGivenUp \/ OrderGivenUp
  BY <1>1 DEF RouterRefuses, RouterRunsStale, ForeignEdit, LoadReply, LoadGivenUp, SaveGivenUp, OrderGivenUp, GivesUp
<1>2. CASE RouterDropsStale \/ UNCHANGED allVars
  <2>1. UNCHANGED <<server, calls, names, phase, before, clean, ordered>>
    BY <1>2 DEF RouterDropsStale, ghostVars, allVars, saveVars, wireVars
  <2> QED
    BY <2>1 DEF OrderingOK, OrdersAs, InPlace, SortsNow, Elements, InRow, At, Alike
<1>3. CASE Edit
  BY <1>3 DEF Edit, saveVars, wireVars
<1>4. CASE Save
  BY <1>4 DEF Save
<1>5. ASSUME NEW packages \in SUBSET Configs, LoadPackages(packages) PROVE FALSE
  BY <1>5 DEF LoadPackages, ghostVars, SaveOK, PhaseOK
<1> QED
  BY <1>1, <1>2, <1>3, <1>4, <1>5, RouterRunsOrdering, SaveReplyOrdering, OrderReplyOrdering
     DEF SaveNext, Waiting

-----------------------------------------------------------------------------

LEMMA OrderingInit == SaveInit => IndexOK /\ KeepsOK /\ OrderingOK
BY IndexInit DEF SaveInit, KeepsOK, OrderingOK

LEMMA OrderingKept == SaveSpec => [](SaveOK /\ IndexOK /\ KeepsOK /\ OrderingOK)
<1>1. SaveInit => SaveOK /\ IndexOK /\ KeepsOK /\ OrderingOK
  BY SaveOKInit, OrderingInit
<1>2. SaveOK /\ IndexOK /\ KeepsOK /\ OrderingOK /\ [SaveNext]_allVars
        => (SaveOK /\ IndexOK /\ KeepsOK /\ OrderingOK)'
  BY SaveOKStep, IndexStep, KeepsStep, OrderingStep
<1> QED
  BY <1>1, <1>2, PTL DEF SaveSpec

\* A save that nothing disturbed, and before which nothing was removed, leaves the
\* sections of a package on the router in the order in which the views listed them:
\* those of each type, and those of all types unless sections() was called with one.
THEOREM OrderShown == SaveSpec => OrderAsShown
<1> DEFINE Keeps == SaveEnded =>
          \A c \in ordered :
            LET name(i)  == names[c][before[c][i].name]
                place(i) == At(server'[c], name(i))
            IN  /\ {name(i) : i \in DOMAIN before[c]} = NamesIn(server'[c])
                /\ \A i, j \in DOMAIN before[c] :
                     /\ i < j
                     /\ before[c][i].type = before[c][j].type \/ ReadTypes \subseteq {AnyType}
                     => place(i) < place(j)
<1>1. SaveOK /\ OrderingOK => Keeps
  <2> SUFFICES ASSUME SaveOK, OrderingOK, clean, LoadReply, NEW c \in ordered
               PROVE  /\ {names[c][before[c][i].name] : i \in DOMAIN before[c]} = NamesIn(server'[c])
                      /\ InPlace(before[c], names[c], server'[c])
    BY DEF SaveEnded, InPlace, InRow, Alike
  <2>1. phase = "loading" /\ calls = <<>> /\ server' = server
    BY DEF LoadReply
  <2>2. NamesIn(server[c]) = {names[c][before[c][i].name] : i \in DOMAIN before[c]}
    BY <2>1, SavedNames
  <2>3. Elements(calls) = {}
    BY <2>1 DEF Elements
  <2>4. InPlace(before[c], names[c], server[c])
    BY <2>1, <2>3 DEF OrderingOK
  <2> QED
    BY <2>1, <2>2, <2>4
<1> QED
  BY <1>1, OrderingKept, PTL DEF SaveSpec, OrderAsShown
====
