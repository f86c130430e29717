--------------------------- MODULE CbiForm_proofs ---------------------------
(***************************************************************************)
(* Theorems about the form of CbiForm, for every set of forms that says of *)
(* its fields what the assumptions there ask, every content of the router  *)
(* and every text: its state is whole (FormTyped); fields are shown and    *)
(* hidden as their dependencies say (HiddenAlways); what is sent is of the *)
(* datatypes (SentValid) and differs between rows where it has to          *)
(* (NeverClash); a form that shows no error is sent (AcceptedSent); and a  *)
(* form that was seen is seen again (ShownAgain).                          *)
(***************************************************************************)
EXTENDS CbiForm, SequenceTheorems, FiniteSetTheorems, WellFoundedInduction, TLAPS

-----------------------------------------------------------------------------
(* Functions that are worked out *)

LEMMA MadeSame ==
    ASSUME NEW fn
    PROVE  Made(fn) = fn
BY DEF Made

-----------------------------------------------------------------------------
(* Fields *)

\* A field with the choices it has now.
Def == [f \in focus |-> Field(f)]

\* What FormsAssumption says of the fields in focus.
Sound(def) ==
    \A f \in DOMAIN def :
        /\ SourcesIn(def, f) \subseteq DOMAIN def
        /\ \A g \in SourcesIn(def, f) :
              /\ def[g].own # "password" /\ def[g].kind # "dynamic" /\ def[g].rule # "as pass1"
              /\ \A h \in SourcesIn(def, g) : SourcesIn(def, h) = {}

FocusOK ==
    /\ Sound(section.fields)
    /\ section.fields = [f \in focus |-> section.fields[f]]
    /\ \A f \in focus : DOMAIN section.fields[f] = DOMAIN Value

LEMMA FieldKeeps ==
    ASSUME FocusOK, NEW f \in focus
    PROVE  /\ Field(f).needs = section.fields[f].needs /\ Field(f).own = section.fields[f].own
           /\ Field(f).kind = section.fields[f].kind /\ Field(f).rule = section.fields[f].rule
<1> DEFINE made == section.fields[f]
<1>1. DOMAIN made = DOMAIN Value
  BY DEF FocusOK
<1>2. {"needs", "own", "kind", "rule"} \subseteq DOMAIN Value
  BY DEF Value
<1> HIDE DEF made
<1> DEFINE bare == [made EXCEPT !.choices = <<>>]
<1>3. /\ bare.needs = made.needs /\ bare.own = made.own
      /\ bare.kind = made.kind /\ bare.rule = made.rule
  BY <1>1, <1>2
<1>4. Field(f) = bare \/ Field(f) = made
  BY DEF Field, made
<1> HIDE DEF bare
<1> QED
  BY <1>3, <1>4 DEF made

LEMMA DefSources ==
    ASSUME FocusOK, NEW f \in focus
    PROVE  SourcesIn(Def, f) = Sources(f) /\ Sources(f) = SourcesIn(section.fields, f)
<1>1. Def[f].needs = section.fields[f].needs
  BY FieldKeeps DEF Def
<1> QED
  BY <1>1 DEF Sources, SourcesIn

LEMMA DefSound ==
    ASSUME FocusOK
    PROVE  Sound(Def) /\ DOMAIN Def = focus
<1>1. DOMAIN Def = focus
  BY DEF Def
<1>2. ASSUME NEW f \in focus, NEW g \in Sources(f)
      PROVE  /\ g \in focus /\ Def[g].own # "password" /\ Def[g].kind # "dynamic"
             /\ Def[g].rule # "as pass1"
             /\ \A h \in Sources(g) : h \in focus /\ Sources(h) = {}
  <2>1. g \in SourcesIn(section.fields, f)
    BY DefSources
  <2>2. g \in focus
    BY <2>1 DEF FocusOK, Sound, focus
  <2>3. Def[g] = Field(g)
    BY <2>2 DEF Def
  <2>4. /\ section.fields[g].own # "password" /\ section.fields[g].kind # "dynamic"
        /\ section.fields[g].rule # "as pass1"
        /\ \A h \in SourcesIn(section.fields, g) : SourcesIn(section.fields, h) = {}
    BY <2>1 DEF FocusOK, Sound, focus
  <2>5. SourcesIn(section.fields, g) \subseteq focus
    BY <2>2 DEF FocusOK, Sound, focus
  <2>6. ASSUME NEW h \in Sources(g) PROVE h \in focus /\ Sources(h) = {}
    <3>1. h \in SourcesIn(section.fields, g)
      BY <2>2, DefSources
    <3>2. h \in focus
      BY <2>5, <3>1
    <3> QED
      BY <2>4, <3>1, <3>2, DefSources
  <2> QED
    BY <2>2, <2>3, <2>4, <2>6, FieldKeeps
<1>3. ASSUME NEW f \in focus PROVE SourcesIn(Def, f) \subseteq focus
  BY <1>2, DefSources
<1>4. ASSUME NEW f \in focus, NEW g \in SourcesIn(Def, f)
      PROVE  /\ Def[g].own # "password" /\ Def[g].kind # "dynamic" /\ Def[g].rule # "as pass1"
             /\ \A h \in SourcesIn(Def, g) : SourcesIn(Def, h) = {}
  <2>1. g \in Sources(f)
    BY DefSources
  <2>2. g \in focus /\ \A h \in Sources(g) : h \in focus /\ Sources(h) = {}
    BY <1>2, <2>1
  <2>3. ASSUME NEW h \in SourcesIn(Def, g) PROVE SourcesIn(Def, h) = {}
    <3>1. h \in Sources(g)
      BY <2>2, DefSources
    <3> QED
      BY <2>2, <3>1, DefSources
  <2> QED
    BY <1>2, <2>1, <2>3
<1> QED
  BY <1>1, <1>3, <1>4 DEF Sound

\* Whether a field's dependencies are met depends on the texts of the row only.
MetIn(def, texts, opts, f) ==
    \E alt \in def[f].needs : \A g \in DOMAIN alt : Meets(FormVal(def[g], opts, texts[g]), alt[g])

LEMMA MetIs ==
    ASSUME FocusOK, NEW sh, NEW tb, NEW row, NEW f \in focus
    PROVE  Met(sh, tb, row, f) <=> MetIn(Def, sh[row], tb[row], f)
<1>1. Def[f] = Field(f) /\ Sources(f) \subseteq focus
  BY DefSources DEF Def, FocusOK, Sound, focus
<1>2. ASSUME NEW alt \in Field(f).needs, NEW g \in DOMAIN alt
      PROVE  Def[g] = Field(g)
  <2>1. g \in Sources(f)
    BY <1>2, FieldKeeps DEF Sources, SourcesIn
  <2> QED
    BY <1>1, <2>1 DEF Def
<1> QED
  BY <1>1, <1>2 DEF Met, MetIn

LEMMA ValueOfText ==
    ASSUME NEW def, HasEvents(def), NEW opts, NEW more, NEW text
    PROVE  FormVal(def, opts, text) = FormVal(def, more, text)
<1>1. def.kind # "dummy"
  BY DEF HasEvents
<1> QED
  BY <1>1 DEF FormVal

LEMMA MetByTexts ==
    ASSUME NEW def, NEW f, NEW texts, NEW more, NEW opts, NEW others,
           \A g \in SourcesIn(def, f) : HasEvents(def[g]) /\ texts[g] = more[g]
    PROVE  MetIn(def, texts, opts, f) <=> MetIn(def, more, others, f)
<1>1. ASSUME NEW alt \in def[f].needs, NEW g \in DOMAIN alt
      PROVE  FormVal(def[g], opts, texts[g]) = FormVal(def[g], others, more[g])
  <2>1. g \in SourcesIn(def, f)
    BY <1>1 DEF SourcesIn
  <2>2. HasEvents(def[g]) /\ texts[g] = more[g]
    BY <2>1
  <2> QED
    BY <2>2, ValueOfText
<1> QED
  BY <1>1 DEF MetIn

-----------------------------------------------------------------------------
(* Inputs *)

\* Emptying the password of an account leaves the inputs of all other fields alone.
LEMMA EmptiedInputs ==
    ASSUME NEW sh, NEW tb
    PROVE  /\ DOMAIN Emptied(sh, tb) = DOMAIN sh
           /\ \A row \in DOMAIN sh :
                 /\ DOMAIN Emptied(sh, tb)[row] = focus
                 /\ \A f \in focus : Field(f).own # "password" =>
                       Emptied(sh, tb)[row][f] = sh[row][f]
<1> DEFINE Texts1(row) == [f \in focus |->
              IF Field(f).own = "password" /\ sh[row]["__shadow"] = <<>> /\ SystemAccount(tb[row])
              THEN <<"">> ELSE sh[row][f]]
           rows == [row \in DOMAIN sh |-> Made(Texts1(row))]
<1>1. Emptied(sh, tb) = rows
  BY MadeSame DEF Emptied
<1>2. ASSUME NEW row \in DOMAIN sh PROVE rows[row] = Texts1(row)
  <2>1. Made(Texts1(row)) = Texts1(row)
    BY MadeSame
  <2> QED
    BY <2>1
<1>3. DOMAIN rows = DOMAIN sh
  OBVIOUS
<1>4. ASSUME NEW row
      PROVE  /\ DOMAIN Texts1(row) = focus
             /\ \A f \in focus : Field(f).own # "password" => Texts1(row)[f] = sh[row][f]
  OBVIOUS
<1> HIDE DEF rows, Texts1
<1> QED
  BY <1>1, <1>2, <1>3, <1>4

LEMMA DrawnDomain ==
    ASSUME NEW tb
    PROVE  DOMAIN Drawn(tb) = DOMAIN tb
BY MadeSame DEF Drawn

\* Two forms that have the same texts in the inputs of one field, which is not
\* compared with another password.
Alike(more, sh, row, f) ==
    /\ Field(f).rule # "as pass1"
    /\ DOMAIN more = DOMAIN sh /\ more[row][f] = sh[row][f]
    /\ \A r \in DOMAIN sh : more[r][f] = sh[r][f]

\* The same inputs of a field are wrong in both.
AsWrong(more, sh, row, f) == BadInputs(more, row, f) = BadInputs(sh, row, f)

LEMMA BadSame ==
    ASSUME NEW sh, NEW more, NEW row, NEW f, Alike(more, sh, row, f)
    PROVE  AsWrong(more, sh, row, f)
<1> USE DEF Alike
<1>1. ASSUME NEW t PROVE Same(more, f, t) = Same(sh, f, t)
  BY DEF Same
<1>2. ASSUME NEW t PROVE Allowed(more, row, f, t) = Allowed(sh, row, f, t)
  <2> DEFINE rule == Field(f).rule
  <2> USE DEF Allowed
  <2>1. CASE rule \in {"unique", "untagged once"}
    BY <1>1, <2>1
  <2>2. CASE rule = "all unique"
    BY <1>1, <2>2
  <2>3. CASE rule \notin {"unique", "untagged once", "all unique", "as pass1"}
    BY <2>3
  <2> QED
    BY <2>1, <2>2, <2>3
<1>3. ASSUME NEW n PROVE Bad(more, row, f, n) <=> Bad(sh, row, f, n)
  BY <1>2 DEF Bad, Refuses
<1> QED
  BY <1>3 DEF BadInputs, AsWrong

-----------------------------------------------------------------------------
(* The order of the rows *)

\* Every row stands once in the order.
Lists(names, rows) == names \in Seq(rows) /\ InSeq(names) = rows /\ IsInjective(names)

LEMMA ListsNone == Lists(<<>>, {})
BY DEF Lists, InSeq, IsInjective

LEMMA ListsOne ==
    ASSUME NEW r PROVE Lists(<<r>>, {r})
BY DEF Lists, InSeq, IsInjective

LEMMA ListsMore ==
    ASSUME NEW rows, NEW names, Lists(names, rows), NEW name, name \notin rows
    PROVE  Lists(Append(names, name), rows \cup {name})
<1> DEFINE n == Len(names)
           more == Append(names, name)
<1>1. names \in Seq(rows) /\ n \in Nat /\ DOMAIN names = 1 .. n
  BY DEF Lists
<1>2. /\ more \in Seq(rows \cup {name}) /\ DOMAIN more = 1 .. n + 1
      /\ more[n + 1] = name /\ \A i \in 1 .. n : more[i] = names[i] /\ names[i] \in rows
  BY <1>1
<1> HIDE DEF n, more
<1>3. \A i \in 1 .. n + 1 : i \in 1 .. n \/ i = n + 1
  BY <1>1
<1>4. 1 .. n \subseteq 1 .. n + 1 /\ n + 1 \in 1 .. n + 1
  BY <1>1
<1>5. InSeq(more) = rows \cup {name}
  BY <1>1, <1>2, <1>3, <1>4 DEF InSeq, Lists
<1>6. IsInjective(more)
  BY <1>1, <1>2, <1>3 DEF IsInjective, Lists
<1> QED
  BY <1>2, <1>5, <1>6 DEF Lists, more

LEMMA ListsLess ==
    ASSUME NEW rows, NEW names, Lists(names, rows), NEW i \in DOMAIN names
    PROVE  Lists(RemoveAt(names, i), rows \ {names[i]})
<1> DEFINE n == Len(names)
           less == RemoveAt(names, i)
<1>1. names \in Seq(rows) /\ n \in Nat /\ DOMAIN names = 1 .. n /\ i \in 1 .. n
  BY DEF Lists
<1>2. /\ DOMAIN less = 1 .. n - 1
      /\ \A j \in 1 .. n - 1 : less[j] = IF j < i THEN names[j] ELSE names[j + 1]
      /\ Len(less) = n - 1 /\ less \in Seq(rows)
  <2> DEFINE front == SubSeq(names, 1, i - 1)
             rest  == SubSeq(names, i + 1, n)
  <2>1. front \in Seq(rows) /\ Len(front) = i - 1 /\ \A j \in 1 .. i - 1 : front[j] = names[j]
    BY <1>1
  <2>2. rest \in Seq(rows) /\ Len(rest) = n - i /\ \A j \in 1 .. n - i : rest[j] = names[i + j]
    BY <1>1
  <2>3. less = front \o rest
    BY DEF RemoveAt
  <2> HIDE DEF front, rest, n, less
  <2>4. less \in Seq(rows) /\ Len(less) = n - 1 /\ DOMAIN less = 1 .. n - 1
    BY <1>1, <2>1, <2>2, <2>3
  <2>5. ASSUME NEW j \in 1 .. n - 1, j < i PROVE less[j] = names[j]
    BY <1>1, <2>1, <2>2, <2>3, <2>5
  <2>6. ASSUME NEW j \in 1 .. n - 1, ~(j < i) PROVE less[j] = names[j + 1]
    <3>1. less[j] = rest[j - (i - 1)] /\ j - (i - 1) \in 1 .. n - i
      BY <1>1, <2>1, <2>2, <2>3, <2>6
    <3>2. i + (j - (i - 1)) = j + 1
      BY <1>1
    <3> QED
      BY <2>2, <3>1, <3>2
  <2> QED
    BY <2>4, <2>5, <2>6
<1> HIDE DEF n, less
<1> DEFINE At(j) == IF j < i THEN j ELSE j + 1
<1>3. \A j \in 1 .. n - 1 : At(j) \in 1 .. n /\ At(j) # i /\ less[j] = names[At(j)]
  BY <1>1, <1>2
<1>4. \A j \in 1 .. n : j # i => \E k \in 1 .. n - 1 : At(k) = j
  <2>1. ASSUME NEW j \in 1 .. n, j < i PROVE j \in 1 .. n - 1 /\ At(j) = j
    BY <1>1, <2>1
  <2>2. ASSUME NEW j \in 1 .. n, j > i PROVE j - 1 \in 1 .. n - 1 /\ At(j - 1) = j
    BY <1>1, <2>2
  <2> QED
    BY <1>1, <2>1, <2>2
<1>5. \A j \in 1 .. n - 1, k \in 1 .. n - 1 : At(j) = At(k) => j = k
  BY <1>1
<1> HIDE DEF At
<1>6. \A j \in 1 .. n, k \in 1 .. n : names[j] = names[k] => j = k
  BY <1>1 DEF Lists, IsInjective
<1>7. rows = {names[j] : j \in 1 .. n}
  BY <1>1 DEF Lists, InSeq
<1>8. InSeq(less) = rows \ {names[i]}
  <2>1. InSeq(less) = {less[j] : j \in 1 .. n - 1}
    BY <1>2 DEF InSeq
  <2>2. ASSUME NEW j \in 1 .. n - 1 PROVE less[j] \in rows \ {names[i]}
    BY <1>1, <1>3, <1>6, <1>7
  <2>3. ASSUME NEW j \in 1 .. n, names[j] # names[i] PROVE \E k \in 1 .. n - 1 : less[k] = names[j]
    BY <1>3, <1>4, <2>3
  <2> QED
    BY <1>7, <2>1, <2>2, <2>3
<1>9. IsInjective(less)
  BY <1>2, <1>3, <1>5, <1>6 DEF IsInjective
<1>10. less \in Seq(rows \ {names[i]})
  BY <1>1, <1>2, <1>8 DEF InSeq
<1> QED
  BY <1>8, <1>9, <1>10 DEF Lists, less

LEMMA ListsSwapped ==
    ASSUME NEW rows, NEW names, Lists(names, rows), NEW i \in DOMAIN names, i > 1
    PROVE  Lists([names EXCEPT ![i] = names[i - 1], ![i - 1] = names[i]], rows)
<1> DEFINE n == Len(names)
           other == [names EXCEPT ![i] = names[i - 1], ![i - 1] = names[i]]
           At(j) == IF j = i THEN i - 1 ELSE IF j = i - 1 THEN i ELSE j
<1>1. names \in Seq(rows) /\ n \in Nat /\ DOMAIN names = 1 .. n /\ i \in 1 .. n /\ i - 1 \in 1 .. n
  BY DEF Lists
<1>2. DOMAIN other = 1 .. n /\ \A j \in 1 .. n : other[j] = names[At(j)]
  BY <1>1
<1>3. other \in Seq(rows)
  BY <1>1
<1>4. /\ \A j \in 1 .. n : At(j) \in 1 .. n /\ At(At(j)) = j
      /\ \A j \in 1 .. n, k \in 1 .. n : At(j) = At(k) => j = k
  BY <1>1
<1> HIDE DEF n, other, At
<1>5. InSeq(other) = InSeq(names)
  BY <1>1, <1>2, <1>4 DEF InSeq
<1>6. IsInjective(other)
  BY <1>1, <1>2, <1>4 DEF IsInjective, Lists
<1> QED
  BY <1>3, <1>5, <1>6 DEF Lists, other

-----------------------------------------------------------------------------
(* The invariant *)

\* The form as a whole: what it holds for every row and field.
Whole ==
    /\ phase \in {"opening", "loading", "shown", "saving", "sending", "broken"}
    /\ Lists(order, DOMAIN table) /\ Lists(router.order, DOMAIN router.table)
    /\ Rows = DOMAIN hidden /\ Rows = DOMAIN wrong /\ Rows = DOMAIN marks
    /\ Rows \in {{}, DOMAIN table}
    /\ phase \in {"shown", "saving", "sending", "broken"} => Rows = DOMAIN table
    /\ \A row \in Rows :
          /\ hidden[row] \subseteq focus /\ wrong[row] \subseteq focus
          /\ DOMAIN shown[row] = focus /\ DOMAIN marks[row] = focus

\* An input that is marked belongs to a field that shows an error.
Marked == \A row \in Rows, f \in focus : marks[row][f] # {} => f \in wrong[row]

\* HiddenIsUnmet for one row.
HiddenFits(def, texts, opts, hid, bad) ==
    \A f \in DOMAIN def :
        SourcesIn(def, f) # {} /\ (\A g \in SourcesIn(def, f) : HasEvents(def[g]) /\ g \notin bad)
            => (f \in hid <=> ~MetIn(def, texts, opts, f))

Fitting ==
    phase = "shown" =>
        \A row \in Rows : HiddenFits(Def, shown[row], table[row], hidden[row], wrong[row])

FormInv == FocusOK /\ Whole /\ Marked /\ Fitting

LEMMA HiddenIs ==
    ASSUME FocusOK, Fitting
    PROVE  HiddenIsUnmet
<1> SUFFICES ASSUME phase = "shown", NEW row \in Rows, NEW f \in focus, Sources(f) # {},
                    \A g \in Sources(f) : HasEvents(Field(g)) /\ g \notin wrong[row]
             PROVE  f \in hidden[row] <=> ~Met(shown, table, row, f)
  BY DEF HiddenIsUnmet
<1>1. HiddenFits(Def, shown[row], table[row], hidden[row], wrong[row])
  BY DEF Fitting
<1>2. SourcesIn(Def, f) = Sources(f) /\ f \in DOMAIN Def /\ Sources(f) \subseteq focus
  BY DefSources, DefSound DEF Sound
<1>3. \A g \in Sources(f) : HasEvents(Def[g]) /\ g \notin wrong[row]
  BY <1>2 DEF Def
<1>4. Met(shown, table, row, f) <=> MetIn(Def, shown[row], table[row], f)
  BY MetIs
<1> QED
  BY <1>1, <1>2, <1>3, <1>4 DEF HiddenFits

LEMMA WholeIsTyped ==
    ASSUME Whole
    PROVE  FormTypeOK
BY DEF Whole, FormTypeOK, Lists

\* While section and choices stay, so do the fields.
LEMMA SameFields ==
    ASSUME section' = section, loaded' = loaded
    PROVE  Def' = Def /\ focus' = focus
BY DEF Def, focus, Field

LEMMA SameFocus ==
    ASSUME FocusOK, section' = section
    PROVE  FocusOK' /\ focus' = focus
BY DEF FocusOK, focus

-----------------------------------------------------------------------------
(* Forms that were validated *)

\* The inputs of these rows are whole, marked and shown as their texts ask.
Verified(rows, tb) ==
    /\ DOMAIN shown' = rows /\ DOMAIN hidden' = rows /\ DOMAIN wrong' = rows /\ DOMAIN marks' = rows
    /\ \A row \in rows :
          /\ hidden'[row] \subseteq focus /\ wrong'[row] \subseteq focus
          /\ DOMAIN shown'[row] = focus /\ DOMAIN marks'[row] = focus
          /\ \A f \in focus : marks'[row][f] # {} => f \in wrong'[row]
          /\ HiddenFits(Def, shown'[row], tb[row], hidden'[row], wrong'[row])

LEMMA ValidatedFits ==
    ASSUME FocusOK, NEW sh, NEW tb, NEW row, NEW before
    PROVE  HiddenFits(Def, sh[row], tb[row], HiddenNow(sh, tb, row, before), WrongFields(sh, row))
<1> DEFINE accepted == {g \in focus : HasEvents(Field(g))} \ WrongFields(sh, row)
<1> SUFFICES ASSUME NEW f \in DOMAIN Def, SourcesIn(Def, f) # {},
                    \A g \in SourcesIn(Def, f) : HasEvents(Def[g]) /\ g \notin WrongFields(sh, row)
             PROVE  f \in HiddenNow(sh, tb, row, before) <=> ~MetIn(Def, sh[row], tb[row], f)
  BY DEF HiddenFits
<1>1. f \in focus /\ SourcesIn(Def, f) = Sources(f) /\ Sources(f) \subseteq focus
  BY DefSources, DefSound DEF Sound
<1>2. Sources(f) \cap accepted # {}
  BY <1>1 DEF Def
<1>3. f \in HiddenNow(sh, tb, row, before) <=> ~Met(sh, tb, row, f)
  BY <1>1, <1>2 DEF HiddenNow
<1> QED
  BY <1>1, <1>3, MetIs

LEMMA ValidatedVerified ==
    ASSUME FocusOK, NEW inputsNow, NEW tb, NEW before, Validated(inputsNow, tb, before)
    PROVE  Verified(DOMAIN inputsNow, tb)
<1> DEFINE sh == Emptied(inputsNow, tb)
<1>1. /\ shown' = sh
      /\ wrong' = [row \in DOMAIN sh |-> WrongFields(sh, row)]
      /\ marks' = [row \in DOMAIN sh |-> [f \in focus |-> BadInputs(sh, row, f)]]
      /\ hidden' = [row \in DOMAIN sh |-> HiddenNow(sh, tb, row, before[row])]
  BY DEF Validated
<1>2. DOMAIN sh = DOMAIN inputsNow /\ \A row \in DOMAIN sh : DOMAIN sh[row] = focus
  BY EmptiedInputs
<1> HIDE DEF sh
<1>3. ASSUME NEW row \in DOMAIN sh
      PROVE  /\ HiddenNow(sh, tb, row, before[row]) \subseteq focus
             /\ WrongFields(sh, row) \subseteq focus
             /\ \A f \in focus : BadInputs(sh, row, f) # {} => f \in WrongFields(sh, row)
             /\ HiddenFits(Def, sh[row], tb[row], HiddenNow(sh, tb, row, before[row]), WrongFields(sh, row))
  <2>1. HiddenNow(sh, tb, row, before[row]) \subseteq focus
    BY DEF HiddenNow
  <2>2. WrongFields(sh, row) \subseteq focus /\ \A f \in focus : BadInputs(sh, row, f) # {} => f \in WrongFields(sh, row)
    BY DEF WrongFields
  <2> QED
    BY <2>1, <2>2, ValidatedFits
<1> QED
  BY <1>1, <1>2, <1>3 DEF Verified

LEMMA RedrawVerified ==
    ASSUME FocusOK, NEW tb, Redraw(tb)
    PROVE  Verified(DOMAIN tb, tb) /\ phase' \in {"shown", "broken"}
<1>1. Validated(Drawn(tb), tb, [row \in DOMAIN tb |-> {}]) /\ phase' \in {"shown", "broken"}
  BY DEF Redraw
<1> DEFINE drawn == Drawn(tb)
           before == [row \in DOMAIN tb |-> {}]
<1>2. Validated(drawn, tb, before) /\ DOMAIN drawn = DOMAIN tb
  BY <1>1, DrawnDomain
<1> HIDE DEF drawn, before
<1> QED
  BY <1>1, <1>2, ValidatedVerified

-----------------------------------------------------------------------------
(* Steps *)

LEMMA VerifiedKeeps ==
    ASSUME FormInv, section' = section, loaded' = loaded, router' = router,
           Verified(DOMAIN table', table'), phase' \in {"shown", "broken", "saving"},
           Lists(order', DOMAIN table')
    PROVE  FormInv'
<1>1. FocusOK /\ Whole
  BY DEF FormInv
<1>2. FocusOK' /\ focus' = focus /\ Def' = Def
  BY <1>1, SameFocus, SameFields
<1>3. Whole'
  BY <1>1, <1>2 DEF Whole, Verified, Rows
<1>4. Marked'
  BY <1>2 DEF Marked, Verified, Rows
<1>5. Fitting'
  BY <1>2 DEF Fitting, Verified, Rows
<1> QED
  BY <1>2, <1>3, <1>4, <1>5 DEF FormInv

LEMMA InitForm == ASSUME Init PROVE FormInv
<1>0. PICK made \in Forms : \E names \in Foci(made.fields) :
         section = [made EXCEPT !.fields = Made([f \in names |-> made.fields[f]])]
  BY Zenon DEF Init
<1>1. PICK names \in Foci(made.fields) :
         section = [made EXCEPT !.fields = Made([f \in names |-> made.fields[f]])]
  BY <1>0
<1> DEFINE fields == made.fields
           all == {Focus(fields, f) : f \in DOMAIN fields}
           largest == {set \in all : \A other \in all : set \subseteq other => set = other}
           Said(set) == {[fields[f] EXCEPT !.option = IF @ = f THEN "" ELSE @] : f \in set}
<1>2. names \in largest
  <2>1. PICK said \in {Said(set) : set \in largest} : names = CHOOSE set \in largest : Said(set) = said
    BY <1>1 DEF Foci
  <2>2. \E set \in largest : Said(set) = said
    BY <2>1
  <2> HIDE DEF largest, Said
  <2> QED
    BY <2>1, <2>2
<1>3. PICK f0 \in DOMAIN fields : names = Focus(fields, f0)
  BY <1>2
<1>4. /\ DOMAIN made = {"fields", "addremove", "sortable", "preset", "given", "rows"}
      /\ names \subseteq DOMAIN fields
      /\ \A g \in names : SourcesIn(fields, g) \subseteq names
  BY <1>3, FormsAssumption
<1>5. \A f \in names :
         /\ DOMAIN fields[f] = DOMAIN Value
         /\ \A g \in SourcesIn(fields, f) :
               /\ fields[g].own # "password" /\ fields[g].kind # "dynamic" /\ fields[g].rule # "as pass1"
               /\ \A h \in SourcesIn(fields, g) : SourcesIn(fields, h) = {}
  BY <1>4, FormsAssumption
<1> HIDE DEF fields
<1>6. section.fields = [f \in names |-> fields[f]] /\ focus = names
  BY <1>1, <1>4, MadeSame DEF focus, fields
<1>7. \A f \in names : section.fields[f] = fields[f] /\ SourcesIn(section.fields, f) = SourcesIn(fields, f)
  BY <1>6 DEF SourcesIn
<1>8. FocusOK
  <2>1. DOMAIN section.fields = names
    BY <1>6
  <2>2. ASSUME NEW f \in names, NEW g \in SourcesIn(section.fields, f)
        PROVE  /\ g \in names
               /\ section.fields[g].own # "password" /\ section.fields[g].kind # "dynamic"
               /\ section.fields[g].rule # "as pass1"
               /\ \A h \in SourcesIn(section.fields, g) : SourcesIn(section.fields, h) = {}
    <3>1. g \in SourcesIn(fields, f) /\ g \in names
      BY <1>4, <1>7
    <3>2. ASSUME NEW h \in SourcesIn(section.fields, g) PROVE SourcesIn(section.fields, h) = {}
      <4>1. h \in SourcesIn(fields, g) /\ h \in names
        BY <1>4, <1>7, <3>1
      <4> QED
        BY <1>5, <1>7, <3>1, <4>1
    <3> QED
      BY <1>5, <1>7, <3>1, <3>2
  <2> QED
    <3>1. section.fields = [f \in focus |-> section.fields[f]]
      BY <1>6
    <3>2. \A f \in focus : DOMAIN section.fields[f] = DOMAIN Value
      BY <1>5, <1>6, <1>7
    <3>3. Sound(section.fields)
      BY <2>1, <2>2 DEF Sound
    <3> QED
      BY <3>1, <3>2, <3>3 DEF FocusOK
<1>9. Lists(order, DOMAIN table) /\ router.order = order /\ router.table = table
  <2>1. \/ \E r \in section.rows : order = <<r>>
        \/ order = <<>>
    BY DEF Init
  <2>2. DOMAIN table = InSeq(order) /\ router = [table |-> table, order |-> order]
    BY DEF Init
  <2>3. CASE order = <<>>
    <3>1. InSeq(order) = {}
      BY <2>3 DEF InSeq
    <3>2. DOMAIN table = {}
      BY <2>2, <3>1
    <3> QED
      BY <2>2, <2>3, <3>2, ListsNone
  <2>4. ASSUME NEW r \in section.rows, order = <<r>> PROVE Lists(order, DOMAIN table)
    BY <2>2, <2>4, ListsOne DEF InSeq
  <2> QED
    BY <2>1, <2>2, <2>3, <2>4
<1>10. shown = <<>> /\ hidden = <<>> /\ wrong = <<>> /\ marks = <<>> /\ phase = "opening"
  BY DEF Init
<1>11. DOMAIN <<>> = {}
  OBVIOUS
<1>12. Whole
  BY <1>9, <1>10, <1>11 DEF Whole, Rows
<1> QED
  BY <1>8, <1>10, <1>11, <1>12 DEF FormInv, Marked, Fitting, Rows

LEMMA SavedDomain == DOMAIN SavedTable = DOMAIN table
BY MadeSame DEF SavedTable

LEMMA LoadForm == ASSUME FormInv, Load PROVE FormInv'
<1>1. FocusOK /\ Whole /\ Marked /\ phase \in {"opening", "sending"}
  BY DEF FormInv, Load
<1>2. FocusOK' /\ focus' = focus
  BY <1>1, SameFocus DEF Load
<1>3. /\ UNCHANGED <<table, order, shown, hidden, wrong, marks>> /\ phase' = "loading"
      /\ \/ router' = router
         \/ router' = [table |-> table, order |-> order]
  BY DEF Load, inputs
<1>4. Lists(order', DOMAIN table') /\ Lists(router'.order, DOMAIN router'.table)
  BY <1>1, <1>3 DEF Whole
<1>5. Rows' = Rows
  BY <1>3 DEF Rows
<1>6. Whole'
  BY <1>1, <1>2, <1>3, <1>4, <1>5 DEF Whole
<1>7. Marked'
  BY <1>1, <1>2, <1>3, <1>5 DEF Marked
<1> QED
  BY <1>2, <1>3, <1>6, <1>7 DEF FormInv, Fitting

LEMMA DrawForm == ASSUME FormInv, Draw PROVE FormInv'
<1>1. FocusOK /\ Whole /\ Redraw(table)
  BY DEF FormInv, Draw
<1>2. UNCHANGED <<section, router, table, order, loaded>>
  BY DEF Draw
<1>3. Verified(DOMAIN table, table) /\ phase' \in {"shown", "broken"}
  BY <1>1, RedrawVerified
<1>4. Verified(DOMAIN table', table') /\ Lists(order', DOMAIN table')
  BY <1>1, <1>2, <1>3 DEF Whole
<1> QED
  BY <1>2, <1>3, <1>4, VerifiedKeeps

LEMMA RedrawnForm ==
    ASSUME FormInv, Redraw(table'), UNCHANGED <<section, router, loaded>>, Lists(order', DOMAIN table')
    PROVE  FormInv'
<1>1. FocusOK
  BY DEF FormInv
<1>2. PICK tb : tb = table'
  OBVIOUS
<1>3. Verified(DOMAIN tb, tb) /\ phase' \in {"shown", "broken"}
  BY <1>1, <1>2, RedrawVerified
<1> QED
  BY <1>2, <1>3, VerifiedKeeps

LEMMA AddRowForm == ASSUME FormInv, AddRow PROVE FormInv'
<1>1. Lists(order, DOMAIN table) /\ Redraw(table') /\ UNCHANGED <<section, router, loaded>>
  BY DEF FormInv, Whole, AddRow
<1>2. PICK name \in FreeName :
         \/ table' = SavedTable /\ UNCHANGED order
         \/ /\ table' = Made([row \in DOMAIN table \cup {name} |-> IF row = name THEN NewRow ELSE SavedRow(row)])
            /\ order' = Append(order, name)
  BY DEF AddRow
<1>3. name \notin DOMAIN table
  BY DEF FreeName, Taken
<1>4. CASE table' = SavedTable /\ UNCHANGED order
  BY <1>1, <1>4, SavedDomain, RedrawnForm
<1>5. CASE /\ table' = Made([row \in DOMAIN table \cup {name} |-> IF row = name THEN NewRow ELSE SavedRow(row)])
           /\ order' = Append(order, name)
  <2>1. DOMAIN table' = DOMAIN table \cup {name}
    BY <1>5, MadeSame
  <2>2. Lists(order', DOMAIN table')
    BY <1>1, <1>3, <1>5, <2>1, ListsMore
  <2> QED
    BY <1>1, <2>2, RedrawnForm
<1> QED
  BY <1>2, <1>4, <1>5

LEMMA RemoveRowForm == ASSUME FormInv, NEW row \in DOMAIN table, RemoveRow(row) PROVE FormInv'
<1>1. Lists(order, DOMAIN table) /\ Redraw(table') /\ UNCHANGED <<section, router, loaded>>
  BY DEF FormInv, Whole, RemoveRow
<1>2. PICK i \in DOMAIN order : order[i] = row /\ order' = RemoveAt(order, i)
  BY DEF RemoveRow
<1>3. DOMAIN table' = DOMAIN table \ {row}
  BY MadeSame DEF RemoveRow
<1>4. Lists(order', DOMAIN table')
  BY <1>1, <1>2, <1>3, ListsLess
<1> QED
  BY <1>1, <1>4, RedrawnForm

LEMMA SortRowForm == ASSUME FormInv, NEW i \in DOMAIN order, SortRow(i) PROVE FormInv'
<1>1. Lists(order, DOMAIN table) /\ Redraw(table') /\ UNCHANGED <<section, router, loaded>>
  BY DEF FormInv, Whole, SortRow
<1>2. order' = [order EXCEPT ![i] = order[i - 1], ![i - 1] = order[i]] /\ i > 1 /\ table' = SavedTable
  BY DEF SortRow
<1>3. Lists(order', DOMAIN table')
  BY <1>1, <1>2, SavedDomain, ListsSwapped
<1> QED
  BY <1>1, <1>3, RedrawnForm

LEMMA SendForm == ASSUME FormInv, Send PROVE FormInv'
<1>1. FocusOK /\ Lists(order, DOMAIN table) /\ DOMAIN shown = DOMAIN table
  BY DEF FormInv, Whole, Send, Rows
<1>2. /\ Validated(shown, table, hidden) /\ phase' \in {"shown", "saving"}
      /\ UNCHANGED <<section, router, table, order, loaded>>
  BY DEF Send
<1>3. Verified(DOMAIN shown, table)
  BY <1>1, <1>2, ValidatedVerified
<1>4. Verified(DOMAIN table', table') /\ Lists(order', DOMAIN table')
  BY <1>1, <1>2, <1>3
<1> QED
  BY <1>2, <1>4, VerifiedKeeps

LEMMA EncryptedDomain ==
    ASSUME NEW tb, NEW rows PROVE DOMAIN Encrypted(tb, rows) = DOMAIN tb
BY DEF Encrypted

LEMMA SaveForm == ASSUME FormInv, Save PROVE FormInv'
<1>1. FocusOK /\ Whole /\ Marked /\ phase = "saving"
  BY DEF FormInv, Save
<1>2. /\ UNCHANGED <<section, router, order, shown, hidden, wrong, marks>> /\ phase' = "sending"
      /\ table' = Encrypted(SavedTable, ToCrypt)
  BY DEF Save, inputs
<1>3. FocusOK' /\ focus' = focus
  BY <1>1, <1>2, SameFocus
<1>4. DOMAIN table' = DOMAIN table
  BY <1>2, EncryptedDomain, SavedDomain
<1>5. Rows' = Rows
  BY <1>2 DEF Rows
<1>6. Whole'
  BY <1>1, <1>2, <1>3, <1>4, <1>5 DEF Whole
<1>7. Marked'
  BY <1>1, <1>2, <1>3, <1>5 DEF Marked
<1> QED
  BY <1>2, <1>3, <1>6, <1>7 DEF FormInv, Fitting

LEMMA ResetForm == ASSUME FormInv, Reset PROVE FormInv'
<1>1. FocusOK /\ Whole
  BY DEF FormInv
<1>2. /\ UNCHANGED <<section, router>> /\ phase' = "opening"
      /\ table' = router.table /\ order' = router.order
      /\ shown' = <<>> /\ hidden' = <<>> /\ wrong' = <<>> /\ marks' = <<>>
  BY DEF Reset
<1>3. FocusOK' /\ focus' = focus
  BY <1>1, <1>2, SameFocus
<1>4. DOMAIN <<>> = {}
  OBVIOUS
<1>5. Whole'
  BY <1>1, <1>2, <1>4 DEF Whole, Rows
<1> QED
  BY <1>2, <1>3, <1>4, <1>5 DEF FormInv, Marked, Fitting, Rows

\* A field that depends on f stands among the fields that are validated again
\* after f, or on the other side of a field that stays wrong; no chain is longer.
LEMMA ReachedAll ==
    ASSUME FocusOK, NEW sh, NEW row, NEW f \in focus
    PROVE  /\ Reached(sh, row, f) \subseteq focus
           /\ \A k \in focus : f \in Sources(k) => k \in Reached(sh, row, f)
           /\ \A s \in Reached(sh, row, f), k \in focus :
                 s \in Sources(k) /\ s \notin WrongFields(sh, row) => k \in Reached(sh, row, f)
<1> DEFINE After(set) == {g \in focus : Sources(g) \cap set # {}}
           direct == After({f})
           next == After(direct \ WrongFields(sh, row))
<1>1. Reached(sh, row, f) = direct \cup next
  BY DEF Reached
<1>2. direct \subseteq focus /\ next \subseteq focus /\ \A k \in focus : f \in Sources(k) => k \in direct
  OBVIOUS
<1>3. ASSUME NEW s \in direct, s \notin WrongFields(sh, row), NEW k \in focus, s \in Sources(k)
      PROVE  k \in next
  BY <1>3
<1>4. ASSUME NEW s \in next, NEW k \in focus, s \in Sources(k)
      PROVE  FALSE
  <2>1. PICK d \in direct : d \in Sources(s)
    BY <1>4
  <2>2. f \in Sources(d) /\ d \in focus /\ s \in focus
    BY <1>2, <1>4, <2>1
  <2>3. \A g \in SourcesIn(Def, k) : \A h \in SourcesIn(Def, g) : SourcesIn(Def, h) = {}
    BY DefSound DEF Sound
  <2>4. SourcesIn(Def, k) = Sources(k) /\ SourcesIn(Def, s) = Sources(s) /\ SourcesIn(Def, d) = Sources(d)
    BY <2>2, DefSources
  <2> QED
    BY <1>4, <2>1, <2>2, <2>3, <2>4
<1> HIDE DEF direct, next
<1> QED
  BY <1>1, <1>2, <1>3, <1>4

LEMMA EditForm == ASSUME FormInv, NEW row \in DOMAIN table, NEW f \in focus, Edit(row, f) PROVE FormInv'
<1>1. /\ FocusOK /\ Whole /\ Marked /\ Fitting /\ phase = "shown" /\ phase' = "shown"
      /\ UNCHANGED <<section, router, table, order, loaded>>
  BY DEF FormInv, Edit, Acts
<1>2. PICK new \in Entries(Field(f), shown[row][f]) \ {shown[row][f]} :
        LET sh    == [shown EXCEPT ![row][f] = new]
            n     == IF Field(f).kind = "dynamic" THEN CHOOSE i \in DOMAIN new : new[i] # shown[row][f][i] ELSE 1
            bad   == Refuses(sh, row, f, new[n])
            mk    == IF bad THEN marks[row][f] \cup {n} ELSE marks[row][f] \ {n}
            again == IF HasEvents(Field(f)) /\ mk = {} THEN Reached(sh, row, f) ELSE {}
            sh2   == IF "password" \in again THEN Emptied(sh, table) ELSE sh
            errs  == {g \in again : BadInputs(sh2, row, g) # {}} \cup IF bad THEN {f} ELSE {}
            fine  == again \cup IF mk = {} THEN {f} ELSE {}
        IN  /\ shown' = sh2
            /\ marks' = [marks EXCEPT ![row] = [g \in focus |->
                            IF g \in again THEN BadInputs(sh2, row, g)
                            ELSE IF g = f THEN mk ELSE marks[row][g]]]
            /\ wrong' = [wrong EXCEPT ![row] = (@ \ fine) \cup errs]
            /\ hidden' = [hidden EXCEPT ![row] =
                            (@ \ again) \cup {g \in again : ~Met(sh2, table, row, g)}]
  BY Zenon DEF Edit
<1> DEFINE sh    == [shown EXCEPT ![row][f] = new]
           n     == IF Field(f).kind = "dynamic" THEN CHOOSE i \in DOMAIN new : new[i] # shown[row][f][i] ELSE 1
           bad   == Refuses(sh, row, f, new[n])
           mk    == IF bad THEN marks[row][f] \cup {n} ELSE marks[row][f] \ {n}
           again == IF HasEvents(Field(f)) /\ mk = {} THEN Reached(sh, row, f) ELSE {}
           sh2   == IF "password" \in again THEN Emptied(sh, table) ELSE sh
           errs  == {g \in again : BadInputs(sh2, row, g) # {}} \cup IF bad THEN {f} ELSE {}
           fine  == again \cup IF mk = {} THEN {f} ELSE {}
<1>3. /\ shown' = sh2
      /\ marks' = [marks EXCEPT ![row] = [g \in focus |->
                      IF g \in again THEN BadInputs(sh2, row, g)
                      ELSE IF g = f THEN mk ELSE marks[row][g]]]
      /\ wrong' = [wrong EXCEPT ![row] = (@ \ fine) \cup errs]
      /\ hidden' = [hidden EXCEPT ![row] =
                      (@ \ again) \cup {g \in again : ~Met(sh2, table, row, g)}]
  BY <1>2, Zenon
<1>4. /\ row \in Rows /\ Rows = DOMAIN table /\ Rows = DOMAIN shown
      /\ DOMAIN hidden = Rows /\ DOMAIN wrong = Rows /\ DOMAIN marks = Rows
      /\ \A r \in Rows : /\ hidden[r] \subseteq focus /\ wrong[r] \subseteq focus
                         /\ DOMAIN shown[r] = focus /\ DOMAIN marks[r] = focus
  BY <1>1 DEF Whole, Rows
<1>5. FocusOK' /\ focus' = focus /\ Def' = Def
  BY <1>1, SameFocus, SameFields
\* The texts.
<1>6. /\ DOMAIN sh = Rows /\ \A r \in Rows : DOMAIN sh[r] = focus
      /\ \A r \in Rows, g \in focus : r # row \/ g # f => sh[r][g] = shown[r][g]
  BY <1>4
<1> HIDE DEF sh
<1>7. /\ DOMAIN sh2 = Rows /\ \A r \in Rows : DOMAIN sh2[r] = focus
      /\ \A r \in Rows, g \in focus : Field(g).own # "password" => sh2[r][g] = sh[r][g]
  <2>1. sh2 = sh \/ sh2 = Emptied(sh, table)
    OBVIOUS
  <2> HIDE DEF sh2
  <2> QED
    BY <1>6, <2>1, EmptiedInputs
<1> HIDE DEF sh2
<1>8. again \subseteq focus
  BY <1>1, ReachedAll
<1>9. /\ Rows' = Rows /\ DOMAIN hidden' = Rows /\ DOMAIN wrong' = Rows /\ DOMAIN marks' = Rows
      /\ wrong'[row] = (wrong[row] \ fine) \cup errs
      /\ hidden'[row] = (hidden[row] \ again) \cup {g \in again : ~Met(sh2, table, row, g)}
      /\ \A g \in focus : marks'[row][g] = IF g \in again THEN BadInputs(sh2, row, g)
                                          ELSE IF g = f THEN mk ELSE marks[row][g]
      /\ DOMAIN marks'[row] = focus
      /\ \A r \in Rows : r # row => wrong'[r] = wrong[r] /\ hidden'[r] = hidden[r] /\ marks'[r] = marks[r]
  BY <1>3, <1>4, <1>7 DEF Rows
<1>10. errs \subseteq focus /\ (bad => f \in errs) /\ \A g \in again : BadInputs(sh2, row, g) # {} => g \in errs
  BY <1>8
<1>11. mk # {} => f \in wrong'[row]
  <2>1. ASSUME mk # {}, ~bad PROVE f \in wrong[row] /\ fine = {}
    BY <1>1, <1>4, <2>1 DEF Marked
  <2> QED
    BY <1>9, <1>10, <2>1
<1>12. /\ \A g \in fine : g \in again \/ g = f
       /\ mk = {} /\ HasEvents(Field(f)) => again = Reached(sh, row, f)
       /\ again # {} => again = Reached(sh, row, f)
  OBVIOUS
<1> HIDE DEF bad, mk, again, errs, fine, n
<1>13. Whole'
  <2>1. \A r \in Rows : /\ hidden'[r] \subseteq focus /\ wrong'[r] \subseteq focus
                        /\ DOMAIN shown'[r] = focus /\ DOMAIN marks'[r] = focus
    BY <1>3, <1>4, <1>7, <1>8, <1>9, <1>10
  <2> QED
    BY <1>1, <1>4, <1>5, <1>9, <2>1 DEF Whole
<1>14. Marked'
  <2>1. ASSUME NEW g \in focus, marks'[row][g] # {} PROVE g \in wrong'[row]
    <3>1. CASE g \in again
      BY <1>9, <1>10, <2>1, <3>1
    <3>2. CASE g \notin again /\ g = f
      BY <1>9, <1>11, <2>1, <3>2
    <3>3. CASE g \notin again /\ g # f
      BY <1>1, <1>4, <1>9, <1>12, <2>1, <3>3 DEF Marked
    <3> QED
      BY <3>1, <3>2, <3>3
  <2> QED
    BY <1>1, <1>4, <1>5, <1>9, <2>1 DEF Marked
\* What is shown and hidden.
<1>15. ASSUME NEW k \in focus, NEW s \in Sources(k)
       PROVE  /\ s \in focus /\ Field(s).own # "password" /\ Field(s).rule # "as pass1"
              /\ SourcesIn(Def, k) = Sources(k) /\ Def[s] = Field(s)
  <2>1. SourcesIn(Def, k) = Sources(k)
    BY <1>1, DefSources
  <2>2. s \in DOMAIN Def /\ DOMAIN Def = focus /\ Def[s].own # "password" /\ Def[s].rule # "as pass1"
    BY <1>1, <2>1, DefSound DEF Sound
  <2> QED
    BY <2>1, <2>2 DEF Def
<1>16. ASSUME NEW k \in focus, k \notin again, NEW s \in Sources(k),
              \A g \in Sources(k) : HasEvents(Field(g)) /\ g \notin wrong'[row]
       PROVE  f \notin Sources(k) /\ s \notin wrong[row]
  <2>1. f \notin Sources(k)
    <3> SUFFICES ASSUME f \in Sources(k) PROVE FALSE
      OBVIOUS
    <3>1. mk = {} /\ HasEvents(Field(f))
      BY <1>11, <1>16
    <3>2. k \in Reached(sh, row, f)
      BY <1>1, ReachedAll
    <3> QED
      BY <1>12, <1>16, <3>1, <3>2
  <2>2. s \notin wrong[row]
    <3> SUFFICES ASSUME s \in wrong[row] PROVE FALSE
      OBVIOUS
    <3>1. s \in again
      <4>1. s \in fine /\ s # f
        BY <1>9, <1>16, <2>1
      <4> QED
        BY <1>12, <4>1
    <3>2. BadInputs(sh2, row, s) = {}
      BY <1>9, <1>10, <1>16, <3>1
    <3>3. BadInputs(sh2, row, s) = BadInputs(sh, row, s)
      <4>1. \A r \in Rows : sh2[r][s] = sh[r][s]
        BY <1>7, <1>15
      <4>2. Field(s).rule # "as pass1"
        BY <1>15
      <4>3. Alike(sh2, sh, row, s)
        BY <1>4, <1>6, <1>7, <4>1, <4>2 DEF Alike
      <4>4. AsWrong(sh2, sh, row, s)
        BY <4>3, BadSame
      <4> QED
        BY <4>4 DEF AsWrong
    <3>4. s \notin WrongFields(sh, row)
      BY <3>2, <3>3 DEF WrongFields
    <3> QED
      BY <1>1, <1>12, <1>16, <3>1, <3>4, ReachedAll
  <2> QED
    BY <2>1, <2>2
<1>17. ASSUME NEW r \in Rows
       PROVE  HiddenFits(Def, shown'[r], table[r], hidden'[r], wrong'[r])
  <2> SUFFICES ASSUME NEW k \in focus, Sources(k) # {},
                      \A g \in Sources(k) : HasEvents(Field(g)) /\ g \notin wrong'[r]
               PROVE  k \in hidden'[r] <=> ~MetIn(Def, shown'[r], table[r], k)
    <3>1. DOMAIN Def = focus /\ \A k \in focus : SourcesIn(Def, k) = Sources(k)
      BY <1>1, DefSound, DefSources
    <3> QED
      BY <1>15, <3>1 DEF HiddenFits
  <2>1. CASE r = row /\ k \in again
    <3>1. k \in hidden'[r] <=> ~Met(sh2, table, row, k)
      BY <1>9, <2>1
    <3> QED
      BY <1>1, <1>3, <2>1, <3>1, MetIs
  <2>2. CASE r # row \/ k \notin again
    <3>1. \A g \in Sources(k) : g \notin wrong[r] /\ (r # row \/ g # f)
      <4>1. CASE r # row
        BY <1>9, <4>1
      <4>2. CASE r = row
        <5>1. ASSUME NEW g \in Sources(k) PROVE f \notin Sources(k) /\ g \notin wrong[row]
          BY <1>16, <2>2, <4>2
        <5> QED
          BY <4>2, <5>1
      <4> QED
        BY <4>1, <4>2
    <3>2. \A g \in Sources(k) : shown'[r][g] = shown[r][g]
      <4> SUFFICES ASSUME NEW g \in Sources(k) PROVE shown'[r][g] = shown[r][g]
        OBVIOUS
      <4>1. g \in focus /\ Field(g).own # "password"
        BY <1>15
      <4>2. sh2[r][g] = sh[r][g]
        BY <1>7, <4>1
      <4>3. sh[r][g] = shown[r][g]
        BY <1>6, <3>1, <4>1
      <4> QED
        BY <1>3, <4>2, <4>3
    <3>3. MetIn(Def, shown'[r], table[r], k) <=> MetIn(Def, shown[r], table[r], k)
      <4>1. \A g \in SourcesIn(Def, k) : HasEvents(Def[g]) /\ shown'[r][g] = shown[r][g]
        <5> SUFFICES ASSUME NEW g \in Sources(k)
                     PROVE  HasEvents(Def[g]) /\ shown'[r][g] = shown[r][g]
          BY <1>1, DefSources
        <5>1. Def[g] = Field(g)
          BY <1>15
        <5> QED
          BY <3>2, <5>1
      <4> QED
        BY <4>1, MetByTexts
    <3>4. HiddenFits(Def, shown[r], table[r], hidden[r], wrong[r])
      BY <1>1 DEF Fitting
    <3>5. k \in hidden[r] <=> ~MetIn(Def, shown[r], table[r], k)
      BY <1>1, <1>15, <3>1, <3>4, DefSound DEF HiddenFits
    <3>6. k \in hidden'[r] <=> k \in hidden[r]
      BY <1>9, <2>2
    <3> QED
      BY <3>3, <3>5, <3>6
  <2> QED
    BY <2>1, <2>2
<1>18. Fitting'
  BY <1>1, <1>5, <1>9, <1>17 DEF Fitting
<1> QED
  BY <1>5, <1>13, <1>14, <1>18 DEF FormInv

LEMMA EntryForm == ASSUME FormInv, NEW row \in DOMAIN table, NEW f \in focus, Entry(row, f) PROVE FormInv'
<1>1. /\ FocusOK /\ Whole /\ Marked /\ Fitting /\ phase = "shown" /\ phase' = "shown"
      /\ UNCHANGED <<section, router, table, order, hidden, wrong, loaded>>
  BY DEF FormInv, Entry, Acts
<1>2. /\ row \in Rows /\ Rows = DOMAIN table /\ Rows = DOMAIN shown
      /\ DOMAIN hidden = Rows /\ DOMAIN wrong = Rows /\ DOMAIN marks = Rows
      /\ \A r \in Rows : DOMAIN shown[r] = focus /\ DOMAIN marks[r] = focus
  BY <1>1 DEF Whole, Rows
<1>3. FocusOK' /\ focus' = focus /\ Def' = Def
  BY <1>1, SameFocus, SameFields
<1>4. PICK new : shown' = [shown EXCEPT ![row][f] = new]
  BY Zenon DEF Entry
<1>5. marks' = [marks EXCEPT ![row][f] = {}] /\ Field(f).kind = "dynamic"
  BY DEF Entry
<1>6. /\ Rows' = Rows /\ DOMAIN marks' = Rows
      /\ \A r \in Rows : DOMAIN shown'[r] = focus /\ DOMAIN marks'[r] = focus
      /\ \A r \in Rows, g \in focus : g # f => shown'[r][g] = shown[r][g]
      /\ \A r \in Rows, g \in focus : marks'[r][g] # {} => marks[r][g] # {}
  BY <1>2, <1>4, <1>5 DEF Rows
<1>7. Whole'
  BY <1>1, <1>2, <1>3, <1>6 DEF Whole
<1>8. Marked'
  BY <1>1, <1>3, <1>6 DEF Marked
<1>9. ASSUME NEW r \in Rows PROVE HiddenFits(Def, shown'[r], table[r], hidden[r], wrong[r])
  <2>1. HiddenFits(Def, shown[r], table[r], hidden[r], wrong[r])
    BY <1>1 DEF Fitting
  <2> SUFFICES ASSUME NEW k \in DOMAIN Def, SourcesIn(Def, k) # {},
                      \A g \in SourcesIn(Def, k) : HasEvents(Def[g]) /\ g \notin wrong[r]
               PROVE  k \in hidden[r] <=> ~MetIn(Def, shown'[r], table[r], k)
    BY DEF HiddenFits
  <2>2. \A g \in SourcesIn(Def, k) : g \in focus /\ Def[g].kind # "dynamic"
    BY <1>1, DefSound DEF Sound
  <2>3. \A g \in SourcesIn(Def, k) : HasEvents(Def[g]) /\ shown'[r][g] = shown[r][g]
    BY <1>5, <1>6, <2>2 DEF Def
  <2>4. MetIn(Def, shown'[r], table[r], k) <=> MetIn(Def, shown[r], table[r], k)
    BY <2>3, MetByTexts
  <2> QED
    BY <2>1, <2>4 DEF HiddenFits
<1>10. Fitting'
  BY <1>1, <1>3, <1>6, <1>9 DEF Fitting
<1> QED
  BY <1>3, <1>7, <1>8, <1>10 DEF FormInv

\* The answer with a password changes no input, and no field depends on what is behind one.
LEMMA CryptDoneForm == ASSUME FormInv, NEW row \in late, CryptDone(row) PROVE FormInv'
<1>1. /\ FocusOK /\ Whole /\ Marked /\ Fitting
      /\ UNCHANGED <<section, router, order, shown, hidden, wrong, marks, loaded, phase>>
  BY DEF FormInv, CryptDone, inputs
<1>2. table' = table \/ table' = Encrypted(table, {row})
  BY DEF CryptDone
<1>3. DOMAIN table' = DOMAIN table
  BY <1>2, EncryptedDomain
<1>4. FocusOK' /\ focus' = focus /\ Def' = Def /\ Rows' = Rows
  BY <1>1, SameFocus, SameFields DEF Rows
<1>5. Whole'
  BY <1>1, <1>3, <1>4 DEF Whole
<1>6. Marked'
  BY <1>1, <1>4 DEF Marked
<1>7. ASSUME NEW r \in Rows, phase = "shown"
      PROVE  HiddenFits(Def, shown[r], table'[r], hidden[r], wrong[r])
  <2>1. HiddenFits(Def, shown[r], table[r], hidden[r], wrong[r])
    BY <1>1, <1>7 DEF Fitting
  <2> SUFFICES ASSUME NEW k \in DOMAIN Def, SourcesIn(Def, k) # {},
                      \A g \in SourcesIn(Def, k) : HasEvents(Def[g]) /\ g \notin wrong[r]
               PROVE  k \in hidden[r] <=> ~MetIn(Def, shown[r], table'[r], k)
    BY DEF HiddenFits
  <2>2. MetIn(Def, shown[r], table'[r], k) <=> MetIn(Def, shown[r], table[r], k)
    BY MetByTexts
  <2> QED
    BY <2>1, <2>2 DEF HiddenFits
<1>8. Fitting'
  BY <1>1, <1>4, <1>7 DEF Fitting
<1> QED
  BY <1>4, <1>5, <1>6, <1>8 DEF FormInv

LEMMA StutterForm == ASSUME FormInv, UNCHANGED vars PROVE FormInv'
<1>1. UNCHANGED <<section, router, table, order, shown, hidden, wrong, marks, loaded, phase>>
  BY DEF vars, inputs
<1>2. Def' = Def /\ focus' = focus /\ Rows' = Rows
  BY <1>1, SameFields DEF Rows
<1> QED
  BY <1>1, <1>2 DEF FormInv, FocusOK, Whole, Marked, Fitting

\* FormInv is inductive.
THEOREM FormSafe == Spec => []FormInv
<1>1. Init => FormInv
  BY InitForm
<1>2. FormInv /\ [Next]_vars => FormInv'
  <2> SUFFICES ASSUME FormInv, [Next]_vars PROVE FormInv'
    OBVIOUS
  <2>1. CASE UNCHANGED vars
    BY <2>1, StutterForm
  <2>2. CASE Load
    BY <2>2, LoadForm
  <2>3. CASE Draw
    BY <2>3, DrawForm
  <2>4. ASSUME NEW row \in DOMAIN table, NEW f \in focus, Edit(row, f) \/ Entry(row, f) PROVE FormInv'
    BY <2>4, EditForm, EntryForm
  <2>5. CASE AddRow
    BY <2>5, AddRowForm
  <2>6. ASSUME NEW row \in DOMAIN table, RemoveRow(row) PROVE FormInv'
    BY <2>6, RemoveRowForm
  <2>7. ASSUME NEW i \in DOMAIN order, SortRow(i) PROVE FormInv'
    BY <2>7, SortRowForm
  <2>8. ASSUME NEW row \in late, CryptDone(row) PROVE FormInv'
    BY <2>8, CryptDoneForm
  <2>9. CASE Send
    BY <2>9, SendForm
  <2>10. CASE Save
    BY <2>10, SaveForm
  <2>11. CASE Reset
    BY <2>11, ResetForm
  <2> QED
    BY <2>1, <2>2, <2>3, <2>4, <2>5, <2>6, <2>7, <2>8, <2>9, <2>10, <2>11 DEF Next
<1> QED
  BY <1>1, <1>2, PTL DEF Spec

-----------------------------------------------------------------------------
(* What is said of a field, and what it writes *)

LEMMA FieldParts ==
    ASSUME FocusOK, NEW f \in focus
    PROVE  \A part \in DOMAIN Value \ {"choices"} : Field(f)[part] = section.fields[f][part]
<1> DEFINE made == section.fields[f]
           bare == [made EXCEPT !.choices = <<>>]
<1>1. DOMAIN made = DOMAIN Value
  BY DEF FocusOK
<1> HIDE DEF made
<1>2. \A part \in DOMAIN Value \ {"choices"} : bare[part] = made[part]
  BY <1>1
<1>3. Field(f) = bare \/ Field(f) = made
  BY DEF Field, made
<1> HIDE DEF bare
<1> QED
  BY <1>2, <1>3 DEF made

\* A field as the pages say it, whatever its choices are now.
Says(def, made) ==
    /\ def.kind = made.kind /\ def.datatype = made.datatype /\ def.optional = made.optional
    /\ def.keep = made.keep /\ def.initial = made.initial /\ def.lazy = made.lazy
    /\ def.enabled = made.enabled /\ def.disabled = made.disabled /\ def.option = made.option
    /\ def.own = made.own /\ def.rule = made.rule /\ def.needs = made.needs

LEMMA FieldIs ==
    ASSUME FocusOK, NEW f \in focus
    PROVE  Says(Field(f), section.fields[f])
<1>1. {"kind", "datatype", "optional", "keep", "initial", "lazy", "enabled", "disabled", "option", "own", "rule", "needs"}
        \subseteq DOMAIN Value \ {"choices"}
  BY DEF Value
<1> QED
  BY <1>1, FieldParts DEF Says

LEMMA WritesIs ==
    ASSUME FocusOK, NEW f \in focus
    PROVE  Writes(Field(f)) = Writes(section.fields[f])
BY FieldIs, Zenon DEF Says, Writes

LEMMA PutsDomain ==
    ASSUME NEW row, NEW f
    PROVE  DOMAIN Puts(row, f) = Writes(Field(f))
BY DEF Puts

\* Where a row was saved, an option is as it was, or as a field wrote it.
Kept(row, o) ==
    /\ SavedRow(row)[o] = table[row][o]
    /\ \A f \in focus : o \in Writes(Field(f)) => Puts(row, f)[o] = table[row][o]
WrittenBy(row, o, f) ==
    /\ f \in focus /\ o \in Writes(Field(f)) /\ Puts(row, f)[o] # table[row][o]
    /\ SavedRow(row)[o] = Puts(row, f)[o]

LEMMA SavedRowIs ==
    ASSUME NEW row
    PROVE  /\ DOMAIN SavedRow(row) = DOMAIN table[row]
           /\ \A o \in DOMAIN table[row] : Kept(row, o) \/ \E f \in focus : WrittenBy(row, o, f)
<1> DEFINE puts == [f \in focus |-> Puts(row, f)]
           writers(o) == {f \in focus : o \in DOMAIN puts[f] /\ puts[f][o] # table[row][o]}
           saved == [o \in DOMAIN table[row] |->
                        IF writers(o) = {} THEN table[row][o] ELSE puts[CHOOSE f \in writers(o) : TRUE][o]]
<1>1. SavedRow(row) = saved
  <2>1. Made(puts) = puts /\ Made(saved) = saved
    BY MadeSame
  <2> QED
    BY <2>1 DEF SavedRow, Written
<1>2. \A f \in focus : puts[f] = Puts(row, f) /\ DOMAIN puts[f] = Writes(Field(f))
  BY PutsDomain
<1>3. ASSUME NEW o \in DOMAIN table[row], writers(o) = {} PROVE Kept(row, o)
  <2>1. SavedRow(row)[o] = table[row][o]
    BY <1>1, <1>3
  <2>2. \A f \in focus : o \in Writes(Field(f)) => Puts(row, f)[o] = table[row][o]
    BY <1>2, <1>3
  <2> QED
    BY <2>1, <2>2 DEF Kept
<1>4. ASSUME NEW o \in DOMAIN table[row], writers(o) # {} PROVE \E f \in focus : WrittenBy(row, o, f)
  <2> DEFINE f == CHOOSE f \in writers(o) : TRUE
  <2>1. f \in writers(o)
    BY <1>4
  <2>2. saved[o] = puts[f][o]
    BY <1>4
  <2>3. f \in focus /\ o \in DOMAIN puts[f] /\ puts[f][o] # table[row][o]
    BY <2>1
  <2> HIDE DEF f, saved
  <2>4. WrittenBy(row, o, f)
    BY <1>1, <1>2, <2>2, <2>3 DEF WrittenBy
  <2> QED
    BY <2>3, <2>4
<1> QED
  BY <1>1, <1>3, <1>4

-----------------------------------------------------------------------------
(* Induction over the numbers, from their order *)

LEMMA Least ==
    ASSUME NEW S \in SUBSET Nat, S # {}
    PROVE  \E m \in S : \A n \in S : m <= n
<1> DEFINE R == OpToRel(<, Nat)
<1>1. IsWellFoundedOn(R, Nat)
  BY NatLessThanWellFounded
<1>2. \A m, n \in Nat : m < n => <<m, n>> \in R
  BY DEF OpToRel
<1> HIDE DEF R
<1>3. PICK m \in S : \A n \in S : ~(<<n, m>> \in R)
  <2>1. \E m \in S : \A n \in S : ~(<<n, m>> \in R)
    BY <1>1, WFMin
  <2> QED
    BY <2>1
<1>4. ASSUME NEW n \in S PROVE m <= n
  <2>1. m \in Nat /\ n \in Nat
    OBVIOUS
  <2>2. ~(n < m)
    BY <1>2, <1>3, <2>1, Zenon
  <2> QED
    BY <2>1, <2>2
<1> QED
  BY <1>4

\* What is so for 0, and for n + 1 when it is for n, is so up to N.
LEMMA UpTo ==
    ASSUME NEW N \in Nat, NEW S, 0 \in S, \A n \in 1 .. N : n - 1 \in S => n \in S
    PROVE  \A n \in 0 .. N : n \in S
<1> SUFFICES ASSUME NEW out, out = {n \in 0 .. N : n \notin S}, out # {} PROVE FALSE
  OBVIOUS
<1>1. out \in SUBSET Nat
  OBVIOUS
<1>2. PICK m \in out : \A n \in out : m <= n
  BY <1>1, Least
<1>3. m \in 0 .. N /\ m # 0
  OBVIOUS
<1>4. m \in 1 .. N /\ m - 1 \in 0 .. N /\ ~(m <= m - 1)
  BY <1>3
<1>5. m - 1 \in S
  BY <1>2, <1>4
<1> QED
  BY <1>2, <1>4, <1>5

-----------------------------------------------------------------------------
(* The texts of a sequence that are in a set *)

\* What Chosen computes, step by step.
Choice(ts, set, first, n) ==
    first = [i \in 0 .. n |-> IF i = 0 THEN <<>>
                              ELSE IF ts[i] \in set THEN Append(first[i - 1], ts[i]) ELSE first[i - 1]]

LEMMA ChoiceExists ==
    ASSUME NEW ts, NEW set, Len(ts) \in Nat
    PROVE  \E first : Choice(ts, set, first, Len(ts))
<1> DEFINE S == {n \in Nat : \E first : Choice(ts, set, first, n)}
<1>1. 0 \in S
  <2> DEFINE first == [i \in 0 .. 0 |-> <<>>]
  <2>1. Choice(ts, set, first, 0)
    BY DEF Choice
  <2> QED
    BY <2>1
<1>2. ASSUME NEW n \in 1 .. Len(ts), n - 1 \in S PROVE n \in S
  <2>1. PICK first : Choice(ts, set, first, n - 1)
    BY <1>2
  <2>2. ASSUME NEW i \in 0 .. n - 1
        PROVE  first[i] = IF i = 0 THEN <<>>
                          ELSE IF ts[i] \in set THEN Append(first[i - 1], ts[i]) ELSE first[i - 1]
    BY <2>1 DEF Choice
  <2> DEFINE next == IF ts[n] \in set THEN Append(first[n - 1], ts[n]) ELSE first[n - 1]
             more == [i \in 0 .. n |-> IF i = n THEN next ELSE first[i]]
  <2> HIDE DEF next
  <2>3. ASSUME NEW i \in 0 .. n
        PROVE  more[i] = IF i = 0 THEN <<>>
                         ELSE IF ts[i] \in set THEN Append(more[i - 1], ts[i]) ELSE more[i - 1]
    <3>1. CASE i = 0
      BY <2>2, <3>1
    <3>2. CASE i = n
      <4>1. more[i] = next /\ more[i - 1] = first[n - 1] /\ i # 0
        BY <3>2
      <4> QED
        BY <3>2, <4>1 DEF next
    <3>3. CASE i # 0 /\ i # n
      <4>1. i \in 0 .. n - 1 /\ i - 1 \in 0 .. n /\ i - 1 # n
        BY <3>3
      <4>2. more[i] = first[i] /\ more[i - 1] = first[i - 1]
        BY <3>3, <4>1
      <4> QED
        BY <2>2, <3>3, <4>1, <4>2
    <3> QED
      BY <3>1, <3>2, <3>3
  <2>4. more = [i \in 0 .. n |-> more[i]]
    OBVIOUS
  <2> HIDE DEF more
  <2>5. Choice(ts, set, more, n)
    BY <2>3, <2>4 DEF Choice
  <2> QED
    BY <2>5
<1> HIDE DEF S
<1>3. \A n \in 0 .. Len(ts) : n \in S
  BY <1>1, <1>2, UpTo
<1>4. Len(ts) \in S
  BY <1>3
<1> QED
  BY <1>4 DEF S

IsSeq(ts) == ts \in Seq(InSeq(ts))

LEMMA SeqIs ==
    ASSUME NEW ts
    PROVE  /\ IsSeq(ts) => Len(ts) \in Nat /\ DOMAIN ts = 1 .. Len(ts)
           /\ (\E S : ts \in Seq(S)) => IsSeq(ts)
<1>1. ASSUME IsSeq(ts) PROVE Len(ts) \in Nat /\ DOMAIN ts = 1 .. Len(ts)
  BY <1>1 DEF IsSeq
<1>2. ASSUME NEW S, ts \in Seq(S) PROVE ts \in Seq(InSeq(ts))
  <2>1. Len(ts) \in Nat /\ DOMAIN ts = 1 .. Len(ts) /\ ts = [i \in 1 .. Len(ts) |-> ts[i]]
    BY <1>2
  <2>2. \A i \in 1 .. Len(ts) : ts[i] \in InSeq(ts)
    BY <2>1 DEF InSeq
  <2> QED
    BY <1>2, <2>1, <2>2
<1> QED
  BY <1>1, <1>2 DEF IsSeq

LEMMA ChosenIs ==
    ASSUME NEW ts, IsSeq(ts), NEW set
    PROVE  IsSeq(Chosen(ts, set)) /\ InSeq(Chosen(ts, set)) = InSeq(ts) \cap set
<1> DEFINE N     == Len(ts)
           first == CHOOSE first : Choice(ts, set, first, N)
<1>1. Chosen(ts, set) = first[N]
  BY DEF Chosen, Choice
<1>2. N \in Nat /\ DOMAIN ts = 1 .. N
  BY SeqIs
<1>3. Choice(ts, set, first, N)
  BY <1>2, ChoiceExists
<1> HIDE DEF first
<1>4. ASSUME NEW i \in 0 .. N
      PROVE  first[i] = IF i = 0 THEN <<>>
                        ELSE IF ts[i] \in set THEN Append(first[i - 1], ts[i]) ELSE first[i - 1]
  BY <1>3 DEF Choice
<1> DEFINE Part(n) == {ts[i] : i \in {j \in 1 .. n : ts[j] \in set}}
           S == {n \in 0 .. N : first[n] \in Seq(InSeq(ts)) /\ InSeq(first[n]) = Part(n)}
<1>5. 0 \in S
  <2>1. first[0] = <<>> /\ 0 \in 0 .. N
    BY <1>2, <1>4
  <2>2. InSeq(<<>>) = {}
    BY DEF InSeq
  <2>3. Part(0) = {}
    OBVIOUS
  <2> HIDE DEF Part
  <2>4. <<>> \in Seq(InSeq(ts))
    OBVIOUS
  <2>5. first[0] \in Seq(InSeq(ts)) /\ InSeq(first[0]) = Part(0)
    BY <2>1, <2>2, <2>3, <2>4, Zenon
  <2> QED
    BY <2>1, <2>5
<1>6. ASSUME NEW n \in 1 .. N, n - 1 \in S PROVE n \in S
  <2>1. n \in 0 .. N /\ first[n] = IF ts[n] \in set THEN Append(first[n - 1], ts[n]) ELSE first[n - 1]
    BY <1>2, <1>4
  <2>2. first[n - 1] \in Seq(InSeq(ts)) /\ InSeq(first[n - 1]) = Part(n - 1)
    BY <1>6
  <2>3. ts[n] \in InSeq(ts)
    BY <1>2 DEF InSeq
  <2>4. \A j : j \in 1 .. n <=> j \in 1 .. n - 1 \/ j = n
    BY <1>2
  <2>5. CASE ts[n] \notin set
    <3>1. Part(n) = Part(n - 1)
      BY <2>4, <2>5
    <3> QED
      BY <2>1, <2>2, <2>5, <3>1
  <2>6. CASE ts[n] \in set
    <3>1. Part(n) = Part(n - 1) \cup {ts[n]}
      BY <2>4, <2>6
    <3> DEFINE last == first[n - 1]
    <3> HIDE DEF last, Part
    <3>2. last \in Seq(InSeq(ts)) /\ InSeq(last) = Part(n - 1)
      BY <2>2 DEF last
    <3>3. Append(last, ts[n]) \in Seq(InSeq(ts))
      BY <2>3, <3>2
    <3>4. InSeq(Append(last, ts[n])) = InSeq(last) \cup {ts[n]}
      <4> DEFINE m == Len(last)
                 more == Append(last, ts[n])
      <4>1. /\ m \in Nat /\ DOMAIN last = 1 .. m /\ DOMAIN more = 1 .. m + 1
            /\ more[m + 1] = ts[n] /\ \A i \in 1 .. m : more[i] = last[i]
        BY <2>3, <3>2
      <4>2. \A i : i \in 1 .. m + 1 <=> i \in 1 .. m \/ i = m + 1
        BY <4>1
      <4> HIDE DEF m, more
      <4> QED
        BY <4>1, <4>2 DEF InSeq, more
    <3>5. first[n] = Append(last, ts[n])
      BY <2>1, <2>6 DEF last
    <3> QED
      BY <2>1, <3>1, <3>2, <3>3, <3>4, <3>5
  <2> QED
    BY <2>5, <2>6
<1>7. Part(N) = InSeq(ts) \cap set
  BY <1>2 DEF InSeq
<1> HIDE DEF S, N, Part
<1>8. N \in S
  BY <1>2, <1>5, <1>6, UpTo
<1>9. first[N] \in Seq(InSeq(ts)) /\ InSeq(first[N]) = Part(N)
  BY <1>8 DEF S
<1> QED
  BY <1>1, <1>7, <1>9, SeqIs

-----------------------------------------------------------------------------
(* What a validated field writes *)

Single == {"input", "password", "list", "combo"}

\* One text, one of those offered, or a list of texts.
Entered(def, texts) ==
    /\ def.kind \in Single => \E t : texts = <<t>>
    /\ def.kind = "list" => \E t \in Offered(def) : texts = <<t>>
    /\ def.kind = "dynamic" /\ def.own \in Plain => IsSeq(texts)
Right(def, texts) ==
    \A n \in DOMAIN texts :
        IF texts[n] = "" THEN def.optional \/ def.initial # Undefined ELSE texts[n] \in def.datatype

LEMMA PlainUci ==
    ASSUME NEW def, NEW opts, def.own \in Plain
    PROVE  /\ def.kind \in Single => Uci(def, opts) = Base(def, opts)
           /\ def.kind = "dynamic" => Uci(def, opts) = List(Split(Base(def, opts)))
BY Zenon DEF Uci, Plain, UciOwners, Single

LEMMA FormValIs ==
    ASSUME NEW def, NEW opts, NEW texts
    PROVE  /\ \A t : def.kind \in Single /\ texts = <<t>> => FormVal(def, opts, texts) = Text(t)
           /\ def.kind = "dynamic" => FormVal(def, opts, texts) = List(Filled(texts))
<1>1. ASSUME NEW t, def.kind \in Single, texts = <<t>> PROVE FormVal(def, opts, texts) = Text(t)
  <2>1. texts # <<>> /\ texts[1] = t
    BY <1>1
  <2>2. def.kind \notin {"checkbox", "multi", "dynamic", "network", "dummy", "button"}
    BY <1>1 DEF Single
  <2> QED
    BY <2>1, <2>2 DEF FormVal
<1>2. ASSUME def.kind = "dynamic" PROVE FormVal(def, opts, texts) = List(Filled(texts))
  <2>1. def.kind \notin {"checkbox", "multi", "network", "dummy", "button"}
    BY <1>2
  <2> QED
    BY <1>2, <2>1 DEF FormVal
<1> QED
  BY <1>1, <1>2

\* A text is stored as it was entered, or the option that reads as it is kept.
LEMMA SingleFits ==
    ASSUME NEW def, NEW opts, NEW t, def.kind \in Single, def.own \in Plain, Right(def, <<t>>)
    PROVE  Fits(def, Saved(def, opts, <<t>>, FALSE))
<1> DEFINE val  == FormVal(def, opts, <<t>>)
           base == Base(def, opts)
           held == opts[def.option]
<1>1. val = Text(t) /\ Uci(def, opts) = base
  BY FormValIs, PlainUci
<1>2. def.kind # "checkbox" /\ def.kind # "dynamic"
  BY DEF Single
<1>3. IF t = "" THEN def.optional \/ def.initial # Undefined ELSE t \in def.datatype
  <2>1. 1 \in DOMAIN <<t>> /\ <<t>>[1] = t
    OBVIOUS
  <2> QED
    BY <2>1 DEF Right
<1>4. base = IF held = Undefined THEN def.initial ELSE held
  BY DEF Base
<1>5. Saved(def, opts, <<t>>, FALSE) = IF ~Changed(base, val) THEN held ELSE Stored(val)
  BY <1>1, <1>2 DEF Saved
<1> HIDE DEF val, base, held
<1>6. CASE t = ""
  <2>1. val = Undefined /\ (def.optional \/ def.initial # Undefined)
    BY <1>1, <1>3, <1>6 DEF Text
  <2>2. ASSUME Changed(base, val) PROVE Fits(def, Stored(val))
    BY <2>1 DEF Stored, Undefined, Fits
  <2>3. ASSUME ~Changed(base, val) PROVE Fits(def, held)
    <3>1. base.v = <<>>
      BY <2>1, <2>3 DEF Changed, Undefined
    <3>2. held # Undefined => InSeq(held.v) = {}
      BY <1>4, <3>1 DEF InSeq
    <3> QED
      BY <1>2, <2>1, <3>2 DEF Fits
  <2> QED
    BY <1>5, <2>2, <2>3
<1>7. CASE t # ""
  <2>1. val = Str(t) /\ t \in def.datatype
    BY <1>1, <1>3, <1>7 DEF Text
  <2>2. /\ val.v = <<t>> /\ val.is = "string" /\ InSeq(<<t>>) = {t} /\ val # Undefined
        /\ <<t>> # <<>> /\ <<t>> # <<"">>
    <3>1. val.v = <<t>> /\ val.is = "string"
      BY <2>1 DEF Str
    <3>2. DOMAIN <<t>> = {1} /\ <<t>>[1] = t
      OBVIOUS
    <3>3. InSeq(<<t>>) = {t}
      BY <3>2 DEF InSeq
    <3>4. Undefined.is = "undefined"
      BY DEF Undefined
    <3>5. <<t>> # <<>> /\ <<t>> # <<"">>
      BY <1>7
    <3> QED
      BY <3>1, <3>3, <3>4, <3>5
  <2>3. ASSUME Changed(base, val) PROVE Fits(def, Stored(val))
    BY <1>2, <2>1, <2>2 DEF Stored, Fits
  <2>4. ASSUME ~Changed(base, val) PROVE Fits(def, held)
    <3>1. base.v = <<t>> /\ base.is = "string"
      BY <2>2, <2>4 DEF Changed, TypeOf
    <3>2. held = Undefined => def.initial # Undefined
      BY <1>4, <3>1 DEF Undefined
    <3>3. held # Undefined => InSeq(held.v) = {t}
      BY <1>4, <2>2, <3>1
    <3> QED
      BY <1>2, <2>1, <3>2, <3>3 DEF Fits
  <2> QED
    BY <1>5, <2>3, <2>4
<1> QED
  BY <1>6, <1>7

LEMMA DynamicFits ==
    ASSUME NEW def, NEW opts, NEW texts, IsSeq(texts), def.kind = "dynamic", def.own \in Plain, Right(def, texts)
    PROVE  Fits(def, Saved(def, opts, texts, FALSE))
<1> DEFINE val  == FormVal(def, opts, texts)
           base == Base(def, opts)
           held == opts[def.option]
           some == Filled(texts)
<1>1. val = List(some) /\ Uci(def, opts) = List(Split(base))
  BY FormValIs, PlainUci
<1>2. base = IF held = Undefined THEN def.initial ELSE held
  BY DEF Base
<1>3. Saved(def, opts, texts, FALSE) = IF ~Changed(List(Split(base)), val) THEN held ELSE Stored(val)
  BY <1>1 DEF Saved
<1>4. InSeq(some) \subseteq def.datatype
  <2>1. InSeq(some) = InSeq(texts) \cap (InSeq(texts) \ {""})
    BY ChosenIs DEF Filled
  <2> QED
    BY <2>1 DEF Right, InSeq
<1> HIDE DEF val, base, held, some
<1>5. ASSUME Changed(List(Split(base)), val) PROVE Fits(def, Stored(val))
  <2>1. val.v = some /\ val.is = "list" /\ Split(val) = some
    BY <1>1 DEF List, Split
  <2> QED
    BY <1>4, <2>1 DEF Stored, Fits
<1>6. ASSUME ~Changed(List(Split(base)), val) PROVE Fits(def, held)
  <2>1. Split(base) = some
    BY <1>1, <1>6 DEF Changed, List
  <2> QED
    BY <1>2, <1>4, <2>1 DEF Fits
<1> QED
  BY <1>3, <1>5, <1>6

LEMMA ValidFits ==
    ASSUME NEW def, NEW opts, NEW texts, def.kind \in Validating, def.own \in Plain,
           Entered(def, texts), Right(def, texts)
    PROVE  Fits(def, Saved(def, opts, texts, FALSE))
<1>1. CASE def.kind = "dynamic"
  BY <1>1, DynamicFits DEF Entered
<1>2. CASE def.kind \in Single
  <2>1. PICK t : texts = <<t>>
    BY <1>2 DEF Entered
  <2> QED
    BY <1>2, <2>1, SingleFits
<1> QED
  BY <1>1, <1>2 DEF Validating, Single

-----------------------------------------------------------------------------
(* What the assumptions say of the section that is open *)

\* The options of every row, lists among them in their parts.
ColumnsOK(tb) ==
    \A row \in DOMAIN tb :
        /\ DOMAIN tb[row] = Options
        /\ \A f \in focus : section.fields[f].kind = "dynamic" /\ section.fields[f].own \in Plain =>
              Splits(tb[row][section.fields[f].option])

SectionOK ==
    /\ OptionsSound(section.fields) /\ ChoicesSound(section) /\ ClashSound(section)
    /\ CombosSound(section.fields) /\ IsFiniteSet(focus)
    /\ \A o \in DOMAIN section.preset : Splits(section.preset[o])
    /\ \A f \in focus : section.fields[f].kind = "dynamic" => Splits(section.fields[f].initial)

\* A section with some of the fields that the page gave it.
Part(made, names) ==
    /\ section = [made EXCEPT !.fields = [f \in names |-> made.fields[f]]]
    /\ names \subseteq DOMAIN made.fields /\ names \in Foci(made.fields)

LEMMA InitPart ==
    ASSUME Init
    PROVE  \E made \in Forms : \E names : Part(made, names)
<1>1. PICK made \in Forms : \E names \in Foci(made.fields) :
         section = [made EXCEPT !.fields = Made([f \in names |-> made.fields[f]])]
  BY Zenon DEF Init
<1>2. PICK names \in Foci(made.fields) :
         section = [made EXCEPT !.fields = Made([f \in names |-> made.fields[f]])]
  BY <1>1
<1> DEFINE fields == made.fields
           all == {Focus(fields, f) : f \in DOMAIN fields}
           largest == {set \in all : \A other \in all : set \subseteq other => set = other}
           Said(set) == {[fields[f] EXCEPT !.option = IF @ = f THEN "" ELSE @] : f \in set}
<1>3. names \in largest
  <2>1. PICK said \in {Said(set) : set \in largest} : names = CHOOSE set \in largest : Said(set) = said
    BY <1>2 DEF Foci
  <2>2. \E set \in largest : Said(set) = said
    BY <2>1
  <2> HIDE DEF largest, Said
  <2> QED
    BY <2>1, <2>2
<1>4. PICK f0 \in DOMAIN fields : names = Focus(fields, f0)
  BY <1>3
<1>5. names \subseteq DOMAIN fields
  BY <1>4, FormsAssumption
<1>6. Made([f \in names |-> made.fields[f]]) = [f \in names |-> made.fields[f]]
  BY MadeSame
<1>7. Part(made, names)
  BY <1>2, <1>5, <1>6 DEF Part
<1> QED
  BY <1>7

LEMMA PartIs ==
    ASSUME NEW made \in Forms, NEW names, Part(made, names)
    PROVE  /\ focus = names /\ DOMAIN section.fields = names
           /\ \A f \in names : section.fields[f] = made.fields[f]
           /\ section.addremove = made.addremove /\ section.preset = made.preset
           /\ section.given = made.given
<1>1. DOMAIN made = {"fields", "addremove", "sortable", "preset", "given", "rows"}
  BY FormsAssumption
<1> QED
  BY <1>1 DEF Part, focus

LEMMA InitSection == ASSUME Init PROVE SectionOK
<1>1. PICK made \in Forms : \E names : Part(made, names)
  BY InitPart
<1>2. PICK names : Part(made, names)
  BY <1>1
<1>3. /\ focus = names /\ DOMAIN section.fields = names
      /\ \A f \in names : section.fields[f] = made.fields[f]
      /\ section.addremove = made.addremove /\ section.preset = made.preset
      /\ section.given = made.given
  BY <1>2, PartIs
<1>4. names \subseteq DOMAIN made.fields
  BY <1>2 DEF Part
<1>5. OptionsSound(section.fields)
  <2>1. OptionsSound(made.fields)
    BY OptionsAssumption
  <2> SUFFICES ASSUME NEW f \in names, section.fields[f].own \in Plain
               PROVE  LET def == section.fields[f] IN
                      /\ def.own = "zone" => def.option # "timezone"
                      /\ def.kind = "dynamic" => def.option # "vlan"
                      /\ def.option = "password" => ~({"__shadow", "password"} \subseteq names)
                      /\ \A g \in names \ {f} : def.option \in Writes(section.fields[g]) =>
                            /\ def.own = "" /\ def.keep /\ section.fields[g].option = def.option
                            /\ \A part \in {"own", "kind", "datatype", "optional", "initial", "keep"} :
                                  section.fields[g][part] = def[part]
    BY <1>3, Zenon DEF OptionsSound
  <2> DEFINE def == made.fields[f]
  <2>2. f \in DOMAIN made.fields /\ section.fields[f] = def /\ def.own \in Plain
    BY <1>3, <1>4
  <2>3. /\ def.own = "zone" => def.option # "timezone"
        /\ def.kind = "dynamic" => def.option # "vlan"
        /\ def.option = "password" => ~({"__shadow", "password"} \subseteq DOMAIN made.fields)
        /\ \A g \in DOMAIN made.fields \ {f} : def.option \in Writes(made.fields[g]) =>
              /\ def.own = "" /\ def.keep /\ made.fields[g].option = def.option
              /\ \A part \in {"own", "kind", "datatype", "optional", "initial", "keep"} :
                    made.fields[g][part] = def[part]
    BY <2>1, <2>2, Zenon DEF OptionsSound
  <2>4. \A g \in names \ {f} : g \in DOMAIN made.fields \ {f} /\ section.fields[g] = made.fields[g]
    BY <1>3, <1>4
  <2> HIDE DEF def
  <2>5. def.option = "password" => ~({"__shadow", "password"} \subseteq names)
    BY <1>4, <2>3
  <2>6. ASSUME NEW g \in names \ {f}, def.option \in Writes(section.fields[g])
        PROVE  /\ def.own = "" /\ def.keep /\ section.fields[g].option = def.option
               /\ \A part \in {"own", "kind", "datatype", "optional", "initial", "keep"} :
                     section.fields[g][part] = def[part]
    <3>1. g \in DOMAIN made.fields \ {f} /\ section.fields[g] = made.fields[g]
      BY <2>4
    <3>2. def.option \in Writes(made.fields[g])
      BY <2>6, <3>1
    <3>3. /\ def.own = "" /\ def.keep /\ made.fields[g].option = def.option
          /\ \A part \in {"own", "kind", "datatype", "optional", "initial", "keep"} :
                made.fields[g][part] = def[part]
      BY <2>3, <3>1, <3>2, Zenon
    <3> QED
      BY <3>1, <3>3
  <2>7. /\ def.own = "zone" => def.option # "timezone"
        /\ def.kind = "dynamic" => def.option # "vlan"
    BY <2>3
  <2> QED
    BY <2>2, <2>5, <2>6, <2>7
<1>6. ChoicesSound(section)
  <2>1. ChoicesSound(made)
    BY ChoicesAssumption
  <2>2. \A o : Preset(section, o) = Preset(made, o)
    BY <1>3 DEF Preset
  <2>3. \A f \in names : f \in DOMAIN made.fields
    BY <1>4
  <2> QED
    BY <1>3, <2>1, <2>2, <2>3 DEF ChoicesSound
<1>7. ClashSound(section)
  BY <1>2, ClashAssumption, Zenon DEF Part
<1>8. IsFiniteSet(focus)
  BY <1>3, <1>4, FormsAssumption, FS_Subset
<1>9. \A o \in DOMAIN section.preset : Splits(section.preset[o])
  BY <1>3, HeldAssumption
<1>10. \A f \in focus : section.fields[f].kind = "dynamic" => Splits(section.fields[f].initial)
  BY <1>3, <1>4, HeldAssumption
<1>11. CombosSound(section.fields)
  <2>1. CombosSound(made.fields)
    BY CombosAssumption
  <2> QED
    BY <1>3, <1>4, <2>1 DEF CombosSound
<1> QED
  BY <1>5, <1>6, <1>7, <1>8, <1>9, <1>10, <1>11 DEF SectionOK

-----------------------------------------------------------------------------
(* Combo boxes, whose select holds another text than their input *)

\* The inputs of a field whose text is refused when it is entered.
Refused(sh, row, f) == {n \in DOMAIN sh[row][f] : Refuses(sh, row, f, sh[row][f][n])}

LEMMA CheckedIs ==
    ASSUME NEW def, NEW t, def.kind # "combo" \/ def.choices # <<>>
    PROVE  Checked(def, t) = t
BY DEF Checked

\* The fields whose text is checked as it is are all but the combo boxes without
\* choices, and those have to be filled.
LEMMA ComboIs ==
    ASSUME FocusOK, SectionOK, NEW f \in focus, Field(f).kind = "combo"
    PROVE  /\ Field(f).own # "password"
           /\ Field(f).choices = <<>> => ~Field(f).optional /\ (Field(f).initial # Undefined \/ Blank \notin Field(f).datatype)
<1> DEFINE made == section.fields[f]
<1>1. Says(Field(f), made)
  BY FieldIs
<1>2. /\ made.own # "password"
      /\ \/ made.choices # <<>> /\ ~made.lazy
         \/ ~made.optional /\ (made.initial # Undefined \/ Blank \notin made.datatype)
  BY <1>1 DEF SectionOK, CombosSound, Says, focus
<1>3. ~made.lazy => Field(f) = made
  BY DEF Field
<1> HIDE DEF made
<1> QED
  BY <1>1, <1>2, <1>3 DEF Says

LEMMA BlankThere == Blank # ""
BY DEF Blank

LEMMA CheckedBlank ==
    ASSUME NEW def, NEW t, def.kind = "combo", def.choices = <<>>, ~def.optional
    PROVE  Checked(def, t) = IF t = "" THEN Blank ELSE t
BY DEF Checked

\* What is found wrong was refused when it was entered.
LEMMA BadRefused ==
    ASSUME FocusOK, SectionOK, NEW f \in focus, NEW sh, NEW row
    PROVE  BadInputs(sh, row, f) \subseteq Refused(sh, row, f)
<1> SUFFICES ASSUME NEW n \in DOMAIN sh[row][f], Bad(sh, row, f, n)
             PROVE  Refuses(sh, row, f, sh[row][f][n])
  BY DEF BadInputs, Refused
<1> DEFINE t == sh[row][f][n]
<1>1. Refuses(sh, row, f, Checked(Field(f), t))
  BY DEF Bad
<1> HIDE DEF t
<1>2. CASE Field(f).kind # "combo" \/ Field(f).choices # <<>>
  BY <1>1, <1>2, CheckedIs DEF t
<1>3. CASE Field(f).kind = "combo" /\ Field(f).choices = <<>>
  <2>1. ~Field(f).optional
    BY <1>3, ComboIs
  <2>2. CASE t # ""
    BY <1>1, <1>3, <2>1, <2>2, CheckedBlank DEF t
  <2>3. CASE t = ""
    BY <1>3, <2>1, <2>3 DEF Refuses, Validating, t
  <2> QED
    BY <2>2, <2>3
<1> QED
  BY <1>2, <1>3

\* A text that is not found wrong is of the datatype; only where there is an initial
\* value it may be missing.
LEMMA GoodText ==
    ASSUME FocusOK, SectionOK, NEW f \in focus, Field(f).kind \in Validating,
           NEW sh, NEW row, NEW n, ~Bad(sh, row, f, n)
    PROVE  IF sh[row][f][n] = "" THEN Field(f).optional \/ Field(f).initial # Undefined
                                 ELSE sh[row][f][n] \in Field(f).datatype
<1> DEFINE t == sh[row][f][n]
<1>1. ~Refuses(sh, row, f, Checked(Field(f), t))
  BY DEF Bad
<1> HIDE DEF t
<1>2. CASE Field(f).kind # "combo" \/ Field(f).choices # <<>>
  <2>1. ~Refuses(sh, row, f, t)
    BY <1>1, <1>2, CheckedIs
  <2> QED
    BY <2>1 DEF Refuses, t
<1>3. CASE Field(f).kind = "combo" /\ Field(f).choices = <<>>
  <2>1. ~Field(f).optional /\ (Field(f).initial # Undefined \/ Blank \notin Field(f).datatype)
    BY <1>3, ComboIs
  <2>2. ~Refuses(sh, row, f, IF t = "" THEN Blank ELSE t)
    BY <1>1, <1>3, <2>1, CheckedBlank
  <2>3. CASE t # ""
    BY <2>2, <2>3 DEF Refuses, t
  <2>4. CASE t = ""
    BY <2>1, <2>2, <2>4, BlankThere DEF Refuses, t
  <2> QED
    BY <2>3, <2>4
<1> QED
  BY <1>2, <1>3

LEMMA HeldSplits ==
    ASSUME Init, FocusOK, NEW f \in focus, NEW val \in HeldFor(Field(f).option)
    PROVE  Splits(val)
<1>1. PICK made \in Forms : \E names : Part(made, names)
  BY InitPart
<1>2. PICK names : Part(made, names)
  BY <1>1
<1>3. /\ focus = names /\ \A g \in names : section.fields[g] = made.fields[g]
      /\ section.given = made.given
  BY <1>2, PartIs
<1>4. names \subseteq DOMAIN made.fields
  BY <1>2 DEF Part
<1> DEFINE o == Field(f).option
<1>5. f \in FieldsFor(o)
  BY FieldIs DEF FieldsFor, Says
<1>6. CASE o \in DOMAIN section.given
  BY <1>3, <1>6, HeldAssumption DEF HeldFor
<1>7. CASE o \notin DOMAIN section.given
  <2>1. PICK g \in FieldsFor(o) : val \in Held(section.fields[g])
    BY <1>5, <1>7 DEF HeldFor
  <2>2. g \in names /\ section.fields[g] = made.fields[g]
    BY <1>3, <2>1 DEF FieldsFor
  <2> QED
    BY <1>4, <2>1, <2>2, HeldAssumption
<1> QED
  BY <1>6, <1>7

LEMMA InitColumns == ASSUME Init, FocusOK PROVE ColumnsOK(table)
<1>1. ASSUME NEW row \in DOMAIN table PROVE table[row] \in HeldRows
  BY <1>1 DEF Init
<1>2. ASSUME NEW row \in HeldRows PROVE DOMAIN row = Options /\ \A o \in Options : row[o] \in HeldFor(o)
  BY <1>2 DEF HeldRows
<1>3. \A f \in focus : Field(f).option \in Options
  BY FieldIs DEF Options, Says
<1> QED
  BY <1>1, <1>2, <1>3, HeldSplits, FieldIs DEF ColumnsOK, Says

-----------------------------------------------------------------------------
(* Rows that are saved *)

\* What fields of the same option have in common.
Twin(a, b) ==
    /\ a.own = b.own /\ a.kind = b.kind /\ a.datatype = b.datatype /\ a.optional = b.optional
    /\ a.initial = b.initial /\ a.keep = b.keep /\ a.option = b.option

LEMMA SectionSays ==
    ASSUME FocusOK, SectionOK, NEW f \in focus, Field(f).own \in Plain
    PROVE  /\ Field(f).own = "zone" => Field(f).option # "timezone"
           /\ Field(f).kind = "dynamic" => Field(f).option # "vlan"
           /\ Field(f).option = "password" => ~({"__shadow", "password"} \subseteq focus)
           /\ \A g \in focus \ {f} : Field(f).option \in Writes(Field(g)) =>
                 Field(f).own = "" /\ Field(f).keep /\ Twin(Field(g), Field(f))
<1> DEFINE made == section.fields[f]
<1>1. Says(Field(f), made)
  BY FieldIs
<1>2. OptionsSound(section.fields) /\ made.own \in Plain /\ f \in DOMAIN section.fields
  BY <1>1 DEF SectionOK, Says, focus
<1>3. /\ made.own = "zone" => made.option # "timezone"
      /\ made.kind = "dynamic" => made.option # "vlan"
      /\ made.option = "password" => ~({"__shadow", "password"} \subseteq focus)
      /\ \A g \in focus \ {f} : made.option \in Writes(section.fields[g]) =>
            /\ made.own = "" /\ made.keep /\ section.fields[g].option = made.option
            /\ \A part \in {"own", "kind", "datatype", "optional", "initial", "keep"} :
                  section.fields[g][part] = made[part]
  BY <1>2, Zenon DEF OptionsSound, focus
<1> HIDE DEF made
<1>4. ASSUME NEW g \in focus \ {f}, Field(f).option \in Writes(Field(g))
      PROVE  Field(f).own = "" /\ Field(f).keep /\ Twin(Field(g), Field(f))
  <2> DEFINE other == section.fields[g]
  <2>1. Says(Field(g), other) /\ Writes(Field(g)) = Writes(other)
    BY FieldIs, WritesIs
  <2>2. made.option \in Writes(other)
    BY <1>1, <1>4, <2>1 DEF Says
  <2>3. /\ made.own = "" /\ made.keep /\ other.option = made.option
        /\ \A part \in {"own", "kind", "datatype", "optional", "initial", "keep"} : other[part] = made[part]
    BY <1>3, <2>2, Zenon
  <2>4. /\ other.own = made.own /\ other.kind = made.kind /\ other.datatype = made.datatype
        /\ other.optional = made.optional /\ other.initial = made.initial /\ other.keep = made.keep
    BY <2>3
  <2> HIDE DEF other
  <2> QED
    BY <1>1, <2>1, <2>3, <2>4 DEF Says, Twin
<1> QED
  BY <1>1, <1>3, <1>4 DEF Says

\* A field that is stored as it was entered writes just that.
LEMMA PlainPut ==
    ASSUME FocusOK, SectionOK, NEW f \in focus, NEW row,
           Field(f).own \in Plain, Field(f).kind \in Validating
    PROVE  /\ Field(f).option \in Writes(Field(f))
           /\ Puts(row, f)[Field(f).option] = Saved(Field(f), table[row], shown[row][f], f \in hidden[row])
<1> DEFINE def == Field(f)
           o == def.option
           val == Saved(def, table[row], shown[row][f], f \in hidden[row])
<1>1. o \in Writes(def)
  BY DEF Writes, Plain, Validating
<1>2. def.own \in {"", "zone"} /\ (def.own = "zone" => o # "timezone")
  BY SectionSays DEF Plain
<1> HIDE DEF def, o, val
<1>3. Puts(row, f)[o] = val
  BY <1>1, <1>2 DEF Puts, def, o, val
<1> QED
  BY <1>1, <1>3 DEF def, o, val

\* The field whose input a saved option was taken from.
Source(row, f, g) ==
    /\ g \in focus /\ Twin(Field(g), Field(f)) /\ (g \in hidden[row] => g = f)
    /\ SavedRow(row)[Field(f).option] = Saved(Field(g), table[row], shown[row][g], g \in hidden[row])

LEMMA SavedFrom ==
    ASSUME FocusOK, SectionOK, NEW f \in focus, NEW row, DOMAIN table[row] = Options,
           Field(f).own \in Plain, Field(f).kind \in Validating
    PROVE  \E g \in focus : Source(row, f, g)
<1> DEFINE def == Field(f)
           o == def.option
<1>1. o \in DOMAIN table[row] /\ Twin(def, def)
  BY FieldIs DEF Options, Says, Twin
<1>2. CASE SavedRow(row)[o] = Puts(row, f)[o]
  <2>1. Source(row, f, f)
    BY <1>1, <1>2, PlainPut DEF Source
  <2> QED
    BY <2>1
<1>3. ASSUME NEW g \in focus, g # f, WrittenBy(row, o, g) PROVE Source(row, f, g)
  <2>1. o \in Writes(Field(g)) /\ Puts(row, g)[o] # table[row][o] /\ SavedRow(row)[o] = Puts(row, g)[o]
    BY <1>3 DEF WrittenBy
  <2>2. def.own = "" /\ def.keep /\ Twin(Field(g), def)
    BY <1>3, <2>1, SectionSays
  <2>3. Field(g).own \in Plain /\ Field(g).kind \in Validating /\ Field(g).option = o /\ Field(g).keep
    BY <2>2 DEF Twin
  <2>4. Puts(row, g)[o] = Saved(Field(g), table[row], shown[row][g], g \in hidden[row])
    BY <2>3, PlainPut
  <2>5. g \notin hidden[row]
    BY <2>1, <2>3, <2>4 DEF Saved
  <2> QED
    BY <2>1, <2>2, <2>4, <2>5 DEF Source
<1>4. Kept(row, o) \/ \E g \in focus : WrittenBy(row, o, g)
  BY <1>1, SavedRowIs
<1>5. ASSUME Kept(row, o) PROVE SavedRow(row)[o] = Puts(row, f)[o]
  BY <1>5, PlainPut DEF Kept
<1>6. ASSUME WrittenBy(row, o, f) PROVE SavedRow(row)[o] = Puts(row, f)[o]
  BY <1>6 DEF WrittenBy
<1> QED
  BY <1>2, <1>3, <1>4, <1>5, <1>6

\* What a field leaves that is seen and accepted.
LEMMA SavedFits ==
    ASSUME FocusOK, SectionOK, NEW f \in focus, NEW row, DOMAIN table[row] = Options,
           Field(f).own \in Plain, Field(f).kind \in Validating, f \notin hidden[row],
           \A g \in focus : Entered(Field(g), shown[row][g]),
           \A g \in focus : g \in hidden[row] \/ BadInputs(shown, row, g) = {}
    PROVE  Fits(Field(f), SavedRow(row)[Field(f).option])
<1>1. PICK g \in focus : Source(row, f, g)
  BY SavedFrom
<1>2. g \notin hidden[row] /\ Twin(Field(g), Field(f))
  BY <1>1 DEF Source
<1>3. Field(g).own \in Plain /\ Field(g).kind \in Validating
  BY <1>2 DEF Twin
<1>4. Right(Field(g), shown[row][g])
  <2>1. ASSUME NEW n \in DOMAIN shown[row][g] PROVE ~Bad(shown, row, g, n)
    BY <1>2 DEF BadInputs
  <2> QED
    BY <1>3, <2>1, GoodText DEF Right
<1>5. Fits(Field(g), Saved(Field(g), table[row], shown[row][g], FALSE))
  BY <1>3, <1>4, ValidFits, Zenon
<1>6. SavedRow(row)[Field(f).option] = Saved(Field(g), table[row], shown[row][g], FALSE)
  BY <1>1, <1>2 DEF Source, Saved
<1> QED
  BY <1>2, <1>5, <1>6 DEF Twin, Fits

LEMMA UndefinedSplits == Splits(Undefined)
<1>1. Split(Undefined) = <<>>
  BY DEF Split, Undefined
<1>2. <<>> \in Seq(InSeq(<<>>))
  OBVIOUS
<1> QED
  BY <1>1, <1>2, Zenon DEF Splits

\* A list of texts stays one.
LEMMA SavedSplits ==
    ASSUME FocusOK, SectionOK, NEW f \in focus, NEW row, ColumnsOK(table), row \in DOMAIN table,
           Field(f).own \in Plain, Field(f).kind = "dynamic",
           \A g \in focus : Entered(Field(g), shown[row][g])
    PROVE  Splits(SavedRow(row)[Field(f).option])
<1> DEFINE o == Field(f).option
<1>1. DOMAIN table[row] = Options /\ Splits(table[row][o]) /\ Field(f).kind \in Validating
  BY FieldIs DEF ColumnsOK, Validating, Says
<1>2. PICK g \in focus : Source(row, f, g)
  BY <1>1, SavedFrom
<1>3. Twin(Field(g), Field(f))
  BY <1>2 DEF Source
<1>4. Field(g).own \in Plain /\ Field(g).kind = "dynamic" /\ Field(g).option = o
  BY <1>3 DEF Twin
<1> DEFINE texts == shown[row][g]
           some == Filled(texts)
<1>5. IsSeq(texts)
  BY <1>4 DEF Entered
<1>6. IsSeq(some)
  BY <1>5, ChosenIs DEF Filled
<1>7. FormVal(Field(g), table[row], texts) = List(some)
  BY <1>4, FormValIs
<1> HIDE DEF some
<1>8. Splits(Stored(List(some)))
  <2>1. List(some).v = some /\ Split(List(some)) = some
    BY DEF List, Split
  <2> QED
    BY <1>6, <2>1, UndefinedSplits DEF Stored, Splits, IsSeq
<1>9. Saved(Field(g), table[row], texts, g \in hidden[row]) \in {Undefined, table[row][o], Stored(List(some))}
  BY <1>4, <1>7 DEF Saved
<1> QED
  BY <1>1, <1>2, <1>8, <1>9, UndefinedSplits DEF Source

-----------------------------------------------------------------------------
(* What the inputs show *)

InputsFit(sh) == \A row \in DOMAIN sh, f \in focus : Entered(Field(f), sh[row][f])

\* A select finds the text it starts with among its choices.
ListShows(def, opts) == ListText(Uci(def, opts)) \in Offered(def)

LEMMA SectionLists ==
    ASSUME FocusOK, SectionOK, NEW f \in focus, Field(f).kind = "list"
    PROVE  Field(f).keep /\ Field(f).own \in Plain \cup {"blind", "port"}
<1>1. ChoicesSound(section) /\ Says(Field(f), section.fields[f]) /\ f \in DOMAIN section.fields
  BY FieldIs DEF SectionOK, focus
<1> QED
  BY <1>1 DEF ChoicesSound, Says

\* What a widget shows when it is made.
LEMMA WidgetEntered ==
    ASSUME NEW def, NEW opts, def.kind = "list" => Widget(def, opts) # <<>>,
           def.kind = "dynamic" /\ def.own \in Plain => Splits(Base(def, opts))
    PROVE  Entered(def, Widget(def, opts))
<1> DEFINE val == Uci(def, opts)
<1>1. CASE def.kind = "list"
  <2>1. Widget(def, opts) = SelectWidget(def, val)
    BY <1>1 DEF Widget
  <2>2. ListText(val) \in Offered(def) /\ Widget(def, opts) = <<ListText(val)>>
    BY <1>1, <2>1 DEF SelectWidget
  <2> QED
    BY <1>1, <2>2 DEF Entered
<1>2. CASE def.kind = "combo"
  <2>1. Widget(def, opts) = ComboWidget(def, val)
    BY <1>2 DEF Widget
  <2> QED
    BY <1>2, <2>1 DEF Entered, ComboWidget
<1>3. CASE def.kind \in {"input", "password"}
  <2>1. Widget(def, opts) = <<ListText(val)>>
    BY <1>3 DEF Widget
  <2> QED
    BY <1>3, <2>1 DEF Entered
<1>4. CASE def.kind = "dynamic"
  <2>1. Widget(def, opts) = IF val.v = <<>> THEN <<"">> ELSE val.v
    BY <1>4 DEF Widget
  <2>2. ASSUME def.own \in Plain PROVE IsSeq(Widget(def, opts))
    <3>1. val = List(Split(Base(def, opts)))
      BY <1>4, <2>2, PlainUci
    <3>2. IsSeq(val.v)
      BY <1>4, <2>2, <3>1 DEF List, Splits, IsSeq
    <3>3. <<"">> \in Seq({""})
      OBVIOUS
    <3>4. IsSeq(<<"">>)
      BY <3>3, SeqIs
    <3> QED
      BY <2>1, <3>2, <3>4
  <2> QED
    BY <1>4, <2>2 DEF Entered, Single
<1>5. CASE def.kind \notin Single \cup {"dynamic"}
  BY <1>5 DEF Entered, Single
<1> QED
  BY <1>1, <1>2, <1>3, <1>4, <1>5 DEF Single

\* The account form's emptying of a password.
LEMMA EmptiedIs ==
    ASSUME NEW sh, NEW tb, NEW row \in DOMAIN sh, NEW f \in focus
    PROVE  \/ Emptied(sh, tb)[row][f] = sh[row][f]
           \/ Emptied(sh, tb)[row][f] = <<"">> /\ Field(f).own = "password"
<1> DEFINE TextsIn(r) == [g \in focus |->
              IF Field(g).own = "password" /\ sh[r]["__shadow"] = <<>> /\ SystemAccount(tb[r])
              THEN <<"">> ELSE sh[r][g]]
           rows == [r \in DOMAIN sh |-> Made(TextsIn(r))]
<1>1. Emptied(sh, tb) = rows
  BY MadeSame DEF Emptied
<1>2. rows[row] = TextsIn(row)
  BY MadeSame
<1> HIDE DEF rows
<1> QED
  BY <1>1, <1>2

LEMMA EmptiedFits ==
    ASSUME FocusOK, SectionOK, NEW sh, NEW tb, InputsFit(sh)
    PROVE  InputsFit(Emptied(sh, tb))
<1>1. DOMAIN Emptied(sh, tb) = DOMAIN sh
  BY EmptiedInputs
<1>2. ASSUME NEW row \in DOMAIN sh, NEW f \in focus PROVE Entered(Field(f), Emptied(sh, tb)[row][f])
  <2>1. Entered(Field(f), sh[row][f])
    BY DEF InputsFit
  <2>2. ASSUME Field(f).own = "password" PROVE Entered(Field(f), <<"">>)
    <3>1. Field(f).kind # "list" /\ Field(f).own \notin Plain
      BY <2>2, SectionLists DEF Plain
    <3> QED
      BY <3>1 DEF Entered
  <2>3. CASE Emptied(sh, tb)[row][f] = sh[row][f]
    BY <2>1, <2>3
  <2>4. CASE Emptied(sh, tb)[row][f] = <<"">> /\ Field(f).own = "password"
    BY <2>2, <2>4
  <2>5. \/ Emptied(sh, tb)[row][f] = sh[row][f]
        \/ Emptied(sh, tb)[row][f] = <<"">> /\ Field(f).own = "password"
    BY EmptiedIs
  <2> QED
    BY <2>3, <2>4, <2>5
<1> QED
  BY <1>1, <1>2 DEF InputsFit

LEMMA DrawnIs ==
    ASSUME NEW tb, NEW row \in DOMAIN tb, NEW f \in focus
    PROVE  Drawn(tb)[row][f] = Widget(Field(f), tb[row])
<1> DEFINE TextsIn(r) == [g \in focus |-> Widget(Field(g), tb[r])]
           rows == [r \in DOMAIN tb |-> Made(TextsIn(r))]
<1>1. Drawn(tb) = rows
  BY MadeSame DEF Drawn
<1>2. rows[row] = TextsIn(row)
  BY MadeSame
<1> HIDE DEF rows
<1> QED
  BY <1>1, <1>2

\* A form that is shown after it was drawn shows all its lists.
LEMMA RedrawFits ==
    ASSUME FocusOK, SectionOK, NEW tb, ColumnsOK(tb), Redraw(tb), phase' = "shown"
    PROVE  InputsFit(shown') /\ \A row \in DOMAIN tb, f \in focus :
              Field(f).kind = "list" => ListShows(Field(f), tb[row])
<1> DEFINE drawn == Drawn(tb)
<1>1. ~Unshowable(drawn) /\ shown' = Emptied(drawn, tb)
  BY DEF Redraw, Validated
<1>2. DOMAIN drawn = DOMAIN tb
  BY DrawnDomain
<1>3. \A row \in DOMAIN tb, f \in focus : drawn[row][f] = Widget(Field(f), tb[row])
  BY DrawnIs
<1> HIDE DEF drawn
<1>4. ASSUME NEW row \in DOMAIN tb, NEW f \in focus, Field(f).kind = "list"
      PROVE  Widget(Field(f), tb[row]) # <<>>
  BY <1>1, <1>2, <1>3, <1>4 DEF Unshowable
<1>5. ASSUME NEW row \in DOMAIN tb, NEW f \in focus PROVE Entered(Field(f), drawn[row][f])
  <2>1. ASSUME Field(f).kind = "dynamic", Field(f).own \in Plain PROVE Splits(Base(Field(f), tb[row]))
    <3>1. Splits(tb[row][Field(f).option])
      BY <2>1, FieldIs DEF ColumnsOK, Says
    <3>2. Splits(Field(f).initial)
      BY <2>1, FieldIs DEF SectionOK, Says
    <3> QED
      BY <3>1, <3>2 DEF Base
  <2>2. Entered(Field(f), Widget(Field(f), tb[row]))
    BY <1>4, <2>1, WidgetEntered
  <2> QED
    BY <1>3, <2>2
<1>6. InputsFit(drawn)
  BY <1>2, <1>5 DEF InputsFit
<1>7. ASSUME NEW row \in DOMAIN tb, NEW f \in focus, Field(f).kind = "list"
      PROVE  ListShows(Field(f), tb[row])
  <2>1. Widget(Field(f), tb[row]) = SelectWidget(Field(f), Uci(Field(f), tb[row]))
    BY <1>7 DEF Widget
  <2> QED
    BY <1>4, <1>7, <2>1 DEF SelectWidget, ListShows
<1>8. InputsFit(shown')
  BY <1>1, <1>6, EmptiedFits
<1> QED
  BY <1>7, <1>8

\* And it is shown if all its lists can be.
LEMMA RedrawShows ==
    ASSUME NEW tb, Redraw(tb),
           \A row \in DOMAIN tb, f \in focus : Field(f).kind = "list" => ListShows(Field(f), tb[row])
    PROVE  phase' = "shown"
<1> DEFINE drawn == Drawn(tb)
<1>1. phase' = IF Unshowable(drawn) THEN "broken" ELSE "shown"
  BY DEF Redraw
<1>2. DOMAIN drawn = DOMAIN tb
  BY DrawnDomain
<1>3. \A row \in DOMAIN tb, f \in focus : drawn[row][f] = Widget(Field(f), tb[row])
  BY DrawnIs
<1> HIDE DEF drawn
<1>4. ASSUME NEW row \in DOMAIN tb, NEW f \in focus, Field(f).kind = "list" PROVE drawn[row][f] # <<>>
  <2>1. drawn[row][f] = SelectWidget(Field(f), Uci(Field(f), tb[row]))
    BY <1>3, <1>4 DEF Widget
  <2> QED
    BY <1>4, <2>1 DEF SelectWidget, ListShows
<1>5. ~Unshowable(drawn)
  BY <1>2, <1>4 DEF Unshowable
<1> QED
  BY <1>1, <1>5

-----------------------------------------------------------------------------
(* What the user makes of them *)

LEMMA EntriesAre ==
    ASSUME NEW def, NEW now
    PROVE  /\ def.kind \in {"input", "password"} => Entries(def, now) = {<<t>> : t \in Typed(def)}
           /\ def.kind = "combo" => Entries(def, now) = {<<t>> : t \in InSeq(def.choices) \cup Typed(def)}
<1>1. ASSUME def.kind = "input" PROVE Entries(def, now) = {<<t>> : t \in Typed(def)}
  BY <1>1, SMTT(30) DEF Entries
<1>2. ASSUME def.kind = "password" PROVE Entries(def, now) = {<<t>> : t \in Typed(def)}
  BY <1>2, SMTT(30) DEF Entries
<1>3. ASSUME def.kind = "combo"
      PROVE  Entries(def, now) = {<<t>> : t \in InSeq(def.choices) \cup Typed(def)}
  BY <1>3, SMTT(30) DEF Entries
<1> QED
  BY <1>1, <1>2, <1>3

LEMMA EntriesFit ==
    ASSUME NEW def, NEW now, Entered(def, now), NEW new \in Entries(def, now)
    PROVE  Entered(def, new)
<1>1. CASE def.kind = "list"
  <2>1. new \in {<<t>> : t \in Offered(def)}
    BY <1>1 DEF Entries
  <2> QED
    BY <1>1, <2>1 DEF Entered
<1>2. CASE def.kind = "combo"
  <2> DEFINE texts == InSeq(def.choices) \cup Typed(def)
  <2>1. Entries(def, now) = {<<t>> : t \in texts}
    BY <1>2, EntriesAre
  <2> HIDE DEF texts
  <2> QED
    BY <1>2, <2>1 DEF Entered
<1>3. CASE def.kind \in {"input", "password"}
  <2>1. new \in {<<t>> : t \in Typed(def)}
    BY <1>3, EntriesAre
  <2> QED
    BY <1>3, <2>1 DEF Entered
<1>4. CASE def.kind = "dynamic"
  <2>1. new \in {[now EXCEPT ![n] = t] : n \in DOMAIN now, t \in Typed(def)}
    BY <1>4 DEF Entries
  <2>2. ASSUME def.own \in Plain PROVE IsSeq(new)
    <3>1. PICK n \in DOMAIN now, t \in Typed(def) : new = [now EXCEPT ![n] = t]
      BY <2>1
    <3>2. now \in Seq(InSeq(now))
      BY <1>4, <2>2 DEF Entered, IsSeq
    <3>3. Len(now) \in Nat /\ DOMAIN now = 1 .. Len(now) /\ \A i \in 1 .. Len(now) : now[i] \in InSeq(now)
      BY <3>2
    <3> DEFINE S == InSeq(now) \cup {t}
    <3>4. new = [i \in 1 .. Len(now) |-> new[i]] /\ \A i \in 1 .. Len(now) : new[i] \in S
      BY <3>1, <3>3
    <3> HIDE DEF S
    <3>5. new \in Seq(S)
      BY <3>3, <3>4
    <3> QED
      BY <3>5, SeqIs
  <2> QED
    BY <1>4, <2>2 DEF Entered, Single
<1>5. CASE def.kind \notin Single \cup {"dynamic"}
  BY <1>5 DEF Entered, Single
<1> QED
  BY <1>1, <1>2, <1>3, <1>4, <1>5 DEF Single

-----------------------------------------------------------------------------
(* Tables that are saved *)

\* No two fields write the same option.
OneEach == \A o \in Options : ~(Cardinality(FieldsFor(o)) > 1)

\* Every list finds its text.
AllShow(tb) == \A row \in DOMAIN tb, f \in focus : Field(f).kind = "list" => ListShows(Field(f), tb[row])
Showable(tb) == OneEach => AllShow(tb)

LEMMA TwoInSet ==
    ASSUME NEW S, IsFiniteSet(S), NEW a \in S, NEW b \in S, a # b
    PROVE  Cardinality(S) \in Nat /\ Cardinality(S) > 1
<1>1. IsFiniteSet({a, b}) /\ Cardinality({a, b}) = 2
  <2>1. IsFiniteSet({a}) /\ Cardinality({a}) = 1
    BY FS_Singleton
  <2>2. b \notin {a} /\ {a, b} = {a} \cup {b}
    OBVIOUS
  <2> QED
    BY <2>1, <2>2, FS_AddElement
<1>2. {a, b} \subseteq S
  OBVIOUS
<1>3. Cardinality({a, b}) <= Cardinality(S) /\ Cardinality(S) \in Nat
  BY <1>2, FS_Subset, FS_CardinalityType
<1> QED
  BY <1>1, <1>3

LEMMA OneOnly ==
    ASSUME FocusOK, SectionOK, OneEach, NEW f \in focus, NEW g \in focus, Field(f).option = Field(g).option
    PROVE  f = g
<1> DEFINE o == Field(f).option
<1>1. f \in FieldsFor(o) /\ g \in FieldsFor(o) /\ o \in Options
  BY FieldIs DEF FieldsFor, Options, Says
<1>2. IsFiniteSet(FieldsFor(o))
  <2>1. FieldsFor(o) \subseteq focus /\ IsFiniteSet(focus)
    BY DEF FieldsFor, SectionOK
  <2> QED
    BY <2>1, FS_Subset
<1> HIDE DEF o
<1>3. ~(Cardinality(FieldsFor(o)) > 1)
  BY <1>1 DEF OneEach
<1> QED
  BY <1>1, <1>2, <1>3, TwoInSet

LEMMA OneText ==
    ASSUME NEW t
    PROVE  ListText(Str(t)) = t
<1>1. Str(t).v = <<t>> /\ Len(<<t>>) = 1 /\ <<t>>[1] = t
  BY DEF Str
<1> QED
  BY <1>1 DEF ListText

\* What ChoicesSound says of a list with the choices it has now.
LEMMA ListSays ==
    ASSUME FocusOK, SectionOK, NEW f \in focus, Field(f).kind = "list"
    PROVE  LET def == Field(f) IN
           /\ def.own = "blind" => 1 \in DOMAIN def.choices
           /\ def.own = "port" => {"n", "u", "t"} \subseteq InSeq(def.choices)
           /\ def.own \in Plain /\ def.initial # Undefined /\ Offered(def) # {} =>
                 ListText(def.initial) \in Offered(def)
           /\ loaded /\ section.addremove /\ def.own \in Plain =>
                 /\ def.option # "vlan"
                 /\ ListText(Base(def, [o \in {def.option} |-> Preset(section, o)])) \in Offered(def)
<1> DEFINE made == section.fields[f]
           def == Field(f)
<1>1. Says(def, made) /\ f \in DOMAIN section.fields
  BY FieldIs DEF focus
<1>2. /\ made.own = "blind" => ~made.lazy /\ 1 \in DOMAIN made.choices
      /\ made.own = "port" => ~made.lazy /\ {"n", "u", "t"} \subseteq InSeq(made.choices)
      /\ made.own \in Plain /\ made.initial # Undefined =>
            ListText(made.initial) \in InSeq(made.choices) /\ ~(made.lazy /\ made.optional)
      /\ made.own \in Plain /\ section.addremove =>
            /\ made.option # "vlan"
            /\ ListText(Base(made, [o \in {made.option} |-> Preset(section, o)])) \in Offered(made)
  <2>1. ChoicesSound(section) /\ made.kind = "list"
    BY <1>1 DEF SectionOK, Says
  <2> QED
    BY <1>1, <2>1, Zenon DEF ChoicesSound
<1>3. ~made.lazy \/ loaded => def = made
  BY DEF Field
<1>4. made.lazy /\ ~loaded => def.choices = <<>>
  <2>1. DOMAIN made = DOMAIN Value /\ "choices" \in DOMAIN Value
    BY DEF FocusOK, Value
  <2> QED
    BY <2>1 DEF Field
<1> HIDE DEF made, def
<1>5. ASSUME made.own \in Plain, made.initial # Undefined, Offered(def) # {}
      PROVE  ListText(def.initial) \in Offered(def)
  <2>1. CASE ~made.lazy \/ loaded
    BY <1>2, <1>3, <1>5, <2>1 DEF Offered
  <2>2. CASE made.lazy /\ ~loaded
    <3>1. InSeq(def.choices) = {} /\ ~def.optional
      BY <1>1, <1>2, <1>4, <1>5, <2>2 DEF InSeq, Says
    <3> QED
      BY <1>5, <3>1 DEF Offered
  <2> QED
    BY <2>1, <2>2
<1>6. /\ def.own = "blind" => 1 \in DOMAIN def.choices
      /\ def.own = "port" => {"n", "u", "t"} \subseteq InSeq(def.choices)
  BY <1>1, <1>2, <1>3 DEF Says
<1>7. loaded /\ section.addremove /\ def.own \in Plain =>
         /\ def.option # "vlan"
         /\ ListText(Base(def, [o \in {def.option} |-> Preset(section, o)])) \in Offered(def)
  BY <1>2, <1>3
<1>8. made.own = def.own /\ made.initial = def.initial
  BY <1>1 DEF Says
<1> QED
  BY <1>5, <1>6, <1>7, <1>8 DEF def

LEMMA FieldKinds ==
    ASSUME NEW def, NEW opts, def.kind = "list"
    PROVE  /\ def.own \in Plain => Uci(def, opts) = Base(def, opts)
           /\ def.own = "blind" => Uci(def, opts) = Str(def.choices[1])
           /\ def.own = "port" => Uci(def, opts) \in {Str("n"), Str("u"), Str("t")}
<1>1. ASSUME def.own \in Plain PROVE Uci(def, opts) = Base(def, opts)
  BY <1>1, PlainUci DEF Single
<1>2. ASSUME def.own = "blind" PROVE Uci(def, opts) = Str(def.choices[1])
  <2>1. Uci(def, opts) = OwnUci(def, opts)
    BY <1>2 DEF Uci, UciOwners
  <2> QED
    BY <1>2, <2>1 DEF OwnUci
<1>3. ASSUME def.own = "port" PROVE Uci(def, opts) \in {Str("n"), Str("u"), Str("t")}
  <2>1. Uci(def, opts) = OwnUci(def, opts)
    BY <1>3 DEF Uci, UciOwners
  <2> QED
    BY <1>3, <2>1 DEF OwnUci
<1> QED
  BY <1>1, <1>2, <1>3

\* A list that is not stored as it was entered has its texts from elsewhere.
LEMMA OwnShows ==
    ASSUME FocusOK, SectionOK, NEW f \in focus, Field(f).kind = "list", Field(f).own \notin Plain, NEW opts
    PROVE  ListShows(Field(f), opts)
<1> DEFINE def == Field(f)
<1>1. def.own \in {"blind", "port"}
  BY SectionLists
<1>2. /\ def.own = "blind" => 1 \in DOMAIN def.choices /\ Uci(def, opts) = Str(def.choices[1])
      /\ def.own = "port" => /\ {"n", "u", "t"} \subseteq InSeq(def.choices)
                             /\ Uci(def, opts) \in {Str("n"), Str("u"), Str("t")}
  BY ListSays, FieldKinds
<1> HIDE DEF def
<1>3. ListText(Uci(def, opts)) \in InSeq(def.choices)
  <2>1. CASE def.own = "blind"
    <3>1. ListText(Uci(def, opts)) = def.choices[1]
      BY <1>2, <2>1, OneText
    <3> QED
      BY <1>2, <2>1, <3>1 DEF InSeq
  <2>2. CASE def.own = "port"
    <3>1. ListText(Uci(def, opts)) \in {"n", "u", "t"}
      BY <1>2, <2>2, OneText
    <3> QED
      BY <1>2, <2>2, <3>1
  <2> QED
    BY <1>1, <2>1, <2>2
<1> QED
  BY <1>3 DEF ListShows, Offered, def

\* Only the option of a list matters.
LEMMA ShowsBy ==
    ASSUME FocusOK, SectionOK, NEW f \in focus, Field(f).kind = "list", NEW opts, NEW more,
           ListShows(Field(f), opts), Field(f).own \in Plain => more[Field(f).option] = opts[Field(f).option]
    PROVE  ListShows(Field(f), more)
<1>1. CASE Field(f).own \notin Plain
  BY <1>1, OwnShows
<1>2. CASE Field(f).own \in Plain
  <2>1. Uci(Field(f), opts) = Base(Field(f), opts) /\ Uci(Field(f), more) = Base(Field(f), more)
    BY <1>2, FieldKinds
  <2>2. Base(Field(f), opts) = Base(Field(f), more)
    BY <1>2 DEF Base
  <2> QED
    BY <2>1, <2>2 DEF ListShows
<1> QED
  BY <1>1, <1>2

LEMMA SavedShows ==
    ASSUME FocusOK, SectionOK, OneEach, NEW f \in focus, Field(f).kind = "list", NEW row \in DOMAIN table,
           ColumnsOK(table), ListShows(Field(f), table[row]), Entered(Field(f), shown[row][f])
    PROVE  ListShows(Field(f), SavedRow(row))
<1> DEFINE def == Field(f)
           o == def.option
           opts == table[row]
           val == FormVal(def, opts, shown[row][f])
<1>1. CASE def.own \notin Plain
  BY <1>1, OwnShows
<1>2. CASE def.own \in Plain
  <2>1. DOMAIN opts = Options /\ def.kind \in Validating /\ def.kind \in Single
    BY DEF ColumnsOK, Validating, Single
  <2>2. PICK g \in focus : Source(row, f, g)
    BY <1>2, <2>1, SavedFrom
  <2>3. g = f
    BY <2>2, OneOnly DEF Source, Twin
  <2>4. SavedRow(row)[o] = Saved(def, opts, shown[row][f], f \in hidden[row])
    BY <2>2, <2>3 DEF Source
  <2>5. PICK t \in Offered(def) : shown[row][f] = <<t>>
    BY DEF Entered
  <2>6. val = Text(t)
    BY <2>1, <2>5, FormValIs
  <2>7. def.keep
    BY SectionLists
  <2> HIDE DEF val
  <2>8. SavedRow(row)[o] \in {opts[o], Stored(val)}
    BY <2>1, <2>4, <2>7 DEF Saved, val, Single
  <2>9. CASE SavedRow(row)[o] = opts[o]
    BY <2>9, ShowsBy
  <2>10. CASE SavedRow(row)[o] = Stored(val)
    <3>1. Uci(def, SavedRow(row)) = IF Stored(val) = Undefined THEN def.initial ELSE Stored(val)
      BY <1>2, <2>10, FieldKinds DEF Base
    <3>2. CASE t = ""
      <4>1. Stored(val) = Undefined
        BY <2>6, <3>2 DEF Text, Stored, Undefined
      <4>2. Uci(def, SavedRow(row)) = def.initial
        BY <3>1, <4>1
      <4>3. CASE def.initial # Undefined
        BY <1>2, <2>5, <4>2, <4>3, ListSays DEF ListShows
      <4>4. CASE def.initial = Undefined
        <5>1. ListText(Undefined) = ""
          BY DEF ListText, Undefined
        <5> QED
          BY <2>5, <3>2, <4>2, <4>4, <5>1 DEF ListShows
      <4> QED
        BY <4>3, <4>4
    <3>3. CASE t # ""
      <4>1. val = Str(t) /\ Str(t).v = <<t>> /\ <<t>> # <<>> /\ <<t>> # <<"">>
        BY <2>6, <3>3 DEF Text, Str
      <4>2. Stored(val) = Str(t) /\ Str(t) # Undefined
        BY <4>1 DEF Stored, Str, Undefined
      <4> QED
        BY <2>5, <3>1, <4>2, OneText DEF ListShows
    <3> QED
      BY <3>2, <3>3
  <2> QED
    BY <2>8, <2>9, <2>10
<1> QED
  BY <1>1, <1>2

-----------------------------------------------------------------------------
(* Tables *)

\* The rows that were there are saved; what other rows there are is new.
SavedOrNew(tb) ==
    \A row \in DOMAIN tb :
        \/ row \in DOMAIN table /\ tb[row] = SavedRow(row)
        \/ section.addremove /\ tb[row] = NewRow

LEMMA SavedTableIs == DOMAIN SavedTable = DOMAIN table /\ \A row \in DOMAIN table : SavedTable[row] = SavedRow(row)
<1>1. SavedTable = [row \in DOMAIN table |-> SavedRow(row)]
  BY MadeSame DEF SavedTable
<1> QED
  BY <1>1

LEMMA NewRowIs ==
    DOMAIN NewRow = Options /\ \A o \in Options \ {"vlan"} : NewRow[o] = Preset(section, o)
<1> DEFINE new == [o \in Options |-> IF o = "vlan" THEN Num(FreeVlans[1]) ELSE Preset(section, o)]
<1>1. NewRow = new
  BY MadeSame DEF NewRow
<1> QED
  BY <1>1

LEMMA PresetSplits ==
    ASSUME SectionOK, NEW o
    PROVE  Splits(Preset(section, o))
BY UndefinedSplits DEF SectionOK, Preset

LEMMA SavedColumns ==
    ASSUME FocusOK, SectionOK, ColumnsOK(table), InputsFit(shown), DOMAIN shown = DOMAIN table,
           NEW tb, SavedOrNew(tb)
    PROVE  ColumnsOK(tb)
<1>1. ASSUME NEW row \in DOMAIN table
      PROVE  /\ DOMAIN SavedRow(row) = Options
             /\ \A f \in focus : section.fields[f].kind = "dynamic" /\ section.fields[f].own \in Plain =>
                   Splits(SavedRow(row)[section.fields[f].option])
  <2>1. DOMAIN SavedRow(row) = Options
    BY SavedRowIs DEF ColumnsOK
  <2>2. ASSUME NEW f \in focus, section.fields[f].kind = "dynamic", section.fields[f].own \in Plain
        PROVE  Splits(SavedRow(row)[section.fields[f].option])
    <3>1. Field(f).kind = "dynamic" /\ Field(f).own \in Plain /\ Field(f).option = section.fields[f].option
      BY <2>2, FieldIs DEF Says
    <3>2. \A g \in focus : Entered(Field(g), shown[row][g])
      BY DEF InputsFit
    <3> QED
      BY <3>1, <3>2, SavedSplits
  <2> QED
    BY <2>1, <2>2
<1>2. /\ DOMAIN NewRow = Options
      /\ \A f \in focus : section.fields[f].kind = "dynamic" /\ section.fields[f].own \in Plain =>
            Splits(NewRow[section.fields[f].option])
  <2>1. ASSUME NEW f \in focus, section.fields[f].kind = "dynamic", section.fields[f].own \in Plain
        PROVE  Splits(NewRow[section.fields[f].option])
    <3>1. Field(f).kind = "dynamic" /\ Field(f).own \in Plain /\ Field(f).option = section.fields[f].option
      BY <2>1, FieldIs DEF Says
    <3>2. section.fields[f].option \in Options \ {"vlan"}
      BY <3>1, SectionSays DEF Options
    <3> QED
      BY <3>2, NewRowIs, PresetSplits
  <2> QED
    BY <2>1, NewRowIs
<1> QED
  BY <1>1, <1>2 DEF ColumnsOK, SavedOrNew

LEMMA NewRowShows ==
    ASSUME FocusOK, SectionOK, loaded, section.addremove, NEW f \in focus, Field(f).kind = "list"
    PROVE  ListShows(Field(f), NewRow)
<1>1. CASE Field(f).own \notin Plain
  BY <1>1, OwnShows
<1>2. CASE Field(f).own \in Plain
  <2> DEFINE o == Field(f).option
             one == [p \in {o} |-> Preset(section, p)]
  <2>1. o # "vlan" /\ ListText(Base(Field(f), one)) \in Offered(Field(f))
    BY <1>2, ListSays
  <2>2. o \in Options
    BY FieldIs DEF Options, Says
  <2>3. NewRow[o] = Preset(section, o) /\ one[o] = Preset(section, o)
    BY <2>1, <2>2, NewRowIs
  <2> HIDE DEF one
  <2>4. Base(Field(f), NewRow) = Base(Field(f), one)
    BY <2>3 DEF Base
  <2>5. Uci(Field(f), NewRow) = Base(Field(f), NewRow)
    BY <1>2, FieldKinds
  <2> QED
    BY <2>1, <2>4, <2>5 DEF ListShows
<1> QED
  BY <1>1, <1>2

LEMMA SavedShowable ==
    ASSUME FocusOK, SectionOK, ColumnsOK(table), InputsFit(shown), DOMAIN shown = DOMAIN table,
           Showable(table), NEW tb
    PROVE  /\ tb = SavedTable => Showable(tb)
           /\ loaded /\ SavedOrNew(tb) => Showable(tb)
<1>1. ASSUME OneEach, NEW row \in DOMAIN table, NEW f \in focus, Field(f).kind = "list"
      PROVE  ListShows(Field(f), SavedRow(row))
  <2>1. ListShows(Field(f), table[row]) /\ Entered(Field(f), shown[row][f])
    BY <1>1 DEF Showable, AllShow, InputsFit
  <2> QED
    BY <1>1, <2>1, SavedShows
<1>2. ASSUME tb = SavedTable PROVE Showable(tb)
  BY <1>1, <1>2, SavedTableIs DEF Showable, AllShow
<1>3. ASSUME loaded, SavedOrNew(tb) PROVE Showable(tb)
  <2> SUFFICES ASSUME OneEach, NEW row \in DOMAIN tb, NEW f \in focus, Field(f).kind = "list"
               PROVE  ListShows(Field(f), tb[row])
    BY DEF Showable, AllShow
  <2>1. CASE row \in DOMAIN table /\ tb[row] = SavedRow(row)
    BY <1>1, <2>1
  <2>2. CASE section.addremove /\ tb[row] = NewRow
    BY <1>3, <2>2, NewRowShows
  <2> QED
    BY <1>3, <2>1, <2>2 DEF SavedOrNew
<1> QED
  BY <1>2, <1>3

\* Passwords that are encrypted change no other option.
CryptIn(rows) == rows # {} => {"__shadow", "password"} \subseteq focus

LEMMA EncryptedIs ==
    ASSUME NEW tb, NEW rows, NEW row \in DOMAIN tb
    PROVE  /\ DOMAIN Encrypted(tb, rows) = DOMAIN tb
           /\ DOMAIN Encrypted(tb, rows)[row] = DOMAIN tb[row]
           /\ \A o : rows = {} \/ o # "password" => Encrypted(tb, rows)[row][o] = tb[row][o]
<1>1. Encrypted(tb, rows)[row] = IF row \in rows THEN [tb[row] EXCEPT !["password"] = Str("$1$new")] ELSE tb[row]
  BY DEF Encrypted
<1>2. DOMAIN Encrypted(tb, rows) = DOMAIN tb
  BY DEF Encrypted
<1> QED
  BY <1>1, <1>2

LEMMA EncryptedPlain ==
    ASSUME FocusOK, SectionOK, NEW tb, NEW rows, CryptIn(rows), NEW row \in DOMAIN tb,
           NEW f \in focus, Field(f).own \in Plain
    PROVE  Encrypted(tb, rows)[row][Field(f).option] = tb[row][Field(f).option]
<1>1. Field(f).option = "password" => ~({"__shadow", "password"} \subseteq focus)
  BY SectionSays
<1>2. rows = {} \/ Field(f).option # "password"
  BY <1>1 DEF CryptIn
<1> QED
  BY <1>2, EncryptedIs

LEMMA EncryptedColumns ==
    ASSUME FocusOK, SectionOK, NEW tb, NEW rows, CryptIn(rows), ColumnsOK(tb)
    PROVE  ColumnsOK(Encrypted(tb, rows))
<1> DEFINE more == Encrypted(tb, rows)
<1>1. DOMAIN more = DOMAIN tb
  BY EncryptedDomain
<1>2. ASSUME NEW row \in DOMAIN tb PROVE DOMAIN more[row] = Options
  BY EncryptedIs DEF ColumnsOK
<1>3. ASSUME NEW row \in DOMAIN tb, NEW f \in focus, section.fields[f].kind = "dynamic", section.fields[f].own \in Plain
      PROVE  Splits(more[row][section.fields[f].option])
  <2>1. Field(f).own \in Plain /\ Field(f).option = section.fields[f].option
    BY <1>3, FieldIs DEF Says
  <2>2. more[row][section.fields[f].option] = tb[row][section.fields[f].option]
    BY <2>1, EncryptedPlain
  <2> QED
    BY <1>3, <2>2 DEF ColumnsOK
<1> QED
  BY <1>1, <1>2, <1>3 DEF ColumnsOK

LEMMA EncryptedShowable ==
    ASSUME FocusOK, SectionOK, NEW tb, NEW rows, CryptIn(rows), Showable(tb)
    PROVE  Showable(Encrypted(tb, rows))
<1> DEFINE more == Encrypted(tb, rows)
<1> SUFFICES ASSUME OneEach, NEW row \in DOMAIN more, NEW f \in focus, Field(f).kind = "list"
             PROVE  ListShows(Field(f), more[row])
  BY DEF Showable, AllShow
<1>1. row \in DOMAIN tb
  BY EncryptedDomain
<1>2. ListShows(Field(f), tb[row])
  BY <1>1 DEF Showable, AllShow
<1>3. Field(f).own \in Plain => more[row][Field(f).option] = tb[row][Field(f).option]
  BY <1>1, EncryptedPlain
<1> QED
  BY <1>2, <1>3, ShowsBy

LEMMA ToCryptIn == CryptIn(ToCrypt)
BY DEF CryptIn, ToCrypt

-----------------------------------------------------------------------------
(* The invariant behind what is sent *)

\* Fields that depend on nothing are never taken away.
Free(hid) == \A row \in DOMAIN hid, f \in focus : SourcesIn(section.fields, f) = {} => f \notin hid[row]

\* Until the form was seen, nothing of it differs from what the router holds.
CameOK ==
    /\ phase \in {"shown", "saving", "sending"} => came
    /\ ~came => phase \in {"opening", "loading", "broken"} /\ late = {} /\ table = router.table

TablesOK ==
    /\ ColumnsOK(table) /\ ColumnsOK(router.table)
    /\ came /\ phase # "broken" => Showable(table) /\ Showable(router.table)

InputsOK == (phase \in {"shown", "saving"} => InputsFit(shown)) /\ Free(hidden)

\* What goes on to be saved has no error that is seen.
NoneBad(sh, hid) == \A row \in DOMAIN sh, f \in focus : f \in hid[row] \/ BadInputs(sh, row, f) = {}
Accepted == phase = "saving" => NoneBad(shown, hidden)

SentInv ==
    /\ SectionOK /\ CryptIn(late) /\ CameOK /\ TablesOK /\ InputsOK /\ Accepted
    /\ SentIsValid /\ NoClash /\ OnceShown

LEMMA SameSection ==
    ASSUME section' = section
    PROVE  /\ focus' = focus /\ Options' = Options /\ (OneEach' <=> OneEach)
           /\ (SectionOK' <=> SectionOK)
           /\ \A tb : ColumnsOK(tb)' <=> ColumnsOK(tb)
           /\ \A hid : Free(hid)' <=> Free(hid)
           /\ \A rows : CryptIn(rows)' <=> CryptIn(rows)
<1>1. focus' = focus
  BY DEF focus
<1>2. Options' = Options
  BY <1>1 DEF Options
<1>3. \A o : FieldsFor(o)' = FieldsFor(o)
  BY <1>1 DEF FieldsFor
<1>4. OneEach' <=> OneEach
  BY <1>2, <1>3 DEF OneEach
<1>5. SectionOK' <=> SectionOK
  BY <1>1 DEF SectionOK
<1>6. \A tb : ColumnsOK(tb)' <=> ColumnsOK(tb)
  BY <1>1, <1>2 DEF ColumnsOK
<1>7. \A hid : Free(hid)' <=> Free(hid)
  BY <1>1 DEF Free
<1>8. \A rows : CryptIn(rows)' <=> CryptIn(rows)
  BY <1>1 DEF CryptIn
<1> QED
  BY <1>1, <1>2, <1>4, <1>5, <1>6, <1>7, <1>8

LEMMA SameForm ==
    ASSUME section' = section, loaded' = loaded
    PROVE  /\ \A f : Field(f)' = Field(f)
           /\ \A sh : InputsFit(sh)' <=> InputsFit(sh)
           /\ \A sh, hid : NoneBad(sh, hid)' <=> NoneBad(sh, hid)
           /\ \A tb : Showable(tb)' <=> Showable(tb)
           /\ \A sh, row, f : BadInputs(sh, row, f)' = BadInputs(sh, row, f)
           /\ \A sh, row, f : Refused(sh, row, f)' = Refused(sh, row, f)
<1>1. \A f : Field(f)' = Field(f)
  BY DEF Field
<1>2. focus' = focus /\ (OneEach' <=> OneEach)
  BY SameSection
<1>3. \A sh : InputsFit(sh)' <=> InputsFit(sh)
  BY <1>1, <1>2 DEF InputsFit
<1>4. ASSUME NEW sh, NEW row, NEW f, NEW t PROVE Allowed(sh, row, f, t)' <=> Allowed(sh, row, f, t)
  <2>1. Field(f)' = Field(f)
    BY <1>1
  <2> QED
    BY <2>1, Zenon DEF Allowed, Same
<1>5. ASSUME NEW sh, NEW row, NEW f, NEW t PROVE Refuses(sh, row, f, t)' <=> Refuses(sh, row, f, t)
  <2>1. Field(f)' = Field(f) /\ (Allowed(sh, row, f, t)' <=> Allowed(sh, row, f, t))
    BY <1>1, <1>4
  <2> QED
    BY <2>1, Zenon DEF Refuses
<1>6. ASSUME NEW sh, NEW row, NEW f
      PROVE  BadInputs(sh, row, f)' = BadInputs(sh, row, f) /\ Refused(sh, row, f)' = Refused(sh, row, f)
  <2>1. ASSUME NEW n PROVE Bad(sh, row, f, n)' <=> Bad(sh, row, f, n)
    <3>1. Field(f)' = Field(f)
      BY <1>1
    <3>2. PICK t : t = Checked(Field(f), sh[row][f][n])
      OBVIOUS
    <3>3. t = Checked(Field(f)', sh[row][f][n])
      BY <3>1, <3>2
    <3>4. Refuses(sh, row, f, t)' <=> Refuses(sh, row, f, t)
      BY <1>5
    <3> QED
      BY <3>1, <3>2, <3>3, <3>4, Zenon DEF Bad
  <2> QED
    BY <1>5, <2>1 DEF BadInputs, Refused
<1>7. \A sh, hid : NoneBad(sh, hid)' <=> NoneBad(sh, hid)
  BY <1>2, <1>6 DEF NoneBad
<1>8. \A tb : Showable(tb)' <=> Showable(tb)
  BY <1>1, <1>2 DEF Showable, AllShow
<1> QED
  BY <1>1, <1>3, <1>6, <1>7, <1>8

-----------------------------------------------------------------------------
(* Steps, and what is sent *)

LEMMA InitSent == ASSUME Init, FormInv PROVE SentInv
<1>1. FocusOK
  BY DEF FormInv
<1>2. /\ phase = "opening" /\ came = FALSE /\ late = {} /\ hidden = <<>>
      /\ router = [table |-> table, order |-> order]
  BY DEF Init
<1>3. SectionOK /\ ColumnsOK(table) /\ router.table = table
  BY <1>1, <1>2, InitSection, InitColumns
<1>4. CryptIn(late)
  BY <1>2 DEF CryptIn
<1>5. CameOK /\ TablesOK
  BY <1>2, <1>3 DEF CameOK, TablesOK
<1>6. InputsOK
  <2>1. DOMAIN hidden = {}
    BY <1>2
  <2> QED
    BY <1>2, <2>1 DEF InputsOK, Free
<1>7. Accepted /\ SentIsValid /\ NoClash /\ OnceShown
  BY <1>2 DEF Accepted, SentIsValid, NoClash, OnceShown
<1> QED
  BY <1>3, <1>4, <1>5, <1>6, <1>7 DEF SentInv

LEMMA FreeSources ==
    ASSUME NEW f, section.fields[f].needs = {}
    PROVE  SourcesIn(section.fields, f) = {}
BY DEF SourcesIn

LEMMA ValidatedFree ==
    ASSUME FocusOK, NEW inputsNow, NEW tb, NEW before, Validated(inputsNow, tb, before),
           \A row \in DOMAIN inputsNow, f \in focus : SourcesIn(section.fields, f) = {} => f \notin before[row]
    PROVE  Free(hidden')
<1> DEFINE sh == Emptied(inputsNow, tb)
<1>1. hidden' = [row \in DOMAIN sh |-> HiddenNow(sh, tb, row, before[row])]
  BY DEF Validated
<1>2. DOMAIN sh = DOMAIN inputsNow
  BY EmptiedInputs
<1> HIDE DEF sh
<1>3. ASSUME NEW row \in DOMAIN inputsNow, NEW f \in focus, SourcesIn(section.fields, f) = {}
      PROVE  f \notin HiddenNow(sh, tb, row, before[row])
  <2>1. Sources(f) = {} /\ f \notin before[row]
    BY <1>3 DEF Sources
  <2> QED
    BY <2>1 DEF HiddenNow
<1> QED
  BY <1>1, <1>2, <1>3 DEF Free

\* A form that is drawn again.
LEMMA RedrawnSent ==
    ASSUME FocusOK, SectionOK, UNCHANGED <<section, loaded, router>>,
           NEW tb, table' = tb, ColumnsOK(tb), ColumnsOK(router.table), Redraw(tb),
           CryptIn(late'), came => Showable(router.table), came /\ loaded => Showable(tb),
           ~came => late' = {} /\ tb = router.table
    PROVE  SentInv'
<1>1. /\ SectionOK' /\ CryptIn(late)' /\ ColumnsOK(table)' /\ ColumnsOK(router.table)'
      /\ (OneEach' <=> OneEach) /\ (Free(hidden)' <=> Free(hidden'))
  <2>1. PICK crypt, rt, hid : crypt = late' /\ rt = router.table' /\ hid = hidden'
    OBVIOUS
  <2>2. rt = router.table
    BY <2>1
  <2> QED
    BY <2>1, <2>2, SameSection
<1>2. phase' \in {"shown", "broken"} /\ came' = (came \/ phase' = "shown")
  BY DEF Redraw
<1>3. Free(hidden')
  <2> DEFINE drawn == Drawn(tb)
             before == [row \in DOMAIN tb |-> {}]
  <2>1. Validated(drawn, tb, before) /\ DOMAIN drawn = DOMAIN tb
    BY DrawnDomain DEF Redraw
  <2>2. \A row \in DOMAIN drawn : before[row] = {}
    BY <2>1
  <2> HIDE DEF drawn, before
  <2> QED
    BY <2>1, <2>2, ValidatedFree
<1>4. phase' = "shown" => InputsFit(shown') /\ Showable(tb)
  BY RedrawFits DEF Showable, AllShow
<1>5. came /\ loaded /\ OneEach => phase' = "shown"
  BY RedrawShows DEF Showable, AllShow
<1>6. (InputsFit(shown)' <=> InputsFit(shown')) /\ (Showable(table)' <=> Showable(tb))
      /\ (Showable(router.table)' <=> Showable(router.table))
  <2>1. PICK sh, rt : sh = shown' /\ rt = router.table' /\ rt = router.table
    OBVIOUS
  <2> QED
    BY <2>1, SameForm
<1>7. CameOK'
  BY <1>2 DEF CameOK
<1>8. TablesOK'
  BY <1>1, <1>2, <1>4, <1>6 DEF TablesOK
<1>9. InputsOK'
  BY <1>1, <1>2, <1>3, <1>4, <1>6 DEF InputsOK
<1>10. Accepted' /\ SentIsValid' /\ NoClash'
  BY <1>2 DEF Accepted, SentIsValid, NoClash
<1>11. OnceShown'
  <2>1. came' /\ phase' = "broken" => ~loaded \/ ~OneEach
    BY <1>2, <1>5
  <2> QED
    BY <1>1, <2>1 DEF OnceShown, OneEach
<1> QED
  BY <1>1, <1>7, <1>8, <1>9, <1>10, <1>11 DEF SentInv

LEMMA DrawSent == ASSUME FormInv, SentInv, Draw PROVE SentInv'
<1>1. FocusOK /\ SectionOK /\ CryptIn(late) /\ CameOK /\ TablesOK /\ phase = "loading"
  BY DEF FormInv, SentInv, Draw
<1>2. Redraw(table) /\ UNCHANGED <<section, router, table, loaded, late>>
  BY DEF Draw
<1>3. PICK tb : tb = table
  OBVIOUS
<1> QED
  BY <1>1, <1>2, <1>3, RedrawnSent DEF CameOK, TablesOK

\* Rows come and go, and the others are saved.
LEMMA SavedSent ==
    ASSUME FormInv, SentInv, Acts, NEW tb, table' = tb, SavedOrNew(tb), Redraw(tb),
           UNCHANGED <<section, router, loaded>>, late' = late \cup ToCrypt
    PROVE  SentInv'
<1>1. /\ FocusOK /\ SectionOK /\ CryptIn(late) /\ CameOK /\ TablesOK /\ InputsOK /\ phase = "shown"
      /\ DOMAIN shown = DOMAIN table
  BY DEF FormInv, SentInv, Acts, Whole, Rows
<1>2. came /\ InputsFit(shown) /\ ColumnsOK(table) /\ Showable(table)
      /\ ColumnsOK(router.table) /\ Showable(router.table)
  BY <1>1 DEF CameOK, TablesOK, InputsOK
<1>3. ColumnsOK(tb) /\ (loaded => Showable(tb))
  <2>1. ColumnsOK(tb)
    BY <1>1, <1>2, SavedColumns
  <2>2. ASSUME loaded PROVE Showable(tb)
    BY <1>1, <1>2, <2>2, SavedShowable
  <2> QED
    BY <2>1, <2>2
<1>4. CryptIn(late')
  BY <1>1, ToCryptIn DEF CryptIn
<1> QED
  BY <1>1, <1>2, <1>3, <1>4, RedrawnSent

LEMMA AddRowSent == ASSUME FormInv, SentInv, AddRow PROVE SentInv'
<1>1. Acts /\ section.addremove /\ Redraw(table') /\ UNCHANGED <<section, router, loaded>> /\ late' = late \cup ToCrypt
  BY DEF AddRow
<1>2. PICK name \in FreeName :
         \/ table' = SavedTable /\ UNCHANGED order
         \/ /\ table' = Made([row \in DOMAIN table \cup {name} |-> IF row = name THEN NewRow ELSE SavedRow(row)])
            /\ order' = Append(order, name)
  BY DEF AddRow
<1>3. PICK tb : tb = table'
  OBVIOUS
<1>4. CASE tb = SavedTable
  <2>1. SavedOrNew(tb)
    BY <1>4, SavedTableIs DEF SavedOrNew
  <2> QED
    BY <1>1, <1>3, <2>1, SavedSent
<1>5. CASE tb = Made([row \in DOMAIN table \cup {name} |-> IF row = name THEN NewRow ELSE SavedRow(row)])
  <2>1. tb = [row \in DOMAIN table \cup {name} |-> IF row = name THEN NewRow ELSE SavedRow(row)]
    BY <1>5, MadeSame
  <2>2. SavedOrNew(tb)
    BY <1>1, <2>1 DEF SavedOrNew
  <2> QED
    BY <1>1, <1>3, <2>2, SavedSent
<1> QED
  BY <1>2, <1>3, <1>4, <1>5

LEMMA RemoveRowSent == ASSUME FormInv, SentInv, NEW row \in DOMAIN table, RemoveRow(row) PROVE SentInv'
<1>1. Acts /\ Redraw(table') /\ UNCHANGED <<section, router, loaded>> /\ late' = late \cup ToCrypt
  BY DEF RemoveRow
<1>2. PICK tb : tb = table'
  OBVIOUS
<1>3. tb = [r \in DOMAIN table \ {row} |-> SavedRow(r)]
  BY <1>2, MadeSame DEF RemoveRow
<1>4. SavedOrNew(tb)
  BY <1>3 DEF SavedOrNew
<1> QED
  BY <1>1, <1>2, <1>4, SavedSent

LEMMA SortRowSent == ASSUME FormInv, SentInv, NEW i \in DOMAIN order, SortRow(i) PROVE SentInv'
<1>1. Acts /\ Redraw(table') /\ UNCHANGED <<section, router, loaded>> /\ late' = late \cup ToCrypt /\ table' = SavedTable
  BY DEF SortRow
<1>2. PICK tb : tb = table'
  OBVIOUS
<1>3. SavedOrNew(tb)
  BY <1>1, <1>2, SavedTableIs DEF SavedOrNew
<1> QED
  BY <1>1, <1>2, <1>3, SavedSent

\* A step that leaves the tables and what the router holds.
LEMMA SameTables ==
    ASSUME SentInv, UNCHANGED <<section, loaded, router, table, came, late>>,
           phase = "shown", phase' \in {"shown", "saving"},
           InputsFit(shown'), Free(hidden'), phase' = "saving" => NoneBad(shown', hidden')
    PROVE  SentInv'
<1>1. SectionOK /\ CryptIn(late) /\ CameOK /\ TablesOK
  BY DEF SentInv
<1>2. PICK sh, hid, tb, rt, crypt : sh = shown' /\ hid = hidden' /\ tb = table /\ rt = router.table /\ crypt = late
  OBVIOUS
<1>3. /\ SectionOK' /\ ColumnsOK(tb)' /\ ColumnsOK(rt)' /\ Free(hid)' /\ CryptIn(crypt)'
  BY <1>1, <1>2, SameSection DEF TablesOK
<1>4. /\ InputsFit(sh)' /\ (came => Showable(tb)' /\ Showable(rt)')
      /\ (phase' = "saving" => NoneBad(sh, hid)')
  BY <1>1, <1>2, SameForm DEF TablesOK
<1>5. CameOK' /\ came
  BY <1>1 DEF CameOK
<1>6. TablesOK' /\ InputsOK' /\ Accepted'
  BY <1>2, <1>3, <1>4, <1>5 DEF TablesOK, InputsOK, Accepted
<1>7. SentIsValid' /\ NoClash' /\ OnceShown'
  BY DEF SentIsValid, NoClash, OnceShown
<1> QED
  BY <1>2, <1>3, <1>5, <1>6, <1>7 DEF SentInv

LEMMA SendSent == ASSUME FormInv, SentInv, Send PROVE SentInv'
<1>1. /\ FocusOK /\ SectionOK /\ InputsOK /\ phase = "shown"
      /\ DOMAIN hidden = DOMAIN shown
  BY DEF FormInv, SentInv, Send, Whole, Rows
<1>2. /\ Validated(shown, table, hidden) /\ phase' = (IF Visible' THEN "shown" ELSE "saving")
      /\ UNCHANGED <<section, loaded, router, table, came, late>>
  BY DEF Send
<1>3. shown' = Emptied(shown, table) /\ wrong' = [row \in DOMAIN shown' |-> WrongFields(shown', row)]
  BY <1>2 DEF Validated
<1>4. InputsFit(shown')
  BY <1>1, <1>3, EmptiedFits DEF InputsOK
<1>5. Free(hidden')
  BY <1>1, <1>2, ValidatedFree DEF InputsOK, Free
<1>6. ASSUME phase' = "saving" PROVE NoneBad(shown', hidden')
  <2>1. \A row \in DOMAIN shown' : wrong'[row] \ hidden'[row] = {}
    BY <1>2, <1>6 DEF Visible
  <2>2. \A row \in DOMAIN shown' : wrong'[row] = WrongFields(shown', row)
    BY <1>3
  <2> QED
    BY <2>1, <2>2 DEF NoneBad, WrongFields
<1> QED
  BY <1>1, <1>2, <1>4, <1>5, <1>6, SameTables

LEMMA EditSent == ASSUME FormInv, SentInv, NEW row \in DOMAIN table, NEW f \in focus, Edit(row, f) PROVE SentInv'
<1>1. /\ FocusOK /\ SectionOK /\ InputsOK /\ Whole /\ phase = "shown" /\ phase' = "shown"
      /\ UNCHANGED <<section, loaded, router, table, came, late>>
  BY DEF FormInv, SentInv, Edit, Acts
<1>2. PICK new \in Entries(Field(f), shown[row][f]) \ {shown[row][f]} :
        LET sh    == [shown EXCEPT ![row][f] = new]
            n     == IF Field(f).kind = "dynamic" THEN CHOOSE i \in DOMAIN new : new[i] # shown[row][f][i] ELSE 1
            bad   == Refuses(sh, row, f, new[n])
            mk    == IF bad THEN marks[row][f] \cup {n} ELSE marks[row][f] \ {n}
            again == IF HasEvents(Field(f)) /\ mk = {} THEN Reached(sh, row, f) ELSE {}
            sh2   == IF "password" \in again THEN Emptied(sh, table) ELSE sh
        IN  /\ shown' = sh2
            /\ hidden' = [hidden EXCEPT ![row] =
                            (@ \ again) \cup {g \in again : ~Met(sh2, table, row, g)}]
  BY Zenon DEF Edit
<1> DEFINE sh    == [shown EXCEPT ![row][f] = new]
           n     == IF Field(f).kind = "dynamic" THEN CHOOSE i \in DOMAIN new : new[i] # shown[row][f][i] ELSE 1
           bad   == Refuses(sh, row, f, new[n])
           mk    == IF bad THEN marks[row][f] \cup {n} ELSE marks[row][f] \ {n}
           again == IF HasEvents(Field(f)) /\ mk = {} THEN Reached(sh, row, f) ELSE {}
           sh2   == IF "password" \in again THEN Emptied(sh, table) ELSE sh
<1>3. /\ shown' = sh2
      /\ hidden' = [hidden EXCEPT ![row] = (@ \ again) \cup {g \in again : ~Met(sh2, table, row, g)}]
  BY <1>2, Zenon
<1>4. InputsFit(shown) /\ Free(hidden) /\ row \in DOMAIN shown /\ DOMAIN shown[row] = focus /\ DOMAIN hidden = DOMAIN shown
  BY <1>1 DEF InputsOK, Whole, Rows
<1>5. DOMAIN sh = DOMAIN shown /\ \A r \in DOMAIN shown, g \in focus :
         sh[r][g] = IF r = row /\ g = f THEN new ELSE shown[r][g]
  BY <1>4
<1> HIDE DEF sh
<1>6. Entered(Field(f), new)
  BY <1>2, <1>4, EntriesFit DEF InputsFit
<1>7. InputsFit(sh)
  BY <1>4, <1>5, <1>6 DEF InputsFit
<1>8. InputsFit(shown')
  <2>1. shown' = sh \/ shown' = Emptied(sh, table)
    BY <1>3
  <2> QED
    BY <1>1, <1>7, <2>1, EmptiedFits
<1>9. \A g \in again : Sources(g) # {}
  BY DEF Reached
<1> HIDE DEF again, sh2
<1>10. \A g \in focus : SourcesIn(section.fields, g) = {} => g \notin again
  BY <1>9 DEF Sources
<1>11. Free(hidden')
  <2>1. DOMAIN hidden' = DOMAIN hidden /\ \A r \in DOMAIN hidden : \A g : g \in hidden'[r] => g \in hidden[r] \/ g \in again
    BY <1>3, <1>4
  <2> QED
    BY <1>4, <1>10, <2>1 DEF Free
<1> QED
  BY <1>1, <1>8, <1>11, SameTables

\* Entries of a list that come and go.
LEMMA InsertSeq ==
    ASSUME NEW ts, IsSeq(ts), NEW n \in 2 .. Len(ts) + 1, NEW t
    PROVE  IsSeq(InsertAt(ts, n, t))
<1> DEFINE S == InSeq(ts) \cup {t}
<1>1. ts \in Seq(S)
  <2>1. ts \in Seq(InSeq(ts))
    BY DEF IsSeq
  <2> QED
    BY <2>1
<1>2. Len(ts) \in Nat
  BY <1>1
<1> HIDE DEF S
<1>3. t \in S
  BY DEF S
<1>4. SubSeq(ts, 1, n - 1) \in Seq(S) /\ SubSeq(ts, n, Len(ts)) \in Seq(S) /\ <<t>> \in Seq(S)
  BY <1>1, <1>2, <1>3
<1>5. InsertAt(ts, n, t) \in Seq(S)
  BY <1>4 DEF InsertAt
<1> QED
  BY <1>5, SeqIs

LEMMA RemoveSeq ==
    ASSUME NEW ts, IsSeq(ts), NEW n \in DOMAIN ts
    PROVE  IsSeq(RemoveAt(ts, n))
<1> DEFINE S == InSeq(ts)
<1>1. ts \in Seq(S) /\ Len(ts) \in Nat /\ n \in 1 .. Len(ts)
  BY SeqIs DEF IsSeq
<1> HIDE DEF S
<1>2. SubSeq(ts, 1, n - 1) \in Seq(S) /\ SubSeq(ts, n + 1, Len(ts)) \in Seq(S)
  BY <1>1
<1>3. RemoveAt(ts, n) \in Seq(S)
  BY <1>2 DEF RemoveAt
<1> QED
  BY <1>3, SeqIs

LEMMA BlankSeq == IsSeq(<<"">>)
<1>1. <<"">> \in Seq({""})
  OBVIOUS
<1> QED
  BY <1>1, SeqIs

LEMMA EntrySent == ASSUME FormInv, SentInv, NEW row \in DOMAIN table, NEW f \in focus, Entry(row, f) PROVE SentInv'
<1>1. /\ FocusOK /\ SectionOK /\ InputsOK /\ Whole /\ phase = "shown" /\ phase' = "shown"
      /\ UNCHANGED <<section, loaded, router, table, came, late, hidden>> /\ Field(f).kind = "dynamic"
  BY DEF FormInv, SentInv, Entry, Acts
<1> DEFINE now  == shown[row][f]
           more == {InsertAt(now, n, "") : n \in 2 .. Len(now) + 1}
           less == {RemoveAt(now, n) : n \in {i \in DOMAIN now : i < Len(now) \/ now[i] = ""}}
           OrBlank(new) == IF new = <<>> THEN <<"">> ELSE new
<1>2. PICK new \in more \cup less : shown' = [shown EXCEPT ![row][f] = OrBlank(new)]
  BY Zenon DEF Entry
<1>3. InputsFit(shown) /\ Free(hidden) /\ row \in DOMAIN shown /\ DOMAIN shown[row] = focus
  BY <1>1 DEF InputsOK, Whole, Rows
<1>4. Field(f).own \in Plain => IsSeq(now)
  BY <1>1, <1>3 DEF InputsFit, Entered
<1>5. ASSUME Field(f).own \in Plain PROVE IsSeq(new)
  <2>1. CASE new \in more
    BY <1>4, <1>5, <2>1, InsertSeq
  <2>2. CASE new \in less
    BY <1>4, <1>5, <2>2, RemoveSeq
  <2> QED
    BY <2>1, <2>2
<1>6. IsSeq(<<"">>)
  BY BlankSeq
<1>7. Entered(Field(f), OrBlank(new))
  BY <1>1, <1>5, <1>6 DEF Entered, Single
<1> HIDE DEF now, more, less, OrBlank
<1>8. DOMAIN shown' = DOMAIN shown /\ \A r \in DOMAIN shown, g \in focus :
         shown'[r][g] = IF r = row /\ g = f THEN OrBlank(new) ELSE shown[r][g]
  BY <1>2, <1>3
<1>9. InputsFit(shown')
  BY <1>3, <1>7, <1>8 DEF InputsFit
<1> QED
  BY <1>1, <1>3, <1>9, SameTables

-----------------------------------------------------------------------------
(* Fields that are compared between rows *)

LEMMA ClashSays ==
    ASSUME FocusOK, SectionOK, NEW f \in focus
    PROVE  LET def == Field(f) IN
           /\ def.rule \in {"unique", "all unique", "untagged once"} => section.fields[f].needs = {}
           /\ def.rule \in {"unique", "all unique"} =>
                 /\ def.kind = "input" /\ ~def.optional
                 /\ \A g \in focus : def.option \in Writes(Field(g)) <=> g = f
           /\ def.rule = "unique" => def.own = "" /\ def.initial = Undefined
           /\ def.rule = "all unique" =>
                 /\ def.own = "vid" /\ def.option = "vid" /\ def.datatype \subseteq float
                 /\ "vlan" \in Options /\ \A g \in focus : "vlan" \notin Writes(Field(g))
           /\ def.rule = "untagged once" =>
                 /\ def.kind = "list" /\ def.option = "ports" /\ f \in {"0", "1"} /\ {"0", "1"} \subseteq focus
                 /\ def.disabled \notin {Field("0").enabled, Field("1").enabled}
                 /\ Field("0").disabled # Field("1").disabled
                 /\ \E g \in focus : "ports" \in Writes(Field(g))
                 /\ \A g \in focus : "ports" \in Writes(Field(g)) => Field(g).own = "vid" /\ Field(g).option # "ports"
<1> DEFINE fields == section.fields
           made == fields[f]
           def == Field(f)
           Writers(o) == {g \in focus : o \in Writes(fields[g])}
<1>1. \A g \in focus : Says(Field(g), fields[g]) /\ Writes(Field(g)) = Writes(fields[g])
  BY FieldIs, WritesIs
<1>2. \A o : Writers(o) = {g \in focus : o \in Writes(Field(g))}
  BY <1>1
<1>3. /\ made.rule \in {"unique", "all unique", "untagged once"} => made.needs = {}
      /\ made.rule \in {"unique", "all unique"} =>
            made.kind = "input" /\ ~made.optional /\ Writers(made.option) = {f}
      /\ made.rule = "unique" => made.own = "" /\ made.initial = Undefined
      /\ made.rule = "all unique" =>
            /\ made.own = "vid" /\ made.option = "vid" /\ made.datatype \subseteq float
            /\ Writers("vlan") = {} /\ "vlan" \in DOMAIN section.preset
      /\ made.rule = "untagged once" =>
            /\ made.kind = "list" /\ made.option = "ports" /\ f \in {"0", "1"} /\ {"0", "1"} \subseteq focus
            /\ made.disabled \notin {fields["0"].enabled, fields["1"].enabled}
            /\ fields["0"].disabled # fields["1"].disabled
            /\ Writers("ports") # {} /\ \A g \in Writers("ports") : fields[g].own = "vid" /\ fields[g].option # "ports"
  <2>1. ClashSound(section)
    BY DEF SectionOK
  <2> QED
    BY <2>1, Zenon DEF ClashSound, focus
<1>4. Says(def, made)
  BY <1>1
<1> HIDE DEF made, def
<1>5. def.rule = made.rule /\ def.kind = made.kind /\ def.optional = made.optional /\ def.option = made.option
      /\ def.own = made.own /\ def.initial = made.initial /\ def.datatype = made.datatype /\ def.disabled = made.disabled
  BY <1>4 DEF Says
<1>6. def.rule \in {"unique", "all unique"} => \A g \in focus : def.option \in Writes(Field(g)) <=> g = f
  <2> SUFFICES ASSUME def.rule \in {"unique", "all unique"}, NEW g \in focus
               PROVE  def.option \in Writes(Field(g)) <=> g = f
    OBVIOUS
  <2>1. Writers(def.option) = {f}
    BY <1>3, <1>5
  <2>2. g \in Writers(def.option) <=> def.option \in Writes(Field(g))
    BY <1>2
  <2> QED
    BY <2>1, <2>2
<1>7. def.rule = "all unique" => "vlan" \in Options /\ \A g \in focus : "vlan" \notin Writes(Field(g))
  BY <1>2, <1>3, <1>5 DEF Options
<1>8. ASSUME def.rule = "untagged once"
      PROVE  /\ f \in {"0", "1"} /\ {"0", "1"} \subseteq focus
             /\ def.disabled \notin {Field("0").enabled, Field("1").enabled}
             /\ Field("0").disabled # Field("1").disabled
             /\ \E g \in focus : "ports" \in Writes(Field(g))
             /\ \A g \in focus : "ports" \in Writes(Field(g)) => Field(g).own = "vid" /\ Field(g).option # "ports"
  <2>1. /\ f \in {"0", "1"} /\ {"0", "1"} \subseteq focus
        /\ made.disabled \notin {fields["0"].enabled, fields["1"].enabled}
        /\ fields["0"].disabled # fields["1"].disabled
        /\ Writers("ports") # {} /\ \A g \in Writers("ports") : fields[g].own = "vid" /\ fields[g].option # "ports"
    BY <1>3, <1>5, <1>8
  <2>2. \A p \in {"0", "1"} : Field(p).enabled = fields[p].enabled /\ Field(p).disabled = fields[p].disabled
    BY <1>1, <2>1 DEF Says
  <2>3. ASSUME NEW g \in focus, "ports" \in Writes(Field(g)) PROVE Field(g).own = "vid" /\ Field(g).option # "ports"
    <3>1. g \in Writers("ports")
      BY <1>1, <2>3
    <3> QED
      BY <1>1, <2>1, <3>1 DEF Says
  <2>4. \E g \in focus : "ports" \in Writes(Field(g))
    BY <1>2, <2>1
  <2> QED
    BY <1>5, <2>1, <2>2, <2>3, <2>4
<1>9. def.rule \in {"unique", "all unique", "untagged once"} => fields[f].needs = {}
  BY <1>3, <1>5 DEF made
<1> HIDE DEF fields, Writers
<1> QED
  BY <1>3, <1>5, <1>6, <1>7, <1>8, <1>9 DEF def, fields

LEMMA OneOf ==
    ASSUME NEW t
    PROVE  DOMAIN <<t>> = {1} /\ <<t>>[1] = t /\ <<t>> # <<>> /\ InSeq(<<t>>) = {t} /\ \A u : <<t>> = <<u>> => t = u
<1>1. DOMAIN <<t>> = {1} /\ <<t>>[1] = t
  OBVIOUS
<1>2. InSeq(<<t>>) = {t}
  BY <1>1 DEF InSeq
<1>3. <<t>> # <<>>
  OBVIOUS
<1>4. ASSUME NEW u, <<t>> = <<u>> PROVE t = u
  <2>1. <<u>>[1] = u
    OBVIOUS
  <2> QED
    BY <1>1, <1>4, <2>1
<1> QED
  BY <1>1, <1>2, <1>3, <1>4

\* A form whose unhidden inputs are all accepted.
SeenGood ==
    /\ FocusOK /\ SectionOK /\ InputsFit(shown) /\ Free(hidden) /\ NoneBad(shown, hidden)
    /\ DOMAIN hidden = DOMAIN shown /\ DOMAIN shown = DOMAIN table /\ IsFiniteSet(DOMAIN shown)
    /\ ColumnsOK(table)

LEMMA NeverBad ==
    ASSUME SeenGood, NEW f \in focus, Field(f).rule \in {"unique", "all unique", "untagged once"},
           NEW row \in DOMAIN shown
    PROVE  \E t : shown[row][f] = <<t>> /\ ~Bad(shown, row, f, 1)
<1>1. section.fields[f].needs = {} /\ Field(f).kind \in Single
  BY ClashSays DEF SeenGood, Single
<1>2. PICK t : shown[row][f] = <<t>>
  BY <1>1 DEF SeenGood, InputsFit, Entered
<1>3. f \notin hidden[row]
  BY <1>1, FreeSources DEF SeenGood, Free
<1>4. BadInputs(shown, row, f) = {}
  BY <1>3 DEF SeenGood, NoneBad
<1>5. 1 \in DOMAIN shown[row][f]
  BY <1>2, OneOf
<1>6. ~Bad(shown, row, f, 1)
  BY <1>4, <1>5 DEF BadInputs
<1> QED
  BY <1>2, <1>6

LEMMA NotUnderTwo ==
    ASSUME NEW n \in Nat, n > 1
    PROVE  ~(n < 2)
OBVIOUS

\* The texts of such a field are there, and are different in every row.
LEMMA TextsDiffer ==
    ASSUME SeenGood, NEW f \in focus, Field(f).rule \in {"unique", "all unique"},
           NEW r \in DOMAIN shown, NEW s \in DOMAIN shown, r # s
    PROVE  \E t \in Field(f).datatype, u \in Field(f).datatype :
              t # u /\ t # "" /\ u # "" /\ shown[r][f] = <<t>> /\ shown[s][f] = <<u>>
<1> DEFINE def == Field(f)
<1>1. def.kind \in Validating /\ def.kind # "combo" /\ ~def.optional
  BY ClashSays DEF SeenGood, Validating
<1>2. PICK t : shown[r][f] = <<t>> /\ ~Bad(shown, r, f, 1)
  BY NeverBad
<1>3. PICK u : shown[s][f] = <<u>> /\ ~Bad(shown, s, f, 1)
  BY NeverBad
<1>4. shown[r][f][1] = t /\ shown[s][f][1] = u
  BY <1>2, <1>3, OneOf
<1>5. t # "" /\ t \in def.datatype /\ Allowed(shown, r, f, t)
  <2>1. ~Refuses(shown, r, f, t)
    BY <1>1, <1>2, <1>4, CheckedIs DEF Bad
  <2> QED
    BY <1>1, <2>1 DEF Refuses
<1>6. u # "" /\ u \in def.datatype
  <2>1. ~Refuses(shown, s, f, u)
    BY <1>1, <1>3, <1>4, CheckedIs DEF Bad
  <2> QED
    BY <1>1, <2>1 DEF Refuses
<1>7. ASSUME t = u PROVE FALSE
  <2>1. r \in Same(shown, f, t) /\ s \in Same(shown, f, t)
    BY <1>2, <1>3, <1>7 DEF Same
  <2>2. CASE def.rule = "unique"
    <3>1. Cardinality(Same(shown, f, t)) < 2
      BY <1>5, <2>2 DEF Allowed
    <3>2. IsFiniteSet(Same(shown, f, t))
      <4>1. Same(shown, f, t) \subseteq DOMAIN shown
        BY DEF Same
      <4> QED
        BY <4>1, FS_Subset DEF SeenGood
    <3>3. Cardinality(Same(shown, f, t)) \in Nat /\ Cardinality(Same(shown, f, t)) > 1
      BY <2>1, <3>2, TwoInSet
    <3> QED
      BY <3>1, <3>3, NotUnderTwo
  <2>3. CASE def.rule = "all unique"
    <3>1. \A row \in DOMAIN shown : shown[row][f] # <<"">> => Same(shown, f, shown[row][f][1]) = {row}
      BY <1>5, <2>3 DEF Allowed
    <3>2. shown[r][f] # <<"">>
      BY <1>2, <1>5, OneOf
    <3>3. Same(shown, f, t) = {r}
      BY <1>4, <3>1, <3>2
    <3> QED
      BY <2>1, <3>3
  <2> QED
    BY <2>2, <2>3
<1> QED
  BY <1>2, <1>3, <1>5, <1>6, <1>7

\* All that write an option put the same there.
AllPut(row, o, put) ==
    /\ \E g \in focus : o \in Writes(Field(g))
    /\ \A g \in focus : o \in Writes(Field(g)) => Puts(row, g)[o] = put

LEMMA SavedIsPut ==
    ASSUME SeenGood, NEW row \in DOMAIN table, NEW o \in Options, NEW put, AllPut(row, o, put)
    PROVE  SavedRow(row)[o] = put
<1>1. o \in DOMAIN table[row]
  BY DEF SeenGood, ColumnsOK
<1>2. Kept(row, o) \/ \E g \in focus : WrittenBy(row, o, g)
  BY <1>1, SavedRowIs
<1>3. CASE Kept(row, o)
  BY <1>3 DEF Kept, AllPut
<1>4. ASSUME NEW g \in focus, WrittenBy(row, o, g) PROVE SavedRow(row)[o] = put
  BY <1>4 DEF WrittenBy, AllPut
<1> QED
  BY <1>2, <1>3, <1>4

LEMMA SavedStays ==
    ASSUME SeenGood, NEW row \in DOMAIN table, NEW o \in Options, \A g \in focus : o \notin Writes(Field(g))
    PROVE  SavedRow(row)[o] = table[row][o]
<1>1. o \in DOMAIN table[row]
  BY DEF SeenGood, ColumnsOK
<1>2. Kept(row, o) \/ \E g \in focus : WrittenBy(row, o, g)
  BY <1>1, SavedRowIs
<1> QED
  BY <1>2 DEF Kept, WrittenBy

\* The number of a VLAN, in the option that is written for it.
LEMMA VidUci ==
    ASSUME NEW def, NEW opts, def.own = "vid", def.option = "vid"
    PROVE  Uci(def, opts) = IF opts["vid"].v # <<>> /\ opts["vid"].v[1] \in float
                            THEN Str(opts["vid"].v[1]) ELSE opts["vlan"]
<1>1. Uci(def, opts) = OwnUci(def, opts)
  BY DEF Uci, UciOwners
<1> QED
  BY <1>1, Zenon DEF OwnUci

LEMMA VidSame ==
    ASSUME NEW def, NEW opts, NEW more, def.own = "vid", def.option = "vid",
           opts["vid"] = more["vid"], opts["vlan"] = more["vlan"]
    PROVE  Uci(def, opts) = Uci(def, more)
<1>1. Uci(def, opts) = OwnUci(def, opts) /\ Uci(def, more) = OwnUci(def, more)
  BY DEF Uci, UciOwners
<1> QED
  BY <1>1, Zenon DEF OwnUci

\* What a compared field is read as when it is saved.
LEMMA ReadsAsEntered ==
    ASSUME SeenGood, NEW f \in focus, Field(f).rule \in {"unique", "all unique"}, NEW row \in DOMAIN table,
           NEW t \in Field(f).datatype, t # "", shown[row][f] = <<t>>,
           NEW opts, \A o \in {Field(f).option, "vlan"} : opts[o] = SavedRow(row)[o]
    PROVE  Uci(Field(f), opts).v = <<t>>
<1> DEFINE def == Field(f)
           o == def.option
           held == table[row][o]
           val == FormVal(def, table[row], <<t>>)
           kept == Saved(def, table[row], <<t>>, f \in hidden[row])
<1>1. FocusOK /\ SectionOK /\ o \in Options
  <2>1. FocusOK /\ SectionOK
    BY DEF SeenGood
  <2>2. section.fields[f].option = o
    BY <2>1, FieldIs DEF Says
  <2> QED
    BY <2>1, <2>2 DEF Options
<1>2. /\ section.fields[f].needs = {} /\ def.kind = "input"
      /\ \A g \in focus : o \in Writes(Field(g)) <=> g = f
      /\ def.rule = "unique" => def.own = "" /\ def.initial = Undefined
      /\ def.rule = "all unique" =>
            /\ def.own = "vid" /\ o = "vid" /\ def.datatype \subseteq float
            /\ "vlan" \in Options /\ \A g \in focus : "vlan" \notin Writes(Field(g))
  BY <1>1, ClashSays
<1>3. f \notin hidden[row]
  BY <1>2, FreeSources DEF SeenGood, Free
<1>4. val = Str(t) /\ Str(t).v = <<t>> /\ Stored(Str(t)) = Str(t) /\ Str(t) # Undefined
  <2>1. def.kind \in Single
    BY <1>2 DEF Single
  <2>2. val = Text(t)
    BY <2>1, FormValIs
  <2>3. Str(t).v = <<t>> /\ <<t>> # <<>> /\ <<t>> # <<"">>
    BY OneOf DEF Str
  <2>4. Str(t) # Undefined
    BY DEF Str, Undefined
  <2> QED
    BY <2>2, <2>3, <2>4 DEF Text, Stored
<1>5. kept = IF ~Changed(Uci(def, table[row]), Str(t)) THEN held ELSE Str(t)
  <2>1. def.kind # "checkbox"
    BY <1>2
  <2> HIDE DEF val
  <2> QED
    BY <1>3, <1>4, <2>1 DEF Saved, val
<1>6. Puts(row, f)[o] = kept
  <2>1. CASE def.rule = "unique"
    <3>1. def.own \in Plain /\ def.kind \in Validating
      BY <1>2, <2>1 DEF Plain, Validating
    <3> QED
      BY <1>1, <3>1, PlainPut
  <2>2. CASE def.rule = "all unique"
    <3>1. o \in Writes(def) /\ def.own = "vid" /\ o # "ports"
      BY <1>2, <2>2
    <3> HIDE DEF o, def
    <3>2. Puts(row, f)[o] = Saved(def, table[row], shown[row][f], f \in hidden[row])
      BY <3>1 DEF Puts, def, o
    <3> QED
      BY <3>2
  <2> QED
    BY <2>1, <2>2
<1>7. opts[o] = kept
  <2>1. SavedRow(row)[o] = kept
    <3>1. \E g \in focus : o \in Writes(Field(g))
      BY <1>2
    <3>2. \A g \in focus : o \in Writes(Field(g)) => Puts(row, g)[o] = kept
      BY <1>2, <1>6
    <3> HIDE DEF kept, o
    <3>3. AllPut(row, o, kept)
      BY <3>1, <3>2 DEF AllPut
    <3> QED
      BY <1>1, <3>3, SavedIsPut
  <2> QED
    BY <2>1
<1> HIDE DEF kept
<1>8. ~Changed(Uci(def, table[row]), Str(t)) => Uci(def, table[row]).v = <<t>>
  BY <1>4 DEF Changed
<1>9. CASE def.rule = "unique"
  <2>1. \A row1 : Uci(def, row1) = Base(def, row1)
    <3>1. def.own \in Plain /\ def.kind \in Single
      BY <1>2, <1>9 DEF Plain, Single
    <3> QED
      BY <3>1, PlainUci
  <2>2. CASE Changed(Uci(def, table[row]), Str(t))
    <3>1. opts[o] = Str(t)
      BY <1>5, <1>7, <2>2
    <3> QED
      BY <1>4, <2>1, <3>1 DEF Base
  <2>3. CASE ~Changed(Uci(def, table[row]), Str(t))
    <3>1. opts[o] = held
      BY <1>5, <1>7, <2>3
    <3>2. Base(def, opts) = Base(def, table[row])
      BY <3>1 DEF Base
    <3> QED
      BY <1>8, <2>1, <2>3, <3>2
  <2> QED
    BY <2>2, <2>3
<1>10. CASE def.rule = "all unique"
  <2>1. /\ def.own = "vid" /\ o = "vid" /\ t \in float
        /\ "vlan" \in Options /\ \A g \in focus : "vlan" \notin Writes(Field(g))
    BY <1>2, <1>10
  <2>2. CASE Changed(Uci(def, table[row]), Str(t))
    <3>1. opts["vid"] = Str(t)
      BY <1>5, <1>7, <2>1, <2>2
    <3>2. opts["vid"].v # <<>> /\ opts["vid"].v[1] = t
      BY <1>4, <3>1, OneOf
    <3>3. Uci(def, opts) = Str(t)
      BY <2>1, <3>2, VidUci
    <3> QED
      BY <1>4, <3>3
  <2>3. CASE ~Changed(Uci(def, table[row]), Str(t))
    <3>1. opts["vid"] = table[row]["vid"]
      BY <1>5, <1>7, <2>1, <2>3
    <3>2. opts["vlan"] = table[row]["vlan"]
      BY <2>1, SavedStays
    <3>3. Uci(def, opts) = Uci(def, table[row])
      BY <2>1, <3>1, <3>2, VidSame
    <3> QED
      BY <1>8, <2>3, <3>3
  <2> QED
    BY <2>2, <2>3
<1> QED
  BY <1>9, <1>10

LEMMA JoinedHolds ==
    ASSUME NEW S, NEW a \in Seq(S), NEW b \in Seq(S), NEW x \in InSeq(a \o b)
    PROVE  x \in InSeq(a) \cup InSeq(b)
<1>1. PICK i \in DOMAIN (a \o b) : (a \o b)[i] = x
  BY DEF InSeq
<1>2. DOMAIN a = 1 .. Len(a) /\ DOMAIN b = 1 .. Len(b) /\ Len(a) \in Nat /\ Len(b) \in Nat
  OBVIOUS
<1>3. i \in 1 .. Len(a) + Len(b)
  BY <1>1, <1>2
<1>4. CASE i <= Len(a)
  <2>1. a[i] = x /\ i \in DOMAIN a
    BY <1>1, <1>2, <1>3, <1>4
  <2> QED
    BY <2>1 DEF InSeq
<1>5. CASE i > Len(a)
  <2>1. b[i - Len(a)] = x /\ i - Len(a) \in DOMAIN b
    BY <1>1, <1>2, <1>3, <1>5
  <2> QED
    BY <2>1 DEF InSeq
<1> QED
  BY <1>2, <1>3, <1>4, <1>5

LEMMA OneSeq ==
    ASSUME NEW S, NEW t \in S
    PROVE  <<t>> \in Seq(S)
OBVIOUS

LEMMA NoneSeq ==
    ASSUME NEW S
    PROVE  <<>> \in Seq(S) /\ InSeq(<<>>) = {}
<1>1. <<>> \in Seq(S)
  OBVIOUS
<1>2. DOMAIN <<>> = {}
  OBVIOUS
<1> QED
  BY <1>1, <1>2 DEF InSeq

\* Texts that are written as one value, or not at all.
LEMMA TextsOf ==
    ASSUME NEW ts, NEW x \in InSeq((IF ts = <<>> THEN Undefined ELSE [is |-> "string", v |-> ts]).v)
    PROVE  x \in InSeq(ts)
<1>1. CASE ts = <<>>
  <2>1. (IF ts = <<>> THEN Undefined ELSE [is |-> "string", v |-> ts]).v = <<>>
    BY <1>1 DEF Undefined
  <2> QED
    BY <1>1, <2>1
<1>2. CASE ts # <<>>
  <2>1. (IF ts = <<>> THEN Undefined ELSE [is |-> "string", v |-> ts]).v = ts
    BY <1>2
  <2> QED
    BY <2>1
<1> QED
  BY <1>1, <1>2

\* What the number of a VLAN writes for its ports.
LEMMA SavedPorts ==
    ASSUME SeenGood, NEW f \in focus, Field(f).rule = "untagged once", NEW row \in DOMAIN table
    PROVE  SavedRow(row)["ports"] = Ports(row)
<1>1. FocusOK /\ SectionOK
  BY DEF SeenGood
<1>2. /\ Field(f).option = "ports"
      /\ \E g \in focus : "ports" \in Writes(Field(g))
      /\ \A g \in focus : "ports" \in Writes(Field(g)) => Field(g).own = "vid" /\ Field(g).option # "ports"
  BY <1>1, ClashSays
<1>3. "ports" \in Options
  <2>1. section.fields[f].option = "ports"
    BY <1>1, <1>2, FieldIs DEF Says
  <2> QED
    BY <2>1 DEF Options
<1>4. ASSUME NEW g \in focus, "ports" \in Writes(Field(g)) PROVE Puts(row, g)["ports"] = Ports(row)
  <2>1. Field(g).own = "vid"
    BY <1>2, <1>4
  <2> QED
    BY <1>4, <2>1 DEF Puts
<1>5. AllPut(row, "ports", Ports(row))
  BY <1>2, <1>4 DEF AllPut
<1> QED
  BY <1>3, <1>5, SavedIsPut

LEMMA PortsDiffer ==
    ASSUME SeenGood, NEW f \in focus, Field(f).rule = "untagged once", NEW row \in DOMAIN table,
           Field(f).disabled \in InSeq(SavedRow(row)["ports"].v)
    PROVE  shown[row][f] = <<"u">>
<1> DEFINE Port(p) == CASE shown[row][p] = <<"t">> -> <<Field(p).enabled>>
                        [] shown[row][p] = <<"u">> -> <<Field(p).disabled>>
                        [] OTHER -> <<>>
           joined == Port("0") \o Port("1")
           S == {Field("0").enabled, Field("1").enabled, Field("0").disabled, Field("1").disabled}
           x == Field(f).disabled
<1>1. /\ f \in {"0", "1"} /\ x \notin {Field("0").enabled, Field("1").enabled}
      /\ Field("0").disabled # Field("1").disabled
  BY ClashSays DEF SeenGood
<1>2. <<"t">> # <<"u">>
  BY OneOf
<1>3. ASSUME NEW p \in {"0", "1"}
      PROVE  /\ Port(p) \in Seq(S)
             /\ x \in InSeq(Port(p)) => p = f /\ shown[row][f] = <<"u">>
  <2>1. CASE shown[row][p] = <<"t">>
    <3>1. Port(p) = <<Field(p).enabled>>
      BY <1>2, <2>1
    <3>2. InSeq(Port(p)) = {Field(p).enabled}
      BY <3>1, OneOf
    <3>3. Field(p).enabled # x /\ Field(p).enabled \in S
      BY <1>1
    <3>4. <<Field(p).enabled>> \in Seq(S)
      BY <3>3, OneSeq
    <3> QED
      BY <3>1, <3>2, <3>3, <3>4
  <2>2. CASE shown[row][p] = <<"u">>
    <3>1. Port(p) = <<Field(p).disabled>>
      BY <1>2, <2>2
    <3>2. InSeq(Port(p)) = {Field(p).disabled}
      BY <3>1, OneOf
    <3>3. Field(p).disabled \in S
      OBVIOUS
    <3>4. <<Field(p).disabled>> \in Seq(S)
      BY <3>3, OneSeq
    <3>5. x = Field(p).disabled => p = f
      BY <1>1
    <3> HIDE DEF Port, S, x
    <3> QED
      BY <2>2, <3>1, <3>2, <3>4, <3>5
  <2>3. CASE shown[row][p] # <<"t">> /\ shown[row][p] # <<"u">>
    <3>1. Port(p) = <<>>
      BY <2>3
    <3>2. InSeq(<<>>) = {} /\ <<>> \in Seq(S)
      BY NoneSeq
    <3> HIDE DEF Port, S, x
    <3> QED
      BY <3>1, <3>2
  <2> QED
    BY <2>1, <2>2, <2>3
<1> HIDE DEF Port, S
<1>4. Ports(row) = IF joined = <<>> THEN Undefined ELSE [is |-> "string", v |-> joined]
  BY DEF Ports, Port
<1>5. x \in InSeq(Ports(row).v)
  BY SavedPorts
<1> HIDE DEF joined
<1>6. x \in InSeq(joined)
  BY <1>4, <1>5, TextsOf
<1>7. Port("0") \in Seq(S) /\ Port("1") \in Seq(S)
  BY <1>3
<1>8. x \in InSeq(Port("0")) \cup InSeq(Port("1"))
  BY <1>6, <1>7, JoinedHolds DEF joined
<1> HIDE DEF x
<1> QED
  BY <1>3, <1>8

\* A port is untagged in one of the rows at most.
LEMMA UntaggedOnce ==
    ASSUME SeenGood, NEW f \in focus, Field(f).rule = "untagged once", NEW r \in DOMAIN table, NEW s \in DOMAIN table,
           r # s, shown[r][f] = <<"u">>, shown[s][f] = <<"u">>
    PROVE  FALSE
<1> DEFINE both == Same(shown, f, "u")
<1>1. r \in both /\ s \in both
  BY DEF Same, SeenGood
<1>2. IsFiniteSet(both)
  <2>1. both \subseteq DOMAIN shown
    BY DEF Same
  <2> QED
    BY <2>1, FS_Subset DEF SeenGood
<1>3. Cardinality(both) \in Nat /\ Cardinality(both) > 1
  BY <1>1, <1>2, TwoInSet
<1>4. ~Bad(shown, r, f, 1) /\ shown[r][f][1] = "u"
  BY NeverBad, OneOf DEF SeenGood
<1>5. Field(f).kind \in Validating /\ Field(f).kind # "combo"
  BY ClashSays DEF SeenGood, Validating
<1>6. Allowed(shown, r, f, "u")
  <2>1. ~Refuses(shown, r, f, "u")
    BY <1>4, <1>5, CheckedIs DEF Bad
  <2> QED
    BY <1>5, <2>1 DEF Refuses
<1> HIDE DEF both
<1>7. Cardinality(both) < 2
  BY <1>6 DEF Allowed, both
<1> QED
  BY <1>3, <1>7, NotUnderTwo

LEMMA ListsFinite ==
    ASSUME NEW rows, NEW names, Lists(names, rows)
    PROVE  IsFiniteSet(rows)
<1> DEFINE n == Len(names)
<1>1. n \in Nat /\ names \in [1 .. n -> rows] /\ DOMAIN names = 1 .. n
  BY DEF Lists
<1>2. \A r \in rows : \E i \in 1 .. n : names[i] = r
  BY <1>1 DEF Lists, InSeq
<1>3. IsFiniteSet(1 .. n)
  BY <1>1, FS_Interval
<1> HIDE DEF n
<1>4. names \in Surjection(1 .. n, rows)
  BY <1>1, <1>2 DEF Surjection
<1> QED
  BY <1>3, <1>4, FS_Surjection

\* What is saved was seen and accepted.
LEMMA SavingIsGood == ASSUME FormInv, SentInv, phase = "saving" PROVE SeenGood
<1>1. /\ FocusOK /\ SectionOK /\ InputsFit(shown) /\ Free(hidden) /\ NoneBad(shown, hidden) /\ ColumnsOK(table)
  BY DEF FormInv, SentInv, InputsOK, Accepted, TablesOK
<1>2. DOMAIN hidden = DOMAIN shown /\ DOMAIN shown = DOMAIN table /\ Lists(order, DOMAIN table)
  BY DEF FormInv, Whole, Rows
<1>3. IsFiniteSet(DOMAIN shown)
  BY <1>2, ListsFinite
<1> QED
  BY <1>1, <1>2, <1>3 DEF SeenGood

\* The rows that are sent, and the options of the fields that are looked at below.
LEMMA SentRow ==
    ASSUME SeenGood, NEW row \in DOMAIN table, NEW o,
           o # "password" \/ \E f \in focus : Field(f).own \in Plain /\ o = Field(f).option
    PROVE  Encrypted(SavedTable, ToCrypt)[row][o] = SavedRow(row)[o]
<1>1. row \in DOMAIN SavedTable /\ SavedTable[row] = SavedRow(row)
  BY SavedTableIs
<1>2. CASE o # "password"
  BY <1>1, <1>2, EncryptedIs
<1>3. ASSUME NEW f \in focus, Field(f).own \in Plain, o = Field(f).option
      PROVE  Encrypted(SavedTable, ToCrypt)[row][o] = SavedRow(row)[o]
  BY <1>1, <1>3, EncryptedPlain, ToCryptIn DEF SeenGood
<1> QED
  BY <1>2, <1>3

LEMMA SentFits ==
    ASSUME SeenGood, NEW row \in DOMAIN table, NEW f \in focus,
           Field(f).kind \in Validating, Field(f).own \in Plain, f \notin hidden[row]
    PROVE  Fits(Field(f), Encrypted(SavedTable, ToCrypt)[row][Field(f).option])
<1>1. FocusOK /\ SectionOK /\ DOMAIN table[row] = Options /\ row \in DOMAIN shown
  BY DEF SeenGood, ColumnsOK
<1>2. \A g \in focus : Entered(Field(g), shown[row][g])
  BY <1>1 DEF SeenGood, InputsFit
<1>3. \A g \in focus : g \in hidden[row] \/ BadInputs(shown, row, g) = {}
  BY <1>1 DEF SeenGood, NoneBad
<1>4. Fits(Field(f), SavedRow(row)[Field(f).option])
  BY <1>1, <1>2, <1>3, SavedFits
<1>5. Encrypted(SavedTable, ToCrypt)[row][Field(f).option] = SavedRow(row)[Field(f).option]
  BY SentRow
<1> QED
  BY <1>4, <1>5

LEMMA SentDiffer ==
    ASSUME SeenGood, NEW f \in focus, NEW r \in DOMAIN table, NEW s \in DOMAIN table, r # s,
           Field(f).rule \in {"unique", "all unique"}
    PROVE  Uci(Field(f), Encrypted(SavedTable, ToCrypt)[r]).v # Uci(Field(f), Encrypted(SavedTable, ToCrypt)[s]).v
<1> DEFINE o == Field(f).option
<1>1. PICK t \in Field(f).datatype, u \in Field(f).datatype :
         t # u /\ t # "" /\ u # "" /\ shown[r][f] = <<t>> /\ shown[s][f] = <<u>>
  <2>1. r \in DOMAIN shown /\ s \in DOMAIN shown
    BY DEF SeenGood
  <2> QED
    BY <2>1, TextsDiffer
<1>2. o # "password" \/ \E g \in focus : Field(g).own \in Plain /\ o = Field(g).option
  <2>1. /\ Field(f).rule = "unique" => Field(f).own = ""
        /\ Field(f).rule = "all unique" => o = "vid"
    BY ClashSays DEF SeenGood
  <2> QED
    BY <2>1 DEF Plain
<1>3. ASSUME NEW row \in DOMAIN table, NEW p \in {o, "vlan"}
      PROVE  Encrypted(SavedTable, ToCrypt)[row][p] = SavedRow(row)[p]
  BY <1>2, SentRow
<1>4. PICK now : now = Encrypted(SavedTable, ToCrypt)
  OBVIOUS
<1> HIDE DEF o
<1>5. (\A p \in {o, "vlan"} : now[r][p] = SavedRow(r)[p]) /\ (\A p \in {o, "vlan"} : now[s][p] = SavedRow(s)[p])
  BY <1>3, <1>4
<1>6. Uci(Field(f), now[r]).v = <<t>> /\ Uci(Field(f), now[s]).v = <<u>>
  BY <1>1, <1>5, ReadsAsEntered DEF o
<1>7. <<t>> # <<u>>
  BY <1>1, OneOf
<1> QED
  BY <1>4, <1>6, <1>7

LEMMA SentPorts ==
    ASSUME SeenGood, NEW f \in focus, NEW r \in DOMAIN table, NEW s \in DOMAIN table, r # s,
           Field(f).rule = "untagged once"
    PROVE  Field(f).disabled \notin InSeq(Encrypted(SavedTable, ToCrypt)[r][Field(f).option].v)
                                   \cap InSeq(Encrypted(SavedTable, ToCrypt)[s][Field(f).option].v)
<1>1. Field(f).option = "ports"
  BY ClashSays DEF SeenGood
<1>2. ASSUME NEW row \in DOMAIN table
      PROVE  Encrypted(SavedTable, ToCrypt)[row][Field(f).option] = SavedRow(row)["ports"]
  <2>1. "ports" # "password"
    OBVIOUS
  <2>2. Encrypted(SavedTable, ToCrypt)[row]["ports"] = SavedRow(row)["ports"]
    BY <2>1, SentRow
  <2> QED
    BY <1>1, <2>2
<1>3. Field(f).disabled \in InSeq(SavedRow(r)["ports"].v) => shown[r][f] = <<"u">>
  BY PortsDiffer
<1>4. Field(f).disabled \in InSeq(SavedRow(s)["ports"].v) => shown[s][f] = <<"u">>
  BY PortsDiffer
<1> QED
  BY <1>2, <1>3, <1>4, UntaggedOnce

\* What NoClash asks of two rows.
Apart(def, a, b) ==
    /\ def.rule \in {"unique", "all unique"} => Uci(def, a).v # Uci(def, b).v
    /\ def.rule = "untagged once" => def.disabled \notin InSeq(a[def.option].v) \cap InSeq(b[def.option].v)

LEMMA SaveSent == ASSUME FormInv, SentInv, Save PROVE SentInv'
<1>1. /\ FocusOK /\ SectionOK /\ CryptIn(late) /\ CameOK /\ TablesOK /\ InputsOK /\ phase = "saving"
      /\ DOMAIN shown = DOMAIN table
  BY DEF FormInv, SentInv, Save, Whole, Rows
<1>2. /\ UNCHANGED <<section, router, shown, hidden, loaded, came, late>> /\ phase' = "sending"
      /\ table' = Encrypted(SavedTable, ToCrypt)
  BY DEF Save, inputs
<1>3. SeenGood
  BY <1>1, SavingIsGood
<1>4. came /\ InputsFit(shown) /\ ColumnsOK(table) /\ Showable(table)
      /\ ColumnsOK(router.table) /\ Showable(router.table) /\ Free(hidden)
  BY <1>1 DEF CameOK, TablesOK, InputsOK
<1>5. ColumnsOK(table') /\ Showable(table')
  <2>1. PICK tb : tb = SavedTable
    OBVIOUS
  <2>2. SavedOrNew(tb)
    BY <2>1, SavedTableIs DEF SavedOrNew
  <2>3. ColumnsOK(tb) /\ Showable(tb)
    BY <1>1, <1>4, <2>1, <2>2, SavedColumns, SavedShowable
  <2> QED
    BY <1>1, <1>2, <2>1, <2>3, ToCryptIn, EncryptedColumns, EncryptedShowable
<1>6. PICK tb, rt, crypt, sh, hid : tb = table' /\ rt = router.table /\ crypt = late /\ sh = shown /\ hid = hidden
  OBVIOUS
<1>7. SectionOK' /\ ColumnsOK(tb)' /\ ColumnsOK(rt)' /\ Free(hid)' /\ CryptIn(crypt)' /\ focus' = focus
  BY <1>1, <1>2, <1>4, <1>5, <1>6, SameSection
<1>8. InputsFit(sh)' /\ Showable(tb)' /\ Showable(rt)' /\ \A f : Field(f)' = Field(f)
  BY <1>2, <1>4, <1>5, <1>6, SameForm
<1>9. CameOK' /\ TablesOK' /\ InputsOK' /\ Accepted' /\ OnceShown'
  BY <1>2, <1>4, <1>6, <1>7, <1>8 DEF CameOK, TablesOK, InputsOK, Accepted, OnceShown
<1>10. SentIsValid'
  <2> SUFFICES ASSUME NEW row \in DOMAIN table, NEW f \in focus,
                      Field(f).kind \in Validating, Field(f).own \in Plain, f \notin hidden[row]
               PROVE  Fits(Field(f), table'[row][Field(f).option])
    BY <1>1, <1>2, <1>7, <1>8 DEF SentIsValid, Rows
  <2> QED
    BY <1>2, <1>3, SentFits
<1>11. NoClash'
  <2>1. ASSUME NEW f \in focus, NEW r \in DOMAIN table, NEW s \in DOMAIN table, r # s
        PROVE  Apart(Field(f), table'[r], table'[s])
    BY <1>2, <1>3, <2>1, SentDiffer, SentPorts DEF Apart
  <2>2. Rows' = DOMAIN table
    BY <1>1, <1>2 DEF Rows
  <2>3. \A f \in focus', r \in Rows', s \in Rows' : r # s => Apart(Field(f)', table'[r], table'[s])
    BY <1>7, <1>8, <2>1, <2>2
  <2> QED
    BY <2>3, Zenon DEF NoClash, Apart
<1> QED
  BY <1>2, <1>6, <1>7, <1>9, <1>10, <1>11 DEF SentInv

\* Choices that are loaded take none away.
LEMMA LoadedShows ==
    ASSUME FocusOK, SectionOK, section' = section, loaded => loaded', NEW f \in focus, Field(f).kind = "list",
           NEW opts, ListShows(Field(f), opts)
    PROVE  ListShows(Field(f)', opts)
<1> DEFINE made == section.fields[f]
           bare == [made EXCEPT !.choices = <<>>]
<1>1. Field(f) = (IF made.lazy /\ ~loaded THEN bare ELSE made)
      /\ Field(f)' = (IF made.lazy /\ ~loaded' THEN bare ELSE made)
  BY DEF Field
<1>2. CASE Field(f)' = Field(f)
  BY <1>2
<1>3. CASE made.lazy /\ Field(f) = bare /\ Field(f)' = made
  <2>1. DOMAIN made = DOMAIN Value /\ {"choices", "optional", "option", "initial", "own", "kind"} \subseteq DOMAIN Value
    BY DEF FocusOK, Value
  <2>2. /\ bare.choices = <<>> /\ bare.optional = made.optional /\ bare.option = made.option
        /\ bare.initial = made.initial /\ bare.own = made.own /\ bare.kind = made.kind
    BY <2>1
  <2>3. made.kind = "list" /\ made.own \in Plain
    <3>1. made.kind = "list" /\ f \in DOMAIN section.fields
      BY <1>3, <2>2 DEF focus
    <3>2. /\ made.own \in Plain \cup {"blind", "port"}
          /\ made.own = "blind" => ~made.lazy
          /\ made.own = "port" => ~made.lazy
      BY <3>1, Zenon DEF SectionOK, ChoicesSound
    <3> QED
      BY <1>3, <3>1, <3>2
  <2> HIDE DEF made, bare
  <2>4. Uci(bare, opts) = Base(bare, opts) /\ Uci(made, opts) = Base(made, opts)
    BY <2>2, <2>3, FieldKinds
  <2>5. Base(bare, opts) = Base(made, opts)
    BY <2>2 DEF Base
  <2>6. Offered(bare) \subseteq Offered(made)
    <3>1. InSeq(bare.choices) = {}
      BY <2>2, NoneSeq
    <3> QED
      BY <2>2, <3>1 DEF Offered
  <2> QED
    BY <1>3, <2>4, <2>5, <2>6 DEF ListShows
<1> HIDE DEF bare, made
<1> QED
  BY <1>1, <1>2, <1>3

LEMMA LoadSent == ASSUME FormInv, SentInv, Load PROVE SentInv'
<1>1. /\ FocusOK /\ SectionOK /\ CryptIn(late) /\ CameOK /\ TablesOK /\ InputsOK /\ phase \in {"opening", "sending"}
  BY DEF FormInv, SentInv, Load
<1>2. /\ UNCHANGED <<section, table, hidden, came, late>> /\ phase' = "loading" /\ (loaded => loaded')
      /\ router'.table = table \/ router'.table = router.table
      /\ phase # "sending" => router'.table = router.table
  BY DEF Load, inputs
<1>3. PICK tb, rt, crypt, hid : tb = table /\ rt = router'.table /\ crypt = late /\ hid = hidden
  OBVIOUS
<1>4. SectionOK' /\ ColumnsOK(tb)' /\ ColumnsOK(rt)' /\ Free(hid)' /\ CryptIn(crypt)' /\ focus' = focus
      /\ (OneEach' <=> OneEach)
  BY <1>1, <1>2, <1>3, SameSection DEF TablesOK, InputsOK
<1>5. ASSUME NEW now, Showable(now) PROVE Showable(now)'
  <2> SUFFICES ASSUME OneEach, NEW row \in DOMAIN now, NEW f \in focus, Field(f)'.kind = "list"
               PROVE  ListShows(Field(f)', now[row])
    BY <1>4, Zenon DEF Showable, AllShow, ListShows
  <2>1. Field(f).kind = "list"
    <3>1. Field(f).kind = section.fields[f].kind
      BY <1>1, FieldIs DEF Says
    <3>2. Field(f)'.kind = section.fields[f].kind
      <4>1. DOMAIN section.fields[f] = DOMAIN Value /\ "kind" \in DOMAIN Value
        BY <1>1 DEF FocusOK, Value
      <4> QED
        BY <1>2, <4>1 DEF Field
    <3> QED
      BY <3>1, <3>2
  <2>2. ListShows(Field(f), now[row])
    BY <1>5, <2>1 DEF Showable, AllShow
  <2> QED
    BY <1>1, <1>2, <2>1, <2>2, LoadedShows
<1>6. came => Showable(tb)' /\ Showable(rt)'
  BY <1>1, <1>2, <1>3, <1>5 DEF TablesOK
<1>7. CameOK'
  BY <1>1, <1>2 DEF CameOK
<1>8. TablesOK' /\ InputsOK'
  BY <1>2, <1>3, <1>4, <1>6 DEF TablesOK, InputsOK
<1>9. Accepted' /\ SentIsValid' /\ NoClash' /\ OnceShown'
  BY <1>2 DEF Accepted, SentIsValid, NoClash, OnceShown
<1> QED
  BY <1>2, <1>3, <1>4, <1>7, <1>8, <1>9 DEF SentInv

\* What is sent does not change while nothing but an answer comes.
LEMMA SameSent ==
    ASSUME UNCHANGED <<section, loaded, shown, hidden, phase, came>>, phase = "sending" => table' = table,
           Accepted, SentIsValid, NoClash, OnceShown
    PROVE  Accepted' /\ SentIsValid' /\ NoClash' /\ OnceShown'
<1>1. (\A f : Field(f)' = Field(f)) /\ focus' = focus /\ Rows' = Rows /\ (OneEach' <=> OneEach)
  BY SameForm, SameSection DEF Rows
<1>2. PICK sh, hid : sh = shown /\ hid = hidden
  OBVIOUS
<1>3. NoneBad(sh, hid)' <=> NoneBad(sh, hid)
  BY SameForm
<1>4. Accepted'
  BY <1>2, <1>3 DEF Accepted
<1>5. SentIsValid'
  BY <1>1 DEF SentIsValid
<1>6. NoClash'
  <2> SUFFICES ASSUME phase = "sending"
               PROVE  \A f \in focus', r \in Rows', s \in Rows' : r # s => Apart(Field(f)', table'[r], table'[s])
    BY Zenon DEF NoClash, Apart
  <2>1. \A f \in focus, r \in Rows, s \in Rows : r # s => Apart(Field(f), table[r], table[s])
    BY Zenon DEF NoClash, Apart
  <2> QED
    BY <1>1, <2>1
<1>7. OnceShown'
  BY <1>1, Zenon DEF OnceShown, OneEach
<1> QED
  BY <1>4, <1>5, <1>6, <1>7

LEMMA AnsweredSent ==
    ASSUME FormInv, SentInv, UNCHANGED <<section, router, shown, hidden, loaded, came, phase>>,
           NEW rows, rows \subseteq late, late' \subseteq late,
           table' = table \/ (phase # "sending" /\ rows # {} /\ table' = Encrypted(table, rows))
    PROVE  SentInv'
<1>1. /\ FocusOK /\ SectionOK /\ CryptIn(late) /\ CameOK /\ TablesOK /\ InputsOK
  BY DEF FormInv, SentInv
<1>2. PICK tb, rt, crypt, sh, hid :
         tb = table' /\ rt = router.table /\ crypt = late' /\ sh = shown /\ hid = hidden
  OBVIOUS
<1>3. CryptIn(late') /\ CryptIn(rows)
  BY <1>1 DEF CryptIn
<1>4. ColumnsOK(tb) /\ (Showable(table) => Showable(tb))
  <2>1. CASE tb = table
    BY <1>1, <2>1 DEF TablesOK
  <2>2. CASE tb = Encrypted(table, rows)
    BY <1>1, <1>3, <2>2, EncryptedColumns, EncryptedShowable DEF TablesOK
  <2> QED
    BY <1>2, <2>1, <2>2
<1>5. SectionOK' /\ ColumnsOK(tb)' /\ ColumnsOK(rt)' /\ (Free(hid)' <=> Free(hid)) /\ CryptIn(crypt)'
  BY <1>1, <1>2, <1>3, <1>4, SameSection DEF TablesOK
<1>6. (InputsFit(sh)' <=> InputsFit(sh)) /\ (Showable(tb)' <=> Showable(tb)) /\ (Showable(rt)' <=> Showable(rt))
  BY SameForm
<1>7. CameOK'
  <2>1. late = {} => late' = {} /\ table' = table
    OBVIOUS
  <2> QED
    BY <1>1, <2>1 DEF CameOK
<1>8. TablesOK' /\ InputsOK'
  BY <1>1, <1>2, <1>4, <1>5, <1>6 DEF TablesOK, InputsOK
<1>9. Accepted' /\ SentIsValid' /\ NoClash' /\ OnceShown'
  BY SameSent DEF SentInv
<1> QED
  BY <1>2, <1>5, <1>7, <1>8, <1>9 DEF SentInv

LEMMA CryptDoneSent == ASSUME FormInv, SentInv, NEW row \in late, CryptDone(row) PROVE SentInv'
<1>1. UNCHANGED <<section, router, shown, hidden, loaded, came, phase>> /\ late' \subseteq late
  BY DEF CryptDone, inputs
<1>2. table' = table \/ (phase # "sending" /\ {row} # {} /\ table' = Encrypted(table, {row}))
  BY DEF CryptDone
<1>3. {row} \subseteq late
  OBVIOUS
<1> QED
  BY <1>1, <1>2, <1>3, AnsweredSent

LEMMA StutterSent == ASSUME FormInv, SentInv, UNCHANGED vars PROVE SentInv'
<1>1. UNCHANGED <<section, router, shown, hidden, loaded, came, phase>> /\ late' \subseteq late /\ table' = table
  BY DEF vars, inputs
<1> QED
  BY <1>1, AnsweredSent

LEMMA ResetSent == ASSUME FormInv, SentInv, Reset PROVE SentInv'
<1>1. /\ FocusOK /\ SectionOK /\ CryptIn(late) /\ CameOK /\ TablesOK /\ phase = "shown"
  BY DEF FormInv, SentInv, Reset, Acts
<1>2. /\ UNCHANGED <<section, router, loaded, came, late>> /\ phase' = "opening"
      /\ table' = router.table /\ hidden' = <<>>
  BY DEF Reset
<1>3. PICK rt, crypt : rt = router.table /\ crypt = late
  OBVIOUS
<1>4. SectionOK' /\ ColumnsOK(rt)' /\ CryptIn(crypt)'
  BY <1>1, <1>2, <1>3, SameSection DEF TablesOK
<1>5. came /\ Showable(rt)'
  BY <1>1, <1>2, <1>3, SameForm DEF TablesOK, CameOK
<1>6. CameOK' /\ TablesOK'
  BY <1>2, <1>3, <1>4, <1>5 DEF CameOK, TablesOK
<1>7. InputsOK'
  <2>1. DOMAIN hidden' = {}
    BY <1>2
  <2> QED
    BY <1>2, <2>1 DEF InputsOK, Free
<1>8. Accepted' /\ SentIsValid' /\ NoClash' /\ OnceShown'
  BY <1>2 DEF Accepted, SentIsValid, NoClash, OnceShown
<1> QED
  BY <1>2, <1>3, <1>4, <1>6, <1>7, <1>8 DEF SentInv

\* FormInv and SentInv are inductive together.
THEOREM SentSafe == Spec => []SentInv
<1>1. Init /\ FormInv => SentInv
  BY InitSent
<1>2. FormInv /\ SentInv /\ [Next]_vars => SentInv'
  <2> SUFFICES ASSUME FormInv, SentInv, [Next]_vars PROVE SentInv'
    OBVIOUS
  <2>1. CASE UNCHANGED vars
    BY <2>1, StutterSent
  <2>2. CASE Load
    BY <2>2, LoadSent
  <2>3. CASE Draw
    BY <2>3, DrawSent
  <2>4. ASSUME NEW row \in DOMAIN table, NEW f \in focus, Edit(row, f) \/ Entry(row, f) PROVE SentInv'
    BY <2>4, EditSent, EntrySent
  <2>5. CASE AddRow
    BY <2>5, AddRowSent
  <2>6. ASSUME NEW row \in DOMAIN table, RemoveRow(row) PROVE SentInv'
    BY <2>6, RemoveRowSent
  <2>7. ASSUME NEW i \in DOMAIN order, SortRow(i) PROVE SentInv'
    BY <2>7, SortRowSent
  <2>8. ASSUME NEW row \in late, CryptDone(row) PROVE SentInv'
    BY <2>8, CryptDoneSent
  <2>9. CASE Send
    BY <2>9, SendSent
  <2>10. CASE Save
    BY <2>10, SaveSent
  <2>11. CASE Reset
    BY <2>11, ResetSent
  <2> QED
    BY <2>1, <2>2, <2>3, <2>4, <2>5, <2>6, <2>7, <2>8, <2>9, <2>10, <2>11 DEF Next
<1> QED
  BY <1>1, <1>2, FormSafe, PTL DEF Spec

-----------------------------------------------------------------------------
(* Errors that the user was told of *)

\* No field of the form is checked against others, emptied or loses its marks.
AllSeen == \A f \in focus : ~Unseen(f)

\* What a validation would find is marked, and what is marked was refused; both are
\* the same but for combo boxes without choices.
Found(sh, bad, mk) ==
    \A row \in DOMAIN sh :
        /\ bad[row] = {f \in focus : mk[row][f] # {}}
        /\ \A f \in focus : BadInputs(sh, row, f) \subseteq mk[row][f] /\ mk[row][f] \subseteq Refused(sh, row, f)

Told == phase = "shown" /\ AllSeen => Found(shown, wrong, marks)

\* The combo boxes of a row that select nothing.
Nothing(sh, row) ==
    {f \in focus : /\ Field(f).kind = "combo" /\ ~Field(f).optional
                   /\ Field(f).choices # <<>> /\ ~HasEmpty(Field(f)) /\ sh[row][f] = <<"">>}

Stopped(sh, bad) == \A row \in DOMAIN sh : Nothing(sh, row) \subseteq bad[row]

\* They show an error.
Stops == phase = "shown" => Stopped(shown, wrong)

ToldInv == Told /\ Stops /\ edits \in Nat /\ SourcesSound(section.fields)

LEMMA InitTold == ASSUME Init PROVE ToldInv
<1>1. Told /\ Stops /\ edits \in Nat
  BY DEF Init, Told, Stops
<1>2. PICK made \in Forms : \E names : Part(made, names)
  BY InitPart
<1>3. PICK names : Part(made, names)
  BY <1>2
<1>4. /\ DOMAIN section.fields = names /\ names \subseteq DOMAIN made.fields
      /\ \A f \in names : section.fields[f] = made.fields[f]
  BY <1>3, PartIs DEF Part
<1>5. FocusOK
  BY InitForm DEF FormInv
<1>6. ASSUME NEW f \in names, NEW g \in SourcesIn(section.fields, f)
      PROVE  /\ HasEvents(section.fields[g])
             /\ \/ SourcesIn(section.fields, g) = {} \/ NeverWrong(section.fields[g])
                \/ AsksMore(section.fields[f], section.fields[g])
  <2>1. g \in names /\ f \in DOMAIN made.fields
    BY <1>4, <1>5 DEF FocusOK, Sound
  <2>2. g \in SourcesIn(made.fields, f) /\ SourcesIn(made.fields, g) = SourcesIn(section.fields, g)
    BY <1>4, <2>1 DEF SourcesIn
  <2>3. SourcesSound(made.fields)
    BY SourcesAssumption
  <2> QED
    BY <1>4, <2>1, <2>2, <2>3 DEF SourcesSound
<1>7. SourcesSound(section.fields)
  BY <1>4, <1>6 DEF SourcesSound
<1> QED
  BY <1>1, <1>7 DEF ToldInv

LEMMA SameTold ==
    ASSUME UNCHANGED <<section, loaded>>
    PROVE  /\ AllSeen' <=> AllSeen
           /\ \A sh, bad, mk : Found(sh, bad, mk)' <=> Found(sh, bad, mk)
           /\ \A sh, bad : Stopped(sh, bad)' <=> Stopped(sh, bad)
<1>1. focus' = focus /\ \A f : Field(f)' = Field(f)
  BY SameForm, SameSection
<1>2. AllSeen' <=> AllSeen
  BY <1>1 DEF AllSeen, Unseen
<1>3. \A sh, row, f : BadInputs(sh, row, f)' = BadInputs(sh, row, f) /\ Refused(sh, row, f)' = Refused(sh, row, f)
  BY SameForm
<1>4. \A sh, bad, mk : Found(sh, bad, mk)' <=> Found(sh, bad, mk)
  BY <1>1, <1>3 DEF Found
<1>5. \A sh, row : Nothing(sh, row)' = Nothing(sh, row)
  BY <1>1 DEF Nothing
<1>6. \A sh, bad : Stopped(sh, bad)' <=> Stopped(sh, bad)
  BY <1>5 DEF Stopped
<1> QED
  BY <1>2, <1>4, <1>6

\* A form that is as it was found stays told of.
LEMMA ToldAfter ==
    ASSUME UNCHANGED <<section, loaded>>, AllSeen => Found(shown', wrong', marks')
    PROVE  Told'
<1>1. PICK sh, bad, mk : sh = shown' /\ bad = wrong' /\ mk = marks'
  OBVIOUS
<1>2. (AllSeen' <=> AllSeen) /\ (Found(sh, bad, mk)' <=> Found(sh, bad, mk))
  BY SameTold
<1> QED
  BY <1>1, <1>2 DEF Told

LEMMA StopsAfter ==
    ASSUME UNCHANGED <<section, loaded>>, Stopped(shown', wrong')
    PROVE  Stops'
<1>1. PICK sh, bad : sh = shown' /\ bad = wrong'
  OBVIOUS
<1>2. Stopped(sh, bad)' <=> Stopped(sh, bad)
  BY SameTold
<1> QED
  BY <1>1, <1>2 DEF Stops

LEMMA EmptyBad ==
    ASSUME NEW sh, NEW row, NEW f \in Nothing(sh, row)
    PROVE  BadInputs(sh, row, f) # {} /\ Refuses(sh, row, f, "")
<1>1. /\ Field(f).kind = "combo" /\ ~Field(f).optional /\ Field(f).choices # <<>>
      /\ 1 \in DOMAIN sh[row][f] /\ sh[row][f][1] = ""
  BY OneOf DEF Nothing
<1>2. Refuses(sh, row, f, "")
  BY <1>1 DEF Refuses, Validating
<1>3. Bad(sh, row, f, 1)
  BY <1>1, <1>2, CheckedIs DEF Bad
<1> QED
  BY <1>1, <1>2, <1>3 DEF BadInputs

LEMMA ValidatedFound ==
    ASSUME FocusOK, SectionOK, NEW inputsNow, NEW tb, NEW before, Validated(inputsNow, tb, before)
    PROVE  Found(shown', wrong', marks') /\ Stopped(shown', wrong')
<1>1. PICK sh \in {Emptied(inputsNow, tb)} :
         /\ shown' = sh
         /\ wrong' = [row \in DOMAIN sh |-> WrongFields(sh, row)]
         /\ marks' = [row \in DOMAIN sh |-> [f \in focus |-> BadInputs(sh, row, f)]]
  BY DEF Validated
<1>2. Found(sh, wrong', marks')
  BY <1>1, BadRefused DEF Found, WrongFields
<1>3. Stopped(sh, wrong')
  <2> SUFFICES ASSUME NEW row \in DOMAIN sh, NEW f \in Nothing(sh, row) PROVE f \in wrong'[row]
    BY DEF Stopped
  <2>1. f \in focus /\ BadInputs(sh, row, f) # {}
    BY EmptyBad DEF Nothing
  <2> QED
    BY <1>1, <2>1 DEF WrongFields
<1> QED
  BY <1>1, <1>2, <1>3

LEMMA RedrawTold ==
    ASSUME FocusOK, SectionOK, NEW tb, Redraw(tb), UNCHANGED <<section, loaded>>
    PROVE  Told' /\ Stops'
<1> DEFINE drawn  == Drawn(tb)
           before == [row \in DOMAIN tb |-> {}]
<1>1. Validated(drawn, tb, before)
  BY DEF Redraw
<1> HIDE DEF drawn, before
<1> QED
  BY <1>1, ValidatedFound, ToldAfter, StopsAfter

\* What is wrong in a field that is compared with no other is up to its texts, and one
\* that is no list has one input at most that can be wrong.
LEMMA BadByText ==
    ASSUME NEW sh, NEW more, NEW row, NEW f, ~Unseen(f), more[row][f] = sh[row][f]
    PROVE  BadInputs(more, row, f) = BadInputs(sh, row, f) /\ Refused(more, row, f) = Refused(sh, row, f)
<1>1. Field(f).rule = ""
  BY DEF Unseen
<1>2. \A t : Allowed(more, row, f, t) /\ Allowed(sh, row, f, t)
  BY <1>1 DEF Allowed
<1>3. \A t : Refuses(more, row, f, t) <=> Refuses(sh, row, f, t)
  BY <1>2 DEF Refuses
<1> QED
  BY <1>3 DEF BadInputs, Bad, Refused

LEMMA OneBad ==
    ASSUME NEW sh, NEW row, NEW f, Entered(Field(f), sh[row][f]), Field(f).kind # "dynamic"
    PROVE  Refused(sh, row, f) \subseteq {1} /\ (Field(f).kind \in Validating => DOMAIN sh[row][f] = {1})
<1>1. CASE Field(f).kind \in Single
  <2>1. PICK t : sh[row][f] = <<t>>
    BY <1>1 DEF Entered
  <2> QED
    BY <2>1, OneOf DEF Refused
<1>2. CASE Field(f).kind \notin Single
  BY <1>2 DEF Refused, Refuses, Validating, Single
<1> QED
  BY <1>1, <1>2

\* The input that is entered is validated, and so are the fields that depend on it.
LEMMA EditTold ==
    ASSUME FormInv, SentInv, ToldInv, NEW row \in DOMAIN table, NEW f \in focus, Edit(row, f)
    PROVE  Told'
<1>1. /\ FocusOK /\ SectionOK /\ Whole /\ InputsOK /\ Told /\ phase = "shown"
      /\ UNCHANGED <<section, loaded>>
  BY DEF FormInv, SentInv, ToldInv, Edit, Acts
<1>2. PICK new \in Entries(Field(f), shown[row][f]) \ {shown[row][f]} :
        LET sh    == [shown EXCEPT ![row][f] = new]
            n     == IF Field(f).kind = "dynamic" THEN CHOOSE i \in DOMAIN new : new[i] # shown[row][f][i] ELSE 1
            bad   == Refuses(sh, row, f, new[n])
            mk    == IF bad THEN marks[row][f] \cup {n} ELSE marks[row][f] \ {n}
            again == IF HasEvents(Field(f)) /\ mk = {} THEN Reached(sh, row, f) ELSE {}
            sh2   == IF "password" \in again THEN Emptied(sh, table) ELSE sh
            errs  == {g \in again : BadInputs(sh2, row, g) # {}} \cup IF bad THEN {f} ELSE {}
            fine  == again \cup IF mk = {} THEN {f} ELSE {}
        IN  /\ shown' = sh2
            /\ marks' = [marks EXCEPT ![row] = [g \in focus |->
                            IF g \in again THEN BadInputs(sh2, row, g)
                            ELSE IF g = f THEN mk ELSE marks[row][g]]]
            /\ wrong' = [wrong EXCEPT ![row] = (@ \ fine) \cup errs]
  BY Zenon DEF Edit
<1> DEFINE sh    == [shown EXCEPT ![row][f] = new]
           n     == IF Field(f).kind = "dynamic" THEN CHOOSE i \in DOMAIN new : new[i] # shown[row][f][i] ELSE 1
           bad   == Refuses(sh, row, f, new[n])
           mk    == IF bad THEN marks[row][f] \cup {n} ELSE marks[row][f] \ {n}
           again == IF HasEvents(Field(f)) /\ mk = {} THEN Reached(sh, row, f) ELSE {}
           sh2   == IF "password" \in again THEN Emptied(sh, table) ELSE sh
           errs  == {g \in again : BadInputs(sh2, row, g) # {}} \cup IF bad THEN {f} ELSE {}
           fine  == again \cup IF mk = {} THEN {f} ELSE {}
<1>3. /\ shown' = sh2
      /\ marks' = [marks EXCEPT ![row] = [g \in focus |->
                      IF g \in again THEN BadInputs(sh2, row, g)
                      ELSE IF g = f THEN mk ELSE marks[row][g]]]
      /\ wrong' = [wrong EXCEPT ![row] = (@ \ fine) \cup errs]
  BY <1>2, Zenon
<1> SUFFICES ASSUME AllSeen PROVE Found(shown', wrong', marks')
  BY <1>1, ToldAfter
<1>4. /\ row \in Rows /\ Rows = DOMAIN shown /\ DOMAIN wrong = Rows /\ DOMAIN marks = Rows
      /\ \A r \in Rows : wrong[r] \subseteq focus /\ DOMAIN shown[r] = focus /\ DOMAIN marks[r] = focus
  BY <1>1 DEF Whole, Rows
<1>5. /\ Found(shown, wrong, marks) /\ InputsFit(shown)
      /\ \A g \in focus : ~Unseen(g) /\ Field(g).own # "password" /\ Field(g).kind # "dynamic"
  BY <1>1 DEF Told, InputsOK, AllSeen, Unseen
<1>6. n = 1
  BY <1>5
<1>7. /\ DOMAIN sh = Rows /\ \A r \in Rows : DOMAIN sh[r] = focus
      /\ sh[row][f] = new
      /\ \A r \in Rows, g \in focus : r # row \/ g # f => sh[r][g] = shown[r][g]
  BY <1>4
<1> HIDE DEF sh
<1>8. DOMAIN sh2 = Rows /\ \A r \in Rows, g \in focus : sh2[r][g] = sh[r][g]
  <2>1. sh2 = sh \/ sh2 = Emptied(sh, table)
    OBVIOUS
  <2> HIDE DEF sh2
  <2> QED
    BY <1>5, <1>7, <2>1, EmptiedInputs
<1> HIDE DEF sh2
<1>9. again \subseteq focus
  BY <1>1, ReachedAll
<1>10. mk = Refused(sh, row, f) /\ (bad <=> mk # {})
  <2>1. Refused(shown, row, f) \subseteq {1} /\ marks[row][f] \subseteq Refused(shown, row, f)
    BY <1>4, <1>5, OneBad DEF Found, InputsFit
  <2>2. Entered(Field(f), new)
    BY <1>2, <1>4, <1>5, EntriesFit DEF InputsFit
  <2>3. Refused(sh, row, f) \subseteq {1} /\ (Field(f).kind \in Validating => DOMAIN new = {1})
    <3>1. sh[row][f] = new /\ Entered(Field(f), sh[row][f]) /\ Field(f).kind # "dynamic"
      BY <1>5, <1>7, <2>2
    <3>2. Refused(sh, row, f) \subseteq {1} /\ (Field(f).kind \in Validating => DOMAIN sh[row][f] = {1})
      BY <3>1, OneBad
    <3> QED
      BY <3>1, <3>2
  <2>4. 1 \in Refused(sh, row, f) <=> bad
    BY <1>6, <1>7, <2>3 DEF Refused, Refuses
  <2>5. mk = IF bad THEN {1} ELSE {}
    BY <1>6, <2>1
  <2> HIDE DEF bad, mk
  <2> QED
    BY <2>3, <2>4, <2>5
<1>11. again # {} => mk = {}
  OBVIOUS
<1>12. /\ \A g \in again : g \in fine /\ (g \in errs <=> BadInputs(sh2, row, g) # {} \/ (g = f /\ bad))
       /\ \A g : g \notin again /\ g # f => g \notin fine /\ g \notin errs
       /\ f \notin again => (f \in fine <=> mk = {}) /\ (f \in errs <=> bad)
  OBVIOUS
<1>13. \A r \in Rows, g \in focus : /\ BadInputs(sh2, r, g) = BadInputs(sh, r, g)
                                    /\ Refused(sh2, r, g) = Refused(sh, r, g)
  BY <1>5, <1>8, BadByText
<1>14. \A r \in Rows, g \in focus : r # row \/ g # f => /\ BadInputs(sh2, r, g) = BadInputs(shown, r, g)
                                                       /\ Refused(sh2, r, g) = Refused(shown, r, g)
  <2> SUFFICES ASSUME NEW r \in Rows, NEW g \in focus, r # row \/ g # f
               PROVE  BadInputs(sh2, r, g) = BadInputs(shown, r, g) /\ Refused(sh2, r, g) = Refused(shown, r, g)
    OBVIOUS
  <2>1. sh[r][g] = shown[r][g] /\ ~Unseen(g)
    BY <1>5, <1>7
  <2>2. BadInputs(sh, r, g) = BadInputs(shown, r, g) /\ Refused(sh, r, g) = Refused(shown, r, g)
    BY <2>1, BadByText
  <2> QED
    BY <1>13, <2>2
<1> HIDE DEF bad, mk, again, errs, fine, n
<1>15. /\ \A g \in focus : marks'[row][g] = IF g \in again THEN BadInputs(sh2, row, g)
                                           ELSE IF g = f THEN mk ELSE marks[row][g]
       /\ wrong'[row] = (wrong[row] \ fine) \cup errs
       /\ \A r \in Rows : r # row => wrong'[r] = wrong[r] /\ marks'[r] = marks[r]
  BY <1>3, <1>4
<1>16. ASSUME NEW g \in focus
       PROVE  /\ BadInputs(sh2, row, g) \subseteq marks'[row][g] /\ marks'[row][g] \subseteq Refused(sh2, row, g)
              /\ g \in wrong'[row] <=> marks'[row][g] # {}
  <2>1. CASE g \in again
    <3>1. ~bad
      BY <1>10, <1>11, <2>1
    <3>2. marks'[row][g] = BadInputs(sh2, row, g) /\ (g \in wrong'[row] <=> BadInputs(sh2, row, g) # {})
      BY <1>12, <1>15, <2>1, <3>1
    <3> QED
      BY <1>1, <3>2, BadRefused
  <2>2. CASE g \notin again /\ g = f
    <3>1. marks'[row][f] = mk /\ (f \in wrong'[row] <=> mk # {})
      BY <1>10, <1>12, <1>15, <2>2
    <3>2. mk = Refused(sh2, row, f) /\ BadInputs(sh2, row, f) \subseteq mk
      BY <1>1, <1>4, <1>10, <1>13, BadRefused
    <3> QED
      BY <2>2, <3>1, <3>2
  <2>3. CASE g \notin again /\ g # f
    <3>1. /\ BadInputs(shown, row, g) \subseteq marks[row][g] /\ marks[row][g] \subseteq Refused(shown, row, g)
          /\ g \in wrong[row] <=> marks[row][g] # {}
      BY <1>4, <1>5 DEF Found
    <3>2. marks'[row][g] = marks[row][g] /\ (g \in wrong'[row] <=> g \in wrong[row])
      BY <1>12, <1>15, <2>3
    <3> QED
      BY <1>4, <1>14, <2>3, <3>1, <3>2
  <2> QED
    BY <2>1, <2>2, <2>3
<1>17. wrong'[row] \subseteq focus
  BY <1>4, <1>9, <1>15 DEF errs
<1>18. wrong'[row] = {g \in focus : marks'[row][g] # {}}
  BY <1>16, <1>17
<1>19. ASSUME NEW r \in Rows, r # row
       PROVE  /\ wrong'[r] = {g \in focus : marks'[r][g] # {}}
              /\ \A g \in focus : /\ BadInputs(sh2, r, g) \subseteq marks'[r][g]
                                  /\ marks'[r][g] \subseteq Refused(sh2, r, g)
  <2>1. /\ wrong[r] = {g \in focus : marks[r][g] # {}}
        /\ \A g \in focus : /\ BadInputs(shown, r, g) \subseteq marks[r][g]
                            /\ marks[r][g] \subseteq Refused(shown, r, g)
    BY <1>4, <1>5 DEF Found
  <2> QED
    BY <1>14, <1>15, <1>19, <2>1
<1>20. Found(sh2, wrong', marks')
  BY <1>8, <1>16, <1>18, <1>19 DEF Found
<1> QED
  BY <1>3, <1>20

\* So is a combo box that the user emptied.
LEMMA EditStops ==
    ASSUME FormInv, SentInv, ToldInv, NEW row \in DOMAIN table, NEW f \in focus, Edit(row, f)
    PROVE  Stops'
<1>1. /\ FocusOK /\ SectionOK /\ Whole /\ Stopped(shown, wrong) /\ phase = "shown"
      /\ UNCHANGED <<section, loaded>>
  BY DEF FormInv, SentInv, ToldInv, Stops, Edit, Acts
<1>2. PICK new \in Entries(Field(f), shown[row][f]) \ {shown[row][f]} :
        LET sh    == [shown EXCEPT ![row][f] = new]
            n     == IF Field(f).kind = "dynamic" THEN CHOOSE i \in DOMAIN new : new[i] # shown[row][f][i] ELSE 1
            bad   == Refuses(sh, row, f, new[n])
            mk    == IF bad THEN marks[row][f] \cup {n} ELSE marks[row][f] \ {n}
            again == IF HasEvents(Field(f)) /\ mk = {} THEN Reached(sh, row, f) ELSE {}
            sh2   == IF "password" \in again THEN Emptied(sh, table) ELSE sh
            errs  == {g \in again : BadInputs(sh2, row, g) # {}} \cup IF bad THEN {f} ELSE {}
            fine  == again \cup IF mk = {} THEN {f} ELSE {}
        IN  /\ shown' = sh2
            /\ wrong' = [wrong EXCEPT ![row] = (@ \ fine) \cup errs]
  BY Zenon DEF Edit
<1> DEFINE sh    == [shown EXCEPT ![row][f] = new]
           n     == IF Field(f).kind = "dynamic" THEN CHOOSE i \in DOMAIN new : new[i] # shown[row][f][i] ELSE 1
           bad   == Refuses(sh, row, f, new[n])
           mk    == IF bad THEN marks[row][f] \cup {n} ELSE marks[row][f] \ {n}
           again == IF HasEvents(Field(f)) /\ mk = {} THEN Reached(sh, row, f) ELSE {}
           sh2   == IF "password" \in again THEN Emptied(sh, table) ELSE sh
           errs  == {g \in again : BadInputs(sh2, row, g) # {}} \cup IF bad THEN {f} ELSE {}
           fine  == again \cup IF mk = {} THEN {f} ELSE {}
<1>3. shown' = sh2 /\ wrong' = [wrong EXCEPT ![row] = (@ \ fine) \cup errs]
  BY <1>2, Zenon
<1>4. /\ row \in Rows /\ Rows = DOMAIN shown /\ DOMAIN wrong = Rows
      /\ \A r \in Rows : DOMAIN shown[r] = focus
  BY <1>1 DEF Whole, Rows
<1>5. /\ DOMAIN sh = Rows
      /\ \A r \in Rows, g \in focus : sh[r][g] = IF r = row /\ g = f THEN new ELSE shown[r][g]
  BY <1>4
<1> HIDE DEF sh
<1>6. DOMAIN sh2 = Rows /\ \A r \in Rows, g \in focus : Field(g).own # "password" => sh2[r][g] = sh[r][g]
  <2>1. sh2 = sh \/ sh2 = Emptied(sh, table)
    OBVIOUS
  <2> HIDE DEF sh2
  <2> QED
    BY <1>5, <2>1, EmptiedInputs
<1> HIDE DEF sh2
<1>7. Field(f).kind # "dynamic" => n = 1
  OBVIOUS
<1>8. /\ bad => f \in errs
      /\ \A g \in again : BadInputs(sh2, row, g) # {} => g \in errs
      /\ \A g : g \notin again /\ g # f => g \notin fine
  OBVIOUS
<1> HIDE DEF mk, again, errs, fine, n
<1>9. wrong'[row] = (wrong[row] \ fine) \cup errs /\ \A r \in Rows : r # row => wrong'[r] = wrong[r]
  BY <1>3, <1>4
<1> SUFFICES ASSUME NEW r \in Rows, NEW g \in Nothing(sh2, r) PROVE g \in wrong'[r]
  BY <1>1, <1>3, <1>6, StopsAfter DEF Stopped
<1>10. /\ g \in focus /\ Field(g).kind = "combo" /\ sh2[r][g] = <<"">> /\ sh[r][g] = <<"">>
       /\ BadInputs(sh2, r, g) # {} /\ Refuses(sh2, r, g, "")
  BY <1>1, <1>6, ComboIs, EmptyBad DEF Nothing
<1>11. shown[r][g] = <<"">> => g \in wrong[r]
  <2>1. shown[r][g] = <<"">> => g \in Nothing(shown, r)
    BY DEF Nothing
  <2> QED
    BY <1>1, <1>4, <2>1 DEF Stopped
<1>12. CASE r = row /\ g = f
  <2>1. new[n] = ""
    <3>1. new = <<"">> /\ n = 1
      BY <1>5, <1>7, <1>10, <1>12
    <3> QED
      BY <3>1, OneOf
  <2>2. Refuses(sh, row, f, "")
    BY <1>10, <1>12 DEF Refuses, Nothing
  <2> QED
    BY <1>8, <1>9, <1>12, <2>1, <2>2
<1>13. CASE r = row /\ g # f /\ g \in again
  BY <1>8, <1>9, <1>10, <1>13
<1>14. CASE r = row /\ g # f /\ g \notin again
  BY <1>5, <1>8, <1>9, <1>10, <1>11, <1>14
<1>15. CASE r # row
  BY <1>5, <1>9, <1>10, <1>11, <1>15
<1> QED
  BY <1>12, <1>13, <1>14, <1>15

LEMMA EntryStops ==
    ASSUME FormInv, SentInv, ToldInv, NEW row \in DOMAIN table, NEW f \in focus, Entry(row, f)
    PROVE  Stops'
<1>1. /\ Stopped(shown, wrong) /\ Field(f).kind = "dynamic" /\ Whole
      /\ UNCHANGED <<section, loaded, wrong>>
  BY DEF FormInv, ToldInv, Stops, Entry, Acts
<1>2. \E new : shown' = [shown EXCEPT ![row][f] = new]
  BY DEF Entry
<1>3. DOMAIN shown' = DOMAIN shown /\ \A r \in DOMAIN shown, g \in focus \ {f} : shown'[r][g] = shown[r][g]
  BY <1>2
<1>4. ASSUME NEW r \in DOMAIN shown, NEW g \in Nothing(shown', r) PROVE g \in Nothing(shown, r)
  BY <1>1, <1>3 DEF Nothing
<1> QED
  BY <1>1, <1>3, <1>4, StopsAfter DEF Stopped

LEMMA EntersActs ==
    ASSUME NEW row, NEW f, Edit(row, f) \/ Entry(row, f)
    PROVE  Acts /\ section' = section
<1>1. CASE Edit(row, f)
  BY <1>1 DEF Edit
<1>2. CASE Entry(row, f)
  BY <1>2 DEF Entry
<1> QED
  BY <1>1, <1>2

LEMMA ToldStep == ASSUME FormInv, SentInv, ToldInv, [Next]_vars PROVE ToldInv'
<1>1. section' = section /\ (edits' = edits \/ edits' = edits + 1)
  <2>1. Load \/ Draw \/ Send \/ Save \/ UNCHANGED vars => UNCHANGED <<section, edits>>
    BY DEF Load, Draw, Send, Save, vars
  <2>2. \A row : CryptDone(row) => UNCHANGED <<section, edits>>
    BY DEF CryptDone
  <2>3. AddRow \/ Reset => section' = section /\ edits' = edits + 1
    BY DEF AddRow, Reset, Acts
  <2>4. \A row, f : Edit(row, f) \/ Entry(row, f) => section' = section /\ edits' = edits + 1
    BY EntersActs DEF Acts
  <2>5. \A row : RemoveRow(row) \/ SortRow(row) => section' = section /\ edits' = edits + 1
    BY Zenon DEF RemoveRow, SortRow, Acts
  <2> QED
    BY <2>1, <2>2, <2>3, <2>4, <2>5, Zenon DEF Next
<1>2. edits' \in Nat /\ SourcesSound(section.fields)'
  BY <1>1 DEF ToldInv
<1>3. Told' /\ Stops'
  <2>1. CASE UNCHANGED <<section, loaded, shown, wrong, marks, phase>>
    BY <2>1, SameTold, Zenon DEF ToldInv, Told, Stops
  <2>2. CASE phase' # "shown"
    BY <2>2 DEF Told, Stops
  <2>3. ASSUME NEW tb, Redraw(tb), UNCHANGED <<section, loaded>> PROVE Told' /\ Stops'
    BY <2>3, RedrawTold DEF FormInv, SentInv
  <2>4. ASSUME NEW row \in DOMAIN table, NEW f \in focus, Edit(row, f) PROVE Told' /\ Stops'
    BY <2>4, EditTold, EditStops
  <2>5. ASSUME NEW row \in DOMAIN table, NEW f \in focus, Entry(row, f) PROVE Told' /\ Stops'
    <3>1. UNCHANGED <<section, loaded>> /\ ~AllSeen
      BY <2>5 DEF Entry, AllSeen, Unseen
    <3> QED
      BY <2>5, <3>1, ToldAfter, EntryStops
  <2>6. CASE Send
    <3>1. Validated(shown, table, hidden) /\ UNCHANGED <<section, loaded>>
      BY <2>6 DEF Send
    <3> QED
      BY <3>1, ValidatedFound, ToldAfter, StopsAfter DEF FormInv, SentInv
  <2>7. CASE UNCHANGED vars
    BY <2>1, <2>7 DEF vars, inputs
  <2>8. ASSUME NEW row \in late, CryptDone(row) PROVE Told' /\ Stops'
    BY <2>1, <2>8 DEF CryptDone, inputs
  <2>9. CASE Load \/ Save \/ Reset
    BY <2>2, <2>9 DEF Load, Save, Reset
  <2>10. CASE Draw
    BY <2>3, <2>10 DEF Draw
  <2>11. CASE AddRow \/ (\E row \in DOMAIN table : RemoveRow(row)) \/ (\E i \in DOMAIN order : SortRow(i))
    <3>1. Redraw(table') /\ UNCHANGED <<section, loaded>>
      BY <2>11 DEF AddRow, RemoveRow, SortRow
    <3>2. PICK tb : tb = table'
      OBVIOUS
    <3> QED
      BY <2>3, <3>1, <3>2
  <2> QED
    BY <2>4, <2>5, <2>6, <2>7, <2>8, <2>9, <2>10, <2>11 DEF Next
<1> QED
  BY <1>2, <1>3 DEF ToldInv

THEOREM ErrorsTold == Spec => []ToldInv
<1>1. Init => ToldInv
  BY InitTold
<1>2. FormInv /\ SentInv /\ ToldInv /\ [Next]_vars => ToldInv'
  BY ToldStep
<1> QED
  BY <1>1, <1>2, FormSafe, SentSafe, PTL DEF Spec

\* Choices that are not loaded yet are fewer.
LEMMA OfferedNow ==
    ASSUME FocusOK, NEW f \in focus, section.fields[f].kind = "list"
    PROVE  /\ Field(f).optional = section.fields[f].optional
           /\ Field(f).datatype = section.fields[f].datatype
           /\ Offered(Field(f)) \subseteq Offered(section.fields[f])
<1> DEFINE made == section.fields[f]
<1>1. DOMAIN made = DOMAIN Value /\ {"optional", "datatype", "choices"} \subseteq DOMAIN Value
  BY DEF FocusOK, Value
<1> HIDE DEF made
<1> DEFINE bare == [made EXCEPT !.choices = <<>>]
<1>2. bare.optional = made.optional /\ bare.datatype = made.datatype /\ bare.choices = <<>>
  BY <1>1
<1>3. Field(f) = bare \/ Field(f) = made
  BY DEF Field, made
<1> HIDE DEF bare
<1>4. InSeq(bare.choices) = {}
  BY <1>2 DEF InSeq
<1>5. Offered(bare) \subseteq Offered(made)
  BY <1>2, <1>4 DEF Offered
<1> QED
  BY <1>2, <1>3, <1>5 DEF made

\* What is chosen from a list of texts that are all accepted is not wrong.
LEMMA NeverWrongHere ==
    ASSUME FocusOK, InputsFit(shown), NEW row \in DOMAIN shown, NEW g \in focus, ~Unseen(g),
           NeverWrong(section.fields[g])
    PROVE  Refused(shown, row, g) = {}
<1> SUFFICES ASSUME NEW n \in DOMAIN shown[row][g], Refuses(shown, row, g, shown[row][g][n]) PROVE FALSE
  BY DEF Refused
<1>1. /\ section.fields[g].kind = "list" /\ Field(g).kind = "list"
      /\ Offered(section.fields[g]) \ {""} \subseteq section.fields[g].datatype
      /\ "" \in Offered(section.fields[g]) => section.fields[g].optional
  BY FieldKeeps DEF NeverWrong, Refuses
<1>2. PICK t \in Offered(Field(g)) : shown[row][g] = <<t>>
  BY <1>1 DEF InputsFit, Entered
<1>3. /\ Field(g).optional = section.fields[g].optional /\ Field(g).datatype = section.fields[g].datatype
      /\ t \in Offered(section.fields[g])
  BY <1>1, <1>2, OfferedNow
<1>4. \A u : Allowed(shown, row, g, u)
  BY DEF Unseen, Allowed
<1>5. n = 1 /\ shown[row][g][n] = t
  BY <1>2
<1> QED
  BY <1>1, <1>3, <1>4, <1>5 DEF Refuses

\* If no visible input is wrong, neither is one that a field depends on whose
\* dependencies are met: it would be hidden, and so would that field.
LEMMA SourceAccepted ==
    ASSUME FormInv, SentInv, ToldInv, phase = "shown", AllSeen, ~Visible,
           NEW row \in DOMAIN shown, NEW f \in focus, Met(shown, table, row, f), NEW g \in Sources(f)
    PROVE  g \notin wrong[row]
<1>1. /\ FocusOK /\ Fitting /\ InputsFit(shown) /\ Free(hidden) /\ SourcesSound(section.fields)
      /\ Found(shown, wrong, marks) /\ DOMAIN hidden = DOMAIN shown
  BY DEF FormInv, SentInv, InputsOK, ToldInv, Told, Whole, Rows
<1>2. /\ g \in focus /\ g \in SourcesIn(section.fields, f)
      /\ \A h \in SourcesIn(section.fields, g) : h \in focus /\ SourcesIn(section.fields, h) = {}
  <2>1. g \in SourcesIn(section.fields, f)
    BY <1>1, DefSources
  <2> QED
    BY <1>1, <2>1 DEF FocusOK, Sound, focus
<1> SUFFICES ASSUME g \in wrong[row] PROVE FALSE
  OBVIOUS
<1>3. g \in hidden[row]
  BY DEF Visible
<1>4. SourcesIn(section.fields, g) # {}
  BY <1>1, <1>2, <1>3 DEF Free
<1>5. ~NeverWrong(section.fields[g])
  <2>1. Refused(shown, row, g) # {}
    BY <1>1 DEF Found
  <2> QED
    BY <1>1, <1>2, <2>1, NeverWrongHere DEF AllSeen
<1>6. AsksMore(section.fields[f], section.fields[g])
  BY <1>1, <1>2, <1>4, <1>5 DEF SourcesSound, focus
<1>7. Met(shown, table, row, g)
  <2>1. PICK alt \in Field(f).needs : \A h \in DOMAIN alt :
           Meets(FormVal(Field(h), table[row], shown[row][h]), alt[h])
    BY DEF Met
  <2>2. Field(f).needs = section.fields[f].needs /\ Field(g).needs = section.fields[g].needs
    BY <1>1, <1>2, FieldKeeps
  <2>3. PICK part \in Field(g).needs : \A h \in DOMAIN part : h \in DOMAIN alt /\ alt[h] = part[h]
    BY <1>6, <2>2 DEF AsksMore
  <2> QED
    BY <2>1, <2>3, Zenon DEF Met
<1>8. ASSUME NEW h \in Sources(g) PROVE HasEvents(Field(h)) /\ h \notin wrong[row]
  <2>1. h \in SourcesIn(section.fields, g)
    BY <1>1, <1>2, DefSources
  <2>2. h \in focus /\ h \notin hidden[row]
    BY <1>1, <1>2, <2>1 DEF Free
  <2>3. HasEvents(section.fields[h])
    BY <1>1, <1>2, <2>1 DEF SourcesSound, focus
  <2> QED
    BY <1>1, <2>2, <2>3, FieldKeeps DEF HasEvents, Visible
<1>9. Sources(g) # {}
  BY <1>1, <1>2, <1>4, DefSources
<1> QED
  BY <1>1, <1>2, <1>3, <1>7, <1>8, <1>9, HiddenIs DEF HiddenIsUnmet, Rows

LEMMA NothingNew ==
    ASSUME FormInv, SentInv, ToldInv, Send, AllSeen, ~Visible
    PROVE  ~Visible'
<1>1. /\ FocusOK /\ Whole /\ Fitting /\ Told /\ phase = "shown" /\ Validated(shown, table, hidden)
  BY DEF FormInv, ToldInv, Send
<1>2. Found(shown, wrong, marks) /\ \A row \in DOMAIN shown : DOMAIN shown[row] = focus
  BY <1>1 DEF Told, Whole, Rows
<1>3. PICK sh : sh = Emptied(shown, table)
  OBVIOUS
<1>4. /\ DOMAIN sh = DOMAIN shown
      /\ \A row \in DOMAIN shown, f \in focus : sh[row][f] = shown[row][f]
  <2>1. \A f \in focus : Field(f).own # "password"
    BY DEF AllSeen, Unseen
  <2>2. /\ DOMAIN Emptied(shown, table) = DOMAIN shown
        /\ \A row \in DOMAIN shown, f \in focus : Emptied(shown, table)[row][f] = shown[row][f]
    BY <2>1, EmptiedInputs
  <2> QED
    BY <1>3, <2>2
<1>5. /\ shown' = sh
      /\ \A row \in DOMAIN sh : wrong'[row] = WrongFields(sh, row) /\ hidden'[row] = HiddenNow(sh, table, row, hidden[row])
  BY <1>1, <1>3 DEF Validated
<1>6. \A row \in DOMAIN sh : WrongFields(sh, row) \subseteq wrong[row]
  <2>1. \A row \in DOMAIN sh, f \in focus : BadInputs(sh, row, f) = BadInputs(shown, row, f)
    BY <1>4, BadByText DEF AllSeen
  <2> QED
    BY <1>2, <1>4, <2>1 DEF Found, WrongFields
<1>7. ASSUME NEW row \in DOMAIN sh, NEW f \in wrong[row] PROVE f \in hidden'[row]
  <2>1. f \in hidden[row] /\ f \in focus
    BY <1>1, <1>4, <1>7 DEF Visible, Whole, Rows
  <2>2. \A g \in Sources(f) : g \in focus /\ HasEvents(Field(g))
    <3> SUFFICES ASSUME NEW g \in Sources(f) PROVE g \in focus /\ HasEvents(Field(g))
      OBVIOUS
    <3>1. g \in focus /\ g \in SourcesIn(section.fields, f)
      BY <1>1, <2>1, DefSources, DefSound DEF Sound
    <3>2. HasEvents(section.fields[g])
      BY <2>1, <3>1 DEF ToldInv, SourcesSound, focus
    <3> QED
      BY <1>1, <3>1, <3>2, FieldKeeps DEF HasEvents
  <2>3. Met(sh, table, row, f) <=> Met(shown, table, row, f)
    <3>1. SourcesIn(Def, f) = Sources(f)
      BY <1>1, <2>1, DefSources
    <3>2. \A g \in SourcesIn(Def, f) : HasEvents(Def[g]) /\ sh[row][g] = shown[row][g]
      BY <1>4, <2>2, <3>1 DEF Def
    <3>3. MetIn(Def, sh[row], table[row], f) <=> MetIn(Def, shown[row], table[row], f)
      BY <3>2, MetByTexts
    <3> QED
      BY <1>1, <2>1, <3>3, MetIs
  <2> SUFFICES ASSUME f \notin HiddenNow(sh, table, row, hidden[row]) PROVE FALSE
    BY <1>5
  <2>4. Sources(f) # {} /\ Met(shown, table, row, f)
    BY <2>1, <2>3 DEF HiddenNow
  <2>5. \A g \in Sources(f) : g \notin wrong[row]
    BY <1>1, <1>4, <2>1, <2>4, SourceAccepted
  <2> QED
    BY <1>1, <1>4, <2>1, <2>2, <2>4, <2>5, HiddenIs DEF HiddenIsUnmet, Rows
<1> QED
  BY <1>5, <1>6, <1>7 DEF Visible

-----------------------------------------------------------------------------
(* Results *)

\* The form is whole: every row stands once in the order, and every row that is drawn
\* has its inputs, marks, errors and hidden fields, whatever was added, removed and
\* moved while the passwords of other rows came back.
THEOREM FormTyped == Spec => []FormTypeOK
<1>1. FormInv => FormTypeOK
  BY WholeIsTyped DEF FormInv
<1> QED
  BY <1>1, FormSafe, PTL

\* A field is hidden exactly while none of its alternatives holds, for fields that depend
\* on accepted inputs: the toggling of handleValidate, which goes from field to field.
THEOREM HiddenAlways == Spec => []HiddenIsUnmet
<1>1. FormInv => HiddenIsUnmet
  BY HiddenIs DEF FormInv
<1> QED
  BY <1>1, FormSafe, PTL

\* What is sent for the fields that the user sees is of their datatypes, text by text, and
\* none is missing that has to be there: send lets go only a form without visible errors,
\* and save writes an option from what was validated, whatever the rows that were added,
\* removed and moved before had saved unchecked, and whatever password comes back meanwhile.
THEOREM SentValid == Spec => []SentIsValid
<1>1. SentInv => SentIsValid
  BY DEF SentInv
<1> QED
  BY <1>1, SentSafe, PTL

\* Names and numbers that have to differ between rows do when they are sent, and no port is
\* untagged twice: what the checks compare in the inputs is what the options are read as.
THEOREM NeverClash == Spec => []NoClash
<1>1. SentInv => NoClash
  BY DEF SentInv
<1> QED
  BY <1>1, SentSafe, PTL

\* A form that was on the screen is drawn again after everything the user can do: each select
\* finds its text among its choices, in rows that are new, saved or read back.
THEOREM ShownAgain == Spec => []OnceShown
<1>1. SentInv => OnceShown
  BY DEF SentInv
<1> QED
  BY <1>1, SentSafe, PTL

\* A form that shows no error is sent, if nothing in it is compared with other inputs, emptied
\* or drawn again: edit and send find the same errors, and what send shows again for being
\* met was shown before, as whatever it depends on was accepted.  And whatever the form has,
\* a combo box that was emptied, on which send breaks off, shows an error.
THEOREM AcceptedSent == Spec => AcceptedIsSent
<1> DEFINE Step == phase = "shown" /\ phase' = "shown" /\ edits' = edits /\ Visible' =>
                      Visible \/ \E f \in focus : Unseen(f)
           Seen == phase' = "shown" => \A row \in DOMAIN shown' : NothingSelected(row)' \subseteq wrong'[row]
<1>1. FormInv /\ SentInv /\ ToldInv /\ [Next]_vars => Step
  <2> SUFFICES ASSUME FormInv, SentInv, ToldInv, [Next]_vars, phase = "shown", phase' = "shown",
                      edits' = edits, Visible', ~Visible, AllSeen
               PROVE  FALSE
    BY Zenon DEF AllSeen
  <2>1. ~Send
    BY NothingNew
  <2>2. ~Acts
    BY DEF Acts, ToldInv
  <2>3. \A row \in late : ~CryptDone(row)
    BY DEF CryptDone, inputs, Visible
  <2>4. ~UNCHANGED vars
    BY DEF vars, inputs, Visible
  <2>5. ~Load /\ ~Draw /\ ~Save
    BY DEF Load, Draw, Save
  <2>6. ~AddRow /\ ~Reset
    BY <2>2 DEF AddRow, Reset
  <2>7. \A row, f : ~Edit(row, f) /\ ~Entry(row, f)
    BY <2>2, EntersActs
  <2>8. \A row : ~RemoveRow(row) /\ ~SortRow(row)
    BY <2>2, Zenon DEF RemoveRow, SortRow
  <2> QED
    BY <2>1, <2>3, <2>4, <2>5, <2>6, <2>7, <2>8, Zenon DEF Next
<1>2. ToldInv => Stops
  BY DEF ToldInv
<1>3. Stops' => Seen
  BY DEF Stops, Stopped, Nothing, NothingSelected
<1> QED
  BY <1>1, <1>2, <1>3, FormSafe, SentSafe, ErrorsTold, PTL DEF Spec, AcceptedIsSent
=============================================================================
