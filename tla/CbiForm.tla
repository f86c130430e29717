------------------------------- MODULE CbiForm -------------------------------
(***************************************************************************)
(* A form of the interface, cbi.js: the map, a section of it and the       *)
(* inputs of every row, from the loading of the packages over what the     *)
(* user enters, adds, removes and moves to the sending and the drawing of  *)
(* what the router then holds.                                             *)
(*                                                                         *)
(* The table the form reads and writes is the one ConfigTable promises and *)
(* uci.js keeps (see UciState).  A form is one section of a map, since     *)
(* sections share nothing; and in focus is one field of it with the fields *)
(* that it depends on or is saved with.  What fields share otherwise is    *)
(* the order in which they are validated, which matters only where that    *)
(* breaks off (see Send).                                                  *)
(***************************************************************************)
EXTENDS CbiValue, FiniteSets, SequencesExt

CONSTANTS
    Forms,          \* the sections: their fields, and how rows come and go
    Held(_),        \* values the router may hold for a field
    Typed(_),       \* texts the user types into a field
    RowNames,       \* names for new rows, in the order they are taken
    VlanIds,        \* the numbers a switch has for its VLANs
    MaxEdits        \* operations of the user on one form

VARIABLES
    section,        \* the section, with the fields looked at
    router,         \* the rows and their order, as the router holds them
    table,          \* table[row]: the options, as the form reads them
    order,          \* the names of the rows, as they stand
    shown,          \* shown[row][field]: the texts in the inputs
    hidden,         \* hidden[row]: the fields taken away by their depends
    wrong,          \* wrong[row]: the fields that show an error
    marks,          \* marks[row][field]: the inputs marked as wrong
    loaded,         \* choices were loaded, there being a row to load them for
    came,           \* the form has been on the screen
    phase,          \* how far the form is between opening and sent, or "broken"
    late,           \* rows whose password is encrypted while the form goes on
    edits           \* how often the user did something

inputs == <<shown, hidden, wrong, marks>>
vars   == <<section, router, table, order, inputs, loaded, came, phase, late, edits>>

focus == DOMAIN section.fields

\* A list that loads its choices for each row has none where no row was.
Field(f) ==
    LET made == section.fields[f]
    IN  IF made.lazy /\ ~loaded THEN [made EXCEPT !.choices = <<>>] ELSE made

SourcesIn(fields, f) == UNION {DOMAIN alt : alt \in fields[f].needs}
Sources(f)           == SourcesIn(section.fields, f)
FormValue(row, f)    == FormVal(Field(f), table[row], shown[row][f])

-----------------------------------------------------------------------------
(***************************************************************************)
(* Validation.  The operators take the inputs as an argument, since a      *)
(* drawn form is validated before the next thing happens.                  *)
(***************************************************************************)
Same(sh, f, t) == {row \in DOMAIN sh : sh[row][f] = <<t>>}

\* Mutant of Allowed: looks at no other input.
AllowedAlone(sh, row, f, t) == TRUE

\* What the datatype functions of some pages look up in other inputs.
Allowed(sh, row, f, t) ==
    CASE Field(f).rule = "unique"        -> Cardinality(Same(sh, f, t)) < 2
      [] Field(f).rule = "all unique"    -> \A r \in DOMAIN sh : sh[r][f] # <<"">>
                                               => Same(sh, f, sh[r][f][1]) = {r}
      [] Field(f).rule = "untagged once" -> t = "u" => Cardinality(Same(sh, f, t)) < 2
      [] Field(f).rule = "as pass1"      -> sh[row]["pass1"] \in {<<"">>, <<t>>}
      [] OTHER                           -> TRUE

\* The kinds whose inputs are validated; boxes and buttons are never wrong.
Validating == {"input", "password", "list", "combo", "dynamic"}

\* Mutant of Refuses: takes every field for optional.
RefusesNoEmpty(sh, row, f, t) ==
    /\ Field(f).kind \in Validating
    /\ t # "" /\ (t \notin Field(f).datatype \/ ~Allowed(sh, row, f, t))

\* handleValidate, for one input with the text t.
Refuses(sh, row, f, t) ==
    LET def == Field(f)
    IN  /\ def.kind \in Validating
        /\ \/ t = "" /\ ~def.optional
           \/ t # "" /\ (t \notin def.datatype \/ ~Allowed(sh, row, f, t))

\* A combo box is an input and a select, of which the select is validated last, and
\* its verdict stands.  It holds the text of the input; but without choices one that
\* is optional holds its first entry, which is empty, and any other, for want of a
\* text, the entry that asks for one.
Blank == " "
Checked(def, t) ==
    CASE def.kind # "combo" \/ def.choices # <<>> -> t
      [] OTHER -> IF def.optional THEN "" ELSE IF t = "" THEN Blank ELSE t

Bad(sh, row, f, n) == Refuses(sh, row, f, Checked(Field(f), sh[row][f][n]))

BadInputs(sh, row, f) == {n \in DOMAIN sh[row][f] : Bad(sh, row, f, n)}
WrongFields(sh, row)  == {f \in focus : BadInputs(sh, row, f) # {}}

\* toggle: one alternative of depends has to hold with all it asks for.
Met(sh, tb, row, f) ==
    \E alt \in Field(f).needs : \A g \in DOMAIN alt :
        Meets(FormVal(Field(g), tb[row], sh[row][g]), alt[g])

\* Mutant of HiddenNow: toggles nothing when the form is drawn.
HiddenKept(sh, tb, row, before) == before

\* An accepted input shows and hides the fields that depend on it.
HiddenNow(sh, tb, row, before) ==
    LET accepted == {g \in focus : HasEvents(Field(g))} \ WrongFields(sh, row)
    IN  {f \in focus : IF Sources(f) \cap accepted # {} THEN ~Met(sh, tb, row, f) ELSE f \in before}

\* The account form empties the password of a system account that the user
\* wants no longer to be one, whenever the box for it is checked over.
SystemAccount(opts) == opts["password"].v # <<>> /\ opts["password"].v[1] \in systemAccount
Emptied(sh, tb) ==
    Made([row \in DOMAIN sh |-> Made([f \in focus |->
        IF Field(f).own = "password" /\ sh[row]["__shadow"] = <<>> /\ SystemAccount(tb[row])
        THEN <<"">> ELSE sh[row][f]])])

\* Validation of the whole form, with hidden fields as they were before.
Validated(inputsNow, tb, before) ==
    \E sh \in {Emptied(inputsNow, tb)} :
        /\ shown' = sh
        /\ wrong' = [row \in DOMAIN sh |-> WrongFields(sh, row)]
        /\ marks' = [row \in DOMAIN sh |-> [f \in focus |-> BadInputs(sh, row, f)]]
        /\ hidden' = [row \in DOMAIN sh |-> HiddenNow(sh, tb, row, before[row])]

-----------------------------------------------------------------------------
(***************************************************************************)
(* Drawing: the widgets are made anew from the table and validated once.   *)
(* A select that could select nothing has no text to be validated, and the *)
(* error leaves the form hidden.                                           *)
(***************************************************************************)
Drawn(tb) == Made([row \in DOMAIN tb |-> Made([f \in focus |-> Widget(Field(f), tb[row])])])

Unshowable(sh) == \E row \in DOMAIN sh, f \in focus : Field(f).kind = "list" /\ sh[row][f] = <<>>

Redraw(tb) ==
    /\ \E drawn \in {Drawn(tb)} :
        /\ Validated(drawn, tb, [row \in DOMAIN tb |-> {}])
        /\ phase' = IF Unshowable(drawn) THEN "broken" ELSE "shown"
    /\ came' = (came \/ phase' = "shown")

-----------------------------------------------------------------------------
(***************************************************************************)
(* Saving: the options that the fields of a row write, for the widgets     *)
(* that follow the rule and for the ones with a save of their own.         *)
(***************************************************************************)
Number(val, default) == IF val = Undefined THEN default ELSE val.v[1]

\* Both fields of the LCP echo are read from the form of interface "wan".
Keepalive ==
    LET Read(f) == IF "wan" \in DOMAIN shown THEN FormValue("wan", f) ELSE Undefined
        failure == Number(Read("_keepalive_failure"), "0")
    IN  IF Shape[failure].num > 0
        THEN [is |-> "string", v |-> <<failure, Number(Read("_keepalive_interval"), "5")>>]
        ELSE Undefined

Ports(row) ==
    LET Port(p) == CASE shown[row][p] = <<"t">> -> <<Field(p).enabled>>
                     [] shown[row][p] = <<"u">> -> <<Field(p).disabled>>
                     [] OTHER -> <<>>
        joined == Port("0") \o Port("1")
    IN  IF joined = <<>> THEN Undefined ELSE [is |-> "string", v |-> joined]

\* An account's password: the mark of a system account, a hash as it is, or
\* a text that the router encrypts and whose answer is written later.
Wish(row) ==
    IF FormValue(row, "__shadow") = Bool(TRUE) THEN Str("$p$user") ELSE FormValue(row, "password")
IsPlain(val) == val # Undefined /\ val.v[1] \notin hash
Account(row) == IF Wish(row) = Undefined \/ IsPlain(Wish(row)) THEN table[row]["password"] ELSE Wish(row)

\* The options a field writes, and what it writes into each.
Writes(def) ==
    IF def.own \in {"none", "elsewhere", "tunnel", "port"} \/ def.kind \in {"dummy", "button"} THEN {}
    ELSE CASE def.own \in {"shadow", "password"}  -> {"password"}
           [] def.own \in {"failure", "interval"} -> {"keepalive"}
           [] def.own = "dns6" -> {"dhcp_option"}
           [] def.own = "zone" -> {def.option, "timezone"}
           [] def.own = "vid"  -> {def.option, "ports"}
           [] OTHER            -> {def.option}

Puts(row, f) ==
    LET def == Field(f)
        val == Saved(def, table[row], shown[row][f], f \in hidden[row])
        dns == FormValue(row, f).v
    IN
    [o \in Writes(def) |->
        CASE def.own \in {"shadow", "password"}  -> Account(row)
          [] def.own \in {"failure", "interval"} -> Keepalive
          [] def.own = "dns6" -> IF dns = <<>> THEN Undefined ELSE List(<<"6">> \o dns)
          [] def.own = "zone" /\ o = "timezone" /\ val = table[row][def.option] -> table[row][o]
          [] def.own = "vid" /\ o = "ports" -> Ports(row)
          [] OTHER -> val]

Written(row, puts) ==
    Made([o \in DOMAIN table[row] |->
        LET writers == {f \in focus : o \in DOMAIN puts[f] /\ puts[f][o] # table[row][o]}
        IN  IF writers = {} THEN table[row][o] ELSE puts[CHOOSE f \in writers : TRUE][o]])

SavedRow(row) == Written(row, Made([f \in focus |-> Puts(row, f)]))
SavedTable == Made([row \in DOMAIN table |-> SavedRow(row)])

\* The passwords that a save sends to the router for encryption.
ToCrypt == {row \in DOMAIN table : {"__shadow", "password"} \subseteq focus /\ IsPlain(Wish(row))}
Encrypted(tb, rows) ==
    [row \in DOMAIN tb |-> IF row \in rows THEN [tb[row] EXCEPT !["password"] = Str("$1$new")] ELSE tb[row]]

-----------------------------------------------------------------------------
(***************************************************************************)
(* Opening.  A row holds the options of the fields in focus, those that    *)
(* new rows are given and those that the form is only shown for.           *)
(***************************************************************************)
Grown(fields, set) ==
    set \cup UNION {SourcesIn(fields, f) \cup fields[f].with : f \in set}
Focus(fields, f) == Grown(fields, Grown(fields, Grown(fields, {f})))

\* What the pages say of their fields: those in focus depend on each other only,
\* at most over one in between; and no field depends on a list of texts or on
\* the password of an account, whose inputs change without being validated, or
\* on one that is compared with another password.
ASSUME FormsAssumption ==
    \A made \in Forms :
        /\ DOMAIN made = {"fields", "addremove", "sortable", "preset", "given", "rows"}
        /\ IsFiniteSet(DOMAIN made.fields)
        /\ \A f \in DOMAIN made.fields :
              LET fields == made.fields IN
              /\ DOMAIN fields[f] = DOMAIN Value /\ Focus(fields, f) \subseteq DOMAIN fields
              /\ \A g \in Focus(fields, f) : SourcesIn(fields, g) \subseteq Focus(fields, f)
              /\ \A g \in SourcesIn(fields, f) :
                    /\ fields[g].own # "password" /\ fields[g].kind # "dynamic" /\ fields[g].rule # "as pass1"
                    /\ \A h \in SourcesIn(fields, g) : SourcesIn(fields, h) = {}

\* The largest of these, which hold all the others, and of those that say the
\* same of their fields only one: what a field does is not up to its name.
Foci(fields) ==
    LET all      == {Focus(fields, f) : f \in DOMAIN fields}
        largest  == {set \in all : \A other \in all : set \subseteq other => set = other}
        Said(set) == {[fields[f] EXCEPT !.option = IF @ = f THEN "" ELSE @] : f \in set}
    IN  {CHOOSE set \in largest : Said(set) = said : said \in {Said(set) : set \in largest}}

\* A field that is stored as it was entered.
Plain == {"", "zone"}

\* Two fields of the same option differ only in what they offer and depend on;
\* no other field writes it; and the option of a password that the router
\* encrypts, or a list that new rows begin with a number, is none of them.
OptionsSound(fields) ==
    \A f \in DOMAIN fields : fields[f].own \in Plain =>
        LET def == fields[f] IN
        /\ def.own = "zone" => def.option # "timezone"
        /\ def.kind = "dynamic" => def.option # "vlan"
        /\ def.option = "password" => ~({"__shadow", "password"} \subseteq DOMAIN fields)
        /\ \A g \in DOMAIN fields \ {f} : def.option \in Writes(fields[g]) =>
              /\ def.own = "" /\ def.keep /\ fields[g].option = def.option
              /\ \A part \in {"own", "kind", "datatype", "optional", "initial", "keep"} :
                    fields[g][part] = def[part]

\* What a select starts with, in a new row or for want of an option, is among
\* its choices.
Preset(made, o) == IF o \in DOMAIN made.preset THEN made.preset[o] ELSE Undefined

ChoicesSound(made) ==
    \A f \in DOMAIN made.fields : made.fields[f].kind = "list" =>
        LET def == made.fields[f] IN
        /\ def.keep /\ def.own \in Plain \cup {"blind", "port"}
        /\ def.own = "blind" => ~def.lazy /\ 1 \in DOMAIN def.choices
        /\ def.own = "port" => ~def.lazy /\ {"n", "u", "t"} \subseteq InSeq(def.choices)
        /\ def.own \in Plain /\ def.initial # Undefined =>
              ListText(def.initial) \in InSeq(def.choices) /\ ~(def.lazy /\ def.optional)
        /\ def.own \in Plain /\ made.addremove =>
              /\ def.option # "vlan"
              /\ ListText(Base(def, [o \in {def.option} |-> Preset(made, o)])) \in Offered(def)

\* Fields that are compared between rows are always there, and each is written
\* by itself, but for the ports, which the number of a VLAN writes for both.
ClashSound(made) ==
    \A f \in DOMAIN made.fields :
        LET fields == made.fields
            def == fields[f]
            Writers(o) == {g \in DOMAIN fields : o \in Writes(fields[g])}
        IN  /\ def.rule \in {"unique", "all unique", "untagged once"} => def.needs = {}
            /\ def.rule \in {"unique", "all unique"} =>
                  def.kind = "input" /\ ~def.optional /\ Writers(def.option) = {f}
            /\ def.rule = "unique" => def.own = "" /\ def.initial = Undefined
            /\ def.rule = "all unique" =>
                  /\ def.own = "vid" /\ def.option = "vid" /\ def.datatype \subseteq float
                  /\ Writers("vlan") = {} /\ "vlan" \in DOMAIN made.preset
            /\ def.rule = "untagged once" =>
                  /\ def.kind = "list" /\ def.option = "ports" /\ f \in {"0", "1"} /\ {"0", "1"} \subseteq DOMAIN fields
                  /\ def.disabled \notin {fields["0"].enabled, fields["1"].enabled}
                  /\ fields["0"].disabled # fields["1"].disabled
                  /\ Writers("ports") # {} /\ \A g \in Writers("ports") : fields[g].own = "vid" /\ fields[g].option # "ports"

\* What other fields depend on tells of it when it is accepted; and if it may be
\* hidden itself, either whatever can be chosen there is accepted, or those others
\* ask for all that it asks for.
NeverWrong(def) ==
    \/ def.kind \notin Validating
    \/ /\ def.kind = "list" /\ Offered(def) \ {""} \subseteq def.datatype
       /\ "" \in Offered(def) => def.optional

AsksMore(def, source) ==
    \A alt \in def.needs : \E part \in source.needs :
        \A g \in DOMAIN part : g \in DOMAIN alt /\ alt[g] = part[g]

SourcesSound(fields) ==
    \A f \in DOMAIN fields : \A g \in SourcesIn(fields, f) :
        /\ HasEvents(fields[g])
        /\ SourcesIn(fields, g) = {} \/ NeverWrong(fields[g]) \/ AsksMore(fields[f], fields[g])

\* A combo box without choices accepts what its select holds instead of its text:
\* one that may stay without choices has to be filled, and has a datatype that refuses
\* the blank, or an initial value for want of an option.
CombosSound(fields) ==
    \A f \in DOMAIN fields : fields[f].kind = "combo" =>
        /\ fields[f].own # "password"
        /\ \/ fields[f].choices # <<>> /\ ~fields[f].lazy
           \/ ~fields[f].optional /\ (fields[f].initial # Undefined \/ Blank \notin fields[f].datatype)

\* Where a select may select nothing, the fields that are validated with it are
\* never wrong and always there: so that nothing is left to do behind it.
StopsAlone(fields) ==
    \A f \in DOMAIN fields :
        fields[f].kind = "combo" /\ ~fields[f].optional /\ fields[f].choices # <<>> /\ ~HasEmpty(fields[f]) =>
            \A g \in DOMAIN fields \ {f} : NeverWrong(fields[g]) /\ fields[g].needs = {}

ASSUME CombosAssumption == \A made \in Forms : CombosSound(made.fields)
ASSUME StopsAssumption ==
    \A made \in Forms : \A names \in Foci(made.fields) :
        StopsAlone([f \in names |-> made.fields[f]])
ASSUME OptionsAssumption == \A made \in Forms : OptionsSound(made.fields)
ASSUME ChoicesAssumption == \A made \in Forms : ChoicesSound(made)
ASSUME SourcesAssumption == \A made \in Forms : SourcesSound(made.fields)
ASSUME ClashAssumption ==
    \A made \in Forms : \A names \in Foci(made.fields) :
        ClashSound([made EXCEPT !.fields = [f \in names |-> made.fields[f]]])

\* What the router holds is a text, which has parts, or a list of them.
Splits(val) == Split(val) \in Seq(InSeq(Split(val)))

ASSUME HeldAssumption ==
    \A made \in Forms :
        /\ \A f \in DOMAIN made.fields :
              /\ \A val \in Held(made.fields[f]) : Splits(val)
              /\ made.fields[f].kind = "dynamic" => Splits(made.fields[f].initial)
        /\ \A o \in DOMAIN made.preset : Splits(made.preset[o])
        /\ \A o \in DOMAIN made.given : Splits(made.given[o])

FieldsFor(o) == {f \in focus : section.fields[f].option = o}
Options      == {section.fields[f].option : f \in focus} \cup DOMAIN section.preset \cup DOMAIN section.given

HeldFor(o) == IF o \in DOMAIN section.given THEN {section.given[o]}
              ELSE IF FieldsFor(o) = {} THEN {section.preset[o]}
              ELSE UNION {Held(section.fields[f]) : f \in FieldsFor(o)}

\* Put together option by option, as TLC could not choose them from all functions.
HeldParts == FoldSet(LAMBDA o, rows : {(o :> val) @@ row : row \in rows, val \in HeldFor(o)}, {<<>>}, Options)
HeldRows  == {row \in HeldParts : DOMAIN row = Options /\ \A o \in Options : row[o] \in HeldFor(o)}

Init ==
    /\ \E made \in Forms : \E names \in Foci(made.fields) :
          section = [made EXCEPT !.fields = Made([f \in names |-> made.fields[f]])]
    /\ order \in {<<r>> : r \in section.rows} \cup (IF section.addremove THEN {<<>>} ELSE {})
    /\ table \in [InSeq(order) -> HeldRows]
    /\ router = [table |-> table, order |-> order]
    /\ shown = <<>> /\ hidden = <<>> /\ wrong = <<>> /\ marks = <<>>
    /\ loaded = FALSE /\ came = FALSE /\ phase = "opening" /\ late = {} /\ edits = 0

\* load: the router answered, what was sent is what it holds, and the fields
\* of every row load their choices.
Load ==
    /\ phase \in {"opening", "sending"}
    /\ router' = IF phase = "sending" THEN [table |-> table, order |-> order] ELSE router
    /\ loaded' = (loaded \/ order # <<>>)
    /\ phase' = "loading"
    /\ UNCHANGED <<section, table, order, inputs, came, late, edits>>

Draw ==
    /\ phase = "loading"
    /\ Redraw(table)
    /\ UNCHANGED <<section, router, table, order, loaded, late, edits>>

-----------------------------------------------------------------------------
(***************************************************************************)
(* Entering.                                                               *)
(***************************************************************************)
Acts == phase = "shown" /\ edits < MaxEdits /\ edits' = edits + 1

Toggled(ts, t, all) == Chosen(all, IF t \in InSeq(ts) THEN InSeq(ts) \ {t} ELSE InSeq(ts) \cup {t})

\* What one act of the user can make of the inputs of a field.
Entries(def, now) ==
    CASE def.kind = "checkbox" -> {IF now = <<>> THEN <<"true">> ELSE <<>>}
      [] def.kind = "list"     -> {<<t>> : t \in Offered(def)}
      [] def.kind = "combo"    -> {<<t>> : t \in InSeq(def.choices) \cup Typed(def)}
      [] def.kind = "multi"    -> {Toggled(now, t, def.choices) : t \in InSeq(def.choices)}
      [] def.kind = "network"  -> IF def.multiple THEN {Toggled(now, t, Interfaces) : t \in InSeq(Interfaces)}
                                  ELSE {<<t>> : t \in InSeq(Interfaces) \cup {""}}
      [] def.kind = "dynamic"  -> {[now EXCEPT ![n] = t] : n \in DOMAIN now, t \in Typed(def)}
      [] def.kind \in {"dummy", "button"} -> {}
      [] OTHER                 -> {<<t>> : t \in Typed(def)}

\* Mutant of Reached: validates the field itself only.
ReachedNever(sh, row, f) == {}

\* The fields that are validated again since one they depend on was accepted.
Reached(sh, row, f) ==
    LET After(set) == {g \in focus : Sources(g) \cap set # {}}
        direct     == After({f})
    IN  direct \cup After(direct \ WrongFields(sh, row))

Edit(row, f) ==
    /\ Acts
    /\ \E new \in Entries(Field(f), shown[row][f]) \ {shown[row][f]} :
        LET sh    == [shown EXCEPT ![row][f] = new]
            n     == IF Field(f).kind = "dynamic" THEN CHOOSE i \in DOMAIN new : new[i] # shown[row][f][i] ELSE 1
            bad   == Refuses(sh, row, f, new[n])
            mk    == IF bad THEN marks[row][f] \cup {n} ELSE marks[row][f] \ {n}
            again == IF HasEvents(Field(f)) /\ mk = {} THEN Reached(sh, row, f) ELSE {}
            sh2   == IF "password" \in again THEN Emptied(sh, table) ELSE sh
            errs  == {g \in again : BadInputs(sh2, row, g) # {}} \cup IF bad THEN {f} ELSE {}
            fine  == again \cup IF mk = {} THEN {f} ELSE {}
        IN  /\ shown' = sh2
            /\ marks' = [marks EXCEPT ![row] = [g \in focus |->
                            IF g \in again THEN BadInputs(sh2, row, g)
                            ELSE IF g = f THEN mk ELSE marks[row][g]]]
            /\ wrong' = [wrong EXCEPT ![row] = (@ \ fine) \cup errs]
            /\ hidden' = [hidden EXCEPT ![row] =
                            (@ \ again) \cup {g \in again : ~Met(sh2, table, row, g)}]
    /\ UNCHANGED <<section, router, table, order, loaded, came, phase, late>>

\* Entries of a list come and go without validation: the inputs are new and
\* not marked, and an error that was shown stays.
Entry(row, f) ==
    /\ Acts
    /\ Field(f).kind = "dynamic"
    /\ LET now  == shown[row][f]
           more == {InsertAt(now, n, "") : n \in 2 .. Len(now) + 1}
           less == {RemoveAt(now, n) : n \in {i \in DOMAIN now : i < Len(now) \/ now[i] = ""}}
       IN  \E new \in more \cup less : shown' = [shown EXCEPT ![row][f] = IF new = <<>> THEN <<"">> ELSE new]
    /\ marks' = [marks EXCEPT ![row][f] = {}]
    /\ UNCHANGED <<section, router, table, order, hidden, wrong, loaded, came, phase, late>>

-----------------------------------------------------------------------------
(***************************************************************************)
(* Rows.  Each of these saves what was entered, without validating it and  *)
(* without waiting for passwords to come back, and draws the form again.   *)
(***************************************************************************)
Taken    == DOMAIN table \cup DOMAIN router.table \cup late
FreeName == {RowNames[i] : i \in {j \in DOMAIN RowNames :
                /\ RowNames[j] \notin Taken
                /\ \A k \in 1 .. j - 1 : RowNames[k] \in Taken}}

\* A VLAN takes the first number that is free; without one none is added.
FreeVlans == SelectSeq(VlanIds, LAMBDA id : \A row \in DOMAIN table : table[row]["vlan"].v # <<id>>)
\* Mutant of NewRow: forgets what the page sets in handleAdd.
NewRowBare == [o \in Options |-> Undefined]

NewRow ==
    Made([o \in Options |-> IF o = "vlan" THEN Num(FreeVlans[1]) ELSE Preset(section, o)])

AddRow ==
    /\ Acts
    /\ section.addremove
    /\ \E name \in FreeName :
          IF "vlan" \in Options /\ FreeVlans = <<>>
          THEN table' = SavedTable /\ UNCHANGED order
          ELSE /\ table' = Made([row \in DOMAIN table \cup {name} |->
                                IF row = name THEN NewRow ELSE SavedRow(row)])
               /\ order' = Append(order, name)
    /\ late' = late \cup ToCrypt
    /\ Redraw(table')
    /\ UNCHANGED <<section, router, loaded>>

\* Mutant of RemoveRow: leaves the row where it stood.
RemoveRowUnlisted(row) ==
    /\ Acts
    /\ section.addremove
    /\ table' = Made([r \in DOMAIN table \ {row} |-> SavedRow(r)])
    /\ late' = late \cup ToCrypt
    /\ Redraw(table')
    /\ UNCHANGED <<section, router, order, loaded>>

RemoveRow(row) ==
    /\ Acts
    /\ section.addremove
    /\ table' = Made([r \in DOMAIN table \ {row} |-> SavedRow(r)])
    /\ \E i \in DOMAIN order : order[i] = row /\ order' = RemoveAt(order, i)
    /\ late' = late \cup ToCrypt
    /\ Redraw(table')
    /\ UNCHANGED <<section, router, loaded>>

\* A row changes places with the one before it.
SortRow(i) ==
    /\ Acts
    /\ section.sortable /\ i > 1
    /\ order' = [order EXCEPT ![i] = order[i - 1], ![i - 1] = order[i]]
    /\ table' = SavedTable
    /\ late' = late \cup ToCrypt
    /\ Redraw(table')
    /\ UNCHANGED <<section, router, loaded>>

\* The router's answer, written into the row if that still exists.  It is
\* lost when what is to be saved was already taken.
CryptDone(row) ==
    /\ row \in late
    /\ late' = late \ {row}
    /\ table' = IF phase = "sending" THEN table ELSE Encrypted(table, {row})
    /\ UNCHANGED <<section, router, order, inputs, loaded, came, phase, edits>>

-----------------------------------------------------------------------------
(***************************************************************************)
(* Sending.                                                                *)
(***************************************************************************)
Visible == \E row \in DOMAIN shown : wrong[row] \ hidden[row] # {}

\* Combo boxes that were emptied: their select has no such entry and selects nothing.
NothingSelected(row) ==
    {f \in focus :
        /\ Field(f).kind = "combo" /\ ~Field(f).optional
        /\ Field(f).choices # <<>> /\ ~HasEmpty(Field(f))
        /\ shown[row][f] = <<"">>}

\* send: the form is validated, and only one without visible errors goes on
\* to be saved.  On a select with nothing selected the validation breaks off with
\* an error of the program, and nothing is sent.
Send ==
    /\ phase = "shown"
    /\ \A row \in DOMAIN shown : NothingSelected(row) = {}
    /\ Validated(shown, table, hidden)
    /\ phase' = IF Visible' THEN "shown" ELSE "saving"
    /\ UNCHANGED <<section, router, table, order, loaded, came, late, edits>>

\* save, once the passwords have come back.
Save ==
    /\ phase = "saving"
    /\ table' = Encrypted(SavedTable, ToCrypt)
    /\ phase' = "sending"
    /\ UNCHANGED <<section, router, order, inputs, loaded, came, late, edits>>

\* reset: the packages are forgotten, with all that was entered.
Reset ==
    /\ Acts
    /\ table' = router.table /\ order' = router.order
    /\ shown' = <<>> /\ hidden' = <<>> /\ wrong' = <<>> /\ marks' = <<>>
    /\ phase' = "opening"
    /\ UNCHANGED <<section, router, loaded, came, late>>

Next ==
    \/ Load
    \/ Draw
    \/ \E row \in DOMAIN table, f \in focus : Edit(row, f) \/ Entry(row, f)
    \/ AddRow
    \/ \E row \in DOMAIN table : RemoveRow(row)
    \/ \E i \in DOMAIN order : SortRow(i)
    \/ \E row \in late : CryptDone(row)
    \/ Send
    \/ Save
    \/ Reset

Spec == Init /\ [][Next]_vars

-----------------------------------------------------------------------------
(***************************************************************************)
(* Properties.                                                             *)
(***************************************************************************)
Rows == DOMAIN shown

\* What the inputs show is there for every row and field, and no row is
\* known to one part of the form only.
FormTypeOK ==
    /\ phase \in {"opening", "loading", "shown", "saving", "sending", "broken"}
    /\ order \in Seq(DOMAIN table) /\ InSeq(order) = DOMAIN table /\ IsInjective(order)
    /\ Rows = DOMAIN hidden /\ Rows = DOMAIN wrong /\ Rows = DOMAIN marks
    /\ Rows \in {{}, DOMAIN table}
    /\ \A row \in Rows : hidden[row] \cup wrong[row] \subseteq focus /\ DOMAIN shown[row] = focus

\* A field is taken away exactly while none of the alternatives it depends on
\* holds for what the inputs show, as long as those inputs are accepted: the
\* toggling along rdependency in handleValidate, whatever was typed, drawn
\* again, added or removed before.
HiddenIsUnmet ==
    phase = "shown" =>
        \A row \in Rows, f \in focus :
            Sources(f) # {} /\ (\A g \in Sources(f) : HasEvents(Field(g)) /\ g \notin wrong[row])
                => (f \in hidden[row] <=> ~Met(shown, table, row, f))

\* What a field may leave in its option.
Fits(def, val) ==
    IF val = Undefined THEN def.optional \/ def.initial # Undefined \/ def.kind = "dynamic"
    ELSE InSeq(IF def.kind = "dynamic" THEN Split(val) ELSE val.v) \subseteq def.datatype

\* The options a form sends for the fields that the user sees are of the
\* datatype of the field, a list in each of its texts, and none is missing
\* that has to be there; what adding, removing and sorting rows saved
\* without a check included.
SentIsValid ==
    phase = "sending" =>
        \A row \in Rows, f \in focus :
            Field(f).kind \in Validating /\ Field(f).own \in Plain /\ f \notin hidden[row] =>
                Fits(Field(f), table[row][Field(f).option])

\* Across rows: the names of zones and the numbers of VLANs, as the form reads
\* them, differ, and a port is untagged in one VLAN only, when a form is sent.
NoClash ==
    phase = "sending" =>
        \A f \in focus, r, s \in Rows : r # s =>
            LET def == Field(f)
                Of(row) == table[row][def.option]
            IN  /\ def.rule \in {"unique", "all unique"} => Uci(def, table[r]).v # Uci(def, table[s]).v
                /\ def.rule = "untagged once" => def.disabled \notin InSeq(Of(r).v) \cap InSeq(Of(s).v)

\* Why a form that showed no error may be refused: another input changed what
\* is allowed, the password of a system account was emptied, or an entry that
\* was marked as wrong lost its mark when the list was drawn again.
Unseen(f) == Field(f).rule # "" \/ Field(f).own = "password" \/ Field(f).kind = "dynamic"

\* Save is refused only if the user saw an error before, but for these cases:
\* an accepted input says that the form takes it.  A combo box that stops the
\* validation, and with it the sending, shows an error.
AcceptedIsSent ==
    [][/\ phase = "shown" /\ phase' = "shown" /\ edits' = edits /\ Visible' =>
            Visible \/ \E f \in focus : Unseen(f)
       /\ phase' = "shown" => \A row \in DOMAIN shown' : NothingSelected(row)' \subseteq wrong'[row]]_vars

\* What is not read back as it was entered: a field that starts with a value
\* and was emptied; a combo box with choices that has to be filled and was
\* emptied, which is saved as unset and drawn with its first choice; a field that is not stored, or shown from elsewhere; the
\* password of an account, which comes back encrypted, and a box that leaves a
\* system account without one, or that was checked while an earlier password
\* was being encrypted, whose answer then wins; the LCP echo unless it is that
\* of "wan" with both numbers; a VLAN number that is none.
Forgotten(row, f) ==
    LET def == Field(f)
        val == FormValue(row, f)
    IN  \/ def.initial # Undefined /\ val = Undefined
        \/ def.kind = "combo" /\ def.choices # <<>> /\ ~def.optional /\ val = Undefined
        \/ def.own \in {"none", "blind", "password", "elsewhere", "tunnel"}
        \/ def.own = "shadow" /\ (val = Bool(FALSE) \/ table[row]["password"] = Str("$1$new"))
        \/ def.own \in {"failure", "interval"} /\ (row # "wan" \/ Keepalive = Undefined \/ val = Undefined)
        \/ def.own = "vid" /\ (val = Undefined \/ val.v[1] \notin float)

\* What the user entered in a field he sees is still there after the form was
\* saved and drawn again, be it by sending it or by adding, removing or moving
\* a row: save, ucivalue and widget of every kind of field fit together.
EnteredStays ==
    [][edits' = edits \/ order' # order =>
        \A row \in Rows \cap DOMAIN shown', f \in focus :
            f \in hidden[row] \/ Forgotten(row, f)
              \/ FormVal(Field(f), table'[row], shown'[row][f]) = FormValue(row, f)]_vars

\* The parts of a value, however it is written.
Parts(val) == IF val.is = "string" /\ Len(val.v) = 1 THEN InSeq(Shape[val.v[1]].tokens) ELSE InSeq(val.v)

\* The values that a form cannot show and hence does not keep: names of no
\* choice or interface, several texts in an input for one, options of the
\* DHCP server besides the name servers, a LCP echo of another interface than
\* "wan" or without the interval, plain passwords, and what is hidden and not kept.
Lossy(row, f) ==
    LET def == Field(f)
        val == router.table[row][def.option]
    IN  \/ f \in hidden[row] /\ ~def.keep
        \/ def.kind \in {"input", "password", "combo"} /\ Len(val.v) > 1 /\ def.own # "interval"
        \/ def.kind = "multi" /\ ~(Parts(val) \subseteq InSeq(def.choices))
        \/ def.kind = "network" /\ ~(Parts(val) \subseteq InSeq(Interfaces))
        \/ def.own = "dns6" /\ val.v[1] # "6"
        \/ def.own \in {"failure", "interval"} /\ (row # "wan" \/ Len(val.v) < 2)
        \/ def.own = "password" /\ IsPlain(val)

\* A form that is opened and saved without a change leaves every option that
\* was set with the parts it had, but for these values.
UneditedStays ==
    phase = "sending" /\ edits = 0 =>
        \A row \in Rows, f \in focus :
            LET o == Field(f).option IN
            router.table[row][o] = Undefined \/ Parts(table[row][o]) = Parts(router.table[row][o])
              \/ \E g \in FieldsFor(o) : Lossy(row, g)

\* A form that was on the screen once is shown again after whatever the user
\* does, except that the first row of a section without rows has no choices,
\* and that two lists for one option do not know each other's values.
OnceShown ==
    came /\ phase = "broken" => ~loaded \/ \E o \in Options : Cardinality(FieldsFor(o)) > 1

=============================================================================
