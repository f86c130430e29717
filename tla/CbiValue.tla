------------------------------ MODULE CbiValue ------------------------------
(***************************************************************************)
(* The values of a form, cbi.js: what each kind of widget reads from the   *)
(* configuration, what it shows, what it gives back and what it writes.    *)
(* Nothing here has a state; CbiForm puts the widgets into forms.          *)
(***************************************************************************)
EXTENDS CbiTypes, TLC

CONSTANT Interfaces     \* the names of the interfaces, as getInterfaces lists them

(***************************************************************************)
(* JavaScript values: their type, and the texts they are made of.          *)
(***************************************************************************)
Undefined == [is |-> "undefined", v |-> <<>>]
Null      == [is |-> "null", v |-> <<>>]
Str(t)    == [is |-> "string", v |-> <<t>>]
Num(t)    == [is |-> "number", v |-> <<t>>]
List(ts)  == [is |-> "list", v |-> ts]
Bool(b)   == [is |-> "boolean", v |-> IF b THEN <<"true">> ELSE <<>>]

TypeOf(val) == IF val.is \in {"list", "null"} THEN "object" ELSE val.is
InSeq(ts)   == {ts[i] : i \in DOMAIN ts}
\* A function with its values worked out, which TLC would else do at each use.
Made(fn)    == CHOOSE made \in {fn} : made = fn
\* The texts of a sequence that are in a set, in their order.
Chosen(ts, set) ==
    LET first[n \in 0 .. Len(ts)] ==
            IF n = 0 THEN <<>>
            ELSE IF ts[n] \in set THEN Append(first[n - 1], ts[n]) ELSE first[n - 1]
    IN  first[Len(ts)]

\* A text split at its blanks, a list as it is.
Split(val) == CASE val.is = "undefined" -> <<>>
                [] val.is = "list"      -> val.v
                [] OTHER                -> Shape[val.v[1]].tokens

(***************************************************************************)
(* A field with nothing said about it.  own names what a page replaces:    *)
(* its own ucivalue or save.  needs holds the alternatives of depends, any *)
(* of which shows the field; rule names a check against other fields, and  *)
(* with the fields that such a check, or such a save, looks at.            *)
(***************************************************************************)
Value ==
    [kind |-> "input", datatype |-> string, optional |-> FALSE, keep |-> TRUE,
     initial |-> Undefined, choices |-> <<>>, lazy |-> FALSE, multiple |-> FALSE,
     enabled |-> "1", disabled |-> "0", option |-> "", own |-> "", rule |-> "", with |-> {}, needs |-> {}]

Input    == Value
Password == [kind |-> "password"] @@ Value
Checkbox == [kind |-> "checkbox"] @@ Value
Select(choices) == [kind |-> "list", choices |-> choices] @@ Value
Multi(choices)  == [kind |-> "multi", choices |-> choices] @@ Value
Combo(choices)  == [kind |-> "combo", choices |-> choices] @@ Value
\* Their widget makes these optional, whatever the page says.
Dynamic  == [kind |-> "dynamic", optional |-> TRUE] @@ Value
Button   == [kind |-> "button", optional |-> TRUE] @@ Value
Networks(multiple) == [kind |-> "network", multiple |-> multiple, optional |-> ~multiple] @@ Value
Dummy    == [kind |-> "dummy"] @@ Value
\* Values that belong to network and firewall objects and not to the form.
Elsewhere == [kind |-> "dummy", own |-> "elsewhere"] @@ Value

HasEmpty(f)  == "" \in InSeq(f.choices)
\* The kinds whose inputs tell the form of a change.
HasEvents(f) == f.kind \notin {"multi", "dummy"}

\* What a password holds that is not plain, and that of a system account.
hash          == Like("hash")
systemAccount == Like("system account")

(***************************************************************************)
(* ucivalue: the option's value, or the initial one while it is not set.   *)
(***************************************************************************)
Base(f, opts) == IF opts[f.option] = Undefined THEN f.initial ELSE opts[f.option]

CheckboxUci(f, val) == IF val.is = "boolean" THEN val ELSE Bool(val = Str(f.enabled))

NetworkUci(f, val) ==
    IF f.multiple THEN List(Split(val))
    ELSE IF Split(val) = <<>> THEN Undefined ELSE Str(Split(val)[1])

\* The ucivalue functions that pages put in place of the widget's.
OwnUci(f, opts) ==
    LET held == opts[f.option].v IN
    CASE f.own = "dns6" ->
           List(IF held # <<>> /\ held[1] = "6" /\ InSeq(Tail(held)) \subseteq ip4addr
                THEN Tail(held) ELSE <<>>)
      [] f.own = "failure"  -> IF held = <<>> THEN Undefined ELSE Str(held[1])
      [] f.own = "interval" -> IF Len(held) < 2 THEN Undefined ELSE Str(held[2])
      [] f.own = "tunnel"   -> Bool(held # <<>> /\ held[1] \in float)
      [] f.own = "shadow"   -> Bool(held # <<>> /\ held[1] \in systemAccount)
      [] f.own = "blind"    -> Str(f.choices[1])
      [] f.own = "port"     -> Str(IF f.enabled \in InSeq(held) THEN "t"
                                   ELSE IF f.disabled \in InSeq(held) THEN "u" ELSE "n")
      [] f.own = "vid"      -> IF held # <<>> /\ held[1] \in float THEN Str(held[1])
                               ELSE opts["vlan"]

UciOwners == {"dns6", "failure", "interval", "tunnel", "shadow", "blind", "port", "vid"}

Uci(f, opts) ==
    IF f.own = "elsewhere" THEN Undefined
    ELSE IF f.own \in UciOwners THEN OwnUci(f, opts)
    ELSE CASE f.kind = "checkbox" -> CheckboxUci(f, Base(f, opts))
           [] f.kind = "network"  -> NetworkUci(f, Base(f, opts))
           [] f.kind = "dynamic"  -> List(Split(Base(f, opts)))
           [] OTHER               -> Base(f, opts)

(***************************************************************************)
(* widget: what the inputs of the field show at first, in their order.  A  *)
(* select without an entry for its value selects nothing.                  *)
(***************************************************************************)
ListText(val) == IF Len(val.v) = 1 THEN val.v[1] ELSE IF val.v = <<>> THEN "" ELSE "several"

Offered(f) == InSeq(f.choices) \cup IF f.optional THEN {""} ELSE {}

SelectWidget(f, val) == IF ListText(val) \in Offered(f) THEN <<ListText(val)>> ELSE <<>>

ComboWidget(f, val) ==
    IF ListText(val) = "" /\ f.choices # <<>> /\ (~f.optional \/ HasEmpty(f))
    THEN <<f.choices[1]>> ELSE <<ListText(val)>>

NetworkWidget(f, val) ==
    IF f.multiple THEN Chosen(Interfaces, InSeq(val.v))
    ELSE IF InSeq(val.v) \subseteq InSeq(Interfaces) /\ val # Undefined THEN val.v ELSE <<"">>

Widget(f, opts) ==
    LET val == Uci(f, opts) IN
    CASE f.kind = "checkbox" -> val.v
      [] f.kind = "list"     -> SelectWidget(f, val)
      [] f.kind = "multi"    -> Chosen(f.choices, InSeq(Split(val)))
      [] f.kind = "combo"    -> ComboWidget(f, val)
      [] f.kind = "dynamic"  -> IF val.v = <<>> THEN <<"">> ELSE val.v
      [] f.kind = "network"  -> NetworkWidget(f, val)
      [] f.kind \in {"dummy", "button"} -> <<>>
      [] OTHER               -> <<ListText(val)>>

(***************************************************************************)
(* formvalue: what the inputs hold now.                                    *)
(***************************************************************************)
Text(t)   == IF t = "" THEN Undefined ELSE Str(t)
Filled(ts) == Chosen(ts, InSeq(ts) \ {""})

FormVal(f, opts, inputs) ==
    CASE f.kind = "checkbox" -> Bool(inputs # <<>>)
      [] f.kind = "multi"    -> List(inputs)
      [] f.kind = "dynamic"  -> List(Filled(inputs))
      [] f.kind = "network" /\ f.multiple -> IF inputs = <<>> THEN Undefined ELSE List(inputs)
      [] f.kind = "dummy"    -> Uci(f, opts)
      [] f.kind = "button"   -> Undefined
      [] OTHER               -> IF inputs = <<>> THEN Null ELSE Text(inputs[1])

(***************************************************************************)
(* changed and save: a value is written when it differs from ucivalue, in  *)
(* its type or in its texts.  A list without texts leaves no option.       *)
(***************************************************************************)
\* Mutant of Changed: compares only as many texts as there were.
ChangedPrefix(a, b) == \E n \in DOMAIN a.v : n \notin DOMAIN b.v \/ a.v[n] # b.v[n]
Changed(a, b) == TypeOf(a) # TypeOf(b) \/ a.v # b.v

Stored(val) == IF val.v \in {<<>>, <<"">>} THEN Undefined ELSE val

\* val == this.options.initial, where false equals the empty string.
IsInitial(f, val) == val = f.initial \/ (val = Bool(FALSE) /\ f.initial = Str(""))

CheckboxStored(f, val) ==
    IF f.optional /\ IsInitial(f, val) THEN Undefined
    ELSE Stored(Str(IF val = Bool(TRUE) THEN f.enabled ELSE f.disabled))

\* Mutant of Saved: removes what is hidden, though it is to be kept.
SavedUnlessHidden(f, opts, inputs, hidden) ==
    LET val == FormVal(f, opts, inputs) IN
    IF hidden THEN Undefined
    ELSE IF ~Changed(Uci(f, opts), val) THEN opts[f.option]
    ELSE IF f.kind = "checkbox" THEN CheckboxStored(f, val) ELSE Stored(val)

Saved(f, opts, inputs, hidden) ==
    LET val == FormVal(f, opts, inputs) IN
    IF hidden THEN IF f.keep THEN opts[f.option] ELSE Undefined
    ELSE IF ~Changed(Uci(f, opts), val) THEN opts[f.option]
    ELSE IF f.kind = "checkbox" THEN CheckboxStored(f, val) ELSE Stored(val)

(***************************************************************************)
(* toggle compares form values with what depends asked for: a truth value  *)
(* asks whether something was entered, a text for that text.               *)
(***************************************************************************)
Not(t) == [is |-> "not", v |-> <<t>>]
Empty(val) == val = Undefined \/ val = Bool(FALSE)
Meets(val, cond) ==
    CASE cond.is = "boolean" -> Empty(val) # (cond = Bool(TRUE))
      [] cond.is = "not"     -> val.v # cond.v
      [] OTHER               -> val.v = cond.v
=============================================================================
