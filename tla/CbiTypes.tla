------------------------------ MODULE CbiTypes ------------------------------
(***************************************************************************)
(* The datatypes a form names for its values: L.cbi.validation.types of    *)
(* cbi.js.  A datatype is the set of the texts it accepts; "or" is the     *)
(* union of sets, "and" the intersection, and a type with arguments an     *)
(* operator on numbers or sets.                                            *)
(*                                                                         *)
(* Texts are not spelled out.  Like(p) holds those that match a pattern or  *)
(* pass an address parser, and Shape[t] says of a text what else the checks *)
(* look at: num, its number where it has one; len, its length; tokens, its *)
(* parts between blanks; bare, the text behind a leading "!".              *)
(***************************************************************************)
EXTENDS Integers, Sequences

CONSTANTS Shape, Like(_)

Texts == DOMAIN Shape
Measure(lo, hi) == {t \in Texts : Shape[t].len \in lo .. hi}

integer  == Like("integer")
uinteger == {t \in integer : Shape[t].num >= 0}
float    == Like("float")
ufloat   == {t \in float : Shape[t].num >= 0}

ip4addr  == Like("ip4")
ip6addr  == Like("ip6")
ipaddr   == ip4addr \cup ip6addr
netmask4 == ip4addr \cap Like("mask")
netmask6 == ip6addr \cap Like("mask")
cidr4    == Like("ip4/n")
cidr6    == Like("ip6/n")
ipmask4  == Like("ip4/mask")
ipmask6  == Like("ip6/mask")

\* The three ways to bound a number hold for whole numbers only.
range(lo, hi) == {t \in integer : Shape[t].num >= lo /\ Shape[t].num <= hi}
min(lo)       == {t \in integer : Shape[t].num >= lo}
max(hi)       == {t \in integer : Shape[t].num <= hi}

port      == range(0, 65535)
\* A pair of ports in the wrong order is tried as a single port and fails.
portrange == port \cup Like("port-port")

macaddr  == Like("mac")
hostname == Measure(0, 253) \cap (Like("letters and digits") \cup Like("dotted name"))
host     == hostname \cup ipaddr
uciname  == Like("letters, digits and _")
network  == uciname \cup host

\* 64 characters are a key in hexadecimal, fewer a passphrase.
wpakey == Measure(8, 63) \cup (Measure(64, 64) \cap Like("hexadecimal"))
wepkey == Like("wep")

rangelength(lo, hi) == Measure(lo, hi)
minlength(lo)       == {t \in Texts : Shape[t].len >= lo}
maxlength(hi)       == {t \in Texts : Shape[t].len <= hi}

neg(type)  == {t \in Texts : Shape[t].bare \in type}
list(type) == {t \in Texts : \A i \in DOMAIN Shape[t].tokens : Shape[t].tokens[i] \in type}

phonedigit == Like("phone digits")
string     == Texts
=============================================================================
