----------------------------- MODULE ConfigTable -----------------------------
(***************************************************************************)
(* What the configuration cache of uci.js promises to the views that edit  *)
(* through it: a plain table of options that answers with the last value   *)
(* written, where a section once fetched or added stays until it is        *)
(* deleted or its package is discarded, and where the copy fetched from    *)
(* the router is never touched by an edit.                                 *)
(***************************************************************************)

CONSTANTS
    Configs,    \* uci packages
    Sids,       \* section names
    Options,    \* option names
    Values,     \* option values
    None,       \* the option is not there
    Absent      \* the section is not there

VARIABLES
    base,       \* base[c][s]: the section as it was fetched
    own,        \* own[c]: the sections added here and not yet on the router
    table       \* table[c][s]: the section as the views see it

vars == <<base, own, table>>

Content == [Options -> Values \cup {None}]
Tables  == [Sids -> Content \cup {Absent}]
Nothing == [s \in Sids |-> Absent]
Blank   == [o \in Options |-> None]

TypeOK ==
    /\ base \in [Configs -> Tables]
    /\ own \in [Configs -> SUBSET Sids]
    /\ table \in [Configs -> Tables]

Init ==
    /\ base = [c \in Configs |-> Nothing]
    /\ own = [c \in Configs |-> {}]
    /\ table = [c \in Configs |-> Nothing]

(***************************************************************************)
(* Fetching fills a package that holds nothing fetched; a section that was *)
(* added before the fetch keeps what was written to it.                    *)
(***************************************************************************)
Fetch(c) ==
    /\ base[c] = Nothing
    /\ base'[c] \in Tables
    /\ base' = [base EXCEPT ![c] = base'[c]]
    /\ table' = [table EXCEPT ![c] =
                   [s \in Sids |-> IF s \in own[c] THEN table[c][s] ELSE base'[c][s]]]
    /\ UNCHANGED own

\* Forgetting some packages, with everything written to them.
Discard(packages) ==
    /\ base' = [c \in Configs |-> IF c \in packages THEN Nothing ELSE base[c]]
    /\ own' = [c \in Configs |-> IF c \in packages THEN {} ELSE own[c]]
    /\ table' = [c \in Configs |-> IF c \in packages THEN Nothing ELSE table[c]]

\* A new section takes a name that neither the views nor the router know.
Insert(c, s) ==
    /\ table[c][s] = Absent
    /\ base[c][s] = Absent
    /\ own' = [own EXCEPT ![c] = @ \cup {s}]
    /\ table' = [table EXCEPT ![c][s] = Blank]
    /\ UNCHANGED base

\* Deleting a section: one that was added here uncovers what was fetched.
Delete(c, s) ==
    /\ table[c][s] # Absent
    /\ own' = [own EXCEPT ![c] = @ \ {s}]
    /\ table' = [table EXCEPT ![c][s] = IF s \in own[c] THEN base[c][s] ELSE Absent]
    /\ UNCHANGED base

Write(c, s, o, val) ==
    /\ table[c][s] # Absent
    /\ table' = [table EXCEPT ![c][s][o] = val]
    /\ UNCHANGED <<base, own>>

Next ==
    \/ \E c \in Configs : Fetch(c)
    \/ \E packages \in SUBSET Configs : Discard(packages)
    \/ \E c \in Configs, s \in Sids : Insert(c, s) \/ Delete(c, s)
    \/ \E c \in Configs, s \in Sids, o \in Options, val \in Values \cup {None} :
          Write(c, s, o, val)

Spec == Init /\ [][Next]_vars

=============================================================================
