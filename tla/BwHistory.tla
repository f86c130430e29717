------------------------------ MODULE BwHistory ------------------------------
(***************************************************************************)
(* What the bandwidth monitor promises: for every interface it has seen    *)
(* up, how much each counter grew between its last Length + 1 readings,    *)
(* oldest first, with zeros for what lies before the first reading.        *)
(***************************************************************************)
EXTENDS Integers

CONSTANTS Interfaces, Counters, Length, Width, Readings

VARIABLES
    known,      \* the interfaces seen up
    last,       \* last[i][k]: the last reading of counter k of interface i
    window      \* window[i][k]: the increments, 0 .. Length - 1, oldest first

vars == <<known, last, window>>

\* An increment is kept in a word of this many values.
Increment(old, new) == (new - old) % Width

Shifted(increments, new) ==
    [j \in 0 .. Length - 1 |-> IF j = Length - 1 THEN new ELSE increments[j + 1]]

Zeros == [k \in Counters |-> [j \in 0 .. Length - 1 |-> 0]]

Init ==
    /\ known = {}
    /\ last = [i \in Interfaces |-> [k \in Counters |-> 0]]
    /\ window = [i \in Interfaces |-> Zeros]

\* A reading of some interfaces.
Read(read, reading) ==
    /\ known' = known \cup read
    /\ last' = [i \in Interfaces |-> IF i \in read THEN reading[i] ELSE last[i]]
    /\ window' = [i \in Interfaces |->
                    IF i \in read \cap known
                    THEN [k \in Counters |->
                            Shifted(window[i][k], Increment(last[i][k], reading[i][k]))]
                    ELSE window[i]]

Next == \E read \in SUBSET Interfaces :
           \E reading \in [read -> [Counters -> Readings]] : Read(read, reading)

Spec == Init /\ [][Next]_vars
=============================================================================
