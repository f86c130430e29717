-------------------------------- MODULE BwMon --------------------------------
(***************************************************************************)
(* The bandwidth monitor of rpcd (bwmon.c): every second it reads four     *)
(* counters of every interface and keeps how much they grew in a ring; a   *)
(* call to statistics copies the ring out.  rpcd runs one callback at a    *)
(* time, so a collection is one step.                                      *)
(***************************************************************************)
EXTENDS Integers

CONSTANTS
    Interfaces, \* what may appear in /sys/class/net
    Counters,   \* rx_bytes, tx_bytes, rx_packets, tx_packets
    History,    \* RPC_BWMON_HISTORY
    Width,      \* 2^32: increments are kept in a uint32_t
    Readings    \* the values of a counter

ASSUME HistoryAssumption == History \in Nat \ {0}
ASSUME WidthAssumption == Width \in Nat \ {0}
ASSUME ReadingsAssumption == Readings \subseteq Nat /\ 0 \in Readings

VARIABLES
    devices,    \* the interfaces that have an entry
    pos,        \* where the next increment goes; -1 before the first reading
    prev,       \* the last readings
    values      \* the rings

vars == <<devices, pos, prev, values>>

Slots == 0 .. History - 1

TypeOK ==
    /\ devices \subseteq Interfaces
    /\ pos \in [Interfaces -> Slots]
    /\ prev \in [Interfaces -> [Counters -> Nat]]
    /\ values \in [Interfaces -> [Counters -> [Slots -> 0 .. Width - 1]]]

\* An interface without an entry is as calloc will make its entry; the position -1
\* that get_device gives it is gone before the end of the collection.
Init ==
    /\ devices = {}
    /\ pos = [i \in Interfaces |-> 0]
    /\ prev = [i \in Interfaces |-> [k \in Counters |-> 0]]
    /\ values = [i \in Interfaces |-> [k \in Counters |-> [slot \in Slots |-> 0]]]

Start(i) == IF i \in devices THEN pos[i] ELSE -1

\* Mutant of PutValue: writes at the position to come.
PutValueAhead(i, k, value) ==
    IF Start(i) >= 0
    THEN [values[i][k] EXCEPT ![(Start(i) + 1) % History] = (value - prev[i][k]) % Width]
    ELSE values[i][k]

\* put_value
PutValue(i, k, value) ==
    IF Start(i) >= 0
    THEN [values[i][k] EXCEPT ![Start(i)] = (value - prev[i][k]) % Width]
    ELSE values[i][k]

\* Mutant of Advanced: never wraps.
AdvancedTooFar(i) == IF Start(i) < History THEN Start(i) + 1 ELSE 0

Advanced(i) == (Start(i) + 1) % History

\* read is every interface that is there and up or was seen up before, less those an
\* entry could not be allocated for; a counter that cannot be read is 0.
Collect(read, reading) ==
    /\ devices' = devices \cup read
    /\ values' = [i \in Interfaces |->
                    IF i \in read THEN [k \in Counters |-> PutValue(i, k, reading[i][k])]
                    ELSE values[i]]
    /\ prev' = [i \in Interfaces |-> IF i \in read THEN reading[i] ELSE prev[i]]
    /\ pos' = [i \in Interfaces |-> IF i \in read THEN Advanced(i) ELSE pos[i]]

Next == \E read \in SUBSET Interfaces :
           \E reading \in [read -> [Counters -> Readings]] : Collect(read, reading)

Spec == Init /\ [][Next]_vars

\* Mutant of DumpStats: starts at the first slot.
DumpStatsFromZero(i) == [k \in Counters |-> [j \in Slots |-> values[i][k][j]]]

\* rpc_bwmon_dump_stats
DumpStats(i) == [k \in Counters |-> [j \in Slots |-> values[i][k][(pos[i] + j) % History]]]

-----------------------------------------------------------------------------
(* Properties *)

\* statistics lists the increments between the last readings, oldest first, however
\* often the ring went round, and an interface that comes later or is missing at
\* times does not disturb what is shown of the others.
HistoryOf == INSTANCE BwHistory
               WITH Length <- History, known <- devices, last <- prev,
                    window <- [i \in Interfaces |-> DumpStats(i)]

ImplementsHistory == HistoryOf!Spec
=============================================================================
