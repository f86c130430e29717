---------------------------- MODULE BwMon_proofs ----------------------------
(***************************************************************************)
(* The ring of the bandwidth monitor, for every length of the ring, every  *)
(* width of its words and any interfaces: it is well typed, and copied out *)
(* from the position to come it is the history of BwHistory.               *)
(***************************************************************************)
EXTENDS BwMon, TLAPS

\* A sum of two places of the ring goes round at most once.
LEMMA GoesRound ==
    ASSUME NEW n \in Nat \ {0}, NEW a \in 0 .. 2 * n - 1
    PROVE  a % n = IF a < n THEN a ELSE a - n
<1>1. CASE a < n
  BY <1>1
<1>2. CASE a >= n
  <2>1. a - n \in 0 .. n - 1
    BY <1>2
  <2>2. (a - n) % n = a - n
    BY <2>1
  <2>3. a % n = (a - n) % n
    OBVIOUS
  <2> QED
    BY <1>2, <2>2, <2>3
<1> QED
  BY <1>1, <1>2

LEMMA InWord ==
    ASSUME NEW n \in Nat \ {0}, NEW a \in Int
    PROVE  a % n \in 0 .. n - 1
  OBVIOUS

-----------------------------------------------------------------------------
(* Type correctness *)

LEMMA StartInRing ==
    ASSUME TypeOK, NEW i \in Interfaces
    PROVE  /\ Start(i) \in -1 .. History - 1
           /\ Advanced(i) \in Slots
<1>1. Start(i) \in -1 .. History - 1
  BY HistoryAssumption DEF TypeOK, Start, Slots
<1>2. Advanced(i) \in Slots
  <2> DEFINE next == Start(i) + 1
  <2>1. next \in Int
    BY <1>1, HistoryAssumption
  <2> HIDE DEF next
  <2>2. next % History \in 0 .. History - 1
    BY <2>1, HistoryAssumption, InWord
  <2> QED
    BY <2>2 DEF next, Advanced, Slots
<1> QED
  BY <1>1, <1>2

LEMMA PutValueTyped ==
    ASSUME TypeOK, NEW i \in Interfaces, NEW k \in Counters, NEW value \in Nat
    PROVE  PutValue(i, k, value) \in [Slots -> 0 .. Width - 1]
<1>1. values[i][k] \in [Slots -> 0 .. Width - 1] /\ prev[i][k] \in Nat
  BY DEF TypeOK
<1>2. (value - prev[i][k]) % Width \in 0 .. Width - 1
  <2> DEFINE grown == value - prev[i][k]
  <2>1. grown \in Int
    BY <1>1
  <2> HIDE DEF grown
  <2>2. grown % Width \in 0 .. Width - 1
    BY <2>1, WidthAssumption, InWord
  <2> QED
    BY <2>2 DEF grown
<1> QED
  BY <1>1, <1>2 DEF PutValue

\* A collection leaves a well-typed monitor.
LEMMA CollectTyped ==
    ASSUME TypeOK, NEW read \in SUBSET Interfaces,
           NEW reading \in [read -> [Counters -> Readings]], Collect(read, reading)
    PROVE  TypeOK'
<1>1. devices' \subseteq Interfaces
  BY DEF TypeOK, Collect
<1>2. pos' \in [Interfaces -> Slots]
  BY StartInRing DEF TypeOK, Collect
<1>3. \A i \in read : reading[i] \in [Counters -> Nat]
  BY ReadingsAssumption
<1>4. prev' \in [Interfaces -> [Counters -> Nat]]
  BY <1>3 DEF TypeOK, Collect
<1>5. values' \in [Interfaces -> [Counters -> [Slots -> 0 .. Width - 1]]]
  <2>1. \A i \in read : [k \in Counters |-> PutValue(i, k, reading[i][k])]
                          \in [Counters -> [Slots -> 0 .. Width - 1]]
    BY <1>3, PutValueTyped
  <2> QED
    BY <2>1 DEF TypeOK, Collect
<1> QED
  BY <1>1, <1>2, <1>4, <1>5 DEF TypeOK

\* The positions and the increments of the monitor stay in the ring and in their
\* words, whatever is read of whichever interfaces.
THEOREM MonitorTyped == Spec => []TypeOK
<1>1. Init => TypeOK
  BY HistoryAssumption, WidthAssumption DEF Init, TypeOK, Slots
<1>2. TypeOK /\ [Next]_vars => TypeOK'
  <2> SUFFICES ASSUME TypeOK, [Next]_vars PROVE TypeOK'
    OBVIOUS
  <2>1. CASE Next
    BY <2>1, CollectTyped DEF Next
  <2>2. CASE UNCHANGED vars
    BY <2>2 DEF vars, TypeOK
  <2> QED
    BY <2>1, <2>2
<1> QED
  BY <1>1, <1>2, PTL DEF Spec

-----------------------------------------------------------------------------
(* The history *)

\* The slot that shows as increment j after a collection is the one that showed as
\* increment j + 1 before it, and the last one is the slot just written.
LEMMA RingTurns ==
    ASSUME NEW p \in Slots, NEW j \in Slots
    PROVE  LET turned == (((p + 1) % History) + j) % History
           IN  IF j = History - 1 THEN turned = p
               ELSE /\ j + 1 \in Slots
                    /\ turned = (p + (j + 1)) % History
                    /\ turned # p
                    /\ turned \in Slots
<1> USE HistoryAssumption DEF Slots
<1>1. (p + 1) % History = IF p + 1 < History THEN p + 1 ELSE 0
  <2> DEFINE next == p + 1
  <2>1. next \in 0 .. 2 * History - 1 /\ next <= History
    OBVIOUS
  <2> HIDE DEF next
  <2>2. next % History = IF next < History THEN next ELSE next - History
    BY <2>1, GoesRound
  <2>3. next % History = IF next < History THEN next ELSE 0
    BY <2>1, <2>2
  <2> QED
    BY <2>3 DEF next
<1>2. \A a \in 0 .. 2 * History - 1 : a % History = IF a < History THEN a ELSE a - History
  BY GoesRound
<1>3. CASE p + 1 < History
  <2> DEFINE a == p + 1 + j
  <2>1. a \in 0 .. 2 * History - 1 /\ p + (j + 1) = a /\ (p + 1) % History = p + 1
    BY <1>1, <1>3
  <2>2. a % History = IF a < History THEN a ELSE a - History
    <3> HIDE DEF a
    <3> QED
      BY <1>2, <2>1
  <2>3. /\ j = History - 1 => a % History = p
        /\ j # History - 1 => j + 1 \in Slots /\ a % History # p /\ a % History \in Slots
    BY <1>3, <2>2
  <2> QED
    BY <2>1, <2>3
<1>4. CASE p + 1 = History
  <2>1. p + (j + 1) \in 0 .. 2 * History - 1 /\ j \in 0 .. 2 * History - 1
    BY <1>4
  <2> QED
    BY <1>1, <1>2, <1>4, <2>1
<1> QED
  BY <1>3, <1>4

\* A collection shifts the history of an interface that has an entry.
LEMMA CollectShifts ==
    ASSUME TypeOK, NEW read \in SUBSET Interfaces,
           NEW reading \in [read -> [Counters -> Readings]], Collect(read, reading),
           NEW i \in read, i \in devices
    PROVE  DumpStats(i)' =
             [k \in Counters |->
                HistoryOf!Shifted(DumpStats(i)[k],
                                  HistoryOf!Increment(prev[i][k], reading[i][k]))]
<1> DEFINE delta(k) == (reading[i][k] - prev[i][k]) % Width
<1>1. pos[i] \in Slots /\ pos'[i] = (pos[i] + 1) % History
  BY DEF TypeOK, Collect, Advanced, Start
<1>2. pos[i] >= 0
  BY <1>1, HistoryAssumption DEF Slots
<1>3. \A k \in Counters : values'[i][k] = [values[i][k] EXCEPT ![pos[i]] = delta(k)]
  BY <1>2 DEF Collect, PutValue, Start
<1>4. \A k \in Counters : values[i][k] \in [Slots -> 0 .. Width - 1]
  BY DEF TypeOK
<1>5. ASSUME NEW k \in Counters, NEW j \in Slots
      PROVE  values'[i][k][(pos'[i] + j) % History]
               = IF j = History - 1 THEN delta(k) ELSE values[i][k][(pos[i] + (j + 1)) % History]
  <2> DEFINE turned == (((pos[i] + 1) % History) + j) % History
  <2>1. IF j = History - 1 THEN turned = pos[i]
        ELSE turned = (pos[i] + (j + 1)) % History /\ turned # pos[i] /\ turned \in Slots
    BY <1>1, RingTurns
  <2>2. values'[i][k][turned] = IF turned = pos[i] THEN delta(k) ELSE values[i][k][turned]
    <3>1. turned \in Slots
      BY <1>1, <2>1
    <3> HIDE DEF turned
    <3> QED
      BY <1>3, <1>4, <3>1
  <2> QED
    BY <1>1, <2>1, <2>2
<1>6. ASSUME NEW k \in Counters, NEW j \in Slots, j # History - 1
      PROVE  DumpStats(i)[k][j + 1] = values[i][k][(pos[i] + (j + 1)) % History]
  <2>1. j + 1 \in Slots
    BY <1>6, HistoryAssumption DEF Slots
  <2> QED
    BY <2>1 DEF DumpStats
<1>7. DumpStats(i)' = [k \in Counters |-> [j \in Slots |-> values'[i][k][(pos'[i] + j) % History]]]
  BY DEF DumpStats, Slots
<1> QED
  BY <1>5, <1>6, <1>7 DEF HistoryOf!Shifted, HistoryOf!Increment, Slots

\* The ring of an interface without an entry is empty.
Empty == \A i \in Interfaces \ devices : \A k \in Counters : \A slot \in Slots : values[i][k][slot] = 0

\* A collection leaves the history of the other interfaces, and the one of an
\* interface it sees for the first time, which is still that of an empty ring.
LEMMA CollectKeeps ==
    ASSUME TypeOK, Empty,
           NEW read \in SUBSET Interfaces,
           NEW reading \in [read -> [Counters -> Readings]], Collect(read, reading),
           NEW i \in Interfaces, i \notin read \cap devices
    PROVE  DumpStats(i)' = DumpStats(i)
<1>1. CASE i \notin read
  BY <1>1 DEF Collect, DumpStats, Slots
<1>2. CASE i \in read /\ i \notin devices
  <2>1. pos[i] \in Slots /\ pos'[i] \in Slots
    BY CollectTyped DEF TypeOK
  <2>2. \A k \in Counters : values'[i][k] = values[i][k]
    BY <1>2 DEF Collect, PutValue, Start
  <2>3. \A k \in Counters, j \in Slots : /\ values[i][k][(pos[i] + j) % History] = 0
                                        /\ values[i][k][(pos'[i] + j) % History] = 0
    <3>1. \A p, j \in Slots : (p + j) % History \in Slots
      BY HistoryAssumption, InWord DEF Slots
    <3> QED
      BY <1>2, <2>1, <3>1 DEF Empty
  <2>4. DumpStats(i)' = [k \in Counters |-> [j \in Slots |-> values'[i][k][(pos'[i] + j) % History]]]
    BY DEF DumpStats, Slots
  <2> QED
    BY <2>2, <2>3, <2>4 DEF DumpStats
<1> QED
  BY <1>1, <1>2

\* A collection leaves the rings empty that have no entry.
LEMMA CollectEmpty ==
    ASSUME Empty,
           NEW read \in SUBSET Interfaces,
           NEW reading \in [read -> [Counters -> Readings]], Collect(read, reading)
    PROVE  Empty'
  BY DEF Empty, Collect, Slots

\* What statistics answers is the history of the last readings, for a ring of any
\* length and however often it went round.
THEOREM MonitorImplementsHistory == Spec => ImplementsHistory
<1> DEFINE dump == [i \in Interfaces |-> DumpStats(i)]
<1>1. Init => HistoryOf!Init /\ Empty
  <2> SUFFICES ASSUME Init PROVE HistoryOf!Init /\ Empty
    OBVIOUS
  <2>1. Empty
    BY DEF Init, Empty
  <2>2. \A j \in Slots : (0 + j) % History \in Slots
    BY HistoryAssumption, InWord DEF Slots
  <2>3. \A i \in Interfaces : DumpStats(i) = HistoryOf!Zeros
    BY <2>2 DEF Init, DumpStats, HistoryOf!Zeros, Slots
  <2> QED
    BY <2>1, <2>3 DEF Init, HistoryOf!Init
<1>2. TypeOK /\ Empty /\ [Next]_vars => Empty' /\ [HistoryOf!Next]_(HistoryOf!vars)
  <2> SUFFICES ASSUME TypeOK, Empty, [Next]_vars
               PROVE  Empty' /\ [HistoryOf!Next]_(HistoryOf!vars)
    OBVIOUS
  <2>1. CASE Next
    <3> PICK read \in SUBSET Interfaces :
             \E reading \in [read -> [Counters -> Readings]] : Collect(read, reading)
      BY <2>1 DEF Next
    <3> PICK reading \in [read -> [Counters -> Readings]] : Collect(read, reading)
      OBVIOUS
    <3>1. Empty'
      BY CollectEmpty
    <3>2. dump' = [i \in Interfaces |->
                     IF i \in read \cap devices
                     THEN [k \in Counters |->
                             HistoryOf!Shifted(dump[i][k],
                                HistoryOf!Increment(prev[i][k], reading[i][k]))]
                     ELSE dump[i]]
      <4>1. \A i \in read \cap devices :
              DumpStats(i)' = [k \in Counters |->
                HistoryOf!Shifted(DumpStats(i)[k],
                                  HistoryOf!Increment(prev[i][k], reading[i][k]))]
        BY CollectShifts
      <4>2. \A i \in Interfaces : i \notin read \cap devices => DumpStats(i)' = DumpStats(i)
        BY CollectKeeps
      <4> QED
        BY <4>1, <4>2
    <3>3. HistoryOf!Read(read, reading)
      BY <3>2 DEF Collect, HistoryOf!Read
    <3> QED
      BY <3>1, <3>3 DEF HistoryOf!Next
  <2>2. CASE UNCHANGED vars
    <3>1. Empty'
      BY <2>2 DEF vars, Empty, Slots
    <3>2. dump' = dump
      BY <2>2 DEF vars, DumpStats, Slots
    <3> QED
      BY <2>2, <3>1, <3>2 DEF vars, HistoryOf!vars
  <2> QED
    BY <2>1, <2>2
<1> QED
  BY <1>1, <1>2, MonitorTyped, PTL DEF Spec, ImplementsHistory, HistoryOf!Spec
=============================================================================
