--------------------------- MODULE UciOrder_proofs ---------------------------
(***************************************************************************)
(* Theorems about the order of the sections of a package, for any packages *)
(* and sections within RoomAssumption: reading, adding, swapping and       *)
(* editing keep a package in order (CompactStays), and every section its   *)
(* place (PlacesStay).                                                     *)
(***************************************************************************)
EXTENDS UciState_proofs

USE DEF Package, Blank, EmptyPackage

-----------------------------------------------------------------------------
(* Places in an order *)

\* A relation that puts the elements of a set one after the other.
Orders(R, S) ==
    /\ \A x \in S : <<x, x>> \notin R
    /\ \A x, y, z \in S : <<x, y>> \in R /\ <<y, z>> \in R => <<x, z>> \in R
    /\ \A x, y \in S : x = y \/ <<x, y>> \in R \/ <<y, x>> \in R

\* How many elements come before one.
PlaceIn(R, S, x) == Cardinality({y \in S : <<y, x>> \in R})

LEMMA PlacesTaken ==
    ASSUME NEW S, IsFiniteSet(S), NEW R, Orders(R, S)
    PROVE  /\ Cardinality(S) \in Nat
           /\ \A x \in S : PlaceIn(R, S, x) \in Nat /\ PlaceIn(R, S, x) < Cardinality(S)
           /\ \A x, y \in S : <<x, y>> \in R => PlaceIn(R, S, x) < PlaceIn(R, S, y)
           /\ \A i \in 1 .. Cardinality(S) : \E x \in S : PlaceIn(R, S, x) = i - 1
<1> DEFINE n     == Cardinality(S)
           below == [x \in S |-> {y \in S : <<y, x>> \in R}]
           place == [x \in S |-> Cardinality(below[x]) + 1]
<1>1. n \in Nat
  BY FS_CardinalityType
<1>2. ASSUME NEW x \in S
      PROVE  /\ IsFiniteSet(below[x]) /\ Cardinality(below[x]) \in Nat
             /\ Cardinality(below[x]) < n
  <2>1. below[x] \in SUBSET S /\ x \notin below[x]
    BY DEF Orders
  <2> HIDE DEF below
  <2>2. /\ IsFiniteSet(below[x]) /\ Cardinality(below[x]) <= n
        /\ n = Cardinality(below[x]) => S = below[x]
    BY <2>1, FS_Subset
  <2>3. Cardinality(below[x]) \in Nat
    BY <2>2, FS_CardinalityType
  <2> QED
    BY <1>1, <2>1, <2>2, <2>3
<1>3. ASSUME NEW x \in S, NEW y \in S, <<x, y>> \in R
      PROVE  Cardinality(below[x]) < Cardinality(below[y])
  <2>1. below[x] \in SUBSET below[y]
    BY <1>3 DEF Orders
  <2>2. x \in below[y] /\ x \notin below[x]
    BY <1>3 DEF Orders
  <2> HIDE DEF below
  <2>3. /\ Cardinality(below[x]) <= Cardinality(below[y])
        /\ Cardinality(below[y]) = Cardinality(below[x]) => below[y] = below[x]
    BY <1>2, <2>1, FS_Subset
  <2>4. Cardinality(below[x]) # Cardinality(below[y])
    BY <2>2, <2>3
  <2> QED
    BY <1>2, <2>3, <2>4
<1>4. \A x \in S : PlaceIn(R, S, x) = Cardinality(below[x])
  BY DEF PlaceIn
<1> HIDE DEF below, n
<1>5. place \in [S -> 1 .. n]
  <2>1. ASSUME NEW x \in S PROVE Cardinality(below[x]) + 1 \in 1 .. n
    BY <1>1, <1>2
  <2> QED
    BY <2>1
<1>6. ASSUME NEW x \in S, NEW y \in S, place[x] = place[y] PROVE x = y
  <2>1. Cardinality(below[x]) = Cardinality(below[y])
    BY <1>2, <1>6
  <2>2. ~(Cardinality(below[x]) < Cardinality(below[y])) /\ ~(Cardinality(below[y]) < Cardinality(below[x]))
    BY <1>2, <2>1
  <2> QED
    BY <1>3, <2>2 DEF Orders
<1>7. place \in Injection(S, 1 .. n)
  <2>1. DOMAIN place = S
    OBVIOUS
  <2> HIDE DEF place
  <2> QED
    BY <1>5, <1>6, <2>1 DEF Injection, IsInjective
<1>8. IsFiniteSet(1 .. n) /\ Cardinality(1 .. n) = n
  BY <1>1, FS_Interval
<1>9. place \in Surjection(S, 1 .. n)
  <2> HIDE DEF place
  <2> QED
    BY <1>7, <1>8, FS_Injection DEF n
<1>10. ASSUME NEW i \in 1 .. n PROVE \E x \in S : PlaceIn(R, S, x) = i - 1
  <2>1. PICK x \in S : place[x] = i
    BY <1>9 DEF Surjection
  <2>2. Cardinality(below[x]) = i - 1
    BY <1>1, <1>2, <2>1
  <2> QED
    BY <1>4, <2>2
<1> QED
  BY <1>1, <1>2, <1>3, <1>4, <1>10 DEF n

\* The places of elements by a number that each has for itself.
Precede(S, ix) == {p \in S \X S : ix[p[1]] < ix[p[2]]}
PlaceOf(S, ix, x) == Cardinality({y \in S : ix[y] < ix[x]})

Numbered(S, ix) ==
    /\ IsFiniteSet(S) /\ \A x \in S : ix[x] \in Nat
    /\ \A x, y \in S : ix[x] = ix[y] => x = y

PlacesInOrder(S, ix) ==
    /\ Cardinality(S) \in Nat
    /\ \A x \in S : PlaceOf(S, ix, x) \in Nat /\ PlaceOf(S, ix, x) < Cardinality(S)
    /\ \A x, y \in S : ix[x] < ix[y] <=> PlaceOf(S, ix, x) < PlaceOf(S, ix, y)
    /\ \A x, y \in S : PlaceOf(S, ix, x) = PlaceOf(S, ix, y) => x = y
    /\ \A i \in 1 .. Cardinality(S) : \E x \in S : PlaceOf(S, ix, x) = i - 1

LEMMA PlacesByNumber ==
    ASSUME NEW S, NEW ix, Numbered(S, ix)
    PROVE  PlacesInOrder(S, ix)
<1> DEFINE R == Precede(S, ix)
<1>1. \A x, y \in S : <<x, y>> \in R <=> ix[x] < ix[y]
  BY DEF Precede
<1>2. \A x \in S : PlaceIn(R, S, x) = PlaceOf(S, ix, x)
  <2> SUFFICES ASSUME NEW x \in S PROVE {y \in S : <<y, x>> \in R} = {y \in S : ix[y] < ix[x]}
    BY DEF PlaceIn, PlaceOf
  <2> QED
    BY <1>1
<1> HIDE DEF R
<1>3. Orders(R, S)
  <2>1. \A x \in S : <<x, x>> \notin R
    BY <1>1 DEF Numbered
  <2>2. ASSUME NEW x \in S, NEW y \in S, NEW z \in S, <<x, y>> \in R, <<y, z>> \in R
        PROVE  <<x, z>> \in R
    <3>1. ix[x] \in Nat /\ ix[y] \in Nat /\ ix[z] \in Nat
      BY DEF Numbered
    <3>2. ix[x] < ix[y] /\ ix[y] < ix[z]
      BY <1>1, <2>2
    <3> QED
      BY <1>1, <3>1, <3>2
  <2>3. ASSUME NEW x \in S, NEW y \in S PROVE x = y \/ <<x, y>> \in R \/ <<y, x>> \in R
    <3>1. ix[x] \in Nat /\ ix[y] \in Nat /\ (ix[x] = ix[y] => x = y)
      BY DEF Numbered
    <3> QED
      BY <1>1, <3>1
  <2> QED
    BY <2>1, <2>2, <2>3 DEF Orders
<1>4. IsFiniteSet(S)
  BY DEF Numbered
<1>5. /\ Cardinality(S) \in Nat
      /\ \A x \in S : PlaceIn(R, S, x) \in Nat /\ PlaceIn(R, S, x) < Cardinality(S)
      /\ \A x, y \in S : <<x, y>> \in R => PlaceIn(R, S, x) < PlaceIn(R, S, y)
      /\ \A i \in 1 .. Cardinality(S) : \E x \in S : PlaceIn(R, S, x) = i - 1
  BY <1>3, <1>4, PlacesTaken
<1>6. ASSUME NEW x \in S, NEW y \in S
      PROVE  /\ ix[x] < ix[y] <=> PlaceOf(S, ix, x) < PlaceOf(S, ix, y)
             /\ PlaceOf(S, ix, x) = PlaceOf(S, ix, y) => x = y
  <2>1. ix[x] \in Nat /\ ix[y] \in Nat /\ (ix[x] = ix[y] => x = y)
    BY DEF Numbered
  <2>2. PlaceOf(S, ix, x) \in Nat /\ PlaceOf(S, ix, y) \in Nat
    BY <1>2, <1>5
  <2>3. /\ ix[x] < ix[y] => PlaceOf(S, ix, x) < PlaceOf(S, ix, y)
        /\ ix[y] < ix[x] => PlaceOf(S, ix, y) < PlaceOf(S, ix, x)
    BY <1>1, <1>2, <1>5
  <2> QED
    BY <2>1, <2>2, <2>3
<1>7. \A x \in S : PlaceOf(S, ix, x) \in Nat /\ PlaceOf(S, ix, x) < Cardinality(S)
  BY <1>2, <1>5
<1>8. \A i \in 1 .. Cardinality(S) : \E x \in S : PlaceOf(S, ix, x) = i - 1
  BY <1>2, <1>5
<1> QED
  BY <1>5, <1>6, <1>7, <1>8 DEF PlacesInOrder

-----------------------------------------------------------------------------
(* Numbers without a gap *)

Low(S, ix, limit) == {x \in S : ix[x] < limit}

\* The numbers below a limit are 0, 1, 2, ...
Gapless(S, ix, limit) ==
    {ix[x] : x \in Low(S, ix, limit)} = 0 .. (Cardinality(Low(S, ix, limit)) - 1)

Tight(S, ix, limit) == limit \in Nat /\ Numbered(S, ix) /\ Gapless(S, ix, limit)

\* There, a number below the limit is the place of its element.
LEMMA PlaceIsNumber ==
    ASSUME NEW S, NEW ix, NEW limit, Tight(S, ix, limit), NEW x \in Low(S, ix, limit)
    PROVE  PlaceOf(S, ix, x) = ix[x]
<1> DEFINE k     == ix[x]
           m     == Cardinality(Low(S, ix, limit))
           under == {y \in S : ix[y] < k}
           f     == [y \in under |-> ix[y]]
<1>1. k \in Nat /\ k < limit /\ limit \in Nat /\ \A y \in S : ix[y] \in Nat
  BY DEF Tight, Numbered, Low
<1>2. m \in Nat
  BY FS_Subset, FS_CardinalityType DEF Low, Tight, Numbered
<1>3. {ix[y] : y \in Low(S, ix, limit)} = 0 .. (m - 1)
  BY DEF Tight, Gapless
<1>4. k \in 0 .. (m - 1)
  BY <1>3
<1> HIDE DEF k, m
<1>5. ASSUME NEW i \in 0 .. (k - 1) PROVE \E y \in under : ix[y] = i
  <2>1. i \in 0 .. (m - 1)
    BY <1>1, <1>2, <1>4
  <2>2. PICK y \in Low(S, ix, limit) : ix[y] = i
    BY <1>3, <2>1
  <2>3. i < k
    BY <1>1
  <2> QED
    BY <2>2, <2>3 DEF Low
<1>6. ASSUME NEW y \in under PROVE ix[y] \in 0 .. (k - 1)
  BY <1>1
<1>7. \A y, z \in under : ix[y] = ix[z] => y = z
  BY DEF Tight, Numbered
<1>8. IsFiniteSet(under)
  BY FS_Subset DEF Tight, Numbered
<1> HIDE DEF under
<1>9. /\ f \in [under -> 0 .. (k - 1)] /\ DOMAIN f = under
      /\ \A y, z \in under : f[y] = f[z] => y = z
      /\ \A i \in 0 .. (k - 1) : \E y \in under : f[y] = i
  BY <1>5, <1>6, <1>7
<1> HIDE DEF f
<1>10. f \in Bijection(under, 0 .. (k - 1))
  BY <1>9 DEF Bijection, Injection, Surjection, IsInjective
<1>11. Cardinality(under) = Cardinality(0 .. (k - 1))
  BY <1>8, <1>10, FS_Bijection DEF ExistsBijection
<1>12. Cardinality(0 .. (k - 1)) = k
  BY <1>1, FS_Interval
<1> QED
  BY <1>11, <1>12 DEF PlaceOf, under, k

\* Numbers that are the places already are without a gap.
LEMMA TightPlaces ==
    ASSUME NEW S, NEW ix, NEW jx, NEW limit, Tight(S, ix, limit), Cardinality(S) <= limit,
           \A x \in S : jx[x] = PlaceOf(S, ix, x)
    PROVE  /\ Tight(S, jx, limit)
           /\ \A x, y \in S : jx[x] < jx[y] <=> ix[x] < ix[y]
<1> DEFINE n == Cardinality(S)
<1>1. Numbered(S, ix) /\ limit \in Nat /\ IsFiniteSet(S)
  BY DEF Tight, Numbered
<1>2. PlacesInOrder(S, ix)
  BY <1>1, PlacesByNumber
<1>3. n \in Nat /\ n <= limit
  BY <1>2 DEF PlacesInOrder
<1>4. \A x \in S : jx[x] \in Nat /\ jx[x] < n
  BY <1>2 DEF PlacesInOrder
<1>5. \A x, y \in S : jx[x] < jx[y] <=> ix[x] < ix[y]
  BY <1>2 DEF PlacesInOrder
<1>6. \A x, y \in S : jx[x] = jx[y] => x = y
  BY <1>2 DEF PlacesInOrder
<1>7. \A i \in 1 .. n : \E x \in S : jx[x] = i - 1
  BY <1>2 DEF PlacesInOrder
<1>8. Low(S, jx, limit) = S
  <2>1. \A x \in S : jx[x] < limit
    BY <1>1, <1>3, <1>4
  <2> QED
    BY <2>1 DEF Low
<1> HIDE DEF n
<1>9. {jx[x] : x \in S} = 0 .. (n - 1)
  <2>1. ASSUME NEW x \in S PROVE jx[x] \in 0 .. (n - 1)
    BY <1>3, <1>4
  <2>2. ASSUME NEW i \in 0 .. (n - 1) PROVE \E x \in S : jx[x] = i
    <3>1. i + 1 \in 1 .. n /\ (i + 1) - 1 = i
      BY <1>3
    <3> QED
      BY <1>7, <3>1
  <2> QED
    BY <2>1, <2>2
<1>10. Gapless(S, jx, limit)
  BY <1>8, <1>9 DEF Gapless, n
<1> QED
  BY <1>1, <1>4, <1>5, <1>6, <1>10 DEF Tight, Numbered

\* One more element, with a number from the limit on that none has.
LEMMA TightMore ==
    ASSUME NEW S, NEW ix, NEW jx, NEW limit, NEW n, Tight(S, ix, limit), n \notin S,
           \A x \in S : jx[x] = ix[x] /\ ix[x] # jx[n],
           jx[n] \in Nat, limit <= jx[n]
    PROVE  Tight(S \cup {n}, jx, limit)
<1>1. Numbered(S, ix) /\ limit \in Nat
  BY DEF Tight
<1>2. Low(S \cup {n}, jx, limit) = Low(S, ix, limit)
  BY <1>1 DEF Low
<1>3. {jx[x] : x \in Low(S, ix, limit)} = {ix[x] : x \in Low(S, ix, limit)}
  BY DEF Low
<1>4. Gapless(S \cup {n}, jx, limit)
  <2>1. Gapless(S, ix, limit)
    BY DEF Tight
  <2> QED
    BY <1>2, <1>3, <2>1 DEF Gapless
<1>5. Numbered(S \cup {n}, jx)
  <2>1. IsFiniteSet(S \cup {n})
    BY <1>1, FS_AddElement DEF Numbered
  <2> QED
    BY <1>1, <2>1 DEF Numbered
<1> QED
  BY <1>1, <1>4, <1>5 DEF Tight

LEMMA TightSame ==
    ASSUME NEW S, NEW ix, NEW jx, NEW limit, Tight(S, ix, limit),
           \A x \in S : jx[x] = ix[x]
    PROVE  Tight(S, jx, limit)
<1>1. Numbered(S, ix) /\ limit \in Nat /\ Gapless(S, ix, limit)
  BY DEF Tight
<1>2. Low(S, jx, limit) = Low(S, ix, limit)
  BY DEF Low
<1>3. {jx[x] : x \in Low(S, ix, limit)} = {ix[x] : x \in Low(S, ix, limit)}
  BY DEF Low
<1>4. Gapless(S, jx, limit)
  BY <1>1, <1>2, <1>3 DEF Gapless
<1> QED
  BY <1>1, <1>4 DEF Tight, Numbered

\* Two elements below the limit that exchange their numbers exchange their places.
Exchanged(S, ix, jx, s, t) ==
    /\ jx[s] = ix[t]
    /\ jx[t] = ix[s]
    /\ \A x \in S \ {s, t} : jx[x] = ix[x]

LEMMA TightExchange ==
    ASSUME NEW S, NEW ix, NEW jx, NEW limit, Tight(S, ix, limit),
           NEW s \in Low(S, ix, limit), NEW t \in Low(S, ix, limit), s # t,
           Exchanged(S, ix, jx, s, t)
    PROVE  /\ Tight(S, jx, limit)
           /\ PlaceOf(S, jx, s) = PlaceOf(S, ix, t)
           /\ PlaceOf(S, jx, t) = PlaceOf(S, ix, s)
           /\ \A x \in S \ {s, t} : PlaceOf(S, jx, x) = PlaceOf(S, ix, x)
<1>1. Numbered(S, ix) /\ limit \in Nat /\ Gapless(S, ix, limit)
  BY DEF Tight
<1>2. s \in S /\ t \in S /\ ix[s] < limit /\ ix[t] < limit
  BY DEF Low
<1>3. jx[s] = ix[t] /\ jx[t] = ix[s] /\ \A x \in S \ {s, t} : jx[x] = ix[x]
  BY DEF Exchanged
<1>4. Low(S, jx, limit) = Low(S, ix, limit)
  <2>1. ASSUME NEW x \in S PROVE jx[x] < limit <=> ix[x] < limit
    BY <1>2, <1>3
  <2> QED
    BY <2>1 DEF Low
<1>5. {jx[x] : x \in Low(S, ix, limit)} = {ix[x] : x \in Low(S, ix, limit)}
  <2>1. ASSUME NEW x \in Low(S, ix, limit) PROVE \E y \in Low(S, ix, limit) : ix[y] = jx[x]
    <3>1. x \in S
      BY DEF Low
    <3> QED
      BY <1>3, <3>1
  <2>2. ASSUME NEW x \in Low(S, ix, limit) PROVE \E y \in Low(S, ix, limit) : jx[y] = ix[x]
    <3>1. x \in S
      BY DEF Low
    <3> QED
      BY <1>3, <3>1
  <2> QED
    BY <2>1, <2>2
<1>6. Gapless(S, jx, limit)
  BY <1>1, <1>4, <1>5 DEF Gapless
<1>7. Numbered(S, jx)
  <2>1. \A x \in S : jx[x] \in Nat
    BY <1>1, <1>2, <1>3 DEF Numbered
  <2>2. \A x, y \in S : jx[x] = jx[y] => x = y
    BY <1>1, <1>2, <1>3 DEF Numbered
  <2> QED
    BY <1>1, <2>1, <2>2 DEF Numbered
<1>8. Tight(S, jx, limit)
  BY <1>1, <1>6, <1>7 DEF Tight
<1>9. PlaceOf(S, jx, s) = PlaceOf(S, ix, t) /\ PlaceOf(S, jx, t) = PlaceOf(S, ix, s)
  <2>1. s \in Low(S, jx, limit) /\ t \in Low(S, jx, limit)
    BY <1>4
  <2>2. PlaceOf(S, jx, s) = jx[s] /\ PlaceOf(S, jx, t) = jx[t]
    BY <1>8, <2>1, PlaceIsNumber
  <2>3. PlaceOf(S, ix, s) = ix[s] /\ PlaceOf(S, ix, t) = ix[t]
    BY PlaceIsNumber
  <2> QED
    BY <1>3, <2>2, <2>3
<1>10. ASSUME NEW x \in S \ {s, t} PROVE PlaceOf(S, jx, x) = PlaceOf(S, ix, x)
  <2>1. CASE x \in Low(S, ix, limit)
    <3>1. PlaceOf(S, ix, x) = ix[x]
      BY <2>1, PlaceIsNumber
    <3>2. x \in Low(S, jx, limit)
      BY <1>4, <2>1
    <3>3. PlaceOf(S, jx, x) = jx[x]
      BY <1>8, <3>2, PlaceIsNumber
    <3> QED
      BY <1>3, <3>1, <3>3
  <2>2. CASE x \notin Low(S, ix, limit)
    <3>1. ~(ix[x] < limit) /\ ix[x] \in Nat /\ ix[s] \in Nat /\ ix[t] \in Nat
      BY <1>1, <1>2, <2>2 DEF Low, Numbered
    <3>2. ix[s] < ix[x] /\ ix[t] < ix[x] /\ jx[s] < jx[x] /\ jx[t] < jx[x]
      BY <1>1, <1>2, <1>3, <3>1
    <3>3. {y \in S : jx[y] < jx[x]} = {y \in S : ix[y] < ix[x]}
      BY <1>3, <3>2
    <3> QED
      BY <3>3 DEF PlaceOf
  <2> QED
    BY <2>1, <2>2
<1> QED
  BY <1>8, <1>9, <1>10

-----------------------------------------------------------------------------
(* The order of a package *)

All(c)     == Listed(c, AnyType)
Numbers(c) == [s \in Sids |-> Entry(c, s).index]

LEMMA ListedAreSections ==
    TypeOK => \A c \in Configs : \A s \in All(c) : s \in Sids /\ Entry(c, s) \in Section
<1> SUFFICES ASSUME TypeOK, NEW c \in Configs, NEW s \in All(c)
             PROVE  s \in Sids /\ Entry(c, s) \in Section
  OBVIOUS
<1>1. s \in Sids /\ Exists(c, s)
  BY DEF All, Listed, Exists
<1> QED
  BY <1>1, EntryIsSection

\* A package is in order when the numbers of its sections are.
LEMMA CompactIsTight ==
    TypeOK => \A c \in Configs :
        Compact(c) <=> /\ c \in loaded
                       /\ Shadowed(c, AnyType) = {}
                       /\ Tight(All(c), Numbers(c), NewBase)
<1> SUFFICES ASSUME TypeOK, NEW c \in Configs
             PROVE  Compact(c) <=> /\ c \in loaded
                                   /\ Shadowed(c, AnyType) = {}
                                   /\ Tight(All(c), Numbers(c), NewBase)
  OBVIOUS
<1>1. All(c) \in SUBSET Sids
  BY DEF All, Listed
<1>2. IsFiniteSet(All(c))
  BY <1>1, SidsAssumption, FS_Subset
<1>3. \A s \in All(c) : Numbers(c)[s] = Entry(c, s).index /\ Numbers(c)[s] \in Nat
  BY <1>1, ListedAreSections DEF Numbers, Section
<1>4. Numbered(All(c), Numbers(c)) <=>
        \A s, t \in All(c) : Entry(c, s).index = Entry(c, t).index => s = t
  BY <1>2, <1>3 DEF Numbered
<1>5. {s \in All(c) : Entry(c, s).index < NewBase} = Low(All(c), Numbers(c), NewBase)
  BY <1>3 DEF Low
<1>6. {Entry(c, s).index : s \in Low(All(c), Numbers(c), NewBase)}
        = {Numbers(c)[s] : s \in Low(All(c), Numbers(c), NewBase)}
  BY <1>3 DEF Low
<1>7. NewBase \in Nat
  BY BoundsAssumption
<1> DEFINE low == Low(All(c), Numbers(c), NewBase)
<1> HIDE DEF low
<1>8. Compact(c) <=> /\ c \in loaded
                     /\ Shadowed(c, AnyType) = {}
                     /\ \A s, t \in All(c) : Entry(c, s).index = Entry(c, t).index => s = t
                     /\ {Entry(c, s).index : s \in low} = 0 .. (Cardinality(low) - 1)
  <2>1. {s \in Listed(c, AnyType) : Entry(c, s).index < NewBase} = low
    BY <1>5 DEF All, low
  <2> QED
    BY <2>1 DEF Compact, All
<1>9. Gapless(All(c), Numbers(c), NewBase) <=>
        {Entry(c, s).index : s \in low} = 0 .. (Cardinality(low) - 1)
  BY <1>6 DEF Gapless, low
<1> QED
  BY <1>4, <1>7, <1>8, <1>9 DEF Tight

\* There, the order of the numbers is the order of sections(), and places are ranks.
LEMMA OrderIsNumbers ==
    TypeOK => \A c \in Configs : Compact(c) =>
        \A s, t \in All(c) :
            /\ Before(c, s, t) <=> Numbers(c)[s] < Numbers(c)[t]
            /\ Rank(c, AnyType, s) = PlaceOf(All(c), Numbers(c), s)
<1> SUFFICES ASSUME TypeOK, NEW c \in Configs, Compact(c), NEW s \in All(c), NEW t \in All(c)
             PROVE  /\ Before(c, s, t) <=> Numbers(c)[s] < Numbers(c)[t]
                    /\ Rank(c, AnyType, s) = PlaceOf(All(c), Numbers(c), s)
  OBVIOUS
<1>1. ASSUME NEW x \in All(c), NEW y \in All(c)
      PROVE  Before(c, x, y) <=> Numbers(c)[x] < Numbers(c)[y]
  <2>1. /\ Entry(c, x).index \in Nat /\ Entry(c, y).index \in Nat
        /\ Entry(c, x).birth \in Nat /\ Entry(c, y).birth \in Nat
    BY ListedAreSections DEF Section
  <2>2. Entry(c, x).index = Entry(c, y).index => x = y
    BY DEF Compact, All
  <2>3. Numbers(c)[x] = Entry(c, x).index /\ Numbers(c)[y] = Entry(c, y).index
    BY ListedAreSections DEF Numbers
  <2> QED
    BY <2>1, <2>2, <2>3 DEF Before
<1>2. {x \in Listed(c, AnyType) : Before(c, x, s)} = {x \in All(c) : Numbers(c)[x] < Numbers(c)[s]}
  BY <1>1 DEF All
<1>3. {x \in Shadowed(c, AnyType) : ShadowedBefore(c, x, s)} = {}
  BY DEF Compact
<1>4. Cardinality({}) = 0
  BY FS_EmptySet
<1>5. Cardinality({x \in All(c) : Numbers(c)[x] < Numbers(c)[s]}) \in Nat
  <2>1. {x \in All(c) : Numbers(c)[x] < Numbers(c)[s]} \in SUBSET Sids
    BY DEF All, Listed
  <2> QED
    BY <2>1, SidsAssumption, FS_Subset, FS_CardinalityType
<1> QED
  BY <1>1, <1>2, <1>3, <1>4, <1>5 DEF Rank, PlaceOf

-----------------------------------------------------------------------------
(* The indices in use *)

\* A loaded section has an index below the first of a created one, and every created
\* section an index below the next.
IndexOK ==
    \A c \in Configs, s \in Sids :
        /\ Loaded(c, s) => values[c][s].index < NewBase
        /\ Created(c, s) => creates[c][s].index < NewBase + newidx

LEMMA RankIsLow ==
    ASSUME TypeOK, NEW c \in Configs, NEW type, NEW s \in Listed(c, type)
    PROVE  Rank(c, type, s) \in Nat /\ Rank(c, type, s) < NewBase
<1> DEFINE listed   == {t \in Listed(c, type) : Before(c, t, s)}
           shadowed == {t \in Shadowed(c, type) : ShadowedBefore(c, t, s)}
           n        == Cardinality(Sids)
<1>1. s \in Sids /\ Entry(c, s) \in Section
  BY EntryIsSection DEF Listed, Exists
<1>2. ~Before(c, s, s)
  BY <1>1 DEF Before, Section
<1>3. listed \in SUBSET Sids /\ shadowed \in SUBSET Sids /\ s \notin listed
  BY <1>2 DEF Listed, Shadowed
<1>4. Rank(c, type, s) = Cardinality(listed) + Cardinality(shadowed)
  BY DEF Rank
<1> HIDE DEF listed, shadowed
<1>5. /\ IsFiniteSet(listed) /\ Cardinality(listed) <= n /\ (n = Cardinality(listed) => listed = Sids)
      /\ IsFiniteSet(shadowed) /\ Cardinality(shadowed) <= n
  BY <1>3, SidsAssumption, FS_Subset
<1>6. n \in Nat /\ Cardinality(listed) \in Nat /\ Cardinality(shadowed) \in Nat
  BY <1>5, SidsAssumption, FS_CardinalityType
<1>7. n # Cardinality(listed)
  BY <1>1, <1>3, <1>5
<1>8. NewBase \in Nat /\ 2 * n <= NewBase
  BY BoundsAssumption, RoomAssumption
<1> HIDE DEF n
<1> QED
  BY <1>4, <1>5, <1>6, <1>7, <1>8

\* What a swap does: two sections of the package exchange their indices.
SwapFacts(c, s, t) ==
    /\ All(c)' = All(c)
    /\ (Shadowed(c, AnyType) = {}) => (Shadowed(c, AnyType) = {})'
    /\ c \in loaded'
    /\ \A x \in Sids : (Created(c, x)' <=> Created(c, x)) /\ (Loaded(c, x)' <=> Loaded(c, x))
    /\ Exchanged(All(c), Numbers(c), Numbers(c)', s, t)

LEMMA SwapExchanges ==
    ASSUME TypeOK, OverlayOK, NEW c \in Configs, NEW s \in Sids, NEW t \in Sids, Swap(c, s, t)
    PROVE  SwapFacts(c, s, t)
<1> DEFINE new == {x \in {s, t} : Created(c, x)}
           v == Reindexed(values[c], c, s, t, {s, t} \ new)
           w == Reindexed(creates[c], c, s, t, new)
<1>1. s \in All(c) /\ t \in All(c) /\ s # t
  BY DEF Swap, Rendered, All
<1>2. values'[c] = v /\ creates'[c] = w
  BY DEF Swap, TypeOK
<1>3. \A x \in Sids : (Created(c, x)' <=> Created(c, x)) /\ (Loaded(c, x)' <=> Loaded(c, x))
  BY SwapIndices DEF SameButIndex, Created, Loaded
<1>4. loaded' = loaded /\ deletesAll' = deletesAll
  BY DEF Swap
<1>5. All(c)' = All(c)
  BY <1>3, <1>4 DEF All, Listed
<1>6. (Shadowed(c, AnyType) = {}) => (Shadowed(c, AnyType) = {})'
  BY <1>3 DEF Shadowed
<1>7. c \in loaded
  BY <1>1 DEF All, Listed
<1>8. ASSUME NEW x \in All(c)
      PROVE  Entry(c, x)' = IF x \in {s, t}
                            THEN [Entry(c, x) EXCEPT !.index = Entry(c, IF x = s THEN t ELSE s).index]
                            ELSE Entry(c, x)
  <2>1. x \in Sids
    BY DEF All, Listed
  <2>2. CASE Created(c, x)
    BY <1>2, <1>3, <2>1, <2>2 DEF Entry, Reindexed
  <2>3. CASE ~Created(c, x)
    BY <1>2, <1>3, <2>1, <2>3 DEF Entry, Reindexed
  <2> QED
    BY <2>2, <2>3
<1>9. Exchanged(All(c), Numbers(c), Numbers(c)', s, t)
  <2>1. /\ Entry(c, s)' = [Entry(c, s) EXCEPT !.index = Entry(c, t).index]
        /\ Entry(c, t)' = [Entry(c, t) EXCEPT !.index = Entry(c, s).index]
        /\ \A x \in All(c) \ {s, t} : Entry(c, x)' = Entry(c, x)
    BY <1>1, <1>8
  <2>2. Entry(c, s) \in Section /\ Entry(c, t) \in Section
    BY <1>1, ListedAreSections
  <2>3. (Entry(c, s)').index = Entry(c, t).index /\ (Entry(c, t)').index = Entry(c, s).index
    BY <2>1, <2>2 DEF Section
  <2>4. \A x \in All(c) : x \in Sids
    BY DEF All, Listed
  <2> QED
    BY <2>1, <2>3, <2>4 DEF Exchanged, Numbers
<1> QED
  BY <1>3, <1>4, <1>5, <1>6, <1>7, <1>9 DEF SwapFacts

LEMMA IndexStep == TypeOK /\ OverlayOK /\ IndexOK /\ [Next]_vars => IndexOK'
<1> SUFFICES ASSUME TypeOK, OverlayOK, IndexOK, [Next]_vars
             PROVE  IndexOK'
  OBVIOUS
<1>0. NewBase \in Nat /\ newidx \in Nat
  BY BoundsAssumption DEF TypeOK
<1>1. ASSUME NEW c \in Configs, NEW snapshot \in Snapshots, Load(c, snapshot)
      PROVE  IndexOK'
  BY <1>1, RoomAssumption DEF Load, TypeOK, IndexOK, Created, Loaded
<1>2. ASSUME NEW packages \in SUBSET Configs, Unload(packages)
      PROVE  IndexOK'
  BY <1>2 DEF Unload, TypeOK, IndexOK, Created, Loaded
<1>3. ASSUME NEW c \in Configs, NEW s \in Sids, NEW type \in Types, Create(c, type, s)
      PROVE  IndexOK'
  <2> DEFINE new == [type |-> type, index |-> NewBase + newidx, birth |-> newidx, opts |-> Blank]
  <2>1. creates'[c][s] = new /\ new.index = NewBase + newidx /\ newidx' = newidx + 1
    BY <1>3 DEF Create, TypeOK
  <2>2. \A d \in Configs, x \in Sids : <<d, x>> # <<c, s>> => creates'[d][x] = creates[d][x]
    BY <1>3 DEF Create, TypeOK
  <2>3. \A d \in Configs, x \in Sids : Created(d, x) => creates[d][x].index \in Nat
    BY DEF TypeOK, Created, Section
  <2> HIDE DEF new
  <2>4. ASSUME NEW d \in Configs, NEW x \in Sids, Created(d, x)'
        PROVE  creates'[d][x].index < NewBase + newidx'
    <3>1. CASE <<d, x>> = <<c, s>>
      BY <1>0, <2>1, <3>1
    <3>2. CASE <<d, x>> # <<c, s>>
      <4>1. creates'[d][x] = creates[d][x] /\ Created(d, x)
        BY <2>2, <2>4, <3>2 DEF Created
      <4> QED
        BY <1>0, <2>1, <2>3, <4>1 DEF IndexOK
    <3> QED
      BY <3>1, <3>2
  <2>5. values' = values
    BY <1>3 DEF Create
  <2> QED
    BY <2>4, <2>5 DEF IndexOK, Loaded
<1>4. ASSUME NEW c \in Configs, NEW s \in Sids, RemoveCreated(c, s)
      PROVE  IndexOK'
  BY <1>4 DEF RemoveCreated, TypeOK, IndexOK, Created, Loaded
<1>5. ASSUME NEW c \in Configs, NEW s \in Sids, RemoveLoaded(c, s)
      PROVE  IndexOK'
  BY <1>5 DEF RemoveLoaded, IndexOK, Created, Loaded
<1>6. ASSUME NEW c \in Configs, NEW s \in Sids, NEW o \in Options,
             NEW val \in Values \cup {None}, SetCreated(c, s, o, val)
      PROVE  IndexOK'
  <2>1. creates[c][s] \in Section
    BY <1>6 DEF TypeOK, SetCreated, Created
  <2>2. [creates[c][s] EXCEPT !.opts[o] = val].index = creates[c][s].index
    BY <2>1 DEF Section
  <2> QED
    BY <1>6, <2>2 DEF SetCreated, TypeOK, IndexOK, Created, Loaded
<1>7. ASSUME NEW c \in Configs, NEW s \in Sids, NEW o \in Options, NEW val \in Values \cup {None},
             SetChange(c, s, o, val) \/ SetDelete(c, s, o, val)
      PROVE  IndexOK'
  BY <1>7 DEF SetChange, SetDelete, IndexOK, Created, Loaded
<1>8. ASSUME NEW c \in Configs, NEW type, ReadSections(c, type)
      PROVE  IndexOK'
  <2>1. ASSUME NEW s \in Sids, Created(c, s), s \in Listed(c, type)
        PROVE  creates'[c][s].index = Rank(c, type, s)
    <3>1. creates[c][s] \in Section
      BY <2>1 DEF TypeOK, Created
    <3>2. creates'[c][s] = [creates[c][s] EXCEPT !.index = Rank(c, type, s)]
      BY <1>8, <2>1 DEF ReadSections, TypeOK
    <3> QED
      BY <3>1, <3>2 DEF Section
  <2>2. ASSUME NEW d \in Configs, NEW s \in Sids,
               ~(d = c /\ Created(c, s) /\ s \in Listed(c, type))
        PROVE  creates'[d][s] = creates[d][s]
    BY <1>8, <2>2 DEF ReadSections, TypeOK
  <2>3. \A d \in Configs, s \in Sids : Created(d, s)' => Created(d, s)
    BY <1>8, ReadIndices DEF SameButIndex, Created
  <2>4. values' = values /\ newidx' = newidx
    BY <1>8 DEF ReadSections
  <2>5. ASSUME NEW d \in Configs, NEW s \in Sids, Created(d, s)'
        PROVE  creates'[d][s].index < NewBase + newidx'
    <3>1. CASE d = c /\ Created(c, s) /\ s \in Listed(c, type)
      <4>1. Rank(c, type, s) \in Nat /\ Rank(c, type, s) < NewBase
        BY <3>1, RankIsLow
      <4>2. creates'[d][s].index = Rank(c, type, s)
        BY <2>1, <3>1
      <4> QED
        BY <1>0, <2>4, <4>1, <4>2
    <3>2. CASE ~(d = c /\ Created(c, s) /\ s \in Listed(c, type))
      BY <2>2, <2>3, <2>4, <2>5, <3>2 DEF IndexOK
    <3> QED
      BY <3>1, <3>2
  <2> QED
    BY <2>4, <2>5 DEF IndexOK, Loaded
<1>9. ASSUME NEW c \in Configs, NEW s \in Sids, NEW t \in Sids, Swap(c, s, t)
      PROVE  IndexOK'
  <2> DEFINE new == {x \in {s, t} : Created(c, x)}
  <2>1. s \in All(c) /\ t \in All(c)
    BY <1>9 DEF Swap, Rendered, All
  <2>2. ASSUME NEW x \in {s, t}
        PROVE  Entry(c, x).index \in Nat /\ Entry(c, x).index < NewBase
    <3>1. Entry(c, x) \in Section /\ x \in Sids
      BY <2>1, ListedAreSections
    <3>2. CASE Created(c, x)
      BY <1>9, <3>1, <3>2 DEF Swap, Rendered, Section
    <3>3. CASE ~Created(c, x)
      BY <2>1, <3>1, <3>3 DEF IndexOK, Entry, All, Listed, Section
    <3> QED
      BY <3>2, <3>3
  <2>3. ASSUME NEW p \in Package, NEW moved \in SUBSET {s, t}, NEW x \in moved, p[x] # NoSection
        PROVE  Reindexed(p, c, s, t, moved)[x].index < NewBase
    <3>1. p[x] \in Section /\ x \in Sids
      BY <2>3
    <3>2. Reindexed(p, c, s, t, moved)[x]
            = [p[x] EXCEPT !.index = Entry(c, IF x = s THEN t ELSE s).index]
      BY <3>1 DEF Reindexed
    <3>3. Reindexed(p, c, s, t, moved)[x].index = Entry(c, IF x = s THEN t ELSE s).index
      BY <3>1, <3>2 DEF Section
    <3> QED
      BY <2>2, <3>3
  <2>4. ASSUME NEW p \in Package, NEW moved \in SUBSET {s, t}, NEW x \in Sids \ moved
        PROVE  Reindexed(p, c, s, t, moved)[x] = p[x]
    BY DEF Reindexed
  <2>5. /\ values' = [values EXCEPT ![c] = Reindexed(values[c], c, s, t, {s, t} \ new)]
        /\ creates' = [creates EXCEPT ![c] = Reindexed(creates[c], c, s, t, new)]
        /\ newidx' = newidx
    BY <1>9 DEF Swap
  <2>6. \A d \in Configs, x \in Sids : (Created(d, x)' => Created(d, x)) /\ (Loaded(d, x)' => Loaded(d, x))
    BY <1>9, SwapIndices DEF SameButIndex, Created, Loaded
  <2>7. \A d \in Configs : values[d] \in Package /\ creates[d] \in Package
    BY DEF TypeOK
  <2>8. new \in SUBSET {s, t} /\ {s, t} \ new \in SUBSET {s, t}
    OBVIOUS
  <2> HIDE DEF new
  <2>9. ASSUME NEW d \in Configs, NEW x \in Sids, Loaded(d, x)'
        PROVE  values'[d][x].index < NewBase
    <3>1. Loaded(d, x)
      BY <2>6, <2>9
    <3>2. CASE d = c /\ x \in {s, t} \ new
      BY <2>3, <2>5, <2>7, <2>8, <3>1, <3>2 DEF Loaded, TypeOK
    <3>3. CASE ~(d = c /\ x \in {s, t} \ new)
      <4>1. values'[d][x] = values[d][x]
        <5>1. CASE d = c
          <6>1. values'[c] = Reindexed(values[c], c, s, t, {s, t} \ new)
            BY <2>5 DEF TypeOK
          <6>2. values[c] \in Package /\ x \in Sids \ ({s, t} \ new)
            BY <2>7, <3>3, <5>1
          <6> QED
            BY <2>4, <2>8, <5>1, <6>1, <6>2
        <5>2. CASE d # c
          BY <2>5, <5>2 DEF TypeOK
        <5> QED
          BY <5>1, <5>2
      <4> QED
        BY <3>1, <4>1 DEF IndexOK
    <3> QED
      BY <3>2, <3>3
  <2>10. ASSUME NEW d \in Configs, NEW x \in Sids, Created(d, x)'
         PROVE  creates'[d][x].index < NewBase + newidx'
    <3>1. Created(d, x)
      BY <2>6, <2>10
    <3>2. CASE d = c /\ x \in new
      <4>1. creates'[d][x].index < NewBase /\ Entry(c, s).index \in Nat /\ Entry(c, t).index \in Nat
        BY <2>2, <2>3, <2>5, <2>7, <2>8, <3>1, <3>2 DEF Created, TypeOK
      <4>2. creates'[d][x].index \in Nat
        <5>1. TypeOK'
          BY TypeStep
        <5> QED
          BY <2>10, <5>1 DEF TypeOK, Created, Section
      <4> QED
        BY <1>0, <2>5, <4>1, <4>2
    <3>3. CASE ~(d = c /\ x \in new)
      <4>1. creates'[d][x] = creates[d][x]
        <5>1. CASE d = c
          <6>1. creates'[c] = Reindexed(creates[c], c, s, t, new)
            BY <2>5 DEF TypeOK
          <6>2. creates[c] \in Package /\ x \in Sids \ (new)
            BY <2>7, <3>3, <5>1
          <6> QED
            BY <2>4, <2>8, <5>1, <6>1, <6>2
        <5>2. CASE d # c
          BY <2>5, <5>2 DEF TypeOK
        <5> QED
          BY <5>1, <5>2
      <4> QED
        BY <2>5, <3>1, <4>1 DEF IndexOK
    <3> QED
      BY <3>2, <3>3
  <2> QED
    BY <2>9, <2>10 DEF IndexOK
<1>10. CASE UNCHANGED vars
  BY <1>10 DEF vars, IndexOK, Created, Loaded
<1> QED
  BY <1>1, <1>2, <1>3, <1>4, <1>5, <1>6, <1>7, <1>8, <1>9, <1>10 DEF Next, AddNamed, AddAnonymous

LEMMA OrderInvariant == Spec => [](TypeOK /\ OverlayOK /\ IndexOK)
<1>1. Init => TypeOK /\ OverlayOK /\ IndexOK
  BY BlankIsContent DEF Init, TypeOK, OverlayOK, NoConflict, PendingIsReal, IndexOK, Created, Loaded
<1>2. TypeOK /\ OverlayOK /\ IndexOK /\ [Next]_vars => (TypeOK /\ OverlayOK /\ IndexOK)'
  BY TypeStep, OverlayStep, IndexStep
<1> QED
  BY <1>1, <1>2, PTL DEF Spec

-----------------------------------------------------------------------------
(* What the calls do to the order of a package *)

\* The package has the sections it had, with the numbers they had.
Keeps(c) ==
    /\ (c \in loaded)' = (c \in loaded)
    /\ All(c)' = All(c)
    /\ \A x \in Sids : (Created(c, x)' <=> Created(c, x)) /\ (Loaded(c, x)' <=> Loaded(c, x))
    /\ \A x \in All(c) : /\ (Entry(c, x)').index = Entry(c, x).index
                         /\ (Entry(c, x)').birth = Entry(c, x).birth

Emptied(c) == c \notin loaded'

\* A section of the package is removed, those that stay keep their numbers.
Removed(c) ==
    /\ \E s \in Sids : RemoveCreated(c, s) \/ RemoveLoaded(c, s)
    /\ \A x \in All(c) : Created(c, x)' = Created(c, x) => Entry(c, x)' = Entry(c, x)

Added(c) ==
    \E s \in Sids, type \in Types : ~Exists(c, s) /\ Create(c, type, s)

\* What a step does to a package that is in the cache and that it does not read by
\* a type.
StepOf(c) ==
    \/ Keeps(c)
    \/ Emptied(c)
    \/ Removed(c)
    \/ Added(c)
    \/ ReadSections(c, AnyType)
    \/ \E s, t \in Sids : Swap(c, s, t)

LEMMA SamePackage ==
    ASSUME NEW c \in Configs, (c \in loaded)' = (c \in loaded),
           values'[c] = values[c], creates'[c] = creates[c], deletesAll'[c] = deletesAll[c]
    PROVE  Keeps(c)
<1>1. \A x \in Sids : /\ (Created(c, x)' <=> Created(c, x)) /\ (Loaded(c, x)' <=> Loaded(c, x))
                      /\ Entry(c, x)' = Entry(c, x)
  BY DEF Created, Loaded, Entry
<1>2. All(c)' = All(c)
  BY <1>1 DEF All, Listed
<1>3. \A x \in All(c) : x \in Sids
  BY DEF All, Listed
<1> QED
  BY <1>1, <1>2, <1>3 DEF Keeps

LEMMA StepsOf ==
    ASSUME TypeOK, [Next]_vars, NEW c \in Configs, c \in loaded, ~TypedRead(c)
    PROVE  StepOf(c)
<1>1. ASSUME NEW d \in Configs, NEW snapshot \in Snapshots, Load(d, snapshot)
      PROVE  StepOf(c)
  <2>1. Keeps(c)
    BY <1>1, SamePackage DEF Load, TypeOK
  <2> QED
    BY <2>1 DEF StepOf
<1>2. ASSUME NEW packages \in SUBSET Configs, Unload(packages)
      PROVE  StepOf(c)
  <2>1. CASE c \in packages
    BY <1>2, <2>1 DEF Unload, StepOf, Emptied
  <2>2. CASE c \notin packages
    <3>1. Keeps(c)
      BY <1>2, <2>2, SamePackage DEF Unload
    <3> QED
      BY <3>1 DEF StepOf
  <2> QED
    BY <2>1, <2>2
<1>3. ASSUME NEW d \in Configs, NEW s \in Sids, NEW type \in Types, ~Exists(d, s), Create(d, type, s)
      PROVE  StepOf(c)
  <2>1. CASE d = c
    BY <1>3, <2>1 DEF StepOf, Added
  <2>2. CASE d # c
    <3>1. Keeps(c)
      BY <1>3, <2>2, SamePackage DEF Create, TypeOK
    <3> QED
      BY <3>1 DEF StepOf
  <2> QED
    BY <2>1, <2>2
<1>4. ASSUME NEW d \in Configs, NEW s \in Sids, RemoveCreated(d, s)
      PROVE  StepOf(c)
  <2>1. CASE d = c
    <3>1. \A x \in All(c) : x \in Sids
      BY DEF All, Listed
    <3>2. \A x \in Sids : x # s => creates'[c][x] = creates[c][x]
      BY <1>4, <2>1 DEF RemoveCreated, TypeOK
    <3>3. Created(c, s) /\ ~Created(c, s)'
      BY <1>4, <2>1 DEF RemoveCreated, TypeOK, Created
    <3>4. values' = values
      BY <1>4 DEF RemoveCreated
    <3>5. ASSUME NEW x \in All(c), Created(c, x)' = Created(c, x) PROVE Entry(c, x)' = Entry(c, x)
      <4>1. x # s
        BY <3>3, <3>5
      <4> QED
        BY <3>1, <3>2, <3>4, <4>1 DEF Entry, Created
    <3> QED
      BY <1>4, <2>1, <3>5 DEF StepOf, Removed
  <2>2. CASE d # c
    <3>1. Keeps(c)
      BY <1>4, <2>2, SamePackage DEF RemoveCreated, TypeOK
    <3> QED
      BY <3>1 DEF StepOf
  <2> QED
    BY <2>1, <2>2
<1>5. ASSUME NEW d \in Configs, NEW s \in Sids, RemoveLoaded(d, s)
      PROVE  StepOf(c)
  <2>1. CASE d = c
    <3>1. \A x \in All(c) : Entry(c, x)' = Entry(c, x)
      BY <1>5 DEF RemoveLoaded, Entry, Created
    <3> QED
      BY <1>5, <2>1, <3>1 DEF StepOf, Removed
  <2>2. CASE d # c
    <3>1. Keeps(c)
      BY <1>5, <2>2, SamePackage DEF RemoveLoaded, TypeOK
    <3> QED
      BY <3>1 DEF StepOf
  <2> QED
    BY <2>1, <2>2
<1>6. ASSUME NEW d \in Configs, NEW s \in Sids, NEW o \in Options,
             NEW val \in Values \cup {None}, SetCreated(d, s, o, val)
      PROVE  StepOf(c)
  <2>1. CASE d = c
    <3>1. creates[c][s] \in Section /\ creates[c][s] # NoSection
      BY <1>6, <2>1 DEF TypeOK, SetCreated, Created
    <3>2. /\ [creates[c][s] EXCEPT !.opts[o] = val] \in Section
          /\ [creates[c][s] EXCEPT !.opts[o] = val].index = creates[c][s].index
          /\ [creates[c][s] EXCEPT !.opts[o] = val].birth = creates[c][s].birth
          /\ [creates[c][s] EXCEPT !.opts[o] = val].type = creates[c][s].type
      BY <3>1 DEF Section
    <3>3. creates'[c][s] = [creates[c][s] EXCEPT !.opts[o] = val]
      BY <1>6, <2>1 DEF SetCreated, TypeOK
    <3>4. \A x \in Sids : x # s => creates'[c][x] = creates[c][x]
      BY <1>6, <2>1 DEF SetCreated, TypeOK
    <3>5. values' = values /\ loaded' = loaded /\ deletesAll' = deletesAll
      BY <1>6 DEF SetCreated
    <3>6. creates'[c][s] \in Section /\ creates'[c][s] # NoSection
      BY <3>2, <3>3, SectionAssumption
    <3>7. \A x \in Sids : /\ (Created(c, x)' <=> Created(c, x)) /\ (Loaded(c, x)' <=> Loaded(c, x))
      BY <3>1, <3>4, <3>5, <3>6 DEF Created, Loaded
    <3>8. \A x \in Sids : /\ (Entry(c, x)').index = Entry(c, x).index
                          /\ (Entry(c, x)').birth = Entry(c, x).birth
      <4> SUFFICES ASSUME NEW x \in Sids
                   PROVE  /\ (Entry(c, x)').index = Entry(c, x).index
                          /\ (Entry(c, x)').birth = Entry(c, x).birth
        OBVIOUS
      <4>1. CASE x = s
        <5>1. Entry(c, x)' = creates'[c][s] /\ Entry(c, x) = creates[c][s]
          BY <3>1, <3>6, <4>1 DEF Entry, Created
        <5> QED
          BY <3>2, <3>3, <5>1
      <4>2. CASE x # s
        BY <3>4, <3>5, <4>2 DEF Entry, Created
      <4> QED
        BY <4>1, <4>2
    <3>9. All(c)' = All(c)
      BY <3>5, <3>7 DEF All, Listed
    <3>10. \A x \in All(c) : x \in Sids
      BY DEF All, Listed
    <3>11. Keeps(c)
      BY <3>5, <3>7, <3>8, <3>9, <3>10 DEF Keeps
    <3> QED
      BY <3>11 DEF StepOf
  <2>2. CASE d # c
    <3>1. Keeps(c)
      BY <1>6, <2>2, SamePackage DEF SetCreated, TypeOK
    <3> QED
      BY <3>1 DEF StepOf
  <2> QED
    BY <2>1, <2>2
<1>7. ASSUME NEW d \in Configs, NEW s \in Sids, NEW o \in Options, NEW val \in Values \cup {None},
             SetChange(d, s, o, val) \/ SetDelete(d, s, o, val)
      PROVE  StepOf(c)
  <2>1. Keeps(c)
    BY <1>7, SamePackage DEF SetChange, SetDelete
  <2> QED
    BY <2>1 DEF StepOf
<1>8. ASSUME NEW d \in Configs, NEW type \in ReadTypes, ReadSections(d, type)
      PROVE  StepOf(c)
  <2>1. CASE d = c
    BY <1>8, <2>1 DEF StepOf, TypedRead
  <2>2. CASE d # c
    <3>1. Keeps(c)
      BY <1>8, <2>2, SamePackage DEF ReadSections, TypeOK
    <3> QED
      BY <3>1 DEF StepOf
  <2> QED
    BY <2>1, <2>2
<1>9. ASSUME NEW d \in Configs, NEW s \in Sids, NEW t \in Sids, Swap(d, s, t)
      PROVE  StepOf(c)
  <2>1. CASE d = c
    BY <1>9, <2>1 DEF StepOf
  <2>2. CASE d # c
    <3>1. Keeps(c)
      BY <1>9, <2>2, SamePackage DEF Swap, TypeOK
    <3> QED
      BY <3>1 DEF StepOf
  <2> QED
    BY <2>1, <2>2
<1>10. CASE UNCHANGED vars
  <2>1. Keeps(c)
    BY <1>10, SamePackage DEF vars
  <2> QED
    BY <2>1 DEF StepOf
<1> QED
  BY <1>1, <1>2, <1>3, <1>4, <1>5, <1>6, <1>7, <1>8, <1>9, <1>10 DEF Next, AddNamed, AddAnonymous

\* What the lemmas about packages in order say, and that they say it of the state
\* after a step as well.
OrderFacts ==
    \A c \in Configs :
        /\ Compact(c) <=> /\ c \in loaded
                          /\ Shadowed(c, AnyType) = {}
                          /\ Tight(All(c), Numbers(c), NewBase)
        /\ Compact(c) => \A s, t \in All(c) :
              /\ Before(c, s, t) <=> Numbers(c)[s] < Numbers(c)[t]
              /\ Rank(c, AnyType, s) = PlaceOf(All(c), Numbers(c), s)

LEMMA AfterStep ==
    TypeOK' => \A c \in Configs :
        /\ Compact(c)' <=> /\ c \in loaded'
                           /\ (Shadowed(c, AnyType) = {})'
                           /\ Tight(All(c)', Numbers(c)', NewBase)
        /\ Compact(c)' => \A s, t \in All(c)' :
              /\ Before(c, s, t)' <=> Numbers(c)'[s] < Numbers(c)'[t]
              /\ Rank(c, AnyType, s)' = PlaceOf(All(c)', Numbers(c)', s)
<1>1. TypeOK => OrderFacts
  BY CompactIsTight, OrderIsNumbers DEF OrderFacts
<1>2. TypeOK' => OrderFacts'
  BY <1>1, PTL
<1> QED
  BY <1>2 DEF OrderFacts

\* The numbers of the listed sections, before a step and after it.
LEMMA NumbersOf ==
    ASSUME NEW c \in Configs
    PROVE  /\ \A x \in All(c) : x \in Sids
           /\ \A x \in Sids : /\ Numbers(c)[x] = Entry(c, x).index
                              /\ Numbers(c)'[x] = (Entry(c, x)').index
BY DEF All, Listed, Numbers

LEMMA KeepsOrder ==
    ASSUME TypeOK, TypeOK', NEW c \in Configs, Compact(c), Keeps(c)
    PROVE  /\ Compact(c)'
           /\ \A s, t \in All(c) : Before(c, s, t)' <=> Before(c, s, t)
<1>1. /\ c \in loaded /\ Shadowed(c, AnyType) = {}
      /\ Tight(All(c), Numbers(c), NewBase)
  BY CompactIsTight
<1>2. /\ c \in loaded' /\ All(c)' = All(c)
      /\ \A x \in Sids : (Created(c, x)' <=> Created(c, x)) /\ (Loaded(c, x)' <=> Loaded(c, x))
      /\ \A x \in All(c) : (Entry(c, x)').index = Entry(c, x).index
  BY <1>1 DEF Keeps
<1>3. (Shadowed(c, AnyType) = {})'
  BY <1>1, <1>2 DEF Shadowed
<1>4. \A x \in All(c) : Numbers(c)'[x] = Numbers(c)[x]
  BY <1>2, NumbersOf
<1>5. Tight(All(c)', Numbers(c)', NewBase)
  <2>1. PICK ix, jx : ix = Numbers(c) /\ jx = Numbers(c)'
    OBVIOUS
  <2>2. Tight(All(c), ix, NewBase) /\ \A x \in All(c) : jx[x] = ix[x]
    BY <1>1, <1>4, <2>1
  <2>3. Tight(All(c), jx, NewBase)
    BY <2>2, TightSame
  <2> QED
    BY <1>2, <2>1, <2>3
<1>6. Compact(c)'
  BY <1>2, <1>3, <1>5, AfterStep
<1>7. ASSUME NEW s \in All(c), NEW t \in All(c) PROVE Before(c, s, t)' <=> Before(c, s, t)
  <2>1. Before(c, s, t) <=> Numbers(c)[s] < Numbers(c)[t]
    BY OrderIsNumbers
  <2>2. Before(c, s, t)' <=> Numbers(c)'[s] < Numbers(c)'[t]
    BY <1>2, <1>6, AfterStep
  <2> QED
    BY <1>4, <2>1, <2>2
<1> QED
  BY <1>6, <1>7

LEMMA AddedOrder ==
    ASSUME TypeOK, TypeOK', IndexOK, NEW c \in Configs, Compact(c), Added(c)
    PROVE  /\ Compact(c)'
           /\ \A s, t \in All(c) : Before(c, s, t)' <=> Before(c, s, t)
<1>1. /\ c \in loaded /\ Shadowed(c, AnyType) = {}
      /\ Tight(All(c), Numbers(c), NewBase)
  BY CompactIsTight
<1>2. PICK n \in Sids, type \in Types : ~Exists(c, n) /\ Create(c, type, n)
  BY DEF Added
<1> DEFINE new == [type |-> type, index |-> NewBase + newidx, birth |-> newidx, opts |-> Blank]
<1>3. NewBase \in Nat /\ newidx \in Nat
  BY BoundsAssumption DEF TypeOK
<1>4. new \in Section /\ new.index = NewBase + newidx /\ new # NoSection
  BY <1>3, BlankIsContent, SectionAssumption DEF Section
<1>5. /\ creates'[c][n] = new
      /\ \A x \in Sids : x # n => creates'[c][x] = creates[c][x]
      /\ values' = values /\ loaded' = loaded /\ deletesAll' = deletesAll
  BY <1>2 DEF Create, TypeOK
<1> HIDE DEF new
<1>6. n \notin All(c) /\ ~Created(c, n) /\ ~Loaded(c, n)
  BY <1>2 DEF All, Listed, Exists
<1>7. /\ Created(c, n)'
      /\ \A x \in Sids : x # n => (Created(c, x)' <=> Created(c, x))
      /\ \A x \in Sids : Loaded(c, x)' <=> Loaded(c, x)
  BY <1>4, <1>5 DEF Created, Loaded
<1>8. All(c)' = All(c) \cup {n}
  BY <1>1, <1>2, <1>5, <1>7 DEF All, Listed
<1>9. (Shadowed(c, AnyType) = {})'
  BY <1>1, <1>6, <1>7 DEF Shadowed
<1>10. \A x \in All(c) : Entry(c, x)' = Entry(c, x)
  BY <1>5, <1>6, <1>7, NumbersOf DEF Entry
<1>11. Entry(c, n)' = new
  BY <1>5, <1>7 DEF Entry
<1>12. \A x \in All(c) : Numbers(c)'[x] = Numbers(c)[x]
  BY <1>10, NumbersOf
<1>13. Numbers(c)'[n] = NewBase + newidx
  BY <1>4, <1>11, NumbersOf
<1>14. ASSUME NEW x \in All(c) PROVE Numbers(c)[x] # NewBase + newidx
  <2>1. x \in Sids /\ Entry(c, x) \in Section /\ Entry(c, x).index \in Nat
    BY ListedAreSections DEF Section
  <2>2. Entry(c, x).index < NewBase + newidx
    <3>1. CASE Created(c, x)
      BY <2>1, <3>1 DEF IndexOK, Entry
    <3>2. CASE ~Created(c, x)
      <4>1. Loaded(c, x) /\ Entry(c, x) = values[c][x]
        BY <3>2 DEF All, Listed, Entry
      <4> QED
        BY <1>3, <2>1, <4>1 DEF IndexOK
    <3> QED
      BY <3>1, <3>2
  <2> QED
    BY <1>3, <2>1, <2>2, NumbersOf
<1>15. Tight(All(c)', Numbers(c)', NewBase)
  <2>1. PICK ix, jx : ix = Numbers(c) /\ jx = Numbers(c)'
    OBVIOUS
  <2>2. /\ Tight(All(c), ix, NewBase) /\ n \notin All(c)
        /\ \A x \in All(c) : jx[x] = ix[x] /\ ix[x] # jx[n]
        /\ jx[n] \in Nat /\ NewBase <= jx[n]
    BY <1>1, <1>3, <1>6, <1>12, <1>13, <1>14, <2>1
  <2>3. Tight(All(c) \cup {n}, jx, NewBase)
    BY <2>2, TightMore
  <2> QED
    BY <1>8, <2>1, <2>3
<1>16. Compact(c)'
  BY <1>1, <1>5, <1>9, <1>15, AfterStep
<1>17. ASSUME NEW s \in All(c), NEW t \in All(c) PROVE Before(c, s, t)' <=> Before(c, s, t)
  <2>1. Before(c, s, t) <=> Numbers(c)[s] < Numbers(c)[t]
    BY OrderIsNumbers
  <2>2. Before(c, s, t)' <=> Numbers(c)'[s] < Numbers(c)'[t]
    BY <1>8, <1>16, AfterStep
  <2> QED
    BY <1>12, <2>1, <2>2
<1> QED
  BY <1>16, <1>17

LEMMA ReadOrder ==
    ASSUME TypeOK, TypeOK', IndexOK, NEW c \in Configs, Compact(c), ReadSections(c, AnyType)
    PROVE  /\ Compact(c)'
           /\ \A s, t \in All(c) : Before(c, s, t)' <=> Before(c, s, t)
<1>1. /\ c \in loaded /\ Shadowed(c, AnyType) = {}
      /\ Tight(All(c), Numbers(c), NewBase)
  BY CompactIsTight
<1>2. \A x \in Sids : (Created(c, x)' <=> Created(c, x))
  BY ReadIndices DEF SameButIndex, Created
<1>3. values' = values /\ loaded' = loaded /\ deletesAll' = deletesAll
  BY DEF ReadSections
<1>4. All(c)' = All(c)
  BY <1>2, <1>3 DEF All, Listed, Loaded
<1>5. (Shadowed(c, AnyType) = {})'
  BY <1>1, <1>2, <1>3 DEF Shadowed, Loaded
<1>6. ASSUME NEW x \in All(c) PROVE Numbers(c)'[x] = PlaceOf(All(c), Numbers(c), x)
  <2>1. x \in Sids /\ Rank(c, AnyType, x) = PlaceOf(All(c), Numbers(c), x)
    BY NumbersOf, OrderIsNumbers
  <2>2. CASE Created(c, x)
    <3>1. creates[c][x] \in Section
      BY <2>1, <2>2 DEF TypeOK, Created
    <3>2. creates'[c][x] = [creates[c][x] EXCEPT !.index = Rank(c, AnyType, x)]
      BY <2>1, <2>2 DEF ReadSections, TypeOK, All
    <3>3. (Entry(c, x)').index = Rank(c, AnyType, x)
      BY <1>2, <2>1, <2>2, <3>1, <3>2 DEF Entry, Section
    <3> QED
      BY <2>1, <3>3, NumbersOf
  <2>3. CASE ~Created(c, x)
    <3>1. Loaded(c, x) /\ Entry(c, x) = values[c][x] /\ Entry(c, x)' = Entry(c, x)
      BY <1>2, <1>3, <2>1, <2>3 DEF All, Listed, Entry
    <3>2. Numbers(c)[x] < NewBase /\ Numbers(c)'[x] = Numbers(c)[x]
      BY <2>1, <3>1, NumbersOf DEF IndexOK
    <3>3. x \in Low(All(c), Numbers(c), NewBase)
      BY <3>2 DEF Low
    <3> QED
      BY <1>1, <3>2, <3>3, PlaceIsNumber
  <2> QED
    BY <2>2, <2>3
<1>7. Cardinality(All(c)) <= NewBase
  <2>1. All(c) \in SUBSET Sids
    BY DEF All, Listed
  <2>2. IsFiniteSet(All(c)) /\ Cardinality(All(c)) <= Cardinality(Sids)
    BY <2>1, SidsAssumption, FS_Subset
  <2>3. Cardinality(All(c)) \in Nat /\ Cardinality(Sids) \in Nat
    BY <2>2, SidsAssumption, FS_CardinalityType
  <2> QED
    BY <2>2, <2>3, BoundsAssumption, RoomAssumption
<1>8. PICK ix, jx : ix = Numbers(c) /\ jx = Numbers(c)'
  OBVIOUS
<1>9. /\ Tight(All(c), ix, NewBase) /\ Cardinality(All(c)) <= NewBase
      /\ \A x \in All(c) : jx[x] = PlaceOf(All(c), ix, x)
  BY <1>1, <1>6, <1>7, <1>8
<1>10. /\ Tight(All(c), jx, NewBase)
       /\ \A x, y \in All(c) : jx[x] < jx[y] <=> ix[x] < ix[y]
  BY <1>9, TightPlaces
<1>11. Compact(c)'
  BY <1>1, <1>3, <1>4, <1>5, <1>8, <1>10, AfterStep
<1>12. ASSUME NEW s \in All(c), NEW t \in All(c) PROVE Before(c, s, t)' <=> Before(c, s, t)
  <2>1. Before(c, s, t) <=> Numbers(c)[s] < Numbers(c)[t]
    BY OrderIsNumbers
  <2>2. Before(c, s, t)' <=> Numbers(c)'[s] < Numbers(c)'[t]
    BY <1>4, <1>11, AfterStep
  <2> QED
    BY <1>8, <1>10, <2>1, <2>2
<1> QED
  BY <1>11, <1>12

LEMMA SwapOrder ==
    ASSUME TypeOK, TypeOK', OverlayOK, IndexOK, NEW c \in Configs, Compact(c),
           NEW s \in Sids, NEW t \in Sids, Swap(c, s, t)
    PROVE  /\ Compact(c)'
           /\ Rank(c, AnyType, s)' = Rank(c, AnyType, t)
           /\ Rank(c, AnyType, t)' = Rank(c, AnyType, s)
           /\ \A x \in All(c) \ {s, t} : Rank(c, AnyType, x)' = Rank(c, AnyType, x)
<1>1. /\ c \in loaded /\ Shadowed(c, AnyType) = {}
      /\ Tight(All(c), Numbers(c), NewBase)
  BY CompactIsTight
<1>2. /\ s \in All(c) /\ t \in All(c) /\ s # t
      /\ Rendered(c, s) /\ Rendered(c, t)
  BY DEF Swap, Rendered, All
<1>3. /\ All(c)' = All(c) /\ (Shadowed(c, AnyType) = {})' /\ c \in loaded'
      /\ Exchanged(All(c), Numbers(c), Numbers(c)', s, t)
  BY <1>1, SwapExchanges DEF SwapFacts
<1>4. ASSUME NEW x \in All(c), Rendered(c, x) PROVE x \in Low(All(c), Numbers(c), NewBase)
  <2>1. Numbers(c)[x] = Entry(c, x).index /\ x \in Sids
    BY NumbersOf
  <2>2. CASE Created(c, x)
    BY <1>4, <2>1, <2>2 DEF Rendered, Low
  <2>3. CASE ~Created(c, x)
    BY <2>1, <2>3 DEF All, Listed, Entry, IndexOK, Low
  <2> QED
    BY <2>2, <2>3
<1>5. PICK ix, jx : ix = Numbers(c) /\ jx = Numbers(c)'
  OBVIOUS
<1>6. /\ Tight(All(c), ix, NewBase) /\ Exchanged(All(c), ix, jx, s, t)
      /\ s \in Low(All(c), ix, NewBase) /\ t \in Low(All(c), ix, NewBase)
  BY <1>1, <1>2, <1>3, <1>4, <1>5
<1>7. /\ Tight(All(c), jx, NewBase)
      /\ PlaceOf(All(c), jx, s) = PlaceOf(All(c), ix, t)
      /\ PlaceOf(All(c), jx, t) = PlaceOf(All(c), ix, s)
      /\ \A x \in All(c) \ {s, t} : PlaceOf(All(c), jx, x) = PlaceOf(All(c), ix, x)
  BY <1>2, <1>6, TightExchange
<1>8. Compact(c)'
  BY <1>3, <1>5, <1>7, AfterStep
<1>9. \A x \in All(c) : /\ Rank(c, AnyType, x) = PlaceOf(All(c), ix, x)
                        /\ Rank(c, AnyType, x)' = PlaceOf(All(c), jx, x)
  BY <1>3, <1>5, <1>8, OrderIsNumbers, AfterStep
<1> QED
  BY <1>2, <1>7, <1>8, <1>9

-----------------------------------------------------------------------------
(* The theorems *)

\* Reading, adding, moving and editing keep a package in order, whatever its
\* sections, for as long as none of it is removed and it is not read by a type.
CompactStep(c) ==
    /\ Compact(c)
    /\ c \in loaded'
    /\ ~TypedRead(c)
    /\ ~ \E s \in Sids : RemoveCreated(c, s) \/ RemoveLoaded(c, s)
    => Compact(c)'

THEOREM CompactStays == Spec => CompactKept
<1>1. TypeOK /\ OverlayOK /\ IndexOK /\ [Next]_vars => \A c \in Configs : CompactStep(c)
  <2> SUFFICES ASSUME TypeOK, OverlayOK, IndexOK, [Next]_vars, NEW c \in Configs,
                      Compact(c), c \in loaded', ~TypedRead(c),
                      ~ \E s \in Sids : RemoveCreated(c, s) \/ RemoveLoaded(c, s)
               PROVE  Compact(c)'
    BY DEF CompactStep
  <2>1. TypeOK' /\ c \in loaded
    BY TypeStep DEF Compact
  <2>2. StepOf(c)
    BY <2>1, StepsOf
  <2>3. \/ Keeps(c) \/ Added(c) \/ ReadSections(c, AnyType)
        \/ \E s, t \in Sids : Swap(c, s, t)
    BY <2>2 DEF StepOf, Emptied, Removed
  <2> QED
    BY <2>1, <2>3, KeepsOrder, AddedOrder, ReadOrder, SwapOrder
<1>2. Spec => [][\A c \in Configs : CompactStep(c)]_vars
  BY <1>1, OrderInvariant, PTL DEF Spec
<1> QED
  BY <1>2 DEF CompactKept, CompactStep

\* In a package in order sections keep their places, whatever is read, added, edited
\* or removed, and a swap exchanges the places of the two sections it is given.
THEOREM PlacesStay == Spec => PlacesKept
<1>1. TypeOK /\ OverlayOK /\ IndexOK /\ [Next]_vars =>
        \A c \in Configs : Compact(c) /\ ~TypedRead(c) => KeepsPlaces(c)
  <2> SUFFICES ASSUME TypeOK, OverlayOK, IndexOK, [Next]_vars, NEW c \in Configs,
                      Compact(c), ~TypedRead(c)
               PROVE  KeepsPlaces(c)
    OBVIOUS
  <2>1. TypeOK' /\ c \in loaded
    BY TypeStep DEF Compact
  <2>2. StepOf(c)
    BY <2>1, StepsOf
  <2>3. \A x \in Staying(c) : x \in All(c) /\ x \in Sids /\ x \in All(c)'
                           /\ Created(c, x)' = Created(c, x)
    BY NumbersOf DEF Staying, All
  <2>4. ASSUME NEW s \in Sids, NEW t \in Sids, Swap(c, s, t)
        PROVE  KeepsPlaces(c)
    <3>1. SwapFacts(c, s, t)
      BY <2>4, SwapExchanges
    <3>2. s \in All(c) /\ t \in All(c) /\ s # t
      BY <2>4 DEF Swap, Rendered, All
    <3>3. s \in Staying(c) /\ t \in Staying(c)
      BY <3>1, <3>2 DEF SwapFacts, Staying, All, Created
    <3>4. /\ Rank(c, AnyType, s)' = Rank(c, AnyType, t)
          /\ Rank(c, AnyType, t)' = Rank(c, AnyType, s)
          /\ \A x \in All(c) \ {s, t} : Rank(c, AnyType, x)' = Rank(c, AnyType, x)
      BY <2>1, <2>4, SwapOrder
    <3>5. \A x \in Staying(c) \ {s, t} : Rank(c, AnyType, x)' = Rank(c, AnyType, x)
      BY <2>3, <3>4
    <3> QED
      BY <2>4, <3>2, <3>3, <3>4, <3>5 DEF KeepsPlaces
  <2>5. ASSUME \A s, t \in Staying(c) : Before(c, s, t)' <=> Before(c, s, t),
               ~ \E s, t \in Sids : Swap(c, s, t)
        PROVE  KeepsPlaces(c)
    <3>1. \A s, t \in Staying(c) : Before(c, s, t)' = Before(c, s, t)
      BY <2>5 DEF Before
    <3>2. ~ \E s, t \in Staying(c) : Swap(c, s, t)
      BY <2>3, <2>5
    <3> QED
      BY <3>1, <3>2 DEF KeepsPlaces
  <2>6. ASSUME Emptied(c)
        PROVE  \A s, t \in Staying(c) : Before(c, s, t)' <=> Before(c, s, t)
    BY <2>6 DEF Emptied, Staying, Listed
  <2>7. ASSUME Removed(c)
        PROVE  \A s, t \in Staying(c) : Before(c, s, t)' <=> Before(c, s, t)
    <3>1. \A x \in Staying(c) : Entry(c, x)' = Entry(c, x) /\ Created(c, x)' = Created(c, x)
      BY <2>3, <2>7 DEF Removed
    <3> QED
      BY <3>1 DEF Before
  <2>8. ASSUME Keeps(c) \/ Added(c) \/ ReadSections(c, AnyType)
        PROVE  \A s, t \in Staying(c) : Before(c, s, t)' <=> Before(c, s, t)
    BY <2>1, <2>3, <2>8, KeepsOrder, AddedOrder, ReadOrder
  <2> QED
    BY <2>2, <2>4, <2>5, <2>6, <2>7, <2>8 DEF StepOf
<1>2. Spec => [][\A c \in Configs : Compact(c) /\ ~TypedRead(c) => KeepsPlaces(c)]_vars
  BY <1>1, OrderInvariant, PTL DEF Spec
<1> QED
  BY <1>2 DEF PlacesKept
=============================================================================
