------------------------------ MODULE Firewall ------------------------------
(***************************************************************************)
(* The zones of the firewall and the networks they cover, firewall.js, as  *)
(* the form of an interface (network.js) and the button that removes one   *)
(* (network.interfaces.js) change them.  A network belongs to the zone     *)
(* whose list names it; the lists are kept in order, as the code picks     *)
(* their elements by position.                                             *)
(***************************************************************************)
EXTENDS Naturals, Sequences, SequencesExt

CONSTANTS
    Alphabet,       \* the names of interfaces, sorted
    ZoneNames,      \* names of zones the user chooses among or makes up
    Unspecified,    \* the choice of no zone
    None,           \* no choice made so far
    MaxZones        \* zones at a time

VARIABLES
    interfaces,     \* the interfaces there are
    zoneObjects,    \* the zones, in the order of their sections
    loaded,         \* the zones were read: some form with a list of them was shown
    chosen          \* chosen[n]: what the form of n was last saved with, or None

vars == <<interfaces, zoneObjects, loaded, chosen>>

Networks == ToSet(Alphabet)

Covers(z, n) == n \in ToSet(z.nets)

\* At the start there is one zone, and it covers any of the interfaces.
Init ==
    /\ interfaces = Networks
    /\ zoneObjects \in
        { <<[name |-> z, nets |-> s]>> : z \in ZoneNames, s \in SetToAllKPermutations(Networks) }
    /\ loaded = FALSE
    /\ chosen = [n \in Networks |-> None]
-----------------------------------------------------------------------------
(* The zone objects.  A search takes the last of those that match.         *)

findZoneByName(zones, name) ==
    LET Named(z) == z.name = name IN SelectLastInSeq(zones, Named)

findZoneByNetwork(zones, n) ==
    LET Covering(z) == Covers(z, n) IN SelectLastInSeq(zones, Covering)

createZone(zones, name) == Append(zones, [name |-> name, nets |-> <<>>])

\* The names pass through an object and come out sorted, new or not.
addNetwork(zone, n) ==
    [zone EXCEPT !.nets = SelectSeq(Alphabet, LAMBDA m : m \in ToSet(zone.nets) \cup {n})]

\* A zone that covers the network drops the last one it covers.
delNetworkOf(zone, n) ==
    IF Covers(zone, n) THEN [zone EXCEPT !.nets = Front(@)] ELSE zone

delNetwork(zones, n) == [k \in DOMAIN zones |-> delNetworkOf(zones[k], n)]
-----------------------------------------------------------------------------
\* The zone the form of an interface shows as chosen.
Shown(n) ==
    LET k == findZoneByNetwork(zoneObjects, n)
    IN  IF k = 0 THEN Unspecified ELSE zoneObjects[k].name

\* The form of an interface is shown and saved with its zone, changed or not.
SaveInterface(n, choice) ==
    /\ n \in interfaces
    /\ loaded' = TRUE
    /\ chosen' = [chosen EXCEPT ![n] = choice]
    /\ LET known   == findZoneByName(zoneObjects, choice) # 0
           zones   == IF known \/ choice = Unspecified THEN zoneObjects
                      ELSE createZone(zoneObjects, choice)
           z       == findZoneByName(zones, choice)
           without == delNetwork(zones, n)
       IN  /\ Len(zones) <= MaxZones
           /\ zoneObjects' = IF choice = Unspecified THEN without
                             ELSE [without EXCEPT ![z] = addNetwork(@, n)]
    /\ UNCHANGED interfaces

\* An interface is removed, from the zones too if they were read before.
RemoveInterface(n) ==
    /\ n \in interfaces
    /\ interfaces' = interfaces \ {n}
    /\ zoneObjects' = IF loaded THEN delNetwork(zoneObjects, n) ELSE zoneObjects
    /\ chosen' = [chosen EXCEPT ![n] = None]
    /\ UNCHANGED loaded

Next ==
    \/ \E n \in Networks, choice \in ZoneNames \cup {Unspecified} : SaveInterface(n, choice)
    \/ \E n \in Networks : RemoveInterface(n)

Spec == Init /\ [][Next]_vars
-----------------------------------------------------------------------------
(* The form says of the choice of no zone that it removes the interface    *)
(* from the zone it was in, and of a zone that it assigns the interface to *)
(* it: what the form shows next is what it was saved with.                 *)
ChoiceIsShown ==
    \A n \in interfaces : chosen[n] # None => Shown(n) = chosen[n]
=============================================================================
