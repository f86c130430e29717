----------------------------- MODULE MCUciState -----------------------------
(***************************************************************************)
(* UciState on small packages.  MCUciOverlay.cfg looks at the options: two *)
(* sections the router may hold, one of them missing at times, and one     *)
(* anonymous name.  MCUciOrder.cfg looks at the order: up to three loaded  *)
(* sections of two types and two created ones, without options.            *)
(***************************************************************************)
EXTENDS UciState, Sequences

CONSTANTS sa, sb, sd, new1, new2, t1, t2, o1, o2, v1, v2

\* A package as the router sends it: the index is the place in the file.
Stored(names, kind(_), held) ==
    [s \in Sids |->
        IF \E i \in 1 .. Len(names) : names[i] = s
        THEN LET i == CHOOSE i \in 1 .. Len(names) : names[i] = s
             IN  [type |-> kind(s), index |-> i - 1, birth |-> i - 1, opts |-> held]
        ELSE NoSection]

OneType(s) == t1
Mixed(s)   == IF s = sa THEN t1 ELSE t2

OverlaySnapshots ==
    { EmptyPackage, Stored(<<sa>>, OneType, [o \in Options |-> IF o = o1 THEN v1 ELSE None]) }

OrderSnapshots ==
    { Stored(<<sa, sb, sd>>, Mixed, Blank),
      Stored(<<sb, sa>>, Mixed, Blank) }
=============================================================================
