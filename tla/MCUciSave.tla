------------------------------ MODULE MCUciSave ------------------------------
(***************************************************************************)
(* UciSave on a small router.  MCUciSaveEdits.cfg saves options of a       *)
(* section the router holds, of one with a name and of an anonymous one;   *)
(* MCUciSaveOrder.cfg saves the order of sections without options;         *)
(* MCUciSaveTwo.cfg saves two packages together, with a batch lost.        *)
(***************************************************************************)
EXTENDS UciSave

CONSTANTS sa, sb, sd, new1, new2, cfg1, cfg2, t1, o1, o2, v1, v2

Stored(name, held) == [name |-> name, type |-> t1, opts |-> held]
Bare(name) == Stored(name, Blank)

\* One option is stored with a value, the other with ''.
EditFiles  == { <<Stored(sa, [o \in Options |-> IF o = o1 THEN v1 ELSE EmptyString])>> }
OrderFiles == { <<Bare(sa), Bare(sb)>> }
=============================================================================
