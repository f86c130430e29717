------------------------------- MODULE MCBwMon -------------------------------
(***************************************************************************)
(* BwMon with a ring of three, so that it goes round, and words of four    *)
(* values, so that an increment may not fit and a counter may go back.     *)
(***************************************************************************)
EXTENDS BwMon

CONSTANTS eth0, eth1, rx
=============================================================================
