------------------------------- MODULE MCPage -------------------------------
(***************************************************************************)
(* The page of the interfaces and that of the switch, with two interfaces, *)
(* one of them at the start.                                               *)
(***************************************************************************)
EXTENDS Page

CONSTANTS Other, lan, guest
=============================================================================
