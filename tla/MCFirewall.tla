---------------------------- MODULE MCFirewall ----------------------------
(***************************************************************************)
(* Two interfaces, one zone at the start that covers any of them in any    *)
(* order, and a second one that the user may make.                         *)
(***************************************************************************)
EXTENDS Firewall

CONSTANTS lan, guest, inner, outer

TheNames == <<guest, lan>>
=============================================================================
