------------------------------ MODULE MCThorny ------------------------------
(* Two ports, one handler of each kind, and two clients that may dial either: *)
(* enough for one handler to stick (it takes ChanCap + 1 connections) while   *)
(* the other returns.                                                         *)
EXTENDS Thorny

CONSTANTS ldap, smtp, c1, c2

MCHandlers == {ldap, smtp}
MCAcceptAwaiters == {ldap}
MCFallible == {ldap}
MCConns == {c1, c2}
=============================================================================
