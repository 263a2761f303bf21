------------------------------ MODULE MCServe ------------------------------
(* Two handlers, one of each kind, and three clients that may dial either. *)
EXTENDS Serve

CONSTANTS ssh, smtp, c1, c2, c3

MCHandlers == {ssh, smtp}
MCAcceptAwaiters == {ssh}
MCConns == {c1, c2, c3}
=============================================================================
