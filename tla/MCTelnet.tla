------------------------------ MODULE MCTelnet ------------------------------
(* Limits on both sides of the three messages every dialogue starts with, and *)
(* two that Validate replaces by the default of ten.                          *)
EXTENDS TelnetSession

CONSTANTS exit, ls

MCLines == {exit, ls}
MCExitLines == {exit}
MCLimits == {-1, 0, 1, 2, 3, 4, 6}
=============================================================================
