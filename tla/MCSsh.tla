------------------------------- MODULE MCSsh -------------------------------
(* Two channels, so that their goroutines race, with room for one request.   *)
EXTENDS SshSession

MCLimits == {2}
=============================================================================
