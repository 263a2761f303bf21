------------------------------ MODULE Session ------------------------------
(***************************************************************************)
(* What every protocol handler promises about one client session, whatever *)
(* its dialogue: the goroutine that serves the client logs exactly one     *)
(* session-end record, which states why the session ended, and only then   *)
(* is the session over.                                                    *)
(***************************************************************************)
CONSTANTS Reasons,  \* the disconnect reasons this protocol can log
          NoRecord  \* nothing logged yet

VARIABLES record,   \* the disconnect reason in the logged record
          over      \* the session's goroutine has ended

vars == <<record, over>>

Init == record = NoRecord /\ over = FALSE

LogEnd(r) ==
  /\ record = NoRecord
  /\ record' = r
  /\ UNCHANGED over

Finish ==
  /\ record # NoRecord
  /\ ~over
  /\ over' = TRUE
  /\ UNCHANGED record

Next == Finish \/ \E r \in Reasons : LogEnd(r)

Spec == Init /\ [][Next]_vars
=============================================================================
