--------------------------- MODULE TelnetSession ---------------------------
(***************************************************************************)
(* One Telnet connection: TelnetHandlerInstance.handleConn                 *)
(* (handler/telnet.go).  The loop first polls the context and then blocks  *)
(* in scanner.Scan, for at most the two minutes of its read deadline.  The *)
(* first line is the user name, the second the password, every further one *)
(* a shell command, until the client says exit or logout, the message      *)
(* limit is reached, the read fails or the context is cancelled.           *)
(***************************************************************************)
EXTENDS Integers, Sequences

CONSTANTS Lines,     \* what a client can type
          ExitLines, \* "exit" and "logout"
          NoLine,    \* the empty string of an unset capture
          Limits     \* values of message_limit in the configuration

ASSUME TelnetAssumption ==
  /\ ExitLines \subseteq Lines
  /\ NoLine \notin Lines
  /\ Limits \subseteq Int

VARIABLES
  limit,            \* cfg.MessageLimit, after Validate
  ctxDone,          \* the context has been cancelled
  pc,               \* where handleConn is
  state,            \* the local variable state: which prompt is open
  messageCount,     \* sess.messageCount
  messages,         \* sess.messages
  loginUsername,    \* sess.loginUsername
  loginPassword,    \* sess.loginPassword
  disconnectReason, \* sess.disconnectReason
  record,           \* disconnect_reason of the logged record, or NoReason
  late              \* auxiliary: lines taken since the context was cancelled

sessVars == <<messageCount, messages, loginUsername, loginPassword>>
vars == <<limit, ctxDone, pc, state, sessVars, disconnectReason, record, late>>

States == {"await_username", "await_password", "await_cmd"}
Pcs == {"poll", "scan", "check", "log", "close", "closed"}
Reasons == {"context_cancelled", "exit_command", "message_limit_reached",
            "idle_timeout", "read_error", "client_disconnect"}
NoReason == "none" \* the empty string of an unset disconnectReason

TypeOK ==
  /\ limit \in Nat \ {0}
  /\ ctxDone \in BOOLEAN
  /\ pc \in Pcs
  /\ state \in States
  /\ messageCount \in Nat
  /\ messages \in Seq(Lines)
  /\ loginUsername \in Lines \cup {NoLine}
  /\ loginPassword \in Lines \cup {NoLine}
  /\ disconnectReason \in Reasons \cup {NoReason}
  /\ record \in Reasons \cup {NoReason}
  /\ late \in Nat

DefaultLimit == 10

\* Variant with a bug: a limit of zero, or a missing one, is left alone.
ValidateNegative(configured) == IF configured < 0 THEN DefaultLimit ELSE configured

\* Validate: a limit that is missing, zero or negative becomes the default.
Validate(configured) == IF configured <= 0 THEN DefaultLimit ELSE configured

\* The banner and the login prompt have been written.
Init ==
  /\ \E configured \in Limits : limit = Validate(configured)
  /\ ctxDone = FALSE
  /\ pc = "poll"
  /\ state = "await_username"
  /\ messageCount = 0
  /\ messages = <<>>
  /\ loginUsername = NoLine
  /\ loginPassword = NoLine
  /\ disconnectReason = NoReason
  /\ record = NoReason
  /\ late = 0

-----------------------------------------------------------------------------
\* handleConn returns: its deferred functions log the record and then close
\* the connection.
Return(reason) ==
  /\ pc' = "log"
  /\ disconnectReason' = reason

\* Variant with a bug: the context is not polled.
PollBlind ==
  /\ pc = "poll"
  /\ pc' = "scan"
  /\ UNCHANGED <<limit, ctxDone, state, sessVars, disconnectReason, record, late>>

\* select on ctx.Done() with a default case.
Poll ==
  /\ pc = "poll"
  /\ IF ctxDone
     THEN Return("context_cancelled")
     ELSE pc' = "scan" /\ UNCHANGED disconnectReason
  /\ UNCHANGED <<limit, ctxDone, state, sessVars, record, late>>

\* A line counts as a message and is kept, whatever it is taken for.
Keep(line) ==
  /\ messageCount' = messageCount + 1
  /\ messages' = Append(messages, line)
  /\ late' = IF ctxDone THEN late + 1 ELSE late

\* The user name and password cases go back to the loop with continue, past
\* the check of the message limit.
ScanUsername(line) ==
  /\ pc = "scan"
  /\ state = "await_username"
  /\ Keep(line)
  /\ loginUsername' = line
  /\ state' = "await_password"
  /\ pc' = "poll"
  /\ UNCHANGED <<limit, ctxDone, loginPassword, disconnectReason, record>>

\* Variant with a bug: the prompt stays the one for the password.
ScanPasswordAgain(line) ==
  /\ pc = "scan"
  /\ state = "await_password"
  /\ Keep(line)
  /\ loginPassword' = line
  /\ pc' = "poll"
  /\ UNCHANGED <<limit, ctxDone, state, loginUsername, disconnectReason, record>>

ScanPassword(line) ==
  /\ pc = "scan"
  /\ state = "await_password"
  /\ Keep(line)
  /\ loginPassword' = line
  /\ state' = "await_cmd"
  /\ pc' = "poll"
  /\ UNCHANGED <<limit, ctxDone, loginUsername, disconnectReason, record>>

ScanCommand(line) ==
  /\ pc = "scan"
  /\ state = "await_cmd"
  /\ Keep(line)
  /\ IF line \in ExitLines
     THEN Return("exit_command")
     ELSE pc' = "check" /\ UNCHANGED disconnectReason
  /\ UNCHANGED <<limit, ctxDone, state, loginUsername, loginPassword, record>>

\* Variant with a bug: one message too many.
LimitExceeded == messageCount > limit

LimitReached == messageCount >= limit

CheckLimit ==
  /\ pc = "check"
  /\ IF LimitReached
     THEN Return("message_limit_reached")
     ELSE pc' = "poll" /\ UNCHANGED disconnectReason
  /\ UNCHANGED <<limit, ctxDone, state, sessVars, record, late>>

\* Variant with a bug: a timed-out Scan is tried again, as the SMTP handler does.
ScanFailsRetried ==
  /\ pc = "scan"
  /\ \/ \E reason \in {"read_error", "client_disconnect"} : Return(reason)
     \/ pc' = "poll" /\ UNCHANGED disconnectReason
  /\ UNCHANGED <<limit, ctxDone, state, sessVars, record, late>>

\* Variant with a bug: the read error leaves no reason behind.
ScanFailsSilently ==
  /\ pc = "scan"
  /\ \E reason \in {"idle_timeout", "client_disconnect", NoReason} : Return(reason)
  /\ UNCHANGED <<limit, ctxDone, state, sessVars, record, late>>

\* Scan returns false: end of file, a reset or an overlong line, or the read
\* deadline, which is set anew before each Scan.
ScanFails ==
  /\ pc = "scan"
  /\ \E reason \in {"idle_timeout", "read_error", "client_disconnect"} :
       Return(reason)
  /\ UNCHANGED <<limit, ctxDone, state, sessVars, record, late>>

\* The deferred logging of the session.
LogRecord ==
  /\ pc = "log"
  /\ record' = disconnectReason
  /\ pc' = "close"
  /\ UNCHANGED <<limit, ctxDone, state, sessVars, disconnectReason, late>>

\* The deferred nConn.Close().
CloseConn ==
  /\ pc = "close"
  /\ pc' = "closed"
  /\ UNCHANGED <<limit, ctxDone, state, sessVars, disconnectReason, record, late>>

\* main cancels the context, at any time.
Cancel ==
  /\ ~ctxDone
  /\ ctxDone' = TRUE
  /\ UNCHANGED <<limit, pc, state, sessVars, disconnectReason, record, late>>

ScanLine ==
  \E line \in Lines : ScanUsername(line) \/ ScanPassword(line) \/ ScanCommand(line)

HandleConn ==
  Poll \/ ScanLine \/ CheckLimit \/ ScanFails \/ LogRecord \/ CloseConn

Next == HandleConn \/ Cancel

Spec == Init /\ [][Next]_vars

\* The goroutine runs when it can, and a Scan returns: the read deadline, two
\* minutes from its start, covers all the reads it makes.
FairSpec == Spec /\ WF_vars(HandleConn)

-----------------------------------------------------------------------------
(* Properties.                                                             *)

\* The record tells the dialogue as it was: the count is that of the kept
\* messages, the credentials are the first two lines, the open prompt follows
\* from how many lines were taken, and an exit command is the last message of
\* a session that says so.
CaptureMatchesDialogue ==
  /\ messageCount = Len(messages)
  /\ loginUsername = IF messageCount = 0 THEN NoLine ELSE messages[1]
  /\ loginPassword = IF messageCount < 2 THEN NoLine ELSE messages[2]
  /\ state = "await_username" <=> messageCount = 0
  /\ state = "await_password" <=> messageCount = 1
  /\ \A i \in 3 .. messageCount :
       messages[i] \in ExitLines <=>
         i = messageCount /\ disconnectReason = "exit_command"

\* What the message limit really bounds: user name, password and one command
\* are always taken, and from the third message on the session ends as soon as
\* the limit is reached, by that reason or by an exit command.
LimitBoundsSession ==
  /\ messageCount <= (IF limit < 3 THEN 3 ELSE limit)
  /\ messageCount >= 3 /\ messageCount >= limit =>
       pc = "check" \/ disconnectReason # NoReason
  /\ disconnectReason = "message_limit_reached" =>
       messageCount = (IF limit < 3 THEN 3 ELSE limit)

\* After the context is cancelled at most one more line is taken: the one the
\* goroutine was already waiting for.
AtMostOneLateLine == late <= 1

\* Whatever the client does, and without any shutdown, the session ends: an
\* idle client meets the read deadline, a busy one the message limit.
SessionEnds == <>(pc = "closed")

\* The handler keeps the promise of module Session.
SessionView == INSTANCE Session WITH
  NoRecord <- NoReason, over <- pc = "closed"

RecordsOnce == SessionView!Spec

\* What the comment on handleConn says of it, "disconnects after message limit"
\* (telnet.go:126): no more messages are taken than the limit.
DisconnectsAtLimit == messageCount <= limit

=============================================================================
