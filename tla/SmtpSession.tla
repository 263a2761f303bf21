---------------------------- MODULE SmtpSession ----------------------------
(***************************************************************************)
(* One SMTP connection: SmtpHandlerInstance.handleConn (handler/smtp.go).  *)
(* The loop reads a line with a deadline of 500 ms; only when that passes  *)
(* without a line does it look at the context.  A line is a command of a   *)
(* small state machine; DATA, STARTTLS and AUTH LOGIN read more from the   *)
(* client before the loop goes on.                                         *)
(*                                                                         *)
(* The client may send any line at any time, so the rest of a line that a  *)
(* read timeout has cut in two is one of the lines it may send.            *)
(***************************************************************************)
EXTENDS Naturals, Sequences, SmtpMessage

CONSTANTS Addrs,     \* sender and recipient addresses
          Users,     \* user names offered to AUTH LOGIN
          Passwords, \* passwords offered to AUTH LOGIN
          Nothing,   \* the empty string, of a field not yet set or sent as such
          NoMessage, \* no message captured yet
          Texts,     \* bound: the kinds of lines a message is made of
          MaxLines,  \* bound: how many lines the client sends
          IdleLimit  \* two minutes in read timeouts of 500 ms (240 in the code)

ASSUME SmtpAssumption ==
  /\ Nothing \in Addrs \cap Users \cap Passwords
  /\ {"words", "nothing", "dot"} \cap Names = {}
  /\ Texts \subseteq BodyLines \cup DotLines
  /\ MaxLines \in Nat
  /\ IdleLimit \in Nat

VARIABLES
  ctxDone,          \* the context has been cancelled
  tlsConfig,        \* Serve could load the certificate
  pc,               \* where handleConn is
  gone,             \* the client has closed or reset the connection
  lines,            \* lines the client can still send
  idle,             \* read timeouts since the last line, up to IdleLimit + 1
  state,            \* the local variable state
  mailFrom,         \* local: sender of the current message
  rcptTo,           \* local: recipients of the current message
  sender,           \* sess.sender
  recipients,       \* sess.recipients
  body,             \* the lines readSmtpData has read, as they were sent
  message,          \* sess.rawData, allHeaders and messageBody
  tlsActive,        \* local: the connection is encrypted
  tlsTested,        \* sess.tlsTested
  tlsUsed,          \* sess.tlsUsed
  authUser,         \* sess.authUser
  authPass,         \* sess.authPass
  disconnectReason, \* sess.disconnectReason
  record            \* disconnect_reason of the logged record, or NoReason

envVars == <<ctxDone, tlsConfig, gone, lines, idle>>
mailVars == <<mailFrom, rcptTo, sender, recipients>>
textVars == <<body, message>>
tlsVars == <<tlsActive, tlsTested, tlsUsed>>
authVars == <<authUser, authPass>>
sessVars == <<mailVars, textVars, tlsVars, authVars>>
vars == <<envVars, pc, state, sessVars, disconnectReason, record>>

States == {"INIT", "HELO_RECEIVED", "MAIL_RECEIVED", "RCPT_RECEIVED"}
Pcs == {"read", "data", "handshake", "user", "password", "log", "close", "closed"}

\* The reasons that end a session, and those that a session can survive.
FinalReasons == {"context_cancelled", "client_disconnect", "read_error", "quit_command",
                 "data_read_error", "tls_unsupported_client_versions",
                 "tls_handshake_error", "auth_username_timeout", "auth_password_timeout"}
Reasons == FinalReasons \cup {"auth_read_error"}
NoReason == "none" \* the empty string of an unset disconnectReason

TypeOK ==
  /\ ctxDone \in BOOLEAN
  /\ tlsConfig \in BOOLEAN
  /\ gone \in BOOLEAN
  /\ lines \in 0 .. MaxLines
  /\ idle \in 0 .. IdleLimit + 1
  /\ pc \in Pcs
  /\ state \in States
  /\ mailFrom \in Addrs
  /\ rcptTo \in Seq(Addrs)
  /\ sender \in Addrs
  /\ recipients \in Seq(Addrs)
  /\ body \in Seq(BodyLines)
  /\ tlsActive \in BOOLEAN
  /\ tlsTested \in BOOLEAN
  /\ tlsUsed \in BOOLEAN
  /\ authUser \in Users
  /\ authPass \in Passwords
  /\ disconnectReason \in Reasons \cup {NoReason}
  /\ record \in Reasons \cup {NoReason}

\* The banner has been written.
Init ==
  /\ ctxDone = FALSE
  /\ tlsConfig \in BOOLEAN
  /\ gone = FALSE
  /\ lines = MaxLines
  /\ idle = 0
  /\ pc = "read"
  /\ state = "INIT"
  /\ mailFrom = Nothing
  /\ rcptTo = <<>>
  /\ sender = Nothing
  /\ recipients = <<>>
  /\ body = <<>>
  /\ message = NoMessage
  /\ tlsActive = FALSE
  /\ tlsTested = FALSE
  /\ tlsUsed = FALSE
  /\ authUser = Nothing
  /\ authPass = Nothing
  /\ disconnectReason = NoReason
  /\ record = NoReason

-----------------------------------------------------------------------------
(* The environment.                                                        *)

Cancel ==
  /\ ~ctxDone
  /\ ctxDone' = TRUE
  /\ UNCHANGED <<tlsConfig, gone, lines, idle, pc, state, sessVars,
                 disconnectReason, record>>

ClientLeaves ==
  /\ ~gone
  /\ gone' = TRUE
  /\ UNCHANGED <<ctxDone, tlsConfig, lines, idle, pc, state, sessVars,
                 disconnectReason, record>>

\* ReadBytes returns a line: one the client sent, perhaps before it left.
TakeLine ==
  /\ lines > 0
  /\ lines' = lines - 1
  /\ idle' = 0
  /\ UNCHANGED <<ctxDone, tlsConfig, gone>>

\* handleConn returns.
Return(reason) ==
  /\ pc' = "log"
  /\ disconnectReason' = reason

-----------------------------------------------------------------------------
(* The head of the loop: reading a command line.                           *)

\* Variant with a bug: a read timeout does not look at the context.
ReadTimeoutBlind ==
  /\ pc = "read"
  /\ ~gone
  /\ idle' = IF idle > IdleLimit THEN idle ELSE idle + 1
  /\ UNCHANGED <<ctxDone, tlsConfig, gone, lines, pc, state, sessVars,
                 disconnectReason, record>>

\* 500 ms without a whole line.  What has arrived of the next line is dropped.
ReadTimeout ==
  /\ pc = "read"
  /\ ~gone
  /\ idle' = IF idle > IdleLimit THEN idle ELSE idle + 1
  /\ IF ctxDone
     THEN Return("context_cancelled")
     ELSE UNCHANGED <<pc, disconnectReason>>
  /\ UNCHANGED <<ctxDone, tlsConfig, gone, lines, state, sessVars, record>>

\* Variant with a bug: the end of the stream is taken for a timeout.
ReadFailsOpenOnly ==
  /\ pc = "read"
  /\ ~gone
  /\ Return("read_error")
  /\ UNCHANGED <<envVars, state, sessVars, record>>

\* Any other error leaves the loop.
ReadFails ==
  /\ pc = "read"
  /\ \/ gone /\ Return("client_disconnect")
     \/ Return("read_error")
  /\ UNCHANGED <<envVars, state, sessVars, record>>

Command == pc = "read" /\ TakeLine

-----------------------------------------------------------------------------
(* The commands.                                                           *)

\* EHLO and HELO: the current message, if any, is kept.
Greet ==
  /\ Command
  /\ state' = "HELO_RECEIVED"
  /\ UNCHANGED <<pc, sessVars, disconnectReason, record>>

\* VRFY, EXPN, NOOP, HELP, what is not recognised, and the refusals of MAIL,
\* RCPT, DATA, AUTH and RSET (wrong state or syntax): only an answer.
Answer ==
  /\ Command
  /\ UNCHANGED <<pc, state, sessVars, disconnectReason, record>>

\* MAIL FROM: a second MAIL replaces the sender and keeps the recipients.  The
\* address may be empty, that of RCPT TO, the user name and the password, too.
Mail(addr) ==
  /\ Command
  /\ state # "INIT"
  /\ mailFrom' = addr
  /\ sender' = addr
  /\ state' = "MAIL_RECEIVED"
  /\ UNCHANGED <<pc, rcptTo, recipients, textVars, tlsVars, authVars, disconnectReason, record>>

Rcpt(addr) ==
  /\ Command
  /\ state \in {"MAIL_RECEIVED", "RCPT_RECEIVED"}
  /\ rcptTo' = Append(rcptTo, addr)
  /\ recipients' = Append(recipients, addr)
  /\ state' = "RCPT_RECEIVED"
  /\ UNCHANGED <<pc, mailFrom, sender, textVars, tlsVars, authVars, disconnectReason, record>>

Data ==
  /\ Command
  /\ state = "RCPT_RECEIVED"
  /\ pc' = "data"
  /\ UNCHANGED <<state, sessVars, disconnectReason, record>>

BodyLine(line) ==
  /\ pc = "data"
  /\ TakeLine
  /\ line \notin DotLines
  /\ body' = Append(body, line)
  /\ UNCHANGED <<pc, state, mailVars, message, tlsVars, authVars, disconnectReason, record>>

\* readSmtpData has met a line with a single dot.
BodyRead(line) ==
  /\ pc = "data"
  /\ TakeLine
  /\ line \in DotLines
  /\ message' = Captured(body)
  /\ body' = <<>>
  /\ mailFrom' = Nothing
  /\ rcptTo' = <<>>
  /\ state' = "HELO_RECEIVED"
  /\ pc' = "read"
  /\ UNCHANGED <<sender, recipients, tlsVars, authVars, disconnectReason, record>>

\* The client has left, or the two minutes since the DATA line are over.
BodyFails ==
  /\ pc = "data"
  /\ Return("data_read_error")
  /\ UNCHANGED <<envVars, state, sessVars, record>>

StartTls ==
  /\ Command
  /\ tlsTested' = TRUE
  /\ pc' = IF tlsActive \/ ~tlsConfig THEN "read" ELSE "handshake"
  /\ UNCHANGED <<state, mailVars, textVars, tlsActive, tlsUsed, authVars, disconnectReason, record>>

\* The client has to greet again; the current message is kept.
HandshakeDone ==
  /\ pc = "handshake"
  /\ ~gone
  /\ tlsActive' = TRUE
  /\ tlsUsed' = TRUE
  /\ state' = "INIT"
  /\ pc' = "read"
  /\ UNCHANGED <<envVars, mailVars, textVars, tlsTested, authVars, disconnectReason, record>>

\* Variant with a bug: a kind of failure sets no reason.
HandshakeFailsSilently ==
  /\ pc = "handshake"
  /\ Return("tls_handshake_error") \/ Return(NoReason)
  /\ UNCHANGED <<envVars, state, sessVars, record>>

HandshakeFails ==
  /\ pc = "handshake"
  /\ \/ Return("tls_unsupported_client_versions")
     \/ Return("tls_handshake_error")
  /\ UNCHANGED <<envVars, state, sessVars, record>>

\* Variant with a bug: AUTH before EHLO.
AuthLoginUngreeted ==
  /\ Command
  /\ pc' = "user"
  /\ UNCHANGED <<state, sessVars, disconnectReason, record>>

AuthLogin ==
  /\ Command
  /\ state # "INIT"
  /\ pc' = "user"
  /\ UNCHANGED <<state, sessVars, disconnectReason, record>>

AuthUser(user) ==
  /\ pc = "user"
  /\ TakeLine
  /\ authUser' = user
  /\ pc' = "password"
  /\ UNCHANGED <<state, mailVars, textVars, tlsVars, authPass, disconnectReason, record>>

AuthPass(pass) ==
  /\ pc = "password"
  /\ TakeLine
  /\ authPass' = pass
  /\ pc' = "read"
  /\ UNCHANGED <<state, mailVars, textVars, tlsVars, authUser, disconnectReason, record>>

\* A line that is not base64 ends the exchange.
AuthGarbled ==
  /\ pc \in {"user", "password"}
  /\ TakeLine
  /\ pc' = "read"
  /\ UNCHANGED <<state, sessVars, disconnectReason, record>>

\* Two minutes without a line: the session ends if the context is cancelled,
\* and otherwise goes on with the reason set.
AuthTimeout ==
  /\ pc \in {"user", "password"}
  /\ ~gone
  /\ disconnectReason' = IF pc = "user" THEN "auth_username_timeout"
                                        ELSE "auth_password_timeout"
  /\ pc' = IF ctxDone THEN "log" ELSE "read"
  /\ UNCHANGED <<envVars, state, sessVars, record>>

\* Variant with a bug: the error of the exchange ends the session.
AuthReadFailsReturn ==
  /\ pc \in {"user", "password"}
  /\ Return("auth_read_error")
  /\ UNCHANGED <<envVars, state, sessVars, record>>

\* Any other error leaves the exchange, not the loop, whose next read fails too.
AuthReadFails ==
  /\ pc \in {"user", "password"}
  /\ disconnectReason' = "auth_read_error"
  /\ gone' = TRUE
  /\ lines' = 0
  /\ pc' = "read"
  /\ UNCHANGED <<ctxDone, tlsConfig, idle, state, sessVars, record>>

\* Variant with a bug: the message is cleared, the state is not.
RsetKeepsState ==
  /\ Command
  /\ state # "INIT"
  /\ mailFrom' = Nothing
  /\ rcptTo' = <<>>
  /\ UNCHANGED <<pc, state, sender, recipients, textVars, tlsVars, authVars, disconnectReason, record>>

Rset ==
  /\ Command
  /\ state # "INIT"
  /\ mailFrom' = Nothing
  /\ rcptTo' = <<>>
  /\ state' = "HELO_RECEIVED"
  /\ UNCHANGED <<pc, sender, recipients, textVars, tlsVars, authVars, disconnectReason, record>>

\* QUIT closes the connection before the record is logged.
Quit ==
  /\ Command
  /\ Return("quit_command")
  /\ UNCHANGED <<state, sessVars, record>>

-----------------------------------------------------------------------------
(* The deferred functions.                                                 *)

LogRecord ==
  /\ pc = "log"
  /\ record' = disconnectReason
  /\ pc' = "close"
  /\ UNCHANGED <<envVars, state, sessVars, disconnectReason>>

CloseConn ==
  /\ pc = "close"
  /\ pc' = "closed"
  /\ UNCHANGED <<envVars, state, sessVars, disconnectReason, record>>

-----------------------------------------------------------------------------
MailCommand ==
  \/ \E addr \in Addrs : Mail(addr) \/ Rcpt(addr)
  \/ Data
  \/ \E line \in Texts : BodyLine(line) \/ BodyRead(line)
  \/ Rset

AuthExchange ==
  \/ AuthLogin
  \/ \E user \in Users : AuthUser(user)
  \/ \E pass \in Passwords : AuthPass(pass)
  \/ AuthGarbled

\* What the client's lines bring about.
Line == Greet \/ Answer \/ MailCommand \/ StartTls \/ AuthExchange \/ Quit

\* What handleConn does when no line comes.
NoLine == ReadTimeout \/ ReadFails \/ BodyFails \/ HandshakeFails
          \/ AuthTimeout \/ AuthReadFails

Next == Line \/ HandshakeDone \/ NoLine \/ LogRecord \/ CloseConn \/ Cancel \/ ClientLeaves

Spec == Init /\ [][Next]_vars

\* Every read has a deadline, and fails once the client has left; the deferred
\* functions run.  The client, the operator and other errors are not fair.
Fairness ==
  /\ WF_vars(ReadTimeout)
  /\ WF_vars(gone /\ ReadFails)
  /\ WF_vars(BodyFails)
  /\ WF_vars(HandshakeDone \/ HandshakeFails)
  /\ WF_vars(AuthTimeout)
  /\ WF_vars(gone /\ AuthReadFails)
  /\ WF_vars(LogRecord \/ CloseConn)

FairSpec == Spec /\ Fairness

-----------------------------------------------------------------------------
(* Properties.                                                             *)

IsSuffixOf(s, t) == \E i \in 0 .. Len(t) : s = SubSeq(t, i + 1, Len(t))

\* The log knows the message that DATA would accept: its recipients are the
\* last ones logged, its sender, which may be empty, is the logged sender, and it
\* has at least one recipient.  EHLO, STARTTLS and a second MAIL in the middle of
\* a message, which keep its recipients, do not break this.
EnvelopeIsLogged ==
  /\ IsSuffixOf(rcptTo, recipients)
  /\ state \in {"MAIL_RECEIVED", "RCPT_RECEIVED"} => mailFrom = sender
  /\ state = "RCPT_RECEIVED" => rcptTo # <<>>

\* What is captured of a message: the lines after the first blank one, as its
\* text, and from before it the names of the lines with a colon, each with the
\* last line of that name.  No field ever has a continuation, although the code
\* merges them ("Merge folded headers"): the lines have been trimmed before, so
\* that a continuation is dropped or, with a colon of its own, taken for a field.
MessageIsCaptured ==
  message # NoMessage =>
    LET sent == message.sent
        Empty(i) == sent[i].holds = "nothing"
    IN \E n \in 1 .. Len(sent) + 1 :
         /\ \A i \in 1 .. n - 1 : ~Empty(i)
         /\ IF n <= Len(sent)
            THEN /\ Empty(n)
                 /\ Len(message.text) = Len(sent) - n
                 /\ \A i \in DOMAIN message.text : message.text[i].holds = sent[n + i].holds
            ELSE message.text = <<>>
         /\ DOMAIN message.headers = {sent[i].holds : i \in 1 .. n - 1} \cap Names
         /\ \A name \in DOMAIN message.headers :
              \E i \in 1 .. n - 1 :
                /\ DOMAIN message.headers[name] = {i}
                /\ sent[i].holds = name
                /\ \A k \in i + 1 .. n - 1 : sent[k].holds # name

\* No message and no credentials are taken before the client has greeted, at
\* the beginning and again after the upgrade to TLS (smtp.go:399).
GreetingFirst ==
  [][state = "INIT" => UNCHANGED <<mailVars, authVars>>]_vars

\* The record explains the end of the session: a reason that was set in passing
\* never survives to it, a timeout in AUTH ends a session only in a shutdown,
\* and a failed handshake leaves tls_used unset.
RecordExplainsEnd ==
  /\ record # "auth_read_error"
  /\ record \in {"context_cancelled", "auth_username_timeout", "auth_password_timeout"}
       => ctxDone
  /\ record = "client_disconnect" => gone
  /\ record \in {"tls_handshake_error", "tls_unsupported_client_versions"}
       => tlsTested /\ ~tlsUsed

\* A client that sends no more, or has left, does not outlive a shutdown.  One
\* that sends a line every half second does: only the bound on its lines ends it.
ShutdownEndsSession == ctxDone ~> pc = "closed"

\* A client that has left is noticed, whatever command it left in.
LeavingEndsSession == gone ~> pc = "closed"

\* The handler keeps the promise of module Session.
SessionView == INSTANCE Session WITH
  Reasons <- FinalReasons, NoRecord <- NoReason, over <- pc = "closed"

RecordsOnce == SessionView!Spec

\* What the comment "Set 2-minute idle timeout" says (smtp.go:195): a session
\* without a line for two minutes is over.
IdleIsBounded == idle <= IdleLimit

=============================================================================
