---------------------------- MODULE LdapSession ----------------------------
(***************************************************************************)
(* One LDAP connection: LdapHandlerInstance.handleConn and the dispatch of *)
(* its packets (handler/ldap.go).  The loop polls the context, arms the    *)
(* two-minute read deadline, reads one packet and handles it.  A packet is *)
(* what its handling tells apart: a simple bind is the pair of DN and      *)
(* password it carries, every other one a kind.                            *)
(*                                                                         *)
(* No write has a deadline: one that waits for a client that does not read *)
(* goes on when the client reads, or fails when the client's end is gone.  *)
(***************************************************************************)
EXTENDS Naturals, Sequences, FiniteSets

CONSTANTS Logins,     \* pairs of DN and password that simple binds carry
          NoLogin,    \* the empty loginDN and password
          MaxPackets  \* bound: how many packets of the client are told apart

\* "noise" has fewer than two children; "other" and "extended" are only
\* answered; "bind" is a bind that is too short or not simple.  The "untyped"
\* kinds hold a child whose value has not the type that is asserted of it: the
\* message id, an argument of a bind, an argument of a search.
BindKinds == {"bind", "untyped_bind"}
SearchKinds == {"search", "untyped_search"}
UntypedKinds == {"untyped", "untyped_bind", "untyped_search"}
Kinds == {"noise", "other", "extended", "starttls", "unbind"}
           \cup BindKinds \cup SearchKinds \cup UntypedKinds
Packets == Kinds \cup Logins

ASSUME LdapAssumption ==
  /\ Logins \cap Kinds = {}
  /\ NoLogin \notin Packets
  /\ MaxPackets \in Nat

VARIABLES
  ctxDone,          \* the context has been cancelled
  silent,           \* nothing more comes from the client
  gone,             \* the client's end of the connection is closed or reset
  tlsConfig,        \* Serve could load the certificate; otherwise it is nil
  pc,               \* where handleConn is
  tlsUsed,          \* sess.tlsUsed
  tlsActive,        \* sess.tlsActive; tlsVersion and the like are set with it
  login,            \* sess.loginDN and sess.password; with them authAttempted
  bindAttempts,     \* sess.bindAttempts
  searchAttempted,  \* sess.searchAttempted
  numMessages,      \* sess.numMessages
  disconnectReason, \* sess.disconnectReason
  record,           \* disconnect_reason of the logged record, or NoRecord
  dialogue          \* auxiliary: the packets taken, in order

envVars == <<ctxDone, silent, gone, tlsConfig>>
tlsVars == <<tlsUsed, tlsActive>>
bindVars == <<login, bindAttempts>>
sessVars == <<tlsVars, bindVars, searchAttempted, numMessages, dialogue>>
vars == <<envVars, pc, sessVars, disconnectReason, record>>

\* Where handleConn writes: an answer, that to StartTLS, and the two flights of
\* the server in a handshake.
Writing == {"reply", "agree", "flight", "finished"}
Pcs == {"poll", "read", "handshake", "finish", "log", "close", "closed"} \cup Writing
Reasons == {"context_cancelled", "idle_timeout", "client_disconnect", "unbind_requested"}
NoReason == "empty"  \* the empty string of an unset disconnectReason
NoRecord == "none"

TypeOK ==
  /\ ctxDone \in BOOLEAN
  /\ silent \in BOOLEAN
  /\ gone \in BOOLEAN
  /\ tlsConfig \in BOOLEAN
  /\ pc \in Pcs
  /\ tlsUsed \in BOOLEAN
  /\ tlsActive \in BOOLEAN
  /\ login \in Logins \cup {NoLogin}
  /\ bindAttempts \in Nat
  /\ searchAttempted \in BOOLEAN
  /\ numMessages \in Nat \ {0}
  /\ disconnectReason \in Reasons \cup {NoReason}
  /\ record \in Reasons \cup {NoReason, NoRecord}
  /\ dialogue \in Seq(Packets)

\* NewLdapSession starts to count the messages at one.
Init ==
  /\ ctxDone = FALSE
  /\ silent = FALSE
  /\ gone = FALSE
  /\ tlsConfig \in BOOLEAN
  /\ pc = "poll"
  /\ tlsUsed = FALSE
  /\ tlsActive = FALSE
  /\ login = NoLogin
  /\ bindAttempts = 0
  /\ searchAttempted = FALSE
  /\ numMessages = 1
  /\ disconnectReason = NoReason
  /\ record = NoRecord
  /\ dialogue = <<>>

-----------------------------------------------------------------------------
\* handleConn returns: its deferred function logs the record and closes the
\* connection.
Return(reason) ==
  /\ pc' = "log"
  /\ disconnectReason' = reason

Cancel ==
  /\ ~ctxDone
  /\ ctxDone' = TRUE
  /\ UNCHANGED <<silent, gone, tlsConfig, pc, sessVars, disconnectReason, record>>

FallSilent ==
  /\ ~silent
  /\ silent' = TRUE
  /\ UNCHANGED <<ctxDone, gone, tlsConfig, pc, sessVars, disconnectReason, record>>

\* What the client sent before may still be read.
ClientLeaves ==
  /\ ~gone
  /\ gone' = TRUE
  /\ UNCHANGED <<ctxDone, silent, tlsConfig, pc, sessVars, disconnectReason, record>>

\* Variant with a bug: the context is not polled.
PollBlind ==
  /\ pc = "poll"
  /\ pc' = "read"
  /\ UNCHANGED <<envVars, sessVars, disconnectReason, record>>

\* select on ctx.Done() with a default case, then the read deadline.
Poll ==
  /\ pc = "poll"
  /\ IF ctxDone
     THEN Return("context_cancelled")
     ELSE pc' = "read" /\ UNCHANGED disconnectReason
  /\ UNCHANGED <<envVars, sessVars, record>>

\* Variant with a bug: the idle timeout leaves no reason behind.
ReadTimeoutSilently ==
  /\ pc = "read"
  /\ Return(IF ctxDone THEN "context_cancelled" ELSE NoReason)
  /\ UNCHANGED <<envVars, sessVars, record>>

ReadTimeout ==
  /\ pc = "read"
  /\ Return(IF ctxDone THEN "context_cancelled" ELSE "idle_timeout")
  /\ UNCHANGED <<envVars, sessVars, record>>

\* The client has left, or sent what is no packet.
ReadFails ==
  /\ pc = "read"
  /\ Return("client_disconnect")
  /\ UNCHANGED <<envVars, sessVars, record>>

\* A packet is counted before anything of it is looked at.
Take(packet) ==
  /\ pc = "read"
  /\ ~silent
  /\ Len(dialogue) < MaxPackets
  /\ dialogue' = Append(dialogue, packet)
  /\ numMessages' = numMessages + 1
  /\ UNCHANGED <<envVars, record>>

Resume == pc' = "poll" /\ UNCHANGED disconnectReason
Reply == pc' = "reply" /\ UNCHANGED disconnectReason

\* The answer is written; an error of it is not looked at.
Replied ==
  /\ pc = "reply"
  /\ Resume
  /\ UNCHANGED <<envVars, sessVars, record>>

\* Variant with a bug: the record is logged at the end of handleConn, not deferred.
PanicUnlogged == pc' = "closed" /\ UNCHANGED disconnectReason

\* A panic unwinds handleConn through its deferred function and then ends the
\* process: the record is logged with the reason as it is, that is without one.
Panic == pc' = "log" /\ UNCHANGED disconnectReason

Answer ==
  /\ \/ Take("noise") /\ Resume
     \/ (Take("other") \/ Take("extended")) /\ Reply
  /\ UNCHANGED <<tlsVars, bindVars, searchAttempted>>

\* Past the bound a client goes on with packets that are only answered; they
\* are no longer counted.
Chatter ==
  /\ pc = "read"
  /\ ~silent
  /\ Len(dialogue) = MaxPackets
  /\ Reply
  /\ UNCHANGED <<envVars, sessVars, record>>

\* The assertion on the message id, before the dispatch.
Untyped ==
  /\ Take("untyped")
  /\ Panic
  /\ UNCHANGED <<tlsVars, bindVars, searchAttempted>>

Unbind ==
  /\ Take("unbind")
  /\ Return("unbind_requested")
  /\ UNCHANGED <<tlsVars, bindVars, searchAttempted>>

\* Every bind counts; one that is too short is refused, one that is not simple
\* is accepted, and both leave the captured credentials alone.
Bind ==
  /\ bindAttempts' = bindAttempts + 1
  /\ \/ Take("bind") /\ Reply
     \/ Take("untyped_bind") /\ Panic
  /\ UNCHANGED <<tlsVars, login, searchAttempted>>

\* Variant with a bug: only the first credentials are kept.
BindSimpleFirst(l) ==
  /\ Take(l)
  /\ bindAttempts' = bindAttempts + 1
  /\ login' = IF login = NoLogin THEN l ELSE login
  /\ Reply
  /\ UNCHANGED <<tlsVars, searchAttempted>>

BindSimple(l) ==
  /\ Take(l)
  /\ bindAttempts' = bindAttempts + 1
  /\ login' = l
  /\ Reply
  /\ UNCHANGED <<tlsVars, searchAttempted>>

Search ==
  /\ searchAttempted' = TRUE
  /\ \/ Take("search") /\ Reply
     \/ Take("untyped_search") /\ Panic
  /\ UNCHANGED <<tlsVars, bindVars>>

\* StartTLS is recorded before it is known whether it can be done.
StartTls ==
  /\ Take("starttls")
  /\ tlsUsed' = TRUE
  /\ pc' = IF tlsActive THEN "reply" ELSE "agree"
  /\ UNCHANGED <<tlsActive, bindVars, searchAttempted, disconnectReason>>

\* What the server does up to the end of the handshake: it answers the request,
\* reads the client's hello, writes its flight, reads the client's and writes the
\* last.  A hello that has to be sent again is not told apart.
Handshake ==
  /\ \/ pc = "agree" /\ pc' = "handshake"
     \/ pc = "handshake" /\ ~silent /\ tlsConfig /\ pc' = "flight"
     \/ pc = "flight" /\ pc' = "finish"
     \/ pc = "finish" /\ ~silent /\ pc' = "finished"
  /\ UNCHANGED <<envVars, sessVars, disconnectReason, record>>

\* errStartTLS: the loop goes on over the encrypted connection.
HandshakeDone ==
  /\ pc = "finished"
  /\ tlsActive' = TRUE
  /\ Resume
  /\ UNCHANGED <<envVars, tlsUsed, bindVars, searchAttempted, numMessages, dialogue, record>>

\* The failure, of a read or of a write to a client that has left, is only
\* printed, after an alert perhaps: the loop goes on over the plain connection.
HandshakeFails ==
  /\ \/ pc \in {"handshake", "finish"} /\ (Resume \/ Reply)
     \/ pc \in {"flight", "finished"} /\ gone /\ Resume
  /\ UNCHANGED <<envVars, sessVars, record>>

\* Without a configuration the client's greeting is met by a nil dereference.
HandshakePanics ==
  /\ pc = "handshake"
  /\ ~tlsConfig
  /\ Panic
  /\ UNCHANGED <<envVars, sessVars, record>>

LogRecord ==
  /\ pc = "log"
  /\ record' = disconnectReason
  /\ pc' = "close"
  /\ UNCHANGED <<envVars, sessVars, disconnectReason>>

\* rawConn.Close(); after a panic the process ends here.
CloseConn ==
  /\ pc = "close"
  /\ pc' = "closed"
  /\ UNCHANGED <<envVars, sessVars, disconnectReason, record>>

Dispatch ==
  Unbind \/ Bind \/ (\E l \in Logins : BindSimple(l)) \/ Search \/ StartTls

HandleConn ==
  \/ Poll \/ ReadTimeout \/ ReadFails
  \/ Answer \/ Replied \/ Chatter \/ Untyped \/ Dispatch
  \/ Handshake \/ HandshakeDone \/ HandshakeFails \/ HandshakePanics
  \/ LogRecord \/ CloseConn

Next == HandleConn \/ Cancel \/ FallSilent \/ ClientLeaves

Spec == Init /\ [][Next]_vars

\* The goroutine runs when it can, and the read deadline covers each packet and
\* what is read in the handshake that follows it.  A write is only sure to return
\* once the client has left; what it sent before that comes to an end.
FairSpec ==
  /\ Spec
  /\ WF_vars(HandleConn /\ (pc \in Writing => gone))
  /\ WF_vars(gone /\ FallSilent)

-----------------------------------------------------------------------------
(* Properties.                                                             *)

Bindings == {i \in DOMAIN dialogue : dialogue[i] \in BindKinds \cup Logins}
LastLogin(i) ==
  /\ dialogue[i] \in Logins
  /\ \A j \in i + 1 .. Len(dialogue) : dialogue[j] \notin Logins
Met(kinds) == \E i \in DOMAIN dialogue : dialogue[i] \in kinds

\* What each field of the record says of the dialogue: one message more than
\* there were packets; all the binds, but the credentials of the last simple
\* one, whatever unusual bind came after it; and "tls" for a StartTLS that was
\* asked for, of which only the TLS version tells whether it succeeded.
RecordTellsDialogue ==
  /\ numMessages = Len(dialogue) + 1
  /\ bindAttempts = Cardinality(Bindings)
  /\ login # NoLogin => \E i \in DOMAIN dialogue : LastLogin(i) /\ login = dialogue[i]
  /\ login = NoLogin => ~Met(Logins)
  /\ searchAttempted <=> Met(SearchKinds)
  /\ tlsUsed <=> Met({"starttls"})
  /\ tlsActive => tlsUsed /\ tlsConfig

\* The record explains the end.  One without a reason is that of a panic: the
\* last packet was one whose values have other types, or a StartTLS for which
\* there was no certificate.  An unbind is the last packet of its session, and
\* of no other.
RecordExplainsEnd ==
  record # NoRecord =>
    LET last == dialogue[Len(dialogue)] IN
    /\ record = NoReason =>
         dialogue # <<>> /\ (last \in UntypedKinds \/ (last = "starttls" /\ ~tlsConfig))
    /\ record = "context_cancelled" => ctxDone
    /\ Met({"unbind"}) <=> record = "unbind_requested"
    /\ Met({"unbind"}) => last = "unbind"

\* A client that falls silent, in a packet, in a handshake or between packets, is
\* dropped without any shutdown, one that has left is noticed, and a shutdown ends
\* the session of one that keeps sending; unless handleConn is held for ever in a
\* write, by a client that stays and does not read.
SessionEnds ==
  \/ ctxDone \/ silent \/ gone ~> pc = "closed"
  \/ <>[](pc \in Writing /\ ~gone)

\* The handler keeps the promise of module Session; the empty reason of a panic
\* is one of those it logs.
SessionView == INSTANCE Session WITH
  Reasons <- Reasons \cup {NoReason}, over <- pc = "closed"

RecordsOnce == SessionView!Spec

=============================================================================
