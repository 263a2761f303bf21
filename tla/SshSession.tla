----------------------------- MODULE SshSession -----------------------------
(***************************************************************************)
(* One SSH connection: SshHandlerInstance.handleConn (handler/ssh.go), the *)
(* goroutine it starts for every channel the client opens, and the         *)
(* library's reader of packets (mux), which feeds them.  All share the     *)
(* session record without a lock.  The read deadline is set once, before   *)
(* the client's banner, and covers the whole connection; writes have none. *)
(***************************************************************************)
EXTENDS Integers, Sequences, FiniteSets

CONSTANTS MaxChannels, \* bound on the channels the client opens: the library
                       \* buffers sixteen that handleConn has not taken
          Limits,      \* values of message_limit in the configuration
          Room,        \* requests of a channel that the library buffers (16)
          MaxPackets,  \* bound on what the client sends in its channels
          NoRequest    \* no packet in the mux's hand

ASSUME SshAssumption ==
  /\ MaxChannels \in 0 .. 16
  /\ Limits \subseteq Int
  /\ Room \in Nat \ {0}
  /\ MaxPackets \in Nat

VARIABLES
  limit,            \* cfg.MessageLimit, after Validate
  ctxDone,          \* the context has been cancelled
  clientGone,       \* the client has closed or reset the connection
  expired,          \* the read deadline has passed
  closed,           \* conn or nConn has been closed by this side
  packets,          \* packets the client has sent in its channels
  pc,               \* where handleConn is
  loginAttempted,   \* sess.loginAttempted
  muxPc,            \* where the mux is: it stalls when a buffer is full, and
                    \* "closing" is its answer to a channel the client closes
  inHand,           \* the channel of the packet it then holds, and the packet
  chans,            \* channels offered to handleConn
  chanPc,           \* where the goroutine of each channel is
  requests,         \* buffered requests of each channel
  typed,            \* lines the client has typed into each channel
  eof,              \* nothing more will come from this channel
  loaded,           \* a shared variable, as a goroutine has loaded it to update it
  messageCount,     \* sess.messageCount
  kept,             \* Len(sess.messages)
  disconnectReason, \* sess.disconnectReason
  record,           \* the logged record
  taken             \* auxiliary: commands the shells have read

wire == <<clientGone, expired, closed>>
world == <<limit, ctxDone, wire, packets>>
muxVars == <<muxPc, inHand>>
buffers == <<requests, typed>>
chanVars == <<chanPc, buffers, eof, loaded, taken>>
counts == <<loaded, messageCount, kept, taken>>
capture == <<loginAttempted, messageCount, kept, record>>
vars == <<world, pc, muxVars, chans, chanVars, capture, disconnectReason>>

\* What the goroutine of a channel never changes.
elsewhere == <<limit, ctxDone, packets, pc, muxVars, chans, eof, loginAttempted, record>>

\* Channels are numbered in the order in which the client opens them.
Channels == 1 .. MaxChannels

Pcs == {"banner", "handshake", "serve", "log", "close", "returned"}
MuxPcs == {"off", "read", "closing", "stalled", "dropped", "ended"}
\* "requests" is the loop over the channel's requests, "shell" the one over lines.
\* Between "load" and "limit" a command is counted and kept.  The goroutine
\* writes to the client where it answers a request ("reply"), prompts for a line
\* ("prompt") or answers it ("limit"), and where it closes its channel, or answers
\* an exec, before it closes the connection ("farewell", else "hangup").
ChanPcs == {"unopened", "offered", "refused", "requests", "reply", "prompt", "shell",
            "load", "store", "append", "limit", "farewell", "hangup", "done"}
\* "exec" stands for "subsystem" too, which differs in the names it records.
RequestTypes == {"pty-req", "shell", "exec"}
HandshakeReasons == {"handshake_timeout", "client_disconnect_during_handshake",
                     "client_disconnect_during_handshake_malformatted", "handshake_error"}
ChannelReasons == {"shell_session_ended", "shell_no_command", "exit_command",
                   "message_limit_reached", "exec_requested"}
Reasons == HandshakeReasons \cup ChannelReasons \cup
           {"context_cancelled", "client_disconnect", "channel_accept_error"}
NoReason == "none" \* the empty string of an unset disconnectReason

TypeOK ==
  /\ limit \in Nat \ {0}
  /\ ctxDone \in BOOLEAN
  /\ clientGone \in BOOLEAN /\ expired \in BOOLEAN /\ closed \in BOOLEAN
  /\ packets \in 0 .. MaxPackets
  /\ pc \in Pcs
  /\ loginAttempted \in BOOLEAN
  /\ muxPc \in MuxPcs
  /\ inHand \in (Channels \X (RequestTypes \cup {"close"})) \cup {NoRequest}
  /\ chans \in Seq(Channels)
  /\ chanPc \in [Channels -> ChanPcs]
  /\ requests \in [Channels -> Seq(RequestTypes)]
  /\ \A c \in Channels : Len(requests[c]) <= Room
  /\ typed \in [Channels -> Seq({"command", "exit"})]
  /\ eof \in [Channels -> BOOLEAN]
  /\ loaded \in [Channels -> Nat]
  /\ messageCount \in Nat
  /\ kept \in Nat
  /\ disconnectReason \in Reasons \cup {NoReason}
  /\ record \in [reason : Reasons \cup {NoReason}, count : Nat, kept : Nat]
  /\ taken \in Nat

DefaultLimit == 10

\* Validate: a limit that is missing, zero or negative becomes the default.
Validate(configured) == IF configured <= 0 THEN DefaultLimit ELSE configured

Init ==
  /\ \E configured \in Limits : limit = Validate(configured)
  /\ ctxDone = FALSE
  /\ clientGone = FALSE /\ expired = FALSE /\ closed = FALSE
  /\ packets = 0
  /\ pc = "banner"
  /\ loginAttempted = FALSE
  /\ muxPc = "off" /\ inHand = NoRequest
  /\ chans = <<>>
  /\ chanPc = [c \in Channels |-> "unopened"]
  /\ requests = [c \in Channels |-> <<>>]
  /\ typed = [c \in Channels |-> <<>>]
  /\ eof = [c \in Channels |-> FALSE]
  /\ loaded = [c \in Channels |-> 0]
  /\ messageCount = 0 /\ kept = 0
  /\ disconnectReason = NoReason
  /\ record = [reason |-> NoReason, count |-> 0, kept |-> 0]
  /\ taken = 0

\* The connection is down, so that reads from it fail.
WireDown == clientGone \/ expired \/ closed

\* The goroutine of channel c, handleConn, or one of all, is or may be in a write
\* to the client.  What frees it is the client, which reads or leaves, or a close
\* by this side; the read deadline does not.
Writes(c) ==
  \/ chanPc[c] \in {"reply", "prompt", "limit", "farewell"}
  \/ chanPc[c] = "shell" /\ typed[c] # <<>> \* ReadLine echoes what it reads

HandleConnWrites == pc = "serve" /\ chans # <<>> \* it answers the first of them

SomeoneWrites == HandleConnWrites \/ muxPc = "closing" \/ \E c \in Channels : Writes(c)

WritesFail == clientGone \/ closed

-----------------------------------------------------------------------------
(* The world: main, the client and the clock.  A shutdown goes unnoticed   *)
(* when handleConn has left its loop, and so does what happens to a        *)
(* connection that is down already: a write that waits then may return.    *)

Cancel ==
  /\ ~ctxDone /\ pc \in {"banner", "handshake", "serve"}
  /\ ctxDone' = TRUE
  /\ UNCHANGED <<limit, wire, packets, pc, muxVars, chans, chanVars, capture, disconnectReason>>

ClientLeaves ==
  /\ ~WireDown
  /\ clientGone' = TRUE
  /\ UNCHANGED <<elsewhere, expired, closed, chanPc, buffers, counts, disconnectReason>>

\* Two minutes have passed since handleConn began: nothing moves the deadline.
DeadlinePasses ==
  /\ ~WireDown
  /\ expired' = TRUE
  /\ UNCHANGED <<elsewhere, clientGone, closed, chanPc, buffers, counts, disconnectReason>>

-----------------------------------------------------------------------------
(* The goroutine of handleConn.                                            *)

\* The banner has been read, or reading it failed: the handshake decides.
ReadBanner ==
  /\ pc = "banner"
  /\ pc' = "handshake"
  /\ UNCHANGED <<world, muxVars, chans, chanVars, capture, disconnectReason>>

\* The callback that ssh.NewServerConn makes: every password is accepted.
PasswordCallback ==
  /\ pc = "handshake"
  /\ ~loginAttempted
  /\ loginAttempted' = TRUE
  /\ UNCHANGED <<world, pc, muxVars, chans, chanVars, messageCount, kept, disconnectReason,
                 record>>

\* NewServerConn returns a connection, whose mux runs from now on.
HandshakeDone ==
  /\ pc = "handshake"
  /\ loginAttempted
  /\ pc' = "serve"
  /\ muxPc' = "read"
  /\ UNCHANGED <<world, inHand, chans, chanVars, capture, disconnectReason>>

HandshakeFails(reason) ==
  /\ pc = "handshake"
  /\ reason = "handshake_timeout" => expired
  /\ reason = "client_disconnect_during_handshake" => clientGone
  /\ disconnectReason' = reason
  /\ closed' = TRUE \* NewServerConn closes a connection it gives up
  /\ pc' = "log"
  /\ UNCHANGED <<limit, ctxDone, clientGone, expired, packets, muxVars, chans, chanVars,
                 capture>>

\* The case of ctx.Done() in the select.  A channel that has been taken and not
\* answered counts as one of chans, so with any there handleConn may be busy.
ServeCancelled ==
  /\ pc = "serve"
  /\ ctxDone
  /\ disconnectReason' = "context_cancelled"
  /\ pc' = "log"
  /\ UNCHANGED <<world, muxVars, chans, chanVars, capture>>

\* Variant with a bug: a closed connection is no reason to log.
ChansClosedSilently ==
  /\ pc = "serve"
  /\ chans = <<>>
  /\ muxPc = "ended"
  /\ pc' = "log"
  /\ UNCHANGED <<world, muxVars, chans, chanVars, capture, disconnectReason>>

\* Variant with a bug: the reason of a channel goroutine is respected.
ChansClosedRespectful ==
  /\ pc = "serve"
  /\ chans = <<>>
  /\ muxPc = "ended"
  /\ disconnectReason' = IF disconnectReason = NoReason
                         THEN "client_disconnect" ELSE disconnectReason
  /\ pc' = "log"
  /\ UNCHANGED <<world, muxVars, chans, chanVars, capture>>

\* The channel of channels is empty and closed.  The reason is assigned
\* whatever the channel goroutines have written there.
ChansClosed ==
  /\ pc = "serve"
  /\ chans = <<>>
  /\ muxPc = "ended"
  /\ disconnectReason' = "client_disconnect"
  /\ pc' = "log"
  /\ UNCHANGED <<world, muxVars, chans, chanVars, capture>>

\* A channel taken from chans is accepted, rejected because it is no session, or
\* lost because the connection is down; the loop goes on in each case.
TakeChannel ==
  /\ pc = "serve"
  /\ chans # <<>>
  /\ chans' = Tail(chans)
  /\ \/ /\ chanPc' = [chanPc EXCEPT ![Head(chans)] = "requests"]
        /\ UNCHANGED disconnectReason
     \/ /\ chanPc' = [chanPc EXCEPT ![Head(chans)] = "refused"]
        /\ UNCHANGED disconnectReason
     \/ /\ WireDown
        /\ chanPc' = [chanPc EXCEPT ![Head(chans)] = "refused"]
        /\ disconnectReason' = "channel_accept_error"
  /\ UNCHANGED <<world, pc, muxVars, buffers, eof, loaded, taken, capture>>

\* The deferred logging reads the session while channel goroutines may go on.
LogRecord ==
  /\ pc = "log"
  /\ record' = [reason |-> disconnectReason, count |-> messageCount, kept |-> kept]
  /\ pc' = "close"
  /\ UNCHANGED <<world, muxVars, chans, chanVars, loginAttempted, messageCount, kept,
                 disconnectReason>>

\* The deferred nConn.Close(); nobody waits for the channel goroutines.
CloseConn ==
  /\ pc = "close"
  /\ closed' = TRUE
  /\ pc' = "returned"
  /\ UNCHANGED <<limit, ctxDone, clientGone, expired, packets, muxVars, chans, chanVars,
                 capture, disconnectReason>>

-----------------------------------------------------------------------------
(* The mux of golang.org/x/crypto/ssh, as the code uses it.  It takes one  *)
(* packet at a time and may find some it has buffered after the connection *)
(* went down.                                                              *)

Packet ==
  /\ muxPc = "read"
  /\ packets < MaxPackets
  /\ packets' = packets + 1

Accepted(c) == chanPc[c] \notin {"unopened", "offered", "refused"}

OpenArrives(c) ==
  /\ muxPc = "read"
  /\ \A d \in Channels : chanPc[d] = "unopened" <=> d >= c
  /\ chanPc' = [chanPc EXCEPT ![c] = "offered"]
  /\ chans' = Append(chans, c)
  /\ UNCHANGED <<world, pc, muxVars, buffers, eof, loaded, taken, capture, disconnectReason>>

\* A request goes into its channel's buffer, or into the mux's hand.
RequestArrives(c, type) ==
  /\ Packet
  /\ Accepted(c) /\ ~eof[c]
  /\ IF Len(requests[c]) < Room
     THEN /\ requests' = [requests EXCEPT ![c] = Append(@, type)]
          /\ UNCHANGED muxVars
     ELSE /\ muxPc' = "stalled"
          /\ inHand' = <<c, type>>
          /\ UNCHANGED requests
  /\ UNCHANGED <<limit, ctxDone, wire, pc, chans, chanPc, typed, eof, loaded, taken,
                 capture, disconnectReason>>

\* Variant with a bug: the buffer has no bound.
PutAnyway ==
  /\ muxPc = "stalled"
  /\ requests' = [requests EXCEPT ![inHand[1]] = Append(@, inHand[2])]
  /\ muxPc' = "read"
  /\ inHand' = NoRequest
  /\ UNCHANGED <<world, pc, chans, chanPc, typed, eof, loaded, taken, capture,
                 disconnectReason>>

\* There is room again: the mux goes on.
PutInHand ==
  /\ muxPc = "stalled"
  /\ Len(requests[inHand[1]]) < Room
  /\ requests' = [requests EXCEPT ![inHand[1]] = Append(@, inHand[2])]
  /\ muxPc' = "read"
  /\ inHand' = NoRequest
  /\ UNCHANGED <<world, pc, chans, chanPc, typed, eof, loaded, taken, capture,
                 disconnectReason>>

\* A line typed into a channel whose goroutine has returned is left out, like
\* the lines it has not read: nobody will.
LineArrives(c, line) ==
  /\ Packet
  /\ Accepted(c) /\ ~eof[c] /\ chanPc[c] # "done"
  /\ typed' = [typed EXCEPT ![c] = Append(@, line)]
  /\ UNCHANGED <<limit, ctxDone, wire, pc, muxVars, chans, chanPc, requests, eof, loaded,
                 taken, capture, disconnectReason>>

\* The client closes a channel: the mux answers first ...
CloseArrives(c) ==
  /\ Packet
  /\ Accepted(c) /\ ~eof[c]
  /\ muxPc' = "closing"
  /\ inHand' = <<c, "close">>
  /\ UNCHANGED <<limit, ctxDone, wire, pc, chans, chanVars, capture, disconnectReason>>

\* ... and closes the channel when its answer is written.
CloseAnswered ==
  /\ muxPc = "closing"
  /\ eof' = [eof EXCEPT ![inHand[1]] = TRUE]
  /\ muxPc' = "read"
  /\ inHand' = NoRequest
  /\ UNCHANGED <<world, pc, chans, chanPc, buffers, loaded, taken, capture,
                 disconnectReason>>

\* Variant with a bug: the deadline is pushed back by every packet.
DropChannelsNoDeadline ==
  /\ muxPc = "read"
  /\ clientGone \/ closed
  /\ eof' = [c \in Channels |-> TRUE]
  /\ muxPc' = "dropped"
  /\ UNCHANGED <<world, pc, inHand, chans, chanPc, buffers, loaded, taken, capture,
                 disconnectReason>>

\* Reading fails: first every channel is closed, where each waits for a write
\* on it to return ...
DropChannels ==
  /\ muxPc = "read"
  /\ WireDown
  /\ eof' = [c \in Channels |-> TRUE]
  /\ muxPc' = "dropped"
  /\ UNCHANGED <<world, pc, inHand, chans, chanPc, buffers, loaded, taken, capture,
                 disconnectReason>>

\* ... and then the channel of channels, and the connection.
CloseChans ==
  /\ muxPc = "dropped"
  /\ muxPc' = "ended"
  /\ closed' = TRUE
  /\ UNCHANGED <<limit, ctxDone, clientGone, expired, packets, pc, inHand, chans, chanVars,
                 capture, disconnectReason>>

-----------------------------------------------------------------------------
(* The goroutine of one channel.                                           *)

\* It goes on elsewhere in its code.
Goto(c, place) == chanPc' = [chanPc EXCEPT ![c] = place]

\* The loop over the requests: a shell is entered for good, exec and subsystem
\* end the connection, everything else is only answered, if the client asks.
TakeRequest(c) ==
  /\ chanPc[c] = "requests"
  /\ requests[c] # <<>>
  /\ requests' = [requests EXCEPT ![c] = Tail(@)]
  /\ LET type == Head(requests[c])
     IN  \/ /\ type = "pty-req"
            /\ \E place \in {"requests", "reply"} : Goto(c, place)
            /\ UNCHANGED disconnectReason
         \/ /\ type = "shell"
            /\ Goto(c, "prompt")
            /\ UNCHANGED disconnectReason
         \/ /\ type = "exec"
            /\ \E place \in {"hangup", "farewell"} : Goto(c, place)
            /\ disconnectReason' = "exec_requested"
  /\ UNCHANGED <<elsewhere, wire, typed, counts>>

\* The write has returned, with an error if the connection is down: no error is
\* looked at.
Written(c) ==
  /\ \/ chanPc[c] = "reply" /\ Goto(c, "requests")
     \/ chanPc[c] = "prompt" /\ Goto(c, "shell")
  /\ UNCHANGED <<elsewhere, wire, buffers, counts, disconnectReason>>

RequestsEnd(c) ==
  /\ chanPc[c] = "requests"
  /\ requests[c] = <<>>
  /\ eof[c]
  /\ typed' = [typed EXCEPT ![c] = <<>>]
  /\ Goto(c, "done")
  /\ UNCHANGED <<elsewhere, wire, requests, counts, disconnectReason>>

\* ReadLine has echoed a line and returns it; an empty one changes nothing and is
\* left out.
ReadLine(c) ==
  /\ chanPc[c] = "shell"
  /\ typed[c] # <<>>
  /\ typed' = [typed EXCEPT ![c] = Tail(@)]
  /\ \/ /\ Head(typed[c]) = "exit"
        /\ Goto(c, "farewell")
        /\ disconnectReason' = "exit_command"
        /\ UNCHANGED taken
     \/ /\ Head(typed[c]) = "command"
        /\ Goto(c, "load")
        /\ taken' = taken + 1
        /\ UNCHANGED disconnectReason
  /\ UNCHANGED <<elsewhere, wire, requests, loaded, messageCount, kept>>

\* Variant with a bug: the goroutine goes back to its requests.
ShellBreaks(c) ==
  /\ chanPc[c] = "shell"
  /\ typed[c] = <<>>
  /\ Goto(c, "requests")
  /\ UNCHANGED <<elsewhere, wire, buffers, counts, disconnectReason>>

\* ReadLine fails.
ShellEnds(c) ==
  /\ chanPc[c] = "shell"
  /\ typed[c] = <<>>
  /\ eof[c]
  /\ disconnectReason' =
       IF messageCount > 0 THEN "shell_session_ended" ELSE "shell_no_command"
  /\ Goto(c, "farewell")
  /\ UNCHANGED <<elsewhere, wire, buffers, counts>>

\* messageCount++ and the append are no atomic steps, and another channel's
\* shell may make its own in between.
LoadCount(c) ==
  /\ chanPc[c] = "load"
  /\ loaded' = [loaded EXCEPT ![c] = messageCount]
  /\ Goto(c, "store")
  /\ UNCHANGED <<elsewhere, wire, buffers, taken, messageCount, kept, disconnectReason>>

StoreCount(c) ==
  /\ chanPc[c] = "store"
  /\ messageCount' = loaded[c] + 1
  /\ loaded' = [loaded EXCEPT ![c] = kept]
  /\ Goto(c, "append")
  /\ UNCHANGED <<elsewhere, wire, buffers, taken, kept, disconnectReason>>

\* Variant with a bug: the line is not kept.
AppendNothing(c) ==
  /\ chanPc[c] = "append"
  /\ Goto(c, "limit")
  /\ UNCHANGED <<elsewhere, wire, buffers, counts, disconnectReason>>

AppendMessage(c) ==
  /\ chanPc[c] = "append"
  /\ kept' = loaded[c] + 1
  /\ loaded' = [loaded EXCEPT ![c] = 0]
  /\ Goto(c, "limit")
  /\ UNCHANGED <<elsewhere, wire, buffers, taken, messageCount, disconnectReason>>

\* The answer is written.  Every limit is at least one, so it is looked at after
\* every command.
CheckLimit(c) ==
  /\ chanPc[c] = "limit"
  /\ IF messageCount >= limit
     THEN Goto(c, "farewell") /\ disconnectReason' = "message_limit_reached"
     ELSE Goto(c, "prompt") /\ UNCHANGED disconnectReason
  /\ UNCHANGED <<elsewhere, wire, buffers, counts>>

\* The farewell is written: conn.Close(), and the goroutine returns, whatever
\* requests are buffered.
HangUp(c) ==
  /\ chanPc[c] \in {"farewell", "hangup"}
  /\ closed' = TRUE
  /\ typed' = [typed EXCEPT ![c] = <<>>]
  /\ Goto(c, "done")
  /\ UNCHANGED <<elsewhere, clientGone, expired, requests, counts, disconnectReason>>

-----------------------------------------------------------------------------
Handshake ==
  ReadBanner \/ PasswordCallback \/ HandshakeDone
    \/ \E reason \in HandshakeReasons : HandshakeFails(reason)

HandleConn == ServeCancelled \/ ChansClosed \/ TakeChannel \/ LogRecord \/ CloseConn

ClientSends ==
  \E c \in Channels :
    \/ OpenArrives(c) \/ CloseArrives(c)
    \/ \E type \in RequestTypes : RequestArrives(c, type)
    \/ \E line \in {"command", "exit"} : LineArrives(c, line)

MuxGoesOn == PutInHand \/ CloseAnswered \/ DropChannels \/ CloseChans

ServeChannel(c) ==
  \/ TakeRequest(c) \/ Written(c) \/ RequestsEnd(c) \/ ReadLine(c) \/ ShellEnds(c)
  \/ LoadCount(c) \/ StoreCount(c) \/ AppendMessage(c) \/ CheckLimit(c) \/ HangUp(c)

Next ==
  \/ Cancel \/ ClientLeaves \/ DeadlinePasses
  \/ Handshake \/ HandleConn \/ ClientSends \/ MuxGoesOn
  \/ \E c \in Channels : ServeChannel(c)

Spec == Init /\ [][Next]_vars

\* Goroutines that can run do run, time passes, and a read on a connection that
\* is down returns; which ready case select takes does not matter here.  The
\* client need not do anything, nor main: a write returns for certain only when
\* the client is gone or the connection closed, and until then the mux, too, may
\* wait for it before it drops the channel.
FairSpec ==
  /\ Spec
  /\ WF_vars(DeadlinePasses)
  /\ WF_vars(/\ WireDown
             /\ ReadBanner \/ \E reason \in HandshakeReasons : HandshakeFails(reason))
  /\ WF_vars(HandleConn /\ (HandleConnWrites => WritesFail))
  /\ WF_vars(MuxGoesOn /\ (muxPc \in {"read", "closing"} /\ SomeoneWrites => WritesFail))
  /\ \A c \in Channels :
       WF_vars(ServeChannel(c) /\ (Writes(c) => WritesFail))

-----------------------------------------------------------------------------
(* Properties.                                                             *)

\* The mux holds a request for a channel whose goroutine has stopped taking
\* requests: it is in its shell, or it has returned.
Wedged ==
  /\ muxPc = "stalled"
  /\ Len(requests[inHand[1]]) = Room
  /\ chanPc[inHand[1]] \notin {"requests", "reply"}

\* Nothing that client, clock, main or any goroutine does frees such a mux.
WedgedForever == [][Wedged => Wedged']_vars

\* handleConn has returned, and no goroutine it has started is left.
Over ==
  /\ pc = "returned"
  /\ muxPc \in {"off", "ended"}
  /\ \A c \in Channels : Accepted(c) => chanPc[c] = "done"

\* The mux is wedged: handleConn waits on, or has left its goroutines behind.
Leaked == Wedged /\ (pc = "returned" \/ ~ctxDone)

\* A client that neither leaves nor reads holds a goroutine in a write.  A
\* shutdown closes the connection, which frees it, unless handleConn itself is
\* the one in the write.
Held ==
  /\ ~WritesFail
  /\ HandleConnWrites \/ (~ctxDone /\ SomeoneWrites)

\* A connection ends two minutes after it began, or with the shutdown, however
\* its goroutines race, and the channel goroutines that handleConn does not wait
\* for end with it.  Two clients are excepted, both against the comment on the
\* deadline, "to prevent hanging connections" (ssh.go:398).  One stays and reads
\* nothing, for ever.  The other wedges the mux, which then sees no deadline: a
\* shutdown makes handleConn return, but never the goroutines.
SessionEnds == []<>(Over \/ Leaked) \/ <>[]Held

\* The one channel this session has served, if it is not more than one.
OneChannel == Cardinality({c \in Channels : Accepted(c)}) <= 1

\* A connection that was neither dropped by the client nor timed out nor shut
\* down was closed by a channel goroutine that knows why: an exit, the limit, an
\* exec, a subsystem.  With one channel this reason is always overwritten: the
\* goroutine closes the connection only after writing it.
ReasonIsOverwritten ==
  muxPc # "off" /\ OneChannel /\ ~clientGone /\ ~expired /\ ~ctxDone =>
    record.reason \in {NoReason, "client_disconnect"}

\* A single shell takes no more commands than the limit allows, and the list of
\* a record lags at most the one command being kept when it was logged.
\* However many shells race, a record counts and lists no command twice.
ShellIsCaptured ==
  /\ messageCount <= taken /\ kept <= taken
  /\ OneChannel => /\ taken <= limit
                   /\ record.kept \in {record.count - 1, record.count}

\* The handler keeps the promise of module Session, whose record is the reason.
SessionView == INSTANCE Session WITH
  NoRecord <- NoReason, record <- record.reason, over <- pc = "returned"

RecordsOnce == SessionView!Spec

\* What the comment on the closed channel of channels says of the reason it
\* sets, "client dropped connection" (ssh.go:498), a client that let the
\* deadline pass included.
DisconnectIsTheClients ==
  record.reason = "client_disconnect" => clientGone \/ expired

=============================================================================
