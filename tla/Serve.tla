------------------------------- MODULE Serve -------------------------------
(***************************************************************************)
(* HandlerInstance.Serve of the four registered handlers (handler/ssh.go,  *)
(* telnet.go, ldap.go, smtp.go).  Each handler owns a listener and runs    *)
(* two goroutines: the accept goroutine loops over listener.Accept and     *)
(* sends every connection into acceptChan, a channel of capacity one; the  *)
(* Serve goroutine selects between the cancelled context and acceptChan    *)
(* and spawns handleConn for what it receives.  When it leaves its loop,   *)
(* the deferred function closes the listener, waits for the accept         *)
(* goroutine (all handlers but SMTP) and calls wg.Done.                    *)
(***************************************************************************)
EXTENDS Naturals, Sequences, FiniteSets

CONSTANTS Handlers,     \* the handler instances, one per port
          AcceptAwaiters, \* those whose Serve waits on acceptWg (not SMTP)
          Conns,        \* the client connections
          ChanCap,      \* capacity of acceptChan: make(chan net.Conn, 1)
          NoConn        \* the accept goroutine holds no connection

ASSUME ServeAssumption ==
  /\ AcceptAwaiters \subseteq Handlers
  /\ ChanCap \in Nat \ {0}
  /\ NoConn \notin Conns

VARIABLES
  ctxDone,     \* the context passed to every Serve has been cancelled
  listening,   \* per handler: its listener is open
  backlog,     \* per handler: connections the kernel holds for Accept
  acceptPc,    \* per handler: where its accept goroutine is
  held,        \* per handler: the connection Accept returned and not yet sent
  acceptChan,  \* per handler: the buffered connections, oldest first
  servePc,     \* per handler: where its Serve goroutine is
  sessions     \* per handler: connections handed to a handleConn goroutine

acceptVars == <<acceptPc, held>>
serveVars == <<ctxDone, listening, backlog, acceptPc, held, acceptChan, servePc,
               sessions>>

AcceptPcs == {"off", "accept", "send", "ended"}
ServePcs == {"off", "spawned", "select", "close", "wait", "release", "returned"}

ServeTypeOK ==
  /\ ctxDone \in BOOLEAN
  /\ listening \in [Handlers -> BOOLEAN]
  /\ backlog \in [Handlers -> SUBSET Conns]
  /\ acceptPc \in [Handlers -> AcceptPcs]
  /\ held \in [Handlers -> Conns \cup {NoConn}]
  /\ acceptChan \in [Handlers -> Seq(Conns)]
  /\ servePc \in [Handlers -> ServePcs]
  /\ sessions \in [Handlers -> SUBSET Conns]

Elements(s) == {s[i] : i \in DOMAIN s}

\* Every connection that handler h has ever been given.
Known(h) == backlog[h] \cup {held[h]} \cup Elements(acceptChan[h]) \cup sessions[h]

-----------------------------------------------------------------------------
\* Main has bound the port of every handler and started its Serve goroutine.
ServeInit ==
  /\ ctxDone = FALSE
  /\ listening = [h \in Handlers |-> TRUE]
  /\ backlog = [h \in Handlers |-> {}]
  /\ acceptPc = [h \in Handlers |-> "off"]
  /\ held = [h \in Handlers |-> NoConn]
  /\ acceptChan = [h \in Handlers |-> <<>>]
  /\ servePc = [h \in Handlers |-> "spawned"]
  /\ sessions = [h \in Handlers |-> {}]

-----------------------------------------------------------------------------
(* The environment: clients, and errors of the listening socket.           *)

\* A client's connection reaches the open port of h and waits for Accept.
Arrive(h, c) ==
  /\ listening[h]
  /\ \A g \in Handlers : c \notin Known(g)
  /\ backlog' = [backlog EXCEPT ![h] = @ \cup {c}]
  /\ UNCHANGED <<ctxDone, listening, acceptVars, acceptChan, servePc, sessions>>

\* Variant with a bug: the error of Accept is not checked, and the goroutine
\* goes on to send a nil connection.
AcceptFailsUnchecked(h) ==
  /\ acceptPc[h] = "accept"
  /\ listening[h]
  /\ acceptPc' = [acceptPc EXCEPT ![h] = "send"]
  /\ UNCHANGED <<ctxDone, listening, backlog, held, acceptChan, servePc, sessions>>

\* Accept fails although the listener is open (out of file descriptors, say).
\* The goroutine returns on any error: it does not try again.
AcceptFails(h) ==
  /\ acceptPc[h] = "accept"
  /\ listening[h]
  /\ acceptPc' = [acceptPc EXCEPT ![h] = "ended"]
  /\ UNCHANGED <<ctxDone, listening, backlog, held, acceptChan, servePc, sessions>>

\* main calls cancel().
Cancel ==
  /\ ~ctxDone
  /\ ctxDone' = TRUE
  /\ UNCHANGED <<listening, backlog, acceptVars, acceptChan, servePc, sessions>>

-----------------------------------------------------------------------------
(* The accept goroutine.                                                   *)

Accept(h) ==
  /\ acceptPc[h] = "accept"
  /\ listening[h]
  /\ \E c \in backlog[h] :
       /\ held' = [held EXCEPT ![h] = c]
       /\ backlog' = [backlog EXCEPT ![h] = @ \ {c}]
  /\ acceptPc' = [acceptPc EXCEPT ![h] = "send"]
  /\ UNCHANGED <<ctxDone, listening, acceptChan, servePc, sessions>>

\* Accept on a closed listener reports net.ErrClosed.
AcceptClosed(h) ==
  /\ acceptPc[h] = "accept"
  /\ ~listening[h]
  /\ acceptPc' = [acceptPc EXCEPT ![h] = "ended"]
  /\ UNCHANGED <<ctxDone, listening, backlog, held, acceptChan, servePc, sessions>>

\* Variant with a bug: a channel with room for one more.
ChanFullTooLate(h) == Len(acceptChan[h]) > ChanCap

ChanFull(h) == Len(acceptChan[h]) >= ChanCap

\* Variant with a bug: the connection is sent and sent again.
SendTwice(h) ==
  /\ acceptPc[h] = "send"
  /\ ~ChanFull(h)
  /\ acceptChan' = [acceptChan EXCEPT ![h] = Append(@, held[h])]
  /\ UNCHANGED <<ctxDone, listening, backlog, acceptVars, servePc, sessions>>

\* Variant with a bug: a select with a default case drops what does not fit.
SendOrDrop(h) ==
  /\ acceptPc[h] = "send"
  /\ acceptChan' = [acceptChan EXCEPT ![h] = IF ChanFull(h) THEN @ ELSE Append(@, held[h])]
  /\ held' = [held EXCEPT ![h] = NoConn]
  /\ acceptPc' = [acceptPc EXCEPT ![h] = "accept"]
  /\ UNCHANGED <<ctxDone, listening, backlog, servePc, sessions>>

\* acceptChan <- conn, which blocks while the buffer is full.
Send(h) ==
  /\ acceptPc[h] = "send"
  /\ ~ChanFull(h)
  /\ acceptChan' = [acceptChan EXCEPT ![h] = Append(@, held[h])]
  /\ held' = [held EXCEPT ![h] = NoConn]
  /\ acceptPc' = [acceptPc EXCEPT ![h] = "accept"]
  /\ UNCHANGED <<ctxDone, listening, backlog, servePc, sessions>>

-----------------------------------------------------------------------------
(* The Serve goroutine.                                                    *)

\* Serve runs up to its select: it starts the accept goroutine.
StartServe(h) ==
  /\ servePc[h] = "spawned"
  /\ servePc' = [servePc EXCEPT ![h] = "select"]
  /\ acceptPc' = [acceptPc EXCEPT ![h] = "accept"]
  /\ UNCHANGED <<ctxDone, listening, backlog, held, acceptChan, sessions>>

\* case conn := <-acceptChan.  Go's select takes any ready case, so a
\* connection can still be received after the context was cancelled.
ServeConn(h) ==
  /\ servePc[h] = "select"
  /\ acceptChan[h] # <<>>
  /\ sessions' = [sessions EXCEPT ![h] = @ \cup {Head(acceptChan[h])}]
  /\ acceptChan' = [acceptChan EXCEPT ![h] = Tail(@)]
  /\ UNCHANGED <<ctxDone, listening, backlog, acceptVars, servePc>>

\* case <-ctx.Done(): return, which runs the deferred function.
ServeCancelled(h) ==
  /\ servePc[h] = "select"
  /\ ctxDone
  /\ servePc' = [servePc EXCEPT ![h] = "close"]
  /\ UNCHANGED <<ctxDone, listening, backlog, acceptVars, acceptChan, sessions>>

\* Variant with a bug: the deferred function waits without closing the listener.
CloseListenerForgotten(h) ==
  /\ servePc[h] = "close"
  /\ servePc' = [servePc EXCEPT ![h] =
                   IF h \in AcceptAwaiters THEN "wait" ELSE "release"]
  /\ UNCHANGED <<ctxDone, listening, backlog, acceptVars, acceptChan, sessions>>

\* listener.Close(): the kernel resets what it still holds.
CloseListener(h) ==
  /\ servePc[h] = "close"
  /\ listening' = [listening EXCEPT ![h] = FALSE]
  /\ backlog' = [backlog EXCEPT ![h] = {}]
  /\ servePc' = [servePc EXCEPT ![h] =
                   IF h \in AcceptAwaiters THEN "wait" ELSE "release"]
  /\ UNCHANGED <<ctxDone, acceptVars, acceptChan, sessions>>

\* Variant with a bug: acceptWg.Add(1) is missing, and Wait returns at once.
AcceptNotCounted(h) == servePc[h] = "wait"

\* acceptWg.Wait() returns once the accept goroutine has run acceptWg.Done().
AcceptEnded(h) == acceptPc[h] = "ended"

AwaitAccept(h) ==
  /\ servePc[h] = "wait"
  /\ AcceptEnded(h)
  /\ servePc' = [servePc EXCEPT ![h] = "release"]
  /\ UNCHANGED <<ctxDone, listening, backlog, acceptVars, acceptChan, sessions>>

\* wg.Done(), the last thing Serve does.
Release(h) ==
  /\ servePc[h] = "release"
  /\ servePc' = [servePc EXCEPT ![h] = "returned"]
  /\ UNCHANGED <<ctxDone, listening, backlog, acceptVars, acceptChan, sessions>>

-----------------------------------------------------------------------------
AcceptGoroutine(h) == Accept(h) \/ AcceptClosed(h) \/ Send(h)

ServeGoroutine(h) ==
  \/ StartServe(h)
  \/ ServeConn(h)
  \/ ServeCancelled(h)
  \/ CloseListener(h)
  \/ AwaitAccept(h)
  \/ Release(h)

ServeNext ==
  \/ Cancel
  \/ \E h \in Handlers, c \in Conns : Arrive(h, c)
  \/ \E h \in Handlers :
        AcceptFails(h) \/ AcceptGoroutine(h) \/ ServeGoroutine(h)

ServeSpec == ServeInit /\ [][ServeNext]_serveVars

\* The Go scheduler runs every goroutine that can run, and a select with
\* several ready cases takes each of them with equal probability: a case that
\* stays ready is taken.  Clients, the operator and socket errors are not fair.
ServeFairness ==
  \A h \in Handlers :
    /\ WF_serveVars(AcceptGoroutine(h))
    /\ WF_serveVars(StartServe(h))
    /\ WF_serveVars(ServeConn(h))
    /\ WF_serveVars(ServeCancelled(h))
    /\ WF_serveVars(CloseListener(h))
    /\ WF_serveVars(AwaitAccept(h))
    /\ WF_serveVars(Release(h))

FairServeSpec == ServeSpec /\ ServeFairness

-----------------------------------------------------------------------------
(* Properties.                                                             *)

\* A connection is never in two hands: neither two handlers nor two of the
\* stages backlog, accept goroutine, channel and session of one handler hold
\* it, and the channel does not hold it twice.  Violating it takes the accept
\* goroutine and the Serve goroutine together (a connection sent twice, or
\* sent and kept), and it would make two handleConn goroutines share a socket.
OnePlace ==
  /\ \A h \in Handlers :
       /\ held[h] \notin backlog[h] \cup Elements(acceptChan[h]) \cup sessions[h]
       /\ backlog[h] \cap (Elements(acceptChan[h]) \cup sessions[h]) = {}
       /\ Elements(acceptChan[h]) \cap sessions[h] = {}
       /\ \A i, j \in DOMAIN acceptChan[h] :
            acceptChan[h][i] = acceptChan[h][j] => i = j
  /\ \A g, h \in Handlers : g # h => Known(g) \cap Known(h) \subseteq {NoConn}

\* A Serve that has got past its waiting has closed its port and, where it has
\* an acceptWg, left no accept goroutine behind: what "wait for accept
\* goroutine to exit, then signal parent that Serve is done" promises
\* (ssh.go:339, ldap.go:129).  SMTP has no acceptWg and may leave one behind.
DoneMeansQuiet ==
  \A h \in Handlers : servePc[h] \in {"release", "returned"} =>
    /\ ~listening[h]
    /\ h \in AcceptAwaiters => acceptPc[h] = "ended"

\* The accept goroutine holds a connection for a full channel that nobody
\* reads any more, and Serve waits for that goroutine.
Stuck(h) ==
  /\ servePc[h] = "wait"
  /\ acceptPc[h] = "send"
  /\ ChanFull(h)

\* Nothing gets a handler out of that wait: not the closed listener, not the
\* cancelled context, not another client.
StuckForever == [][\A h \in Handlers : Stuck(h) => Stuck(h)']_serveVars

\* The connections waiting at h: those in the channel and, behind them, the one
\* in the accept goroutine's hand.
WaitingLine(h) ==
  IF held[h] = NoConn THEN acceptChan[h] ELSE Append(acceptChan[h], held[h])

\* Serve implements Handoff: sessions begin in the order of acceptance, at most
\* one per connection and none after the Serve loop has been left, and at most
\* ChanCap + 1 accepted connections wait.
HandoffView == INSTANCE Handoff WITH
  Capacity <- ChanCap + 1,
  line <- [h \in Handlers |-> WaitingLine(h)],
  begun <- sessions,
  stopped <- {h \in Handlers : servePc[h] \notin {"off", "spawned", "select"}}

HandsOffInOrder == HandoffView!Spec

\* While the handler serves, every client that connects gets a session, unless
\* an error of Accept has ended the accept goroutine for good.
EveryConnServed ==
  \A h \in Handlers : \A c \in Conns :
    c \in backlog[h] ~> \/ c \in sessions[h]
                       \/ ctxDone
                       \/ acceptPc[h] = "ended"

\* After cancel() every Serve calls wg.Done, or is stuck as defined above: that
\* is the only way in which a shutdown can hang, and SMTP cannot hang at all.
ShutdownEndsOrSticks ==
  \A h \in Handlers :
    ctxDone /\ servePc[h] # "off" ~>
      servePc[h] = "returned" \/ (h \in AcceptAwaiters /\ Stuck(h))

\* What the code says of its own return statement, "triggers defer and also
\* ends go routine above" (ssh.go:347, ldap.go:137).
ReturnEndsAcceptGoroutine ==
  \A h \in AcceptAwaiters : servePc[h] = "close" ~> acceptPc[h] = "ended"

=============================================================================
