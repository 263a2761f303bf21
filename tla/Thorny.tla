------------------------------- MODULE Thorny -------------------------------
(***************************************************************************)
(* The process: main.go and handler/handler.go around the Serve goroutines *)
(* of module Serve.  main loads the configuration, writes the TLS          *)
(* certificate, activates the filters, binds and activates one handler per *)
(* configured port, starts every Serve, and only then subscribes to        *)
(* SIGINT and SIGTERM.  The first signal cancels the context, and main     *)
(* waits on a WaitGroup that counts the Serve goroutines (not the          *)
(* handleConn goroutines) before it returns and ends the process.          *)
(***************************************************************************)
EXTENDS Serve

CONSTANT Fallible  \* handlers whose sessions can panic (unchecked type assertions)

ASSUME FallibleAssumption == Fallible \subseteq Handlers

ASSUME FinitelyManyHandlers == IsFiniteSet(Handlers)

VARIABLES
  mainPc,    \* where the main goroutine is
  todo,      \* the handlers main still has to treat in its current loop
  active,    \* HandlerRegistry.active: the handlers activated on their port
  wg,        \* the counter of the WaitGroup
  termChan,  \* signals buffered in termChan, a channel of capacity one
  recorded,  \* the connections whose session-end record has been logged
  exit       \* how the process ended, "none" while it runs

mainVars == <<mainPc, todo, active, wg, termChan, recorded, exit>>
vars == <<serveVars, mainVars>>

Starting == {"config", "cert", "filters", "listen", "activate", "serveAll"}
MainPcs == Starting \cup {"await", "cancel", "wait", "exited"}
Exits == {"none", "configError", "listenError", "panic", "killed", "clean"}

TypeOK ==
  /\ ServeTypeOK
  /\ mainPc \in MainPcs
  /\ todo \subseteq Handlers
  /\ active \subseteq Handlers
  /\ wg \in Nat
  /\ termChan \in {0, 1}
  /\ recorded \subseteq Conns
  /\ exit \in Exits

Sessions == UNION {sessions[h] : h \in Handlers}

Init ==
  /\ ctxDone = FALSE
  /\ listening = [h \in Handlers |-> FALSE]
  /\ backlog = [h \in Handlers |-> {}]
  /\ acceptPc = [h \in Handlers |-> "off"]
  /\ held = [h \in Handlers |-> NoConn]
  /\ acceptChan = [h \in Handlers |-> <<>>]
  /\ servePc = [h \in Handlers |-> "off"]
  /\ sessions = [h \in Handlers |-> {}]
  /\ mainPc = "config"
  /\ todo = {}
  /\ active = {}
  /\ wg = 0
  /\ termChan = 0
  /\ recorded = {}
  /\ exit = "none"

\* The process ends: every goroutine stops where it is.
Exit(how) ==
  /\ mainPc' = "exited"
  /\ exit' = how
  /\ UNCHANGED <<serveVars, todo, active, wg, termChan, recorded>>

Goto(pc) == mainPc' = pc

-----------------------------------------------------------------------------
(* Startup.                                                                *)

\* NewConfig: an unreadable file or bad YAML makes main print and return.
LoadConfig ==
  /\ mainPc = "config"
  /\ \/ /\ Goto("cert")
        /\ UNCHANGED <<serveVars, todo, active, wg, termChan, recorded, exit>>
     \/ Exit("configError")

\* NewTlsUserConfig and GenerateSelfSignedCert.  The error of the first is
\* dropped and its nil result dereferenced; that of the second is panicked.
WriteCert ==
  /\ mainPc = "cert"
  /\ \/ /\ Goto("filters")
        /\ UNCHANGED <<serveVars, todo, active, wg, termChan, recorded, exit>>
     \/ Exit("panic")

\* A filter's error is ignored; an unknown filter name is a nil plugin.
ActivateFilters ==
  /\ mainPc = "filters"
  /\ \/ /\ Goto("listen")
        /\ todo' = Handlers
        /\ UNCHANGED <<serveVars, active, wg, termChan, recorded, exit>>
     \/ Exit("panic")

\* net.Listen on the port of h; failing to bind ends the process.  From here
\* on the kernel completes the connections of clients.
Listen(h) ==
  /\ mainPc = "listen"
  /\ h \in todo
  /\ \/ /\ Goto("activate")
        /\ listening' = [listening EXCEPT ![h] = TRUE]
        /\ UNCHANGED <<ctxDone, backlog, acceptVars, acceptChan, servePc, sessions,
                       todo, active, wg, termChan, recorded, exit>>
     \/ Exit("listenError")

\* HandlerRegistry.Activate on the port just bound: an unknown handler name is
\* a nil plugin, and an error of plugin.New is panicked.
Activate(h) ==
  /\ mainPc = "activate"
  /\ h \in todo
  /\ listening[h]
  /\ \/ /\ Goto("listen")
        /\ active' = active \cup {h}
        /\ todo' = todo \ {h}
        /\ UNCHANGED <<serveVars, wg, termChan, recorded, exit>>
     \/ Exit("panic")

\* Variant with a bug: the handlers are started after the first one is active.
SomeBound == active # {}

AllBound == todo = {}

\* The context is made and ServeAll begins to range over the active handlers.
BeginServeAll ==
  /\ mainPc = "listen"
  /\ AllBound
  /\ Goto("serveAll")
  /\ todo' = active
  /\ UNCHANGED <<serveVars, active, wg, termChan, recorded, exit>>

\* Variant with a bug: wg.Add(1) is forgotten before go h.Serve.
ServeAllUncounted(h) ==
  /\ mainPc = "serveAll"
  /\ h \in todo
  /\ todo' = todo \ {h}
  /\ servePc' = [servePc EXCEPT ![h] = "spawned"]
  /\ UNCHANGED <<ctxDone, listening, backlog, acceptVars, acceptChan, sessions,
                 mainPc, active, wg, termChan, recorded, exit>>

\* One round of ServeAll: wg.Add(1); go h.Serve(ctx, wg).
ServeAll(h) ==
  /\ mainPc = "serveAll"
  /\ h \in todo
  /\ todo' = todo \ {h}
  /\ wg' = wg + 1
  /\ servePc' = [servePc EXCEPT ![h] = "spawned"]
  /\ UNCHANGED <<ctxDone, listening, backlog, acceptVars, acceptChan, sessions,
                 mainPc, active, termChan, recorded, exit>>

\* signal.Notify(termChan, SIGINT, SIGTERM).
Notify ==
  /\ mainPc = "serveAll"
  /\ todo = {}
  /\ Goto("await")
  /\ UNCHANGED <<serveVars, todo, active, wg, termChan, recorded, exit>>

-----------------------------------------------------------------------------
(* Shutdown.                                                               *)

\* The operator sends SIGINT or SIGTERM.  Before Notify the default action
\* kills the process; afterwards the signal is buffered, or dropped when one
\* is buffered already.
Signal ==
  /\ mainPc # "exited"
  /\ IF mainPc \in Starting
     THEN Exit("killed")
     ELSE /\ termChan' = 1
          /\ UNCHANGED <<serveVars, mainPc, todo, active, wg, recorded, exit>>

\* <-termChan.
ReceiveSignal ==
  /\ mainPc = "await"
  /\ termChan = 1
  /\ termChan' = 0
  /\ Goto("cancel")
  /\ UNCHANGED <<serveVars, todo, active, wg, recorded, exit>>

MainCancel ==
  /\ mainPc = "cancel"
  /\ Cancel
  /\ Goto("wait")
  /\ UNCHANGED <<todo, active, wg, termChan, recorded, exit>>

\* Variant with a bug: main does not wait for the workers.
WorkersNotAwaited == mainPc = "wait"

WorkersDone == wg = 0

\* wg.Wait() returns, main returns, and the process ends with it.
AwaitWorkers ==
  /\ mainPc = "wait"
  /\ WorkersDone
  /\ Exit("clean")

-----------------------------------------------------------------------------
(* The handlers, while the process runs.                                   *)

Running == mainPc # "exited"

\* Every step of a Serve goroutine but its last leaves the WaitGroup alone.
ServeWorks(h) ==
  /\ \/ StartServe(h)
     \/ ServeConn(h)
     \/ ServeCancelled(h)
     \/ CloseListener(h)
     \/ AwaitAccept(h)
  /\ UNCHANGED mainVars

\* Variant with a bug: Serve returns without wg.Done(), as that of the HTTP
\* handler does, which is not registered (handler/http.go).
ServeReturnsUncounted(h) ==
  /\ Release(h)
  /\ UNCHANGED mainVars

\* The deferred wg.Done() of Serve.
ServeReturns(h) ==
  /\ Release(h)
  /\ wg' = wg - 1
  /\ UNCHANGED <<mainPc, todo, active, termChan, recorded, exit>>

HandlerStep(h) ==
  /\ Running
  /\ \/ ServeWorks(h)
     \/ ServeReturns(h)
     \/ (AcceptGoroutine(h) \/ AcceptFails(h)) /\ UNCHANGED mainVars

ClientArrives(h, c) == Running /\ Arrive(h, c) /\ UNCHANGED mainVars

\* handleConn returns and its deferred function logs the session-end record.
SessionEnds(c) ==
  /\ Running
  /\ c \in Sessions \ recorded
  /\ recorded' = recorded \cup {c}
  /\ UNCHANGED <<serveVars, mainPc, todo, active, wg, termChan, exit>>

\* A panic in a handleConn goroutine is recovered nowhere: it ends the process.
SessionPanics(h) ==
  /\ Running
  /\ h \in Fallible
  /\ sessions[h] \ recorded # {}
  /\ Exit("panic")

-----------------------------------------------------------------------------
Main ==
  \/ LoadConfig
  \/ WriteCert
  \/ ActivateFilters
  \/ BeginServeAll
  \/ Notify
  \/ ReceiveSignal
  \/ MainCancel
  \/ AwaitWorkers
  \/ \E h \in Handlers : Listen(h) \/ Activate(h) \/ ServeAll(h)

Next ==
  \/ Main
  \/ Signal
  \/ \E h \in Handlers : HandlerStep(h) \/ SessionPanics(h)
  \/ \E h \in Handlers, c \in Conns : ClientArrives(h, c)
  \/ \E c \in Conns : SessionEnds(c)

Spec == Init /\ [][Next]_vars

\* Goroutines that can run do run, as in Serve; main is one of them.  Neither
\* signals, clients, socket errors nor the ends of sessions are fair.
Fairness ==
  /\ WF_vars(Main)
  /\ \A h \in Handlers :
       /\ WF_vars(Running /\ AcceptGoroutine(h) /\ UNCHANGED mainVars)
       /\ WF_vars(Running /\ StartServe(h) /\ UNCHANGED mainVars)
       /\ WF_vars(Running /\ ServeCancelled(h) /\ UNCHANGED mainVars)
       /\ WF_vars(Running /\ CloseListener(h) /\ UNCHANGED mainVars)
       /\ WF_vars(Running /\ AwaitAccept(h) /\ UNCHANGED mainVars)
       /\ WF_vars(Running /\ ServeReturns(h))

FairSpec == Spec /\ Fairness

-----------------------------------------------------------------------------
(* Properties.                                                             *)

\* The WaitGroup counts exactly the Serve goroutines that were started and
\* have not called wg.Done: it never goes negative (a panic in Go) and is zero
\* only when none is left.
WaitGroupCounts ==
  wg = Cardinality({h \in Handlers : servePc[h] \notin {"off", "returned"}})

\* Startup is all or nothing: a client gets a session only if every configured
\* port was bound and its handler activated before.
AllOrNothing == Sessions # {} => active = Handlers

\* When main prints "All handlers done, shutting down!" (main.go:116), every
\* handler has returned from Serve and closed its port, and no accept goroutine
\* of a handler with an acceptWg is left.
CleanExitIsOrderly ==
  exit = "clean" => \A h \in Handlers :
    /\ servePc[h] = "returned"
    /\ ~listening[h]
    /\ h \in AcceptAwaiters => acceptPc[h] = "ended"

\* While one handler is stuck, main stays in wg.Wait() whatever else happens:
\* no further SIGINT or SIGTERM ends the process (they fill termChan, which
\* nobody reads), only a panicking session does.
StuckPinsProcess ==
  [][mainPc = "wait" /\ (\E h \in Handlers : Stuck(h)) =>
       mainPc' = "wait" \/ exit' = "panic"]_vars

\* A signal that arrives once main awaits it ends the process, unless a
\* handler sticks in its shutdown.
SignalEndsProcess ==
  mainPc = "await" /\ termChan = 1 ~>
    mainPc = "exited" \/ \E h \in AcceptAwaiters : Stuck(h)

\* What main.go:114 says of wg.Wait(), "Block here until are workers are done":
\* a clean exit cuts no session off before its record is logged.
CleanExitKeepsRecords == exit = "clean" => Sessions \subseteq recorded

=============================================================================
