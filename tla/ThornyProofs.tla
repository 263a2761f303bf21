---------------------------- MODULE ThornyProofs ----------------------------
(***************************************************************************)
(* Proofs about module Thorny, for any finite set of handlers.             *)
(***************************************************************************)
EXTENDS Thorny, ServeProofs, FiniteSetTheorems

\* The Serve goroutines that have been started and have not called wg.Done.
Live == {h \in Handlers : servePc[h] \notin {"off", "returned"}}

\* How far startup has come, seen from the stage of main: nothing is served
\* before every handler is active, and main starts each handler once.
StartupOrder ==
  /\ mainPc \in {"config", "cert", "filters"} => active = {}
  /\ mainPc \in {"listen", "activate"} => active \cup todo = Handlers
  /\ mainPc \in Starting \ {"serveAll"} => \A h \in Handlers : servePc[h] = "off"
  /\ mainPc = "serveAll" => todo = {h \in Handlers : servePc[h] = "off"}
  /\ mainPc \in {"await", "cancel", "wait"} => \A h \in Handlers : servePc[h] # "off"
  /\ mainPc \in {"serveAll", "await", "cancel", "wait"} => active = Handlers
  /\ \A h \in Handlers : servePc[h] # "off" => active = Handlers
  /\ \A h \in Handlers : sessions[h] # {} => servePc[h] # "off"

\* How the process has ended, if it has.
ExitOrder ==
  /\ exit # "none" <=> mainPc = "exited"
  /\ exit = "clean" => wg = 0 /\ \A h \in Handlers : servePc[h] # "off"

ThornyInv ==
  TypeOK /\ QuietInv /\ wg = Cardinality(Live) /\ StartupOrder /\ ExitOrder

-----------------------------------------------------------------------------
LEMMA ThornyInit == Init => ThornyInv
<1> SUFFICES ASSUME Init PROVE ThornyInv
  OBVIOUS
<1> USE DEF Init
<1>1. ServeTypeOK
  <2>1. <<>> \in Seq(Conns)
    OBVIOUS
  <2>2. /\ ctxDone \in BOOLEAN
        /\ listening \in [Handlers -> BOOLEAN]
        /\ backlog \in [Handlers -> SUBSET Conns]
        /\ acceptPc \in [Handlers -> AcceptPcs]
    BY DEF AcceptPcs
  <2>3. /\ held \in [Handlers -> Conns \cup {NoConn}]
        /\ servePc \in [Handlers -> ServePcs]
        /\ sessions \in [Handlers -> SUBSET Conns]
    BY DEF ServePcs
  <2>4. acceptChan \in [Handlers -> Seq(Conns)]
    BY <2>1
  <2> QED BY <2>2, <2>3, <2>4 DEF ServeTypeOK
<1>2. QuietInv
  BY <1>1 DEF QuietInv, HeldWhenSending, StagesAgree, DoneMeansQuiet
<1>3. TypeOK
  BY <1>1 DEF TypeOK, MainPcs, Starting, Exits
<1>4. wg = Cardinality(Live)
  <2>1. Live = {}
    BY DEF Live
  <2> QED BY <2>1, FS_EmptySet
<1>5. StartupOrder /\ ExitOrder
  BY DEF StartupOrder, ExitOrder, Starting
<1> QED BY <1>2, <1>3, <1>4, <1>5 DEF ThornyInv

\* Every step of the handlers is one of module Serve; main takes two others.
LEMMA WhoMoves ==
  ASSUME [Next]_vars
  PROVE  \/ [ServeNext]_serveVars
         \/ \E h \in Handlers : Listen(h) \/ ServeAll(h)
<1>1. ASSUME NEW h \in Handlers, HandlerStep(h) PROVE ServeNext
  BY <1>1 DEF HandlerStep, ServeWorks, ServeReturns, ServeNext, ServeGoroutine
<1>2. ASSUME NEW h \in Handlers, NEW c \in Conns, ClientArrives(h, c) PROVE ServeNext
  BY <1>2 DEF ClientArrives, ServeNext
<1>3. ASSUME MainCancel PROVE ServeNext
  BY <1>3 DEF MainCancel, ServeNext
<1>4. ASSUME LoadConfig \/ WriteCert \/ ActivateFilters \/ BeginServeAll \/ Notify
             \/ ReceiveSignal \/ AwaitWorkers
      PROVE  UNCHANGED serveVars
  BY <1>4 DEF LoadConfig, WriteCert, ActivateFilters, BeginServeAll, Notify,
              ReceiveSignal, AwaitWorkers, Exit
<1>5. ASSUME NEW h \in Handlers, Activate(h) \/ SessionPanics(h) PROVE UNCHANGED serveVars
  BY <1>5 DEF Activate, SessionPanics, Exit
<1>6. ASSUME Signal PROVE UNCHANGED serveVars
  BY <1>6 DEF Signal, Exit
<1>7. ASSUME NEW c \in Conns, SessionEnds(c) PROVE UNCHANGED serveVars
  BY <1>7 DEF SessionEnds
<1>8. ASSUME UNCHANGED vars PROVE UNCHANGED serveVars
  BY <1>8 DEF vars
<1> QED BY <1>1, <1>2, <1>3, <1>4, <1>5, <1>6, <1>7, <1>8 DEF Next, Main

LEMMA ThornyQuietStep ==
  ASSUME ThornyInv, [Next]_vars
  PROVE  QuietInv'
<1>1. CASE [ServeNext]_serveVars
  BY <1>1, QuietStep DEF ThornyInv
<1>2. ASSUME NEW h \in Handlers, Listen(h) PROVE QuietInv'
  <2>1. CASE UNCHANGED serveVars
    BY <2>1, QuietStep DEF ThornyInv
  <2>2. CASE /\ listening' = [listening EXCEPT ![h] = TRUE]
             /\ UNCHANGED <<ctxDone, backlog, acceptVars, acceptChan, servePc, sessions>>
    <3>1. servePc[h] = "off" /\ \A g \in Handlers : servePc[g] = "off"
      BY <1>2 DEF Listen, ThornyInv, StartupOrder, Starting
    <3>2. ServeTypeOK'
      BY <2>2 DEF ThornyInv, QuietInv, ServeTypeOK, acceptVars
    <3> QED BY <2>2, <3>1, <3>2
            DEF ThornyInv, QuietInv, HeldWhenSending, StagesAgree, DoneMeansQuiet, acceptVars
  <2> QED BY <1>2, <2>1, <2>2 DEF Listen, Exit
<1>3. ASSUME NEW h \in Handlers, ServeAll(h) PROVE QuietInv'
  <2>1. /\ servePc' = [servePc EXCEPT ![h] = "spawned"]
        /\ UNCHANGED <<ctxDone, listening, backlog, acceptVars, acceptChan, sessions>>
        /\ servePc[h] = "off"
    BY <1>3 DEF ServeAll, ThornyInv, StartupOrder
  <2>2. ServeTypeOK'
    BY <2>1 DEF ThornyInv, QuietInv, ServeTypeOK, ServePcs, acceptVars
  <2> QED BY <2>1, <2>2 DEF ThornyInv, QuietInv, ServeTypeOK, HeldWhenSending, StagesAgree,
                            DoneMeansQuiet, acceptVars
<1> QED BY <1>1, <1>2, <1>3, WhoMoves

\* What a step does to the stages of the Serve goroutines, and to wg.
LEMMA WgStep ==
  ASSUME ThornyInv, [Next]_vars
  PROVE  wg' \in Nat /\ wg' = Cardinality(Live')
<1>0. /\ IsFiniteSet(Live) /\ wg = Cardinality(Live) /\ wg \in Nat
      /\ servePc \in [Handlers -> ServePcs]
  <2>1. Live \subseteq Handlers
    BY DEF Live
  <2> QED BY <2>1, FinitelyManyHandlers, FS_Subset DEF ThornyInv, TypeOK, ServeTypeOK
<1>1. CASE UNCHANGED <<wg, Live>>
  BY <1>0, <1>1
<1>2. ASSUME NEW h \in Handlers, ServeAll(h) PROVE wg' \in Nat /\ wg' = Cardinality(Live')
  <2>1. servePc[h] = "off" /\ servePc' = [servePc EXCEPT ![h] = "spawned"] /\ wg' = wg + 1
    BY <1>2 DEF ServeAll, ThornyInv, StartupOrder
  <2>2. Live' = Live \cup {h} /\ h \notin Live
    BY <1>0, <2>1 DEF Live
  <2>3. Cardinality(Live') = Cardinality(Live) + 1
    BY <1>0, <2>2, FS_AddElement
  <2> QED BY <1>0, <2>1, <2>3
<1>3. ASSUME NEW h \in Handlers, ServeReturns(h) PROVE wg' \in Nat /\ wg' = Cardinality(Live')
  <2>1. servePc[h] = "release" /\ servePc' = [servePc EXCEPT ![h] = "returned"] /\ wg' = wg - 1
    BY <1>3 DEF ServeReturns, Release
  <2>2. Live' = Live \ {h} /\ h \in Live
    BY <1>0, <2>1 DEF Live
  <2>3. Cardinality(Live') = Cardinality(Live) - 1 /\ IsFiniteSet(Live')
    BY <1>0, <2>2, FS_RemoveElement
  <2>4. Cardinality(Live') \in Nat
    BY <2>3, FS_CardinalityType
  <2> QED BY <1>0, <2>1, <2>3, <2>4
<1>4. ASSUME NEW h \in Handlers, ServeWorks(h) PROVE UNCHANGED <<wg, Live>>
  <2>1. wg' = wg
    BY <1>4 DEF ServeWorks, mainVars
  <2>2. \/ servePc' = servePc
        \/ /\ servePc[h] \in {"spawned", "select", "close", "wait"}
           /\ \E pc \in {"select", "close", "wait", "release"} :
                servePc' = [servePc EXCEPT ![h] = pc]
    BY <1>4 DEF ServeWorks, StartServe, ServeConn, ServeCancelled, CloseListener, AwaitAccept
  <2>3. Live' = Live
    BY <1>0, <2>2 DEF Live
  <2> QED BY <2>1, <2>3
<1>5. ASSUME NEW h \in Handlers,
             (AcceptGoroutine(h) \/ AcceptFails(h)) /\ UNCHANGED mainVars
      PROVE  UNCHANGED <<wg, Live>>
  BY <1>5 DEF AcceptGoroutine, Accept, AcceptClosed, Send, AcceptFails, mainVars, Live
<1>6. ASSUME NEW h \in Handlers, NEW c \in Conns, ClientArrives(h, c) PROVE UNCHANGED <<wg, Live>>
  BY <1>6 DEF ClientArrives, Arrive, mainVars, Live
<1>7. ASSUME LoadConfig \/ WriteCert \/ ActivateFilters \/ BeginServeAll \/ Notify
             \/ ReceiveSignal \/ MainCancel \/ AwaitWorkers
      PROVE  UNCHANGED <<wg, Live>>
  BY <1>7 DEF LoadConfig, WriteCert, ActivateFilters, BeginServeAll, Notify, ReceiveSignal,
              MainCancel, Cancel, AwaitWorkers, Exit, serveVars, Live
<1>8. ASSUME NEW h \in Handlers, Listen(h) \/ Activate(h) \/ SessionPanics(h)
      PROVE  UNCHANGED <<wg, Live>>
  BY <1>8 DEF Listen, Activate, SessionPanics, Exit, serveVars, Live
<1>9. ASSUME Signal \/ (\E c \in Conns : SessionEnds(c)) \/ UNCHANGED vars
      PROVE  UNCHANGED <<wg, Live>>
  BY <1>9 DEF Signal, SessionEnds, Exit, vars, mainVars, serveVars, Live
<1> QED BY <1>1, <1>2, <1>3, <1>4, <1>5, <1>6, <1>7, <1>8, <1>9 DEF Next, Main, HandlerStep

\* A Serve goroutine, once started, is never unstarted, and main starts it; a
\* session begins only at a started one.
LEMMA HandlersMove ==
  ASSUME ThornyInv, NEW h \in Handlers,
         HandlerStep(h) \/ (\E c \in Conns : ClientArrives(h, c))
  PROVE  /\ UNCHANGED <<mainPc, todo, active, termChan, recorded, exit>>
         /\ mainPc # "exited"
         /\ \A g \in Handlers : servePc'[g] = "off" <=> servePc[g] = "off"
         /\ \A g \in Handlers : sessions'[g] # {} => servePc[g] # "off"
<1>0. /\ servePc \in [Handlers -> ServePcs] /\ sessions \in [Handlers -> SUBSET Conns]
      /\ \A g \in Handlers : sessions[g] # {} => servePc[g] # "off"
  BY DEF ThornyInv, TypeOK, ServeTypeOK, StartupOrder
<1>1. CASE ServeReturns(h) /\ Running
  BY <1>0, <1>1 DEF ServeReturns, Release, Running
<1>2. CASE StartServe(h) /\ UNCHANGED mainVars /\ Running
  BY <1>0, <1>2 DEF StartServe, mainVars, Running
<1>3. CASE ServeConn(h) /\ UNCHANGED mainVars /\ Running
  BY <1>0, <1>3 DEF ServeConn, mainVars, Running
<1>4. CASE ServeCancelled(h) /\ UNCHANGED mainVars /\ Running
  BY <1>0, <1>4 DEF ServeCancelled, mainVars, Running
<1>5. CASE CloseListener(h) /\ UNCHANGED mainVars /\ Running
  BY <1>0, <1>5 DEF CloseListener, mainVars, Running
<1>6. CASE AwaitAccept(h) /\ UNCHANGED mainVars /\ Running
  BY <1>0, <1>6 DEF AwaitAccept, mainVars, Running
<1>7. CASE (AcceptGoroutine(h) \/ AcceptFails(h)) /\ UNCHANGED mainVars /\ Running
  BY <1>0, <1>7 DEF AcceptGoroutine, Accept, AcceptClosed, Send, AcceptFails, mainVars, Running
<1>8. ASSUME NEW c \in Conns, ClientArrives(h, c)
      PROVE  /\ UNCHANGED <<mainPc, todo, active, termChan, recorded, exit>>
             /\ mainPc # "exited"
             /\ UNCHANGED <<servePc, sessions>>
  BY <1>8 DEF ClientArrives, Arrive, mainVars, Running
<1> QED BY <1>0, <1>1, <1>2, <1>3, <1>4, <1>5, <1>6, <1>7, <1>8 DEF HandlerStep, ServeWorks

LEMMA OrderStep ==
  ASSUME ThornyInv, [Next]_vars
  PROVE  StartupOrder' /\ ExitOrder'
<1>0. /\ StartupOrder /\ ExitOrder /\ wg \in Nat
      /\ servePc \in [Handlers -> ServePcs]
      /\ todo \subseteq Handlers /\ active \subseteq Handlers
      /\ mainPc \in MainPcs
  BY DEF ThornyInv, TypeOK, ServeTypeOK
<1> USE DEF StartupOrder, ExitOrder, Starting, MainPcs
<1>1. ASSUME NEW h \in Handlers,
             HandlerStep(h) \/ (\E c \in Conns : ClientArrives(h, c))
      PROVE  StartupOrder' /\ ExitOrder'
  <2>1. StartupOrder'
    BY <1>0, <1>1, HandlersMove
  <2>2. ExitOrder'
    BY <1>0, <1>1, HandlersMove
  <2> QED BY <2>1, <2>2
<1>2. ASSUME NEW how \in Exits \ {"none", "clean"}, Exit(how)
      PROVE  StartupOrder' /\ ExitOrder'
  BY <1>0, <1>2 DEF Exit, serveVars
<1>3. CASE LoadConfig
  BY <1>0, <1>2, <1>3 DEF LoadConfig, Goto, serveVars, Exits
<1>4. CASE WriteCert
  BY <1>0, <1>2, <1>4 DEF WriteCert, Goto, serveVars, Exits
<1>5. CASE ActivateFilters
  BY <1>0, <1>2, <1>5 DEF ActivateFilters, Goto, serveVars, Exits
<1>6. ASSUME NEW h \in Handlers, Listen(h) PROVE StartupOrder' /\ ExitOrder'
  BY <1>0, <1>2, <1>6 DEF Listen, Goto, Exits
<1>7. ASSUME NEW h \in Handlers, Activate(h) PROVE StartupOrder' /\ ExitOrder'
  BY <1>0, <1>2, <1>7 DEF Activate, Goto, serveVars, Exits
<1>8. CASE BeginServeAll
  BY <1>0, <1>8 DEF BeginServeAll, AllBound, Goto, serveVars
<1>9. ASSUME NEW h \in Handlers, ServeAll(h) PROVE StartupOrder' /\ ExitOrder'
  <2>1. /\ mainPc = "serveAll" /\ h \in todo /\ todo' = todo \ {h}
        /\ servePc'[h] = "spawned"
        /\ \A g \in Handlers \ {h} : servePc'[g] = servePc[g]
        /\ UNCHANGED <<mainPc, active, sessions, exit>>
    BY <1>0, <1>9 DEF ServeAll
  <2>2. exit = "none"
    BY <1>0, <2>1
  <2>3. StartupOrder'
    BY <1>0, <2>1
  <2> QED BY <1>0, <2>1, <2>2, <2>3
<1>10. CASE Notify
  BY <1>0, <1>10 DEF Notify, Goto, serveVars
<1>11. CASE Signal
  BY <1>0, <1>2, <1>11 DEF Signal, serveVars, Exits
<1>12. CASE ReceiveSignal
  BY <1>0, <1>12 DEF ReceiveSignal, Goto, serveVars
<1>13. CASE MainCancel
  BY <1>0, <1>13 DEF MainCancel, Cancel, Goto
<1>14. CASE AwaitWorkers
  BY <1>0, <1>14 DEF AwaitWorkers, WorkersDone, Exit, serveVars
<1>15. ASSUME NEW h \in Handlers, SessionPanics(h) PROVE StartupOrder' /\ ExitOrder'
  BY <1>0, <1>2, <1>15 DEF SessionPanics, Exits
<1>16. CASE (\E c \in Conns : SessionEnds(c)) \/ UNCHANGED vars
  BY <1>0, <1>16 DEF SessionEnds, vars, mainVars, serveVars
<1> QED BY <1>1, <1>3, <1>4, <1>5, <1>6, <1>7, <1>8, <1>9, <1>10, <1>11, <1>12, <1>13,
           <1>14, <1>15, <1>16 DEF Next, Main

LEMMA ThornyTypeStep ==
  ASSUME ThornyInv, [Next]_vars
  PROVE  TypeOK'
<1>0. TypeOK /\ ServeTypeOK' /\ wg' \in Nat
  BY ThornyQuietStep, WgStep DEF ThornyInv, QuietInv
<1> DEFINE MainTypeOK ==
             /\ mainPc \in MainPcs /\ todo \subseteq Handlers /\ active \subseteq Handlers
             /\ termChan \in {0, 1} /\ recorded \subseteq Conns /\ exit \in Exits
<1>1. MainTypeOK'
  <2> USE <1>0 DEF TypeOK, MainPcs, Starting, Exits
  <2>1. ASSUME NEW h \in Handlers,
               HandlerStep(h) \/ (\E c \in Conns : ClientArrives(h, c))
        PROVE  UNCHANGED <<mainPc, todo, active, termChan, recorded, exit>>
    BY <2>1, HandlersMove
  <2>2. CASE LoadConfig \/ WriteCert \/ ActivateFilters
    BY <2>2 DEF LoadConfig, WriteCert, ActivateFilters, Goto, Exit
  <2>3. ASSUME NEW h \in Handlers, Listen(h) \/ Activate(h) \/ ServeAll(h)
        PROVE  MainTypeOK'
    BY <2>3 DEF Listen, Activate, ServeAll, Goto, Exit
  <2>4. CASE BeginServeAll \/ Notify \/ ReceiveSignal \/ MainCancel \/ AwaitWorkers
    BY <2>4 DEF BeginServeAll, Notify, ReceiveSignal, MainCancel, AwaitWorkers, Goto, Exit
  <2>5. CASE Signal
    BY <2>5 DEF Signal, Exit
  <2>6. ASSUME NEW h \in Handlers, SessionPanics(h) PROVE MainTypeOK'
    BY <2>6 DEF SessionPanics, Exit
  <2>7. ASSUME NEW c \in Conns, SessionEnds(c) PROVE MainTypeOK'
    BY <2>7 DEF SessionEnds
  <2>8. CASE UNCHANGED vars
    BY <2>8 DEF vars, mainVars
  <2> QED BY <2>1, <2>2, <2>3, <2>4, <2>5, <2>6, <2>7, <2>8 DEF Next, Main
<1> QED BY <1>0, <1>1 DEF TypeOK

LEMMA ThornyAlways == Spec => []ThornyInv
<1>1. ThornyInv /\ [Next]_vars => ThornyInv'
  BY ThornyQuietStep, WgStep, OrderStep, ThornyTypeStep DEF ThornyInv
<1> QED BY <1>1, ThornyInit, PTL DEF Spec

-----------------------------------------------------------------------------
\* The process keeps its types; wg in particular never goes negative, which
\* would be a panic in Go.
THEOREM ProcessTypeCorrect == Spec => []TypeOK
<1>1. ThornyInv => TypeOK
  BY DEF ThornyInv
<1> QED BY <1>1, ThornyAlways, PTL

\* The WaitGroup of main.go counts exactly the Serve goroutines that run.
THEOREM WaitGroupIsExact == Spec => []WaitGroupCounts
<1>1. ThornyInv => WaitGroupCounts
  BY DEF ThornyInv, WaitGroupCounts, Live
<1> QED BY <1>1, ThornyAlways, PTL

\* No client gets a session before every configured port is bound and active.
THEOREM StartupIsAllOrNothing == Spec => []AllOrNothing
<1>1. ThornyInv => AllOrNothing
  BY DEF ThornyInv, StartupOrder, AllOrNothing, Sessions
<1> QED BY <1>1, ThornyAlways, PTL

\* A process that exits through the end of main has no handler left that runs.
THEOREM CleanExitLeavesNoHandler == Spec => []CleanExitIsOrderly
<1>1. ASSUME ThornyInv PROVE CleanExitIsOrderly
  <2>1. IsFiniteSet(Live)
    <3>1. Live \subseteq Handlers
      BY DEF Live
    <3> QED BY <3>1, FinitelyManyHandlers, FS_Subset
  <2>2. exit = "clean" => Live = {}
    BY <1>1, <2>1, FS_EmptySet DEF ThornyInv, ExitOrder
  <2>3. exit = "clean" => \A h \in Handlers : servePc[h] = "returned"
    BY <1>1, <2>2 DEF ThornyInv, ExitOrder, Live
  <2> QED BY <1>1, <2>3 DEF ThornyInv, QuietInv, DoneMeansQuiet, CleanExitIsOrderly
<1> QED BY <1>1, ThornyAlways, PTL

LEMMA PinnedStep ==
  ASSUME ThornyInv, [Next]_vars, mainPc = "wait", NEW k \in Handlers, Stuck(k)
  PROVE  mainPc' = "wait" \/ exit' = "panic"
<1>1. k \in Live
  BY DEF Stuck, Live
<1>2. wg # 0
  <2>1. Live \subseteq Handlers
    BY DEF Live
  <2>2. IsFiniteSet(Live)
    BY <2>1, FinitelyManyHandlers, FS_Subset
  <2> QED BY <1>1, <2>2, FS_EmptySet DEF ThornyInv
<1>3. ASSUME NEW h \in Handlers,
             HandlerStep(h) \/ (\E c \in Conns : ClientArrives(h, c))
      PROVE  mainPc' = "wait"
  BY <1>3, HandlersMove
<1>4. ~Main
  BY <1>2 DEF Main, LoadConfig, WriteCert, ActivateFilters, BeginServeAll, Notify,
     ReceiveSignal, MainCancel, AwaitWorkers, WorkersDone, Listen, Activate, ServeAll
<1>5. CASE Signal
  BY <1>5 DEF Signal, Starting
<1>6. ASSUME NEW h \in Handlers, SessionPanics(h) PROVE exit' = "panic"
  BY <1>6 DEF SessionPanics, Exit
<1>7. CASE (\E c \in Conns : SessionEnds(c)) \/ UNCHANGED vars
  BY <1>7 DEF SessionEnds, vars, mainVars
<1> QED BY <1>3, <1>4, <1>5, <1>6, <1>7 DEF Next

\* Only a panic ends a process in which a handler is stuck while main waits.
THEOREM StuckHandlerPinsProcess == Spec => StuckPinsProcess
<1>1. ThornyInv /\ [Next]_vars =>
        [mainPc = "wait" /\ (\E h \in Handlers : Stuck(h)) =>
           mainPc' = "wait" \/ exit' = "panic"]_vars
  BY PinnedStep
<1> QED BY <1>1, ThornyAlways, PTL DEF Spec, StuckPinsProcess

-----------------------------------------------------------------------------
(* What module Serve promises of the handlers holds of the whole process:  *)
(* the guarantees do not depend on every handler being bound and started   *)
(* in the first state, as ServeInit has it.                                *)

\* What main does to the handlers leaves every connection where it is.
LEMMA MainMovesNoConn ==
  ASSUME ThornyInv, NEW h \in Handlers, Listen(h) \/ ServeAll(h)
  PROVE  /\ UNCHANGED <<backlog, held, acceptChan, sessions>>
         /\ Stopped' = Stopped
<1>1. CASE Listen(h)
  BY <1>1 DEF Listen, Exit, serveVars, acceptVars, Stopped
<1>2. CASE ServeAll(h)
  <2>1. servePc[h] = "off" /\ servePc \in [Handlers -> ServePcs]
    BY <1>2 DEF ServeAll, ThornyInv, StartupOrder, TypeOK, ServeTypeOK
  <2> QED BY <1>2, <2>1 DEF ServeAll, acceptVars, Stopped
<1> QED BY <1>1, <1>2

HandsOffInv == ThornyInv /\ OnePlace /\ ChanBounded

LEMMA HandsOffInvInit == Init => HandsOffInv
<1>1. Init => OnePlace
  BY DEF Init, OnePlace, Known, Elements
<1>2. Init => ChanBounded
  BY ServeAssumption DEF Init, ChanBounded
<1> QED BY <1>1, <1>2, ThornyInit DEF HandsOffInv

LEMMA HandsOffInvStep == HandsOffInv /\ [Next]_vars => OnePlace' /\ ChanBounded'
<1> SUFFICES ASSUME HandsOffInv, [Next]_vars PROVE OnePlace' /\ ChanBounded'
  OBVIOUS
<1>1. CASE [ServeNext]_serveVars
  BY <1>1, OnePlaceStep, ChanBoundedStep DEF HandsOffInv, ThornyInv
<1>2. ASSUME NEW h \in Handlers, Listen(h) \/ ServeAll(h) PROVE OnePlace' /\ ChanBounded'
  <2>1. UNCHANGED <<backlog, held, acceptChan, sessions>>
    BY <1>2, MainMovesNoConn DEF HandsOffInv
  <2>2. OnePlace'
    BY <2>1 DEF HandsOffInv, OnePlace, Known, Elements
  <2> QED BY <2>1, <2>2 DEF HandsOffInv, ChanBounded
<1> QED BY <1>1, <1>2, WhoMoves

LEMMA HandsOffInvAlways == Spec => []HandsOffInv
<1>1. ThornyInv /\ [Next]_vars => ThornyInv'
  BY ThornyQuietStep, WgStep, OrderStep, ThornyTypeStep DEF ThornyInv
<1>2. HandsOffInv /\ [Next]_vars => HandsOffInv'
  BY <1>1, HandsOffInvStep DEF HandsOffInv
<1> QED BY <1>2, HandsOffInvInit, PTL DEF Spec

\* In the whole process, through startup and shutdown, a connection is never in
\* two hands.
THEOREM ProcessKeepsConnsInOnePlace == Spec => []OnePlace
<1>1. HandsOffInv => OnePlace
  BY DEF HandsOffInv
<1> QED BY <1>1, HandsOffInvAlways, PTL

\* In the whole process a Serve that is done has closed its port and awaited
\* its accept goroutine.
THEOREM ProcessEndsServesQuietly == Spec => []DoneMeansQuiet
<1>1. ThornyInv => DoneMeansQuiet
  BY DEF ThornyInv, QuietInv
<1> QED BY <1>1, ThornyAlways, PTL

\* The process implements Handoff: whatever main does around its handlers,
\* sessions begin in the order of acceptance, once per connection and never
\* after a handler has left its loop.
THEOREM ProcessImplementsHandoff == Spec => HandsOffInOrder
<1>1. Init => HandoffView!Init
  BY DEF Init, HandoffView!Init, WaitingLine
<1>2. HandsOffInv /\ [Next]_vars => [HandoffView!Next]_HandoffView!vars
  <2> SUFFICES ASSUME HandsOffInv, [Next]_vars
               PROVE  [HandoffView!Next]_HandoffView!vars
    OBVIOUS
  <2>1. CASE [ServeNext]_serveVars
    BY <2>1, HandoffStep DEF HandsOffInv, ThornyInv, HandoffInv
  <2>2. ASSUME NEW h \in Handlers, Listen(h) \/ ServeAll(h)
        PROVE  UNCHANGED HandoffView!vars
    <3>1. UNCHANGED <<held, acceptChan, sessions>> /\ Stopped' = Stopped
      BY <2>2, MainMovesNoConn DEF HandsOffInv
    <3> QED BY <3>1, HandoffStutter
  <2> QED BY <2>1, <2>2, WhoMoves
<1> QED BY <1>1, <1>2, HandsOffInvAlways, PTL DEF Spec, HandsOffInOrder, HandoffView!Spec

\* A handler is stuck while main waits for it.
Pinned == mainPc = "wait" /\ \E h \in Handlers : Stuck(h)

\* A hung shutdown is final: from the moment a handler is stuck while main
\* waits, no step of the process undoes either, be it of the operator, of a
\* client or of another handler; only a panic of a session ends the process.
THEOREM HungShutdownIsFinal == Spec => [][Pinned => Pinned' \/ exit' = "panic"]_vars
<1>1. ASSUME ThornyInv, [Next]_vars, mainPc = "wait", NEW k \in Handlers, Stuck(k)
      PROVE  Stuck(k)'
  <2>1. CASE [ServeNext]_serveVars
    BY <1>1, <2>1, StuckStep DEF ThornyInv, TypeOK
  <2>2. ASSUME NEW h \in Handlers, Listen(h) \/ ServeAll(h) PROVE FALSE
    BY <1>1, <2>2 DEF Listen, ServeAll
  <2> QED BY <1>1, <2>1, <2>2, WhoMoves
<1>2. ThornyInv /\ [Next]_vars => [Pinned => Pinned' \/ exit' = "panic"]_vars
  BY <1>1, PinnedStep DEF Pinned
<1> QED BY <1>2, ThornyAlways, PTL DEF Spec

-----------------------------------------------------------------------------
(* The safety core of SignalEndsProcess.                                   *)

\* main waits for its workers with the context cancelled, and they wait, if they
\* do, for an accept goroutine.
WaitOrder == AwaitersWait /\ (mainPc = "wait" => ctxDone)

LEMMA WaitOrderAlways == Spec => []WaitOrder
<1>1. Init => WaitOrder
  BY DEF Init, WaitOrder, AwaitersWait
<1>2. ASSUME ThornyInv, WaitOrder, [Next]_vars PROVE AwaitersWait'
  <2>1. CASE [ServeNext]_serveVars
    BY <1>2, <2>1, AwaitersWaitStep DEF ThornyInv, TypeOK, WaitOrder
  <2>2. ASSUME NEW h \in Handlers, Listen(h) \/ ServeAll(h) PROVE AwaitersWait'
    BY <1>2, <2>2 DEF Listen, ServeAll, Exit, serveVars, WaitOrder, AwaitersWait,
                      ThornyInv, TypeOK, ServeTypeOK
  <2> QED BY <1>2, <2>1, <2>2, WhoMoves
<1>3. ASSUME ThornyInv, WaitOrder, [Next]_vars PROVE (mainPc = "wait" => ctxDone)'
  <2>0. mainPc = "wait" => ctxDone
    BY <1>3 DEF WaitOrder
  <2>1. ASSUME NEW h \in Handlers, HandlerStep(h) \/ (\E c \in Conns : ClientArrives(h, c))
        PROVE  ctxDone' = ctxDone /\ mainPc' = mainPc
    <3>1. mainPc' = mainPc
      BY <1>3, <2>1, HandlersMove
    <3> QED BY <2>1, <3>1
            DEF HandlerStep, ServeWorks, ServeReturns, ClientArrives, Arrive, StartServe,
                ServeConn, ServeCancelled, CloseListener, AwaitAccept, Release,
                AcceptGoroutine, Accept, AcceptClosed, Send, AcceptFails
  <2>2. CASE LoadConfig \/ WriteCert \/ ActivateFilters \/ BeginServeAll \/ Notify
             \/ ReceiveSignal \/ MainCancel \/ AwaitWorkers \/ Signal
    BY <2>0, <2>2 DEF LoadConfig, WriteCert, ActivateFilters, BeginServeAll, Notify,
       ReceiveSignal, MainCancel, Cancel, AwaitWorkers, Signal, Goto, Exit, serveVars
  <2>3. ASSUME NEW h \in Handlers, Listen(h) \/ Activate(h) \/ ServeAll(h) \/ SessionPanics(h)
        PROVE  (mainPc = "wait" => ctxDone)'
    BY <2>0, <2>3 DEF Listen, Activate, ServeAll, SessionPanics, Goto, Exit, serveVars
  <2>4. CASE (\E c \in Conns : SessionEnds(c)) \/ UNCHANGED vars
    BY <2>0, <2>4 DEF SessionEnds, vars, serveVars, mainVars
  <2> QED BY <1>3, <2>0, <2>1, <2>2, <2>3, <2>4 DEF Next, Main
<1>4. ThornyInv /\ WaitOrder /\ [Next]_vars => WaitOrder'
  BY <1>2, <1>3 DEF WaitOrder
<1> QED BY <1>1, <1>4, ThornyAlways, PTL DEF Spec

\* main never waits in vain but for a stuck handler: either wg.Wait() returns at
\* once, or some handler that it counts can take a step of its way out.
THEOREM WaitNeverBlocks ==
  Spec => [](mainPc = "wait" =>
               \/ WorkersDone
               \/ \E h \in Live : CanMove(h) \/ (h \in AcceptAwaiters /\ Stuck(h)))
<1>1. ASSUME ThornyInv, WaitOrder, mainPc = "wait", ~WorkersDone
      PROVE  \E h \in Live : CanMove(h) \/ (h \in AcceptAwaiters /\ Stuck(h))
  <2>1. Live # {}
    BY <1>1, FS_EmptySet DEF ThornyInv, WorkersDone
  <2>2. PICK h \in Live : TRUE
    BY <2>1
  <2>3. h \in Handlers /\ servePc[h] \notin {"off", "returned"}
    BY <2>2 DEF Live
  <2>4. CanMove(h) \/ (h \in AcceptAwaiters /\ Stuck(h))
    BY <1>1, <2>3, MovesOrSticks DEF ThornyInv, WaitOrder
  <2> QED BY <2>4
<1>2. ThornyInv /\ WaitOrder =>
        (mainPc = "wait" =>
           \/ WorkersDone
           \/ \E h \in Live : CanMove(h) \/ (h \in AcceptAwaiters /\ Stuck(h)))
  BY <1>1
<1> QED BY <1>2, ThornyAlways, WaitOrderAlways, PTL

\* In the whole process, too, a handler whose port is closed only moves forward.
THEOREM ProcessShutdownOnlyAdvances == Spec => [][\A h \in Handlers : Forward(h)]_vars
<1>1. ASSUME ThornyInv, [Next]_vars, NEW k \in Handlers PROVE Forward(k)
  <2>1. CASE [ServeNext]_serveVars
    BY <1>1, <2>1, ForwardStep DEF ThornyInv
  <2>2. ASSUME NEW h \in Handlers, Listen(h) PROVE Forward(k)
    <3>1. UNCHANGED <<acceptPc, held, acceptChan, servePc>>
      BY <2>2 DEF Listen, Exit, serveVars, acceptVars
    <3> QED BY <3>1 DEF Forward, Closing
  <2>3. ASSUME NEW h \in Handlers, ServeAll(h) PROVE Forward(k)
    <3>1. /\ servePc[h] = "off" /\ servePc' = [servePc EXCEPT ![h] = "spawned"]
          /\ UNCHANGED <<acceptPc, held, acceptChan>>
      BY <1>1, <2>3 DEF ServeAll, ThornyInv, StartupOrder, acceptVars
    <3>2. Closing(k) => servePc'[k] = servePc[k]
      BY <1>1, <3>1 DEF Closing, ThornyInv, TypeOK, ServeTypeOK
    <3> QED BY <3>1, <3>2 DEF Forward, Closing
  <2> QED BY <1>1, <2>1, <2>2, <2>3, WhoMoves
<1>2. ThornyInv /\ [Next]_vars => [\A h \in Handlers : Forward(h)]_vars
  BY <1>1
<1> QED BY <1>2, ThornyAlways, PTL DEF Spec

=============================================================================
