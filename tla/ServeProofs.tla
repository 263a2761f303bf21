---------------------------- MODULE ServeProofs ----------------------------
(***************************************************************************)
(* Proofs about module Serve, for any number of handlers and connections   *)
(* and any capacity of the channel.                                        *)
(***************************************************************************)
EXTENDS Serve, SequenceTheorems, TLAPS

-----------------------------------------------------------------------------
(* Sequences.                                                              *)

LEMMA ElementsOfAppend ==
  ASSUME NEW S, NEW s \in Seq(S), NEW x \in S
  PROVE  Elements(Append(s, x)) = Elements(s) \cup {x}
<1>1. Append(s, x) \in Seq(S) /\ Len(Append(s, x)) = Len(s) + 1
  OBVIOUS
<1>2. DOMAIN s = 1 .. Len(s) /\ DOMAIN Append(s, x) = 1 .. Len(s) + 1
  BY <1>1
<1>3. \A i \in 1 .. Len(s) : Append(s, x)[i] = s[i]
  OBVIOUS
<1>4. Append(s, x)[Len(s) + 1] = x
  OBVIOUS
<1>5. Len(s) \in Nat
  OBVIOUS
<1> QED BY <1>2, <1>3, <1>4, <1>5 DEF Elements

LEMMA ElementsOfTail ==
  ASSUME NEW S, NEW s \in Seq(S), s # <<>>
  PROVE  /\ Head(s) \in S
         /\ Tail(s) \in Seq(S)
         /\ Elements(s) = {Head(s)} \cup Elements(Tail(s))
<1>1. /\ Len(s) \in Nat \ {0}
      /\ Head(s) = s[1] /\ Head(s) \in S
      /\ Tail(s) \in Seq(S)
      /\ Len(Tail(s)) = Len(s) - 1
      /\ \A i \in 1 .. Len(s) - 1 : Tail(s)[i] = s[i + 1]
  OBVIOUS
<1>2. DOMAIN s = 1 .. Len(s) /\ DOMAIN Tail(s) = 1 .. Len(s) - 1
  BY <1>1
<1>3. ASSUME NEW x \in Elements(s)
      PROVE  x \in {Head(s)} \cup Elements(Tail(s))
  <2>1. PICK i \in 1 .. Len(s) : x = s[i]
    BY <1>2 DEF Elements
  <2>2. CASE i = 1
    BY <2>1, <2>2, <1>1
  <2>3. CASE i # 1
    <3>1. i - 1 \in 1 .. Len(s) - 1 /\ Tail(s)[i - 1] = x
      BY <2>1, <2>3, <1>1
    <3> QED BY <3>1, <1>2 DEF Elements
  <2> QED BY <2>2, <2>3
<1>4. ASSUME NEW x \in {Head(s)} \cup Elements(Tail(s))
      PROVE  x \in Elements(s)
  <2>1. CASE x = Head(s)
    BY <2>1, <1>1, <1>2 DEF Elements
  <2>2. CASE x \in Elements(Tail(s))
    <3>1. PICK i \in 1 .. Len(s) - 1 : x = Tail(s)[i]
      BY <2>2, <1>2 DEF Elements
    <3>2. i + 1 \in 1 .. Len(s) /\ x = s[i + 1]
      BY <3>1, <1>1
    <3> QED BY <3>2, <1>2 DEF Elements
  <2> QED BY <2>1, <2>2, <1>4
<1> QED BY <1>1, <1>3, <1>4

\* No element occurs twice.
Distinct(s) == \A i, j \in DOMAIN s : s[i] = s[j] => i = j

LEMMA DistinctAppend ==
  ASSUME NEW S, NEW s \in Seq(S), NEW x \in S, Distinct(s), x \notin Elements(s)
  PROVE  Distinct(Append(s, x))
<1>1. /\ Len(s) \in Nat
      /\ DOMAIN s = 1 .. Len(s)
      /\ DOMAIN Append(s, x) = 1 .. Len(s) + 1
      /\ \A i \in 1 .. Len(s) : Append(s, x)[i] = s[i]
      /\ Append(s, x)[Len(s) + 1] = x
  OBVIOUS
<1>2. \A i \in 1 .. Len(s) : s[i] # x
  BY <1>1 DEF Elements
<1>3. \A i \in 1 .. Len(s) + 1 : i \in 1 .. Len(s) \/ i = Len(s) + 1
  BY <1>1
<1> QED BY <1>1, <1>2, <1>3 DEF Distinct

LEMMA DistinctTail ==
  ASSUME NEW S, NEW s \in Seq(S), s # <<>>, Distinct(s)
  PROVE  Distinct(Tail(s)) /\ Head(s) \notin Elements(Tail(s))
<1>1. /\ Len(s) \in Nat \ {0}
      /\ DOMAIN s = 1 .. Len(s)
      /\ DOMAIN Tail(s) = 1 .. Len(s) - 1
      /\ Head(s) = s[1]
      /\ \A i \in 1 .. Len(s) - 1 : Tail(s)[i] = s[i + 1]
  OBVIOUS
<1>2. \A i \in 1 .. Len(s) - 1 : i + 1 \in 1 .. Len(s) /\ i + 1 # 1 /\ 1 \in 1 .. Len(s)
  BY <1>1
<1>3. Head(s) \notin Elements(Tail(s))
  BY <1>1, <1>2 DEF Elements, Distinct
<1>4. ASSUME NEW i \in 1 .. Len(s) - 1, NEW j \in 1 .. Len(s) - 1, Tail(s)[i] = Tail(s)[j]
      PROVE  i = j
  <2>1. s[i + 1] = s[j + 1]
    BY <1>1, <1>4
  <2>2. i + 1 = j + 1
    BY <1>1, <1>2, <2>1 DEF Distinct
  <2> QED BY <2>2
<1> QED BY <1>1, <1>3, <1>4 DEF Distinct

-----------------------------------------------------------------------------
(* The inductive invariant.                                                *)

\* The accept goroutine holds a connection exactly when it is about to send.
HeldWhenSending ==
  \A h \in Handlers : acceptPc[h] = "send" <=> held[h] # NoConn

\* The accept goroutine exists from the first step of Serve on, and the port is
\* closed from the deferred function's first step on.
StagesAgree ==
  \A h \in Handlers :
    /\ acceptPc[h] = "off" <=> servePc[h] \in {"off", "spawned"}
    /\ servePc[h] \in {"wait", "release", "returned"} => ~listening[h]

\* What DoneMeansQuiet needs to be inductive.
QuietInv == ServeTypeOK /\ HeldWhenSending /\ StagesAgree /\ DoneMeansQuiet

LEMMA QuietInit == ServeInit => QuietInv
<1> SUFFICES ASSUME ServeInit PROVE QuietInv
  OBVIOUS
<1> USE DEF ServeInit
<1>1. ServeTypeOK
  <2>1. <<>> \in Seq(Conns)
    OBVIOUS
  <2>2. /\ ctxDone \in BOOLEAN
        /\ listening \in [Handlers -> BOOLEAN]
        /\ backlog \in [Handlers -> SUBSET Conns]
        /\ acceptPc \in [Handlers -> AcceptPcs]
    BY DEF AcceptPcs
  <2>3. /\ held \in [Handlers -> Conns \cup {NoConn}]
        /\ servePc \in [Handlers -> ServePcs]
        /\ sessions \in [Handlers -> SUBSET Conns]
    BY DEF ServePcs
  <2>4. acceptChan \in [Handlers -> Seq(Conns)]
    BY <2>1
  <2> QED BY <2>2, <2>3, <2>4 DEF ServeTypeOK
<1>2. HeldWhenSending /\ StagesAgree /\ DoneMeansQuiet
  BY DEF HeldWhenSending, StagesAgree, DoneMeansQuiet
<1> QED BY <1>1, <1>2 DEF QuietInv

LEMMA TypeStep == ServeTypeOK /\ HeldWhenSending /\ [ServeNext]_serveVars => ServeTypeOK'
<1> SUFFICES ASSUME ServeTypeOK, HeldWhenSending, [ServeNext]_serveVars
             PROVE  ServeTypeOK'
  OBVIOUS
<1> USE DEF ServeTypeOK, AcceptPcs, ServePcs
<1>1. CASE Cancel
  BY <1>1 DEF Cancel, acceptVars
<1>2. ASSUME NEW h \in Handlers, NEW c \in Conns, Arrive(h, c)
      PROVE  ServeTypeOK'
  BY <1>2 DEF Arrive, acceptVars
<1>3. ASSUME NEW h \in Handlers, AcceptFails(h) PROVE ServeTypeOK'
  BY <1>3 DEF AcceptFails
<1>4. ASSUME NEW h \in Handlers, Accept(h) PROVE ServeTypeOK'
  BY <1>4 DEF Accept
<1>5. ASSUME NEW h \in Handlers, AcceptClosed(h) PROVE ServeTypeOK'
  BY <1>5 DEF AcceptClosed
<1>6. ASSUME NEW h \in Handlers, Send(h) PROVE ServeTypeOK'
  <2>1. held[h] \in Conns
    BY <1>6 DEF Send, HeldWhenSending
  <2>2. Append(acceptChan[h], held[h]) \in Seq(Conns)
    BY <2>1
  <2> QED BY <1>6, <2>2 DEF Send
<1>7. ASSUME NEW h \in Handlers, StartServe(h) PROVE ServeTypeOK'
  BY <1>7 DEF StartServe
<1>8. ASSUME NEW h \in Handlers, ServeConn(h) PROVE ServeTypeOK'
  <2>1. acceptChan[h] \in Seq(Conns) /\ acceptChan[h] # <<>>
    BY <1>8 DEF ServeConn
  <2>2. Head(acceptChan[h]) \in Conns /\ Tail(acceptChan[h]) \in Seq(Conns)
    BY <2>1, ElementsOfTail
  <2> QED BY <1>8, <2>2 DEF ServeConn, acceptVars
<1>9. ASSUME NEW h \in Handlers, ServeCancelled(h) PROVE ServeTypeOK'
  BY <1>9 DEF ServeCancelled, acceptVars
<1>10. ASSUME NEW h \in Handlers, CloseListener(h) PROVE ServeTypeOK'
  BY <1>10 DEF CloseListener, acceptVars
<1>11. ASSUME NEW h \in Handlers, AwaitAccept(h) PROVE ServeTypeOK'
  BY <1>11 DEF AwaitAccept, acceptVars
<1>12. ASSUME NEW h \in Handlers, Release(h) PROVE ServeTypeOK'
  BY <1>12 DEF Release, acceptVars
<1>13. CASE UNCHANGED serveVars
  BY <1>13 DEF serveVars, acceptVars
<1> QED BY <1>1, <1>2, <1>3, <1>4, <1>5, <1>6, <1>7, <1>8, <1>9, <1>10, <1>11, <1>12, <1>13
        DEF ServeNext, AcceptGoroutine, ServeGoroutine

LEMMA QuietStep == QuietInv /\ [ServeNext]_serveVars => QuietInv'
<1> SUFFICES ASSUME QuietInv, [ServeNext]_serveVars
             PROVE  QuietInv'
  OBVIOUS
<1>0. ServeTypeOK'
  BY TypeStep DEF QuietInv
<1> USE ServeAssumption
    DEF QuietInv, ServeTypeOK, HeldWhenSending, StagesAgree, DoneMeansQuiet
<1>1. CASE Cancel
  BY <1>0, <1>1 DEF Cancel, acceptVars
<1>2. ASSUME NEW h \in Handlers, NEW c \in Conns, Arrive(h, c)
      PROVE  QuietInv'
  BY <1>0, <1>2 DEF Arrive, acceptVars
<1>3. ASSUME NEW h \in Handlers, AcceptFails(h) PROVE QuietInv'
  BY <1>0, <1>3 DEF AcceptFails
<1>4. ASSUME NEW h \in Handlers, Accept(h) PROVE QuietInv'
  BY <1>0, <1>4 DEF Accept
<1>5. ASSUME NEW h \in Handlers, AcceptClosed(h) PROVE QuietInv'
  BY <1>0, <1>5 DEF AcceptClosed
<1>6. ASSUME NEW h \in Handlers, Send(h) PROVE QuietInv'
  BY <1>0, <1>6 DEF Send
<1>7. ASSUME NEW h \in Handlers, StartServe(h) PROVE QuietInv'
  BY <1>0, <1>7 DEF StartServe
<1>8. ASSUME NEW h \in Handlers, ServeConn(h) PROVE QuietInv'
  BY <1>0, <1>8 DEF ServeConn, acceptVars
<1>9. ASSUME NEW h \in Handlers, ServeCancelled(h) PROVE QuietInv'
  BY <1>0, <1>9 DEF ServeCancelled, acceptVars
<1>10. ASSUME NEW h \in Handlers, CloseListener(h) PROVE QuietInv'
  BY <1>0, <1>10 DEF CloseListener, acceptVars
<1>11. ASSUME NEW h \in Handlers, AwaitAccept(h) PROVE QuietInv'
  BY <1>0, <1>11 DEF AwaitAccept, AcceptEnded, acceptVars
<1>12. ASSUME NEW h \in Handlers, Release(h) PROVE QuietInv'
  BY <1>0, <1>12 DEF Release, acceptVars
<1>13. CASE UNCHANGED serveVars
  BY <1>0, <1>13 DEF serveVars, acceptVars
<1> QED BY <1>1, <1>2, <1>3, <1>4, <1>5, <1>6, <1>7, <1>8, <1>9, <1>10, <1>11, <1>12, <1>13
        DEF ServeNext, AcceptGoroutine, ServeGoroutine

LEMMA QuietAlways == ServeSpec => []QuietInv
BY QuietInit, QuietStep, PTL DEF ServeSpec

\* Every variable of the Serve goroutines keeps its type: in particular no
\* handleConn is ever started with a nil connection.
THEOREM TypeCorrect == ServeSpec => []ServeTypeOK
<1>1. QuietInv => ServeTypeOK
  BY DEF QuietInv
<1> QED BY <1>1, QuietAlways, PTL

\* A Serve that has called wg.Done, or is about to, has closed its port and
\* left no accept goroutine behind if it waits for one (ssh.go:339).
THEOREM ServeEndsQuietly == ServeSpec => []DoneMeansQuiet
<1>1. QuietInv => DoneMeansQuiet
  BY DEF QuietInv
<1> QED BY <1>1, QuietAlways, PTL

-----------------------------------------------------------------------------
LEMMA StuckStep ==
  ASSUME ServeTypeOK, [ServeNext]_serveVars, NEW k \in Handlers, Stuck(k)
  PROVE  Stuck(k)'
<1> USE DEF ServeTypeOK, Stuck, ChanFull
<1>1. CASE Cancel
  BY <1>1 DEF Cancel, acceptVars
<1>2. ASSUME NEW h \in Handlers, NEW c \in Conns, Arrive(h, c)
      PROVE  Stuck(k)'
  BY <1>2 DEF Arrive, acceptVars
<1>3. ASSUME NEW h \in Handlers, AcceptFails(h) \/ AcceptGoroutine(h)
      PROVE  Stuck(k)'
  BY <1>3 DEF AcceptFails, AcceptGoroutine, Accept, AcceptClosed, Send
<1>4. ASSUME NEW h \in Handlers, ServeGoroutine(h)
      PROVE  Stuck(k)'
  BY <1>4 DEF ServeGoroutine, StartServe, ServeConn, ServeCancelled, CloseListener,
              AwaitAccept, AcceptEnded, Release, acceptVars
<1>5. CASE UNCHANGED serveVars
  BY <1>5 DEF serveVars, acceptVars
<1> QED BY <1>1, <1>2, <1>3, <1>4, <1>5 DEF ServeNext

\* No step gets a handler out of the wait for an accept goroutine that is
\* blocked on a full channel, whatever the number of handlers and clients.
THEOREM OnceStuckAlwaysStuck == ServeSpec => StuckForever
<1>1. ServeTypeOK /\ [ServeNext]_serveVars
        => [\A h \in Handlers : Stuck(h) => Stuck(h)']_serveVars
  BY StuckStep
<1> QED BY <1>1, TypeCorrect, PTL DEF ServeSpec, StuckForever

-----------------------------------------------------------------------------
(* The safety core of ShutdownEndsOrSticks: what fairness then carries on. *)

\* Only a handler with an acceptWg waits for its accept goroutine.
AwaitersWait == \A h \in Handlers : servePc[h] = "wait" => h \in AcceptAwaiters

LEMMA AwaitersWaitStep ==
  ServeTypeOK /\ AwaitersWait /\ [ServeNext]_serveVars => AwaitersWait'
<1> SUFFICES ASSUME ServeTypeOK, AwaitersWait, [ServeNext]_serveVars
             PROVE  AwaitersWait'
  OBVIOUS
<1>1. \/ servePc' = servePc
      \/ \E h \in Handlers :
           \/ \E pc \in ServePcs \ {"wait"} : servePc' = [servePc EXCEPT ![h] = pc]
           \/ servePc' = [servePc EXCEPT ![h] =
                            IF h \in AcceptAwaiters THEN "wait" ELSE "release"]
  BY DEF ServeNext, serveVars, acceptVars, AcceptGoroutine, ServeGoroutine, Cancel, Arrive,
         Accept, AcceptFails, AcceptClosed, Send, StartServe, ServeConn, ServeCancelled,
         CloseListener, AwaitAccept, Release, ServePcs
<1> QED BY <1>1 DEF AwaitersWait, ServeTypeOK

\* The guard of a step of h's two goroutines that brings its shutdown forward.
CanMove(h) ==
  \/ servePc[h] \in {"spawned", "close", "release"}
  \/ servePc[h] = "select" /\ ctxDone
  \/ servePc[h] = "wait" /\ AcceptEnded(h)
  \/ acceptPc[h] = "accept" /\ ~listening[h]
  \/ acceptPc[h] = "send" /\ ~ChanFull(h)

LEMMA MovesOrSticks ==
  ASSUME QuietInv, AwaitersWait, ctxDone, NEW h \in Handlers,
         servePc[h] \notin {"off", "returned"}
  PROVE  CanMove(h) \/ (h \in AcceptAwaiters /\ Stuck(h))
<1>1. servePc[h] \in {"spawned", "select", "close", "wait", "release"}
  BY DEF QuietInv, ServeTypeOK, ServePcs
<1>2. CASE servePc[h] = "wait"
  <2>1. h \in AcceptAwaiters /\ ~listening[h]
    BY <1>2 DEF QuietInv, AwaitersWait, StagesAgree
  <2>2. acceptPc[h] \in {"accept", "send", "ended"}
    BY <1>2 DEF QuietInv, StagesAgree, ServeTypeOK, AcceptPcs
  <2> QED BY <1>2, <2>1, <2>2 DEF CanMove, Stuck, AcceptEnded
<1> QED BY <1>1, <1>2 DEF CanMove

\* After cancel() no handler waits in vain on its way out of Serve, unless it is
\* stuck as defined, which no handler without an acceptWg ever is.
THEOREM ShutdownNeverBlocks ==
  ServeSpec => [](ctxDone => \A h \in Handlers :
                    \/ servePc[h] \in {"off", "returned"}
                    \/ CanMove(h)
                    \/ h \in AcceptAwaiters /\ Stuck(h))
<1>1. ServeInit => AwaitersWait
  BY DEF ServeInit, AwaitersWait
<1>2. QuietInv /\ AwaitersWait /\ [ServeNext]_serveVars => AwaitersWait'
  BY AwaitersWaitStep DEF QuietInv
<1>3. QuietInv /\ AwaitersWait =>
        (ctxDone => \A h \in Handlers :
           \/ servePc[h] \in {"off", "returned"}
           \/ CanMove(h)
           \/ h \in AcceptAwaiters /\ Stuck(h))
  BY MovesOrSticks
<1> QED BY <1>1, <1>2, <1>3, QuietAlways, PTL DEF ServeSpec

\* The port is closed, and Serve has nothing left but to wait and to return.
Closing(h) == servePc[h] \in {"wait", "release", "returned"}

StepsLeft(h) ==
  (IF servePc[h] = "wait" THEN 2 ELSE IF servePc[h] = "release" THEN 1 ELSE 0) +
  (IF acceptPc[h] = "send" THEN 2 ELSE IF acceptPc[h] = "accept" THEN 1 ELSE 0)

\* Whatever happens, it leaves the goroutines of h alone or brings them forward.
Forward(h) ==
  Closing(h) => /\ Closing(h)'
                /\ \/ StepsLeft(h)' < StepsLeft(h)
                   \/ /\ servePc'[h] = servePc[h] /\ acceptPc'[h] = acceptPc[h]
                      /\ held'[h] = held[h] /\ acceptChan'[h] = acceptChan[h]

LEMMA ForwardStep ==
  ASSUME QuietInv, [ServeNext]_serveVars, NEW k \in Handlers
  PROVE  Forward(k)
<1> SUFFICES ASSUME Closing(k) PROVE Forward(k)
  BY DEF Forward
<1>0. ServeTypeOK /\ ~listening[k]
  BY DEF QuietInv, StagesAgree, Closing
<1> USE <1>0 DEF ServeTypeOK, Forward, Closing, StepsLeft
<1>1. CASE Cancel
  BY <1>1 DEF Cancel, acceptVars
<1>2. ASSUME NEW h \in Handlers, NEW c \in Conns, Arrive(h, c) PROVE Forward(k)
  BY <1>2 DEF Arrive, acceptVars
<1>3. ASSUME NEW h \in Handlers, AcceptFails(h) \/ Accept(h) \/ AcceptClosed(h)
      PROVE  Forward(k)
  BY <1>3 DEF AcceptFails, Accept, AcceptClosed
<1>4. ASSUME NEW h \in Handlers, Send(h) PROVE Forward(k)
  BY <1>4 DEF Send
<1>5. ASSUME NEW h \in Handlers, ServeGoroutine(h) PROVE Forward(k)
  BY <1>5 DEF ServeGoroutine, StartServe, ServeConn, ServeCancelled, CloseListener,
              AwaitAccept, Release, acceptVars
<1>6. CASE UNCHANGED serveVars
  BY <1>6 DEF serveVars
<1> QED BY <1>1, <1>2, <1>3, <1>4, <1>5, <1>6 DEF ServeNext, AcceptGoroutine

\* Once the port is closed every step that moves one of the handler's goroutines
\* is one of four at most, and none of any other actor undoes it.  With
\* ShutdownNeverBlocks this is the whole of a shutdown but for fairness.
THEOREM ShutdownOnlyAdvances == ServeSpec => [][\A h \in Handlers : Forward(h)]_serveVars
<1>1. QuietInv /\ [ServeNext]_serveVars => [\A h \in Handlers : Forward(h)]_serveVars
  BY ForwardStep
<1> QED BY <1>1, QuietAlways, PTL DEF ServeSpec

-----------------------------------------------------------------------------
(* The safety core of EveryConnServed.                                     *)

\* A port is open until its handler leaves the loop, which it does for the
\* cancelled context alone.
ServingOrder ==
  \A h \in Handlers :
    /\ servePc[h] # "off"
    /\ servePc[h] \in {"spawned", "select"} => listening[h]
    /\ servePc[h] \in {"close", "wait", "release", "returned"} => ctxDone

LEMMA ServingOrderStep ==
  ASSUME ServeTypeOK, ServingOrder, [ServeNext]_serveVars
  PROVE  ServingOrder'
<1> USE DEF ServeTypeOK, ServingOrder
<1>1. CASE Cancel
  BY <1>1 DEF Cancel
<1>2. ASSUME NEW h \in Handlers,
             AcceptFails(h) \/ AcceptGoroutine(h) \/ (\E c \in Conns : Arrive(h, c))
      PROVE  ServingOrder'
  BY <1>2 DEF AcceptFails, AcceptGoroutine, Accept, AcceptClosed, Send, Arrive
<1>3. ASSUME NEW h \in Handlers, ServeGoroutine(h) PROVE ServingOrder'
  BY <1>3 DEF ServeGoroutine, StartServe, ServeConn, ServeCancelled, CloseListener,
              AwaitAccept, Release
<1>4. CASE UNCHANGED serveVars
  BY <1>4 DEF serveVars
<1> QED BY <1>1, <1>2, <1>3, <1>4 DEF ServeNext

\* The guard of a step that passes a connection of h on, or prepares to.
CanPassOn(h) ==
  \/ servePc[h] = "spawned"
  \/ acceptPc[h] = "accept" /\ listening[h] /\ backlog[h] # {}
  \/ acceptPc[h] = "send" /\ ~ChanFull(h)
  \/ servePc[h] = "select" /\ acceptChan[h] # <<>>

\* While handlers serve, no connection waits in vain: one in the backlog has a
\* step ahead of it unless the accept goroutine has ended, and one that has been
\* accepted has one even then.
THEOREM ServingNeverBlocks ==
  ServeSpec => [](~ctxDone => \A h \in Handlers :
                    /\ backlog[h] # {} => CanPassOn(h) \/ acceptPc[h] = "ended"
                    /\ WaitingLine(h) # <<>> => CanPassOn(h))
<1>1. ServeInit => ServingOrder
  BY DEF ServeInit, ServingOrder
<1>2. QuietInv /\ ServingOrder /\ [ServeNext]_serveVars => ServingOrder'
  BY ServingOrderStep DEF QuietInv
<1>3. ASSUME QuietInv, ServingOrder, ~ctxDone, NEW h \in Handlers
      PROVE  /\ backlog[h] # {} => CanPassOn(h) \/ acceptPc[h] = "ended"
             /\ WaitingLine(h) # <<>> => CanPassOn(h)
  <2>1. servePc[h] \in {"spawned", "select"} /\ listening[h]
    BY <1>3 DEF ServingOrder, QuietInv, ServeTypeOK, ServePcs
  <2>2. servePc[h] = "select" => acceptPc[h] \in {"accept", "send", "ended"}
    BY <1>3 DEF QuietInv, StagesAgree, ServeTypeOK, AcceptPcs
  <2>3. ChanFull(h) => acceptChan[h] # <<>>
    BY <1>3, ServeAssumption DEF ChanFull, QuietInv, ServeTypeOK
  <2>4. WaitingLine(h) # <<>> => acceptChan[h] # <<>> \/ acceptPc[h] = "send"
    BY <1>3 DEF WaitingLine, QuietInv, HeldWhenSending
  <2> QED BY <2>1, <2>2, <2>3, <2>4 DEF CanPassOn
<1>4. QuietInv /\ ServingOrder =>
        (~ctxDone => \A h \in Handlers :
           /\ backlog[h] # {} => CanPassOn(h) \/ acceptPc[h] = "ended"
           /\ WaitingLine(h) # <<>> => CanPassOn(h))
  BY <1>3
<1> QED BY <1>1, <1>2, <1>4, QuietAlways, PTL DEF ServeSpec

-----------------------------------------------------------------------------
(* A connection is in one place.                                           *)

\* OnePlace, with the stages of one handler and the handlers told apart.
StagesDisjoint(h) ==
  /\ held[h] \notin backlog[h] \cup Elements(acceptChan[h]) \cup sessions[h]
  /\ backlog[h] \cap (Elements(acceptChan[h]) \cup sessions[h]) = {}
  /\ Elements(acceptChan[h]) \cap sessions[h] = {}
  /\ Distinct(acceptChan[h])

HandlersDisjoint ==
  \A g, h \in Handlers : g # h => Known(g) \cap Known(h) \subseteq {NoConn}

LEMMA OnePlaceParts ==
  OnePlace <=> (\A h \in Handlers : StagesDisjoint(h)) /\ HandlersDisjoint
BY DEF OnePlace, StagesDisjoint, HandlersDisjoint, Distinct

\* What a step of one handler has to establish.
LEMMA OneHandlerMoves ==
  ASSUME ServeTypeOK, OnePlace, NEW h \in Handlers,
         \A g \in Handlers \ {h} :
           /\ backlog'[g] = backlog[g] /\ held'[g] = held[g]
           /\ acceptChan'[g] = acceptChan[g] /\ sessions'[g] = sessions[g],
         StagesDisjoint(h)',
         Known(h)' \subseteq Known(h) \cup {NoConn}
  PROVE  OnePlace'
<1>1. \A g \in Handlers \ {h} : StagesDisjoint(g)' /\ Known(g)' = Known(g)
  BY OnePlaceParts DEF StagesDisjoint, Known
<1>2. HandlersDisjoint'
  BY <1>1, OnePlaceParts DEF HandlersDisjoint
<1>3. (\A g \in Handlers : StagesDisjoint(g)') /\ HandlersDisjoint'
  BY <1>1, <1>2
<1> QED BY <1>3 DEF OnePlace, StagesDisjoint, HandlersDisjoint, Distinct

LEMMA OnePlaceStep ==
  QuietInv /\ OnePlace /\ [ServeNext]_serveVars => OnePlace'
<1> SUFFICES ASSUME QuietInv, OnePlace, [ServeNext]_serveVars
             PROVE  OnePlace'
  OBVIOUS
<1>0. ServeTypeOK /\ HeldWhenSending /\ \A h \in Handlers : StagesDisjoint(h)
  BY OnePlaceParts DEF QuietInv
<1>1. CASE UNCHANGED <<backlog, held, acceptChan, sessions>>
  BY <1>1 DEF OnePlace, Known
<1>2. ASSUME NEW h \in Handlers, NEW c \in Conns, Arrive(h, c)
      PROVE  OnePlace'
  <2>1. /\ backlog' = [backlog EXCEPT ![h] = @ \cup {c}]
        /\ UNCHANGED <<held, acceptChan, sessions>>
        /\ \A g \in Handlers : c \notin Known(g)
    BY <1>2 DEF Arrive, acceptVars
  <2>2. backlog'[h] = backlog[h] \cup {c}
    BY <2>1, <1>0 DEF ServeTypeOK
  <2>3. \A g \in Handlers \ {h} : backlog'[g] = backlog[g]
    BY <2>1, <1>0 DEF ServeTypeOK
  <2>4. StagesDisjoint(h)'
    BY <2>1, <2>2, <1>0 DEF StagesDisjoint, Known
  <2>5. \A g \in Handlers \ {h} : StagesDisjoint(g)' /\ Known(g)' = Known(g)
    BY <2>1, <2>3, <1>0 DEF StagesDisjoint, Known
  <2>6. Known(h)' = Known(h) \cup {c}
    BY <2>1, <2>2 DEF Known
  <2>7. HandlersDisjoint'
    BY <2>1, <2>5, <2>6, OnePlaceParts DEF HandlersDisjoint
  <2>8. (\A g \in Handlers : StagesDisjoint(g)') /\ HandlersDisjoint'
    BY <2>4, <2>5, <2>7
  <2> QED BY <2>8 DEF OnePlace, StagesDisjoint, HandlersDisjoint, Distinct
<1>3. ASSUME NEW h \in Handlers, Accept(h) PROVE OnePlace'
  <2>1. PICK c \in backlog[h] :
          /\ held' = [held EXCEPT ![h] = c]
          /\ backlog' = [backlog EXCEPT ![h] = @ \ {c}]
          /\ UNCHANGED <<acceptChan, sessions>>
    BY <1>3 DEF Accept
  <2>2. held'[h] = c /\ backlog'[h] = backlog[h] \ {c}
    BY <2>1, <1>0 DEF ServeTypeOK
  <2>3. StagesDisjoint(h)'
    BY <2>1, <2>2, <1>0 DEF StagesDisjoint
  <2>4. Known(h)' \subseteq Known(h)
    BY <2>1, <2>2 DEF Known
  <2>5. \A g \in Handlers \ {h} : held'[g] = held[g] /\ backlog'[g] = backlog[g]
    BY <2>1, <1>0 DEF ServeTypeOK
  <2> QED BY <1>0, <2>1, <2>3, <2>4, <2>5, OneHandlerMoves
<1>4. ASSUME NEW h \in Handlers, Send(h) PROVE OnePlace'
  <2>1. /\ acceptChan' = [acceptChan EXCEPT ![h] = Append(@, held[h])]
        /\ held' = [held EXCEPT ![h] = NoConn]
        /\ UNCHANGED <<backlog, sessions>>
        /\ held[h] \in Conns
    BY <1>4, <1>0 DEF Send, HeldWhenSending, ServeTypeOK
  <2>2. held'[h] = NoConn /\ acceptChan'[h] = Append(acceptChan[h], held[h])
    BY <2>1, <1>0 DEF ServeTypeOK
  <2>3. acceptChan[h] \in Seq(Conns) /\ backlog[h] \subseteq Conns /\ sessions[h] \subseteq Conns
    BY <1>0 DEF ServeTypeOK
  <2>4. Elements(acceptChan[h]) \subseteq Conns
    BY <2>3 DEF Elements
  <2>5. Elements(acceptChan'[h]) = Elements(acceptChan[h]) \cup {held[h]}
    BY <2>1, <2>2, <2>3, ElementsOfAppend
  <2>6. Distinct(acceptChan'[h])
    BY <2>1, <2>2, <2>3, <1>0, DistinctAppend DEF StagesDisjoint
  <2>7. StagesDisjoint(h)'
    BY <2>1, <2>2, <2>3, <2>4, <2>5, <2>6, <1>0, ServeAssumption DEF StagesDisjoint
  <2>8. Known(h)' \subseteq Known(h) \cup {NoConn}
    BY <2>1, <2>2, <2>5 DEF Known
  <2>9. \A g \in Handlers \ {h} : held'[g] = held[g] /\ acceptChan'[g] = acceptChan[g]
    BY <2>1, <1>0 DEF ServeTypeOK
  <2> QED BY <1>0, <2>1, <2>7, <2>8, <2>9, OneHandlerMoves
<1>5. ASSUME NEW h \in Handlers, ServeConn(h) PROVE OnePlace'
  <2> DEFINE c == Head(acceptChan[h])
  <2>1. /\ acceptChan' = [acceptChan EXCEPT ![h] = Tail(@)]
        /\ sessions' = [sessions EXCEPT ![h] = @ \cup {c}]
        /\ UNCHANGED <<backlog, held>>
        /\ acceptChan[h] # <<>>
    BY <1>5 DEF ServeConn, acceptVars
  <2>2. acceptChan'[h] = Tail(acceptChan[h]) /\ sessions'[h] = sessions[h] \cup {c}
    BY <2>1, <1>0 DEF ServeTypeOK
  <2>3. acceptChan[h] \in Seq(Conns)
    BY <1>0 DEF ServeTypeOK
  <2>4. Elements(acceptChan[h]) = {c} \cup Elements(acceptChan'[h])
    BY <2>1, <2>2, <2>3, ElementsOfTail
  <2>5. Distinct(acceptChan'[h]) /\ c \notin Elements(acceptChan'[h])
    BY <2>1, <2>2, <2>3, <1>0, DistinctTail DEF StagesDisjoint
  <2>6. StagesDisjoint(h)'
    BY <2>1, <2>2, <2>4, <2>5, <1>0 DEF StagesDisjoint
  <2>7. Known(h)' \subseteq Known(h)
    BY <2>1, <2>2, <2>4 DEF Known
  <2>8. \A g \in Handlers \ {h} : acceptChan'[g] = acceptChan[g] /\ sessions'[g] = sessions[g]
    BY <2>1, <1>0 DEF ServeTypeOK
  <2> QED BY <1>0, <2>1, <2>6, <2>7, <2>8, OneHandlerMoves
<1>6. ASSUME NEW h \in Handlers, CloseListener(h) PROVE OnePlace'
  <2>1. /\ backlog' = [backlog EXCEPT ![h] = {}]
        /\ UNCHANGED <<held, acceptChan, sessions>>
    BY <1>6 DEF CloseListener, acceptVars
  <2>2. backlog'[h] = {} /\ \A g \in Handlers \ {h} : backlog'[g] = backlog[g]
    BY <2>1, <1>0 DEF ServeTypeOK
  <2>3. StagesDisjoint(h)' /\ Known(h)' \subseteq Known(h)
    BY <2>1, <2>2, <1>0 DEF StagesDisjoint, Known
  <2> QED BY <1>0, <2>1, <2>2, <2>3, OneHandlerMoves
<1>7. \/ UNCHANGED <<backlog, held, acceptChan, sessions>>
      \/ \E h \in Handlers, c \in Conns : Arrive(h, c)
      \/ \E h \in Handlers : Accept(h) \/ Send(h) \/ ServeConn(h) \/ CloseListener(h)
  BY DEF ServeNext, serveVars, acceptVars, AcceptGoroutine, ServeGoroutine, Cancel,
         AcceptFails, AcceptClosed, StartServe, ServeCancelled, AwaitAccept, Release
<1> QED BY <1>1, <1>2, <1>3, <1>4, <1>5, <1>6, <1>7

\* Two stages, or two handlers, never hold the same connection: no two
\* handleConn goroutines share a socket and none is served twice.
THEOREM ConnsInOnePlace == ServeSpec => []OnePlace
<1>1. ServeInit => OnePlace
  BY DEF ServeInit, OnePlace, Known, Elements
<1> QED BY <1>1, QuietAlways, OnePlaceStep, PTL DEF ServeSpec

-----------------------------------------------------------------------------
(* Serve implements Handoff.                                               *)

LEMMA AppendThenTake ==
  ASSUME NEW S, NEW s \in Seq(S), NEW x \in S, s # <<>>
  PROVE  /\ Append(s, x) # <<>>
         /\ Head(Append(s, x)) = Head(s)
         /\ Tail(Append(s, x)) = Append(Tail(s), x)
OBVIOUS

Stopped == {h \in Handlers : servePc[h] \notin {"off", "spawned", "select"}}

\* The connections a handler's line shows are those of its channel and hand.
LEMMA LineElements ==
  ASSUME ServeTypeOK, NEW h \in Handlers
  PROVE  /\ WaitingLine(h) \in Seq(Conns)
         /\ HandoffView!Waiting(h) = Elements(acceptChan[h]) \cup ({held[h]} \ {NoConn})
<1>1. acceptChan[h] \in Seq(Conns) /\ held[h] \in Conns \cup {NoConn}
  BY DEF ServeTypeOK
<1>2. HandoffView!Waiting(h) = Elements(WaitingLine(h))
  BY DEF HandoffView!Waiting, Elements
<1>3. CASE held[h] = NoConn
  BY <1>1, <1>2, <1>3 DEF WaitingLine
<1>4. CASE held[h] # NoConn
  <2>1. held[h] \in Conns /\ WaitingLine(h) = Append(acceptChan[h], held[h])
    BY <1>1, <1>4 DEF WaitingLine
  <2>2. Elements(WaitingLine(h)) = Elements(acceptChan[h]) \cup {held[h]}
    BY <1>1, <2>1, ElementsOfAppend
  <2> QED BY <1>1, <1>2, <1>4, <2>1, <2>2
<1> QED BY <1>3, <1>4

\* The channel never holds more than its capacity.
ChanBounded == \A h \in Handlers : Len(acceptChan[h]) <= ChanCap

LEMMA ChanBoundedStep ==
  QuietInv /\ ChanBounded /\ [ServeNext]_serveVars => ChanBounded'
<1> SUFFICES ASSUME QuietInv, ChanBounded, [ServeNext]_serveVars
             PROVE  ChanBounded'
  OBVIOUS
<1>0. /\ ServeTypeOK /\ HeldWhenSending
      /\ \A h \in Handlers : acceptChan[h] \in Seq(Conns)
      /\ ChanCap \in Nat
  BY ServeAssumption DEF QuietInv, ServeTypeOK
<1>1. CASE UNCHANGED acceptChan
  BY <1>1 DEF ChanBounded
<1>2. ASSUME NEW h \in Handlers, Send(h) PROVE ChanBounded'
  <2>1. Len(acceptChan[h]) < ChanCap
    BY <1>0, <1>2 DEF Send, ChanFull
  <2>2. acceptChan' = [acceptChan EXCEPT ![h] = Append(@, held[h])] /\ held[h] \in Conns
    BY <1>0, <1>2 DEF Send, HeldWhenSending, ServeTypeOK
  <2>3. /\ acceptChan'[h] = Append(acceptChan[h], held[h])
        /\ \A g \in Handlers \ {h} : acceptChan'[g] = acceptChan[g]
    BY <1>0, <2>2 DEF ServeTypeOK
  <2>4. Len(acceptChan'[h]) <= ChanCap
    BY <1>0, <2>1, <2>2, <2>3
  <2> QED BY <2>3, <2>4 DEF ChanBounded
<1>3. ASSUME NEW h \in Handlers, ServeConn(h) PROVE ChanBounded'
  <2>1. acceptChan' = [acceptChan EXCEPT ![h] = Tail(@)] /\ acceptChan[h] # <<>>
    BY <1>3 DEF ServeConn
  <2>2. /\ acceptChan'[h] = Tail(acceptChan[h])
        /\ \A g \in Handlers \ {h} : acceptChan'[g] = acceptChan[g]
    BY <1>0, <2>1 DEF ServeTypeOK
  <2>3. Len(acceptChan'[h]) <= Len(acceptChan[h]) /\ Len(acceptChan[h]) \in Nat
        /\ Len(acceptChan'[h]) \in Nat
    BY <1>0, <2>1, <2>2
  <2>4. Len(acceptChan'[h]) <= ChanCap
    BY <1>0, <2>3 DEF ChanBounded
  <2> QED BY <2>2, <2>4 DEF ChanBounded
<1>4. \/ UNCHANGED acceptChan
      \/ \E h \in Handlers : Send(h) \/ ServeConn(h)
  BY DEF ServeNext, serveVars, acceptVars, AcceptGoroutine, ServeGoroutine, Cancel, Arrive,
         Accept, AcceptFails, AcceptClosed, StartServe, ServeCancelled, CloseListener,
         AwaitAccept, Release
<1> QED BY <1>1, <1>2, <1>3, <1>4

HandoffInv == QuietInv /\ OnePlace /\ ChanBounded

LEMMA HandoffInvAlways == ServeSpec => []HandoffInv
<1>1. ServeInit => OnePlace /\ ChanBounded
  BY ServeAssumption DEF ServeInit, OnePlace, Known, Elements, ChanBounded
<1>2. HandoffInv /\ [ServeNext]_serveVars => HandoffInv'
  BY QuietStep, OnePlaceStep, ChanBoundedStep DEF HandoffInv
<1>3. ServeInit => HandoffInv
  BY <1>1, QuietInit DEF HandoffInv
<1> QED BY <1>2, <1>3, PTL DEF ServeSpec

LEMMA HandoffInit == ServeInit => HandoffView!Init
BY DEF ServeInit, HandoffView!Init, WaitingLine

\* A step that leaves lines, sessions and stages of Serve alone is a stutter.
LEMMA HandoffStutter ==
  ASSUME UNCHANGED <<held, acceptChan, sessions>>,
         Stopped' = Stopped
  PROVE  UNCHANGED HandoffView!vars
BY DEF HandoffView!vars, WaitingLine, Stopped

LEMMA HandoffStep ==
  HandoffInv /\ [ServeNext]_serveVars => [HandoffView!Next]_HandoffView!vars
<1> SUFFICES ASSUME HandoffInv, [ServeNext]_serveVars
             PROVE  [HandoffView!Next]_HandoffView!vars
  OBVIOUS
<1>0. /\ ServeTypeOK /\ HeldWhenSending /\ OnePlace /\ ChanBounded
      /\ \A h \in Handlers : acceptChan[h] \in Seq(Conns)
      /\ ChanCap \in Nat
      /\ StagesAgree
  BY ServeAssumption DEF HandoffInv, QuietInv, ServeTypeOK
<1>1. CASE \/ UNCHANGED <<held, acceptChan, sessions, servePc>>
           \/ \E h \in Handlers : \/ StartServe(h) \/ CloseListener(h)
                                   \/ AwaitAccept(h) \/ Release(h)
  <2>1. UNCHANGED <<held, acceptChan, sessions>>
    BY <1>1 DEF StartServe, CloseListener, AwaitAccept, Release, acceptVars
  <2>2. Stopped' = Stopped
    BY <1>0, <1>1 DEF Stopped, ServeTypeOK, StartServe, CloseListener, AwaitAccept, Release
  <2> QED BY <2>1, <2>2, HandoffStutter
<1>2. ASSUME NEW h \in Handlers, Accept(h)
      PROVE  HandoffView!Next
  <2>1. PICK c \in backlog[h] :
          /\ held' = [held EXCEPT ![h] = c]
          /\ UNCHANGED <<acceptChan, sessions, servePc>>
    BY <1>2 DEF Accept
  <2>2. c \in Conns /\ held[h] = NoConn /\ held'[h] = c /\ c # NoConn
    BY <1>0, <1>2, <2>1, ServeAssumption DEF Accept, HeldWhenSending, ServeTypeOK
  <2>3. Len(WaitingLine(h)) < ChanCap + 1
    BY <1>0, <2>2 DEF WaitingLine, ChanBounded
  <2>4. \A g \in Handlers : c \notin sessions[g] \cup HandoffView!Waiting(g)
    <3>1. \A g \in Handlers : HandoffView!Waiting(g) = Elements(acceptChan[g])
                                \cup ({held[g]} \ {NoConn})
      BY <1>0, LineElements
    <3>2. c \notin sessions[h] \cup Elements(acceptChan[h]) \cup ({held[h]} \ {NoConn})
      BY <1>0, <2>1, <2>2 DEF OnePlace
    <3>3. \A g \in Handlers \ {h} : c \notin Known(g)
      BY <1>0, <2>1, <2>2 DEF OnePlace, Known
    <3>4. \A g \in Handlers \ {h} :
            c \notin sessions[g] \cup Elements(acceptChan[g]) \cup ({held[g]} \ {NoConn})
      BY <3>3 DEF Known
    <3> QED BY <3>1, <3>2, <3>4
  <2>5. WaitingLine(h)' = Append(WaitingLine(h), c)
    BY <2>1, <2>2 DEF WaitingLine
  <2>6. \A g \in Handlers \ {h} : WaitingLine(g)' = WaitingLine(g)
    BY <1>0, <2>1 DEF WaitingLine, ServeTypeOK
  <2>7. [g \in Handlers |-> WaitingLine(g)]'
          = [[g \in Handlers |-> WaitingLine(g)] EXCEPT ![h] = Append(@, c)]
    BY <2>5, <2>6
  <2>8. HandoffView!Take(h, c)
    BY <2>1, <2>3, <2>4, <2>7 DEF HandoffView!Take
  <2> QED BY <2>2, <2>8 DEF HandoffView!Next
<1>3. ASSUME NEW h \in Handlers, Send(h)
      PROVE  UNCHANGED HandoffView!vars
  <2>1. /\ held[h] # NoConn /\ held'[h] = NoConn
        /\ acceptChan'[h] = Append(acceptChan[h], held[h])
        /\ \A g \in Handlers \ {h} : held'[g] = held[g] /\ acceptChan'[g] = acceptChan[g]
        /\ UNCHANGED <<sessions, servePc>>
    BY <1>0, <1>3 DEF Send, HeldWhenSending, ServeTypeOK
  <2>2. \A g \in Handlers : WaitingLine(g)' = WaitingLine(g)
    BY <2>1 DEF WaitingLine
  <2> QED BY <2>1, <2>2 DEF HandoffView!vars
<1>4. ASSUME NEW h \in Handlers, ServeConn(h)
      PROVE  HandoffView!Next
  <2> DEFINE c == Head(acceptChan[h])
  <2>1. /\ servePc[h] = "select" /\ acceptChan[h] # <<>>
        /\ acceptChan' = [acceptChan EXCEPT ![h] = Tail(@)]
        /\ sessions' = [sessions EXCEPT ![h] = @ \cup {c}]
        /\ UNCHANGED <<held, servePc>>
    BY <1>4 DEF ServeConn, acceptVars
  <2>2. /\ acceptChan'[h] = Tail(acceptChan[h])
        /\ \A g \in Handlers \ {h} : acceptChan'[g] = acceptChan[g]
    BY <1>0, <2>1 DEF ServeTypeOK
  <2>3. /\ WaitingLine(h) # <<>>
        /\ Head(WaitingLine(h)) = c
        /\ WaitingLine(h)' = Tail(WaitingLine(h))
    <3>1. CASE held[h] = NoConn
      BY <2>1, <2>2, <3>1 DEF WaitingLine
    <3>2. CASE held[h] # NoConn
      <4>1. held[h] \in Conns /\ acceptChan[h] \in Seq(Conns)
        BY <1>0, <3>2 DEF ServeTypeOK
      <4>2. WaitingLine(h) = Append(acceptChan[h], held[h])
        BY <3>2 DEF WaitingLine
      <4>3. WaitingLine(h)' = Append(Tail(acceptChan[h]), held[h])
        BY <2>1, <2>2, <3>2 DEF WaitingLine
      <4>4. /\ Append(acceptChan[h], held[h]) # <<>>
            /\ Head(Append(acceptChan[h], held[h])) = c
            /\ Tail(Append(acceptChan[h], held[h])) = Append(Tail(acceptChan[h]), held[h])
        BY <2>1, <4>1, AppendThenTake
      <4> QED BY <4>2, <4>3, <4>4
    <3> QED BY <3>1, <3>2
  <2>4. \A g \in Handlers \ {h} : WaitingLine(g)' = WaitingLine(g)
    BY <2>1, <2>2 DEF WaitingLine
  <2>5. [g \in Handlers |-> WaitingLine(g)]'
          = [[g \in Handlers |-> WaitingLine(g)] EXCEPT ![h] = Tail(@)]
    BY <2>3, <2>4
  <2>6. HandoffView!Begin(h)
    BY <2>1, <2>3, <2>5 DEF HandoffView!Begin
  <2> QED BY <2>6 DEF HandoffView!Next
<1>5. ASSUME NEW h \in Handlers, ServeCancelled(h)
      PROVE  HandoffView!Next
  <2>1. /\ servePc[h] = "select" /\ servePc'[h] = "close"
        /\ \A g \in Handlers \ {h} : servePc'[g] = servePc[g]
        /\ UNCHANGED <<held, acceptChan, sessions>>
    BY <1>0, <1>5 DEF ServeCancelled, ServeTypeOK, acceptVars
  <2>2. h \notin Stopped /\ Stopped' = Stopped \cup {h}
    BY <2>1 DEF Stopped
  <2>3. HandoffView!Stop(h)
    BY <2>1, <2>2 DEF HandoffView!Stop, WaitingLine, Stopped
  <2> QED BY <2>3 DEF HandoffView!Next
<1>6. \/ UNCHANGED <<held, acceptChan, sessions, servePc>>
      \/ \E h \in Handlers : \/ StartServe(h) \/ CloseListener(h) \/ AwaitAccept(h)
                              \/ Release(h) \/ Accept(h) \/ Send(h) \/ ServeConn(h)
                              \/ ServeCancelled(h)
  BY DEF ServeNext, serveVars, acceptVars, AcceptGoroutine, ServeGoroutine, Cancel, Arrive,
         AcceptFails, AcceptClosed
<1> QED BY <1>1, <1>2, <1>3, <1>4, <1>5, <1>6

\* Serve implements Handoff for any number of handlers, clients and any channel
\* capacity: sessions begin in the order of acceptance, at most one for each
\* connection and none after the handler stopped, and no more than ChanCap + 1
\* accepted connections ever wait.
THEOREM ServeImplementsHandoff == ServeSpec => HandsOffInOrder
BY HandoffInit, HandoffStep, HandoffInvAlways, PTL DEF ServeSpec, HandsOffInOrder, HandoffView!Spec

=============================================================================
