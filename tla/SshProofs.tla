------------------------------ MODULE SshProofs ------------------------------
(***************************************************************************)
(* Proofs about module SshSession, for any number of channels, any message *)
(* limit, any room for requests and any number of packets.                 *)
(***************************************************************************)
EXTENDS SshSession, FiniteSetTheorems, TLAPS

\* Where the goroutine of an accepted channel can be.
Places == ChanPcs \ {"unopened", "offered", "refused"}

\* The types, in the parts that the steps leave alone or change together.
WorldTypeOK ==
  /\ limit \in Nat \ {0}
  /\ packets \in 0 .. MaxPackets
  /\ {ctxDone, clientGone, expired, closed, loginAttempted} \subseteq BOOLEAN
PcTypeOK == pc \in Pcs /\ muxPc \in MuxPcs
ChanTypeOK ==
  /\ chans \in Seq(Channels)
  /\ chanPc \in [Channels -> ChanPcs]
  /\ inHand \in (Channels \X (RequestTypes \cup {"close"})) \cup {NoRequest}
BufferTypeOK ==
  /\ requests \in [Channels -> Seq(RequestTypes)]
  /\ \A c \in Channels : Len(requests[c]) <= Room
  /\ typed \in [Channels -> Seq({"command", "exit"})]
EofTypeOK == eof \in [Channels -> BOOLEAN]
CountTypeOK ==
  /\ loaded \in [Channels -> Nat]
  /\ messageCount \in Nat /\ kept \in Nat /\ taken \in Nat
RecordTypeOK ==
  /\ disconnectReason \in Reasons \cup {NoReason}
  /\ record \in [reason : Reasons \cup {NoReason}, count : Nat, kept : Nat]

\* A channel waits in chans once, and its goroutine does not run yet; the mux is
\* stalled by a request for one whose goroutine does.
ChansOrder ==
  /\ \A i \in DOMAIN chans : chanPc[chans[i]] = "offered"
  /\ \A i, j \in DOMAIN chans : chans[i] = chans[j] => i = j
  /\ muxPc = "stalled" => inHand \in Channels \X RequestTypes /\ Accepted(inHand[1])

\* Nothing of the connection runs before the handshake is done.
HandshakeFirst ==
  pc \in {"banner", "handshake"} =>
    muxPc = "off" /\ ~closed /\ \A c \in Channels : ~Accepted(c)

\* The record is logged once, with a reason.
RecordOrder ==
  /\ pc \in {"log", "close", "returned"} => disconnectReason \in Reasons
  /\ IF pc \in {"close", "returned"} THEN record.reason \in Reasons
                                     ELSE record.reason = NoReason

\* A connection that only a channel goroutine can have closed has been closed
\* by one that is done, and no other is there to touch its reason.
ClosedByChannel ==
  muxPc # "off" /\ OneChannel /\ ~clientGone /\ ~expired /\ ~ctxDone =>
    /\ closed \/ muxPc \in {"dropped", "ended"} \/ pc \in {"log", "close", "returned"} =>
         \E c \in Channels : chanPc[c] = "done"
    /\ pc \in {"log", "close", "returned"} => disconnectReason = "client_disconnect"
    /\ record.reason \in {NoReason, "client_disconnect"}

Types == /\ WorldTypeOK /\ PcTypeOK /\ ChanTypeOK /\ BufferTypeOK /\ EofTypeOK
         /\ CountTypeOK /\ RecordTypeOK

SshInv == Types /\ ChansOrder /\ HandshakeFirst /\ RecordOrder /\ ClosedByChannel

-----------------------------------------------------------------------------
USE DEF NoReason

LEMMA TypesAreTypeOK == Types => TypeOK
BY Zenon DEF Types, TypeOK, WorldTypeOK, PcTypeOK, ChanTypeOK, BufferTypeOK, EofTypeOK,
             CountTypeOK, RecordTypeOK

\* A set of channels with one element at most has no second one.
LEMMA AtMostOne ==
  ASSUME NEW S \in SUBSET Channels, Cardinality(S) <= 1, NEW c \in S, NEW d \in S
  PROVE  c = d
<1>1. IsFiniteSet(S)
  <2>1. IsFiniteSet(Channels)
    BY SshAssumption, FS_Interval DEF Channels
  <2> QED BY <2>1, FS_Subset
<1>2. SUFFICES ASSUME c # d PROVE FALSE
  OBVIOUS
<1>3. Cardinality({c, d}) = 2
  <2>1. IsFiniteSet({c}) /\ Cardinality({c}) = 1
    BY FS_Singleton
  <2>2. Cardinality({c} \cup {d}) = Cardinality({c}) + 1
    BY <1>2, <2>1, FS_AddElement
  <2>3. {c} \cup {d} = {c, d}
    OBVIOUS
  <2> QED BY <2>1, <2>2, <2>3
<1>4. {c, d} \in SUBSET S
  OBVIOUS
<1>5. Cardinality(S) \in Nat
  BY <1>1, FS_CardinalityType
<1>6. Cardinality({c, d}) <= Cardinality(S)
  BY <1>1, <1>4, FS_Subset
<1> QED BY <1>3, <1>5, <1>6

\* Where there is one channel at most, two that were accepted are the same.
LEMMA OneChannelIsOne ==
  ASSUME OneChannel, NEW c \in Channels, NEW d \in Channels, Accepted(c), Accepted(d)
  PROVE  c = d
<1> DEFINE S == {e \in Channels : Accepted(e)}
<1>1. S \in SUBSET Channels /\ Cardinality(S) <= 1 /\ c \in S /\ d \in S
  BY DEF OneChannel
<1> HIDE DEF S
<1> QED BY <1>1, AtMostOne

LEMMA OneChannelIsOneThen ==
  ASSUME OneChannel', NEW c \in Channels, NEW d \in Channels, Accepted(c)', Accepted(d)'
  PROVE  c = d
<1> DEFINE S == {e \in Channels : Accepted(e)'}
<1>1. S \in SUBSET Channels /\ Cardinality(S) <= 1 /\ c \in S /\ d \in S
  BY DEF OneChannel
<1> HIDE DEF S
<1> QED BY <1>1, AtMostOne

\* More channels are never fewer.
LEMMA OneChannelBefore ==
  ASSUME OneChannel', \A c \in Channels : Accepted(c) => Accepted(c)'
  PROVE  OneChannel
<1> DEFINE S == {e \in Channels : Accepted(e)}
           T == {e \in Channels : Accepted(e)'}
<1>1. IsFiniteSet(Channels)
  BY SshAssumption, FS_Interval DEF Channels
<1>2. S \in SUBSET T /\ T \in SUBSET Channels
  OBVIOUS
<1>3. Cardinality(T) <= 1
  BY DEF OneChannel
<1> HIDE DEF S, T
<1>4. IsFiniteSet(T) /\ IsFiniteSet(S) /\ Cardinality(S) <= Cardinality(T)
  BY <1>1, <1>2, FS_Subset
<1>5. Cardinality(S) \in Nat /\ Cardinality(T) \in Nat
  BY <1>4, FS_CardinalityType
<1>6. Cardinality(S) <= 1
  BY <1>3, <1>4, <1>5
<1> QED BY <1>6 DEF OneChannel, S

LEMMA SshInit == Init => SshInv
<1> SUFFICES ASSUME Init PROVE SshInv
  OBVIOUS
<1> USE DEF Init
<1>1. WorldTypeOK
  <2>1. limit \in Nat \ {0}
    BY SshAssumption DEF Validate, DefaultLimit
  <2>2. packets \in 0 .. MaxPackets
    BY SshAssumption
  <2>3. {ctxDone, clientGone, expired, closed, loginAttempted} \subseteq BOOLEAN
    BY Zenon
  <2> QED BY <2>1, <2>2, <2>3 DEF WorldTypeOK
<1>2. PcTypeOK /\ ChanTypeOK /\ CountTypeOK /\ RecordTypeOK
  BY DEF PcTypeOK, ChanTypeOK, CountTypeOK, RecordTypeOK, Pcs, MuxPcs, ChanPcs
<1>3. BufferTypeOK
  BY SshAssumption DEF BufferTypeOK
<1>4. EofTypeOK
  BY Zenon DEF EofTypeOK
<1>5. ChansOrder /\ HandshakeFirst /\ RecordOrder /\ ClosedByChannel
  BY DEF ChansOrder, HandshakeFirst, RecordOrder, ClosedByChannel, Accepted
<1> QED BY <1>1, <1>2, <1>3, <1>4, <1>5 DEF SshInv, Types

-----------------------------------------------------------------------------
\* Its goroutine takes requests, or will again.
TakesRequests(c) == chanPc[c] \in {"requests", "reply"}

\* What a step of a channel's goroutine may do to the rest.
Served(c) ==
  /\ chanPc[c] \in Places \ {"done"} /\ chanPc'[c] \in Places
  /\ TakesRequests(c)' => TakesRequests(c)
  /\ \A d \in Channels : d # c => chanPc'[d] = chanPc[d]
  /\ UNCHANGED <<elsewhere, clientGone, expired>>
  /\ closed' = closed \/ (closed' = TRUE /\ chanPc'[c] = "done")
  /\ disconnectReason' \in ChannelReasons \cup {disconnectReason}
  /\ \A d \in Channels :
       requests'[d] = requests[d] \/ (d = c /\ chanPc[c] = "requests")

LEMMA ServeChannelStep ==
  ASSUME Types, NEW c \in Channels, ServeChannel(c)
  PROVE  Served(c) /\ ChanTypeOK' /\ BufferTypeOK' /\ CountTypeOK' /\ RecordTypeOK'
<1>0. ChanTypeOK /\ BufferTypeOK /\ CountTypeOK /\ RecordTypeOK
  BY DEF Types
<1> USE DEF Goto, buffers, counts, Places, ChanPcs, ChannelReasons, TakesRequests
<1>1. CASE TakeRequest(c)
  <2>1. PICK type \in RequestTypes :
          /\ chanPc[c] = "requests" /\ requests[c] # <<>> /\ type = Head(requests[c])
          /\ requests' = [requests EXCEPT ![c] = Tail(@)]
          /\ \E place \in {"requests", "reply", "prompt", "hangup", "farewell"} :
               chanPc' = [chanPc EXCEPT ![c] = place]
          /\ disconnectReason' \in {disconnectReason, "exec_requested"}
          /\ UNCHANGED <<elsewhere, wire, typed, counts>>
    BY <1>0, <1>1 DEF TakeRequest, BufferTypeOK, RequestTypes
  <2>2. Tail(requests[c]) \in Seq(RequestTypes) /\ Len(Tail(requests[c])) <= Room
    BY <1>0, <2>1, SshAssumption DEF BufferTypeOK
  <2>3. Served(c)
    BY <1>0, <2>1 DEF Served, ChanTypeOK, BufferTypeOK, wire
  <2>4. BufferTypeOK'
    BY <1>0, <2>1, <2>2 DEF BufferTypeOK
  <2>5. ChanTypeOK' /\ CountTypeOK' /\ RecordTypeOK'
    BY <1>0, <2>1 DEF ChanTypeOK, CountTypeOK, RecordTypeOK, Reasons, elsewhere, muxVars
  <2> QED BY <2>3, <2>4, <2>5
<1>2. CASE ReadLine(c)
  <2>1. /\ chanPc[c] = "shell" /\ typed[c] # <<>> /\ typed' = [typed EXCEPT ![c] = Tail(@)]
        /\ \/ /\ chanPc' = [chanPc EXCEPT ![c] = "farewell"] /\ disconnectReason' = "exit_command"
              /\ UNCHANGED taken
           \/ /\ chanPc' = [chanPc EXCEPT ![c] = "load"] /\ UNCHANGED disconnectReason
              /\ taken' = taken + 1
        /\ UNCHANGED <<elsewhere, wire, requests, loaded, messageCount, kept>>
    BY <1>2 DEF ReadLine
  <2>2. Tail(typed[c]) \in Seq({"command", "exit"})
    BY <1>0, <2>1 DEF BufferTypeOK
  <2>3. Served(c)
    BY <1>0, <2>1 DEF Served, ChanTypeOK, BufferTypeOK, wire
  <2>4. BufferTypeOK'
    BY <1>0, <2>1, <2>2 DEF BufferTypeOK
  <2>5. ChanTypeOK' /\ RecordTypeOK'
    BY <1>0, <2>1 DEF ChanTypeOK, RecordTypeOK, Reasons, elsewhere, muxVars
  <2>6. CountTypeOK'
    BY <1>0, <2>1 DEF CountTypeOK
  <2> QED BY <2>3, <2>4, <2>5, <2>6
<1>3. CASE RequestsEnd(c) \/ HangUp(c)
  <2>1. Served(c)
    BY <1>0, <1>3 DEF RequestsEnd, HangUp, Served, ChanTypeOK, BufferTypeOK, wire
  <2>2. BufferTypeOK'
    <3>1. <<>> \in Seq({"command", "exit"})
      OBVIOUS
    <3>2. typed' = [typed EXCEPT ![c] = <<>>] /\ requests' = requests
      BY <1>3 DEF RequestsEnd, HangUp
    <3>3. typed' \in [Channels -> Seq({"command", "exit"})]
      BY <1>0, <3>1, <3>2 DEF BufferTypeOK
    <3> QED BY <1>0, <3>2, <3>3 DEF BufferTypeOK
  <2>3. ChanTypeOK' /\ CountTypeOK' /\ RecordTypeOK'
    BY <1>0, <1>3
       DEF RequestsEnd, HangUp, ChanTypeOK, CountTypeOK, RecordTypeOK, elsewhere, muxVars
  <2> QED BY <2>1, <2>2, <2>3
<1>4. CASE \/ Written(c) \/ ShellEnds(c) \/ CheckLimit(c)
           \/ LoadCount(c) \/ StoreCount(c) \/ AppendMessage(c)
  <2> USE DEF Written, ShellEnds, CheckLimit, LoadCount, StoreCount, AppendMessage
  <2>1. Served(c)
    BY <1>0, <1>4 DEF Served, ChanTypeOK, BufferTypeOK, wire
  <2>2. BufferTypeOK'
    BY <1>0, <1>4 DEF BufferTypeOK
  <2>3. ChanTypeOK' /\ RecordTypeOK'
    BY <1>0, <1>4 DEF ChanTypeOK, RecordTypeOK, Reasons, elsewhere, muxVars
  <2>4. CountTypeOK'
    BY <1>0, <1>4 DEF CountTypeOK
  <2> QED BY <2>1, <2>2, <2>3, <2>4
<1> QED BY <1>1, <1>2, <1>3, <1>4 DEF ServeChannel

\* The steps of the connection itself: of main, the clock, and handleConn.
ConnStep ==
  Cancel \/ ClientLeaves \/ DeadlinePasses \/ Handshake \/ HandleConn \/ UNCHANGED vars

LEMMA TypesStep ==
  ASSUME Types, ChansOrder, [Next]_vars
  PROVE  Types'
<1>0. /\ WorldTypeOK /\ PcTypeOK /\ ChanTypeOK /\ BufferTypeOK /\ EofTypeOK
      /\ CountTypeOK /\ RecordTypeOK
  BY DEF Types
<1>1. ASSUME NEW c \in Channels, ServeChannel(c) PROVE Types'
  <2>1. ChanTypeOK' /\ BufferTypeOK' /\ CountTypeOK' /\ RecordTypeOK'
    BY <1>1, ServeChannelStep
  <2>2. /\ UNCHANGED <<elsewhere, clientGone, expired>> /\ closed' \in {closed, TRUE}
    BY <1>1, ServeChannelStep DEF Served
  <2>3. WorldTypeOK' /\ PcTypeOK' /\ EofTypeOK'
    BY <1>0, <2>2, Zenon DEF WorldTypeOK, PcTypeOK, EofTypeOK, elsewhere, muxVars
  <2> QED BY <2>1, <2>3 DEF Types
<1>2. CASE ConnStep
  <2> USE DEF ConnStep, Cancel, ClientLeaves, DeadlinePasses, Handshake, ReadBanner,
              PasswordCallback, HandshakeDone, HandshakeFails, HandleConn, ServeCancelled,
              ChansClosed, TakeChannel, LogRecord, CloseConn, vars, world, wire, muxVars,
              chanVars, buffers, counts, capture, elsewhere
  <2>1. /\ UNCHANGED <<limit, packets, inHand, buffers, eof, counts>>
        /\ ctxDone' \in {ctxDone, TRUE} /\ clientGone' \in {clientGone, TRUE}
        /\ expired' \in {expired, TRUE} /\ closed' \in {closed, TRUE}
        /\ loginAttempted' \in {loginAttempted, TRUE}
    BY <1>2
  <2>2. WorldTypeOK' /\ EofTypeOK'
    BY <1>0, <2>1, Zenon DEF WorldTypeOK, EofTypeOK
  <2>3. BufferTypeOK' /\ CountTypeOK'
    BY <1>0, <2>1 DEF BufferTypeOK, CountTypeOK
  <2>4. PcTypeOK'
    BY <1>0, <1>2 DEF PcTypeOK, Pcs, MuxPcs
  <2>5. ChanTypeOK'
    <3>1. CASE TakeChannel
      <4>1. Head(chans) \in Channels /\ Tail(chans) \in Seq(Channels)
        BY <1>0, <3>1 DEF ChanTypeOK
      <4> QED BY <1>0, <3>1, <4>1 DEF ChanTypeOK, ChanPcs
    <3>2. CASE ~TakeChannel
      <4>1. UNCHANGED <<chans, chanPc, inHand>>
        BY <1>2, <3>2
      <4> QED BY <1>0, <4>1 DEF ChanTypeOK
    <3> QED BY <3>1, <3>2
  <2>6. RecordTypeOK'
    <3>1. CASE LogRecord
      BY <1>0, <3>1 DEF RecordTypeOK, CountTypeOK
    <3>2. CASE ~LogRecord
      <4>1. record' = record /\ disconnectReason' \in Reasons \cup {disconnectReason}
        BY <1>2, <3>2 DEF Reasons
      <4> QED BY <1>0, <4>1 DEF RecordTypeOK
    <3> QED BY <3>1, <3>2
  <2> QED BY <2>2, <2>3, <2>4, <2>5, <2>6 DEF Types
<1>3. CASE ClientSends
  <2> USE DEF Packet, world, muxVars, buffers, chanVars, capture
  <2> USE DEF ClientSends, OpenArrives, RequestArrives, LineArrives, CloseArrives
  <2>1. UNCHANGED <<limit, ctxDone, wire, pc, loaded, taken, capture, disconnectReason>>
    BY <1>3
  <2>2. packets' \in 0 .. MaxPackets
    <3>1. packets' = packets \/ (packets < MaxPackets /\ packets' = packets + 1)
      BY <1>3
    <3> QED BY <1>0, <3>1, SshAssumption DEF WorldTypeOK
  <2>3. WorldTypeOK' /\ PcTypeOK' /\ CountTypeOK' /\ RecordTypeOK'
    <3>1. muxPc' \in {muxPc, "stalled", "closing"}
      BY <1>3
    <3>2. PcTypeOK'
      BY <1>0, <2>1, <3>1 DEF PcTypeOK, MuxPcs
    <3>3. WorldTypeOK'
      BY <1>0, <2>1, <2>2, Zenon DEF WorldTypeOK, wire, capture
    <3>4. CountTypeOK' /\ RecordTypeOK'
      BY <1>0, <2>1 DEF CountTypeOK, RecordTypeOK, capture
    <3> QED BY <3>2, <3>3, <3>4
  <2>4. ASSUME NEW c \in Channels, OpenArrives(c)
        PROVE  ChanTypeOK' /\ BufferTypeOK' /\ EofTypeOK'
    <3>1. /\ chanPc' = [chanPc EXCEPT ![c] = "offered"] /\ chans' = Append(chans, c)
          /\ UNCHANGED <<inHand, buffers, eof>>
      BY <2>4 DEF OpenArrives
    <3> QED BY <1>0, <3>1 DEF ChanTypeOK, ChanPcs, BufferTypeOK, EofTypeOK
  <2>5. ASSUME NEW c \in Channels, NEW type \in RequestTypes, RequestArrives(c, type)
        PROVE  ChanTypeOK' /\ BufferTypeOK' /\ EofTypeOK'
    <3>1. /\ UNCHANGED <<chans, chanPc, typed, eof>>
          /\ \/ /\ Len(requests[c]) < Room /\ UNCHANGED muxVars
                /\ requests' = [requests EXCEPT ![c] = Append(@, type)]
             \/ inHand' = <<c, type>> /\ UNCHANGED requests
      BY <2>5 DEF RequestArrives
    <3>2. ChanTypeOK' /\ EofTypeOK'
      BY <1>0, <3>1 DEF ChanTypeOK, EofTypeOK
    <3>3. /\ Append(requests[c], type) \in Seq(RequestTypes)
          /\ Len(Append(requests[c], type)) = Len(requests[c]) + 1 /\ Len(requests[c]) \in Nat
      BY <1>0 DEF BufferTypeOK
    <3>4. CASE requests' = requests
      BY <1>0, <3>1, <3>2, <3>4 DEF BufferTypeOK
    <3>5. CASE Len(requests[c]) < Room /\ requests' = [requests EXCEPT ![c] = Append(@, type)]
      <4>1. requests' \in [Channels -> Seq(RequestTypes)]
        BY <1>0, <3>3, <3>5 DEF BufferTypeOK
      <4>2. ASSUME NEW d \in Channels PROVE Len(requests'[d]) <= Room
        BY <1>0, <3>3, <3>5, SshAssumption DEF BufferTypeOK
      <4> QED BY <1>0, <3>1, <3>2, <4>1, <4>2 DEF BufferTypeOK
    <3> QED BY <3>1, <3>2, <3>4, <3>5
  <2>6. ASSUME NEW c \in Channels, NEW line \in {"command", "exit"}, LineArrives(c, line)
        PROVE  ChanTypeOK' /\ BufferTypeOK' /\ EofTypeOK'
    <3>1. /\ typed' = [typed EXCEPT ![c] = Append(@, line)]
          /\ UNCHANGED <<inHand, chans, chanPc, requests, eof>>
      BY <2>6 DEF LineArrives
    <3>2. Append(typed[c], line) \in Seq({"command", "exit"})
      BY <1>0 DEF BufferTypeOK
    <3> QED BY <1>0, <3>1, <3>2 DEF ChanTypeOK, BufferTypeOK, EofTypeOK
  <2>7. ASSUME NEW c \in Channels, CloseArrives(c)
        PROVE  ChanTypeOK' /\ BufferTypeOK' /\ EofTypeOK'
    <3>1. inHand' = <<c, "close">> /\ UNCHANGED <<eof, chans, chanPc, buffers>>
      BY <2>7 DEF CloseArrives
    <3> QED BY <1>0, <3>1 DEF ChanTypeOK, BufferTypeOK, EofTypeOK
  <2> QED BY <1>3, <2>3, <2>4, <2>5, <2>6, <2>7 DEF ClientSends, Types
<1>4. CASE MuxGoesOn
  <2> USE DEF MuxGoesOn, PutInHand, CloseAnswered, DropChannels, CloseChans, world, wire,
              muxVars, buffers, chanVars, capture
  <2>1. /\ UNCHANGED <<limit, ctxDone, clientGone, expired, packets, pc, chans, chanPc, typed,
                       loaded, taken, capture, disconnectReason>>
        /\ closed' \in {closed, TRUE} /\ inHand' \in {inHand, NoRequest}
        /\ muxPc' \in {"read", "dropped", "ended"}
    BY <1>4
  <2>2. WorldTypeOK' /\ PcTypeOK' /\ ChanTypeOK' /\ CountTypeOK' /\ RecordTypeOK'
    BY <1>0, <2>1, Zenon
       DEF WorldTypeOK, PcTypeOK, MuxPcs, ChanTypeOK, CountTypeOK, RecordTypeOK
  <2>3. EofTypeOK'
    BY <1>0, <1>4 DEF EofTypeOK
  <2>4. BufferTypeOK'
    <3>1. CASE PutInHand
      <4>1. inHand \in Channels \X RequestTypes /\ Len(requests[inHand[1]]) < Room
        BY <3>1 DEF ChansOrder, Accepted
      <4>2. PICK c \in Channels, type \in RequestTypes :
              /\ Len(requests[c]) < Room
              /\ requests' = [requests EXCEPT ![c] = Append(@, type)]
              /\ typed' = typed
        BY <3>1, <4>1
      <4>3. /\ Append(requests[c], type) \in Seq(RequestTypes)
            /\ Len(Append(requests[c], type)) = Len(requests[c]) + 1 /\ Len(requests[c]) \in Nat
        BY <1>0 DEF BufferTypeOK
      <4> QED BY <1>0, <4>2, <4>3, SshAssumption DEF BufferTypeOK
    <3>2. CASE CloseAnswered \/ DropChannels \/ CloseChans
      BY <1>0, <3>2 DEF BufferTypeOK
    <3> QED BY <1>4, <3>1, <3>2
  <2> QED BY <2>2, <2>3, <2>4 DEF Types
<1> QED BY <1>1, <1>2, <1>3, <1>4 DEF Next, ConnStep

-----------------------------------------------------------------------------
\* The goroutine of a channel, once started, goes on until it is done.
LEMMA ChannelsGoOn ==
  ASSUME Types, ChansOrder, [Next]_vars, NEW d \in Channels
  PROVE  /\ Accepted(d) => Accepted(d)'
         /\ chanPc[d] = "done" => chanPc'[d] = "done"
<1>0. ChanTypeOK
  BY DEF Types
<1> USE DEF Accepted
<1>1. CASE \E c \in Channels : ServeChannel(c)
  <2>1. PICK c \in Channels : ServeChannel(c)
    BY <1>1
  <2>2. Served(c)
    BY <2>1, ServeChannelStep
  <2> QED BY <2>2 DEF Served, Places, ChanPcs
<1>2. CASE TakeChannel
  <2>1. chans # <<>> /\ Head(chans) = chans[1] /\ 1 \in DOMAIN chans
    BY <1>0, <1>2 DEF ChanTypeOK, TakeChannel
  <2>2. chanPc[Head(chans)] = "offered"
    BY <2>1 DEF ChansOrder
  <2>3. chanPc'[d] = chanPc[d] \/ d = Head(chans)
    BY <1>0, <1>2 DEF ChanTypeOK, TakeChannel
  <2> QED BY <2>2, <2>3
<1>3. CASE \E c \in Channels : OpenArrives(c)
  <2>1. PICK c \in Channels : OpenArrives(c)
    BY <1>3
  <2>2. chanPc[c] = "unopened" /\ chanPc' = [chanPc EXCEPT ![c] = "offered"]
    BY <2>1 DEF OpenArrives, Channels
  <2> QED BY <1>0, <2>2 DEF ChanTypeOK
<1>4. CASE /\ ConnStep \/ ClientSends \/ MuxGoesOn
           /\ ~TakeChannel /\ ~\E c \in Channels : OpenArrives(c)
  <2>1. chanPc' = chanPc
    BY <1>4 DEF ConnStep, Cancel, ClientLeaves, DeadlinePasses, Handshake, ReadBanner,
         PasswordCallback, HandshakeDone, HandshakeFails, HandleConn, ServeCancelled,
         ChansClosed, LogRecord, CloseConn, ClientSends, RequestArrives, LineArrives,
         CloseArrives, MuxGoesOn, PutInHand, CloseAnswered, DropChannels, CloseChans,
         vars, chanVars, elsewhere
  <2> QED BY <2>1
<1> QED BY <1>1, <1>2, <1>3, <1>4 DEF Next, ConnStep

LEMMA ChansOrderStep ==
  ASSUME Types, ChansOrder, HandshakeFirst, [Next]_vars
  PROVE  ChansOrder'
<1>0. ChanTypeOK
  BY DEF Types
<1>1. ASSUME NEW d \in Channels, Accepted(d)
      PROVE  chanPc'[d] \notin {"unopened", "offered", "refused"}
  BY <1>1, ChannelsGoOn DEF Accepted
<1>2. ASSUME muxPc = "stalled", muxPc' = "stalled", inHand' = inHand
      PROVE  inHand' \in Channels \X RequestTypes /\ Accepted(inHand[1])'
  BY <1>1, <1>2 DEF ChansOrder, Accepted
<1>3. CASE \E c \in Channels : ServeChannel(c)
  <2>1. PICK c \in Channels : ServeChannel(c)
    BY <1>3
  <2>2. Served(c)
    BY <2>1, ServeChannelStep
  <2>3. chans' = chans /\ muxPc' = muxPc /\ inHand' = inHand
    BY <2>2 DEF Served, elsewhere, muxVars
  <2>4. ASSUME NEW i \in DOMAIN chans PROVE chanPc'[chans[i]] = "offered"
    <3>1. chans[i] \in Channels /\ chanPc[chans[i]] = "offered"
      BY <1>0 DEF ChanTypeOK, ChansOrder
    <3>2. chans[i] # c
      BY <2>2, <3>1 DEF Served, Places
    <3> QED BY <2>2, <3>1, <3>2 DEF Served
  <2> QED BY <1>2, <2>3, <2>4 DEF ChansOrder
<1>4. CASE TakeChannel
  <2>1. chans # <<>> /\ chans' = Tail(chans) /\ UNCHANGED muxVars
    BY <1>4 DEF TakeChannel
  <2>2. PICK place \in ChanPcs : chanPc' = [chanPc EXCEPT ![chans[1]] = place]
    BY <1>0, <1>4 DEF TakeChannel, ChanPcs, ChanTypeOK
  <2>3. \A i \in DOMAIN Tail(chans) :
          Tail(chans)[i] = chans[i + 1] /\ i + 1 \in DOMAIN chans /\ i + 1 # 1
    BY <1>0, <2>1 DEF ChanTypeOK
  <2>4. 1 \in DOMAIN chans
    BY <1>0, <2>1 DEF ChanTypeOK
  <2>5. ASSUME NEW i \in DOMAIN Tail(chans) PROVE chanPc'[Tail(chans)[i]] = "offered"
    <3>1. chans[i + 1] # chans[1] /\ chanPc[chans[i + 1]] = "offered"
      BY <2>3, <2>4 DEF ChansOrder
    <3> QED BY <1>0, <2>2, <2>3, <3>1 DEF ChanTypeOK
  <2>6. ASSUME NEW i \in DOMAIN Tail(chans), NEW j \in DOMAIN Tail(chans),
               Tail(chans)[i] = Tail(chans)[j]
        PROVE  i = j
    <3>1. i + 1 = j + 1
      BY <2>3, <2>6 DEF ChansOrder
    <3> QED BY <1>0, <2>1, <3>1 DEF ChanTypeOK
  <2> QED BY <1>2, <2>1, <2>5, <2>6 DEF ChansOrder, muxVars
<1>5. CASE \E c \in Channels : OpenArrives(c)
  <2>1. PICK c \in Channels : OpenArrives(c)
    BY <1>5
  <2>2. /\ chanPc[c] = "unopened" /\ chanPc' = [chanPc EXCEPT ![c] = "offered"]
        /\ chans' = Append(chans, c) /\ UNCHANGED muxVars
    BY <2>1 DEF OpenArrives, Channels
  <2>3. \A i \in DOMAIN Append(chans, c) :
          \/ i = Len(chans) + 1 /\ Append(chans, c)[i] = c
          \/ i \in DOMAIN chans /\ Append(chans, c)[i] = chans[i]
    BY <1>0 DEF ChanTypeOK
  <2>4. \A i \in DOMAIN chans : chans[i] \in Channels /\ chanPc[chans[i]] = "offered"
    BY <1>0 DEF ChanTypeOK, ChansOrder
  <2>5. \A i \in DOMAIN chans' : chanPc'[chans'[i]] = "offered"
    BY <1>0, <2>2, <2>3, <2>4 DEF ChanTypeOK
  <2>6. \A i, j \in DOMAIN chans' : chans'[i] = chans'[j] => i = j
    BY <2>2, <2>3, <2>4 DEF ChansOrder
  <2> QED BY <1>2, <2>2, <2>5, <2>6 DEF ChansOrder, muxVars
<1>6. CASE \E c \in Channels, type \in RequestTypes : RequestArrives(c, type)
  <2>1. PICK c \in Channels, type \in RequestTypes : RequestArrives(c, type)
    BY <1>6
  <2>2. /\ Accepted(c) /\ UNCHANGED <<chans, chanPc>>
        /\ UNCHANGED muxVars \/ inHand' = <<c, type>>
    BY <2>1 DEF RequestArrives
  <2>3. ASSUME inHand' = <<c, type>>
        PROVE  inHand' \in Channels \X RequestTypes /\ Accepted(inHand[1])'
    BY <2>2, <2>3 DEF Accepted
  <2> QED BY <1>2, <2>2, <2>3 DEF ChansOrder, muxVars
<1>7. CASE /\ ConnStep \/ ClientSends \/ MuxGoesOn
           /\ ~TakeChannel /\ ~\E c \in Channels : OpenArrives(c)
           /\ ~\E c \in Channels, type \in RequestTypes : RequestArrives(c, type)
  <2>1. UNCHANGED <<chans, chanPc>> /\ (muxPc' = "stalled" => UNCHANGED muxVars)
    BY <1>7 DEF ConnStep, Cancel, ClientLeaves, DeadlinePasses, Handshake, ReadBanner,
         PasswordCallback, HandshakeDone, HandshakeFails, HandleConn, ServeCancelled,
         ChansClosed, LogRecord, CloseConn, ClientSends, LineArrives, CloseArrives,
         MuxGoesOn, PutInHand, CloseAnswered, DropChannels, CloseChans, vars, chanVars,
         muxVars, elsewhere
  <2> QED BY <1>2, <2>1 DEF ChansOrder, muxVars
<1> QED BY <1>3, <1>4, <1>5, <1>6, <1>7 DEF Next, ConnStep

LEMMA OrderStep ==
  ASSUME SshInv, [Next]_vars
  PROVE  HandshakeFirst' /\ RecordOrder'
<1>0. Types /\ ChansOrder /\ HandshakeFirst /\ RecordOrder /\ ChanTypeOK /\ RecordTypeOK
  BY DEF SshInv, Types
<1> USE DEF Accepted, Pcs, Reasons, HandshakeReasons, ChannelReasons
<1>1. CASE \E c \in Channels : ServeChannel(c)
  <2>1. PICK c \in Channels : ServeChannel(c)
    BY <1>1
  <2>2. Served(c)
    BY <1>0, <2>1, ServeChannelStep
  <2>3. Accepted(c) /\ pc' = pc /\ record' = record
    BY <2>2 DEF Served, Places, elsewhere
  <2>4. pc \notin {"banner", "handshake"}
    BY <1>0, <2>3 DEF HandshakeFirst
  <2>5. disconnectReason \in Reasons => disconnectReason' \in Reasons
    BY <2>2 DEF Served
  <2> QED BY <1>0, <2>3, <2>4, <2>5 DEF HandshakeFirst, RecordOrder
<1>2. CASE HandleConn
  <2> USE DEF HandleConn, ServeCancelled, ChansClosed, TakeChannel, LogRecord, CloseConn
  <2>1. HandshakeFirst'
    BY <1>0, <1>2 DEF HandshakeFirst
  <2>2. RecordOrder'
    BY <1>0, <1>2 DEF RecordOrder, capture
  <2> QED BY <2>1, <2>2
<1>3. CASE Handshake
  <2> USE DEF Handshake, ReadBanner, PasswordCallback, HandshakeDone, HandshakeFails
  <2>1. HandshakeFirst'
    BY <1>0, <1>3 DEF HandshakeFirst, world, wire, muxVars, chanVars
  <2>2. RecordOrder'
    BY <1>0, <1>3 DEF RecordOrder, capture
  <2> QED BY <2>1, <2>2
<1>4. CASE ClientSends \/ MuxGoesOn
  <2>1. pc' = pc /\ record' = record /\ disconnectReason' = disconnectReason /\ muxPc # "off"
    BY <1>4 DEF ClientSends, OpenArrives, RequestArrives, LineArrives, CloseArrives,
                Packet, MuxGoesOn, PutInHand, CloseAnswered, DropChannels, CloseChans,
                capture
  <2> QED BY <1>0, <2>1 DEF HandshakeFirst, RecordOrder
<1>5. CASE Cancel \/ ClientLeaves \/ DeadlinePasses \/ UNCHANGED vars
  <2>1. UNCHANGED <<pc, muxVars, closed, chanPc, record, disconnectReason>>
    BY <1>5 DEF Cancel, ClientLeaves, DeadlinePasses, vars, world, wire, chanVars, capture,
                elsewhere
  <2> QED BY <1>0, <2>1 DEF HandshakeFirst, RecordOrder, muxVars
<1> QED BY <1>1, <1>2, <1>3, <1>4, <1>5 DEF Next

\* A channel that has closed the connection was the only one.  Whatever the next
\* step, it does not touch the reason or, in handleConn, sets that of the client.
LEMMA ClosedByChannelStep ==
  ASSUME SshInv, [Next]_vars
  PROVE  ClosedByChannel'
<1>0. /\ Types /\ ChansOrder /\ HandshakeFirst /\ RecordOrder /\ ClosedByChannel
      /\ ChanTypeOK
  BY DEF SshInv, Types
<1> SUFFICES ASSUME muxPc' # "off", OneChannel', ~clientGone', ~expired', ~ctxDone'
             PROVE  /\ (closed' \/ muxPc' \in {"dropped", "ended"}
                         \/ pc' \in {"log", "close", "returned"})
                         => \E c \in Channels : chanPc'[c] = "done"
                    /\ pc' \in {"log", "close", "returned"}
                         => disconnectReason' = "client_disconnect"
                    /\ record'.reason \in {NoReason, "client_disconnect"}
  BY DEF ClosedByChannel
<1>1. OneChannel
  BY <1>0, ChannelsGoOn, OneChannelBefore
<1>2. (\E c \in Channels : chanPc[c] = "done") => \E c \in Channels : chanPc'[c] = "done"
  BY <1>0, ChannelsGoOn
<1>3. CASE \E c \in Channels : ServeChannel(c)
  <2>1. PICK c \in Channels : ServeChannel(c)
    BY <1>3
  <2>2. Served(c)
    BY <1>0, <2>1, ServeChannelStep
  <2>3. /\ muxPc' = muxPc /\ pc' = pc /\ record' = record
        /\ clientGone' = clientGone /\ expired' = expired /\ ctxDone' = ctxDone
        /\ closed' = closed \/ chanPc'[c] = "done"
    BY <2>2 DEF Served, elsewhere, muxVars
  <2>4. ASSUME NEW d \in Channels, chanPc[d] = "done" PROVE FALSE
    <3>1. Accepted(d) /\ Accepted(c) /\ chanPc[c] # "done"
      BY <2>2, <2>4 DEF Served, Places, Accepted
    <3>2. c = d
      BY <1>1, <3>1, OneChannelIsOne
    <3> QED BY <2>4, <3>1, <3>2
  <2> QED BY <1>0, <1>1, <2>3, <2>4 DEF ClosedByChannel
<1>4. CASE HandleConn
  <2> USE DEF HandleConn, ServeCancelled, ChansClosed, TakeChannel, LogRecord, CloseConn
  <2>1. UNCHANGED <<muxPc, clientGone, expired, ctxDone>>
    BY <1>4 DEF world, wire, muxVars
  <2>2. /\ (closed \/ muxPc \in {"dropped", "ended"} \/ pc \in {"log", "close", "returned"})
             => \E c \in Channels : chanPc[c] = "done"
        /\ pc \in {"log", "close", "returned"} => disconnectReason = "client_disconnect"
        /\ record.reason \in {NoReason, "client_disconnect"}
    BY <1>0, <1>1, <2>1 DEF ClosedByChannel
  <2> QED BY <1>2, <1>4, <2>1, <2>2 DEF world, wire, capture
<1>5. CASE HandshakeDone
  <2>1. ~closed /\ record.reason = NoReason /\ pc' = "serve" /\ muxPc' = "read"
    BY <1>0, <1>5 DEF HandshakeDone, HandshakeFirst, RecordOrder
  <2>2. closed' = closed /\ record' = record
    BY <1>5 DEF HandshakeDone, world, wire, capture
  <2> QED BY <2>1, <2>2
<1>6. CASE ReadBanner \/ PasswordCallback \/ \E reason \in HandshakeReasons : HandshakeFails(reason)
  <2>1. muxPc = "off" /\ muxPc' = muxPc
    BY <1>0, <1>6 DEF ReadBanner, PasswordCallback, HandshakeFails, HandshakeFirst, muxVars
  <2> QED BY <2>1
<1>7. CASE ClientSends \/ MuxGoesOn
  <2>1. /\ UNCHANGED <<pc, record, disconnectReason, clientGone, expired, ctxDone>>
        /\ muxPc # "off"
        /\ closed' = closed \/ muxPc = "dropped"
        /\ muxPc' \in {"dropped", "ended"} => muxPc = "dropped" \/ WireDown
    BY <1>7 DEF ClientSends, OpenArrives, RequestArrives, LineArrives, CloseArrives,
                Packet, MuxGoesOn, PutInHand, CloseAnswered, DropChannels, CloseChans,
                capture, world, wire, muxVars
  <2> QED BY <1>0, <1>1, <1>2, <2>1 DEF ClosedByChannel, WireDown
<1>8. CASE Cancel \/ ClientLeaves \/ DeadlinePasses
  BY <1>8 DEF Cancel, ClientLeaves, DeadlinePasses
<1>9. CASE UNCHANGED vars
  <2>1. UNCHANGED <<pc, muxPc, clientGone, expired, ctxDone, closed, chanPc, record,
                    disconnectReason>>
    BY <1>9 DEF vars, world, wire, muxVars, chanVars, capture
  <2> QED BY <1>0, <1>1, <2>1 DEF ClosedByChannel
<1> QED BY <1>3, <1>4, <1>5, <1>6, <1>7, <1>8, <1>9 DEF Next, Handshake

LEMMA SshStep == SshInv /\ [Next]_vars => SshInv'
<1> SUFFICES ASSUME SshInv, [Next]_vars PROVE SshInv'
  OBVIOUS
<1>1. Types /\ ChansOrder /\ HandshakeFirst
  BY DEF SshInv
<1>2. Types' /\ ChansOrder'
  BY <1>1, TypesStep, ChansOrderStep
<1> QED BY <1>2, OrderStep, ClosedByChannelStep DEF SshInv

LEMMA SshAlways == Spec => []SshInv
BY SshInit, SshStep, PTL DEF Spec

-----------------------------------------------------------------------------
(* What the shells count and keep: a goroutine that has read a command is  *)
(* busy with it until it has counted it and kept it.                       *)

Pending == {c \in Channels : chanPc[c] \in {"load", "store"}}
Unkept == {c \in Channels : chanPc[c] \in {"load", "store", "append"}}

\* Every goroutine that has not yet counted, or kept, its command holds back one
\* of those taken, and stale values that are about to be stored are no greater.
CountsLag ==
  /\ messageCount + Cardinality(Pending) <= taken
  /\ kept + Cardinality(Unkept) <= taken
  /\ \A c \in Pending : chanPc[c] = "store" => loaded[c] + Cardinality(Pending) <= taken
  /\ \A c \in Unkept : chanPc[c] = "append" => loaded[c] + Cardinality(Unkept) <= taken

\* What the shell of the only channel has read, counted and kept.
One(c) ==
  /\ taken <= limit
  /\ taken = messageCount + (IF c \in Pending THEN 1 ELSE 0)
  /\ taken = kept + (IF c \in Unkept THEN 1 ELSE 0)
  /\ TakesRequests(c) => taken = 0
  /\ chanPc[c] \in {"prompt", "shell"} => taken < limit
  /\ chanPc[c] = "store" => loaded[c] = messageCount
  /\ chanPc[c] = "append" => loaded[c] = kept

CountsExact ==
  OneChannel =>
    /\ \A c \in Channels : Accepted(c) => One(c)
    /\ (\A c \in Channels : ~Accepted(c)) => messageCount = 0 /\ kept = 0 /\ taken = 0
    /\ record.kept \in {record.count - 1, record.count}

Counts == CountsLag /\ CountsExact

\* The size of a set of channels when one joins or leaves it.
LEMMA OneMoreOrLess ==
  ASSUME NEW S \in SUBSET Channels, NEW c \in Channels
  PROVE  /\ Cardinality(S) \in Nat
         /\ c \notin S => Cardinality(S \cup {c}) = Cardinality(S) + 1
         /\ c \in S => Cardinality(S \ {c}) = Cardinality(S) - 1
<1>1. IsFiniteSet(S)
  <2>1. IsFiniteSet(Channels)
    BY SshAssumption, FS_Interval DEF Channels
  <2> QED BY <2>1, FS_Subset
<1>2. Cardinality(S) \in Nat
  BY <1>1, FS_CardinalityType
<1>3. ASSUME c \notin S PROVE Cardinality(S \cup {c}) = Cardinality(S) + 1
  BY <1>1, <1>3, FS_AddElement
<1>4. ASSUME c \in S PROVE Cardinality(S \ {c}) = Cardinality(S) - 1
  BY <1>1, <1>4, FS_RemoveElement
<1> QED BY <1>2, <1>3, <1>4

LEMMA CountsInit == Init => Counts
<1> SUFFICES ASSUME Init PROVE Counts
  OBVIOUS
<1>1. Pending = {} /\ Unkept = {}
  BY DEF Init, Pending, Unkept
<1>2. Cardinality({}) = 0
  BY FS_EmptySet
<1>3. CountsLag
  BY <1>1, <1>2 DEF Init, CountsLag
<1>4. CountsExact
  BY DEF Init, CountsExact, Accepted
<1> QED BY <1>3, <1>4 DEF Counts

\* A step that is no goroutine's of a channel leaves the counts alone, and moves
\* only channels whose goroutine has not begun.
Quiet ==
  /\ UNCHANGED <<limit, counts>>
  /\ \A c \in Channels :
       chanPc'[c] # chanPc[c] => ~Accepted(c) /\ chanPc'[c] \in {"offered", "refused", "requests"}

LEMMA QuietStep ==
  ASSUME Types, ChansOrder, [Next]_vars, ~\E c \in Channels : ServeChannel(c)
  PROVE  Quiet
<1>0. ChanTypeOK
  BY DEF Types
<1> USE DEF counts, capture, chanVars, world, Accepted
<1>1. CASE TakeChannel
  <2>1. /\ Head(chans) \in Channels /\ chanPc[Head(chans)] = "offered"
    <3>1. chans # <<>> /\ Head(chans) = chans[1] /\ 1 \in DOMAIN chans
      BY <1>0, <1>1 DEF ChanTypeOK, TakeChannel
    <3> QED BY <1>0, <3>1 DEF ChanTypeOK, ChansOrder
  <2>2. UNCHANGED <<limit, counts>>
    BY <1>1 DEF TakeChannel
  <2>3. \/ chanPc' = [chanPc EXCEPT ![Head(chans)] = "requests"]
        \/ chanPc' = [chanPc EXCEPT ![Head(chans)] = "refused"]
    BY <1>1 DEF TakeChannel
  <2> QED BY <1>0, <2>1, <2>2, <2>3 DEF ChanTypeOK, Quiet
<1>2. ASSUME NEW c \in Channels, OpenArrives(c) PROVE Quiet
  <2>1. /\ chanPc[c] = "unopened" /\ chanPc' = [chanPc EXCEPT ![c] = "offered"]
        /\ UNCHANGED <<limit, counts>>
    BY <1>2 DEF OpenArrives, Channels
  <2> QED BY <1>0, <2>1 DEF ChanTypeOK, Quiet
<1>3. CASE ~TakeChannel /\ ~\E c \in Channels : OpenArrives(c)
  <2>1. UNCHANGED <<limit, counts, chanPc>>
    BY <1>3 DEF Next, Cancel, ClientLeaves, DeadlinePasses, Handshake, ReadBanner,
       PasswordCallback, HandshakeDone, HandshakeFails, HandleConn, ServeCancelled, ChansClosed,
       LogRecord, CloseConn, ClientSends, RequestArrives, LineArrives, CloseArrives,
       Packet, MuxGoesOn, PutInHand, CloseAnswered, DropChannels, CloseChans, vars,
       elsewhere
  <2> QED BY <2>1 DEF Quiet
<1> QED BY <1>1, <1>2, <1>3

\* What a step of a channel's goroutine does to the counts.
Counting(c) ==
  \/ /\ chanPc[c] = "shell" /\ chanPc'[c] = "load"
     /\ taken' = taken + 1 /\ UNCHANGED <<loaded, messageCount, kept>>
  \/ /\ chanPc[c] = "load" /\ chanPc'[c] = "store"
     /\ loaded' = [loaded EXCEPT ![c] = messageCount] /\ UNCHANGED <<taken, messageCount, kept>>
  \/ /\ chanPc[c] = "store" /\ chanPc'[c] = "append"
     /\ messageCount' = loaded[c] + 1 /\ loaded' = [loaded EXCEPT ![c] = kept]
     /\ UNCHANGED <<taken, kept>>
  \/ /\ chanPc[c] = "append" /\ chanPc'[c] = "limit"
     /\ kept' = loaded[c] + 1 /\ loaded' = [loaded EXCEPT ![c] = 0]
     /\ UNCHANGED <<taken, messageCount>>
  \/ /\ {chanPc[c], chanPc'[c]} \cap {"load", "store", "append"} = {}
     /\ chanPc'[c] \in {"prompt", "shell"} =>
          \/ chanPc[c] \in {"requests", "prompt"}
          \/ chanPc[c] = "limit" /\ messageCount < limit
     /\ UNCHANGED counts

LEMMA CountingStep ==
  ASSUME Types, NEW c \in Channels, ServeChannel(c)
  PROVE  Counting(c)
<1>0. ChanTypeOK /\ CountTypeOK /\ limit \in Nat
  BY DEF Types, WorldTypeOK
<1> USE DEF Goto, counts, Counting
<1>1. CASE ReadLine(c)
  BY <1>0, <1>1 DEF ReadLine, ChanTypeOK
<1>2. CASE LoadCount(c) \/ StoreCount(c) \/ AppendMessage(c)
  BY <1>0, <1>2 DEF LoadCount, StoreCount, AppendMessage, ChanTypeOK
<1>3. CASE CheckLimit(c)
  BY <1>0, <1>3 DEF CheckLimit, ChanTypeOK, CountTypeOK
<1>4. CASE TakeRequest(c) \/ Written(c) \/ RequestsEnd(c) \/ ShellEnds(c) \/ HangUp(c)
  BY <1>0, <1>4 DEF TakeRequest, Written, RequestsEnd, ShellEnds, HangUp, ChanTypeOK
<1> QED BY <1>1, <1>2, <1>3, <1>4 DEF ServeChannel

LEMMA CountsLagStep ==
  ASSUME SshInv, CountsLag, [Next]_vars
  PROVE  CountsLag'
<1>0. /\ Types /\ ChansOrder /\ chanPc \in [Channels -> ChanPcs] /\ CountTypeOK
      /\ loaded \in [Channels -> Nat] /\ messageCount \in Nat /\ kept \in Nat /\ taken \in Nat
  BY DEF SshInv, Types, ChanTypeOK, CountTypeOK
<1>1. Pending \in SUBSET Channels /\ Unkept \in SUBSET Channels
  BY DEF Pending, Unkept
<1>2. Cardinality(Pending) \in Nat /\ Cardinality(Unkept) \in Nat
  <2>1. CASE Channels = {}
    <3>1. Pending = {} /\ Unkept = {}
      BY <1>1, <2>1
    <3> QED BY <3>1, FS_EmptySet
  <2>2. ASSUME NEW c \in Channels PROVE Cardinality(Pending) \in Nat /\ Cardinality(Unkept) \in Nat
    BY <1>1, OneMoreOrLess
  <2> QED BY <2>1, <2>2
<1>3. CASE ~\E c \in Channels : ServeChannel(c)
  <2>1. Quiet
    BY <1>0, <1>3, QuietStep
  <2>2. Pending' = Pending /\ Unkept' = Unkept
    BY <2>1 DEF Quiet, Pending, Unkept, Accepted
  <2>3. \A c \in Unkept : chanPc'[c] = chanPc[c]
    BY <2>1 DEF Quiet, Unkept, Accepted
  <2> QED BY <2>1, <2>2, <2>3 DEF CountsLag, Quiet, counts, Pending, Unkept
<1>4. ASSUME NEW c \in Channels, ServeChannel(c)
      PROVE  CountsLag'
  <2>1. /\ Counting(c) /\ Served(c)
        /\ messageCount' \in Nat /\ kept' \in Nat /\ taken' \in Nat
    BY <1>0, <1>4, CountingStep, ServeChannelStep DEF CountTypeOK
  <2>2. \A d \in Channels : d # c => chanPc'[d] = chanPc[d]
    BY <2>1 DEF Served
  <2>3. /\ c \notin Pending => Cardinality(Pending \cup {c}) = Cardinality(Pending) + 1
        /\ c \in Pending => Cardinality(Pending \ {c}) = Cardinality(Pending) - 1
        /\ c \notin Unkept => Cardinality(Unkept \cup {c}) = Cardinality(Unkept) + 1
        /\ c \in Unkept => Cardinality(Unkept \ {c}) = Cardinality(Unkept) - 1
    BY <1>1, OneMoreOrLess
  <2>4. CASE chanPc[c] = "shell" /\ chanPc'[c] = "load"
    <3>1. Pending' = Pending \cup {c} /\ Unkept' = Unkept \cup {c} /\ c \notin Pending /\ c \notin Unkept
      BY <2>2, <2>4 DEF Pending, Unkept
    <3>2. taken' = taken + 1 /\ UNCHANGED <<loaded, messageCount, kept>>
      BY <2>1, <2>4 DEF Counting
    <3>3. /\ messageCount' + Cardinality(Pending') <= taken'
          /\ kept' + Cardinality(Unkept') <= taken'
      BY <1>0, <1>2, <2>3, <3>1, <3>2 DEF CountsLag
    <3>4. ASSUME NEW d \in Pending', chanPc'[d] = "store"
          PROVE  loaded'[d] + Cardinality(Pending') <= taken'
      <4>1. d \in Pending /\ chanPc[d] = "store"
        BY <1>1, <2>2, <2>4, <3>1, <3>4
      <4> QED BY <1>0, <1>1, <1>2, <2>3, <3>1, <3>2, <4>1 DEF CountsLag
    <3>5. ASSUME NEW d \in Unkept', chanPc'[d] = "append"
          PROVE  loaded'[d] + Cardinality(Unkept') <= taken'
      <4>1. d \in Unkept /\ chanPc[d] = "append"
        BY <1>1, <2>2, <2>4, <3>1, <3>5
      <4> QED BY <1>0, <1>1, <1>2, <2>3, <3>1, <3>2, <4>1 DEF CountsLag
    <3> QED BY <3>3, <3>4, <3>5 DEF CountsLag
  <2>5. CASE chanPc[c] = "load" /\ chanPc'[c] = "store"
    <3>1. Pending' = Pending /\ Unkept' = Unkept
      BY <2>2, <2>5 DEF Pending, Unkept
    <3>2. loaded' = [loaded EXCEPT ![c] = messageCount] /\ UNCHANGED <<taken, messageCount, kept>>
      BY <2>1, <2>5 DEF Counting
    <3> QED BY <1>0, <1>1, <2>2, <2>5, <3>1, <3>2 DEF CountsLag
  <2>6. CASE chanPc[c] = "store" /\ chanPc'[c] = "append"
    <3>1. Pending' = Pending \ {c} /\ Unkept' = Unkept /\ c \in Pending /\ c \in Unkept
      BY <2>2, <2>6 DEF Pending, Unkept
    <3>2. /\ messageCount' = loaded[c] + 1 /\ loaded' = [loaded EXCEPT ![c] = kept]
          /\ UNCHANGED <<taken, kept>>
      BY <2>1, <2>6 DEF Counting
    <3>3. messageCount' + Cardinality(Pending') <= taken'
      BY <1>0, <1>2, <2>3, <2>6, <3>1, <3>2 DEF CountsLag
    <3>4. ASSUME NEW d \in Pending', chanPc'[d] = "store"
          PROVE  loaded'[d] + Cardinality(Pending') <= taken'
      <4>1. d \in Pending /\ d # c /\ chanPc[d] = "store" /\ loaded'[d] = loaded[d]
        BY <1>0, <1>1, <2>2, <3>1, <3>2, <3>4
      <4>2. loaded[d] + Cardinality(Pending) <= taken /\ loaded[d] \in Nat
        BY <1>0, <1>1, <4>1 DEF CountsLag
      <4> QED BY <1>0, <1>2, <2>3, <3>1, <3>2, <4>1, <4>2
    <3>5. ASSUME NEW d \in Unkept', chanPc'[d] = "append"
          PROVE  loaded'[d] + Cardinality(Unkept') <= taken'
      BY <1>0, <1>1, <2>2, <3>1, <3>2, <3>5 DEF CountsLag
    <3> QED BY <3>1, <3>2, <3>3, <3>4, <3>5 DEF CountsLag
  <2>7. CASE chanPc[c] = "append" /\ chanPc'[c] = "limit"
    <3>1. Pending' = Pending /\ Unkept' = Unkept \ {c} /\ c \notin Pending /\ c \in Unkept
      BY <2>2, <2>7 DEF Pending, Unkept
    <3>2. /\ kept' = loaded[c] + 1 /\ loaded' = [loaded EXCEPT ![c] = 0]
          /\ UNCHANGED <<taken, messageCount>>
      BY <2>1, <2>7 DEF Counting
    <3>3. kept' + Cardinality(Unkept') <= taken'
      BY <1>0, <1>2, <2>3, <2>7, <3>1, <3>2 DEF CountsLag
    <3>4. ASSUME NEW d \in Pending', chanPc'[d] = "store"
          PROVE  loaded'[d] + Cardinality(Pending') <= taken'
      BY <1>0, <1>1, <2>2, <3>1, <3>2, <3>4 DEF CountsLag
    <3>5. ASSUME NEW d \in Unkept', chanPc'[d] = "append"
          PROVE  loaded'[d] + Cardinality(Unkept') <= taken'
      <4>1. d \in Unkept /\ d # c /\ chanPc[d] = "append" /\ loaded'[d] = loaded[d]
        BY <1>0, <1>1, <2>2, <3>1, <3>2, <3>5
      <4>2. loaded[d] + Cardinality(Unkept) <= taken /\ loaded[d] \in Nat
        BY <1>0, <1>1, <4>1 DEF CountsLag
      <4> QED BY <1>0, <1>2, <2>3, <3>1, <3>2, <4>1, <4>2
    <3> QED BY <3>1, <3>2, <3>3, <3>4, <3>5 DEF CountsLag
  <2>8. CASE /\ {chanPc[c], chanPc'[c]} \cap {"load", "store", "append"} = {}
             /\ UNCHANGED counts
    <3>1. Pending' = Pending /\ Unkept' = Unkept /\ \A d \in Unkept : chanPc'[d] = chanPc[d]
      BY <2>2, <2>8 DEF Pending, Unkept
    <3> QED BY <2>8, <3>1 DEF CountsLag, counts, Pending, Unkept
  <2> QED BY <2>1, <2>4, <2>5, <2>6, <2>7, <2>8 DEF Counting
<1> QED BY <1>3, <1>4

LEMMA CountsExactStep ==
  ASSUME SshInv, CountsExact, [Next]_vars
  PROVE  CountsExact'
<1>0. /\ Types /\ ChansOrder /\ chanPc \in [Channels -> ChanPcs] /\ limit \in Nat \ {0}
      /\ loaded \in [Channels -> Nat] /\ messageCount \in Nat /\ kept \in Nat /\ taken \in Nat
  BY DEF SshInv, Types, WorldTypeOK, ChanTypeOK, CountTypeOK
<1>1. SUFFICES ASSUME OneChannel'
               PROVE  /\ \A c \in Channels : Accepted(c)' => One(c)'
                      /\ (\A c \in Channels : ~Accepted(c)') =>
                           messageCount' = 0 /\ kept' = 0 /\ taken' = 0
                      /\ record'.kept \in {record'.count - 1, record'.count}
  BY DEF CountsExact
<1>2. CASE ~\E c \in Channels : ServeChannel(c)
  <2>1. Quiet
    BY <1>0, <1>2, QuietStep
  <2>2. /\ OneChannel /\ \A c \in Channels : Accepted(c) => Accepted(c)' /\ chanPc'[c] = chanPc[c]
    <3>1. \A c \in Channels : Accepted(c) => Accepted(c)' /\ chanPc'[c] = chanPc[c]
      BY <2>1 DEF Quiet, Accepted
    <3> QED BY <1>1, <3>1, OneChannelBefore
  <2>3. ASSUME NEW c \in Channels, Accepted(c)' PROVE One(c)'
    <3>1. CASE Accepted(c)
      BY <2>1, <2>2, <3>1 DEF CountsExact, One, TakesRequests, Quiet, counts, Pending, Unkept
    <3>2. CASE ~Accepted(c)
      <4>1. \A d \in Channels : ~Accepted(d)
        BY <1>1, <2>2, <2>3, <3>2, OneChannelIsOneThen
      <4>2. messageCount' = 0 /\ kept' = 0 /\ taken' = 0 /\ limit' = limit
        BY <2>1, <2>2, <4>1 DEF CountsExact, Quiet, counts
      <4>3. chanPc'[c] = "requests"
        BY <2>1, <2>3, <3>2 DEF Quiet, Accepted
      <4> QED BY <1>0, <4>2, <4>3 DEF One, TakesRequests, Pending, Unkept
    <3> QED BY <3>1, <3>2
  <2>4. ASSUME \A c \in Channels : ~Accepted(c)'
        PROVE  messageCount' = 0 /\ kept' = 0 /\ taken' = 0
    BY <2>1, <2>2, <2>4 DEF CountsExact, Quiet, counts
  <2>5. record'.kept \in {record'.count - 1, record'.count}
    <3>1. CASE LogRecord
      <4>1. record'.count = messageCount /\ record'.kept = kept
        BY <3>1 DEF LogRecord
      <4>2. CASE \A c \in Channels : ~Accepted(c)
        BY <2>2, <4>1, <4>2 DEF CountsExact
      <4>3. ASSUME NEW c \in Channels, Accepted(c)
            PROVE  record'.kept \in {record'.count - 1, record'.count}
        <5>1. One(c)
          BY <2>2, <4>3 DEF CountsExact
        <5>2. c \in Pending => c \in Unkept
          BY DEF Pending, Unkept
        <5> QED BY <1>0, <4>1, <5>1, <5>2 DEF One
      <4> QED BY <4>2, <4>3
    <3>2. CASE ~LogRecord
      <4>1. record' = record
        BY <1>2, <3>2 DEF Next, Cancel, ClientLeaves, DeadlinePasses, Handshake, ReadBanner,
           PasswordCallback, HandshakeDone, HandshakeFails, HandleConn, ServeCancelled,
           ChansClosed, TakeChannel, CloseConn, ClientSends, OpenArrives, RequestArrives,
           LineArrives, CloseArrives, MuxGoesOn, PutInHand, CloseAnswered, DropChannels,
           CloseChans, vars, elsewhere, capture
      <4> QED BY <2>2, <4>1 DEF CountsExact
    <3> QED BY <3>1, <3>2
  <2> QED BY <2>3, <2>4, <2>5
<1>3. ASSUME NEW c \in Channels, ServeChannel(c)
      PROVE  /\ \A d \in Channels : Accepted(d)' => One(d)'
             /\ (\A d \in Channels : ~Accepted(d)') =>
                  messageCount' = 0 /\ kept' = 0 /\ taken' = 0
             /\ record'.kept \in {record'.count - 1, record'.count}
  <2>1. Counting(c) /\ Served(c)
    BY <1>0, <1>3, CountingStep, ServeChannelStep
  <2>2. Accepted(c) /\ Accepted(c)' /\ \A d \in Channels : Accepted(d) => Accepted(d)'
    BY <2>1 DEF Served, Places, Accepted
  <2>3. OneChannel
    BY <1>1, <2>2, OneChannelBefore
  <2>4. One(c) /\ record.kept \in {record.count - 1, record.count}
    BY <2>2, <2>3 DEF CountsExact
  <2>5. \A d \in Channels : Accepted(d)' => d = c
    BY <1>1, <2>2, OneChannelIsOneThen
  <2>6. UNCHANGED <<limit, record>> /\ (TakesRequests(c)' => TakesRequests(c))
    BY <2>1 DEF Served, elsewhere
  <2>7. One(c)'
    <3>1. /\ c \in Pending <=> chanPc[c] \in {"load", "store"}
          /\ c \in Unkept <=> chanPc[c] \in {"load", "store", "append"}
          /\ c \in Pending' <=> chanPc'[c] \in {"load", "store"}
          /\ c \in Unkept' <=> chanPc'[c] \in {"load", "store", "append"}
      BY DEF Pending, Unkept
    <3>2. /\ taken \in Nat /\ limit \in Nat \ {0} /\ messageCount \in Nat /\ kept \in Nat
          /\ loaded \in [Channels -> Nat] /\ One(c) /\ limit' = limit
          /\ TakesRequests(c)' => TakesRequests(c)
      BY <1>0, <2>4, <2>6
    <3>3. CASE chanPc[c] = "shell" /\ chanPc'[c] = "load"
      <4>1. taken' = taken + 1 /\ UNCHANGED <<loaded, messageCount, kept>>
        BY <2>1, <3>3 DEF Counting
      <4> QED BY <3>1, <3>2, <3>3, <4>1 DEF One, TakesRequests
    <3>4. CASE chanPc[c] = "load" /\ chanPc'[c] = "store"
      <4>1. /\ loaded'[c] = messageCount /\ UNCHANGED <<taken, messageCount, kept>>
        BY <2>1, <3>2, <3>4 DEF Counting
      <4> QED BY <3>1, <3>2, <3>4, <4>1 DEF One, TakesRequests
    <3>5. CASE chanPc[c] = "store" /\ chanPc'[c] = "append"
      <4>1. /\ messageCount' = loaded[c] + 1 /\ loaded'[c] = kept /\ UNCHANGED <<taken, kept>>
        BY <2>1, <3>2, <3>5 DEF Counting
      <4> QED BY <3>1, <3>2, <3>5, <4>1 DEF One, TakesRequests
    <3>6. CASE chanPc[c] = "append" /\ chanPc'[c] = "limit"
      <4>1. kept' = loaded[c] + 1 /\ UNCHANGED <<taken, messageCount>>
        BY <2>1, <3>6 DEF Counting
      <4> QED BY <3>1, <3>2, <3>6, <4>1 DEF One, TakesRequests
    <3>7. CASE {chanPc[c], chanPc'[c]} \cap {"load", "store", "append"} = {}
      <4>1. /\ UNCHANGED <<loaded, messageCount, kept, taken>>
            /\ chanPc'[c] \in {"prompt", "shell"} =>
                 \/ chanPc[c] \in {"requests", "prompt"}
                 \/ chanPc[c] = "limit" /\ messageCount < limit
        BY <2>1, <3>7 DEF Counting, counts
      <4>2. /\ chanPc[c] \notin {"load", "store", "append"}
            /\ chanPc'[c] \notin {"load", "store", "append"}
        BY <3>7
      <4>3. c \notin Pending /\ c \notin Unkept /\ c \notin Pending' /\ c \notin Unkept'
        BY <3>1, <4>2
      <4>4. taken = messageCount /\ taken = kept /\ taken <= limit
        BY <3>2, <4>3 DEF One
      <4>5. /\ TakesRequests(c)' => taken = 0
            /\ chanPc'[c] \in {"prompt", "shell"} => taken < limit
        BY <3>2, <4>1, <4>4 DEF One, TakesRequests
      <4> QED BY <3>2, <4>1, <4>2, <4>3, <4>4, <4>5 DEF One
    <3> QED BY <2>1, <3>3, <3>4, <3>5, <3>6, <3>7 DEF Counting
  <2> QED BY <2>2, <2>4, <2>5, <2>6, <2>7
<1> QED BY <1>2, <1>3

LEMMA CountsAlways == Spec => []Counts
<1>1. SshInv /\ Counts /\ [Next]_vars => Counts'
  BY CountsLagStep, CountsExactStep DEF Counts
<1> QED BY <1>1, CountsInit, SshAlways, PTL DEF Spec

-----------------------------------------------------------------------------
(* What cannot be undone.                                                  *)

\* handleConn has left goroutines behind that a wedged mux keeps.
Stranded == Wedged /\ pc = "returned"

LEMMA WedgedStep ==
  ASSUME SshInv, Wedged, [Next]_vars
  PROVE  Wedged'
<1>0. Types /\ ChansOrder /\ HandshakeFirst /\ ChanTypeOK /\ BufferTypeOK
  BY DEF SshInv, Types
<1>1. PICK d \in Channels : d = inHand[1]
  BY <1>0 DEF Wedged, ChansOrder
<1>2. /\ muxPc = "stalled" /\ Len(requests[d]) = Room /\ ~TakesRequests(d)
      /\ Accepted(d)
  BY <1>0, <1>1 DEF Wedged, ChansOrder, TakesRequests
<1>3. SUFFICES /\ UNCHANGED muxVars /\ requests'[d] = requests[d]
               /\ ~TakesRequests(d)'
  BY <1>1, <1>2 DEF Wedged, muxVars, TakesRequests
<1>4. CASE \E c \in Channels : ServeChannel(c)
  <2>1. PICK c \in Channels : ServeChannel(c)
    BY <1>4
  <2>2. Served(c)
    BY <1>0, <2>1, ServeChannelStep
  <2> QED BY <1>2, <2>2 DEF Served, elsewhere, TakesRequests
<1>5. CASE TakeChannel
  <2>1. chans # <<>> /\ Head(chans) = chans[1] /\ 1 \in DOMAIN chans
    BY <1>0, <1>5 DEF ChanTypeOK, TakeChannel
  <2>2. Head(chans) # d
    BY <1>0, <1>2, <2>1 DEF ChansOrder, Accepted
  <2> QED BY <1>0, <1>2, <1>5, <2>2 DEF ChanTypeOK, TakeChannel, buffers, TakesRequests
<1>6. CASE ClientSends \/ MuxGoesOn
  BY <1>1, <1>2, <1>6 DEF TakesRequests, ClientSends, OpenArrives, RequestArrives,
                          LineArrives, CloseArrives, Packet, MuxGoesOn, PutInHand,
                          CloseAnswered, DropChannels, CloseChans
<1>7. CASE ConnStep /\ ~TakeChannel
  <2>1. ~HandshakeDone
    BY <1>0, <1>2 DEF HandshakeDone, HandshakeFirst
  <2>2. UNCHANGED <<muxVars, requests, chanPc>>
    BY <1>7, <2>1 DEF ConnStep, Cancel, ClientLeaves, DeadlinePasses, Handshake, ReadBanner,
       PasswordCallback, HandshakeFails, HandleConn, ServeCancelled, ChansClosed, LogRecord,
       CloseConn, vars, chanVars, muxVars, buffers, elsewhere
  <2> QED BY <1>2, <2>2 DEF TakesRequests
<1> QED BY <1>4, <1>5, <1>6, <1>7 DEF Next, ConnStep

LEMMA OverStep ==
  ASSUME SshInv, Over, [Next]_vars
  PROVE  Over'
<1>1. CASE \E c \in Channels : ServeChannel(c)
  <2>1. PICK c \in Channels : ServeChannel(c)
    BY <1>1
  <2>2. Served(c)
    BY <2>1, ServeChannelStep DEF SshInv
  <2>3. Accepted(c) /\ chanPc[c] # "done"
    BY <2>2 DEF Served, Places, Accepted
  <2> QED BY <2>3 DEF Over
<1>2. CASE ClientSends \/ MuxGoesOn
  BY <1>2 DEF Over, ClientSends, OpenArrives, RequestArrives, LineArrives, CloseArrives,
              Packet, MuxGoesOn, PutInHand, CloseAnswered, DropChannels, CloseChans
<1>3. CASE ConnStep
  <2>1. UNCHANGED <<pc, muxPc, chanPc>>
    BY <1>3 DEF Over, ConnStep, Cancel, ClientLeaves, DeadlinePasses, Handshake, ReadBanner,
       PasswordCallback, HandshakeDone, HandshakeFails, HandleConn, ServeCancelled,
       ChansClosed, TakeChannel, LogRecord, CloseConn, vars, chanVars, muxVars, elsewhere
  <2> QED BY <2>1 DEF Over, Accepted
<1> QED BY <1>1, <1>2, <1>3 DEF Next, ConnStep

-----------------------------------------------------------------------------
(* The safety core of SessionEnds: who can go on, with the guards of the   *)
(* fair actions written out.                                               *)

HandleConnReady ==
  \/ pc \in {"log", "close"}
  \/ /\ pc = "serve" /\ (ctxDone \/ chans # <<>> \/ muxPc = "ended")
     /\ HandleConnWrites => WritesFail

MuxReady ==
  \/ /\ (muxPc = "read" /\ WireDown) \/ muxPc = "closing"
     /\ SomeoneWrites => WritesFail
  \/ muxPc = "stalled" /\ Len(requests[inHand[1]]) < Room
  \/ muxPc = "dropped"

ChannelReady(c) ==
  /\ \/ chanPc[c] \in ChanPcs \ {"unopened", "offered", "refused", "requests", "shell", "done"}
     \/ chanPc[c] = "requests" /\ (requests[c] # <<>> \/ eof[c])
     \/ chanPc[c] = "shell" /\ (typed[c] # <<>> \/ eof[c])
  /\ Writes(c) => WritesFail

\* There is a mux once there is a session, and when it is gone every channel has
\* been told; handleConn does not return without closing the connection.
MuxOrder ==
  /\ muxPc = "off" => pc # "serve" /\ \A c \in Channels : ~Accepted(c)
  /\ muxPc \in {"dropped", "ended"} => \A c \in Channels : eof[c]
  /\ pc = "returned" => closed

LEMMA MuxOrderStep ==
  ASSUME SshInv, MuxOrder, [Next]_vars
  PROVE  MuxOrder'
<1>0. /\ Types /\ ChansOrder /\ HandshakeFirst
      /\ chanPc \in [Channels -> ChanPcs] /\ eof \in [Channels -> BOOLEAN]
  BY DEF SshInv, Types, ChanTypeOK, EofTypeOK
<1>1. CASE \E c \in Channels : ServeChannel(c)
  <2>1. PICK c \in Channels : ServeChannel(c)
    BY <1>1
  <2>2. Served(c)
    BY <1>0, <2>1, ServeChannelStep
  <2>3. UNCHANGED <<muxPc, pc, eof>> /\ Accepted(c) /\ (closed => closed')
        /\ \A d \in Channels \ {c} : chanPc'[d] = chanPc[d]
    BY <2>2 DEF Served, elsewhere, muxVars, Accepted, Places
  <2> QED BY <2>1, <2>3 DEF MuxOrder, Accepted
<1>2. CASE ClientSends
  <2>1. muxPc = "read" /\ muxPc' \in {"read", "stalled", "closing"} /\ UNCHANGED <<pc, closed>>
    BY <1>2 DEF wire, world, ClientSends, OpenArrives, RequestArrives, LineArrives, CloseArrives, Packet,
                muxVars
  <2> QED BY <2>1 DEF MuxOrder
<1>3. CASE MuxGoesOn
  <2>1. CASE DropChannels
    BY <2>1 DEF DropChannels, MuxOrder, world, wire
  <2>2. CASE PutInHand \/ CloseAnswered \/ CloseChans
    BY <2>2 DEF PutInHand, CloseAnswered, CloseChans, MuxOrder, chanVars, world, wire
  <2> QED BY <1>3, <2>1, <2>2 DEF MuxGoesOn
<1>4. CASE ConnStep
  <2>1. CASE TakeChannel
    <3>1. pc = "serve" /\ UNCHANGED <<muxPc, pc, eof>> \* so neither "off" nor "returned"
      BY <2>1 DEF TakeChannel, muxVars
    <3> QED BY <3>1 DEF MuxOrder
  <2>2. CASE HandshakeDone
    BY <2>2 DEF HandshakeDone, MuxOrder
  <2>3. CASE ~TakeChannel /\ ~HandshakeDone
    <3>1. /\ UNCHANGED <<muxPc, chanPc, eof>> /\ (pc' = "serve" => pc = "serve")
          /\ pc' = "returned" => closed' \/ (pc = "returned" /\ closed' = closed)
      BY <1>4, <2>3
         DEF ConnStep, Cancel, ClientLeaves, DeadlinePasses, Handshake, ReadBanner,
             PasswordCallback, HandshakeFails, HandleConn, ServeCancelled, ChansClosed,
             LogRecord, CloseConn, vars, chanVars, muxVars, world, wire, elsewhere
    <3> QED BY <3>1 DEF MuxOrder, Accepted
  <2> QED BY <2>1, <2>2, <2>3
<1> QED BY <1>1, <1>2, <1>3, <1>4 DEF Next, ConnStep

LEMMA MuxOrderAlways == Spec => []MuxOrder
<1>1. Init => MuxOrder
  BY DEF Init, MuxOrder, Accepted
<1>2. SshInv /\ MuxOrder /\ [Next]_vars => MuxOrder'
  BY MuxOrderStep
<1> QED BY <1>1, <1>2, SshAlways, PTL DEF Spec

\* A mux with a request in its hand waits for a goroutine that can go on, or is
\* wedged.
LEMMA StalledForReason ==
  ASSUME SshInv, muxPc = "stalled", SomeoneWrites => WritesFail
  PROVE  Wedged \/ MuxReady \/ \E c \in Channels : ChannelReady(c)
<1>1. PICK d \in Channels : d = inHand[1]
  BY DEF SshInv, ChansOrder
<1>2. /\ requests[d] \in Seq(RequestTypes) /\ Len(requests[d]) <= Room
      /\ Room \in Nat \ {0}
  BY SshAssumption DEF SshInv, Types, BufferTypeOK
<1>3. Len(requests[d]) < Room \/ (Len(requests[d]) = Room /\ requests[d] # <<>>)
  BY <1>2
<1>4. Writes(d) => WritesFail
  BY DEF SomeoneWrites
<1>5. CASE chanPc[d] = "requests" /\ requests[d] # <<>>
  BY <1>4, <1>5 DEF ChannelReady
<1>6. CASE chanPc[d] = "reply"
  BY <1>4, <1>6 DEF ChannelReady, ChanPcs
<1> QED BY <1>1, <1>3, <1>5, <1>6 DEF Wedged, MuxReady

-----------------------------------------------------------------------------
\* The state of a session keeps its types; no buffer takes more than its room.
THEOREM SshTypeCorrect == Spec => []TypeOK
<1>1. SshInv => TypeOK
  BY TypesAreTypeOK DEF SshInv
<1> QED BY <1>1, SshAlways, PTL

\* A mux that waits for a channel whose goroutine takes no more requests waits
\* forever: neither the client nor the deadline nor a shutdown gets through to it.
THEOREM SshWedgedForever == Spec => WedgedForever
<1>1. SshInv /\ Wedged /\ [Next]_vars => Wedged'
  BY WedgedStep
<1> QED BY <1>1, SshAlways, PTL DEF Spec, WedgedForever

\* A connection ends once: when handleConn has returned, goroutines that are all
\* gone stay gone, and those that a wedged mux keeps are never set free.
THEOREM SshEndIsFinal ==
  Spec => [][Over => Over']_vars /\ [][Stranded => Stranded']_vars
<1>1. SshInv /\ [Next]_vars => (Over => Over')
  BY OverStep
<1>2. SshInv /\ [Next]_vars => (Wedged => Wedged')
  BY WedgedStep
<1>3. ASSUME SshInv, [Next]_vars, pc = "returned"
      PROVE  pc' = "returned"
  BY <1>3 DEF Next, Cancel, ClientLeaves, DeadlinePasses, Handshake, ReadBanner,
       PasswordCallback, HandshakeDone, HandshakeFails, HandleConn, ServeCancelled, ChansClosed,
       TakeChannel, LogRecord, CloseConn, ClientSends, OpenArrives, RequestArrives,
       LineArrives, CloseArrives, MuxGoesOn, PutInHand, CloseAnswered, DropChannels,
       CloseChans, ServeChannel, TakeRequest, Written, RequestsEnd, ReadLine, ShellEnds,
       LoadCount, StoreCount, AppendMessage, CheckLimit, HangUp, vars, elsewhere, muxVars
<1>4. SshInv /\ [Next]_vars => (Stranded => Stranded')
  BY <1>2, <1>3 DEF Stranded
<1> QED BY <1>1, <1>4, SshAlways, PTL DEF Spec

\* Someone can always go on, on a connection that is down or that a shutdown has
\* reached, until handleConn and all the goroutines of the connection are gone.
\* There are two exceptions besides the handshake, which has no goroutines yet: a
\* wedged mux, and a client that neither leaves nor reads while somebody writes to
\* it, which the read deadline does not end.
THEOREM SshNeverBlocks ==
  Spec => [](WireDown \/ ctxDone => \/ Over
                                    \/ Wedged
                                    \/ Held
                                    \/ pc \in {"banner", "handshake"}
                                    \/ HandleConnReady
                                    \/ MuxReady
                                    \/ \E c \in Channels : ChannelReady(c))
<1> DEFINE Stuck == /\ ~Wedged /\ ~Held /\ pc \notin {"banner", "handshake"}
                    /\ ~HandleConnReady /\ ~MuxReady
                    /\ \A c \in Channels : ~ChannelReady(c)
<1>1. ASSUME SshInv, MuxOrder, WireDown \/ ctxDone, Stuck
      PROVE  Over
  <2>1. /\ pc \in Pcs /\ muxPc \in MuxPcs /\ chanPc \in [Channels -> ChanPcs]
        /\ closed \in BOOLEAN
    BY <1>1 DEF SshInv, Types, WorldTypeOK, PcTypeOK, ChanTypeOK
  <2>2. HandleConnWrites => WritesFail
    BY <1>1 DEF Held
  <2>3. ctxDone => pc = "returned" /\ WritesFail
    BY <1>1, <2>1, <2>2 DEF HandleConnReady, MuxOrder, Pcs, WritesFail
  <2>4. WireDown /\ (SomeoneWrites => WritesFail)
    BY <1>1, <2>3 DEF Held, WireDown, WritesFail
  <2>5. muxPc \in {"off", "ended"}
    BY <1>1, <2>1, <2>4, StalledForReason DEF MuxReady, MuxPcs
  <2>6. pc = "returned"
    BY <1>1, <2>1, <2>2, <2>5 DEF HandleConnReady, MuxOrder, Pcs
  <2>7. ASSUME NEW c \in Channels, Accepted(c) PROVE chanPc[c] = "done"
    <3>1. eof[c]
      BY <1>1, <2>5, <2>7 DEF MuxOrder
    <3>2. Writes(c) => WritesFail
      BY <2>4 DEF SomeoneWrites
    <3> QED BY <1>1, <2>1, <2>7, <3>1, <3>2 DEF ChannelReady, Accepted, ChanPcs
  <2> QED BY <2>5, <2>6, <2>7 DEF Over
<1>2. SshInv /\ MuxOrder =>
        (WireDown \/ ctxDone => \/ Over
                                \/ Wedged
                                \/ Held
                                \/ pc \in {"banner", "handshake"}
                                \/ HandleConnReady
                                \/ MuxReady
                                \/ \E c \in Channels : ChannelReady(c))
  BY <1>1
<1> QED BY <1>2, SshAlways, MuxOrderAlways, PTL

\* However the channel goroutine and handleConn interleave, a connection that a
\* single channel closed is recorded as dropped by its client.
THEOREM SshReasonIsOverwritten == Spec => []ReasonIsOverwritten
<1>1. SshInv => ReasonIsOverwritten
  BY DEF SshInv, ClosedByChannel, ReasonIsOverwritten
<1> QED BY <1>1, SshAlways, PTL

\* However the shells race, and whatever they read stale, none of them makes the
\* count or the list of a session longer than what they have read; a single shell
\* stops at the limit, and is one line ahead of its record's list at most.
THEOREM SshShellIsCaptured == Spec => []ShellIsCaptured
<1>1. ASSUME SshInv, Counts
      PROVE  ShellIsCaptured
  <2>0. /\ messageCount \in Nat /\ kept \in Nat /\ taken \in Nat /\ limit \in Nat
    BY <1>1 DEF SshInv, Types, WorldTypeOK, CountTypeOK
  <2>1. messageCount <= taken /\ kept <= taken
    <3>1. CASE Channels = {}
      <4>1. Pending = {} /\ Unkept = {} /\ Cardinality({}) = 0
        BY <3>1, FS_EmptySet DEF Pending, Unkept
      <4> QED BY <1>1, <2>0, <4>1 DEF Counts, CountsLag
    <3>2. ASSUME NEW c \in Channels PROVE messageCount <= taken /\ kept <= taken
      <4>1. Pending \in SUBSET Channels /\ Unkept \in SUBSET Channels
        BY DEF Pending, Unkept
      <4>2. Cardinality(Pending) \in Nat /\ Cardinality(Unkept) \in Nat
        BY <4>1, OneMoreOrLess
      <4> QED BY <1>1, <2>0, <4>2 DEF Counts, CountsLag
    <3> QED BY <3>1, <3>2
  <2>2. ASSUME OneChannel
        PROVE  taken <= limit /\ record.kept \in {record.count - 1, record.count}
    <3>1. taken <= limit
      <4>1. ASSUME NEW c \in Channels, Accepted(c) PROVE taken <= limit
        BY <1>1, <2>2, <4>1 DEF Counts, CountsExact, One
      <4>2. CASE \A c \in Channels : ~Accepted(c)
        BY <1>1, <2>0, <2>2, <4>2 DEF Counts, CountsExact
      <4> QED BY <4>1, <4>2
    <3> QED BY <1>1, <2>2, <3>1 DEF Counts, CountsExact
  <2> QED BY <2>1, <2>2 DEF ShellIsCaptured
<1> QED BY <1>1, SshAlways, CountsAlways, PTL

\* handleConn logs one record, with a reason that ends a session, and then
\* returns; no channel goroutine changes the reason that was logged.
THEOREM SshImplementsSession == Spec => RecordsOnce
<1>1. Init => SessionView!Init
  BY DEF Init, SessionView!Init
<1>2. ASSUME SshInv, [Next]_vars
      PROVE  [SessionView!Next]_SessionView!vars
  <2>0. Types /\ RecordOrder
    BY <1>2 DEF SshInv
  <2> USE DEF SessionView!vars
  <2>1. CASE LogRecord
    <3>1. disconnectReason \in Reasons /\ record.reason = NoReason
      BY <2>0, <2>1 DEF RecordOrder, LogRecord
    <3>2. SessionView!LogEnd(disconnectReason)
      BY <2>1, <3>1 DEF LogRecord, SessionView!LogEnd
    <3> QED BY <3>1, <3>2 DEF SessionView!Next
  <2>2. CASE CloseConn
    <3>1. record.reason # NoReason
      BY <2>0, <2>2 DEF RecordOrder, CloseConn, Reasons, HandshakeReasons, ChannelReasons
    <3>2. SessionView!Finish
      BY <2>2, <3>1 DEF CloseConn, SessionView!Finish, capture
    <3> QED BY <3>2 DEF SessionView!Next
  <2>3. CASE \E c \in Channels : ServeChannel(c)
    <3>1. PICK c \in Channels : ServeChannel(c)
      BY <2>3
    <3> QED BY <2>0, <3>1, ServeChannelStep DEF Served, elsewhere
  <2>4. CASE ClientSends \/ MuxGoesOn
    BY <2>4 DEF ClientSends, OpenArrives, RequestArrives, LineArrives, CloseArrives,
                Packet, MuxGoesOn, PutInHand, CloseAnswered, DropChannels, CloseChans,
                capture
  <2>5. CASE ConnStep /\ ~LogRecord /\ ~CloseConn
    BY <2>5 DEF ConnStep, Cancel, ClientLeaves, DeadlinePasses, Handshake, ReadBanner,
         PasswordCallback, HandshakeDone, HandshakeFails, HandleConn, ServeCancelled,
         ChansClosed, TakeChannel, vars, capture, elsewhere
  <2> QED BY <1>2, <2>1, <2>2, <2>3, <2>4, <2>5 DEF Next, ConnStep
<1> QED BY <1>1, <1>2, SshAlways, PTL DEF Spec, RecordsOnce, SessionView!Spec

=============================================================================
