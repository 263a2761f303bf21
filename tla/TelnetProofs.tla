---------------------------- MODULE TelnetProofs ----------------------------
(***************************************************************************)
(* Proofs about module TelnetSession, for any lines and any message limit. *)
(***************************************************************************)
EXTENDS TelnetSession, TLAPS

\* The goroutine is still in its loop.
InLoop == pc \in {"poll", "scan", "check"}

\* A reason is set by leaving the loop, and logged by the deferred function.
ReasonOrder ==
  /\ disconnectReason = NoReason <=> InLoop
  /\ record = IF pc \in {"close", "closed"} THEN disconnectReason ELSE NoReason

\* Before each poll and each read there is room for one more message.
Room ==
  /\ pc \in {"poll", "scan"} => messageCount < 3 \/ messageCount < limit
  /\ pc = "check" => messageCount >= 3 /\ (messageCount = 3 \/ messageCount <= limit)

\* A read that begins has seen an uncancelled context.
LateOrder ==
  /\ late = 0 \/ (late = 1 /\ ctxDone)
  /\ pc = "scan" => late = 0

TelnetInv ==
  /\ TypeOK
  /\ ReasonOrder
  /\ Room
  /\ LateOrder
  /\ CaptureMatchesDialogue
  /\ LimitBoundsSession

-----------------------------------------------------------------------------
USE DEF NoReason

LEMMA TelnetInit == Init => TelnetInv
<1> SUFFICES ASSUME Init PROVE TelnetInv
  OBVIOUS
<1> USE DEF Init, Validate, DefaultLimit
<1>1. limit \in Nat \ {0}
  <2>1. PICK configured \in Limits : limit = Validate(configured)
    OBVIOUS
  <2> QED BY <2>1, TelnetAssumption
<1>2. TypeOK
  <2>1. messages \in Seq(Lines)
    OBVIOUS
  <2> QED BY <1>1, <2>1 DEF TypeOK, Pcs, States
<1>3. ReasonOrder /\ Room /\ LateOrder
  BY DEF ReasonOrder, InLoop, Room, LateOrder
<1>4. CaptureMatchesDialogue
  BY DEF CaptureMatchesDialogue
<1>5. LimitBoundsSession
  BY <1>1 DEF LimitBoundsSession
<1> QED BY <1>2, <1>3, <1>4, <1>5 DEF TelnetInv

\* What taking a line does to the captured messages, and what it finds there.
Taken(line) ==
  /\ messages \in Seq(Lines) /\ messageCount = Len(messages) /\ messageCount \in Nat
  /\ messageCount < 3 \/ messageCount < limit
  /\ \A i \in 3 .. messageCount : messages[i] \notin ExitLines
  /\ messages' \in Seq(Lines) /\ messageCount' = Len(messages')
  /\ messageCount' = messageCount + 1
  /\ \A i \in 1 .. messageCount : messages'[i] = messages[i]
  /\ messages'[messageCount + 1] = line
  /\ late' \in {0, 1} /\ (late' = 1 => ctxDone)

LEMMA KeepStep ==
  ASSUME TelnetInv, NEW line \in Lines, Keep(line), pc = "scan"
  PROVE  Taken(line)
<1> USE DEF Keep
<1>1. /\ messages \in Seq(Lines) /\ messageCount = Len(messages) /\ late = 0
      /\ disconnectReason = NoReason /\ messageCount \in Nat
      /\ messageCount < 3 \/ messageCount < limit
  BY DEF TelnetInv, TypeOK, CaptureMatchesDialogue, LateOrder, Room, ReasonOrder, InLoop
<1>2. messages' = Append(messages, line) /\ messageCount' = messageCount + 1
  OBVIOUS
<1>3. messages' \in Seq(Lines) /\ messageCount' = Len(messages')
  BY <1>1, <1>2
<1>4. /\ \A i \in 1 .. messageCount : messages'[i] = messages[i]
      /\ messages'[messageCount + 1] = line
  BY <1>1, <1>2
<1>5. late' \in {0, 1} /\ (late' = 1 => ctxDone)
  BY <1>1
<1>6. \A i \in 3 .. messageCount : messages[i] \notin ExitLines
  BY <1>1 DEF TelnetInv, CaptureMatchesDialogue
<1> QED BY <1>1, <1>2, <1>3, <1>4, <1>5, <1>6 DEF Taken

LEMMA TelnetStep == TelnetInv /\ [Next]_vars => TelnetInv'
<1> SUFFICES ASSUME TelnetInv, [Next]_vars PROVE TelnetInv'
  OBVIOUS
<1> USE DEF InLoop
<1>0. /\ TypeOK /\ ReasonOrder /\ Room /\ LateOrder /\ CaptureMatchesDialogue
      /\ LimitBoundsSession /\ limit \in Nat \ {0} /\ messageCount \in Nat
      /\ messages \in Seq(Lines) /\ messageCount = Len(messages)
  BY DEF TelnetInv, TypeOK, CaptureMatchesDialogue
\* Steps that take no line and leave the loop at most.
<1>1. ASSUME UNCHANGED <<limit, state, sessVars>>,
             TypeOK', ReasonOrder', Room', LateOrder',
             disconnectReason = "exit_command" <=> disconnectReason' = "exit_command",
             LimitBoundsSession'
      PROVE  TelnetInv'
  BY <1>0, <1>1 DEF TelnetInv, CaptureMatchesDialogue, sessVars
<1>2. CASE Poll
  <2>1. TypeOK' /\ UNCHANGED <<limit, state, sessVars, record>>
    BY <1>0, <1>2 DEF Poll, Return, TypeOK, Pcs, Reasons, sessVars
  <2>2. ReasonOrder' /\ Room' /\ LateOrder' /\ LimitBoundsSession'
        /\ (disconnectReason = "exit_command" <=> disconnectReason' = "exit_command")
    BY <1>0, <1>2 DEF Poll, Return, ReasonOrder, Room, LateOrder, LimitBoundsSession, sessVars
  <2> QED BY <1>1, <2>1, <2>2
<1>3. ASSUME NEW line \in Lines, ScanUsername(line) PROVE TelnetInv'
  <2>1. /\ pc = "scan" /\ Keep(line) /\ pc' = "poll" /\ state' = "await_password"
        /\ loginUsername' = line
        /\ UNCHANGED <<limit, ctxDone, loginPassword, disconnectReason, record>>
    BY <1>3 DEF ScanUsername
  <2>2. messageCount = 0 /\ loginPassword = NoLine
    BY <1>0, <1>3 DEF ScanUsername, CaptureMatchesDialogue
  <2>3. Taken(line)
    BY <2>1, KeepStep
  <2>4. TypeOK'
    BY <1>0, <2>1, <2>3 DEF TypeOK, Pcs, States, Taken, Keep
  <2>5. ReasonOrder' /\ Room' /\ LateOrder' /\ LimitBoundsSession'
    BY <1>0, <2>1, <2>2, <2>3
       DEF ReasonOrder, Room, LateOrder, LimitBoundsSession, Taken, Keep
  <2>6. messages'[1] = line /\ messageCount' = 1
    BY <2>2, <2>3 DEF Taken
  <2>7. CaptureMatchesDialogue'
    BY <2>1, <2>2, <2>3, <2>6 DEF CaptureMatchesDialogue, Taken, Keep
  <2> QED BY <2>4, <2>5, <2>7 DEF TelnetInv
<1>4. ASSUME NEW line \in Lines, ScanPassword(line) PROVE TelnetInv'
  <2>1. /\ pc = "scan" /\ Keep(line) /\ pc' = "poll" /\ state' = "await_cmd"
        /\ loginPassword' = line
        /\ UNCHANGED <<limit, ctxDone, loginUsername, disconnectReason, record>>
    BY <1>4 DEF ScanPassword
  <2>2. messageCount = 1 /\ loginUsername = messages[1]
    BY <1>0, <1>4 DEF ScanPassword, CaptureMatchesDialogue
  <2>3. Taken(line)
    BY <2>1, KeepStep
  <2>4. TypeOK'
    BY <1>0, <2>1, <2>3 DEF TypeOK, Pcs, States, Taken, Keep
  <2>5. ReasonOrder' /\ Room' /\ LateOrder' /\ LimitBoundsSession'
    BY <1>0, <2>1, <2>2, <2>3
       DEF ReasonOrder, Room, LateOrder, LimitBoundsSession, Taken, Keep
  <2>6. messages'[1] = messages[1] /\ messages'[2] = line /\ messageCount' = 2
    BY <2>2, <2>3 DEF Taken
  <2>7. CaptureMatchesDialogue'
    BY <2>1, <2>2, <2>3, <2>6 DEF CaptureMatchesDialogue, Taken, Keep
  <2> QED BY <2>4, <2>5, <2>7 DEF TelnetInv
<1>5. ASSUME NEW line \in Lines, ScanCommand(line) PROVE TelnetInv'
  <2>1. /\ pc = "scan" /\ Keep(line) /\ state = "await_cmd"
        /\ IF line \in ExitLines
           THEN pc' = "log" /\ disconnectReason' = "exit_command"
           ELSE pc' = "check" /\ UNCHANGED disconnectReason
        /\ UNCHANGED <<limit, ctxDone, state, loginUsername, loginPassword, record>>
    BY <1>5 DEF ScanCommand, Return
  <2>2. messageCount >= 2 /\ loginUsername = messages[1] /\ loginPassword = messages[2]
    <3>1. messageCount # 0 /\ messageCount # 1
      BY <1>0, <1>5 DEF ScanCommand, CaptureMatchesDialogue
    <3> QED BY <1>0, <3>1 DEF CaptureMatchesDialogue
  <2>3. Taken(line)
    BY <2>1, KeepStep
  <2>4. TypeOK'
    BY <1>0, <2>1, <2>3 DEF TypeOK, Pcs, States, Reasons, Taken, Keep
  <2>5. ReasonOrder' /\ Room' /\ LateOrder' /\ LimitBoundsSession'
    BY <1>0, <2>1, <2>2, <2>3
       DEF ReasonOrder, Room, LateOrder, LimitBoundsSession, Taken, Keep
  <2>6. messages'[1] = messages[1] /\ messages'[2] = messages[2] /\ messageCount' >= 3
    BY <2>2, <2>3 DEF Taken
  <2>7. \A i \in 3 .. messageCount' :
          messages'[i] \in ExitLines <=>
            i = messageCount' /\ disconnectReason' = "exit_command"
    <3>1. disconnectReason = NoReason
      BY <1>0, <2>1 DEF ReasonOrder
    <3>2. disconnectReason' = "exit_command" <=> line \in ExitLines
      BY <2>1, <3>1
    <3>3. \A i \in 3 .. messageCount' :
            i = messageCount' \/ i \in 3 .. messageCount
      BY <2>3 DEF Taken
    <3>4. \A i \in 3 .. messageCount : messages'[i] \notin ExitLines /\ i # messageCount'
      BY <2>3 DEF Taken
    <3>5. messages'[messageCount'] = line
      BY <2>3 DEF Taken
    <3> QED BY <3>2, <3>3, <3>4, <3>5
  <2>8. CaptureMatchesDialogue'
    BY <2>1, <2>2, <2>3, <2>6, <2>7 DEF CaptureMatchesDialogue, Taken, Keep
  <2> QED BY <2>4, <2>5, <2>8 DEF TelnetInv
<1>6. CASE CheckLimit
  <2>1. TypeOK' /\ UNCHANGED <<limit, state, sessVars, record>>
    BY <1>0, <1>6 DEF CheckLimit, Return, TypeOK, Pcs, Reasons, sessVars
  <2>2. ReasonOrder' /\ Room' /\ LateOrder' /\ LimitBoundsSession'
        /\ (disconnectReason = "exit_command" <=> disconnectReason' = "exit_command")
    BY <1>0, <1>6 DEF CheckLimit, LimitReached, Return, ReasonOrder, Room, LateOrder,
                     LimitBoundsSession, sessVars
  <2> QED BY <1>1, <2>1, <2>2
<1>7. CASE ScanFails
  <2>1. TypeOK' /\ UNCHANGED <<limit, state, sessVars, record>>
    BY <1>0, <1>7 DEF ScanFails, Return, TypeOK, Pcs, Reasons, sessVars
  <2>2. ReasonOrder' /\ Room' /\ LateOrder' /\ LimitBoundsSession'
        /\ (disconnectReason = "exit_command" <=> disconnectReason' = "exit_command")
    BY <1>0, <1>7 DEF ScanFails, Return, ReasonOrder, Room, LateOrder,
                     LimitBoundsSession, sessVars
  <2> QED BY <1>1, <2>1, <2>2
<1>8. CASE LogRecord
  <2>1. TypeOK' /\ UNCHANGED <<limit, state, sessVars>>
    BY <1>0, <1>8 DEF LogRecord, TypeOK, Pcs, Reasons, sessVars
  <2>2. ReasonOrder' /\ Room' /\ LateOrder' /\ LimitBoundsSession'
        /\ (disconnectReason = "exit_command" <=> disconnectReason' = "exit_command")
    BY <1>0, <1>8 DEF LogRecord, ReasonOrder, Room, LateOrder, LimitBoundsSession, sessVars
  <2> QED BY <1>1, <2>1, <2>2
<1>9. CASE CloseConn
  <2>1. TypeOK' /\ UNCHANGED <<limit, state, sessVars>>
    BY <1>0, <1>9 DEF CloseConn, TypeOK, Pcs, sessVars
  <2>2. ReasonOrder' /\ Room' /\ LateOrder' /\ LimitBoundsSession'
        /\ (disconnectReason = "exit_command" <=> disconnectReason' = "exit_command")
    BY <1>0, <1>9 DEF CloseConn, ReasonOrder, Room, LateOrder, LimitBoundsSession, sessVars
  <2> QED BY <1>1, <2>1, <2>2
<1>10. CASE Cancel \/ UNCHANGED vars
  <2>1. TypeOK' /\ UNCHANGED <<limit, state, sessVars>>
    BY <1>0, <1>10 DEF Cancel, vars, TypeOK, sessVars
  <2>2. ReasonOrder' /\ Room' /\ LateOrder' /\ LimitBoundsSession'
        /\ (disconnectReason = "exit_command" <=> disconnectReason' = "exit_command")
    BY <1>0, <1>10 DEF Cancel, vars, ReasonOrder, Room, LateOrder, LimitBoundsSession, sessVars
  <2> QED BY <1>1, <2>1, <2>2
<1> QED BY <1>2, <1>3, <1>4, <1>5, <1>6, <1>7, <1>8, <1>9, <1>10
        DEF Next, HandleConn, ScanLine

LEMMA TelnetAlways == Spec => []TelnetInv
BY TelnetInit, TelnetStep, PTL DEF Spec

-----------------------------------------------------------------------------
\* The session keeps its types, whatever limit is configured.
THEOREM TelnetTypeCorrect == Spec => []TypeOK
<1>1. TelnetInv => TypeOK
  BY DEF TelnetInv
<1> QED BY <1>1, TelnetAlways, PTL

\* The logged record is the dialogue, for dialogues of any length.
THEOREM TelnetCaptures == Spec => []CaptureMatchesDialogue
<1>1. TelnetInv => CaptureMatchesDialogue
  BY DEF TelnetInv
<1> QED BY <1>1, TelnetAlways, PTL

\* A session takes as many messages as the limit allows, but at least three.
THEOREM TelnetIsBounded == Spec => []LimitBoundsSession
<1>1. TelnetInv => LimitBoundsSession
  BY DEF TelnetInv
<1> QED BY <1>1, TelnetAlways, PTL

\* At most one line is taken after the context was cancelled.
THEOREM TelnetStopsReading == Spec => []AtMostOneLateLine
<1>1. TelnetInv => AtMostOneLateLine
  BY DEF TelnetInv, LateOrder, AtMostOneLateLine
<1> QED BY <1>1, TelnetAlways, PTL

\* The handler logs one record, which names a reason, and then ends.
THEOREM TelnetImplementsSession == Spec => RecordsOnce
<1>1. Init => SessionView!Init
  BY DEF Init, SessionView!Init
<1>2. ASSUME TelnetInv, [Next]_vars
      PROVE  [SessionView!Next]_SessionView!vars
  <2> USE DEF SessionView!vars
  <2>1. CASE LogRecord
    <3>1. disconnectReason \in Reasons /\ record = NoReason
      BY <1>2, <2>1 DEF TelnetInv, ReasonOrder, TypeOK, LogRecord, InLoop
    <3>2. SessionView!LogEnd(disconnectReason)
      BY <2>1, <3>1 DEF LogRecord, SessionView!LogEnd
    <3> QED BY <3>1, <3>2 DEF SessionView!Next
  <2>2. CASE CloseConn
    <3>1. record # NoReason
      BY <1>2, <2>2 DEF TelnetInv, ReasonOrder, CloseConn, InLoop
    <3>2. SessionView!Finish
      BY <2>2, <3>1 DEF CloseConn, SessionView!Finish
    <3> QED BY <3>2 DEF SessionView!Next
  <2>3. CASE Poll \/ CheckLimit \/ ScanFails
    BY <2>3 DEF Poll, CheckLimit, ScanFails, Return
  <2>4. ASSUME NEW line \in Lines,
               ScanUsername(line) \/ ScanPassword(line) \/ ScanCommand(line)
        PROVE  UNCHANGED SessionView!vars
    BY <2>4 DEF ScanUsername, ScanPassword, ScanCommand, Return
  <2>5. CASE Cancel \/ UNCHANGED vars
    BY <2>5 DEF Cancel, vars
  <2> QED BY <1>2, <2>1, <2>2, <2>3, <2>4, <2>5 DEF Next, HandleConn, ScanLine
<1> QED BY <1>1, <1>2, TelnetAlways, PTL DEF Spec, RecordsOnce, SessionView!Spec

=============================================================================
