----------------------------- MODULE LdapProofs -----------------------------
(***************************************************************************)
(* Proofs about module LdapSession, for any logins and dialogues of any    *)
(* length.                                                                 *)
(***************************************************************************)
EXTENDS LdapSession, FiniteSetTheorems, TLAPS

\* The goroutine is still in its loop.
InLoop == pc \notin {"log", "close", "closed"}

\* A reason is set by leaving the loop, and logged by the deferred function.
ReasonOrder ==
  /\ InLoop => disconnectReason = NoReason
  /\ record = IF pc \in {"close", "closed"} THEN disconnectReason ELSE NoRecord

\* Why the loop was left: RecordExplainsEnd, before the record is logged.
EndIsExplained ==
  LET last == dialogue[Len(dialogue)] IN
  /\ pc \in {"agree", "handshake", "flight", "finish", "finished"} =>
       dialogue # <<>> /\ last = "starttls"
  /\ pc \in {"flight", "finish", "finished"} => tlsConfig
  /\ ~InLoop /\ disconnectReason = NoReason =>
       dialogue # <<>> /\ (last \in UntypedKinds \/ (last = "starttls" /\ ~tlsConfig))
  /\ disconnectReason = "context_cancelled" => ctxDone
  /\ Met({"unbind"}) <=> disconnectReason = "unbind_requested"
  /\ Met({"unbind"}) => last = "unbind"

LdapInv ==
  /\ TypeOK
  /\ ReasonOrder
  /\ EndIsExplained
  /\ RecordTellsDialogue

-----------------------------------------------------------------------------
USE DEF NoReason, NoRecord

LEMMA LdapInit == Init => LdapInv
<1> SUFFICES ASSUME Init PROVE LdapInv
  OBVIOUS
<1> USE DEF Init
<1>1. TypeOK
  <2>1. dialogue \in Seq(Packets)
    OBVIOUS
  <2>2. {ctxDone, silent, gone, tlsConfig, tlsUsed, tlsActive, searchAttempted} \subseteq BOOLEAN
    BY Zenon
  <2>3. numMessages \in Nat \ {0} /\ bindAttempts \in Nat
    OBVIOUS
  <2>4. /\ pc \in Pcs /\ login \in Logins \cup {NoLogin}
        /\ disconnectReason \in Reasons \cup {NoReason}
        /\ record \in Reasons \cup {NoReason, NoRecord}
    BY DEF Pcs, Writing
  <2> QED BY <2>1, <2>2, <2>3, <2>4, Zenon DEF TypeOK
<1>2. ReasonOrder /\ EndIsExplained
  BY DEF ReasonOrder, EndIsExplained, InLoop, Met
<1>3. RecordTellsDialogue
  <2>1. Bindings = {} /\ Cardinality(Bindings) = 0
    BY FS_EmptySet DEF Bindings
  <2> QED BY <2>1 DEF RecordTellsDialogue, Met, LastLogin
<1> QED BY <1>1, <1>2, <1>3 DEF LdapInv

\* What taking a packet changes in the facts about the dialogue.
Taken(packet) ==
  /\ pc = "read" /\ disconnectReason = NoReason /\ record' = record
  /\ UNCHANGED envVars
  /\ dialogue' \in Seq(Packets) /\ dialogue' # <<>>
  /\ dialogue'[Len(dialogue')] = packet
  /\ numMessages' \in Nat \ {0} /\ numMessages' = Len(dialogue') + 1
  /\ \A kinds : (\E i \in DOMAIN dialogue' : dialogue'[i] \in kinds)
                  <=> packet \in kinds \/ \E i \in DOMAIN dialogue : dialogue[i] \in kinds
  /\ Cardinality(Bindings') =
       IF packet \in BindKinds \cup Logins THEN bindAttempts + 1 ELSE bindAttempts

LEMMA TakeStep ==
  ASSUME LdapInv, NEW packet \in Packets, Take(packet)
  PROVE  Taken(packet)
<1> DEFINE n == Len(dialogue)
<1>1. /\ dialogue \in Seq(Packets) /\ numMessages \in Nat \ {0} /\ pc = "read"
      /\ numMessages = n + 1 /\ n \in Nat /\ DOMAIN dialogue = 1 .. n
      /\ bindAttempts = Cardinality(Bindings) /\ disconnectReason = NoReason
  BY DEF LdapInv, TypeOK, RecordTellsDialogue, ReasonOrder, InLoop, Take
<1>2. /\ dialogue' = Append(dialogue, packet) /\ numMessages' = numMessages + 1
      /\ UNCHANGED <<envVars, record>>
  BY DEF Take
<1>3. /\ dialogue' \in Seq(Packets) /\ Len(dialogue') = n + 1
      /\ DOMAIN dialogue' = 1 .. n + 1
      /\ dialogue'[n + 1] = packet
      /\ \A i \in 1 .. n : dialogue'[i] = dialogue[i]
  BY <1>1, <1>2
<1>4. \A kinds : (\E i \in DOMAIN dialogue' : dialogue'[i] \in kinds)
                   <=> packet \in kinds \/ \E i \in DOMAIN dialogue : dialogue[i] \in kinds
  <2> SUFFICES ASSUME NEW kinds
               PROVE  (\E i \in 1 .. n + 1 : dialogue'[i] \in kinds)
                        <=> packet \in kinds \/ \E i \in 1 .. n : dialogue[i] \in kinds
    BY <1>1, <1>3
  <2>1. \A i \in 1 .. n + 1 : i \in 1 .. n \/ i = n + 1
    BY <1>1
  <2>2. n + 1 \in 1 .. n + 1 /\ \A i \in 1 .. n : i \in 1 .. n + 1
    BY <1>1
  <2> HIDE DEF n
  <2> QED BY <2>1, <2>2, <1>3
<1>5. Cardinality(Bindings') =
        IF packet \in BindKinds \cup Logins THEN bindAttempts + 1 ELSE bindAttempts
  <2> DEFINE B == BindKinds \cup Logins
  <2>1. Bindings = {i \in 1 .. n : dialogue[i] \in B}
    BY <1>1 DEF Bindings
  <2>2. Bindings' = {i \in 1 .. n + 1 : dialogue'[i] \in B}
    BY <1>3 DEF Bindings
  <2>3. IsFiniteSet(Bindings)
    <3>1. IsFiniteSet(1 .. n)
      BY <1>1, FS_Interval
    <3>2. Bindings \in SUBSET (1 .. n)
      BY <2>1
    <3> QED BY <3>1, <3>2, FS_Subset
  <2> HIDE DEF B
  <2>4. Bindings' = IF packet \in B THEN Bindings \cup {n + 1} ELSE Bindings
    <3>1. \A i : i \in 1 .. n + 1 <=> i \in 1 .. n \/ i = n + 1
      BY <1>1
    <3> HIDE DEF n
    <3> QED BY <3>1, <2>1, <2>2, <1>3
  <2>5. n + 1 \notin Bindings
    BY <2>1, <1>1
  <2>6. Cardinality(Bindings \cup {n + 1}) = Cardinality(Bindings) + 1
    BY <2>3, <2>5, FS_AddElement
  <2> QED BY <2>4, <2>6, <1>1 DEF B
<1>6. dialogue' # <<>>
  BY <1>1, <1>3
<1> QED BY <1>1, <1>2, <1>3, <1>4, <1>5, <1>6 DEF Taken

\* The credentials stay those of the last simple bind.
LastLoginKept ==
  /\ login # NoLogin => \E i \in DOMAIN dialogue : LastLogin(i) /\ login = dialogue[i]
  /\ login = NoLogin => ~Met(Logins)

LEMMA LoginStep ==
  ASSUME LdapInv, NEW packet \in Packets, Take(packet),
         login' = IF packet \in Logins THEN packet ELSE login
  PROVE  LastLoginKept'
<1> DEFINE n == Len(dialogue)
<1>1. /\ dialogue \in Seq(Packets) /\ n \in Nat /\ DOMAIN dialogue = 1 .. n
      /\ dialogue' = Append(dialogue, packet)
  BY DEF LdapInv, TypeOK, Take
<1>2. /\ Len(dialogue') = n + 1 /\ DOMAIN dialogue' = 1 .. n + 1
      /\ dialogue'[n + 1] = packet
      /\ \A i \in 1 .. n : dialogue'[i] = dialogue[i]
  BY <1>1
<1>3. NoLogin \notin Logins
  BY LdapAssumption DEF Packets
<1>4. CASE packet \in Logins
  <2>1. login' = dialogue'[n + 1] /\ login' # NoLogin /\ n + 1 \in 1 .. n + 1
    BY <1>1, <1>2, <1>3, <1>4
  <2>2. (n + 1) + 1 .. n + 1 = {}
    BY <1>1
  <2> HIDE DEF n
  <2> QED BY <1>2, <1>4, <2>1, <2>2 DEF LastLoginKept, LastLogin
<1>5. CASE packet \notin Logins
  <2>1. login' = login
    BY <1>5
  <2>2. CASE login # NoLogin
    <3>1. PICK i \in 1 .. n : /\ dialogue[i] \in Logins /\ login = dialogue[i]
                              /\ \A j \in i + 1 .. n : dialogue[j] \notin Logins
      BY <1>1, <2>2 DEF LdapInv, RecordTellsDialogue, LastLogin
    <3>2. \A j \in i + 1 .. n + 1 : dialogue'[j] \notin Logins
      <4>1. \A j \in i + 1 .. n + 1 : j = n + 1 \/ (j \in i + 1 .. n /\ j \in 1 .. n)
        BY <1>1
      <4> HIDE DEF n
      <4> QED BY <4>1, <3>1, <1>2, <1>5
    <3>3. i \in 1 .. n + 1 /\ dialogue'[i] = dialogue[i]
      BY <1>1, <1>2
    <3> QED BY <1>2, <2>1, <2>2, <3>1, <3>2, <3>3 DEF LastLoginKept, LastLogin
  <2>3. CASE login = NoLogin
    <3>1. \A i \in 1 .. n : dialogue[i] \notin Logins
      BY <1>1, <2>3 DEF LdapInv, RecordTellsDialogue, Met
    <3>2. \A i \in 1 .. n + 1 : i \in 1 .. n \/ i = n + 1
      BY <1>1
    <3>3. \A i \in 1 .. n + 1 : dialogue'[i] \notin Logins
      BY <3>1, <3>2, <1>2, <1>5
    <3> QED BY <1>2, <2>1, <2>3, <3>3 DEF LastLoginKept, Met
  <2> QED BY <2>2, <2>3
<1> QED BY <1>4, <1>5

\* A packet that is not a simple bind, StartTLS aside, and where it leads.
LEMMA PacketStep ==
  ASSUME LdapInv, NEW packet \in Packets, Take(packet),
         login' = IF packet \in Logins THEN packet ELSE login,
         bindAttempts' = IF packet \in BindKinds \cup Logins
                         THEN bindAttempts + 1 ELSE bindAttempts,
         searchAttempted' = IF packet \in SearchKinds THEN TRUE ELSE searchAttempted,
         tlsUsed' = IF packet = "starttls" THEN TRUE ELSE tlsUsed,
         tlsActive' = tlsActive,
         \/ pc' \in {"poll", "reply"} /\ packet # "unbind" /\ UNCHANGED disconnectReason
         \/ pc' = "agree" /\ packet = "starttls" /\ UNCHANGED disconnectReason
         \/ pc' = "log" /\ packet \in UntypedKinds /\ UNCHANGED disconnectReason
         \/ pc' = "log" /\ packet = "unbind" /\ disconnectReason' = "unbind_requested"
  PROVE  LdapInv'
<1>1. Taken(packet)
  BY TakeStep
<1>2. /\ TypeOK /\ EndIsExplained /\ RecordTellsDialogue /\ ReasonOrder
  BY DEF LdapInv
<1>3. /\ pc = "read" /\ disconnectReason = NoReason /\ UNCHANGED <<envVars, record>>
      /\ dialogue' \in Seq(Packets) /\ dialogue' # <<>>
      /\ dialogue'[Len(dialogue')] = packet
      /\ numMessages' \in Nat \ {0} /\ numMessages' = Len(dialogue') + 1
  BY <1>1 DEF Taken
<1>4. /\ Met({"unbind"})' <=> packet = "unbind" \/ Met({"unbind"})
      /\ Met({"starttls"})' <=> packet = "starttls" \/ Met({"starttls"})
      /\ Met(SearchKinds)' <=> packet \in SearchKinds \/ Met(SearchKinds)
  BY <1>1 DEF Taken, Met
<1>5. TypeOK'
  <2>1. {ctxDone', silent', gone', tlsConfig', tlsUsed', tlsActive', searchAttempted'} \subseteq BOOLEAN
    BY <1>2, <1>3, Zenon DEF TypeOK, envVars
  <2>2. bindAttempts' \in Nat
    BY <1>2 DEF TypeOK
  <2>3. login' \in Logins \cup {NoLogin}
    BY <1>2 DEF TypeOK
  <2>4. /\ pc' \in Pcs
        /\ disconnectReason' \in Reasons \cup {NoReason}
        /\ record' \in Reasons \cup {NoReason, NoRecord}
    BY <1>2, <1>3 DEF TypeOK, Pcs, Writing, Reasons
  <2> QED BY <1>3, <2>1, <2>2, <2>3, <2>4, Zenon DEF TypeOK
<1>6. ReasonOrder'
  BY <1>2, <1>3 DEF ReasonOrder, InLoop
<1>7. EndIsExplained'
  <2>1. ~Met({"unbind"})
    BY <1>2, <1>3 DEF EndIsExplained
  <2>2. Met({"unbind"})' <=> packet = "unbind"
    BY <1>4, <2>1
  <2>3. "unbind" \notin UntypedKinds
    BY DEF UntypedKinds
  <2> QED BY <1>3, <2>2, <2>3 DEF EndIsExplained, InLoop, envVars
<1>8. RecordTellsDialogue'
  <2>1. LastLoginKept'
    BY LoginStep
  <2>2. bindAttempts' = Cardinality(Bindings')
    BY <1>1 DEF Taken
  <2>3. searchAttempted' <=> Met(SearchKinds)'
    BY <1>2, <1>4, Zenon DEF RecordTellsDialogue
  <2>4. tlsUsed' <=> Met({"starttls"})'
    BY <1>2, <1>4, Zenon DEF RecordTellsDialogue
  <2>5. tlsActive' => tlsUsed' /\ tlsConfig'
    BY <1>2, <1>3, Zenon DEF RecordTellsDialogue, envVars
  <2> QED BY <1>3, <2>1, <2>2, <2>3, <2>4, <2>5, Zenon DEF RecordTellsDialogue, LastLoginKept
<1> QED BY <1>5, <1>6, <1>7, <1>8 DEF LdapInv

\* The kinds of packets, and what each is not.
LEMMA KindFacts ==
  /\ Kinds \subseteq Packets /\ Logins \subseteq Packets
  /\ \A l \in Logins : l \notin Kinds
  /\ \A kind \in {"noise", "other", "extended", "untyped", "unbind", "starttls"} :
       kind \in Kinds /\ kind \notin BindKinds \cup SearchKinds
  /\ \A kind \in BindKinds : kind \in Kinds /\ kind \notin SearchKinds
  /\ \A kind \in SearchKinds : kind \in Kinds /\ kind \notin BindKinds
  /\ "starttls" \notin BindKinds \cup SearchKinds \cup UntypedKinds
BY LdapAssumption DEF Packets, Kinds, BindKinds, SearchKinds, UntypedKinds

\* Steps that take no packet.
LEMMA QuietStep ==
  ASSUME LdapInv, UNCHANGED <<tlsConfig, sessVars>>,
         {ctxDone', silent', gone'} \subseteq BOOLEAN, pc' \in Pcs,
         disconnectReason' \in Reasons \cup {NoReason},
         record' \in Reasons \cup {NoReason, NoRecord},
         ReasonOrder', EndIsExplained'
  PROVE  LdapInv'
<1>1. TypeOK'
  <2>1. {ctxDone', silent', gone', tlsConfig', tlsUsed', tlsActive', searchAttempted'} \subseteq BOOLEAN
    BY Zenon DEF LdapInv, TypeOK, sessVars, tlsVars
  <2>2. /\ login' \in Logins \cup {NoLogin} /\ bindAttempts' \in Nat
        /\ numMessages' \in Nat \ {0} /\ dialogue' \in Seq(Packets)
    BY Zenon DEF LdapInv, TypeOK, sessVars, bindVars
  <2> QED BY <2>1, <2>2, Zenon DEF TypeOK
<1>2. RecordTellsDialogue'
  BY DEF LdapInv, RecordTellsDialogue, Bindings, LastLogin, Met, sessVars, tlsVars, bindVars
<1> QED BY <1>1, <1>2 DEF LdapInv

LEMMA LdapStep == LdapInv /\ [Next]_vars => LdapInv'
<1> SUFFICES ASSUME LdapInv, [Next]_vars PROVE LdapInv'
  OBVIOUS
<1>0. /\ pc \in Pcs /\ record \in Reasons \cup {NoReason, NoRecord}
      /\ disconnectReason \in Reasons \cup {NoReason}
      /\ {ctxDone, silent, gone} \subseteq BOOLEAN
      /\ ReasonOrder /\ EndIsExplained
  BY DEF LdapInv, TypeOK
<1>1. CASE Poll
  <2>1. ReasonOrder' /\ EndIsExplained'
    BY <1>0, <1>1 DEF Poll, Return, ReasonOrder, EndIsExplained, InLoop, Met, sessVars, envVars
  <2> QED BY <1>0, <1>1, <2>1, QuietStep DEF Poll, Return, Pcs, Reasons, envVars
<1>2. CASE ReadTimeout \/ ReadFails
  <2>1. ReasonOrder' /\ EndIsExplained'
    BY <1>0, <1>2
       DEF ReadTimeout, ReadFails, Return, ReasonOrder, EndIsExplained, InLoop, Met, sessVars, envVars
  <2> QED BY <1>0, <1>2, <2>1, QuietStep DEF ReadTimeout, ReadFails, Return, Pcs, Reasons, envVars
<1>3. CASE Chatter \/ Replied \/ Handshake
  <2> USE DEF Chatter, Replied, Handshake, Resume, Reply
  <2>1. ReasonOrder' /\ EndIsExplained'
    BY <1>0, <1>3 DEF ReasonOrder, EndIsExplained, InLoop, Met, sessVars, envVars
  <2> QED BY <1>0, <1>3, <2>1, QuietStep DEF Pcs, Writing, envVars
<1>4. CASE HandshakeDone
  <2>1. /\ pc = "finished" /\ tlsConfig /\ tlsActive' = TRUE /\ pc' = "poll"
        /\ UNCHANGED <<envVars, tlsUsed, bindVars, searchAttempted, numMessages, dialogue,
                       disconnectReason, record>>
    BY <1>0, <1>4 DEF HandshakeDone, Resume, EndIsExplained
  <2>2. ReasonOrder' /\ EndIsExplained'
    BY <1>0, <2>1 DEF ReasonOrder, EndIsExplained, InLoop, Met, envVars
  <2>3. TypeOK'
    BY <2>1, Zenon DEF LdapInv, TypeOK, envVars, bindVars, Pcs
  <2>4. tlsUsed
    <3>1. dialogue \in Seq(Packets) /\ dialogue # <<>> /\ dialogue[Len(dialogue)] = "starttls"
      BY <2>1 DEF LdapInv, TypeOK, EndIsExplained
    <3>2. Len(dialogue) \in DOMAIN dialogue
      BY <3>1
    <3> QED BY <3>1, <3>2 DEF LdapInv, RecordTellsDialogue, Met
  <2>5. RecordTellsDialogue'
    BY <2>1, <2>4 DEF LdapInv, RecordTellsDialogue, Bindings, LastLogin, Met, bindVars, envVars
  <2> QED BY <2>2, <2>3, <2>5 DEF LdapInv
<1>5. CASE HandshakeFails \/ HandshakePanics
  <2>1. ReasonOrder' /\ EndIsExplained'
    BY <1>0, <1>5
       DEF HandshakeFails, HandshakePanics, Resume, Reply, Panic, ReasonOrder, EndIsExplained,
           InLoop, Met, sessVars, envVars
  <2> QED BY <1>0, <1>5, <2>1, QuietStep DEF HandshakeFails, HandshakePanics, Resume, Reply, Panic, Pcs, Writing, envVars
<1>6. CASE Answer
  <2>1. PICK kind \in {"noise", "other", "extended"} : Take(kind) /\ (Resume \/ Reply)
    BY <1>6 DEF Answer
  <2> QED BY <1>6, <2>1, KindFacts, PacketStep DEF Answer, Resume, Reply, tlsVars, bindVars
<1>7. CASE Untyped
  BY <1>7, KindFacts, PacketStep DEF Untyped, Panic, tlsVars, bindVars, UntypedKinds
<1>8. CASE Unbind
  BY <1>8, KindFacts, PacketStep DEF Unbind, Return, tlsVars, bindVars
<1>9. CASE Bind
  <2>1. CASE Take("bind") /\ Reply
    BY <1>9, <2>1, KindFacts, PacketStep DEF Bind, Reply, tlsVars, BindKinds
  <2>2. CASE Take("untyped_bind") /\ Panic
    BY <1>9, <2>2, KindFacts, PacketStep DEF Bind, Panic, tlsVars, BindKinds, UntypedKinds
  <2> QED BY <1>9, <2>1, <2>2 DEF Bind
<1>10. ASSUME NEW l \in Logins, BindSimple(l) PROVE LdapInv'
  BY <1>10, KindFacts, PacketStep DEF BindSimple, Reply, tlsVars, Kinds
<1>11. CASE Search
  <2>1. CASE Take("search") /\ Reply
    BY <1>11, <2>1, KindFacts, PacketStep DEF Search, Reply, tlsVars, bindVars, SearchKinds
  <2>2. CASE Take("untyped_search") /\ Panic
    BY <1>11, <2>2, KindFacts, PacketStep
       DEF Search, Panic, tlsVars, bindVars, SearchKinds, UntypedKinds
  <2> QED BY <1>11, <2>1, <2>2 DEF Search
<1>12. CASE StartTls
  BY <1>12, KindFacts, PacketStep DEF StartTls, bindVars
<1>13. CASE LogRecord \/ CloseConn
  <2>1. ReasonOrder' /\ EndIsExplained'
    BY <1>0, <1>13
       DEF LogRecord, CloseConn, ReasonOrder, EndIsExplained, InLoop, Met, sessVars, envVars
  <2> QED BY <1>0, <1>13, <2>1, QuietStep DEF LogRecord, CloseConn, Pcs, envVars
<1>14. CASE Cancel \/ FallSilent \/ ClientLeaves \/ UNCHANGED vars
  <2>1. ReasonOrder' /\ EndIsExplained'
    BY <1>0, <1>14
       DEF Cancel, FallSilent, ClientLeaves, vars, ReasonOrder, EndIsExplained, InLoop, Met, sessVars, envVars
  <2> QED BY <1>0, <1>14, <2>1, QuietStep DEF Cancel, FallSilent, ClientLeaves, vars, envVars
<1> QED BY <1>1, <1>2, <1>3, <1>4, <1>5, <1>6, <1>7, <1>8, <1>9, <1>10, <1>11, <1>12, <1>13, <1>14
        DEF Next, HandleConn, Dispatch

LEMMA LdapAlways == Spec => []LdapInv
BY LdapInit, LdapStep, PTL DEF Spec

-----------------------------------------------------------------------------
\* The session keeps its types, for any logins.
THEOREM LdapTypeCorrect == Spec => []TypeOK
<1>1. LdapInv => TypeOK
  BY DEF LdapInv
<1> QED BY <1>1, LdapAlways, PTL

\* Every field of the record says of the dialogue what it should, for dialogues
\* of any length: the messages and binds are counted, and the credentials are
\* those of the last simple bind (dispatch and handleBind).
THEOREM LdapRecordTellsDialogue == Spec => []RecordTellsDialogue
<1>1. LdapInv => RecordTellsDialogue
  BY DEF LdapInv
<1> QED BY <1>1, LdapAlways, PTL

\* The reason in the record is the one for which handleConn was left, and none
\* is given only if it was left by a panic.
THEOREM LdapRecordExplainsEnd == Spec => []RecordExplainsEnd
<1>1. LdapInv => RecordExplainsEnd
  <2> SUFFICES ASSUME LdapInv, record # NoRecord PROVE RecordExplainsEnd
    BY DEF RecordExplainsEnd
  <2>1. ~InLoop /\ record = disconnectReason /\ EndIsExplained
    BY DEF LdapInv, ReasonOrder, InLoop
  <2> QED BY <2>1 DEF RecordExplainsEnd, EndIsExplained, Met
<1> QED BY <1>1, LdapAlways, PTL

\* handleConn logs one record and then ends, also when it panics.
THEOREM LdapImplementsSession == Spec => RecordsOnce
<1>1. Init => SessionView!Init
  BY DEF Init, SessionView!Init
<1>2. ASSUME LdapInv, [Next]_vars
      PROVE  [SessionView!Next]_SessionView!vars
  <2> USE DEF SessionView!vars
  <2>1. CASE LogRecord
    <3>1. disconnectReason \in Reasons \cup {NoReason} /\ record = NoRecord
      BY <1>2, <2>1 DEF LdapInv, ReasonOrder, TypeOK, LogRecord
    <3>2. SessionView!LogEnd(disconnectReason)
      BY <2>1, <3>1 DEF LogRecord, SessionView!LogEnd
    <3> QED BY <3>1, <3>2 DEF SessionView!Next
  <2>2. CASE CloseConn
    <3>1. record \in Reasons \cup {NoReason}
      BY <1>2, <2>2 DEF LdapInv, ReasonOrder, TypeOK, CloseConn
    <3>2. SessionView!Finish
      BY <2>2, <3>1 DEF CloseConn, SessionView!Finish, Reasons
    <3> QED BY <3>2 DEF SessionView!Next
  <2>3. CASE \/ Poll \/ ReadTimeout \/ ReadFails \/ Chatter \/ Replied
             \/ Handshake \/ HandshakeDone \/ HandshakeFails \/ HandshakePanics
    BY <2>3 DEF Poll, ReadTimeout, ReadFails, Chatter, Replied, Handshake, HandshakeDone,
                HandshakeFails, HandshakePanics, Return, Resume, Reply, Panic
  <2>4. CASE Answer \/ Untyped \/ Unbind \/ Bind \/ Search \/ StartTls
    BY <2>4 DEF Answer, Untyped, Unbind, Bind, Search, StartTls, Take, Return, Resume, Reply, Panic
  <2>5. ASSUME NEW l \in Logins, BindSimple(l) PROVE UNCHANGED SessionView!vars
    BY <2>5 DEF BindSimple, Take, Reply
  <2>6. CASE Cancel \/ FallSilent \/ ClientLeaves \/ UNCHANGED vars
    BY <2>6 DEF Cancel, FallSilent, ClientLeaves, vars
  <2> QED BY <1>2, <2>1, <2>2, <2>3, <2>4, <2>5, <2>6 DEF Next, HandleConn, Dispatch
<1> QED BY <1>1, <1>2, LdapAlways, PTL DEF Spec, RecordsOnce, SessionView!Spec

=============================================================================
