----------------------------- MODULE SmtpProofs -----------------------------
(***************************************************************************)
(* Proofs about module SmtpSession, for any addresses, credentials and     *)
(* message lines, and for dialogues of any length.                         *)
(***************************************************************************)
EXTENDS SmtpSession, NaturalLemmas, SequenceTheorems, TLAPS

\* The goroutine is still in its loop.
InLoop == pc \in {"read", "data", "handshake", "user", "password"}

\* Only a greeted client is read a message or credentials from.
Greeted == pc \in {"data", "user", "password"} => state # "INIT"

\* tls_used is set with the upgrade, which is done once.
TlsOrder ==
  /\ tlsUsed = tlsActive
  /\ pc = "handshake" => tlsTested /\ ~tlsActive

\* Why the loop was left: RecordExplainsEnd, before the record is logged.
EndIsExplained ==
  /\ disconnectReason \in FinalReasons
  /\ disconnectReason \in {"context_cancelled", "auth_username_timeout", "auth_password_timeout"}
       => ctxDone
  /\ disconnectReason = "client_disconnect" => gone
  /\ disconnectReason \in {"tls_handshake_error", "tls_unsupported_client_versions"}
       => tlsTested /\ ~tlsUsed

ReasonOrder ==
  /\ ~InLoop => EndIsExplained
  /\ record = IF pc \in {"close", "closed"} THEN disconnectReason ELSE NoReason

\* The types, in the parts that the steps leave alone or change together.
EnvTypeOK ==
  /\ {ctxDone, tlsConfig, gone} \subseteq BOOLEAN
  /\ lines \in 0 .. MaxLines
  /\ idle \in 0 .. IdleLimit + 1
PcTypeOK ==
  /\ pc \in Pcs
  /\ state \in States
  /\ disconnectReason \in Reasons \cup {NoReason}
  /\ record \in Reasons \cup {NoReason}
MailTypeOK ==
  /\ mailFrom \in Addrs /\ sender \in Addrs
  /\ rcptTo \in Seq(Addrs) /\ recipients \in Seq(Addrs)
TlsTypeOK == {tlsActive, tlsTested, tlsUsed} \subseteq BOOLEAN
AuthTypeOK == authUser \in Users /\ authPass \in Passwords

SmtpInv ==
  /\ EnvTypeOK /\ PcTypeOK /\ MailTypeOK /\ TlsTypeOK /\ AuthTypeOK
  /\ body \in Seq(BodyLines)
  /\ Greeted
  /\ TlsOrder
  /\ ReasonOrder
  /\ EnvelopeIsLogged

-----------------------------------------------------------------------------
USE DEF NoReason

\* The empty sequence is a suffix of every one, and a suffix stays one when both
\* sequences grow by the same element.
LEMMA SuffixFacts ==
  ASSUME NEW S, NEW s \in Seq(S), NEW t \in Seq(S), NEW x \in S
  PROVE  /\ IsSuffixOf(<<>>, t)
         /\ IsSuffixOf(s, t) => IsSuffixOf(Append(s, x), Append(t, x))
<1>1. IsSuffixOf(<<>>, t)
  <2>1. Len(t) \in 0 .. Len(t) /\ <<>> = SubSeq(t, Len(t) + 1, Len(t))
    OBVIOUS
  <2> QED BY <2>1 DEF IsSuffixOf
<1>2. ASSUME IsSuffixOf(s, t) PROVE IsSuffixOf(Append(s, x), Append(t, x))
  <2>1. PICK i \in 0 .. Len(t) : s = SubSeq(t, i + 1, Len(t))
    BY <1>2 DEF IsSuffixOf
  <2>2. Append(t, x) \in Seq(S) /\ Len(Append(t, x)) = Len(t) + 1
    OBVIOUS
  <2>3. Append(s, x) = SubSeq(Append(t, x), i + 1, Len(t) + 1)
    BY <2>1, <2>2
  <2>4. i \in 0 .. Len(t) + 1
    OBVIOUS
  <2> QED BY <2>2, <2>3, <2>4 DEF IsSuffixOf
<1> QED BY <1>1, <1>2

LEMMA TypeParts ==
  TypeOK <=> /\ EnvTypeOK /\ PcTypeOK /\ MailTypeOK /\ TlsTypeOK /\ AuthTypeOK
             /\ body \in Seq(BodyLines)
BY Zenon DEF TypeOK, EnvTypeOK, PcTypeOK, MailTypeOK, TlsTypeOK, AuthTypeOK

LEMMA SmtpInit == Init => SmtpInv
<1> SUFFICES ASSUME Init PROVE SmtpInv
  OBVIOUS
<1> USE DEF Init
<1>1. /\ rcptTo \in Seq(Addrs) /\ recipients \in Seq(Addrs) /\ body \in Seq(BodyLines)
  OBVIOUS
<1>2. TypeOK
  <2>1. {ctxDone, tlsConfig, gone, tlsActive, tlsTested, tlsUsed} \subseteq BOOLEAN
    BY Zenon
  <2>2. lines \in 0 .. MaxLines /\ idle \in 0 .. IdleLimit + 1
    BY SmtpAssumption
  <2>3. /\ pc \in Pcs /\ state \in States
        /\ {mailFrom, sender} \subseteq Addrs /\ authUser \in Users /\ authPass \in Passwords
        /\ {disconnectReason, record} \subseteq Reasons \cup {NoReason}
    BY SmtpAssumption DEF Pcs, States
  <2> QED BY <1>1, <2>1, <2>2, <2>3, Zenon DEF TypeOK
<1>3. Greeted /\ TlsOrder /\ ReasonOrder
  BY DEF Greeted, TlsOrder, ReasonOrder, InLoop
<1>4. EnvelopeIsLogged
  <2>1. IsSuffixOf(rcptTo, recipients)
    <3>1. 0 \in 0 .. Len(recipients) /\ rcptTo = SubSeq(recipients, 0 + 1, Len(recipients))
      BY <1>1
    <3> QED BY <3>1 DEF IsSuffixOf
  <2>2. state = "INIT"
    OBVIOUS
  <2> QED BY <2>1, <2>2, Zenon DEF EnvelopeIsLogged
<1> QED BY <1>2, <1>3, <1>4, TypeParts DEF SmtpInv

\* What a step that leaves the envelope alone may do to the state.
LEMMA EnvelopeKept ==
  ASSUME EnvelopeIsLogged, UNCHANGED mailVars,
         state' \in {state, "INIT", "HELO_RECEIVED"}
  PROVE  EnvelopeIsLogged'
BY DEF EnvelopeIsLogged, IsSuffixOf, mailVars

\* Taking a line keeps the types of the environment.
LEMMA TakeLineStep == EnvTypeOK /\ TakeLine => EnvTypeOK' /\ UNCHANGED <<ctxDone, tlsConfig, gone>>
<1> SUFFICES ASSUME EnvTypeOK, TakeLine
             PROVE  EnvTypeOK' /\ UNCHANGED <<ctxDone, tlsConfig, gone>>
  OBVIOUS
<1>1. lines' \in 0 .. MaxLines /\ idle' \in 0 .. IdleLimit + 1
  BY SmtpAssumption DEF EnvTypeOK, TakeLine
<1>2. UNCHANGED <<ctxDone, tlsConfig, gone>>
  BY DEF TakeLine
<1> QED BY <1>1, <1>2 DEF EnvTypeOK

LEMMA SmtpStep == SmtpInv /\ [Next]_vars => SmtpInv'
<1> SUFFICES ASSUME SmtpInv, [Next]_vars PROVE SmtpInv'
  OBVIOUS
<1>0. /\ EnvTypeOK /\ PcTypeOK /\ MailTypeOK /\ TlsTypeOK /\ AuthTypeOK
      /\ body \in Seq(BodyLines)
      /\ Greeted /\ TlsOrder /\ ReasonOrder /\ EnvelopeIsLogged
  BY DEF SmtpInv
<1> USE DEF sessVars, Command
\* A line that changes nothing of the session, or only that TLS was tested.
<1>1. CASE \/ Greet \/ Answer \/ Data \/ StartTls \/ AuthLogin \/ AuthGarbled \/ Quit
  <2> USE DEF Greet, Answer, Data, StartTls, AuthLogin, AuthGarbled, Quit, Return
  <2>1. TakeLine /\ UNCHANGED <<mailVars, textVars, tlsActive, tlsUsed, authVars, record>>
        /\ pc \in {"read", "user", "password"}
    BY <1>1 DEF tlsVars
  <2>2. EnvTypeOK' /\ UNCHANGED <<ctxDone, tlsConfig, gone>>
    BY <1>0, <2>1, TakeLineStep
  <2>3. PcTypeOK' /\ state' \in {state, "INIT", "HELO_RECEIVED"}
    BY <1>0, <1>1 DEF PcTypeOK, Pcs, States, Reasons, FinalReasons
  <2>4. TlsTypeOK'
    BY <1>0, <1>1 DEF TlsTypeOK, tlsVars
  <2>5. MailTypeOK' /\ AuthTypeOK' /\ body' \in Seq(BodyLines)
    BY <1>0, <2>1 DEF MailTypeOK, AuthTypeOK, mailVars, authVars, textVars
  <2>6. Greeted' /\ TlsOrder'
    BY <1>0, <1>1 DEF Greeted, TlsOrder, tlsVars
  <2>7. ReasonOrder'
    BY <1>0, <1>1, <2>2 DEF ReasonOrder, EndIsExplained, InLoop, FinalReasons, tlsVars
  <2>8. EnvelopeIsLogged'
    BY <1>0, <2>1, <2>3, EnvelopeKept
  <2> QED BY <2>2, <2>3, <2>4, <2>5, <2>6, <2>7, <2>8 DEF SmtpInv
<1>2. ASSUME NEW addr \in Addrs, Mail(addr) PROVE SmtpInv'
  <2>1. /\ TakeLine /\ pc = "read" /\ mailFrom' = addr /\ sender' = addr
        /\ state' = "MAIL_RECEIVED"
        /\ UNCHANGED <<pc, rcptTo, recipients, textVars, tlsVars, authVars, disconnectReason, record>>
    BY <1>2 DEF Mail
  <2>2. EnvTypeOK' /\ UNCHANGED <<ctxDone, tlsConfig, gone>>
    BY <1>0, <2>1, TakeLineStep
  <2>3. PcTypeOK' /\ MailTypeOK' /\ TlsTypeOK' /\ AuthTypeOK' /\ body' \in Seq(BodyLines)
    BY <1>0, <2>1 DEF PcTypeOK, MailTypeOK, TlsTypeOK, AuthTypeOK, States, tlsVars, authVars, textVars
  <2>4. Greeted' /\ TlsOrder' /\ ReasonOrder'
    BY <1>0, <2>1, <2>2 DEF Greeted, TlsOrder, ReasonOrder, EndIsExplained, InLoop, tlsVars
  <2>5. EnvelopeIsLogged'
    BY <1>0, <2>1 DEF EnvelopeIsLogged, IsSuffixOf
  <2> QED BY <2>2, <2>3, <2>4, <2>5 DEF SmtpInv
<1>3. ASSUME NEW addr \in Addrs, Rcpt(addr) PROVE SmtpInv'
  <2>1. /\ TakeLine /\ pc = "read" /\ state \in {"MAIL_RECEIVED", "RCPT_RECEIVED"}
        /\ rcptTo' = Append(rcptTo, addr) /\ recipients' = Append(recipients, addr)
        /\ state' = "RCPT_RECEIVED"
        /\ UNCHANGED <<pc, mailFrom, sender, textVars, tlsVars, authVars, disconnectReason, record>>
    BY <1>3 DEF Rcpt
  <2>2. EnvTypeOK' /\ UNCHANGED <<ctxDone, tlsConfig, gone>>
    BY <1>0, <2>1, TakeLineStep
  <2>3. rcptTo' \in Seq(Addrs) /\ recipients' \in Seq(Addrs) /\ rcptTo' # <<>>
    BY <1>0, <2>1 DEF MailTypeOK
  <2>4. PcTypeOK' /\ MailTypeOK' /\ TlsTypeOK' /\ AuthTypeOK' /\ body' \in Seq(BodyLines)
    BY <1>0, <2>1, <2>3
       DEF PcTypeOK, MailTypeOK, TlsTypeOK, AuthTypeOK, States, tlsVars, authVars, textVars
  <2>5. Greeted' /\ TlsOrder' /\ ReasonOrder'
    BY <1>0, <2>1, <2>2 DEF Greeted, TlsOrder, ReasonOrder, EndIsExplained, InLoop, tlsVars
  <2>6. IsSuffixOf(Append(rcptTo, addr), Append(recipients, addr))
    <3>1. rcptTo \in Seq(Addrs) /\ recipients \in Seq(Addrs) /\ IsSuffixOf(rcptTo, recipients)
      BY <1>0 DEF MailTypeOK, EnvelopeIsLogged
    <3> QED BY <3>1, SuffixFacts, Zenon
  <2>7. IsSuffixOf(rcptTo, recipients)'
    BY <2>1, <2>6 DEF IsSuffixOf
  <2>8. mailFrom' = sender'
    BY <1>0, <2>1 DEF EnvelopeIsLogged, IsSuffixOf
  <2>9. EnvelopeIsLogged'
    BY <2>3, <2>7, <2>8, Zenon DEF EnvelopeIsLogged
  <2> QED BY <2>2, <2>4, <2>5, <2>9 DEF SmtpInv
<1>4. ASSUME NEW line \in Texts, BodyLine(line) PROVE SmtpInv'
  <2>1. /\ TakeLine /\ pc = "data" /\ line \notin DotLines /\ body' = Append(body, line)
        /\ UNCHANGED <<pc, state, mailVars, message, tlsVars, authVars, disconnectReason, record>>
    BY <1>4 DEF BodyLine
  <2>2. EnvTypeOK' /\ UNCHANGED <<ctxDone, tlsConfig, gone>>
    BY <1>0, <2>1, TakeLineStep
  <2>3. body' \in Seq(BodyLines)
    <3>1. line \in BodyLines
      BY <2>1, SmtpAssumption
    <3> QED BY <1>0, <2>1, <3>1
  <2>4. PcTypeOK' /\ MailTypeOK' /\ TlsTypeOK' /\ AuthTypeOK'
    BY <1>0, <2>1 DEF PcTypeOK, MailTypeOK, TlsTypeOK, AuthTypeOK, tlsVars, authVars, mailVars
  <2>5. Greeted' /\ TlsOrder' /\ ReasonOrder'
    BY <1>0, <2>1, <2>2 DEF Greeted, TlsOrder, ReasonOrder, EndIsExplained, InLoop, tlsVars
  <2>6. EnvelopeIsLogged'
    BY <1>0, <2>1, EnvelopeKept
  <2> QED BY <2>2, <2>3, <2>4, <2>5, <2>6 DEF SmtpInv
<1>5. CASE Rset \/ \E line \in Texts : BodyRead(line)
  <2>1. /\ TakeLine /\ pc \in {"read", "data"} /\ body' \in {body, <<>>}
        /\ mailFrom' = Nothing /\ rcptTo' = <<>> /\ state' = "HELO_RECEIVED" /\ pc' = "read"
        /\ UNCHANGED <<sender, recipients, tlsVars, authVars, disconnectReason, record>>
    BY <1>5, Zenon DEF BodyRead, Rset, textVars
  <2>2. EnvTypeOK' /\ UNCHANGED <<ctxDone, tlsConfig, gone>>
    BY <1>0, <2>1, TakeLineStep
  <2>3. rcptTo' \in Seq(Addrs) /\ body' \in Seq(BodyLines)
    <3>1. <<>> \in Seq(Addrs) /\ <<>> \in Seq(BodyLines)
      OBVIOUS
    <3> QED BY <1>0, <2>1, <3>1, Zenon
  <2>4. PcTypeOK' /\ MailTypeOK' /\ TlsTypeOK' /\ AuthTypeOK'
    BY <1>0, <2>1, <2>3, SmtpAssumption
       DEF PcTypeOK, MailTypeOK, TlsTypeOK, AuthTypeOK, Pcs, States, tlsVars, authVars
  <2>5. Greeted' /\ TlsOrder' /\ ReasonOrder'
    BY <1>0, <2>1, <2>2 DEF Greeted, TlsOrder, ReasonOrder, EndIsExplained, InLoop, tlsVars
  <2>6. IsSuffixOf(rcptTo, recipients)'
    <3>1. /\ recipients' \in Seq(Addrs) /\ Len(recipients') \in 0 .. Len(recipients')
          /\ rcptTo' = SubSeq(recipients', Len(recipients') + 1, Len(recipients'))
      BY <1>0, <2>1 DEF MailTypeOK
    <3> QED BY <3>1 DEF IsSuffixOf
  <2>7. EnvelopeIsLogged'
    BY <2>1, <2>6, Zenon DEF EnvelopeIsLogged
  <2> QED BY <2>2, <2>3, <2>4, <2>5, <2>7 DEF SmtpInv
<1>6. ASSUME NEW user \in Users, AuthUser(user) PROVE SmtpInv'
  <2>1. /\ TakeLine /\ pc = "user" /\ authUser' = user /\ pc' = "password"
        /\ UNCHANGED <<state, mailVars, textVars, tlsVars, authPass, disconnectReason, record>>
    BY <1>6 DEF AuthUser
  <2>2. EnvTypeOK' /\ UNCHANGED <<ctxDone, tlsConfig, gone>>
    BY <1>0, <2>1, TakeLineStep
  <2>3. PcTypeOK' /\ MailTypeOK' /\ TlsTypeOK' /\ AuthTypeOK' /\ body' \in Seq(BodyLines)
    BY <1>0, <2>1
       DEF PcTypeOK, MailTypeOK, TlsTypeOK, AuthTypeOK, Pcs, mailVars, tlsVars, textVars
  <2>4. Greeted' /\ TlsOrder' /\ ReasonOrder'
    BY <1>0, <2>1, <2>2 DEF Greeted, TlsOrder, ReasonOrder, EndIsExplained, InLoop, tlsVars
  <2>5. EnvelopeIsLogged'
    BY <1>0, <2>1, EnvelopeKept
  <2> QED BY <2>2, <2>3, <2>4, <2>5 DEF SmtpInv
<1>7. ASSUME NEW pass \in Passwords, AuthPass(pass) PROVE SmtpInv'
  <2>1. /\ TakeLine /\ pc = "password" /\ authPass' = pass /\ pc' = "read"
        /\ UNCHANGED <<state, mailVars, textVars, tlsVars, authUser, disconnectReason, record>>
    BY <1>7 DEF AuthPass
  <2>2. EnvTypeOK' /\ UNCHANGED <<ctxDone, tlsConfig, gone>>
    BY <1>0, <2>1, TakeLineStep
  <2>3. PcTypeOK' /\ MailTypeOK' /\ TlsTypeOK' /\ AuthTypeOK' /\ body' \in Seq(BodyLines)
    BY <1>0, <2>1
       DEF PcTypeOK, MailTypeOK, TlsTypeOK, AuthTypeOK, Pcs, mailVars, tlsVars, textVars
  <2>4. Greeted' /\ TlsOrder' /\ ReasonOrder'
    BY <1>0, <2>1, <2>2 DEF Greeted, TlsOrder, ReasonOrder, EndIsExplained, InLoop, tlsVars
  <2>5. EnvelopeIsLogged'
    BY <1>0, <2>1, EnvelopeKept
  <2> QED BY <2>2, <2>3, <2>4, <2>5 DEF SmtpInv
<1>8. CASE HandshakeDone
  <2>1. /\ pc = "handshake" /\ tlsActive' = TRUE /\ tlsUsed' = TRUE /\ state' = "INIT"
        /\ pc' = "read"
        /\ UNCHANGED <<envVars, mailVars, textVars, tlsTested, authVars, disconnectReason, record>>
    BY <1>8 DEF HandshakeDone
  <2>2. EnvTypeOK' /\ MailTypeOK' /\ AuthTypeOK' /\ body' \in Seq(BodyLines)
    BY <1>0, <2>1 DEF EnvTypeOK, MailTypeOK, AuthTypeOK, envVars, mailVars, authVars, textVars
  <2>3. PcTypeOK' /\ TlsTypeOK'
    BY <1>0, <2>1 DEF PcTypeOK, TlsTypeOK, Pcs, States
  <2>4. Greeted' /\ TlsOrder' /\ ReasonOrder'
    BY <1>0, <2>1 DEF Greeted, TlsOrder, ReasonOrder, EndIsExplained, InLoop
  <2>5. EnvelopeIsLogged'
    BY <1>0, <2>1, EnvelopeKept
  <2> QED BY <2>2, <2>3, <2>4, <2>5 DEF SmtpInv
\* No line comes, or the deferred functions run: the session stays as it is.
<1>9. CASE \/ NoLine \/ LogRecord \/ CloseConn \/ Cancel \/ ClientLeaves \/ UNCHANGED vars
  <2> USE DEF NoLine, ReadTimeout, ReadFails, BodyFails, HandshakeFails, AuthTimeout,
              AuthReadFails, LogRecord, CloseConn, Cancel, ClientLeaves, Return, vars, envVars
  <2>1. UNCHANGED <<sessVars, state>>
    BY <1>9
  <2>2. EnvTypeOK'
    <3>1. lines' \in {lines, 0} /\ idle' \in {idle, IF idle > IdleLimit THEN idle ELSE idle + 1}
      BY <1>9
    <3>2. lines' \in 0 .. MaxLines /\ idle' \in 0 .. IdleLimit + 1
      BY <1>0, <3>1, SmtpAssumption DEF EnvTypeOK
    <3>3. ctxDone' \in {ctxDone, TRUE} /\ gone' \in {gone, TRUE} /\ tlsConfig' = tlsConfig
      BY <1>9
    <3>4. {ctxDone', tlsConfig', gone'} \subseteq BOOLEAN
      BY <1>0, <3>3, Zenon DEF EnvTypeOK
    <3> QED BY <3>2, <3>4 DEF EnvTypeOK
  <2>3. PcTypeOK'
    BY <1>0, <1>9 DEF PcTypeOK, Pcs, Reasons, FinalReasons
  <2>4. MailTypeOK' /\ TlsTypeOK' /\ AuthTypeOK' /\ body' \in Seq(BodyLines)
    BY <1>0, <2>1 DEF MailTypeOK, TlsTypeOK, AuthTypeOK, mailVars, tlsVars, authVars, textVars
  <2>5. Greeted' /\ TlsOrder'
    BY <1>0, <1>9 DEF Greeted, TlsOrder, tlsVars
  <2>6. ReasonOrder'
    BY <1>0, <1>9 DEF ReasonOrder, EndIsExplained, InLoop, FinalReasons, TlsOrder, tlsVars, PcTypeOK, Pcs
  <2>7. EnvelopeIsLogged'
    BY <1>0, <2>1, EnvelopeKept
  <2> QED BY <2>2, <2>3, <2>4, <2>5, <2>6, <2>7 DEF SmtpInv
<1> QED BY <1>1, <1>2, <1>3, <1>4, <1>5, <1>6, <1>7, <1>8, <1>9
        DEF Next, Line, MailCommand, AuthExchange

LEMMA SmtpAlways == Spec => []SmtpInv
BY SmtpInit, SmtpStep, PTL DEF Spec

-----------------------------------------------------------------------------
(* The operators of SmtpMessage.                                           *)

\* The header of a message ends, before its first blank line or with its last one.
LEMMA HeaderEnds ==
  ASSUME NEW text \in Seq(BodyLines)
  PROVE  /\ HeaderEnd(text) \in 1 .. Len(text) + 1
         /\ HeaderEnd(text) <= Len(text) => Blank(text[HeaderEnd(text)])
         /\ \A i \in 1 .. HeaderEnd(text) - 1 : ~Blank(text[i])
<1> DEFINE Ends == {n \in 1 .. Len(text) + 1 : n <= Len(text) => Blank(text[n])}
           Is(n) == /\ n <= Len(text) => Blank(text[n])
                    /\ \A i \in 1 .. n - 1 : ~Blank(text[i])
<1>1. Ends \in SUBSET Nat /\ Len(text) + 1 \in Ends
  OBVIOUS
<1>2. PICK n \in Ends : \A m \in Ends : n <= m
  BY <1>1, LeastNatural
<1>3. n \in 1 .. Len(text) + 1 /\ (n <= Len(text) => Blank(text[n]))
  OBVIOUS
<1>4. ASSUME NEW i \in 1 .. n - 1, Blank(text[i]) PROVE FALSE
  <2>1. i \in Ends /\ ~(n <= i)
    BY <1>3, <1>4
  <2> QED BY <1>2, <2>1
<1>5. \E m \in 1 .. Len(text) + 1 : Is(m)
  BY <1>3, <1>4
<1>6. HeaderEnd(text) = CHOOSE m \in 1 .. Len(text) + 1 : Is(m)
  BY DEF HeaderEnd
<1> HIDE DEF Is
<1>7. HeaderEnd(text) \in 1 .. Len(text) + 1 /\ Is(HeaderEnd(text))
  BY <1>5, <1>6
<1> QED BY <1>7 DEF Is

\* Where no line is indented, the fields are the lines with a colon, the last
\* of each name.
LEMMA FieldsOfTrimmed ==
  ASSUME NEW header \in Seq(BodyLines),
         \A i \in DOMAIN header : ~header[i].indented
  PROVE  /\ DOMAIN Fields(header) = {header[i].holds : i \in DOMAIN header} \cap Names
         /\ \A name \in DOMAIN Fields(header) : \E i \in DOMAIN header :
              /\ DOMAIN Fields(header)[name] = {i}
              /\ header[i].holds = name
              /\ \A k \in i + 1 .. Len(header) : header[k].holds # name
<1>1. ASSUME NEW i \in DOMAIN header PROVE DOMAIN Folded(header, i) = {i}
  <2> DEFINE Numbers == {j \in i .. Len(header) : \A k \in i + 1 .. j : header[k].indented}
  <2>1. i \in Numbers
    OBVIOUS
  <2>2. ASSUME NEW j \in Numbers, j # i PROVE FALSE
    <3>1. i + 1 \in i + 1 .. j /\ i + 1 \in DOMAIN header
      BY <2>2
    <3> QED BY <3>1
  <2>3. Numbers = {i}
    BY <2>1, <2>2
  <2>4. DOMAIN Folded(header, i) = Numbers
    BY DEF Folded
  <2> QED BY <2>3, <2>4
<1>2. ASSUME NEW i \in DOMAIN header, NEW name
      PROVE  Begins(header, i, name) <=> header[i].holds = name
  <2>1. \A k \in i .. i - 1 : header[k].holds \notin Names
    OBVIOUS
  <2> QED BY <1>1, <2>1 DEF Begins
<1> DEFINE Begun(name) == {i \in DOMAIN header : Begins(header, i, name)}
           Last(name) == CHOOSE i \in Begun(name) : \A k \in Begun(name) : k <= i
           Named == {name \in Names : Begun(name) # {}}
<1>3. ASSUME NEW name \in Names
      PROVE  Begun(name) = {i \in DOMAIN header : header[i].holds = name}
  BY <1>2
<1>4. Named = {header[i].holds : i \in DOMAIN header} \cap Names
  <2> HIDE DEF Begun
  <2> QED BY <1>3
<1>5. ASSUME NEW name \in Named
      PROVE  /\ Last(name) \in DOMAIN header
             /\ header[Last(name)].holds = name
             /\ \A k \in Last(name) + 1 .. Len(header) : header[k].holds # name
  <2> DEFINE B == Begun(name)
  <2>1. B # {} /\ B = {i \in DOMAIN header : header[i].holds = name}
    BY <1>3
  <2> HIDE DEF B
  <2>2. B \in SUBSET (1 .. Len(header)) /\ Len(header) \in Nat
    BY <2>1
  <2>3. \E i \in B : \A k \in B : k <= i
    BY <2>1, <2>2, GreatestUpTo
  <2> DEFINE last == Last(name)
  <2>4. last = CHOOSE i \in B : \A k \in B : k <= i
    BY DEF B
  <2> HIDE DEF last
  <2>5. last \in B /\ \A k \in B : k <= last
    BY <2>3, <2>4
  <2>6. ASSUME NEW k \in last + 1 .. Len(header), header[k].holds = name PROVE FALSE
    <3>1. last \in 1 .. Len(header)
      BY <2>2, <2>5
    <3>2. k \in DOMAIN header /\ ~(k <= last)
      BY <3>1
    <3> QED BY <2>1, <2>5, <2>6, <3>2
  <2>7. /\ last \in DOMAIN header /\ header[last].holds = name
        /\ \A k \in last + 1 .. Len(header) : header[k].holds # name
    BY <2>1, <2>5, <2>6
  <2> QED BY <2>7 DEF last
<1>6. Fields(header) = [name \in Named |-> Folded(header, Last(name))]
  BY DEF Fields
<1> HIDE DEF Named, Last
<1>7. DOMAIN Fields(header) = Named
  BY <1>6
<1>8. ASSUME NEW name \in Named
      PROVE  DOMAIN Fields(header)[name] = {Last(name)}
  BY <1>1, <1>5, <1>6
<1> QED BY <1>4, <1>5, <1>7, <1>8

\* The parts of MessageIsCaptured, where n is the number of the first blank line.
HeaderOf(sent, n) == \A i \in 1 .. n - 1 : sent[i].holds # "nothing"
TextOf(sent, n, text) ==
  IF n <= Len(sent)
  THEN /\ sent[n].holds = "nothing"
       /\ Len(text) = Len(sent) - n
       /\ \A i \in DOMAIN text : text[i].holds = sent[n + i].holds
  ELSE text = <<>>
FieldsOf(sent, n, headers) ==
  /\ DOMAIN headers = {sent[i].holds : i \in 1 .. n - 1} \cap Names
  /\ \A name \in DOMAIN headers :
       \E i \in 1 .. n - 1 :
         /\ DOMAIN headers[name] = {i}
         /\ sent[i].holds = name
         /\ \A k \in i + 1 .. n - 1 : sent[k].holds # name

\* What is captured of the lines of a message, as MessageIsCaptured has it.
LEMMA CapturedIs ==
  ASSUME NEW sent \in Seq(BodyLines)
  PROVE  \E n \in 1 .. Len(sent) + 1 :
           /\ HeaderOf(sent, n)
           /\ TextOf(sent, n, Captured(sent).text)
           /\ FieldsOf(sent, n, Captured(sent).headers)
<1> DEFINE text == ReadSmtpData(sent)
           n == HeaderEnd(text)
           header == SubSeq(text, 1, n - 1)
           rest == SubSeq(text, n + 1, Len(text))
<1>1. /\ text \in Seq(BodyLines) /\ Len(text) = Len(sent)
      /\ \A i \in 1 .. Len(sent) : ~text[i].indented /\ text[i].holds = sent[i].holds
  <2>1. text = [i \in 1 .. Len(sent) |-> [sent[i] EXCEPT !.indented = FALSE]]
    BY DEF ReadSmtpData
  <2>2. ASSUME NEW i \in 1 .. Len(sent)
        PROVE  /\ text[i] \in BodyLines
               /\ ~text[i].indented /\ text[i].holds = sent[i].holds
    <3>1. sent[i] \in BodyLines /\ text[i] = [sent[i] EXCEPT !.indented = FALSE]
      BY <2>1
    <3> HIDE DEF text
    <3> QED BY <3>1 DEF BodyLines
  <2>3. text \in [1 .. Len(sent) -> BodyLines]
    BY <2>1, <2>2
  <2> HIDE DEF text
  <2>4. text \in Seq(BodyLines) /\ Len(text) = Len(sent)
    BY <2>3
  <2> QED BY <2>2, <2>4
<1> HIDE DEF text
<1>2. /\ n \in 1 .. Len(sent) + 1
      /\ n <= Len(sent) => text[n].holds = "nothing"
      /\ \A i \in 1 .. n - 1 : text[i].holds # "nothing"
  BY <1>1, HeaderEnds DEF Blank
<1> HIDE DEF n
<1>3. /\ header \in Seq(BodyLines) /\ DOMAIN header = 1 .. n - 1
      /\ \A i \in 1 .. n - 1 : header[i] = text[i]
  <2>1. \A i \in 1 .. n - 1 : text[i] \in BodyLines
    BY <1>1, <1>2
  <2>2. /\ header \in Seq(BodyLines) /\ Len(header) = IF 1 <= n - 1 THEN n - 1 - 1 + 1 ELSE 0
        /\ \A i \in 1 .. n - 1 - 1 + 1 : header[i] = text[1 + i - 1]
    BY <1>2, <2>1, SubSeqProperties
  <2> HIDE DEF header
  <2>3. Len(header) = n - 1
    BY <1>2, <2>2
  <2> QED BY <1>2, <2>2, <2>3
<1>4. /\ Len(rest) = IF n <= Len(sent) THEN Len(sent) - n ELSE 0
      /\ rest \in Seq(BodyLines)
      /\ \A i \in DOMAIN rest : rest[i] = text[n + i]
  <2>1. \A i \in n + 1 .. Len(text) : text[i] \in BodyLines
    BY <1>1, <1>2
  <2>2. /\ rest \in Seq(BodyLines)
        /\ Len(rest) = IF n + 1 <= Len(text) THEN Len(text) - (n + 1) + 1 ELSE 0
        /\ \A i \in 1 .. Len(text) - (n + 1) + 1 : rest[i] = text[n + 1 + i - 1]
    BY <1>1, <1>2, <2>1, SubSeqProperties
  <2> HIDE DEF rest
  <2>3. n \in Nat /\ Len(sent) \in Nat /\ Len(text) = Len(sent)
    BY <1>1, <1>2
  <2>4. Len(rest) = IF n <= Len(sent) THEN Len(sent) - n ELSE 0
    BY <2>2, <2>3
  <2>5. ASSUME NEW i \in DOMAIN rest PROVE rest[i] = text[n + i]
    <3>1. i \in 1 .. Len(rest)
      BY <2>2
    <3>2. i \in 1 .. Len(text) - (n + 1) + 1 /\ n + 1 + i - 1 = n + i
      BY <2>3, <2>4, <3>1
    <3> QED BY <2>2, <3>2
  <2> QED BY <2>2, <2>4, <2>5
<1>5. Captured(sent).headers = Fields(header) /\ Captured(sent).text = rest
  BY DEF Captured, ParseEmailContent, text, n
<1> HIDE DEF header, rest
<1>6. ASSUME NEW i \in 1 .. n - 1 PROVE header[i].holds = sent[i].holds
  <2>1. i \in 1 .. Len(sent)
    BY <1>2
  <2>2. header[i] = text[i] /\ text[i].holds = sent[i].holds
    BY <1>1, <1>3, <2>1
  <2> QED BY <2>2
<1>7. FieldsOf(sent, n, Fields(header))
  <2>1. \A i \in DOMAIN header : ~header[i].indented
    BY <1>1, <1>2, <1>3
  <2>2. Len(header) = n - 1
    BY <1>2, <1>3
  <2>3. /\ DOMAIN Fields(header) = {header[i].holds : i \in DOMAIN header} \cap Names
        /\ \A name \in DOMAIN Fields(header) : \E i \in DOMAIN header :
             /\ DOMAIN Fields(header)[name] = {i}
             /\ header[i].holds = name
             /\ \A k \in i + 1 .. Len(header) : header[k].holds # name
    BY <1>3, <2>1, FieldsOfTrimmed
  <2>4. {header[i].holds : i \in DOMAIN header} = {sent[i].holds : i \in 1 .. n - 1}
    BY <1>3, <1>6
  <2>5. ASSUME NEW name \in DOMAIN Fields(header)
        PROVE  \E i \in 1 .. n - 1 :
                 /\ DOMAIN Fields(header)[name] = {i}
                 /\ sent[i].holds = name
                 /\ \A k \in i + 1 .. n - 1 : sent[k].holds # name
    <3>1. PICK i \in DOMAIN header :
            /\ DOMAIN Fields(header)[name] = {i}
            /\ header[i].holds = name
            /\ \A k \in i + 1 .. Len(header) : header[k].holds # name
      BY <2>3, <2>5
    <3>2. i \in 1 .. n - 1 /\ sent[i].holds = name
      BY <1>3, <1>6, <3>1
    <3>3. ASSUME NEW k \in i + 1 .. n - 1 PROVE sent[k].holds # name
      <4>1. k \in 1 .. n - 1 /\ k \in i + 1 .. Len(header)
        BY <1>2, <2>2, <3>2
      <4> QED BY <1>6, <3>1, <4>1
    <3> QED BY <3>1, <3>2, <3>3
  <2> QED BY <2>3, <2>4, <2>5 DEF FieldsOf
<1>8. HeaderOf(sent, n)
  BY <1>1, <1>2 DEF HeaderOf
<1>9. TextOf(sent, n, rest)
  <2>1. CASE n <= Len(sent)
    <3>1. sent[n].holds = "nothing" /\ Len(rest) = Len(sent) - n
      BY <1>1, <1>2, <1>4, <2>1
    <3>2. ASSUME NEW i \in DOMAIN rest PROVE rest[i].holds = sent[n + i].holds
      <4>1. n + i \in 1 .. Len(sent)
        BY <1>2, <1>4, <2>1
      <4> QED BY <1>1, <1>4, <4>1
    <3> QED BY <2>1, <3>1, <3>2 DEF TextOf
  <2>2. CASE ~(n <= Len(sent))
    BY <1>4, <2>2 DEF TextOf
  <2> QED BY <2>1, <2>2
<1> QED BY <1>2, <1>5, <1>7, <1>8, <1>9

\* What is in the log is what was captured of some lines that were sent.
MessageSent ==
  message = NoMessage \/ \E sent \in Seq(BodyLines) : message = Captured(sent)

LEMMA MessageSentAlways == Spec => []MessageSent
<1>1. Init => MessageSent
  BY DEF Init, MessageSent
<1>2. ASSUME SmtpInv, MessageSent, [Next]_vars
      PROVE  MessageSent'
  <2>1. CASE \E line \in Texts : BodyRead(line)
    <3>1. message' = Captured(body) /\ body \in Seq(BodyLines)
      BY <1>2, <2>1 DEF BodyRead, SmtpInv
    <3> QED BY <3>1 DEF MessageSent
  <2>2. CASE ~\E line \in Texts : BodyRead(line)
    <3>1. message' = message
      BY <1>2, <2>2, Zenon DEF Next, Cancel, ClientLeaves, ReadTimeout, ReadFails, Line, Greet,
         Answer, MailCommand, Mail, Rcpt, Data, BodyLine, BodyFails, Rset, StartTls,
         HandshakeDone, HandshakeFails, NoLine, AuthExchange, AuthLogin, AuthUser, AuthPass,
         AuthGarbled, AuthTimeout, AuthReadFails, Quit, LogRecord, CloseConn, vars, sessVars,
         textVars
    <3> QED BY <1>2, <3>1 DEF MessageSent
  <2> QED BY <2>1, <2>2
<1> QED BY <1>1, <1>2, SmtpAlways, PTL DEF Spec

-----------------------------------------------------------------------------
\* The session keeps its types, for any addresses, credentials and lines.
THEOREM SmtpTypeCorrect == Spec => []TypeOK
<1>1. SmtpInv => TypeOK
  BY TypeParts DEF SmtpInv
<1> QED BY <1>1, SmtpAlways, PTL

\* What the log keeps of a message, for any lines and any names of fields: every
\* line after the first blank one as the text, and of the lines before it with a
\* colon the last of each name, without a continuation, because the lines have
\* been trimmed (smtp.go:549-604).
THEOREM SmtpMessageIsCaptured == Spec => []MessageIsCaptured
<1>1. ASSUME MessageSent
      PROVE  MessageIsCaptured
  <2>1. SUFFICES ASSUME NEW sent \in Seq(BodyLines), message = Captured(sent)
                 PROVE  MessageIsCaptured
    BY <1>1 DEF MessageSent, MessageIsCaptured
  <2>2. message.sent = sent
    BY <2>1 DEF Captured
  <2>3. PICK n \in 1 .. Len(sent) + 1 :
          HeaderOf(sent, n) /\ TextOf(sent, n, message.text) /\ FieldsOf(sent, n, message.headers)
    BY <2>1, CapturedIs
  <2>4. /\ n \in 1 .. Len(message.sent) + 1 /\ HeaderOf(message.sent, n)
        /\ TextOf(message.sent, n, message.text) /\ FieldsOf(message.sent, n, message.headers)
    BY <2>2, <2>3
  <2> QED BY <2>4, Zenon DEF MessageIsCaptured, HeaderOf, TextOf, FieldsOf
<1> QED BY <1>1, MessageSentAlways, PTL

\* The log knows the sender and the recipients of the message in progress,
\* whatever EHLO, STARTTLS, RSET and MAIL come in between (smtp.go:255-331).
THEOREM SmtpEnvelopeIsLogged == Spec => []EnvelopeIsLogged
<1>1. SmtpInv => EnvelopeIsLogged
  BY DEF SmtpInv
<1> QED BY <1>1, SmtpAlways, PTL

\* No reason that was set in passing gets into the record, and the reason that
\* does is true of the session.
THEOREM SmtpRecordExplainsEnd == Spec => []RecordExplainsEnd
<1>1. SmtpInv => RecordExplainsEnd
  <2> SUFFICES ASSUME SmtpInv PROVE RecordExplainsEnd
    OBVIOUS
  <2>1. CASE pc \in {"close", "closed"}
    BY <2>1 DEF SmtpInv, ReasonOrder, EndIsExplained, InLoop, RecordExplainsEnd, FinalReasons
  <2>2. CASE pc \notin {"close", "closed"}
    BY <2>2 DEF SmtpInv, ReasonOrder, RecordExplainsEnd
  <2> QED BY <2>1, <2>2
<1> QED BY <1>1, SmtpAlways, PTL

\* Before a greeting, also the one after the upgrade to TLS, no step touches the
\* envelope or the credentials.
THEOREM SmtpGreetingFirst == Spec => GreetingFirst
<1>1. ASSUME SmtpInv, [Next]_vars
      PROVE  [state = "INIT" => UNCHANGED <<mailVars, authVars>>]_vars
  <2> SUFFICES ASSUME state = "INIT" PROVE UNCHANGED <<mailVars, authVars>>
    OBVIOUS
  <2>1. pc \notin {"data", "user", "password"}
    BY <1>1 DEF SmtpInv, Greeted
  <2> USE DEF sessVars, Command
  <2>2. CASE Greet \/ Answer \/ StartTls \/ Quit \/ HandshakeDone
    BY <2>2 DEF Greet, Answer, StartTls, Quit, HandshakeDone
  <2>3. CASE Data \/ AuthLogin \/ AuthGarbled \/ Rset
    BY <2>1, <2>3 DEF Data, AuthLogin, AuthGarbled, Rset
  <2>4. ASSUME NEW addr \in Addrs, Mail(addr) \/ Rcpt(addr) PROVE FALSE
    BY <2>4 DEF Mail, Rcpt
  <2>5. ASSUME NEW line \in Texts, BodyLine(line) \/ BodyRead(line) PROVE FALSE
    BY <2>1, <2>5, Zenon DEF BodyLine, BodyRead
  <2>6. ASSUME NEW user \in Users, AuthUser(user) PROVE FALSE
    BY <2>1, <2>6 DEF AuthUser
  <2>7. ASSUME NEW pass \in Passwords, AuthPass(pass) PROVE FALSE
    BY <2>1, <2>7 DEF AuthPass
  <2>8. CASE NoLine \/ LogRecord \/ CloseConn \/ Cancel \/ ClientLeaves \/ UNCHANGED vars
    BY <2>8 DEF NoLine, ReadTimeout, ReadFails, BodyFails, HandshakeFails, AuthTimeout,
                AuthReadFails, LogRecord, CloseConn, Cancel, ClientLeaves, vars
  <2> QED BY <1>1, <2>2, <2>3, <2>4, <2>5, <2>6, <2>7, <2>8
          DEF Next, Line, MailCommand, AuthExchange
<1> QED BY <1>1, SmtpAlways, PTL DEF Spec, GreetingFirst

\* handleConn logs one record, with a reason that ends a session, and then ends.
THEOREM SmtpImplementsSession == Spec => RecordsOnce
<1>1. Init => SessionView!Init
  BY DEF Init, SessionView!Init
<1>2. ASSUME SmtpInv, [Next]_vars
      PROVE  [SessionView!Next]_SessionView!vars
  <2> USE DEF SessionView!vars, sessVars, Command
  <2>1. CASE LogRecord
    <3>1. disconnectReason \in FinalReasons /\ record = NoReason
      BY <1>2, <2>1 DEF SmtpInv, ReasonOrder, EndIsExplained, InLoop, LogRecord
    <3>2. SessionView!LogEnd(disconnectReason)
      BY <2>1, <3>1 DEF LogRecord, SessionView!LogEnd
    <3> QED BY <3>1, <3>2 DEF SessionView!Next
  <2>2. CASE CloseConn
    <3>1. record \in FinalReasons
      BY <1>2, <2>2 DEF SmtpInv, ReasonOrder, EndIsExplained, InLoop, CloseConn
    <3>2. SessionView!Finish
      BY <2>2, <3>1 DEF CloseConn, SessionView!Finish, FinalReasons
    <3> QED BY <3>2 DEF SessionView!Next
  <2>3. CASE \/ Greet \/ Answer \/ StartTls \/ Quit \/ HandshakeDone
             \/ Data \/ AuthLogin \/ AuthGarbled \/ Rset
    BY <2>3 DEF Greet, Answer, StartTls, Quit, HandshakeDone, Data, AuthLogin, AuthGarbled,
                Rset, Return
  <2>4. ASSUME NEW addr \in Addrs, Mail(addr) \/ Rcpt(addr) PROVE UNCHANGED SessionView!vars
    BY <2>4 DEF Mail, Rcpt
  <2>5. ASSUME NEW line \in Texts, BodyLine(line) \/ BodyRead(line)
        PROVE  UNCHANGED SessionView!vars
    <3>1. pc = "data" /\ pc' \in {"data", "read"} /\ record' = record
      BY <2>5, Zenon DEF BodyLine, BodyRead
    <3> QED BY <3>1
  <2>6. ASSUME NEW user \in Users, AuthUser(user) PROVE UNCHANGED SessionView!vars
    BY <2>6 DEF AuthUser
  <2>7. ASSUME NEW pass \in Passwords, AuthPass(pass) PROVE UNCHANGED SessionView!vars
    BY <2>7 DEF AuthPass
  <2>8. CASE NoLine \/ Cancel \/ ClientLeaves \/ UNCHANGED vars
    BY <2>8 DEF NoLine, ReadTimeout, ReadFails, BodyFails, HandshakeFails, AuthTimeout,
                AuthReadFails, Cancel, ClientLeaves, Return, vars
  <2> QED BY <1>2, <2>1, <2>2, <2>3, <2>4, <2>5, <2>6, <2>7, <2>8
          DEF Next, Line, MailCommand, AuthExchange
<1> QED BY <1>1, <1>2, SmtpAlways, PTL DEF Spec, RecordsOnce, SessionView!Spec

=============================================================================
