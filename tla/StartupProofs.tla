---------------------------- MODULE StartupProofs ----------------------------
(***************************************************************************)
(* Proofs about module Startup, for any number of starts, TLS handlers and *)
(* any networks: what a process reads back from the disk, whatever earlier *)
(* ones left there, and the addresses it finds.                            *)
(***************************************************************************)
EXTENDS Startup, NaturalLemmas, SequenceTheorems, TLAPS

\* The type invariant but for the addresses.
DiskTypeOK ==
  /\ certFile \in Contents
  /\ keyFile \in Contents
  /\ hostFile \in [HostKeys -> Contents]
  /\ start \in 0 .. MaxStarts
  /\ pc \in Pcs
  /\ next \in 1 .. 4
  /\ offered \in [HostKeys -> Contents]
  /\ pair \in [TlsHandlers -> Contents]
  /\ known \in [HostKeys -> Contents]
  /\ unread \in SUBSET HostKeys

Hosting == {"load_host", "create_host", "write_host", "serve"}

\* A process that has come past GenerateSelfSignedCert has its own certificate
\* and key on the disk.
CertOrder ==
  /\ pc # "down" => start > 0
  /\ pc \in Hosting \cup {"create_key", "write_key"} => certFile = start
  /\ pc \in Hosting => keyFile = start
  /\ \A h \in TlsHandlers : pair[h] # None => pc = "serve" /\ pair[h] = start

\* A host key that is offered is the one on the disk, and so is one that clients
\* have seen, unless its file could not be read; a file that holds a key is written
\* over only then.
HostKeyOrder ==
  /\ \A k \in HostKeys :
       /\ offered[k] # None => Usable(offered[k]) /\ hostFile[k] = offered[k]
       /\ known[k] # None => Usable(known[k]) /\ (hostFile[k] = known[k] \/ k \in unread)
  /\ pc \in {"create_host", "write_host"} =>
       /\ next <= Len(KeyNames)
       /\ offered[Key] = None
       /\ Usable(hostFile[Key]) => Key \in unread
  /\ \A i \in next .. Len(KeyNames) : offered[KeyNames[i]] = None

StartupInv ==
  /\ DiskTypeOK
  /\ CertOrder
  /\ HostKeyOrder

-----------------------------------------------------------------------------
USE DEF None, Broken, Installed, Contents

LEMMA ContentFacts ==
  /\ {None, Broken, Installed} \subseteq Contents
  /\ 0 .. MaxStarts \subseteq Contents
  /\ MaxStarts \in Nat \ {0}
BY StartupAssumption

LEMMA KeyFacts ==
  /\ Len(KeyNames) = 3
  /\ \A i \in 1 .. 3 : KeyNames[i] \in HostKeys
  /\ \A i, j \in 1 .. 3 : KeyNames[i] = KeyNames[j] => i = j
BY DEF KeyNames, HostKeys

LEMMA StartupInit == Init => StartupInv
<1> SUFFICES ASSUME Init PROVE StartupInv
  OBVIOUS
<1> USE DEF Init, NoKeys, NoPairs
<1>1. DiskTypeOK
  BY ContentFacts DEF DiskTypeOK, Pcs
<1>2. CertOrder
  BY DEF CertOrder, Hosting
<1>3. HostKeyOrder
  BY KeyFacts DEF HostKeyOrder
<1> QED BY <1>1, <1>2, <1>3 DEF StartupInv

\* Steps that leave the host keys and their loading alone.
LEMMA HostKeysKept ==
  ASSUME HostKeyOrder, UNCHANGED <<hostFile, next, offered, seenVars>>,
         pc' \notin {"create_host", "write_host"}
  PROVE  HostKeyOrder'
BY DEF HostKeyOrder, Usable, Key, seenVars

LEMMA StartupStep == StartupInv /\ [Next]_vars => StartupInv'
<1> SUFFICES ASSUME StartupInv, [Next]_vars PROVE StartupInv'
  OBVIOUS
<1> USE ContentFacts DEF seenVars
<1>0. DiskTypeOK /\ CertOrder /\ HostKeyOrder
  BY DEF StartupInv
<1>1. CASE Start
  <2>1. DiskTypeOK'
    BY <1>0, <1>1 DEF Start, Goto, FaultsLeft, DiskTypeOK, disk, Pcs
  <2>2. CertOrder'
    BY <1>0, <1>1 DEF Start, Goto, CertOrder, DiskTypeOK, Hosting
  <2>3. HostKeyOrder'
    BY <1>0, <1>1, HostKeysKept DEF Start, Goto, disk
  <2> QED BY <2>1, <2>2, <2>3 DEF StartupInv
<1>2. CASE Crash
  <2> USE DEF NoKeys, NoPairs
  <2>1. DiskTypeOK'
    BY <1>0, <1>2 DEF Crash, DiskTypeOK, disk, Pcs
  <2>2. CertOrder'
    BY <1>0, <1>2 DEF Crash, CertOrder, Hosting
  <2>3. HostKeyOrder'
    BY <1>0, <1>2, KeyFacts DEF Crash, HostKeyOrder, Usable, disk
  <2> QED BY <2>1, <2>2, <2>3 DEF StartupInv
<1>3. CASE Configure
  <2>1. /\ pc = "configure" /\ pc' = "create_cert"
        /\ UNCHANGED <<disk, start, next, offered, pair, seenVars>>
    BY <1>3, Zenon DEF Configure, Goto
  <2>2. DiskTypeOK'
    BY <1>0, <2>1 DEF DiskTypeOK, disk, Pcs
  <2>3. CertOrder'
    BY <1>0, <2>1 DEF CertOrder, Hosting
  <2>4. HostKeyOrder'
    BY <1>0, <2>1, HostKeysKept DEF disk
  <2> QED BY <2>2, <2>3, <2>4 DEF StartupInv
<1>4. CASE WritePEMFiles
  <2> USE DEF CreateCert, WriteCert, CreateKey, WriteKey, Goto, certRest
  <2>1. DiskTypeOK'
    BY <1>0, <1>4 DEF WritePEMFiles, DiskTypeOK, Pcs
  <2>2. CertOrder'
    BY <1>0, <1>4 DEF WritePEMFiles, CertOrder, Hosting
  <2>3. HostKeyOrder'
    BY <1>0, <1>4, HostKeysKept DEF WritePEMFiles
  <2> QED BY <2>1, <2>2, <2>3 DEF StartupInv
<1>5. CASE LoadSshConfig
  <2> USE DEF hostRest, Usable
  <2>0. /\ Key \in HostKeys /\ next \in 1 .. 3 /\ next + 1 \in 1 .. 4
        /\ start \in Contents /\ hostFile[Key] \in Contents
        /\ start > 0 \/ pc = "down"
    <3>1. next <= 3 /\ next \in 1 .. 4
      BY <1>0, <1>5, KeyFacts
         DEF LoadSshConfig, LoadHostKey, CreateHostFile, WriteHostFile, HostFileFails, Goto,
             HostKeyOrder, DiskTypeOK
    <3>2. Key \in HostKeys
      BY <3>1, KeyFacts DEF Key
    <3> QED BY <1>0, <3>1, <3>2 DEF DiskTypeOK, CertOrder
  <2>a. /\ \A i \in next + 1 .. 3 : KeyNames[i] # Key
        /\ offered[Key] = None
    BY <1>0, <2>0, KeyFacts DEF Key, HostKeyOrder
  \* What KeyDone makes of a key that is on the disk, or of none.
  <2>1. ASSUME NEW key \in Contents, KeyDone(key), UNCHANGED <<hostRest, seenVars>>,
               pc \in Hosting \ {"serve"},
               hostFile' \in [HostKeys -> Contents],
               \A k \in HostKeys : k # Key => hostFile'[k] = hostFile[k],
               key # None => Usable(key) /\ hostFile'[Key] = key,
               hostFile'[Key] = hostFile[Key] \/ ~Usable(known[Key]) \/ Key \in unread
        PROVE  StartupInv'
    <3>1. /\ offered' = [offered EXCEPT ![Key] = key] /\ next' = next + 1
          /\ pc' = "load_host" /\ UNCHANGED <<certFile, keyFile, start, pair, known, unread>>
          /\ pc \in Hosting /\ pc # "serve"
      BY <2>1 DEF KeyDone
    <3>2. DiskTypeOK'
      BY <1>0, <2>0, <2>1, <3>1 DEF DiskTypeOK, Pcs
    <3>3. CertOrder'
      BY <1>0, <3>1 DEF CertOrder, Hosting
    <3>4. ASSUME NEW k \in HostKeys
          PROVE  /\ offered'[k] # None => Usable(offered'[k]) /\ hostFile'[k] = offered'[k]
                 /\ known[k] # None => Usable(known[k]) /\ (hostFile'[k] = known[k] \/ k \in unread)
      BY <1>0, <2>0, <2>1, <3>1 DEF HostKeyOrder, DiskTypeOK
    <3>5. ASSUME NEW i \in next + 1 .. 3 PROVE offered'[KeyNames[i]] = None
      <4>1. i \in next .. 3 /\ KeyNames[i] \in HostKeys /\ KeyNames[i] # Key
        BY <2>0, <2>a, KeyFacts
      <4> QED BY <1>0, <3>1, <4>1, KeyFacts DEF HostKeyOrder, DiskTypeOK
    <3>6. HostKeyOrder'
      BY <3>1, <3>4, <3>5, KeyFacts DEF HostKeyOrder
    <3> QED BY <3>2, <3>3, <3>6 DEF StartupInv
  <2>2. CASE LoadHostKey
    <3>1. CASE Usable(hostFile[Key]) /\ KeyDone(hostFile[Key]) /\ UNCHANGED unread
      <4>1. pc = "load_host" /\ UNCHANGED <<hostFile, hostRest, seenVars>>
        BY <2>2, <3>1 DEF LoadHostKey
      <4> QED BY <1>0, <2>0, <2>1, <3>1, <4>1 DEF DiskTypeOK, Hosting
    <3>2. CASE ~(Usable(hostFile[Key]) /\ KeyDone(hostFile[Key]) /\ UNCHANGED unread)
      <4>1. /\ pc = "load_host" /\ pc' = "create_host" /\ next <= Len(KeyNames)
            /\ unread' = IF Usable(hostFile[Key]) THEN unread \cup {Key} ELSE unread
            /\ UNCHANGED <<hostFile, next, offered, hostRest, known>>
        BY <2>2, <3>2 DEF LoadHostKey
      <4>2. DiskTypeOK'
        BY <1>0, <2>0, <4>1 DEF DiskTypeOK, Pcs
      <4>3. CertOrder'
        BY <1>0, <4>1 DEF CertOrder, Hosting
      <4>4. HostKeyOrder'
        BY <1>0, <2>a, <4>1 DEF HostKeyOrder, Key
      <4> QED BY <4>2, <4>3, <4>4 DEF StartupInv
    <3> QED BY <3>1, <3>2
  <2>3. CASE CreateHostFile
    <3>1. /\ pc = "create_host" /\ pc' = "write_host"
          /\ Usable(hostFile[Key]) => Key \in unread
          /\ hostFile' = [hostFile EXCEPT ![Key] = Broken]
          /\ UNCHANGED <<hostRest, next, offered, known, unread>>
      BY <1>0, <2>3 DEF CreateHostFile, Goto, HostKeyOrder
    <3>2. DiskTypeOK'
      BY <1>0, <2>0, <3>1 DEF DiskTypeOK, Pcs
    <3>3. CertOrder'
      BY <1>0, <3>1 DEF CertOrder, Hosting
    <3>4. Key' = Key
      BY <3>1 DEF Key
    <3>5. ASSUME NEW k \in HostKeys
          PROVE  /\ offered[k] # None => Usable(offered[k]) /\ hostFile'[k] = offered[k]
                 /\ known[k] # None => Usable(known[k]) /\ (hostFile'[k] = known[k] \/ k \in unread)
      BY <1>0, <2>0, <2>a, <3>1 DEF HostKeyOrder, DiskTypeOK
    <3>6. /\ ~Usable(hostFile'[Key]) /\ next <= Len(KeyNames)
          /\ \A i \in next .. Len(KeyNames) : offered[KeyNames[i]] = None
      BY <1>0, <2>0, <3>1, KeyFacts DEF HostKeyOrder, DiskTypeOK
    <3>7. HostKeyOrder'
      BY <2>a, <3>1, <3>4, <3>5, <3>6 DEF HostKeyOrder
    <3> QED BY <3>2, <3>3, <3>7 DEF StartupInv
  <2>4. CASE WriteHostFile
    <3>1. /\ pc = "write_host" /\ KeyDone(start)
          /\ hostFile' = [hostFile EXCEPT ![Key] = start]
          /\ UNCHANGED <<hostRest, seenVars>>
      BY <2>4 DEF WriteHostFile
    <3>2. hostFile'[Key] = hostFile[Key] \/ ~Usable(known[Key]) \/ Key \in unread
      BY <1>0, <2>0, <3>1 DEF HostKeyOrder
    <3> QED BY <1>0, <2>0, <2>1, <3>1, <3>2 DEF DiskTypeOK, Hosting
  <2>5. CASE HostFileFails
    <3>1. /\ pc \in {"create_host", "write_host"} /\ KeyDone(None)
          /\ UNCHANGED <<hostFile, hostRest, seenVars>>
      BY <2>5 DEF HostFileFails
    <3> QED BY <1>0, <2>0, <2>1, <3>1 DEF DiskTypeOK, Hosting
  <2> QED BY <1>5, <2>2, <2>3, <2>4, <2>5 DEF LoadSshConfig
<1>6. CASE ServeAll
  <2>1. DiskTypeOK'
    BY <1>0, <1>6 DEF ServeAll, Goto, hostRest, DiskTypeOK, Pcs
  <2>2. CertOrder'
    BY <1>0, <1>6 DEF ServeAll, Goto, hostRest, CertOrder, Hosting
  <2>3. HostKeyOrder'
    <3>1. /\ pc' = "serve" /\ UNCHANGED <<hostFile, next, offered>>
          /\ known' = [k \in HostKeys |-> IF offered[k] = None THEN known[k] ELSE offered[k]]
          /\ unread' = {k \in unread : offered[k] = None}
      BY <1>6 DEF ServeAll, Goto
    <3>2. ASSUME NEW k \in HostKeys
          PROVE  /\ offered[k] # None => Usable(offered[k]) /\ hostFile[k] = offered[k]
                 /\ known'[k] # None =>
                      Usable(known'[k]) /\ (hostFile[k] = known'[k] \/ k \in unread')
      BY <1>0, <3>1 DEF HostKeyOrder
    <3> QED BY <1>0, <3>1, <3>2 DEF HostKeyOrder
  <2> QED BY <2>1, <2>2, <2>3 DEF StartupInv
<1>7. ASSUME NEW h \in TlsHandlers, LoadPair(h) PROVE StartupInv'
  <2>1. /\ pc = "serve" /\ UNCHANGED <<disk, start, pc, next, offered, seenVars>>
        /\ pair' = [pair EXCEPT ![h] = LoadX509KeyPair]
    BY <1>7 DEF LoadPair
  <2>2. LoadX509KeyPair = start /\ start \in 0 .. MaxStarts
    BY <1>0, <2>1 DEF LoadX509KeyPair, Usable, CertOrder, DiskTypeOK, Hosting
  <2>3. DiskTypeOK'
    BY <1>0, <2>1, <2>2 DEF DiskTypeOK, disk
  <2>4. CertOrder'
    BY <1>0, <2>1, <2>2 DEF CertOrder, DiskTypeOK, disk, Hosting
  <2>5. HostKeyOrder'
    BY <1>0, <2>1, HostKeysKept DEF disk
  <2> QED BY <2>3, <2>4, <2>5 DEF StartupInv
<1>8. CASE UNCHANGED vars
  BY <1>0, <1>8
     DEF vars, disk, StartupInv, DiskTypeOK, CertOrder, HostKeyOrder, Usable, Key
<1> QED BY <1>1, <1>2, <1>3, <1>4, <1>5, <1>6, <1>7, <1>8 DEF Next, Run

LEMMA StartupAlways == Spec => []StartupInv
BY StartupInit, StartupStep, PTL DEF Spec

-----------------------------------------------------------------------------
(* The operators of SensorAddresses.                                       *)

LEMMA AtFacts ==
  ASSUME NEW S, NEW s \in Seq(S), NEW I \in SUBSET DOMAIN s
  PROVE  /\ At(s, I) \in Seq(S)
         /\ \A n \in DOMAIN At(s, I) : \E i \in I : At(s, I)[n] = s[i]
         /\ \A i \in I : \E n \in DOMAIN At(s, I) : At(s, I)[n] = s[i]
<1> DEFINE N == 1 .. Cardinality(I)
           Nth(n) == CHOOSE i \in I : Rank(I, i) = n
<1>1. I \in SUBSET Nat /\ IsFiniteSet(I)
  <2>1. DOMAIN s = 1 .. Len(s) /\ Len(s) \in Nat
    OBVIOUS
  <2>2. IsFiniteSet(1 .. Len(s))
    BY <2>1, FS_Interval
  <2> QED BY <2>1, <2>2, FS_Subset
<1>2. /\ Cardinality(I) \in Nat
      /\ \A i \in I : Rank(I, i) \in N
      /\ \A i, k \in I : Rank(I, i) = Rank(I, k) => i = k
      /\ \A n \in N : \E i \in I : Rank(I, i) = n
  BY <1>1, RankFacts
<1>3. At(s, I) = [n \in N |-> s[Nth(n)]]
  BY DEF At, Rank
<1> HIDE DEF N
<1>4. ASSUME NEW n \in N PROVE Nth(n) \in I /\ Rank(I, Nth(n)) = n
  BY <1>2
<1>5. ASSUME NEW i \in I PROVE Nth(Rank(I, i)) = i
  <2>1. Nth(Rank(I, i)) \in I /\ Rank(I, Nth(Rank(I, i))) = Rank(I, i)
    BY <1>2, <1>4
  <2> HIDE DEF Nth
  <2> QED BY <1>2, <2>1
<1> HIDE DEF Nth
<1>6. At(s, I) \in [N -> S]
  <2>1. ASSUME NEW n \in N PROVE s[Nth(n)] \in S
    BY <1>4
  <2> QED BY <1>3, <2>1
<1>7. At(s, I) \in Seq(S) /\ DOMAIN At(s, I) = N
  BY <1>2, <1>6 DEF N
<1>8. ASSUME NEW n \in N PROVE \E i \in I : At(s, I)[n] = s[i]
  BY <1>3, <1>4
<1>9. ASSUME NEW i \in I PROVE \E n \in N : At(s, I)[n] = s[i]
  BY <1>2, <1>3, <1>5
<1> QED BY <1>7, <1>8, <1>9

LEMMA ExtractFacts ==
  ASSUME NEW addrs \in Seq(Addresses)
  PROVE  /\ ExtractIPs(addrs) \in Seq(Addresses)
         /\ \A i \in DOMAIN addrs : addrs[i].type # "other" =>
              \E n \in DOMAIN ExtractIPs(addrs) : ExtractIPs(addrs)[n] = addrs[i]
<1> DEFINE I == {i \in DOMAIN addrs : addrs[i].type # "other"}
<1>1. ExtractIPs(addrs) = At(addrs, I)
  BY DEF ExtractIPs
<1>2. I \in SUBSET DOMAIN addrs /\ \A i \in DOMAIN addrs : i \in I <=> addrs[i].type # "other"
  OBVIOUS
<1> HIDE DEF I
<1>3. /\ At(addrs, I) \in Seq(Addresses)
      /\ \A i \in I : \E n \in DOMAIN At(addrs, I) : At(addrs, I)[n] = addrs[i]
  BY <1>2, AtFacts
<1> QED BY <1>1, <1>2, <1>3

\* What the filter lets through, and in which order.
LEMMA FilterFacts ==
  ASSUME NEW addrs \in Seq(Addresses)
  PROVE  LET found == FilterSensorIPs(addrs) IN
         /\ found \in Seq(Addresses)
         /\ \A n \in DOMAIN found :
              /\ found[n].scope \notin {"loopback", "unspecified"}
              /\ ~found[n].v4 => found[n].scope = "global"
              /\ \A m \in 1 .. n : found[n].v4 => found[m].v4
         /\ \A i \in DOMAIN addrs :
              /\ addrs[i].scope \notin {"loopback", "unspecified"}
              /\ addrs[i].v4 \/ addrs[i].scope = "global"
              => \E n \in DOMAIN found : found[n] = addrs[i]
<1> DEFINE kept == {i \in DOMAIN addrs : addrs[i].scope \notin {"loopback", "unspecified"}}
           v4s == {i \in kept : addrs[i].v4}
           v6s == {i \in kept \ v4s : addrs[i].scope \notin {"multicast", "link_local"}}
           a == At(addrs, v4s)
           b == At(addrs, v6s)
           found == FilterSensorIPs(addrs)
<1>1. found = a \o b
  BY DEF FilterSensorIPs
<1>2. /\ v4s \in SUBSET DOMAIN addrs /\ v6s \in SUBSET DOMAIN addrs
      /\ \A i \in v4s : addrs[i].v4 /\ addrs[i].scope \notin {"loopback", "unspecified"}
      /\ \A i \in v6s : ~addrs[i].v4 /\ addrs[i].scope = "global"
      /\ \A i \in DOMAIN addrs :
           /\ addrs[i].scope \notin {"loopback", "unspecified"}
           /\ addrs[i].v4 \/ addrs[i].scope = "global"
           => i \in v4s \/ i \in v6s
  <2>1. v4s \in SUBSET DOMAIN addrs /\ v6s \in SUBSET DOMAIN addrs
    OBVIOUS
  <2>2. ASSUME NEW i \in v6s PROVE ~addrs[i].v4 /\ addrs[i].scope = "global"
    <3>1. addrs[i] \in Addresses
      OBVIOUS
    <3>2. /\ ~addrs[i].v4
          /\ addrs[i].scope \notin {"loopback", "unspecified", "multicast", "link_local"}
      OBVIOUS
    <3> QED BY <3>1, <3>2 DEF Addresses, Scopes
  <2>3. \A i \in v4s : addrs[i].v4 /\ addrs[i].scope \notin {"loopback", "unspecified"}
    OBVIOUS
  <2>4. ASSUME NEW i \in DOMAIN addrs,
               addrs[i].scope \notin {"loopback", "unspecified"},
               addrs[i].v4 \/ addrs[i].scope = "global"
        PROVE  i \in v4s \/ i \in v6s
    BY <2>4
  <2> QED BY <2>1, <2>2, <2>3, <2>4
<1> HIDE DEF v4s, v6s
<1>3. /\ a \in Seq(Addresses) /\ b \in Seq(Addresses)
      /\ \A n \in DOMAIN a : \E i \in v4s : a[n] = addrs[i]
      /\ \A n \in DOMAIN b : \E i \in v6s : b[n] = addrs[i]
      /\ \A i \in v4s : \E n \in DOMAIN a : a[n] = addrs[i]
      /\ \A i \in v6s : \E n \in DOMAIN b : b[n] = addrs[i]
  <2>1. /\ a \in Seq(Addresses)
        /\ \A n \in DOMAIN a : \E i \in v4s : a[n] = addrs[i]
        /\ \A i \in v4s : \E n \in DOMAIN a : a[n] = addrs[i]
    BY <1>2, AtFacts
  <2>2. /\ b \in Seq(Addresses)
        /\ \A n \in DOMAIN b : \E i \in v6s : b[n] = addrs[i]
        /\ \A i \in v6s : \E n \in DOMAIN b : b[n] = addrs[i]
    BY <1>2, AtFacts
  <2> QED BY <2>1, <2>2
<1> HIDE DEF a, b
<1>4. /\ \A n \in DOMAIN a : a[n].v4 /\ a[n].scope \notin {"loopback", "unspecified"}
      /\ \A n \in DOMAIN b : ~b[n].v4 /\ b[n].scope = "global"
  BY <1>2, <1>3
<1> HIDE DEF found
<1>5. /\ found \in Seq(Addresses) /\ Len(found) = Len(a) + Len(b)
      /\ \A n \in 1 .. Len(a) : found[n] = a[n]
      /\ \A n \in 1 .. Len(b) : found[Len(a) + n] = b[n]
      /\ Len(a) \in Nat /\ Len(b) \in Nat /\ DOMAIN found = 1 .. Len(found)
      /\ DOMAIN a = 1 .. Len(a) /\ DOMAIN b = 1 .. Len(b)
  BY <1>1, <1>3
<1>6. ASSUME NEW n \in DOMAIN found
      PROVE  \/ n \in DOMAIN a /\ found[n] = a[n]
             \/ n > Len(a) /\ n - Len(a) \in DOMAIN b /\ found[n] = b[n - Len(a)]
  <2>1. CASE n <= Len(a)
    BY <1>5, <2>1
  <2>2. CASE n > Len(a)
    <3>1. n - Len(a) \in 1 .. Len(b) /\ Len(a) + (n - Len(a)) = n
      BY <1>5, <2>2
    <3> QED BY <1>5, <2>2, <3>1
  <2> QED BY <1>5, <2>1, <2>2
<1>7. ASSUME NEW n \in DOMAIN found
      PROVE  /\ found[n].scope \notin {"loopback", "unspecified"}
             /\ ~found[n].v4 => found[n].scope = "global"
  BY <1>4, <1>6
<1>8. ASSUME NEW n \in DOMAIN found, NEW m \in 1 .. n, found[n].v4 PROVE found[m].v4
  <2>1. n \in DOMAIN a
    BY <1>4, <1>6, <1>8
  <2>2. m \in DOMAIN a /\ found[m] = a[m]
    BY <1>5, <2>1
  <2> QED BY <1>4, <2>2
<1>9. ASSUME NEW i \in DOMAIN addrs,
             addrs[i].scope \notin {"loopback", "unspecified"},
             addrs[i].v4 \/ addrs[i].scope = "global"
      PROVE  \E n \in DOMAIN found : found[n] = addrs[i]
  <2>1. i \in v4s \/ i \in v6s
    BY <1>2, <1>9
  <2>2. CASE i \in v4s
    <3>1. PICK n \in DOMAIN a : a[n] = addrs[i]
      BY <1>3, <2>2
    <3> QED BY <1>5, <3>1
  <2>3. CASE i \in v6s
    <3>1. PICK n \in DOMAIN b : b[n] = addrs[i]
      BY <1>3, <2>3
    <3>2. Len(a) + n \in DOMAIN found /\ found[Len(a) + n] = addrs[i]
      BY <1>5, <3>1
    <3> QED BY <3>2
  <2> QED BY <2>1, <2>2, <2>3
<1>10. found \in Seq(Addresses)
  BY <1>5
<1> QED BY <1>7, <1>8, <1>9, <1>10 DEF found

\* The least index in a set of them.
LEMMA FirstIn ==
  ASSUME NEW I \in SUBSET Nat, I # {}
  PROVE  (CHOOSE i \in I : \A j \in I : i <= j) \in I
BY LeastNatural

LEMMA PrimaryFacts ==
  ASSUME NEW addrs \in Seq(Addresses)
  PROVE  /\ ChoosePrimaryIP(addrs) \in Addresses \cup {NoAddress}
         /\ addrs = <<>> <=> ChoosePrimaryIP(addrs) = NoAddress
         /\ (\E i \in DOMAIN addrs : addrs[i].v4) => ChoosePrimaryIP(addrs).v4
<1> DEFINE v4s == {i \in DOMAIN addrs : addrs[i].v4}
           first == CHOOSE i \in v4s : \A j \in v4s : i <= j
<1>1. ChoosePrimaryIP(addrs) = IF v4s # {} THEN addrs[first]
                               ELSE IF addrs # <<>> THEN Head(addrs) ELSE NoAddress
  BY DEF ChoosePrimaryIP
<1>2. v4s \in SUBSET DOMAIN addrs /\ v4s \in SUBSET Nat /\ \A i \in v4s : addrs[i].v4
  OBVIOUS
<1>3. v4s # {} <=> \E i \in DOMAIN addrs : addrs[i].v4
  OBVIOUS
<1> HIDE DEF v4s
<1>4. v4s # {} => first \in v4s
  BY <1>2, FirstIn
<1> HIDE DEF first
<1>5. CASE v4s # {}
  <2>1. first \in DOMAIN addrs /\ addrs[first] \in Addresses /\ addrs[first].v4
    BY <1>2, <1>4, <1>5
  <2>2. addrs # <<>>
    BY <2>1
  <2> QED BY <1>1, <1>5, <2>1, <2>2, AddressAssumption
<1>6. CASE v4s = {}
  <2>1. addrs # <<>> => Head(addrs) \in Addresses
    OBVIOUS
  <2> QED BY <1>1, <1>3, <1>6, <2>1, AddressAssumption
<1> QED BY <1>5, <1>6

LEMMA InferFacts ==
  ASSUME NEW net \in Seq(Interfaces)
  PROVE  LET i == InferDefaultNInterface(net) IN
         /\ i \in 0 .. Len(net)
         /\ i # NoInterface => HasIPv4(net[i])
<1> DEFINE stops == {i \in DOMAIN net : Stops(net[i])}
           first == CHOOSE i \in stops : \A j \in stops : i <= j
<1>1. InferDefaultNInterface(net) = IF stops = {} \/ ~net[first].readable
                                    THEN NoInterface ELSE first
  BY DEF InferDefaultNInterface
<1>2. stops \in SUBSET DOMAIN net /\ stops \in SUBSET Nat /\ \A i \in stops : Stops(net[i])
  OBVIOUS
<1> HIDE DEF stops
<1>3. stops # {} => first \in stops
  BY <1>2, FirstIn
<1> HIDE DEF first
<1>4. CASE stops = {} \/ ~net[first].readable
  BY <1>1, <1>4 DEF NoInterface
<1>5. CASE stops # {} /\ net[first].readable
  <2>1. first \in DOMAIN net /\ Stops(net[first])
    BY <1>2, <1>3, <1>5
  <2>2. HasIPv4(net[first])
    BY <1>5, <2>1 DEF Stops
  <2> QED BY <1>1, <1>5, <2>1, <2>2
<1> QED BY <1>4, <1>5

-----------------------------------------------------------------------------
(* The addresses of a process.                                             *)

\* They are unset, or what NewConfig makes of the interface it infers.
AddressesInferred ==
  /\ network \in Networks
  /\ iface \in 0 .. Len(network)
  /\ \/ ips = <<>> /\ primary = NoAddress
     \/ /\ iface = InferDefaultNInterface(network) /\ iface # NoInterface
        /\ ips = FilterSensorIPs(ExtractIPs(network[iface].addrs))
        /\ primary = ChoosePrimaryIP(ips)

LEMMA AddressesInferredAlways == Spec => []AddressesInferred
<1>1. Init => AddressesInferred
  BY StartupAssumption DEF Init, AddressesInferred, NoInterface
<1>2. ASSUME AddressesInferred, [Next]_vars
      PROVE  AddressesInferred'
  <2>0. network \in Seq(Interfaces)
    BY <1>2, StartupAssumption DEF AddressesInferred
  <2>1. CASE Configure
    <3>1. /\ network' = network /\ iface' = InferDefaultNInterface(network)
          /\ \/ iface' # NoInterface /\ ips' = FilterSensorIPs(ExtractIPs(network[iface'].addrs))
             \/ ips' = <<>>
          /\ primary' = ChoosePrimaryIP(ips')
      BY <2>1 DEF Configure
    <3>2. iface' \in 0 .. Len(network')
      BY <2>0, <3>1, InferFacts
    <3>3. ips' = <<>> => primary' = NoAddress
      <4>1. <<>> \in Seq(Addresses)
        OBVIOUS
      <4>2. ChoosePrimaryIP(<<>>) = NoAddress
        BY <4>1, PrimaryFacts
      <4> QED BY <3>1, <4>2
    <3>4. network' \in Networks
      BY <1>2, <3>1 DEF AddressesInferred
    <3> QED BY <3>1, <3>2, <3>3, <3>4 DEF AddressesInferred
  <2>2. CASE Crash
    <3>1. network' = network /\ iface' = 0 /\ ips' = <<>> /\ primary' = NoAddress
      BY <2>2 DEF Crash, NoInterface
    <3> QED BY <1>2, <2>0, <3>1 DEF AddressesInferred
  <2>3. CASE ~Configure /\ ~Crash
    <3>1. UNCHANGED <<network, iface, ips, primary>>
      BY <1>2, <2>3 DEF Next, Run, Start, WritePEMFiles, CreateCert, WriteCert, CreateKey,
         WriteKey, LoadSshConfig, LoadHostKey, CreateHostFile, WriteHostFile, HostFileFails,
         ServeAll, LoadPair, certRest, hostRest, configVars, vars
    <3> QED BY <1>2, <3>1 DEF AddressesInferred
  <2> QED BY <2>1, <2>2, <2>3
<1> QED BY <1>1, <1>2, PTL DEF Spec

\* What there is to know of addresses that have been inferred.
LEMMA InferredFacts ==
  ASSUME AddressesInferred, ips # <<>>
  PROVE  LET addrs == network[iface].addrs IN
         /\ addrs \in Seq(Addresses) /\ HasIPv4(network[iface])
         /\ ExtractIPs(addrs) \in Seq(Addresses)
         /\ ips = FilterSensorIPs(ExtractIPs(addrs)) /\ ips \in Seq(Addresses)
         /\ primary = ChoosePrimaryIP(ips)
<1>1. network \in Seq(Interfaces) /\ iface \in 1 .. Len(network)
  BY StartupAssumption DEF AddressesInferred, NoInterface
<1>2. network[iface] \in Interfaces
  BY <1>1
<1>3. network[iface].addrs \in Seq(Addresses)
  BY <1>2 DEF Interfaces
<1>4. HasIPv4(network[iface])
  <2>1. iface = InferDefaultNInterface(network) /\ iface # NoInterface
    BY DEF AddressesInferred
  <2> QED BY <1>1, <2>1, InferFacts
<1>5. /\ ips = FilterSensorIPs(ExtractIPs(network[iface].addrs))
      /\ primary = ChoosePrimaryIP(ips)
  BY DEF AddressesInferred
<1>6. ExtractIPs(network[iface].addrs) \in Seq(Addresses)
  BY <1>3, ExtractFacts
<1>7. FilterSensorIPs(ExtractIPs(network[iface].addrs)) \in Seq(Addresses)
  BY <1>6, FilterFacts
<1> QED BY <1>3, <1>4, <1>5, <1>6, <1>7

-----------------------------------------------------------------------------
\* The state of a start, and the disk, keep their types.
THEOREM StartupTypeCorrect == Spec => []TypeOK
<1>1. ASSUME StartupInv, AddressesInferred
      PROVE  TypeOK
  <2>1. ips \in Seq(Addresses) /\ primary \in Addresses \cup {NoAddress}
    <3>1. CASE ips = <<>>
      <4>1. <<>> \in Seq(Addresses)
        OBVIOUS
      <4>2. ChoosePrimaryIP(<<>>) = NoAddress
        BY <4>1, PrimaryFacts
      <4> QED BY <1>1, <3>1, <4>1, <4>2 DEF AddressesInferred
    <3>2. CASE ips # <<>>
      BY <1>1, <3>2, InferredFacts, PrimaryFacts
    <3> QED BY <3>1, <3>2
  <2> QED BY <1>1, <2>1 DEF StartupInv, DiskTypeOK, AddressesInferred, TypeOK
<1> QED BY <1>1, StartupAlways, AddressesInferredAlways, PTL

\* Whatever interfaces the machine has, the addresses a process goes by are all
\* the usable ones of its interface and no other, IPv4 first.
THEOREM SensorAddressesAreUsable == Spec => []AddressesAreUsable
<1>1. ASSUME AddressesInferred
      PROVE  AddressesAreUsable
  <2>1. CASE ips = <<>>
    <3>1. <<>> \in Seq(Addresses)
      OBVIOUS
    <3>2. ChoosePrimaryIP(<<>>) = NoAddress
      BY <3>1, PrimaryFacts
    <3> QED BY <1>1, <2>1, <3>2 DEF AddressesInferred, AddressesAreUsable
  <2>2. CASE ips # <<>>
    <3> DEFINE addrs == network[iface].addrs
               all == ExtractIPs(addrs)
    <3>1. /\ addrs \in Seq(Addresses) /\ HasIPv4(network[iface]) /\ all \in Seq(Addresses)
          /\ ips = FilterSensorIPs(all) /\ ips \in Seq(Addresses)
          /\ primary = ChoosePrimaryIP(ips)
      BY <1>1, <2>2, InferredFacts
    <3>2. \A i \in DOMAIN addrs : addrs[i].type # "other" =>
            \E n \in DOMAIN all : all[n] = addrs[i]
      BY <3>1, ExtractFacts
    <3>3. PICK k \in DOMAIN addrs :
            addrs[k].type = "IPNet" /\ addrs[k].scope # "loopback" /\ addrs[k].v4
      BY <3>1 DEF HasIPv4
    <3> HIDE DEF all, addrs
    <3>4. /\ \A n \in DOMAIN ips :
               /\ ips[n].scope \notin {"loopback", "unspecified"}
               /\ ~ips[n].v4 => ips[n].scope = "global"
               /\ \A m \in 1 .. n : ips[n].v4 => ips[m].v4
          /\ \A i \in DOMAIN all :
               /\ all[i].scope \notin {"loopback", "unspecified"}
               /\ all[i].v4 \/ all[i].scope = "global"
               => \E n \in DOMAIN ips : ips[n] = all[i]
      BY <3>1, FilterFacts
    <3>5. ASSUME NEW i \in DOMAIN addrs, addrs[i].type # "other",
                 addrs[i].scope \notin {"loopback", "unspecified"},
                 addrs[i].v4 \/ addrs[i].scope = "global"
          PROVE  \E n \in DOMAIN ips : ips[n] = addrs[i]
      <4>1. PICK n \in DOMAIN all : all[n] = addrs[i]
        BY <3>2, <3>5
      <4> QED BY <3>4, <3>5, <4>1
    <3>6. primary.v4 \/ \E i \in DOMAIN addrs : addrs[i].v4 /\ addrs[i].scope = "unspecified"
      <4>1. CASE addrs[k].scope = "unspecified"
        BY <3>3, <4>1
      <4>2. CASE addrs[k].scope # "unspecified"
        <5>1. \E n \in DOMAIN ips : ips[n] = addrs[k]
          BY <3>3, <3>5, <4>2
        <5>2. \E n \in DOMAIN ips : ips[n].v4
          BY <3>3, <5>1
        <5> QED BY <3>1, <5>2, PrimaryFacts
      <4> QED BY <4>1, <4>2
    <3>7. primary # NoAddress
      BY <2>2, <3>1, PrimaryFacts
    <3>8. \A i \in DOMAIN addrs : addrs[i].type # "other" /\ addrs[i].scope = "global" =>
            \E n \in DOMAIN ips : ips[n] = addrs[i]
      BY <3>5
    <3> QED BY <2>2, <3>4, <3>6, <3>7, <3>8 DEF AddressesAreUsable, addrs
  <2> QED BY <2>1, <2>2
<1> QED BY <1>1, AddressesInferredAlways, PTL

\* Whatever earlier starts left on the disk, a handler that has loaded the
\* certificate has this start's, and never the nil tlsConfig on which a StartTLS
\* of LDAP panics.
THEOREM HandlersGetThisStartsPair == Spec => []PairIsThisStarts
<1>1. StartupInv => PairIsThisStarts
  BY DEF StartupInv, CertOrder, PairIsThisStarts
<1> QED BY <1>1, StartupAlways, PTL

\* Over any number of starts, crashes in a write, failed writes and failed reads,
\* clients that have seen a host key see another one only if a start since then
\* could not read its file (ssh.go:171-184).
THEOREM HostKeysChangeIfUnread == Spec => OneIdentity
<1>1. ASSUME StartupInv, [Next]_vars
      PROVE  [\A k \in HostKeys : known[k] # None /\ known'[k] # known[k] => k \in unread]_vars
  <2>1. CASE ServeAll
    <3>1. known' = [k \in HostKeys |-> IF offered[k] = None THEN known[k] ELSE offered[k]]
      BY <2>1 DEF ServeAll
    <3>2. \A k \in HostKeys :
            offered[k] # None /\ known[k] # None => offered[k] = known[k] \/ k \in unread
      BY <1>1 DEF StartupInv, HostKeyOrder
    <3> QED BY <3>1, <3>2
  <2>2. CASE Configure \/ Start \/ Crash \/ WritePEMFiles \/ LoadSshConfig
    <3>1. known' = known
      BY <2>2, Zenon
         DEF Configure, Start, Crash, WritePEMFiles, CreateCert, WriteCert, CreateKey, WriteKey,
             certRest, LoadSshConfig, LoadHostKey, CreateHostFile, WriteHostFile, HostFileFails,
             seenVars
    <3> QED BY <3>1
  <2>3. ASSUME NEW h \in TlsHandlers, LoadPair(h) PROVE known' = known
    BY <2>3 DEF LoadPair, seenVars
  <2> QED BY <1>1, <2>1, <2>2, <2>3 DEF Next, Run
<1> QED BY <1>1, StartupAlways, PTL DEF Spec, OneIdentity

\* A start that meets no fault serves with every host key, whatever torn, missing
\* or unusable files it finds: what ComesUp promises, but for its arrival.
THEOREM FaultFreeStartOffersAll ==
  Spec => [](pc = "serve" /\ ~FaultsLeft => \A k \in HostKeys : offered[k] # None)
<1> DEFINE Loading == {"load_host", "create_host", "write_host"}
           OfferOrder ==
             /\ pc \notin Loading \cup {"serve"} => next = 1
             /\ pc = "serve" => next > Len(KeyNames)
             /\ ~FaultsLeft => \A i \in 1 .. next - 1 : offered[KeyNames[i]] # None
<1>1. Init => OfferOrder
  BY StartupAssumption DEF Init, FaultsLeft
<1>2. ASSUME StartupInv, OfferOrder, [Next]_vars
      PROVE  OfferOrder'
  <2>0. /\ DiskTypeOK /\ next \in 1 .. 4 /\ offered \in [HostKeys -> Contents]
        /\ pc \in Loading => Key = KeyNames[next]
    BY <1>2 DEF StartupInv, DiskTypeOK, Key
  <2>1. CASE Start \/ Crash
    BY <1>2, <2>1 DEF Start, Crash, Goto
  <2>2. CASE Configure
    <3>1. pc = "configure" /\ pc' = "create_cert" /\ UNCHANGED <<start, next, offered>>
      BY <2>2, Zenon DEF Configure, Goto
    <3> QED BY <1>2, <3>1 DEF FaultsLeft
  <2>3. CASE WritePEMFiles \/ ServeAll \/ UNCHANGED vars
    BY <1>2, <2>3 DEF WritePEMFiles, CreateCert, WriteCert, CreateKey, WriteKey, ServeAll, Goto,
       certRest, hostRest, vars, FaultsLeft
  <2>4. CASE \E h \in TlsHandlers : LoadPair(h)
    BY <1>2, <2>4 DEF LoadPair, FaultsLeft
  <2>5. CASE LoadHostKey \/ CreateHostFile \/ WriteHostFile
    <3>1. /\ pc \in Loading /\ pc' \in Loading /\ start' = start
          /\ \/ UNCHANGED <<next, offered>>
             \/ \E key \in Contents :
                  key # None /\ next <= 3 /\ next' = next + 1 /\ offered' = [offered EXCEPT ![Key] = key]
      <4>1. CASE LoadHostKey
        <5>1. next <= 3 /\ Key \in HostKeys
          BY <2>0, <4>1, KeyFacts DEF LoadHostKey
        <5>2. hostFile[Key] \in Contents
          BY <2>0, <5>1 DEF DiskTypeOK
        <5> QED BY <4>1, <5>1, <5>2 DEF LoadHostKey, KeyDone, Usable, hostRest
      <4>2. CASE CreateHostFile
        BY <4>2 DEF CreateHostFile, Goto, hostRest
      <4>3. CASE WriteHostFile
        <5>1. next <= 3 /\ start \in Contents /\ start # None
          BY <1>2, <2>0, <4>3, KeyFacts, ContentFacts
             DEF StartupInv, HostKeyOrder, DiskTypeOK, WriteHostFile
        <5> QED BY <4>3, <5>1 DEF WriteHostFile, KeyDone, hostRest
      <4> QED BY <2>5, <4>1, <4>2, <4>3
    <3>2. CASE UNCHANGED <<next, offered>>
      BY <1>2, <3>1, <3>2 DEF FaultsLeft
    <3>3. ASSUME NEW key \in Contents, key # None, next <= 3, next' = next + 1,
                 offered' = [offered EXCEPT ![Key] = key]
          PROVE  OfferOrder'
      <4>1. ASSUME ~FaultsLeft', NEW i \in 1 .. next' - 1
            PROVE  offered'[KeyNames[i]] # None
        <5>1. ~FaultsLeft /\ KeyNames[i] \in HostKeys /\ Key = KeyNames[next]
          BY <2>0, <3>1, <3>3, <4>1, KeyFacts DEF FaultsLeft
        <5>2. i \in 1 .. next - 1 \/ i = next
          BY <2>0, <3>3
        <5>3. i \in 1 .. next - 1 => offered[KeyNames[i]] # None
          BY <1>2, <5>1
        <5> QED BY <2>0, <3>3, <5>1, <5>2, <5>3
      <4> QED BY <3>1, <4>1
    <3> QED BY <3>1, <3>2, <3>3
  <2>6. CASE HostFileFails
    <3>1. FaultsLeft /\ start' = start /\ pc' = "load_host"
      BY <2>6 DEF HostFileFails, KeyDone, hostRest
    <3> QED BY <3>1 DEF FaultsLeft
  <2> QED BY <1>2, <2>1, <2>2, <2>3, <2>4, <2>5, <2>6 DEF Next, Run, LoadSshConfig
<1>3. StartupInv /\ OfferOrder =>
        (pc = "serve" /\ ~FaultsLeft => \A k \in HostKeys : offered[k] # None)
  <2>1. HostKeys = {KeyNames[1], KeyNames[2], KeyNames[3]} /\ Len(KeyNames) = 3
    BY DEF HostKeys, KeyNames
  <2>2. ASSUME StartupInv, OfferOrder, pc = "serve", ~FaultsLeft, NEW i \in 1 .. 3
        PROVE  offered[KeyNames[i]] # None
    <3>1. i \in 1 .. next - 1
      BY <2>1, <2>2 DEF StartupInv, DiskTypeOK
    <3> QED BY <2>2, <3>1
  <2> QED BY <2>1, <2>2
<1> HIDE DEF OfferOrder
<1> QED BY <1>1, <1>2, <1>3, StartupAlways, PTL DEF Spec

=============================================================================
