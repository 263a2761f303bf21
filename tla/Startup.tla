------------------------------ MODULE Startup ------------------------------
(***************************************************************************)
(* What survives a start of the process and what the next one makes of it: *)
(* main.go up to ServeAll, with the key material it writes to disk         *)
(* (lib/tls.go, loadSshConfig in handler/ssh.go) and what its handlers     *)
(* read back.  The process may end at any step, killed or by a panic on an *)
(* error of that step, and is started again.                               *)
(*                                                                         *)
(* A file is written by truncating it first, so an end in between leaves   *)
(* it broken.  What has been written survives the end of the process; a    *)
(* loss of the machine's unflushed writes is not modelled, and neither are *)
(* other programs that change the files.  The files are all different.  A  *)
(* host key on the disk may turn out to be unreadable in any start; the    *)
(* certificate and the key that a process has just written are readable to *)
(* its own handlers.                                                       *)
(***************************************************************************)
EXTENDS Integers, SensorAddresses

CONSTANTS TlsHandlers, \* the handlers whose Serve loads the certificate
          Networks,    \* what net.Interfaces() may return
          MaxStarts    \* bound: starts of the process

\* The host keys, in the order in which loadSshConfig loads them.
KeyNames == <<"ed25519", "rsa", "ecdsa">>
HostKeys == {"ed25519", "rsa", "ecdsa"}

ASSUME StartupAssumption ==
  /\ Networks \subseteq Seq(Interfaces)
  /\ MaxStarts \in Nat \ {0}

\* A key is known by the number of the start that generated it; Installed is
\* one that was on the disk before the first.
Installed == 0
Broken == -1  \* a file or key that cannot be parsed: torn, or encrypted
None == -2    \* no file, no key, not loaded

VARIABLES
  certFile,    \* the certificate at tlsUserConf.CertPath
  keyFile,     \* the private key at tlsUserConf.KeyPath
  hostFile,    \* the host keys on disk
  start,       \* number of the current start
  pc,          \* where the process is
  next,        \* index in KeyNames of the host key to load next
  offered,     \* the host keys of ServerCfg
  pair,        \* the certificate in each handler's tlsConfig, Broken for nil
  network,     \* the interfaces of the machine
  iface,       \* the index of the inferred interface
  ips,         \* config.Network.Ips
  primary,     \* config.Network.PrimaryIP
  known,       \* auxiliary: the host keys clients have been shown
  unread       \* auxiliary: those that some start since then could not read

disk == <<certFile, keyFile, hostFile>>
configVars == <<iface, ips, primary>>
seenVars == <<known, unread>>
vars == <<disk, start, pc, next, offered, pair, network, configVars, seenVars>>

Pcs == {"down", "configure", "create_cert", "write_cert", "create_key", "write_key",
        "load_host", "create_host", "write_host", "serve"}
Contents == None .. MaxStarts

TypeOK ==
  /\ certFile \in Contents
  /\ keyFile \in Contents
  /\ hostFile \in [HostKeys -> Contents]
  /\ start \in 0 .. MaxStarts
  /\ pc \in Pcs
  /\ next \in 1 .. 4
  /\ offered \in [HostKeys -> Contents]
  /\ pair \in [TlsHandlers -> Contents]
  /\ network \in Networks
  /\ iface \in 0 .. Len(network)
  /\ ips \in Seq(Addresses)
  /\ primary \in Addresses \cup {NoAddress}
  /\ known \in [HostKeys -> Contents]
  /\ unread \in SUBSET HostKeys

NoKeys == [k \in HostKeys |-> None]
NoPairs == [h \in TlsHandlers |-> None]

Init ==
  /\ certFile = None
  /\ keyFile = None
  /\ hostFile \in [HostKeys -> {None, Broken, Installed}]
  /\ start = 0
  /\ pc = "down"
  /\ next = 1
  /\ offered = NoKeys
  /\ pair = NoPairs
  /\ network \in Networks
  /\ iface = NoInterface
  /\ ips = <<>>
  /\ primary = NoAddress
  /\ known = NoKeys
  /\ unread = {}

Goto(from, to) == pc = from /\ pc' = to

-----------------------------------------------------------------------------
(* The end of a process and the beginning of the next.                     *)

\* Bound: the last start is free of faults.
FaultsLeft == start < MaxStarts

Start ==
  /\ Goto("down", "configure")
  /\ FaultsLeft
  /\ start' = start + 1
  /\ UNCHANGED <<disk, next, offered, pair, network, configVars, seenVars>>

\* A kill, a panic or an os.Exit: an error of the configuration, of any step of
\* GenerateSelfSignedCert, of a bind or of a handler ends the process.
Crash ==
  /\ pc # "down"
  /\ FaultsLeft
  /\ pc' = "down"
  /\ next' = 1
  /\ offered' = NoKeys
  /\ pair' = NoPairs
  /\ iface' = NoInterface
  /\ ips' = <<>>
  /\ primary' = NoAddress
  /\ UNCHANGED <<disk, start, network, seenVars>>

-----------------------------------------------------------------------------
(* NewConfig.                                                              *)

\* Reading the addresses of the inferred interface a second time may fail.
Configure ==
  /\ Goto("configure", "create_cert")
  /\ iface' = InferDefaultNInterface(network)
  /\ \/ /\ iface' # NoInterface
        /\ ips' = FilterSensorIPs(ExtractIPs(network[iface'].addrs))
     \/ ips' = <<>>
  /\ primary' = ChoosePrimaryIP(ips')
  /\ UNCHANGED <<disk, start, next, offered, pair, network, seenVars>>

-----------------------------------------------------------------------------
(* GenerateSelfSignedCert: a new key and a certificate for it in each start. *)

certRest == <<hostFile, start, next, offered, pair, network, configVars, seenVars>>

\* Variant with a bug: "only generate if they do not exist".
CreateCertOnce ==
  /\ pc = "create_cert"
  /\ IF None \in {certFile, keyFile}
     THEN pc' = "write_cert" /\ certFile' = Broken
     ELSE pc' = "load_host" /\ UNCHANGED certFile
  /\ UNCHANGED <<keyFile, certRest>>

CreateCert ==
  /\ Goto("create_cert", "write_cert")
  /\ certFile' = Broken
  /\ UNCHANGED <<keyFile, certRest>>

WriteCert ==
  /\ Goto("write_cert", "create_key")
  /\ certFile' = start
  /\ UNCHANGED <<keyFile, certRest>>

CreateKey ==
  /\ Goto("create_key", "write_key")
  /\ keyFile' = Broken
  /\ UNCHANGED <<certFile, certRest>>

WriteKey ==
  /\ Goto("write_key", "load_host")
  /\ keyFile' = start
  /\ UNCHANGED <<certFile, certRest>>

-----------------------------------------------------------------------------
(* loadSshConfig: the host keys, each loaded or else generated.            *)

Key == KeyNames[next]
Usable(content) == content >= Installed

hostRest == <<certFile, keyFile, start, pair, network, configVars>>

\* The key is done with, and offered to clients unless it is None.
KeyDone(key) ==
  /\ offered' = [offered EXCEPT ![Key] = key]
  /\ next' = next + 1
  /\ pc' = "load_host"

\* Variant with a bug: "generate if missing", and so not if torn.
LoadHostKeyIfMissing ==
  /\ pc = "load_host"
  /\ next <= Len(KeyNames)
  /\ IF hostFile[Key] # None
     THEN KeyDone(IF Usable(hostFile[Key]) THEN hostFile[Key] ELSE None)
     ELSE pc' = "create_host" /\ UNCHANGED <<next, offered>>
  /\ UNCHANGED <<hostFile, hostRest, seenVars>>

\* loadSigner: a key is generated on any error, also one of reading a good file.
LoadHostKey ==
  /\ pc = "load_host"
  /\ next <= Len(KeyNames)
  /\ \/ Usable(hostFile[Key]) /\ KeyDone(hostFile[Key]) /\ UNCHANGED unread
     \/ /\ Usable(hostFile[Key]) => FaultsLeft
        /\ pc' = "create_host"
        /\ unread' = IF Usable(hostFile[Key]) THEN unread \cup {Key} ELSE unread
        /\ UNCHANGED <<next, offered>>
  /\ UNCHANGED <<hostFile, hostRest, known>>

\* os.WriteFile opens the file with O_TRUNC; what was there is gone.
CreateHostFile ==
  /\ Goto("create_host", "write_host")
  /\ hostFile' = [hostFile EXCEPT ![Key] = Broken]
  /\ UNCHANGED <<hostRest, next, offered, seenVars>>

WriteHostFile ==
  /\ pc = "write_host"
  /\ hostFile' = [hostFile EXCEPT ![Key] = start]
  /\ KeyDone(start)
  /\ UNCHANGED <<hostRest, seenVars>>

\* Variant with a bug: the generated key is offered though it was not saved.
HostFileFailsOffered ==
  /\ pc \in {"create_host", "write_host"}
  /\ FaultsLeft
  /\ KeyDone(start)
  /\ UNCHANGED <<hostFile, hostRest, seenVars>>

\* The file cannot be opened or written: only a warning, and the handler goes
\* on without this key.
HostFileFails ==
  /\ pc \in {"create_host", "write_host"}
  /\ FaultsLeft
  /\ KeyDone(None)
  /\ UNCHANGED <<hostFile, hostRest, seenVars>>

-----------------------------------------------------------------------------
(* ServeAll: clients are served, and the handlers read the certificate.    *)

ServeAll ==
  /\ Goto("load_host", "serve")
  /\ next > Len(KeyNames)
  /\ known' = [k \in HostKeys |-> IF offered[k] = None THEN known[k] ELSE offered[k]]
  /\ unread' = {k \in unread : offered[k] = None}
  /\ UNCHANGED <<hostFile, hostRest, next, offered>>

\* LoadX509KeyPair: both files parse and the key is that of the certificate.
LoadX509KeyPair ==
  IF Usable(certFile) /\ certFile = keyFile THEN certFile ELSE Broken

\* The first thing Serve of h does.
LoadPair(h) ==
  /\ pc = "serve"
  /\ pair[h] = None
  /\ pair' = [pair EXCEPT ![h] = LoadX509KeyPair]
  /\ UNCHANGED <<disk, start, pc, next, offered, network, configVars, seenVars>>

-----------------------------------------------------------------------------
WritePEMFiles == CreateCert \/ WriteCert \/ CreateKey \/ WriteKey

LoadSshConfig == LoadHostKey \/ CreateHostFile \/ WriteHostFile \/ HostFileFails

Run ==
  \/ Configure \/ WritePEMFiles \/ LoadSshConfig \/ ServeAll
  \/ \E h \in TlsHandlers : LoadPair(h)

Next == Start \/ Run \/ Crash

Spec == Init /\ [][Next]_vars

\* A process that runs makes progress, and one that has ended is started again.
FairSpec == Spec /\ WF_vars(Run) /\ WF_vars(Start)

-----------------------------------------------------------------------------
(* Properties.                                                             *)

\* Whatever earlier starts have left behind, mismatched or torn, a handler that
\* loads the certificate gets the one of this start: with its key, for the
\* addresses found in this start, and never a nil tlsConfig.
PairIsThisStarts == \A h \in TlsHandlers : pair[h] # None => pair[h] = start

\* Clients that have been shown a host key are shown another one only if in
\* between a start could not read its file: a key is offered only after it is
\* safely on the disk, and neither a crash nor a failed write replaces it.
OneIdentity ==
  [][\A k \in HostKeys : known[k] # None /\ known'[k] # known[k] => k \in unread]_vars

\* The addresses of a configured process: every global address of its interface
\* is there and no loopback one is; of IPv6 only global ones are, after all of
\* IPv4.  The primary address is an IPv4 one wherever there is one: an interface
\* without IPv4 is not inferred at all, so that the fallback to IPv6 is taken only
\* on one that was inferred for 0.0.0.0, which is filtered out again.
AddressesAreUsable ==
  /\ \A i \in DOMAIN ips :
       /\ ips[i].scope \notin {"loopback", "unspecified"}
       /\ ~ips[i].v4 => ips[i].scope = "global"
       /\ \A j \in 1 .. i : ips[i].v4 => ips[j].v4
  /\ ips # <<>> =>
       LET addrs == network[iface].addrs IN
       /\ \A i \in DOMAIN addrs :
            addrs[i].type # "other" /\ addrs[i].scope = "global" =>
              \E j \in DOMAIN ips : ips[j] = addrs[i]
       /\ primary.v4 \/ \E i \in DOMAIN addrs : addrs[i].v4 /\ addrs[i].scope = "unspecified"
  /\ ips = <<>> <=> primary = NoAddress

\* No disk that an earlier start can leave keeps a later one from coming up:
\* once the faults are over the process serves, with a certificate in every
\* handler, and a start that meets no fault offers every host key.
ComesUp ==
  <>[](/\ pc = "serve"
       /\ \A h \in TlsHandlers : pair[h] = start
       /\ ~FaultsLeft => \A k \in HostKeys : offered[k] # None)

=============================================================================
