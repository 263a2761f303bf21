-------------------------- MODULE SensorAddresses --------------------------
(***************************************************************************)
(* How the sensor finds its own addresses: InferDefaultNInterface,         *)
(* ExtractIPs, FilterSensorIPs and ChoosePrimaryIP (config/utils.go).  An  *)
(* address is known by the type its interface reports it with, its family  *)
(* and its scope; "host" tells addresses apart that agree in these.        *)
(***************************************************************************)
EXTENDS Naturals, Sequences, FiniteSets

CONSTANT NoAddress \* the nil net.IP

Scopes == {"global", "link_local", "loopback", "multicast", "unspecified"}
Addresses ==
  [type : {"IPNet", "IPAddr", "other"}, v4 : BOOLEAN, scope : Scopes, host : Nat]
Interfaces ==
  [up : BOOLEAN, loopback : BOOLEAN, readable : BOOLEAN, addrs : Seq(Addresses)]

ASSUME AddressAssumption == NoAddress \notin Addresses

NoInterface == 0

HasIPv4(iface) ==
  \E i \in DOMAIN iface.addrs :
    LET a == iface.addrs[i] IN a.type = "IPNet" /\ a.scope # "loopback" /\ a.v4

\* The search stops at the first interface that is up, no loopback, and either
\* has an IPv4 address or cannot be read, in which case it has found nothing.
Stops(iface) == iface.up /\ ~iface.loopback /\ (iface.readable => HasIPv4(iface))

\* Variant with a bug: the first interface that is up is taken.
InferUpInterface(ifaces) ==
  LET stops == {i \in DOMAIN ifaces : ifaces[i].up /\ ~ifaces[i].loopback} IN
  IF stops = {} THEN NoInterface ELSE CHOOSE i \in stops : \A j \in stops : i <= j

\* The index of the interface in net.Interfaces(), or NoInterface.
InferDefaultNInterface(ifaces) ==
  LET stops == {i \in DOMAIN ifaces : Stops(ifaces[i])}
      first == CHOOSE i \in stops : \A j \in stops : i <= j
  IN IF stops = {} \/ ~ifaces[first].readable THEN NoInterface ELSE first

\* The elements of s whose indices are in I, in their order.
At(s, I) ==
  [n \in 1 .. Cardinality(I) |-> s[CHOOSE i \in I : Cardinality({j \in I : j <= i}) = n]]

ExtractIPs(addrs) == At(addrs, {i \in DOMAIN addrs : addrs[i].type # "other"})

\* IPv4 addresses first.  The tests for link-local and multicast addresses come
\* after the IPv4 ones have been taken, so that only IPv6 ones meet them.
FilterSensorIPs(addrs) ==
  LET kept == {i \in DOMAIN addrs : addrs[i].scope \notin {"loopback", "unspecified"}}
      v4s == {i \in kept : addrs[i].v4}
      v6s == {i \in kept \ v4s : addrs[i].scope \notin {"multicast", "link_local"}}
  IN At(addrs, v4s) \o At(addrs, v6s)

ChoosePrimaryIP(addrs) ==
  LET v4s == {i \in DOMAIN addrs : addrs[i].v4} IN
  IF v4s # {} THEN addrs[CHOOSE i \in v4s : \A j \in v4s : i <= j]
  ELSE IF addrs # <<>> THEN Head(addrs)
  ELSE NoAddress

=============================================================================
