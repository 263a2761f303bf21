----------------------------- MODULE MCStartup -----------------------------
(* The networks are those that tell the branches of the search and of the    *)
(* filter apart: interfaces that are down, loopback, unreadable, without     *)
(* IPv4, with only an unspecified one, and with an address of each kind.     *)
EXTENDS Startup

CONSTANTS ldap, smtp

Addr(family, scope, host) ==
  [type |-> "IPNet", v4 |-> family = 4, scope |-> scope, host |-> host]

Lan(addrs) == [up |-> TRUE, loopback |-> FALSE, readable |-> TRUE, addrs |-> addrs]
Lo == [up |-> TRUE, loopback |-> TRUE, readable |-> TRUE,
       addrs |-> <<Addr(4, "loopback", 1), Addr(6, "loopback", 1)>>]
Down == [Lan(<<Addr(4, "global", 9)>>) EXCEPT !.up = FALSE]
Unreadable == [Lan(<<Addr(4, "global", 9)>>) EXCEPT !.readable = FALSE]
OnlyIPv6 == Lan(<<Addr(6, "global", 1), Addr(6, "link_local", 1)>>)
Mixed == Lan(<<Addr(6, "link_local", 1), Addr(6, "global", 1), Addr(4, "link_local", 1),
               [Addr(4, "global", 0) EXCEPT !.type = "other"],
               Addr(4, "global", 1), [Addr(4, "global", 2) EXCEPT !.type = "IPAddr"],
               Addr(4, "loopback", 1), Addr(6, "multicast", 1)>>)

Unspecified == Lan(<<Addr(4, "unspecified", 0), Addr(6, "global", 1)>>)

MCTlsHandlers == {ldap, smtp}
MCNetworks ==
  {<<>>, <<Lo, Down, OnlyIPv6>>, <<OnlyIPv6, Mixed>>, <<Unreadable, Mixed>>,
   <<Lo, Mixed, Unreadable>>, <<Unspecified>>}
=============================================================================
