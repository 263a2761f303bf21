------------------------------ MODULE Handoff ------------------------------
(***************************************************************************)
(* What the handlers' Serve promises to the clients of their ports,        *)
(* whatever goroutines and channels it uses: connections taken from a      *)
(* listener wait in a bounded first-in first-out line, a session begins    *)
(* for the one that has waited longest, no connection gets two sessions,   *)
(* and once a handler has stopped none of its sessions begins any more.    *)
(***************************************************************************)
EXTENDS Naturals, Sequences

CONSTANTS Handlers, \* the handlers, one per port
          Conns,    \* the client connections
          Capacity  \* how many taken connections can wait at a handler

VARIABLES line,     \* per handler: connections taken and not begun, oldest first
          begun,    \* per handler: connections whose session has begun
          stopped   \* the handlers that begin no more sessions

vars == <<line, begun, stopped>>

Init ==
  /\ line = [h \in Handlers |-> <<>>]
  /\ begun = [h \in Handlers |-> {}]
  /\ stopped = {}

Waiting(h) == {line[h][i] : i \in DOMAIN line[h]}

\* A connection no handler has seen before joins the end of the line of h.
Take(h, c) ==
  /\ Len(line[h]) < Capacity
  /\ \A g \in Handlers : c \notin begun[g] \cup Waiting(g)
  /\ line' = [line EXCEPT ![h] = Append(@, c)]
  /\ UNCHANGED <<begun, stopped>>

\* The oldest connection waiting at h gets its session.
Begin(h) ==
  /\ h \notin stopped
  /\ line[h] # <<>>
  /\ begun' = [begun EXCEPT ![h] = @ \cup {Head(line[h])}]
  /\ line' = [line EXCEPT ![h] = Tail(@)]
  /\ UNCHANGED stopped

Stop(h) ==
  /\ h \notin stopped
  /\ stopped' = stopped \cup {h}
  /\ UNCHANGED <<line, begun>>

Next == \E h \in Handlers : (\E c \in Conns : Take(h, c)) \/ Begin(h) \/ Stop(h)

Spec == Init /\ [][Next]_vars
=============================================================================
