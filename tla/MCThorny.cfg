CONSTANTS
  ldap = ldap
  smtp = smtp
  c1 = c1
  c2 = c2
  NoConn = NoConn
  Handlers <- MCHandlers
  AcceptAwaiters <- MCAcceptAwaiters
  Fallible <- MCFallible
  Conns <- MCConns
  ChanCap = 1
SPECIFICATION FairSpec
INVARIANTS TypeOK WaitGroupCounts AllOrNothing CleanExitIsOrderly
PROPERTIES StuckPinsProcess SignalEndsProcess
\* The process exits, and then nothing is left to run.
CHECK_DEADLOCK FALSE
