CONSTANTS
  ssh = ssh
  smtp = smtp
  c1 = c1
  c2 = c2
  c3 = c3
  NoConn = NoConn
  Handlers <- MCHandlers
  AcceptAwaiters <- MCAcceptAwaiters
  Conns <- MCConns
  ChanCap = 1
SPECIFICATION FairServeSpec
INVARIANTS ServeTypeOK OnePlace DoneMeansQuiet
PROPERTIES StuckForever HandsOffInOrder EveryConnServed ShutdownEndsOrSticks
\* Every Serve returns in the end, and then nothing is left to run.
CHECK_DEADLOCK FALSE
