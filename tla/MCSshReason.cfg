CONSTANTS
  NoRequest = NoRequest
  MaxChannels = 1
  Limits <- MCLimits
  Room = 1
  MaxPackets = 3
SPECIFICATION FairSpec
INVARIANTS DisconnectIsTheClients
\* The session ends, and then nothing is left to run.
CHECK_DEADLOCK FALSE
