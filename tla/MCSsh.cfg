CONSTANTS
  NoRequest = NoRequest
  MaxChannels = 2
  Limits <- MCLimits
  Room = 1
  MaxPackets = 4
SPECIFICATION FairSpec
INVARIANTS TypeOK ReasonIsOverwritten ShellIsCaptured
PROPERTIES WedgedForever SessionEnds RecordsOnce
\* The session ends, and then nothing is left to run.
CHECK_DEADLOCK FALSE
