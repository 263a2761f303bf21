CONSTANTS
  admin = admin
  guest = guest
  NoLogin = NoLogin
  Logins <- MCLogins
  MaxPackets = 4
SPECIFICATION FairSpec
INVARIANTS RecordTellsDialogue RecordExplainsEnd
PROPERTIES SessionEnds RecordsOnce
\* The session ends, and then nothing is left to run.
CHECK_DEADLOCK FALSE
