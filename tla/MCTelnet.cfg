CONSTANTS
  exit = exit
  ls = ls
  NoLine = NoLine
  Lines <- MCLines
  ExitLines <- MCExitLines
  Limits <- MCLimits
SPECIFICATION FairSpec
INVARIANTS TypeOK CaptureMatchesDialogue LimitBoundsSession AtMostOneLateLine
PROPERTIES SessionEnds RecordsOnce
\* The session ends, and then nothing is left to run.
CHECK_DEADLOCK FALSE
