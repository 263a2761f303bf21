CONSTANTS
  exit = exit
  ls = ls
  NoLine = NoLine
  Lines <- MCLines
  ExitLines <- MCExitLines
  Limits <- MCLimits
SPECIFICATION FairSpec
INVARIANTS DisconnectsAtLimit
\* The session ends, and then nothing is left to run.
CHECK_DEADLOCK FALSE
