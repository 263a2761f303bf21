CONSTANTS
  alice = alice
  root = root
  secret = secret
  Received = Received
  Subject = Subject
  Nothing = Nothing
  Addrs <- MCAddrs
  Users <- MCUsers
  Passwords <- MCPasswords
  Names <- MCNames
  NoMessage = NoMessage
  Texts <- MCTexts
  MaxLines = 8
  IdleLimit = 0
SPECIFICATION FairSpec
INVARIANTS EnvelopeIsLogged MessageIsCaptured RecordExplainsEnd
PROPERTIES GreetingFirst ShutdownEndsSession LeavingEndsSession RecordsOnce
\* The session ends, and then nothing is left to run.
CHECK_DEADLOCK FALSE
