CONSTANTS
  alice = alice
  root = root
  secret = secret
  Received = Received
  Subject = Subject
  Nothing = Nothing
  Addrs <- MCAddrs
  Users <- MCUsers
  Passwords <- MCPasswords
  Names <- MCNames
  NoMessage = NoMessage
  Texts <- MCTexts
  MaxLines = 1
  IdleLimit = 240
SPECIFICATION FairSpec
INVARIANTS IdleIsBounded
CHECK_DEADLOCK FALSE
