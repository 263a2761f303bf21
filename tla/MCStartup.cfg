CONSTANTS
  ldap = ldap
  smtp = smtp
  NoAddress = NoAddress
  TlsHandlers <- MCTlsHandlers
  Networks <- MCNetworks
  MaxStarts = 3
SPECIFICATION FairSpec
INVARIANTS PairIsThisStarts AddressesAreUsable
PROPERTIES OneIdentity ComesUp
\* The process serves, and then nothing is left to do.
CHECK_DEADLOCK FALSE
