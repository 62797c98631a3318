SPECIFICATION MCSpec
CONSTANTS
  i1 = i1
  r1 = r1
  r2 = r2
  r3 = r3
  a1 = a1
  a2 = a2
  c1 = c1
  c2 = c2
  Invite <- MCInvite
  Reader <- MCReader
  TTL = 2
  ReadS = 1
  MaxTime = 6
  Agent <- MCAgent
  Renewed <- MCRenewed
  Caller <- MCCaller
  CardTTL = 1
  Cap = 2
  Margin = 2
  Life = 3
SYMMETRY Symmetry
INVARIANTS
  AnswersAreRecent
  TokenIsValid
  LockHeldInside
  OldCardGoes
