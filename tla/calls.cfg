SPECIFICATION CallsSpec
CONSTANTS
  m1 = m1  m2 = m2
  p1 = p1  p2 = p2
  Meeting = {m1, m2}
  Watched = {m1}
  Person = {p1, p2}
  Actor = {w, s, r1}
  b1 = b1
  b2 = b2
  w = w
  s = s
  r1 = r1
  r2 = r2
  Watchdog = w
  Scheduler = s
  Request = {r1}
  Link = {"link"}
  LinkOf <- MCLinkOf
  OwnerOf <- MCOwnerOf
  Earlier <- MCEarlier
  Automated = {m1}
  Bot = {b1, b2}
  NoBot = NoBot
  GiveUp = 1
  Stuck = 1
  MaxFaults = 1
  MaxOps = 3
  StartOps = 2
INVARIANT CallsTypeOK
CHECK_DEADLOCK FALSE
INVARIANT ListensOpenly
PROPERTY HandedOverStaysHome FollowsItsLife CallsSettle KeepsItsWords
