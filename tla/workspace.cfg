SPECIFICATION WorkspaceSpec
CONSTANTS
  Silence = 3
  QuietAfterEnd = 2
  NoOneJoined = 3
  MaxHours = 14
  ServiceMaxHours = 16
  SilenceMargin = 1
  QuietHeadsUp = 2
  CapHeadsUp = 5
  KeepExtension = 5
  KeepMaxAhead = 8
  ScheduledEnd = 6
  NoEnd = NoEnd
  MaxMissed = 1
  Join = {m1, m2}
  Card = {1, 2, 3}
  LastTime = 3
  Attention = 2
  MaxShifts = 1
  MaxLapses = 1
  MaxClicks = 4
  MaxSpent = 4
  Person = {u1, u2}
  Founder = u1
  Clerk = {c1, c2}
  Opener = {o1}
  Link = {1, 2}
  Share = {1}
  Mail = {1}
  MaxTries = 2
  MaxDeeds = 3
  Writer = {w1, w2}
  Brief = {1, 2}
  MaxExaCalls = 3
  MaxLlmCalls = 3
  CompanyQueries = 1
  Attendees = 1
  ExaConcurrency = 2
  MaxRetries = 1
  Providers = 2
  MaxTroubles = 1
  VaultKey = {k1, k2}
  Profile = {p1}
  MaxStamps = 2
INVARIANTS WorkspaceTypeOK  SpendIsShown
PROPERTIES LeavesWarnedInTime 
CHECK_DEADLOCK FALSE
