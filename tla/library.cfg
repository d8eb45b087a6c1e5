SPECIFICATION LibrarySpec
CONSTANTS
  k1 = k1  k2 = k2  n1 = n1  n2 = n2
  d1 = d1  t1 = t1
  MaxPart = 2
  MaxSeq = 1
  Reloads = {}
  MaxPasses = 1
  MaxRecCrashes = 1
  Local = {1, 2}
  VoiceKey = {k1, k2}
  Name = {n1, n2}
  PersonOf <- MCPersonOf
  MaxParts = 2
  MaxReviews = 2
  MaxNamed = 2
  Doc = {d1}
  InBase = {d1}
  Model = {"m1", "m2"}
  MaxAttempts = 2
  MaxDocFaults = 2
  MaxDocOps = 2
  Talk = {t1}
  OneProcess = TRUE
  MaxChanges = 2
  MaxAnswers = 1
  MaxIndexFaults = 1
  Line <- Lines
  RareLine <- Rares
  Segment <- Speeches
  TokenChars = 2
  MinTokens = 4
  MaxTokens = 7
  TurnMaxTokens = 6
  MaxLines = 6
  MaxRare = 1
  MaxSegments = 5
INVARIANTS LibraryTypeOK  SpeakersApart FoundIsCurrent
PROPERTY LibrarySettles
CHECK_DEADLOCK FALSE
