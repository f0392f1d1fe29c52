CONSTANTS
  s1 = s1
  s2 = s2
  Empty = Empty
  NoIdx = NoIdx
  Sids <- MCSids
  Counts <- MCCounts
  Payloads <- MCPayloads
  Msg = "hi"
  Deployments = {TRUE, FALSE}

SPECIFICATION SendSpec

INVARIANT SendTypeOK
INVARIANT SentInOrderAtMostOnce
INVARIANT OnlyLostLoginOrphaned
PROPERTY SessionRefined

PROPERTY LoginLeadsToClose

\* The script ends: done, exit(1) or killed.
CHECK_DEADLOCK FALSE
