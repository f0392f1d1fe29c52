CONSTANTS
  s1 = s1
  s2 = s2
  Empty = Empty
  NoIdx = NoIdx
  NoFile = NoFile
  Sids <- MCSids
  Counts <- MCCounts
  Files <- MCFiles
  Payloads <- MCPayloads
  Msg = "hi"
  Deployments = {TRUE, FALSE}

SPECIFICATION SendSpec

INVARIANT SendTypeOK
INVARIANT SentInOrderAtMostOnce
INVARIANT EnvelopeAuth

PROPERTY LoginLeadsToClose

\* The script ends.
CHECK_DEADLOCK FALSE
PROPERTY SessionRefined
