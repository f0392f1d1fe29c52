CONSTANTS
  s1 = s1
  s2 = s2
  Empty = Empty
  NoIdx = NoIdx
  NoFile = NoFile
  PyNone = PyNone
  Sids <- MCSids
  Counts <- MCCounts
  Files <- MCFiles
  Payloads <- MCPayloads
  Msg = "hi"
  MaxTime = 1
  Deployments = {TRUE, FALSE}

SPECIFICATION Spec

PROPERTY DeliveryRefined
PROPERTY PendingTaken

\* Both scripts end.
CHECK_DEADLOCK FALSE
