CONSTANTS
  s1 = s1
  s2 = s2
  Empty = Empty
  NoIdx = NoIdx
  PyNone = PyNone
  Sids <- MCSids
  Payloads <- SameNamePayloads
  MaxMsgs = 2
  MaxTime = 1
  Deployments = {TRUE, FALSE}

SPECIFICATION RecvSpec

INVARIANT FilesKept

\* The script ends: done, exit(1) or killed.
CHECK_DEADLOCK FALSE
