CONSTANTS
  s1 = s1
  s2 = s2
  Empty = Empty
  NoIdx = NoIdx
  Sids <- MCSids
  Payloads <- MCPayloads
  MaxMsgs = 3
  Deployments = {TRUE, FALSE}

SPECIFICATION RecvSpec

INVARIANT EndedSessionClosed

\* The script ends: done, exit(1) or killed.
CHECK_DEADLOCK FALSE
