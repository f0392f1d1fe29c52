------------------------------ MODULE MC_SendMsg ------------------------------
(* SendMsg.py against a deployed gateway: -n 0, 1, 2 and 3 with -m "hi".  *)
EXTENDS SendMsg, TLC

CONSTANTS s1, s2

MCSids == {s1, s2}
MCCounts == {0, 1, 2, 3}
MCPayloads == TextMessages(2, {"hi"})

=============================================================================
