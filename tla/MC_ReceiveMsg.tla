----------------------------- MODULE MC_ReceiveMsg -----------------------------
(* ReceiveMsg.py with another client publishing up to three messages,     *)
(* texts "hi" and "" with and without the "(msg#0) " prefix.              *)
EXTENDS ReceiveMsg, TLC

CONSTANTS s1, s2

MCSids == {s1, s2}
MCPayloads == [idx : {0, NoIdx}, text : {"hi", ""}]

=============================================================================
