--------------------------- MODULE MC_ReceiveSOAPMsg ---------------------------
(* ReceiveSOAPMsg.py with another client publishing texts and files.       *)
EXTENDS ReceiveSOAPMsg

CONSTANTS s1, s2

MCSids == {s1, s2}

\* The File element the sender posts for file f.
FileElement(f) == [name |-> f.name, b64 |-> B64Encode(f.data)]

\* Texts "hi", "(msg#0) hi" and ""; files a.txt with no bytes or one byte.
MCPayloads ==
  [idx : {NoIdx, 0}, text : {"hi"}] \cup {[idx |-> NoIdx, text |-> ""]}
  \cup {FileElement(f) : f \in [name : {"a.txt"}, data : {<<>>, <<65>>}]}

\* As MCPayloads, and the text "None" and the three bytes whose base64 is
\* the text "None".
NonePayloads ==
  MCPayloads \cup {[idx |-> NoIdx, text |-> "None"]}
  \cup {FileElement([name |-> "a.txt", data |-> <<54, 137, 222>>])}

\* Two different files that share the name a.txt.
SameNamePayloads == {FileElement(f) : f \in [name : {"a.txt"}, data : {<<65>>, <<66>>}]}

=============================================================================
