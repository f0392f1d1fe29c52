----------------------------- MODULE MC_UmsSystem -----------------------------
(* SendSOAPMsg.py and ReceiveSOAPMsg.py on one gateway.                     *)
EXTENDS UmsSystem, Base64, TLC

CONSTANTS s1, s2

MCSids == {s1, s2}

MCCounts == {0, 1, 2, 3}

\* A one-byte file, whose base64 is padded, and an empty file, which the
\* receiver skips.
MCFiles == {[name |-> "a.txt", data |-> <<65>>], [name |-> "e.txt", data |-> <<>>]}

\* Every body the sender can post: the texts and the File elements.
MCPayloads ==
  [idx : {0, 1, 2, NoIdx}, text : {"hi"}]
  \cup {[name |-> f.name, b64 |-> B64Encode(f.data)] : f \in MCFiles}

=============================================================================
