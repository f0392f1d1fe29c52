-------------------------------- MODULE Base64 --------------------------------
(***************************************************************************)
(* base64.b64encode and base64.b64decode as the SOAP scripts use them:    *)
(* SendSOAPMsg.py encodes the bytes of the -f file into the text of the   *)
(* File element (lines 232-233); ReceiveSOAPMsg.py decodes the text of a  *)
(* received File element back into the bytes it writes (line 242).        *)
(*                                                                         *)
(* A byte is 0..255.  An encoded character is its index 0..63 in the      *)
(* alphabet A-Z a-z 0-9 + /, and Pad stands for "=".  The codec works on  *)
(* groups of three bytes (24 bits) and four characters, as binascii does. *)
(***************************************************************************)
EXTENDS Integers, Sequences, SequencesExt

Pad == 64

\* The encoded form of the four characters "None": N, o, n, e.
NoneChars == <<13, 40, 39, 30>>

\* The 24-bit value of a group of one to three bytes, left-aligned.
GroupValue(g) ==
  g[1] * 65536 + (IF Len(g) > 1 THEN g[2] * 256 ELSE 0)
               + (IF Len(g) > 2 THEN g[3] ELSE 0)

\* Mutant of B64Encode: a short last group gets one "=" too many.
RECURSIVE B64EncodeOverPad(_)
B64EncodeOverPad(s) ==
  IF s = <<>> THEN <<>>
  ELSE LET g == SubSeq(s, 1, IF Len(s) < 3 THEN Len(s) ELSE 3)
           n == GroupValue(g)
           c == <<n \div 262144, (n \div 4096) % 64, (n \div 64) % 64, n % 64>>
       IN  [k \in 1..4 |-> IF k > Len(g) THEN Pad ELSE c[k]]
             \o B64EncodeOverPad(SubSeq(s, Len(g) + 1, Len(s)))

\* b64encode: each group of up to three bytes becomes four characters; a
\* group of n < 3 bytes keeps n + 1 characters and is padded with "=".
RECURSIVE B64Encode(_)
B64Encode(s) ==
  IF s = <<>> THEN <<>>
  ELSE LET g == SubSeq(s, 1, IF Len(s) < 3 THEN Len(s) ELSE 3)
           n == GroupValue(g)
           c == <<n \div 262144, (n \div 4096) % 64, (n \div 64) % 64, n % 64>>
       IN  [k \in 1..4 |-> IF k > Len(g) + 1 THEN Pad ELSE c[k]]
             \o B64Encode(SubSeq(s, Len(g) + 1, Len(s)))

\* b64decode of well-formed text: each group of four characters gives
\* back three bytes, less one for each "=".
RECURSIVE B64Decode(_)
B64Decode(t) ==
  IF Len(t) < 4 THEN <<>>
  ELSE LET q == SubSeq(t, 1, 4)
           v(k) == IF q[k] = Pad THEN 0 ELSE q[k]
           n == v(1) * 262144 + v(2) * 4096 + v(3) * 64 + v(4)
           nb == Len(SelectSeq(q, LAMBDA x : x # Pad)) - 1
       IN  SubSeq(<<n \div 65536, (n \div 256) % 256, n % 256>>, 1, nb)
             \o B64Decode(SubSeq(t, 5, Len(t)))

=============================================================================
