----------------------------- MODULE UmsDelivery -----------------------------
(***************************************************************************)
(* What one sender, a UMS destination and one polling receiver promise     *)
(* together (spec.md sections 3.2, 4.3 and 8): the destination accepts the *)
(* sender's messages in the order the sender meant them, each at most once; *)
(* the receiver takes them in order and shows each one with content        *)
(* exactly as it was meant; a message it takes is lost only when that take *)
(* ends its polling (the reply never arrived); after it stops it takes     *)
(* nothing.                                                                *)
(*                                                                         *)
(* outbox: the messages the sender has still to send, in order; sent:     *)
(* every message the destination accepted; taken: how many the receiver   *)
(* took; got: what it showed; stopped: it no longer polls.                 *)
(***************************************************************************)
EXTENDS Naturals, Sequences

CONSTANTS
  Msgs,         \* the messages senders can post
  Visible(_)    \* the receiver shows m (a message with content)

VARIABLES outbox, sent, taken, got, stopped

vars == <<outbox, sent, taken, got, stopped>>

Init ==
  /\ outbox \in Seq(Msgs)
  /\ sent = <<>> /\ taken = 0 /\ got = <<>> /\ stopped = FALSE

\* The sender's next message is accepted.  The sender may also stop early:
\* nothing forces this step.
Accept ==
  /\ outbox # <<>>
  /\ sent' = Append(sent, Head(outbox)) /\ outbox' = Tail(outbox)
  /\ UNCHANGED <<taken, got, stopped>>

\* The receiver takes the next message and shows it if it has content; it
\* may stop right after (its process dies once the message is shown).
Deliver ==
  /\ ~stopped /\ taken < Len(sent)
  /\ taken' = taken + 1
  /\ got' = IF Visible(sent[taken + 1]) THEN Append(got, sent[taken + 1]) ELSE got
  /\ stopped' \in BOOLEAN
  /\ UNCHANGED <<outbox, sent>>

\* The receiver takes the next message, its reply is lost, and it stops.
Lose ==
  /\ ~stopped /\ taken < Len(sent)
  /\ taken' = taken + 1 /\ stopped' = TRUE
  /\ UNCHANGED <<outbox, sent, got>>

\* The receiver stops polling without taking anything.
Stop == ~stopped /\ stopped' = TRUE /\ UNCHANGED <<outbox, sent, taken, got>>

Next == Accept \/ Deliver \/ Lose \/ Stop

Spec == Init /\ [][Next]_vars

=============================================================================
