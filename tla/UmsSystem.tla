------------------------------ MODULE UmsSystem ------------------------------
(***************************************************************************)
(* SendSOAPMsg.py and ReceiveSOAPMsg.py run at the same time against one   *)
(* UMS gateway and one destination: the sender's envelopes (a text or a    *)
(* base64 file) are what the receiver takes, parses, decodes and saves.    *)
(* Each script is its own module, instantiated with its variables renamed; *)
(* the gateway's variables are shared.  A step of one script leaves the    *)
(* other's variables alone.                                                 *)
(***************************************************************************)
EXTENDS Naturals, Sequences

CONSTANTS Sids, Empty, Payloads, Deployments,
          NoIdx, Counts, Msg, Files, NoFile, PyNone, MaxTime

VARIABLES live, issued, log, head, calls, deployed,
          spc, si, scount, ssid, sfile,
          rpc, rsid, shown, saved, disk, now

serverVars == <<live, issued, log, head, calls, deployed>>
sendVars   == <<spc, si, scount, ssid, sfile>>
recvVars   == <<rpc, rsid, shown, saved, disk, now>>
vars       == <<serverVars, sendVars, recvVars>>

S == INSTANCE SendSOAPMsg WITH pc <- spc, i <- si, count <- scount, sid <- ssid, file <- sfile

\* The receiver's own publisher bound is unused: the sender is the publisher.
R == INSTANCE ReceiveSOAPMsg WITH pc <- rpc, sid <- rsid, MaxMsgs <- 0

Init == S!SendInit /\ R!RecvInit

SenderStep   == S!Program /\ UNCHANGED recvVars
ReceiverStep == R!Program /\ UNCHANGED sendVars

Next ==
  \/ SenderStep
  \/ ReceiverStep
  \/ S!Interrupt /\ UNCHANGED recvVars
  \/ R!Interrupt /\ UNCHANGED sendVars
  \/ R!Tick /\ UNCHANGED sendVars
  \/ S!ServerExpire /\ UNCHANGED recvVars

\* Each script's main() runs on without blocking (see SendSOAPMsg and
\* ReceiveSOAPMsg); Ctrl-C, the gateway's timeout and the clock need not act.
Spec == Init /\ [][Next]_vars /\ WF_vars(SenderStep) /\ WF_vars(ReceiverStep)

-----------------------------------------------------------------------------
(* Properties *)

ReceiverStopped == rpc \notin {"login", "recv"}

\* A message as the sender meant it (a file with its bytes) has content.
Visible(m) == IF R!IsFile(m) THEN m.data # <<>> ELSE m.idx # NoIdx \/ m.text # ""

\* The sender's messages of iterations Len(log), ..., count - 1: what it has
\* still to send once the destination holds Len(log) of them.
Outbox == [k \in 1..(scount - Len(log)) |-> S!Message(Len(log) + k - 1)]

\* The refinement mapping: the outbox is the sender's remaining messages;
\* what was sent is the destination log read as content (a File element's
\* text decoded); head is what the receiver took, shown what it got, and
\* it has stopped once its loop is over.
D == INSTANCE UmsDelivery WITH Msgs <- Files \cup [idx : Nat \cup {NoIdx}, text : {Msg}],
       Visible <- Visible, outbox <- Outbox,
       sent <- [k \in 1..Len(log) |-> R!Content(log[k])],
       taken <- head, got <- shown, stopped <- ReceiverStopped

\* The two scripts together implement the delivery promise of UmsDelivery:
\* the destination holds the sender's messages in the order of its loop,
\* none twice, and the receiver takes them in order and prints each text,
\* or saves each file with the name and bytes the sender read, after the
\* sender's b64encode and the receiver's b64decode, losing one only when
\* that take ends its loop.
DeliveryRefined == D!Spec

\* A message the gateway accepted from the sender is eventually taken by
\* the receiver, unless the receiver's loop has ended: a poll with a
\* message pending either takes it or fails and ends the loop.
PendingTaken ==
  \A n \in 1..3 : (Len(log) >= n) ~> (head >= n \/ ReceiverStopped)

=============================================================================
