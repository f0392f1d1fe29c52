------------------------------ MODULE ReceiveMsg ------------------------------
(***************************************************************************)
(* ReceiveMsg.py: log in, then poll service=receive until a call fails,   *)
(* then close the session on a fresh connection.                           *)
(*                                                                         *)
(* pc is the point main() has reached:                                     *)
(*   "login"  before the login doPost          (lines 114-120)             *)
(*   "recv"   at the head of the while 1 loop  (lines 129-138)             *)
(*   "close"  after the loop, before close     (lines 140-149)             *)
(*   "done", "exit" (sys.exit(1)), "killed" (uncaught Ctrl-C)              *)
(* This script's doPost (lines 72-100) treats status 404 like 200 with an *)
(* empty body, for every call, the login included.                         *)
(* shown is what the loop printed as "Received msg: ...", in order.        *)
(***************************************************************************)
EXTENDS UmsServer

CONSTANTS
  NoIdx,      \* a text without the "(msg#i) " prefix
  MaxMsgs     \* bound on the messages other clients publish

ASSUME MaxMsgs \in Nat

VARIABLES pc, sid, shown

vars == <<pc, sid, shown, live, issued, log, head, calls, deployed>>

Self == "ReceiveMsg"

\* doPost's return code: 200, and 404 read as an empty body, are success.
PostOk(status) == status \in {200, 404}

Terminated == {"done", "exit", "killed"}

\* len(respMsg) > 0: a body other than "" (404 and empty texts).
NonEmpty(m) == m # Empty /\ (m.idx # NoIdx \/ m.text # "")

RecvTypeOK ==
  /\ TypeOK
  /\ pc \in {"login", "recv", "close"} \cup Terminated
  /\ sid \in Sids \cup {Empty}
  /\ shown \in Seq(Payloads)

RecvInit ==
  /\ Init
  /\ pc = "login" /\ sid = Empty /\ shown = <<>>

\* (rtnCode, sid) = doPost(conn, login url, ""); exit(1) on failure.  A
\* 404 leaves rtnCode 0 and sid = "".
Login ==
  /\ pc = "login"
  /\ \E st \in Status, r \in Responses :
       /\ Serve(Self, "login", Empty, Empty, st, r)
       /\ sid' = IF PostOk(st) THEN r ELSE Empty
       /\ pc' = IF PostOk(st) THEN "recv" ELSE "exit"
  /\ UNCHANGED shown

\* Mutant of Receive: a failed receive is retried instead of ending the
\* loop.
ReceiveRetry ==
  /\ pc = "recv"
  /\ \E st \in Status, r \in Responses :
       /\ Serve(Self, "receive", sid, Empty, st, r)
       /\ shown' = IF PostOk(st) /\ NonEmpty(r) THEN Append(shown, r) ELSE shown
  /\ UNCHANGED <<pc, sid>>

\* Mutant of Receive: the len(respMsg) > 0 test is missing, so the empty
\* body of a 404 is printed as a message.
ReceivePrintsEmpty ==
  /\ pc = "recv"
  /\ \E st \in Status, r \in Responses :
       /\ Serve(Self, "receive", sid, Empty, st, r)
       /\ \/ PostOk(st) /\ shown' = Append(shown, r) /\ UNCHANGED pc
          \/ ~PostOk(st) /\ pc' = "close" /\ UNCHANGED shown
  /\ UNCHANGED sid

\* One iteration of while 1: break on failure, print a non-empty body.  A
\* Ctrl-C after doPost returned a message and before the print (lines
\* 132-138, outside the try) ends the process with that message taken.
Receive ==
  /\ pc = "recv"
  /\ \E st \in Status, r \in Responses :
       /\ Serve(Self, "receive", sid, Empty, st, r)
       /\ \/ /\ PostOk(st)
             /\ shown' = IF NonEmpty(r) THEN Append(shown, r) ELSE shown
             /\ UNCHANGED pc
          \/ st = 200 /\ pc' = "killed" /\ UNCHANGED shown
          \/ ~PostOk(st) /\ pc' = "close" /\ UNCHANGED shown
  /\ UNCHANGED sid

\* New connection, doPost(close&sid=sid); its result is ignored.
Close ==
  /\ pc = "close"
  /\ \E st \in Status, r \in Responses : Serve(Self, "close", sid, Empty, st, r)
  /\ pc' = "done"
  /\ UNCHANGED <<sid, shown>>

\* Ctrl-C while main() is outside doPost's try: the exception escapes.
Interrupt ==
  /\ pc \in {"login", "recv", "close"}
  /\ pc' = "killed"
  /\ UNCHANGED <<sid, shown, serverVars>>

ServerExpire == Expire /\ UNCHANGED <<pc, sid, shown>>

OtherSender == Publish(MaxMsgs) /\ UNCHANGED <<pc, sid, shown>>

Program == Login \/ Receive \/ Close

RecvNext == Program \/ Interrupt \/ ServerExpire \/ OtherSender

RecvSpec == RecvInit /\ [][RecvNext]_vars /\ WF_vars(Program)

-----------------------------------------------------------------------------
(* Properties *)

\* Every message the script took off the destination was printed, once,
\* in destination order, except empty ones, and except the last one taken
\* when its reply was lost, which can only have ended the loop.
ReceivedAllConsumed ==
  LET Printable(s) == SelectSeq(s, NonEmpty)
  IN  \/ shown = Printable(SubSeq(log, 1, head))
      \/ /\ pc \notin {"login", "recv"} /\ head > 0
         /\ shown = Printable(SubSeq(log, 1, head - 1))

\* The script follows the session protocol of spec sections 4.5 and 8
\* (UmsSession): one login before anything else, a failed login ends the
\* run; each receive carries the session id that this login returned; the
\* receive loop ends in the close of that session, a failed receive included;
\* no call after the close.  Only a kill of the process skips the close.
Session == INSTANCE UmsSession
             WITH phase <- SessionPhase(pc, sid), ssn <- sid, requested <- CallsOf(Self),
                  None <- Empty, UseSvcs <- {"receive"}, Stateless <- FALSE

SessionRefined == Session!Spec

\* A message another client put on the destination is eventually taken by
\* the receive loop, unless the loop has ended (spec section 4.4): a poll
\* with a message pending either takes it or fails and ends the loop.
PendingTaken ==
  \A n \in 1..MaxMsgs : (Len(log) >= n) ~> (head >= n \/ pc \notin {"login", "recv"})

\* Once the script has ended after a successful login, it has asked the
\* server to close that session (spec sections 4.4, 5 and 8: the receive
\* loop ends on failure or interruption and always attempts logout).
EndedSessionClosed ==
  \A s \in Sids :
    pc \in Terminated /\ sid = s =>
      [who |-> Self, svc |-> "close", sid |-> s] \in calls

=============================================================================
