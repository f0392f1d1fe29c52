------------------------------- MODULE SendMsg -------------------------------
(***************************************************************************)
(* SendMsg.py: log in, send count plain-text messages to the destination  *)
(* with service=send, then close the session on a fresh connection.       *)
(*                                                                         *)
(* pc is the point main() has reached:                                     *)
(*   "login"  before the login doPost        (lines 118-124)               *)
(*   "send"   at the head of the while loop  (lines 133-145)               *)
(*   "close"  after the loop, before close   (lines 147-156)               *)
(*   "done"   main() returned                                              *)
(*   "exit"   sys.exit(1) after a failed login                              *)
(*   "killed" a KeyboardInterrupt outside doPost's try ended the process   *)
(* doPost (lines 79-104) turns every outcome other than status 200 into    *)
(* rtnCode -1; a Ctrl-C inside it is caught there.  A Ctrl-C anywhere else *)
(* in main() is not caught.                                                *)
(***************************************************************************)
EXTENDS UmsServer

CONSTANTS
  NoIdx,      \* no "(msg#i) " prefix on the text
  Counts,     \* values of the -n flag the runs explore
  Msg         \* the -m text

ASSUME Counts \subseteq Int

\* textMsg as a message body: the "(msg#i) " index, if any, and the text.
TextMessages(maxIdx, texts) == [idx : (0..maxIdx) \cup {NoIdx}, text : texts]

VARIABLES pc, i, count, sid

vars == <<pc, i, count, sid, live, issued, log, head, calls, deployed>>

Self == "SendMsg"

\* textMsg of iteration k: "(msg#k) msg" when count > 1, else msg.
TextMsg(k) ==
  IF count > 1 THEN [idx |-> k, text |-> Msg] ELSE [idx |-> NoIdx, text |-> Msg]

\* doPost's return code: only 200 is success.
PostOk(status) == status = 200

Terminated == {"done", "exit", "killed"}

SendTypeOK ==
  /\ TypeOK
  /\ pc \in {"login", "send", "close"} \cup Terminated
  /\ count \in Counts /\ i \in 0..(IF count > 0 THEN count ELSE 0)
  /\ sid \in Sids \cup {Empty}

SendInit ==
  /\ Init
  /\ pc = "login" /\ i = 0 /\ sid = Empty
  /\ count \in Counts

\* Mutant of Login: the sys.exit(1) after a failed login is missing, so
\* the script carries on with sid = "".
LoginNoExit ==
  /\ pc = "login"
  /\ \E st \in Status, r \in Responses :
       /\ Serve(Self, "login", Empty, Empty, st, r)
       /\ sid' = IF PostOk(st) THEN r ELSE Empty
       /\ pc' = "send"
  /\ UNCHANGED <<i, count>>

\* Mutant of Login: a failed login is retried instead of ending the run.
LoginRetry ==
  /\ pc = "login"
  /\ \E st \in Status, r \in Responses :
       /\ Serve(Self, "login", Empty, Empty, st, r)
       /\ sid' = IF PostOk(st) THEN r ELSE Empty
       /\ pc' = IF PostOk(st) THEN "send" ELSE "login"
  /\ UNCHANGED <<i, count>>

\* (rtnCode, sid) = doPost(conn, login url, ""); exit(1) on failure.
Login ==
  /\ pc = "login"
  /\ \E st \in Status, r \in Responses :
       /\ Serve(Self, "login", Empty, Empty, st, r)
       /\ sid' = IF PostOk(st) THEN r ELSE Empty
       /\ pc' = IF PostOk(st) THEN "send" ELSE "exit"
  /\ UNCHANGED <<i, count>>

\* Mutant of Send: the loop runs while i <= count, one message too many.
SendOffByOne ==
  /\ pc = "send" /\ i <= count
  /\ \E st \in Status, r \in Responses :
       /\ Serve(Self, "send", sid, TextMsg(i), st, r)
       /\ \/ PostOk(st) /\ i' = i + 1 /\ UNCHANGED pc
          \/ ~PostOk(st) /\ pc' = "close" /\ UNCHANGED i
  /\ UNCHANGED <<count, sid>>

\* Mutant of Send: a failed send is retried instead of ending the loop.
SendRetry ==
  /\ pc = "send" /\ i < count
  /\ \E st \in Status, r \in Responses :
       /\ Serve(Self, "send", sid, TextMsg(i), st, r)
       /\ \/ PostOk(st) /\ i' = i + 1
          \/ ~PostOk(st) /\ UNCHANGED i
  /\ UNCHANGED <<pc, count, sid>>

\* Mutant of Send: a failed send returns from main() without the close.
SendFailReturns ==
  /\ pc = "send" /\ i < count
  /\ \E st \in Status, r \in Responses :
       /\ Serve(Self, "send", sid, TextMsg(i), st, r)
       /\ \/ PostOk(st) /\ i' = i + 1 /\ UNCHANGED pc
          \/ ~PostOk(st) /\ pc' = "done" /\ UNCHANGED i
  /\ UNCHANGED <<count, sid>>

\* One iteration of the while loop: post textMsg; break on failure,
\* otherwise print it and i += 1.
Send ==
  /\ pc = "send" /\ i < count
  /\ \E st \in Status, r \in Responses :
       /\ Serve(Self, "send", sid, TextMsg(i), st, r)
       /\ \/ PostOk(st) /\ i' = i + 1 /\ UNCHANGED pc
          \/ ~PostOk(st) /\ pc' = "close" /\ UNCHANGED i
  /\ UNCHANGED <<count, sid>>

\* The loop condition i < count fails.
EndLoop ==
  /\ pc = "send" /\ ~(i < count)
  /\ pc' = "close"
  /\ UNCHANGED <<i, count, sid, serverVars>>

\* New connection, doPost(close&sid=sid); its result is ignored.
Close ==
  /\ pc = "close"
  /\ \E st \in Status, r \in Responses : Serve(Self, "close", sid, Empty, st, r)
  /\ pc' = "done"
  /\ UNCHANGED <<i, count, sid>>

\* Ctrl-C while main() is outside doPost's try: the exception escapes.
Interrupt ==
  /\ pc \in {"login", "send", "close"}
  /\ pc' = "killed"
  /\ UNCHANGED <<i, count, sid, serverVars>>

ServerExpire == Expire /\ UNCHANGED <<pc, i, count, sid>>

Program == Login \/ Send \/ EndLoop \/ Close

SendNext == Program \/ Interrupt \/ ServerExpire

\* main() runs without pausing: each HTTP call returns or raises.  The
\* operator's Ctrl-C and the server's session timeout need not happen.
SendSpec == SendInit /\ [][SendNext]_vars /\ WF_vars(Program)

-----------------------------------------------------------------------------
(* Properties *)

\* The messages the destination accepted from this run are exactly
\* textMsg(0), textMsg(1), ... in order, none twice and none beyond count;
\* while the loop runs they are exactly the i messages printed as sent, and
\* after a failed send at most one more (a send whose reply was lost).
SentInOrderAtMostOnce ==
  /\ log = [k \in 1..Len(log) |-> TextMsg(k - 1)]
  /\ Len(log) <= count \/ Len(log) = 0
  /\ Len(log) - i \in (IF pc \in {"login", "send"} THEN {0} ELSE {0, 1})

\* The script follows the session protocol of spec sections 4.5 and 8
\* (UmsSession): one login before anything else, a failed login ends the
\* run; each send carries the session id that this login returned; the
\* send loop ends in the close of that session, a failed send included;
\* no call after the close.  Only a kill of the process skips the close.
Session == INSTANCE UmsSession
             WITH phase <- SessionPhase(pc, sid), ssn <- sid, requested <- CallsOf(Self),
                  None <- Empty, UseSvcs <- {"send"}, Stateless <- FALSE

SessionRefined == Session!Spec

\* Once a login succeeded, the script eventually asks the server to close
\* that session, unless a stray Ctrl-C killed the process.
LoginLeadsToClose ==
  \A s \in Sids :
    (sid = s) ~> ([who |-> Self, svc |-> "close", sid |-> s] \in calls
                  \/ pc = "killed")

\* Every session the gateway created for this run is the one the script
\* holds and will close, except after a login whose reply was lost after
\* the gateway created the session: that run ends in exit(1), leaving the
\* one session it never learned of to the server's timeout.
OnlyLostLoginOrphaned ==
  \A s \in issued : s = sid \/ pc = "exit"

=============================================================================
