----------------------------- MODULE SendSOAPMsg -----------------------------
(***************************************************************************)
(* SendSOAPMsg.py: post count SOAP envelopes to /xml, each carrying a      *)
(* text or the -f file, then close the session if there is one.            *)
(*                                                                         *)
(* A session is only obtained when count > 1 (lines 211-224); otherwise    *)
(* the envelope carries user and password (buildSOAPEnvelope, lines        *)
(* 191-196) and there is nothing to close (line 263).  With -f, parseArgs  *)
(* forces count > 1 down to 1 (lines 109-111).                              *)
(*                                                                         *)
(* pc: "login" (lines 213-224), "send" (head of the while loop, lines      *)
(* 246-260), "close" (lines 263-270), "done", "exit" (sys.exit(1)),        *)
(* "killed" (a Ctrl-C or an IOError outside doPost's and doSend's try).    *)
(* Both doPost (lines 115-140) and doSend (lines 144-175) take only 200 as *)
(* success.  A file is [name, data]: the basename and the bytes read; on  *)
(* the wire it is [name, b64], the File element's text B64Encode(data).   *)
(***************************************************************************)
EXTENDS UmsServer, Base64

CONSTANTS
  NoIdx,      \* no "(msg#i) " prefix on the text
  Counts,     \* values of the -n flag the runs explore
  Msg,        \* the -m text
  Files,      \* files the -f flag can name, as [name, data]
  NoFile      \* no -f flag

ASSUME Counts \subseteq Int /\ NoFile \notin Files

VARIABLES pc, i, count, sid, file

vars == <<pc, i, count, sid, file, live, issued, log, head, calls, deployed>>

Self == "SendSOAPMsg"

Terminated == {"done", "exit", "killed"}

\* The message of iteration k: the file as read, or the text, prefixed
\* with "(msg#k) " when count > 1 (lines 248-249).
Message(k) ==
  IF file # NoFile THEN file
  ELSE IF count > 1 THEN [idx |-> k, text |-> Msg]
  ELSE [idx |-> NoIdx, text |-> Msg]

\* The SOAP body of iteration k as posted: a File element whose name
\* attribute is the basename and whose text is b64encode of the bytes
\* (lines 231-241), or body.text.
Body(k) ==
  IF file # NoFile THEN [name |-> file.name, b64 |-> B64Encode(file.data)]
  ELSE Message(k)

\* doPost's return code: only 200 is success.
PostOk(status) == status = 200

\* doSend's return code: only 200 is success.
SendOk(status) == status = 200

\* Mutant of Auth: the envelope is built before the login, so it carries
\* user and password even when a session was obtained.
AuthBeforeLogin(s) == Credentials

\* buildSOAPEnvelope(sid): the sid attribute if len(sid) > 0, else the
\* user and password attributes.
Auth(s) == IF s # Empty THEN s ELSE Credentials

SendTypeOK ==
  /\ TypeOK
  /\ pc \in {"login", "send", "close"} \cup Terminated
  /\ count \in Counts /\ i \in 0..(IF count > 0 THEN count ELSE 0)
  /\ sid \in Sids \cup {Empty}
  /\ file \in Files \cup {NoFile}

\* Mutant of SendInit: parseArgs does not force count to 1 with a file.
SendInitNoForce ==
  /\ Init
  /\ \E n \in Counts, f \in Files \cup {NoFile} : file = f /\ count = n
  /\ i = 0 /\ sid = Empty
  /\ pc = IF count > 1 THEN "login" ELSE "send"

\* Mutant of SendInit: the login test reads count > 2, so two messages go
\* out with user and password.
SendInitLoginOffByOne ==
  /\ Init
  /\ \E n \in Counts, f \in Files \cup {NoFile} :
       /\ file = f
       /\ count = IF n > 1 /\ f # NoFile THEN 1 ELSE n
  /\ i = 0 /\ sid = Empty
  /\ pc = IF count > 2 THEN "login" ELSE "send"

\* parseArgs, then main() up to the login: count is forced to 1 with a
\* file; the login is only attempted when count > 1.
SendInit ==
  /\ Init
  /\ \E n \in Counts, f \in Files \cup {NoFile} :
       /\ file = f
       /\ count = IF n > 1 /\ f # NoFile THEN 1 ELSE n
  /\ i = 0 /\ sid = Empty
  /\ pc = IF count > 1 THEN "login" ELSE "send"

\* (rtnCode, sid) = doPost(conn, login url, ""); exit(1) on failure.
Login ==
  /\ pc = "login"
  /\ \E st \in Status, r \in Responses :
       /\ Serve(Self, "login", Empty, Empty, st, r)
       /\ sid' = IF PostOk(st) THEN r ELSE Empty
       /\ pc' = IF PostOk(st) THEN "send" ELSE "exit"
  /\ UNCHANGED <<i, count, file>>

\* Mutant of Send: the loop runs while i <= count, one envelope too many.
SendOffByOne ==
  /\ pc = "send" /\ i <= count
  /\ \E st \in Status, r \in Responses :
       /\ Serve(Self, "send", Auth(sid), Body(i), st, r)
       /\ \/ SendOk(st) /\ i' = i + 1 /\ UNCHANGED pc
          \/ ~SendOk(st) /\ pc' = "close" /\ UNCHANGED i
  /\ UNCHANGED <<count, sid, file>>

\* Mutant of Send: a failed send exits instead of breaking to the close.
SendFailExits ==
  /\ pc = "send" /\ i < count
  /\ \E st \in Status, r \in Responses :
       /\ Serve(Self, "send", Auth(sid), Body(i), st, r)
       /\ \/ SendOk(st) /\ i' = i + 1 /\ UNCHANGED pc
          \/ ~SendOk(st) /\ pc' = "exit" /\ UNCHANGED i
  /\ UNCHANGED <<count, sid, file>>

\* One iteration of the while loop: doSend the envelope; break on
\* failure, otherwise print it and i += 1.
Send ==
  /\ pc = "send" /\ i < count
  /\ \E st \in Status, r \in Responses :
       /\ Serve(Self, "send", Auth(sid), Body(i), st, r)
       /\ \/ SendOk(st) /\ i' = i + 1 /\ UNCHANGED pc
          \/ ~SendOk(st) /\ pc' = "close" /\ UNCHANGED i
  /\ UNCHANGED <<count, sid, file>>

\* The loop condition i < count fails.
EndLoop ==
  /\ pc = "send" /\ ~(i < count)
  /\ pc' = "close"
  /\ UNCHANGED <<i, count, sid, file, serverVars>>

\* if len(sid) > 0: doPost(close&sid=sid) on a new connection.
Close ==
  /\ pc = "close" /\ sid # Empty
  /\ \E st \in Status, r \in Responses : Serve(Self, "close", sid, Empty, st, r)
  /\ pc' = "done"
  /\ UNCHANGED <<i, count, sid, file>>

\* Without a session main() returns after the loop.
NoSession ==
  /\ pc = "close" /\ sid = Empty
  /\ pc' = "done"
  /\ UNCHANGED <<i, count, sid, file, serverVars>>

\* Ctrl-C, or an IOError reading the file, outside the try blocks.
Interrupt ==
  /\ pc \in {"login", "send", "close"}
  /\ pc' = "killed"
  /\ UNCHANGED <<i, count, sid, file, serverVars>>

ServerExpire == Expire /\ UNCHANGED <<pc, i, count, sid, file>>

Program == Login \/ Send \/ EndLoop \/ Close \/ NoSession

SendNext == Program \/ Interrupt \/ ServerExpire

SendSpec == SendInit /\ [][SendNext]_vars /\ WF_vars(Program)

-----------------------------------------------------------------------------
(* Properties *)

\* The destination holds exactly the bodies of iterations 0, 1, ... in
\* order, none twice and none beyond count, a file at most once; while the
\* loop runs they are the i envelopes printed as sent, and after a failed
\* send at most one more (a send whose reply was lost).
SentInOrderAtMostOnce ==
  /\ log = [k \in 1..Len(log) |-> Body(k - 1)]
  /\ Len(log) <= count \/ Len(log) = 0
  /\ file # NoFile => Len(log) <= 1
  /\ Len(log) - i \in (IF pc \in {"login", "send"} THEN {0} ELSE {0, 1})

\* The script follows the session protocol of spec sections 4.5 and 8
\* (UmsSession): without a login, envelopes carry user and password; after
\* the one login, each carries the session id it returned, a failed login
\* ends the run, the loop ends in the close of that session, a failed send
\* included, and nothing follows the close.  Only a kill skips the close.
Session == INSTANCE UmsSession
             WITH phase <- SessionPhase(pc, sid), ssn <- sid, requested <- CallsOf(Self),
                  None <- Empty, UseSvcs <- {"send"}, Stateless <- TRUE

SessionRefined == Session!Spec

\* Each envelope authenticates the way spec section 3.4 describes: with the
\* session of the up-front login when count > 1, with user and password
\* otherwise; and only a session this run obtained is ever closed.
EnvelopeAuth ==
  \A c \in calls :
    /\ c.svc = "send" =>
         IF count > 1 THEN c.sid \in issued ELSE c.sid = Credentials
    /\ c.svc = "close" => c.sid \in issued

\* Once a login succeeded, the script eventually asks the server to close
\* that session, unless a stray Ctrl-C killed the process.
LoginLeadsToClose ==
  \A s \in Sids :
    (sid = s) ~> ([who |-> Self, svc |-> "close", sid |-> s] \in calls
                  \/ pc = "killed")

=============================================================================
