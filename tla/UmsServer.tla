------------------------------ MODULE UmsServer ------------------------------
(***************************************************************************)
(* The UMS gateway as the client scripts see it: the HTTP service under    *)
(* /ums that the four example scripts call.  Its code is not part of this  *)
(* repository, so this module is written from the interface the scripts   *)
(* rely on (spec.md sections 3, 4.2 and 6):                                *)
(*   login   -> a fresh session id;                                        *)
(*   send    -> the body is appended to the destination;                   *)
(*   receive -> the oldest message, or 404 when none arrives in time;      *)
(*   close   -> the session is released.                                   *)
(* Any call may instead be answered by another error status, and any call *)
(* may end without a reply (connection error, or the operator's Ctrl-C    *)
(* inside the call), in which case the server may or may not have done    *)
(* the work.  Sessions also time out on the server.                        *)
(*                                                                         *)
(* The destination is append-only (log) with a read position (head), so   *)
(* properties can speak about every message ever accepted.                 *)
(***************************************************************************)
EXTENDS Integers, Sequences, FiniteSets

CONSTANTS
  Sids,       \* session ids the server can hand out
  Empty,      \* the empty string "" as a response body or session id
  Payloads,   \* message bodies the destination can hold
  Deployments \* FALSE: nothing is deployed under /ums, every call is 404

ASSUME Empty \notin Sids \cup Payloads /\ Deployments \subseteq BOOLEAN

VARIABLES
  live,       \* sessions the server currently accepts
  issued,     \* every session id ever returned by a successful login
  log,        \* every message the destination ever accepted, in order
  head,       \* number of messages of log already handed to a receiver
  calls,      \* history: every request a client issued [who, svc, sid]
  deployed    \* the gateway web application answers under /ums

store == <<live, issued, log, head>>

serverVars == <<live, issued, log, head, calls, deployed>>

Services == {"login", "send", "receive", "close"}

\* The sid slot of a SOAP envelope that carries user and password instead
\* of a session id (buildSOAPEnvelope with sid = "").
Credentials == "user/password"

\* What doPost and doSend can get back: the HTTP status, 0 when the call
\* raised (connection error, KeyboardInterrupt) and there is no status.
NoReply == 0
Status == {200, 404, 500, NoReply}

Responses == Sids \cup Payloads \cup {Empty}

Pending == Len(log) - head

TypeOK ==
  /\ live \subseteq issued /\ issued \subseteq Sids
  /\ log \in Seq(Payloads) /\ head \in 0..Len(log)
  /\ calls \subseteq [who : STRING, svc : Services, sid : Sids \cup {Empty, Credentials}]
  /\ deployed \in BOOLEAN

Init ==
  /\ live = {} /\ issued = {}
  /\ log = <<>> /\ head = 0
  /\ calls = {}
  /\ deployed \in Deployments

\* The server can do the work of the request.
Processable(svc, sid) ==
  CASE svc = "login"   -> issued # Sids
    [] svc = "receive" -> (sid \in live \/ sid = Credentials) /\ Pending > 0
    [] OTHER           -> sid \in live \/ sid = Credentials

\* The state change of a request the server carries out, and its answer.
Effect(svc, sid, body, resp) ==
  CASE svc = "login" ->
         /\ resp \in Sids \ issued
         /\ issued' = issued \cup {resp} /\ live' = live \cup {resp}
         /\ UNCHANGED <<log, head>>
    [] svc = "send" ->
         /\ resp = Empty /\ log' = Append(log, body)
         /\ UNCHANGED <<live, issued, head>>
    [] svc = "receive" ->
         /\ resp = log[head + 1] /\ head' = head + 1
         /\ UNCHANGED <<live, issued, log>>
    [] svc = "close" ->
         /\ resp = Empty /\ live' = live \ {sid}
         /\ UNCHANGED <<issued, log, head>>

\* One HTTP exchange of client who: request (svc, sid, body) and its
\* outcome (status, resp).
Serve(who, svc, sid, body, status, resp) ==
  /\ calls' = calls \cup {[who |-> who, svc |-> svc, sid |-> sid]}
  /\ UNCHANGED deployed
  /\ \/ /\ status = 200 /\ deployed /\ Processable(svc, sid)
        /\ Effect(svc, sid, body, resp)
        \* receive timed out with nothing queued; or no UMS under /ums
     \/ /\ status = 404 /\ resp = Empty
        /\ \/ svc = "receive" /\ deployed /\ sid \in live /\ Pending = 0
           \/ ~deployed
        /\ UNCHANGED store
     \/ /\ status = 500 /\ resp = Empty
        /\ UNCHANGED store
        \* the reply is lost; the server may already have done the work
     \/ /\ status = NoReply
        /\ \/ resp = Empty /\ UNCHANGED store
           \/ deployed /\ Processable(svc, sid) /\ Effect(svc, sid, body, resp)

\* The server drops a session after its own idle timeout.
Expire ==
  /\ \E s \in live : live' = live \ {s}
  /\ UNCHANGED <<issued, log, head, calls, deployed>>

\* Another client of the same destination publishes a message.
Publish(maxMsgs) ==
  /\ deployed /\ Len(log) < maxMsgs
  /\ \E m \in Payloads : log' = Append(log, m)
  /\ UNCHANGED <<live, issued, head, calls, deployed>>

-----------------------------------------------------------------------------
(* The scripts as clients of the session protocol (UmsSession): their calls *)
(* as [svc, sid], and the phase their pc and sid stand for.                *)

CallsOf(who) == {[svc |-> c.svc, sid |-> c.sid] : c \in {c \in calls : c.who = who}}

SessionPhase(p, s) ==
  CASE p = "killed"           -> "killed"
    [] p \in {"done", "exit"} -> "end"
    [] s = Empty               -> "start"
    [] OTHER                   -> "open"

=============================================================================
