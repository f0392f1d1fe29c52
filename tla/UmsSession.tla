----------------------------- MODULE UmsSession -----------------------------
(***************************************************************************)
(* The session protocol every script promises (spec.md sections 3, 4.5, 7 *)
(* and 8): START -> LOGIN -> {SEND* | RECEIVE*} -> LOGOUT -> END.           *)
(*                                                                         *)
(* A client logs in once; a failed login ends the run.  Each later call    *)
(* carries the session id that login returned, until the one logout; an   *)
(* error in the loop leads to the logout, not straight to the end.  A      *)
(* client that is Stateless (the SOAP sender of a single message) may      *)
(* instead call with its credentials and never log in.  The operator may   *)
(* kill the process at any point.                                          *)
(*                                                                         *)
(* phase: "start" (no session yet), "open" (holding ssn), "end" (the run   *)
(* finished), "killed"; requested: every call the client issued, as        *)
(* [svc, sid].                                                             *)
(***************************************************************************)
CONSTANTS
  Sids,         \* session ids a login can return
  None,         \* no session id
  Credentials,  \* the sid slot of a call that carries user and password
  UseSvcs,      \* the services the client's loop calls
  Stateless     \* the client may call with its credentials, without a login

VARIABLES phase, ssn, requested

vars == <<phase, ssn, requested>>

Call(svc, s) == [svc |-> svc, sid |-> s]

Init == phase = "start" /\ ssn = None /\ requested = {}

\* The login request: a session, or the run ends.
Login ==
  /\ phase = "start"
  /\ requested' = requested \cup {Call("login", None)}
  /\ \/ \E s \in Sids : phase' = "open" /\ ssn' = s
     \/ phase' = "end" /\ UNCHANGED ssn

\* The calls of the loop the client may make now: with its session, or,
\* if it is Stateless and has none, with its credentials.
Allowed ==
  {Call(svc, IF phase = "open" THEN ssn ELSE Credentials) :
     svc \in IF phase = "open" \/ (Stateless /\ phase = "start") THEN UseSvcs ELSE {}}

\* A call of the loop.
Use ==
  /\ \E c \in Allowed : requested' = requested \cup {c}
  /\ UNCHANGED <<phase, ssn>>

\* The logout, whatever its answer; the run is over.
Logout ==
  /\ phase = "open"
  /\ requested' = requested \cup {Call("close", ssn)}
  /\ phase' = "end" /\ UNCHANGED ssn

\* A client without a session ends without a logout.
Quit == Stateless /\ phase = "start" /\ phase' = "end" /\ UNCHANGED <<ssn, requested>>

\* The operator kills the process, possibly right after a call of the loop
\* returned.
Kill ==
  /\ phase \in {"start", "open"} /\ phase' = "killed"
  /\ \/ UNCHANGED requested
     \/ \E c \in Allowed : requested' = requested \cup {c}
  /\ UNCHANGED ssn

Next == Login \/ Use \/ Logout \/ Quit \/ Kill

Spec == Init /\ [][Next]_vars

=============================================================================
