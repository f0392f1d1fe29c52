---------------------------- MODULE ReceiveSOAPMsg ----------------------------
(***************************************************************************)
(* ReceiveSOAPMsg.py: log in over /simple, then post a receive envelope   *)
(* to /xml until a call fails, printing text messages and saving file     *)
(* messages as <name>_<seconds><ext>; then close the session.             *)
(*                                                                         *)
(* pc: "login" (lines 199-208), "recv" (head of while 1, lines 216-252),  *)
(* "close" (lines 255-262), "done", "exit" (sys.exit(1)), "killed"        *)
(* (a Ctrl-C outside doPost's and doSend's try).  Login and close use     *)
(* doPost (lines 99-124), where only 200 is success; receive uses doSend  *)
(* (lines 128-162), where 404 is success with an empty body.              *)
(*                                                                         *)
(* A destination message is a text [idx, text] ("(msg#idx) text", or just *)
(* text when idx = NoIdx) or a File element [name, b64], b64 being the    *)
(* base64 text of the file's bytes as the sender encoded it.              *)
(* shown: what the loop printed or saved, in order, a file as [name, data] *)
(* with its decoded bytes; saved: the files it                            *)
(* wrote, <<file name, bytes>>; disk: the working directory; now: the     *)
(* value of long(time.time()).                                             *)
(***************************************************************************)
EXTENDS UmsServer, Base64, TLC

CONSTANTS
  NoIdx,      \* a text without the "(msg#i) " prefix
  PyNone,     \* Python's None: the text of an element with no text
  MaxMsgs,    \* bound on the messages other clients publish
  MaxTime     \* bound on the clock, in seconds

VARIABLES pc, sid, shown, saved, disk, now

vars == <<pc, sid, shown, saved, disk, now, live, issued, log, head, calls, deployed>>

Self == "ReceiveSOAPMsg"

Terminated == {"done", "exit", "killed"}

IsFile(m) == "name" \in DOMAIN m

-----------------------------------------------------------------------------
(* The reply envelope.  The gateway answers a receive with the message in *)
(* the SOAP body: a text as the Body's text, a file as a File child of the *)
(* Body carrying the sender's base64 text (spec section 4.3).              *)
(* ElementTree reads an element without text as None.                     *)

BodyText(m) == IF m.idx = NoIdx /\ m.text = "" THEN PyNone ELSE m

FileText(m) == IF m.b64 = <<>> THEN PyNone ELSE m.b64

\* root.getiterator(): every element of the reply, in document order.
ReplyElements(m) ==
  << [tag |-> "Envelope", text |-> PyNone], [tag |-> "Header", text |-> PyNone] >>
  \o IF IsFile(m)
     THEN << [tag |-> "Body", text |-> PyNone],
             [tag |-> "File", text |-> FileText(m), name |-> m.name] >>
     ELSE << [tag |-> "Body", text |-> BodyText(m)] >>

\* e.text != "None": the text compared with the four-character string.
TextIsNoneString(e) ==
  IF e.tag = "File" THEN e.text = NoneChars
  ELSE e.text # PyNone /\ e.text.idx = NoIdx /\ e.text.text = "None"

\* Mutant of ScanStep: the File branch does not take the name attribute.
ScanStepNoName(acc, e) ==
  CASE e.tag = "Body" /\ ~TextIsNoneString(e) -> [acc EXCEPT !.msg = e.text]
    [] e.tag = "File" /\ ~TextIsNoneString(e) -> [acc EXCEPT !.msg = e.text]
    [] OTHER -> acc

\* One pass of the for loop over the elements (lines 227-232).
ScanStep(acc, e) ==
  CASE e.tag = "Body" /\ ~TextIsNoneString(e) -> [acc EXCEPT !.msg = e.text]
    [] e.tag = "File" /\ ~TextIsNoneString(e) -> [file |-> e.name, msg |-> e.text]
    [] OTHER -> acc

\* fileNameAttr and msg after the loop; both start as "".
Scan(m) == FoldLeft(ScanStep, [file |-> Empty, msg |-> Empty], ReplyElements(m))

-----------------------------------------------------------------------------

\* doPost's return code: only 200 is success.
PostOk(status) == status = 200

\* doSend's return code: 200, and 404 read as an empty reply, are success.
SendOk(status) == status \in {200, 404}

\* buildSOAPEnvelope(sid): the sid attribute if len(sid) > 0, else the
\* user and password attributes.
Auth(s) == IF s # Empty THEN s ELSE Credentials

\* A destination message as the script shows it: a file with the bytes
\* b64decode gives back (line 242), a text as it is.
Content(m) == IF IsFile(m) THEN [name |-> m.name, data |-> B64Decode(m.b64)] ELSE m

RecvTypeOK ==
  /\ TypeOK
  /\ pc \in {"login", "recv", "close"} \cup Terminated
  /\ sid \in Sids \cup {Empty}
  /\ shown \in Seq({Content(m) : m \in Payloads})
  /\ now \in 0..MaxTime

RecvInit ==
  /\ Init
  /\ pc = "login" /\ sid = Empty
  /\ shown = <<>> /\ saved = <<>> /\ disk = <<>> /\ now = 0

\* Mutant of Login: doPost also takes 404 as success, as ReceiveMsg.py's
\* does, leaving sid = "".
LoginAccept404 ==
  /\ pc = "login"
  /\ \E st \in Status, r \in Responses :
       /\ Serve(Self, "login", Empty, Empty, st, r)
       /\ sid' = IF st \in {200, 404} THEN r ELSE Empty
       /\ pc' = IF st \in {200, 404} THEN "recv" ELSE "exit"
  /\ UNCHANGED <<shown, saved, disk, now>>

\* (rtnCode, sid) = doPost(conn, login url, ""); exit(1) on failure.
Login ==
  /\ pc = "login"
  /\ \E st \in Status, r \in Responses :
       /\ Serve(Self, "login", Empty, Empty, st, r)
       /\ sid' = IF PostOk(st) THEN r ELSE Empty
       /\ pc' = IF PostOk(st) THEN "recv" ELSE "exit"
  /\ UNCHANGED <<shown, saved, disk, now>>

\* Mutant of Handle: the len(msg) > 0 test is missing, so an element
\* without text is printed as None.
HandlePrintsNone(m) ==
  LET res == Scan(m)
  IN  \/ /\ res.msg = Empty
         /\ UNCHANGED <<shown, saved, disk>>
      \/ /\ res.msg \notin {PyNone, Empty} /\ res.file # Empty
         /\ LET data == B64Decode(res.msg)
                fileName == <<res.file, now>>
            IN  /\ shown' = Append(shown, [name |-> res.file, data |-> data])
                /\ saved' = Append(saved, <<fileName, data>>)
                /\ disk' = (fileName :> data) @@ disk
      \/ /\ res.msg # Empty /\ (res.file = Empty \/ res.msg = PyNone)
         /\ shown' = Append(shown, res.msg)
         /\ UNCHANGED <<saved, disk>>

\* What the loop body does with a 200 reply carrying message m.
Handle(m) ==
  LET res == Scan(m)
  IN  \/ /\ res.msg \in {PyNone, Empty}
         /\ UNCHANGED <<shown, saved, disk>>
         \* a file: decode and write <file>_<seconds><ext>
      \/ /\ res.msg \notin {PyNone, Empty} /\ res.file # Empty
         /\ LET data == B64Decode(res.msg)
                fileName == <<res.file, now>>
            IN  /\ shown' = Append(shown, [name |-> res.file, data |-> data])
                /\ saved' = Append(saved, <<fileName, data>>)
                /\ disk' = (fileName :> data) @@ disk
         \* a text: print it
      \/ /\ res.msg \notin {PyNone, Empty} /\ res.file = Empty
         /\ shown' = Append(shown, res.msg)
         /\ UNCHANGED <<saved, disk>>

\* A Ctrl-C, or open() raising, while a file message is being saved.  The
\* "Received:" line is printed (lines 243-245), then "Saved File As"
\* (line 246), then open(fileName, "wb") creates the file empty and
\* write(data) fills it (lines 247-248).  The process dies between the two
\* prints, or before the open, leaving the disk as it was, or between the
\* open and the write, leaving an empty file under the reported name.
SaveInterrupted(m) ==
  LET res == Scan(m)
      data == B64Decode(res.msg)
      fileName == <<res.file, now>>
  IN  /\ res.msg \notin {PyNone, Empty} /\ res.file # Empty
      /\ shown' = Append(shown, [name |-> res.file, data |-> data])
      /\ \/ UNCHANGED <<saved, disk>>
         \/ /\ saved' = Append(saved, <<fileName, data>>)
            /\ disk' \in {disk, (fileName :> <<>>) @@ disk}

\* Mutant of Receive: a failed doSend does not break the loop, which
\* polls on.
ReceivePollsOnFailure ==
  /\ pc = "recv"
  /\ \E st \in Status, r \in Responses :
       /\ Serve(Self, "receive", Auth(sid), Empty, st, r)
       /\ \/ SendOk(st) /\ r = Empty /\ UNCHANGED <<pc, shown, saved, disk>>
          \/ SendOk(st) /\ r # Empty /\ Handle(r) /\ UNCHANGED pc
          \/ SendOk(st) /\ r # Empty /\ pc' = "killed" /\ UNCHANGED <<shown, saved, disk>>
          \/ ~SendOk(st) /\ UNCHANGED <<pc, shown, saved, disk>>
  /\ UNCHANGED <<sid, now>>

\* One iteration of while 1: doSend the envelope built once from sid,
\* break on failure, handle a non-empty reply.  Ctrl-C, or etree.XML,
\* b64decode or open raising, after doSend returned a message and before
\* it was printed or saved (lines 219-249, outside the try) ends the
\* process with that message taken.
Receive ==
  /\ pc = "recv"
  /\ \E st \in Status, r \in Responses :
       /\ Serve(Self, "receive", Auth(sid), Empty, st, r)
       /\ \/ SendOk(st) /\ r = Empty /\ UNCHANGED <<pc, shown, saved, disk>>
          \/ SendOk(st) /\ r # Empty /\ Handle(r) /\ UNCHANGED pc
          \/ SendOk(st) /\ r # Empty /\ pc' = "killed" /\ UNCHANGED <<shown, saved, disk>>
          \/ SendOk(st) /\ r # Empty /\ pc' = "killed" /\ SaveInterrupted(r)
          \/ ~SendOk(st) /\ pc' = "close" /\ UNCHANGED <<shown, saved, disk>>
  /\ UNCHANGED <<sid, now>>

\* if len(sid) > 0: doPost(close&sid=sid) on a new connection.  After a
\* successful login sid is the server's non-empty id.
Close ==
  /\ pc = "close" /\ sid # Empty
  /\ \E st \in Status, r \in Responses : Serve(Self, "close", sid, Empty, st, r)
  /\ pc' = "done"
  /\ UNCHANGED <<sid, shown, saved, disk, now>>

\* Ctrl-C (or any exception) while main() is outside the try blocks.
Interrupt ==
  /\ pc \in {"login", "recv", "close"}
  /\ pc' = "killed"
  /\ UNCHANGED <<sid, shown, saved, disk, now, serverVars>>

\* Wall-clock time advances by a second.
Tick ==
  /\ now < MaxTime /\ now' = now + 1
  /\ UNCHANGED <<pc, sid, shown, saved, disk, serverVars>>

ServerExpire == Expire /\ UNCHANGED <<pc, sid, shown, saved, disk, now>>

OtherSender == Publish(MaxMsgs) /\ UNCHANGED <<pc, sid, shown, saved, disk, now>>

Program == Login \/ Receive \/ Close

RecvNext == Program \/ Interrupt \/ Tick \/ ServerExpire \/ OtherSender

RecvSpec == RecvInit /\ [][RecvNext]_vars /\ WF_vars(Program)

-----------------------------------------------------------------------------
(* Properties *)

\* A destination message with something to show: a non-empty text or a
\* File element with text.
HasContent(m) == IF IsFile(m) THEN m.b64 # <<>> ELSE m.idx # NoIdx \/ m.text # ""

\* Every message the script took off the destination with content was
\* printed (a text) or saved with its original name and bytes (a file),
\* once and in destination order; only the last one taken can be missing,
\* when its reply was lost, which ended the loop (spec section 4.3).
ReceivedAllConsumed ==
  LET Expected(s) == LET v == SelectSeq(s, HasContent)
                     IN  [k \in 1..Len(v) |-> Content(v[k])]
  IN  \/ shown = Expected(SubSeq(log, 1, head))
      \/ /\ pc \notin {"login", "recv"} /\ head > 0
         /\ shown = Expected(SubSeq(log, 1, head - 1))

\* The script follows the session protocol of spec sections 4.5 and 8
\* (UmsSession): one login before anything else, a failed login ends the
\* run; each receive carries the session id that this login returned; the
\* receive loop ends in the close of that session, a failed receive included;
\* no call after the close.  Only a kill of the process skips the close.
Session == INSTANCE UmsSession
             WITH phase <- SessionPhase(pc, sid), ssn <- sid, requested <- CallsOf(Self),
                  None <- Empty, UseSvcs <- {"receive"}, Stateless <- FALSE

SessionRefined == Session!Spec

\* Every file the script reported ("Saved File As") is on disk under that
\* name with the bytes it received; only the name of the last one reported
\* may be missing or empty, when the process died while saving it.
FilesKept ==
  \A k \in 1..Len(saved) :
    \/ saved[k][1] \in DOMAIN disk /\ disk[saved[k][1]] = saved[k][2]
    \/ pc = "killed" /\ saved[k][1] = saved[Len(saved)][1]

=============================================================================
