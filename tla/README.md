# TLA+ models of the UMS Python example clients

These modules model the four Python clients of the OpenMQ UMS (Universal
Messaging Service) HTTP gateway, which live in
`src/mq/src/share/java/examples/ums/python/`:

| script | does |
|---|---|
| `SendMsg.py` | `/simple` login, send `count` texts, close |
| `ReceiveMsg.py` | `/simple` login, receive until a call fails, close |
| `SendSOAPMsg.py` | login only if `count > 1`; post SOAP envelopes (a text or one base64 file) to `/xml`; close if there is a session |
| `ReceiveSOAPMsg.py` | `/simple` login; post receive envelopes to `/xml`; print texts, decode files and save them as `<name>_<seconds><ext>`; close |

Each script is one sequential process. Concurrency comes from elsewhere:
- the gateway, which can fail, lose replies and expire sessions;
- other clients of the same destination;
- the operator's Ctrl-C, which can strike inside or outside the `try` blocks.

## Inventory

**Gateway (`UmsServer`).** Its code is not in this repository, so it is
modelled from `spec.md` sections 3, 4 and 6. The state is:
- `live` and `issued`: sessions;
- `log`: the append-only destination;
- `head`: how much of the destination has been handed out;
- `calls`: the history of requests, as `[who, svc, sid]`;
- `deployed`: whether anything answers under `/ums`.

One exchange, `Serve`, ends in one of these ways:
- 200 after the service's effect;
- 404, when a receive times out or nothing is deployed;
- 500, with no effect;
- `NoReply`: a connection error or a Ctrl-C inside the call. The effect may or may not have happened.

The gateway also has two environment actions: `Expire` (its session timeout) and `Publish` (another sender). A SOAP
envelope without a sid authenticates with user and password
(`Credentials`).

**Clients.** Each client module's variable `pc` is the point `main()` has reached. The module header
gives the source lines of each value. The client actions are:
- `Login`, `Send`/`Receive` and `Close`, one per HTTP call site, each including the script's handling of the result;
- `EndLoop`, the loop test;
- `NoSession`, SOAP only: the `len(sid) > 0` test;
- `Interrupt`, an exception escaping `main()`.

In the receivers, `Receive` also has the outcome where a Ctrl-C (or, in
`ReceiveSOAPMsg`, `etree.XML`, `b64decode` or `open` raising) strikes after
the call returned a message and before it was printed or saved. Those lines
are outside the `try`, so the process dies with the message already taken.
For a file, `SaveInterrupted` is the same death after the "Received:" line
was printed (lines 243-245). The process dies at one of three points:
- before "Saved File As" (line 246);
- after it and before `open(fileName, "wb")`, so no file is written;
- between the `open` and the `write`, which leaves an empty file under the
  reported name.

Data is abstracted:
- A text is `[idx, text]`, where `idx` is the `(msg#i) ` prefix or `NoIdx`.
- A file the sender reads is `[name, data]`, with `data` a byte sequence.
  On the destination it is the File element `[name, b64]`: the sender's
  `Body` applies `B64Encode` (line 233), and the receiver's `Content`
  applies `B64Decode` (line 242).
- A session id is a model value.
- `Empty` is `""`; `PyNone` is Python's `None`.

**Base64 (`Base64`).** `b64encode` and `b64decode` are modelled as recursive
operators on character indices 0..63, with `Pad` standing for `=`. They are
library calls, so they are not checked on their own. They are there so that
the SOAP file round trip through both scripts can be checked
(`DeliveryRefined`).

**SOAP reply parsing (`ReceiveSOAPMsg`).** `ReplyElements` is the element
list `root.getiterator()` yields for a reply. `ScanStep`/`Scan` are the
`for` loop with its two `!= "None"` tests, and `Handle` is the rest of the
loop body: the test on line 236, the file name, the decode, the write and the print.

**Command line (`ParseArgs`).** All four `parseArgs` share one operator,
`ParseArgs(spec, argv)`, given each script's getopt spec (`SendMsgOpts`,
...). It has three parts:
- `Getopt` is `getopt.getopt`: options up to `--` or the first non-option word; an
  unknown letter or a missing argument is an error.
- `OptStep` is one pass of the `for` loop, where `int()` of a bad `-n` raises.
- The host check and the count forcing follow the loop.

The outcome is one of:
- usage and exit;
- a crash, from the uncaught ValueError;
- the globals `main()` uses.

`SpecOutcome` is the reference: spec sections 3 and 6 stated declaratively on
getopt's option list.

**End to end (`UmsSystem`, `UmsDelivery`).** `UmsSystem` runs
`SendSOAPMsg` and `ReceiveSOAPMsg` together over one gateway. Each is an
`INSTANCE ... WITH` that renames the script's variables, and the gateway's
variables are shared. `UmsDelivery` is the abstract promise of one sender,
a destination and one polling receiver:
- the destination accepts the sender's messages in the order the sender
  meant them, none twice (the sender may stop early);
- the receiver takes them in order;
- each message with content is shown as sent;
- a taken message is lost only by the take that ends the polling;
- the receiver may stop right after showing a message (its process dies);
- nothing is taken after the receiver stops.

The refinement mapping is:
- `outbox` ↦ the sender's `Message`s of iterations `Len(log)` to
  `count - 1`;
- `sent` ↦ `log`, with each File element read as its decoded content;
- `taken` ↦ `head`;
- `got` ↦ the receiver's `shown`;
- `stopped` ↦ the receiver's loop is over.

`Accept` must append the head of the outbox, so a sender that resent,
skipped or reordered a message, or whose encoding did not decode back to
the file's bytes, fails the refinement. `shown` holds the bytes the receiver
decoded, so the refinement checks the base64 round trip from the sender's
`b64encode` to the receiver's `b64decode`.

**Session protocol (`UmsSession`).** This is the state machine spec §4.5
gives for all four scripts: `START → LOGIN → {SEND* | RECEIVE*} → LOGOUT →
END`. Its state is:
- `phase`: `"start"`, `"open"`, `"end"` or `"killed"`;
- `ssn`: the session id login returned;
- `requested`: the client's calls, as `[svc, sid]`.

The rules are:
- one login, and a failed login ends the run;
- every loop call carries `ssn`;
- the loop ends in one logout, after an error too;
- nothing comes after the logout.

A `Stateless` client (the SOAP sender with `count <= 1`) may instead call
with user and password and end without a logout. The operator may kill the
process at any point, also right after a loop call returned.

Each client module maps onto it with `Session == INSTANCE UmsSession WITH
...`:
- `phase` ↦ `SessionPhase(pc, sid)`: `killed`; `done`/`exit` are `"end"`;
  otherwise `"start"` without a sid and `"open"` with one;
- `ssn` ↦ `sid`;
- `requested` ↦ `CallsOf(Self)`.

`SessionRefined == Session!Spec` is checked as a `PROPERTY`. Because
`calls` is a set, a call equal to an earlier one is a stuttering step of the
abstract spec. The refinement therefore checks which calls appear in each
phase and the order of the phases, not how often a call repeats.

## Modules and runs

| module | models | cfg | expect | distinct states |
|---|---|---|---|---|
| `UmsServer` | gateway (from spec) | — | — | — |
| `UmsSession` | session protocol of spec §4.5 (abstract) | — | — | — |
| `SendMsg`, `MC_SendMsg` | SendMsg.py | `MC_SendMsg.cfg` | pass | 284 |
| `ReceiveMsg`, `MC_ReceiveMsg` | ReceiveMsg.py | `MC_ReceiveMsg.cfg` | pass | 8344 |
| | | `MC_ReceiveMsg_Session.cfg` | violation | |
| | | `MC_ReceiveMsg_Interrupt.cfg` | violation | |
| `SendSOAPMsg`, `MC_SendSOAPMsg` | SendSOAPMsg.py | `MC_SendSOAPMsg.cfg` | pass | 250 |
| `ReceiveSOAPMsg`, `MC_ReceiveSOAPMsg` | ReceiveSOAPMsg.py | `MC_ReceiveSOAPMsg.cfg` | pass | 5124 |
| | | `MC_ReceiveSOAPMsg_NoneText.cfg` | violation | |
| | | `MC_ReceiveSOAPMsg_Overwrite.cfg` | violation | |
| `Base64` | b64encode/b64decode, used by the SOAP modules | — | — | — |
| `UmsSystem`, `MC_UmsSystem`, `UmsDelivery` | both SOAP scripts together | `MC_UmsSystem.cfg` | pass | 18306 |
| `ParseArgs`, `MC_ParseArgs` | parseArgs of all four | `MC_ParseArgs.cfg` | pass | 1111111 |
| | | `MC_ParseArgs_Malformed.cfg` | violation | |

Run one with `tlc -workers 2 -config MC_SendMsg.cfg MC_SendMsg`.

### What the passing runs show

- **SentInOrderAtMostOnce** (both senders): what the destination holds is
  exactly the bodies of iterations 0, 1, … in order. No message appears twice or beyond
  `count`, and a file appears at most once. While the loop runs, the destination holds exactly the messages
  printed as sent; once it has ended, it may hold one more, from a send whose reply was
  lost. This is what survives lost replies, 500s and session expiry in
  the middle of the loop.
- **ReceivedAllConsumed** (both receivers): every message taken off the
  destination that has content is printed, or for a file saved with its original
  name and bytes. Each appears once and in destination order. Only the last message taken can be
  missing, and only once the loop has ended: it is the one whose reply was lost.
- **SessionRefined** (`SendMsg`, `SendSOAPMsg`, `ReceiveSOAPMsg`): the
  script implements `UmsSession!Spec`. It logs in once, before anything else,
  and exits if that fails. Each loop call carries the sid that this login
  returned. Every way out of the loop, a failed call included, leads to the
  close of that session, and nothing follows the close. Only a kill skips the
  close. This holds through lost replies, 500s, expiry and Ctrl-C inside the
  calls.
- **EnvelopeAuth** (`SendSOAPMsg`): the SOAP sender uses the session
  exactly when `count > 1`, and user and password otherwise.
- **OnlyLostLoginOrphaned** (`SendMsg`): every session the gateway created
  for the run is the one the script holds and closes, except after a login
  whose reply was lost after the gateway created the session
  (`SendMsg.py:121`). That run ends in `exit(1)`, and the gateway's timeout
  reclaims the one session the script never learned of. A login retried on
  failure would leave more sessions behind, and that mutant is caught.
- **LoginLeadsToClose** (liveness, both senders): a session the script
  obtained is eventually closed unless the process is killed.
- **DeliveryRefined** (`UmsSystem`): the two SOAP scripts together
  implement `UmsDelivery!Spec`. The destination holds the sender's
  messages in loop order, none twice. The receiver shows each text and saves
  each file with the name and bytes the sender read. This holds whatever the
  interleaving of the sender's sends with the receiver's polls, lost
  replies, expired sessions and Ctrl-C.
- **PendingTaken** (`UmsSystem`, and `ReceiveMsg` with other publishers;
  liveness): a message the gateway accepted is eventually taken, unless the
  receiver's loop has ended.
- **ParsedAsSpecified**: whenever `parseArgs` does not crash, it does what
  the spec says, for every order of flags:
  - usage on `-h`, on a missing or empty host, and on getopt errors;
  - each flag's last value;
  - `-q`/`-t` last-wins;
  - a count of 1 with a file.

Every property of a passing run has a mutant in its module, named as a plausible
bug:
- an off-by-one loop bound;
- a retry of a failed send or receive;
- the login test off by one (`count > 2`);
- a missing `sys.exit`;
- a failed login retried instead of `sys.exit`;
- a missing `len(...) > 0` test;
- a missing `name` attribute;
- an envelope built before the login;
- a missing `count = 1` forcing;
- over-padding in the sender's encoder;
- a receive loop that polls on after failures;
- the count check moved before the option loop.

Under the run's cfg, TLC finds each mutant's property violated.

### What the violation runs show (findings)

1. `MC_ReceiveMsg_Session`: `ReceiveMsg.py`'s `doPost` treats 404 as
   success for the login too. Against an undeployed gateway, the script
   polls receive with `sid=""` forever (line 87). TLC reports the login step
   itself as outside `UmsSession`: the login did not yield a session, and
   the run goes on.
2. `MC_ReceiveMsg_Interrupt`: a Ctrl-C outside `doPost`'s `try` kills the
   script without the logout that spec §4.4/§8 promises (lines 132-138).
3. `MC_ReceiveSOAPMsg_NoneText`: `e.text != "None"` (lines 228/230)
   compares with a string where `None` was meant. A text `"None"`, or a file whose
   base64 is `"None"` (bytes 0x36 0x89 0xDE), is dequeued and then silently
   dropped.
4. `MC_ReceiveSOAPMsg_Overwrite`: file names carry a one-second timestamp
   (line 241), so two same-name files in one second overwrite each other.
   The run checks `FilesKept`: every file reported as saved is on disk
   with the bytes received, except under the name of the last file
   reported when the process died while saving it. The overwrite happens
   without any Ctrl-C. Because of these collisions, the property is not
   checked in the passing run: there, same-name files carry equal bytes,
   and the property could only restate the write of line 248.
5. `MC_ParseArgs_Malformed`: `count = int(opt[1])` (`SendMsg.py:71`,
   `SendSOAPMsg.py:103`) is not guarded. `-n abc` or `-n --` ends the script
   with a ValueError traceback instead of the usage text spec §3 promises.

## Bounds

- **Two session ids.** Enough for a session to expire and a fresh one to be
  issued.
- **`count` ∈ {0, 1, 2, 3}.** This covers no loop, the unprefixed single message, and
  prefixed messages with a failure after one success.
- **`MaxMsgs` = 3 other publishers' messages (2 in the SOAP receiver).** This gives a
  consumed message followed by more.
- **`MaxTime` = 1.** Two receptions can fall in the same second or in
  different seconds.
- **`UmsSystem`.** `count` ∈ {0..3}. The files are a one-byte file (padded base64)
  and an empty file, which the receiver skips. `MaxTime` = 1.
- **`ParseArgs`.** The passing run uses lines of up to 6 words over the
  order-sensitive flags, a host, `2`, `abc` and `""`. Six words are the fewest
  that show `-s h -f x -n 2`. The malformed-count run uses every kind of word
  (each flag, an unknown flag, `--`, `-1`) on lines of up to 4 words.
- **Payload sets.** Texts with and without prefix, an empty text, and an empty and a
  non-empty file. The None-string run adds `"None"` and the bytes whose
  base64 is `None`.

## Fairness

Only the client program actions are weakly fair (`WF_vars(Program)`).
`main()` never blocks forever: each HTTP call returns or raises. The
gateway's receive timeout (15 s, `DEFAULT_TIMEOUT`) turns an empty wait into
a 404. These actions are not fair, because nothing in the code forces them:
- `Interrupt`, the operator's Ctrl-C;
- `Expire`, the gateway's timeout;
- `Publish`, other clients;
- `Tick`, the clock.

A poll that ends in 404, or that fails and is ignored, changes no variable,
so in TLA+ it is a stuttering step, and weak fairness says nothing about such
steps. `PendingTaken` relies on fairness only while a message is pending.
Then every outcome of a poll changes state: the message is taken (200 or a
lost reply), or the loop breaks. So the fairness assumed there is the code's
own.

A mutant whose failed poll stays in the loop is caught: with the session
expired, each poll then changes nothing, and no fair step is enabled. A
mutant that still ends the loop on some outcome is not caught, because weak
fairness also lets the gateway's outcomes (for example a lost reply) end the
loop. The properties rest on the code's own exits, not on that choice.

## Not modelled

- In the client modules, `parseArgs`' outcome is the constants `Counts` and
  `Files`; `ParseArgs` models the parsing itself. Grouped flags (`-qt`),
  attached values (`-n3`) and the values of `-d`, `-m`, `-u` and `-p` are not
  modelled. getopt's stop at the first non-option word, which silently drops
  any later flag, is shared with the reference.
- The reclaiming of a leaked session by the gateway's timeout
  (`OnlyLostLoginOrphaned`). That timeout is the gateway's, so a liveness
  property about it would check `UmsServer` and not the scripts.
- URL building, HTTP headers, XML serialisation and namespaces, printing
  and time formatting. None of these can change a state the properties
  tell apart.
- The topic domain. The scripts only pass `-q`/`-t` through as the
  `domain` URL parameter or envelope attribute. No line of them acts on it,
  and `ParseArgs` models the flag itself. Publish/subscribe delivery is a
  behaviour of the gateway, whose code is not in this repository. Modelling
  it would check an invented gateway, not these scripts.
- A Ctrl-C between `write()` and `close()` of a saved file. At exit, CPython
  flushes the file object, so the file holds its bytes as after `close()`.
- `b64encode` and `b64decode` on their own. They are library calls, and
  checking them would check the library, not the scripts.
- A gateway that answers 404 to a receive on an expired session. `Serve`
  gives an expired session 500 or no reply, never 404. A gateway that
  answered 404 would make both receivers poll on forever, since they read
  404 as an empty reply. `PendingTaken` rests on this assumption about code
  that is not in this repository.
- The gateway is modelled as answering well-formed replies. A malformed
  reply (an XML or base64 error) is modelled by the exception it raises
  after the message was taken, which is the same outcome as a Ctrl-C there.
- The plain pair (`SendMsg` with `ReceiveMsg`) is not composed. Both
  scripts' properties are already stated against the shared destination
  `log`. Their composition would add no behaviour beyond what `UmsSystem`
  shows for the SOAP pair. The plain pair has no encoding, and the plain
  receiver's 404 handling is finding 1.
- `ReceiveMsg` is not shown to refine `UmsSession`: finding 1 is that
  refinement's counterexample. Its Ctrl-C that skips the close is allowed by
  `UmsSession`, which lets the operator kill any script. Finding 2 records
  it against spec §5, which promises the logout after an interrupt of the
  receive loop.

## Plan for later work

Every operation of the four scripts that changes state is an action of a
module. What remains is the gateway. Its code is not in this repository, so
a more detailed gateway (the topic domain, the receive timeout as a clock)
would need that code.
