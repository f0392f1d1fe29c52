------------------------------ MODULE ParseArgs ------------------------------
(***************************************************************************)
(* parseArgs() of the four scripts: getopt.getopt(sys.argv[1:], spec), a  *)
(* for loop over the options setting the globals, the host check and, in  *)
(* SendSOAPMsg.py, the count forced to 1 with a file.  The scripts differ *)
(* only in the getopt spec: an option the spec lacks is a GetoptError.     *)
(*                                                                         *)
(* A command-line word is a string.  Which words start with "-" and which *)
(* letter follows, and which words int() accepts and their value, are     *)
(* given as the tables DashLetter and IntOf, since TLC does not take       *)
(* strings apart.  Grouped flags ("-qt") and attached values ("-n3") are   *)
(* not among the words.  The values of -d, -m, -u and -p are not observed. *)
(*                                                                         *)
(* The outcome is [status |-> "usage"] (usage() and sys.exit(1)),          *)
(* [status |-> "crash"] (an uncaught ValueError from int()), or the        *)
(* globals main() goes on with.                                            *)
(***************************************************************************)
EXTENDS Integers, Sequences, SequencesExt

CONSTANTS
  DashLetter,   \* the words that start with "-" (not "-" or "--") -> letter
  IntOf         \* the words int() accepts -> their value

\* The getopt spec of each script's parseArgs: letters without and with an
\* argument.  ParseArgs(XOpts, argv) is the parseArgs of script X.
SendMsgOpts        == [noArg |-> {"h", "q", "t"}, arg |-> {"d", "m", "n", "s", "u", "p"}]
ReceiveMsgOpts     == [noArg |-> {"h", "q", "t"}, arg |-> {"d", "s", "u", "p"}]
SendSOAPMsgOpts    == [noArg |-> {"h", "q", "t"}, arg |-> {"d", "f", "m", "n", "s", "u", "p"}]
ReceiveSOAPMsgOpts == ReceiveMsgOpts

Usage == [status |-> "usage"]

\* getopt.getopt: options up to "--" or the first word that is not an
\* option; a letter outside the spec, or a missing argument, is an error.
RECURSIVE Getopt(_, _)
Getopt(spec, argv) ==
  IF argv = <<>> \/ argv[1] = "--" \/ argv[1] \notin DOMAIN DashLetter
  THEN [ok |-> TRUE, opts |-> <<>>]
  ELSE LET c == DashLetter[argv[1]]
           takes == c \in spec.arg
           rest == Getopt(spec, SubSeq(argv, IF takes THEN 3 ELSE 2, Len(argv)))
       IN  IF c \notin spec.noArg \cup spec.arg \/ (takes /\ Len(argv) < 2)
           THEN [ok |-> FALSE, opts |-> <<>>]
           ELSE [rest EXCEPT !.opts =
                   <<[flag |-> c, arg |-> IF takes THEN argv[2] ELSE ""]>> \o @]

Defaults == [status |-> "ok", host |-> "", domain |-> "queue", count |-> 1, file |-> ""]

\* One pass of the for loop: -h exits through usage(); int() of a
\* non-numeric -n value raises.
OptStep(g, o) ==
  IF g.status # "ok" THEN g
  ELSE CASE o.flag = "h" -> [g EXCEPT !.status = "usage"]
         [] o.flag = "s" -> [g EXCEPT !.host = o.arg]
         [] o.flag = "q" -> [g EXCEPT !.domain = "queue"]
         [] o.flag = "t" -> [g EXCEPT !.domain = "topic"]
         [] o.flag = "f" -> [g EXCEPT !.file = o.arg]
         [] o.flag = "n" -> IF o.arg \in DOMAIN IntOf
                            THEN [g EXCEPT !.count = IntOf[o.arg]]
                            ELSE [g EXCEPT !.status = "crash"]
         [] OTHER -> g

\* Mutant of ParseArgs: the count check runs before the loop, when no -f
\* has been seen yet.
ParseArgsForceBeforeLoop(spec, argv) ==
  LET go == Getopt(spec, argv)
      g0 == [Defaults EXCEPT !.count = IF @ > 1 /\ Defaults.file # "" THEN 1 ELSE @]
      g  == FoldLeft(OptStep, g0, go.opts)
  IN  CASE ~go.ok            -> Usage
        [] g.status = "crash" -> [status |-> "crash"]
        [] g.status = "usage" \/ g.host = "" -> Usage
        [] OTHER -> g

\* parseArgs(): getopt, the loop, the host check, the count forcing.
ParseArgs(spec, argv) ==
  LET go == Getopt(spec, argv)
      g  == FoldLeft(OptStep, Defaults, go.opts)
  IN  CASE ~go.ok            -> Usage
        [] g.status = "crash" -> [status |-> "crash"]
        [] g.status = "usage" \/ g.host = "" -> Usage
        [] OTHER -> [g EXCEPT !.count = IF @ > 1 /\ g.file # "" THEN 1 ELSE @]

-----------------------------------------------------------------------------
(* Reference: the command line as spec.md sections 3 and 6 describe it,    *)
(* stated on the option list getopt yields.  -h anywhere, a missing or     *)
(* empty host, or a malformed flag (getopt's error, a non-integer count)   *)
(* prints usage and exits; otherwise each flag's last value wins, -q/-t    *)
(* last-wins, count defaults to 1 and is 1 with a file.                    *)

SpecOutcome(spec, argv) ==
  LET go == Getopt(spec, argv)
      Of(f) == SelectSeq(go.opts, LAMBDA o : o.flag = f)
      LastArg(f, dflt) == IF Of(f) = <<>> THEN dflt ELSE Last(Of(f)).arg
      qt == SelectSeq(go.opts, LAMBDA o : o.flag \in {"q", "t"})
      host == LastArg("s", "")
      file == LastArg("f", "")
      n == IF Of("n") = <<>> THEN 1 ELSE IntOf[Last(Of("n")).arg]
  IN  IF \/ ~go.ok \/ Of("h") # <<>> \/ host = ""
         \/ \E k \in 1..Len(Of("n")) : Of("n")[k].arg \notin DOMAIN IntOf
      THEN Usage
      ELSE [status |-> "ok", host |-> host,
            domain |-> IF qt # <<>> /\ Last(qt).flag = "t" THEN "topic" ELSE "queue",
            count |-> IF n > 1 /\ file # "" THEN 1 ELSE n,
            file |-> file]

=============================================================================
