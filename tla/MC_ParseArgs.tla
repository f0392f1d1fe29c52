----------------------------- MODULE MC_ParseArgs -----------------------------
(* Every command line of up to MaxWords words over Words: either every   *)
(* kind of word (every flag, an unknown flag, "--", a plain word, the     *)
(* empty string, numbers and a non-number), or the order-sensitive flags  *)
(* on longer lines.                                                        *)
EXTENDS ParseArgs, TLC

CONSTANTS
  Words,      \* the words a command line is made of
  MaxWords    \* the longest command line

MCDashLetter ==
  ("-h" :> "h") @@ ("-q" :> "q") @@ ("-t" :> "t") @@ ("-s" :> "s") @@
  ("-n" :> "n") @@ ("-f" :> "f") @@ ("-m" :> "m") @@ ("-x" :> "x") @@
  ("-1" :> "1")

MCIntOf == ("2" :> 2) @@ ("-1" :> -1)

\* Every kind of word.
AllWords == DOMAIN MCDashLetter \cup {"--", "h1", "", "2", "abc"}

\* Fewer words, for longer command lines: the flags whose order matters,
\* a host, a number, a non-number and the empty string.
OrderWords == {"-s", "-f", "-n", "-q", "-t", "-h", "h1", "2", "", "abc"}

VARIABLE argv

ArgsInit == argv \in BoundedSeq(Words, MaxWords)

ArgsSpec == ArgsInit /\ [][UNCHANGED argv]_argv

Scripts == {SendMsgOpts, ReceiveMsgOpts, SendSOAPMsgOpts, ReceiveSOAPMsgOpts}

\* Whenever parseArgs returns or exits through usage(), it has done what
\* spec sections 3 and 6 say: usage on -h, a missing host or a bad flag,
\* otherwise the last value of each flag, -q/-t last-wins, and a count of
\* 1 with a file, in whatever order the flags come.
ParsedAsSpecified ==
  \A s \in Scripts :
    ParseArgs(s, argv).status # "crash" => ParseArgs(s, argv) = SpecOutcome(s, argv)

\* A malformed flag makes parseArgs print usage and exit (spec section 3).
MalformedGivesUsage ==
  \A s \in Scripts : ParseArgs(s, argv) = SpecOutcome(s, argv)

=============================================================================
