---------------------------- MODULE MC_SendSOAPMsg ----------------------------
EXTENDS SendSOAPMsg, TLC

CONSTANTS s1, s2

MCSids == {s1, s2}

MCCounts == {0, 1, 2, 3}

\* One small file; its name is the basename os.path.split returns.
MCFiles == {[name |-> "a.txt", data |-> <<65>>]}

\* Every body the script can post: prefixed texts 0..2, the bare text and
\* the file's File element.
MCPayloads ==
  [idx : {0, 1, 2, NoIdx}, text : {"hi"}]
  \cup {[name |-> f.name, b64 |-> B64Encode(f.data)] : f \in MCFiles}

=============================================================================
