------------------------------ MODULE MCCopoll ------------------------------
(* Small instances of Copoll for TLC: one port, one notifier. *)
EXTENDS Copoll, TLC

CONSTANTS a, w1, w2, q1, q2, n1

Poll(p, events) == [port |-> p, events |-> events]

\* Wait with a timeout for input or the end of it; wait without one for room,
\* in an array whose first entry waits for the port to be closed.
Reader == [coports |-> <<Poll(a, {"IN", "CLOSED"})>>, timed |-> TRUE]
Writer == [coports |-> <<Poll(a, {"CLOSED"}), Poll(a, {"OUT"})>>, timed |-> FALSE]

ReaderOnly      == {Reader}
ReaderAndWriter == {Reader, Writer}

ToNotifier == [p \in {a} |-> n1]

SymThreads == Permutations({w1, w2}) \cup Permutations({q1, q2})
=============================================================================
