------------------------- MODULE MCExecutionEngine -------------------------
(* Small instances of ExecutionEngine for TLC. *)
EXTENDS ExecutionEngine, TLC

\* Workers, and requests, differ in nothing: sound for the safety runs.
Symmetric == Permutations(Workers) \cup Permutations(Clients)

\* Of two steps the first trashes its file and the second renames or moves it.
FirstTrashes == {1}
NoneTrashes == {}
OneTrashes == {1}
=============================================================================
