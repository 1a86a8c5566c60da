--------------------------- MODULE MCTaskLifecycle ---------------------------
(* Small instances of TaskLifecycle for TLC. *)
EXTENDS TaskLifecycle, TLC

\* Clients and issue numbers are interchangeable (safety runs only).
Symmetric == Permutations(Clients) \cup Permutations(IssueNumbers)
=============================================================================
