------------------------ MODULE MCTaskTransactions ------------------------
(* Small instances of TaskTransactions over one set of variables: two        *)
(* processes that patch one file, with an editor; the same with renewals in  *)
(* time and without the editor; and one process (the other never asks) that  *)
(* patches two files, with an editor who also changes HEAD.                  *)
EXTENDS TaskTransactions, TLC

CONSTANTS i1, i2, p1, p2, f1, f2, h1, h2

VARIABLE watch   \* which of them

TwoProcesses == {i1, i2}
TwoProposals == {p1, p2}
TwoFiles     == {f1, f2}

\* Two patches of one file.
SamePath == (p1 :> f1) @@ (p2 :> f1)

InTime == INSTANCE TaskTransactions WITH Timely <- TRUE, MaxEdits <- 0
Single == INSTANCE TaskTransactions WITH
    Instances <- {i1}, PathOf <- (p1 :> f1) @@ (p2 :> f2),
    Heads <- {h1, h2}, MaxEdits <- 2

MCInit == Init /\ watch \in {"shared", "timely", "single"}
MCNext ==
    /\ \/ watch = "shared" /\ Next
       \/ watch = "timely" /\ InTime!Next
       \/ watch = "single" /\ Single!Next
    /\ UNCHANGED watch
MCSpec == MCInit /\ [][MCNext]_<<vars, watch>>

\* One process, over its crashes, applies at most one proposal of a task, leaves
\* no open proposal to a closed task, and reports only what it applied.
OneAgrees == watch = "single" => Single!AloneAgrees

\* git apply runs on exactly the content that was reviewed, while leases are
\* renewed in time and no editor interferes (AppState::apply_patch_locked).
ReviewedContentOnly ==
    [][watch = "timely" => InTime!ReviewedContentStep]_vars
=============================================================================
