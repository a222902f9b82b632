---------------------------- MODULE MCScheduler ----------------------------
(***************************************************************************)
(* Small instances of Scheduler for TLC.                                   *)
(***************************************************************************)
EXTENDS Scheduler, TLC

CONSTANTS r1, r2, p1, p2

\* Two repositories with a pull request each.
TwoRepos == (p1 :> r1) @@ (p2 :> r2)

\* Consumers and commits are interchangeable, and so are the two repositories
\* when each is exchanged together with its pull request.
Symmetry ==
    Permutations(Worker) \cup Permutations(Sha)
    \cup {(r1 :> r2) @@ (r2 :> r1) @@ (p1 :> p2) @@ (p2 :> p1)}
============================================================================
