----------------------------- MODULE FairQueue -----------------------------
(***************************************************************************)
(* What the scheduler's queue promises, without saying how: it is bounded, *)
(* each repository's runs leave it in the order they came, and no          *)
(* repository gets a second turn before every repository that was waiting  *)
(* has had a first (engine/scheduler.py lines 12-18,                       *)
(* tests/test_v2_scheduler.py lines 45-46).                                *)
(***************************************************************************)
EXTENDS Integers, Sequences, FiniteSets

CONSTANTS Repo, Item, Bound

VARIABLES waiting,   \* per repository, the items it has waiting
          ahead      \* per repository, those whose turn comes before its own

vars == <<waiting, ahead>>

Busy == {r \in Repo : waiting[r] # <<>>}

Total == Cardinality(UNION {{r} \X DOMAIN waiting[r] : r \in Repo})

Init ==
    /\ waiting = [r \in Repo |-> <<>>]
    /\ ahead = [r \in Repo |-> {}]

\* A repository that had nothing waiting queues up behind all that have.
Admit(r, x) ==
    /\ Total < Bound
    /\ waiting' = [waiting EXCEPT ![r] = Append(@, x)]
    /\ ahead' = IF r \in Busy THEN ahead ELSE [ahead EXCEPT ![r] = Busy]

\* Only a repository with nobody ahead of it is served, and then everybody else
\* with work is ahead of it.
Serve(r) ==
    /\ r \in Busy
    /\ ahead[r] = {}
    /\ waiting' = [waiting EXCEPT ![r] = Tail(@)]
    /\ ahead' = [q \in Repo |->
                   IF q # r THEN ahead[q] \ {r}
                   ELSE IF Len(waiting[r]) = 1 THEN {} ELSE Busy \ {r}]

\* The process ends and the queue with it.
Lose ==
    /\ waiting' = [r \in Repo |-> <<>>]
    /\ ahead' = [r \in Repo |-> {}]

Next ==
    \/ \E r \in Repo, x \in Item : Admit(r, x)
    \/ \E r \in Repo : Serve(r)
    \/ Lose

Spec == Init /\ [][Next]_vars
============================================================================
