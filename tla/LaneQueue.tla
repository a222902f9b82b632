----------------------------- MODULE LaneQueue -----------------------------
(***************************************************************************)
(* The bounded queue of engine/scheduler.py: one lane per repository, and  *)
(* the order in which repositories take their turn.  The scheduler's       *)
(* consumers and its submitters are in module Scheduler, which extends     *)
(* this one.                                                               *)
(***************************************************************************)
EXTENDS Integers, Sequences, FiniteSets

CONSTANTS Repo,      \* the watched repositories
          MaxDepth   \* server.max_queue_depth

ASSUME MaxDepthAssumption == MaxDepth \in Nat

VARIABLES lanes,     \* _lanes: per repository, the run ids waiting
          order,     \* _order: the repositories with work, next turn first
          depth      \* _depth: how many run ids wait in all

queueVars == <<lanes, order, depth>>

QueueTypeOK(Id) ==
    /\ lanes \in [Repo -> Seq(Id)]
    /\ order \in Seq(Repo)
    /\ depth \in Nat

QueueInit ==
    /\ lanes = [r \in Repo |-> <<>>]
    /\ order = <<>>
    /\ depth = 0

Full == depth >= MaxDepth

\* Seeded fault: the counter is not raised.
EnqueueUncounted(repo, id) ==
    /\ lanes' = [lanes EXCEPT ![repo] = Append(@, id)]
    /\ order' = IF lanes[repo] = <<>> THEN Append(order, repo) ELSE order
    /\ UNCHANGED depth

\* _enqueue once admission is granted: a repository whose lane was empty joins
\* the back of the order.
Enqueue(repo, id) ==
    /\ lanes' = [lanes EXCEPT ![repo] = Append(@, id)]
    /\ order' = IF lanes[repo] = <<>> THEN Append(order, repo) ELSE order
    /\ depth' = depth + 1

\* The run id _next would return: the oldest of the repository whose turn it is.
NextUp == Head(lanes[Head(order)])

\* Seeded fault: a drained repository keeps its place in the order.
TakeKeepsDrained ==
    /\ order # <<>>
    /\ lanes' = [lanes EXCEPT ![Head(order)] = Tail(@)]
    /\ order' = Append(Tail(order), Head(order))
    /\ depth' = depth - 1

\* Seeded fault: the order is not rotated, so a repository is served until it is
\* drained.
TakeUnrotated ==
    /\ order # <<>>
    /\ lanes' = [lanes EXCEPT ![Head(order)] = Tail(@)]
    /\ order' = IF Len(lanes[Head(order)]) = 1 THEN Tail(order) ELSE order
    /\ depth' = depth - 1

\* _next, with work waiting: serve the repository in front and send it to the
\* back, or drop it from the order when its lane is drained.  The branch that
\* discards a repository without a lane (lines 122-124) is never reached: see
\* QueueOK.
Take ==
    LET repo == Head(order) IN
    /\ order # <<>>
    /\ lanes' = [lanes EXCEPT ![repo] = Tail(@)]
    /\ order' = IF Len(lanes[repo]) = 1 THEN Tail(order)
                                        ELSE Append(Tail(order), repo)
    /\ depth' = depth - 1

\* The process ends: the queue lives in memory only.
QueueLost ==
    /\ lanes' = [r \in Repo |-> <<>>]
    /\ order' = <<>>
    /\ depth' = 0
----------------------------------------------------------------------------
\* The places in the lanes that hold a run id.
Slots == UNION {{r} \X DOMAIN lanes[r] : r \in Repo}

Occurs(seq, e) == \E i \in DOMAIN seq : seq[i] = e

Distinct(seq) == \A i, j \in DOMAIN seq : seq[i] = seq[j] => i = j

InLane(id) == \E r \in Repo : Occurs(lanes[r], id)

\* No run id waits in two places.
QueuedOnce ==
    /\ \A r \in Repo : Distinct(lanes[r])
    /\ \A q, r \in Repo : \A k \in DOMAIN lanes[q] :
          Occurs(lanes[r], lanes[q][k]) => q = r

\* The three structures of the queue agree with each other: a repository is in
\* the order exactly when its lane holds work, and there once, and the counter
\* that bounds admission is the number of ids waiting and within the bound
\* (scheduler.py _enqueue and _next, which update the three by hand).
QueueOK ==
    /\ \A r \in Repo : Occurs(order, r) <=> lanes[r] # <<>>
    /\ Distinct(order)
    /\ IsFiniteSet(Slots) /\ depth = Cardinality(Slots)
    /\ depth <= MaxDepth
============================================================================
