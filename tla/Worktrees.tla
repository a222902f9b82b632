----------------------------- MODULE Worktrees -----------------------------
(***************************************************************************)
(* Checkouts on disk: what makes them (vcs/worktrees.py) and what removes  *)
(* them (engine/janitor.py).  The two share no lock.  A checkout is made   *)
(* and removed file by file, in threads, so both take two steps.           *)
(***************************************************************************)
EXTENDS Naturals, FiniteSets

CONSTANTS Commit, Run,
          Nobody        \* not a run

ASSUME WorktreesAssumption == Nobody \notin Run

VARIABLES
    dir,            \* what is in each commit's directory: it is "absent", "part" of a
                    \* checkout, "whole", or "torn", what a removal has left so far
    registered,     \* commits the bare clone holds a worktree for
    maker,          \* the run whose thread has each commit's lock
    sweep           \* the janitor's thread

treeVars == <<dir, registered, maker, sweep>>
----------------------------------------------------------------------------
\* left: commits it will not keep.  at: the one whose checkout is being removed.
Resting == [pc |-> "idle", left |-> {}, at |-> {}]

TreesInit ==
    /\ dir = [c \in Commit |-> "absent"]
    /\ registered = {}
    /\ maker = [c \in Commit |-> Nobody]
    /\ sweep = Resting

\* worktree_for finds a directory, whatever is in it.
Finds(c) == maker[c] = Nobody /\ dir[c] # "absent"

\* ... or has git make one.
BeginsAdd(r, c) ==
    /\ maker[c] = Nobody /\ dir[c] = "absent" /\ c \notin registered
    /\ maker' = [maker EXCEPT ![c] = r]
    /\ dir' = [dir EXCEPT ![c] = "part"]
    /\ registered' = registered \cup {c}
    /\ UNCHANGED sweep

\* A directory that went without its registration cannot be added again.
CannotAdd(c) == maker[c] = Nobody /\ dir[c] = "absent" /\ c \in registered

Unlock(c) == maker' = [maker EXCEPT ![c] = Nobody]

\* git writes on while the janitor removes, and may not notice.
EndsAdd(c) ==
    /\ maker[c] # Nobody
    /\ dir' = [dir EXCEPT ![c] = IF @ = "part" THEN "whole" ELSE @]
    /\ Unlock(c)
    /\ UNCHANGED <<registered, sweep>>

\* git fails and takes back what it made,
FailsToAdd(c) ==
    /\ maker[c] # Nobody
    /\ dir' = [dir EXCEPT ![c] = "absent"]
    /\ registered' = registered \ {c}
    /\ Unlock(c)
    /\ UNCHANGED sweep

\* or is killed, after 900 seconds, and cannot.
KilledAdding(c) ==
    /\ maker[c] # Nobody
    /\ Unlock(c)
    /\ UNCHANGED <<dir, registered, sweep>>

\* The process ends: no lock is held, no thread runs; the disk is as it was.
TreesRestart ==
    /\ maker' = [c \in Commit |-> Nobody]
    /\ sweep' = Resting
    /\ UNCHANGED <<dir, registered>>
----------------------------------------------------------------------------
(* sweep *)

\* Which commits to keep is read once, and what is there is listed after it.
SweepReads(keep) ==
    /\ sweep.pc = "idle"
    /\ sweep' = [Resting EXCEPT !.pc = "remove", !.left = Commit \ keep]
    /\ UNCHANGED <<dir, registered, maker>>

\* The directories go one by one, with their registration, or, where git refuses as
\* the checkout is not a whole one, without.
TearsDown(c) ==
    /\ sweep.at = {} /\ c \in sweep.left
    /\ dir[c] # "absent"
    /\ sweep' = [sweep EXCEPT !.left = @ \ {c}, !.at = {c}]
    /\ dir' = [dir EXCEPT ![c] = "torn"]
    /\ registered' = IF dir[c] = "whole" THEN registered \ {c} ELSE registered
    /\ UNCHANGED maker

TornDown(c) ==
    /\ c \in sweep.at
    /\ sweep' = [sweep EXCEPT !.at = {}]
    /\ dir' = [dir EXCEPT ![c] = "absent"]
    /\ UNCHANGED <<registered, maker>>

\* worktree prune: registrations whose directory is gone and that nobody is making.
SweepPrunes ==
    /\ sweep.pc = "remove" /\ sweep.at = {}
    /\ \A c \in sweep.left : dir[c] = "absent"
    /\ sweep' = Resting
    /\ registered' = {c \in registered : dir[c] # "absent" \/ maker[c] # Nobody}
    /\ UNCHANGED <<dir, maker>>
=============================================================================
