------------------------------ MODULE Sandbox ------------------------------
(***************************************************************************)
(* Suites run in containers: sandbox/pool.py and sandbox/stream.py, driven *)
(* by engine/worker.py over the checkouts of Worktrees.  A step is what a  *)
(* coroutine does between two awaits, or what a thread or a container      *)
(* does.  Linters run as suites do, with other commands, and are left out. *)
(***************************************************************************)
EXTENDS Worktrees, Sequences, SequencesExt

CONSTANTS BaseTip,      \* of each run: the tip of the base's branch,
          ForkPoint,    \* where it branched,
          HeadSha,      \* and what it is about
          Capacity,     \* resolved_concurrency
          Eventful,     \* bound: runs that may be cancelled, and grow old
          MaxSweeps,    \* bound: sweeps
          MaxFaults     \* bound: failures and ends of the process

ASSUME SandboxAssumption ==
    /\ {BaseTip, ForkPoint, HeadSha} \subseteq [Run -> Commit]
    /\ Capacity \in Nat \ {0}
    /\ MaxSweeps \in Nat /\ MaxFaults \in Nat

VARIABLES
    at,         \* where the task of each run is
    job,        \* the suite it is at
    row,        \* the commits each run's row names, none before it is there
    dropped,    \* runs whose row is CANCELLED
    cancelled,  \* _cancelled
    waiting,    \* the semaphore's queue
    intact,     \* the checkout has been whole since the container started
    cached,     \* the result of the suite on each commit
    stray,      \* containers nobody waits for
    named,      \* commits of recent runs when the sweep began (history)
    forced,     \* runs whose task was cancelled while it was ending (history)
    excused,    \* commits whose checkout may be spoilt (history)
    sweeps, faults

poolVars == <<at, job, row, dropped, cancelled, waiting, intact, cached, stray>>
countVars == <<named, forced, excused, sweeps, faults>>
vars == <<treeVars, poolVars, countVars>>
----------------------------------------------------------------------------
Init ==
    /\ TreesInit
    /\ at = [r \in Run |-> "none"]
    /\ job = [r \in Run |-> "base"]
    /\ row = [r \in Run |-> {}]
    /\ dropped = {} /\ cancelled = {}
    /\ waiting = <<>>
    /\ intact = {}
    /\ cached = [c \in Commit |-> "none"]
    /\ stray = 0
    /\ named = {} /\ forced = {} /\ excused = {}
    /\ sweeps = 0 /\ faults = 0

\* What was known of a job goes with it.
Forgets(r) == intact' = intact \ {r}

\* The commit a run's suite is about.
Wants(r) == IF job[r] = "base" THEN ForkPoint[r] ELSE HeadSha[r]

Running == {r \in Run : at[r] \in {"run", "drain"}}
Slots == {r \in Run : at[r] \in {"build", "run", "drain", "reap"}}

Moves(r, place) == at' = [at EXCEPT ![r] = place]
Fails(faulty) == faults < MaxFaults /\ faults' = faults + 1 /\ excused' = excused \cup faulty
----------------------------------------------------------------------------
(* The task of a run *)

Submit(r) ==
    /\ at[r] = "none"
    /\ Moves(r, "queued")
    /\ row' = [row EXCEPT ![r] = {BaseTip[r], HeadSha[r]}]
    /\ UNCHANGED <<treeVars, job, dropped, cancelled, waiting, intact, cached,
                   stray, countVars>>

\* A consumer takes it, unless it is cancelled, and waits for its pull to settle.
Dequeue(r) ==
    /\ at[r] = "queued"
    /\ Moves(r, IF r \in dropped THEN "ended" ELSE "settling")
    /\ UNCHANGED <<treeVars, job, row, dropped, cancelled, waiting, intact, cached,
                   stray, countVars>>

\* What is cancelled meanwhile is executed all the same; _from_fork_point has the row
\* name the base the run is measured from.
Execute(r) ==
    /\ at[r] = "settling"
    /\ Moves(r, "tree")
    /\ job' = [job EXCEPT ![r] = "base"]
    /\ row' = [row EXCEPT ![r] = {ForkPoint[r], HeadSha[r]}]
    /\ UNCHANGED <<treeVars, dropped, cancelled, waiting, intact, cached,
                   stray, countVars>>

\* Both checkouts are made before the first suite; job says which is being asked for.
HasTree(r) ==
    IF job[r] = "base"
    THEN job' = [job EXCEPT ![r] = "head"] /\ UNCHANGED at
    ELSE job' = [job EXCEPT ![r] = "base"] /\ Moves(r, "ask")

FindTree(r) ==
    /\ at[r] = "tree"
    /\ Finds(Wants(r))
    /\ HasTree(r)
    /\ UNCHANGED <<treeVars, row, dropped, cancelled, waiting, intact, cached,
                   stray, countVars>>

MakeTree(r) ==
    /\ at[r] = "tree"
    /\ BeginsAdd(r, Wants(r))
    /\ UNCHANGED <<poolVars, countVars>>

\* The thread goes on whatever became of the task that waits for it.
TreeMade(r) ==
    /\ \E c \in Commit :
         /\ maker[c] = r
         /\ EndsAdd(c)
         /\ IF at[r] = "tree" THEN HasTree(r) ELSE UNCHANGED <<at, job>>
    /\ UNCHANGED <<row, dropped, cancelled, waiting, intact, cached, stray, countVars>>

Stops(r) == IF at[r] = "tree" THEN Moves(r, "ended") ELSE UNCHANGED at

\* RepoUnavailable: the run fails.
NoTree(r) ==
    /\ \/ \E c \in Commit :
            /\ maker[c] = r
            /\ \/ FailsToAdd(c) /\ Fails({})
               \/ KilledAdding(c) /\ Fails({c})
            /\ Stops(r)
       \/ /\ at[r] = "tree" /\ CannotAdd(Wants(r))
          /\ Stops(r)
          /\ UNCHANGED <<treeVars, faults, excused>>
    /\ UNCHANGED <<job, row, dropped, cancelled, waiting, intact, cached,
                   stray, named, forced, sweeps>>
----------------------------------------------------------------------------
(* pool.run *)

\* The suite at the base, then at the head; what follows is for other modules.
Returns(r) ==
    IF job[r] = "base"
    THEN job' = [job EXCEPT ![r] = "head"] /\ Moves(r, "ask")
    ELSE Moves(r, "ended") /\ UNCHANGED job

\* The key of a job names its commit and its image, and nothing of what the checkout
\* holds where the repository has no lockfiles.
Ask(r) ==
    /\ at[r] = "ask"
    /\ IF cached[Wants(r)] # "none"
       THEN Returns(r) /\ UNCHANGED waiting
       ELSE /\ Moves(r, "wait") /\ UNCHANGED job
            /\ waiting' = Append(waiting, r)
    /\ UNCHANGED <<treeVars, row, dropped, cancelled, intact, cached, stray, countVars>>

Entering(r) ==
    /\ waiting # <<>> /\ Head(waiting) = r
    /\ Cardinality(Slots) < Capacity
    /\ waiting' = Tail(waiting)

\* Seeded fault: a slot is given to a run without a look at _cancelled.
EnterUnchecked(r) ==
    /\ Entering(r)
    /\ \/ Moves(r, "build") /\ UNCHANGED <<job, intact>>
       \/ Returns(r) /\ Forgets(r)
    /\ UNCHANGED <<treeVars, row, dropped, cancelled, cached, stray, countVars>>

\* Seeded fault: a cancelled run is not let in.
EnterShut(r) ==
    /\ Entering(r)
    /\ r \notin cancelled
    /\ Moves(r, "build")
    /\ UNCHANGED <<treeVars, job, row, dropped, cancelled, intact, cached, stray, countVars>>

\* With a slot: a cancelled run, or a full disk, gives a result that is not cached.
Enter(r) ==
    /\ Entering(r)
    /\ \/ r \notin cancelled /\ Moves(r, "build") /\ UNCHANGED <<job, intact>>
       \/ Returns(r) /\ Forgets(r)
    /\ UNCHANGED <<treeVars, row, dropped, cancelled, cached, stray, countVars>>

\* docker run, on what is there: an absent directory is made, and is empty.
Start(r) ==
    LET c == Wants(r) IN
    /\ at[r] = "build"
    /\ Moves(r, "run")
    /\ intact' = IF dir[c] = "whole" THEN intact \cup {r} ELSE intact \ {r}
    /\ dir' = [dir EXCEPT ![c] = IF @ = "absent" THEN "part" ELSE @]
    /\ UNCHANGED <<registered, maker, sweep, job, row, dropped, cancelled, waiting,
                   cached, stray, countVars>>

Writes(r, result) == cached' = [cached EXCEPT ![Wants(r)] = result]

\* ImageBuildError, of the checkout or of the network, is a result like another.
BuildFails(r) ==
    /\ at[r] = "build"
    /\ Writes(r, "spoilt")
    /\ Returns(r)
    /\ Forgets(r)
    /\ \/ dir[Wants(r)] # "whole" /\ UNCHANGED <<faults, excused>>
       \/ Fails({Wants(r)})
    /\ UNCHANGED <<treeVars, row, dropped, cancelled, waiting, stray,
                   named, forced, sweeps>>

\* The container ends: by itself, by its timeout, by the outer one, by docker kill.
ContainerEnds(r) ==
    /\ at[r] \in {"run", "drain"}
    /\ IF at[r] = "run" THEN Moves(r, "reap") /\ UNCHANGED intact
                        ELSE Moves(r, "ended") /\ Forgets(r)
    /\ UNCHANGED <<treeVars, job, row, dropped, cancelled, waiting, cached,
                   stray, countVars>>

\* _write_cached
Reap(r) ==
    /\ at[r] = "reap"
    /\ Writes(r, IF r \in intact THEN "genuine" ELSE "spoilt")
    /\ Returns(r)
    /\ Forgets(r)
    /\ UNCHANGED <<treeVars, row, dropped, cancelled, waiting, stray, countVars>>
----------------------------------------------------------------------------
(* cancel *)

Leaves(r) == waiting' = RemoveFirst(waiting, r)

\* Seeded fault: the task does not wait for what its container still prints.
InterruptAbandons(r) ==
    \/ at[r] \in {"queued", "settling"} /\ UNCHANGED <<at, waiting, stray, forced>>
    \/ /\ at[r] \in {"tree", "ask", "wait", "build", "reap"}
       /\ Moves(r, "ended") /\ Leaves(r) /\ UNCHANGED <<stray, forced>>
    \/ at[r] = "run" /\ Moves(r, "ended") /\ stray' = stray + 1 /\ UNCHANGED <<waiting, forced>>

\* Where CancelledError finds the task.  run_streaming reads what the container
\* prints to its end, and a second one ends that; one that finds it waiting for the
\* sampler is suppressed.
Interrupt(r) ==
    \/ at[r] \in {"queued", "settling"} /\ UNCHANGED <<at, waiting, stray, forced>>
    \/ /\ at[r] \in {"tree", "ask", "wait", "build", "reap"}
       /\ Moves(r, "ended") /\ Leaves(r) /\ UNCHANGED <<stray, forced>>
    \/ at[r] = "run" /\ Moves(r, "drain") /\ UNCHANGED <<waiting, stray, forced>>
    \/ /\ at[r] = "drain" /\ Moves(r, "ended")
       /\ stray' = stray + 1 /\ forced' = forced \cup {r} /\ UNCHANGED waiting
    \/ at[r] = "reap" /\ UNCHANGED <<at, waiting, stray, forced>>

\* cancel_run: the pool, the row and the task, in one step of the loop.
Cancel(r) ==
    /\ r \in Eventful
    /\ cancelled' = cancelled \cup {r}
    /\ dropped' = dropped \cup {r}
    /\ Interrupt(r)
    /\ IF at'[r] = "ended" THEN Forgets(r) ELSE UNCHANGED intact
    /\ UNCHANGED <<treeVars, job, row, cached, named, excused, sweeps, faults>>

StrayEnds ==
    /\ stray > 0
    /\ stray' = stray - 1
    /\ UNCHANGED <<treeVars, at, job, row, dropped, cancelled, waiting, intact,
                   cached, countVars>>

\* The process ends and starts again: containers are killed by their label, if docker
\* answers, and what was under way is queued.
Restart ==
    /\ Fails({c \in Commit : maker[c] # Nobody})
    /\ TreesRestart
    /\ stray' \in {0, stray + Cardinality(Running)}
    /\ at' = [r \in Run |-> IF at[r] \in {"none", "ended"} THEN at[r]
                            ELSE IF r \in dropped THEN "ended" ELSE "queued"]
    /\ cancelled' = {} /\ waiting' = <<>>
    /\ named' = {} /\ intact' = {}
    /\ UNCHANGED <<job, row, dropped, cached, forced, sweeps>>
----------------------------------------------------------------------------
(* The janitor *)

Recent(old) == {r \in Run : row[r] # {} /\ r \notin old}

\* Seeded fault: the base is not looked at.
LiveHeads(old) == {HeadSha[r] : r \in Recent(old)}

\* live_commits, by when some rows are older than the window, ended or not.
LiveCommits(old) == UNION {row[r] : r \in Recent(old)}

\* A sweep looks at the rows once.
Sweep ==
    /\ sweeps < MaxSweeps
    /\ sweeps' = sweeps + 1
    /\ \E old \in SUBSET Eventful :
         /\ SweepReads(LiveCommits(old))
         /\ named' = UNION {row[r] : r \in Recent(old)}
    /\ UNCHANGED <<poolVars, forced, excused, faults>>

\* What it removes under a suite, no row named when it looked, or only old ones did.
TearDown(c) ==
    /\ TearsDown(c)
    /\ intact' = intact \ {r \in Run : Wants(r) = c}
    /\ excused' = IF c \in named THEN excused ELSE excused \cup {c}
    /\ UNCHANGED <<at, job, row, dropped, cancelled, waiting, cached, stray,
                   named, forced, sweeps, faults>>

Sweeping ==
    \/ \E c \in Commit : TearDown(c)
    \/ \E c \in Commit : TornDown(c) /\ UNCHANGED <<poolVars, countVars>>
    \/ SweepPrunes /\ named' = {} /\ UNCHANGED <<poolVars, forced, excused, sweeps, faults>>

Proceed(r) ==
    \/ Dequeue(r) \/ Execute(r)
    \/ FindTree(r) \/ MakeTree(r) \/ TreeMade(r) \/ NoTree(r)
    \/ Ask(r) \/ Enter(r) \/ Start(r) \/ BuildFails(r) \/ ContainerEnds(r) \/ Reap(r)

Next ==
    \/ \E r \in Run : Submit(r) \/ Proceed(r) \/ Cancel(r)
    \/ Sweep \/ Sweeping
    \/ StrayEnds
    \/ Restart

\* Threads, containers and the loop go on; the semaphore's queue is first come, first
\* served, and git, the build and the container have a timeout each.
Fairness == \A r \in Run : WF_vars(Proceed(r))

Spec == Init /\ [][Next]_vars
FairSpec == Spec /\ Fairness
----------------------------------------------------------------------------
(* Properties *)

\* A cached result is what the suite does on the commit.  A cancelled suite leaves
\* none (run_streaming does not return then); where a checkout was torn down under
\* it, no row of a recent run had named the commit when the sweep looked; else git or
\* the build had been killed.  Every later run of the commit is given that result.
CachedIsGenuine == \A c \in Commit : cached[c] = "spoilt" => c \in excused

\* Containers, those of cancelled runs included, are no more than the slots, but for
\* one that each second cancel of a run leaves behind and what a restart could not
\* kill (run_streaming, _terminate, _kill_orphans).
SlotsBoundContainers ==
    /\ Cardinality(Running) <= Capacity
    /\ stray <= Cardinality(forced) + Capacity * faults

\* No container is started for a cancelled run, wherever its cancelling found it, and
\* whatever was restarted since (cancel_run, pool.run, recover).
CancelledStartsNothing ==
    [][\A r \in Run : at[r] # "run" /\ at'[r] = "run" => r \notin dropped]_vars

\* Every run ends: nobody waits for a slot or for a checkout forever, though tasks that
\* hold them are cancelled and checkouts removed.
RunsEnd == \A r \in Run : at[r] # "none" ~> at[r] = "ended"
=============================================================================
