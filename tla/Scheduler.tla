----------------------------- MODULE Scheduler -----------------------------
(***************************************************************************)
(* The engine's core: engine/scheduler.py with the parts it drives, the    *)
(* run table of storage/repos.py, the pipeline of engine/worker.py as the  *)
(* sequence of states it takes a run through, the poll of                  *)
(* engine/watcher.py that feeds it and the boot of engine/recovery.py.     *)
(*                                                                         *)
(* Everything runs on one asyncio loop, so a stretch of code without an    *)
(* await is one action; the consumers, the tasks they start, the HTTP      *)
(* handlers and the watcher interleave at their awaits.                    *)
(***************************************************************************)
EXTENDS LaneQueue, RunStates

CONSTANTS PR,           \* the pull requests, over all repositories
          RepoOf,       \* the repository of each
          Sha,          \* head commits
          NoSha,        \* a pull request the watcher has not seen
          Worker,       \* the consumers, sandbox.max_concurrent of them
          MaxRuns,      \* bound: rows the run table grows to
          MaxRestarts   \* bound: times the process ends

ASSUME SchedulerAssumption ==
    /\ RepoOf \in [PR -> Repo]
    /\ NoSha \notin Sha
    /\ MaxRuns \in Nat
    /\ MaxRestarts \in Nat

VARIABLES
    runs,       \* table runs, in the order of created_at; a run id is an index
    known,      \* table pulls: the head last stored for each pull request
    rejected,   \* the runs a scheduler.rejected event was emitted for
    pending,    \* _pending[key].run_id, 0 where there is no entry
    consumer,   \* the coroutine _consume and the task it awaits
    up,         \* the process exists
    todo,       \* what recover() has still to requeue
    restarts    \* times the process has ended

stored == <<runs, known, rejected>>
vars == <<lanes, order, depth, stored, pending, consumer, up, todo, restarts>>
----------------------------------------------------------------------------
RunId == 1 .. MaxRuns
NoRun == 0

\* A row of the run table.  torn is history: the process was killed when the row
\* was in and the one before it not yet marked superseded.
Row == [pr : PR, head : Sha, state : RunState,
        superseded_by : RunId \cup {NoRun}, torn : BOOLEAN]

NewRow(p, sha, state) == [pr |-> p, head |-> sha, state |-> state,
                          superseded_by |-> NoRun, torn |-> FALSE]

\* A consumer waits in _next, sleeps in the debounce, or awaits a task.  Of the
\* task: how far the pipeline has come, the state of its own copy of the run,
\* and whether cancel() was called on it.
Consumer == [pc : {"waiting", "debounce", "task"}, run : DOMAIN runs \cup {NoRun},
             at : LiveStates, local : RunState, cancelling : BOOLEAN]

Waiting == [pc |-> "waiting", run |-> NoRun, at |-> "queued",
            local |-> "queued", cancelling |-> FALSE]

\* Every run id in memory names a row.
TypeOK ==
    /\ runs \in Seq(Row) /\ Len(runs) <= MaxRuns
    /\ QueueTypeOK(DOMAIN runs)
    /\ known \in [PR -> Sha \cup {NoSha}]
    /\ rejected \subseteq DOMAIN runs
    /\ pending \in [PR -> DOMAIN runs \cup {NoRun}]
    /\ consumer \in [Worker -> Consumer]
    /\ \A w \in Worker : consumer[w].pc = "waiting" <=> consumer[w].run = NoRun
    /\ up \in BOOLEAN
    /\ todo \subseteq DOMAIN runs
    /\ restarts \in 0 .. MaxRestarts

Init ==
    /\ QueueInit
    /\ runs = <<>>
    /\ known = [p \in PR |-> NoSha]
    /\ rejected = {}
    /\ pending = [p \in PR |-> NoRun]
    /\ consumer = [w \in Worker |-> Waiting]
    /\ up = TRUE
    /\ todo = {}
    /\ restarts = 0

\* recover() requeues without an await, so nothing else runs until it is done.
Serving == up /\ todo = {}

LaneOf(i) == RepoOf[runs[i].pr]

RunsOf(p) == {i \in DOMAIN runs : runs[i].pr = p}

\* latest_run: the newest row of the pull request.
LatestRun(p) ==
    IF RunsOf(p) = {} THEN NoRun
    ELSE CHOOSE i \in RunsOf(p) : \A j \in RunsOf(p) : j <= i

UnfinishedRuns == {i \in DOMAIN runs : runs[i].state \notin TERMINAL_STATES}

SetState(i, state) == runs' = [runs EXCEPT ![i].state = state]
----------------------------------------------------------------------------
(* Submitting *)

\* The newest run has this head and has not failed or been cancelled.
AlreadyVerified(p, sha) ==
    LET i == LatestRun(p) IN
    /\ i # NoRun
    /\ runs[i].head = sha
    /\ runs[i].state \notin {"failed", "cancelled"}

\* Seeded fault: the retargeted run is queued once more.
RetargetEnqueues(p, sha) ==
    /\ ~Full
    /\ runs' = [runs EXCEPT ![pending[p]].head = sha]
    /\ Enqueue(RepoOf[p], pending[p])
    /\ UNCHANGED <<rejected, pending>>

\* Seeded fault: the queued run keeps the head it was created with.
RetargetEntryOnly(p, sha) == UNCHANGED <<queueVars, runs, rejected, pending>>

\* The pending entry's run is pointed at the new head, if it is still queued:
\* the UPDATE of Store.retarget says WHERE state = 'queued'.
Retarget(p, sha) ==
    LET i == pending[p] IN
    /\ runs' = [runs EXCEPT ![i].head = IF runs[i].state = "queued" THEN sha ELSE @]
    /\ UNCHANGED <<queueVars, rejected, pending>>

\* Seeded fault: only a run that is still queued is superseded.
CreatedOverQueued(p, sha, state) ==
    LET new  == Len(runs) + 1
        last == LatestRun(p)
    IN  Append([i \in DOMAIN runs |->
                  IF i = last /\ runs[i].state = "queued"
                  THEN [runs[i] EXCEPT !.superseded_by = new] ELSE runs[i]],
               NewRow(p, sha, state))

\* _create: the new row, and the run before it superseded unless it is done.
Created(p, sha, state) ==
    LET new  == Len(runs) + 1
        last == LatestRun(p)
    IN  Append([i \in DOMAIN runs |->
                  IF i = last /\ runs[i].state # "done"
                  THEN [runs[i] EXCEPT !.superseded_by = new] ELSE runs[i]],
               NewRow(p, sha, state))

\* Create a run and queue it; a full queue refuses it and it ends cancelled.
SubmitNew(p, sha) ==
    LET new == Len(runs) + 1 IN
    /\ new \in RunId
    /\ IF Full
       THEN /\ runs' = Created(p, sha, "cancelled")
            /\ rejected' = rejected \cup {new}
            /\ UNCHANGED <<queueVars, pending>>
       ELSE /\ runs' = Created(p, sha, "queued")
            /\ Enqueue(RepoOf[p], new)
            /\ pending' = [pending EXCEPT ![p] = new]
            /\ UNCHANGED rejected

\* Without force, a verified head and a run that still waits need no new one.
NeedsNewRun(p, sha, force) ==
    \/ force
    \/ ~AlreadyVerified(p, sha) /\ pending[p] = NoRun

Submit(p, sha, force) ==
    IF NeedsNewRun(p, sha, force) THEN SubmitNew(p, sha)
    ELSE IF AlreadyVerified(p, sha)
    THEN UNCHANGED <<queueVars, runs, rejected, pending>>
    ELSE Retarget(p, sha)

\* _poll_repo finds a new pull request or a moved head: the pull is stored
\* first, then submitted.  The head may be any commit, an earlier one included.
Poll(p, sha) ==
    /\ Serving
    /\ known[p] # sha
    /\ known' = [known EXCEPT ![p] = sha]
    /\ Submit(p, sha, FALSE)
    /\ UNCHANGED <<consumer, up, todo, restarts>>

\* POST /api/runs submits the stored pull, with force or without.
Trigger(p, force) ==
    /\ Serving
    /\ known[p] # NoSha
    /\ Submit(p, known[p], force)
    /\ UNCHANGED <<known, consumer, up, todo, restarts>>

\* Seeded fault: the row is cancelled and the task is not told.
CancelRowOnly(i) ==
    /\ Serving
    /\ SetState(i, "cancelled")
    /\ UNCHANGED <<queueVars, known, rejected, pending, consumer, up, todo, restarts>>

\* POST /api/runs/{id}/cancel: the row is cancelled whatever its state is, and a
\* task that is running it is told.
Cancel(i) ==
    /\ Serving
    /\ SetState(i, "cancelled")
    /\ consumer' = [w \in Worker |->
                      IF consumer[w].pc = "task" /\ consumer[w].run = i
                      THEN [consumer[w] EXCEPT !.cancelling = TRUE]
                      ELSE consumer[w]]
    /\ UNCHANGED <<queueVars, known, rejected, pending, up, todo, restarts>>
----------------------------------------------------------------------------
(* Consuming *)

\* The task is created with the consumer's copy of the row.
Running(i) == [pc |-> "task", run |-> i, at |-> "queued",
               local |-> runs[i].state, cancelling |-> FALSE]

\* _next returns and _consume goes on to its next await.  A cancelled run is
\* skipped, and its pending entry stays.  A run with a pending entry sleeps until
\* the debounce is over, unless it already is; time is not modelled, so it may.
Dispatch(w) ==
    LET i == NextUp
        p == runs[i].pr
    IN  /\ Serving
        /\ consumer[w].pc = "waiting"
        /\ Take
        /\ \/ /\ runs[i].state = "cancelled"
              /\ UNCHANGED <<consumer, pending>>
           \/ /\ runs[i].state # "cancelled"
              /\ pending[p] # NoRun
              /\ consumer' = [consumer EXCEPT ![w] =
                                [Waiting EXCEPT !.pc = "debounce", !.run = i]]
              /\ UNCHANGED pending
           \/ /\ runs[i].state # "cancelled"
              /\ consumer' = [consumer EXCEPT ![w] = Running(i)]
              /\ pending' = [pending EXCEPT ![p] = NoRun]
        /\ UNCHANGED <<stored, up, todo, restarts>>

\* The sleep ends: the pending entry is popped, the row read again, and the task
\* created, whatever state the row is in by now.
DebounceOver(w) ==
    LET i == consumer[w].run IN
    /\ Serving
    /\ consumer[w].pc = "debounce"
    /\ pending' = [pending EXCEPT ![runs[i].pr] = NoRun]
    /\ consumer' = [consumer EXCEPT ![w] = Running(i)]
    /\ UNCHANGED <<queueVars, stored, up, todo, restarts>>

\* The task of w is at an await and will be resumed there.
Resumes(w) == Serving /\ consumer[w].pc = "task" /\ ~consumer[w].cancelling

TaskUnchanged == UNCHANGED <<queueVars, known, rejected, pending, up, todo, restarts>>

\* The next call of _advance in _pipeline and _adjudicate.  ADJUDICATING is
\* entered only when something was ranked and a model is available.
NextStages(at) ==
    CASE at = "queued"    -> {"preparing"}
      [] at = "preparing" -> {"base_run"}
      [] at = "base_run"  -> {"head_run"}
      [] at = "head_run"  -> {"probing"}
      [] at = "probing"   -> {"adjudicating"}
      [] OTHER            -> {}

\* _advance: a move the task's own copy of the run does not allow is logged and
\* dropped; otherwise the row is written, without a look at what it says now.
Advance(w, state) ==
    LET c  == consumer[w]
        ok == CanTransition(c.local, state)
    IN  /\ Resumes(w)
        /\ state \in NextStages(c.at)
        /\ runs' = IF ok THEN [runs EXCEPT ![c.run].state = state] ELSE runs
        /\ consumer' = [consumer EXCEPT ![w].at = state,
                                        ![w].local = IF ok THEN state ELSE @]
        /\ TaskUnchanged

\* RENDERING, the writes of the findings and DONE follow without an await; then
\* the consumer drops the task and waits again.
Finish(w) ==
    LET c == consumer[w] IN
    /\ Resumes(w)
    /\ c.at \in {"probing", "adjudicating"}
    /\ runs' = IF CanTransition(c.local, "done")
               THEN [runs EXCEPT ![c.run].state = "done"] ELSE runs
    /\ consumer' = [consumer EXCEPT ![w] = Waiting]
    /\ TaskUnchanged

\* A stage raises: execute writes FAILED, whatever the row says.
Fail(w) ==
    /\ Resumes(w)
    /\ consumer[w].at # "queued"
    /\ SetState(consumer[w].run, "failed")
    /\ consumer' = [consumer EXCEPT ![w] = Waiting]
    /\ TaskUnchanged

\* CancelledError reaches the task's await and through it the consumer.
Cancelled(w) ==
    /\ Serving
    /\ consumer[w].pc = "task"
    /\ consumer[w].cancelling
    /\ SetState(consumer[w].run, "cancelled")
    /\ consumer' = [consumer EXCEPT ![w] = Waiting]
    /\ TaskUnchanged
----------------------------------------------------------------------------
(* The end of the process, and the next one *)

\* Memory is gone; the database is not.
ProcessEnds ==
    /\ up
    /\ restarts < MaxRestarts
    /\ up' = FALSE
    /\ restarts' = restarts + 1
    /\ QueueLost
    /\ pending' = [p \in PR |-> NoRun]
    /\ consumer' = [w \in Worker |-> Waiting]
    /\ todo' = {}
    /\ UNCHANGED rejected

\* Killed: by the kernel, a reboot, kill -9.
Crash ==
    /\ ProcessEnds
    /\ UNCHANGED <<runs, known>>

\* Killed between the two writes of a poll.
CrashInPoll(p, sha) ==
    /\ Serving
    /\ ProcessEnds
    /\ known[p] # sha
    /\ known' = [known EXCEPT ![p] = sha]
    /\ UNCHANGED runs

\* Killed between the writes of _create and submit: the row is in, but the run
\* before it is not yet superseded, or that is done and the queue not yet tried.
CrashInCreate(p, sha, force) ==
    LET new == Len(runs) + 1 IN
    /\ Serving
    /\ ProcessEnds
    /\ known[p] = sha \/ ~force
    /\ known' = [known EXCEPT ![p] = sha]
    /\ NeedsNewRun(p, sha, force)
    /\ new \in RunId
    /\ \/ runs' = Append(runs, [NewRow(p, sha, "queued") EXCEPT !.torn = TRUE])
       \/ runs' = Created(p, sha, "queued")

\* Stopped in good order: every consumer and task is cancelled, and a consumer
\* whose task is cancelled marks the run so.  A debouncing one just ends.
Stop ==
    /\ Serving
    /\ ProcessEnds
    /\ runs' = [i \in DOMAIN runs |->
                  IF \E w \in Worker : consumer[w].pc = "task" /\ consumer[w].run = i
                  THEN [runs[i] EXCEPT !.state = "cancelled"] ELSE runs[i]]
    /\ UNCHANGED known

\* Seeded fault: recovery forgets that the queue was in memory too.
BootInFlightOnly ==
    /\ ~up
    /\ up' = TRUE
    /\ todo' = {i \in DOMAIN runs : runs[i].state \notin TERMINAL_STATES \cup {"queued"}}
    /\ UNCHANGED <<queueVars, stored, pending, consumer, restarts>>

\* The service starts; recover() reads the unfinished runs.
Boot ==
    /\ ~up
    /\ up' = TRUE
    /\ todo' = UnfinishedRuns
    /\ UNCHANGED <<queueVars, stored, pending, consumer, restarts>>

\* Seeded fault: the row keeps the state it was interrupted in.
RequeueKeepsState(i) ==
    /\ up
    /\ i \in todo
    /\ \A j \in todo : i <= j
    /\ IF Full
       THEN rejected' = rejected \cup {i} /\ UNCHANGED queueVars
       ELSE Enqueue(LaneOf(i), i) /\ UNCHANGED rejected
    /\ todo' = todo \ {i}
    /\ UNCHANGED <<runs, known, pending, consumer, up, restarts>>

\* requeue, oldest first.  What _enqueue answers is not looked at.
Requeue(i) ==
    /\ up
    /\ i \in todo
    /\ \A j \in todo : i <= j
    /\ SetState(i, "queued")
    /\ IF Full
       THEN rejected' = rejected \cup {i} /\ UNCHANGED queueVars
       ELSE Enqueue(LaneOf(i), i) /\ UNCHANGED rejected
    /\ todo' = todo \ {i}
    /\ UNCHANGED <<known, pending, consumer, up, restarts>>
----------------------------------------------------------------------------
TaskStep(w) ==
    \/ \E state \in LiveStates : Advance(w, state)
    \/ Finish(w)
    \/ Fail(w)
    \/ Cancelled(w)

Next ==
    \/ \E p \in PR, sha \in Sha :
          \/ Poll(p, sha)
          \/ CrashInPoll(p, sha)
          \/ \E force \in BOOLEAN : CrashInCreate(p, sha, force)
    \/ \E p \in PR, force \in BOOLEAN : Trigger(p, force)
    \/ \E i \in DOMAIN runs : Cancel(i)
    \/ \E w \in Worker : Dispatch(w) \/ DebounceOver(w) \/ TaskStep(w)
    \/ Crash
    \/ Stop
    \/ Boot
    \/ \E i \in todo : Requeue(i)

Spec == Init /\ [][Next]_vars
Fairness ==
    /\ WF_vars(Boot)
    /\ WF_vars(\E i \in todo : Requeue(i))
    /\ WF_vars(\E w \in Worker : Dispatch(w))
    /\ \A w \in Worker : WF_vars(DebounceOver(w)) /\ WF_vars(TaskStep(w))

FairSpec == Spec /\ Fairness
----------------------------------------------------------------------------
(* Properties *)

\* A run is in one place at most: once in one lane, or with one consumer, or on
\* the list recovery is working through.  Were it in two, two tasks would write
\* the same row (_enqueue, _next, _consume, requeue).
HeldOnce ==
    /\ QueuedOnce
    /\ \A w \in Worker : consumer[w].pc # "waiting" =>
         /\ ~InLane(consumer[w].run)
         /\ \A v \in Worker : consumer[v].run = consumer[w].run => v = w
    /\ \A i \in todo : ~InLane(i) /\ \A w \in Worker : consumer[w].run # i

\* While the process is up, a run that has not ended is somebody's business: a
\* queued one is in a lane or held by a consumer, one that is under way has a
\* task, and recovery has still to get to the others.  The exception is a run
\* whose requeueing a full queue refused; see RefusedIsNotQueued.
NothingStranded ==
    up => \A i \in DOMAIN runs : runs[i].state \notin TERMINAL_STATES =>
        \/ i \in todo
        \/ runs[i].state = "queued" /\ (InLane(i) \/ i \in rejected)
        \/ \E w \in Worker :
              /\ consumer[w].run = i
              /\ runs[i].state # "queued" => consumer[w].pc = "task"

\* A task's writes are never late: until it is told of a cancellation, the row it
\* is about to write still says what the task wrote last, or was cancelled before
\* the task began.  _advance checks the task's own copy and not the row, so this
\* is what makes that check mean something (worker.py _advance, scheduler.py
\* cancel).
TaskAgreesWithRow ==
    \A w \in Worker : consumer[w].pc = "task" =>
        LET c == consumer[w] IN
        runs[c.run].state = IF c.cancelling \/ c.local = "cancelled"
                            THEN "cancelled" ELSE c.at

\* A run that waits or sleeps has not begun, or was cancelled before it did; a
\* task's copy of its run is where the task is, unless it began cancelled; and
\* while the process is down or recovering no consumer holds anything.
NotBegun ==
    /\ \A i \in DOMAIN runs : InLane(i) => runs[i].state \in {"queued", "cancelled"}
    /\ \A w \in Worker : consumer[w].pc = "debounce" =>
         runs[consumer[w].run].state \in {"queued", "cancelled"}
    /\ \A w \in Worker : consumer[w].pc = "task" =>
         consumer[w].local \in {consumer[w].at, "cancelled"}
    /\ \A i \in todo : runs[i].state \notin TERMINAL_STATES
    /\ ~Serving => \A w \in Worker : consumer[w].pc = "waiting"
    /\ ~up => todo = {} /\ \A i \in DOMAIN runs : ~InLane(i)

\* The run a pending entry names, while it is queued, is for the head that was
\* submitted last: a force-push storm ends with the newest commit verified and
\* not the one that was current when the run was created (submit, retarget).
PendingIsFresh ==
    \A p \in PR : pending[p] # NoRun =>
        LET run == runs[pending[p]] IN
        run.pr = p /\ (run.state = "queued" => run.head = known[p])

\* Of two runs of a pull request, the older one has ended or is marked
\* superseded, by a newer one, unless a kill came between the two writes (_create,
\* against cancel, execute and recovery, which write older rows afterwards).
OldRunsSuperseded ==
    \A i, j \in DOMAIN runs : i < j /\ runs[i].pr = runs[j].pr =>
        \/ runs[i].superseded_by \in i + 1 .. j
        \/ runs[i].superseded_by = NoRun /\ runs[i].state \in TERMINAL_STATES
        \/ \E k \in i + 1 .. j : runs[k].pr = runs[i].pr /\ runs[k].torn

\* No step moves a run backwards along ORDER or out of a terminal state, except
\* that recovery puts an interrupted run back to the start (states.py
\* can_transition, against the unguarded writes of execute, cancel and _consume).
MovesForward ==
    \A i \in DOMAIN runs :
        \/ Position(runs'[i].state) >= Position(runs[i].state)
        \/ i \in todo /\ runs[i].state \notin TERMINAL_STATES

NeverBackwards == [][MovesForward]_vars

\* The queue implements the promise of module FairQueue.
Before(x, y) == \E k, m \in DOMAIN order : k < m /\ order[k] = x /\ order[m] = y

Ahead(r) == {q \in Repo : Before(q, r)}

Promise == INSTANCE FairQueue
    WITH Item <- RunId, Bound <- MaxDepth, waiting <- lanes, ahead <- [r \in Repo |-> Ahead(r)]

QueueIsFair == Promise!Spec

\* Every run ends or was refused by a full queue: however the process is
\* restarted, an admitted run is dispatched, and a task finishes, fails or is
\* cancelled.
Ended(i) == i \in DOMAIN runs /\ (runs[i].state \in TERMINAL_STATES \/ i \in rejected)

RunsEnd == \A i \in RunId : i \in DOMAIN runs ~> Ended(i)
----------------------------------------------------------------------------
(* What the documentation says and the code does not do *)

\* "a PR whose head moved gets a new run" (scheduler.py line 5): there is a run
\* for the head the watcher last stored, be it one that was refused.
MovedHeadHasRun ==
    Serving => \A p \in PR : known[p] # NoSha =>
                   \E i \in RunsOf(p) : runs[i].head = known[p]

\* "Runs left in flight go back on the queue", after a deploy as after a crash
\* (recovery.py lines 3-8): the end of the process ends no run.
InFlightSurvives ==
    [][up /\ ~up' => \A i \in DOMAIN runs :
          runs[i].state \notin TERMINAL_STATES
              => runs'[i].state \notin TERMINAL_STATES]_vars

\* "A run that was never admitted must not look like one that is waiting"
\* (tests/test_v2_scheduler.py line 120).
RefusedIsNotQueued == \A i \in rejected : runs[i].state # "queued"
============================================================================
