--------------------------- MODULE CharterKeeper ---------------------------
(***************************************************************************)
(* The memory of one repository, charter/keeper.py, with what it stores    *)
(* through storage/repos.py and announces through engine/notify.py, and    *)
(* the first reading of api/service.py.  A rebuild runs in a thread of its *)
(* own and writes one statement at a time, each committed, so that each is *)
(* a step.                                                                 *)
(***************************************************************************)
EXTENDS Naturals, FiniteSets

CONSTANTS Sha,       \* the commits the default branch may be at
          Branch,    \* its name, which git resolves when the remote cannot be asked
          Watcher, Reader, Caller,  \* who refreshes: the poll, a first reading, the API
          Webhook,   \* one is configured
          Grade,     \* the grades of change there may be (Charter.tla says which)
          MaxEvents  \* bound: pushes, requests, runs that store norms, and faults

NoSha == "none"

ASSUME CharterKeeperAssumption ==
    /\ Branch \notin Sha /\ NoSha \notin Sha \cup {Branch}
    /\ Cardinality({Watcher, Reader, Caller}) = 3
    /\ Webhook \in BOOLEAN
    /\ Grade \subseteq {"none", "minor", "notable", "major"}
    /\ MaxEvents \in Nat

VARIABLES
    remote,       \* what the branch is at
    branch_head,  \* the repository's row: what it was at when last asked,
    charter_sha,  \* and the charter stored last
    atlas,        \* the commit of the atlas,
    charters,     \* the charters and their numbers,
    declared,     \* the commit whose declared norms are stored,
    changes,      \* charter_changes,
    notices,      \* and the notifications
    task,         \* what each of Watcher, Reader and Caller is at
    attaching,    \* the base commit a run is about to take declared norms from
    revisited,    \* a rebuild has found its charter stored and not the latest (history)
    lost,         \* a rebuild failed or was killed (history)
    byRun,        \* the declared norms were stored last by a run (history)
    events

rowVars == <<branch_head, charter_sha, atlas, charters, declared, changes, notices>>
historyVars == <<attaching, revisited, lost, byRun, events>>
vars == <<remote, rowVars, task, historyVars>>
----------------------------------------------------------------------------
Commit == Sha \cup {Branch}
NOTIFIED == {"notable", "major"}
TASKS == {Watcher, Reader, Caller}

\* The places of a rebuild at which its task has the lock.
REBUILDING == {"build", "extract", "insert", "mark", "norms", "compare", "raise", "deliver"}

IdleTask == [pc |-> "idle", sha |-> NoSha, previous |-> NoSha, number |-> 0, level |-> "none"]

\* remember: every start, and a new repository, begin with a first reading.
Starting == [t \in TASKS |-> IF t = Reader THEN [IdleTask EXCEPT !.pc = "begin"] ELSE IdleTask]

Init ==
    /\ remote \in Sha
    /\ branch_head = NoSha /\ charter_sha = NoSha
    /\ atlas = NoSha /\ declared = NoSha
    /\ charters = {} /\ changes = {} /\ notices = {}
    /\ task = Starting
    /\ attaching = NoSha
    /\ revisited = FALSE /\ lost = FALSE /\ byRun = FALSE
    /\ events = 0

Stored(sha) == \E c \in charters : c.sha = sha
MaxNumber == IF charters = {} THEN 0
             ELSE CHOOSE n \in {c.number : c \in charters} :
                    \A c \in charters : c.number <= n
\* charter(repo): the one with the highest number.
Latest == IF charters = {} THEN NoSha
          ELSE (CHOOSE c \in charters : c.number = MaxNumber).sha

Building(t) == task[t].pc \in REBUILDING
LockFree == \A t \in TASKS : ~Building(t)
Becomes(t, pc) == task' = [task EXCEPT ![t].pc = pc]
Finish(t) == task' = [task EXCEPT ![t] = IdleTask]
Event == events < MaxEvents /\ events' = events + 1
----------------------------------------------------------------------------
\* The branch moves, forwards or (a forced push) back.
Push(sha) ==
    /\ Event
    /\ remote # sha
    /\ remote' = sha
    /\ UNCHANGED <<rowVars, task, attaching, revisited, lost, byRun>>

\* check asks the remote, in a thread, and again at the next poll if that fails.  The
\* head it is compared with may be read with the answer: only check changes it.
Check ==
    /\ task[Watcher].pc = "idle"
    /\ task' = [task EXCEPT ![Watcher].pc = "answer", ![Watcher].sha = remote]
    /\ UNCHANGED <<remote, rowVars, historyVars>>

\* A first reading is of a repository without a charter.
BeginReading ==
    /\ task[Reader].pc = "begin"
    /\ IF charter_sha # NoSha THEN Finish(Reader)
       ELSE task' = [task EXCEPT ![Reader].pc = "answer", ![Reader].sha = remote]
    /\ UNCHANGED <<remote, rowVars, historyVars>>

\* It leaves the name to git if the remote cannot be asked.
BeginReadingBranch ==
    /\ Event
    /\ task[Reader].pc = "begin" /\ charter_sha = NoSha
    /\ task' = [task EXCEPT ![Reader].pc = "answer", ![Reader].sha = Branch]
    /\ UNCHANGED <<remote, rowVars, attaching, revisited, lost, byRun>>

\* A request forces a rebuild at a commit: the one it names, or the head it asked for.
Request(sha) ==
    /\ Event
    /\ task[Caller].pc = "idle"
    /\ task' = [task EXCEPT ![Caller].pc = "wait", ![Caller].sha = sha]
    /\ UNCHANGED <<remote, rowVars, attaching, revisited, lost, byRun>>

\* Seeded fault: a head that moved is stored, and the rebuild left to a first reading.
AnswerNoted(t) ==
    LET sha == task[t].sha IN
    /\ task[t].pc = "answer"
    /\ branch_head' = IF t = Watcher THEN sha ELSE branch_head
    /\ IF t = Watcher THEN Finish(t) ELSE Becomes(t, "wait")
    /\ UNCHANGED <<remote, charter_sha, atlas, charters, declared, changes, notices,
                   historyVars>>

\* A moved head is stored before the rebuild is begun; what the last charter is of
\* is not rebuilt, unless forced.
Answer(t) ==
    LET sha == task[t].sha IN
    /\ task[t].pc = "answer"
    /\ branch_head' = IF t = Watcher THEN sha ELSE branch_head
    /\ IF t = Watcher /\ sha \in {branch_head, charter_sha}
       THEN Finish(t) ELSE Becomes(t, "wait")
    /\ UNCHANGED <<remote, charter_sha, atlas, charters, declared, changes, notices,
                   historyVars>>
----------------------------------------------------------------------------
(* _rebuild *)

\* Seeded fault: rebuilds of a repository overlap.
EnterUnlocked(t) ==
    /\ task[t].pc = "wait"
    /\ Becomes(t, "build")
    /\ UNCHANGED <<remote, rowVars, historyVars>>

Enter(t) ==
    /\ task[t].pc = "wait"
    /\ LockFree
    /\ Becomes(t, "build")
    /\ UNCHANGED <<remote, rowVars, historyVars>>

\* The checkout is made and read, and symbols, edges and atlas stored.
BuildAtlas(t) ==
    /\ task[t].pc = "build"
    /\ atlas' = task[t].sha
    /\ Becomes(t, "extract")
    /\ UNCHANGED <<remote, branch_head, charter_sha, charters, declared, changes, notices,
                   historyVars>>

\* git, or reading the files, or a statement fails.
RebuildFails(t) ==
    /\ Event
    /\ Building(t)
    /\ lost' = TRUE
    /\ Finish(t)
    /\ UNCHANGED <<remote, rowVars, attaching, revisited, byRun>>

\* The charter is extracted; put_charter finds one of the commit, or its number.
Extract(t) ==
    LET sha == task[t].sha IN
    /\ task[t].pc = "extract"
    /\ task' = [task EXCEPT ![t].pc = IF Stored(sha) THEN "norms" ELSE "insert",
                            ![t].previous = Latest, ![t].number = MaxNumber + 1]
    /\ revisited' = (revisited \/ (Stored(sha) /\ sha # Latest))
    /\ UNCHANGED <<remote, rowVars, attaching, lost, byRun, events>>

Insert(t) ==
    /\ task[t].pc = "insert"
    /\ ~Stored(task[t].sha)
    /\ charters' = charters \cup {[sha |-> task[t].sha, number |-> task[t].number]}
    /\ Becomes(t, "mark")
    /\ UNCHANGED <<remote, branch_head, charter_sha, atlas, declared, changes, notices,
                   historyVars>>

MarkRow(t) ==
    /\ task[t].pc = "mark"
    /\ charter_sha' = task[t].sha
    /\ Becomes(t, "norms")
    /\ UNCHANGED <<remote, branch_head, atlas, charters, declared, changes, notices,
                   historyVars>>

\* The norms follow; a first charter and one of the same commit are not compared.
ReplaceNorms(t) ==
    LET k == task[t] IN
    /\ k.pc = "norms"
    /\ declared' = k.sha
    /\ IF k.previous \in {NoSha, k.sha} THEN Finish(t) ELSE Becomes(t, "compare")
    /\ byRun' = FALSE
    /\ UNCHANGED <<remote, branch_head, charter_sha, atlas, charters, changes, notices,
                   attaching, revisited, lost, events>>

\* Seeded fault: the last charter is read after the new one is stored.
CompareLatest(t, level) ==
    LET k == task[t] IN
    /\ k.pc = "compare"
    /\ changes' = changes \cup {[from |-> Latest, to |-> k.sha, level |-> level]}
    /\ task' = [task EXCEPT ![t] = IF level \in NOTIFIED
                  THEN [@ EXCEPT !.pc = "raise", !.level = level] ELSE IdleTask]
    /\ UNCHANGED <<remote, branch_head, charter_sha, atlas, charters, declared, notices,
                   historyVars>>

\* compare grades the change (Charter.tla); put_charter_change keeps every grade.
Compare(t, level) ==
    LET k == task[t] IN
    /\ k.pc = "compare"
    /\ changes' = changes \cup {[from |-> k.previous, to |-> k.sha, level |-> level]}
    /\ task' = [task EXCEPT ![t] = IF level \in NOTIFIED
                  THEN [@ EXCEPT !.pc = "raise", !.level = level] ELSE IdleTask]
    /\ UNCHANGED <<remote, branch_head, charter_sha, atlas, charters, declared, notices,
                   historyVars>>

\* raise_: the id is of the commit, so that its update is announced once; the
\* webhook gets what is major.
Raise(t) ==
    LET k == task[t]
        again == \E n \in notices : n.sha = k.sha
    IN  /\ k.pc = "raise"
        /\ notices' = IF again THEN notices
                      ELSE notices \cup {[sha |-> k.sha, level |-> k.level,
                                          delivered |-> FALSE]}
        /\ IF ~again /\ Webhook /\ k.level = "major" THEN Becomes(t, "deliver") ELSE Finish(t)
        /\ UNCHANGED <<remote, branch_head, charter_sha, atlas, charters, declared, changes,
                       historyVars>>

\* A delivery is recorded whether it failed or not, and not tried again.
Deliver(t) ==
    /\ task[t].pc = "deliver"
    /\ notices' = {IF n.sha = task[t].sha THEN [n EXCEPT !.delivered = TRUE] ELSE n :
                    n \in notices}
    /\ Finish(t)
    /\ UNCHANGED <<remote, branch_head, charter_sha, atlas, charters, declared, changes,
                   historyVars>>

\* A run that finds no declared norms reads those of its base and stores them, in
\* a thread that no lock of the keeper holds back.
RunFindsNoNorms(base) ==
    /\ Event
    /\ attaching = NoSha /\ declared = NoSha
    /\ attaching' = base
    /\ UNCHANGED <<remote, rowVars, task, revisited, lost, byRun>>

RunStoresNorms ==
    /\ attaching # NoSha
    /\ declared' = attaching
    /\ attaching' = NoSha
    /\ byRun' = TRUE
    /\ UNCHANGED <<remote, branch_head, charter_sha, atlas, charters, changes, notices,
                   task, revisited, lost, events>>
----------------------------------------------------------------------------
\* The process ends and starts again: the rows are as they are, the tasks are gone.
Crash ==
    /\ Event
    /\ lost' = (lost \/ \E t \in TASKS : Building(t) \/ task[t].pc = "wait")
    /\ task' = Starting
    /\ attaching' = NoSha
    /\ UNCHANGED <<remote, rowVars, revisited, byRun>>

Step(t) ==
    \/ Answer(t) \/ Enter(t) \/ BuildAtlas(t) \/ Extract(t) \/ Insert(t) \/ MarkRow(t)
    \/ ReplaceNorms(t) \/ (\E level \in Grade : Compare(t, level)) \/ Raise(t) \/ Deliver(t)

Next ==
    \/ Check \/ BeginReading \/ BeginReadingBranch
    \/ \E t \in TASKS : Step(t) \/ RebuildFails(t)
    \/ \E sha \in Sha : Push(sha) \/ RunFindsNoNorms(sha)
    \/ \E sha \in Commit : Request(sha)
    \/ RunStoresNorms
    \/ Crash

\* Polls go on for ever, and every step of a task is taken in time: threads end,
\* subprocesses and requests have timeouts, and waiters get the lock in turn.
Fairness ==
    /\ WF_vars(Check)
    /\ \A t \in TASKS : SF_vars(Step(t))

Spec == Init /\ [][Next]_vars
FairSpec == Spec /\ Fairness
----------------------------------------------------------------------------
(* Properties *)

Quiet == LockFree /\ ~lost

\* No two charters have one number, and outside a rebuild all that is remembered is
\* of one commit: atlas, charter, its row and the declared norms.  It is not after
\* the branch went back to a commit that had its charter, which stays the older one
\* while atlas and norms move (put_charter), nor after a run stored its base's norms.
OneMemory ==
    /\ \A c, d \in charters : c.number = d.number => c = d
    /\ Quiet /\ ~revisited => /\ {Latest, charter_sha} = {atlas}
                              /\ byRun \/ declared = atlas

\* Each charter but the first is explained by a change from the one before it, and
\* each change that is notable or worse is announced, once for its commit, unless a
\* rebuild was cut short, as it will not be taken up where it was.
MovesExplained ==
    Quiet =>
      /\ \A c, d \in charters : d.number = c.number + 1 =>
           \E x \in changes : x.from = c.sha /\ x.to = d.sha
      /\ \A x \in changes : x.from # x.to /\ (x.level \in NOTIFIED =>
           \E n \in notices : n.sha = x.to)
      /\ \A n \in notices : \E x \in changes : x.to = n.sha /\ x.level = n.level
      /\ \A m, n \in notices : m.sha = n.sha => m = n
      /\ \A n \in notices : n.delivered <=> Webhook /\ n.level = "major"

\* A commit the branch stays at comes to have a charter, in the service's time,
\* unless a rebuild fails or is killed: its head is stored by then, and it is not
\* taken for moved again (check).
MovesRemembered ==
    \A sha \in Sha : remote = sha ~> (remote # sha \/ Stored(sha) \/ lost)
============================================================================
