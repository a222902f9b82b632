------------------------ MODULE CharterKeeperProofs ------------------------
(***************************************************************************)
(* What a repository's memory promises, whoever refreshes it: outside a    *)
(* rebuild all of it is of one commit, and every charter is explained by a *)
(* change that was announced if it was worth announcing.                   *)
(***************************************************************************)
EXTENDS CharterKeeper, TLAPS

Level == {"none", "minor", "notable", "major"}

Task == [pc : {"idle", "begin", "answer", "wait"} \cup REBUILDING, sha : Commit \cup {NoSha},
         previous : Commit \cup {NoSha}, number : Nat, level : Level]

KeeperTypes ==
    /\ remote \in Sha
    /\ task \in [TASKS -> Task]
    /\ \A t \in TASKS : task[t].pc \notin {"idle", "begin"} => task[t].sha \in Commit
    /\ charters \subseteq [sha : Commit, number : Nat]
    /\ changes \subseteq [from : Commit, to : Commit, level : Level]
    /\ notices \subseteq [sha : Commit, level : Level, delivered : BOOLEAN]
    /\ lost \in BOOLEAN /\ revisited \in BOOLEAN /\ byRun \in BOOLEAN

\* The lock of a repository: one rebuild at a time.
OneBuilder == \A t, u \in TASKS : Building(t) /\ Building(u) => t = u

\* Charters differ in their numbers and in their commits, and one is the latest.
Numbered ==
    /\ \A c, d \in charters : c.number = d.number => c = d
    /\ \A c, d \in charters : c.sha = d.sha => c = d
    /\ \A c \in charters : c.number > 0
    /\ charters # {} => \E c \in charters : \A d \in charters : d.number <= c.number

\* The tasks that have begun to change what is stored, and those whose charter is the
\* latest but may not be explained yet.
LATE == REBUILDING \ {"build"}
At(places) == {t \in TASKS : task[t].pc \in places}
Unexplained == At({"mark", "norms", "compare"})

\* What a rebuild knows when it is at a place.
Placed ==
    /\ \A t \in At({"insert"}) :
         /\ ~Stored(task[t].sha)
         /\ task[t].number = MaxNumber + 1 /\ task[t].previous = Latest
    /\ \A t \in At({"mark"}) : Latest = task[t].sha
    /\ \A t \in At({"compare"}) : task[t].previous \notin {NoSha, task[t].sha}
    /\ \A t \in At({"raise"}) :
         \E x \in changes : x.to = task[t].sha /\ x.level = task[t].level
    /\ \A t \in At({"deliver"}) :
         /\ Webhook
         /\ \E n \in notices : n.sha = task[t].sha /\ n.level = "major"

\* What is stored is of one commit, but for what the rebuild has still to store.
Together ==
    lost \/ revisited \/
    /\ At({"mark"}) = {} => Latest = charter_sha
    /\ At({"extract", "insert", "mark"}) = {} => atlas = charter_sha
    /\ \A t \in At(LATE) : atlas = task[t].sha
    /\ \A t \in At(LATE \ {"extract", "insert", "mark"}) : charter_sha = task[t].sha
    /\ At({"extract", "insert", "mark", "norms"}) = {} => byRun \/ declared = atlas

\* Every charter is explained and announced, but for what the rebuild has still to do.
Explained ==
    lost \/
    /\ \A c, d \in charters : d.number = c.number + 1 =>
         \/ \E x \in changes : x.from = c.sha /\ x.to = d.sha
         \/ \E t \in Unexplained : c.sha = task[t].previous /\ d.sha = task[t].sha
    /\ \A x \in changes : x.from # x.to /\ (x.level \in NOTIFIED =>
         \/ \E n \in notices : n.sha = x.to
         \/ \E t \in At({"raise"}) : x.to = task[t].sha)
    /\ \A n \in notices : \E x \in changes : x.to = n.sha /\ x.level = n.level
    /\ \A m, n \in notices : m.sha = n.sha => m = n
    /\ \A n \in notices :
         \/ n.delivered <=> Webhook /\ n.level = "major"
         \/ ~n.delivered /\ \E t \in At({"deliver"}) : n.sha = task[t].sha

IInv == KeeperTypes /\ OneBuilder /\ Numbered /\ Placed /\ Together /\ Explained
----------------------------------------------------------------------------
(* The latest charter *)

\* It is the one of the highest number.
IsLatest(top) ==
    /\ top \in charters /\ \A d \in charters : d.number <= top.number
    /\ MaxNumber = top.number /\ Latest = top.sha

LEMMA Newest ==
    KeeperTypes /\ Numbered =>
      /\ charters = {} => MaxNumber = 0 /\ Latest = NoSha
      /\ \A top \in charters : (\A d \in charters : d.number <= top.number) => IsLatest(top)
      /\ charters # {} => \E top \in charters : IsLatest(top)
<1> SUFFICES ASSUME KeeperTypes, Numbered
             PROVE  /\ charters = {} => MaxNumber = 0 /\ Latest = NoSha
                    /\ \A top \in charters :
                         (\A d \in charters : d.number <= top.number) => IsLatest(top)
                    /\ charters # {} => \E top \in charters : IsLatest(top)
  OBVIOUS
<1>1. charters = {} => MaxNumber = 0 /\ Latest = NoSha
  BY DEF MaxNumber, Latest
<1>2. ASSUME NEW top \in charters, \A d \in charters : d.number <= top.number
      PROVE  IsLatest(top)
  <2>1. \A c \in charters : c.number \in Nat
    BY DEF KeeperTypes
  <2> DEFINE numbers == {c.number : c \in charters}
             P(n) == \A c \in charters : c.number <= n
  <2>2. top.number \in numbers /\ P(top.number)
    BY <1>2
  <2>3. (CHOOSE n \in numbers : P(n)) \in numbers /\ P(CHOOSE n \in numbers : P(n))
    BY <2>2
  <2>4. MaxNumber = CHOOSE n \in numbers : P(n)
    BY DEF MaxNumber
  <2>5. MaxNumber \in numbers /\ P(MaxNumber)
    BY <2>3, <2>4
  <2>6. PICK c \in charters : MaxNumber = c.number
    BY <2>5
  <2>7. MaxNumber = top.number
    BY <1>2, <2>1, <2>5, <2>6
  <2> DEFINE last == CHOOSE d \in charters : d.number = MaxNumber
  <2>8. last \in charters /\ last.number = MaxNumber
    BY <2>7
  <2>9. last = top
    BY <2>7, <2>8 DEF Numbered
  <2>10. Latest = last.sha
    BY DEF Latest
  <2> QED BY <1>2, <2>7, <2>9, <2>10 DEF IsLatest
<1>3. charters # {} => \E top \in charters : IsLatest(top)
  BY <1>2 DEF Numbered
<1> QED BY <1>1, <1>2, <1>3

LEMMA LatestTypes ==
    ASSUME KeeperTypes, Numbered
    PROVE  MaxNumber \in Nat /\ Latest \in Commit \cup {NoSha}
<1>1. CASE charters = {}
  BY <1>1, Newest
<1>2. CASE charters # {}
  <2>1. PICK top \in charters : IsLatest(top)
    BY <1>2, Newest
  <2> QED BY <2>1 DEF IsLatest, KeeperTypes
<1> QED BY <1>1, <1>2

LEMMA SameLatest ==
    ASSUME UNCHANGED charters
    PROVE  Latest' = Latest /\ MaxNumber' = MaxNumber /\ \A sha : Stored(sha)' = Stored(sha)
BY DEF Latest, MaxNumber, Stored
----------------------------------------------------------------------------
(* Steps outside a rebuild *)

\* What is neither at a late place nor leaves one changes nothing a rebuild relies on.
LEMMA Elsewhere ==
    ASSUME IInv, KeeperTypes', OneBuilder',
           UNCHANGED <<charter_sha, atlas, charters, changes, notices, revisited>>,
           lost => lost',
           byRun' \/ (byRun' = byRun /\ declared' = declared),
           \A t \in TASKS : task[t].pc \in LATE => lost' \/ task'[t] = task[t],
           \A t \in TASKS : task'[t].pc \in LATE => task'[t] = task[t]
    PROVE  IInv'
<1>1. KeeperTypes /\ Numbered /\ Placed /\ Together /\ Explained
  BY DEF IInv
<1>2. Latest' = Latest /\ MaxNumber' = MaxNumber /\ \A sha : Stored(sha)' = Stored(sha)
  BY SameLatest
<1>3. \A places \in SUBSET LATE :
        /\ \A t \in At(places)' : t \in At(places) /\ task'[t] = task[t]
        /\ lost' \/ At(places)' = At(places)
  BY DEF At
<1>4. Numbered'
  BY <1>1 DEF Numbered
<1>5. /\ {"insert"} \in SUBSET LATE /\ {"mark"} \in SUBSET LATE /\ {"compare"} \in SUBSET LATE
      /\ {"raise"} \in SUBSET LATE /\ {"deliver"} \in SUBSET LATE /\ LATE \in SUBSET LATE
      /\ {"extract", "insert", "mark"} \in SUBSET LATE
      /\ {"extract", "insert", "mark", "norms"} \in SUBSET LATE
      /\ LATE \ {"extract", "insert", "mark"} \in SUBSET LATE
      /\ {"mark", "norms", "compare"} \in SUBSET LATE
  BY DEF LATE, REBUILDING
<1>6. Placed'
  <2>1. \A t \in At({"insert"})' :
          /\ ~Stored(task[t].sha)' /\ task'[t] = task[t]
          /\ task[t].number = MaxNumber' + 1 /\ task[t].previous = Latest'
    BY <1>1, <1>2, <1>3, <1>5 DEF Placed
  <2>2. \A t \in At({"mark"})' : Latest' = task'[t].sha
    BY <1>1, <1>2, <1>3, <1>5 DEF Placed
  <2>3. \A t \in At({"compare"})' : task'[t].previous \notin {NoSha, task'[t].sha}
    BY <1>1, <1>3, <1>5 DEF Placed
  <2>4. \A t \in At({"raise"})' :
          \E x \in changes' : x.to = task'[t].sha /\ x.level = task'[t].level
    BY <1>1, <1>3, <1>5 DEF Placed
  <2>5. \A t \in At({"deliver"})' :
          Webhook /\ \E n \in notices' : n.sha = task'[t].sha /\ n.level = "major"
    BY <1>1, <1>3, <1>5 DEF Placed
  <2> QED BY <2>1, <2>2, <2>3, <2>4, <2>5 DEF Placed, Stored
<1>7. CASE lost'
  BY <1>4, <1>6, <1>7 DEF IInv, Together, Explained
<1>8. CASE ~lost'
  <2>1. ~lost /\ \A places \in SUBSET LATE : At(places)' = At(places)
    BY <1>3, <1>8
  <2>2. \A t \in At(LATE) : task'[t] = task[t]
    BY <1>3, <1>5, <2>1
  <2>3. Together'
    <3>1. /\ At({"mark"})' = At({"mark"}) /\ At(LATE)' = At(LATE)
          /\ At({"extract", "insert", "mark"})' = At({"extract", "insert", "mark"})
          /\ At({"extract", "insert", "mark", "norms"})' = At({"extract", "insert", "mark", "norms"})
          /\ At(LATE \ {"extract", "insert", "mark"})' = At(LATE \ {"extract", "insert", "mark"})
      BY <1>5, <2>1
    <3>2. At(LATE \ {"extract", "insert", "mark"}) \subseteq At(LATE)
      BY DEF At
    <3> QED BY <1>1, <1>2, <2>1, <2>2, <3>1, <3>2 DEF Together
  <2>4. Explained'
    <3>1. /\ Unexplained' = Unexplained /\ At({"raise"})' = At({"raise"})
          /\ At({"deliver"})' = At({"deliver"})
      BY <1>5, <2>1 DEF Unexplained
    <3>2. /\ Unexplained \subseteq At(LATE) /\ At({"raise"}) \subseteq At(LATE)
          /\ At({"deliver"}) \subseteq At(LATE)
      BY <1>5 DEF At, Unexplained
    <3>3. ~lost /\ Explained
      BY <1>1, <2>1
    <3> QED BY <2>2, <3>1, <3>2, <3>3 DEF Explained
  <2> QED BY <1>4, <1>6, <2>3, <2>4 DEF IInv
<1> QED BY <1>7, <1>8

\* What becomes of a task, and of the other ones.
LEMMA OneTask ==
    ASSUME KeeperTypes, NEW t \in TASKS, NEW k \in Task, task' = [task EXCEPT ![t] = k]
    PROVE  task' \in [TASKS -> Task] /\ task'[t] = k /\ \A u \in TASKS \ {t} : task'[u] = task[u]
BY DEF KeeperTypes

\* A task that begins, waits or ends leaves a rebuild alone.
LEMMA Waits ==
    ASSUME IInv, NEW t \in TASKS, NEW k \in Task, task' = [task EXCEPT ![t] = k],
           task[t].pc \notin LATE, k.pc \in {"idle", "begin", "answer", "wait"},
           k.pc \notin {"idle", "begin"} => k.sha \in Commit, remote' \in Sha,
           UNCHANGED <<charter_sha, atlas, charters, declared, changes, notices,
                       lost, revisited, byRun>>
    PROVE  IInv'
<1>1. KeeperTypes /\ OneBuilder
  BY DEF IInv
<1>2. task' \in [TASKS -> Task] /\ task'[t] = k /\ \A u \in TASKS \ {t} : task'[u] = task[u]
  BY <1>1, OneTask
<1>3. KeeperTypes'
  BY <1>1, <1>2 DEF KeeperTypes
<1>4. \A u \in TASKS : Building(u)' => Building(u)
  BY <1>2 DEF Building, REBUILDING
<1>5. OneBuilder'
  BY <1>1, <1>4 DEF OneBuilder
<1>6. \A u \in TASKS : task[u].pc \in LATE \/ task'[u].pc \in LATE => task'[u] = task[u]
  BY <1>2 DEF LATE, REBUILDING
<1> QED BY <1>3, <1>5, <1>6, Elsewhere

LEMMA TaskFields ==
    ASSUME KeeperTypes, NEW t \in TASKS
    PROVE  /\ task[t] \in Task /\ IdleTask \in Task
           /\ \A pc \in {"idle", "begin", "answer", "wait"} \cup REBUILDING,
                 sha \in Commit \cup {NoSha} :
                /\ [task[t] EXCEPT !.pc = pc] \in Task
                /\ [task[t] EXCEPT !.pc = pc, !.sha = sha] \in Task
BY DEF KeeperTypes, Task, IdleTask, Level

LEMMA OutsideSteps ==
    ASSUME IInv,
           \/ Check \/ BeginReading \/ BeginReadingBranch
           \/ \E t \in TASKS : Answer(t)
           \/ \E sha \in Sha : Push(sha) \/ RunFindsNoNorms(sha)
           \/ \E sha \in Commit : Request(sha)
           \/ RunStoresNorms
    PROVE  IInv'
<1>0. KeeperTypes /\ OneBuilder /\ Branch \in Commit /\ Sha \subseteq Commit /\ remote \in Commit
  BY DEF IInv, Commit, KeeperTypes
<1>1. CASE Check
  <2>1. [task[Watcher] EXCEPT !.pc = "answer", !.sha = remote] \in Task /\ Watcher \in TASKS
    BY <1>0, TaskFields DEF TASKS
  <2> DEFINE k == [task[Watcher] EXCEPT !.pc = "answer", !.sha = remote]
  <2>2. k.pc = "answer" /\ k.sha = remote /\ task[Watcher].pc \notin LATE
    BY <1>0, <1>1 DEF Check, KeeperTypes, Task, LATE, REBUILDING, TASKS
  <2>3. task' = [task EXCEPT ![Watcher] = k]
    BY <1>1 DEF Check
  <2> HIDE DEF k
  <2> QED BY <1>0, <1>1, <2>1, <2>2, <2>3, Waits DEF Check, rowVars, historyVars, k, KeeperTypes
<1>2. CASE BeginReading \/ BeginReadingBranch
  <2>1. PICK sha \in {remote, Branch} :
          \/ task' = [task EXCEPT ![Reader] = IdleTask]
          \/ task' = [task EXCEPT ![Reader] = [task[Reader] EXCEPT !.pc = "answer", !.sha = sha]]
    BY <1>2 DEF BeginReading, BeginReadingBranch, Finish
  <2>2. /\ task[Reader].pc \notin LATE /\ Reader \in TASKS
        /\ remote' = remote /\ UNCHANGED <<rowVars, lost, revisited, byRun>>
    BY <1>2 DEF BeginReading, BeginReadingBranch, LATE, REBUILDING, TASKS, historyVars
  <2> DEFINE k == [task[Reader] EXCEPT !.pc = "answer", !.sha = sha]
  <2>3. k \in Task /\ IdleTask \in Task
    BY <1>0, <2>2, TaskFields
  <2>4. k.pc = "answer" /\ k.sha = sha /\ IdleTask.pc = "idle"
    BY <1>0, <2>2 DEF KeeperTypes, Task, IdleTask
  <2> HIDE DEF k
  <2>5. CASE task' = [task EXCEPT ![Reader] = IdleTask]
    BY <1>0, <2>2, <2>3, <2>4, <2>5, Waits DEF rowVars, KeeperTypes
  <2>6. CASE task' = [task EXCEPT ![Reader] = k]
    BY <1>0, <2>2, <2>3, <2>4, <2>6, Waits DEF rowVars, KeeperTypes
  <2> QED BY <2>1, <2>5, <2>6 DEF k
<1>3. ASSUME NEW t \in TASKS, Answer(t) PROVE IInv'
  <2> DEFINE k == [task[t] EXCEPT !.pc = "wait"]
  <2>1. k \in Task /\ IdleTask \in Task
    <3>1. "wait" \in {"idle", "begin", "answer", "wait"} \cup REBUILDING
      OBVIOUS
    <3> QED BY <1>0, <3>1, TaskFields
  <2>2. k.pc = "wait" /\ k.sha \in Commit /\ IdleTask.pc = "idle" /\ task[t].pc \notin LATE
    BY <1>0, <1>3 DEF Answer, KeeperTypes, Task, IdleTask, LATE, REBUILDING
  <2>3. task' = [task EXCEPT ![t] = IdleTask] \/ task' = [task EXCEPT ![t] = k]
    BY <1>3 DEF Answer, Finish, Becomes
  <2>4. UNCHANGED <<remote, charter_sha, atlas, charters, declared, changes, notices, historyVars>>
    BY <1>3 DEF Answer
  <2> HIDE DEF k
  <2>5. CASE task' = [task EXCEPT ![t] = IdleTask]
    BY <1>0, <2>1, <2>2, <2>4, <2>5, Waits DEF historyVars, KeeperTypes
  <2>6. CASE task' = [task EXCEPT ![t] = k]
    BY <1>0, <2>1, <2>2, <2>4, <2>6, Waits DEF historyVars, KeeperTypes
  <2> QED BY <2>3, <2>5, <2>6
<1>4. ASSUME NEW sha \in Commit, Request(sha) PROVE IInv'
  <2> DEFINE k == [task[Caller] EXCEPT !.pc = "wait", !.sha = sha]
  <2>1. k \in Task /\ Caller \in TASKS
    BY <1>0, TaskFields DEF TASKS
  <2>2. k.pc = "wait" /\ k.sha = sha /\ task[Caller].pc \notin LATE
    BY <1>0, <1>4, <2>1 DEF Request, KeeperTypes, Task, LATE, REBUILDING
  <2>3. task' = [task EXCEPT ![Caller] = k]
    BY <1>4 DEF Request
  <2> HIDE DEF k
  <2> QED BY <1>0, <1>4, <2>1, <2>2, <2>3, Waits DEF Request, rowVars, KeeperTypes
<1>5. ASSUME UNCHANGED <<charter_sha, atlas, charters, changes, notices, task, revisited, lost>>,
             remote' \in Sha, byRun' \in BOOLEAN,
             byRun' \/ (byRun' = byRun /\ declared' = declared)
      PROVE  IInv'
  <2>1. KeeperTypes' /\ OneBuilder'
    BY <1>0, <1>5 DEF KeeperTypes, OneBuilder, Building
  <2> QED BY <1>5, <2>1, Elsewhere
<1>6. ASSUME NEW sha \in Sha, Push(sha) \/ RunFindsNoNorms(sha) PROVE IInv'
  BY <1>0, <1>5, <1>6 DEF Push, RunFindsNoNorms, rowVars, KeeperTypes
<1>7. CASE RunStoresNorms
  BY <1>0, <1>5, <1>7 DEF RunStoresNorms, KeeperTypes
<1> QED BY <1>1, <1>2, <1>3, <1>4, <1>6, <1>7

LEMMA EnterStep ==
    ASSUME IInv, NEW t \in TASKS, Enter(t)
    PROVE  IInv'
<1>1. KeeperTypes /\ OneBuilder
  BY DEF IInv
<1> DEFINE k == [task[t] EXCEPT !.pc = "build"]
<1>2. k \in Task
  <2>1. "build" \in {"idle", "begin", "answer", "wait"} \cup REBUILDING
    BY DEF REBUILDING
  <2> QED BY <1>1, <2>1, TaskFields
<1>3. k.pc = "build" /\ k.sha = task[t].sha /\ task[t].pc = "wait" /\ LockFree
  BY <1>1 DEF Enter, KeeperTypes, Task
<1>4. /\ task' = [task EXCEPT ![t] = k]
      /\ UNCHANGED <<remote, charter_sha, atlas, charters, declared, changes, notices, lost,
                     revisited, byRun>>
  BY DEF Enter, Becomes, rowVars, historyVars
<1> HIDE DEF k
<1>5. task' \in [TASKS -> Task] /\ task'[t] = k /\ \A u \in TASKS \ {t} : task'[u] = task[u]
  BY <1>1, <1>2, <1>4, OneTask
<1>6. KeeperTypes'
  BY <1>1, <1>3, <1>4, <1>5 DEF KeeperTypes
<1>7. OneBuilder'
  BY <1>3, <1>5 DEF OneBuilder, LockFree, Building
<1>8. \A u \in TASKS : task[u].pc \in LATE \/ task'[u].pc \in LATE => task'[u] = task[u]
  BY <1>3, <1>5 DEF LATE, REBUILDING
<1> QED BY <1>4, <1>6, <1>7, <1>8, Elsewhere

\* A rebuild that fails, and the end of the process, leave what is stored as it is.
LEMMA FailStep ==
    ASSUME IInv, NEW t \in TASKS, RebuildFails(t)
    PROVE  IInv'
<1>1. KeeperTypes /\ OneBuilder
  BY DEF IInv
<1>2. /\ task' = [task EXCEPT ![t] = IdleTask] /\ lost'
      /\ UNCHANGED <<remote, charter_sha, atlas, charters, declared, changes, notices, revisited, byRun>>
  BY DEF RebuildFails, Finish, rowVars
<1>3. IdleTask \in Task /\ IdleTask.pc = "idle"
  BY <1>1, TaskFields DEF IdleTask
<1>4. task' \in [TASKS -> Task] /\ task'[t] = IdleTask /\ \A u \in TASKS \ {t} : task'[u] = task[u]
  BY <1>1, <1>2, <1>3, OneTask
<1>5. lost' \in BOOLEAN
  BY DEF RebuildFails
<1>6. KeeperTypes'
  BY <1>1, <1>2, <1>3, <1>4, <1>5 DEF KeeperTypes
<1>7. OneBuilder'
  BY <1>1, <1>3, <1>4 DEF OneBuilder, Building, REBUILDING
<1>8. \A u \in TASKS : task'[u].pc \in LATE => task'[u] = task[u]
  BY <1>3, <1>4 DEF LATE, REBUILDING
<1> QED BY <1>2, <1>6, <1>7, <1>8, Elsewhere

LEMMA CrashStep ==
    ASSUME IInv, Crash
    PROVE  IInv'
<1>1. KeeperTypes /\ OneBuilder
  BY DEF IInv
<1>2. /\ \A t \in TASKS : task'[t] \in Task /\ task'[t].pc \in {"idle", "begin"}
      /\ task' \in [TASKS -> Task]
  <2>1. IdleTask \in Task /\ [IdleTask EXCEPT !.pc = "begin"] \in Task
    BY DEF IdleTask, Task, Level
  <2>2. IdleTask.pc = "idle" /\ [IdleTask EXCEPT !.pc = "begin"].pc = "begin"
    BY DEF IdleTask
  <2>3. task' = [t \in TASKS |-> IF t = Reader THEN [IdleTask EXCEPT !.pc = "begin"] ELSE IdleTask]
    BY DEF Crash, Starting
  <2> HIDE DEF IdleTask
  <2> QED BY <2>1, <2>2, <2>3
<1>3. /\ UNCHANGED <<remote, charter_sha, atlas, charters, declared, changes, notices, revisited, byRun>>
      /\ lost' \in BOOLEAN /\ (lost => lost')
      /\ \A t \in TASKS : task[t].pc \in LATE => lost'
  BY <1>1 DEF Crash, rowVars, KeeperTypes, LATE, Building
<1>4. KeeperTypes'
  BY <1>1, <1>2, <1>3 DEF KeeperTypes
<1>5. \A t \in TASKS : task'[t].pc \notin REBUILDING
  BY <1>2 DEF REBUILDING
<1>6. OneBuilder'
  BY <1>5 DEF OneBuilder, Building
<1> QED BY <1>3, <1>4, <1>5, <1>6, Elsewhere DEF LATE
----------------------------------------------------------------------------
(* The steps of a rebuild *)

\* The task that rebuilds is the only one, before the step and after it.
Sole(t, k) ==
    /\ task' \in [TASKS -> Task] /\ task'[t] = k /\ OneBuilder'
    /\ \A u \in TASKS : task'[u].pc \notin {"idle", "begin"} => task'[u].sha \in Commit
    /\ \A places \in SUBSET REBUILDING :
         /\ At(places) = IF task[t].pc \in places THEN {t} ELSE {}
         /\ At(places)' = IF k.pc \in places THEN {t} ELSE {}

LEMMA Alone ==
    ASSUME IInv, NEW t \in TASKS, Building(t), NEW k \in Task, task' = [task EXCEPT ![t] = k],
           k.pc = "idle" \/ (k.pc \in REBUILDING /\ k.sha = task[t].sha)
    PROVE  Sole(t, k)
<1>1. KeeperTypes /\ OneBuilder
  BY DEF IInv
<1>2. task' \in [TASKS -> Task] /\ task'[t] = k /\ \A u \in TASKS \ {t} : task'[u] = task[u]
  BY <1>1, OneTask
<1>3. task[t].pc \in REBUILDING /\ \A u \in TASKS \ {t} : task[u].pc \notin REBUILDING
  BY <1>1 DEF OneBuilder, Building
<1>4. OneBuilder'
  BY <1>2, <1>3 DEF OneBuilder, Building
<1>5. \A u \in TASKS : task'[u].pc \notin {"idle", "begin"} => task'[u].sha \in Commit
  <2>1. task[t].sha \in Commit
    BY <1>1, <1>3 DEF KeeperTypes, REBUILDING
  <2> QED BY <1>1, <1>2, <2>1 DEF KeeperTypes
<1>6. ASSUME NEW places \in SUBSET REBUILDING
      PROVE  /\ At(places) = IF task[t].pc \in places THEN {t} ELSE {}
             /\ At(places)' = IF k.pc \in places THEN {t} ELSE {}
  <2>1. \A u \in TASKS \ {t} : task[u].pc \notin places /\ task'[u].pc \notin places
    BY <1>2, <1>3
  <2> QED BY <1>2, <2>1 DEF At
<1> QED BY <1>2, <1>4, <1>5, <1>6 DEF Sole

\* The places a rebuild's obligations are about.
LEMMA LatePlaces ==
    /\ {"insert"} \in SUBSET REBUILDING /\ {"mark"} \in SUBSET REBUILDING
    /\ {"compare"} \in SUBSET REBUILDING /\ {"raise"} \in SUBSET REBUILDING
    /\ {"deliver"} \in SUBSET REBUILDING /\ LATE \in SUBSET REBUILDING
    /\ {"extract", "insert", "mark"} \in SUBSET REBUILDING
    /\ {"extract", "insert", "mark", "norms"} \in SUBSET REBUILDING
    /\ LATE \ {"extract", "insert", "mark"} \in SUBSET REBUILDING
    /\ {"mark", "norms", "compare"} \in SUBSET REBUILDING
BY DEF LATE, REBUILDING

LEMMA BuildAtlasStep ==
    ASSUME IInv, NEW t \in TASKS, BuildAtlas(t)
    PROVE  IInv'
<1>1. KeeperTypes /\ OneBuilder /\ Numbered /\ Placed /\ Together /\ Explained
  BY DEF IInv
<1> DEFINE k == [task[t] EXCEPT !.pc = "extract"]
<1>2. k \in Task /\ "extract" \in REBUILDING
  <2>1. "extract" \in REBUILDING
    BY DEF REBUILDING
  <2> QED BY <1>1, <2>1, TaskFields
<1>3. /\ task[t].pc = "build" /\ k.pc = "extract" /\ k.sha = task[t].sha
      /\ task' = [task EXCEPT ![t] = k] /\ atlas' = k.sha
      /\ UNCHANGED <<remote, branch_head, charter_sha, charters, declared, changes, notices,
                     lost, revisited, byRun>>
  BY <1>1 DEF BuildAtlas, Becomes, KeeperTypes, Task, historyVars
<1> HIDE DEF k
<1>4. Sole(t, k)
  <2>1. Building(t) /\ k.pc \in REBUILDING
    BY <1>2, <1>3 DEF Building, REBUILDING
  <2> QED BY <1>2, <1>3, <2>1, Alone
<1>5. Latest' = Latest /\ Numbered'
  BY <1>1, <1>3, SameLatest DEF Numbered
<1>6. KeeperTypes'
  BY <1>1, <1>3, <1>4 DEF KeeperTypes, Sole
<1>7. /\ At({"insert"})' = {} /\ At({"mark"})' = {} /\ At({"compare"})' = {}
      /\ At({"raise"})' = {} /\ At({"deliver"})' = {} /\ Unexplained' = {}
      /\ At(LATE \ {"extract", "insert", "mark"})' = {} /\ At(LATE)' = {t}
      /\ At({"extract", "insert", "mark"})' = {t}
      /\ At({"extract", "insert", "mark", "norms"})' = {t}
  BY <1>3, <1>4, LatePlaces DEF Sole, Unexplained, LATE, REBUILDING
<1>8. /\ At({"mark"}) = {} /\ At({"raise"}) = {} /\ At({"deliver"}) = {} /\ Unexplained = {}
  BY <1>3, <1>4, LatePlaces DEF Sole, Unexplained
<1>9. Placed'
  BY <1>7 DEF Placed
<1>10. Together'
  BY <1>1, <1>3, <1>4, <1>5, <1>7, <1>8 DEF Together, Sole
<1>11. Explained'
  BY <1>1, <1>3, <1>7, <1>8 DEF Explained
<1> QED BY <1>4, <1>5, <1>6, <1>9, <1>10, <1>11 DEF IInv, Sole

\* put_charter looks for the commit before it adds it.
LEMMA ExtractStep ==
    ASSUME IInv, NEW t \in TASKS, Extract(t)
    PROVE  IInv'
<1>1. KeeperTypes /\ OneBuilder /\ Numbered /\ Placed /\ Together /\ Explained
  BY DEF IInv
<1>2. PICK pc \in {"norms", "insert"} : pc = IF Stored(task[t].sha) THEN "norms" ELSE "insert"
  OBVIOUS
<1> DEFINE k == [task[t] EXCEPT !.pc = pc, !.previous = Latest, !.number = MaxNumber + 1]
<1>3. k \in Task /\ pc \in REBUILDING
  <2>1. MaxNumber + 1 \in Nat /\ Latest \in Commit \cup {NoSha}
    BY <1>1, LatestTypes
  <2>2. task[t] \in Task
    BY <1>1, TaskFields
  <2> QED BY <2>1, <2>2 DEF REBUILDING, Task
<1>4. /\ task[t].pc = "extract" /\ k.pc = pc /\ k.sha = task[t].sha
      /\ k.previous = Latest /\ k.number = MaxNumber + 1
      /\ task' = [task EXCEPT ![t] = k]
      /\ revisited' = (revisited \/ (Stored(k.sha) /\ k.sha # Latest))
      /\ UNCHANGED <<remote, rowVars, lost, byRun>>
  BY <1>1, <1>2 DEF Extract, KeeperTypes, Task
<1> HIDE DEF k
<1>5. Sole(t, k)
  <2>1. Building(t)
    BY <1>4 DEF Building, REBUILDING
  <2> QED BY <1>3, <1>4, <2>1, Alone
<1>6. Latest' = Latest /\ MaxNumber' = MaxNumber /\ Numbered'
      /\ \A sha : Stored(sha)' = Stored(sha)
  BY <1>1, <1>4, SameLatest DEF Numbered, rowVars
<1>7. KeeperTypes'
  BY <1>1, <1>4, <1>5 DEF KeeperTypes, Sole, rowVars
<1>8. /\ At({"mark"})' = {} /\ At({"compare"})' = {} /\ At({"raise"})' = {}
      /\ At({"deliver"})' = {} /\ At(LATE)' = {t}
      /\ At({"insert"})' = (IF pc = "insert" THEN {t} ELSE {})
      /\ At(LATE \ {"extract", "insert", "mark"})' = (IF pc = "norms" THEN {t} ELSE {})
      /\ At({"extract", "insert", "mark"})' = (IF pc = "insert" THEN {t} ELSE {})
      /\ At({"extract", "insert", "mark", "norms"})' = {t}
  BY <1>4, <1>5, LatePlaces DEF Sole, LATE, REBUILDING
<1>9. /\ At({"mark"}) = {} /\ At({"raise"}) = {} /\ At({"deliver"}) = {} /\ Unexplained = {}
      /\ At(LATE) = {t}
  BY <1>4, <1>5, LatePlaces DEF Sole, Unexplained, LATE, REBUILDING
<1>10. Placed'
  <2>1. ASSUME pc = "insert"
        PROVE  /\ \A c \in charters' : c.sha # k.sha
               /\ k.number = MaxNumber' + 1 /\ k.previous = Latest'
    <3>1. ~Stored(k.sha) /\ charters' = charters
      BY <1>2, <1>4, <2>1 DEF rowVars
    <3> QED BY <1>4, <1>6, <3>1 DEF Stored
  <2>2. \A u \in At({"insert"})' : /\ \A c \in charters' : c.sha # task'[u].sha
                                   /\ task'[u].number = MaxNumber' + 1 /\ task'[u].previous = Latest'
    BY <1>5, <1>8, <2>1 DEF Sole
  <2> QED BY <1>8, <2>2 DEF Placed, Stored
<1>11. Together'
  <2>1. CASE lost' \/ revisited'
    BY <2>1 DEF Together
  <2>2. CASE ~lost' /\ ~revisited'
    <3>1. ~lost /\ ~revisited
      BY <1>4, <2>2
    <3>2. Latest = charter_sha /\ atlas = k.sha
      BY <1>1, <1>4, <1>9, <3>1 DEF Together
    <3>3. pc = "norms" => k.sha = Latest
      BY <1>2, <1>4, <2>2
    <3>4. UNCHANGED <<charter_sha, atlas, declared>>
      BY <1>4 DEF rowVars
    <3> QED BY <1>2, <1>5, <1>6, <1>8, <3>2, <3>3, <3>4 DEF Together, Sole
  <2> QED BY <2>1, <2>2
<1>12. Explained'
  BY <1>1, <1>4, <1>8, <1>9 DEF Explained, rowVars
<1> QED BY <1>5, <1>6, <1>7, <1>10, <1>11, <1>12 DEF IInv, Sole

\* The new charter has a number of its own, and becomes the latest.
LEMMA InsertStep ==
    ASSUME IInv, NEW t \in TASKS, Insert(t)
    PROVE  IInv'
<1>1. KeeperTypes /\ OneBuilder /\ Numbered /\ Placed /\ Together /\ Explained
  BY DEF IInv
<1> DEFINE k == [task[t] EXCEPT !.pc = "mark"]
<1>2. k \in Task /\ "mark" \in REBUILDING
  <2>1. "mark" \in REBUILDING
    BY DEF REBUILDING
  <2> QED BY <1>1, <2>1, TaskFields
<1>3. /\ task[t].pc = "insert" /\ k.pc = "mark" /\ k.sha = task[t].sha
      /\ k.previous = task[t].previous /\ k.number = task[t].number
      /\ task' = [task EXCEPT ![t] = k] /\ ~Stored(k.sha)
      /\ charters' = charters \cup {[sha |-> k.sha, number |-> k.number]}
      /\ UNCHANGED <<remote, branch_head, charter_sha, atlas, declared, changes, notices,
                     lost, revisited, byRun>>
  BY <1>1 DEF Insert, Becomes, KeeperTypes, Task, historyVars
<1> HIDE DEF k
<1>4. Sole(t, k)
  <2>1. Building(t) /\ k.pc \in REBUILDING
    BY <1>2, <1>3 DEF Building, REBUILDING
  <2> QED BY <1>2, <1>3, <2>1, Alone
<1>5. k.number = MaxNumber + 1 /\ k.previous = Latest
  <2>1. t \in At({"insert"})
    BY <1>3 DEF At
  <2> QED BY <1>1, <1>3, <2>1 DEF Placed
<1>6. k.sha \in Commit /\ k.number \in Nat
  BY <1>1, <1>2, <1>3 DEF KeeperTypes, Task
<1>7. PICK new : /\ new = [sha |-> k.sha, number |-> k.number] /\ charters' = charters \cup {new}
                 /\ new.sha = k.sha /\ new.number = k.number
  <2>1. PICK new : new = [sha |-> k.sha, number |-> k.number]
    OBVIOUS
  <2>2. charters' = charters \cup {new} /\ new.sha = k.sha /\ new.number = k.number
    BY <1>3, <2>1
  <2> QED BY <2>1, <2>2, Zenon
<1>8. /\ \A c \in charters : /\ c.number \in Nat /\ c.number > 0 /\ c.number < new.number
                             /\ c.sha # new.sha /\ c.sha \in Commit
                             /\ (new.number = c.number + 1 => c.sha = Latest)
      /\ new.number > 0
  <2>1. CASE charters = {}
    <3>1. MaxNumber = 0
      BY <1>1, <2>1, Newest
    <3> QED BY <1>5, <1>7, <2>1, <3>1
  <2>2. CASE charters # {}
    <3>1. PICK top \in charters : IsLatest(top)
      BY <1>1, <2>2, Newest
    <3>2. /\ \A c \in charters : c.number \in Nat /\ c.number > 0 /\ c.sha \in Commit
          /\ top.number \in Nat /\ new.number = top.number + 1
          /\ \A c \in charters : c.number <= top.number
      BY <1>1, <1>5, <1>7, <3>1 DEF IsLatest, KeeperTypes, Numbered
    <3>3. \A c \in charters : c.number < new.number
      BY <3>2
    <3>4. \A c \in charters : c.sha # new.sha
      BY <1>3, <1>7 DEF Stored
    <3>5. ASSUME NEW c \in charters, new.number = c.number + 1 PROVE c.sha = Latest
      <4>1. c.number = top.number
        BY <3>2, <3>5
      <4>2. c = top
        BY <1>1, <3>1, <4>1 DEF Numbered
      <4> QED BY <3>1, <4>2 DEF IsLatest
    <3> QED BY <3>2, <3>3, <3>4, <3>5
  <2> QED BY <2>1, <2>2
<1>9. KeeperTypes'
  BY <1>1, <1>3, <1>4, <1>6 DEF KeeperTypes, Sole
<1>10. Numbered'
  <2>1. \A c, d \in charters' : (c.number = d.number => c = d) /\ (c.sha = d.sha => c = d)
    <3>1. ASSUME NEW c \in charters', NEW d \in charters'
          PROVE  (c.number = d.number => c = d) /\ (c.sha = d.sha => c = d)
      <4>1. CASE c = new /\ d = new
        BY <4>1
      <4>2. CASE c \in charters /\ d \in charters
        BY <1>1, <4>2 DEF Numbered
      <4>3. CASE c = new /\ d \in charters
        BY <1>8, <4>3
      <4>4. CASE c \in charters /\ d = new
        BY <1>8, <4>4
      <4> QED BY <1>7, <3>1, <4>1, <4>2, <4>3, <4>4
    <3> QED BY <3>1
  <2>2. \A c \in charters' : c.number > 0
    BY <1>7, <1>8
  <2>3. new \in charters' /\ \A d \in charters' : d.number <= new.number
    BY <1>6, <1>7, <1>8
  <2> QED BY <2>1, <2>2, <2>3 DEF Numbered
<1>11. Latest' = k.sha
  <2>1. (/\ charters = {} => MaxNumber = 0 /\ Latest = NoSha
         /\ \A top \in charters : (\A d \in charters : d.number <= top.number) => IsLatest(top)
         /\ charters # {} => \E top \in charters : IsLatest(top))'
    BY <1>9, <1>10, Newest, PTL
  <2>2. new \in charters' /\ \A d \in charters' : d.number <= new.number
    BY <1>6, <1>7, <1>8
  <2>3. \A top \in charters' : (\A d \in charters' : d.number <= top.number) => IsLatest(top)'
    BY <2>1
  <2>4. IsLatest(new)'
    BY <2>2, <2>3
  <2> QED BY <1>7, <2>4 DEF IsLatest
<1>12. /\ At({"insert"})' = {} /\ At({"mark"})' = {t} /\ At({"compare"})' = {}
       /\ At({"raise"})' = {} /\ At({"deliver"})' = {} /\ Unexplained' = {t} /\ At(LATE)' = {t}
       /\ At(LATE \ {"extract", "insert", "mark"})' = {}
       /\ At({"extract", "insert", "mark"})' = {t}
       /\ At({"extract", "insert", "mark", "norms"})' = {t}
  BY <1>3, <1>4, LatePlaces DEF Sole, Unexplained, LATE, REBUILDING
<1>13. /\ At({"raise"}) = {} /\ At({"deliver"}) = {} /\ Unexplained = {} /\ At(LATE) = {t}
  BY <1>3, <1>4, LatePlaces DEF Sole, Unexplained, LATE, REBUILDING
<1>14. Placed'
  BY <1>4, <1>11, <1>12 DEF Placed, Sole
<1>15. Together'
  BY <1>1, <1>3, <1>4, <1>12, <1>13 DEF Together, Sole
<1>16. Explained'
  <2>1. CASE lost'
    BY <2>1 DEF Explained
  <2>2. CASE ~lost'
    <3>1. ~lost /\ UNCHANGED <<changes, notices>>
      BY <1>3, <2>2
    <3>2. ASSUME NEW c \in charters', NEW d \in charters', d.number = c.number + 1
          PROVE  \/ \E x \in changes : x.from = c.sha /\ x.to = d.sha
                 \/ c.sha = k.previous /\ d.sha = k.sha
      <4>1. CASE c \in charters /\ d \in charters
        BY <1>1, <1>13, <3>1, <3>2, <4>1 DEF Explained
      <4>2. CASE c \in charters /\ d = new
        BY <1>5, <1>7, <1>8, <3>2, <4>2
      <4>3. CASE c = new
        <5>1. d.number <= new.number /\ new.number \in Nat
          BY <1>6, <1>7, <1>8
        <5> QED BY <3>2, <4>3, <5>1
      <4> QED BY <1>7, <3>2, <4>1, <4>2, <4>3
    <3>3. \A c, d \in charters' : d.number = c.number + 1 =>
            \/ \E x \in changes' : x.from = c.sha /\ x.to = d.sha
            \/ \E u \in Unexplained' : c.sha = task'[u].previous /\ d.sha = task'[u].sha
      BY <1>4, <1>12, <3>1, <3>2 DEF Sole
    <3> QED BY <1>1, <1>12, <1>13, <3>1, <3>3 DEF Explained
  <2> QED BY <2>1, <2>2
<1> QED BY <1>4, <1>9, <1>10, <1>14, <1>15, <1>16 DEF IInv, Sole

LEMMA MarkRowStep ==
    ASSUME IInv, NEW t \in TASKS, MarkRow(t)
    PROVE  IInv'
<1>1. KeeperTypes /\ OneBuilder /\ Numbered /\ Placed /\ Together /\ Explained
  BY DEF IInv
<1> DEFINE k == [task[t] EXCEPT !.pc = "norms"]
<1>2. k \in Task /\ "norms" \in REBUILDING
  <2>1. "norms" \in REBUILDING
    BY DEF REBUILDING
  <2> QED BY <1>1, <2>1, TaskFields
<1>3. /\ task[t].pc = "mark" /\ k.pc = "norms" /\ k.sha = task[t].sha
      /\ k.previous = task[t].previous
      /\ task' = [task EXCEPT ![t] = k] /\ charter_sha' = k.sha
      /\ UNCHANGED <<remote, branch_head, atlas, charters, declared, changes, notices,
                     lost, revisited, byRun>>
  BY <1>1 DEF MarkRow, Becomes, KeeperTypes, Task, historyVars
<1> HIDE DEF k
<1>4. Sole(t, k)
  <2>1. Building(t) /\ k.pc \in REBUILDING
    BY <1>2, <1>3 DEF Building, REBUILDING
  <2> QED BY <1>2, <1>3, <2>1, Alone
<1>5. Latest' = Latest /\ Numbered'
  BY <1>1, <1>3, SameLatest DEF Numbered
<1>6. KeeperTypes'
  BY <1>1, <1>3, <1>4 DEF KeeperTypes, Sole
<1>7. /\ At({"insert"})' = {} /\ At({"mark"})' = {} /\ At({"compare"})' = {}
      /\ At({"raise"})' = {} /\ At({"deliver"})' = {} /\ Unexplained' = {t}
      /\ At(LATE \ {"extract", "insert", "mark"})' = {t} /\ At(LATE)' = {t}
      /\ At({"extract", "insert", "mark", "norms"})' = {t}
  BY <1>3, <1>4, LatePlaces DEF Sole, Unexplained, LATE, REBUILDING
<1>8. /\ At({"mark"}) = {t} /\ At({"raise"}) = {} /\ At({"deliver"}) = {} /\ Unexplained = {t}
      /\ At(LATE) = {t}
  BY <1>3, <1>4, LatePlaces DEF Sole, Unexplained, LATE, REBUILDING
<1>9. Placed'
  BY <1>7 DEF Placed
<1>10. Together'
  <2>1. Latest = k.sha
    BY <1>1, <1>3, <1>8 DEF Placed
  <2> QED BY <1>1, <1>3, <1>4, <1>5, <1>7, <1>8, <2>1 DEF Together, Sole
<1>11. Explained'
  <2>1. task'[t] = k
    BY <1>4 DEF Sole
  <2> QED BY <1>1, <1>3, <1>7, <1>8, <2>1 DEF Explained
<1> QED BY <1>4, <1>5, <1>6, <1>9, <1>10, <1>11 DEF IInv, Sole

\* A first charter, and one of the commit that has been read before, explain themselves.
LEMMA ReplaceNormsStep ==
    ASSUME IInv, NEW t \in TASKS, ReplaceNorms(t)
    PROVE  IInv'
<1>1. KeeperTypes /\ OneBuilder /\ Numbered /\ Placed /\ Together /\ Explained
  BY DEF IInv
<1> DEFINE first == task[t].previous \in {NoSha, task[t].sha}
           k == IF first THEN IdleTask ELSE [task[t] EXCEPT !.pc = "compare"]
<1>2. k \in Task /\ (k.pc = "idle" \/ k.pc \in REBUILDING)
  <2>1. "compare" \in REBUILDING
    BY DEF REBUILDING
  <2>2. [task[t] EXCEPT !.pc = "compare"] \in Task /\ IdleTask \in Task
    BY <1>1, <2>1, TaskFields
  <2>3. [task[t] EXCEPT !.pc = "compare"].pc = "compare" /\ IdleTask.pc = "idle"
    BY <1>1 DEF KeeperTypes, Task, IdleTask
  <2> QED BY <2>1, <2>2, <2>3
<1>3. /\ task[t].pc = "norms"
      /\ first => k.pc = "idle"
      /\ ~first => /\ k.pc = "compare" /\ k.sha = task[t].sha /\ k.previous = task[t].previous
      /\ task' = [task EXCEPT ![t] = k] /\ declared' = task[t].sha /\ byRun' \in BOOLEAN
      /\ UNCHANGED <<remote, branch_head, charter_sha, atlas, charters, changes, notices,
                     lost, revisited>>
  BY <1>1 DEF ReplaceNorms, Becomes, Finish, IdleTask, KeeperTypes, Task
<1> HIDE DEF k, first
<1>4. Sole(t, k)
  <2>1. Building(t)
    BY <1>3 DEF Building, REBUILDING
  <2>2. k.pc = "idle" \/ (k.pc \in REBUILDING /\ k.sha = task[t].sha)
    BY <1>2, <1>3
  <2> QED BY <1>2, <1>3, <2>1, <2>2, Alone
<1>5. Latest' = Latest /\ Numbered'
  BY <1>1, <1>3, SameLatest DEF Numbered
<1>6. KeeperTypes'
  BY <1>1, <1>3, <1>4 DEF KeeperTypes, Sole
<1>7. /\ At({"insert"})' = {} /\ At({"mark"})' = {} /\ At({"raise"})' = {} /\ At({"deliver"})' = {}
      /\ At({"extract", "insert", "mark"})' = {}
      /\ At({"extract", "insert", "mark", "norms"})' = {}
      /\ At({"compare"})' = (IF first THEN {} ELSE {t})
      /\ Unexplained' = (IF first THEN {} ELSE {t})
      /\ At(LATE \ {"extract", "insert", "mark"})' = (IF first THEN {} ELSE {t})
      /\ At(LATE)' = (IF first THEN {} ELSE {t})
  BY <1>3, <1>4, LatePlaces DEF Sole, Unexplained, LATE, REBUILDING
<1>8. /\ At({"mark"}) = {} /\ At({"raise"}) = {} /\ At({"deliver"}) = {} /\ Unexplained = {t}
      /\ At(LATE \ {"extract", "insert", "mark"}) = {t} /\ At({"extract", "insert", "mark"}) = {}
      /\ At(LATE) = {t}
  BY <1>3, <1>4, LatePlaces DEF Sole, Unexplained, LATE, REBUILDING
<1>9. Placed'
  <2>1. ~first => k.previous \notin {NoSha, k.sha}
    BY <1>3 DEF first
  <2> QED BY <1>4, <1>7, <2>1 DEF Placed, Sole
<1>10. Together'
  BY <1>1, <1>3, <1>4, <1>5, <1>7, <1>8 DEF Together, Sole
<1>11. Explained'
  <2>1. task'[t] = k
    BY <1>4 DEF Sole
  <2>2. CASE ~first
    BY <1>1, <1>3, <1>7, <1>8, <2>1, <2>2 DEF Explained
  <2>3. CASE first /\ ~lost'
    <3>1. ASSUME NEW c \in charters, NEW d \in charters, d.number = c.number + 1
          PROVE  \E x \in changes : x.from = c.sha /\ x.to = d.sha
      <4>1. c.sha = task[t].previous /\ d.sha = task[t].sha => FALSE
        <5>1. c.sha \in Commit /\ c.number \in Nat /\ c # d
          BY <1>1, <3>1 DEF KeeperTypes
        <5>2. c.sha # NoSha /\ c.sha # d.sha
          BY <1>1, <5>1, CharterKeeperAssumption DEF Numbered, Commit
        <5> QED BY <2>3, <5>2 DEF first
      <4> QED BY <1>1, <1>3, <1>8, <2>3, <3>1, <4>1 DEF Explained
    <3> QED BY <1>1, <1>3, <1>7, <1>8, <2>3, <3>1 DEF Explained
  <2> QED BY <2>2, <2>3 DEF Explained
<1> QED BY <1>4, <1>5, <1>6, <1>9, <1>10, <1>11 DEF IInv, Sole

\* The change from the last charter is stored, and announced if it is worth that.
LEMMA CompareStep ==
    ASSUME IInv, NEW t \in TASKS, NEW level \in Grade, Compare(t, level)
    PROVE  IInv'
<1>1. KeeperTypes /\ OneBuilder /\ Numbered /\ Placed /\ Together /\ Explained
  BY DEF IInv
<1> DEFINE loud == level \in NOTIFIED
           k == IF loud THEN [task[t] EXCEPT !.pc = "raise", !.level = level] ELSE IdleTask
<1>2. k \in Task /\ (k.pc = "idle" \/ k.pc \in REBUILDING)
  <2>1. level \in Level /\ task[t] \in Task /\ IdleTask \in Task
    BY <1>1, TaskFields, CharterKeeperAssumption DEF Level
  <2>2. [task[t] EXCEPT !.pc = "raise", !.level = level] \in Task
    BY <2>1 DEF Task, REBUILDING
  <2>3. [task[t] EXCEPT !.pc = "raise", !.level = level].pc = "raise" /\ IdleTask.pc = "idle"
    BY <2>1 DEF Task, IdleTask
  <2> QED BY <2>1, <2>2, <2>3 DEF REBUILDING
<1>3. PICK x : x = [from |-> task[t].previous, to |-> task[t].sha, level |-> level]
  OBVIOUS
<1>4. /\ x.from = task[t].previous /\ x.to = task[t].sha /\ x.level = level
      /\ changes' = changes \cup {x}
      /\ task[t].pc = "compare"
      /\ ~loud => k.pc = "idle"
      /\ loud => k.pc = "raise" /\ k.sha = task[t].sha /\ k.level = level
      /\ task' = [task EXCEPT ![t] = k]
      /\ UNCHANGED <<remote, branch_head, charter_sha, atlas, charters, declared, notices,
                     lost, revisited, byRun>>
  BY <1>1, <1>3 DEF Compare, IdleTask, KeeperTypes, Task, historyVars
<1> HIDE DEF k
<1>5. Sole(t, k)
  <2>1. Building(t)
    BY <1>4 DEF Building, REBUILDING
  <2>2. k.pc = "idle" \/ (k.pc \in REBUILDING /\ k.sha = task[t].sha)
    BY <1>2, <1>4
  <2> QED BY <1>2, <1>4, <2>1, <2>2, Alone
<1>6. Latest' = Latest /\ Numbered'
  BY <1>1, <1>4, SameLatest DEF Numbered
<1>7. task[t].previous \in Commit /\ task[t].sha \in Commit /\ task[t].previous # task[t].sha
  <2>1. t \in At({"compare"})
    BY <1>4 DEF At
  <2> QED BY <1>1, <1>4, <2>1 DEF Placed, KeeperTypes, Task
<1>8. KeeperTypes'
  <2>1. x \in [from : Commit, to : Commit, level : Level]
    BY <1>3, <1>7, CharterKeeperAssumption DEF Level
  <2> QED BY <1>1, <1>4, <1>5, <2>1 DEF KeeperTypes, Sole
<1> HIDE DEF loud
<1>9. /\ At({"insert"})' = {} /\ At({"mark"})' = {} /\ At({"compare"})' = {} /\ At({"deliver"})' = {}
      /\ At({"extract", "insert", "mark"})' = {} /\ At({"extract", "insert", "mark", "norms"})' = {}
      /\ Unexplained' = {}
      /\ At({"raise"})' = (IF loud THEN {t} ELSE {})
      /\ At(LATE \ {"extract", "insert", "mark"})' = (IF loud THEN {t} ELSE {})
      /\ At(LATE)' = (IF loud THEN {t} ELSE {})
  BY <1>4, <1>5, LatePlaces DEF Sole, Unexplained, LATE, REBUILDING
<1>10. /\ At({"mark"}) = {} /\ At({"raise"}) = {} /\ At({"deliver"}) = {} /\ Unexplained = {t}
       /\ At(LATE \ {"extract", "insert", "mark"}) = {t} /\ At({"extract", "insert", "mark"}) = {}
       /\ At({"extract", "insert", "mark", "norms"}) = {} /\ At(LATE) = {t}
  BY <1>4, <1>5, LatePlaces DEF Sole, Unexplained, LATE, REBUILDING
<1>11. Placed'
  <2>1. loud => \E y \in changes' : y.to = k.sha /\ y.level = k.level
    BY <1>4
  <2> QED BY <1>5, <1>9, <2>1 DEF Placed, Sole
<1>12. Together'
  BY <1>1, <1>4, <1>5, <1>6, <1>9, <1>10 DEF Together, Sole
<1>13. Explained'
  <2>1. CASE lost'
    BY <2>1 DEF Explained
  <2>2. CASE ~lost'
    <3>1. ~lost /\ task'[t] = k /\ notices' = notices /\ charters' = charters
      BY <1>4, <1>5, <2>2 DEF Sole
    <3>2. \A c, d \in charters' : d.number = c.number + 1 =>
            \E y \in changes' : y.from = c.sha /\ y.to = d.sha
      BY <1>1, <1>4, <1>10, <3>1 DEF Explained
    <3>3. \A y \in changes' : y.from # y.to /\ (y.level \in NOTIFIED =>
            \/ \E n \in notices' : n.sha = y.to
            \/ \E u \in At({"raise"})' : y.to = task'[u].sha)
      <4>1. ASSUME NEW y \in changes
            PROVE  y.from # y.to /\ (y.level \in NOTIFIED => \E n \in notices' : n.sha = y.to)
        BY <1>1, <1>10, <3>1, <4>1 DEF Explained
      <4>2. x.from # x.to /\ (x.level \in NOTIFIED => \E u \in At({"raise"})' : x.to = task'[u].sha)
        BY <1>4, <1>7, <1>9, <3>1 DEF loud
      <4> QED BY <1>4, <4>1, <4>2
    <3>4. \A n \in notices' : \E y \in changes' : y.to = n.sha /\ y.level = n.level
      BY <1>1, <1>4, <3>1 DEF Explained
    <3>5. /\ \A m, n \in notices' : m.sha = n.sha => m = n
          /\ \A n \in notices' : n.delivered <=> Webhook /\ n.level = "major"
      BY <1>1, <1>10, <3>1 DEF Explained
    <3> QED BY <3>2, <3>3, <3>4, <3>5 DEF Explained
  <2> QED BY <2>1, <2>2
<1> QED BY <1>5, <1>6, <1>8, <1>11, <1>12, <1>13 DEF IInv, Sole

\* A commit is announced once; what is major goes to the webhook.
LEMMA RaiseStep ==
    ASSUME IInv, NEW t \in TASKS, Raise(t)
    PROVE  IInv'
<1>1. KeeperTypes /\ OneBuilder /\ Numbered /\ Placed /\ Together /\ Explained
  BY DEF IInv
<1> DEFINE again == \E n \in notices : n.sha = task[t].sha
           send == ~again /\ Webhook /\ task[t].level = "major"
           k == IF send THEN [task[t] EXCEPT !.pc = "deliver"] ELSE IdleTask
<1>2. k \in Task /\ (k.pc = "idle" \/ k.pc \in REBUILDING)
  <2>1. "deliver" \in REBUILDING
    BY DEF REBUILDING
  <2>2. [task[t] EXCEPT !.pc = "deliver"] \in Task /\ IdleTask \in Task
    BY <1>1, <2>1, TaskFields
  <2>3. [task[t] EXCEPT !.pc = "deliver"].pc = "deliver" /\ IdleTask.pc = "idle"
    BY <1>1 DEF KeeperTypes, Task, IdleTask
  <2> QED BY <2>1, <2>2, <2>3
<1>3. PICK n : n = [sha |-> task[t].sha, level |-> task[t].level, delivered |-> FALSE]
  OBVIOUS
<1>4. /\ n.sha = task[t].sha /\ n.level = task[t].level /\ n.delivered = FALSE
      /\ again => notices' = notices
      /\ ~again => notices' = notices \cup {n}
      /\ task[t].pc = "raise"
      /\ ~send => k.pc = "idle"
      /\ send => k.pc = "deliver" /\ k.sha = task[t].sha
      /\ task' = [task EXCEPT ![t] = k]
      /\ UNCHANGED <<remote, branch_head, charter_sha, atlas, charters, declared, changes,
                     lost, revisited, byRun>>
  BY <1>1, <1>3 DEF Raise, Becomes, Finish, IdleTask, KeeperTypes, Task, historyVars
<1> HIDE DEF k
<1>5. Sole(t, k)
  <2>1. Building(t)
    BY <1>4 DEF Building, REBUILDING
  <2>2. k.pc = "idle" \/ (k.pc \in REBUILDING /\ k.sha = task[t].sha)
    BY <1>2, <1>4
  <2> QED BY <1>2, <1>4, <2>1, <2>2, Alone
<1>6. Latest' = Latest /\ Numbered'
  BY <1>1, <1>4, SameLatest DEF Numbered
<1>7. KeeperTypes'
  <2>1. n \in [sha : Commit, level : Level, delivered : BOOLEAN]
    BY <1>1, <1>3, <1>4 DEF KeeperTypes, Task
  <2> QED BY <1>1, <1>4, <1>5, <2>1 DEF KeeperTypes, Sole
<1>8. /\ At({"insert"})' = {} /\ At({"mark"})' = {} /\ At({"compare"})' = {} /\ At({"raise"})' = {}
      /\ At({"extract", "insert", "mark"})' = {} /\ At({"extract", "insert", "mark", "norms"})' = {}
      /\ Unexplained' = {}
      /\ At({"deliver"})' = (IF send THEN {t} ELSE {})
      /\ At(LATE \ {"extract", "insert", "mark"})' = (IF send THEN {t} ELSE {})
      /\ At(LATE)' = (IF send THEN {t} ELSE {})
  <2>1. \A places \in SUBSET REBUILDING :
          At(places)' = (IF send /\ "deliver" \in places THEN {t} ELSE {})
    <3>1. "idle" \notin REBUILDING
      BY DEF REBUILDING
    <3> QED BY <1>4, <1>5, <3>1 DEF Sole
  <2> QED BY <2>1, LatePlaces DEF Unexplained, LATE, REBUILDING
<1>9. /\ At({"mark"}) = {} /\ At({"raise"}) = {t} /\ At({"deliver"}) = {} /\ Unexplained = {}
      /\ At(LATE \ {"extract", "insert", "mark"}) = {t} /\ At({"extract", "insert", "mark"}) = {}
      /\ At({"extract", "insert", "mark", "norms"}) = {} /\ At(LATE) = {t}
  BY <1>4, <1>5, LatePlaces DEF Sole, Unexplained, LATE, REBUILDING
<1>10. \E x \in changes : x.to = task[t].sha /\ x.level = task[t].level
  BY <1>1, <1>9 DEF Placed
<1>11. Placed'
  <2>1. send => Webhook /\ \E m \in notices' : m.sha = k.sha /\ m.level = "major"
    BY <1>4
  <2> QED BY <1>5, <1>8, <2>1 DEF Placed, Sole
<1>12. Together'
  BY <1>1, <1>4, <1>5, <1>6, <1>8, <1>9 DEF Together, Sole
<1>13. Explained'
  <2>1. CASE lost'
    BY <2>1 DEF Explained
  <2>2. CASE ~lost'
    <3>1. ~lost /\ task'[t] = k /\ changes' = changes /\ charters' = charters
      BY <1>4, <1>5, <2>2 DEF Sole
    <3>2. \A c, d \in charters' : d.number = c.number + 1 =>
            \E x \in changes' : x.from = c.sha /\ x.to = d.sha
      BY <1>1, <1>9, <3>1 DEF Explained
    <3>3. notices \subseteq notices' /\ \E m \in notices' : m.sha = task[t].sha
      BY <1>4
    <3>4. \A x \in changes' : x.from # x.to /\ (x.level \in NOTIFIED => \E m \in notices' : m.sha = x.to)
      BY <1>1, <1>9, <3>1, <3>3 DEF Explained
    <3>5. \A m \in notices' : \E x \in changes' : x.to = m.sha /\ x.level = m.level
      BY <1>1, <1>4, <1>10, <3>1 DEF Explained
    <3>6. \A l, m \in notices' : l.sha = m.sha => l = m
      <4>1. \A l, m \in notices : l.sha = m.sha => l = m
        BY <1>1, <3>1 DEF Explained
      <4>2. CASE again
        BY <1>4, <4>1, <4>2
      <4>3. CASE ~again
        BY <1>4, <4>1, <4>3
      <4> QED BY <4>2, <4>3
    <3>7. \A m \in notices' :
            \/ m.delivered <=> Webhook /\ m.level = "major"
            \/ ~m.delivered /\ \E u \in At({"deliver"})' : m.sha = task'[u].sha
      <4>1. \A m \in notices : m.delivered <=> Webhook /\ m.level = "major"
        BY <1>1, <1>9, <3>1 DEF Explained
      <4>2. CASE again
        BY <1>4, <4>1, <4>2
      <4>3. CASE ~again
        <5>1. CASE send
          BY <1>4, <1>8, <3>1, <4>1, <4>3, <5>1
        <5>2. CASE ~send
          <6>1. ~(Webhook /\ n.level = "major")
            BY <1>4, <4>3, <5>2
          <6> QED BY <1>4, <4>1, <4>3, <6>1
        <5> QED BY <5>1, <5>2
      <4> QED BY <4>2, <4>3
    <3> QED BY <3>2, <3>4, <3>5, <3>6, <3>7 DEF Explained
  <2> QED BY <2>1, <2>2
<1> QED BY <1>5, <1>6, <1>7, <1>11, <1>12, <1>13 DEF IInv, Sole

LEMMA DeliverStep ==
    ASSUME IInv, NEW t \in TASKS, Deliver(t)
    PROVE  IInv'
<1>1. KeeperTypes /\ OneBuilder /\ Numbered /\ Placed /\ Together /\ Explained
  BY DEF IInv
<1> DEFINE Sent(n) == IF n.sha = task[t].sha THEN [n EXCEPT !.delivered = TRUE] ELSE n
<1>2. IdleTask \in Task /\ IdleTask.pc = "idle"
  BY <1>1, TaskFields DEF IdleTask
<1>3. /\ task[t].pc = "deliver" /\ task' = [task EXCEPT ![t] = IdleTask]
      /\ notices' = {Sent(n) : n \in notices}
      /\ UNCHANGED <<remote, branch_head, charter_sha, atlas, charters, declared, changes,
                     lost, revisited, byRun>>
  BY DEF Deliver, Finish, historyVars
<1>4. Sole(t, IdleTask)
  <2>1. Building(t)
    BY <1>3 DEF Building, REBUILDING
  <2> QED BY <1>2, <1>3, <2>1, Alone
<1>5. Latest' = Latest /\ Numbered'
  BY <1>1, <1>3, SameLatest DEF Numbered
<1>6. \A n \in notices : /\ Sent(n) \in [sha : Commit, level : Level, delivered : BOOLEAN]
                         /\ Sent(n).sha = n.sha /\ Sent(n).level = n.level
                         /\ Sent(n).delivered = (n.delivered \/ n.sha = task[t].sha)
  BY <1>1 DEF KeeperTypes
<1> HIDE DEF Sent
<1>7. KeeperTypes'
  BY <1>1, <1>3, <1>4, <1>6 DEF KeeperTypes, Sole
<1>8. /\ At({"insert"})' = {} /\ At({"mark"})' = {} /\ At({"compare"})' = {} /\ At({"raise"})' = {}
      /\ At({"extract", "insert", "mark"})' = {} /\ At({"extract", "insert", "mark", "norms"})' = {}
      /\ Unexplained' = {} /\ At({"deliver"})' = {}
      /\ At(LATE \ {"extract", "insert", "mark"})' = {} /\ At(LATE)' = {}
  BY <1>2, <1>4, LatePlaces DEF Sole, Unexplained, LATE, REBUILDING
<1>9. /\ At({"mark"}) = {} /\ At({"raise"}) = {} /\ At({"deliver"}) = {t} /\ Unexplained = {}
      /\ At(LATE \ {"extract", "insert", "mark"}) = {t} /\ At({"extract", "insert", "mark"}) = {}
      /\ At({"extract", "insert", "mark", "norms"}) = {} /\ At(LATE) = {t}
  BY <1>3, <1>4, LatePlaces DEF Sole, Unexplained, LATE, REBUILDING
<1>10. Placed'
  BY <1>8 DEF Placed
<1>11. Together'
  BY <1>1, <1>3, <1>5, <1>8, <1>9 DEF Together
<1>12. Explained'
  <2>1. CASE lost'
    BY <2>1 DEF Explained
  <2>2. CASE ~lost'
    <3>1. ~lost /\ changes' = changes /\ charters' = charters
      BY <1>3, <2>2
    <3>2. PICK m \in notices : m.sha = task[t].sha /\ m.level = "major" /\ Webhook
      BY <1>1, <1>9 DEF Placed
    <3>3. \A c, d \in charters' : d.number = c.number + 1 =>
            \E x \in changes' : x.from = c.sha /\ x.to = d.sha
      BY <1>1, <1>9, <3>1 DEF Explained
    <3>4. \A x \in changes' : x.from # x.to /\ (x.level \in NOTIFIED => \E n \in notices' : n.sha = x.to)
      <4>1. ASSUME NEW x \in changes, x.level \in NOTIFIED PROVE \E n \in notices' : n.sha = x.to
        <5>1. PICK n \in notices : n.sha = x.to
          BY <1>1, <1>9, <3>1, <4>1 DEF Explained
        <5> QED BY <1>3, <1>6, <5>1
      <4>2. \A x \in changes : x.from # x.to
        BY <1>1, <3>1 DEF Explained
      <4> QED BY <3>1, <4>1, <4>2
    <3>5. ASSUME NEW n \in notices
          PROVE  /\ \E x \in changes' : x.to = Sent(n).sha /\ x.level = Sent(n).level
                 /\ Sent(n).delivered <=> Webhook /\ Sent(n).level = "major"
                 /\ \A l \in notices : Sent(l).sha = Sent(n).sha => Sent(l) = Sent(n)
      <4>1. \A l \in notices : l.sha = n.sha => l = n
        BY <1>1, <3>1 DEF Explained
      <4>2. \E x \in changes : x.to = n.sha /\ x.level = n.level
        BY <1>1, <3>1 DEF Explained
      <4>3. CASE n.sha = task[t].sha
        <5>1. n = m
          BY <1>1, <3>1, <3>2, <4>3 DEF Explained
        <5>2. Sent(n).delivered = TRUE /\ Webhook /\ Sent(n).level = "major"
          BY <1>6, <3>2, <4>3, <5>1
        <5> QED BY <1>6, <3>1, <4>1, <4>2, <5>2
      <4>4. CASE n.sha # task[t].sha
        <5>1. n.delivered <=> Webhook /\ n.level = "major"
          BY <1>1, <1>9, <3>1, <4>4 DEF Explained
        <5>2. n.delivered \in BOOLEAN /\ Sent(n) = n
          BY <1>1, <4>4 DEF KeeperTypes, Sent
        <5> QED BY <1>6, <3>1, <4>1, <4>2, <5>1, <5>2
      <4> QED BY <4>3, <4>4
    <3>6. /\ \A n \in notices' : \E x \in changes' : x.to = n.sha /\ x.level = n.level
          /\ \A n \in notices' : n.delivered <=> Webhook /\ n.level = "major"
          /\ \A l, n \in notices' : l.sha = n.sha => l = n
      BY <1>3, <3>5
    <3> QED BY <3>3, <3>4, <3>6 DEF Explained
  <2> QED BY <2>1, <2>2
<1> QED BY <1>4, <1>5, <1>7, <1>10, <1>11, <1>12 DEF IInv, Sole
----------------------------------------------------------------------------
(* The inductive invariant, and the theorems *)

LEMMA InitInv == Init => IInv
<1> SUFFICES ASSUME Init PROVE IInv
  OBVIOUS
<1>1. \A t \in TASKS : task[t] \in Task /\ task[t].pc \in {"idle", "begin"}
  <2>1. IdleTask \in Task /\ [IdleTask EXCEPT !.pc = "begin"] \in Task
    BY DEF IdleTask, Task, Level
  <2>2. IdleTask.pc = "idle" /\ [IdleTask EXCEPT !.pc = "begin"].pc = "begin"
    BY DEF IdleTask
  <2>3. task = [t \in TASKS |-> IF t = Reader THEN [IdleTask EXCEPT !.pc = "begin"] ELSE IdleTask]
    BY DEF Init, Starting
  <2> HIDE DEF IdleTask
  <2> QED BY <2>1, <2>2, <2>3
<1>2. KeeperTypes
  <2>1. DOMAIN task = TASKS /\ task = [t \in TASKS |-> task[t]]
    BY DEF Init, Starting
  <2>2. task \in [TASKS -> Task]
    BY <1>1, <2>1
  <2> QED BY <1>1, <2>2 DEF Init, KeeperTypes
<1>3. OneBuilder
  BY <1>1 DEF OneBuilder, Building, REBUILDING
<1>4. Numbered
  BY DEF Init, Numbered
<1>5. \A places \in SUBSET REBUILDING : At(places) = {}
  BY <1>1 DEF At, REBUILDING
<1>6. Placed
  BY <1>5, LatePlaces DEF Placed
<1>7. Together
  <2>1. Latest = NoSha
    BY DEF Init, Latest
  <2> QED BY <1>5, <2>1, LatePlaces DEF Init, Together
<1>8. Explained
  BY DEF Init, Explained
<1> QED BY <1>2, <1>3, <1>4, <1>6, <1>7, <1>8 DEF IInv

LEMMA StepInv == IInv /\ [Next]_vars => IInv'
<1> SUFFICES ASSUME IInv, [Next]_vars PROVE IInv'
  OBVIOUS
<1>1. CASE \/ Check \/ BeginReading \/ BeginReadingBranch
           \/ \E sha \in Sha : Push(sha) \/ RunFindsNoNorms(sha)
           \/ \E sha \in Commit : Request(sha)
           \/ RunStoresNorms
  BY <1>1, OutsideSteps
<1>2. ASSUME NEW t \in TASKS, Step(t) PROVE IInv'
  <2>1. CASE Answer(t)
    BY <2>1, OutsideSteps
  <2>2. CASE Enter(t) \/ BuildAtlas(t) \/ Extract(t) \/ Insert(t)
    BY <2>2, EnterStep, BuildAtlasStep, ExtractStep, InsertStep
  <2>3. CASE MarkRow(t) \/ ReplaceNorms(t) \/ (\E level \in Grade : Compare(t, level))
    BY <2>3, MarkRowStep, ReplaceNormsStep, CompareStep
  <2>4. CASE Raise(t) \/ Deliver(t)
    BY <2>4, RaiseStep, DeliverStep
  <2> QED BY <1>2, <2>1, <2>2, <2>3, <2>4 DEF Step
<1>3. ASSUME NEW t \in TASKS, RebuildFails(t) PROVE IInv'
  BY <1>3, FailStep
<1>4. CASE Crash
  BY <1>4, CrashStep
<1>5. CASE UNCHANGED vars
  <2>1. KeeperTypes /\ OneBuilder
    BY DEF IInv
  <2>2. UNCHANGED <<remote, rowVars, task, revisited, lost, byRun>>
    BY <1>5 DEF vars, historyVars
  <2>3. KeeperTypes' /\ OneBuilder'
    BY <2>1, <2>2 DEF KeeperTypes, OneBuilder, Building, rowVars
  <2> QED BY <2>2, <2>3, Elsewhere DEF rowVars
<1> QED BY <1>1, <1>2, <1>3, <1>4, <1>5 DEF Next

LEMMA Invariant == Spec => []IInv
BY InitInv, StepInv, PTL DEF Spec

\* Outside a rebuild nobody is at a late place.
LEMMA QuietPlaces ==
    ASSUME LockFree
    PROVE  \A places \in SUBSET REBUILDING : At(places) = {}
BY DEF LockFree, Building, At

\* Outside a rebuild the atlas, the latest charter, the row that names it and the
\* declared norms are of one commit, whoever refreshes, for any commits and however
\* often the process ends, until a rebuild is lost or the branch returns to a commit
\* that had its charter; and two charters never have one number (_rebuild, put_charter).
THEOREM MemoryIsOfOneCommit == Spec => []OneMemory
<1>1. IInv => OneMemory
  <2> SUFFICES ASSUME IInv PROVE OneMemory
    OBVIOUS
  <2>1. Numbered /\ Together
    BY DEF IInv
  <2>2. ASSUME Quiet, ~revisited
        PROVE  {Latest, charter_sha} = {atlas} /\ (byRun \/ declared = atlas)
    <3>1. /\ At({"mark"}) = {} /\ At({"extract", "insert", "mark"}) = {}
          /\ At({"extract", "insert", "mark", "norms"}) = {}
      BY <2>2, QuietPlaces, LatePlaces DEF Quiet
    <3> QED BY <2>1, <2>2, <3>1 DEF Together, Quiet
  <2> QED BY <2>1, <2>2 DEF OneMemory, Numbered
<1> QED BY <1>1, Invariant, PTL

\* Outside a rebuild, and unless one was lost, every charter but the first has the
\* change that led to it, every change worth announcing was announced once for its
\* commit, and the webhook was tried for what was major and for nothing else
\* (_rebuild, put_charter_change, raise_).
THEOREM EveryMoveIsExplained == Spec => []MovesExplained
<1>1. IInv => MovesExplained
  <2> SUFFICES ASSUME IInv, Quiet PROVE MovesExplained
    BY DEF MovesExplained
  <2>1. Explained /\ ~lost
    BY DEF IInv, Quiet
  <2>2. At({"raise"}) = {} /\ At({"deliver"}) = {} /\ Unexplained = {}
    BY QuietPlaces, LatePlaces DEF Quiet, Unexplained
  <2> QED BY <2>1, <2>2 DEF Explained, MovesExplained
<1> QED BY <1>1, Invariant, PTL
=============================================================================
