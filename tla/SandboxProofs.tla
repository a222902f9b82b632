--------------------------- MODULE SandboxProofs ---------------------------
(***************************************************************************)
(* What the pool promises whatever is cancelled, swept and restarted: the  *)
(* slots bound the containers, a cancelled run starts none, and a cached   *)
(* result is what the suite does on its commit.                            *)
(***************************************************************************)
EXTENDS Sandbox, FiniteSetTheorems, SequenceTheorems, TLAPS

Places == {"none", "queued", "settling", "tree", "ask", "wait", "build", "run",
           "drain", "reap", "ended"}

SandboxTypes ==
    /\ dir \in [Commit -> {"absent", "part", "whole", "torn"}]
    /\ maker \in [Commit -> Run \cup {Nobody}]
    /\ sweep \in [pc : {"idle", "remove"}, left : SUBSET Commit, at : SUBSET Commit]
    /\ at \in [Run -> Places]
    /\ job \in [Run -> {"base", "head"}]
    /\ waiting \in Seq(Run)
    /\ cached \in [Commit -> {"none", "genuine", "spoilt"}]
    /\ stray \in Nat /\ faults \in Nat
    /\ forced \subseteq Run /\ dropped \subseteq Run

\* A run waits for a slot once, and only while its task is there.
Queueing ==
    /\ \A k \in DOMAIN waiting : at[waiting[k]] = "wait"
    /\ \A k, m \in DOMAIN waiting : waiting[k] = waiting[m] => k = m

\* The slots are counted, and a container left to itself is charged to a second
\* cancel, after which the task is over, or to a restart.
Counted ==
    /\ IsFiniteSet(Slots) /\ Cardinality(Slots) <= Capacity
    /\ IsFiniteSet(forced) /\ \A r \in forced : at[r] = "ended"
    /\ stray <= Cardinality(forced) + Capacity * faults

\* What is cancelled is so in the row and in the pool, until its task is over; a
\* run that is given a slot was not.
Stopped ==
    /\ \A r \in dropped : at[r] = "ended" \/ (at[r] # "none" /\ r \in cancelled)
    /\ \A r \in Run : at[r] = "build" => r \notin dropped

\* A thread that makes a checkout makes the one its run asks for, or has outlived
\* the task.
Making ==
    \A r \in Run, c \in Commit :
        maker[c] = r => at[r] = "ended" \/ (at[r] = "tree" /\ c = Wants(r))

Sound(c) == dir[c] = "whole" \/ c \in excused

\* The suites are asked for when both checkouts have been there.
HasBoth(r) == at[r] \in {"ask", "wait", "build", "run", "drain", "reap"}

\* A directory is whole, or is being made or removed, or a failure spoilt it, or the
\* janitor when no recent row named its commit.
Excusing ==
    /\ \A c \in Commit : dir[c] = "torn" => c \in excused
    /\ \A c \in Commit : dir[c] = "part" => maker[c] # Nobody \/ c \in excused
    /\ \A c \in Commit : maker[c] # Nobody => dir[c] = "part" \/ c \in excused
    /\ \A c \in Commit : maker[c] # Nobody => dir[c] # "whole"
    /\ sweep.left \cap named = {}
    /\ sweep.at \subseteq excused

\* So is what a suite has read.
Reading ==
    /\ \A r \in Run : at[r] = "tree" /\ job[r] = "head" => Sound(ForkPoint[r])
    /\ \A r \in Run : HasBoth(r) => Sound(ForkPoint[r]) /\ Sound(HeadSha[r])
    /\ \A r \in Run : at[r] \in {"run", "drain", "reap"} =>
                        r \in intact \/ Wants(r) \in excused

IInv ==
    /\ SandboxTypes
    /\ Queueing /\ Counted /\ Stopped /\ Making /\ Excusing /\ Reading
    /\ CachedIsGenuine
----------------------------------------------------------------------------
(* What the steps of a run leave alone *)

\* A run's own steps, and the cancelling of it, move it only,
Own(r) ==
    /\ \A q \in Run \ {r} : at'[q] = at[q] /\ job'[q] = job[q] /\ (q \in intact' <=> q \in intact)
    /\ at[r] = "ended" => at'[r] = "ended"
    /\ UNCHANGED <<sweep, named>>
    /\ excused \subseteq excused' /\ faults' >= faults

\* Where a run's task may be, and at which suite, after a step of it.
Placed(r) ==
    /\ at' \in [Run -> Places] /\ job' \in [Run -> {"base", "head"}]
    /\ \A q \in Run \ {r} : at'[q] = at[q] /\ job'[q] = job[q]
    /\ at'[r] = "none" => at[r] = "none"

LEMMA MovesPlaces ==
    ASSUME SandboxTypes, NEW r \in Run, NEW place \in Places \ {"none"}, Moves(r, place),
           job' = job \/ \E j \in {"base", "head"} : job' = [job EXCEPT ![r] = j]
    PROVE  Placed(r) /\ at'[r] = place
BY DEF SandboxTypes, Moves, Placed

LEMMA TreePlaces ==
    ASSUME SandboxTypes, NEW r \in Run, at[r] = "tree", HasTree(r)
    PROVE  /\ Placed(r)
           /\ job[r] = "base" => at'[r] = "tree" /\ job'[r] = "head"
           /\ job[r] = "head" => at'[r] = "ask" /\ job'[r] = "base"
<1>1. job[r] \in {"base", "head"}
  BY DEF SandboxTypes
<1>2. CASE job[r] = "base"
  BY <1>2 DEF SandboxTypes, HasTree, Placed
<1>3. CASE job[r] = "head"
  <2>1. "ask" \in Places \ {"none"} /\ Moves(r, "ask") /\ job' = [job EXCEPT ![r] = "base"]
    BY <1>3 DEF HasTree, Places
  <2>2. Placed(r) /\ at'[r] = "ask"
    BY <2>1, MovesPlaces
  <2> QED BY <1>3, <2>1, <2>2 DEF SandboxTypes
<1> QED BY <1>1, <1>2, <1>3

LEMMA ReturnPlaces ==
    ASSUME SandboxTypes, NEW r \in Run, Returns(r)
    PROVE  /\ Placed(r)
           /\ job[r] = "base" => at'[r] = "ask" /\ job'[r] = "head"
           /\ job[r] = "head" => at'[r] = "ended"
<1>1. job[r] \in {"base", "head"} /\ {"ask", "ended"} \subseteq Places \ {"none"}
  BY DEF SandboxTypes, Places
<1>2. CASE job[r] = "base"
  <2>1. Moves(r, "ask") /\ job' = [job EXCEPT ![r] = "head"]
    BY <1>2 DEF Returns
  <2>2. Placed(r) /\ at'[r] = "ask"
    BY <1>1, <2>1, MovesPlaces
  <2> QED BY <1>2, <2>1, <2>2 DEF SandboxTypes
<1>3. CASE job[r] = "head"
  <2>1. Moves(r, "ended") /\ job' = job
    BY <1>3 DEF Returns
  <2>2. Placed(r) /\ at'[r] = "ended"
    BY <1>1, <2>1, MovesPlaces
  <2> QED BY <1>3, <2>2
<1> QED BY <1>1, <1>2, <1>3

\* The first in a queue and the others.
LEMMA FirstInQueue ==
    ASSUME NEW s \in Seq(Run), s # <<>>
    PROVE  /\ Head(s) = s[1] /\ 1 \in DOMAIN s
           /\ Tail(s) \in Seq(Run)
           /\ \A k \in DOMAIN Tail(s) : k + 1 \in DOMAIN s /\ Tail(s)[k] = s[k + 1]
                                       /\ k + 1 # 1 /\ k \in Nat
OBVIOUS

\* and its own steps cancel nothing.
LEMMA ProceedIsOwn ==
    ASSUME SandboxTypes, Queueing, NEW r \in Run, Submit(r) \/ Proceed(r)
    PROVE  /\ Placed(r) /\ Own(r) /\ SandboxTypes'
           /\ UNCHANGED <<dropped, cancelled, stray, forced>>
<1>0. {"queued", "settling", "tree", "ended", "wait", "build", "run", "reap"}
          \subseteq Places \ {"none"}
  BY DEF Places
<1>1. CASE Submit(r) \/ Dequeue(r) \/ Execute(r)
  <2>1. Placed(r) /\ at[r] # "ended"
    BY <1>0, <1>1, MovesPlaces DEF Submit, Dequeue, Execute
  <2> QED BY <1>1, <2>1 DEF Submit, Dequeue, Execute, Placed, Own, SandboxTypes, treeVars, countVars
<1>2. CASE FindTree(r)
  <2>1. Placed(r)
    BY <1>2, TreePlaces DEF FindTree
  <2> QED BY <1>2, <2>1 DEF FindTree, Placed, Own, SandboxTypes, treeVars, countVars
<1>3. CASE MakeTree(r)
  <2>1. Wants(r) \in Commit
    BY SandboxAssumption DEF Wants
  <2>2. dir' \in [Commit -> {"absent", "part", "whole", "torn"}]
        /\ maker' \in [Commit -> Run \cup {Nobody}] /\ sweep' = sweep
    BY <1>3, <2>1 DEF MakeTree, BeginsAdd, SandboxTypes
  <2> QED BY <1>3, <2>2 DEF MakeTree, Placed, Own, SandboxTypes, poolVars, countVars
<1>4. CASE TreeMade(r)
  <2>1. PICK c \in Commit : maker[c] = r /\ EndsAdd(c)
    BY <1>4 DEF TreeMade
  <2>2. dir' \in [Commit -> {"absent", "part", "whole", "torn"}]
        /\ maker' \in [Commit -> Run \cup {Nobody}] /\ sweep' = sweep
    BY <2>1 DEF EndsAdd, Unlock, SandboxTypes
  <2>3. Placed(r) /\ (at[r] = "ended" => at'[r] = "ended")
    <3>1. CASE at[r] = "tree"
      BY <1>4, <3>1, TreePlaces DEF TreeMade
    <3>2. CASE at[r] # "tree"
      BY <1>4, <3>2 DEF TreeMade, Placed, SandboxTypes
    <3> QED BY <3>1, <3>2
  <2> QED BY <1>4, <2>2, <2>3 DEF TreeMade, Placed, Own, SandboxTypes, countVars
<1>5. CASE NoTree(r)
  BY <1>5 DEF NoTree, FailsToAdd, KilledAdding, CannotAdd, Unlock, Fails, Stops, Moves, Placed,
              Own, SandboxTypes, Places, treeVars
<1>6. CASE Ask(r)
  <2>1. waiting' \in Seq(Run)
    <3>1. waiting' \in {waiting, Append(waiting, r)} /\ waiting \in Seq(Run)
      BY <1>6 DEF Ask, SandboxTypes
    <3>2. Append(waiting, r) \in Seq(Run)
      BY <3>1
    <3> QED BY <3>1, <3>2
  <2>2. Placed(r)
    BY <1>0, <1>6, ReturnPlaces, MovesPlaces DEF Ask
  <2>3. at[r] = "ask"
    BY <1>6 DEF Ask
  <2> QED BY <1>6, <2>1, <2>2, <2>3 DEF Ask, Placed, Own, SandboxTypes, treeVars, countVars
<1>7. CASE Enter(r)
  <2>1. waiting' \in Seq(Run) /\ at[r] = "wait"
    <3>1. waiting \in Seq(Run) /\ waiting # <<>> /\ waiting' = Tail(waiting) /\ r = Head(waiting)
      BY <1>7 DEF Enter, Entering, SandboxTypes
    <3>2. /\ Tail(waiting) \in Seq(Run)
          /\ 1 \in DOMAIN waiting /\ r = waiting[1]
      BY <3>1, FirstInQueue
    <3> QED BY <3>1, <3>2 DEF Queueing
  <2>2. Placed(r)
    BY <1>0, <1>7, ReturnPlaces, MovesPlaces DEF Enter
  <2> QED BY <1>7, <2>1, <2>2 DEF Enter, Forgets, Placed, Own, SandboxTypes, treeVars, countVars
<1>8. CASE Start(r)
  <2>1. Wants(r) \in Commit
    BY SandboxAssumption DEF Wants
  <2>2. dir' \in [Commit -> {"absent", "part", "whole", "torn"}]
    BY <1>8, <2>1 DEF Start, SandboxTypes
  <2>3. Placed(r)
    BY <1>0, <1>8, MovesPlaces DEF Start
  <2> QED BY <1>8, <2>2, <2>3 DEF Start, Placed, Own, SandboxTypes, countVars
<1>9. CASE BuildFails(r)
  <2>1. Placed(r) /\ at[r] = "build"
    BY <1>9, ReturnPlaces DEF BuildFails
  <2>2. cached' \in [Commit -> {"none", "genuine", "spoilt"}]
    BY <1>9 DEF BuildFails, Writes, SandboxTypes
  <2>3. faults' \in Nat /\ faults' >= faults /\ excused \subseteq excused'
    BY <1>9 DEF BuildFails, Fails, SandboxTypes
  <2> QED BY <1>9, <2>1, <2>2, <2>3 DEF BuildFails, Forgets, Placed, Own, SandboxTypes, treeVars
<1>10. CASE ContainerEnds(r)
  <2>1. Placed(r) /\ at[r] # "ended"
    BY <1>0, <1>10, MovesPlaces DEF ContainerEnds
  <2> QED BY <1>10, <2>1 DEF ContainerEnds, Forgets, Placed, Own, SandboxTypes, treeVars, countVars
<1>11. CASE Reap(r)
  <2>1. Placed(r) /\ at[r] # "ended"
    BY <1>11, ReturnPlaces DEF Reap
  <2>2. cached' \in [Commit -> {"none", "genuine", "spoilt"}]
    BY <1>11 DEF Reap, Writes, SandboxTypes
  <2> QED BY <1>11, <2>1, <2>2 DEF Reap, Forgets, Placed, Own, SandboxTypes, treeVars, countVars
<1> QED BY <1>1, <1>2, <1>3, <1>4, <1>5, <1>6, <1>7, <1>8, <1>9, <1>10, <1>11 DEF Proceed

\* Who leaves the queue leaves the others in it.
LEMMA Removed ==
    ASSUME NEW s \in Seq(Run), NEW r,
           \A k, m \in DOMAIN s : s[k] = s[m] => k = m
    PROVE  LET left == RemoveFirst(s, r)
           IN  /\ left \in Seq(Run)
               /\ \A k \in DOMAIN left : left[k] # r /\ \E j \in DOMAIN s : left[k] = s[j]
               /\ \A k, m \in DOMAIN left : left[k] = left[m] => k = m
<1> DEFINE n == Len(s)
           places == {k \in 1 .. n : s[k] = r}
<1>1. n \in Nat /\ DOMAIN s = 1 .. n
  OBVIOUS
<1>2. CASE \E k \in 1 .. n : s[k] = r
  <2>1. PICK p \in 1 .. n : s[p] = r
    BY <1>2
  <2>2. places = {p}
    BY <1>1, <2>1
  <2>3. Min(places) = p
    BY <1>1, <2>2 DEF Min
  <2>4. RemoveFirst(s, r) = RemoveAt(s, p)
    BY <1>2, <2>2, <2>3 DEF RemoveFirst, SelectInSeq
  <2> DEFINE left == RemoveAt(s, p)
  <2>5. /\ left \in Seq(Run) /\ DOMAIN left = 1 .. (n - 1)
        /\ \A k \in 1 .. (n - 1) : left[k] = s[IF k < p THEN k ELSE k + 1]
    <3> DEFINE a == SubSeq(s, 1, p - 1)
               b == SubSeq(s, p + 1, n)
    <3> HIDE DEF n
    <3>0. n \in Nat /\ p \in Nat /\ p >= 1 /\ p <= n /\ \A k \in 1 .. n : s[k] \in Run
      BY <1>1, <2>1
    <3>1. a \in Seq(Run) /\ Len(a) = p - 1 /\ \A k \in 1 .. (p - 1) : a[k] = s[k]
      <4>1. 1 \in Int /\ p - 1 \in Int /\ \A k \in 1 .. (p - 1) : s[k] \in Run
        BY <3>0
      <4>2. /\ a \in Seq(Run) /\ Len(a) = IF 1 <= p - 1 THEN (p - 1) - 1 + 1 ELSE 0
            /\ \A k \in 1 .. ((p - 1) - 1 + 1) : a[k] = s[1 + k - 1]
        BY <4>1, SubSeqProperties
      <4> HIDE DEF a
      <4> QED BY <3>0, <4>2
    <3>2. b \in Seq(Run) /\ Len(b) = n - p /\ \A k \in 1 .. (n - p) : b[k] = s[p + k]
      <4>1. p + 1 \in Int /\ n \in Int /\ \A k \in (p + 1) .. n : s[k] \in Run
        BY <3>0
      <4>2. /\ b \in Seq(Run) /\ Len(b) = IF p + 1 <= n THEN n - (p + 1) + 1 ELSE 0
            /\ \A k \in 1 .. (n - (p + 1) + 1) : b[k] = s[(p + 1) + k - 1]
        BY <4>1, SubSeqProperties
      <4> HIDE DEF b
      <4>3. Len(b) = n - p
        BY <3>0, <4>2
      <4>4. \A k \in 1 .. (n - p) : b[k] = s[p + k]
        BY <3>0, <4>2
      <4> QED BY <4>2, <4>3, <4>4
    <3> HIDE DEF a, b
    <3>3. /\ a \o b \in Seq(Run) /\ DOMAIN (a \o b) = 1 .. (n - 1)
          /\ \A k \in 1 .. (n - 1) : (a \o b)[k] = IF k < p THEN a[k] ELSE b[k - (p - 1)]
      <4>1. a \o b \in Seq(Run) /\ Len(a \o b) = n - 1
        <5>1. a \o b \in Seq(Run) /\ Len(a \o b) = Len(a) + Len(b)
          BY <3>1, <3>2
        <5> QED BY <3>0, <3>1, <3>2, <5>1
      <4>2. \A k \in 1 .. (Len(a) + Len(b)) :
                (a \o b)[k] = IF k <= Len(a) THEN a[k] ELSE b[k - Len(a)]
        BY <3>1, <3>2
      <4> QED BY <3>0, <3>1, <3>2, <4>1, <4>2
    <3>4. \A k \in 1 .. (n - 1) : ~(k < p) => b[k - (p - 1)] = s[k + 1]
      <4>1. ASSUME NEW k \in 1 .. (n - 1), ~(k < p) PROVE b[k - (p - 1)] = s[k + 1]
        <5>1. k - (p - 1) \in 1 .. (n - p) /\ p + (k - (p - 1)) = k + 1
          BY <3>0, <4>1
        <5> QED BY <3>2, <5>1
      <4> QED BY <4>1
    <3>5. \A k \in 1 .. (n - 1) : k < p => a[k] = s[k]
      BY <3>0, <3>1
    <3> QED BY <3>3, <3>4, <3>5 DEF a, b, n, RemoveAt
  <2> HIDE DEF left
  <2>6. \A k \in 1 .. (n - 1) : \E j \in 1 .. n : left[k] = s[j] /\ j # p
    BY <1>1, <2>1, <2>5
  <2>7. ASSUME NEW k \in DOMAIN left, NEW m \in DOMAIN left, left[k] = left[m] PROVE k = m
    <3> DEFINE i == IF k < p THEN k ELSE k + 1
               j == IF m < p THEN m ELSE m + 1
    <3>1. i \in DOMAIN s /\ j \in DOMAIN s /\ s[i] = s[j]
      BY <1>1, <2>1, <2>5, <2>7
    <3>2. i = j
      BY <3>1
    <3> QED BY <1>1, <2>1, <2>5, <3>2
  <2>8. \A k \in DOMAIN left : left[k] # r /\ \E j \in DOMAIN s : left[k] = s[j]
    BY <1>1, <2>1, <2>5, <2>6
  <2> QED BY <2>4, <2>5, <2>7, <2>8 DEF left
<1>3. CASE ~ \E k \in 1 .. n : s[k] = r
  BY <1>1, <1>3 DEF RemoveFirst
<1> QED BY <1>2, <1>3

\* A step with no say in the queue leaves it in order.
LEMMA QueueStays ==
    ASSUME Queueing, waiting' = waiting,
           \A k \in DOMAIN waiting : at'[waiting[k]] = at[waiting[k]]
    PROVE  Queueing'
BY DEF Queueing

LEMMA ProceedQueues ==
    ASSUME SandboxTypes, Queueing, NEW r \in Run, Submit(r) \/ Proceed(r)
    PROVE  Queueing'
<1>1. Placed(r)
  BY ProceedIsOwn
<1>2. waiting \in Seq(Run) /\ DOMAIN waiting = 1 .. Len(waiting) /\ Len(waiting) \in Nat
      /\ \A k \in DOMAIN waiting : waiting[k] \in Run
  BY DEF SandboxTypes
<1>3. CASE waiting' = waiting /\ at[r] # "wait"
  <2>1. \A k \in DOMAIN waiting : waiting[k] # r /\ at'[waiting[k]] = at[waiting[k]]
    BY <1>1, <1>2, <1>3 DEF Queueing, Placed
  <2> QED BY <1>3, <2>1, QueueStays
<1>4. CASE Ask(r)
  <2>1. at[r] = "ask"
    BY <1>4 DEF Ask
  <2>2. CASE waiting' = waiting
    BY <1>3, <2>1, <2>2
  <2>3. CASE Moves(r, "wait") /\ waiting' = Append(waiting, r)
    <3>1. at'[r] = "wait"
      BY <2>3 DEF Moves, SandboxTypes
    <3>2. \A k \in DOMAIN waiting : waiting[k] # r /\ at'[waiting[k]] = "wait"
      BY <1>1, <1>2, <2>1 DEF Queueing, Placed
    <3>3. /\ DOMAIN waiting' = 1 .. (Len(waiting) + 1) /\ waiting'[Len(waiting) + 1] = r
          /\ \A k \in DOMAIN waiting : waiting'[k] = waiting[k]
      BY <1>2, <2>3
    <3> QED BY <1>2, <3>1, <3>2, <3>3 DEF Queueing
  <2> QED BY <1>4, <2>2, <2>3 DEF Ask
<1>5. CASE Enter(r)
  <2>1. waiting # <<>> /\ Head(waiting) = r /\ waiting' = Tail(waiting)
    BY <1>5 DEF Enter, Entering
  <2>2. /\ r = waiting[1] /\ 1 \in DOMAIN waiting
        /\ \A k \in DOMAIN Tail(waiting) : /\ k + 1 \in DOMAIN waiting /\ k \in Nat /\ k + 1 # 1
                                           /\ Tail(waiting)[k] = waiting[k + 1]
    BY <1>2, <2>1, FirstInQueue
  <2>3. \A k \in DOMAIN waiting' : waiting'[k] # r /\ at'[waiting'[k]] = "wait"
    BY <1>1, <1>2, <2>1, <2>2 DEF Queueing, Placed
  <2>4. ASSUME NEW k \in DOMAIN waiting', NEW m \in DOMAIN waiting', waiting'[k] = waiting'[m]
        PROVE  k = m
    <3>1. k + 1 = m + 1
      BY <2>1, <2>2, <2>4 DEF Queueing
    <3> QED BY <2>1, <2>2, <3>1
  <2> QED BY <2>3, <2>4 DEF Queueing
<1>6. CASE Submit(r) \/ Dequeue(r) \/ Execute(r) \/ FindTree(r) \/ MakeTree(r)
  BY <1>3, <1>6 DEF Submit, Dequeue, Execute, FindTree, MakeTree, poolVars
<1>7. CASE TreeMade(r) \/ NoTree(r)
  <2>1. waiting' = waiting
    BY <1>7 DEF TreeMade, NoTree
  <2>2. CASE at[r] = "wait"
    <3>1. at' = at
      BY <1>7, <2>2 DEF TreeMade, NoTree, Stops
    <3> QED BY <2>1, <3>1, QueueStays
  <2> QED BY <1>3, <2>1, <2>2
<1>8. CASE Start(r) \/ BuildFails(r) \/ ContainerEnds(r) \/ Reap(r)
  BY <1>3, <1>8 DEF Start, BuildFails, ContainerEnds, Reap
<1> QED BY <1>4, <1>5, <1>6, <1>7, <1>8 DEF Proceed

\* More faults excuse more.
LEMMA Times ==
    ASSUME NEW c \in Nat, NEW m \in Nat, NEW n \in Nat, m <= n
    PROVE  c * m <= c * n /\ c * m \in Nat /\ c * n \in Nat
<1>1. PICK d \in Nat : n = m + d
  <2>1. n - m \in Nat /\ n = m + (n - m)
    OBVIOUS
  <2> QED BY <2>1
<1>2. c * n = c * m + c * d
  BY <1>1
<1>3. c * d \in Nat /\ c * d >= 0
  OBVIOUS
<1>4. c * m \in Nat
  OBVIOUS
<1> QED BY <1>2, <1>3, <1>4

\* Fewer slots in use are within the bound as well.
LEMMA CountsStay ==
    ASSUME Counted, SandboxTypes, Slots' \subseteq Slots, forced' = forced, stray' <= stray,
           stray' \in Nat, faults' \in Nat, faults' >= faults,
           \A r \in forced : at'[r] = "ended"
    PROVE  Counted'
<1>1. IsFiniteSet(Slots') /\ Cardinality(Slots') <= Cardinality(Slots)
  BY FS_Subset DEF Counted
<1>2. Cardinality(Slots) \in Nat /\ Cardinality(Slots') \in Nat /\ Cardinality(forced) \in Nat
  BY <1>1, FS_CardinalityType DEF Counted
<1>3. PICK few, many \in Nat : few = Capacity * faults /\ many = Capacity * faults' /\ few <= many
  BY SandboxAssumption, Times DEF SandboxTypes
<1>4. stray' <= Cardinality(forced) + many
  <2>1. stray <= Cardinality(forced) + few
    BY <1>3 DEF Counted
  <2>2. stray \in Nat
    BY DEF SandboxTypes
  <2> QED BY <1>2, <1>3, <2>1, <2>2
<1>5. Cardinality(Slots') <= Capacity
  BY <1>1, <1>2, SandboxAssumption DEF Counted
<1> QED BY <1>1, <1>3, <1>4, <1>5 DEF Counted

LEMMA ProceedCounts ==
    ASSUME SandboxTypes, Queueing, Counted, NEW r \in Run, Submit(r) \/ Proceed(r)
    PROVE  Counted'
<1>1. /\ Placed(r) /\ Own(r) /\ SandboxTypes' /\ UNCHANGED <<stray, forced>>
  BY ProceedIsOwn
<1>2. \A q \in forced : at'[q] = "ended"
  <2>1. \A q \in forced : q = r \/ q \notin Run \/ at'[q] = at[q]
    BY <1>1 DEF Placed
  <2>2. forced \subseteq Run
    BY DEF SandboxTypes
  <2> QED BY <1>1, <2>1, <2>2 DEF Own, Counted
<1>3. CASE ~Enter(r)
  <2>1. Slots' \subseteq Slots
    <3>1. at'[r] \in {"build", "run", "drain", "reap"} => at[r] \in {"build", "run", "drain", "reap"}
      <4>1. CASE Submit(r) \/ Dequeue(r) \/ Execute(r) \/ Start(r) \/ ContainerEnds(r)
        BY <4>1 DEF Submit, Dequeue, Execute, Start, ContainerEnds, Moves, SandboxTypes
      <4>2. CASE FindTree(r) \/ TreeMade(r)
        BY <4>2, TreePlaces DEF FindTree, TreeMade, SandboxTypes
      <4>3. CASE MakeTree(r) \/ NoTree(r)
        BY <4>3 DEF MakeTree, NoTree, Stops, Moves, poolVars, SandboxTypes
      <4>4. CASE Ask(r) \/ BuildFails(r) \/ Reap(r)
        BY <4>4, ReturnPlaces DEF Ask, BuildFails, Reap, Moves, SandboxTypes
      <4> QED BY <1>3, <4>1, <4>2, <4>3, <4>4 DEF Proceed
    <3> QED BY <1>1, <3>1 DEF Slots, Placed
  <2> QED BY <1>1, <1>2, <2>1, CountsStay DEF SandboxTypes, Own
<1>4. CASE Enter(r)
  <2>1. Cardinality(Slots) < Capacity /\ faults' = faults
    BY <1>4 DEF Enter, Entering, countVars
  <2>2. Slots' \subseteq Slots \cup {r}
    BY <1>1 DEF Slots, Placed
  <2>3. /\ IsFiniteSet(Slots \cup {r}) /\ Cardinality(Slots \cup {r}) <= Cardinality(Slots) + 1
        /\ Cardinality(Slots) \in Nat
    <3>1. IsFiniteSet(Slots) /\ Cardinality(Slots) \in Nat
      BY FS_CardinalityType DEF Counted
    <3>2. /\ IsFiniteSet(Slots \cup {r})
          /\ \/ Cardinality(Slots \cup {r}) = Cardinality(Slots)
             \/ Cardinality(Slots \cup {r}) = Cardinality(Slots) + 1
      BY <3>1, FS_AddElement
    <3> QED BY <3>1, <3>2
  <2>4. /\ IsFiniteSet(Slots') /\ Cardinality(Slots') <= Cardinality(Slots \cup {r})
        /\ Cardinality(Slots') \in Nat /\ Cardinality(Slots \cup {r}) \in Nat
    BY <2>2, <2>3, FS_Subset, FS_CardinalityType
  <2>5. Cardinality(Slots') <= Capacity
    BY <2>1, <2>3, <2>4, SandboxAssumption
  <2> QED BY <1>1, <1>2, <2>1, <2>4, <2>5 DEF Counted
<1> QED BY <1>3, <1>4

\* A slot is given to a run that is not cancelled: pool.run looks when it has it.
LEMMA ProceedStops ==
    ASSUME SandboxTypes, Queueing, Stopped, NEW r \in Run, Submit(r) \/ Proceed(r)
    PROVE  Stopped'
<1>1. Placed(r) /\ Own(r) /\ UNCHANGED <<dropped, cancelled>>
  BY ProceedIsOwn
<1>2. at'[r] = "build" => at[r] = "build" \/ (at[r] = "wait" /\ r \notin cancelled)
  <2>1. CASE Submit(r) \/ Dequeue(r) \/ Execute(r) \/ Start(r) \/ ContainerEnds(r)
    BY <2>1 DEF Submit, Dequeue, Execute, Start, ContainerEnds, Moves, SandboxTypes
  <2>2. CASE FindTree(r) \/ TreeMade(r)
    BY <2>2, TreePlaces DEF FindTree, TreeMade, SandboxTypes
  <2>3. CASE MakeTree(r) \/ NoTree(r)
    BY <2>3 DEF MakeTree, NoTree, Stops, Moves, poolVars, SandboxTypes
  <2>4. CASE Ask(r) \/ BuildFails(r) \/ Reap(r)
    BY <2>4, ReturnPlaces DEF Ask, BuildFails, Reap, Moves, SandboxTypes
  <2>5. CASE Enter(r)
    <3>1. at[r] = "wait"
      <4>1. waiting \in Seq(Run) /\ waiting # <<>> /\ r = Head(waiting)
        BY <2>5 DEF Enter, Entering, SandboxTypes
      <4>2. 1 \in DOMAIN waiting /\ r = waiting[1]
        BY <4>1, FirstInQueue
      <4> QED BY <4>2 DEF Queueing
    <3> QED BY <2>5, <3>1, ReturnPlaces DEF Enter, SandboxTypes
  <2> QED BY <2>1, <2>2, <2>3, <2>4, <2>5 DEF Proceed
<1>3. ASSUME NEW q \in dropped'
      PROVE  at'[q] = "ended" \/ (at'[q] # "none" /\ q \in cancelled')
  <2>1. q \in Run /\ (at[q] = "ended" \/ (at[q] # "none" /\ q \in cancelled))
    BY <1>1 DEF Stopped, SandboxTypes
  <2>2. CASE q = r
    BY <1>1, <2>1, <2>2 DEF Own, Placed
  <2>3. CASE q # r
    BY <1>1, <2>1, <2>3 DEF Placed
  <2> QED BY <2>2, <2>3
<1>4. \A q \in Run : at'[q] = "build" => q \notin dropped'
  BY <1>1, <1>2 DEF Stopped, Placed
<1> QED BY <1>3, <1>4 DEF Stopped

\* What a thread is at stays what its run asks for.
LEMMA ProceedMakes ==
    ASSUME SandboxTypes, Queueing, Making, NEW r \in Run, Submit(r) \/ Proceed(r)
    PROVE  Making'
<1>1. Placed(r) /\ Own(r)
  BY ProceedIsOwn
<1>2. r # Nobody
  BY WorktreesAssumption
<1>3. ASSUME NEW q \in Run \ {r}, NEW c \in Commit, maker'[c] = q, maker[c] = q
      PROVE  at'[q] = "ended" \/ (at'[q] = "tree" /\ c = Wants(q)')
  BY <1>1, <1>3 DEF Making, Placed, Wants
<1>4. ASSUME maker' = maker, \A c \in Commit : maker[c] = r => at[r] = "ended"
      PROVE  Making'
  <2>1. ASSUME NEW q \in Run, NEW c \in Commit, maker'[c] = q
        PROVE  at'[q] = "ended" \/ (at'[q] = "tree" /\ c = Wants(q)')
    BY <1>1, <1>3, <1>4, <2>1 DEF Own
  <2> QED BY <2>1 DEF Making
<1>5. CASE at[r] # "tree" /\ maker' = maker
  BY <1>4, <1>5 DEF Making
<1>6. CASE FindTree(r) \/ (NoTree(r) /\ maker' = maker)
  <2>1. \A c \in Commit : maker[c] # r
    <3>1. at[r] = "tree" /\ maker[Wants(r)] = Nobody
      <4>1. CASE FindTree(r)
        BY <4>1 DEF FindTree, Finds
      <4>2. CASE NoTree(r) /\ maker' = maker
        <5>1. ASSUME NEW c \in Commit, maker[c] = r, Unlock(c) PROVE FALSE
          BY <1>2, <4>2, <5>1 DEF Unlock, SandboxTypes
        <5> QED BY <4>2, <5>1 DEF NoTree, CannotAdd, FailsToAdd, KilledAdding
      <4> QED BY <1>6, <4>1, <4>2
    <3> QED BY <1>2, <3>1 DEF Making
  <2>2. maker' = maker
    BY <1>6 DEF FindTree, treeVars
  <2> QED BY <1>4, <2>1, <2>2
<1>7. CASE MakeTree(r)
  <2>1. /\ at[r] = "tree" /\ maker[Wants(r)] = Nobody /\ at' = at /\ job' = job
        /\ Wants(r) \in Commit /\ maker' = [maker EXCEPT ![Wants(r)] = r]
    BY <1>7, SandboxAssumption DEF MakeTree, BeginsAdd, poolVars, Wants
  <2>2. ASSUME NEW q \in Run, NEW c \in Commit, maker'[c] = q
        PROVE  at'[q] = "ended" \/ (at'[q] = "tree" /\ c = Wants(q)')
    BY <2>1, <2>2 DEF Making, Wants, SandboxTypes
  <2> QED BY <2>2 DEF Making
<1>8. CASE TreeMade(r) \/ NoTree(r)
  <2>1. CASE \E c \in Commit : maker[c] = r /\ Unlock(c)
    <3>1. PICK c \in Commit : maker[c] = r /\ maker' = [maker EXCEPT ![c] = Nobody]
      BY <2>1 DEF Unlock
    <3>2. ASSUME NEW q \in Run, NEW d \in Commit, maker'[d] = q
          PROVE  at'[q] = "ended" \/ (at'[q] = "tree" /\ d = Wants(q)')
      <4>1. d # c /\ maker[d] = q
        BY <3>1, <3>2, WorktreesAssumption DEF SandboxTypes
      <4>2. CASE q = r
        <5>1. at[r] = "ended"
          BY <3>1, <4>1, <4>2 DEF Making
        <5> QED BY <1>1, <4>2, <5>1 DEF Own
      <4> QED BY <1>3, <3>2, <4>1, <4>2
    <3> QED BY <3>2 DEF Making
  <2>2. CASE ~ \E c \in Commit : maker[c] = r /\ Unlock(c)
    <3>1. NoTree(r) /\ maker' = maker
      BY <1>8, <2>2 DEF TreeMade, NoTree, EndsAdd, FailsToAdd, KilledAdding, treeVars
    <3> QED BY <1>6, <3>1
  <2> QED BY <2>1, <2>2
<1>9. CASE Submit(r) \/ Dequeue(r) \/ Execute(r) \/ Ask(r) \/ Start(r) \/ BuildFails(r)
           \/ ContainerEnds(r) \/ Reap(r)
  BY <1>5, <1>9 DEF Submit, Dequeue, Execute, Ask, Start, BuildFails, ContainerEnds, Reap, treeVars
<1>10. CASE Enter(r)
  <2>1. waiting \in Seq(Run) /\ waiting # <<>> /\ r = Head(waiting)
    BY <1>10 DEF Enter, Entering, SandboxTypes
  <2>2. at[r] = "wait"
    BY <2>1, FirstInQueue DEF Queueing
  <2> QED BY <1>5, <1>10, <2>2 DEF Enter, treeVars
<1> QED BY <1>6, <1>7, <1>8, <1>9, <1>10 DEF Proceed

LEMMA Commits ==
    ASSUME SandboxTypes, NEW r \in Run
    PROVE  /\ ForkPoint[r] \in Commit /\ HeadSha[r] \in Commit
           /\ job[r] = "base" => Wants(r) = ForkPoint[r]
           /\ job[r] = "head" => Wants(r) = HeadSha[r]
           /\ job[r] \in {"base", "head"} /\ Wants(r) \in Commit
BY SandboxAssumption DEF Wants, SandboxTypes

\* With the directories as they were, so are the excuses.
LEMMA TreesStay ==
    ASSUME Excusing, UNCHANGED <<dir, maker, sweep, named>>, excused \subseteq excused'
    PROVE  Excusing' /\ \A c \in Commit : Sound(c) => Sound(c)'
BY DEF Excusing, Sound

\* git and docker change the directory of one commit.
LEMMA ProceedExcuses ==
    ASSUME SandboxTypes, Queueing, Excusing, Reading, NEW r \in Run, Submit(r) \/ Proceed(r)
    PROVE  Excusing' /\ \A c \in Commit : Sound(c) => Sound(c)'
<1>1. Own(r)
  BY ProceedIsOwn
<1>2. r # Nobody /\ Nobody \notin Run
  BY WorktreesAssumption
<1>3. CASE UNCHANGED <<dir, maker>>
  BY <1>1, <1>3, TreesStay DEF Own
<1>4. CASE MakeTree(r)
  <2>1. PICK c \in Commit : /\ maker[c] = Nobody /\ dir[c] = "absent"
                            /\ maker' = [maker EXCEPT ![c] = r] /\ dir' = [dir EXCEPT ![c] = "part"]
    BY <1>4, Commits DEF MakeTree, BeginsAdd
  <2> QED BY <1>1, <1>2, <2>1 DEF Own, Excusing, Sound, SandboxTypes
<1>5. CASE \E c \in Commit : maker[c] = r /\ EndsAdd(c)
  <2>1. PICK c \in Commit : /\ maker[c] = r /\ maker' = [maker EXCEPT ![c] = Nobody]
                            /\ dir' = [dir EXCEPT ![c] = IF dir[c] = "part" THEN "whole" ELSE dir[c]]
    BY <1>5 DEF EndsAdd, Unlock
  <2> QED BY <1>1, <1>2, <2>1 DEF Own, Excusing, Sound, SandboxTypes
<1>6. CASE \E c \in Commit : maker[c] = r /\ FailsToAdd(c)
  <2>1. PICK c \in Commit : /\ maker[c] = r /\ maker' = [maker EXCEPT ![c] = Nobody]
                            /\ dir' = [dir EXCEPT ![c] = "absent"]
    BY <1>6 DEF FailsToAdd, Unlock
  <2> QED BY <1>1, <1>2, <2>1 DEF Own, Excusing, Sound, SandboxTypes
<1>7. CASE \E c \in Commit : maker[c] = r /\ KilledAdding(c) /\ Fails({c})
  <2>1. PICK c \in Commit : /\ maker[c] = r /\ maker' = [maker EXCEPT ![c] = Nobody]
                            /\ dir' = dir /\ c \in excused'
    BY <1>7 DEF KilledAdding, Unlock, Fails
  <2> QED BY <1>1, <1>2, <2>1 DEF Own, Excusing, Sound, SandboxTypes
<1>8. CASE Start(r)
  <2>1. PICK c \in Commit : c = Wants(r) /\ maker' = maker
                            /\ dir' = [dir EXCEPT ![c] = IF dir[c] = "absent" THEN "part" ELSE dir[c]]
    BY <1>8, Commits DEF Start
  <2>2. Sound(c)
    BY <1>8, <2>1, Commits DEF Start, Reading, HasBoth
  <2> QED BY <1>1, <1>2, <2>1, <2>2 DEF Own, Excusing, Sound, SandboxTypes
<1>9. CASE TreeMade(r) \/ NoTree(r)
  BY <1>3, <1>5, <1>6, <1>7, <1>9 DEF TreeMade, NoTree, treeVars
<1>10. CASE Submit(r) \/ Dequeue(r) \/ Execute(r) \/ FindTree(r) \/ Ask(r) \/ Enter(r)
            \/ BuildFails(r) \/ ContainerEnds(r) \/ Reap(r)
  BY <1>3, <1>10 DEF Submit, Dequeue, Execute, FindTree, Ask, Enter, BuildFails, ContainerEnds,
                    Reap, treeVars
<1> QED BY <1>4, <1>8, <1>9, <1>10 DEF Proceed

\* A checkout that is found, or has just been made, is whole or excused.
LEMMA Found ==
    ASSUME SandboxTypes, Excusing, NEW c \in Commit, Finds(c)
    PROVE  Sound(c)
BY DEF Finds, Excusing, Sound, SandboxTypes

LEMMA Made ==
    ASSUME SandboxTypes, Excusing, NEW c \in Commit, EndsAdd(c), excused \subseteq excused'
    PROVE  Sound(c)'
BY DEF EndsAdd, Excusing, Sound, SandboxTypes

LEMMA ProceedReads ==
    ASSUME SandboxTypes, Queueing, Making, Excusing, Reading, NEW r \in Run,
           Submit(r) \/ Proceed(r)
    PROVE  Reading'
<1>1. Placed(r) /\ Own(r) /\ SandboxTypes'
  BY ProceedIsOwn
<1>2. \A c \in Commit : Sound(c) => Sound(c)'
  BY ProceedExcuses
<1>3. \A q \in Run : ForkPoint[q] \in Commit /\ HeadSha[q] \in Commit
  BY Commits
<1>4. SUFFICES
        /\ at'[r] = "tree" /\ job'[r] = "head" => Sound(ForkPoint[r])'
        /\ HasBoth(r)' => Sound(ForkPoint[r])' /\ Sound(HeadSha[r])'
        /\ at'[r] \in {"run", "drain", "reap"} => r \in intact' \/ Wants(r)' \in excused'
  <2>1. ASSUME NEW q \in Run \ {r}
        PROVE  /\ at'[q] = "tree" /\ job'[q] = "head" => Sound(ForkPoint[q])'
               /\ HasBoth(q)' => Sound(ForkPoint[q])' /\ Sound(HeadSha[q])'
               /\ at'[q] \in {"run", "drain", "reap"} => q \in intact' \/ Wants(q)' \in excused'
    <3>1. at'[q] = at[q] /\ job'[q] = job[q] /\ Wants(q)' = Wants(q)
      BY <1>1 DEF Placed, Wants
    <3> QED BY <1>1, <1>2, <1>3, <3>1 DEF Own, Reading, HasBoth
  <2> QED BY <2>1 DEF Reading
<1>5. ASSUME HasBoth(r) PROVE Sound(ForkPoint[r])' /\ Sound(HeadSha[r])'
  BY <1>2, <1>3, <1>5 DEF Reading
<1>6. ASSUME at[r] = "tree", HasTree(r), NEW c \in Commit, c = Wants(r), Sound(c)'
      PROVE  /\ at'[r] = "tree" /\ job'[r] = "head" => Sound(ForkPoint[r])'
             /\ HasBoth(r)' => Sound(ForkPoint[r])' /\ Sound(HeadSha[r])'
             /\ at'[r] \notin {"run", "drain", "reap"}
  <2>1. CASE job[r] = "base"
    <3>1. at'[r] = "tree" /\ c = ForkPoint[r]
      BY <1>6, <2>1, TreePlaces, Commits
    <3> QED BY <1>6, <3>1 DEF HasBoth
  <2>2. CASE job[r] = "head"
    <3>1. at'[r] = "ask" /\ c = HeadSha[r]
      BY <1>6, <2>2, TreePlaces, Commits
    <3>2. Sound(ForkPoint[r])'
      BY <1>2, <1>3, <1>6, <2>2 DEF Reading
    <3> QED BY <1>6, <3>1, <3>2
  <2> QED BY <2>1, <2>2, Commits
<1>7. CASE FindTree(r)
  <2>1. PICK c \in Commit : c = Wants(r) /\ Finds(c)
    BY <1>7, Commits DEF FindTree
  <2>2. Sound(c)'
    BY <1>2, <2>1, Found
  <2> QED BY <1>6, <1>7, <2>1, <2>2 DEF FindTree
<1>8. CASE TreeMade(r)
  <2>1. PICK c \in Commit : maker[c] = r /\ EndsAdd(c)
    BY <1>8 DEF TreeMade
  <2>2. CASE at[r] = "tree"
    <3>1. c = Wants(r) /\ HasTree(r)
      BY <1>8, <2>1, <2>2 DEF TreeMade, Making
    <3>2. Sound(c)'
      BY <1>1, <2>1, Made DEF Own
    <3> QED BY <1>6, <2>2, <3>1, <3>2
  <2>3. CASE at[r] # "tree"
    <3>1. at[r] = "ended" /\ at'[r] = "ended"
      BY <1>1, <2>1, <2>3 DEF Making, Own
    <3> QED BY <3>1 DEF HasBoth
  <2> QED BY <2>2, <2>3
<1>9. CASE MakeTree(r)
  <2>1. at'[r] = "tree" /\ job'[r] = job[r] /\ at[r] = "tree"
    BY <1>9 DEF MakeTree, poolVars
  <2> QED BY <1>2, <1>3, <2>1 DEF Reading, HasBoth
<1>9a. CASE NoTree(r)
  <2>1. at'[r] = "ended"
    <3>1. at[r] = "tree" \/ \E c \in Commit : maker[c] = r
      BY <1>9a DEF NoTree
    <3>2. at[r] = "tree" \/ at[r] = "ended"
      BY <3>1 DEF Making
    <3> QED BY <1>9a, <3>2 DEF NoTree, Stops, Moves, SandboxTypes
  <2> QED BY <2>1 DEF HasBoth
<1>10. CASE Submit(r) \/ Dequeue(r) \/ Execute(r)
  BY <1>1, <1>10 DEF Submit, Dequeue, Execute, Moves, SandboxTypes, HasBoth
<1>11. CASE Ask(r) \/ Enter(r) \/ BuildFails(r) \/ Reap(r)
  <2>1. HasBoth(r)
    <3>1. CASE Enter(r)
      <4>1. waiting \in Seq(Run) /\ waiting # <<>> /\ r = Head(waiting)
        BY <3>1 DEF Enter, Entering, SandboxTypes
      <4> QED BY <4>1, FirstInQueue DEF Queueing, HasBoth
    <3> QED BY <1>11, <3>1 DEF Ask, BuildFails, Reap, HasBoth
  <2>2. at'[r] \in {"ask", "wait", "build", "ended"}
    BY <1>11, ReturnPlaces, Commits DEF Ask, Enter, BuildFails, Reap, Moves, SandboxTypes
  <2> QED BY <1>5, <2>1, <2>2
<1>12. CASE Start(r)
  <2>1. HasBoth(r) /\ at'[r] = "run" /\ Wants(r)' = Wants(r)
    BY <1>12 DEF Start, Moves, SandboxTypes, HasBoth, Wants
  <2>2. r \in intact' \/ Wants(r) \in excused
    <3>1. Sound(Wants(r))
      BY <2>1, Commits DEF Reading
    <3> QED BY <1>12, <3>1 DEF Start, Sound
  <2> QED BY <1>1, <1>5, <2>1, <2>2 DEF Own
<1>13. CASE ContainerEnds(r)
  <2>1. /\ HasBoth(r) /\ Wants(r)' = Wants(r)
        /\ (at'[r] = "reap" /\ at[r] = "run" /\ intact' = intact) \/ at'[r] = "ended"
    BY <1>13 DEF ContainerEnds, Moves, SandboxTypes, HasBoth, Wants
  <2> QED BY <1>1, <1>5, <2>1 DEF Own, Reading, HasBoth
<1> QED BY <1>7, <1>8, <1>9, <1>9a, <1>10, <1>11, <1>12, <1>13 DEF Proceed

\* What is stored is what the container gave, and a failed build.
LEMMA ProceedCaches ==
    ASSUME SandboxTypes, Queueing, Excusing, Reading, CachedIsGenuine, NEW r \in Run,
           Submit(r) \/ Proceed(r)
    PROVE  CachedIsGenuine'
<1>1. excused \subseteq excused'
  BY ProceedIsOwn DEF Own
<1>2. CASE cached' = cached
  BY <1>1, <1>2 DEF CachedIsGenuine
<1>3. CASE BuildFails(r)
  <2>1. Wants(r) \in Commit /\ cached' = [cached EXCEPT ![Wants(r)] = "spoilt"]
    BY <1>3, Commits DEF BuildFails, Writes
  <2>2. Wants(r) \in excused'
    <3>1. CASE dir[Wants(r)] # "whole"
      <4>1. Sound(Wants(r))
        BY <1>3, Commits DEF BuildFails, Reading, HasBoth
      <4> QED BY <1>1, <3>1, <4>1 DEF Sound
    <3>2. CASE Fails({Wants(r)})
      BY <3>2 DEF Fails
    <3> QED BY <1>3, <3>1, <3>2 DEF BuildFails
  <2> QED BY <1>1, <2>1, <2>2 DEF CachedIsGenuine, SandboxTypes
<1>4. CASE Reap(r)
  <2>1. /\ Wants(r) \in Commit
        /\ cached' = [cached EXCEPT ![Wants(r)] = IF r \in intact THEN "genuine" ELSE "spoilt"]
    BY <1>4, Commits DEF Reap, Writes
  <2>2. r \in intact \/ Wants(r) \in excused
    BY <1>4 DEF Reap, Reading
  <2> QED BY <1>1, <2>1, <2>2 DEF CachedIsGenuine, SandboxTypes
<1> QED BY <1>2, <1>3, <1>4 DEF Proceed, Submit, Dequeue, Execute, FindTree, MakeTree, TreeMade,
                               NoTree, Ask, Enter, Start, ContainerEnds, poolVars
----------------------------------------------------------------------------
(* The other steps *)

\* A cancelled run gives its slot back, or keeps it while its container prints.
LEMMA CancelStep ==
    ASSUME IInv, NEW r \in Run, Cancel(r)
    PROVE  IInv'
<1>1. /\ SandboxTypes /\ Queueing /\ Counted /\ Stopped /\ Making /\ Excusing /\ Reading
      /\ CachedIsGenuine /\ waiting \in Seq(Run)
  BY DEF IInv, SandboxTypes
<1>2. /\ UNCHANGED <<dir, registered, maker, sweep, job, cached, named, excused, faults>>
      /\ cancelled' = cancelled \cup {r} /\ dropped' = dropped \cup {r}
      /\ at'[r] # "ended" => intact' = intact
      /\ \A q \in Run \ {r} : q \in intact' <=> q \in intact
  BY DEF Cancel, Forgets, treeVars
<1>3. /\ \A q \in Run \ {r} : at'[q] = at[q]
      /\ at' \in [Run -> Places]
      /\ \/ at[r] \in {"queued", "settling", "reap"} /\ at'[r] = at[r]
         \/ at[r] = "run" /\ at'[r] = "drain"
         \/ at[r] \notin {"none", "ended"} /\ at'[r] = "ended"
  BY <1>1 DEF Cancel, Interrupt, Moves, SandboxTypes, Places
<1>4. \/ waiting' = waiting /\ (at'[r] = at[r] \/ at[r] \in {"run", "drain"})
      \/ waiting' = RemoveFirst(waiting, r) /\ at'[r] = "ended"
  BY <1>1 DEF Cancel, Interrupt, Moves, Leaves, SandboxTypes
<1>5. \/ stray' = stray /\ forced' = forced
      \/ stray' = stray + 1 /\ forced' = forced \cup {r} /\ at[r] = "drain" /\ at'[r] = "ended"
  BY <1>1 DEF Cancel, Interrupt, Moves, SandboxTypes
<1>6. Queueing' /\ waiting' \in Seq(Run)
  <2>1. CASE waiting' = waiting /\ (at'[r] = at[r] \/ at[r] \in {"run", "drain"})
    <3>1. \A k \in DOMAIN waiting : waiting[k] \in Run
      BY <1>1
    <3>2. \A k \in DOMAIN waiting : at'[waiting[k]] = at[waiting[k]]
      BY <1>1, <1>3, <2>1, <3>1 DEF Queueing
    <3> QED BY <1>1, <2>1, <3>2, QueueStays
  <2>2. CASE waiting' = RemoveFirst(waiting, r) /\ at'[r] = "ended"
    <3>1. \A k, m \in DOMAIN waiting : waiting[k] = waiting[m] => k = m
      BY <1>1 DEF Queueing
    <3>2. PICK left : left = RemoveFirst(waiting, r)
      OBVIOUS
    <3>3. /\ left \in Seq(Run)
          /\ \A k \in DOMAIN left : left[k] # r /\ \E j \in DOMAIN waiting : left[k] = waiting[j]
          /\ \A k, m \in DOMAIN left : left[k] = left[m] => k = m
      BY <1>1, <3>1, <3>2, Removed
    <3>4. \A k \in DOMAIN left : at'[left[k]] = "wait"
      <4>1. ASSUME NEW k \in DOMAIN left PROVE at'[left[k]] = "wait"
        <5>1. PICK j \in DOMAIN waiting : left[k] = waiting[j] /\ left[k] # r
          BY <3>3
        <5>2. left[k] \in Run /\ at[left[k]] = "wait"
          BY <1>1, <5>1 DEF Queueing
        <5> QED BY <1>3, <5>1, <5>2
      <4> QED BY <4>1
    <3> QED BY <2>2, <3>2, <3>3, <3>4 DEF Queueing
  <2> QED BY <1>4, <2>1, <2>2
<1>7. SandboxTypes'
  <2>1. stray' \in Nat /\ forced' \subseteq Run
    BY <1>1, <1>5 DEF SandboxTypes
  <2> QED BY <1>1, <1>2, <1>3, <1>6, <2>1 DEF SandboxTypes
<1>8. Counted'
  <2>1. Slots' \subseteq Slots
    BY <1>3 DEF Slots
  <2>2. \A q \in forced : at'[q] = "ended"
    BY <1>1, <1>3 DEF Counted, SandboxTypes
  <2>3. CASE stray' = stray /\ forced' = forced
    BY <1>1, <1>2, <2>1, <2>2, <2>3, CountsStay DEF SandboxTypes
  <2>4. CASE stray' = stray + 1 /\ forced' = forced \cup {r} /\ at[r] = "drain" /\ at'[r] = "ended"
    <3>1. r \notin forced /\ IsFiniteSet(forced)
      BY <1>1, <2>4 DEF Counted
    <3>2. /\ IsFiniteSet(forced') /\ Cardinality(forced') = Cardinality(forced) + 1
          /\ Cardinality(forced) \in Nat
      BY <2>4, <3>1, FS_AddElement, FS_CardinalityType
    <3>3. IsFiniteSet(Slots') /\ Cardinality(Slots') <= Capacity
      <4>1. /\ IsFiniteSet(Slots') /\ Cardinality(Slots') <= Cardinality(Slots)
        BY <1>1, <2>1, FS_Subset DEF Counted
      <4>2. Cardinality(Slots') \in Nat /\ Cardinality(Slots) \in Nat
        BY <1>1, <4>1, FS_CardinalityType DEF Counted
      <4> QED BY <1>1, <4>1, <4>2, SandboxAssumption DEF Counted
    <3>4. PICK n \in Nat : n = Capacity * faults
      BY <1>1, SandboxAssumption, Times DEF SandboxTypes
    <3>5. stray' <= Cardinality(forced') + n
      <4>1. stray <= Cardinality(forced) + n /\ stray \in Nat
        BY <1>1, <3>4 DEF Counted, SandboxTypes
      <4> QED BY <2>4, <3>2, <4>1
    <3>6. \A q \in forced' : at'[q] = "ended"
      BY <2>2, <2>4
    <3> QED BY <1>2, <3>2, <3>3, <3>4, <3>5, <3>6 DEF Counted
  <2> QED BY <1>5, <2>3, <2>4
<1>9. Stopped'
  BY <1>1, <1>2, <1>3 DEF Stopped, SandboxTypes
<1>10. Making'
  BY <1>1, <1>2, <1>3 DEF Making, Wants
<1>11. Excusing' /\ \A c \in Commit : Sound(c)' = Sound(c)
  BY <1>1, <1>2 DEF Excusing, Sound
<1>12. Reading'
  <2>1. ASSUME NEW q \in Run
        PROVE  /\ at'[q] = "tree" /\ job'[q] = "head" => Sound(ForkPoint[q])'
               /\ HasBoth(q)' => Sound(ForkPoint[q])' /\ Sound(HeadSha[q])'
               /\ at'[q] \in {"run", "drain", "reap"} => q \in intact' \/ Wants(q)' \in excused'
    <3>1. ForkPoint[q] \in Commit /\ HeadSha[q] \in Commit
      BY <1>1, Commits
    <3>2. Wants(q)' = Wants(q)
      BY <1>2 DEF Wants
    <3>3. CASE q = r
      BY <1>1, <1>2, <1>3, <1>11, <3>1, <3>2, <3>3 DEF Reading, HasBoth
    <3>4. CASE q # r
      BY <1>1, <1>2, <1>3, <1>11, <3>1, <3>2, <3>4 DEF Reading, HasBoth
    <3> QED BY <3>3, <3>4
  <2> QED BY <2>1 DEF Reading
<1>13. CachedIsGenuine'
  BY <1>1, <1>2 DEF CachedIsGenuine
<1> QED BY <1>6, <1>7, <1>8, <1>9, <1>10, <1>11, <1>12, <1>13 DEF IInv

LEMMA StrayStep ==
    ASSUME IInv, StrayEnds
    PROVE  IInv'
<1>1. /\ SandboxTypes /\ Queueing /\ Counted /\ Stopped /\ Making /\ Excusing /\ Reading
      /\ CachedIsGenuine
  BY DEF IInv
<1>2. /\ stray' \in Nat /\ stray' <= stray /\ faults' = faults /\ forced' = forced
      /\ UNCHANGED <<treeVars, at, job, row, dropped, cancelled, waiting, intact, cached, countVars>>
  BY <1>1 DEF StrayEnds, SandboxTypes, countVars
<1>3. SandboxTypes' /\ Queueing' /\ Stopped' /\ Making'
  BY <1>1, <1>2 DEF SandboxTypes, Queueing, Stopped, Making, Wants, treeVars, countVars
<1>4. Excusing' /\ Reading' /\ CachedIsGenuine'
  BY <1>1, <1>2 DEF Excusing, Reading, Sound, HasBoth, Wants, CachedIsGenuine, treeVars, countVars
<1>5. Slots' = Slots /\ \A r \in forced : at'[r] = "ended"
  BY <1>1, <1>2 DEF Slots, Counted
<1>6. Counted'
  BY <1>1, <1>2, <1>5, CountsStay DEF SandboxTypes
<1> QED BY <1>3, <1>4, <1>6 DEF IInv

\* The containers that run when the process ends have a slot each: a restart leaves
\* no more of them than its fault is charged with.
LEMMA RestartCounts ==
    ASSUME SandboxTypes, Counted, Restart
    PROVE  Counted' /\ stray' \in Nat /\ faults' = faults + 1
<1>1. faults' = faults + 1 /\ forced' = forced
  BY DEF Restart, Fails
<1>2. IsFiniteSet(Running) /\ Cardinality(Running) \in Nat /\ Cardinality(Running) <= Capacity
  <2>1. Running \subseteq Slots
    BY DEF Running, Slots
  <2>2. IsFiniteSet(Running) /\ Cardinality(Running) <= Cardinality(Slots)
    BY <2>1, FS_Subset DEF Counted
  <2>3. Cardinality(Running) \in Nat /\ Cardinality(Slots) \in Nat /\ Cardinality(Slots) <= Capacity
    BY <2>2, FS_CardinalityType DEF Counted
  <2> QED BY <2>2, <2>3, SandboxAssumption
<1>3. Slots' = {} /\ \A r \in forced : at'[r] = "ended"
  <2>1. \A r \in Run : at'[r] \in {"none", "ended", "queued"} /\ (at[r] = "ended" => at'[r] = "ended")
    BY DEF Restart
  <2>2. forced \subseteq Run
    BY DEF SandboxTypes
  <2> QED BY <2>1, <2>2 DEF Slots, Counted
<1>4. IsFiniteSet(Slots') /\ Cardinality(Slots') <= Capacity
  BY <1>3, FS_EmptySet, SandboxAssumption
<1>5. PICK few, many \in Nat : /\ few = Capacity * faults /\ many = Capacity * (faults + 1)
                               /\ many = few + Capacity
  <2>1. Capacity \in Nat /\ faults \in Nat /\ faults + 1 \in Nat
    BY SandboxAssumption DEF SandboxTypes
  <2>2. Capacity * (faults + 1) = Capacity * faults + Capacity
    BY <2>1
  <2>3. Capacity * faults \in Nat /\ Capacity * (faults + 1) \in Nat
    BY <2>1, Times
  <2> QED BY <2>2, <2>3
<1>6. stray' \in Nat /\ stray' <= Cardinality(forced) + many
  <2>1. stray' = 0 \/ stray' = stray + Cardinality(Running)
    BY DEF Restart
  <2>2. Cardinality(forced) \in Nat /\ stray \in Nat /\ Capacity \in Nat
    BY FS_CardinalityType, SandboxAssumption DEF Counted, SandboxTypes
  <2>3. stray <= Cardinality(forced) + few
    BY <1>5 DEF Counted
  <2> QED BY <1>2, <1>5, <2>1, <2>2, <2>3
<1> QED BY <1>1, <1>3, <1>4, <1>5, <1>6 DEF Counted

LEMMA RestartStep ==
    ASSUME IInv, Restart
    PROVE  IInv'
<1>1. /\ SandboxTypes /\ Queueing /\ Counted /\ Stopped /\ Making /\ Excusing /\ Reading
      /\ CachedIsGenuine
  BY DEF IInv
<1>2. /\ dir' = dir /\ maker' = [c \in Commit |-> Nobody] /\ sweep' = Resting
      /\ UNCHANGED <<job, row, dropped, cached, forced>>
      /\ excused' = excused \cup {c \in Commit : maker[c] # Nobody}
      /\ waiting' = <<>> /\ named' = {}
  BY DEF Restart, TreesRestart, Fails
<1>3. Counted' /\ stray' \in Nat /\ faults' = faults + 1
  BY <1>1, RestartCounts
<1>4. /\ at' = [r \in Run |-> IF at[r] \in {"none", "ended"} THEN at[r]
                              ELSE IF r \in dropped THEN "ended" ELSE "queued"]
      /\ \A r \in Run : at'[r] \in {"none", "ended", "queued"}
  BY DEF Restart
<1>5. waiting' \in Seq(Run) /\ DOMAIN waiting' = {}
  BY <1>2
<1>6. SandboxTypes'
  <2>1. at' \in [Run -> Places]
    BY <1>4 DEF Places
  <2>2. faults' \in Nat
    BY <1>1, <1>3 DEF SandboxTypes
  <2> QED BY <1>1, <1>2, <1>3, <1>5, <2>1, <2>2 DEF SandboxTypes, Resting
<1>7. Queueing'
  BY <1>5 DEF Queueing
<1>8. Stopped'
  <2>1. \A r \in dropped : r \in Run /\ at[r] # "none"
    BY <1>1 DEF Stopped, SandboxTypes
  <2> QED BY <1>2, <1>4, <2>1 DEF Stopped
<1>9. Making'
  BY <1>2, WorktreesAssumption DEF Making
<1>10. Excusing'
  BY <1>1, <1>2 DEF Excusing, Resting
<1>11. Reading'
  BY <1>4 DEF Reading, HasBoth
<1>12. CachedIsGenuine'
  BY <1>1, <1>2 DEF CachedIsGenuine
<1> QED BY <1>3, <1>6, <1>7, <1>8, <1>9, <1>10, <1>11, <1>12 DEF IInv
----------------------------------------------------------------------------
(* The janitor's steps *)

\* The janitor moves no task; what else it leaves alone, it leaves as it was.
LEMMA JanitorLeaves ==
    ASSUME IInv, Sweep \/ Sweeping
    PROVE  /\ Queueing' /\ Counted' /\ Stopped' /\ Making' /\ CachedIsGenuine'
           /\ UNCHANGED <<at, job, cached, maker>> /\ excused \subseteq excused'
<1>1. /\ SandboxTypes /\ Queueing /\ Counted /\ Stopped /\ Making /\ CachedIsGenuine
  BY DEF IInv
<1>2. /\ UNCHANGED <<at, job, row, dropped, cancelled, waiting, cached, stray, maker,
                     forced, faults>>
      /\ excused \subseteq excused'
  <2>1. CASE Sweep
    BY <2>1 DEF Sweep, SweepReads, poolVars
  <2>2. CASE \E c \in Commit : TearDown(c)
    BY <2>2 DEF TearDown, TearsDown
  <2>3. CASE \E c \in Commit : TornDown(c) /\ UNCHANGED <<poolVars, countVars>>
    BY <2>3 DEF TornDown, poolVars, countVars
  <2>4. CASE SweepPrunes /\ named' = {} /\ UNCHANGED <<poolVars, forced, excused, sweeps, faults>>
    BY <2>4 DEF SweepPrunes, poolVars
  <2> QED BY <2>1, <2>2, <2>3, <2>4 DEF Sweeping
<1>3. Queueing' /\ Stopped' /\ Making'
  BY <1>1, <1>2 DEF Queueing, Stopped, Making, Wants
<1>4. CachedIsGenuine'
  BY <1>1, <1>2 DEF CachedIsGenuine
<1>5. Counted'
  BY <1>1, <1>2 DEF Counted, Slots
<1> QED BY <1>2, <1>3, <1>4, <1>5

\* A sweep reads which commits to keep, and the others are not named.
LEMMA SweepStep ==
    ASSUME IInv, Sweep
    PROVE  IInv'
<1>1. SandboxTypes /\ Excusing /\ Reading
  BY DEF IInv
<1>2. PICK keep :
        /\ sweep' = [pc |-> "remove", left |-> Commit \ keep, at |-> {}] /\ named' = keep
        /\ UNCHANGED <<dir, maker, excused, poolVars, forced, faults>>
  BY DEF Sweep, SweepReads, LiveCommits, Resting
<1>3. SandboxTypes'
  BY <1>1, <1>2 DEF SandboxTypes, poolVars
<1>4. Excusing'
  BY <1>1, <1>2 DEF Excusing
<1>5. Reading'
  BY <1>1, <1>2 DEF Reading, HasBoth, Sound, Wants, poolVars
<1> QED BY <1>3, <1>4, <1>5, JanitorLeaves DEF IInv

\* It removes the checkout of a commit that no row named.
LEMMA TearDownStep ==
    ASSUME IInv, NEW c \in Commit, TearDown(c)
    PROVE  IInv'
<1>1. SandboxTypes /\ Excusing /\ Reading
  BY DEF IInv
<1>2. /\ c \in sweep.left
      /\ sweep' = [sweep EXCEPT !.left = sweep.left \ {c}, !.at = {c}]
      /\ dir' = [dir EXCEPT ![c] = "torn"]
      /\ UNCHANGED <<at, job, row, dropped, waiting, cached, stray, named, forced, faults, maker>>
      /\ \A q \in Run : q \in intact => Wants(q) = c \/ q \in intact'
  BY DEF TearDown, TearsDown
<1>3. c \notin named
  BY <1>1, <1>2 DEF Excusing
<1>4. excused' = excused \cup {c}
  BY <1>3 DEF TearDown
<1>5. /\ sweep' \in [pc : {"idle", "remove"}, left : SUBSET Commit, at : SUBSET Commit]
      /\ sweep'.left = sweep.left \ {c} /\ sweep'.at = {c}
  BY <1>1, <1>2 DEF SandboxTypes
<1>6. dir' \in [Commit -> {"absent", "part", "whole", "torn"}]
      /\ dir'[c] = "torn" /\ \A d \in Commit \ {c} : dir'[d] = dir[d]
  BY <1>1, <1>2 DEF SandboxTypes
<1>7. SandboxTypes'
  BY <1>1, <1>2, <1>5, <1>6 DEF SandboxTypes
<1>8. Excusing'
  <2>1. ASSUME NEW d \in Commit
        PROVE  /\ dir'[d] = "torn" => d \in excused'
               /\ dir'[d] = "part" => maker'[d] # Nobody \/ d \in excused'
               /\ maker'[d] # Nobody => dir'[d] = "part" \/ d \in excused'
               /\ maker'[d] # Nobody => dir'[d] # "whole"
    <3>1. CASE d = c
      BY <1>4, <1>6, <3>1
    <3>2. CASE d # c
      BY <1>1, <1>2, <1>4, <1>6, <3>2 DEF Excusing
    <3> QED BY <3>1, <3>2
  <2>2. sweep'.left \cap named' = {} /\ sweep'.at \subseteq excused'
    BY <1>1, <1>2, <1>4, <1>5 DEF Excusing
  <2> QED BY <2>1, <2>2 DEF Excusing
<1>9. Reading'
  <2>1. \A d \in Commit : Sound(d) => Sound(d)'
    BY <1>4, <1>6 DEF Sound
  <2>2. \A q \in Run : ForkPoint[q] \in Commit /\ HeadSha[q] \in Commit /\ Wants(q)' = Wants(q)
    BY <1>1, <1>2, Commits DEF Wants
  <2> QED BY <1>1, <1>2, <1>4, <2>1, <2>2 DEF Reading, HasBoth
<1>10. Sweeping
  BY DEF Sweeping
<1> QED BY <1>7, <1>8, <1>9, <1>10, JanitorLeaves DEF IInv

LEMMA TornDownStep ==
    ASSUME IInv, NEW c \in Commit, TornDown(c), UNCHANGED <<poolVars, countVars>>
    PROVE  IInv'
<1>1. SandboxTypes /\ Excusing /\ Reading
  BY DEF IInv
<1>2. /\ c \in sweep.at
      /\ sweep' = [sweep EXCEPT !.at = {}]
      /\ dir' = [dir EXCEPT ![c] = "absent"] /\ maker' = maker
      /\ UNCHANGED <<at, job, dropped, waiting, intact, cached, stray, named, forced, excused, faults>>
  BY DEF TornDown, poolVars, countVars
<1>3. c \in excused
  BY <1>1, <1>2 DEF Excusing
<1>4. /\ sweep' \in [pc : {"idle", "remove"}, left : SUBSET Commit, at : SUBSET Commit]
      /\ sweep'.left = sweep.left /\ sweep'.at = {}
  BY <1>1, <1>2 DEF SandboxTypes
<1>5. SandboxTypes'
  BY <1>1, <1>2, <1>4 DEF SandboxTypes
<1>6. Excusing'
  BY <1>1, <1>2, <1>3, <1>4 DEF Excusing, SandboxTypes
<1>7. Reading'
  <2>1. \A d \in Commit : Sound(d) => Sound(d)'
    BY <1>1, <1>2, <1>3 DEF Sound, SandboxTypes
  <2>2. \A q \in Run : ForkPoint[q] \in Commit /\ HeadSha[q] \in Commit /\ Wants(q)' = Wants(q)
    BY <1>1, <1>2, Commits DEF Wants
  <2> QED BY <1>1, <1>2, <2>1, <2>2 DEF Reading, HasBoth
<1>8. Sweeping
  BY DEF Sweeping
<1> QED BY <1>5, <1>6, <1>7, <1>8, JanitorLeaves DEF IInv

LEMMA PruneStep ==
    ASSUME IInv, SweepPrunes, named' = {}, UNCHANGED <<poolVars, forced, excused, sweeps, faults>>
    PROVE  IInv'
<1>1. SandboxTypes /\ Excusing /\ Reading
  BY DEF IInv
<1>2. /\ sweep' = Resting
      /\ UNCHANGED <<dir, maker, at, job, dropped, waiting, intact, cached, stray, forced, excused, faults>>
  BY DEF SweepPrunes, poolVars
<1>3. SandboxTypes'
  BY <1>1, <1>2 DEF SandboxTypes, Resting
<1>4. Excusing'
  BY <1>1, <1>2 DEF Excusing, Resting
<1>5. Reading'
  BY <1>1, <1>2 DEF Reading, HasBoth, Sound, Wants
<1>6. Sweeping
  BY DEF Sweeping
<1> QED BY <1>3, <1>4, <1>5, <1>6, JanitorLeaves DEF IInv
----------------------------------------------------------------------------
(* The inductive invariant *)

LEMMA InitInv == Init => IInv
<1> SUFFICES ASSUME Init PROVE IInv
  OBVIOUS
<1>1. SandboxTypes
  BY SandboxAssumption DEF Init, TreesInit, Resting, SandboxTypes, Places
<1>2. Queueing
  BY DEF Init, Queueing
<1>3. Counted
  <2>1. Slots = {}
    BY DEF Init, Slots
  <2>2. PICK n \in Nat : n = Capacity * 0
    BY SandboxAssumption, Times
  <2>3. Cardinality(forced) = 0 /\ IsFiniteSet(forced) /\ IsFiniteSet(Slots) /\ Cardinality(Slots) = 0
    BY <2>1, FS_EmptySet DEF Init
  <2> QED BY <2>2, <2>3, SandboxAssumption DEF Init, Counted
<1>4. Stopped /\ Making
  BY WorktreesAssumption DEF Init, TreesInit, Stopped, Making
<1>5. Excusing /\ Reading /\ CachedIsGenuine
  BY DEF Init, TreesInit, Resting, Excusing, Reading, HasBoth, CachedIsGenuine
<1> QED BY <1>1, <1>2, <1>3, <1>4, <1>5 DEF IInv

LEMMA StepInv == IInv /\ [Next]_vars => IInv'
<1> SUFFICES ASSUME IInv, [Next]_vars PROVE IInv'
  OBVIOUS
<1>1. /\ SandboxTypes /\ Queueing /\ Counted /\ Stopped /\ Making /\ Excusing /\ Reading
      /\ CachedIsGenuine
  BY DEF IInv
<1>2. ASSUME NEW r \in Run, Submit(r) \/ Proceed(r) PROVE IInv'
  <2>1. SandboxTypes'
    BY <1>1, <1>2, ProceedIsOwn
  <2>2. Queueing' /\ Counted'
    BY <1>1, <1>2, ProceedQueues, ProceedCounts
  <2>3. Stopped' /\ Making'
    BY <1>1, <1>2, ProceedStops, ProceedMakes
  <2>4. Excusing' /\ Reading' /\ CachedIsGenuine'
    BY <1>1, <1>2, ProceedExcuses, ProceedReads, ProceedCaches
  <2> QED BY <2>1, <2>2, <2>3, <2>4 DEF IInv
<1>3. ASSUME NEW r \in Run, Cancel(r) PROVE IInv'
  BY <1>3, CancelStep
<1>4. CASE Sweep
  BY <1>4, SweepStep
<1>5. CASE Sweeping
  BY <1>5, TearDownStep, TornDownStep, PruneStep DEF Sweeping
<1>6. CASE StrayEnds
  BY <1>6, StrayStep
<1>7. CASE Restart
  BY <1>7, RestartStep
<1>8. CASE UNCHANGED vars
  <2>1. SandboxTypes' /\ Queueing'
    BY <1>1, <1>8 DEF vars, treeVars, poolVars, countVars, SandboxTypes, Queueing
  <2>2. Counted' /\ Stopped' /\ Making'
    BY <1>1, <1>8 DEF vars, treeVars, poolVars, countVars, Counted, Slots, Stopped, Making, Wants
  <2>3. Excusing' /\ Reading' /\ CachedIsGenuine'
    BY <1>1, <1>8 DEF vars, treeVars, poolVars, countVars, Excusing, Reading, Sound, HasBoth, Wants,
                      CachedIsGenuine
  <2> QED BY <2>1, <2>2, <2>3 DEF IInv
<1> QED BY <1>2, <1>3, <1>4, <1>5, <1>6, <1>7, <1>8 DEF Next

LEMMA Invariant == Spec => []IInv
BY InitInv, StepInv, PTL DEF Spec
----------------------------------------------------------------------------
(* Theorems *)

\* A stored result is what the suite does on its commit, unless the checkout was
\* removed when no row of a recent run named the commit, or git or a build had been
\* killed on it: for any number of runs, commits and slots, and whatever is
\* cancelled, swept or restarted between the steps of pool.run (_write_cached).
THEOREM StoredResultsAreGenuine == Spec => []CachedIsGenuine
<1>1. IInv => CachedIsGenuine
  BY DEF IInv
<1> QED BY <1>1, Invariant, PTL

\* The containers that somebody waits for are no more than the slots of the
\* semaphore, and those that nobody waits for no more than the runs cancelled twice
\* and, for each end of the process, the slots (run_streaming, _kill_orphans).
THEOREM SlotsAreEnough == Spec => []SlotsBoundContainers
<1>1. IInv => SlotsBoundContainers
  <2> SUFFICES ASSUME IInv PROVE SlotsBoundContainers
    OBVIOUS
  <2>1. Counted /\ Running \subseteq Slots
    BY DEF IInv, Running, Slots
  <2>2. IsFiniteSet(Running) /\ Cardinality(Running) <= Cardinality(Slots)
    BY <2>1, FS_Subset DEF Counted
  <2>3. Cardinality(Running) \in Nat /\ Cardinality(Slots) \in Nat /\ Cardinality(Slots) <= Capacity
    BY <2>1, <2>2, FS_CardinalityType DEF Counted
  <2>4. Cardinality(Running) <= Capacity
    BY <2>2, <2>3, SandboxAssumption
  <2> QED BY <2>1, <2>4 DEF Counted, SlotsBoundContainers
<1> QED BY <1>1, Invariant, PTL

\* Only a run that holds a slot, and was let in, starts a container.
LEMMA OnlyStartRuns ==
    ASSUME SandboxTypes, NEW r \in Run, Submit(r) \/ Proceed(r), at[r] # "run", at'[r] = "run"
    PROVE  at[r] = "build"
<1>1. CASE Submit(r) \/ Dequeue(r) \/ Execute(r) \/ Start(r) \/ ContainerEnds(r)
  BY <1>1 DEF Submit, Dequeue, Execute, Start, ContainerEnds, Moves, SandboxTypes
<1>2. CASE FindTree(r) \/ TreeMade(r)
  BY <1>2, TreePlaces DEF FindTree, TreeMade, SandboxTypes
<1>3. CASE MakeTree(r) \/ NoTree(r)
  BY <1>3 DEF MakeTree, NoTree, Stops, Moves, poolVars, SandboxTypes
<1>4. CASE Ask(r) \/ Enter(r) \/ BuildFails(r) \/ Reap(r)
  BY <1>4, ReturnPlaces DEF Ask, Enter, BuildFails, Reap, Moves, SandboxTypes
<1> QED BY <1>1, <1>2, <1>3, <1>4 DEF Proceed

\* A cancelled run starts no container, wherever its task was when it was cancelled
\* and whatever was restarted since: pool.run looks at _cancelled with the slot in its
\* hand, and recover does not queue a cancelled row.
THEOREM CancelledRunsStartNothing == Spec => CancelledStartsNothing
<1> DEFINE Lawful == \A r \in Run : at[r] # "run" /\ at'[r] = "run" => r \notin dropped
<1>1. IInv /\ [Next]_vars => [Lawful]_vars
  <2> SUFFICES ASSUME IInv, Next, NEW r \in Run, at[r] # "run", at'[r] = "run"
               PROVE  r \notin dropped
    OBVIOUS
  <2>1. SandboxTypes /\ Queueing /\ Stopped
    BY DEF IInv
  <2>2. ASSUME NEW q \in Run, Submit(q) \/ Proceed(q) PROVE r \notin dropped
    <3>1. q = r
      BY <2>1, <2>2, ProceedIsOwn DEF Placed
    <3>2. at[r] = "build"
      BY <2>1, <2>2, <3>1, OnlyStartRuns
    <3> QED BY <2>1, <3>2 DEF Stopped
  <2>3. ASSUME NEW q \in Run, Cancel(q) PROVE FALSE
    BY <2>1, <2>3 DEF Cancel, Interrupt, Moves, SandboxTypes
  <2>4. CASE Sweep \/ Sweeping
    BY <2>4, JanitorLeaves
  <2>5. CASE StrayEnds \/ Restart
    BY <2>5 DEF StrayEnds, Restart
  <2> QED BY <2>2, <2>3, <2>4, <2>5 DEF Next
<1>2. Spec => [][Next]_vars
  BY PTL DEF Spec
<1> HIDE DEF Lawful
<1>3. Spec => [][Lawful]_vars
  BY <1>1, <1>2, Invariant, PTL
<1> QED BY <1>3 DEF CancelledStartsNothing, Lawful
=============================================================================
