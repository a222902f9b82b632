-------------------------- MODULE SchedulerProofs --------------------------
(***************************************************************************)
(* The scheduler's invariants, for any number of repositories, pull        *)
(* requests, commits and consumers and for any bounds.  First, that its    *)
(* queue's three structures agree after every operation; then that it      *)
(* keeps the promise of FairQueue; then that each run has one owner.       *)
(***************************************************************************)
EXTENDS Scheduler, FiniteSetTheorems, SequenceTheorems, WellFoundedInduction, TLAPS
----------------------------------------------------------------------------
(* The queue *)

\* What is left of a non-empty sequence without its first element.
LEMMA TailShape ==
    ASSUME NEW S, NEW s \in Seq(S), s # <<>>
    PROVE  /\ Tail(s) \in Seq(S)
           /\ Len(s) \in Nat \ {0} /\ DOMAIN s = 1 .. Len(s)
           /\ Len(Tail(s)) = Len(s) - 1
           /\ DOMAIN Tail(s) = 1 .. Len(s) - 1
           /\ \A i \in 1 .. Len(s) - 1 : Tail(s)[i] = s[i + 1]
           /\ Tail(s) = <<>> <=> Len(s) = 1
<1>1. Len(s) \in Nat \ {0} /\ DOMAIN s = 1 .. Len(s)
  BY EmptySeq, LenProperties
<1>2. /\ Tail(s) \in Seq(S)
      /\ Len(Tail(s)) = Len(s) - 1
      /\ \A i \in 1 .. Len(Tail(s)) : Tail(s)[i] = s[i + 1]
  BY HeadTailProperties
<1>3. DOMAIN Tail(s) = 1 .. Len(Tail(s))
  BY <1>2, LenProperties
<1>4. Tail(s) = <<>> <=> Len(Tail(s)) = 0
  BY <1>2, EmptySeq
<1> QED BY <1>1, <1>2, <1>3, <1>4

\* Appending, dropping the first element and rotating, for sequences without
\* repetition: what occurs in the result, and that it has none either.
LEMMA AppendDistinct ==
    ASSUME NEW S, NEW s \in Seq(S), NEW e \in S, Distinct(s), ~Occurs(s, e)
    PROVE  /\ Append(s, e) \in Seq(S)
           /\ Distinct(Append(s, e))
           /\ \A x : Occurs(Append(s, e), x) <=> Occurs(s, x) \/ x = e
<1> DEFINE t == Append(s, e)
<1>1. /\ t \in Seq(S)
      /\ Len(s) \in Nat
      /\ DOMAIN s = 1 .. Len(s)
      /\ DOMAIN t = 1 .. Len(s) + 1
      /\ \A i \in 1 .. Len(s) : t[i] = s[i]
      /\ t[Len(s) + 1] = e
  BY AppendProperties, LenProperties
<1> HIDE DEF t
<1>2. \A i \in DOMAIN s : s[i] # e
  BY DEF Occurs
<1>3. Distinct(t)
  BY <1>1, <1>2 DEF Distinct
<1>4. \A x : Occurs(t, x) <=> Occurs(s, x) \/ x = e
  BY <1>1 DEF Occurs
<1> QED BY <1>1, <1>3, <1>4 DEF t

LEMMA TailDistinct ==
    ASSUME NEW S, NEW s \in Seq(S), s # <<>>, Distinct(s)
    PROVE  /\ Tail(s) \in Seq(S)
           /\ Distinct(Tail(s))
           /\ Head(s) \in S /\ Occurs(s, Head(s))
           /\ \A x : Occurs(Tail(s), x) <=> Occurs(s, x) /\ x # Head(s)
<1> DEFINE t == Tail(s)
           n == Len(s)
<1>1. /\ t \in Seq(S)
      /\ n \in Nat \ {0}
      /\ DOMAIN s = 1 .. n
      /\ DOMAIN t = 1 .. n - 1
      /\ \A i \in 1 .. n - 1 : t[i] = s[i + 1]
      /\ Head(s) = s[1] /\ Head(s) \in S
  BY TailShape, HeadTailProperties
<1> HIDE DEF t, n
<1>2. Distinct(t)
  <2> SUFFICES ASSUME NEW i \in 1 .. n - 1, NEW j \in 1 .. n - 1, t[i] = t[j]
               PROVE  i = j
    BY <1>1 DEF Distinct
  <2>1. i + 1 \in 1 .. n /\ j + 1 \in 1 .. n /\ s[i + 1] = s[j + 1]
    BY <1>1
  <2>2. i + 1 = j + 1
    BY <2>1, <1>1 DEF Distinct
  <2> QED BY <2>2
<1>3. Occurs(s, Head(s))
  BY <1>1 DEF Occurs
<1>4. ASSUME NEW x
      PROVE  Occurs(t, x) <=> Occurs(s, x) /\ x # Head(s)
  <2>1. ASSUME Occurs(t, x) PROVE Occurs(s, x) /\ x # Head(s)
    <3>1. PICK i \in 1 .. n - 1 : t[i] = x
      BY <1>1, <2>1 DEF Occurs
    <3>2. i + 1 \in DOMAIN s /\ s[i + 1] = x /\ i + 1 # 1 /\ 1 \in DOMAIN s
      BY <1>1, <3>1
    <3> QED BY <1>1, <3>2 DEF Occurs, Distinct
  <2>2. ASSUME Occurs(s, x), x # Head(s) PROVE Occurs(t, x)
    <3>1. PICK i \in 1 .. n : s[i] = x
      BY <1>1, <2>2 DEF Occurs
    <3>2. i - 1 \in 1 .. n - 1 /\ s[(i - 1) + 1] = x
      BY <1>1, <2>2, <3>1
    <3> QED BY <1>1, <3>2 DEF Occurs
  <2> QED BY <2>1, <2>2
<1> QED BY <1>1, <1>2, <1>3, <1>4 DEF t

\* What a lane looks like after an append: one longer, and the same lane for
\* every other repository.
LEMMA LanesGrow ==
    ASSUME NEW Id, QueueTypeOK(Id), NEW r \in Repo, NEW id \in Id, Enqueue(r, id)
    PROVE  /\ DOMAIN lanes'[r] = DOMAIN lanes[r] \cup {Len(lanes[r]) + 1}
           /\ lanes'[r] # <<>>
           /\ Len(lanes[r]) + 1 \notin DOMAIN lanes[r]
           /\ \A q \in Repo : q # r => lanes'[q] = lanes[q]
<1>1. /\ lanes[r] \in Seq(Id)
      /\ lanes'[r] = Append(lanes[r], id)
      /\ \A q \in Repo : q # r => lanes'[q] = lanes[q]
  BY DEF QueueTypeOK, Enqueue
<1>2. DOMAIN lanes[r] = 1 .. Len(lanes[r]) /\ Len(lanes[r]) \in Nat
  BY <1>1
<1>3. DOMAIN lanes'[r] = 1 .. Len(lanes[r]) + 1 /\ lanes'[r] # <<>>
  BY <1>1
<1> QED BY <1>1, <1>2, <1>3

\* What a take does to the lanes: the served lane loses one element at its end's
\* index, and the other lanes stay.
LEMMA LanesShrink ==
    ASSUME NEW Id, QueueTypeOK(Id), NEW r \in Repo, lanes[r] # <<>>,
           lanes' = [lanes EXCEPT ![r] = Tail(@)]
    PROVE  /\ Len(lanes[r]) \in DOMAIN lanes[r]
           /\ DOMAIN lanes'[r] = DOMAIN lanes[r] \ {Len(lanes[r])}
           /\ lanes'[r] = <<>> <=> Len(lanes[r]) = 1
           /\ \A q \in Repo : q # r => lanes'[q] = lanes[q]
<1>1. /\ lanes[r] \in Seq(Id)
      /\ lanes'[r] = Tail(lanes[r])
      /\ \A q \in Repo : q # r => lanes'[q] = lanes[q]
  BY DEF QueueTypeOK
<1> DEFINE s == lanes[r]
<1>2. /\ Len(s) \in Nat \ {0} /\ DOMAIN s = 1 .. Len(s)
      /\ DOMAIN Tail(s) = 1 .. Len(s) - 1
      /\ Tail(s) = <<>> <=> Len(s) = 1
  <2> HIDE DEF s
  <2>1. s \in Seq(Id) /\ s # <<>>
    BY <1>1 DEF s
  <2> QED BY <2>1, TailShape
<1>3. Len(s) \in 1 .. Len(s) /\ 1 .. Len(s) - 1 = (1 .. Len(s)) \ {Len(s)}
  BY <1>2
<1> QED BY <1>1, <1>2, <1>3, Zenon

\* A slot is a repository and an index of its lane.
LEMMA SlotMember ==
    \A s : s \in Slots <=> \E q \in Repo : \E i \in DOMAIN lanes[q] : s = <<q, i>>
BY DEF Slots

LEMMA SlotsGrow ==
    ASSUME NEW Id, QueueTypeOK(Id), NEW r \in Repo, NEW id \in Id, Enqueue(r, id)
    PROVE  /\ Slots' = Slots \cup {<<r, Len(lanes[r]) + 1>>}
           /\ <<r, Len(lanes[r]) + 1>> \notin Slots
<1> DEFINE n == Len(lanes[r]) + 1
<1>1. /\ DOMAIN lanes'[r] = DOMAIN lanes[r] \cup {n}
      /\ n \notin DOMAIN lanes[r]
      /\ \A q \in Repo : q # r => lanes'[q] = lanes[q]
  BY LanesGrow
<1>2. \A s : s \in Slots' <=> \E q \in Repo : \E i \in DOMAIN lanes'[q] : s = <<q, i>>
  BY DEF Slots
<1> HIDE DEF n
<1>3. \A s : s \in Slots' <=> s \in Slots \/ s = <<r, n>>
  BY <1>1, <1>2, SlotMember
<1>4. <<r, n>> \notin Slots
  BY <1>1, SlotMember
<1> QED BY <1>3, <1>4 DEF n

LEMMA SlotsShrink ==
    ASSUME NEW Id, QueueTypeOK(Id), NEW r \in Repo, lanes[r] # <<>>,
           lanes' = [lanes EXCEPT ![r] = Tail(@)]
    PROVE  /\ Slots' = Slots \ {<<r, Len(lanes[r])>>}
           /\ <<r, Len(lanes[r])>> \in Slots
<1> DEFINE n == Len(lanes[r])
<1>1. /\ n \in DOMAIN lanes[r]
      /\ DOMAIN lanes'[r] = DOMAIN lanes[r] \ {n}
      /\ \A q \in Repo : q # r => lanes'[q] = lanes[q]
  BY LanesShrink
<1>2. \A s : s \in Slots' <=> \E q \in Repo : \E i \in DOMAIN lanes'[q] : s = <<q, i>>
  BY DEF Slots
<1> HIDE DEF n
<1>3. \A s : s \in Slots' <=> s \in Slots /\ s # <<r, n>>
  BY <1>1, <1>2, SlotMember
<1>4. <<r, n>> \in Slots
  BY <1>1, SlotMember
<1> QED BY <1>3, <1>4 DEF n

\* Admitting a run keeps the queue consistent, as long as it is not full.
LEMMA EnqueueKeepsQueueOK ==
    ASSUME NEW Id, QueueTypeOK(Id), QueueOK, ~Full,
           NEW r \in Repo, NEW id \in Id, Enqueue(r, id)
    PROVE  QueueTypeOK(Id)' /\ QueueOK'
<1>1. /\ lanes'[r] # <<>>
      /\ \A q \in Repo : q # r => lanes'[q] = lanes[q]
  BY LanesGrow
<1>2. /\ order' \in Seq(Repo)
      /\ Distinct(order')
      /\ \A q : Occurs(order', q) <=> Occurs(order, q) \/ q = r
  <2>1. CASE lanes[r] = <<>>
    <3>1. order' = Append(order, r) /\ ~Occurs(order, r)
      BY <2>1 DEF Enqueue, QueueOK
    <3> QED BY <3>1, AppendDistinct DEF QueueTypeOK, QueueOK
  <2>2. CASE lanes[r] # <<>>
    BY <2>2 DEF Enqueue, QueueTypeOK, QueueOK
  <2> QED BY <2>1, <2>2
<1>3. \A q \in Repo : Occurs(order', q) <=> lanes'[q] # <<>>
  BY <1>1, <1>2 DEF QueueOK
<1>4. /\ IsFiniteSet(Slots') /\ depth' = Cardinality(Slots')
      /\ depth' <= MaxDepth
  <2>1. /\ Slots' = Slots \cup {<<r, Len(lanes[r]) + 1>>}
        /\ <<r, Len(lanes[r]) + 1>> \notin Slots
    BY SlotsGrow
  <2>2. IsFiniteSet(Slots') /\ Cardinality(Slots') = Cardinality(Slots) + 1
    BY <2>1, FS_AddElement DEF QueueOK
  <2>3. depth' = depth + 1 /\ depth \in Nat /\ depth < MaxDepth
    BY MaxDepthAssumption DEF Enqueue, Full, QueueTypeOK
  <2> QED BY <2>2, <2>3, MaxDepthAssumption DEF QueueOK
<1>5. QueueTypeOK(Id)'
  <2>1. lanes' \in [Repo -> Seq(Id)] /\ depth' \in Nat
    BY DEF QueueTypeOK, Enqueue
  <2> QED BY <2>1, <1>2 DEF QueueTypeOK
<1> QED BY <1>2, <1>3, <1>4, <1>5 DEF QueueOK, Occurs, Distinct

\* Serving a turn keeps the queue consistent, and what it serves is a run id.
LEMMA TakeKeepsQueueOK ==
    ASSUME NEW Id, QueueTypeOK(Id), QueueOK, Take
    PROVE  QueueTypeOK(Id)' /\ QueueOK' /\ NextUp \in Id
<1> DEFINE r == Head(order)
<1>1. /\ r \in Repo
      /\ Occurs(order, r)
      /\ Tail(order) \in Seq(Repo)
      /\ Distinct(Tail(order))
      /\ \A x : Occurs(Tail(order), x) <=> Occurs(order, x) /\ x # r
  BY TailDistinct DEF Take, QueueTypeOK, QueueOK
<1>2. /\ lanes' = [lanes EXCEPT ![r] = Tail(@)]
      /\ order' = IF Len(lanes[r]) = 1 THEN Tail(order) ELSE Append(Tail(order), r)
      /\ depth' = depth - 1
  BY DEF Take
<1> HIDE DEF r
<1>3. lanes[r] # <<>> /\ lanes[r] \in Seq(Id)
  BY <1>1 DEF QueueOK, QueueTypeOK
<1>4. /\ lanes'[r] = <<>> <=> Len(lanes[r]) = 1
      /\ \A q \in Repo : q # r => lanes'[q] = lanes[q]
  BY <1>1, <1>2, <1>3, LanesShrink
<1>5. /\ order' \in Seq(Repo)
      /\ Distinct(order')
      /\ \A q : Occurs(order', q) <=>
                  Occurs(order, q) /\ (q = r => lanes'[r] # <<>>)
  <2>1. CASE Len(lanes[r]) = 1
    BY <2>1, <1>1, <1>2, <1>4
  <2>2. CASE Len(lanes[r]) # 1
    <3>1. order' = Append(Tail(order), r) /\ ~Occurs(Tail(order), r)
      BY <2>2, <1>1, <1>2
    <3>2. /\ order' \in Seq(Repo)
          /\ Distinct(order')
          /\ \A q : Occurs(order', q) <=> Occurs(Tail(order), q) \/ q = r
      BY <3>1, <1>1, AppendDistinct
    <3> QED BY <2>2, <3>2, <1>1, <1>4
  <2> QED BY <2>1, <2>2
<1>6. \A q \in Repo : Occurs(order', q) <=> lanes'[q] # <<>>
  BY <1>1, <1>4, <1>5 DEF QueueOK
<1>7. /\ IsFiniteSet(Slots') /\ depth' = Cardinality(Slots')
      /\ depth' <= MaxDepth /\ depth' \in Nat
  <2>1. /\ Slots' = Slots \ {<<r, Len(lanes[r])>>}
        /\ <<r, Len(lanes[r])>> \in Slots
    BY <1>1, <1>2, <1>3, SlotsShrink
  <2>2. IsFiniteSet(Slots') /\ Cardinality(Slots') = Cardinality(Slots) - 1
    BY <2>1, FS_RemoveElement DEF QueueOK
  <2>3. Cardinality(Slots') \in Nat
    BY <2>2, FS_CardinalityType
  <2> QED BY <1>2, <2>2, <2>3, MaxDepthAssumption DEF QueueOK, QueueTypeOK
<1>8. lanes' \in [Repo -> Seq(Id)] /\ Head(lanes[r]) \in Id
  <2>1. Tail(lanes[r]) \in Seq(Id) /\ Head(lanes[r]) \in Id
    BY <1>3, HeadTailProperties
  <2> QED BY <2>1, <1>1, <1>2 DEF QueueTypeOK
<1>9. QueueTypeOK(Id)' /\ NextUp \in Id
  BY <1>5, <1>7, <1>8 DEF QueueTypeOK, NextUp, r
<1> QED BY <1>5, <1>6, <1>7, <1>9 DEF QueueOK, Occurs, Distinct

LEMMA LaneIds ==
    ASSUME NEW Id, QueueTypeOK(Id), NEW x, InLane(x)
    PROVE  x \in Id
<1>1. PICK r \in Repo : \E k \in DOMAIN lanes[r] : lanes[r][k] = x
  BY DEF InLane, Occurs
<1>2. lanes[r] \in Seq(Id)
  BY DEF QueueTypeOK
<1>3. \A k \in DOMAIN lanes[r] : lanes[r][k] \in Id
  BY <1>2, LenProperties
<1> QED BY <1>1, <1>3

\* Admitting a run that does not wait yet: it waits then, once, with all that did.
LEMMA EnqueueKeepsQueuedOnce ==
    ASSUME NEW Id, QueueTypeOK(Id), QueuedOnce,
           NEW r \in Repo, NEW id \in Id, ~InLane(id), Enqueue(r, id)
    PROVE  /\ QueuedOnce'
           /\ \A x : InLane(x)' <=> InLane(x) \/ x = id
<1>1. /\ lanes[r] \in Seq(Id)
      /\ lanes'[r] = Append(lanes[r], id)
      /\ \A q \in Repo : q # r => lanes'[q] = lanes[q]
  BY DEF QueueTypeOK, Enqueue
<1>2. /\ Distinct(lanes'[r])
      /\ \A x : Occurs(lanes'[r], x) <=> Occurs(lanes[r], x) \/ x = id
  <2>1. Distinct(lanes[r]) /\ ~Occurs(lanes[r], id)
    BY DEF QueuedOnce, InLane
  <2> QED BY <1>1, <2>1, AppendDistinct
<1>3. \A q \in Repo : \A x : Occurs(lanes'[q], x) <=>
                              Occurs(lanes[q], x) \/ (q = r /\ x = id)
  BY <1>1, <1>2
<1>4. \A x : InLane(x)' <=> InLane(x) \/ x = id
  BY ZenonT(40), <1>3 DEF InLane, Occurs
<1>5. \A q \in Repo : Distinct(lanes'[q])
  BY <1>1, <1>2 DEF QueuedOnce
<1>6. ASSUME NEW q \in Repo, NEW s \in Repo, NEW k \in DOMAIN lanes'[q],
             Occurs(lanes'[s], lanes'[q][k])
      PROVE  q = s
  <2> DEFINE x == lanes'[q][k]
  <2>1. Occurs(lanes'[q], x) /\ Occurs(lanes'[s], x)
    BY <1>6 DEF Occurs
  <2> HIDE DEF x
  <2>2. CASE x = id
    BY <2>1, <2>2, <1>3 DEF InLane
  <2>3. CASE x # id
    BY <2>1, <2>3, <1>3 DEF QueuedOnce, Occurs
  <2> QED BY <2>2, <2>3
<1> QED BY <1>4, <1>5, <1>6 DEF QueuedOnce, Distinct, Occurs

\* Serving a turn: the run served waits no longer, and all others still do.
LEMMA TakeKeepsQueuedOnce ==
    ASSUME NEW Id, QueueTypeOK(Id), QueueOK, QueuedOnce, Take
    PROVE  /\ QueuedOnce'
           /\ InLane(NextUp)
           /\ \A x : InLane(x)' <=> InLane(x) /\ x # NextUp
<1> DEFINE r == Head(order)
<1>1. r \in Repo /\ lanes[r] # <<>> /\ lanes[r] \in Seq(Id)
  <2>1. r \in Repo /\ Occurs(order, r)
    BY TailDistinct DEF Take, QueueTypeOK, QueueOK
  <2> QED BY <2>1 DEF QueueOK, QueueTypeOK
<1>2. lanes' = [lanes EXCEPT ![r] = Tail(@)] /\ NextUp = Head(lanes[r])
  BY DEF Take, NextUp
<1> HIDE DEF r
<1>3. /\ lanes'[r] = Tail(lanes[r])
      /\ \A q \in Repo : q # r => lanes'[q] = lanes[q]
  BY <1>1, <1>2 DEF QueueTypeOK
<1>4. /\ Distinct(lanes'[r])
      /\ Occurs(lanes[r], NextUp)
      /\ \A x : Occurs(lanes'[r], x) <=> Occurs(lanes[r], x) /\ x # NextUp
  <2>1. Distinct(lanes[r])
    BY <1>1 DEF QueuedOnce
  <2> QED BY <1>1, <1>2, <1>3, <2>1, TailDistinct
<1>5. \A q \in Repo : \A x : Occurs(lanes'[q], x) <=> Occurs(lanes[q], x) /\ x # NextUp
  <2>1. \A q \in Repo : q # r => ~Occurs(lanes[q], NextUp)
    BY <1>1, <1>4 DEF QueuedOnce, Occurs
  <2> QED BY <1>3, <1>4, <2>1
<1>6. InLane(NextUp) /\ \A x : InLane(x)' <=> InLane(x) /\ x # NextUp
  BY ZenonT(40), <1>1, <1>4, <1>5 DEF InLane, Occurs
<1>7. \A q \in Repo : Distinct(lanes'[q])
  BY <1>3, <1>4 DEF QueuedOnce
<1>8. ASSUME NEW q \in Repo, NEW s \in Repo, NEW k \in DOMAIN lanes'[q],
             Occurs(lanes'[s], lanes'[q][k])
      PROVE  q = s
  <2> DEFINE x == lanes'[q][k]
  <2>1. Occurs(lanes'[q], x) /\ Occurs(lanes'[s], x)
    BY <1>8 DEF Occurs
  <2> HIDE DEF x
  <2> QED BY <2>1, <1>5 DEF QueuedOnce, Occurs
<1> QED BY <1>6, <1>7, <1>8 DEF QueuedOnce, Distinct, Occurs

LEMMA NothingWaits ==
    QueueInit => QueuedOnce /\ \A x : ~InLane(x)
BY DEF QueueInit, QueuedOnce, InLane, Distinct, Occurs

LEMMA NothingWaitsAfter ==
    QueueLost => QueuedOnce' /\ \A x : ~InLane(x)'
BY DEF QueueLost, QueuedOnce, InLane, Distinct, Occurs

\* The empty queue, at the start and after the process has ended.
LEMMA EmptyQueueOK ==
    ASSUME NEW Id
    PROVE  /\ QueueInit => QueueTypeOK(Id) /\ QueueOK
           /\ QueueLost => QueueTypeOK(Id)' /\ QueueOK'
<1>1. /\ <<>> \in Seq(Id) /\ <<>> \in Seq(Repo)
      /\ \A x : ~Occurs(<<>>, x)
      /\ Distinct(<<>>)
      /\ DOMAIN <<>> = {}
  BY EmptySeq, LenProperties DEF Occurs, Distinct
<1>2. ASSUME QueueInit PROVE QueueTypeOK(Id) /\ QueueOK
  <2>1. Slots = {}
    BY <1>1, <1>2 DEF QueueInit, Slots
  <2> QED BY <2>1, <1>1, <1>2, FS_EmptySet, MaxDepthAssumption
          DEF QueueInit, QueueTypeOK, QueueOK
<1>3. ASSUME QueueLost PROVE QueueTypeOK(Id)' /\ QueueOK'
  <2>1. Slots' = {}
    BY <1>1, <1>3 DEF QueueLost, Slots
  <2> QED BY <2>1, <1>1, <1>3, FS_EmptySet, MaxDepthAssumption
          DEF QueueLost, QueueTypeOK, QueueOK
<1> QED BY <1>2, <1>3
----------------------------------------------------------------------------
(* The run table and the stages *)

\* A table with other rows under the same ids.
LEMMA RowsReplaced ==
    ASSUME TypeOK, NEW f \in [DOMAIN runs -> Row]
    PROVE  f \in Seq(Row) /\ Len(f) = Len(runs) /\ DOMAIN f = DOMAIN runs
<1>1. DOMAIN runs = 1 .. Len(runs) /\ Len(runs) \in Nat
  BY LenProperties DEF TypeOK
<1> QED BY <1>1, SeqDef

\* Writing the state or the head of one row.
LEMMA RowWritten ==
    ASSUME TypeOK, NEW i \in DOMAIN runs, NEW state \in RunState
    PROVE  [runs EXCEPT ![i].state = state] \in [DOMAIN runs -> Row]
<1>1. runs \in [DOMAIN runs -> Row]
  BY LenProperties DEF TypeOK
<1> QED BY <1>1 DEF Row

LEMMA RowRetargeted ==
    ASSUME TypeOK, NEW i \in DOMAIN runs, NEW sha \in Sha
    PROVE  [runs EXCEPT ![i].head = IF runs[i].state = "queued" THEN sha ELSE @]
              \in [DOMAIN runs -> Row]
<1>1. runs \in [DOMAIN runs -> Row]
  BY LenProperties DEF TypeOK
<1> QED BY <1>1 DEF Row

\* A queue of ids of a table is a queue of ids of any larger one.
LEMMA QueueTypeMonotonic ==
    ASSUME NEW Id1, NEW Id2, Id1 \subseteq Id2
    PROVE  QueueTypeOK(Id1) => QueueTypeOK(Id2)
<1>1. Seq(Id1) \subseteq Seq(Id2)
  BY SeqMonotonic
<1> QED BY <1>1 DEF QueueTypeOK

\* A new row.
LEMMA RowCreated ==
    ASSUME TypeOK, NEW p \in PR, NEW sha \in Sha, NEW state \in RunState,
           Len(runs) + 1 \in RunId
    PROVE  /\ Created(p, sha, state) \in Seq(Row)
           /\ Len(Created(p, sha, state)) = Len(runs) + 1
           /\ DOMAIN Created(p, sha, state) = DOMAIN runs \cup {Len(runs) + 1}
<1> DEFINE new == Len(runs) + 1
           old == [i \in DOMAIN runs |->
                     IF i = LatestRun(p) /\ runs[i].state # "done"
                     THEN [runs[i] EXCEPT !.superseded_by = new] ELSE runs[i]]
           row == NewRow(p, sha, state)
<1>1. runs \in [DOMAIN runs -> Row] /\ DOMAIN runs = 1 .. Len(runs) /\ Len(runs) \in Nat
  BY LenProperties DEF TypeOK
<1>2. old \in [DOMAIN runs -> Row]
  BY <1>1 DEF Row
<1>3. row \in Row
  BY DEF Row, NewRow
<1>4. Created(p, sha, state) = Append(old, row)
  BY DEF Created
<1> HIDE DEF old, row
<1>5. old \in Seq(Row) /\ Len(old) = Len(runs)
  BY <1>2, RowsReplaced
<1>6. /\ Append(old, row) \in Seq(Row)
      /\ Len(Append(old, row)) = Len(runs) + 1
  BY <1>3, <1>5, AppendProperties
<1>7. DOMAIN Append(old, row) = 1 .. Len(runs) + 1
  BY <1>6, LenProperties
<1> QED BY <1>1, <1>4, <1>6, <1>7

----------------------------------------------------------------------------
(* Type correctness and the queue's consistency *)

Inv1 == TypeOK /\ QueueOK

\* An action that leaves the queue alone and keeps the ids of the table.
LEMMA QueueUntouched ==
    ASSUME Inv1, UNCHANGED queueVars, DOMAIN runs \subseteq DOMAIN runs'
    PROVE  QueueTypeOK(DOMAIN runs)' /\ QueueOK'
<1>1. QueueTypeOK(DOMAIN runs) /\ lanes' = lanes /\ order' = order /\ depth' = depth
  BY DEF Inv1, TypeOK, queueVars
<1>2. QueueTypeOK(DOMAIN runs')
  BY <1>1, QueueTypeMonotonic
<1>3. QueueTypeOK(DOMAIN runs)'
  BY <1>1, <1>2 DEF QueueTypeOK
<1>4. QueueOK'
  BY <1>1 DEF Inv1, QueueOK, Slots, Occurs, Distinct
<1> QED BY <1>3, <1>4

\* What a submission does to the table, the queue and the pending entries.
LEMMA SubmitTypes ==
    ASSUME Inv1, NEW p \in PR, NEW sha \in Sha, NEW force \in BOOLEAN,
           Submit(p, sha, force)
    PROVE  /\ runs' \in Seq(Row) /\ Len(runs') <= MaxRuns
           /\ DOMAIN runs \subseteq DOMAIN runs'
           /\ QueueTypeOK(DOMAIN runs)' /\ QueueOK'
           /\ rejected' \subseteq DOMAIN runs'
           /\ pending' \in [PR -> DOMAIN runs' \cup {NoRun}]
<1>1. TypeOK
  BY DEF Inv1
<1>2. CASE UNCHANGED <<queueVars, runs, rejected, pending>>
  <2>1. UNCHANGED queueVars /\ DOMAIN runs \subseteq DOMAIN runs'
    BY <1>2
  <2> QED BY <1>1, <1>2, <2>1, QueueUntouched DEF TypeOK
<1>3. CASE pending[p] # NoRun /\ Retarget(p, sha)
  <2>1. pending[p] \in DOMAIN runs
    BY <1>1, <1>3 DEF TypeOK
  <2>2. runs' \in [DOMAIN runs -> Row]
    BY <1>1, <1>3, <2>1, RowRetargeted DEF Retarget
  <2>3. runs' \in Seq(Row) /\ Len(runs') = Len(runs) /\ DOMAIN runs' = DOMAIN runs
    BY <1>1, <2>2, RowsReplaced
  <2>4. UNCHANGED <<queueVars, rejected, pending>>
    BY <1>3 DEF Retarget
  <2> QED BY <1>1, <2>3, <2>4, QueueUntouched DEF TypeOK
<1>4. CASE SubmitNew(p, sha)
  <2> DEFINE new == Len(runs) + 1
  <2>1. new \in RunId
    BY <1>4 DEF SubmitNew
  <2>2. \A state \in RunState :
           /\ Created(p, sha, state) \in Seq(Row)
           /\ Len(Created(p, sha, state)) = new
           /\ DOMAIN Created(p, sha, state) = DOMAIN runs \cup {new}
    BY <1>1, <2>1, RowCreated
  <2>3. "cancelled" \in RunState /\ "queued" \in RunState
    BY DEF RunState, LiveStates, TERMINAL_STATES
  <2>4. \/ runs' = Created(p, sha, "cancelled")
        \/ runs' = Created(p, sha, "queued")
    BY <1>4 DEF SubmitNew
  <2>5. /\ runs' \in Seq(Row) /\ Len(runs') <= MaxRuns
        /\ DOMAIN runs' = DOMAIN runs \cup {new}
    <3>1. new <= MaxRuns
      BY <2>1, SchedulerAssumption DEF RunId
    <3> HIDE DEF new
    <3> QED BY <2>2, <2>3, <2>4, <3>1
  <2>6. CASE Full
    <3>1. UNCHANGED <<queueVars, pending>> /\ rejected' = rejected \cup {new}
      BY <1>4, <2>6 DEF SubmitNew
    <3>2. QueueTypeOK(DOMAIN runs)' /\ QueueOK'
      BY <2>5, <3>1, QueueUntouched
    <3> QED BY <1>1, <2>5, <3>1, <3>2 DEF TypeOK
  <2>7. CASE ~Full
    <3>1. /\ Enqueue(RepoOf[p], new)
          /\ pending' = [pending EXCEPT ![p] = new]
          /\ rejected' = rejected
      BY <1>4, <2>7 DEF SubmitNew
    <3>2. RepoOf[p] \in Repo
      BY SchedulerAssumption
    <3>3. QueueTypeOK(DOMAIN runs')
      BY <1>1, <2>5, QueueTypeMonotonic DEF TypeOK
    <3>4. QueueTypeOK(DOMAIN runs)' /\ QueueOK'
      BY <2>5, <2>7, <3>1, <3>2, <3>3, EnqueueKeepsQueueOK DEF Inv1, QueueTypeOK
    <3> QED BY <1>1, <2>5, <3>1, <3>4 DEF TypeOK
  <2> QED BY <2>6, <2>7
<1> QED BY <1>2, <1>3, <1>4 DEF Submit, NeedsNewRun

\* A poll and a manual trigger.
LEMMA SubmittersKeepInv1 ==
    ASSUME Inv1, NEW p \in PR
    PROVE  /\ \A sha \in Sha : Poll(p, sha) => Inv1'
           /\ \A force \in BOOLEAN : Trigger(p, force) => Inv1'
<1>1. ASSUME NEW sha \in Sha, NEW force \in BOOLEAN, Submit(p, sha, force),
             UNCHANGED <<consumer, up, todo, restarts>>,
             known' \in [PR -> Sha \cup {NoSha}]
      PROVE  Inv1'
  <2>1. /\ runs' \in Seq(Row) /\ Len(runs') <= MaxRuns
        /\ DOMAIN runs \subseteq DOMAIN runs'
        /\ QueueTypeOK(DOMAIN runs)' /\ QueueOK'
        /\ rejected' \subseteq DOMAIN runs'
        /\ pending' \in [PR -> DOMAIN runs' \cup {NoRun}]
    BY <1>1, SubmitTypes
  <2>2. consumer' \in [Worker -> Consumer']
    BY <1>1, <2>1 DEF Inv1, TypeOK, Consumer
  <2> QED BY <1>1, <2>1, <2>2 DEF Inv1, TypeOK
<1>2. ASSUME NEW sha \in Sha, Poll(p, sha) PROVE Inv1'
  <2>1. known' \in [PR -> Sha \cup {NoSha}]
    BY <1>2 DEF Poll, Inv1, TypeOK
  <2> QED BY <1>1, <1>2, <2>1 DEF Poll
<1>3. ASSUME NEW force \in BOOLEAN, Trigger(p, force) PROVE Inv1'
  <2>1. known[p] \in Sha /\ known' \in [PR -> Sha \cup {NoSha}]
    BY <1>3 DEF Trigger, Inv1, TypeOK
  <2> QED BY <1>1, <1>3, <2>1 DEF Trigger
<1> QED BY <1>2, <1>3

\* An action that writes rows in place and leaves the queue alone.
LEMMA RowsWritten ==
    ASSUME Inv1, runs' \in [DOMAIN runs -> Row], UNCHANGED queueVars
    PROVE  /\ runs' \in Seq(Row) /\ Len(runs') <= MaxRuns
           /\ DOMAIN runs' = DOMAIN runs
           /\ QueueTypeOK(DOMAIN runs)' /\ QueueOK'
           /\ Consumer' = Consumer
<1>1. /\ runs' \in Seq(Row) /\ Len(runs') = Len(runs)
      /\ DOMAIN runs' = DOMAIN runs
  BY RowsReplaced DEF Inv1
<1>2. QueueTypeOK(DOMAIN runs)' /\ QueueOK'
  BY <1>1, QueueUntouched
<1> QED BY <1>1, <1>2 DEF Inv1, TypeOK, Consumer

\* The table as it is, seen as a function.
LEMMA RowsAsFunction == TypeOK => runs \in [DOMAIN runs -> Row]
BY LenProperties DEF TypeOK

LEMMA WaitingType ==
    /\ Waiting \in Consumer
    /\ Waiting.pc = "waiting" /\ Waiting.run = NoRun
BY DEF Waiting, Consumer, LiveStates, RunState

LEMMA RunningType ==
    ASSUME TypeOK, NEW i \in DOMAIN runs
    PROVE  /\ Running(i) \in Consumer
           /\ Running(i).pc = "task" /\ Running(i).run = i /\ i # NoRun
<1>1. runs[i].state \in RunState /\ i # NoRun
  <2>1. runs[i] \in Row
    BY RowsAsFunction
  <2>2. i \in 1 .. Len(runs)
    BY LenProperties DEF TypeOK
  <2> QED BY <2>1, <2>2 DEF Row, NoRun
<1> QED BY <1>1 DEF Running, Consumer, LiveStates

LEMMA CancelKeepsInv1 ==
    ASSUME Inv1, NEW i \in DOMAIN runs, Cancel(i)
    PROVE  Inv1'
<1>1. runs' \in [DOMAIN runs -> Row]
  BY RowWritten DEF Inv1, Cancel, SetState, RunState, TERMINAL_STATES
<1>2. UNCHANGED <<queueVars, known, rejected, pending, up, todo, restarts>>
  BY DEF Cancel
<1>3. /\ runs' \in Seq(Row) /\ Len(runs') <= MaxRuns
      /\ DOMAIN runs' = DOMAIN runs
      /\ QueueTypeOK(DOMAIN runs)' /\ QueueOK'
      /\ Consumer' = Consumer
  BY <1>1, <1>2, RowsWritten
<1>4. /\ consumer' \in [Worker -> Consumer]
      /\ \A w \in Worker : consumer'[w].pc = "waiting" <=> consumer'[w].run = NoRun
  <2>1. ASSUME NEW c \in Consumer
        PROVE  /\ [c EXCEPT !.cancelling = TRUE] \in Consumer
               /\ [c EXCEPT !.cancelling = TRUE].pc = c.pc
               /\ [c EXCEPT !.cancelling = TRUE].run = c.run
    BY DEF Consumer
  <2>2. /\ consumer \in [Worker -> Consumer]
        /\ \A w \in Worker : consumer[w].pc = "waiting" <=> consumer[w].run = NoRun
    BY DEF Inv1, TypeOK
  <2>3. consumer' = [w \in Worker |->
                       IF consumer[w].pc = "task" /\ consumer[w].run = i
                       THEN [consumer[w] EXCEPT !.cancelling = TRUE]
                       ELSE consumer[w]]
    BY DEF Cancel
  <2> HIDE DEF Consumer
  <2> QED BY <2>1, <2>2, <2>3
<1> QED BY <1>2, <1>3, <1>4 DEF Inv1, TypeOK

\* The consumer of a step goes on to wait, to sleep or to a task.
LEMMA ConsumerSet ==
    ASSUME TypeOK, NEW w \in Worker, NEW c \in Consumer,
           c.pc = "waiting" <=> c.run = NoRun,
           consumer' = [consumer EXCEPT ![w] = c]
    PROVE  /\ consumer' \in [Worker -> Consumer]
           /\ \A v \in Worker : consumer'[v].pc = "waiting" <=> consumer'[v].run = NoRun
BY DEF TypeOK

LEMMA DispatchKeepsInv1 ==
    ASSUME Inv1, NEW w \in Worker, Dispatch(w)
    PROVE  Inv1'
<1> DEFINE i == NextUp
           p == runs[i].pr
           c == [Waiting EXCEPT !.pc = "debounce", !.run = i]
<1>1. Take /\ UNCHANGED <<stored, up, todo, restarts>>
  BY DEF Dispatch
<1>2. QueueTypeOK(DOMAIN runs)' /\ QueueOK' /\ i \in DOMAIN runs
  BY <1>1, TakeKeepsQueueOK DEF Inv1, TypeOK, QueueTypeOK, stored
<1>3. i \in 1 .. Len(runs) /\ runs[i] \in Row /\ p \in PR /\ i # NoRun
  BY <1>2, RowsAsFunction, LenProperties DEF Inv1, TypeOK, Row, NoRun
<1>4. c \in Consumer /\ c.pc = "debounce" /\ c.run = i
  BY <1>2, <1>3, WaitingType DEF Consumer, Waiting
<1>5. /\ Running(i) \in Consumer
      /\ Running(i).pc = "task" /\ Running(i).run = i
  BY <1>2, RunningType DEF Inv1
<1>6. /\ \/ consumer' = consumer
         \/ consumer' = [consumer EXCEPT ![w] = c]
         \/ consumer' = [consumer EXCEPT ![w] = Running(i)]
      /\ \/ pending' = pending
         \/ pending' = [pending EXCEPT ![p] = NoRun]
  BY DEF Dispatch
<1> HIDE DEF i, p, c
<1>7. /\ consumer' \in [Worker -> Consumer]
      /\ \A v \in Worker : consumer'[v].pc = "waiting" <=> consumer'[v].run = NoRun
  <2>1. CASE consumer' = consumer
    BY <2>1 DEF Inv1, TypeOK
  <2>2. CASE consumer' = [consumer EXCEPT ![w] = c]
    BY <2>2, <1>3, <1>4, ConsumerSet DEF Inv1
  <2>3. CASE consumer' = [consumer EXCEPT ![w] = Running(i)]
    BY <2>3, <1>3, <1>5, ConsumerSet DEF Inv1
  <2> QED BY <1>6, <2>1, <2>2, <2>3
<1>8. pending' \in [PR -> DOMAIN runs \cup {NoRun}]
  BY <1>6 DEF Inv1, TypeOK
<1> QED BY <1>1, <1>2, <1>7, <1>8 DEF Inv1, TypeOK, stored, Consumer

LEMMA DebounceOverKeepsInv1 ==
    ASSUME Inv1, NEW w \in Worker, DebounceOver(w)
    PROVE  Inv1'
<1> DEFINE i == consumer[w].run
<1>1. i \in DOMAIN runs
  <2>1. consumer[w] \in Consumer /\ consumer[w].pc = "debounce" /\ i # NoRun
    BY DEF DebounceOver, Inv1, TypeOK
  <2> QED BY <2>1 DEF Consumer
<1>2. Running(i) \in Consumer /\ Running(i).pc = "task" /\ Running(i).run = i /\ i # NoRun
  BY <1>1, RunningType DEF Inv1
<1>3. /\ consumer' = [consumer EXCEPT ![w] = Running(i)]
      /\ pending' = [pending EXCEPT ![runs[i].pr] = NoRun]
      /\ UNCHANGED <<queueVars, stored, up, todo, restarts>>
  BY DEF DebounceOver
<1> HIDE DEF i
<1>4. /\ consumer' \in [Worker -> Consumer]
      /\ \A v \in Worker : consumer'[v].pc = "waiting" <=> consumer'[v].run = NoRun
  BY <1>2, <1>3, ConsumerSet DEF Inv1
<1>5. pending' \in [PR -> DOMAIN runs \cup {NoRun}]
  BY <1>3 DEF Inv1, TypeOK
<1>6. QueueTypeOK(DOMAIN runs)' /\ QueueOK'
  BY <1>3, QueueUntouched DEF stored
<1> QED BY <1>3, <1>4, <1>5, <1>6 DEF Inv1, TypeOK, stored, Consumer

LEMMA TaskStepKeepsInv1 ==
    ASSUME Inv1, NEW w \in Worker, TaskStep(w)
    PROVE  Inv1'
<1> DEFINE i == consumer[w].run
<1>1. consumer[w] \in Consumer /\ consumer[w].pc = "task" /\ i \in DOMAIN runs /\ i # NoRun
  <2>1. consumer[w] \in Consumer /\ consumer[w].pc = "task" /\ i # NoRun
    BY DEF TaskStep, Advance, Finish, Fail, Cancelled, Resumes, Inv1, TypeOK
  <2> QED BY <2>1 DEF Consumer
<1>2. /\ runs' \in [DOMAIN runs -> Row]
      /\ UNCHANGED <<queueVars, known, rejected, pending, up, todo, restarts>>
  <2>1. \A state \in RunState : [runs EXCEPT ![i].state = state] \in [DOMAIN runs -> Row]
    BY <1>1, RowWritten DEF Inv1
  <2>2. runs \in [DOMAIN runs -> Row]
    BY RowsAsFunction DEF Inv1
  <2>3. UNCHANGED <<queueVars, known, rejected, pending, up, todo, restarts>>
    BY DEF TaskStep, Advance, Finish, Fail, Cancelled, TaskUnchanged
  <2>4. \/ runs' = runs
        \/ \E state \in RunState : runs' = [runs EXCEPT ![i].state = state]
    BY DEF TaskStep, Advance, Finish, Fail, Cancelled, SetState, RunState,
           TERMINAL_STATES
  <2> QED BY <2>1, <2>2, <2>3, <2>4
<1>3. /\ consumer' \in [Worker -> Consumer]
      /\ \A v \in Worker : consumer'[v].pc = "waiting" <=> consumer'[v].run = NoRun
  <2>1. CASE \E state \in LiveStates : Advance(w, state)
    <3>1. PICK state \in LiveStates : Advance(w, state)
      BY <2>1
    <3>2. PICK local \in RunState :
             consumer' = [consumer EXCEPT ![w].at = state, ![w].local = local]
      BY <3>1, <1>1 DEF Advance, Consumer, RunState
    <3> QED BY <3>2, <1>1 DEF Inv1, TypeOK, Consumer
  <2>2. CASE consumer' = [consumer EXCEPT ![w] = Waiting]
    BY <2>2, WaitingType, ConsumerSet DEF Inv1
  <2> QED BY <2>1, <2>2 DEF TaskStep, Finish, Fail, Cancelled
<1>4. /\ runs' \in Seq(Row) /\ Len(runs') <= MaxRuns
      /\ DOMAIN runs' = DOMAIN runs
      /\ QueueTypeOK(DOMAIN runs)' /\ QueueOK'
      /\ Consumer' = Consumer
  BY <1>2, RowsWritten
<1> QED BY <1>2, <1>3, <1>4 DEF Inv1, TypeOK

LEMMA ProcessEndsKeepsInv1 ==
    ASSUME Inv1, ProcessEnds, known' \in [PR -> Sha \cup {NoSha}],
           runs' \in Seq(Row), Len(runs') <= MaxRuns,
           DOMAIN runs \subseteq DOMAIN runs'
    PROVE  Inv1'
<1>1. /\ QueueLost
      /\ pending' = [q \in PR |-> NoRun]
      /\ consumer' = [w \in Worker |-> Waiting]
      /\ todo' = {} /\ up' = FALSE /\ rejected' = rejected
      /\ restarts < MaxRestarts /\ restarts' = restarts + 1
  BY DEF ProcessEnds
<1>2. QueueTypeOK(DOMAIN runs)' /\ QueueOK'
  BY <1>1, EmptyQueueOK DEF QueueTypeOK
<1>3. Waiting \in Consumer'
  BY DEF Consumer, Waiting, LiveStates, RunState
<1>4. restarts' \in 0 .. MaxRestarts
  BY <1>1, SchedulerAssumption DEF Inv1, TypeOK
<1> QED BY <1>1, <1>2, <1>3, <1>4, WaitingType DEF Inv1, TypeOK

LEMMA EndingsKeepInv1 ==
    ASSUME Inv1
    PROVE  /\ Crash => Inv1'
           /\ Stop => Inv1'
           /\ \A p \in PR, sha \in Sha : CrashInPoll(p, sha) => Inv1'
           /\ \A p \in PR, sha \in Sha, force \in BOOLEAN :
                 CrashInCreate(p, sha, force) => Inv1'
<1>1. /\ runs \in [DOMAIN runs -> Row] /\ runs \in Seq(Row)
      /\ Len(runs) <= MaxRuns /\ Len(runs) \in Nat
      /\ known \in [PR -> Sha \cup {NoSha}]
  BY RowsAsFunction, LenProperties DEF Inv1, TypeOK
<1>2. Crash => Inv1'
  BY <1>1, ProcessEndsKeepsInv1 DEF Crash
<1>3. ASSUME Stop PROVE Inv1'
  <2>1. runs' \in [DOMAIN runs -> Row]
    <3>1. \A i \in DOMAIN runs : [runs[i] EXCEPT !.state = "cancelled"] \in Row
      BY <1>1 DEF Row, RunState, TERMINAL_STATES
    <3> QED BY <1>1, <1>3, <3>1 DEF Stop
  <2>2. runs' \in Seq(Row) /\ Len(runs') = Len(runs) /\ DOMAIN runs' = DOMAIN runs
    BY <2>1, RowsReplaced DEF Inv1
  <2> QED BY <1>1, <1>3, <2>2, ProcessEndsKeepsInv1 DEF Stop
<1>4. ASSUME NEW p \in PR, NEW sha \in Sha, CrashInPoll(p, sha) PROVE Inv1'
  <2>1. known' \in [PR -> Sha \cup {NoSha}]
    BY <1>1, <1>4 DEF CrashInPoll
  <2> QED BY <1>1, <1>4, <2>1, ProcessEndsKeepsInv1 DEF CrashInPoll
<1>5. ASSUME NEW p \in PR, NEW sha \in Sha, NEW force \in BOOLEAN,
             CrashInCreate(p, sha, force)
      PROVE  Inv1'
  <2> DEFINE new == Len(runs) + 1
             row == [NewRow(p, sha, "queued") EXCEPT !.torn = TRUE]
  <2>1. new \in RunId /\ new <= MaxRuns
    BY <1>5, SchedulerAssumption DEF CrashInCreate, RunId
  <2>2. known' \in [PR -> Sha \cup {NoSha}]
    BY <1>1, <1>5 DEF CrashInCreate
  <2>3. CASE runs' = Append(runs, row)
    <3>1. row \in Row
      BY DEF NewRow, Row, RunState, LiveStates
    <3> HIDE DEF row
    <3>2. runs' \in Seq(Row) /\ Len(runs') = new
      BY <1>1, <2>3, <3>1, AppendProperties
    <3>3. DOMAIN runs \subseteq DOMAIN runs'
      BY <1>1, <3>2, LenProperties
    <3> QED BY <1>5, <2>1, <2>2, <3>2, <3>3, ProcessEndsKeepsInv1 DEF CrashInCreate
  <2>4. CASE runs' = Created(p, sha, "queued")
    <3>1. "queued" \in RunState
      BY DEF RunState, LiveStates
    <3>2. /\ runs' \in Seq(Row) /\ Len(runs') = new
          /\ DOMAIN runs \subseteq DOMAIN runs'
      BY <2>1, <2>4, <3>1, RowCreated DEF Inv1
    <3> HIDE DEF new
    <3> QED BY <1>5, <2>1, <2>2, <3>2, ProcessEndsKeepsInv1 DEF CrashInCreate
  <2> QED BY <1>5, <2>3, <2>4 DEF CrashInCreate
<1> QED BY <1>2, <1>3, <1>4, <1>5

LEMMA BootKeepsInv1 ==
    ASSUME Inv1, Boot
    PROVE  Inv1'
<1>1. /\ UNCHANGED <<queueVars, stored, pending, consumer, restarts>>
      /\ up' = TRUE /\ todo' \subseteq DOMAIN runs
  BY DEF Boot, UnfinishedRuns
<1>2. QueueTypeOK(DOMAIN runs)' /\ QueueOK'
  BY <1>1, QueueUntouched DEF stored
<1> QED BY <1>1, <1>2 DEF Inv1, TypeOK, stored, Consumer

LEMMA RequeueKeepsInv1 ==
    ASSUME Inv1, NEW i \in todo, Requeue(i)
    PROVE  Inv1'
<1>1. i \in DOMAIN runs /\ todo' \subseteq DOMAIN runs
  BY DEF Requeue, Inv1, TypeOK
<1>2. runs' \in [DOMAIN runs -> Row]
  BY <1>1, RowWritten DEF Inv1, Requeue, SetState, RunState, LiveStates
<1>3. /\ runs' \in Seq(Row) /\ Len(runs') <= MaxRuns
      /\ DOMAIN runs' = DOMAIN runs
  BY <1>2, RowsReplaced DEF Inv1, TypeOK
<1>4. UNCHANGED <<known, pending, consumer, up, restarts>> /\ rejected' \subseteq DOMAIN runs
  BY <1>1 DEF Requeue, Inv1, TypeOK
<1>5. QueueTypeOK(DOMAIN runs)' /\ QueueOK'
  <2>1. CASE Full
    BY <2>1, <1>3, QueueUntouched DEF Requeue
  <2>2. CASE ~Full
    <3>1. LaneOf(i) \in Repo
      BY <1>1, RowsAsFunction, SchedulerAssumption DEF LaneOf, Row, Inv1
    <3>2. Enqueue(LaneOf(i), i)
      BY <2>2 DEF Requeue
    <3>3. QueueTypeOK(DOMAIN runs)
      BY DEF Inv1, TypeOK
    <3> QED BY <2>2, <3>1, <3>2, <3>3, <1>1, <1>3, EnqueueKeepsQueueOK
            DEF Inv1, QueueTypeOK
  <2> QED BY <2>1, <2>2
<1> QED BY <1>1, <1>3, <1>4, <1>5 DEF Inv1, TypeOK, Consumer

LEMMA InitInv1 == Init => Inv1
<1> SUFFICES ASSUME Init PROVE Inv1
  OBVIOUS
<1>1. runs = <<>> /\ runs \in Seq(Row) /\ Len(runs) = 0 /\ DOMAIN runs = {}
  BY EmptySeq, LenProperties DEF Init
<1>2. QueueTypeOK(DOMAIN runs) /\ QueueOK
  BY EmptyQueueOK DEF Init
<1> QED BY <1>1, <1>2, WaitingType, SchedulerAssumption DEF Init, Inv1, TypeOK

LEMMA StepInv1 == Inv1 /\ [Next]_vars => Inv1'
<1> SUFFICES ASSUME Inv1, [Next]_vars PROVE Inv1'
  OBVIOUS
<1>1. ASSUME NEW p \in PR, NEW sha \in Sha,
             \/ Poll(p, sha) \/ CrashInPoll(p, sha)
             \/ \E force \in BOOLEAN : CrashInCreate(p, sha, force)
      PROVE  Inv1'
  BY <1>1, SubmittersKeepInv1, EndingsKeepInv1
<1>2. ASSUME NEW p \in PR, NEW force \in BOOLEAN, Trigger(p, force)
      PROVE  Inv1'
  BY <1>2, SubmittersKeepInv1
<1>3. ASSUME NEW i \in DOMAIN runs, Cancel(i)
      PROVE  Inv1'
  BY <1>3, CancelKeepsInv1
<1>4. ASSUME NEW w \in Worker, Dispatch(w) \/ DebounceOver(w) \/ TaskStep(w)
      PROVE  Inv1'
  BY <1>4, DispatchKeepsInv1, DebounceOverKeepsInv1, TaskStepKeepsInv1
<1>5. CASE Crash \/ Stop \/ Boot
  BY <1>5, EndingsKeepInv1, BootKeepsInv1
<1>6. ASSUME NEW i \in todo, Requeue(i)
      PROVE  Inv1'
  BY <1>6, RequeueKeepsInv1
<1>7. CASE UNCHANGED vars
  <2>1. UNCHANGED queueVars /\ DOMAIN runs \subseteq DOMAIN runs'
    BY <1>7 DEF vars, queueVars, stored
  <2>2. QueueTypeOK(DOMAIN runs)' /\ QueueOK'
    BY <2>1, QueueUntouched
  <2> QED BY <1>7, <2>2 DEF vars, stored, Inv1, TypeOK, Consumer
<1> QED BY <1>1, <1>2, <1>3, <1>4, <1>5, <1>6, <1>7 DEF Next

\* In every state of every behaviour the variables have their types, and every
\* run id held in memory names a row of the table.
THEOREM TypeCorrect == Spec => []TypeOK
<1>1. Inv1 => TypeOK
  BY DEF Inv1
<1> QED BY <1>1, InitInv1, StepInv1, PTL DEF Spec

\* The lanes, the order and the counter that bounds admission always agree:
\* nothing waits outside the round, no repository has two turns in it, and the
\* queue is never longer than server.max_queue_depth.
THEOREM QueueConsistent == Spec => []QueueOK
<1>1. Inv1 => QueueOK
  BY DEF Inv1
<1> QED BY <1>1, InitInv1, StepInv1, PTL DEF Spec
----------------------------------------------------------------------------
(* The queue implements the fair bounded queue of FairQueue *)

\* Which repository comes before which, in a sequence of repositories.
LOCAL Precedes(s, x, y) == \E k, m \in DOMAIN s : k < m /\ s[k] = x /\ s[m] = y

LEMMA AppendPrecedes ==
    ASSUME NEW s \in Seq(Repo), NEW e \in Repo
    PROVE  \A x, y : Precedes(Append(s, e), x, y) <=>
                        Precedes(s, x, y) \/ (Occurs(s, x) /\ y = e)
<1> DEFINE t == Append(s, e)
           n == Len(s)
<1>1. /\ n \in Nat /\ DOMAIN s = 1 .. n /\ DOMAIN t = 1 .. n + 1
      /\ \A i \in 1 .. n : t[i] = s[i]
      /\ t[n + 1] = e
  BY AppendProperties, LenProperties
<1> HIDE DEF t, n
<1>2. ASSUME NEW x, NEW y, Precedes(t, x, y)
      PROVE  Precedes(s, x, y) \/ (Occurs(s, x) /\ y = e)
  <2>1. PICK k \in 1 .. n + 1, m \in 1 .. n + 1 : k < m /\ t[k] = x /\ t[m] = y
    BY <1>1, <1>2 DEF Precedes
  <2>2. k \in 1 .. n /\ s[k] = x
    BY <1>1, <2>1
  <2>3. CASE m = n + 1
    BY <1>1, <2>1, <2>2, <2>3 DEF Occurs
  <2>4. CASE m # n + 1
    BY <1>1, <2>1, <2>2, <2>4 DEF Precedes
  <2> QED BY <2>3, <2>4
<1>3. ASSUME NEW x, NEW y, Precedes(s, x, y) PROVE Precedes(t, x, y)
  BY <1>1, <1>3 DEF Precedes
<1>4. ASSUME NEW x, Occurs(s, x) PROVE Precedes(t, x, e)
  <2>1. PICK k \in 1 .. n : s[k] = x
    BY <1>1, <1>4 DEF Occurs
  <2>2. k \in 1 .. n + 1 /\ n + 1 \in 1 .. n + 1 /\ k < n + 1
    BY <1>1
  <2> QED BY <1>1, <2>1, <2>2 DEF Precedes
<1> QED BY <1>2, <1>3, <1>4 DEF t

LEMMA TailPrecedes ==
    ASSUME NEW s \in Seq(Repo), s # <<>>, Distinct(s)
    PROVE  /\ \A x, y : Precedes(Tail(s), x, y) <=> Precedes(s, x, y) /\ x # Head(s)
           /\ \A x : ~Precedes(s, x, Head(s))
<1> DEFINE t == Tail(s)
           n == Len(s)
<1>1. /\ n \in Nat \ {0} /\ DOMAIN s = 1 .. n /\ DOMAIN t = 1 .. n - 1
      /\ \A i \in 1 .. n - 1 : t[i] = s[i + 1]
      /\ Head(s) = s[1]
  BY TailShape, HeadTailProperties
<1> HIDE DEF t, n
<1>2. \A k \in 1 .. n : s[k] = Head(s) => k = 1
  BY <1>1 DEF Distinct
<1>3. ASSUME NEW x, NEW y, Precedes(t, x, y)
      PROVE  Precedes(s, x, y) /\ x # Head(s)
  <2>1. PICK k \in 1 .. n - 1, m \in 1 .. n - 1 : k < m /\ t[k] = x /\ t[m] = y
    BY <1>1, <1>3 DEF Precedes
  <2>2. /\ k + 1 \in 1 .. n /\ m + 1 \in 1 .. n /\ k + 1 < m + 1 /\ k + 1 # 1
        /\ s[k + 1] = x /\ s[m + 1] = y
    BY <1>1, <2>1
  <2> QED BY <1>1, <1>2, <2>2 DEF Precedes
<1>4. ASSUME NEW x, NEW y, Precedes(s, x, y), x # Head(s)
      PROVE  Precedes(t, x, y)
  <2>1. PICK k \in 1 .. n, m \in 1 .. n : k < m /\ s[k] = x /\ s[m] = y
    BY <1>1, <1>4 DEF Precedes
  <2>2. /\ k - 1 \in 1 .. n - 1 /\ m - 1 \in 1 .. n - 1 /\ k - 1 < m - 1
        /\ t[k - 1] = x /\ t[m - 1] = y
    BY <1>1, <1>4, <2>1
  <2> QED BY <1>1, <2>2 DEF Precedes
<1>5. ASSUME NEW x, Precedes(s, x, Head(s)) PROVE FALSE
  <2>1. PICK k \in 1 .. n, m \in 1 .. n : k < m /\ s[m] = Head(s)
    BY <1>1, <1>5 DEF Precedes
  <2> QED BY <1>1, <1>2, <2>1
<1> QED BY <1>3, <1>4, <1>5 DEF t
----------------------------------------------------------------------------
\* The refinement mapping, and what it makes of the abstract queue's state.
LOCAL ahead == [r \in Repo |-> Ahead(r)]

LEMMA AheadIs ==
    /\ \A q, r \in Repo : q \in ahead[r] <=> Precedes(order, q, r)
    /\ \A q, r \in Repo : q \in ahead'[r] <=> Precedes(order', q, r)
    /\ \A r \in Repo : ahead[r] \subseteq Repo /\ ahead'[r] \subseteq Repo
BY DEF ahead, Ahead, Before, Precedes

LEMMA BusyIs ==
    ASSUME QueueOK
    PROVE  Promise!Busy = {r \in Repo : Occurs(order, r)}
BY DEF Promise!Busy, QueueOK

\* An admission.
LEMMA EnqueueAdmits ==
    ASSUME Inv1, NEW r \in Repo, NEW id \in RunId, ~Full, Enqueue(r, id)
    PROVE  Promise!Admit(r, id)
<1>1. order \in Seq(Repo) /\ lanes \in [Repo -> Seq(DOMAIN runs)] /\ QueueOK /\ depth \in Nat
  BY DEF Inv1, TypeOK, QueueTypeOK
<1>2. Promise!Total < MaxDepth
  <2>1. Promise!Total = depth
    <3>1. Promise!Total = Cardinality(Slots)
      BY Zenon DEF Promise!Total, Slots, Promise!Cardinality, Cardinality
    <3>2. depth = Cardinality(Slots)
      BY <1>1 DEF QueueOK
    <3> QED BY <3>1, <3>2
  <2> QED BY <1>1, <2>1, MaxDepthAssumption DEF Full
<1>3. lanes' = [lanes EXCEPT ![r] = Append(@, id)]
  BY DEF Enqueue
<1>4. ahead' = IF r \in Promise!Busy THEN ahead ELSE [ahead EXCEPT ![r] = Promise!Busy]
  <2>1. CASE lanes[r] # <<>>
    <3>1. order' = order /\ r \in Promise!Busy
      BY <1>1, <2>1 DEF Enqueue, Promise!Busy
    <3> QED BY <3>1 DEF ahead, Ahead, Before
  <2>2. CASE lanes[r] = <<>>
    <3>1. order' = Append(order, r) /\ r \notin Promise!Busy /\ ~Occurs(order, r)
      BY <1>1, <2>2 DEF Enqueue, Promise!Busy, QueueOK
    <3>2. \A q, s \in Repo : Precedes(order', q, s) <=>
                               Precedes(order, q, s) \/ (Occurs(order, q) /\ s = r)
      BY <1>1, <3>1, AppendPrecedes
    <3>3. \A q \in Repo : ~Precedes(order, q, r)
      BY <3>1 DEF Precedes, Occurs
    <3>4. \A s \in Repo : ahead'[s] = IF s = r THEN Promise!Busy ELSE ahead[s]
      <4>1. Promise!Busy = {q \in Repo : Occurs(order, q)}
        BY <1>1, BusyIs
      <4> QED BY <3>2, <3>3, <4>1, AheadIs
    <3> QED BY <3>1, <3>4 DEF ahead
  <2> QED BY <2>1, <2>2
<1> QED BY <1>2, <1>3, <1>4 DEF Promise!Admit, ahead

\* A turn.
LEMMA TakeServes ==
    ASSUME Inv1, Take
    PROVE  Promise!Serve(Head(order))
<1> DEFINE r == Head(order)
<1>1. /\ order \in Seq(Repo) /\ order # <<>> /\ Distinct(order) /\ QueueOK
      /\ lanes \in [Repo -> Seq(DOMAIN runs)]
  BY DEF Inv1, TypeOK, QueueTypeOK, QueueOK, Take
<1>2. /\ r \in Repo /\ Occurs(order, r)
      /\ Tail(order) \in Seq(Repo) /\ Distinct(Tail(order))
      /\ \A x : Occurs(Tail(order), x) <=> Occurs(order, x) /\ x # r
  BY <1>1, TailDistinct
<1>3. /\ \A x, y : Precedes(Tail(order), x, y) <=> Precedes(order, x, y) /\ x # r
      /\ \A x : ~Precedes(order, x, r)
  BY <1>1, TailPrecedes
<1>4. /\ lanes' = [lanes EXCEPT ![r] = Tail(@)]
      /\ order' = IF Len(lanes[r]) = 1 THEN Tail(order) ELSE Append(Tail(order), r)
  BY DEF Take
<1> HIDE DEF r
<1>5. Promise!Busy = {q \in Repo : Occurs(order, q)}
  BY <1>1, BusyIs
<1>6. r \in Promise!Busy /\ ahead[r] = {}
  BY <1>2, <1>3, <1>5, AheadIs
<1>7. \A q \in Repo : ahead'[q] = IF q # r THEN ahead[q] \ {r}
                                 ELSE IF Len(lanes[r]) = 1 THEN {} ELSE Promise!Busy \ {r}
  <2>1. CASE Len(lanes[r]) = 1
    BY <2>1, <1>2, <1>3, <1>4, AheadIs
  <2>2. CASE Len(lanes[r]) # 1
    <3>1. \A x, y : Precedes(order', x, y) <=>
                      Precedes(Tail(order), x, y) \/ (Occurs(Tail(order), x) /\ y = r)
      BY <2>2, <1>2, <1>4, AppendPrecedes
    <3> QED BY <2>2, <3>1, <1>2, <1>3, <1>5, AheadIs
  <2> QED BY <2>1, <2>2
<1>8. ahead' = [q \in Repo |->
                  IF q # r THEN ahead[q] \ {r}
                  ELSE IF Len(lanes[r]) = 1 THEN {} ELSE Promise!Busy \ {r}]
  BY <1>7 DEF ahead
<1> QED BY <1>4, <1>6, <1>8 DEF Promise!Serve, ahead, r

\* The end of the process.
LEMMA LostLoses == QueueLost => Promise!Lose
BY DEF QueueLost, Promise!Lose, Ahead, Before

LEMMA QueueKept == UNCHANGED queueVars => UNCHANGED Promise!vars
BY DEF queueVars, Promise!vars, Ahead, Before

LEMMA StepRefines == Inv1 /\ [Next]_vars => [Promise!Next]_(Promise!vars)
<1> SUFFICES ASSUME Inv1, [Next]_vars PROVE Promise!Next \/ UNCHANGED Promise!vars
  OBVIOUS
<1>1. \A r \in Repo, id \in RunId : ~Full /\ Enqueue(r, id) => Promise!Next
  BY EnqueueAdmits DEF Promise!Next
<1>2. Take => Promise!Next
  <2> SUFFICES ASSUME Take PROVE Promise!Next
    OBVIOUS
  <2>1. Head(order) \in Repo
    BY TailDistinct DEF Take, Inv1, TypeOK, QueueTypeOK, QueueOK
  <2> QED BY <2>1, TakeServes DEF Promise!Next
<1>3. QueueLost => Promise!Next
  BY LostLoses DEF Promise!Next
<1>4. ASSUME NEW p \in PR, NEW sha, NEW force, Submit(p, sha, force)
      PROVE  Promise!Next \/ UNCHANGED queueVars
  BY <1>1, <1>4, SchedulerAssumption DEF Submit, SubmitNew, Retarget
<1>5. ASSUME NEW i \in todo, Requeue(i)
      PROVE  Promise!Next \/ UNCHANGED queueVars
  <2>1. i \in RunId
    <3>1. i \in 1 .. Len(runs) /\ Len(runs) <= MaxRuns /\ Len(runs) \in Nat
      BY LenProperties DEF Inv1, TypeOK
    <3> QED BY <3>1, SchedulerAssumption DEF RunId
  <2>2. LaneOf(i) \in Repo
    BY RowsAsFunction, SchedulerAssumption DEF LaneOf, Row, Inv1, TypeOK
  <2> QED BY <1>1, <1>5, <2>1, <2>2 DEF Requeue
<1>6. CASE \E p \in PR, sha \in Sha : Poll(p, sha)
  BY <1>4, <1>6, QueueKept DEF Poll
<1>7. CASE \E p \in PR, sha \in Sha :
              CrashInPoll(p, sha) \/ \E force \in BOOLEAN : CrashInCreate(p, sha, force)
  BY <1>3, <1>7 DEF CrashInPoll, CrashInCreate, ProcessEnds
<1>8. CASE \E p \in PR, force \in BOOLEAN : Trigger(p, force)
  BY <1>4, <1>8, QueueKept DEF Trigger
<1>9. CASE \E i \in DOMAIN runs : Cancel(i)
  BY <1>9, QueueKept DEF Cancel
<1>10. CASE \E w \in Worker : Dispatch(w)
  BY <1>2, <1>10 DEF Dispatch
<1>11. CASE \E w \in Worker : DebounceOver(w) \/ TaskStep(w)
  <2>1. UNCHANGED queueVars
    BY <1>11 DEF DebounceOver, TaskStep, Advance, Finish, Fail, Cancelled, TaskUnchanged
  <2> QED BY <2>1, QueueKept
<1>12. CASE Crash \/ Stop
  BY <1>3, <1>12 DEF Crash, Stop, ProcessEnds
<1>13. CASE Boot
  BY <1>13, QueueKept DEF Boot
<1>14. CASE \E i \in todo : Requeue(i)
  BY <1>5, <1>14, QueueKept
<1>15. CASE UNCHANGED vars
  BY <1>15, QueueKept DEF vars, queueVars
<1> QED
  BY <1>6, <1>7, <1>8, <1>9, <1>10, <1>11, <1>12, <1>13, <1>14, <1>15 DEF Next

\* The queue is bounded, first in first out within a repository, and no repository
\* gets a second turn before every repository that was waiting has had a first.
THEOREM SchedulerIsFair == Spec => QueueIsFair
<1>1. Init => Promise!Init
  BY DEF Init, QueueInit, Promise!Init, Ahead, Before
<1>2. Inv1 /\ [Next]_vars => [Promise!Next]_(Promise!vars)
  BY StepRefines
<1> QED BY <1>1, <1>2, InitInv1, StepInv1, PTL DEF Spec, QueueIsFair, Promise!Spec
----------------------------------------------------------------------------
(***************************************************************************)
(* One owner per run, and newer heads over older: no run is held twice or  *)
(* stranded, a task's writes are never late, no run moves backwards, a     *)
(* waiting run is for the newest head and older rows give way to newer     *)
(* ones.  The first four invariants need each other and are proved         *)
(* together; the last two rest on them.                                    *)
(***************************************************************************)
Safe == HeldOnce /\ NothingStranded /\ NotBegun /\ TaskAgreesWithRow

IInv == Inv1 /\ Safe

\* What an action has to preserve, and what it has to be.
Goal == Safe' /\ MovesForward

LEMMA PositionRange ==
    /\ \A s : Position(s) \in 0 .. 8
    /\ \A s \in TERMINAL_STATES : Position(s) = 8
BY DEF Position, TERMINAL_STATES

\* The types, as the proofs below use them.
LEMMA Shapes ==
    ASSUME TypeOK
    PROVE  /\ NoRun \notin DOMAIN runs
           /\ \A i \in DOMAIN runs : runs[i] \in Row /\ runs[i].state \in RunState
           /\ \A w \in Worker :
                /\ consumer[w] \in Consumer
                /\ consumer[w].pc \in {"waiting", "debounce", "task"}
                /\ consumer[w].at \in LiveStates
                /\ consumer[w].cancelling \in BOOLEAN
                /\ consumer[w].pc = "waiting" <=> consumer[w].run = NoRun
                /\ consumer[w].pc # "waiting" => consumer[w].run \in DOMAIN runs
           /\ todo \subseteq DOMAIN runs
           /\ \A x : InLane(x) => x \in DOMAIN runs
<1>1. NoRun \notin DOMAIN runs
  <2>1. DOMAIN runs = 1 .. Len(runs) /\ Len(runs) \in Nat
    BY LenProperties DEF TypeOK
  <2> QED BY <2>1 DEF NoRun
<1>2. \A i \in DOMAIN runs : runs[i] \in Row /\ runs[i].state \in RunState
  BY RowsAsFunction DEF Row
<1>3. \A w \in Worker : consumer[w] \in Consumer
  BY DEF TypeOK
<1>4. \A x : InLane(x) => x \in DOMAIN runs
  BY LaneIds DEF TypeOK
<1> QED BY <1>1, <1>2, <1>3, <1>4 DEF TypeOK, Consumer

\* The lanes do not change.
LEMMA LanesKept ==
    ASSUME lanes' = lanes
    PROVE  /\ QueuedOnce' <=> QueuedOnce
           /\ \A x : InLane(x)' <=> InLane(x)
BY DEF QueuedOnce, InLane, Distinct, Occurs

\* Rows are added, and those that were there keep their state: a submission.
LEMMA TableGrows ==
    ASSUME IInv, UNCHANGED <<consumer, up, todo>>,
           DOMAIN runs \subseteq DOMAIN runs',
           \A i \in DOMAIN runs : runs'[i].state = runs[i].state,
           rejected \subseteq rejected',
           QueuedOnce',
           \A x : InLane(x) => InLane(x)',
           \A x : InLane(x)' => \/ InLane(x)
                                \/ /\ x \in DOMAIN runs' \ DOMAIN runs
                                   /\ runs'[x].state = "queued"
                                   /\ Serving,
           \A x \in DOMAIN runs' \ DOMAIN runs :
              \/ runs'[x].state = "cancelled"
              \/ runs'[x].state = "queued" /\ InLane(x)'
    PROVE  Goal
<1>1. /\ NoRun \notin DOMAIN runs
      /\ \A w \in Worker :
            /\ consumer[w].pc = "waiting" <=> consumer[w].run = NoRun
            /\ consumer[w].pc # "waiting" => consumer[w].run \in DOMAIN runs
      /\ todo \subseteq DOMAIN runs
      /\ \A x : InLane(x) => x \in DOMAIN runs
  BY Shapes DEF IInv, Inv1
<1>2. HeldOnce'
  BY <1>1 DEF IInv, Safe, HeldOnce
<1>3. NothingStranded'
  BY <1>1 DEF IInv, Safe, NothingStranded, TERMINAL_STATES
<1>4. NotBegun'
  <2>1. NotBegun
    BY DEF IInv, Safe
  <2>2. \A i \in DOMAIN runs' : InLane(i)' => runs'[i].state \in {"queued", "cancelled"}
    BY <2>1 DEF NotBegun
  <2>3. \A w \in Worker : consumer'[w].pc = "debounce" =>
           runs'[consumer'[w].run].state \in {"queued", "cancelled"}
    BY <1>1, <2>1 DEF NotBegun
  <2>4. \A i \in todo' : runs'[i].state \notin TERMINAL_STATES
    BY <1>1, <2>1 DEF NotBegun
  <2>5. ~up' => todo' = {} /\ \A i \in DOMAIN runs' : ~InLane(i)'
    <3>1. ASSUME ~up, NEW i \in DOMAIN runs', InLane(i)' PROVE FALSE
      <4>1. ~Serving
        BY <3>1 DEF Serving
      <4>2. InLane(i) /\ i \in DOMAIN runs
        BY <1>1, <3>1, <4>1
      <4> QED BY <2>1, <3>1, <4>2 DEF NotBegun
    <3> QED BY <2>1, <3>1 DEF NotBegun
  <2> QED BY <2>1, <2>2, <2>3, <2>4, <2>5 DEF NotBegun, Serving
<1>5. TaskAgreesWithRow'
  BY <1>1 DEF IInv, Safe, TaskAgreesWithRow
<1>6. MovesForward
  BY PositionRange DEF MovesForward
<1> QED BY <1>2, <1>3, <1>4, <1>5, <1>6 DEF Goal, Safe

\* The states in the table after a creation.
LEMMA CreatedStates ==
    ASSUME TypeOK, NEW p \in PR, NEW sha \in Sha, NEW state \in RunState,
           Len(runs) + 1 \in RunId
    PROVE  /\ \A i \in DOMAIN runs : Created(p, sha, state)[i].state = runs[i].state
           /\ Created(p, sha, state)[Len(runs) + 1].state = state
           /\ Len(runs) + 1 \notin DOMAIN runs
<1> DEFINE new == Len(runs) + 1
           old == [i \in DOMAIN runs |->
                     IF i = LatestRun(p) /\ runs[i].state # "done"
                     THEN [runs[i] EXCEPT !.superseded_by = new] ELSE runs[i]]
           row == NewRow(p, sha, state)
<1>1. runs \in [DOMAIN runs -> Row] /\ DOMAIN runs = 1 .. Len(runs) /\ Len(runs) \in Nat
  BY LenProperties DEF TypeOK
<1>2. old \in [DOMAIN runs -> Row] /\ row \in Row /\ row.state = state
  BY <1>1 DEF Row, NewRow
<1>3. \A i \in DOMAIN runs : old[i].state = runs[i].state
  BY <1>1 DEF Row
<1>4. Created(p, sha, state) = Append(old, row)
  BY DEF Created
<1> HIDE DEF old, row
<1>5. old \in Seq(Row) /\ Len(old) = Len(runs)
  BY <1>2, RowsReplaced
<1>6. /\ \A i \in 1 .. Len(runs) : Append(old, row)[i] = old[i]
      /\ Append(old, row)[new] = row
  BY <1>2, <1>5, AppendProperties
<1> QED BY <1>1, <1>2, <1>3, <1>4, <1>6

LEMMA SubmitSafe ==
    ASSUME IInv, Serving, NEW p \in PR, NEW sha \in Sha, NEW force \in BOOLEAN,
           Submit(p, sha, force), UNCHANGED <<consumer, up, todo>>
    PROVE  Goal
<1>1. TypeOK /\ QueuedOnce
  BY DEF IInv, Inv1, Safe, HeldOnce
<1>2. CASE UNCHANGED <<queueVars, runs, rejected, pending>>
  <2>1. lanes' = lanes /\ runs' = runs /\ rejected' = rejected
    BY <1>2 DEF queueVars
  <2> QED BY <1>1, <2>1, LanesKept, TableGrows
<1>3. CASE Retarget(p, sha)
  <2>1. lanes' = lanes /\ rejected' = rejected
    BY <1>3 DEF Retarget, queueVars
  <2>2. /\ DOMAIN runs' = DOMAIN runs
        /\ \A i \in DOMAIN runs : runs'[i].state = runs[i].state
    BY <1>1, <1>3, Shapes DEF Retarget, Row
  <2> QED BY <1>1, <2>1, <2>2, LanesKept, TableGrows
<1>4. CASE SubmitNew(p, sha)
  <2> DEFINE new == Len(runs) + 1
  <2>1. new \in RunId /\ "cancelled" \in RunState /\ "queued" \in RunState
    BY <1>4 DEF SubmitNew, RunState, LiveStates, TERMINAL_STATES
  <2>2. \A state \in RunState :
           /\ DOMAIN Created(p, sha, state) = DOMAIN runs \cup {new}
           /\ \A i \in DOMAIN runs : Created(p, sha, state)[i].state = runs[i].state
           /\ Created(p, sha, state)[new].state = state
           /\ new \notin DOMAIN runs
    BY <1>1, <2>1, RowCreated, CreatedStates
  <2> HIDE DEF new
  <2>3. CASE Full
    <3>1. /\ runs' = Created(p, sha, "cancelled")
          /\ lanes' = lanes /\ rejected \subseteq rejected'
      BY <1>4, <2>3 DEF SubmitNew, queueVars
    <3>2. QueuedOnce' /\ \A x : InLane(x)' <=> InLane(x)
      BY <1>1, <3>1, LanesKept
    <3> QED BY <2>1, <2>2, <3>1, <3>2, TableGrows
  <2>4. CASE ~Full
    <3>1. /\ runs' = Created(p, sha, "queued")
          /\ Enqueue(RepoOf[p], new) /\ rejected' = rejected
      BY <1>4, <2>4 DEF SubmitNew, new
    <3>2. DOMAIN runs' = DOMAIN runs \cup {new} /\ new \notin DOMAIN runs
      BY <2>1, <2>2, <3>1
    <3>3. QueueTypeOK(DOMAIN runs') /\ RepoOf[p] \in Repo /\ ~InLane(new)
      BY <1>1, <3>2, QueueTypeMonotonic, Shapes, SchedulerAssumption DEF TypeOK
    <3>4. QueuedOnce' /\ \A x : InLane(x)' <=> InLane(x) \/ x = new
      BY <1>1, <3>1, <3>2, <3>3, EnqueueKeepsQueuedOnce
    <3>5. /\ \A i \in DOMAIN runs : runs'[i].state = runs[i].state
          /\ runs'[new].state = "queued"
      BY <2>1, <2>2, <3>1
    <3> QED BY <3>1, <3>2, <3>4, <3>5, TableGrows
  <2> QED BY <2>3, <2>4
<1> QED BY <1>2, <1>3, <1>4 DEF Submit

\* The row is cancelled and its task told: the task no longer counts on the row.
LEMMA CancelSafe ==
    ASSUME IInv, NEW i \in DOMAIN runs, Cancel(i)
    PROVE  Goal
<1>1. /\ NoRun \notin DOMAIN runs
      /\ \A j \in DOMAIN runs : runs[j] \in Row /\ runs[j].state \in RunState
      /\ \A w \in Worker :
            /\ consumer[w] \in Consumer
            /\ consumer[w].pc \in {"waiting", "debounce", "task"}
            /\ consumer[w].pc # "waiting" => consumer[w].run \in DOMAIN runs
  BY Shapes DEF IInv, Inv1
<1>2. Serving /\ lanes' = lanes /\ UNCHANGED <<up, todo, rejected>>
  BY DEF Cancel, queueVars
<1>3. (QueuedOnce' <=> QueuedOnce) /\ \A x : InLane(x)' <=> InLane(x)
  BY <1>2, LanesKept
<1>4. /\ DOMAIN runs' = DOMAIN runs
      /\ runs'[i].state = "cancelled"
      /\ \A j \in DOMAIN runs : j # i => runs'[j].state = runs[j].state
  BY <1>1 DEF Cancel, SetState, Row
<1>5. \A w \in Worker :
         /\ consumer'[w].pc = consumer[w].pc
         /\ consumer'[w].run = consumer[w].run
         /\ consumer'[w].at = consumer[w].at
         /\ consumer'[w].local = consumer[w].local
         /\ IF consumer[w].pc = "task" /\ consumer[w].run = i
            THEN consumer'[w].cancelling
            ELSE consumer'[w].cancelling = consumer[w].cancelling
  BY <1>1 DEF Cancel, Consumer
<1>6. HeldOnce'
  BY <1>2, <1>3, <1>5 DEF IInv, Safe, HeldOnce
<1>7. NothingStranded'
  BY <1>2, <1>3, <1>4, <1>5 DEF IInv, Safe, NothingStranded, TERMINAL_STATES
<1>8. NotBegun'
  BY <1>1, <1>2, <1>3, <1>4, <1>5 DEF IInv, Safe, NotBegun, Serving
<1>9. TaskAgreesWithRow'
  BY <1>1, <1>4, <1>5 DEF IInv, Safe, TaskAgreesWithRow
<1>10. MovesForward
  BY <1>4, PositionRange DEF MovesForward, TERMINAL_STATES
<1> QED BY <1>6, <1>7, <1>8, <1>9, <1>10 DEF Goal, Safe

\* A consumer's step that concerns the one run it takes, holds or gives up: i is
\* nobody else's before the step and in no lane after it, and the rest stays.
LEMMA HolderMoves ==
    ASSUME IInv, Serving, UNCHANGED <<up, todo, rejected>>,
           NEW w \in Worker, NEW i \in DOMAIN runs,
           DOMAIN runs' = DOMAIN runs,
           \A j \in DOMAIN runs : j # i => runs'[j].state = runs[j].state,
           Position(runs'[i].state) >= Position(runs[i].state),
           \A v \in Worker : v # w => /\ consumer'[v] = consumer[v]
                                     /\ consumer[v].run # i,
           consumer[w].run \in {i, NoRun},
           QueuedOnce', ~InLane(i)',
           \A x : x # i => (InLane(x)' <=> InLane(x)),
           \/ /\ consumer'[w].pc = "waiting" /\ consumer'[w].run = NoRun
              /\ runs'[i].state \in TERMINAL_STATES
           \/ /\ consumer'[w].pc = "debounce" /\ consumer'[w].run = i
              /\ runs'[i].state = "queued"
           \/ /\ consumer'[w].pc = "task" /\ consumer'[w].run = i
              /\ consumer'[w].local \in {consumer'[w].at, "cancelled"}
              /\ runs'[i].state = IF consumer'[w].cancelling \/ consumer'[w].local = "cancelled"
                                  THEN "cancelled" ELSE consumer'[w].at
    PROVE  Goal
<1>1. /\ NoRun \notin DOMAIN runs
      /\ \A v \in Worker :
            /\ consumer[v].pc \in {"waiting", "debounce", "task"}
            /\ consumer[v].pc = "waiting" <=> consumer[v].run = NoRun
            /\ consumer[v].pc # "waiting" => consumer[v].run \in DOMAIN runs
      /\ \A x : InLane(x) => x \in DOMAIN runs
  BY Shapes DEF IInv, Inv1
<1>2. todo = {} /\ up /\ Serving'
  BY DEF Serving
<1>3. HeldOnce'
  <2>1. HeldOnce
    BY DEF IInv, Safe
  <2>2. ASSUME NEW v \in Worker, consumer'[v].pc # "waiting",
               NEW x, x = consumer'[v].run
        PROVE  /\ ~InLane(x)'
               /\ \A u \in Worker : consumer'[u].run = x => u = v
    <3>1. CASE v = w
      BY <3>1, <2>2, <1>1
    <3>2. CASE v # w
      <4>1. /\ x = consumer[v].run /\ x # i /\ x # NoRun
            /\ ~InLane(x)
            /\ \A u \in Worker : consumer[u].run = x => u = v
        BY <3>2, <2>1, <2>2, <1>1 DEF HeldOnce
      <4> QED BY <3>2, <4>1
    <3> QED BY <3>1, <3>2
  <2> QED BY <2>2, <1>2 DEF HeldOnce
<1>4. NothingStranded'
  <2> SUFFICES ASSUME NEW j \in DOMAIN runs, runs'[j].state \notin TERMINAL_STATES
               PROVE  \/ runs'[j].state = "queued" /\ (InLane(j)' \/ j \in rejected')
                      \/ \E v \in Worker :
                            /\ consumer'[v].run = j
                            /\ runs'[j].state # "queued" => consumer'[v].pc = "task"
    BY DEF NothingStranded
  <2>1. CASE j = i
    BY <2>1
  <2>2. CASE j # i
    <3>1. \/ runs[j].state = "queued" /\ (InLane(j) \/ j \in rejected)
          \/ \E v \in Worker :
                /\ consumer[v].run = j
                /\ runs[j].state # "queued" => consumer[v].pc = "task"
      BY <2>2, <1>2 DEF IInv, Safe, NothingStranded
    <3>2. \A v \in Worker : consumer[v].run = j => v # w
      BY <2>2, <1>1
    <3> QED BY <2>2, <3>1, <3>2
  <2> QED BY <2>1, <2>2
<1>5. NotBegun'
  <2>1. NotBegun
    BY DEF IInv, Safe
  <2>2. \A j \in DOMAIN runs : InLane(j)' => runs'[j].state \in {"queued", "cancelled"}
    BY <2>1 DEF NotBegun
  <2>3. \A v \in Worker : consumer'[v].pc = "debounce" =>
           runs'[consumer'[v].run].state \in {"queued", "cancelled"}
    BY <1>1, <2>1 DEF NotBegun
  <2>4. \A v \in Worker : consumer'[v].pc = "task" =>
           consumer'[v].local \in {consumer'[v].at, "cancelled"}
    BY <2>1 DEF NotBegun
  <2> QED BY <1>2, <2>2, <2>3, <2>4 DEF NotBegun
<1>6. TaskAgreesWithRow'
  <2> SUFFICES ASSUME NEW v \in Worker, consumer'[v].pc = "task"
               PROVE  runs'[consumer'[v].run].state =
                        IF consumer'[v].cancelling \/ consumer'[v].local = "cancelled"
                        THEN "cancelled" ELSE consumer'[v].at
    BY DEF TaskAgreesWithRow
  <2>1. CASE v = w
    BY <2>1
  <2>2. CASE v # w
    BY <2>2, <1>1 DEF IInv, Safe, TaskAgreesWithRow
  <2> QED BY <2>1, <2>2
<1>7. MovesForward
  BY PositionRange DEF MovesForward
<1> QED BY <1>3, <1>4, <1>5, <1>6, <1>7 DEF Goal, Safe

\* A run that waits is with no consumer, and one that a consumer holds waits in no
\* lane and is with no other.
LEMMA OneOwner ==
    ASSUME IInv
    PROVE  /\ \A i, v : v \in Worker /\ InLane(i) => consumer[v].run # i
           /\ \A v, w \in Worker : consumer[w].pc # "waiting" =>
                /\ \A x : x = consumer[w].run => ~InLane(x)
                /\ v # w => consumer[v].run # consumer[w].run
<1>1. /\ NoRun \notin DOMAIN runs
      /\ \A v \in Worker : consumer[v].pc = "waiting" <=> consumer[v].run = NoRun
      /\ \A x : InLane(x) => x \in DOMAIN runs
  BY Shapes DEF IInv, Inv1
<1> QED BY <1>1 DEF IInv, Safe, HeldOnce

LEMMA DispatchSafe ==
    ASSUME IInv, NEW w \in Worker, Dispatch(w)
    PROVE  Goal
<1> DEFINE i == NextUp
<1>1. /\ Serving /\ Take /\ consumer[w].pc = "waiting"
      /\ runs' = runs /\ UNCHANGED <<up, todo, rejected>>
  BY DEF Dispatch, stored
<1>2. /\ i \in DOMAIN runs
      /\ QueuedOnce' /\ InLane(i)
      /\ \A x : InLane(x)' <=> InLane(x) /\ x # i
  BY <1>1, TakeKeepsQueueOK, TakeKeepsQueuedOnce
     DEF IInv, Inv1, TypeOK, QueueTypeOK, Safe, HeldOnce
<1>3. /\ runs[i].state \in {"queued", "cancelled"}
      /\ consumer[w].run = NoRun
      /\ \A v \in Worker : consumer[v].run # i
      /\ consumer \in [Worker -> Consumer]
  BY <1>1, <1>2, OneOwner DEF IInv, Inv1, TypeOK, Safe, NotBegun
<1>4. \/ /\ runs[i].state = "cancelled"
         /\ consumer' = consumer
      \/ /\ runs[i].state # "cancelled"
         /\ consumer' = [consumer EXCEPT ![w] = [Waiting EXCEPT !.pc = "debounce", !.run = i]]
      \/ consumer' = [consumer EXCEPT ![w] = Running(i)]
  BY DEF Dispatch
<1>5. Position(runs'[i].state) >= Position(runs[i].state)
  BY <1>1, PositionRange
<1>6. \/ /\ consumer'[w].pc = "waiting" /\ consumer'[w].run = NoRun
         /\ runs'[i].state \in TERMINAL_STATES
      \/ /\ consumer'[w].pc = "debounce" /\ consumer'[w].run = i
         /\ runs'[i].state = "queued"
      \/ /\ consumer'[w].pc = "task" /\ consumer'[w].run = i
         /\ consumer'[w].local \in {consumer'[w].at, "cancelled"}
         /\ runs'[i].state = IF consumer'[w].cancelling \/ consumer'[w].local = "cancelled"
                             THEN "cancelled" ELSE consumer'[w].at
  <2> HIDE DEF i
  <2>1. [Waiting EXCEPT !.pc = "debounce", !.run = i].pc = "debounce"
        /\ [Waiting EXCEPT !.pc = "debounce", !.run = i].run = i
    BY DEF Waiting
  <2>2. CASE runs[i].state = "cancelled" /\ consumer' = consumer
    BY <2>2, <1>1, <1>3 DEF TERMINAL_STATES
  <2>3. CASE /\ runs[i].state # "cancelled"
             /\ consumer' = [consumer EXCEPT ![w] = [Waiting EXCEPT !.pc = "debounce", !.run = i]]
    BY <2>1, <2>3, <1>1, <1>3
  <2>4. CASE consumer' = [consumer EXCEPT ![w] = Running(i)]
    BY <2>4, <1>1, <1>3 DEF Running
  <2> QED BY <1>4, <2>2, <2>3, <2>4
<1>7. \A v \in Worker : v # w => consumer'[v] = consumer[v] /\ consumer[v].run # i
  BY <1>3, <1>4
<1> HIDE DEF i
<1> QED BY <1>1, <1>2, <1>3, <1>5, <1>6, <1>7, HolderMoves

\* The steps of a consumer that holds a run already.
LEMMA HolderStays ==
    ASSUME IInv, Serving, UNCHANGED <<lanes, up, todo, rejected>>,
           NEW w \in Worker, NEW i \in DOMAIN runs,
           consumer[w].pc # "waiting", consumer[w].run = i,
           NEW c, consumer' = [consumer EXCEPT ![w] = c],
           DOMAIN runs' = DOMAIN runs,
           \A j \in DOMAIN runs : j # i => runs'[j].state = runs[j].state,
           Position(runs'[i].state) >= Position(runs[i].state),
           \/ /\ c.pc = "waiting" /\ c.run = NoRun
              /\ runs'[i].state \in TERMINAL_STATES
           \/ /\ c.pc = "task" /\ c.run = i
              /\ c.local \in {c.at, "cancelled"}
              /\ runs'[i].state = IF c.cancelling \/ c.local = "cancelled"
                                  THEN "cancelled" ELSE c.at
    PROVE  Goal
<1>1. consumer \in [Worker -> Consumer] /\ QueuedOnce
  BY DEF IInv, Inv1, TypeOK, Safe, HeldOnce
<1>2. QueuedOnce' /\ \A x : InLane(x)' <=> InLane(x)
  BY <1>1, LanesKept
<1>3. ~InLane(i) /\ \A v \in Worker : v # w => consumer[v].run # i
  BY OneOwner
<1>4. /\ consumer'[w] = c
      /\ \A v \in Worker : v # w => consumer'[v] = consumer[v] /\ consumer[v].run # i
  BY <1>1, <1>3
<1> QED BY <1>2, <1>3, <1>4, HolderMoves

LEMMA DebounceOverSafe ==
    ASSUME IInv, NEW w \in Worker, DebounceOver(w)
    PROVE  Goal
<1> DEFINE i == consumer[w].run
<1>1. /\ Serving /\ consumer[w].pc = "debounce"
      /\ consumer' = [consumer EXCEPT ![w] = Running(i)]
      /\ runs' = runs /\ UNCHANGED <<lanes, up, todo, rejected>>
  BY DEF DebounceOver, stored, queueVars
<1>2. i \in DOMAIN runs /\ runs[i].state \in {"queued", "cancelled"}
  BY <1>1, Shapes DEF IInv, Inv1, Safe, NotBegun
<1>3. Position(runs'[i].state) >= Position(runs[i].state)
  BY <1>1, PositionRange
<1> HIDE DEF i
<1>4. /\ Running(i).pc = "task" /\ Running(i).run = i
      /\ Running(i).local \in {Running(i).at, "cancelled"}
      /\ runs'[i].state = IF Running(i).cancelling \/ Running(i).local = "cancelled"
                          THEN "cancelled" ELSE Running(i).at
  BY <1>1, <1>2 DEF Running
<1>5. consumer[w].run = i
  BY DEF i
<1> QED BY <1>1, <1>2, <1>3, <1>4, <1>5, HolderStays

\* The pipeline's next stage is ahead of the one it is in, and so is the end.
LEMMA StagesForward ==
    ASSUME NEW at \in LiveStates
    PROVE  /\ \A state \in NextStages(at) :
                /\ state \in LiveStates /\ state # "cancelled"
                /\ CanTransition(at, state)
                /\ Position(state) >= Position(at)
           /\ CanTransition(at, "done")
           /\ at # "cancelled"
BY DEF NextStages, LiveStates, CanTransition, Position, TERMINAL_STATES

LEMMA AdvanceSafe ==
    ASSUME IInv, NEW w \in Worker, NEW state \in LiveStates, Advance(w, state)
    PROVE  Goal
<1> DEFINE c == consumer[w]
           i == c.run
           ok == CanTransition(c.local, state)
           d == [c EXCEPT !.at = state, !.local = IF ok THEN state ELSE c.local]
<1>1. /\ Serving /\ c.pc = "task" /\ ~c.cancelling
      /\ state \in NextStages(c.at)
      /\ runs' = IF ok THEN [runs EXCEPT ![i].state = state] ELSE runs
      /\ UNCHANGED <<lanes, up, todo, rejected>>
  BY DEF Advance, Resumes, TaskUnchanged, queueVars
<1>2. /\ consumer \in [Worker -> Consumer] /\ c \in Consumer
      /\ i \in DOMAIN runs /\ c.at \in LiveStates
      /\ \A j \in DOMAIN runs : runs[j] \in Row
  BY <1>1, Shapes DEF IInv, Inv1, TypeOK
<1>3. consumer' = [consumer EXCEPT ![w] = d]
  BY <1>2 DEF Advance, Consumer
<1>4. /\ d.pc = "task" /\ d.run = i /\ d.at = state /\ d.cancelling = FALSE
      /\ d.local = IF ok THEN state ELSE c.local
  BY <1>1, <1>2 DEF Consumer
<1>5. /\ c.local \in {c.at, "cancelled"}
      /\ runs[i].state = IF c.local = "cancelled" THEN "cancelled" ELSE c.at
  BY <1>1 DEF IInv, Safe, NotBegun, TaskAgreesWithRow
<1>6. /\ DOMAIN runs' = DOMAIN runs
      /\ \A j \in DOMAIN runs : j # i => runs'[j].state = runs[j].state
      /\ runs'[i].state = IF ok THEN state ELSE runs[i].state
  BY <1>1, <1>2 DEF Row
<1>7. /\ state # "cancelled" /\ c.at # "cancelled"
      /\ CanTransition(c.at, state) /\ Position(state) >= Position(c.at)
  BY <1>1, <1>2, StagesForward
<1>8. ok <=> c.local = c.at
  BY <1>5, <1>7 DEF CanTransition, TERMINAL_STATES
<1>9. consumer[w].pc # "waiting" /\ consumer[w].run = i
  BY <1>1
<1> HIDE DEF c, i, ok, d
<1>10. /\ d.local \in {d.at, "cancelled"}
       /\ runs'[i].state = IF d.cancelling \/ d.local = "cancelled"
                           THEN "cancelled" ELSE d.at
  BY <1>4, <1>5, <1>6, <1>7, <1>8
<1>11. Position(runs'[i].state) >= Position(runs[i].state)
  BY <1>5, <1>6, <1>7, <1>8, PositionRange
<1> QED BY <1>1, <1>2, <1>3, <1>4, <1>6, <1>9, <1>10, <1>11, HolderStays

\* A task ends: its row says so, or said so before the task began.
LEMMA TaskEndsSafe ==
    ASSUME IInv, NEW w \in Worker, Finish(w) \/ Fail(w) \/ Cancelled(w)
    PROVE  Goal
<1> DEFINE c == consumer[w]
           i == c.run
<1>1. /\ Serving /\ c.pc = "task"
      /\ consumer' = [consumer EXCEPT ![w] = Waiting]
      /\ UNCHANGED <<lanes, up, todo, rejected>>
  BY DEF Finish, Fail, Cancelled, Resumes, TaskUnchanged, queueVars
<1>2. /\ i \in DOMAIN runs /\ c.at \in LiveStates
      /\ \A j \in DOMAIN runs : runs[j] \in Row
      /\ c.local \in {c.at, "cancelled"}
  BY <1>1, Shapes DEF IInv, Inv1, Safe, NotBegun
<1>3. \/ \E state \in TERMINAL_STATES : runs' = [runs EXCEPT ![i].state = state]
      \/ runs' = runs /\ runs[i].state = "cancelled"
  <2>1. CASE Finish(w)
    <3>1. ~c.cancelling
      BY <2>1 DEF Finish, Resumes
    <3>2. CASE c.local = "cancelled"
      <4>1. runs[i].state = "cancelled" /\ ~CanTransition(c.local, "done")
        BY <1>1, <3>2 DEF IInv, Safe, TaskAgreesWithRow, CanTransition, TERMINAL_STATES
      <4> QED BY <2>1, <4>1 DEF Finish
    <3>3. CASE c.local = c.at
      <4>1. CanTransition(c.local, "done")
        BY <1>2, <3>3, StagesForward
      <4> QED BY <2>1, <4>1 DEF Finish, TERMINAL_STATES
    <3> QED BY <1>2, <3>2, <3>3
  <2>2. CASE Fail(w)
    BY <2>2 DEF Fail, SetState, TERMINAL_STATES
  <2>3. CASE Cancelled(w)
    BY <2>3 DEF Cancelled, SetState, TERMINAL_STATES
  <2> QED BY <2>1, <2>2, <2>3
<1>4. /\ DOMAIN runs' = DOMAIN runs
      /\ \A j \in DOMAIN runs : j # i => runs'[j].state = runs[j].state
      /\ runs'[i].state \in TERMINAL_STATES
  BY <1>2, <1>3 DEF Row, TERMINAL_STATES
<1>5. Position(runs'[i].state) >= Position(runs[i].state)
  BY <1>4, PositionRange
<1>6. consumer[w].pc # "waiting" /\ consumer[w].run = i
  BY <1>1
<1> HIDE DEF c, i
<1> QED BY <1>1, <1>2, <1>4, <1>5, <1>6, WaitingType, HolderStays

\* Nothing is left in memory.
LEMMA ProcessEndsSafe ==
    ASSUME IInv, ProcessEnds,
           \A i \in DOMAIN runs : \/ runs'[i].state = runs[i].state
                                 \/ runs'[i].state \in TERMINAL_STATES
    PROVE  Goal
<1>1. /\ QueueLost /\ up' = FALSE /\ todo' = {}
      /\ consumer' = [w \in Worker |-> Waiting]
  BY DEF ProcessEnds
<1>2. QueuedOnce' /\ \A x : ~InLane(x)'
  BY <1>1, NothingWaitsAfter
<1>3. \A w \in Worker : consumer'[w].pc = "waiting"
  BY <1>1, WaitingType
<1>4. HeldOnce'
  BY <1>1, <1>2, <1>3 DEF HeldOnce
<1>5. NothingStranded'
  BY <1>1 DEF NothingStranded
<1>6. NotBegun'
  BY <1>1, <1>2, <1>3 DEF NotBegun
<1>7. TaskAgreesWithRow'
  BY <1>3 DEF TaskAgreesWithRow
<1>8. MovesForward
  BY PositionRange DEF MovesForward
<1> QED BY <1>4, <1>5, <1>6, <1>7, <1>8 DEF Goal, Safe

LEMMA EndingsSafe ==
    ASSUME IInv
    PROVE  /\ Crash => Goal
           /\ Stop => Goal
           /\ \A p \in PR, sha \in Sha : CrashInPoll(p, sha) => Goal
           /\ \A p \in PR, sha \in Sha, force \in BOOLEAN :
                 CrashInCreate(p, sha, force) => Goal
<1>1. Crash => Goal
  BY ProcessEndsSafe DEF Crash
<1>2. ASSUME Stop PROVE Goal
  <2>1. \A i \in DOMAIN runs : \/ runs'[i].state = runs[i].state
                              \/ runs'[i].state = "cancelled"
    BY <1>2, Shapes DEF Stop, Row, IInv, Inv1
  <2> QED BY <1>2, <2>1, ProcessEndsSafe DEF Stop, TERMINAL_STATES
<1>3. ASSUME NEW p \in PR, NEW sha \in Sha, CrashInPoll(p, sha) PROVE Goal
  BY <1>3, ProcessEndsSafe DEF CrashInPoll
<1>4. ASSUME NEW p \in PR, NEW sha \in Sha, NEW force \in BOOLEAN,
             CrashInCreate(p, sha, force)
      PROVE  Goal
  <2>1. \A i \in DOMAIN runs : runs'[i].state = runs[i].state
    <3>1. Len(runs) + 1 \in RunId /\ "queued" \in RunState
      BY <1>4 DEF CrashInCreate, RunState, LiveStates
    <3>2. CASE runs' = Created(p, sha, "queued")
      BY <3>1, <3>2, CreatedStates DEF IInv, Inv1
    <3>3. CASE runs' = Append(runs, [NewRow(p, sha, "queued") EXCEPT !.torn = TRUE])
      <4>1. runs \in Seq(Row) /\ DOMAIN runs = 1 .. Len(runs)
        BY LenProperties DEF IInv, Inv1, TypeOK
      <4>2. \A row : \A i \in 1 .. Len(runs) : Append(runs, row)[i] = runs[i]
        BY <4>1
      <4> QED BY <3>3, <4>1, <4>2
    <3> QED BY <1>4, <3>2, <3>3 DEF CrashInCreate
  <2> QED BY <1>4, <2>1, ProcessEndsSafe DEF CrashInCreate
<1> QED BY <1>1, <1>2, <1>3, <1>4

\* Recovery takes over every run that has not ended.
LEMMA BootSafe ==
    ASSUME IInv, Boot
    PROVE  Goal
<1>1. /\ ~up /\ up' = TRUE /\ todo' = UnfinishedRuns
      /\ UNCHANGED <<lanes, runs, rejected, consumer>>
  BY DEF Boot, stored, queueVars
<1>2. QueuedOnce /\ NotBegun
  BY DEF IInv, Safe, HeldOnce
<1>3. QueuedOnce' /\ \A x : InLane(x)' <=> InLane(x)
  BY <1>1, <1>2, LanesKept
<1>4. /\ \A w \in Worker : consumer[w].pc = "waiting" /\ consumer[w].run = NoRun
      /\ NoRun \notin DOMAIN runs
      /\ \A x : ~InLane(x)
  BY <1>1, <1>2, Shapes DEF NotBegun, Serving, IInv, Inv1
<1>5. HeldOnce'
  BY <1>1, <1>3, <1>4 DEF HeldOnce, UnfinishedRuns
<1>6. NothingStranded'
  BY <1>1 DEF NothingStranded, UnfinishedRuns
<1>7. NotBegun'
  BY <1>1, <1>3, <1>4 DEF NotBegun, UnfinishedRuns
<1>8. TaskAgreesWithRow'
  BY <1>1, <1>4 DEF TaskAgreesWithRow
<1>9. MovesForward
  BY <1>1, PositionRange DEF MovesForward
<1> QED BY <1>5, <1>6, <1>7, <1>8, <1>9 DEF Goal, Safe

\* The run recovery has got to waits in a lane, or a full queue refused it.
LEMMA RequeueSafe ==
    ASSUME IInv, NEW i \in todo, Requeue(i)
    PROVE  Goal
<1>1. /\ up /\ todo' = todo \ {i} /\ UNCHANGED <<consumer, up>>
      /\ runs' = [runs EXCEPT ![i].state = "queued"]
      /\ \/ Full /\ lanes' = lanes /\ rejected' = rejected \cup {i}
         \/ ~Full /\ Enqueue(LaneOf(i), i) /\ rejected' = rejected
  BY DEF Requeue, SetState, queueVars
<1>2. /\ QueuedOnce /\ ~InLane(i)
      /\ \A j \in todo : ~InLane(j) /\ runs[j].state \notin TERMINAL_STATES
      /\ todo \subseteq DOMAIN runs /\ i \in DOMAIN runs
      /\ \A j \in DOMAIN runs : runs[j] \in Row
      /\ QueueTypeOK(DOMAIN runs)
  BY Shapes DEF IInv, Inv1, TypeOK, Safe, HeldOnce, NotBegun
<1>3. /\ \A w \in Worker : consumer[w].pc = "waiting" /\ consumer[w].run = NoRun
      /\ NoRun \notin DOMAIN runs
  <2>1. ~Serving
    BY DEF Serving
  <2> QED BY <2>1, Shapes DEF IInv, Inv1, Safe, NotBegun
<1>4. /\ DOMAIN runs' = DOMAIN runs
      /\ \A j \in DOMAIN runs : j # i => runs'[j].state = runs[j].state
      /\ runs'[i].state = "queued"
  BY <1>1, <1>2 DEF Row
<1>5. /\ QueuedOnce'
      /\ \A x : x # i => (InLane(x)' <=> InLane(x))
      /\ InLane(i)' \/ i \in rejected'
      /\ rejected \subseteq rejected'
  <2>1. CASE Full /\ lanes' = lanes /\ rejected' = rejected \cup {i}
    BY <2>1, <1>2, LanesKept
  <2>2. CASE ~Full /\ Enqueue(LaneOf(i), i) /\ rejected' = rejected
    <3>1. LaneOf(i) \in Repo
      BY <1>2, SchedulerAssumption DEF LaneOf, Row
    <3>2. QueuedOnce' /\ \A x : InLane(x)' <=> InLane(x) \/ x = i
      BY <2>2, <3>1, <1>2, EnqueueKeepsQueuedOnce
    <3> QED BY <2>2, <3>2
  <2> QED BY <1>1, <2>1, <2>2
<1>6. HeldOnce'
  BY <1>1, <1>2, <1>3, <1>5 DEF HeldOnce
<1>7. NothingStranded'
  <2> SUFFICES ASSUME NEW j \in DOMAIN runs, runs'[j].state \notin TERMINAL_STATES
               PROVE  \/ j \in todo'
                      \/ runs'[j].state = "queued" /\ (InLane(j)' \/ j \in rejected')
    BY <1>4 DEF NothingStranded
  <2>1. CASE j = i
    BY <2>1, <1>4, <1>5
  <2>2. CASE j # i
    <3>1. \/ j \in todo
          \/ runs[j].state = "queued" /\ (InLane(j) \/ j \in rejected)
      BY <2>2, <1>1, <1>3, <1>4 DEF IInv, Safe, NothingStranded
    <3> QED BY <2>2, <3>1, <1>1, <1>4, <1>5
  <2> QED BY <2>1, <2>2
<1>8. NotBegun'
  <2>1. NotBegun
    BY DEF IInv, Safe
  <2>2. \A j \in DOMAIN runs : InLane(j)' => runs'[j].state \in {"queued", "cancelled"}
    BY <2>1, <1>4, <1>5 DEF NotBegun
  <2>3. \A j \in todo' : runs'[j].state \notin TERMINAL_STATES
    BY <1>1, <1>2, <1>4
  <2> QED BY <2>2, <2>3, <1>1, <1>3, <1>4 DEF NotBegun
<1>9. TaskAgreesWithRow'
  BY <1>1, <1>3 DEF TaskAgreesWithRow
<1>10. MovesForward
  BY <1>2, <1>4, PositionRange DEF MovesForward
<1> QED BY <1>6, <1>7, <1>8, <1>9, <1>10 DEF Goal, Safe

LEMMA InitSafe == Init => Safe
<1> SUFFICES ASSUME Init PROVE Safe
  OBVIOUS
<1>1. QueuedOnce /\ \A x : ~InLane(x)
  BY NothingWaits DEF Init
<1>2. /\ DOMAIN runs = {} /\ todo = {} /\ up
      /\ \A w \in Worker : consumer[w].pc = "waiting"
  BY WaitingType DEF Init
<1> QED BY <1>1, <1>2 DEF Safe, HeldOnce, NothingStranded, NotBegun, TaskAgreesWithRow,
           Serving

LEMMA StepSafe == IInv /\ [Next]_vars => Goal
<1> SUFFICES ASSUME IInv, [Next]_vars PROVE Goal
  OBVIOUS
<1>1. ASSUME NEW p \in PR, NEW sha \in Sha, Poll(p, sha)
      PROVE  Goal
  <2>1. Serving /\ Submit(p, sha, FALSE) /\ UNCHANGED <<consumer, up, todo>>
    BY <1>1 DEF Poll
  <2> QED BY <2>1, SubmitSafe
<1>2. ASSUME NEW p \in PR, NEW sha \in Sha,
             \/ CrashInPoll(p, sha)
             \/ \E force \in BOOLEAN : CrashInCreate(p, sha, force)
      PROVE  Goal
  BY <1>2, EndingsSafe
<1>3. ASSUME NEW p \in PR, NEW force \in BOOLEAN, Trigger(p, force)
      PROVE  Goal
  <2>1. /\ Serving /\ Submit(p, known[p], force) /\ UNCHANGED <<consumer, up, todo>>
        /\ known[p] # NoSha
    BY <1>3 DEF Trigger
  <2>2. known[p] \in Sha
    BY <2>1 DEF IInv, Inv1, TypeOK
  <2> QED BY <2>1, <2>2, SubmitSafe
<1>4. ASSUME NEW i \in DOMAIN runs, Cancel(i)
      PROVE  Goal
  BY <1>4, CancelSafe
<1>5. ASSUME NEW w \in Worker, Dispatch(w) \/ DebounceOver(w) \/ TaskStep(w)
      PROVE  Goal
  BY <1>5, DispatchSafe, DebounceOverSafe, AdvanceSafe, TaskEndsSafe DEF TaskStep
<1>6. CASE Crash \/ Stop \/ Boot
  BY <1>6, EndingsSafe, BootSafe
<1>7. ASSUME NEW i \in todo, Requeue(i)
      PROVE  Goal
  BY <1>7, RequeueSafe
<1>8. CASE UNCHANGED vars
  <2>1. /\ UNCHANGED <<consumer, up, todo>> /\ runs' = runs /\ rejected' = rejected
        /\ lanes' = lanes
    BY <1>8 DEF vars, stored
  <2>2. QueuedOnce' /\ \A x : InLane(x)' <=> InLane(x)
    BY <2>1, LanesKept DEF IInv, Safe, HeldOnce
  <2> QED BY <2>1, <2>2, TableGrows
<1> QED BY <1>1, <1>2, <1>3, <1>4, <1>5, <1>6, <1>7, <1>8 DEF Next

LEMMA Inductive == Spec => []IInv
<1>1. Init => IInv
  BY InitInv1, InitSafe DEF IInv
<1>2. IInv /\ [Next]_vars => IInv'
  BY StepInv1, StepSafe DEF IInv, Goal
<1> QED BY <1>1, <1>2, PTL DEF Spec

\* A run waits in one lane, once, or is with one consumer, or is recovery's: two
\* tasks never write one row.
THEOREM OneTaskPerRun == Spec => []HeldOnce
<1>1. IInv => HeldOnce
  BY DEF IInv, Safe
<1> QED BY <1>1, Inductive, PTL

\* Whatever is submitted, cancelled and killed in whatever order, a run that has
\* not ended waits, is held, is still recovery's, or was refused by a full queue.
THEOREM NoRunStranded == Spec => []NothingStranded
<1>1. IInv => NothingStranded
  BY DEF IInv, Safe
<1> QED BY <1>1, Inductive, PTL

\* A waiting run has not begun, and a task's copy of its run is up to date or was
\* cancelled from the start.
THEOREM WaitingHasNotBegun == Spec => []NotBegun
<1>1. IInv => NotBegun
  BY DEF IInv, Safe
<1> QED BY <1>1, Inductive, PTL

\* Until a task is told of a cancellation, its row says what it wrote last, so the
\* check of _advance on its own copy is as good as one on the row.
THEOREM TaskOwnsItsRow == Spec => []TaskAgreesWithRow
<1>1. IInv => TaskAgreesWithRow
  BY DEF IInv, Safe
<1> QED BY <1>1, Inductive, PTL

\* No write to the run table takes a run backwards along ORDER or out of a terminal
\* state, save recovery's, though most writes do not look at the row.
THEOREM RunsNeverGoBack == Spec => NeverBackwards
<1>1. IInv /\ [Next]_vars => [MovesForward]_vars
  BY StepSafe DEF Goal
<1> QED BY <1>1, Inductive, PTL DEF Spec, NeverBackwards

----------------------------------------------------------------------------
(* The heads that runs are for, and the rows that newer ones replace *)

\* A bounded set of numbers that is not empty has a greatest element.
LEMMA Greatest ==
    ASSUME NEW n \in Nat, NEW S \in SUBSET (1 .. n), S # {}
    PROVE  \E i \in S : \A j \in S : j <= i
<1> DEFINE below == {n - i : i \in S}
<1>1. below \subseteq Nat /\ below # {}
  <2>1. \A i \in S : n - i \in Nat
    OBVIOUS
  <2> QED BY <2>1
<1>2. IsWellFoundedOn(OpToRel(<, Nat), Nat)
  BY NatLessThanWellFounded
<1>3. PICK x \in below : \A y \in below : ~ (<<y, x>> \in OpToRel(<, Nat))
  <2> HIDE DEF below
  <2> QED BY <1>1, <1>2, WFMin
<1>4. \A y \in below : x <= y
  <2>1. ASSUME NEW y \in below, y < x PROVE FALSE
    <3>1. <<y, x>> \in OpToRel(<, Nat)
      BY <1>1, <2>1 DEF OpToRel
    <3> QED BY <1>3, <3>1
  <2> HIDE DEF below
  <2>2. x \in Nat /\ \A y \in below : y \in Nat
    BY <1>1
  <2> QED BY <2>1, <2>2
<1>5. PICK i \in S : x = n - i
  BY <1>3
<1>6. ASSUME NEW j \in S PROVE j <= i
  <2>1. x <= n - j
    BY <1>4
  <2> QED BY <1>5, <2>1
<1> QED BY <1>6

LEMMA LatestIsLast ==
    ASSUME TypeOK, NEW p \in PR
    PROVE  \/ LatestRun(p) = NoRun /\ RunsOf(p) = {}
           \/ LatestRun(p) \in RunsOf(p) /\ \A j \in RunsOf(p) : j <= LatestRun(p)
<1>1. DOMAIN runs = 1 .. Len(runs) /\ Len(runs) \in Nat
  BY LenProperties DEF TypeOK
<1>2. RunsOf(p) \in SUBSET (1 .. Len(runs))
  BY <1>1 DEF RunsOf
<1>3. RunsOf(p) # {} => \E i \in RunsOf(p) : \A j \in RunsOf(p) : j <= i
  BY <1>1, <1>2, Greatest
<1> QED BY <1>3 DEF LatestRun

\* A pending entry names the newest run of its pull request but for those that a
\* full queue refused, and there is none while runs are recovered.
Fresh(p) ==
    pending[p] # NoRun =>
        /\ Serving
        /\ pending[p] \in RunsOf(p)
        /\ runs[pending[p]].state = "queued" => runs[pending[p]].head = known[p]
        /\ \A j \in RunsOf(p) :
              pending[p] < j => runs[j].state \in {"failed", "cancelled"}

\* A row is superseded by a newer one of its pull request.
Linked ==
    \A i \in DOMAIN runs : runs[i].superseded_by # NoRun =>
        /\ runs[i].superseded_by \in DOMAIN runs
        /\ i < runs[i].superseded_by
        /\ runs[runs[i].superseded_by].pr = runs[i].pr

Heads == (\A p \in PR : Fresh(p)) /\ Linked /\ OldRunsSuperseded

IInv2 == IInv /\ Heads

\* Whose a row is and what it was replaced by stay as they are, as in all but the
\* creation of a run.
RowsKept ==
    /\ DOMAIN runs' = DOMAIN runs
    /\ \A i \in DOMAIN runs :
          /\ runs'[i].pr = runs[i].pr
          /\ runs'[i].superseded_by = runs[i].superseded_by
          /\ runs'[i].torn = runs[i].torn

LEMMA StateWritten ==
    ASSUME TypeOK, NEW i \in DOMAIN runs, NEW s,
           runs' = [runs EXCEPT ![i].state = s]
    PROVE  /\ RowsKept
           /\ runs'[i].state = s /\ runs'[i].head = runs[i].head
           /\ \A j \in DOMAIN runs : j # i => runs'[j] = runs[j]
<1>1. \A j \in DOMAIN runs : runs[j] \in Row
  BY RowsAsFunction
<1> QED BY <1>1 DEF RowsKept, Row

LEMMA EndedStaysEnded ==
    ASSUME TypeOK, TypeOK', NotBegun, MovesForward, DOMAIN runs' = DOMAIN runs
    PROVE  \A i \in DOMAIN runs :
              runs[i].state \in TERMINAL_STATES => runs'[i].state \in TERMINAL_STATES
<1>1. \A s \in LiveStates : Position(s) < 8
  BY DEF LiveStates, Position
<1>2. \A i \in DOMAIN runs : runs'[i].state \in RunState
  <2>1. runs' \in Seq(Row)
    BY DEF TypeOK
  <2>2. runs' \in [DOMAIN runs' -> Row]
    BY <2>1, LenProperties
  <2> QED BY <2>2 DEF Row
<1> QED BY <1>1, <1>2, PositionRange DEF NotBegun, MovesForward, RunState

LEMMA LinksKept ==
    ASSUME TypeOK, TypeOK', NotBegun, Heads, MovesForward, RowsKept
    PROVE  Linked' /\ OldRunsSuperseded'
<1>1. \A i \in DOMAIN runs :
         runs[i].state \in TERMINAL_STATES => runs'[i].state \in TERMINAL_STATES
  BY EndedStaysEnded DEF RowsKept
<1>2. Linked'
  <2>1. Linked
    BY DEF Heads
  <2> QED BY <2>1 DEF Linked, RowsKept
<1>3. OldRunsSuperseded'
  <2> SUFFICES ASSUME NEW i \in DOMAIN runs, NEW j \in DOMAIN runs,
                      i < j, runs[i].pr = runs[j].pr
               PROVE  \/ runs'[i].superseded_by \in i + 1 .. j
                      \/ /\ runs'[i].superseded_by = NoRun
                         /\ runs'[i].state \in TERMINAL_STATES
                      \/ \E k \in i + 1 .. j : runs'[k].pr = runs'[i].pr /\ runs'[k].torn
    BY DEF OldRunsSuperseded, RowsKept
  <2>1. \/ runs[i].superseded_by \in i + 1 .. j
        \/ runs[i].superseded_by = NoRun /\ runs[i].state \in TERMINAL_STATES
        \/ \E k \in i + 1 .. j : runs[k].pr = runs[i].pr /\ runs[k].torn
    BY DEF Heads, OldRunsSuperseded
  <2>2. i + 1 .. j \subseteq DOMAIN runs
    BY LenProperties DEF TypeOK
  <2> QED BY <1>1, <2>1, <2>2 DEF RowsKept
<1> QED BY <1>2, <1>3

\* A state or a pending entry is written, and no run goes on a second time.
LEMMA WritesKeepHeads ==
    ASSUME IInv2, IInv', MovesForward, RowsKept, Serving', UNCHANGED known,
           \A i \in DOMAIN runs :
              /\ runs'[i].head = runs[i].head
              /\ runs'[i].state = "queued" => runs[i].state = "queued"
              /\ runs[i].state \in {"failed", "cancelled"}
                    => runs'[i].state \in {"failed", "cancelled"},
           \A p \in PR : pending'[p] \in {pending[p], NoRun}
    PROVE  Heads'
<1>1. TypeOK /\ TypeOK' /\ NotBegun /\ Heads
  BY DEF IInv2, IInv, Inv1, Safe
<1>2. ASSUME NEW p \in PR PROVE Fresh(p)'
  <2>1. Fresh(p)
    BY <1>1 DEF Heads
  <2>2. RunsOf(p)' = RunsOf(p)
    BY DEF RunsOf, RowsKept
  <2>3. RunsOf(p) \subseteq DOMAIN runs
    BY DEF RunsOf
  <2> QED BY <2>1, <2>2, <2>3 DEF Fresh, RowsKept
<1>3. Linked' /\ OldRunsSuperseded'
  BY <1>1, LinksKept
<1> QED BY <1>2, <1>3 DEF Heads

LEMMA RunsUntaken ==
    ASSUME IInv2, IInv', MovesForward, RowsKept,
           \A p \in PR : pending'[p] = NoRun
    PROVE  Heads'
<1>1. TypeOK /\ TypeOK' /\ NotBegun /\ Heads
  BY DEF IInv2, IInv, Inv1, Safe
<1>2. \A p \in PR : Fresh(p)'
  BY DEF Fresh
<1>3. Linked' /\ OldRunsSuperseded'
  BY <1>1, LinksKept
<1> QED BY <1>2, <1>3 DEF Heads

\* The table with the new row, and the row before it superseded.
Extended(table, p, row, new) ==
    /\ \A i \in DOMAIN runs :
          table[i] = IF i = LatestRun(p) /\ runs[i].state # "done"
                     THEN [runs[i] EXCEPT !.superseded_by = new] ELSE runs[i]
    /\ table[new] = row
    /\ DOMAIN table = DOMAIN runs \cup {new}
    /\ new \notin DOMAIN runs
    /\ \A i \in DOMAIN runs : i < new

LEMMA CreatedRows ==
    ASSUME TypeOK, NEW p \in PR, NEW sha \in Sha, NEW state \in RunState,
           Len(runs) + 1 \in RunId,
           NEW new, new = Len(runs) + 1
    PROVE  Extended(Created(p, sha, state), p, NewRow(p, sha, state), new)
<1> DEFINE old == [i \in DOMAIN runs |->
                     IF i = LatestRun(p) /\ runs[i].state # "done"
                     THEN [runs[i] EXCEPT !.superseded_by = new] ELSE runs[i]]
           row == NewRow(p, sha, state)
<1>1. runs \in [DOMAIN runs -> Row] /\ DOMAIN runs = 1 .. Len(runs) /\ Len(runs) \in Nat
  BY LenProperties DEF TypeOK
<1>2. old \in [DOMAIN runs -> Row] /\ row \in Row
  BY <1>1 DEF Row, NewRow
<1>3. Created(p, sha, state) = Append(old, row)
  BY DEF Created
<1>4. DOMAIN Created(p, sha, state) = DOMAIN runs \cup {new}
  BY RowCreated
<1>5. \A i \in DOMAIN runs : old[i] = IF i = LatestRun(p) /\ runs[i].state # "done"
                     THEN [runs[i] EXCEPT !.superseded_by = new] ELSE runs[i]
  OBVIOUS
<1> HIDE DEF old, row
<1>6. old \in Seq(Row) /\ Len(old) = Len(runs)
  BY <1>2, RowsReplaced
<1>7. /\ \A i \in 1 .. Len(runs) : Append(old, row)[i] = old[i]
      /\ Append(old, row)[new] = row
  BY <1>2, <1>6, AppendProperties
<1> QED BY <1>1, <1>3, <1>4, <1>5, <1>7 DEF row, Extended

\* A new row: the one before it is done or superseded by it, unless it is torn.
LEMMA RowAdded ==
    ASSUME TypeOK, Heads, NEW p \in PR, NEW new \in Int,
           DOMAIN runs' = DOMAIN runs \cup {new}, \A i \in DOMAIN runs : i < new,
           \A i \in DOMAIN runs :
              /\ runs'[i].pr = runs[i].pr
              /\ runs'[i].state = runs[i].state
              /\ runs'[i].torn = runs[i].torn
              /\ \/ runs'[i].superseded_by = runs[i].superseded_by
                 \/ runs'[i].superseded_by = new /\ i = LatestRun(p),
           runs'[new].pr = p, runs'[new].superseded_by = NoRun,
           \/ runs'[new].torn
           \/ \A i \in RunsOf(p) : i = LatestRun(p) =>
                 runs[i].state = "done" \/ runs'[i].superseded_by = new
    PROVE  Linked' /\ OldRunsSuperseded'
<1>1. /\ \A i \in RunsOf(p) : i <= LatestRun(p) /\ LatestRun(p) \in RunsOf(p)
      /\ \A i \in DOMAIN runs : i = LatestRun(p) => i \in RunsOf(p)
      /\ NoRun \notin DOMAIN runs
      /\ \A i \in DOMAIN runs : i \in Int
      /\ new \notin DOMAIN runs
  <2>1. NoRun \notin DOMAIN runs
    BY Shapes
  <2>2. \A i \in DOMAIN runs : i \in Int
    BY LenProperties DEF TypeOK
  <2> QED BY <2>1, <2>2, LatestIsLast
<1>2. Linked /\ OldRunsSuperseded
  BY DEF Heads
<1>3. Linked'
  <2> SUFFICES ASSUME NEW i \in DOMAIN runs', runs'[i].superseded_by # NoRun
               PROVE  /\ runs'[i].superseded_by \in DOMAIN runs'
                      /\ i < runs'[i].superseded_by
                      /\ runs'[runs'[i].superseded_by].pr = runs'[i].pr
    BY DEF Linked
  <2>1. i \in DOMAIN runs
    OBVIOUS
  <2>2. CASE runs'[i].superseded_by = runs[i].superseded_by
    BY <1>2, <2>1, <2>2 DEF Linked
  <2>3. CASE runs'[i].superseded_by = new /\ i = LatestRun(p)
    BY <1>1, <2>1, <2>3 DEF RunsOf
  <2> QED BY <2>1, <2>2, <2>3
<1>4. OldRunsSuperseded'
  <2> SUFFICES ASSUME NEW i \in DOMAIN runs', NEW j \in DOMAIN runs',
                      i < j, runs'[i].pr = runs'[j].pr
               PROVE  \/ runs'[i].superseded_by \in i + 1 .. j
                      \/ /\ runs'[i].superseded_by = NoRun
                         /\ runs'[i].state \in TERMINAL_STATES
                      \/ \E k \in i + 1 .. j : runs'[k].pr = runs'[i].pr /\ runs'[k].torn
    BY DEF OldRunsSuperseded
  <2>1. i \in DOMAIN runs
    BY <1>1
  <2>2. ASSUME NEW m \in DOMAIN runs, i < m, runs[m].pr = runs[i].pr, m <= j
        PROVE  \/ runs'[i].superseded_by \in i + 1 .. j
               \/ /\ runs'[i].superseded_by = NoRun
                  /\ runs'[i].state \in TERMINAL_STATES
               \/ \E k \in i + 1 .. j : runs'[k].pr = runs'[i].pr /\ runs'[k].torn
    <3>1. i # LatestRun(p)
      <4>1. i = LatestRun(p) => i \in RunsOf(p) /\ m \in RunsOf(p) /\ m <= i
        BY <1>1, <2>1, <2>2 DEF RunsOf
      <4> QED BY <1>1, <2>1, <2>2, <4>1
    <3>2. runs'[i].superseded_by = runs[i].superseded_by
      BY <2>1, <3>1
    <3>3. \/ runs[i].superseded_by \in i + 1 .. m
          \/ runs[i].superseded_by = NoRun /\ runs[i].state \in TERMINAL_STATES
          \/ \E k \in i + 1 .. m : runs[k].pr = runs[i].pr /\ runs[k].torn
      BY <1>2, <2>1, <2>2 DEF OldRunsSuperseded
    <3>4. m \in Int /\ j \in Int /\ i + 1 .. m \subseteq i + 1 .. j
      BY <1>1, <2>1, <2>2
    <3>5. i + 1 .. m \subseteq DOMAIN runs
      BY <2>1, <2>2, LenProperties DEF TypeOK
    <3> QED BY <2>1, <3>2, <3>3, <3>4, <3>5
  <2>3. CASE j \in DOMAIN runs
    BY <2>1, <2>2, <2>3, <1>1
  <2>4. CASE j = new
    <3>1. i \in RunsOf(p)
      BY <2>1, <2>4 DEF RunsOf
    <3>2. CASE i # LatestRun(p)
      <4>1. LatestRun(p) \in DOMAIN runs /\ i < LatestRun(p) /\ LatestRun(p) <= j
            /\ runs[LatestRun(p)].pr = runs[i].pr
        BY <1>1, <2>4, <3>1, <3>2 DEF RunsOf
      <4> QED BY <2>2, <4>1
    <3>3. CASE runs'[new].torn
      <4>1. new \in i + 1 .. j
        BY <1>1, <2>1, <2>4
      <4> QED BY <2>4, <3>3, <4>1
    <3>4. CASE i = LatestRun(p) /\ runs'[i].superseded_by = new
      BY <1>1, <2>1, <2>4, <3>4
    <3>5. CASE i = LatestRun(p) /\ runs[i].state = "done" /\ runs'[i].superseded_by # new
      <4>1. runs[i].superseded_by = NoRun
        <5>1. ASSUME runs[i].superseded_by # NoRun PROVE FALSE
          <6>1. /\ runs[i].superseded_by \in RunsOf(p)
                /\ i < runs[i].superseded_by
            BY <1>2, <2>1, <3>1, <5>1 DEF Linked, RunsOf
          <6>2. runs[i].superseded_by <= i
            BY <1>1, <3>5, <6>1
          <6> QED BY <1>1, <6>1, <6>2 DEF RunsOf
        <5> QED BY <5>1
      <4> QED BY <2>1, <3>5, <4>1 DEF TERMINAL_STATES
    <3> QED BY <3>1, <3>2, <3>3, <3>4, <3>5
  <2> QED BY <2>3, <2>4
<1> QED BY <1>3, <1>4

LEMMA SubmitHeads ==
    ASSUME IInv2, IInv', MovesForward, Serving, UNCHANGED <<up, todo>>,
           NEW p \in PR, NEW sha \in Sha, NEW force \in BOOLEAN,
           Submit(p, sha, force),
           force => known[p] = sha,
           known'[p] = sha, \A q \in PR : q # p => known'[q] = known[q]
    PROVE  Heads'
<1>1. TypeOK /\ TypeOK' /\ NotBegun /\ Heads /\ Serving'
  BY DEF IInv2, IInv, Inv1, Safe, Serving
<1>2. /\ \A q \in PR : Fresh(q)
      /\ \A q \in PR : RunsOf(q) \subseteq DOMAIN runs
  BY <1>1 DEF Heads, RunsOf
<1>3. CASE ~NeedsNewRun(p, sha, force) /\ AlreadyVerified(p, sha)
           /\ UNCHANGED <<queueVars, runs, rejected, pending>>
  <2>1. RowsKept /\ \A q \in PR : RunsOf(q)' = RunsOf(q)
    BY <1>3 DEF RowsKept, RunsOf
  <2>2. ASSUME NEW q \in PR, q # p PROVE Fresh(q)'
    BY <1>1, <1>2, <1>3, <2>1, <2>2 DEF Fresh
  <2>3. Fresh(p)'
    <3>1. ASSUME pending[p] # NoRun PROVE pending[p] = LatestRun(p)
      <4>1. pending[p] \in RunsOf(p)
        BY <1>2, <3>1 DEF Fresh
      <4>2. LatestRun(p) \in RunsOf(p) /\ pending[p] <= LatestRun(p)
        BY <1>1, <4>1, LatestIsLast
      <4>3. ~ (pending[p] < LatestRun(p))
        BY <1>2, <1>3, <3>1, <4>2 DEF Fresh, AlreadyVerified
      <4>4. pending[p] \in Int /\ LatestRun(p) \in Int
        BY <1>1, <1>2, <4>1, <4>2, LenProperties DEF TypeOK
      <4> QED BY <4>2, <4>3, <4>4
    <3>2. pending[p] # NoRun => runs[pending[p]].head = sha
      BY <1>3, <3>1 DEF AlreadyVerified
    <3> QED BY <1>1, <1>2, <1>3, <2>1, <3>2 DEF Fresh
  <2>4. Linked' /\ OldRunsSuperseded'
    BY <1>1, <2>1, LinksKept
  <2> QED BY <2>2, <2>3, <2>4 DEF Heads
<1>4. CASE pending[p] # NoRun /\ Retarget(p, sha)
  <2> DEFINE i == pending[p]
  <2>1. i \in DOMAIN runs /\ i \in RunsOf(p)
    BY <1>2, <1>4 DEF Fresh
  <2>2. /\ RowsKept /\ pending' = pending
        /\ \A j \in DOMAIN runs :
              /\ runs'[j].state = runs[j].state
              /\ runs'[j].head = IF j = i /\ runs[j].state = "queued"
                                 THEN sha ELSE runs[j].head
    <3>1. \A j \in DOMAIN runs : runs[j] \in Row
      BY <1>1, RowsAsFunction
    <3> QED BY <1>4, <2>1, <3>1 DEF Retarget, RowsKept, Row
  <2>3. \A q \in PR : RunsOf(q)' = RunsOf(q)
    BY <2>2 DEF RowsKept, RunsOf
  <2>4. ASSUME NEW q \in PR, q # p PROVE Fresh(q)'
    <3>1. pending[q] # NoRun => pending[q] # i
      BY <1>2, <2>1, <2>4 DEF Fresh, RunsOf
    <3> QED BY <1>1, <1>2, <2>2, <2>3, <2>4, <3>1 DEF Fresh
  <2>5. Fresh(p)'
    BY <1>1, <1>2, <2>1, <2>2, <2>3 DEF Fresh
  <2>6. Linked' /\ OldRunsSuperseded'
    BY <1>1, <2>2, LinksKept
  <2> QED BY <2>4, <2>5, <2>6 DEF Heads
<1>5. CASE NeedsNewRun(p, sha, force) /\ SubmitNew(p, sha)
  <2>1. PICK new : new = Len(runs) + 1
    OBVIOUS
  <2>2. /\ new \in RunId /\ new \in Int
        /\ "cancelled" \in RunState /\ "queued" \in RunState
    BY <1>5, <2>1 DEF SubmitNew, RunId, RunState, LiveStates, TERMINAL_STATES
  <2>3. PICK state \in {"cancelled", "queued"} :
           /\ runs' = Created(p, sha, state)
           /\ \/ state = "cancelled" /\ pending' = pending
              \/ state = "queued" /\ pending' = [pending EXCEPT ![p] = new]
    BY <1>5, <2>1 DEF SubmitNew
  <2>4. /\ \A i \in DOMAIN runs : runs'[i] =
              IF i = LatestRun(p) /\ runs[i].state # "done"
              THEN [runs[i] EXCEPT !.superseded_by = new] ELSE runs[i]
        /\ runs'[new] = NewRow(p, sha, state)
        /\ DOMAIN runs' = DOMAIN runs \cup {new}
        /\ new \notin DOMAIN runs
        /\ \A i \in DOMAIN runs : i < new
    <3>1. state \in RunState /\ Len(runs) + 1 \in RunId
      BY <2>1, <2>2, <2>3
    <3>2. Extended(Created(p, sha, state), p, NewRow(p, sha, state), new)
      BY <1>1, <2>1, <3>1, CreatedRows
    <3>3. Extended(runs', p, NewRow(p, sha, state), new)
      BY <2>3, <3>2
    <3> QED BY <3>3 DEF Extended
  <2>5. \A i \in DOMAIN runs :
           /\ runs'[i].pr = runs[i].pr /\ runs'[i].head = runs[i].head
           /\ runs'[i].state = runs[i].state /\ runs'[i].torn = runs[i].torn
           /\ runs'[i].superseded_by = IF i = LatestRun(p) /\ runs[i].state # "done"
                                       THEN new ELSE runs[i].superseded_by
    <3>1. \A i \in DOMAIN runs : runs[i] \in Row
      BY <1>1, RowsAsFunction
    <3> QED BY <2>4, <3>1 DEF Row
  <2>6. /\ runs'[new].pr = p /\ runs'[new].head = sha
        /\ runs'[new].state = state /\ runs'[new].superseded_by = NoRun
    BY <2>4 DEF NewRow
  <2>7. Linked' /\ OldRunsSuperseded'
    BY <1>1, <1>2, <2>2, <2>4, <2>5, <2>6, RowAdded
  <2>8. /\ RunsOf(p)' = RunsOf(p) \cup {new}
        /\ \A q \in PR : q # p => RunsOf(q)' = RunsOf(q)
    BY <2>4, <2>5, <2>6 DEF RunsOf
  <2>9. ASSUME NEW q \in PR, q # p PROVE Fresh(q)'
    <3>1. pending'[q] = pending[q]
      BY <2>3, <2>9, <1>1 DEF TypeOK
    <3> QED BY <1>1, <1>2, <2>5, <2>8, <2>9, <3>1 DEF Fresh
  <2>10. Fresh(p)'
    <3>1. CASE state = "cancelled" /\ pending' = pending
      <4>1. pending[p] # NoRun => known'[p] = known[p]
        BY <1>5 DEF NeedsNewRun
      <4> QED BY <1>1, <1>2, <2>4, <2>5, <2>6, <2>8, <3>1, <4>1 DEF Fresh
    <3>2. CASE state = "queued" /\ pending' = [pending EXCEPT ![p] = new]
      <4>1. pending'[p] = new
        BY <3>2, <1>1 DEF TypeOK
      <4>2. \A j \in RunsOf(p)' : ~ (new < j)
        <5>1. \A j \in DOMAIN runs : j \in Int
          BY <1>1, LenProperties DEF TypeOK
        <5> QED BY <1>2, <2>2, <2>4, <2>8, <5>1
      <4> QED BY <1>1, <2>6, <2>8, <4>1, <4>2 DEF Fresh
    <3> QED BY <2>3, <3>1, <3>2
  <2> QED BY <2>7, <2>9, <2>10 DEF Heads
<1> QED BY <1>3, <1>4, <1>5 DEF Submit, NeedsNewRun

\* What a task writes: it never sends a run back to the queue, and never takes one
\* that failed or was cancelled to another end than these.
LEMMA TaskWrites ==
    ASSUME IInv, NEW w \in Worker, TaskStep(w)
    PROVE  /\ RowsKept
           /\ \A i \in DOMAIN runs :
                 /\ runs'[i].head = runs[i].head
                 /\ runs'[i].state = "queued" => runs[i].state = "queued"
                 /\ runs[i].state \in {"failed", "cancelled"}
                       => runs'[i].state \in {"failed", "cancelled"}
<1> DEFINE c == consumer[w]
           i == c.run
<1>1. TypeOK /\ c.pc = "task" /\ i \in DOMAIN runs /\ c.at \in LiveStates
      /\ c.local \in {c.at, "cancelled"}
  <2>1. c.pc = "task"
    BY DEF TaskStep, Advance, Finish, Fail, Cancelled, Resumes
  <2> QED BY <2>1, Shapes DEF IInv, Inv1, Safe, NotBegun
<1>2. ~c.cancelling /\ c.local # "cancelled" => runs[i].state = c.at
  BY <1>1 DEF IInv, Safe, TaskAgreesWithRow
<1>3. \/ runs' = runs
      \/ \E s \in {"failed", "cancelled"} : runs' = [runs EXCEPT ![i].state = s]
      \/ \E s : /\ s # "queued" /\ runs' = [runs EXCEPT ![i].state = s]
                /\ runs[i].state \notin {"failed", "cancelled"}
  <2>1. ASSUME NEW state \in LiveStates, Advance(w, state)
        PROVE  \/ runs' = runs
               \/ /\ state # "queued" /\ runs' = [runs EXCEPT ![i].state = state]
                  /\ runs[i].state \notin {"failed", "cancelled"}
    <3>1. ~c.cancelling /\ state \in NextStages(c.at)
      BY <2>1 DEF Advance, Resumes
    <3>2. state # "queued"
      BY <3>1 DEF NextStages
    <3>3. CASE CanTransition(c.local, state)
      <4>1. c.local # "cancelled"
        BY <3>3 DEF CanTransition, TERMINAL_STATES
      <4>2. runs[i].state \notin {"failed", "cancelled"}
        BY <1>1, <1>2, <3>1, <4>1 DEF LiveStates
      <4> QED BY <2>1, <3>2, <3>3, <4>2 DEF Advance
    <3> QED BY <2>1, <3>3 DEF Advance
  <2>2. CASE Finish(w)
    <3>1. ~c.cancelling
      BY <2>2 DEF Finish, Resumes
    <3>2. CASE CanTransition(c.local, "done")
      <4>1. c.local # "cancelled"
        BY <3>2 DEF CanTransition, TERMINAL_STATES
      <4>2. runs[i].state \notin {"failed", "cancelled"}
        BY <1>1, <1>2, <3>1, <4>1 DEF LiveStates
      <4> QED BY <2>2, <3>2, <4>2 DEF Finish
    <3> QED BY <2>2, <3>2 DEF Finish
  <2>3. CASE Fail(w) \/ Cancelled(w)
    BY <2>3 DEF Fail, Cancelled, SetState
  <2> QED BY <2>1, <2>2, <2>3 DEF TaskStep
<1> HIDE DEF i, c
<1>4. CASE runs' = runs
  BY <1>4 DEF RowsKept
<1>5. ASSUME NEW s, runs' = [runs EXCEPT ![i].state = s], s # "queued",
             \/ s \in {"failed", "cancelled"}
             \/ runs[i].state \notin {"failed", "cancelled"}
      PROVE  /\ RowsKept
             /\ \A j \in DOMAIN runs :
                 /\ runs'[j].head = runs[j].head
                 /\ runs'[j].state = "queued" => runs[j].state = "queued"
                 /\ runs[j].state \in {"failed", "cancelled"}
                       => runs'[j].state \in {"failed", "cancelled"}
  BY <1>1, <1>5, StateWritten
<1> QED BY <1>3, <1>4, <1>5

\* The ends of the process: a run that was being created may be in, or half in.
LEMMA EndingHeads ==
    ASSUME IInv2, IInv', MovesForward, ProcessEnds,
           \/ Crash \/ Stop
           \/ \E p \in PR, sha \in Sha :
                 \/ CrashInPoll(p, sha)
                 \/ \E force \in BOOLEAN : CrashInCreate(p, sha, force)
    PROVE  Heads'
<1>1. TypeOK /\ TypeOK' /\ NotBegun /\ Heads
  BY DEF IInv2, IInv, Inv1, Safe
<1>2. \A q \in PR : pending'[q] = NoRun
  BY DEF ProcessEnds
<1>3. CASE RowsKept
  BY <1>2, <1>3, RunsUntaken
<1>4. Crash \/ (\E p \in PR, sha \in Sha : CrashInPoll(p, sha)) => RowsKept
  BY DEF Crash, CrashInPoll, RowsKept
<1>5. Stop => RowsKept
  <2>1. \A i \in DOMAIN runs : runs[i] \in Row
    BY <1>1, RowsAsFunction
  <2> QED BY <2>1 DEF Stop, RowsKept, Row
<1>6. ASSUME NEW p \in PR, NEW sha \in Sha, NEW force \in BOOLEAN,
             CrashInCreate(p, sha, force)
      PROVE  Heads'
  <2>1. PICK new : new = Len(runs) + 1
    OBVIOUS
  <2>2. /\ new \in RunId /\ new \in Int /\ Len(runs) + 1 \in RunId
        /\ "queued" \in RunState
    BY <1>6, <2>1 DEF CrashInCreate, RunId, RunState, LiveStates
  <2>3. \A i \in DOMAIN runs : runs[i] \in Row
    BY <1>1, RowsAsFunction
  <2>4. CASE runs' = Append(runs, [NewRow(p, sha, "queued") EXCEPT !.torn = TRUE])
    <3> DEFINE row == [NewRow(p, sha, "queued") EXCEPT !.torn = TRUE]
    <3>1. row \in Row /\ row.pr = p /\ row.superseded_by = NoRun /\ row.torn
      BY <2>2 DEF NewRow, Row
    <3>2. runs \in Seq(Row) /\ DOMAIN runs = 1 .. Len(runs) /\ Len(runs) \in Nat
      BY <1>1, LenProperties DEF TypeOK
    <3>3. runs' = Append(runs, row)
      BY <2>4
    <3> HIDE DEF row
    <3>4. /\ \A i \in DOMAIN runs : runs'[i] = runs[i]
          /\ runs'[new] = row
          /\ DOMAIN runs' = DOMAIN runs \cup {new}
          /\ \A i \in DOMAIN runs : i < new
      BY <2>1, <3>1, <3>2, <3>3, AppendProperties
    <3>5. Linked' /\ OldRunsSuperseded'
      BY <1>1, <2>2, <3>1, <3>4, RowAdded
    <3> QED BY <1>2, <3>5 DEF Heads, Fresh
  <2>5. CASE runs' = Created(p, sha, "queued")
    <3>1. Extended(Created(p, sha, "queued"), p, NewRow(p, sha, "queued"), new)
      BY <1>1, <2>1, <2>2, CreatedRows
    <3>2. Extended(runs', p, NewRow(p, sha, "queued"), new)
      BY <2>5, <3>1
    <3>3. /\ DOMAIN runs' = DOMAIN runs \cup {new}
          /\ \A i \in DOMAIN runs :
             /\ i < new
             /\ runs'[i].pr = runs[i].pr
             /\ runs'[i].state = runs[i].state /\ runs'[i].torn = runs[i].torn
             /\ runs'[i].superseded_by = IF i = LatestRun(p) /\ runs[i].state # "done"
                                         THEN new ELSE runs[i].superseded_by
      BY <2>3, <3>2 DEF Row, Extended
    <3>4. runs'[new].pr = p /\ runs'[new].superseded_by = NoRun
      BY <3>2 DEF NewRow, Extended
    <3>5. \A i \in RunsOf(p) : i \in DOMAIN runs
      BY DEF RunsOf
    <3>6. Linked' /\ OldRunsSuperseded'
      BY <1>1, <2>2, <3>3, <3>4, <3>5, RowAdded
    <3> QED BY <1>2, <3>6 DEF Heads, Fresh
  <2> QED BY <1>6, <2>4, <2>5 DEF CrashInCreate
<1> QED BY <1>3, <1>4, <1>5, <1>6

\* Boot and recovery: there are no pending entries.
LEMMA RecoveryHeads ==
    ASSUME IInv2, IInv', MovesForward, Boot \/ \E i \in todo : Requeue(i)
    PROVE  Heads'
<1>1. TypeOK /\ Heads /\ ~Serving /\ pending' = pending
  BY DEF IInv2, IInv, Inv1, Boot, Requeue, Serving
<1>2. \A q \in PR : pending'[q] = NoRun
  BY <1>1 DEF Heads, Fresh
<1>3. RowsKept
  <2>1. CASE Boot
    BY <2>1 DEF Boot, stored, RowsKept
  <2>2. ASSUME NEW i \in todo, Requeue(i) PROVE RowsKept
    <3>1. i \in DOMAIN runs
      BY <1>1 DEF TypeOK
    <3> QED BY <1>1, <2>2, <3>1, StateWritten DEF Requeue, SetState
  <2> QED BY <2>1, <2>2
<1> QED BY <1>2, <1>3, RunsUntaken

LEMMA StepHeads == IInv2 /\ IInv' /\ [Next]_vars => Heads'
<1> SUFFICES ASSUME IInv2, IInv', [Next]_vars PROVE Heads'
  OBVIOUS
<1>1. MovesForward /\ TypeOK
  BY StepSafe DEF IInv2, Goal, IInv, Inv1
<1>2. ASSUME NEW p \in PR, NEW sha \in Sha, Poll(p, sha)
      PROVE  Heads'
  <2>1. /\ Serving /\ Submit(p, sha, FALSE) /\ UNCHANGED <<up, todo>>
        /\ known'[p] = sha /\ \A q \in PR : q # p => known'[q] = known[q]
    BY <1>1, <1>2 DEF Poll, TypeOK
  <2> QED BY <1>1, <2>1, SubmitHeads
<1>3. ASSUME NEW p \in PR, NEW force \in BOOLEAN, Trigger(p, force)
      PROVE  Heads'
  <2>1. /\ Serving /\ Submit(p, known[p], force) /\ UNCHANGED <<up, todo, known>>
        /\ known[p] \in Sha
    BY <1>1, <1>3 DEF Trigger, TypeOK
  <2> QED BY <1>1, <2>1, SubmitHeads
<1>4. ASSUME NEW i \in DOMAIN runs, Cancel(i)
      PROVE  Heads'
  <2>1. /\ Serving' /\ UNCHANGED <<known, pending>>
        /\ runs' = [runs EXCEPT ![i].state = "cancelled"]
    BY <1>4 DEF Cancel, Serving, SetState
  <2>2. /\ RowsKept /\ runs'[i].state = "cancelled" /\ runs'[i].head = runs[i].head
        /\ \A j \in DOMAIN runs : j # i => runs'[j] = runs[j]
    BY <1>1, <2>1, StateWritten
  <2> QED BY <1>1, <2>1, <2>2, WritesKeepHeads
<1>5. ASSUME NEW w \in Worker, Dispatch(w) \/ DebounceOver(w)
      PROVE  Heads'
  <2>1. Serving' /\ UNCHANGED <<known, runs>>
    BY <1>5 DEF Dispatch, DebounceOver, Serving, stored
  <2>2. \A q \in PR : pending'[q] \in {pending[q], NoRun}
    BY <1>1, <1>5 DEF Dispatch, DebounceOver, TypeOK
  <2>3. RowsKept
    BY <2>1 DEF RowsKept
  <2> QED BY <1>1, <2>1, <2>2, <2>3, WritesKeepHeads
<1>6. ASSUME NEW w \in Worker, TaskStep(w)
      PROVE  Heads'
  <2>1. Serving' /\ UNCHANGED <<known, pending>>
    <3>1. Serving /\ TaskUnchanged
      BY <1>6 DEF TaskStep, Advance, Finish, Fail, Cancelled, Resumes
    <3> QED BY <3>1 DEF TaskUnchanged, Serving
  <2> QED BY <1>1, <1>6, <2>1, TaskWrites, WritesKeepHeads DEF IInv2
<1>7. ASSUME \/ Crash \/ Stop
             \/ \E p \in PR, sha \in Sha :
                   \/ CrashInPoll(p, sha)
                   \/ \E force \in BOOLEAN : CrashInCreate(p, sha, force)
      PROVE  Heads'
  <2>1. ProcessEnds
    BY <1>7 DEF Crash, Stop, CrashInPoll, CrashInCreate
  <2> QED BY <1>1, <1>7, <2>1, EndingHeads
<1>8. CASE Boot \/ \E i \in todo : Requeue(i)
  BY <1>1, <1>8, RecoveryHeads
<1>9. CASE UNCHANGED vars
  <2>1. /\ UNCHANGED <<runs, known, pending, up, todo>>
        /\ RowsKept
    BY <1>9 DEF vars, stored, RowsKept
  <2>2. Linked' /\ OldRunsSuperseded' /\ \A q \in PR : Fresh(q)'
    BY <2>1 DEF IInv2, Heads, Linked, OldRunsSuperseded, Fresh, RunsOf, Serving
  <2> QED BY <2>2 DEF Heads
<1> QED BY <1>2, <1>3, <1>4, <1>5, <1>6, <1>7, <1>8, <1>9 DEF Next

LEMMA InductiveHeads == Spec => []IInv2
<1>1. Init => Heads
  BY DEF Init, Heads, Fresh, Linked, OldRunsSuperseded
<1>2. IInv2 /\ IInv' /\ [Next]_vars => IInv2'
  BY StepHeads DEF IInv2
<1>3. IInv /\ Heads => IInv2
  BY DEF IInv2
<1>4. Init => IInv
  BY InitInv1, InitSafe DEF IInv
<1> QED BY <1>1, <1>2, <1>3, <1>4, Inductive, PTL DEF Spec

\* Whatever heads are pushed, runs forced, refused, cancelled and killed in between,
\* the run of a pending entry is for the head submitted last, as long as it waits.
THEOREM PendingRunHasNewestHead == Spec => []PendingIsFresh
<1>1. IInv2 => PendingIsFresh
  BY DEF IInv2, Heads, Fresh, PendingIsFresh, RunsOf
<1> QED BY <1>1, InductiveHeads, PTL

\* Of two runs of a pull request the older has ended or names a newer one that
\* superseded it, but for what a kill tore, whatever the older one's task, a
\* cancellation or recovery writes to its row later.
THEOREM OlderRunsGiveWay == Spec => []OldRunsSuperseded
<1>1. IInv2 => OldRunsSuperseded
  BY DEF IInv2, Heads
<1> QED BY <1>1, InductiveHeads, PTL
============================================================================
