------------------------- MODULE BrainKeeperProofs -------------------------
(***************************************************************************)
(* No review is lost on its way to the norms, for any history of pull      *)
(* requests and whatever the limits and the page size are; and the norms   *)
(* are what they stand for, whatever was said and however alike texts are. *)
(***************************************************************************)
EXTENDS BrainKeeper, FiniteSetTheorems, SequenceTheorems, TLAPS
LOCAL WF == INSTANCE WellFoundedInduction

\* How many of S are newer than n: where n stands in a list of them, from the newest.
Above(S, n) == Cardinality({m \in S : m > n})

Read(l) == {learner[l].out[i] : i \in DOMAIN learner[l].out}
Settled(n) == n \in passed \/ SameSecond(n)

Controls == {"idle", "begin", "wait", "fetch", "store", "mine", "state"}
Walk == [pc : Controls, force : BOOLEAN, since : Nat, never : BOOLEAN, page : Nat,
         out : Seq(Nat)]

TypeOK ==
    /\ stamp \in Seq(Nat \ {0})
    /\ \A m, n \in DOMAIN stamp : m <= n => stamp[m] <= stamp[n]
    /\ reopened \subseteq Unmerged \cap DOMAIN stamp
    /\ through \in Nat /\ (through = 0 \/ \E n \in DOMAIN stamp : stamp[n] = through)
    /\ learner \in [Learner -> Walk]

\* The lock: one learner at most.
OneLearns == \A l, m \in Learner : Learning(l) /\ Learning(m) => l = m

\* It goes on from where the last harvest came to.
GoesOn(l) ==
    /\ Read(l) \subseteq DOMAIN stamp
    /\ Learning(l) => learner[l].since = through
    /\ ~Learning(l) => learner[l].page = 0 /\ learner[l].out = <<>>

\* What stands where the walk has been was read, or was closed after it began,
\* or slipped past it.
Walked(l) ==
    learner[l].pc = "fetch" =>
        /\ Len(learner[l].out) = PerPage(l) * learner[l].page
        /\ Len(learner[l].out) < Limit(l)
        /\ \A n \in Pulls : Above(Pulls, n) < Len(learner[l].out) =>
             n \in Read(l) \/ n \in passed \/ \A m \in Read(l) : m < n

\* A walk that has ended skipped nothing that is new and no newer than what it read.
NothingSkipped(l) ==
    learner[l].pc \in {"store", "mine", "state"} =>
        \A n \in merged, m \in Read(l) :
            learner[l].since < stamp[n] /\ stamp[n] <= stamp[m] => n \in Read(l) \/ Settled(n)

\* What was read is stored before the norms are mined.
ReadIsStored(l) ==
    learner[l].pc \in {"mine", "state"} =>
        \A n \in merged \cap Read(l) : CommentsOf(n) \subseteq comments

Harvests(l) == GoesOn(l) /\ Walked(l) /\ NothingSkipped(l) /\ ReadIsStored(l)

\* The two halves of the property: up to the harvest, and from the table to the norms.
ReviewsAreStored ==
    \A n \in merged : stamp[n] <= through => CommentsOf(n) \subseteq comments \/ Settled(n)
StoredAreMined ==
    ~unmined /\ (\A l \in Learner : learner[l].pc # "mine") => Kept(comments) \subseteq mined

IInv ==
    /\ TypeOK /\ OneLearns
    /\ \A l \in Learner : Harvests(l)
    /\ ReviewsAreStored /\ StoredAreMined
----------------------------------------------------------------------------
(* Ranks in a list *)

\* Every place in a list of finitely many numbers, from the greatest, is held by one of
\* them, and the greater stand before the smaller.
LEMMA Ranks ==
    ASSUME NEW S, S \subseteq Nat, IsFiniteSet(S)
    PROVE  /\ Cardinality(S) \in Nat
           /\ \A n \in S : Above(S, n) \in 0 .. Cardinality(S) - 1
           /\ \A m, n \in S : m < n => Above(S, n) < Above(S, m)
           /\ \A i \in 1 .. Cardinality(S) : \E n \in S : Above(S, n) = i - 1
<1> DEFINE newer(n) == {m \in S : m > n}
           c == Cardinality(S)
<1>1. c \in Nat
  BY FS_CardinalityType
<1>2. \A n \in S : IsFiniteSet(newer(n)) /\ Cardinality(newer(n)) \in Nat
                   /\ Cardinality(newer(n)) < c
  <2> SUFFICES ASSUME NEW n \in S
               PROVE  /\ IsFiniteSet(newer(n)) /\ Cardinality(newer(n)) \in Nat
                      /\ Cardinality(newer(n)) < c
    OBVIOUS
  <2>1. newer(n) \in SUBSET S /\ newer(n) # S
    BY n \notin newer(n)
  <2> HIDE DEF newer
  <2>2. IsFiniteSet(newer(n)) /\ Cardinality(newer(n)) <= c /\ Cardinality(newer(n)) # c
    BY <2>1, FS_Subset, Zenon
  <2>3. Cardinality(newer(n)) \in Nat
    BY <2>2, FS_CardinalityType
  <2> QED BY <1>1, <2>2, <2>3
<1>3. \A m, n \in S : m < n => Cardinality(newer(n)) < Cardinality(newer(m))
  <2> SUFFICES ASSUME NEW m \in S, NEW n \in S, m < n
               PROVE  Cardinality(newer(n)) < Cardinality(newer(m))
    OBVIOUS
  <2>1. newer(n) \subseteq newer(m) /\ n \in newer(m) /\ n \notin newer(n)
    <3>1. m \in Nat /\ n \in Nat /\ \A k \in S : k \in Nat
      BY S \subseteq Nat
    <3>2. \A k \in S : k > n => k > m
      BY <3>1
    <3>3. n > m /\ ~ (n > n)
      BY <3>1
    <3> QED BY <3>2, <3>3, Zenon
  <2> HIDE DEF newer
  <2>2. newer(n) \in SUBSET newer(m) /\ newer(n) # newer(m)
    BY <2>1
  <2>3. /\ Cardinality(newer(n)) <= Cardinality(newer(m))
        /\ Cardinality(newer(n)) # Cardinality(newer(m))
    BY <1>2, <2>2, FS_Subset, Zenon
  <2> QED BY <1>2, <2>3
<1>4. \A i \in 1 .. c : \E n \in S : Cardinality(newer(n)) = i - 1
  <2> DEFINE places == 0 .. c - 1
             f == [n \in S |-> Cardinality(newer(n))]
  <2>1. IsFiniteSet(places) /\ Cardinality(places) = c
    <3> DEFINE b == c - 1
    <3>1. 0 \in Int /\ b \in Int
      BY <1>1
    <3> HIDE DEF b
    <3>2. IsFiniteSet(0 .. b) /\ Cardinality(0 .. b) = IF 0 > b THEN 0 ELSE b - 0 + 1
      BY <3>1, FS_Interval, Zenon
    <3>3. IF 0 > b THEN 0 = c ELSE b - 0 + 1 = c
      BY <1>1 DEF b
    <3>4. places = 0 .. b
      BY DEF b
    <3> HIDE DEF places
    <3> QED BY <3>2, <3>3, <3>4
  <2>2. f \in Injection(S, places)
    <3>1. f \in [S -> places]
      <4>1. \A n \in S : Cardinality(newer(n)) \in places
        <5> HIDE DEF newer, c
        <5> QED BY <1>1, <1>2
      <4> QED BY <4>1
    <3>2. \A m, n \in S : f[m] = f[n] => m = n
      <4> SUFFICES ASSUME NEW m \in S, NEW n \in S, m # n
                   PROVE  f[m] # f[n]
        OBVIOUS
      <4>1. m \in Nat /\ n \in Nat /\ (m < n \/ n < m)
        BY S \subseteq Nat
      <4>2. f[m] = Cardinality(newer(m)) /\ f[n] = Cardinality(newer(n))
        OBVIOUS
      <4> HIDE DEF newer, f
      <4> QED BY <1>2, <1>3, <4>1, <4>2
    <3> QED BY <3>1, <3>2 DEF Injection, IsInjective
  <2> HIDE DEF f, places
  <2>3. f \in Surjection(S, places)
    BY <2>1, <2>2, FS_Injection, c = Cardinality(S), Zenon
  <2>4. \A i \in places : \E n \in S : f[n] = i
    BY <2>3 DEF Surjection
  <2> USE DEF f, places
  <2>5. \A i \in 1 .. c : i - 1 \in places
    BY <1>1
  <2> QED BY <2>4, <2>5
<1> HIDE DEF newer
<1>5. \A n : Above(S, n) = Cardinality(newer(n))
  BY DEF Above, newer
<1> QED BY <1>1, <1>2, <1>3, <1>4, <1>5

\* One that is newer than all moves the others one place on.
LEMMA RankAfterAdd ==
    ASSUME NEW S, S \subseteq Nat, IsFiniteSet(S), NEW e \in Nat, \A m \in S : m < e,
           NEW n \in S
    PROVE  Above(S \cup {e}, n) = Above(S, n) + 1
<1> DEFINE newer == {m \in S : m > n}
<1>1. {m \in S \cup {e} : m > n} = newer \cup {e} /\ e \notin newer
  OBVIOUS
<1>2. IsFiniteSet(newer)
  <2>1. newer \in SUBSET S
    OBVIOUS
  <2> QED BY <2>1, FS_Subset, Zenon
<1>3. Cardinality(newer \cup {e}) = Cardinality(newer) + 1
  <2> HIDE DEF newer
  <2> QED BY <1>1, <1>2, FS_AddElement, Zenon
<1> QED BY <1>1, <1>3 DEF Above

\* One that goes lets those behind it move up.
LEMMA RankAfterRemoval ==
    ASSUME NEW S, S \subseteq Nat, IsFiniteSet(S), NEW x \in S, NEW n \in S \ {x}
    PROVE  Above(S \ {x}, n) = IF x > n THEN Above(S, n) - 1 ELSE Above(S, n)
<1> DEFINE newer == {m \in S : m > n}
<1>1. {m \in S \ {x} : m > n} = newer \ {x} /\ (x \in newer <=> x > n)
  OBVIOUS
<1>2. IsFiniteSet(newer)
  <2>1. newer \in SUBSET S
    OBVIOUS
  <2> QED BY <2>1, FS_Subset, Zenon
<1>3. Cardinality(newer \ {x}) = IF x \in newer THEN Cardinality(newer) - 1
                                 ELSE Cardinality(newer)
  <2> HIDE DEF newer
  <2> QED BY <1>2, FS_RemoveElement, Zenon
<1> QED BY <1>1, <1>3 DEF Above

\* What GitHub lists: all that are closed, each at its place.
LEMMA Listing ==
    ASSUME TypeOK
    PROVE  /\ Pulls \subseteq DOMAIN stamp /\ DOMAIN stamp = 1 .. Len(stamp)
           /\ Len(stamp) \in Nat /\ Pulls \subseteq Nat /\ IsFiniteSet(Pulls)
           /\ Len(Listed) \in Nat /\ DOMAIN Listed = 1 .. Len(Listed)
           /\ Listed \in Seq(Pulls)
           /\ \A i \in 1 .. Len(Listed) : Listed[i] \in Pulls /\ Above(Pulls, Listed[i]) = i - 1
           /\ \A n \in Pulls : Above(Pulls, n) \in Nat /\ Above(Pulls, n) + 1 \in 1 .. Len(Listed)
                               /\ Listed[Above(Pulls, n) + 1] = n
           /\ \A m, n \in Pulls : m < n => Above(Pulls, n) < Above(Pulls, m)
<1> DEFINE c == Cardinality(Pulls)
<1>1. /\ Pulls \subseteq DOMAIN stamp /\ DOMAIN stamp = 1 .. Len(stamp)
      /\ Len(stamp) \in Nat
  BY LenProperties DEF Pulls, TypeOK
<1>2. Pulls \subseteq Nat /\ IsFiniteSet(Pulls)
  <2>1. IsFiniteSet(1 .. Len(stamp))
    BY <1>1, FS_Interval
  <2>2. Pulls \in SUBSET (1 .. Len(stamp))
    BY <1>1
  <2>3. IsFiniteSet(Pulls)
    BY <2>1, <2>2, FS_Subset, Zenon
  <2> QED BY <1>1, <2>3
<1>3. /\ c \in Nat
      /\ \A n \in Pulls : Above(Pulls, n) \in 0 .. c - 1
      /\ \A m, n \in Pulls : m < n => Above(Pulls, n) < Above(Pulls, m)
      /\ \A i \in 1 .. c : \E n \in Pulls : Above(Pulls, n) = i - 1
  BY <1>2, Ranks, Zenon
<1>4. Listed = [i \in 1 .. c |-> CHOOSE n \in Pulls : Above(Pulls, n) = i - 1]
  BY DEF Listed, Newer, Above
<1>5. \A i \in 1 .. c : Listed[i] \in Pulls /\ Above(Pulls, Listed[i]) = i - 1
  <2> SUFFICES ASSUME NEW i \in 1 .. c
               PROVE  Listed[i] \in Pulls /\ Above(Pulls, Listed[i]) = i - 1
    OBVIOUS
  <2>1. Listed[i] = CHOOSE n \in Pulls : Above(Pulls, n) = i - 1
    BY <1>4
  <2>2. PICK n \in Pulls : Above(Pulls, n) = i - 1
    BY <1>3
  <2> QED BY <2>1, <2>2, Zenon
<1>6. Listed \in [1 .. c -> Pulls]
  <2> HIDE DEF c
  <2> QED BY <1>4, <1>5
<1>7. Listed \in Seq(Pulls) /\ Len(Listed) = c /\ DOMAIN Listed = 1 .. c
  <2> HIDE DEF c
  <2> QED BY <1>3, <1>6, SeqDef, LenProperties
<1>8. \A n \in Pulls : Above(Pulls, n) + 1 \in 1 .. c /\ Listed[Above(Pulls, n) + 1] = n
  <2> SUFFICES ASSUME NEW n \in Pulls
               PROVE  Above(Pulls, n) + 1 \in 1 .. c /\ Listed[Above(Pulls, n) + 1] = n
    OBVIOUS
  <2> DEFINE m == Listed[Above(Pulls, n) + 1]
  <2>1. Above(Pulls, n) + 1 \in 1 .. c
    BY <1>3
  <2>2. m \in Pulls /\ Above(Pulls, m) = Above(Pulls, n)
    BY <1>3, <1>5, <2>1
  <2>3. n \in Nat /\ m \in Nat
    BY <1>2, <2>2
  <2> HIDE DEF m
  <2>4. m = n
    BY <1>3, <2>2, <2>3
  <2> QED BY <2>1, <2>4 DEF m
<1> HIDE DEF c
<1> QED BY <1>1, <1>2, <1>3, <1>5, <1>7, <1>8
----------------------------------------------------------------------------
(* The learners *)

\* One that is not at work has nothing to account for.
LEMMA AtRest ==
    ASSUME NEW l, ~Learning(l), learner[l].page = 0, learner[l].out = <<>>
    PROVE  Harvests(l)
<1>1. Read(l) = {}
  BY EmptySeq DEF Read
<1> QED BY <1>1 DEF Harvests, GoesOn, Walked, NothingSkipped, ReadIsStored, Learning

\* Nor has it in the next state.
LEMMA AtRestNext ==
    ASSUME NEW l, ~Learning(l)', learner'[l].page = 0, learner'[l].out = <<>>
    PROVE  Harvests(l)'
<1>1. Read(l)' = {}
  BY EmptySeq DEF Read
<1> QED BY <1>1 DEF Harvests, GoesOn, Walked, NothingSkipped, ReadIsStored, Learning

\* While GitHub stands still, one that does nothing keeps its promises.
LEMMA OneWaits ==
    ASSUME NEW l, Harvests(l), learner'[l] = learner[l],
           UNCHANGED github, passed \subseteq passed', comments \subseteq comments',
           through' = through \/ ~Learning(l)
    PROVE  Harvests(l)'
<1>1. /\ stamp' = stamp /\ Pulls' = Pulls /\ merged' = merged /\ Read(l)' = Read(l)
      /\ Limit(l)' = Limit(l) /\ PerPage(l)' = PerPage(l) /\ Learning(l)' = Learning(l)
  BY DEF github, Pulls, merged, Read, Limit, PerPage, Learning
<1>2. \A n : Settled(n) => Settled(n)'
  BY <1>1 DEF Settled, SameSecond
<1>3. GoesOn(l)'
  BY <1>1 DEF Harvests, GoesOn
<1>4. Walked(l)'
  BY <1>1 DEF Harvests, Walked
<1>5. NothingSkipped(l)'
  BY <1>1, <1>2 DEF Harvests, NothingSkipped
<1>6. ReadIsStored(l)'
  BY <1>1 DEF Harvests, ReadIsStored
<1> QED BY <1>3, <1>4, <1>5, <1>6 DEF Harvests

\* A step of one learner, while GitHub stands still.
LEMMA OneMoves ==
    ASSUME IInv, UNCHANGED github, passed \subseteq passed', comments \subseteq comments',
           NEW l \in Learner, NEW w \in Walk, learner' = [learner EXCEPT ![l] = w],
           through' = through \/ Learning(l),
           Learning(l)' => Learning(l) \/ \A m \in Learner : ~Learning(m),
           Harvests(l)'
    PROVE  /\ learner' \in [Learner -> Walk]
           /\ OneLearns'
           /\ \A m \in Learner : Harvests(m)'
<1>1. learner \in [Learner -> Walk]
  BY DEF IInv, TypeOK
<1>2. learner' \in [Learner -> Walk] /\ \A m \in Learner \ {l} : learner'[m] = learner[m]
  BY <1>1
<1>3. \A m \in Learner \ {l} : Learning(m)' = Learning(m)
  BY <1>2 DEF Learning
<1>4. OneLearns'
  BY <1>3 DEF IInv, OneLearns
<1>5. ASSUME NEW m \in Learner \ {l} PROVE Harvests(m)'
  <2>1. Harvests(m) /\ (through' = through \/ ~Learning(m))
    BY DEF IInv, OneLearns
  <2> QED BY <1>2, <2>1, OneWaits
<1> QED BY <1>2, <1>4, <1>5

\* What is stored stays so while GitHub stands still and the harvest goes no further.
LEMMA StaysStored ==
    ASSUME ReviewsAreStored, UNCHANGED github, through' = through,
           passed \subseteq passed', comments \subseteq comments'
    PROVE  ReviewsAreStored'
<1>1. stamp' = stamp /\ merged' = merged
  BY DEF github, merged
<1>2. \A n : Settled(n) => Settled(n)'
  BY <1>1 DEF Settled, SameSecond
<1> QED BY <1>1, <1>2 DEF ReviewsAreStored

\* The types that only concern GitHub and the harvest.
LEMMA StaysTyped ==
    ASSUME TypeOK, UNCHANGED github, through' = through, learner' \in [Learner -> Walk]
    PROVE  TypeOK'
BY DEF TypeOK, github
----------------------------------------------------------------------------
(* GitHub *)

\* A pull request that is closed stands before every other, however far the list was read.
LEMMA CloseKeeps ==
    ASSUME IInv, Close
    PROVE  IInv'
<1> DEFINE n == Len(stamp)
<1>1. /\ stamp \in Seq(Nat \ {0}) /\ n \in Nat /\ DOMAIN stamp = 1 .. n
      /\ \A m \in 1 .. n : stamp[m] \in Nat \ {0}
  <2>1. stamp \in Seq(Nat \ {0})
    BY DEF IInv, TypeOK
  <2> QED BY <2>1, LenProperties, ElementOfSeq
<1>2. PICK s \in Nat \ {0} : stamp' = Append(stamp, s) /\ \A m \in 1 .. n : stamp[m] <= s
  <2>1. PICK s \in IF n = 0 THEN {1} ELSE IF n + 1 \in Ties THEN {stamp[n], stamp[n] + 1}
                   ELSE {stamp[n] + 1} : stamp' = Append(stamp, s)
    BY DEF Close
  <2>2. CASE n = 0
    BY <1>1, <2>1, <2>2
  <2>3. CASE n # 0
    <3>1. n \in 1 .. n /\ stamp[n] \in Nat \ {0}
      BY <1>1, <2>3
    <3>2. \A m \in 1 .. n : stamp[m] <= stamp[n]
      BY <1>1, <3>1 DEF IInv, TypeOK
    <3>3. s = stamp[n] \/ s = stamp[n] + 1
      BY <2>1, <2>3
    <3> QED BY <1>1, <2>1, <3>1, <3>2, <3>3
  <2> QED BY <2>2, <2>3
<1>3. /\ UNCHANGED <<reopened, tables, learner, passed, unmined>>
      /\ UNCHANGED <<comments, mined, through>>
  BY DEF Close, tables
<1>4. /\ stamp' \in Seq(Nat \ {0}) /\ DOMAIN stamp' = 1 .. n + 1
      /\ \A m \in 1 .. n : stamp'[m] = stamp[m]
      /\ stamp'[n + 1] = s
  <2>1. /\ stamp' \in Seq(Nat \ {0}) /\ Len(stamp') = n + 1
        /\ \A m \in 1 .. n : stamp'[m] = stamp[m]
        /\ stamp'[n + 1] = s
    BY <1>1, <1>2, AppendProperties
  <2> QED BY <2>1, LenProperties
<1> HIDE DEF n
<1>5. /\ Pulls' = Pulls \cup {n + 1} /\ \A m \in Pulls : m < n + 1
      /\ merged' \subseteq merged \cup {n + 1}
      /\ merged \subseteq 1 .. n
  <2>1. reopened \subseteq 1 .. n
    BY <1>1 DEF IInv, TypeOK
  <2>2. 1 .. n + 1 = (1 .. n) \cup {n + 1} /\ n + 1 \notin 1 .. n
    BY <1>1
  <2> QED BY <1>1, <1>3, <1>4, <2>1, <2>2 DEF Pulls, merged
<1>6. \A m : Settled(m) => Settled(m)'
  BY <1>1, <1>3, <1>4 DEF Settled, SameSecond
<1>7. TypeOK'
  <2>1. \A k, m \in 1 .. n + 1 : k <= m => stamp'[k] <= stamp'[m]
    <3> SUFFICES ASSUME NEW k \in 1 .. n + 1, NEW m \in 1 .. n + 1, k <= m
                 PROVE  stamp'[k] <= stamp'[m]
      OBVIOUS
    <3>1. CASE m \in 1 .. n
      <4>1. k \in 1 .. n
        BY <1>1, <3>1
      <4>2. stamp[k] <= stamp[m]
        BY <1>1, <3>1, <4>1 DEF IInv, TypeOK
      <4> QED BY <1>4, <3>1, <4>1, <4>2
    <3>2. CASE m \notin 1 .. n
      BY <1>1, <1>2, <1>4, <3>2
    <3> QED BY <3>1, <3>2
  <2>2. reopened' \subseteq Unmerged \cap DOMAIN stamp'
    BY <1>1, <1>3, <1>4 DEF IInv, TypeOK
  <2>3. through' = 0 \/ \E m \in DOMAIN stamp' : stamp'[m] = through'
    BY <1>1, <1>3, <1>4 DEF IInv, TypeOK
  <2> QED BY <1>3, <1>4, <2>1, <2>2, <2>3 DEF IInv, TypeOK
<1>8. ASSUME NEW l \in Learner PROVE Harvests(l)'
  <2>1. /\ Harvests(l) /\ Read(l)' = Read(l) /\ learner'[l] = learner[l]
        /\ Limit(l)' = Limit(l) /\ PerPage(l)' = PerPage(l) /\ Learning(l)' = Learning(l)
    BY <1>3 DEF IInv, Read, Limit, PerPage, Learning
  <2>2. Read(l) \subseteq 1 .. n
    BY <1>1, <2>1 DEF Harvests, GoesOn
  <2>3. GoesOn(l)'
    BY <1>1, <1>3, <1>4, <2>1, <2>2 DEF Harvests, GoesOn
  <2>4. Walked(l)'
    <3> SUFFICES ASSUME learner[l].pc = "fetch", NEW m \in Pulls',
                        Above(Pulls', m) < Len(learner[l].out)
                 PROVE  m \in Read(l) \/ m \in passed \/ \A r \in Read(l) : r < m
      BY <1>3, <2>1 DEF Harvests, Walked
    <3>1. CASE m = n + 1
      BY <1>1, <2>2, <3>1
    <3>2. CASE m \in Pulls
      <4>1. /\ Pulls \subseteq Nat /\ IsFiniteSet(Pulls) /\ Above(Pulls, m) \in Nat
        BY <3>2, Listing DEF IInv
      <4>2. Above(Pulls', m) = Above(Pulls, m) + 1
        <5> DEFINE e == n + 1
        <5>1. e \in Nat /\ Pulls' = Pulls \cup {e} /\ \A k \in Pulls : k < e
          BY <1>1, <1>5
        <5> HIDE DEF e
        <5> QED BY <3>2, <4>1, <5>1, RankAfterAdd
      <4>3. Len(learner[l].out) \in Nat
        BY LenProperties DEF IInv, TypeOK, Walk
      <4>4. Above(Pulls, m) < Len(learner[l].out)
        BY <4>1, <4>2, <4>3
      <4> QED BY <2>1, <3>2, <4>4 DEF Harvests, Walked
    <3> QED BY <1>5, <3>1, <3>2
  <2>5. NothingSkipped(l)'
    <3> SUFFICES ASSUME learner[l].pc \in {"store", "mine", "state"}, NEW m \in merged',
                        NEW r \in Read(l), learner[l].since < stamp'[m], stamp'[m] <= stamp'[r]
                 PROVE  m \in Read(l) \/ Settled(m)'
      BY <2>1 DEF NothingSkipped
    <3>1. stamp'[r] = stamp[r] /\ r \in 1 .. n
      BY <1>4, <2>2
    <3>2. CASE m = n + 1
      <4>1. stamp'[m] = s /\ stamp[r] <= s /\ stamp[r] \in Nat
        BY <1>1, <1>2, <1>4, <3>1, <3>2
      <4>2. stamp'[r] = stamp'[m] /\ r # m
        BY <1>1, <3>1, <3>2, <4>1
      <4>3. m \in DOMAIN stamp' /\ r \in DOMAIN stamp'
        BY <1>1, <1>4, <3>1, <3>2
      <4>4. SameSecond(m)'
        BY <4>2, <4>3 DEF SameSecond
      <4> QED BY <4>4 DEF Settled
    <3>3. CASE m \in merged
      <4>1. stamp'[m] = stamp[m]
        BY <1>4, <1>5, <3>3
      <4>2. m \in Read(l) \/ Settled(m)
        BY <2>1, <3>1, <3>3, <4>1 DEF Harvests, NothingSkipped
      <4> QED BY <1>6, <4>2
    <3> QED BY <1>5, <3>2, <3>3
  <2>6. ReadIsStored(l)'
    <3>1. \A m \in merged' \cap Read(l) : m \in merged \cap Read(l)
      BY <1>1, <1>5, <2>2
    <3> QED BY <1>3, <2>1, <3>1 DEF Harvests, ReadIsStored
  <2> QED BY <2>3, <2>4, <2>5, <2>6 DEF Harvests
<1>9. OneLearns'
  BY <1>3 DEF IInv, OneLearns, Learning
<1>10. ReviewsAreStored'
  <2> SUFFICES ASSUME NEW m \in merged', stamp'[m] <= through
               PROVE  CommentsOf(m) \subseteq comments \/ Settled(m)'
    BY <1>3 DEF ReviewsAreStored
  <2>1. CASE m = n + 1
    <3>1. s <= through /\ through \in Nat /\ through # 0
      BY <1>4, <2>1 DEF IInv, TypeOK
    <3>2. PICK r \in 1 .. n : stamp[r] = through
      BY <1>1, <3>1 DEF IInv, TypeOK
    <3>3. stamp'[r] = stamp'[m] /\ r # m
      BY <1>1, <1>2, <1>4, <2>1, <3>1, <3>2
    <3> QED BY <1>1, <1>4, <2>1, <3>2, <3>3 DEF Settled, SameSecond
  <2>2. CASE m \in merged
    <3>1. stamp'[m] = stamp[m]
      BY <1>4, <1>5, <2>2
    <3> QED BY <1>6, <2>2, <3>1 DEF IInv, ReviewsAreStored
  <2> QED BY <1>5, <2>1, <2>2
<1>11. StoredAreMined'
  BY <1>3 DEF IInv, StoredAreMined, Kept
<1> QED BY <1>7, <1>8, <1>9, <1>10, <1>11 DEF IInv

\* One that is reopened leaves the list: what a walk has not read moves up, and at most one
\* pull request moves past it unread, which the history remembers.
LEMMA ReopenKeeps ==
    ASSUME IInv, NEW n \in Unmerged, Reopen(n)
    PROVE  IInv'
<1>1. /\ n \in Pulls /\ reopened' = reopened \cup {n} /\ passed \subseteq passed'
      /\ UNCHANGED <<stamp, learner, comments, mined, through, unmined>>
  BY DEF Reopen, tables
<1>2. Pulls' = Pulls \ {n} /\ merged' = merged
  BY <1>1 DEF Pulls, merged
<1>3. \A m : Settled(m) => Settled(m)'
  BY <1>1 DEF Settled, SameSecond
<1>4. TypeOK'
  BY <1>1 DEF IInv, TypeOK, Pulls
<1>5. ASSUME NEW l \in Learner PROVE Harvests(l)'
  <2>1. /\ Harvests(l) /\ Read(l)' = Read(l) /\ learner'[l] = learner[l]
        /\ Limit(l)' = Limit(l) /\ PerPage(l)' = PerPage(l) /\ Learning(l)' = Learning(l)
    BY <1>1 DEF IInv, Read, Limit, PerPage, Learning
  <2>2. GoesOn(l)'
    BY <1>1, <2>1 DEF Harvests, GoesOn
  <2>3. Walked(l)'
    <3> SUFFICES ASSUME learner[l].pc = "fetch", NEW m \in Pulls \ {n},
                        Above(Pulls \ {n}, m) < Len(learner[l].out)
                 PROVE  m \in Read(l) \/ m \in passed' \/ \A r \in Read(l) : r < m
      BY <1>2, <2>1 DEF Harvests, Walked
    <3> DEFINE read == PerPage(l) * learner[l].page
    <3>1. Len(learner[l].out) = read /\ read \in Nat
      BY <2>1, LenProperties DEF Harvests, Walked, IInv, TypeOK, Walk
    <3>2. passed' = passed \cup UNION {LET read_1 == PerPage(k) * learner[k].page IN
             IF learner[k].pc = "fetch" /\ Len(Listed) > read_1
                /\ n \in {Listed[i] : i \in 1 .. read_1}
             THEN {Listed[read_1 + 1]} ELSE {} : k \in Learner}
      BY DEF Reopen
    <3>3. Len(Listed) > read /\ n \in {Listed[i] : i \in 1 .. read}
             => Listed[read + 1] \in passed'
      BY <3>2
    <3> HIDE DEF read
    <3>4. /\ Pulls \subseteq Nat /\ IsFiniteSet(Pulls) /\ Len(Listed) \in Nat
          /\ \A k \in Pulls : Above(Pulls, k) \in Nat /\ Above(Pulls, k) + 1 \in 1 .. Len(Listed)
                              /\ Listed[Above(Pulls, k) + 1] = k
          /\ \A j, k \in Pulls : j < k => Above(Pulls, k) < Above(Pulls, j)
      BY Listing DEF IInv
    <3>5. Above(Pulls \ {n}, m) = IF n > m THEN Above(Pulls, m) - 1 ELSE Above(Pulls, m)
      <4>1. n \in Pulls /\ m \in Pulls /\ Pulls \subseteq Nat /\ IsFiniteSet(Pulls)
        BY <1>1, <3>4
      <4> QED BY <4>1, RankAfterRemoval
    <3>6. CASE Above(Pulls, m) < Len(learner[l].out)
      BY <1>1, <2>1, <3>6 DEF Harvests, Walked
    <3>7. CASE ~(Above(Pulls, m) < Len(learner[l].out))
      <4>1. n > m /\ Above(Pulls, m) = read
        BY <3>1, <3>4, <3>5, <3>7
      <4>2. Above(Pulls, n) < read
        BY <1>1, <3>4, <4>1
      <4>3. Listed[read + 1] = m /\ Len(Listed) > read
        BY <3>1, <3>4, <4>1
      <4>4. Above(Pulls, n) + 1 \in 1 .. read /\ Listed[Above(Pulls, n) + 1] = n
        BY <1>1, <3>1, <3>4, <4>2
      <4>5. n \in {Listed[i] : i \in 1 .. read}
        BY <4>4
      <4> QED BY <3>3, <4>3, <4>5
    <3> QED BY <3>6, <3>7
  <2>4. NothingSkipped(l)'
    BY <1>1, <1>2, <1>3, <2>1 DEF Harvests, NothingSkipped
  <2>5. ReadIsStored(l)'
    BY <1>1, <1>2, <2>1 DEF Harvests, ReadIsStored
  <2> QED BY <2>2, <2>3, <2>4, <2>5 DEF Harvests
<1>6. OneLearns'
  BY <1>1 DEF IInv, OneLearns, Learning
<1>7. ReviewsAreStored'
  BY <1>1, <1>2, <1>3 DEF IInv, ReviewsAreStored
<1>8. StoredAreMined'
  BY <1>1 DEF IInv, StoredAreMined, Kept
<1> QED BY <1>4, <1>5, <1>6, <1>7, <1>8 DEF IInv
----------------------------------------------------------------------------
(* The walk *)

\* Numbers that satisfy something, if any, have a least.
LEMMA Least ==
    ASSUME NEW S, S \subseteq Nat, S # {}
    PROVE  \E i \in S : \A j \in S : i <= j
<1> DEFINE less == WF!OpToRel(<, Nat)
<1>1. WF!IsWellFoundedOn(less, Nat)
  BY WF!NatLessThanWellFounded
<1>2. PICK x \in S : \A y \in S : ~ (<<y, x>> \in less)
  <2> HIDE DEF less
  <2> QED BY <1>1, WF!WFMin
<1>3. ASSUME NEW y \in S, y < x PROVE FALSE
  <2>1. <<y, x>> \in less
    BY <1>3 DEF WF!OpToRel
  <2> QED BY <1>2, <2>1
<1>4. \A y \in S : x <= y
  <2> SUFFICES ASSUME NEW y \in S PROVE x <= y
    OBVIOUS
  <2>1. x \in Nat /\ y \in Nat
    OBVIOUS
  <2> QED BY <1>3, <2>1
<1> QED BY <1>4

\* A step of the walk that has now read to place e of the list, where it may have met
\* one that is known, and may go on to another page.
ReadTo(l, e, known, more) ==
    LET k == learner[l]
        d == Len(k.out)
        w == learner'[l]
        len == Len(Listed)
        per == PerPage(l)
    IN  /\ d <= e /\ e <= d + per /\ (d < e => e <= len)
        /\ ~known => e >= d + per \/ e >= len
        /\ known => e < len /\ stamp[Listed[e + 1]] <= k.since
        /\ more <=> ~known /\ e = d + per /\ e < Limit(l)
        /\ w.out \in Seq(Nat)
        /\ Len(w.out) = IF e > Limit(l) THEN Limit(l) ELSE e
        /\ \A j \in 1 .. Len(w.out) : w.out[j] = IF j <= d THEN k.out[j] ELSE Listed[j]
        /\ w = [k EXCEPT !.pc = IF more THEN "fetch" ELSE "store",
                         !.page = IF more THEN k.page + 1 ELSE 0, !.out = w.out]
        /\ learner' = [learner EXCEPT ![l] = w]
        /\ passed' = IF more THEN passed
                     ELSE passed \cup {n \in {Listed[i] : i \in Limit(l) + 1 .. len} :
                                        stamp[n] > k.since}

\* A page goes on from what was read, down the list, to the first one read before.
LEMMA OnePage ==
    ASSUME IInv, NEW l \in Learner, FetchPage(l)
    PROVE  \E e \in Nat, known \in BOOLEAN, more \in BOOLEAN : ReadTo(l, e, known, more)
<1> DEFINE k == learner[l]
           per == PerPage(l)
           d == Len(k.out)
           len == Len(Listed)
           high == IF per * (k.page + 1) < Len(Listed) THEN per * (k.page + 1)
                   ELSE Len(Listed)
           batch == SubSeq(Listed, per * k.page + 1, high)
           known == {i \in DOMAIN batch : stamp[batch[i]] <= k.since}
           first == CHOOSE i \in known : \A j \in known : i <= j
           new == IF known = {} THEN batch ELSE SubSeq(batch, 1, first - 1)
           out == k.out \o new
           more == known = {} /\ Len(batch) = per /\ Len(out) < Limit(l)
           final == IF Len(out) > Limit(l) THEN SubSeq(out, 1, Limit(l)) ELSE out
<1>1. /\ k.pc = "fetch"
      /\ learner' = [learner EXCEPT ![l].pc = IF more THEN "fetch" ELSE "store",
                                    ![l].page = IF more THEN @ + 1 ELSE 0,
                                    ![l].out = final]
      /\ passed' = IF more THEN passed
                   ELSE passed \cup {n \in {Listed[i] : i \in Limit(l) + 1 .. Len(Listed)} :
                                      stamp[n] > k.since}
  BY Zenon DEF FetchPage
<1>2. /\ k \in Walk /\ k.out \in Seq(Nat) /\ d \in Nat /\ k.page \in Nat /\ k.since \in Nat
      /\ learner \in [Learner -> Walk]
  BY LenProperties DEF IInv, TypeOK, Walk
<1>3. Limit(l) \in Nat \ {0} /\ per \in Nat \ {0}
  BY BrainKeeperAssumption DEF Limit, PerPage
<1>4. d = per * k.page /\ d < Limit(l) /\ per * (k.page + 1) = d + per
  <2>1. d = per * k.page /\ d < Limit(l)
    BY <1>1 DEF IInv, Harvests, Walked
  <2>2. per * (k.page + 1) = per * k.page + per
    BY <1>2, <1>3
  <2> QED BY <2>1, <2>2
<1>5. len \in Nat /\ DOMAIN Listed = 1 .. len /\ \A i \in 1 .. len : Listed[i] \in Nat
  BY Listing DEF IInv
<1>6. /\ batch \in Seq(Nat)
      /\ Len(batch) = IF d + per <= len THEN per ELSE IF d <= len THEN len - d ELSE 0
      /\ \A i \in 1 .. Len(batch) : batch[i] = Listed[d + i]
  <2>1. batch = SubSeq(Listed, d + 1, high)
    BY <1>4
  <2>2. high = (IF d + per < len THEN d + per ELSE len) /\ high \in Nat
    BY <1>2, <1>3, <1>4, <1>5
  <2> HIDE DEF batch, high
  <2>3. \A i \in d + 1 .. high : Listed[i] \in Nat
    <3> HIDE DEF d, len, per, k
    <3> QED BY <1>2, <1>3, <1>5, <2>2
  <2>4. /\ batch \in Seq(Nat)
        /\ Len(batch) = IF d + 1 <= high THEN high - (d + 1) + 1 ELSE 0
        /\ \A i \in 1 .. high - (d + 1) + 1 : batch[i] = Listed[(d + 1) + i - 1]
    <3>1. d + 1 \in Int /\ high \in Int
      BY <1>2, <2>2
    <3> HIDE DEF d
    <3> QED BY <2>1, <2>3, <3>1, SubSeqProperties
  <2> HIDE DEF d, len, per, k
  <2> DEFINE b == Len(batch)
  <2>5. d \in Nat /\ per \in Nat \ {0} /\ len \in Nat
    BY <1>2, <1>3, <1>5
  <2>6. b = IF d + 1 <= high THEN high - d ELSE 0
    BY <2>2, <2>4, <2>5
  <2>7. b = IF d + per <= len THEN per ELSE IF d <= len THEN len - d ELSE 0
    <3> HIDE DEF b
    <3> QED BY <2>2, <2>5, <2>6
  <2>8. \A i \in 1 .. b : batch[i] = Listed[d + i]
    <3> SUFFICES ASSUME NEW i \in 1 .. b PROVE batch[i] = Listed[d + i]
      OBVIOUS
    <3>1. i \in 1 .. high - (d + 1) + 1 /\ (d + 1) + i - 1 = d + i
      <4> HIDE DEF b
      <4> QED BY <2>2, <2>5, <2>6
    <3> QED BY <2>4, <3>1
  <2> QED BY <2>4, <2>7, <2>8
<1> HIDE DEF batch
<1>7. /\ DOMAIN batch = 1 .. Len(batch) /\ Len(batch) \in Nat
  BY <1>6, LenProperties
<1>8. ASSUME known # {}
      PROVE  first \in known
  <2>1. known \subseteq Nat
    BY <1>7
  <2>2. \E i \in known : \A j \in known : i <= j
    <3> HIDE DEF known
    <3> QED BY <1>8, <2>1, Least
  <2> HIDE DEF known
  <2> QED BY <2>2
<1>9. /\ new \in Seq(Nat) /\ Len(new) \in Nat /\ Len(new) <= Len(batch)
      /\ \A i \in 1 .. Len(new) : new[i] = batch[i]
      /\ known = {} => Len(new) = Len(batch)
      /\ known # {} => Len(new) + 1 <= Len(batch) /\ stamp[batch[Len(new) + 1]] <= k.since
  <2>1. CASE known = {}
    <3> HIDE DEF known
    <3> QED BY <1>6, <1>7, <2>1
  <2>2. CASE known # {}
    <3>1. first \in 1 .. Len(batch) /\ stamp[batch[first]] <= k.since
      BY <1>7, <1>8, <2>2
    <3>2. new = SubSeq(batch, 1, first - 1)
      BY <2>2
    <3> HIDE DEF first, new, known
    <3>3. \A i \in 1 .. first - 1 : batch[i] \in Nat
      <4> SUFFICES ASSUME NEW i \in 1 .. first - 1 PROVE batch[i] \in Nat
        OBVIOUS
      <4>1. i \in 1 .. Len(batch)
        BY <1>7, <3>1
      <4> QED BY <1>6, <4>1, ElementOfSeq
    <3>4. 1 \in Int /\ first - 1 \in Int
      BY <1>7, <3>1
    <3>5. /\ new \in Seq(Nat)
          /\ Len(new) = IF 1 <= first - 1 THEN first - 1 - 1 + 1 ELSE 0
          /\ \A i \in 1 .. first - 1 - 1 + 1 : new[i] = batch[1 + i - 1]
      <4> DEFINE f == first - 1
      <4> HIDE DEF f
      <4>1. f \in Int /\ \A i \in 1 .. f : batch[i] \in Nat
        BY <3>3, <3>4 DEF f
      <4>2. /\ SubSeq(batch, 1, f) \in Seq(Nat)
            /\ Len(SubSeq(batch, 1, f)) = IF 1 <= f THEN f - 1 + 1 ELSE 0
            /\ \A i \in 1 .. f - 1 + 1 : SubSeq(batch, 1, f)[i] = batch[1 + i - 1]
        BY <3>4, <4>1, SubSeqProperties
      <4> QED BY <3>2, <4>2 DEF f
    <3> QED BY <1>7, <2>2, <3>1, <3>5
  <2> QED BY <2>1, <2>2
<1> DEFINE e == d + Len(new)
<1>10. e \in Nat /\ Len(out) = e /\ out \in Seq(Nat)
       /\ \A j \in 1 .. e : out[j] = IF j <= d THEN k.out[j] ELSE Listed[j]
  <2> HIDE DEF new, k, len
  <2>1. /\ out \in Seq(Nat) /\ Len(out) = d + Len(new)
        /\ \A j \in 1 .. d + Len(new) : out[j] = IF j <= d THEN k.out[j] ELSE new[j - d]
    BY <1>2, <1>9, ConcatProperties
  <2>2. \A j \in 1 .. e : ~(j <= d) => new[j - d] = Listed[j]
    <3> SUFFICES ASSUME NEW j \in 1 .. e, ~(j <= d) PROVE new[j - d] = Listed[j]
      OBVIOUS
    <3> HIDE DEF d
    <3>1. j - d \in 1 .. Len(new) /\ j - d \in 1 .. Len(batch) /\ d + (j - d) = j
      BY <1>2, <1>7, <1>9 DEF e
    <3> QED BY <1>6, <1>9, <3>1
  <2> HIDE DEF d, out
  <2>3. e = d + Len(new) /\ e \in Nat
    BY <1>2, <1>9 DEF e
  <2> QED BY <2>1, <2>2, <2>3
<1>11. /\ d <= e /\ e <= d + per /\ (d < e => e <= len)
       /\ known = {} => e >= d + per \/ e >= len
       /\ known # {} => e < len /\ stamp[Listed[e + 1]] <= k.since
       /\ more <=> known = {} /\ e = d + per /\ e < Limit(l)
  <2> DEFINE b == Len(batch)
             g == Len(new)
  <2>1. /\ b \in Nat /\ g \in Nat /\ g <= b /\ (known = {} => g = b)
        /\ known # {} => g + 1 <= b /\ stamp[batch[g + 1]] <= k.since
    BY <1>7, <1>9
  <2>2. b = IF d + per <= len THEN per ELSE IF d <= len THEN len - d ELSE 0
    BY <1>6
  <2>3. known # {} => batch[g + 1] = Listed[d + (g + 1)]
    <3> HIDE DEF known, new
    <3>1. known # {} => g + 1 \in 1 .. b
      BY <2>1
    <3> QED BY <1>6, <3>1
  <2>4. e = d + g /\ (more <=> known = {} /\ b = per /\ e < Limit(l))
    BY <1>10
  <2>5. d + (g + 1) = e + 1
    <3> HIDE DEF d, g, new, e, known, more
    <3> QED BY <1>2, <2>1, <2>4
  <2>6. known # {} => stamp[Listed[e + 1]] <= k.since
    BY <2>1, <2>3, <2>5
  <2> HIDE DEF known, new, more, e, d, len, per, b, g, k
  <2> QED BY <1>2, <1>3, <1>5, <2>1, <2>2, <2>4, <2>6
<1>12. /\ final \in Seq(Nat) /\ Len(final) = IF e > Limit(l) THEN Limit(l) ELSE e
       /\ \A j \in 1 .. Len(final) : final[j] = IF j <= d THEN k.out[j] ELSE Listed[j]
  <2> DEFINE cut == Limit(l)
  <2>1. Limit(l) = cut /\ cut \in Nat \ {0}
    BY <1>3
  <2> HIDE DEF cut, out, e, d, k
  <2>2. CASE e > cut
    <3>1. final = SubSeq(out, 1, cut)
      BY <1>10, <2>1, <2>2
    <3>2. \A j \in 1 .. cut : out[j] \in Nat
      BY <1>10, <2>1, <2>2, ElementOfSeq
    <3>3. /\ SubSeq(out, 1, cut) \in Seq(Nat)
          /\ Len(SubSeq(out, 1, cut)) = IF 1 <= cut THEN cut - 1 + 1 ELSE 0
          /\ \A j \in 1 .. cut - 1 + 1 : SubSeq(out, 1, cut)[j] = out[1 + j - 1]
      <4>1. 1 \in Int /\ cut \in Int
        BY <2>1
      <4> QED BY <3>2, <4>1, SubSeqProperties
    <3> HIDE DEF final
    <3> QED BY <1>10, <2>1, <2>2, <3>1, <3>3
  <2>3. CASE ~(e > cut)
    <3>1. final = out
      BY <1>10, <2>1, <2>3
    <3> QED BY <1>10, <2>1, <2>3, <3>1
  <2> QED BY <2>2, <2>3
<1> HIDE DEF final, more, known, e
<1>13. /\ learner'[l] = [k EXCEPT !.pc = IF more THEN "fetch" ELSE "store",
                                  !.page = IF more THEN k.page + 1 ELSE 0, !.out = final]
       /\ learner'[l].out = final
       /\ learner' = [learner EXCEPT ![l] = learner'[l]]
  BY <1>1, <1>2 DEF Walk
<1>14. ReadTo(l, e, known # {}, more)
  <2> HIDE DEF k, per
  <2> QED BY <1>1, <1>11, <1>12, <1>13 DEF ReadTo, k, per
<1>15. (known # {}) \in BOOLEAN /\ more \in BOOLEAN
  BY DEF more
<1> QED BY <1>10, <1>14, <1>15

\* After a page the walk has read down to its place, or ends where it met one it knew, at the
\* end of the list or at its limit, which the history remembers.
LEMMA FetchPageKeeps ==
    ASSUME IInv, NEW l \in Learner, FetchPage(l)
    PROVE  IInv'
<1>1. PICK e \in Nat, known \in BOOLEAN, more \in BOOLEAN : ReadTo(l, e, known, more)
  BY OnePage
<1> DEFINE k == learner[l]
           d == Len(k.out)
           w == learner'[l]
           len == Len(Listed)
           per == PerPage(l)
           limit == Limit(l)
<1>2. /\ d <= e /\ e <= d + per /\ (d < e => e <= len)
      /\ ~known => e >= d + per \/ e >= len
      /\ known => e < len /\ stamp[Listed[e + 1]] <= k.since
      /\ more <=> ~known /\ e = d + per /\ e < limit
      /\ w.out \in Seq(Nat)
      /\ Len(w.out) = IF e > limit THEN limit ELSE e
      /\ \A j \in 1 .. Len(w.out) : w.out[j] = IF j <= d THEN k.out[j] ELSE Listed[j]
      /\ w = [k EXCEPT !.pc = IF more THEN "fetch" ELSE "store",
                       !.page = IF more THEN k.page + 1 ELSE 0, !.out = w.out]
      /\ learner' = [learner EXCEPT ![l] = w]
      /\ passed' = IF more THEN passed
                   ELSE passed \cup {n \in {Listed[i] : i \in limit + 1 .. len} :
                                      stamp[n] > k.since}
  BY <1>1 DEF ReadTo
<1>3. /\ k.pc = "fetch" /\ UNCHANGED <<github, tables, unmined, events>>
  BY Zenon DEF FetchPage
<1>4. /\ UNCHANGED <<stamp, reopened, comments, mined, through, unmined>>
      /\ Pulls' = Pulls /\ merged' = merged
  BY <1>3 DEF github, tables, Pulls, merged
<1>5. /\ k \in Walk /\ k.out \in Seq(Nat) /\ d \in Nat /\ DOMAIN k.out = 1 .. d
      /\ k.page \in Nat /\ k.since \in Nat /\ learner \in [Learner -> Walk]
  BY LenProperties DEF IInv, TypeOK, Walk
<1>6. limit \in Nat \ {0} /\ per \in Nat \ {0} /\ DOMAIN w.out = 1 .. Len(w.out)
  BY <1>2, BrainKeeperAssumption, LenProperties DEF Limit, PerPage
<1>7. d = per * k.page /\ d < limit
  BY <1>3 DEF IInv, Harvests, Walked
<1>8. /\ w.since = k.since /\ w.pc = (IF more THEN "fetch" ELSE "store")
      /\ w.page = (IF more THEN k.page + 1 ELSE 0) /\ w \in Walk
  <2> DEFINE o == w.out
             p == IF more THEN k.page + 1 ELSE 0
             c == IF more THEN "fetch" ELSE "store"
  <2>1. w = [k EXCEPT !.pc = c, !.page = p, !.out = o]
    BY <1>2
  <2>2. k \in Walk /\ o \in Seq(Nat) /\ p \in Nat /\ c \in {"fetch", "store"}
    BY <1>2, <1>5
  <2> HIDE DEF o, p, c, k, w
  <2>3. w \in Walk /\ w.since = k.since /\ w.pc = c /\ w.page = p
    BY <2>1, <2>2 DEF Walk, Controls
  <2> QED BY <2>3 DEF c, p
<1>9. Limit(l)' = limit /\ PerPage(l)' = per
  BY <1>8 DEF Limit, PerPage
<1>10. /\ Pulls \subseteq DOMAIN stamp /\ DOMAIN stamp \subseteq Nat
       /\ len \in Nat
       /\ \A i \in 1 .. len : Listed[i] \in Pulls /\ Above(Pulls, Listed[i]) = i - 1
       /\ \A n \in Pulls : Above(Pulls, n) \in Nat /\ Above(Pulls, n) + 1 \in 1 .. len
                           /\ Listed[Above(Pulls, n) + 1] = n
       /\ \A m, n \in Pulls : m < n => Above(Pulls, n) < Above(Pulls, m)
  BY Listing DEF IInv
<1> DEFINE old == Read(l)
           now == Read(l)'
<1>11. /\ old = {k.out[j] : j \in 1 .. d}
       /\ now = {w.out[j] : j \in 1 .. Len(w.out)}
  BY <1>5, <1>6 DEF Read
<1> HIDE DEF k, w, len, per, limit, d, old, now
\* What the walk has now is what it had and what stands after it.
<1>12. \A r \in now : r \in old \/ \E j \in 1 .. len : j > d /\ r = Listed[j]
  <2> SUFFICES ASSUME NEW j \in 1 .. Len(w.out)
               PROVE  w.out[j] \in old \/ \E i \in 1 .. len : i > d /\ w.out[j] = Listed[i]
    BY <1>11
  <2>1. Len(w.out) \in Nat /\ Len(w.out) <= e
    BY <1>2, <1>6
  <2>2. CASE j <= d
    BY <1>2, <1>11, <2>2
  <2>3. CASE ~(j <= d)
    <3>1. j \in 1 .. len /\ j > d
      BY <1>2, <1>5, <1>10, <2>1, <2>3
    <3> QED BY <1>2, <2>3, <3>1
  <2> QED BY <2>2, <2>3
<1>13. \A j \in 1 .. len : j <= e /\ j <= limit /\ j > d => Listed[j] \in now
  <2> SUFFICES ASSUME NEW j \in 1 .. len, j <= e, j <= limit, j > d PROVE Listed[j] \in now
    OBVIOUS
  <2>1. j \in 1 .. Len(w.out)
    BY <1>2, <1>6, <1>10
  <2>2. w.out[j] = Listed[j]
    BY <1>2, <1>5, <1>10, <2>1
  <2> QED BY <1>11, <2>1, <2>2
<1>14. old \subseteq now
  <2>1. \A j \in 1 .. d : j \in 1 .. Len(w.out) /\ w.out[j] = k.out[j]
    <3>1. d <= Len(w.out) /\ Len(w.out) \in Nat
      BY <1>2, <1>5, <1>6, <1>7
    <3> QED BY <1>2, <1>5, <3>1
  <2> QED BY <1>11, <2>1
<1>15. old \subseteq DOMAIN stamp /\ now \subseteq DOMAIN stamp
  <2>1. old \subseteq DOMAIN stamp
    BY DEF IInv, Harvests, GoesOn, old
  <2> QED BY <1>10, <1>12, <2>1
\* One that stands before what this page adds is newer than that.
<1>16. ASSUME NEW m \in Pulls, Above(Pulls, m) < d, \A r \in old : r < m
       PROVE  \A r \in now : r < m
  <2> SUFFICES ASSUME NEW j \in 1 .. len, j > d PROVE Listed[j] < m
    BY <1>12, <1>16
  <2>1. Above(Pulls, Listed[j]) > Above(Pulls, m) /\ Listed[j] \in Pulls
    <3>1. Above(Pulls, Listed[j]) = j - 1 /\ Listed[j] \in Pulls
      BY <1>10
    <3>2. j \in Nat /\ d \in Nat /\ Above(Pulls, m) \in Nat
      BY <1>5, <1>10
    <3>3. j - 1 > Above(Pulls, m)
      BY <1>16, <3>2
    <3> QED BY <3>1, <3>3
  <2>2. Listed[j] \in Nat /\ m \in Nat /\ Listed[j] # m
    BY <1>10, <2>1
  <2> QED BY <1>10, <2>1, <2>2
<1>17. \A n \in Pulls : Above(Pulls, n) < d => n \in old \/ n \in passed \/ \A m \in old : m < n
  BY <1>3 DEF IInv, Harvests, Walked, k, d, old
<1>18. passed \subseteq passed'
  BY <1>2
<1>19. GoesOn(l)'
  <2>1. Learning(l) /\ Learning(l)'
    BY <1>3, <1>8 DEF Learning, w, k
  <2>2. k.since = through
    BY <2>1 DEF IInv, Harvests, GoesOn, k
  <2> QED BY <1>4, <1>8, <1>15, <2>1, <2>2 DEF GoesOn, now, w
<1>20. Walked(l)'
  <2> SUFFICES ASSUME more
               PROVE  /\ Len(w.out) = per * w.page /\ Len(w.out) < limit
                      /\ \A n \in Pulls : Above(Pulls, n) < Len(w.out) =>
                           n \in now \/ n \in passed' \/ \A m \in now : m < n
    BY <1>4, <1>8, <1>9 DEF Walked, now, w
  <2>1. e = d + per /\ Len(w.out) = e /\ e < limit
    BY <1>2, <1>6
  <2>2. Len(w.out) = per * w.page
    <3>1. per * (k.page + 1) = per * k.page + per
      BY <1>5, <1>6
    <3> QED BY <1>7, <1>8, <2>1, <3>1
  <2>3. ASSUME NEW n \in Pulls, Above(Pulls, n) < e
        PROVE  n \in now \/ n \in passed' \/ \A m \in now : m < n
    <3>1. CASE Above(Pulls, n) < d
      BY <1>14, <1>16, <1>17, <1>18, <3>1
    <3>2. CASE ~(Above(Pulls, n) < d)
      <4> DEFINE i == Above(Pulls, n) + 1
      <4>1. i \in 1 .. len /\ Listed[i] = n /\ Above(Pulls, n) \in Nat
        BY <1>10
      <4>2. i > d /\ i <= e /\ i <= limit
        <5>1. d \in Nat /\ e \in Nat /\ limit \in Nat
          BY <1>5, <1>6
        <5> QED BY <2>1, <2>3, <3>2, <4>1, <5>1
      <4> HIDE DEF i
      <4> QED BY <1>13, <4>1, <4>2
    <3> QED BY <3>1, <3>2
  <2> QED BY <2>1, <2>2, <2>3
<1>21. NothingSkipped(l)'
  <2> SUFFICES ASSUME ~more, NEW n \in merged, NEW r \in now,
                      k.since < stamp[n], stamp[n] <= stamp[r]
               PROVE  n \in now \/ Settled(n)'
    BY <1>4, <1>8 DEF NothingSkipped, now, w
  <2> DEFINE i == Above(Pulls, n) + 1
  <2>1. n \in Pulls /\ i \in 1 .. len /\ Listed[i] = n /\ i \in Nat
    <3>1. n \in Pulls
      BY DEF merged, Pulls, IInv, TypeOK
    <3> QED BY <1>10, <3>1
  <2>2. /\ \A a, b \in DOMAIN stamp : a <= b => stamp[a] <= stamp[b]
        /\ \A a \in DOMAIN stamp : stamp[a] \in Nat
    <3>1. stamp \in Seq(Nat \ {0})
      BY DEF IInv, TypeOK
    <3> QED BY <3>1, LenProperties DEF IInv, TypeOK
  <2>3. CASE i <= d
    <3>1. Above(Pulls, n) < d
      BY <1>5, <1>10, <2>1, <2>3
    <3>2. CASE n \in old \/ n \in passed
      BY <1>14, <1>18, <3>2 DEF Settled
    <3>3. CASE \A m \in old : m < n
      <4>1. r < n
        BY <1>16, <2>1, <3>1, <3>3
      <4>2. r \in DOMAIN stamp /\ n \in DOMAIN stamp /\ r \in Nat /\ n \in Nat
        BY <1>10, <1>15, <2>1
      <4>3. stamp[r] = stamp[n] /\ r # n
        BY <2>2, <4>1, <4>2
      <4>4. SameSecond(n)'
        BY <1>4, <4>2, <4>3 DEF SameSecond
      <4> QED BY <4>4 DEF Settled
    <3> QED BY <1>17, <2>1, <3>1, <3>2, <3>3
  <2>4. CASE i > limit
    <3>1. n \in {Listed[j] : j \in limit + 1 .. len}
      BY <1>6, <1>10, <2>1, <2>4
    <3>2. stamp[n] > k.since
      BY <1>5, <1>10, <2>1, <2>2
    <3> QED BY <1>2, <3>1, <3>2 DEF Settled
  <2>5. CASE d < i /\ i <= limit
    <3>1. CASE known
      <4>1. ~(i > e)
        <5> SUFFICES ASSUME i > e PROVE FALSE
          OBVIOUS
        <5> DEFINE m == Listed[e + 1]
        <5>1. m \in Pulls /\ Above(Pulls, m) = e /\ stamp[m] <= k.since
          <6>1. e + 1 \in 1 .. len /\ (e + 1) - 1 = e /\ stamp[m] <= k.since
            BY <1>2, <1>10, <3>1
          <6> QED BY <1>10, <6>1
        <5>2. n \in Nat /\ m \in Nat /\ n \in DOMAIN stamp /\ m \in DOMAIN stamp
          BY <1>10, <2>1, <5>1
        <5> HIDE DEF m
        <5>3. ~(m < n)
          BY <1>10, <2>1, <5>1, <5>2
        <5>4. stamp[n] <= stamp[m]
          BY <2>2, <5>2, <5>3
        <5> QED BY <1>5, <2>2, <5>1, <5>2, <5>4
      <4> QED BY <1>13, <2>1, <2>5, <4>1
    <3>2. CASE ~known
      <4> HIDE DEF i
      <4>1. i <= e
        <5>1. i <= len /\ i \in Nat /\ len \in Nat
          BY <1>10, <2>1
        <5>2. e >= len \/ (e >= d + per /\ e <= d + per)
          BY <1>2, <3>2
        <5>3. e = d + per => e >= limit
          BY <1>2, <1>6, <3>2
        <5>4. d \in Nat /\ per \in Nat /\ limit \in Nat /\ e \in Nat
          BY <1>5, <1>6
        <5>5. i <= limit
          BY <2>5
        <5>6. CASE e >= len
          BY <5>1, <5>4, <5>6
        <5>7. CASE e >= d + per /\ e <= d + per
          <6>1. e = d + per
            BY <5>4, <5>7
          <6> QED BY <5>1, <5>3, <5>4, <5>5, <6>1
        <5> QED BY <5>2, <5>6, <5>7
      <4> QED BY <1>13, <2>1, <2>5, <4>1
    <3> QED BY <3>1, <3>2
  <2> QED BY <1>5, <1>6, <2>1, <2>3, <2>4, <2>5
<1>22. Harvests(l)'
  BY <1>8, <1>19, <1>20, <1>21 DEF Harvests, ReadIsStored, w
<1>23. /\ learner' \in [Learner -> Walk] /\ OneLearns' /\ \A m \in Learner : Harvests(m)'
  <2>1. Learning(l)
    BY <1>3 DEF Learning, k
  <2> QED BY <1>2, <1>3, <1>4, <1>8, <1>18, <1>22, <2>1, OneMoves
<1>24. TypeOK'
  BY <1>3, <1>4, <1>23, StaysTyped DEF IInv
<1>25. ReviewsAreStored'
  BY <1>3, <1>4, <1>18, StaysStored DEF IInv
<1>26. StoredAreMined'
  <2>1. (\A m \in Learner : learner[m].pc # "mine")'
        => \A m \in Learner : learner[m].pc # "mine"
    BY <1>2, <1>3, <1>5 DEF k
  <2> QED BY <1>4, <2>1 DEF IInv, StoredAreMined, Kept
<1> QED BY <1>23, <1>24, <1>25, <1>26 DEF IInv

\* A page that is refused ends the walk with nothing, and nothing is stored of it.
LEMMA FetchRefusedKeeps ==
    ASSUME IInv, NEW l \in Learner, FetchRefused(l)
    PROVE  IInv'
<1> DEFINE w == [learner[l] EXCEPT !.pc = "store", !.page = 0, !.out = <<>>]
<1>1. learner[l] \in Walk /\ learner \in [Learner -> Walk]
  BY DEF IInv, TypeOK
<1>2. /\ learner[l].pc = "fetch" /\ learner' = [learner EXCEPT ![l] = w]
      /\ UNCHANGED <<github, comments, mined, through, passed, unmined>>
  BY <1>1 DEF FetchRefused, Walk, tables
<1>3. w \in Walk /\ w.pc = "store" /\ w.out = <<>> /\ w.since = learner[l].since
  BY <1>1, EmptySeq DEF Walk, Controls
<1> HIDE DEF w
<1>4. learner'[l] = w
  BY <1>1, <1>2
<1>5. Learning(l) /\ learner[l].since = through
  BY <1>2 DEF Learning, IInv, Harvests, GoesOn
<1>6. Harvests(l)'
  <2>1. Read(l)' = {}
    BY <1>3, <1>4, EmptySeq DEF Read
  <2> QED BY <1>2, <1>3, <1>4, <1>5, <2>1
          DEF Harvests, GoesOn, Walked, NothingSkipped, ReadIsStored, Learning
<1>7. /\ learner' \in [Learner -> Walk] /\ OneLearns' /\ \A m \in Learner : Harvests(m)'
  BY <1>2, <1>3, <1>5, <1>6, OneMoves
<1>8. TypeOK' /\ ReviewsAreStored'
  BY <1>2, <1>7, StaysTyped, StaysStored DEF IInv
<1>9. StoredAreMined'
  <2>1. (\A m \in Learner : learner[m].pc # "mine")'
        => \A m \in Learner : learner[m].pc # "mine"
    BY <1>1, <1>2, <1>3, <1>4
  <2> QED BY <1>2, <2>1 DEF IInv, StoredAreMined, Kept
<1> QED BY <1>7, <1>8, <1>9 DEF IInv
----------------------------------------------------------------------------
(* Who refreshes *)

\* A step of a learner that is not at work, and does nothing but move.
LEMMA MovesOnly ==
    ASSUME IInv, NEW l \in Learner, NEW w \in Walk, learner' = [learner EXCEPT ![l] = w],
           ~Learning(l), w.page = 0, w.out = <<>>,
           w.pc \in {"idle", "begin", "wait"}
             \/ (w.pc = "fetch" /\ w.since = through /\ \A m \in Learner : ~Learning(m)),
           UNCHANGED <<github, comments, mined, through, passed, unmined>>
    PROVE  IInv'
<1>1. learner \in [Learner -> Walk] /\ learner'[l] = w
  BY DEF IInv, TypeOK
<1>2. Read(l)' = {}
  BY <1>1, EmptySeq DEF Read
<1>3. Harvests(l)'
  <2>1. GoesOn(l)'
    BY <1>1, <1>2 DEF GoesOn, Learning
  <2>2. Walked(l)'
    <3>1. Len(<<>>) = 0 /\ \A n \in Pulls' : Above(Pulls', n) < 0 => FALSE
      <4>1. Pulls' = Pulls
        BY DEF github, Pulls
      <4>2. \A n \in Pulls : Above(Pulls, n) \in Nat
        BY Listing DEF IInv
      <4> QED BY <4>1, <4>2
    <3>2. Limit(l)' \in Nat \ {0} /\ PerPage(l)' \in Nat
      BY BrainKeeperAssumption DEF Limit, PerPage
    <3>3. PerPage(l)' * 0 = 0
      BY <3>2
    <3> QED BY <1>1, <3>1, <3>2, <3>3 DEF Walked
  <2> QED BY <1>1, <1>2, <2>1, <2>2 DEF Harvests, NothingSkipped, ReadIsStored
<1>4. /\ learner' \in [Learner -> Walk] /\ OneLearns' /\ \A m \in Learner : Harvests(m)'
  <2>1. Learning(l)' => \A m \in Learner : ~Learning(m)
    BY <1>1 DEF Learning
  <2> QED BY <1>3, <2>1, OneMoves
<1>5. TypeOK' /\ ReviewsAreStored'
  BY <1>4, StaysTyped, StaysStored DEF IInv
<1>6. StoredAreMined'
  <2>1. (\A m \in Learner : learner[m].pc # "mine")'
        => \A m \in Learner : learner[m].pc # "mine"
    BY <1>1 DEF Learning
  <2> QED BY <2>1 DEF IInv, StoredAreMined, Kept
<1> QED BY <1>4, <1>5, <1>6 DEF IInv

\* One that waits for the lock has read nothing.
LEMMA ScheduledKeeps ==
    ASSUME IInv, Scheduled \/ BeginReading \/ Request
    PROVE  IInv'
<1>1. PICK l \in Learner : /\ learner[l].pc \in {"idle", "begin"}
                           /\ \E c \in {"idle", "wait"}, f \in BOOLEAN :
                                learner' = [learner EXCEPT ![l] = [learner[l] EXCEPT
                                                             !.pc = c, !.force = f]]
  <2>1. learner \in [Learner -> Walk] /\ \A l \in Learner : learner[l].force \in BOOLEAN
    BY DEF IInv, TypeOK, Walk
  <2>2. {Schedule, Reader, Caller} \subseteq Learner
    BY DEF Learner
  <2>3. CASE Scheduled
    <3>1. /\ Schedule \in Learner /\ learner[Schedule].pc = "idle"
          /\ learner' = [learner EXCEPT ![Schedule] = [learner[Schedule] EXCEPT
                            !.pc = "wait", !.force = learner[Schedule].force]]
      BY <2>1, <2>2, <2>3 DEF Scheduled, Gets, Walk
    <3> QED BY <2>1, <3>1
  <2>4. CASE BeginReading
    <3>1. /\ Reader \in Learner /\ learner[Reader].pc = "begin"
          /\ learner' = [learner EXCEPT ![Reader] = [learner[Reader] EXCEPT
                            !.pc = IF Due THEN "wait" ELSE "idle",
                            !.force = learner[Reader].force]]
      BY <2>1, <2>2, <2>4 DEF BeginReading, Gets, Walk
    <3> QED BY <2>1, <3>1
  <2>5. CASE Request
    <3>1. /\ Caller \in Learner /\ learner[Caller].pc = "idle"
          /\ learner' = [learner EXCEPT ![Caller] = [learner[Caller] EXCEPT
                            !.pc = "wait", !.force = TRUE]]
      BY <2>1, <2>2, <2>5 DEF Request, Walk
    <3> QED BY <2>1, <3>1
  <2> QED BY <2>3, <2>4, <2>5
<1>2. PICK c \in {"idle", "wait"}, f \in BOOLEAN :
         learner' = [learner EXCEPT ![l] = [learner[l] EXCEPT !.pc = c, !.force = f]]
  BY <1>1
<1> DEFINE w == [learner[l] EXCEPT !.pc = c, !.force = f]
<1>3. learner[l] \in Walk /\ ~Learning(l) /\ learner[l].page = 0 /\ learner[l].out = <<>>
  <2>1. ~Learning(l)
    BY <1>1 DEF Learning
  <2> QED BY <2>1 DEF IInv, TypeOK, Harvests, GoesOn
<1>4. w \in Walk /\ w.page = 0 /\ w.out = <<>> /\ w.pc = c
  BY <1>3 DEF Walk, Controls
<1>5. UNCHANGED <<github, comments, mined, through, passed, unmined>>
  BY DEF Scheduled, BeginReading, Request, tables
<1>6. learner' = [learner EXCEPT ![l] = w]
  BY <1>2
<1> HIDE DEF w
<1> QED BY <1>3, <1>4, <1>5, <1>6, MovesOnly

\* With the lock, a learner goes on from where the last harvest came to.
LEMMA LearnKeeps ==
    ASSUME IInv, NEW l \in Learner, Learn(l)
    PROVE  IInv'
<1> DEFINE w == [learner[l] EXCEPT !.pc = "fetch", !.since = through, !.never = (built = "never")]
<1>1. learner[l] \in Walk /\ learner \in [Learner -> Walk] /\ through \in Nat
  BY DEF IInv, TypeOK
<1>2. /\ learner[l].pc = "wait" /\ (\A m \in Learner : ~Learning(m))
      /\ learner' = [learner EXCEPT ![l] = w]
      /\ UNCHANGED <<github, comments, mined, through, passed, unmined>>
  BY <1>1 DEF Learn, Walk, tables
<1>3. learner[l].page = 0 /\ learner[l].out = <<>>
  BY <1>2 DEF IInv, Harvests, GoesOn
<1>4. w \in Walk /\ w.page = 0 /\ w.out = <<>> /\ w.pc = "fetch" /\ w.since = through
  BY <1>1, <1>3 DEF Walk, Controls
<1> HIDE DEF w
<1> QED BY <1>2, <1>4, MovesOnly

\* The age of what is stored matters to nothing that is promised.
LEMMA AgesKeeps ==
    ASSUME IInv, Ages
    PROVE  IInv'
<1>1. UNCHANGED <<github, learner, comments, mined, through, passed, unmined>>
  BY DEF Ages, tables
<1>2. \A l \in Learner : Harvests(l)'
  BY <1>1, OneWaits DEF IInv
<1>3. TypeOK' /\ ReviewsAreStored'
  BY <1>1, StaysTyped, StaysStored DEF IInv, TypeOK
<1>4. OneLearns' /\ StoredAreMined'
  BY <1>1 DEF IInv, OneLearns, Learning, StoredAreMined, Kept
<1> QED BY <1>2, <1>3, <1>4 DEF IInv
----------------------------------------------------------------------------
(* What a refresh does with what it read *)

\* At most one learner is at work.
LEMMA OthersRest ==
    ASSUME IInv, NEW l \in Learner, Learning(l)
    PROVE  /\ \A m \in Learner \ {l} : ~Learning(m) /\ learner[m].pc # "mine"
           /\ learner[l].since = through /\ learner[l] \in Walk /\ Harvests(l)
           /\ learner \in [Learner -> Walk] /\ Read(l) \subseteq DOMAIN stamp
BY DEF IInv, OneLearns, Learning, Harvests, GoesOn, TypeOK

\* Rows of which none that is new is enforced add nothing to what the norms are made of.
LEMMA KeptIsMonotone ==
    ASSUME NEW old, NEW rows, Kept(rows \ old) = {}
    PROVE  Kept(old \cup rows) = Kept(old)
BY DEF Kept

\* What was read is stored, and mined before anything else if an enforced one is new.
LEMMA StoreKeeps ==
    ASSUME IInv, NEW l \in Learner, Store(l)
    PROVE  IInv'
<1> DEFINE k == learner[l]
           new == Kept(RowsOf(l) \ comments)
           c == IF new # {} \/ k.force \/ (Kept(comments') # {} /\ k.never) THEN "mine"
                ELSE "state"
           w == [k EXCEPT !.pc = c]
<1>1. /\ k.pc = "store" /\ comments' = comments \cup RowsOf(l)
      /\ learner' = [learner EXCEPT ![l].pc = c]
      /\ UNCHANGED <<github, mined, through, passed, unmined>>
  BY DEF Store, Gets
<1>2. Learning(l)
  BY <1>1 DEF Learning
<1>3. /\ \A m \in Learner \ {l} : ~Learning(m) /\ learner[m].pc # "mine"
      /\ k.since = through /\ k \in Walk /\ Harvests(l)
      /\ learner \in [Learner -> Walk] /\ Read(l) \subseteq DOMAIN stamp
  BY <1>2, OthersRest
<1>4. /\ learner' = [learner EXCEPT ![l] = w] /\ w \in Walk /\ learner'[l] = w
      /\ w.pc = c /\ w.out = k.out /\ w.since = k.since /\ c \in {"mine", "state"}
  BY <1>1, <1>3 DEF Walk, Controls
<1> HIDE DEF w, c, new
<1>5. stamp' = stamp /\ Pulls' = Pulls /\ merged' = merged /\ Read(l)' = Read(l)
  BY <1>1, <1>4 DEF github, Pulls, merged, Read
<1>6. \A n \in merged \cap Read(l) : CommentsOf(n) \subseteq RowsOf(l)
  <2> SUFFICES ASSUME NEW a \in DOMAIN k.out, k.out[a] \in merged,
                      NEW b \in DOMAIN Reviews[k.out[a]]
               PROVE  <<k.out[a], b>> \in RowsOf(l)
    BY DEF CommentsOf, Read
  <2>1. <<a, b>> \in Places(l)
    BY DEF Places
  <2>2. RowAt(l, <<a, b>>) = <<k.out[a], b>>
    BY DEF RowAt
  <2> QED BY <2>1, <2>2 DEF RowsOf
<1>7. Harvests(l)'
  <2>1. Learning(l)'
    BY <1>4 DEF Learning
  <2>2. GoesOn(l)'
    BY <1>1, <1>3, <1>4, <1>5, <2>1 DEF GoesOn
  <2>3. NothingSkipped(l)'
    <3>1. \A n : Settled(n)' = Settled(n)
      BY <1>1, <1>5 DEF Settled, SameSecond
    <3> QED BY <1>1, <1>3, <1>4, <1>5, <3>1 DEF Harvests, NothingSkipped
  <2>4. ReadIsStored(l)'
    BY <1>1, <1>5, <1>6 DEF ReadIsStored
  <2> QED BY <1>4, <2>2, <2>3, <2>4 DEF Harvests, Walked
<1>8. /\ learner' \in [Learner -> Walk] /\ OneLearns' /\ \A m \in Learner : Harvests(m)'
  BY <1>1, <1>2, <1>4, <1>7, OneMoves
<1>9. TypeOK' /\ ReviewsAreStored'
  BY <1>1, <1>8, StaysTyped, StaysStored DEF IInv
<1>10. StoredAreMined'
  <2> SUFFICES ASSUME ~unmined, c # "mine" PROVE Kept(comments') \subseteq mined
    BY <1>1, <1>4 DEF StoredAreMined
  <2>1. Kept(RowsOf(l) \ comments) = {}
    BY DEF c, new
  <2>2. Kept(comments') = Kept(comments)
    BY <1>1, <2>1, KeptIsMonotone
  <2>3. \A m \in Learner : learner[m].pc # "mine"
    BY <1>1, <1>3
  <2> QED BY <2>2, <2>3 DEF IInv, StoredAreMined
<1> QED BY <1>8, <1>9, <1>10 DEF IInv

\* Mining takes in everything that is stored.
LEMMA MineKeeps ==
    ASSUME IInv, NEW l \in Learner, Mine(l)
    PROVE  IInv'
<1> DEFINE k == learner[l]
           w == [k EXCEPT !.pc = "state"]
<1>1. /\ k.pc = "mine" /\ mined' = comments
      /\ learner' = [learner EXCEPT ![l].pc = "state"]
      /\ UNCHANGED <<github, comments, through, passed>>
  BY DEF Mine, Gets
<1>2. Learning(l)
  BY <1>1 DEF Learning
<1>3. /\ k.since = through /\ k \in Walk /\ Harvests(l)
      /\ learner \in [Learner -> Walk] /\ Read(l) \subseteq DOMAIN stamp
  BY <1>2, OthersRest
<1>4. /\ learner' = [learner EXCEPT ![l] = w] /\ w \in Walk /\ learner'[l] = w
      /\ w.pc = "state" /\ w.out = k.out /\ w.since = k.since
  BY <1>1, <1>3 DEF Walk, Controls
<1> HIDE DEF w
<1>5. stamp' = stamp /\ Pulls' = Pulls /\ merged' = merged /\ Read(l)' = Read(l)
  BY <1>1, <1>4 DEF github, Pulls, merged, Read
<1>6. Harvests(l)'
  <2>1. Learning(l)'
    BY <1>4 DEF Learning
  <2>2. GoesOn(l)'
    BY <1>1, <1>3, <1>4, <1>5, <2>1 DEF GoesOn
  <2>3. NothingSkipped(l)'
    <3>1. \A n : Settled(n)' = Settled(n)
      BY <1>1, <1>5 DEF Settled, SameSecond
    <3> QED BY <1>1, <1>3, <1>4, <1>5, <3>1 DEF Harvests, NothingSkipped
  <2>4. ReadIsStored(l)'
    BY <1>1, <1>3, <1>5 DEF Harvests, ReadIsStored
  <2> QED BY <1>4, <2>2, <2>3, <2>4 DEF Harvests, Walked
<1>7. /\ learner' \in [Learner -> Walk] /\ OneLearns' /\ \A m \in Learner : Harvests(m)'
  BY <1>1, <1>2, <1>4, <1>6, OneMoves
<1>8. TypeOK' /\ ReviewsAreStored'
  BY <1>1, <1>7, StaysTyped, StaysStored DEF IInv
<1>9. StoredAreMined'
  BY <1>1 DEF StoredAreMined, Kept
<1> QED BY <1>7, <1>8, <1>9 DEF IInv

\* Numbers up to a bound, if any, have a greatest.
LEMMA Greatest ==
    ASSUME NEW n \in Nat, NEW S, S \subseteq 0 .. n, S # {}
    PROVE  \E i \in S : \A j \in S : j <= i
<1> DEFINE below == {n - i : i \in S}
<1>1. below \subseteq Nat /\ below # {}
  <2>1. \A i \in S : n - i \in Nat
    OBVIOUS
  <2> QED BY <2>1
<1>2. PICK x \in below : \A y \in below : x <= y
  <2> HIDE DEF below
  <2> QED BY <1>1, Least
<1>3. PICK i \in S : x = n - i
  OBVIOUS
<1>4. ASSUME NEW j \in S PROVE j <= i
  <2>1. n - i <= n - j
    BY <1>2, <1>3
  <2> QED BY <2>1
<1> QED BY <1>4

\* The place to go on from is the newest that was read: everything merged up to there was read,
\* or is one the history remembers.
LEMMA PutStateKeeps ==
    ASSUME IInv, NEW l \in Learner, PutState(l)
    PROVE  IInv'
<1> DEFINE k == learner[l]
           read == {k.since} \cup {stamp[k.out[i]] : i \in {i \in DOMAIN k.out : k.out[i] \in merged}}
<1>1. /\ k.pc = "state"
      /\ through' = CHOOSE s \in read : \A t \in read : t <= s
      /\ learner' = [learner EXCEPT ![l] = IdleLearner]
      /\ UNCHANGED <<github, comments, mined, passed, unmined>>
  BY DEF PutState
<1>2. Learning(l)
  BY <1>1 DEF Learning
<1>3. /\ \A m \in Learner \ {l} : ~Learning(m) /\ learner[m].pc # "mine"
      /\ k.since = through /\ k \in Walk /\ Harvests(l)
      /\ learner \in [Learner -> Walk] /\ Read(l) \subseteq DOMAIN stamp
  BY <1>2, OthersRest
<1>4. stamp' = stamp /\ merged' = merged
  BY <1>1 DEF github, merged
<1>5. /\ through \in read /\ through \in Nat
      /\ \A s \in read \ {through} : \E m \in Read(l) \cap merged : s = stamp[m]
      /\ \A m \in DOMAIN stamp : stamp[m] \in Nat
  <2>1. stamp \in Seq(Nat \ {0})
    BY DEF IInv, TypeOK
  <2>2. \A m \in DOMAIN stamp : stamp[m] \in Nat
    BY <2>1, LenProperties
  <2> QED BY <1>3, <2>2 DEF Read, IInv, TypeOK
<1> HIDE DEF read
<1>6. \E s \in read : \A t \in read : t <= s
  <2>1. PICK bound \in Nat : read \subseteq 0 .. bound
    <3> DEFINE n == Len(stamp)
    <3>1. n \in Nat /\ DOMAIN stamp = 1 .. n
      BY LenProperties DEF IInv, TypeOK
    <3>2. CASE n = 0
      <4>1. read \subseteq 0 .. through
        BY <1>3, <1>5, <3>1, <3>2
      <4> QED BY <1>5, <4>1
    <3>3. CASE n # 0
      <4> HIDE DEF n
      <4>1. n \in DOMAIN stamp /\ stamp[n] \in Nat
        BY <1>5, <3>1, <3>3
      <4>2. \A m \in DOMAIN stamp : stamp[m] <= stamp[n]
        BY <3>1, <4>1 DEF IInv, TypeOK
      <4>3. read \subseteq 0 .. through + stamp[n]
        <5> SUFFICES ASSUME NEW s \in read PROVE s \in 0 .. through + stamp[n]
          OBVIOUS
        <5>1. CASE s = through
          BY <1>5, <4>1, <5>1
        <5>2. CASE s # through
          <6>1. PICK m \in DOMAIN stamp : s = stamp[m]
            BY <1>3, <1>5, <5>2
          <6>2. s <= stamp[n] /\ s \in Nat
            BY <1>5, <4>2, <6>1
          <6> QED BY <1>5, <4>1, <6>2
        <5> QED BY <5>1, <5>2
      <4> DEFINE bound == through + stamp[n]
      <4>4. bound \in Nat
        BY <1>5, <4>1
      <4> HIDE DEF bound
      <4>5. read \subseteq 0 .. bound
        BY <4>3 DEF bound
      <4> QED BY <4>4, <4>5
    <3> QED BY <3>2, <3>3
  <2> QED BY <1>5, <2>1, Greatest
<1>7. through' \in read /\ \A t \in read : t <= through'
  <2> DEFINE best(s) == \A t \in read : t <= s
  <2>1. through' = CHOOSE s \in read : best(s)
    BY <1>1
  <2>2. \E s \in read : best(s)
    BY <1>6
  <2> HIDE DEF best
  <2>3. through' \in read /\ best(through')
    BY <2>1, <2>2
  <2> QED BY <2>3 DEF best
<1>8. ASSUME through' # through
      PROVE  \E m \in Read(l) \cap merged : through' = stamp[m]
  BY <1>5, <1>7, <1>8
<1>9. IdleLearner \in Walk /\ IdleLearner.pc = "idle" /\ IdleLearner.page = 0
      /\ IdleLearner.out = <<>>
  BY EmptySeq DEF IdleLearner, Walk, Controls
<1>10. learner'[l] = IdleLearner
  BY <1>1, <1>3
<1>11. Harvests(l)'
  BY <1>9, <1>10, AtRestNext DEF Learning
<1>12. /\ learner' \in [Learner -> Walk] /\ OneLearns' /\ \A m \in Learner : Harvests(m)'
  BY <1>1, <1>2, <1>9, <1>11, OneMoves
<1>13. TypeOK'
  <2>1. through' \in Nat
    BY <1>3, <1>5, <1>8
  <2>2. through' = 0 \/ \E m \in DOMAIN stamp : stamp[m] = through'
    BY <1>3, <1>8 DEF IInv, TypeOK
  <2> QED BY <1>1, <1>4, <1>12, <2>1, <2>2 DEF IInv, TypeOK, github
<1>14. ReviewsAreStored'
  <2>1. \A n : Settled(n)' = Settled(n)
    BY <1>1, <1>4 DEF Settled, SameSecond
  <2> SUFFICES ASSUME NEW n \in merged, stamp[n] <= through'
               PROVE  CommentsOf(n) \subseteq comments \/ Settled(n)
    BY <1>1, <1>4, <2>1 DEF ReviewsAreStored
  <2>2. CASE stamp[n] <= through
    BY <2>2 DEF IInv, ReviewsAreStored
  <2>3. CASE ~(stamp[n] <= through)
    <3>1. stamp[n] \in Nat
      BY <1>5 DEF merged
    <3>2. k.since < stamp[n] /\ through' # through
      BY <1>3, <1>5, <2>3, <3>1
    <3>3. PICK m \in Read(l) \cap merged : through' = stamp[m]
      BY <1>8, <3>2
    <3>4. n \in Read(l) \/ Settled(n)
      BY <1>1, <1>3, <3>2, <3>3 DEF Harvests, NothingSkipped
    <3> QED BY <1>1, <1>3, <3>4 DEF Harvests, ReadIsStored
  <2> QED BY <2>2, <2>3
<1>15. StoredAreMined'
  <2>1. \A m \in Learner : learner[m].pc # "mine"
    BY <1>1, <1>3
  <2> QED BY <1>1, <2>1 DEF IInv, StoredAreMined, Kept
<1> QED BY <1>12, <1>13, <1>14, <1>15 DEF IInv

\* A learner that is stopped leaves nothing that the next one does not mine, but for
\* what the history remembers.
LEMMA LeavesNothing ==
    ASSUME IInv, NEW l \in Learner, Learning(l), NEW rows, Leaves(l, rows), mined' = mined
    PROVE  StoredAreMined'
<1>1. comments' = comments \cup rows
  BY DEF Leaves
<1> SUFFICES ASSUME ~unmined' PROVE Kept(comments') \subseteq mined
  BY DEF StoredAreMined
<1>2. ~unmined /\ learner[l].pc # "mine" /\ Kept(rows \ comments) = {}
  BY DEF Leaves
<1>3. \A m \in Learner : learner[m].pc # "mine"
  BY <1>2, OthersRest
<1>4. Kept(comments') = Kept(comments)
  BY <1>1, <1>2, KeptIsMonotone
<1> QED BY <1>2, <1>3, <1>4 DEF IInv, StoredAreMined

\* A learner that fails leaves the place where it was.
LEMMA LearnFailsKeeps ==
    ASSUME IInv, NEW l \in Learner, LearnFails(l)
    PROVE  IInv'
<1>1. /\ Learning(l) /\ learner' = [learner EXCEPT ![l] = IdleLearner]
      /\ UNCHANGED <<github, mined, through, passed>>
  BY DEF LearnFails
<1>2. PICK rows : Leaves(l, rows)
  BY DEF LearnFails
<1>3. comments \subseteq comments'
  BY <1>2 DEF Leaves
<1>4. IdleLearner \in Walk /\ IdleLearner.pc = "idle" /\ IdleLearner.page = 0
      /\ IdleLearner.out = <<>>
  BY EmptySeq DEF IdleLearner, Walk, Controls
<1>5. learner'[l] = IdleLearner
  BY <1>1 DEF IInv, TypeOK
<1>6. Harvests(l)'
  BY <1>4, <1>5, AtRestNext DEF Learning
<1>7. /\ learner' \in [Learner -> Walk] /\ OneLearns' /\ \A m \in Learner : Harvests(m)'
  BY <1>1, <1>3, <1>4, <1>6, OneMoves
<1>8. TypeOK' /\ ReviewsAreStored'
  BY <1>1, <1>3, <1>7, StaysTyped, StaysStored DEF IInv
<1>9. StoredAreMined'
  BY <1>1, <1>2, LeavesNothing
<1> QED BY <1>7, <1>8, <1>9 DEF IInv

\* Every start is a learner at rest.
LEMMA StartsAtRest ==
    /\ Starting \in [Learner -> Walk]
    /\ \A l \in Learner : /\ Starting[l].pc \in {"idle", "begin"} /\ Starting[l].page = 0
                          /\ Starting[l].out = <<>>
<1>1. IdleLearner \in Walk /\ IdleLearner.pc = "idle" /\ IdleLearner.page = 0
      /\ IdleLearner.out = <<>>
  BY EmptySeq DEF IdleLearner, Walk, Controls
<1> DEFINE w == [IdleLearner EXCEPT !.pc = "begin"]
<1>2. w \in Walk /\ w.pc = "begin" /\ w.page = 0 /\ w.out = <<>>
  BY <1>1 DEF Walk, Controls
<1>3. Starting = [l \in Learner |-> IF l = Reader THEN w ELSE IdleLearner]
  BY DEF Starting
<1> HIDE DEF w
<1> QED BY <1>1, <1>2, <1>3

\* So does a process that ends, with every learner in it.
LEMMA CrashKeeps ==
    ASSUME IInv, Crash
    PROVE  IInv'
<1>1. learner' = Starting /\ UNCHANGED <<github, mined, through, passed>>
  BY DEF Crash
<1>2. \A l \in Learner : ~Learning(l)' /\ learner'[l].page = 0 /\ learner'[l].out = <<>>
                         /\ learner'[l].pc # "mine"
  BY <1>1, StartsAtRest DEF Learning
<1>3. \A l \in Learner : Harvests(l)'
  BY <1>2, AtRestNext
<1>4. OneLearns' /\ learner' \in [Learner -> Walk]
  BY <1>1, <1>2, StartsAtRest DEF OneLearns
<1>5. comments \subseteq comments' /\ StoredAreMined'
  <2>1. CASE \E l \in Learner : Learning(l)
    <3>1. PICK l \in Learner : Learning(l) /\ \E rows \in Rows(l) : Leaves(l, rows)
      BY <2>1 DEF Crash
    <3>2. PICK rows : Leaves(l, rows)
      BY <3>1
    <3> QED BY <1>1, <3>1, <3>2, LeavesNothing DEF Leaves
  <2>2. CASE ~ \E l \in Learner : Learning(l)
    <3>1. UNCHANGED <<comments, unmined>>
      BY <2>2 DEF Crash
    <3>2. \A l \in Learner : learner[l].pc # "mine"
      BY <2>2 DEF Learning
    <3> QED BY <1>1, <3>1, <3>2 DEF IInv, StoredAreMined, Kept
  <2> QED BY <2>1, <2>2
<1>6. TypeOK' /\ ReviewsAreStored'
  BY <1>1, <1>4, <1>5, StaysTyped, StaysStored DEF IInv
<1> QED BY <1>3, <1>4, <1>5, <1>6 DEF IInv
----------------------------------------------------------------------------
(* The invariant *)

\* At the start nothing was reviewed, and nothing is stored.
LEMMA IInvInit ==
    ASSUME Init
    PROVE  IInv
<1>1. /\ stamp = <<>> /\ reopened = {} /\ comments = {} /\ through = 0 /\ learner = Starting
  BY DEF Init
<1>2. stamp \in Seq(Nat \ {0}) /\ DOMAIN stamp = {}
  BY <1>1, EmptySeq
<1>3. \A l \in Learner : ~Learning(l) /\ learner[l].page = 0 /\ learner[l].out = <<>>
  BY <1>1, StartsAtRest DEF Learning
<1>4. \A l \in Learner : Harvests(l)
  BY <1>3, AtRest
<1>5. TypeOK
  BY <1>1, <1>2, StartsAtRest DEF TypeOK
<1>6. OneLearns
  BY <1>3 DEF OneLearns
<1>7. ReviewsAreStored /\ StoredAreMined
  BY <1>1, <1>2 DEF ReviewsAreStored, StoredAreMined, Kept, merged
<1> QED BY <1>4, <1>5, <1>6, <1>7 DEF IInv

\* Every step keeps it.
LEMMA IInvStep ==
    ASSUME IInv, [Next]_vars
    PROVE  IInv'
<1>1. CASE Close
  BY <1>1, CloseKeeps
<1>2. CASE \E n \in Unmerged : Reopen(n)
  BY <1>2, ReopenKeeps
<1>3. CASE Ages
  BY <1>3, AgesKeeps
<1>4. CASE Scheduled \/ BeginReading \/ Request
  BY <1>4, ScheduledKeeps
<1>5. CASE \E l \in Learner : Step(l)
  BY <1>5, LearnKeeps, FetchPageKeeps, StoreKeeps, MineKeeps, PutStateKeeps DEF Step
<1>6. CASE \E l \in Learner : FetchRefused(l) \/ LearnFails(l)
  BY <1>6, FetchRefusedKeeps, LearnFailsKeeps
<1>7. CASE Crash
  BY <1>7, CrashKeeps
<1>8. CASE UNCHANGED vars
  <2>1. UNCHANGED <<github, learner, comments, mined, through, passed, unmined>>
    BY <1>8 DEF vars, tables
  <2>2. \A l \in Learner : Harvests(l)'
    BY <2>1, OneWaits DEF IInv
  <2>3. TypeOK' /\ ReviewsAreStored'
    BY <2>1, StaysTyped, StaysStored DEF IInv, TypeOK
  <2>4. OneLearns' /\ StoredAreMined'
    BY <2>1 DEF IInv, OneLearns, Learning, StoredAreMined, Kept
  <2> QED BY <2>2, <2>3, <2>4 DEF IInv
<1> QED BY <1>1, <1>2, <1>3, <1>4, <1>5, <1>6, <1>7, <1>8 DEF Next

\* Whatever GitHub, the schedule and the crashes do, every merged pull request up to the
\* last second harvested is stored with its comments or accounted for, and what is
\* stored is what the norms were mined from, unless mining was cut short (_learn).
THEOREM NoReviewIsLost == Spec => []ReviewsReachNorms
<1>1. IInv => ReviewsReachNorms
  BY DEF IInv, ReviewsAreStored, StoredAreMined, Settled, ReviewsReachNorms
<1>2. Init => IInv
  BY IInvInit
<1>3. IInv /\ [Next]_vars => IInv'
  BY IInvStep
<1> QED BY <1>1, <1>2, <1>3, PTL DEF Spec
----------------------------------------------------------------------------
(* Mining: numbers and counts *)

\* Of finitely many things, one has the highest number.
LEMMA Peak ==
    ASSUME NEW S, IsFiniteSet(S), S # {}, NEW h, \A s \in S : h[s] \in Nat
    PROVE  \E s \in S : \A t \in S : h[t] <= h[s]
<1> DEFINE values == {h[s] : s \in S}
           f == [s \in S |-> h[s]]
<1>1. f \in Surjection(S, values)
  BY DEF Surjection
<1>2. IsFiniteSet(values)
  <2> HIDE DEF f, values
  <2> QED BY <1>1, FS_Surjection
<1>3. values \subseteq Nat /\ values # {}
  OBVIOUS
<1>4. PICK n \in values : \A m \in values : m <= n
  <2> HIDE DEF values
  <2>1. Cardinality(values) \in Nat /\ Cardinality(values) # 0
    BY <1>2, <1>3, FS_EmptySet, FS_CardinalityType
  <2>2. PICK n \in values : Above(values, n) = 0
    <3>1. \A i \in 1 .. Cardinality(values) : \E n \in values : Above(values, n) = i - 1
      BY <1>2, <1>3, Ranks, Zenon
    <3>2. 1 \in 1 .. Cardinality(values) /\ 1 - 1 = 0
      BY <2>1
    <3> QED BY <3>1, <3>2
  <2> DEFINE above == {m \in values : m > n}
  <2>3. IsFiniteSet(above)
    BY <1>2, FS_Subset, Zenon
  <2>4. above = {}
    <3>1. Cardinality(above) = 0
      BY <2>2 DEF Above
    <3> HIDE DEF above
    <3> QED BY <2>3, <3>1, FS_EmptySet
  <2> QED BY <1>3, <2>4
<1> QED BY <1>4

LEMMA MaxIsGreatest ==
    ASSUME NEW S, S \subseteq Nat, IsFiniteSet(S), S # {}
    PROVE  F!Max(S) \in S /\ \A n \in S : n <= F!Max(S)
<1> DEFINE h == [s \in S |-> s]
<1>1. \A s \in S : h[s] = s
  OBVIOUS
<1>2. \A s \in S : h[s] \in Nat
  BY <1>1
<1>3. \E s \in S : \A t \in S : h[t] <= h[s]
  <2> HIDE DEF h
  <2> QED BY <1>2, Peak
<1>4. \E s \in S : \A t \in S : s >= t
  BY <1>1, <1>3
<1> QED BY <1>4 DEF F!Max

LEMMA MinIsLeast ==
    ASSUME NEW S, S \subseteq Nat, S # {}
    PROVE  F!Min(S) \in S /\ \A n \in S : F!Min(S) <= n
BY Least DEF F!Min

Between(l, A, B, n, d) ==
    /\ l.groups = {A, B} /\ l.n \in Nat /\ l.d \in Nat \ {0}
    /\ l.n * d = l.d * n

\* A link names the two groups, and the fraction in its lowest terms is the same.
LEMMA LinkIsFraction ==
    ASSUME NEW A, NEW B, NEW n \in Nat, NEW d \in Nat \ {0}
    PROVE  Between(Link(A, B, n, d), A, B, n, d)
<1> DEFINE common == {e \in 1 .. d : d % e = 0 /\ n % e = 0}
           g == F!Max(common)
<1>1. common \subseteq Nat /\ common # {}
  <2>1. 1 \in common
    OBVIOUS
  <2> QED BY <2>1
<1>2. IsFiniteSet(common)
  <2>1. IsFiniteSet(1 .. d)
    BY FS_Interval
  <2> QED BY <2>1, FS_Subset, Zenon
<1>3. g \in common
  <2> HIDE DEF common
  <2> QED BY <1>1, <1>2, MaxIsGreatest
<1>4. g \in Nat \ {0} /\ g <= d /\ d % g = 0 /\ n % g = 0
  <2> HIDE DEF g
  <2> QED BY <1>3
<1> HIDE DEF g
<1>5. n = g * (n \div g) /\ d = g * (d \div g) /\ n \div g \in Nat /\ d \div g \in Nat
  BY <1>4
<1> DEFINE x == n \div g
           y == d \div g
<1>6. x * d = y * n /\ y # 0
  <2>1. x \in Nat /\ y \in Nat /\ n = g * x /\ d = g * y
    BY <1>5
  <2> HIDE DEF x, y
  <2> QED BY <1>4, <2>1
<1>7. Link(A, B, n, d) = [groups |-> {A, B}, n |-> x, d |-> y]
  BY DEF Link, g
<1> HIDE DEF x, y
<1>8. x \in Nat /\ y \in Nat
  BY <1>5 DEF x, y
<1> QED BY <1>6, <1>7, <1>8 DEF Between

\* Products of naturals keep their order, and lose no more than a factor's.
LEMMA Products ==
    ASSUME NEW a \in Nat, NEW b \in Nat, NEW c \in Nat
    PROVE  /\ a * b \in Nat /\ a * b = b * a
           /\ (a * b) * c = a * (b * c)
           /\ a <= b => a * c <= b * c
           /\ a * c <= b * c => a <= b \/ c = 0
           /\ a * c = b * c => a = b \/ c = 0
<1>1. a * b \in Nat /\ a * b = b * a
  OBVIOUS
<1>2. (a * b) * c = a * (b * c)
  OBVIOUS
<1>3. a <= b => a * c <= b * c
  OBVIOUS
<1>4. a * c <= b * c => a <= b \/ c = 0
  OBVIOUS
<1>5. a * c = b * c => a = b \/ c = 0
  OBVIOUS
<1> QED BY <1>1, <1>2, <1>3, <1>4, <1>5

\* Fractions are ordered by what their numerators and denominators make crosswise.
LEMMA FractionsOrdered ==
    ASSUME NEW a \in Nat, NEW x \in Nat \ {0}, NEW b \in Nat, NEW y \in Nat \ {0},
           NEW c \in Nat, NEW z \in Nat \ {0},
           a * y <= b * x, b * z <= c * y
    PROVE  a * z <= c * x
<1>1. (a * y) * z <= (b * x) * z /\ (b * z) * x <= (c * y) * x
  <2>1. a * y \in Nat /\ b * x \in Nat /\ b * z \in Nat /\ c * y \in Nat
    OBVIOUS
  <2> QED BY <2>1, Products
<1>2. (a * y) * z = (a * z) * y /\ (c * y) * x = (c * x) * y /\ (b * z) * x = (b * x) * z
  OBVIOUS
<1>3. a * z \in Nat /\ c * x \in Nat
  OBVIOUS
<1>4. (a * z) * y <= (c * x) * y
  <2>1. (a * z) * y \in Int /\ (c * x) * y \in Int /\ (b * x) * z \in Int
    OBVIOUS
  <2> QED BY <1>1, <1>2, <2>1
<1> QED BY <1>3, <1>4, Products

IsLink(l) == l.n \in Nat /\ l.d \in Nat \ {0} /\ First(l) \in Nat /\ Second(l) \in Nat

\* The closest of some links is one of them, and no other is closer.
LEMMA ClosestIsClosest ==
    ASSUME NEW links, IsFiniteSet(links), links # {}, \A l \in links : IsLink(l)
    PROVE  Closest(links) \in links /\ \A k \in links : ~ Closer(k, Closest(links))
<1> DEFINE below(l) == {k \in links : ~ Closer(k, l)}
           h == [l \in links |-> Cardinality(below(l))]
           best == {l \in links : \A k \in links : ~ Closer(k, l)}
<1>1. ASSUME NEW l \in links PROVE IsFiniteSet(below(l)) /\ Cardinality(below(l)) \in Nat
  <2>1. IsFiniteSet(below(l))
    BY FS_Subset, Zenon
  <2> HIDE DEF below
  <2> QED BY <2>1, FS_CardinalityType
<1>2. \A l \in links : h[l] = Cardinality(below(l))
  OBVIOUS
<1>3. PICK l \in links : \A k \in links : h[k] <= h[l]
  <2> HIDE DEF h, below
  <2>1. \A s \in links : h[s] \in Nat
    BY <1>1, <1>2
  <2> QED BY <2>1, Peak
<1>4. ASSUME NEW k \in links, Closer(k, l) PROVE FALSE
  <2>1. \A m \in links : ~ Closer(m, l) => ~ Closer(m, k)
    <3> SUFFICES ASSUME NEW m \in links, ~ Closer(m, l) PROVE ~ Closer(m, k)
      OBVIOUS
    <3>1. /\ m.n \in Nat /\ m.d \in Nat \ {0} /\ l.n \in Nat /\ l.d \in Nat \ {0}
          /\ k.n \in Nat /\ k.d \in Nat \ {0}
      BY DEF IsLink
    <3>2. m.n * l.d <= l.n * m.d /\ l.n * k.d <= k.n * l.d
      BY <1>4, <3>1 DEF Closer
    <3>3. m.n * k.d <= k.n * m.d
      BY <3>1, <3>2, FractionsOrdered
    <3> QED BY <3>1, <3>3 DEF Closer
  <2>2. below(l) \subseteq below(k)
    BY <2>1
  <2>3. k \in below(k) /\ k \notin below(l)
    <3>1. ~ Closer(k, k)
      BY DEF Closer, IsLink
    <3> QED BY <1>4, <3>1
  <2>4. Cardinality(below(k)) <= Cardinality(below(l))
    <3> HIDE DEF below, h
    <3> QED BY <1>2, <1>3
  <2> HIDE DEF below
  <2>5. Cardinality(below(l)) <= Cardinality(below(k)) /\ (Cardinality(below(k)) = Cardinality(below(l)) => below(k) = below(l))
    BY <1>1, <2>2, FS_Subset
  <2>6. Cardinality(below(l)) \in Nat /\ Cardinality(below(k)) \in Nat
    BY <1>1
  <2> QED BY <2>3, <2>4, <2>5, <2>6
<1>5. best # {} /\ IsFiniteSet(best)
  <2>1. l \in best
    BY <1>4
  <2>2. IsFiniteSet(best)
    BY FS_Subset, Zenon
  <2> QED BY <2>1, <2>2
<1>6. \A k \in best : First(k) \in Nat /\ Second(k) \in Nat
  BY DEF IsLink
<1>7. \E k \in best : \A j \in best :
         First(k) > First(j) \/ (First(k) = First(j) /\ Second(k) >= Second(j))
  <2> HIDE DEF best
  <2> DEFINE f == [k \in best |-> First(k)]
             s == [k \in best |-> Second(k)]
  <2>1. \A k \in best : f[k] = First(k) /\ s[k] = Second(k)
    OBVIOUS
  <2> HIDE DEF f, s
  <2>2. PICK k \in best : \A j \in best : f[j] <= f[k]
    <3>1. \A j \in best : f[j] \in Nat
      BY <1>6, <2>1
    <3> QED BY <1>5, <3>1, Peak
  <2> DEFINE top == {j \in best : f[j] = f[k]}
  <2>3. PICK j \in top : \A i \in top : s[i] <= s[j]
    <3>1. IsFiniteSet(top)
      BY <1>5, FS_Subset, Zenon
    <3>2. k \in top /\ \A i \in top : s[i] \in Nat
      BY <1>6, <2>1
    <3> HIDE DEF top
    <3> QED BY <3>1, <3>2, Peak
  <2>4. ASSUME NEW i \in best
        PROVE  First(j) > First(i) \/ (First(j) = First(i) /\ Second(j) >= Second(i))
    <3>1. j \in best /\ f[j] = f[k] /\ f[i] <= f[j] /\ (f[i] = f[j] => s[i] <= s[j])
      BY <2>2, <2>3
    <3>2. First(i) \in Nat /\ First(j) \in Nat /\ Second(i) \in Nat /\ Second(j) \in Nat
      BY <1>6, <3>1
    <3> QED BY <2>1, <3>1, <3>2
  <2> QED BY <2>3, <2>4
<1>8. Closest(links) = CHOOSE k \in best : \A j \in best :
         First(k) > First(j) \/ (First(k) = First(j) /\ Second(k) >= Second(j))
  BY DEF Closest
<1>9. Closest(links) \in best
  <2> HIDE DEF best
  <2> QED BY <1>7, <1>8
<1> QED BY <1>9
----------------------------------------------------------------------------
(* Mining: how alike groups are *)

Comments == UNION {CommentsOf(n) : n \in DOMAIN Reviews}
Count(A, B, v) == Cardinality(Likenings(A, B, v))

LEMMA LikenessIs ==
    ASSUME NEW v \in DOMAIN Likeness, NEW c \in Comments, NEW d \in Comments
    PROVE  /\ LikenessOf(c, d, v) \in 0 .. 100
           /\ LikenessOf(c, d, v) = LikenessOf(d, c, v)
           /\ Review(c).at \in Nat
<1>1. ASSUME NEW b \in Comments PROVE Review(b).text \in DOMAIN Likeness[v] /\ Review(b).at \in Nat
  <2>1. PICK n \in DOMAIN Reviews : b \in CommentsOf(n)
    BY DEF Comments
  <2>2. PICK i \in DOMAIN Reviews[n] : b = <<n, i>>
    BY <2>1 DEF CommentsOf
  <2>3. Review(b) = Reviews[n][i]
    BY <2>2 DEF Review
  <2> QED BY <2>2, <2>3, MiningAssumption
<1>2. Review(c).text \in DOMAIN Likeness[v] /\ Review(d).text \in DOMAIN Likeness[v]
  BY <1>1
<1> QED BY <1>1, <1>2, MiningAssumption DEF LikenessOf

LEMMA LikeningsAreFinite ==
    ASSUME NEW v \in DOMAIN Likeness, NEW A, NEW B, A \subseteq Comments, B \subseteq Comments,
           IsFiniteSet(A), IsFiniteSet(B)
    PROVE  IsFiniteSet(Likenings(A, B, v)) /\ Count(A, B, v) \in Nat
<1>1. IsFiniteSet((A \X B) \X (1 .. 100))
  <2>1. IsFiniteSet(1 .. 100)
    <3>1. 1 \in Int /\ 100 \in Int
      OBVIOUS
    <3> QED BY <3>1, FS_Interval, Zenon
  <2>2. IsFiniteSet(A \X B)
    BY FS_Product
  <2> QED BY <2>1, <2>2, FS_Product, Zenon
<1>2. Likenings(A, B, v) \subseteq (A \X B) \X (1 .. 100)
  <2> SUFFICES ASSUME NEW p \in A \X B, NEW i \in 1 .. LikenessOf(p[1], p[2], v)
               PROVE  i \in 1 .. 100
    BY DEF Likenings
  <2>1. LikenessOf(p[1], p[2], v) \in 0 .. 100
    BY LikenessIs
  <2> QED BY <2>1
<1>3. IsFiniteSet(Likenings(A, B, v))
  BY <1>1, <1>2, FS_Subset
<1> QED BY <1>3, FS_CardinalityType DEF Count

LEMMA LikeningsAdd ==
    ASSUME NEW v \in DOMAIN Likeness, NEW A, NEW B, NEW C,
           A \subseteq Comments, B \subseteq Comments, C \subseteq Comments,
           IsFiniteSet(A), IsFiniteSet(B), IsFiniteSet(C), A \cap B = {}
    PROVE  Count(A \cup B, C, v) = Count(A, C, v) + Count(B, C, v)
<1>1. Likenings(A \cup B, C, v) = Likenings(A, C, v) \cup Likenings(B, C, v)
  BY DEF Likenings
<1>2. Likenings(A, C, v) \cap Likenings(B, C, v) = {}
  <2> SUFFICES ASSUME NEW e \in Likenings(A, C, v), e \in Likenings(B, C, v) PROVE FALSE
    OBVIOUS
  <2>1. PICK p \in A \X C : e \in {p} \X (1 .. LikenessOf(p[1], p[2], v))
    BY DEF Likenings
  <2>2. PICK q \in B \X C : e \in {q} \X (1 .. LikenessOf(q[1], q[2], v))
    BY DEF Likenings
  <2>3. p = q
    BY <2>1, <2>2
  <2> QED BY <2>3
<1>3. /\ IsFiniteSet(Likenings(A, C, v)) /\ Count(A, C, v) \in Nat
      /\ IsFiniteSet(Likenings(B, C, v)) /\ Count(B, C, v) \in Nat
  BY LikeningsAreFinite
<1>4. Cardinality(Likenings(A, C, v) \cup Likenings(B, C, v))
      = Cardinality(Likenings(A, C, v)) + Cardinality(Likenings(B, C, v)) - Cardinality({})
  BY <1>2, <1>3, FS_Union
<1>5. Cardinality({}) = 0
  BY FS_EmptySet
<1>6. Count(A \cup B, C, v) = Count(A, C, v) + Count(B, C, v) - 0
  BY <1>1, <1>4, <1>5, Zenon DEF Count
<1> QED BY <1>3, <1>6

LEMMA LikeningsTurn ==
    ASSUME NEW v \in DOMAIN Likeness, NEW A, NEW B, A \subseteq Comments, B \subseteq Comments,
           IsFiniteSet(A), IsFiniteSet(B)
    PROVE  Count(A, B, v) = Count(B, A, v)
<1> DEFINE S == Likenings(A, B, v)
           T == Likenings(B, A, v)
           f == [e \in S |-> <<<<e[1][2], e[1][1]>>, e[2]>>]
<1>1. ASSUME NEW e \in S
      PROVE  /\ e = <<<<e[1][1], e[1][2]>>, e[2]>>
             /\ f[e] = <<<<e[1][2], e[1][1]>>, e[2]>>
             /\ f[e] \in T
  <2>1. PICK p \in A \X B : e \in {p} \X (1 .. LikenessOf(p[1], p[2], v))
    BY DEF Likenings
  <2>2. PICK a \in A, b \in B : p = <<a, b>>
    OBVIOUS
  <2>3. PICK i \in 1 .. LikenessOf(a, b, v) : e = <<<<a, b>>, i>>
    BY <2>1, <2>2
  <2>4. f[e] = <<<<b, a>>, i>>
    BY <2>3
  <2>5. i \in 1 .. LikenessOf(b, a, v)
    <3>1. LikenessOf(b, a, v) = LikenessOf(a, b, v)
      BY LikenessIs
    <3> QED BY <3>1
  <2> DEFINE q == <<b, a>>
  <2>6. q \in B \X A /\ q[1] = b /\ q[2] = a
    OBVIOUS
  <2>7. <<q, i>> \in {q} \X (1 .. LikenessOf(q[1], q[2], v))
    BY <2>5, <2>6
  <2>8. <<q, i>> \in T
    <3> HIDE DEF q, f
    <3> QED BY <2>6, <2>7 DEF Likenings
  <2> HIDE DEF T
  <2> QED BY <2>3, <2>4, <2>8
<1>2. \A d, e \in S : f[d] = f[e] => d = e
  <2> SUFFICES ASSUME NEW d \in S, NEW e \in S, f[d] = f[e] PROVE d = e
    OBVIOUS
  <2> HIDE DEF S, T
  <2>1. f[d] = <<<<d[1][2], d[1][1]>>, d[2]>> /\ f[e] = <<<<e[1][2], e[1][1]>>, e[2]>>
    BY <1>1
  <2>2. d[1][1] = e[1][1] /\ d[1][2] = e[1][2] /\ d[2] = e[2]
    BY <2>1
  <2> QED BY <1>1, <2>2
<1>3. ASSUME NEW t \in T PROVE \E e \in S : f[e] = t
  <2>1. PICK p \in B \X A : t \in {p} \X (1 .. LikenessOf(p[1], p[2], v))
    BY DEF Likenings
  <2>2. PICK b \in B, a \in A : p = <<b, a>>
    OBVIOUS
  <2>3. PICK i \in 1 .. LikenessOf(b, a, v) : t = <<<<b, a>>, i>>
    BY <2>1, <2>2
  <2>4. i \in 1 .. LikenessOf(a, b, v)
    <3>1. LikenessOf(b, a, v) = LikenessOf(a, b, v)
      BY LikenessIs
    <3> QED BY <3>1
  <2> DEFINE q == <<a, b>>
  <2>5. q \in A \X B /\ q[1] = a /\ q[2] = b
    OBVIOUS
  <2>6. <<q, i>> \in S
    <3>1. <<q, i>> \in {q} \X (1 .. LikenessOf(q[1], q[2], v))
      BY <2>4, <2>5
    <3> HIDE DEF q, f
    <3> QED BY <2>5, <3>1 DEF Likenings
  <2>7. f[<<q, i>>] = t
    <3> HIDE DEF S
    <3> QED BY <2>3, <2>6
  <2> QED BY <2>6, <2>7
<1>4. f \in Bijection(S, T)
  <2>1. f \in [S -> T]
    <3>1. \A e \in S : f[e] \in T
      BY <1>1
    <3> HIDE DEF S, T
    <3> QED BY <3>1
  <2> HIDE DEF f, S, T
  <2> QED BY <1>2, <1>3, <2>1 DEF Bijection, Injection, IsInjective, Surjection
<1>5. ExistsBijection(S, T) /\ IsFiniteSet(S)
  <2> HIDE DEF f
  <2> QED BY <1>4, LikeningsAreFinite DEF ExistsBijection
<1> HIDE DEF S, T
<1>6. Cardinality(T) = Cardinality(S)
  BY <1>5, FS_Bijection
<1> QED BY <1>6 DEF S, T, Count

LEMMA LikeningsOfTwo ==
    ASSUME NEW v \in DOMAIN Likeness, NEW c \in Comments, NEW d \in Comments
    PROVE  Count({c}, {d}, v) = LikenessOf(c, d, v)
<1> DEFINE p == <<c, d>>
           n == LikenessOf(c, d, v)
<1>1. {c} \X {d} = {p} /\ p[1] = c /\ p[2] = d
  OBVIOUS
<1> HIDE DEF p
<1>2. Likenings({c}, {d}, v) = {p} \X (1 .. n)
  BY <1>1 DEF Likenings
<1>3. n \in Nat
  BY LikenessIs
<1> HIDE DEF n
<1>4. /\ IsFiniteSet({p}) /\ Cardinality({p}) = 1
      /\ IsFiniteSet(1 .. n) /\ Cardinality(1 .. n) = n
  <2>1. IsFiniteSet(1 .. n) /\ Cardinality(1 .. n) = IF 1 > n THEN 0 ELSE n - 1 + 1
    BY <1>3, FS_Interval
  <2>2. Cardinality(1 .. n) = n
    BY <1>3, <2>1
  <2> QED BY <2>1, <2>2, FS_Singleton
<1>5. Cardinality({p} \X (1 .. n)) = 1 * n
  BY <1>4, FS_Product
<1>6. 1 * n = n
  BY <1>3
<1>7. Count({c}, {d}, v) = n
  BY <1>2, <1>5, <1>6, Zenon DEF Count
<1> QED BY <1>7 DEF n
----------------------------------------------------------------------------
(* Mining: what a round of joining keeps *)

\* A link is the mean over the pairs of its groups.
Weighs(l, A, B, v) ==
    /\ l.n \in Nat /\ l.d \in Nat \ {0}
    /\ l.n * (Cardinality(A) * Cardinality(B)) = l.d * Count(A, B, v)

\* Groups of some of U that have nothing in common, each two with a link, and each of
\* more than one from two parts that are alike.
Apart(U, g) ==
    /\ IsFiniteSet(g.groups)
    /\ \A A \in g.groups : A # {} /\ A \subseteq U
    /\ \A A, B \in g.groups : A # B => A \cap B = {}
Linked(g, v) ==
    /\ IsFiniteSet(g.links)
    /\ \A A, B \in g.groups : A # B => \E l \in g.links : l.groups = {A, B}
    /\ \A l \in g.links : \E A, B \in g.groups :
         A # B /\ l.groups = {A, B} /\ Weighs(l, A, B, v)
Joined(G, v) ==
    Cardinality(G) > 1 => \E A \in (SUBSET G) \ {{}, G} : Alike(A, G \ A, v)
Grouping(U, v, g) == Apart(U, g) /\ Linked(g, v) /\ \A G \in g.groups : Joined(G, v)

LEMMA WeighsTurned ==
    ASSUME NEW v \in DOMAIN Likeness, NEW A, NEW B, A \subseteq Comments, B \subseteq Comments,
           IsFiniteSet(A), IsFiniteSet(B), NEW l, Weighs(l, A, B, v)
    PROVE  Weighs(l, B, A, v)
<1>1. Cardinality(A) \in Nat /\ Cardinality(B) \in Nat
  BY FS_CardinalityType
<1>2. Cardinality(A) * Cardinality(B) = Cardinality(B) * Cardinality(A)
  BY <1>1, Products
<1>3. Count(A, B, v) = Count(B, A, v)
  BY LikeningsTurn
<1> QED BY <1>2, <1>3, Zenon DEF Weighs

\* The mean of two means, each weighed with its size.
Means(m, n, c, kn, kd, ln, ld, P, Q, x, y) ==
    /\ m \in Nat \ {0} /\ n \in Nat \ {0} /\ c \in Nat \ {0}
    /\ kn \in Nat /\ kd \in Nat \ {0} /\ ln \in Nat /\ ld \in Nat \ {0}
    /\ P \in Nat /\ Q \in Nat /\ x \in Nat /\ y \in Nat \ {0}
    /\ kn * (m * c) = kd * P /\ ln * (n * c) = ld * Q
    /\ x * ((m + n) * kd * ld) = y * (m * kn * ld + n * ln * kd)

LEMMA MeanOfMeans ==
    ASSUME NEW m, NEW n, NEW c, NEW kn, NEW kd, NEW ln, NEW ld, NEW P, NEW Q, NEW x, NEW y,
           Means(m, n, c, kn, kd, ln, ld, P, Q, x, y)
    PROVE  x * ((m + n) * c) = y * (P + Q)
<1> USE DEF Means
<1>1. (m * kn * ld) * c = (kd * P) * ld /\ (n * ln * kd) * c = (ld * Q) * kd
  <2>1. (m * kn * ld) * c = (kn * (m * c)) * ld
    OBVIOUS
  <2>2. (n * ln * kd) * c = (ln * (n * c)) * kd
    OBVIOUS
  <2> QED BY <2>1, <2>2
<1>2. (m * kn * ld + n * ln * kd) * c = (P + Q) * (kd * ld)
  <2>1. (m * kn * ld + n * ln * kd) * c = (m * kn * ld) * c + (n * ln * kd) * c
    <3> DEFINE a == m * kn * ld
               b == n * ln * kd
    <3>1. a \in Nat /\ b \in Nat
      OBVIOUS
    <3> HIDE DEF a, b
    <3>2. (a + b) * c = a * c + b * c
      BY <3>1
    <3> QED BY <3>2 DEF a, b
  <2>2. (P + Q) * (kd * ld) = (kd * P) * ld + (ld * Q) * kd
    OBVIOUS
  <2> QED BY <1>1, <2>1, <2>2
<1>3. (x * ((m + n) * kd * ld)) * c = (x * ((m + n) * c)) * (kd * ld)
  <2> DEFINE s == m + n
  <2>1. s \in Nat
    OBVIOUS
  <2> HIDE DEF s
  <2>2. (x * (s * kd * ld)) * c = (x * (s * c)) * (kd * ld)
    BY <2>1
  <2> QED BY <2>2 DEF s
<1>4. (y * (m * kn * ld + n * ln * kd)) * c = y * ((m * kn * ld + n * ln * kd) * c)
  <2> DEFINE s == m * kn * ld + n * ln * kd
  <2>1. s \in Nat
    OBVIOUS
  <2> HIDE DEF s
  <2>2. (y * s) * c = y * (s * c)
    BY <2>1
  <2> QED BY <2>2 DEF s
<1>5. y * ((P + Q) * (kd * ld)) = (y * (P + Q)) * (kd * ld)
  <2> DEFINE s == P + Q
             e == kd * ld
  <2>1. s \in Nat /\ e \in Nat
    OBVIOUS
  <2> HIDE DEF s, e
  <2>2. y * (s * e) = (y * s) * e
    BY <2>1
  <2> QED BY <2>2 DEF s, e
<1>6. (x * ((m + n) * c)) * (kd * ld) = (y * (P + Q)) * (kd * ld)
  BY <1>2, <1>3, <1>4, <1>5
<1>7. kd * ld \in Nat /\ kd * ld # 0 /\ x * ((m + n) * c) \in Nat /\ y * (P + Q) \in Nat
  OBVIOUS
<1> QED BY <1>6, <1>7, Products

LEMMA AverageWeighs ==
    ASSUME NEW v \in DOMAIN Likeness, NEW A, NEW B, NEW C, A # {}, B # {}, C # {},
           A \subseteq Comments, B \subseteq Comments, C \subseteq Comments,
           IsFiniteSet(A), IsFiniteSet(B), IsFiniteSet(C), A \cap B = {},
           NEW k, NEW l, Weighs(k, A, C, v), Weighs(l, B, C, v)
    PROVE  LET r == Average(k, Cardinality(A), l, Cardinality(B), A \cup B, C)
           IN  r.groups = {A \cup B, C} /\ Weighs(r, A \cup B, C, v)
<1> DEFINE m == Cardinality(A)
           n == Cardinality(B)
           c == Cardinality(C)
           N == m * k.n * l.d + n * l.n * k.d
           D == (m + n) * k.d * l.d
           r == Link(A \cup B, C, N, D)
<1>1. m \in Nat \ {0} /\ n \in Nat \ {0} /\ c \in Nat \ {0}
  BY FS_CardinalityType, FS_EmptySet
<1>2. Cardinality(A \cup B) = m + n
  <2>1. Cardinality(A \cup B) = m + n - Cardinality({})
    BY FS_Union
  <2>2. Cardinality({}) = 0
    BY FS_EmptySet
  <2> HIDE DEF m, n
  <2>3. m + n - 0 = m + n
    BY <1>1
  <2> QED BY <2>1, <2>2, <2>3
<1>3. Count(A \cup B, C, v) = Count(A, C, v) + Count(B, C, v)
  BY LikeningsAdd
<1>4. Count(A, C, v) \in Nat /\ Count(B, C, v) \in Nat
  BY LikeningsAreFinite
<1>5. /\ k.n \in Nat /\ k.d \in Nat \ {0} /\ k.n * (m * c) = k.d * Count(A, C, v)
      /\ l.n \in Nat /\ l.d \in Nat \ {0} /\ l.n * (n * c) = l.d * Count(B, C, v)
  BY DEF Weighs
<1> HIDE DEF m, n, c
<1>6. N \in Nat /\ D \in Nat \ {0}
  <2>1. N \in Nat
    BY <1>1, <1>5
  <2>2. D \in Nat /\ D # 0
    <3>1. m + n \in Nat /\ m + n # 0 /\ k.d \in Nat /\ k.d # 0 /\ l.d \in Nat /\ l.d # 0
      BY <1>1, <1>5
    <3>2. (m + n) * k.d \in Nat /\ (m + n) * k.d # 0
      BY <3>1
    <3> QED BY <3>1, <3>2
  <2> QED BY <2>1, <2>2
<1> HIDE DEF N, D
<1>7. /\ r.groups = {A \cup B, C} /\ r.n \in Nat /\ r.d \in Nat \ {0}
      /\ r.n * D = r.d * N
  <2> DEFINE E == A \cup B
  <2> HIDE DEF E
  <2>1. Between(Link(E, C, N, D), E, C, N, D)
    BY <1>6, LinkIsFraction, Zenon
  <2> QED BY <2>1 DEF E, Between
<1> HIDE DEF r
<1>8. r.n * ((m + n) * c) = r.d * (Count(A, C, v) + Count(B, C, v))
  <2> DEFINE kn == k.n
             kd == k.d
             ln == l.n
             ld == l.d
             P == Count(A, C, v)
             Q == Count(B, C, v)
             x == r.n
             y == r.d
  <2>1. Means(m, n, c, kn, kd, ln, ld, P, Q, x, y)
    BY <1>1, <1>4, <1>5, <1>7 DEF N, D, Means
  <2> HIDE DEF kn, kd, ln, ld, P, Q, x, y
  <2>2. x * ((m + n) * c) = y * (P + Q)
    BY <2>1, MeanOfMeans
  <2> QED BY <2>2 DEF P, Q, x, y
<1>9. Weighs(r, A \cup B, C, v)
  BY <1>2, <1>3, <1>7, <1>8 DEF Weighs, c
<1>10. Average(k, Cardinality(A), l, Cardinality(B), A \cup B, C) = r
  BY DEF Average, r, N, D, m, n
<1> QED BY <1>7, <1>9, <1>10

\* Each comment alone: one group for each, and between two the likeness of their texts.
LEMMA AloneIsGrouping ==
    ASSUME NEW v \in DOMAIN Likeness, NEW U, U \subseteq Comments, IsFiniteSet(U)
    PROVE  /\ Grouping(U, v, Alone(U, v))
           /\ Cardinality(Alone(U, v).groups) <= Cardinality(U)
<1> DEFINE g == Alone(U, v)
           f == [c \in U |-> {c}]
           h == [p \in U \X U |-> Link({p[1]}, {p[2]}, LikenessOf(p[1], p[2], v), 1)]
           all == {h[p] : p \in U \X U}
<1>1. /\ g.groups = {{c} : c \in U}
      /\ g.links = {Link({p[1]}, {p[2]}, LikenessOf(p[1], p[2], v), 1) :
                    p \in {p \in U \X U : p[1] # p[2]}}
  BY DEF Alone
<1> HIDE DEF g
<1>2. IsFiniteSet(g.groups) /\ Cardinality(g.groups) <= Cardinality(U)
  <2>1. f \in Surjection(U, g.groups)
    BY <1>1 DEF Surjection
  <2> HIDE DEF f
  <2> QED BY <2>1, FS_Surjection
<1>3. Apart(U, g)
  <2>1. ASSUME NEW A \in g.groups PROVE A # {} /\ A \subseteq U
    BY <1>1
  <2>2. ASSUME NEW A \in g.groups, NEW B \in g.groups, A # B PROVE A \cap B = {}
    <3>1. PICK c \in U, d \in U : A = {c} /\ B = {d}
      BY <1>1
    <3> QED BY <2>2, <3>1
  <2> QED BY <1>2, <2>1, <2>2 DEF Apart
<1>4. IsFiniteSet(g.links)
  <2>1. h \in Surjection(U \X U, all)
    BY DEF Surjection
  <2>2. IsFiniteSet(all)
    <3>1. IsFiniteSet(U \X U)
      BY FS_Product
    <3> HIDE DEF h, all
    <3> QED BY <2>1, <3>1, FS_Surjection, Zenon
  <2>3. g.links \subseteq all
    <3>1. \A p \in U \X U : Link({p[1]}, {p[2]}, LikenessOf(p[1], p[2], v), 1) = h[p]
      OBVIOUS
    <3> HIDE DEF h
    <3> QED BY <1>1, <3>1
  <2> HIDE DEF all
  <2> QED BY <2>2, <2>3, FS_Subset, Zenon
<1>5. ASSUME NEW c \in U, NEW d \in U
      PROVE  LET l == Link({c}, {d}, LikenessOf(c, d, v), 1)
             IN  l.groups = {{c}, {d}} /\ Weighs(l, {c}, {d}, v)
  <2> DEFINE A == {c}
             B == {d}
             n == LikenessOf(c, d, v)
             l == Link(A, B, n, 1)
  <2>1. n \in Nat /\ Count(A, B, v) = n
    BY LikeningsOfTwo, LikenessIs
  <2>2. Cardinality(A) = 1 /\ Cardinality(B) = 1
    BY FS_Singleton
  <2> HIDE DEF A, B, n
  <2>3. Between(l, A, B, n, 1)
    BY <2>1, LinkIsFraction
  <2> HIDE DEF l
  <2>4. l.groups = {A, B} /\ Weighs(l, A, B, v)
    BY <2>1, <2>2, <2>3 DEF Between, Weighs
  <2> QED BY <2>4 DEF l, A, B, n
<1>6. Linked(g, v)
  <2>1. ASSUME NEW A \in g.groups, NEW B \in g.groups, A # B
        PROVE  \E l \in g.links : l.groups = {A, B}
    <3>1. PICK c \in U, d \in U : A = {c} /\ B = {d}
      BY <1>1
    <3> DEFINE p == <<c, d>>
    <3>2. p \in U \X U /\ p[1] = c /\ p[2] = d /\ p[1] # p[2]
      BY <2>1, <3>1
    <3> HIDE DEF p
    <3>3. Link({c}, {d}, LikenessOf(c, d, v), 1) \in g.links
      BY <1>1, <3>2
    <3> QED BY <1>5, <3>1, <3>3
  <2>2. ASSUME NEW l \in g.links
        PROVE  \E A, B \in g.groups : A # B /\ l.groups = {A, B} /\ Weighs(l, A, B, v)
    <3>1. PICK p \in U \X U : /\ p[1] # p[2]
                              /\ l = Link({p[1]}, {p[2]}, LikenessOf(p[1], p[2], v), 1)
      BY <1>1
    <3>2. p[1] \in U /\ p[2] \in U /\ {p[1]} \in g.groups /\ {p[2]} \in g.groups /\ {p[1]} # {p[2]}
      BY <1>1, <3>1
    <3>3. l.groups = {{p[1]}, {p[2]}} /\ Weighs(l, {p[1]}, {p[2]}, v)
      BY <1>5, <3>1, <3>2
    <3> QED BY <3>2, <3>3
  <2> QED BY <1>4, <2>1, <2>2 DEF Linked
<1>7. ASSUME NEW G \in g.groups PROVE Joined(G, v)
  <2>1. PICK c \in U : G = {c}
    BY <1>1
  <2>2. Cardinality(G) = 1
    BY <2>1, FS_Singleton
  <2> QED BY <2>2 DEF Joined
<1>8. Grouping(U, v, g)
  BY <1>3, <1>6, <1>7 DEF Grouping
<1> QED BY <1>2, <1>8 DEF g

\* The groups of a grouping are finite sets of comments.
LEMMA GroupsAre ==
    ASSUME NEW U, U \subseteq Comments, IsFiniteSet(U), NEW g, Apart(U, g), NEW A \in g.groups
    PROVE  /\ A \subseteq Comments /\ A # {} /\ IsFiniteSet(A) /\ Cardinality(A) \in Nat \ {0}
<1>1. A \subseteq U /\ A # {}
  BY DEF Apart
<1>2. IsFiniteSet(A)
  BY <1>1, FS_Subset
<1>3. Cardinality(A) \in Nat /\ Cardinality(A) # 0
  BY <1>1, <1>2, FS_CardinalityType, FS_EmptySet
<1> QED BY <1>1, <1>2, <1>3

LEMMA NewestIs ==
    ASSUME NEW v \in DOMAIN Likeness, NEW A, A \subseteq Comments, A # {}, IsFiniteSet(A)
    PROVE  Newest(A) \in Nat
<1> DEFINE h == [c \in A |-> Review(c).at]
<1>1. \A c \in A : h[c] = Review(c).at /\ Review(c).at \in Nat
  BY LikenessIs
<1> HIDE DEF h
<1>2. PICK c \in A : \A d \in A : h[d] <= h[c]
  <2>1. \A d \in A : h[d] \in Nat
    BY <1>1
  <2> QED BY <2>1, Peak
<1>3. \E x \in {Review(d).at : d \in A} : \A y \in {Review(d).at : d \in A} : x >= y
  BY <1>1, <1>2
<1>4. Newest(A) \in {Review(d).at : d \in A}
  BY <1>3 DEF Newest, F!Max
<1> QED BY <1>1, <1>4

\* A link between two groups has its weight, and can be placed among the others.
LEMMA LinksAre ==
    ASSUME NEW v \in DOMAIN Likeness, NEW U, U \subseteq Comments, IsFiniteSet(U),
           NEW g, Apart(U, g), Linked(g, v), NEW l \in g.links
    PROVE  /\ IsLink(l)
           /\ \A A, B : l.groups = {A, B} =>
                /\ A \in g.groups /\ B \in g.groups /\ A # B
                /\ Weighs(l, A, B, v)
<1>1. PICK A \in g.groups, B \in g.groups : A # B /\ l.groups = {A, B} /\ Weighs(l, A, B, v)
  BY DEF Linked
<1>2. /\ A \subseteq Comments /\ A # {} /\ IsFiniteSet(A)
      /\ B \subseteq Comments /\ B # {} /\ IsFiniteSet(B)
  BY GroupsAre
<1>3. Newest(A) \in Nat /\ Newest(B) \in Nat
  BY <1>2, NewestIs
<1>4. First(l) \in Nat /\ Second(l) \in Nat
  <2> DEFINE a == Newest(A)
             b == Newest(B)
  <2>1. {Newest(C) : C \in l.groups} = {a, b}
    BY <1>1
  <2> HIDE DEF a, b
  <2>2. a \in Nat /\ b \in Nat
    BY <1>3 DEF a, b
  <2>3. \E x \in {a, b} : \A y \in {a, b} : x >= y
    BY <2>2
  <2>4. \E x \in {a, b} : \A y \in {a, b} : x <= y
    BY <2>2
  <2>5. F!Max({a, b}) \in {a, b} /\ F!Min({a, b}) \in {a, b}
    BY <2>3, <2>4 DEF F!Max, F!Min
  <2>6. F!Max({a, b}) \in Nat /\ F!Min({a, b}) \in Nat
    BY <2>2, <2>5
  <2> QED BY <2>1, <2>6 DEF First, Second
<1>5. IsLink(l)
  BY <1>1, <1>4 DEF IsLink, Weighs
<1>6. Weighs(l, B, A, v)
  BY <1>1, <1>2, WeighsTurned
<1>7. ASSUME NEW C, NEW D, l.groups = {C, D}
      PROVE  C \in g.groups /\ D \in g.groups /\ C # D /\ Weighs(l, C, D, v)
  <2>1. (C = A /\ D = B) \/ (C = B /\ D = A)
    BY <1>1, <1>7
  <2>2. CASE C = A /\ D = B
    BY <1>1, <2>2
  <2>3. CASE C = B /\ D = A
    BY <1>1, <1>6, <2>3
  <2> QED BY <2>1, <2>2, <2>3
<1> QED BY <1>5, <1>7

\* The means of two parts with a third are alike if and only if the fraction says so.
LEMMA AlikeIsWeight ==
    ASSUME NEW v \in DOMAIN Likeness, NEW A, NEW B, A # {}, B # {},
           A \subseteq Comments, B \subseteq Comments, IsFiniteSet(A), IsFiniteSet(B),
           NEW l, Weighs(l, A, B, v)
    PROVE  Alike(A, B, v) <=> l.n >= Threshold[v] * l.d
<1> DEFINE t == Threshold[v]
           p == Cardinality(A) * Cardinality(B)
           q == Count(A, B, v)
           n == l.n
           d == l.d
<1>1. t \in Nat /\ q \in Nat
  BY MiningAssumption, LikeningsAreFinite
<1>2. p \in Nat /\ p # 0
  <2> DEFINE a == Cardinality(A)
             b == Cardinality(B)
  <2>1. a \in Nat /\ a # 0 /\ b \in Nat /\ b # 0
    BY FS_CardinalityType, FS_EmptySet
  <2> HIDE DEF a, b
  <2>2. a * b \in Nat /\ a * b # 0
    BY <2>1
  <2> QED BY <2>2 DEF a, b
<1>3. n \in Nat /\ d \in Nat /\ d # 0 /\ n * p = d * q
  BY DEF Weighs
<1>4. Alike(A, B, v) <=> q >= t * p
  BY DEF Alike, Count
<1> HIDE DEF t, p, q, n, d
<1>5. d * (t * p) = (t * d) * p /\ t * p \in Nat /\ t * d \in Nat
  BY <1>1, <1>2, <1>3
<1>6. ASSUME q >= t * p PROVE n >= t * d
  <2>1. (t * p) * d <= q * d
    BY <1>1, <1>3, <1>5, <1>6, Products
  <2>2. (t * d) * p <= n * p
    <3>1. (t * p) * d = (t * d) * p /\ q * d = n * p
      BY <1>1, <1>2, <1>3
    <3> QED BY <2>1, <3>1
  <2> QED BY <1>2, <1>3, <1>5, <2>2, Products
<1>7. ASSUME n >= t * d PROVE q >= t * p
  <2>1. (t * d) * p <= n * p
    BY <1>2, <1>3, <1>5, <1>7, Products
  <2>2. (t * p) * d <= q * d
    <3>1. (t * p) * d = (t * d) * p /\ q * d = n * p
      BY <1>1, <1>2, <1>3
    <3> QED BY <2>1, <3>1
  <2> QED BY <1>1, <1>3, <1>5, <2>2, Products
<1>8. n >= t * d <=> l.n >= Threshold[v] * l.d
  BY DEF n, t, d
<1> QED BY <1>4, <1>6, <1>7, <1>8

\* Joining two groups that are alike keeps a grouping, of one group less.
LEMMA JoinKeeps ==
    ASSUME NEW v \in DOMAIN Likeness, NEW U, U \subseteq Comments, IsFiniteSet(U),
           NEW g, Grouping(U, v, g), NEW A \in g.groups, NEW B \in g.groups, A # B,
           Alike(A, B, v)
    PROVE  /\ Grouping(U, v, Join(g, A, B))
           /\ Cardinality(Join(g, A, B).groups) = Cardinality(g.groups) - 1
<1> DEFINE others == g.groups \ {A, B}
           G == A \cup B
           mean(C) == Average(LinkOf(g.links, A, C), Cardinality(A),
                              LinkOf(g.links, B, C), Cardinality(B), G, C)
           h == [C \in others |-> mean(C)]
           j == Join(g, A, B)
<1>1. Apart(U, g) /\ Linked(g, v) /\ \A C \in g.groups : Joined(C, v)
  BY DEF Grouping
<1>2. \A C \in g.groups : C \subseteq Comments /\ C # {} /\ IsFiniteSet(C)
  BY <1>1, GroupsAre
<1>3. A \cap B = {} /\ \A C \in others : G \cap C = {} /\ G # C
  <2>1. A \cap B = {}
    BY <1>1 DEF Apart
  <2>2. ASSUME NEW C \in others PROVE G \cap C = {} /\ G # C
    <3>1. A \cap C = {} /\ B \cap C = {} /\ A # {}
      BY <1>1 DEF Apart
    <3> QED BY <3>1
  <2> QED BY <2>1, <2>2
<1>4. /\ j.groups = others \cup {G}
      /\ j.links = {l \in g.links : l.groups \subseteq others} \cup {mean(C) : C \in others}
  BY DEF Join
<1> HIDE DEF j
<1>5. IsFiniteSet(others)
  <2>1. IsFiniteSet(g.groups)
    BY <1>1 DEF Apart
  <2> QED BY <2>1, FS_Difference
<1>6. /\ IsFiniteSet(j.groups) /\ Cardinality(j.groups) = Cardinality(g.groups) - 1
  <2>1. IsFiniteSet(g.groups) /\ Cardinality(g.groups) \in Nat
    BY <1>1, FS_CardinalityType DEF Apart
  <2>2. IsFiniteSet(g.groups \ {A}) /\ Cardinality(g.groups \ {A}) = Cardinality(g.groups) - 1
    BY <2>1, FS_RemoveElement
  <2>3. others = (g.groups \ {A}) \ {B} /\ B \in g.groups \ {A}
    OBVIOUS
  <2>4. Cardinality(others) = Cardinality(g.groups) - 1 - 1
    <3> DEFINE S == g.groups \ {A}
    <3>1. IsFiniteSet(S) /\ B \in S /\ others = S \ {B}
      BY <2>2, <2>3
    <3> HIDE DEF S, others
    <3>2. Cardinality(S \ {B}) = Cardinality(S) - 1
      BY <3>1, FS_RemoveElement, Zenon
    <3>3. Cardinality(S) = Cardinality(g.groups) - 1
      BY <2>2 DEF S
    <3> QED BY <3>1, <3>2, <3>3
  <2>5. G \notin others
    BY <1>3
  <2> HIDE DEF others
  <2>6. IsFiniteSet(others \cup {G}) /\ Cardinality(others \cup {G}) = Cardinality(others) + 1
    BY <1>5, <2>5, FS_AddElement, Zenon
  <2> QED BY <1>4, <2>1, <2>4, <2>6
<1>7. Apart(U, j)
  <2>1. ASSUME NEW C \in j.groups PROVE C # {} /\ C \subseteq U
    <3>1. C \in g.groups \/ C = G
      BY <1>4
    <3>2. \A D \in g.groups : D # {} /\ D \subseteq U
      BY <1>1 DEF Apart
    <3> QED BY <3>1, <3>2
  <2>2. ASSUME NEW C \in j.groups, NEW D \in j.groups, C # D PROVE C \cap D = {}
    <3>1. CASE C \in others /\ D \in others
      BY <1>1, <2>2, <3>1 DEF Apart
    <3>2. CASE C \in others /\ D = G
      BY <1>3, <3>2
    <3>3. CASE C = G /\ D \in others
      BY <1>3, <3>3
    <3>4. C \in others \/ C = G
      BY <1>4
    <3>5. D \in others \/ D = G
      BY <1>4
    <3> QED BY <2>2, <3>1, <3>2, <3>3, <3>4, <3>5
  <2> QED BY <1>6, <2>1, <2>2 DEF Apart
<1>8. ASSUME NEW C \in others PROVE mean(C).groups = {G, C} /\ Weighs(mean(C), G, C, v)
  <2> DEFINE k == LinkOf(g.links, A, C)
             l == LinkOf(g.links, B, C)
  <2>1. \A D \in {A, B} : /\ LinkOf(g.links, D, C) \in g.links
                          /\ LinkOf(g.links, D, C).groups = {D, C}
    <3> SUFFICES ASSUME NEW D \in {A, B}
                 PROVE  /\ LinkOf(g.links, D, C) \in g.links
                        /\ LinkOf(g.links, D, C).groups = {D, C}
      OBVIOUS
    <3>1. \E m \in g.links : m.groups = {D, C}
      BY <1>1 DEF Linked
    <3> QED BY <3>1 DEF LinkOf
  <2>2. Weighs(k, A, C, v) /\ Weighs(l, B, C, v)
    <3>1. k \in g.links /\ k.groups = {A, C} /\ l \in g.links /\ l.groups = {B, C}
      BY <2>1
    <3> HIDE DEF k, l
    <3> QED BY <1>1, <3>1, LinksAre
  <2> HIDE DEF k, l
  <2>3. LET r == Average(k, Cardinality(A), l, Cardinality(B), A \cup B, C)
        IN  r.groups = {A \cup B, C} /\ Weighs(r, A \cup B, C, v)
    BY <1>2, <1>3, <2>2, AverageWeighs
  <2> QED BY <2>3 DEF k, l
<1> HIDE DEF mean
<1>9. IsFiniteSet(j.links)
  <2> DEFINE new == {mean(C) : C \in others}
             old == {l \in g.links : l.groups \subseteq others}
  <2>1. h \in Surjection(others, new)
    BY DEF Surjection
  <2>2. IsFiniteSet(new)
    <3> HIDE DEF h, others, new
    <3> QED BY <1>5, <2>1, FS_Surjection, Zenon
  <2>3. IsFiniteSet(old)
    <3>1. IsFiniteSet(g.links)
      BY <1>1 DEF Linked
    <3> QED BY <3>1, FS_Subset, Zenon
  <2>4. j.links = old \cup new
    BY <1>4
  <2> HIDE DEF old, new
  <2> QED BY <2>2, <2>3, <2>4, FS_Union, Zenon
<1>10. Linked(j, v)
  <2>1. ASSUME NEW C \in j.groups, NEW D \in j.groups, C # D
        PROVE  \E l \in j.links : l.groups = {C, D}
    <3>1. CASE C \in others /\ D \in others
      <4>1. PICK l \in g.links : l.groups = {C, D}
        BY <1>1, <2>1, <3>1 DEF Linked
      <4>2. l \in j.links
        BY <1>4, <3>1, <4>1
      <4> QED BY <4>1, <4>2
    <3>2. CASE C \in others /\ D = G
      <4>1. mean(C) \in j.links /\ mean(C).groups = {C, D}
        BY <1>4, <1>8, <3>2
      <4> QED BY <4>1
    <3>3. CASE C = G /\ D \in others
      <4>1. mean(D) \in j.links /\ mean(D).groups = {C, D}
        BY <1>4, <1>8, <3>3
      <4> QED BY <4>1
    <3>4. (C \in others \/ C = G) /\ (D \in others \/ D = G)
      BY <1>4
    <3> QED BY <2>1, <3>1, <3>2, <3>3, <3>4
  <2>2. ASSUME NEW l \in j.links
        PROVE  \E C, D \in j.groups : C # D /\ l.groups = {C, D} /\ Weighs(l, C, D, v)
    <3>1. CASE l \in g.links /\ l.groups \subseteq others
      <4>1. PICK C \in g.groups, D \in g.groups : C # D /\ l.groups = {C, D} /\ Weighs(l, C, D, v)
        BY <1>1, <3>1 DEF Linked
      <4>2. C \in j.groups /\ D \in j.groups
        BY <1>4, <3>1, <4>1
      <4> QED BY <4>1, <4>2
    <3>2. ASSUME NEW C \in others, l = mean(C)
          PROVE  \E D, E \in j.groups : D # E /\ l.groups = {D, E} /\ Weighs(l, D, E, v)
      <4>1. G \in j.groups /\ C \in j.groups /\ G # C
        BY <1>3, <1>4
      <4>2. l.groups = {G, C} /\ Weighs(l, G, C, v)
        BY <1>8, <3>2
      <4> HIDE DEF G
      <4> QED BY <4>1, <4>2
    <3> QED BY <1>4, <3>1, <3>2
  <2> QED BY <1>9, <2>1, <2>2 DEF Linked
<1>11. ASSUME NEW C \in j.groups PROVE Joined(C, v)
  <2>1. CASE C \in g.groups
    BY <1>1, <2>1
  <2>2. CASE C = G
    <3>1. A \in (SUBSET G) \ {{}, G} /\ G \ A = B
      <4>1. A # {} /\ B # {} /\ A \cap B = {}
        BY <1>2, <1>3
      <4>2. A \subseteq G /\ A # G /\ A \notin {{}, G}
        BY <4>1
      <4> QED BY <4>1, <4>2
    <3>2. \E D \in (SUBSET G) \ {{}, G} : Alike(D, G \ D, v)
      BY <3>1
    <3> QED BY <2>2, <3>2 DEF Joined
  <2> QED BY <1>4, <2>1, <2>2
<1>12. Grouping(U, v, j)
  BY <1>7, <1>10, <1>11 DEF Grouping
<1> QED BY <1>6, <1>12 DEF j

Separate(g, v) == \A A, B \in g.groups : A # B => ~ Alike(A, B, v)

\* A round joins the closest two, if they are alike: what is left is a grouping, of one
\* group less unless no round joins any more.
LEMMA RoundKeeps ==
    ASSUME NEW v \in DOMAIN Likeness, NEW U, U \subseteq Comments, IsFiniteSet(U),
           NEW g, Grouping(U, v, g)
    PROVE  /\ Grouping(U, v, JoinClosest(g, v))
           /\ \/ Separate(g, v) /\ JoinClosest(g, v) = g
              \/ /\ ~ Separate(g, v)
                 /\ Cardinality(JoinClosest(g, v).groups) = Cardinality(g.groups) - 1
<1> DEFINE l == Closest(g.links)
           A == CHOOSE A \in l.groups : TRUE
           B == CHOOSE B \in l.groups : B # A
           stops == g.links = {} \/ l.n < Threshold[v] * l.d
<1>1. Apart(U, g) /\ Linked(g, v)
  BY DEF Grouping
<1>2. JoinClosest(g, v) = IF stops THEN g ELSE Join(g, A, B)
  BY DEF JoinClosest
<1>3. \A k \in g.links : IsLink(k)
  BY <1>1, LinksAre
<1>4. Cardinality(g.groups) \in Nat
  BY <1>1, FS_CardinalityType DEF Apart
<1>5. ASSUME g.links # {} PROVE l \in g.links /\ \A k \in g.links : ~ Closer(k, l)
  <2>1. IsFiniteSet(g.links)
    BY <1>1 DEF Linked
  <2> QED BY <1>3, <1>5, <2>1, ClosestIsClosest
<1>6. Threshold[v] \in Nat
  BY MiningAssumption
<1>7. CASE stops
  <2>1. JoinClosest(g, v) = g
    BY <1>2, <1>7
  <2>2. ASSUME NEW C \in g.groups, NEW D \in g.groups, C # D PROVE ~ Alike(C, D, v)
    <3>1. PICK k \in g.links : k.groups = {C, D}
      BY <1>1, <2>2 DEF Linked
    <3>2. Weighs(k, C, D, v)
      BY <1>1, <3>1, LinksAre
    <3>3. l \in g.links /\ ~ Closer(k, l) /\ l.n < Threshold[v] * l.d
      BY <1>5, <1>7, <3>1
    <3> HIDE DEF l
    <3>4. /\ k.n \in Nat /\ k.d \in Nat \ {0} /\ l.n \in Nat /\ l.d \in Nat \ {0}
      BY <1>3, <3>3 DEF IsLink
    <3>5. ASSUME Alike(C, D, v) PROVE FALSE
      <4>1. k.n >= Threshold[v] * k.d
        <5>1. /\ C # {} /\ C \subseteq Comments /\ IsFiniteSet(C)
              /\ D # {} /\ D \subseteq Comments /\ IsFiniteSet(D)
          BY <1>1, GroupsAre
        <5> QED BY <3>2, <3>5, <5>1, AlikeIsWeight
      <4> DEFINE t == Threshold[v]
                 kn == k.n
                 kd == k.d
                 ln == l.n
                 ld == l.d
      <4>2. t \in Nat /\ kn \in Nat /\ kd \in Nat \ {0} /\ ln \in Nat /\ ld \in Nat \ {0}
        BY <1>6, <3>4
      <4>3. kn >= t * kd /\ ln < t * ld /\ ~(kn * ld > ln * kd)
        BY <3>3, <4>1 DEF Closer
      <4> HIDE DEF t, kn, kd, ln, ld
      <4>4. t * kd <= kn * 1 /\ kn * ld <= ln * kd /\ 1 \in Nat \ {0}
        BY <4>2, <4>3
      <4>5. t * ld <= ln * 1
        BY <4>2, <4>4, FractionsOrdered
      <4> QED BY <4>2, <4>3, <4>5
    <3> QED BY <3>5
  <2> QED BY <2>1, <2>2 DEF Separate
<1>8. CASE ~ stops
  <2>1. l \in g.links /\ ~(l.n < Threshold[v] * l.d)
    BY <1>5, <1>8
  <2> HIDE DEF l
  <2>2. PICK C \in g.groups, D \in g.groups : C # D /\ l.groups = {C, D}
    BY <1>1, <2>1 DEF Linked
  <2>3. A \in l.groups /\ B \in l.groups /\ B # A
    <3>1. A \in l.groups
      BY <2>2
    <3> HIDE DEF A
    <3>2. \E E \in l.groups : E # A
      <4>1. A # C \/ A # D
        BY <2>2
      <4> QED BY <2>2, <4>1
    <3> QED BY <3>1, <3>2
  <2> HIDE DEF A, B
  <2>4. l.groups = {A, B}
    BY <2>2, <2>3
  <2>5. A \in g.groups /\ B \in g.groups /\ Weighs(l, A, B, v)
    BY <1>1, <2>1, <2>4, LinksAre
  <2>6. Alike(A, B, v)
    <3>1. /\ A # {} /\ A \subseteq Comments /\ IsFiniteSet(A)
          /\ B # {} /\ B \subseteq Comments /\ IsFiniteSet(B)
      BY <1>1, <2>5, GroupsAre
    <3>2. l.n \in Nat /\ l.d \in Nat
      BY <2>5 DEF Weighs
    <3>3. l.n >= Threshold[v] * l.d
      <4>1. Threshold[v] * l.d \in Nat
        BY <1>6, <3>2
      <4> QED BY <2>1, <3>2, <4>1
    <3> QED BY <2>5, <3>1, <3>3, AlikeIsWeight
  <2>7. /\ Grouping(U, v, Join(g, A, B))
        /\ Cardinality(Join(g, A, B).groups) = Cardinality(g.groups) - 1
    BY <2>3, <2>5, <2>6, JoinKeeps
  <2>8. JoinClosest(g, v) = Join(g, A, B)
    BY <1>2, <1>8
  <2>9. ~ Separate(g, v)
    BY <2>3, <2>5, <2>6 DEF Separate
  <2> QED BY <2>7, <2>8, <2>9
<1> QED BY <1>7, <1>8

\* What is left after each of the first n rounds.
RoundsTo(U, v, n, f) ==
    f = [k \in 0 .. n |-> IF k = 0 THEN Alone(U, v) ELSE JoinClosest(f[k - 1], v)]

\* There is such a thing: the definition by recursion defines what it says.
LEMMA RoundsAreDefined ==
    ASSUME NEW U, NEW v, NEW n \in Nat
    PROVE  \E f : RoundsTo(U, v, n, f)
<1> DEFINE bad == {m \in Nat : ~ \E f : RoundsTo(U, v, m, f)}
<1>1. bad = {}
  <2> SUFFICES ASSUME bad # {} PROVE FALSE
    OBVIOUS
  <2>1. PICK m \in bad : \A k \in bad : m <= k
    <3>1. bad \subseteq Nat
      OBVIOUS
    <3> HIDE DEF bad
    <3> QED BY <3>1, Least
  <2>2. m \in Nat /\ ~ \E f : RoundsTo(U, v, m, f)
    OBVIOUS
  <2>3. CASE m = 0
    <3> DEFINE f == [k \in 0 .. 0 |-> Alone(U, v)]
    <3>1. RoundsTo(U, v, 0, f)
      BY DEF RoundsTo
    <3> HIDE DEF f
    <3> QED BY <2>2, <2>3, <3>1
  <2>4. CASE m # 0
    <3>1. m - 1 \in Nat /\ m - 1 \notin bad
      BY <2>1, <2>2, <2>4
    <3>2. PICK a : RoundsTo(U, v, m - 1, a)
      BY <3>1
    <3> HIDE DEF bad
    <3> DEFINE round(f, k) == IF k = 0 THEN Alone(U, v) ELSE JoinClosest(f[k - 1], v)
               f == [k \in 0 .. m |-> IF k = m THEN JoinClosest(a[m - 1], v) ELSE a[k]]
    <3>3. \A k \in 0 .. m - 1 : a[k] = round(a, k)
      BY <3>2 DEF RoundsTo
    <3>4. \A k \in 0 .. m : f[k] = IF k = m THEN JoinClosest(a[m - 1], v) ELSE a[k]
      OBVIOUS
    <3>5. f = [k \in 0 .. m |-> f[k]]
      OBVIOUS
    <3> HIDE DEF f
    <3>6. ASSUME NEW k \in 0 .. m PROVE f[k] = round(f, k)
      <4>1. CASE k = 0
        <5>1. k # m /\ 0 \in 0 .. m - 1
          BY <2>2, <2>4, <4>1
        <5> QED BY <3>3, <3>4, <4>1, <5>1
      <4>2. CASE k # 0
        <5>1. k - 1 \in 0 .. m /\ k - 1 # m /\ f[k - 1] = a[k - 1]
          BY <2>2, <3>4, <4>2
        <5>2. CASE k = m
          BY <3>4, <4>2, <5>1, <5>2
        <5>3. CASE k # m
          <6>1. k \in 0 .. m - 1 /\ f[k] = a[k]
            BY <2>2, <3>4, <5>3
          <6> QED BY <3>3, <4>2, <5>1, <6>1
        <5> QED BY <5>2, <5>3
      <4> QED BY <4>1, <4>2
    <3>7. RoundsTo(U, v, m, f)
      BY <3>5, <3>6 DEF RoundsTo
    <3> QED BY <2>2, <3>7
  <2> QED BY <2>3, <2>4
<1> QED BY <1>1

\* After as many rounds as there are comments, no two groups are alike.
LEMMA AgglomerateSeparates ==
    ASSUME NEW v \in DOMAIN Likeness, NEW U, U \subseteq Comments, IsFiniteSet(U)
    PROVE  LET groups == Agglomerate(U, v)
           IN  /\ \A A \in groups : A # {} /\ A \subseteq U /\ Joined(A, v)
               /\ \A A, B \in groups : A # B => A \cap B = {} /\ ~ Alike(A, B, v)
<1> DEFINE n == Cardinality(U)
           after == CHOOSE f : RoundsTo(U, v, n, f)
           done(k) == /\ Grouping(U, v, after[k])
                      /\ Cardinality(after[k].groups) + k <= n \/ Separate(after[k], v)
           bad == {k \in 0 .. n : ~ done(k)}
<1>1. n \in Nat
  BY FS_CardinalityType
<1>2. Agglomerate(U, v) = after[n].groups
  BY DEF Agglomerate, RoundsTo
<1> HIDE DEF n
<1>3. RoundsTo(U, v, n, after)
  BY <1>1, RoundsAreDefined
<1> HIDE DEF after
<1>4. \A k \in 0 .. n : after[k] = IF k = 0 THEN Alone(U, v) ELSE JoinClosest(after[k - 1], v)
  <2> DEFINE r(k) == IF k = 0 THEN Alone(U, v) ELSE JoinClosest(after[k - 1], v)
  <2>1. after = [k \in 0 .. n |-> r(k)]
    BY <1>3 DEF RoundsTo
  <2> HIDE DEF r
  <2>2. \A k \in 0 .. n : after[k] = r(k)
    BY <2>1
  <2> QED BY <2>2 DEF r
<1>5. done(0)
  <2>1. after[0] = Alone(U, v)
    BY <1>1, <1>4
  <2>2. Grouping(U, v, after[0]) /\ Cardinality(after[0].groups) <= n
    BY <2>1, AloneIsGrouping DEF n
  <2>3. Cardinality(after[0].groups) \in Nat
    BY <2>2, FS_CardinalityType DEF Grouping, Apart
  <2>4. Cardinality(after[0].groups) + 0 <= n
    BY <2>2, <2>3
  <2> QED BY <2>2, <2>4
<1>6. ASSUME NEW k \in 0 .. n, k # 0, done(k - 1) PROVE done(k)
  <2> DEFINE g == after[k - 1]
             j == after[k]
  <2>1. Grouping(U, v, g) /\ (Cardinality(g.groups) + (k - 1) <= n \/ Separate(g, v))
    BY <1>6
  <2>2. j = JoinClosest(g, v)
    BY <1>4, <1>6
  <2> HIDE DEF g, j
  <2>3. /\ Grouping(U, v, j)
        /\ \/ Separate(g, v) /\ j = g
           \/ ~ Separate(g, v) /\ Cardinality(j.groups) = Cardinality(g.groups) - 1
    BY <2>1, <2>2, RoundKeeps
  <2>4. Cardinality(g.groups) \in Nat
    BY <2>1, FS_CardinalityType DEF Grouping, Apart
  <2>5. Cardinality(j.groups) + k <= n \/ Separate(j, v)
    BY <1>1, <2>1, <2>3, <2>4
  <2> QED BY <2>3, <2>5 DEF j
<1>7. bad = {}
  <2> SUFFICES ASSUME bad # {} PROVE FALSE
    OBVIOUS
  <2>1. PICK k \in bad : \A m \in bad : k <= m
    <3>1. bad \subseteq Nat
      BY <1>1
    <3> HIDE DEF bad
    <3> QED BY <3>1, Least
  <2>2. k \in 0 .. n /\ ~ done(k)
    OBVIOUS
  <2>3. k # 0 /\ k - 1 \in 0 .. n /\ k - 1 \notin bad
    <3>1. k # 0
      BY <1>5, <2>2
    <3>2. k - 1 \in 0 .. n /\ ~(k <= k - 1)
      BY <1>1, <2>2, <3>1
    <3> HIDE DEF bad, done
    <3> QED BY <2>1, <3>1, <3>2
  <2>4. done(k - 1)
    <3> HIDE DEF done
    <3> QED BY <2>3
  <2> HIDE DEF done, bad
  <2> QED BY <1>6, <2>2, <2>3, <2>4
<1>8. done(n)
  <2>1. n \in 0 .. n
    BY <1>1
  <2> HIDE DEF done
  <2> QED BY <1>7, <2>1
<1> DEFINE g == after[n]
<1>9. Grouping(U, v, g) /\ (Cardinality(g.groups) + n <= n \/ Separate(g, v))
  BY <1>8
<1> HIDE DEF g
<1>10. Separate(g, v)
  <2>1. IsFiniteSet(g.groups) /\ Cardinality(g.groups) \in Nat
    BY <1>9, FS_CardinalityType DEF Grouping, Apart
  <2>2. CASE Cardinality(g.groups) + n <= n
    <3>1. Cardinality(g.groups) = 0
      BY <1>1, <2>1, <2>2
    <3>2. g.groups = {}
      BY <2>1, <3>1, FS_EmptySet
    <3> QED BY <3>2 DEF Separate
  <2> QED BY <1>9, <2>2
<1>11. /\ \A A \in g.groups : A # {} /\ A \subseteq U /\ Joined(A, v)
       /\ \A A, B \in g.groups : A # B => A \cap B = {} /\ ~ Alike(A, B, v)
  BY <1>9, <1>10 DEF Grouping, Apart, Separate
<1> QED BY <1>2, <1>11 DEF g
----------------------------------------------------------------------------
(* The norms *)

\* What is stored are comments on pull requests there are; what was mined is of it.
Closable == UNION {CommentsOf(n) : n \in 1 .. MaxPulls}
MinedIsStored ==
    /\ DOMAIN stamp \subseteq 1 .. MaxPulls
    /\ comments \subseteq Closable
    /\ mined \subseteq comments
    /\ by \in DOMAIN Likeness

LEMMA ClosableAreFinite == IsFiniteSet(Closable) /\ Closable \subseteq Comments
<1> DEFINE sets == {CommentsOf(n) : n \in 1 .. MaxPulls}
           f == [n \in 1 .. MaxPulls |-> CommentsOf(n)]
<1>1. MaxPulls \in Nat /\ \A n \in 1 .. MaxPulls : n \in DOMAIN Reviews
  BY BrainKeeperAssumption
<1>2. IsFiniteSet(sets)
  <2>1. f \in Surjection(1 .. MaxPulls, sets)
    BY DEF Surjection
  <2>2. IsFiniteSet(1 .. MaxPulls)
    BY <1>1, FS_Interval
  <2> HIDE DEF f, sets
  <2> QED BY <2>1, <2>2, FS_Surjection, Zenon
<1>3. ASSUME NEW n \in 1 .. MaxPulls PROVE IsFiniteSet(CommentsOf(n))
  <2> DEFINE D == DOMAIN Reviews[n]
             g == [i \in D |-> <<n, i>>]
  <2>1. IsFiniteSet(D)
    BY <1>1, MiningAssumption
  <2>2. g \in Surjection(D, CommentsOf(n))
    BY DEF Surjection, CommentsOf
  <2> HIDE DEF g, D
  <2> QED BY <2>1, <2>2, FS_Surjection, Zenon
<1>4. \A S \in sets : IsFiniteSet(S)
  BY <1>3
<1>5. IsFiniteSet(UNION sets)
  <2> HIDE DEF sets
  <2> QED BY <1>2, <1>4, FS_UNION, Zenon
<1>6. Closable \subseteq Comments
  BY <1>1 DEF Closable, Comments
<1> QED BY <1>5, <1>6 DEF Closable

\* A learner stores comments on merged pull requests, which are closed.
LEMMA RowsAreClosable ==
    ASSUME MinedIsStored, NEW l \in Learner
    PROVE  RowsOf(l) \subseteq Closable /\ \A rows \in Rows(l) : rows \subseteq Closable
<1>1. ASSUME NEW p \in Places(l) PROVE RowAt(l, p) \in Closable
  <2>1. PICK a \in DOMAIN learner[l].out :
          learner[l].out[a] \in merged /\ p \in {<<a, b>> : b \in DOMAIN Reviews[learner[l].out[a]]}
    BY DEF Places
  <2>2. PICK b \in DOMAIN Reviews[learner[l].out[a]] : p = <<a, b>>
    BY <2>1
  <2>3. RowAt(l, p) \in CommentsOf(learner[l].out[a])
    BY <2>2 DEF RowAt, CommentsOf
  <2>4. learner[l].out[a] \in 1 .. MaxPulls
    BY <2>1 DEF merged, MinedIsStored
  <2> QED BY <2>3, <2>4 DEF Closable
<1>2. RowsOf(l) \subseteq Closable
  BY <1>1 DEF RowsOf
<1>3. ASSUME NEW rows \in Rows(l) PROVE rows \subseteq Closable
  <2>1. rows = {} \/ \E q \in Places(l) : rows = {RowAt(l, p) : p \in {p \in Places(l) : UpTo(p, q)}}
    BY DEF Rows
  <2> QED BY <1>1, <2>1
<1> QED BY <1>2, <1>3

LEMMA MinedStaysStored ==
    ASSUME IInv, MinedIsStored, [Next]_vars
    PROVE  MinedIsStored'
<1>1. CASE Close
  <2>1. UNCHANGED <<comments, mined, by>> /\ Len(stamp) < MaxPulls
    BY <1>1 DEF Close, tables
  <2>2. DOMAIN stamp' \subseteq 1 .. MaxPulls
    <3>1. PICK second : stamp' = Append(stamp, second)
      BY <1>1 DEF Close
    <3>2. stamp \in Seq(Nat \ {0}) /\ MaxPulls \in Nat
      BY BrainKeeperAssumption DEF IInv, TypeOK
    <3>3. DOMAIN stamp' = 1 .. Len(stamp) + 1 /\ Len(stamp) \in Nat
      BY <3>1, <3>2
    <3> QED BY <2>1, <3>2, <3>3
  <2> QED BY <2>1, <2>2 DEF MinedIsStored, Closable, CommentsOf
<1>2. ASSUME NEW l \in Learner, Mine(l) PROVE MinedIsStored'
  <2>1. UNCHANGED <<stamp, comments>> /\ mined' = comments /\ by' \in DOMAIN Likeness
    BY <1>2 DEF Mine, github
  <2> QED BY <2>1 DEF MinedIsStored, Closable, CommentsOf
<1>3. ASSUME UNCHANGED <<stamp, mined, by>>, NEW rows, rows \subseteq Closable,
             comments' = comments \cup rows
      PROVE  MinedIsStored'
  BY <1>3 DEF MinedIsStored, Closable, CommentsOf
<1>4. ASSUME NEW l \in Learner, Store(l) PROVE MinedIsStored'
  <2>1. UNCHANGED <<stamp, mined, by>> /\ comments' = comments \cup RowsOf(l)
    BY <1>4 DEF Store, github
  <2> QED BY <1>3, <2>1, RowsAreClosable
<1>5. ASSUME NEW l \in Learner, LearnFails(l) PROVE MinedIsStored'
  <2>1. PICK rows \in Rows(l) : comments' = comments \cup rows
    BY <1>5 DEF LearnFails, Leaves
  <2>2. UNCHANGED <<stamp, mined, by>>
    BY <1>5 DEF LearnFails, github
  <2> QED BY <1>3, <2>1, <2>2, RowsAreClosable
<1>6. CASE Crash
  <2>1. UNCHANGED <<stamp, mined, by>>
    BY <1>6 DEF Crash, github
  <2>2. comments' = comments \/ \E l \in Learner : \E rows \in Rows(l) : comments' = comments \cup rows
    BY <1>6 DEF Crash, Leaves
  <2>3. CASE comments' = comments
    <3>1. UNCHANGED <<stamp, comments, mined, by>>
      BY <2>1, <2>3
    <3> QED BY <3>1 DEF MinedIsStored, Closable, CommentsOf
  <2> QED BY <1>3, <2>1, <2>2, <2>3, RowsAreClosable
<1>7. ASSUME UNCHANGED <<stamp, comments, mined, by>> PROVE MinedIsStored'
  BY <1>7 DEF MinedIsStored, Closable, CommentsOf
<1>8. CASE (\E n \in Unmerged : Reopen(n)) \/ Ages \/ Scheduled \/ BeginReading \/ Request
           \/ UNCHANGED vars
  <2>1. UNCHANGED <<stamp, comments, mined, by>>
    BY <1>8 DEF Reopen, Ages, Scheduled, BeginReading, Request, vars, github, tables
  <2> QED BY <1>7, <2>1
<1>9. ASSUME NEW l \in Learner, Learn(l) \/ FetchPage(l) \/ PutState(l) \/ FetchRefused(l)
      PROVE  MinedIsStored'
  <2>1. CASE Learn(l)
    BY <1>7, <2>1 DEF Learn, github, tables
  <2>2. CASE FetchPage(l)
    BY <1>7, <2>2 DEF FetchPage, github, tables
  <2>3. CASE PutState(l)
    BY <1>7, <2>3 DEF PutState, github
  <2>4. CASE FetchRefused(l)
    BY <1>7, <2>4 DEF FetchRefused, github, tables
  <2> QED BY <1>9, <2>1, <2>2, <2>3, <2>4
<1> QED BY <1>1, <1>2, <1>4, <1>5, <1>6, <1>8, <1>9 DEF Next, Step

LEMMA NormsAreFromGroups ==
    ASSUME MinedIsStored
    PROVE  NormsAreStandards
<1> DEFINE U == Usable(mined)
           groups == Agglomerate(U, by)
<1>1. U \subseteq Kept(comments) /\ U \subseteq Closable
  BY DEF Usable, Kept, MinedIsStored
<1>2. U \subseteq Comments /\ IsFiniteSet(U) /\ by \in DOMAIN Likeness
  BY <1>1, ClosableAreFinite, FS_Subset DEF MinedIsStored
<1> HIDE DEF U
<1>3. /\ \A A \in groups : A # {} /\ A \subseteq U /\ Joined(A, by)
      /\ \A A, B \in groups : A # B => A \cap B = {} /\ ~ Alike(A, B, by)
  BY <1>2, AgglomerateSeparates
<1> HIDE DEF groups
<1>4. \A n \in norms : \E G \in groups :
        n = NormOf(G, by) /\ n.support >= MinSupport /\ n.reviewers >= MinReviewers
  BY DEF norms, MineNorms, groups, U
<1>5. ASSUME NEW G
      PROVE  LET n == NormOf(G, by)
             IN  /\ n.members = G /\ n.clustered_by = by /\ n.support = Cardinality(G)
                 /\ n.reviewers = Cardinality({Review(c).reviewer : c \in G} \ {""})
  BY DEF NormOf
<1>6. ASSUME NEW n \in norms
      PROVE  /\ n.members \subseteq Kept(comments)
             /\ Cardinality(n.members) >= MinSupport
             /\ Cardinality({Review(c).reviewer : c \in n.members} \ {""}) >= MinReviewers
             /\ Cardinality(n.members) > 1 => \E A \in (SUBSET n.members) \ {{}, n.members} :
                  Alike(A, n.members \ A, n.clustered_by)
  <2>1. PICK G \in groups :
          n = NormOf(G, by) /\ n.support >= MinSupport /\ n.reviewers >= MinReviewers
    BY <1>4
  <2>2. /\ n.members = G /\ n.clustered_by = by /\ n.support = Cardinality(G)
        /\ n.reviewers = Cardinality({Review(c).reviewer : c \in G} \ {""})
    BY <1>5, <2>1
  <2>3. G \subseteq Kept(comments) /\ Joined(G, by)
    BY <1>1, <1>3
  <2> QED BY <2>1, <2>2, <2>3 DEF Joined
<1>7. ASSUME NEW m \in norms, NEW n \in norms, m # n
      PROVE  m.members \cap n.members = {} /\ ~ Alike(m.members, n.members, m.clustered_by)
  <2>1. PICK G \in groups, H \in groups : m = NormOf(G, by) /\ n = NormOf(H, by)
    BY <1>4
  <2>2. m.members = G /\ n.members = H /\ m.clustered_by = by /\ G # H
    BY <1>5, <1>7, <2>1
  <2> QED BY <1>3, <2>2
<1> QED BY <1>6, <1>7 DEF NormsAreStandards, AreStandards

\* Whatever was said in reviews and however alike the texts are, a norm stands for stored,
\* enforced comments, that enough reviewers raised and that were joined from two parts
\* alike, and no two norms share a comment or should have been one (mine_norms,
\* agglomerate).
THEOREM NormsAreAllStandards == Spec => []NormsAreStandards
<1>1. Init => IInv /\ MinedIsStored
  <2>1. Init => MinedIsStored
    <3> SUFFICES ASSUME Init PROVE MinedIsStored
      OBVIOUS
    <3>1. by \in DOMAIN Likeness
      BY MiningAssumption DEF Init
    <3>2. stamp = <<>> /\ comments = {} /\ mined = {}
      BY DEF Init
    <3> QED BY <3>1, <3>2 DEF MinedIsStored
  <2> QED BY <2>1, IInvInit
<1>2. IInv /\ MinedIsStored /\ [Next]_vars => (IInv /\ MinedIsStored)'
  BY IInvStep, MinedStaysStored
<1>3. MinedIsStored => NormsAreStandards
  BY NormsAreFromGroups
<1> QED BY <1>1, <1>2, <1>3, PTL DEF Spec
=============================================================================
