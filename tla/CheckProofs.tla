----------------------------- MODULE CheckProofs -----------------------------
(***************************************************************************)
(* What the check command tells of a change, for any change, model and     *)
(* machine: the runs of a test that stand behind a finding, what of the    *)
(* runs is told, and what a second check does.                             *)
(***************************************************************************)
EXTENDS Check, FiniteSetTheorems, TLAPS

WF == INSTANCE WellFoundedInduction
----------------------------------------------------------------------------
(* Lists *)

\* Of the numbers with a property there is a least.
LEMMA Least ==
    ASSUME NEW S \in SUBSET Nat, S # {}
    PROVE  \E i \in S : \A j \in S : i <= j
<1> DEFINE less == WF!OpToRel(<, Nat)
<1>1. WF!IsWellFoundedOn(less, Nat)
  BY WF!NatLessThanWellFounded
<1>2. PICK x \in S : \A y \in S : ~ (<<y, x>> \in less)
  <2> HIDE DEF less
  <2> QED BY <1>1, WF!WFMin
<1>3. \A y \in S : x <= y
  <2> SUFFICES ASSUME NEW y \in S, y < x PROVE FALSE
    OBVIOUS
  <2>1. <<y, x>> \in less
    BY DEF WF!OpToRel
  <2> QED BY <1>2, <2>1
<1> QED BY <1>3

\* In a finite set of numbers some one has none below it, one has one below it, and so on.
LEMMA Ranks ==
    ASSUME NEW S, S \subseteq Nat, IsFiniteSet(S)
    PROVE  /\ Cardinality(S) \in Nat
           /\ \A i \in 1 .. Cardinality(S) : \E n \in S : Ahead(S, n) = i - 1
<1> DEFINE fewer(n) == {m \in S : m < n}
           c == Cardinality(S)
           bad == {k \in Nat : k < c /\ ~ \E n \in S : Cardinality(fewer(n)) = k}
<1>1. c \in Nat
  BY FS_CardinalityType
<1>2. bad = {}
  <2> SUFFICES ASSUME bad # {} PROVE FALSE
    OBVIOUS
  <2>1. PICK k \in bad : \A l \in bad : k <= l
    <3>1. bad \in SUBSET Nat
      OBVIOUS
    <3> HIDE DEF bad
    <3> QED BY <3>1, Least
  <2>2. k \in Nat /\ k < c /\ ~ \E n \in S : Cardinality(fewer(n)) = k
    OBVIOUS
  <2>3. CASE k = 0
    <3>1. S # {}
      BY <2>2, <2>3, FS_EmptySet
    <3>2. PICK n \in S : \A m \in S : n <= m
      BY <3>1, Least
    <3> HIDE DEF bad
    <3>3. fewer(n) = {}
      <4>1. \A m \in S : m \in Nat /\ ~ (m < n)
        BY <3>2, S \subseteq Nat
      <4> QED BY <4>1
    <3> HIDE DEF fewer
    <3> QED BY <2>2, <2>3, <3>3, FS_EmptySet
  <2>4. CASE k # 0
    <3>1. k - 1 \in Nat /\ k - 1 \notin bad /\ k - 1 < c
      BY <1>1, <2>1, <2>2, <2>4
    <3>2. PICK n \in S : Cardinality(fewer(n)) = k - 1
      BY <3>1
    <3> DEFINE T == fewer(n) \cup {n}
    <3>3. Cardinality(T) = k
      <4>1. fewer(n) \in SUBSET S /\ n \notin fewer(n)
        BY S \subseteq Nat
      <4> HIDE DEF fewer, bad
      <4>2. IsFiniteSet(fewer(n))
        BY <4>1, FS_Subset, Zenon
      <4>3. Cardinality(fewer(n) \cup {n})
              = IF n \in fewer(n) THEN Cardinality(fewer(n)) ELSE Cardinality(fewer(n)) + 1
        BY <4>2, FS_AddElement, Zenon
      <4> QED BY <2>2, <3>2, <4>1, <4>3
    <3>4. S \ T # {}
      <4>1. T \subseteq S
        OBVIOUS
      <4> HIDE DEF T, bad
      <4>2. S \ T = {} => S = T
        BY <4>1
      <4> QED BY <2>2, <3>3, <4>2
    <3>5. PICK m \in S \ T : \A l \in S \ T : m <= l
      <4> DEFINE rest == S \ T
      <4>1. rest \in SUBSET Nat /\ rest # {}
        BY <3>4
      <4> HIDE DEF rest
      <4>2. \E i \in rest : \A j \in rest : i <= j
        BY <4>1, Least
      <4> QED BY <4>2 DEF rest
    <3>6. fewer(m) = T
      <4>1. n < m
        BY <3>5, S \subseteq Nat
      <4>2. \A l \in S : l < m <=> l < n \/ l = n
        BY <3>5, <4>1, S \subseteq Nat
      <4> QED BY <4>2
    <3> HIDE DEF fewer, T, bad
    <3> QED BY <2>2, <3>3, <3>5, <3>6
  <2> QED BY <2>3, <2>4
<1>3. \A i \in 1 .. c : \E n \in S : Cardinality(fewer(n)) = i - 1
  <2> SUFFICES ASSUME NEW i \in 1 .. c PROVE \E n \in S : Cardinality(fewer(n)) = i - 1
    OBVIOUS
  <2>1. i - 1 \in Nat /\ i - 1 < c
    <3> HIDE DEF c
    <3> QED BY <1>1
  <2>2. i - 1 \notin bad
    BY <1>2
  <2> HIDE DEF c, fewer
  <2> QED BY <2>1, <2>2
<1> HIDE DEF fewer
<1>4. \A n : Ahead(S, n) = Cardinality(fewer(n))
  BY DEF Ahead, fewer
<1> QED BY <1>1, <1>3, <1>4

\* What is kept of a list is of the list, at the places wanted.
LEMMA KeptIsWanted ==
    ASSUME NEW list, NEW wanted, IsFiniteSet(DOMAIN list \cap wanted),
           DOMAIN list \cap wanted \subseteq Nat
    PROVE  /\ Cardinality(DOMAIN list \cap wanted) \in Nat
           /\ Keep(list, wanted) = [k \in 1 .. Cardinality(DOMAIN list \cap wanted) |->
                                      Keep(list, wanted)[k]]
           /\ \A k \in DOMAIN Keep(list, wanted) :
                \E i \in DOMAIN list \cap wanted : Keep(list, wanted)[k] = list[i]
<1> DEFINE places == DOMAIN list \cap wanted
           c == Cardinality(places)
           place(k) == CHOOSE i \in places : Ahead(places, i) = k - 1
<1>1. c \in Nat /\ \A k \in 1 .. c : \E i \in places : Ahead(places, i) = k - 1
  <2>1. places \subseteq Nat /\ IsFiniteSet(places)
    OBVIOUS
  <2> HIDE DEF places
  <2> QED BY <2>1, Ranks
<1>2. Keep(list, wanted) = [k \in 1 .. c |-> list[place(k)]]
  BY DEF Keep
<1>3. \A k \in 1 .. c : place(k) \in places
  <2> HIDE DEF places, c
  <2> QED BY <1>1
<1> HIDE DEF place
<1> QED BY <1>1, <1>2, <1>3

\* What is kept of a sequence is a sequence of its elements.
LEMMA KeptIsList ==
    ASSUME NEW T, NEW list \in Seq(T), NEW wanted
    PROVE  /\ Keep(list, wanted) \in Seq(T)
           /\ \A k \in DOMAIN Keep(list, wanted) :
                \E i \in DOMAIN list : i \in wanted /\ Keep(list, wanted)[k] = list[i]
<1> DEFINE places == DOMAIN list \cap wanted
<1>1. DOMAIN list = 1 .. Len(list) /\ Len(list) \in Nat
  OBVIOUS
<1>2. places \in SUBSET (1 .. Len(list)) /\ places \subseteq Nat
  BY <1>1
<1>3. IsFiniteSet(places)
  <2> DEFINE n == Len(list)
  <2>1. 1 \in Int /\ n \in Int
    BY <1>1
  <2>2. places \in SUBSET (1 .. n)
    BY <1>2
  <2> HIDE DEF n, places
  <2> QED BY <2>1, <2>2, FS_Interval, FS_Subset, Zenon
<1>4. /\ Cardinality(places) \in Nat
      /\ Keep(list, wanted) = [k \in 1 .. Cardinality(places) |-> Keep(list, wanted)[k]]
      /\ \A k \in DOMAIN Keep(list, wanted) : \E i \in places : Keep(list, wanted)[k] = list[i]
  BY <1>2, <1>3, KeptIsWanted
<1>5. \A i \in DOMAIN list : list[i] \in T
  OBVIOUS
<1> DEFINE kept == Keep(list, wanted)
<1>6. \A k \in DOMAIN kept : kept[k] \in T
  BY <1>4, <1>5
<1>7. kept \in Seq(T)
  <2> DEFINE c == Cardinality(places)
  <2>1. c \in Nat /\ kept = [k \in 1 .. c |-> kept[k]]
    BY <1>4
  <2> HIDE DEF kept, places, c
  <2>2. \A k \in 1 .. c : kept[k] \in T
    BY <1>6, <2>1
  <2> QED BY <2>1, <2>2
<1> QED BY <1>4, <1>7

\* The tests of a reply, and of the replies to a list of failures, are tests.
LEMMA SplitIsList ==
    ASSUME NEW w, NEW reply, IsReply(w, reply)
    PROVE  SplitTests(reply) \in Seq(DOMAIN w.rewrites)
<1> DEFINE F == Elements(reply.functions)
           functions == IF reply.parses THEN reply.functions ELSE <<>>
           tests == {i \in DOMAIN functions : functions[i].test}
           wanted == Keep(functions, tests)
<1>1. functions \in Seq(F)
  <2> HIDE DEF F
  <2>1. reply.functions \in Seq(F)
    BY DEF IsReply, F
  <2> QED BY <2>1
<1>2. /\ wanted \in Seq(F)
      /\ \A k \in DOMAIN wanted : \E i \in DOMAIN functions : i \in tests /\ wanted[k] = functions[i]
  <2> HIDE DEF functions, F, tests
  <2> QED BY <1>1, KeptIsList
<1>3. SplitTests(reply) = [i \in DOMAIN wanted |-> wanted[i].name]
  BY DEF SplitTests
<1>4. \A i \in DOMAIN functions : functions[i] \in F
  <2> HIDE DEF functions, F
  <2> QED BY <1>1
<1> HIDE DEF wanted, functions
<1>5. \A k \in DOMAIN wanted : wanted[k].name \in DOMAIN w.rewrites
  <2> SUFFICES ASSUME NEW k \in DOMAIN wanted PROVE wanted[k].name \in DOMAIN w.rewrites
    OBVIOUS
  <2>1. PICK i \in DOMAIN functions : functions[i].test /\ wanted[k] = functions[i]
    BY <1>2
  <2>2. \A f \in F : f.test => f.name \in DOMAIN w.rewrites
    BY DEF IsReply
  <2> HIDE DEF F
  <2> QED BY <1>4, <2>1, <2>2
<1>6. DOMAIN wanted = 1 .. Len(wanted) /\ Len(wanted) \in Nat
  <2> HIDE DEF F
  <2> QED BY <1>2
<1> QED BY <1>3, <1>5, <1>6

RewrittenTo(w, failed, n, f) ==
    f = [k \in 0 .. n |-> IF k = 0 THEN <<>> ELSE f[k - 1] \o SplitTests(w.rewrites[failed[k]])]

\* The replies up to each failure exist as the recursion says.
LEMMA RewrittenIsDefined ==
    ASSUME NEW w, NEW failed \in Seq(DOMAIN w.rewrites)
    PROVE  RewrittenTo(w, failed, Len(failed), Rewritten(w, failed))
<1> DEFINE split(k) == SplitTests(w.rewrites[failed[k]])
           bad == {n \in Nat : ~ \E f : RewrittenTo(w, failed, n, f)}
<1>1. bad = {}
  <2> SUFFICES ASSUME bad # {} PROVE FALSE
    OBVIOUS
  <2>1. PICK n \in bad : \A m \in bad : n <= m
    <3>1. bad \in SUBSET Nat
      OBVIOUS
    <3> HIDE DEF bad
    <3> QED BY <3>1, Least
  <2>2. n \in Nat /\ ~ \E f : RewrittenTo(w, failed, n, f)
    OBVIOUS
  <2>3. CASE n = 0
    <3> DEFINE f == [i \in 0 .. 0 |-> <<>>]
    <3>1. RewrittenTo(w, failed, 0, f)
      BY DEF RewrittenTo
    <3> HIDE DEF f
    <3> QED BY <2>2, <2>3, <3>1
  <2>4. CASE n # 0
    <3>1. n - 1 \in Nat /\ n - 1 \notin bad
      BY <2>1, <2>2, <2>4
    <3>2. PICK a : RewrittenTo(w, failed, n - 1, a)
      BY <3>1
    <3> HIDE DEF bad
    <3>3. a = [k \in 0 .. n - 1 |-> IF k = 0 THEN <<>> ELSE a[k - 1] \o split(k)]
      BY <3>2 DEF RewrittenTo
    <3> HIDE DEF split
    <3> DEFINE f == [k \in 0 .. n |-> IF k = n THEN a[n - 1] \o split(n) ELSE a[k]]
    <3>4. ASSUME NEW k \in 0 .. n
          PROVE  f[k] = IF k = 0 THEN <<>> ELSE f[k - 1] \o split(k)
      <4>1. CASE k = n
        <5>1. n \in 0 .. n /\ n - 1 \in 0 .. n /\ n - 1 # n
          BY <2>2, <2>4
        <5>2. f[n] = a[n - 1] \o split(n) /\ f[n - 1] = a[n - 1]
          BY <5>1
        <5> HIDE DEF f
        <5> QED BY <2>4, <4>1, <5>2
      <4>2. CASE k # n
        <5>1. k \in 0 .. n - 1
          BY <2>2, <4>2
        <5>2. f[k] = a[k] /\ a[k] = IF k = 0 THEN <<>> ELSE a[k - 1] \o split(k)
          BY <3>3, <4>2, <5>1
        <5>3. k # 0 => f[k - 1] = a[k - 1]
          <6> SUFFICES ASSUME k # 0 PROVE f[k - 1] = a[k - 1]
            OBVIOUS
          <6>1. k - 1 \in 0 .. n /\ k - 1 # n
            BY <2>2, <5>1
          <6> QED BY <6>1
        <5> HIDE DEF f
        <5> QED BY <5>2, <5>3
      <4> QED BY <4>1, <4>2
    <3>5. f = [k \in 0 .. n |-> IF k = 0 THEN <<>> ELSE f[k - 1] \o split(k)]
      BY <3>4
    <3> HIDE DEF f
    <3>6. RewrittenTo(w, failed, n, f)
      BY <3>5 DEF RewrittenTo, split
    <3> QED BY <2>2, <3>6
  <2> QED BY <2>3, <2>4
<1>2. \E f : RewrittenTo(w, failed, Len(failed), f)
  <2>1. Len(failed) \notin bad
    BY <1>1
  <2>2. Len(failed) \in Nat
    OBVIOUS
  <2> QED BY <2>1, <2>2
<1>3. Rewritten(w, failed) = CHOOSE f : RewrittenTo(w, failed, Len(failed), f)
  BY DEF Rewritten, RewrittenTo
<1> QED BY <1>2, <1>3

\* What is written anew is a list of tests.
LEMMA RegeneratedIsList ==
    ASSUME NEW w, IsWorld(w), NEW failed \in Seq(DOMAIN w.rewrites)
    PROVE  Regenerate(w, failed) \in Seq(DOMAIN w.rewrites)
<1> DEFINE T == DOMAIN w.rewrites
           f == Rewritten(w, failed)
           split(k) == SplitTests(w.rewrites[failed[k]])
           bad == {n \in 0 .. Len(failed) : f[n] \notin Seq(T)}
<1>1. f = [k \in 0 .. Len(failed) |-> IF k = 0 THEN <<>> ELSE f[k - 1] \o split(k)]
  BY RewrittenIsDefined DEF RewrittenTo
<1>2. \A k \in 1 .. Len(failed) : split(k) \in Seq(T)
  <2> SUFFICES ASSUME NEW k \in 1 .. Len(failed) PROVE split(k) \in Seq(T)
    OBVIOUS
  <2>1. failed[k] \in T
    OBVIOUS
  <2> QED BY <2>1, SplitIsList DEF IsWorld
<1>0. f[0] = <<>> /\ <<>> \in Seq(T)
  <2>1. 0 \in 0 .. Len(failed)
    OBVIOUS
  <2> HIDE DEF f, split
  <2> QED BY <1>1, <2>1
<1>3. bad = {}
  <2> SUFFICES ASSUME bad # {} PROVE FALSE
    OBVIOUS
  <2>1. PICK n \in bad : \A m \in bad : n <= m
    <3>1. bad \in SUBSET Nat
      OBVIOUS
    <3> HIDE DEF bad
    <3> QED BY <3>1, Least
  <2>2. n \in 0 .. Len(failed) /\ f[n] \notin Seq(T)
    OBVIOUS
  <2> HIDE DEF split, T, f
  <2>3. n # 0
    <3> HIDE DEF bad
    <3> QED BY <1>0, <2>2
  <2>4. n - 1 \in 0 .. Len(failed) /\ n - 1 \notin bad /\ n \in 1 .. Len(failed)
    BY <2>1, <2>2, <2>3
  <2>5. f[n - 1] \in Seq(T)
    BY <2>4
  <2>6. f[n] = f[n - 1] \o split(n)
    BY <1>1, <2>4
  <2> QED BY <1>2, <2>2, <2>4, <2>5, <2>6
<1>4. Len(failed) \in 0 .. Len(failed)
  OBVIOUS
<1> HIDE DEF f, T
<1>5. f[Len(failed)] \in Seq(T)
  BY <1>3, <1>4
<1> QED BY <1>5 DEF Regenerate, f, T
----------------------------------------------------------------------------
(* Sessions *)

\* A run is of a commit, of the tests its key names, and ended in some way.
Ends == {"passed", "collection_error", "timeout", "install_failed", "oom", "failed"}
IsRun(r) ==
    /\ r.key = JobKey(r.commit, r.key[2], r.key[3])
    /\ DOMAIN r.said = Elements(r.key[3])
    /\ r.outcome \in Ends

\* A session has each job once, and is measured where a machine can be.
IsSession(w, s) ==
    /\ s = [runs |-> s.runs, measured |-> s.measured, raised |-> s.raised]
    /\ IsFiniteSet(s.runs)
    /\ \A r \in s.runs : IsRun(r)
    /\ \A r, q \in s.runs : r.key = q.key => r = q
    /\ \A c \in s.measured : w.builds[TreeOf(w, c)] /\ w.measures[TreeOf(w, c)]

Grown(s, t) == s.runs \subseteq t.runs /\ s.measured \subseteq t.measured

\* A later session, in which something was raised.
Now(t, raised) == [t EXCEPT !.raised = raised]

\* Nothing on disk is a session.
LEMMA NewSessionIsSession ==
    ASSUME NEW w
    PROVE  IsSession(w, NewSession)
BY FS_EmptySet DEF IsSession, NewSession

\* A session in which something else was raised is a session.
LEMMA NowIsSession ==
    ASSUME NEW w, NEW t, IsSession(w, t), NEW raised
    PROVE  /\ IsSession(w, Now(t, raised))
           /\ Now(t, raised) = [runs |-> t.runs, measured |-> t.measured, raised |-> raised]
<1>1. Now(t, raised) = [runs |-> t.runs, measured |-> t.measured, raised |-> raised]
  BY DEF Now, IsSession
<1> QED BY <1>1 DEF IsSession

\* Measuring a checkout leaves the executions, and at most raises.
LEMMA MeasuringKeepsRuns ==
    ASSUME NEW w, NEW s, IsSession(w, s), NEW commit
    PROVE  LET out == Calibrate(w, s, commit)
           IN  /\ IsSession(w, out)
               /\ out.runs = s.runs
               /\ Grown(s, out)
               /\ out = [runs |-> out.runs, measured |-> out.measured, raised |-> out.raised]
<1> DEFINE out == Calibrate(w, s, commit)
           tree == TreeOf(w, commit)
<1>1. s = [runs |-> s.runs, measured |-> s.measured, raised |-> s.raised]
  BY DEF IsSession
<1>2. \/ out = s
      \/ \E x : out = [runs |-> s.runs, measured |-> s.measured, raised |-> x]
      \/ /\ out = [runs |-> s.runs, measured |-> s.measured \cup {commit}, raised |-> s.raised]
         /\ w.builds[tree] /\ w.measures[tree]
  BY <1>1 DEF Calibrate
<1>3. /\ IsSession(w, out) /\ out.runs = s.runs /\ Grown(s, out)
      /\ out = [runs |-> out.runs, measured |-> out.measured, raised |-> out.raised]
  <2> HIDE DEF out
  <2>1. CASE out = s
    BY <1>1, <2>1 DEF Grown
  <2>2. CASE \E x : out = [runs |-> s.runs, measured |-> s.measured, raised |-> x]
    <3>1. out.runs = s.runs /\ out.measured = s.measured
      BY <2>2
    <3> QED BY <2>2, <3>1 DEF IsSession, Grown
  <2>3. CASE /\ out = [runs |-> s.runs, measured |-> s.measured \cup {commit}, raised |-> s.raised]
             /\ w.builds[tree] /\ w.measures[tree]
    <3>1. out.runs = s.runs /\ out.measured = s.measured \cup {commit}
      BY <2>3
    <3> QED BY <2>3, <3>1 DEF IsSession, Grown
  <2> QED BY <1>2, <2>1, <2>2, <2>3
<1> QED BY <1>3

\* Measured again, by a session that has it all.
LEMMA MeasuringAgain ==
    ASSUME NEW w, NEW s, IsSession(w, s), NEW t, IsSession(w, t), NEW commit,
           Grown(Calibrate(w, s, commit), t)
    PROVE  Calibrate(w, Now(t, s.raised), commit) = Now(t, Calibrate(w, s, commit).raised)
<1> DEFINE out == Calibrate(w, s, commit)
           tree == TreeOf(w, commit)
           now == Now(t, s.raised)
           can == w.builds[tree] /\ w.measures[tree]
<1>1. /\ now = [runs |-> t.runs, measured |-> t.measured, raised |-> s.raised]
      /\ \A x : Now(t, x) = [now EXCEPT !.raised = x]
  BY NowIsSession
<1>2. s = [runs |-> s.runs, measured |-> s.measured, raised |-> s.raised]
  BY DEF IsSession
<1>3. (commit \in s.measured => can) /\ (commit \in t.measured => can)
  BY DEF IsSession
<1>4. s.measured \subseteq t.measured
  BY MeasuringKeepsRuns DEF Grown
<1>5. CASE commit \in s.measured
  <2>1. commit \in now.measured
    BY <1>1, <1>4, <1>5
  <2>2. out = s /\ Calibrate(w, now, commit) = now
    BY <1>5, <2>1 DEF Calibrate
  <2> QED BY <2>2
<1>6. CASE commit \notin s.measured /\ can
  <2>1. out = [s EXCEPT !.measured = @ \cup {commit}]
    BY <1>6 DEF Calibrate
  <2>2. out.raised = s.raised /\ commit \in out.measured
    BY <1>2, <2>1
  <2>3. commit \in now.measured
    BY <1>1, <2>2 DEF Grown
  <2>4. Calibrate(w, now, commit) = now
    BY <2>3 DEF Calibrate
  <2> QED BY <2>2, <2>4
<1>7. CASE ~can
  <2>1. commit \notin s.measured /\ commit \notin now.measured
    BY <1>1, <1>3, <1>7
  <2>2. PICK x : out = [s EXCEPT !.raised = x] /\ Calibrate(w, now, commit) = [now EXCEPT !.raised = x]
    BY <1>7, <2>1 DEF Calibrate
  <2>3. out.raised = x
    BY <1>2, <2>2
  <2> QED BY <1>1, <2>2, <2>3
<1> QED BY <1>5, <1>6, <1>7

\* A job is run when its key is not known; its run is there after, and no other is new.
LEMMA JobsAreRuns ==
    ASSUME NEW w, NEW s, IsSession(w, s), NEW commit, NEW label, NEW tests
    PROVE  LET out == RunJob(w, s, commit, label, tests)
           IN  /\ IsSession(w, out.s)
               /\ Grown(s, out.s)
               /\ out.s.raised = s.raised
               /\ out.run \in out.s.runs
               /\ out.run.key = JobKey(commit, label, tests)
               /\ out.s.runs \subseteq s.runs \cup {out.run}
<1> DEFINE key == JobKey(commit, label, tests)
           tree == TreeOf(w, commit)
           known == {r \in s.runs : r.key = key}
           n == Cardinality({r \in s.runs : r.tree = tree}) + 1
           fresh == Execute(w, tree, n, tests)
           run == [key |-> key, commit |-> commit, tree |-> tree, outcome |-> fresh.outcome,
                   said |-> fresh.said]
           out == RunJob(w, s, commit, label, tests)
<1>1. out = IF known # {} THEN [s |-> s, run |-> CHOOSE r \in known : TRUE]
            ELSE [s |-> [s EXCEPT !.runs = @ \cup {run}], run |-> run]
  BY DEF RunJob
<1>2. IsRun(run)
  <2>1. fresh.outcome \in Ends /\ DOMAIN fresh.said = Elements(tests)
    BY DEF Execute, Classify, Ends
  <2> HIDE DEF fresh
  <2>2. key = <<commit, label, tests>>
    BY DEF JobKey
  <2>3. /\ run.key = key /\ run.commit = commit
        /\ run.outcome = fresh.outcome /\ run.said = fresh.said
    OBVIOUS
  <2>4. key[2] = label /\ key[3] = tests
    BY <2>2
  <2> HIDE DEF run, key
  <2>5. run.key = JobKey(run.commit, run.key[2], run.key[3])
    BY <2>2, <2>3, <2>4 DEF JobKey
  <2> QED BY <2>1, <2>3, <2>4, <2>5 DEF IsRun
<1>3. run.key = key
  OBVIOUS
<1> DEFINE goal == /\ IsSession(w, out.s) /\ Grown(s, out.s) /\ out.s.raised = s.raised
                   /\ out.run \in out.s.runs /\ out.run.key = key
                   /\ out.s.runs \subseteq s.runs \cup {out.run}
<1>4. ASSUME known # {} PROVE goal
  <2>1. out.s = s /\ out.run \in known
    BY <1>1, <1>4
  <2> HIDE DEF out
  <2>2. out.run \in s.runs /\ out.run.key = key
    BY <2>1
  <2> QED BY <2>1, <2>2 DEF Grown
<1>5. ASSUME known = {} PROVE goal
  <2>1. out = [s |-> [s EXCEPT !.runs = @ \cup {run}], run |-> run]
    BY <1>1, <1>5
  <2>2. s = [runs |-> s.runs, measured |-> s.measured, raised |-> s.raised]
    BY DEF IsSession
  <2>3. \A r \in s.runs : r.key # key
    BY <1>5
  <2> HIDE DEF run, key, known, out
  <2>4. /\ out.s = [runs |-> s.runs \cup {run}, measured |-> s.measured, raised |-> s.raised]
        /\ out.run = run
    BY <2>1, <2>2
  <2>5. IsFiniteSet(s.runs \cup {run})
    <3>1. IsFiniteSet(s.runs)
      BY DEF IsSession
    <3> QED BY <3>1, FS_AddElement, Zenon
  <2>6. \A r, q \in s.runs \cup {run} : r.key = q.key => r = q
    BY <1>3, <2>3 DEF IsSession
  <2>7. IsSession(w, out.s)
    BY <1>2, <2>4, <2>5, <2>6 DEF IsSession
  <2> QED BY <1>3, <2>4, <2>7 DEF Grown
<1> QED BY <1>4, <1>5

\* A job that is on record is not executed again, and says the same.
LEMMA JobAgain ==
    ASSUME NEW w, NEW s, IsSession(w, s), NEW t, IsSession(w, t), NEW commit, NEW label,
           NEW tests, Grown(RunJob(w, s, commit, label, tests).s, t)
    PROVE  RunJob(w, Now(t, s.raised), commit, label, tests)
             = [s |-> Now(t, s.raised), run |-> RunJob(w, s, commit, label, tests).run]
<1> DEFINE key == JobKey(commit, label, tests)
           run == RunJob(w, s, commit, label, tests).run
           now == Now(t, s.raised)
           known == {r \in now.runs : r.key = key}
<1>1. now.runs = t.runs
  BY NowIsSession
<1>2. run \in t.runs /\ run.key = key
  BY JobsAreRuns DEF Grown
<1>3. \A r \in t.runs : r.key = key => r = run
  BY <1>2 DEF IsSession
<1>4. known = {run}
  BY <1>1, <1>2, <1>3
<1>5. RunJob(w, now, commit, label, tests)
        = IF known # {} THEN [s |-> now, run |-> CHOOSE r \in known : TRUE]
          ELSE RunJob(w, now, commit, label, tests)
  BY DEF RunJob
<1> HIDE DEF known
<1> QED BY <1>4, <1>5

----------------------------------------------------------------------------
(* What a run tells *)

\* The runs of a job, and what one that is of the tests says of them.
IsOf(r, commit, label, tests) ==
    /\ r.commit = commit
    /\ r.key[2] = label
    /\ DOMAIN r.said = Elements(tests)
    /\ r.outcome \in Ends

\* A job's key tells on which commit, and under which label, which tests ran.
LEMMA KeysSay ==
    ASSUME NEW r, IsRun(r), NEW commit, NEW label, NEW tests,
           r.key = JobKey(commit, label, tests)
    PROVE  IsOf(r, commit, label, tests)
<1>1. r.key = <<commit, label, tests>> /\ r.key = <<r.commit, r.key[2], r.key[3]>>
  BY DEF IsRun, JobKey
<1>2. r.commit = commit /\ r.key[2] = label /\ r.key[3] = tests
  BY <1>1
<1> QED BY <1>2 DEF IsRun, IsOf

\* What is heard of a job's tests is what its execution told of them.
LEMMA OutcomesAreTold ==
    ASSUME NEW r, NEW tests, DOMAIN r.said = Elements(tests), r.outcome \in Ends
    PROVE  LET o == Outcomes(r, tests)
           IN  /\ DOMAIN o \subseteq DOMAIN tests
               /\ \A i \in DOMAIN o : Told(r, tests[i]) = {o[i]}
               /\ \A t : Differs(r, t) => \E i \in DOMAIN o \ Passed(o) : tests[i] = t
<1> DEFINE o == Outcomes(r, tests)
           reported == {i \in DOMAIN tests : Reports(r, tests[i])}
           died == r.outcome \in {"collection_error", "timeout", "oom"}
           spoken == IF died THEN DOMAIN tests ELSE reported
           told(t) == IF Reports(r, t) THEN {Stands(r, t)}
                      ELSE {r.outcome} \ {"passed", "failed", "install_failed"}
<1>1. o = [i \in spoken |-> IF i \in reported THEN Stands(r, tests[i]) ELSE r.outcome]
  BY DEF Outcomes
<1>2. \A i \in DOMAIN tests : /\ Told(r, tests[i]) = told(tests[i])
                              /\ i \in reported <=> Reports(r, tests[i])
  BY DEF Told, Elements
<1>3. \A t : t \notin Elements(tests) => Told(r, t) = {}
  BY DEF Told
<1>4. /\ spoken \subseteq DOMAIN tests
      /\ DOMAIN o = spoken
      /\ \A i \in spoken : o[i] = IF i \in reported THEN Stands(r, tests[i]) ELSE r.outcome
  BY <1>1
<1>5. ASSUME NEW i \in DOMAIN o PROVE Told(r, tests[i]) = {o[i]}
  <2>1. i \in spoken /\ i \in DOMAIN tests
    BY <1>4
  <2>2. CASE i \in reported
    BY <1>2, <1>4, <2>1, <2>2
  <2>3. CASE i \notin reported
    <3>1. died
      BY <2>1, <2>3
    <3>2. told(tests[i]) = {r.outcome}
      BY <1>2, <2>1, <2>3, <3>1
    <3> HIDE DEF told, o, reported, died
    <3> QED BY <1>2, <1>4, <2>1, <2>3, <3>2
  <2> QED BY <2>2, <2>3
<1>6. ASSUME NEW t, Differs(r, t) PROVE \E i \in DOMAIN o \ Passed(o) : tests[i] = t
  <2>1. Told(r, t) # {} /\ Told(r, t) # {"passed"}
    BY <1>6 DEF Differs
  <2>2. PICK i \in DOMAIN tests : tests[i] = t
    BY <1>3, <2>1 DEF Elements
  <2>3. i \in spoken
    <3> SUFFICES ASSUME i \notin spoken PROVE FALSE
      OBVIOUS
    <3>1. i \notin reported /\ ~died
      BY <2>2
    <3>2. r.outcome \in {"passed", "failed", "install_failed"}
      BY <3>1 DEF Ends
    <3>3. Told(r, t) = {}
      BY <1>2, <2>2, <3>1, <3>2
    <3> QED BY <2>1, <3>3
  <2>4. i \in DOMAIN o
    BY <1>4, <2>3
  <2>5. o[i] # "passed"
    <3>1. Told(r, t) = {o[i]}
      BY <1>5, <2>2, <2>4
    <3> HIDE DEF o
    <3> QED BY <2>1, <3>1
  <2> HIDE DEF o
  <2> QED BY <2>2, <2>4, <2>5 DEF Passed
<1> QED BY <1>4, <1>5, <1>6

\* What is heard of tests was run, and what a new run has to say is heard.
Ran(w, s, tests, commit, label, out) ==
    /\ IsSession(w, out.s)
    /\ Grown(s, out.s)
    /\ DOMAIN out.outcomes \subseteq DOMAIN tests
    /\ \A i \in DOMAIN out.outcomes :
         \E r \in out.s.runs : /\ r.commit = commit /\ r.key[2] = label
                               /\ Told(r, tests[i]) = {out.outcomes[i]}
    /\ \A r \in out.s.runs \ s.runs :
         /\ r.commit = commit
         /\ \A t : Differs(r, t) =>
              \E i \in DOMAIN out.outcomes \ Passed(out.outcomes) : tests[i] = t

\* Tests that are run are run by one execution, on record since.
LEMMA TestsAreRun ==
    ASSUME NEW w, NEW s, IsSession(w, s), NEW tests, NEW commit, NEW label
    PROVE  Ran(w, s, tests, commit, label, RunTestsOn(w, s, tests, commit, label))
<1> DEFINE out == RunTestsOn(w, s, tests, commit, label)
           ready == Calibrate(w, s, commit)
           job == RunJob(w, ready, commit, label, tests)
           goal == Ran(w, s, tests, commit, label, out)
<1>1. IsSession(w, ready) /\ ready.runs = s.runs /\ Grown(s, ready)
  BY MeasuringKeepsRuns
<1>2. \/ out = [s |-> s, outcomes |-> <<>>]
      \/ out = [s |-> ready, outcomes |-> <<>>]
      \/ out = Heard(job, tests)
  BY DEF RunTestsOn
<1>3. ASSUME NEW x, out = [s |-> x, outcomes |-> <<>>], IsSession(w, x), x.runs = s.runs,
             Grown(s, x)
      PROVE  goal
  <2>1. out.s = x /\ out.outcomes = <<>>
    BY <1>3
  <2> HIDE DEF out
  <2>2. DOMAIN out.outcomes = {}
    BY <2>1
  <2> QED BY <1>3, <2>1, <2>2 DEF Ran
<1>4. ASSUME out = Heard(job, tests) PROVE goal
  <2>1. /\ IsSession(w, job.s)
        /\ Grown(ready, job.s)
        /\ job.run \in job.s.runs
        /\ job.run.key = JobKey(commit, label, tests)
        /\ job.s.runs \subseteq ready.runs \cup {job.run}
    BY <1>1, JobsAreRuns
  <2>2. out.s = job.s /\ out.outcomes = Outcomes(job.run, tests)
    BY <1>4 DEF Heard
  <2> HIDE DEF out, job, ready
  <2>3. IsOf(job.run, commit, label, tests)
    BY <2>1, KeysSay DEF IsSession
  <2>4. /\ DOMAIN out.outcomes \subseteq DOMAIN tests
        /\ \A i \in DOMAIN out.outcomes : Told(job.run, tests[i]) = {out.outcomes[i]}
        /\ \A t : Differs(job.run, t) =>
             \E i \in DOMAIN out.outcomes \ Passed(out.outcomes) : tests[i] = t
    BY <2>2, <2>3, OutcomesAreTold DEF IsOf
  <2>5. Grown(s, out.s)
    BY <1>1, <2>1, <2>2 DEF Grown
  <2>6. \A r \in out.s.runs \ s.runs : r = job.run
    BY <1>1, <2>1, <2>2
  <2> QED BY <2>1, <2>2, <2>3, <2>4, <2>5, <2>6 DEF IsOf, Ran
<1>5. goal
  <2> HIDE DEF goal, out
  <2> QED BY <1>1, <1>2, <1>3, <1>4 DEF Grown
<1> QED BY <1>5

\* The same tests on the same commit give the same outcomes in a later session.
LEMMA TestsAgain ==
    ASSUME NEW w, NEW s, IsSession(w, s), NEW t, IsSession(w, t), NEW tests, NEW commit,
           NEW label, Grown(RunTestsOn(w, s, tests, commit, label).s, t)
    PROVE  LET out == RunTestsOn(w, s, tests, commit, label)
           IN  RunTestsOn(w, Now(t, s.raised), tests, commit, label)
                 = [s |-> Now(t, out.s.raised), outcomes |-> out.outcomes]
<1> DEFINE out == RunTestsOn(w, s, tests, commit, label)
           ready == Calibrate(w, s, commit)
           job == RunJob(w, ready, commit, label, tests)
           now == Now(t, s.raised)
           again == RunTestsOn(w, now, tests, commit, label)
<1>1. now.raised = s.raised
  BY NowIsSession
<1>2. IsSession(w, ready) /\ ready.runs = s.runs /\ Grown(s, ready)
  BY MeasuringKeepsRuns
<1>3. CASE tests = <<>> \/ s.raised # ""
  <2>1. out = [s |-> s, outcomes |-> <<>>] /\ again = [s |-> now, outcomes |-> <<>>]
    BY <1>1, <1>3 DEF RunTestsOn
  <2> QED BY <2>1
<1>4. CASE ~(tests = <<>> \/ s.raised # "")
  <2>1. out = IF ready.raised # "" THEN [s |-> ready, outcomes |-> <<>>] ELSE Heard(job, tests)
    BY <1>4 DEF RunTestsOn
  <2>2. Grown(ready, out.s)
    <3>1. Grown(ready, job.s)
      BY <1>2, JobsAreRuns
    <3>2. out.s = ready \/ out.s = job.s
      <4>1. out = [s |-> ready, outcomes |-> <<>>] \/ out = Heard(job, tests)
        BY <2>1
      <4> HIDE DEF out, ready, job
      <4> QED BY <4>1 DEF Heard
    <3> HIDE DEF ready, job, out
    <3> QED BY <3>1, <3>2 DEF Grown
  <2>3. Calibrate(w, now, commit) = Now(t, ready.raised)
    <3>1. Grown(ready, t)
      BY <2>2 DEF Grown
    <3> QED BY <3>1, MeasuringAgain
  <2> DEFINE rerun == RunJob(w, Now(t, ready.raised), commit, label, tests)
  <2>4. Now(t, ready.raised).raised = ready.raised
    BY NowIsSession
  <2>5. again = IF ready.raised # "" THEN [s |-> Now(t, ready.raised), outcomes |-> <<>>]
                ELSE Heard(rerun, tests)
    BY <1>1, <1>4, <2>3, <2>4 DEF RunTestsOn
  <2>6. CASE ready.raised # ""
    <3>1. /\ out = [s |-> ready, outcomes |-> <<>>]
          /\ again = [s |-> Now(t, ready.raised), outcomes |-> <<>>]
      BY <2>1, <2>5, <2>6
    <3>2. out.s = ready /\ out.outcomes = <<>>
      BY <3>1
    <3> QED BY <3>1, <3>2
  <2>7. CASE ready.raised = ""
    <3>1. out = Heard(job, tests) /\ again = Heard(rerun, tests)
      BY <2>1, <2>5, <2>7
    <3>2. out.s = job.s /\ out.outcomes = Outcomes(job.run, tests)
      BY <3>1 DEF Heard
    <3>3. job.s.raised = ready.raised
      BY <1>2, JobsAreRuns
    <3>4. rerun = [s |-> Now(t, ready.raised), run |-> job.run]
      <4>1. Grown(job.s, t)
        BY <3>2
      <4> QED BY <1>2, <4>1, JobAgain
    <3> HIDE DEF out, again, job, rerun, ready
    <3>5. again = [s |-> Now(t, ready.raised), outcomes |-> Outcomes(job.run, tests)]
      BY <3>1, <3>4 DEF Heard
    <3> QED BY <3>2, <3>3, <3>5 DEF out, again
  <2> QED BY <2>6, <2>7
<1> QED BY <1>3, <1>4

----------------------------------------------------------------------------
(* Validation on the base *)

\* What one run on the base passed, and what two did.
Tried(s, test) ==
    \E r \in s.runs : r.commit = "base" /\ r.key[2] # <<"confirm">> /\ Passes(r, test)
Twice(s, test) ==
    \E r, q \in s.runs : /\ r # q /\ r.commit = "base" /\ q.commit = "base"
                         /\ Passes(r, test) /\ Passes(q, test)

\* From one session to another, on the base alone.
OnBase(s, t) == Grown(s, t) /\ \A r \in t.runs \ s.runs : r.commit = "base"

\* Growing is transitive, and a session has grown from itself.
LEMMA GrowingIsTransitive ==
    ASSUME NEW a, NEW b, NEW c
    PROVE  /\ Grown(a, b) /\ Grown(b, c) => Grown(a, c)
           /\ OnBase(a, b) /\ OnBase(b, c) => OnBase(a, c)
           /\ Grown(a, a) /\ OnBase(a, a)
BY DEF Grown, OnBase

\* Asking the model leaves the executions, and at most raises.
LEMMA ConsultingKeepsRuns ==
    ASSUME NEW w, NEW s, IsSession(w, s)
    PROVE  /\ IsSession(w, Consult(w, s))
           /\ OnBase(s, Consult(w, s)) /\ Consult(w, s).runs = s.runs
           /\ Grown(Consult(w, s), s)
<1>1. s = [runs |-> s.runs, measured |-> s.measured, raised |-> s.raised]
  BY DEF IsSession
<1>2. PICK x : Consult(w, s) = [runs |-> s.runs, measured |-> s.measured, raised |-> x]
  BY <1>1 DEF Consult
<1> QED BY <1>1, <1>2 DEF IsSession, Grown, OnBase

\* Asking again raises what it raised before.
LEMMA ConsultingAgain ==
    ASSUME NEW w, NEW s, IsSession(w, s), NEW t, IsSession(w, t)
    PROVE  Consult(w, Now(t, s.raised)) = Now(t, Consult(w, s).raised)
<1>1. s = [runs |-> s.runs, measured |-> s.measured, raised |-> s.raised]
  BY DEF IsSession
<1>2. \A x, y : [Now(t, x) EXCEPT !.raised = y] = Now(t, y)
  BY NowIsSession
<1>3. CASE w.model
  BY <1>3 DEF Consult
<1>4. CASE ~w.model
  BY <1>1, <1>2, <1>4 DEF Consult
<1> QED BY <1>3, <1>4

Validating(w, s, v) ==
    /\ v = [s |-> v.s, survivors |-> v.survivors, pending |-> v.pending]
    /\ IsSession(w, v.s)
    /\ v.survivors \in Seq(DOMAIN w.rewrites)
    /\ v.pending \in Seq(DOMAIN w.rewrites)
    /\ \A j \in DOMAIN v.survivors : Tried(v.s, v.survivors[j])
    /\ OnBase(s, v.s)

\* What passed an attempt has passed it in any session that grew from there.
LEMMA TriedStays ==
    ASSUME NEW s, NEW t, Grown(s, t), NEW test
    PROVE  Tried(s, test) => Tried(t, test)
BY DEF Grown, Tried

\* One attempt.
LEMMA AttemptValidates ==
    ASSUME NEW w, IsWorld(w), NEW s, NEW v, Validating(w, s, v), NEW n
    PROVE  Validating(w, s, Attempt(w, v, n)) /\ Grown(v.s, Attempt(w, v, n).s)
<1> DEFINE T == DOMAIN w.rewrites
           base == "base"
           label == <<"a", n>>
           run == RunTestsOn(w, v.s, v.pending, base, label)
           passed == Passed(run.outcomes)
           kept == Keep(v.pending, passed)
           failed == Keep(v.pending, DOMAIN v.pending \ passed)
           done == failed = <<>> \/ n = MaxAttempts
           out == Attempt(w, v, n)
           after == IF done \/ run.s.raised # "" THEN run.s ELSE Consult(w, run.s)
           next == IF done THEN <<>> ELSE Regenerate(w, failed)
<1>1. CASE v.pending = <<>> \/ v.s.raised # ""
  <2>1. out = v
    BY <1>1 DEF Attempt
  <2> HIDE DEF out
  <2>2. Grown(v.s, v.s)
    BY GrowingIsTransitive
  <2> QED BY <2>1, <2>2 DEF out
<1>2. CASE ~(v.pending = <<>> \/ v.s.raised # "")
  <2>1. out = [s |-> after, survivors |-> v.survivors \o kept, pending |-> next]
    BY <1>2 DEF Attempt, Attempted
  <2>2. /\ v.survivors \in Seq(T) /\ v.pending \in Seq(T) /\ IsSession(w, v.s)
        /\ OnBase(s, v.s)
        /\ \A j \in DOMAIN v.survivors : Tried(v.s, v.survivors[j])
    BY DEF Validating
  <2>3. /\ IsSession(w, run.s)
        /\ Grown(v.s, run.s)
        /\ DOMAIN run.outcomes \subseteq DOMAIN v.pending
        /\ \A i \in DOMAIN run.outcomes :
             \E r \in run.s.runs : /\ r.commit = base /\ r.key[2] = label
                                   /\ Told(r, v.pending[i]) = {run.outcomes[i]}
        /\ \A r \in run.s.runs \ v.s.runs : r.commit = base
    <3> HIDE DEF base, label
    <3>1. Ran(w, v.s, v.pending, base, label, run)
      BY <2>2, TestsAreRun
    <3> HIDE DEF run
    <3> QED BY <3>1 DEF Ran
  <2>4. \A i \in passed : i \in DOMAIN run.outcomes /\ run.outcomes[i] = "passed"
    BY DEF Passed
  <2>5. \A i \in passed : Tried(run.s, v.pending[i])
    <3>1. <<"a", n>> # <<"confirm">>
      OBVIOUS
    <3> HIDE DEF run, passed
    <3> QED BY <2>3, <2>4, <3>1 DEF Tried, Passes
  <2>6. /\ kept \in Seq(T)
        /\ \A k \in DOMAIN kept : \E i \in DOMAIN v.pending : i \in passed /\ kept[k] = v.pending[i]
        /\ failed \in Seq(T)
    <3> HIDE DEF T, passed
    <3> QED BY <2>2, KeptIsList
  <2>7. next \in Seq(T)
    <3>1. Regenerate(w, failed) \in Seq(T)
      <4> HIDE DEF failed
      <4> QED BY <2>6, RegeneratedIsList
    <3> HIDE DEF T, failed
    <3> QED BY <3>1
  <2>8. IsSession(w, after) /\ OnBase(run.s, after)
    <3>1. IsSession(w, Consult(w, run.s)) /\ OnBase(run.s, Consult(w, run.s))
      BY <2>3, ConsultingKeepsRuns
    <3>2. OnBase(run.s, run.s)
      BY GrowingIsTransitive
    <3> HIDE DEF run, done
    <3> QED BY <2>3, <3>1, <3>2
  <2> HIDE DEF T, run, passed, kept, failed, done, out, after, next
  <2>9. OnBase(v.s, after)
    BY <2>3, <2>8, GrowingIsTransitive DEF OnBase
  <2>10. OnBase(s, after)
    BY <2>2, <2>9, GrowingIsTransitive
  <2>11. out.survivors \in Seq(T) /\ out.pending \in Seq(T) /\ out.s = after
    BY <2>1, <2>2, <2>6, <2>7
  <2>12. ASSUME NEW j \in DOMAIN out.survivors PROVE Tried(after, out.survivors[j])
    <3> DEFINE l == v.survivors
    <3>1. /\ Len(l) \in Nat /\ DOMAIN l = 1 .. Len(l) /\ Len(kept) \in Nat
          /\ DOMAIN kept = 1 .. Len(kept)
      BY <2>2, <2>6
    <3>2. out.survivors = l \o kept
      BY <2>1
    <3> HIDE DEF l
    <3>3. l \in Seq(T)
      BY <2>2 DEF l
    <3>4. j \in 1 .. Len(l) + Len(kept)
      BY <2>6, <3>2, <3>3
    <3>5. CASE j \in 1 .. Len(l)
      <4>1. out.survivors[j] = l[j] /\ Tried(v.s, l[j])
        BY <2>2, <2>6, <3>1, <3>2, <3>3, <3>5 DEF l
      <4> QED BY <2>9, <4>1, TriedStays DEF OnBase
    <3>6. CASE j \notin 1 .. Len(l)
      <4>1. j - Len(l) \in DOMAIN kept /\ out.survivors[j] = kept[j - Len(l)]
        BY <2>6, <3>1, <3>2, <3>3, <3>4, <3>6
      <4>2. Tried(run.s, out.survivors[j])
        BY <2>5, <2>6, <4>1
      <4> QED BY <2>8, <4>2, TriedStays DEF OnBase
    <3> QED BY <3>5, <3>6
  <2>13. out = [s |-> out.s, survivors |-> out.survivors, pending |-> out.pending]
    BY <2>1
  <2>14. Validating(w, s, out)
    <3>1. \A j \in DOMAIN out.survivors : Tried(out.s, out.survivors[j])
      BY <2>11, <2>12
    <3>2. IsSession(w, out.s) /\ OnBase(s, out.s)
      BY <2>8, <2>10, <2>11
    <3> QED BY <2>11, <2>13, <3>1, <3>2 DEF Validating, T
  <2>15. Grown(v.s, out.s)
    BY <2>9, <2>11 DEF OnBase
  <2> QED BY <2>14, <2>15 DEF out
<1> QED BY <1>1, <1>2


\* The same in a session that has the runs already.
LaterAttempt(v, t) ==
    [s |-> Now(t, v.s.raised), survivors |-> v.survivors, pending |-> v.pending]

\* An attempt made again changes nothing and keeps what it kept.
LEMMA AttemptAgain ==
    ASSUME NEW w, IsWorld(w), NEW s, NEW v, Validating(w, s, v), NEW n, NEW t, IsSession(w, t),
           Grown(Attempt(w, v, n).s, t)
    PROVE  Attempt(w, LaterAttempt(v, t), n) = LaterAttempt(Attempt(w, v, n), t)
<1> DEFINE base == "base"
           label == <<"a", n>>
           run == RunTestsOn(w, v.s, v.pending, base, label)
           rerun == RunTestsOn(w, Now(t, v.s.raised), v.pending, base, label)
           passed == Passed(run.outcomes)
           kept == Keep(v.pending, passed)
           failed == Keep(v.pending, DOMAIN v.pending \ passed)
           done == failed = <<>> \/ n = MaxAttempts
           out == Attempt(w, v, n)
           later == LaterAttempt(v, t)
           again == Attempt(w, later, n)
           next == IF done THEN <<>> ELSE Regenerate(w, failed)
<1>1. /\ later.s = Now(t, v.s.raised) /\ later.survivors = v.survivors
      /\ later.pending = v.pending
  BY DEF LaterAttempt
<1>2. Now(t, v.s.raised).raised = v.s.raised
  BY NowIsSession
<1>3. CASE v.pending = <<>> \/ v.s.raised # ""
  <2>1. out = v /\ again = later
    BY <1>1, <1>2, <1>3 DEF Attempt
  <2> QED BY <2>1
<1>4. CASE ~(v.pending = <<>> \/ v.s.raised # "")
  <2>1. out = Attempted(w, v, n, run)
    BY <1>4 DEF Attempt
  <2>2. again = Attempted(w, later, n, rerun)
    BY <1>1, <1>2, <1>4 DEF Attempt
  <2>3. IsSession(w, v.s)
    BY DEF Validating
  <2>4. IsSession(w, run.s)
    <3> HIDE DEF base, label
    <3>1. Ran(w, v.s, v.pending, base, label, run)
      BY <2>3, TestsAreRun
    <3> HIDE DEF run
    <3> QED BY <3>1 DEF Ran
  <2> DEFINE left == IF done \/ run.s.raised # "" THEN run.s ELSE Consult(w, run.s)
  <2>0. out = [s |-> left, survivors |-> v.survivors \o kept, pending |-> next]
    BY <2>1 DEF Attempted
  <2>10. out.s = left /\ out.survivors = v.survivors \o kept /\ out.pending = next
    <3> HIDE DEF out, left, kept, next
    <3> QED BY <2>0
  <2>5. out.s = IF done \/ run.s.raised # "" THEN run.s ELSE Consult(w, run.s)
    <3> HIDE DEF out, done, run
    <3> QED BY <2>10
  <2>6. Grown(run.s, t)
    <3> HIDE DEF done, run
    <3>1. Grown(run.s, Consult(w, run.s)) /\ Grown(run.s, run.s)
      BY <2>4, ConsultingKeepsRuns, GrowingIsTransitive DEF OnBase
    <3>2. Grown(run.s, out.s)
      BY <2>5, <3>1
    <3> HIDE DEF out
    <3> QED BY <3>2, GrowingIsTransitive DEF out
  <2>7. rerun = [s |-> Now(t, run.s.raised), outcomes |-> run.outcomes]
    <3> HIDE DEF base, label
    <3> QED BY <2>3, <2>6, TestsAgain
  <2>8. Now(t, run.s.raised).raised = run.s.raised
    BY NowIsSession
  <2>9. Consult(w, Now(t, run.s.raised)) = Now(t, Consult(w, run.s).raised)
    <3> HIDE DEF run
    <3> QED BY <2>4, ConsultingAgain
  <2>11. again = [s |-> IF done \/ run.s.raised # "" THEN Now(t, run.s.raised)
                        ELSE Consult(w, Now(t, run.s.raised)),
                  survivors |-> v.survivors \o kept, pending |-> next]
    <3> HIDE DEF run, rerun, later
    <3>1. rerun.s = Now(t, run.s.raised) /\ rerun.outcomes = run.outcomes
      BY <2>7
    <3>2. later.survivors = v.survivors /\ later.pending = v.pending
      BY <1>1
    <3> QED BY <2>2, <2>8, <3>1, <3>2 DEF Attempted
  <2>12. again = [s |-> Now(t, out.s.raised), survivors |-> out.survivors, pending |-> out.pending]
    <3> HIDE DEF run, rerun, later, done, kept, next, out, again
    <3> QED BY <2>5, <2>9, <2>10, <2>11
  <2> QED BY <2>12 DEF LaterAttempt
<1> QED BY <1>3, <1>4

AttemptsTo(w, s, tests, n, f) ==
    f = [k \in 0 .. n |-> IF k = 0 THEN [s |-> s, survivors |-> <<>>, pending |-> tests]
                          ELSE Attempt(w, f[k - 1], k)]

\* The attempts exist as the recursion says.
LEMMA AttemptsAreDefined ==
    ASSUME NEW w, NEW s, NEW tests
    PROVE  AttemptsTo(w, s, tests, MaxAttempts, Attempts(w, s, tests))
<1> DEFINE first == [s |-> s, survivors |-> <<>>, pending |-> tests]
           bad == {n \in Nat : ~ \E f : AttemptsTo(w, s, tests, n, f)}
<1>1. bad = {}
  <2> SUFFICES ASSUME bad # {} PROVE FALSE
    OBVIOUS
  <2>1. PICK n \in bad : \A m \in bad : n <= m
    <3>1. bad \in SUBSET Nat
      OBVIOUS
    <3> HIDE DEF bad
    <3> QED BY <3>1, Least
  <2>2. n \in Nat /\ ~ \E f : AttemptsTo(w, s, tests, n, f)
    OBVIOUS
  <2>3. CASE n = 0
    <3> DEFINE f == [i \in 0 .. 0 |-> first]
    <3>1. AttemptsTo(w, s, tests, 0, f)
      BY DEF AttemptsTo
    <3> HIDE DEF f
    <3> QED BY <2>2, <2>3, <3>1
  <2>4. CASE n # 0
    <3>1. n - 1 \in Nat /\ n - 1 \notin bad
      BY <2>1, <2>2, <2>4
    <3>2. PICK a : AttemptsTo(w, s, tests, n - 1, a)
      BY <3>1
    <3> HIDE DEF bad
    <3>3. a = [k \in 0 .. n - 1 |-> IF k = 0 THEN first ELSE Attempt(w, a[k - 1], k)]
      BY <3>2 DEF AttemptsTo
    <3> HIDE DEF first
    <3> DEFINE f == [k \in 0 .. n |-> IF k = n THEN Attempt(w, a[n - 1], n) ELSE a[k]]
    <3>4. ASSUME NEW k \in 0 .. n
          PROVE  f[k] = IF k = 0 THEN first ELSE Attempt(w, f[k - 1], k)
      <4>1. CASE k = n
        <5>1. n \in 0 .. n /\ n - 1 \in 0 .. n /\ n - 1 # n
          BY <2>2, <2>4
        <5>2. f[n] = Attempt(w, a[n - 1], n) /\ f[n - 1] = a[n - 1]
          BY <5>1
        <5> HIDE DEF f
        <5> QED BY <2>4, <4>1, <5>2
      <4>2. CASE k # n
        <5>1. k \in 0 .. n - 1
          BY <2>2, <4>2
        <5>2. f[k] = a[k] /\ a[k] = IF k = 0 THEN first ELSE Attempt(w, a[k - 1], k)
          BY <3>3, <4>2, <5>1
        <5>3. k # 0 => f[k - 1] = a[k - 1]
          <6> SUFFICES ASSUME k # 0 PROVE f[k - 1] = a[k - 1]
            OBVIOUS
          <6>1. k - 1 \in 0 .. n /\ k - 1 # n
            BY <2>2, <5>1
          <6> QED BY <6>1
        <5> HIDE DEF f
        <5> QED BY <5>2, <5>3
      <4> QED BY <4>1, <4>2
    <3>5. f = [k \in 0 .. n |-> IF k = 0 THEN first ELSE Attempt(w, f[k - 1], k)]
      BY <3>4
    <3> HIDE DEF f
    <3>6. AttemptsTo(w, s, tests, n, f)
      BY <3>5 DEF AttemptsTo, first
    <3> QED BY <2>2, <3>6
  <2> QED BY <2>3, <2>4
<1>2. \E f : AttemptsTo(w, s, tests, MaxAttempts, f)
  <2>1. MaxAttempts \notin bad
    BY <1>1
  <2>2. MaxAttempts \in Nat
    BY CharacterizeAssumption
  <2> QED BY <2>1, <2>2
<1>3. Attempts(w, s, tests) = CHOOSE f : AttemptsTo(w, s, tests, MaxAttempts, f)
  BY DEF Attempts, AttemptsTo
<1> QED BY <1>2, <1>3

\* After any number of attempts, each survivor has passed one of them.
LEMMA AttemptsValidate ==
    ASSUME NEW w, IsWorld(w), NEW s, IsSession(w, s), NEW tests \in Seq(DOMAIN w.rewrites)
    PROVE  \A n \in 0 .. MaxAttempts :
             /\ Validating(w, s, Attempts(w, s, tests)[n])
             /\ \A m \in 0 .. n : Grown(Attempts(w, s, tests)[m].s, Attempts(w, s, tests)[n].s)
<1> DEFINE f == Attempts(w, s, tests)
           first == [s |-> s, survivors |-> <<>>, pending |-> tests]
           good(n) == Validating(w, s, f[n]) /\ \A m \in 0 .. n : Grown(f[m].s, f[n].s)
           bad == {n \in 0 .. MaxAttempts : ~good(n)}
<1>1. \A k \in 0 .. MaxAttempts : f[k] = IF k = 0 THEN first ELSE Attempt(w, f[k - 1], k)
  <2>1. f = [k \in 0 .. MaxAttempts |-> IF k = 0 THEN first ELSE Attempt(w, f[k - 1], k)]
    BY AttemptsAreDefined DEF AttemptsTo
  <2> HIDE DEF f
  <2> QED BY <2>1
<1>2. MaxAttempts \in Nat
  BY CharacterizeAssumption
<1>3. Validating(w, s, first)
  <2>1. first.s = s /\ first.survivors = <<>> /\ first.pending = tests
    OBVIOUS
  <2>2. <<>> \in Seq(DOMAIN w.rewrites) /\ DOMAIN <<>> = {}
    OBVIOUS
  <2>3. OnBase(s, s)
    BY GrowingIsTransitive
  <2>4. first = [s |-> first.s, survivors |-> first.survivors, pending |-> first.pending]
    OBVIOUS
  <2> HIDE DEF first
  <2> QED BY <2>1, <2>2, <2>3, <2>4 DEF Validating
<1> HIDE DEF f, first
<1>4. bad = {}
  <2> SUFFICES ASSUME bad # {} PROVE FALSE
    OBVIOUS
  <2>1. PICK n \in bad : \A m \in bad : n <= m
    <3>1. bad \in SUBSET Nat
      OBVIOUS
    <3> HIDE DEF bad
    <3> QED BY <3>1, Least
  <2>2. n \in 0 .. MaxAttempts /\ ~good(n)
    OBVIOUS
  <2>3. n # 0
    <3> SUFFICES ASSUME n = 0 PROVE good(n)
      BY <2>2
    <3>1. f[0] = first
      BY <1>1, <1>2
    <3>2. \A m \in 0 .. 0 : m = 0
      OBVIOUS
    <3> QED BY <1>3, <3>1, <3>2, GrowingIsTransitive
  <2>4. n - 1 \in 0 .. MaxAttempts /\ n - 1 \notin bad
    BY <1>2, <2>1, <2>2, <2>3
  <2>5. good(n - 1)
    BY <2>4
  <2> HIDE DEF bad
  <2>6. f[n] = Attempt(w, f[n - 1], n)
    BY <1>1, <2>2, <2>3
  <2>7. Validating(w, s, f[n]) /\ Grown(f[n - 1].s, f[n].s)
    <3> DEFINE v == f[n - 1]
    <3> HIDE DEF v
    <3>1. Validating(w, s, v)
      BY <2>5 DEF v
    <3>2. Validating(w, s, Attempt(w, v, n)) /\ Grown(v.s, Attempt(w, v, n).s)
      BY <3>1, AttemptValidates
    <3> QED BY <2>6, <3>2 DEF v
  <2>8. \A m \in 0 .. n : m = n \/ m \in 0 .. n - 1
    BY <1>2, <2>2
  <2>9. \A m \in 0 .. n : Grown(f[m].s, f[n].s)
    BY <2>5, <2>7, <2>8, GrowingIsTransitive
  <2> QED BY <2>2, <2>7, <2>9
<1>5. \A n \in 0 .. MaxAttempts : good(n)
  BY <1>4
<1> QED BY <1>5 DEF f

\* The attempts made again keep the same survivors.
LEMMA AttemptsAgain ==
    ASSUME NEW w, IsWorld(w), NEW s, IsSession(w, s), NEW tests \in Seq(DOMAIN w.rewrites),
           NEW t, IsSession(w, t), Grown(Attempts(w, s, tests)[MaxAttempts].s, t)
    PROVE  Attempts(w, Now(t, s.raised), tests)[MaxAttempts]
             = LaterAttempt(Attempts(w, s, tests)[MaxAttempts], t)
<1> DEFINE f == Attempts(w, s, tests)
           g == Attempts(w, Now(t, s.raised), tests)
           first == [s |-> s, survivors |-> <<>>, pending |-> tests]
           again == [s |-> Now(t, s.raised), survivors |-> <<>>, pending |-> tests]
           bad == {n \in 0 .. MaxAttempts : g[n] # LaterAttempt(f[n], t)}
<1>1. MaxAttempts \in Nat
  BY CharacterizeAssumption
<1>2. \A k \in 0 .. MaxAttempts : /\ f[k] = IF k = 0 THEN first ELSE Attempt(w, f[k - 1], k)
                                  /\ g[k] = IF k = 0 THEN again ELSE Attempt(w, g[k - 1], k)
  <2>1. f = [k \in 0 .. MaxAttempts |-> IF k = 0 THEN first ELSE Attempt(w, f[k - 1], k)]
    BY AttemptsAreDefined DEF AttemptsTo
  <2>2. g = [k \in 0 .. MaxAttempts |-> IF k = 0 THEN again ELSE Attempt(w, g[k - 1], k)]
    <3>1. AttemptsTo(w, Now(t, s.raised), tests, MaxAttempts, g)
      BY AttemptsAreDefined
    <3> HIDE DEF g
    <3> QED BY <3>1 DEF AttemptsTo
  <2> HIDE DEF f, g
  <2> QED BY <2>1, <2>2
<1>3. \A n \in 0 .. MaxAttempts : Validating(w, s, f[n]) /\ Grown(f[n].s, t)
  <2>1. \A n \in 0 .. MaxAttempts : Validating(w, s, f[n]) /\ Grown(f[n].s, f[MaxAttempts].s)
    BY <1>1, AttemptsValidate
  <2> QED BY <2>1, GrowingIsTransitive
<1>4. again = LaterAttempt(first, t)
  BY DEF LaterAttempt
<1> HIDE DEF f, g, first, again
<1>5. bad = {}
  <2> SUFFICES ASSUME bad # {} PROVE FALSE
    OBVIOUS
  <2>1. PICK n \in bad : \A m \in bad : n <= m
    <3>1. bad \in SUBSET Nat
      OBVIOUS
    <3> HIDE DEF bad
    <3> QED BY <3>1, Least
  <2>2. n \in 0 .. MaxAttempts /\ g[n] # LaterAttempt(f[n], t)
    OBVIOUS
  <2>3. n # 0
    BY <1>1, <1>2, <1>4, <2>2
  <2>4. n - 1 \in 0 .. MaxAttempts /\ n - 1 \notin bad
    BY <1>1, <2>1, <2>2, <2>3
  <2>5. g[n - 1] = LaterAttempt(f[n - 1], t)
    BY <2>4
  <2> HIDE DEF bad
  <2> DEFINE v == f[n - 1]
  <2>6. f[n] = Attempt(w, v, n) /\ g[n] = Attempt(w, LaterAttempt(v, t), n)
    BY <1>2, <2>2, <2>3, <2>5
  <2>7. Validating(w, s, v)
    BY <1>3, <2>4
  <2>8. Grown(Attempt(w, v, n).s, t)
    BY <1>3, <2>2, <2>6
  <2> HIDE DEF v
  <2>9. Attempt(w, LaterAttempt(v, t), n) = LaterAttempt(Attempt(w, v, n), t)
    BY <2>7, <2>8, AttemptAgain
  <2> QED BY <2>2, <2>6, <2>9
<1> QED BY <1>1, <1>5 DEF f, g


\* What is valid has passed twice.
LEMMA ValidPassesTwice ==
    ASSUME NEW w, IsWorld(w), NEW s, IsSession(w, s), NEW tests \in Seq(DOMAIN w.rewrites)
    PROVE  LET out == ValidateOnBase(w, s, tests)
           IN  /\ IsSession(w, out.s)
               /\ OnBase(s, out.s)
               /\ \A j \in DOMAIN out.survivors : Twice(out.s, out.survivors[j])
               /\ Grown(Attempts(w, s, tests)[MaxAttempts].s, out.s)
<1> DEFINE base == "base"
           label == <<"confirm">>
           v == Attempts(w, s, tests)[MaxAttempts]
           run == RunTestsOn(w, v.s, v.survivors, base, label)
           passed == Passed(run.outcomes)
           kept == Keep(v.survivors, passed)
           out == ValidateOnBase(w, s, tests)
<1>1. Validating(w, s, v)
  <2>1. MaxAttempts \in 0 .. MaxAttempts
    BY CharacterizeAssumption
  <2> QED BY <2>1, AttemptsValidate
<1>2. out = [s |-> run.s, survivors |-> kept]
  BY DEF ValidateOnBase, DropFlaky
<1> HIDE DEF v
<1>3. Ran(w, v.s, v.survivors, base, label, run)
  <2> HIDE DEF base, label
  <2> QED BY <1>1, TestsAreRun DEF Validating
<1>4. /\ v.survivors \in Seq(DOMAIN w.rewrites)
      /\ \A j \in DOMAIN v.survivors : Tried(v.s, v.survivors[j])
      /\ OnBase(s, v.s)
  BY <1>1 DEF Validating
<1>5. \A k \in DOMAIN kept : \E i \in DOMAIN v.survivors : i \in passed /\ kept[k] = v.survivors[i]
  <2> HIDE DEF passed
  <2> QED BY <1>4, KeptIsList
<1> HIDE DEF run, out
<1>6. /\ IsSession(w, run.s) /\ Grown(v.s, run.s)
      /\ \A r \in run.s.runs \ v.s.runs : r.commit = "base"
      /\ \A i \in DOMAIN run.outcomes :
           \E r \in run.s.runs : /\ r.commit = "base" /\ r.key[2] = <<"confirm">>
                                 /\ Told(r, v.survivors[i]) = {run.outcomes[i]}
  BY <1>3 DEF Ran
<1>7. ASSUME NEW i \in DOMAIN v.survivors, i \in passed PROVE Twice(run.s, v.survivors[i])
  <2>1. i \in DOMAIN run.outcomes /\ run.outcomes[i] = "passed"
    BY <1>7 DEF Passed
  <2>2. PICK q \in run.s.runs : /\ q.commit = "base" /\ q.key[2] = <<"confirm">>
                                /\ Told(q, v.survivors[i]) = {"passed"}
    BY <1>6, <2>1
  <2>3. PICK r \in v.s.runs : /\ r.commit = "base" /\ r.key[2] # <<"confirm">>
                              /\ Passes(r, v.survivors[i])
    BY <1>4 DEF Tried
  <2>4. r \in run.s.runs /\ r # q /\ Passes(q, v.survivors[i])
    BY <1>6, <2>2, <2>3 DEF Grown, Passes
  <2> QED BY <2>2, <2>3, <2>4 DEF Twice
<1>8. OnBase(s, run.s)
  <2>1. OnBase(v.s, run.s)
    BY <1>6 DEF OnBase
  <2> QED BY <1>4, <2>1, GrowingIsTransitive
<1> HIDE DEF passed, kept
<1>9. out.s = run.s /\ out.survivors = kept
  BY <1>2
<1>10. \A j \in DOMAIN out.survivors : Twice(out.s, out.survivors[j])
  BY <1>5, <1>7, <1>9
<1> QED BY <1>6, <1>8, <1>9, <1>10 DEF out, v

\* The validation made again keeps the same survivors.
LEMMA ValidAgain ==
    ASSUME NEW w, IsWorld(w), NEW s, IsSession(w, s), NEW tests \in Seq(DOMAIN w.rewrites),
           NEW t, IsSession(w, t), Grown(ValidateOnBase(w, s, tests).s, t)
    PROVE  ValidateOnBase(w, Now(t, s.raised), tests)
             = [s |-> Now(t, ValidateOnBase(w, s, tests).s.raised),
                survivors |-> ValidateOnBase(w, s, tests).survivors]
<1> DEFINE base == "base"
           label == <<"confirm">>
           v == Attempts(w, s, tests)[MaxAttempts]
           run == RunTestsOn(w, v.s, v.survivors, base, label)
           rerun == RunTestsOn(w, Now(t, v.s.raised), v.survivors, base, label)
           kept == Keep(v.survivors, Passed(run.outcomes))
           out == ValidateOnBase(w, s, tests)
           again == ValidateOnBase(w, Now(t, s.raised), tests)
<1>1. IsSession(w, v.s)
  <2>1. MaxAttempts \in 0 .. MaxAttempts
    BY CharacterizeAssumption
  <2> QED BY <2>1, AttemptsValidate DEF Validating
<1>2. out = [s |-> run.s, survivors |-> kept]
  BY DEF ValidateOnBase, DropFlaky
<1>3. out.s = run.s /\ out.survivors = kept
  <2> HIDE DEF run, kept, out
  <2> QED BY <1>2
<1>4. Grown(v.s, t)
  BY ValidPassesTwice, GrowingIsTransitive
<1>5. Attempts(w, Now(t, s.raised), tests)[MaxAttempts] = LaterAttempt(v, t)
  BY <1>4, AttemptsAgain
<1>6. LaterAttempt(v, t).s = Now(t, v.s.raised) /\ LaterAttempt(v, t).survivors = v.survivors
  BY DEF LaterAttempt
<1>7. again = DropFlaky(w, LaterAttempt(v, t))
  BY <1>5 DEF ValidateOnBase
<1> HIDE DEF v
<1>8. rerun = [s |-> Now(t, run.s.raised), outcomes |-> run.outcomes]
  <2>1. Grown(run.s, t)
    BY <1>3
  <2> HIDE DEF base, label
  <2> QED BY <1>1, <2>1, TestsAgain
<1>9. again = [s |-> rerun.s, survivors |-> Keep(v.survivors, Passed(rerun.outcomes))]
  BY <1>6, <1>7 DEF DropFlaky
<1> HIDE DEF run, rerun
<1>10. rerun.s = Now(t, run.s.raised) /\ rerun.outcomes = run.outcomes
  BY <1>8
<1>11. again = [s |-> Now(t, run.s.raised), survivors |-> kept]
  BY <1>9, <1>10
<1> HIDE DEF kept, out, again
<1>12. again = [s |-> Now(t, out.s.raised), survivors |-> out.survivors]
  BY <1>3, <1>11
<1> QED BY <1>12 DEF out, again
----------------------------------------------------------------------------
(* The differential *)

IsFinding(f) ==
    f = [kind |-> f.kind, symbol |-> f.symbol, detail |-> f.detail, test |-> f.test,
         norm |-> f.norm, confidence |-> f.confidence, severity |-> f.severity]

\* What was found was seen, and what was seen was found.
Differed(s, test) == \E r \in s.runs : r.commit = "head" /\ Differs(r, test)
Finds(w, s, d) ==
    /\ d = [s |-> d.s, findings |-> d.findings]
    /\ IsSession(w, d.s)
    /\ Grown(s, d.s)
    /\ \A f \in d.findings : /\ IsFinding(f) /\ f.kind = "behavior_change"
                             /\ Twice(d.s, f.test) /\ Differed(d.s, f.test)
    /\ \A test : Differed(d.s, test) => \E f \in d.findings : f.test = test

\* The symbols that are characterised are symbols of the change.
LEMMA SelectedIsList ==
    ASSUME NEW w, IsWorld(w)
    PROVE  Selected(w) \in Seq(Elements(w.radius))
<1> DEFINE S == Elements(w.radius)
           touched == {i \in DOMAIN w.radius : w.radius[i].touched}
           rest == DOMAIN w.radius \ touched
           all == TouchedFirst(w.radius)
<1>1. w.radius \in Seq(S)
  BY DEF IsWorld
<1>2. Keep(w.radius, touched) \in Seq(S) /\ Keep(w.radius, rest) \in Seq(S)
  <2> HIDE DEF S, touched, rest
  <2> QED BY <1>1, KeptIsList
<1>3. all = Keep(w.radius, touched) \o Keep(w.radius, rest)
  BY DEF TouchedFirst
<1> HIDE DEF S, touched, rest, all
<1>4. all \in Seq(S)
  BY <1>2, <1>3
<1> DEFINE few == 1 .. MaxSymbols
<1>5. Selected(w) = Keep(all, few)
  BY DEF Selected, all
<1> HIDE DEF few
<1>6. Keep(all, few) \in Seq(S)
  BY <1>4, KeptIsList
<1> QED BY <1>5, <1>6 DEF S

\* What two executions passed they have passed in any later session.
LEMMA TwiceStays ==
    ASSUME NEW s, NEW t, Grown(s, t), NEW test
    PROVE  /\ Twice(s, test) => Twice(t, test)
           /\ Differed(s, test) => Differed(t, test)
BY DEF Grown, Twice, Differed

\* On the base nothing new differs.
LEMMA OnBaseNothingDiffers ==
    ASSUME NEW s, NEW t, OnBase(s, t), NEW test, Differed(t, test)
    PROVE  Differed(s, test)
BY DEF OnBase, Differed

\* The survivors run on the head give the findings the execution there tells.
LEMMA HeadIsFound ==
    ASSUME NEW w, NEW s, NEW d, Finds(w, s, d), NEW symbol, NEW valid,
           IsSession(w, valid.s), OnBase(d.s, valid.s),
           \A j \in DOMAIN valid.survivors : Twice(valid.s, valid.survivors[j])
    PROVE  /\ Finds(w, s, RunOnHead(w, d, symbol, valid))
           /\ Grown(valid.s, RunOnHead(w, d, symbol, valid).s)
<1> DEFINE head == "head"
           label == <<"head">>
           tests == valid.survivors
           run == RunTestsOn(w, valid.s, tests, head, label)
           missed == DOMAIN run.outcomes \ Passed(run.outcomes)
           new == {BehaviorChange(w, symbol, tests, i) : i \in missed}
           out == RunOnHead(w, d, symbol, valid)
<1>1. out = [s |-> run.s, findings |-> d.findings \cup new]
  BY DEF RunOnHead, Differing
<1>2. Ran(w, valid.s, tests, head, label, run)
  <2> HIDE DEF head, label, tests
  <2> QED BY TestsAreRun
<1> HIDE DEF run
<1>3. /\ IsSession(w, run.s) /\ Grown(valid.s, run.s)
      /\ DOMAIN run.outcomes \subseteq DOMAIN tests
      /\ \A i \in DOMAIN run.outcomes :
           \E r \in run.s.runs : /\ r.commit = "head"
                                 /\ Told(r, tests[i]) = {run.outcomes[i]}
      /\ \A r \in run.s.runs \ valid.s.runs :
           \A t : Differs(r, t) => \E i \in missed : tests[i] = t
  BY <1>2 DEF Ran
<1>4. ASSUME NEW i \in missed PROVE Twice(run.s, tests[i]) /\ Differed(run.s, tests[i])
  <2>1. i \in DOMAIN run.outcomes /\ run.outcomes[i] # "passed"
    BY <1>4 DEF Passed
  <2>2. PICK r \in run.s.runs : r.commit = "head" /\ Told(r, tests[i]) = {run.outcomes[i]}
    BY <1>3, <2>1
  <2>3. Differs(r, tests[i])
    BY <2>1, <2>2 DEF Differs
  <2>4. Twice(valid.s, tests[i])
    BY <1>3, <2>1
  <2> QED BY <1>3, <2>2, <2>3, <2>4, TwiceStays DEF Differed
<1>5. \A i : LET f == BehaviorChange(w, symbol, tests, i)
             IN  IsFinding(f) /\ f.kind = "behavior_change" /\ f.test = tests[i]
  BY DEF BehaviorChange, IsFinding
<1> HIDE DEF missed, tests
<1>6. \A f \in new : /\ IsFinding(f) /\ f.kind = "behavior_change"
                     /\ Twice(run.s, f.test) /\ Differed(run.s, f.test)
  BY <1>4, <1>5
<1>7. \A i \in missed : \E f \in new : f.test = tests[i]
  BY <1>5
<1> HIDE DEF new
<1>8. Grown(d.s, run.s)
  BY <1>3, GrowingIsTransitive DEF OnBase
<1>9. \A f \in d.findings : /\ IsFinding(f) /\ f.kind = "behavior_change"
                            /\ Twice(run.s, f.test) /\ Differed(run.s, f.test)
  BY <1>8, TwiceStays DEF Finds
<1>10. ASSUME NEW test, Differed(run.s, test) PROVE \E f \in d.findings \cup new : f.test = test
  <2>1. PICK r \in run.s.runs : r.commit = "head" /\ Differs(r, test)
    BY <1>10 DEF Differed
  <2>2. CASE r \in valid.s.runs
    <3>1. Differed(d.s, test)
      BY <2>1, <2>2, OnBaseNothingDiffers DEF Differed
    <3> QED BY <3>1 DEF Finds
  <2>3. CASE r \notin valid.s.runs
    BY <1>3, <1>7, <2>1, <2>3
  <2> QED BY <2>2, <2>3
<1> HIDE DEF out
<1>11. out.s = run.s /\ out.findings = d.findings \cup new
  BY <1>1
<1>12. Grown(s, run.s)
  BY <1>8, GrowingIsTransitive DEF Finds
<1>13. Finds(w, s, out)
  BY <1>1, <1>3, <1>6, <1>9, <1>10, <1>11, <1>12 DEF Finds
<1> QED BY <1>3, <1>11, <1>13 DEF out


\* The survivors run on the head again give the same findings.
LEMMA HeadAgain ==
    ASSUME NEW w, NEW d, NEW symbol, NEW valid, IsSession(w, valid.s), NEW t, IsSession(w, t),
           Grown(RunOnHead(w, d, symbol, valid).s, t), NEW e, e.findings = d.findings,
           NEW revalid, revalid.s = Now(t, valid.s.raised), revalid.survivors = valid.survivors
    PROVE  RunOnHead(w, e, symbol, revalid)
             = [s |-> Now(t, RunOnHead(w, d, symbol, valid).s.raised),
                findings |-> RunOnHead(w, d, symbol, valid).findings]
<1> DEFINE head == "head"
           label == <<"head">>
           run == RunTestsOn(w, valid.s, valid.survivors, head, label)
           rerun == RunTestsOn(w, Now(t, valid.s.raised), valid.survivors, head, label)
           out == RunOnHead(w, d, symbol, valid)
           again == RunOnHead(w, e, symbol, revalid)
           all(r) == d.findings \cup {BehaviorChange(w, symbol, valid.survivors, i) :
                                        i \in DOMAIN r.outcomes \ Passed(r.outcomes)}
<1>1. out = [s |-> run.s, findings |-> all(run)] /\ again = [s |-> rerun.s, findings |-> all(rerun)]
  BY DEF RunOnHead, Differing
<1>2. out.s = run.s /\ out.findings = all(run)
  <2> HIDE DEF run, out, all
  <2> QED BY <1>1
<1>3. rerun = [s |-> Now(t, run.s.raised), outcomes |-> run.outcomes]
  <2>1. Grown(run.s, t)
    BY <1>2
  <2> HIDE DEF head, label
  <2> QED BY <2>1, TestsAgain
<1> HIDE DEF run, rerun
<1>4. rerun.s = Now(t, run.s.raised) /\ all(rerun) = all(run)
  BY <1>3
<1> HIDE DEF out, again, all
<1>5. again = [s |-> Now(t, out.s.raised), findings |-> out.findings]
  BY <1>1, <1>2, <1>4
<1> QED BY <1>5 DEF out, again

\* One symbol.
LEMMA CharacterizedFinds ==
    ASSUME NEW w, IsWorld(w), NEW s, NEW d, Finds(w, s, d), NEW symbol \in Elements(w.radius)
    PROVE  /\ Finds(w, s, Characterized(w, d, symbol))
           /\ Grown(d.s, Characterized(w, d, symbol).s)
<1> DEFINE tests == SplitTests(w.writes[symbol.name])
           asked == Consult(w, d.s)
           valid == ValidateOnBase(w, asked, tests)
           out == Characterized(w, d, symbol)
<1>1. CASE ~symbol.readable \/ d.s.raised # ""
  <2>1. out = d
    BY <1>1 DEF Characterized
  <2> QED BY <2>1, GrowingIsTransitive
<1>2. CASE ~(~symbol.readable \/ d.s.raised # "")
  <2>1. out = RunOnHead(w, d, symbol, valid)
    BY <1>2 DEF Characterized
  <2>2. tests \in Seq(DOMAIN w.rewrites)
    BY SplitIsList DEF IsWorld
  <2>3. IsSession(w, asked) /\ OnBase(d.s, asked)
    BY ConsultingKeepsRuns DEF Finds
  <2> HIDE DEF tests, asked
  <2>4. /\ IsSession(w, valid.s) /\ OnBase(asked, valid.s)
        /\ \A j \in DOMAIN valid.survivors : Twice(valid.s, valid.survivors[j])
    BY <2>2, <2>3, ValidPassesTwice
  <2> HIDE DEF valid
  <2>5. OnBase(d.s, valid.s)
    BY <2>3, <2>4, GrowingIsTransitive
  <2>6. Finds(w, s, RunOnHead(w, d, symbol, valid))
        /\ Grown(valid.s, RunOnHead(w, d, symbol, valid).s)
    BY <2>4, <2>5, HeadIsFound
  <2> HIDE DEF out
  <2>7. Finds(w, s, out) /\ Grown(d.s, out.s)
    BY <2>1, <2>5, <2>6, GrowingIsTransitive DEF OnBase
  <2> QED BY <2>7 DEF out
<1> QED BY <1>1, <1>2

LaterFinds(d, t) == [s |-> Now(t, d.s.raised), findings |-> d.findings]

\* A symbol characterised again gives the same findings.
LEMMA CharacterizedAgain ==
    ASSUME NEW w, IsWorld(w), NEW s, NEW d, Finds(w, s, d), NEW symbol \in Elements(w.radius),
           NEW t, IsSession(w, t), Grown(Characterized(w, d, symbol).s, t)
    PROVE  Characterized(w, LaterFinds(d, t), symbol) = LaterFinds(Characterized(w, d, symbol), t)
<1> DEFINE tests == SplitTests(w.writes[symbol.name])
           asked == Consult(w, d.s)
           valid == ValidateOnBase(w, asked, tests)
           later == LaterFinds(d, t)
           revalid == ValidateOnBase(w, Now(t, asked.raised), tests)
           out == Characterized(w, d, symbol)
           again == Characterized(w, later, symbol)
<1>1. later.s = Now(t, d.s.raised) /\ later.findings = d.findings
  BY DEF LaterFinds
<1>2. later.s.raised = d.s.raised
  BY <1>1, NowIsSession
<1> HIDE DEF later
<1>3. CASE ~symbol.readable \/ d.s.raised # ""
  <2>1. out = d /\ again = later
    BY <1>2, <1>3 DEF Characterized
  <2> QED BY <2>1 DEF later
<1>4. CASE ~(~symbol.readable \/ d.s.raised # "")
  <2>1. out = RunOnHead(w, d, symbol, valid)
    BY <1>4 DEF Characterized
  <2>2. tests \in Seq(DOMAIN w.rewrites)
    BY SplitIsList DEF IsWorld
  <2>3. IsSession(w, asked) /\ OnBase(d.s, asked)
    BY ConsultingKeepsRuns DEF Finds
  <2>4. Consult(w, later.s) = Now(t, asked.raised)
    BY <1>1, ConsultingAgain DEF Finds
  <2>5. again = RunOnHead(w, later, symbol, revalid)
    BY <1>2, <1>4, <2>4 DEF Characterized
  <2> HIDE DEF tests, asked
  <2>6. /\ IsSession(w, valid.s) /\ OnBase(asked, valid.s)
        /\ \A j \in DOMAIN valid.survivors : Twice(valid.s, valid.survivors[j])
    BY <2>2, <2>3, ValidPassesTwice
  <2>7. OnBase(d.s, valid.s)
    BY <2>3, <2>6, GrowingIsTransitive
  <2>8. Grown(valid.s, t)
    <3> HIDE DEF valid, out
    <3>1. Grown(valid.s, out.s)
      BY <2>1, <2>6, <2>7, HeadIsFound
    <3> QED BY <3>1, GrowingIsTransitive DEF out
  <2>9. revalid = [s |-> Now(t, valid.s.raised), survivors |-> valid.survivors]
    BY <2>2, <2>3, <2>8, ValidAgain
  <2> HIDE DEF valid, revalid
  <2>10. revalid.s = Now(t, valid.s.raised) /\ revalid.survivors = valid.survivors
    BY <2>9
  <2>11. again = [s |-> Now(t, out.s.raised), findings |-> out.findings]
    <3>1. Grown(RunOnHead(w, d, symbol, valid).s, t)
      BY <2>1
    <3>2. RunOnHead(w, later, symbol, revalid)
             = [s |-> Now(t, RunOnHead(w, d, symbol, valid).s.raised),
                findings |-> RunOnHead(w, d, symbol, valid).findings]
      BY <1>1, <2>6, <2>10, <3>1, HeadAgain
    <3> QED BY <2>1, <2>5, <3>2
  <2> HIDE DEF out, again
  <2>12. again = LaterFinds(out, t)
    BY <2>11 DEF LaterFinds
  <2> QED BY <2>12 DEF out, again, later
<1> QED BY <1>3, <1>4

\* Symbol after symbol.
Begun(w, s) == [s |-> IF w.described THEN Consult(w, s) ELSE s, findings |-> {}]
DifferentialsTo(w, s, chosen, n, f) ==
    f = [k \in 0 .. n |-> IF k = 0 THEN Begun(w, s)
                          ELSE Characterized(w, f[k - 1], chosen[k])]

\* What is found up to each symbol exists as the recursion says.
LEMMA DifferentialsAreDefined ==
    ASSUME NEW w, NEW s, NEW chosen, Len(chosen) \in Nat
    PROVE  DifferentialsTo(w, s, chosen, Len(chosen), Differentials(w, s, chosen))
<1> DEFINE first == Begun(w, s)
           bad == {n \in Nat : ~ \E f : DifferentialsTo(w, s, chosen, n, f)}
<1>1. bad = {}
  <2> SUFFICES ASSUME bad # {} PROVE FALSE
    OBVIOUS
  <2>1. PICK n \in bad : \A m \in bad : n <= m
    <3>1. bad \in SUBSET Nat
      OBVIOUS
    <3> HIDE DEF bad
    <3> QED BY <3>1, Least
  <2>2. n \in Nat /\ ~ \E f : DifferentialsTo(w, s, chosen, n, f)
    OBVIOUS
  <2>3. CASE n = 0
    <3> DEFINE f == [i \in 0 .. 0 |-> first]
    <3>1. DifferentialsTo(w, s, chosen, 0, f)
      BY DEF DifferentialsTo
    <3> HIDE DEF f
    <3> QED BY <2>2, <2>3, <3>1
  <2>4. CASE n # 0
    <3>1. n - 1 \in Nat /\ n - 1 \notin bad
      BY <2>1, <2>2, <2>4
    <3>2. PICK a : DifferentialsTo(w, s, chosen, n - 1, a)
      BY <3>1
    <3> HIDE DEF bad
    <3>3. a = [k \in 0 .. n - 1 |-> IF k = 0 THEN first ELSE Characterized(w, a[k - 1], chosen[k])]
      BY <3>2 DEF DifferentialsTo
    <3> HIDE DEF first
    <3> DEFINE f == [k \in 0 .. n |-> IF k = n THEN Characterized(w, a[n - 1], chosen[n]) ELSE a[k]]
    <3>4. ASSUME NEW k \in 0 .. n
          PROVE  f[k] = IF k = 0 THEN first ELSE Characterized(w, f[k - 1], chosen[k])
      <4>1. CASE k = n
        <5>1. n \in 0 .. n /\ n - 1 \in 0 .. n /\ n - 1 # n
          BY <2>2, <2>4
        <5>2. f[n] = Characterized(w, a[n - 1], chosen[n]) /\ f[n - 1] = a[n - 1]
          BY <5>1
        <5> HIDE DEF f
        <5> QED BY <2>4, <4>1, <5>2
      <4>2. CASE k # n
        <5>1. k \in 0 .. n - 1
          BY <2>2, <4>2
        <5>2. f[k] = a[k] /\ a[k] = IF k = 0 THEN first ELSE Characterized(w, a[k - 1], chosen[k])
          BY <3>3, <4>2, <5>1
        <5>3. k # 0 => f[k - 1] = a[k - 1]
          <6> SUFFICES ASSUME k # 0 PROVE f[k - 1] = a[k - 1]
            OBVIOUS
          <6>1. k - 1 \in 0 .. n /\ k - 1 # n
            BY <2>2, <5>1
          <6> QED BY <6>1
        <5> HIDE DEF f
        <5> QED BY <5>2, <5>3
      <4> QED BY <4>1, <4>2
    <3>5. f = [k \in 0 .. n |-> IF k = 0 THEN first ELSE Characterized(w, f[k - 1], chosen[k])]
      BY <3>4
    <3> HIDE DEF f
    <3>6. DifferentialsTo(w, s, chosen, n, f)
      BY <3>5 DEF DifferentialsTo, first
    <3> QED BY <2>2, <3>6
  <2> QED BY <2>3, <2>4
<1>2. \E f : DifferentialsTo(w, s, chosen, Len(chosen), f)
  <2>1. Len(chosen) \notin bad
    BY <1>1
  <2>2. Len(chosen) \in Nat
    OBVIOUS
  <2> QED BY <2>1, <2>2
<1>3. Differentials(w, s, chosen) = CHOOSE f : DifferentialsTo(w, s, chosen, Len(chosen), f)
  BY DEF Differentials, Begun, DifferentialsTo
<1> QED BY <1>2, <1>3

\* Before the first symbol nothing has run on the head and nothing is found.
LEMMA BegunFinds ==
    ASSUME NEW w, NEW s, IsSession(w, s), \A r \in s.runs : r.commit # "head"
    PROVE  Finds(w, s, Begun(w, s))
<1> DEFINE asked == IF w.described THEN Consult(w, s) ELSE s
           d == Begun(w, s)
<1>1. IsSession(w, asked) /\ Grown(s, asked) /\ asked.runs = s.runs
  <2>1. /\ IsSession(w, Consult(w, s)) /\ Grown(s, Consult(w, s))
        /\ Consult(w, s).runs = s.runs /\ Grown(s, s)
    BY ConsultingKeepsRuns, GrowingIsTransitive DEF OnBase
  <2> QED BY <2>1
<1>2. d = [s |-> asked, findings |-> {}]
  BY DEF Begun
<1> HIDE DEF asked, d
<1>3. d.s = asked /\ d.findings = {}
  BY <1>2
<1>4. \A test : ~Differed(asked, test)
  BY <1>1 DEF Differed
<1> QED BY <1>1, <1>2, <1>3, <1>4 DEF Finds, d

\* Up to any symbol, what is found is what the executions on the head tell.
LEMMA DifferentialsFind ==
    ASSUME NEW w, IsWorld(w), NEW s, IsSession(w, s), \A r \in s.runs : r.commit # "head",
           NEW chosen \in Seq(Elements(w.radius))
    PROVE  LET f == Differentials(w, s, chosen)
           IN  \A n \in 0 .. Len(chosen) :
                 Finds(w, s, f[n]) /\ \A m \in 0 .. n : Grown(f[m].s, f[n].s)
<1> DEFINE f == Differentials(w, s, chosen)
           good(n) == Finds(w, s, f[n]) /\ \A m \in 0 .. n : Grown(f[m].s, f[n].s)
           bad == {n \in 0 .. Len(chosen) : ~good(n)}
<1>1. \A k \in 0 .. Len(chosen) :
        f[k] = IF k = 0 THEN Begun(w, s) ELSE Characterized(w, f[k - 1], chosen[k])
  <2>1. Len(chosen) \in Nat
    OBVIOUS
  <2>2. DifferentialsTo(w, s, chosen, Len(chosen), f)
    BY <2>1, DifferentialsAreDefined
  <2> HIDE DEF f
  <2>3. f = [k \in 0 .. Len(chosen) |->
               IF k = 0 THEN Begun(w, s) ELSE Characterized(w, f[k - 1], chosen[k])]
    BY <2>2 DEF DifferentialsTo
  <2> QED BY <2>3
<1>2. Len(chosen) \in Nat
  OBVIOUS
<1> HIDE DEF f
<1>3. Finds(w, s, Begun(w, s))
  BY BegunFinds
<1>4. bad = {}
  <2> SUFFICES ASSUME bad # {} PROVE FALSE
    OBVIOUS
  <2>1. PICK n \in bad : \A m \in bad : n <= m
    <3>1. bad \in SUBSET Nat
      OBVIOUS
    <3> HIDE DEF bad
    <3> QED BY <3>1, Least
  <2>2. n \in 0 .. Len(chosen) /\ ~good(n)
    OBVIOUS
  <2>3. n # 0
    <3> SUFFICES ASSUME n = 0 PROVE good(n)
      BY <2>2
    <3>1. f[0] = Begun(w, s)
      BY <1>1, <1>2
    <3>2. \A m \in 0 .. 0 : m = 0
      OBVIOUS
    <3> QED BY <1>3, <3>1, <3>2, GrowingIsTransitive
  <2>4. n - 1 \in 0 .. Len(chosen) /\ n - 1 \notin bad
    BY <1>2, <2>1, <2>2, <2>3
  <2>5. good(n - 1)
    BY <2>4
  <2> HIDE DEF bad
  <2>6. f[n] = Characterized(w, f[n - 1], chosen[n])
    BY <1>1, <2>2, <2>3
  <2>7. Finds(w, s, f[n]) /\ Grown(f[n - 1].s, f[n].s)
    <3> DEFINE d == f[n - 1]
               x == chosen[n]
    <3>1. Finds(w, s, d) /\ x \in Elements(w.radius)
      BY <1>2, <2>2, <2>3, <2>5
    <3> HIDE DEF d, x
    <3>2. Finds(w, s, Characterized(w, d, x)) /\ Grown(d.s, Characterized(w, d, x).s)
      BY <3>1, CharacterizedFinds
    <3> QED BY <2>6, <3>2 DEF d, x
  <2>8. \A m \in 0 .. n : m = n \/ m \in 0 .. n - 1
    BY <1>2, <2>2
  <2>9. \A m \in 0 .. n : Grown(f[m].s, f[n].s)
    BY <2>5, <2>7, <2>8, GrowingIsTransitive
  <2> QED BY <2>2, <2>7, <2>9
<1>5. \A n \in 0 .. Len(chosen) : good(n)
  BY <1>4
<1> QED BY <1>5 DEF f

\* The differential: what it finds, and what it finds again.
LEMMA DifferentialFinds ==
    ASSUME NEW w, IsWorld(w), NEW s, IsSession(w, s), \A r \in s.runs : r.commit # "head"
    PROVE  Finds(w, s, BehaviorDifferential(w, s))
<1> DEFINE chosen == Selected(w)
<1>1. chosen \in Seq(Elements(w.radius))
  BY SelectedIsList
<1>2. BehaviorDifferential(w, s) = Differentials(w, s, chosen)[Len(chosen)]
  BY DEF BehaviorDifferential
<1> HIDE DEF chosen
<1>3. Len(chosen) \in 0 .. Len(chosen)
  BY <1>1
<1> QED BY <1>1, <1>2, <1>3, DifferentialsFind

\* The differential made again finds the same and runs nothing.
LEMMA DifferentialAgain ==
    ASSUME NEW w, IsWorld(w), NEW s, IsSession(w, s), \A r \in s.runs : r.commit # "head",
           NEW t, IsSession(w, t), Grown(BehaviorDifferential(w, s).s, t)
    PROVE  BehaviorDifferential(w, Now(t, s.raised)) = LaterFinds(BehaviorDifferential(w, s), t)
<1> DEFINE chosen == Selected(w)
           f == Differentials(w, s, chosen)
           g == Differentials(w, Now(t, s.raised), chosen)
           bad == {n \in 0 .. Len(chosen) : g[n] # LaterFinds(f[n], t)}
<1>1. /\ BehaviorDifferential(w, s) = f[Len(chosen)]
      /\ BehaviorDifferential(w, Now(t, s.raised)) = g[Len(chosen)]
  BY DEF BehaviorDifferential
<1>2. chosen \in Seq(Elements(w.radius))
  BY SelectedIsList
<1> HIDE DEF chosen
<1>3. Len(chosen) \in Nat
  BY <1>2
<1>4. \A k \in 0 .. Len(chosen) :
        f[k] = IF k = 0 THEN Begun(w, s) ELSE Characterized(w, f[k - 1], chosen[k])
  <2>1. DifferentialsTo(w, s, chosen, Len(chosen), f)
    BY <1>3, DifferentialsAreDefined
  <2> HIDE DEF f
  <2>2. f = [k \in 0 .. Len(chosen) |->
               IF k = 0 THEN Begun(w, s) ELSE Characterized(w, f[k - 1], chosen[k])]
    BY <2>1 DEF DifferentialsTo
  <2> QED BY <2>2
<1>5. \A k \in 0 .. Len(chosen) :
        g[k] = IF k = 0 THEN Begun(w, Now(t, s.raised))
               ELSE Characterized(w, g[k - 1], chosen[k])
  <2> DEFINE now == Now(t, s.raised)
  <2>1. DifferentialsTo(w, now, chosen, Len(chosen), g)
    BY <1>3, DifferentialsAreDefined
  <2> HIDE DEF g, now
  <2>2. g = [k \in 0 .. Len(chosen) |->
               IF k = 0 THEN Begun(w, now) ELSE Characterized(w, g[k - 1], chosen[k])]
    BY <2>1 DEF DifferentialsTo
  <2> QED BY <2>2 DEF now
<1>6. \A n \in 0 .. Len(chosen) : Finds(w, s, f[n]) /\ Grown(f[n].s, t)
  <2>1. \A n \in 0 .. Len(chosen) : Finds(w, s, f[n]) /\ Grown(f[n].s, f[Len(chosen)].s)
    BY <1>2, <1>3, DifferentialsFind
  <2> QED BY <1>1, <2>1, GrowingIsTransitive
<1>7. Begun(w, Now(t, s.raised)) = LaterFinds(Begun(w, s), t)
  <2>1. Consult(w, Now(t, s.raised)) = Now(t, Consult(w, s).raised)
    BY ConsultingAgain
  <2>2. CASE w.described
    BY <2>1, <2>2 DEF Begun, LaterFinds
  <2>3. CASE ~w.described
    BY <2>3 DEF Begun, LaterFinds
  <2> QED BY <2>2, <2>3
<1> HIDE DEF f, g
<1>8. bad = {}
  <2> SUFFICES ASSUME bad # {} PROVE FALSE
    OBVIOUS
  <2>1. PICK n \in bad : \A m \in bad : n <= m
    <3>1. bad \in SUBSET Nat
      OBVIOUS
    <3> HIDE DEF bad
    <3> QED BY <3>1, Least
  <2>2. n \in 0 .. Len(chosen) /\ g[n] # LaterFinds(f[n], t)
    OBVIOUS
  <2>3. n # 0
    BY <1>3, <1>4, <1>5, <1>7, <2>2
  <2>4. n - 1 \in 0 .. Len(chosen) /\ n - 1 \notin bad
    BY <1>3, <2>1, <2>2, <2>3
  <2>5. g[n - 1] = LaterFinds(f[n - 1], t)
    BY <2>4
  <2> HIDE DEF bad
  <2> DEFINE d == f[n - 1]
             x == chosen[n]
  <2>6. f[n] = Characterized(w, d, x) /\ g[n] = Characterized(w, LaterFinds(d, t), x)
    BY <1>4, <1>5, <2>2, <2>3, <2>5
  <2>7. Finds(w, s, d) /\ x \in Elements(w.radius)
    BY <1>2, <1>3, <1>6, <2>2, <2>3, <2>4
  <2>8. Grown(Characterized(w, d, x).s, t)
    BY <1>6, <2>2, <2>6
  <2> HIDE DEF d, x
  <2>9. Characterized(w, LaterFinds(d, t), x) = LaterFinds(Characterized(w, d, x), t)
    BY <2>7, <2>8, CharacterizedAgain
  <2> QED BY <2>2, <2>6, <2>9
<1>9. Len(chosen) \in 0 .. Len(chosen)
  BY <1>3
<1> QED BY <1>1, <1>8, <1>9
----------------------------------------------------------------------------
(* The other probes *)

\* They run no tests, and find no change of behaviour.
Watches(w, s, d) ==
    /\ d = [s |-> d.s, findings |-> d.findings]
    /\ IsSession(w, d.s)
    /\ d.s.runs = s.runs
    /\ Grown(s, d.s)
    /\ \A f \in d.findings : IsFinding(f) /\ f.kind # "behavior_change"

\* What a static probe finds is of its kind.
LEMMA FindingIsOfKind ==
    ASSUME NEW w, NEW kind, NEW norm, NEW symbol, NEW detail, NEW severity,
           NEW f \in Finding(w, kind, norm, symbol, detail, severity)
    PROVE  IsFinding(f) /\ f.kind = kind
<1> DEFINE found == [kind |-> kind, symbol |-> symbol, detail |-> detail, test |-> "",
                     norm |-> norm, confidence |-> 100, severity |-> severity]
<1>1. f = found
  BY DEF Finding
<1> QED BY <1>1 DEF IsFinding

\* The comparison of the surfaces leaves the session and finds the same again.
LEMMA ApiWatches ==
    ASSUME NEW w, NEW s, IsSession(w, s)
    PROVE  /\ Watches(w, s, ApiDiff(w, s))
           /\ \A t : ApiDiff(w, Now(t, s.raised)) = LaterFinds(ApiDiff(w, s), t)
<1> DEFINE kind == "api_change"
           norm == "declared-changelog-for-api"
           names == DOMAIN w.api["base"] \cup DOMAIN w.api["head"]
           d == ApiDiff(w, s)
<1>1. d.s = s /\ d = [s |-> d.s, findings |-> d.findings]
  BY DEF ApiDiff
<1>2. \A t : ApiDiff(w, Now(t, s.raised)) = [s |-> Now(t, s.raised), findings |-> d.findings]
  BY DEF ApiDiff
<1>3. \A f \in d.findings : \E n, detail : f \in Finding(w, kind, norm, n, detail, 80)
  BY DEF ApiDiff
<1>4. \A f \in d.findings : IsFinding(f) /\ f.kind = kind
  <2> HIDE DEF kind, norm, d
  <2> QED BY <1>3, FindingIsOfKind
<1>5. Grown(s, s)
  BY GrowingIsTransitive
<1> HIDE DEF d
<1>6. Watches(w, s, d)
  BY <1>1, <1>4, <1>5 DEF Watches
<1>7. \A t : ApiDiff(w, Now(t, s.raised)) = LaterFinds(d, t)
  BY <1>1, <1>2 DEF LaterFinds
<1> QED BY <1>6, <1>7 DEF d

\* The comparison of the linters leaves the session and finds the same again.
LEMMA LintWatches ==
    ASSUME NEW w, NEW s, IsSession(w, s)
    PROVE  /\ Watches(w, s, LintRegression(w, s))
           /\ \A t : LintRegression(w, Now(t, s.raised)) = LaterFinds(LintRegression(w, s), t)
<1> DEFINE kind == "lint_regression"
           d == LintRegression(w, s)
<1>1. d.s = s /\ d = [s |-> d.s, findings |-> d.findings]
  BY DEF LintRegression
<1>2. \A t : LintRegression(w, Now(t, s.raised))
               = [s |-> Now(t, s.raised), findings |-> d.findings]
  BY DEF LintRegression
<1>3. \A f \in d.findings : \E norm, n, detail : f \in Finding(w, kind, norm, n, detail, 30)
  BY DEF LintRegression
<1>4. \A f \in d.findings : IsFinding(f) /\ f.kind = kind
  <2> HIDE DEF kind, d
  <2> QED BY <1>3, FindingIsOfKind
<1>5. Grown(s, s)
  BY GrowingIsTransitive
<1> HIDE DEF d
<1>6. Watches(w, s, d)
  BY <1>1, <1>4, <1>5 DEF Watches
<1>7. \A t : LintRegression(w, Now(t, s.raised)) = LaterFinds(d, t)
  BY <1>1, <1>2 DEF LaterFinds
<1> QED BY <1>6, <1>7 DEF d

\* The coverage probe at most measures the head, and finds the same again.
LEMMA CoverageWatches ==
    ASSUME NEW w, NEW s, IsSession(w, s)
    PROVE  /\ Watches(w, s, CoverageDelta(w, s))
           /\ \A t : IsSession(w, t) /\ Grown(CoverageDelta(w, s).s, t) =>
                CoverageDelta(w, Now(t, s.raised)) = LaterFinds(CoverageDelta(w, s), t)
<1> DEFINE kind == "coverage_gap"
           norm == "declared-tests-exist"
           head == "head"
           touched == {y \in Elements(w.radius) : y.touched}
           quiet == norm \notin DeclarativeNorms(w) \/ touched = {}
           none == ""
           gaps == UNION {Finding(w, kind, norm, y.name, none, 50) :
                            y \in {y \in touched : Uncovered(y)}}
           told(x) == IF x # "" \/ ~w.covers THEN {} ELSE gaps
           measured(x) == Calibrate(w, x, head)
           d == CoverageDelta(w, s)
<1>1. \A x : CoverageDelta(w, x) = IF quiet THEN [s |-> x, findings |-> {}]
                                   ELSE [s |-> measured(x), findings |-> told(measured(x).raised)]
  BY DEF CoverageDelta
<1>2. /\ IsSession(w, measured(s)) /\ measured(s).runs = s.runs /\ Grown(s, measured(s))
      /\ \A t : IsSession(w, t) /\ Grown(measured(s), t) =>
                  measured(Now(t, s.raised)) = Now(t, measured(s).raised)
  <2> HIDE DEF head
  <2> QED BY MeasuringKeepsRuns, MeasuringAgain
<1>3. Grown(s, s)
  BY GrowingIsTransitive
<1>4. \A f \in gaps : IsFinding(f) /\ f.kind = kind
  <2> HIDE DEF kind, norm, none
  <2> QED BY FindingIsOfKind
<1>5. kind # "behavior_change"
  OBVIOUS
<1>6. \A x : told(x) \subseteq gaps
  OBVIOUS
<1> HIDE DEF quiet, measured, told, gaps, d
<1>7. CASE quiet
  <2>1. d = [s |-> s, findings |-> {}]
    BY <1>1, <1>7 DEF d
  <2>2. Watches(w, s, d)
    BY <1>3, <2>1 DEF Watches
  <2>3. \A t : CoverageDelta(w, Now(t, s.raised)) = LaterFinds(d, t)
    BY <1>1, <1>7, <2>1 DEF LaterFinds
  <2> QED BY <2>2, <2>3 DEF d
<1>8. CASE ~quiet
  <2>1. d = [s |-> measured(s), findings |-> told(measured(s).raised)]
    BY <1>1, <1>8 DEF d
  <2>2. d.s = measured(s) /\ d.findings = told(measured(s).raised)
    BY <2>1
  <2>3. \A f \in d.findings : IsFinding(f) /\ f.kind # "behavior_change"
    BY <1>4, <1>5, <1>6, <2>2
  <2>4. Watches(w, s, d)
    BY <1>2, <2>1, <2>2, <2>3 DEF Watches
  <2>5. ASSUME NEW t, IsSession(w, t), Grown(d.s, t)
        PROVE  CoverageDelta(w, Now(t, s.raised)) = LaterFinds(d, t)
    <3>1. measured(Now(t, s.raised)) = Now(t, measured(s).raised)
      BY <1>2, <2>2, <2>5
    <3>2. Now(t, measured(s).raised).raised = measured(s).raised
      BY <2>5, NowIsSession
    <3>3. CoverageDelta(w, Now(t, s.raised))
            = [s |-> Now(t, measured(s).raised), findings |-> told(measured(s).raised)]
      BY <1>1, <1>8, <3>1, <3>2
    <3> QED BY <2>2, <3>3 DEF LaterFinds
  <2> QED BY <2>4, <2>5 DEF d
<1> QED BY <1>7, <1>8
----------------------------------------------------------------------------
(* The command *)

\* Before the differential: nothing has run on the head, and no behaviour is told of.
Watching(w, c) ==
    /\ c = [s |-> c.s, findings |-> c.findings, verified |-> c.verified, skipped |-> c.skipped]
    /\ IsSession(w, c.s) /\ c.s.raised = "" /\ c.s.runs = {}
    /\ \A f \in c.findings : IsFinding(f) /\ f.kind # "behavior_change"
    /\ "behavioural differential" \notin c.verified

Quiet(s) == s.raised = ""

\* A check, and the same one again.
LaterCheck(c, e, t) == e.s = t /\ e.findings = c.findings

\* A stage of a static probe adds no behaviour change and starts no execution.
LEMMA StageWatches ==
    ASSUME NEW w, NEW c, Watching(w, c), NEW name, name # "behavioural differential",
           NEW d, Watches(w, c.s, d)
    PROVE  Watching(w, Stage(c, name, d)) /\ Grown(d.s, Stage(c, name, d).s)
<1> DEFINE e == Stage(c, name, d)
           ok == d.s.raised = ""
<1>1. e = [s |-> Now(d.s, ""),
           findings |-> IF ok THEN c.findings \cup d.findings ELSE c.findings,
           verified |-> IF ok THEN c.verified \cup {name} ELSE c.verified,
           skipped |-> IF ok THEN c.skipped ELSE c.skipped \cup {name}]
  BY DEF Stage, Now
<1> HIDE DEF e, ok
<1>2. /\ e.s = Now(d.s, "")
      /\ e.findings = IF ok THEN c.findings \cup d.findings ELSE c.findings
      /\ e.verified = IF ok THEN c.verified \cup {name} ELSE c.verified
      /\ e = [s |-> e.s, findings |-> e.findings, verified |-> e.verified, skipped |-> e.skipped]
  BY <1>1
<1>3. /\ IsSession(w, e.s) /\ e.s.raised = "" /\ e.s.runs = d.s.runs
      /\ e.s.measured = d.s.measured
  <2> DEFINE none == ""
  <2> HIDE DEF none
  <2>1. IsSession(w, d.s)
    BY DEF Watches
  <2>2. /\ IsSession(w, Now(d.s, none))
        /\ Now(d.s, none) = [runs |-> d.s.runs, measured |-> d.s.measured, raised |-> none]
    BY <2>1, NowIsSession
  <2>3. e.s = Now(d.s, none)
    BY <1>2 DEF none
  <2> DEFINE now == e.s
  <2> HIDE DEF now
  <2>4. now = [runs |-> d.s.runs, measured |-> d.s.measured, raised |-> none] /\ IsSession(w, now)
    BY <2>2, <2>3 DEF now
  <2>5. now.raised = none /\ now.runs = d.s.runs /\ now.measured = d.s.measured
    BY <2>4
  <2> QED BY <2>4, <2>5 DEF none, now
<1>4. e.s.runs = {} /\ Grown(d.s, e.s)
  BY <1>3 DEF Watches, Watching, Grown
<1>5. \A f \in e.findings : IsFinding(f) /\ f.kind # "behavior_change"
  BY <1>2 DEF Watches, Watching
<1>6. "behavioural differential" \notin e.verified
  BY <1>2 DEF Watching
<1>7. Watching(w, e)
  BY <1>2, <1>3, <1>4, <1>5, <1>6 DEF Watching
<1> QED BY <1>4, <1>7 DEF e

\* A stage made again in a later session has the same outcome.
LEMMA StageAgain ==
    ASSUME NEW w, NEW c, NEW d, NEW name, NEW t, IsSession(w, t), Quiet(t),
           NEW e, LaterCheck(c, e, t)
    PROVE  LaterCheck(Stage(c, name, d), Stage(e, name, LaterFinds(d, t)), t)
<1> DEFINE l == LaterFinds(d, t)
           again == Stage(e, name, l)
           ok == d.s.raised = ""
<1>1. l.s = Now(t, d.s.raised) /\ l.findings = d.findings
  BY DEF LaterFinds
<1>2. l.s.raised = d.s.raised /\ [l.s EXCEPT !.raised = ""] = t
  <2> DEFINE raised == d.s.raised
             none == ""
  <2> HIDE DEF l, raised, none
  <2>1. \A x, y : [Now(t, x) EXCEPT !.raised = y] = Now(t, y)
    BY NowIsSession
  <2>2. Now(t, raised).raised = raised
    BY NowIsSession
  <2>3. Now(t, none) = t
    <3>1. t = [runs |-> t.runs, measured |-> t.measured, raised |-> none]
      BY DEF IsSession, Quiet, none
    <3>2. Now(t, none) = [runs |-> t.runs, measured |-> t.measured, raised |-> none]
      BY NowIsSession
    <3> QED BY <3>1, <3>2
  <2>4. l.s = Now(t, raised)
    BY <1>1 DEF raised
  <2>5. [l.s EXCEPT !.raised = none] = t /\ l.s.raised = raised
    BY <2>1, <2>2, <2>3, <2>4
  <2> QED BY <2>5 DEF raised, none
<1>3. Stage(c, name, d).findings = IF ok THEN c.findings \cup d.findings ELSE c.findings
  BY DEF Stage
<1> HIDE DEF l
<1>4. /\ again.s = [l.s EXCEPT !.raised = ""]
      /\ again.findings = IF l.s.raised = "" THEN e.findings \cup l.findings ELSE e.findings
  BY DEF Stage
<1> HIDE DEF again
<1>5. again.s = t /\ again.findings = Stage(c, name, d).findings
  BY <1>1, <1>2, <1>3, <1>4 DEF LaterCheck
<1> QED BY <1>5 DEF LaterCheck, again, l


\* What is attached to a finding is a norm and no more.
LEMMA AttachingKeeps ==
    ASSUME NEW w, NEW f, IsFinding(f)
    PROVE  AttachNearest(w, f).kind = f.kind /\ AttachNearest(w, f).test = f.test
<1>1. AttachNearest(w, f) = f \/ \E x : AttachNearest(w, f) = [f EXCEPT !.norm = x]
  BY DEF AttachNearest
<1>2. ASSUME NEW x, AttachNearest(w, f) = [f EXCEPT !.norm = x]
      PROVE  AttachNearest(w, f).kind = f.kind /\ AttachNearest(w, f).test = f.test
  BY <1>2 DEF IsFinding
<1> QED BY <1>1, <1>2

\* The last stage: what the differential found is told of, unless it raised.
LEMMA ReportingKeeps ==
    ASSUME NEW w, NEW e
    PROVE  LET out == Reported(w, e)
           IN  /\ out.s = e.s /\ out.verified = e.verified
               /\ out.ranked = RankFindings(w, e.findings)
               /\ DOMAIN out.ranked = {AttachNearest(w, f) : f \in e.findings}
<1> DEFINE out == Reported(w, e)
<1>1. out = [s |-> e.s, verified |-> e.verified, skipped |-> e.skipped,
             ranked |-> RankFindings(w, e.findings)]
  BY DEF Reported
<1>2. DOMAIN RankFindings(w, e.findings) = {AttachNearest(w, f) : f \in e.findings}
  BY DEF RankFindings
<1> HIDE DEF out
<1>3. /\ out.s = e.s /\ out.verified = e.verified
      /\ out.ranked = RankFindings(w, e.findings)
  BY <1>1
<1> QED BY <1>2, <1>3 DEF out

Tells(w, d, name, out) ==
    LET told == {f.test : f \in Changes(out)}
    IN  /\ IsSession(w, out.s) /\ Quiet(out.s)
        /\ out.s.runs = d.s.runs
        /\ Grown(d.s, out.s)
        /\ \A t : t \in told <=> name \in out.verified /\ Differed(d.s, t)
        /\ \A f \in Changes(out) : Twice(d.s, f.test) /\ Differed(d.s, f.test)

\* After the last stage, what is told is what the differential saw.
LEMMA LastStageTells ==
    ASSUME NEW w, NEW c, Watching(w, c), NEW d, Finds(w, c.s, d), NEW name,
           name = "behavioural differential",
           NEW out, out = Reported(w, Stage(c, name, d))
    PROVE  Tells(w, d, name, out)
<1> DEFINE e == Stage(c, name, d)
           told == {f.test : f \in Changes(out)}
           ok == d.s.raised = ""
<1>1. e = [s |-> [d.s EXCEPT !.raised = ""],
           findings |-> IF ok THEN c.findings \cup d.findings ELSE c.findings,
           verified |-> IF ok THEN c.verified \cup {name} ELSE c.verified,
           skipped |-> IF ok THEN c.skipped ELSE c.skipped \cup {name}]
  BY DEF Stage
<1>2. /\ out.s = e.s /\ out.verified = e.verified
      /\ DOMAIN out.ranked = {AttachNearest(w, f) : f \in e.findings}
  BY ReportingKeeps
<1> HIDE DEF e, ok
<1>3. /\ e.s = [d.s EXCEPT !.raised = ""]
      /\ e.findings = IF ok THEN c.findings \cup d.findings ELSE c.findings
      /\ e.verified = IF ok THEN c.verified \cup {name} ELSE c.verified
  BY <1>1
<1>4. IsSession(w, out.s) /\ Quiet(out.s) /\ out.s.runs = d.s.runs /\ Grown(d.s, out.s)
  <2> DEFINE none == ""
             now == out.s
  <2>1. now = Now(d.s, none)
    BY <1>2, <1>3 DEF Now
  <2> HIDE DEF none, now
  <2>2. IsSession(w, d.s)
    BY DEF Finds
  <2>3. /\ IsSession(w, now)
        /\ now = [runs |-> d.s.runs, measured |-> d.s.measured, raised |-> none]
    BY <2>1, <2>2, NowIsSession
  <2>4. now.runs = d.s.runs /\ now.measured = d.s.measured /\ now.raised = none
    BY <2>3
  <2>5. Grown(d.s, now)
    BY <2>4 DEF Grown
  <2> QED BY <2>3, <2>4, <2>5 DEF now, none, Quiet
<1>5. name \in out.verified <=> ok
  BY <1>2, <1>3 DEF Watching
<1>6. \A f \in e.findings : IsFinding(f)
  BY <1>3 DEF Watching, Finds
<1>7. ASSUME NEW f \in Changes(out)
      PROVE  ok /\ \E g \in d.findings : g.test = f.test
  <2>1. PICK g \in e.findings : f = AttachNearest(w, g)
    BY <1>2 DEF Changes
  <2>2. f.kind = "behavior_change" /\ g.kind = f.kind /\ g.test = f.test
    BY <1>6, <2>1, AttachingKeeps DEF Changes
  <2>3. g \notin c.findings
    BY <2>2 DEF Watching
  <2> QED BY <1>3, <2>1, <2>2, <2>3
<1>8. ASSUME ok, NEW g \in d.findings PROVE \E f \in Changes(out) : f.test = g.test
  <2>1. g \in e.findings
    BY <1>3, <1>8
  <2>2. AttachNearest(w, g).kind = "behavior_change" /\ AttachNearest(w, g).test = g.test
    <3>1. g.kind = "behavior_change"
      BY DEF Finds
    <3>2. AttachNearest(w, g).kind = g.kind /\ AttachNearest(w, g).test = g.test
      BY <1>6, <2>1, AttachingKeeps
    <3> QED BY <3>1, <3>2
  <2> QED BY <1>2, <2>1, <2>2 DEF Changes
<1>9. \A f \in Changes(out) : Twice(d.s, f.test) /\ Differed(d.s, f.test)
  BY <1>7 DEF Finds
<1>10. ok => \A t : t \in told <=> Differed(d.s, t)
  <2>1. ASSUME ok, NEW t, Differed(d.s, t) PROVE t \in told
    <3>1. PICK g \in d.findings : g.test = t
      BY <2>1 DEF Finds
    <3> QED BY <1>8, <2>1, <3>1
  <2>2. \A t \in told : Differed(d.s, t)
    BY <1>9
  <2> QED BY <2>1, <2>2
<1>11. ~ok => told = {}
  BY <1>7
<1>12. \A t : t \in told <=> name \in out.verified /\ Differed(d.s, t)
  <2> HIDE DEF told
  <2> QED BY <1>5, <1>10, <1>11
<1> QED BY <1>4, <1>9, <1>12 DEF Tells

\* What the command says, once and again.
LEMMA CheckTells ==
    ASSUME NEW w, IsWorld(w)
    PROVE  LET once == CheckChange(w, NewSession)
               told == {f.test : f \in Changes(once)}
           IN  /\ IsFiniteSet(once.s.runs)
               /\ \A t : t \in told <=> /\ "behavioural differential" \in once.verified
                                        /\ Differed(once.s, t)
               /\ \A f \in Changes(once) : Twice(once.s, f.test) /\ Differed(once.s, f.test)
               /\ CheckChange(w, once.s).ranked = once.ranked
               /\ CheckChange(w, once.s).s = once.s
<1> DEFINE api == "api surface"
           coverage == "coverage"
           lint == "lint and types"
           behaviour == "behavioural differential"
           begun(s) == [s |-> s, findings |-> {}, verified |-> {}, skipped |-> {}]
           first == NewSession
           once == CheckChange(w, first)
           t == once.s
           c0 == begun(first)
           d0 == ApiDiff(w, c0.s)
           c1 == Stage(c0, api, d0)
           d1 == CoverageDelta(w, c1.s)
           c2 == Stage(c1, coverage, d1)
           d2 == LintRegression(w, c2.s)
           c3 == Stage(c2, lint, d2)
           d3 == BehaviorDifferential(w, c3.s)
           c4 == Stage(c3, behaviour, d3)
           again == CheckChange(w, t)
           e0 == begun(t)
           e1 == Stage(e0, api, ApiDiff(w, e0.s))
           e2 == Stage(e1, coverage, CoverageDelta(w, e1.s))
           e3 == Stage(e2, lint, LintRegression(w, e2.s))
           e4 == Stage(e3, behaviour, BehaviorDifferential(w, e3.s))
<1>1. /\ once = Reported(w, c4)
      /\ again = Reported(w, e4)
  BY DEF CheckChange
<1>2. /\ c1 = Stage(c0, api, d0) /\ c2 = Stage(c1, coverage, d1)
      /\ c3 = Stage(c2, lint, d2) /\ c4 = Stage(c3, behaviour, d3)
      /\ d0 = ApiDiff(w, c0.s) /\ d1 = CoverageDelta(w, c1.s) /\ d2 = LintRegression(w, c2.s)
      /\ d3 = BehaviorDifferential(w, c3.s)
  OBVIOUS
<1>3. /\ e1 = Stage(e0, api, ApiDiff(w, e0.s)) /\ e2 = Stage(e1, coverage, CoverageDelta(w, e1.s))
      /\ e3 = Stage(e2, lint, LintRegression(w, e2.s))
      /\ e4 = Stage(e3, behaviour, BehaviorDifferential(w, e3.s))
  OBVIOUS
<1>4. c0.s = first /\ c0.findings = {} /\ c0.verified = {} /\ e0.s = t /\ e0.findings = {}
      /\ c0 = [s |-> c0.s, findings |-> c0.findings, verified |-> c0.verified,
               skipped |-> c0.skipped]
  OBVIOUS
<1>5. /\ api # "behavioural differential" /\ coverage # "behavioural differential"
      /\ lint # "behavioural differential" /\ behaviour = "behavioural differential"
  OBVIOUS
<1> DEFINE same(x) == Now(t, x.s.raised) = t
<1> HIDE DEF api, coverage, lint, behaviour, c0, c1, c2, c3, c4, d0, d1, d2, d3, e0, e1, e2, e3, e4
<1>6. Watching(w, c0)
  <2>1. IsSession(w, first)
    BY NewSessionIsSession
  <2>2. first.raised = "" /\ first.runs = {}
    BY DEF NewSession
  <2> HIDE DEF first
  <2> QED BY <1>4, <2>1, <2>2 DEF Watching
<1> HIDE DEF first, once, again
<1>7. Watches(w, c0.s, d0) /\ Watching(w, c1) /\ Grown(d0.s, c1.s)
  <2>1. Watches(w, c0.s, d0)
    BY <1>2, <1>6, ApiWatches DEF Watching
  <2> QED BY <1>2, <1>5, <1>6, <2>1, StageWatches
<1>8. Watches(w, c1.s, d1) /\ Watching(w, c2) /\ Grown(d1.s, c2.s)
  <2>1. Watches(w, c1.s, d1)
    BY <1>2, <1>7, CoverageWatches DEF Watching
  <2> QED BY <1>2, <1>5, <1>7, <2>1, StageWatches
<1>9. Watches(w, c2.s, d2) /\ Watching(w, c3) /\ Grown(d2.s, c3.s)
  <2>1. Watches(w, c2.s, d2)
    BY <1>2, <1>8, LintWatches DEF Watching
  <2> QED BY <1>2, <1>5, <1>8, <2>1, StageWatches
<1>10. IsSession(w, c3.s) /\ \A r \in c3.s.runs : r.commit # "head"
  BY <1>9 DEF Watching
<1>11. Finds(w, c3.s, d3)
  BY <1>2, <1>10, DifferentialFinds
<1> DEFINE told == {f.test : f \in Changes(once)}
<1>12. /\ IsSession(w, t) /\ Quiet(t) /\ t.runs = d3.s.runs /\ Grown(d3.s, t)
       /\ \A x : x \in told <=> behaviour \in once.verified /\ Differed(d3.s, x)
       /\ \A f \in Changes(once) : Twice(d3.s, f.test) /\ Differed(d3.s, f.test)
  <2>1. once = Reported(w, Stage(c3, behaviour, d3))
    BY <1>1, <1>2
  <2>2. Tells(w, d3, behaviour, once)
    BY <1>5, <1>9, <1>11, <2>1, LastStageTells
  <2> QED BY <2>2 DEF Tells
<1>13. Grown(d0.s, t) /\ Grown(d1.s, t) /\ Grown(d2.s, t)
  <2>1. Grown(c1.s, d1.s) /\ Grown(c2.s, d2.s) /\ Grown(c3.s, d3.s)
    BY <1>8, <1>9, <1>11 DEF Watches, Finds
  <2>2. Grown(d2.s, t)
    BY <1>9, <1>12, <2>1, GrowingIsTransitive
  <2>3. Grown(d1.s, t)
    BY <1>8, <2>1, <2>2, GrowingIsTransitive
  <2> QED BY <1>7, <2>1, <2>2, <2>3, GrowingIsTransitive
<1>14. \A test : /\ Twice(d3.s, test) => Twice(t, test)
                 /\ Differed(d3.s, test) <=> Differed(t, test)
  BY <1>12 DEF Twice, Differed
<1>15. \A x : x \in told <=> behaviour \in once.verified /\ Differed(t, x)
  BY <1>12, <1>14
<1>16. \A f \in Changes(once) : Twice(t, f.test) /\ Differed(t, f.test)
  BY <1>12, <1>14
<1> HIDE DEF t, told
<1>17. ASSUME NEW c, Watching(w, c) PROVE Now(t, c.s.raised) = t
  <2> DEFINE none == ""
  <2> HIDE DEF none
  <2>1. c.s.raised = none
    BY <1>17 DEF Watching, none
  <2>2. t = [runs |-> t.runs, measured |-> t.measured, raised |-> none]
    BY <1>12 DEF IsSession, Quiet, none
  <2>3. Now(t, none) = [runs |-> t.runs, measured |-> t.measured, raised |-> none]
    BY <1>12, NowIsSession
  <2> QED BY <2>1, <2>2, <2>3
<1>18. LaterCheck(c0, e0, t)
  BY <1>4 DEF LaterCheck
<1>19. LaterCheck(c1, e1, t)
  <2>1. ApiDiff(w, e0.s) = LaterFinds(d0, t)
    <3>1. ApiDiff(w, Now(t, c0.s.raised)) = LaterFinds(d0, t)
      <4>1. IsSession(w, c0.s)
        BY <1>6 DEF Watching
      <4>2. ApiDiff(w, Now(t, c0.s.raised)) = LaterFinds(ApiDiff(w, c0.s), t)
        BY <4>1, ApiWatches
      <4> QED BY <1>2, <4>2
    <3> QED BY <1>6, <1>17, <1>18, <3>1 DEF LaterCheck
  <2> QED BY <1>2, <1>3, <1>12, <1>18, <2>1, StageAgain
<1>20. LaterCheck(c2, e2, t)
  <2>1. CoverageDelta(w, e1.s) = LaterFinds(d1, t)
    <3>1. CoverageDelta(w, Now(t, c1.s.raised)) = LaterFinds(d1, t)
      <4>1. IsSession(w, c1.s)
        BY <1>7 DEF Watching
      <4>2. IsSession(w, t) /\ Grown(CoverageDelta(w, c1.s).s, t)
        BY <1>2, <1>12, <1>13
      <4>3. CoverageDelta(w, Now(t, c1.s.raised)) = LaterFinds(CoverageDelta(w, c1.s), t)
        BY <4>1, <4>2, CoverageWatches
      <4> QED BY <1>2, <4>3
    <3> QED BY <1>7, <1>17, <1>19, <3>1 DEF LaterCheck
  <2> QED BY <1>2, <1>3, <1>12, <1>19, <2>1, StageAgain
<1>21. LaterCheck(c3, e3, t)
  <2>1. LintRegression(w, e2.s) = LaterFinds(d2, t)
    <3>1. LintRegression(w, Now(t, c2.s.raised)) = LaterFinds(d2, t)
      <4>1. IsSession(w, c2.s)
        BY <1>8 DEF Watching
      <4>2. LintRegression(w, Now(t, c2.s.raised)) = LaterFinds(LintRegression(w, c2.s), t)
        BY <4>1, LintWatches
      <4> QED BY <1>2, <4>2
    <3> QED BY <1>8, <1>17, <1>20, <3>1 DEF LaterCheck
  <2> QED BY <1>2, <1>3, <1>12, <1>20, <2>1, StageAgain
<1>22. LaterCheck(c4, e4, t)
  <2>1. BehaviorDifferential(w, e3.s) = LaterFinds(d3, t)
    <3>1. BehaviorDifferential(w, Now(t, c3.s.raised)) = LaterFinds(d3, t)
      <4>1. Grown(BehaviorDifferential(w, c3.s).s, t)
        BY <1>2, <1>12
      <4>2. BehaviorDifferential(w, Now(t, c3.s.raised))
              = LaterFinds(BehaviorDifferential(w, c3.s), t)
        BY <1>10, <1>12, <4>1, DifferentialAgain
      <4> QED BY <1>2, <4>2
    <3> QED BY <1>9, <1>17, <1>21, <3>1 DEF LaterCheck
  <2>2. c4 = Stage(c3, behaviour, d3) /\ e4 = Stage(e3, behaviour, LaterFinds(d3, t))
    BY <1>2, <1>3, <2>1
  <2>3. IsSession(w, t) /\ Quiet(t)
    BY <1>12
  <2>4. LaterCheck(Stage(c3, behaviour, d3), Stage(e3, behaviour, LaterFinds(d3, t)), t)
    BY <1>21, <2>3, StageAgain
  <2> QED BY <2>2, <2>4
<1>23. again.s = t /\ again.ranked = once.ranked
  <2>1. \A c : /\ Reported(w, c).s = c.s
               /\ Reported(w, c).ranked = RankFindings(w, c.findings)
    BY DEF Reported
  <2> QED BY <1>1, <1>22, <2>1 DEF LaterCheck
<1>24. IsFiniteSet(t.runs)
  BY <1>12 DEF IsSession
<1> QED BY <1>15, <1>16, <1>23, <1>24 DEF told, t, again, once, first, behaviour

\* Of a finite set with two different elements the cardinality is not below two.
LEMMA TwoAreTwo ==
    ASSUME NEW S, IsFiniteSet(S), NEW a \in S, NEW b \in S, a # b
    PROVE  ~ (Cardinality(S) < 2)
<1>1. IsFiniteSet({a}) /\ Cardinality({a}) = 1
  BY FS_Singleton
<1>2. Cardinality({a} \cup {b}) = 2
  <2>1. Cardinality({a} \cup {b})
          = IF b \in {a} THEN Cardinality({a}) ELSE Cardinality({a}) + 1
    BY <1>1, FS_AddElement, Zenon
  <2> QED BY <1>1, <2>1
<1> DEFINE two == {a} \cup {b}
<1>3. two \in SUBSET S
  OBVIOUS
<1> HIDE DEF two
<1>4. Cardinality(two) <= Cardinality(S)
  BY <1>3, FS_Subset, Zenon
<1>5. Cardinality(S) \in Nat
  BY FS_CardinalityType
<1> QED BY <1>2, <1>4, <1>5 DEF two

\* What is checked is what the command says of a world, once and again.
LEMMA CheckedIsCheck ==
    ASSUME NEW kind \in DOMAIN World, NEW c \in Checked[kind]
    PROVE  \E w \in World[kind] : /\ IsWorld(w)
                                  /\ c.once = CheckChange(w, NewSession)
                                  /\ c.again = CheckChange(w, c.once.s)
<1> DEFINE twice(w, once) == [once |-> once, again |-> CheckChange(w, once.s)]
<1>1. Checked[kind] = {twice(w, CheckChange(w, NewSession)) : w \in World[kind]}
  BY DEF Checked
<1>2. PICK w \in World[kind] : c = twice(w, CheckChange(w, NewSession))
  BY <1>1
<1>3. c.once = CheckChange(w, NewSession) /\ c.again = CheckChange(w, c.once.s)
  BY <1>2
<1> QED BY <1>3, WorldAssumption

\* Of every world, nothing is told that was not recorded twice and missed.
LEMMA AllAreWellRecorded ==
    WellRecorded = DOMAIN World
<1> SUFFICES ASSUME NEW kind \in DOMAIN World, NEW c \in Checked[kind], Unrecorded(c.once)
             PROVE  FALSE
  BY DEF WellRecorded
<1> DEFINE once == c.once
<1>1. PICK w \in World[kind] : IsWorld(w) /\ once = CheckChange(w, NewSession)
  BY CheckedIsCheck
<1>2. /\ IsFiniteSet(once.s.runs)
      /\ \A f \in Changes(once) : Twice(once.s, f.test) /\ Differed(once.s, f.test)
  BY <1>1, CheckTells
<1> HIDE DEF once
<1> DEFINE passes(f) == {r \in RunsOn(once, "base") : Passes(r, f.test)}
<1>3. PICK f \in Changes(once) : \/ Cardinality(passes(f)) < 2
                                 \/ \A r \in RunsOn(once, "head") : ~Differs(r, f.test)
  BY DEF Unrecorded, once
<1>4. PICK r, q \in once.s.runs : /\ r # q /\ r.commit = "base" /\ q.commit = "base"
                                  /\ Passes(r, f.test) /\ Passes(q, f.test)
  BY <1>2 DEF Twice
<1>5. r \in passes(f) /\ q \in passes(f)
  BY <1>4 DEF RunsOn
<1>6. passes(f) \in SUBSET once.s.runs
  BY DEF RunsOn
<1>7. \E x \in RunsOn(once, "head") : Differs(x, f.test)
  BY <1>2 DEF Differed, RunsOn
<1> HIDE DEF passes
<1>8. IsFiniteSet(passes(f))
  BY <1>2, <1>6, FS_Subset, Zenon
<1>9. ~ (Cardinality(passes(f)) < 2)
  BY <1>4, <1>5, <1>8, TwoAreTwo
<1> QED BY <1>3, <1>7, <1>9

\* Of every world, no less and no more is told than was seen, and the same again.
LEMMA AllAreWellTold ==
    WellTold = DOMAIN World
<1> SUFFICES ASSUME NEW kind \in DOMAIN World, NEW c \in Checked[kind], Untold(c.once, c.again)
             PROVE  FALSE
  BY DEF WellTold
<1> DEFINE once == c.once
           again == c.again
           ran == "behavioural differential" \in once.verified
           told == {f.test : f \in Changes(once)}
           missed == UNION {{t \in DOMAIN r.said : Differs(r, t)} : r \in RunsOn(once, "head")}
<1>1. PICK w \in World[kind] : /\ IsWorld(w) /\ once = CheckChange(w, NewSession)
                               /\ again = CheckChange(w, once.s)
  BY CheckedIsCheck
<1>2. /\ \A t : t \in told <=> ran /\ Differed(once.s, t)
      /\ again.ranked = once.ranked /\ again.s = once.s
  BY <1>1, CheckTells
<1> HIDE DEF once, again
<1>3. \A t : t \in missed <=> Differed(once.s, t)
  <2>1. \A r, t : Differs(r, t) => t \in DOMAIN r.said
    BY DEF Differs, Told
  <2> HIDE DEF Differs
  <2> QED BY <2>1 DEF Differed, RunsOn
<1>4. ran => PipelineState(once)["c4"] = "complete"
  BY DEF PipelineState
<1>5. \/ told # IF ran THEN missed ELSE {}
      \/ told # {} /\ PipelineState(once)["c4"] # "complete"
      \/ again.ranked # once.ranked \/ again.s.runs # once.s.runs
  BY DEF Untold, once, again
<1> HIDE DEF ran, told, missed
<1>6. told = IF ran THEN missed ELSE {}
  BY <1>2, <1>3
<1> QED BY <1>2, <1>4, <1>5, <1>6
=============================================================================
