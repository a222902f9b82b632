------------------------- MODULE VerificationProofs -------------------------
(***************************************************************************)
(* What a complete run has looked at, and what becomes of its findings,    *)
(* for any pull requests, suites, linters, answers and keepers.            *)
(***************************************************************************)
EXTENDS Verification, CheckProofs
----------------------------------------------------------------------------
(* The invariant, by stage *)

\* The stages: before the ranking, while answers are read, and after.
Unranked == {"begin", "surface", "lint", "ground", "attach", "rank"}
Reading  == {"gather", "read", "answer"}
Ending   == {"store", "done"}
Stages   == Unranked \cup {"group"} \cup Reading \cup Ending \cup {"failed"}
\* It is past these, and has not failed.
Beyond(stages) == pc \notin stages \cup {"failed"}

\* What the probes make, and what the stages after them make of it.
IsObservation(o) ==
    /\ o = [kind |-> o.kind, symbol |-> o.symbol, ref |-> o.ref, tool |-> o.tool,
            detail |-> o.detail, confidence |-> o.confidence, relevance |-> o.relevance,
            norm |-> o.norm, score |-> o.score]
    /\ o.kind \in DOMAIN SEVERITY /\ o.confidence \in Nat /\ o.score \in Nat

Shape ==
    /\ pc \in Stages
    /\ \E s \in Scenario : DOMAIN scenario = DOMAIN s
    /\ \A o \in held : IsObservation(o)
    /\ IsFiniteSet(call_edges)

\* Before anything is read there are no verdicts; those there are speak of what was found,
\* with citations.
Judged ==
    /\ verdicts = [adjudications |-> verdicts.adjudications, suggestions |-> verdicts.suggestions,
                   answered |-> verdicts.answered, rejected |-> verdicts.rejected,
                   skipped |-> verdicts.skipped, shown |-> verdicts.shown]
    /\ pc \in Unranked \cup {"group"} => verdicts = NoVerdicts
    /\ Beyond({"answer"}) => verdicts.answered = {}
    /\ \A a \in verdicts.adjudications : a.id \in Ids(held) /\ a.cites # {}
    /\ \A s \in verdicts.suggestions : \E a \in verdicts.adjudications : a.id = s.id

\* Each row is about a row, and those of a run that was never cut short are its own.
Stored ==
    /\ \A s \in rows.suggestions : \E a \in rows.adjudications : a.id = s.id
    /\ \A a \in rows.adjudications : \E r \in rows.observations : r.id = a.id
    /\ ~cut /\ pc # "done" =>
         /\ rows.observations = {} /\ rows.adjudications = {} /\ rows.suggestions = {}
    /\ pc = "done" =>
         /\ {RowOf(o) : o \in held} \subseteq rows.observations
         /\ verdicts.adjudications \subseteq rows.adjudications
         /\ ~cut => /\ rows.observations = {RowOf(o) : o \in held}
                    /\ rows.adjudications = verdicts.adjudications

\* What an observation counts once the verdicts are in.
Halved(o) == IF Id(o) \in Misleading THEN o.confidence \div 2 ELSE o.confidence

\* What is held is what was found, and then that with no more weight than it had.
Upheld ==
    /\ pc \in {"group"} \cup Reading =>
         /\ held = found
         /\ ~moved => \A p \in found : p.score = Score(p, callers)
    /\ pc \in Ending =>
         /\ Ids(found) = Ids(held)
         /\ \A o \in held : \E p \in found :
              /\ Id(o) = Id(p) /\ o.confidence = Halved(p)
              /\ ~moved => o.score <= p.score

\* What each stage compared, or noted that it did not.
Compared ==
    /\ Beyond({"begin"}) =>
         /\ Complete => scenario.fork # "none" /\ DOMAIN scenario.suite.base.tests # {}
         /\ \/ scenario.suite.head.outcome \notin INTERESTING
            \/ scenario.suite.head.outcome = scenario.suite.base.outcome
            \/ \E o \in held : o.symbol = "(suite)"
    /\ Beyond({"begin", "surface"}) =>
         /\ Complete => scenario.python
         /\ scenario.python /\ unread = {} =>
              {s \in DOMAIN scenario.base.api : s \notin DOMAIN scenario.head.api}
                 \subseteq {o.symbol : o \in held}
    /\ Beyond({"begin", "surface", "lint"}) /\ Complete =>
         \A t \in DOMAIN scenario.lint : scenario.lint[t].ran = {"base", "head"}
    /\ Beyond({"begin", "surface", "lint", "ground"}) /\ Complete =>
         \A o \in held : o.relevance # ""

\* What was shown is adjudicated, unless something was rejected or skipped, or it still
\* waits.
AllRead ==
    /\ pc \in Reading /\ verdicts.rejected = {} /\ verdicts.skipped = {} =>
         \A id \in verdicts.shown :
           \/ \E a \in verdicts.adjudications : a.id = id
           \/ \E p \in packets : id \in Ids(p.shown)
           \/ pc = "answer" /\ id \in Shown \ verdicts.answered
    /\ pc \in Ending /\ Complete =>
         \A o \in held : \E a \in verdicts.adjudications : a.id = Id(o)

\* The inductive invariant.
IInv == Shape /\ Judged /\ Stored /\ Upheld /\ Compared /\ AllRead

----------------------------------------------------------------------------
(* Observations *)

\* An observation is a record of these fields; a change of one leaves the others.
LEMMA Edited ==
    ASSUME NEW o, IsObservation(o), NEW x
    PROVE  /\ [o EXCEPT !.score = x] =
                [kind |-> o.kind, symbol |-> o.symbol, ref |-> o.ref, tool |-> o.tool,
                 detail |-> o.detail, confidence |-> o.confidence, relevance |-> o.relevance,
                 norm |-> o.norm, score |-> x]
           /\ [o EXCEPT !.norm = x] =
                [kind |-> o.kind, symbol |-> o.symbol, ref |-> o.ref, tool |-> o.tool,
                 detail |-> o.detail, confidence |-> o.confidence, relevance |-> o.relevance,
                 norm |-> x, score |-> o.score]
           /\ [o EXCEPT !.relevance = x] =
                [kind |-> o.kind, symbol |-> o.symbol, ref |-> o.ref, tool |-> o.tool,
                 detail |-> o.detail, confidence |-> o.confidence, relevance |-> x,
                 norm |-> o.norm, score |-> o.score]
           /\ [o EXCEPT !.confidence = x] =
                [kind |-> o.kind, symbol |-> o.symbol, ref |-> o.ref, tool |-> o.tool,
                 detail |-> o.detail, confidence |-> x, relevance |-> o.relevance,
                 norm |-> o.norm, score |-> o.score]
<1> DEFINE r == [kind |-> o.kind, symbol |-> o.symbol, ref |-> o.ref, tool |-> o.tool,
                 detail |-> o.detail, confidence |-> o.confidence, relevance |-> o.relevance,
                 norm |-> o.norm, score |-> o.score]
<1>1. o = r
  BY DEF IsObservation
<1> HIDE DEF IsObservation
<1>2. [r EXCEPT !.score = x] =
                [kind |-> o.kind, symbol |-> o.symbol, ref |-> o.ref, tool |-> o.tool,
                 detail |-> o.detail, confidence |-> o.confidence, relevance |-> o.relevance,
                 norm |-> o.norm, score |-> x]
  OBVIOUS
<1> QED BY <1>1

\* A set of observations has those of another, each with other scores or marks.
Renders(new, old) ==
    /\ \A q \in new : IsObservation(q) /\ \E o \in old : Id(q) = Id(o)
    /\ \A o \in old : \E q \in new : Id(q) = Id(o)

\* It is of the same ids and symbols.
LEMMA RendersKeeps ==
    ASSUME NEW new, NEW old, Renders(new, old)
    PROVE  /\ Ids(new) = Ids(old)
           /\ \A q \in new : \E o \in old : q.symbol = o.symbol
           /\ \A o \in old : \E q \in new : q.symbol = o.symbol
<1>1. \A q, o : Id(q) = Id(o) => q.symbol = o.symbol
  BY DEF Id
<1>2. \A i : i \in Ids(new) <=> i \in Ids(old)
  BY DEF Renders, Ids
<1> QED BY <1>1, <1>2 DEF Renders

\* Judging against a charter marks every observation.
LEMMA GroundedRenders ==
    ASSUME NEW S, \A o \in S : IsObservation(o), NEW c
    PROVE  Renders(Grounded(S, c), S) /\ \A q \in Grounded(S, c) : q.relevance # ""
<1> DEFINE q(o) == [o EXCEPT !.relevance = Relevance(o, c)]
<1>1. \A o : Relevance(o, c) # ""
  BY DEF Relevance
<1>2. ASSUME NEW o \in S
      PROVE  IsObservation(q(o)) /\ Id(q(o)) = Id(o) /\ q(o).relevance # ""
  <2> DEFINE x == Relevance(o, c)
  <2>1. q(o) = [kind |-> o.kind, symbol |-> o.symbol, ref |-> o.ref, tool |-> o.tool,
                 detail |-> o.detail, confidence |-> o.confidence, relevance |-> x,
                 norm |-> o.norm, score |-> o.score]
    BY Edited
  <2>2. x # ""
    BY <1>1
  <2>3. IsObservation(o)
    OBVIOUS
  <2> HIDE DEF q, x
  <2>4. /\ q(o).kind = o.kind /\ q(o).symbol = o.symbol /\ q(o).ref = o.ref
        /\ q(o).tool = o.tool /\ q(o).detail = o.detail /\ q(o).confidence = o.confidence
        /\ q(o).relevance = x /\ q(o).norm = o.norm /\ q(o).score = o.score
    BY <2>1
  <2> QED BY <2>1, <2>2, <2>3, <2>4 DEF IsObservation, Id
<1>3. Grounded(S, c) = {q(o) : o \in S}
  BY DEF Grounded
<1> HIDE DEF q
<1> QED BY <1>2, <1>3 DEF Renders

\* Attaching norms leaves the relevance.
LEMMA AttachedRenders ==
    ASSUME NEW S, \A o \in S : IsObservation(o), NEW n
    PROVE  /\ Renders(Attached(S, n), S)
           /\ \A q \in Attached(S, n) : \E o \in S : q.relevance = o.relevance
<1> DEFINE x(o) == IF Candidate(o) \in n THEN Candidate(o) ELSE o.norm
           q(o) == [o EXCEPT !.norm = x(o)]
<1>2. ASSUME NEW o \in S
      PROVE  IsObservation(q(o)) /\ Id(q(o)) = Id(o) /\ q(o).relevance = o.relevance
  <2> DEFINE y == x(o)
  <2>1. [o EXCEPT !.norm = y] =
                [kind |-> o.kind, symbol |-> o.symbol, ref |-> o.ref, tool |-> o.tool,
                 detail |-> o.detail, confidence |-> o.confidence, relevance |-> o.relevance,
                 norm |-> y, score |-> o.score]
    <3> HIDE DEF y
    <3> QED BY Edited
  <2>3. IsObservation(o)
    OBVIOUS
  <2>4. q(o) = [o EXCEPT !.norm = y]
    OBVIOUS
  <2> HIDE DEF y, q
  <2> QED BY <2>1, <2>3, <2>4 DEF IsObservation, Id
<1>3. Attached(S, n) = {q(o) : o \in S}
  BY DEF Attached
<1> HIDE DEF q
<1> QED BY <1>2, <1>3 DEF Renders

\* A bounded set of numbers that is not empty has a greatest element.
LEMMA Greatest ==
    ASSUME NEW n \in Nat, NEW S \in SUBSET (0 .. n), S # {}
    PROVE  \E i \in S : \A j \in S : j <= i
<1> DEFINE below == {n - i : i \in S}
<1>1. below \subseteq Nat /\ below # {}
  <2>1. \A i \in S : n - i \in Nat
    OBVIOUS
  <2> QED BY <2>1
<1> DEFINE less == WF!OpToRel(<, Nat)
<1>2. WF!IsWellFoundedOn(less, Nat)
  BY WF!NatLessThanWellFounded
<1>3. PICK x \in below : \A y \in below : x <= y
  <2>1. PICK x \in below : \A y \in below : ~ (<<y, x>> \in less)
    <3> HIDE DEF below, less
    <3> QED BY <1>1, <1>2, WF!WFMin
  <2>2. ASSUME NEW y \in below, y < x PROVE FALSE
    <3>1. <<y, x>> \in less
      BY <1>1, <2>2 DEF WF!OpToRel
    <3> QED BY <2>1, <3>1
  <2> HIDE DEF below
  <2>3. x \in Nat /\ \A y \in below : y \in Nat
    BY <1>1
  <2> QED BY <2>2, <2>3
<1>4. PICK i \in S : x = n - i
  BY <1>3
<1>5. ASSUME NEW j \in S PROVE j <= i
  <2>1. x <= n - j
    BY <1>3
  <2> QED BY <1>4, <2>1
<1> QED BY <1>5

\* Of finitely many edges, a symbol's callers can be counted.
LEMMA CountsAreNumbers ==
    ASSUME NEW E, IsFiniteSet(E), NEW s
    PROVE  Centrality(s, CallerCounts(E)) \in Nat
<1> DEFINE c == CallerCounts(E)
           n == Cardinality(E)
<1>1. n \in Nat
  BY FS_CardinalityType
<1>2. \A t \in DOMAIN c : c[t] \in 0 .. n
  <2> SUFFICES ASSUME NEW t \in DOMAIN c PROVE c[t] \in 0 .. n
    OBVIOUS
  <2> DEFINE F == {e \in E : e[2] = t}
  <2>1. c[t] = Cardinality(F)
    BY DEF CallerCounts
  <2>2. IsFiniteSet(F) /\ Cardinality(F) <= n
    BY FS_Subset
  <2>3. Cardinality(F) \in Nat
    BY <2>2, FS_CardinalityType
  <2> HIDE DEF F, n, c
  <2> QED BY <2>1, <2>2, <2>3, <1>1
<1>3. Widest(c) \in Nat
  <2>1. CASE DOMAIN c = {}
    BY <2>1 DEF Widest
  <2>2. CASE DOMAIN c # {}
    <3> DEFINE values == {c[t] : t \in DOMAIN c}
    <3>1. values \in SUBSET (0 .. n) /\ values # {}
      <4> HIDE DEF c, n
      <4> QED BY <1>2, <2>2
    <3>2. PICK i \in values : \A j \in values : j <= i
      <4> HIDE DEF values, n
      <4> QED BY <1>1, <3>1, Greatest
    <3>3. \E t \in DOMAIN c : \A u \in DOMAIN c : c[u] <= c[t]
      <4> HIDE DEF c
      <4> QED BY <3>2
    <3>4. (CHOOSE t \in DOMAIN c : \A u \in DOMAIN c : c[u] <= c[t]) \in DOMAIN c
      <4> HIDE DEF c
      <4> QED BY <3>3
    <3> HIDE DEF c, n
    <3> QED BY <1>1, <1>2, <2>2, <3>4 DEF Widest
  <2> QED BY <2>1, <2>2
<1> HIDE DEF c, n
<1>4. \A t \in DOMAIN c : c[t] \in Nat
  BY <1>1, <1>2
<1>5. Centrality(s, c) \in Nat
  BY <1>3, <1>4 DEF Centrality
<1> QED BY <1>5 DEF c

\* A score is a number, and falls with the confidence.
LEMMA ScoreFalls ==
    ASSUME NEW c, NEW o, NEW p, IsObservation(o), IsObservation(p),
           o.kind = p.kind, o.symbol = p.symbol, o.relevance = p.relevance,
           o.confidence <= p.confidence, Centrality(p.symbol, c) \in Nat
    PROVE  Score(o, c) \in Nat /\ Score(o, c) <= Score(p, c)
<1>1. /\ SEVERITY[p.kind] \in Nat /\ Weight(p.relevance) \in Nat
      /\ o.confidence \in Nat /\ p.confidence \in Nat
  BY DEF IsObservation, SEVERITY, Weight
<1>2. \A a, b, k \in Nat : a * k \in Nat /\ (a <= b => a * k <= b * k)
  OBVIOUS
<1> DEFINE v == SEVERITY[p.kind]
           w == Weight(p.relevance)
           m == Centrality(p.symbol, c)
           x == o.confidence
           y == p.confidence
<1>3. v \in Nat /\ w \in Nat /\ m \in Nat /\ x \in Nat /\ y \in Nat /\ x <= y
  BY <1>1
<1>4. Score(o, c) = x * v * w * m /\ Score(p, c) = y * v * w * m
  BY DEF Score
<1> HIDE DEF v, w, m, x, y
<1>5. x * v \in Nat /\ y * v \in Nat /\ x * v <= y * v
  BY <1>2, <1>3
<1>6. x * v * w \in Nat /\ y * v * w \in Nat /\ x * v * w <= y * v * w
  BY <1>2, <1>3, <1>5
<1>7. x * v * w * m \in Nat /\ x * v * w * m <= y * v * w * m
  BY <1>2, <1>3, <1>6
<1> QED BY <1>4, <1>7

\* What a ranking gives an observation.
LEMMA RankedRenders ==
    ASSUME NEW S, \A o \in S : IsObservation(o), NEW E, IsFiniteSet(E)
    PROVE  /\ Renders(Ranked(S, CallerCounts(E)), S)
           /\ \A q \in Ranked(S, CallerCounts(E)) : \E o \in S :
                /\ Id(q) = Id(o) /\ q.confidence = o.confidence /\ q.relevance = o.relevance
                /\ q.score = Score(o, CallerCounts(E))
<1> DEFINE c == CallerCounts(E)
           q(o) == [o EXCEPT !.score = Score(o, c)]
<1>1. ASSUME NEW o \in S
      PROVE  /\ IsObservation(q(o)) /\ Id(q(o)) = Id(o) /\ q(o).confidence = o.confidence
             /\ q(o).relevance = o.relevance /\ q(o).score = Score(o, c)
  <2> DEFINE x == Score(o, c)
  <2>1. IsObservation(o)
    OBVIOUS
  <2>2. x \in Nat
    <3>1. Centrality(o.symbol, c) \in Nat
      BY CountsAreNumbers
    <3>2. o.confidence <= o.confidence
      BY <2>1 DEF IsObservation
    <3> HIDE DEF c
    <3> QED BY <2>1, <3>1, <3>2, ScoreFalls
  <2> HIDE DEF x, IsObservation
  <2>3. [o EXCEPT !.score = x] =
                [kind |-> o.kind, symbol |-> o.symbol, ref |-> o.ref, tool |-> o.tool,
                 detail |-> o.detail, confidence |-> o.confidence, relevance |-> o.relevance,
                 norm |-> o.norm, score |-> x]
    BY <2>1, Edited
  <2>4. q(o) = [o EXCEPT !.score = x]
    BY DEF x
  <2> HIDE DEF q
  <2>5. /\ q(o).kind = o.kind /\ q(o).symbol = o.symbol /\ q(o).ref = o.ref
        /\ q(o).tool = o.tool /\ q(o).detail = o.detail /\ q(o).confidence = o.confidence
        /\ q(o).relevance = o.relevance /\ q(o).norm = o.norm /\ q(o).score = x
    BY <2>3, <2>4
  <2>6. q(o) = [kind |-> o.kind, symbol |-> o.symbol, ref |-> o.ref, tool |-> o.tool,
                 detail |-> o.detail, confidence |-> o.confidence, relevance |-> o.relevance,
                 norm |-> o.norm, score |-> x]
    BY <2>3, <2>4
  <2>7. IsObservation(q(o)) /\ Id(q(o)) = Id(o)
    BY <2>1, <2>2, <2>5, <2>6 DEF IsObservation, Id
  <2> QED BY <2>5, <2>7 DEF x
<1>2. Ranked(S, c) = {q(o) : o \in S}
  BY DEF Ranked
<1> HIDE DEF q, c
<1>3. /\ Renders(Ranked(S, c), S)
      /\ \A r \in Ranked(S, c) : \E o \in S :
           /\ Id(r) = Id(o) /\ r.confidence = o.confidence /\ r.relevance = o.relevance
           /\ r.score = Score(o, c)
  BY <1>1, <1>2 DEF Renders
<1> QED BY <1>3 DEF c

\* What the adjudicator's verdicts make of an observation.
LEMMA DemotedRenders ==
    ASSUME \A o \in held : IsObservation(o)
    PROVE  /\ Renders(Demoted, held)
           /\ \A q \in Demoted : \E o \in held :
                /\ Id(q) = Id(o) /\ q.confidence = Halved(o) /\ q.relevance = o.relevance
                /\ q.confidence <= o.confidence
<1> DEFINE q(o) == IF Id(o) \in Misleading THEN [o EXCEPT !.confidence = o.confidence \div 2] ELSE o
<1>1. ASSUME NEW o \in held
      PROVE  /\ IsObservation(q(o)) /\ Id(q(o)) = Id(o) /\ q(o).confidence = Halved(o)
             /\ q(o).relevance = o.relevance /\ q(o).confidence <= o.confidence
  <2>1. IsObservation(o)
    OBVIOUS
  <2>2. o.confidence \in Nat
    BY DEF IsObservation
  <2> DEFINE x == o.confidence \div 2
  <2>3. x \in Nat /\ x <= o.confidence
    BY <2>2
  <2>4. CASE Id(o) \notin Misleading
    BY <2>1, <2>2, <2>4 DEF Halved
  <2>5. CASE Id(o) \in Misleading
    <3>1. q(o) = [o EXCEPT !.confidence = x] /\ Halved(o) = x
      BY <2>5 DEF Halved
    <3> HIDE DEF x, q, IsObservation
    <3>2. [o EXCEPT !.confidence = x] =
                [kind |-> o.kind, symbol |-> o.symbol, ref |-> o.ref, tool |-> o.tool,
                 detail |-> o.detail, confidence |-> x, relevance |-> o.relevance,
                 norm |-> o.norm, score |-> o.score]
      BY <2>1, Edited
    <3>3. q(o) = [kind |-> o.kind, symbol |-> o.symbol, ref |-> o.ref, tool |-> o.tool,
                 detail |-> o.detail, confidence |-> x, relevance |-> o.relevance,
                 norm |-> o.norm, score |-> o.score]
      BY <3>1, <3>2
    <3>4. /\ q(o).kind = o.kind /\ q(o).symbol = o.symbol /\ q(o).ref = o.ref
          /\ q(o).tool = o.tool /\ q(o).detail = o.detail /\ q(o).confidence = x
          /\ q(o).relevance = o.relevance /\ q(o).norm = o.norm /\ q(o).score = o.score
      BY <3>3
    <3>5. IsObservation(q(o)) /\ Id(q(o)) = Id(o)
      BY <2>1, <2>3, <3>3, <3>4 DEF IsObservation, Id
    <3> QED BY <2>3, <3>1, <3>4, <3>5
  <2> QED BY <2>4, <2>5
<1>2. Demoted = {q(o) : o \in held}
  BY DEF Demoted
<1> HIDE DEF q
<1> QED BY <1>1, <1>2 DEF Renders

----------------------------------------------------------------------------
(* The code of a commit *)

\* Finitely many values of a function.
LEMMA ValuesAreFinite ==
    ASSUME NEW S, IsFiniteSet(S), NEW h
    PROVE  IsFiniteSet({h[s] : s \in S})
<1> DEFINE values == {h[s] : s \in S}
<1>1. PICK seq \in Seq(S) : \A s \in S : \E n \in 1 .. Len(seq) : seq[n] = s
  BY DEF IsFiniteSet
<1> DEFINE images == [n \in 1 .. Len(seq) |-> h[seq[n]]]
<1>2. images \in Seq(values) /\ Len(images) = Len(seq)
  OBVIOUS
<1>3. \A v \in values : \E n \in 1 .. Len(images) : images[n] = v
  BY <1>1, <1>2
<1> HIDE DEF images, values
<1>4. IsFiniteSet(values)
  BY <1>2, <1>3 DEF IsFiniteSet
<1> QED BY <1>4 DEF values

\* What the walks of a tree find at a node, from what they found at its parent: its name,
\* its module, the function and the blocks around it.
Found(code, root, i, up) ==
    LET n == code.nodes[i]
    IN  [name   |-> CASE n.kind = "module" -> ModuleName(code, code.files[n.file], root)
                      [] n.kind = "block"  -> up.name
                      [] OTHER             -> Append(up.name, n.name),
         module |-> IF n.kind = "module" THEN i ELSE up.module,
         around |-> CASE n.kind = "module" -> 0
                      [] n.kind = "def"    -> i
                      [] OTHER             -> up.around,
         blocks |-> (IF n.kind = "block" THEN {i} ELSE {})
                    \cup (IF n.kind = "module" THEN {} ELSE up.blocks)]
FoundTo(code, root, n, f) ==
    f = [i \in 1 .. n |-> Found(code, root, i, f[code.nodes[i].parent])]

\* They find something at every node.
LEMMA NodesAreFound ==
    ASSUME NEW code, IsCode(code), NEW root
    PROVE  \E f : FoundTo(code, root, Len(code.nodes), f)
<1> DEFINE N   == Len(code.nodes)
           up(i) == code.nodes[i].parent
           is(i) == code.nodes[i].kind = "module"
           bad == {n \in Nat : n <= N /\ ~ \E f : FoundTo(code, root, n, f)}
<1>1. /\ N \in Nat /\ \A i \in 1 .. N : is(i) \/ up(i) \in 1 .. i - 1
      /\ \A i, x, y : is(i) => Found(code, root, i, x) = Found(code, root, i, y)
  BY DEF IsCode, Found
<1> SUFFICES ASSUME bad # {} PROVE FALSE
  <2> HIDE DEF N
  <2> QED BY <1>1 DEF N
<1>2. PICK n \in bad : \A k \in bad : n <= k
  <2>1. bad \in SUBSET Nat
    OBVIOUS
  <2> HIDE DEF bad
  <2> QED BY <2>1, Least
<1> HIDE DEF up, is, N
<1>3. CASE n = 0
  <2> DEFINE f == [i \in 1 .. 0 |-> 0]
  <2>1. f = [i \in 1 .. 0 |-> Found(code, root, i, f[code.nodes[i].parent])]
    OBVIOUS
  <2>2. FoundTo(code, root, 0, f)
    BY <2>1 DEF FoundTo
  <2> HIDE DEF f
  <2> QED BY <1>3, <2>2
<1>4. CASE n # 0
  <2>1. n - 1 \in Nat /\ n - 1 <= N /\ n - 1 \notin bad
    BY <1>1, <1>2, <1>4
  <2>2. PICK f : FoundTo(code, root, n - 1, f)
    BY <2>1
  <2> DEFINE g == [i \in 1 .. n |-> IF i < n THEN f[i] ELSE Found(code, root, n, f[up(n)])]
  <2>3. \A i \in 1 .. n - 1 : f[i] = Found(code, root, i, f[up(i)]) /\ g[i] = f[i]
    <3>1. \A i \in 1 .. n - 1 : f[i] = Found(code, root, i, f[up(i)])
      BY <2>2 DEF FoundTo, up
    <3>2. \A i \in 1 .. n - 1 : i \in 1 .. n /\ i < n
      BY <2>1
    <3> QED BY <3>1, <3>2
  <2>4. g[n] = Found(code, root, n, f[up(n)])
    BY <1>4
  <2>5. g = [i \in 1 .. n |-> g[i]]
    OBVIOUS
  <2> HIDE DEF g
  <2>6. ASSUME NEW i \in 1 .. n PROVE g[i] = Found(code, root, i, g[up(i)])
    <3>1. i \in 1 .. N
      BY <1>1
    <3>2. g[i] = Found(code, root, i, f[up(i)])
      BY <2>3, <2>4
    <3>3. CASE is(i)
      BY <1>1, <3>2, <3>3
    <3>4. CASE up(i) \in 1 .. i - 1
      <4>1. g[up(i)] = f[up(i)]
        BY <2>3, <3>4
      <4> QED BY <3>2, <4>1
    <3> QED BY <1>1, <3>1, <3>3, <3>4
  <2>7. FoundTo(code, root, n, g)
    BY <2>5, <2>6 DEF FoundTo, up
  <2> QED BY <2>7
<1> QED BY <1>3, <1>4

\* So the walks, which the code takes by recursion, find what they say at every node.
NamesTo(code, root, name) ==
    name = [i \in DOMAIN code.nodes |->
              LET n == code.nodes[i] IN
              CASE n.kind = "module" -> ModuleName(code, code.files[n.file], root)
                [] n.kind = "block"  -> name[n.parent]
                [] OTHER             -> Append(name[n.parent], n.name)]
ModulesTo(code, module) ==
    module = [i \in DOMAIN code.nodes |->
                IF code.nodes[i].kind = "module" THEN i ELSE module[code.nodes[i].parent]]
AroundTo(code, around) ==
    around = [i \in DOMAIN code.nodes |->
                CASE code.nodes[i].kind = "module" -> 0
                  [] code.nodes[i].kind = "def"    -> i
                  [] OTHER                         -> around[code.nodes[i].parent]]
BlocksTo(code, blocks) ==
    blocks = [i \in DOMAIN code.nodes |->
                (IF code.nodes[i].kind = "block" THEN {i} ELSE {})
                \cup (IF code.nodes[i].kind = "module" THEN {} ELSE blocks[code.nodes[i].parent])]

LEMMA FoundFields ==
    ASSUME NEW code, NEW root, NEW i, NEW up
    PROVE  /\ Found(code, root, i, up).name =
                CASE code.nodes[i].kind = "module" ->
                       ModuleName(code, code.files[code.nodes[i].file], root)
                  [] code.nodes[i].kind = "block"  -> up.name
                  [] OTHER                         -> Append(up.name, code.nodes[i].name)
           /\ Found(code, root, i, up).module =
                IF code.nodes[i].kind = "module" THEN i ELSE up.module
           /\ Found(code, root, i, up).around =
                CASE code.nodes[i].kind = "module" -> 0
                  [] code.nodes[i].kind = "def"    -> i
                  [] OTHER                         -> up.around
           /\ Found(code, root, i, up).blocks =
                (IF code.nodes[i].kind = "block" THEN {i} ELSE {})
                \cup (IF code.nodes[i].kind = "module" THEN {} ELSE up.blocks)
BY DEF Found

LEMMA WalksAreDefined ==
    ASSUME NEW code, IsCode(code), NEW root
    PROVE  /\ NamesTo(code, root, NameOf(code, root))
           /\ ModulesTo(code, ModuleOfNode(code))
           /\ AroundTo(code, Enclosing(code))
           /\ BlocksTo(code, BlocksAround(code))
<1> DEFINE D == DOMAIN code.nodes
           up(i) == code.nodes[i].parent
<1>1. PICK f : FoundTo(code, root, Len(code.nodes), f)
  BY NodesAreFound
<1>2. /\ \A i \in D : f[i] = Found(code, root, i, f[up(i)])
      /\ \A i \in D : code.nodes[i].kind = "module" \/ up(i) \in D
  <2>1. D = 1 .. Len(code.nodes) /\ Len(code.nodes) \in Nat
    BY DEF IsCode
  <2>2. \A i \in D : code.nodes[i].kind = "module" \/ up(i) \in D
    <3> SUFFICES ASSUME NEW i \in D, code.nodes[i].kind # "module" PROVE up(i) \in D
      OBVIOUS
    <3>1. up(i) \in 1 .. i - 1
      BY DEF IsCode
    <3> HIDE DEF D
    <3> QED BY <2>1, <3>1
  <2> QED BY <1>1, <2>1, <2>2 DEF FoundTo
<1>3. NamesTo(code, root, NameOf(code, root))
  <2> DEFINE name == [i \in D |-> f[i].name]
  <2>1. ASSUME NEW i \in D
        PROVE  name[i] =
                     CASE code.nodes[i].kind = "module" ->
                            ModuleName(code, code.files[code.nodes[i].file], root)
                     [] code.nodes[i].kind = "block"  -> name[code.nodes[i].parent]
                     [] OTHER -> Append(name[code.nodes[i].parent], code.nodes[i].name)
    <3> DEFINE n == code.nodes[i]
    <3>1. f[i].name =
                     CASE code.nodes[i].kind = "module" ->
                            ModuleName(code, code.files[code.nodes[i].file], root)
                     [] code.nodes[i].kind = "block"  -> f[code.nodes[i].parent].name
                     [] OTHER -> Append(f[code.nodes[i].parent].name, code.nodes[i].name)
      BY <1>2, FoundFields
    <3>2. name[i] = f[i].name /\ (n.kind # "module" => name[n.parent] = f[n.parent].name)
      BY <1>2
    <3> HIDE DEF name, n
    <3> QED BY <3>1, <3>2 DEF n
  <2>2. name = [i \in D |-> name[i]]
    OBVIOUS
  <2> HIDE DEF name
  <2>3. NamesTo(code, root, name)
    BY <2>1, <2>2 DEF NamesTo
  <2>4. NameOf(code, root) = CHOOSE g : NamesTo(code, root, g)
    BY DEF NameOf, NamesTo
  <2> QED BY <2>3, <2>4
<1>4. ModulesTo(code, ModuleOfNode(code))
  <2> DEFINE module == [i \in D |-> f[i].module]
  <2>1. ASSUME NEW i \in D
        PROVE  module[i] = IF code.nodes[i].kind = "module" THEN i ELSE module[code.nodes[i].parent]
    <3> DEFINE n == code.nodes[i]
    <3>1. f[i].module = IF code.nodes[i].kind = "module" THEN i ELSE f[code.nodes[i].parent].module
      BY <1>2, FoundFields
    <3>2. module[i] = f[i].module /\ (n.kind # "module" => module[n.parent] = f[n.parent].module)
      BY <1>2
    <3> HIDE DEF module, n
    <3> QED BY <3>1, <3>2 DEF n
  <2>2. module = [i \in D |-> module[i]]
    OBVIOUS
  <2> HIDE DEF module
  <2>3. ModulesTo(code, module)
    BY <2>1, <2>2 DEF ModulesTo
  <2>4. ModuleOfNode(code) = CHOOSE g : ModulesTo(code, g)
    BY DEF ModuleOfNode, ModulesTo
  <2> QED BY <2>3, <2>4
<1>5. AroundTo(code, Enclosing(code))
  <2> DEFINE around == [i \in D |-> f[i].around]
  <2>1. ASSUME NEW i \in D
        PROVE  around[i] = CASE code.nodes[i].kind = "module" -> 0
                     [] code.nodes[i].kind = "def"    -> i
                     [] OTHER                         -> around[code.nodes[i].parent]
    <3> DEFINE n == code.nodes[i]
    <3>1. f[i].around = CASE code.nodes[i].kind = "module" -> 0
                     [] code.nodes[i].kind = "def"    -> i
                     [] OTHER                         -> f[code.nodes[i].parent].around
      BY <1>2, FoundFields
    <3>2. around[i] = f[i].around /\ (n.kind # "module" => around[n.parent] = f[n.parent].around)
      BY <1>2
    <3> HIDE DEF around, n
    <3> QED BY <3>1, <3>2 DEF n
  <2>2. around = [i \in D |-> around[i]]
    OBVIOUS
  <2> HIDE DEF around
  <2>3. AroundTo(code, around)
    BY <2>1, <2>2 DEF AroundTo
  <2>4. Enclosing(code) = CHOOSE g : AroundTo(code, g)
    BY DEF Enclosing, AroundTo
  <2> QED BY <2>3, <2>4
<1>6. BlocksTo(code, BlocksAround(code))
  <2> DEFINE blocks == [i \in D |-> f[i].blocks]
  <2>1. ASSUME NEW i \in D
        PROVE  blocks[i] = (IF code.nodes[i].kind = "block" THEN {i} ELSE {})
                     \cup (IF code.nodes[i].kind = "module" THEN {} ELSE blocks[code.nodes[i].parent])
    <3> DEFINE n == code.nodes[i]
    <3>1. f[i].blocks = (IF code.nodes[i].kind = "block" THEN {i} ELSE {})
                     \cup (IF code.nodes[i].kind = "module" THEN {} ELSE f[code.nodes[i].parent].blocks)
      BY <1>2, FoundFields
    <3>2. blocks[i] = f[i].blocks /\ (n.kind # "module" => blocks[n.parent] = f[n.parent].blocks)
      BY <1>2
    <3> HIDE DEF blocks, n
    <3> QED BY <3>1, <3>2 DEF n
  <2>2. blocks = [i \in D |-> blocks[i]]
    OBVIOUS
  <2> HIDE DEF blocks
  <2>3. BlocksTo(code, blocks)
    BY <2>1, <2>2 DEF BlocksTo
  <2>4. BlocksAround(code) = CHOOSE g : BlocksTo(code, g)
    BY DEF BlocksAround, BlocksTo
  <2> QED BY <2>3, <2>4
<1> QED BY <1>3, <1>4, <1>5, <1>6

\* Where a node is: in a module of a file, as its parent is; the function and the blocks
\* around it are in the same module.
Placed(code, i) ==
    LET module == ModuleOfNode(code)
        around == Enclosing(code)[i]
    IN  /\ module[i] \in DOMAIN code.nodes /\ FileNumber(code, i) \in DOMAIN code.files
        /\ code.nodes[i].kind # "module" => module[i] = module[code.nodes[i].parent]
        /\ around = 0 \/ /\ around \in DOMAIN code.nodes /\ code.nodes[around].kind = "def"
                         /\ module[around] = module[i]
        /\ \A b \in BlocksAround(code)[i] : b \in DOMAIN code.nodes /\ module[b] = module[i]

LEMMA NodesArePlaced ==
    ASSUME NEW code, IsCode(code)
    PROVE  \A i \in DOMAIN code.nodes : Placed(code, i)
<1> DEFINE D == DOMAIN code.nodes
           module == ModuleOfNode(code)
           around == Enclosing(code)
           blocks == BlocksAround(code)
           bad == {i \in D : ~Placed(code, i)}
<1> SUFFICES ASSUME bad # {} PROVE FALSE
  OBVIOUS
<1>1. D = 1 .. Len(code.nodes) /\ Len(code.nodes) \in Nat
  BY DEF IsCode
<1>2. PICK i \in bad : \A j \in bad : i <= j
  <2>1. bad \in SUBSET Nat
    <3>1. D \in SUBSET Nat
      <4> HIDE DEF D
      <4> QED BY <1>1
    <3> HIDE DEF D
    <3> QED BY <3>1
  <2> HIDE DEF bad
  <2> QED BY <2>1, Least
<1>3. i \in D /\ ~Placed(code, i)
  OBVIOUS
<1> DEFINE n == code.nodes[i]
<1>4. /\ module[i] = IF n.kind = "module" THEN i ELSE module[n.parent]
      /\ around[i] = CASE n.kind = "module" -> 0
                      [] n.kind = "def"    -> i
                      [] OTHER             -> around[n.parent]
      /\ blocks[i] = (IF n.kind = "block" THEN {i} ELSE {})
                     \cup (IF n.kind = "module" THEN {} ELSE blocks[n.parent])
  <2>1. ModulesTo(code, module) /\ AroundTo(code, around) /\ BlocksTo(code, blocks)
    BY WalksAreDefined
  <2> HIDE DEF module, around, blocks
  <2>2. module[i] = IF n.kind = "module" THEN i ELSE module[n.parent]
    BY <1>3, <2>1 DEF ModulesTo
  <2>3. around[i] = CASE n.kind = "module" -> 0
                      [] n.kind = "def"    -> i
                      [] OTHER             -> around[n.parent]
    BY <1>3, <2>1 DEF AroundTo
  <2>4. blocks[i] = (IF n.kind = "block" THEN {i} ELSE {})
                     \cup (IF n.kind = "module" THEN {} ELSE blocks[n.parent])
    BY <1>3, <2>1 DEF BlocksTo
  <2> QED BY <2>2, <2>3, <2>4
<1>5. CASE n.kind = "module"
  <2>1. module[i] = i /\ around[i] = 0 /\ blocks[i] = {}
    BY <1>4, <1>5
  <2>2. n.file \in DOMAIN code.files
    BY <1>3, <1>5 DEF IsCode
  <2> HIDE DEF bad
  <2> QED BY <1>3, <1>5, <2>1, <2>2 DEF Placed, FileNumber
<1>6. CASE n.kind # "module"
  <2> DEFINE p == n.parent
  <2>1. p \in D /\ Placed(code, p)
    <3>1. p \in 1 .. i - 1
      BY <1>3, <1>6 DEF IsCode
    <3>2. p \in D /\ ~ (i <= p)
      <4> HIDE DEF bad, D, p
      <4> QED BY <1>1, <1>3, <3>1
    <3>3. p \notin bad
      <4> HIDE DEF bad
      <4> QED BY <1>2, <3>2
    <3> QED BY <3>2, <3>3
  <2>2. /\ module[p] \in D /\ FileNumber(code, p) \in DOMAIN code.files
        /\ around[p] = 0 \/ /\ around[p] \in D /\ code.nodes[around[p]].kind = "def"
                            /\ module[around[p]] = module[p]
        /\ \A b \in blocks[p] : b \in D /\ module[b] = module[p]
    BY <2>1 DEF Placed
  <2>3. /\ module[i] = module[p] /\ around[i] \in {i, around[p]}
        /\ around[i] = i => n.kind = "def" \/ i = around[p]
        /\ blocks[i] \subseteq {i} \cup blocks[p]
    BY <1>4, <1>6
  <2>4. FileNumber(code, i) = FileNumber(code, p)
    BY <2>3 DEF FileNumber
  <2>5. around[i] = 0 \/ /\ around[i] \in D /\ code.nodes[around[i]].kind = "def"
                         /\ module[around[i]] = module[i]
    <3> HIDE DEF D, bad, module, around
    <3> QED BY <1>3, <2>2, <2>3
  <2>6. \A b \in blocks[i] : b \in D /\ module[b] = module[i]
    <3> HIDE DEF D, bad, module, blocks
    <3> QED BY <1>3, <2>2, <2>3
  <2>7. Placed(code, i)
    <3>1. module[i] \in D /\ FileNumber(code, i) \in DOMAIN code.files
      BY <2>2, <2>3, <2>4
    <3> HIDE DEF bad
    <3> QED BY <2>3, <2>5, <2>6, <3>1 DEF Placed
  <2> QED BY <1>3, <2>7
<1> QED BY <1>5, <1>6

\* The functions that a call is from are symbols of a source's file, as it is in one.
LEMMA CallersAreDefined ==
    ASSUME NEW code, IsCode(code), NEW root, NEW c \in code.calls,
           IsSource(FileOfNode(code, c.at), root), NEW f \in CallersIn(code, c)
    PROVE  f \in Definitions(code, root)
<1> DEFINE D == DOMAIN code.nodes
           module == ModuleOfNode(code)
           around == Enclosing(code)
           at == c.at
<1>1. at \in D /\ Placed(code, at)
  <2>1. at \in D
    BY DEF IsCode
  <2> QED BY <2>1, NodesArePlaced
<1>2. PICK i \in D : f = around[i] /\ f # 0 /\ module[i] = module[at]
  <2>1. f # 0 /\ (f = around[at] \/ \E b \in BlocksAround(code)[at] : f = around[b])
    BY DEF CallersIn
  <2> QED BY <1>1, <2>1 DEF Placed
<1>3. f \in D /\ code.nodes[f].kind = "def" /\ module[f] = module[at]
  BY <1>2, NodesArePlaced DEF Placed
<1>4. FileOfNode(code, f) = FileOfNode(code, at)
  BY <1>3 DEF FileOfNode, FileNumber
<1> QED BY <1>3, <1>4 DEF Definitions

\* The graph of a commit is between finitely many symbols.
LEMMA EdgesJoinSymbols ==
    ASSUME NEW code, IsCode(code), NEW root
    PROVE  /\ IsFiniteSet(Symbols(code, root)) /\ IsFiniteSet(CallEdges(code, root))
           /\ CallEdges(code, root) \subseteq Symbols(code, root) \X Symbols(code, root)
<1> DEFINE symbols == Symbols(code, root)
           name    == NameOf(code, root)
<1>1. IsFiniteSet(symbols)
  <2> DEFINE defined == Definitions(code, root)
  <2>1. IsFiniteSet(1 .. Len(code.nodes))
    <3> DEFINE n == Len(code.nodes)
    <3>1. n \in Nat
      BY DEF IsCode
    <3> HIDE DEF n
    <3>2. IsFiniteSet(1 .. n)
      BY <3>1, FS_Interval
    <3> QED BY <3>2 DEF n
  <2>2. defined \subseteq 1 .. Len(code.nodes)
    BY DEF Definitions, IsCode
  <2>3. IsFiniteSet(defined)
    BY <2>1, <2>2, FS_Subset
  <2>4. symbols = {name[i] : i \in defined}
    BY DEF Symbols
  <2> HIDE DEF symbols, name, defined
  <2> QED BY <2>3, <2>4, ValuesAreFinite
<1>2. ASSUME NEW c \in code.calls, IsSource(FileOfNode(code, c.at), root),
             NEW e \in {name[f] : f \in CallersIn(code, c)} \X Resolve(code, root, c)
      PROVE  e \in symbols \X symbols
  <2>1. \A f \in CallersIn(code, c) : name[f] \in symbols
    BY <1>2, CallersAreDefined DEF Symbols
  <2>2. Resolve(code, root, c) \subseteq symbols
    BY DEF Resolve, Exactly, Fallback, Namesakes
  <2> QED BY <2>1, <2>2
<1>3. CallEdges(code, root) \subseteq symbols \X symbols
  BY <1>2 DEF CallEdges
<1>4. IsFiniteSet(symbols \X symbols)
  <2> HIDE DEF symbols
  <2> QED BY <1>1, FS_Product
<1>5. IsFiniteSet(CallEdges(code, root))
  <2> HIDE DEF symbols
  <2> QED BY <1>3, <1>4, FS_Subset
<1> QED BY <1>1, <1>3, <1>5

\* What is known of a structure: its symbols are finitely many, its edges between them.
Joins(structure) ==
    /\ IsFiniteSet(DOMAIN structure.symbols) /\ IsFiniteSet(structure.edges)
    /\ structure.edges \subseteq (DOMAIN structure.symbols) \X (DOMAIN structure.symbols)

LEMMA StructureJoins ==
    ASSUME NEW code, IsCode(code)
    PROVE  Joins(Structure(code))
<1> DEFINE root == CommonRoot(code)
           structure == Structure(code)
<1>1. CASE structure = NoStructure
  <2>1. DOMAIN structure.symbols = {} /\ structure.edges = {}
    BY <1>1 DEF NoStructure
  <2> QED BY <2>1, FS_EmptySet DEF Joins
<1>2. CASE structure # NoStructure
  <2>1. DOMAIN structure.symbols = Symbols(code, root) /\ structure.edges = CallEdges(code, root)
    BY <1>2 DEF Structure
  <2> HIDE DEF root, structure
  <2>2. /\ IsFiniteSet(Symbols(code, root)) /\ IsFiniteSet(CallEdges(code, root))
        /\ CallEdges(code, root) \subseteq Symbols(code, root) \X Symbols(code, root)
    BY EdgesJoinSymbols
  <2> DEFINE symbols == DOMAIN structure.symbols
             edges   == structure.edges
  <2> HIDE DEF symbols, edges
  <2>3. symbols = Symbols(code, root) /\ edges = CallEdges(code, root)
    BY <2>1 DEF symbols, edges
  <2>4. IsFiniteSet(symbols) /\ IsFiniteSet(edges) /\ edges \subseteq symbols \X symbols
    BY <2>2, <2>3
  <2>5. Joins(structure)
    BY <2>4 DEF Joins, symbols, edges
  <2> QED BY <2>5 DEF structure
<1> QED BY <1>1, <1>2

\* The calls of some commits are finitely many.
LEMMA SpelledIsFinite ==
    ASSUME NEW C \in SUBSET DOMAIN Checkout
    PROVE  IsFiniteSet(UNION {Spelled[c] : c \in C})
<1> DEFINE edges == [c \in DOMAIN Checkout |-> Structure(Checkout[c]).edges]
           dotted(e) == <<Dotted(e[1]), Dotted(e[2])>>
<1>1. ASSUME NEW c \in C PROVE IsFiniteSet(Spelled[c])
  <2> DEFINE h == [e \in edges[c] |-> dotted(e)]
  <2>1. IsFiniteSet(edges[c])
    <3>1. Joins(Structure(Checkout[c]))
      BY CheckoutAssumption, StructureJoins
    <3> QED BY <3>1 DEF Joins
  <2>2. Spelled[c] = {dotted(e) : e \in edges[c]} /\ \A e \in edges[c] : h[e] = dotted(e)
    BY DEF Spelled
  <2> HIDE DEF edges, dotted, h
  <2>3. Spelled[c] = {h[e] : e \in edges[c]}
    BY <2>2
  <2> QED BY <2>1, <2>3, ValuesAreFinite
<1> DEFINE sets == {Spelled[c] : c \in C}
<1>2. IsFiniteSet(C)
  BY CheckoutAssumption, FS_Subset
<1>3. IsFiniteSet(sets) /\ \A s \in sets : IsFiniteSet(s)
  BY <1>1, <1>2, ValuesAreFinite
<1> HIDE DEF sets
<1>4. IsFiniteSet(UNION sets)
  BY <1>3, FS_UNION
<1> QED BY <1>4 DEF sets

----------------------------------------------------------------------------
(* The invariant *)

\* A run begins with nothing observed and nothing stored.
LEMMA InitHolds == Init => IInv
<1> SUFFICES ASSUME Init PROVE IInv
  OBVIOUS
<1>1. Shape
  <2>1. IsFiniteSet(call_edges)
    <3>1. indexed \subseteq DOMAIN Checkout
      BY VerificationAssumption DEF Init
    <3>2. call_edges = UNION {Spelled[c] : c \in indexed}
      BY DEF Init
    <3> QED BY <3>1, <3>2, SpelledIsFinite
  <2> QED BY <2>1 DEF Init, Fresh, Shape, Stages, Unranked
<1>2. Judged
  BY DEF Init, Fresh, Judged, NoVerdicts, Unranked
<1>3. Stored
  BY DEF Init, Stored
<1>4. Upheld /\ Compared /\ AllRead
  BY DEF Init, Upheld, Compared, AllRead, Reading, Ending, Beyond
<1> QED BY <1>1, <1>2, <1>3, <1>4 DEF IInv

\* A stage before the ranking changes what was observed and what is covered only.
LEMMA ProbingSteps ==
    ASSUME IInv, pc \in Unranked, pc' \in Unranked,
           DOMAIN scenario' = DOMAIN scenario, \A o \in held' : IsObservation(o),
           UNCHANGED <<verdicts, rows, cut, call_edges>>
    PROVE  Shape' /\ Judged' /\ Stored' /\ Upheld' /\ AllRead'
<1>1. Shape'
  BY DEF IInv, Shape, Stages
<1>2. verdicts = NoVerdicts
  BY DEF IInv, Judged
<1>3. Judged'
  BY <1>2 DEF Judged, NoVerdicts
<1>4. Stored'
  BY DEF IInv, Stored, Unranked
<1>5. Upheld' /\ AllRead'
  BY DEF Upheld, AllRead, Unranked, Reading, Ending
<1> QED BY <1>1, <1>3, <1>4, <1>5

\* Observations with the same ids are of the same symbols.
LEMMA SameSymbols ==
    ASSUME NEW S, NEW T, Ids(S) = Ids(T)
    PROVE  {o.symbol : o \in S} = {o.symbol : o \in T}
<1>1. ASSUME NEW A, NEW B, Ids(A) = Ids(B), NEW o \in A
      PROVE  \E q \in B : q.symbol = o.symbol
  <2>1. PICK q \in B : Id(q) = Id(o)
    <3>1. Id(o) \in Ids(B)
      BY <1>1 DEF Ids
    <3> QED BY <3>1 DEF Ids
  <2> QED BY <2>1 DEF Id
<1>2. \A o \in S : \E q \in T : q.symbol = o.symbol
  BY <1>1
<1>3. \A o \in T : \E q \in S : q.symbol = o.symbol
  BY <1>1
<1> QED BY <1>2, <1>3

\* A stage after the judging against the charter leaves what was compared.
LEMMA ComparedKept ==
    ASSUME IInv, Beyond({"begin", "surface", "lint", "ground"}), coverage \subseteq coverage',
           UNCHANGED <<scenario, unread>>, Ids(held') = Ids(held),
           \A q \in held' : \E o \in held : q.relevance = o.relevance
    PROVE  Compared'
<1>1. Complete' => Complete
  BY DEF Complete
<1>2. {o.symbol : o \in held'} = {o.symbol : o \in held}
  BY SameSymbols
<1>3. (\E o \in held : o.symbol = "(suite)") => \E o \in held' : o.symbol = "(suite)"
  BY <1>2
<1>4. pc \notin {"begin", "surface", "lint", "ground", "failed"}
  BY DEF Beyond
<1>5. /\ Complete => /\ scenario.fork # "none" /\ DOMAIN scenario.suite.base.tests # {}
                     /\ scenario.python
                     /\ \A t \in DOMAIN scenario.lint : scenario.lint[t].ran = {"base", "head"}
                     /\ \A o \in held : o.relevance # ""
      /\ \/ scenario.suite.head.outcome \notin INTERESTING
         \/ scenario.suite.head.outcome = scenario.suite.base.outcome
         \/ \E o \in held : o.symbol = "(suite)"
      /\ scenario.python /\ unread = {} =>
           {x \in DOMAIN scenario.base.api : x \notin DOMAIN scenario.head.api}
              \subseteq {o.symbol : o \in held}
  BY <1>4 DEF IInv, Compared, Beyond
<1> QED BY <1>1, <1>2, <1>3, <1>5 DEF Compared

\* The adjudicator's steps leave what was found and stored.
LEMMA ReadingSteps ==
    ASSUME IInv, pc \in {"group"} \cup Reading, pc' \in Reading,
           UNCHANGED <<scenario, held, coverage, found, unread, moved, cut, rows, call_edges>>
    PROVE  Shape' /\ Stored' /\ Upheld' /\ Compared'
<1>1. Shape'
  BY DEF IInv, Shape, Stages
<1>2. Stored'
  BY DEF IInv, Stored, Reading
<1>3. Upheld'
  <2>1. callers' = callers
    BY DEF callers
  <2>2. \A p : Score(p, callers)' = Score(p, callers)
    BY <2>1 DEF Score
  <2> QED BY <2>2 DEF IInv, Upheld, Reading, Ending
<1>4. Compared'
  BY ComparedKept DEF Beyond, Reading
<1> QED BY <1>1, <1>2, <1>3, <1>4

----------------------------------------------------------------------------
(* Probing *)

\* What each probe makes are observations.
LEMMA DifferentialMade ==
    ASSUME NEW base, NEW head, NEW o \in Differential(base, head)
    PROVE  IsObservation(o)
<1> DEFINE gone(t) == Observation("test_removed", t, <<t>>, "", "", 750)
           broken(t) == Observation("behavior_change", t, <<t>>, "", "", 900)
<1>1. ASSUME NEW t PROVE IsObservation(gone(t)) /\ IsObservation(broken(t))
  BY DEF Observation, IsObservation, SEVERITY
<1>2. \E t : o = gone(t) \/ o = broken(t)
  <2>1. Differential(base, head) =
         {gone(t) : t \in PassedAt(base) \ DOMAIN head.tests}
        \cup {broken(t) : t \in {u \in PassedAt(base) \cap DOMAIN head.tests :
                     head.tests[u] \in {"failed", "error"}}}
    BY DEF Differential
  <2> HIDE DEF gone, broken
  <2> QED BY <2>1
<1> HIDE DEF gone, broken
<1> QED BY <1>1, <1>2

\* An outcome the base did not have is observed of the suite.
LEMMA OutcomesMade ==
    ASSUME NEW base, NEW head
    PROVE  /\ \A o \in OutcomeFindings(base, head) : IsObservation(o)
           /\ head.outcome \in INTERESTING /\ head.outcome # base.outcome =>
                \E o \in OutcomeFindings(base, head) : o.symbol = "(suite)"
<1> DEFINE made(k) == Observation(k, "(suite)", <<"outcome">>, "", "", 950)
<1>1. ASSUME NEW k \in INTERESTING
      PROVE  IsObservation(made(k)) /\ made(k).symbol = "(suite)"
  BY DEF Observation, IsObservation, SEVERITY, INTERESTING
<1>2. OutcomeFindings(base, head) =
        {made(k) : k \in ({head.outcome} \cap INTERESTING) \ {base.outcome}}
  BY DEF OutcomeFindings
<1> HIDE DEF made
<1> QED BY <1>1, <1>2

\* What the base has and the head has not is observed (surface_observations).
LEMMA SurfaceMade ==
    ASSUME NEW base, NEW head
    PROVE  /\ \A o \in SurfaceFindings(base, head) : IsObservation(o)
           /\ \A s \in DOMAIN base \ DOMAIN head :
                \E o \in SurfaceFindings(base, head) : o.symbol = s
<1> DEFINE removed(s) == Observation("api_change", s, <<FileOf[s]>>, "", "removed", 900)
           added(s) == Observation("api_change", s, <<FileOf[s]>>, "", "added", 850)
           changed(s) == Observation("api_change", s, <<FileOf[s]>>, "", "changed", 800)
           kept == {t \in DOMAIN base \cap DOMAIN head : base[t] # head[t]}
<1>1. ASSUME NEW s
      PROVE  /\ IsObservation(removed(s)) /\ removed(s).symbol = s
             /\ IsObservation(added(s)) /\ IsObservation(changed(s))
  BY DEF Observation, IsObservation, SEVERITY
<1>2. SurfaceFindings(base, head) =
        {removed(s) : s \in DOMAIN base \ DOMAIN head}
        \cup {added(s) : s \in DOMAIN head \ DOMAIN base}
        \cup {changed(s) : s \in kept}
  BY DEF SurfaceFindings
<1> HIDE DEF removed, added, changed, kept
<1> QED BY <1>1, <1>2

\* Diagnostics are observed (lint_observations).
LEMMA LintMade ==
    ASSUME NEW tool, NEW before, NEW after, NEW o \in LintFindings(tool, before, after)
    PROVE  IsObservation(o)
<1> DEFINE made(d) == Observation("lint_regression", d[1], <<d[1], d[2]>>, tool, d[3], 850)
           count == Observation("lint_regression", "(repo)", <<tool, "count">>, tool, "", 900)
           new == SelectSeq(after, LAMBDA d : d \notin Contents(before))
           shown == Contents(Prefix(new, MaxLint))
<1>1. ASSUME NEW d PROVE IsObservation(made(d)) /\ IsObservation(count)
  BY DEF Observation, IsObservation, SEVERITY
<1>2. LintFindings(tool, before, after) =
        {made(d) : d \in shown} \cup IF Len(new) > MaxLint THEN {count} ELSE {}
  BY DEF LintFindings
<1> HIDE DEF made, count, new, shown
<1> QED BY <1>1, <1>2

\* Comparing the suites tells what could not be compared (_probe).
LEMMA SuitesCompared == IInv /\ CompareSuites => IInv'
<1> SUFFICES ASSUME IInv, CompareSuites PROVE IInv'
  OBVIOUS
<1> DEFINE base == scenario.suite.base
           head == scenario.suite.head
<1>1. \A o \in Differential(base, head) \cup OutcomeFindings(base, head) : IsObservation(o)
  BY DifferentialMade, OutcomesMade
<1>2. \A o \in held' : IsObservation(o)
  BY <1>1 DEF CompareSuites
<1>3. DOMAIN scenario' = DOMAIN scenario
  BY DEF CompareSuites
<1>4. Shape' /\ Judged' /\ Stored' /\ Upheld' /\ AllRead'
  BY <1>2, <1>3, ProbingSteps DEF CompareSuites, Goes, Unranked, keeperVars, rowVars, historyVars
<1>5. /\ scenario'.suite = scenario.suite
      /\ scenario'.fork = "none" => scenario.fork = "none"
  <2>1. {"fork", "suite"} \subseteq DOMAIN scenario
    BY VerificationAssumption DEF IInv, Shape
  <2> QED BY <2>1 DEF CompareSuites
<1>6. /\ scenario.fork = "none" => [what |-> "fork point", of |-> "", ok |-> FALSE] \in coverage'
      /\ [what |-> "behaviour", of |-> "", ok |-> DOMAIN base.tests # {}] \in coverage'
  BY DEF CompareSuites, When, Note
<1>7. Complete' => scenario'.fork # "none" /\ DOMAIN scenario'.suite.base.tests # {}
  BY <1>5, <1>6 DEF Complete
<1>8. ASSUME head.outcome \in INTERESTING, head.outcome # base.outcome
      PROVE  \E o \in held' : o.symbol = "(suite)"
  <2>1. OutcomeFindings(base, head) \subseteq held'
    BY DEF CompareSuites
  <2> QED BY <1>8, <2>1, OutcomesMade
<1>9. Compared'
  BY <1>5, <1>7, <1>8 DEF Compared, Beyond, CompareSuites, Goes
<1> QED BY <1>4, <1>9 DEF IInv

\* More observations and notes, of the same pull request.
LEMMA MoreObserved ==
    ASSUME IInv, coverage \subseteq coverage', held \subseteq held', UNCHANGED scenario,
           pc \notin {"begin", "failed"}
    PROVE  /\ Complete' => scenario'.fork # "none" /\ DOMAIN scenario'.suite.base.tests # {}
           /\ \/ scenario'.suite.head.outcome \notin INTERESTING
              \/ scenario'.suite.head.outcome = scenario'.suite.base.outcome
              \/ \E o \in held' : o.symbol = "(suite)"
           /\ Complete' => Complete
<1>1. Complete' => Complete
  BY DEF Complete
<1> QED BY <1>1 DEF IInv, Compared, Beyond

\* Comparing the indexes observes what is gone (_probe).
LEMMA SurfaceCompared == IInv /\ CompareSurface => IInv'
<1> SUFFICES ASSUME IInv, CompareSurface PROVE IInv'
  OBVIOUS
<1>1. PICK lost \in IF scenario.python THEN SUBSET {"base", "head"} ELSE {{}} :
        LET index(side) == IF side \in lost THEN <<>> ELSE scenario[side].api IN
        /\ unread' = lost
        /\ held' = held \cup When(scenario.python, SurfaceFindings(index("base"), index("head")))
  BY DEF CompareSurface
<1> DEFINE before == IF "base" \in lost THEN <<>> ELSE scenario["base"].api
           after  == IF "head" \in lost THEN <<>> ELSE scenario["head"].api
<1>2. held' = held \cup When(scenario.python, SurfaceFindings(before, after))
  BY <1>1
<1>3. \A o \in SurfaceFindings(before, after) : IsObservation(o)
  BY SurfaceMade
<1>4. \A o \in held' : IsObservation(o)
  <2> HIDE DEF before, after
  <2> QED BY <1>2, <1>3 DEF IInv, Shape, When
<1>5. Shape' /\ Judged' /\ Stored' /\ Upheld' /\ AllRead'
  BY <1>4, ProbingSteps DEF CompareSurface, Goes, Unranked, keeperVars, rowVars
<1>6. Complete' => scenario.python
  <2>1. [what |-> "surface", of |-> "", ok |-> scenario.python] \in coverage'
    BY DEF CompareSurface, Note
  <2> QED BY <2>1 DEF Complete
<1>7. ASSUME scenario.python, lost = {},
             NEW x \in DOMAIN scenario.base.api, x \notin DOMAIN scenario.head.api
      PROVE  \E o \in held' : o.symbol = x
  <2>1. before = scenario.base.api /\ after = scenario.head.api
    BY <1>7
  <2> HIDE DEF before, after
  <2> QED BY <1>2, <1>7, <2>1, SurfaceMade DEF When
<1>8. Compared'
  <2>1. held \subseteq held' /\ coverage \subseteq coverage' /\ UNCHANGED scenario
    BY <1>1 DEF CompareSurface
  <2>2. pc = "surface" /\ pc' = "lint" /\ unread' = lost
    BY <1>1 DEF CompareSurface, Goes
  <2> HIDE DEF before, after
  <2>3. scenario'.python /\ unread' = {} =>
              {x \in DOMAIN scenario'.base.api : x \notin DOMAIN scenario'.head.api}
                 \subseteq {o.symbol : o \in held'}
    BY <1>7, <2>1, <2>2
  <2> QED BY <1>6, <2>1, <2>2, <2>3, MoreObserved DEF Compared, Beyond
<1> QED BY <1>5, <1>8 DEF IInv

\* Comparing the linters tells which did not run at both commits (_lint).
LEMMA LintCompared == IInv /\ CompareLint => IInv'
<1> SUFFICES ASSUME IInv, CompareLint PROVE IInv'
  OBVIOUS
<1> DEFINE tools == DOMAIN scenario.lint
           ran   == {t \in tools : scenario.lint[t].ran = {"base", "head"}}
           new == UNION {LintFindings(t, scenario.lint[t].base, scenario.lint[t].head) : t \in ran}
<1>1. held' = held \cup new /\ coverage' = coverage \cup LintNotes(ran, tools \ ran)
  BY DEF CompareLint
<1>2. \A o \in new : IsObservation(o)
  BY LintMade
<1>3. \A o \in held' : IsObservation(o)
  <2> HIDE DEF new
  <2> QED BY <1>1, <1>2 DEF IInv, Shape
<1>4. Shape' /\ Judged' /\ Stored' /\ Upheld' /\ AllRead'
  BY <1>3, ProbingSteps DEF CompareLint, Goes, Unranked, keeperVars, rowVars, historyVars
<1>5. Complete' => \A t \in tools : scenario.lint[t].ran = {"base", "head"}
  <2> SUFFICES ASSUME NEW t \in tools, t \notin ran PROVE ~Complete'
    OBVIOUS
  <2>1. [what |-> "lint", of |-> t, ok |-> FALSE] \in LintNotes(ran, tools \ ran)
    <3> HIDE DEF ran, tools
    <3> QED BY DEF LintNotes, Note
  <2> QED BY <1>1, <2>1 DEF Complete
<1>6. Compared'
  <2>1. /\ held \subseteq held' /\ coverage \subseteq coverage' /\ UNCHANGED <<scenario, unread>>
        /\ pc = "lint" /\ pc' = "ground"
    BY <1>1 DEF CompareLint, Goes, historyVars
  <2>2. /\ Complete => scenario.python
        /\ scenario.python /\ unread = {} =>
              {x \in DOMAIN scenario.base.api : x \notin DOMAIN scenario.head.api}
                 \subseteq {o.symbol : o \in held}
    BY <2>1 DEF IInv, Compared, Beyond
  <2>3. {o.symbol : o \in held} \subseteq {o.symbol : o \in held'}
    BY <2>1
  <2> HIDE DEF ran, new
  <2> QED BY <1>5, <2>1, <2>2, <2>3, MoreObserved DEF Compared, Beyond
<1> QED BY <1>4, <1>6 DEF IInv

\* Judging what was observed against a charter.
LEMMA JudgedAgainst ==
    ASSUME IInv, pc = "ground", pc' = "attach", UNCHANGED <<scenario, unread>>,
           coverage \subseteq coverage', Ids(held') = Ids(held),
           Complete' => \A o \in held' : o.relevance # ""
    PROVE  Compared'
<1>1. Complete' => Complete
  BY DEF Complete
<1>2. {o.symbol : o \in held'} = {o.symbol : o \in held}
  BY SameSymbols
<1>3. (\E o \in held : o.symbol = "(suite)") => \E o \in held' : o.symbol = "(suite)"
  BY <1>2
<1>4. /\ Complete => /\ scenario.fork # "none" /\ DOMAIN scenario.suite.base.tests # {}
                     /\ scenario.python
                     /\ \A t \in DOMAIN scenario.lint : scenario.lint[t].ran = {"base", "head"}
      /\ \/ scenario.suite.head.outcome \notin INTERESTING
         \/ scenario.suite.head.outcome = scenario.suite.base.outcome
         \/ \E o \in held : o.symbol = "(suite)"
      /\ scenario.python /\ unread = {} =>
           {x \in DOMAIN scenario.base.api : x \notin DOMAIN scenario.head.api}
              \subseteq {o.symbol : o \in held}
  BY DEF IInv, Compared, Beyond
<1> QED BY <1>1, <1>2, <1>3, <1>4 DEF Compared

\* Every observation is judged, or it is noted that there is no charter (_ground).
LEMMA GroundStep == IInv /\ (Ground \/ GroundFails) => IInv'
<1> SUFFICES ASSUME IInv, Ground \/ GroundFails PROVE IInv'
  OBVIOUS
<1>1. \A o \in held : IsObservation(o)
  BY DEF IInv, Shape
<1>2. /\ pc = "ground" /\ pc' = "attach"
      /\ UNCHANGED <<scenario, unread, verdicts, rows, cut, call_edges>>
      /\ coverage \subseteq coverage'
  BY DEF Ground, GroundFails, Measure, Goes, keeperVars, rowVars, historyVars
<1>3. \/ \E c : held' = Grounded(held, c)
      \/ held' = held /\ ~Complete'
  <2>1. CASE Ground
    BY <2>1 DEF Ground, Measure
  <2>2. CASE GroundFails /\ charter # {}
    <3> DEFINE c == CHOOSE c \in charter : TRUE
    <3>1. held' = Grounded(held, c)
      BY <2>2 DEF GroundFails
    <3> QED BY <3>1
  <2>3. CASE GroundFails /\ charter = {}
    <3>1. [what |-> "charter", of |-> "", ok |-> FALSE] \in coverage'
      BY <2>3 DEF GroundFails, Note
    <3> QED BY <2>3, <3>1 DEF GroundFails, Complete
  <2> QED BY <2>1, <2>2, <2>3
<1>4. /\ \A o \in held' : IsObservation(o)
      /\ Ids(held') = Ids(held)
      /\ Complete' => \A o \in held' : o.relevance # ""
  <2>1. ASSUME NEW c, held' = Grounded(held, c)
        PROVE  /\ Renders(held', held) /\ \A o \in held' : o.relevance # ""
    BY <1>1, <2>1, GroundedRenders
  <2>2. CASE held' = held /\ ~Complete'
    BY <1>1, <2>2
  <2> QED BY <1>3, <2>1, <2>2, RendersKeeps DEF Renders
<1>5. Shape' /\ Judged' /\ Stored' /\ Upheld' /\ AllRead'
  BY <1>2, <1>4, ProbingSteps DEF Unranked
<1>6. Compared'
  BY <1>2, <1>4, JudgedAgainst
<1> QED BY <1>5, <1>6 DEF IInv

\* Norms are attached (_attach_norms); ids and relevance stay.
LEMMA AttachStep == IInv /\ Attach => IInv'
<1> SUFFICES ASSUME IInv, Attach PROVE IInv'
  OBVIOUS
<1>1. /\ pc = "attach" /\ pc' = "rank" /\ held' = Attached(held, norms')
      /\ UNCHANGED <<scenario, unread, verdicts, rows, cut, call_edges, coverage>>
  BY DEF Attach, Goes, rowVars, historyVars
<1>2. /\ Renders(held', held)
      /\ \A q \in held' : \E o \in held : q.relevance = o.relevance
  BY <1>1, AttachedRenders DEF IInv, Shape
<1>3. Shape' /\ Judged' /\ Stored' /\ Upheld' /\ AllRead'
  BY <1>1, <1>2, ProbingSteps DEF Unranked, Renders
<1>4. Compared'
  BY <1>1, <1>2, RendersKeeps, ComparedKept DEF Beyond
<1> QED BY <1>3, <1>4 DEF IInv

\* Ranking gives scores (_pipeline); what is found is adjudicated, or that it is not is noted.
LEMMA RankStep == IInv /\ Rank => IInv'
<1> SUFFICES ASSUME IInv, Rank PROVE IInv'
  OBVIOUS
<1>1. /\ pc = "rank" /\ pc' \in {"group", "store"} /\ held' = Ranked(held, callers) /\ found' = held'
      /\ UNCHANGED <<scenario, unread, verdicts, rows, cut, call_edges, packets, packet, moved>>
      /\ coverage \subseteq coverage'
      /\ pc' = "store" => held = {} \/ [what |-> "adjudication", of |-> "", ok |-> FALSE] \in coverage'
  BY DEF Rank, Goes, keeperVars, rowVars, Note
<1>2. IsFiniteSet(call_edges) /\ \A o \in held : IsObservation(o)
  BY DEF IInv, Shape
<1>3. callers' = callers
  BY <1>1 DEF callers
<1>4. /\ Renders(held', held)
      /\ \A q \in held' : \E o \in held :
           /\ Id(q) = Id(o) /\ q.confidence = o.confidence /\ q.relevance = o.relevance
           /\ q.score = Score(o, callers)
  <2> DEFINE all == Ranked(held, CallerCounts(call_edges))
  <2>1. /\ Renders(all, held)
        /\ \A q \in all : \E o \in held :
             /\ Id(q) = Id(o) /\ q.confidence = o.confidence /\ q.relevance = o.relevance
             /\ q.score = Score(o, CallerCounts(call_edges))
    BY <1>2, RankedRenders
  <2>2. held' = all
    BY <1>1 DEF callers
  <2> HIDE DEF all
  <2> QED BY <2>1, <2>2 DEF callers
<1>5. \A q \in held' : IsObservation(q) /\ q.score = Score(q, callers)
  <2> SUFFICES ASSUME NEW q \in held' PROVE q.score = Score(q, callers)
    BY <1>4 DEF Renders
  <2>1. PICK o \in held : /\ Id(q) = Id(o) /\ q.confidence = o.confidence
                          /\ q.relevance = o.relevance /\ q.score = Score(o, callers)
    BY <1>4
  <2>2. q.kind = o.kind /\ q.symbol = o.symbol
    BY <2>1 DEF Id
  <2> QED BY <2>1, <2>2 DEF Score
<1>6. verdicts = NoVerdicts
  BY <1>1 DEF IInv, Judged, Unranked
<1>7. Shape'
  BY <1>1, <1>5 DEF IInv, Shape, Stages, Ending
<1>8. Judged'
  BY <1>1, <1>6 DEF Judged, NoVerdicts
<1>9. Stored'
  BY <1>1 DEF IInv, Stored
<1>10. Upheld'
  <2>1. ASSUME pc' = "group"
        PROVE  held' = found' /\ \A p \in found' : p.score = Score(p, callers)'
    <3>1. \A p : Score(p, callers)' = Score(p, callers)
      BY <1>3 DEF Score
    <3> QED BY <1>1, <1>5, <3>1
  <2>2. ASSUME pc' = "store"
        PROVE  /\ Ids(found') = Ids(held')
               /\ \A o \in held' : \E p \in found' :
                    /\ Id(o) = Id(p) /\ o.confidence = Halved(p)' /\ o.score <= p.score
    <3>1. Misleading' = {}
      BY <1>1, <1>6 DEF Misleading, NoVerdicts
    <3>2. \A o \in held' : o.confidence = Halved(o)' /\ o.score <= o.score
      BY <1>5, <3>1 DEF Halved, IsObservation
    <3> QED BY <1>1, <3>2
  <2> QED BY <1>1, <2>1, <2>2 DEF Upheld, Reading, Ending, Ids, Id
<1>11. Compared'
  BY <1>1, <1>4, RendersKeeps, ComparedKept DEF Beyond
<1>12. AllRead'
  <2>1. pc' = "store" /\ Complete' => held' = {}
    BY <1>1 DEF Complete, Ranked
  <2> QED BY <1>1, <2>1 DEF AllRead, Reading, Ending
<1> QED BY <1>7, <1>8, <1>9, <1>10, <1>11, <1>12 DEF IInv

\* What is shown is in a packet (_adjudicate).
LEMMA GroupStep == IInv /\ Group => IInv'
<1> SUFFICES ASSUME IInv, Group PROVE IInv'
  OBVIOUS
<1>1. /\ pc = "group" /\ pc' = "gather"
      /\ verdicts' = [verdicts EXCEPT !.shown = UNION {Ids(p.shown) : p \in packets'}]
      /\ UNCHANGED <<scenario, held, coverage, found, unread, moved, cut, rows, call_edges>>
  BY DEF Group, Goes, keeperVars, rowVars, historyVars
<1>2. Shape' /\ Stored' /\ Upheld' /\ Compared'
  BY <1>1, ReadingSteps DEF Reading
<1>3. verdicts = NoVerdicts
  BY <1>1 DEF IInv, Judged
<1> DEFINE shown == UNION {Ids(p.shown) : p \in packets'}
<1>4. verdicts' = [adjudications |-> {}, suggestions |-> {}, answered |-> {}, rejected |-> {},
                   skipped |-> {}, shown |-> shown]
  BY <1>1, <1>3 DEF NoVerdicts
<1>5. Judged'
  <2> HIDE DEF shown
  <2>1. /\ verdicts'.adjudications = {} /\ verdicts'.suggestions = {}
        /\ verdicts'.answered = {} /\ verdicts'.rejected = {}
        /\ verdicts'.skipped = {} /\ verdicts'.shown = shown
    BY <1>4
  <2> QED BY <1>1, <1>4, <2>1 DEF Judged, Unranked
<1>6. AllRead'
  <2>1. verdicts'.shown = shown
    <3> HIDE DEF shown
    <3> QED BY <1>4
  <2> QED BY <1>1, <2>1 DEF AllRead, Ending
<1> QED BY <1>2, <1>5, <1>6 DEF IInv

\* Evidence is gathered; nothing was read yet (_adjudicate).
LEMMA GatherStep == IInv /\ Gather => IInv'
<1> SUFFICES ASSUME IInv, Gather PROVE IInv'
  OBVIOUS
<1>1. /\ pc = "gather" /\ pc' = "read"
      /\ UNCHANGED <<scenario, held, coverage, packets, packet, verdicts, found, unread, moved,
                     cut, rows, call_edges>>
  BY DEF Gather, Goes, keeperVars, rowVars, historyVars
<1>2. Shape' /\ Stored' /\ Upheld' /\ Compared'
  BY <1>1, ReadingSteps DEF Reading
<1>3. Judged'
  BY <1>1 DEF IInv, Judged, Unranked, Beyond
<1>4. AllRead'
  BY <1>1 DEF IInv, AllRead, Reading, Ending
<1> QED BY <1>2, <1>3, <1>4 DEF IInv

\* The fields of what was answered so far.
LEMMA VerdictFields ==
    ASSUME IInv, NEW x
    PROVE  /\ [verdicts EXCEPT !.skipped = x] =
                [adjudications |-> verdicts.adjudications, suggestions |-> verdicts.suggestions,
                 answered |-> verdicts.answered, rejected |-> verdicts.rejected,
                 skipped |-> x, shown |-> verdicts.shown]
           /\ [verdicts EXCEPT !.rejected = x] =
                [adjudications |-> verdicts.adjudications, suggestions |-> verdicts.suggestions,
                 answered |-> verdicts.answered, rejected |-> x,
                 skipped |-> verdicts.skipped, shown |-> verdicts.shown]
<1>1. verdicts = [adjudications |-> verdicts.adjudications, suggestions |-> verdicts.suggestions,
                  answered |-> verdicts.answered, rejected |-> verdicts.rejected,
                  skipped |-> verdicts.skipped, shown |-> verdicts.shown]
  BY DEF IInv, Judged
<1> QED BY <1>1

\* A group that is skipped is remembered as skipped (adjudicate).
LEMMA SkipStep == IInv /\ SkipPacket => IInv'
<1> SUFFICES ASSUME IInv, SkipPacket PROVE IInv'
  OBVIOUS
<1> DEFINE x == verdicts.skipped \cup {NextPacket.key}
<1>1. /\ pc = "read" /\ pc' = "read"
      /\ verdicts' = [verdicts EXCEPT !.skipped = x]
      /\ UNCHANGED <<scenario, held, coverage, packet, found, unread, moved, cut, rows, call_edges>>
  BY DEF SkipPacket, keeperVars, rowVars, historyVars
<1>2. Shape' /\ Stored' /\ Upheld' /\ Compared'
  BY <1>1, ReadingSteps DEF Reading
<1>3. x # {}
  OBVIOUS
<1> HIDE DEF x
<1>4. verdicts' =
        [adjudications |-> verdicts.adjudications, suggestions |-> verdicts.suggestions,
         answered |-> verdicts.answered, rejected |-> verdicts.rejected,
         skipped |-> x, shown |-> verdicts.shown]
  BY <1>1, VerdictFields
<1>5. Judged'
  BY <1>1, <1>4 DEF IInv, Judged, Unranked, Beyond
<1>6. AllRead'
  BY <1>1, <1>3, <1>4 DEF AllRead, Ending
<1> QED BY <1>2, <1>5, <1>6 DEF IInv

\* An answer that is not JSON rejects all it was asked about (adjudicate).
LEMMA GarbledStep == IInv /\ Garbled => IInv'
<1> SUFFICES ASSUME IInv, Garbled PROVE IInv'
  OBVIOUS
<1> DEFINE lost == Reject(Ids(NextPacket.shown), "not JSON")
           x == verdicts.rejected \cup lost
<1>1. /\ pc = "read" /\ pc' = "read" /\ packets' = packets \ {NextPacket}
      /\ verdicts' = [verdicts EXCEPT !.rejected = x]
      /\ UNCHANGED <<scenario, held, coverage, packet, found, unread, moved, cut, rows, call_edges>>
  BY DEF Garbled, keeperVars, rowVars, historyVars
<1>2. Shape' /\ Stored' /\ Upheld' /\ Compared'
  BY <1>1, ReadingSteps DEF Reading
<1>3. x = {} => verdicts.rejected = {} /\ Ids(NextPacket.shown) = {}
  BY DEF Reject
<1> HIDE DEF x
<1>4. verdicts' =
        [adjudications |-> verdicts.adjudications, suggestions |-> verdicts.suggestions,
         answered |-> verdicts.answered, rejected |-> x,
         skipped |-> verdicts.skipped, shown |-> verdicts.shown]
  BY <1>1, VerdictFields
<1>5. Judged'
  BY <1>1, <1>4 DEF IInv, Judged, Unranked, Beyond
<1>6. AllRead'
  <2> SUFFICES ASSUME x = {}, verdicts.skipped = {}, NEW id \in verdicts.shown
               PROVE  \/ \E a \in verdicts.adjudications : a.id = id
                      \/ \E p \in packets' : id \in Ids(p.shown)
    BY <1>1, <1>4 DEF AllRead, Ending
  <2>1. \/ \E a \in verdicts.adjudications : a.id = id
        \/ \E p \in packets : id \in Ids(p.shown)
    BY <1>1, <1>3 DEF IInv, AllRead, Reading
  <2> QED BY <1>1, <1>3, <2>1
<1> QED BY <1>2, <1>5, <1>6 DEF IInv

\* What the packet shows is waiting for its answer (adjudicate).
LEMMA AskStep == IInv /\ Ask => IInv'
<1> SUFFICES ASSUME IInv, Ask PROVE IInv'
  OBVIOUS
<1>1. /\ pc = "read" /\ pc' = "answer" /\ packets' = packets \ {NextPacket} /\ packet' = {NextPacket}
      /\ UNCHANGED <<scenario, held, coverage, verdicts, found, unread, moved, cut, rows, call_edges>>
  BY DEF Ask, Goes, keeperVars, rowVars, historyVars
<1>2. Shape' /\ Stored' /\ Upheld' /\ Compared'
  BY <1>1, ReadingSteps DEF Reading
<1>3. Judged'
  BY <1>1 DEF IInv, Judged, Unranked, Beyond
<1>4. verdicts.answered = {}
  BY <1>1 DEF IInv, Judged, Beyond
<1>5. Shown' = Ids(NextPacket.shown)
  BY <1>1 DEF Shown
<1>6. AllRead'
  <2> SUFFICES ASSUME verdicts.rejected = {}, verdicts.skipped = {}, NEW id \in verdicts.shown
               PROVE  \/ \E a \in verdicts.adjudications : a.id = id
                      \/ \E p \in packets' : id \in Ids(p.shown)
                      \/ id \in Shown'
    BY <1>1, <1>4 DEF AllRead, Ending
  <2>1. \/ \E a \in verdicts.adjudications : a.id = id
        \/ \E p \in packets : id \in Ids(p.shown)
    BY <1>1 DEF IInv, AllRead, Reading
  <2> QED BY <1>1, <1>5, <2>1
<1> QED BY <1>2, <1>3, <1>6 DEF IInv

\* An item is rejected, or its adjudication has a citation that resolves (_take).
LEMMA TakeStep ==
    ASSUME IInv, NEW id \in Ids(held), NEW assessment, NEW cited, NEW suggested, NEW backing,
           Take(id, assessment, cited, suggested, backing)
    PROVE  IInv'
<1> DEFINE kept == {c \in cited : Resolves(c, evidence)}
           backed == {c \in backing : Resolves(c, evidence)}
           took == [id |-> id, assessment |-> assessment, cites |-> kept]
           told == When(suggested /\ backed # {}, {[id |-> id, cites |-> backed]})
           lost == When(suggested /\ backed = {}, Reject({id}, "unbacked"))
           answered == verdicts.answered \cup {id}
<1>1. /\ pc = "answer" /\ pc' = "answer"
      /\ UNCHANGED <<scenario, held, coverage, packets, packet, found, unread, moved, cut, rows,
                     call_edges>>
  BY DEF Take, keeperVars, rowVars, historyVars
<1>2. Shape' /\ Stored' /\ Upheld' /\ Compared'
  BY <1>1, ReadingSteps DEF Reading
<1>3. /\ verdicts = [adjudications |-> verdicts.adjudications, suggestions |-> verdicts.suggestions,
                     answered |-> verdicts.answered, rejected |-> verdicts.rejected,
                     skipped |-> verdicts.skipped, shown |-> verdicts.shown]
      /\ \A a \in verdicts.adjudications : a.id \in Ids(held) /\ a.cites # {}
      /\ \A s \in verdicts.suggestions : \E a \in verdicts.adjudications : a.id = s.id
  BY DEF IInv, Judged
<1>4. ASSUME NEW why,
             verdicts' = [verdicts EXCEPT !.answered = @ \cup {id},
                                          !.rejected = @ \cup Reject({id}, why)]
      PROVE  Judged' /\ AllRead'
  <2> DEFINE x == verdicts.rejected \cup Reject({id}, why)
  <2>1. x # {}
    BY DEF Reject
  <2>2. verdicts' = [verdicts EXCEPT !.answered = answered, !.rejected = x]
    BY <1>4
  <2> HIDE DEF x, answered
  <2>3. verdicts' =
          [adjudications |-> verdicts.adjudications, suggestions |-> verdicts.suggestions,
           answered |-> answered, rejected |-> x,
           skipped |-> verdicts.skipped, shown |-> verdicts.shown]
    BY <1>3, <2>2
  <2>4. Judged'
    BY <1>1, <1>3, <2>3 DEF Judged, Unranked, Beyond
  <2>5. AllRead'
    BY <1>1, <2>1, <2>3 DEF AllRead, Ending
  <2> QED BY <2>4, <2>5
<1>5. ASSUME kept # {},
             verdicts' = [verdicts EXCEPT !.answered = @ \cup {id},
                                          !.adjudications = @ \cup {took},
                                          !.suggestions = @ \cup told,
                                          !.rejected = @ \cup lost]
      PROVE  Judged' /\ AllRead'
  <2> DEFINE x == verdicts.rejected \cup lost
             y == verdicts.adjudications \cup {took}
             z == verdicts.suggestions \cup told
  <2>1. verdicts' = [verdicts EXCEPT !.answered = answered, !.adjudications = y,
                                     !.suggestions = z, !.rejected = x]
    BY <1>5
  <2>2. \A a \in y : a.id \in Ids(held) /\ a.cites # {}
    BY <1>3, <1>5
  <2>3. \A s \in z : \E a \in y : a.id = s.id
    <3>1. \A s \in told : s.id = id
      BY DEF When
    <3>2. took \in y /\ took.id = id
      OBVIOUS
    <3> HIDE DEF told, took
    <3> QED BY <1>3, <3>1, <3>2
  <2>4. x = {} => verdicts.rejected = {}
    OBVIOUS
  <2>5. \A a \in verdicts.adjudications : a \in y
    OBVIOUS
  <2>6. took \in y /\ took.id = id
    OBVIOUS
  <2>7. \A i : i \in answered <=> i \in verdicts.answered \/ i = id
    OBVIOUS
  <2> HIDE DEF x, y, z, answered, took
  <2>8. verdicts' =
          [adjudications |-> y, suggestions |-> z, answered |-> answered, rejected |-> x,
           skipped |-> verdicts.skipped, shown |-> verdicts.shown]
    BY <1>3, <2>1
  <2>9. /\ verdicts'.adjudications = y /\ verdicts'.suggestions = z
        /\ verdicts'.answered = answered /\ verdicts'.rejected = x
        /\ verdicts'.skipped = verdicts.skipped /\ verdicts'.shown = verdicts.shown
    BY <2>8
  <2>10. Judged'
    BY <1>1, <2>2, <2>3, <2>8, <2>9 DEF Judged, Unranked, Beyond
  <2>11. AllRead'
    <3> SUFFICES ASSUME x = {}, verdicts.skipped = {}, NEW i \in verdicts.shown
                 PROVE  \/ \E a \in y : a.id = i
                        \/ \E p \in packets : i \in Ids(p.shown)
                        \/ i \in Shown \ answered
      BY <1>1, <2>9 DEF AllRead, Ending, Shown
    <3>1. \/ \E a \in verdicts.adjudications : a.id = i
          \/ \E p \in packets : i \in Ids(p.shown)
          \/ i \in Shown \ verdicts.answered
      BY <1>1, <2>4 DEF IInv, AllRead, Reading
    <3> QED BY <2>5, <2>6, <2>7, <3>1
  <2> QED BY <2>10, <2>11
<1>6. Judged' /\ AllRead'
  <2>1. CASE assessment = "unusable"
    <3>1. verdicts' = [verdicts EXCEPT !.answered = @ \cup {id},
                                       !.rejected = @ \cup Reject({id}, "unusable")]
      BY <2>1 DEF Take
    <3> QED BY <1>4, <3>1
  <2>2. CASE assessment # "unusable" /\ kept = {}
    <3>1. verdicts' = [verdicts EXCEPT !.answered = @ \cup {id},
                                       !.rejected = @ \cup Reject({id}, "uncited")]
      BY <2>2 DEF Take
    <3> QED BY <1>4, <3>1
  <2>3. CASE assessment # "unusable" /\ kept # {}
    <3>1. verdicts' = [verdicts EXCEPT !.answered = @ \cup {id},
                                       !.adjudications = @ \cup {took},
                                       !.suggestions = @ \cup told,
                                       !.rejected = @ \cup lost]
      BY <2>3 DEF Take
    <3> QED BY <1>5, <2>3, <3>1
  <2> QED BY <2>1, <2>2, <2>3
<1> QED BY <1>2, <1>6 DEF IInv

\* What the answer did not address is rejected (adjudicate).
LEMMA EndAnswerStep == IInv /\ EndAnswer => IInv'
<1> SUFFICES ASSUME IInv, EndAnswer PROVE IInv'
  OBVIOUS
<1> DEFINE left == Shown \ verdicts.answered
           x == verdicts.rejected \cup Reject(left, "unaddressed")
<1>1. /\ pc = "answer" /\ pc' = "read" /\ packet' = {}
      /\ verdicts' = [verdicts EXCEPT !.rejected = x, !.answered = {}]
      /\ UNCHANGED <<scenario, held, coverage, packets, found, unread, moved, cut, rows, call_edges>>
  BY DEF EndAnswer, Goes, keeperVars, rowVars, historyVars
<1>2. Shape' /\ Stored' /\ Upheld' /\ Compared'
  BY <1>1, ReadingSteps DEF Reading
<1>3. /\ verdicts = [adjudications |-> verdicts.adjudications, suggestions |-> verdicts.suggestions,
                     answered |-> verdicts.answered, rejected |-> verdicts.rejected,
                     skipped |-> verdicts.skipped, shown |-> verdicts.shown]
      /\ \A a \in verdicts.adjudications : a.id \in Ids(held) /\ a.cites # {}
      /\ \A s \in verdicts.suggestions : \E a \in verdicts.adjudications : a.id = s.id
  BY DEF IInv, Judged
<1>4. x = {} => verdicts.rejected = {} /\ left = {}
  BY DEF Reject
<1> HIDE DEF x
<1>5. verdicts' =
        [adjudications |-> verdicts.adjudications, suggestions |-> verdicts.suggestions,
         answered |-> {}, rejected |-> x,
         skipped |-> verdicts.skipped, shown |-> verdicts.shown]
  BY <1>1, <1>3
<1>6. Judged'
  BY <1>1, <1>3, <1>5 DEF Judged, Unranked
<1>7. AllRead'
  <2> SUFFICES ASSUME x = {}, verdicts.skipped = {}, NEW i \in verdicts.shown
               PROVE  \/ \E a \in verdicts.adjudications : a.id = i
                      \/ \E p \in packets : i \in Ids(p.shown)
    BY <1>1, <1>5 DEF AllRead, Ending
  <2> QED BY <1>1, <1>4 DEF IInv, AllRead, Reading
<1> QED BY <1>2, <1>6, <1>7 DEF IInv

\* Ranking the demoted promotes nothing, and what was not read is noted (_adjudicate).
LEMMA SettleStep == IInv /\ Settle => IInv'
<1> SUFFICES ASSUME IInv, Settle PROVE IInv'
  OBVIOUS
<1>1. /\ pc = "read" /\ pc' = "store" /\ packets = {} /\ held' = Ranked(Demoted, callers)
      /\ UNCHANGED <<scenario, verdicts, found, unread, moved, cut, rows, call_edges>>
      /\ coverage \subseteq coverage'
  BY DEF Settle, Goes, keeperVars, rowVars, historyVars
<1>2. IsFiniteSet(call_edges) /\ \A o \in held : IsObservation(o)
  BY DEF IInv, Shape
<1>3. /\ Renders(Demoted, held)
      /\ \A d \in Demoted : \E o \in held :
           /\ Id(d) = Id(o) /\ d.confidence = Halved(o) /\ d.relevance = o.relevance
           /\ d.confidence <= o.confidence
  BY <1>2, DemotedRenders
<1>4. /\ Renders(held', Demoted)
      /\ \A q \in held' : \E d \in Demoted :
           /\ Id(q) = Id(d) /\ q.confidence = d.confidence /\ q.relevance = d.relevance
           /\ q.score = Score(d, callers)
  <2> DEFINE all == Ranked(Demoted, CallerCounts(call_edges))
  <2>1. /\ Renders(all, Demoted)
        /\ \A q \in all : \E d \in Demoted :
             /\ Id(q) = Id(d) /\ q.confidence = d.confidence /\ q.relevance = d.relevance
             /\ q.score = Score(d, CallerCounts(call_edges))
    <3>1. \A d \in Demoted : IsObservation(d)
      BY <1>3 DEF Renders
    <3> QED BY <1>2, <3>1, RankedRenders
  <2>2. held' = all
    BY <1>1 DEF callers
  <2> HIDE DEF all
  <2> QED BY <2>1, <2>2 DEF callers
<1>5. Ids(held') = Ids(held) /\ \A q \in held' : IsObservation(q)
  <2>1. Ids(Demoted) = Ids(held) /\ Ids(held') = Ids(Demoted)
    BY <1>3, <1>4, RendersKeeps
  <2> QED BY <1>4, <2>1 DEF Renders
<1>6. \A q \in held' : \E o \in held :
        /\ Id(q) = Id(o) /\ q.confidence = Halved(o) /\ q.relevance = o.relevance
        /\ q.score <= Score(o, callers)
  <2> SUFFICES ASSUME NEW q \in held'
               PROVE  \E o \in held :
                        /\ Id(q) = Id(o) /\ q.confidence = Halved(o) /\ q.relevance = o.relevance
                        /\ q.score <= Score(o, callers)
    OBVIOUS
  <2>1. PICK d \in Demoted :
          /\ Id(q) = Id(d) /\ q.confidence = d.confidence /\ q.relevance = d.relevance
          /\ q.score = Score(d, callers)
    BY <1>4
  <2>2. PICK o \in held :
          /\ Id(d) = Id(o) /\ d.confidence = Halved(o) /\ d.relevance = o.relevance
          /\ d.confidence <= o.confidence
    BY <1>3
  <2>3. IsObservation(d) /\ IsObservation(o) /\ d.kind = o.kind /\ d.symbol = o.symbol
    BY <1>2, <1>3, <2>2 DEF Renders, Id
  <2>4. Score(d, callers) <= Score(o, callers)
    <3>1. Centrality(o.symbol, callers) \in Nat
      BY <1>2, CountsAreNumbers DEF callers
    <3> QED BY <2>2, <2>3, <3>1, ScoreFalls
  <2> QED BY <2>1, <2>2, <2>4
<1>7. Shape'
  BY <1>1, <1>5 DEF IInv, Shape, Stages, Ending
<1>8. Judged'
  BY <1>1, <1>5 DEF IInv, Judged, Unranked, Beyond
<1>9. Stored'
  BY <1>1 DEF IInv, Stored
<1>10. Upheld'
  <2>1. held = found /\ (~moved => \A p \in found : p.score = Score(p, callers))
    BY <1>1 DEF IInv, Upheld, Reading
  <2>2. \A p : Halved(p)' = Halved(p)
    BY <1>1 DEF Halved, Misleading
  <2>3. \A q \in held' : \E p \in found' :
          /\ Id(q) = Id(p) /\ q.confidence = Halved(p)'
          /\ ~moved' => q.score <= p.score
    BY <1>1, <1>6, <2>1, <2>2
  <2> QED BY <1>1, <1>5, <2>1, <2>3 DEF Upheld, Reading
<1>11. Compared'
  BY <1>1, <1>5, <1>6, ComparedKept DEF Beyond
<1>12. AllRead'
  <2>1. Complete' => /\ verdicts.rejected = {} /\ verdicts.skipped = {}
                     /\ Ids(held) \subseteq verdicts.shown
    <3>1. ASSUME NEW r \in verdicts.rejected PROVE ~Complete'
      <4>1. [what |-> "discarded", of |-> r.why, ok |-> FALSE] \in coverage'
        BY <3>1 DEF Settle, Note
      <4> QED BY <4>1 DEF Complete
    <3>2. ASSUME NEW key \in verdicts.skipped PROVE ~Complete'
      <4>1. [what |-> "group", of |-> key, ok |-> FALSE] \in coverage'
        BY <3>2 DEF Settle, Note
      <4> QED BY <4>1 DEF Complete
    <3>3. ASSUME Ids(held) \ verdicts.shown # {} PROVE ~Complete'
      <4>1. [what |-> "beyond", of |-> "", ok |-> FALSE] \in coverage'
        BY <3>3 DEF Settle, Note, When
      <4> QED BY <4>1 DEF Complete
    <3> QED BY <3>1, <3>2, <3>3
  <2>2. verdicts.rejected = {} /\ verdicts.skipped = {} =>
          \A id \in verdicts.shown : \E a \in verdicts.adjudications : a.id = id
    BY <1>1 DEF IInv, AllRead, Reading
  <2>3. \A o \in held' : Id(o) \in Ids(held)
    BY <1>5 DEF Ids
  <2> QED BY <1>1, <2>1, <2>2, <2>3 DEF AllRead, Reading
<1> QED BY <1>7, <1>8, <1>9, <1>10, <1>11, <1>12 DEF IInv

\* The ids of a table to which entries are written.
LEMMA Upserted ==
    ASSUME NEW table, NEW entries
    PROVE  /\ entries \subseteq Upsert(table, entries)
           /\ table = {} => Upsert(table, entries) = entries
           /\ \A r \in Upsert(table, entries) : r \in table \/ r \in entries
           /\ \A r \in table : \E q \in Upsert(table, entries) : q.id = r.id
<1>1. ASSUME NEW r \in table PROVE \E q \in Upsert(table, entries) : q.id = r.id
  BY DEF Upsert
<1> QED BY <1>1 DEF Upsert

\* What is stored leaves no suggestion without its adjudication, and no adjudication
\* without its observation.
LEMMA StoredToKeeps ==
    ASSUME IInv, NEW O, NEW A, NEW S, StoredTo(O, A, S),
           \A s \in S : \E a \in A : a.id = s.id,
           \A a \in A : \E o \in O : Id(o) = a.id
    PROVE  /\ \A s \in rows'.suggestions : \E a \in rows'.adjudications : a.id = s.id
           /\ \A a \in rows'.adjudications : \E r \in rows'.observations : r.id = a.id
<1> DEFINE entries == {RowOf(o) : o \in O}
<1>1. /\ rows'.observations = Upsert(rows.observations, entries)
      /\ rows'.adjudications = Upsert(rows.adjudications, A)
      /\ rows'.suggestions = Upsert(rows.suggestions, S)
  BY DEF StoredTo
<1>2. /\ \A s \in rows.suggestions : \E a \in rows.adjudications : a.id = s.id
      /\ \A a \in rows.adjudications : \E r \in rows.observations : r.id = a.id
  BY DEF IInv, Stored
<1>3. \A a \in A : \E r \in entries : r.id = a.id
  <2>1. \A o \in O : RowOf(o) \in entries /\ RowOf(o).id = Id(o)
    BY DEF RowOf
  <2> HIDE DEF entries
  <2> QED BY <2>1
<1> HIDE DEF entries
<1>4. ASSUME NEW T, NEW U, NEW X, NEW Y,
             \A s \in T : \E a \in U : a.id = s.id, \A s \in X : \E a \in Y : a.id = s.id
      PROVE  \A s \in Upsert(T, X) : \E a \in Upsert(U, Y) : a.id = s.id
  <2>1. /\ Y \subseteq Upsert(U, Y)
        /\ \A r \in U : \E q \in Upsert(U, Y) : q.id = r.id
        /\ \A r \in Upsert(T, X) : r \in T \/ r \in X
    BY Upserted
  <2> QED BY <1>4, <2>1
<1>5. \A s \in rows'.suggestions : \E a \in rows'.adjudications : a.id = s.id
  BY <1>1, <1>2, <1>4
<1>6. \A a \in rows'.adjudications : \E r \in rows'.observations : r.id = a.id
  BY <1>1, <1>2, <1>3, <1>4
<1> QED BY <1>5, <1>6

\* The rows of a run that was not cut short are exactly its own (_pipeline).
LEMMA StoreStep == IInv /\ Store => IInv'
<1> SUFFICES ASSUME IInv, Store PROVE IInv'
  OBVIOUS
<1>1. /\ pc = "store" /\ pc' = "done"
      /\ StoredTo(held, verdicts.adjudications, verdicts.suggestions)
      /\ UNCHANGED <<scenario, held, coverage, verdicts, found, unread, moved, cut, call_edges>>
  BY DEF Store, Goes, keeperVars, historyVars
<1>2. Shape' /\ Judged'
  BY <1>1 DEF IInv, Shape, Judged, Stages, Ending, Unranked, Beyond
<1>3. Stored'
  <2> DEFINE entries == {RowOf(o) : o \in held}
  <2>1. /\ \A s \in rows'.suggestions : \E a \in rows'.adjudications : a.id = s.id
        /\ \A a \in rows'.adjudications : \E r \in rows'.observations : r.id = a.id
    <3>1. /\ \A s \in verdicts.suggestions : \E a \in verdicts.adjudications : a.id = s.id
          /\ \A a \in verdicts.adjudications : \E o \in held : Id(o) = a.id
      BY DEF IInv, Judged, Ids
    <3> QED BY <1>1, <3>1, StoredToKeeps
  <2>2. /\ rows'.observations = Upsert(rows.observations, entries)
        /\ rows'.adjudications = Upsert(rows.adjudications, verdicts.adjudications)
    BY <1>1 DEF StoredTo
  <2>3. ~cut => rows.observations = {} /\ rows.adjudications = {}
    BY <1>1 DEF IInv, Stored
  <2>4. entries' = entries
    BY <1>1 DEF RowOf, Id
  <2> HIDE DEF entries
  <2>5. /\ entries \subseteq rows'.observations
        /\ verdicts.adjudications \subseteq rows'.adjudications
        /\ ~cut => rows'.observations = entries /\ rows'.adjudications = verdicts.adjudications
    BY <2>2, <2>3, Upserted
  <2> QED BY <1>1, <2>1, <2>4, <2>5 DEF Stored, entries
<1>4. Upheld' /\ AllRead'
  BY <1>1 DEF IInv, Upheld, AllRead, Halved, Misleading, Complete, Reading, Ending
<1>5. Compared'
  BY <1>1, ComparedKept DEF Beyond
<1> QED BY <1>2, <1>3, <1>4, <1>5 DEF IInv

\* A run that failed says nothing of what it found (execute).
LEMMA FailsStep == IInv /\ Fails => IInv'
<1> SUFFICES ASSUME IInv, Fails PROVE IInv'
  OBVIOUS
<1>1. /\ pc # "done" /\ pc' = "failed"
      /\ UNCHANGED <<scenario, held, verdicts, rows, cut, call_edges>>
  BY DEF Fails, Goes, keeperVars, rowVars, historyVars
<1>2. Shape' /\ Judged' /\ Stored'
  BY <1>1 DEF IInv, Shape, Judged, Stored, Stages, Unranked, Beyond
<1>3. Upheld' /\ Compared' /\ AllRead'
  BY <1>1 DEF Upheld, Compared, AllRead, Beyond, Reading, Ending
<1> QED BY <1>2, <1>3 DEF IInv

\* A process that ends while it stores leaves no row without the row it is about (recover).
LEMMA CrashStep == IInv /\ Crash => IInv'
<1> SUFFICES ASSUME IInv, Crash PROVE IInv'
  OBVIOUS
<1>1. /\ pc # "done" /\ pc' = "begin" /\ held' = {} /\ verdicts' = NoVerdicts
      /\ UNCHANGED <<scenario, call_edges>>
  BY DEF Crash, Goes, keeperVars
<1>2. Shape' /\ Judged'
  BY <1>1 DEF IInv, Shape, Judged, NoVerdicts, Stages, Unranked
<1>3. Stored'
  <2>1. /\ \A s \in verdicts.suggestions : \E a \in verdicts.adjudications : a.id = s.id
        /\ \A a \in verdicts.adjudications : \E o \in held : Id(o) = a.id
    BY DEF IInv, Judged, Ids
  <2>2. CASE UNCHANGED <<rows, cut>>
    BY <1>1, <2>2 DEF IInv, Stored
  <2>3. ASSUME cut' = TRUE,
               NEW O, NEW A, NEW S, StoredTo(O, A, S),
               \A s \in S : \E a \in A : a.id = s.id,
               \A a \in A : \E o \in O : Id(o) = a.id
        PROVE  Stored'
    <3>1. /\ \A s \in rows'.suggestions : \E a \in rows'.adjudications : a.id = s.id
          /\ \A a \in rows'.adjudications : \E r \in rows'.observations : r.id = a.id
      BY <2>3, StoredToKeeps
    <3> QED BY <1>1, <2>3, <3>1 DEF Stored
  <2>4. ASSUME cut' = TRUE, NEW n, StoredTo({o \in held : AboveIt(o, held) < n}, {}, {})
        PROVE  Stored'
    <3> DEFINE O == {o \in held : AboveIt(o, held) < n}
    <3>1. StoredTo(O, {}, {})
      BY <2>4
    <3> HIDE DEF O
    <3> QED BY <2>3, <2>4, <3>1
  <2>5. ASSUME cut' = TRUE, NEW some \in SUBSET verdicts.adjudications, StoredTo(held, some, {})
        PROVE  Stored'
    BY <2>1, <2>3, <2>5
  <2>6. ASSUME cut' = TRUE, NEW some \in SUBSET verdicts.suggestions,
               StoredTo(held, verdicts.adjudications, some)
        PROVE  Stored'
    BY <2>1, <2>3, <2>6
  <2> QED BY <2>2, <2>4, <2>5, <2>6 DEF Crash
<1>4. Upheld' /\ Compared' /\ AllRead'
  BY <1>1 DEF Upheld, Compared, AllRead, Beyond, Reading, Ending
<1> QED BY <1>2, <1>3, <1>4 DEF IInv

\* An atlas stored meanwhile changes the callers, which is remembered (_rebuild).
LEMMA KeepersStep == IInv /\ Keepers => IInv'
<1> SUFFICES ASSUME IInv, Keepers PROVE IInv'
  OBVIOUS
<1>1. /\ pc \notin {"done", "failed"}
      /\ UNCHANGED <<scenario, pc, held, coverage, packets, packet, verdicts, rows, found, unread,
                     cut>>
  BY DEF Keepers, rowVars
<1>2. \/ UNCHANGED <<call_edges, moved>>
      \/ /\ moved' = (moved \/ found # {})
         /\ \E c \in DOMAIN Checkout : call_edges' = call_edges \cup Spelled[c]
  BY DEF Keepers, PutCallEdges
<1>3. IsFiniteSet(call_edges')
  <2>1. IsFiniteSet(call_edges)
    BY DEF IInv, Shape
  <2>2. ASSUME NEW c \in DOMAIN Checkout, call_edges' = call_edges \cup Spelled[c]
        PROVE  IsFiniteSet(call_edges')
    <3>1. IsFiniteSet(UNION {Spelled[d] : d \in {c}})
      BY SpelledIsFinite
    <3>2. UNION {Spelled[d] : d \in {c}} = Spelled[c]
      OBVIOUS
    <3>3. IsFiniteSet(Spelled[c])
      BY <3>1, <3>2
    <3> QED BY <2>1, <2>2, <3>3, FS_Union
  <2> QED BY <1>2, <2>1, <2>2
<1>4. Shape' /\ Judged' /\ Stored'
  BY <1>1, <1>3 DEF IInv, Shape, Judged, Stored, Beyond
<1>5. Upheld'
  <2>1. \A p : Halved(p)' = Halved(p)
    BY <1>1 DEF Halved, Misleading
  <2>2. CASE UNCHANGED <<call_edges, moved>>
    <3>1. callers' = callers
      BY <2>2 DEF callers
    <3>2. \A p : Score(p, callers)' = Score(p, callers)
      BY <3>1 DEF Score
    <3> QED BY <1>1, <2>1, <2>2, <3>2 DEF IInv, Upheld
  <2>3. CASE moved' = (moved \/ found # {})
    <3>1. ~moved' => ~moved /\ found = {}
      BY <2>3
    <3> QED BY <1>1, <2>1, <3>1 DEF IInv, Upheld
  <2> QED BY <1>2, <2>2, <2>3
<1>6. Compared'
  BY <1>1 DEF IInv, Compared, Complete, Beyond
<1>7. AllRead'
  BY <1>1 DEF IInv, AllRead, Complete, Shown
<1> QED BY <1>4, <1>5, <1>6, <1>7 DEF IInv

\* Nothing of it changes by itself.
LEMMA Stuttering == IInv /\ UNCHANGED vars => IInv'
<1> SUFFICES ASSUME IInv, UNCHANGED vars PROVE IInv'
  OBVIOUS
<1>1. UNCHANGED <<scenario, pc, held, coverage, packets, packet, verdicts, rows, found, unread,
                  moved, cut, call_edges>>
  BY DEF vars, keeperVars, rowVars, historyVars
<1>2. \A p : Score(p, callers)' = Score(p, callers)
  <2>1. callers' = callers
    BY <1>1 DEF callers
  <2> QED BY <2>1 DEF Score
<1>3. Shape' /\ Judged' /\ Stored'
  BY <1>1 DEF IInv, Shape, Judged, Stored, Beyond
<1>4. Upheld'
  BY <1>1, <1>2 DEF IInv, Upheld, Halved, Misleading
<1>5. Compared'
  BY <1>1 DEF IInv, Compared, Complete, Beyond
<1>6. AllRead'
  BY <1>1 DEF IInv, AllRead, Complete, Shown
<1> QED BY <1>3, <1>4, <1>5, <1>6 DEF IInv

\* The invariant holds of every run: what its coverage says was looked at, its observations
\* and its rows agree at each stage, for any pull requests, answers and keepers.
THEOREM JudgementInductive == Spec => []IInv
<1>1. IInv /\ [Next]_vars => IInv'
  <2> SUFFICES ASSUME IInv, [Next]_vars PROVE IInv'
    OBVIOUS
  <2>1. CASE CompareSuites
    BY <2>1, SuitesCompared
  <2>2. CASE CompareSurface
    BY <2>2, SurfaceCompared
  <2>3. CASE CompareLint
    BY <2>3, LintCompared
  <2>4. CASE Ground \/ GroundFails
    BY <2>4, GroundStep
  <2>5. CASE Attach
    BY <2>5, AttachStep
  <2>6. CASE Rank
    BY <2>6, RankStep
  <2>7. CASE Group
    BY <2>7, GroupStep
  <2>8. CASE Gather
    BY <2>8, GatherStep
  <2>9. CASE SkipPacket
    BY <2>9, SkipStep
  <2>10. CASE Garbled
    BY <2>10, GarbledStep
  <2>11. CASE Ask
    BY <2>11, AskStep
  <2>12. CASE EndAnswer
    BY <2>12, EndAnswerStep
  <2>13. CASE Settle
    BY <2>13, SettleStep
  <2>14. CASE \E id \in Ids(held), cited, backing \in Offer, suggested \in BOOLEAN,
                assessment \in {"diverges_from_repo", "probe_false_positive", "unusable"} :
                  Take(id, assessment, cited, suggested, backing)
    BY <2>14, TakeStep
  <2>15. CASE Store
    BY <2>15, StoreStep
  <2>16. CASE Fails
    BY <2>16, FailsStep
  <2>17. CASE Crash
    BY <2>17, CrashStep
  <2>18. CASE Keepers
    BY <2>18, KeepersStep
  <2>19. CASE UNCHANGED vars
    BY <2>19, Stuttering
  <2> QED
    BY <2>1, <2>2, <2>3, <2>4, <2>5, <2>6, <2>7, <2>8, <2>9, <2>10, <2>11, <2>12, <2>13, <2>14,
       <2>15, <2>16, <2>17, <2>18, <2>19 DEF Next
<1> QED BY InitHolds, <1>1, PTL DEF Spec

----------------------------------------------------------------------------
(* The properties *)

\* In a state of the invariant, complete means complete.
LEMMA CompleteIsComplete == IInv => CompleteMeansComplete
<1> SUFFICES ASSUME IInv, pc = "done", Complete
             PROVE  CompleteMeansComplete
  BY DEF CompleteMeansComplete
<1>1. /\ scenario.fork # "none" /\ DOMAIN scenario.suite.base.tests # {}
      /\ scenario.python
      /\ \/ scenario.suite.head.outcome \notin INTERESTING
         \/ scenario.suite.head.outcome = scenario.suite.base.outcome
         \/ \E o \in held : o.symbol = "(suite)"
      /\ \A t \in DOMAIN scenario.lint : scenario.lint[t].ran = {"base", "head"}
      /\ \A o \in held : o.relevance # ""
      /\ unread = {} => {s \in DOMAIN scenario.base.api : s \notin DOMAIN scenario.head.api}
                          \subseteq {o.symbol : o \in held}
  BY DEF IInv, Compared, Beyond
<1>2. \A o \in held : \E a \in rows.adjudications : a.id = Id(o) /\ a.cites # {}
  <2>1. \A o \in held : \E a \in verdicts.adjudications : a.id = Id(o)
    BY DEF IInv, AllRead, Ending
  <2>2. \A a \in verdicts.adjudications : a \in rows.adjudications /\ a.cites # {}
    BY DEF IInv, Stored, Judged
  <2> QED BY <2>1, <2>2
<1> QED BY <1>1, <1>2 DEF CompleteMeansComplete

\* In a state of the invariant, what was found is what is stored.
LEMMA FoundIsKept == IInv => FindingsStand
<1> SUFFICES ASSUME IInv, pc = "done" PROVE FindingsStand
  BY DEF FindingsStand
<1>1. /\ Ids(found) = Ids(held)
      /\ \A o \in held : \E p \in found :
           Id(o) = Id(p) /\ o.confidence = Halved(p) /\ (~moved => o.score <= p.score)
  BY DEF IInv, Upheld, Ending
<1>2. /\ \A s \in rows.suggestions : \E a \in rows.adjudications : a.id = s.id
      /\ \A a \in rows.adjudications : \E r \in rows.observations : r.id = a.id
      /\ {RowOf(o) : o \in held} \subseteq rows.observations
      /\ ~cut => /\ rows.observations = {RowOf(o) : o \in held}
                 /\ rows.adjudications = verdicts.adjudications
  BY DEF IInv, Stored
<1>3. \A o : RowOf(o).id = Id(o) /\ RowOf(o).confidence = o.confidence
  BY DEF RowOf
<1>4. Ids(found) \subseteq {r.id : r \in rows.observations}
  <2>1. \A o \in held : \E r \in rows.observations : r.id = Id(o)
    BY <1>2, <1>3
  <2> QED BY <1>1, <2>1 DEF Ids
<1>5. /\ {s.id : s \in rows.suggestions} \subseteq {a.id : a \in rows.adjudications}
      /\ {a.id : a \in rows.adjudications} \subseteq {r.id : r \in rows.observations}
  BY <1>2
<1>6. ~cut => Ids(found) = {r.id : r \in rows.observations}
  <2>1. ~cut => \A r \in rows.observations : \E o \in held : r.id = Id(o)
    BY <1>2, <1>3
  <2>2. ~cut => {r.id : r \in rows.observations} \subseteq Ids(held)
    BY <2>1 DEF Ids
  <2> QED BY <1>1, <1>4, <2>2
<1>7. ASSUME ~cut, NEW r \in rows.observations
      PROVE  LET same == {o \in found : Id(o) = r.id}
                 half == \E a \in rows.adjudications :
                           a.id = r.id /\ a.assessment = "probe_false_positive"
             IN  \E o \in same : r.confidence = IF half THEN o.confidence \div 2 ELSE o.confidence
  <2>1. PICK o \in held : r = RowOf(o)
    BY <1>2, <1>7
  <2>2. PICK p \in found : Id(o) = Id(p) /\ o.confidence = Halved(p)
    BY <1>1
  <2>3. r.id = Id(p) /\ r.confidence = Halved(p)
    BY <1>3, <2>1, <2>2
  <2>4. Id(p) \in Misleading <=> \E a \in rows.adjudications :
                                   a.id = r.id /\ a.assessment = "probe_false_positive"
    BY <1>2, <1>7, <2>3 DEF Misleading
  <2> QED BY <2>3, <2>4 DEF Halved
<1>8. ~moved => \A o \in held : \E p \in found : Id(o) = Id(p) /\ o.score <= p.score
  BY <1>1
<1> QED BY <1>4, <1>5, <1>6, <1>7, <1>8 DEF FindingsStand

\* A run stored as complete had a fork point, a suite, linters at both commits, and every
\* finding judged and adjudicated with a citation that resolves, whatever the model answered
\* and wherever the process was ended and started again (_probe, _ground, _adjudicate).
THEOREM CompleteRunsAreComplete == Spec => []CompleteMeansComplete
BY JudgementInductive, CompleteIsComplete, PTL

\* What the probes found is what is stored: the adjudicator neither adds nor removes nor
\* promotes, and halves the confidence of what it calls misleading only; no adjudication or
\* suggestion is stored without what it is about (_adjudicate, _pipeline).
THEOREM FindingsAreKept == Spec => []FindingsStand
BY JudgementInductive, FoundIsKept, PTL
----------------------------------------------------------------------------
(* What is gone is told *)

\* What is kept of the first offers, one by one.
KeepsTo(offers, n, f) ==
    f = [i \in 0 .. n |-> IF i = 0 THEN <<>> ELSE Add(f[i - 1], offers[i])]

\* There is such a thing: the definition by recursion defines what it says.
LEMMA KeptIsDefined ==
    ASSUME NEW offers, Len(offers) \in Nat
    PROVE  KeepsTo(offers, Len(offers), KeptOf(offers))
<1> DEFINE bad == {n \in Nat : ~ \E f : KeepsTo(offers, n, f)}
<1>1. bad = {}
  <2> SUFFICES ASSUME bad # {} PROVE FALSE
    OBVIOUS
  <2>1. PICK n \in bad : \A m \in bad : n <= m
    <3>1. bad \in SUBSET Nat
      OBVIOUS
    <3> HIDE DEF bad
    <3> QED BY <3>1, Least
  <2>2. n \in Nat /\ ~ \E f : KeepsTo(offers, n, f)
    OBVIOUS
  <2>3. CASE n = 0
    <3> DEFINE f == [i \in 0 .. 0 |-> <<>>]
    <3>1. f = [i \in 0 .. 0 |-> IF i = 0 THEN <<>> ELSE Add(f[i - 1], offers[i])]
      OBVIOUS
    <3> HIDE DEF f
    <3>2. KeepsTo(offers, 0, f)
      BY <3>1 DEF KeepsTo
    <3> QED BY <2>2, <2>3, <3>2
  <2>4. CASE n # 0
    <3>1. n - 1 \in Nat /\ n - 1 \notin bad
      BY <2>1, <2>2, <2>4
    <3>2. PICK g : KeepsTo(offers, n - 1, g)
      BY <3>1
    <3> HIDE DEF bad
    <3>3. /\ \A i \in 0 .. n - 1 : g[i] = IF i = 0 THEN <<>> ELSE Add(g[i - 1], offers[i])
      BY <3>2 DEF KeepsTo
    <3> DEFINE f == [i \in 0 .. n |-> IF i = n THEN Add(g[n - 1], offers[n]) ELSE g[i]]
    <3>4. \A i \in 0 .. n : f[i] = IF i = n THEN Add(g[n - 1], offers[n]) ELSE g[i]
      OBVIOUS
    <3>5. \A i \in 0 .. n : f[i] = IF i = 0 THEN <<>> ELSE Add(f[i - 1], offers[i])
      <4> SUFFICES ASSUME NEW i \in 0 .. n
                   PROVE  f[i] = IF i = 0 THEN <<>> ELSE Add(f[i - 1], offers[i])
        OBVIOUS
      <4> HIDE DEF f
      <4>1. CASE i = 0
        <5>1. i # n /\ 0 \in 0 .. n - 1
          BY <2>2, <2>4, <4>1
        <5>2. f[i] = g[i]
          BY <3>4, <5>1
        <5>3. g[0] = <<>>
          BY <3>3, <5>1
        <5> QED BY <4>1, <5>2, <5>3
      <4>2. CASE i # 0
        <5>1. i - 1 \in 0 .. n /\ i - 1 # n /\ f[i - 1] = g[i - 1]
          BY <2>2, <3>4, <4>2
        <5>2. CASE i = n
          BY <3>4, <4>2, <5>1, <5>2
        <5>3. CASE i # n
          <6>1. i \in 0 .. n - 1
            BY <2>2, <5>3
          <6> QED BY <3>3, <3>4, <4>2, <5>1, <5>3, <6>1
        <5> QED BY <5>2, <5>3
      <4> QED BY <4>1, <4>2
    <3>6. f = [i \in 0 .. n |-> f[i]]
      OBVIOUS
    <3> HIDE DEF f
    <3>7. KeepsTo(offers, n, f)
      BY <3>5, <3>6 DEF KeepsTo
    <3> QED BY <2>2, <3>7
  <2> QED BY <2>3, <2>4
<1>2. \E f : KeepsTo(offers, Len(offers), f)
  BY <1>1
<1>3. KeptOf(offers) = CHOOSE f : KeepsTo(offers, Len(offers), f)
  BY DEF KeptOf, KeepsTo
<1> QED BY <1>2, <1>3

\* A charter claims nothing that was not offered.
LEMMA KeptWasOffered ==
    ASSUME NEW S, NEW offers \in Seq(S)
    PROVE  Contents(Built(offers)) \subseteq S
<1> DEFINE n == Len(offers)
           f == KeptOf(offers)
           bad == {i \in 0 .. n : f[i] \notin Seq(S)}
<1>1. n \in Nat /\ \A i \in 1 .. n : offers[i] \in S
  OBVIOUS
<1>2. \A i \in 0 .. n : f[i] = IF i = 0 THEN <<>> ELSE Add(f[i - 1], offers[i])
  <2>1. KeepsTo(offers, n, f)
    BY <1>1, KeptIsDefined
  <2> HIDE DEF f, n
  <2> QED BY <2>1 DEF KeepsTo
<1> HIDE DEF f, n
<1>3. bad = {}
  <2> SUFFICES ASSUME bad # {} PROVE FALSE
    OBVIOUS
  <2>1. PICK i \in bad : \A j \in bad : i <= j
    <3>1. bad \in SUBSET Nat
      BY <1>1
    <3> HIDE DEF bad
    <3> QED BY <3>1, Least
  <2>2. i \in 0 .. n /\ f[i] \notin Seq(S)
    OBVIOUS
  <2>3. CASE i = 0
    <3>1. f[i] = <<>>
      BY <1>2, <2>2, <2>3
    <3>2. <<>> \in Seq(S)
      OBVIOUS
    <3> QED BY <2>2, <3>1, <3>2, Zenon
  <2>4. CASE i # 0
    <3>1. i - 1 \in 0 .. n /\ i - 1 \notin bad
      BY <1>1, <2>1, <2>2, <2>4
    <3>2. f[i - 1] \in Seq(S) /\ offers[i] \in S
      BY <1>1, <2>2, <2>4, <3>1
    <3>3. f[i] = Add(f[i - 1], offers[i])
      BY <1>2, <2>2, <2>4
    <3>4. f[i] = f[i - 1] \/ f[i] = Append(f[i - 1], offers[i])
      BY <3>3 DEF Add
    <3>5. Append(f[i - 1], offers[i]) \in Seq(S)
      BY <3>2
    <3> QED BY <2>2, <3>2, <3>4, <3>5, Zenon
  <2> QED BY <2>3, <2>4
<1>4. f[n] \in Seq(S)
  BY <1>1, <1>3
<1>5. Built(offers) = f[n]
  BY DEF Built, f, n
<1> QED BY <1>4, <1>5 DEF Contents

\* The levels, in their order.
LEMMA Grades == /\ Grade("none") = 1 /\ Grade("minor") = 2
                /\ Grade("notable") = 3 /\ Grade("major") = 4
<1>1. /\ DOMAIN DRIFT_LEVELS = 1 .. 4
      /\ DRIFT_LEVELS[1] = "none" /\ DRIFT_LEVELS[2] = "minor"
      /\ DRIFT_LEVELS[3] = "notable" /\ DRIFT_LEVELS[4] = "major"
  BY DEF DRIFT_LEVELS
<1>2. \A i \in DOMAIN DRIFT_LEVELS : i = 1 \/ i = 2 \/ i = 3 \/ i = 4
  BY <1>1
<1>3. ASSUME NEW level, NEW n \in 1 .. 4, DRIFT_LEVELS[n] = level,
             \A i \in 1 .. 4 : DRIFT_LEVELS[i] = level => i = n
      PROVE  Grade(level) = n
  BY <1>1, <1>3 DEF Grade
<1>4. Grade("none") = 1
  BY <1>1, <1>2, <1>3
<1>5. Grade("minor") = 2
  BY <1>1, <1>2, <1>3
<1>6. Grade("notable") = 3
  BY <1>1, <1>2, <1>3
<1>7. Grade("major") = 4
  BY <1>1, <1>2, <1>3
<1> QED BY <1>4, <1>5, <1>6, <1>7

\* What a comparison makes: every kind of signal has its place among the headlines.
SignalKinds == {HEADLINE_ORDER[i] : i \in DOMAIN HEADLINE_ORDER}
IsSignal(s) == s.kind \in SignalKinds /\ s.level \in {"minor", "notable", "major"}

\* Whatever the two charters are.
LEMMA ComparedSignals ==
    ASSUME NEW b, NEW a
    PROVE  \A s \in Compare(b, a) : IsSignal(s)
<1> DEFINE kinds == {"purpose", "toolchain", "entry_points", "public_api_removed", "license",
                     "modules_removed", "version", "non_goals", "constraints",
                     "dependencies_removed", "public_api_added", "modules_added",
                     "dependencies_added", "standards"}
           levels == {"minor", "notable", "major"}
           are(S) == \A s \in S : s.kind \in kinds /\ s.level \in levels
<1>1. kinds \subseteq SignalKinds
  <2>1. /\ DOMAIN HEADLINE_ORDER = 1 .. 14
        /\ HEADLINE_ORDER[1] = "purpose" /\ HEADLINE_ORDER[2] = "toolchain"
        /\ HEADLINE_ORDER[3] = "entry_points" /\ HEADLINE_ORDER[4] = "public_api_removed"
        /\ HEADLINE_ORDER[5] = "license" /\ HEADLINE_ORDER[6] = "modules_removed"
        /\ HEADLINE_ORDER[7] = "version" /\ HEADLINE_ORDER[8] = "non_goals"
        /\ HEADLINE_ORDER[9] = "constraints" /\ HEADLINE_ORDER[10] = "dependencies_removed"
        /\ HEADLINE_ORDER[11] = "public_api_added" /\ HEADLINE_ORDER[12] = "modules_added"
        /\ HEADLINE_ORDER[13] = "dependencies_added" /\ HEADLINE_ORDER[14] = "standards"
    BY DEF HEADLINE_ORDER
  <2>2. \A i \in 1 .. 14 : HEADLINE_ORDER[i] \in SignalKinds
    BY <2>1 DEF SignalKinds
  <2>3. {1, 2, 3, 4, 5, 6, 7, 8, 9, 10, 11, 12, 13, 14} \subseteq 1 .. 14
    OBVIOUS
  <2> QED BY <2>1, <2>2, <2>3
<1>2. ASSUME NEW c, NEW kind \in kinds, NEW level \in levels
      PROVE  are(When(c, Signal(kind, level)))
  BY DEF When, Signal
<1>3. VersionLevel(b.version, a.version) \in levels
  BY DEF VersionLevel
<1>4. are(Identity(b, a))
  <2>1. are(When(b.toolchain # a.toolchain, Signal("toolchain", "major")))
    BY <1>2
  <2>2. are(When(Changed(b.license, a.license), Signal("license", "major")))
    BY <1>2
  <2>3. are(When(Changed(b.version, a.version),
                 Signal("version", VersionLevel(b.version, a.version))))
    BY <1>3 DEF When, Signal
  <2> HIDE DEF kinds, levels
  <2> QED BY <2>1, <2>2, <2>3 DEF Identity
<1>5. are(Usage(b, a))
  BY <1>2 DEF Usage
<1>6. are(Surface(b, a))
  BY DEF Surface, When, Signal
<1>7. are(Purpose(b, a))
  BY DEF Purpose, When, Signal
<1>8. are(Parts(b, a))
  BY DEF Parts, When, Signal
<1>9. are(Promises(b, a))
  BY <1>2 DEF Promises
<1> HIDE DEF kinds, levels
<1>10. are(Compare(b, a))
  BY <1>4, <1>5, <1>6, <1>7, <1>8, <1>9 DEF Compare
<1> QED BY <1>1, <1>10 DEF IsSignal, levels

\* The level of what was compared is that of a signal, and no other is above it.
LEMMA LevelIsHighest ==
    ASSUME NEW S, S # {}, \A s \in S : IsSignal(s)
    PROVE  \E s \in S : Level(S) = s.level /\ \A t \in S : Grade(t.level) <= Grade(s.level)
<1> DEFINE grades == {Grade(s.level) : s \in S}
<1>1. \A s \in S : Grade(s.level) \in 0 .. 4
  <2> SUFFICES ASSUME NEW s \in S PROVE Grade(s.level) \in 0 .. 4
    OBVIOUS
  <2>1. s.level = "minor" \/ s.level = "notable" \/ s.level = "major"
    BY DEF IsSignal
  <2> QED BY <2>1, Grades
<1>2. PICK i \in grades : \A j \in grades : j <= i
  <2>1. grades \in SUBSET (0 .. 4) /\ grades # {} /\ 4 \in Nat
    BY <1>1
  <2> HIDE DEF grades
  <2> QED BY <2>1, Greatest
<1>3. \E s \in S : \A t \in S : Grade(t.level) <= Grade(s.level)
  BY <1>2
<1> DEFINE s == CHOOSE s \in S : \A t \in S : Grade(t.level) <= Grade(s.level)
<1>4. s \in S /\ \A t \in S : Grade(t.level) <= Grade(s.level)
  BY <1>3
<1>5. Level(S) = s.level
  BY DEF Level
<1> HIDE DEF s
<1> QED BY <1>4, <1>5

\* So a signal that is notable makes the whole notable, and a major one makes it major.
LEMMA LevelReached ==
    ASSUME NEW S, \A s \in S : IsSignal(s), NEW s \in S
    PROVE  /\ s.level = "major" => Level(S) = "major"
           /\ s.level \in {"notable", "major"} => Grade(Level(S)) >= Grade("notable")
<1>1. PICK t \in S : Level(S) = t.level /\ \A u \in S : Grade(u.level) <= Grade(t.level)
  BY LevelIsHighest
<1>2. Grade(s.level) <= Grade(t.level)
  BY <1>1
<1>3. /\ s.level = "minor" \/ s.level = "notable" \/ s.level = "major"
      /\ t.level = "minor" \/ t.level = "notable" \/ t.level = "major"
  BY DEF IsSignal
<1> QED BY <1>1, <1>2, <1>3, Grades

\* A major change has something to announce it with.
LEMMA HeadlineOfMajor ==
    ASSUME NEW S, \A s \in S : IsSignal(s), Level(S) = "major"
    PROVE  Headline(S) \in S
<1> DEFINE top == {s \in S : s.level = Level(S)}
           at(s) == CHOOSE i \in DOMAIN HEADLINE_ORDER : HEADLINE_ORDER[i] = s.kind
           places == {at(s) : s \in top}
<1>1. top # {}
  <2>1. S # {}
    BY DEF Level
  <2> QED BY <2>1, LevelIsHighest
<1>2. DOMAIN HEADLINE_ORDER \subseteq Nat
  <2>1. DOMAIN HEADLINE_ORDER = 1 .. 14
    BY DEF HEADLINE_ORDER
  <2> QED BY <2>1
<1>3. ASSUME NEW s \in top PROVE at(s) \in Nat
  <2>1. \E i \in DOMAIN HEADLINE_ORDER : HEADLINE_ORDER[i] = s.kind
    BY DEF IsSignal, SignalKinds
  <2>2. at(s) \in DOMAIN HEADLINE_ORDER
    BY <2>1
  <2> HIDE DEF at
  <2> QED BY <1>2, <2>2
<1>4. PICK i \in places : \A j \in places : i <= j
  <2> HIDE DEF top, at
  <2>1. places \in SUBSET Nat /\ places # {}
    BY <1>1, <1>3
  <2> HIDE DEF places
  <2> QED BY <2>1, Least
<1>5. \E s \in top : \A t \in top : at(s) <= at(t)
  <2> HIDE DEF top, at
  <2> QED BY <1>4
<1>6. Headline(S) = CHOOSE s \in top : \A t \in top : at(s) <= at(t)
  BY DEF Headline
<1>7. Headline(S) \in top
  <2> HIDE DEF top, at
  <2> QED BY <1>5, <1>6
<1> QED BY <1>7

\* Each loss has its signal.
LEMMA LossesSignalled ==
    ASSUME NEW b, NEW a
    PROVE  /\ b.entry_points \ a.entry_points # {} =>
                \E s \in Compare(b, a) : s.level = "major"
           /\ \/ b.public_api \ a.public_api # {} \/ b.dependencies \ a.dependencies # {}
              \/ b.modules \ a.modules # {} \/ Constraints(b) \ Constraints(a) # {}
              => \E s \in Compare(b, a) : s.level \in {"notable", "major"}
<1> DEFINE told(S) == \E s \in S : s.level \in {"notable", "major"}
<1>1. ASSUME b.entry_points \ a.entry_points # {}
      PROVE  \E s \in Compare(b, a) : s.level = "major"
  <2>1. [kind |-> "entry_points", level |-> "major"] \in Usage(b, a)
    BY <1>1 DEF Usage, When, Signal
  <2>2. [kind |-> "entry_points", level |-> "major"] \in Compare(b, a)
    BY <2>1 DEF Compare
  <2> QED BY <2>2
<1>2. ASSUME b.public_api \ a.public_api # {}
      PROVE  told(Surface(b, a))
  <2> DEFINE removed == b.public_api \ a.public_api
             level == IF \/ Reaches(removed, b.public_api, Limits.removed)
                         \/ Cardinality(removed) >= Limits.removed_count
                      THEN "major" ELSE "notable"
  <2>1. [kind |-> "public_api_removed", level |-> level] \in Surface(b, a)
    <3>1. b.public_api # {} /\ removed # {}
      BY <1>2
    <3>2. Signal("public_api_removed", level) \subseteq Surface(b, a)
      BY <3>1 DEF Surface, When
    <3> HIDE DEF level
    <3> QED BY <3>2 DEF Signal
  <2>2. level \in {"notable", "major"}
    OBVIOUS
  <2> HIDE DEF level
  <2> QED BY <2>1, <2>2
<1>3. ASSUME b.dependencies \ a.dependencies # {}
      PROVE  told(Parts(b, a))
  <2>1. [kind |-> "dependencies_removed", level |-> "notable"] \in Parts(b, a)
    BY <1>3 DEF Parts, When, Signal
  <2> QED BY <2>1
<1>4. ASSUME b.modules \ a.modules # {}
      PROVE  told(Parts(b, a))
  <2> DEFINE level == IF Cardinality(b.modules \ a.modules) >= 3 THEN "major" ELSE "notable"
  <2>1. Signal("modules_removed", level) \subseteq Parts(b, a)
    BY <1>4 DEF Parts, When
  <2>2. level \in {"notable", "major"}
    OBVIOUS
  <2> HIDE DEF level
  <2>3. [kind |-> "modules_removed", level |-> level] \in Parts(b, a)
    BY <2>1 DEF Signal
  <2> QED BY <2>2, <2>3
<1>5. ASSUME Constraints(b) \ Constraints(a) # {}
      PROVE  told(Promises(b, a))
  <2>1. PICK t \in Constraints(b) : t \notin Constraints(a)
    BY <1>5
  <2>2. CASE Len(t) > 1
    <3>1. t \in NonGoals(b) \ NonGoals(a)
      BY <2>1, <2>2 DEF NonGoals
    <3>2. [kind |-> "non_goals", level |-> "notable"] \in Promises(b, a)
      BY <3>1 DEF Promises, When, Signal
    <3> QED BY <3>2
  <2>3. CASE ~(Len(t) > 1)
    <3>1. t \in Rules(b) \ Rules(a)
      BY <2>1, <2>3 DEF Rules, NonGoals
    <3>2. [kind |-> "constraints", level |-> "notable"] \in Promises(b, a)
      BY <3>1 DEF Promises, When, Signal
    <3> QED BY <3>2
  <2> QED BY <2>2, <2>3
<1>6. told(Surface(b, a)) \/ told(Parts(b, a)) \/ told(Promises(b, a)) => told(Compare(b, a))
  BY DEF Compare
<1> HIDE DEF told
<1>7. ASSUME \/ b.public_api \ a.public_api # {} \/ b.dependencies \ a.dependencies # {}
             \/ b.modules \ a.modules # {} \/ Constraints(b) \ Constraints(a) # {}
      PROVE  told(Compare(b, a))
  BY <1>2, <1>3, <1>4, <1>5, <1>6, <1>7
<1> QED BY <1>1, <1>7 DEF told

\* How far the head's charter is from the base's.
Drifted == Level(Compare(Extracted[scenario.base], Extracted[scenario.head]))

\* The impact of a run is that, once measured; and a major one was announced, once.
Announced ==
    /\ scenario.base \in Trees /\ scenario.head \in Trees
    /\ {"base", "head"} \subseteq DOMAIN scenario
    /\ impact \in {"none", Drifted}
    /\ measured => impact = Drifted
    /\ notices = IF Notifier /\ impact = "major" THEN 1 ELSE 0

\* At the start nothing was measured, nor announced.
LEMMA AnnouncedInit == Init => Announced
<1> SUFFICES ASSUME Init PROVE Announced
  OBVIOUS
<1>1. scenario \in Scenario /\ impact = "none" /\ notices = 0 /\ measured = FALSE
  BY DEF Init, Fresh
<1>2. {"base", "head"} \subseteq DOMAIN scenario
  BY <1>1, VerificationAssumption
<1>3. scenario.base \in Trees /\ scenario.head \in Trees
  BY <1>1 DEF Trees
<1>4. impact # "major"
  BY <1>1
<1> QED BY <1>1, <1>2, <1>3, <1>4 DEF Announced

\* The levels there are of a comparison of two charters; only a major one has a headline.
LEMMA GroundTells == Announced /\ Ground => Announced'
<1> SUFFICES ASSUME Announced, Ground PROVE Announced'
  OBVIOUS
<1> DEFINE S == Compare(Extracted[scenario.base], Extracted[scenario.head])
<1>1. /\ scenario' = scenario /\ measured' = TRUE /\ impact' = Drifted
      /\ notices' = IF Notifier /\ impact' = "major" /\ Headline(S) \in S THEN 1 ELSE notices
  BY DEF Ground, Measure, Drifted
<1>2. Drifted' = Drifted
  BY <1>1 DEF Drifted
<1>3. impact' = "major" => Headline(S) \in S
  <2>1. \A s \in S : IsSignal(s)
    BY ComparedSignals
  <2>2. impact' = Level(S)
    BY <1>1 DEF Drifted
  <2> HIDE DEF S
  <2> QED BY <2>1, <2>2, HeadlineOfMajor
<1>4. notices' = IF Notifier /\ impact' = "major" THEN 1 ELSE 0
  <2> HIDE DEF S
  <2>1. ~(Notifier /\ impact' = "major") => notices = 0
    <3>1. impact \in {"none", impact'}
      BY <1>1 DEF Announced
    <3> QED BY <3>1 DEF Announced
  <2> QED BY <1>1, <1>3, <2>1
<1> QED BY <1>1, <1>2, <1>4 DEF Announced

\* Nothing else measures or announces; the fork point is no part of the charters.
LEMMA OthersTell ==
    ASSUME Announced, UNCHANGED <<impact, notices>>, measured' => measured,
           \/ UNCHANGED scenario
           \/ \E f : scenario' = [scenario EXCEPT !.fork = f]
    PROVE  Announced'
<1>1. /\ scenario'.base = scenario.base /\ scenario'.head = scenario.head
      /\ DOMAIN scenario' = DOMAIN scenario
  BY DEF Announced
<1>2. Drifted' = Drifted
  BY <1>1 DEF Drifted
<1> QED BY <1>1, <1>2 DEF Announced

\* Every step keeps it.
LEMMA AnnouncedStep == Announced /\ [Next]_vars => Announced'
<1> SUFFICES ASSUME Announced, [Next]_vars PROVE Announced'
  OBVIOUS
<1>1. CASE Ground
  BY <1>1, GroundTells
<1>2. CASE CompareSuites
  <2>1. UNCHANGED <<impact, notices, measured>>
    BY <1>2 DEF CompareSuites, rowVars, historyVars
  <2>2. \E f : scenario' = [scenario EXCEPT !.fork = f]
    BY <1>2 DEF CompareSuites
  <2> QED BY <2>1, <2>2, OthersTell
<1>3. CASE CompareSurface \/ CompareLint
  <2>1. UNCHANGED <<scenario, impact, notices, measured>>
    BY <1>3 DEF CompareSurface, CompareLint, rowVars, historyVars
  <2> QED BY <2>1, OthersTell
<1>4. CASE GroundFails \/ Attach \/ Rank
  <2>1. UNCHANGED <<scenario, impact, notices, measured>>
    BY <1>4 DEF GroundFails, Attach, Rank, rowVars, historyVars
  <2> QED BY <2>1, OthersTell
<1>5. CASE Group \/ Gather \/ SkipPacket \/ Garbled \/ Ask \/ EndAnswer \/ Settle
  <2>1. UNCHANGED <<scenario, impact, notices, measured>>
    BY <1>5 DEF Group, Gather, SkipPacket, Garbled, Ask, EndAnswer, Settle, rowVars, historyVars
  <2> QED BY <2>1, OthersTell
<1>6. CASE \E id \in Ids(held), cited, backing \in Offer, suggested \in BOOLEAN,
              assessment \in {"diverges_from_repo", "probe_false_positive", "unusable"} :
                Take(id, assessment, cited, suggested, backing)
  <2>1. UNCHANGED <<scenario, impact, notices, measured>>
    BY <1>6 DEF Take, rowVars, historyVars
  <2> QED BY <2>1, OthersTell
<1>7. CASE Store \/ Fails
  <2>1. UNCHANGED <<scenario, impact, notices, measured>>
    BY <1>7 DEF Store, Fails, rowVars, historyVars
  <2> QED BY <2>1, OthersTell
<1>8. CASE Crash
  <2>1. UNCHANGED <<scenario, impact, notices>> /\ measured' = FALSE
    BY <1>8 DEF Crash
  <2> QED BY <2>1, OthersTell
<1>9. CASE Keepers
  <2>1. UNCHANGED <<scenario, impact, notices, measured>>
    BY <1>9 DEF Keepers, rowVars
  <2> QED BY <2>1, OthersTell
<1>10. CASE UNCHANGED vars
  <2>1. UNCHANGED <<scenario, impact, notices, measured>>
    BY <1>10 DEF vars, rowVars, historyVars
  <2> QED BY <2>1, OthersTell
<1> QED BY <1>1, <1>2, <1>3, <1>4, <1>5, <1>6, <1>7, <1>8, <1>9, <1>10 DEF Next

\* What is stated by no file of the head is claimed by no charter of it.
LEMMA ClaimsWereStated ==
    ASSUME NEW t \in Trees
    PROVE  Constraints(Extracted[t]) \subseteq Texts(Stated[t], "constraint")
<1> DEFINE claims == Built(Offers(t))
<1>1. Stated[t] = Contents(Offers(t)) /\ Extracted[t].claims = claims
  BY DEF Stated, Extracted, ExtractCharter
<1>2. Contents(claims) \subseteq Stated[t]
  <2>1. Offers(t) \in Seq(Stated[t])
    BY OffersAssumption
  <2> DEFINE S == Stated[t]
             offers == Offers(t)
  <2>2. offers \in Seq(S) /\ claims = Built(offers)
    BY <2>1
  <2> HIDE DEF S, offers, claims
  <2>3. Contents(claims) \subseteq S
    BY <2>2, KeptWasOffered
  <2> QED BY <2>3 DEF S
<1> HIDE DEF claims
<1> QED BY <1>1, <1>2 DEF Constraints, Texts

\* In such a state, what the base has and the head has not is in the impact.
LEMMA AnnouncedIsTold == Announced => LossesAreTold
<1> SUFFICES ASSUME Announced, measured
             PROVE  MeasuredWell(Extracted[scenario.base], Extracted[scenario.head])
  BY DEF Announced, LossesAreTold
<1> DEFINE b == Extracted[scenario.base]
           a == Extracted[scenario.head]
<1>1. scenario.base \in Trees /\ scenario.head \in Trees /\ impact = Level(Compare(b, a))
  BY DEF Announced, Drifted
<1>2. /\ b.public_api = DOMAIN scenario.base.api /\ a.public_api = DOMAIN scenario.head.api
      /\ a.modules = {d[1] : d \in Contents(Docstrings(scenario.head))}
  BY <1>1 DEF Extracted, ExtractCharter
<1>3. Constraints(a) \subseteq Texts(Stated[scenario.head], "constraint")
  BY <1>1, ClaimsWereStated
<1> HIDE DEF b, a
<1>4. \A s \in Compare(b, a) : IsSignal(s)
  BY ComparedSignals
<1>5. b.entry_points \ a.entry_points # {} => impact = "major"
  BY <1>1, <1>4, LossesSignalled, LevelReached
<1>6. ASSUME Gone(b, a) PROVE Grade(impact) >= Grade("notable")
  <2>1. \/ b.public_api \ a.public_api # {} \/ b.dependencies \ a.dependencies # {}
        \/ b.modules \ a.modules # {} \/ Constraints(b) \ Constraints(a) # {}
    BY <1>2, <1>3, <1>6 DEF Gone
  <2>2. PICK s \in Compare(b, a) : s.level \in {"notable", "major"}
    BY <2>1, LossesSignalled
  <2> QED BY <1>1, <1>4, <2>2, LevelReached
<1> QED BY <1>5, <1>6 DEF MeasuredWell, b, a

\* What a pull request takes away is told, whatever the two checkouts say of themselves and
\* wherever the process was ended: a command that is gone is a major impact, a symbol, a
\* dependency, a documented module or a stated constraint a notable one, and a major impact
\* is announced once (compare_charters, _ground, _announce).
THEOREM LossesAreAllTold == Spec => []LossesAreTold
<1>1. Spec => []Announced
  BY AnnouncedInit, AnnouncedStep, PTL DEF Spec
<1> QED BY <1>1, AnnouncedIsTold, PTL
----------------------------------------------------------------------------
(* Every caller is found *)

\* An import that is not misread stands for what it stands for in Python.
LEMMA ReadAsMeant ==
    ASSUME NEW code, NEW root, NEW call, NEW k \in ImportsOf(code, call),
           Loads(code, root, ModuleOfNode(code)[call.at]),
           ~Misread(code, code.imports[k])
    PROVE  ImportTarget(code, root, code.imports[k]) = TrueTarget(code, root, code.imports[k])
<1> DEFINE import == code.imports[k]
           name == NameOf(code, root)[import.at]
<1>1. k \in DOMAIN code.imports /\ import.at = ModuleOfNode(code)[call.at]
  BY DEF ImportsOf
<1>2. import.level # 0 => import.level < Len(name)
  <2>1. import.level # 0 => LevelsUp(code, import) = import.level
    BY DEF Misread, LevelsUp
  <2> QED BY <1>1, <2>1 DEF Loads
<1>3. CASE BindsTop(import)
  <2>1. import.base = <<import.alias>> /\ import.name = <<>> /\ import.level = 0
    BY <1>3 DEF Misread, BindsTop
  <2>2. ImportTarget(code, root, import) = (<<>> \o <<import.alias>>) \o <<>>
    BY <2>1 DEF ImportTarget
  <2>3. TrueTarget(code, root, import) = <<import.alias>>
    BY <1>3 DEF TrueTarget
  <2> DEFINE alias == import.alias
  <2>4. (<<>> \o <<alias>>) \o <<>> = <<alias>>
    <3> HIDE DEF alias
    <3>1. <<alias>> \in Seq({alias})
      OBVIOUS
    <3> QED BY <3>1
  <2> QED BY <2>2, <2>3, <2>4
<1>4. CASE ~BindsTop(import)
  <2>1. CASE import.level = 0
    BY <1>4, <2>1 DEF ImportTarget, TrueTarget
  <2>2. CASE import.level # 0
    <3>1. LevelsUp(code, import) = import.level
      BY <2>2 DEF Misread, LevelsUp
    <3>2. Len(name) > import.level
      BY <1>2, <2>2
    <3>3. PackageNamed(name, import.level) = SubSeq(name, 1, Len(name) - import.level)
      BY <3>2 DEF PackageNamed
    <3> QED BY <1>4, <2>2, <3>1, <3>3 DEF ImportTarget, TrueTarget
  <2> QED BY <2>1, <2>2
<1> QED BY <1>3, <1>4

\* What a symbol stands for is itself.
LEMMA SymbolIsItself ==
    ASSUME NEW code, NEW root, NEW target \in Symbols(code, root)
    PROVE  Follow(code, root, target) = {target}
BY DEF Follow

\* A call that is not known to be missed is resolved to all it may be of.
LEMMA CallsResolve ==
    ASSUME NEW code, NEW root, NEW call,
           Loads(code, root, ModuleOfNode(code)[call.at]), ~Excused(code, root, call)
    PROVE  Meaning(code, root, call) \subseteq Resolve(code, root, call)
<1> DEFINE imports    == ImportsOf(code, call)
           symbols    == Symbols(code, root)
           local      == LocalName(code, root, call)
           namesakes  == Namesakes(code, root, call.name)
           taken(k)   == Reference(call, ImportTarget(code, root, code.imports[k]))
           called(k)  == Reference(call, TrueTarget(code, root, code.imports[k]))
           follow(k)  == Follow(code, root, called(k))
<1>1. /\ call.form = "name" => Hidden(code, call) = {}
      /\ \A k \in imports : Hidden(code, call) = {} /\ local \notin symbols /\ imports = {k}
      /\ \A k \in imports : Misread(code, code.imports[k]) => taken(k) \notin symbols
      /\ \A k \in imports : Misread(code, code.imports[k]) \/ called(k) \notin symbols =>
                              follow(k) \subseteq namesakes
  BY DEF Excused
<1>2. Resolve(code, root, call) = IF Exactly(code, root, call) # {} THEN Exactly(code, root, call)
                                  ELSE namesakes
  BY DEF Resolve, Fallback, Excused
<1>3. Meaning(code, root, call) =
        IF call.form = "name" /\ local \in symbols THEN {local}
        ELSE IF imports # {} THEN UNION {follow(k) : k \in imports}
        ELSE IF call.form = "attribute" THEN namesakes ELSE {}
  <2> DEFINE targets == {TrueTarget(code, root, code.imports[k]) : k \in imports}
  <2>1. Meaning(code, root, call) =
          IF call.form = "name" /\ local \in symbols THEN {local}
          ELSE IF targets # {} /\ Hidden(code, call) = {} /\ local \notin symbols
          THEN UNION {Follow(code, root, Reference(call, t)) : t \in targets}
          ELSE IF call.form = "attribute" THEN namesakes ELSE {}
    BY <1>1 DEF Meaning
  <2>2. (targets # {}) = (imports # {})
    OBVIOUS
  <2>3. UNION {Follow(code, root, Reference(call, t)) : t \in targets}
          = UNION {follow(k) : k \in imports}
    OBVIOUS
  <2> HIDE DEF targets, imports, follow, symbols, local, namesakes
  <2> QED BY <1>1, <2>1, <2>2, <2>3
<1>4. Exactly(code, root, call) =
        IF call.form = "name" /\ local \in symbols THEN {local}
        ELSE {taken(k) : k \in {k \in imports : \A l \in imports \ {k} : l < k}} \cap symbols
  BY DEF Exactly, Imported
<1>5. ASSUME NEW k \in imports, ~Misread(code, code.imports[k]) PROVE taken(k) = called(k)
  BY <1>5, ReadAsMeant
<1>6. \A k \in imports : called(k) \in symbols => follow(k) = {called(k)}
  BY SymbolIsItself
<1> HIDE DEF imports, symbols, local, namesakes, taken, called, follow
<1>7. CASE call.form = "name" /\ local \in symbols
  BY <1>2, <1>3, <1>4, <1>7
<1>8. CASE ~(call.form = "name" /\ local \in symbols) /\ imports = {}
  <2>1. Exactly(code, root, call) = {}
    BY <1>4, <1>8
  <2> QED BY <1>2, <1>3, <1>8, <2>1
<1>9. CASE ~(call.form = "name" /\ local \in symbols) /\ imports # {}
  <2>1. PICK k \in imports : imports = {k}
    BY <1>1, <1>9
  <2>2. Exactly(code, root, call) = {taken(k)} \cap symbols
    <3>1. {j \in imports : \A l \in imports \ {j} : l < j} = {k}
      BY <2>1
    <3> QED BY <1>4, <1>9, <3>1
  <2>3. Meaning(code, root, call) = follow(k)
    BY <1>3, <1>9, <2>1
  <2>4. CASE ~Misread(code, code.imports[k]) /\ called(k) \in symbols
    <3>1. taken(k) = called(k) /\ follow(k) = {called(k)}
      BY <1>5, <1>6, <2>4
    <3> QED BY <1>2, <2>2, <2>3, <2>4, <3>1
  <2>5. CASE Misread(code, code.imports[k]) \/ called(k) \notin symbols
    <3>1. taken(k) \notin symbols
      BY <1>1, <1>5, <2>5
    <3>2. follow(k) \subseteq namesakes
      BY <1>1, <2>5
    <3> QED BY <1>2, <2>2, <2>3, <3>1, <3>2
  <2> QED BY <2>4, <2>5
<1> QED BY <1>7, <1>8, <1>9

\* So the graph has an edge for it.
LEMMA TrueEdgesAreFound ==
    ASSUME NEW code, NEW root, NEW call \in TrueCalls(code, root), ~Excused(code, root, call),
           NEW e \in TrueEdges(code, root, call), e[1] # e[2]
    PROVE  e \in CallEdges(code, root)
<1> DEFINE name == NameOf(code, root)
           f    == Enclosing(code)[call.at]
<1>1. /\ call \in code.calls /\ ~call.header /\ f # 0
      /\ IsSource(FileOfNode(code, call.at), root)
      /\ Loads(code, root, ModuleOfNode(code)[call.at])
  BY DEF TrueCalls
<1>2. PICK m \in Meaning(code, root, call) : e = <<name[f], m>>
  BY DEF TrueEdges
<1>3. m \in Resolve(code, root, call)
  BY <1>1, CallsResolve
<1>4. f \in CallersIn(code, call)
  BY <1>1 DEF CallersIn
<1> DEFINE edges(c) == {d \in {name[g] : g \in CallersIn(code, c)} \X Resolve(code, root, c) :
                          d[1] # d[2]}
<1>5. e \in edges(call)
  BY <1>2, <1>3, <1>4
<1>6. CallEdges(code, root)
        = UNION {edges(c) : c \in {c \in code.calls : IsSource(FileOfNode(code, c.at), root)}}
  BY DEF CallEdges
<1> HIDE DEF edges, f, name
<1> QED BY <1>1, <1>5, <1>6

\* What is reached in the first rounds, by the code and by the definition.
RoundsTo(touched, edges, n, f) ==
    f = [i \in 0 .. n |->
           IF i = 0 THEN [all |-> touched, frontier |-> touched]
           ELSE LET before == f[i - 1]
                    next   == Calling(before.frontier, edges) \ before.all
                IN  [all |-> before.all \cup next, frontier |-> next]]
ReachingTo(symbols, edges, n, g) ==
    g = [i \in 0 .. n |-> IF i = 0 THEN symbols ELSE g[i - 1] \cup Calling(g[i - 1], edges)]

\* One more round.
NextRound(edges, before) ==
    LET next == Calling(before.frontier, edges) \ before.all
    IN  [all |-> before.all \cup next, frontier |-> next]

\* There are such things: the definitions by recursion define what they say.
LEMMA RoundsAreDefined ==
    ASSUME NEW touched, NEW edges
    PROVE  /\ RoundsTo(touched, edges, Hops, Rounds(touched, edges))
           /\ ReachingTo(touched, edges, Hops, Reaching(touched, edges))
<1> DEFINE first == [all |-> touched, frontier |-> touched]
           bad == {n \in Nat : ~ \E f, g : RoundsTo(touched, edges, n, f)
                                           /\ ReachingTo(touched, edges, n, g)}
<1>1. bad = {}
  <2> SUFFICES ASSUME bad # {} PROVE FALSE
    OBVIOUS
  <2>1. PICK n \in bad : \A m \in bad : n <= m
    <3>1. bad \in SUBSET Nat
      OBVIOUS
    <3> HIDE DEF bad
    <3> QED BY <3>1, Least
  <2>2. n \in Nat /\ ~ \E f, g : RoundsTo(touched, edges, n, f) /\ ReachingTo(touched, edges, n, g)
    OBVIOUS
  <2>3. CASE n = 0
    <3> DEFINE f == [i \in 0 .. 0 |-> first]
               g == [i \in 0 .. 0 |-> touched]
    <3>1. RoundsTo(touched, edges, 0, f)
      BY DEF RoundsTo
    <3>2. ReachingTo(touched, edges, 0, g)
      BY DEF ReachingTo
    <3> HIDE DEF f, g
    <3> QED BY <2>2, <2>3, <3>1, <3>2
  <2>4. CASE n # 0
    <3>1. n - 1 \in Nat /\ n - 1 \notin bad
      BY <2>1, <2>2, <2>4
    <3>2. PICK a, b : RoundsTo(touched, edges, n - 1, a) /\ ReachingTo(touched, edges, n - 1, b)
      BY <3>1
    <3> HIDE DEF bad
    <3> DEFINE round(f, i) == IF i = 0 THEN first ELSE NextRound(edges, f[i - 1])
               reach(g, i) == IF i = 0 THEN touched ELSE g[i - 1] \cup Calling(g[i - 1], edges)
    <3>3. \A i \in 0 .. n - 1 : a[i] = round(a, i) /\ b[i] = reach(b, i)
      BY <3>2 DEF RoundsTo, ReachingTo, NextRound
    <3> DEFINE f == [i \in 0 .. n |-> IF i = n THEN NextRound(edges, a[n - 1]) ELSE a[i]]
               g == [i \in 0 .. n |-> IF i = n THEN b[n - 1] \cup Calling(b[n - 1], edges) ELSE b[i]]
    <3>4. \A i \in 0 .. n : /\ f[i] = IF i = n THEN NextRound(edges, a[n - 1]) ELSE a[i]
                            /\ g[i] = IF i = n THEN b[n - 1] \cup Calling(b[n - 1], edges) ELSE b[i]
      OBVIOUS
    <3>5. f = [i \in 0 .. n |-> f[i]] /\ g = [i \in 0 .. n |-> g[i]]
      OBVIOUS
    <3> HIDE DEF f, g
    <3>6. ASSUME NEW i \in 0 .. n PROVE f[i] = round(f, i) /\ g[i] = reach(g, i)
      <4>1. CASE i = 0
        <5>1. i # n /\ 0 \in 0 .. n - 1
          BY <2>2, <2>4, <4>1
        <5>2. f[i] = a[i] /\ g[i] = b[i]
          BY <3>4, <5>1
        <5>3. a[0] = first /\ b[0] = touched
          BY <3>3, <5>1
        <5> QED BY <4>1, <5>2, <5>3
      <4>2. CASE i # 0
        <5>1. i - 1 \in 0 .. n /\ i - 1 # n /\ f[i - 1] = a[i - 1] /\ g[i - 1] = b[i - 1]
          BY <2>2, <3>4, <4>2
        <5>2. CASE i = n
          BY <3>4, <4>2, <5>1, <5>2
        <5>3. CASE i # n
          <6>1. i \in 0 .. n - 1 /\ f[i] = a[i] /\ g[i] = b[i]
            BY <2>2, <3>4, <5>3
          <6> QED BY <3>3, <4>2, <5>1, <6>1
        <5> QED BY <5>2, <5>3
      <4> QED BY <4>1, <4>2
    <3>7. RoundsTo(touched, edges, n, f)
      BY <3>5, <3>6 DEF RoundsTo, NextRound
    <3>8. ReachingTo(touched, edges, n, g)
      BY <3>5, <3>6 DEF ReachingTo
    <3> QED BY <2>2, <3>7, <3>8
  <2> QED BY <2>3, <2>4
<1>2. PICK f, g : RoundsTo(touched, edges, Hops, f) /\ ReachingTo(touched, edges, Hops, g)
  BY <1>1, CallGraphAssumption
<1>3. Rounds(touched, edges) = CHOOSE h : RoundsTo(touched, edges, Hops, h)
  BY DEF Rounds, RoundsTo
<1>4. Reaching(touched, edges) = CHOOSE h : ReachingTo(touched, edges, Hops, h)
  BY DEF Reaching, ReachingTo
<1> QED BY <1>2, <1>3, <1>4

\* What is in the radius of a change is what reaches it in so many calls: a symbol found
\* in an earlier round need not be looked at again.
LEMMA RadiusIsReach ==
    ASSUME NEW touched, NEW edges
    PROVE  BlastRadius(touched, edges) = Reaching(touched, edges)[Hops]
<1> DEFINE f == Rounds(touched, edges)
           g == Reaching(touched, edges)
           settled(i) == Calling(g[i] \ f[i].frontier, edges) \subseteq g[i]
           bad == {i \in 0 .. Hops : ~(f[i].all = g[i] /\ f[i].frontier \subseteq g[i] /\ settled(i))}
<1>1. Hops \in Nat
  BY CallGraphAssumption
<1>2. /\ f = [i \in 0 .. Hops |-> IF i = 0 THEN [all |-> touched, frontier |-> touched]
                                  ELSE NextRound(edges, f[i - 1])]
      /\ g = [i \in 0 .. Hops |-> IF i = 0 THEN touched ELSE g[i - 1] \cup Calling(g[i - 1], edges)]
  <2>1. RoundsTo(touched, edges, Hops, f) /\ ReachingTo(touched, edges, Hops, g)
    BY RoundsAreDefined
  <2> HIDE DEF f, g
  <2> QED BY <2>1 DEF RoundsTo, ReachingTo, NextRound
<1> HIDE DEF f, g
<1>3. bad = {}
  <2> SUFFICES ASSUME bad # {} PROVE FALSE
    OBVIOUS
  <2>1. PICK i \in bad : \A j \in bad : i <= j
    <3>1. bad \in SUBSET Nat
      BY <1>1
    <3> HIDE DEF bad
    <3> QED BY <3>1, Least
  <2>2. i \in 0 .. Hops
    OBVIOUS
  <2>3. CASE i = 0
    <3>1. f[0].all = touched /\ f[0].frontier = touched /\ g[0] = touched
      BY <1>1, <1>2
    <3>2. Calling({}, edges) = {}
      BY DEF Calling
    <3> QED BY <2>3, <3>1, <3>2
  <2>4. CASE i # 0
    <3>1. i - 1 \in 0 .. Hops /\ i - 1 \notin bad
      <4>1. i - 1 \in 0 .. Hops /\ ~(i <= i - 1)
        BY <1>1, <2>2, <2>4
      <4> HIDE DEF bad
      <4> QED BY <2>1, <4>1
    <3> DEFINE all == g[i - 1]
               frontier == f[i - 1].frontier
               next == Calling(frontier, edges) \ all
    <3>2. f[i - 1].all = all /\ frontier \subseteq all /\ Calling(all \ frontier, edges) \subseteq all
      BY <3>1
    <3>3. f[i] = NextRound(edges, f[i - 1]) /\ g[i] = all \cup Calling(all, edges)
      BY <1>2, <2>2, <2>4
    <3>4. f[i].all = all \cup next /\ f[i].frontier = next
      BY <3>2, <3>3 DEF NextRound
    <3> HIDE DEF bad, all, frontier
    <3>5. g[i] = all \cup next
      <4>1. \A e \in edges : e[2] \in all => e[1] \in all \/ e[1] \in Calling(frontier, edges)
        BY <3>2 DEF Calling
      <4>2. Calling(all, edges) \subseteq all \cup Calling(frontier, edges)
        BY <4>1 DEF Calling
      <4>3. Calling(frontier, edges) \subseteq Calling(all, edges)
        BY <3>2 DEF Calling
      <4> QED BY <3>3, <4>2, <4>3
    <3>6. Calling(g[i] \ next, edges) \subseteq g[i]
      <4>1. \A e \in edges : e[2] \in g[i] \ next => e[1] \in g[i]
        <5>1. \A e \in edges : e[2] \in all => e[1] \in Calling(all, edges)
          BY DEF Calling
        <5> QED BY <3>3, <3>5, <5>1
      <4> HIDE DEF next
      <4> QED BY <4>1 DEF Calling
    <3>7. f[i].all = g[i] /\ f[i].frontier \subseteq g[i] /\ settled(i)
      BY <3>4, <3>5, <3>6
    <3> QED BY <2>2, <3>7 DEF bad
  <2> QED BY <2>3, <2>4
<1>4. f[Hops].all = g[Hops]
  <2>1. Hops \in 0 .. Hops
    BY <1>1
  <2>2. ~(Hops \in bad) => f[Hops].all = g[Hops]
    BY <2>1
  <2> HIDE DEF bad
  <2> QED BY <1>3, <2>2
<1> QED BY <1>4 DEF BlastRadius, f, g

\* No caller is missed in any code, but those that are known to be.
LEMMA EveryCallerFound ==
    ASSUME NEW code, NEW root
    PROVE  CallersFound(code, root)
<1>1. ASSUME NEW c \in TrueCalls(code, root), ~Excused(code, root, c),
             NEW e \in TrueEdges(code, root, c)
      PROVE  e[1] = e[2] \/ e \in CallEdges(code, root)
  BY <1>1, TrueEdgesAreFound
<1> QED BY <1>1, RadiusIsReach DEF CallersFound

\* What is stored of the calls: all that each commit indexed has.
Counted ==
    /\ indexed \subseteq DOMAIN Checkout
    /\ IsFiniteSet(call_edges)
    /\ \A c \in indexed : Spelled[c] \subseteq call_edges

\* It holds at the start.
LEMMA CountedInit == Init => Counted
<1> SUFFICES ASSUME Init PROVE Counted
  OBVIOUS
<1>1. indexed \in SUBSET DOMAIN Checkout /\ call_edges = UNION {Spelled[c] : c \in indexed}
  BY VerificationAssumption DEF Init
<1> QED BY <1>1, SpelledIsFinite DEF Counted

\* Every step keeps it: what an earlier commit had stays.
LEMMA CountedStep == Counted /\ [Next]_vars => Counted'
<1> SUFFICES ASSUME Counted, [Next]_vars PROVE Counted'
  OBVIOUS
<1>1. CASE UNCHANGED <<call_edges, indexed>>
  BY <1>1 DEF Counted
<1>2. CASE Keepers
  <2>1. CASE \E c \in DOMAIN Checkout \ indexed :
               indexed' = indexed \cup {c} /\ call_edges' = call_edges \cup Spelled[c]
    <3>1. PICK c \in DOMAIN Checkout :
                 indexed' = indexed \cup {c} /\ call_edges' = call_edges \cup Spelled[c]
      BY <2>1
    <3>2. IsFiniteSet(Spelled[c])
      <4>1. IsFiniteSet(UNION {Spelled[d] : d \in {c}})
        BY SpelledIsFinite
      <4>2. UNION {Spelled[d] : d \in {c}} = Spelled[c]
        OBVIOUS
      <4> QED BY <4>1, <4>2
    <3>3. IsFiniteSet(call_edges')
      <4>1. IsFiniteSet(call_edges \cup Spelled[c])
        BY <3>2, FS_Union DEF Counted
      <4> QED BY <3>1, <4>1
    <3> QED BY <3>1, <3>3 DEF Counted
  <2>2. CASE UNCHANGED <<call_edges, indexed>>
    BY <1>1, <2>2
  <2> QED BY <1>2, <2>1, <2>2 DEF Keepers, PutCallEdges
<1>3. CASE CompareSuites \/ CompareSurface \/ CompareLint \/ Ground \/ GroundFails \/ Attach \/ Rank
  BY <1>1, <1>3 DEF CompareSuites, CompareSurface, CompareLint, Ground, GroundFails, Attach, Rank,
                    keeperVars
<1>4. CASE Group \/ Gather \/ SkipPacket \/ Garbled \/ Ask \/ EndAnswer \/ Settle
  BY <1>1, <1>4 DEF Group, Gather, SkipPacket, Garbled, Ask, EndAnswer, Settle, keeperVars
<1>5. CASE \E id \in Ids(held), cited, backing \in Offer, suggested \in BOOLEAN,
              assessment \in {"diverges_from_repo", "probe_false_positive", "unusable"} :
                Take(id, assessment, cited, suggested, backing)
  BY <1>1, <1>5 DEF Take, keeperVars
<1>6. CASE Store \/ Fails \/ Crash
  BY <1>1, <1>6 DEF Store, Fails, Crash, keeperVars
<1>7. CASE UNCHANGED vars
  BY <1>1, <1>7 DEF vars, keeperVars
<1> QED BY <1>2, <1>3, <1>4, <1>5, <1>6, <1>7 DEF Next

\* In such a state no caller is missing from what is stored.
LEMMA CountedIsFound == Counted => CallersAreFound
<1> SUFFICES ASSUME Counted PROVE CallersAreFound
  OBVIOUS
<1>1. indexed \subseteq AllCallersFound
  BY EveryCallerFound DEF Counted, AllCallersFound
<1>2. ASSUME NEW c \in indexed, NEW e \in Spelled[c]
      PROVE  callers[e[2]] >= Cardinality({d \in Spelled[c] : d[2] = e[2]})
  <2> DEFINE stored == {d \in call_edges : d[2] = e[2]}
             there  == {d \in Spelled[c] : d[2] = e[2]}
  <2>1. e \in call_edges /\ Spelled[c] \subseteq call_edges
    BY <1>2 DEF Counted
  <2>2. callers[e[2]] = Cardinality(stored)
    BY <2>1 DEF callers, CallerCounts
  <2>3. there \subseteq stored /\ stored \subseteq call_edges
    BY <2>1
  <2> HIDE DEF stored, there
  <2>4. IsFiniteSet(stored)
    BY <2>3, FS_Subset DEF Counted
  <2>5. Cardinality(there) <= Cardinality(stored) /\ Cardinality(there) \in Nat
        /\ Cardinality(stored) \in Nat
    BY <2>3, <2>4, FS_Subset, FS_CardinalityType
  <2>6. Cardinality(stored) >= Cardinality(there)
    BY <2>5
  <2> QED BY <2>2, <2>6 DEF there
<1> QED BY <1>1, <1>2 DEF CallersAreFound

\* Whatever the code of the commits is, every caller that Python would call from is in the
\* graph of each, but those it is known to miss; a change reaches what calls it in so many
\* calls; and no caller of an earlier commit is lost from the counts (build_call_graph,
\* blast_radius, put_call_edges).
THEOREM CallersAreAllFound == Spec => []CallersAreFound
<1>1. Spec => []Counted
  BY CountedInit, CountedStep, PTL DEF Spec
<1> QED BY <1>1, CountedIsFound, PTL

----------------------------------------------------------------------------
(* Where the change is checked from the command line *)

\* The world the change is checked in is of a kind there is.
Local == "local" \in DOMAIN scenario /\ scenario.local \in DOMAIN World

LEMMA LocalInit == Init => Local
  BY VerificationAssumption DEF Init, Local

\* Every step keeps it: the fork of the pull request may change, its world does not.
LEMMA LocalStep == Local /\ [Next]_vars => Local'
<1> SUFFICES ASSUME Local, [Next]_vars PROVE Local'
  OBVIOUS
<1>1. CASE UNCHANGED scenario
  BY <1>1 DEF Local
<1>2. CASE CompareSuites
  <2>1. \E fork : scenario' = [scenario EXCEPT !.fork = fork] \/ UNCHANGED scenario
    BY <1>2 DEF CompareSuites
  <2> QED BY <1>1, <2>1 DEF Local
<1>3. CASE \/ CompareSurface \/ CompareLint \/ Ground \/ GroundFails \/ Attach \/ Rank
           \/ Group \/ Gather \/ SkipPacket \/ Garbled \/ Ask \/ EndAnswer \/ Settle
           \/ Store \/ Fails \/ Crash \/ Keepers
  BY <1>1, <1>3
     DEF CompareSurface, CompareLint, Ground, GroundFails, Attach, Rank, Group, Gather,
         SkipPacket, Garbled, Ask, EndAnswer, Settle, Store, Fails, Crash, Keepers
<1>4. CASE \E id \in Ids(held), cited, backing \in Offer, suggested \in BOOLEAN,
              assessment \in {"diverges_from_repo", "probe_false_positive", "unusable"} :
                Take(id, assessment, cited, suggested, backing)
  BY <1>1, <1>4 DEF Take
<1>5. CASE UNCHANGED vars
  BY <1>1, <1>5 DEF vars
<1> QED BY <1>2, <1>3, <1>4, <1>5 DEF Next

LEMMA LocalIsKept == Spec => []Local
<1> QED BY LocalInit, LocalStep, PTL DEF Spec

\* Whatever the world is - how often a container dies, what a test says each time, what the
\* model writes and writes anew, what is cached - a behaviour change that is told of was
\* passed by two executions on the base, of which neither is the other cached, and not by
\* one on the head (validate_on_base, differential).
THEOREM ChangesAreRecordedTwice == Spec => []RecordedTwice
<1>1. Local => RecordedTwice
  BY AllAreWellRecorded DEF Local, RecordedTwice
<1> QED BY <1>1, LocalIsKept, PTL

\* Whatever the world is, what is told of is what was run on the head and did not pass, or
\* nothing when the differential is skipped; the state of the pipeline agrees; and the same
\* check again says the same and runs nothing (differential, run_job, _check,
\* _pipeline_state).
THEOREM ChangesAreAllTold == Spec => []AllIsTold
<1>1. Local => AllIsTold
  BY AllAreWellTold DEF Local, AllIsTold
<1> QED BY <1>1, LocalIsKept, PTL

----------------------------------------------------------------------------
(* The parts of an atlas *)

\* Sets of which no two have a common element.
Apart(sets) == \A x, y \in DOMAIN sets : x # y => sets[x] \cap sets[y] = {}
Joined(sets, s) == UNION {sets[x] : x \in s}

LEMMA JoinedIsFinite ==
    ASSUME NEW sets, IsFiniteSet(DOMAIN sets), \A x \in DOMAIN sets : IsFiniteSet(sets[x]),
           NEW s \in SUBSET DOMAIN sets
    PROVE  /\ IsFiniteSet(s) /\ IsFiniteSet(Joined(sets, s))
           /\ Cardinality(s) \in Nat /\ Cardinality(Joined(sets, s)) \in Nat
<1>1. IsFiniteSet(s)
  BY FS_Subset
<1> DEFINE parts == {sets[x] : x \in s}
<1>2. IsFiniteSet(parts)
  BY <1>1, ValuesAreFinite
<1>3. \A p \in parts : IsFiniteSet(p)
  OBVIOUS
<1>4. IsFiniteSet(UNION parts)
  <2> HIDE DEF parts
  <2> QED BY <1>2, <1>3, FS_UNION
<1> QED BY <1>1, <1>4, FS_CardinalityType DEF Joined

\* One set more.
LEMMA JoinedGrows ==
    ASSUME NEW sets, IsFiniteSet(DOMAIN sets), \A x \in DOMAIN sets : IsFiniteSet(sets[x]),
           Apart(sets), NEW s \in SUBSET DOMAIN sets, NEW x \in s
    PROVE  Cardinality(Joined(sets, s)) = Cardinality(sets[x]) + Cardinality(Joined(sets, s \ {x}))
<1> DEFINE rest == Joined(sets, s \ {x})
           one  == sets[x]
<1>1. Joined(sets, s) = one \cup rest
  BY DEF Joined
<1>2. one \cap rest = {}
  <2> SUFFICES ASSUME NEW e \in one, e \in rest PROVE FALSE
    OBVIOUS
  <2>1. PICK y \in s \ {x} : e \in sets[y]
    BY DEF Joined
  <2> QED BY <2>1 DEF Apart
<1>3. IsFiniteSet(rest) /\ IsFiniteSet(one)
  BY JoinedIsFinite
<1> HIDE DEF rest, one
<1>4. Cardinality(one \cup rest) = Cardinality(one) + Cardinality(rest) - Cardinality({})
  BY <1>2, <1>3, FS_Union
<1> QED BY <1>1, <1>3, <1>4, FS_EmptySet, FS_CardinalityType DEF rest, one

\* The sum of sizes, as a function of the part that is summed.
SumsTo(w, f) ==
    f = [s \in SUBSET DOMAIN w |->
           IF s = {} THEN 0 ELSE LET x == CHOOSE x \in s : TRUE IN w[x] + f[s \ {x}]]

\* What is summed is counted: the sizes of sets apart sum up to the size of their union.
LEMMA SumIsCount ==
    ASSUME NEW sets, IsFiniteSet(DOMAIN sets), \A x \in DOMAIN sets : IsFiniteSet(sets[x]),
           Apart(sets), NEW w, DOMAIN w = DOMAIN sets,
           \A x \in DOMAIN sets : w[x] = Cardinality(sets[x])
    PROVE  Sums!SumFunction(w) = Cardinality(Joined(sets, DOMAIN sets))
<1> DEFINE D == DOMAIN sets
           g == [s \in SUBSET D |-> Cardinality(Joined(sets, s))]
           f == CHOOSE f : SumsTo(w, f)
<1>1. SumsTo(w, g)
  <2>1. ASSUME NEW s \in SUBSET D, s # {}
        PROVE  LET x == CHOOSE x \in s : TRUE IN g[s] = w[x] + g[s \ {x}]
    <3> DEFINE x == CHOOSE x \in s : TRUE
    <3>1. x \in s
      BY <2>1
    <3> HIDE DEF x
    <3>2. Cardinality(Joined(sets, s)) = Cardinality(sets[x]) + Cardinality(Joined(sets, s \ {x}))
      BY <3>1, JoinedGrows
    <3>3. s \ {x} \in SUBSET D
      OBVIOUS
    <3>4. g[s] = w[x] + g[s \ {x}]
      BY <3>1, <3>2, <3>3
    <3> QED BY <3>4 DEF x
  <2>2. g[{}] = 0
    <3>1. Joined(sets, {}) = {}
      BY DEF Joined
    <3> QED BY <3>1, FS_EmptySet
  <2>3. g = [s \in SUBSET DOMAIN w |->
           IF s = {} THEN 0 ELSE LET x == CHOOSE x \in s : TRUE IN w[x] + g[s \ {x}]]
    <3>1. g = [s \in SUBSET D |-> g[s]]
      OBVIOUS
    <3> HIDE DEF g
    <3> QED BY <2>1, <2>2, <3>1
  <2> HIDE DEF g
  <2> QED BY <2>3 DEF SumsTo
<1>2. SumsTo(w, f)
  <2> HIDE DEF g
  <2> QED BY <1>1
<1> HIDE DEF f
<1>3. Sums!SumFunction(w) = f[D]
  <2>1. Sums!SumFunction(w) = (CHOOSE h : SumsTo(w, h))[DOMAIN w]
    BY DEF SumsTo, Sums!SumFunction, Sums!SumFunctionOnSet, Sums!FoldFunctionOnSet,
           Sums!MapThenFoldSet
  <2> QED BY <2>1 DEF f
<1>4. \A s \in SUBSET D : f[s] = Cardinality(Joined(sets, s))
  <2> DEFINE bad == {n \in Nat : \E s \in SUBSET D :
                        Cardinality(s) = n /\ f[s] # Cardinality(Joined(sets, s))}
  <2> SUFFICES bad = {}
    <3>1. \A s \in SUBSET D : Cardinality(s) \in Nat
      BY JoinedIsFinite
    <3> QED BY <3>1
  <2> SUFFICES ASSUME bad # {} PROVE FALSE
    OBVIOUS
  <2>1. PICK n \in bad : \A k \in bad : n <= k
    <3>1. bad \in SUBSET Nat
      OBVIOUS
    <3> HIDE DEF bad
    <3> QED BY <3>1, Least
  <2>2. PICK s \in SUBSET D : Cardinality(s) = n /\ f[s] # Cardinality(Joined(sets, s))
    OBVIOUS
  <2>3. CASE s = {}
    <3>1. f[s] = 0
      BY <1>2, <2>3 DEF SumsTo
    <3>2. Joined(sets, s) = {}
      BY <2>3 DEF Joined
    <3> QED BY <2>2, <3>1, <3>2, FS_EmptySet
  <2>4. CASE s # {}
    <3> DEFINE x == CHOOSE x \in s : TRUE
    <3>1. x \in s
      BY <2>4
    <3>2. f[s] = w[x] + f[s \ {x}]
      BY <1>2, <2>4 DEF SumsTo
    <3> HIDE DEF x
    <3>3. Cardinality(s \ {x}) = n - 1 /\ n - 1 \in Nat
      <4>1. IsFiniteSet(s) /\ Cardinality(s) \in Nat
        BY JoinedIsFinite
      <4>2. Cardinality(s \ {x}) = n - 1
        BY <2>2, <3>1, <4>1, FS_RemoveElement
      <4>3. Cardinality(s \ {x}) \in Nat
        BY JoinedIsFinite
      <4> QED BY <4>2, <4>3
    <3>4. f[s \ {x}] = Cardinality(Joined(sets, s \ {x}))
      <4>1. n - 1 \notin bad
        <5>1. n \in Nat
          OBVIOUS
        <5> HIDE DEF bad
        <5> QED BY <2>1, <3>3, <5>1
      <4> QED BY <3>3, <4>1
    <3>5. Cardinality(Joined(sets, s)) = Cardinality(sets[x]) + Cardinality(Joined(sets, s \ {x}))
      BY <3>1, JoinedGrows
    <3> QED BY <2>2, <3>1, <3>2, <3>4, <3>5
  <2> QED BY <2>3, <2>4
<1> QED BY <1>3, <1>4

\* How many of a set fall to some of its parts: as many as to each, summed up.
LEMMA PartsCount ==
    ASSUME NEW S, IsFiniteSet(S), NEW g, NEW w, IsFiniteSet(DOMAIN w),
           \A m \in DOMAIN w : w[m] = Cardinality({i \in S : g[i] = m})
    PROVE  Sums!SumFunction(w) = Cardinality({i \in S : g[i] \in DOMAIN w})
<1> DEFINE sets == [m \in DOMAIN w |-> {i \in S : g[i] = m}]
<1>1. \A m \in DOMAIN w : IsFiniteSet({i \in S : g[i] = m})
  BY FS_Subset
<1>2. /\ DOMAIN sets = DOMAIN w /\ \A m \in DOMAIN w : IsFiniteSet(sets[m])
      /\ \A m \in DOMAIN w : w[m] = Cardinality(sets[m])
  BY <1>1
<1>3. Apart(sets)
  BY DEF Apart
<1>4. Joined(sets, DOMAIN sets) = {i \in S : g[i] \in DOMAIN w}
  BY DEF Joined
<1> HIDE DEF sets
<1> QED BY <1>2, <1>3, <1>4, SumIsCount

\* Whatever is measured of the elements of a set sums up to the same, part by part.
PartSum(I, g, loc, m) == Sums!SumFunction([i \in {j \in I : g[j] = m} |-> loc[i]])

LEMMA PartsSum ==
    ASSUME NEW I, IsFiniteSet(I), NEW g, NEW loc, \A i \in I : loc[i] \in Nat,
           NEW w, DOMAIN w = {g[i] : i \in I},
           \A m \in DOMAIN w : w[m] = PartSum(I, g, loc, m)
    PROVE  Sums!SumFunction(w) = Sums!SumFunction([i \in I |-> loc[i]])
<1> DEFINE units(J) == [i \in J |-> {i} \X (1 .. loc[i])]
           part(m)  == {j \in I : g[j] = m}
<1>1. ASSUME NEW J \in SUBSET I
      PROVE  /\ Sums!SumFunction([i \in J |-> loc[i]]) = Cardinality(Joined(units(J), J))
             /\ IsFiniteSet(Joined(units(J), J))
  <2> DEFINE sets == units(J)
             v    == [i \in J |-> loc[i]]
  <2>1. IsFiniteSet(J)
    BY FS_Subset
  <2>2. ASSUME NEW i \in J
        PROVE  IsFiniteSet(sets[i]) /\ Cardinality(sets[i]) = v[i]
    <3> DEFINE n == loc[i]
    <3>1. n \in Nat
      OBVIOUS
    <3> HIDE DEF n
    <3>2. IsFiniteSet(1 .. n) /\ Cardinality(1 .. n) = n
      <4>1. IsFiniteSet(1 .. n) /\ Cardinality(1 .. n) = IF 1 > n THEN 0 ELSE n - 1 + 1
        BY <3>1, FS_Interval
      <4> QED BY <3>1, <4>1
    <3>3. IsFiniteSet({i}) /\ Cardinality({i}) = 1
      BY FS_Singleton
    <3>4. IsFiniteSet({i} \X (1 .. n)) /\ Cardinality({i} \X (1 .. n)) = 1 * n
      <4> DEFINE one  == {i}
                 many == 1 .. n
      <4> HIDE DEF one, many
      <4>1. IsFiniteSet(one) /\ Cardinality(one) = 1 /\ IsFiniteSet(many) /\ Cardinality(many) = n
        BY <3>2, <3>3 DEF one, many
      <4>2. IsFiniteSet(one \X many) /\ Cardinality(one \X many) = 1 * n
        BY <4>1, FS_Product
      <4> QED BY <4>2 DEF one, many
    <3>5. Cardinality({i} \X (1 .. n)) = n
      BY <3>1, <3>4
    <3> QED BY <3>4, <3>5 DEF n
  <2>3. Apart(sets) /\ DOMAIN sets = J /\ DOMAIN v = J
    BY DEF Apart
  <2> HIDE DEF sets, v
  <2>4. Sums!SumFunction(v) = Cardinality(Joined(sets, J))
    BY <2>1, <2>2, <2>3, SumIsCount
  <2>5. IsFiniteSet(Joined(sets, J))
    BY <2>1, <2>2, <2>3, JoinedIsFinite
  <2> QED BY <2>4, <2>5 DEF sets, v
<1> DEFINE sets == [m \in DOMAIN w |-> Joined(units(part(m)), part(m))]
<1>2. \A m \in DOMAIN w : IsFiniteSet(sets[m]) /\ w[m] = Cardinality(sets[m])
  <2> SUFFICES ASSUME NEW m \in DOMAIN w
               PROVE  IsFiniteSet(sets[m]) /\ w[m] = Cardinality(sets[m])
    OBVIOUS
  <2>1. part(m) \in SUBSET I
    OBVIOUS
  <2> HIDE DEF units
  <2>2. /\ Sums!SumFunction([i \in part(m) |-> loc[i]]) = Cardinality(sets[m])
        /\ IsFiniteSet(sets[m])
    BY <1>1, <2>1
  <2>3. w[m] = Sums!SumFunction([i \in part(m) |-> loc[i]])
    BY DEF PartSum
  <2> QED BY <2>2, <2>3
<1>3. IsFiniteSet(DOMAIN w)
  BY ValuesAreFinite
<1> DEFINE unit(i) == {i} \X (1 .. loc[i])
<1>4. /\ \A i : \A u \in unit(i) : u[1] = i
      /\ \A J : Joined(units(J), J) = UNION {unit(i) : i \in J}
  BY DEF Joined
<1> HIDE DEF unit, units
<1>5. /\ Apart(sets)
      /\ Joined(sets, DOMAIN w) = Joined(units(I), I)
  <2>1. \A m \in DOMAIN w : sets[m] = UNION {unit(i) : i \in part(m)}
    BY <1>4
  <2>2. Apart(sets)
    <3> SUFFICES ASSUME NEW m \in DOMAIN w, NEW n \in DOMAIN w, NEW u \in sets[m], u \in sets[n]
                 PROVE  m = n
      BY DEF Apart
    <3>1. u[1] \in part(m) /\ u[1] \in part(n)
      BY <1>4, <2>1
    <3> QED BY <3>1
  <2>3. Joined(sets, DOMAIN w) = UNION {unit(i) : i \in I}
    <3> HIDE DEF sets
    <3>1. ASSUME NEW u \in Joined(sets, DOMAIN w) PROVE \E i \in I : u \in unit(i)
      <4>1. PICK m \in DOMAIN w : u \in sets[m]
        BY DEF Joined
      <4>2. u \in UNION {unit(i) : i \in part(m)}
        BY <2>1, <4>1
      <4> QED BY <4>2
    <3>2. ASSUME NEW i \in I, NEW u \in unit(i) PROVE u \in Joined(sets, DOMAIN w)
      <4>1. g[i] \in DOMAIN w /\ i \in part(g[i])
        OBVIOUS
      <4>2. u \in UNION {unit(j) : j \in part(g[i])}
        BY <4>1
      <4>3. u \in sets[g[i]]
        BY <2>1, <4>1, <4>2
      <4> QED BY <4>1, <4>3 DEF Joined
    <3> QED BY <3>1, <3>2
  <2> QED BY <1>4, <2>2, <2>3
<1> HIDE DEF sets
<1>6. DOMAIN sets = DOMAIN w
  BY DEF sets
<1>7. Sums!SumFunction(w) = Cardinality(Joined(sets, DOMAIN w))
  BY <1>2, <1>3, <1>5, <1>6, SumIsCount
<1> QED BY <1>1, <1>5, <1>7

\* Of finitely many weights there is a heaviest.
LEMMA HeaviestExists ==
    ASSUME NEW S, IsFiniteSet(S), S # {}, NEW w, \A x \in S : w[x] \in Nat
    PROVE  \E x \in S : \A y \in S : w[y] <= w[x]
<1> DEFINE bad == {n \in Nat : \E T \in SUBSET S : /\ Cardinality(T) = n /\ T # {}
                                                 /\ ~ \E x \in T : \A y \in T : w[y] <= w[x]}
<1> SUFFICES bad = {}
  <2>1. Cardinality(S) \in Nat
    BY FS_CardinalityType
  <2> QED BY <2>1
<1> SUFFICES ASSUME bad # {} PROVE FALSE
  OBVIOUS
<1>1. PICK n \in bad : \A k \in bad : n <= k
  <2>1. bad \in SUBSET Nat
    OBVIOUS
  <2> HIDE DEF bad
  <2> QED BY <2>1, Least
<1>2. PICK T \in SUBSET S : /\ Cardinality(T) = n /\ T # {}
                            /\ ~ \E x \in T : \A y \in T : w[y] <= w[x]
  OBVIOUS
<1>3. PICK t \in T : TRUE
  BY <1>2
<1> DEFINE R == T \ {t}
<1>4. IsFiniteSet(T) /\ n \in Nat /\ Cardinality(R) = n - 1 /\ Cardinality(R) \in Nat
  <2>1. IsFiniteSet(T) /\ n \in Nat
    BY FS_Subset
  <2>2. Cardinality(T \ {t}) = n - 1 /\ IsFiniteSet(T \ {t})
    BY <1>2, <1>3, <2>1, FS_RemoveElement
  <2> QED BY <2>1, <2>2, FS_CardinalityType
<1>5. R = {} \/ \E x \in R : \A y \in R : w[y] <= w[x]
  <2>1. n - 1 \notin bad
    <3> HIDE DEF bad, R
    <3> QED BY <1>1, <1>4
  <2> QED BY <1>4, <2>1
<1> HIDE DEF bad
<1>6. CASE R = {}
  <2>1. \A y \in T : y = t
    BY <1>6
  <2> QED BY <1>2, <1>3, <2>1
<1>7. CASE \E x \in R : \A y \in R : w[y] <= w[x]
  <2>1. PICK x \in R : \A y \in R : w[y] <= w[x]
    BY <1>7
  <2>2. \A y \in T : y \in R \/ y = t
    OBVIOUS
  <2>3. x \in T /\ w[x] \in Nat /\ w[t] \in Nat /\ \A y \in T : w[y] \in Nat
    BY <1>3
  <2>4. CASE w[t] <= w[x]
    <3>1. \A y \in T : w[y] <= w[x]
      BY <2>1, <2>2, <2>4
    <3> QED BY <1>2, <2>3, <3>1
  <2>5. CASE w[x] <= w[t]
    <3>1. \A y \in T : w[y] <= w[t]
      BY <2>1, <2>2, <2>3, <2>5
    <3> QED BY <1>2, <1>3, <3>1
  <2> QED BY <2>3, <2>4, <2>5
<1> QED BY <1>5, <1>6, <1>7

\* So there are the so many heaviest.
Heavier(S, w, B) == \A x \in S \ B, y \in B : ~ (w[x] > w[y])

LEMMA BestExist ==
    ASSUME NEW S, IsFiniteSet(S), NEW w, \A x \in S : w[x] \in Nat,
           NEW k \in Nat, k <= Cardinality(S)
    PROVE  \E B \in SUBSET S : Cardinality(B) = k /\ Heavier(S, w, B)
<1> DEFINE c == Cardinality(S)
           bad == {n \in Nat : n <= c /\ ~ \E B \in SUBSET S : Cardinality(B) = n /\ Heavier(S, w, B)}
<1> SUFFICES ASSUME bad # {} PROVE FALSE
  OBVIOUS
<1>1. PICK n \in bad : \A j \in bad : n <= j
  <2>1. bad \in SUBSET Nat
    OBVIOUS
  <2> HIDE DEF bad
  <2> QED BY <2>1, Least
<1>2. n \in Nat /\ n <= c /\ c \in Nat
  BY FS_CardinalityType
<1>3. ~ \E B \in SUBSET S : Cardinality(B) = n /\ Heavier(S, w, B)
  OBVIOUS
<1>4. CASE n = 0
  <2>1. Cardinality({}) = 0
    BY FS_EmptySet
  <2> QED BY <1>3, <1>4, <2>1 DEF Heavier
<1>5. CASE n # 0
  <2>1. PICK B \in SUBSET S : Cardinality(B) = n - 1 /\ Heavier(S, w, B)
    <3>1. n - 1 \in Nat /\ n - 1 <= c /\ n - 1 \notin bad
      <4> HIDE DEF bad, c
      <4> QED BY <1>1, <1>2, <1>5
    <3> QED BY <3>1
  <2> HIDE DEF bad
  <2>2. IsFiniteSet(B) /\ IsFiniteSet(S \ B) /\ S \ B # {}
    <3>1. IsFiniteSet(B) /\ IsFiniteSet(S \ B)
      <4> DEFINE R == S \ B
      <4>1. R \in SUBSET S
        OBVIOUS
      <4> HIDE DEF R
      <4>2. IsFiniteSet(R) /\ IsFiniteSet(B)
        BY <4>1, FS_Subset
      <4> QED BY <4>2 DEF R
    <3>2. B # S
      BY <1>2, <2>1
    <3> QED BY <3>1, <3>2
  <2>3. PICK x \in S \ B : \A y \in S \ B : w[y] <= w[x]
    <3> DEFINE R == S \ B
    <3>1. IsFiniteSet(R) /\ R # {} /\ \A y \in R : w[y] \in Nat
      BY <2>2
    <3> HIDE DEF R
    <3>2. \E x \in R : \A y \in R : w[y] <= w[x]
      BY <3>1, HeaviestExists
    <3> QED BY <3>2 DEF R
  <2>4. Cardinality(B \cup {x}) = n
    <3>1. Cardinality(B \cup {x}) = n - 1 + 1
      BY <2>1, <2>2, <2>3, FS_AddElement
    <3> QED BY <1>2, <3>1
  <2>5. Heavier(S, w, B \cup {x})
    <3> SUFFICES ASSUME NEW y \in S \ (B \cup {x}), NEW z \in B \cup {x}, w[y] > w[z] PROVE FALSE
      BY DEF Heavier
    <3>1. y \in S \ B /\ w[y] \in Nat /\ w[x] \in Nat
      BY <2>3
    <3>2. CASE z \in B
      BY <2>1, <3>1, <3>2 DEF Heavier
    <3>3. CASE z = x
      BY <2>3, <3>1, <3>3
    <3> QED BY <3>2, <3>3
  <2> QED BY <1>3, <2>3, <2>4, <2>5
<1> QED BY <1>4, <1>5

\* The fields of the modules of an atlas.
PartOf(code, m) == {i \in Inventory(code) : ModuleOf(code.files[i]) = m}

IsModule(code, structure, m, module) ==
    /\ module.files = Cardinality(PartOf(code, m))
    /\ module.test_files = Cardinality(Tests(code, PartOf(code, m)))
    /\ module.loc = Sums!SumFunction([i \in PartOf(code, m) |-> code.files[i].loc])
    /\ module.symbols = Cardinality({s \in DOMAIN structure.symbols :
                                      ModuleOfSymbol(code, structure, s) = m})

LEMMA ModuleFields ==
    ASSUME NEW code, NEW structure
    PROVE  /\ DOMAIN Modules(code, structure) = {ModuleOf(code.files[i]) : i \in Inventory(code)}
           /\ \A m \in DOMAIN Modules(code, structure) :
                IsModule(code, structure, m, Modules(code, structure)[m])
BY DEF Modules, PartOf, Loc, IsModule

LEMMA InventoryIsFinite ==
    ASSUME NEW code, IsCode(code)
    PROVE  /\ IsFiniteSet(Inventory(code)) /\ Inventory(code) \subseteq DOMAIN code.files
           /\ \A structure : IsFiniteSet(DOMAIN Modules(code, structure))
<1> DEFINE I == Inventory(code)
           g == [i \in I |-> ModuleOf(code.files[i])]
<1>1. I \subseteq DOMAIN code.files
  BY DEF Inventory, Walked
<1> HIDE DEF I
<1>2. IsFiniteSet(I)
  BY <1>1, FS_Subset DEF IsCode
<1>3. ASSUME NEW structure PROVE IsFiniteSet(DOMAIN Modules(code, structure))
  <2>1. DOMAIN Modules(code, structure) = {ModuleOf(code.files[i]) : i \in I}
    BY ModuleFields DEF I
  <2>2. \A i \in I : g[i] = ModuleOf(code.files[i])
    OBVIOUS
  <2> HIDE DEF g
  <2>3. DOMAIN Modules(code, structure) = {g[i] : i \in I}
    BY <2>1, <2>2
  <2> QED BY <1>2, <2>3, ValuesAreFinite
<1> QED BY <1>1, <1>2, <1>3 DEF I

\* Every file and every line that was measured is in one module.
LEMMA MeasuresAgree ==
    ASSUME NEW code, IsCode(code), NEW structure,
           NEW field \in {"files", "loc", "test_files"}
    PROVE  LET atlas == BuildAtlas(code, structure) IN
           Sums!SumFunction([m \in DOMAIN atlas.modules |-> atlas.modules[m][field]])
             = atlas.totals[field]
<1> DEFINE I == Inventory(code)
           modules == Modules(code, structure)
           shown == DOMAIN modules
           atlas == BuildAtlas(code, structure)
           g == [i \in I |-> ModuleOf(code.files[i])]
           w == [m \in shown |-> modules[m][field]]
<1>1. /\ atlas.modules = modules
      /\ atlas.totals.files = Cardinality(I)
      /\ atlas.totals.loc = Sums!SumFunction([i \in I |-> code.files[i].loc])
      /\ atlas.totals.test_files = Cardinality(Tests(code, I))
  BY DEF BuildAtlas, Loc
<1>2. IsFiniteSet(I) /\ I \subseteq DOMAIN code.files /\ IsFiniteSet(shown)
  BY InventoryIsFinite
<1>3. shown = {g[i] : i \in I} /\ \A m : PartOf(code, m) = {i \in I : g[i] = m}
  <2>1. shown = {ModuleOf(code.files[i]) : i \in I}
    BY ModuleFields
  <2>2. \A i \in I : g[i] = ModuleOf(code.files[i])
    OBVIOUS
  <2>3. \A m : PartOf(code, m) = {i \in I : ModuleOf(code.files[i]) = m}
    BY DEF PartOf
  <2> HIDE DEF I, g, shown
  <2> QED BY <2>1, <2>2, <2>3
<1>4. DOMAIN w = shown /\ \A m \in shown : w[m] = modules[m][field]
  OBVIOUS
<1>8. \A m \in shown :
        /\ modules[m]["files"] = Cardinality(PartOf(code, m))
        /\ modules[m]["test_files"] = Cardinality(Tests(code, PartOf(code, m)))
        /\ modules[m]["loc"] =
             Sums!SumFunction([i \in PartOf(code, m) |-> code.files[i].loc])
  <2>1. \A m \in shown : IsModule(code, structure, m, modules[m])
    BY ModuleFields
  <2> HIDE DEF shown, modules
  <2> QED BY <2>1 DEF IsModule
<1>5. CASE field = "files"
  <2>1. \A m \in DOMAIN w : w[m] = Cardinality({i \in I : g[i] = m})
    <3> HIDE DEF I, g, w, shown, modules
    <3> QED BY <1>3, <1>4, <1>5, <1>8
  <2>2. {i \in I : g[i] \in DOMAIN w} = I
    BY <1>3
  <2> HIDE DEF I, g, w, shown
  <2>3. Sums!SumFunction(w) = Cardinality(I)
    BY <1>2, <1>4, <2>1, <2>2, PartsCount
  <2> QED BY <1>1, <1>5, <2>3 DEF w, shown
<1>6. CASE field = "test_files"
  <2> DEFINE T == Tests(code, I)
  <2>1. IsFiniteSet(T)
    <3>1. T \subseteq I
      BY DEF Tests
    <3> HIDE DEF T, I
    <3> QED BY <1>2, <3>1, FS_Subset
  <2>2. \A m \in DOMAIN w : w[m] = Cardinality({i \in T : g[i] = m})
    <3> SUFFICES ASSUME NEW m \in DOMAIN w PROVE w[m] = Cardinality({i \in T : g[i] = m})
      OBVIOUS
    <3>1. w[m] = Cardinality(Tests(code, PartOf(code, m)))
      <4> HIDE DEF I, g, w, shown, modules
      <4> QED BY <1>4, <1>6, <1>8
    <3>2. Tests(code, PartOf(code, m)) = {i \in T : g[i] = m}
      BY <1>3 DEF Tests
    <3> QED BY <3>1, <3>2
  <2>3. {i \in T : g[i] \in DOMAIN w} = T
    BY <1>3 DEF Tests
  <2> HIDE DEF I, g, w, shown, T
  <2>4. Sums!SumFunction(w) = Cardinality(T)
    BY <1>2, <1>4, <2>1, <2>2, <2>3, PartsCount
  <2> QED BY <1>1, <1>6, <2>4 DEF w, shown, T
<1>7. CASE field = "loc"
  <2> DEFINE loc == [i \in I |-> code.files[i].loc]
  <2>1. \A i \in I : loc[i] \in Nat
    BY <1>2 DEF IsCode
  <2>2. ASSUME NEW m \in DOMAIN w
        PROVE  w[m] = PartSum(I, g, loc, m)
    <3>1. w[m] = Sums!SumFunction([i \in PartOf(code, m) |-> code.files[i].loc])
      <4> HIDE DEF I, g, w, shown, modules
      <4> QED BY <1>4, <1>7, <1>8
    <3>2. [i \in PartOf(code, m) |-> code.files[i].loc] = [i \in {j \in I : g[j] = m} |-> loc[i]]
      BY <1>3
    <3> QED BY <3>1, <3>2 DEF PartSum
  <2>3. [i \in I |-> loc[i]] = loc
    OBVIOUS
  <2> HIDE DEF I, g, w, shown, loc
  <2>4. Sums!SumFunction(w) = Sums!SumFunction([i \in I |-> loc[i]])
    <3>1. IsFiniteSet(I) /\ DOMAIN w = {g[i] : i \in I}
      BY <1>2, <1>3, <1>4
    <3> QED BY <2>1, <2>2, <3>1, PartsSum
  <2> QED BY <1>1, <1>7, <2>3, <2>4 DEF w, shown, loc
<1> QED BY <1>5, <1>6, <1>7

\* A symbol whose file was measured is of a module that is shown.
LEMMA ListedAreShown ==
    ASSUME NEW code, NEW structure, Unlisted(code, structure) = {},
           NEW s \in DOMAIN structure.symbols
    PROVE  ModuleOfSymbol(code, structure, s) \in DOMAIN Modules(code, structure)
<1> DEFINE i == FileNumber(code, structure.symbols[s])
<1>1. i \in Inventory(code)
  BY DEF Unlisted
<1>2. ModuleOfSymbol(code, structure, s) = ModuleOf(code.files[i])
  BY DEF ModuleOfSymbol, FileOfNode
<1>3. DOMAIN Modules(code, structure) = {ModuleOf(code.files[j]) : j \in Inventory(code)}
  BY ModuleFields
<1> HIDE DEF i
<1> QED BY <1>1, <1>2, <1>3

\* And so is every symbol whose file was measured; no symbol is in two.
LEMMA SymbolsAgree ==
    ASSUME NEW code, IsCode(code), NEW structure, Joins(structure)
    PROVE  LET atlas == BuildAtlas(code, structure)
               sum   == Sums!SumFunction([m \in DOMAIN atlas.modules |->
                                            atlas.modules[m]["symbols"]])
           IN  /\ sum <= atlas.totals.symbols
               /\ Unlisted(code, structure) = {} => sum = atlas.totals.symbols
<1> DEFINE modules == Modules(code, structure)
           shown   == DOMAIN modules
           S       == DOMAIN structure.symbols
           atlas   == BuildAtlas(code, structure)
           g       == [s \in S |-> ModuleOfSymbol(code, structure, s)]
           w       == [m \in shown |-> modules[m]["symbols"]]
<1>1. atlas.modules = modules /\ atlas.totals.symbols = Cardinality(S)
  BY DEF BuildAtlas
<1>2. IsFiniteSet(S) /\ IsFiniteSet(shown)
  BY InventoryIsFinite DEF Joins
<1>3. /\ DOMAIN w = shown /\ \A m \in shown : w[m] = modules[m]["symbols"]
      /\ \A s \in S : g[s] = ModuleOfSymbol(code, structure, s)
  OBVIOUS
<1>4. \A m \in DOMAIN w : w[m] = Cardinality({s \in S : g[s] = m})
  <2>1. \A m \in shown : IsModule(code, structure, m, modules[m])
    BY ModuleFields
  <2>2. ASSUME NEW m \in shown PROVE w[m] = Cardinality({s \in S : g[s] = m})
    <3>1. {s \in S : ModuleOfSymbol(code, structure, s) = m} = {s \in S : g[s] = m}
      BY <1>3
    <3> HIDE DEF w, g, modules, shown
    <3>2. w[m] = Cardinality({s \in S : ModuleOfSymbol(code, structure, s) = m})
      BY <1>3, <2>1 DEF IsModule
    <3> QED BY <3>1, <3>2
  <2> QED BY <1>3, <2>2
<1>5. Unlisted(code, structure) = {} => \A s \in S : g[s] \in shown
  BY ListedAreShown
<1> HIDE DEF w, g, modules, shown, S
<1> DEFINE counted == {s \in S : g[s] \in DOMAIN w}
<1>6. Sums!SumFunction(w) = Cardinality(counted)
  BY <1>2, <1>3, <1>4, PartsCount
<1>7. counted \subseteq S /\ (Unlisted(code, structure) = {} => counted = S)
  BY <1>3, <1>5
<1> HIDE DEF counted
<1>8. Cardinality(counted) <= Cardinality(S)
  BY <1>2, <1>7, FS_Subset
<1> QED BY <1>1, <1>6, <1>7, <1>8 DEF w, shown

\* An edge joins two modules that are shown and weighs what it stands for, and no edge that
\* is left out is heavier.
EdgeAgrees(code, structure, e) ==
    LET calls(m, n) ==
          Cardinality({f \in structure.edges : ModulePair(code, structure, f) = <<m, n>>})
    IN  /\ e.source # e.target /\ e.weight = calls(e.source, e.target)
        /\ Unlisted(code, structure) = {} =>
             {e.source, e.target} \subseteq DOMAIN Modules(code, structure)
        /\ \A m, n : calls(m, n) > e.weight /\ m # n =>
             \E f \in ModuleEdges(code, structure) : f.source = m /\ f.target = n

\* The pairs of modules between which a call goes; those that are drawn.
Between(code, structure) == {ModulePair(code, structure, e) : e \in Crossing(code, structure)}
Traffic(code, structure, p) ==
    Cardinality({e \in Crossing(code, structure) : ModulePair(code, structure, e) = p})
Drawn(code, structure) ==
    CHOOSE best \in SUBSET Between(code, structure) :
        /\ Cardinality(best) = IF Cardinality(Between(code, structure)) < MaxDrawn
                               THEN Cardinality(Between(code, structure)) ELSE MaxDrawn
        /\ \A x \in Between(code, structure) \ best, y \in best :
             ~ (Traffic(code, structure, x) > Traffic(code, structure, y))

LEMMA EdgesAreDrawn ==
    ASSUME NEW code, NEW structure
    PROVE  ModuleEdges(code, structure) =
             {[source |-> p[1], target |-> p[2], weight |-> Traffic(code, structure, p)] :
                p \in Drawn(code, structure)}
BY DEF ModuleEdges, Best, Drawn, Traffic, Between

LEMMA DrawnAreBest ==
    ASSUME NEW code, NEW structure, Joins(structure)
    PROVE  /\ Drawn(code, structure) \subseteq Between(code, structure)
           /\ \A p \in Between(code, structure) : Traffic(code, structure, p) \in Nat
           /\ \A x \in Between(code, structure) \ Drawn(code, structure),
                y \in Drawn(code, structure) :
                  ~ (Traffic(code, structure, x) > Traffic(code, structure, y))
<1> DEFINE crossing == Crossing(code, structure)
           pairs    == Between(code, structure)
           ends     == [e \in crossing |-> ModulePair(code, structure, e)]
           w        == [p \in pairs |-> Traffic(code, structure, p)]
           n        == Cardinality(pairs)
           k        == IF n < MaxDrawn THEN n ELSE MaxDrawn
<1>1. IsFiniteSet(crossing)
  <2>1. crossing \subseteq structure.edges /\ IsFiniteSet(structure.edges)
    BY DEF Crossing, Joins
  <2> HIDE DEF crossing
  <2> QED BY <2>1, FS_Subset
<1>2. IsFiniteSet(pairs)
  <2>1. pairs = {ModulePair(code, structure, e) : e \in crossing}
    BY DEF Between
  <2>2. \A e \in crossing : ends[e] = ModulePair(code, structure, e)
    OBVIOUS
  <2> HIDE DEF pairs, ends, crossing
  <2>3. pairs = {ends[e] : e \in crossing}
    BY <2>1, <2>2
  <2> QED BY <1>1, <2>3, ValuesAreFinite
<1>3. \A p : Traffic(code, structure, p) \in Nat
  <2> SUFFICES ASSUME NEW p PROVE Traffic(code, structure, p) \in Nat
    OBVIOUS
  <2> DEFINE those == {e \in crossing : ModulePair(code, structure, e) = p}
  <2>1. those \subseteq crossing
    OBVIOUS
  <2>2. Traffic(code, structure, p) = Cardinality(those)
    BY DEF Traffic
  <2> HIDE DEF those, crossing
  <2> QED BY <1>1, <2>1, <2>2, FS_Subset, FS_CardinalityType
<1>4. n \in Nat /\ k \in Nat /\ k <= n
  <2>1. n \in Nat
    BY <1>2, FS_CardinalityType
  <2>2. MaxDrawn \in Nat
    BY AtlasAssumption
  <2> HIDE DEF n
  <2> QED BY <2>1, <2>2
<1>5. DOMAIN w = pairs /\ \A p \in pairs : w[p] = Traffic(code, structure, p)
  OBVIOUS
<1>6. \E best \in SUBSET pairs : Cardinality(best) = k /\ Heavier(pairs, w, best)
  <2>1. \A p \in pairs : w[p] \in Nat
    BY <1>3, <1>5
  <2> HIDE DEF w, pairs, k
  <2>2. k <= Cardinality(pairs)
    BY <1>4
  <2> QED BY <1>2, <1>4, <2>1, <2>2, BestExist
<1>7. \E best \in SUBSET pairs :
        /\ Cardinality(best) = k
        /\ \A x \in pairs \ best, y \in best :
             ~ (Traffic(code, structure, x) > Traffic(code, structure, y))
  <2> HIDE DEF w, pairs, k
  <2> QED BY <1>5, <1>6 DEF Heavier
<1>8. /\ Drawn(code, structure) \in SUBSET pairs
      /\ \A x \in pairs \ Drawn(code, structure), y \in Drawn(code, structure) :
             ~ (Traffic(code, structure, x) > Traffic(code, structure, y))
  BY <1>7, Zenon DEF Drawn
<1> QED BY <1>3, <1>8

LEMMA EdgesAgree ==
    ASSUME NEW code, NEW structure, Joins(structure)
    PROVE  \A e \in ModuleEdges(code, structure) : EdgeAgrees(code, structure, e)
<1> DEFINE crossing == Crossing(code, structure)
           drawn    == Drawn(code, structure)
           symbols  == DOMAIN structure.symbols
           ends(e)  == ModulePair(code, structure, e)
           calls(m, n) == Cardinality({f \in structure.edges : ends(f) = <<m, n>>})
           edge(p)  == [source |-> p[1], target |-> p[2], weight |-> Traffic(code, structure, p)]
<1>1. ASSUME NEW e \in structure.edges
      PROVE  /\ e[1] \in symbols /\ e[2] \in symbols
             /\ e \in crossing <=> ends(e)[1] # ends(e)[2]
  <2>1. e[1] \in symbols /\ e[2] \in symbols
    BY DEF Joins
  <2> QED BY <2>1 DEF Crossing
<1>2. crossing \subseteq structure.edges
  BY DEF Crossing
<1>3. ASSUME NEW m, NEW n, m # n
      PROVE  calls(m, n) = Traffic(code, structure, <<m, n>>)
  <2>1. \A f \in structure.edges : ends(f) = <<m, n>> => f \in crossing
    BY <1>1, <1>3
  <2> HIDE DEF ends, crossing
  <2>2. {f \in structure.edges : ends(f) = <<m, n>>} = {f \in crossing : ends(f) = <<m, n>>}
    BY <1>2, <2>1
  <2> QED BY <2>2 DEF Traffic, ends, crossing
<1>4. ASSUME NEW p \in Between(code, structure)
      PROVE  /\ p = <<p[1], p[2]>> /\ p[1] # p[2]
             /\ \E s, t \in symbols : /\ p[1] = ModuleOfSymbol(code, structure, s)
                                     /\ p[2] = ModuleOfSymbol(code, structure, t)
  <2>1. PICK e \in crossing : p = ends(e)
    BY DEF Between
  <2>2. e[1] \in symbols /\ e[2] \in symbols /\ ends(e)[1] # ends(e)[2]
    BY <1>1, <1>2
  <2> QED BY <2>1, <2>2 DEF ModulePair
<1> SUFFICES ASSUME NEW p \in drawn PROVE EdgeAgrees(code, structure, edge(p))
  BY EdgesAreDrawn
<1>5. /\ p \in Between(code, structure) /\ Traffic(code, structure, p) \in Nat
      /\ \A x \in Between(code, structure) \ drawn :
            ~ (Traffic(code, structure, x) > Traffic(code, structure, p))
  BY DrawnAreBest
<1>6. edge(p).source = p[1] /\ edge(p).target = p[2] /\ edge(p).weight = Traffic(code, structure, p)
  OBVIOUS
<1>7. p[1] # p[2] /\ Traffic(code, structure, p) = calls(p[1], p[2])
  BY <1>3, <1>4, <1>5
<1>8. Unlisted(code, structure) = {} => {p[1], p[2]} \subseteq DOMAIN Modules(code, structure)
  BY <1>4, <1>5, ListedAreShown
<1>9. ASSUME NEW m, NEW n, calls(m, n) > Traffic(code, structure, p), m # n
      PROVE  \E f \in ModuleEdges(code, structure) : f.source = m /\ f.target = n
  <2>1. Traffic(code, structure, <<m, n>>) > Traffic(code, structure, p)
    BY <1>3, <1>9
  <2>2. <<m, n>> \in Between(code, structure)
    <3> SUFFICES ASSUME <<m, n>> \notin Between(code, structure) PROVE FALSE
      OBVIOUS
    <3>1. {e \in crossing : ends(e) = <<m, n>>} = {}
      BY DEF Between
    <3>2. Traffic(code, structure, <<m, n>>) = 0
      BY <3>1, FS_EmptySet DEF Traffic
    <3> QED BY <1>5, <2>1, <3>2
  <2>3. <<m, n>> \in drawn
    BY <1>5, <2>1, <2>2
  <2>4. edge(<<m, n>>) \in ModuleEdges(code, structure)
    BY <2>3, EdgesAreDrawn
  <2>5. edge(<<m, n>>).source = m /\ edge(<<m, n>>).target = n
    OBVIOUS
  <2> QED BY <2>4, <2>5
<1> DEFINE e == edge(p)
<1>10. /\ e.source # e.target /\ e.weight = calls(e.source, e.target)
       /\ Unlisted(code, structure) = {} =>
            {e.source, e.target} \subseteq DOMAIN Modules(code, structure)
       /\ \A m, n : calls(m, n) > e.weight /\ m # n =>
            \E f \in ModuleEdges(code, structure) : f.source = m /\ f.target = n
  <2> HIDE DEF edge, calls
  <2> QED BY <1>6, <1>7, <1>8, <1>9
<1> HIDE DEF e
<1>11. EdgeAgrees(code, structure, e)
  BY <1>10 DEF EdgeAgrees
<1> QED BY <1>11 DEF e

\* A module that is called untested has a symbol.
LEMMA UntestedHaveSymbols ==
    ASSUME NEW code, NEW structure, NEW m \in Untested(Modules(code, structure))
    PROVE  \E s \in DOMAIN structure.symbols : ModuleOfSymbol(code, structure, s) = m
<1> DEFINE modules == Modules(code, structure)
           those   == {s \in DOMAIN structure.symbols : ModuleOfSymbol(code, structure, s) = m}
<1>1. m \in DOMAIN modules /\ modules[m].symbols > 0
  BY DEF Untested
<1>2. IsModule(code, structure, m, modules[m])
  BY <1>1, ModuleFields
<1> HIDE DEF modules
<1>3. Cardinality(those) > 0
  BY <1>1, <1>2 DEF IsModule
<1>4. those # {}
  BY <1>3, FS_EmptySet
<1> QED BY <1>4

----------------------------------------------------------------------------
(* Packages and their roots *)
LOCAL INSTANCE SequencesExt

\* A root is a sequence of directories.
LEMMA RootsAreDirectories ==
    ASSUME NEW code, IsCode(code)
    PROVE  Roots(code) \subseteq Seq(STRING)
<1>1. \A f \in ToSet(code.files) : f.dirs \in Seq(STRING)
  BY DEF ToSet, IsCode
<1>2. \A parent : PackagesIn(code, parent) \subseteq Seq(STRING)
  BY <1>1 DEF PackagesIn
<1>3. code.roots \subseteq Seq(STRING) /\ <<>> \in Seq(STRING)
  BY DEF IsCode
<1> QED BY <1>2, <1>3 DEF Roots, InferredRoots

\* A root r right below one, c, that is no package.
RightBelow(code, c, r) ==
    /\ r # c /\ Front(r) = c /\ ~IsPackage(code, c) /\ IsPackage(code, r)
    /\ Last(r) \notin NotSource

LEMMA RightBelowIs ==
    ASSUME NEW code, NEW c, NEW r \in Seq(STRING), RightBelow(code, c, r)
    PROVE  /\ Len(r) \in Nat /\ Len(r) > 0 /\ r # <<>> /\ Len(c) = Len(r) - 1
           /\ Last(r) = r[Len(r)]
           /\ \A j \in 1 .. Len(c) : c[j] = r[j]
<1>1. c = SubSeq(r, 1, Len(r) - 1) /\ Last(r) = r[Len(r)]
  BY DEF RightBelow, Front, Last
<1>2. r # <<>>
  BY <1>1 DEF RightBelow
<1>3. Len(r) \in Nat /\ Len(r) > 0
  BY <1>2
<1> DEFINE n == Len(r)
<1>4. Len(SubSeq(r, 1, n - 1)) = n - 1 /\ \A j \in 1 .. n - 1 : SubSeq(r, 1, n - 1)[j] = r[j]
  <2>1. \A m \in Nat : m <= n =>
          Len(SubSeq(r, 1, m)) = m /\ \A j \in 1 .. m : SubSeq(r, 1, m)[j] = r[j]
    OBVIOUS
  <2>2. n - 1 \in Nat /\ n - 1 <= n
    BY <1>3
  <2> HIDE DEF n
  <2> QED BY <2>1, <2>2
<1> QED BY <1>1, <1>2, <1>3, <1>4

\* What is below a sequence starts as it does.
LEMMA BelowIs ==
    ASSUME NEW S, NEW d \in Seq(S), NEW r \in Seq(S)
    PROVE  Below(d, r) <=> Len(r) <= Len(d) /\ \A j \in 1 .. Len(r) : d[j] = r[j]
<1>1. Below(d, r) <=> Len(r) <= Len(d) /\ SubSeq(r, 1, Len(r)) = SubSeq(d, 1, Len(r))
  BY DEF Below, IsPrefix
<1>2. ASSUME Len(r) <= Len(d)
      PROVE  /\ Len(SubSeq(r, 1, Len(r))) = Len(r) /\ Len(SubSeq(d, 1, Len(r))) = Len(r)
             /\ SubSeq(r, 1, Len(r)) \in Seq(S) /\ SubSeq(d, 1, Len(r)) \in Seq(S)
             /\ \A j \in 1 .. Len(r) : SubSeq(r, 1, Len(r))[j] = r[j] /\ SubSeq(d, 1, Len(r))[j] = d[j]
  BY <1>2
<1>3. ASSUME NEW a \in Seq(S), NEW b \in Seq(S), Len(a) = Len(b)
      PROVE  a = b <=> \A j \in 1 .. Len(a) : a[j] = b[j]
  BY <1>3
<1> DEFINE a == SubSeq(r, 1, Len(r))
           b == SubSeq(d, 1, Len(r))
<1> HIDE DEF a, b
<1>4. Len(r) <= Len(d) => (a = b <=> \A j \in 1 .. Len(r) : d[j] = r[j])
  BY <1>2, <1>3 DEF a, b
<1> QED BY <1>1, <1>4 DEF a, b

\* A source of such a root is a source of the one above, and its module has the same name.
LEMMA SourcesAreSame ==
    ASSUME NEW code, NEW c \in Seq(STRING), NEW r \in Seq(STRING), RightBelow(code, c, r),
           NEW file, file.dirs \in Seq(STRING), IsSource(file, r)
    PROVE  /\ IsSource(file, c)
           /\ ModuleName(code, file, r) = ModuleName(code, file, c)
<1> DEFINE d == file.dirs
           n == Len(r)
<1>1. /\ n \in Nat /\ n > 0 /\ r # <<>> /\ Len(c) = n - 1 /\ Last(r) = r[n]
      /\ \A j \in 1 .. n - 1 : c[j] = r[j]
  BY RightBelowIs
<1>2. n <= Len(d) /\ \A j \in 1 .. n : d[j] = r[j]
  BY BelowIs DEF IsSource
<1>3. Below(d, c)
  <2>1. Len(c) <= Len(d) /\ \A j \in 1 .. Len(c) : d[j] = c[j]
    BY <1>1, <1>2
  <2> QED BY <2>1, BelowIs
<1>4. ASSUME NEW i \in Len(c) + 1 .. Len(d) PROVE d[i] \notin NotSource
  <2>1. CASE i = n
    BY <1>1, <1>2, <2>1 DEF RightBelow
  <2>2. CASE i # n
    <3>1. i \in n + 1 .. Len(d)
      BY <1>1, <2>2
    <3> QED BY <3>1 DEF IsSource
  <2> QED BY <2>1, <2>2
<1>5. <<r[n]>> \o SubSeq(d, n + 1, Len(d)) = SubSeq(d, n, Len(d))
  <2> HIDE DEF d, n
  <2> QED BY <1>1, <1>2 DEF d, n
<1>6. ModuleName(code, file, r) = ModuleName(code, file, c)
  <2> DEFINE stem == IF file.stem = "__init__" THEN <<>> ELSE <<file.stem>>
             rest == SubSeq(d, n, Len(d))
  <2>1. ModuleName(code, file, r) = (<<r[n]>> \o SubSeq(d, n + 1, Len(d))) \o stem
    BY <1>1 DEF ModuleName, RightBelow
  <2>2. Len(c) + 1 = n
    BY <1>1
  <2>3. ModuleName(code, file, c) = (<<>> \o rest) \o stem
    BY <2>2 DEF ModuleName, RightBelow
  <2>4. <<>> \o rest = rest
    <3>1. rest \in Seq(STRING)
      BY <1>1
    <3> HIDE DEF rest
    <3> QED BY <3>1
  <2> HIDE DEF stem, rest, d, n
  <2>5. <<r[n]>> \o SubSeq(d, n + 1, Len(d)) = rest
    BY <1>5 DEF rest
  <2> QED BY <2>1, <2>3, <2>4, <2>5
<1> QED BY <1>3, <1>4, <1>6 DEF IsSource

\* Nodes have the same names under two roots when their modules have.
LEMMA NamesAreSame ==
    ASSUME NEW code, IsCode(code), NEW r, NEW c,
           \A k \in DOMAIN code.files : IsSource(code.files[k], r) =>
             ModuleName(code, code.files[k], r) = ModuleName(code, code.files[k], c)
    PROVE  \A i \in DOMAIN code.nodes :
             IsSource(FileOfNode(code, i), r) => NameOf(code, r)[i] = NameOf(code, c)[i]
<1> DEFINE D == DOMAIN code.nodes
           same(i) == IsSource(FileOfNode(code, i), r) => NameOf(code, r)[i] = NameOf(code, c)[i]
           bad == {i \in D : ~same(i)}
<1> SUFFICES ASSUME bad # {} PROVE FALSE
  OBVIOUS
<1>1. D = 1 .. Len(code.nodes) /\ Len(code.nodes) \in Nat
  BY DEF IsCode
<1>2. PICK i \in bad : \A j \in bad : i <= j
  <2>1. bad \in SUBSET Nat
    <3>1. D \in SUBSET Nat
      <4> HIDE DEF D
      <4> QED BY <1>1
    <3> HIDE DEF D, same
    <3> QED BY <3>1
  <2> HIDE DEF bad
  <2> QED BY <2>1, Least
<1>3. /\ i \in D /\ IsSource(FileOfNode(code, i), r) /\ ~same(i)
      /\ NameOf(code, r)[i] # NameOf(code, c)[i]
  OBVIOUS
<1> DEFINE n == code.nodes[i]
<1>4. \A root \in {r, c} :
        NameOf(code, root)[i] =
          CASE n.kind = "module" -> ModuleName(code, code.files[n.file], root)
            [] n.kind = "block"  -> NameOf(code, root)[n.parent]
            [] OTHER             -> Append(NameOf(code, root)[n.parent], n.name)
  <2> SUFFICES ASSUME NEW root \in {r, c}
               PROVE  NameOf(code, root)[i] =
                        CASE n.kind = "module" -> ModuleName(code, code.files[n.file], root)
                          [] n.kind = "block"  -> NameOf(code, root)[n.parent]
                          [] OTHER             -> Append(NameOf(code, root)[n.parent], n.name)
    OBVIOUS
  <2> DEFINE name == NameOf(code, root)
  <2>1. NamesTo(code, root, name)
    BY WalksAreDefined
  <2> HIDE DEF name, bad
  <2>2. name[i] = CASE n.kind = "module" -> ModuleName(code, code.files[n.file], root)
                    [] n.kind = "block"  -> name[n.parent]
                    [] OTHER             -> Append(name[n.parent], n.name)
    BY <1>3, <2>1 DEF NamesTo
  <2> QED BY <2>2 DEF name
<1>5. Placed(code, i)
  BY <1>3, NodesArePlaced
<1> HIDE DEF bad
<1>6. CASE n.kind = "module"
  <2>1. ModuleOfNode(code)[i] = i
    <3> DEFINE module == ModuleOfNode(code)
    <3>1. ModulesTo(code, module)
      BY WalksAreDefined
    <3> HIDE DEF module
    <3>2. module[i] = i
      BY <1>3, <1>6, <3>1 DEF ModulesTo
    <3> QED BY <3>2 DEF module
  <2>2. FileNumber(code, i) = n.file /\ n.file \in DOMAIN code.files
    BY <1>5, <2>1 DEF FileNumber, Placed
  <2>3. IsSource(code.files[n.file], r)
    BY <1>3, <2>2 DEF FileOfNode
  <2>4. ModuleName(code, code.files[n.file], r) = ModuleName(code, code.files[n.file], c)
    BY <2>2, <2>3
  <2> QED BY <1>3, <1>4, <1>6, <2>4
<1>7. CASE n.kind # "module"
  <2> DEFINE p == n.parent
  <2>1. p \in D /\ ~ (i <= p)
    <3>1. p \in 1 .. i - 1
      BY <1>3, <1>7 DEF IsCode
    <3> HIDE DEF D, p
    <3> QED BY <1>1, <1>3, <3>1
  <2>2. same(p)
    BY <1>2, <2>1 DEF bad
  <2>3. FileOfNode(code, i) = FileOfNode(code, p)
    BY <1>5, <1>7 DEF Placed, FileOfNode, FileNumber
  <2>4. NameOf(code, r)[p] = NameOf(code, c)[p]
    BY <1>3, <2>2, <2>3
  <2> QED BY <1>3, <1>4, <1>7, <2>4
<1> QED BY <1>6, <1>7

\* The atlas calls a public symbol as the probes do, when the roots are right below one.
LEMMA PublicAgree ==
    ASSUME NEW code, IsCode(code), ~Scattered(code), Structure(code) # NoStructure
    PROVE  PublicIndex(code) \subseteq Public(DOMAIN Structure(code).symbols)
<1> DEFINE c == CommonRoot(code)
<1>1. DOMAIN Structure(code).symbols = Symbols(code, c)
  BY DEF Structure
<1>2. SUFFICES ASSUME NEW r \in Roots(code), NEW s \in Public(Symbols(code, r))
               PROVE  s \in Symbols(code, c)
  BY <1>1 DEF PublicIndex, Public
<1>3. s \in Symbols(code, r)
  BY DEF Public
<1>4. CASE r = c
  BY <1>3, <1>4
<1>5. CASE r # c
  <2>1. RightBelow(code, c, r)
    BY <1>5 DEF Scattered, RightBelow
  <2>2. r \in Seq(STRING)
    BY RootsAreDirectories
  <2>3. c \in Seq(STRING)
    <3>1. c = Front(r) /\ r # <<>>
      BY <2>1, <2>2, RightBelowIs DEF RightBelow
    <3> HIDE DEF c
    <3> QED BY <2>2, <3>1 DEF Front
  <2> HIDE DEF c
  <2>4. \A k \in DOMAIN code.files : IsSource(code.files[k], r) =>
          /\ IsSource(code.files[k], c)
          /\ ModuleName(code, code.files[k], r) = ModuleName(code, code.files[k], c)
    <3>1. \A k \in DOMAIN code.files : code.files[k].dirs \in Seq(STRING)
      BY DEF IsCode
    <3> QED BY <2>1, <2>2, <2>3, <3>1, SourcesAreSame
  <2>5. PICK i \in Definitions(code, r) : s = NameOf(code, r)[i]
    BY <1>3 DEF Symbols
  <2>6. /\ i \in DOMAIN code.nodes /\ code.nodes[i].kind \in {"class", "def"}
        /\ IsSource(FileOfNode(code, i), r)
    BY DEF Definitions
  <2>7. NameOf(code, r)[i] = NameOf(code, c)[i]
    BY <2>4, <2>6, NamesAreSame
  <2>8. IsSource(FileOfNode(code, i), c)
    <3>1. FileNumber(code, i) \in DOMAIN code.files
      BY <2>6, NodesArePlaced DEF Placed
    <3> QED BY <2>4, <2>6, <3>1 DEF FileOfNode
  <2> QED BY <2>5, <2>6, <2>7, <2>8 DEF Definitions, Symbols
<1> QED BY <1>4, <1>5

\* So the parts of an atlas agree, whatever the code is.
LEMMA AtlasAgreesAlways ==
    ASSUME NEW code, IsCode(code)
    PROVE  AtlasAgrees(code)
<1> DEFINE structure == Structure(code)
           atlas == BuildAtlas(code, structure)
           shown == DOMAIN atlas.modules
           listed == Unlisted(code, structure) = {}
           sum(field) == Sums!SumFunction([m \in shown |-> atlas.modules[m][field]])
           calls(m, n) ==
             Cardinality({e \in structure.edges : ModulePair(code, structure, e) = <<m, n>>})
<1>1. Joins(structure)
  BY StructureJoins
<1>2. \A field \in {"files", "loc", "test_files"} : sum(field) = atlas.totals[field]
  BY MeasuresAgree
<1>3. /\ sum("symbols") <= atlas.totals.symbols
      /\ listed => sum("symbols") = atlas.totals.symbols
  BY <1>1, SymbolsAgree
<1>4. /\ atlas.modules = Modules(code, structure) /\ atlas.edges = ModuleEdges(code, structure)
      /\ atlas.untested = Untested(atlas.modules)
      /\ atlas.surface = Public(DOMAIN structure.symbols)
      /\ atlas.depth = "structural" => DOMAIN structure.symbols # {}
  BY DEF BuildAtlas
<1> HIDE DEF atlas
<1>5. ASSUME NEW e \in atlas.edges
      PROVE  /\ e.source # e.target /\ e.weight = calls(e.source, e.target)
             /\ listed => {e.source, e.target} \subseteq shown
             /\ \A m, n \in shown : calls(m, n) > e.weight /\ m # n =>
                  \E f \in atlas.edges : f.source = m /\ f.target = n
  <2>1. EdgeAgrees(code, structure, e)
    BY <1>1, <1>4, EdgesAgree
  <2>2. e.source # e.target /\ e.weight = calls(e.source, e.target)
    BY <2>1 DEF EdgeAgrees
  <2>3. listed => {e.source, e.target} \subseteq shown
    BY <1>4, <2>1 DEF EdgeAgrees
  <2>4. \A m, n : calls(m, n) > e.weight /\ m # n =>
          \E f \in ModuleEdges(code, structure) : f.source = m /\ f.target = n
    BY <2>1, Zenon DEF EdgeAgrees
  <2> HIDE DEF calls, shown, listed
  <2> QED BY <1>4, <2>2, <2>3, <2>4
<1>6. \A m \in atlas.untested : \E s \in DOMAIN structure.symbols :
        ModuleOfSymbol(code, structure, s) = m
  BY <1>4, UntestedHaveSymbols
<1>7. atlas.depth = "structural" /\ ~Scattered(code) => PublicIndex(code) \subseteq atlas.surface
  <2>1. DOMAIN structure.symbols # {} => structure # NoStructure
    BY DEF NoStructure
  <2> QED BY <1>4, <2>1, PublicAgree
<1> HIDE DEF structure
<1>8. \A e \in atlas.edges :
        /\ e.source # e.target /\ e.weight = calls(e.source, e.target)
        /\ listed => {e.source, e.target} \subseteq shown
        /\ \A m, n \in shown : calls(m, n) > e.weight /\ m # n =>
             \E f \in atlas.edges : f.source = m /\ f.target = n
  <2> HIDE DEF calls, shown, listed
  <2> QED BY <1>5
<1>9. PartsAgree(code, structure, atlas)
  BY <1>2, <1>3, <1>6, <1>7, <1>8, Zenon DEF PartsAgree
<1> QED BY <1>9 DEF AtlasAgrees, structure, atlas

\* Whatever the code of the commits is, the atlas of every commit that is indexed agrees with
\* itself and with the probes: each file, line and symbol that was measured is in one module,
\* an edge joins two modules that are shown and weighs what it stands for, no edge that is
\* left out is heavier, and a public symbol has the name the probes give it (build_atlas,
\* public_index).
THEOREM AtlasesAllAgree == Spec => []AtlasesAgree
<1>1. Counted => AtlasesAgree
  BY CheckoutAssumption, AtlasAgreesAlways DEF Counted, AtlasesAgree, AllAtlasesAgree
<1>2. Spec => []Counted
  BY CountedInit, CountedStep, PTL DEF Spec
<1> QED BY <1>1, <1>2, PTL
=============================================================================
