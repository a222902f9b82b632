------------------------------ MODULE Findings ------------------------------
(***************************************************************************)
(* What a run observes by comparing two commits, probes/differential.py    *)
(* and probes/surface.py; how close each observation is to what the        *)
(* repository is for, charter/relevance.py; and in which order and groups  *)
(* they are read, engine/worker.py and adjudicate/situate.py.              *)
(*                                                                         *)
(* A checkout is a record as in Charter: its public symbols are the domain *)
(* of "api", which gives the kind of each.                                 *)
(***************************************************************************)
EXTENDS Drift

CONSTANTS FileOf,         \* the file each test, symbol and diagnosed path is in
          PeripheralFile, \* files below _PERIPHERAL_ROOTS
          ReachedBy,      \* the commands whose module each symbol is in
          NormFor,        \* the declared standard of each linter
          MaxLint,        \* _MAX_LINT_REPORTED: 25 in the code
          GroupLimit,     \* [models] max_adjudications
          GroupSize,      \* members of a group that are shown: 6
          Precedes(_, _)  \* the order of observations' ids, which are hashes

ASSUME FindingsAssumption ==
    /\ MaxLint \in Nat /\ GroupLimit \in Nat /\ GroupSize \in Nat \ {0}
    /\ PeripheralFile \subseteq {FileOf[x] : x \in DOMAIN FileOf}
    /\ DOMAIN ReachedBy \subseteq DOMAIN FileOf
----------------------------------------------------------------------------
(* Observations *)

\* In tenths.
SEVERITY == [behavior_change |-> 10, test_removed |-> 7, api_change |-> 8,
             lint_regression |-> 3, timeout |-> 9, oom |-> 9,
             install_failed |-> 6, collection_error |-> 7]

\* An id is of kind, symbol and evidence; the tool and the detail are in the wording
\* only.  Confidence is in thousandths.
Observation(kind, symbol, ref, tool, detail, confidence) ==
    [kind |-> kind, symbol |-> symbol, ref |-> ref, tool |-> tool, detail |-> detail,
     confidence |-> confidence, relevance |-> "", norm |-> "", score |-> 0]

Id(o) == [kind |-> o.kind, symbol |-> o.symbol, ref |-> o.ref]
Ids(observations) == {Id(o) : o \in observations}

\* A suite's result: the status of each test it reported, and an outcome.
PassedAt(result) == {t \in DOMAIN result.tests : result.tests[t] = "passed"}

\* differential_observations: what passed at base and is gone, or does not pass.
Differential(base, head) ==
    {Observation("test_removed", t, <<t>>, "", "", 750) : t \in PassedAt(base) \ DOMAIN head.tests}
    \cup {Observation("behavior_change", t, <<t>>, "", "", 900) :
            t \in {u \in PassedAt(base) \cap DOMAIN head.tests :
                     head.tests[u] \in {"failed", "error"}}}

INTERESTING == {"timeout", "oom", "collection_error", "install_failed"}

\* outcome_observations: an outcome the base did not have.
OutcomeFindings(base, head) ==
    {Observation(outcome, "(suite)", <<"outcome">>, "", "", 950) :
        outcome \in ({head.outcome} \cap INTERESTING) \ {base.outcome}}

\* surface_observations, of two indexes: removed, added, and of another kind.
SurfaceFindings(base, head) ==
    LET kept == DOMAIN base \cap DOMAIN head
    IN  {Observation("api_change", s, <<FileOf[s]>>, "", "removed", 900) :
            s \in DOMAIN base \ DOMAIN head}
        \cup {Observation("api_change", s, <<FileOf[s]>>, "", "added", 850) :
            s \in DOMAIN head \ DOMAIN base}
        \cup {Observation("api_change", s, <<FileOf[s]>>, "", "changed", 800) :
            s \in {t \in kept : base[t] # head[t]}}

\* lint_observations, of one tool: the diagnostics, <<path, code, message>>, that are
\* new at head; beyond the first few they are counted.
LintFindings(tool, before, after) ==
    LET new == SelectSeq(after, LAMBDA d : d \notin Contents(before))
    IN  {Observation("lint_regression", d[1], <<d[1], d[2]>>, tool, d[3], 850) :
            d \in Contents(Prefix(new, MaxLint))}
        \cup IF Len(new) > MaxLint
             THEN {Observation("lint_regression", "(repo)", <<tool, "count">>, tool, "", 900)}
             ELSE {}
----------------------------------------------------------------------------
(* Relevance and norms *)

BEHAVIOURAL == {"behavior_change", "timeout", "oom", "collection_error"}

PathOf(o) == IF o.symbol \in DOMAIN FileOf THEN FileOf[o.symbol] ELSE o.symbol

\* The commands of a charter from which a symbol is reached.
Entries(o, charter) ==
    IF o.symbol \in DOMAIN ReachedBy
    THEN ReachedBy[o.symbol] \cap charter.entry_points ELSE {}

\* classify
Relevance(o, charter) ==
    IF o.kind \in BEHAVIOURAL THEN "core"
    ELSE IF o.kind = "api_change"
    THEN IF \/ Entries(o, charter) # {}
            \/ o.symbol \in charter.public_api
            \/ o.detail = "added"
         THEN "core" ELSE "supporting"
    ELSE IF PathOf(o) \in PeripheralFile THEN "peripheral"
    ELSE IF Entries(o, charter) # {} THEN "core" ELSE "supporting"

Grounded(observations, charter) ==
    {[o EXCEPT !.relevance = Relevance(o, charter)] : o \in observations}

\* The declared standard an observation is about; a diagnostic's is its tool's.
Candidate(o) ==
    IF o.kind = "lint_regression" THEN NormFor[o.tool]
    ELSE IF o.kind = "api_change" THEN "declared-changelog"
    ELSE IF o.kind \in {"behavior_change", "timeout", "oom", "test_removed"}
    THEN "declared-tests" ELSE ""

\* _attach_norms
Attached(observations, norms) ==
    {[o EXCEPT !.norm = IF Candidate(o) \in norms THEN Candidate(o) ELSE @] :
        o \in observations}
----------------------------------------------------------------------------
(* Ranking *)

\* WEIGHT, in hundredths; what was not judged counts as core.
Weight(relevance) ==
    CASE relevance = "supporting" -> 75 [] relevance = "peripheral" -> 40 [] OTHER -> 100

Widest(callers) ==
    IF DOMAIN callers = {} THEN 0
    ELSE callers[CHOOSE s \in DOMAIN callers :
                   \A t \in DOMAIN callers : callers[t] <= callers[s]]

\* Half for nobody's callers, and as much again for as many as the widest has.  All
\* scores of a ranking are scaled alike.
Centrality(symbol, callers) ==
    IF Widest(callers) = 0 THEN 1
    ELSE Widest(callers) + IF symbol \in DOMAIN callers THEN callers[symbol] ELSE 0

Score(o, callers) ==
    o.confidence * SEVERITY[o.kind] * Weight(o.relevance) * Centrality(o.symbol, callers)

\* _rank
Ranked(observations, callers) ==
    {[o EXCEPT !.score = Score(o, callers)] : o \in observations}

Above(o, p) == o.score > p.score \/ (o.score = p.score /\ Precedes(o, p))
AboveIt(o, observations) == Cardinality({p \in observations : Above(p, o)})
----------------------------------------------------------------------------
(* Groups *)

\* _path_of of situate.py: the file an observation concerns.
KeyOf(o) == IF o.symbol \in DOMAIN FileOf THEN FileOf[o.symbol] ELSE "(repo)"

Members(key, observations) == {o \in observations : KeyOf(o) = key}

\* The groups, each at its best member, the first of them, and the members shown.
Packets(observations) ==
    LET first(o) == \A p \in Members(KeyOf(o), observations) : ~Above(p, o)
        best     == {o \in observations : first(o)}
    IN  {[key   |-> KeyOf(o),
          place |-> AboveIt(o, best) + 1,
          shown |-> {p \in Members(KeyOf(o), observations) :
                       AboveIt(p, Members(KeyOf(o), observations)) < GroupSize}] :
            o \in {p \in best : AboveIt(p, best) < GroupLimit}}
=============================================================================
