---------------------------- MODULE Characterize ----------------------------
(***************************************************************************)
(* The behavioural half of "prflagger check": tests that a model writes,   *)
(* kept when they pass on the base and then run on the head.  The modules  *)
(* of characterize/, with the jobs of sandbox/runner.py and the envelope   *)
(* of sandbox/calibrate.py.  A world w says what the change, the model and *)
(* the machine are like; a session s is what is left on disk, the results  *)
(* of containers (runs) and the envelopes (measured), and what was raised. *)
(***************************************************************************)
EXTENDS Naturals, Sequences, FiniteSets
LOCAL INSTANCE SequencesExt

CONSTANTS MaxAttempts,  \* of validate_on_base: 3 in the code
          MaxSymbols    \* _MAX_SYMBOLS: 5 by default

ASSUME CharacterizeAssumption == MaxAttempts \in Nat \ {0} /\ MaxSymbols \in Nat

NewSession == [runs |-> {}, measured |-> {}, raised |-> ""]

At(list, n) == list[IF n <= Len(list) THEN n ELSE Len(list)]

\* Of a list, what is at the wanted places, in order.
Ahead(places, i) == Cardinality({j \in places : j < i})
Keep(list, wanted) ==
    LET places == DOMAIN list \cap wanted
    IN  [k \in 1 .. Cardinality(places) |->
           list[CHOOSE i \in places : Ahead(places, i) = k - 1]]
----------------------------------------------------------------------------
(* Jobs *)

\* base_checkout: a commit git cannot check out is given the tree that is there.
TreeOf(w, commit) == IF commit \in w.added THEN commit ELSE w.at

\* _classify
Classify(code) ==
    CASE code = 0 -> "passed"        [] code = 2 -> "collection_error"
      [] code = 124 -> "timeout"     [] code = 125 -> "install_failed"
      [] code = 137 -> "oom"         [] OTHER -> "failed"

\* A container runs every test, each with an outcome for every case it is parametrised
\* with, or dies of something else and leaves no report.
Elements(tests) == {tests[i] : i \in DOMAIN tests}
Execute(w, tree, n, tests) ==
    LET died == At(w.dies[tree], n)
        said == [t \in Elements(tests) |-> IF died = 0 THEN At(w.behaves[tree][t], n) ELSE <<>>]
        bad  == \E t \in Elements(tests) : "failed" \in ToSet(said[t])
    IN  [outcome |-> Classify(IF died # 0 THEN died ELSE IF bad THEN 1 ELSE 0), said |-> said]

\* Seeded fault: the staged module named for its text alone.
JobKeyOfText(commit, label, tests) == <<commit, tests>>

\* Job.idempotency_key: the command names the staged module, for its text and label.
JobKey(commit, label, tests) == <<commit, label, tests>>

\* calibrate: the image and one run of the repository's suite, once for a checkout.
Calibrate(w, s, commit) ==
    LET tree == TreeOf(w, commit)
    IN  IF commit \in s.measured THEN s
        ELSE IF ~w.builds[tree] THEN [s EXCEPT !.raised = "ImageBuildError"]
        ELSE IF ~w.measures[tree] THEN [s EXCEPT !.raised = "CalibrationError"]
        ELSE [s EXCEPT !.measured = @ \cup {commit}]

\* run_job: what the cache has, or a container; either way it is in the cache after.
RunJob(w, s, commit, label, tests) ==
    LET tree  == TreeOf(w, commit)
        known == {r \in s.runs : r.key = JobKey(commit, label, tests)}
        n     == Cardinality({r \in s.runs : r.tree = tree}) + 1
        fresh == Execute(w, tree, n, tests)
        run   == [key |-> JobKey(commit, label, tests), commit |-> commit, tree |-> tree,
                  outcome |-> fresh.outcome, said |-> fresh.said]
    IN  IF known # {} THEN [s |-> s, run |-> CHOOSE r \in known : TRUE]
        ELSE [s |-> [s EXCEPT !.runs = @ \cup {run}], run |-> run]

\* Of a parametrised test the last case stands.
Reports(run, test) == run.said[test] # <<>>
Stands(run, test) == Last(run.said[test])

\* Seeded fault: of a run that died, only what it reported.
ReportedOutcomes(run, tests) ==
    [i \in {i \in DOMAIN tests : Reports(run, tests[i])} |-> Stands(run, tests[i])]

\* _outcomes: a run that died speaks for the tests it said nothing of.
Outcomes(run, tests) ==
    LET reported == {i \in DOMAIN tests : Reports(run, tests[i])}
        spoken   == IF run.outcome \in {"collection_error", "timeout", "oom"}
                    THEN DOMAIN tests ELSE reported
    IN  [i \in spoken |-> IF i \in reported THEN Stands(run, tests[i]) ELSE run.outcome]

Heard(job, tests) == [s |-> job.s, outcomes |-> Outcomes(job.run, tests)]

RunTestsOn(w, s, tests, commit, label) ==
    LET ready == Calibrate(w, s, commit)
    IN  IF tests = <<>> \/ s.raised # "" THEN [s |-> s, outcomes |-> <<>>]
        ELSE IF ready.raised # "" THEN [s |-> ready, outcomes |-> <<>>]
        ELSE Heard(RunJob(w, ready, commit, label, tests), tests)
----------------------------------------------------------------------------
(* Validation on the base *)

Passed(outcomes) == {i \in DOMAIN outcomes : outcomes[i] = "passed"}

\* complete: every reply comes from the model.
Consult(w, s) == IF w.model THEN s ELSE [s EXCEPT !.raised = "RuntimeError"]

\* split_test_functions
SplitTests(reply) ==
    LET functions == IF reply.parses THEN reply.functions ELSE <<>>
        wanted    == Keep(functions, {i \in DOMAIN functions : functions[i].test})
    IN  [i \in DOMAIN wanted |-> wanted[i].name]

\* _regenerate: each failure is asked for anew, and a reply may hold any number of tests.
Rewritten(w, failed) ==
    LET upto[n \in 0 .. Len(failed)] ==
          IF n = 0 THEN <<>> ELSE upto[n - 1] \o SplitTests(w.rewrites[failed[n]])
    IN  upto
Regenerate(w, failed) == Rewritten(w, failed)[Len(failed)]

\* validate_on_base, one attempt: what ran decides what is kept and what is asked for anew.
Attempted(w, v, n, run) ==
    LET passed == Passed(run.outcomes)
        failed == Keep(v.pending, DOMAIN v.pending \ passed)
        done   == failed = <<>> \/ n = MaxAttempts
    IN  [s |-> IF done \/ run.s.raised # "" THEN run.s ELSE Consult(w, run.s),
         survivors |-> v.survivors \o Keep(v.pending, passed),
         pending |-> IF done THEN <<>> ELSE Regenerate(w, failed)]

Attempt(w, v, n) ==
    IF v.pending = <<>> \/ v.s.raised # "" THEN v
    ELSE Attempted(w, v, n, RunTestsOn(w, v.s, v.pending, "base", <<"a", n>>))

\* _drop_flaky
DropFlaky(w, v) ==
    LET run == RunTestsOn(w, v.s, v.survivors, "base", <<"confirm">>)
    IN  [s |-> run.s, survivors |-> Keep(v.survivors, Passed(run.outcomes))]

Attempts(w, s, tests) ==
    LET after[n \in 0 .. MaxAttempts] ==
          IF n = 0 THEN [s |-> s, survivors |-> <<>>, pending |-> tests]
          ELSE Attempt(w, after[n - 1], n)
    IN  after

ValidateOnBase(w, s, tests) == DropFlaky(w, Attempts(w, s, tests)[MaxAttempts])
----------------------------------------------------------------------------
(* The differential *)

\* _is_declared: a claim names a symbol by the end of its name.
IsDeclared(w, symbol) == \E c \in w.claims : IsSuffix(c, symbol.path)

Confidence(declared) == IF declared THEN 45 ELSE 90

\* _finding: what is cited is the failure of the test with that number.
BehaviorChange(w, symbol, tests, i) ==
    [kind |-> "behavior_change", symbol |-> symbol.name, detail |-> i, test |-> tests[i],
     norm |-> "", confidence |-> Confidence(IsDeclared(w, symbol)), severity |-> 100]

\* _touched_first
TouchedFirst(radius) ==
    LET touched == {i \in DOMAIN radius : radius[i].touched}
    IN  Keep(radius, touched) \o Keep(radius, DOMAIN radius \ touched)
Selected(w) == Keep(TouchedFirst(w.radius), 1 .. MaxSymbols)

Differing(w, d, symbol, survivors, run) ==
    [s |-> run.s,
     findings |-> d.findings \cup {BehaviorChange(w, symbol, survivors, i) :
                                     i \in DOMAIN run.outcomes \ Passed(run.outcomes)}]

\* What is valid on the base is run on the head.
RunOnHead(w, d, symbol, valid) ==
    Differing(w, d, symbol, valid.survivors,
              RunTestsOn(w, valid.s, valid.survivors, "head", <<"head">>))

Characterized(w, d, symbol) ==
    IF ~symbol.readable \/ d.s.raised # "" THEN d
    ELSE RunOnHead(w, d, symbol,
                   ValidateOnBase(w, Consult(w, d.s), SplitTests(w.writes[symbol.name])))

\* differential: the declared scope is asked first, when the change has a description.
Differentials(w, s, chosen) ==
    LET after[n \in 0 .. Len(chosen)] ==
          IF n = 0 THEN [s |-> IF w.described THEN Consult(w, s) ELSE s, findings |-> {}]
          ELSE Characterized(w, after[n - 1], chosen[n])
    IN  after

BehaviorDifferential(w, s) ==
    LET chosen == Selected(w) IN Differentials(w, s, chosen)[Len(chosen)]
=============================================================================
