------------------------------- MODULE Check -------------------------------
(***************************************************************************)
(* "prflagger check" (cli.py): three static probes and the behavioural     *)
(* differential of a base and a head, put in order against the norms the   *)
(* repository declares and has stored.                                     *)
(***************************************************************************)
EXTENDS Characterize
LOCAL INSTANCE SequencesExt

CONSTANTS World,           \* changes, machines and models by kind, as the records below read them
          MatchThreshold,  \* MATCH_THRESHOLD, in percent
          Alphabet         \* names, in order

ASSUME CheckAssumption == MatchThreshold \in Nat

\* A model's reply holds functions, of which some are tests; it can be asked for the tests
\* of every symbol in reach, and to write anew every test it ever wrote.
IsReply(w, reply) ==
    /\ reply.functions \in Seq(Elements(reply.functions))
    /\ \A f \in Elements(reply.functions) : f.test => f.name \in DOMAIN w.rewrites
IsWorld(w) ==
    /\ w.radius \in Seq(Elements(w.radius))
    /\ \A symbol \in Elements(w.radius) : symbol.name \in DOMAIN w.writes
    /\ \A name \in DOMAIN w.writes : IsReply(w, w.writes[name])
    /\ \A test \in DOMAIN w.rewrites : IsReply(w, w.rewrites[test])

ASSUME WorldAssumption == \A kind \in DOMAIN World : \A w \in World[kind] : IsWorld(w)
----------------------------------------------------------------------------
(* What the repository declares *)

Tool(w, name, files) == name \in w.tools \/ files \cap w.files # {}

\* detect_declared
DetectDeclared(w) ==
    (IF Tool(w, "ruff", {"ruff.toml", ".ruff.toml"}) THEN {"ruff"}
     ELSE IF Tool(w, "flake8", {".flake8"}) THEN {"flake8"} ELSE {})
    \cup (IF Tool(w, "mypy", {"mypy.ini", ".mypy.ini"}) \/ "pyright" \in w.tools
          THEN {"type_checker"} ELSE {})
    \cup (IF Tool(w, "pytest", {"pytest.ini", "tox.ini"}) THEN {"test_runner"} ELSE {})
    \cup (IF w.files \cap {"CHANGES.md", "CHANGELOG.md", "CHANGES.rst", "CHANGELOG.rst"} # {}
          THEN {"changelog"} ELSE {})

\* declarative_norms
DeclarativeNorms(w) ==
    {CASE d = "ruff" -> "declared-ruff-clean"
       [] d = "flake8" -> "declared-flake8-clean"
       [] d = "type_checker" -> "declared-types-clean"
       [] d = "test_runner" -> "declared-tests-exist"
       [] d = "changelog" -> "declared-changelog-for-api" : d \in DetectDeclared(w)}

\* A probe finds nothing that no declared standard makes matter (norm_for).
Finding(w, kind, norm, symbol, detail, severity) ==
    IF norm \in DeclarativeNorms(w)
    THEN {[kind |-> kind, symbol |-> symbol, detail |-> detail, test |-> "", norm |-> norm,
           confidence |-> 100, severity |-> severity]}
    ELSE {}
----------------------------------------------------------------------------
(* The probes: what each finds, and the session it leaves *)

\* api_diff
ApiDiff(w, s) ==
    LET before == w.api["base"]
        after  == w.api["head"]
        change(f) == IF f \notin DOMAIN before THEN "added"
                     ELSE IF f \notin DOMAIN after THEN "removed"
                     ELSE IF before[f] # after[f] THEN "signature" ELSE ""
        finding(f) == Finding(w, "api_change", "declared-changelog-for-api", f, change(f), 80)
    IN  [s |-> s,
         findings |-> UNION {finding(f) :
                               f \in {f \in DOMAIN before \cup DOMAIN after : change(f) # ""}}]

\* coverage_delta: a symbol changed, in a file that was measured, with a body that never ran.
Uncovered(x) == x.touched /\ x.measured /\ x.body > 0 /\ x.hits = 0
CoverageDelta(w, s) ==
    LET touched == {y \in Elements(w.radius) : y.touched}
        after   == Calibrate(w, s, "head")
        finding(y) == Finding(w, "coverage_gap", "declared-tests-exist", y.name, "", 50)
    IN  IF "declared-tests-exist" \notin DeclarativeNorms(w) \/ touched = {}
        THEN [s |-> s, findings |-> {}]
        ELSE [s |-> after,
              findings |-> IF after.raised # "" \/ ~w.covers THEN {}
                           ELSE UNION {finding(y) : y \in {y \in touched : Uncovered(y)}}]

\* lint_errors: nothing is known of a commit whose job said nothing.
LintErrors(w, commit) ==
    LET tree == TreeOf(w, commit) IN IF w.builds[tree] THEN w.lint[tree] ELSE <<>>

\* lint_regression: by file, code and message, never by line.
LintRegression(w, s) ==
    LET errors(commit) == LintErrors(w, commit)
        new(tool) == errors("head")[tool] \ errors("base")[tool]
        norm(tool) == IF tool = "ruff" THEN "declared-ruff-clean" ELSE "declared-types-clean"
    IN  [s |-> s,
         findings |-> IF errors("base") = <<>> \/ errors("head") = <<>> THEN {}
                      ELSE UNION {UNION {Finding(w, "lint_regression", norm(t), e[1], e[2], 30) :
                                           e \in new(t)} : t \in {"ruff", "mypy"}}]
----------------------------------------------------------------------------
(* The order *)

\* _attach: the nearest stored norm, when it is near enough.
AttachNearest(w, f) ==
    LET near == SelectSeq(w.matches[f.kind], LAMBDA m : m[2] >= MatchThreshold)
    IN  IF near = <<>> THEN f ELSE [f EXCEPT !.norm = Head(near)[1]]

\* score: the command's own store has no calls, so no symbol is more central than
\* another; every norm is of scope "repo".
ScoreOf(f) == f.confidence * f.severity

\* At one score: by symbol, kind and what is cited.
Standing(name) == CHOOSE i \in DOMAIN Alphabet : Alphabet[i] = name
ByContent(f, g) ==
    IF f.symbol # g.symbol THEN Standing(f.symbol) < Standing(g.symbol)
    ELSE IF f.kind # g.kind THEN Standing(f.kind) < Standing(g.kind)
    ELSE IF f.kind = "behavior_change" THEN f.detail < g.detail
    ELSE Standing(f.detail) < Standing(g.detail)

\* rank: each finding, with as many ahead of it.
RankFindings(w, findings) ==
    LET attached == {AttachNearest(w, f) : f \in findings}
        ahead(g, f) == ScoreOf(g) > ScoreOf(f) \/ (ScoreOf(g) = ScoreOf(f) /\ ByContent(g, f))
    IN  [f \in attached |-> Cardinality({g \in attached : ahead(g, f)})]
----------------------------------------------------------------------------
(* The command *)

\* A probe that raises is skipped and what it found is not used; the next one begins anew.
Stage(c, name, d) ==
    [s |-> [d.s EXCEPT !.raised = ""],
     findings |-> IF d.s.raised = "" THEN c.findings \cup d.findings ELSE c.findings,
     verified |-> IF d.s.raised = "" THEN c.verified \cup {name} ELSE c.verified,
     skipped  |-> IF d.s.raised = "" THEN c.skipped ELSE c.skipped \cup {name}]

\* _check: the probes in this order.
Reported(w, c) == [s |-> c.s, verified |-> c.verified, skipped |-> c.skipped,
                   ranked |-> RankFindings(w, c.findings)]
CheckChange(w, s) ==
    LET begun   == [s |-> s, findings |-> {}, verified |-> {}, skipped |-> {}]
        surface == Stage(begun, "api surface", ApiDiff(w, begun.s))
        covered == Stage(surface, "coverage", CoverageDelta(w, surface.s))
        linted  == Stage(covered, "lint and types", LintRegression(w, covered.s))
    IN  Reported(w, Stage(linted, "behavioural differential", BehaviorDifferential(w, linted.s)))

\* _pipeline_state, the nodes whose state depends on the run.
PipelineState(c) ==
    LET ran    == "behavioural differential" \in c.verified
        probes == {f \in DOMAIN c.ranked : f.kind # "behavior_change"}
    IN  [n \in {"c1base", "c3", "filter", "c1head", "c4", "c9"} |->
           CASE n = "c9" -> IF probes # {} THEN "complete" ELSE "idle"
             [] n \in {"c3", "c4"} -> IF ran THEN "complete" ELSE "failed"
             [] OTHER -> IF ran THEN "complete" ELSE "idle"]
----------------------------------------------------------------------------
(* Properties *)

\* What an execution said of a test, if anything: its last case stands for it; of a run
\* that died, how, unless pytest or docker could not begin.
Told(run, test) ==
    IF test \notin DOMAIN run.said THEN {}
    ELSE IF Reports(run, test) THEN {Stands(run, test)}
    ELSE {run.outcome} \ {"passed", "failed", "install_failed"}
Passes(run, test) == Told(run, test) = {"passed"}
Differs(run, test) == Told(run, test) \ {"passed"} # {}

Changes(c) == {f \in DOMAIN c.ranked : f.kind = "behavior_change"}
RunsOn(c, commit) == {r \in c.s.runs : r.commit = commit}

\* The check tells of a change that was not recorded twice on the base and missed on the
\* head.
Unrecorded(c) ==
    \E f \in Changes(c) :
        \/ Cardinality({r \in RunsOn(c, "base") : Passes(r, f.test)}) < 2
        \/ \A r \in RunsOn(c, "head") : ~Differs(r, f.test)

\* The check says less, or more, than it saw, or not the same a second time.
Untold(c, again) ==
    LET missed == UNION {{t \in DOMAIN r.said : Differs(r, t)} : r \in RunsOn(c, "head")}
        told   == {f.test : f \in Changes(c)}
    IN  \/ told # IF "behavioural differential" \in c.verified THEN missed ELSE {}
        \/ told # {} /\ PipelineState(c)["c4"] # "complete"
        \/ again.ranked # c.ranked \/ again.s.runs # c.s.runs

\* Of each kind, what a check says and what it says when it is run again.
Checked ==
    LET twice(w, once) == [once |-> once, again |-> CheckChange(w, once.s)]
    IN  [kind \in DOMAIN World |-> {twice(w, CheckChange(w, NewSession)) : w \in World[kind]}]

\* The kinds of worlds in which the check of a change is as it should be.
WellRecorded == {kind \in DOMAIN World : \A c \in Checked[kind] : ~Unrecorded(c.once)}
WellTold == {kind \in DOMAIN World : \A c \in Checked[kind] : ~Untold(c.once, c.again)}
=============================================================================
