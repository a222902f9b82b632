------------------------------- MODULE Drift -------------------------------
(***************************************************************************)
(* How far a repository moved from what it said of itself:                 *)
(* charter/drift.py compares two charters.                                 *)
(***************************************************************************)
EXTENDS Charter

CONSTANT Limits   \* the thresholds of core/config.py, in percent

ASSUME DriftAssumption ==
    /\ DOMAIN Limits = {"removed", "removed_count", "added", "purpose_major", "purpose_notable"}
    /\ \A limit \in DOMAIN Limits : Limits[limit] \in Nat
----------------------------------------------------------------------------
DRIFT_LEVELS == <<"none", "minor", "notable", "major">>
Grade(level) == CHOOSE i \in DOMAIN DRIFT_LEVELS : DRIFT_LEVELS[i] = level

Signal(kind, level) == {[kind |-> kind, level |-> level]}
When(condition, signals) == IF condition THEN signals ELSE {}

\* Both say something, and not the same.
Changed(old, new) == old # <<>> /\ new # <<>> /\ old # new

\* A version is <<major, minor>>, or <<>> if it does not read as one.
VersionLevel(old, new) ==
    IF new[1] > old[1] THEN "major"
    ELSE IF \/ new[1] = 0 /\ new[2] > old[2]
            \/ new[1] < old[1] \/ (new[1] = old[1] /\ new[2] < old[2])
    THEN "notable" ELSE "minor"

Identity(b, a) ==
    When(b.toolchain # a.toolchain, Signal("toolchain", "major"))
    \cup When(Changed(b.license, a.license), Signal("license", "major"))
    \cup When(Changed(b.version, a.version),
              Signal("version", VersionLevel(b.version, a.version)))

Usage(b, a) ==
    When(b.entry_points \ a.entry_points # {}, Signal("entry_points", "major"))
    \cup When(a.entry_points \ b.entry_points # {}, Signal("entry_points", "notable"))

\* The share of `all`, in percent, reaches a limit.
Reaches(part, all, limit) == Cardinality(part) * 100 >= limit * Cardinality(all)

\* What was exposed, unless nothing was.
Surface(b, a) ==
    LET removed == b.public_api \ a.public_api
        added   == a.public_api \ b.public_api
        major   == \/ Reaches(removed, b.public_api, Limits.removed)
                   \/ Cardinality(removed) >= Limits.removed_count
    IN  When(b.public_api # {},
             When(removed # {},
                  Signal("public_api_removed", IF major THEN "major" ELSE "notable"))
             \cup When(added # {},
                  Signal("public_api_added",
                         IF Reaches(added, b.public_api, Limits.added)
                         THEN "notable" ELSE "minor")))

\* _purpose_text: the summary, then the claims.
PurposeText(charter) ==
    (IF charter.summary = <<>> THEN <<>> ELSE <<charter.summary>>) \o ClaimsOf(charter, "purpose")

\* SequenceMatcher.ratio in percent, of texts that are alike or have nothing in
\* common: twice what matches, in order, over both lengths.
Ratio(p, q) ==
    LET matched[i \in 0 .. Len(p), j \in 0 .. Len(q)] ==
          IF i = 0 \/ j = 0 THEN 0
          ELSE IF p[i] = q[j] THEN matched[i - 1, j - 1] + 1
          ELSE IF matched[i - 1, j] >= matched[i, j - 1]
          THEN matched[i - 1, j] ELSE matched[i, j - 1]
    IN  (200 * matched[Len(p), Len(q)]) \div (Len(p) + Len(q))

Purpose(b, a) ==
    LET old == PurposeText(b)
        new == PurposeText(a)
    IN  When(Changed(old, new),
             Signal("purpose",
                    IF Ratio(old, new) < Limits.purpose_major THEN "major"
                    ELSE IF Ratio(old, new) < Limits.purpose_notable THEN "notable"
                    ELSE "minor"))
        \cup When(old # <<>> /\ new = <<>>, Signal("purpose", "notable"))

\* What is gone is notable or, of modules, major by number; what is new is less.
Parts(b, a) ==
    LET gone(field) == b[field] \ a[field]
        new(field)  == a[field] \ b[field]
        level(set, otherwise, many) == IF Cardinality(set) >= 3 THEN many ELSE otherwise
    IN  When(gone("modules") # {},
             Signal("modules_removed", level(gone("modules"), "notable", "major")))
        \cup When(new("modules") # {},
             Signal("modules_added", level(new("modules"), "minor", "notable")))
        \cup When(gone("dependencies") # {}, Signal("dependencies_removed", "notable"))
        \cup When(new("dependencies") # {},
             Signal("dependencies_added", level(new("dependencies"), "minor", "notable")))
        \cup When(b.standards # a.standards, Signal("standards", "minor"))

\* split: the constraints that are labelled non-goals, and the others.
Constraints(charter) == Texts(Contents(charter.claims), "constraint")
NonGoals(charter) == {t \in Constraints(charter) : Len(t) > 1}
Rules(charter) == Constraints(charter) \ NonGoals(charter)

\* Dropping either loosens what was promised, stating more only narrows it.
Promises(b, a) ==
    When(NonGoals(b) \ NonGoals(a) # {}, Signal("non_goals", "notable"))
    \cup When(NonGoals(a) \ NonGoals(b) # {}, Signal("non_goals", "minor"))
    \cup When(Rules(b) \ Rules(a) # {}, Signal("constraints", "notable"))
    \cup When(Rules(a) \ Rules(b) # {}, Signal("constraints", "minor"))

\* Seeded fault: the two charters are taken for each other.
CompareBackwards(b, a) ==
    Identity(a, b) \cup Usage(a, b) \cup Surface(a, b) \cup Purpose(a, b)
    \cup Parts(a, b) \cup Promises(a, b)

Compare(b, a) ==
    Identity(b, a) \cup Usage(b, a) \cup Surface(b, a) \cup Purpose(b, a)
    \cup Parts(b, a) \cup Promises(b, a)

\* CharterDrift.level: the highest any signal reached.
Level(signals) ==
    IF signals = {} THEN "none"
    ELSE (CHOOSE s \in signals : \A t \in signals : Grade(t.level) <= Grade(s.level)).level

HEADLINE_ORDER ==
    <<"purpose", "toolchain", "entry_points", "public_api_removed", "license",
      "modules_removed", "version", "non_goals", "constraints", "dependencies_removed",
      "public_api_added", "modules_added", "dependencies_added", "standards">>

\* headline: of the signals at the level of the whole, the most telling.
Headline(signals) ==
    LET top == {s \in signals : s.level = Level(signals)}
        at(s) == CHOOSE i \in DOMAIN HEADLINE_ORDER : HEADLINE_ORDER[i] = s.kind
    IN  CHOOSE s \in top : \A t \in top : at(s) <= at(t)
=============================================================================
