---------------------------- MODULE Verification ----------------------------
(***************************************************************************)
(* What one run finds and says: the stages of engine/worker.py after both  *)
(* suites, with the adjudication of adjudicate/adjudicate.py and the rows  *)
(* of storage/repos.py.  A step is a stage, or what happens between two    *)
(* awaits of one; the keepers of charter and brain replace what is stored  *)
(* of the repository in between.  Where the change is checked from the command line    *)
(* instead, Check says what comes of it.                                   *)
(***************************************************************************)
EXTENDS Findings, Atlas, Check

CONSTANTS Scenario,   \* pull requests, and what their suites and linters say
          Checkout,      \* the code of the commits the keeper of the charter may index
          Known,         \* those it has, by when the run begins
          Dotted(_),     \* a symbol's name, written with dots
          DeclaredNorms, \* what the keepers may store
          Offer,      \* the sets of citations an item of an answer may come with
          Notifier,   \* there is one
          MaxEvents   \* bound: failures, ends of the process, steps of the keepers

ASSUME VerificationAssumption ==
    /\ Notifier \in BOOLEAN /\ MaxEvents \in Nat /\ Known \subseteq DOMAIN Checkout
    /\ \A s \in Scenario :
         /\ {"base", "head", "fork", "python", "suite", "lint", "changed", "local"} \subseteq DOMAIN s
         /\ s.local \in DOMAIN World

VARIABLES
    scenario,   \* the pull request; local: the kind of world it may be checked in
    pc,
    held,       \* the observations
    coverage,   \* what was verified, and what was skipped
    packets,    \* groups still to be read
    packet,     \* the one being read, if any
    evidence,   \* what a citation may point at
    verdicts,   \* adjudications, suggestions and refusals so far
    call_edges, norms, charter,  \* the repository's memory
    indexed,    \* the commits whose calls it has (history)
    rows,       \* observations, adjudications and suggestions stored
    impact,     \* the run's charter_impact
    notices,    \* notifications raised
    found,      \* the observations as first ranked (history)
    unread,     \* indexes that could not be read (history)
    moved,      \* caller counts were replaced after the first ranking (history)
    cut,        \* an execution ended while it stored its rows (history)
    measured,   \* the last execution measured the charter's drift (history)
    events

keeperVars == <<call_edges, norms, charter, indexed>>
rowVars == <<rows, impact, notices>>
historyVars == <<found, unread, moved, cut, measured>>
vars == <<scenario, pc, held, coverage, packets, packet, evidence, verdicts,
          keeperVars, rowVars, historyVars, events>>
----------------------------------------------------------------------------
Note(what, of, ok) == {[what |-> what, of |-> of, ok |-> ok]}
Complete == \A n \in coverage : n.ok

NoVerdicts == [adjudications |-> {}, suggestions |-> {}, answered |-> {}, rejected |-> {},
               skipped |-> {}, shown |-> {}]
NoEvidence == [norms |-> {}, tests |-> {}, changed |-> {}, text |-> <<>>]

\* What each checkout says of itself.
Trees == {s.base : s \in Scenario} \cup {s.head : s \in Scenario}
Extracted == [t \in Trees |-> ExtractCharter(t, "pack")]
Stated == [t \in Trees |-> Contents(Offers(t))]
ASSUME OffersAssumption == \A t \in Trees : Offers(t) \in Seq(Stated[t])

\* The atlas of each checkout gives its call edges.
Spelled == [c \in DOMAIN Checkout |->
              {<<Dotted(e[1]), Dotted(e[2])>> : e \in Structure(Checkout[c]).edges}]
ASSUME CheckoutAssumption ==
    IsFiniteSet(DOMAIN Checkout) /\ \A c \in DOMAIN Checkout : IsCode(Checkout[c])

callers == CallerCounts(call_edges)

Fresh ==
    /\ held = {} /\ coverage = {}
    /\ packets = {} /\ packet = {}
    /\ evidence = NoEvidence /\ verdicts = NoVerdicts
    /\ found = {} /\ unread = {} /\ moved = FALSE /\ measured = FALSE

Init ==
    /\ scenario \in Scenario
    /\ pc = "begin"
    /\ Fresh
    /\ indexed \in {{}, Known} /\ call_edges = UNION {Spelled[c] : c \in indexed}
    /\ norms \in DeclaredNorms
    /\ charter \in {{}, {Extracted[scenario.base]}}
    /\ rows = [observations |-> {}, adjudications |-> {}, suggestions |-> {}]
    /\ impact = "none" /\ notices = 0
    /\ cut = FALSE
    /\ events = 0

Event == events < MaxEvents /\ events' = events + 1
Goes(stage) == pc' = stage
----------------------------------------------------------------------------
(* Probing *)

\* _from_fork_point, which stores the base it measures from, and the comparison of
\* both suites.
CompareSuites ==
    LET base == scenario.suite.base
        head == scenario.suite.head
        ran  == DOMAIN base.tests # {}
    IN  /\ pc = "begin"
        /\ scenario' = [scenario EXCEPT !.fork = IF @ = "earlier" THEN "tip" ELSE @]
        /\ held' = (IF ran THEN Differential(base, head) ELSE {}) \cup OutcomeFindings(base, head)
        /\ coverage' = When(scenario.fork = "none", Note("fork point", "", FALSE))
                       \cup When(scenario.fork = "earlier", Note("fork point", "", TRUE))
                       \cup Note("behaviour", "", ran)
        /\ Goes("surface")
        /\ UNCHANGED <<packets, packet, evidence, verdicts, keeperVars, rowVars,
                       historyVars, events>>

\* An index that cannot be read is an empty one.
CompareSurface ==
    /\ pc = "surface"
    /\ \E lost \in IF scenario.python THEN SUBSET {"base", "head"} ELSE {{}} :
         LET index(side) == IF side \in lost THEN <<>> ELSE scenario[side].api IN
         /\ IF lost = {} THEN UNCHANGED events ELSE Event
         /\ unread' = lost
         /\ held' = held \cup When(scenario.python, SurfaceFindings(index("base"), index("head")))
    /\ coverage' = coverage \cup Note("surface", "", scenario.python)
    /\ Goes("lint")
    /\ UNCHANGED <<scenario, packets, packet, evidence, verdicts, keeperVars, rowVars,
                   found, moved, cut, measured>>

\* Seeded fault: a linter that failed at one of the commits is not mentioned.
NotesOfRan(ran, failed) == UNION {Note("lint", tool, TRUE) : tool \in ran}

LintNotes(ran, failed) ==
    (UNION {Note("lint", tool, TRUE) : tool \in ran})
    \cup (UNION {Note("lint", tool, FALSE) : tool \in failed})
    \cup When(ran \cup failed = {}, Note("lint", "", FALSE))

\* _lint: only what ran at both commits is compared.
CompareLint ==
    LET tools == DOMAIN scenario.lint
        ran   == {t \in tools : scenario.lint[t].ran = {"base", "head"}}
    IN  /\ pc = "lint"
        /\ held' = held \cup UNION {LintFindings(t, scenario.lint[t].base, scenario.lint[t].head) :
                                      t \in ran}
        /\ coverage' = coverage \cup LintNotes(ran, tools \ ran)
        /\ Goes("ground")
        /\ UNCHANGED <<scenario, packets, packet, evidence, verdicts, keeperVars, rowVars,
                       historyVars, events>>

\* _ground, and _announce: put_notification ignores what was announced before.
Measure(base, signals) ==
    /\ held' = Grounded(held, base)
    /\ coverage' = coverage \cup Note("charter", "", TRUE)
                   \cup When(signals # {}, Note("impact", "", TRUE))
    /\ impact' = Level(signals)
    /\ notices' = IF Notifier /\ impact' = "major" /\ Headline(signals) \in signals
                  THEN 1 ELSE notices

Ground ==
    /\ pc = "ground"
    /\ Measure(Extracted[scenario.base],
               Compare(Extracted[scenario.base], Extracted[scenario.head]))
    /\ measured' = TRUE
    /\ Goes("attach")
    /\ UNCHANGED <<scenario, packets, packet, evidence, verdicts, keeperVars, rows,
                   found, unread, moved, cut, events>>

\* Reading a checkout raises: the charter of the default branch has to do.
GroundFails ==
    /\ pc = "ground"
    /\ Event
    /\ held' = IF charter = {} THEN held ELSE Grounded(held, CHOOSE c \in charter : TRUE)
    /\ coverage' = coverage \cup Note("charter", "", charter # {})
    /\ Goes("attach")
    /\ UNCHANGED <<scenario, packets, packet, evidence, verdicts, keeperVars, rowVars, historyVars>>

\* _attach_norms reads the base's own, and stores them, where there are none.
Attach ==
    /\ pc = "attach"
    /\ norms' = IF norms = {} THEN scenario.base.norms ELSE norms
    /\ held' = Attached(held, norms')
    /\ Goes("rank")
    /\ UNCHANGED <<scenario, coverage, packets, packet, evidence, verdicts, call_edges,
                   indexed, charter, rowVars, historyVars, events>>

\* _rank; what is found is adjudicated if there is a model.
Rank ==
    /\ pc = "rank"
    /\ held' = Ranked(held, callers)
    /\ found' = held'
    /\ \/ held # {} /\ Goes("group") /\ UNCHANGED coverage
       \/ held # {} /\ Goes("store") /\ coverage' = coverage \cup Note("adjudication", "", FALSE)
       \/ held = {} /\ Goes("store") /\ UNCHANGED coverage
    /\ UNCHANGED <<scenario, packets, packet, evidence, verdicts, keeperVars, rowVars,
                   unread, moved, cut, measured, events>>
----------------------------------------------------------------------------
(* Adjudication *)

Group ==
    /\ pc = "group"
    /\ packets' = Packets(held)
    /\ verdicts' = [verdicts EXCEPT !.shown = UNION {Ids(p.shown) : p \in packets'}]
    /\ Goes("gather")
    /\ UNCHANGED <<scenario, held, coverage, packet, evidence, keeperVars, rowVars,
                   historyVars, events>>

\* Evidence: the norms stored by now, and the run's own tests, files and changes.
Gather ==
    /\ pc = "gather"
    /\ evidence' = [norms   |-> norms,
                    tests   |-> DOMAIN scenario.suite.base.tests \cup DOMAIN scenario.suite.head.tests,
                    changed |-> scenario.changed,
                    text    |-> scenario.head.text]
    /\ Goes("read")
    /\ UNCHANGED <<scenario, held, coverage, packets, packet, verdicts, keeperVars, rowVars,
                   historyVars, events>>

\* resolve: a misquote is as good as nothing.
Resolves(citation, e) ==
    CASE citation.type = "norm" -> citation.ref \in e.norms
      [] citation.type = "test" -> citation.ref \in e.tests
      [] citation.type = "diff" -> citation.ref \in e.changed
      [] citation.type = "code" -> /\ citation.ref \in DOMAIN e.text
                                   /\ citation.quote \in {<<>>, e.text[citation.ref]}

NextPacket == CHOOSE p \in packets : \A q \in packets : p.place <= q.place

\* The packets are read in turn.  No call is made, or it is refused, or fails: the group
\* is skipped.
SkipPacket ==
    /\ pc = "read" /\ packets # {}
    /\ packets' = packets \ {NextPacket}
    /\ verdicts' = [verdicts EXCEPT !.skipped = @ \cup {NextPacket.key}]
    /\ UNCHANGED <<scenario, pc, held, coverage, packet, evidence, keeperVars, rowVars,
                   historyVars, events>>

Reject(ids, why) == {[id |-> i, why |-> why] : i \in ids}

\* The answer is not JSON.
Garbled ==
    /\ pc = "read" /\ packets # {}
    /\ packets' = packets \ {NextPacket}
    /\ verdicts' = [verdicts EXCEPT !.rejected = @ \cup Reject(Ids(NextPacket.shown), "not JSON")]
    /\ UNCHANGED <<scenario, pc, held, coverage, packet, evidence, keeperVars, rowVars,
                   historyVars, events>>

Ask ==
    /\ pc = "read" /\ packets # {}
    /\ packets' = packets \ {NextPacket}
    /\ packet' = {NextPacket}
    /\ Goes("answer")
    /\ UNCHANGED <<scenario, held, coverage, evidence, verdicts, keeperVars, rowVars,
                   historyVars, events>>

Shown == UNION {Ids(p.shown) : p \in packet}

\* What it may be about: something shown, and that once.
Answers(id) == id \in Shown \ verdicts.answered

\* _take, of an item about something shown: no assessment without a citation that
\* resolves, and no suggestion without one of its own.
Take(id, assessment, cited, suggested, backing) ==
    LET kept == {c \in cited : Resolves(c, evidence)}
        backed == {c \in backing : Resolves(c, evidence)}
    IN  /\ pc = "answer"
        /\ Answers(id)
        /\ verdicts' =
             IF assessment = "unusable"
             THEN [verdicts EXCEPT !.answered = @ \cup {id},
                                   !.rejected = @ \cup Reject({id}, "unusable")]
             ELSE IF kept = {}
             THEN [verdicts EXCEPT !.answered = @ \cup {id},
                                   !.rejected = @ \cup Reject({id}, "uncited")]
             ELSE [verdicts EXCEPT
                     !.answered = @ \cup {id},
                     !.adjudications = @ \cup {[id |-> id, assessment |-> assessment, cites |-> kept]},
                     !.suggestions = @ \cup When(suggested /\ backed # {}, {[id |-> id, cites |-> backed]}),
                     !.rejected = @ \cup When(suggested /\ backed = {}, Reject({id}, "unbacked"))]
        /\ UNCHANGED <<scenario, pc, held, coverage, packets, packet, evidence, keeperVars,
                       rowVars, historyVars, events>>

\* What the answer did not address.
EndAnswer ==
    /\ pc = "answer"
    /\ verdicts' = [verdicts EXCEPT !.rejected = @ \cup Reject(Shown \ verdicts.answered, "unaddressed"),
                                    !.answered = {}]
    /\ packet' = {}
    /\ Goes("read")
    /\ UNCHANGED <<scenario, held, coverage, packets, evidence, keeperVars, rowVars,
                   historyVars, events>>

Misleading == {a.id : a \in {b \in verdicts.adjudications : b.assessment = "probe_false_positive"}}

\* Seeded fault: the verdicts reach the ranking by place and not by id.
DemotedAll == {IF Misleading # {} THEN [o EXCEPT !.confidence = @ \div 2] ELSE o : o \in held}

\* What is shown to be misleading counts half.
Demoted == {IF Id(o) \in Misleading THEN [o EXCEPT !.confidence = @ \div 2] ELSE o : o \in held}

\* The rest of _adjudicate: demote, rank again, and say what was not read.
Settle ==
    /\ pc = "read" /\ packets = {}
    /\ held' = Ranked(Demoted, callers)
    /\ coverage' = coverage
         \cup When(verdicts.adjudications # {}, Note("adjudication", "", TRUE))
         \cup (UNION {Note("discarded", r.why, FALSE) : r \in verdicts.rejected})
         \cup (UNION {Note("group", key, FALSE) : key \in verdicts.skipped})
         \cup When(Ids(held) \ verdicts.shown # {}, Note("beyond", "", FALSE))
    /\ Goes("store")
    /\ UNCHANGED <<scenario, packets, packet, evidence, verdicts, keeperVars, rowVars,
                   historyVars, events>>
----------------------------------------------------------------------------
(* Storing *)

\* ON CONFLICT(id): a row's scores are those written last.
Upsert(table, entries) == {r \in table : \A e \in entries : e.id # r.id} \cup entries

RowOf(o) == [id |-> Id(o), confidence |-> o.confidence, norm |-> o.norm]

StoredTo(observations, adjudications, suggestions) ==
    rows' = [observations  |-> Upsert(rows.observations, {RowOf(o) : o \in observations}),
             adjudications |-> Upsert(rows.adjudications, adjudications),
             suggestions   |-> Upsert(rows.suggestions, suggestions)]

Store ==
    /\ pc = "store"
    /\ StoredTo(held, verdicts.adjudications, verdicts.suggestions)
    /\ Goes("done")
    /\ UNCHANGED <<scenario, held, coverage, packets, packet, evidence, verdicts, keeperVars,
                   impact, notices, historyVars, events>>

\* A stage raises.
Fails ==
    /\ pc \notin {"done", "failed"}
    /\ Event
    /\ Goes("failed")
    /\ UNCHANGED <<scenario, held, coverage, packets, packet, evidence, verdicts, keeperVars,
                   rowVars, historyVars>>

\* The process ends and starts again: the run is queued, and executed from the beginning
\* on what the pool has cached.  Rows are written one at a time, each committed.
Crash ==
    /\ pc \notin {"done", "failed"}
    /\ Event
    /\ \/ pc # "store" /\ UNCHANGED <<rows, cut>>
       \/ /\ pc = "store" /\ cut' = TRUE
          /\ \E n \in 0 .. Cardinality(held) :
               StoredTo({o \in held : AboveIt(o, held) < n}, {}, {})
       \/ /\ pc = "store" /\ cut' = TRUE
          /\ \E some \in SUBSET verdicts.adjudications : StoredTo(held, some, {})
       \/ /\ pc = "store" /\ cut' = TRUE
          /\ \E some \in SUBSET verdicts.suggestions :
               StoredTo(held, verdicts.adjudications, some)
    /\ Goes("begin")
    /\ held' = {} /\ coverage' = {}
    /\ packets' = {} /\ packet' = {}
    /\ evidence' = NoEvidence /\ verdicts' = NoVerdicts
    /\ found' = {} /\ unread' = {} /\ moved' = FALSE /\ measured' = FALSE
    /\ UNCHANGED <<scenario, keeperVars, impact, notices>>

\* The keepers go on: an atlas, declared norms, a charter.
Keepers ==
    /\ pc \notin {"done", "failed"}
    /\ Event
    /\ \/ /\ \E c \in DOMAIN Checkout \ indexed :
               /\ indexed' = indexed \cup {c}
               /\ call_edges' = PutCallEdges(call_edges, Spelled[c])
          /\ moved' = (moved \/ found # {})
          /\ UNCHANGED <<norms, charter>>
       \/ norms' \in DeclaredNorms /\ UNCHANGED <<call_edges, indexed, charter, moved>>
       \/ /\ charter' = {Extracted[scenario.base]}
          /\ UNCHANGED <<call_edges, indexed, norms, moved>>
    /\ UNCHANGED <<scenario, pc, held, coverage, packets, packet, evidence, verdicts, rowVars,
                   found, unread, cut, measured>>

Next ==
    \/ CompareSuites \/ CompareSurface \/ CompareLint
    \/ Ground \/ GroundFails \/ Attach \/ Rank
    \/ Group \/ Gather \/ SkipPacket \/ Garbled \/ Ask \/ EndAnswer \/ Settle
    \/ \E id \in Ids(held), cited, backing \in Offer, suggested \in BOOLEAN,
          assessment \in {"diverges_from_repo", "probe_false_positive", "unusable"} :
            Take(id, assessment, cited, suggested, backing)
    \/ Store \/ Fails \/ Crash \/ Keepers

Spec == Init /\ [][Next]_vars
----------------------------------------------------------------------------
(* Properties *)

\* A run that says it is complete is: it was measured from its fork point, there was a
\* suite to compare with, every linter ran at both commits, every finding was judged
\* against a charter and read by the adjudicator, with a citation that points at
\* something.  It may not be where an index could not be read, which is called compared,
\* nor where both suites ended alike before their end.
CompleteMeansComplete ==
    pc = "done" /\ Complete =>
      /\ scenario.fork # "none" /\ scenario.python
      /\ DOMAIN scenario.suite.base.tests # {}
      /\ \/ scenario.suite.head.outcome \notin INTERESTING
         \/ scenario.suite.head.outcome = scenario.suite.base.outcome
         \/ \E o \in held : o.symbol = "(suite)"
      /\ \A t \in DOMAIN scenario.lint : scenario.lint[t].ran = {"base", "head"}
      /\ \A o \in held :
           /\ o.relevance # ""
           /\ \E a \in rows.adjudications : a.id = Id(o) /\ a.cites # {}
      /\ unread = {} => {s \in DOMAIN scenario.base.api : s \notin DOMAIN scenario.head.api}
                          \subseteq {o.symbol : o \in held}

\* What the probes found is what is stored.  The adjudicator adds nothing, removes
\* nothing and promotes nothing: it speaks of what was found, and halves the
\* confidence of what it calls misleading and of nothing else.  An execution that was
\* cut short leaves rows the next may not have; the atlas may be replaced under it.
FindingsStand ==
    pc = "done" =>
      /\ Ids(found) \subseteq {r.id : r \in rows.observations}
      /\ {s.id : s \in rows.suggestions} \subseteq {a.id : a \in rows.adjudications}
      /\ {a.id : a \in rows.adjudications} \subseteq {r.id : r \in rows.observations}
      /\ ~cut => Ids(found) = {r.id : r \in rows.observations}
      /\ ~cut => \A r \in rows.observations :
           LET same == {o \in found : Id(o) = r.id}
               half == \E a \in rows.adjudications :
                         a.id = r.id /\ a.assessment = "probe_false_positive"
           IN  \E o \in same : r.confidence = IF half THEN o.confidence \div 2 ELSE o.confidence
      /\ ~moved => \A o \in held : \E p \in found : Id(o) = Id(p) /\ o.score <= p.score

\* What the base has, or its charter states, and the head has not.
Gone(base, head) ==
    \/ DOMAIN scenario.base.api \ DOMAIN scenario.head.api # {}
    \/ base.dependencies \ head.dependencies # {}
    \/ base.modules \ {d[1] : d \in Contents(Docstrings(scenario.head))} # {}
    \/ Constraints(base) \ Texts(Stated[scenario.head], "constraint") # {}

MeasuredWell(base, head) ==
    /\ base.entry_points \ head.entry_points # {} => impact = "major"
    /\ Gone(base, head) => Grade(impact) >= Grade("notable")

\* What a pull request takes away is told.  Once an execution has measured it: a command
\* that is gone makes its impact major; a public symbol, a dependency, a documented
\* module, a rule or a non-goal that the base's charter states and no file of the head
\* does any more makes it notable at least.  A major impact, and only that, is
\* announced, and stays on the run if a later execution cannot measure it.
LossesAreTold ==
    /\ measured => MeasuredWell(Extracted[scenario.base], Extracted[scenario.head])
    /\ notices = IF Notifier /\ impact = "major" THEN 1 ELSE 0

\* No caller is missed that Python would call from: the graph of each commit indexed has
\* every call but those it is known to miss, and a change reaches what calls it.  What is
\* stored of it counts no fewer callers than the commit has (build_call_graph,
\* blast_radius, put_call_edges).
AllCallersFound == {c \in DOMAIN Checkout : CallersFound(Checkout[c], CommonRoot(Checkout[c]))}
CallersAreFound ==
    /\ indexed \subseteq AllCallersFound
    /\ \A c \in indexed : \A e \in Spelled[c] :
         callers[e[2]] >= Cardinality({d \in Spelled[c] : d[2] = e[2]})

\* The parts of each atlas agree with each other, and with the probes.
AllAtlasesAgree == {c \in DOMAIN Checkout : AtlasAgrees(Checkout[c])}
AtlasesAgree == indexed \subseteq AllAtlasesAgree

\* A behaviour change is told only by a test that two executions on the base passed and
\* an execution on the head did not: "a test that does not reproduce twice on one commit
\* is not evidence of anything" (validate.py).  The runs are cached, the tests renumbered
\* at every step, and what the model rewrites may be what it wrote before.
RecordedTwice == scenario.local \in WellRecorded

\* When the differential counts as verified, no test that was run on the head and did not
\* pass there is left out of what is reported, nor in the state of the pipeline; when it
\* is skipped, nothing of it is reported.  The same check again reports the same, and
\* runs nothing: identical work is done once (SPEC.md).
AllIsTold == scenario.local \in WellTold
=============================================================================
