------------------------------ MODULE MCCheck ------------------------------
(***************************************************************************)
(* Small worlds for Check: a change of two symbols out of three, tests     *)
(* that pass, fail, flicker or take cases, a model that rewrites them and  *)
(* a machine on which containers die.                                      *)
(***************************************************************************)
EXTENDS Check, TLC
LOCAL INSTANCE SequencesExt

P == <<"passed">>
F == <<"failed">>
Always(o) == <<o>>
Symbol(name, touched, hits) ==
    [name |-> name, path |-> <<"m", name>>, touched |-> touched, readable |-> TRUE, body |-> 3,
     measured |-> TRUE, hits |-> hits]

Reply(names) ==
    [parses |-> TRUE, functions |-> [i \in DOMAIN names |-> [name |-> names[i], test |-> TRUE]]]
Helped(reply) == [reply EXCEPT !.functions = <<[name |-> "helper", test |-> FALSE]>> \o @]
Unparsed == [Reply(<<"t3">>) EXCEPT !.parses = FALSE]

Steady == [t1 |-> Always(P), t2 |-> Always(P), t3 |-> Always(P), t4 |-> Always(P)]

Usual ==
    [radius   |-> <<Symbol("a", FALSE, 1), Symbol("b", TRUE, 0), Symbol("c", TRUE, 2)>>,
     writes   |-> [a |-> Reply(<<"t4">>), b |-> Helped(Reply(<<"t1", "t2">>)),
                  c |-> Reply(<<"t4">>)],
     rewrites |-> [t1 |-> Reply(<<"t1">>), t2 |-> Reply(<<"t3", "t1">>), t3 |-> Unparsed,
                  t4 |-> Reply(<<"t4">>)],
     behaves  |-> [base |-> Steady, head |-> [Steady EXCEPT !.t2 = Always(F)]],
     dies     |-> [base |-> <<0>>, head |-> <<0>>],
     builds   |-> [base |-> TRUE, head |-> TRUE], measures |-> [base |-> TRUE, head |-> TRUE],
     model    |-> TRUE, described |-> TRUE, claims |-> {<<"b">>, <<"m", "a">>},
     at       |-> "head", added |-> {"base", "head"},
     api      |-> [base |-> "m.f" :> 0 @@ "m.g" :> 0, head |-> "m.f" :> 1 @@ "m.h" :> 0],
     covers   |-> TRUE,
     lint     |-> [base |-> [ruff |-> {<<"m.py", "E1">>}, mypy |-> {}],
                   head |-> [ruff |-> {<<"m.py", "E1">>, <<"m.py", "E2">>},
                            mypy |-> {<<"n.py", "E1">>}]],
     files    |-> {"CHANGES.md", "tox.ini"}, tools |-> {"ruff", "mypy"},
     matches  |-> [k \in {"behavior_change", "api_change", "coverage_gap", "lint_regression"} |->
                     IF k = "api_change" THEN <<<<"norm-1", 60>>>> ELSE <<<<"norm-1", 59>>>>]]

\* How a test goes on the base, execution after execution.
Habits == {Always(P), Always(F), <<P, F>>, <<F, P>>, <<P, P, F>>, <<F, F, F, P>>,
           Always(<<"failed", "passed">>), Always(<<"skipped">>)}
Deaths == {<<0>>, <<0, 0, 124>>, <<2, 0>>, <<0, 137, 0>>, <<125>>}

Worlds ==
    "tests" :>
        {[Usual EXCEPT !.behaves = [base |-> [Steady EXCEPT !.t1 = first, !.t2 = second],
                                    head |-> [Steady EXCEPT !.t1 = there, !.t2 = Always(F)]]] :
            first \in Habits, second \in Habits,
            there \in {Always(P), Always(F), Always(<<"skipped">>)}}
    @@ "deaths" :>
        {[Usual EXCEPT !.dies.base = b, !.dies.head = h, !.behaves.base.t2 = t] :
                b \in Deaths, h \in {<<0>>, <<2>>, <<3>>, <<124>>, <<125>>, <<137>>},
                t \in {Always(P), <<F, P>>}}
    @@ "models" :>
        {[Usual EXCEPT !.model = m, !.described = d, !.radius[2].readable = r, !.covers = c] :
                m \in BOOLEAN, d \in BOOLEAN, r \in BOOLEAN, c \in BOOLEAN}
    @@ "machines" :>
        {[Usual EXCEPT !.builds.head = b, !.measures.head = m, !.added = a] :
                b \in BOOLEAN, m \in BOOLEAN, a \in SUBSET {"base", "head"}}
    @@ "standards" :>
        {[Usual EXCEPT !.files = f, !.tools = t] :
                f \in SUBSET {"CHANGES.md", ".flake8", "tox.ini"}, t \in SUBSET {"ruff", "pyright"}}

Terms == <<"", "E1", "E2", "a", "added", "api_change", "b", "behavior_change", "c", "coverage_gap",
           "lint_regression", "m.f", "m.g", "m.h", "m.py", "n.py", "removed", "signature">>
=============================================================================
