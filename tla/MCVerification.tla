--------------------------- MODULE MCVerification ---------------------------
(***************************************************************************)
(* A small instance of Verification for TLC: pull requests that each take  *)
(* away or add one thing the repository says of itself, or that its suite  *)
(* or a linter tells apart.                                                *)
(***************************************************************************)
EXTENDS Verification, MCCheck
LOCAL INSTANCE SequencesExt

Caps == [purpose |-> 2, capability |-> 2, target |-> 1, constraint |-> 3]
Thresholds == [removed |-> 20, removed_count |-> 10, added |-> 30,
               purpose_major |-> 60, purpose_notable |-> 90]

Table(summary, version, license, commands, dependencies) ==
    [summary |-> summary, version |-> version, license |-> license, commands |-> commands,
     dependencies |-> dependencies]
Nothing == Table(<<>>, <<>>, <<>>, <<>>, {})
Pep621 == Table(<<>>, <<0, 1>>, <<>>, <<<<"run", "m:main">>>>, {"dep"})
ManifestOf(tables, targets) ==
    [parses |-> TRUE, tables |-> tables, targets |-> targets, points |-> {}, indirect |-> {},
     tools |-> {"ruff"}]
Manifest == ManifestOf(<<Pep621, Nothing>>, <<<<"engineers">>>>)

Line(is, text) == [is |-> is, text |-> text, level |-> 0, kind |-> "", nongoal |-> FALSE]
Heading(level, kind, nongoal) ==
    [is |-> "heading", text |-> <<>>, level |-> level, kind |-> kind, nongoal |-> nongoal]
Gap == Line("gap", <<>>)
Fence == Line("fence", <<>>)
ReadmeWith(first, rest) ==
    <<Heading(1, "", FALSE), Gap, Line("text", <<first>>), Gap, Line("text", <<"checks">>), Gap>>
    \o rest
NoGoal == Heading(2, "constraint", TRUE)
Bulleted(words) == [i \in DOMAIN words |-> Line("bullet", <<words[i]>>)]
Shell == <<Fence, Heading(1, "", FALSE), Fence>>

Prose(readme, rules) == "README.md" :> readme @@ "CONTRIBUTING.md" :> Bulleted(rules)
Root == [main |-> "m", modules |-> <<[name |-> "m", form |-> "root", parses |-> TRUE,
                                      docstring |-> <<"runs">>],
                                     [name |-> "m.core", form |-> "module", parses |-> TRUE,
                                      docstring |-> <<>>]>>]

Tree ==
    [manifests  |-> "pyproject.toml" :> Manifest,
     prose      |-> Prose(ReadmeWith("reviews", <<NoGoal>> \o Bulleted(<<"style">>)),
                          <<"tests", "docs">>),
     licenses   |-> "LICENSE" :> <<"MIT">>,
     roots      |-> <<Root>>, layout |-> "src",
     standard_files |-> {"mypy"}, workflows |-> TRUE, go_commands |-> {},
     api        |-> "m.f" :> "function" @@ "m.g" :> "class",
     norms      |-> {"declared-ruff", "declared-tests"},
     text       |-> "m.py" :> <<"def f">>]

\* What a head has that its base has not, or the other way round.
With(tables) == [Tree EXCEPT !.manifests["pyproject.toml"].tables = tables]
WithReadme(lines) == [Tree EXCEPT !.prose = Prose(lines, <<"tests", "docs">>)]
Variants ==
    {Tree,
     With(<<[Pep621 EXCEPT !.commands = <<>>], Nothing>>),
     With(<<[Pep621 EXCEPT !.dependencies = {}], Table(<<>>, <<0, 3>>, <<>>, <<>>, {"dep", "python"})>>),
     With(<<[Pep621 EXCEPT !.version = <<0, 2>>, !.summary = <<"reviews">>], Nothing>>),
     With(<<[Pep621 EXCEPT !.license = <<"BSD">>], Nothing>>),
     [Tree EXCEPT !.manifests["pyproject.toml"].parses = FALSE],
     [Tree EXCEPT !.manifests = @ @@ "package.json" :> ManifestOf(<<Nothing>>, <<<<"browsers">>>>)],
     WithReadme(ReadmeWith("reviews", <<>>)),
     WithReadme(ReadmeWith("reviews", <<NoGoal>> \o Bulleted(<<"style", "speed">>))),
     WithReadme(ReadmeWith("reviews", <<NoGoal>> \o Shell \o Bulleted(<<"style">>))),
     WithReadme(ReadmeWith("reviews", <<NoGoal>> \o Bulleted(<<"style">>)
                                      \o <<Line("more", <<"rules">>)>>)),
     WithReadme(ReadmeWith("lints", <<NoGoal>> \o Bulleted(<<"style">>))),
     [Tree EXCEPT !.prose["CONTRIBUTING.md"] = Bulleted(<<"tests">>)],
     [Tree EXCEPT !.roots = <<[main |-> "", modules |-> <<>>]>>, !.standard_files = {}],
     [Tree EXCEPT !.api = "m.f" :> "function"],
     [Tree EXCEPT !.api = "m.f" :> "class" @@ "m.g" :> "class" @@ "m.h" :> "function"]}

Suite(first, second, outcome) ==
    [tests |-> "t1" :> first @@ "t2" :> second, outcome |-> outcome]
NoSuite(outcome) == [tests |-> <<>>, outcome |-> outcome]
Good == Suite("passed", "passed", "passed")

Ran(sides, before, after) == "ruff" :> [ran |-> sides, base |-> before, head |-> after]
Both == {"base", "head"}
E1 == <<"m.py", "E1", "one">>
E2 == <<"m.py", "E1", "two">>
D1 == <<"d.py", "D1", "one">>

Plain ==
    [base |-> Tree, head |-> Tree, fork |-> "tip", python |-> TRUE,
     suite |-> [base |-> Good, head |-> Good], lint |-> Ran(Both, <<>>, <<>>),
     changed |-> {"m.py"}, local |-> "tests"]

Scenarios ==
    {[Plain EXCEPT !.head = t] : t \in Variants}
    \cup {[Plain EXCEPT !.local = kind] : kind \in DOMAIN Worlds}
    \cup {[Plain EXCEPT !.base = t] : t \in Variants}
    \cup {[Plain EXCEPT !.suite.head = s, !.fork = f] :
            s \in {Suite("passed", "failed", "failed"), NoSuite("timeout")},
            f \in {"none", "earlier"}}
    \cup {[Plain EXCEPT !.suite.base = NoSuite("timeout"), !.suite.head = s] :
            s \in {Good, NoSuite("timeout"), NoSuite("oom")}}
    \cup {[Plain EXCEPT !.lint = l, !.python = p] : p \in BOOLEAN,
            l \in {Ran(Both, <<D1>>, <<D1, E1, E2>>), Ran(Both, <<>>, <<E1, D1, E2>>),
                   Ran({"base"}, <<E1>>, <<>>), <<>>}}
    \cup {[Plain EXCEPT !.suite.head = Suite("passed", "failed", "failed"),
                        !.lint = Ran(Both, <<>>, <<D1>>)]}

Files == "t1" :> "test_m.py" @@ "t2" :> "test_m.py" @@ "m.py" :> "m.py" @@ "d.py" :> "docs/d.py"
         @@ "m.f" :> "m.py" @@ "m.g" :> "m.py" @@ "m.h" :> "m.py"
Peripheral == {"docs/d.py"}
Reached == "m.f" :> {"run"}
Norms == "ruff" :> "declared-ruff"
Declared == {{}, {"declared-ruff", "declared-changelog"}}

Cites == [type : {"norm"}, ref : {"declared-tests"}, quote : {<<>>}]
Misquotes == [type : {"code"}, ref : {"m.py"}, quote : {<<"def g">>}]
CitationSets == {Cites \cup Misquotes, Misquotes}

----------------------------------------------------------------------------
\* Checkouts: a package; the next commit, where calls are gone; two packages.
File(dirs, stem, loc, test, commits) ==
    [dirs |-> dirs, stem |-> stem, language |-> "Python", python |-> TRUE, loc |-> loc,
     big |-> FALSE, test |-> test, commits |-> commits,
     authors |-> IF commits > 1 THEN {"ann", "bob"} ELSE {"ann"}]
Node(kind, name, parent, file, from, to) ==
    [kind |-> kind, name |-> name, parent |-> parent, file |-> file, from |-> from, to |-> to]
Module(file) == Node("module", "", 0, file, 0, 0)
Def(name, parent, from, to) == Node("def", name, parent, 0, from, to)
Class(name, parent, from, to) == Node("class", name, parent, 0, from, to)
Block(parent) == Node("block", "", parent, 0, 0, 0)
Call(at, name) == [at |-> at, header |-> FALSE, form |-> "name", base |-> "", name |-> name]
Method(at, base, name) ==
    [at |-> at, header |-> FALSE, form |-> "attribute", base |-> base, name |-> name]
Import(at, alias, level, base, name) ==
    [at |-> at, alias |-> alias, level |-> level, base |-> base, name |-> name]

Package ==
    [files |-> <<File(<<"m">>, "__init__", 14, FALSE, 3), File(<<"m">>, "core", 15, FALSE, 1),
                 File(<<"m", "web">>, "__init__", 3, FALSE, 1),
                 File(<<"m", "web">>, "api", 12, FALSE, 2),
                 File(<<"tests">>, "test_m", 4, TRUE, 1),
                 [File(<<"docs">>, "guide", 9, FALSE, 2) EXCEPT
                    !.language = "Markdown", !.python = FALSE],
                 File(<<"build">>, "gen", 5, FALSE, 0), File(<<"m">>, "table", 60, FALSE, 0)>>,
     nodes |-> <<Module(1), Def("f", 1, 3, 6), Class("g", 1, 8, 14), Def("run", 3, 9, 12),
                 Module(2), Def("load", 5, 1, 9), Block(6), Def("inner", 7, 3, 5),
                 Def("save", 5, 11, 15), Def("f", 9, 12, 13),
                 Module(3), Def("boot", 11, 2, 3),
                 Module(4), Def("serve", 13, 3, 8), Def("_hide", 13, 10, 12),
                 Module(5), Def("test_f", 16, 2, 4), Module(8), Def("row", 18, 1, 50)>>,
     calls |-> {Call(4, "f"), Call(8, "save"), Method(9, "x", "run"), Call(9, "f"),
                [Call(9, "load") EXCEPT !.header = TRUE], Call(12, "begin"),
                Call(14, "fetch"), Method(14, "core", "save"), Call(15, "f"), Call(17, "f"),
                Call(1, "f"), Call(6, "load"), Call(12, "serve"), Method(15, "web", "begin"),
                Method(14, "m", "f")},
     imports |-> <<Import(11, "begin", 1, <<"api">>, <<"serve">>),
                   Import(11, "serve", 1, <<"api">>, <<"serve">>),
                   Import(13, "web", 0, <<"m">>, <<"web">>), Import(13, "m", 0, <<"m", "core">>, <<>>),
                   Import(13, "fetch", 2, <<"core">>, <<"load">>),
                   Import(13, "core", 2, <<>>, <<"core">>),
                   Import(13, "f", 0, <<"m">>, <<"f">>)>>,
     roots |-> {}, target |-> {}, python |-> TRUE,
     hunks |-> {[file |-> 1, start |-> 4, count |-> 1], [file |-> 2, start |-> 12, count |-> 0]}]

Later ==
    [Package EXCEPT !.calls = @ \ {Call(4, "f"), Call(14, "fetch")},
                    !.hunks = {[file |-> 2, start |-> 12, count |-> 2]}]

Packages ==
    [files |-> <<File(<<"a">>, "__init__", 4, FALSE, 1), File(<<"a">>, "one", 8, FALSE, 2),
                 File(<<"b">>, "__init__", 3, FALSE, 1), File(<<"b">>, "two", 9, FALSE, 4),
                 File(<<"b", "tests">>, "test_two", 6, TRUE, 1),
                 File(<<"coverage">>, "report", 2, FALSE, 1), File(<<>>, "setup", 2, FALSE, 1)>>,
     nodes |-> <<Module(1), Module(2), Class("A", 2, 1, 4), Def("get", 3, 2, 3), Def("get", 2, 6, 8),
                 Module(3), Module(4), Def("go", 7, 1, 3), Def("get", 7, 5, 6), Def("_own", 7, 8, 9),
                 Module(5), Def("test_go", 11, 2, 6), Module(6), Def("show", 13, 1, 2),
                 Module(7), Def("main", 15, 1, 2)>>,
     calls |-> {Call(8, "fetch"), Call(8, "first"), Method(8, "one", "get"), Method(10, "x", "get"),
                Call(9, "_own"), Call(12, "go"), Call(14, "go"), Call(16, "A"), Method(5, "self", "_own"),
                Call(4, "get")},
     imports |-> <<Import(1, "A", 1, <<"one">>, <<"A">>),
                   Import(7, "fetch", 0, <<"a", "one">>, <<"get">>),
                   Import(7, "first", 0, <<"a">>, <<"A">>), Import(7, "one", 0, <<"a">>, <<"one">>),
                   Import(11, "go", 2, <<"two">>, <<"go">>),
                   Import(13, "go", 0, <<"a", "one">>, <<"get">>), Import(13, "go", 0, <<"b", "two">>, <<"go">>),
                   Import(15, "A", 0, <<"a">>, <<"A">>)>>,
     roots |-> {}, target |-> {}, python |-> TRUE,
     hunks |-> {[file |-> 2, start |-> 7, count |-> 2]}]

Checkouts == "older" :> Package @@ "newer" :> Later @@ "split" :> Packages
             @@ "declared" :> [Packages EXCEPT !.roots = {<<"b">>}, !.target = {<<"a">>}]
             @@ "go" :> [Packages EXCEPT !.python = FALSE]
             @@ "loose" :> [Packages EXCEPT !.roots = {<<"a">>, <<"coverage">>}]
             @@ "built" :> [Packages EXCEPT !.files[6] = File(<<"build">>, "__init__", 2, FALSE, 1)]
WithDots(name) == FoldLeft(LAMBDA s, part : s \o "." \o part, Head(name), Tail(name))
----------------------------------------------------------------------------
\* By symbol, then by kind, then as found.
Names == <<"t1", "t2", "(suite)", "d.py", "m.py", "m.f", "m.g", "m.h", "(repo)",
           "test_removed", "behavior_change", "timeout", "oom", "lint_regression", "api_change",
           "", "one", "two", "removed", "added", "changed">>
PlaceOf(name) == CHOOSE i \in DOMAIN Names : Names[i] = name
Place(o) == PlaceOf(o.symbol) * 10000 + PlaceOf(o.kind) * 100 + PlaceOf(o.detail)
Before(o, p) == Place(o) < Place(p)
=============================================================================
