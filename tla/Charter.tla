------------------------------ MODULE Charter ------------------------------
(***************************************************************************)
(* What a repository says of itself: charter/extract.py.  A checkout       *)
(* stands for the files that are read, by name: manifests, as the fields   *)
(* of their tables; prose, as lines of a few forms; the modules of its     *)
(* package roots.  A text is a sequence of words, one of which may be a    *)
(* label.                                                                  *)
(***************************************************************************)
EXTENDS Integers, Sequences, FiniteSets
LOCAL INSTANCE SequencesExt

CONSTANTS Cap,              \* _CAPS: how many claims of each kind are kept
          IntroParagraphs,  \* of a README's opening: 3 in the code
          SectionItems,     \* of a section: 10
          MaxModules,       \* modules whose docstring is read: 60
          Brief             \* texts too short to be a claim

ASSUME CharterAssumption ==
    /\ DOMAIN Cap = {"purpose", "capability", "target", "constraint"}
    /\ \A kind \in DOMAIN Cap : Cap[kind] \in Nat
    /\ {IntroParagraphs, SectionItems, MaxModules} \subseteq Nat
----------------------------------------------------------------------------
Prefix(s, n) == SubSeq(s, 1, IF Len(s) < n THEN Len(s) ELSE n)
Contents(s) == {s[i] : i \in DOMAIN s}
Concat(f) == FlattenSeq([i \in DOMAIN f |-> f[i]])

\* The first that says anything: `x or y`, and _set_summary.
FirstSaid(s) ==
    LET said == {i \in DOMAIN s : s[i] # <<>>}
    IN  IF said = {} THEN <<>> ELSE s[CHOOSE i \in said : \A j \in said : i <= j]

\* Of the names that are looked for, those of files that are there, in order.
There(names, files) == SelectSeq(names, LAMBDA n : n \in DOMAIN files)
----------------------------------------------------------------------------
(* Package metadata *)

FORMATS == <<"pyproject.toml", "setup.cfg", "package.json", "go.mod", "Cargo.toml">>

\* What the first of a manifest's tables says that says anything; what all of them do.
Said(m, field) == FirstSaid([i \in DOMAIN m.tables |-> m.tables[i][field]])
AllOf(m, field) == UNION {t[field] : t \in Contents(m.tables)}

\* commands: <<name, what it runs>>, each a claim; points: entry points that are not.
Silent == [summary |-> <<>>, version |-> <<>>, license |-> <<>>, targets |-> <<>>,
           commands |-> <<>>, points |-> {}, dependencies |-> {}, standards |-> {}]

\* Its tables are PEP 621's and poetry's.
FromPyproject(m) ==
    [summary |-> Said(m, "summary"), version |-> Said(m, "version"),
     license |-> Said(m, "license"), targets |-> m.targets,
     commands |-> Concat([i \in DOMAIN m.tables |-> m.tables[i].commands]), points |-> {},
     dependencies |-> AllOf(m, "dependencies") \ {"python"}, standards |-> m.tools]

FromSetupCfg(m) ==
    [Silent EXCEPT !.summary = Said(m, "summary"), !.license = Said(m, "license"),
                   !.targets = m.targets, !.dependencies = AllOf(m, "dependencies")]

\* main, module, exports and a nameless bin are entry points, and no claims.
FromPackageJson(m) ==
    [Silent EXCEPT !.summary = Said(m, "summary"), !.version = Said(m, "version"),
                   !.license = Said(m, "license"), !.targets = m.targets,
                   !.commands = m.tables[1].commands, !.points = m.points,
                   !.dependencies = AllOf(m, "dependencies")]

FromGoMod(m) ==
    [Silent EXCEPT !.targets = m.targets, !.dependencies = AllOf(m, "dependencies") \ m.indirect]

FromCargo(m) ==
    [Silent EXCEPT !.summary = Said(m, "summary"), !.version = Said(m, "version"),
                   !.license = Said(m, "license"), !.targets = m.targets,
                   !.points = m.points, !.dependencies = AllOf(m, "dependencies")]

FromManifest(file, m) ==
    CASE file = "pyproject.toml" -> FromPyproject(m)
      [] file = "setup.cfg"      -> FromSetupCfg(m)
      [] file = "package.json"   -> FromPackageJson(m)
      [] file = "go.mod"         -> FromGoMod(m)
      [] file = "Cargo.toml"     -> FromCargo(m)

\* One that does not parse says nothing.
Manifests(tree) ==
    LET files == There(FORMATS, tree.manifests)
        read(file) == IF tree.manifests[file].parses
                      THEN FromManifest(file, tree.manifests[file]) ELSE Silent
    IN  [i \in DOMAIN files |-> read(files[i])]

FromAll(tree, field) == [i \in DOMAIN Manifests(tree) |-> Manifests(tree)[i][field]]
----------------------------------------------------------------------------
(* Prose.  A line is [is, text, level, kind, nongoal]: a heading, with the *)
(* kind of section _SECTION_KINDS takes it for; a bullet; its continuation *)
(* on a line indented further ("more"); text; code, indented by four; a    *)
(* fence; or a gap (a blank, a badge, a table's row, a quotation).         *)

README_NAMES ==
    <<"README.md", "README.rst", "README.txt", "README", "readme.md", "Readme.md">>
GUIDANCE_NAMES ==
    <<"CONTRIBUTING.md", "docs/CONTRIBUTING.md", ".github/CONTRIBUTING.md", "CLAUDE.md", "AGENTS.md">>
LICENSE_NAMES == <<"LICENSE", "LICENSE.md", "LICENSE.txt", "COPYING">>

\* _headings does not know of fences: a comment in a shell example is one.
Headings(lines) == SelectSeq([i \in DOMAIN lines |-> i], LAMBDA i : lines[i].is = "heading")

\* _bullets: what the lines below it, indented further, add.
Bullet(lines, i) ==
    LET rest == {j \in i + 1 .. Len(lines) : \A k \in i + 1 .. j : lines[k].is \in {"more", "code"}}
    IN  Concat([k \in 1 .. Cardinality(rest) + 1 |-> lines[i + k - 1].text])

Bullets(lines) ==
    LET at == SelectSeq([i \in DOMAIN lines |-> i], LAMBDA i : lines[i].is = "bullet")
    IN  [k \in DOMAIN at |-> Bullet(lines, at[k])]

\* A paragraph ends where another begins, or nothing follows it.
EndParagraph(s) ==
    IF s.open = <<>> THEN s ELSE [s EXCEPT !.out = Append(@, s.open), !.open = <<>>]

ReadLine(lines, s, i) ==
    LET line == lines[i] IN
    CASE line.is = "fence" -> [EndParagraph(s) EXCEPT !.code = ~@]
      [] line.is # "fence" /\ (s.code \/ line.is = "code") -> s
      [] ~s.code /\ line.is = "bullet" ->
           [EndParagraph(s) EXCEPT !.out = Append(@, Bullet(lines, i))]
      [] ~s.code /\ line.is \in {"gap", "heading"} -> EndParagraph(s)
      [] ~s.code /\ line.is \in {"text", "more"} -> [s EXCEPT !.open = @ \o line.text]

\* _paragraphs of a range: bullets one by one, no code.
Paragraphs(lines, from, to) ==
    LET range == SubSeq(lines, from, to)
        read  == FoldLeft(LAMBDA s, i : ReadLine(range, s, i),
                          [out |-> <<>>, open |-> <<>>, code |-> FALSE], [i \in DOMAIN range |-> i])
    IN  EndParagraph(read).out

\* The README: the first of its names that is there.
Readme(tree) ==
    LET names == There(README_NAMES, tree.prose) IN IF names = <<>> THEN <<>> ELSE tree.prose[names[1]]

\* From below the title to the first section.
Intro(lines) ==
    LET heads    == Headings(lines)
        sections == SelectSeq(heads, LAMBDA i : lines[i].level >= 2)
        from     == IF heads # <<>> /\ lines[heads[1]].level = 1 THEN heads[1] + 1 ELSE 1
        to       == IF sections = <<>> THEN Len(lines) ELSE sections[1] - 1
    IN  SelectSeq(Paragraphs(lines, from, to), LAMBDA t : t \notin Brief)

NON_GOAL == <<"Not a goal: ">>
Claims(kind, texts) == [i \in DOMAIN texts |-> [kind |-> kind, text |-> texts[i]]]

\* What is under a heading of a known kind, to the next heading of any.
Section(lines, k) ==
    LET heads == Headings(lines)
        head  == lines[heads[k]]
        stop  == IF k < Len(heads) THEN heads[k + 1] - 1 ELSE Len(lines)
        items == Prefix(Paragraphs(lines, heads[k] + 1, stop), SectionItems)
        label == IF head.nongoal THEN NON_GOAL ELSE <<>>
    IN  IF head.kind = "" THEN <<>>
        ELSE Claims(head.kind, [i \in DOMAIN items |-> label \o items[i]])

FromReadme(lines) ==
    Claims("purpose", Prefix(Intro(lines), IntroParagraphs))
    \o Concat([k \in DOMAIN Headings(lines) |-> Section(lines, k)])

\* Every bullet of the notes for contributors is a rule.
FromGuidance(tree) ==
    LET files == There(GUIDANCE_NAMES, tree.prose)
        rules == Concat([i \in DOMAIN files |-> Bullets(tree.prose[files[i]])])
    IN  Claims("constraint", SelectSeq(rules, LAMBDA t : t \notin Brief))
----------------------------------------------------------------------------
(* Modules, and what else is there *)

\* _module_docstrings, as <<module, first line>>: of each root its own, those of the
\* packages in it, and those of its modules.
Docstrings(tree) ==
    LET of(root, form) == SelectSeq(root.modules, LAMBDA m :
              m.form = form /\ m.parses /\ m.docstring \notin Brief \cup {<<>>})
        read(root) == of(root, "root") \o of(root, "package") \o of(root, "module")
        all == Concat([i \in DOMAIN tree.roots |-> read(tree.roots[i])])
        some == Prefix(all, MaxModules)
    IN  [i \in DOMAIN some |-> <<some[i].name, some[i].docstring>>]

\* _from_license_file: its first line, if no manifest names one.
License(tree) ==
    LET files == There(LICENSE_NAMES, tree.licenses)
    IN  FirstSaid(FromAll(tree, "license") \o [i \in DOMAIN files |-> tree.licenses[files[i]]])

\* _from_standard_files, besides what pyproject.toml configures.
Standards(tree) ==
    (UNION Contents(FromAll(tree, "standards"))) \cup tree.standard_files
    \cup IF tree.workflows THEN {"ci"} ELSE {}

\* Commands by their name, whatever they run; and what a package does by itself, if it
\* was declared or is in src.
EntryPoints(tree) ==
    {c[1] : c \in Contents(Concat(FromAll(tree, "commands")))}
    \cup UNION Contents(FromAll(tree, "points"))
    \cup tree.go_commands
    \cup IF tree.layout \in {"src", "declared"}
         THEN {r.main : r \in Contents(tree.roots)} \ {""} ELSE {}
----------------------------------------------------------------------------
(* The charter *)

\* Package metadata: whom it is for and, in two of the formats, what its commands do.
FromMetadata(m) == Claims("target", m.targets) \o Claims("capability", m.commands)

\* Everything a checkout offers as a claim, in order.
Offers(tree) ==
    Concat([i \in DOMAIN Manifests(tree) |-> FromMetadata(Manifests(tree)[i])])
    \o FromReadme(Readme(tree))
    \o FromGuidance(tree)
    \o Claims("capability", Docstrings(tree))

Count(claims, kind) == Cardinality({i \in DOMAIN claims : claims[i].kind = kind})

\* _Builder.add: no claim twice, and no more of a kind than its cap.
Add(claims, claim) ==
    IF claim \in Contents(claims) \/ Count(claims, claim.kind) >= Cap[claim.kind]
    THEN claims ELSE Append(claims, claim)

\* What is kept of the first of the offers, one more at a time.
KeptOf(offers) ==
    LET kept[i \in 0 .. Len(offers)] == IF i = 0 THEN <<>> ELSE Add(kept[i - 1], offers[i])
    IN  kept

Built(offers) == KeptOf(offers)[Len(offers)]

\* extract_charter, of a checkout whose public symbols are known.
ExtractCharter(tree, toolchain) ==
    [toolchain    |-> toolchain,
     summary      |-> FirstSaid(FromAll(tree, "summary") \o Prefix(Intro(Readme(tree)), 1)),
     version      |-> FirstSaid(FromAll(tree, "version")),
     license      |-> License(tree),
     claims       |-> Built(Offers(tree)),
     entry_points |-> EntryPoints(tree),
     modules      |-> {d[1] : d \in Contents(Docstrings(tree))},
     public_api   |-> DOMAIN tree.api,
     dependencies |-> UNION Contents(FromAll(tree, "dependencies")),
     standards    |-> Standards(tree)]

\* What is claimed of a kind; and that in order.
Texts(claims, kind) == {c.text : c \in {d \in claims : d.kind = kind}}
ClaimsOf(charter, kind) ==
    LET those == SelectSeq(charter.claims, LAMBDA c : c.kind = kind)
    IN  [i \in DOMAIN those |-> those[i].text]
============================================================================
