------------------------------- MODULE Atlas -------------------------------
(***************************************************************************)
(* The picture of a repository: atlas/cartography.py measures the files,   *)
(* atlas/build.py groups them and what CallGraph finds into modules.  A    *)
(* file is [dirs, stem, language, python, loc, big, test, commits,         *)
(* authors], the last two of the churn window.                             *)
(***************************************************************************)
EXTENDS CallGraph
LOCAL INSTANCE SequencesExt
Sums == INSTANCE Functions

CONSTANTS NotWalked,        \* _SKIP_DIRS of cartography.py
          MaxWalk,          \* files that are walked: 20000 in the code
          MaxLines,         \* _MAX_LINES: longer ones are generated
          StructureLimit,   \* max_files of build_atlas
          MaxDrawn,         \* edges drawn: 4 * _MAX_GRAPH_NODES
          MaxHotspots,      \* 12 in the code
          Private           \* names that start with "_"

ASSUME AtlasAssumption ==
    {MaxWalk, MaxLines, StructureLimit, MaxDrawn, MaxHotspots} \subseteq Nat

\* What is read of a checkout: files, and trees in which a parent comes before its children.
IsCode(code) ==
    /\ IsFiniteSet(DOMAIN code.files) /\ code.roots \subseteq Seq(STRING)
    /\ \A i \in DOMAIN code.files : code.files[i].dirs \in Seq(STRING) /\ code.files[i].loc \in Nat
    /\ Len(code.nodes) \in Nat /\ DOMAIN code.nodes = 1 .. Len(code.nodes)
    /\ \A i \in DOMAIN code.nodes :
         \/ code.nodes[i].kind = "module" /\ code.nodes[i].file \in DOMAIN code.files
         \/ code.nodes[i].kind \in {"class", "def", "block"} /\ code.nodes[i].parent \in 1 .. i - 1
    /\ \A c \in code.calls : c.at \in DOMAIN code.nodes
----------------------------------------------------------------------------
(* Measuring *)

\* _walk stops at its limit; inventory leaves out what is data or generated.
Walked(code) == {i \in DOMAIN code.files : ToSet(code.files[i].dirs) \cap NotWalked = {}}
Inventory(code) ==
    {i \in Walked(code) : /\ Cardinality({j \in Walked(code) : j < i}) < MaxWalk
                          /\ ~code.files[i].big /\ code.files[i].loc <= MaxLines}

\* module_of: the directory, to a depth of two.
ModuleOf(file) ==
    IF file.dirs = <<>> THEN <<"(root)">>
    ELSE SubSeq(file.dirs, 1, IF Len(file.dirs) < 2 THEN Len(file.dirs) ELSE 2)
----------------------------------------------------------------------------
(* Structure *)

\* _infer_roots: the packages in src, else those at the top, else everything.
PackagesIn(code, parent) ==
    {f.dirs : f \in {f \in ToSet(code.files) :
        /\ f.stem = "__init__" /\ Len(f.dirs) = Len(parent) + 1 /\ Below(f.dirs, parent)
        /\ Last(f.dirs) \notin {"tests", "test", "docs"}}}

InferredRoots(code) ==
    IF PackagesIn(code, <<"src">>) # {} THEN PackagesIn(code, <<"src">>)
    ELSE IF PackagesIn(code, <<>>) # {} THEN PackagesIn(code, <<>>) ELSE {<<>>}

\* The declared package roots that exist, else those; one root above them all.
Roots(code) ==
    LET declared == {r \in code.roots : \E f \in ToSet(code.files) : Below(f.dirs, r)}
    IN  IF declared = {} THEN InferredRoots(code) ELSE declared
CommonRoot(code) == LongestCommonPrefix(Roots(code))

NoStructure == [symbols |-> <<>>, edges |-> {}]

\* _structure: symbols, each with the last of its definitions, and call edges.
Structure(code) ==
    LET root    == CommonRoot(code)
        sources == {i \in Inventory(code) :
                      code.files[i].language \notin {"Markdown", "Config", "Other"}}
    IN  IF ~code.python \/ Cardinality(sources) > StructureLimit THEN NoStructure
        ELSE [symbols |-> [s \in Symbols(code, root) |->
                             Max({i \in Definitions(code, root) : NameOf(code, root)[i] = s})],
              edges   |-> CallEdges(code, root)]

ModuleOfSymbol(code, structure, s) == ModuleOf(FileOfNode(code, structure.symbols[s]))
----------------------------------------------------------------------------
(* Modules *)

Tests(code, files) == {i \in files : code.files[i].test}
Loc(code, files) == Sums!SumFunction([i \in files |-> code.files[i].loc])
Commits(code, files) == Sums!SumFunction([i \in files |-> code.files[i].commits])
Authors(code, files) == UNION {code.files[i].authors : i \in files}

\* _modules
Modules(code, structure) ==
    [m \in {ModuleOf(code.files[i]) : i \in Inventory(code)} |->
        LET files == {i \in Inventory(code) : ModuleOf(code.files[i]) = m}
        IN  [loc |-> Loc(code, files), files |-> Cardinality(files),
             test_files |-> Cardinality(Tests(code, files)),
             commits |-> Commits(code, files),
             authors |-> Cardinality(Authors(code, files)),
             symbols |-> Cardinality({s \in DOMAIN structure.symbols :
                                        ModuleOfSymbol(code, structure, s) = m})]]

\* So many of a set that none of the others is above one of them.
Best(set, limit, above(_, _)) ==
    CHOOSE best \in SUBSET set :
        /\ Cardinality(best) = IF Cardinality(set) < limit THEN Cardinality(set) ELSE limit
        /\ \A x \in set \ best, y \in best : ~above(x, y)

\* The modules of a caller and of what it calls.
ModulePair(code, structure, e) ==
    <<ModuleOfSymbol(code, structure, e[1]), ModuleOfSymbol(code, structure, e[2])>>

\* Seeded fault: a module that calls itself is drawn calling itself.
CrossingOrNot(code, structure) ==
    {e \in structure.edges : {e[1], e[2]} \subseteq DOMAIN structure.symbols}

\* Calls from one module to another.
Crossing(code, structure) ==
    {e \in structure.edges :
        /\ {e[1], e[2]} \subseteq DOMAIN structure.symbols
        /\ ModulePair(code, structure, e)[1] # ModulePair(code, structure, e)[2]}

\* _module_edges: the heaviest.
ModuleEdges(code, structure) ==
    LET crossing == Crossing(code, structure)
        pairs    == {ModulePair(code, structure, e) : e \in crossing}
        weight(p) == Cardinality({e \in crossing : ModulePair(code, structure, e) = p})
    IN  {[source |-> p[1], target |-> p[2], weight |-> weight(p)] :
            p \in Best(pairs, MaxDrawn, LAMBDA p, q : weight(p) > weight(q))}

\* churn x size x (1 - test ratio); all are scaled alike, and compared as fractions.
Heat(m) == m.commits * m.loc * (m.files - m.test_files)
Hotter(m, n) == Heat(m) * n.files > Heat(n) * m.files

\* _hotspots
Hotspots(modules) ==
    Best({m \in DOMAIN modules : Heat(modules[m]) > 0}, MaxHotspots,
         LAMBDA m, n : Hotter(modules[m], modules[n]))

\* _test_topology
Untested(modules) == {m \in DOMAIN modules : modules[m].test_files = 0 /\ modules[m].symbols > 0}

\* _surface: nothing private, nor in anything private but the top.
Public(symbols) == {s \in symbols : \A i \in 2 .. Len(s) : s[i] \notin Private}

\* build_atlas, once it has the structure.
BuildAtlas(code, structure) ==
    LET files   == Inventory(code)
        modules == Modules(code, structure)
    IN  [totals    |-> [files |-> Cardinality(files), loc |-> Loc(code, files),
                        test_files |-> Cardinality(Tests(code, files)),
                        symbols |-> Cardinality(DOMAIN structure.symbols),
                        call_edges |-> Cardinality(structure.edges),
                        contributors |-> Cardinality(Authors(code, DOMAIN code.files))],
         modules   |-> modules,
         edges     |-> ModuleEdges(code, structure),
         hotspots  |-> Hotspots(modules),
         surface   |-> Public(DOMAIN structure.symbols),
         untested  |-> Untested(modules),
         depth     |-> IF DOMAIN structure.symbols = {} THEN "surface" ELSE "structural"]
----------------------------------------------------------------------------
(* Properties *)

\* public_index of probes/surface.py indexes each package root by itself.
PublicIndex(code) == UNION {Public(Symbols(code, r)) : r \in Roots(code)}

\* Symbols of files that are not in the inventory: they are too long, or in a
\* directory that one of the two lists skips and the other does not.
Unlisted(code, structure) ==
    {s \in DOMAIN structure.symbols :
        FileNumber(code, structure.symbols[s]) \notin Inventory(code)}

\* Some root is none of the packages right below the one the atlas has above them all, or
\* that one is a package: their symbols have longer names in the atlas than for the
\* probes.  Or the atlas takes it for what is built, and skips it.
Scattered(code) ==
    \E r \in Roots(code) \ {CommonRoot(code)} :
        \/ Front(r) # CommonRoot(code) \/ IsPackage(code, CommonRoot(code)) \/ ~IsPackage(code, r)
        \/ Last(r) \in NotSource

\* The parts of an atlas agree.  Every file and every line that was measured is in one
\* module, and so is every symbol whose file was; an edge joins two modules that are
\* shown, weighs what it stands for, and no edge left out is heavier; and the atlas calls
\* a public symbol as the probes do (build_atlas, public_index).
PartsAgree(code, structure, atlas) ==
    LET shown       == DOMAIN atlas.modules
        all_listed  == Unlisted(code, structure) = {}
        calls(m, n) ==
            Cardinality({e \in structure.edges : ModulePair(code, structure, e) = <<m, n>>})
        sum(field)  == Sums!SumFunction([m \in shown |-> atlas.modules[m][field]])
    IN  /\ \A field \in {"files", "loc", "test_files"} : sum(field) = atlas.totals[field]
        /\ sum("symbols") <= atlas.totals.symbols
        /\ all_listed => sum("symbols") = atlas.totals.symbols
        /\ \A e \in atlas.edges :
             /\ e.source # e.target /\ e.weight = calls(e.source, e.target)
             /\ all_listed => {e.source, e.target} \subseteq shown
             /\ \A m, n \in shown : calls(m, n) > e.weight /\ m # n =>
                  \E f \in atlas.edges : f.source = m /\ f.target = n
        /\ \A m \in atlas.untested : \E s \in DOMAIN structure.symbols :
             ModuleOfSymbol(code, structure, s) = m
        /\ atlas.depth = "structural" /\ ~Scattered(code) =>
             PublicIndex(code) \subseteq atlas.surface

AtlasAgrees(code) ==
    LET structure == Structure(code) IN PartsAgree(code, structure, BuildAtlas(code, structure))
============================================================================
