----------------------------- MODULE CallGraph -----------------------------
(***************************************************************************)
(* Who calls whom in a Python repository: analysis/symbols.py and          *)
(* analysis/callgraph.py; what a change can reach: analysis/diff.py and    *)
(* analysis/blast.py.  A checkout's code is its files, in the order in     *)
(* which they are listed, and the nodes of their syntax trees: modules,    *)
(* classes, functions and blocks (if, for, try, with), a parent before its *)
(* children.  A name is the sequence of its parts.                         *)
(***************************************************************************)
EXTENDS Naturals, Sequences, FiniteSets
LOCAL INSTANCE SequencesExt

CONSTANTS NotSource,       \* _SKIP_DIRS of callgraph.py
          MaxNameMatches,  \* _MAX_NAME_MATCHES: 8 in the code
          Hops             \* of blast_radius: 2 in the code

ASSUME CallGraphAssumption == MaxNameMatches \in Nat /\ Hops \in Nat
----------------------------------------------------------------------------
(* Symbols *)

Below(dirs, root) == IsPrefix(root, dirs)

\* package_files
IsSource(file, root) ==
    /\ file.python /\ Below(file.dirs, root)
    /\ \A i \in Len(root) + 1 .. Len(file.dirs) : file.dirs[i] \notin NotSource

IsPackage(code, dirs) == \E f \in ToSet(code.files) : f.dirs = dirs /\ f.stem = "__init__"

\* module_fqn_for: the root gives its own name only when it is a package.
ModuleName(code, file, root) ==
    (IF root # <<>> /\ IsPackage(code, root) THEN <<Last(root)>> ELSE <<>>)
    \o SubSeq(file.dirs, Len(root) + 1, Len(file.dirs))
    \o IF file.stem = "__init__" THEN <<>> ELSE <<file.stem>>

\* _walk: classes and functions add a part, blocks do not.
NameOf(code, root) ==
    LET name[i \in DOMAIN code.nodes] ==
          LET n == code.nodes[i] IN
          CASE n.kind = "module" -> ModuleName(code, code.files[n.file], root)
            [] n.kind = "block"  -> name[n.parent]
            [] OTHER             -> Append(name[n.parent], n.name)
    IN  name

ModuleOfNode(code) ==
    LET module[i \in DOMAIN code.nodes] ==
          IF code.nodes[i].kind = "module" THEN i ELSE module[code.nodes[i].parent]
    IN  module

FileNumber(code, i) == code.nodes[ModuleOfNode(code)[i]].file
FileOfNode(code, i) == code.files[FileNumber(code, i)]

Definitions(code, root) ==
    {i \in DOMAIN code.nodes : /\ code.nodes[i].kind \in {"class", "def"}
                               /\ IsSource(FileOfNode(code, i), root)}

\* index_symbols
Symbols(code, root) == {NameOf(code, root)[i] : i \in Definitions(code, root)}
----------------------------------------------------------------------------
(* build_call_graph *)

\* The innermost function around a node's statements, through classes and blocks.
Enclosing(code) ==
    LET around[i \in DOMAIN code.nodes] ==
          CASE code.nodes[i].kind = "module" -> 0
            [] code.nodes[i].kind = "def"    -> i
            [] OTHER                         -> around[code.nodes[i].parent]
    IN  around

BlocksAround(code) ==
    LET blocks[i \in DOMAIN code.nodes] ==
          (IF code.nodes[i].kind = "block" THEN {i} ELSE {})
          \cup (IF code.nodes[i].kind = "module" THEN {} ELSE blocks[code.nodes[i].parent])
    IN  blocks

\* visit_body: whose call it is.  A block is walked whole, functions within it too; a
\* decorator, a base class or a default is seen only on such a walk.
CallersIn(code, call) ==
    ({Enclosing(code)[b] : b \in BlocksAround(code)[call.at]}
     \cup IF call.header THEN {} ELSE {Enclosing(code)[call.at]}) \ {0}

\* The name by which a call says where what it calls is from.
AliasOf(call) == IF call.form = "name" THEN call.name ELSE call.base
ImportsOf(code, call) ==
    {k \in DOMAIN code.imports : /\ code.imports[k].at = ModuleOfNode(code)[call.at]
                                 /\ code.imports[k].alias = AliasOf(call)}

\* _imports: a relative one counts from the module's name, as if the module were not
\* a package itself; "import x.y" gives x the name x.y.
PackageNamed(name, level) == SubSeq(name, 1, IF Len(name) > level THEN Len(name) - level ELSE 1)
ImportTarget(code, root, import) ==
    LET name == NameOf(code, root)[import.at]
    IN  (IF import.level = 0 THEN <<>> ELSE PackageNamed(name, import.level))
        \o import.base \o import.name

\* Of several imports of a name a module has the last that ast.walk meets.
Imported(code, root, call) ==
    LET all == ImportsOf(code, call)
    IN  {ImportTarget(code, root, code.imports[k]) : k \in {k \in all : \A l \in all \ {k} : l < k}}

\* _fallback: all symbols of a name, unless there are too many.
Namesakes(code, root, name) == {s \in Symbols(code, root) : Last(s) = name}
Fallback(code, root, name) ==
    LET matches == Namesakes(code, root, name)
    IN  IF Cardinality(matches) > MaxNameMatches THEN {} ELSE matches

\* What is called if the alias stands for a target.
Reference(call, target) == IF call.form = "name" THEN target ELSE Append(target, call.name)

\* What a name stands for by itself, or as an attribute of what is imported.
LocalName(code, root, call) ==
    Append(NameOf(code, root)[ModuleOfNode(code)[call.at]], AliasOf(call))
Exactly(code, root, call) ==
    IF call.form = "name" /\ LocalName(code, root, call) \in Symbols(code, root)
    THEN {LocalName(code, root, call)}
    ELSE {Reference(call, t) : t \in Imported(code, root, call)} \cap Symbols(code, root)

\* Seeded fault: what is called on an object is not looked up by its bare name.
ResolveNames(code, root, call) ==
    IF Exactly(code, root, call) # {} \/ call.form = "attribute"
    THEN Exactly(code, root, call) ELSE Fallback(code, root, call.name)

Resolve(code, root, call) ==
    IF Exactly(code, root, call) # {} THEN Exactly(code, root, call)
    ELSE Fallback(code, root, call.name)

CallEdges(code, root) ==
    UNION {{e \in {NameOf(code, root)[f] : f \in CallersIn(code, c)} \X Resolve(code, root, c) :
              e[1] # e[2]} :
           c \in {c \in code.calls : IsSource(FileOfNode(code, c.at), root)}}
----------------------------------------------------------------------------
(* blast_radius *)

\* changed_ranges: the lines of the head revision that a hunk leaves; none if it only
\* deletes.
ChangedLines(hunks, file) ==
    UNION {h.start .. h.start + h.count - 1 : h \in {h \in hunks : h.file = file /\ h.count > 0}}

\* package_root_for: what is configured if it is there; the one package in src, or at the
\* top, or what they are in.
PackageRoot(code) ==
    LET packages(parent) ==
          {f.dirs : f \in {f \in ToSet(code.files) :
              /\ f.stem = "__init__" /\ Len(f.dirs) = Len(parent) + 1 /\ Below(f.dirs, parent)
              /\ Last(f.dirs) # "tests"}}
        parents == SelectSeq(<<<<"src">>, <<>>>>, LAMBDA p : packages(p) # {})
        target  == {t \in code.target : \E f \in ToSet(code.files) : Below(f.dirs, t)}
    IN  IF target # {} THEN CHOOSE t \in target : TRUE
        ELSE IF parents = <<>> THEN <<>>
        ELSE IF Cardinality(packages(parents[1])) = 1 THEN CHOOSE p \in packages(parents[1]) : TRUE
        ELSE parents[1]

\* changed_symbols
Touched(code, root, hunks) ==
    {NameOf(code, root)[i] : i \in {i \in Definitions(code, root) :
        (code.nodes[i].from .. code.nodes[i].to) \cap ChangedLines(hunks, FileNumber(code, i)) # {}}}

Calling(symbols, edges) == {e[1] : e \in {e \in edges : e[2] \in symbols}}

\* The symbols touched and their callers, and theirs, in so many rounds.
Rounds(touched, edges) ==
    LET reached[n \in 0 .. Hops] ==
          IF n = 0 THEN [all |-> touched, frontier |-> touched]
          ELSE LET before == reached[n - 1]
                   next   == Calling(before.frontier, edges) \ before.all
               IN  [all |-> before.all \cup next, frontier |-> next]
    IN  reached
BlastRadius(touched, edges) == Rounds(touched, edges)[Hops].all
----------------------------------------------------------------------------
(* The structure of a repository, as storage/repos.py keeps it *)

\* put_call_edges adds; what an earlier commit had stays.
PutCallEdges(stored, edges) == stored \cup edges

\* caller_counts
CallerCounts(stored) ==
    [callee \in {e[2] : e \in stored} |-> Cardinality({e \in stored : e[2] = callee})]
----------------------------------------------------------------------------
(* What Python means, for the properties *)

\* Levels up from a module: a package is one itself.  A module that goes above the top
\* cannot be loaded.
IsPackageModule(code, i) == code.files[code.nodes[i].file].stem = "__init__"
LevelsUp(code, import) ==
    IF IsPackageModule(code, import.at) THEN import.level - 1 ELSE import.level
Loads(code, root, i) ==
    \A k \in DOMAIN code.imports :
        LET import == code.imports[k]
        IN  import.at = i /\ import.level # 0 => LevelsUp(code, import) < Len(NameOf(code, root)[i])

\* "import x.y" binds x.
BindsTop(import) == import.level = 0 /\ import.name = <<>> /\ import.alias = Head(import.base)
TrueTarget(code, root, import) ==
    LET name == NameOf(code, root)[import.at]
    IN  IF BindsTop(import) THEN <<import.alias>>
        ELSE (IF import.level = 0 THEN <<>>
              ELSE SubSeq(name, 1, Len(name) - LevelsUp(code, import)))
             \o import.base \o import.name

Means(code, root, i, alias) ==
    {TrueTarget(code, root, m) : m \in {m \in ToSet(code.imports) : m.at = i /\ m.alias = alias}}

\* A name that a module has from another one stands for what it is there.
Follow(code, root, target) ==
    IF target \in Symbols(code, root) THEN {target}
    ELSE UNION {Means(code, root, i, Last(target)) : i \in {i \in DOMAIN code.nodes :
            code.nodes[i].kind = "module" /\ NameOf(code, root)[i] = Front(target)}}
         \cap Symbols(code, root)

\* The functions around a node, from the innermost out.
Scopes(code) ==
    LET scopes[i \in DOMAIN code.nodes] ==
          LET f == Enclosing(code)[i]
          IN  IF f = 0 THEN <<>> ELSE <<f>> \o scopes[code.nodes[f].parent]
    IN  scopes

\* Definitions in a function's own scope.
Own(code, f, name) ==
    {i \in DOMAIN code.nodes : /\ code.nodes[i].kind \in {"class", "def"}
                               /\ code.nodes[i].name = name
                               /\ code.nodes[code.nodes[i].parent].kind # "class"
                               /\ Enclosing(code)[code.nodes[i].parent] = f}

\* What hides the alias in the functions around a call.
Hidden(code, call) ==
    {k \in DOMAIN Scopes(code)[call.at] : Own(code, Scopes(code)[call.at][k], AliasOf(call)) # {}}

\* The symbols a call may be of: a local definition, one of the module, an imported
\* one; or, of an object, any method.
Meaning(code, root, call) ==
    LET scopes  == Scopes(code)[call.at]
        hiding  == Hidden(code, call)
        targets == {TrueTarget(code, root, code.imports[k]) : k \in ImportsOf(code, call)}
        names(set) == {NameOf(code, root)[i] : i \in set}
    IN  IF call.form = "name" /\ hiding # {}
        THEN names(Own(code, scopes[CHOOSE k \in hiding : \A l \in hiding : k <= l], call.name))
        ELSE IF call.form = "name" /\ LocalName(code, root, call) \in Symbols(code, root)
        THEN {LocalName(code, root, call)}
        ELSE IF targets # {} /\ hiding = {} /\ LocalName(code, root, call) \notin Symbols(code, root)
        THEN UNION {Follow(code, root, Reference(call, t)) : t \in targets}
        ELSE IF call.form = "attribute" THEN Namesakes(code, root, call.name) ELSE {}

\* What functions truly call.
TrueCalls(code, root) ==
    {c \in code.calls : /\ ~c.header /\ Enclosing(code)[c.at] # 0
                       /\ IsSource(FileOfNode(code, c.at), root)
                       /\ Loads(code, root, ModuleOfNode(code)[c.at])}
TrueEdges(code, root, call) ==
    {<<NameOf(code, root)[Enclosing(code)[call.at]], m>> : m \in Meaning(code, root, call)}

\* Imports of which build_call_graph has another target than Python: a package's own
\* relative ones, and those of a dotted name.
Misread(code, import) ==
    \/ import.level # 0 /\ IsPackageModule(code, import.at)
    \/ BindsTop(import) /\ import.base # <<import.alias>>

\* What the graph is known to miss: what is called by a name that many have, that a
\* function hides from its module, or that a module binds more than once; what a
\* misread import takes another symbol for; and what is called by a name that is not its
\* own, when the import does not say where it is defined, only where it is imported too.
Excused(code, root, call) ==
    \/ Exactly(code, root, call) = {} /\ Cardinality(Namesakes(code, root, call.name)) > MaxNameMatches
    \/ call.form = "name" /\ Hidden(code, call) # {}
    \/ \E k \in ImportsOf(code, call) :
         \/ Hidden(code, call) # {} \/ LocalName(code, root, call) \in Symbols(code, root)
         \/ ImportsOf(code, call) # {k}
    \/ \E k \in ImportsOf(code, call) :
         LET import == code.imports[k]
             taken  == Reference(call, ImportTarget(code, root, import))
             called == Reference(call, TrueTarget(code, root, import))
         IN  \/ Misread(code, import) /\ taken \in Symbols(code, root)
             \/ /\ Misread(code, import) \/ called \notin Symbols(code, root)
                /\ ~(Follow(code, root, called) \subseteq Namesakes(code, root, call.name))

\* Reached by so many calls at most.
Reaching(symbols, edges) ==
    LET reached[n \in 0 .. Hops] ==
          IF n = 0 THEN symbols ELSE reached[n - 1] \cup Calling(reached[n - 1], edges)
    IN  reached

\* No caller is missed but those: "a missed caller means a behaviour change ships
\* unnoticed" (callgraph.py).  What a change can reach through so many of the calls is
\* in its blast radius, and nothing else is.
CallersFound(code, root) ==
    LET edges == CallEdges(code, root)
        touched == Touched(code, PackageRoot(code), code.hunks)
        known   == CallEdges(code, PackageRoot(code))
    IN  /\ \A c \in TrueCalls(code, root) : ~Excused(code, root, c) =>
             \A e \in TrueEdges(code, root, c) : e[1] = e[2] \/ e \in edges
        /\ BlastRadius(touched, known) = Reaching(touched, known)[Hops]
============================================================================
