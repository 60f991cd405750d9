----------------------------- MODULE Architecture -----------------------------
(***************************************************************************)
(* scripts/architecture/architecture_check.py: the checker reads every     *)
(* import of the repository and reports each guarded package that reaches  *)
(* what its rule forbids, over any number of packages, and each way out of *)
(* the web's trust domain.  A path is the sequence of its parts; a file's  *)
(* imports and a configuration's entries are what the lexers yield.        *)
(***************************************************************************)
EXTENDS Naturals, Sequences, FiniteSets, Graphs

CONSTANTS
  Trees,           \* repositories the checker may be run on
  ModelProviders,  \* external import paths of each guarded kind
  Provisioning,
  Drivers

VARIABLES
  tree,        \* the repository: [imports, modules, configs, roots, webImports]
  phase,       \* web, go or done
  stack,       \* configurations being validated, each with the extends that are left
  validated,
  webFound,    \* violations of the web's boundary
  todo,        \* guarded packages still to search from, with their rules
  search,      \* [rule, start, queue, visited]
  goFound      \* [rule, path] of every violation

archVars == <<tree, phase, stack, validated, webFound, todo, search, goFound>>

WebOver == <<stack, validated, webFound>>
GoOver == <<todo, search, goFound>>

-----------------------------------------------------------------------------
(* Areas of the repository and the rules between them.                       *)

Under(path, prefixes) == \E p \in prefixes : IsPrefix(p, path)
External(import) == <<"external:">> \o import
Outside(path) == Head(path) = "external:"
Imports(path, kinds) == Outside(path) /\ Under(Tail(path), kinds)

GuardedKinds == ModelProviders \cup Provisioning \cup Drivers

Internal(names) == {<<"internal", n>> : n \in names}
Commands(names) == {<<"cmd", n>> : n \in names}

DirectDriver(path) ==
  \/ IsPrefix(<<"internal", "persistence", "target">>, path)
  \/ /\ Len(path) >= 4 /\ IsPrefix(<<"internal", "corridors">>, path)
     /\ path[4] \in {"source", "target"}

SourceRoots == {"agent", "cmd", "contracts", "evals", "internal", "test", "web"}
Trajectory == <<"internal", "contracts", "quality", "sanitizedtrajectory">>

RuleNames ==
  {"mothership", "harness", "engine-model", "engine-ports", "quality", "composition", "contracts"}

Guarded(rule, path) ==
  Under(path, CASE rule = "mothership" -> Commands({"mothership"}) \cup Internal({"mothership"})
                [] rule = "harness" -> Commands({"cell-agent", "analysis-runner"}) \cup Internal({"harness"})
                [] rule \in {"engine-model", "engine-ports"} -> Commands({"engine"}) \cup Internal({"engine"})
                [] rule = "quality" -> Internal({"quality"})
                [] rule = "composition" ->
                     Commands({"agent-quality", "agent-eval", "bundle-activator"}) \cup {<<"evals">>}
                [] OTHER -> {<<"contracts">>} \cup Internal({"contracts"}))

Authority(path) ==
  DirectDriver(path) \/ Imports(path, Provisioning \cup Drivers)
    \/ Under(path, {<<"infra">>} \cup Internal({"mothership"}))

Forbidden(rule, path) ==
  CASE rule = "mothership" -> Under(path, Internal({"harness", "engine", "decisions", "evidence"}))
    [] rule \in {"harness", "engine-ports"} -> Authority(path)
    [] rule = "engine-model" ->
         \/ Under(path, Internal({"provider", "providers"}) \cup {<<"internal", "harness", "provider">>})
         \/ Imports(path, ModelProviders)
    [] rule = "quality" ->
         \/ Outside(path)
         \/ Head(path) \in SourceRoots /\ ~ Under(path, Internal({"quality"})) /\ path # Trajectory
    [] rule = "composition" ->
         Under(path, Internal({"cell", "cellidentity", "corridors", "evidence"})
                       \cup {<<"internal", "persistence", k>> : k \in {"cell", "target"}})
    [] OTHER -> Head(path) = "internal" /\ ~ Under(path, Internal({"contracts"}))

-----------------------------------------------------------------------------
(* Import sites.  A module claims an import path for its directory.          *)

Longest(S, key) == {m \in S : \A n \in S : Len(m[key]) >= Len(n[key])}

\* _module_for_file: a directory outside every module is no package.
InModule(directory) == \E m \in tree.modules : IsPrefix(m.directory, directory)

\* _resolve_go_import: the module that claims most of the path places the import.
Resolved(import) ==
  LET claiming == {m \in tree.modules : IsPrefix(m.path, import)} IN
  {m.directory \o SubSeq(import, Len(m.path) + 1, Len(import)) :
     m \in Longest(Longest(claiming, "path"), "directory")}

Standard(import) == Head(import) = "std"

ASSUME ArchAssumption ==
  /\ \A k \in GuardedKinds : k \in Seq(STRING) /\ k # <<>> /\ ~ Standard(k)
  /\ \A t \in Trees :
       /\ IsFiniteSet(t.imports) /\ t.imports \subseteq [from : Seq(STRING), import : Seq(STRING)]
       /\ IsFiniteSet(t.modules) /\ t.modules \subseteq [directory : Seq(STRING), path : Seq(STRING)]
       /\ IsFiniteSet(DOMAIN t.configs) /\ t.roots \subseteq DOMAIN t.configs

\* Mutant: what a module claims is no longer taken for external.
TargetsLocal(import) ==
  IF Resolved(import) # {} THEN Resolved(import)
  ELSE IF Standard(import) THEN {} ELSE {External(import)}

\* _go_sites: a guarded import path stays one whatever module claims it.
Targets(import) ==
  IF Resolved(import) # {}
    THEN Resolved(import) \cup
           {e \in {External(import)} : Imports(e, GuardedKinds)}
  ELSE IF Standard(import) THEN {} ELSE {External(import)}

Edges == UNION {{<<i.from, t>> : t \in Targets(i.import)} : i \in {i \in tree.imports : InModule(i.from)}}
Nodes == UNION {{e[1], e[2]} : e \in Edges}
ImportGraph == [node |-> Nodes, edge |-> Edges]

-----------------------------------------------------------------------------
(* The web: configurations extend each other; an entry of any leads somewhere. *)

Elsewhere(kind) == kind \notin {"inside", "package"}
Ways(c) == {<<c, e>> : e \in {e \in tree.configs[c].entries : Elsewhere(e)}}
Entered(c, below) == Append(below, [config |-> c, left |-> tree.configs[c].extends])

\* validate: a configuration met again while it is active closes a cycle; one that does not
\* parse extends nothing.
Validate(c, below) ==
  IF c \in validated THEN stack' = below /\ UNCHANGED <<validated, webFound>>
  ELSE IF \E i \in DOMAIN below : below[i].config = c
    THEN stack' = below /\ webFound' = webFound \cup {<<c, "cycle">>} /\ UNCHANGED validated
  ELSE IF tree.configs[c].parses
    THEN stack' = Entered(c, below) /\ webFound' = webFound \cup Ways(c) /\ UNCHANGED validated
    ELSE /\ validated' = validated \cup {c} /\ stack' = below
         /\ webFound' = webFound \cup {<<c, "invalid">>}

\* The next tsconfig or jsconfig of the tree.
ValidateRoot ==
  /\ phase = "web" /\ stack = <<>>
  /\ \E c \in tree.roots \ validated : Validate(c, <<>>)
  /\ UNCHANGED <<tree, phase, GoOver>>

\* The next extends of the configuration on top; a package's is not followed.
Extend ==
  /\ phase = "web" /\ stack # <<>>
  /\ \E x \in Last(stack).left :
       LET below == [stack EXCEPT ![Len(stack)].left = @ \ {x}] IN
       IF x \in DOMAIN tree.configs THEN Validate(x, below)
       ELSE /\ stack' = below
            /\ webFound' = webFound \cup {<<Last(stack).config, k>> : k \in {x} \ {"package"}}
            /\ UNCHANGED validated
  /\ UNCHANGED <<tree, phase, GoOver>>

Validated ==
  /\ phase = "web" /\ stack # <<>> /\ Last(stack).left = {}
  /\ validated' = validated \cup {Last(stack).config}
  /\ stack' = Front(stack)
  /\ UNCHANGED <<tree, phase, webFound, GoOver>>

\* _web_sites: an import leads out of the web, into a domain, or where nobody can tell.
ScanWeb ==
  /\ phase = "web" /\ stack = <<>> /\ tree.roots \subseteq validated
  /\ webFound' = webFound \cup {<<"import", k>> : k \in {k \in tree.webImports : Elsewhere(k)}}
  /\ todo' = {w \in RuleNames \X Nodes : Guarded(w[1], w[2])}
  /\ phase' = "go"
  /\ UNCHANGED <<tree, stack, validated, search, goFound>>

-----------------------------------------------------------------------------
(* _boundary_violations: a search from every guarded package of every rule.  *)

NoSearch == [rule |-> "none", queue |-> <<>>, visited |-> {}]

Begin(w) == [rule |-> w[1], queue |-> <<<<w[2]>>>>, visited |-> {w[2]}]

NextSearch ==
  /\ phase = "go" /\ search.queue = <<>> /\ todo # {}
  /\ LET w == CHOOSE w \in todo : TRUE IN
     search' = Begin(w) /\ todo' = todo \ {w}
  /\ UNCHANGED <<tree, phase, WebOver, goFound>>

\* _shortest_paths: a path is taken from the queue and continued to what is not visited yet.
Visit ==
  /\ phase = "go" /\ search.queue # <<>>
  /\ LET path == Head(search.queue)
         onward == Successors(ImportGraph, Last(path)) \ search.visited
         paths == {Append(path, t) : t \in onward} IN
     /\ search' = [search EXCEPT !.queue = Tail(@) \o SetToSeq(paths), !.visited = @ \cup onward]
     /\ goFound' = goFound \cup
          {[rule |-> search.rule, path |-> p] : p \in {p \in paths : Forbidden(search.rule, Last(p))}}
  /\ UNCHANGED <<tree, phase, WebOver, todo>>

Finish ==
  /\ phase = "go" /\ search.queue = <<>> /\ todo = {}
  /\ phase' = "done"
  /\ UNCHANGED <<tree, WebOver, GoOver>>

ArchInit ==
  /\ tree \in Trees
  /\ phase = "web" /\ stack = <<>> /\ validated = {} /\ webFound = {}
  /\ todo = {} /\ search = NoSearch /\ goFound = {}

ArchNext == ValidateRoot \/ Extend \/ Validated \/ ScanWeb \/ NextSearch \/ Visit \/ Finish

ArchSpec == ArchInit /\ [][ArchNext]_archVars

-----------------------------------------------------------------------------

\* What n steps or fewer lead to from a set of nodes.
Onward(graph, start, steps) ==
  LET near[n \in 0..steps] ==
        IF n = 0 THEN start ELSE LET nearer == near[n - 1] IN nearer \cup AllSuccessors(graph, nearer)
  IN near[steps]
Below(graph, n) == Onward(graph, Successors(graph, n), Cardinality(graph.node))

\* The report holds each guarded package with each forbidden one it reaches, over however
\* many packages in between and around cycles, by a shortest path of real imports, and
\* nothing else; and an import of a guarded kind shows wherever a module claims its path.
BoundariesReported ==
  phase = "done" =>
    LET graph == ImportGraph
        guarded == {w \in RuleNames \X graph.node : Guarded(w[1], w[2])}
        below == [n \in {w[2] : w \in guarded} |-> Below(graph, n)]
        reported == {<<<<v.rule, Head(v.path)>>, Last(v.path)>> : v \in goFound} IN
    /\ reported = UNION {{<<w, t>> : t \in {t \in below[w[2]] : Forbidden(w[1], t)}} : w \in guarded}
    /\ \A v \in goFound :
         /\ \A n \in 2..Len(v.path) : <<v.path[n - 1], v.path[n]>> \in graph.edge
         /\ Last(v.path) \notin Onward(graph, {Head(v.path)}, Len(v.path) - 2)
    /\ \A w \in guarded, i \in tree.imports :
         /\ InModule(i.from) /\ i.from \in {w[2]} \cup below[w[2]]
         /\ Imports(External(i.import), GuardedKinds) /\ Forbidden(w[1], External(i.import))
         => <<w, External(i.import)>> \in reported

Extending ==
  [node |-> DOMAIN tree.configs,
   edge |-> UNION {{<<c, x>> : x \in tree.configs[c].extends \cap DOMAIN tree.configs} :
                     c \in {c \in DOMAIN tree.configs : tree.configs[c].parses}}]

\* A tree passes exactly when nothing leads out of the web: every configuration that a
\* tsconfig extends, over any number of others, parses and stays inside with all its entries,
\* none of them extends itself in the end, and every import stays inside or is a package's.
WebConfined ==
  phase = "done" =>
    (webFound = {} <=>
      /\ \A k \in tree.webImports : ~ Elsewhere(k)
      /\ \A c \in UNION {{r} \cup Below(Extending, r) : r \in tree.roots} :
           /\ tree.configs[c].parses /\ c \notin Below(Extending, c)
           /\ tree.configs[c].extends \subseteq DOMAIN tree.configs \cup {"package"}
           /\ \A e \in tree.configs[c].entries : ~ Elsewhere(e))

\* The whole answer of architecture_check: its violations are exactly what the guarded
\* packages reach and what leads out of the web.
ReportsExact == BoundariesReported /\ WebConfined
=============================================================================
