---------------------------- MODULE ChangeImpact ----------------------------
(***************************************************************************)
(* The change impact of one analysis (analyzer.Processor): which symbols of  *)
(* a changed file the diff touches, the graph of the repository's             *)
(* declarations, and the bounded walk from the changed symbols over it.       *)
(* Declarations are numbered in the order of file, name and receiver, scores  *)
(* are percentages.  The order in which the walk meets the edges of a node    *)
(* follows Go maps and is a choice of the model.                              *)
(***************************************************************************)
EXTENDS Integers, FiniteSets, Sequences, SequencesExt

CONSTANTS
    Declarations,     \* Seq of [file, pkg, recv, name, kind]
    Contract,         \* the name of the one method of each interface
    ChangedFile,      \* the file of the diff
    LineBound,        \* lines of the changed file before and after together
    SourceBound,      \* call sites, type uses and implementations of a source
    Depths, Sizes,    \* the choices of MaxDepth and of MaxNodes
    MaxFiles          \* ImpactOptions.MaxFiles

\* A repository has finitely many declarations; NewImpactEngine refuses limits of
\* less than one.
ASSUME ImpactAssumption ==
    /\ Declarations \in Seq([file : STRING, pkg : STRING, recv : STRING, name : STRING, kind : STRING])
    /\ Depths \subseteq Nat \ {0} /\ Sizes \subseteq Nat \ {0}

Decl == DOMAIN Declarations
KindsOfType == {"struct", "interface", "type"}
Functions == {d \in Decl : Declarations[d].kind \in {"function", "method", "test"}}
Types == {d \in Decl : Declarations[d].kind \in KindsOfType}
IsTest(d) == Declarations[d].kind = "test"
ImpactLowest(S) == CHOOSE x \in S : \A y \in S : x <= y
ImpactHighest(S) == CHOOSE x \in S : \A y \in S : y <= x

-----------------------------------------------------------------------------
(* The diff.  A script is the stretch of the changed file around the change,  *)
(* line by line: the mark of the line ("=" for the blank of a line that       *)
(* stays) and the declaration it belongs to, 0 for none.  Declarations that   *)
(* no line names lie outside of the stretch.  The file before is the script   *)
(* without what is added, the file after the script without what is removed.  *)

Line == [mark : {"=", "-", "+"}, owner : {0} \cup {d \in Decl : Declarations[d].file = ChangedFile}]
Before == "+"
After == "-"
In(script, side) == {i \in DOMAIN script : script[i].mark # side}
Number(script, side, i) == Cardinality({k \in In(script, side) : k <= i})
Lines(script, side, d) == {Number(script, side, i) : i \in {k \in In(script, side) : script[k].owner = d}}
Symbols(script, side) == {d \in Decl : Lines(script, side, d) # {}}
Contiguous(script, side) == \A i, j, k \in In(script, side) :
    i < k /\ k < j /\ script[i].owner = script[j].owner /\ script[i].owner # 0 => script[k].owner = script[i].owner
Scripts == {s \in UNION {[1..n -> Line] : n \in 1..LineBound} : Contiguous(s, Before) /\ Contiguous(s, After)}

\* Hunks with one line of context, as the source control server writes them: the
\* lines shown, and the numbers the first of them has before and after.
Shown(script) == {i \in DOMAIN script : \E j \in DOMAIN script : script[j].mark # "=" /\ i - j \in -1..1}
HunkStarts(script) == {i \in Shown(script) : i - 1 \notin Shown(script)}
Hunk(script, i) ==
    LET last == ImpactLowest({k \in i..Len(script) : k + 1 \notin Shown(script)})
    IN  [old |-> Number(script, Before, i - 1) + 1, new |-> Number(script, After, i - 1) + 1,
         marks |-> [k \in 1..(last - i + 1) |-> script[i + k - 1].mark]]

\* One line of a hunk moves the counters and marks what it removes or adds.
ParseLine_OldOnly(at, mark) ==
    CASE mark = "+" -> [at EXCEPT !.added = @ \cup {at.new}, !.new = @ + 1]
      [] mark = "-" -> [at EXCEPT !.removed = @ \cup {at.old}, !.old = @ + 1, !.new = @ + 1]
      [] OTHER -> [at EXCEPT !.old = @ + 1, !.new = @ + 1]
ParseLine(at, mark) ==
    CASE mark = "+" -> [at EXCEPT !.added = @ \cup {at.new}, !.new = @ + 1]
      [] mark = "-" -> [at EXCEPT !.removed = @ \cup {at.old}, !.old = @ + 1]
      [] OTHER -> [at EXCEPT !.old = @ + 1, !.new = @ + 1]
ParseHunk(hunk) ==
    LET At[k \in 0..Len(hunk.marks)] ==
          IF k = 0 THEN [old |-> hunk.old, new |-> hunk.new, removed |-> {}, added |-> {}]
          ELSE ParseLine(At[k - 1], hunk.marks[k])
    IN  At[Len(hunk.marks)]
ParseChangedLines(script) ==
    [old |-> UNION {ParseHunk(Hunk(script, i)).removed : i \in HunkStarts(script)},
     new |-> UNION {ParseHunk(Hunk(script, i)).added : i \in HunkStarts(script)}]

\* The symbols whose range holds a changed line.
HitSymbols(script, side, lines) == {d \in Symbols(script, side) :
    \E l \in lines : ImpactLowest(Lines(script, side, d)) <= l /\ l <= ImpactHighest(Lines(script, side, d))}
ChangeType(script, d) ==
    IF d \notin Symbols(script, Before) THEN "added"
    ELSE IF d \notin Symbols(script, After) THEN "deleted" ELSE "modified"
MapChangedSymbols(script) ==
    LET lines == ParseChangedLines(script)
    IN  {[symbol |-> d, type |-> ChangeType(script, d)] :
           d \in HitSymbols(script, Before, lines.old) \cup HitSymbols(script, After, lines.new)}

-----------------------------------------------------------------------------
(* The source.  A call names a function, a method or, for a call through an   *)
(* interface, the interface; a use of a type is a pair, too.  What a builder   *)
(* of graphs makes of a call depends on how it is written.  The graph of types *)
(* has a key for every declared function, but none for a function literal or  *)
(* an instance of a generic function: their calls and those of them are lost. *)
(* The graph of names looks the name up in one package: that of the caller,   *)
(* or the one imported under the name before the dot, which is taken to be    *)
(* the alias or the last element of the path, whatever the package calls      *)
(* itself, and may be meant for a variable.  Other calls are looked up nowhere. *)

GraphNodes(nodes) == nodes \cap (Functions \cup Types)
Packages == {Declarations[d].pkg : d \in Decl}
Readings(mode) == IF mode = "SSA" THEN {"keyed", "keyless"} ELSE Packages \cup {"nowhere"}
CallSites(nodes, mode) ==
    (nodes \cap Functions)
    \X ({d \in nodes \cap Functions : ~IsTest(d)} \cup {d \in nodes : Declarations[d].kind = "interface"})
    \X Readings(mode)

\* The graph of names looks for types in the bodies of functions only.
TypeUses(nodes, mode) == {u \in GraphNodes(nodes) \X (nodes \cap Types) :
    u[1] # u[2] /\ (mode = "AST_FALLBACK" => u[1] \in Functions)}
MethodsOf(nodes, t, name) == {m \in nodes : /\ Declarations[m].kind = "method"
    /\ Declarations[m].recv = Declarations[t].name /\ Declarations[m].name = name}
Implements(nodes) == {i \in {d \in nodes : Declarations[d].kind = "struct"} \X {d \in nodes : Declarations[d].kind = "interface"} :
    MethodsOf(nodes, i[1], Contract[i[2]]) # {}}
Facts(nodes, mode) ==
    {[is |-> "call", of |-> c] : c \in CallSites(nodes, mode)}
    \cup {[is |-> "use", of |-> u] : u \in TypeUses(nodes, mode)}
    \cup {[is |-> "implements", of |-> i] : i \in Implements(nodes)}
FactSets(nodes, mode) == {{}} \cup {{f[i] : i \in 1..SourceBound} : f \in [1..SourceBound -> Facts(nodes, mode)]}
SourceTrees(nodes, mode) == {[nodes |-> nodes,
    calls |-> {f.of : f \in {x \in facts : x.is = "call"}}, uses |-> {f.of : f \in {x \in facts : x.is = "use"}},
    implements |-> {f.of : f \in {x \in facts : x.is = "implements"}}] : facts \in FactSets(nodes, mode)}

Edges(pairs, relation) == {[from |-> p[1], to |-> p[2], relation |-> relation] : p \in {q \in pairs : q[1] # q[2]}}

\* CHA: a call through an interface may reach the method of every type that
\* implements it.
Callees(source, call) ==
    IF Declarations[call[2]].kind # "interface" THEN {call[2]}
    ELSE UNION {MethodsOf(source.nodes, i[1], Contract[i[2]]) : i \in {x \in source.implements : x[2] = call[2]}}
TypedGraph(source) ==
    Edges(UNION {{c[1]} \X Callees(source, c) : c \in {x \in source.calls : x[3] = "keyed"}}, "CALLS")
    \cup Edges(source.uses, "USES_TYPE")
    \cup Edges(source.implements, "IMPLEMENTS")

\* The fallback knows names only: a call finds all that has the name called in
\* the package in which it is looked up.
SamePackage(d, e) == Declarations[d].pkg = Declarations[e].pkg
Called(d) == IF Declarations[d].kind = "interface" THEN Contract[d] ELSE Declarations[d].name
NamedBy_OwnPackage(source, call) ==
    {d \in GraphNodes(source.nodes) : SamePackage(d, call[1]) /\ Declarations[d].name = Called(call[2])}
NamedBy(source, call) ==
    {d \in GraphNodes(source.nodes) : Declarations[d].pkg = call[3] /\ Declarations[d].name = Called(call[2])}
AstGraph(source) ==
    Edges(UNION {{c[1]} \X NamedBy(source, c) : c \in source.calls}, "CALLS")
    \cup Edges({u \in source.uses : SamePackage(u[1], u[2])}, "USES_TYPE")

Modes == {"SSA", "AST_FALLBACK"}
GraphEdges(mode, source) == IF mode = "SSA" THEN TypedGraph(source) ELSE AstGraph(source)

-----------------------------------------------------------------------------
VARIABLES
    phase,      \* "diff", "mapped", "fetched", "walk", "done", "saved", "failed"
    script,     \* the diff, forgotten when the symbols are mapped
    direct,     \* the changed symbols
    source,     \* the repository at the source SHA
    graph,      \* its mode, nodes and edges
    limits,     \* [depth, nodes]
    todo,       \* the changed symbols that are still to be found in the graph
    selected,   \* node -> [depth, score, reasons, direct]
    queue,      \* nodes to be walked from, nearest first
    pending,    \* the edges the current node still has to look at
    edges       \* <<from, to, reason>> -> [depth, score]

impactVars == <<phase, script, direct, source, graph, limits, todo, selected, queue, pending, edges>>

NoGraph == [mode |-> "none", nodes |-> {}, edges |-> {}]
NoSource == [nodes |-> {}, calls |-> {}, uses |-> {}, implements |-> {}]
ImpactInit ==
    /\ phase = "diff" /\ script = << >> /\ direct = {} /\ source = NoSource /\ graph = NoGraph
    /\ limits = [depth |-> 0, nodes |-> 0] /\ todo = {} /\ selected = << >> /\ queue = << >> /\ pending = {} /\ edges = << >>

\* Processor.Process maps the symbols of the changed file, or refuses a diff
\* the server did not send.
MapSymbols ==
    /\ phase = "diff"
    /\ script' \in Scripts
    /\ direct' = MapChangedSymbols(script')
    /\ phase' = "mapped"
    /\ UNCHANGED <<source, graph, limits, todo, selected, queue, pending, edges>>
DiffUnavailable ==
    /\ phase = "diff"
    /\ phase' = "failed"
    /\ UNCHANGED <<script, direct, source, graph, limits, todo, selected, queue, pending, edges>>

\* The source of the exact SHA is fetched file by file, or not at all.
Blob == {"source", "large", "unsafe", "other"}
Materialized(tree) ==
    LET files == SelectSeq(tree, LAMBDA b : b # "other")
    IN  /\ Len(files) \in 1..MaxFiles
        /\ \A i \in DOMAIN files : files[i] = "source"
Materialize ==
    /\ phase = "mapped"
    /\ \E tree \in UNION {[1..n -> Blob] : n \in 0..(MaxFiles + 1)} :
         phase' = IF Materialized(tree) THEN "fetched" ELSE "failed"
    /\ script' = << >>
    /\ UNCHANGED <<direct, source, graph, limits, todo, selected, queue, pending, edges>>

Changed == {c.symbol : c \in direct}
Deleted == {c.symbol : c \in {x \in direct : x.type = "deleted"}}

\* Packages that type-check in time give the graph of types and calls; a type
\* error, a time-out or a module path outside the workspace the one of names.
AnalyzeDirectory ==
    /\ phase = "fetched"
    /\ \E mode \in Modes :
         /\ source' \in SourceTrees(Decl \ Deleted, mode)
         /\ graph' = [mode |-> mode, nodes |-> GraphNodes(source'.nodes), edges |-> GraphEdges(mode, source')]
    /\ limits' \in [depth : Depths, nodes : Sizes]
    /\ todo' = Changed
    /\ phase' = "walk"
    /\ UNCHANGED <<script, direct, selected, queue, pending, edges>>

\* A file that does not parse leaves neither.
NoGraphAtAll ==
    /\ phase = "fetched"
    /\ phase' = "failed"
    /\ UNCHANGED <<script, direct, source, graph, limits, todo, selected, queue, pending, edges>>

-----------------------------------------------------------------------------
(* The walk (selectImpact). *)

\* A changed symbol is looked up by file, name and receiver, if both have one.
Namesakes(n, d) ==
    /\ Declarations[n].file = Declarations[d].file
    /\ Declarations[n].name = Declarations[d].name
    /\ "" \in {Declarations[n].recv, Declarations[d].recv} \/ Declarations[n].recv = Declarations[d].recv
MatchingNodes(nodes, d) == {n \in nodes : Namesakes(n, d)}

DirectNode == [depth |-> 0, score |-> 100, reasons |-> {"DIRECT_CHANGE"}, direct |-> TRUE]
InOrder(S) == {p \in [1..Cardinality(S) -> S] : ToSet(p) = S /\ \A i, j \in DOMAIN p : i < j => p[i] < p[j]}

\* By file and name, so that namesakes come in any order.  A symbol without a
\* match, a constant or a deleted one, joins the nodes under its own number; the
\* matches are taken while there is room, also those taken before.
SelectDirect(d) ==
    /\ phase = "walk" /\ \A x \in todo : d <= x \/ Declarations[x].name = Declarations[d].name
    /\ todo' = todo \ {d}
    /\ LET matches == IF MatchingNodes(graph.nodes, d) = {} THEN {d} ELSE MatchingNodes(graph.nodes, d)
           taken == {n \in matches : Cardinality(DOMAIN selected \cup {m \in matches : m < n}) < limits.nodes}
       IN  /\ graph' = [graph EXCEPT !.nodes = @ \cup matches]
           /\ \E sorted \in InOrder(taken) : queue' = queue \o sorted
           /\ selected' = [n \in DOMAIN selected \cup taken |-> DirectNode]
    /\ UNCHANGED <<phase, script, direct, source, limits, pending, edges>>

ReasonForEdge(e, neighbor) ==
    CASE e.relation = "IMPLEMENTS" -> "INTERFACE_IMPLEMENTATION"
      [] e.relation = "USES_TYPE" -> "TYPE_USAGE"
      [] e.relation = "CALLS" /\ IsTest(neighbor) -> "EXISTING_TEST"
      [] e.relation = "CALLS" /\ ~IsTest(neighbor) -> IF neighbor = e.from THEN "CALLER" ELSE "CALLEE"
Base == [CALLER |-> 88, CALLEE |-> 78, INTERFACE_IMPLEMENTATION |-> 84, TYPE_USAGE |-> 74, EXISTING_TEST |-> 92]
ImpactScore(reason, depth) == ImpactHighest({10, Base[reason] - 12 * (depth - 1)})

EdgesAt(n) == {e \in graph.edges : n \in {e.from, e.to}}
Neighbor(e, n) == IF e.from = n THEN e.to ELSE e.from

\* What is queued is walked from in order, unless it is as deep as allowed.
Visit ==
    /\ phase = "walk" /\ todo = {} /\ pending = {} /\ queue # << >>
    /\ IF selected[Head(queue)].depth < limits.depth /\ EdgesAt(Head(queue)) # {}
       THEN pending' = EdgesAt(Head(queue)) /\ UNCHANGED queue
       ELSE queue' = Tail(queue) /\ UNCHANGED pending
    /\ UNCHANGED <<phase, script, direct, source, graph, limits, todo, selected, edges>>

Full == Cardinality(DOMAIN selected) >= limits.nodes
Merge_FirstOnly(node, reason, score) == [node EXCEPT !.reasons = @ \cup {reason}]
Merge(node, reason, score) ==
    [node EXCEPT !.reasons = @ \cup {reason}, !.score = ImpactHighest({@, score})]

\* Outgoing edges come before incoming ones, otherwise in any order.
Walk(e) ==
    LET at == Head(queue)
        n == Neighbor(e, at)
        depth == selected[at].depth + 1
        reason == ReasonForEdge(e, n)
        score == ImpactScore(reason, depth)
        left == pending \ {e}
    IN  /\ e.to = at => \A x \in pending : x.to = at
        /\ pending' = left
        /\ queue' = LET rest == IF left = {} THEN Tail(queue) ELSE queue
                    IN  IF n \in DOMAIN selected \/ Full THEN rest ELSE Append(rest, n)
        /\ selected' =
             IF n \in DOMAIN selected THEN [selected EXCEPT ![n] = Merge(@, reason, score)]
             ELSE IF Full THEN selected
             ELSE [x \in DOMAIN selected \cup {n} |-> IF x \in DOMAIN selected THEN selected[x]
                     ELSE [depth |-> depth, score |-> score, reasons |-> {reason}, direct |-> FALSE]]
        /\ edges' = IF n \notin DOMAIN selected /\ Full THEN edges
                    ELSE [k \in DOMAIN edges \cup {<<e.from, e.to, reason>>} |->
                            IF k = <<e.from, e.to, reason>> THEN [depth |-> depth, score |-> score] ELSE edges[k]]
        /\ UNCHANGED <<phase, script, direct, source, graph, limits, todo>>

Selected ==
    /\ phase = "walk" /\ todo = {} /\ pending = {} /\ queue = << >>
    /\ phase' = "done"
    /\ UNCHANGED <<script, direct, source, graph, limits, todo, selected, queue, pending, edges>>

\* What SaveAnalysis accepts; the fence on the analysis is in AnalysisPipeline.
ValidResult ==
    /\ graph.mode \in Modes
    /\ \A n \in DOMAIN selected : selected[n].depth >= 0 /\ selected[n].score \in 0..100 /\ selected[n].reasons # {}
    /\ \A k \in DOMAIN edges :
         /\ {k[1], k[2]} \subseteq DOMAIN selected
         /\ k[3] \in DOMAIN Base
         /\ edges[k].depth \in 1..limits.depth /\ edges[k].score \in 0..100
SaveAnalysis ==
    /\ phase = "done"
    /\ phase' = IF ValidResult THEN "saved" ELSE "failed"
    /\ UNCHANGED <<script, direct, source, graph, limits, todo, selected, queue, pending, edges>>

ImpactNext ==
    \/ MapSymbols \/ DiffUnavailable \/ Materialize \/ AnalyzeDirectory \/ NoGraphAtAll
    \/ (\E d \in todo : SelectDirect(d)) \/ Visit \/ \E e \in pending : Walk(e)
    \/ Selected \/ SaveAnalysis
ImpactSpec == ImpactInit /\ [][ImpactNext]_impactVars

-----------------------------------------------------------------------------
(* What the walk promises, by definitions of its own. *)

Matched(d) == MatchingNodes(GraphNodes(source.nodes), d)
ChangedNodes == UNION {Matched(d) : d \in Changed}
Unmatched == {d \in Changed : Matched(d) = {}}
\* The nodes within k steps of a changed one, in either direction.
Nearby(links, S) == S \cup {n \in Decl : \E e \in links : n \in {e.from, e.to} /\ Neighbor(e, n) \in S}
Reach(start, links, depth) ==
    LET ring[k \in 0..depth] == IF k = 0 THEN start ELSE Nearby(links, ring[k - 1]) IN ring
Within == Reach(ChangedNodes, graph.edges, limits.depth)
Distance(within, n) == ImpactLowest({k \in DOMAIN within : n \in within[k]})
Untruncated(within) == Cardinality(within[limits.depth] \cup Unmatched) <= limits.nodes

TouchedSymbols == {script[i].owner : i \in {k \in DOMAIN script : script[k].mark # "="}} \ {0}

\* The diff parser reports exactly the symbols with an added or removed line.
DirectIsExact == phase = "mapped" =>
    direct = {[symbol |-> d, type |-> ChangeType(script, d)] : d \in TouchedSymbols}

\* Whatever the order of the edges, a walk that meets no limit of nodes selects
\* what lies within its depth, at its distance, with every reason and the best
\* score of them; a symbol outside the graph is found under its name.
SelectionIsExact == phase = "done" => LET within == Within IN Untruncated(within) =>
    LET found == within[limits.depth]
        Sightings(n) == {e \in EdgesAt(n) : Neighbor(e, n) \in within[limits.depth - 1]}
        Score(e, n) == ImpactScore(ReasonForEdge(e, n), Distance(within, Neighbor(e, n)) + 1)
    IN  /\ found = DOMAIN selected \ Unmatched
        /\ \A d \in Unmatched : \E n \in Unmatched \cap DOMAIN selected : Namesakes(n, d) /\ selected[n] = DirectNode
        /\ DOMAIN edges = UNION {{<<e.from, e.to, ReasonForEdge(e, n)>> : e \in Sightings(n)} : n \in found}
        /\ \A n \in found :
             LET seen == {[reason |-> ReasonForEdge(e, n), score |-> Score(e, n)] : e \in Sightings(n)}
                 all == seen \cup (IF n \in ChangedNodes THEN {[reason |-> "DIRECT_CHANGE", score |-> 100]} ELSE {})
             IN  selected[n] = [depth |-> Distance(within, n), direct |-> n \in ChangedNodes,
                                reasons |-> {x.reason : x \in all}, score |-> ImpactHighest({x.score : x \in all})]

\* Also a truncated result is one the repository accepts, and every node in it
\* is tied to a nearer one by an edge of the result.
ResultIsExplained == phase = "done" =>
    /\ ValidResult
    /\ Cardinality(DOMAIN selected) <= limits.nodes
    /\ \A n \in DOMAIN selected : ~selected[n].direct => \E k \in DOMAIN edges :
         n \in {k[1], k[2]} /\ \E m \in {k[1], k[2]} : selected[m].depth = selected[n].depth - 1

\* The static callers of a changed function or method are in the result, if the
\* graph knows the call: in the graph of types one between declared functions, in
\* the graph of names one that is looked up in the package of what it calls, be it
\* the caller's or another.
KnownCall(c) == c[3] = IF graph.mode = "SSA" THEN "keyed" ELSE Declarations[c[2]].pkg
CallersAreSelected == phase = "done" => \A c \in source.calls :
    /\ c[2] \in ChangedNodes \cap Functions
    /\ KnownCall(c)
    /\ Cardinality(DOMAIN selected) < limits.nodes
    => c[1] \in DOMAIN selected

\* The impact of a change is computed from exactly what the diff touches, and
\* as the graph says (analyzer.selectImpact, both graphs and the diff parser).
ImpactIsExact == DirectIsExact /\ SelectionIsExact /\ ResultIsExplained /\ CallersAreSelected
=============================================================================
