------------------------- MODULE FragmentProperties -------------------------
(***************************************************************************)
(* What expand_includes must do, stated against the include graph and a    *)
(* reference expansion that know nothing of calls and stacks.              *)
(***************************************************************************)
EXTENDS FragmentExpansion, FiniteSets

Nodes == Files \cup {Root}

(* A source tree has finitely many files. *)
ASSUME FilesAssumption == IsFiniteSet(Files)

(* The directories where the paths of f's includes are looked up. *)
IncludeDirs(f) == IF f = Root THEN SearchPath ELSE <<ParentDir[f]>>

(* Includes of name in f mean g: no earlier directory has that name. *)
Means(f, name, g) ==
  \E j \in 1 .. Len(IncludeDirs(f)) :
    /\ g = Canonical[IncludeDirs(f)[j]][name]
    /\ status[g] # "missing"
    /\ \A k \in 1 .. j - 1 : status[Canonical[IncludeDirs(f)[k]][name]] = "missing"

(* Who includes whom. *)
IncludeGraph ==
  {e \in Nodes \X Files :
     \E i \in 1 .. Len(files[e[1]]) :
       files[e[1]][i] \in Names /\ Means(e[1], files[e[1]][i], e[2])}

(* What the code of a file comes to: its text, byte by byte, and how many  *)
(* coordinates were dropped on the way.                                    *)
Nothing == [text |-> <<>>, drops |-> 0]

(* Line i of f, after the lines before it, where "whole" tells what every  *)
(* file comes to.  An inlined text that leaves nothing gets a newline.     *)
LineAdded(before, f, i, whole) ==
  LET line   == files[f][i]
      Put(b) == [text |-> before.text \o <<b, b>>, drops |-> before.drops]
  IN  CASE line = Text -> Put(<<f, i>>)
        [] line = Coordinate /\ registry -> Put(<<RegistryModule, 1>>)
        [] line = Coordinate /\ ~registry ->
             [text |-> before.text, drops |-> before.drops + 1]
        [] line \in Names /\ (\E g \in Files : Means(f, line, g)) ->
             LET g    == CHOOSE g \in Files : Means(f, line, g)
                 text == before.text \o whole[g].text
             IN  [text  |-> IF text = <<>> THEN << <<g, 0>> >> ELSE text,
                  drops |-> before.drops + whole[g].drops]
        [] OTHER -> before

(* The lines of f, one after the other. *)
LinesExpanded(f, whole) ==
  LET upTo[i \in 0 .. Len(files[f])] ==
        IF i = 0 THEN Nothing ELSE LineAdded(upTo[i - 1], f, i, whole)
  IN  upTo

(* Every file with its includes replaced, to a nesting of depth. *)
Expansion[depth \in 0 .. Cardinality(Nodes)] ==
  IF depth = 0 THEN [f \in Nodes |-> Nothing]
  ELSE [f \in Nodes |-> LinesExpanded(f, Expansion[depth - 1])[Len(files[f])]]

Expanded == Expansion[Cardinality(Nodes)][Root]
----------------------------------------------------------------------------
(* No file is expanded inside its own expansion, so that the recursion is  *)
(* never deeper than there are files.                                      *)
NoReentry ==
  \A i, j \in 2 .. Len(stack) : stack[i].file = stack[j].file => i = j

(* A successful expansion is the reference expansion, byte by byte: every  *)
(* include replaced at its place, by the first file found, however often a *)
(* fragment is used.                                                       *)
OutputIsExpansion == outcome = "ok" => Top.out = Expanded.text

(* The error for a circular include names a real chain of includes that    *)
(* starts at the arm and closes: a fragment used twice is no cycle.        *)
CycleIsReal ==
  outcome = "circular" =>
    /\ <<Root, cycle[1]>> \in IncludeGraph
    /\ \A i \in 1 .. Len(cycle) - 1 : <<cycle[i], cycle[i + 1]>> \in IncludeGraph
    /\ \E i \in 1 .. Len(cycle) - 1 : cycle[i] = cycle[Len(cycle)]

(* The files that the arm reaches, directly or through others: those in    *)
(* every set that the include graph, entered from the arm, does not leave. *)
Reached ==
  LET graph == IncludeGraph
      Closed(S) == \A e \in graph : e[1] \in S \cup {Root} => e[2] \in S
  IN  {f \in Files : \A S \in SUBSET Files : Closed(S) => f \in S}

(* Of any files of S, one includes none of them. *)
Acyclic(S, graph) ==
  \A C \in (SUBSET S) \ {{}} : \E f \in C : \A g \in C : <<f, g>> \notin graph

(* No circular include that the arm reaches goes unreported: of any set of *)
(* files that are all reached, one includes none of the set.               *)
OkMeansAcyclic == outcome = "ok" => Acyclic(Reached, IncludeGraph)

(* The file that line i of the arm takes its text from. *)
TakenFrom(i) ==
  LET line == files[Root][i]
  IN  CASE line = Text       -> Root
        [] line = Coordinate -> RegistryModule
        [] line \in Names    -> CHOOSE g \in Files : Means(Root, line, g)

(* What the arm comes to, up to each of its lines. *)
ArmExpanded == LinesExpanded(Root, Expansion[Cardinality(Nodes)])

(* For every byte of the output the source map names the file that the     *)
(* arm's own line took it from: the fragment this line includes, however   *)
(* deep inside it the byte was written, and the arm for its own text.      *)
ResolvesToArmsInclude ==
  outcome = "ok" =>
    \A i \in 1 .. Len(files[Root]) :
      \A offset \in Len(ArmExpanded[i - 1].text) .. Len(ArmExpanded[i].text) - 1 :
        Resolve(Top.map, offset) = TakenFrom(i)

(* Without a registry every coordinate that is dropped leaves a mark,      *)
(* also from inside fragments: assemble_output warns about each.           *)
EveryDropMarked ==
  outcome = "ok" =>
    Cardinality({i \in DOMAIN Top.map : Top.map[i].file = DeferredMark}) = Expanded.drops

(* Under FairSpec the expansion ends, also on circular includes. *)
Terminates == <>(outcome # "running")
============================================================================
