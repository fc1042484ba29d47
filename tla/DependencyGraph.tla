-------------------------- MODULE DependencyGraph --------------------------
(***************************************************************************)
(* The order in which a compilation emits resources (graydr/src/graph):    *)
(* the graph of dependencies, its topological order, and the groups of     *)
(* resources that share a provider and a region.  An edge <<d, r>> says    *)
(* that d comes before r.                                                  *)
(***************************************************************************)
EXTENDS Naturals, Sequences, FiniteSets, SequencesExt

(* A mutant: a resource that depends on itself is let through. *)
TopoOrdersLax(nodes, edges) ==
  {s \in SetToSeqs(nodes) :
     \A i, j \in DOMAIN s : i < j => <<s[j], s[i]>> \notin edges}

(* petgraph::algo::toposort returns some order with every edge forward, or *)
(* fails, also on a resource that depends on itself.                       *)
TopoOrders(nodes, edges) ==
  {s \in SetToSeqs(nodes) :
     \A i, j \in DOMAIN s : i <= j => <<s[j], s[i]>> \notin edges}

(* The members of S with those of each pair in before in their order. *)
InOrder(S, before) == CHOOSE s \in TopoOrders(S, before) : TRUE

Earlier(s) ==
  {<<s[e[1]], s[e[2]]>> : e \in {x \in (DOMAIN s) \X (DOMAIN s) : x[1] < x[2]}}

(* The pairs with a path of edges between them: the second is in every set *)
(* that holds what follows the first and what follows its own members.     *)
Follows(S, x, edges) == \A e \in edges : e[1] \in S \cup {x} => e[2] \in S

Reaches(nodes, edges) ==
  {p \in nodes \X nodes : \A S \in SUBSET nodes : Follows(S, p[1], edges) => p[2] \in S}

(* A mutant: components of two resources are left out. *)
CycleMembersOfThree(nodes, edges) ==
  LET reaches == Reaches(nodes, edges)
  IN  {n \in nodes : \E m, l \in nodes \ {n} :
                        m # l /\ {<<n, m>>, <<m, n>>, <<n, l>>, <<l, n>>} \subseteq reaches}

(* What CircularDependency names: the strongly connected components of     *)
(* more than one resource.                                                 *)
CycleMembers(nodes, edges) ==
  LET reaches == Reaches(nodes, edges)
  IN  {n \in nodes : \E m \in nodes \ {n} : {<<n, m>>, <<m, n>>} \subseteq reaches}

(* resolve_region: the provider's name of a region, or the name itself. *)
ResolveRegion(logical, mapping) ==
  IF logical \in DOMAIN mapping THEN mapping[logical] ELSE logical

(* BTreeMap keeps groups sorted by provider, then region. *)
Before(p, q) == p[1] < q[1] \/ (p[1] = q[1] /\ p[2] < q[2])

(* assemble_by_provider_region: resources that lack a provider or a region *)
(* are left out; the others keep their order inside their group.           *)
AssembleByProviderRegion(topo, provider, region, mapping) ==
  LET Placed(r)    == r \in DOMAIN provider /\ r \in DOMAIN region
      Placement(r) == <<provider[r], ResolveRegion(region[r], mapping)>>
      placed       == {r \in Range(topo) : Placed(r)}
      placements   == {Placement(r) : r \in placed}
      Group(p)     == [placement |-> p,
                       resources |-> InOrder({r \in placed : Placement(r) = p}, Earlier(topo))]
      sorted       == InOrder(placements, {e \in placements \X placements : Before(e[1], e[2])})
  IN  [i \in DOMAIN sorted |-> Group(sorted[i])]
============================================================================
