--------------------------- MODULE CompileProofs ---------------------------
(***************************************************************************)
(* Proofs about compilations, of any templates, modules, properties and    *)
(* flags: what the output shows for a variable, the order of its blocks,   *)
(* that the output file gets all of it or is left alone, and that exactly  *)
(* the circular dependencies are refused.                                  *)
(*                                                                         *)
(* In the order of the steps: facts about graphs and lists; what is read   *)
(* from texts; the merged files, the flags and the context, which gives    *)
(* every variable its meaning; the arms; the order of the resources, their *)
(* groups, and what was assembled from them so far.                        *)
(***************************************************************************)
EXTENDS CompileProperties, FiniteSetTheorems, TLAPS

(* Every member of S has an edge from a member of S. *)
Stuck(S, arcs) == \A r \in S : \E d \in S : <<d, r>> \in arcs

(* The order of numbers as the relation the library knows. *)
LEMMA BelowIsLess ==
  ASSUME NEW x \in Nat, NEW y \in Nat, y < x
  PROVE  <<y, x>> \in OpToRel(<, Nat)
  <1>1. /\ <<y, x>> \in Nat \X Nat
        /\ <<y, x>>[1] = y
        /\ <<y, x>>[2] = x
    OBVIOUS
  <1>2. <<y, x>>[1] < <<y, x>>[2]
    BY <1>1
  <1>3. <<y, x>> \in {ss \in Nat \X Nat : ss[1] < ss[2]}
    BY <1>1, <1>2, Zenon
  <1> QED BY <1>3, Zenon DEF OpToRel

(* Every nonempty set of numbers has a least member. *)
LEMMA LeastExists ==
  ASSUME NEW T \in SUBSET Nat, T # {}
  PROVE  \E m \in T : \A k \in T : m <= k
  <1>1. PICK m \in T : \A k \in T : ~ (<<k, m>> \in OpToRel(<, Nat))
    BY NatLessThanWellFounded, WFMin
  <1>2. \A k \in T : ~ (k < m)
    BY <1>1, BelowIsLess
  <1> QED BY <1>2

(* An order has every node at exactly one place. *)
LEMMA OrdersAreOnto ==
  ASSUME NEW nodes, IsFiniteSet(nodes), NEW arcs, NEW s \in TopoOrders(nodes, arcs)
  PROVE  \A r \in nodes : \E i \in 1 .. Cardinality(nodes) : s[i] = r
  <1> DEFINE D == 1 .. Cardinality(nodes)
  <1>1. Cardinality(nodes) \in Nat
    BY FS_CardinalityType
  <1>2. s \in [D -> nodes] /\ \A i, j \in D : i # j => s[i] # s[j]
    BY DEF TopoOrders, SetToSeqs
  <1>3. s \in Injection(D, nodes)
    BY <1>2 DEF Injection, IsInjective
  <1>4. IsFiniteSet(D) /\ Cardinality(D) = Cardinality(nodes)
    BY <1>1, FS_Interval
  <1> HIDE DEF D
  <1>5. s \in Surjection(D, nodes)
    BY <1>3, <1>4, FS_Injection
  <1> QED BY <1>5 DEF Surjection, D

(* Where there is an order nothing is stuck: the first member in the order *)
(* would need a member before it.                                          *)
LEMMA OrderedNotStuck ==
  ASSUME NEW nodes, IsFiniteSet(nodes), NEW arcs, NEW s \in TopoOrders(nodes, arcs),
         NEW S \in SUBSET nodes, Stuck(S, arcs)
  PROVE  S = {}
  <1> DEFINE D      == 1 .. Cardinality(nodes)
             Places == {i \in D : s[i] \in S}
  <1>1. Cardinality(nodes) \in Nat
    BY FS_CardinalityType
  <1>2. /\ s \in [D -> nodes]
        /\ \A i, j \in D : i <= j => <<s[j], s[i]>> \notin arcs
    BY DEF TopoOrders, SetToSeqs
  <1>3. ASSUME Places # {}
        PROVE  FALSE
    <2>1. PICK i \in Places : \A k \in Places : i <= k
      <3>1. Places \in SUBSET Nat /\ Places # {}
        BY <1>1, <1>3
      <3> HIDE DEF Places
      <3> QED BY <3>1, LeastExists
    <2>2. PICK d \in S : <<d, s[i]>> \in arcs
      BY DEF Stuck
    <2>3. PICK j \in D : s[j] = d
      BY OrdersAreOnto
    <2>4. i <= j
      BY <2>1, <2>3
    <2> QED BY <1>2, <2>2, <2>3, <2>4
  <1> QED BY <1>3, OrdersAreOnto

(* Where there is no order something is stuck: what is left when a longest *)
(* beginning of an order cannot be continued.                              *)
LEMMA UnorderedStuck ==
  ASSUME NEW nodes, IsFiniteSet(nodes), NEW arcs, TopoOrders(nodes, arcs) = {}
  PROVE  \E S \in SUBSET nodes : S # {} /\ Stuck(S, arcs)
  <1> DEFINE N == Cardinality(nodes)
             Begins(k, f) ==
               /\ f \in [1 .. k -> nodes]
               /\ \A i, j \in 1 .. k : i # j => f[i] # f[j]
               /\ \A i \in 1 .. k : \A d \in nodes :
                    <<d, f[i]>> \in arcs => \E j \in 1 .. (i - 1) : f[j] = d
             Bad == {k \in 0 .. N : \A f : ~ Begins(k, f)}
  <1>1. N \in Nat
    BY FS_CardinalityType
  <1>2. N \in Bad
    <2>1. ASSUME NEW f, Begins(N, f)
          PROVE  FALSE
      <3>1. f \in SetToSeqs(nodes)
        BY <2>1 DEF SetToSeqs
      <3>2. DOMAIN f = 1 .. N
        BY <2>1
      <3>3. ASSUME NEW i \in 1 .. N, NEW j \in 1 .. N, i <= j, <<f[j], f[i]>> \in arcs
            PROVE  FALSE
        <4>1. PICK k \in 1 .. (i - 1) : f[k] = f[j]
          BY <2>1, <3>3
        <4>2. k # j /\ k \in 1 .. N
          BY <1>1, <3>3
        <4> QED BY <2>1, <4>1, <4>2
      <3> HIDE DEF N
      <3>4. f \in TopoOrders(nodes, arcs)
        BY <3>1, <3>2, <3>3, Zenon DEF TopoOrders
      <3> QED BY <3>4
    <2> HIDE DEF N, Begins
    <2> QED BY <1>1, <2>1
  <1>3. PICK k \in Bad : \A m \in Bad : k <= m
    <2>1. Bad \in SUBSET Nat /\ Bad # {}
      BY <1>1, <1>2
    <2> HIDE DEF Bad
    <2> QED BY <2>1, LeastExists
  <1>4. k \in 0 .. N /\ \A f : ~ Begins(k, f)
    OBVIOUS
  <1>5. k # 0
    <2>1. Begins(0, <<>>)
      <3>1. 1 .. 0 = {} /\ <<>> \in [1 .. 0 -> nodes]
        BY SMT
      <3> QED BY <3>1
    <2> HIDE DEF Begins
    <2> QED BY <1>4, <2>1
  <1>6. k - 1 \in 0 .. N /\ k - 1 \in Nat /\ k - 1 < N
    BY <1>1, <1>4, <1>5
  <1>7. PICK f : Begins(k - 1, f)
    <2>1. k - 1 \notin Bad
      <3> HIDE DEF Bad
      <3> QED BY <1>1, <1>3, <1>4, <1>6
    <2> HIDE DEF Begins
    <2> QED BY <1>6, <2>1
  <1> DEFINE Put  == {f[i] : i \in 1 .. (k - 1)}
             Rest == nodes \ Put
  <1>8. Rest # {}
    <2>1. f \in Surjection(1 .. (k - 1), Put)
      BY <1>7 DEF Surjection
    <2>2. Cardinality(Put) <= k - 1
      <3> HIDE DEF Put
      <3> QED BY <1>6, <2>1, FS_SurjCardinalityBound DEF ExistsSurjection
    <2>3. Put \in SUBSET nodes
      BY <1>7
    <2>4. Put # nodes
      <3>1. CASE Put = nodes
        <4>1. N <= k - 1
          BY <2>2, <3>1
        <4> HIDE DEF N
        <4> QED BY <1>1, <1>4, <1>6, <4>1
      <3> QED BY <3>1
    <2> QED BY <2>3, <2>4
  <1>9. ASSUME NEW r \in Rest, \A d \in Rest : <<d, r>> \notin arcs
        PROVE  FALSE
    <2> DEFINE g == [i \in 1 .. k |-> IF i = k THEN r ELSE f[i]]
    <2>1. k \in 1 .. k /\ k \in Nat
      BY <1>1, <1>4, <1>5
    <2>2. /\ g \in [1 .. k -> nodes]
          /\ g[k] = r
          /\ \A i \in 1 .. (k - 1) : g[i] = f[i] /\ f[i] # r /\ i # k
          /\ 1 .. k = (1 .. (k - 1)) \cup {k}
      BY <1>7, <1>9, <2>1
    <2> HIDE DEF g
    <2>3. ASSUME NEW i \in 1 .. k, NEW j \in 1 .. k, i # j
          PROVE  g[i] # g[j]
      BY <1>7, <2>2, <2>3
    <2>4. ASSUME NEW i \in 1 .. k, NEW d \in nodes, <<d, g[i]>> \in arcs
          PROVE  \E j \in 1 .. (i - 1) : g[j] = d
      <3>1. CASE i = k
        <4>1. d \in Put
          BY <1>9, <2>2, <2>4, <3>1
        <4> QED BY <2>2, <3>1, <4>1
      <3>2. CASE i \in 1 .. (k - 1)
        <4>1. PICK j \in 1 .. (i - 1) : f[j] = d
          BY <1>7, <2>2, <2>4, <3>2
        <4>2. j \in 1 .. (k - 1)
          BY <2>1, <3>2
        <4> QED BY <2>2, <4>1, <4>2
      <3> QED BY <2>2, <3>1, <3>2
    <2>5. Begins(k, g)
      BY <2>2, <2>3, <2>4
    <2> HIDE DEF Begins
    <2> QED BY <1>4, <2>5
  <1>10. Stuck(Rest, arcs)
    BY <1>9 DEF Stuck
  <1> QED BY <1>8, <1>10

(* Which pairs of nodes reach one another. *)
LEMMA ReachesMeans ==
  ASSUME NEW nodes, NEW arcs, NEW x \in nodes, NEW y \in nodes
  PROVE  <<x, y>> \in Reaches(nodes, arcs)
           <=> \A S \in SUBSET nodes : Follows(S, x, arcs) => y \in S
  <1>1. /\ <<x, y>> \in nodes \X nodes
        /\ <<x, y>>[1] = x
        /\ <<x, y>>[2] = y
    OBVIOUS
  <1>2. <<x, y>> \in Reaches(nodes, arcs)
          <=> \A S \in SUBSET nodes : Follows(S, <<x, y>>[1], arcs) => <<x, y>>[2] \in S
    BY <1>1, Zenon DEF Reaches
  <1> QED BY <1>1, <1>2, Zenon

(* A path may be continued. *)
LEMMA ReachesComposes ==
  ASSUME NEW nodes, NEW arcs, NEW x \in nodes, NEW y \in nodes, NEW z \in nodes,
         <<x, y>> \in Reaches(nodes, arcs), <<y, z>> \in Reaches(nodes, arcs)
  PROVE  <<x, z>> \in Reaches(nodes, arcs)
  <1>1. ASSUME NEW S \in SUBSET nodes, Follows(S, x, arcs)
        PROVE  z \in S
    <2>1. y \in S
      BY <1>1, ReachesMeans
    <2>2. Follows(S, y, arcs)
      BY <1>1, <2>1 DEF Follows
    <2> QED BY <2>2, ReachesMeans
  <1> QED BY <1>1, ReachesMeans

(* An edge is a path. *)
LEMMA EdgeReaches ==
  ASSUME NEW nodes, NEW arcs, NEW x \in nodes, NEW y \in nodes, <<x, y>> \in arcs
  PROVE  <<x, y>> \in Reaches(nodes, arcs)
  <1>1. <<x, y>>[1] = x /\ <<x, y>>[2] = y
    OBVIOUS
  <1>2. \A S \in SUBSET nodes : Follows(S, x, arcs) => y \in S
    BY <1>1 DEF Follows
  <1> QED BY <1>2, ReachesMeans

(* The members a circular dependency names all wait for one another: the   *)
(* last step to a member comes from another one.                           *)
LEMMA MembersStuck ==
  ASSUME NEW nodes, NEW arcs, arcs \subseteq nodes \X nodes
  PROVE  Stuck(CycleMembers(nodes, arcs), arcs)
  <1> DEFINE reaches == Reaches(nodes, arcs)
             C == CycleMembers(nodes, arcs)
  <1>1. SUFFICES ASSUME NEW n \in C
                 PROVE  \E d \in C : <<d, n>> \in arcs
    BY DEF Stuck
  <1>2. n \in nodes /\ \E m \in nodes \ {n} : <<n, m>> \in reaches /\ <<m, n>> \in reaches
    BY Zenon DEF CycleMembers
  <1>3. PICK m \in nodes \ {n} : <<n, m>> \in reaches /\ <<m, n>> \in reaches
    BY <1>2
  <1>4. ASSUME NEW d \in nodes, <<n, d>> \in reaches, <<d, n>> \in reaches
        PROVE  d \in C
    <2>1. CASE d = n
      BY <2>1
    <2>2. CASE d # n
      <3>1. n \in nodes \ {d} /\ {<<d, n>>, <<n, d>>} \subseteq reaches
        BY <1>2, <1>4, <2>2
      <3> QED BY <3>1, Zenon DEF CycleMembers
    <2> QED BY <2>1, <2>2
  <1> HIDE DEF reaches, C
  <1>5. ASSUME \A d \in C : <<d, n>> \notin arcs
        PROVE  FALSE
    <2> DEFINE S == {y \in nodes \ {n} : <<m, y>> \in reaches}
    <2>1. ASSUME NEW e \in arcs, e[1] \in S \cup {m}
          PROVE  e[2] \in S
      <3>1. e[1] \in nodes /\ e[2] \in nodes /\ e = <<e[1], e[2]>>
        BY <2>1
      <3>2. <<e[1], e[2]>> \in reaches
        BY <3>1, EdgeReaches DEF reaches
      <3>3. <<m, e[2]>> \in reaches
        <4>1. CASE e[1] = m
          BY <3>2, <4>1
        <4>2. CASE e[1] \in S
          <5>1. <<m, e[1]>> \in reaches
            BY <4>2
          <5> QED BY <3>1, <3>2, <5>1, ReachesComposes DEF reaches
        <4> QED BY <2>1, <4>1, <4>2
      <3>4. ASSUME e[2] = n
            PROVE  FALSE
        <4>1. <<n, e[1]>> \in reaches
          <5>1. CASE e[1] = m
            BY <1>3, <5>1
          <5>2. CASE e[1] \in S
            <6>1. <<m, e[1]>> \in reaches
              BY <5>2
            <6> QED BY <1>2, <1>3, <3>1, <6>1, ReachesComposes DEF reaches
          <5> QED BY <2>1, <5>1, <5>2
        <4>2. e[1] \in C
          BY <1>4, <3>1, <3>2, <3>4, <4>1
        <4> QED BY <1>5, <3>1, <3>4, <4>2
      <3> QED BY <3>1, <3>3, <3>4
    <2>2. S \in SUBSET nodes /\ n \notin S
      OBVIOUS
    <2> HIDE DEF S
    <2>3. Follows(S, m, arcs)
      BY <2>1 DEF Follows
    <2> QED BY <1>2, <1>3, <2>2, <2>3, ReachesMeans DEF reaches
  <1> QED BY <1>5

(* Members that are stuck make some component of more than one, or one of  *)
(* them waits for itself: of the members choose one that the fewest others *)
(* reach; whoever it waits for is reached by as many, and so by itself.    *)
LEMMA StuckHasMembers ==
  ASSUME NEW nodes, IsFiniteSet(nodes), NEW arcs, arcs \subseteq nodes \X nodes,
         NEW S \in SUBSET nodes, S # {}, Stuck(S, arcs), \A r \in S : <<r, r>> \notin arcs
  PROVE  CycleMembers(nodes, arcs) # {}
  <1> DEFINE Reaching(n) == {m \in S : <<m, n>> \in Reaches(nodes, arcs)}
             Sizes      == {Cardinality(Reaching(n)) : n \in S}
  <1>1. \A n \in S : IsFiniteSet(Reaching(n)) /\ Cardinality(Reaching(n)) \in Nat
    BY FS_Subset, FS_CardinalityType
  <1>2. Sizes \in SUBSET Nat /\ Sizes # {}
    BY <1>1
  <1>3. PICK least \in Sizes : \A k \in Sizes : least <= k
    BY <1>2, LeastExists
  <1>4. PICK n \in S : \A m \in S : Cardinality(Reaching(n)) <= Cardinality(Reaching(m))
    BY <1>3
  <1>5. ASSUME NEW d \in Reaching(n)
        PROVE  Reaching(d) = Reaching(n)
    <2>1. d \in S /\ <<d, n>> \in Reaches(nodes, arcs)
      OBVIOUS
    <2>2. Reaching(d) \subseteq Reaching(n)
      BY <2>1, ReachesComposes
    <2> HIDE DEF Reaching
    <2>3. Cardinality(Reaching(n)) <= Cardinality(Reaching(d))
      BY <1>4, <2>1
    <2>4. Cardinality(Reaching(d)) <= Cardinality(Reaching(n))
          /\ (Cardinality(Reaching(d)) = Cardinality(Reaching(n)) => Reaching(d) = Reaching(n))
      BY <1>1, <2>1, <2>2, FS_Subset
    <2> QED BY <1>1, <2>1, <2>3, <2>4
  <1>6. PICK d \in S : <<d, n>> \in arcs
    BY DEF Stuck
  <1>7. d \in Reaching(n)
    BY <1>6, EdgeReaches
  <1>8. PICK e \in S : <<e, d>> \in arcs
    BY DEF Stuck
  <1>9. e # d /\ e \in Reaching(d)
    BY <1>8, EdgeReaches
  <1>10. e \in Reaching(n)
    BY <1>5, <1>7, <1>9
  <1>11. d \in Reaching(e)
    BY <1>5, <1>7, <1>10
  <1>12. /\ d \in nodes /\ e \in nodes \ {d}
         /\ {<<d, e>>, <<e, d>>} \subseteq Reaches(nodes, arcs)
    BY <1>9, <1>11
  <1>13. d \in CycleMembers(nodes, arcs)
    BY <1>12, Zenon DEF CycleMembers
  <1> QED BY <1>13

----------------------------------------------------------------------------
(* Places in lists: the least and the greatest of some of them.            *)

LEMMA LeastPlace ==
  ASSUME NEW places \in SUBSET Nat, places # {}
  PROVE  Min(places) \in places /\ \A k \in places : Min(places) <= k
  BY LeastExists DEF Min

LEMMA GreatestPlace ==
  ASSUME NEW n \in Nat, NEW places \in SUBSET (1..n), places # {}
  PROVE  Max(places) \in places /\ \A k \in places : k <= Max(places)
  <1> DEFINE above == {m \in 0..n : \A k \in places : k <= m}
  <1>1. above \in SUBSET Nat /\ n \in above
    OBVIOUS
  <1>2. PICK m \in above : \A k \in above : m <= k
    <2> HIDE DEF above
    <2> QED BY <1>1, LeastExists
  <1>3. m \in places
    <2>1. SUFFICES ASSUME m \notin places PROVE FALSE
      OBVIOUS
    <2>2. \A k \in places : k <= m - 1
      BY <2>1
    <2>3. PICK k \in places : TRUE
      OBVIOUS
    <2>4. m - 1 \in 0..n
      BY <2>2, <2>3
    <2>5. m - 1 \in above
      BY <2>2, <2>4
    <2> QED BY <1>2, <2>5
  <1>4. \A k \in places : m >= k
    OBVIOUS
  <1> QED BY <1>3, <1>4 DEF Max

LEMMA ListPlaces ==
  ASSUME NEW s, IsList(s)
  PROVE  DOMAIN s = 1..Len(s) /\ Len(s) \in Nat
  BY DEF IsList
----------------------------------------------------------------------------
(* Texts. *)

(* The bodies of a tree are lists, as deep as the parsers look. *)
LEMMA BodiesAreLists ==
  ASSUME NEW t \in (ModuleTexts \cup TemplateTexts) \ {Unreadable}
  PROVE  /\ IsList(Source(t).blocks)
         /\ \A m \in Range(Source(t).blocks) :
              /\ m.blocks \in BodiesOf(Source(t)) /\ IsList(m.blocks)
              /\ \A s \in Range(m.blocks) :
                   /\ s.blocks \in BodiesOf(Source(t)) /\ IsList(s.blocks)
                   /\ \A c \in Range(s.blocks) :
                        c.blocks \in BodiesOf(Source(t)) /\ IsList(c.blocks)
  <1> DEFINE top      == {Source(t).blocks}
             inside   == Inner(top)
             sections == Inner(inside)
             cases    == Inner(sections)
  <1>1. BodiesOf(Source(t)) = top \cup inside \cup sections \cup cases \cup Inner(cases)
    BY DEF BodiesOf
  <1>2. \A body \in BodiesOf(Source(t)) : IsList(body)
    BY TextsAssumption
  <1>3. ASSUME NEW bodies, NEW body \in bodies, NEW b \in Range(body)
        PROVE  b.blocks \in Inner(bodies)
    BY DEF Inner
  <1> HIDE DEF inside, sections, cases
  <1>4. \A m \in Range(Source(t).blocks) : m.blocks \in inside
    BY <1>3 DEF inside
  <1>5. \A body \in inside : \A s \in Range(body) : s.blocks \in sections
    BY <1>3 DEF sections
  <1>6. \A body \in sections : \A c \in Range(body) : c.blocks \in cases
    BY <1>3 DEF cases
  <1> QED BY <1>1, <1>2, <1>4, <1>5, <1>6

(* The first block of a name. *)
LEMMA FirstThere ==
  ASSUME NEW body, IsList(body), NEW ident, ~Lacks(body, ident)
  PROVE  FirstOf(body, ident) \in Range(body) /\ FirstOf(body, ident).ident = ident
  <1> DEFINE places == Named(body, ident)
  <1>1. places \in SUBSET Nat /\ places # {}
    BY ListPlaces DEF Lacks, Named
  <1>2. Min(places) \in places
    <2> HIDE DEF places
    <2> QED BY <1>1, LeastPlace
  <1> QED BY <1>2 DEF FirstOf, Named, Range

(* The body of the template in a text. *)
TemplateBody(t) == FirstOf(Source(t).blocks, "template").blocks

(* The places of the resources of a name. *)
Places(t, r) == {k \in Named(TemplateBody(t), "resource") : Head(TemplateBody(t)[k].labels) = r}

LEMMA ParsedTemplate ==
  ASSUME NEW t \in TemplateTexts \ {Unreadable}, Accepted(TemplateIn[t])
  PROVE  /\ TemplateIn[t] = ParseTemplate(t)
         /\ IsList(TemplateBody(t))
         /\ DOMAIN TemplateIn[t].resources = Named(TemplateBody(t), "resource")
         /\ \A k \in Named(TemplateBody(t), "resource") :
              /\ TemplateIn[t].resources[k] = ParseResource(TemplateBody(t)[k])
              /\ TemplateBody(t)[k].labels # <<>>
              /\ TemplateBody(t)[k] \in Range(TemplateBody(t))
              /\ IsList(TemplateBody(t)[k].blocks)
              /\ Head(TemplateBody(t)[k].labels) # Bare
              /\ \A b \in Range(TemplateBody(t)[k].blocks) :
                   b.ident = "inputs" => \A i \in DOMAIN b.attrs : IsBinding(b.attrs[i])
  <1> DEFINE tree     == Source(t)
             template == FirstOf(tree.blocks, "template")
             blocks   == template.blocks
             declared == Named(blocks, "resource")
  <1>1. TemplateIn[t] = ParseTemplate(t)
    BY DEF TemplateIn
  <1>2. "unknown" # "none" /\ \A e, b : Accepted(Refused(e, b)) <=> e = "none"
    BY DEF Accepted, Refused
  <1>3. ~Lacks(tree.blocks, "template") /\ ParseTemplate(t) = ParseTemplateBlock(template)
    BY <1>1, <1>2 DEF ParseTemplate
  <1>4. template \in Range(tree.blocks) /\ IsList(blocks) /\ blocks \in BodiesOf(tree)
    BY <1>3, BodiesAreLists, FirstThere
  <1>5. /\ \A k \in declared : blocks[k].labels # <<>>
        /\ ParseTemplateBlock(template) =
             [error      |-> "none",
              name       |-> Head(template.labels),
              parameters |-> ParseParameters(FirstOf(blocks, "parameters")),
              resources  |-> [k \in declared |-> ParseResource(blocks[k])],
              outputs    |-> DOMAIN FirstOf(blocks, "outputs").attrs]
    BY <1>1, <1>2, <1>3 DEF ParseTemplateBlock
  <1>6. TemplateIn[t].resources = [k \in declared |-> ParseResource(blocks[k])]
    BY <1>1, <1>3, <1>5
  <1>7. \A k \in declared : blocks[k] \in Range(blocks) /\ blocks[k].ident = "resource"
    BY DEF Named, Range
  <1>8. \A k \in declared : IsList(blocks[k].blocks) /\ blocks[k].blocks \in BodiesOf(tree)
    BY <1>4, <1>7, BodiesAreLists
  <1>9. \A k \in declared : Head(blocks[k].labels) # Bare
    BY <1>4, <1>5, <1>7, WrittenAssumption
  <1>10. \A k \in declared : \A b \in Range(blocks[k].blocks) :
           b.ident = "inputs" => \A i \in DOMAIN b.attrs : IsBinding(b.attrs[i])
    BY <1>8, WrittenAssumption
  <1> QED BY <1>1, <1>4, <1>5, <1>6, <1>7, <1>8, <1>9, <1>10 DEF TemplateBody

(* A text has finitely many resources. *)
LEMMA NamesFinite ==
  ASSUME NEW t \in TemplateTexts \ {Unreadable}, Accepted(TemplateIn[t])
  PROVE  IsFiniteSet(Names(TemplateIn[t]))
  <1> DEFINE resources0 == TemplateIn[t].resources
             Name(k)    == resources0[k].name
  <1>1. DOMAIN resources0 \subseteq 1..Len(TemplateBody(t)) /\ Len(TemplateBody(t)) \in Nat
    BY ParsedTemplate, ListPlaces DEF Named
  <1>2. IsFiniteSet(DOMAIN resources0)
    <2>1. IsFiniteSet(1..Len(TemplateBody(t)))
      BY <1>1, FS_Interval
    <2> HIDE DEF resources0
    <2> QED BY <1>1, <2>1, FS_Subset
  <1>3. Names(TemplateIn[t]) = {Name(k) : k \in DOMAIN resources0}
    BY DEF Names, Range
  <1> HIDE DEF Name
  <1>4. IsFiniteSet({Name(k) : k \in DOMAIN resources0})
    <2> DEFINE f == [k \in DOMAIN resources0 |-> Name(k)]
    <2>1. f \in Surjection(DOMAIN resources0, {Name(k) : k \in DOMAIN resources0})
      BY DEF Surjection
    <2> HIDE DEF f
    <2> QED BY <1>2, <2>1, FS_Surjection
  <1> QED BY <1>3, <1>4

(* The resource of a name is the last one the text declares.               *)
LEMMA LastDeclared ==
  ASSUME NEW t \in TemplateTexts \ {Unreadable}, Accepted(TemplateIn[t]),
         NEW r \in Names(TemplateIn[t])
  PROVE  /\ Max(Places(t, r)) \in Named(TemplateBody(t), "resource")
         /\ LastDeclaration(TemplateIn[t].resources, r) = ParseResource(TemplateBody(t)[Max(Places(t, r))])
         /\ LastDeclaration(TemplateIn[t].resources, r) \in Range(TemplateIn[t].resources)
         /\ LastDeclaration(TemplateIn[t].resources, r).name = r
         /\ r # Bare
  <1> DEFINE resources0 == TemplateIn[t].resources
             places     == {k \in DOMAIN resources0 : resources0[k].name = r}
  <1>1. /\ DOMAIN resources0 = Named(TemplateBody(t), "resource")
        /\ \A k \in DOMAIN resources0 : resources0[k] = ParseResource(TemplateBody(t)[k])
    BY ParsedTemplate
  <1>2. \A resource : ParseResource(resource).name = Head(resource.labels)
    BY DEF ParseResource
  <1>3. places = Places(t, r)
    <2> HIDE DEF resources0
    <2>1. \A k : k \in places <=> k \in Places(t, r)
      BY <1>1, <1>2 DEF Places
    <2> HIDE DEF places
    <2> QED BY <2>1
  <1>4. places # {} /\ places \in SUBSET (1..Len(TemplateBody(t))) /\ Len(TemplateBody(t)) \in Nat
    <2>1. places # {}
      BY DEF Names, Range
    <2> HIDE DEF resources0
    <2> QED BY <1>1, <2>1, ParsedTemplate, ListPlaces DEF Named
  <1>5. Max(places) \in places
    <2> HIDE DEF places
    <2> QED BY <1>4, GreatestPlace
  <1>6. LastDeclaration(resources0, r) = resources0[Max(places)]
    BY DEF LastDeclaration
  <1> HIDE DEF places
  <1>8. Max(places) \in DOMAIN resources0 /\ resources0[Max(places)].name = r
    BY <1>5 DEF places
  <1> HIDE DEF resources0
  <1>7. r # Bare
    BY <1>1, <1>2, <1>8, ParsedTemplate
  <1> QED BY <1>1, <1>3, <1>6, <1>7, <1>8 DEF Range, resources0

----------------------------------------------------------------------------
(* The properties files.  MergeFiles keeps a leaf until a later file says  *)
(* something of its path.                                                  *)

(* f has the merged documents of the first files, one after the other. *)
Merging(f, files, n) ==
  /\ f = [k \in 0..n |-> f[k]]
  /\ f[0] = Root(Null)
  /\ \A k \in 1..n : f[k] = DeepMerge(f[k - 1], files[k])

LEMMA MergingExists ==
  ASSUME NEW files, NEW n \in Nat
  PROVE  \E f : Merging(f, files, n)
  <1> DEFINE Bad == {m \in 0..n : ~\E f : Merging(f, files, m)}
  <1>1. SUFFICES ASSUME Bad # {} PROVE FALSE
    <2>1. n \notin Bad => \E f : Merging(f, files, n)
      OBVIOUS
    <2> HIDE DEF Bad
    <2> QED BY <2>1
  <1>2. Bad \in SUBSET Nat
    OBVIOUS
  <1>3. PICK m \in Bad : \A k \in Bad : m <= k
    <2> HIDE DEF Bad
    <2> QED BY <1>1, <1>2, LeastExists
  <1>4. CASE m = 0
    <2> DEFINE f == [k \in 0..0 |-> Root(Null)]
    <2>1. f[0] = Root(Null) /\ 1..0 = {} /\ f = [k \in 0..0 |-> f[k]]
      OBVIOUS
    <2> HIDE DEF f
    <2>2. Merging(f, files, 0)
      BY <2>1 DEF Merging
    <2> QED BY <1>3, <1>4, <2>2
  <1>5. CASE m # 0
    <2>1. m - 1 \in 0..n /\ m - 1 \in Nat /\ m \in Nat
      BY <1>5
    <2>2. m - 1 \notin Bad
      <3> HIDE DEF Bad
      <3> QED BY <1>2, <1>3, <2>1
    <2>3. PICK f : Merging(f, files, m - 1)
      BY <2>1, <2>2
    <2> DEFINE g == [k \in 0..m |-> IF k = m THEN DeepMerge(f[m - 1], files[m]) ELSE f[k]]
    <2>4. \A k \in 0..(m - 1) : g[k] = f[k] /\ k # m /\ k \in 0..m
      BY <2>1
    <2>5. g[m] = DeepMerge(f[m - 1], files[m]) /\ g = [k \in 0..m |-> g[k]]
      BY <2>1
    <2> HIDE DEF g
    <2>6. \A k \in 1..m : g[k] = DeepMerge(g[k - 1], files[k])
      <3>1. \A k \in 1..m : k = m \/ k \in 1..(m - 1)
        BY <2>1
      <3>2. \A k \in 1..m : k - 1 \in 0..(m - 1)
        BY <2>1
      <3>3. \A k \in 1..(m - 1) : k \in 0..(m - 1)
        BY <2>1
      <3> QED BY <2>1, <2>3, <2>4, <2>5, <3>1, <3>2, <3>3 DEF Merging
    <2>7. g[0] = Root(Null)
      BY <2>1, <2>3, <2>4 DEF Merging
    <2>8. Merging(g, files, m)
      BY <2>5, <2>6, <2>7 DEF Merging
    <2> QED BY <1>3, <2>8
  <1> QED BY <1>4, <1>5

LEMMA MergeFilesMerges ==
  ASSUME NEW files, Len(files) \in Nat
  PROVE  \E f : Merging(f, files, Len(files)) /\ MergeFiles(files) = f[Len(files)]
  <1> DEFINE n == Len(files)
             merged == CHOOSE f : f = [k \in 0..n |-> IF k = 0 THEN Root(Null) ELSE DeepMerge(f[k - 1], files[k])]
  <1>1. MergeFiles(files) = merged[n]
    BY DEF MergeFiles
  <1> HIDE DEF n
  <1>2. n \in Nat
    BY DEF n
  <1>3. \A f : Merging(f, files, n) <=> f = [k \in 0..n |-> IF k = 0 THEN Root(Null) ELSE DeepMerge(f[k - 1], files[k])]
    <2>1. SUFFICES ASSUME NEW f
                   PROVE  Merging(f, files, n) <=>
                          f = [k \in 0..n |-> IF k = 0 THEN Root(Null) ELSE DeepMerge(f[k - 1], files[k])]
      OBVIOUS
    <2>2. \A k \in 0..n : k = 0 \/ (k # 0 /\ k \in 1..n)
      BY <1>2
    <2>3. 0 \in 0..n /\ \A k \in 1..n : k # 0 /\ k \in 0..n
      BY <1>2
    <2> QED BY <2>2, <2>3 DEF Merging
  <1>4. PICK f : Merging(f, files, n)
    BY <1>2, MergingExists
  <1>5. Merging(merged, files, n)
    BY <1>3, <1>4
  <1> HIDE DEF merged
  <1> QED BY <1>1, <1>5 DEF n

(* File j is the last of the first k to say anything of p, and has a leaf there. *)
Decides(p, j, files, k) ==
  /\ p \in DOMAIN files[j]
  /\ \A i \in (j + 1)..k : \A q \in DOMAIN files[i] : ~Related(p, q)

LEMMA MergedMeans ==
  ASSUME NEW files, IsList(files), \A doc \in Range(files) : IsDocument(doc), NEW p, p # <<>>
  PROVE  /\ p \in DOMAIN MergeFiles(files) <=> \E j \in DOMAIN files : Decides(p, j, files, Len(files))
         /\ \A j \in DOMAIN files : Decides(p, j, files, Len(files)) => MergeFiles(files)[p] = files[j][p]
  <1> DEFINE n == Len(files)
             Means(f, k) == /\ p \in DOMAIN f[k] <=> \E j \in 1..k : Decides(p, j, files, k)
                            /\ \A j \in 1..k : Decides(p, j, files, k) => f[k][p] = files[j][p]
  <1>1. n \in Nat /\ DOMAIN files = 1..n
    BY ListPlaces
  <1>2. PICK f : Merging(f, files, n) /\ MergeFiles(files) = f[n]
    BY <1>1, MergeFilesMerges
  <1>3. \A j \in 1..n : p \in DOMAIN files[j] => Related(p, p)
    <2>1. SUFFICES ASSUME NEW j \in 1..n, p \in DOMAIN files[j] PROVE Related(p, p)
      OBVIOUS
    <2>2. IsList(p)
      BY <1>1, <2>1 DEF IsDocument, Range
    <2>3. Len(p) <= Len(p)
      BY <2>2 DEF IsList
    <2> QED BY <2>3 DEF Related, IsPrefix
  <1> HIDE DEF n
  <1> DEFINE Bad == {k \in 0..n : ~Means(f, k)}
  <1>4. Bad = {}
    <2>1. SUFFICES ASSUME Bad # {} PROVE FALSE
      OBVIOUS
    <2>2. Bad \in SUBSET Nat
      BY <1>1
    <2>3. PICK k \in Bad : \A m \in Bad : k <= m
      <3> HIDE DEF Bad
      <3> QED BY <2>1, <2>2, LeastExists
    <2>4. k \in 0..n /\ ~Means(f, k)
      BY <2>3
    <2>5. CASE k = 0
      <3>1. f[0] = Root(Null)
        BY <1>2 DEF Merging
      <3>2. p \notin DOMAIN f[0]
        BY <3>1 DEF Root
      <3>3. \A j : j \notin 1..0
        OBVIOUS
      <3> HIDE DEF Bad
      <3> QED BY <2>4, <2>5, <3>2, <3>3
    <2>6. CASE k # 0
      <3>1. k - 1 \in 0..n /\ k - 1 \in Nat /\ k \in 1..n
        BY <1>1, <2>4, <2>6
      <3>2. Means(f, k - 1)
        <4>1. k - 1 \notin Bad
          <5> HIDE DEF Bad
          <5> QED BY <2>2, <2>3, <3>1
        <4> QED BY <3>1, <4>1
      <3>3. f[k] = DeepMerge(f[k - 1], files[k])
        BY <1>2, <3>1 DEF Merging
      <3> DEFINE Silent == \A q \in DOMAIN files[k] : ~Related(p, q)
      <3>4. /\ p \in DOMAIN f[k] <=> p \in DOMAIN files[k] \/ (p \in DOMAIN f[k - 1] /\ Silent)
            /\ p \in DOMAIN files[k] => f[k][p] = files[k][p]
            /\ p \in DOMAIN f[k - 1] /\ Silent /\ p \notin DOMAIN files[k] => f[k][p] = f[k - 1][p]
        BY <3>3 DEF DeepMerge
      <3>5. p \in DOMAIN files[k] => ~Silent
        BY <1>3, <3>1
      <3>6. \A j \in 1..(k - 1) : Decides(p, j, files, k) <=> Decides(p, j, files, k - 1) /\ Silent
        <4>1. SUFFICES ASSUME NEW j \in 1..(k - 1)
                       PROVE  Decides(p, j, files, k) <=> Decides(p, j, files, k - 1) /\ Silent
          OBVIOUS
        <4>2. \A i : i \in (j + 1)..k <=> i \in (j + 1)..(k - 1) \/ i = k
          BY <3>1
        <4> QED BY <4>2 DEF Decides
      <3>7. Decides(p, k, files, k) <=> p \in DOMAIN files[k]
        <4>1. (k + 1)..k = {}
          BY <3>1
        <4> QED BY <4>1 DEF Decides
      <3>8. \A j : j \in 1..k <=> j \in 1..(k - 1) \/ j = k
        BY <3>1
      <3> HIDE DEF Silent
      <3>9. p \in DOMAIN f[k] <=> \E j \in 1..k : Decides(p, j, files, k)
        BY <3>2, <3>4, <3>6, <3>7, <3>8
      <3>10. \A j \in 1..k : Decides(p, j, files, k) => f[k][p] = files[j][p]
        BY <3>2, <3>4, <3>5, <3>6, <3>7, <3>8
      <3> QED BY <2>4, <3>9, <3>10
    <2> QED BY <2>5, <2>6
  <1>5. Means(f, n)
    <2>1. n \in 0..n
      BY <1>1
    <2> QED BY <1>4, <2>1
  <1> QED BY <1>1, <1>2, <1>5 DEF n

----------------------------------------------------------------------------
(* Orders. *)

(* s lists every member of S once. *)
Lists(s, S) ==
  /\ s \in Seq(S)
  /\ \A i, j \in DOMAIN s : s[i] = s[j] => i = j
  /\ \A r \in S : \E i \in DOMAIN s : s[i] = r

LEMMA OrderMeans ==
  ASSUME NEW nodes, IsFiniteSet(nodes), NEW arcs, NEW s \in TopoOrders(nodes, arcs)
  PROVE  /\ Lists(s, nodes) /\ Range(s) = nodes
         /\ \A i, j \in DOMAIN s : i <= j => <<s[j], s[i]>> \notin arcs
  <1>1. Cardinality(nodes) \in Nat
    BY FS_CardinalityType
  <1> DEFINE N == Cardinality(nodes)
  <1>2. /\ s \in [1 .. N -> nodes]
        /\ \A i, j \in 1 .. N : i # j => s[i] # s[j]
        /\ \A i, j \in DOMAIN s : i <= j => <<s[j], s[i]>> \notin arcs
    BY DEF TopoOrders, SetToSeqs
  <1>3. \A r \in nodes : \E i \in 1 .. N : s[i] = r
    BY OrdersAreOnto
  <1> HIDE DEF N
  <1>4. s \in Seq(nodes) /\ DOMAIN s = 1 .. N
    BY <1>1, <1>2 DEF N
  <1>5. \A r : r \in Range(s) <=> r \in nodes
    BY <1>2, <1>3, <1>4 DEF Range
  <1>6. Range(s) = nodes
    BY <1>5
  <1> QED BY <1>2, <1>3, <1>4, <1>6 DEF Lists

(* A walk over the members of a set. *)
LEMMA WalkMeans ==
  ASSUME NEW nodes, IsFiniteSet(nodes), NEW s \in SetToSeqs(nodes)
  PROVE  Lists(s, nodes) /\ Range(s) = nodes
  <1>1. s \in TopoOrders(nodes, {})
    BY DEF TopoOrders
  <1> QED BY <1>1, OrderMeans

(* Members of a list that come in an order, compared by their places.      *)
LEMMA EarlierMeans ==
  ASSUME NEW s, NEW x, NEW y
  PROVE  <<x, y>> \in Earlier(s)
           <=> \E i, j \in DOMAIN s : i < j /\ s[i] = x /\ s[j] = y
  <1> DEFINE Pairs == {e \in (DOMAIN s) \X (DOMAIN s) : e[1] < e[2]}
  <1>1. ASSUME NEW i \in DOMAIN s, NEW j \in DOMAIN s, i < j, s[i] = x, s[j] = y
        PROVE  <<x, y>> \in Earlier(s)
    <2>1. <<i, j>> \in Pairs /\ <<i, j>>[1] = i /\ <<i, j>>[2] = j
      BY <1>1
    <2> HIDE DEF Pairs
    <2>2. <<s[i], s[j]>> \in {<<s[e[1]], s[e[2]]>> : e \in Pairs}
      BY <2>1
    <2> QED BY <1>1, <2>2 DEF Earlier, Pairs
  <1>2. ASSUME <<x, y>> \in Earlier(s)
        PROVE  \E i, j \in DOMAIN s : i < j /\ s[i] = x /\ s[j] = y
    <2>1. PICK e \in Pairs : <<x, y>> = <<s[e[1]], s[e[2]]>>
      BY <1>2 DEF Earlier
    <2> QED BY <2>1
  <1> QED BY <1>1, <1>2

(* One of two members of a list comes first. *)
LEMMA EarlierTotal ==
  ASSUME NEW s, NEW S, Lists(s, S), NEW x \in S, NEW y \in S, x # y
  PROVE  <<x, y>> \in Earlier(s) \/ <<y, x>> \in Earlier(s)
  <1>1. PICK i \in DOMAIN s, j \in DOMAIN s : s[i] = x /\ s[j] = y
    BY DEF Lists
  <1>2. i \in Nat /\ j \in Nat /\ i # j
    BY <1>1 DEF Lists
  <1>3. i < j \/ j < i
    BY <1>2
  <1> QED BY <1>1, <1>3, EarlierMeans

(* Only one of them does. *)
LEMMA EarlierStrict ==
  ASSUME NEW s, NEW S, Lists(s, S), NEW x, NEW y, <<x, y>> \in Earlier(s)
  PROVE  <<y, x>> \notin Earlier(s)
  <1>1. SUFFICES ASSUME <<y, x>> \in Earlier(s) PROVE FALSE
    OBVIOUS
  <1>2. PICK i \in DOMAIN s, j \in DOMAIN s : i < j /\ s[i] = x /\ s[j] = y
    BY EarlierMeans
  <1>3. PICK k \in DOMAIN s, m \in DOMAIN s : k < m /\ s[k] = y /\ s[m] = x
    BY <1>1, EarlierMeans
  <1>4. i = m /\ j = k /\ i \in Nat /\ j \in Nat
    BY <1>2, <1>3 DEF Lists
  <1> QED BY <1>2, <1>3, <1>4

LEMMA FiniteMembers ==
  ASSUME NEW s, NEW S, s \in Seq(S)
  PROVE  IsFiniteSet(Range(s))
  <1>1. DOMAIN s = 1..Len(s) /\ Len(s) \in Nat
    OBVIOUS
  <1>2. IsFiniteSet(DOMAIN s)
    BY <1>1, FS_Interval
  <1>3. s \in Surjection(DOMAIN s, Range(s))
    BY DEF Surjection, Range
  <1> QED BY <1>2, <1>3, FS_Surjection

(* Some members of a list can be put into its order. *)
LEMMA PartOrdered ==
  ASSUME NEW s, NEW S, Lists(s, S), IsFiniteSet(S), NEW T \in SUBSET S
  PROVE  InOrder(T, Earlier(s)) \in TopoOrders(T, Earlier(s)) /\ IsFiniteSet(T)
  <1>1. IsFiniteSet(T)
    BY FS_Subset
  <1>2. ASSUME NEW U \in SUBSET T, U # {}, Stuck(U, Earlier(s))
        PROVE  FALSE
    <2> DEFINE places == {i \in DOMAIN s : s[i] \in U}
    <2>1. places \in SUBSET Nat /\ places # {}
      <3>1. PICK x \in U : TRUE
        BY <1>2
      <3>2. x \in S
        OBVIOUS
      <3>3. PICK i \in DOMAIN s : s[i] = x
        BY <3>2 DEF Lists
      <3>4. DOMAIN s \subseteq Nat
        BY DEF Lists
      <3> QED BY <3>3, <3>4
    <2>2. PICK i \in places : \A k \in places : i <= k
      <3> HIDE DEF places
      <3> QED BY <2>1, LeastExists
    <2>3. PICK d \in U : <<d, s[i]>> \in Earlier(s)
      BY <1>2, <2>2 DEF Stuck
    <2>4. PICK k \in DOMAIN s, m \in DOMAIN s : k < m /\ s[k] = d /\ s[m] = s[i]
      BY <2>3, EarlierMeans
    <2>5. m = i /\ k \in places /\ k \in Nat /\ m \in Nat
      BY <2>2, <2>4 DEF Lists
    <2> HIDE DEF places
    <2> QED BY <2>2, <2>4, <2>5
  <1>3. TopoOrders(T, Earlier(s)) # {}
    BY <1>1, <1>2, UnorderedStuck
  <1> QED BY <1>1, <1>3 DEF InOrder

(* They then keep that order among them. *)
LEMMA PartKeepsOrder ==
  ASSUME NEW s, NEW S, Lists(s, S), NEW T \in SUBSET S, IsFiniteSet(T),
         NEW u \in TopoOrders(T, Earlier(s))
  PROVE  Earlier(u) \subseteq Earlier(s)
  <1>1. /\ Lists(u, T)
        /\ \A i, j \in DOMAIN u : i <= j => <<u[j], u[i]>> \notin Earlier(s)
    BY OrderMeans
  <1>2. ASSUME NEW i \in DOMAIN u, NEW j \in DOMAIN u, i < j
        PROVE  <<u[i], u[j]>> \in Earlier(s)
    <2>1. u[i] \in S /\ u[j] \in S /\ i \in Nat /\ j \in Nat
      BY <1>1 DEF Lists
    <2>3. i # j /\ i <= j
      BY <1>2, <2>1
    <2>2. u[i] # u[j] /\ <<u[j], u[i]>> \notin Earlier(s)
      BY <1>1, <2>3 DEF Lists
    <2> QED BY <2>1, <2>2, EarlierTotal
  <1>3. ASSUME NEW e \in Earlier(u)
        PROVE  e \in Earlier(s)
    <2> DEFINE Pairs == {x \in (DOMAIN u) \X (DOMAIN u) : x[1] < x[2]}
    <2>1. PICK x \in Pairs : e = <<u[x[1]], u[x[2]]>>
      BY DEF Earlier
    <2> QED BY <1>2, <2>1
  <1> QED BY <1>3

(* A resource comes after all it depends on, also by way of others.        *)
LEMMA DependenciesEarlier ==
  ASSUME NEW nodes, IsFiniteSet(nodes), NEW arcs, \A e \in arcs : e[2] \in nodes /\ e = <<e[1], e[2]>>,
         NEW s \in TopoOrders(nodes, arcs), NEW x, NEW y, <<y, x>> \in Earlier(s)
  PROVE  <<x, y>> \notin Reaches(nodes, arcs)
  <1>1. /\ Lists(s, nodes)
        /\ \A i, j \in DOMAIN s : i <= j => <<s[j], s[i]>> \notin arcs
    BY OrderMeans
  <1>2. PICK j \in DOMAIN s, k \in DOMAIN s : j < k /\ s[j] = y /\ s[k] = x
    BY EarlierMeans
  <1>3. DOMAIN s \subseteq Nat /\ x \in nodes /\ y \in nodes
    BY <1>1, <1>2 DEF Lists
  <1> DEFINE after == {s[m] : m \in {i \in DOMAIN s : k < i}}
  <1>4. after \in SUBSET nodes
    BY <1>1 DEF Lists
  <1>5. Follows(after, x, arcs)
    <2>1. SUFFICES ASSUME NEW e \in arcs, e[1] \in after \cup {x}
                   PROVE  e[2] \in after
      BY DEF Follows
    <2>2. PICK m \in DOMAIN s : k <= m /\ s[m] = e[1]
      <3>1. CASE e[1] = x
        BY <1>2, <1>3, <3>1
      <3>2. CASE e[1] \in after
        BY <1>3, <3>2
      <3> QED BY <2>1, <3>1, <3>2
    <2>3. PICK i \in DOMAIN s : s[i] = e[2]
      BY <1>1 DEF Lists
    <2>4. ~(i <= m)
      BY <1>1, <2>2, <2>3
    <2>5. k < i
      BY <1>3, <2>2, <2>4
    <2> QED BY <2>3, <2>5
  <1>6. y \notin after
    <2>1. SUFFICES ASSUME y \in after PROVE FALSE
      OBVIOUS
    <2>2. PICK m \in DOMAIN s : k < m /\ s[m] = y
      BY <2>1
    <2>3. m = j
      BY <1>1, <1>2, <2>2 DEF Lists
    <2> QED BY <1>2, <1>3, <2>2, <2>3
  <1> HIDE DEF after
  <1> QED BY <1>3, <1>4, <1>5, <1>6, ReachesMeans

----------------------------------------------------------------------------
(* Groups. *)

(* Placements can be sorted: the one that is first by its provider, then   *)
(* by its region, has none before it.                                      *)
LEMMA PlacementsSorted ==
  ASSUME NEW P \in SUBSET (Nat \X Nat), IsFiniteSet(P)
  PROVE  InOrder(P, {e \in P \X P : Before(e[1], e[2])})
           \in TopoOrders(P, {e \in P \X P : Before(e[1], e[2])})
  <1> DEFINE before == {e \in P \X P : Before(e[1], e[2])}
  <1>1. ASSUME NEW U \in SUBSET P, U # {}, Stuck(U, before)
        PROVE  FALSE
    <2> DEFINE providers == {p[1] : p \in U}
    <2>1. providers \in SUBSET Nat /\ providers # {}
      BY <1>1
    <2>2. PICK a \in providers : \A b \in providers : a <= b
      <3> HIDE DEF providers
      <3> QED BY <2>1, LeastExists
    <2> DEFINE regions == {p[2] : p \in {q \in U : q[1] = a}}
    <2>3. regions \in SUBSET Nat /\ regions # {}
      BY <2>2
    <2>4. PICK c \in regions : \A d \in regions : c <= d
      <3> HIDE DEF regions
      <3> QED BY <2>3, LeastExists
    <2>5. PICK p \in U : p[1] = a /\ p[2] = c
      BY <2>4
    <2>6. PICK q \in U : <<q, p>> \in before
      BY <1>1, <2>5 DEF Stuck
    <2>7. Before(q, p)
      BY <2>6
    <2>8. q[1] \in providers /\ (q[1] = a => q[2] \in regions)
      BY <2>6
    <2>9. q[1] \in Nat /\ q[2] \in Nat /\ a \in Nat /\ c \in Nat
      BY <2>1, <2>2, <2>3, <2>4, <2>8
    <2> HIDE DEF providers, regions, before
    <2>10. a <= q[1] /\ (q[1] = a => c <= q[2])
      BY <2>2, <2>4, <2>8
    <2>11. q[1] < a \/ (q[1] = a /\ q[2] < c)
      BY <2>5, <2>7 DEF Before
    <2> QED BY <2>9, <2>10, <2>11
  <1> HIDE DEF before
  <1>2. TopoOrders(P, before) # {}
    BY <1>1, UnorderedStuck
  <1> QED BY <1>2 DEF InOrder, before

(* The resources with a provider and a region, and where they go. *)
Placeable(s, provider, region) == {r \in Range(s) : r \in DOMAIN provider /\ r \in DOMAIN region}

PlaceOf(r, provider, region, mapping) == <<provider[r], ResolveRegion(region[r], mapping)>>

(* Every group holds what goes to its placement, in the order of all, and  *)
(* every resource that goes somewhere is in a group.                       *)
LEMMA GroupsMean ==
  ASSUME NEW s, NEW nodes, Lists(s, nodes), IsFiniteSet(nodes), NEW provider, NEW region, NEW mapping,
         \A r \in Placeable(s, provider, region) :
            PlaceOf(r, provider, region, mapping) \in Nat \X Nat,
         NEW gs, gs = AssembleByProviderRegion(s, provider, region, mapping)
  PROVE  /\ gs = [i \in 1..Len(gs) |-> gs[i]] /\ Len(gs) \in Nat
         /\ \A i \in DOMAIN gs :
              gs[i] = [placement |-> gs[i].placement, resources |-> gs[i].resources]
         /\ \A i \in DOMAIN gs : gs[i].placement \in Nat \X Nat
         /\ \A i \in DOMAIN gs :
              LET members == {r \in Placeable(s, provider, region) :
                                PlaceOf(r, provider, region, mapping) = gs[i].placement}
              IN  members \in SUBSET nodes /\ gs[i].resources \in TopoOrders(members, Earlier(s))
         /\ \A i, j \in DOMAIN gs : gs[i].placement = gs[j].placement => i = j
         /\ \A r \in Placeable(s, provider, region) :
              \E i \in DOMAIN gs : gs[i].placement = PlaceOf(r, provider, region, mapping)
  <1> DEFINE Placement(r) == PlaceOf(r, provider, region, mapping)
             placed       == Placeable(s, provider, region)
             places       == {Placement(r) : r \in placed}
             Members(p)   == {r \in placed : Placement(r) = p}
             Group(p)     == [placement |-> p, resources |-> InOrder(Members(p), Earlier(s))]
             sorted       == InOrder(places, {e \in places \X places : Before(e[1], e[2])})
  <1>1. gs = [i \in DOMAIN sorted |-> Group(sorted[i])]
    BY DEF AssembleByProviderRegion, Placeable, PlaceOf
  <1>2. placed \in SUBSET nodes /\ IsFiniteSet(placed)
    <2>1. placed \in SUBSET nodes
      BY DEF Lists, Placeable, Range
    <2> QED BY <2>1, FS_Subset
  <1> HIDE DEF placed
  <1>3. places \in SUBSET (Nat \X Nat)
    BY DEF placed
  <1>4. IsFiniteSet(places)
    <2> DEFINE f == [r \in placed |-> Placement(r)]
    <2> HIDE DEF Placement
    <2>1. f \in Surjection(placed, places)
      BY DEF Surjection
    <2> HIDE DEF f, places
    <2> QED BY <1>2, <2>1, FS_Surjection
  <1> HIDE DEF places
  <1>5. sorted \in TopoOrders(places, {e \in places \X places : Before(e[1], e[2])})
    BY <1>3, <1>4, PlacementsSorted
  <1>6. Lists(sorted, places)
    BY <1>4, <1>5, OrderMeans
  <1> HIDE DEF sorted
  <1>7. sorted \in Seq(places) /\ DOMAIN sorted = 1..Len(sorted) /\ Len(sorted) \in Nat
    BY <1>6 DEF Lists
  <1>8. \A p : Members(p) \in SUBSET nodes
    BY <1>2
  <1>9. \A p : InOrder(Members(p), Earlier(s)) \in TopoOrders(Members(p), Earlier(s))
    <2> HIDE DEF Members
    <2> QED BY <1>8, PartOrdered
  <1> HIDE DEF Members
  <1>10. \A i \in DOMAIN gs : /\ gs[i] = Group(sorted[i]) /\ gs[i].placement = sorted[i]
                              /\ gs[i].resources = InOrder(Members(sorted[i]), Earlier(s))
    BY <1>1
  <1>11. DOMAIN gs = 1..Len(sorted) /\ Len(gs) = Len(sorted)
    BY <1>1, <1>7
  <1>12. gs = [i \in 1..Len(gs) |-> gs[i]] /\ Len(gs) \in Nat
    BY <1>1, <1>7, <1>11
  <1>13. \A i \in DOMAIN gs : gs[i].placement \in Nat \X Nat
    BY <1>3, <1>7, <1>10, <1>11
  <1>14. \A i \in DOMAIN gs : gs[i].resources \in TopoOrders(Members(gs[i].placement), Earlier(s))
    BY <1>9, <1>10
  <1>15. \A i, j \in DOMAIN gs : gs[i].placement = gs[j].placement => i = j
    BY <1>6, <1>7, <1>10, <1>11 DEF Lists
  <1>16. \A r \in placed : \E i \in DOMAIN gs : gs[i].placement = Placement(r)
    <2>1. \A r \in placed : Placement(r) \in places
      BY DEF places
    <2> QED BY <1>6, <1>7, <1>10, <1>11, <2>1 DEF Lists
  <1> HIDE DEF Group
  <1>17. \A i \in DOMAIN gs : gs[i] = [placement |-> gs[i].placement, resources |-> gs[i].resources]
    BY <1>10 DEF Group
  <1> QED BY <1>8, <1>12, <1>13, <1>14, <1>15, <1>16, <1>17 DEF Members, placed

----------------------------------------------------------------------------
(* What is loaded: for every resource of the template its last declaration *)
(* and the module that one names.                                          *)
Loaded ==
  /\ compilation \in Compilations
  /\ DOMAIN modules = DOMAIN resources
  /\ \A r \in DOMAIN resources :
       /\ compilation.template # Unreadable
       /\ Accepted(TemplateIn[compilation.template])
       /\ r \in Names(TemplateIn[compilation.template])
       /\ resources[r] = LastDeclaration(TemplateIn[compilation.template].resources, r)
       /\ Loads(resources[r].module)
       /\ modules[r] = ModuleIn[ResolveModule(resources[r].module)]

(* What a loaded resource binds is what is written in the template.        *)
LEMMA BindingsMean ==
  ASSUME Loaded, NEW r \in DOMAIN resources
  PROVE  /\ r # Bare
         /\ \A i : /\ i \in DOMAIN resources[r].literals <=> Bindings(r, i, "value") # {}
                   /\ i \in DOMAIN resources[r].literals =>
                        /\ Bindings(r, i, "value") = {resources[r].literals[i]}
                        /\ resources[r].literals[i] \in Nat
         /\ \A i : /\ i \in DOMAIN resources[r].mixed <=> Bindings(r, i, "mixed") # {}
                   /\ i \in DOMAIN resources[r].mixed =>
                        /\ Bindings(r, i, "mixed") = {resources[r].mixed[i]}
                        /\ resources[r].mixed[i] \in Nat
         /\ \A i : /\ i \in DOMAIN resources[r].references <=> Bindings(r, i, "refers") # {}
                   /\ i \in DOMAIN resources[r].references =>
                        /\ Bindings(r, i, "refers") = {resources[r].references[i]}
                        /\ IsVariable(resources[r].references[i])
  <1> DEFINE t     == compilation.template
             place == Max(Places(t, r))
             block == TemplateBody(t)[place]
             bound == AttributesIn(block.blocks, "inputs")
             Are(kind) == {i \in DOMAIN bound : kind \in DOMAIN bound[i]}
  <1>1. /\ t \in TemplateTexts \ {Unreadable} /\ Accepted(TemplateIn[t]) /\ r \in Names(TemplateIn[t])
        /\ resources[r] = LastDeclaration(TemplateIn[t].resources, r)
    BY DEF Loaded, TemplateTexts
  <1>2. /\ place \in Named(TemplateBody(t), "resource")
        /\ resources[r] = ParseResource(block) /\ r # Bare
    BY <1>1, LastDeclared
  <1>3. /\ IsList(block.blocks)
        /\ \A b \in Range(block.blocks) :
             b.ident = "inputs" => \A i \in DOMAIN b.attrs : IsBinding(b.attrs[i])
    BY <1>1, <1>2, ParsedTemplate
  <1>4. Written(r) = bound
    BY DEF Written, Places, TemplateBody
  <1> HIDE DEF block
  <1>5. \A i \in DOMAIN bound : IsBinding(bound[i])
    <2>1. CASE Lacks(block.blocks, "inputs")
      BY <2>1 DEF AttributesIn, NoAttributes
    <2>2. CASE ~Lacks(block.blocks, "inputs")
      BY <1>3, <2>2, FirstThere DEF AttributesIn
    <2> QED BY <2>1, <2>2
  <1>6. /\ resources[r].literals = [i \in Are("value") |-> bound[i].value]
        /\ resources[r].mixed = [i \in Are("mixed") |-> bound[i].mixed]
        /\ resources[r].references = [i \in Are("refers") |-> bound[i].refers]
    <2> DEFINE literals   == [i \in Are("value") |-> bound[i].value]
               references == [i \in Are("refers") |-> bound[i].refers]
               mixed      == [i \in Are("mixed") |-> bound[i].mixed]
               name       == Head(block.labels)
               named      == AttributeOr(block, "module", [value |-> ""]).value
               dependsOn  == StringList(AttributeOr(block, "depends_on", [items |-> <<>>]))
    <2>1. ParseResource(block) =
            [name |-> name, module |-> named, literals |-> literals,
             references |-> references, mixed |-> mixed, dependsOn |-> dependsOn]
      BY Zenon DEF ParseResource
    <2> HIDE DEF literals, references, mixed, name, named, dependsOn
    <2>2. /\ resources[r].literals = literals /\ resources[r].references = references
          /\ resources[r].mixed = mixed
      BY <1>2, <2>1
    <2> QED BY <2>2 DEF literals, references, mixed
  <1> HIDE DEF bound
  <1>7. ASSUME NEW kind, NEW i
        PROVE  Bindings(r, i, kind) = IF i \in Are(kind) THEN {bound[i][kind]} ELSE {}
    <2>1. \A x : x \in Bindings(r, i, kind) <=> i \in Are(kind) /\ x = bound[i][kind]
      BY <1>4 DEF Bindings
    <2> QED BY <2>1
  <1>8. \A i : i \in Are("value") => bound[i].value \in Nat
    BY <1>5 DEF IsBinding
  <1>9. \A i : i \in Are("mixed") => bound[i].mixed \in Nat
    BY <1>5 DEF IsBinding
  <1>10. \A i : i \in Are("refers") => IsVariable(bound[i].refers)
    BY <1>5 DEF IsBinding
  <1> HIDE DEF Are
  <1>11. ASSUME NEW i
         PROVE  /\ i \in DOMAIN resources[r].literals <=> Bindings(r, i, "value") # {}
                /\ i \in DOMAIN resources[r].literals =>
                        /\ Bindings(r, i, "value") = {resources[r].literals[i]}
                        /\ resources[r].literals[i] \in Nat
    BY <1>6, <1>7, <1>8
  <1>12. ASSUME NEW i
         PROVE  /\ i \in DOMAIN resources[r].mixed <=> Bindings(r, i, "mixed") # {}
                /\ i \in DOMAIN resources[r].mixed =>
                        /\ Bindings(r, i, "mixed") = {resources[r].mixed[i]}
                        /\ resources[r].mixed[i] \in Nat
    BY <1>6, <1>7, <1>9
  <1>13. ASSUME NEW i
         PROVE  /\ i \in DOMAIN resources[r].references <=> Bindings(r, i, "refers") # {}
                /\ i \in DOMAIN resources[r].references =>
                        /\ Bindings(r, i, "refers") = {resources[r].references[i]}
                        /\ IsVariable(resources[r].references[i])
    BY <1>6, <1>7, <1>10
  <1> QED BY <1>2, <1>11, <1>12, <1>13

(* A module that loads has inputs without defaults, and the variables in   *)
(* its arms are pairs.                                                     *)
LEMMA ParsedModule ==
  ASSUME NEW t \in ModuleTexts \ {Unreadable}, Accepted(ModuleIn[t])
  PROVE  /\ ModuleIn[t] = ParseModule(t)
         /\ \A i \in DOMAIN ModuleIn[t].inputs : ModuleIn[t].inputs[i].default = {}
         /\ \E n \in Nat : DOMAIN ModuleIn[t].cases \subseteq 1..n
         /\ ModuleIn[t].cases # <<>> => DOMAIN ModuleIn[t].cases # {}
         /\ \A k \in DOMAIN ModuleIn[t].cases :
              LET arms0 == ModuleIn[t].cases[k].arms
              IN  /\ \E n \in Nat : DOMAIN arms0 \subseteq 1..n
                  /\ \A m \in DOMAIN arms0 :
                       \A v \in arms0[m].variables :
                         IsVariable(v) /\ \E w \in arms0[m].names : v = w[1]
  <1> DEFINE tree     == Source(t)
             module   == Last(tree.blocks)
             blocks   == module.blocks
             generate == FirstOf(blocks, "generate").blocks
             places   == Named(generate, "case")
  <1>1. ModuleIn[t] = ParseModule(t)
    BY DEF ModuleIn
  <1>2. "none" \notin {"hclParse", "unknownBlock", "missingRequiredBlock", "missingLabel", "invalidCaseLabel"}
        /\ \A e, b : Accepted(Refused(e, b)) <=> e = "none"
    BY DEF Accepted, Refused
  <1>3. tree.blocks # <<>> /\ ParseModule(t) = ParseSections(module)
    BY <1>1, <1>2 DEF ParseModule
  <1>4. /\ \A n \in DOMAIN Sections : ~Lacks(blocks, Sections[n])
        /\ ModuleIn[t].inputs = ParseInputs(FirstOf(blocks, "interface"))
        /\ ModuleIn[t].cases = [k \in places |-> ParseCase(generate[k])]
    <2> DEFINE unknown  == {k \in DOMAIN blocks : blocks[k].ident \notin Range(Sections)}
               missing  == {n \in DOMAIN Sections : Lacks(blocks, Sections[n])}
               labelled == \A k \in places : generate[k].labels # <<>>
               parsed ==
                 [error    |-> "none",
                  name     |-> Head(module.labels),
                  metadata |-> DOMAIN FirstOf(blocks, "metadata").attrs \cap Governance,
                  inputs   |-> ParseInputs(FirstOf(blocks, "interface")),
                  outputs  |-> ParseOutputs(FirstOf(blocks, "interface")),
                  rules    |-> ParseRules(FirstOf(blocks, "validation")),
                  cases    |-> [k \in places |-> ParseCase(generate[k])]]
    <2>1. ParseSections(module) =
             IF unknown # {} THEN Refused("unknownBlock", blocks[Min(unknown)].ident)
             ELSE IF missing # {} THEN Refused("missingRequiredBlock", Sections[Min(missing)])
             ELSE IF ~labelled THEN Refused("invalidCaseLabel", "case")
             ELSE parsed
      BY DEF ParseSections
    <2>2. missing = {} /\ ModuleIn[t] = parsed
      <3> HIDE DEF unknown, missing, labelled, parsed
      <3> QED BY <1>1, <1>2, <1>3, <2>1
    <2> QED BY <2>2
  <1>5. IsList(tree.blocks) /\ module \in Range(tree.blocks)
    <2>1. IsList(tree.blocks)
      BY BodiesAreLists
    <2>2. Len(tree.blocks) \in DOMAIN tree.blocks
      <3>1. Len(tree.blocks) \in Nat /\ DOMAIN tree.blocks = 1..Len(tree.blocks)
        BY <2>1, ListPlaces
      <3>2. Len(tree.blocks) # 0
        <4>1. SUFFICES ASSUME Len(tree.blocks) = 0 PROVE FALSE
          OBVIOUS
        <4>2. tree.blocks = [k \in 1..0 |-> tree.blocks[k]]
          BY <2>1, <4>1 DEF IsList
        <4>3. tree.blocks = <<>>
          BY <4>2
        <4> QED BY <1>3, <4>3
      <3> QED BY <3>1, <3>2
    <2> QED BY <2>1, <2>2 DEF Last, Range
  <1>6. /\ IsList(blocks) /\ blocks \in BodiesOf(tree)
        /\ \A s \in Range(blocks) :
             /\ s.blocks \in BodiesOf(tree) /\ IsList(s.blocks)
             /\ \A c \in Range(s.blocks) : c.blocks \in BodiesOf(tree) /\ IsList(c.blocks)
    BY <1>5, BodiesAreLists
  <1>7. ~Lacks(blocks, "generate")
    <2>1. 4 \in DOMAIN Sections /\ Sections[4] = "generate"
      BY DEF Sections
    <2> QED BY <1>4, <2>1
  <1>8. FirstOf(blocks, "generate") \in Range(blocks)
    BY <1>6, <1>7, FirstThere
  <1>9. IsList(generate)
    BY <1>6, <1>8
  <1>10. \A i \in DOMAIN ModuleIn[t].inputs : ModuleIn[t].inputs[i].default = {}
    BY <1>4 DEF ParseInputs, ParseInput
  <1>11. DOMAIN ModuleIn[t].cases \subseteq 1..Len(generate) /\ Len(generate) \in Nat
    BY <1>4, <1>9, ListPlaces DEF Named
  <1>12. ASSUME NEW k \in DOMAIN ModuleIn[t].cases, NEW arms0, arms0 = ModuleIn[t].cases[k].arms
         PROVE  /\ \E n \in Nat : DOMAIN arms0 \subseteq 1..n
                /\ \A m \in DOMAIN arms0 :
                     \A v \in arms0[m].variables :
                       IsVariable(v) /\ \E w \in arms0[m].names : v = w[1]
    <2> DEFINE case == generate[k]
    <2>1. k \in places /\ case \in Range(generate)
      BY <1>4, <1>12 DEF Named, Range
    <2>2. case.blocks \in BodiesOf(tree) /\ IsList(case.blocks)
      BY <1>6, <1>8, <2>1
    <2>3. ModuleIn[t].cases[k] = ParseCase(case)
      BY <1>4, <2>1
    <2> HIDE DEF case
    <2>4. arms0 = [m \in DOMAIN case.blocks |-> ParseArm(case.blocks[m])]
      BY <1>12, <2>3 DEF ParseCase
    <2>5. DOMAIN arms0 = 1..Len(case.blocks) /\ Len(case.blocks) \in Nat
      BY <2>2, <2>4, ListPlaces
    <2>6. ASSUME NEW m \in DOMAIN arms0, NEW v \in arms0[m].variables
          PROVE  IsVariable(v) /\ \E w \in arms0[m].names : v = w[1]
      <3> DEFINE arm  == case.blocks[m]
                 code == AttributeOr(arm, "code", NoCode)
      <3>1. arm \in Range(case.blocks)
        BY <2>4 DEF Range
      <3>2. arms0[m].names = code.names /\ arms0[m].variables = ScanVariables(code.names)
        BY <2>4 DEF ParseArm
      <3> HIDE DEF arm
      <3>3. PICK w \in code.names : v = w[1]
        BY <3>2 DEF ScanVariables
      <3>4. "code" \in DOMAIN arm.attrs /\ code = arm.attrs["code"]
        <4>1. NoCode.names = {}
          BY DEF NoCode
        <4> QED BY <3>3, <4>1 DEF AttributeOr
      <3>5. \A x \in arm.attrs["code"].names : IsVariable(x[1])
        BY <2>2, <3>1, <3>4, WrittenAssumption
      <3> QED BY <3>2, <3>3, <3>4, <3>5
    <2> QED BY <2>5, <2>6
  <1>13. \E n \in Nat : DOMAIN ModuleIn[t].cases \subseteq 1..n
    BY <1>11
  <1>14. DOMAIN ModuleIn[t].cases = {} => ModuleIn[t].cases = <<>>
    <2>1. SUFFICES ASSUME DOMAIN ModuleIn[t].cases = {} PROVE ModuleIn[t].cases = <<>>
      OBVIOUS
    <2> DEFINE parsed == [k \in {} |-> ParseCase(generate[k])]
    <2>2. ModuleIn[t].cases = parsed
      BY <1>4, <2>1
    <2>3. parsed = <<>>
      OBVIOUS
    <2> QED BY <2>2, <2>3
  <1> QED BY <1>1, <1>10, <1>12, <1>13, <1>14

----------------------------------------------------------------------------
(* The sources of a variable, and the maps that are built from them.       *)

(* The map of the flags has what the last flag of each variable says.      *)
LEMMA FlagsMean ==
  ASSUME compilation \in Compilations, NEW v,
         NEW flags0, flags0 = CliFlags(compilation.defines)
  PROVE  /\ v \in DOMAIN flags0 <=> FromFlags(v) # {}
         /\ v \in DOMAIN flags0 => FromFlags(v) = {flags0[v]} /\ flags0[v] \in Nat
  <1> DEFINE defines == compilation.defines
             given   == {k \in DOMAIN defines : Len(defines[k]) = 2 /\ defines[k][1] = v}
             places  == {k \in DOMAIN defines : Len(defines[k]) = 2}
             latest(w) == {k \in places : defines[k][1] = w}
  <1>1. /\ DOMAIN defines = 1..Len(defines) /\ Len(defines) \in Nat
        /\ \A k \in DOMAIN defines : Len(defines[k]) = 2 => defines[k][2] \in Nat
    BY CompilationsAssumption, ListPlaces DEF Range
  <1>2. flags0 = [w \in {defines[k][1] : k \in places} |-> defines[Max(latest(w))][2]]
    BY DEF CliFlags, ParseCliFlags
  <1>3. FromFlags(v) = IF given = {} THEN {} ELSE {defines[Max(given)][2]}
    BY DEF FromFlags
  <1> HIDE DEF defines
  <1>4. latest(v) = given
    OBVIOUS
  <1>5. v \in DOMAIN flags0 <=> given # {}
    BY <1>2
  <1>6. v \in DOMAIN flags0 => flags0[v] = defines[Max(given)][2]
    <2> HIDE DEF latest, given
    <2> QED BY <1>2, <1>4
  <1>7. given # {} => defines[Max(given)][2] \in Nat
    <2>1. SUFFICES ASSUME given # {} PROVE defines[Max(given)][2] \in Nat
      OBVIOUS
    <2>2. given \in SUBSET (1..Len(defines))
      BY <1>1
    <2>3. Max(given) \in given
      <3> HIDE DEF given
      <3> QED BY <1>1, <2>1, <2>2, GreatestPlace
    <2>4. Max(given) \in DOMAIN defines /\ Len(defines[Max(given)]) = 2
      BY <2>3
    <2> HIDE DEF given
    <2> QED BY <1>1, <2>4
  <1> HIDE DEF given
  <1> QED BY <1>3, <1>5, <1>6, <1>7

(* The path of a variable. *)
LEMMA PathMeans ==
  ASSUME NEW v, IsVariable(v)
  PROVE  /\ Path(v) # <<>> /\ Len(Path(v)) \in {1, 2}
         /\ v[1] = Bare => Path(v) = <<v[2]>>
         /\ v[1] # Bare => Path(v) = <<v[1], v[2]>>
  BY DEF IsVariable, Path

(* Of the files that say something of a path the last one decides.         *)
LEMMA LastFileDecides ==
  ASSUME NEW files, IsList(files), \A doc \in Range(files) : IsDocument(doc), NEW p, p # <<>>,
         NEW saying, saying = {k \in DOMAIN files : \E q \in DOMAIN files[k] : Related(q, p)}
  PROVE  /\ p \in DOMAIN MergeFiles(files) <=> saying # {} /\ p \in DOMAIN files[Max(saying)]
         /\ p \in DOMAIN MergeFiles(files) =>
              MergeFiles(files)[p] = files[Max(saying)][p] /\ Max(saying) \in DOMAIN files
  <1> DEFINE n == Len(files)
  <1>1. n \in Nat /\ DOMAIN files = 1..n
    BY ListPlaces
  <1>2. \A q : Related(p, q) <=> Related(q, p)
    BY DEF Related
  <1>3. \A j \in DOMAIN files : p \in DOMAIN files[j] => j \in saying
    <2>1. SUFFICES ASSUME NEW j \in DOMAIN files, p \in DOMAIN files[j] PROVE Related(p, p)
      OBVIOUS
    <2>2. IsList(p)
      BY <2>1 DEF IsDocument, Range
    <2>3. Len(p) <= Len(p)
      BY <2>2 DEF IsList
    <2> QED BY <2>3 DEF Related, IsPrefix
  <1>4. saying \in SUBSET (1..n)
    BY <1>1
  <1>5. \A i \in DOMAIN files : i \notin saying <=> \A q \in DOMAIN files[i] : ~Related(p, q)
    BY <1>2
  <1>6. saying # {} => Max(saying) \in saying /\ \A k \in saying : k <= Max(saying)
    BY <1>1, <1>4, GreatestPlace
  <1> HIDE DEF n
  <1>7. ASSUME NEW j \in DOMAIN files
        PROVE  Decides(p, j, files, n) <=> saying # {} /\ j = Max(saying) /\ p \in DOMAIN files[j]
    <2>1. ASSUME Decides(p, j, files, n)
          PROVE  saying # {} /\ j = Max(saying) /\ p \in DOMAIN files[j]
      <3>1. j \in saying /\ p \in DOMAIN files[j]
        BY <1>3, <2>1 DEF Decides
      <3>2. Max(saying) \in 1..n /\ j \in 1..n /\ j <= Max(saying)
        BY <1>4, <1>6, <3>1
      <3>3. Max(saying) \notin (j + 1)..n
        BY <1>1, <1>5, <1>6, <2>1, <3>1, <3>2 DEF Decides
      <3>4. j = Max(saying)
        BY <1>1, <3>2, <3>3
      <3> QED BY <3>1, <3>4
    <2>2. ASSUME saying # {}, j = Max(saying), p \in DOMAIN files[j]
          PROVE  Decides(p, j, files, n)
      <3>1. \A i \in (j + 1)..n : i \in 1..n /\ ~(i <= j)
        BY <1>1
      <3>2. \A i \in (j + 1)..n : i \in DOMAIN files /\ i \notin saying
        BY <1>1, <1>6, <2>2, <3>1
      <3> QED BY <1>5, <2>2, <3>2 DEF Decides
    <2> QED BY <2>1, <2>2
  <1>8. saying # {} => Max(saying) \in DOMAIN files
    BY <1>1, <1>4, <1>6
  <1>9. /\ p \in DOMAIN MergeFiles(files) <=> \E j \in DOMAIN files : Decides(p, j, files, n)
        /\ \A j \in DOMAIN files : Decides(p, j, files, n) => MergeFiles(files)[p] = files[j][p]
    BY MergedMeans DEF n
  <1> QED BY <1>7, <1>8, <1>9

(* The map of the files has what the last file to say anything of a        *)
(* variable's path has there.                                              *)
LEMMA FilesMean ==
  ASSUME compilation \in Compilations,
         NEW properties, properties = FlattenToDotted(MergeFiles(compilation.files))
  PROVE  /\ \A v \in DOMAIN properties : properties[v] \in Nat
         /\ \A v : IsVariable(v) =>
              /\ v \in DOMAIN properties <=> FromFiles(v) # {}
              /\ v \in DOMAIN properties => FromFiles(v) = {properties[v]}
  <1> DEFINE files     == compilation.files
             merged    == MergeFiles(files)
             named     == {p \in DOMAIN merged : p # <<>> /\ merged[p].kind = "scalar"}
             Dotted(p) == IF Len(p) = 1 THEN <<Bare, p[1]>> ELSE p
             Saying(p) == {k \in DOMAIN files : \E q \in DOMAIN files[k] : Related(q, p)}
  <1>1. IsList(files) /\ \A doc \in Range(files) : IsDocument(doc)
    BY CompilationsAssumption
  <1>2. properties = [v \in {Dotted(p) : p \in named} |-> merged[Path(v)].value]
    BY DEF FlattenToDotted
  <1>3. \A v : FromFiles(v) =
                 IF Saying(Path(v)) = {} THEN {}
                 ELSE {files[Max(Saying(Path(v)))][p].value :
                         p \in {q \in DOMAIN files[Max(Saying(Path(v)))] :
                                  q = Path(v) /\ files[Max(Saying(Path(v)))][q].kind = "scalar"}}
    BY DEF FromFiles
  <1> HIDE DEF files, merged
  <1>4. ASSUME NEW p, p # <<>>
        PROVE  /\ p \in DOMAIN merged <=> Saying(p) # {} /\ p \in DOMAIN files[Max(Saying(p))]
               /\ p \in DOMAIN merged =>
                    merged[p] = files[Max(Saying(p))][p] /\ Max(Saying(p)) \in DOMAIN files
    <2> DEFINE saying == Saying(p)
    <2> HIDE DEF saying
    <2>1. saying = {k \in DOMAIN files : \E q \in DOMAIN files[k] : Related(q, p)}
      BY DEF saying
    <2> QED BY <1>1, <1>4, <2>1, LastFileDecides DEF merged, saying
  <1> HIDE DEF Saying
  <1>5. ASSUME NEW p \in named
        PROVE  IsList(p) /\ p[1] # Bare /\ merged[p].value \in Nat
    <2> DEFINE doc == files[Max(Saying(p))]
    <2>1. p # <<>> /\ p \in DOMAIN merged /\ merged[p].kind = "scalar"
      OBVIOUS
    <2>2. p \in DOMAIN doc /\ merged[p] = doc[p] /\ doc \in Range(files)
      BY <1>4, <2>1 DEF Range
    <2>3. IsDocument(doc)
      BY <1>1, <2>2
    <2> HIDE DEF doc
    <2> QED BY <2>1, <2>2, <2>3 DEF IsDocument
  <1>6. ASSUME NEW p \in named
        PROVE  Path(Dotted(p)) = p
    <2>1. IsList(p) /\ p[1] # Bare /\ p # <<>>
      BY <1>5
    <2>2. CASE Len(p) = 1
      <3>1. p = [k \in 1..1 |-> p[k]]
        BY <2>1, <2>2 DEF IsList
      <3>2. p = <<p[1]>>
        BY <3>1
      <3> QED BY <2>2, <3>2 DEF Path
    <2>3. CASE Len(p) # 1
      BY <2>1, <2>3 DEF Path
    <2> QED BY <2>2, <2>3
  <1>7. ASSUME NEW v, IsVariable(v)
        PROVE  Dotted(Path(v)) = v
    BY <1>7, PathMeans DEF IsVariable
  <1>8. \A v \in DOMAIN properties : properties[v] \in Nat
    <2>1. SUFFICES ASSUME NEW v \in DOMAIN properties PROVE properties[v] \in Nat
      OBVIOUS
    <2>2. PICK p \in named : v = Dotted(p)
      BY <1>2
    <2>3. properties[v] = merged[Path(v)].value
      BY <1>2
    <2> QED BY <1>5, <1>6, <2>2, <2>3
  <1>9. ASSUME NEW v, IsVariable(v)
        PROVE  /\ v \in DOMAIN properties <=> FromFiles(v) # {}
               /\ v \in DOMAIN properties => FromFiles(v) = {properties[v]}
    <2> DEFINE p   == Path(v)
               doc == files[Max(Saying(p))]
    <2>1. p # <<>>
      BY <1>9, PathMeans
    <2>2. v \in DOMAIN properties <=> p \in named
      <3>1. v \in DOMAIN properties => p \in named
        BY <1>2, <1>6
      <3>2. p \in named => v \in DOMAIN properties
        BY <1>2, <1>7, <1>9
      <3> QED BY <3>1, <3>2
    <2>3. v \in DOMAIN properties => properties[v] = merged[p].value
      BY <1>2
    <2>4. FromFiles(v) = IF Saying(p) = {} THEN {}
                         ELSE {doc[x].value : x \in {q \in DOMAIN doc : q = p /\ doc[q].kind = "scalar"}}
      BY <1>3
    <2>5. /\ p \in DOMAIN merged <=> Saying(p) # {} /\ p \in DOMAIN doc
          /\ p \in DOMAIN merged => merged[p] = doc[p]
      BY <1>4, <2>1
    <2> HIDE DEF p, doc
    <2>6. \A x : x \in FromFiles(v) <=> /\ Saying(p) # {} /\ p \in DOMAIN doc
                                        /\ doc[p].kind = "scalar" /\ x = doc[p].value
      BY <2>4
    <2>7. \A x : x \in FromFiles(v) <=> p \in named /\ x = merged[p].value
      BY <2>1, <2>5, <2>6
    <2> HIDE DEF named
    <2>8. v \in DOMAIN properties => FromFiles(v) = {properties[v]}
      BY <2>2, <2>3, <2>7
    <2>9. v \notin DOMAIN properties => FromFiles(v) = {}
      BY <2>2, <2>7
    <2> QED BY <2>8, <2>9
  <1> QED BY <1>8, <1>9

----------------------------------------------------------------------------
(* The context. *)

(* The names that some path directory has and where they lead. *)
LEMMA ResolvedText ==
  ASSUME compilation \in Compilations, NEW name, ResolveModule(name) # Unreadable
  PROVE  /\ ResolveModule(name) \in ModuleTexts \ {Unreadable}
         /\ \E dir \in Range(compilation.includePath) : ResolveModule(name) \in Range(dir)
  <1> DEFINE path   == compilation.includePath
             having == {k \in DOMAIN path : name \in DOMAIN path[k]}
  <1>1. ResolveModule(name) = IF having = {} THEN Unreadable ELSE path[Min(having)][name]
    BY DEF ResolveModule
  <1>2. DOMAIN path \subseteq Nat
    BY CompilationsAssumption, ListPlaces
  <1>3. having # {} /\ having \in SUBSET Nat
    BY <1>1, <1>2
  <1>4. Min(having) \in having
    <2> HIDE DEF having
    <2> QED BY <1>3, LeastPlace
  <1>5. path[Min(having)] \in Range(path) /\ ResolveModule(name) \in Range(path[Min(having)])
    BY <1>1, <1>3, <1>4 DEF Range
  <1> HIDE DEF path, having
  <1>6. ResolveModule(name) \in ModuleTexts
    BY <1>5 DEF ModuleTexts, path
  <1> QED BY <1>5, <1>6 DEF path

(* A module is what its text parses to. *)
LEMMA LoadedModule ==
  ASSUME Loaded, NEW r \in DOMAIN resources
  PROVE  \E t \in ModuleTexts \ {Unreadable} :
           /\ Accepted(ModuleIn[t]) /\ modules[r] = ModuleIn[t]
           /\ \E dir \in Range(compilation.includePath) : t \in Range(dir)
  BY ResolvedText DEF Loaded, Loads

(* No input has a default, which the parser leaves out. *)
LEMMA NoDefaults ==
  ASSUME Loaded
  PROVE  /\ \A r \in DOMAIN resources : \A i \in DOMAIN modules[r].inputs : modules[r].inputs[i].default = {}
         /\ DOMAIN GmodDefaults(modules) = {}
  <1>1. \A r \in DOMAIN resources : \A i \in DOMAIN modules[r].inputs : modules[r].inputs[i].default = {}
    BY LoadedModule, ParsedModule
  <1>2. DOMAIN modules = DOMAIN resources
    BY DEF Loaded
  <1>3. \A v : v \notin UNION {{r} \X {i \in DOMAIN modules[r].inputs : modules[r].inputs[i].default # {}} :
                                  r \in DOMAIN modules}
    BY <1>1, <1>2
  <1>4. DOMAIN GmodDefaults(modules)
          = UNION {{r} \X {i \in DOMAIN modules[r].inputs : modules[r].inputs[i].default # {}} : r \in DOMAIN modules}
    BY DEF GmodDefaults
  <1> QED BY <1>1, <1>3, <1>4

(* What the bindings in the template give a variable. *)
FromTemplate(v) ==
  IF v[1] = Bare THEN Literals(v[2])
  ELSE IF v[1] \notin DOMAIN resources THEN {}
  ELSE Bindings(v[1], v[2], "value")

LEMMA ChainMeans ==
  ASSUME Loaded, NEW v
  PROVE  Chain(v) = IF FromFlags(v) # {} THEN FromFlags(v)
                    ELSE IF FromFiles(v) # {} THEN FromFiles(v)
                    ELSE FromTemplate(v)
  <1>1. v[1] \in DOMAIN resources /\ v[2] \in DOMAIN modules[v[1]].inputs
          => modules[v[1]].inputs[v[2]].default = {}
    BY NoDefaults
  <1>2. CASE FromFlags(v) # {} \/ FromFiles(v) # {}
    BY <1>2 DEF Chain
  <1>3. CASE FromFlags(v) = {} /\ FromFiles(v) = {} /\ v[1] = Bare
    BY <1>3 DEF Chain, FromTemplate
  <1>4. CASE FromFlags(v) = {} /\ FromFiles(v) = {} /\ v[1] # Bare
    <2>1. Chain(v) = IF v[1] \notin DOMAIN resources THEN {}
                     ELSE IF Bindings(v[1], v[2], "value") # {} THEN Bindings(v[1], v[2], "value")
                     ELSE IF v[2] \in DOMAIN modules[v[1]].inputs THEN modules[v[1]].inputs[v[2]].default
                     ELSE {}
      BY <1>4 DEF Chain
    <2> QED BY <1>1, <1>4, <2>1 DEF FromTemplate
  <1> QED BY <1>2, <1>3, <1>4

LEMMA LiteralsMean ==
  ASSUME Loaded, NEW i, NEW x
  PROVE  x \in Literals(i)
           <=> \E r \in DOMAIN resources : i \in DOMAIN resources[r].literals /\ x = resources[r].literals[i]
  <1>1. x \in Literals(i) <=> \E r \in DOMAIN resources : x \in Bindings(r, i, "value")
    BY DEF Literals, Everywhere
  <1>2. \A r \in DOMAIN resources :
          x \in Bindings(r, i, "value")
            <=> i \in DOMAIN resources[r].literals /\ x = resources[r].literals[i]
    BY BindingsMean
  <1> QED BY <1>1, <1>2

(* Whatever the order of the walk, the literals are what the template      *)
(* says, and a plain input has one of those bound to it.                   *)
LEMMA OverridesMean ==
  ASSUME Loaded, NEW walk, Lists(walk, DOMAIN resources), Range(walk) = DOMAIN resources,
         NEW overrides, overrides = GtplOverrides(resources, walk)
  PROVE  /\ \A v \in DOMAIN overrides : overrides[v] \in Nat
         /\ \A v : IsVariable(v) =>
              /\ v \in DOMAIN overrides <=> FromTemplate(v) # {}
              /\ v \in DOMAIN overrides => overrides[v] \in FromTemplate(v)
  <1> DEFINE dotted   == UNION {{r} \X DOMAIN resources[r].literals : r \in Range(walk)}
             binds(i) == {k \in DOMAIN walk : i \in DOMAIN resources[walk[k]].literals}
             bare     == {<<Bare, v[2]>> : v \in dotted}
             From(v)  == IF v \in dotted THEN v[1] ELSE walk[Min(binds(v[2]))]
  <1>1. overrides = [v \in dotted \cup bare |-> resources[From(v)].literals[v[2]]]
    BY DEF GtplOverrides
  <1>2. \A v : v \in dotted <=> IsVariable(v) /\ v[1] \in DOMAIN resources
                                /\ v[2] \in DOMAIN resources[v[1]].literals
    BY DEF IsVariable
  <1>3. \A v : v \in bare <=> /\ IsVariable(v) /\ v[1] = Bare
                              /\ \E r \in DOMAIN resources : v[2] \in DOMAIN resources[r].literals
    <2>1. ASSUME NEW v \in bare
          PROVE  /\ IsVariable(v) /\ v[1] = Bare
                 /\ \E r \in DOMAIN resources : v[2] \in DOMAIN resources[r].literals
      <3>1. PICK w \in dotted : v = <<Bare, w[2]>>
        OBVIOUS
      <3> HIDE DEF dotted
      <3> QED BY <1>2, <3>1 DEF IsVariable
    <2>2. ASSUME NEW v, IsVariable(v), v[1] = Bare,
                 NEW r \in DOMAIN resources, v[2] \in DOMAIN resources[r].literals
          PROVE  v \in bare
      <3>1. <<r, v[2]>> \in dotted
        <4>1. r \in Range(walk)
          OBVIOUS
        <4>2. <<r, v[2]>> \in {r} \X DOMAIN resources[r].literals
          BY <2>2
        <4> QED BY <4>1, <4>2
      <3> HIDE DEF dotted
      <3>2. <<Bare, <<r, v[2]>>[2]>> \in bare
        BY <3>1
      <3>3. v = <<Bare, v[2]>>
        BY <2>2 DEF IsVariable
      <3> HIDE DEF bare
      <3> QED BY <3>2, <3>3
    <2> HIDE DEF bare
    <2> QED BY <2>1, <2>2
  <1> HIDE DEF dotted, bare
  <1>4. \A r \in DOMAIN resources : r # Bare
    BY BindingsMean
  <1>5. ASSUME NEW v \in DOMAIN overrides
        PROVE  /\ From(v) \in DOMAIN resources /\ v[2] \in DOMAIN resources[From(v)].literals
               /\ v \in dotted => From(v) = v[1]
    <2>1. CASE v \in dotted
      BY <1>2, <2>1
    <2>2. CASE v \notin dotted
      <3>1. v \in bare
        BY <1>1, <2>2
      <3>2. PICK r \in DOMAIN resources : v[2] \in DOMAIN resources[r].literals
        BY <1>3, <3>1
      <3> DEFINE places == binds(v[2])
      <3>3. places \in SUBSET Nat /\ places # {}
        <4>1. PICK k \in DOMAIN walk : walk[k] = r
          BY <3>2 DEF Lists
        <4> QED BY <3>2, <4>1 DEF Lists
      <3>4. Min(places) \in places
        <4> HIDE DEF places
        <4> QED BY <3>3, LeastPlace
      <3>5. From(v) = walk[Min(places)]
        BY <2>2
      <3> QED BY <2>2, <3>4, <3>5 DEF Lists
    <2> QED BY <2>1, <2>2
  <1>6. \A v \in DOMAIN overrides : overrides[v] = resources[From(v)].literals[v[2]]
    BY <1>1
  <1> HIDE DEF From
  <1>7. \A v \in DOMAIN overrides : overrides[v] \in Nat
    BY <1>5, <1>6, BindingsMean
  <1>8. ASSUME NEW v, IsVariable(v)
        PROVE  /\ v \in DOMAIN overrides <=> FromTemplate(v) # {}
               /\ v \in DOMAIN overrides => overrides[v] \in FromTemplate(v)
    <2>1. v \in DOMAIN overrides <=> v \in dotted \/ v \in bare
      BY <1>1
    <2>2. CASE v[1] = Bare
      <3>1. v \notin dotted /\ FromTemplate(v) = Literals(v[2])
        BY <1>2, <1>4, <2>2 DEF FromTemplate
      <3>2. v \in bare <=> \E r \in DOMAIN resources : v[2] \in DOMAIN resources[r].literals
        BY <1>3, <1>8, <2>2
      <3>3. Literals(v[2]) # {} <=> \E r \in DOMAIN resources : v[2] \in DOMAIN resources[r].literals
        <4>1. Literals(v[2]) # {} <=> \E x : x \in Literals(v[2])
          OBVIOUS
        <4> QED BY <4>1, LiteralsMean
      <3>4. v \in DOMAIN overrides => overrides[v] \in Literals(v[2])
        BY <1>5, <1>6, LiteralsMean
      <3> QED BY <2>1, <3>1, <3>2, <3>3, <3>4
    <2>3. CASE v[1] # Bare
      <3>1. v \notin bare
        BY <1>3, <2>3
      <3>2. CASE v[1] \notin DOMAIN resources
        BY <1>2, <2>1, <2>3, <3>1, <3>2 DEF FromTemplate
      <3>3. CASE v[1] \in DOMAIN resources
        <4>1. FromTemplate(v) = Bindings(v[1], v[2], "value")
          BY <2>3, <3>3 DEF FromTemplate
        <4>2. v \in dotted <=> v[2] \in DOMAIN resources[v[1]].literals
          BY <1>2, <1>8, <3>3
        <4> QED BY <1>5, <1>6, <2>1, <3>1, <3>3, <4>1, <4>2, BindingsMean
      <3> QED BY <3>2, <3>3
    <2> QED BY <2>2, <2>3
  <1> QED BY <1>7, <1>8

(* The strongest map that has a variable gives its value. *)
LEMMA BuildMeans ==
  ASSUME NEW defaults, NEW overrides, NEW properties, NEW flags,
         NEW built, built = Build(defaults, overrides, properties, flags)
  PROVE  /\ \A v : v \in DOMAIN built <=> v \in DOMAIN flags \/ v \in DOMAIN properties
                                          \/ v \in DOMAIN overrides \/ v \in DOMAIN defaults
         /\ \A v \in DOMAIN built :
              built[v] = IF v \in DOMAIN flags THEN flags[v]
                         ELSE IF v \in DOMAIN properties THEN properties[v]
                         ELSE IF v \in DOMAIN overrides THEN overrides[v]
                         ELSE defaults[v]
  <1>1. ASSUME NEW f, NEW g
        PROVE  /\ \A v : v \in DOMAIN Extend(f, g) <=> v \in DOMAIN f \/ v \in DOMAIN g
               /\ \A v \in DOMAIN Extend(f, g) :
                    Extend(f, g)[v] = IF v \in DOMAIN g THEN g[v] ELSE f[v]
    BY DEF Extend
  <1> DEFINE one == Extend(defaults, overrides)
             two == Extend(one, properties)
  <1>2. built = Extend(two, flags)
    BY DEF Build
  <1>3. /\ \A v : v \in DOMAIN one <=> v \in DOMAIN defaults \/ v \in DOMAIN overrides
        /\ \A v \in DOMAIN one : one[v] = IF v \in DOMAIN overrides THEN overrides[v] ELSE defaults[v]
    BY <1>1
  <1> HIDE DEF one
  <1>4. /\ \A v : v \in DOMAIN two <=> v \in DOMAIN one \/ v \in DOMAIN properties
        /\ \A v \in DOMAIN two : two[v] = IF v \in DOMAIN properties THEN properties[v] ELSE one[v]
    BY <1>1
  <1> HIDE DEF two
  <1>5. /\ \A v : v \in DOMAIN built <=> v \in DOMAIN two \/ v \in DOMAIN flags
        /\ \A v \in DOMAIN built : built[v] = IF v \in DOMAIN flags THEN flags[v] ELSE two[v]
    BY <1>1, <1>2
  <1> QED BY <1>3, <1>4, <1>5

(* The maps of a compilation: its flags, properties, and the literals      *)
(* found on a walk over its resources.                                     *)
Sourced(flags, properties, overrides, walk) ==
  /\ Loaded /\ IsFiniteSet(DOMAIN resources)
  /\ Lists(walk, DOMAIN resources) /\ Range(walk) = DOMAIN resources
  /\ flags = CliFlags(compilation.defines)
  /\ properties = FlattenToDotted(MergeFiles(compilation.files))
  /\ overrides = GtplOverrides(resources, walk)

LEMMA SourcesMean ==
  ASSUME NEW flags, NEW properties, NEW overrides, NEW walk,
         Sourced(flags, properties, overrides, walk)
  PROVE  /\ \A v \in DOMAIN flags : flags[v] \in Nat
         /\ \A v \in DOMAIN properties : properties[v] \in Nat
         /\ \A v \in DOMAIN overrides : overrides[v] \in Nat
         /\ \A v : IsVariable(v) =>
              /\ v \in DOMAIN flags <=> FromFlags(v) # {}
              /\ v \in DOMAIN flags => flags[v] \in FromFlags(v)
              /\ v \in DOMAIN properties <=> FromFiles(v) # {}
              /\ v \in DOMAIN properties => properties[v] \in FromFiles(v)
              /\ v \in DOMAIN overrides <=> FromTemplate(v) # {}
              /\ v \in DOMAIN overrides => overrides[v] \in FromTemplate(v)
  <1>1. compilation \in Compilations
    BY DEF Sourced, Loaded
  <1>2. \A v : /\ v \in DOMAIN flags <=> FromFlags(v) # {}
               /\ v \in DOMAIN flags => flags[v] \in FromFlags(v) /\ flags[v] \in Nat
    BY <1>1, FlagsMean DEF Sourced
  <1>3. /\ \A v \in DOMAIN properties : properties[v] \in Nat
        /\ \A v : IsVariable(v) => /\ v \in DOMAIN properties <=> FromFiles(v) # {}
                                   /\ v \in DOMAIN properties => properties[v] \in FromFiles(v)
    BY <1>1, FilesMean DEF Sourced
  <1>4. /\ \A v \in DOMAIN overrides : overrides[v] \in Nat
        /\ \A v : IsVariable(v) => /\ v \in DOMAIN overrides <=> FromTemplate(v) # {}
                                   /\ v \in DOMAIN overrides => overrides[v] \in FromTemplate(v)
    BY OverridesMean DEF Sourced
  <1> QED BY <1>2, <1>3, <1>4

(* After the first pass a variable has a value from the strongest of its   *)
(* sources.                                                                *)
LEMMA FirstPassMeans ==
  ASSUME NEW flags, NEW properties, NEW overrides, NEW walk,
         Sourced(flags, properties, overrides, walk),
         NEW initial, initial = Build(GmodDefaults(modules), overrides, properties, flags)
  PROVE  /\ \A v \in DOMAIN initial : initial[v] \in Nat
         /\ \A v : IsVariable(v) =>
              /\ v \in DOMAIN initial <=> Chain(v) # {}
              /\ v \in DOMAIN initial => initial[v] \in Chain(v)
  <1> DEFINE defaults == GmodDefaults(modules)
  <1>1. DOMAIN defaults = {}
    BY NoDefaults DEF Sourced
  <1> HIDE DEF defaults
  <1>2. /\ \A v : v \in DOMAIN initial <=> v \in DOMAIN flags \/ v \in DOMAIN properties
                                           \/ v \in DOMAIN overrides
        /\ \A v \in DOMAIN initial :
              initial[v] = IF v \in DOMAIN flags THEN flags[v]
                         ELSE IF v \in DOMAIN properties THEN properties[v]
                         ELSE overrides[v]
    <2>1. initial = Build(defaults, overrides, properties, flags)
      BY DEF defaults
    <2>2. /\ \A v : v \in DOMAIN initial <=> v \in DOMAIN flags \/ v \in DOMAIN properties
                                          \/ v \in DOMAIN overrides \/ v \in DOMAIN defaults
          /\ \A v \in DOMAIN initial :
              initial[v] = IF v \in DOMAIN flags THEN flags[v]
                         ELSE IF v \in DOMAIN properties THEN properties[v]
                         ELSE IF v \in DOMAIN overrides THEN overrides[v]
                         ELSE defaults[v]
      BY <2>1, BuildMeans
    <2> QED BY <1>1, <2>2
  <1>3. \A v : Chain(v) = IF FromFlags(v) # {} THEN FromFlags(v)
                          ELSE IF FromFiles(v) # {} THEN FromFiles(v)
                          ELSE FromTemplate(v)
    BY ChainMeans DEF Sourced
  <1>4. \A v \in DOMAIN initial : initial[v] \in Nat
    BY <1>2, SourcesMean
  <1>5. ASSUME NEW v, IsVariable(v)
        PROVE  /\ v \in DOMAIN initial <=> Chain(v) # {}
               /\ v \in DOMAIN initial => initial[v] \in Chain(v)
    <2>1. /\ v \in DOMAIN flags <=> FromFlags(v) # {}
          /\ v \in DOMAIN flags => flags[v] \in FromFlags(v)
          /\ v \in DOMAIN properties <=> FromFiles(v) # {}
          /\ v \in DOMAIN properties => properties[v] \in FromFiles(v)
          /\ v \in DOMAIN overrides <=> FromTemplate(v) # {}
          /\ v \in DOMAIN overrides => overrides[v] \in FromTemplate(v)
      BY <1>5, SourcesMean
    <2> QED BY <1>2, <1>3, <2>1
  <1> QED BY <1>4, <1>5

(* The value of a binding, as the template has it. *)
LEMMA BoundMeans ==
  ASSUME Loaded, NEW r \in DOMAIN resources, NEW i, NEW known,
         \A v \in DOMAIN known : known[v] \in Nat
  PROVE  /\ BindingValue(resources[r], i, known) =
              IF Bindings(r, i, "value") # {} THEN Bindings(r, i, "value")
              ELSE IF Bindings(r, i, "mixed") # {} THEN Bindings(r, i, "mixed")
              ELSE {known[v] : v \in Bindings(r, i, "refers") \cap DOMAIN known}
         /\ BindingValue(resources[r], i, known) \subseteq Nat
         /\ \A v \in Bindings(r, i, "refers") : IsVariable(v) /\ Bindings(r, i, "refers") = {v}
  <1>1. /\ i \in DOMAIN resources[r].literals <=> Bindings(r, i, "value") # {}
        /\ i \in DOMAIN resources[r].literals =>
             /\ Bindings(r, i, "value") = {resources[r].literals[i]}
             /\ resources[r].literals[i] \in Nat
        /\ i \in DOMAIN resources[r].mixed <=> Bindings(r, i, "mixed") # {}
        /\ i \in DOMAIN resources[r].mixed =>
             /\ Bindings(r, i, "mixed") = {resources[r].mixed[i]}
             /\ resources[r].mixed[i] \in Nat
        /\ i \in DOMAIN resources[r].references <=> Bindings(r, i, "refers") # {}
        /\ i \in DOMAIN resources[r].references =>
             /\ Bindings(r, i, "refers") = {resources[r].references[i]}
             /\ IsVariable(resources[r].references[i])
    BY BindingsMean
  <1> DEFINE own == {known[v] : v \in Bindings(r, i, "refers") \cap DOMAIN known}
  <1>2. own = IF i \in DOMAIN resources[r].references /\ resources[r].references[i] \in DOMAIN known
              THEN {known[resources[r].references[i]]} ELSE {}
    BY <1>1
  <1>3. own \subseteq Nat
    BY <1>2
  <1> HIDE DEF own
  <1>4. BindingValue(resources[r], i, known) =
          IF Bindings(r, i, "value") # {} THEN Bindings(r, i, "value")
          ELSE IF Bindings(r, i, "mixed") # {} THEN Bindings(r, i, "mixed") ELSE own
    BY <1>1, <1>2 DEF BindingValue
  <1> QED BY <1>1, <1>3, <1>4 DEF own

LEMMA ReferencesMean ==
  ASSUME NEW i, NEW x
  PROVE  x \in References(i)
           <=> \E r \in DOMAIN resources :
                 \/ x \in Bindings(r, i, "mixed")
                 \/ \E v \in Bindings(r, i, "refers") : x \in Chain(v)
  <1>1. \A kind, y : y \in Everywhere(i, kind) <=> \E r \in DOMAIN resources : y \in Bindings(r, i, kind)
    BY DEF Everywhere
  <1>2. x \in References(i) <=> \/ \E v \in Everywhere(i, "refers") : x \in Chain(v)
                                \/ x \in Everywhere(i, "mixed")
    <2> DEFINE chains == UNION {Chain(v) : v \in Everywhere(i, "refers")}
    <2>1. x \in chains <=> \E v \in Everywhere(i, "refers") : x \in Chain(v)
      OBVIOUS
    <2>2. References(i) = chains \cup Everywhere(i, "mixed")
      BY DEF References
    <2> HIDE DEF chains
    <2>3. x \in chains \cup Everywhere(i, "mixed") <=> x \in chains \/ x \in Everywhere(i, "mixed")
      OBVIOUS
    <2>4. x \in References(i) <=> x \in chains \/ x \in Everywhere(i, "mixed")
      BY ONLY <2>2, <2>3
    <2> QED BY ONLY <2>1, <2>4
  <1> QED BY <1>1, <1>2

(* The second pass finds a value for a plain variable without one exactly  *)
(* when some resource binds it to a reference that has one, or to a text.  *)
LEMMA AliasesMean ==
  ASSUME NEW flags, NEW properties, NEW overrides, NEW walk,
         Sourced(flags, properties, overrides, walk),
         NEW initial, initial = Build(GmodDefaults(modules), overrides, properties, flags),
         NEW aliases, aliases = ResolvedAliases(resources, walk, initial)
  PROVE  /\ \A v \in DOMAIN aliases :
              /\ IsVariable(v) /\ v[1] = Bare /\ Chain(v) = {}
              /\ aliases[v] \in References(v[2]) /\ aliases[v] \in Nat
         /\ \A v : IsVariable(v) /\ v[1] = Bare /\ Chain(v) = {} /\ References(v[2]) # {}
                     => v \in DOMAIN aliases
  <1> DEFINE Resolves(r, i) == /\ i \in Variable(resources[r])
                               /\ BindingValue(resources[r], i, initial) # {}
             inputs  == UNION {Variable(resources[r]) : r \in Range(walk)}
             found   == {j \in inputs : /\ <<Bare, j>> \notin DOMAIN initial
                                        /\ \E r \in Range(walk) : Resolves(r, j)}
             aliased == {<<Bare, i>> : i \in found}
             From(i) == walk[Max({k \in DOMAIN walk : Resolves(walk[k], i)})]
  <1>1. aliases = [v \in aliased |-> CHOOSE x \in BindingValue(resources[From(v[2])], v[2], initial) : TRUE]
    BY DEF ResolvedAliases
  <1>2. Loaded /\ Lists(walk, DOMAIN resources) /\ Range(walk) = DOMAIN resources
    BY DEF Sourced
  <1>3. /\ \A v \in DOMAIN initial : initial[v] \in Nat
        /\ \A v : IsVariable(v) => /\ v \in DOMAIN initial <=> Chain(v) # {}
                                   /\ v \in DOMAIN initial => initial[v] \in Chain(v)
    BY FirstPassMeans
  <1>4. ASSUME NEW i, <<Bare, i>> \notin DOMAIN initial, NEW r \in DOMAIN resources
        PROVE  /\ BindingValue(resources[r], i, initial) \subseteq References(i)
               /\ BindingValue(resources[r], i, initial) \subseteq Nat
               /\ \A x \in Bindings(r, i, "mixed") : Resolves(r, i)
               /\ \A v \in Bindings(r, i, "refers") : Chain(v) # {} => Resolves(r, i)
    <2>1. Bindings(r, i, "value") = {}
      <3>1. IsVariable(<<Bare, i>>) /\ <<Bare, i>>[1] = Bare /\ <<Bare, i>>[2] = i
        BY DEF IsVariable
      <3>2. Chain(<<Bare, i>>) = {}
        BY <1>3, <1>4, <3>1
      <3>3. Literals(i) = {}
        BY <1>2, <3>1, <3>2, ChainMeans DEF FromTemplate
      <3> QED BY <3>3 DEF Literals, Everywhere
    <2>2. /\ BindingValue(resources[r], i, initial) =
               IF Bindings(r, i, "mixed") # {} THEN Bindings(r, i, "mixed")
               ELSE {initial[v] : v \in Bindings(r, i, "refers") \cap DOMAIN initial}
          /\ BindingValue(resources[r], i, initial) \subseteq Nat
          /\ \A v \in Bindings(r, i, "refers") : IsVariable(v)
      BY <1>2, <1>3, <2>1, BoundMeans
    <2>3. \A x \in Bindings(r, i, "mixed") : x \in References(i)
      BY ReferencesMean
    <2>4. \A v \in Bindings(r, i, "refers") \cap DOMAIN initial : initial[v] \in References(i)
      BY <1>3, <2>2, ReferencesMean
    <2>5. BindingValue(resources[r], i, initial) \subseteq References(i)
      BY <2>2, <2>3, <2>4
    <2>6. /\ i \in Variable(resources[r]) <=> Bindings(r, i, "mixed") # {} \/ Bindings(r, i, "refers") # {}
      BY <1>2, BindingsMean DEF Variable
    <2>7. \A v \in Bindings(r, i, "refers") :
            Chain(v) # {} => BindingValue(resources[r], i, initial) # {}
      <3>1. SUFFICES ASSUME NEW v \in Bindings(r, i, "refers"), Chain(v) # {}
                     PROVE  BindingValue(resources[r], i, initial) # {}
        OBVIOUS
      <3>2. v \in Bindings(r, i, "refers") \cap DOMAIN initial
        BY <1>3, <2>2, <3>1
      <3>3. initial[v] \in {initial[w] : w \in Bindings(r, i, "refers") \cap DOMAIN initial}
        BY <3>2
      <3> QED BY <2>2, <3>3
    <2> QED BY <2>2, <2>5, <2>6, <2>7
  <1> HIDE DEF Resolves
  <1>5. ASSUME NEW i \in found
        PROVE  From(i) \in DOMAIN resources /\ BindingValue(resources[From(i)], i, initial) # {}
    <2> DEFINE places == {k \in DOMAIN walk : Resolves(walk[k], i)}
    <2>1. DOMAIN walk = 1..Len(walk) /\ Len(walk) \in Nat
      BY <1>2 DEF Lists
    <2>2. places # {}
      <3>1. PICK r \in Range(walk) : Resolves(r, i)
        OBVIOUS
      <3>2. PICK k \in DOMAIN walk : walk[k] = r
        BY <3>1 DEF Range
      <3> QED BY <3>1, <3>2
    <2>3. places \in SUBSET (1..Len(walk))
      BY <2>1
    <2>4. From(i) = walk[Max(places)]
      OBVIOUS
    <2>5. Max(places) \in places
      <3> HIDE DEF places
      <3> QED BY <2>1, <2>2, <2>3, GreatestPlace
    <2>6. walk[Max(places)] \in DOMAIN resources /\ Resolves(walk[Max(places)], i)
      BY <1>2, <2>5 DEF Lists
    <2> QED BY <2>4, <2>6 DEF Resolves
  <1> HIDE DEF From
  <1>6. ASSUME NEW v \in DOMAIN aliases
        PROVE  /\ IsVariable(v) /\ v[1] = Bare /\ Chain(v) = {}
               /\ aliases[v] \in References(v[2]) /\ aliases[v] \in Nat
    <2>1. PICK i \in found : v = <<Bare, i>>
      BY <1>1
    <2>2. IsVariable(v) /\ v[1] = Bare /\ v[2] = i
      BY <2>1 DEF IsVariable
    <2>3. <<Bare, i>> \notin DOMAIN initial
      OBVIOUS
    <2>4. aliases[v] \in BindingValue(resources[From(i)], i, initial)
      BY <1>1, <1>5, <2>2
    <2> QED BY <1>3, <1>4, <1>5, <2>1, <2>2, <2>3, <2>4
  <1>7. ASSUME NEW v, IsVariable(v), v[1] = Bare, Chain(v) = {}, References(v[2]) # {}
        PROVE  v \in DOMAIN aliases
    <2> DEFINE i == v[2]
    <2>1. v = <<Bare, i>> /\ <<Bare, i>> \notin DOMAIN initial
      BY <1>3, <1>7 DEF IsVariable
    <2>2. PICK r \in DOMAIN resources : \/ \E x : x \in Bindings(r, i, "mixed")
                                        \/ \E w \in Bindings(r, i, "refers") : Chain(w) # {}
      <3>1. PICK x : x \in References(i)
        BY <1>7
      <3> QED BY <3>1, ReferencesMean
    <2> HIDE DEF i
    <2>3. Resolves(r, i)
      BY <1>4, <2>1, <2>2
    <2>4. r \in Range(walk) /\ i \in Variable(resources[r])
      BY <1>2, <2>3 DEF Resolves
    <2>5. i \in found
      BY <2>1, <2>3, <2>4
    <2> HIDE DEF found
    <2> QED BY <1>1, <2>1, <2>5
  <1> QED BY <1>6, <1>7

(* Every variable has its meaning, and numbers are all there is. *)
ContextMeans(c) ==
  /\ \A v \in DOMAIN c : c[v] \in Nat
  /\ \A v : IsVariable(v) =>
       /\ v \in DOMAIN c <=> Meaning(v) # {}
       /\ v \in DOMAIN c => c[v] \in Meaning(v)

(* Whatever the order of the walk, the context gives the variables their   *)
(* meanings.                                                               *)
LEMMA TwoPassMeans ==
  ASSUME Loaded, IsFiniteSet(DOMAIN resources), NEW walk \in SetToSeqs(DOMAIN resources),
         NEW c, c = TwoPassContext(modules, resources, walk,
                                   FlattenToDotted(MergeFiles(compilation.files)),
                                   CliFlags(compilation.defines))
  PROVE  ContextMeans(c)
  <1> DEFINE flags      == CliFlags(compilation.defines)
             properties == FlattenToDotted(MergeFiles(compilation.files))
             overrides  == GtplOverrides(resources, walk)
             defaults   == GmodDefaults(modules)
             initial    == Build(defaults, overrides, properties, flags)
             aliases    == ResolvedAliases(resources, walk, initial)
             both       == Extend(aliases, overrides)
  <1>1. c = Build(defaults, both, properties, flags)
    BY DEF TwoPassContext
  <1>2. Sourced(flags, properties, overrides, walk)
    BY WalkMeans DEF Sourced
  <1> HIDE DEF flags, properties, overrides
  <1>3. DOMAIN defaults = {}
    BY NoDefaults
  <1>4. /\ \A v \in DOMAIN flags : flags[v] \in Nat
        /\ \A v \in DOMAIN properties : properties[v] \in Nat
        /\ \A v \in DOMAIN overrides : overrides[v] \in Nat
        /\ \A v : IsVariable(v) =>
              /\ v \in DOMAIN flags <=> FromFlags(v) # {}
              /\ v \in DOMAIN flags => flags[v] \in FromFlags(v)
              /\ v \in DOMAIN properties <=> FromFiles(v) # {}
              /\ v \in DOMAIN properties => properties[v] \in FromFiles(v)
              /\ v \in DOMAIN overrides <=> FromTemplate(v) # {}
              /\ v \in DOMAIN overrides => overrides[v] \in FromTemplate(v)
    BY <1>2, SourcesMean
  <1>5. \A v : Chain(v) = IF FromFlags(v) # {} THEN FromFlags(v)
                          ELSE IF FromFiles(v) # {} THEN FromFiles(v)
                          ELSE FromTemplate(v)
    BY ChainMeans
  <1>6. /\ \A v \in DOMAIN aliases :
              /\ IsVariable(v) /\ v[1] = Bare /\ Chain(v) = {}
              /\ aliases[v] \in References(v[2]) /\ aliases[v] \in Nat
        /\ \A v : IsVariable(v) /\ v[1] = Bare /\ Chain(v) = {} /\ References(v[2]) # {}
                     => v \in DOMAIN aliases
    BY <1>2, AliasesMean
  <1> HIDE DEF aliases, defaults
  <1>7. /\ \A v : v \in DOMAIN both <=> v \in DOMAIN aliases \/ v \in DOMAIN overrides
        /\ \A v \in DOMAIN both : both[v] = IF v \in DOMAIN overrides THEN overrides[v] ELSE aliases[v]
    BY DEF Extend
  <1> HIDE DEF both
  <1>8. /\ \A v : v \in DOMAIN c <=> v \in DOMAIN flags \/ v \in DOMAIN properties \/ v \in DOMAIN both
        /\ \A v \in DOMAIN c : c[v] = IF v \in DOMAIN flags THEN flags[v]
                                      ELSE IF v \in DOMAIN properties THEN properties[v]
                                      ELSE both[v]
    <2>1. /\ \A v : v \in DOMAIN c <=> v \in DOMAIN flags \/ v \in DOMAIN properties
                                          \/ v \in DOMAIN both \/ v \in DOMAIN defaults
          /\ \A v \in DOMAIN c :
              c[v] = IF v \in DOMAIN flags THEN flags[v]
                     ELSE IF v \in DOMAIN properties THEN properties[v]
                     ELSE IF v \in DOMAIN both THEN both[v]
                     ELSE defaults[v]
      BY <1>1, BuildMeans
    <2> QED BY <1>3, <2>1
  <1>9. \A v \in DOMAIN c : c[v] \in Nat
    BY <1>4, <1>6, <1>7, <1>8
  <1>10. ASSUME NEW v, IsVariable(v)
         PROVE  /\ v \in DOMAIN c <=> Meaning(v) # {}
                /\ v \in DOMAIN c => c[v] \in Meaning(v)
    <2>1. CASE Chain(v) # {}
      <3>1. Meaning(v) = Chain(v) /\ v \notin DOMAIN aliases
        BY <1>6, <2>1 DEF Meaning
      <3> QED BY <1>4, <1>5, <1>7, <1>8, <1>10, <2>1, <3>1
    <2>2. CASE Chain(v) = {} /\ v[1] # Bare
      <3>1. Meaning(v) = {} /\ v \notin DOMAIN aliases
        BY <1>6, <2>2 DEF Meaning
      <3> QED BY <1>4, <1>5, <1>7, <1>8, <1>10, <2>2, <3>1
    <2>3. CASE Chain(v) = {} /\ v[1] = Bare
      <3>1. Meaning(v) = References(v[2])
        BY <2>3 DEF Meaning
      <3>2. /\ v \in DOMAIN aliases <=> References(v[2]) # {}
            /\ v \in DOMAIN aliases => aliases[v] \in References(v[2])
        BY <1>6, <1>10, <2>3
      <3>3. v \notin DOMAIN flags /\ v \notin DOMAIN properties /\ v \notin DOMAIN overrides
        BY <1>4, <1>5, <1>10, <2>3
      <3> QED BY <1>7, <1>8, <3>1, <3>2, <3>3
    <2> QED BY <2>1, <2>2, <2>3
  <1> QED BY <1>9, <1>10 DEF ContextMeans

(* Two names that start with each other are the same. *)
LEMMA StartsMean ==
  ASSUME NEW u, IsVariable(u), NEW v, IsVariable(v)
  PROVE  /\ StartsWith(v, v)
         /\ StartsWith(u, v) /\ StartsWith(v, u) => u = v
  <1> DEFINE s == Path(u)
             t == Path(v)
  <1>1. \A w : IsVariable(w) => /\ w[1] = Bare => Path(w) = <<w[2]>>
                                /\ w[1] # Bare => Path(w) = <<w[1], w[2]>>
    BY PathMeans
  <1>2. /\ Len(s) \in {1, 2} /\ (Len(s) = 1 <=> u[1] = Bare)
        /\ Len(t) \in {1, 2} /\ (Len(t) = 1 <=> v[1] = Bare)
    <2>1. \A a, b : Len(<<a>>) = 1 /\ Len(<<a, b>>) = 2
      OBVIOUS
    <2>2. ASSUME NEW w, IsVariable(w)
          PROVE  Len(Path(w)) \in {1, 2} /\ (Len(Path(w)) = 1 <=> w[1] = Bare)
      BY <1>1, <2>1, <2>2
    <2> QED BY <2>2
  <1>3. StartsWith(v, v)
    <2>1. Front(t) = SubSeq(t, 1, Len(t) - 1) /\ Len(t) <= Len(t)
      BY <1>2 DEF Front
    <2> HIDE DEF t
    <2> QED BY <2>1 DEF StartsWith, t
  <1>4. ASSUME StartsWith(u, v), StartsWith(v, u)
        PROVE  u = v
    <2>1. /\ Len(t) <= Len(s) /\ Front(t) = SubSeq(s, 1, Len(t) - 1)
          /\ t[Len(t)] = s[Len(t)] \/ <<t[Len(t)], s[Len(t)]>> \in NameStarts
      BY <1>4 DEF StartsWith
    <2>2. /\ Len(s) <= Len(t)
          /\ s[Len(s)] = t[Len(s)] \/ <<s[Len(s)], t[Len(s)]>> \in NameStarts
      BY <1>4 DEF StartsWith
    <2>3. Len(s) = Len(t) /\ Len(s) \in {1, 2}
      <3> HIDE DEF s, t
      <3> QED BY <1>2, <2>1, <2>2
    <2>4. s[Len(s)] = t[Len(s)]
      <3> DEFINE e == <<s[Len(s)], t[Len(s)]>>
      <3>1. <<e[2], e[1]>> = <<t[Len(t)], s[Len(t)]>>
        BY <2>3
      <3>2. ~(e \in NameStarts /\ <<e[2], e[1]>> \in NameStarts)
        BY StartsAssumption
      <3> HIDE DEF s, t
      <3> QED BY <2>1, <2>2, <2>3, <3>1, <3>2
    <2>5. CASE Len(s) = 1
      <3>1. u[1] = Bare /\ v[1] = Bare
        <4> HIDE DEF s, t
        <4> QED BY <1>2, <2>3, <2>5
      <3>2. s = <<u[2]>> /\ t = <<v[2]>>
        BY <1>1, <3>1
      <3>3. u[2] = v[2]
        BY <2>4, <3>2
      <3> QED BY <3>1, <3>3 DEF IsVariable
    <2>6. CASE Len(s) = 2
      <3>1. u[1] # Bare /\ v[1] # Bare
        <4>1. Len(s) # 1 /\ Len(t) # 1
          BY <2>3, <2>6
        <4> QED BY <1>2, <4>1
      <3>2. s = <<u[1], u[2]>> /\ t = <<v[1], v[2]>>
        BY <1>1, <3>1
      <3> HIDE DEF s, t
      <3>3. Front(t)[1] = t[1] /\ SubSeq(s, 1, 1)[1] = s[1]
        BY <3>2 DEF Front
      <3>4. t[1] = s[1]
        BY <2>1, <2>3, <2>6, <3>3
      <3>5. u[1] = v[1] /\ u[2] = v[2]
        BY <2>4, <2>6, <3>2, <3>4
      <3> QED BY <3>5 DEF IsVariable
    <2> QED BY <2>3, <2>5, <2>6
  <1> QED BY <1>3, <1>4

(* A variable that has a value is replaced as a whole. *)
LEMMA ReplacedWhole ==
  ASSUME NEW names, \A u \in names : IsVariable(u), NEW v \in names
  PROVE  Replaced(v, names) = {v}
  <1> DEFINE starting == {u \in names : StartsWith(v, u)}
  <1>1. v \in starting
    BY StartsMean
  <1>2. \A u : u \in Replaced(v, names) <=> u = v
    <2>1. ASSUME NEW u \in Replaced(v, names)
          PROVE  u = v
      <3>1. u \in starting /\ StartsWith(u, v)
        BY <1>1 DEF Replaced
      <3> QED BY <3>1, StartsMean
    <2>2. v \in Replaced(v, names)
      BY <1>1 DEF Replaced
    <2> QED BY <2>1, <2>2
  <1> QED BY <1>2

----------------------------------------------------------------------------
(* What variables mean stays as it is once everything is loaded. *)
LEMMA MeaningStays ==
  ASSUME compilation' = compilation, resources' = resources, modules' = modules
  PROVE  /\ \A v : Meaning(v)' = Meaning(v)
         /\ \A r : HasPlace(r)' <=> HasPlace(r)
  <1>1. \A v : FromFlags(v)' = FromFlags(v)
    BY DEF FromFlags
  <1>2. \A v : FromFiles(v)' = FromFiles(v)
    BY DEF FromFiles
  <1>3. \A r : Written(r)' = Written(r)
    BY DEF Written
  <1>4. \A r, i, kind : Bindings(r, i, kind)' = Bindings(r, i, kind)
    BY <1>3 DEF Bindings
  <1>5. \A i, kind : Everywhere(i, kind)' = Everywhere(i, kind)
    BY <1>4 DEF Everywhere
  <1>6. \A i : Literals(i)' = Literals(i)
    BY <1>5 DEF Literals
  <1>7. \A v : Chain(v)' = Chain(v)
    BY <1>1, <1>2, <1>4, <1>6 DEF Chain
  <1>8. \A i : References(i)' = References(i)
    BY <1>5, <1>7 DEF References
  <1>9. \A v : Meaning(v)' = Meaning(v)
    BY <1>7, <1>8 DEF Meaning
  <1>10. \A r : HasPlace(r)' <=> HasPlace(r)
    BY <1>4, <1>9 DEF HasPlace
  <1> QED BY <1>9, <1>10

(* The arm a case dispatches to is one of its own. *)
LEMMA DispatchMeans ==
  ASSUME Loaded, NEW r \in DOMAIN resources, modules[r].cases # <<>>,
         \A c \in Range(modules[r].cases) : Dispatches(c),
         NEW arm, arm = DispatchCase(LastCase(modules[r]))
  PROVE  \A v \in arm.variables : IsVariable(v) /\ \E w \in arm.names : v = w[1]
  <1> DEFINE cases == modules[r].cases
             last  == Max(DOMAIN cases)
             arms0 == cases[last].arms
             chosen == {k \in DOMAIN arms0 : Selects(cases[last], arms0[k])}
  <1>1. PICK t \in ModuleTexts \ {Unreadable} : Accepted(ModuleIn[t]) /\ modules[r] = ModuleIn[t]
    BY LoadedModule
  <1>2. /\ \E n \in Nat : DOMAIN cases \subseteq 1..n
        /\ DOMAIN cases # {}
        /\ \A k \in DOMAIN cases :
             /\ \E n \in Nat : DOMAIN cases[k].arms \subseteq 1..n
             /\ \A m \in DOMAIN cases[k].arms :
                  \A v \in cases[k].arms[m].variables :
                    IsVariable(v) /\ \E w \in cases[k].arms[m].names : v = w[1]
    BY <1>1, ParsedModule
  <1>3. last \in DOMAIN cases
    <2> HIDE DEF cases
    <2> QED BY <1>2, GreatestPlace
  <1>4. arm = arms0[Min(chosen)]
    BY DEF DispatchCase, LastCase
  <1>5. Dispatches(cases[last])
    BY <1>3 DEF Range
  <1> HIDE DEF last, cases
  <1>6. chosen # {}
    <2>1. PICK a \in Range(arms0) : Selects(cases[last], a)
      BY <1>5 DEF Dispatches
    <2>2. PICK k \in DOMAIN arms0 : a = arms0[k]
      BY <2>1 DEF Range
    <2> QED BY <2>1, <2>2
  <1>7. chosen \in SUBSET Nat
    BY <1>2, <1>3
  <1>8. Min(chosen) \in DOMAIN arms0
    <2>1. Min(chosen) \in chosen
      <3> HIDE DEF chosen
      <3> QED BY <1>6, <1>7, LeastPlace
    <2> QED BY <2>1
  <1> DEFINE m == Min(chosen)
  <1>9. m \in DOMAIN cases[last].arms /\ arm = cases[last].arms[m]
    BY <1>4, <1>8
  <1> HIDE DEF m
  <1> QED BY <1>2, <1>3, <1>9

----------------------------------------------------------------------------
(* The steps up to the one that orders the resources. *)
BeforeOrder == {"load", "context", "dispatch", "edges", "sort"}

(* What a compilation knows of its dependencies on the way to their order. *)
Ordering ==
  /\ compilation \in Compilations
  /\ IsFiniteSet(DOMAIN resources)
  /\ pc \in BeforeOrder => topo = <<>> /\ cycle = {} /\ outcome # "circular"
  /\ pc = "sort" => edges = Explicit /\ \A e \in Explicit : e[1] \in DOMAIN resources

(* How far a compilation is: what its steps have not made yet. *)
Untouched ==
  /\ pc \in {"load", "context", "dispatch"} => arms = NoValues
  /\ pc \in {"load", "context", "dispatch", "edges"} => edges = {}
  /\ pc \in BeforeOrder => topo = <<>> /\ cycle = {}
  /\ pc \in BeforeOrder \cup {"group"} => groups = <<>> /\ output = <<>>

Nothing == groups = <<>> /\ output = <<>> /\ file = "previous" /\ outcome # "render"

(* And what they have: unless it stopped earlier. *)
Made ==
  /\ \/ ContextMeans(context)
     \/ Nothing /\ pc \in {"load", "context", "stopped"}
  /\ \/ DOMAIN arms = {r \in DOMAIN modules : modules[r].cases # <<>>}
     \/ Nothing /\ pc \in {"load", "context", "dispatch", "stopped"}
  /\ \/ topo \in TopoOrders(DOMAIN resources, Explicit)
     \/ Nothing /\ topo = <<>> /\ pc \in BeforeOrder \cup {"stopped"}

Parts ==
  /\ DOMAIN arms \subseteq DOMAIN resources
  /\ \A r \in DOMAIN arms : \A v \in arms[r].variables :
       IsVariable(v) /\ \E w \in arms[r].names : v = w[1]
  /\ edges \subseteq (DOMAIN resources) \X (DOMAIN resources)
  /\ cycle \subseteq DOMAIN resources

(* The steps and the output file. *)
Phases ==
  /\ pc \in Range(Steps) /\ outcome \in {"running", "ok"} \cup Failures
  /\ file \in {"previous", "empty", "written"} /\ hooked \in BOOLEAN
  /\ pc # "stopped" => outcome = "running" /\ hooked = FALSE
  /\ pc \notin {"write", "hook", "stopped"} => file = "previous"
  /\ outcome \in Failures \ {"write"} => file = "previous"
  /\ pc = "hook" => file = "written"
  /\ hooked => file = "written"
  /\ file # "previous" => pc \in {"write", "hook", "stopped"}

Prepared == Loaded /\ Ordering /\ Untouched /\ Made /\ Parts /\ Phases

LEMMA StepNames ==
  /\ Range(Steps) = {"load", "context", "dispatch", "edges", "sort", "group",
                     "assemble", "open", "write", "hook", "stopped"}
  /\ Failures = {"template", "module", "properties", "dispatch", "unknownDependency",
                 "circular", "validation", "render", "write"}
  <1>1. DOMAIN Steps = 1..11
    BY DEF Steps
  <1>2. 1..11 = {1, 2, 3, 4, 5, 6, 7, 8, 9, 10, 11}
    OBVIOUS
  <1> QED BY <1>1, <1>2 DEF Steps, Range, Failures

LEMMA PhasesStay ==
  ASSUME Phases, [Next]_vars
  PROVE  Phases'
  <1> USE StepNames DEF Phases
  <1>1. CASE Load
    BY <1>1 DEF Load, Fail, Goto, result
  <1>2. CASE BuildContext
    BY <1>2 DEF BuildContext, Fail, Goto, result
  <1>3. CASE Dispatch
    BY <1>3 DEF Dispatch, Fail, Goto, result
  <1>4. CASE AddEdges
    BY <1>4 DEF AddEdges, Fail, Goto, result
  <1>5. CASE Sort
    BY <1>5 DEF Sort, Goto, result
  <1>6. CASE GroupResources
    BY <1>6 DEF GroupResources, Goto, result
  <1>7. CASE AssembleOutput
    BY <1>7 DEF AssembleOutput, Fail, Goto
  <1>8. CASE EndAssembly
    BY <1>8 DEF EndAssembly, Goto, result
  <1>9. CASE OpenOutput
    BY <1>9 DEF OpenOutput, Fail, Goto
  <1>10. CASE WriteOutput
    BY <1>10 DEF WriteOutput, Fail, Goto
  <1>11. CASE OnCompileSuccess
    BY <1>11 DEF OnCompileSuccess
  <1>12. CASE UNCHANGED vars
    BY <1>12 DEF vars, result
  <1> QED BY <1>1, <1>2, <1>3, <1>4, <1>5, <1>6, <1>7, <1>8, <1>9, <1>10, <1>11, <1>12 DEF Next

(* An explicit edge is a dependency. *)
LEMMA ExplicitMeans ==
  /\ \A d, r : <<d, r>> \in Explicit <=> r \in DOMAIN resources /\ d \in resources[r].dependsOn
  /\ \A e \in Explicit : e = <<e[1], e[2]>> /\ e[2] \in DOMAIN resources
  BY DEF Explicit

(* To wait is to be stuck along explicit edges. *)
LEMMA WaitingIsStuck ==
  ASSUME NEW S \in SUBSET DOMAIN resources
  PROVE  Waiting(S) <=> Stuck(S, Explicit)
  BY ExplicitMeans DEF Waiting, Stuck

(* Steps 1 to 3 bring in the resources, finitely many. *)
LEMMA LoadOrders ==
  ASSUME Ordering, CycleRefused, Load
  PROVE  Ordering' /\ CycleRefused'
  <1>1. /\ pc = "load" /\ topo' = topo /\ cycle' = cycle /\ compilation' = compilation
        /\ pc' \in {"stopped", "context"} /\ outcome' # "circular"
    BY DEF Load, Fail, Goto, order, Ordering, BeforeOrder
  <1>2. topo' = <<>> /\ cycle' = {}
    BY <1>1 DEF Ordering, BeforeOrder
  <1>3. IsFiniteSet(DOMAIN resources')
    <2>1. CASE resources' = resources
      BY <2>1 DEF Ordering
    <2>2. CASE resources' # resources
      <3>1. /\ compilation.template # Unreadable
            /\ Accepted(TemplateIn[compilation.template])
            /\ DOMAIN resources' = Names(TemplateIn[compilation.template])
        BY <2>2 DEF Load, Fail, loaded
      <3>2. compilation.template \in TemplateTexts \ {Unreadable}
        BY <3>1 DEF Ordering, TemplateTexts
      <3> QED BY <3>1, <3>2, NamesFinite
    <2> QED BY <2>1, <2>2
  <1>4. Ordering'
    BY <1>1, <1>2, <1>3 DEF Ordering
  <1> QED BY <1>1, <1>2, <1>4 DEF CycleRefused, Waiting

(* Step 10 keeps the edges only when all are between resources. *)
LEMMA AddEdgesOrders ==
  ASSUME Ordering, CycleRefused, AddEdges
  PROVE  Ordering' /\ CycleRefused'
  <1>1. /\ pc = "edges" /\ topo' = topo /\ cycle' = cycle /\ resources' = resources
        /\ compilation' = compilation /\ outcome' # "circular"
    BY DEF AddEdges, Fail, Goto, loaded, order, Ordering, BeforeOrder
  <1>2. topo' = <<>> /\ cycle' = {}
    BY <1>1 DEF Ordering, BeforeOrder
  <1>3. pc' = "sort" => edges' = Explicit /\ \A e \in Explicit : e[1] \in DOMAIN resources
    BY DEF AddEdges, Fail, Goto
  <1>4. Explicit' = Explicit
    BY <1>1 DEF Explicit
  <1>5. Ordering'
    BY <1>1, <1>2, <1>3, <1>4 DEF Ordering
  <1> QED BY <1>1, <1>2, <1>5 DEF CycleRefused, Waiting

(* Step 11 finds an order, or resources that all wait for one another.     *)
LEMMA SortOrders ==
  ASSUME Ordering, CycleRefused, Sort
  PROVE  Ordering' /\ CycleRefused'
  <1> DEFINE nodes  == DOMAIN resources
             orders == TopoOrders(nodes, edges)
  <1>1. /\ pc = "sort" /\ resources' = resources /\ compilation' = compilation
        /\ pc' \in {"stopped", "group"}
    BY DEF Sort, Goto, loaded
  <1>2. edges = Explicit /\ edges \subseteq nodes \X nodes
    BY <1>1, ExplicitMeans DEF Ordering
  <1>3. Ordering'
    BY <1>1 DEF Ordering, BeforeOrder
  <1>4. \A S \in SUBSET nodes : Waiting(S) <=> Stuck(S, edges)
    BY <1>2, WaitingIsStuck
  <1>5. topo = <<>> /\ cycle = {} /\ outcome # "circular" /\ IsFiniteSet(nodes)
    BY <1>1 DEF Ordering, BeforeOrder
  <1>6. CASE orders = {} /\ outcome' = "circular" /\ cycle' = CycleMembers(nodes, edges) /\ topo' = topo
    <2>1. \E S \in SUBSET nodes : S # {} /\ Waiting(S)
      BY <1>4, <1>5, <1>6, UnorderedStuck
    <2>2. Waiting(cycle')
      <3>1. CycleMembers(nodes, edges) \subseteq nodes
        BY Zenon DEF CycleMembers
      <3> QED BY <1>2, <1>4, <1>6, <3>1, MembersStuck
    <2> HIDE DEF nodes
    <2>3. (DOMAIN resources)' = nodes
      BY <1>1 DEF nodes
    <2>4. ~(topo' # <<>>)
      BY <1>5, <1>6
    <2>5. cycle' # {} \/ \E r \in nodes : Waiting({r})
      <3>1. PICK S \in SUBSET nodes : S # {} /\ Waiting(S)
        BY <2>1
      <3>2. Stuck(S, edges)
        BY <1>4, <3>1
      <3>3. CASE \A r \in S : <<r, r>> \notin edges
        BY <1>2, <1>5, <1>6, <3>1, <3>2, <3>3, StuckHasMembers
      <3>4. CASE \E r \in S : <<r, r>> \in edges
        <4>1. PICK r \in S : <<r, r>> \in edges
          BY <3>4
        <4>2. Stuck({r}, edges) /\ {r} \in SUBSET nodes
          BY <4>1 DEF Stuck
        <4> QED BY <1>4, <4>2
      <3> QED BY <3>3, <3>4
    <2> QED BY <1>1, <1>3, <2>1, <2>2, <2>3, <2>4, <2>5 DEF CycleRefused, Waiting
  <1>7. CASE topo' \in orders /\ cycle' = cycle /\ outcome' = outcome
    <2>1. \A S \in SUBSET nodes : Waiting(S) => S = {}
      BY <1>4, <1>5, <1>7, OrderedNotStuck
    <2>2. Waiting(cycle)
      BY <1>5 DEF Waiting
    <2>3. ~(outcome' = "circular") /\ cycle' = cycle
      BY <1>5, <1>7
    <2> QED BY <1>1, <1>3, <2>1, <2>2, <2>3 DEF CycleRefused, Waiting
  <1>8. \/ orders = {} /\ outcome' = "circular" /\ cycle' = CycleMembers(nodes, edges) /\ topo' = topo
        \/ topo' \in orders /\ cycle' = cycle /\ outcome' = outcome
    BY Zenon DEF Sort, Goto
  <1> QED BY <1>6, <1>7, <1>8

(* No other step touches resources or their order, or fails as circular.   *)
LEMMA OthersOrder ==
  ASSUME Ordering, CycleRefused,
         \/ BuildContext \/ Dispatch \/ GroupResources
         \/ AssembleOutput \/ EndAssembly \/ OpenOutput \/ WriteOutput \/ OnCompileSuccess
         \/ UNCHANGED vars
  PROVE  Ordering' /\ CycleRefused'
  <1> DEFINE Kept ==
               /\ resources' = resources /\ topo' = topo /\ cycle' = cycle
               /\ compilation' = compilation
               /\ outcome' = "circular" => outcome = "circular"
               /\ pc' \in BeforeOrder => pc \in BeforeOrder
               /\ pc' = "sort" => edges' = edges /\ pc = "sort"
  <1>1. Kept
    <2>1. CASE BuildContext
      BY <2>1 DEF BuildContext, Fail, Goto, loaded, order, BeforeOrder
    <2>2. CASE Dispatch
      BY <2>2 DEF Dispatch, Fail, Goto, loaded, order, BeforeOrder
    <2>3. CASE GroupResources
      BY <2>3 DEF GroupResources, Goto, loaded, BeforeOrder
    <2>4. CASE AssembleOutput
      BY <2>4 DEF AssembleOutput, Fail, Goto, loaded, order, BeforeOrder
    <2>5. CASE EndAssembly
      BY <2>5 DEF EndAssembly, Goto, loaded, order, BeforeOrder
    <2>6. CASE OpenOutput
      BY <2>6 DEF OpenOutput, Fail, Goto, loaded, order, BeforeOrder
    <2>7. CASE WriteOutput
      BY <2>7 DEF WriteOutput, Fail, Goto, loaded, order, BeforeOrder
    <2>8. CASE OnCompileSuccess
      BY <2>8 DEF OnCompileSuccess, loaded, order, BeforeOrder
    <2>9. CASE UNCHANGED vars
      BY <2>9 DEF vars, loaded, order
    <2> QED BY <2>1, <2>2, <2>3, <2>4, <2>5, <2>6, <2>7, <2>8, <2>9
  <1>3. Explicit' = Explicit
    BY <1>1 DEF Explicit
  <1>4. Ordering'
    BY <1>1, <1>3 DEF Ordering
  <1> QED BY <1>1, <1>4 DEF CycleRefused, Waiting

LEMMA LoadPrepares ==
  ASSUME Prepared, Ordering', Phases', Load
  PROVE  Loaded' /\ Untouched' /\ Made' /\ Parts'
  <1>1. /\ pc = "load" /\ pc' \in {"context", "stopped"} /\ outcome' # "render"
        /\ compilation' = compilation /\ arms' = arms /\ edges' = edges /\ cycle' = cycle
        /\ topo' = topo /\ groups' = groups /\ output' = output
    BY DEF Load, Fail, Goto, order, result, Prepared, Phases
  <1>2. arms = NoValues /\ edges = {} /\ cycle = {} /\ topo = <<>> /\ groups = <<>> /\ output = <<>>
    BY <1>1 DEF Prepared, Untouched, BeforeOrder
  <1>3. file' = "previous"
    BY <1>1 DEF Load, Fail, result, Prepared, Phases
  <1>4. Untouched'
    BY <1>1, <1>2 DEF Untouched
  <1>5. Made'
    BY <1>1, <1>2, <1>3 DEF Made, Nothing, BeforeOrder
  <1>6. DOMAIN arms = {}
    BY <1>2 DEF NoValues
  <1>7. Parts'
    BY <1>1, <1>2, <1>6 DEF Parts
  <1>8. Loaded'
    <2>1. CASE UNCHANGED loaded
      BY <1>1, <2>1 DEF loaded, Prepared, Loaded, Loads, ResolveModule
    <2>2. CASE ~UNCHANGED loaded
      <3> DEFINE parsed   == TemplateIn[compilation.template]
                 template == parsed.resources
                 Decl(r)  == LastDeclaration(template, r)
      <3>1. /\ compilation.template # Unreadable /\ Accepted(parsed)
            /\ \A d \in Range(template) : Loads(d.module)
            /\ resources' = [r \in Names(parsed) |-> Decl(r)]
            /\ modules' = [r \in Names(parsed) |-> ModuleIn[ResolveModule(Decl(r).module)]]
        BY <2>2 DEF Load, Fail, loaded
      <3>2. compilation \in Compilations /\ compilation.template \in TemplateTexts \ {Unreadable}
        BY <3>1 DEF Prepared, Loaded, TemplateTexts
      <3>3. \A r \in Names(parsed) : Decl(r) \in Range(template)
        BY <3>1, <3>2, LastDeclared
      <3>4. \A name : ResolveModule(name)' = ResolveModule(name) /\ (Loads(name)' <=> Loads(name))
        BY <1>1 DEF ResolveModule, Loads
      <3>5. DOMAIN resources' = Names(parsed) /\ DOMAIN modules' = Names(parsed)
        BY <3>1
      <3>6. \A r \in Names(parsed) : /\ resources'[r] = Decl(r)
                                     /\ modules'[r] = ModuleIn[ResolveModule(resources'[r].module)]
                                     /\ Loads(resources'[r].module)
        BY <3>1, <3>3
      <3> QED BY <1>1, <3>1, <3>2, <3>4, <3>5, <3>6 DEF Loaded
    <2> QED BY <2>1, <2>2
  <1> QED BY <1>4, <1>5, <1>7, <1>8

(* What the later steps leave alone. *)
LEMMA LoadedStays ==
  ASSUME Loaded, compilation' = compilation, UNCHANGED loaded
  PROVE  Loaded' /\ Explicit' = Explicit /\ (ContextMeans(context) /\ context' = context => ContextMeans(context)')
  <1>1. resources' = resources /\ modules' = modules
    BY DEF loaded
  <1>2. \A name : ResolveModule(name)' = ResolveModule(name) /\ (Loads(name)' <=> Loads(name))
    BY DEF ResolveModule, Loads
  <1>3. Loaded'
    BY <1>1, <1>2 DEF Loaded
  <1>4. Explicit' = Explicit
    BY <1>1 DEF Explicit
  <1>5. ContextMeans(context) /\ context' = context => ContextMeans(context)'
    BY <1>1, MeaningStays DEF ContextMeans
  <1> QED BY <1>3, <1>4, <1>5

LEMMA ContextPrepares ==
  ASSUME Prepared, Ordering', Phases', BuildContext
  PROVE  Loaded' /\ Untouched' /\ Made' /\ Parts'
  <1>1. /\ pc = "context" /\ pc' \in {"dispatch", "stopped"} /\ outcome' # "render"
        /\ compilation' = compilation /\ UNCHANGED loaded /\ UNCHANGED order /\ arms' = arms
        /\ output' = output /\ file' = file
    BY DEF BuildContext, Fail, Goto, result, Prepared, Phases
  <1>2. arms = NoValues /\ topo = <<>> /\ groups = <<>> /\ output = <<>> /\ edges = {} /\ cycle = {}
    BY <1>1 DEF Prepared, Untouched, BeforeOrder
  <1>3. Loaded' /\ file = "previous"
    BY <1>1, LoadedStays DEF Prepared, Phases
  <1>4. Untouched'
    BY <1>1, <1>2 DEF Untouched, order
  <1>5. DOMAIN arms = {}
    BY <1>2 DEF NoValues
  <1>6. Parts'
    BY <1>1, <1>2, <1>5 DEF Parts, order
  <1>7. pc' = "dispatch" => ContextMeans(context')
    BY <1>1, TwoPassMeans DEF BuildContext, Fail, Prepared, Ordering
  <1>8. pc' = "dispatch" => ContextMeans(context)'
    <2>1. resources' = resources /\ modules' = modules
      BY <1>1 DEF loaded
    <2> QED BY <1>1, <1>7, <2>1, MeaningStays DEF ContextMeans
  <1>9. Made'
    BY <1>1, <1>2, <1>3, <1>8 DEF Made, Nothing, BeforeOrder, order
  <1> QED BY <1>3, <1>4, <1>6, <1>9

LEMMA DispatchPrepares ==
  ASSUME Prepared, Ordering', Phases', Dispatch
  PROVE  Loaded' /\ Untouched' /\ Made' /\ Parts'
  <1>1. /\ pc = "dispatch" /\ pc' \in {"edges", "stopped"} /\ outcome' # "render"
        /\ compilation' = compilation /\ UNCHANGED loaded /\ UNCHANGED order /\ context' = context
        /\ output' = output /\ file' = file
    BY DEF Dispatch, Fail, Goto, result, Prepared, Phases
  <1>2. arms = NoValues /\ topo = <<>> /\ groups = <<>> /\ output = <<>> /\ edges = {} /\ cycle = {}
    BY <1>1 DEF Prepared, Untouched, BeforeOrder
  <1>3. Loaded' /\ file = "previous" /\ Explicit' = Explicit
    BY <1>1, LoadedStays DEF Prepared, Phases
  <1>4. Untouched'
    BY <1>1, <1>2 DEF Untouched, order
  <1>5. ContextMeans(context)'
    BY <1>1, LoadedStays DEF Prepared, Made
  <1>6. CASE arms' = arms /\ pc' = "stopped"
    <2>1. DOMAIN arms = {}
      BY <1>2 DEF NoValues
    <2>2. Parts'
      BY <1>1, <1>2, <1>6, <2>1 DEF Parts, order
    <2>3. Made'
      BY <1>1, <1>2, <1>3, <1>5, <1>6 DEF Made, Nothing, order
    <2> QED BY <1>3, <1>4, <2>2, <2>3
  <1>7. CASE /\ \A r \in DOMAIN modules : \A c \in Range(modules[r].cases) : Dispatches(c)
             /\ arms' = [r \in {q \in DOMAIN modules : modules[q].cases # <<>>} |->
                           DispatchCase(LastCase(modules[r]))]
             /\ pc' = "edges"
    <2>1. DOMAIN arms' = {q \in DOMAIN modules : modules[q].cases # <<>>}
      BY <1>7
    <2>2. DOMAIN modules = DOMAIN resources /\ Loaded
      BY DEF Prepared, Loaded
    <2>3. resources' = resources /\ modules' = modules
      BY <1>1 DEF loaded
    <2>4. \A r \in DOMAIN arms' : arms'[r] = DispatchCase(LastCase(modules[r]))
      BY <1>7
    <2>5. \A r \in DOMAIN arms' : \A v \in arms'[r].variables :
            IsVariable(v) /\ \E w \in arms'[r].names : v = w[1]
      BY <1>7, <2>1, <2>2, <2>4, DispatchMeans
    <2>6. Parts'
      BY <1>1, <1>2, <2>1, <2>2, <2>3, <2>5 DEF Parts, order
    <2>7. Made'
      BY <1>1, <1>2, <1>3, <1>5, <1>7, <2>1, <2>3 DEF Made, Nothing, BeforeOrder, order
    <2> QED BY <1>3, <1>4, <2>6, <2>7
  <1>8. \/ arms' = arms /\ pc' = "stopped"
        \/ /\ \A r \in DOMAIN modules : \A c \in Range(modules[r].cases) : Dispatches(c)
           /\ arms' = [r \in {q \in DOMAIN modules : modules[q].cases # <<>>} |->
                         DispatchCase(LastCase(modules[r]))]
           /\ pc' = "edges"
    BY Zenon DEF Dispatch, Fail, Goto
  <1> QED BY <1>6, <1>7, <1>8

LEMMA EdgesPrepare ==
  ASSUME Prepared, Ordering', Phases', AddEdges
  PROVE  Loaded' /\ Untouched' /\ Made' /\ Parts'
  <1>1. /\ pc = "edges" /\ pc' \in {"sort", "stopped"} /\ outcome' # "render"
        /\ compilation' = compilation /\ UNCHANGED loaded /\ context' = context /\ arms' = arms
        /\ UNCHANGED <<topo, groups, cycle>>
        /\ output' = output /\ file' = file
    BY DEF AddEdges, Fail, Goto, result, order, Prepared, Phases
  <1>2. topo = <<>> /\ groups = <<>> /\ output = <<>> /\ edges = {} /\ cycle = {}
    BY <1>1 DEF Prepared, Untouched, BeforeOrder
  <1>3. Loaded' /\ file = "previous" /\ Explicit' = Explicit
    BY <1>1, LoadedStays DEF Prepared, Phases
  <1>4. Untouched'
    BY <1>1, <1>2 DEF Untouched
  <1>5. ContextMeans(context)'
    BY <1>1, LoadedStays DEF Prepared, Made
  <1>6. edges' \subseteq (DOMAIN resources) \X (DOMAIN resources)
    <2>1. edges' = edges \/ (edges' = Explicit /\ \A e \in Explicit : e[1] \in DOMAIN resources)
      BY DEF AddEdges, Fail, order
    <2> QED BY <1>2, <2>1, ExplicitMeans
  <1>7. resources' = resources /\ modules' = modules
    BY <1>1 DEF loaded
  <1>8. Parts'
    BY <1>1, <1>6, <1>7 DEF Prepared, Parts
  <1>9. Made'
    <2>1. DOMAIN arms = {r \in DOMAIN modules : modules[r].cases # <<>>}
      BY <1>1 DEF Prepared, Made
    <2> QED BY <1>1, <1>2, <1>3, <1>5, <1>7, <2>1 DEF Made, Nothing, BeforeOrder
  <1> QED BY <1>3, <1>4, <1>8, <1>9

LEMMA SortPrepares ==
  ASSUME Prepared, Ordering', Phases', Sort
  PROVE  Loaded' /\ Untouched' /\ Made' /\ Parts'
  <1>1. /\ pc = "sort" /\ pc' \in {"group", "stopped"} /\ outcome' # "render"
        /\ compilation' = compilation /\ UNCHANGED loaded /\ context' = context /\ arms' = arms
        /\ edges' = edges /\ groups' = groups
        /\ output' = output /\ file' = file
    BY DEF Sort, Goto, result, Prepared, Phases
  <1>2. topo = <<>> /\ groups = <<>> /\ output = <<>> /\ cycle = {} /\ edges = Explicit
    BY <1>1 DEF Prepared, Untouched, BeforeOrder, Ordering
  <1>3. Loaded' /\ file = "previous" /\ Explicit' = Explicit
    BY <1>1, LoadedStays DEF Prepared, Phases
  <1>4. Untouched'
    BY <1>1, <1>2 DEF Untouched, BeforeOrder
  <1>5. ContextMeans(context)'
    BY <1>1, LoadedStays DEF Prepared, Made
  <1>6. resources' = resources /\ modules' = modules
    BY <1>1 DEF loaded
  <1>7. \/ pc' = "stopped" /\ topo' = topo /\ cycle' = CycleMembers(DOMAIN resources, edges)
        \/ topo' \in TopoOrders(DOMAIN resources, edges) /\ cycle' = cycle
    BY Zenon DEF Sort, Goto
  <1>8. cycle' \subseteq DOMAIN resources
    <2>1. CycleMembers(DOMAIN resources, edges) \subseteq DOMAIN resources
      BY Zenon DEF CycleMembers
    <2> QED BY <1>2, <1>7, <2>1
  <1>9. Parts'
    BY <1>1, <1>6, <1>8 DEF Prepared, Parts
  <1>10. Made'
    <2>1. DOMAIN arms = {r \in DOMAIN modules : modules[r].cases # <<>>}
      BY <1>1 DEF Prepared, Made
    <2> QED BY <1>1, <1>2, <1>3, <1>5, <1>6, <1>7, <2>1 DEF Made, Nothing
  <1> QED BY <1>3, <1>4, <1>9, <1>10

LEMMA OthersPrepare ==
  ASSUME Prepared, Ordering', Phases',
         \/ GroupResources \/ AssembleOutput \/ EndAssembly
         \/ OpenOutput \/ WriteOutput \/ OnCompileSuccess
         \/ UNCHANGED vars
  PROVE  Loaded' /\ Untouched' /\ Made' /\ Parts'
  <1>1. /\ compilation' = compilation /\ UNCHANGED loaded /\ context' = context /\ arms' = arms
        /\ edges' = edges /\ topo' = topo /\ cycle' = cycle
    BY DEF GroupResources, AssembleOutput, EndAssembly, OpenOutput, WriteOutput, OnCompileSuccess,
           vars, Fail, Goto, order
  <1>2. \/ UNCHANGED vars
        \/ pc \in {"group", "assemble", "open", "write", "hook"} /\ pc' \in {"assemble", "open", "write", "hook", "stopped"}
    BY DEF GroupResources, AssembleOutput, EndAssembly, OpenOutput, WriteOutput, OnCompileSuccess,
           Fail, Goto
  <1>3. Loaded' /\ Explicit' = Explicit
    BY <1>1, LoadedStays DEF Prepared
  <1>4. Untouched'
    BY <1>1, <1>2 DEF Prepared, Untouched, BeforeOrder, vars, order, result
  <1>5. resources' = resources /\ modules' = modules
    BY <1>1 DEF loaded
  <1>6. Parts'
    BY <1>1, <1>5 DEF Prepared, Parts
  <1>7. CASE UNCHANGED vars
    <2>1. ContextMeans(context) => ContextMeans(context)'
      BY <1>1, LoadedStays DEF Prepared
    <2> QED BY <1>1, <1>3, <1>4, <1>5, <1>6, <1>7, <2>1 DEF Prepared, Made, Nothing, vars, order, result
  <1>8. CASE /\ pc \in {"group", "assemble", "open", "write", "hook"}
             /\ pc' \in {"assemble", "open", "write", "hook", "stopped"}
    <2>1. /\ ContextMeans(context)
          /\ DOMAIN arms = {r \in DOMAIN modules : modules[r].cases # <<>>}
          /\ topo \in TopoOrders(DOMAIN resources, Explicit)
      BY <1>8 DEF Prepared, Made, BeforeOrder
    <2>2. ContextMeans(context)'
      BY <1>1, <2>1, LoadedStays DEF Prepared
    <2> QED BY <1>1, <1>3, <1>4, <1>5, <1>6, <2>1, <2>2 DEF Made
  <1> QED BY <1>2, <1>7, <1>8

(* The dependencies, the context and the arms are what they should be.     *)
LEMMA PreparedAlways == Spec => [](Prepared /\ CycleRefused)
  <1>1. Init => Prepared /\ CycleRefused
    <2> SUFFICES ASSUME Init
                 PROVE  Prepared /\ CycleRefused
      OBVIOUS
    <2>1. DOMAIN resources = {} /\ DOMAIN modules = {} /\ DOMAIN arms = {}
      BY DEF Init, NoValues
    <2>2. Explicit = {}
      BY <2>1 DEF Explicit
    <2>3. Ordering /\ CycleRefused
      BY <2>1, <2>2, FS_EmptySet DEF Init, Ordering, CycleRefused, Waiting
    <2>4. Loaded
      BY <2>1 DEF Init, Loaded
    <2>5. Untouched /\ Made /\ Parts
      BY <2>1 DEF Init, Untouched, Made, Nothing, Parts, BeforeOrder
    <2>6. Phases
      BY StepNames DEF Init, Phases
    <2> QED BY <2>3, <2>4, <2>5, <2>6 DEF Prepared
  <1>2. Prepared /\ CycleRefused /\ [Next]_vars => (Prepared /\ CycleRefused)'
    <2> SUFFICES ASSUME Prepared, CycleRefused, [Next]_vars
                 PROVE  Prepared' /\ CycleRefused'
      OBVIOUS
    <2>1. Ordering' /\ CycleRefused'
      BY LoadOrders, AddEdgesOrders, SortOrders, OthersOrder DEF Next, Prepared
    <2>2. Phases'
      BY PhasesStay DEF Prepared
    <2>3. Loaded' /\ Untouched' /\ Made' /\ Parts'
      BY <2>1, <2>2, LoadPrepares, ContextPrepares, DispatchPrepares, EdgesPrepare, SortPrepares,
         OthersPrepare DEF Next
    <2> QED BY <2>1, <2>2, <2>3 DEF Prepared
  <1> QED BY <1>1, <1>2, PTL DEF Spec

----------------------------------------------------------------------------
(* Assembly. *)

LEMMA EmptyList == IsList(<<>>) /\ DOMAIN <<>> = {}
  <1>1. Len(<<>>) = 0 /\ <<>> = [k \in 1..0 |-> <<>>[k]]
    OBVIOUS
  <1> QED BY <1>1 DEF IsList

LEMMA SeqIsList ==
  ASSUME NEW S, NEW s \in Seq(S)
  PROVE  IsList(s) /\ DOMAIN s = 1..Len(s) /\ \A k \in DOMAIN s : s[k] \in S
  <1>1. Len(s) \in Nat /\ DOMAIN s = 1..Len(s) /\ \A k \in DOMAIN s : s[k] \in S
    OBVIOUS
  <1>2. s = [k \in DOMAIN s |-> s[k]]
    OBVIOUS
  <1> QED BY <1>1, <1>2 DEF IsList

LEMMA ConcatMeans ==
  ASSUME NEW a, IsList(a), NEW b, IsList(b), NEW c, c = a \o b
  PROVE  /\ IsList(c) /\ DOMAIN a \subseteq Nat
         /\ \A k \in DOMAIN a : k \in DOMAIN c /\ c[k] = a[k] /\ k <= Len(a)
         /\ \A k \in DOMAIN b : Len(a) + k \in DOMAIN c /\ c[Len(a) + k] = b[k] /\ k \in Nat /\ k >= 1
         /\ \A k \in DOMAIN c : k \in Nat /\ (k \in DOMAIN a \/ k - Len(a) \in DOMAIN b)
         /\ Len(a) \in Nat
  <1> DEFINE S == Range(a) \cup Range(b)
  <1>1. DOMAIN a = 1..Len(a) /\ Len(a) \in Nat /\ DOMAIN b = 1..Len(b) /\ Len(b) \in Nat
    BY ListPlaces
  <1>2. a \in Seq(S)
    <2>1. \A k \in 1..Len(a) : a[k] \in S
      BY <1>1 DEF Range
    <2> HIDE DEF S
    <2> DEFINE n == Len(a)
    <2>2. a = [k \in 1..n |-> a[k]] /\ n \in Nat
      BY DEF IsList
    <2> HIDE DEF n
    <2>3. a \in [1..n -> S]
      BY <2>1, <2>2 DEF n
    <2> QED BY <2>2, <2>3
  <1>3. b \in Seq(S)
    <2>1. \A k \in 1..Len(b) : b[k] \in S
      BY <1>1 DEF Range
    <2> HIDE DEF S
    <2> DEFINE n == Len(b)
    <2>2. b = [k \in 1..n |-> b[k]] /\ n \in Nat
      BY DEF IsList
    <2> HIDE DEF n
    <2>3. b \in [1..n -> S]
      BY <2>1, <2>2 DEF n
    <2> QED BY <2>2, <2>3
  <1> HIDE DEF S
  <1>4. /\ c \in Seq(S) /\ Len(c) = Len(a) + Len(b) /\ DOMAIN c = 1..(Len(a) + Len(b))
        /\ \A k \in 1..(Len(a) + Len(b)) : c[k] = IF k <= Len(a) THEN a[k] ELSE b[k - Len(a)]
    BY <1>2, <1>3
  <1>5. IsList(c)
    BY <1>4, SeqIsList
  <1> DEFINE n == Len(a)
             m == Len(b)
  <1> HIDE DEF n, m
  <1>6. /\ DOMAIN a = 1..n /\ DOMAIN b = 1..m /\ n \in Nat /\ m \in Nat
        /\ DOMAIN c = 1..(n + m)
        /\ \A k \in 1..(n + m) : c[k] = IF k <= n THEN a[k] ELSE b[k - n]
    BY <1>1, <1>4 DEF n, m
  <1>7. \A k \in 1..n : k \in 1..(n + m) /\ k <= n /\ k \in Nat
    BY <1>6
  <1>8. \A k \in 1..m : n + k \in 1..(n + m) /\ ~(n + k <= n) /\ (n + k) - n = k /\ k \in Nat /\ k >= 1
    BY <1>6
  <1>9. \A k \in 1..(n + m) : k \in Nat /\ (k \in 1..n \/ k - n \in 1..m)
    BY <1>6
  <1> QED BY <1>5, <1>6, <1>7, <1>8, <1>9 DEF n, m

(* The groups that are left: of different places and resources, each in    *)
(* the order of all.                                                       *)
PlacedGroups == [placement : Nat \X Nat, resources : Seq(DOMAIN resources)]

GroupsLeft ==
  /\ groups \in Seq(PlacedGroups)
  /\ \A i \in DOMAIN groups :
       \E T \in SUBSET DOMAIN resources : groups[i].resources \in TopoOrders(T, Earlier(topo))
  /\ \A i, j \in DOMAIN groups : i # j =>
       /\ groups[i].placement # groups[j].placement
       /\ Range(groups[i].resources) \cap Range(groups[j].resources) = {}

(* The blocks there are: of other places, each rendered from its arm and   *)
(* the context, and those of one place in the order of all.                *)
OutputMade ==
  /\ IsList(output)
  /\ \A k \in DOMAIN output :
       /\ output[k].resource \in DOMAIN arms
       /\ output[k] = Block(output[k].resource, output[k].placement)
       /\ Uses(output[k].resource) \subseteq DOMAIN context
       /\ \A i \in DOMAIN groups : groups[i].placement # output[k].placement
  /\ \A j, k \in DOMAIN output :
       j < k /\ output[j].placement = output[k].placement
         => <<output[j].resource, output[k].resource>> \in Earlier(topo)

Pending(r) == \E i \in DOMAIN groups : r \in Range(groups[i].resources)

(* Every resource with a place is in a group that is left, or valid and    *)
(* in the output once; the others are in neither.                          *)
Accounted ==
  /\ pc \in {"assemble", "open", "write", "hook"} \/ file # "previous" =>
       \A r \in DOMAIN resources :
         /\ Pending(r) => HasPlace(r) /\ Emitted(r) = {}
         /\ ~Pending(r) /\ HasPlace(r) =>
              /\ ~HasErrors(r)
              /\ r \in DOMAIN arms => \E k : Emitted(r) = {k}
              /\ r \notin DOMAIN arms => Emitted(r) = {}
         /\ ~HasPlace(r) => Emitted(r) = {}
  /\ pc \in {"open", "write", "hook"} \/ file # "previous" => groups = <<>>

RenderRefuses ==
  outcome = "render" => \E r \in DOMAIN arms : CannotRender(r)

Assembled == GroupsLeft /\ OutputMade /\ Accounted /\ RenderRefuses

(* Blocks only depend on the context and the arms. *)
LEMMA BlockStays ==
  ASSUME context' = context, arms' = arms, NEW r, NEW p
  PROVE  /\ Block(r, p)' = Block(r, p)
         /\ Block(r, p).resource = r /\ Block(r, p).placement = p
  <1>1. Uses(r)' = Uses(r)
    BY DEF Uses
  <1>2. \A w, names : Substituted(w, names)' = Substituted(w, names)
    BY DEF Substituted
  <1>3. \A x : VariablesIn(x)' = VariablesIn(x)
    BY DEF VariablesIn
  <1> QED BY <1>1, <1>2, <1>3 DEF Block

LEMMA NothingAssembled ==
  ASSUME groups = <<>>, output = <<>>, outcome # "render", file = "previous",
         pc \notin {"assemble", "open", "write", "hook"}
  PROVE  Assembled
  <1>1. DOMAIN groups = {} /\ DOMAIN output = {} /\ IsList(output) /\ groups \in Seq(PlacedGroups)
    BY EmptyList
  <1> QED BY <1>1 DEF Assembled, GroupsLeft, OutputMade, Accounted, RenderRefuses

(* A step of the compilation that is over, or writes. *)
LEMMA AssembledStays ==
  ASSUME Assembled, compilation' = compilation, UNCHANGED loaded,
         UNCHANGED <<context, arms, topo, groups, output>>,
         outcome' = "render" => outcome = "render",
         pc' \in {"assemble", "open", "write", "hook"} \/ file' # "previous"
            => pc \in {"assemble", "open", "write", "hook"} \/ file # "previous",
         pc' \in {"open", "write", "hook"} \/ file' # "previous" => groups = <<>>
  PROVE  Assembled'
  <1>1. resources' = resources /\ modules' = modules
    BY DEF loaded
  <1>2. /\ \A v : Meaning(v)' = Meaning(v)
        /\ \A r : HasPlace(r)' <=> HasPlace(r)
    BY <1>1, MeaningStays
  <1>3. GroupsLeft'
    BY <1>1 DEF Assembled, GroupsLeft, PlacedGroups
  <1>4. \A r : Uses(r)' = Uses(r) /\ (HasErrors(r)' <=> HasErrors(r)) /\ Emitted(r)' = Emitted(r)
               /\ (Pending(r)' <=> Pending(r))
    BY <1>1 DEF Uses, HasErrors, InputsMatch, Bound, Violates, Evaluates, Emitted, Pending
  <1>5. \A r, p : Block(r, p)' = Block(r, p)
    BY BlockStays
  <1>6. OutputMade'
    BY <1>4, <1>5 DEF Assembled, OutputMade
  <1>7. Accounted'
    BY <1>1, <1>2, <1>4 DEF Assembled, Accounted
  <1>8. RenderRefuses'
    BY <1>2, <1>4 DEF Assembled, RenderRefuses, CannotRender
  <1> QED BY <1>3, <1>6, <1>7, <1>8 DEF Assembled

(* A resource is placed by its own binding, or by the plain variable. *)
LEMMA PlacedByMeans ==
  ASSUME Loaded, ContextMeans(context), NEW r \in DOMAIN resources, NEW i
  PROVE  /\ PlacedBy(r, i) \subseteq Nat
         /\ PlacedBy(r, i) # {}
              <=> \/ Bindings(r, i, "value") \cup Bindings(r, i, "mixed") # {}
                  \/ \E v \in Bindings(r, i, "refers") : Meaning(v) # {}
                  \/ Meaning(<<Bare, i>>) # {}
  <1> DEFINE own    == BindingValue(resources[r], i, context)
             global == IF <<Bare, i>> \in DOMAIN context THEN {context[<<Bare, i>>]} ELSE {}
  <1>1. PlacedBy(r, i) = IF own # {} THEN own ELSE global
    BY DEF PlacedBy
  <1>2. global \subseteq Nat /\ (global # {} <=> Meaning(<<Bare, i>>) # {})
    BY DEF ContextMeans, IsVariable
  <1>3. /\ own = IF Bindings(r, i, "value") # {} THEN Bindings(r, i, "value")
                 ELSE IF Bindings(r, i, "mixed") # {} THEN Bindings(r, i, "mixed")
                 ELSE {context[v] : v \in Bindings(r, i, "refers") \cap DOMAIN context}
        /\ own \subseteq Nat
        /\ \A v \in Bindings(r, i, "refers") : IsVariable(v)
    BY BoundMeans DEF ContextMeans
  <1>4. {context[v] : v \in Bindings(r, i, "refers") \cap DOMAIN context} # {}
          <=> \E v \in Bindings(r, i, "refers") : Meaning(v) # {}
    BY <1>3 DEF ContextMeans
  <1> HIDE DEF own, global
  <1> QED BY <1>1, <1>2, <1>3, <1>4

LEMMA PlacementMeans ==
  ASSUME Loaded, ContextMeans(context), NEW i
  PROVE  /\ DOMAIN PlacementMap(i) = {q \in DOMAIN resources : PlacedBy(q, i) # {}}
         /\ \A r \in DOMAIN PlacementMap(i) : PlacementMap(i)[r] \in Nat
  <1>1. PlacementMap(i) = [r \in {q \in DOMAIN resources : PlacedBy(q, i) # {}} |->
                             CHOOSE v \in PlacedBy(r, i) : TRUE]
    BY DEF PlacementMap
  <1>2. \A r \in DOMAIN resources : PlacedBy(r, i) # {} => (CHOOSE v \in PlacedBy(r, i) : TRUE) \in Nat
    BY PlacedByMeans
  <1> QED BY <1>1, <1>2

LEMMA HasPlaceMeans ==
  ASSUME Loaded, ContextMeans(context), NEW r \in DOMAIN resources
  PROVE  HasPlace(r) <=> r \in DOMAIN PlacementMap("provider") /\ r \in DOMAIN PlacementMap("region")
  <1>1. \A i : r \in DOMAIN PlacementMap(i) <=>
                  \/ Bindings(r, i, "value") \cup Bindings(r, i, "mixed") # {}
                  \/ \E v \in Bindings(r, i, "refers") : Meaning(v) # {}
                  \/ Meaning(<<Bare, i>>) # {}
    BY PlacedByMeans, PlacementMeans
  <1>2. HasPlace(r) <=> \A i \in {"provider", "region"} : r \in DOMAIN PlacementMap(i)
    BY <1>1 DEF HasPlace
  <1> QED BY <1>2

LEMMA RegionsMean ==
  ASSUME ContextMeans(context), NEW logical \in Nat
  PROVE  ResolveRegion(logical, RegionMapping) \in Nat
  <1> DEFINE entries == {v \in DOMAIN context : v = <<"region_mapping", v[2]>>}
  <1>1. RegionMapping = [x \in {v[2] : v \in entries} |-> context[<<"region_mapping", x>>]]
    BY DEF RegionMapping
  <1>2. ASSUME NEW x \in {v[2] : v \in entries}
        PROVE  context[<<"region_mapping", x>>] \in Nat
    <2>1. PICK v \in entries : x = v[2]
      OBVIOUS
    <2>2. v \in DOMAIN context /\ v = <<"region_mapping", x>>
      BY <2>1
    <2> QED BY <2>2 DEF ContextMeans
  <1>3. \A x \in DOMAIN RegionMapping : RegionMapping[x] \in Nat
    BY <1>1, <1>2
  <1> QED BY <1>3 DEF ResolveRegion

(* Every resource with a place is in one of the groups, and no other is.   *)
LEMMA GroupAssembles ==
  ASSUME Prepared, Prepared', GroupResources
  PROVE  Assembled'
  <1> DEFINE provider == PlacementMap("provider")
             region   == PlacementMap("region")
             mapping  == RegionMapping
             nodes    == DOMAIN resources
             gs       == groups'
             Place(r) == PlaceOf(r, provider, region, mapping)
             placed   == Placeable(topo, provider, region)
             Members(p) == {r \in placed : Place(r) = p}
  <1>1. /\ pc = "group" /\ pc' = "assemble" /\ outcome' = outcome
        /\ compilation' = compilation /\ resources' = resources /\ modules' = modules
        /\ topo' = topo /\ output' = output /\ file' = file
        /\ gs = AssembleByProviderRegion(topo, provider, region, mapping)
    BY DEF GroupResources, Goto, loaded, result
  <1>2. /\ Loaded /\ IsFiniteSet(nodes) /\ output = <<>> /\ outcome = "running" /\ file = "previous"
        /\ ContextMeans(context) /\ topo \in TopoOrders(nodes, Explicit)
    BY <1>1 DEF Prepared, Untouched, Made, Phases, Ordering, BeforeOrder
  <1>3. Lists(topo, nodes) /\ Range(topo) = nodes
    BY <1>2, OrderMeans
  <1>4. /\ \A r \in DOMAIN provider : provider[r] \in Nat
        /\ \A r \in DOMAIN region : region[r] \in Nat
    BY <1>2, PlacementMeans
  <1>5. \A r \in nodes : HasPlace(r) <=> r \in DOMAIN provider /\ r \in DOMAIN region
    BY <1>2, HasPlaceMeans
  <1>6. \A r \in DOMAIN region : ResolveRegion(region[r], mapping) \in Nat
    BY <1>2, <1>4, RegionsMean
  <1> HIDE DEF provider, region, mapping, nodes
  <1>7. \A r \in placed : Place(r) \in Nat \X Nat
    BY <1>4, <1>6 DEF Placeable, PlaceOf
  <1>8. \A r : r \in placed <=> r \in nodes /\ HasPlace(r)
    BY <1>3, <1>5 DEF Placeable
  <1>9. /\ gs = [i \in 1..Len(gs) |-> gs[i]] /\ Len(gs) \in Nat
        /\ \A i \in DOMAIN gs :
              gs[i] = [placement |-> gs[i].placement, resources |-> gs[i].resources]
        /\ \A i \in DOMAIN gs : gs[i].placement \in Nat \X Nat
        /\ \A i \in DOMAIN gs : /\ Members(gs[i].placement) \in SUBSET nodes
                                /\ gs[i].resources \in TopoOrders(Members(gs[i].placement), Earlier(topo))
        /\ \A i, j \in DOMAIN gs : gs[i].placement = gs[j].placement => i = j
        /\ \A r \in placed : \E i \in DOMAIN gs : gs[i].placement = Place(r)
    <2>1. Lists(topo, nodes) /\ IsFiniteSet(nodes)
      BY <1>2, <1>3 DEF nodes
    <2>2. \A r \in Placeable(topo, provider, region) :
            PlaceOf(r, provider, region, mapping) \in Nat \X Nat
      BY <1>7
    <2>3. gs = AssembleByProviderRegion(topo, provider, region, mapping)
      BY <1>1 DEF provider, region, mapping
    <2> HIDE DEF gs
    <2> QED BY <2>1, <2>2, <2>3, GroupsMean
  <1> HIDE DEF placed, Place
  <1>10. ASSUME NEW i \in DOMAIN gs
         PROVE  /\ gs[i].resources \in Seq(nodes)
                /\ Range(gs[i].resources) = Members(gs[i].placement)
    <2> DEFINE T == Members(gs[i].placement)
    <2>1. T \in SUBSET nodes /\ IsFiniteSet(T)
      BY <1>2, <1>9, FS_Subset DEF nodes
    <2>2. gs[i].resources \in TopoOrders(T, Earlier(topo))
      BY <1>9
    <2> HIDE DEF T
    <2>3. Lists(gs[i].resources, T) /\ Range(gs[i].resources) = T
      BY <2>1, <2>2, OrderMeans
    <2>4. gs[i].resources \in Seq(nodes)
      BY <2>1, <2>3 DEF Lists
    <2> QED BY <2>3, <2>4 DEF T
  <1>11. GroupsLeft'
    <2> DEFINE Pool == [placement : Nat \X Nat, resources : Seq(nodes)]
    <2>1. \A i \in DOMAIN gs : gs[i] \in Pool
      BY <1>9, <1>10
    <2>2. gs \in Seq(Pool)
      <3> DEFINE n == Len(gs)
      <3>1. gs = [i \in 1..n |-> gs[i]] /\ n \in Nat
        BY <1>9
      <3> HIDE DEF n, Pool
      <3>2. gs \in [1..n -> Pool]
        BY <2>1, <3>1
      <3> QED BY <3>1, <3>2
    <2>3. \A i, j \in DOMAIN gs : i # j =>
            /\ gs[i].placement # gs[j].placement
            /\ Range(gs[i].resources) \cap Range(gs[j].resources) = {}
      <3>1. \A i \in DOMAIN gs : \A r \in Range(gs[i].resources) : Place(r) = gs[i].placement
        BY <1>10
      <3>2. \A i, j \in DOMAIN gs : gs[i].placement = gs[j].placement => i = j
        BY <1>9
      <3> HIDE DEF gs
      <3> QED BY <3>1, <3>2
    <2>4. \A i \in DOMAIN gs : \E T \in SUBSET nodes : gs[i].resources \in TopoOrders(T, Earlier(topo))
      <3> HIDE DEF Members
      <3> QED BY <1>9
    <2>5. PlacedGroups' = Pool
      BY <1>1 DEF PlacedGroups, nodes
    <2>6. (DOMAIN resources)' = nodes
      BY <1>1 DEF nodes
    <2> HIDE DEF Pool
    <2> QED BY <1>1, <2>2, <2>3, <2>4, <2>5, <2>6 DEF GroupsLeft
  <1>12. OutputMade'
    BY <1>1, <1>2, EmptyList DEF OutputMade
  <1>13. \A r \in nodes : Pending(r)' <=> HasPlace(r)
    <2>1. SUFFICES ASSUME NEW r \in nodes
                   PROVE  (\E i \in DOMAIN gs : r \in Range(gs[i].resources)) <=> HasPlace(r)
      BY DEF Pending
    <2>2. ASSUME NEW i \in DOMAIN gs, r \in Range(gs[i].resources)
          PROVE  HasPlace(r)
      BY <1>8, <1>10, <2>2
    <2>3. ASSUME HasPlace(r)
          PROVE  \E i \in DOMAIN gs : r \in Range(gs[i].resources)
      <3>1. r \in placed
        BY <1>8, <2>3
      <3>2. PICK i \in DOMAIN gs : gs[i].placement = Place(r)
        BY <1>9, <3>1
      <3>3. r \in Range(gs[i].resources)
        BY <1>10, <3>1, <3>2
      <3> QED BY <3>3
    <2> QED BY <2>2, <2>3
  <1>14. \A r : Emitted(r)' = {}
    BY <1>1, <1>2, EmptyList DEF Emitted
  <1>15. \A r : HasPlace(r)' <=> HasPlace(r)
    BY <1>1, MeaningStays
  <1>16. Accounted'
    BY <1>1, <1>2, <1>13, <1>14, <1>15 DEF Accounted, nodes
  <1>17. RenderRefuses'
    BY <1>1, <1>2 DEF RenderRefuses
  <1> QED BY <1>11, <1>12, <1>16, <1>17 DEF Assembled

(* One group goes to the output: each of its resources with an arm once,   *)
(* in their order.                                                         *)
LEMMA GroupMeans ==
  ASSUME Prepared, pc = "assemble", GroupsLeft, groups # <<>>,
         NEW g, g = Head(groups),
         NEW rendered, rendered = InOrder(Range(g.resources) \cap DOMAIN arms, Earlier(g.resources))
  PROVE  /\ Lists(rendered, Range(g.resources) \cap DOMAIN arms)
         /\ Range(g.resources) \subseteq DOMAIN resources
         /\ Earlier(rendered) \subseteq Earlier(topo)
         /\ 1 \in DOMAIN groups /\ g = groups[1]
         /\ Tail(groups) \in Seq(PlacedGroups)
         /\ \A i \in DOMAIN Tail(groups) :
              i + 1 \in DOMAIN groups /\ i + 1 # 1 /\ Tail(groups)[i] = groups[i + 1]
         /\ \A i \in DOMAIN groups : i = 1 \/ \E k \in DOMAIN Tail(groups) : i = k + 1
  <1>1. /\ 1 \in DOMAIN groups /\ g = groups[1]
        /\ Tail(groups) \in Seq(PlacedGroups)
        /\ \A i \in DOMAIN Tail(groups) :
             i + 1 \in DOMAIN groups /\ i + 1 # 1 /\ Tail(groups)[i] = groups[i + 1]
        /\ \A i \in DOMAIN groups : i = 1 \/ \E k \in DOMAIN Tail(groups) : i = k + 1
    <2>1. groups \in Seq(PlacedGroups)
      BY DEF GroupsLeft
    <2> HIDE DEF PlacedGroups
    <2>2. /\ 1 \in DOMAIN groups /\ g = groups[1] /\ Len(groups) \in Nat /\ DOMAIN groups = 1..Len(groups)
          /\ Tail(groups) \in Seq(PlacedGroups) /\ DOMAIN Tail(groups) = 1..(Len(groups) - 1)
          /\ \A i \in 1..(Len(groups) - 1) : Tail(groups)[i] = groups[i + 1]
      BY <2>1
    <2>3. \A i \in 1..(Len(groups) - 1) : i + 1 \in 1..Len(groups) /\ i + 1 # 1
      BY <2>2
    <2>4. \A i \in 1..Len(groups) : i = 1 \/ (i - 1 \in 1..(Len(groups) - 1) /\ i = (i - 1) + 1)
      BY <2>2
    <2> QED BY <2>2, <2>3, <2>4
  <1>2. IsFiniteSet(DOMAIN resources) /\ topo \in TopoOrders(DOMAIN resources, Explicit)
    BY DEF Prepared, Ordering, Made, BeforeOrder
  <1>3. Lists(topo, DOMAIN resources)
    BY <1>2, OrderMeans
  <1>4. PICK T \in SUBSET DOMAIN resources : g.resources \in TopoOrders(T, Earlier(topo))
    BY <1>1 DEF GroupsLeft
  <1>5. IsFiniteSet(T)
    BY <1>2, FS_Subset
  <1>6. Lists(g.resources, T) /\ Range(g.resources) = T
    BY <1>4, <1>5, OrderMeans
  <1>7. Earlier(g.resources) \subseteq Earlier(topo)
    BY <1>3, <1>4, <1>5, PartKeepsOrder
  <1> DEFINE armed == Range(g.resources) \cap DOMAIN arms
  <1>8. armed \in SUBSET T
    BY <1>6
  <1>9. rendered = InOrder(armed, Earlier(g.resources))
    OBVIOUS
  <1> HIDE DEF armed
  <1>10. rendered \in TopoOrders(armed, Earlier(g.resources)) /\ IsFiniteSet(armed)
    BY <1>5, <1>6, <1>8, <1>9, PartOrdered
  <1>11. Lists(rendered, armed)
    BY <1>10, OrderMeans
  <1>12. Earlier(rendered) \subseteq Earlier(g.resources)
    BY <1>6, <1>8, <1>10, PartKeepsOrder
  <1> QED BY <1>1, <1>6, <1>7, <1>11, <1>12 DEF armed

LEMMA OutputAssembles ==
  ASSUME Prepared, Prepared', Assembled, AssembleOutput
  PROVE  Assembled'
  <1> DEFINE g         == Head(groups)
             rendered  == InOrder(Range(g.resources) \cap DOMAIN arms, Earlier(g.resources))
             placement == g.placement
             blocks    == [k \in DOMAIN rendered |-> Block(rendered[k], placement)]
  <1>1. /\ pc = "assemble" /\ groups # <<>>
        /\ compilation' = compilation /\ UNCHANGED loaded
        /\ context' = context /\ arms' = arms /\ topo' = topo /\ file' = file
    BY DEF AssembleOutput, Fail, Goto, order
  <1>2. resources' = resources /\ modules' = modules /\ file = "previous" /\ outcome = "running"
    BY <1>1 DEF loaded, Prepared, Phases
  <1>3. /\ Lists(rendered, Range(g.resources) \cap DOMAIN arms)
        /\ Range(g.resources) \subseteq DOMAIN resources
        /\ Earlier(rendered) \subseteq Earlier(topo)
        /\ 1 \in DOMAIN groups /\ g = groups[1]
        /\ Tail(groups) \in Seq(PlacedGroups)
        /\ \A i \in DOMAIN Tail(groups) :
             i + 1 \in DOMAIN groups /\ i + 1 # 1 /\ Tail(groups)[i] = groups[i + 1]
        /\ \A i \in DOMAIN groups : i = 1 \/ \E k \in DOMAIN Tail(groups) : i = k + 1
    BY <1>1, GroupMeans DEF Assembled
  <1>4. CASE /\ pc' = "stopped" /\ outcome' = "validation"
             /\ groups' = groups /\ output' = output
    BY <1>1, <1>2, <1>4, AssembledStays DEF Assembled
  <1>5. CASE /\ pc' = "stopped" /\ outcome' = "render"
             /\ groups' = groups /\ output' = output
             /\ \E r \in Range(rendered) : ~Renders(r)
    <2>1. PICK r \in Range(rendered) : ~Renders(r)
      BY <1>5
    <2>2. r \in DOMAIN arms
      BY <1>3 DEF Lists, Range
    <2>3. \/ arms[r].broken \/ ~arms[r].tera
          \/ \E v \in Uses(r) : v \notin DOMAIN context \/ context[v] \in TeraRejects
      BY <2>1 DEF Renders
    <2>4. ContextMeans(context)
      BY <1>1 DEF Prepared, Made
    <2>5. \A v \in Uses(r) : IsVariable(v)
      BY <2>2 DEF Uses, Prepared, Parts
    <2>6. CannotRender(r)
      <3>1. ASSUME NEW v \in Uses(r), v \notin DOMAIN context \/ context[v] \in TeraRejects
            PROVE  Meaning(v) = {} \/ Meaning(v) \cap TeraRejects # {}
        BY <2>4, <2>5, <3>1 DEF ContextMeans
      <3> QED BY <2>3, <3>1 DEF CannotRender
    <2>7. \A v : Meaning(v)' = Meaning(v)
      BY <1>1, <1>2, MeaningStays
    <2>8. RenderRefuses'
      BY <1>1, <2>2, <2>6, <2>7 DEF RenderRefuses, CannotRender, Uses
    <2>9. GroupsLeft'
      BY <1>1, <1>2, <1>5 DEF Assembled, GroupsLeft, PlacedGroups
    <2>10. \A r0, p : Block(r0, p)' = Block(r0, p)
      BY <1>1, BlockStays
    <2>11. OutputMade'
      BY <1>1, <1>5, <2>10 DEF Assembled, OutputMade, Uses
    <2>12. Accounted'
      BY <1>1, <1>2, <1>5 DEF Accounted
    <2> QED BY <2>8, <2>9, <2>11, <2>12 DEF Assembled
  <1>6. CASE /\ pc' = "assemble" /\ outcome' = outcome
             /\ \A r \in Range(g.resources) : ~HasErrors(r)
             /\ \A r \in Range(rendered) : Renders(r)
             /\ output' = output \o blocks /\ groups' = Tail(groups)
    <2>0. output' = output \o blocks
      BY Zenon, <1>6
    <2> HIDE DEF rendered, g
    <2>1. /\ rendered \in Seq(Range(g.resources) \cap DOMAIN arms)
          /\ \A i, j \in DOMAIN rendered : rendered[i] = rendered[j] => i = j
          /\ \A r \in Range(g.resources) \cap DOMAIN arms : \E i \in DOMAIN rendered : rendered[i] = r
      BY <1>3 DEF Lists
    <2>2. \A k \in DOMAIN rendered : rendered[k] \in Range(g.resources) /\ rendered[k] \in DOMAIN arms
                                     /\ rendered[k] \in Range(rendered)
      BY <2>1 DEF Range
    <2>3. /\ IsList(blocks) /\ DOMAIN blocks = DOMAIN rendered
          /\ \A k \in DOMAIN rendered : blocks[k] = Block(rendered[k], placement)
      <3>1. DOMAIN rendered = 1..Len(rendered) /\ Len(rendered) \in Nat
        BY <2>1
      <3>2. DOMAIN blocks = DOMAIN rendered /\ blocks = [k \in DOMAIN rendered |-> blocks[k]]
            /\ \A k \in DOMAIN rendered : blocks[k] = Block(rendered[k], placement)
        OBVIOUS
      <3>3. Len(blocks) = Len(rendered)
        BY <3>1, <3>2
      <3> QED BY <3>1, <3>2, <3>3 DEF IsList
    <2>4. \A r, p : Block(r, p).resource = r /\ Block(r, p).placement = p /\ Block(r, p)' = Block(r, p)
      BY <1>1, BlockStays
    <2> DEFINE n == Len(output)
               out == output'
    <2> HIDE DEF blocks, placement
    <2>5. /\ IsList(out) /\ DOMAIN output \subseteq Nat /\ n \in Nat
          /\ \A k \in DOMAIN output : k \in DOMAIN out /\ out[k] = output[k] /\ k <= n
          /\ \A k \in DOMAIN blocks : n + k \in DOMAIN out /\ out[n + k] = blocks[k] /\ k \in Nat /\ k >= 1
          /\ \A k \in DOMAIN out : k \in DOMAIN output \/ \E m \in DOMAIN blocks : k = n + m
      <3>1. IsList(output) /\ IsList(blocks)
        BY <2>3 DEF Assembled, OutputMade
      <3>2. out = output \o blocks
        BY <2>0
      <3> HIDE DEF out, n
      <3>3. n = Len(output)
        BY DEF n
      <3>4. IsList(out) /\ DOMAIN output \subseteq Nat /\ Len(output) \in Nat
        BY <3>1, <3>2, ConcatMeans
      <3>5. \A k \in DOMAIN output : k \in DOMAIN out /\ out[k] = output[k] /\ k <= Len(output)
        BY <3>1, <3>2, ConcatMeans
      <3>6. \A k \in DOMAIN blocks : Len(output) + k \in DOMAIN out /\ out[Len(output) + k] = blocks[k]
                                     /\ k \in Nat /\ k >= 1
        BY <3>1, <3>2, ConcatMeans
      <3>7. \A k \in DOMAIN out : k \in DOMAIN output \/ \E m \in DOMAIN blocks : k = n + m
        <4>1. \A k \in DOMAIN out : k \in Nat /\ (k \in DOMAIN output \/ k - Len(output) \in DOMAIN blocks)
          BY <3>1, <3>2, ConcatMeans
        <4>2. ASSUME NEW k \in DOMAIN out, k \notin DOMAIN output
              PROVE  k - n \in DOMAIN blocks /\ k = n + (k - n)
          BY <3>3, <3>4, <4>1, <4>2
        <4> QED BY <4>2
      <3> QED BY Zenon, <3>3, <3>4, <3>5, <3>6, <3>7
    <2> HIDE DEF n
    <2>6. \A k \in DOMAIN rendered : /\ n + k \in DOMAIN out /\ k \in Nat /\ k >= 1
                                     /\ out[n + k] = Block(rendered[k], placement)
                                     /\ out[n + k].resource = rendered[k]
                                     /\ out[n + k].placement = placement
      BY <2>3, <2>4, <2>5
    <2>7. \A k \in DOMAIN out : k \in DOMAIN output \/ \E m \in DOMAIN rendered : k = n + m
      BY <2>3, <2>5
    <2>8. /\ \A i \in DOMAIN groups' : i + 1 \in DOMAIN groups /\ i + 1 # 1 /\ groups'[i] = groups[i + 1]
          /\ \A i \in DOMAIN groups : i = 1 \/ \E k \in DOMAIN groups' : i = k + 1
          /\ 1 \in DOMAIN groups /\ g = groups[1] /\ placement = groups[1].placement
      BY <1>3, <1>6 DEF placement
    <2>9. \A i \in DOMAIN groups' : i \in Nat
      <3>1. groups' \in Seq(PlacedGroups)
        BY <1>3, <1>6
      <3> HIDE DEF PlacedGroups
      <3> QED BY <3>1
    <2>10. GroupsLeft'
      <3>1. groups' \in Seq(PlacedGroups) /\ PlacedGroups' = PlacedGroups
        BY <1>2, <1>3, <1>6 DEF PlacedGroups
      <3>2. \A i \in DOMAIN groups' :
              \E T \in SUBSET DOMAIN resources : groups'[i].resources \in TopoOrders(T, Earlier(topo))
        BY <2>8 DEF Assembled, GroupsLeft
      <3>3. \A i, j \in DOMAIN groups' : i # j => i + 1 # j + 1
        BY <2>9
      <3>4. \A i, j \in DOMAIN groups' : i # j =>
              /\ groups'[i].placement # groups'[j].placement
              /\ Range(groups'[i].resources) \cap Range(groups'[j].resources) = {}
        BY <2>8, <3>3 DEF Assembled, GroupsLeft
      <3> QED BY <1>1, <1>2, <3>1, <3>2, <3>4 DEF GroupsLeft
    <2>11. \A i \in DOMAIN groups' : groups'[i].placement # placement
      BY <2>8 DEF Assembled, GroupsLeft
    <2>12. ASSUME NEW k \in DOMAIN out
           PROVE  /\ out[k].resource \in DOMAIN arms
                  /\ out[k] = Block(out[k].resource, out[k].placement)
                  /\ Uses(out[k].resource) \subseteq DOMAIN context
                  /\ \A i \in DOMAIN groups' : groups'[i].placement # out[k].placement
      <3>1. CASE k \in DOMAIN output
        BY <2>5, <2>8, <3>1 DEF Assembled, OutputMade
      <3>2. CASE k \notin DOMAIN output
        <4>1. PICK m \in DOMAIN rendered : k = n + m
          BY <2>7, <3>2
        <4>2. Renders(rendered[m])
          BY <1>6, <2>2
        <4>3. Uses(rendered[m]) \subseteq DOMAIN context
          BY <4>2 DEF Renders
        <4> QED BY <2>2, <2>6, <2>11, <4>1, <4>3
      <3> QED BY <3>1, <3>2
    <2>13. ASSUME NEW j \in DOMAIN out, NEW k \in DOMAIN out, j < k, out[j].placement = out[k].placement
           PROVE  <<out[j].resource, out[k].resource>> \in Earlier(topo)
      <3>1. CASE k \in DOMAIN output
        <4>1. j \in DOMAIN output
          <5>1. SUFFICES ASSUME j \notin DOMAIN output PROVE FALSE
            OBVIOUS
          <5>2. PICK m \in DOMAIN rendered : j = n + m
            BY <2>7, <5>1
          <5>3. k \in Nat /\ k <= n /\ m \in Nat /\ n \in Nat
            BY <2>5, <2>6, <3>1
          <5> QED BY <2>13, <5>2, <5>3
        <4> QED BY <2>5, <2>13, <3>1, <4>1 DEF Assembled, OutputMade
      <3>2. CASE k \notin DOMAIN output
        <4>1. PICK m \in DOMAIN rendered : k = n + m
          BY <2>7, <3>2
        <4>2. out[k].placement = placement
          BY <2>6, <4>1
        <4>3. j \notin DOMAIN output
          BY <2>5, <2>8, <2>13, <4>2 DEF Assembled, OutputMade
        <4>4. PICK i \in DOMAIN rendered : j = n + i
          BY <2>7, <4>3
        <4>5. i < m
          BY <2>5, <2>6, <2>13, <4>1, <4>4
        <4>6. <<rendered[i], rendered[m]>> \in Earlier(rendered)
          BY <4>5, EarlierMeans
        <4> QED BY <1>3, <2>6, <4>1, <4>4, <4>6 DEF rendered, g
      <3> QED BY <3>1, <3>2
    <2>14. OutputMade'
      <3>1. \A r : Uses(r)' = Uses(r)
        BY <1>1 DEF Uses
      <3> QED BY <1>1, <2>4, <2>5, <2>12, <2>13, <3>1 DEF OutputMade
    <2>15. RenderRefuses'
      BY <1>2, <1>6 DEF RenderRefuses
    <2>16. ASSUME NEW r \in DOMAIN resources
           PROVE  /\ Pending(r) <=> Pending(r)' \/ r \in Range(g.resources)
                  /\ ~(Pending(r)' /\ r \in Range(g.resources))
      <3>1. Pending(r)' <=> \E i \in DOMAIN groups' : r \in Range(groups'[i].resources)
        BY DEF Pending
      <3>2. Pending(r) <=> Pending(r)' \/ r \in Range(g.resources)
        BY <2>8, <3>1 DEF Pending
      <3>3. \A i \in DOMAIN groups' : Range(groups'[i].resources) \cap Range(g.resources) = {}
        BY <2>8 DEF Assembled, GroupsLeft
      <3> QED BY <3>1, <3>2, <3>3
    <2>17. ASSUME NEW r \in DOMAIN resources
           PROVE  Emitted(r)' = Emitted(r) \cup {n + m : m \in {k \in DOMAIN rendered : rendered[k] = r}}
      <3>1. \A k : k \in Emitted(r)' <=> k \in DOMAIN out /\ out[k].resource = r
        BY DEF Emitted
      <3>2. \A k : k \in Emitted(r) <=> k \in DOMAIN output /\ output[k].resource = r
        BY DEF Emitted
      <3>3. \A k : k \in Emitted(r)' <=> k \in Emitted(r) \/ \E m \in DOMAIN rendered : rendered[m] = r /\ k = n + m
        BY <2>5, <2>6, <2>7, <3>1, <3>2
      <3> HIDE DEF out
      <3> QED BY <3>3
    <2>18. \A r : HasPlace(r)' <=> HasPlace(r)
      BY <1>1, <1>2, MeaningStays
    <2>19. \A r : HasErrors(r)' <=> HasErrors(r)
      BY <1>1, <1>2 DEF HasErrors, InputsMatch, Bound, Violates, Evaluates
    <2>20. ASSUME NEW r \in DOMAIN resources
           PROVE  /\ Pending(r)' => HasPlace(r) /\ Emitted(r)' = {}
                  /\ ~Pending(r)' /\ HasPlace(r) =>
                       /\ ~HasErrors(r)
                       /\ r \in DOMAIN arms => \E k : Emitted(r)' = {k}
                       /\ r \notin DOMAIN arms => Emitted(r)' = {}
                  /\ ~HasPlace(r) => Emitted(r)' = {}
      <3>1. /\ Pending(r) => HasPlace(r) /\ Emitted(r) = {}
            /\ ~Pending(r) /\ HasPlace(r) =>
                 /\ ~HasErrors(r)
                 /\ r \in DOMAIN arms => \E k : Emitted(r) = {k}
                 /\ r \notin DOMAIN arms => Emitted(r) = {}
            /\ ~HasPlace(r) => Emitted(r) = {}
        BY <1>1 DEF Assembled, Accounted
      <3>2. CASE r \in Range(g.resources)
        <4>1. HasPlace(r) /\ Emitted(r) = {} /\ ~Pending(r)' /\ ~HasErrors(r)
          BY <1>6, <2>16, <3>1, <3>2 DEF g
        <4>2. CASE r \in DOMAIN arms
          <5>1. PICK i \in DOMAIN rendered : rendered[i] = r
            BY <2>1, <3>2, <4>2
          <5>2. {k \in DOMAIN rendered : rendered[k] = r} = {i}
            BY <2>1, <5>1
          <5>3. Emitted(r)' = {n + i}
            BY <2>17, <4>1, <5>2
          <5> QED BY <4>1, <4>2, <5>3
        <4>3. CASE r \notin DOMAIN arms
          <5>1. {k \in DOMAIN rendered : rendered[k] = r} = {}
            BY <2>2, <4>3
          <5> QED BY <2>17, <4>1, <4>3, <5>1
        <4> QED BY <4>2, <4>3
      <3>3. CASE r \notin Range(g.resources)
        <4>1. {k \in DOMAIN rendered : rendered[k] = r} = {}
          BY <2>2, <3>3
        <4>2. Emitted(r)' = Emitted(r)
          BY <2>17, <4>1
        <4>3. Pending(r)' <=> Pending(r)
          BY <2>16, <3>3
        <4> QED BY <3>1, <4>2, <4>3
      <3> QED BY <3>2, <3>3
    <2>21. Accounted'
      BY <1>1, <1>2, <1>6, <2>18, <2>19, <2>20 DEF Accounted
    <2> QED BY <2>10, <2>14, <2>15, <2>21 DEF Assembled
  <1>7. \/ /\ pc' = "stopped" /\ outcome' = "validation"
           /\ groups' = groups /\ output' = output
        \/ /\ pc' = "stopped" /\ outcome' = "render"
           /\ groups' = groups /\ output' = output
           /\ \E r \in Range(rendered) : ~Renders(r)
        \/ /\ pc' = "assemble" /\ outcome' = outcome
           /\ \A r \in Range(g.resources) : ~HasErrors(r)
           /\ \A r \in Range(rendered) : Renders(r)
           /\ output' = output \o blocks /\ groups' = Tail(groups)
    BY DEF AssembleOutput, Fail, Goto, order
  <1> QED BY <1>4, <1>5, <1>6, <1>7

(* The steps that make what the groups are assembled from. *)
LEMMA BeforeAssembly ==
  ASSUME Prepared, Prepared',
         Load \/ BuildContext \/ Dispatch \/ AddEdges \/ Sort
  PROVE  Assembled'
  <1>1. /\ pc \in BeforeOrder /\ pc' \notin {"assemble", "open", "write", "hook"}
        /\ groups' = groups /\ output' = output /\ outcome' # "render"
    BY DEF Load, BuildContext, Dispatch, AddEdges, Sort, Fail, Goto, order, result,
           Prepared, Phases, BeforeOrder
  <1>2. file' = file
    BY DEF Load, BuildContext, Dispatch, AddEdges, Sort, Fail, Goto, result
  <1>3. groups = <<>> /\ output = <<>> /\ file = "previous"
    BY <1>1 DEF Prepared, Untouched, Phases, BeforeOrder
  <1>4. DOMAIN groups' = {} /\ DOMAIN output' = {} /\ IsList(output') /\ groups' = <<>>
    BY <1>1, <1>3, EmptyList
  <1>5. groups' \in Seq(PlacedGroups')
    BY <1>4
  <1>6. file' = "previous"
    BY <1>2, <1>3
  <1> QED BY <1>1, <1>4, <1>5, <1>6 DEF Assembled, GroupsLeft, OutputMade, Accounted, RenderRefuses

(* The steps after the last group, and stuttering, leave all of it alone.  *)
LEMMA AfterAssembly ==
  ASSUME Prepared, Assembled,
         EndAssembly \/ OpenOutput \/ WriteOutput \/ OnCompileSuccess \/ UNCHANGED vars
  PROVE  Assembled'
  <1>1. /\ compilation' = compilation /\ UNCHANGED loaded
        /\ UNCHANGED <<context, arms, topo, groups, output>>
        /\ outcome' = "render" => outcome = "render"
    BY DEF EndAssembly, OpenOutput, WriteOutput, OnCompileSuccess, Fail, Goto, vars, order, result
  <1>2. pc \in {"open", "write", "hook"} \/ file # "previous" => groups = <<>>
    BY DEF Assembled, Accounted
  <1>3. CASE EndAssembly
    <2>1. pc = "assemble" /\ groups = <<>>
      BY <1>3 DEF EndAssembly
    <2> QED BY <1>1, <2>1, AssembledStays
  <1>4. CASE OpenOutput \/ WriteOutput \/ OnCompileSuccess
    <2>1. pc \in {"open", "write", "hook"}
      BY <1>4 DEF OpenOutput, WriteOutput, OnCompileSuccess
    <2> QED BY <1>1, <1>2, <2>1, AssembledStays
  <1>5. CASE UNCHANGED vars
    <2>1. pc' = pc /\ file' = file
      BY <1>5 DEF vars, result
    <2> QED BY <1>1, <1>2, <2>1, AssembledStays
  <1> QED BY <1>3, <1>4, <1>5

(* Whatever was assembled so far is what the output should have. *)
LEMMA AssembledAlways == Spec => [](Prepared /\ CycleRefused /\ Assembled)
  <1>1. Init => Assembled
    <2> SUFFICES ASSUME Init
                 PROVE  Assembled
      OBVIOUS
    <2> QED BY NothingAssembled DEF Init
  <1>2. Prepared /\ Prepared' /\ Assembled /\ [Next]_vars => Assembled'
    <2> SUFFICES ASSUME Prepared, Prepared', Assembled, [Next]_vars
                 PROVE  Assembled'
      OBVIOUS
    <2> QED BY BeforeAssembly, GroupAssembles, OutputAssembles, AfterAssembly DEF Next
  <1> QED BY <1>1, <1>2, PreparedAlways, PTL DEF Spec

----------------------------------------------------------------------------
(* The theorems. *)

LEMMA PreparedTyped ==
  ASSUME Prepared, Assembled
  PROVE  TypeOK
  <1>1. pc \in Range(Steps) /\ outcome \in {"running", "ok"} \cup Failures
        /\ file \in {"previous", "empty", "written"} /\ hooked \in BOOLEAN
    BY DEF Prepared, Phases
  <1>2. DOMAIN modules = DOMAIN resources /\ Loaded
    BY DEF Prepared, Loaded
  <1>3. ASSUME NEW r \in DOMAIN modules
        PROVE  \E dir \in Range(compilation.includePath) :
                 \E text \in Range(dir) : text # Unreadable /\ modules[r] = ParseModule(text)
    <2>1. PICK t \in ModuleTexts \ {Unreadable} :
            /\ modules[r] = ModuleIn[t]
            /\ \E dir \in Range(compilation.includePath) : t \in Range(dir)
      BY <1>2, <1>3, LoadedModule
    <2>2. modules[r] = ParseModule(t)
      BY <2>1 DEF ModuleIn
    <2> QED BY <2>1, <2>2
  <1>4. ASSUME NEW r \in DOMAIN resources
        PROVE  resources[r] \in Range(ParseTemplate(compilation.template).resources)
    <2> DEFINE t == compilation.template
    <2>1. /\ t \in TemplateTexts \ {Unreadable} /\ Accepted(TemplateIn[t]) /\ r \in Names(TemplateIn[t])
          /\ resources[r] = LastDeclaration(TemplateIn[t].resources, r)
      BY <1>2 DEF Loaded, TemplateTexts
    <2> HIDE DEF t
    <2>2. resources[r] \in Range(TemplateIn[t].resources) /\ TemplateIn[t] = ParseTemplate(t)
      BY <2>1, LastDeclared, ParsedTemplate
    <2> QED BY <2>2 DEF t
  <1>5. DOMAIN arms \subseteq DOMAIN resources
        /\ edges \subseteq (DOMAIN resources) \X (DOMAIN resources)
        /\ cycle \subseteq DOMAIN resources
    BY DEF Prepared, Parts
  <1>6. Range(topo) \subseteq DOMAIN resources
    <2>1. IsFiniteSet(DOMAIN resources)
      BY DEF Prepared, Ordering
    <2>2. CASE topo \in TopoOrders(DOMAIN resources, Explicit)
      BY <2>1, <2>2, OrderMeans
    <2>3. CASE topo = <<>>
      <3>1. DOMAIN topo = {}
        BY <2>3, EmptyList
      <3> QED BY <3>1 DEF Range
    <2> QED BY <2>2, <2>3 DEF Prepared, Made
  <1>7. \A b \in Range(output) : b.resource \in DOMAIN arms
    BY DEF Assembled, OutputMade, Range
  <1> QED BY <1>1, <1>2, <1>3, <1>4, <1>5, <1>6, <1>7 DEF TypeOK

(* A compilation goes through its steps, and keeps of the template and the *)
(* modules only what their parsers made of them.                           *)
THEOREM CompileTypes == Spec => []TypeOK
  <1>1. Prepared /\ Assembled => TypeOK
    BY PreparedTyped
  <1> QED BY <1>1, AssembledAlways, PTL

(* What stands in the output for a variable of a block's own arm, and what *)
(* has been put within its value.                                          *)
LEMMA VariableShown ==
  ASSUME Prepared, Assembled, NEW k \in DOMAIN output, NEW v \in Uses(output[k].resource)
  PROVE  /\ ShownAs(k, v) # {}
         /\ \A p \in PutWithin(k, v) : p[2] \in Meaning(p[1])
  <1> DEFINE r      == output[k].resource
             place  == output[k].placement
             there  == {w[1] : w \in arms[r].names} \cup arms[r].fragments
             text   == [w \in there |-> Substituted(w, Uses(r))]
             later  == {t \in Uses(r) : <<v, t>> \in Later}
             inside == [w \in VariablesIn(context[v]) |-> Substituted(w, later)]
  <1>1. /\ r \in DOMAIN arms /\ output[k] = Block(r, place) /\ Uses(r) \subseteq DOMAIN context
    BY DEF Assembled, OutputMade
  <1>2. \A u \in Uses(r) : IsVariable(u) /\ \E w \in arms[r].names : u = w[1]
    BY <1>1 DEF Prepared, Parts, Uses
  <1>3. v \in there
    BY <1>2
  <1>4. output[k].text = text /\ output[k].within[v] = inside
    <2> DEFINE whole == Block(r, place)
    <2>1. whole.text = text /\ whole.within[v] = inside
      BY DEF Block
    <2> QED BY <1>1, <2>1
  <1>5. Replaced(v, Uses(r)) = {v}
    BY <1>2, ReplacedWhole
  <1>6. text[v] = {<<v, context[v]>>}
    BY <1>3, <1>5 DEF Substituted
  <1>7. ContextMeans(context)
    <2>1. DOMAIN output # {}
      OBVIOUS
    <2>2. output # <<>>
      BY <2>1, EmptyList
    <2> QED BY <2>2 DEF Prepared, Made, Nothing
  <1>8. \A u \in Uses(r) : IsVariable(u) /\ u \in DOMAIN context
    BY <1>1, <1>2
  <1>9. \A u \in Uses(r) : context[u] \in Meaning(u)
    BY <1>7, <1>8 DEF ContextMeans
  <1>10. output[k].text[v] = {<<v, context[v]>>}
    BY <1>4, <1>6
  <1>11. ASSUME NEW q \in PutWithin(k, v)
         PROVE  q[2] \in Meaning(q[1])
    <2>1. PICK w \in DOMAIN inside : q \in inside[w]
      BY <1>4, <1>11 DEF PutWithin, Range
    <2>2. q \in Substituted(w, later)
      BY <2>1
    <2>3. PICK u \in Replaced(w, later) : q = <<u, context[u]>>
      BY <2>2 DEF Substituted
    <2>4. u \in Uses(r)
      BY <2>3 DEF Replaced
    <2> QED BY <1>9, <2>3, <2>4
  <1> HIDE DEF text, there, inside
  <1>12. ShownAs(k, v) # {}
    BY <1>9, <1>10 DEF ShownAs
  <1> QED BY <1>11, <1>12

(* Every variable of an arm shows its value from the strongest of its four *)
(* sources, whatever the iteration order of the maps, and the names that   *)
(* begin like it, and so does what is put within that value; rendering     *)
(* fails for want of a value in all of them, for an include or by Tera.    *)
THEOREM ResolvedByChainCorrect == Spec => []ResolvedByChain
  <1>1. Prepared /\ Assembled => ResolvedByChain
    <2> SUFFICES ASSUME Prepared, Assembled
                 PROVE  ResolvedByChain
      OBVIOUS
    <2>1. \A k \in DOMAIN output : \A v \in Uses(output[k].resource) :
            /\ ShownAs(k, v) # {}
            /\ \A p \in PutWithin(k, v) : p[2] \in Meaning(p[1])
      BY VariableShown
    <2>2. RenderRefuses
      BY DEF Assembled
    <2> QED BY <2>1, <2>2 DEF ResolvedByChain, RenderRefuses
  <1> QED BY <1>1, AssembledAlways, PTL

(* In a group of the output a resource never precedes what it depends on,  *)
(* however long the way.                                                   *)
THEOREM DependenciesFirstCorrect == Spec => []DependenciesFirst
  <1>1. Prepared /\ Assembled => DependenciesFirst
    <2> SUFFICES ASSUME Prepared, Assembled,
                        NEW j \in DOMAIN output, NEW k \in DOMAIN output,
                        j < k, output[j].placement = output[k].placement
                 PROVE  <<output[k].resource, output[j].resource>> \notin Reaches(DOMAIN resources, Explicit)
      BY DEF DependenciesFirst
    <2>1. <<output[j].resource, output[k].resource>> \in Earlier(topo)
      BY DEF Assembled, OutputMade
    <2>2. IsFiniteSet(DOMAIN resources)
      BY DEF Prepared, Ordering
    <2>3. topo \in TopoOrders(DOMAIN resources, Explicit)
      <3>1. output # <<>>
        BY EmptyList
      <3> QED BY <3>1 DEF Prepared, Made, Nothing
    <2>4. \A e \in Explicit : e[2] \in DOMAIN resources /\ e = <<e[1], e[2]>>
      BY ExplicitMeans
    <2> QED BY <2>1, <2>2, <2>3, <2>4, DependenciesEarlier
  <1> QED BY <1>1, AssembledAlways, PTL

(* The output file is touched only when all of the output is there, every  *)
(* resource with a case and a place once; a run that fails earlier leaves  *)
(* it alone.                                                               *)
THEOREM AllOrNothingCorrect == Spec => []AllOrNothing
  <1>1. Prepared /\ Assembled => AllOrNothing
    <2> SUFFICES ASSUME Prepared, Assembled
                 PROVE  AllOrNothing
      OBVIOUS
    <2>1. /\ outcome \in Failures \ {"write"} => file = "previous"
          /\ hooked => file = "written"
      BY DEF Prepared, Phases
    <2>2. ASSUME file # "previous", NEW r \in DOMAIN resources
          PROVE  IF HasPlace(r)
                   THEN /\ ~HasErrors(r)
                        /\ Cardinality(Emitted(r)) = IF modules[r].cases = <<>> THEN 0 ELSE 1
                   ELSE Emitted(r) = {}
      <3>1. DOMAIN groups = {}
        BY <2>2, EmptyList DEF Assembled, Accounted
      <3>2. ~Pending(r)
        BY <3>1 DEF Pending
      <3>3. r \in DOMAIN arms <=> modules[r].cases # <<>>
        BY <2>2 DEF Prepared, Made, Nothing, Loaded
      <3>4. /\ HasPlace(r) =>
                 /\ ~HasErrors(r)
                 /\ r \in DOMAIN arms => \E k : Emitted(r) = {k}
                 /\ r \notin DOMAIN arms => Emitted(r) = {}
            /\ ~HasPlace(r) => Emitted(r) = {}
        BY <2>2, <3>2 DEF Assembled, Accounted
      <3>5. Cardinality({}) = 0 /\ \A k : Cardinality({k}) = 1
        BY FS_EmptySet, FS_Singleton
      <3>6. CASE r \in DOMAIN arms /\ HasPlace(r)
        <4>1. PICK k : Emitted(r) = {k}
          BY <3>4, <3>6
        <4>2. Cardinality(Emitted(r)) = 1
          BY <3>5, <4>1
        <4> QED BY <3>3, <3>4, <3>6, <4>2
      <3>7. CASE r \notin DOMAIN arms /\ HasPlace(r)
        <4>1. Cardinality(Emitted(r)) = 0
          BY <3>4, <3>5, <3>7
        <4> QED BY <3>3, <3>4, <3>7, <4>1
      <3> QED BY <3>4, <3>6, <3>7
    <2> QED BY <2>1, <2>2 DEF AllOrNothing
  <1> QED BY <1>1, AssembledAlways, PTL

(* A template is refused as circular exactly when some resources all wait  *)
(* for one another by depends_on, those the error names do, and it names   *)
(* some unless one waits for itself: for any number of resources, whatever *)
(* order toposort finds (graph/mod.rs, topo_order).                        *)
THEOREM CycleRefusedCorrect == Spec => []CycleRefused
  BY PreparedAlways, PTL
============================================================================
