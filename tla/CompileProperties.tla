------------------------- MODULE CompileProperties -------------------------
(***************************************************************************)
(* What a compilation promises, stated against the template, properties    *)
(* and flags it was given, and not against the maps it builds on the way.  *)
(***************************************************************************)
EXTENDS CompilePipeline

(* The last flag of a variable. *)
FromFlags(v) ==
  LET defines == compilation.defines
      given   == {k \in DOMAIN defines : Len(defines[k]) = 2 /\ defines[k][1] = v}
  IN  IF given = {} THEN {} ELSE {defines[Max(given)][2]}

(* The last file that says anything about the path of a variable decides:  *)
(* it has a scalar there, or a null or a list, something above or below.   *)
FromFiles(v) ==
  LET says(doc) == \E p \in DOMAIN doc : Related(p, Path(v))
      saying    == {k \in DOMAIN compilation.files : says(compilation.files[k])}
      doc       == compilation.files[Max(saying)]
  IN  IF saying = {} THEN {}
      ELSE {doc[p].value : p \in {q \in DOMAIN doc : q = Path(v) /\ doc[q].kind = "scalar"}}

(* The inputs that the last resource of a name has in the text of the      *)
(* first template.                                                         *)
Written(r) ==
  LET template == FirstOf(Source(compilation.template).blocks, "template")
      named    == {k \in Named(template.blocks, "resource") : Head(template.blocks[k].labels) = r}
  IN  AttributesIn(template.blocks[Max(named)].blocks, "inputs")

Bindings(r, i, kind) ==
  {Written(r)[j][kind] : j \in {i} \cap {k \in DOMAIN Written(r) : kind \in DOMAIN Written(r)[k]}}

Everywhere(i, kind) == UNION {Bindings(r, i, kind) : r \in DOMAIN resources}

(* The values a plain input can have from the literals of the resources:   *)
(* more than one when resources disagree.                                  *)
Literals(i) == Everywhere(i, "value")

(* The four sources of a variable, from the strongest to the weakest.      *)
Chain(v) ==
  IF FromFlags(v) # {} THEN FromFlags(v)
  ELSE IF FromFiles(v) # {} THEN FromFiles(v)
  ELSE IF v[1] = Bare THEN Literals(v[2])
  ELSE IF v[1] \notin DOMAIN resources THEN {}
  ELSE IF Bindings(v[1], v[2], "value") # {} THEN Bindings(v[1], v[2], "value")
  ELSE IF v[2] \in DOMAIN modules[v[1]].inputs THEN modules[v[1]].inputs[v[2]].default
  ELSE {}

(* A plain input without any takes the value of a reference bound to it,   *)
(* if that has one, or a mixed text as it is.                              *)
References(i) ==
  (UNION {Chain(v) : v \in Everywhere(i, "refers")}) \cup Everywhere(i, "mixed")

Meaning(v) ==
  IF Chain(v) = {} /\ v[1] = Bare THEN References(v[2]) ELSE Chain(v)

(* A resource has a place when its provider and region have values: its    *)
(* own, which no flag changes, or that of the plain variable.              *)
HasPlace(r) ==
  \A i \in {"provider", "region"} :
    \/ Bindings(r, i, "value") \cup Bindings(r, i, "mixed") # {}
    \/ \E v \in Bindings(r, i, "refers") : Meaning(v) # {}
    \/ Meaning(<<Bare, i>>) # {}

Emitted(r) == {k \in DOMAIN output : output[k].resource = r}
----------------------------------------------------------------------------
(* Every variable of an arm is replaced in the output as a whole, and by   *)
(* its value from the strongest source that gives one, whatever the order  *)
(* in which maps were walked; where the sources agree on one value, the    *)
(* output has that value in every run.  What later replacements put into   *)
(* such a value has the strongest source too, though it need not replace a *)
(* whole name there.  Rendering only fails when an include does, when Tera *)
(* refuses the code or a value put into it, or for want of a value in all  *)
(* four sources.                                                           *)
ShownAs(k, v) == {x \in Meaning(v) : output[k].text[v] = {<<v, x>>}}

(* What replacements within the value of v put there, as <<name, value>>.  *)
PutWithin(k, v) == UNION Range(output[k].within[v])

CannotRender(r) ==
  \/ arms[r].broken \/ ~arms[r].tera
  \/ \E v \in Uses(r) : Meaning(v) = {} \/ Meaning(v) \cap TeraRejects # {}

ResolvedByChain ==
  /\ \A k \in DOMAIN output : \A v \in Uses(output[k].resource) :
       /\ ShownAs(k, v) # {}
       /\ \A p \in PutWithin(k, v) : p[2] \in Meaning(p[1])
  /\ outcome = "render" => \E r \in DOMAIN arms : CannotRender(r)

(* Within a group a resource follows everything it declares with           *)
(* depends_on, also by way of resources of other groups or without a       *)
(* place.  The code makes no edge for a reference ${r.o} in a binding.     *)
DependenciesFirst ==
  LET reaches == Reaches(DOMAIN resources, Explicit)
  IN  \A j, k \in DOMAIN output :
        /\ j < k
        /\ output[j].placement = output[k].placement
        => <<output[k].resource, output[j].resource>> \notin reaches

(* The output file is not touched before the whole output is there: every  *)
(* resource with a case and a place once, all of them valid, also when a   *)
(* later group is the one that fails.  A resource without a place is left  *)
(* out, and no error.  The hook comes last.                                *)
AllOrNothing ==
  /\ outcome \in Failures \ {"write"} => file = "previous"
  /\ hooked => file = "written"
  /\ file # "previous" =>
       \A r \in DOMAIN resources :
         IF HasPlace(r)
           THEN /\ ~HasErrors(r)
                /\ Cardinality(Emitted(r)) = IF modules[r].cases = <<>> THEN 0 ELSE 1
           ELSE Emitted(r) = {}

(* A template is refused as circular exactly when some resources all wait  *)
(* for one another by what they declare with depends_on.  The members the  *)
(* error names really do, and it names some unless a resource waits for    *)
(* itself.                                                                 *)
Waiting(S) == \A r \in S : \E d \in S : d \in resources[r].dependsOn

CycleRefused ==
  /\ topo # <<>> => \A S \in SUBSET DOMAIN resources : Waiting(S) => S = {}
  /\ outcome = "circular" =>
       /\ \E S \in SUBSET DOMAIN resources : S # {} /\ Waiting(S)
       /\ cycle # {} \/ \E r \in DOMAIN resources : Waiting({r})
  /\ Waiting(cycle)

(* Under FairSpec: a run ends, with the output or with an error. *)
Terminates == <>(pc = "stopped")
----------------------------------------------------------------------------
(* What the repository says of compilations, and they do not do. *)

(* language-spec.md, 6: "gtpl override - inputs { key = "literal" } in     *)
(* resource block".  The literal a resource binds to an input is what its  *)
(* own code gets for the input, unless properties or flags replace it.     *)
OwnInputUsed ==
  \A k \in DOMAIN output : \A v \in Uses(output[k].resource) :
    LET own == Bindings(output[k].resource, v[2], "value")
    IN  v[1] = Bare /\ own # {} /\ FromFlags(v) \cup FromFiles(v) = {}
          => output[k].text[v] = {<<v, x>> : x \in own}

(* template-authoring-guide.md, Explicit depends_on: "The compiler ensures *)
(* these resources are emitted before the declaring resource".             *)
DependsOnEmittedFirst ==
  \A j, k \in DOMAIN output :
    j < k => output[k].resource \notin resources[output[j].resource].dependsOn
============================================================================
