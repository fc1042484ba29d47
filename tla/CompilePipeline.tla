-------------------------- MODULE CompilePipeline --------------------------
(***************************************************************************)
(* One run of graydr compile (cli/compile.rs, run_compile): read the       *)
(* template and its modules, resolve the variables, choose case arms,      *)
(* order and group the resources, render group by group, write the output  *)
(* and fire the post-compile hook.  Every step can end the run.            *)
(*                                                                         *)
(* The maps from resources are hash maps, whose iteration order is another *)
(* one in every run: it is chosen where it can matter.  Values stand for   *)
(* strings, numbered in their order.                                       *)
(***************************************************************************)
EXTENDS PropertiesMerge, DependencyGraph, ModuleParser, TemplateParser

CONSTANTS Compilations,  \* what a run can be given
          NameStarts,    \* pairs of names, the first the start of the second
          Later,         \* pairs of variables of an arm, the second replaced
                         \* after the first: shorter, or as long and after it
          Held,          \* pairs of a value and a variable in its text
          TeraRejects,   \* values whose text is an error to Tera
          Faults         \* whether the "disk" can fail

(* A compilation is a record:                                              *)
(*   template        the text of the .gtpl file                            *)
(*   includePath     directories: the texts of .gmod files by module name  *)
(*   broken          whether the "properties" cannot be read               *)
(*   files           the properties files, in order                        *)
(*   defines         the -D flags, in order                                *)

VARIABLES
  compilation,           \* the input of the run
  pc,                    \* the next step
  outcome,               \* "running", "ok" or the step that failed
  resources, modules,    \* resource_map, module_map: by resource name
  context,               \* the variables
  arms,                  \* arm_map: the arm chosen for a resource
  edges, topo, groups,   \* dependencies, their order, assembly groups
  cycle,                 \* the members a circular dependency names
  output,                \* blocks rendered so far
  file,                  \* the output file: "previous", "empty", "written"
  hooked                 \* whether the post-compile hook was called

loaded == <<resources, modules>>
order  == <<edges, topo, groups, cycle>>
result == <<output, file, hooked>>
vars   == <<compilation, pc, outcome, loaded, context, arms, order, result>>

Steps == <<"load", "context", "dispatch", "edges", "sort", "group",
           "assemble", "open", "write", "hook", "stopped">>

Failures == {"template", "module", "properties", "dispatch", "unknownDependency",
             "circular", "validation", "render", "write"}

TypeOK ==
  /\ pc \in Range(Steps)
  /\ outcome \in {"running", "ok"} \cup Failures
  /\ DOMAIN modules = DOMAIN resources
  /\ \A r \in DOMAIN modules :
       \E dir \in Range(compilation.includePath) :
          \E text \in Range(dir) : text # Unreadable /\ modules[r] = ParseModule(text)
  /\ resources # NoValues =>
       \A r \in DOMAIN resources :
          resources[r] \in Range(ParseTemplate(compilation.template).resources)
  /\ DOMAIN arms \subseteq DOMAIN resources
  /\ edges \subseteq (DOMAIN resources) \X (DOMAIN resources)
  /\ Range(topo) \subseteq DOMAIN resources
  /\ cycle \subseteq DOMAIN resources
  /\ \A b \in Range(output) : b.resource \in DOMAIN arms
  /\ file \in {"previous", "empty", "written"}
  /\ hooked \in BOOLEAN

Init ==
  /\ compilation \in Compilations
  /\ pc = "load" /\ outcome = "running"
  /\ resources = NoValues /\ modules = NoValues
  /\ context = NoValues
  /\ arms = NoValues
  /\ edges = {} /\ topo = <<>> /\ groups = <<>> /\ cycle = {}
  /\ output = <<>> /\ file = "previous" /\ hooked = FALSE

Fail(code) ==
  /\ pc' = "stopped"
  /\ outcome' = code
  /\ UNCHANGED <<compilation, loaded, context, arms, order, output, hooked>>

Goto(step) ==
  /\ pc' = step
  /\ UNCHANGED <<compilation, outcome>>
----------------------------------------------------------------------------
(* Inserting into the map: the last resource of a name replaces others.    *)
LastDeclaration(template, r) == template[Max({k \in DOMAIN template : template[k].name = r})]

(* FilesystemModuleResolver: the first directory with the file decides,    *)
(* also when it cannot be read there.                                      *)
ResolveModule(name) ==
  LET path == compilation.includePath
      having == {k \in DOMAIN path : name \in DOMAIN path[k]}
  IN  IF having = {} THEN Unreadable ELSE path[Min(having)][name]

(* What the parsers make of the texts a run can meet. *)
ModuleTexts   == UNION {UNION {Range(dir) : dir \in Range(c.includePath)} : c \in Compilations}
TemplateTexts == {c.template : c \in Compilations}
ModuleIn      == [t \in ModuleTexts \ {Unreadable} |-> ParseModule(t)]
TemplateIn    == [t \in TemplateTexts \ {Unreadable} |-> ParseTemplate(t)]

Names(template) == {d.name : d \in Range(template.resources)}

(* How the inputs of a resource are bound. *)
IsBinding(value) ==
  /\ "value" \in DOMAIN value => value.value \in Nat
  /\ "mixed" \in DOMAIN value => value.mixed \in Nat
  /\ "refers" \in DOMAIN value => IsVariable(value.refers)

ASSUME TextsAssumption ==
  \A t \in (ModuleTexts \cup TemplateTexts) \ {Unreadable} :
    /\ Source(t).hcl \in BOOLEAN
    /\ \A body \in BodiesOf(Source(t)) : IsList(body)

(* Bare is no name.  Variables in code are $i and $r.i. *)
ASSUME WrittenAssumption ==
  /\ \A t \in TemplateTexts \ {Unreadable} :
       \A body \in BodiesOf(Source(t)) : \A b \in Range(body) :
         /\ b.ident = "resource" /\ b.labels # <<>> => Head(b.labels) # Bare
         /\ b.ident = "inputs" => \A i \in DOMAIN b.attrs : IsBinding(b.attrs[i])
  /\ \A t \in ModuleTexts \ {Unreadable} :
       \A body \in BodiesOf(Source(t)) : \A b \in Range(body) :
         "code" \in DOMAIN b.attrs => \A w \in b.attrs["code"].names : IsVariable(w[1])

IsDocument(doc) ==
  \A p \in DOMAIN doc :
    /\ IsList(p)
    /\ p # <<>> => p[1] # Bare
    /\ doc[p].kind = "scalar" => doc[p].value \in Nat

ASSUME CompilationsAssumption ==
  \A c \in Compilations :
    /\ IsList(c.includePath) /\ IsList(c.files) /\ IsList(c.defines)
    /\ \A doc \in Range(c.files) : IsDocument(doc)
    /\ \A d \in Range(c.defines) : Len(d) = 2 => d[2] \in Nat

ASSUME StartsAssumption == \A e \in NameStarts : <<e[2], e[1]>> \notin NameStarts

Loads(name) == ResolveModule(name) # Unreadable /\ Accepted(ModuleIn[ResolveModule(name)])

(* Steps 1 to 3: the template and every resource's module must load. *)
Load ==
  /\ pc = "load"
  /\ LET readable == compilation.template # Unreadable
         parsed   == TemplateIn[compilation.template]
         template == parsed.resources
         Decl(r)  == LastDeclaration(template, r)
     IN  \/ /\ readable => ~Accepted(parsed)
            /\ Fail("template") /\ UNCHANGED file
         \/ /\ readable /\ Accepted(parsed)
            /\ \E d \in Range(template) : ~Loads(d.module)
            /\ Fail("module") /\ UNCHANGED file
         \/ /\ readable /\ Accepted(parsed)
            /\ \A d \in Range(template) : Loads(d.module)
            /\ resources' = [r \in Names(parsed) |-> Decl(r)]
            /\ modules' = [r \in Names(parsed) |-> ModuleIn[ResolveModule(Decl(r).module)]]
            /\ Goto("context")
            /\ UNCHANGED <<context, arms, order, result>>

(* Steps 4 to 8. *)
BuildContext ==
  /\ pc = "context"
  /\ LET merged == MergeFiles(compilation.files)
     IN  \/ /\ "properties" \in compilation.broken \/ ~Flattens(merged)
            /\ Fail("properties") /\ UNCHANGED file
         \/ /\ "properties" \notin compilation.broken /\ Flattens(merged)
            /\ \E iteration \in SetToSeqs(DOMAIN resources) :
                 context' = TwoPassContext(modules, resources, iteration,
                                           FlattenToDotted(merged),
                                           CliFlags(compilation.defines))
            /\ Goto("dispatch")
            /\ UNCHANGED <<loaded, arms, order, result>>

(* dispatch_case: the first arm with exactly the values of the variables.  *)
Selects(case, arm) ==
  /\ \A k \in DOMAIN case.on : case.on[k] \in DOMAIN context
  /\ arm.keys = [k \in DOMAIN case.on |-> context[case.on[k]]]

Dispatches(case) == \E arm \in Range(case.arms) : Selects(case, arm)

DispatchCase(case) == case.arms[Min({k \in DOMAIN case.arms : Selects(case, case.arms[k])})]

LastCase(module) == module.cases[Max(DOMAIN module.cases)]

(* Step 9: every case must have an arm; the last one's is kept. *)
Dispatch ==
  /\ pc = "dispatch"
  /\ \/ /\ \E r \in DOMAIN modules : \E c \in Range(modules[r].cases) : ~Dispatches(c)
        /\ Fail("dispatch") /\ UNCHANGED file
     \/ /\ \A r \in DOMAIN modules : \A c \in Range(modules[r].cases) : Dispatches(c)
        /\ arms' = [r \in {q \in DOMAIN modules : modules[q].cases # <<>>} |->
                      DispatchCase(LastCase(modules[r]))]
        /\ Goto("edges")
        /\ UNCHANGED <<loaded, context, order, result>>

Explicit == UNION {resources[r].dependsOn \X {r} : r \in DOMAIN resources}

(* Mutants: unknown dependencies are kept; edges point backwards. *)
AddEdgesUnchecked ==
  /\ pc = "edges"
  /\ edges' = Explicit
  /\ Goto("sort")
  /\ UNCHANGED <<loaded, context, arms, topo, groups, cycle, result>>

AddEdgesBackwards ==
  /\ pc = "edges"
  /\ \/ /\ \E e \in Explicit : e[1] \notin DOMAIN resources
        /\ Fail("unknownDependency") /\ UNCHANGED file
     \/ /\ \A e \in Explicit : e[1] \in DOMAIN resources
        /\ edges' = {<<e[2], e[1]>> : e \in Explicit}
        /\ Goto("sort")
        /\ UNCHANGED <<loaded, context, arms, topo, groups, cycle, result>>

(* Step 10. *)
AddEdges ==
  /\ pc = "edges"
  /\ \/ /\ \E e \in Explicit : e[1] \notin DOMAIN resources
        /\ Fail("unknownDependency") /\ UNCHANGED file
     \/ /\ \A e \in Explicit : e[1] \in DOMAIN resources
        /\ edges' = Explicit
        /\ Goto("sort")
        /\ UNCHANGED <<loaded, context, arms, topo, groups, cycle, result>>

(* Step 11. *)
Sort ==
  /\ pc = "sort"
  /\ LET orders == TopoOrders(DOMAIN resources, edges)
     IN  \/ /\ orders = {}
            /\ pc' = "stopped" /\ outcome' = "circular"
            /\ cycle' = CycleMembers(DOMAIN resources, edges)
            /\ UNCHANGED <<compilation, loaded, context, arms, edges, topo, groups, result>>
         \/ /\ topo' \in orders
            /\ Goto("group")
            /\ UNCHANGED <<loaded, context, arms, edges, groups, cycle, result>>

(* Step 12: the resource's own binding, or else the plain variable. *)
PlacedBy(r, input) ==
  LET own    == BindingValue(resources[r], input, context)
      global == IF <<Bare, input>> \in DOMAIN context THEN {context[<<Bare, input>>]} ELSE {}
  IN  IF own # {} THEN own ELSE global

PlacementMap(input) ==
  [r \in {q \in DOMAIN resources : PlacedBy(q, input) # {}} |->
     CHOOSE v \in PlacedBy(r, input) : TRUE]

(* extract_region_mapping: the variables region_mapping.x, by x; no        *)
(* region has a dot in it.                                                 *)
RegionMapping ==
  LET entries == {v \in DOMAIN context : v = <<"region_mapping", v[2]>>}
  IN  [x \in {v[2] : v \in entries} |-> context[<<"region_mapping", x>>]]

(* Steps 12 to 14.  The three maps are made once, before the groups. *)
GroupResources ==
  /\ pc = "group"
  /\ \E provider \in {PlacementMap("provider")}, region \in {PlacementMap("region")},
        mapping \in {RegionMapping} :
       groups' = AssembleByProviderRegion(topo, provider, region, mapping)
  /\ Goto("assemble")
  /\ UNCHANGED <<loaded, context, arms, edges, topo, cycle, result>>
----------------------------------------------------------------------------
(* run_validation_pipeline.  Required inputs must be bound, whatever the   *)
(* context holds, and bound ones declared; a rule without a condition, or  *)
(* about a variable without a value, is an error of any severity.          *)
Bound(r) == DOMAIN resources[r].literals \cup Variable(resources[r])

Evaluates(rule) == \E c \in rule.condition : <<Bare, c.on>> \in DOMAIN context

Violates(rule) ==
  IF Evaluates(rule)
    THEN /\ rule.severity = "error"
         /\ \A c \in rule.condition : context[<<Bare, c.on>>] \notin c.allowed
    ELSE TRUE

InputsMatch(r) ==
  LET inputs == modules[r].inputs
  IN  /\ {i \in DOMAIN inputs : inputs[i].required} \subseteq Bound(r)
      /\ Bound(r) \subseteq DOMAIN inputs

HasErrors(r) == ~InputsMatch(r) \/ \E rule \in modules[r].rules : Violates(rule)

(* The variables of an arm are those of its own code. *)
Uses(r) == arms[r].variables

(* expand_includes, then render_raw_code, which needs a value for every    *)
(* variable of the arm and hands the text to Tera::one_off, with what the  *)
(* variables have brought into it.                                         *)
Renders(r) ==
  /\ ~arms[r].broken
  /\ Uses(r) \subseteq DOMAIN context
  /\ arms[r].tera
  /\ \A v \in Uses(r) : context[v] \notin TeraRejects

(* The text $w begins with the text $u. *)
StartsWith(w, u) ==
  LET s == Path(u)
      t == Path(w)
      n == Len(s)
  IN  /\ n <= Len(t) /\ Front(s) = SubSeq(t, 1, n - 1)
      /\ s[n] = t[n] \/ <<s[n], t[n]>> \in NameStarts

(* A mutant: the names are replaced shortest first. *)
ReplacedShortest(w, names) ==
  LET starting == {u \in names : StartsWith(w, u)}
  IN  {u \in starting : \A t \in starting : StartsWith(t, u)}

(* The names are replaced in the whole expanded text, the longest first,   *)
(* whatever follows them: which name replaces (the beginning of) $w.       *)
Replaced(w, names) ==
  LET starting == {u \in names : StartsWith(w, u)}
  IN  {u \in starting : \A t \in starting : StartsWith(u, t)}

(* What stands for the text $w once names have been replaced: the name and *)
(* its value, or nothing where the text is as it was.                      *)
Substituted(w, names) == {<<u, context[u]>> : u \in Replaced(w, names)}

VariablesIn(value) == {p[2] : p \in {q \in Held : q[1] = value}}

(* A rendered block: what stands for the variables of its text, and, as    *)
(* the names are replaced one after the other, what the later ones make of *)
(* the variables in the value of a name.                                   *)
Block(r, placement) ==
  [resource  |-> r,
   placement |-> placement,
   text      |-> [w \in {v[1] : v \in arms[r].names} \cup arms[r].fragments |->
                    Substituted(w, Uses(r))],
   within    |-> [u \in Uses(r) |-> [w \in VariablesIn(context[u]) |->
                    Substituted(w, {t \in Uses(r) : <<u, t>> \in Later})]]]

(* Steps 15 and 16, one group: all of its resources are validated before   *)
(* the first is rendered.                                                  *)
AssembleOutput ==
  /\ pc = "assemble" /\ groups # <<>>
  /\ LET group     == Head(groups)
         rendered  == InOrder(Range(group.resources) \cap DOMAIN arms, Earlier(group.resources))
         placement == group.placement
     IN  \/ /\ \E r \in Range(group.resources) : HasErrors(r)
            /\ Fail("validation") /\ UNCHANGED file
         \/ /\ \A r \in Range(group.resources) : ~HasErrors(r)
            /\ \E r \in Range(rendered) : ~Renders(r)
            /\ Fail("render") /\ UNCHANGED file
         \/ /\ \A r \in Range(group.resources) : ~HasErrors(r)
            /\ \A r \in Range(rendered) : Renders(r)
            /\ output' = output \o [k \in DOMAIN rendered |-> Block(rendered[k], placement)]
            /\ groups' = Tail(groups)
            /\ Goto("assemble")
            /\ UNCHANGED <<loaded, context, arms, edges, topo, cycle, file, hooked>>

(* Mutants: the output is written group by group; an empty one never is.   *)
EndAssemblyEarly ==
  /\ pc = "assemble"
  /\ Goto("open")
  /\ UNCHANGED <<loaded, context, arms, order, result>>

EndAssemblyNonEmpty ==
  /\ pc = "assemble" /\ groups = <<>> /\ output # <<>>
  /\ Goto("open")
  /\ UNCHANGED <<loaded, context, arms, order, result>>

EndAssembly ==
  /\ pc = "assemble" /\ groups = <<>>
  /\ Goto("open")
  /\ UNCHANGED <<loaded, context, arms, order, result>>

(* Step 17: fs::write creates or truncates the file, then writes; either   *)
(* can fail.                                                               *)
OpenOutput ==
  /\ pc = "open"
  /\ \/ /\ "disk" \in Faults
        /\ Fail("write") /\ UNCHANGED file
     \/ /\ file' = "empty"
        /\ Goto("write")
        /\ UNCHANGED <<loaded, context, arms, order, output, hooked>>

WriteOutput ==
  /\ pc = "write"
  /\ \/ /\ "disk" \in Faults
        /\ Fail("write") /\ UNCHANGED file
     \/ /\ file' = "written"
        /\ Goto("hook")
        /\ UNCHANGED <<loaded, context, arms, order, output, hooked>>

OnCompileSuccess ==
  /\ pc = "hook"
  /\ hooked' = TRUE
  /\ pc' = "stopped" /\ outcome' = "ok"
  /\ UNCHANGED <<compilation, loaded, context, arms, order, output, file>>

Next ==
  \/ Load \/ BuildContext \/ Dispatch
  \/ AddEdges \/ Sort \/ GroupResources
  \/ AssembleOutput \/ EndAssembly
  \/ OpenOutput \/ WriteOutput \/ OnCompileSuccess

Spec     == Init /\ [][Next]_vars
FairSpec == Spec /\ WF_vars(Next)
============================================================================
