--------------------------- MODULE ResolveContext ---------------------------
(***************************************************************************)
(* The variables of a compilation (resolver/context.rs and the two passes  *)
(* of run_compile that fill it).  All maps are partial functions from      *)
(* variables to values.                                                    *)
(*                                                                         *)
(* A resource binds inputs to literals, to references, or to mixed texts   *)
(* with variables in them; an output reference ${r.o} is a literal like    *)
(* any other.                                                              *)
(***************************************************************************)
EXTENDS HclSyntax

NoValues == [v \in {} |-> 0]

(* HashMap::extend: the entries of g replace those of f. *)
Extend(f, g) ==
  [v \in DOMAIN f \cup DOMAIN g |-> IF v \in DOMAIN g THEN g[v] ELSE f[v]]

(* A mutant: flags and properties swapped. *)
BuildFlagsFirst(defaults, overrides, properties, flags) ==
  Extend(Extend(Extend(defaults, overrides), flags), properties)

(* ResolveContext::build. *)
Build(defaults, overrides, properties, flags) ==
  Extend(Extend(Extend(defaults, overrides), properties), flags)

(* Step 6: the modules' defaults, under the names of the resources.        *)
GmodDefaults(modules) ==
  LET Defaulted(r) == {i \in DOMAIN modules[r].inputs : modules[r].inputs[i].default # {}}
  IN  [v \in UNION {{r} \X Defaulted(r) : r \in DOMAIN modules} |->
         CHOOSE x \in modules[v[1]].inputs[v[2]].default : TRUE]

(* Step 7: the literals of the bindings, dotted, and bare for the first    *)
(* resource in the map's order that binds the input.                       *)
GtplOverrides(resources, order) ==
  LET dotted   == UNION {{r} \X DOMAIN resources[r].literals : r \in Range(order)}
      binds(i) == {k \in DOMAIN order : i \in DOMAIN resources[order[k]].literals}
      bare     == {<<Bare, v[2]>> : v \in dotted}
  IN  [v \in dotted \cup bare |->
         LET r == IF v \in dotted THEN v[1] ELSE order[Min(binds(v[2]))]
         IN  resources[r].literals[v[2]]]

(* resolve_binding_value of the binding of input i, for i bound: a partial *)
(* result, as a set of at most one value.  All that follows the first $ of *)
(* a reference is looked up, which finds nothing for most texts of more    *)
(* than a variable; a mixed text is left as it is.                         *)
BindingValue(resource, i, context) ==
  IF i \in DOMAIN resource.literals THEN {resource.literals[i]}
  ELSE IF i \in DOMAIN resource.mixed THEN {resource.mixed[i]}
  ELSE IF i \in DOMAIN resource.references /\ resource.references[i] \in DOMAIN context
    THEN {context[resource.references[i]]}
    ELSE {}

Variable(resource) == DOMAIN resource.references \cup DOMAIN resource.mixed

(* Step 8, second pass: bindings with variables, bare, for the last        *)
(* resource in the order whose binding resolves, unless the bare name has  *)
(* a value.                                                                *)
ResolvedAliases(resources, order, context) ==
  LET Resolves(r, i) == /\ i \in Variable(resources[r])
                        /\ BindingValue(resources[r], i, context) # {}
      inputs  == UNION {Variable(resources[r]) : r \in Range(order)}
      aliased == {<<Bare, i>> : i \in {j \in inputs : /\ <<Bare, j>> \notin DOMAIN context
                                                      /\ \E r \in Range(order) : Resolves(r, j)}}
  IN  [v \in aliased |->
         LET r == order[Max({k \in DOMAIN order : Resolves(order[k], v[2])})]
         IN  CHOOSE x \in BindingValue(resources[r], v[2], context) : TRUE]

(* Steps 6 to 8. *)
TwoPassContext(modules, resources, order, properties, flags) ==
  LET defaults  == GmodDefaults(modules)
      overrides == GtplOverrides(resources, order)
      initial   == Build(defaults, overrides, properties, flags)
      aliases   == ResolvedAliases(resources, order, initial)
  IN  Build(defaults, Extend(aliases, overrides), properties, flags)
============================================================================
