--------------------------- MODULE TemplateParser ---------------------------
(***************************************************************************)
(* parse_template_file (parser/template.rs): the definition in a .gtpl     *)
(* text.                                                                   *)
(***************************************************************************)
EXTENDS HclSyntax

(* extract_string_list: a list, or a value that stands for a list of one. *)
StringList(value) == IF "items" \in DOMAIN value THEN Range(value.items) ELSE {value.item}

(* A binding without variables in its text is a literal, one with a text   *)
(* that begins with a variable a reference, any other is mixed.            *)
ParseResource(resource) ==
  LET bound    == AttributesIn(resource.blocks, "inputs")
      Are(kind) == {i \in DOMAIN bound : kind \in DOMAIN bound[i]}
  IN  [name       |-> Head(resource.labels),
       module     |-> AttributeOr(resource, "module", [value |-> ""]).value,
       literals   |-> [i \in Are("value") |-> bound[i].value],
       references |-> [i \in Are("refers") |-> bound[i].refers],
       mixed      |-> [i \in Are("mixed") |-> bound[i].mixed],
       dependsOn  |-> StringList(AttributeOr(resource, "depends_on", [items |-> <<>>]))]

(* The parameters, as pairs of group and name. *)
ParseParameters(parameters) ==
  UNION {{g.ident} \X DOMAIN g.attrs : g \in Range(parameters.blocks)}

ParseTemplateBlock(template) ==
  LET blocks    == template.blocks
      declared  == Named(blocks, "resource")
      labelled  == \A k \in declared : blocks[k].labels # <<>>
  IN  IF Lacks(blocks, "metadata") THEN Refused("missingRequiredBlock", "metadata")
      ELSE IF Lacks(blocks, "parameters") THEN Refused("missingRequiredBlock", "parameters")
      ELSE IF ~labelled THEN Refused("missingLabel", "resource")
      ELSE IF Lacks(blocks, "outputs") THEN Refused("missingRequiredBlock", "outputs")
      ELSE [error      |-> "none",
            name       |-> Head(template.labels),
            parameters |-> ParseParameters(FirstOf(blocks, "parameters")),
            resources  |-> [k \in declared |-> ParseResource(blocks[k])],
            outputs    |-> DOMAIN FirstOf(blocks, "outputs").attrs]

(* Blocks besides the first template are ignored; resources keep their     *)
(* places.                                                                 *)
ParseTemplate(text) ==
  LET tree == Source(text)
  IN  IF ~tree.hcl THEN Refused("hclParse", "file")
      ELSE IF Lacks(tree.blocks, "template") THEN Refused("missingRequiredBlock", "template")
      ELSE IF FirstOf(tree.blocks, "template").labels = <<>> THEN Refused("missingLabel", "template")
      ELSE ParseTemplateBlock(FirstOf(tree.blocks, "template"))
============================================================================
