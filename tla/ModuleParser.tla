---------------------------- MODULE ModuleParser ----------------------------
(***************************************************************************)
(* parse_module_file (parser/module.rs): the definition in a .gmod text.   *)
(***************************************************************************)
EXTENDS HclSyntax

Sections == <<"metadata", "interface", "validation", "generate">>

Governance == {"security_tier", "compliance_frameworks", "cost_tier",
               "data_classification", "disaster_recovery_tier"}

(* extract_input_flags: anything but an object has none of the flags. *)
HasKey(value, key) == "keys" \in DOMAIN value /\ key \in value.keys
IsTrue(value, key) == "keys" \in DOMAIN value /\ key \in value.true

(* Defaults are not parsed. *)
ParseInput(value) ==
  [required |-> IsTrue(value, "required"), sensitive |-> IsTrue(value, "sensitive"),
   hasType |-> HasKey(value, "type"), default |-> {}]

ParseInputs(interface) ==
  LET attrs == AttributesIn(interface.blocks, "inputs")
  IN  [i \in DOMAIN attrs |-> ParseInput(attrs[i])]

ParseOutputs(interface) == DOMAIN AttributesIn(interface.blocks, "outputs")

Severity(value) ==
  IF "value" \in DOMAIN value /\ value.value \in {"warning", "info"} THEN value.value ELSE "error"

(* A rule without a condition has the empty text for one. *)
ParseRule(rule) ==
  [condition |-> IF "condition" \in DOMAIN rule.attrs THEN {rule.attrs["condition"]} ELSE {},
   severity  |-> Severity(AttributeOr(rule, "severity", [value |-> "error"]))]

ParseRules(validation) ==
  {ParseRule(validation.blocks[k]) : k \in Named(validation.blocks, "rule")}

NoCode == [names |-> {}, fragments |-> {}, broken |-> FALSE, tera |-> TRUE, blank |-> TRUE]

(* An arm is the block of its only key, or a block with its keys as labels.*)
ParseArm(arm) ==
  LET outputs == AttributesIn(arm.blocks, "outputs")
      code    == AttributeOr(arm, "code", NoCode)
  IN  [keys      |-> IF arm.labels = <<>> THEN <<arm.ident>> ELSE arm.labels,
       names     |-> code.names, fragments |-> code.fragments,
       broken    |-> code.broken, tera |-> code.tera, blank |-> code.blank,
       variables |-> ScanVariables(code.names),
       outputs   |-> [o \in DOMAIN outputs |-> ScanVariables(outputs[o].names)]]

ParseCase(case) ==
  [on |-> case.labels, arms |-> [k \in DOMAIN case.blocks |-> ParseArm(case.blocks[k])]]

ParseSections(module) ==
  LET blocks   == module.blocks
      unknown  == {k \in DOMAIN blocks : blocks[k].ident \notin Range(Sections)}
      missing  == {n \in DOMAIN Sections : Lacks(blocks, Sections[n])}
      generate == FirstOf(blocks, "generate").blocks
      cases    == Named(generate, "case")
      labelled == \A k \in cases : generate[k].labels # <<>>
  IN  IF unknown # {} THEN Refused("unknownBlock", blocks[Min(unknown)].ident)
      ELSE IF missing # {} THEN Refused("missingRequiredBlock", Sections[Min(missing)])
      ELSE IF ~labelled THEN Refused("invalidCaseLabel", "case")
      ELSE [error    |-> "none",
            name     |-> Head(module.labels),
            metadata |-> DOMAIN FirstOf(blocks, "metadata").attrs \cap Governance,
            inputs   |-> ParseInputs(FirstOf(blocks, "interface")),
            outputs  |-> ParseOutputs(FirstOf(blocks, "interface")),
            rules    |-> ParseRules(FirstOf(blocks, "validation")),
            cases    |-> [k \in cases |-> ParseCase(generate[k])]]

(* Of several modules the last counts, of several sections, inputs and     *)
(* outputs the first.  Cases keep their places.                            *)
ParseModule(text) ==
  LET tree    == Source(text)
      unknown == {k \in DOMAIN tree.blocks : tree.blocks[k].ident # "module"}
  IN  IF ~tree.hcl THEN Refused("hclParse", "file")
      ELSE IF unknown # {} THEN Refused("unknownBlock", tree.blocks[Min(unknown)].ident)
      ELSE IF tree.blocks = <<>> THEN Refused("missingRequiredBlock", "module")
      ELSE IF Last(tree.blocks).labels = <<>> THEN Refused("missingLabel", "module")
      ELSE ParseSections(Last(tree.blocks))
============================================================================
