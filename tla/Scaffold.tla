------------------------------ MODULE Scaffold ------------------------------
(***************************************************************************)
(* What graydr init writes (cli/scaffold.rs): a module and a template with *)
(* every required block, their trees and their layouts.  Comment lines are *)
(* left out, but for the variable one of them names in the module's code.  *)
(***************************************************************************)
EXTENDS HclSyntax

Written(ident, labels, attrs, blocks) ==
  [ident |-> ident, labels |-> labels, attrs |-> attrs, blocks |-> blocks]

Section(ident, blocks) == Written(ident, <<>>, NoAttributes, blocks)

About == Written("metadata", <<>>, [k \in {"description", "version"} |-> [value |-> k]], <<>>)

Only(key, value) == [k \in {key} |-> value]

ScaffoldArm(provider, names) ==
  Written(provider, <<>>,
    Only("code", [names |-> names, fragments |-> {}, broken |-> FALSE, tera |-> TRUE,
                  blank |-> FALSE]),
    <<Section("outputs", <<>>)>>)

ScaffoldModule ==
  [hcl |-> TRUE, blocks |->
     <<Written("module", <<"my_module">>, NoAttributes,
         <<About,
           Section("interface",
             <<Written("inputs", <<>>,
                 Only("my_variable", [keys |-> {"required", "sensitive"}, true |-> {"required"}]), <<>>),
               Section("outputs", <<>>)>>),
           Section("validation", <<>>),
           Section("generate",
             <<Written("case", <<<<Bare, "provider">>>>, NoAttributes,
                 <<ScaffoldArm("aws", {<<<<Bare, "my_variable">>, FALSE>>}),
                   ScaffoldArm("azure", {})>>)>>)>>)>>]

ScaffoldTemplate ==
  [hcl |-> TRUE, blocks |->
     <<Written("template", <<"my_template">>, NoAttributes,
         <<About,
           Section("parameters",
             <<Written("config", <<>>, [k \in {"provider", "region"} |-> [keys |-> {}, true |-> {}]], <<>>)>>),
           Written("resource", <<"main">>, Only("module", [value |-> "my_module"]),
             <<Written("inputs", <<>>, Only("my_variable", [refers |-> <<"config", "provider">>]), <<>>)>>),
           Section("outputs", <<>>)>>)>>]

(* An attribute at a nesting level whose = is pad spaces after the key. *)
Line(level, key, pad, multi) ==
  [kind |-> "attribute", key |-> key, multi |-> multi, indent |-> 2 * level,
   inline |-> "none", beside |-> FALSE, pad |-> pad, after |-> 1, blank |-> 0]

Blocks(blanks) == [k \in DOMAIN blanks |-> [kind |-> "block", blank |-> blanks[k]]]

AboutLayout == [level |-> 2, entries |-> <<Line(2, 11, 1, FALSE), Line(2, 7, 5, FALSE)>>]

(* The bodies from the outside in, one after the other. *)
ScaffoldModuleLayout ==
  <<[level |-> 0, entries |-> Blocks(<<0>>)],
    [level |-> 1, entries |-> Blocks(<<0, 1, 1, 1>>)],
    AboutLayout,
    [level |-> 2, entries |-> Blocks(<<0, 0>>)],
    [level |-> 3, entries |-> <<Line(3, 11, 1, TRUE)>>],
    [level |-> 2, entries |-> Blocks(<<0>>)],
    [level |-> 3, entries |-> Blocks(<<0, 0>>)],
    [level |-> 4, entries |-> <<Line(4, 4, 1, TRUE)>> \o Blocks(<<0>>)],
    [level |-> 4, entries |-> <<Line(4, 4, 1, TRUE)>> \o Blocks(<<0>>)]>>

ScaffoldTemplateLayout ==
  <<[level |-> 0, entries |-> Blocks(<<0>>)],
    [level |-> 1, entries |-> Blocks(<<0, 1, 1, 1>>)],
    AboutLayout,
    [level |-> 2, entries |-> Blocks(<<0>>)],
    [level |-> 3, entries |-> <<Line(3, 8, 1, FALSE), Line(3, 6, 3, FALSE)>>],
    [level |-> 2, entries |-> <<Line(2, 6, 1, FALSE)>> \o Blocks(<<0>>)],
    [level |-> 3, entries |-> <<Line(3, 11, 1, FALSE)>>]>>

(* A mutant: one for the other. *)
ScaffoldsSwapped ==
  [gtpl |-> [tree |-> "scaffoldModule", layout |-> ScaffoldModuleLayout],
   gmod |-> [tree |-> "scaffoldTemplate", layout |-> ScaffoldTemplateLayout]]

Scaffolds ==
  [gmod |-> [tree |-> "scaffoldModule", layout |-> ScaffoldModuleLayout],
   gtpl |-> [tree |-> "scaffoldTemplate", layout |-> ScaffoldTemplateLayout]]
============================================================================
