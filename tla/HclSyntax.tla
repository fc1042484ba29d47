------------------------------ MODULE HclSyntax ------------------------------
(***************************************************************************)
(* Source texts as the HCL library gives them to the parsers: syntax       *)
(* trees.  A text is named; Source gives its tree, a record of hcl, FALSE  *)
(* when the text is no HCL, and its blocks.  A block has an ident, labels, *)
(* attributes by their key, which HCL wants unique, and inner blocks.      *)
(* Spans are left out: a place is the number of a block in its body.       *)
(*                                                                         *)
(* The value of an attribute is one of                                     *)
(*   [value]                     a text without variables                  *)
(*   [refers]                    a text with variables that begins with a  *)
(*                               $ but not with ${: all that follows the   *)
(*                               $, be it one variable (as in $env) or     *)
(*                               more (env-logs in $env-logs)              *)
(*   [mixed]                     any other text with variables in it       *)
(*   [names, fragments, broken, tera, blank]   code: its variables after a *)
(*                               $ and whether a brace follows them; the   *)
(*                               names in fragments it includes; whether   *)
(*                               an include fails; whether Tera accepts    *)
(*                               it; whether it is only spaces             *)
(*   [on, allowed]               a condition on a variable                 *)
(*   [keys, true]                an object: its keys, and those that are   *)
(*                               the bool true                             *)
(*   [items], [item]             a list of texts, and a text in its place  *)
(***************************************************************************)
EXTENDS Naturals, Sequences, SequencesExt

CONSTANT Source(_)

(* A file that exists and cannot be read. *)
Unreadable == [kind |-> "unreadable"]

(* A list of things, as the library makes them. *)
IsList(s) == Len(s) \in Nat /\ s = [k \in 1..Len(s) |-> s[k]]

(* The bodies of a tree, down to those within the arms of a module. *)
Inner(bodies) == {b.blocks : b \in UNION {Range(body) : body \in bodies}}

BodiesOf(tree) ==
  LET file     == {tree.blocks}
      modules  == Inner(file)
      sections == Inner(modules)
      cases    == Inner(sections)
  IN  file \cup modules \cup sections \cup cases \cup Inner(cases)

(* The places of the blocks of a name in a body. *)
Named(blocks, ident) == {k \in DOMAIN blocks : blocks[k].ident = ident}
Lacks(blocks, ident) == Named(blocks, ident) = {}
FirstOf(blocks, ident) == blocks[Min(Named(blocks, ident))]

NoAttributes == [k \in {} |-> 0]

(* The attributes of the first block of a name, none without one. *)
AttributesIn(blocks, ident) ==
  IF Lacks(blocks, ident) THEN NoAttributes ELSE FirstOf(blocks, ident).attrs

AttributeOr(block, key, default) ==
  IF key \in DOMAIN block.attrs THEN block.attrs[key] ELSE default

(* A variable is a pair: <<r, i>> is the dotted $r.i, <<Bare, i>> is $i.   *)
Bare == "bare"

IsVariable(v) == v = <<v[1], v[2]>>

(* scan_variables: the names in a text as long as they go; before a brace, *)
(* as in $name{, they are none.                                            *)
ScanVariables(names) == {v[1] : v \in {w \in names : ~w[2]}}

(* A parser returns the first error it meets, or what it has parsed. *)
Refused(error, block) == [error |-> error, block |-> block]

Accepted(parsed) == parsed.error = "none"
============================================================================
