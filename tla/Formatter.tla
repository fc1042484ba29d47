------------------------------ MODULE Formatter ------------------------------
(***************************************************************************)
(* format_source (fmt/rules.rs) over the layout of a text.  A layout is    *)
(* the sequence of its bodies, each a record of its nesting level and its  *)
(* entries in order.  An entry is a block, or an attribute with            *)
(*   key     the length of its key                                         *)
(*   multi   whether its value is a heredoc or an object over many lines   *)
(*   indent  spaces before the key                                         *)
(*   inline  what stands before the key on its line: nothing, a comment,   *)
(*           or the tail of one that began on an earlier line              *)
(*   beside  whether comments stand on either side of the =                *)
(*   pad     spaces before the =, and after those behind it                *)
(* and both with blank, the blank lines before the entry.  Comments on     *)
(* lines of their own and the values themselves are not touched.           *)
(***************************************************************************)
EXTENDS Naturals, Sequences, FiniteSetsExt

Attribute == [kind : {"attribute"}, key : Nat, multi : BOOLEAN, indent : Nat,
              inline : {"none", "comment", "tail"}, beside : BOOLEAN,
              pad : Nat, after : Nat, blank : Nat]
Block     == [kind : {"block"}, blank : Nat]
Body      == [level : Nat, entries : Seq(Attribute \cup Block)]
Layout    == Seq(Body)

(* An attribute on one line takes part in alignment (is_heredoc_attr).     *)
Aligns(entry) == entry.kind = "attribute" /\ ~entry.multi

(* k comes after one of i and j and no later than the other. *)
Follows(k, i, j) == (i < k /\ k <= j) \/ (j < k /\ k <= i)

(* A mutant: runs go on over blank lines. *)
OneRunOverBlanks(entries, i, j) ==
  /\ Aligns(entries[i]) /\ Aligns(entries[j])
  /\ \A k \in DOMAIN entries : Follows(k, i, j) => Aligns(entries[k])

(* Entries i and j are in one run: nothing between them but attributes     *)
(* that align, with no blank line before any but the first.                *)
OneRun(entries, i, j) ==
  /\ Aligns(entries[i]) /\ Aligns(entries[j])
  /\ \A k \in DOMAIN entries :
       Follows(k, i, j) => Aligns(entries[k]) /\ entries[k].blank = 0

(* align_attribute_runs: the longest key of the run of entry k. *)
LongestKey(entries, k) ==
  Max({entries[j].key : j \in {i \in DOMAIN entries : OneRun(entries, i, k)}})

(* visit_attr_mut, then align_attribute_runs. *)
Pad(entries, k) ==
  IF Aligns(entries[k]) THEN LongestKey(entries, k) - entries[k].key + 1 ELSE 1

(* normalize_blank_lines: at most one, except before the first entry. *)
Blanks(entries, k) ==
  IF k > 1 /\ entries[k].blank > 1 THEN 1 ELSE entries[k].blank

(* replace_last_line_indent puts the indentation in the place of all that  *)
(* follows the last line break before the key, and spaces replace all      *)
(* around the =: comments there are dropped.                               *)
FormatEntry(level, entries, k) ==
  IF entries[k].kind = "attribute"
  THEN [kind |-> "attribute", key |-> entries[k].key, multi |-> entries[k].multi,
        indent |-> 2 * level, inline |-> "none", beside |-> FALSE,
        pad |-> Pad(entries, k), after |-> 1, blank |-> Blanks(entries, k)]
  ELSE [kind |-> "block", blank |-> Blanks(entries, k)]

FormatBody(body) ==
  [level   |-> body.level,
   entries |-> [k \in DOMAIN body.entries |-> FormatEntry(body.level, body.entries, k)]]

FormatLayout(layout) == [b \in DOMAIN layout |-> FormatBody(layout[b])]

(* A comment loses its tail, and does not end any more.                    *)
Tears(layout) ==
  \E b \in DOMAIN layout : \E k \in DOMAIN layout[b].entries :
    LET entry == layout[b].entries[k]
    IN  entry.kind = "attribute" /\ entry.inline = "tail"
----------------------------------------------------------------------------
(* What canonical means, as the comments of FormatVisitor describe it.     *)

(* Neighbours in a run have their = in one column. *)
AlignedPairs(entries) ==
  \A k \in 2..Len(entries) :
     /\ Aligns(entries[k - 1]) /\ Aligns(entries[k]) /\ entries[k].blank = 0
     => entries[k - 1].key + entries[k - 1].pad = entries[k].key + entries[k].pad

(* The = is as far left as the longest key of the run allows. *)
Tight(entries) ==
  \A k \in DOMAIN entries : entries[k].kind = "attribute" =>
     /\ entries[k].pad >= 1
     /\ \E j \in DOMAIN entries : /\ entries[j].kind = "attribute" /\ entries[j].pad = 1
                                  /\ j # k => OneRun(entries, j, k)

Canonical(body) ==
  /\ AlignedPairs(body.entries) /\ Tight(body.entries)
  /\ \A k \in DOMAIN body.entries :
       LET entry == body.entries[k]
       IN  /\ entry.kind = "attribute" =>
                /\ entry.indent = 2 * body.level /\ entry.after = 1
                /\ entry.inline = "none" /\ ~entry.beside
           /\ k > 1 => entry.blank <= 1
============================================================================
