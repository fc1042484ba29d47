----------------------------- MODULE SourceFiles -----------------------------
(***************************************************************************)
(* The files graydr's commands and the editor share, and what the parsers, *)
(* the linter and the formatter make of one text.  A path is a record of   *)
(* dir, stem and ext.  A text is a record of tree, the name of what it     *)
(* says, and layout, how that is laid out.                                 *)
(***************************************************************************)
EXTENDS Linter, TemplateParser, Formatter

CONSTANTS Trees,         \* names of the trees that occur
          Paths,         \* the files of a workspace
          Within(_)      \* a directory and those up to five levels below it

VARIABLE disk            \* [Paths -> texts, Unreadable or Missing]

Missing   == [kind |-> "missing"]
EmptyText == [tree |-> "empty", layout |-> <<>>]

(* A text whose last comment does not end. *)
Broken    == [tree |-> "broken", layout |-> <<>>]

Texts == [tree : Trees, layout : Layout]
Found == Texts \cup {Missing, Unreadable}

(* The library has a body's blocks in their order. *)
ASSUME TreesAssumption ==
  /\ "empty" \in Trees
  /\ "broken" \in Trees /\ ~Source("broken").hcl
  /\ \A t \in Trees :
       /\ Source(t).hcl \in BOOLEAN
       /\ \A body \in BodiesOf(Source(t)) : IsList(body)

ASSUME PathsAssumption ==
  \A p \in Paths : p = [dir |-> p.dir, stem |-> p.stem, ext |-> p.ext]

Readable(found) == found \notin {Missing, Unreadable}

Replace(path, text) == disk' = [disk EXCEPT ![path] = text]

(* format_source of a text that parses.  Where a comment is torn and no    *)
(* other one follows, it runs to the end of the text.                      *)
FormatText(text) ==
  IF Tears(text.layout) THEN Broken
  ELSE [text EXCEPT !.layout = FormatLayout(text.layout)]

ModuleOf   == [t \in Trees |-> ParseModule(t)]
TemplateOf == [t \in Trees |-> ParseTemplate(t)]
Warnings   == [t \in {u \in Trees : Accepted(ModuleOf[u])} |-> LintModule(ModuleOf[t])]

(* The parser for the extension accepts the text; other files pass.        *)
Parses(path, text) ==
  CASE path.ext = "gmod" -> Accepted(ModuleOf[text.tree])
    [] path.ext = "gtpl" -> Accepted(TemplateOf[text.tree])
    [] OTHER             -> TRUE

Problem(parsed) == IF Accepted(parsed) THEN {} ELSE {<<parsed.error, parsed.block>>}

(* What the editor is told of a text: its first parse error, or what the   *)
(* linter has to say of a module.                                          *)
Diagnose(path, text) ==
  CASE path.ext = "gmod" /\ Parses(path, text) -> Warnings[text.tree]
    [] path.ext = "gmod" /\ ~Parses(path, text) -> Problem(ModuleOf[text.tree])
    [] path.ext = "gtpl" -> Problem(TemplateOf[text.tree])
    [] OTHER             -> {}

(* find_gmod_recursive: the files of a module's name below a directory;    *)
(* which of them is found first is up to the file system.                  *)
ModuleFiles(dir, module) ==
  {p \in Paths : /\ p.dir \in Within(dir) /\ p.stem = module /\ p.ext = "gmod"
                 /\ disk[p] # Missing}
============================================================================
