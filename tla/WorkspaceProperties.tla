------------------------- MODULE WorkspaceProperties -------------------------
(***************************************************************************)
(* What users of the editor and of the commands rely on.                   *)
(***************************************************************************)
EXTENDS Workspace

TypeOK ==
  /\ disk \in [Paths -> Found]
  /\ root \in {Starting, NoRoot} \cup UNION {Range(folders) : folders \in Roots}
  /\ DOMAIN documents \subseteq Docs
  /\ \A d \in DOMAIN documents : documents[d] \in Texts
  /\ Len(publishing) <= Slots
  /\ \A k \in DOMAIN publishing : publishing[k].doc \in Docs
  /\ \A m \in Range(inbox) : m.doc \in Docs
  /\ \A d \in Docs : /\ buffer[d] \in Texts \cup {Closed}
                     /\ \A v \in DOMAIN sent[d] : sent[d][v] \in Texts
                     /\ shown[d].version \in 0..Len(sent[d])
  /\ phase \in Phases
  /\ at \in 1..(Len(command.files) + 1)
  /\ held \in Texts
  /\ exit \in {"none", "success", "failure"}
  /\ seen \in Seq(Found) /\ Len(seen) <= Len(command.files)
----------------------------------------------------------------------------
(* The language server. *)

(* The message says what document d is. *)
Tells(m, d) ==
  /\ m.doc = d
  /\ m.kind \in {"didOpen", "didClose"} \/ (m.kind = "didChange" /\ m.texts # <<>>)

Pending(d) == \E k \in DOMAIN inbox : Tells(inbox[k], d)

(* Once the messages about a document are handled the server has the text  *)
(* the editor has, whatever saves, requests and other documents are        *)
(* between them, and no text for a document that is closed.                *)
DocumentsFollowClient ==
  \A d \in Docs : ~Pending(d) =>
     IF d \in DOMAIN documents THEN buffer[d] = documents[d] ELSE buffer[d] = Closed

(* However publications overtake each other, the diagnostics shown with a  *)
(* version are those of the text the editor sent as that version; without  *)
(* one they are those of some version, or none.                            *)
DiagnosticsTruthful ==
  \A d \in Docs :
     LET s == shown[d]
     IN  IF s.version > 0 THEN s.about = Diagnose(d, sent[d][s.version])
         ELSE s.about = {} \/ \E v \in DOMAIN sent[d] : s.about = Diagnose(d, sent[d][v])

(* The modules a template's text names at a resource block. *)
NamedAt(path, text, place) ==
  LET template == TemplateOf[text.tree]
  IN  IF path.ext = "gtpl" /\ Accepted(template) /\ place \in DOMAIN template.resources
      THEN {template.resources[place].module} ELSE {}

(* The result fits the text asked about and the files on the disk. *)
Fits(request, result) ==
  CASE request.kind = "hover" ->
         {h.field : h \in result} = {WordAt(request.asked, request.place)} \cap HoverFields
    [] request.kind = "definition" ->
         result # {} =>
           \E file \in Paths :
              /\ file.ext = "gmod" /\ file.stem \in NamedAt(request.doc, request.asked, request.place)
              /\ disk[file] # Missing
              /\ {l.file : l \in result} = AsUri(file)
    [] request.kind = "completion" ->
         result # {} =>
           \E file \in Paths :
              /\ file.ext = "gmod" /\ file.stem \in NamedAt(request.doc, request.asked, request.place)
              /\ Readable(disk[file]) /\ Accepted(ModuleOf[disk[file].tree])
              /\ {i.input : i \in result} = DOMAIN ModuleOf[disk[file].tree].inputs

(* A module below the root is found, if it is the only one of its name;    *)
(* and without a root completion finds the one below the template's        *)
(* directory: but only where the directory needs no escapes in a URI.      *)
FindsTheOne(request, result) ==
  LET dir == IF root = NoRoot THEN request.doc.dir ELSE root
  IN  \A file \in Paths :
        /\ file.stem \in NamedAt(request.doc, request.asked, request.place)
        /\ InUri(dir) = dir /\ ModuleFiles(dir, file.stem) = {file}
        => /\ request.kind = "completion" => result = CompletionItems(file)
           /\ request.kind = "definition" /\ root # NoRoot =>
                result = {[file |-> f] : f \in AsUri(file)}

(* An answer is about what the document said when the user asked, although *)
(* changes may have been sent before and after the request, and about a    *)
(* module file that is there now; and the module is found if there is but  *)
(* one, in a directory without characters that URIs escape.                *)
AnswersFit ==
  [][answer' # answer => /\ Fits(answer'.request, answer'.result)
                         /\ FindsTheOne(answer'.request, answer'.result)]_vars

(* Every version of a document gets its diagnostics in the end, however    *)
(* handlers wait for a slot and for each other.                            *)
Unreported == \E d \in Docs : \E v \in DOMAIN sent[d] : <<d, v>> \notin reported

EveryVersionReported == Unreported ~> ~Unreported
----------------------------------------------------------------------------
(* The commands: what a text must be, read off its syntax tree. *)

Idents(blocks) == {b.ident : b \in Range(blocks)}

(* The first block of a name. *)
First(blocks, ident) ==
  CHOOSE b \in Range(blocks) :
    \E k \in DOMAIN blocks : /\ blocks[k] = b /\ b.ident = ident
                            /\ \A j \in 1..(k - 1) : blocks[j].ident # ident

InFirst(blocks, ident) == First(blocks, ident).blocks

(* One module of the four sections, whose cases name variables. *)
GoodModule(tree) ==
  /\ tree.hcl /\ Idents(tree.blocks) = {"module"}
  /\ LET module == tree.blocks[Len(tree.blocks)]
     IN  /\ module.labels # <<>>
         /\ Idents(module.blocks) = {"metadata", "interface", "validation", "generate"}
         /\ \A b \in Range(InFirst(module.blocks, "generate")) :
              b.ident = "case" => b.labels # <<>>

(* A template with its sections, and no resource without a name. *)
GoodTemplate(tree) ==
  /\ tree.hcl /\ "template" \in Idents(tree.blocks)
  /\ LET template == First(tree.blocks, "template")
     IN  /\ template.labels # <<>>
         /\ {"metadata", "parameters", "outputs"} \subseteq Idents(template.blocks)
         /\ \A b \in Range(template.blocks) : b.ident = "resource" => b.labels # <<>>

Good(path, text) ==
  CASE path.ext = "gmod" -> GoodModule(Source(text.tree))
    [] path.ext = "gtpl" -> GoodTemplate(Source(text.tree))
    [] OTHER             -> TRUE

(* A good module that gives a linter nothing to say. *)
Clean(tree) ==
  LET module    == tree.blocks[Len(tree.blocks)].blocks
      interface == InFirst(module, "interface")
      arms      == UNION {Range(c.blocks) : c \in {b \in Range(InFirst(module, "generate")) :
                                                      b.ident = "case"}}
      Keys(bs, ident) == IF ident \in Idents(bs) THEN DOMAIN First(bs, ident).attrs ELSE {}
      Names(text, i) == \E n \in text.names : n[1] = <<Bare, i>> /\ ~n[2]
      Uses(arm, i) ==
        \/ "code" \in DOMAIN arm.attrs /\ Names(arm.attrs["code"], i)
        \/ \E o \in Keys(arm.blocks, "outputs") :
              Names(First(arm.blocks, "outputs").attrs[o], i)
  IN  /\ Governance \subseteq Keys(module, "metadata")
      /\ \A i \in Keys(interface, "inputs") :
           /\ \E arm \in arms : Uses(arm, i)
           /\ LET declared == First(interface, "inputs").attrs[i]
              IN  "keys" \in DOMAIN declared /\ "type" \in declared.keys
      /\ \A o \in Keys(interface, "outputs") :
           \E arm \in arms : o \in Keys(arm.blocks, "outputs")
      /\ \A arm \in arms : "code" \in DOMAIN arm.attrs /\ ~arm.attrs["code"].blank

CanonicalText(text) == \A b \in DOMAIN text.layout : Canonical(text.layout[b])

(* A file that command c is content with. *)
Passes(c, path, found) ==
  /\ Readable(found)
  /\ CASE c.name = "validate" -> Good(path, found)
       [] c.name = "lint" -> /\ GoodModule(Source(found.tree))
                             /\ c.strict => Clean(Source(found.tree))
       [] c.name = "fmt" -> /\ Source(found.tree).hcl
                            /\ c.check => CanonicalText(found)

(* Success says that all the files were good, strictly clean or canonical, *)
(* and failure that one of them was not: no error is lost on the way       *)
(* through the list, and the list is read to its end.                      *)
ExitTellsTruth ==
  /\ exit = "success" /\ command.name \in {"validate", "lint", "fmt"} =>
       /\ Len(seen) = Len(command.files)
       /\ \A k \in DOMAIN seen : Passes(command, command.files[k], seen[k])
  /\ exit = "failure" =>
       \/ /\ "io" \in Faults /\ at <= Len(command.files)
          /\ command.name = "init" \/ (Readable(seen[at]) /\ ~CanonicalText(seen[at]))
       \/ \E k \in DOMAIN seen : ~Passes(command, command.files[k], seen[k])

(* The command has the file open, or ended without writing what it opened. *)
HalfWritten(path) ==
  at <= Len(command.files) /\ path = File /\ disk[path] = EmptyText

(* A file a command has read still says the same, also when the command    *)
(* fails at this or another file or is killed, unless it ended between the *)
(* two halves of a write or the editor saved the file; or unless fmt tore  *)
(* a comment of it, and only such a comment.  --check, validate and lint   *)
(* leave the text itself alone.                                            *)
MeaningKept ==
  \A k \in DOMAIN seen :
     LET path == command.files[k]
     IN  \/ path \in saved \/ HalfWritten(path)
         \/ disk[path] = seen[k]
         \/ /\ command.name = "fmt" /\ ~command.check
            /\ Readable(seen[k]) /\ Readable(disk[path])
            /\ IF Tears(seen[k].layout) THEN disk[path] = Broken
               ELSE disk[path].tree = seen[k].tree

(* When fmt ends well every file but those with a comment to tear is HCL   *)
(* and canonical, and fmt --check would pass.  What init wrote is          *)
(* canonical, and passes the parser of its kind.                           *)
WrittenIsGood ==
  exit = "success" =>
    \A k \in DOMAIN command.files :
       LET path == command.files[k]
       IN  \/ path \in saved
           \/ /\ command.name = "fmt" /\ ~command.check /\ ~Tears(seen[k].layout) =>
                   Source(disk[path].tree).hcl /\ CanonicalText(disk[path])
              /\ command.name = "init" =>
                   /\ CanonicalText(disk[path])
                   /\ Good([path EXCEPT !.ext = command.kind], disk[path])
----------------------------------------------------------------------------
(* What the repository says of the formatter, and it does not do. *)

(* fmt/mod.rs, test_format_source_roundtrip: "Must be parseable after      *)
(* formatting"; and "to preserve comments" at format_source.  A file that  *)
(* fmt has formatted with success is HCL.                                  *)
FormattedParses ==
  exit = "success" /\ command.name = "fmt" =>
    \A k \in DOMAIN command.files :
       command.files[k] \in saved \/ Source(disk[command.files[k]].tree).hcl
============================================================================
