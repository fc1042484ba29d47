---------------------------- MODULE LanguageServer ----------------------------
(***************************************************************************)
(* graydr lsp (cli/lsp.rs) and the editor that talks to it.  tower-lsp     *)
(* starts the handlers of messages in the order they come, up to Slots of  *)
(* them at once.  What a handler does to the documents map it does when    *)
(* it starts, for no guard of the map is held across an await; but the     *)
(* diagnostics of handlers that run at once are published in any order.    *)
(*                                                                         *)
(* The editor numbers the versions of a document upwards, reads it when it *)
(* opens it and writes it before it tells of a save.  It is the            *)
(* environment: any of its actions can happen at any time.                 *)
(***************************************************************************)
EXTENDS SourceFiles

CONSTANTS Docs,          \* the paths a user edits
          Slots,         \* handlers that run at once
          Edits,         \* texts the user can turn a document into
          Places,        \* numbers of resource blocks to ask about; 0 for none
          WordAt(_, _),  \* extract_word_at_position: the word at a place
          InUri(_),      \* a directory's name as its URI has it
          AsUri(_),      \* files an editor takes an unescaped path for, if any
          Roots          \* workspace folders the editor can name, as sequences

ASSUME DocsAssumption == Docs \subseteq Paths
ASSUME SlotsAssumption == Slots \in Nat \ {0}
ASSUME EditsAssumption == Edits \subseteq Texts
ASSUME RootsAssumption == \A folders \in Roots : folders = <<>> \/ 1 \in DOMAIN folders

VARIABLES
  root,                  \* root_uri: a directory or NoRoot; Starting before
  documents,             \* the text of the open documents, by path
  publishing,            \* diagnostics of running handlers, oldest first
  inbox,                 \* messages of the editor, oldest first
  buffer,                \* [Docs -> text or Closed]: the editor's documents
  shown,                 \* [Docs -> version and diagnostics the editor shows]
  answer,                \* the last answer to a request, with the request
  sent,                  \* history: [Docs -> texts of versions 1, 2, ...]
  reported,              \* history: versions diagnostics came for
  saved,                 \* history: paths that were saved
  messages               \* bound: messages the editor will still send

server     == <<root, documents, publishing>>
editor     == <<buffer, sent, saved, messages>>
received   == <<shown, answer, reported>>
serverVars == <<server, inbox, editor, received>>

Starting == "starting"
NoRoot   == "none"
Closed   == [kind |-> "closed"]
Nothing  == [version |-> 0, about |-> {}]
NoAnswer == [request |-> [kind |-> "none"], result |-> {}]

NoDocuments == [d \in {} |-> EmptyText]

ServerInit ==
  /\ root = Starting
  /\ documents = NoDocuments /\ publishing = <<>> /\ inbox = <<>>
  /\ buffer = [d \in Docs |-> Closed] /\ sent = [d \in Docs |-> <<>>]
  /\ shown = [d \in Docs |-> Nothing] /\ answer = NoAnswer
  /\ reported = {} /\ saved = {}
----------------------------------------------------------------------------
(* The editor. *)

Send(message) ==
  /\ root # Starting /\ messages > 0
  /\ inbox' = Append(inbox, message)
  /\ messages' = messages - 1
  /\ UNCHANGED <<server, received>>

Version(d) == Len(sent[d])

(* A version of d with these texts, the last of which is what it says now. *)
Opens(d) ==
  /\ buffer[d] = Closed /\ Readable(disk[d])
  /\ buffer' = [buffer EXCEPT ![d] = disk[d]]
  /\ sent' = [sent EXCEPT ![d] = Append(@, disk[d])]
  /\ Send([kind |-> "didOpen", doc |-> d, texts |-> <<disk[d]>>, version |-> Version(d) + 1])
  /\ UNCHANGED <<disk, saved>>

Edit(d, texts) ==
  /\ buffer[d] # Closed /\ texts # <<>>
  /\ buffer' = [buffer EXCEPT ![d] = Last(texts)]
  /\ sent' = [sent EXCEPT ![d] = Append(@, Last(texts))]
  /\ Send([kind |-> "didChange", doc |-> d, texts |-> texts, version |-> Version(d) + 1])
  /\ UNCHANGED <<disk, saved>>

(* A notice of no change at all. *)
EditNothing(d) ==
  /\ buffer[d] # Closed
  /\ Send([kind |-> "didChange", doc |-> d, texts |-> <<>>, version |-> Version(d)])
  /\ UNCHANGED <<disk, buffer, sent, saved>>

(* The server asks for the text of a save; an editor may leave it out. *)
Save(d) ==
  /\ buffer[d] # Closed
  /\ Replace(d, buffer[d])
  /\ \E texts \in {<<>>, <<buffer[d]>>} :
       Send([kind |-> "didSave", doc |-> d, texts |-> texts, version |-> 0])
  /\ saved' = saved \cup {d}
  /\ UNCHANGED <<buffer, sent>>

Closes(d) ==
  /\ buffer[d] # Closed
  /\ buffer' = [buffer EXCEPT ![d] = Closed]
  /\ Send([kind |-> "didClose", doc |-> d, texts |-> <<>>, version |-> 0])
  /\ UNCHANGED <<disk, sent, saved>>

(* asked: what the document said when the user asked. *)
Ask(d, request, place) ==
  /\ buffer[d] # Closed
  /\ Send([kind |-> request, doc |-> d, place |-> place, asked |-> buffer[d]])
  /\ UNCHANGED <<disk, buffer, sent, saved>>
----------------------------------------------------------------------------
(* The server. *)

(* initialize: the root the editor names, or else its first folder. *)
Initialize(folders) ==
  /\ root = Starting
  /\ root' = IF folders = <<>> THEN NoRoot ELSE Head(folders)
  /\ UNCHANGED <<documents, publishing, inbox, editor, received, disk>>

(* A mutant: any number of handlers. *)
StartAnytime(kind) ==
  /\ inbox # <<>> /\ Head(inbox).kind = kind
  /\ inbox' = Tail(inbox)
  /\ UNCHANGED <<root, editor, disk>>

(* The handler of the next message starts. *)
Start(kind) ==
  /\ inbox # <<>> /\ Head(inbox).kind = kind
  /\ Len(publishing) < Slots
  /\ inbox' = Tail(inbox)
  /\ UNCHANGED <<root, editor, disk>>

(* A mutant: a text without problems needs no notice. *)
WillPublishProblems(d, version, about) ==
  publishing' = IF about = {} THEN publishing
                ELSE Append(publishing, [doc |-> d, version |-> version, about |-> about])

(* publish_file_diagnostics works on the handler's own text. *)
WillPublish(d, version, about) ==
  publishing' = Append(publishing, [doc |-> d, version |-> version, about |-> about])

Insert(d, text) ==
  documents' = [p \in DOMAIN documents \cup {d} |-> IF p = d THEN text ELSE documents[p]]

Message == Head(inbox)

DidOpen ==
  /\ Start("didOpen")
  /\ Insert(Message.doc, Message.texts[1])
  /\ WillPublish(Message.doc, Message.version, Diagnose(Message.doc, Message.texts[1]))
  /\ UNCHANGED received

(* Mutants: the first change is taken; diagnostics of the text before. *)
DidChangeFirst ==
  /\ Start("didChange")
  /\ Message.texts # <<>>
  /\ Insert(Message.doc, Head(Message.texts))
  /\ WillPublish(Message.doc, Message.version, Diagnose(Message.doc, Last(Message.texts)))
  /\ UNCHANGED received

DidChangeStale ==
  /\ Start("didChange")
  /\ Message.texts # <<>>
  /\ Insert(Message.doc, Last(Message.texts))
  /\ WillPublish(Message.doc, Message.version, Diagnose(Message.doc, documents[Message.doc]))
  /\ UNCHANGED received

(* The last of the changes is the whole new text. *)
DidChange ==
  /\ Start("didChange")
  /\ \/ /\ Message.texts # <<>>
        /\ Insert(Message.doc, Last(Message.texts))
        /\ WillPublish(Message.doc, Message.version, Diagnose(Message.doc, Last(Message.texts)))
     \/ /\ Message.texts = <<>>
        /\ UNCHANGED <<documents, publishing>>
  /\ UNCHANGED received

(* The text that came with the save, or the document's, if not empty. *)
SavedText ==
  IF Message.texts # <<>> THEN Message.texts[1]
  ELSE IF Message.doc \in DOMAIN documents THEN documents[Message.doc] ELSE EmptyText

DidSave ==
  /\ Start("didSave")
  /\ \/ /\ SavedText # EmptyText
        /\ WillPublish(Message.doc, 0, Diagnose(Message.doc, SavedText))
     \/ /\ SavedText = EmptyText
        /\ UNCHANGED publishing
  /\ UNCHANGED <<documents, received>>

DidClose ==
  /\ Start("didClose")
  /\ documents' = [p \in DOMAIN documents \ {Message.doc} |-> documents[p]]
  /\ WillPublish(Message.doc, 0, {})
  /\ UNCHANGED received

(* A running handler's notification reaches the editor. *)
Publish(k) ==
  /\ k \in DOMAIN publishing
  /\ LET p == publishing[k]
     IN  /\ shown' = [shown EXCEPT ![p.doc] = [version |-> p.version, about |-> p.about]]
         /\ reported' = reported \cup {<<p.doc, p.version>>}
  /\ publishing' = RemoveAt(publishing, k)
  /\ UNCHANGED <<root, documents, inbox, editor, answer, disk>>

(* Requests have no await after they have read the document. *)
Reply(result) ==
  /\ answer' = [request |-> Message, result |-> result]
  /\ UNCHANGED <<documents, publishing, shown, reported>>

Known == Message.doc \in DOMAIN documents

(* A mutant: in the template on the disk. *)
ModuleAskedOnDisk ==
  IF ~Known \/ ~Readable(disk[Message.doc]) \/ Message.doc.ext # "gtpl" THEN {}
  ELSE LET template == TemplateOf[disk[Message.doc].tree]
       IN  IF Accepted(template) /\ Message.place \in DOMAIN template.resources
           THEN {template.resources[Message.place].module} ELSE {}

(* The module that the resource around the place names, if the document is *)
(* a template and parses.                                                  *)
ModuleAsked ==
  IF ~Known \/ Message.doc.ext # "gtpl" THEN {}
  ELSE LET template == TemplateOf[documents[Message.doc].tree]
       IN  IF Accepted(template) /\ Message.place \in DOMAIN template.resources
           THEN {template.resources[Message.place].module} ELSE {}

(* The inputs of the module, with whether they are required: of a file     *)
(* below the root, or below the document's directory if there is no root.  *)
CompletionItems(file) ==
  IF Readable(disk[file]) /\ Accepted(ModuleOf[disk[file].tree])
  THEN LET inputs == ModuleOf[disk[file].tree].inputs
       IN  {[input |-> i, required |-> inputs[i].required] : i \in DOMAIN inputs}
  ELSE {}

(* A mutant: only below the root. *)
CompletionBelowRoot ==
  /\ Start("completion")
  /\ LET files == UNION {ModuleFiles(InUri(root), m) : m \in ModuleAsked}
     IN  \/ \E file \in files : Reply(CompletionItems(file))
         \/ files = {} /\ Reply({})

(* Directories are searched under the names they have in URIs: one whose   *)
(* name is escaped there is not found.                                     *)
Completion ==
  /\ Start("completion")
  /\ LET dir   == IF root = NoRoot THEN Message.doc.dir ELSE root
         files == UNION {ModuleFiles(InUri(dir), m) : m \in ModuleAsked}
     IN  \/ \E file \in files : Reply(CompletionItems(file))
         \/ files = {} /\ Reply({})

(* The path of the file makes the URI of the answer, unescaped. *)
GotoDefinition ==
  /\ Start("definition")
  /\ LET files == IF root = NoRoot THEN {}
                  ELSE UNION {ModuleFiles(InUri(root), m) : m \in ModuleAsked}
     IN  \/ \E file \in files : Reply({[file |-> f] : f \in AsUri(file)})
         \/ files = {} /\ Reply({})

HoverFields == Governance \cup {"approval_required"}

Hover ==
  /\ Start("hover")
  /\ LET words == IF Known THEN {WordAt(documents[Message.doc], Message.place)} ELSE {}
     IN  Reply({[field |-> w] : w \in words \cap HoverFields})

EditorStep ==
  \E d \in Docs :
    \/ Opens(d) \/ EditNothing(d) \/ Save(d) \/ Closes(d)
    \/ \E t \in Edits : Edit(d, <<t>>) \/ \E u \in Edits : Edit(d, <<u, t>>)
    \/ \E request \in {"completion", "definition", "hover"}, place \in Places :
          Ask(d, request, place)

Serve == DidOpen \/ DidChange \/ DidSave \/ DidClose \/ Completion \/ GotoDefinition \/ Hover

ServerStep == Serve \/ \E k \in 1..Slots : Publish(k)
============================================================================
