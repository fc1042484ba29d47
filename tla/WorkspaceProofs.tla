--------------------------- MODULE WorkspaceProofs ---------------------------
(***************************************************************************)
(* Proofs about the language server and the commands, for any editor, any  *)
(* files and any number of handlers at once.  The server's documents       *)
(* follow the editor's, what it answers is about the text that was asked   *)
(* about, and the diagnostics it gives with a version are those of that    *)
(* version.  A command's exit is the truth about all of its files, what it *)
(* reads keeps its meaning, and what it writes is good.                    *)
(***************************************************************************)
EXTENDS WorkspaceProperties, FormatterProofs, SequenceTheorems, TLAPS

IsSequence(s) == \E S : s \in Seq(S)

(* The members of a sequence after one is appended, ... *)
LEMMA Appended ==
  ASSUME NEW s, NEW x, IsSequence(s)
  PROVE  /\ IsSequence(Append(s, x))
         /\ DOMAIN s = 1..Len(s) /\ Len(s) \in Nat
         /\ DOMAIN Append(s, x) = 1..(Len(s) + 1) /\ Len(Append(s, x)) = Len(s) + 1
         /\ \A k \in 1..Len(s) : Append(s, x)[k] = s[k]
         /\ Append(s, x)[Len(s) + 1] = x
  <1>1. PICK S : s \in Seq(S)
    BY DEF IsSequence
  <1>2. s \in Seq(S \cup {x})
    BY <1>1
  <1>3. Append(s, x) \in Seq(S \cup {x})
    BY <1>2
  <1> QED BY <1>1, <1>2, <1>3 DEF IsSequence

(* ... after the first is taken, ... *)
LEMMA Taken ==
  ASSUME NEW s, IsSequence(s), s # <<>>
  PROVE  /\ IsSequence(Tail(s))
         /\ DOMAIN s = 1..Len(s) /\ Len(s) \in Nat \ {0}
         /\ DOMAIN Tail(s) = 1..(Len(s) - 1) /\ Len(Tail(s)) = Len(s) - 1
         /\ \A k \in 1..(Len(s) - 1) : Tail(s)[k] = s[k + 1]
         /\ Head(s) = s[1]
  <1>1. PICK S : s \in Seq(S)
    BY DEF IsSequence
  <1>2. Tail(s) \in Seq(S)
    BY <1>1
  <1> QED BY <1>1, <1>2 DEF IsSequence

(* ... and after one of them is removed. *)
LEMMA Removed ==
  ASSUME NEW s, IsSequence(s), NEW k \in DOMAIN s
  PROVE  /\ IsSequence(RemoveAt(s, k))
         /\ \A i \in DOMAIN RemoveAt(s, k) : \E j \in DOMAIN s : RemoveAt(s, k)[i] = s[j]
         /\ Len(RemoveAt(s, k)) <= Len(s)
  <1>1. PICK S : s \in Seq(S)
    BY DEF IsSequence
  <1>2. k \in 1..Len(s) /\ Len(s) \in Nat /\ DOMAIN s = 1..Len(s)
    BY <1>1
  <1> DEFINE before == SubSeq(s, 1, k - 1)
             after  == SubSeq(s, k + 1, Len(s))
  <1>3. /\ before \in Seq(S) /\ Len(before) = k - 1
        /\ \A i \in 1..(k - 1) : before[i] = s[i]
    BY <1>1, <1>2
  <1>4. /\ after \in Seq(S) /\ Len(after) = Len(s) - k
        /\ \A i \in 1..(Len(s) - k) : after[i] = s[i + k]
    BY <1>1, <1>2
  <1> HIDE DEF before, after
  <1>5. /\ before \o after \in Seq(S) /\ Len(before \o after) = Len(before) + Len(after)
        /\ \A i \in 1..(Len(before) + Len(after)) :
             (before \o after)[i] = IF i <= Len(before) THEN before[i] ELSE after[i - Len(before)]
    <2>1. before \in Seq(S) /\ after \in Seq(S)
      BY <1>3, <1>4
    <2> QED BY <2>1, ConcatProperties, Zenon
  <1> DEFINE joined == before \o after
  <1>6. /\ joined \in Seq(S) /\ Len(joined) = Len(before) + Len(after)
        /\ \A i \in 1..(Len(before) + Len(after)) :
             joined[i] = IF i <= Len(before) THEN before[i] ELSE after[i - Len(before)]
    BY <1>5
  <1> HIDE DEF joined
  <1>7. DOMAIN joined = 1..(Len(s) - 1)
    BY <1>2, <1>3, <1>4, <1>6
  <1>8. ASSUME NEW i \in 1..(Len(s) - 1)
        PROVE  \E j \in DOMAIN s : joined[i] = s[j]
    <2>1. CASE i <= k - 1
      <3>1. joined[i] = before[i]
        BY <1>2, <1>3, <1>4, <1>6, <2>1
      <3>2. i \in 1..(k - 1) /\ i \in DOMAIN s
        BY <1>2, <2>1
      <3> QED BY <1>3, <3>1, <3>2
    <2>2. CASE ~(i <= k - 1)
      <3>1. joined[i] = after[i - (k - 1)]
        BY <1>2, <1>3, <1>4, <1>6, <2>2
      <3>2. i - (k - 1) \in 1..(Len(s) - k) /\ i - (k - 1) + k = i + 1
        BY <1>2, <2>2
      <3>3. after[i - (k - 1)] = s[i + 1]
        BY <1>4, <3>2
      <3>4. i + 1 \in DOMAIN s
        BY <1>2
      <3> QED BY <3>1, <3>3, <3>4
    <2> QED BY <2>1, <2>2
  <1>9. RemoveAt(s, k) = joined
    BY DEF RemoveAt, joined, before, after
  <1>10. Len(joined) <= Len(s)
    BY <1>2, <1>3, <1>4, <1>6
  <1> QED BY <1>6, <1>7, <1>8, <1>9, <1>10 DEF IsSequence
----------------------------------------------------------------------------
(* Diagnostics: every text on its way was sent, with its version.  The     *)
(* operators take the history of texts sent as a parameter.                *)

HasVersion(h, d, v, t) == v \in DOMAIN h[d] /\ h[d][v] = t
HadText(h, d, t)       == \E v \in DOMAIN h[d] : h[d][v] = t

(* The message is about a document and carries texts the editor sent. *)
MessageTrue(h, m) ==
  /\ m.doc \in Docs
  /\ m.kind = "didOpen" => HasVersion(h, m.doc, m.version, m.texts[1])
  /\ m.kind = "didChange" /\ m.texts # <<>> => HasVersion(h, m.doc, m.version, Last(m.texts))
  /\ m.kind = "didSave" /\ m.texts # <<>> => HadText(h, m.doc, m.texts[1])

(* The notice is what DiagnosticsTruthful asks of a document's. *)
NoticeTrue(h, d, n) ==
  IF n.version > 0 THEN n.version \in DOMAIN h[d] /\ n.about = Diagnose(d, h[d][n.version])
  ELSE n.about = {} \/ \E v \in DOMAIN h[d] : n.about = Diagnose(d, h[d][v])

Shapes ==
  /\ sent = [d \in Docs |-> sent[d]]
  /\ buffer = [d \in Docs |-> buffer[d]]
  /\ shown = [d \in Docs |-> shown[d]]
  /\ \A d \in Docs : IsSequence(sent[d])
  /\ IsSequence(inbox) /\ IsSequence(publishing)

InboxTrue      == \A k \in DOMAIN inbox : MessageTrue(sent, inbox[k])
DocumentsTrue  == \A d \in DOMAIN documents : d \in Docs /\ HadText(sent, d, documents[d])
BufferTrue     == \A d \in Docs : buffer[d] # Closed => HadText(sent, d, buffer[d])
PublishingTrue == \A k \in DOMAIN publishing :
                    /\ publishing[k].doc \in Docs
                    /\ NoticeTrue(sent, publishing[k].doc, publishing[k])
ShownTrue      == \A d \in Docs : NoticeTrue(sent, d, shown[d])

Truthful == /\ Shapes /\ InboxTrue /\ DocumentsTrue /\ BufferTrue
            /\ PublishingTrue /\ ShownTrue

(* Versions are never taken back. *)
Grows(h, g) ==
  \A d \in Docs : \A v \in DOMAIN h[d] : v \in DOMAIN g[d] /\ g[d][v] = h[d][v]

(* What was true of the versions stays true. *)
LEMMA TrueStaysTrue ==
  ASSUME NEW h, NEW g, Grows(h, g)
  PROVE  /\ \A m : MessageTrue(h, m) => MessageTrue(g, m)
         /\ \A d \in Docs : \A n : NoticeTrue(h, d, n) => NoticeTrue(g, d, n)
         /\ \A d \in Docs : \A t : HadText(h, d, t) => HadText(g, d, t)
  <1>1. \A d \in Docs : \A t : HadText(h, d, t) => HadText(g, d, t)
    BY DEF Grows, HadText
  <1>2. \A d \in Docs : \A v, t : HasVersion(h, d, v, t) => HasVersion(g, d, v, t)
    BY DEF Grows, HasVersion
  <1>3. ASSUME NEW m, MessageTrue(h, m) PROVE MessageTrue(g, m)
    BY <1>1, <1>2, <1>3 DEF MessageTrue
  <1>4. ASSUME NEW d \in Docs, NEW n, NoticeTrue(h, d, n) PROVE NoticeTrue(g, d, n)
    BY <1>4 DEF Grows, NoticeTrue
  <1> QED BY <1>1, <1>3, <1>4

(* A step that sends: the document's new version, if any, and the message. *)
LEMMA SentStaysTrue ==
  ASSUME Truthful, NEW message, NEW d \in Docs, Send(message),
         \/ UNCHANGED sent
         \/ \E t : sent' = [sent EXCEPT ![d] = Append(@, t)],
         MessageTrue(sent', message),
         buffer' = [buffer EXCEPT ![d] = buffer'[d]],
         buffer'[d] # Closed => HadText(sent', d, buffer'[d])
  PROVE  Truthful'
  <1>1. Grows(sent, sent') /\ sent' = [c \in Docs |-> sent'[c]] /\ \A c \in Docs : IsSequence(sent'[c])
    <2>1. CASE UNCHANGED sent
      BY <2>1 DEF Truthful, Shapes, Grows
    <2>2. CASE \E t : sent' = [sent EXCEPT ![d] = Append(@, t)]
      <3>1. PICK t : sent' = [sent EXCEPT ![d] = Append(@, t)]
        BY <2>2
      <3>2. IsSequence(sent[d])
        BY DEF Truthful, Shapes
      <3>3. /\ sent'[d] = Append(sent[d], t)
            /\ \A c \in Docs : c # d => sent'[c] = sent[c]
            /\ sent' = [c \in Docs |-> sent'[c]]
        BY <3>1 DEF Truthful, Shapes
      <3>4. \A v \in DOMAIN sent[d] : v \in DOMAIN sent'[d] /\ sent'[d][v] = sent[d][v]
        BY <3>2, <3>3, Appended
      <3>5. IsSequence(sent'[d])
        BY <3>2, <3>3, Appended
      <3>6. \A c \in Docs : IsSequence(sent[c])
        BY DEF Truthful, Shapes
      <3> QED BY <3>3, <3>4, <3>5, <3>6 DEF Grows
    <2> QED BY <2>1, <2>2
  <1>2. inbox' = Append(inbox, message) /\ UNCHANGED <<documents, publishing, shown>>
    BY DEF Send, server, received
  <1>3. Shapes'
    <2>1. IsSequence(inbox')
      BY <1>2, Appended DEF Truthful, Shapes
    <2>2. buffer' = [c \in Docs |-> buffer'[c]]
      BY DEF Truthful, Shapes
    <2> QED BY <1>1, <1>2, <2>1, <2>2 DEF Truthful, Shapes
  <1>4. InboxTrue'
    <2>1. ASSUME NEW k \in DOMAIN inbox' PROVE MessageTrue(sent', inbox'[k])
      <3>1. \/ k \in DOMAIN inbox /\ inbox'[k] = inbox[k]
            \/ inbox'[k] = message
        BY <1>2, <2>1, Appended DEF Truthful, Shapes
      <3> QED BY <1>1, <3>1, TrueStaysTrue DEF Truthful, InboxTrue
    <2> QED BY <2>1 DEF InboxTrue
  <1>5. DocumentsTrue'
    BY <1>1, <1>2, TrueStaysTrue DEF Truthful, DocumentsTrue
  <1>6. BufferTrue'
    <2>1. \A c \in Docs : c # d => buffer'[c] = buffer[c]
      BY DEF Truthful, Shapes
    <2> QED BY <1>1, <2>1, TrueStaysTrue DEF Truthful, BufferTrue
  <1>7. PublishingTrue'
    BY <1>1, <1>2, TrueStaysTrue DEF Truthful, PublishingTrue
  <1>8. ShownTrue'
    BY <1>1, <1>2, TrueStaysTrue DEF Truthful, ShownTrue
  <1> QED BY <1>3, <1>4, <1>5, <1>6, <1>7, <1>8 DEF Truthful

(* The editor's steps. *)
LEMMA EditorStaysTrue ==
  ASSUME Truthful, EditorStep
  PROVE  Truthful'
  <1>1. PICK d \in Docs :
          \/ Opens(d) \/ EditNothing(d) \/ Save(d) \/ Closes(d)
          \/ \E t \in Edits : Edit(d, <<t>>) \/ \E u \in Edits : Edit(d, <<u, t>>)
          \/ \E request \in {"completion", "definition", "hover"}, place \in Places :
                Ask(d, request, place)
    BY DEF EditorStep
  <1>2. /\ IsSequence(sent[d]) /\ sent = [c \in Docs |-> sent[c]]
        /\ buffer = [c \in Docs |-> buffer[c]]
        /\ buffer[d] # Closed => HadText(sent, d, buffer[d])
    BY DEF Truthful, Shapes, BufferTrue
  <1>3. ASSUME NEW t, sent' = [sent EXCEPT ![d] = Append(@, t)]
        PROVE  HasVersion(sent', d, Version(d) + 1, t) /\ HadText(sent', d, t)
    <2>1. sent'[d] = Append(sent[d], t)
      BY <1>2, <1>3
    <2>2. Version(d) + 1 \in DOMAIN sent'[d] /\ sent'[d][Version(d) + 1] = t
      BY <1>2, <2>1, Appended DEF Version
    <2> QED BY <2>2 DEF HasVersion, HadText
  <1>4. CASE Opens(d)
    <2> DEFINE m == [kind |-> "didOpen", doc |-> d, texts |-> <<disk[d]>>, version |-> Version(d) + 1]
    <2>1. /\ Send(m) /\ sent' = [sent EXCEPT ![d] = Append(@, disk[d])]
          /\ buffer' = [buffer EXCEPT ![d] = disk[d]]
      BY <1>4 DEF Opens
    <2>2. MessageTrue(sent', m)
      BY <1>3, <2>1 DEF MessageTrue
    <2>3. buffer'[d] = disk[d] /\ HadText(sent', d, disk[d])
      BY <1>2, <1>3, <2>1
    <2>4. buffer' = [buffer EXCEPT ![d] = buffer'[d]]
      BY <2>1, <2>3
    <2> HIDE DEF m
    <2> QED BY <2>1, <2>2, <2>3, <2>4, SentStaysTrue
  <1>5. ASSUME NEW texts, Edit(d, texts)
        PROVE  Truthful'
    <2> DEFINE m == [kind |-> "didChange", doc |-> d, texts |-> texts, version |-> Version(d) + 1]
    <2>1. /\ Send(m) /\ sent' = [sent EXCEPT ![d] = Append(@, Last(texts))]
          /\ buffer' = [buffer EXCEPT ![d] = Last(texts)]
      BY <1>5 DEF Edit
    <2>2. MessageTrue(sent', m)
      BY <1>3, <2>1 DEF MessageTrue
    <2>3. buffer'[d] = Last(texts) /\ HadText(sent', d, Last(texts))
      BY <1>2, <1>3, <2>1
    <2>4. buffer' = [buffer EXCEPT ![d] = buffer'[d]]
      BY <2>1, <2>3
    <2> HIDE DEF m
    <2> QED BY <2>1, <2>2, <2>3, <2>4, SentStaysTrue
  <1>6. ASSUME NEW m, Send(m), MessageTrue(sent, m), UNCHANGED sent,
               UNCHANGED buffer \/ buffer' = [buffer EXCEPT ![d] = Closed]
        PROVE  Truthful'
    <2>1. buffer'[d] # Closed => HadText(sent', d, buffer'[d])
      BY <1>2, <1>6
    <2>2. buffer' = [buffer EXCEPT ![d] = buffer'[d]]
      BY <1>2, <1>6
    <2> QED BY <1>6, <2>1, <2>2, SentStaysTrue
  <1>7. CASE EditNothing(d)
    <2> DEFINE m == [kind |-> "didChange", doc |-> d, texts |-> <<>>, version |-> Version(d)]
    <2>1. MessageTrue(sent, m)
      BY DEF MessageTrue
    <2>2. Send(m) /\ UNCHANGED <<sent, buffer>>
      BY <1>7 DEF EditNothing
    <2> HIDE DEF m
    <2> QED BY <1>6, <2>1, <2>2
  <1>8. CASE Save(d)
    <2>1. PICK texts \in {<<>>, <<buffer[d]>>} :
             Send([kind |-> "didSave", doc |-> d, texts |-> texts, version |-> 0])
      BY <1>8 DEF Save
    <2> DEFINE m == [kind |-> "didSave", doc |-> d, texts |-> texts, version |-> 0]
    <2>2. buffer[d] # Closed /\ UNCHANGED <<sent, buffer>>
      BY <1>8 DEF Save
    <2>3. MessageTrue(sent, m)
      BY <1>2, <2>2 DEF MessageTrue
    <2>4. Send(m)
      BY <2>1
    <2> HIDE DEF m
    <2> QED BY <1>6, <2>2, <2>3, <2>4
  <1>9. CASE Closes(d)
    <2> DEFINE m == [kind |-> "didClose", doc |-> d, texts |-> <<>>, version |-> 0]
    <2>1. MessageTrue(sent, m)
      BY DEF MessageTrue
    <2>2. Send(m) /\ UNCHANGED sent /\ buffer' = [buffer EXCEPT ![d] = Closed]
      BY <1>9 DEF Closes
    <2> HIDE DEF m
    <2> QED BY <1>6, <2>1, <2>2
  <1>10. ASSUME NEW request \in {"completion", "definition", "hover"}, NEW place, Ask(d, request, place)
         PROVE  Truthful'
    <2> DEFINE m == [kind |-> request, doc |-> d, place |-> place, asked |-> buffer[d]]
    <2>1. MessageTrue(sent, m)
      BY DEF MessageTrue
    <2>2. Send(m) /\ UNCHANGED <<sent, buffer>>
      BY <1>10 DEF Ask
    <2> HIDE DEF m
    <2> QED BY <1>6, <2>1, <2>2
  <1> QED BY <1>1, <1>4, <1>5, <1>7, <1>8, <1>9, <1>10

(* The next message starts: it is true, and so are those behind it. *)
LEMMA StartStaysTrue ==
  ASSUME Truthful, NEW kind, Start(kind)
  PROVE  /\ Message.kind = kind /\ Message.doc \in Docs /\ MessageTrue(sent, Message)
         /\ InboxTrue' /\ BufferTrue' /\ IsSequence(inbox')
         /\ UNCHANGED <<sent, buffer>>
  <1>1. /\ inbox # <<>> /\ Message.kind = kind /\ inbox' = Tail(inbox)
        /\ UNCHANGED <<sent, buffer>>
    BY DEF Start, Message, editor
  <1>2. /\ IsSequence(inbox') /\ Message = inbox[1] /\ 1 \in DOMAIN inbox
        /\ \A k \in DOMAIN inbox' : k + 1 \in DOMAIN inbox /\ inbox'[k] = inbox[k + 1]
    BY <1>1, Taken DEF Truthful, Shapes, Message
  <1>3. MessageTrue(sent, Message) /\ Message.doc \in Docs
    BY <1>2 DEF Truthful, InboxTrue, MessageTrue
  <1>4. InboxTrue'
    BY <1>1, <1>2 DEF Truthful, InboxTrue
  <1> QED BY <1>1, <1>2, <1>3, <1>4 DEF Truthful, BufferTrue

(* A true notice is added to those of running handlers. *)
LEMMA WillPublishTrue ==
  ASSUME Truthful, UNCHANGED sent, NEW d \in Docs, NEW version, NEW about,
         WillPublish(d, version, about),
         \/ version \in DOMAIN sent[d] /\ about = Diagnose(d, sent[d][version])
         \/ version = 0 /\ (about = {} \/ \E v \in DOMAIN sent[d] : about = Diagnose(d, sent[d][v]))
  PROVE  PublishingTrue' /\ IsSequence(publishing')
  <1> DEFINE n == [doc |-> d, version |-> version, about |-> about]
  <1>1. NoticeTrue(sent, d, n)
    <2>1. IsSequence(sent[d])
      BY DEF Truthful, Shapes
    <2>2. version \in DOMAIN sent[d] => version > 0
      BY <2>1, Appended
    <2> QED BY <2>2 DEF NoticeTrue
  <1>2. n.doc = d
    OBVIOUS
  <1> HIDE DEF n
  <1>3. publishing' = Append(publishing, n)
    BY DEF WillPublish, n
  <1>4. /\ IsSequence(publishing')
        /\ \A k \in DOMAIN publishing' : \/ k \in DOMAIN publishing /\ publishing'[k] = publishing[k]
                                         \/ publishing'[k] = n
    BY <1>3, Appended DEF Truthful, Shapes
  <1> QED BY <1>1, <1>2, <1>4 DEF Truthful, PublishingTrue

(* A handler puts a text of the document in the map. *)
LEMMA InsertTrue ==
  ASSUME Truthful, UNCHANGED sent, NEW d \in Docs, NEW text, Insert(d, text), HadText(sent, d, text)
  PROVE  DocumentsTrue'
  <1>1. /\ DOMAIN documents' = DOMAIN documents \cup {d}
        /\ \A p \in DOMAIN documents' : documents'[p] = IF p = d THEN text ELSE documents[p]
    BY DEF Insert
  <1> QED BY <1>1 DEF Truthful, DocumentsTrue

(* The server's handlers. *)
LEMMA ServeStaysTrue ==
  ASSUME Truthful, Serve
  PROVE  Truthful'
  <1>1. ASSUME NEW kind, Start(kind), DocumentsTrue', PublishingTrue', IsSequence(publishing'),
               UNCHANGED shown
        PROVE  Truthful'
    <2>1. /\ InboxTrue' /\ BufferTrue' /\ IsSequence(inbox') /\ UNCHANGED <<sent, buffer>>
      BY <1>1, StartStaysTrue
    <2>2. Shapes'
      BY <1>1, <2>1 DEF Truthful, Shapes
    <2>3. ShownTrue'
      BY <1>1, <2>1 DEF Truthful, ShownTrue
    <2> QED BY <1>1, <2>1, <2>2, <2>3 DEF Truthful
  <1>2. ASSUME UNCHANGED <<sent, documents>> PROVE DocumentsTrue'
    BY <1>2 DEF Truthful, DocumentsTrue
  <1>3. ASSUME UNCHANGED <<sent, publishing>> PROVE PublishingTrue' /\ IsSequence(publishing')
    BY <1>3 DEF Truthful, PublishingTrue, Shapes
  <1>4. CASE DidOpen
    <2>1. /\ Start("didOpen") /\ Insert(Message.doc, Message.texts[1]) /\ UNCHANGED shown
          /\ WillPublish(Message.doc, Message.version, Diagnose(Message.doc, Message.texts[1]))
      BY <1>4 DEF DidOpen, received
    <2>2. /\ Message.doc \in Docs /\ UNCHANGED sent
          /\ HasVersion(sent, Message.doc, Message.version, Message.texts[1])
      BY <2>1, StartStaysTrue DEF MessageTrue
    <2>3. DocumentsTrue'
      BY <2>1, <2>2, InsertTrue DEF HasVersion, HadText
    <2>4. PublishingTrue' /\ IsSequence(publishing')
      BY <2>1, <2>2, WillPublishTrue DEF HasVersion
    <2> QED BY <1>1, <2>1, <2>3, <2>4
  <1>5. CASE DidChange
    <2>1. Start("didChange") /\ UNCHANGED shown
      BY <1>5 DEF DidChange, received
    <2>2. Message.doc \in Docs /\ UNCHANGED sent
      BY <2>1, StartStaysTrue
    <2>3. CASE Message.texts # <<>>
      <3>1. /\ Insert(Message.doc, Last(Message.texts))
            /\ WillPublish(Message.doc, Message.version, Diagnose(Message.doc, Last(Message.texts)))
        BY <1>5, <2>3 DEF DidChange
      <3>2. HasVersion(sent, Message.doc, Message.version, Last(Message.texts))
        BY <2>1, <2>3, StartStaysTrue DEF MessageTrue
      <3>3. DocumentsTrue'
        BY <2>2, <3>1, <3>2, InsertTrue DEF HasVersion, HadText
      <3>4. PublishingTrue' /\ IsSequence(publishing')
        BY <2>2, <3>1, <3>2, WillPublishTrue DEF HasVersion
      <3> QED BY <1>1, <2>1, <3>3, <3>4
    <2>4. CASE Message.texts = <<>>
      BY <1>1, <1>2, <1>3, <1>5, <2>1, <2>2, <2>4 DEF DidChange
    <2> QED BY <2>3, <2>4
  <1>6. CASE DidSave
    <2>1. Start("didSave") /\ UNCHANGED <<documents, shown>>
      BY <1>6 DEF DidSave, received
    <2>2. Message.doc \in Docs /\ UNCHANGED sent /\ MessageTrue(sent, Message) /\ Message.kind = "didSave"
      BY <2>1, StartStaysTrue
    <2>3. CASE SavedText # EmptyText
      <3>1. WillPublish(Message.doc, 0, Diagnose(Message.doc, SavedText))
        BY <1>6, <2>3 DEF DidSave
      <3>2. HadText(sent, Message.doc, SavedText)
        <4>1. CASE Message.texts # <<>>
          BY <2>2, <4>1 DEF MessageTrue, SavedText
        <4>2. CASE Message.texts = <<>> /\ Message.doc \in DOMAIN documents
          BY <4>2 DEF Truthful, DocumentsTrue, SavedText
        <4> QED BY <2>3, <4>1, <4>2 DEF SavedText
      <3>3. PublishingTrue' /\ IsSequence(publishing')
        BY <2>2, <3>1, <3>2, WillPublishTrue DEF HadText
      <3> QED BY <1>1, <1>2, <2>1, <2>2, <3>3
    <2>4. CASE SavedText = EmptyText
      BY <1>1, <1>2, <1>3, <1>6, <2>1, <2>2, <2>4 DEF DidSave
    <2> QED BY <2>3, <2>4
  <1>7. CASE DidClose
    <2>1. /\ Start("didClose") /\ UNCHANGED shown /\ WillPublish(Message.doc, 0, {})
          /\ documents' = [p \in DOMAIN documents \ {Message.doc} |-> documents[p]]
      BY <1>7 DEF DidClose, received
    <2>2. Message.doc \in Docs /\ UNCHANGED sent
      BY <2>1, StartStaysTrue
    <2>3. DocumentsTrue'
      BY <2>1, <2>2 DEF Truthful, DocumentsTrue
    <2>4. PublishingTrue' /\ IsSequence(publishing')
      BY <2>1, <2>2, WillPublishTrue
    <2> QED BY <1>1, <2>1, <2>3, <2>4
  <1>8. ASSUME NEW kind, Start(kind), UNCHANGED <<documents, publishing, shown>>
        PROVE  Truthful'
    BY <1>1, <1>2, <1>3, <1>8, StartStaysTrue
  <1>9. CASE Completion
    BY <1>8, <1>9 DEF Completion, Reply
  <1>10. CASE GotoDefinition
    BY <1>8, <1>10 DEF GotoDefinition, Reply
  <1>11. CASE Hover
    BY <1>8, <1>11 DEF Hover, Reply
  <1> QED BY <1>4, <1>5, <1>6, <1>7, <1>9, <1>10, <1>11 DEF Serve

(* A notice reaches the editor, in any order. *)
LEMMA PublishStaysTrue ==
  ASSUME Truthful, NEW k, Publish(k)
  PROVE  Truthful'
  <1> DEFINE p == publishing[k]
  <1>1. /\ k \in DOMAIN publishing /\ publishing' = RemoveAt(publishing, k)
        /\ shown' = [shown EXCEPT ![p.doc] = [version |-> p.version, about |-> p.about]]
        /\ UNCHANGED <<documents, inbox, buffer, sent>>
    BY DEF Publish, editor
  <1>2. p.doc \in Docs /\ NoticeTrue(sent, p.doc, p)
    BY <1>1 DEF Truthful, PublishingTrue
  <1>3. /\ IsSequence(publishing')
        /\ \A i \in DOMAIN publishing' : \E j \in DOMAIN publishing : publishing'[i] = publishing[j]
    BY <1>1, Removed DEF Truthful, Shapes
  <1>4. PublishingTrue'
    BY <1>1, <1>3 DEF Truthful, PublishingTrue
  <1>5. ShownTrue'
    <2>1. NoticeTrue(sent, p.doc, [version |-> p.version, about |-> p.about])
      BY <1>2 DEF NoticeTrue
    <2> HIDE DEF p
    <2> QED BY <1>1, <1>2, <2>1 DEF Truthful, Shapes, ShownTrue
  <1>6. Shapes'
    BY <1>1, <1>3 DEF Truthful, Shapes
  <1>7. InboxTrue' /\ DocumentsTrue' /\ BufferTrue'
    BY <1>1 DEF Truthful, InboxTrue, DocumentsTrue, BufferTrue
  <1> QED BY <1>4, <1>5, <1>6, <1>7 DEF Truthful

(* A step of the command, or none, leaves all of it alone. *)
LEMMA OthersStayTrue ==
  ASSUME Truthful, UNCHANGED <<documents, publishing, inbox, buffer, sent, shown>>
  PROVE  Truthful'
  BY DEF Truthful, Shapes, InboxTrue, DocumentsTrue, BufferTrue, PublishingTrue, ShownTrue

(* Every step keeps what is on its way true. *)
LEMMA TruthfulStep ==
  ASSUME Truthful, [Next]_vars
  PROVE  Truthful'
  <1>1. CASE EditorStep
    BY <1>1, EditorStaysTrue
  <1>2. CASE ServerStep
    BY <1>2, ServeStaysTrue, PublishStaysTrue DEF ServerStep
  <1>3. CASE \E folders \in Roots : Initialize(folders)
    BY <1>3, OthersStayTrue DEF Initialize, editor, received
  <1>4. CASE UNCHANGED serverVars
    BY <1>4, OthersStayTrue DEF serverVars, server, editor, received
  <1>5. CASE UNCHANGED vars
    BY <1>5, OthersStayTrue DEF vars, serverVars, server, editor, received
  <1> QED BY <1>1, <1>2, <1>3, <1>4, <1>5 DEF Next

(* Nothing is open, on its way or shown at the start. *)
LEMMA TruthfulInit ==
  ASSUME Init
  PROVE  Truthful
  <1>1. /\ documents = NoDocuments /\ publishing = <<>> /\ inbox = <<>>
        /\ buffer = [d \in Docs |-> Closed] /\ sent = [d \in Docs |-> <<>>]
        /\ shown = [d \in Docs |-> Nothing]
    BY DEF Init, ServerInit
  <1>2. IsSequence(<<>>) /\ DOMAIN NoDocuments = {}
    BY DEF IsSequence, NoDocuments
  <1>3. Nothing.version = 0 /\ Nothing.about = {}
    BY DEF Nothing
  <1>4. Shapes
    BY <1>1, <1>2 DEF Shapes
  <1>5. InboxTrue /\ DocumentsTrue /\ BufferTrue /\ PublishingTrue
    BY <1>1, <1>2 DEF InboxTrue, DocumentsTrue, BufferTrue, PublishingTrue
  <1>6. ShownTrue
    BY <1>1, <1>3 DEF ShownTrue, NoticeTrue
  <1> QED BY <1>4, <1>5, <1>6 DEF Truthful

(* Whatever the order of publications, diagnostics shown with a version    *)
(* are those of the text the editor sent as that version.                  *)
THEOREM DiagnosticsAreTruthful == Spec => []DiagnosticsTruthful
  <1>1. Init => Truthful
    BY TruthfulInit
  <1>2. Truthful /\ [Next]_vars => Truthful'
    BY TruthfulStep
  <1>3. Truthful => DiagnosticsTruthful
    BY DEF Truthful, ShownTrue, NoticeTrue, DiagnosticsTruthful
  <1> QED BY <1>1, <1>2, <1>3, PTL DEF Spec
----------------------------------------------------------------------------
(* What the server will know.  Told(q, docs, d, k, t): before message k of *)
(* q the server, which now has docs, takes document d to be t.             *)

Has(docs, d, t) == IF d \in DOMAIN docs THEN t = docs[d] ELSE t = Closed

Says(m, t) ==
  CASE m.kind = "didClose" -> t = Closed
    [] m.kind = "didOpen"  -> t = m.texts[1]
    [] OTHER               -> t = Last(m.texts)

Told(q, docs, d, k, t) ==
  \/ \E j \in 1..(k - 1) : /\ Tells(q[j], d) /\ Says(q[j], t)
                           /\ \A i \in (j + 1)..(k - 1) : ~Tells(q[i], d)
  \/ /\ \A i \in 1..(k - 1) : ~Tells(q[i], d)
     /\ Has(docs, d, t)

BufferTold == \A d \in Docs : Told(inbox, documents, d, Len(inbox) + 1, buffer[d])

RequestKinds == {"completion", "definition", "hover"}

AskedTold ==
  \A k \in DOMAIN inbox : inbox[k].kind \in RequestKinds =>
     inbox[k].asked # Closed /\ Told(inbox, documents, inbox[k].doc, k, inbox[k].asked)

Following == Truthful /\ BufferTold /\ AskedTold

(* A message behind the others does not change what they tell, ... *)
LEMMA ToldWhenSent ==
  ASSUME NEW q, IsSequence(q), NEW m, NEW docs, NEW d, NEW t, NEW k \in 1..(Len(q) + 1),
         Told(q, docs, d, k, t)
  PROVE  Told(Append(q, m), docs, d, k, t)
  <1>1. Len(q) \in Nat /\ \A j \in 1..(k - 1) : Append(q, m)[j] = q[j]
    BY Appended
  <1> DEFINE r == Append(q, m)
  <1> HIDE DEF r
  <1>2. \A j \in 1..(k - 1) : r[j] = q[j]
    BY <1>1 DEF r
  <1>3. Told(r, docs, d, k, t)
    <2>1. CASE \E j \in 1..(k - 1) : /\ Tells(q[j], d) /\ Says(q[j], t)
                                    /\ \A i \in (j + 1)..(k - 1) : ~Tells(q[i], d)
      <3>1. PICK j \in 1..(k - 1) : /\ Tells(q[j], d) /\ Says(q[j], t)
                                    /\ \A i \in (j + 1)..(k - 1) : ~Tells(q[i], d)
        BY <2>1
      <3>2. \A i \in (j + 1)..(k - 1) : r[i] = q[i]
        BY <1>1, <1>2
      <3> QED BY <1>2, <3>1, <3>2 DEF Told
    <2>2. CASE (\A i \in 1..(k - 1) : ~Tells(q[i], d)) /\ Has(docs, d, t)
      BY <1>2, <2>2 DEF Told
    <2> QED BY <2>1, <2>2 DEF Told
  <1> QED BY <1>3 DEF r

(* ... and is the last word if it tells anything itself. *)
LEMMA ToldBySent ==
  ASSUME NEW q, IsSequence(q), NEW m, NEW docs, NEW d, NEW t,
         \/ Tells(m, d) /\ Says(m, t)
         \/ ~Tells(m, d) /\ Told(q, docs, d, Len(q) + 1, t)
  PROVE  Told(Append(q, m), docs, d, Len(Append(q, m)) + 1, t)
  <1> DEFINE r == Append(q, m)
             n == Len(q)
  <1>1. n \in Nat /\ Len(r) = n + 1 /\ r[n + 1] = m /\ \A j \in 1..n : r[j] = q[j]
    BY Appended
  <1> HIDE DEF r, n
  <1>2. CASE Tells(m, d) /\ Says(m, t)
    <2>1. n + 1 \in 1..(Len(r) + 1 - 1) /\ (n + 1 + 1)..(Len(r) + 1 - 1) = {}
      BY <1>1
    <2>2. Told(r, docs, d, Len(r) + 1, t)
      BY <1>1, <1>2, <2>1 DEF Told
    <2> QED BY <2>2 DEF r
  <1>3. CASE ~Tells(m, d) /\ Told(q, docs, d, n + 1, t)
    <2>1. 1..(Len(r) + 1 - 1) = 1..(n + 1) /\ 1..(n + 1 - 1) = 1..n
      BY <1>1
    <2>2. CASE \E j \in 1..n : /\ Tells(q[j], d) /\ Says(q[j], t)
                              /\ \A i \in (j + 1)..n : ~Tells(q[i], d)
      <3>1. PICK j \in 1..n : /\ Tells(q[j], d) /\ Says(q[j], t)
                              /\ \A i \in (j + 1)..n : ~Tells(q[i], d)
        BY <2>2
      <3>2. \A i \in (j + 1)..(Len(r) + 1 - 1) : ~Tells(r[i], d)
        <4>1. ASSUME NEW i \in (j + 1)..(Len(r) + 1 - 1) PROVE ~Tells(r[i], d)
          <5>1. i = n + 1 \/ (i \in (j + 1)..n /\ i \in 1..n)
            BY <1>1
          <5> QED BY <1>1, <1>3, <3>1, <5>1
        <4> QED BY <4>1
      <3>3. j \in 1..(Len(r) + 1 - 1) /\ r[j] = q[j]
        BY <1>1, <2>1
      <3>4. Told(r, docs, d, Len(r) + 1, t)
        BY <3>1, <3>2, <3>3 DEF Told
      <3> QED BY <3>4 DEF r
    <2>3. CASE (\A i \in 1..n : ~Tells(q[i], d)) /\ Has(docs, d, t)
      <3>1. \A i \in 1..(n + 1) : i = n + 1 \/ i \in 1..n
        BY <1>1
      <3>2. \A i \in 1..(n + 1) : ~Tells(r[i], d)
        BY <1>1, <1>3, <2>3, <3>1
      <3>3. \A i \in 1..(Len(r) + 1 - 1) : ~Tells(r[i], d)
        BY <2>1, <3>2
      <3>4. Told(r, docs, d, Len(r) + 1, t)
        BY <2>3, <3>3 DEF Told
      <3> QED BY <3>4 DEF r
    <2>4. \A i : (i + 1)..(n + 1 - 1) = (i + 1)..n
      BY <1>1
    <2> QED BY <1>3, <2>1, <2>2, <2>3, <2>4 DEF Told
  <1> QED BY <1>2, <1>3 DEF n

(* The first message takes its place in what the server has. *)
LEMMA ToldWhenServed ==
  ASSUME NEW q, IsSequence(q), q # <<>>, NEW docs, NEW g, NEW d, NEW t,
         NEW k \in 1..Len(q), Told(q, docs, d, k + 1, t),
         Tells(q[1], d) /\ Says(q[1], t) => Has(g, d, t),
         ~Tells(q[1], d) /\ Has(docs, d, t) => Has(g, d, t)
  PROVE  Told(Tail(q), g, d, k, t)
  <1> DEFINE r == Tail(q)
  <1>1. Len(q) \in Nat /\ k \in Nat /\ \A j \in 1..(k - 1) : r[j] = q[j + 1]
    <2>1. \A j \in 1..(k - 1) : j \in 1..(Len(q) - 1)
      BY Taken
    <2> QED BY <2>1, Taken
  <1> HIDE DEF r
  <1>2. CASE \E j \in 1..k : /\ Tells(q[j], d) /\ Says(q[j], t)
                            /\ \A i \in (j + 1)..k : ~Tells(q[i], d)
    <2>1. PICK j \in 1..k : /\ Tells(q[j], d) /\ Says(q[j], t)
                            /\ \A i \in (j + 1)..k : ~Tells(q[i], d)
      BY <1>2
    <2>2. CASE j = 1
      <3>1. \A i \in 1..(k - 1) : i + 1 \in (j + 1)..k
        BY <1>1, <2>2
      <3>2. \A i \in 1..(k - 1) : ~Tells(r[i], d)
        BY <1>1, <2>1, <3>1
      <3> QED BY <2>1, <2>2, <3>2 DEF Told, r
    <2>3. CASE j # 1
      <3>1. j - 1 \in 1..(k - 1) /\ r[j - 1] = q[j]
        <4>1. j - 1 \in 1..(k - 1) /\ j - 1 + 1 = j
          BY <1>1, <2>3
        <4> QED BY <1>1, <4>1
      <3>2. \A i \in (j - 1 + 1)..(k - 1) : i \in 1..(k - 1) /\ i + 1 \in (j + 1)..k
        BY <1>1
      <3>3. \A i \in (j - 1 + 1)..(k - 1) : ~Tells(r[i], d)
        BY <1>1, <2>1, <3>2
      <3> QED BY <2>1, <3>1, <3>3 DEF Told, r
    <2> QED BY <2>2, <2>3
  <1>3. CASE (\A i \in 1..k : ~Tells(q[i], d)) /\ Has(docs, d, t)
    <2>1. \A i \in 1..(k - 1) : i + 1 \in 1..k
      BY <1>1
    <2>2. 1 \in 1..k
      BY <1>1
    <2> QED BY <1>1, <1>3, <2>1, <2>2 DEF Told, r
  <1>4. k + 1 - 1 = k
    BY <1>1
  <1> QED BY <1>2, <1>3, <1>4 DEF Told

(* A step that sends: the message, if it tells anything, tells what the    *)
(* document has become, and if it asks, it asks about what is there.       *)
LEMMA SentStaysTold ==
  ASSUME Following, NEW m, Send(m), NEW d \in Docs, m.doc = d,
         buffer' = [buffer EXCEPT ![d] = buffer'[d]],
         Tells(m, d) => Says(m, buffer'[d]),
         ~Tells(m, d) => UNCHANGED buffer,
         m.kind \in RequestKinds => m.asked = buffer[d] /\ m.asked # Closed
  PROVE  BufferTold' /\ AskedTold'
  <1>1. inbox' = Append(inbox, m) /\ documents' = documents
    BY DEF Send, server
  <1>2. IsSequence(inbox) /\ buffer = [c \in Docs |-> buffer[c]]
    BY DEF Following, Truthful, Shapes
  <1>3. BufferTold'
    <2>1. ASSUME NEW c \in Docs
          PROVE  Told(Append(inbox, m), documents, c, Len(Append(inbox, m)) + 1, buffer'[c])
      <3>1. Told(inbox, documents, c, Len(inbox) + 1, buffer[c])
        BY DEF Following, BufferTold
      <3>2. CASE Tells(m, c)
        <4>1. c = d
          BY <3>2 DEF Tells
        <4> QED BY <1>2, <3>2, <4>1, ToldBySent
      <3>3. CASE ~Tells(m, c)
        <4>1. buffer'[c] = buffer[c]
          BY <1>2, <3>3
        <4> QED BY <1>2, <3>1, <3>3, <4>1, ToldBySent
      <3> QED BY <3>2, <3>3
    <2> QED BY <1>1, <2>1 DEF BufferTold
  <1>4. AskedTold'
    <2>1. ASSUME NEW k \in DOMAIN Append(inbox, m), Append(inbox, m)[k].kind \in RequestKinds
          PROVE  /\ Append(inbox, m)[k].asked # Closed
                 /\ Told(Append(inbox, m), documents, Append(inbox, m)[k].doc, k, Append(inbox, m)[k].asked)
      <3>1. /\ Len(inbox) \in Nat /\ DOMAIN inbox = 1..Len(inbox) /\ k \in 1..(Len(inbox) + 1)
            /\ k \in 1..Len(inbox) => Append(inbox, m)[k] = inbox[k]
            /\ k \notin 1..Len(inbox) => k = Len(inbox) + 1 /\ Append(inbox, m)[k] = m
        BY <1>2, <2>1, Appended
      <3>2. CASE k \in 1..Len(inbox)
        <4>1. /\ inbox[k].asked # Closed
              /\ Told(inbox, documents, inbox[k].doc, k, inbox[k].asked)
          BY <2>1, <3>1, <3>2 DEF Following, AskedTold
        <4>2. Told(Append(inbox, m), documents, inbox[k].doc, k, inbox[k].asked)
          BY <1>2, <3>1, <4>1, ToldWhenSent
        <4> QED BY <3>1, <3>2, <4>1, <4>2
      <3>3. CASE k \notin 1..Len(inbox)
        <4>1. Told(inbox, documents, d, Len(inbox) + 1, buffer[d])
          BY DEF Following, BufferTold
        <4>2. Len(inbox) + 1 \in 1..(Len(inbox) + 1)
          BY <3>1
        <4>3. Told(Append(inbox, m), documents, d, Len(inbox) + 1, buffer[d])
          BY <1>2, <4>1, <4>2, ToldWhenSent
        <4>4. m.asked = buffer[d] /\ m.asked # Closed
          BY <2>1, <3>1, <3>3
        <4> QED BY <3>1, <3>3, <4>3, <4>4
      <3> QED BY <3>2, <3>3
    <2> QED BY <1>1, <2>1 DEF AskedTold
  <1> QED BY <1>3, <1>4

(* The editor's steps. *)
LEMMA EditorStaysTold ==
  ASSUME Following, EditorStep
  PROVE  BufferTold' /\ AskedTold'
  <1>1. PICK d \in Docs :
          \/ Opens(d) \/ EditNothing(d) \/ Save(d) \/ Closes(d)
          \/ \E t \in Edits : Edit(d, <<t>>) \/ \E u \in Edits : Edit(d, <<u, t>>)
          \/ \E request \in {"completion", "definition", "hover"}, place \in Places :
                Ask(d, request, place)
    BY DEF EditorStep
  <1>2. buffer = [c \in Docs |-> buffer[c]]
    BY DEF Following, Truthful, Shapes
  <1>3. CASE Opens(d)
    <2> DEFINE m == [kind |-> "didOpen", doc |-> d, texts |-> <<disk[d]>>, version |-> Version(d) + 1]
    <2>1. Send(m) /\ buffer' = [buffer EXCEPT ![d] = disk[d]]
      BY <1>3 DEF Opens
    <2>2. m.doc = d /\ Tells(m, d) /\ Says(m, disk[d]) /\ m.kind \notin RequestKinds
      BY DEF Tells, Says, RequestKinds
    <2>3. buffer'[d] = disk[d] /\ buffer' = [buffer EXCEPT ![d] = buffer'[d]]
      BY <1>2, <2>1
    <2> HIDE DEF m
    <2> QED BY <2>1, <2>2, <2>3, SentStaysTold
  <1>4. ASSUME NEW texts, Edit(d, texts)
        PROVE  BufferTold' /\ AskedTold'
    <2> DEFINE m == [kind |-> "didChange", doc |-> d, texts |-> texts, version |-> Version(d) + 1]
    <2>1. Send(m) /\ buffer' = [buffer EXCEPT ![d] = Last(texts)] /\ texts # <<>>
      BY <1>4 DEF Edit
    <2>2. m.doc = d /\ Tells(m, d) /\ Says(m, Last(texts)) /\ m.kind \notin RequestKinds
      BY <2>1 DEF Tells, Says, RequestKinds
    <2>3. buffer'[d] = Last(texts) /\ buffer' = [buffer EXCEPT ![d] = buffer'[d]]
      BY <1>2, <2>1
    <2> HIDE DEF m
    <2> QED BY <2>1, <2>2, <2>3, SentStaysTold
  <1>5. CASE Closes(d)
    <2> DEFINE m == [kind |-> "didClose", doc |-> d, texts |-> <<>>, version |-> 0]
    <2>1. Send(m) /\ buffer' = [buffer EXCEPT ![d] = Closed]
      BY <1>5 DEF Closes
    <2>2. m.doc = d /\ Tells(m, d) /\ Says(m, Closed) /\ m.kind \notin RequestKinds
      BY DEF Tells, Says, RequestKinds
    <2>3. buffer'[d] = Closed /\ buffer' = [buffer EXCEPT ![d] = buffer'[d]]
      BY <1>2, <2>1
    <2> HIDE DEF m
    <2> QED BY <2>1, <2>2, <2>3, SentStaysTold
  <1>6. ASSUME NEW m, Send(m), m.doc = d, ~Tells(m, d), UNCHANGED buffer,
               m.kind \in RequestKinds => m.asked = buffer[d] /\ m.asked # Closed
        PROVE  BufferTold' /\ AskedTold'
    <2>1. buffer' = [buffer EXCEPT ![d] = buffer'[d]]
      BY <1>2, <1>6
    <2> QED BY <1>6, <2>1, SentStaysTold
  <1>7. CASE EditNothing(d)
    <2> DEFINE m == [kind |-> "didChange", doc |-> d, texts |-> <<>>, version |-> Version(d)]
    <2>1. m.doc = d /\ ~Tells(m, d) /\ m.kind \notin RequestKinds
      BY DEF Tells, RequestKinds
    <2>2. Send(m) /\ UNCHANGED buffer
      BY <1>7 DEF EditNothing
    <2> HIDE DEF m
    <2> QED BY <1>6, <2>1, <2>2
  <1>8. CASE Save(d)
    <2>1. PICK texts \in {<<>>, <<buffer[d]>>} :
             Send([kind |-> "didSave", doc |-> d, texts |-> texts, version |-> 0])
      BY <1>8 DEF Save
    <2> DEFINE m == [kind |-> "didSave", doc |-> d, texts |-> texts, version |-> 0]
    <2>2. m.doc = d /\ ~Tells(m, d) /\ m.kind \notin RequestKinds
      BY DEF Tells, RequestKinds
    <2>3. Send(m) /\ UNCHANGED buffer
      BY <1>8, <2>1 DEF Save
    <2> HIDE DEF m
    <2> QED BY <1>6, <2>2, <2>3
  <1>9. ASSUME NEW request \in {"completion", "definition", "hover"}, NEW place, Ask(d, request, place)
        PROVE  BufferTold' /\ AskedTold'
    <2> DEFINE m == [kind |-> request, doc |-> d, place |-> place, asked |-> buffer[d]]
    <2>1. m.doc = d /\ ~Tells(m, d) /\ m.asked = buffer[d]
      BY DEF Tells
    <2>2. Send(m) /\ UNCHANGED buffer /\ buffer[d] # Closed
      BY <1>9 DEF Ask
    <2> HIDE DEF m
    <2> QED BY <1>6, <2>1, <2>2
  <1> QED BY <1>1, <1>3, <1>4, <1>5, <1>7, <1>8, <1>9

(* What a handler does to the documents is what its message says. *)
LEMMA ServeDoesAsTold ==
  ASSUME Truthful, Serve
  PROVE  /\ inbox # <<>> /\ inbox' = Tail(inbox) /\ UNCHANGED buffer
         /\ \A d \in Docs : \A t :
              /\ Tells(Message, d) /\ Says(Message, t) => Has(documents', d, t)
              /\ ~Tells(Message, d) /\ Has(documents, d, t) => Has(documents', d, t)
  <1>1. ASSUME NEW kind, Start(kind)
        PROVE  inbox # <<>> /\ inbox' = Tail(inbox) /\ UNCHANGED buffer /\ Message.kind = kind
    BY <1>1 DEF Start, editor, Message
  <1>2. ASSUME NEW c, NEW text, Insert(c, text), NEW d, NEW t
        PROVE  /\ d = c => (Has(documents', d, t) <=> t = text)
               /\ d # c => (Has(documents', d, t) <=> Has(documents, d, t))
    <2>1. /\ DOMAIN documents' = DOMAIN documents \cup {c}
          /\ \A p \in DOMAIN documents' : documents'[p] = IF p = c THEN text ELSE documents[p]
      BY <1>2 DEF Insert
    <2> QED BY <2>1 DEF Has
  <1>3. CASE DidOpen
    <2>1. Start("didOpen") /\ Insert(Message.doc, Message.texts[1])
      BY <1>3 DEF DidOpen
    <2> QED BY <1>1, <1>2, <2>1 DEF Tells, Says
  <1>4. CASE DidChange
    <2>1. Start("didChange")
      BY <1>4 DEF DidChange
    <2>2. CASE Message.texts # <<>>
      <3>1. Insert(Message.doc, Last(Message.texts))
        BY <1>4, <2>2 DEF DidChange
      <3> QED BY <1>1, <1>2, <2>1, <2>2, <3>1 DEF Tells, Says
    <2>3. CASE Message.texts = <<>>
      <3>1. UNCHANGED documents
        BY <1>4, <2>3 DEF DidChange
      <3> QED BY <1>1, <2>1, <2>3, <3>1 DEF Tells
    <2> QED BY <2>2, <2>3
  <1>5. CASE DidClose
    <2>1. Start("didClose") /\ documents' = [p \in DOMAIN documents \ {Message.doc} |-> documents[p]]
      BY <1>5 DEF DidClose
    <2>2. /\ DOMAIN documents' = DOMAIN documents \ {Message.doc}
          /\ \A p \in DOMAIN documents' : documents'[p] = documents[p]
      BY <2>1
    <2> QED BY <1>1, <2>1, <2>2 DEF Tells, Says, Has
  <1>6. ASSUME NEW kind \in {"didSave"} \cup RequestKinds, Start(kind), UNCHANGED documents
        PROVE  /\ inbox # <<>> /\ inbox' = Tail(inbox) /\ UNCHANGED buffer
               /\ \A d \in Docs : ~Tells(Message, d)
    BY <1>1, <1>6 DEF Tells, RequestKinds
  <1>7. CASE DidSave
    BY <1>6, <1>7 DEF DidSave
  <1>8. CASE Completion
    BY <1>6, <1>8 DEF Completion, Reply, RequestKinds
  <1>9. CASE GotoDefinition
    BY <1>6, <1>9 DEF GotoDefinition, Reply, RequestKinds
  <1>10. CASE Hover
    BY <1>6, <1>10 DEF Hover, Reply, RequestKinds
  <1> QED BY <1>3, <1>4, <1>5, <1>7, <1>8, <1>9, <1>10 DEF Serve

(* A handler takes the first message out and does as it says. *)
LEMMA ServeStaysTold ==
  ASSUME Following, Serve
  PROVE  BufferTold' /\ AskedTold'
  <1>1. /\ inbox # <<>> /\ inbox' = Tail(inbox) /\ UNCHANGED buffer
        /\ \A d \in Docs : \A t :
             /\ Tells(Message, d) /\ Says(Message, t) => Has(documents', d, t)
             /\ ~Tells(Message, d) /\ Has(documents, d, t) => Has(documents', d, t)
    BY ServeDoesAsTold DEF Following
  <1>2. IsSequence(inbox)
    BY DEF Following, Truthful, Shapes
  <1>3. /\ DOMAIN inbox = 1..Len(inbox) /\ Len(inbox) \in Nat \ {0} /\ Message = inbox[1]
        /\ DOMAIN inbox' = 1..(Len(inbox) - 1) /\ Len(inbox') = Len(inbox) - 1
        /\ \A k \in 1..(Len(inbox) - 1) : inbox'[k] = inbox[k + 1]
    BY <1>1, <1>2, Taken DEF Message
  <1>4. ASSUME NEW d \in Docs, NEW t, NEW k \in 1..Len(inbox), Told(inbox, documents, d, k + 1, t)
        PROVE  Told(inbox', documents', d, k, t)
    <2>1. /\ Tells(inbox[1], d) /\ Says(inbox[1], t) => Has(documents', d, t)
          /\ ~Tells(inbox[1], d) /\ Has(documents, d, t) => Has(documents', d, t)
      BY <1>1, <1>3
    <2> QED BY <1>1, <1>2, <1>4, <2>1, ToldWhenServed
  <1>5. BufferTold'
    <2>1. ASSUME NEW d \in Docs PROVE Told(inbox', documents', d, Len(inbox') + 1, buffer'[d])
      <3>1. Told(inbox, documents, d, Len(inbox) + 1, buffer[d])
        BY DEF Following, BufferTold
      <3>2. Len(inbox) \in 1..Len(inbox) /\ Len(inbox') + 1 = Len(inbox)
        BY <1>3
      <3> QED BY <1>1, <1>4, <3>1, <3>2
    <2> QED BY <2>1 DEF BufferTold
  <1>6. AskedTold'
    <2>1. ASSUME NEW k \in DOMAIN inbox', inbox'[k].kind \in RequestKinds
          PROVE  inbox'[k].asked # Closed /\ Told(inbox', documents', inbox'[k].doc, k, inbox'[k].asked)
      <3>1. k \in 1..Len(inbox) /\ k + 1 \in DOMAIN inbox /\ inbox'[k] = inbox[k + 1]
        BY <1>3, <2>1
      <3>2. inbox[k + 1].asked # Closed /\ Told(inbox, documents, inbox[k + 1].doc, k + 1, inbox[k + 1].asked)
        BY <2>1, <3>1 DEF Following, AskedTold
      <3>3. inbox[k + 1].doc \in Docs
        BY <3>1 DEF Following, Truthful, InboxTrue, MessageTrue
      <3> QED BY <1>4, <3>1, <3>2, <3>3
    <2> QED BY <2>1 DEF AskedTold
  <1> QED BY <1>5, <1>6

(* Every step keeps what the server will know. *)
LEMMA FollowingStep ==
  ASSUME Following, [Next]_vars
  PROVE  Following'
  <1>1. Truthful'
    BY TruthfulStep DEF Following
  <1>2. ASSUME UNCHANGED <<inbox, documents, buffer>> PROVE BufferTold' /\ AskedTold'
    BY <1>2 DEF Following, BufferTold, AskedTold
  <1>3. CASE EditorStep
    BY <1>1, <1>3, EditorStaysTold DEF Following
  <1>4. CASE Serve
    BY <1>1, <1>4, ServeStaysTold DEF Following
  <1>5. CASE \E k \in 1..Slots : Publish(k)
    BY <1>1, <1>2, <1>5 DEF Publish, editor, Following
  <1>6. CASE \E folders \in Roots : Initialize(folders)
    BY <1>1, <1>2, <1>6 DEF Initialize, editor, received, Following
  <1>7. CASE UNCHANGED serverVars
    BY <1>1, <1>2, <1>7 DEF serverVars, server, editor, received, Following
  <1>8. CASE UNCHANGED vars
    BY <1>1, <1>2, <1>8 DEF vars, serverVars, server, editor, received, Following
  <1> QED BY <1>3, <1>4, <1>5, <1>6, <1>7, <1>8 DEF Next, ServerStep

(* At the start the server knows as much as the editor: nothing. *)
LEMMA FollowingInit ==
  ASSUME Init
  PROVE  Following
  <1>1. documents = NoDocuments /\ inbox = <<>> /\ buffer = [d \in Docs |-> Closed]
    BY DEF Init, ServerInit
  <1>2. Len(inbox) = 0 /\ 1..(Len(inbox) + 1 - 1) = {} /\ DOMAIN inbox = {} /\ DOMAIN documents = {}
    BY <1>1 DEF NoDocuments
  <1>3. BufferTold
    BY <1>1, <1>2 DEF BufferTold, Told, Has
  <1>4. AskedTold
    BY <1>2 DEF AskedTold
  <1> QED BY <1>3, <1>4, TruthfulInit DEF Following

(* Once the messages about a document are handled the server has the text  *)
(* the editor has, and none for a document that is closed.                 *)
THEOREM DocumentsAlwaysFollow == Spec => []DocumentsFollowClient
  <1>1. Init => Following
    BY FollowingInit
  <1>2. Following /\ [Next]_vars => Following'
    BY FollowingStep
  <1>3. Following => DocumentsFollowClient
    <2>1. SUFFICES ASSUME Following, NEW d \in Docs, ~Pending(d)
                   PROVE  Has(documents, d, buffer[d])
      BY DEF DocumentsFollowClient, Has
    <2>2. DOMAIN inbox = 1..Len(inbox) /\ Len(inbox) \in Nat /\ 1..(Len(inbox) + 1 - 1) = 1..Len(inbox)
      BY <2>1, Appended DEF Following, Truthful, Shapes
    <2>3. \A k \in 1..Len(inbox) : ~Tells(inbox[k], d)
      BY <2>1, <2>2 DEF Pending
    <2>4. Told(inbox, documents, d, Len(inbox) + 1, buffer[d])
      BY <2>1 DEF Following, BufferTold
    <2> QED BY <2>2, <2>3, <2>4 DEF Told
  <1> QED BY <1>1, <1>2, <1>3, PTL DEF Spec

(* A handler answers with what the server has, and that is the text asked  *)
(* about.                                                                  *)
LEMMA AskedIsKnown ==
  ASSUME Following, NEW kind \in RequestKinds, Start(kind)
  PROVE  /\ Message.kind = kind /\ Known
         /\ documents[Message.doc] = Message.asked
  <1>1. inbox # <<>> /\ Message.kind = kind
    BY DEF Start, Message
  <1>2. 1 \in DOMAIN inbox /\ Message = inbox[1] /\ 1..(1 - 1) = {}
    BY <1>1, Taken DEF Following, Truthful, Shapes, Message
  <1>3. Message.asked # Closed /\ Told(inbox, documents, Message.doc, 1, Message.asked)
    BY <1>1, <1>2 DEF Following, AskedTold
  <1>4. Has(documents, Message.doc, Message.asked)
    BY <1>2, <1>3 DEF Told
  <1> QED BY <1>1, <1>3, <1>4 DEF Has, Known

(* The answer of a handler is about the text asked about. *)
LEMMA AnswerFits ==
  ASSUME Following, Completion \/ GotoDefinition \/ Hover
  PROVE  Fits(answer'.request, answer'.result) /\ FindsTheOne(answer'.request, answer'.result)
  <1>1. ASSUME NEW kind \in RequestKinds, Start(kind), kind # "hover"
        PROVE  ModuleAsked = NamedAt(Message.doc, Message.asked, Message.place)
    BY <1>1, AskedIsKnown DEF ModuleAsked, NamedAt
  <1>2. CASE Completion
    <2> DEFINE dir   == IF root = NoRoot THEN Message.doc.dir ELSE root
               named == NamedAt(Message.doc, Message.asked, Message.place)
               files == UNION {ModuleFiles(InUri(dir), m) : m \in named}
    <2>1. Start("completion") /\ "completion" \in RequestKinds
      BY <1>2 DEF Completion, RequestKinds
    <2>2. Message.kind = "completion" /\ ModuleAsked = named
      BY <1>1, <2>1, AskedIsKnown
    <2>3. \/ \E file \in files : Reply(CompletionItems(file))
          \/ files = {} /\ Reply({})
      BY <1>2, <2>2 DEF Completion
    <2>4. /\ answer'.request = Message
          /\ \/ \E file \in files : answer'.result = CompletionItems(file)
             \/ files = {} /\ answer'.result = {}
      <3> HIDE DEF files
      <3>1. CASE \E file \in files : Reply(CompletionItems(file))
        <4>1. PICK file \in files : Reply(CompletionItems(file))
          BY <3>1
        <4> QED BY <4>1 DEF Reply
      <3>2. CASE files = {} /\ Reply({})
        BY <3>2 DEF Reply
      <3> QED BY <2>3, <3>1, <3>2
    <2>5. \A file \in files : /\ file \in Paths /\ file.ext = "gmod" /\ file.stem \in named
      BY DEF ModuleFiles
    <2>6. ASSUME NEW file, CompletionItems(file) # {}
          PROVE  /\ Readable(disk[file]) /\ Accepted(ModuleOf[disk[file].tree])
                 /\ {i.input : i \in CompletionItems(file)} = DOMAIN ModuleOf[disk[file].tree].inputs
      <3> DEFINE inputs == ModuleOf[disk[file].tree].inputs
                 Item(i) == [input |-> i, required |-> inputs[i].required]
                 items  == {Item(i) : i \in DOMAIN inputs}
      <3>1. /\ Readable(disk[file]) /\ Accepted(ModuleOf[disk[file].tree])
            /\ CompletionItems(file) = items
        BY <2>6 DEF CompletionItems
      <3>2. \A i : Item(i).input = i
        OBVIOUS
      <3> HIDE DEF Item, inputs
      <3>3. {i.input : i \in items} = DOMAIN inputs
        BY <3>2
      <3> QED BY <3>1, <3>3 DEF inputs
    <2>7. Fits(answer'.request, answer'.result)
      <3>1. CASE answer'.result = {}
        BY <2>2, <2>4, <3>1 DEF Fits
      <3>2. CASE answer'.result # {}
        <4>1. PICK file \in files : answer'.result = CompletionItems(file)
          BY <2>4, <3>2
        <4> QED BY <2>2, <2>4, <2>5, <2>6, <3>2, <4>1 DEF Fits
      <3> QED BY <3>1, <3>2
    <2>8. FindsTheOne(answer'.request, answer'.result)
      <3>1. SUFFICES ASSUME NEW file \in Paths, file.stem \in named, InUri(dir) = dir,
                            ModuleFiles(dir, file.stem) = {file}
                     PROVE  answer'.result = CompletionItems(file)
        BY <2>2, <2>4 DEF FindsTheOne
      <3>2. named = {file.stem}
        BY <3>1 DEF NamedAt
      <3>3. files = {file}
        BY <3>1, <3>2
      <3> QED BY <2>4, <3>3
    <2> QED BY <2>7, <2>8
  <1>3. CASE GotoDefinition
    <2> DEFINE named == NamedAt(Message.doc, Message.asked, Message.place)
               files == IF root = NoRoot THEN {}
                        ELSE UNION {ModuleFiles(InUri(root), m) : m \in named}
               Located(file) == {[file |-> f] : f \in AsUri(file)}
    <2>1. Start("definition") /\ "definition" \in RequestKinds
      BY <1>3 DEF GotoDefinition, RequestKinds
    <2>2. Message.kind = "definition" /\ ModuleAsked = named
      BY <1>1, <2>1, AskedIsKnown
    <2>3. \/ \E file \in files : Reply(Located(file))
          \/ files = {} /\ Reply({})
      BY <1>3, <2>2 DEF GotoDefinition
    <2>4. /\ answer'.request = Message
          /\ \/ \E file \in files : answer'.result = Located(file)
             \/ files = {} /\ answer'.result = {}
      <3> HIDE DEF files, Located
      <3> QED BY <2>3 DEF Reply
    <2>5. \A file \in files : /\ file \in Paths /\ disk[file] # Missing /\ file.ext = "gmod"
                              /\ file.stem \in named
      BY DEF ModuleFiles
    <2>6. ASSUME NEW file PROVE {l.file : l \in Located(file)} = AsUri(file)
      <3> DEFINE Spot(f) == [file |-> f]
                 places == AsUri(file)
      <3>1. \A f : Spot(f).file = f
        OBVIOUS
      <3> HIDE DEF Spot, places
      <3>2. {l.file : l \in {Spot(f) : f \in places}} = places
        BY <3>1
      <3> QED BY <3>2 DEF Spot, places
    <2>7. Fits(answer'.request, answer'.result)
      <3> HIDE DEF files, Located
      <3> QED BY <2>2, <2>4, <2>5, <2>6 DEF Fits
    <2>8. FindsTheOne(answer'.request, answer'.result)
      <3>1. SUFFICES ASSUME root # NoRoot, NEW file \in Paths, file.stem \in named,
                            InUri(root) = root, ModuleFiles(root, file.stem) = {file}
                     PROVE  answer'.result = Located(file)
        BY <2>2, <2>4 DEF FindsTheOne
      <3>2. named = {file.stem}
        BY <3>1 DEF NamedAt
      <3>3. files = {file}
        BY <3>1, <3>2
      <3> QED BY <2>4, <3>3
    <2> QED BY <2>7, <2>8
  <1>4. CASE Hover
    <2> DEFINE words == {WordAt(Message.asked, Message.place)}
    <2>1. Start("hover") /\ "hover" \in RequestKinds
      BY <1>4 DEF Hover, RequestKinds
    <2>2. Message.kind = "hover" /\ Known /\ documents[Message.doc] = Message.asked
      BY <2>1, AskedIsKnown
    <2>3. Reply({[field |-> w] : w \in words \cap HoverFields})
      BY <1>4, <2>2 DEF Hover
    <2>4. /\ answer'.request = Message
          /\ answer'.result = {[field |-> w] : w \in words \cap HoverFields}
      BY <2>3 DEF Reply
    <2>5. {h.field : h \in answer'.result} = words \cap HoverFields
      <3> DEFINE Item(w) == [field |-> w]
                 shared == words \cap HoverFields
      <3>1. \A w : Item(w).field = w
        OBVIOUS
      <3>2. answer'.result = {Item(w) : w \in shared}
        BY <2>4
      <3> HIDE DEF Item, shared
      <3>3. {h.field : h \in {Item(w) : w \in shared}} = shared
        BY <3>1
      <3> QED BY <3>2, <3>3 DEF shared
    <2> QED BY <2>2, <2>4, <2>5 DEF Fits, FindsTheOne
  <1> QED BY <1>2, <1>3, <1>4

(* An answer is about what the document said when the user asked, whatever *)
(* changes were sent around the request, and about files that are there.   *)
THEOREM AnswersAlwaysFit == Spec => AnswersFit
  <1>1. Init => Following
    BY FollowingInit
  <1>2. Following /\ [Next]_vars => Following'
    BY FollowingStep
  <1>3. Following /\ [Next]_vars
        => [answer' # answer => /\ Fits(answer'.request, answer'.result)
                                /\ FindsTheOne(answer'.request, answer'.result)]_vars
    <2>1. SUFFICES ASSUME Following, [Next]_vars, answer' # answer
                   PROVE  Completion \/ GotoDefinition \/ Hover
      BY AnswerFits
    <2>2. UNCHANGED answer => FALSE
      BY <2>1
    <2>3. EditorStep => UNCHANGED answer
      BY DEF EditorStep, Opens, Edit, EditNothing, Save, Closes, Ask, Send, received
    <2>4. CASE Next
      <3>1. DidOpen \/ DidChange \/ DidSave \/ DidClose => UNCHANGED answer
        BY DEF DidOpen, DidChange, DidSave, DidClose, received
      <3>2. ASSUME NEW k, Publish(k) PROVE UNCHANGED answer
        BY <3>2 DEF Publish
      <3>3. ASSUME NEW folders, Initialize(folders) PROVE UNCHANGED answer
        BY <3>3 DEF Initialize, received
      <3>4. UNCHANGED serverVars => UNCHANGED answer
        BY DEF serverVars, received
      <3> QED BY <2>2, <2>3, <2>4, <3>1, <3>2, <3>3, <3>4 DEF Next, ServerStep, Serve
    <2>5. CASE UNCHANGED vars
      BY <2>2, <2>5 DEF vars, serverVars, received
    <2> QED BY <2>1, <2>4, <2>5
  <1> QED BY <1>1, <1>2, <1>3, PTL DEF Spec, AnswersFit

----------------------------------------------------------------------------
(* What a text must be, and what the parsers, the linter and the formatter *)
(* make of it.                                                             *)

(* A file that can be read holds a text. *)
LEMMA FoundIsText ==
  /\ \A f \in Found : Readable(f) <=> f \in Texts
  /\ Closed \notin Texts /\ EmptyText \in Texts /\ EmptyText \in Found
  <1>1. \A f \in Texts : f # Missing /\ f # Unreadable /\ f # Closed
    BY DEF Texts, Missing, Unreadable, Closed
  <1>2. <<>> \in Layout
    BY DEF Layout
  <1>3. EmptyText \in Texts
    BY <1>2, TreesAssumption DEF EmptyText, Texts
  <1> QED BY <1>1, <1>3 DEF Found, Readable

(* The formatter keeps what a text says and leaves it canonical, unless it *)
(* tears a comment; it changes the text when that is not canonical; and it *)
(* has nothing to do, or no HCL, the second time.                          *)
LEMMA FormattedText ==
  ASSUME NEW text \in Texts
  PROVE  /\ FormatText(text) \in Texts
         /\ Tears(text.layout) => FormatText(text) = Broken
         /\ ~Tears(text.layout) => /\ FormatText(text).tree = text.tree
                                   /\ CanonicalText(FormatText(text))
         /\ CanonicalText(text) <=> FormatText(text) = text
         /\ FormatText(FormatText(text)) = FormatText(text)
  <1>1. text = [tree |-> text.tree, layout |-> text.layout] /\ text.tree \in Trees /\ text.layout \in Layout
    BY DEF Texts
  <1>2. CASE Tears(text.layout)
    <2>1. FormatText(text) = Broken
      BY <1>2 DEF FormatText
    <2>2. <<>> \in Layout /\ DOMAIN Broken.layout = {} /\ Broken.layout = <<>>
      BY DEF Layout, Broken
    <2>3. Broken \in Texts
      BY <2>2, TreesAssumption DEF Broken, Texts
    <2>4. ~Tears(Broken.layout)
      BY <2>2 DEF Tears
    <2>5. FormatLayout(Broken.layout) = Broken.layout
      BY <2>2 DEF FormatLayout
    <2>6. FormatText(Broken) = Broken
      BY <2>4, <2>5 DEF FormatText, Broken
    <2>7. ~CanonicalText(text)
      BY <1>2 DEF Tears, CanonicalText, Canonical
    <2> QED BY <1>2, <2>1, <2>3, <2>4, <2>6, <2>7
  <1>3. CASE ~Tears(text.layout)
    <2>1. FormatText(text) = [tree |-> text.tree, layout |-> FormatLayout(text.layout)]
      BY <1>1, <1>3 DEF FormatText
    <2>2. FormatLayout(text.layout) \in Layout
      BY <1>1, FormatLayoutType
    <2>3. DOMAIN FormatLayout(text.layout) = DOMAIN text.layout
      BY DEF FormatLayout
    <2>4. CanonicalText(FormatText(text))
      BY <1>1, <1>3, <2>1, <2>3, FormatCanonical DEF CanonicalText
    <2>5. CanonicalText(text) => FormatText(text) = text
      BY <1>1, <2>1, CanonicalIsFormatted DEF CanonicalText
    <2>6. FormatText(FormatText(text)) = FormatText(text)
      BY <1>1, <1>3, <2>1, FormatIdempotent DEF FormatText
    <2> QED BY <1>1, <1>3, <2>1, <2>2, <2>4, <2>5, <2>6 DEF Texts
  <1> QED BY <1>2, <1>3
----------------------------------------------------------------------------
(* Syntax trees. *)

(* The bodies of a tree are sequences, as deep as the parsers look. *)
LEMMA BodiesAreSequences ==
  ASSUME NEW t \in Trees
  PROVE  /\ IsList(Source(t).blocks)
         /\ \A m \in Range(Source(t).blocks) :
              /\ IsList(m.blocks)
              /\ \A s \in Range(m.blocks) :
                   /\ IsList(s.blocks)
                   /\ \A c \in Range(s.blocks) :
                        IsList(c.blocks) /\ \A a \in Range(c.blocks) : IsList(a.blocks)
  <1> DEFINE file     == {Source(t).blocks}
             modules  == Inner(file)
             sections == Inner(modules)
             cases    == Inner(sections)
  <1>1. \A body \in file \cup modules \cup sections \cup cases \cup Inner(cases) : IsList(body)
    BY TreesAssumption DEF BodiesOf, IsList
  <1>2. ASSUME NEW bodies, NEW body \in bodies, NEW b \in Range(body)
        PROVE  b.blocks \in Inner(bodies)
    BY DEF Inner
  <1> HIDE DEF modules, sections, cases
  <1>3. \A m \in Range(Source(t).blocks) : m.blocks \in modules
    BY <1>2 DEF modules
  <1>4. \A body \in modules : \A s \in Range(body) : s.blocks \in sections
    BY <1>2 DEF sections
  <1>5. \A body \in sections : \A c \in Range(body) : c.blocks \in cases
    BY <1>2 DEF cases
  <1>6. \A body \in cases : \A a \in Range(body) : a.blocks \in Inner(cases)
    BY <1>2
  <1> QED BY <1>1, <1>3, <1>4, <1>5, <1>6

(* The first block of a name is the one at the least of its places.        *)
LEMMA FirstIsLeast ==
  ASSUME NEW body, IsList(body), NEW ident
  PROVE  /\ Lacks(body, ident) <=> ident \notin Idents(body)
         /\ ident \in Idents(body) =>
              /\ First(body, ident) = FirstOf(body, ident)
              /\ FirstOf(body, ident) \in Range(body) /\ FirstOf(body, ident).ident = ident
  <1>1. DOMAIN body = 1..Len(body) /\ Len(body) \in Nat
    BY DEF IsList
  <1>2. Lacks(body, ident) <=> ident \notin Idents(body)
    BY DEF Lacks, Named, Idents, Range
  <1>3. ASSUME ident \in Idents(body)
        PROVE  /\ First(body, ident) = FirstOf(body, ident)
               /\ FirstOf(body, ident) \in Range(body) /\ FirstOf(body, ident).ident = ident
    <2> DEFINE places == Named(body, ident)
    <2>1. places # {} /\ places \in SUBSET Nat
      BY <1>1, <1>2, <1>3 DEF Lacks, Named
    <2>2. PICK m \in places : \A k \in places : m <= k
      <3> HIDE DEF places
      <3> QED BY <2>1, LeastExists
    <2>3. Min(places) \in places /\ \A k \in places : Min(places) <= k
      <3> HIDE DEF places
      <3> QED BY <2>2 DEF Min
    <2>4. Min(places) = m
      <3> HIDE DEF places
      <3>1. Min(places) \in Nat /\ m \in Nat
        BY <2>1, <2>2, <2>3
      <3>2. m <= Min(places) /\ Min(places) <= m
        BY <2>2, <2>3
      <3> QED BY <3>1, <3>2
    <2>5. FirstOf(body, ident) = body[m] /\ m \in DOMAIN body /\ body[m].ident = ident
      BY <2>2, <2>4 DEF FirstOf, Named
    <2>6. \A j \in 1..(m - 1) : body[j].ident # ident
      BY <1>1, <2>2, <2>5 DEF Named
    <2>7. ASSUME NEW k \in DOMAIN body, body[k].ident = ident,
                 \A j \in 1..(k - 1) : body[j].ident # ident
          PROVE  k = m
      <3>1. k \in places
        BY <2>7 DEF Named
      <3>2. ~(m < k)
        BY <1>1, <2>5, <2>7
      <3> QED BY <1>1, <2>2, <2>5, <3>1, <3>2
    <2>8. body[m] \in Range(body)
      BY <2>5 DEF Range
    <2>9. \A b \in Range(body) :
            (\E k \in DOMAIN body : /\ body[k] = b /\ b.ident = ident
                                   /\ \A j \in 1..(k - 1) : body[j].ident # ident) <=> b = body[m]
      BY <2>5, <2>6, <2>7
    <2>10. First(body, ident) = body[m]
      <3>1. First(body, ident) = CHOOSE b \in Range(body) : b = body[m]
        BY <2>9 DEF First
      <3> QED BY <2>8, <3>1
    <2> QED BY <2>5, <2>8, <2>10
  <1> QED BY <1>2, <1>3

(* Of a block that is there or not, the attributes are those of the first. *)
LEMMA FirstAttributes ==
  ASSUME NEW body, IsList(body), NEW ident
  PROVE  AttributesIn(body, ident) =
           IF ident \in Idents(body) THEN First(body, ident).attrs ELSE NoAttributes
  BY FirstIsLeast DEF AttributesIn

(* parse_module_file accepts what is a good module. *)
LEMMA GoodModuleParses ==
  ASSUME NEW t \in Trees
  PROVE  Accepted(ModuleOf[t]) <=> GoodModule(Source(t))
  <1> DEFINE tree     == Source(t)
             n        == Len(tree.blocks)
             module   == tree.blocks[n]
             blocks   == module.blocks
             four     == {"metadata", "interface", "validation", "generate"}
             generate == FirstOf(blocks, "generate").blocks
             labelled == \A b \in Range(InFirst(blocks, "generate")) : b.ident = "case" => b.labels # <<>>
  <1>1. IsList(tree.blocks) /\ \A m \in Range(tree.blocks) : IsList(m.blocks)
    BY BodiesAreSequences
  <1>2. ModuleOf[t] = ParseModule(t)
    BY DEF ModuleOf
  <1>3. Range(Sections) = four /\ DOMAIN Sections = 1..4
    BY DEF Range, Sections
  <1>4. ASSUME IsList(blocks)
        PROVE  Accepted(ParseSections(module)) <=> Idents(blocks) = four /\ labelled
    <2>1. {k \in DOMAIN blocks : blocks[k].ident \notin Range(Sections)} = {} <=> Idents(blocks) \subseteq four
      BY <1>3 DEF Idents, Range
    <2>2. {m \in DOMAIN Sections : Lacks(blocks, Sections[m])} = {} <=> four \subseteq Idents(blocks)
      <3>1. \A m \in DOMAIN Sections : Lacks(blocks, Sections[m]) <=> Sections[m] \notin Idents(blocks)
        BY <1>4, FirstIsLeast
      <3>2. \A m \in DOMAIN Sections : Sections[m] \in four
        BY <1>3 DEF Sections
      <3>3. \A s \in four : \E m \in DOMAIN Sections : Sections[m] = s
        BY <1>3 DEF Sections
      <3> HIDE DEF four
      <3> QED BY <3>1, <3>2, <3>3
    <2>3. ASSUME Idents(blocks) = four
          PROVE  (\A k \in Named(generate, "case") : generate[k].labels # <<>>) <=> labelled
      <3>1. generate = InFirst(blocks, "generate")
        BY <1>4, <2>3, FirstIsLeast DEF InFirst
      <3> QED BY <3>1 DEF Named, Range
    <2> HIDE DEF labelled
    <2> QED BY <2>1, <2>2, <2>3 DEF ParseSections, Accepted, Refused
  <1>5. {k \in DOMAIN tree.blocks : tree.blocks[k].ident # "module"} = {}
          <=> Idents(tree.blocks) \subseteq {"module"}
    BY DEF Idents, Range
  <1>6. /\ tree.blocks = <<>> <=> Idents(tree.blocks) = {}
        /\ tree.blocks # <<>> => n \in DOMAIN tree.blocks /\ module \in Range(tree.blocks)
    <2>1. n \in Nat /\ DOMAIN tree.blocks = 1..n /\ tree.blocks = [k \in 1..n |-> tree.blocks[k]]
      BY <1>1 DEF IsList
    <2>2. tree.blocks = <<>> <=> n = 0
      <3> HIDE DEF tree
      <3> QED BY <2>1
    <2>3. n # 0 => n \in DOMAIN tree.blocks
      <3> HIDE DEF tree, n
      <3> QED BY <2>1
    <2>4. Idents(tree.blocks) = {} <=> DOMAIN tree.blocks = {}
      BY DEF Idents, Range
    <2>5. n = 0 <=> DOMAIN tree.blocks = {}
      <3> HIDE DEF tree, n
      <3> QED BY <2>1
    <2> QED BY <2>2, <2>3, <2>4, <2>5 DEF Range
  <1>7. Last(tree.blocks) = module
    BY DEF Last
  <1>8. tree.blocks # <<>> => IsList(blocks)
    BY <1>1, <1>6
  <1>9. GoodModule(tree) <=> /\ tree.hcl /\ Idents(tree.blocks) = {"module"}
                             /\ module.labels # <<>> /\ Idents(blocks) = four /\ labelled
    BY DEF GoodModule
  <1>10. Accepted(ParseModule(t)) <=>
           /\ tree.hcl
           /\ {k \in DOMAIN tree.blocks : tree.blocks[k].ident # "module"} = {}
           /\ tree.blocks # <<>> /\ module.labels # <<>> /\ Accepted(ParseSections(module))
    <2>1. \A e, b : Accepted(Refused(e, b)) <=> e = "none"
      BY DEF Accepted, Refused
    <2> HIDE DEF tree, module
    <2> QED BY <1>7, <2>1 DEF ParseModule, tree
  <1> HIDE DEF tree, module, blocks, labelled, four
  <1> QED BY <1>2, <1>4, <1>5, <1>6, <1>8, <1>9, <1>10 DEF tree

(* parse_template_file accepts what is a good template. *)
LEMMA GoodTemplateParses ==
  ASSUME NEW t \in Trees
  PROVE  Accepted(TemplateOf[t]) <=> GoodTemplate(Source(t))
  <1> DEFINE tree     == Source(t)
             template == First(tree.blocks, "template")
             blocks   == template.blocks
             labelled == \A b \in Range(blocks) : b.ident = "resource" => b.labels # <<>>
  <1>1. IsList(tree.blocks) /\ \A m \in Range(tree.blocks) : IsList(m.blocks)
    BY BodiesAreSequences
  <1>2. TemplateOf[t] = ParseTemplate(t)
    BY DEF TemplateOf
  <1>3. Lacks(tree.blocks, "template") <=> "template" \notin Idents(tree.blocks)
    BY <1>1, FirstIsLeast
  <1>4. "template" \in Idents(tree.blocks) =>
          template = FirstOf(tree.blocks, "template") /\ IsList(blocks)
    BY <1>1, FirstIsLeast
  <1>5. ASSUME IsList(blocks)
        PROVE  Accepted(ParseTemplateBlock(template)) <=>
                 {"metadata", "parameters", "outputs"} \subseteq Idents(blocks) /\ labelled
    <2>1. \A ident : Lacks(blocks, ident) <=> ident \notin Idents(blocks)
      BY <1>5, FirstIsLeast
    <2>2. (\A k \in Named(blocks, "resource") : blocks[k].labels # <<>>) <=> labelled
      BY DEF Named, Range
    <2> HIDE DEF labelled, template
    <2> QED BY <2>1, <2>2 DEF ParseTemplateBlock, Accepted, Refused
  <1>6. GoodTemplate(tree) <=>
          /\ tree.hcl /\ "template" \in Idents(tree.blocks) /\ template.labels # <<>>
          /\ {"metadata", "parameters", "outputs"} \subseteq Idents(blocks) /\ labelled
    BY DEF GoodTemplate
  <1>7. Accepted(ParseTemplate(t)) <=>
          /\ tree.hcl /\ ~Lacks(tree.blocks, "template")
          /\ FirstOf(tree.blocks, "template").labels # <<>>
          /\ Accepted(ParseTemplateBlock(FirstOf(tree.blocks, "template")))
    <2>1. \A e, b : Accepted(Refused(e, b)) <=> e = "none"
      BY DEF Accepted, Refused
    <2> HIDE DEF tree
    <2> QED BY <2>1 DEF ParseTemplate, tree
  <1> HIDE DEF tree, template, labelled
  <1> QED BY <1>2, <1>3, <1>4, <1>5, <1>6, <1>7 DEF tree

(* What the sections of a module are parsed into, if they are accepted. *)
LEMMA AcceptedSections ==
  ASSUME NEW m, Accepted(ParseSections(m))
  PROVE  ParseSections(m) =
           [error    |-> "none",
            name     |-> Head(m.labels),
            metadata |-> DOMAIN FirstOf(m.blocks, "metadata").attrs \cap Governance,
            inputs   |-> ParseInputs(FirstOf(m.blocks, "interface")),
            outputs  |-> ParseOutputs(FirstOf(m.blocks, "interface")),
            rules    |-> ParseRules(FirstOf(m.blocks, "validation")),
            cases    |-> [k \in Named(FirstOf(m.blocks, "generate").blocks, "case") |->
                            ParseCase(FirstOf(m.blocks, "generate").blocks[k])]]
  <1>1. \A e, b : Accepted(Refused(e, b)) <=> e = "none"
    BY DEF Accepted, Refused
  <1> QED BY <1>1 DEF ParseSections

(* The linter is silent about a module exactly when it is clean. *)
LEMMA CleanIsSilent ==
  ASSUME NEW t \in Trees, GoodModule(Source(t))
  PROVE  Warnings[t] = {} <=> Clean(Source(t))
  <1> DEFINE tree      == Source(t)
             module    == tree.blocks[Len(tree.blocks)].blocks
             interface == InFirst(module, "interface")
             generate  == InFirst(module, "generate")
             arms      == UNION {Range(c.blocks) : c \in {b \in Range(generate) : b.ident = "case"}}
             Keys(bs, ident) == IF ident \in Idents(bs) THEN DOMAIN First(bs, ident).attrs ELSE {}
             Names(text, i)  == \E n \in text.names : n[1] = <<Bare, i>> /\ ~n[2]
             Uses(arm, i)    ==
               \/ "code" \in DOMAIN arm.attrs /\ Names(arm.attrs["code"], i)
               \/ \E o \in Keys(arm.blocks, "outputs") :
                     Names(First(arm.blocks, "outputs").attrs[o], i)
             parsed == ModuleOf[t]
             declared == First(interface, "inputs").attrs
  <1>1. /\ IsList(module) /\ IsList(interface) /\ IsList(generate)
        /\ \A arm \in arms : IsList(arm.blocks)
        /\ FirstOf(module, "interface").blocks = interface
        /\ FirstOf(module, "generate").blocks = generate
        /\ First(module, "metadata") = FirstOf(module, "metadata") /\ "metadata" \in Idents(module)
    <2>1. /\ IsList(tree.blocks) /\ Idents(tree.blocks) = {"module"}
          /\ Idents(module) = {"metadata", "interface", "validation", "generate"}
      BY BodiesAreSequences DEF GoodModule
    <2>2. tree.blocks[Len(tree.blocks)] \in Range(tree.blocks)
      <3>1. DOMAIN tree.blocks # {} /\ DOMAIN tree.blocks = 1..Len(tree.blocks) /\ Len(tree.blocks) \in Nat
        BY <2>1 DEF IsList, Idents, Range
      <3> HIDE DEF tree
      <3>2. Len(tree.blocks) \in DOMAIN tree.blocks
        BY <3>1
      <3> QED BY <3>2 DEF Range
    <2>3. /\ IsList(module)
          /\ \A s \in Range(module) :
               /\ IsList(s.blocks)
               /\ \A c \in Range(s.blocks) : \A a \in Range(c.blocks) : IsList(a.blocks)
      BY <2>2, BodiesAreSequences
    <2> HIDE DEF module
    <2>4. \A s \in {"metadata", "interface", "generate"} :
            First(module, s) = FirstOf(module, s) /\ First(module, s) \in Range(module)
      BY <2>1, <2>3, FirstIsLeast
    <2>5. First(module, "interface") \in Range(module) /\ First(module, "generate") \in Range(module)
      BY <2>4
    <2>6. \A c \in Range(generate) : \A a \in Range(c.blocks) : IsList(a.blocks)
      BY <2>3, <2>5 DEF InFirst
    <2>7. \A arm \in arms : IsList(arm.blocks)
      BY <2>6
    <2> QED BY <2>1, <2>3, <2>4, <2>5, <2>7 DEF InFirst
  <1>2. parsed = ParseSections(Last(tree.blocks)) /\ Last(tree.blocks) = tree.blocks[Len(tree.blocks)]
    <2>1. Accepted(ParseModule(t))
      BY GoodModuleParses DEF ModuleOf
    <2>2. ParseModule(t) = ParseSections(Last(tree.blocks))
      <3>1. \A e, b : Accepted(Refused(e, b)) <=> e = "none"
        BY DEF Accepted, Refused
      <3> QED BY <2>1, <3>1 DEF ParseModule
    <2> QED BY <2>2 DEF ModuleOf, Last
  <1>3. parsed = [error    |-> "none",
                  name     |-> Head(tree.blocks[Len(tree.blocks)].labels),
                  metadata |-> DOMAIN FirstOf(module, "metadata").attrs \cap Governance,
                  inputs   |-> ParseInputs(FirstOf(module, "interface")),
                  outputs  |-> ParseOutputs(FirstOf(module, "interface")),
                  rules    |-> ParseRules(FirstOf(module, "validation")),
                  cases    |-> [k \in Named(generate, "case") |-> ParseCase(generate[k])]]
    <2>1. Accepted(parsed)
      BY GoodModuleParses
    <2> HIDE DEF parsed, tree, generate
    <2> QED BY <1>1, <1>2, <2>1, AcceptedSections
  <1> HIDE DEF parsed, module, interface, generate
  <1>4. Arms(parsed) = {ParseArm(a) : a \in arms}
    <2>1. Range(parsed.cases) = {ParseCase(c) : c \in {b \in Range(generate) : b.ident = "case"}}
      BY <1>3 DEF Range, Named
    <2>2. \A c : Range(ParseCase(c).arms) = {ParseArm(a) : a \in Range(c.blocks)}
      BY DEF ParseCase, Range
    <2> HIDE DEF arms
    <2> DEFINE cs == {b \in Range(generate) : b.ident = "case"}
    <2>3. arms = UNION {Range(c.blocks) : c \in cs}
      BY DEF arms
    <2> HIDE DEF cs
    <2>4. Arms(parsed) = UNION {Range(ParseCase(c).arms) : c \in cs}
      BY <2>1 DEF Arms, cs
    <2>5. \A x : x \in Arms(parsed) <=> \E c \in cs : \E a \in Range(c.blocks) : x = ParseArm(a)
      <3>1. \A x, c : x \in Range(ParseCase(c).arms) <=> \E a \in Range(c.blocks) : x = ParseArm(a)
        BY <2>2
      <3>2. \A x : x \in Arms(parsed) <=> \E c \in cs : x \in Range(ParseCase(c).arms)
        BY <2>4
      <3> QED BY <3>1, <3>2
    <2>6. \A a : a \in arms <=> \E c \in cs : a \in Range(c.blocks)
      BY <2>3
    <2> QED BY <2>5, <2>6
  <1> HIDE DEF arms
  <1>5. /\ DOMAIN parsed.inputs = Keys(interface, "inputs")
        /\ \A i \in DOMAIN parsed.inputs :
             parsed.inputs[i].hasType <=> "keys" \in DOMAIN declared[i] /\ "type" \in declared[i].keys
        /\ parsed.outputs = Keys(interface, "outputs")
        /\ parsed.metadata = Keys(module, "metadata") \cap Governance
    <2>1. AttributesIn(interface, "inputs") =
            IF "inputs" \in Idents(interface) THEN First(interface, "inputs").attrs ELSE NoAttributes
      BY <1>1, FirstAttributes
    <2>2. AttributesIn(interface, "outputs") =
            IF "outputs" \in Idents(interface) THEN First(interface, "outputs").attrs ELSE NoAttributes
      BY <1>1, FirstAttributes
    <2>3. DOMAIN NoAttributes = {}
      BY DEF NoAttributes
    <2>4. parsed.inputs = [i \in DOMAIN AttributesIn(interface, "inputs") |->
                             ParseInput(AttributesIn(interface, "inputs")[i])]
      BY <1>1, <1>3 DEF ParseInputs
    <2>5. parsed.outputs = DOMAIN AttributesIn(interface, "outputs")
      BY <1>1, <1>3 DEF ParseOutputs
    <2>6. parsed.metadata = DOMAIN First(module, "metadata").attrs \cap Governance
      BY <1>1, <1>3
    <2>7. \A v : ParseInput(v).hasType <=> "keys" \in DOMAIN v /\ "type" \in v.keys
      BY DEF ParseInput, HasKey
    <2> QED BY <1>1, <2>1, <2>2, <2>3, <2>4, <2>5, <2>6, <2>7
  <1>6. ASSUME NEW a \in arms
        PROVE  /\ \A i : \/ <<Bare, i>> \in ParseArm(a).variables
                         \/ <<Bare, i>> \in UNION Range(ParseArm(a).outputs)
                         <=> Uses(a, i)
               /\ DOMAIN ParseArm(a).outputs = Keys(a.blocks, "outputs")
               /\ ~ParseArm(a).blank <=> "code" \in DOMAIN a.attrs /\ ~a.attrs["code"].blank
    <2> DEFINE outputs == AttributesIn(a.blocks, "outputs")
               code    == AttributeOr(a, "code", NoCode)
    <2>1. outputs = IF "outputs" \in Idents(a.blocks) THEN First(a.blocks, "outputs").attrs ELSE NoAttributes
      BY <1>1, FirstAttributes
    <2>2. DOMAIN outputs = Keys(a.blocks, "outputs")
      BY <2>1 DEF NoAttributes
    <2>3. /\ ParseArm(a).variables = ScanVariables(code.names) /\ ParseArm(a).blank = code.blank
          /\ ParseArm(a).outputs = [o \in DOMAIN outputs |-> ScanVariables(outputs[o].names)]
      BY DEF ParseArm
    <2>4. \A names, i : <<Bare, i>> \in ScanVariables(names) <=> \E n \in names : n[1] = <<Bare, i>> /\ ~n[2]
      BY DEF ScanVariables
    <2>5. \A i : <<Bare, i>> \in ScanVariables(code.names) <=>
                   "code" \in DOMAIN a.attrs /\ Names(a.attrs["code"], i)
      <3>1. CASE "code" \in DOMAIN a.attrs
        BY <2>4, <3>1 DEF AttributeOr
      <3>2. CASE "code" \notin DOMAIN a.attrs
        BY <2>4, <3>2 DEF AttributeOr, NoCode
      <3> QED BY <3>1, <3>2
    <2>6. \A i : <<Bare, i>> \in UNION Range(ParseArm(a).outputs) <=>
                   \E o \in DOMAIN outputs : Names(outputs[o], i)
      <3> HIDE DEF outputs
      <3>1. \A x : x \in UNION Range(ParseArm(a).outputs) <=>
                     \E o \in DOMAIN outputs : x \in ScanVariables(outputs[o].names)
        BY <2>3 DEF Range
      <3>2. \A i, text : <<Bare, i>> \in ScanVariables(text.names) <=> Names(text, i)
        BY <2>4
      <3> HIDE DEF Names
      <3> QED BY <3>1, <3>2
    <2>7. \A o \in Keys(a.blocks, "outputs") : outputs[o] = First(a.blocks, "outputs").attrs[o]
      BY <2>1
    <2>8. ~code.blank <=> "code" \in DOMAIN a.attrs /\ ~a.attrs["code"].blank
      BY DEF AttributeOr, NoCode
    <2> HIDE DEF outputs, code, Names, Keys
    <2>9. \A i : (\E o \in DOMAIN outputs : Names(outputs[o], i)) <=>
                 (\E o \in Keys(a.blocks, "outputs") : Names(First(a.blocks, "outputs").attrs[o], i))
      BY <2>2, <2>7
    <2> QED BY <2>2, <2>3, <2>5, <2>6, <2>8, <2>9
  <1> HIDE DEF Keys, Names, Uses
  <1>7. UnusedInputs(parsed) = {} <=> \A i \in Keys(interface, "inputs") : \E arm \in arms : Uses(arm, i)
    <2>1. \A i : <<Bare, i>> \in Referenced(parsed) <=> \E arm \in arms : Uses(arm, i)
      <3>1. \A i : <<Bare, i>> \in Referenced(parsed) <=>
              \E p \in Arms(parsed) : <<Bare, i>> \in p.variables \/ <<Bare, i>> \in UNION Range(p.outputs)
        BY DEF Referenced
      <3> QED BY <1>4, <1>6, <3>1
    <2>2. UnusedInputs(parsed) = {} <=> \A j \in DOMAIN parsed.inputs : <<Bare, j>> \in Referenced(parsed)
      BY DEF UnusedInputs
    <2> QED BY <1>5, <2>1, <2>2
  <1>8. UnwiredOutputs(parsed) = {} <=>
          \A o \in Keys(interface, "outputs") : \E arm \in arms : o \in Keys(arm.blocks, "outputs")
    <2>1. UnwiredOutputs(parsed) = {} <=> \A o \in parsed.outputs : \E p \in Arms(parsed) : o \in DOMAIN p.outputs
      <3> DEFINE wired   == UNION {DOMAIN arm.outputs : arm \in Arms(parsed)}
                 unwired == parsed.outputs \ wired
      <3>1. \A o : o \in wired <=> \E p \in Arms(parsed) : o \in DOMAIN p.outputs
        OBVIOUS
      <3>2. UnwiredOutputs(parsed) = {<<"unwired-output", o>> : o \in unwired}
        BY DEF UnwiredOutputs
      <3> HIDE DEF wired
      <3> QED BY <3>1, <3>2
    <2> QED BY <1>4, <1>5, <1>6, <2>1
  <1>9. EmptyCaseArms(parsed) = {} <=>
          \A arm \in arms : "code" \in DOMAIN arm.attrs /\ ~arm.attrs["code"].blank
    <2>1. EmptyCaseArms(parsed) = {} <=> \A p \in Arms(parsed) : ~p.blank
      BY DEF EmptyCaseArms
    <2> QED BY <1>4, <1>6, <2>1
  <1>10. MissingGovernance(parsed) = {} <=> Governance \subseteq Keys(module, "metadata")
    <2>1. MissingGovernance(parsed) = {} <=> Governance \subseteq parsed.metadata
      BY DEF MissingGovernance
    <2> QED BY <1>5, <2>1
  <1>11. MissingType(parsed) = {} <=>
           \A i \in Keys(interface, "inputs") : "keys" \in DOMAIN declared[i] /\ "type" \in declared[i].keys
    <2>1. MissingType(parsed) = {} <=> \A j \in DOMAIN parsed.inputs : parsed.inputs[j].hasType
      BY DEF MissingType
    <2> QED BY <1>5, <2>1
  <1>12. Warnings[t] = LintModule(parsed)
    BY GoodModuleParses DEF Warnings, parsed
  <1>13. Clean(tree) <=>
           /\ Governance \subseteq Keys(module, "metadata")
           /\ \A i \in Keys(interface, "inputs") :
                /\ \E arm \in arms : Uses(arm, i)
                /\ "keys" \in DOMAIN declared[i] /\ "type" \in declared[i].keys
           /\ \A o \in Keys(interface, "outputs") : \E arm \in arms : o \in Keys(arm.blocks, "outputs")
           /\ \A arm \in arms : "code" \in DOMAIN arm.attrs /\ ~arm.attrs["code"].blank
    BY DEF Clean, Keys, Names, Uses, arms, module, interface, generate
  <1> QED BY <1>7, <1>8, <1>9, <1>10, <1>11, <1>12, <1>13 DEF LintModule

----------------------------------------------------------------------------
(* The commands.  Where a command is in its list, and what it has read.    *)

Positions ==
  /\ command \in Commands /\ at \in 1..(Len(command.files) + 1) /\ phase \in Phases
  /\ held \in Texts /\ exit \in {"none", "success", "failure"}
  /\ seen \in Seq(Found) /\ Len(seen) <= Len(command.files)
  /\ command.name = "init" => seen = <<>> /\ held = Scaffolds[command.kind]
  /\ phase = "read" /\ command.name # "init" => Len(seen) = at - 1
  /\ phase \in {"open", "write"} => at <= Len(command.files)
  /\ command.name = "none" => phase = "ended" /\ exit = "none"
  /\ phase # "ended" => exit = "none"
  /\ exit = "success" => at = Len(command.files) + 1

(* What fmt writes is the text it has just read, formatted. *)
Changing ==
  phase \in {"open", "write"} /\ command.name # "init" =>
    /\ command.name = "fmt" /\ ~command.check /\ Len(seen) = at
    /\ seen[at] \in Texts /\ held = FormatText(seen[at]) /\ ~CanonicalText(seen[at])

(* The command would end with a failure. *)
Failed == \/ hasError
          \/ command.strict /\ hasWarning
          \/ command.check /\ anyChanged

Tallied ==
  phase # "ended" => (Failed <=> \E k \in DOMAIN seen : ~Passes(command, command.files[k], seen[k]))

CommandInv == Positions /\ Changing /\ Tallied /\ ExitTellsTruth

(* The scaffolds are texts. *)
LEMMA ScaffoldsAreTexts ==
  /\ Scaffolds["gmod"] \in Texts /\ Scaffolds["gtpl"] \in Texts
  /\ Scaffolds["gmod"].tree = "scaffoldModule" /\ Scaffolds["gtpl"].tree = "scaffoldTemplate"
  <1>1. \A level \in Nat : \A key \in Nat : \A pad \in Nat : \A multi \in BOOLEAN :
          Line(level, key, pad, multi) \in Attribute
    BY DEF Line, Attribute
  <1>2. ASSUME NEW blanks \in Seq(Nat)
        PROVE  Blocks(blanks) \in Seq(Attribute \cup Block)
    BY DEF Blocks, Block
  <1>3. \A a \in Attribute, b \in Attribute : <<a, b>> \in Seq(Attribute \cup Block)
    OBVIOUS
  <1>4. \A a \in Attribute : <<a>> \in Seq(Attribute \cup Block)
    OBVIOUS
  <1>5. \A s, t \in Seq(Attribute \cup Block) : s \o t \in Seq(Attribute \cup Block)
    OBVIOUS
  <1>6. \A level \in Nat, s \in Seq(Attribute \cup Block) : [level |-> level, entries |-> s] \in Body
    BY DEF Body
  <1>7. <<0>> \in Seq(Nat) /\ <<0, 0>> \in Seq(Nat) /\ <<0, 1, 1, 1>> \in Seq(Nat)
    OBVIOUS
  <1> DEFINE b1 == Blocks(<<0>>)
             b2 == Blocks(<<0, 0>>)
             b4 == Blocks(<<0, 1, 1, 1>>)
  <1>8. b1 \in Seq(Attribute \cup Block) /\ b2 \in Seq(Attribute \cup Block) /\ b4 \in Seq(Attribute \cup Block)
    BY <1>2, <1>7
  <1> HIDE DEF b1, b2, b4
  <1>9. AboutLayout \in Body
    BY <1>1, <1>3, <1>6 DEF AboutLayout
  <1>10. ScaffoldModuleLayout \in Layout
    <2>1. /\ [level |-> 0, entries |-> b1] \in Body /\ [level |-> 1, entries |-> b4] \in Body
          /\ [level |-> 2, entries |-> b2] \in Body /\ [level |-> 2, entries |-> b1] \in Body
          /\ [level |-> 3, entries |-> b2] \in Body
      BY <1>6, <1>8
    <2>2. [level |-> 3, entries |-> <<Line(3, 11, 1, TRUE)>>] \in Body
      BY <1>1, <1>4, <1>6
    <2>3. [level |-> 4, entries |-> <<Line(4, 4, 1, TRUE)>> \o b1] \in Body
      BY <1>1, <1>4, <1>5, <1>6, <1>8
    <2> QED BY <1>9, <2>1, <2>2, <2>3 DEF ScaffoldModuleLayout, Layout, b1, b2, b4
  <1>11. ScaffoldTemplateLayout \in Layout
    <2>1. /\ [level |-> 0, entries |-> b1] \in Body /\ [level |-> 1, entries |-> b4] \in Body
          /\ [level |-> 2, entries |-> b1] \in Body
      BY <1>6, <1>8
    <2>2. /\ [level |-> 3, entries |-> <<Line(3, 8, 1, FALSE), Line(3, 6, 3, FALSE)>>] \in Body
          /\ [level |-> 3, entries |-> <<Line(3, 11, 1, FALSE)>>] \in Body
      BY <1>1, <1>3, <1>4, <1>6
    <2>3. [level |-> 2, entries |-> <<Line(2, 6, 1, FALSE)>> \o b1] \in Body
      BY <1>1, <1>4, <1>5, <1>6, <1>8
    <2> QED BY <1>9, <2>1, <2>2, <2>3 DEF ScaffoldTemplateLayout, Layout, b1, b2, b4
  <1> QED BY <1>10, <1>11, ScaffoldsAssumption DEF Scaffolds, Texts

(* A file is good when the parser of its kind accepts it. *)
LEMMA GoodParses ==
  ASSUME NEW path, NEW text \in Texts
  PROVE  Parses(path, text) <=> Good(path, text)
  <1>1. text.tree \in Trees
    BY DEF Texts
  <1>2. CASE path.ext = "gmod"
    BY <1>1, <1>2, GoodModuleParses DEF Parses, Good
  <1>3. CASE path.ext = "gtpl"
    BY <1>1, <1>3, GoodTemplateParses DEF Parses, Good
  <1>4. CASE path.ext \notin {"gmod", "gtpl"}
    BY <1>4 DEF Parses, Good
  <1> QED BY <1>2, <1>3, <1>4

(* A command reads the next file of its list. *)
LEMMA ReadNext ==
  ASSUME Positions, disk \in [Paths -> Found], NEW name \in {"validate", "lint", "fmt"}, Reads(name)
  PROVE  /\ command.name = name /\ phase = "read"
         /\ at \in DOMAIN command.files /\ at <= Len(command.files) /\ File \in Paths /\ disk[File] \in Found
         /\ Len(seen) = at - 1 /\ DOMAIN seen = 1..(at - 1)
         /\ seen' \in Seq(Found) /\ Len(seen') = at /\ DOMAIN seen' = 1..at
         /\ \A k \in 1..(at - 1) : seen'[k] = seen[k]
         /\ seen'[at] = disk[File]
  <1>1. /\ command.name = name /\ phase = "read" /\ ~AtEnd /\ seen' = Append(seen, disk[File])
    BY DEF Reads
  <1>2. command.files \in Seq(Paths) /\ at \in 1..(Len(command.files) + 1)
    BY DEF Positions, Commands
  <1>3. at \in DOMAIN command.files /\ at <= Len(command.files) /\ File \in Paths
    BY <1>1, <1>2 DEF AtEnd, File
  <1>4. disk[File] \in Found
    BY <1>3
  <1>5. seen \in Seq(Found) /\ Len(seen) = at - 1
    BY <1>1 DEF Positions
  <1> QED BY <1>1, <1>2, <1>3, <1>4, <1>5

(* The new text decides whether the command has more to complain of. *)
LEMMA TallyRead ==
  ASSUME CommandInv, disk \in [Paths -> Found], NEW name \in {"validate", "lint", "fmt"}, Reads(name),
         UNCHANGED command, Failed' <=> Failed \/ ~Passes(command, File, disk[File])
  PROVE  Tallied'
  <1>1. /\ DOMAIN seen = 1..(at - 1) /\ DOMAIN seen' = 1..at /\ at \in Nat /\ at >= 1
        /\ \A k \in 1..(at - 1) : seen'[k] = seen[k]
        /\ seen'[at] = disk[File] /\ phase = "read"
    BY ReadNext DEF CommandInv, Positions
  <1>3. \A k : k \in 1..at <=> k \in 1..(at - 1) \/ k = at
    BY <1>1
  <1>4. File = command.files[at]
    BY DEF File
  <1>5. Failed <=> \E k \in 1..(at - 1) : ~Passes(command, command.files[k], seen[k])
    BY <1>1 DEF CommandInv, Tallied
  <1>6. Failed' <=> \E k \in 1..at : ~Passes(command, command.files[k], seen'[k])
    BY <1>1, <1>3, <1>4, <1>5
  <1> QED BY <1>1, <1>6 DEF Tallied

(* What a command makes of one file is what the text deserves. *)
LEMMA Judged ==
  ASSUME NEW c \in Commands, NEW path \in Paths, NEW found \in Found
  PROVE  /\ c.name = "validate" =>
              (Passes(c, path, found) <=> Readable(found) /\ Parses(path, found))
         /\ c.name = "lint" =>
              LET parses == Readable(found) /\ Accepted(ModuleOf[found.tree])
                  warns  == parses /\ Warnings[found.tree] # {}
              IN  Passes(c, path, found) <=> parses /\ (c.strict => ~warns)
         /\ c.name = "fmt" =>
              (Passes(c, path, found) <=> Formats(found) /\ (c.check => FormatText(found) = found))
  <1>1. Readable(found) <=> found \in Texts
    BY FoundIsText
  <1>2. found \in Texts => found.tree \in Trees
    BY DEF Texts
  <1>3. CASE c.name = "validate"
    BY <1>1, <1>3, GoodParses DEF Passes
  <1>4. CASE c.name = "lint"
    <2>1. CASE found \in Texts
      <3>1. Accepted(ModuleOf[found.tree]) <=> GoodModule(Source(found.tree))
        BY <1>2, <2>1, GoodModuleParses
      <3>2. GoodModule(Source(found.tree)) =>
              (Warnings[found.tree] = {} <=> Clean(Source(found.tree)))
        BY <1>2, <2>1, CleanIsSilent
      <3>3. Passes(c, path, found) <=> /\ GoodModule(Source(found.tree))
                                       /\ c.strict => Clean(Source(found.tree))
        BY <1>1, <1>4, <2>1 DEF Passes
      <3> QED BY <1>1, <1>4, <2>1, <3>1, <3>2, <3>3
    <2>2. CASE found \notin Texts
      BY <1>1, <1>4, <2>2 DEF Passes
    <2> QED BY <2>1, <2>2
  <1>5. CASE c.name = "fmt"
    <2>1. CASE found \in Texts
      BY <1>1, <1>5, <2>1, FormattedText DEF Passes, Formats
    <2>2. CASE found \notin Texts
      BY <1>1, <1>5, <2>2 DEF Passes, Formats
    <2> QED BY <2>1, <2>2
  <1> QED BY <1>3, <1>4, <1>5

(* A file is read and the command goes on with the next one. *)
LEMMA ReadAndProceed ==
  ASSUME CommandInv, disk \in [Paths -> Found], NEW name \in {"validate", "lint", "fmt"}, Reads(name),
         Proceed, Failed' <=> Failed \/ ~Passes(command, File, disk[File])
  PROVE  CommandInv'
  <1>1. /\ command.name = name /\ phase = "read" /\ at <= Len(command.files)
        /\ seen' \in Seq(Found) /\ Len(seen') = at
    BY ReadNext DEF CommandInv
  <1>2. at' = at + 1 /\ phase' = "read" /\ UNCHANGED <<command, held, exit>>
    BY DEF Proceed
  <1>3. exit = "none" /\ command \in Commands /\ Len(command.files) \in Nat
    BY <1>1 DEF CommandInv, Positions, Commands
  <1>4. Positions'
    BY <1>1, <1>2, <1>3 DEF CommandInv, Positions, Phases
  <1>5. Changing'
    BY <1>2 DEF Changing
  <1>6. Tallied'
    BY <1>2, TallyRead
  <1>7. ExitTellsTruth'
    BY <1>2, <1>3 DEF ExitTellsTruth
  <1> QED BY <1>4, <1>5, <1>6, <1>7 DEF CommandInv

(* Every step of a command keeps its count of what it met.                 *)
LEMMA CommandStays ==
  ASSUME CommandInv, disk \in [Paths -> Found], CommandStep \/ WriteError \/ Kill
  PROVE  CommandInv'
  <1>1. /\ Positions /\ Changing /\ Tallied /\ ExitTellsTruth
        /\ command \in Commands /\ command.files \in Seq(Paths) /\ Len(command.files) \in Nat
        /\ at \in 1..(Len(command.files) + 1)
    BY DEF CommandInv, Positions, Commands
  <1>2. CASE ValidateFile
    <2>1. Reads("validate") /\ Proceed
      BY <1>2 DEF ValidateFile
    <2>2. command.name = "validate" /\ File \in Paths /\ disk[File] \in Found
      BY <1>1, <2>1, ReadNext
    <2>3. Failed' <=> Failed \/ ~Passes(command, File, disk[File])
      <3>1. Passes(command, File, disk[File]) <=> Readable(disk[File]) /\ Parses(File, disk[File])
        BY <1>1, <2>2, Judged
      <3> QED BY <1>2, <2>1, <3>1 DEF ValidateFile, Failed, Proceed
    <2> QED BY <2>1, <2>3, ReadAndProceed
  <1>3. CASE LintFile
    <2> DEFINE parses == Readable(disk[File]) /\ Accepted(ModuleOf[disk[File].tree])
               warns  == parses /\ Warnings[disk[File].tree] # {}
    <2>1. Reads("lint") /\ Proceed
      BY <1>3 DEF LintFile
    <2>2. command.name = "lint" /\ File \in Paths /\ disk[File] \in Found
      BY <1>1, <2>1, ReadNext
    <2>3. Failed' <=> Failed \/ ~Passes(command, File, disk[File])
      <3>1. Passes(command, File, disk[File]) <=> parses /\ (command.strict => ~warns)
        BY <1>1, <2>2, Judged
      <3>2. /\ hasError' = (hasError \/ ~parses) /\ hasWarning' = (hasWarning \/ warns)
            /\ UNCHANGED <<anyChanged, command>>
        BY <1>3, <2>1 DEF LintFile, Proceed
      <3> HIDE DEF parses, warns
      <3> QED BY <3>1, <3>2 DEF Failed
    <2> QED BY <2>1, <2>3, ReadAndProceed
  <1>4. CASE CannotFormat
    <2>1. Reads("fmt") /\ ~Formats(disk[File]) /\ Exit("failure")
      BY <1>4 DEF CannotFormat
    <2>2. /\ command.name = "fmt" /\ at \in DOMAIN command.files /\ at <= Len(command.files)
          /\ File \in Paths /\ disk[File] \in Found
          /\ seen' \in Seq(Found) /\ Len(seen') = at /\ DOMAIN seen' = 1..at /\ seen'[at] = disk[File]
      BY <1>1, <2>1, ReadNext
    <2>3. phase' = "ended" /\ exit' = "failure" /\ UNCHANGED <<command, at, held>>
      BY <2>1 DEF Exit
    <2>4. ~Passes(command, command.files[at], disk[File])
      BY <1>1, <2>1, <2>2, Judged DEF File
    <2>5. Positions'
      BY <1>1, <2>2, <2>3 DEF Positions, Phases
    <2>6. ExitTellsTruth'
      BY <1>1, <2>2, <2>3, <2>4 DEF ExitTellsTruth
    <2> QED BY <2>3, <2>5, <2>6 DEF CommandInv, Changing, Tallied
  <1>5. CASE IsCanonical
    <2>1. /\ Reads("fmt") /\ Formats(disk[File]) /\ FormatText(disk[File]) = disk[File]
          /\ UNCHANGED tally /\ Proceed
      BY <1>5 DEF IsCanonical
    <2>2. command.name = "fmt" /\ File \in Paths /\ disk[File] \in Found
      BY <1>1, <2>1, ReadNext
    <2>3. Failed' <=> Failed \/ ~Passes(command, File, disk[File])
      <3>1. Passes(command, File, disk[File])
        BY <1>1, <2>1, <2>2, Judged
      <3> QED BY <2>1, <3>1 DEF Failed, Proceed, tally
    <2> QED BY <2>1, <2>3, ReadAndProceed
  <1>6. CASE WouldChange
    <2>1. /\ Reads("fmt") /\ command.check /\ FormatText(disk[File]) # disk[File]
          /\ anyChanged' = TRUE /\ Proceed
      BY <1>6 DEF WouldChange
    <2>2. command.name = "fmt" /\ File \in Paths /\ disk[File] \in Found
      BY <1>1, <2>1, ReadNext
    <2>3. Failed' <=> Failed \/ ~Passes(command, File, disk[File])
      <3>1. ~Passes(command, File, disk[File])
        BY <1>1, <2>1, <2>2, Judged
      <3> QED BY <2>1, <3>1 DEF Failed, Proceed
    <2> QED BY <2>1, <2>3, ReadAndProceed
  <1>7. CASE Changes
    <2>1. /\ Reads("fmt") /\ ~command.check /\ Formats(disk[File]) /\ FormatText(disk[File]) # disk[File]
          /\ held' = FormatText(disk[File]) /\ phase' = "open"
          /\ UNCHANGED <<command, at, hasError, hasWarning, exit>>
      BY <1>7 DEF Changes
    <2>2. /\ command.name = "fmt" /\ phase = "read" /\ File \in Paths /\ disk[File] \in Found
          /\ at <= Len(command.files)
          /\ seen' \in Seq(Found) /\ Len(seen') = at /\ seen'[at] = disk[File]
      BY <1>1, <2>1, ReadNext
    <2>3. disk[File] \in Texts
      BY <2>1, <2>2, FoundIsText DEF Formats
    <2>4. FormatText(disk[File]) \in Texts /\ ~CanonicalText(disk[File])
      BY <2>1, <2>3, FormattedText
    <2>5. Positions'
      BY <1>1, <2>1, <2>2, <2>4 DEF Positions, Phases
    <2>6. Changing'
      BY <2>1, <2>2, <2>3, <2>4 DEF Changing
    <2>7. Tallied'
      <3>1. Passes(command, File, disk[File])
        BY <1>1, <2>1, <2>2, Judged
      <3>2. Failed' <=> Failed
        BY <2>1 DEF Failed
      <3> QED BY <2>1, <3>1, <3>2, TallyRead
    <2>8. ExitTellsTruth'
      BY <1>1, <2>1, <2>2 DEF ExitTellsTruth, Positions
    <2> QED BY <2>5, <2>6, <2>7, <2>8 DEF CommandInv
  <1>8. CASE OpenFile
    <2>1. phase = "open" /\ phase' = "write" /\ UNCHANGED <<command, at, held, tally, exit, seen>>
      BY <1>8 DEF OpenFile
    <2> QED BY <1>1, <2>1 DEF CommandInv, Positions, Changing, Tallied, Failed, ExitTellsTruth, tally, Phases
  <1>9. CASE WriteFile
    <2>1. /\ phase = "write" /\ phase' = "read" /\ at' = at + 1
          /\ UNCHANGED <<command, held, tally, exit, seen>>
      BY <1>9 DEF WriteFile, Proceed
    <2>2. Positions'
      BY <1>1, <2>1 DEF Positions, Changing, Phases
    <2> QED BY <1>1, <2>1, <2>2 DEF CommandInv, Positions, Changing, Tallied, Failed, ExitTellsTruth, tally
  <1>10. CASE EndCommand
    <2>1. /\ phase = "read" /\ AtEnd /\ phase' = "ended"
          /\ exit' = (IF Failed THEN "failure" ELSE "success")
          /\ UNCHANGED <<command, at, held, seen>>
      BY <1>10 DEF EndCommand, Failed, Exit
    <2>2. at = Len(command.files) + 1
      BY <1>1, <2>1 DEF AtEnd
    <2>3. Positions'
      BY <1>1, <2>1, <2>2 DEF Positions, Phases
    <2>4. Failed <=> \E k \in DOMAIN seen : ~Passes(command, command.files[k], seen[k])
      BY <1>1, <2>1 DEF Tallied
    <2>5. command.name # "init" => Len(seen) = Len(command.files)
      BY <1>1, <2>1, <2>2 DEF Positions
    <2>6. ExitTellsTruth'
      BY <2>1, <2>4, <2>5 DEF ExitTellsTruth
    <2> QED BY <2>1, <2>3, <2>6 DEF CommandInv, Changing, Tallied
  <1>11. CASE WriteError
    <2>1. /\ "io" \in Faults /\ phase \in {"open", "write"} /\ phase' = "ended" /\ exit' = "failure"
          /\ UNCHANGED <<command, at, held, seen>>
      BY <1>11 DEF WriteError, Exit
    <2>2. at <= Len(command.files)
      BY <1>1, <2>1 DEF Positions
    <2>3. command.name # "init" => Readable(seen[at]) /\ ~CanonicalText(seen[at])
      <3>1. \A f \in Texts : Readable(f)
        BY FoundIsText DEF Found
      <3> QED BY <1>1, <2>1, <3>1 DEF Changing
    <2>4. Positions'
      BY <1>1, <2>1 DEF Positions, Phases
    <2>5. ExitTellsTruth'
      BY <2>1, <2>2, <2>3 DEF ExitTellsTruth
    <2> QED BY <2>1, <2>4, <2>5 DEF CommandInv, Changing, Tallied
  <1>12. CASE Kill
    <2>1. phase # "ended" /\ phase' = "ended" /\ UNCHANGED <<command, at, held, exit, seen>>
      BY <1>12 DEF Kill
    <2>2. exit = "none"
      BY <1>1, <2>1 DEF Positions
    <2>3. Positions'
      BY <1>1, <2>1, <2>2 DEF Positions, Phases
    <2> QED BY <2>1, <2>2, <2>3 DEF CommandInv, Changing, Tallied, ExitTellsTruth
  <1> QED BY <1>2, <1>3, <1>4, <1>5, <1>6, <1>7, <1>8, <1>9, <1>10, <1>11, <1>12 DEF CommandStep

(* The editor and the server leave it alone. *)
LEMMA CommandUnmoved ==
  ASSUME CommandInv, UNCHANGED commandVars
  PROVE  CommandInv'
  <1>1. UNCHANGED <<command, at, phase, held, hasError, hasWarning, anyChanged, exit, seen>>
    BY DEF commandVars, tally
  <1> QED BY <1>1 DEF CommandInv, Positions, Changing, Tallied, Failed, ExitTellsTruth

LEMMA CommandStart ==
  ASSUME Init
  PROVE  CommandInv
  <1>1. command \in Commands
    BY WorldsAssumption DEF Init
  <1>2. /\ at = 1 /\ exit = "none" /\ seen = <<>> /\ ~hasError /\ ~hasWarning /\ ~anyChanged
        /\ held = IF command.name = "init" THEN Scaffolds[command.kind] ELSE EmptyText
    BY DEF Init, CommandInit
  <1>3. /\ command.name = "none" => phase = "ended"
        /\ command.name = "init" => phase = "open"
        /\ command.name \notin {"none", "init"} => phase = "read"
    BY DEF Init, CommandInit
  <1>4. /\ command.kind \in {"gmod", "gtpl"} /\ Len(command.files) \in Nat
        /\ command.name = "init" => Len(command.files) = 1
    BY <1>1 DEF Commands
  <1>5. held \in Texts
    BY <1>2, <1>4, FoundIsText, ScaffoldsAreTexts
  <1>6. Positions
    <2>1. seen \in Seq(Found) /\ Len(seen) = 0 /\ Len(seen) = at - 1 /\ Len(seen) <= Len(command.files)
      BY <1>2, <1>4
    <2>2. at \in 1..(Len(command.files) + 1) /\ (command.name = "init" => at <= Len(command.files))
      <3> DEFINE n == Len(command.files)
      <3>1. n \in Nat /\ at = 1 /\ (command.name = "init" => n = 1)
        BY <1>2, <1>4
      <3> HIDE DEF n
      <3>2. at \in 1..(n + 1) /\ (command.name = "init" => at <= n)
        BY <3>1
      <3> QED BY <3>2 DEF n
    <2>3. phase \in Phases /\ (phase \in {"open", "write"} => command.name = "init")
      BY <1>3 DEF Phases
    <2>4. (phase = "read" => command.name # "init") /\ (command.name = "none" => phase = "ended")
      BY <1>3
    <2> QED BY <1>1, <1>2, <1>5, <2>1, <2>2, <2>3, <2>4 DEF Positions
  <1>7. Changing
    BY <1>3 DEF Changing
  <1>8. Tallied /\ ExitTellsTruth
    BY <1>2 DEF Tallied, Failed, ExitTellsTruth
  <1> QED BY <1>6, <1>7, <1>8 DEF CommandInv

----------------------------------------------------------------------------
(* The scaffolds are canonical: bodies of blocks, of one line, perhaps     *)
(* before a block, and of two lines whose = are in one column.             *)
LEMMA BlocksCanonical ==
  ASSUME NEW level, NEW blanks \in Seq({0, 1})
  PROVE  Canonical([level |-> level, entries |-> Blocks(blanks)])
  <1> DEFINE body    == [level |-> level, entries |-> Blocks(blanks)]
             entries == Blocks(blanks)
  <1>1. DOMAIN entries = 1..Len(blanks) /\ Len(blanks) \in Nat
    BY DEF Blocks
  <1>2. \A k \in DOMAIN entries : entries[k].kind = "block" /\ entries[k].blank \in {0, 1}
    BY DEF Blocks
  <1>3. entries \in Seq({[kind |-> "block", blank |-> x] : x \in {0, 1}})
    BY DEF Blocks
  <1>4. Len(entries) = Len(blanks)
    BY <1>1, <1>3
  <1> HIDE DEF entries
  <1>5. AlignedPairs(entries)
    BY <1>1, <1>2, <1>4 DEF AlignedPairs, Aligns
  <1>6. Tight(entries)
    BY <1>2 DEF Tight
  <1>7. body.entries = entries
    BY DEF entries
  <1> QED BY <1>2, <1>5, <1>6, <1>7 DEF Canonical

LEMMA LineCanonical ==
  ASSUME NEW level \in Nat, NEW key \in Nat, NEW multi \in BOOLEAN,
         NEW entries, entries \in {<<Line(level, key, 1, multi)>>,
                                   <<Line(level, key, 1, multi)>> \o Blocks(<< 0 >>)}
  PROVE  Canonical([level |-> level, entries |-> entries])
  <1> DEFINE body == [level |-> level, entries |-> entries]
             n    == Len(entries)
             line == Line(level, key, 1, multi)
             block == [kind |-> "block", blank |-> 0]
  <1>1. \/ entries = <<line>>
        \/ entries = <<line, block>>
    <2>1. Blocks(<<0>>) = <<block>>
      BY DEF Blocks
    <2> HIDE DEF line, block
    <2>2. <<line>> \o <<block>> = <<line, block>>
      <3> DEFINE S == {line, block}
                 s == <<line>> \o <<block>>
      <3>1. <<line>> \in Seq(S) /\ <<block>> \in Seq(S)
        OBVIOUS
      <3>2. s \in Seq(S) /\ Len(s) = 2 /\ s[1] = line /\ s[2] = block
        BY <3>1
      <3>3. <<line, block>> \in Seq(S) /\ Len(<<line, block>>) = 2
        OBVIOUS
      <3> HIDE DEF s, S
      <3>4. s = <<line, block>>
        BY <3>2, <3>3
      <3> QED BY <3>4 DEF s
    <2> QED BY <2>1, <2>2 DEF line
  <1>2. /\ DOMAIN entries = 1..n /\ n \in {1, 2}
        /\ entries[1] = line /\ (n = 2 => entries[2] = block)
    <2> HIDE DEF line, block
    <2> QED BY <1>1
  <1>3. /\ line.kind = "attribute" /\ line.pad = 1 /\ line.indent = 2 * level
        /\ line.inline = "none" /\ ~line.beside /\ line.after = 1 /\ line.blank = 0
    BY DEF Line
  <1>4. block.kind = "block" /\ block.blank = 0
    OBVIOUS
  <1> HIDE DEF line, block, n
  <1>5. AlignedPairs(entries)
    <2>1. \A k \in 2..n : k = 2 /\ n = 2
      BY <1>2
    <2> QED BY <1>2, <1>4, <2>1 DEF AlignedPairs, Aligns, n
  <1>6. Tight(entries)
    BY <1>2, <1>3, <1>4 DEF Tight
  <1>7. body.entries = entries /\ body.level = level
    OBVIOUS
  <1> HIDE DEF body
  <1>8. \A k \in DOMAIN entries : k = 1 \/ (k = 2 /\ entries[k] = block)
    <2>1. \A k \in 1..n : k = 1 \/ (k = 2 /\ n = 2)
      BY <1>2
    <2> QED BY <1>2, <2>1
  <1>9. Canonical(body)
    BY <1>2, <1>3, <1>4, <1>5, <1>6, <1>7, <1>8 DEF Canonical
  <1> QED BY <1>9 DEF body

LEMMA TwoLinesCanonical ==
  ASSUME NEW level \in Nat, NEW long \in Nat, NEW short \in Nat, NEW pad \in Nat,
         short + pad = long + 1, pad >= 1
  PROVE  Canonical([level |-> level,
                    entries |-> <<Line(level, long, 1, FALSE), Line(level, short, pad, FALSE)>>])
  <1> DEFINE one  == Line(level, long, 1, FALSE)
             two  == Line(level, short, pad, FALSE)
             entries == <<one, two>>
             body == [level |-> level, entries |-> entries]
  <1>1. /\ one.kind = "attribute" /\ one.key = long /\ one.pad = 1 /\ one.multi = FALSE
        /\ one.indent = 2 * level /\ one.inline = "none" /\ ~one.beside /\ one.after = 1 /\ one.blank = 0
    BY DEF Line
  <1>2. /\ two.kind = "attribute" /\ two.key = short /\ two.pad = pad /\ two.multi = FALSE
        /\ two.indent = 2 * level /\ two.inline = "none" /\ ~two.beside /\ two.after = 1 /\ two.blank = 0
    BY DEF Line
  <1> HIDE DEF one, two
  <1>3. entries[1] = one /\ entries[2] = two /\ DOMAIN entries = 1..2 /\ Len(entries) = 2
    OBVIOUS
  <1>4. body.entries = entries /\ body.level = level
    OBVIOUS
  <1> HIDE DEF entries, body
  <1>5. OneRun(entries, 1, 2)
    BY <1>1, <1>2, <1>3 DEF OneRun, Aligns, Follows
  <1>6. AlignedPairs(entries)
    BY <1>1, <1>2, <1>3 DEF AlignedPairs
  <1>7. Tight(entries)
    BY <1>1, <1>2, <1>3, <1>5 DEF Tight
  <1>8. \A k \in DOMAIN entries : entries[k] = one \/ entries[k] = two
    BY <1>3
  <1>9. Canonical(body)
    BY <1>1, <1>2, <1>3, <1>4, <1>6, <1>7, <1>8 DEF Canonical
  <1> QED BY <1>9 DEF body, entries, one, two

(* What init writes is canonical. *)
LEMMA ScaffoldsCanonical ==
  CanonicalText(Scaffolds["gmod"]) /\ CanonicalText(Scaffolds["gtpl"])
  <1>1. <<0>> \in Seq({0, 1}) /\ <<0, 0>> \in Seq({0, 1}) /\ <<0, 1, 1, 1>> \in Seq({0, 1})
    OBVIOUS
  <1>2. \A level : /\ Canonical([level |-> level, entries |-> Blocks(<<0>>)])
                   /\ Canonical([level |-> level, entries |-> Blocks(<<0, 0>>)])
                   /\ Canonical([level |-> level, entries |-> Blocks(<<0, 1, 1, 1>>)])
    BY <1>1, BlocksCanonical
  <1>3. Canonical(AboutLayout)
    <2>1. 7 + 5 = 11 + 1 /\ 5 >= 1
      OBVIOUS
    <2> QED BY <2>1, TwoLinesCanonical DEF AboutLayout
  <1>4. Canonical([level |-> 3, entries |-> <<Line(3, 8, 1, FALSE), Line(3, 6, 3, FALSE)>>])
    <2>1. 6 + 3 = 8 + 1 /\ 3 >= 1
      OBVIOUS
    <2> QED BY <2>1, TwoLinesCanonical
  <1>5. /\ Canonical([level |-> 3, entries |-> <<Line(3, 11, 1, TRUE)>>])
        /\ Canonical([level |-> 3, entries |-> <<Line(3, 11, 1, FALSE)>>])
        /\ Canonical([level |-> 4, entries |-> <<Line(4, 4, 1, TRUE)>> \o Blocks(<<0>>)])
        /\ Canonical([level |-> 2, entries |-> <<Line(2, 6, 1, FALSE)>> \o Blocks(<<0>>)])
    BY LineCanonical
  <1>6. \A b \in DOMAIN ScaffoldModuleLayout : Canonical(ScaffoldModuleLayout[b])
    <2> DEFINE b1 == [level |-> 0, entries |-> Blocks(<<0>>)]
               b2 == [level |-> 1, entries |-> Blocks(<<0, 1, 1, 1>>)]
               b4 == [level |-> 2, entries |-> Blocks(<<0, 0>>)]
               b5 == [level |-> 3, entries |-> <<Line(3, 11, 1, TRUE)>>]
               b6 == [level |-> 2, entries |-> Blocks(<<0>>)]
               b7 == [level |-> 3, entries |-> Blocks(<<0, 0>>)]
               b8 == [level |-> 4, entries |-> <<Line(4, 4, 1, TRUE)>> \o Blocks(<<0>>)]
    <2>1. /\ Canonical(b1) /\ Canonical(b2) /\ Canonical(b4) /\ Canonical(b5)
          /\ Canonical(b6) /\ Canonical(b7) /\ Canonical(b8)
      BY <1>2, <1>5
    <2>2. ScaffoldModuleLayout = <<b1, b2, AboutLayout, b4, b5, b6, b7, b8, b8>>
      BY DEF ScaffoldModuleLayout
    <2> HIDE DEF b1, b2, b4, b5, b6, b7, b8
    <2> QED BY <1>3, <2>1, <2>2
  <1>7. \A b \in DOMAIN ScaffoldTemplateLayout : Canonical(ScaffoldTemplateLayout[b])
    <2> DEFINE b1 == [level |-> 0, entries |-> Blocks(<<0>>)]
               b2 == [level |-> 1, entries |-> Blocks(<<0, 1, 1, 1>>)]
               b4 == [level |-> 2, entries |-> Blocks(<<0>>)]
               b5 == [level |-> 3, entries |-> <<Line(3, 8, 1, FALSE), Line(3, 6, 3, FALSE)>>]
               b6 == [level |-> 2, entries |-> <<Line(2, 6, 1, FALSE)>> \o Blocks(<<0>>)]
               b7 == [level |-> 3, entries |-> <<Line(3, 11, 1, FALSE)>>]
    <2>1. /\ Canonical(b1) /\ Canonical(b2) /\ Canonical(b4) /\ Canonical(b5)
          /\ Canonical(b6) /\ Canonical(b7)
      BY <1>2, <1>4, <1>5
    <2>2. ScaffoldTemplateLayout = <<b1, b2, AboutLayout, b4, b5, b6, b7>>
      BY DEF ScaffoldTemplateLayout
    <2> HIDE DEF b1, b2, b4, b5, b6, b7
    <2> QED BY <1>3, <2>1, <2>2
  <1> QED BY <1>6, <1>7 DEF Scaffolds, CanonicalText

(* What init writes passes the parser of its kind. *)
LEMMA ScaffoldsGood ==
  ASSUME NEW path \in Paths, NEW kind \in {"gmod", "gtpl"}
  PROVE  Good([path EXCEPT !.ext = kind], Scaffolds[kind])
  <1>1. [path EXCEPT !.ext = kind].ext = kind
    BY PathsAssumption
  <1>2. GoodModule(ScaffoldModule)
    <2> DEFINE metadata   == About
               interface  == ScaffoldModule.blocks[1].blocks[2]
               validation == Section("validation", <<>>)
               arms     == ScaffoldModule.blocks[1].blocks[4].blocks[1].blocks
               cases    == <<Written("case", <<<<Bare, "provider">>>>, NoAttributes, arms)>>
               generate == Section("generate", cases)
               sections == <<metadata, interface, validation, generate>>
               module   == Written("module", <<"my_module">>, NoAttributes, sections)
    <2>1. ScaffoldModule = [hcl |-> TRUE, blocks |-> <<module>>]
      BY DEF ScaffoldModule, Written, Section
    <2>2. interface.ident = "interface"
      BY DEF ScaffoldModule, Section, Written
    <2> HIDE DEF arms, interface
    <2>3. /\ metadata.ident = "metadata" /\ validation.ident = "validation"
          /\ generate.ident = "generate" /\ generate.blocks = cases
      BY DEF About, Section, Written
    <2> HIDE DEF metadata, validation, generate
    <2>4. /\ module.ident = "module" /\ module.labels = <<"my_module">> /\ module.blocks = sections
      BY DEF Written
    <2>5. DOMAIN sections = 1..4 /\ IsList(sections)
      BY DEF IsList
    <2>6. Idents(sections) = {"metadata", "interface", "validation", "generate"}
      BY <2>2, <2>3, <2>5 DEF Idents, Range
    <2>7. First(sections, "generate") \in Range(sections) /\ First(sections, "generate").ident = "generate"
      BY <2>5, <2>6, FirstIsLeast
    <2>8. First(sections, "generate") = generate
      BY <2>2, <2>3, <2>5, <2>7 DEF Range
    <2>9. \A b \in Range(InFirst(sections, "generate")) : b.ident = "case" => b.labels # <<>>
      BY <2>3, <2>8 DEF InFirst, Range, Written
    <2> HIDE DEF module, sections
    <2>10. Idents(<<module>>) = {"module"} /\ <<module>>[Len(<<module>>)] = module
      BY <2>4 DEF Idents, Range
    <2> QED BY <2>1, <2>4, <2>6, <2>9, <2>10 DEF GoodModule
  <1>3. GoodTemplate(ScaffoldTemplate)
    <2> DEFINE parameters == ScaffoldTemplate.blocks[1].blocks[2]
               resource   == ScaffoldTemplate.blocks[1].blocks[3]
               outputs    == Section("outputs", <<>>)
               sections   == <<About, parameters, resource, outputs>>
               template   == Written("template", <<"my_template">>, NoAttributes, sections)
    <2>1. ScaffoldTemplate = [hcl |-> TRUE, blocks |-> <<template>>]
      BY DEF ScaffoldTemplate, Written, Section
    <2>2. /\ About.ident = "metadata" /\ parameters.ident = "parameters" /\ outputs.ident = "outputs"
          /\ resource.ident = "resource" /\ resource.labels = <<"main">>
      BY DEF ScaffoldTemplate, Section, Written, About
    <2> HIDE DEF parameters, resource, outputs
    <2>3. /\ template.ident = "template" /\ template.labels = <<"my_template">> /\ template.blocks = sections
      BY DEF Written
    <2>4. {"metadata", "parameters", "outputs"} \subseteq Idents(sections)
      <3>1. DOMAIN sections = 1..4
        OBVIOUS
      <3>2. sections[1] = About /\ sections[2] = parameters /\ sections[4] = outputs
        OBVIOUS
      <3> HIDE DEF sections
      <3>3. {About, parameters, outputs} \subseteq Range(sections)
        BY <3>1, <3>2 DEF Range
      <3> QED BY <2>2, <3>3 DEF Idents
    <2>5. \A b \in Range(sections) : b.ident = "resource" => b.labels # <<>>
      BY <2>2 DEF Range
    <2> HIDE DEF template, sections
    <2>6. IsList(<<template>>) /\ Idents(<<template>>) = {"template"}
      BY <2>3 DEF IsList, Idents, Range
    <2>7. First(<<template>>, "template") \in Range(<<template>>)
      BY <2>6, FirstIsLeast
    <2>8. First(<<template>>, "template") = template
      BY <2>7 DEF Range
    <2> QED BY <2>1, <2>3, <2>4, <2>5, <2>6, <2>8 DEF GoodTemplate
  <1>4. CASE kind = "gmod"
    BY <1>1, <1>2, <1>4, ScaffoldsAreTexts, ScaffoldsAssumption DEF Good
  <1>5. CASE kind = "gtpl"
    BY <1>1, <1>3, <1>5, ScaffoldsAreTexts, ScaffoldsAssumption DEF Good
  <1> QED BY <1>4, <1>5

----------------------------------------------------------------------------
(* The files.  The editor's texts are texts, and so is what it saves.      *)

ServerTyped ==
  /\ root \in {Starting, NoRoot} \cup UNION {Range(folders) : folders \in Roots}
  /\ \A d \in Docs : \A v \in DOMAIN sent[d] : sent[d][v] \in Texts
  /\ Len(publishing) <= Slots
  /\ \A k \in DOMAIN publishing : publishing[k].version \in Nat
  /\ \A d \in Docs : shown[d].version \in Nat

DiskTyped == disk \in [Paths -> Found]

WorkspaceTyped == Truthful /\ ServerTyped /\ DiskTyped /\ CommandInv

(* What the editor has, and what the server has, was sent. *)
LEMMA HadTextIsText ==
  ASSUME ServerTyped, NEW d \in Docs, NEW t, HadText(sent, d, t)
  PROVE  t \in Texts
  BY DEF ServerTyped, HadText

(* A text is sent with a message. *)
LEMMA SentTyped ==
  ASSUME WorkspaceTyped, NEW message, Send(message), NEW d \in Docs,
         \/ UNCHANGED sent
         \/ \E t \in Texts : sent' = [sent EXCEPT ![d] = Append(@, t)]
  PROVE  ServerTyped'
  <1>1. UNCHANGED <<root, publishing, shown>>
    BY DEF Send, server, received
  <1>2. ASSUME NEW c \in Docs, NEW v \in DOMAIN sent'[c]
        PROVE  sent'[c][v] \in Texts
    <2>1. CASE UNCHANGED sent
      BY <1>2, <2>1 DEF WorkspaceTyped, ServerTyped
    <2>2. CASE \E t \in Texts : sent' = [sent EXCEPT ![d] = Append(@, t)]
      <3>1. PICK t \in Texts : sent' = [sent EXCEPT ![d] = Append(@, t)]
        BY <2>2
      <3>2. /\ sent'[d] = Append(sent[d], t) /\ IsSequence(sent[d])
            /\ \A b \in Docs : b # d => sent'[b] = sent[b]
        BY <3>1 DEF WorkspaceTyped, Truthful, Shapes
      <3>3. CASE c # d
        BY <1>2, <3>2, <3>3 DEF WorkspaceTyped, ServerTyped
      <3>4. CASE c = d
        <4>1. v \in 1..(Len(sent[d]) + 1) /\ DOMAIN sent[d] = 1..Len(sent[d]) /\ Len(sent[d]) \in Nat
          BY <1>2, <3>2, <3>4, Appended
        <4>2. CASE v \in 1..Len(sent[d])
          BY <3>2, <3>4, <4>1, <4>2, Appended DEF WorkspaceTyped, ServerTyped
        <4>3. CASE v = Len(sent[d]) + 1
          BY <3>2, <3>4, <4>3, Appended
        <4> QED BY <4>1, <4>2, <4>3
      <3> QED BY <3>3, <3>4
    <2> QED BY <2>1, <2>2
  <1> QED BY <1>1, <1>2 DEF WorkspaceTyped, ServerTyped

(* The file d is saved with a text of the editor. *)
Saves(d) ==
  /\ buffer[d] \in Texts
  /\ disk' = [disk EXCEPT ![d] = buffer[d]]
  /\ saved' = saved \cup {d}

(* The editor keeps to texts, and touches the disk only to save.           *)
LEMMA EditorTyped ==
  ASSUME WorkspaceTyped, EditorStep
  PROVE  /\ ServerTyped'
         /\ UNCHANGED <<disk, saved>> \/ \E d \in Docs : Saves(d)
  <1>1. PICK d \in Docs :
          \/ Opens(d) \/ EditNothing(d) \/ Save(d) \/ Closes(d)
          \/ \E t \in Edits : Edit(d, <<t>>) \/ \E u \in Edits : Edit(d, <<u, t>>)
          \/ \E request \in {"completion", "definition", "hover"}, place \in Places :
                Ask(d, request, place)
    BY DEF EditorStep
  <1>2. CASE Opens(d)
    <2>1. disk[d] \in Texts
      <3>1. disk[d] \in Found /\ Readable(disk[d])
        BY <1>2, DocsAssumption DEF Opens, WorkspaceTyped, DiskTyped
      <3> QED BY <3>1, FoundIsText
    <2>2. PICK m : Send(m)
      BY <1>2 DEF Opens
    <2>3. sent' = [sent EXCEPT ![d] = Append(@, disk[d])] /\ UNCHANGED <<disk, saved>>
      BY <1>2 DEF Opens
    <2> QED BY <2>1, <2>2, <2>3, SentTyped
  <1>3. ASSUME NEW texts, Edit(d, texts), Last(texts) \in Edits
        PROVE  ServerTyped' /\ UNCHANGED <<disk, saved>>
    <2>1. PICK m : Send(m)
      BY <1>3 DEF Edit
    <2>2. sent' = [sent EXCEPT ![d] = Append(@, Last(texts))] /\ UNCHANGED <<disk, saved>>
      BY <1>3 DEF Edit
    <2> QED BY <1>3, <2>1, <2>2, EditsAssumption, SentTyped
  <1>4. \A t, u : Last(<<t>>) = t /\ Last(<<u, t>>) = t
    BY DEF Last
  <1>5. CASE EditNothing(d)
    <2>1. PICK m : Send(m)
      BY <1>5 DEF EditNothing
    <2> QED BY <1>5, <2>1, SentTyped DEF EditNothing
  <1>6. CASE Save(d)
    <2>1. PICK m : Send(m)
      BY <1>6 DEF Save
    <2>2. buffer[d] \in Texts
      BY <1>6, HadTextIsText DEF Save, WorkspaceTyped, Truthful, BufferTrue
    <2>3. UNCHANGED sent /\ Saves(d)
      BY <1>6, <2>2 DEF Save, Saves, Replace
    <2> QED BY <2>1, <2>3, SentTyped
  <1>7. CASE Closes(d)
    <2>1. PICK m : Send(m)
      BY <1>7 DEF Closes
    <2> QED BY <1>7, <2>1, SentTyped DEF Closes
  <1>8. ASSUME NEW request, NEW place, Ask(d, request, place)
        PROVE  ServerTyped' /\ UNCHANGED <<disk, saved>>
    <2>1. PICK m : Send(m)
      BY <1>8 DEF Ask
    <2> QED BY <1>8, <2>1, SentTyped DEF Ask
  <1> QED BY <1>1, <1>2, <1>3, <1>4, <1>5, <1>6, <1>7, <1>8

(* A handler may add one notice, of a version or of none. *)
LEMMA ServeTyped ==
  ASSUME WorkspaceTyped, Serve
  PROVE  ServerTyped' /\ UNCHANGED <<disk, saved>>
  <1>1. /\ UNCHANGED <<root, sent, saved, disk>> /\ Len(publishing) < Slots
        /\ UNCHANGED shown
    BY DEF Serve, DidOpen, DidChange, DidSave, DidClose, Completion, GotoDefinition, Hover,
           Start, Reply, editor, received
  <1>2. \/ UNCHANGED publishing
        \/ \E d, version, about : WillPublish(d, version, about) /\ version \in Nat
    <2>1. ASSUME NEW kind, Start(kind), kind = "didOpen" \/ (kind = "didChange" /\ Message.texts # <<>>)
          PROVE  Message.version \in Nat
      <3>1. \E t : HasVersion(sent, Message.doc, Message.version, t)
        BY <2>1, StartStaysTrue DEF WorkspaceTyped, MessageTrue
      <3>2. Message.doc \in Docs /\ IsSequence(sent[Message.doc])
        BY <2>1, StartStaysTrue DEF WorkspaceTyped, Truthful, Shapes
      <3> QED BY <3>1, <3>2, Appended DEF HasVersion
    <2>2. CASE DidOpen
      BY <2>1, <2>2 DEF DidOpen
    <2>3. CASE DidChange
      BY <2>1, <2>3 DEF DidChange
    <2>4. CASE DidSave
      <3>1. 0 \in Nat
        OBVIOUS
      <3> QED BY <2>4, <3>1 DEF DidSave
    <2>5. CASE DidClose
      <3>1. 0 \in Nat
        OBVIOUS
      <3> QED BY <2>5, <3>1 DEF DidClose
    <2>6. CASE Completion \/ GotoDefinition \/ Hover
      BY <2>6 DEF Completion, GotoDefinition, Hover, Reply
    <2> QED BY <2>2, <2>3, <2>4, <2>5, <2>6 DEF Serve
  <1>3. CASE UNCHANGED publishing
    BY <1>1, <1>3 DEF WorkspaceTyped, ServerTyped
  <1>4. CASE \E d, version, about : WillPublish(d, version, about) /\ version \in Nat
    <2>1. PICK d, version, about : WillPublish(d, version, about) /\ version \in Nat
      BY <1>4
    <2> DEFINE n == [doc |-> d, version |-> version, about |-> about]
    <2>2. publishing' = Append(publishing, n) /\ n.version = version
      BY <2>1 DEF WillPublish
    <2> HIDE DEF n
    <2>3. /\ Len(publishing) \in Nat /\ Len(publishing') = Len(publishing) + 1
          /\ DOMAIN publishing = 1..Len(publishing) /\ DOMAIN publishing' = 1..(Len(publishing) + 1)
          /\ \A k \in 1..Len(publishing) : publishing'[k] = publishing[k]
          /\ publishing'[Len(publishing) + 1] = n
      BY <2>2, Appended DEF WorkspaceTyped, Truthful, Shapes
    <2>4. \A k \in DOMAIN publishing' : publishing'[k].version \in Nat
      <3>1. \A k \in 1..(Len(publishing) + 1) : k \in 1..Len(publishing) \/ k = Len(publishing) + 1
        BY <2>3
      <3> QED BY <2>1, <2>2, <2>3, <3>1 DEF WorkspaceTyped, ServerTyped
    <2>5. Len(publishing') <= Slots
      BY <1>1, <2>3, SlotsAssumption
    <2> QED BY <1>1, <2>4, <2>5 DEF WorkspaceTyped, ServerTyped
  <1> QED BY <1>1, <1>2, <1>3, <1>4

LEMMA PublishTyped ==
  ASSUME WorkspaceTyped, NEW k, Publish(k)
  PROVE  ServerTyped' /\ UNCHANGED <<disk, saved>>
  <1>1. /\ k \in DOMAIN publishing /\ publishing' = RemoveAt(publishing, k)
        /\ UNCHANGED <<root, sent, saved, disk>>
        /\ shown' = [shown EXCEPT ![publishing[k].doc] =
                       [version |-> publishing[k].version, about |-> publishing[k].about]]
    BY DEF Publish, editor
  <1>2. /\ IsSequence(publishing) /\ shown = [d \in Docs |-> shown[d]]
        /\ publishing[k].version \in Nat /\ publishing[k].doc \in Docs
    BY <1>1 DEF WorkspaceTyped, ServerTyped, Truthful, Shapes, PublishingTrue
  <1>3. /\ \A i \in DOMAIN RemoveAt(publishing, k) :
              \E j \in DOMAIN publishing : RemoveAt(publishing, k)[i] = publishing[j]
        /\ Len(RemoveAt(publishing, k)) <= Len(publishing)
    BY <1>1, <1>2, Removed
  <1>4. \A i \in DOMAIN publishing' : publishing'[i].version \in Nat
    BY <1>1, <1>3 DEF WorkspaceTyped, ServerTyped
  <1>5. \A d \in Docs : shown'[d].version \in Nat
    <2>1. ASSUME NEW d \in Docs, d # publishing[k].doc PROVE shown'[d] = shown[d]
      BY <1>1, <1>2, <2>1
    <2>2. shown'[publishing[k].doc].version = publishing[k].version
      BY <1>1, <1>2
    <2> QED BY <1>2, <2>1, <2>2 DEF WorkspaceTyped, ServerTyped
  <1>6. Len(publishing') <= Slots
    <2>1. Len(publishing) <= Slots /\ Len(publishing) \in Nat /\ Len(publishing') \in Nat
      BY <1>1, <1>2, Appended, Removed DEF WorkspaceTyped, ServerTyped
    <2> QED BY <1>1, <1>3, <2>1, SlotsAssumption
  <1> QED BY <1>1, <1>4, <1>5, <1>6 DEF WorkspaceTyped, ServerTyped

(* A command writes texts. *)
LEMMA CommandTyped ==
  ASSUME WorkspaceTyped, CommandStep \/ WriteError \/ Kill
  PROVE  DiskTyped'
  <1>1. \A t \in Texts : t \in Found
    BY DEF Found
  <1>2. ASSUME NEW t \in Texts, Replace(File, t)
        PROVE  DiskTyped'
    BY <1>1, <1>2 DEF Replace, WorkspaceTyped, DiskTyped
  <1>3. CASE OpenFile
    BY <1>2, <1>3, FoundIsText DEF OpenFile
  <1>4. CASE WriteFile
    BY <1>2, <1>4 DEF WriteFile, WorkspaceTyped, CommandInv, Positions
  <1>5. CASE UNCHANGED disk
    BY <1>5 DEF WorkspaceTyped, DiskTyped
  <1> QED BY <1>3, <1>4, <1>5 DEF CommandStep, ValidateFile, LintFile, CannotFormat, IsCanonical,
             WouldChange, Changes, EndCommand, WriteError, Kill, Reads

(* What a step does to the files, and who does it. *)
LEMMA WhoSteps ==
  ASSUME WorkspaceTyped, [Next]_vars
  PROVE  \/ /\ UNCHANGED commandVars
            /\ UNCHANGED <<disk, saved>> \/ \E d \in Docs : Saves(d)
         \/ /\ CommandStep \/ WriteError \/ Kill
            /\ UNCHANGED saved
  BY EditorTyped, ServeTyped, PublishTyped
     DEF Next, ServerStep, Initialize, editor, serverVars, vars

LEMMA TypedStep ==
  ASSUME WorkspaceTyped, [Next]_vars
  PROVE  WorkspaceTyped'
  <1>1. Truthful'
    BY TruthfulStep DEF WorkspaceTyped
  <1>2. ServerTyped'
    <2>1. CASE EditorStep
      BY <2>1, EditorTyped
    <2>2. CASE Serve
      BY <2>2, ServeTyped
    <2>3. CASE \E k \in 1..Slots : Publish(k)
      BY <2>3, PublishTyped
    <2>4. CASE \E folders \in Roots : Initialize(folders)
      <3>1. PICK folders \in Roots : Initialize(folders)
        BY <2>4
      <3>2. root' = NoRoot \/ (root' = Head(folders) /\ folders # <<>>)
        BY <3>1 DEF Initialize
      <3>3. folders # <<>> => Head(folders) \in Range(folders)
        BY RootsAssumption DEF Range
      <3> QED BY <3>1, <3>2, <3>3 DEF Initialize, editor, received, WorkspaceTyped, ServerTyped
    <2>5. CASE UNCHANGED serverVars
      BY <2>5 DEF serverVars, server, editor, received, WorkspaceTyped, ServerTyped
    <2>6. CASE UNCHANGED vars
      BY <2>6 DEF vars, serverVars, server, editor, received, WorkspaceTyped, ServerTyped
    <2> QED BY <2>1, <2>2, <2>3, <2>4, <2>5, <2>6 DEF Next, ServerStep
  <1>3. DiskTyped' /\ CommandInv'
    <2>1. CASE UNCHANGED commandVars
      <3>1. CommandInv'
        BY <2>1, CommandUnmoved DEF WorkspaceTyped
      <3>2. UNCHANGED <<disk, saved>> \/ (\E d \in Docs : Saves(d)) \/ CommandStep \/ WriteError \/ Kill
        BY WhoSteps
      <3>3. CASE \E d \in Docs : Saves(d)
        <4>1. PICK d \in Docs : Saves(d)
          BY <3>3
        <4> QED BY <3>1, <4>1, DocsAssumption DEF Saves, WorkspaceTyped, DiskTyped, Found
      <3>4. CASE UNCHANGED disk
        BY <3>1, <3>4 DEF WorkspaceTyped, DiskTyped
      <3>5. CASE CommandStep \/ WriteError \/ Kill
        BY <3>1, <3>5, CommandTyped
      <3> QED BY <3>2, <3>3, <3>4, <3>5
    <2>2. CASE CommandStep \/ WriteError \/ Kill
      BY <2>2, CommandTyped, CommandStays DEF WorkspaceTyped, DiskTyped
    <2> QED BY <2>1, <2>2, WhoSteps
  <1> QED BY <1>1, <1>2, <1>3 DEF WorkspaceTyped

LEMMA TypedInit ==
  ASSUME Init
  PROVE  WorkspaceTyped
  <1>1. DiskTyped
    BY WorldsAssumption DEF Init, DiskTyped
  <1>2. ServerTyped
    <2>1. /\ root = Starting /\ publishing = <<>> /\ sent = [d \in Docs |-> <<>>]
          /\ shown = [d \in Docs |-> Nothing]
      BY DEF Init, ServerInit
    <2>2. DOMAIN publishing = {} /\ Len(publishing) = 0 /\ Nothing.version = 0
      BY <2>1 DEF Nothing
    <2> QED BY <2>1, <2>2, SlotsAssumption DEF ServerTyped
  <1> QED BY <1>1, <1>2, TruthfulInit, CommandStart DEF WorkspaceTyped

(* Types: every file, document and buffer holds a text of the workspace,   *)
(* no more handlers run than there are slots, and versions were sent.      *)
THEOREM WorkspaceTypes == Spec => []TypeOK
  <1>1. WorkspaceTyped => TypeOK
    <2>1. SUFFICES ASSUME WorkspaceTyped PROVE TypeOK
      OBVIOUS
    <2>2. \A d \in Docs : \A t : HadText(sent, d, t) => t \in Texts
      BY <2>1, HadTextIsText DEF WorkspaceTyped
    <2>3. DOMAIN documents \subseteq Docs /\ \A d \in DOMAIN documents : documents[d] \in Texts
      BY <2>1, <2>2 DEF WorkspaceTyped, Truthful, DocumentsTrue
    <2>4. \A d \in Docs : buffer[d] \in Texts \cup {Closed}
      BY <2>1, <2>2 DEF WorkspaceTyped, Truthful, BufferTrue
    <2>5. /\ \A k \in DOMAIN publishing : publishing[k].doc \in Docs
          /\ \A m \in Range(inbox) : m.doc \in Docs
      BY <2>1 DEF WorkspaceTyped, Truthful, PublishingTrue, InboxTrue, MessageTrue, Range
    <2>6. \A d \in Docs : shown[d].version \in 0..Len(sent[d])
      <3>1. SUFFICES ASSUME NEW d \in Docs PROVE shown[d].version \in 0..Len(sent[d])
        OBVIOUS
      <3>2. DOMAIN sent[d] = 1..Len(sent[d]) /\ Len(sent[d]) \in Nat
        BY <2>1, Appended DEF WorkspaceTyped, Truthful, Shapes
      <3>3. shown[d].version > 0 => shown[d].version \in DOMAIN sent[d]
        BY <2>1 DEF WorkspaceTyped, Truthful, ShownTrue, NoticeTrue
      <3>4. shown[d].version \in Nat
        BY <2>1 DEF WorkspaceTyped, ServerTyped
      <3> QED BY <3>2, <3>3, <3>4
    <2> QED BY <2>1, <2>3, <2>4, <2>5, <2>6
            DEF TypeOK, WorkspaceTyped, ServerTyped, DiskTyped, CommandInv, Positions
  <1> QED BY <1>1, TypedInit, TypedStep, PTL DEF Spec

(* A command that ends says the truth about all of its files. *)
THEOREM ExitsAreTrue == Spec => []ExitTellsTruth
  <1>1. WorkspaceTyped => ExitTellsTruth
    BY DEF WorkspaceTyped, CommandInv
  <1> QED BY <1>1, TypedInit, TypedStep, PTL DEF Spec

----------------------------------------------------------------------------
(* What the commands leave on the disk. *)

Formatting == command.name = "fmt" /\ ~command.check

(* The command has the file open, or stopped when it had.                  *)
Halfway(path) == phase \in {"write", "ended"} /\ HalfWritten(path)

Reworked(was, is) == was \in Texts /\ Source(was.tree).hcl /\ is = FormatText(was)

(* Every file read so far is what it was, or what fmt makes of that. *)
SeenKept ==
  \A k \in DOMAIN seen :
     LET path == command.files[k]
     IN  \/ path \in saved \/ Halfway(path)
         \/ disk[path] = seen[k]
         \/ Formatting /\ Reworked(seen[k], disk[path])

(* So is the text that fmt is about to write, as often as its file was read. *)
HeldKeeps ==
  phase \in {"open", "write"} =>
    \A k \in DOMAIN seen :
       command.files[k] = File /\ File \notin saved => Reworked(seen[k], held)

(* HCL and canonical, unless a comment was torn. *)
Settled(was, is) == ~Tears(was.layout) => Source(is.tree).hcl /\ CanonicalText(is)

(* The files before the one the command is at are as they should be. *)
WrittenSoFar ==
  phase # "ended" \/ exit = "success" =>
    \A k \in DOMAIN command.files :
       k < at =>
         LET path == command.files[k]
         IN  \/ path \in saved
             \/ phase = "write" /\ path = File
             \/ /\ Formatting => Settled(seen[k], disk[path])
                /\ command.name = "init" => disk[path] = Scaffolds[command.kind]

FilesInv == WorkspaceTyped /\ SeenKept /\ HeldKeeps /\ WrittenSoFar

(* The editor saves a file, and answers for it. *)
LEMMA SavedFiles ==
  ASSUME FilesInv, UNCHANGED commandVars, UNCHANGED <<disk, saved>> \/ \E d \in Docs : Saves(d)
  PROVE  SeenKept' /\ HeldKeeps' /\ WrittenSoFar'
  <1>1. UNCHANGED <<command, at, phase, held, exit, seen>>
    BY DEF commandVars
  <1>2. CASE UNCHANGED <<disk, saved>>
    BY <1>1, <1>2 DEF FilesInv, SeenKept, HeldKeeps, WrittenSoFar, Halfway, HalfWritten, Formatting, File
  <1>3. CASE \E d \in Docs : Saves(d)
    <2>1. PICK d \in Docs : Saves(d)
      BY <1>3
    <2>2. /\ saved' = saved \cup {d}
          /\ \A p \in Paths : p # d => disk'[p] = disk[p]
      BY <2>1 DEF Saves, FilesInv, WorkspaceTyped, DiskTyped
    <2>3. /\ \A k \in DOMAIN command.files : command.files[k] \in Paths
          /\ \A k \in DOMAIN seen : k \in DOMAIN command.files
      BY DEF FilesInv, WorkspaceTyped, CommandInv, Positions, Commands
    <2>4. SeenKept'
      BY <1>1, <2>2, <2>3 DEF FilesInv, SeenKept, Halfway, HalfWritten, Formatting, File
    <2>5. HeldKeeps'
      BY <1>1, <2>2 DEF FilesInv, HeldKeeps, File
    <2>6. WrittenSoFar'
      BY <1>1, <2>2, <2>3 DEF FilesInv, WrittenSoFar, Formatting, File
    <2> QED BY <2>4, <2>5, <2>6
  <1> QED BY <1>2, <1>3

(* A command reads a file: it says what it says. *)
LEMMA SeenGrows ==
  ASSUME FilesInv, NEW name \in {"validate", "lint", "fmt"}, Reads(name), UNCHANGED <<command, saved>>
  PROVE  /\ SeenKept'
         /\ \A k \in DOMAIN seen' :
              LET path == command.files[k]
              IN  \/ path \in saved \/ disk[path] = seen'[k]
                  \/ Formatting /\ Reworked(seen'[k], disk[path])
  <1>1. /\ phase = "read" /\ DOMAIN seen = 1..(at - 1) /\ DOMAIN seen' = 1..at
        /\ \A k \in 1..(at - 1) : seen'[k] = seen[k]
        /\ seen'[at] = disk[File] /\ UNCHANGED disk /\ at \in Nat /\ at >= 1
    BY ReadNext DEF FilesInv, WorkspaceTyped, CommandInv, DiskTyped, Positions, Reads
  <1>2. \A k \in 1..at : k \in 1..(at - 1) \/ k = at
    BY <1>1
  <1>3. \A k \in DOMAIN seen' :
              LET path == command.files[k]
              IN  \/ path \in saved \/ disk[path] = seen'[k]
                  \/ Formatting /\ Reworked(seen'[k], disk[path])
    BY <1>1, <1>2 DEF FilesInv, SeenKept, Halfway, File
  <1> QED BY <1>1, <1>3 DEF SeenKept, Formatting

LEMMA FilesStay ==
  ASSUME FilesInv, CommandStep \/ WriteError \/ Kill, UNCHANGED saved
  PROVE  SeenKept' /\ HeldKeeps' /\ WrittenSoFar'
  <1>1. /\ Positions /\ Changing /\ disk \in [Paths -> Found]
        /\ command.files \in Seq(Paths) /\ Len(command.files) \in Nat
        /\ DOMAIN command.files = 1..Len(command.files)
        /\ at \in 1..(Len(command.files) + 1)
        /\ \A k \in DOMAIN command.files : command.files[k] \in Paths
        /\ DOMAIN seen = 1..Len(seen) /\ Len(seen) \in Nat /\ Len(seen) <= Len(command.files)
        /\ \A k \in DOMAIN seen : k \in DOMAIN command.files
    BY DEF FilesInv, WorkspaceTyped, DiskTyped, CommandInv, Positions, Commands
  <1>2. ASSUME NEW name \in {"validate", "lint", "fmt"}, Reads(name), Proceed,
               Formatting => Source(disk[File].tree).hcl /\ CanonicalText(disk[File])
        PROVE  SeenKept' /\ HeldKeeps' /\ WrittenSoFar'
    <2>1. at' = at + 1 /\ phase' = "read" /\ UNCHANGED <<command, held, exit>> /\ phase = "read"
          /\ UNCHANGED disk /\ command.name = name
      BY <1>2 DEF Proceed, Reads
    <2>2. SeenKept'
      BY <1>2, <2>1, SeenGrows
    <2>3. HeldKeeps'
      BY <2>1 DEF HeldKeeps
    <2>4. \A k \in DOMAIN command.files : k < at + 1 => k < at \/ k = at
      BY <1>1
    <2>5. /\ command.name # "init" /\ DOMAIN seen = 1..(at - 1)
          /\ \A k \in 1..(at - 1) : seen'[k] = seen[k]
          /\ \A k \in DOMAIN command.files : k < at => k \in 1..(at - 1)
          /\ seen'[at] = disk[File]
      BY <1>1, <1>2, <2>1, ReadNext DEF Positions, Reads
    <2>6. WrittenSoFar'
      BY <1>2, <2>1, <2>4, <2>5 DEF FilesInv, WrittenSoFar, Settled, Formatting, File
    <2> QED BY <2>2, <2>3, <2>6
  <1>3. CASE ValidateFile
    <2>1. Reads("validate") /\ Proceed /\ command.name = "validate"
      BY <1>3 DEF ValidateFile, Reads
    <2> QED BY <1>2, <2>1 DEF Formatting
  <1>4. CASE LintFile
    <2>1. Reads("lint") /\ Proceed /\ command.name = "lint"
      BY <1>4 DEF LintFile, Reads
    <2> QED BY <1>2, <2>1 DEF Formatting
  <1>5. CASE CannotFormat
    <2>1. Reads("fmt") /\ phase' = "ended" /\ exit' = "failure" /\ UNCHANGED command
      BY <1>5 DEF CannotFormat, Exit
    <2>2. SeenKept'
      BY <2>1, SeenGrows
    <2> QED BY <2>1, <2>2 DEF HeldKeeps, WrittenSoFar
  <1>6. ASSUME Reads("fmt"), Formats(disk[File])
        PROVE  disk[File] \in Texts /\ File \in Paths /\ at \in DOMAIN command.files
    <2>1. at \in DOMAIN command.files /\ File \in Paths /\ disk[File] \in Found
      BY <1>1, <1>6, ReadNext
    <2> QED BY <1>6, <2>1, FoundIsText DEF Formats
  <1>7. CASE IsCanonical
    <2>1. Reads("fmt") /\ Proceed /\ Formats(disk[File]) /\ FormatText(disk[File]) = disk[File]
      BY <1>7 DEF IsCanonical
    <2>2. Source(disk[File].tree).hcl /\ CanonicalText(disk[File])
      BY <1>6, <2>1, FormattedText DEF Formats
    <2> QED BY <1>2, <2>1, <2>2
  <1>8. CASE WouldChange
    <2>1. Reads("fmt") /\ Proceed /\ command.check
      BY <1>8 DEF WouldChange
    <2> QED BY <1>2, <2>1 DEF Formatting
  <1>9. CASE Changes
    <2>1. /\ Reads("fmt") /\ ~command.check /\ Formats(disk[File])
          /\ held' = FormatText(disk[File]) /\ phase' = "open" /\ phase = "read"
          /\ UNCHANGED <<command, at, exit, disk>>
      BY <1>9 DEF Changes, Reads
    <2>2. SeenKept'
      BY <2>1, SeenGrows
    <2>3. /\ disk[File] \in Texts /\ Source(disk[File].tree).hcl
          /\ \A was \in Texts : FormatText(FormatText(was)) = FormatText(was)
      BY <1>6, <2>1, FormattedText DEF Formats
    <2>4. HeldKeeps'
      BY <1>6, <2>1, <2>3, SeenGrows DEF HeldKeeps, Reworked, File
    <2>5. /\ command.name # "init"
          /\ \A k \in DOMAIN command.files : k < at => seen'[k] = seen[k]
      BY <1>1, <2>1, ReadNext DEF Positions, Reads
    <2>6. WrittenSoFar'
      BY <2>1, <2>5 DEF FilesInv, WrittenSoFar, Formatting, File
    <2> QED BY <2>2, <2>4, <2>6
  <1>10. ASSUME phase \in {"open", "write"}, NEW text, Replace(File, text)
         PROVE  /\ at \in DOMAIN command.files /\ at <= Len(command.files) /\ File \in Paths
                /\ disk'[File] = text /\ \A p \in Paths : p # File => disk'[p] = disk[p]
                /\ command.name = "init" \/ Formatting
    <2>1. at \in DOMAIN command.files /\ at <= Len(command.files)
      BY <1>1, <1>10 DEF Positions
    <2>2. File \in Paths
      BY <1>1, <2>1 DEF File
    <2> QED BY <1>1, <1>10, <2>1, <2>2 DEF Replace, Changing, Formatting
  <1>11. CASE OpenFile
    <2>1. /\ phase = "open" /\ Replace(File, EmptyText) /\ phase' = "write"
          /\ UNCHANGED <<command, at, held, exit, seen>>
      BY <1>11 DEF OpenFile
    <2>2. /\ at \in DOMAIN command.files /\ at <= Len(command.files) /\ File \in Paths
          /\ disk'[File] = EmptyText /\ \A p \in Paths : p # File => disk'[p] = disk[p]
      BY <1>10, <2>1
    <2>3. File' = File
      BY <2>1 DEF File
    <2>4. SeenKept'
      <3>1. Halfway(File)'
        BY <2>1, <2>2, <2>3 DEF Halfway, HalfWritten
      <3>2. ASSUME NEW k \in DOMAIN seen
            PROVE  \/ command.files[k] \in saved \/ Halfway(command.files[k])'
                   \/ disk'[command.files[k]] = seen[k]
                   \/ Formatting /\ Reworked(seen[k], disk'[command.files[k]])
        <4>1. CASE command.files[k] = File
          BY <2>1, <3>1, <4>1 DEF Halfway, HalfWritten, File
        <4>2. CASE command.files[k] # File
          <5>1. ~Halfway(command.files[k])
            BY <2>1 DEF Halfway
          <5> QED BY <1>1, <2>2, <4>2, <5>1 DEF FilesInv, SeenKept
        <4> QED BY <4>1, <4>2
      <3> QED BY <2>1, <3>2 DEF SeenKept, Formatting, Halfway, HalfWritten
    <2>5. HeldKeeps'
      BY <2>1, <2>3 DEF FilesInv, HeldKeeps, File
    <2>6. WrittenSoFar'
      <3>2. command.name = "init" => \A k \in DOMAIN command.files : ~(k < at)
        <4>1. command.name = "init" => Len(command.files) = 1
          BY <1>1 DEF Positions, Commands
        <4> QED BY <1>1, <2>2, <4>1
      <3>3. ASSUME NEW k \in DOMAIN command.files, k < at
            PROVE  \/ command.files[k] \in saved \/ command.files[k] = File
                   \/ Formatting => Settled(seen[k], disk'[command.files[k]])
        <4>1. CASE command.files[k] = File
          BY <4>1
        <4>2. CASE command.files[k] # File
          BY <1>1, <2>1, <2>2, <3>3, <4>2 DEF FilesInv, WrittenSoFar
        <4> QED BY <4>1, <4>2
      <3> QED BY <2>1, <2>3, <3>2, <3>3 DEF WrittenSoFar, Formatting
    <2> QED BY <2>4, <2>5, <2>6
  <1>12. CASE WriteFile
    <2>1. /\ phase = "write" /\ Replace(File, held) /\ phase' = "read" /\ at' = at + 1
          /\ UNCHANGED <<command, held, exit, seen>>
      BY <1>12 DEF WriteFile, Proceed
    <2>2. /\ at \in DOMAIN command.files /\ at <= Len(command.files) /\ File \in Paths
          /\ disk'[File] = held /\ \A p \in Paths : p # File => disk'[p] = disk[p]
          /\ command.name = "init" \/ Formatting
      BY <1>10, <2>1
    <2>3. SeenKept'
      <3>1. command.name = "init" => DOMAIN seen = {}
        BY <1>1 DEF Positions
      <3>2. ASSUME NEW k \in DOMAIN seen
            PROVE  \/ command.files[k] \in saved
                   \/ disk'[command.files[k]] = seen[k]
                   \/ Formatting /\ Reworked(seen[k], disk'[command.files[k]])
        <4>1. CASE command.files[k] = File
          BY <2>1, <2>2, <3>1, <4>1 DEF FilesInv, HeldKeeps
        <4>2. CASE command.files[k] # File
          BY <1>1, <2>2, <4>2 DEF FilesInv, SeenKept, Halfway, HalfWritten
        <4> QED BY <4>1, <4>2
      <3> QED BY <2>1, <3>2 DEF SeenKept, Formatting
    <2>4. HeldKeeps'
      BY <2>1 DEF HeldKeeps
    <2>5. WrittenSoFar'
      <3>1. ASSUME NEW k \in DOMAIN command.files, k < at + 1, Formatting,
                   command.files[k] = File, File \notin saved
            PROVE  Settled(seen[k], held)
        <4>1. Len(seen) = at
          BY <1>1, <2>1, <3>1 DEF Changing, Formatting
        <4>2. k \in DOMAIN seen
          BY <1>1, <3>1, <4>1
        <4>3. Reworked(seen[k], held)
          BY <2>1, <3>1, <4>2 DEF FilesInv, HeldKeeps
        <4> QED BY <4>3, FormattedText DEF Settled, Reworked
      <3>2. command.name = "init" => held = Scaffolds[command.kind]
        BY <1>1 DEF Positions
      <3>3. ASSUME NEW k \in DOMAIN command.files, k < at + 1
            PROVE  \/ command.files[k] \in saved
                   \/ /\ Formatting => Settled(seen[k], disk'[command.files[k]])
                      /\ command.name = "init" => disk'[command.files[k]] = Scaffolds[command.kind]
        <4>1. CASE command.files[k] = File
          BY <2>2, <3>1, <3>2, <3>3, <4>1
        <4>2. CASE command.files[k] # File
          <5>1. k < at
            <6>1. k # at
              BY <4>2 DEF File
            <6> QED BY <1>1, <3>3, <6>1
          <5> QED BY <1>1, <2>1, <2>2, <4>2, <5>1 DEF FilesInv, WrittenSoFar
        <4> QED BY <4>1, <4>2
      <3> QED BY <2>1, <3>3 DEF WrittenSoFar, Formatting
    <2> QED BY <2>3, <2>4, <2>5
  <1>13. CASE EndCommand
    <2>1. /\ phase = "read" /\ phase' = "ended" /\ UNCHANGED <<command, at, held, seen, disk>>
      BY <1>13 DEF EndCommand, Exit
    <2>2. SeenKept'
      BY <2>1 DEF FilesInv, SeenKept, Halfway, Formatting
    <2>3. WrittenSoFar'
      BY <2>1 DEF FilesInv, WrittenSoFar, Formatting
    <2> QED BY <2>1, <2>2, <2>3 DEF HeldKeeps
  <1>14. CASE WriteError \/ Kill
    <2>1. /\ phase # "ended" /\ phase' = "ended" /\ exit' # "success"
          /\ UNCHANGED <<command, at, held, seen, disk>>
      BY <1>1, <1>14 DEF WriteError, Kill, Exit, Positions
    <2>2. SeenKept'
      BY <2>1 DEF FilesInv, SeenKept, Halfway, HalfWritten, Formatting, File
    <2> QED BY <2>1, <2>2 DEF HeldKeeps, WrittenSoFar
  <1> QED BY <1>3, <1>4, <1>5, <1>7, <1>8, <1>9, <1>11, <1>12, <1>13, <1>14 DEF CommandStep

LEMMA FilesStep ==
  ASSUME FilesInv, [Next]_vars
  PROVE  FilesInv'
  <1>1. WorkspaceTyped'
    BY TypedStep DEF FilesInv
  <1>2. SeenKept' /\ HeldKeeps' /\ WrittenSoFar'
    BY WhoSteps, SavedFiles, FilesStay DEF FilesInv
  <1> QED BY <1>1, <1>2 DEF FilesInv

LEMMA FilesInit ==
  ASSUME Init
  PROVE  FilesInv
  <1>1. at = 1 /\ seen = <<>> /\ WorkspaceTyped
    BY TypedInit DEF Init, CommandInit
  <1>2. \A k \in DOMAIN command.files : ~(k < at)
    BY <1>1 DEF WorkspaceTyped, CommandInv, Positions, Commands
  <1> QED BY <1>1, <1>2 DEF FilesInv, SeenKept, HeldKeeps, WrittenSoFar

(* What a command has read keeps its meaning on the disk.                  *)
THEOREM MeaningIsKept == Spec => []MeaningKept
  <1>1. FilesInv => MeaningKept
    <2>1. \A f \in Texts : /\ Readable(f) /\ Readable(FormatText(f))
                           /\ Tears(f.layout) => FormatText(f) = Broken
                           /\ ~Tears(f.layout) => FormatText(f).tree = f.tree
      BY FoundIsText, FormattedText DEF Found
    <2> QED BY <2>1 DEF FilesInv, SeenKept, MeaningKept, Halfway, Formatting, Reworked
  <1> QED BY <1>1, FilesInit, FilesStep, PTL DEF Spec

(* What fmt and init wrote is canonical, and init's file is a good one.    *)
THEOREM WrittenWell == Spec => []WrittenIsGood
  <1>1. FilesInv => WrittenIsGood
    <2>1. SUFFICES ASSUME FilesInv, exit = "success", NEW k \in DOMAIN command.files,
                          command.files[k] \notin saved
                   PROVE  /\ Formatting => Settled(seen[k], disk[command.files[k]])
                          /\ command.name = "init" =>
                               /\ CanonicalText(disk[command.files[k]])
                               /\ Good([command.files[k] EXCEPT !.ext = command.kind], disk[command.files[k]])
      BY DEF WrittenIsGood, Formatting, Settled
    <2>2. /\ k < at /\ command.files[k] \in Paths /\ command.kind \in {"gmod", "gtpl"}
      BY <2>1 DEF FilesInv, WorkspaceTyped, CommandInv, Positions, Commands
    <2>3. /\ Formatting => Settled(seen[k], disk[command.files[k]])
          /\ command.name = "init" => disk[command.files[k]] = Scaffolds[command.kind]
      <3>1. phase # "write"
        BY <2>1 DEF FilesInv, WorkspaceTyped, CommandInv, Positions
      <3> QED BY <2>1, <2>2, <3>1 DEF FilesInv, WrittenSoFar
    <2>4. Good([command.files[k] EXCEPT !.ext = command.kind], Scaffolds[command.kind])
      BY <2>2, ScaffoldsGood
    <2> QED BY <2>2, <2>3, <2>4, ScaffoldsCanonical
  <1> QED BY <1>1, FilesInit, FilesStep, PTL DEF Spec
============================================================================
