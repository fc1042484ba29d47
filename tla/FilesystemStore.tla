-------------------------- MODULE FilesystemStore --------------------------
(***************************************************************************)
(* The registry server (graydr-registry): the five HTTP handlers and the   *)
(* FilesystemStore under them.  axum runs requests concurrently and the    *)
(* store holds no lock, so every filesystem operation of a handler is an   *)
(* action of its own and operations of different requests interleave.      *)
(*                                                                         *)
(* Each coordinate has four directory entries: module.gmod, meta.json and  *)
(* their ".tmp" companions, which every request on the coordinate shares.  *)
(* A write is an open (create or truncate) followed by the bytes; a handle *)
(* stays with its file when the file is renamed.                           *)
(***************************************************************************)
EXTENDS Naturals

CONSTANTS Coords,        \* versions of one module: org/name@version
          Contents,      \* module texts that are uploaded
          Requests,      \* slots for requests in flight
          Ops,           \* the endpoints clients call
          Faults         \* which of "crash", "cancel", "io" can happen

(* What a file can hold besides what was written to it on purpose. *)
Absent == "absent"       \* no directory entry
Empty  == "empty"        \* created or truncated, bytes not (all) written
Mixed  == "mixed"        \* one text over the tail of a longer one

ASSUME ContentsAssumption == Contents \cap {Absent, Empty, Mixed} = {}
ASSUME OpsAssumption == Ops \subseteq {"put", "patch", "content", "meta", "list"}

LifecycleState == {"beta", "active", "deprecated", "retired"}

ModuleData == Contents \cup {Absent, Empty, Mixed}
MetaData   == LifecycleState \cup {Absent, Empty, Mixed}

(* meta.json parses: it is one complete ModuleMeta document. *)
Parses(d) == d \in LifecycleState

(* Mutants: no intermediate state is needed; transitions can be undone. *)
ValidSkipping(from, to)  == from = "active" /\ to \in {"deprecated", "retired"}
ValidEitherWay(from, to) == {from, to} \in {{"active", "deprecated"}, {"deprecated", "retired"}}

(* The state machine update_lifecycle enforces. *)
Valid(from, to) == \/ from = "active" /\ to = "deprecated"
                   \/ from = "deprecated" /\ to = "retired"

VARIABLES
  module, moduleTmp,     \* [Coords -> ModuleData]: module.gmod, module.gmod.tmp
  meta, metaTmp,         \* [Coords -> MetaData]: meta.json, meta.json.tmp
  pc,                    \* pc[r]: the next step of request r, or "idle"
  op, coord, arg,        \* the request of slot r: endpoint, coordinate, payload
  fd,                    \* fd[r]: entry that r's open file is linked at
  todo, listing,         \* directory entries a list still visits; its result
  reply, body,           \* answer of the last request of slot r
  atArrival              \* history: what r asks to read, when it arrived

files   == <<module, moduleTmp, meta, metaTmp>>
request == <<op, coord, arg, atArrival>>
vars    == <<files, pc, request, fd, todo, listing, reply, body>>

(* Steps from the check for an existing module.gmod to its rename, and the *)
(* steps that replace meta.json, which put and patch share.                *)
ModuleSteps == {"openModule", "writeModule", "renameModule"}
MetaSteps   == {"openMeta", "writeMeta", "renameMeta"}
Steps == ModuleSteps \cup MetaSteps
         \cup {"idle", "check", "update", "getMeta", "gate", "readModule", "readDir"}

Replies == {"none", "ok", "badRequest", "notFound", "conflict", "gone",
            "unprocessable", "internal"}

TypeOK ==
  /\ module \in [Coords -> ModuleData] /\ moduleTmp \in [Coords -> ModuleData]
  /\ meta \in [Coords -> MetaData]     /\ metaTmp \in [Coords -> MetaData]
  /\ pc \in [Requests -> Steps]
  /\ op \in [Requests -> Ops \cup {"none"}]
  /\ coord \in [Requests -> Coords]
  /\ arg \in [Requests -> Contents \cup LifecycleState \cup {Absent}]
  /\ fd \in [Requests -> {"closed", "tmp", "final", "unlinked"}]
  /\ todo \in [Requests -> SUBSET Coords]
  /\ listing \in [Requests -> SUBSET (Coords \X LifecycleState)]
  /\ reply \in [Requests -> Replies]
  /\ body \in [Requests -> ModuleData \cup MetaData]
  /\ atArrival \in [Requests -> [Coords -> MetaData]]

Init ==
  /\ module = [c \in Coords |-> Absent] /\ moduleTmp = [c \in Coords |-> Absent]
  /\ meta = [c \in Coords |-> Absent]   /\ metaTmp = [c \in Coords |-> Absent]
  /\ pc = [r \in Requests |-> "idle"]
  /\ op = [r \in Requests |-> "none"]
  /\ coord \in {[r \in Requests |-> c] : c \in Coords}
  /\ arg = [r \in Requests |-> Absent]
  /\ fd = [r \in Requests |-> "closed"]
  /\ todo = [r \in Requests |-> {}]
  /\ listing = [r \in Requests |-> {}]
  /\ reply = [r \in Requests |-> "none"]
  /\ body = [r \in Requests |-> Absent]
  /\ atArrival = [r \in Requests |-> [c \in Coords |-> Absent]]
----------------------------------------------------------------------------
(* A request arrives in a free slot; the handler's first step is "first". *)
Arrive(r, o, c, a, first) ==
  /\ pc[r] = "idle"
  /\ o \in Ops
  /\ op' = [op EXCEPT ![r] = o]
  /\ coord' = [coord EXCEPT ![r] = c]
  /\ arg' = [arg EXCEPT ![r] = a]
  /\ atArrival' = [atArrival EXCEPT ![r] =
                     [d \in Coords |-> IF o = "list" \/ (d = c /\ o \in {"content", "meta"})
                                         THEN meta[d] ELSE Absent]]
  /\ pc' = [pc EXCEPT ![r] = first]
  /\ todo' = [todo EXCEPT ![r] = IF o = "list" THEN Coords ELSE {}]
  /\ listing' = [listing EXCEPT ![r] = {}]
  /\ body' = [body EXCEPT ![r] = Absent]
  /\ UNCHANGED <<files, fd>>

Receive(r, o, c, a, first) ==
  /\ Arrive(r, o, c, a, first)
  /\ reply' = [reply EXCEPT ![r] = "none"]

(* A bad path segment, version or body is refused before the store is      *)
(* touched; GET versions has nothing that can be bad.                      *)
Refuse(r, o, c) ==
  /\ o # "list"
  /\ Arrive(r, o, c, Absent, "idle")
  /\ reply' = [reply EXCEPT ![r] = "badRequest"]

Goto(r, step) ==
  /\ pc' = [pc EXCEPT ![r] = step]
  /\ UNCHANGED <<request, todo, listing, reply, body>>

Answer(r, code) ==
  /\ pc' = [pc EXCEPT ![r] = "idle"]
  /\ reply' = [reply EXCEPT ![r] = code]
  /\ UNCHANGED <<request, todo, listing, body>>

AnswerWith(r, b) ==
  /\ pc' = [pc EXCEPT ![r] = "idle"]
  /\ reply' = [reply EXCEPT ![r] = "ok"]
  /\ body' = [body EXCEPT ![r] = b]
  /\ UNCHANGED <<request, todo, listing>>
----------------------------------------------------------------------------
(* Mutants: every put goes on; the check looks for meta.json; the metadata *)
(* is written first; a conflict counts as done.                            *)
CheckNothing(r) ==
  pc[r] = "check" /\ Goto(r, "openModule") /\ UNCHANGED <<files, fd>>

CheckMeta(r) ==
  /\ pc[r] = "check"
  /\ \/ meta[coord[r]] # Absent /\ Answer(r, "conflict")
     \/ meta[coord[r]] = Absent /\ Goto(r, "openModule")
  /\ UNCHANGED <<files, fd>>

CheckThenMeta(r) ==
  pc[r] = "check" /\ Goto(r, "openMeta") /\ UNCHANGED <<files, fd>>

CheckConflictIsFine(r) ==
  /\ pc[r] = "check"
  /\ \/ module[coord[r]] # Absent /\ Answer(r, "ok")
     \/ module[coord[r]] = Absent /\ Goto(r, "openModule")
  /\ UNCHANGED <<files, fd>>

(* put_module: an existing module.gmod is a conflict; otherwise make the   *)
(* directory and go on to write.                                           *)
CheckExists(r) ==
  /\ pc[r] = "check"
  /\ \/ module[coord[r]] # Absent /\ Answer(r, "conflict")
     \/ module[coord[r]] = Absent /\ Goto(r, "openModule")
  /\ UNCHANGED <<files, fd>>

(* The bytes of "new" over what the file holds: a longer text keeps its    *)
(* tail.  Documents of a coordinate differ in length by the state's name.  *)
MetaLength == [beta |-> 4, active |-> 6, retired |-> 7, deprecated |-> 10]

MetaOver(old, new) ==
  IF old = Mixed THEN {new, Mixed}
  ELSE IF Parses(old) /\ MetaLength[old] > MetaLength[new] THEN {Mixed} ELSE {new}

ModuleOver(old, new) ==
  IF old \in {Empty, new} THEN {new} ELSE {new, Mixed}

(* A rename moves the temporary file, and every handle open on it, over    *)
(* the final one, whose open handles keep a file no entry names.           *)
Relinked(c, step) ==
  [q \in Requests |->
     IF coord[q] = c /\ pc[q] = step /\ fd[q] \in {"tmp", "final"}
       THEN IF fd[q] = "tmp" THEN "final" ELSE "unlinked"
       ELSE fd[q]]

OpenModuleTmp(r) ==
  /\ pc[r] = "openModule"
  /\ moduleTmp' = [moduleTmp EXCEPT ![coord[r]] = Empty]
  /\ fd' = [fd EXCEPT ![r] = "tmp"]
  /\ Goto(r, "writeModule")
  /\ UNCHANGED <<module, meta, metaTmp>>

WriteModuleTmp(r) ==
  /\ pc[r] = "writeModule"
  /\ \/ /\ fd[r] = "tmp"
        /\ \E d \in ModuleOver(moduleTmp[coord[r]], arg[r]) :
              moduleTmp' = [moduleTmp EXCEPT ![coord[r]] = d]
        /\ UNCHANGED module
     \/ /\ fd[r] = "final"
        /\ \E d \in ModuleOver(module[coord[r]], arg[r]) :
              module' = [module EXCEPT ![coord[r]] = d]
        /\ UNCHANGED moduleTmp
     \/ fd[r] = "unlinked" /\ UNCHANGED <<module, moduleTmp>>
  /\ fd' = [fd EXCEPT ![r] = "closed"]
  /\ Goto(r, "renameModule")
  /\ UNCHANGED <<meta, metaTmp>>

(* A mutant: the request is answered and no metadata written. *)
RenameModuleOnly(r) ==
  /\ pc[r] = "renameModule"
  /\ \/ /\ moduleTmp[coord[r]] # Absent
        /\ module' = [module EXCEPT ![coord[r]] = moduleTmp[coord[r]]]
        /\ moduleTmp' = [moduleTmp EXCEPT ![coord[r]] = Absent]
        /\ fd' = Relinked(coord[r], "writeModule")
        /\ Answer(r, "ok")
     \/ /\ moduleTmp[coord[r]] = Absent
        /\ Answer(r, "internal")
        /\ UNCHANGED <<module, moduleTmp, fd>>
  /\ UNCHANGED <<meta, metaTmp>>

RenameModule(r) ==
  /\ pc[r] = "renameModule"
  /\ \/ /\ moduleTmp[coord[r]] # Absent
        /\ module' = [module EXCEPT ![coord[r]] = moduleTmp[coord[r]]]
        /\ moduleTmp' = [moduleTmp EXCEPT ![coord[r]] = Absent]
        /\ fd' = Relinked(coord[r], "writeModule")
        /\ Goto(r, "openMeta")
     \/ /\ moduleTmp[coord[r]] = Absent          \* another request renamed it
        /\ Answer(r, "internal")
        /\ UNCHANGED <<module, moduleTmp, fd>>
  /\ UNCHANGED <<meta, metaTmp>>

(* A mutant: the payload is written to the wrong file. *)
PayloadAsMeta(r) == arg[r]

(* The metadata a request writes: put publishes as active, patch moves on. *)
NewMeta(r) == IF op[r] = "put" THEN "active" ELSE arg[r]

OpenMetaTmp(r) ==
  /\ pc[r] = "openMeta"
  /\ metaTmp' = [metaTmp EXCEPT ![coord[r]] = Empty]
  /\ fd' = [fd EXCEPT ![r] = "tmp"]
  /\ Goto(r, "writeMeta")
  /\ UNCHANGED <<module, moduleTmp, meta>>

WriteMetaTmp(r) ==
  /\ pc[r] = "writeMeta"
  /\ \/ /\ fd[r] = "tmp"
        /\ \E d \in MetaOver(metaTmp[coord[r]], NewMeta(r)) :
              metaTmp' = [metaTmp EXCEPT ![coord[r]] = d]
        /\ UNCHANGED meta
     \/ /\ fd[r] = "final"
        /\ \E d \in MetaOver(meta[coord[r]], NewMeta(r)) :
              meta' = [meta EXCEPT ![coord[r]] = d]
        /\ UNCHANGED metaTmp
     \/ fd[r] = "unlinked" /\ UNCHANGED <<meta, metaTmp>>
  /\ fd' = [fd EXCEPT ![r] = "closed"]
  /\ Goto(r, "renameMeta")
  /\ UNCHANGED <<module, moduleTmp>>

RenameMeta(r) ==
  /\ pc[r] = "renameMeta"
  /\ \/ /\ metaTmp[coord[r]] # Absent
        /\ meta' = [meta EXCEPT ![coord[r]] = metaTmp[coord[r]]]
        /\ metaTmp' = [metaTmp EXCEPT ![coord[r]] = Absent]
        /\ fd' = Relinked(coord[r], "writeMeta")
        /\ Answer(r, "ok")
     \/ /\ metaTmp[coord[r]] = Absent
        /\ Answer(r, "internal")
        /\ UNCHANGED <<meta, metaTmp, fd>>
  /\ UNCHANGED <<module, moduleTmp>>
----------------------------------------------------------------------------
(* A mutant: any transition is accepted. *)
ReadWithoutValidation(r) ==
  /\ pc[r] = "update"
  /\ LET d == meta[coord[r]] IN
       \/ d = Absent /\ Answer(r, "notFound")
       \/ d # Absent /\ ~Parses(d) /\ Answer(r, "internal")
       \/ Parses(d) /\ Goto(r, "openMeta")
  /\ UNCHANGED <<files, fd>>

(* update_lifecycle, up to the write: read, parse and validate. *)
ReadForUpdate(r) ==
  /\ pc[r] = "update"
  /\ LET d == meta[coord[r]] IN
       \/ d = Absent /\ Answer(r, "notFound")
       \/ d # Absent /\ ~Parses(d) /\ Answer(r, "internal")
       \/ Parses(d) /\ ~Valid(d, arg[r]) /\ Answer(r, "unprocessable")
       \/ Parses(d) /\ Valid(d, arg[r]) /\ Goto(r, "openMeta")
  /\ UNCHANGED <<files, fd>>

GetMeta(r) ==
  /\ pc[r] = "getMeta"
  /\ LET d == meta[coord[r]] IN
       \/ d = Absent /\ Answer(r, "notFound")
       \/ d # Absent /\ ~Parses(d) /\ Answer(r, "internal")
       \/ Parses(d) /\ AnswerWith(r, d)
  /\ UNCHANGED <<files, fd>>

(* A mutant: the gate only asks whether the module exists. *)
GateOnExistence(r) ==
  /\ pc[r] = "gate"
  /\ \/ meta[coord[r]] = Absent /\ Answer(r, "notFound")
     \/ meta[coord[r]] # Absent /\ Goto(r, "readModule")
  /\ UNCHANGED <<files, fd>>

(* GET content: the retirement gate reads the metadata first ... *)
Gate(r) ==
  /\ pc[r] = "gate"
  /\ LET d == meta[coord[r]] IN
       \/ d = Absent /\ Answer(r, "notFound")
       \/ d # Absent /\ ~Parses(d) /\ Answer(r, "internal")
       \/ d = "retired" /\ Answer(r, "gone")
       \/ Parses(d) /\ d # "retired" /\ Goto(r, "readModule")
  /\ UNCHANGED <<files, fd>>

(* ... and the bytes come in a second read. *)
ReadModule(r) ==
  /\ pc[r] = "readModule"
  /\ \/ module[coord[r]] = Absent /\ Answer(r, "notFound")
     \/ module[coord[r]] # Absent /\ AnswerWith(r, module[coord[r]])
  /\ UNCHANGED <<files, fd>>

(* GET versions walks the directory entry by entry, in any order, and      *)
(* leaves out entries whose meta.json is missing or does not parse.        *)
VisitEntry(r) ==
  /\ pc[r] = "readDir"
  /\ \E c \in todo[r] :
        /\ todo' = [todo EXCEPT ![r] = @ \ {c}]
        /\ listing' = [listing EXCEPT ![r] =
                         IF Parses(meta[c]) THEN @ \cup {<<c, meta[c]>>} ELSE @]
  /\ UNCHANGED <<files, fd, pc, request, reply, body>>

(* Mutants: the walk may stop early; an empty list is not answered. *)
FinishListEarly(r) ==
  pc[r] = "readDir" /\ Answer(r, "ok") /\ UNCHANGED <<files, fd>>

FinishNonEmptyList(r) ==
  pc[r] = "readDir" /\ listing[r] # {} /\ Answer(r, "ok") /\ UNCHANGED <<files, fd>>

FinishList(r) ==
  /\ pc[r] = "readDir"
  /\ todo[r] = {}
  /\ Answer(r, "ok")
  /\ UNCHANGED <<files, fd>>
----------------------------------------------------------------------------
(* A mutant: the handler cleans up what it could not finish. *)
IoErrorCleansUp(r) ==
  /\ "io" \in Faults
  /\ pc[r] \in ModuleSteps \cup MetaSteps
  /\ fd' = [fd EXCEPT ![r] = "closed"]
  /\ module' = [module EXCEPT ![coord[r]] = Absent]
  /\ Answer(r, "internal")
  /\ UNCHANGED <<moduleTmp, meta, metaTmp>>

(* A filesystem operation fails and the handler returns 500. *)
IoError(r) ==
  /\ "io" \in Faults
  /\ pc[r] # "idle"
  /\ fd' = [fd EXCEPT ![r] = "closed"]
  /\ Answer(r, "internal")
  /\ UNCHANGED files

(* The client gives up (its timeout is 30 s) and the handler is dropped at *)
(* an await.  A blocking write that has started runs to its end first.     *)
Cancel(r) ==
  /\ "cancel" \in Faults
  /\ pc[r] # "idle"
  /\ fd[r] = "closed"
  /\ Goto(r, "idle")
  /\ UNCHANGED <<files, fd>>

(* The server process dies and starts again: requests vanish, files stay. *)
Crash ==
  /\ "crash" \in Faults
  /\ pc' = [r \in Requests |-> "idle"]
  /\ fd' = [r \in Requests |-> "closed"]
  /\ UNCHANGED <<files, request, todo, listing, reply, body>>
----------------------------------------------------------------------------
ReceiveAny(r) ==
  \E c \in Coords :
    \/ \E o \in Ops : Refuse(r, o, c)
    \/ \E x \in Contents : Receive(r, "put", c, x, "check")
    \/ \E s \in LifecycleState : Receive(r, "patch", c, s, "update")
    \/ Receive(r, "content", c, Absent, "gate")
    \/ Receive(r, "meta", c, Absent, "getMeta")
    \/ Receive(r, "list", c, Absent, "readDir")

(* The next step of the handler that serves r. *)
Handle(r) ==
  \/ CheckExists(r)
  \/ OpenModuleTmp(r) \/ WriteModuleTmp(r) \/ RenameModule(r)
  \/ OpenMetaTmp(r) \/ WriteMetaTmp(r) \/ RenameMeta(r)
  \/ ReadForUpdate(r) \/ GetMeta(r)
  \/ Gate(r) \/ ReadModule(r)
  \/ VisitEntry(r) \/ FinishList(r)

Next ==
  \/ \E r \in Requests : ReceiveAny(r) \/ Handle(r) \/ IoError(r) \/ Cancel(r)
  \/ Crash

(* Any number of clients: nothing in the server orders their requests. *)
Spec == Init /\ [][Next]_vars
============================================================================
