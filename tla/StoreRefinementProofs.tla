----------------------- MODULE StoreRefinementProofs -----------------------
(***************************************************************************)
(* With at most one mutating request per coordinate, the server's files    *)
(* implement ModuleStore, a retired module is not served, and reads are    *)
(* fresh: proved for every set of coordinates, texts, request slots and    *)
(* faults.                                                                 *)
(***************************************************************************)
EXTENDS FilesystemStoreProofs

Writing == ModuleSteps \cup MetaSteps

(* How far a mutating request has got, in the files of its coordinate. *)
Progress(r) ==
  /\ pc[r] \in ModuleSteps \cup {"check"} => op[r] = "put"
  /\ pc[r] = "update" => op[r] = "patch"
  /\ pc[r] \in MetaSteps => op[r] \in Mutators
  /\ pc[r] \in ModuleSteps => module[coord[r]] = Absent
  /\ pc[r] = "writeModule" => fd[r] = "tmp" /\ moduleTmp[coord[r]] = Empty
  /\ pc[r] = "renameModule" => moduleTmp[coord[r]] = arg[r]
  /\ pc[r] \in MetaSteps /\ op[r] = "put" => meta[coord[r]] = Absent
  /\ pc[r] \in MetaSteps /\ op[r] = "patch" => Valid(meta[coord[r]], arg[r])
  /\ pc[r] = "writeMeta" => fd[r] = "tmp" /\ metaTmp[coord[r]] = Empty
  /\ pc[r] = "renameMeta" => metaTmp[coord[r]] = NewMeta(r)

(* The final files only ever hold whole documents. *)
Whole ==
  /\ module \in [Coords -> Contents \cup {Absent}]
  /\ meta \in [Coords -> {"active", "deprecated", "retired", Absent}]

(* The inductive invariant of SerialSpec. *)
SerialInv ==
  /\ StoreInv
  /\ Alone(Mutators)
  /\ Whole
  /\ \A r \in Requests : Progress(r)

SerialNext == Next /\ Alone(Mutators)'

LEMMA SerialInit == Init => SerialInv
<1> SUFFICES ASSUME Init PROVE SerialInv
  OBVIOUS
<1>1. StoreInv
  BY StoreInit
<1>2. \A r \in Requests : pc[r] = "idle" /\ op[r] = "none"
  BY DEF Init
<1>3. Alone(Mutators) /\ \A r \in Requests : Progress(r)
  BY <1>2 DEF Alone, InFlight, Progress, ModuleSteps, MetaSteps
<1>4. Whole
  BY DEF Init, Whole
<1> QED BY <1>1, <1>3, <1>4 DEF SerialInv

(* A request whose own state and files are left alone keeps its progress. *)
LEMMA Frame ==
  ASSUME NEW q \in Requests, Progress(q),
         pc'[q] = pc[q], op'[q] = op[q], coord'[q] = coord[q], arg'[q] = arg[q],
         pc[q] \in {"writeModule", "writeMeta"} => fd'[q] = fd[q],
         pc[q] \in Writing =>
           /\ module'[coord[q]] = module[coord[q]]
           /\ moduleTmp'[coord[q]] = moduleTmp[coord[q]]
           /\ meta'[coord[q]] = meta[coord[q]]
           /\ metaTmp'[coord[q]] = metaTmp[coord[q]]
  PROVE  Progress(q)'
  BY DEF Progress, Writing, ModuleSteps, MetaSteps, NewMeta

(* Two requests that write are at different coordinates. *)
LEMMA Apart ==
  ASSUME SerialInv, NEW q \in Requests, NEW r \in Requests, q # r,
         pc[q] \in Writing, pc[r] \in Writing
  PROVE  coord[q] # coord[r]
  BY DEF SerialInv, Progress, Writing, ModuleSteps, MetaSteps, Alone, InFlight, Mutators

(* The other requests keep their progress when r takes a step at which it  *)
(* writes: it changes nothing outside its coordinate.                      *)
LEMMA OthersKeepProgress ==
  ASSUME SerialInv, NEW r \in Requests, NEW q \in Requests, q # r,
         \/ OpenModuleTmp(r) \/ WriteModuleTmp(r) \/ RenameModule(r)
         \/ OpenMetaTmp(r) \/ WriteMetaTmp(r) \/ RenameMeta(r)
  PROVE  Progress(q)'
<1> USE DEF ModuleSteps, MetaSteps, Writing
<1>1. pc[r] \in Writing
  BY DEF OpenModuleTmp, WriteModuleTmp, RenameModule, OpenMetaTmp, WriteMetaTmp, RenameMeta
<1>2. pc[q] \in Writing => coord[q] # coord[r]
  BY <1>1, Apart
<1>3. TypeOK /\ Progress(q)
  BY DEF SerialInv, StoreInv
<1>4. UNCHANGED <<op, coord, arg>> /\ pc'[q] = pc[q]
  BY <1>3 DEF OpenModuleTmp, WriteModuleTmp, RenameModule, OpenMetaTmp, WriteMetaTmp,
              RenameMeta, Goto, Answer, request, TypeOK
<1>5. pc[q] \in {"writeModule", "writeMeta"} => fd'[q] = fd[q]
  BY <1>2, <1>3 DEF OpenModuleTmp, WriteModuleTmp, RenameModule, OpenMetaTmp, WriteMetaTmp,
              RenameMeta, Relinked, TypeOK
<1>6. \A c \in Coords : c # coord[r] =>
        /\ module'[c] = module[c] /\ moduleTmp'[c] = moduleTmp[c]
        /\ meta'[c] = meta[c] /\ metaTmp'[c] = metaTmp[c]
  BY <1>3 DEF OpenModuleTmp, WriteModuleTmp, RenameModule, OpenMetaTmp, WriteMetaTmp,
              RenameMeta, TypeOK
<1>7. coord[q] \in Coords
  BY <1>3 DEF TypeOK
<1> QED BY <1>2, <1>3, <1>4, <1>5, <1>6, <1>7, Frame

(* An abstract step, or none. *)
AbstractStep == Abstract!Next \/ UNCHANGED <<module, meta>>

LEMMA OwnModuleStep ==
  ASSUME SerialInv, NEW r \in Requests,
         OpenModuleTmp(r) \/ WriteModuleTmp(r) \/ RenameModule(r)
  PROVE  Progress(r)' /\ Whole' /\ AbstractStep
<1> USE DEF ModuleSteps, MetaSteps
<1>1. TypeOK /\ ArgOK /\ MetaImpliesModule /\ Whole /\ Progress(r) /\ coord[r] \in Coords
  BY DEF SerialInv, StoreInv, TypeOK
<1>2. CASE OpenModuleTmp(r)
  <2>1. /\ pc' = [pc EXCEPT ![r] = "writeModule"] /\ fd' = [fd EXCEPT ![r] = "tmp"]
        /\ moduleTmp' = [moduleTmp EXCEPT ![coord[r]] = Empty]
        /\ pc[r] = "openModule"
        /\ UNCHANGED <<module, meta, op, coord, arg>>
    BY <1>2 DEF OpenModuleTmp, Goto, request
  <2> QED BY <1>1, <2>1 DEF Progress, Whole, TypeOK, AbstractStep
<1>3. CASE WriteModuleTmp(r)
  <2>1. moduleTmp[coord[r]] = Empty /\ fd[r] = "tmp" /\ pc[r] = "writeModule"
    BY <1>1, <1>3 DEF WriteModuleTmp, Progress
  <2>2. ModuleOver(Empty, arg[r]) = {arg[r]}
    BY DEF ModuleOver
  <2>3. /\ moduleTmp' = [moduleTmp EXCEPT ![coord[r]] = arg[r]]
        /\ pc' = [pc EXCEPT ![r] = "renameModule"]
        /\ UNCHANGED <<module, meta, op, coord, arg>>
    BY <1>3, <2>1, <2>2 DEF WriteModuleTmp, Goto, request
  <2> QED BY <1>1, <2>1, <2>3 DEF Progress, Whole, TypeOK, AbstractStep
<1>4. CASE RenameModule(r)
  <2>1. /\ moduleTmp[coord[r]] = arg[r] /\ pc[r] = "renameModule"
        /\ module[coord[r]] = Absent /\ arg[r] \in Contents /\ arg[r] # Absent
        /\ op[r] = "put"
    BY <1>1, <1>4, ContentsAssumption DEF RenameModule, Progress, ArgOK
  <2>2. /\ module' = [module EXCEPT ![coord[r]] = arg[r]]
        /\ pc' = [pc EXCEPT ![r] = "openMeta"]
        /\ UNCHANGED <<meta, metaTmp, op, coord, arg>>
    BY <1>4, <2>1 DEF RenameModule, Goto, request
  <2>3. meta[coord[r]] = Absent
    BY <1>1, <2>1 DEF MetaImpliesModule
  <2>4. Progress(r)'
    BY <1>1, <2>1, <2>2, <2>3 DEF Progress, TypeOK, Mutators
  <2>5. Whole'
    BY <1>1, <2>1, <2>2 DEF Whole
  <2>6. Abstract!Take(coord[r])
    BY <1>1, <2>1, <2>2 DEF Abstract!Take
  <2> QED BY <1>1, <2>4, <2>5, <2>6 DEF AbstractStep, Abstract!Next
<1> QED BY <1>2, <1>3, <1>4

LEMMA OwnMetaStep ==
  ASSUME SerialInv, NEW r \in Requests,
         OpenMetaTmp(r) \/ WriteMetaTmp(r) \/ RenameMeta(r)
  PROVE  Progress(r)' /\ Whole' /\ AbstractStep
<1> USE DEF ModuleSteps, MetaSteps
<1>1. TypeOK /\ ContentBeforeMeta /\ Whole /\ Progress(r) /\ coord[r] \in Coords
  BY DEF SerialInv, StoreInv, TypeOK
<1>2. CASE OpenMetaTmp(r)
  <2>1. /\ pc' = [pc EXCEPT ![r] = "writeMeta"] /\ fd' = [fd EXCEPT ![r] = "tmp"]
        /\ metaTmp' = [metaTmp EXCEPT ![coord[r]] = Empty]
        /\ pc[r] = "openMeta"
        /\ UNCHANGED <<module, meta, op, coord, arg>>
    BY <1>2 DEF OpenMetaTmp, Goto, request
  <2> QED BY <1>1, <2>1 DEF Progress, Whole, TypeOK, AbstractStep
<1>3. CASE WriteMetaTmp(r)
  <2>1. metaTmp[coord[r]] = Empty /\ fd[r] = "tmp" /\ pc[r] = "writeMeta"
    BY <1>1, <1>3 DEF WriteMetaTmp, Progress
  <2>2. MetaOver(Empty, NewMeta(r)) = {NewMeta(r)}
    BY DEF MetaOver, Parses, LifecycleState, Empty, Mixed
  <2>3. /\ metaTmp' = [metaTmp EXCEPT ![coord[r]] = NewMeta(r)]
        /\ pc' = [pc EXCEPT ![r] = "renameMeta"]
        /\ UNCHANGED <<module, meta, op, coord, arg>>
    BY <1>3, <2>1, <2>2 DEF WriteMetaTmp, Goto, request
  <2> QED BY <1>1, <2>1, <2>3 DEF Progress, Whole, TypeOK, AbstractStep, NewMeta
<1>4. CASE RenameMeta(r)
  <2>1. /\ metaTmp[coord[r]] = NewMeta(r) /\ pc[r] = "renameMeta"
        /\ op[r] \in {"put", "patch"}
        /\ module[coord[r]] # Absent
    BY <1>1, <1>4 DEF RenameMeta, Progress, Mutators, ContentBeforeMeta
  <2>2. NewMeta(r) # Absent
    BY <1>1, <2>1 DEF Progress, NewMeta, Valid, Absent
  <2>3. /\ meta' = [meta EXCEPT ![coord[r]] = NewMeta(r)]
        /\ pc' = [pc EXCEPT ![r] = "idle"]
        /\ UNCHANGED <<module, moduleTmp, op, coord, arg>>
    BY <1>4, <2>1, <2>2 DEF RenameMeta, Answer, request
  <2>4. Progress(r)'
    BY <1>1, <2>3 DEF Progress, TypeOK
  <2>5. CASE op[r] = "put"
    <3>1. meta[coord[r]] = Absent /\ NewMeta(r) = "active"
      BY <1>1, <2>1, <2>5 DEF Progress, NewMeta
    <3>2. Abstract!Show(coord[r]) /\ Whole'
      BY <1>1, <2>1, <2>3, <3>1 DEF Abstract!Show, Whole
    <3> QED BY <1>1, <2>4, <3>2 DEF AbstractStep, Abstract!Next
  <2>6. CASE op[r] = "patch"
    <3>1. Valid(meta[coord[r]], arg[r]) /\ NewMeta(r) = arg[r]
      BY <1>1, <2>1, <2>6 DEF Progress, NewMeta
    <3>2. Abstract!Advance(coord[r]) /\ Whole'
      BY <1>1, <2>3, <3>1 DEF Abstract!Advance, Abstract!States, Abstract!Transitions,
                              Valid, Whole
    <3> QED BY <1>1, <2>4, <3>2 DEF AbstractStep, Abstract!Next
  <2> QED BY <2>1, <2>5, <2>6
<1> QED BY <1>2, <1>3, <1>4

(* Steps that change no file leave every request's progress as it was, or  *)
(* take one past its checks.                                               *)
LEMMA ReadingKeepsProgress ==
  ASSUME SerialInv, NEW r \in Requests, Reading(r)
  PROVE  /\ \A q \in Requests : Progress(q)'
         /\ UNCHANGED <<module, meta>>
<1> USE DEF ModuleSteps, MetaSteps
<1>1. TypeOK /\ ArgOK /\ MetaImpliesModule /\ \A q \in Requests : Progress(q)
  BY DEF SerialInv, StoreInv
<1>2. /\ UNCHANGED <<module, moduleTmp, meta, metaTmp, op, coord, arg>>
      /\ fd' \in {fd, [fd EXCEPT ![r] = "closed"]}
  BY DEF Reading, CheckExists, ReadForUpdate, GetMeta, Gate, ReadModule, VisitEntry,
         FinishList, IoError, Cancel, Goto, Answer, AnswerWith, files, request
<1>3. \/ pc' = [pc EXCEPT ![r] = "idle"]
      \/ pc' = [pc EXCEPT ![r] = "readModule"]
      \/ pc' = pc /\ pc[r] = "readDir"
      \/ pc' = [pc EXCEPT ![r] = "openModule"] /\ pc[r] = "check" /\ module[coord[r]] = Absent
      \/ pc' = [pc EXCEPT ![r] = "openMeta"] /\ pc[r] = "update" /\ Valid(meta[coord[r]], arg[r])
  BY DEF Reading, CheckExists, ReadForUpdate, GetMeta, Gate, ReadModule, VisitEntry,
         FinishList, IoError, Cancel, Goto, Answer, AnswerWith
<1>4. ASSUME NEW q \in Requests, q # r
      PROVE  Progress(q)'
  <2>1. pc'[q] = pc[q] /\ fd'[q] = fd[q]
    BY <1>1, <1>2, <1>3, <1>4 DEF TypeOK
  <2> QED BY <1>1, <1>2, <2>1, Frame
<1>5. Progress(r)'
  BY <1>1, <1>2, <1>3 DEF Progress, TypeOK, Mutators
<1> QED BY <1>2, <1>4, <1>5

LEMMA ReceiveKeepsProgress ==
  ASSUME SerialInv, NEW r \in Requests, ReceiveAny(r)
  PROVE  /\ \A q \in Requests : Progress(q)'
         /\ UNCHANGED <<module, meta>>
<1> USE DEF ModuleSteps, MetaSteps
<1>1. TypeOK /\ \A q \in Requests : Progress(q)
  BY DEF SerialInv, StoreInv
<1>2. /\ UNCHANGED <<module, moduleTmp, meta, metaTmp, fd>>
      /\ pc'[r] \in {"idle", "check", "update", "gate", "getMeta", "readDir"}
      /\ pc'[r] = "check" => op'[r] = "put"
      /\ pc'[r] = "update" => op'[r] = "patch"
      /\ \A q \in Requests \ {r} : /\ pc'[q] = pc[q] /\ op'[q] = op[q]
                                    /\ coord'[q] = coord[q] /\ arg'[q] = arg[q]
  BY <1>1 DEF ReceiveAny, Refuse, Receive, Arrive, files, TypeOK
<1>3. ASSUME NEW q \in Requests, q # r
      PROVE  Progress(q)'
  BY <1>1, <1>2, <1>3, Frame
<1>4. Progress(r)'
  BY <1>2 DEF Progress
<1> QED BY <1>2, <1>3, <1>4

LEMMA SerialStep ==
  ASSUME SerialInv, [SerialNext]_vars
  PROVE  SerialInv' /\ AbstractStep
<1>1. StoreInv'
  BY StoreStep DEF SerialInv, SerialNext
<1>2. CASE UNCHANGED vars
  BY <1>1, <1>2 DEF vars, files, request, SerialInv, Alone, InFlight, Whole, Progress, NewMeta,
                    AbstractStep
<1>3. CASE SerialNext
  <2>1. Alone(Mutators)'
    BY <1>3 DEF SerialNext
  <2>2. SUFFICES Whole' /\ (\A q \in Requests : Progress(q)') /\ AbstractStep
    BY <1>1, <2>1 DEF SerialInv
  <2>3. CASE Crash
    <3>1. UNCHANGED <<module, meta>> /\ \A q \in Requests : pc'[q] = "idle"
      BY <2>3 DEF Crash, files
    <3> QED BY <3>1 DEF SerialInv, Whole, Progress, AbstractStep, ModuleSteps, MetaSteps
  <2>4. ASSUME NEW r \in Requests, ReceiveAny(r) \/ Reading(r)
        PROVE  Whole' /\ (\A q \in Requests : Progress(q)') /\ AbstractStep
    <3>1. UNCHANGED <<module, meta>> /\ \A q \in Requests : Progress(q)'
      BY <2>4, ReceiveKeepsProgress, ReadingKeepsProgress
    <3> QED BY <3>1 DEF SerialInv, Whole, AbstractStep
  <2>5. ASSUME NEW r \in Requests,
               \/ OpenModuleTmp(r) \/ WriteModuleTmp(r) \/ RenameModule(r)
               \/ OpenMetaTmp(r) \/ WriteMetaTmp(r) \/ RenameMeta(r)
        PROVE  Whole' /\ (\A q \in Requests : Progress(q)') /\ AbstractStep
    BY <2>5, OwnModuleStep, OwnMetaStep, OthersKeepProgress
  <2> QED BY <1>3, <2>3, <2>4, <2>5 DEF SerialNext, Next, Handle, Reading
<1> QED BY <1>2, <1>3

(* With one mutating request per coordinate the files implement the        *)
(* abstract store: content for good, then active -> deprecated -> retired. *)
THEOREM ImplementsModuleStoreCorrect == SerialSpec => ImplementsModuleStore
<1>1. Init => Abstract!Init
  BY DEF Init, Abstract!Init
<1>2. SerialInv /\ [SerialNext]_vars => [Abstract!Next]_(Abstract!storeVars)
  BY SerialStep DEF AbstractStep, Abstract!storeVars
<1>3. SerialInv /\ [SerialNext]_vars => SerialInv'
  BY SerialStep
<1> QED BY <1>1, <1>2, <1>3, SerialInit, PTL
        DEF SerialSpec, SerialNext, ImplementsModuleStore, Abstract!Spec
----------------------------------------------------------------------------
(* What a request that downloads knows: the store may have moved on since  *)
(* it arrived, but never back out of "retired".                            *)
Downloading ==
  \A r \in Requests :
    /\ \A c \in Coords : atArrival[r][c] = "retired" => meta[c] = "retired"
    /\ pc[r] = "readModule" => atArrival[r][coord[r]] # "retired"
    /\ pc[r] \in {"getMeta", "readDir"} => op[r] # "content"

GateInv == SerialInv /\ Downloading /\ RetirementGate

LEMMA GateStep ==
  ASSUME GateInv, [SerialNext]_vars
  PROVE  GateInv'
<1> USE DEF ModuleSteps, MetaSteps
<1>1. SerialInv' /\ AbstractStep
  BY SerialStep DEF GateInv
<1>2. \A c \in Coords : meta[c] = "retired" => meta'[c] = "retired"
  BY <1>1 DEF AbstractStep, Abstract!Next, Abstract!Take, Abstract!Show, Abstract!Advance,
              Abstract!Transitions, Abstract!States, GateInv, SerialInv, Whole, Absent
<1>3. TypeOK /\ Downloading /\ RetirementGate /\ ArgOK /\ \A q \in Requests : Progress(q)
  BY DEF GateInv, SerialInv, StoreInv
<1>4. CASE UNCHANGED <<pc, op, coord, reply, atArrival>>
  BY <1>1, <1>2, <1>3, <1>4 DEF GateInv, Downloading, RetirementGate
<1>5. CASE Crash
  BY <1>1, <1>2, <1>3, <1>5 DEF Crash, files, request, GateInv, Downloading, RetirementGate
<1>6. ASSUME NEW r \in Requests, ReceiveAny(r)
      PROVE  GateInv'
  <2>1. /\ meta' = meta
        /\ \A c \in Coords : atArrival'[r][c] \in {meta[c], Absent}
        /\ \A q \in Requests \ {r} : atArrival'[q] = atArrival[q]
        /\ pc'[r] # "readModule" /\ reply'[r] # "ok"
        /\ pc'[r] \in {"getMeta", "readDir"} => op'[r] # "content"
        /\ \A q \in Requests \ {r} : /\ pc'[q] = pc[q] /\ op'[q] = op[q]
                                      /\ coord'[q] = coord[q] /\ reply'[q] = reply[q]
    BY <1>3, <1>6 DEF ReceiveAny, Refuse, Receive, Arrive, files, TypeOK
  <2> QED BY <1>1, <1>3, <2>1 DEF GateInv, Downloading, RetirementGate, Absent
<1>7. ASSUME NEW r \in Requests, Handle(r) \/ IoError(r) \/ Cancel(r)
      PROVE  GateInv'
  <2>1. /\ UNCHANGED <<op, coord, atArrival>>
        /\ \A q \in Requests \ {r} : pc'[q] = pc[q] /\ reply'[q] = reply[q]
    BY <1>3, <1>7 DEF Handle, CheckExists, OpenModuleTmp, WriteModuleTmp, RenameModule,
         OpenMetaTmp, WriteMetaTmp, RenameMeta, ReadForUpdate, GetMeta, Gate, ReadModule,
         VisitEntry, FinishList, IoError, Cancel, Goto, Answer, AnswerWith, request, TypeOK
  <2>2. pc'[r] = "readModule" => meta[coord[r]] # "retired"
    BY <1>3, <1>7 DEF Handle, CheckExists, OpenModuleTmp, WriteModuleTmp, RenameModule,
         OpenMetaTmp, WriteMetaTmp, RenameMeta, ReadForUpdate, GetMeta, Gate, ReadModule,
         VisitEntry, FinishList, IoError, Cancel, Goto, Answer, AnswerWith, TypeOK
  <2>3. pc'[r] \in {"getMeta", "readDir"} => pc'[r] = pc[r]
    BY <1>3, <1>7 DEF Handle, CheckExists, OpenModuleTmp, WriteModuleTmp, RenameModule,
         OpenMetaTmp, WriteMetaTmp, RenameMeta, ReadForUpdate, GetMeta, Gate, ReadModule,
         VisitEntry, FinishList, IoError, Cancel, Goto, Answer, AnswerWith, TypeOK
  <2>4. \/ reply'[r] = reply[r]
        \/ reply'[r] # "ok"
        \/ pc[r] \in {"readModule", "readDir", "getMeta", "renameMeta"}
    BY <1>3, <1>7 DEF Handle, CheckExists, OpenModuleTmp, WriteModuleTmp, RenameModule,
         OpenMetaTmp, WriteMetaTmp, RenameMeta, ReadForUpdate, GetMeta, Gate, ReadModule,
         VisitEntry, FinishList, IoError, Cancel, Goto, Answer, AnswerWith, TypeOK
  <2>5. pc[r] = "renameMeta" => op[r] # "content"
    BY <1>3 DEF Progress, Mutators
  <2>6. Downloading'
    BY <1>2, <1>3, <2>1, <2>2, <2>3 DEF Downloading, TypeOK
  <2>7. RetirementGate'
    BY <1>3, <2>1, <2>4, <2>5 DEF Downloading, RetirementGate
  <2> QED BY <1>1, <2>6, <2>7 DEF GateInv
<1> QED BY <1>4, <1>5, <1>6, <1>7 DEF SerialNext, Next, vars, request

LEMMA GateInit == Init => GateInv
<1> SUFFICES ASSUME Init PROVE GateInv
  OBVIOUS
<1>1. \A r \in Requests : /\ pc[r] = "idle" /\ op[r] = "none"
                          /\ \A c \in Coords : atArrival[r][c] = Absent
  BY DEF Init
<1>2. Downloading /\ RetirementGate
  BY <1>1 DEF Downloading, RetirementGate, Absent
<1> QED BY <1>2, SerialInit DEF GateInv

(* A module retired before a download began is not served, although the    *)
(* gate reads the metadata in one step and the bytes come in a later one.  *)
THEOREM RetirementGateCorrect == SerialSpec => []RetirementGate
<1>1. GateInv /\ [SerialNext]_vars => GateInv'
  BY GateStep
<1> QED BY <1>1, GateInit, PTL DEF SerialSpec, SerialNext, GateInv
----------------------------------------------------------------------------
(* The states of a module are ordered ...                                  *)
LEMMA LaterOn ==
  ASSUME NEW a, NEW b, NEW c, AtOrAfter(a, b), AtOrAfter(b, c)
  PROVE  AtOrAfter(a, c)
  BY DEF AtOrAfter, Valid

(* ... and what meta.json holds moves along the order.                     *)
LEMMA MetaMovesOn ==
  ASSUME SerialInv, AbstractStep, NEW c \in Coords, meta[c] # Absent
  PROVE  meta'[c] # Absent /\ AtOrAfter(meta[c], meta'[c])
  BY DEF AbstractStep, Abstract!Next, Abstract!Take, Abstract!Show, Abstract!Advance,
         Abstract!Transitions, Abstract!States, SerialInv, Whole, Absent, AtOrAfter, Valid

(* A reader's step is one of its endpoint. *)
Serves(r) ==
  /\ pc[r] \in {"gate", "readModule"} => op[r] = "content"
  /\ pc[r] = "getMeta" => op[r] = "meta"
  /\ pc[r] = "readDir" => op[r] = "list"

(* What a reader knows: what it found on arrival, has visited or answered  *)
(* was there, and the store has only moved on since.                       *)
Arrived(r) ==
  \A c \in Coords : atArrival[r][c] # Absent => AtOrAfter(atArrival[r][c], meta[c])

Answered(r) ==
  op[r] = "meta" /\ reply[r] = "ok" =>
    /\ meta[coord[r]] # Absent
    /\ atArrival[r][coord[r]] # Absent => AtOrAfter(atArrival[r][coord[r]], body[r])
    /\ AtOrAfter(body[r], meta[coord[r]])

Visited(r) ==
  /\ \A e \in listing[r] : meta[e[1]] # Absent /\ AtOrAfter(e[2], meta[e[1]])
  /\ op[r] = "list" =>
       \A c \in Coords : atArrival[r][c] # Absent /\ c \notin todo[r] =>
          \E e \in listing[r] : e[1] = c /\ AtOrAfter(atArrival[r][c], e[2])
  /\ op[r] = "list" /\ reply[r] = "ok" => todo[r] = {}

Knows(r) == Serves(r) /\ Arrived(r) /\ Answered(r) /\ Visited(r)

FreshInv == SerialInv /\ \A r \in Requests : Knows(r)

(* What a request knows stays true while it does not move. *)
LEMMA KnowsStays ==
  ASSUME FreshInv, AbstractStep, NEW r \in Requests,
         pc'[r] \in {pc[r], "idle"}, op'[r] = op[r], coord'[r] = coord[r],
         atArrival'[r] = atArrival[r],
         body'[r] = body[r], todo'[r] = todo[r], listing'[r] = listing[r],
         reply'[r] = reply[r] \/ reply'[r] # "ok" \/ (op[r] = "list" /\ todo[r] = {})
                              \/ op[r] \notin {"meta", "list"}
  PROVE  Knows(r)'
<1>1. TypeOK /\ Knows(r) /\ coord[r] \in Coords
  BY DEF FreshInv, SerialInv, StoreInv, TypeOK
<1>2. \A c \in Coords : meta[c] # Absent => meta'[c] # Absent /\ AtOrAfter(meta[c], meta'[c])
  BY MetaMovesOn DEF FreshInv
<1>3. \A c \in Coords : \A s : s # Absent /\ AtOrAfter(s, meta[c]) => AtOrAfter(s, meta'[c])
  <2>1. \A c \in Coords : \A s : s # Absent /\ AtOrAfter(s, meta[c]) => meta[c] # Absent
    BY DEF AtOrAfter, Valid, Absent
  <2> QED BY <1>2, <2>1, LaterOn
<1>4. Serves(r)'
  BY <1>1 DEF Knows, Serves
<1>5. Arrived(r)'
  BY <1>1, <1>3 DEF Knows, Arrived
<1>6. Answered(r)'
  <2>1. op[r] = "meta" /\ reply'[r] = "ok" => reply[r] = "ok"
    OBVIOUS
  <2>2. op[r] = "meta" /\ reply[r] = "ok" => AtOrAfter(body[r], meta'[coord[r]])
    BY <1>1, <1>2, LaterOn DEF Knows, Answered
  <2> QED BY <1>1, <1>2, <2>1, <2>2 DEF Knows, Answered
<1>7. Visited(r)'
  <2>1. \A e \in listing[r] : meta'[e[1]] # Absent /\ AtOrAfter(e[2], meta'[e[1]])
    <3>1. \A e \in listing[r] : e[1] \in Coords
      BY <1>1 DEF TypeOK
    <3> QED BY <1>1, <1>2, <3>1, LaterOn DEF Knows, Visited
  <2>2. op[r] = "list" /\ reply'[r] = "ok" => todo[r] = {}
    BY <1>1 DEF Knows, Visited
  <2> QED BY <1>1, <2>1, <2>2 DEF Knows, Visited
<1> QED BY <1>4, <1>5, <1>6, <1>7 DEF Knows

(* A request that arrives knows what the store shows it. *)
LEMMA ReceiveKnows ==
  ASSUME FreshInv, NEW r \in Requests, ReceiveAny(r), UNCHANGED meta
  PROVE  Knows(r)'
<1>1. TypeOK
  BY DEF FreshInv, SerialInv, StoreInv
<1>2. /\ listing'[r] = {} /\ reply'[r] # "ok"
      /\ \A c \in Coords : atArrival'[r][c] \in {meta[c], Absent}
      /\ op'[r] = "list" => todo'[r] = Coords
      /\ pc'[r] # "readModule"
      /\ pc'[r] = "gate" => op'[r] = "content"
      /\ pc'[r] = "getMeta" => op'[r] = "meta"
      /\ pc'[r] = "readDir" => op'[r] = "list"
  BY <1>1 DEF ReceiveAny, Refuse, Receive, Arrive, TypeOK
<1> QED BY <1>2 DEF Knows, Serves, Arrived, Answered, Visited, AtOrAfter

(* A request that visits an entry knows one more. *)
LEMMA VisitKnows ==
  ASSUME FreshInv, NEW r \in Requests, VisitEntry(r)
  PROVE  Knows(r)'
<1>1. TypeOK /\ Knows(r) /\ Whole
  BY DEF FreshInv, SerialInv, StoreInv
<1>2. PICK c \in todo[r] :
        /\ todo' = [todo EXCEPT ![r] = @ \ {c}]
        /\ listing' = [listing EXCEPT ![r] =
                         IF Parses(meta[c]) THEN @ \cup {<<c, meta[c]>>} ELSE @]
  BY DEF VisitEntry
<1>3. /\ UNCHANGED <<meta, pc, op, coord, atArrival, reply, body>>
      /\ todo'[r] = todo[r] \ {c} /\ c \in Coords
      /\ listing'[r] = IF Parses(meta[c]) THEN listing[r] \cup {<<c, meta[c]>>} ELSE listing[r]
  BY <1>1, <1>2 DEF VisitEntry, files, request, TypeOK
<1>4. meta[c] # Absent => Parses(meta[c])
  BY <1>1, <1>3 DEF Whole, Parses, LifecycleState
<1>5. Parses(meta[c]) => meta[c] # Absent
  BY DEF Parses, LifecycleState, Absent
<1>6. Serves(r)' /\ Arrived(r)' /\ Answered(r)'
  BY <1>1, <1>3 DEF Knows, Serves, Arrived, Answered
<1>7. \A e \in listing'[r] : meta[e[1]] # Absent /\ AtOrAfter(e[2], meta[e[1]])
  <2>1. <<c, meta[c]>>[1] = c /\ <<c, meta[c]>>[2] = meta[c]
    OBVIOUS
  <2>2. AtOrAfter(meta[c], meta[c])
    BY DEF AtOrAfter
  <2> QED BY <1>1, <1>3, <1>5, <2>1, <2>2 DEF Knows, Visited
<1>8. ASSUME op[r] = "list", NEW d \in Coords, atArrival[r][d] # Absent, d \notin todo'[r]
      PROVE  \E e \in listing'[r] : e[1] = d /\ AtOrAfter(atArrival[r][d], e[2])
  <2>1. CASE d = c
    <3>1. AtOrAfter(atArrival[r][c], meta[c]) /\ meta[c] # Absent
      BY <1>1, <1>8, <2>1 DEF Knows, Arrived, AtOrAfter, Valid, Absent
    <3>2. <<c, meta[c]>> \in listing'[r]
      BY <1>3, <1>4, <3>1
    <3> QED BY <2>1, <3>1, <3>2
  <2>2. CASE d # c
    <3>1. PICK e \in listing[r] : e[1] = d /\ AtOrAfter(atArrival[r][d], e[2])
      BY <1>1, <1>3, <1>8, <2>2 DEF Knows, Visited
    <3>2. e \in listing'[r]
      BY <1>3
    <3> QED BY <3>1, <3>2
  <2> QED BY <2>1, <2>2
<1>9. op[r] = "list" /\ reply[r] = "ok" => todo'[r] = {}
  BY <1>1, <1>3 DEF Knows, Visited
<1>10. Visited(r)'
  BY <1>3, <1>7, <1>8, <1>9 DEF Visited
<1> QED BY <1>6, <1>10 DEF Knows

(* A request that reads meta.json answers with what is there. *)
LEMMA GetMetaKnows ==
  ASSUME FreshInv, AbstractStep, NEW r \in Requests, GetMeta(r)
  PROVE  Knows(r)'
<1>1. TypeOK /\ Knows(r) /\ coord[r] \in Coords
  BY DEF FreshInv, SerialInv, StoreInv, TypeOK
<1>2. /\ UNCHANGED <<meta, op, coord, atArrival, todo, listing>>
      /\ op[r] = "meta" /\ pc'[r] = "idle"
  BY <1>1 DEF GetMeta, Answer, AnswerWith, files, request, Knows, Serves, TypeOK
<1>3. CASE reply'[r] # "ok" /\ body' = body
  BY <1>2, <1>3, KnowsStays
<1>4. CASE body'[r] = meta[coord[r]] /\ meta[coord[r]] # Absent
  <2>1. Answered(r)'
    BY <1>1, <1>2, <1>4 DEF Knows, Arrived, Answered, AtOrAfter
  <2> QED BY <1>1, <1>2, <2>1 DEF Knows, Serves, Arrived, Visited
<1>5. \/ reply'[r] # "ok" /\ body' = body
      \/ body'[r] = meta[coord[r]] /\ meta[coord[r]] # Absent
  BY <1>1 DEF GetMeta, Answer, AnswerWith, TypeOK, Parses, LifecycleState, Absent
<1> QED BY <1>3, <1>4, <1>5

LEMMA FreshStep ==
  ASSUME FreshInv, [SerialNext]_vars
  PROVE  FreshInv'
<1>1. SerialInv' /\ AbstractStep
  BY SerialStep DEF FreshInv
<1>2. TypeOK /\ \A q \in Requests : Knows(q) /\ Progress(q)
  BY DEF FreshInv, SerialInv, StoreInv
<1>3. CASE UNCHANGED vars \/ Crash
  <2>1. ASSUME NEW q \in Requests
        PROVE  Knows(q)'
    <3>1. /\ pc'[q] \in {pc[q], "idle"} /\ op'[q] = op[q] /\ coord'[q] = coord[q]
          /\ atArrival'[q] = atArrival[q] /\ body'[q] = body[q] /\ todo'[q] = todo[q]
          /\ listing'[q] = listing[q] /\ reply'[q] = reply[q]
      BY <1>3 DEF Crash, vars, request
    <3> QED BY <1>1, <3>1, KnowsStays
  <2> QED BY <1>1, <2>1 DEF FreshInv
<1>4. ASSUME NEW r \in Requests, ReceiveAny(r) \/ Handle(r) \/ IoError(r) \/ Cancel(r)
      PROVE  FreshInv'
  <2>1. ASSUME NEW q \in Requests, q # r
        PROVE  Knows(q)'
    <3>1. /\ pc'[q] = pc[q] /\ op'[q] = op[q] /\ coord'[q] = coord[q]
          /\ atArrival'[q] = atArrival[q] /\ body'[q] = body[q] /\ todo'[q] = todo[q]
          /\ listing'[q] = listing[q] /\ reply'[q] = reply[q]
      <4>1. CASE ReceiveAny(r)
        BY <1>2, <2>1, <4>1 DEF ReceiveAny, Refuse, Receive, Arrive, TypeOK
      <4>2. CASE Handle(r) \/ IoError(r) \/ Cancel(r)
        BY <1>2, <2>1, <4>2 DEF Handle, CheckExists, OpenModuleTmp, WriteModuleTmp, RenameModule,
           OpenMetaTmp, WriteMetaTmp, RenameMeta, ReadForUpdate, GetMeta, Gate, ReadModule,
           VisitEntry, FinishList, IoError, Cancel, Goto, Answer, AnswerWith, request, TypeOK
      <4> QED BY <1>4, <4>1, <4>2
    <3> QED BY <1>1, <3>1, KnowsStays
  <2>2. CASE ReceiveAny(r)
    <3>1. UNCHANGED meta
      BY <2>2, ReceiveKeepsProgress DEF FreshInv
    <3> QED BY <1>1, <2>1, <2>2, <3>1, ReceiveKnows DEF FreshInv
  <2>3. CASE VisitEntry(r)
    BY <1>1, <2>1, <2>3, VisitKnows DEF FreshInv
  <2>4. CASE GetMeta(r)
    BY <1>1, <2>1, <2>4, GetMetaKnows DEF FreshInv
  <2>5. CASE Gate(r) \/ ReadModule(r)
    <3>1. /\ UNCHANGED <<meta, op, coord, atArrival, todo, listing>>
          /\ op[r] = "content" /\ pc'[r] \in {"idle", "readModule"}
      BY <1>2, <2>5 DEF Gate, ReadModule, Goto, Answer, AnswerWith, files, request, TypeOK,
                        Knows, Serves
    <3>2. Knows(r)'
      BY <1>2, <3>1 DEF Knows, Serves, Arrived, Answered, Visited
    <3> QED BY <1>1, <2>1, <3>2 DEF FreshInv
  <2>6. CASE FinishList(r)
    <3>1. /\ pc'[r] = "idle" /\ op[r] = "list" /\ todo[r] = {}
          /\ UNCHANGED <<op, coord, atArrival, body, todo, listing>>
      BY <1>2, <2>6 DEF FinishList, Answer, request, TypeOK, Knows, Serves
    <3>2. Knows(r)'
      BY <1>1, <3>1, KnowsStays
    <3> QED BY <1>1, <2>1, <3>2 DEF FreshInv
  <2>7. CASE \/ CheckExists(r) \/ ReadForUpdate(r)
             \/ OpenModuleTmp(r) \/ WriteModuleTmp(r) \/ RenameModule(r)
             \/ OpenMetaTmp(r) \/ WriteMetaTmp(r) \/ RenameMeta(r)
    <3>1. op[r] \in {"put", "patch"}
      BY <1>2, <2>7 DEF CheckExists, ReadForUpdate, OpenModuleTmp, WriteModuleTmp, RenameModule,
           OpenMetaTmp, WriteMetaTmp, RenameMeta, Progress, Mutators, ModuleSteps, MetaSteps
    <3>2. /\ pc'[r] \in {"idle"} \cup ModuleSteps \cup MetaSteps
          /\ UNCHANGED <<op, coord, atArrival, body, todo, listing>>
      BY <1>2, <2>7 DEF CheckExists, ReadForUpdate, OpenModuleTmp, WriteModuleTmp, RenameModule,
           OpenMetaTmp, WriteMetaTmp, RenameMeta, Goto, Answer, request, TypeOK,
           ModuleSteps, MetaSteps
    <3>3. Arrived(r)' /\ Visited(r)'
      <4>1. \A c \in Coords : meta[c] # Absent =>
              meta'[c] # Absent /\ AtOrAfter(meta[c], meta'[c])
        BY <1>1, MetaMovesOn DEF FreshInv
      <4>2. \A e \in listing[r] : e[1] \in Coords
        BY <1>2 DEF TypeOK
      <4>3. \A c \in Coords : atArrival[r][c] # Absent => meta[c] # Absent
        BY <1>2 DEF Knows, Arrived, AtOrAfter, Valid, Absent
      <4>4. Arrived(r)'
        BY <1>2, <3>2, <4>1, <4>3, LaterOn DEF Knows, Arrived
      <4>5. Visited(r)'
        BY <1>2, <3>1, <3>2, <4>1, <4>2, LaterOn DEF Knows, Visited
      <4> QED BY <4>4, <4>5
    <3>4. Serves(r)' /\ Answered(r)'
      BY <3>1, <3>2 DEF Serves, Answered, ModuleSteps, MetaSteps
    <3> QED BY <1>1, <2>1, <3>3, <3>4 DEF FreshInv, Knows
  <2>8. CASE IoError(r) \/ Cancel(r)
    <3>1. /\ pc'[r] = "idle" /\ (reply'[r] = reply[r] \/ reply'[r] # "ok")
          /\ UNCHANGED <<op, coord, atArrival, body, todo, listing>>
      BY <1>2, <2>8 DEF IoError, Cancel, Goto, Answer, request, TypeOK
    <3>2. Knows(r)'
      BY <1>1, <3>1, KnowsStays
    <3> QED BY <1>1, <2>1, <3>2 DEF FreshInv
  <2> QED BY <1>4, <2>2, <2>3, <2>4, <2>5, <2>6, <2>7, <2>8 DEF Handle
<1> QED BY <1>3, <1>4 DEF SerialNext, Next

LEMMA FreshInit == Init => FreshInv
<1> SUFFICES ASSUME Init PROVE FreshInv
  OBVIOUS
<1>1. \A r \in Requests : /\ pc[r] = "idle" /\ op[r] = "none" /\ listing[r] = {}
                          /\ \A c \in Coords : atArrival[r][c] = Absent
  BY DEF Init
<1>2. \A r \in Requests : Knows(r)
  BY <1>1 DEF Knows, Serves, Arrived, Answered, Visited
<1> QED BY <1>2, SerialInit DEF FreshInv

(* GET meta answers with a state the module had between the request and    *)
(* the answer, whoever changes it meanwhile (filesystem.rs, get_meta).     *)
THEOREM MetaIsFreshCorrect == SerialSpec => []MetaIsFresh
<1>1. FreshInv => MetaIsFresh
  BY DEF FreshInv, Knows, Answered, MetaIsFresh
<1>2. FreshInv /\ [SerialNext]_vars => FreshInv'
  BY FreshStep
<1> QED BY <1>1, <1>2, FreshInit, PTL DEF SerialSpec, SerialNext

(* GET versions misses nothing that was there when it was asked, and shows *)
(* nothing older or newer than it may (filesystem.rs, list_versions).      *)
THEOREM ListIsFreshCorrect == SerialSpec => []ListIsFresh
<1>1. FreshInv => ListIsFresh
  BY DEF FreshInv, Knows, Visited, ListIsFresh
<1>2. FreshInv /\ [SerialNext]_vars => FreshInv'
  BY FreshStep
<1> QED BY <1>1, <1>2, FreshInit, PTL DEF SerialSpec, SerialNext
============================================================================
