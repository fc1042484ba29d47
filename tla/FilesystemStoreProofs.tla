----------------------- MODULE FilesystemStoreProofs -----------------------
(***************************************************************************)
(* Proofs about the registry server for every set of coordinates, texts    *)
(* and request slots.                                                      *)
(***************************************************************************)
EXTENDS StoreProperties, TLAPS

(* A request's payload fits the step it is at. *)
ArgOK ==
  \A r \in Requests :
    /\ pc[r] \in ModuleSteps \cup {"check"} => op[r] = "put" /\ arg[r] \in Contents
    /\ pc[r] = "update" => arg[r] \in LifecycleState
    /\ pc[r] \in MetaSteps => op[r] = "put" \/ arg[r] \in LifecycleState

(* A request that replaces metadata found, or put, content in place. *)
ContentBeforeMeta ==
  \A r \in Requests : pc[r] \in MetaSteps => module[coord[r]] # Absent

(* The inductive invariant behind MetaImpliesModule. *)
StoreInv == TypeOK /\ ArgOK /\ ContentBeforeMeta /\ MetaImpliesModule

(* What a write leaves in module.gmod is never "no file". *)
LEMMA ModuleOverType ==
  ASSUME NEW old \in ModuleData, NEW new \in Contents
  PROVE  ModuleOver(old, new) \subseteq ModuleData \ {Absent}
  BY ContentsAssumption DEF ModuleOver, ModuleData, Absent, Empty, Mixed

(* What a write leaves in meta.json is never "no file". *)
LEMMA MetaOverType ==
  ASSUME NEW old \in MetaData, NEW new \in LifecycleState
  PROVE  MetaOver(old, new) \subseteq MetaData \ {Absent}
  BY DEF MetaOver, MetaData, LifecycleState, Absent, Empty, Mixed

(* Storing something in one entry keeps every entry's presence.            *)
LEMMA SetEntry ==
  ASSUME NEW S, NEW f \in [Coords -> S], NEW k \in Coords, NEW d \in S \ {Absent},
         NEW g, g = [f EXCEPT ![k] = d]
  PROVE  /\ g \in [Coords -> S]
         /\ \A c \in Coords : f[c] # Absent => g[c] # Absent
         /\ \A c \in Coords : c # k => g[c] = f[c]
  OBVIOUS

(* The metadata a request at a metadata step writes is a lifecycle state. *)
LEMMA NewMetaType ==
  ASSUME ArgOK, NEW r \in Requests, pc[r] \in MetaSteps
  PROVE  NewMeta(r) \in LifecycleState
  BY DEF ArgOK, NewMeta, LifecycleState

(* The state every request starts from. *)
LEMMA StoreInit == Init => StoreInv
  BY DEF Init, StoreInv, TypeOK, ArgOK, ContentBeforeMeta, MetaImpliesModule,
         ModuleData, MetaData, Steps, ModuleSteps, MetaSteps, Replies,
         Absent, Empty, Mixed

LEMMA ReceivePreserves ==
  ASSUME StoreInv, NEW r \in Requests, ReceiveAny(r)
  PROVE  StoreInv' /\ Monotone
<1> USE DEF StoreInv, ModuleSteps, MetaSteps
<1>1. PICK c \in Coords, o \in Ops, a \in Contents \cup LifecycleState \cup {Absent},
           first \in {"idle", "check", "update", "gate", "getMeta", "readDir"} :
        /\ Arrive(r, o, c, a, first)
        /\ reply' \in {[reply EXCEPT ![r] = "none"], [reply EXCEPT ![r] = "badRequest"]}
        /\ first = "check" => o = "put" /\ a \in Contents
        /\ first = "update" => a \in LifecycleState
  BY DEF ReceiveAny, Refuse, Receive, Arrive
<1>2. TypeOK'
  <2>1. atArrival' \in [Requests -> [Coords -> MetaData]]
    BY <1>1 DEF TypeOK, Arrive, MetaData
  <2>2. /\ UNCHANGED <<module, moduleTmp, meta, metaTmp, fd>>
        /\ pc' = [pc EXCEPT ![r] = first] /\ op' = [op EXCEPT ![r] = o]
        /\ coord' = [coord EXCEPT ![r] = c] /\ arg' = [arg EXCEPT ![r] = a]
        /\ todo' \in [Requests -> SUBSET Coords]
        /\ listing' = [listing EXCEPT ![r] = {}] /\ body' = [body EXCEPT ![r] = Absent]
    BY <1>1 DEF TypeOK, Arrive, files
  <2> QED BY <1>1, <2>1, <2>2 DEF TypeOK, Steps, Replies, ModuleData
<1>3. UNCHANGED files
  BY <1>1 DEF Arrive
<1>4. /\ pc' = [pc EXCEPT ![r] = first] /\ op' = [op EXCEPT ![r] = o]
      /\ coord' = [coord EXCEPT ![r] = c] /\ arg' = [arg EXCEPT ![r] = a]
  BY <1>1 DEF Arrive
<1>5. ArgOK'
  BY <1>1, <1>4 DEF ArgOK, TypeOK
<1>6. ContentBeforeMeta'
  BY <1>1, <1>3, <1>4 DEF ContentBeforeMeta, TypeOK, files
<1>7. MetaImpliesModule' /\ Monotone
  BY <1>3 DEF MetaImpliesModule, Monotone, files
<1> QED BY <1>2, <1>5, <1>6, <1>7

(* The steps that write module.gmod. *)
LEMMA ModuleStepPreserves ==
  ASSUME StoreInv, NEW r \in Requests,
         OpenModuleTmp(r) \/ WriteModuleTmp(r) \/ RenameModule(r)
  PROVE  StoreInv' /\ Monotone
<1> USE DEF StoreInv, ModuleSteps, MetaSteps
<1>1. CASE OpenModuleTmp(r)
  BY <1>1 DEF OpenModuleTmp, Goto, request, TypeOK, ArgOK, ContentBeforeMeta,
              MetaImpliesModule, Monotone, Steps, ModuleData, NewMeta
<1>2. CASE WriteModuleTmp(r)
  <2>1. /\ moduleTmp' \in [Coords -> ModuleData] /\ module' \in [Coords -> ModuleData]
        /\ \A c \in Coords : module[c] # Absent => module'[c] # Absent
    <3>1. /\ ModuleOver(moduleTmp[coord[r]], arg[r]) \subseteq ModuleData \ {Absent}
          /\ ModuleOver(module[coord[r]], arg[r]) \subseteq ModuleData \ {Absent}
      BY <1>2, ModuleOverType DEF WriteModuleTmp, TypeOK, ArgOK
    <3>2. \/ \E d \in ModuleData \ {Absent} :
                 moduleTmp' = [moduleTmp EXCEPT ![coord[r]] = d] /\ module' = module
          \/ \E d \in ModuleData \ {Absent} :
                 module' = [module EXCEPT ![coord[r]] = d] /\ moduleTmp' = moduleTmp
          \/ UNCHANGED <<module, moduleTmp>>
      BY <1>2, <3>1 DEF WriteModuleTmp
    <3>3. coord[r] \in Coords /\ module \in [Coords -> ModuleData]
          /\ moduleTmp \in [Coords -> ModuleData]
      BY DEF TypeOK
    <3> QED BY <3>2, <3>3, SetEntry
  <2>2. /\ pc' = [pc EXCEPT ![r] = "renameModule"]
        /\ fd' = [fd EXCEPT ![r] = "closed"]
        /\ pc[r] = "writeModule"
        /\ UNCHANGED <<meta, metaTmp, op, coord, arg, atArrival, todo, listing, reply, body>>
    BY <1>2 DEF WriteModuleTmp, Goto, request
  <2>3. TypeOK'
    BY <2>1, <2>2 DEF TypeOK, Steps
  <2>4. ArgOK'
    BY <2>2 DEF TypeOK, ArgOK
  <2>5. ContentBeforeMeta' /\ MetaImpliesModule' /\ Monotone
    BY <2>1, <2>2 DEF TypeOK, ContentBeforeMeta, MetaImpliesModule, Monotone
  <2> QED BY <2>3, <2>4, <2>5
<1>3. CASE RenameModule(r)
  <2>1. CASE moduleTmp[coord[r]] = Absent
    BY <1>3, <2>1 DEF RenameModule, Answer, request, TypeOK, ArgOK, ContentBeforeMeta,
                      MetaImpliesModule, Monotone, Steps, Replies
  <2>2. CASE moduleTmp[coord[r]] # Absent
    <3>1. fd' \in [Requests -> {"closed", "tmp", "final", "unlinked"}]
      BY <1>3, <2>2 DEF RenameModule, Relinked, TypeOK
    <3>2. /\ module' = [module EXCEPT ![coord[r]] = moduleTmp[coord[r]]]
          /\ moduleTmp' = [moduleTmp EXCEPT ![coord[r]] = Absent]
          /\ pc' = [pc EXCEPT ![r] = "openMeta"]
          /\ pc[r] = "renameModule"
          /\ UNCHANGED <<meta, metaTmp, op, coord, arg, atArrival, todo, listing, reply, body>>
      BY <1>3, <2>2 DEF RenameModule, Goto, request
    <3> QED BY <3>1, <3>2, <2>2 DEF TypeOK, ArgOK, ContentBeforeMeta,
                                    MetaImpliesModule, Monotone, Steps, ModuleData
  <2> QED BY <2>1, <2>2
<1> QED BY <1>1, <1>2, <1>3

(* The steps that write meta.json. *)
LEMMA MetaStepPreserves ==
  ASSUME StoreInv, NEW r \in Requests,
         OpenMetaTmp(r) \/ WriteMetaTmp(r) \/ RenameMeta(r)
  PROVE  StoreInv' /\ Monotone
<1> USE DEF StoreInv, ModuleSteps, MetaSteps
<1>1. CASE OpenMetaTmp(r)
  BY <1>1 DEF OpenMetaTmp, Goto, request, TypeOK, ArgOK, ContentBeforeMeta,
              MetaImpliesModule, Monotone, Steps, MetaData
<1>2. CASE WriteMetaTmp(r)
  <2>1. pc[r] = "writeMeta" /\ NewMeta(r) \in LifecycleState
    BY <1>2, NewMetaType DEF WriteMetaTmp
  <2>2. /\ metaTmp' \in [Coords -> MetaData] /\ meta' \in [Coords -> MetaData]
        /\ \A c \in Coords : meta[c] # Absent => meta'[c] # Absent
        /\ \A c \in Coords : c # coord[r] => meta'[c] = meta[c]
    <3>1. /\ MetaOver(metaTmp[coord[r]], NewMeta(r)) \subseteq MetaData \ {Absent}
          /\ MetaOver(meta[coord[r]], NewMeta(r)) \subseteq MetaData \ {Absent}
      BY <2>1, MetaOverType DEF TypeOK
    <3>2. \/ \E d \in MetaData \ {Absent} :
                 metaTmp' = [metaTmp EXCEPT ![coord[r]] = d] /\ meta' = meta
          \/ \E d \in MetaData \ {Absent} :
                 meta' = [meta EXCEPT ![coord[r]] = d] /\ metaTmp' = metaTmp
          \/ UNCHANGED <<meta, metaTmp>>
      BY <1>2, <3>1 DEF WriteMetaTmp
    <3> QED BY <3>2, SetEntry DEF TypeOK
  <2>3. /\ pc' = [pc EXCEPT ![r] = "renameMeta"]
        /\ fd' = [fd EXCEPT ![r] = "closed"]
        /\ UNCHANGED <<module, moduleTmp, op, coord, arg, atArrival, todo, listing, reply, body>>
    BY <1>2 DEF WriteMetaTmp, Goto, request
  <2>4. TypeOK'
    BY <2>2, <2>3 DEF TypeOK, Steps
  <2>5. ArgOK' /\ ContentBeforeMeta'
    <3>1. ArgOK'
      BY <2>1, <2>3 DEF TypeOK, ArgOK
    <3>2. ContentBeforeMeta'
      BY <2>1, <2>3 DEF TypeOK, ContentBeforeMeta
    <3> QED BY <3>1, <3>2
  <2>6. MetaImpliesModule' /\ Monotone
    BY <2>1, <2>2, <2>3 DEF TypeOK, ContentBeforeMeta, MetaImpliesModule, Monotone
  <2> QED BY <2>4, <2>5, <2>6
<1>3. CASE RenameMeta(r)
  <2>1. CASE metaTmp[coord[r]] = Absent
    <3>1. /\ pc' = [pc EXCEPT ![r] = "idle"]
          /\ reply' = [reply EXCEPT ![r] = "internal"]
          /\ UNCHANGED <<module, moduleTmp, meta, metaTmp, fd, op, coord, arg,
                         atArrival, todo, listing, body>>
      BY <1>3, <2>1 DEF RenameMeta, Answer, request
    <3> QED BY <3>1 DEF TypeOK, ArgOK, ContentBeforeMeta, MetaImpliesModule,
                        Monotone, Steps, Replies
  <2>2. CASE metaTmp[coord[r]] # Absent
    <3>1. fd' \in [Requests -> {"closed", "tmp", "final", "unlinked"}]
      BY <1>3, <2>2 DEF RenameMeta, Relinked, TypeOK
    <3>2. /\ meta' = [meta EXCEPT ![coord[r]] = metaTmp[coord[r]]]
          /\ metaTmp' = [metaTmp EXCEPT ![coord[r]] = Absent]
          /\ pc' = [pc EXCEPT ![r] = "idle"]
          /\ reply' = [reply EXCEPT ![r] = "ok"]
          /\ pc[r] = "renameMeta"
          /\ UNCHANGED <<module, moduleTmp, op, coord, arg, atArrival, todo, listing, body>>
      BY <1>3, <2>2 DEF RenameMeta, Answer, request
    <3> QED BY <3>1, <3>2, <2>2 DEF TypeOK, ArgOK, ContentBeforeMeta,
                            MetaImpliesModule, Monotone, Steps, MetaData, Replies
  <2> QED BY <2>1, <2>2
<1> QED BY <1>1, <1>2, <1>3

(* The steps that change no file. *)
Reading(r) == \/ CheckExists(r) \/ ReadForUpdate(r) \/ GetMeta(r) \/ Gate(r)
              \/ ReadModule(r) \/ VisitEntry(r) \/ FinishList(r)
              \/ IoError(r) \/ Cancel(r)

LEMMA ReadStepPreserves ==
  ASSUME StoreInv, NEW r \in Requests, Reading(r)
  PROVE  StoreInv' /\ Monotone
<1> USE DEF StoreInv, ModuleSteps, MetaSteps
<1>1. /\ UNCHANGED <<module, moduleTmp, meta, metaTmp, op, coord, arg, atArrival>>
      /\ fd' \in {fd, [fd EXCEPT ![r] = "closed"]}
  BY DEF Reading, CheckExists, ReadForUpdate, GetMeta, Gate, ReadModule, VisitEntry,
         FinishList, IoError, Cancel, Goto, Answer, AnswerWith, files, request
<1>2. \E step \in {"idle", "openModule", "openMeta", "readModule", pc[r]} :
         /\ pc' = [pc EXCEPT ![r] = step]
         /\ step = "openModule" => pc[r] = "check"
         /\ step = "openMeta" => pc[r] = "update" /\ Parses(meta[coord[r]])
         /\ step = pc[r] => pc[r] = "readDir"
  <2>1. CASE CheckExists(r)  BY <2>1 DEF CheckExists, Goto, Answer, TypeOK
  <2>2. CASE ReadForUpdate(r)  BY <2>2 DEF ReadForUpdate, Goto, Answer, TypeOK
  <2>3. CASE GetMeta(r)  BY <2>3 DEF GetMeta, Answer, AnswerWith, TypeOK
  <2>4. CASE Gate(r)  BY <2>4 DEF Gate, Goto, Answer, TypeOK
  <2>5. CASE ReadModule(r)  BY <2>5 DEF ReadModule, Answer, AnswerWith, TypeOK
  <2>6. CASE VisitEntry(r)  BY <2>6 DEF VisitEntry, TypeOK
  <2>7. CASE FinishList(r)  BY <2>7 DEF FinishList, Answer, TypeOK
  <2>8. CASE IoError(r)  BY <2>8 DEF IoError, Answer, TypeOK
  <2>9. CASE Cancel(r)  BY <2>9 DEF Cancel, Goto, TypeOK
  <2> QED BY <2>1, <2>2, <2>3, <2>4, <2>5, <2>6, <2>7, <2>8, <2>9 DEF Reading
<1>3. /\ todo' \in [Requests -> SUBSET Coords]
      /\ listing' \in [Requests -> SUBSET (Coords \X LifecycleState)]
      /\ reply' \in [Requests -> Replies]
      /\ body' \in [Requests -> ModuleData \cup MetaData]
  <2>1. CASE CheckExists(r)  BY <2>1 DEF CheckExists, Goto, Answer, TypeOK, Replies, Parses
  <2>2. CASE ReadForUpdate(r)  BY <2>2 DEF ReadForUpdate, Goto, Answer, TypeOK, Replies, Parses
  <2>3. CASE GetMeta(r)
    <3>1. /\ meta[coord[r]] \in MetaData
          /\ reply \in [Requests -> Replies]
          /\ body \in [Requests -> ModuleData \cup MetaData]
      BY DEF TypeOK
    <3>2. \/ body' = body
          \/ body' = [body EXCEPT ![r] = meta[coord[r]]]
      BY <2>3 DEF GetMeta, Answer, AnswerWith
    <3>3. \E code \in Replies : reply' = [reply EXCEPT ![r] = code]
      BY <2>3 DEF GetMeta, Answer, AnswerWith, Replies
    <3>4. UNCHANGED <<todo, listing>>
      BY <2>3 DEF GetMeta, Answer, AnswerWith
    <3> QED BY <3>1, <3>2, <3>3, <3>4 DEF TypeOK
  <2>4. CASE Gate(r)  BY <2>4 DEF Gate, Goto, Answer, TypeOK, Replies, Parses
  <2>5. CASE ReadModule(r)
    <3>1. /\ module[coord[r]] \in ModuleData
          /\ reply \in [Requests -> Replies]
          /\ body \in [Requests -> ModuleData \cup MetaData]
      BY DEF TypeOK
    <3>2. \/ body' = body
          \/ body' = [body EXCEPT ![r] = module[coord[r]]]
      BY <2>5 DEF ReadModule, Answer, AnswerWith
    <3>3. \E code \in Replies : reply' = [reply EXCEPT ![r] = code]
      BY <2>5 DEF ReadModule, Answer, AnswerWith, Replies
    <3>4. UNCHANGED <<todo, listing>>
      BY <2>5 DEF ReadModule, Answer, AnswerWith
    <3> QED BY <3>1, <3>2, <3>3, <3>4 DEF TypeOK
  <2>6. CASE VisitEntry(r)  BY <2>6 DEF VisitEntry, TypeOK, Replies, Parses
  <2>7. CASE FinishList(r)  BY <2>7 DEF FinishList, Answer, TypeOK, Replies, Parses
  <2>8. CASE IoError(r)  BY <2>8 DEF IoError, Answer, TypeOK, Replies, Parses
  <2>9. CASE Cancel(r)  BY <2>9 DEF Cancel, Goto, TypeOK, Replies, Parses
  <2> QED BY <2>1, <2>2, <2>3, <2>4, <2>5, <2>6, <2>7, <2>8, <2>9 DEF Reading
<1>4. TypeOK'
  <2>1. pc' \in [Requests -> Steps]
    BY <1>2 DEF TypeOK, Steps
  <2>2. fd' \in [Requests -> {"closed", "tmp", "final", "unlinked"}]
    BY <1>1 DEF TypeOK
  <2> QED BY <1>1, <1>3, <2>1, <2>2 DEF TypeOK
<1>5. ArgOK'
  BY <1>1, <1>2 DEF TypeOK, ArgOK
<1>6. ContentBeforeMeta'
  BY <1>1, <1>2 DEF TypeOK, ContentBeforeMeta, MetaImpliesModule, Parses,
                    LifecycleState, Absent
<1>7. MetaImpliesModule' /\ Monotone
  BY <1>1 DEF MetaImpliesModule, Monotone
<1> QED BY <1>4, <1>5, <1>6, <1>7

LEMMA CrashPreserves ==
  ASSUME StoreInv, Crash
  PROVE  StoreInv' /\ Monotone
  BY DEF Crash, files, request, StoreInv, TypeOK, ArgOK, ContentBeforeMeta,
         MetaImpliesModule, Monotone, Steps, ModuleSteps, MetaSteps

LEMMA StoreStep == StoreInv /\ [Next]_vars => StoreInv' /\ Monotone
<1> SUFFICES ASSUME StoreInv, [Next]_vars PROVE StoreInv' /\ Monotone
  OBVIOUS
<1>1. CASE Crash
  BY <1>1, CrashPreserves
<1>2. ASSUME NEW r \in Requests, ReceiveAny(r) PROVE StoreInv' /\ Monotone
  BY <1>2, ReceivePreserves
<1>3. ASSUME NEW r \in Requests, Handle(r) \/ IoError(r) \/ Cancel(r)
      PROVE  StoreInv' /\ Monotone
  BY <1>3, ModuleStepPreserves, MetaStepPreserves, ReadStepPreserves DEF Handle, Reading
<1>4. CASE UNCHANGED vars
  BY <1>4 DEF vars, files, request, StoreInv, TypeOK, ArgOK, ContentBeforeMeta,
              MetaImpliesModule, Monotone
<1> QED BY <1>1, <1>2, <1>3, <1>4 DEF Next

(* Every variable of the server stays in its type. *)
THEOREM TypeCorrect == Spec => []TypeOK
  BY StoreInit, StoreStep, PTL DEF Spec, StoreInv

(* Whatever requests race, fail or are cut short, metadata is only ever    *)
(* shown for a coordinate that has content.                                *)
THEOREM MetaImpliesModuleCorrect == Spec => []MetaImpliesModule
  BY StoreInit, StoreStep, PTL DEF Spec, StoreInv

(* A published coordinate stays published. *)
THEOREM PublishedForeverCorrect == Spec => PublishedForever
<1>1. StoreInv /\ [Next]_vars => [Monotone]_vars
  BY StoreStep
<1> QED BY <1>1, StoreInit, StoreStep, PTL DEF Spec, PublishedForever

(* Which steps take a request into the module steps, and which of them     *)
(* change a coordinate's content.                                          *)
LEMMA SettledStep ==
  ASSUME StoreInv, [Next]_vars
  PROVE  SettledStays
<1> USE DEF ModuleSteps, MetaSteps
<1>1. SUFFICES ASSUME NEW c \in Coords, Settled(c)
               PROVE  module'[c] = module[c] /\ Settled(c)'
  BY DEF SettledStays
<1>2. \A r \in Requests : coord[r] = c => pc[r] \notin ModuleSteps
  BY <1>1 DEF Settled
<1>t. TypeOK
  BY DEF StoreInv
<1>3. ASSUME module'[c] = module[c],
             \A r \in Requests : coord'[r] = c => pc'[r] \notin ModuleSteps
      PROVE  module'[c] = module[c] /\ Settled(c)'
  BY <1>1, <1>3 DEF Settled
<1>4. CASE Crash
  BY <1>2, <1>3, <1>4 DEF Crash, files, request
<1>5. ASSUME NEW r \in Requests, ReceiveAny(r)
      PROVE  module'[c] = module[c] /\ Settled(c)'
  <2>1. /\ UNCHANGED module
        /\ \A q \in Requests \ {r} : coord'[q] = coord[q] /\ pc'[q] = pc[q]
        /\ pc'[r] \notin ModuleSteps
    BY <1>5, <1>t DEF ReceiveAny, Refuse, Receive, Arrive, files, TypeOK
  <2> QED BY <1>2, <1>3, <2>1
<1>6. ASSUME NEW r \in Requests, Reading(r)
      PROVE  module'[c] = module[c] /\ Settled(c)'
  <2>1. UNCHANGED <<module, coord>>
    BY <1>6 DEF Reading, CheckExists, ReadForUpdate, GetMeta, Gate, ReadModule, VisitEntry,
         FinishList, IoError, Cancel, Goto, Answer, AnswerWith, files, request
  <2>2. \A q \in Requests \ {r} : pc'[q] = pc[q]
    BY <1>6, <1>t DEF Reading, CheckExists, ReadForUpdate, GetMeta, Gate, ReadModule,
         VisitEntry, FinishList, IoError, Cancel, Goto, Answer, AnswerWith, TypeOK
  <2>3. coord[r] = c => pc'[r] \notin ModuleSteps
    <3>1. CASE CheckExists(r)
      BY <3>1, <1>1, <1>t DEF CheckExists, Goto, Answer, Settled, TypeOK
    <3>2. CASE VisitEntry(r)
      BY <3>2, <1>2 DEF VisitEntry
    <3>3. CASE ~CheckExists(r) /\ ~VisitEntry(r)
      BY <1>6, <3>3, <1>t DEF Reading, ReadForUpdate, GetMeta, Gate, ReadModule,
         FinishList, IoError, Cancel, Goto, Answer, AnswerWith, TypeOK
    <3> QED BY <3>1, <3>2, <3>3
  <2> QED BY <1>2, <1>3, <2>1, <2>2, <2>3
<1>7. ASSUME NEW r \in Requests,
             OpenModuleTmp(r) \/ WriteModuleTmp(r) \/ RenameModule(r)
      PROVE  module'[c] = module[c] /\ Settled(c)'
  <2>1. coord[r] # c
    BY <1>7, <1>2 DEF OpenModuleTmp, WriteModuleTmp, RenameModule
  <2>2. module'[c] = module[c]
    BY <1>7, <2>1, <1>t DEF OpenModuleTmp, WriteModuleTmp, RenameModule, TypeOK
  <2>3. UNCHANGED coord /\ \A q \in Requests \ {r} : pc'[q] = pc[q]
    BY <1>7, <1>t DEF OpenModuleTmp, WriteModuleTmp, RenameModule, Goto, Answer,
                      request, TypeOK
  <2> QED BY <1>2, <1>3, <2>1, <2>2, <2>3
<1>8. ASSUME NEW r \in Requests,
             OpenMetaTmp(r) \/ WriteMetaTmp(r) \/ RenameMeta(r)
      PROVE  module'[c] = module[c] /\ Settled(c)'
  <2>1. /\ UNCHANGED <<module, coord>>
        /\ \A q \in Requests \ {r} : pc'[q] = pc[q]
        /\ pc'[r] \notin ModuleSteps
    BY <1>8, <1>t DEF OpenMetaTmp, WriteMetaTmp, RenameMeta, Goto, Answer, request, TypeOK
  <2> QED BY <1>2, <1>3, <2>1
<1>9. CASE UNCHANGED vars
  BY <1>2, <1>3, <1>9 DEF vars, files, request
<1> QED BY <1>4, <1>5, <1>6, <1>7, <1>8, <1>9 DEF Next, Handle, Reading

(* Once every put that raced for a coordinate is past its rename, the      *)
(* coordinate's content is fixed for good.                                 *)
THEOREM SettledModuleImmutableCorrect == Spec => SettledModuleImmutable
<1>1. StoreInv /\ [Next]_vars => [SettledStays]_vars
  BY SettledStep
<1> QED BY <1>1, StoreInit, StoreStep, PTL DEF Spec, SettledModuleImmutable
============================================================================
