-------------------------- MODULE StoreRacesProofs --------------------------
(***************************************************************************)
(* While no two puts of a coordinate overlap, its content is set once and  *)
(* served whole, and racing lifecycle changes skip no state: proved for    *)
(* every set of coordinates, texts, request slots and faults.              *)
(***************************************************************************)
EXTENDS StoreRaces, FilesystemStoreProofs

(* How far a request has got while no puts race.  A put finds its          *)
(* coordinate empty until its own renames; a patch holds a document that   *)
(* was validated against a state at least as new as the one it replaces.   *)
Endpoint(r) ==
  /\ pc[r] \in {"gate", "readModule"} => op[r] = "content"
  /\ pc[r] = "getMeta" => op[r] = "meta"
  /\ pc[r] = "readDir" => op[r] = "list"
  /\ pc[r] = "update" => op[r] = "patch"
  /\ pc[r] \in MetaSteps => op[r] \in {"put", "patch"}

Putting(r) ==
  /\ pc[r] \in ModuleSteps => module[coord[r]] = Absent
  /\ pc[r] = "writeModule" => fd[r] = "tmp" /\ moduleTmp[coord[r]] = Empty
  /\ pc[r] = "renameModule" => moduleTmp[coord[r]] = arg[r]
  /\ pc[r] \in MetaSteps /\ op[r] = "put" =>
       meta[coord[r]] = Absent /\ module[coord[r]] = arg[r]
  /\ pc[r] = "writeMeta" /\ op[r] = "put" => fd[r] = "tmp"

Patching(r) ==
  pc[r] \in MetaSteps /\ op[r] = "patch" =>
    /\ meta[coord[r]] # Absent
    /\ arg[r] = "deprecated" \/ (arg[r] = "retired" /\ meta[coord[r]] # "active")

Serving(r) ==
  op[r] = "content" /\ reply[r] = "ok" =>
    body[r] \in Contents /\ body[r] = module[coord[r]]

(* A put that was answered 201 is what the coordinate carries and shows.   *)
Reported(r) ==
  op[r] = "put" /\ reply[r] = "ok" => module[coord[r]] = arg[r] /\ meta[coord[r]] # Absent

Own(r) == Endpoint(r) /\ Putting(r) /\ Patching(r) /\ Serving(r) /\ Reported(r)

(* What a shared temporary file can make of a coordinate's metadata.       *)
TmpOK(c) ==
  /\ meta[c] # Absent => metaTmp[c] # "active"
  /\ meta[c] = "active" => metaTmp[c] \in {Absent, Empty, Mixed, "deprecated"}

SoloInv ==
  /\ Alone({"put"})
  /\ module \in [Coords -> Contents \cup {Absent}]
  /\ \A c \in Coords : TmpOK(c)
  /\ \A r \in Requests : Own(r)

RaceInv == StoreInv /\ solo \in BOOLEAN /\ (solo => SoloInv)

(* What a step may do to the final files of a coordinate.                  *)
Moves(c) ==
  /\ module'[c] \in Contents \cup {Absent}
  /\ module[c] # Absent => module'[c] = module[c]
  /\ meta[c] # Absent => meta'[c] # Absent
  /\ meta[c] # Absent /\ meta'[c] = "active" => meta[c] = "active"
  /\ meta[c] = "active" => meta'[c] \notin {"beta", "retired", Absent}

RaceNext == Next /\ solo' = (solo /\ Alone({"put"})')

(* A step that moves one request keeps what SoloInv says of the others.    *)
LEMMA SoloMoves ==
  ASSUME SoloInv, StoreInv, NEW c \in Coords, module'[c] = module[c], meta'[c] = meta[c]
  PROVE  Moves(c)
<1>1. module[c] \in Contents \cup {Absent}
  BY DEF SoloInv
<1> QED BY <1>1 DEF Moves, Absent

(* A request that does not step keeps what it knows when the files move    *)
(* and its own temporary file is left alone.                               *)
LEMMA OwnStays ==
  ASSUME SoloInv, StoreInv, NEW q \in Requests, Moves(coord[q]),
         pc'[q] = pc[q], op'[q] = op[q], coord'[q] = coord[q], arg'[q] = arg[q],
         reply'[q] = reply[q], body'[q] = body[q],
         pc[q] \in ModuleSteps =>
           /\ module'[coord[q]] = module[coord[q]]
           /\ moduleTmp'[coord[q]] = moduleTmp[coord[q]]
           /\ fd'[q] = fd[q],
         pc[q] \in MetaSteps /\ op[q] = "put" =>
           meta'[coord[q]] = meta[coord[q]] /\ fd'[q] = fd[q]
  PROVE  Own(q)'
<1>1. Own(q) /\ coord[q] \in Coords
  BY DEF SoloInv, StoreInv, TypeOK
<1>2. Endpoint(q)'
  BY <1>1 DEF Own, Endpoint
<1>3. Putting(q)'
  <2>1. pc[q] \in MetaSteps => module[coord[q]] # Absent
    BY DEF StoreInv, ContentBeforeMeta
  <2> QED BY <1>1, <2>1 DEF Own, Putting, Moves, ModuleSteps, MetaSteps
<1>4. Patching(q)'
  BY <1>1 DEF Own, Patching, Moves
<1>5. Serving(q)'
  BY <1>1, ContentsAssumption DEF Own, Serving, Moves
<1>6. Reported(q)'
  BY <1>1 DEF Own, Reported, Moves, StoreInv, MetaImpliesModule
<1> QED BY <1>2, <1>3, <1>4, <1>5, <1>6 DEF Own

(* Two puts in flight are at different coordinates; a patch that replaces  *)
(* metadata is not at the coordinate of a put.                             *)
LEMMA PutsApart ==
  ASSUME SoloInv, StoreInv, NEW q \in Requests, NEW r \in Requests, q # r,
         \/ pc[q] \in ModuleSteps
         \/ pc[q] \in MetaSteps /\ op[q] = "put",
         pc[r] \in ModuleSteps \cup MetaSteps
  PROVE  \/ coord[q] # coord[r]
         \/ pc[q] \in ModuleSteps /\ pc[r] \in MetaSteps
<1> USE DEF ModuleSteps, MetaSteps
<1>1. op[q] = "put" /\ pc[q] # "idle" /\ pc[r] # "idle"
  BY DEF StoreInv, ArgOK
<1>2. CASE op[r] = "put"
  BY <1>1, <1>2 DEF SoloInv, Alone, InFlight
<1>3. CASE op[r] # "put"
  <2>1. pc[r] \in MetaSteps /\ op[r] = "patch"
    BY <1>3 DEF StoreInv, ArgOK, SoloInv, Own, Endpoint
  <2>2. meta[coord[r]] # Absent
    BY <2>1 DEF SoloInv, Own, Patching
  <2>3. CASE pc[q] \in MetaSteps /\ op[q] = "put"
    BY <2>2, <2>3 DEF SoloInv, Own, Putting
  <2> QED BY <2>1, <2>3
<1> QED BY <1>2, <1>3

(* The steps of a put that write module.gmod. *)
LEMMA ModuleStepSolo ==
  ASSUME SoloInv, StoreInv, NEW r \in Requests,
         OpenModuleTmp(r) \/ WriteModuleTmp(r) \/ RenameModule(r)
  PROVE  /\ module' \in [Coords -> Contents \cup {Absent}]
         /\ \A c \in Coords : Moves(c) /\ TmpOK(c)'
         /\ Own(r)'
<1> USE DEF ModuleSteps, MetaSteps
<1>1. /\ TypeOK /\ ArgOK /\ MetaImpliesModule /\ Own(r) /\ coord[r] \in Coords
      /\ module \in [Coords -> Contents \cup {Absent}]
  BY DEF SoloInv, StoreInv, TypeOK
<1>2. /\ UNCHANGED <<meta, metaTmp, op, coord, arg, body>>
      /\ pc[r] \in ModuleSteps /\ op[r] = "put" /\ arg[r] \in Contents
  BY <1>1 DEF OpenModuleTmp, WriteModuleTmp, RenameModule, Goto, Answer, request, ArgOK
<1>3. \A c \in Coords : TmpOK(c)'
  BY <1>2 DEF SoloInv, TmpOK
<1>4. module[coord[r]] = Absent /\ meta[coord[r]] = Absent
  BY <1>1, <1>2 DEF Own, Putting, MetaImpliesModule
<1>5. \/ module' = module
      \/ module' = [module EXCEPT ![coord[r]] = arg[r]]
  BY <1>1 DEF OpenModuleTmp, WriteModuleTmp, RenameModule, Own, Putting
<1>6. module' \in [Coords -> Contents \cup {Absent}]
  BY <1>1, <1>2, <1>5
<1>7. \A c \in Coords : Moves(c)
  <2>1. \A c \in Coords : module[c] # Absent => module'[c] = module[c]
    BY <1>1, <1>4, <1>5
  <2> QED BY <1>2, <1>6, <2>1 DEF Moves, Absent
<1>8. reply'[r] # "ok"
  <2>1. reply[r] # "ok"
    BY <1>1, <1>2, <1>4 DEF Own, Reported
  <2> QED BY <1>1, <2>1 DEF OpenModuleTmp, WriteModuleTmp, RenameModule, Goto, Answer, TypeOK
<1>9. Own(r)'
  <2>1. CASE OpenModuleTmp(r)
    <3>1. /\ pc'[r] = "writeModule" /\ fd'[r] = "tmp" /\ moduleTmp'[coord[r]] = Empty
          /\ module' = module
      BY <1>1, <2>1 DEF OpenModuleTmp, Goto, TypeOK
    <3> QED BY <1>2, <1>4, <1>8, <3>1 DEF Own, Endpoint, Putting, Patching, Serving, Reported
  <2>2. CASE WriteModuleTmp(r)
    <3>1. moduleTmp[coord[r]] = Empty /\ fd[r] = "tmp"
      BY <1>1, <2>2 DEF WriteModuleTmp, Own, Putting
    <3>2. ModuleOver(Empty, arg[r]) = {arg[r]}
      BY DEF ModuleOver
    <3>3. /\ pc'[r] = "renameModule" /\ moduleTmp'[coord[r]] = arg[r]
          /\ module' = module
      BY <1>1, <2>2, <3>1, <3>2 DEF WriteModuleTmp, Goto, TypeOK
    <3> QED BY <1>2, <1>4, <1>8, <3>3 DEF Own, Endpoint, Putting, Patching, Serving, Reported
  <2>3. CASE RenameModule(r)
    <3>1. /\ pc'[r] \in {"openMeta", "idle"}
          /\ pc'[r] = "openMeta" => module'[coord[r]] = arg[r]
      BY <1>1, <2>3 DEF RenameModule, Goto, Answer, TypeOK, Own, Putting
    <3> QED BY <1>2, <1>4, <1>8, <3>1 DEF Own, Endpoint, Putting, Patching, Serving, Reported
  <2> QED BY <2>1, <2>2, <2>3
<1> QED BY <1>3, <1>6, <1>7, <1>9

(* A whole document written over any other one is that document.           *)
LEMMA MetaOverIsNew ==
  ASSUME NEW old, NEW new
  PROVE  MetaOver(old, new) \subseteq {new, Mixed}
  BY DEF MetaOver

(* The steps of a put or a patch that write meta.json.                     *)
LEMMA MetaStepSolo ==
  ASSUME SoloInv, StoreInv, NEW r \in Requests,
         OpenMetaTmp(r) \/ WriteMetaTmp(r) \/ RenameMeta(r)
  PROVE  /\ module' \in [Coords -> Contents \cup {Absent}]
         /\ \A c \in Coords : Moves(c) /\ TmpOK(c)'
         /\ Own(r)'
<1> USE DEF ModuleSteps, MetaSteps
<1>1. /\ TypeOK /\ ArgOK /\ Own(r) /\ coord[r] \in Coords
      /\ module \in [Coords -> Contents \cup {Absent}]
      /\ \A c \in Coords : TmpOK(c)
  BY DEF SoloInv, StoreInv, TypeOK
<1>2. /\ UNCHANGED <<module, moduleTmp, op, coord, arg, body>>
      /\ pc[r] \in MetaSteps /\ op[r] \in {"put", "patch"}
  BY <1>1 DEF OpenMetaTmp, WriteMetaTmp, RenameMeta, Goto, Answer, request, Own, Endpoint
<1>3. \A c \in Coords : c # coord[r] => meta'[c] = meta[c] /\ metaTmp'[c] = metaTmp[c]
  BY <1>1 DEF OpenMetaTmp, WriteMetaTmp, RenameMeta, TypeOK
<1>4. \A c \in Coords : c # coord[r] => Moves(c) /\ TmpOK(c)'
  BY <1>1, <1>2, <1>3, SoloMoves DEF TmpOK
<1>5. /\ op[r] = "put" => meta[coord[r]] = Absent /\ module[coord[r]] = arg[r]
      /\ op[r] = "patch" =>
           /\ meta[coord[r]] # Absent
           /\ arg[r] = "deprecated" \/ (arg[r] = "retired" /\ meta[coord[r]] # "active")
      /\ op[r] = "put" /\ pc[r] = "writeMeta" => fd[r] = "tmp"
  BY <1>1, <1>2 DEF Own, Putting, Patching
<1>6. Serving(r)' /\ (op[r] = "put" => reply[r] # "ok")
  BY <1>1, <1>2, <1>5 DEF Own, Reported, Serving
<1>7. CASE OpenMetaTmp(r)
  <2>1. /\ pc'[r] = "writeMeta" /\ fd'[r] = "tmp" /\ metaTmp'[coord[r]] = Empty /\ meta' = meta
    BY <1>1, <1>7 DEF OpenMetaTmp, Goto, TypeOK
  <2>2. Moves(coord[r])
    BY <1>1, <1>2, <2>1, SoloMoves
  <2>3. TmpOK(coord[r])'
    BY <1>2, <2>1 DEF TmpOK, Empty
  <2>4. Own(r)'
    BY <1>1, <1>2, <1>5, <1>6, <1>7, <2>1
       DEF OpenMetaTmp, Goto, Own, Endpoint, Putting, Patching, Reported
  <2> QED BY <1>1, <1>2, <1>4, <2>2, <2>3, <2>4
<1>8. CASE WriteMetaTmp(r)
  <2>1. \/ /\ fd[r] = "tmp" /\ meta' = meta
           /\ metaTmp'[coord[r]] \in {NewMeta(r), Mixed}
        \/ /\ fd[r] = "final" /\ metaTmp' = metaTmp
           /\ meta'[coord[r]] \in {NewMeta(r), Mixed}
        \/ meta' = meta /\ metaTmp' = metaTmp
    BY <1>1, <1>8, MetaOverIsNew DEF WriteMetaTmp, TypeOK
  <2>2. pc'[r] = "renameMeta" /\ pc[r] = "writeMeta"
    BY <1>1, <1>8 DEF WriteMetaTmp, Goto, TypeOK
  <2>3. CASE op[r] = "put"
    <3>1. meta' = meta
      BY <1>5, <2>1, <2>2, <2>3
    <3>2. Moves(coord[r]) /\ TmpOK(coord[r])'
      BY <1>1, <1>2, <1>5, <2>3, <3>1, SoloMoves DEF TmpOK, Absent
    <3>3. Own(r)'
      BY <1>2, <1>5, <1>6, <1>8, <2>2, <2>3, <3>1
         DEF WriteMetaTmp, Goto, Own, Endpoint, Putting, Patching, Reported
    <3> QED BY <1>1, <1>2, <1>4, <3>2, <3>3
  <2>4. CASE op[r] = "patch"
    <3>1. NewMeta(r) = arg[r]
      BY <2>4 DEF NewMeta
    <3>2. Moves(coord[r])
      BY <1>1, <1>2, <1>5, <2>1, <2>4, <3>1 DEF Moves, Absent, Mixed
    <3>3. TmpOK(coord[r])'
      BY <1>1, <1>2, <1>5, <2>1, <2>4, <3>1 DEF TmpOK, Absent, Mixed, Empty
    <3>4. Own(r)'
      BY <1>2, <1>5, <1>6, <2>1, <2>2, <2>4, <3>1
         DEF Own, Endpoint, Putting, Patching, Reported, Absent, Mixed
    <3> QED BY <1>1, <1>2, <1>4, <3>2, <3>3, <3>4
  <2> QED BY <1>2, <2>3, <2>4
<1>9. CASE RenameMeta(r)
  <2>1. \/ metaTmp[coord[r]] # Absent /\ meta'[coord[r]] = metaTmp[coord[r]]
                                      /\ metaTmp'[coord[r]] = Absent
        \/ meta' = meta /\ metaTmp' = metaTmp
    BY <1>1, <1>9 DEF RenameMeta, TypeOK
  <2>2. pc'[r] = "idle"
    BY <1>1, <1>9 DEF RenameMeta, Answer, TypeOK
  <2>3. Own(r)'
    <3>1. op[r] = "put" /\ reply'[r] = "ok" => meta'[coord[r]] # Absent
      BY <1>1, <1>6, <1>9 DEF RenameMeta, Answer, TypeOK
    <3> QED BY <1>2, <1>5, <1>6, <2>2, <3>1 DEF Own, Endpoint, Putting, Patching, Reported
  <2>4. CASE meta' = meta /\ metaTmp' = metaTmp
    BY <1>1, <1>2, <1>4, <2>3, <2>4, SoloMoves DEF TmpOK
  <2>5. CASE metaTmp[coord[r]] # Absent /\ meta'[coord[r]] = metaTmp[coord[r]]
                                        /\ metaTmp'[coord[r]] = Absent
    <3>1. TmpOK(coord[r])'
      BY <1>2, <2>5 DEF TmpOK, Absent
    <3>2. Moves(coord[r])
      BY <1>1, <1>2, <2>5 DEF Moves, TmpOK, Absent, Empty, Mixed
    <3> QED BY <1>1, <1>2, <1>4, <2>3, <3>1, <3>2
  <2> QED BY <2>1, <2>4, <2>5
<1> QED BY <1>7, <1>8, <1>9

(* The steps that change no file. *)
LEMMA ReadStepSolo ==
  ASSUME SoloInv, StoreInv, NEW r \in Requests, Reading(r)
  PROVE  UNCHANGED files /\ Own(r)'
<1> USE DEF ModuleSteps, MetaSteps
<1>1. /\ TypeOK /\ ArgOK /\ Own(r) /\ coord[r] \in Coords
      /\ module \in [Coords -> Contents \cup {Absent}]
  BY DEF SoloInv, StoreInv, TypeOK
<1>2. UNCHANGED <<module, moduleTmp, meta, metaTmp, op, coord, arg>>
  BY DEF Reading, CheckExists, ReadForUpdate, GetMeta, Gate, ReadModule, VisitEntry,
         FinishList, IoError, Cancel, Goto, Answer, AnswerWith, files, request
<1>3. \/ pc'[r] = "idle"
      \/ pc'[r] = "readModule" /\ pc[r] = "gate"
      \/ pc'[r] = pc[r] /\ pc[r] = "readDir"
      \/ pc'[r] = "openModule" /\ pc[r] = "check" /\ module[coord[r]] = Absent
      \/ pc'[r] = "openMeta" /\ pc[r] = "update" /\ Valid(meta[coord[r]], arg[r])
  BY <1>1 DEF Reading, CheckExists, ReadForUpdate, GetMeta, Gate, ReadModule, VisitEntry,
         FinishList, IoError, Cancel, Goto, Answer, AnswerWith, TypeOK
<1>4. Endpoint(r)' /\ Putting(r)' /\ Patching(r)'
  BY <1>1, <1>2, <1>3 DEF Own, Endpoint, Putting, Patching, Valid, Absent
<1>5. Serving(r)'
  <2>1. CASE ReadModule(r)
    <3>1. \/ reply'[r] = "notFound"
          \/ body'[r] = module[coord[r]] /\ module[coord[r]] # Absent
      BY <1>1, <2>1 DEF ReadModule, Answer, AnswerWith, TypeOK
    <3> QED BY <1>1, <1>2, <3>1 DEF Serving
  <2>2. CASE GetMeta(r) \/ FinishList(r)
    <3>1. op[r] # "content"
      BY <1>1, <2>2 DEF GetMeta, FinishList, Own, Endpoint
    <3> QED BY <1>2, <3>1 DEF Serving
  <2>3. CASE ~ReadModule(r) /\ ~GetMeta(r) /\ ~FinishList(r)
    <3>1. body'[r] = body[r] /\ (reply'[r] = reply[r] \/ reply'[r] # "ok")
      BY <1>1, <2>3 DEF Reading, CheckExists, ReadForUpdate, Gate, VisitEntry,
         IoError, Cancel, Goto, Answer, TypeOK
    <3> QED BY <1>1, <1>2, <3>1 DEF Own, Serving
  <2> QED BY <2>1, <2>2, <2>3
<1>6. Reported(r)'
  <2>1. op[r] = "put" => reply'[r] = reply[r] \/ reply'[r] # "ok"
    BY <1>1 DEF Reading, CheckExists, ReadForUpdate, GetMeta, Gate, ReadModule, VisitEntry,
       FinishList, IoError, Cancel, Goto, Answer, AnswerWith, TypeOK, Own, Endpoint
  <2> QED BY <1>1, <1>2, <2>1 DEF Own, Reported
<1> QED BY <1>2, <1>4, <1>5, <1>6 DEF Own, files

(* The arrival of a request at a free slot.                                *)
LEMMA ReceiveSolo ==
  ASSUME SoloInv, StoreInv, NEW r \in Requests, ReceiveAny(r)
  PROVE  UNCHANGED files /\ Own(r)'
<1> USE DEF ModuleSteps, MetaSteps
<1>1. TypeOK
  BY DEF StoreInv
<1>2. /\ UNCHANGED files
      /\ reply'[r] # "ok"
      /\ pc'[r] \in {"idle", "check", "update", "gate", "getMeta", "readDir"}
      /\ pc'[r] = "update" => op'[r] = "patch"
      /\ pc'[r] = "gate" => op'[r] = "content"
      /\ pc'[r] = "getMeta" => op'[r] = "meta"
      /\ pc'[r] = "readDir" => op'[r] = "list"
  BY <1>1 DEF ReceiveAny, Refuse, Receive, Arrive, TypeOK
<1> QED BY <1>2 DEF Own, Endpoint, Putting, Patching, Serving, Reported

(* No step of the server breaks SoloInv while no puts overlap.             *)
LEMMA SoloStep ==
  ASSUME SoloInv, StoreInv, [Next]_vars, Alone({"put"})'
  PROVE  SoloInv' /\ \A c \in Coords : Moves(c)
<1> USE DEF ModuleSteps, MetaSteps
<1>1. TypeOK /\ ArgOK /\ \A q \in Requests : coord[q] \in Coords
  BY DEF StoreInv, TypeOK
<1>2. CASE UNCHANGED vars \/ Crash
  <2>1. /\ UNCHANGED <<module, moduleTmp, meta, metaTmp, op, coord, arg, reply, body>>
        /\ \A q \in Requests : \/ pc'[q] = "idle"
                               \/ pc'[q] = pc[q] /\ fd'[q] = fd[q]
    BY <1>2 DEF Crash, vars, files, request
  <2>2. \A c \in Coords : Moves(c) /\ TmpOK(c)'
    BY <2>1, SoloMoves DEF SoloInv, TmpOK
  <2>3. ASSUME NEW q \in Requests
        PROVE  Own(q)'
    <3>1. CASE pc'[q] = "idle"
      BY <2>1, <3>1 DEF SoloInv, Own, Endpoint, Putting, Patching, Serving, Reported
    <3>2. CASE pc'[q] = pc[q] /\ fd'[q] = fd[q]
      BY <1>1, <2>1, <2>2, <3>2, OwnStays
    <3> QED BY <2>1, <3>1, <3>2
  <2> QED BY <2>1, <2>2, <2>3 DEF SoloInv
<1>3. ASSUME NEW r \in Requests, ReceiveAny(r) \/ Reading(r)
      PROVE  SoloInv' /\ \A c \in Coords : Moves(c)
  <2>1. UNCHANGED files /\ Own(r)'
    BY <1>3, ReadStepSolo, ReceiveSolo
  <2>2. \A c \in Coords : Moves(c) /\ TmpOK(c)'
    BY <2>1, SoloMoves DEF SoloInv, TmpOK, files
  <2>3. ASSUME NEW q \in Requests, q # r
        PROVE  Own(q)'
    <3>1. /\ pc'[q] = pc[q] /\ op'[q] = op[q] /\ coord'[q] = coord[q] /\ arg'[q] = arg[q]
          /\ reply'[q] = reply[q] /\ body'[q] = body[q] /\ fd'[q] = fd[q]
      <4>1. CASE ReceiveAny(r)
        BY <1>1, <2>3, <4>1 DEF ReceiveAny, Refuse, Receive, Arrive, TypeOK
      <4>2. CASE Reading(r)
        BY <1>1, <2>3, <4>2 DEF Reading, CheckExists, ReadForUpdate, GetMeta, Gate, ReadModule,
           VisitEntry, FinishList, IoError, Cancel, Goto, Answer, AnswerWith, request, TypeOK
      <4> QED BY <1>3, <4>1, <4>2
    <3> QED BY <1>1, <2>1, <2>2, <3>1, OwnStays DEF files
  <2> QED BY <2>1, <2>2, <2>3 DEF SoloInv, files
<1>4. ASSUME NEW r \in Requests,
             \/ OpenModuleTmp(r) \/ WriteModuleTmp(r) \/ RenameModule(r)
             \/ OpenMetaTmp(r) \/ WriteMetaTmp(r) \/ RenameMeta(r)
      PROVE  SoloInv' /\ \A c \in Coords : Moves(c)
  <2>1. /\ module' \in [Coords -> Contents \cup {Absent}]
        /\ \A c \in Coords : Moves(c) /\ TmpOK(c)'
        /\ Own(r)'
    BY <1>4, ModuleStepSolo, MetaStepSolo
  <2>2. ASSUME NEW q \in Requests, q # r
        PROVE  Own(q)'
    <3>1. /\ pc'[q] = pc[q] /\ op'[q] = op[q] /\ coord'[q] = coord[q] /\ arg'[q] = arg[q]
          /\ reply'[q] = reply[q] /\ body'[q] = body[q]
      BY <1>1, <1>4, <2>2 DEF OpenModuleTmp, WriteModuleTmp, RenameModule,
         OpenMetaTmp, WriteMetaTmp, RenameMeta, Goto, Answer, request, TypeOK
    <3>2. pc[r] \in ModuleSteps \cup MetaSteps
      BY <1>4 DEF OpenModuleTmp, WriteModuleTmp, RenameModule,
         OpenMetaTmp, WriteMetaTmp, RenameMeta
    <3>3. CASE pc[r] \in ModuleSteps
      <4>1. \A c \in Coords : meta'[c] = meta[c]
        BY <1>4, <3>3 DEF OpenModuleTmp, WriteModuleTmp, RenameModule,
           OpenMetaTmp, WriteMetaTmp, RenameMeta
      <4>2. \A c \in Coords : c # coord[r] =>
              module'[c] = module[c] /\ moduleTmp'[c] = moduleTmp[c]
        BY <1>1, <1>4, <3>3 DEF OpenModuleTmp, WriteModuleTmp, RenameModule,
           OpenMetaTmp, WriteMetaTmp, RenameMeta, TypeOK
      <4>3. pc[q] \in MetaSteps \/ coord[q] # coord[r] => fd'[q] = fd[q]
        BY <1>1, <1>4, <2>2, <3>3 DEF OpenModuleTmp, WriteModuleTmp, RenameModule,
           OpenMetaTmp, WriteMetaTmp, RenameMeta, Relinked, TypeOK
      <4>4. pc[q] \in ModuleSteps => coord[q] # coord[r]
        BY <2>2, <3>3, PutsApart
      <4> QED BY <1>1, <2>1, <3>1, <4>1, <4>2, <4>3, <4>4, OwnStays
    <3>4. CASE pc[r] \in MetaSteps
      <4>1. \A c \in Coords : module'[c] = module[c] /\ moduleTmp'[c] = moduleTmp[c]
        BY <1>4, <3>4 DEF OpenModuleTmp, WriteModuleTmp, RenameModule,
           OpenMetaTmp, WriteMetaTmp, RenameMeta
      <4>2. \A c \in Coords : c # coord[r] => meta'[c] = meta[c]
        BY <1>1, <1>4, <3>4 DEF OpenModuleTmp, WriteModuleTmp, RenameModule,
           OpenMetaTmp, WriteMetaTmp, RenameMeta, TypeOK
      <4>3. pc[q] \in ModuleSteps \/ coord[q] # coord[r] => fd'[q] = fd[q]
        BY <1>1, <1>4, <2>2, <3>4 DEF OpenModuleTmp, WriteModuleTmp, RenameModule,
           OpenMetaTmp, WriteMetaTmp, RenameMeta, Relinked, TypeOK
      <4>4. pc[q] \in MetaSteps /\ op[q] = "put" => coord[q] # coord[r]
        BY <2>2, <3>4, PutsApart
      <4> QED BY <1>1, <2>1, <3>1, <4>1, <4>2, <4>3, <4>4, OwnStays
    <3> QED BY <3>2, <3>3, <3>4
  <2> QED BY <2>1, <2>2 DEF SoloInv
<1> QED BY <1>2, <1>3, <1>4 DEF Next, Handle, Reading

(* The server starts without races.                                        *)
LEMMA RaceInit == Init /\ solo = TRUE => RaceInv
<1> SUFFICES ASSUME Init, solo = TRUE PROVE RaceInv
  OBVIOUS
<1>1. /\ \A r \in Requests : pc[r] = "idle" /\ op[r] = "none"
      /\ \A c \in Coords : meta[c] = Absent
      /\ module \in [Coords -> Contents \cup {Absent}]
  BY DEF Init
<1>2. SoloInv
  BY <1>1 DEF SoloInv, Alone, InFlight, TmpOK, Own, Endpoint, Putting, Patching, Serving,
              Reported, ModuleSteps, MetaSteps, Absent
<1> QED BY <1>2, StoreInit DEF RaceInv

(* Every step of RaceSpec keeps RaceInv.                                   *)
LEMMA RaceStep ==
  ASSUME RaceInv, [RaceNext]_RaceVars
  PROVE  RaceInv' /\ (solo' => \A c \in Coords : Moves(c))
<1>1. [Next]_vars /\ (solo' => solo /\ Alone({"put"})') /\ solo' \in BOOLEAN
  <2>1. CASE RaceNext
    BY <2>1 DEF RaceNext, RaceInv
  <2>2. CASE UNCHANGED RaceVars
    <3>1. UNCHANGED vars /\ solo' = solo
      BY <2>2 DEF RaceVars
    <3>2. Alone({"put"})' <=> Alone({"put"})
      BY <3>1 DEF vars, request, Alone, InFlight
    <3> QED BY <3>1, <3>2 DEF RaceInv, SoloInv
  <2> QED BY <2>1, <2>2
<1>2. StoreInv'
  BY <1>1, StoreStep DEF RaceInv
<1>3. solo' => SoloInv' /\ \A c \in Coords : Moves(c)
  BY <1>1, SoloStep DEF RaceInv
<1> QED BY <1>1, <1>2, <1>3 DEF RaceInv

(* While no puts of a coordinate overlap its content is set once, to an    *)
(* uploaded text, whatever else fails or races (put_module).               *)
THEOREM ContentSetOnceCorrect == RaceSpec => ContentSetOnce
<1> DEFINE Once == solo' => \A c \in Coords :
                     IF module[c] = Absent THEN module'[c] \in Contents \cup {Absent}
                                           ELSE module'[c] = module[c]
<1>1. RaceInv /\ [RaceNext]_RaceVars => RaceInv' /\ [Once]_RaceVars
  BY RaceStep DEF Moves
<1> QED BY <1>1, RaceInit, PTL DEF RaceSpec, RaceNext, ContentSetOnce

(* While no puts of a coordinate overlap, GET content serves the whole     *)
(* text that is stored (get_content).                                      *)
THEOREM ServedAsPublishedCorrect == RaceSpec => []ServedAsPublished
<1>1. RaceInv => ServedAsPublished
  BY DEF RaceInv, SoloInv, Own, Serving, ServedAsPublished
<1>2. RaceInv /\ [RaceNext]_RaceVars => RaceInv'
  BY RaceStep
<1> QED BY <1>1, <1>2, RaceInit, PTL DEF RaceSpec, RaceNext

(* While no puts of a coordinate overlap, lifecycle changes that race over *)
(* one temporary file never take a module from active to retired           *)
(* (update_lifecycle).                                                     *)
THEOREM NoLifecycleSkipCorrect == RaceSpec => NoLifecycleSkip
<1> DEFINE Skips == solo' => \A c \in Coords :
                      meta[c] = "active" => meta'[c] \notin {"beta", "retired", Absent}
<1>1. RaceInv /\ [RaceNext]_RaceVars => RaceInv' /\ [Skips]_RaceVars
  BY RaceStep DEF Moves
<1> QED BY <1>1, RaceInit, PTL DEF RaceSpec, RaceNext, NoLifecycleSkip
============================================================================
