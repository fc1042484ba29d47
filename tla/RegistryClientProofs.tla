------------------------ MODULE RegistryClientProofs ------------------------
(***************************************************************************)
(* Proofs about the registry's clients beside the server itself, for every *)
(* set of coordinates, texts and slots, under every fault of either side.  *)
(* Every step of the whole is a step of the server or leaves it alone, so  *)
(* what StoreRacesProofs proves of the server is at hand.                  *)
(***************************************************************************)
EXTENDS RegistryClient, StoreRacesProofs

(* What a compilation knows at each of its steps.  Once it has read an     *)
(* answer that lets it go on, the module was not retired ever since it     *)
(* asked.                                                                  *)
Asked(p) ==
  /\ step[p] = "lifecycle" =>
       /\ op[p] = "meta" /\ pc[p] \in {"getMeta", "idle"}
       /\ pc[p] = "idle" /\ reply[p] = "ok" /\ barred[p] => body[p] = "retired"
  /\ step[p] = "fetch" =>
       /\ op[p] = "content" /\ pc[p] \in {"gate", "readModule", "idle"}
       /\ pc[p] = "readModule" => ~barred[p]
       /\ pc[p] = "idle" /\ reply[p] = "ok" => ~barred[p] /\ body[p] \in ModuleData \ {Absent}
  /\ step[p] \in {"lifecycle", "fetch"} /\ pc[p] # "idle" => reply[p] # "ok"
  /\ step[p] \in {"readCached", "openCache", "writeCache"} => ~barred[p]
  /\ step[p] # "idle" => result[p] = "none"
  /\ result[p] = "ok" => ~barred[p]
  /\ barred[p] => meta[coord[p]] = "retired"

(* The text on its way to the cache, and the file it goes to. *)
Holding(p) ==
  /\ step[p] \in {"openCache", "writeCache"} =>
       got[p] # Absent /\ (solo => got[p] = module[coord[p]])
  /\ step[p] = "writeCache" => cache[coord[p]] # Absent

Client(p) == Asked(p) /\ Holding(p)

ClientInv == /\ RaceInv /\ ClientTypeOK /\ CacheAgrees
             /\ \A p \in Requests : Client(p)

LEMMA ClientStart == ClientInit => ClientInv
<1> SUFFICES ASSUME ClientInit PROVE ClientInv
  OBVIOUS
<1>1. RaceInv
  BY RaceInit DEF ClientInit
<1> QED BY <1>1 DEF ClientInit, ClientInv, ClientTypeOK, ClientSteps, CacheAgrees, Client, Asked,
                    Holding, ModuleData, Absent

(* What a step means to the server: a step of its own, or none.            *)
LEMMA ServerStep ==
  ASSUME ClientInv, [ClientNext]_ClientVars
  PROVE  /\ RaceInv' /\ (solo' => solo /\ \A c \in Coords : Moves(c))
         /\ [Next]_vars
<1>1. RaceInv /\ TypeOK
  BY DEF ClientInv, RaceInv, StoreInv
<1>2. [RaceNext]_RaceVars /\ (solo' => solo) /\ [Next]_vars
  <2>1. CASE UNCHANGED ClientVars
    BY <2>1 DEF ClientVars, RaceVars, RaceNext
  <2>2. CASE ClientNext
    <3>1. [Next]_vars
      <4>1. CASE Serve
        BY <4>1 DEF Serve, Next
      <4>2. ASSUME NEW r \in Requests, Mutate(r)
            PROVE  [Next]_vars
        BY <4>2 DEF Mutate, Next
      <4>3. ASSUME NEW p \in Requests, NEW c \in Coords, Include(p, c)
            PROVE  [Next]_vars
        BY <4>3 DEF Include, ReceiveAny, Next
      <4>4. ASSUME NEW p \in Requests, ReadCached(p)
            PROVE  [Next]_vars
        <5>1. coord[p] \in Coords
          BY <1>1 DEF TypeOK
        <5>2. CASE Receive(p, "content", coord[p], Absent, "gate")
          BY <5>1, <5>2 DEF ReceiveAny, Next
        <5> QED BY <4>4, <5>2 DEF ReadCached
      <4>5. ASSUME NEW p \in Requests,
                   \/ GetLifecycle(p) \/ Fetch(p) \/ OpenCache(p) \/ WriteCache(p)
                   \/ GiveUp(p) \/ Kill(p)
            PROVE  [Next]_vars
        BY <4>5 DEF GetLifecycle, Fetch, OpenCache, WriteCache, GiveUp, Kill
      <4> QED BY <2>2, <4>1, <4>2, <4>3, <4>4, <4>5 DEF ClientNext, Compile
    <3>2. solo' = (solo /\ Alone({"put"})')
      BY <2>2 DEF ClientNext
    <3>3. CASE UNCHANGED vars
      <4>1. Alone({"put"})' <=> Alone({"put"})
        BY <3>3 DEF vars, request, Alone, InFlight
      <4>2. solo' = solo
        BY <1>1, <3>2, <4>1 DEF RaceInv, SoloInv
      <4> QED BY <3>3, <4>2 DEF RaceVars
    <3> QED BY <3>1, <3>2, <3>3 DEF RaceNext
  <2> QED BY <2>1, <2>2
<1> QED BY <1>1, <1>2, RaceStep

(* What a step means to the history. *)
LEMMA BarredStep ==
  ASSUME ClientInv, [ClientNext]_ClientVars, NEW p \in Requests
  PROVE  /\ barred' \in [Requests -> BOOLEAN]
         /\ barred'[p] => meta'[coord'[p]] = "retired"
         /\ barred'[p] => barred[p] \/ Asks(p)
<1>1. CASE ClientNext
  BY <1>1 DEF ClientNext
<1>2. CASE UNCHANGED ClientVars
  <2>1. UNCHANGED <<meta, coord, barred>>
    BY <1>2 DEF ClientVars, RaceVars, vars, files, request
  <2> QED BY <2>1 DEF ClientInv, Client, Asked, ClientTypeOK
<1> QED BY <1>1, <1>2

(* A compilation whose slot and steps are left alone keeps what it knows.  *)
LEMMA ClientStays ==
  ASSUME ClientInv, [ClientNext]_ClientVars, NEW q \in Requests,
         step'[q] = step[q], got'[q] = got[q], result'[q] = result[q],
         op'[q] = op[q], coord'[q] = coord[q], pc'[q] = pc[q], reply'[q] = reply[q],
         body'[q] = body[q],
         cache'[coord[q]] = Absent => cache[coord[q]] = Absent
  PROVE  Client(q)'
<1>1. /\ Client(q) /\ coord[q] \in Coords
      /\ solo' => solo /\ \A c \in Coords : Moves(c)
      /\ barred'[q] => meta'[coord'[q]] = "retired" /\ barred[q]
  BY ServerStep, BarredStep DEF ClientInv, RaceInv, StoreInv, TypeOK, Asks
<1>2. Asked(q)'
  BY <1>1 DEF Client, Asked, ModuleData
<1>3. Holding(q)'
  BY <1>1 DEF Client, Holding, Moves
<1> QED BY <1>2, <1>3 DEF Client

(* While the server's steps leave the cache alone it keeps agreeing.       *)
LEMMA CacheStays ==
  ASSUME ClientInv, [ClientNext]_ClientVars, cache' = cache
  PROVE  CacheAgrees'
  BY ServerStep DEF ClientInv, CacheAgrees, Moves

(* What the server can do to the slot of a compilation that waits.         *)
LEMMA ServeSlot ==
  ASSUME ClientInv, Serve, NEW p \in Requests, pc[p] \in {"getMeta", "gate", "readModule", "idle"},
         pc[p] # "idle" => reply[p] # "ok"
  PROVE  /\ op'[p] = op[p] /\ coord'[p] = coord[p]
         /\ \/ pc'[p] = pc[p] /\ reply'[p] = reply[p] /\ body'[p] = body[p]
            \/ pc'[p] = "idle" /\ reply'[p] # "ok"
            \/ /\ pc[p] = "getMeta" /\ pc'[p] = "idle" /\ body'[p] = meta[coord[p]]
               /\ UNCHANGED files
            \/ /\ pc[p] = "gate" /\ pc'[p] = "readModule" /\ reply'[p] = reply[p]
               /\ meta[coord[p]] # "retired" /\ UNCHANGED files
            \/ /\ pc[p] = "readModule" /\ pc'[p] = "idle"
               /\ body'[p] = module[coord[p]] /\ module[coord[p]] # Absent
<1>1. TypeOK
  BY DEF ClientInv, RaceInv, StoreInv
<1>2. CASE Crash
  BY <1>1, <1>2 DEF Crash, request, TypeOK
<1>3. ASSUME NEW r \in Requests, Handle(r) \/ IoError(r) \/ Cancel(r), r # p
      PROVE  /\ op'[p] = op[p] /\ coord'[p] = coord[p]
             /\ pc'[p] = pc[p] /\ reply'[p] = reply[p] /\ body'[p] = body[p]
  <2>1. CASE \/ CheckExists(r) \/ OpenModuleTmp(r) \/ WriteModuleTmp(r) \/ RenameModule(r)
             \/ OpenMetaTmp(r) \/ WriteMetaTmp(r) \/ RenameMeta(r)
    BY <1>1, <1>3, <2>1 DEF CheckExists, OpenModuleTmp, WriteModuleTmp, RenameModule,
       OpenMetaTmp, WriteMetaTmp, RenameMeta, Goto, Answer, request, TypeOK
  <2>2. CASE Reading(r)
    BY <1>1, <1>3, <2>2 DEF Reading, CheckExists, ReadForUpdate, GetMeta, Gate, ReadModule,
       VisitEntry, FinishList, IoError, Cancel, Goto, Answer, AnswerWith, request, TypeOK
  <2> QED BY <1>3, <2>1, <2>2 DEF Handle, Reading
<1>4. CASE IoError(p) \/ Cancel(p)
  BY <1>1, <1>4 DEF IoError, Cancel, Goto, Answer, request, TypeOK
<1>5. CASE Handle(p)
  <2>1. GetMeta(p) \/ Gate(p) \/ ReadModule(p)
    BY <1>5 DEF Handle, CheckExists, OpenModuleTmp, WriteModuleTmp, RenameModule,
       OpenMetaTmp, WriteMetaTmp, RenameMeta, ReadForUpdate, VisitEntry, FinishList
  <2>2. CASE GetMeta(p)
    BY <1>1, <2>2 DEF GetMeta, Answer, AnswerWith, request, TypeOK
  <2>3. CASE Gate(p)
    BY <1>1, <2>3 DEF Gate, Goto, Answer, request, TypeOK
  <2>4. CASE ReadModule(p)
    BY <1>1, <2>4 DEF ReadModule, Answer, AnswerWith, request, TypeOK
  <2> QED BY <2>1, <2>2, <2>3, <2>4
<1> QED BY <1>2, <1>3, <1>4, <1>5 DEF Serve

(* The server's own steps. *)
LEMMA ServeKeeps ==
  ASSUME ClientInv, ClientNext, Serve, NEW p \in Requests
  PROVE  Client(p)'
<1>1. /\ step' = step /\ got' = got /\ result' = result /\ cache' = cache
      /\ barred'[p] => meta'[coord'[p]] = "retired" /\ barred[p]
      /\ Client(p)
  BY BarredStep DEF Serve, compilation, Asks, ClientInv
<1>2. CASE step[p] \in {"lifecycle", "fetch"}
  <2>1. /\ pc[p] \in {"getMeta", "gate", "readModule", "idle"}
        /\ pc[p] # "idle" => reply[p] # "ok"
    BY <1>1, <1>2 DEF Client, Asked
  <2>2. /\ op'[p] = op[p] /\ coord'[p] = coord[p]
        /\ \/ pc'[p] = pc[p] /\ reply'[p] = reply[p] /\ body'[p] = body[p]
           \/ pc'[p] = "idle" /\ reply'[p] # "ok"
           \/ /\ pc[p] = "getMeta" /\ pc'[p] = "idle" /\ body'[p] = meta[coord[p]]
              /\ UNCHANGED files
           \/ /\ pc[p] = "gate" /\ pc'[p] = "readModule" /\ reply'[p] = reply[p]
              /\ meta[coord[p]] # "retired" /\ UNCHANGED files
           \/ /\ pc[p] = "readModule" /\ pc'[p] = "idle"
              /\ body'[p] = module[coord[p]] /\ module[coord[p]] # Absent
    BY <2>1, ServeSlot
  <2>3. module[coord[p]] \in ModuleData /\ (barred[p] => meta[coord[p]] = "retired")
    BY <1>1 DEF Client, Asked, ClientInv, RaceInv, StoreInv, TypeOK
  <2>4. Asked(p)'
    BY <1>1, <1>2, <2>2, <2>3 DEF Client, Asked, ModuleData
  <2>5. Holding(p)'
    BY <1>1, <1>2 DEF Holding
  <2> QED BY <2>4, <2>5 DEF Client
<1>3. CASE step[p] \notin {"lifecycle", "fetch"}
  <2>1. coord'[p] = coord[p] /\ coord[p] \in Coords
    BY DEF Serve, Handle, CheckExists, OpenModuleTmp, WriteModuleTmp, RenameModule,
       OpenMetaTmp, WriteMetaTmp, RenameMeta, ReadForUpdate, GetMeta, Gate, ReadModule,
       VisitEntry, FinishList, IoError, Cancel, Crash, Goto, Answer, AnswerWith, request,
       ClientInv, RaceInv, StoreInv, TypeOK
  <2>2. solo' => solo /\ \A c \in Coords : Moves(c)
    BY ServerStep
  <2>3. Asked(p)'
    BY <1>1, <1>3 DEF Client, Asked
  <2>4. Holding(p)'
    BY <1>1, <2>1, <2>2 DEF Client, Holding, Moves
  <2> QED BY <2>3, <2>4 DEF Client
<1> QED BY <1>2, <1>3

(* A request reaches one slot. *)
LEMMA ReceiveSlot ==
  ASSUME TypeOK, NEW r \in Requests, ReceiveAny(r), NEW q \in Requests, q # r
  PROVE  /\ op'[q] = op[q] /\ coord'[q] = coord[q] /\ pc'[q] = pc[q]
         /\ reply'[q] = reply[q] /\ body'[q] = body[q]
  BY DEF ReceiveAny, Refuse, Receive, Arrive, TypeOK

(* Somebody publishes or changes a lifecycle. *)
LEMMA MutateKeeps ==
  ASSUME ClientInv, ClientNext, NEW r \in Requests, Mutate(r), NEW p \in Requests
  PROVE  Client(p)'
<1>1. TypeOK /\ ClientTypeOK
  BY DEF ClientInv, RaceInv, StoreInv
<1>2. CASE p = r
  <2>1. step'[p] = "idle" /\ result'[p] = "none"
    BY <1>1, <1>2 DEF Mutate, ClientTypeOK
  <2>2. barred'[p] => meta'[coord'[p]] = "retired"
    BY BarredStep
  <2> QED BY <2>1, <2>2 DEF Client, Asked, Holding
<1>3. CASE p # r
  <2>1. /\ step'[p] = step[p] /\ got'[p] = got[p] /\ result'[p] = result[p] /\ cache' = cache
        /\ op'[p] = op[p] /\ coord'[p] = coord[p] /\ pc'[p] = pc[p]
        /\ reply'[p] = reply[p] /\ body'[p] = body[p]
    BY <1>1, <1>3, ReceiveSlot DEF Mutate, ClientTypeOK
  <2> QED BY <2>1, ClientStays
<1> QED BY <1>2, <1>3

CompilationStep(p) ==
  \/ \E c \in Coords : Include(p, c)
  \/ Compile(p) \/ GiveUp(p) \/ Kill(p)

(* A compilation's step leaves the others alone. *)
LEMMA OthersStay ==
  ASSUME ClientInv, ClientNext, NEW p \in Requests, CompilationStep(p),
         NEW q \in Requests, q # p
  PROVE  Client(q)'
<1>1. TypeOK /\ ClientTypeOK
  BY DEF ClientInv, RaceInv, StoreInv
<1>2. /\ step'[q] = step[q] /\ got'[q] = got[q] /\ result'[q] = result[q]
  BY <1>1 DEF CompilationStep, Include, Compile, GetLifecycle, ReadCached, Fetch, OpenCache,
     WriteCache, GiveUp, Kill, MoveTo, Return, ClientTypeOK
<1>3. \/ UNCHANGED vars
      \/ ReceiveAny(p)
  <2>1. coord[p] \in Coords
    BY <1>1 DEF TypeOK
  <2> QED BY <2>1 DEF CompilationStep, Include, Compile, GetLifecycle, ReadCached, Fetch,
     OpenCache, WriteCache, GiveUp, Kill, ReceiveAny
<1>4. /\ op'[q] = op[q] /\ coord'[q] = coord[q] /\ pc'[q] = pc[q]
      /\ reply'[q] = reply[q] /\ body'[q] = body[q]
  BY <1>1, <1>3, ReceiveSlot DEF vars, request
<1>5. cache'[coord[q]] = Absent => cache[coord[q]] = Absent
  <2>1. CASE ~OpenCache(p) /\ ~WriteCache(p)
    BY <2>1 DEF CompilationStep, Include, Compile, GetLifecycle, ReadCached, Fetch, GiveUp, Kill
  <2>2. CASE OpenCache(p)
    BY <1>1, <2>2 DEF OpenCache, ClientTypeOK, TypeOK, Absent, Empty
  <2>3. CASE WriteCache(p)
    <3>1. got[p] # Absent
      BY <2>3 DEF WriteCache, ClientInv, Client, Holding
    <3> QED BY <1>1, <2>3, <3>1 DEF WriteCache, ModuleOver, ClientTypeOK, TypeOK, Absent, Mixed
  <2> QED BY <2>1, <2>2, <2>3
<1> QED BY <1>2, <1>4, <1>5, ClientStays

(* A compilation's own step. *)
LEMMA OwnStep ==
  ASSUME ClientInv, ClientNext, NEW p \in Requests, CompilationStep(p)
  PROVE  Client(p)'
<1>1. TypeOK /\ ClientTypeOK /\ Client(p) /\ coord[p] \in Coords
  BY DEF ClientInv, RaceInv, StoreInv, TypeOK
<1>2. /\ barred'[p] => meta'[coord'[p]] = "retired"
      /\ barred'[p] => barred[p] \/ Asks(p)
  BY BarredStep
<1>3. ASSUME NEW c \in Coords, Include(p, c)
      PROVE  Client(p)'
  <2>1. /\ step'[p] = "lifecycle" /\ result'[p] = "none" /\ op'[p] = "meta"
        /\ pc'[p] = "getMeta" /\ reply'[p] = "none"
    BY <1>1, <1>3 DEF Include, Receive, Arrive, ClientTypeOK, TypeOK
  <2> QED BY <1>2, <2>1 DEF Client, Asked, Holding
<1>4. CASE GetLifecycle(p)
  <2>1. /\ UNCHANGED <<op, pc, coord, reply, body, meta, module>> /\ cache' = cache
        /\ step[p] = "lifecycle" /\ pc[p] = "idle"
    BY <1>4 DEF GetLifecycle, vars, files, request, Answered
  <2>2. \/ /\ step'[p] = "idle" /\ result'[p] \in {"retired", "deferred"}
        \/ /\ step'[p] = "readCached" /\ result'[p] = result[p]
           /\ reply[p] = "ok" /\ body[p] # "retired"
    BY <1>1, <1>4 DEF GetLifecycle, Return, MoveTo, Success, BlocksNewUse, FromStr, ClientTypeOK
  <2> QED BY <1>1, <1>2, <2>1, <2>2 DEF Client, Asked, Holding, Asks
<1>5. CASE ReadCached(p)
  <2>1. step[p] = "readCached" /\ ~barred[p] /\ cache' = cache
    BY <1>1, <1>5 DEF ReadCached, Client, Asked
  <2>2. CASE step'[p] = "idle" /\ result'[p] = "ok"
    BY <1>2, <2>1, <2>2 DEF Client, Asked, Holding, Asks
  <2>3. CASE Receive(p, "content", coord[p], Absent, "gate") /\ MoveTo(p, "fetch")
    <3>1. /\ step'[p] = "fetch" /\ result'[p] = result[p] /\ op'[p] = "content"
          /\ pc'[p] = "gate" /\ reply'[p] = "none" /\ coord'[p] = coord[p]
          /\ meta' = meta
      BY <1>1, <2>3 DEF Receive, Arrive, MoveTo, files, ClientTypeOK, TypeOK
    <3> QED BY <1>1, <1>2, <2>1, <3>1 DEF Client, Asked, Holding
  <2> QED BY <1>1, <1>5, <2>2, <2>3 DEF ReadCached, Return, ClientTypeOK
<1>6. CASE Fetch(p)
  <2>1. /\ UNCHANGED <<op, pc, coord, reply, body, meta, module>> /\ cache' = cache
        /\ step[p] = "fetch" /\ pc[p] = "idle"
    BY <1>6 DEF Fetch, vars, files, request, Answered
  <2>2. \/ /\ step'[p] = "idle" /\ result'[p] = "deferred"
        \/ /\ step'[p] = "openCache" /\ result'[p] = result[p]
           /\ reply[p] = "ok" /\ got'[p] = body[p]
    BY <1>1, <1>6 DEF Fetch, Return, MoveTo, Success, ClientTypeOK
  <2>3. solo /\ reply[p] = "ok" => body[p] = module[coord[p]]
    BY <1>1, <2>1 DEF ClientInv, RaceInv, SoloInv, Own, Serving, Client, Asked
  <2>4. solo' => solo
    BY ServerStep
  <2> QED BY <1>1, <1>2, <2>1, <2>2, <2>3, <2>4 DEF Client, Asked, Holding, Asks
<1>7. CASE OpenCache(p)
  <2>1. /\ UNCHANGED <<op, pc, coord, reply, body, meta, module>> /\ got' = got
        /\ step[p] = "openCache"
    BY <1>7 DEF OpenCache, vars, files, request
  <2>2. \/ step'[p] = "idle" /\ result'[p] = "ok"
        \/ step'[p] = "writeCache" /\ result'[p] = result[p] /\ cache'[coord[p]] = Empty
    BY <1>1, <1>7 DEF OpenCache, Return, MoveTo, ClientTypeOK
  <2>3. solo' => solo
    BY ServerStep
  <2> QED BY <1>1, <1>2, <2>1, <2>2, <2>3 DEF Client, Asked, Holding, Asks, Absent, Empty
<1>8. CASE WriteCache(p)
  <2>1. /\ UNCHANGED <<op, pc, coord, reply, body, meta, module>>
        /\ step[p] = "writeCache" /\ step'[p] = "idle" /\ result'[p] = "ok"
    BY <1>1, <1>8 DEF WriteCache, Return, vars, files, request, ClientTypeOK
  <2> QED BY <1>1, <1>2, <2>1 DEF Client, Asked, Holding, Asks
<1>9. CASE GiveUp(p) \/ Kill(p)
  <2>1. /\ UNCHANGED <<op, pc, coord, reply, body, meta, module>>
        /\ step'[p] = "idle" /\ result'[p] \in {"deferred", result[p]}
    BY <1>1, <1>9 DEF GiveUp, Kill, Return, MoveTo, vars, files, request, ClientTypeOK
  <2> QED BY <1>1, <1>2, <2>1 DEF Client, Asked, Holding, Asks
<1> QED BY <1>3, <1>4, <1>5, <1>6, <1>7, <1>8, <1>9 DEF CompilationStep, Compile

(* The cache through a compilation's step. *)
LEMMA CacheStep ==
  ASSUME ClientInv, ClientNext, NEW p \in Requests, CompilationStep(p)
  PROVE  CacheAgrees' /\ cache' \in [Coords -> ModuleData]
<1>1. TypeOK /\ ClientTypeOK /\ Client(p) /\ coord[p] \in Coords
  BY DEF ClientInv, RaceInv, StoreInv, TypeOK
<1>2. CASE ~OpenCache(p) /\ ~WriteCache(p)
  <2>1. cache' = cache
    BY <1>2 DEF CompilationStep, Include, Compile, GetLifecycle, ReadCached, Fetch, GiveUp, Kill
  <2> QED BY <1>1, <2>1, CacheStays DEF ClientTypeOK
<1>3. CASE OpenCache(p)
  <2>1. /\ \/ cache' = [cache EXCEPT ![coord[p]] = Empty]
           \/ cache' = cache
        /\ module' = module
    BY <1>3 DEF OpenCache, vars, files
  <2>2. solo' => solo
    BY ServerStep
  <2> QED BY <1>1, <2>1, <2>2 DEF CacheAgrees, ClientInv, ClientTypeOK, ModuleData
<1>4. CASE WriteCache(p)
  <2>1. /\ \/ \E d \in ModuleOver(cache[coord[p]], got[p]) :
                 cache' = [cache EXCEPT ![coord[p]] = d]
           \/ cache' = cache
        /\ module' = module /\ step[p] = "writeCache"
    BY <1>4 DEF WriteCache, vars, files
  <2>2. /\ cache[coord[p]] # Absent
        /\ solo => got[p] = module[coord[p]]
    BY <1>1, <2>1 DEF Client, Holding
  <2>3. solo' => solo
    BY ServerStep
  <2>4. /\ ModuleOver(cache[coord[p]], got[p]) \subseteq {got[p], Mixed}
        /\ solo => ModuleOver(cache[coord[p]], got[p]) = {got[p]}
    BY <1>1, <2>2 DEF ModuleOver, ClientInv, CacheAgrees
  <2>5. got[p] \in ModuleData /\ Mixed \in ModuleData
    BY <1>1 DEF ClientTypeOK, ModuleData
  <2> QED BY <1>1, <2>1, <2>2, <2>3, <2>4, <2>5 DEF CacheAgrees, ClientInv, ClientTypeOK
<1> QED BY <1>2, <1>3, <1>4

(* The other variables of a compilation. *)
LEMMA TypesStay ==
  ASSUME ClientInv, ClientNext
  PROVE  /\ step' \in [Requests -> ClientSteps]
         /\ got' \in [Requests -> ModuleData]
         /\ result' \in [Requests -> {"none", "ok", "retired", "deferred"}]
<1>1. ClientTypeOK
  BY DEF ClientInv
<1>2. CASE Serve
  BY <1>1, <1>2 DEF Serve, compilation, ClientTypeOK
<1>3. ASSUME NEW r \in Requests, Mutate(r)
      PROVE  /\ step' \in [Requests -> ClientSteps]
             /\ got' \in [Requests -> ModuleData]
             /\ result' \in [Requests -> {"none", "ok", "retired", "deferred"}]
  BY <1>1, <1>3 DEF Mutate, ClientTypeOK, ModuleData
<1>4. ASSUME NEW p \in Requests, CompilationStep(p)
      PROVE  /\ step' \in [Requests -> ClientSteps]
             /\ got' \in [Requests -> ModuleData]
             /\ result' \in [Requests -> {"none", "ok", "retired", "deferred"}]
  <2>1. /\ step' \in [Requests -> ClientSteps]
        /\ result' \in [Requests -> {"none", "ok", "retired", "deferred"}]
    BY <1>1, <1>4 DEF CompilationStep, Include, Compile, GetLifecycle, ReadCached, Fetch,
       OpenCache, WriteCache, GiveUp, Kill, MoveTo, Return, ClientTypeOK, ClientSteps
  <2>2. got' \in [Requests -> ModuleData]
    <3>1. CASE Fetch(p)
      <4>1. Success(p) => body[p] \in ModuleData
        BY <3>1 DEF Fetch, Answered, Success, ClientInv, Client, Asked
      <4> QED BY <1>1, <3>1, <4>1 DEF Fetch, ClientTypeOK
    <3>2. CASE ReadCached(p)
      <4>1. cache[coord[p]] \in ModuleData
        BY <1>1 DEF ClientInv, RaceInv, StoreInv, TypeOK, ClientTypeOK
      <4> QED BY <1>1, <3>2, <4>1 DEF ReadCached, ClientTypeOK
    <3>3. CASE ~Fetch(p) /\ ~ReadCached(p)
      BY <1>1, <1>4, <3>3 DEF CompilationStep, Include, Compile, GetLifecycle, OpenCache,
         WriteCache, GiveUp, Kill, ClientTypeOK, ModuleData
    <3> QED BY <3>1, <3>2, <3>3
  <2> QED BY <2>1, <2>2
<1> QED BY <1>2, <1>3, <1>4 DEF ClientNext, CompilationStep

LEMMA ClientStep ==
  ASSUME ClientInv, [ClientNext]_ClientVars
  PROVE  ClientInv'
<1>1. RaceInv' /\ barred' \in [Requests -> BOOLEAN]
  <2>1. RaceInv'
    BY ServerStep
  <2>2. barred' \in [Requests -> BOOLEAN]
    BY BarredStep DEF ClientNext, ClientVars, ClientInv, ClientTypeOK
  <2> QED BY <2>1, <2>2
<1>2. CASE ClientNext
  <2>1. CASE Serve \/ \E r \in Requests : Mutate(r)
    <3>1. cache' = cache
      BY <2>1 DEF Serve, Mutate
    <3>2. CacheAgrees' /\ ClientTypeOK'
      BY <1>1, <1>2, <3>1, CacheStays, TypesStay DEF ClientInv, ClientTypeOK
    <3>3. \A p \in Requests : Client(p)'
      BY <1>2, <2>1, ServeKeeps, MutateKeeps
    <3> QED BY <1>1, <3>2, <3>3 DEF ClientInv
  <2>2. ASSUME NEW p \in Requests, CompilationStep(p)
        PROVE  ClientInv'
    <3>1. CacheAgrees' /\ ClientTypeOK'
      BY <1>1, <1>2, <2>2, CacheStep, TypesStay DEF ClientTypeOK
    <3>2. \A q \in Requests : Client(q)'
      BY <1>2, <2>2, OwnStep, OthersStay
    <3> QED BY <1>1, <3>1, <3>2 DEF ClientInv
  <2> QED BY <1>2, <2>1, <2>2 DEF ClientNext, CompilationStep
<1>3. CASE UNCHANGED ClientVars
  <2>1. /\ UNCHANGED <<cache, step, got, result, barred, op, coord, pc, reply, body>>
    BY <1>3 DEF ClientVars, RaceVars, vars, request, compilation
  <2>2. CacheAgrees' /\ ClientTypeOK'
    BY <1>3, <2>1, CacheStays DEF ClientInv, ClientTypeOK
  <2>3. \A p \in Requests : Client(p)'
    BY <1>3, <2>1, ClientStays
  <2> QED BY <1>1, <2>2, <2>3 DEF ClientInv
<1> QED BY <1>2, <1>3

(* Every variable of the clients and the cache stays in its type.          *)
THEOREM ClientTypeCorrect == ClientSpec => []ClientTypeOK
  BY ClientStart, ClientStep, PTL DEF ClientSpec, ClientInv

(* While no publishers race a complete cache file is the text the registry *)
(* serves, whatever else races, fails or is killed (write_cache).          *)
THEOREM CacheAgreesCorrect == ClientSpec => []CacheAgrees
  BY ClientStart, ClientStep, PTL DEF ClientSpec, ClientInv

(* A module that has been retired ever since a compilation last asked for  *)
(* it is not used, although patches race at the server (expand_includes,   *)
(* fetch_module).                                                          *)
THEOREM RetiredNotUsedCorrect == ClientSpec => []RetiredNotUsed
<1>1. ClientInv => RetiredNotUsed
  BY DEF ClientInv, Client, Asked, RetiredNotUsed
<1> QED BY <1>1, ClientStart, ClientStep, PTL DEF ClientSpec

(* While no publishers race, a publication that was answered 201 is what   *)
(* the coordinate carries and shows, for ever (publish_module).            *)
THEOREM PublishedOkIsMineCorrect == ClientSpec => []PublishedOkIsMine
<1>1. ClientInv => PublishedOkIsMine
  BY DEF ClientInv, RaceInv, SoloInv, Own, Reported, PublishedOkIsMine, Published
<1> QED BY <1>1, ClientStart, ClientStep, PTL DEF ClientSpec
=============================================================================
