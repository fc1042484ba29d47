--------------------------- MODULE RegistryClient ---------------------------
(***************************************************************************)
(* graydr processes against a registry server: compilations that include a *)
(* registry module (fragment/mod.rs, registry/client.rs), beside           *)
(* publications (cli/publish.rs) and lifecycle changes of anybody.         *)
(*                                                                         *)
(* The server is module FilesystemStore itself, races, crashes and all.    *)
(* Slot p of it carries, one after the other, publications and lifecycle   *)
(* changes of anybody and the requests of a compilation p: it sends GET    *)
(* meta, reads the module cache, sends GET content and writes the cache, a *)
(* directory of plain files that compilations share and no one locks.      *)
(***************************************************************************)
EXTENDS StoreRaces

VARIABLES
  cache,                 \* cache[c]: the file of c in the module cache
  step,                  \* step[p]: what compilation p does next
  got,                   \* text in hand
  result,                \* outcome of the last include
  barred                 \* history: c was retired when p last asked the server
                         \* about it, and has been ever since

compilation == <<step, got, result>>
ClientVars  == <<RaceVars, cache, compilation, barred>>

ClientSteps == {"idle", "lifecycle", "readCached", "fetch", "openCache", "writeCache"}

ClientTypeOK ==
  /\ cache \in [Coords -> ModuleData]
  /\ step \in [Requests -> ClientSteps]
  /\ got \in [Requests -> ModuleData]
  /\ result \in [Requests -> {"none", "ok", "retired", "deferred"}]
  /\ barred \in [Requests -> BOOLEAN]

ClientInit ==
  /\ Init /\ solo = TRUE
  /\ cache = [c \in Coords |-> Absent]
  /\ step = [p \in Requests |-> "idle"]
  /\ got = [p \in Requests |-> Absent]
  /\ result = [p \in Requests |-> "none"]
  /\ barred = [p \in Requests |-> FALSE]
----------------------------------------------------------------------------
(* LifecycleState::from_str and blocks_new_use. *)
FromStr(s) == IF s \in {"beta", "deprecated", "retired"} THEN s ELSE "active"
BlocksNewUse(s) == FromStr(s) = "retired"

MoveTo(p, s) ==
  /\ step' = [step EXCEPT ![p] = s]
  /\ UNCHANGED result

(* expand_includes returns: with the text to inline, or an error.  Every   *)
(* error of the client, a 410 included, is reported as "deferred".         *)
Return(p, code) ==
  /\ step' = [step EXCEPT ![p] = "idle"]
  /\ result' = [result EXCEPT ![p] = code]

(* The server has answered p, or the connection broke: no reply came.      *)
Answered(p) == pc[p] = "idle"
Success(p)  == reply[p] = "ok"

(* A compilation reaches an include of coordinate c and asks for its       *)
(* lifecycle, also when the module is cached.                              *)
Include(p, c) ==
  /\ step[p] = "idle"
  /\ Receive(p, "meta", c, Absent, "getMeta")
  /\ step' = [step EXCEPT ![p] = "lifecycle"]
  /\ got' = [got EXCEPT ![p] = Absent]
  /\ result' = [result EXCEPT ![p] = "none"]
  /\ UNCHANGED cache

(* A mutant: a cached module is used whatever the answer.                  *)
GetLifecycleUnlessCached(p) ==
  /\ step[p] = "lifecycle" /\ Answered(p)
  /\ \/ ~Success(p) /\ Return(p, "deferred")
     \/ Success(p) /\ BlocksNewUse(body[p]) /\ cache[coord[p]] = Absent /\ Return(p, "retired")
     \/ Success(p) /\ MoveTo(p, "readCached")
  /\ UNCHANGED <<vars, cache, got>>

(* get_lifecycle returns, and a retired module is refused.                 *)
GetLifecycle(p) ==
  /\ step[p] = "lifecycle" /\ Answered(p)
  /\ \/ ~Success(p) /\ Return(p, "deferred")
     \/ Success(p) /\ BlocksNewUse(body[p]) /\ Return(p, "retired")
     \/ Success(p) /\ ~BlocksNewUse(body[p]) /\ MoveTo(p, "readCached")
  /\ UNCHANGED <<vars, cache, got>>

(* fetch_module: a cache file that can be read is returned as it is; one   *)
(* that was cut inside a character cannot.  Otherwise ask for the content. *)
ReadCached(p) ==
  /\ step[p] = "readCached"
  /\ \/ /\ cache[coord[p]] # Absent
        /\ got' = [got EXCEPT ![p] = cache[coord[p]]]
        /\ Return(p, "ok")
        /\ UNCHANGED vars
     \/ /\ cache[coord[p]] \in {Absent, Empty, Mixed} \/ "disk" \in Faults
        /\ Receive(p, "content", coord[p], Absent, "gate")
        /\ MoveTo(p, "fetch")
        /\ UNCHANGED got
  /\ UNCHANGED cache

(* A mutant: the text is taken from the wrong part of the answer.          *)
FetchMixedUp(p) ==
  /\ step[p] = "fetch" /\ Answered(p)
  /\ got' = [got EXCEPT ![p] = reply[p]]
  /\ MoveTo(p, "openCache")
  /\ UNCHANGED <<vars, cache>>

(* The download ends: only a success is a module.                          *)
Fetch(p) ==
  /\ step[p] = "fetch" /\ Answered(p)
  /\ \/ /\ ~Success(p)
        /\ Return(p, "deferred")
        /\ UNCHANGED got
     \/ /\ Success(p)
        /\ got' = [got EXCEPT ![p] = body[p]]
        /\ MoveTo(p, "openCache")
  /\ UNCHANGED <<vars, cache>>

(* write_cache creates or truncates the file, then writes the bytes; its   *)
(* errors are ignored.                                                     *)
OpenCache(p) ==
  /\ step[p] = "openCache"
  /\ \/ /\ cache' = [cache EXCEPT ![coord[p]] = Empty]
        /\ MoveTo(p, "writeCache")
     \/ /\ "disk" \in Faults
        /\ Return(p, "ok")
        /\ UNCHANGED cache
  /\ UNCHANGED <<vars, got>>

WriteCache(p) ==
  /\ step[p] = "writeCache"
  /\ Return(p, "ok")
  /\ \/ \E d \in ModuleOver(cache[coord[p]], got[p]) :
           cache' = [cache EXCEPT ![coord[p]] = d]
     \/ "disk" \in Faults /\ UNCHANGED cache
  /\ UNCHANGED <<vars, got>>

(* The client's 30 s pass or the connection breaks, before or after the    *)
(* server is done with the request.                                        *)
GiveUp(p) ==
  /\ "network" \in Faults
  /\ step[p] \in {"lifecycle", "fetch"}
  /\ Return(p, "deferred")
  /\ UNCHANGED <<vars, cache, got>>

(* The process is killed; the cache keeps what it wrote.                   *)
Kill(p) ==
  /\ "kill" \in Faults
  /\ step[p] # "idle"
  /\ MoveTo(p, "idle")
  /\ UNCHANGED <<vars, cache, got>>
----------------------------------------------------------------------------
(* The next step of a compilation that runs.                               *)
Compile(p) == GetLifecycle(p) \/ ReadCached(p) \/ Fetch(p) \/ OpenCache(p) \/ WriteCache(p)

(* A publication or a lifecycle change of somebody reaches the server;     *)
(* what others read from it changes nothing.                               *)
Mutate(r) ==
  /\ step[r] = "idle"
  /\ ReceiveAny(r) /\ op'[r] \in Mutators
  /\ got' = [got EXCEPT ![r] = Absent]
  /\ result' = [result EXCEPT ![r] = "none"]
  /\ UNCHANGED <<cache, step>>

(* A step of the server. *)
Serve ==
  /\ \/ \E r \in Requests : Handle(r) \/ IoError(r) \/ Cancel(r)
     \/ Crash
  /\ UNCHANGED <<cache, compilation>>

(* p sends a request in this step. *)
Asks(p) == step'[p] # step[p] /\ step'[p] \in {"lifecycle", "fetch"}

ClientNext ==
  /\ \/ Serve
     \/ \E r \in Requests : Mutate(r)
     \/ \E p \in Requests : \/ \E c \in Coords : Include(p, c)
                            \/ Compile(p) \/ GiveUp(p) \/ Kill(p)
  /\ solo' = (solo /\ Alone({"put"})')
  /\ barred' = [p \in Requests |-> /\ Asks(p) \/ barred[p]
                                   /\ meta'[coord'[p]] = "retired"]

ClientSpec == ClientInit /\ [][ClientNext]_ClientVars
----------------------------------------------------------------------------
(* Unless publishers raced, the cache never holds another text than the    *)
(* registry, whichever compilations race, die or lose the server: a        *)
(* complete file agrees with it for ever.                                  *)
CacheAgrees ==
  solo => \A c \in Coords : cache[c] \in {Absent, Empty, module[c]}

(* A module that was retired when the compilation last asked the server    *)
(* about it, for its lifecycle or for its text, and stayed so, is not      *)
(* used, cached or not.                                                    *)
RetiredNotUsed ==
  \A p \in Requests : result[p] = "ok" => ~barred[p]

(* graydr publish says "Published": the server answered 201.               *)
Published(r) == op[r] = "put" /\ reply[r] = "ok"

(* Unless publishers raced, "Published" is only reported to the one whose  *)
(* text the coordinate carries, for ever, and it is visible by then.       *)
PublishedOkIsMine ==
  solo => \A r \in Requests :
     Published(r) => module[coord[r]] = arg[r] /\ meta[coord[r]] # Absent

(* client.rs, fetch_module: "Cache-first: if already downloaded, return    *)
(* immediately".  The text a compilation inlines is the published one,     *)
(* while no publishers race.  A compilation killed between the two steps   *)
(* of write_cache leaves a file that the next one takes for the module.    *)
UsesPublishedText ==
  solo => \A p \in Requests : result[p] = "ok" => got[p] = module[coord[p]]
============================================================================
