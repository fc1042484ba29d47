-------------------------- MODULE StoreProperties --------------------------
(***************************************************************************)
(* What the registry server promises, and under which use of it.  The      *)
(* handlers take no lock, so several promises hold only when the clients   *)
(* do not race: the specifications below differ in which requests may be   *)
(* in flight together, never in what a handler does.                       *)
(***************************************************************************)
EXTENDS FilesystemStore

Mutators == {"put", "patch"}

InFlight(r, ops) == op[r] \in ops /\ pc[r] # "idle"

(* No two requests of "ops" are in flight on one coordinate. *)
Alone(ops) ==
  \A q, r \in Requests :
     q # r /\ coord[q] = coord[r] => ~(InFlight(q, ops) /\ InFlight(r, ops))

(* One mutating request at a time per coordinate; reads are unrestricted. *)
SerialSpec == Init /\ [][Next /\ Alone(Mutators)']_vars

(* Clients that give up and restarts, but no failing filesystem call.      *)
LiveNext ==
  \/ \E r \in Requests : ReceiveAny(r) \/ Handle(r) \/ Cancel(r)
  \/ Crash

(* A handler that has started keeps running until it ends or a fault       *)
(* strikes: tokio polls every ready task, and a filesystem call returns.   *)
FairSpec == Init /\ [][LiveNext]_vars /\ \A r \in Requests : WF_vars(Handle(r))
----------------------------------------------------------------------------
(* Under Spec: any interleaving, any fault. *)

(* A coordinate that shows metadata has content, whatever raced or crashed *)
(* on the way: put_module stores module.gmod before meta.json.             *)
MetaImpliesModule ==
  \A c \in Coords : meta[c] # Absent => module[c] # Absent

(* What is published stays published: no handler, fault or restart makes a *)
(* coordinate's content or metadata disappear.                             *)
Monotone ==
  \A c \in Coords : /\ meta[c] # Absent => meta'[c] # Absent
                    /\ module[c] # Absent => module'[c] # Absent

PublishedForever == [][Monotone]_vars

(* Content present, and no put on its way to replace it. *)
Settled(c) ==
  /\ module[c] # Absent
  /\ \A r \in Requests : coord[r] = c => pc[r] \notin ModuleSteps

(* Once the puts that raced for a coordinate are past their rename, its    *)
(* content never changes again: later puts see module.gmod and conflict.   *)
SettledStays ==
  \A c \in Coords : Settled(c) => module'[c] = module[c] /\ Settled(c)'

SettledModuleImmutable == [][SettledStays]_vars

Writes(r, c) == /\ op[r] = "put" /\ coord[r] = c
                /\ pc[r] \in ModuleSteps \cup MetaSteps

(* A put of c failed or vanished, and no other goes on. *)
Abandoned(c) ==
  /\ \E r \in Requests : /\ op[r] = "put" /\ coord[r] = c
                         /\ pc[r] = "idle" /\ reply[r] \in {"none", "internal"}
  /\ \A r \in Requests : ~Writes(r, c)

(* Under FairSpec: content that is in place while puts go on becomes       *)
(* visible, also when they share the temporary files and lose them to each *)
(* other; only when the last of them is struck or fails is it left hidden. *)
EventuallyVisible ==
  \A c \in Coords :
     (module[c] # Absent /\ \E r \in Requests : Writes(r, c))
       ~> (meta[c] # Absent \/ Abandoned(c))

(* Under FairSpec: every request comes to its end. *)
EveryRequestAnswered ==
  \A r \in Requests : pc[r] # "idle" ~> pc[r] = "idle"
----------------------------------------------------------------------------
(* Under SerialSpec. *)

Abstract == INSTANCE ModuleStore
              WITH content <- module, lifecycle <- meta, Missing <- Absent

(* The files implement the abstract store, faults and restarts included.   *)
ImplementsModuleStore == Abstract!Spec

(* A module retired before a download began is not served.                 *)
RetirementGate ==
  \A r \in Requests :
     op[r] = "content" /\ reply[r] = "ok" => atArrival[r][coord[r]] # "retired"

(* t is s or a later state of the same module. *)
AtOrAfter(s, t) == \/ s = t
                   \/ Valid(s, t)
                   \/ s = "active" /\ t = "retired"

(* GET meta is fresh: what it returns is no older than the request and no  *)
(* newer than the store.                                                   *)
MetaIsFresh ==
  \A r \in Requests :
    op[r] = "meta" /\ reply[r] = "ok" =>
      /\ atArrival[r][coord[r]] # Absent => AtOrAfter(atArrival[r][coord[r]], body[r])
      /\ AtOrAfter(body[r], meta[coord[r]])

(* GET versions misses no version that was published when it was asked,    *)
(* although it visits the versions one by one, and shows none newer than   *)
(* the store nor older than it was at the request.                         *)
ListIsFresh ==
  \A r \in Requests :
    op[r] = "list" /\ reply[r] = "ok" =>
      /\ \A c \in Coords : atArrival[r][c] # Absent =>
           \E e \in listing[r] : e[1] = c /\ AtOrAfter(atArrival[r][c], e[2])
      /\ \A e \in listing[r] : AtOrAfter(e[2], meta[e[1]])
----------------------------------------------------------------------------
(* What the repository says of racing requests, and the handlers do not do. *)

(* filesystem.rs, update_lifecycle: "retired is terminal".  A retired      *)
(* module does not come back.                                              *)
RetiredIsTerminal ==
  [][\A c \in Coords :
       meta[c] = "retired" => meta'[c] \notin {"beta", "active", "deprecated"}]_vars
============================================================================
