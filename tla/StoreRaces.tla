----------------------------- MODULE StoreRaces -----------------------------
(***************************************************************************)
(* The registry store under any requests and all faults, with a history of *)
(* whether publishers raced.  What does not depend on it is stated in      *)
(* StoreProperties; what a team with one publishing job per coordinate can *)
(* rely on, while lifecycle changes still race, is stated here.            *)
(***************************************************************************)
EXTENDS StoreProperties

VARIABLE solo            \* no two puts of a coordinate ever overlapped

RaceVars == <<vars, solo>>

RaceSpec ==
  /\ Init /\ solo = TRUE
  /\ [][Next /\ solo' = (solo /\ Alone({"put"})')]_RaceVars

(* Without racing puts content is set once and whole: the first text that  *)
(* appears under a coordinate was uploaded, and it is never replaced.      *)
ContentSetOnce ==
  [][solo' => \A c \in Coords :
       IF module[c] = Absent THEN module'[c] \in Contents \cup {Absent}
                             ELSE module'[c] = module[c]]_RaceVars

(* Without racing puts an answered GET content carries exactly the text    *)
(* stored for the coordinate, and the whole of it.                         *)
ServedAsPublished ==
  solo => \A r \in Requests :
     op[r] = "content" /\ reply[r] = "ok" =>
       body[r] \in Contents /\ body[r] = module[coord[r]]

(* Lifecycle changes that race cannot retire a module that was never       *)
(* deprecated: without racing puts, a document in the shared temporary     *)
(* file was validated against a state at least as new as the one it        *)
(* replaces.                                                               *)
NoLifecycleSkip ==
  [][solo' => \A c \in Coords :
       meta[c] = "active" => meta'[c] \notin {"beta", "retired", Absent}]_RaceVars
============================================================================
