---------------------------- MODULE ModuleStore ----------------------------
(***************************************************************************)
(* What the registry's storage promises, free of files and of requests:    *)
(* the ModuleStore trait (graydr-registry/src/store/mod.rs) together with  *)
(* the lifecycle it documents.  A coordinate first receives its content,   *)
(* for good; it then becomes visible as "active" and only moves along      *)
(* active -> deprecated -> retired.                                        *)
(*                                                                         *)
(* A coordinate may hold content and not be visible: put_module stores the *)
(* content before the metadata, and a request that ends in between leaves  *)
(* the coordinate taken.                                                   *)
(***************************************************************************)
CONSTANTS Coords,        \* org/name@version coordinates
          Contents,      \* module texts
          Missing        \* stands for "no content" and "no metadata"

VARIABLES content,       \* content[c]: the text stored for c, or Missing
          lifecycle      \* lifecycle[c]: the state shown for c, or Missing

storeVars == <<content, lifecycle>>

States == {"active", "deprecated", "retired"}

(* active -> deprecated -> retired; retired is terminal. *)
Transitions == {<<"active", "deprecated">>, <<"deprecated", "retired">>}

Init ==
  /\ content   = [c \in Coords |-> Missing]
  /\ lifecycle = [c \in Coords |-> Missing]

(* The first upload takes the coordinate. *)
Take(c) ==
  /\ content[c] = Missing
  /\ \E x \in Contents : content' = [content EXCEPT ![c] = x]
  /\ UNCHANGED lifecycle

(* Only a coordinate with content becomes visible, once, as active. *)
Show(c) ==
  /\ content[c] # Missing
  /\ lifecycle[c] = Missing
  /\ lifecycle' = [lifecycle EXCEPT ![c] = "active"]
  /\ UNCHANGED content

Advance(c) ==
  /\ \E s \in States :
        /\ <<lifecycle[c], s>> \in Transitions
        /\ lifecycle' = [lifecycle EXCEPT ![c] = s]
  /\ UNCHANGED content

Next == \E c \in Coords : Take(c) \/ Show(c) \/ Advance(c)

Spec == Init /\ [][Next]_storeVars
============================================================================
