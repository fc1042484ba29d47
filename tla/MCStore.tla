------------------------------ MODULE MCStore ------------------------------
(***************************************************************************)
(* Instances of the registry store for TLC: a few model values for         *)
(* coordinates, texts and request slots.                                   *)
(***************************************************************************)
EXTENDS StoreProperties, TLC

(* Slots, texts and coordinates are interchangeable: Init and every        *)
(* handler treat them alike.  Used for the safety runs only.               *)
Symmetry == Permutations(Requests) \cup Permutations(Contents) \cup Permutations(Coords)
============================================================================
