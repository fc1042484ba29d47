------------------------------ MODULE MCRaces ------------------------------
(* The instance of the store under racing publishers. *)
EXTENDS StoreRaces, MCStore
============================================================================
