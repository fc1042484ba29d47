------------------------------ MODULE MCClient ------------------------------
(* The instance of the server and its clients. *)
EXTENDS RegistryClient, MCStore
=============================================================================
