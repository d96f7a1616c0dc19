-------------------------------- MODULE Actors ------------------------------
(***************************************************************************)
(* The sources and brokers of a topology, and the links between them.      *)
(***************************************************************************)
CONSTANTS Sources, Brokers

Links == Sources \X Brokers
=============================================================================
