------------------------- MODULE MCRegistryListing -------------------------
(* Instances of RegistryListing for TLC. *)
EXTENDS RegistryListing

EveryKind == AllKinds
=============================================================================
