---------------------------- MODULE MCPermitStore ----------------------------
(***************************************************************************)
(* The permit store for TLC: two permits and two authorities, so that one  *)
(* authority's transition meets a permit of the other, three epochs and    *)
(* three moments.  Permits and authorities are interchangeable.            *)
(***************************************************************************)
EXTENDS PermitStore, TLC

Symmetry == Permutations(PermitIDs) \cup Permutations(AuthorityKeys)

=============================================================================
