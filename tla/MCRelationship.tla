---------------------------- MODULE MCRelationship ----------------------------
(* Four entities, interchangeable; none of them has the id NullEntity.        *)
EXTENDS Relationship, TLC

Interchangeable == Permutations(Entities)
=============================================================================
