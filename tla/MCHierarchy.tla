------------------------------ MODULE MCHierarchy ------------------------------
(* Ids above NullEntity: a registry whose first id went to an entity that no  *)
(* one adopts a child for.  FirstIds starts where entt does.                    *)
EXTENDS WorldHierarchy

UsualIds == 1..4
FirstIds == 0..2
=============================================================================
