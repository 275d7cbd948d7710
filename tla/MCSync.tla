-------------------------------- MODULE MCSync --------------------------------
(* Two component types: one that only lasting entities have and the one that  *)
(* avatars have too.                                                          *)
EXTENDS WorldSync, TLC

CONSTANTS d1, d2

TwoTypes == <<"mesh_renderer", "transform">>
DataSymmetry == Permutations({d1, d2})
=============================================================================
