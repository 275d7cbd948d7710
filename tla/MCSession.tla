------------------------------ MODULE MCSession ------------------------------
(* Up to two clients.  c1 has the server's lumps and a spectator avatar; c2  *)
(* is a spectator that loaded the same bundles in another order.             *)
EXTENDS NetworkSession, TLC

CONSTANTS c1, c2, a1, a2, h1, h2

MCServerLumps   == <<h1, h2>>
MCLumpsOf       == [c \in Clients |-> IF c = c1 THEN <<h1, h2>> ELSE <<h2, h1>>]
Spectators      == [c \in Clients |-> "Spectator"]

AvatarSymmetry == Permutations({a1, a2})
=============================================================================
