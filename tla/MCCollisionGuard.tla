-------------------------- MODULE MCCollisionGuard --------------------------
(* Finite instance of CollisionGuard for TLC. *)
EXTENDS CollisionGuard, TLC

\* Agents and conversations are interchangeable.
GuardSymmetry == Permutations(Agents)
=============================================================================
