------------------------------ MODULE MCLocks -------------------------------
(* TLC instances of Locks: the symmetry of the clients.                 *)
EXTENDS Locks, TLC

Symmetry == Permutations(Client)
=============================================================================
