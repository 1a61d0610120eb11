----------------------------- MODULE MCPagePool -----------------------------
(* TLC instances of PagePool: the symmetry of the safety runs.             *)
EXTENDS PagePool, TLC

Symmetry == Permutations(Page) \cup Permutations(Client)
                \cup Permutations(Replacer)
=============================================================================
