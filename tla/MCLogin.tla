------------------------------ MODULE MCLogin ------------------------------
(* A connection, the passwords and the keys for checking Login.             *)
EXTENDS Login, TLC
CONSTANTS s1, h1, h2, k1, k2
Symmetry == Permutations(Hash) \union Permutations(Key)
=============================================================================
