------------------------------- MODULE MCVfs -------------------------------
(***************************************************************************)
(* Two directories, which are as good as each other, with an entry in each, *)
(* and two files: enough to rename one's entry into the other, the one over *)
(* the other or into itself, and to remove and make half of a branch.       *)
(***************************************************************************)
EXTENDS Vfs, TLC

CONSTANTS d1, d2, x, f1, f2

MCPath == {<<d1>>, <<d2>>, <<d1, x>>, <<d2, x>>}

Symmetry == Permutations({d1, d2}) \union Permutations({f1, f2})
=============================================================================
