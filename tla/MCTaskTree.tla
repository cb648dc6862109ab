------------------------------ MODULE MCTaskTree ------------------------------
(* Small task trees: a root and two tasks it may start, one under the other. *)
EXTENDS TaskTree, TLC
Interchangeable == Permutations(Tasks \ {Root})
===============================================================================
