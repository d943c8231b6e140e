--------------------------- MODULE MCLogicalEngine ---------------------------
(* Finite instances of LogicalEngine.                                       *)
EXTENDS LogicalEngine, TLC

Symmetry == Permutations(Op) \cup Permutations(Proc) \cup Permutations(Thread)
              \cup Permutations(Partition)
=============================================================================
