--------------------------- MODULE MCJYUpdataTool ---------------------------
(* Instances of JYUpdataTool for TLC.                                      *)
EXTENDS JYUpdataTool, TLC

Symmetry == Permutations(Threads)

=============================================================================
