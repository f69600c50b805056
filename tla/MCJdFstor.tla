----------------------------- MODULE MCJdFstor -----------------------------
(* The constants of the runs of JdFstor: values of two sizes, and keys     *)
(* that may be exchanged.                                                  *)
EXTENDS JdFstor, TLC
CONSTANTS v1, v2
MCSize == [v \in Values |-> IF v = v1 THEN 1 ELSE 2]
KeySymmetry == Permutations(Keys) \cup Permutations(LargeKeys)
=============================================================================
