--------------------------- MODULE MCOrderPlacement ---------------------------
(* OrderPlacement for TLC: the orders are interchangeable.                   *)
EXTENDS OrderPlacement, TLC

Symmetry == Permutations(Orders)

=============================================================================
