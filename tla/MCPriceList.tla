---------------------------- MODULE MCPriceList ----------------------------
(* PriceList on small sets of model values.                                 *)
EXTENDS PriceList, TLC

MCSymmetry == Permutations(Staff)

=============================================================================
