-------------------------- MODULE MCPasswordReset --------------------------
(* PasswordReset on small sets of model values.                             *)
EXTENDS PasswordReset, TLC

MCSymmetry == Permutations(Tokens) \cup Permutations(Requests)
              \cup Permutations(Links) \cup Permutations(Jobs)

=============================================================================
