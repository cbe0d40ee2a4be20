--------------------------- MODULE MCAuthSessions ---------------------------
(* AuthSessions on small sets of model values.                              *)
EXTENDS AuthSessions, TLC

\* Tokens and request slots are interchangeable.
MCSymmetry == Permutations(Tokens) \cup Permutations(Requests)

=============================================================================
