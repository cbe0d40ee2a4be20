------------------------ MODULE MCAuthSessionsLedger ------------------------
(* AuthSessions and its abstract specification on small sets.               *)
EXTENDS AuthSessionsLedger, TLC

\* Tokens and request slots are interchangeable.
MCSymmetry == Permutations(Tokens) \cup Permutations(Requests)

=============================================================================
