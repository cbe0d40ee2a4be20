---------------------------- MODULE MCWebSession ----------------------------
(* WebSession for TLC: tokens, slots and navigations are interchangeable.  *)
EXTENDS WebSession, TLC

MCSymmetry == Permutations(Tokens) \cup Permutations(Requests) \cup Permutations(Navs)

=============================================================================
