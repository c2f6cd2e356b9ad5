--------------------------- MODULE MCOAuthSession ---------------------------
(* Finite instances of OAuthSession for TLC. *)
EXTENDS OAuthSession, TLC

\* Requests, uses and grants are interchangeable.
Symmetry == Permutations(Requests) \cup Permutations(Uses)
            \cup Permutations(Grants)
=============================================================================
