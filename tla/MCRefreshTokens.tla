--------------------------- MODULE MCRefreshTokens ---------------------------
(* RefreshTokens on small instances. *)
EXTENDS RefreshTokens, TLC

\* The requests are interchangeable, and so are the tokens.
Symmetry == Permutations(Requests) \cup Permutations(Tokens)
=============================================================================
