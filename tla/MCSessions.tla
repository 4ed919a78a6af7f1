----------------------------- MODULE MCSessions -----------------------------
(* Sessions on small instances. *)
EXTENDS Sessions, TLC

\* Clients, requests, tokens and roles are interchangeable.
Symmetry == Permutations(Clients) \cup Permutations(Requests)
            \cup Permutations(Tokens) \cup Permutations(Roles)
=============================================================================
