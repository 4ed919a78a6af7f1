-------------------------- MODULE MCSignedRequests --------------------------
(* SignedRequests on small instances. *)
EXTENDS SignedRequests, TLC

\* The servers are interchangeable, and so are the bodies.
Symmetry == Permutations(Servers) \cup Permutations(Bodies)
=============================================================================
