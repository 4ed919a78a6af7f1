----------------------------- MODULE MCAccounts -----------------------------
(* Accounts on small instances. *)
EXTENDS Accounts, TLC

\* Ids, names, requests and external ids are interchangeable.
Symmetry == Permutations(UserIds) \cup Permutations(Usernames)
            \cup Permutations(Requests) \cup Permutations(ExternalIds)
=============================================================================
