----------------------------- MODULE MCRfqClient -----------------------------
(* RfqClient for TLC: users and quotes are interchangeable.                  *)
EXTENDS RfqClient, TLC

Symmetry == Permutations(Users) \cup Permutations(Quotes)

=============================================================================
