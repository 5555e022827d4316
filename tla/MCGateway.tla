----------------------------- MODULE MCGateway -----------------------------
(* Small instances of Gateway for TLC. *)
EXTENDS Gateway, TLC

TwoEntries == <<"one", "two">>

Symmetry == Permutations(Requests)

=============================================================================
