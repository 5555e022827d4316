------------------------------ MODULE MCLedger ------------------------------
(* Small instances of Ledger for TLC. *)
EXTENDS Ledger, TLC

CONSTANTS t1, t2, p1, p2

(* Two transaction ids that share their first eight characters. *)
SharedPrefix == (t1 :> p1) @@ (t2 :> p1)

(* A single transaction id. *)
OnePrefix == t1 :> p1

(* One transaction id with a prefix of its own, and two that share one. *)
TwoPrefixes == [t \in Txns |-> IF t = t1 THEN p1 ELSE p2]

TxnSymmetry ==
  Permutations(Clients) \cup Permutations(Ids) \cup Permutations(Txns \ {t1})

Symmetry == Permutations(Clients) \cup Permutations(Ids) \cup Permutations(Numbers) \cup Permutations(Stamps)

=============================================================================
