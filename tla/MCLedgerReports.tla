--------------------------- MODULE MCLedgerReports ---------------------------
(* Small instances of LedgerReports for TLC. *)
EXTENDS LedgerReports, TLC

CONSTANTS t1, t2, p1

(* A single transaction id. *)
OnePrefix == t1 :> p1

Symmetry == Permutations(Clients)

=============================================================================
