------------------------- MODULE MCDisputesService -------------------------
(* Small instances of DisputesService for TLC. *)
EXTENDS DisputesService, TLC

CONSTANTS c1, c2, d1, d2, d3, e1, m1

(* One caller creates, authorizes and settles while the other authorizes and *)
(* reverses the first dispute or initiates the second.                       *)
TwoRoles ==
  (c1 :> ({"create"} \X Disputes) \cup {<<"authorize", d1>>, <<"authorize", d2>>, <<"settle", d1>>}) @@
  (c2 :> {<<"authorize", d1>>, <<"reverse", d1>>, <<"initiate", d2>>})

(* Two disputes of one merchant over one entry, and one of a fraud code.     *)
Requests ==
  (d1 :> [entry |-> e1, merchant |-> m1, amount |-> 1, code |-> "14.2"]) @@
  (d2 :> [entry |-> e1, merchant |-> m1, amount |-> 1, code |-> "4837"]) @@
  (d3 :> [entry |-> e1, merchant |-> m1, amount |-> 1, code |-> "13.1"])

Amounts == e1 :> 2

OneReserve == m1 :> 1

Limits == (d1 :> 3) @@ (d2 :> 4) @@ (d3 :> 1)

InMemory == [d \in Disputes |-> "memory"]

(* TLC evaluates this before the run, on both sides of every bound of the    *)
(* fee.                                                                      *)
ASSUME HoldsCoverTheDispute(1..1100)

=============================================================================
