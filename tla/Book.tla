-------------------------------- MODULE Book --------------------------------
(***************************************************************************)
(* What the ledger promises: a book of accounts in which entries are only  *)
(* ever added, one at a time, to accounts that are there.  The book has no *)
(* balances: what an account holds is what its entries come to.            *)
(***************************************************************************)
EXTENDS Integers, Sequences, FiniteSetsExt

CONSTANTS
  Ids,      (* account ids                                                 *)
  Rows,     (* accounts: number, type and currency                         *)
  Entries   (* entries: number, txn, type, account and amount              *)

VARIABLES
  accounts, (* the accounts opened so far: id |-> row                      *)
  journal   (* the entries, in the order in which they were added          *)

Init == accounts = <<>> /\ journal = <<>>

(* A debit adds to what assets and expenses hold, a credit to the others.  *)
Effect(e) ==
  IF (e.type = "debit") <=> (accounts[e.account].type \in {"asset", "expense"})
  THEN e.amount ELSE -e.amount

Holds(a) ==
  MapThenSumSet(LAMBDA i : Effect(journal[i]),
                {i \in DOMAIN journal : journal[i].account = a})

(* No two accounts have the same number.                                   *)
Open(a, row) ==
  /\ a \notin DOMAIN accounts
  /\ \A b \in DOMAIN accounts : accounts[b].number # row.number
  /\ accounts' = [b \in DOMAIN accounts \cup {a} |-> IF b = a THEN row ELSE accounts[b]]
  /\ UNCHANGED journal

(* No two entries have the same number, only expenses hold less than       *)
(* nothing, and the credit of a transfer comes after its debit.            *)
Post(e) ==
  /\ journal' = Append(journal, e)
  /\ e.account \in DOMAIN accounts
  /\ e.amount > 0
  /\ \A i \in DOMAIN journal : journal[i].number # e.number
  /\ accounts[e.account].type # "expense" => Holds(e.account) + Effect(e) >= 0
  /\ e.number[2] = "credit" =>
       \E i \in DOMAIN journal : /\ journal[i].number[2] = "debit"
                                 /\ journal[i].txn = e.txn
                                 /\ journal[i].amount = e.amount
  /\ UNCHANGED accounts

(* What each disjunct changes anyway is said first, so that TLC need not   *)
(* look for an entry in a step that adds none.                             *)
Next ==
  \/ accounts' # accounts /\ \E a \in Ids, row \in Rows : Open(a, row)
  \/ journal' # journal /\ \E e \in Entries : Post(e)

Spec == Init /\ [][Next]_<<accounts, journal>>

=============================================================================
