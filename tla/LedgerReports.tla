---------------------------- MODULE LedgerReports ----------------------------
(***************************************************************************)
(* What is read back from the ledger while clients go on posting: the      *)
(* Validator of internal/ledger/validator.go, whose checks are several     *)
(* separate queries, and the reporting functions of migration 012, which   *)
(* go by snapshot_time.                                                    *)
(*                                                                         *)
(* snapshot_time is CURRENT_TIMESTAMP, the start of the database           *)
(* transaction, so the module splits the posting step of Ledger in two:    *)
(* an attempt begins, and later commits or rolls back.                     *)
(***************************************************************************)
EXTENDS Ledger

CONSTANT MaxClock  (* bound on the time of the database server *)

ASSUME ReportsAssumption == MaxClock \in Nat

VARIABLES
  clock,    (* the time of the database server                             *)
  began,    (* when the client's database transaction began, 0 if none     *)
  times,    (* snapshot_time of each row of balance_snapshots              *)
  at,       (* the next query of ComprehensiveValidation                   *)
  subject,  (* the account it validates                                    *)
  actual,   (* the balance it read, and the length of the journal then     *)
  todo,     (* the transactions it has still to validate                   *)
  results   (* the ValidationResults so far                                *)

posting == <<clock, began, times>>
validation == <<at, subject, actual, todo, results>>
reportVars == <<vars, posting, validation>>

(* A verdict "error" is an invalid result because a query failed; span are *)
(* the journal entries committed between the two queries it compares.      *)
Result(kind, verdict, span, txns) ==
  [kind |-> kind, verdict |-> verdict, span |-> span, txns |-> txns]

ReportInit ==
  /\ Init
  /\ clock = 0
  /\ began = [c \in Clients |-> 0]
  /\ times = <<>>
  /\ at = "done"
  /\ subject \in Ids
  /\ actual = [balance |-> 0, seen |-> 0]
  /\ todo = {}
  /\ results = {}

-----------------------------------------------------------------------------
(* Posting, with the time at which each attempt begins.                    *)

Begin(c) ==
  /\ pc[c] = "post"
  /\ began[c] = 0
  /\ clock < MaxClock
  /\ clock' = clock + 1
  /\ began' = [began EXCEPT ![c] = clock + 1]
  /\ UNCHANGED <<vars, times, validation>>

LedgerStep(c) ==
  /\ pc[c] = "post" => began[c] # 0
  /\ Step(c)
  /\ began' = [began EXCEPT ![c] = 0]
  /\ times' = IF snapshots' = snapshots THEN times ELSE Append(times, began[c])
  /\ UNCHANGED <<clock, validation>>

-----------------------------------------------------------------------------
(* ComprehensiveValidation: one query after another, each of the committed *)
(* data of its own moment.  A query that fails yields an invalid result,   *)
(* except the one that lists the transactions: its failure, at once or in  *)
(* the middle of its rows, is ignored.                                     *)

Ask(query, next) ==
  /\ at = query
  /\ at' = next
  /\ UNCHANGED <<vars, posting, subject>>

Report(kind, verdict, span, txns) ==
  results' = results \cup {Result(kind, verdict, span, txns)}

Verdict(holds) == IF holds THEN "valid" ELSE "invalid"

(* Mutant: the account is not looked up first.                             *)
ComprehensiveValidationUnchecked(a) ==
  /\ at = "done"
  /\ subject' = a
  /\ actual' = [balance |-> 0, seen |-> 0]
  /\ todo' = {}
  /\ at' = "balance"
  /\ results' = {}
  /\ UNCHANGED <<vars, posting>>

ComprehensiveValidation(a) ==
  /\ at = "done"
  /\ subject' = a
  /\ actual' = [balance |-> 0, seen |-> 0]
  /\ todo' = {}
  /\ \/ a \in DOMAIN accounts /\ at' = "balance" /\ results' = {}
     \/ /\ a \notin DOMAIN accounts \/ "unavailable" \in Faults
        /\ at' = "done" /\ results' = {Result("comprehensive", "error", {}, {})}
  /\ UNCHANGED <<vars, posting>>

ReadBalance ==
  /\ Ask("balance", "entries")
  /\ actual' = [balance |-> balances[subject], seen |-> Len(journal)]
  /\ UNCHANGED <<todo, results>>

(* Mutant: debits and credits are all added.                               *)
ExpectedBalanceUnsigned(a) ==
  MapThenSumSet(LAMBDA i : journal[i].amount,
                {i \in DOMAIN journal : journal[i].account = a})

ExpectedBalance(a) ==
  MapThenSumSet(LAMBDA i : Change(journal[i]),
                {i \in DOMAIN journal : journal[i].account = a})

ReadEntries ==
  /\ Ask("entries", "numbers")
  /\ Report("balance_consistency", Verdict(actual.balance = ExpectedBalance(subject)),
            actual.seen + 1 .. Len(journal), {})
  /\ UNCHANGED <<actual, todo>>

ReadNumbers ==
  /\ Ask("numbers", "transactions")
  /\ Report("immutability_constraint",
            Verdict(Cardinality({journal[i].number : i \in DOMAIN journal}) = Len(journal)),
            {}, {})
  /\ UNCHANGED <<actual, todo>>

ReadTransactions ==
  /\ Ask("transactions", "totals")
  /\ todo' = {journal[i].txn : i \in {j \in DOMAIN journal : journal[j].account = subject}}
  /\ UNCHANGED <<actual, results>>

ReadTotals(txn) ==
  /\ Ask("totals", "totals")
  /\ txn \in todo
  /\ todo' = todo \ {txn}
  /\ Report("double_entry_constraint",
            Verdict(Total(txn, "debit") = Total(txn, "credit")), {}, {txn})
  /\ UNCHANGED actual

Finish ==
  /\ todo = {}
  /\ Ask("totals", "done")
  /\ UNCHANGED <<actual, todo, results>>

QueryFails ==
  /\ "unavailable" \in Faults
  /\ \/ /\ Ask("balance", "numbers") \/ Ask("entries", "numbers")
        /\ Report("balance_consistency", "error", {}, {})
        /\ UNCHANGED todo
     \/ /\ Ask("numbers", "transactions")
        /\ Report("immutability_constraint", "error", {}, {})
        /\ UNCHANGED todo
     \/ /\ Ask("transactions", "done") \/ Ask("totals", "done")
        /\ UNCHANGED <<todo, results>>
     \/ /\ Ask("totals", "totals")
        /\ \E txn \in todo : /\ todo' = todo \ {txn}
                             /\ Report("double_entry_constraint", "error", {}, {txn})
  /\ UNCHANGED actual

ReportNext ==
  \/ \E c \in Clients : Begin(c) \/ LedgerStep(c)
  \/ \E a \in Ids : ComprehensiveValidation(a)
  \/ ReadBalance
  \/ ReadEntries
  \/ ReadNumbers
  \/ ReadTransactions
  \/ \E txn \in Txns : ReadTotals(txn)
  \/ Finish
  \/ QueryFails

ReportSpec == ReportInit /\ [][ReportNext]_reportVars

-----------------------------------------------------------------------------
(* get_account_balance_at_time of migration 012: one query.                *)

(* Mutant: a moment too many is taken in.                                  *)
BalanceAfter(a, time) ==
  MapThenSumSet(LAMBDA i : snapshots[i].change,
                {i \in SnapshotsOf(a) : times[i] <= time + 1})

BalanceAt(a, time) ==
  MapThenSumSet(LAMBDA i : snapshots[i].change,
                {i \in SnapshotsOf(a) : times[i] <= time})

(* detect_reconciliation_drift: the changes of a span of time against the  *)
(* largest balance there ever was up to its end.                           *)
DriftExpected(a, start, end) ==
  MapThenSumSet(LAMBDA i : snapshots[i].change,
                {i \in SnapshotsOf(a) : times[i] \in start..end})

(* Mutant: the balance before each entry instead of the one after it.      *)
DriftActualBefore(a, end) ==
  LET upTo == {i \in SnapshotsOf(a) : times[i] <= end}
  IN  IF upTo = {} THEN 0 ELSE Max({snapshots[i].before : i \in upTo})

DriftActual(a, end) ==
  LET upTo == {i \in SnapshotsOf(a) : times[i] <= end}
  IN  IF upTo = {} THEN 0 ELSE Max({snapshots[i].after : i \in upTo})

Drift(a, start, end) == DriftActual(a, end) - DriftExpected(a, start, end)

validate_balance_consistency(a) ==
  MapThenSumSet(LAMBDA i : snapshots[i].change, SnapshotsOf(a)) = balances[a]

-----------------------------------------------------------------------------
(* The validator's check of a transaction before it is posted: one query.  *)

(* Mutant: whichever side it is on, the amount is taken off.               *)
ValidateOverdraftPreventionOneSided(a, amount, type) ==
  Verdict(balances[a] - amount >= 0)

ValidateOverdraftPrevention(a, amount, type) ==
  LET increases == (type = "credit") <=> (accounts[a].type \in DebitNormal)
  IN  Verdict(balances[a] + (IF increases THEN amount ELSE -amount) >= 0)

-----------------------------------------------------------------------------
(* The types; every snapshot has a time that is not in the future, and a   *)
(* validation in progress is about an account that exists.                 *)
ReportTypeOK ==
  /\ clock \in 0..MaxClock
  /\ began \in [Clients -> 0..clock]
  /\ times \in Seq(1..clock)
  /\ Len(times) = Len(snapshots)
  /\ at \in {"balance", "entries", "numbers", "transactions", "totals", "done"}
  /\ at # "done" => subject \in DOMAIN accounts
  /\ todo \subseteq Txns

(* A balance_consistency result is about two moments: it is valid exactly  *)
(* when the entries committed to the account between the two queries       *)
(* cancel out.  Without such entries the validator never cries wolf, and   *)
(* with them it does although the ledger is right.                         *)
VerdictsAreExplained ==
  \A r \in results :
    (r.kind = "balance_consistency" /\ r.verdict # "error") =>
      (r.verdict = "valid" <=>
         MapThenSumSet(LAMBDA i : Change(journal[i]),
                       {i \in r.span : journal[i].account = subject}) = 0)

(* The balance reported for a moment is final once every transaction in    *)
(* progress began later, although snapshots are stamped with the start of  *)
(* their transaction and commit in another order.                          *)
Settled(time) == time < clock /\ \A c \in Clients : began[c] = 0 \/ began[c] > time

HistorySettles ==
  [][ \A a \in DOMAIN accounts, time \in 1..MaxClock :
        Settled(time) => BalanceAt(a, time)' = BalanceAt(a, time) ]_reportVars

(* From the first snapshot to now, a drift is reported for exactly those    *)
(* accounts that once held more than they hold, although nothing is wrong  *)
(* with them: both get_account_balance_at_time and                         *)
(* validate_balance_consistency find the balance that the account has.     *)
BalanceAfterEntry(a, i) ==
  MapThenSumSet(LAMBDA k : Change(journal[k]),
                {k \in 1..i : journal[k].account = a})

DriftTellsOfFalls ==
  \A a \in DOMAIN accounts :
    /\ BalanceAt(a, clock) = balances[a]
    /\ validate_balance_consistency(a)
    /\ Drift(a, 1, clock) # 0 <=>
         \E i \in DOMAIN journal : /\ journal[i].account = a
                                  /\ BalanceAfterEntry(a, i) > balances[a]

(* Every alarm of ValidateOverdraftPrevention is false.  It takes the two   *)
(* sides the other way round, and no balance that has to stay above zero   *)
(* is below: so what it finds to overdraw an account the balance trigger   *)
(* and the CHECK accept, and all that they refuse it lets pass.            *)
OverdraftAlarmsAreFalse ==
  \A a \in DOMAIN accounts, amount \in Amounts, type \in {"debit", "credit"} :
    ValidateOverdraftPrevention(a, amount, type) = "invalid" =>
      ~BalanceRaises([account |-> a, amount |-> amount, type |-> type])

=============================================================================
