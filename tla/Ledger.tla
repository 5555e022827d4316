------------------------------- MODULE Ledger -------------------------------
(***************************************************************************)
(* The double-entry ledger: LedgerService and PostgresLedger (package      *)
(* internal/ledger) over the schema of migrations 010, 011 and 012.        *)
(*                                                                         *)
(* A client runs one call at a time.  Every database transaction of the    *)
(* code is SERIALIZABLE and locks the account row first, so it is one      *)
(* atomic step here; what the Go code does in several transactions or      *)
(* reads (the reads and the two postings of Transfer, the attempts of      *)
(* PostJournalEntry) is several steps, and calls interleave between them.  *)
(*                                                                         *)
(* Data abstracted: amounts are integers (NUMERIC(20,8) never rounds here),*)
(* names, descriptions, references, metadata and created_by are left out.  *)
(* An account is never deactivated and no account or entry row is ever     *)
(* updated or deleted by the code, so is_active is always TRUE.            *)
(***************************************************************************)
EXTENDS Integers, Sequences, FiniteSets, FiniteSetsExt

CONSTANTS
  Clients,      (* concurrent callers of LedgerService                     *)
  Ids,          (* the UUIDs gen_random_uuid() may give to accounts        *)
  Numbers,      (* caller-chosen account numbers that are not UUIDs        *)
  Types,        (* the account types the callers open                      *)
  Currencies,   (* currency codes                                          *)
  Amounts,      (* the amounts requests carry, valid or not                *)
  Txns,         (* transaction UUIDs                                       *)
  Prefixes,     (* the 8-character prefixes of transaction UUIDs           *)
  PrefixOf,     (* the prefix of each transaction UUID                     *)
  Stamps,       (* values of time.Now().UnixNano() in an entry number      *)
  Schema,       (* which triggers and checks of the migrations are there   *)
  Faults,       (* which failures of the database happen                   *)
  Obstacles,    (* which statements of the code can never succeed          *)
  MaxEntries    (* bound: no call that posts starts at this journal length *)

AccountTypes == {"asset", "expense", "liability", "equity", "revenue"}
DebitNormal == {"asset", "expense"}

(* Every guard the three migrations put on an insertion of an entry.       *)
FullSchema == { "validate_double_entry", "validate_transaction_entries",
                "update_account_balance", "create_balance_snapshot",
                "account_balances_chk" }

AllFaults == {"serialization", "reply_lost", "unavailable"}

(* GetAccount reads created_at, a TIMESTAMP, into a string, which pgx      *)
(* refuses: it fails for every account that is there.                      *)
AllObstacles == {"scan"}

ASSUME LedgerAssumption ==
  /\ Types \subseteq AccountTypes
  /\ Amounts \subseteq Int
  /\ PrefixOf \in [Txns -> Prefixes]
  /\ Schema \subseteq FullSchema
  /\ Faults \subseteq AllFaults
  /\ Obstacles \subseteq AllObstacles
  /\ MaxEntries \in Nat
  /\ Numbers \cap Ids = {}
  /\ Stamps \cap {"debit", "credit"} = {}

(* What a request may write where an account is expected: the same string *)
(* is an account number to GetAccount and an account id to every other    *)
(* query.                                                                 *)
Names == Ids \cup Numbers

Account == [number: Names, type: Types, currency: Currencies]
EntryNumbers == Prefixes \X (Stamps \cup {"debit", "credit"})
Entry == [number: EntryNumbers, txn: Txns, type: {"debit", "credit"},
          account: Names, amount: Amounts]
Snapshot == [account: Ids, before: Int, change: Int, after: Int]

VARIABLES
  accounts,     (* accounts: id |-> row                                    *)
  balances,     (* account_balances: id |-> balance                        *)
  journal,      (* journal_entries, in commit order                        *)
  snapshots,    (* balance_snapshots, in commit order                      *)
  pc,           (* where each client's call stands                         *)
  legs,         (* the entries the client's call posts, in order           *)
  leg,          (* index in legs of the entry to post next                 *)
  attempt,      (* the attempt counter of PostJournalEntry                 *)
  reply         (* what the client's last call returned                    *)

tables == <<accounts, balances, journal, snapshots>>
calls == <<pc, legs, leg, attempt, reply>>
vars == <<tables, calls>>

MaxRetries == 3

Init ==
  /\ accounts = <<>>
  /\ balances = <<>>
  /\ journal = <<>>
  /\ snapshots = <<>>
  /\ pc = [c \in Clients |-> "idle"]
  /\ legs = [c \in Clients |-> <<>>]
  /\ leg = [c \in Clients |-> 1]
  /\ attempt = [c \in Clients |-> 0]
  /\ reply = [c \in Clients |-> "none"]

-----------------------------------------------------------------------------
(* Rows and the triggers that fire on an insertion.                        *)

(* The ids of the accounts whose account_number is n: none or one.         *)
Numbered(n) == {a \in DOMAIN accounts : accounts[a].number = n}

EntriesOf(txn) == {i \in DOMAIN journal : journal[i].txn = txn}

(* The signed effect of an entry: debits increase asset and expense        *)
(* accounts, credits the others.                                           *)
Change(e) ==
  IF (e.type = "debit") <=> (accounts[e.account].type \in DebitNormal)
  THEN e.amount ELSE -e.amount

Total(txn, type) ==
  MapThenSumSet(LAMBDA i : journal[i].amount,
                {i \in EntriesOf(txn) : journal[i].type = type})

TotalWith(e, type) == Total(e.txn, type) + (IF e.type = type THEN e.amount ELSE 0)

DoubleEntryRaises(e) ==
  /\ "validate_double_entry" \in Schema
  /\ TotalWith(e, "debit") # TotalWith(e, "credit")

TransactionEntriesRaises(e) ==
  /\ "validate_transaction_entries" \in Schema
  /\ EntriesOf(e.txn) = {}

(* Mutant: only the CHECK, the trigger raises nothing.                     *)
BalanceRaisesByCheckOnly(e) ==
  /\ {"update_account_balance", "account_balances_chk"} \subseteq Schema
  /\ Change(e) < 0 \/ balances[e.account] + Change(e) < 0

(* PostgreSQL evaluates a CHECK on the row proposed by INSERT ... ON       *)
(* CONFLICT DO UPDATE before it looks for the conflict, and on the updated *)
(* row after: the check sees the bare change first.                        *)
BalanceRaises(e) ==
  /\ "update_account_balance" \in Schema
  /\ \/ /\ "account_balances_chk" \in Schema
        /\ Change(e) < 0 \/ balances[e.account] + Change(e) < 0
     \/ /\ accounts[e.account].type # "expense"
        /\ balances[e.account] + Change(e) < 0

(* Mutant: the triggers of 011 are deferred and never run.                 *)
AcceptedWithoutTotals(e) ==
  /\ e.account \in DOMAIN accounts
  /\ e.amount > 0
  /\ \A i \in DOMAIN journal : journal[i].number # e.number
  /\ ~BalanceRaises(e)

(* The insertion commits: the account exists, the amount is positive, the  *)
(* entry number is new and no trigger raises.                              *)
Accepted(e) ==
  /\ e.account \in DOMAIN accounts
  /\ e.amount > 0
  /\ \A i \in DOMAIN journal : journal[i].number # e.number
  /\ ~DoubleEntryRaises(e)
  /\ ~TransactionEntriesRaises(e)
  /\ ~BalanceRaises(e)

(* Mutant: the balance trigger forgets the sign.                           *)
InsertUnsigned(e) ==
  /\ journal' = Append(journal, e)
  /\ balances' = [balances EXCEPT ![e.account] = @ + e.amount]
  /\ UNCHANGED <<accounts, snapshots>>

(* Mutant: the snapshot trigger fires after the balance trigger.           *)
InsertThenSnapshot(e) ==
  /\ journal' = Append(journal, e)
  /\ balances' = [balances EXCEPT ![e.account] = @ + Change(e)]
  /\ snapshots' = Append(snapshots, [account |-> e.account, before |-> balances'[e.account],
                                     change |-> Change(e),
                                     after |-> balances'[e.account] + Change(e)])
  /\ UNCHANGED accounts

(* The AFTER triggers fire in alphabetical order, so the snapshot reads    *)
(* the balance before the balance trigger adds to it.                      *)
Insert(e) ==
  /\ journal' = Append(journal, e)
  /\ snapshots' =
       IF "create_balance_snapshot" \in Schema
       THEN Append(snapshots, [account |-> e.account, before |-> balances[e.account],
                               change |-> Change(e),
                               after |-> balances[e.account] + Change(e)])
       ELSE snapshots
  /\ balances' = IF "update_account_balance" \in Schema
                 THEN [balances EXCEPT ![e.account] = @ + Change(e)]
                 ELSE balances
  /\ UNCHANGED accounts

-----------------------------------------------------------------------------
(* Starting and ending a call.  The entries of a call that succeeded stay  *)
(* in legs until the client's next call; nothing else outlives a call.     *)

Return(c, answer, entries) ==
  /\ pc' = [pc EXCEPT ![c] = "idle"]
  /\ legs' = [legs EXCEPT ![c] = entries]
  /\ leg' = [leg EXCEPT ![c] = 1]
  /\ attempt' = [attempt EXCEPT ![c] = 0]
  /\ reply' = [reply EXCEPT ![c] = answer]

Fail(c) == Return(c, "error", <<>>)

Start(c, step, entries) ==
  /\ pc[c] = "idle"
  /\ pc' = [pc EXCEPT ![c] = step]
  /\ legs' = [legs EXCEPT ![c] = entries]
  /\ reply' = [reply EXCEPT ![c] = "none"]
  /\ UNCHANGED <<tables, leg, attempt>>

(* A request that fails validation returns before it reaches the database; *)
(* so, without effect, does CreateAccount on a number in use.              *)
RefuseRequest(c) ==
  /\ pc[c] = "idle"
  /\ Fail(c)
  /\ UNCHANGED tables

(* GetAccount.                                                             *)
Readable(n) == "scan" \notin Obstacles /\ Numbered(n) # {}

(* CreateAccount.  An attempt that ends in a serialization failure leaves  *)
(* nothing behind and the next one reads afresh, so only the last attempt  *)
(* is a step.  The number may be the id of an account already there; a new *)
(* random id never equals a number in use.  The account is there also when *)
(* the answer is lost or GetAccount, which reads it back after the commit, *)
(* fails.                                                                  *)
CreateAccount(c, id, n, t, cur) ==
  /\ pc[c] = "idle"
  /\ id \notin DOMAIN accounts
  /\ Numbered(n) = {}
  /\ n \in Numbers \cup DOMAIN accounts
  /\ Numbered(id) = {}
  /\ accounts' = [a \in DOMAIN accounts \cup {id} |->
                    IF a = id THEN [number |-> n, type |-> t, currency |-> cur]
                    ELSE accounts[a]]
  /\ balances' = [a \in DOMAIN balances \cup {id} |->
                    IF a = id THEN 0 ELSE balances[a]]
  /\ \/ "scan" \notin Obstacles /\ Return(c, "ok", <<>>)
     \/ /\ "scan" \in Obstacles \/ Faults \cap {"reply_lost", "unavailable"} # {}
        /\ Fail(c)
  /\ UNCHANGED <<journal, snapshots>>

(* Credit and Debit: the caller may name the transaction, also one already *)
(* posted to; the entry number is made of its prefix and the clock.        *)
StartPost(c, type, name, amount, txn, stamp) ==
  /\ Len(journal) < MaxEntries
  /\ amount > 0
  /\ Start(c, "post", <<[number |-> <<PrefixOf[txn], stamp>>, txn |-> txn,
                         type |-> type, account |-> name, amount |-> amount]>>)

UsedTxns == {journal[i].txn : i \in DOMAIN journal}
            \cup UNION {{legs[c][k].txn : k \in DOMAIN legs[c]} : c \in Clients}

(* Transfer draws a transaction id nobody has, builds both entries, and    *)
(* then reads the accounts it will post to.                                *)
StartTransfer(c, from, to, amount, txn) ==
  /\ Len(journal) < MaxEntries
  /\ from # to
  /\ amount > 0
  /\ txn \notin UsedTxns
  /\ Start(c, "from",
       <<[number |-> <<PrefixOf[txn], "debit">>, txn |-> txn, type |-> "debit",
          account |-> from, amount |-> amount],
         [number |-> <<PrefixOf[txn], "credit">>, txn |-> txn, type |-> "credit",
          account |-> to, amount |-> amount]>>)

-----------------------------------------------------------------------------
(* The reads of Transfer.  Accounts never change, so looking fromAccount   *)
(* up again gives what the first read returned.                            *)

Proceed(c, step) ==
  /\ pc' = [pc EXCEPT ![c] = step]
  /\ UNCHANGED <<tables, legs, leg, attempt, reply>>

GetFromAccount(c) ==
  /\ pc[c] = "from"
  /\ Readable(legs[c][1].account)
  /\ Proceed(c, "to")

SameCurrency(c) ==
  \A a \in Numbered(legs[c][1].account), b \in Numbered(legs[c][2].account) :
    accounts[a].currency = accounts[b].currency

GetToAccount(c) ==
  /\ pc[c] = "to"
  /\ Readable(legs[c][2].account)
  /\ SameCurrency(c)
  /\ Proceed(c, "funds")

(* The type comes from the account numbered FromAccountID, the balance     *)
(* from the account whose id it is.                                        *)
Funded(c) ==
  LET from == legs[c][1].account IN
  /\ from \in DOMAIN balances
  /\ \A a \in Numbered(from) :
       accounts[a].type = "asset" => balances[from] >= legs[c][1].amount

CheckFunds(c) ==
  /\ pc[c] = "funds"
  /\ Funded(c)
  /\ Proceed(c, "post")

RefuseTransfer(c) ==
  /\ \/ pc[c] = "from" /\ ~Readable(legs[c][1].account)
     \/ pc[c] = "to" /\ ~(Readable(legs[c][2].account) /\ SameCurrency(c))
     \/ pc[c] = "funds" /\ ~Funded(c)
  /\ Fail(c)
  /\ UNCHANGED tables

-----------------------------------------------------------------------------
(* PostJournalEntry: up to MaxRetries transactions, retried only when the  *)
(* database reports a serialization failure, which is a rollback.          *)

Posting(c) == legs[c][leg[c]]

(* Mutant: Transfer returns what its first entry returned.                 *)
PostFirstEntry(c) ==
  /\ pc[c] = "post"
  /\ Accepted(Posting(c))
  /\ Insert(Posting(c))
  /\ Return(c, "ok", legs[c])

PostEntry(c) ==
  /\ pc[c] = "post"
  /\ Accepted(Posting(c))
  /\ Insert(Posting(c))
  /\ IF leg[c] = Len(legs[c])
     THEN Return(c, "ok", legs[c])
     ELSE /\ leg' = [leg EXCEPT ![c] = @ + 1]
          /\ attempt' = [attempt EXCEPT ![c] = 0]
          /\ UNCHANGED <<pc, legs, reply>>

(* The transaction commits but its answer never comes back: the deadline   *)
(* of five seconds passes, or the connection breaks, during the commit.    *)
PostReplyLost(c) ==
  /\ "reply_lost" \in Faults
  /\ pc[c] = "post"
  /\ Accepted(Posting(c))
  /\ Insert(Posting(c))
  /\ Fail(c)

(* Mutant: Transfer ignores the error of its first entry.                  *)
RejectEntryAndGoOn(c) ==
  /\ pc[c] = "post"
  /\ ~Accepted(Posting(c))
  /\ IF leg[c] < Len(legs[c])
     THEN leg' = [leg EXCEPT ![c] = @ + 1] /\ UNCHANGED <<pc, legs, attempt, reply>>
     ELSE Fail(c)
  /\ UNCHANGED tables

RejectEntry(c) ==
  /\ pc[c] = "post"
  /\ ~Accepted(Posting(c))
  /\ Fail(c)
  /\ UNCHANGED tables

(* Mutants: one attempt too many; no last attempt; the last error is lost. *)
SerializationFailureOffByOne(c) ==
  /\ "serialization" \in Faults
  /\ pc[c] = "post"
  /\ IF attempt[c] = MaxRetries
     THEN Fail(c)
     ELSE attempt' = [attempt EXCEPT ![c] = @ + 1] /\ UNCHANGED <<pc, legs, leg, reply>>
  /\ UNCHANGED tables

SerializationFailureForever(c) ==
  /\ "serialization" \in Faults
  /\ pc[c] = "post"
  /\ attempt' = [attempt EXCEPT ![c] = (@ + 1) % MaxRetries]
  /\ UNCHANGED <<tables, pc, legs, leg, reply>>

SerializationFailureSwallowed(c) ==
  /\ "serialization" \in Faults
  /\ pc[c] = "post"
  /\ IF attempt[c] = MaxRetries - 1
     THEN Return(c, "ok", legs[c])
     ELSE attempt' = [attempt EXCEPT ![c] = @ + 1] /\ UNCHANGED <<pc, legs, leg, reply>>
  /\ UNCHANGED tables

SerializationFailure(c) ==
  /\ "serialization" \in Faults
  /\ pc[c] = "post"
  /\ IF attempt[c] = MaxRetries - 1
     THEN Fail(c)
     ELSE /\ attempt' = [attempt EXCEPT ![c] = @ + 1]
          /\ UNCHANGED <<pc, legs, leg, reply>>
  /\ UNCHANGED tables

(* Any query fails with no effect: no connection, a timeout, a restart.    *)
DatabaseUnavailable(c) ==
  /\ "unavailable" \in Faults
  /\ pc[c] # "idle"
  /\ Fail(c)
  /\ UNCHANGED tables

-----------------------------------------------------------------------------
Step(c) ==
  \/ RefuseRequest(c)
  \/ \E id \in Ids, n \in Names, t \in Types, cur \in Currencies :
        CreateAccount(c, id, n, t, cur)
  \/ \E type \in {"debit", "credit"}, name \in Names, amount \in Amounts,
        txn \in Txns, stamp \in Stamps : StartPost(c, type, name, amount, txn, stamp)
  \/ \E from, to \in Names, amount \in Amounts, txn \in Txns :
        StartTransfer(c, from, to, amount, txn)
  \/ GetFromAccount(c)
  \/ GetToAccount(c)
  \/ CheckFunds(c)
  \/ RefuseTransfer(c)
  \/ PostEntry(c)
  \/ PostReplyLost(c)
  \/ RejectEntry(c)
  \/ SerializationFailure(c)
  \/ DatabaseUnavailable(c)

Next == \E c \in Clients : Step(c)

Spec == Init /\ [][Next]_vars

-----------------------------------------------------------------------------
(* The inductive core of the type invariant also says where each call is   *)
(* among its entries.                                                      *)
TypeOK ==
  /\ DOMAIN accounts \subseteq Ids
  /\ accounts \in [DOMAIN accounts -> Account]
  /\ balances \in [DOMAIN accounts -> Int]
  /\ journal \in Seq(Entry)
  /\ \A i \in DOMAIN journal : journal[i].account \in DOMAIN accounts
  /\ snapshots \in Seq(Snapshot)
  /\ pc \in [Clients -> {"idle", "from", "to", "funds", "post"}]
  /\ legs \in [Clients -> Seq(Entry)]
  /\ leg \in [Clients -> Nat \ {0}]
  /\ \A c \in Clients : pc[c] # "idle" => leg[c] \in DOMAIN legs[c]
  /\ attempt \in [Clients -> 0..MaxRetries - 1]
  /\ reply \in [Clients -> {"none", "ok", "error"}]

(* Under the migrations as written no entry is ever committed: each call   *)
(* inserts one entry per database transaction, and the triggers that want  *)
(* debits equal to credits, and two entries, fire row by row on it.        *)
NothingIsPosted ==
  Schema \cap {"validate_double_entry", "validate_transaction_entries"} # {}
    => journal = <<>>

(* The balance of every account is the signed sum of its journal entries:  *)
(* what validate_balance_consistency() and the Go validator recompute.     *)
BalancesMatchJournal ==
  \A a \in DOMAIN balances :
    balances[a] = MapThenSumSet(LAMBDA i : Change(journal[i]),
                    {i \in DOMAIN journal : journal[i].account = a})

(* The snapshots of an account form a chain from 0 to its balance, each    *)
(* starting where the previous one ended, although the snapshot trigger    *)
(* and the balance trigger compute the change separately.                  *)
SnapshotsOf(a) == {i \in DOMAIN snapshots : snapshots[i].account = a}

SnapshotsChain ==
  \A a \in DOMAIN balances :
    LET mine == SnapshotsOf(a) IN
    /\ mine = {} => balances[a] = 0
    /\ \A i \in mine :
         /\ (\A j \in mine : j >= i) => snapshots[i].before = 0
         /\ (\A j \in mine : j <= i) => snapshots[i].after = balances[a]
         /\ \A j \in mine :
              (i < j /\ \A k \in mine : k <= i \/ k >= j)
                => snapshots[j].before = snapshots[i].after

(* No account that must not be overdrawn ever is, whatever the order in    *)
(* which concurrent calls post to it.                                      *)
NoOverdraft ==
  \A a \in DOMAIN balances :
    ("account_balances_chk" \in Schema \/ accounts[a].type # "expense")
      => balances[a] >= 0

(* A call that returned without error has all its entries in the journal,  *)
(* through every retry and interleaving of other calls.                    *)
OkMeansPosted ==
  \A c \in Clients : reply[c] = "ok" =>
    \A k \in DOMAIN legs[c] : \E i \in DOMAIN journal : journal[i] = legs[c][k]

(* The credit of a transfer is only ever posted after its debit, of the    *)
(* same transaction and amount: a transfer may lack its credit, never its  *)
(* debit.                                                                  *)
IsLeg(e, side) == e.number[2] = side

CreditFollowsDebit ==
  \A j \in DOMAIN journal : IsLeg(journal[j], "credit") =>
    \E i \in 1..j - 1 : /\ IsLeg(journal[i], "debit")
                        /\ journal[i].txn = journal[j].txn
                        /\ journal[i].amount = journal[j].amount

(* With the balance trigger the ledger is the book of Book, whatever calls *)
(* interleave and whatever fails: only the accounts and the journal count, *)
(* and the balances that the triggers keep are what the entries come to.   *)
AccountBook == INSTANCE Book WITH Rows <- Account, Entries <- Entry

ImplementsBook == AccountBook!Spec

(* Every call returns: the retries are bounded and no read or post waits   *)
(* for another call.  Each query has its own deadline, so a call that is   *)
(* in the database goes on.                                                *)
Continue(c) ==
  \/ GetFromAccount(c) \/ GetToAccount(c) \/ CheckFunds(c) \/ RefuseTransfer(c)
  \/ PostEntry(c) \/ PostReplyLost(c) \/ RejectEntry(c)
  \/ SerializationFailure(c) \/ DatabaseUnavailable(c)

FairSpec == Spec /\ \A c \in Clients : WF_vars(Continue(c))

CallsReturn == \A c \in Clients : pc[c] # "idle" ~> pc[c] = "idle"

-----------------------------------------------------------------------------
(* What the documentation says and the code does not do.                   *)

(* "Atomicity: All operations within single transactions": when the        *)
(* database fails in nothing, a call that returns an error has left        *)
(* nothing behind, no account and no first entry of two.                   *)
ErrorsLeaveNothing ==
  [][ \A c \in Clients : reply[c] # "error" /\ reply'[c] = "error" =>
        leg[c] = 1 /\ UNCHANGED tables ]_vars

=============================================================================
