---------------------------- MODULE LedgerProofs ----------------------------
(* Theorems of Ledger, for every value of its constants. *)
EXTENDS Ledger, Sums, TLAPS

(* An empty sum is 0. *)
LEMMA NoEntriesNoTotal ==
  ASSUME journal = <<>>, NEW txn, NEW type
  PROVE  Total(txn, type) = 0
<1> DEFINE S == {i \in EntriesOf(txn) : journal[i].type = type}
<1>1. S = {}
  BY DEF EntriesOf
<1> DEFINE weight(i) == journal[i].amount
           Fold(f) == [s \in SUBSET {} |->
                         IF s = {} THEN 0 ELSE weight(Pick(s)) + f[s \ {Pick(s)}]]
           iter == CHOOSE f : f = Fold(f)
<1>2. \E f : f = Fold(f)
  <2> DEFINE g == [s \in SUBSET {} |-> 0]
  <2>1. g = Fold(g)
    OBVIOUS
  <2> QED
    BY <2>1
<1>3. iter = Fold(iter)
  BY <1>2
<1>4. iter[{}] = 0
  BY <1>3
<1>5. Total(txn, type) = iter[{}]
  BY <1>1 DEF Total, MapThenSumSet, MapThenFoldSet, Pick
<1> QED
  BY <1>4, <1>5

-----------------------------------------------------------------------------
(* Type correctness.                                                       *)

(* The effect of an entry on its account is an integer.                    *)
LEMMA ChangeIsInteger ==
  ASSUME NEW e \in Entry
  PROVE  Change(e) \in Int
<1>1. e.amount \in Int
  BY LedgerAssumption DEF Entry
<1>2. -e.amount \in Int
  BY <1>1
<1> QED
  BY <1>1, <1>2 DEF Change

(* An accepted insertion appends one row to each table it touches.         *)
LEMMA InsertType ==
  ASSUME TypeOK, NEW e \in Entry, Accepted(e), Insert(e)
  PROVE  /\ balances' \in [DOMAIN accounts' -> Int]
         /\ journal' \in Seq(Entry)
         /\ \A i \in DOMAIN journal' : journal'[i].account \in DOMAIN accounts'
         /\ snapshots' \in Seq(Snapshot)
         /\ accounts' = accounts
<1>1. e.account \in DOMAIN accounts
  BY DEF Accepted
<1>2. Change(e) \in Int
  BY ChangeIsInteger
<1>3. e.account \in Ids /\ balances[e.account] \in Int
  BY <1>1 DEF TypeOK
<1>4. accounts' = accounts
  BY DEF Insert
<1>5. balances' \in [DOMAIN accounts' -> Int]
  BY <1>1, <1>2, <1>3, <1>4 DEF Insert, TypeOK
<1>6. journal' \in Seq(Entry)
  BY DEF Insert, TypeOK
<1>7. \A i \in DOMAIN journal' : journal'[i].account \in DOMAIN accounts'
  BY <1>1, <1>4 DEF Insert, TypeOK
<1>8. snapshots' \in Seq(Snapshot)
  <2>1. [account |-> e.account, before |-> balances[e.account],
         change |-> Change(e), after |-> balances[e.account] + Change(e)] \in Snapshot
    BY <1>2, <1>3 DEF Snapshot
  <2> QED
    BY <2>1 DEF Insert, TypeOK
<1> QED
  BY <1>4, <1>5, <1>6, <1>7, <1>8

(* Ending a call keeps the types of the client's variables.                *)
LEMMA ReturnType ==
  ASSUME TypeOK, NEW c \in Clients, NEW answer \in {"ok", "error"},
         NEW entries \in Seq(Entry), Return(c, answer, entries)
  PROVE  /\ pc' \in [Clients -> {"idle", "from", "to", "funds", "post"}]
         /\ legs' \in [Clients -> Seq(Entry)]
         /\ leg' \in [Clients -> Nat \ {0}]
         /\ \A d \in Clients : pc'[d] # "idle" => leg'[d] \in DOMAIN legs'[d]
         /\ attempt' \in [Clients -> 0..MaxRetries - 1]
         /\ reply' \in [Clients -> {"none", "ok", "error"}]
BY DEF Return, TypeOK, MaxRetries

(* So does failing it.                                                     *)
LEMMA FailType ==
  ASSUME TypeOK, NEW c \in Clients, Fail(c), UNCHANGED tables
  PROVE  TypeOK'
<1>1. Return(c, "error", <<>>) /\ <<>> \in Seq(Entry)
  BY DEF Fail
<1>2. UNCHANGED <<accounts, balances, journal, snapshots>>
  BY DEF tables
<1> QED
  BY <1>1, <1>2, ReturnType DEF TypeOK

(* Starting a call with one or two entries keeps all types.                *)
LEMMA StartType ==
  ASSUME TypeOK, NEW c \in Clients, NEW step \in {"from", "post"},
         NEW entries \in Seq(Entry), 1 \in DOMAIN entries, leg[c] = 1,
         Start(c, step, entries)
  PROVE  TypeOK'
BY DEF Start, TypeOK, tables

(* An idle client is at its first entry.                                   *)
IdleAtFirst == \A c \in Clients : pc[c] = "idle" => leg[c] = 1

LEMMA TypeStep ==
  ASSUME TypeOK, IdleAtFirst, [Next]_vars
  PROVE  TypeOK' /\ IdleAtFirst'
<1> USE LedgerAssumption
<1>1. ASSUME NEW c \in Clients, RefuseRequest(c)
      PROVE  TypeOK' /\ IdleAtFirst'
  <2>1. TypeOK'
    BY <1>1, FailType DEF RefuseRequest
  <2>2. IdleAtFirst'
    BY <1>1 DEF RefuseRequest, Fail, Return, IdleAtFirst, TypeOK
  <2> QED
    BY <2>1, <2>2
<1>2. ASSUME NEW c \in Clients, NEW id \in Ids, NEW n \in Names, NEW t \in Types,
             NEW cur \in Currencies, CreateAccount(c, id, n, t, cur)
      PROVE  TypeOK' /\ IdleAtFirst'
  <2>1. PICK answer \in {"ok", "error"} : Return(c, answer, <<>>)
    BY <1>2 DEF CreateAccount, Fail
  <2>2. <<>> \in Seq(Entry)
    OBVIOUS
  <2>3. /\ DOMAIN accounts' = DOMAIN accounts \cup {id}
        /\ accounts' \in [DOMAIN accounts' -> Account]
    BY <1>2 DEF CreateAccount, TypeOK, Account
  <2>4. balances' \in [DOMAIN accounts' -> Int]
    BY <1>2, <2>3 DEF CreateAccount, TypeOK
  <2>5. /\ journal' = journal
        /\ snapshots' = snapshots
    BY <1>2 DEF CreateAccount
  <2>6. TypeOK'
    BY <2>1, <2>2, <2>3, <2>4, <2>5, ReturnType DEF TypeOK
  <2>7. IdleAtFirst'
    BY <2>1 DEF Return, IdleAtFirst, TypeOK
  <2> QED
    BY <2>6, <2>7
<1>3. ASSUME NEW c \in Clients, NEW type \in {"debit", "credit"}, NEW name \in Names,
             NEW amount \in Amounts, NEW txn \in Txns, NEW stamp \in Stamps,
             StartPost(c, type, name, amount, txn, stamp)
      PROVE  TypeOK' /\ IdleAtFirst'
  <2> DEFINE entry == [number |-> <<PrefixOf[txn], stamp>>, txn |-> txn,
                       type |-> type, account |-> name, amount |-> amount]
  <2>1. entry \in Entry
    BY DEF Entry, EntryNumbers
  <2>2. <<entry>> \in Seq(Entry) /\ 1 \in DOMAIN <<entry>>
    BY <2>1
  <2>3. Start(c, "post", <<entry>>) /\ leg[c] = 1
    BY <1>3 DEF StartPost, Start, IdleAtFirst
  <2>4. TypeOK'
    BY <2>2, <2>3, StartType
  <2> QED
    BY <2>3, <2>4 DEF Start, IdleAtFirst, TypeOK
<1>4. ASSUME NEW c \in Clients, NEW from \in Names, NEW to \in Names,
             NEW amount \in Amounts, NEW txn \in Txns,
             StartTransfer(c, from, to, amount, txn)
      PROVE  TypeOK' /\ IdleAtFirst'
  <2> DEFINE debit == [number |-> <<PrefixOf[txn], "debit">>, txn |-> txn,
                       type |-> "debit", account |-> from, amount |-> amount]
             credit == [number |-> <<PrefixOf[txn], "credit">>, txn |-> txn,
                        type |-> "credit", account |-> to, amount |-> amount]
  <2>1. debit \in Entry /\ credit \in Entry
    BY DEF Entry, EntryNumbers
  <2>2. <<debit, credit>> \in Seq(Entry) /\ 1 \in DOMAIN <<debit, credit>>
    BY <2>1
  <2>3. Start(c, "from", <<debit, credit>>) /\ leg[c] = 1
    BY <1>4 DEF StartTransfer, Start, IdleAtFirst
  <2>4. TypeOK'
    BY <2>2, <2>3, StartType
  <2> QED
    BY <2>3, <2>4 DEF Start, IdleAtFirst, TypeOK
<1>5. ASSUME NEW c \in Clients, GetFromAccount(c) \/ GetToAccount(c) \/ CheckFunds(c)
      PROVE  TypeOK' /\ IdleAtFirst'
  <2>1. PICK step \in {"to", "funds", "post"} : Proceed(c, step) /\ pc[c] # "idle"
    BY <1>5 DEF GetFromAccount, GetToAccount, CheckFunds
  <2> QED
    BY <2>1 DEF Proceed, TypeOK, IdleAtFirst, tables
<1>6. ASSUME NEW c \in Clients, RefuseTransfer(c) \/ RejectEntry(c) \/ DatabaseUnavailable(c)
      PROVE  TypeOK' /\ IdleAtFirst'
  <2>1. Fail(c) /\ UNCHANGED tables
    BY <1>6 DEF RefuseTransfer, RejectEntry, DatabaseUnavailable
  <2>2. IdleAtFirst'
    BY <2>1 DEF Fail, Return, IdleAtFirst, TypeOK
  <2> QED
    BY <2>1, <2>2, FailType
<1>7. ASSUME NEW c \in Clients, PostEntry(c) \/ PostReplyLost(c)
      PROVE  TypeOK' /\ IdleAtFirst'
  <2>1. Posting(c) \in Entry /\ Accepted(Posting(c)) /\ Insert(Posting(c))
    BY <1>7 DEF PostEntry, PostReplyLost, Posting, TypeOK
  <2>2. /\ balances' \in [DOMAIN accounts' -> Int]
        /\ journal' \in Seq(Entry)
        /\ \A i \in DOMAIN journal' : journal'[i].account \in DOMAIN accounts'
        /\ snapshots' \in Seq(Snapshot)
        /\ accounts' = accounts
    BY <2>1, InsertType
  <2>3. CASE \E answer \in {"ok", "error"}, entries \in Seq(Entry) :
                Return(c, answer, entries)
    <3>1. PICK answer \in {"ok", "error"}, entries \in Seq(Entry) :
                Return(c, answer, entries)
      BY <2>3
    <3>2. TypeOK'
      BY <2>2, <3>1, ReturnType DEF TypeOK
    <3> QED
      BY <3>1, <3>2 DEF Return, IdleAtFirst, TypeOK
  <2>4. CASE /\ pc[c] = "post"
             /\ leg[c] # Len(legs[c])
             /\ leg' = [leg EXCEPT ![c] = @ + 1]
             /\ attempt' = [attempt EXCEPT ![c] = 0]
             /\ UNCHANGED <<pc, legs, reply>>
    <3>1. leg[c] + 1 \in DOMAIN legs[c]
      <4>1. legs[c] \in Seq(Entry) /\ leg[c] \in DOMAIN legs[c]
        BY <2>4 DEF TypeOK
      <4>2. DOMAIN legs[c] = 1..Len(legs[c]) /\ Len(legs[c]) \in Nat
        BY <4>1
      <4> QED
        BY <2>4, <4>1, <4>2
    <3>2. TypeOK'
      BY <2>2, <2>4, <3>1 DEF TypeOK, MaxRetries
    <3> QED
      BY <2>4, <3>2 DEF IdleAtFirst, TypeOK
  <2>5. legs[c] \in Seq(Entry) /\ <<>> \in Seq(Entry)
    BY DEF TypeOK
  <2>6. CASE PostEntry(c)
    BY <2>3, <2>4, <2>5, <2>6 DEF PostEntry
  <2>7. CASE PostReplyLost(c)
    BY <2>3, <2>5, <2>7 DEF PostReplyLost, Fail
  <2> QED
    BY <1>7, <2>6, <2>7
<1>8. ASSUME NEW c \in Clients, SerializationFailure(c)
      PROVE  TypeOK' /\ IdleAtFirst'
  <2>1. CASE attempt[c] = MaxRetries - 1
    <3>1. Fail(c) /\ UNCHANGED tables
      BY <1>8, <2>1 DEF SerializationFailure
    <3>2. IdleAtFirst'
      BY <3>1 DEF Fail, Return, IdleAtFirst, TypeOK
    <3> QED
      BY <3>1, <3>2, FailType
  <2>2. CASE attempt[c] # MaxRetries - 1
    <3>1. /\ attempt' = [attempt EXCEPT ![c] = @ + 1]
          /\ UNCHANGED <<pc, legs, leg, reply, accounts, balances, journal, snapshots>>
      BY <1>8, <2>2 DEF SerializationFailure, tables
    <3>2. attempt[c] + 1 \in 0..MaxRetries - 1
      <4>1. attempt[c] \in 0..MaxRetries - 1
        BY DEF TypeOK
      <4> QED
        BY <2>2, <4>1 DEF MaxRetries
    <3> QED
      BY <3>1, <3>2 DEF TypeOK, IdleAtFirst
  <2> QED
    BY <2>1, <2>2
<1>9. CASE UNCHANGED vars
  BY <1>9 DEF vars, tables, calls, TypeOK, IdleAtFirst
<1> QED
  BY <1>1, <1>2, <1>3, <1>4, <1>5, <1>6, <1>7, <1>8, <1>9 DEF Next, Step

(* Every reachable state has the types of TypeOK.                          *)
THEOREM TypeCorrect == Spec => []TypeOK
<1>1. Init => TypeOK /\ IdleAtFirst
  BY LedgerAssumption DEF Init, TypeOK, IdleAtFirst, MaxRetries
<1>2. TypeOK /\ IdleAtFirst /\ [Next]_vars => (TypeOK /\ IdleAtFirst)'
  BY TypeStep
<1> QED
  BY <1>1, <1>2, PTL DEF Spec

-----------------------------------------------------------------------------
(* What a step does to the tables.                                         *)

(* A step leaves the tables alone, opens one account with a zero balance,  *)
(* or inserts one entry that the schema accepts.                           *)
Opens(id) ==
  /\ id \notin DOMAIN accounts
  /\ DOMAIN accounts' = DOMAIN accounts \cup {id}
  /\ \A a \in DOMAIN accounts : accounts'[a] = accounts[a]
  /\ DOMAIN balances' = DOMAIN balances \cup {id}
  /\ \A a \in DOMAIN balances : balances'[a] = balances[a]
  /\ balances'[id] = 0
  /\ UNCHANGED <<journal, snapshots>>

Inserts(e) == e \in Entry /\ Accepted(e) /\ Insert(e)

LEMMA StepKinds ==
  ASSUME TypeOK, NEW c \in Clients, Step(c)
  PROVE  \/ UNCHANGED tables
         \/ \E id \in Ids, n \in Names, t \in Types, cur \in Currencies :
               CreateAccount(c, id, n, t, cur)
         \/ pc[c] = "post" /\ Inserts(Posting(c))
<1>1. ASSUME PostEntry(c) \/ PostReplyLost(c)
      PROVE  pc[c] = "post" /\ Inserts(Posting(c))
  BY <1>1 DEF PostEntry, PostReplyLost, Posting, Inserts, TypeOK
<1>2. ASSUME \/ RefuseRequest(c)
             \/ \E type \in {"debit", "credit"}, name \in Names, amount \in Amounts,
                   txn \in Txns, stamp \in Stamps : StartPost(c, type, name, amount, txn, stamp)
             \/ \E from, to \in Names, amount \in Amounts, txn \in Txns :
                   StartTransfer(c, from, to, amount, txn)
             \/ GetFromAccount(c) \/ GetToAccount(c) \/ CheckFunds(c)
             \/ RefuseTransfer(c) \/ RejectEntry(c)
             \/ SerializationFailure(c) \/ DatabaseUnavailable(c)
      PROVE  UNCHANGED tables
  BY <1>2 DEF RefuseRequest, StartPost, StartTransfer, Start, GetFromAccount, GetToAccount,
              CheckFunds, Proceed, RefuseTransfer, RejectEntry, SerializationFailure,
              DatabaseUnavailable, tables
<1> QED
  BY <1>1, <1>2 DEF Step

LEMMA StepTables ==
  ASSUME TypeOK, NEW c \in Clients, Step(c)
  PROVE  \/ UNCHANGED tables
         \/ \E id \in Ids : Opens(id)
         \/ pc[c] = "post" /\ Inserts(Posting(c))
<1>1. ASSUME NEW id \in Ids, NEW n \in Names, NEW t \in Types,
             NEW cur \in Currencies, CreateAccount(c, id, n, t, cur)
      PROVE  Opens(id)
  <2>1. DOMAIN balances = DOMAIN accounts
    BY DEF TypeOK
  <2> QED
    BY <1>1, <2>1 DEF CreateAccount, Opens
<1> QED
  BY <1>1, StepKinds

LEMMA TablesStep ==
  ASSUME TypeOK, [Next]_vars
  PROVE  \/ UNCHANGED tables
         \/ \E id \in Ids : Opens(id)
         \/ \E c \in Clients : pc[c] = "post" /\ Inserts(Posting(c))
<1>1. CASE UNCHANGED vars
  BY <1>1 DEF vars
<1> QED
  BY <1>1, StepTables DEF Next

-----------------------------------------------------------------------------
(* The migrations as written.                                              *)

(* On an empty journal the constraint triggers reject any single entry.    *)
LEMMA FirstEntryRaises ==
  ASSUME Schema \cap {"validate_double_entry", "validate_transaction_entries"} # {},
         journal = <<>>, NEW e \in Entry
  PROVE  ~Accepted(e)
<1>1. CASE "validate_transaction_entries" \in Schema
  BY <1>1 DEF Accepted, TransactionEntriesRaises, EntriesOf
<1>2. CASE "validate_double_entry" \in Schema
  <2>1. Total(e.txn, "debit") = 0 /\ Total(e.txn, "credit") = 0
    BY NoEntriesNoTotal
  <2>2. e.amount \in Int /\ e.type \in {"debit", "credit"}
    BY LedgerAssumption DEF Entry
  <2>3. e.amount > 0 => TotalWith(e, "debit") # TotalWith(e, "credit")
    BY <2>1, <2>2 DEF TotalWith
  <2> QED
    BY <1>2, <2>3 DEF Accepted, DoubleEntryRaises
<1> QED
  BY <1>1, <1>2

(* With either constraint trigger in the schema no entry is ever posted.   *)
THEOREM NothingPosted == Spec => []NothingIsPosted
<1>1. Init => NothingIsPosted
  BY DEF Init, NothingIsPosted
<1>2. TypeOK /\ NothingIsPosted /\ [Next]_vars => NothingIsPosted'
  <2> SUFFICES ASSUME TypeOK, NothingIsPosted, [Next]_vars,
                      Schema \cap {"validate_double_entry", "validate_transaction_entries"} # {}
               PROVE  journal' = <<>>
    BY DEF NothingIsPosted
  <2>1. journal = <<>>
    BY DEF NothingIsPosted
  <2>2. ASSUME NEW c \in Clients PROVE ~Inserts(Posting(c))
    BY <2>1, FirstEntryRaises DEF Inserts
  <2> QED
    BY <2>1, <2>2, TablesStep DEF Opens, tables
<1> QED
  BY <1>1, <1>2, TypeCorrect, PTL DEF Spec

-----------------------------------------------------------------------------
(* Balances.                                                               *)

(* No account that must not be overdrawn ever is.                          *)
THEOREM NeverOverdrawn == Spec => []NoOverdraft
<1>1. Init => NoOverdraft
  BY DEF Init, NoOverdraft
<1>2. TypeOK /\ NoOverdraft /\ [Next]_vars => NoOverdraft'
  <2> SUFFICES ASSUME TypeOK, NoOverdraft, [Next]_vars, NEW a \in DOMAIN balances',
                      "account_balances_chk" \in Schema \/ accounts'[a].type # "expense"
               PROVE  balances'[a] >= 0
    BY DEF NoOverdraft
  <2>1. DOMAIN balances = DOMAIN accounts
    BY DEF TypeOK
  <2>2. CASE UNCHANGED tables
    BY <2>2 DEF tables, NoOverdraft
  <2>3. CASE \E id \in Ids : Opens(id)
    BY <2>1, <2>3 DEF Opens, NoOverdraft
  <2>4. ASSUME NEW e, Inserts(e)
        PROVE  balances'[a] >= 0
    <3>1. accounts' = accounts /\ a \in DOMAIN balances
      BY <2>4 DEF Inserts, Insert
    <3>2. CASE a = e.account /\ "update_account_balance" \in Schema
      <4>1. ~BalanceRaises(e) /\ Change(e) \in Int /\ balances[a] \in Int
        BY <2>1, <2>4, <3>1, ChangeIsInteger DEF Inserts, Accepted, TypeOK
      <4>2. balances'[a] = balances[a] + Change(e)
        BY <2>4, <3>1, <3>2 DEF Inserts, Insert
      <4> QED
        BY <3>1, <3>2, <4>1, <4>2 DEF BalanceRaises
    <3>3. CASE ~(a = e.account /\ "update_account_balance" \in Schema)
      <4>1. balances'[a] = balances[a]
        BY <2>4, <3>1, <3>3 DEF Inserts, Insert
      <4> QED
        BY <3>1, <4>1 DEF NoOverdraft
    <3> QED
      BY <3>2, <3>3
  <2> QED
    BY <2>2, <2>3, <2>4, TablesStep
<1> QED
  BY <1>1, <1>2, TypeCorrect, PTL DEF Spec

(* Under the CHECK of migration 010 no step lowers a balance: no money     *)
(* ever leaves an account, even one that holds more than the amount.       *)
THEOREM BalancesOnlyRise ==
  Spec => [][ "account_balances_chk" \in Schema
                => \A a \in DOMAIN balances : balances'[a] >= balances[a] ]_vars
<1> DEFINE Rise == "account_balances_chk" \in Schema
                     => \A a \in DOMAIN balances : balances'[a] >= balances[a]
<1>1. TypeOK /\ [Next]_vars => Rise
  <2> SUFFICES ASSUME TypeOK, [Next]_vars, "account_balances_chk" \in Schema,
                      NEW a \in DOMAIN balances
               PROVE  balances'[a] >= balances[a]
    OBVIOUS
  <2>1. DOMAIN balances = DOMAIN accounts /\ balances[a] \in Int
    BY DEF TypeOK
  <2>2. CASE UNCHANGED tables
    BY <2>1, <2>2 DEF tables
  <2>3. CASE \E id \in Ids : Opens(id)
    BY <2>1, <2>3 DEF Opens
  <2>4. ASSUME NEW e, Inserts(e)
        PROVE  balances'[a] >= balances[a]
    <3>1. ~BalanceRaises(e) /\ Change(e) \in Int
      BY <2>4, ChangeIsInteger DEF Inserts, Accepted
    <3>2. CASE a = e.account /\ "update_account_balance" \in Schema
      <4>1. balances'[a] = balances[a] + Change(e)
        BY <2>4, <3>2 DEF Inserts, Insert
      <4> QED
        BY <2>1, <3>1, <3>2, <4>1 DEF BalanceRaises
    <3>3. CASE ~(a = e.account /\ "update_account_balance" \in Schema)
      <4>1. balances'[a] = balances[a]
        BY <2>4, <3>3 DEF Inserts, Insert
      <4> QED
        BY <2>1, <4>1
    <3> QED
      BY <3>2, <3>3
  <2> QED
    BY <2>2, <2>3, <2>4, TablesStep
<1> QED
  BY <1>1, TypeCorrect, PTL DEF Spec

-----------------------------------------------------------------------------
(* The entries of a call.  A credit entry of a transfer comes after its    *)
(* debit in legs; the entries before leg, and all of them once the call    *)
(* returned ok, are in the journal.                                        *)

Matches(debit, credit) ==
  IsLeg(debit, "debit") /\ debit.txn = credit.txn /\ debit.amount = credit.amount

Paired(entries) ==
  \A k \in DOMAIN entries : IsLeg(entries[k], "credit") =>
    \E h \in 1..k - 1 : Matches(entries[h], entries[k])

LegsPaired == \A c \in Clients : Paired(legs[c])

Posted(e) == \E i \in DOMAIN journal : journal[i] = e

EarlierLegsPosted ==
  \A c \in Clients : \A k \in DOMAIN legs[c] :
    k < leg[c] \/ reply[c] = "ok" => Posted(legs[c][k])

CallInv == TypeOK /\ IdleAtFirst /\ LegsPaired /\ EarlierLegsPosted /\ CreditFollowsDebit

(* What is in the journal stays there, where it is.                        *)
LEMMA JournalGrows ==
  ASSUME TypeOK, [Next]_vars
  PROVE  /\ DOMAIN journal \subseteq DOMAIN journal'
         /\ \A i \in DOMAIN journal : journal'[i] = journal[i]
<1>1. CASE journal' = journal
  BY <1>1
<1>2. ASSUME NEW e \in Entry, journal' = Append(journal, e)
      PROVE  /\ DOMAIN journal \subseteq DOMAIN journal'
             /\ \A i \in DOMAIN journal : journal'[i] = journal[i]
  BY <1>2 DEF TypeOK
<1> QED
  BY <1>1, <1>2, TablesStep DEF tables, Opens, Inserts, Insert

(* What a step does to a client's entries: nothing, it starts a call, it   *)
(* ends one without success, it posts one entry and goes on to the next,   *)
(* or it posts the last one.                                               *)
LEMMA CallStep ==
  ASSUME TypeOK, IdleAtFirst, [Next]_vars, NEW c \in Clients
  PROVE  \/ UNCHANGED <<legs[c], leg[c], reply[c]>>
         \/ legs'[c] = <<>>
         \/ leg'[c] = 1 /\ reply'[c] # "ok" /\ Paired(legs'[c])
         \/ Inserts(Posting(c)) /\ legs'[c] = legs[c]
              /\ leg'[c] = leg[c] + 1 /\ reply'[c] = reply[c]
         \/ Inserts(Posting(c)) /\ leg[c] = Len(legs[c]) /\ legs'[c] = legs[c]
              /\ leg'[c] = 1 /\ reply'[c] = "ok"
<1> DEFINE Goal == \/ UNCHANGED <<legs[c], leg[c], reply[c]>>
                   \/ legs'[c] = <<>>
                   \/ leg'[c] = 1 /\ reply'[c] # "ok" /\ Paired(legs'[c])
                   \/ Inserts(Posting(c)) /\ legs'[c] = legs[c]
                        /\ leg'[c] = leg[c] + 1 /\ reply'[c] = reply[c]
                   \/ Inserts(Posting(c)) /\ leg[c] = Len(legs[c]) /\ legs'[c] = legs[c]
                        /\ leg'[c] = 1 /\ reply'[c] = "ok"
<1>1. CASE UNCHANGED vars
  BY <1>1 DEF vars, calls
<1>2. ASSUME NEW d \in Clients, Fail(d)
      PROVE  Goal
  BY <1>2 DEF Fail, Return, TypeOK
<1>3. ASSUME NEW d \in Clients, NEW id \in Ids, NEW n \in Names, NEW t \in Types,
             NEW cur \in Currencies, CreateAccount(d, id, n, t, cur)
      PROVE  Goal
  BY <1>3, <1>2 DEF CreateAccount, Return, TypeOK
<1>4. ASSUME NEW d \in Clients, NEW type \in {"debit", "credit"}, NEW name \in Names,
             NEW amount \in Amounts, NEW txn \in Txns, NEW stamp \in Stamps,
             StartPost(d, type, name, amount, txn, stamp)
      PROVE  Goal
  <2> DEFINE entry == [number |-> <<PrefixOf[txn], stamp>>, txn |-> txn,
                       type |-> type, account |-> name, amount |-> amount]
  <2>1. Start(d, "post", <<entry>>) /\ leg[d] = 1
    BY <1>4 DEF StartPost, Start, IdleAtFirst
  <2>2. ~IsLeg(entry, "credit")
    BY LedgerAssumption DEF IsLeg
  <2>3. Paired(<<entry>>)
    BY <2>2 DEF Paired
  <2> QED
    BY <2>1, <2>3 DEF Start, TypeOK
<1>5. ASSUME NEW d \in Clients, NEW from \in Names, NEW to \in Names,
             NEW amount \in Amounts, NEW txn \in Txns,
             StartTransfer(d, from, to, amount, txn)
      PROVE  Goal
  <2> DEFINE debit == [number |-> <<PrefixOf[txn], "debit">>, txn |-> txn,
                       type |-> "debit", account |-> from, amount |-> amount]
             credit == [number |-> <<PrefixOf[txn], "credit">>, txn |-> txn,
                        type |-> "credit", account |-> to, amount |-> amount]
  <2>1. Start(d, "from", <<debit, credit>>) /\ leg[d] = 1
    BY <1>5 DEF StartTransfer, Start, IdleAtFirst
  <2>2. ~IsLeg(debit, "credit") /\ Matches(debit, credit)
    BY DEF IsLeg, Matches
  <2>3. Paired(<<debit, credit>>)
    <3> SUFFICES ASSUME NEW k \in {1, 2}, IsLeg(<<debit, credit>>[k], "credit")
                 PROVE  \E h \in 1..k - 1 : Matches(<<debit, credit>>[h], <<debit, credit>>[k])
      BY DEF Paired
    <3>1. k = 2
      BY <2>2
    <3>2. 1 \in 1..k - 1
      BY <3>1
    <3> HIDE DEF debit, credit
    <3> QED
      BY <2>2, <3>1, <3>2
  <2> HIDE DEF debit, credit
  <2> QED
    BY <2>1, <2>3 DEF Start, TypeOK
<1>6. ASSUME NEW d \in Clients, GetFromAccount(d) \/ GetToAccount(d) \/ CheckFunds(d)
      PROVE  Goal
  BY <1>6 DEF GetFromAccount, GetToAccount, CheckFunds, Proceed
<1>7. ASSUME NEW d \in Clients, PostEntry(d)
      PROVE  Goal
  <2>1. Inserts(Posting(d))
    BY <1>7 DEF PostEntry, Posting, Inserts, TypeOK
  <2>2. CASE leg[d] = Len(legs[d])
    <3>1. Return(d, "ok", legs[d])
      BY <1>7, <2>2 DEF PostEntry
    <3> QED
      BY <2>1, <2>2, <3>1 DEF Return, TypeOK
  <2>3. CASE leg[d] # Len(legs[d])
    <3>1. leg' = [leg EXCEPT ![d] = @ + 1] /\ UNCHANGED <<pc, legs, reply>>
      BY <1>7, <2>3 DEF PostEntry
    <3> QED
      BY <2>1, <3>1 DEF TypeOK
  <2> QED
    BY <2>2, <2>3
<1>8. ASSUME NEW d \in Clients, SerializationFailure(d)
      PROVE  Goal
  BY <1>2, <1>8 DEF SerializationFailure
<1> QED
  BY <1>1, <1>2, <1>3, <1>4, <1>5, <1>6, <1>7, <1>8
     DEF Next, Step, RefuseRequest, RefuseTransfer, RejectEntry, PostReplyLost,
         DatabaseUnavailable

(* The entry just inserted is the last one of the journal.                 *)
LEMMA InsertedLast ==
  ASSUME TypeOK, NEW e, Inserts(e)
  PROVE  /\ Len(journal') = Len(journal) + 1
         /\ DOMAIN journal' = 1..Len(journal) + 1
         /\ journal'[Len(journal) + 1] = e
BY DEF TypeOK, Inserts, Insert

LEMMA CallInvStep ==
  ASSUME CallInv, [Next]_vars
  PROVE  CallInv'
<1> USE DEF CallInv
<1>1. TypeOK' /\ IdleAtFirst'
  BY TypeStep
<1>2. ASSUME NEW c \in Clients, legs'[c] = legs[c]
      PROVE  Paired(legs'[c])
  BY <1>2 DEF LegsPaired
<1>3. LegsPaired'
  <2> SUFFICES ASSUME NEW c \in Clients PROVE Paired(legs'[c])
    BY DEF LegsPaired, Paired, Matches, IsLeg
  <2>1. CASE legs'[c] = <<>>
    BY <2>1 DEF Paired
  <2> QED
    BY <1>2, <2>1, CallStep
<1>4. EarlierLegsPosted'
  <2> SUFFICES ASSUME NEW c \in Clients, NEW k \in DOMAIN legs'[c],
                      k < leg'[c] \/ reply'[c] = "ok"
               PROVE  \E i \in DOMAIN journal' : journal'[i] = legs'[c][k]
    BY DEF EarlierLegsPosted, Posted
  <2>1. legs'[c] \in Seq(Entry) /\ legs[c] \in Seq(Entry) /\ leg[c] \in Nat \ {0}
    BY <1>1 DEF TypeOK
  <2>2. k \in Nat \ {0}
    BY <2>1
  <2>3. ASSUME legs'[c] = legs[c], k < leg[c] \/ reply[c] = "ok"
        PROVE  \E i \in DOMAIN journal' : journal'[i] = legs'[c][k]
    BY <2>3, JournalGrows DEF EarlierLegsPosted, Posted
  <2>4. ASSUME Inserts(Posting(c)), legs'[c] = legs[c], k = leg[c]
        PROVE  \E i \in DOMAIN journal' : journal'[i] = legs'[c][k]
    <3>1. journal'[Len(journal) + 1] = legs[c][k] /\ Len(journal) + 1 \in DOMAIN journal'
      BY <2>4, InsertedLast DEF Posting, TypeOK
    <3> QED
      BY <2>4, <3>1
  <2>5. CASE Inserts(Posting(c)) /\ legs'[c] = legs[c]
              /\ leg'[c] = leg[c] + 1 /\ reply'[c] = reply[c]
    BY <2>1, <2>2, <2>3, <2>4, <2>5
  <2>6. CASE Inserts(Posting(c)) /\ leg[c] = Len(legs[c]) /\ legs'[c] = legs[c]
              /\ leg'[c] = 1 /\ reply'[c] = "ok"
    <3>1. k <= leg[c]
      BY <2>1, <2>6
    <3> QED
      BY <2>1, <2>2, <2>3, <2>4, <2>6, <3>1
  <2>7. CASE legs'[c] = <<>>
    BY <2>7
  <2>8. CASE leg'[c] = 1 /\ reply'[c] # "ok"
    BY <2>2, <2>8
  <2> QED
    BY <2>3, <2>5, <2>6, <2>7, <2>8, CallStep
<1>5. CreditFollowsDebit'
  <2> SUFFICES ASSUME NEW j \in DOMAIN journal', IsLeg(journal'[j], "credit")
               PROVE  \E i \in 1..j - 1 : Matches(journal'[i], journal'[j])
    BY DEF CreditFollowsDebit, Matches, IsLeg
  <2>1. CASE j \in DOMAIN journal
    <3>1. journal'[j] = journal[j]
      BY <2>1, JournalGrows
    <3>2. PICK i \in 1..j - 1 : Matches(journal[i], journal[j])
      BY <2>1, <3>1 DEF CreditFollowsDebit, Matches
    <3>3. i \in DOMAIN journal
      BY <2>1, <3>2 DEF TypeOK
    <3>4. journal'[i] = journal[i]
      BY <3>3, JournalGrows
    <3> QED
      BY <3>1, <3>2, <3>4
  <2>2. CASE j \notin DOMAIN journal
    <3>1. PICK c \in Clients : pc[c] = "post" /\ Inserts(Posting(c))
      BY <2>2, TablesStep DEF tables, Opens
    <3>2. j = Len(journal) + 1 /\ journal'[j] = Posting(c)
      BY <2>2, <3>1, InsertedLast DEF TypeOK
    <3>3. leg[c] \in DOMAIN legs[c] /\ legs[c] \in Seq(Entry)
      BY <3>1 DEF TypeOK
    <3>4. PICK h \in 1..leg[c] - 1 : Matches(legs[c][h], Posting(c))
      BY <3>2, <3>3 DEF LegsPaired, Paired, Posting
    <3>5. h \in DOMAIN legs[c] /\ h < leg[c]
      BY <3>3, <3>4
    <3>6. PICK i \in DOMAIN journal : journal[i] = legs[c][h]
      BY <3>5 DEF EarlierLegsPosted, Posted
    <3>7. journal'[i] = journal[i] /\ i \in 1..j - 1
      BY <3>2, <3>6, JournalGrows DEF TypeOK
    <3> QED
      BY <3>2, <3>4, <3>6, <3>7
  <2> QED
    BY <2>1, <2>2
<1> QED
  BY <1>1, <1>3, <1>4, <1>5

LEMMA CallInvAlways == Spec => []CallInv
<1>1. Init => CallInv
  BY LedgerAssumption DEF Init, CallInv, TypeOK, IdleAtFirst, MaxRetries, LegsPaired, Paired,
     EarlierLegsPosted, CreditFollowsDebit
<1>2. CallInv /\ [Next]_vars => CallInv'
  BY CallInvStep
<1> QED
  BY <1>1, <1>2, PTL DEF Spec

(* A call that returned ok has all its entries in the journal.             *)
THEOREM OkPosted == Spec => []OkMeansPosted
<1>1. CallInv => OkMeansPosted
  BY DEF CallInv, EarlierLegsPosted, Posted, OkMeansPosted
<1> QED
  BY <1>1, CallInvAlways, PTL

(* No transfer's credit is in the journal without its debit before it.     *)
THEOREM CreditsFollowDebits == Spec => []CreditFollowsDebit
<1>1. CallInv => CreditFollowsDebit
  BY DEF CallInv
<1> QED
  BY <1>1, CallInvAlways, PTL

-----------------------------------------------------------------------------
(* Snapshots.                                                              *)

SnapshotInv ==
  /\ SnapshotsChain
  /\ \A i \in DOMAIN snapshots : snapshots[i].account \in DOMAIN accounts

(* An insertion adds the last snapshot of its account and moves the        *)
(* balance from what it starts with to what it ends with.                  *)
LEMMA SnapshotAdded ==
  ASSUME TypeOK, {"update_account_balance", "create_balance_snapshot"} \subseteq Schema,
         NEW e, Inserts(e)
  PROVE  LET n == Len(snapshots) + 1 IN
         /\ e.account \in DOMAIN accounts
         /\ DOMAIN balances' = DOMAIN balances
         /\ n \in Nat /\ \A i \in DOMAIN snapshots : i \in Nat /\ i < n
         /\ DOMAIN snapshots' = DOMAIN snapshots \cup {n}
         /\ \A i \in DOMAIN snapshots : snapshots'[i] = snapshots[i]
         /\ snapshots'[n].account = e.account
         /\ snapshots'[n].before = balances[e.account]
         /\ snapshots'[n].after = balances'[e.account]
         /\ \A a \in DOMAIN balances : a # e.account => balances'[a] = balances[a]
<1> DEFINE n == Len(snapshots) + 1
           row == [account |-> e.account, before |-> balances[e.account],
                   change |-> Change(e), after |-> balances[e.account] + Change(e)]
<1>1. e.account \in DOMAIN accounts /\ DOMAIN balances = DOMAIN accounts
  BY DEF Inserts, Accepted, TypeOK
<1>2. snapshots' = Append(snapshots, row)
  BY DEF Inserts, Insert
<1>3. /\ snapshots \in Seq(Snapshot)
      /\ n \in Nat
      /\ DOMAIN snapshots = 1..Len(snapshots)
  BY DEF TypeOK
<1>4. balances' = [balances EXCEPT ![e.account] = @ + Change(e)]
  BY DEF Inserts, Insert
<1>5. snapshots'[n] = row
  BY <1>2, <1>3
<1>6. /\ DOMAIN snapshots' = DOMAIN snapshots \cup {n}
      /\ \A i \in DOMAIN snapshots : i \in Nat /\ i < n /\ snapshots'[i] = snapshots[i]
  <2>1. DOMAIN snapshots' = 1..n
    BY <1>2, <1>3
  <2> QED
    BY <1>2, <1>3, <2>1
<1> QED
  BY <1>1, <1>3, <1>4, <1>5, <1>6

LEMMA SnapshotStep ==
  ASSUME {"update_account_balance", "create_balance_snapshot"} \subseteq Schema,
         TypeOK, SnapshotInv, [Next]_vars
  PROVE  SnapshotInv'
<1>1. CASE UNCHANGED tables
  BY <1>1 DEF SnapshotInv, SnapshotsChain, SnapshotsOf, tables
<1>2. ASSUME NEW id \in Ids, Opens(id)
      PROVE  SnapshotInv'
  <2>1. snapshots' = snapshots
    BY <1>2 DEF Opens
  <2>2. DOMAIN accounts' = DOMAIN accounts \cup {id} /\ id \notin DOMAIN accounts
    BY <1>2 DEF Opens
  <2>3. ASSUME NEW a \in DOMAIN balances', a # id
        PROVE  a \in DOMAIN balances /\ balances'[a] = balances[a]
    BY <1>2, <2>3 DEF Opens
  <2>4. SnapshotsOf(id) = {} /\ balances'[id] = 0
    BY <1>2 DEF Opens, SnapshotsOf, SnapshotInv
  <2>5. \A a : SnapshotsOf(a)' = SnapshotsOf(a)
    BY <2>1 DEF SnapshotsOf
  <2> QED
    BY <2>1, <2>2, <2>3, <2>4, <2>5 DEF SnapshotInv, SnapshotsChain
<1>3. ASSUME NEW e, Inserts(e)
      PROVE  SnapshotInv'
  <2> DEFINE n == Len(snapshots) + 1
  <2>1. /\ e.account \in DOMAIN accounts
        /\ DOMAIN balances' = DOMAIN balances
        /\ n \in Nat /\ \A i \in DOMAIN snapshots : i \in Nat /\ i < n
        /\ DOMAIN snapshots' = DOMAIN snapshots \cup {n}
        /\ \A i \in DOMAIN snapshots : snapshots'[i] = snapshots[i]
        /\ snapshots'[n].account = e.account
        /\ snapshots'[n].before = balances[e.account]
        /\ snapshots'[n].after = balances'[e.account]
        /\ \A a \in DOMAIN balances : a # e.account => balances'[a] = balances[a]
    BY <1>3, SnapshotAdded
  <2>2. accounts' = accounts
    BY <1>3 DEF Inserts, Insert
  <2> HIDE DEF n
  <2>3. \A i \in DOMAIN snapshots' : snapshots'[i].account \in DOMAIN accounts'
    BY <2>1, <2>2 DEF SnapshotInv
  <2>4. SnapshotsChain'
    <3> SUFFICES ASSUME NEW a \in DOMAIN balances
                 PROVE  LET mine == SnapshotsOf(a)' IN
                        /\ mine = {} => balances'[a] = 0
                        /\ \A i \in mine :
                             /\ (\A j \in mine : j >= i) => snapshots'[i].before = 0
                             /\ (\A j \in mine : j <= i) => snapshots'[i].after = balances'[a]
                             /\ \A j \in mine :
                                  (i < j /\ \A k \in mine : k <= i \/ k >= j)
                                    => snapshots'[j].before = snapshots'[i].after
      BY <2>1 DEF SnapshotsChain
    <3>1. CASE a # e.account
      <4>1. SnapshotsOf(a)' = SnapshotsOf(a)
        BY <2>1, <3>1 DEF SnapshotsOf
      <4>2. SnapshotsOf(a) \subseteq DOMAIN snapshots
        BY DEF SnapshotsOf
      <4> QED
        BY <2>1, <3>1, <4>1, <4>2 DEF SnapshotInv, SnapshotsChain
    <3>2. CASE a = e.account
      <4> DEFINE mine == SnapshotsOf(a)
      <4>1. SnapshotsOf(a)' = mine \cup {n}
        BY <2>1, <3>2 DEF SnapshotsOf
      <4>2. \A i \in mine : i \in Nat /\ i < n /\ snapshots'[i] = snapshots[i]
        BY <2>1 DEF SnapshotsOf
      <4>3. /\ mine = {} => balances[a] = 0
            /\ \A i \in mine :
                 /\ (\A j \in mine : j >= i) => snapshots[i].before = 0
                 /\ (\A j \in mine : j <= i) => snapshots[i].after = balances[a]
                 /\ \A j \in mine :
                      (i < j /\ \A k \in mine : k <= i \/ k >= j)
                        => snapshots[j].before = snapshots[i].after
        BY DEF SnapshotInv, SnapshotsChain
      <4> HIDE DEF mine
      <4>4. ASSUME NEW i \in mine \cup {n}, \A j \in mine \cup {n} : j >= i
            PROVE  snapshots'[i].before = 0
        <5>1. CASE i = n
          BY <2>1, <3>2, <4>2, <4>3, <4>4, <5>1
        <5>2. CASE i \in mine
          BY <4>2, <4>3, <4>4, <5>2
        <5> QED
          BY <5>1, <5>2
      <4>5. ASSUME NEW i \in mine \cup {n}, \A j \in mine \cup {n} : j <= i
            PROVE  snapshots'[i].after = balances'[a]
        <5>1. i = n
          BY <2>1, <4>2, <4>5
        <5> QED
          BY <2>1, <3>2, <5>1
      <4>6. ASSUME NEW i \in mine \cup {n}, NEW j \in mine \cup {n}, i < j,
                   \A k \in mine \cup {n} : k <= i \/ k >= j
            PROVE  snapshots'[j].before = snapshots'[i].after
        <5>1. i \in mine
          BY <2>1, <4>2, <4>6
        <5>2. CASE j = n
          <6>1. \A k \in mine : k <= i
            BY <2>1, <4>2, <4>6, <5>1, <5>2
          <6> QED
            BY <2>1, <3>2, <4>2, <4>3, <5>1, <5>2, <6>1
        <5>3. CASE j \in mine
          BY <4>2, <4>3, <4>6, <5>1, <5>3
        <5> QED
          BY <5>2, <5>3
      <4> QED
        BY <4>1, <4>4, <4>5, <4>6
    <3> QED
      BY <3>1, <3>2
  <2> QED
    BY <2>3, <2>4 DEF SnapshotInv
<1> QED
  BY <1>1, <1>2, <1>3, TablesStep

(* With both triggers of a posting in the schema, the snapshots of each    *)
(* account lead without a gap from 0 to its balance.                       *)
THEOREM SnapshotsLink ==
  ASSUME {"update_account_balance", "create_balance_snapshot"} \subseteq Schema
  PROVE  Spec => []SnapshotsChain
<1>1. Init => SnapshotInv
  BY DEF Init, SnapshotInv, SnapshotsChain, SnapshotsOf
<1>2. TypeOK /\ SnapshotInv /\ [Next]_vars => SnapshotInv'
  BY SnapshotStep
<1>3. SnapshotInv => SnapshotsChain
  BY DEF SnapshotInv
<1> QED
  BY <1>1, <1>2, <1>3, TypeCorrect, PTL DEF Spec

-----------------------------------------------------------------------------
(* Balances are sums.                                                      *)

Changes == [i \in DOMAIN journal |-> Change(journal[i])]

PostedTo(a) == {i \in DOMAIN journal : journal[i].account = a}

(* The sum of BalancesMatchJournal, over any set of entries.               *)
LEMMA ChangesSum ==
  ASSUME NEW S, S \subseteq DOMAIN journal
  PROVE  MapThenSumSet(LAMBDA i : Change(journal[i]), S) = SumOver(Changes, S)
<1> DEFINE F(g) == [s \in SUBSET S |->
                      IF s = {} THEN 0
                      ELSE Change(journal[Pick(s)]) + g[s \ {Pick(s)}]]
           G(g) == [s \in SUBSET S |-> IF s = {} THEN 0 ELSE Changes[Pick(s)] + g[s \ {Pick(s)}]]
<1>1. \A g : F(g) = G(g)
  <2>1. \A s \in SUBSET S : s # {} => Changes[Pick(s)] = Change(journal[Pick(s)])
    BY PickIn DEF Changes
  <2> QED
    BY <2>1
<1>2. MapThenSumSet(LAMBDA i : Change(journal[i]), S) = (CHOOSE g : g = F(g))[S]
  BY DEF MapThenSumSet, MapThenFoldSet, Pick
<1>3. SumOver(Changes, S) = (CHOOSE g : g = G(g))[S]
  BY DEF SumOver, Sums, IsSum
<1> HIDE DEF F, G
<1>4. \A g : (g = F(g)) <=> (g = G(g))
  BY <1>1
<1>5. (CHOOSE g : g = F(g)) = (CHOOSE g : g = G(g))
  BY <1>4
<1> QED
  BY <1>2, <1>3, <1>5

Balanced == \A a \in DOMAIN balances : balances[a] = SumOver(Changes, PostedTo(a))

LEMMA ChangesType ==
  ASSUME TypeOK
  PROVE  /\ IsFiniteSet(DOMAIN journal)
         /\ \A i \in DOMAIN journal : Changes[i] \in Int
<1>1. journal \in Seq(Entry)
  BY DEF TypeOK
<1>2. DOMAIN journal = 1..Len(journal) /\ Len(journal) \in Nat
  BY <1>1
<1>3. IsFiniteSet(DOMAIN journal)
  BY <1>2, FS_Interval
<1>4. \A i \in DOMAIN journal : journal[i] \in Entry
  BY <1>1
<1> QED
  BY <1>3, <1>4, ChangeIsInteger DEF Changes

(* An insertion adds its change at the end of the journal.                 *)
LEMMA ChangeAdded ==
  ASSUME TypeOK, NEW e, Inserts(e)
  PROVE  LET n == Len(journal) + 1 IN
         /\ n \notin DOMAIN journal
         /\ DOMAIN journal' = DOMAIN journal \cup {n}
         /\ \A i \in DOMAIN journal : journal'[i] = journal[i] /\ Changes'[i] = Changes[i]
         /\ journal'[n] = e /\ Changes'[n] = Change(e)
<1> DEFINE n == Len(journal) + 1
<1>1. journal \in Seq(Entry) /\ journal' = Append(journal, e) /\ accounts' = accounts
  BY DEF TypeOK, Inserts, Insert
<1>2. /\ Len(journal) \in Nat /\ DOMAIN journal = 1..Len(journal)
      /\ DOMAIN journal' = 1..n
      /\ \A i \in DOMAIN journal : journal'[i] = journal[i]
      /\ journal'[n] = e
  BY <1>1
<1>3. n \notin DOMAIN journal /\ DOMAIN journal' = DOMAIN journal \cup {n}
  BY <1>2
<1>4. \A i \in DOMAIN journal' : Changes'[i] =
         IF (journal'[i].type = "debit") <=> (accounts[journal'[i].account].type \in DebitNormal)
           THEN journal'[i].amount ELSE -journal'[i].amount
  BY <1>1 DEF Changes, Change
<1>5. \A i \in DOMAIN journal : Changes'[i] = Changes[i]
  BY <1>2, <1>3, <1>4 DEF Changes, Change
<1>6. Changes'[n] = Change(e)
  BY <1>2, <1>3, <1>4 DEF Change
<1> QED
  BY <1>2, <1>3, <1>5, <1>6

LEMMA BalancedStep ==
  ASSUME "update_account_balance" \in Schema, TypeOK, Balanced, [Next]_vars
  PROVE  Balanced'
<1>1. CASE UNCHANGED tables
  BY <1>1 DEF Balanced, Changes, Change, PostedTo, tables
<1>2. ASSUME NEW id \in Ids, Opens(id)
      PROVE  Balanced'
  <2>1. journal' = journal /\ \A i \in DOMAIN journal : journal[i].account \in DOMAIN accounts
    BY <1>2 DEF Opens, TypeOK
  <2>2. Changes' = Changes
    BY <1>2, <2>1 DEF Opens, Changes, Change
  <2>3. PostedTo(id) = {} /\ \A a : PostedTo(a)' = PostedTo(a)
    BY <1>2, <2>1 DEF Opens, PostedTo
  <2>4. IsFiniteSet(PostedTo(id))
    BY <2>3, FS_EmptySet
  <2>5. SumOver(Changes, PostedTo(id)) = 0
    BY <2>3, <2>4, SumStep
  <2>6. ASSUME NEW a \in DOMAIN balances'
        PROVE  balances'[a] = SumOver(Changes, PostedTo(a))
    BY <1>2, <2>5 DEF Opens, Balanced
  <2>7. \A a : SumOver(Changes, PostedTo(a))' = SumOver(Changes, PostedTo(a))
    BY <2>2, <2>3 DEF SumOver, Sums, IsSum
  <2> QED
    BY <2>6, <2>7 DEF Balanced
<1>3. ASSUME NEW e, Inserts(e)
      PROVE  Balanced'
  <2> DEFINE n == Len(journal) + 1
  <2>1. /\ n \notin DOMAIN journal
        /\ DOMAIN journal' = DOMAIN journal \cup {n}
        /\ \A i \in DOMAIN journal : journal'[i] = journal[i] /\ Changes'[i] = Changes[i]
        /\ journal'[n] = e /\ Changes'[n] = Change(e)
    BY <1>3, ChangeAdded
  <2>2. /\ e.account \in DOMAIN balances
        /\ balances' = [balances EXCEPT ![e.account] = @ + Change(e)]
        /\ Change(e) \in Int
    BY <1>3, ChangeIsInteger DEF Inserts, Accepted, Insert, TypeOK
  <2> HIDE DEF n
  <2> SUFFICES ASSUME NEW a \in DOMAIN balances
               PROVE  balances'[a] = SumOver(Changes', PostedTo(a)')
    BY <2>2 DEF Balanced
  <2>3. /\ IsFiniteSet(PostedTo(a))
        /\ PostedTo(a) \subseteq DOMAIN journal
        /\ \A i \in PostedTo(a) : Changes[i] \in Int
    BY ChangesType, FS_Subset DEF PostedTo
  <2>4. SumOver(Changes', PostedTo(a)) = SumOver(Changes, PostedTo(a))
    BY <2>1, <2>3, SumSame
  <2>5. balances[a] = SumOver(Changes, PostedTo(a)) /\ balances[a] \in Int
    BY DEF Balanced, TypeOK
  <2>6. CASE a # e.account
    <3>1. PostedTo(a)' = PostedTo(a)
      BY <2>1, <2>6 DEF PostedTo
    <3> QED
      BY <2>2, <2>4, <2>5, <2>6, <3>1
  <2>7. CASE a = e.account
    <3>1. PostedTo(a)' = PostedTo(a) \cup {n} /\ n \notin PostedTo(a)
      BY <2>1, <2>7 DEF PostedTo
    <3>2. \A i \in PostedTo(a) \cup {n} : Changes'[i] \in Int
      BY <2>1, <2>2, <2>3
    <3>3. SumOver(Changes', PostedTo(a) \cup {n}) = Changes'[n] + SumOver(Changes', PostedTo(a))
      BY <2>3, <3>1, <3>2, SumWith
    <3> QED
      BY <2>1, <2>2, <2>4, <2>5, <2>7, <3>1, <3>3
  <2> QED
    BY <2>6, <2>7
<1> QED
  BY <1>1, <1>2, <1>3, TablesStep

LEMMA BalancedAlways ==
  ASSUME "update_account_balance" \in Schema
  PROVE  Spec => []Balanced
<1>1. Init => Balanced
  BY DEF Init, Balanced
<1>2. TypeOK /\ Balanced /\ [Next]_vars => Balanced'
  BY BalancedStep
<1> QED
  BY <1>1, <1>2, TypeCorrect, PTL DEF Spec

(* With the balance trigger in the schema, the balance of each account is  *)
(* the sum of its entries, whatever calls interleave and whatever fails.   *)
THEOREM BalancesAreSums ==
  ASSUME "update_account_balance" \in Schema
  PROVE  Spec => []BalancesMatchJournal
<1>1. Balanced => BalancesMatchJournal
  <2> SUFFICES ASSUME Balanced, NEW a \in DOMAIN balances
               PROVE  balances[a] = MapThenSumSet(LAMBDA i : Change(journal[i]),
                                      {i \in DOMAIN journal : journal[i].account = a})
    BY DEF BalancesMatchJournal
  <2>1. PostedTo(a) \subseteq DOMAIN journal
    BY DEF PostedTo
  <2>2. MapThenSumSet(LAMBDA i : Change(journal[i]), PostedTo(a)) = SumOver(Changes, PostedTo(a))
    BY <2>1, ChangesSum
  <2> QED
    BY <2>2 DEF Balanced, PostedTo
<1> QED
  BY <1>1, BalancedAlways, PTL

-----------------------------------------------------------------------------
(* Calls come to an end.                                                   *)

(* How many steps a call has still before it at most: the reads of a       *)
(* transfer, the attempts at each later entry, and at this one.            *)
ReadsLeft == [from |-> 3, to |-> 2, funds |-> 1, post |-> 0]

StepsLeft(c) ==
  ReadsLeft[pc[c]] + MaxRetries * (Len(legs[c]) - leg[c]) + (MaxRetries - attempt[c])

LEMMA StepsLeftNat ==
  ASSUME TypeOK, NEW c \in Clients, pc[c] # "idle"
  PROVE  StepsLeft(c) \in Nat /\ StepsLeft(c) > 0
<1>1. /\ ReadsLeft[pc[c]] \in Nat
      /\ leg[c] \in 1..Len(legs[c]) /\ Len(legs[c]) \in Nat
      /\ attempt[c] \in 0..2
  BY DEF TypeOK, ReadsLeft, MaxRetries
<1>2. ASSUME NEW r \in Nat, NEW n \in Nat, NEW k \in 1..n, NEW a \in 0..2
      PROVE  r + 3 * (n - k) + (3 - a) \in Nat /\ r + 3 * (n - k) + (3 - a) > 0
  OBVIOUS
<1> QED
  BY <1>1, <1>2 DEF StepsLeft, MaxRetries

(* A step of a call ends it or brings it nearer to its end.                *)
LEMMA StepNearer ==
  ASSUME TypeOK, NEW c \in Clients, Step(c), pc[c] # "idle"
  PROVE  pc'[c] = "idle" \/ StepsLeft(c)' < StepsLeft(c)
<1>0. /\ ReadsLeft[pc[c]] \in Nat
      /\ leg[c] \in 1..Len(legs[c]) /\ Len(legs[c]) \in Nat
      /\ attempt[c] \in 0..2
      /\ DOMAIN pc = Clients /\ DOMAIN leg = Clients /\ DOMAIN attempt = Clients
  BY DEF TypeOK, ReadsLeft, MaxRetries
<1>1. ASSUME NEW step, Proceed(c, step), ReadsLeft[step] \in Nat, ReadsLeft[step] < ReadsLeft[pc[c]]
      PROVE  StepsLeft(c)' < StepsLeft(c)
  BY <1>0, <1>1 DEF Proceed, StepsLeft, ReadsLeft, MaxRetries
<1>2. CASE GetFromAccount(c) \/ GetToAccount(c) \/ CheckFunds(c)
  BY <1>1, <1>2 DEF GetFromAccount, GetToAccount, CheckFunds, ReadsLeft
<1>3. CASE PostEntry(c)
  <2>1. CASE leg[c] = Len(legs[c])
    BY <1>0, <1>3, <2>1 DEF PostEntry, Return
  <2>2. CASE leg[c] # Len(legs[c])
    <3>1. leg'[c] = leg[c] + 1 /\ attempt'[c] = 0 /\ pc' = pc /\ legs' = legs
      BY <1>0, <1>3, <2>2 DEF PostEntry
    <3> QED
      BY <1>0, <3>1 DEF StepsLeft, MaxRetries
  <2> QED
    BY <2>1, <2>2
<1>4. CASE SerializationFailure(c)
  <2>1. CASE attempt[c] = MaxRetries - 1
    BY <1>0, <1>4, <2>1 DEF SerializationFailure, Fail, Return
  <2>2. CASE attempt[c] # MaxRetries - 1
    <3>1. attempt'[c] = attempt[c] + 1 /\ leg' = leg /\ pc' = pc /\ legs' = legs
      BY <1>0, <1>4, <2>2 DEF SerializationFailure
    <3> QED
      BY <1>0, <3>1 DEF StepsLeft, MaxRetries
  <2> QED
    BY <2>1, <2>2
<1>5. CASE RefuseTransfer(c) \/ PostReplyLost(c) \/ RejectEntry(c) \/ DatabaseUnavailable(c)
  BY <1>0, <1>5 DEF RefuseTransfer, PostReplyLost, RejectEntry, DatabaseUnavailable, Fail, Return
<1> QED
  BY <1>2, <1>3, <1>4, <1>5
     DEF Step, RefuseRequest, CreateAccount, StartPost, StartTransfer, Start

(* The step of one call does not touch another.                            *)
LEMMA OthersUntouched ==
  ASSUME TypeOK, NEW c \in Clients, NEW d \in Clients \ {c}, Step(d)
  PROVE  pc'[c] = pc[c] /\ legs'[c] = legs[c] /\ leg'[c] = leg[c] /\ attempt'[c] = attempt[c]
<1>1. ASSUME NEW answer, NEW entries, Return(d, answer, entries)
      PROVE  pc'[c] = pc[c] /\ legs'[c] = legs[c] /\ leg'[c] = leg[c] /\ attempt'[c] = attempt[c]
  BY <1>1 DEF Return, TypeOK
<1>2. CASE \E step, entries : Start(d, step, entries)
  BY <1>2 DEF Start, TypeOK
<1>3. CASE \E step : Proceed(d, step)
  BY <1>3 DEF Proceed, TypeOK
<1>4. CASE PostEntry(d) \/ SerializationFailure(d)
  BY <1>1, <1>4 DEF PostEntry, SerializationFailure, Fail, TypeOK
<1>5. CASE \/ RefuseRequest(d) \/ RefuseTransfer(d) \/ PostReplyLost(d) \/ RejectEntry(d)
           \/ DatabaseUnavailable(d)
           \/ \E id \in Ids, n \in Names, t \in Types, cur \in Currencies :
                CreateAccount(d, id, n, t, cur)
  BY <1>1, <1>5 DEF RefuseRequest, RefuseTransfer, PostReplyLost, RejectEntry,
                    DatabaseUnavailable, CreateAccount, Fail
<1> QED
  BY <1>2, <1>3, <1>4, <1>5
     DEF Step, StartPost, StartTransfer, GetFromAccount, GetToAccount, CheckFunds

(* Every step of a call in progress ends it or leaves it fewer steps than  *)
(* it had, and no other call can give it more: what CallsReturn adds is    *)
(* only that the call is not left waiting between its steps.               *)
CallsGetOn ==
  [][ \A c \in Clients : pc[c] # "idle" =>
        IF Step(c) THEN pc'[c] = "idle" \/ StepsLeft(c)' < StepsLeft(c)
        ELSE pc'[c] = pc[c] /\ StepsLeft(c)' = StepsLeft(c) ]_vars

THEOREM CallsEnd == Spec => CallsGetOn
<1> DEFINE GetOn == \A c \in Clients : pc[c] # "idle" =>
                      IF Step(c) THEN pc'[c] = "idle" \/ StepsLeft(c)' < StepsLeft(c)
                      ELSE pc'[c] = pc[c] /\ StepsLeft(c)' = StepsLeft(c)
<1>1. TypeOK /\ [Next]_vars => GetOn
  <2> SUFFICES ASSUME TypeOK, [Next]_vars, NEW c \in Clients, pc[c] # "idle"
               PROVE  IF Step(c) THEN pc'[c] = "idle" \/ StepsLeft(c)' < StepsLeft(c)
                      ELSE pc'[c] = pc[c] /\ StepsLeft(c)' = StepsLeft(c)
    OBVIOUS
  <2>1. CASE Step(c)
    BY <2>1, StepNearer
  <2>2. CASE ~Step(c)
    <3>1. UNCHANGED vars \/ \E d \in Clients \ {c} : Step(d)
      BY <2>2 DEF Next
    <3>2. pc'[c] = pc[c] /\ legs'[c] = legs[c] /\ leg'[c] = leg[c] /\ attempt'[c] = attempt[c]
      BY <3>1, OthersUntouched DEF vars, calls
    <3> QED
      BY <2>2, <3>2 DEF StepsLeft
  <2> QED
    BY <2>1, <2>2
<1> QED
  BY <1>1, TypeCorrect, PTL DEF Spec, CallsGetOn

-----------------------------------------------------------------------------
(* The ledger as a book.                                                   *)

(* What the book says an account holds is the sum of its entries.          *)
LEMMA HoldsIsSum ==
  ASSUME NEW a
  PROVE  AccountBook!Holds(a) = SumOver(Changes, PostedTo(a))
<1> DEFINE S == PostedTo(a)
           F(g) == [s \in SUBSET S |->
                      IF s = {} THEN 0
                      ELSE AccountBook!Effect(journal[Pick(s)]) + g[s \ {Pick(s)}]]
           G(g) == [s \in SUBSET S |-> IF s = {} THEN 0 ELSE Changes[Pick(s)] + g[s \ {Pick(s)}]]
<1>1. \A g : F(g) = G(g)
  <2>1. \A s \in SUBSET S : s # {} =>
           Pick(s) \in DOMAIN journal
    BY PickIn DEF PostedTo
  <2>2. \A i \in DOMAIN journal : Changes[i] = AccountBook!Effect(journal[i])
    BY DEF Changes, Change, AccountBook!Effect, DebitNormal
  <2>3. \A s \in SUBSET S : s # {} => Changes[Pick(s)] = AccountBook!Effect(journal[Pick(s)])
    BY <2>1, <2>2
  <2> QED
    BY <2>3
<1>2. AccountBook!Holds(a) = (CHOOSE g : g = F(g))[S]
  BY DEF AccountBook!Holds, AccountBook!MapThenSumSet, AccountBook!MapThenFoldSet, Pick, PostedTo
<1>3. SumOver(Changes, S) = (CHOOSE g : g = G(g))[S]
  BY DEF SumOver, Sums, IsSum
<1> HIDE DEF F, G
<1>4. \A g : (g = F(g)) <=> (g = G(g))
  BY <1>1
<1>5. (CHOOSE g : g = F(g)) = (CHOOSE g : g = G(g))
  BY <1>4
<1> QED
  BY <1>2, <1>3, <1>5

(* An entry that the triggers let through is one that the book takes.      *)
LEMMA InsertIsPost ==
  ASSUME "update_account_balance" \in Schema, TypeOK, Balanced, CreditFollowsDebit',
         NEW e, Inserts(e)
  PROVE  AccountBook!Post(e)
<1>1. /\ e \in Entry /\ e.account \in DOMAIN accounts /\ e.amount > 0
      /\ \A i \in DOMAIN journal : journal[i].number # e.number
      /\ ~BalanceRaises(e)
      /\ journal' = Append(journal, e) /\ UNCHANGED accounts
  BY DEF Inserts, Accepted, Insert
<1>2. accounts[e.account].type # "expense" =>
        AccountBook!Holds(e.account) + AccountBook!Effect(e) >= 0
  <2>1. balances[e.account] = AccountBook!Holds(e.account)
    BY <1>1, HoldsIsSum DEF Balanced, TypeOK
  <2>2. Change(e) = AccountBook!Effect(e)
    BY DEF Change, AccountBook!Effect, DebitNormal
  <2>3. balances[e.account] \in Int /\ Change(e) \in Int
    BY <1>1, ChangeIsInteger DEF TypeOK
  <2>4. accounts[e.account].type # "expense" => ~(balances[e.account] + Change(e) < 0)
    BY <1>1 DEF BalanceRaises
  <2> QED
    BY <2>1, <2>2, <2>3, <2>4
<1>3. ASSUME e.number[2] = "credit"
      PROVE  \E i \in DOMAIN journal : /\ journal[i].number[2] = "debit"
                                       /\ journal[i].txn = e.txn
                                       /\ journal[i].amount = e.amount
  <2> DEFINE n == Len(journal) + 1
  <2>1. /\ n \in DOMAIN journal' /\ journal'[n] = e
        /\ \A i \in 1..(n - 1) : i \in DOMAIN journal /\ journal'[i] = journal[i]
    BY <1>1 DEF TypeOK
  <2>2. \E i \in 1..(n - 1) : /\ journal'[i].number[2] = "debit"
                              /\ journal'[i].txn = journal'[n].txn
                              /\ journal'[i].amount = journal'[n].amount
    <3> HIDE DEF n
    <3> QED
      BY <1>3, <2>1 DEF CreditFollowsDebit, IsLeg
  <2> QED
    BY <2>1, <2>2
<1> QED
  BY <1>1, <1>2, <1>3 DEF AccountBook!Post

LEMMA CreateIsOpen ==
  ASSUME NEW c \in Clients, NEW id \in Ids, NEW n \in Names, NEW t \in Types,
         NEW cur \in Currencies, CreateAccount(c, id, n, t, cur)
  PROVE  \E row \in Account : AccountBook!Open(id, row)
<1> DEFINE row == [number |-> n, type |-> t, currency |-> cur]
<1>1. row \in Account
  BY DEF Account
<1>2. /\ id \notin DOMAIN accounts
      /\ \A b \in DOMAIN accounts : accounts[b].number # row.number
      /\ accounts' = [b \in DOMAIN accounts \cup {id} |-> IF b = id THEN row ELSE accounts[b]]
      /\ UNCHANGED journal
  BY DEF CreateAccount, Numbered
<1> HIDE DEF row
<1> QED
  BY <1>1, <1>2 DEF AccountBook!Open

(* With the balance trigger in the schema every behaviour of the ledger,   *)
(* with any calls, interleavings and failures, is one of the book: entries *)
(* are only ever added, no two with the same number, and what the triggers *)
(* let through by the balances they keep is what the entries themselves    *)
(* allow.                                                                  *)
THEOREM LedgerIsBook ==
  ASSUME "update_account_balance" \in Schema
  PROVE  Spec => ImplementsBook
<1> DEFINE Turn == [AccountBook!Next]_<<accounts, journal>>
<1>1. Init => AccountBook!Init
  BY DEF Init, AccountBook!Init
<1>2. TypeOK /\ Balanced /\ CreditFollowsDebit' /\ [Next]_vars => Turn
  <2> SUFFICES ASSUME TypeOK, Balanced, CreditFollowsDebit', [Next]_vars
               PROVE  Turn
    OBVIOUS
  <2>1. ASSUME NEW c \in Clients, NEW id \in Ids, NEW n \in Names, NEW t \in Types,
               NEW cur \in Currencies, CreateAccount(c, id, n, t, cur)
        PROVE  Turn
    <3>1. PICK row \in Account : AccountBook!Open(id, row)
      BY <2>1, CreateIsOpen
    <3>2. UNCHANGED journal
      BY <3>1 DEF AccountBook!Open
    <3> QED
      BY <3>1, <3>2 DEF AccountBook!Next
  <2>2. ASSUME NEW e, Inserts(e)
        PROVE  Turn
    <3>1. AccountBook!Post(e) /\ e \in Entry
      BY <2>2, InsertIsPost DEF Inserts
    <3>2. UNCHANGED accounts
      BY <3>1 DEF AccountBook!Post
    <3> QED
      BY <3>1, <3>2 DEF AccountBook!Next
  <2>3. CASE UNCHANGED tables
    BY <2>3 DEF tables
  <2>4. \/ UNCHANGED tables
        \/ \E e : Inserts(e)
        \/ \E c \in Clients, id \in Ids, n \in Names, t \in Types, cur \in Currencies :
             CreateAccount(c, id, n, t, cur)
    <3>1. CASE UNCHANGED vars
      BY <3>1 DEF vars
    <3>2. ASSUME NEW c \in Clients, Step(c)
          PROVE  <2>4
      BY <3>2, StepKinds
    <3> QED
      BY <3>1, <3>2 DEF Next
  <2> HIDE DEF Turn
  <2> QED
    BY <2>1, <2>2, <2>3, <2>4
<1>3. CallInv => CreditFollowsDebit
  BY DEF CallInv
<1>4. Spec => []Balanced
  BY BalancedAlways
<1> QED
  BY <1>1, <1>2, <1>3, <1>4, TypeCorrect, CallInvAlways, PTL
     DEF Spec, ImplementsBook, AccountBook!Spec

=============================================================================
