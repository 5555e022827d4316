------------------------- MODULE LedgerReportsProofs -------------------------
(* Theorems of LedgerReports, for every value of its constants. *)
EXTENDS LedgerReports, LedgerProofs

-----------------------------------------------------------------------------
(* Reading changes nothing, and posting in two steps is posting.           *)

LEMMA ReportStep ==
  ASSUME ReportNext
  PROVE  \/ \E c \in Clients : Begin(c)
         \/ \E c \in Clients : LedgerStep(c)
         \/ UNCHANGED <<vars, posting>>
BY DEF ReportNext, ComprehensiveValidation, ReadBalance, ReadEntries, ReadNumbers,
       ReadTransactions, ReadTotals, Finish, QueryFails, Ask

LEMMA ReportStepIsLedgerStep ==
  ASSUME [ReportNext]_reportVars
  PROVE  [Next]_vars
<1>1. CASE UNCHANGED reportVars
  BY <1>1 DEF reportVars
<1>2. ASSUME NEW c \in Clients, LedgerStep(c)
      PROVE  Next
  BY <1>2 DEF LedgerStep, Next
<1>3. ASSUME NEW c \in Clients, Begin(c)
      PROVE  UNCHANGED vars
  BY <1>3 DEF Begin
<1> QED
  BY <1>1, <1>2, <1>3, ReportStep

(* With the validator reading and every posting split in its beginning and *)
(* its commit, the ledger is still the one of Ledger: all that holds of it *)
(* holds here.                                                             *)
THEOREM ReportsKeepLedger == ReportSpec => Spec
<1>1. ReportInit => Init
  BY DEF ReportInit
<1> QED
  BY <1>1, ReportStepIsLedgerStep, PTL DEF ReportSpec, Spec

-----------------------------------------------------------------------------
(* Types.                                                                  *)

(* A row of balance_snapshots comes with a posting, so its transaction has *)
(* begun.                                                                  *)
LEMMA SnapshotAppended ==
  ASSUME TypeOK, NEW c \in Clients, LedgerStep(c)
  PROVE  \/ snapshots' = snapshots /\ times' = times
         \/ /\ began[c] # 0
            /\ times' = Append(times, began[c])
            /\ \E row \in Snapshot : snapshots' = Append(snapshots, row)
<1>1. Step(c) /\ (pc[c] = "post" => began[c] # 0)
  BY DEF LedgerStep
<1>2. CASE snapshots' = snapshots
  BY <1>2 DEF LedgerStep
<1>3. CASE snapshots' # snapshots
  <2>1. pc[c] = "post" /\ Inserts(Posting(c))
    BY <1>1, <1>3, StepTables DEF tables, Opens
  <2> DEFINE e == Posting(c)
             row == [account |-> e.account, before |-> balances[e.account],
                     change |-> Change(e), after |-> balances[e.account] + Change(e)]
  <2>2. snapshots' = Append(snapshots, row)
    BY <1>3, <2>1 DEF Inserts, Insert
  <2>3. row \in Snapshot
    <3>1. e \in Entry /\ e.account \in DOMAIN accounts
      BY <2>1 DEF Inserts, Accepted
    <3>2. Change(e) \in Int /\ balances[e.account] \in Int /\ e.account \in Ids
      BY <3>1, ChangeIsInteger DEF TypeOK
    <3> QED
      BY <3>2 DEF Snapshot
  <2>4. times' = Append(times, began[c])
    BY <1>3 DEF LedgerStep
  <2> QED
    BY <1>1, <2>1, <2>2, <2>3, <2>4
<1> QED
  BY <1>2, <1>3

LEMMA AccountsStay ==
  ASSUME TypeOK, [Next]_vars
  PROVE  /\ DOMAIN accounts \subseteq DOMAIN accounts'
         /\ \A a \in DOMAIN accounts : accounts'[a] = accounts[a]
<1>1. CASE UNCHANGED tables
  BY <1>1 DEF tables
<1>2. ASSUME NEW e, Inserts(e)
      PROVE  accounts' = accounts
  BY <1>2 DEF Inserts, Insert
<1> QED
  BY <1>1, <1>2, TablesStep DEF Opens

LEMMA ReportTypeStep ==
  ASSUME TypeOK, ReportTypeOK, [ReportNext]_reportVars
  PROVE  ReportTypeOK'
<1>1. clock \in Nat /\ MaxClock \in Nat
  BY ReportsAssumption DEF ReportTypeOK
<1>2. CASE UNCHANGED reportVars
  BY <1>2 DEF reportVars, vars, tables, posting, validation, ReportTypeOK
<1>3. ASSUME NEW c \in Clients, Begin(c)
      PROVE  ReportTypeOK'
  <2>1. /\ clock' = clock + 1 /\ clock < MaxClock
        /\ began' = [began EXCEPT ![c] = clock + 1]
        /\ times' = times /\ snapshots' = snapshots /\ accounts' = accounts
        /\ at' = at /\ subject' = subject /\ todo' = todo
    BY <1>3 DEF Begin, vars, tables, validation
  <2>2. began' \in [Clients -> 0..clock']
    BY <1>1, <2>1 DEF ReportTypeOK
  <2>3. times' \in Seq(1..clock')
    <3>1. 1..clock \subseteq 1..clock'
      BY <1>1, <2>1
    <3> QED
      BY <2>1, <3>1 DEF ReportTypeOK
  <2> QED
    BY <1>1, <2>1, <2>2, <2>3 DEF ReportTypeOK
<1>4. ASSUME NEW c \in Clients, LedgerStep(c)
      PROVE  ReportTypeOK'
  <2>1. /\ clock' = clock /\ began' = [began EXCEPT ![c] = 0]
        /\ at' = at /\ subject' = subject /\ todo' = todo
    BY <1>4 DEF LedgerStep, validation
  <2>2. began' \in [Clients -> 0..clock]
    BY <1>1, <2>1 DEF ReportTypeOK
  <2>3. times' \in Seq(1..clock) /\ Len(times') = Len(snapshots')
    <3>1. CASE snapshots' = snapshots /\ times' = times
      BY <3>1 DEF ReportTypeOK
    <3>2. CASE /\ began[c] # 0 /\ times' = Append(times, began[c])
               /\ \E row \in Snapshot : snapshots' = Append(snapshots, row)
      <4>1. began[c] \in 1..clock
        BY <1>1, <3>2 DEF ReportTypeOK
      <4>2. times \in Seq(1..clock) /\ snapshots \in Seq(Snapshot) /\ Len(times) = Len(snapshots)
        BY DEF ReportTypeOK, TypeOK
      <4> QED
        BY <3>2, <4>1, <4>2
    <3> QED
      BY <1>4, <3>1, <3>2, SnapshotAppended
  <2>4. at' # "done" => subject' \in DOMAIN accounts'
    <3>1. DOMAIN accounts \subseteq DOMAIN accounts'
      BY <1>4, AccountsStay, ReportStepIsLedgerStep DEF ReportNext
    <3> QED
      BY <2>1, <3>1 DEF ReportTypeOK
  <2> QED
    BY <2>1, <2>2, <2>3, <2>4 DEF ReportTypeOK
<1>5. ASSUME UNCHANGED <<vars, posting>>, ReportNext
      PROVE  ReportTypeOK'
  <2>1. UNCHANGED <<accounts, journal, snapshots, clock, began, times>>
    BY <1>5 DEF vars, tables, posting
  <2>2. \A i \in DOMAIN journal : journal[i].txn \in Txns
    <3>1. journal \in Seq(Entry)
      BY DEF TypeOK
    <3>2. \A i \in DOMAIN journal : journal[i] \in Entry
      BY <3>1
    <3> QED
      BY <3>2 DEF Entry
  <2> DEFINE Good == /\ at' \in {"balance", "entries", "numbers", "transactions", "totals", "done"}
                     /\ at' # "done" => subject' \in DOMAIN accounts
                     /\ todo' \subseteq Txns
  <2>3. Good
    <3>1. CASE UNCHANGED validation
      BY <3>1 DEF validation, ReportTypeOK
    <3>2. ASSUME NEW a \in Ids, ComprehensiveValidation(a)
          PROVE  Good
      BY <3>2 DEF ComprehensiveValidation
    <3>3. CASE ReadBalance \/ ReadEntries \/ ReadNumbers \/ ReadTransactions \/ Finish \/ QueryFails
      BY <2>2, <3>3 DEF ReadBalance, ReadEntries, ReadNumbers, ReadTransactions, Finish, QueryFails,
                   Ask, ReportTypeOK
    <3>4. ASSUME NEW txn \in Txns, ReadTotals(txn)
          PROVE  Good
      BY <3>4 DEF ReadTotals, Ask, ReportTypeOK
    <3> QED
      BY <1>5, <3>1, <3>2, <3>3, <3>4 DEF ReportNext, Begin, LedgerStep
  <2> QED
    BY <2>1, <2>3 DEF ReportTypeOK
<1> QED
  BY <1>2, <1>3, <1>4, <1>5, ReportStep

(* Every reachable state has the types of ReportTypeOK.                    *)
THEOREM ReportTypeCorrect == ReportSpec => []ReportTypeOK
<1>1. ReportInit => ReportTypeOK
  BY ReportsAssumption DEF ReportInit, Init, ReportTypeOK
<1>2. TypeOK /\ ReportTypeOK /\ [ReportNext]_reportVars => ReportTypeOK'
  BY ReportTypeStep
<1> QED
  BY <1>1, <1>2, ReportsKeepLedger, TypeCorrect, PTL DEF ReportSpec

-----------------------------------------------------------------------------
(* Sums over snapshots.                                                    *)

ChangeOver(rows, S) == MapThenSumSet(LAMBDA i : rows[i].change, S)

LEMMA ChangeOverIsSum ==
  ASSUME NEW rows, NEW S
  PROVE  ChangeOver(rows, S) = SumOver([i \in S |-> rows[i].change], S)
<1> DEFINE w == [i \in S |-> rows[i].change]
           F(g) == [s \in SUBSET S |->
                      IF s = {} THEN 0 ELSE rows[Pick(s)].change + g[s \ {Pick(s)}]]
           G(g) == [s \in SUBSET S |-> IF s = {} THEN 0 ELSE w[Pick(s)] + g[s \ {Pick(s)}]]
<1>1. \A g : F(g) = G(g)
  <2>1. \A s \in SUBSET S : s # {} => w[Pick(s)] = rows[Pick(s)].change
    BY PickIn
  <2> QED
    BY <2>1
<1>2. ChangeOver(rows, S) = (CHOOSE g : g = F(g))[S]
  BY DEF ChangeOver, MapThenSumSet, MapThenFoldSet, Pick
<1>3. SumOver(w, S) = (CHOOSE g : g = G(g))[S]
  BY DEF SumOver, Sums, IsSum
<1> HIDE DEF F, G
<1>4. \A g : (g = F(g)) <=> (g = G(g))
  BY <1>1
<1>5. (CHOOSE g : g = F(g)) = (CHOOSE g : g = G(g))
  BY <1>4
<1> QED
  BY <1>2, <1>3, <1>5

(* A sum over old rows is what it was.                                     *)
LEMMA ChangeOverSame ==
  ASSUME NEW rows, NEW later, NEW S, \A i \in S : later[i] = rows[i]
  PROVE  ChangeOver(later, S) = ChangeOver(rows, S)
<1>1. SumOver([i \in S |-> later[i].change], S) = SumOver([i \in S |-> rows[i].change], S)
  BY SumSame
<1> QED
  BY <1>1, ChangeOverIsSum

(* However postings begin and commit, the balance of a past moment is      *)
(* final once every posting in progress began later.                       *)
THEOREM PastSettles == ReportSpec => HistorySettles
<1>1. ASSUME TypeOK, ReportTypeOK, [ReportNext]_reportVars,
             NEW a \in DOMAIN accounts, NEW time \in 1..MaxClock, Settled(time)
      PROVE  BalanceAt(a, time)' = BalanceAt(a, time)
  <2> DEFINE upTo == {i \in SnapshotsOf(a) : times[i] <= time}
  <2>1. /\ BalanceAt(a, time) = ChangeOver(snapshots, upTo)
        /\ BalanceAt(a, time)' = ChangeOver(snapshots', upTo')
    BY DEF BalanceAt, ChangeOver, MapThenSumSet, MapThenFoldSet
  <2>2. CASE snapshots' = snapshots /\ times' = times
    <3>1. upTo' = upTo
      BY <2>2 DEF SnapshotsOf
    <3> QED
      BY <2>1, <2>2, <3>1
  <2>3. ASSUME NEW c \in Clients, began[c] # 0, times' = Append(times, began[c]),
               NEW row \in Snapshot, snapshots' = Append(snapshots, row)
        PROVE  BalanceAt(a, time)' = BalanceAt(a, time)
    <3>1. began[c] \in Nat /\ began[c] > time
      BY <1>1, <2>3, ReportsAssumption DEF Settled, ReportTypeOK
    <3> DEFINE n == Len(snapshots) + 1
    <3>2. /\ snapshots \in Seq(Snapshot) /\ Len(snapshots) \in Nat
          /\ times \in Seq(1..clock) /\ Len(times) = Len(snapshots)
      BY <1>1 DEF TypeOK, ReportTypeOK
    <3>3. /\ DOMAIN snapshots = 1..Len(snapshots) /\ DOMAIN snapshots' = 1..n
          /\ \A i \in DOMAIN snapshots : snapshots'[i] = snapshots[i] /\ times'[i] = times[i]
          /\ times'[n] = began[c]
      BY <2>3, <3>2
    <3>4. DOMAIN snapshots' = DOMAIN snapshots \cup {n} /\ n \notin DOMAIN snapshots
      BY <3>2, <3>3
    <3>5. ~(times'[n] <= time)
      BY <3>1, <3>3
    <3>6. upTo' = upTo
      <4> HIDE DEF n
      <4> QED
        BY <3>3, <3>4, <3>5 DEF SnapshotsOf
    <3>7. \A i \in upTo : snapshots'[i] = snapshots[i]
      BY <3>3 DEF SnapshotsOf
    <3> HIDE DEF upTo
    <3>8. ChangeOver(snapshots', upTo) = ChangeOver(snapshots, upTo)
      BY <3>7, ChangeOverSame
    <3> QED
      BY <2>1, <3>6, <3>8
  <2>4. CASE UNCHANGED <<snapshots, times>>
    BY <2>2, <2>4
  <2>5. ASSUME NEW c \in Clients, Begin(c)
        PROVE  UNCHANGED <<snapshots, times>>
    BY <2>5 DEF Begin, vars, tables
  <2>6. UNCHANGED <<vars, posting>> => UNCHANGED <<snapshots, times>>
    BY DEF vars, tables, posting
  <2>7. UNCHANGED reportVars => UNCHANGED <<snapshots, times>>
    BY DEF reportVars, vars, tables, posting
  <2> QED
    BY <1>1, <2>2, <2>3, <2>4, <2>5, <2>6, <2>7, ReportStep, SnapshotAppended
<1>2. TypeOK /\ ReportTypeOK /\ [ReportNext]_reportVars =>
        [ \A a \in DOMAIN accounts, time \in 1..MaxClock :
            Settled(time) => BalanceAt(a, time)' = BalanceAt(a, time) ]_reportVars
  BY <1>1
<1> QED
  BY <1>2, ReportTypeCorrect, ReportsKeepLedger, TypeCorrect, PTL DEF ReportSpec, HistorySettles

-----------------------------------------------------------------------------
(* Verdicts.                                                               *)

(* What the entries S of a journal, with the changes w, have done to the   *)
(* account a.                                                              *)
ChangedIn(j, w, a, S) == SumOver(w, {i \in DOMAIN j : j[i].account = a} \cap S)

ChangedBy(a, S) == ChangedIn(journal, Changes, a, S)

LEMMA ChangedByInt ==
  ASSUME TypeOK, NEW a, NEW S
  PROVE  /\ IsFiniteSet(PostedTo(a) \cap S)
         /\ \A i \in PostedTo(a) \cap S : Changes[i] \in Int
         /\ ChangedBy(a, S) \in Int
<1>1. /\ IsFiniteSet(PostedTo(a) \cap S)
      /\ \A i \in PostedTo(a) \cap S : Changes[i] \in Int
  BY ChangesType, FS_Subset DEF PostedTo
<1> QED
  BY <1>1, SumInt DEF ChangedBy, ChangedIn, PostedTo

(* The journal is only ever added to, so what its entries have done stays. *)
LEMMA ChangesStay ==
  ASSUME TypeOK, [Next]_vars
  PROVE  /\ DOMAIN journal \subseteq DOMAIN journal' /\ Len(journal) \in Nat
         /\ Len(journal') \in Nat /\ Len(journal) <= Len(journal')
         /\ \A i \in DOMAIN journal : journal'[i] = journal[i] /\ Changes'[i] = Changes[i]
<1>1. journal \in Seq(Entry) /\ Len(journal) \in Nat
  BY DEF TypeOK
<1>2. CASE UNCHANGED tables
  BY <1>1, <1>2 DEF tables, Changes, Change
<1>3. ASSUME NEW id \in Ids, Opens(id)
      PROVE  journal' = journal /\ Changes' = Changes
  <2>1. journal' = journal /\ \A i \in DOMAIN journal : journal[i].account \in DOMAIN accounts
    BY <1>3 DEF Opens, TypeOK
  <2> QED
    BY <1>3, <2>1 DEF Opens, Changes, Change
<1>4. ASSUME NEW e, Inserts(e)
      PROVE  /\ DOMAIN journal \subseteq DOMAIN journal'
             /\ Len(journal') \in Nat /\ Len(journal) <= Len(journal')
             /\ \A i \in DOMAIN journal : journal'[i] = journal[i] /\ Changes'[i] = Changes[i]
  <2>1. journal' = Append(journal, e)
    BY <1>4 DEF Inserts, Insert
  <2>2. Len(journal') = Len(journal) + 1
    BY <1>1, <2>1
  <2> QED
    BY <1>1, <1>4, <2>2, ChangeAdded
<1> QED
  BY <1>1, <1>2, <1>3, <1>4, TablesStep

LEMMA ChangedByStays ==
  ASSUME TypeOK, [Next]_vars, NEW a, NEW S, S \subseteq DOMAIN journal
  PROVE  ChangedIn(journal', Changes', a, S) = ChangedIn(journal, Changes, a, S)
<1>1. /\ DOMAIN journal \subseteq DOMAIN journal'
      /\ \A i \in DOMAIN journal : journal'[i] = journal[i] /\ Changes'[i] = Changes[i]
  BY ChangesStay
<1> DEFINE mine == {i \in DOMAIN journal : journal[i].account = a} \cap S
<1>2. {i \in DOMAIN journal' : journal'[i].account = a} \cap S = mine
  BY <1>1
<1>3. \A i \in mine : Changes'[i] = Changes[i]
  BY <1>1
<1> HIDE DEF mine
<1>4. SumOver(Changes', mine) = SumOver(Changes, mine)
  BY <1>3, SumSame
<1> QED
  BY <1>2, <1>4 DEF ChangedIn, mine

Compares(r) == r.kind = "balance_consistency" /\ r.verdict # "error"

(* What the verdicts say, and what has been read for the next one.         *)
VerdictInv ==
  /\ \A r \in results : Compares(r) =>
       /\ r.span \subseteq DOMAIN journal
       /\ r.verdict = "valid" <=> ChangedBy(subject, r.span) = 0
  /\ at = "entries" =>
       /\ actual.seen \in Nat /\ actual.seen <= Len(journal)
       /\ actual.balance = ChangedBy(subject, 1..actual.seen)

LEMMA VerdictStep ==
  ASSUME TypeOK, Balanced, ReportTypeOK, VerdictInv, [ReportNext]_reportVars
  PROVE  VerdictInv'
<1>1. /\ DOMAIN journal \subseteq DOMAIN journal' /\ Len(journal) \in Nat
      /\ Len(journal') \in Nat /\ Len(journal) <= Len(journal')
  BY ChangesStay, ReportStepIsLedgerStep
<1>2. DOMAIN journal = 1..Len(journal)
  BY DEF TypeOK
<1>3. CASE UNCHANGED validation
  <2>1. UNCHANGED <<at, subject, actual, results>>
    BY <1>3 DEF validation
  <2>2. ASSUME NEW S, S \subseteq DOMAIN journal
        PROVE  ChangedIn(journal', Changes', subject, S) = ChangedBy(subject, S)
    BY <2>2, ChangedByStays, ReportStepIsLedgerStep DEF ChangedBy
  <2>3. ASSUME NEW r \in results', Compares(r)
        PROVE  /\ r.span \subseteq DOMAIN journal'
               /\ r.verdict = "valid" <=> ChangedIn(journal', Changes', subject, r.span) = 0
    BY <1>1, <2>1, <2>2, <2>3 DEF VerdictInv
  <2>4. ASSUME at' = "entries"
        PROVE  /\ actual.seen \in Nat /\ actual.seen <= Len(journal')
               /\ actual.balance = ChangedIn(journal', Changes', subject, 1..actual.seen)
    <3>1. /\ actual.seen \in Nat /\ actual.seen <= Len(journal)
          /\ actual.balance = ChangedBy(subject, 1..actual.seen)
      BY <2>1, <2>4 DEF VerdictInv
    <3>2. 1..actual.seen \subseteq DOMAIN journal
      BY <1>1, <1>2, <3>1
    <3> QED
      BY <1>1, <2>2, <3>1, <3>2
  <2> QED
    BY <2>1, <2>3, <2>4 DEF VerdictInv, ChangedBy
<1>4. ASSUME UNCHANGED <<vars, posting>>, ReportNext, ~UNCHANGED validation
      PROVE  VerdictInv'
  <2>1. UNCHANGED <<journal, balances, Changes>>
    BY <1>4 DEF vars, tables, Changes, Change
  <2>2. \A a, S : ChangedIn(journal', Changes', a, S) = ChangedBy(a, S)
    BY <2>1 DEF ChangedBy
  <2>3. CASE results' = {} /\ at' = "balance"
    BY <2>3 DEF VerdictInv
  <2>4. CASE results' = {Result("comprehensive", "error", {}, {})} /\ at' = "done"
    BY <2>4 DEF VerdictInv, Compares, Result
  <2>5. CASE ReadBalance
    <3>1. /\ at = "balance" /\ at' = "entries" /\ subject' = subject /\ results' = results
          /\ actual' = [balance |-> balances[subject], seen |-> Len(journal)]
      BY <2>5 DEF ReadBalance, Ask
    <3>2. subject \in DOMAIN balances
      BY <3>1 DEF ReportTypeOK, TypeOK
    <3>3. balances[subject] = ChangedBy(subject, DOMAIN journal)
      <4>1. PostedTo(subject) \cap DOMAIN journal = PostedTo(subject)
        BY DEF PostedTo
      <4> QED
        BY <3>2, <4>1 DEF Balanced, ChangedBy, ChangedIn, PostedTo
    <3> QED
      BY <1>1, <1>2, <2>1, <2>2, <3>1, <3>3 DEF VerdictInv, ChangedBy
  <2>6. CASE ReadEntries
    <3> DEFINE before == 1..actual.seen
               after == actual.seen + 1 .. Len(journal)
               result == Result("balance_consistency",
                                Verdict(actual.balance = ExpectedBalance(subject)), after, {})
    <3>1. /\ at = "entries" /\ at' = "numbers" /\ subject' = subject
          /\ results' = results \cup {result}
      BY <2>6 DEF ReadEntries, Ask, Report
    <3>2. /\ actual.seen \in Nat /\ actual.seen <= Len(journal)
          /\ actual.balance = ChangedBy(subject, before)
      BY <3>1 DEF VerdictInv
    <3>3. after \subseteq DOMAIN journal /\ before \cap after = {} /\ before \cup after = DOMAIN journal
      BY <1>1, <1>2, <3>2
    <3> HIDE DEF before, after
    <3>4. ExpectedBalance(subject) = SumOver(Changes, PostedTo(subject))
      <4>1. PostedTo(subject) \subseteq DOMAIN journal
        BY DEF PostedTo
      <4> QED
        BY <4>1, ChangesSum DEF ExpectedBalance, PostedTo
    <3>5. SumOver(Changes, PostedTo(subject)) = ChangedBy(subject, before) + ChangedBy(subject, after)
      <4>1. PostedTo(subject) = (PostedTo(subject) \cap before) \cup (PostedTo(subject) \cap after)
        BY <3>3 DEF PostedTo
      <4>2. (PostedTo(subject) \cap before) \cap (PostedTo(subject) \cap after) = {}
        BY <3>3
      <4> DEFINE A == PostedTo(subject) \cap before
                 B == PostedTo(subject) \cap after
      <4>3. /\ IsFiniteSet(A) /\ IsFiniteSet(B)
            /\ \A i \in A \cup B : Changes[i] \in Int
        BY ChangedByInt
      <4> HIDE DEF A, B
      <4>4. SumOver(Changes, A \cup B) = SumOver(Changes, A) + SumOver(Changes, B)
        BY <4>2, <4>3, SumUnion DEF A, B
      <4> QED
        BY <4>1, <4>4 DEF A, B, ChangedBy, ChangedIn, PostedTo
    <3>6. ChangedBy(subject, before) \in Int /\ ChangedBy(subject, after) \in Int
      BY ChangedByInt
    <3>7. result.span = after /\ (result.verdict = "valid" <=> ChangedBy(subject, after) = 0)
      <4>1. result.span = after
        BY DEF Result
      <4>2. result.verdict = "valid" <=> actual.balance = ExpectedBalance(subject)
        BY DEF Result, Verdict
      <4> QED
        BY <3>2, <3>4, <3>5, <3>6, <4>1, <4>2
    <3> HIDE DEF result
    <3> QED
      BY <2>1, <2>2, <3>1, <3>3, <3>7 DEF VerdictInv, ChangedBy
  <2> DEFINE Keeps == /\ at' # "entries" /\ subject' = subject
                      /\ \A r \in results' : Compares(r) => r \in results
  <2>7. ASSUME NEW kind, NEW verdict, NEW span, NEW txns, Report(kind, verdict, span, txns),
               kind # "balance_consistency" \/ verdict = "error"
        PROVE  \A r \in results' : Compares(r) => r \in results
    BY <2>7 DEF Report, Result, Compares
  <2>8. ASSUME ReadNumbers \/ ReadTransactions \/ Finish \/ QueryFails \/ \E txn \in Txns : ReadTotals(txn)
        PROVE  VerdictInv'
    <3>1. ReadNumbers => Keeps
      BY <2>7 DEF ReadNumbers, Ask
    <3>2. ReadTransactions \/ Finish => Keeps
      BY DEF ReadTransactions, Finish, Ask
    <3>3. ASSUME NEW txn \in Txns, ReadTotals(txn) PROVE Keeps
      BY <2>7, <3>3 DEF ReadTotals, Ask
    <3>4. QueryFails => Keeps
      BY <2>7 DEF QueryFails, Ask
    <3>5. Keeps
      BY <2>8, <3>1, <3>2, <3>3, <3>4
    <3> QED
      BY <2>1, <2>2, <3>5 DEF VerdictInv, ChangedBy
  <2>9. ASSUME NEW a \in Ids, ComprehensiveValidation(a)
        PROVE  VerdictInv'
    BY <2>3, <2>4, <2>9 DEF ComprehensiveValidation
  <2> QED
    BY <1>4, <2>5, <2>6, <2>8, <2>9 DEF ReportNext, Begin, LedgerStep
<1>5. UNCHANGED reportVars => UNCHANGED validation
  BY DEF reportVars, validation
<1> QED
  BY <1>3, <1>4, <1>5, ReportStep DEF Begin, LedgerStep

(* However postings interleave with the queries of the validator, a        *)
(* balance is found inconsistent exactly when the entries committed        *)
(* between its two queries do not cancel out.                              *)
THEOREM VerdictsExplained ==
  ASSUME "update_account_balance" \in Schema
  PROVE  ReportSpec => []VerdictsAreExplained
<1>1. ReportInit => VerdictInv
  BY DEF ReportInit, VerdictInv
<1>2. TypeOK /\ Balanced /\ ReportTypeOK /\ VerdictInv /\ [ReportNext]_reportVars => VerdictInv'
  BY VerdictStep
<1>3. VerdictInv => VerdictsAreExplained
  <2> SUFFICES ASSUME VerdictInv, NEW r \in results,
                      r.kind = "balance_consistency", r.verdict # "error"
               PROVE  r.verdict = "valid" <=>
                        MapThenSumSet(LAMBDA i : Change(journal[i]),
                                      {i \in r.span : journal[i].account = subject}) = 0
    BY DEF VerdictsAreExplained
  <2> DEFINE S == {i \in r.span : journal[i].account = subject}
  <2>1. r.span \subseteq DOMAIN journal /\ (r.verdict = "valid" <=> ChangedBy(subject, r.span) = 0)
    BY DEF VerdictInv, Compares
  <2>2. S = {i \in DOMAIN journal : journal[i].account = subject} \cap r.span /\ S \subseteq DOMAIN journal
    BY <2>1
  <2>3. MapThenSumSet(LAMBDA i : Change(journal[i]), S) = SumOver(Changes, S)
    BY <2>2, ChangesSum
  <2> QED
    BY <2>1, <2>2, <2>3 DEF ChangedBy, ChangedIn
<1> QED
  BY <1>1, <1>2, <1>3, ReportTypeCorrect, ReportsKeepLedger, TypeCorrect, BalancedAlways, PTL
     DEF ReportSpec

-----------------------------------------------------------------------------
(* Drift.                                                                  *)

(* Each snapshot is that of the entry at its place, with the balance that  *)
(* the entries up to it make.                                              *)
Mirror ==
  /\ Len(snapshots) = Len(journal)
  /\ \A i \in DOMAIN journal :
       /\ snapshots[i].account = journal[i].account
       /\ snapshots[i].change = Changes[i]
       /\ snapshots[i].after = ChangedBy(journal[i].account, 1..i)

LEMMA MirrorStep ==
  ASSUME {"update_account_balance", "create_balance_snapshot"} \subseteq Schema,
         TypeOK, Balanced, Mirror, [Next]_vars
  PROVE  Mirror'
<1>1. journal \in Seq(Entry) /\ Len(journal) \in Nat /\ DOMAIN journal = 1..Len(journal)
  BY DEF TypeOK
<1>2. \A i \in DOMAIN journal : 1..i \subseteq DOMAIN journal
  BY <1>1
<1>3. \A i \in DOMAIN journal :
        /\ journal'[i] = journal[i] /\ Changes'[i] = Changes[i]
        /\ ChangedIn(journal', Changes', journal[i].account, 1..i) = ChangedBy(journal[i].account, 1..i)
  BY <1>2, ChangesStay, ChangedByStays DEF ChangedBy
<1>4. CASE journal' = journal /\ snapshots' = snapshots
  BY <1>3, <1>4 DEF Mirror, ChangedBy
<1>5. ASSUME NEW e, Inserts(e)
      PROVE  Mirror'
  <2> DEFINE n == Len(journal) + 1
             row == [account |-> e.account, before |-> balances[e.account],
                     change |-> Change(e), after |-> balances[e.account] + Change(e)]
  <2>1. /\ n \notin DOMAIN journal
        /\ DOMAIN journal' = DOMAIN journal \cup {n}
        /\ \A i \in DOMAIN journal : journal'[i] = journal[i] /\ Changes'[i] = Changes[i]
        /\ journal'[n] = e /\ Changes'[n] = Change(e)
    BY <1>5, ChangeAdded
  <2>2. /\ Len(journal') = n /\ n \in Nat /\ 1..n = DOMAIN journal \cup {n}
    <3>1. journal' = Append(journal, e)
      BY <1>5 DEF Inserts, Insert
    <3> QED
      BY <1>1, <3>1
  <2>3. /\ Len(snapshots') = n /\ snapshots'[n] = row
        /\ \A i \in DOMAIN journal : snapshots'[i] = snapshots[i]
    <3>1. snapshots' = Append(snapshots, row) /\ snapshots \in Seq(Snapshot)
      BY <1>5 DEF Inserts, Insert, TypeOK
    <3>2. Len(snapshots) = Len(journal)
      BY DEF Mirror
    <3> HIDE DEF row
    <3> QED
      BY <1>1, <3>1, <3>2
  <2>4. /\ e.account \in DOMAIN balances /\ Change(e) \in Int
        /\ balances[e.account] = ChangedBy(e.account, DOMAIN journal)
        /\ balances[e.account] \in Int
    <3>1. e.account \in DOMAIN balances /\ Change(e) \in Int
      BY <1>5, ChangeIsInteger DEF Inserts, Accepted, TypeOK
    <3>2. PostedTo(e.account) \cap DOMAIN journal = PostedTo(e.account)
      BY DEF PostedTo
    <3> QED
      BY <3>1, <3>2 DEF Balanced, TypeOK, ChangedBy, ChangedIn, PostedTo
  <2>5. ChangedIn(journal', Changes', e.account, 1..n) = balances[e.account] + Change(e)
    <3> DEFINE mine == {i \in DOMAIN journal : journal[i].account = e.account}
    <3> HIDE DEF n
    <3>1. {i \in DOMAIN journal' : journal'[i].account = e.account} \cap (1..n) = mine \cup {n}
      BY <2>1, <2>2
    <3>2. IsFiniteSet(mine) /\ n \notin mine /\ \A i \in mine \cup {n} : Changes'[i] \in Int
      <4>1. IsFiniteSet(mine) /\ \A i \in mine : Changes[i] \in Int
        BY ChangesType, FS_Subset
      <4> QED
        BY <2>1, <2>4, <4>1
    <3>3. mine \cap DOMAIN journal = mine
      OBVIOUS
    <3>4. \A i \in mine : Changes'[i] = Changes[i]
      BY <2>1
    <3>5. balances[e.account] = SumOver(Changes, mine)
      BY <2>4, <3>3 DEF ChangedBy, ChangedIn
    <3> HIDE DEF mine
    <3>6. SumOver(Changes', mine \cup {n}) = Changes'[n] + SumOver(Changes', mine)
      BY <3>2, SumWith
    <3>7. SumOver(Changes', mine) = SumOver(Changes, mine)
      BY <3>4, SumSame
    <3>8. ChangedIn(journal', Changes', e.account, 1..n) = SumOver(Changes', mine \cup {n})
      BY <3>1 DEF ChangedIn
    <3> DEFINE before == SumOver(Changes, mine)
               after == SumOver(Changes', mine \cup {n})
    <3>9. after = Change(e) + before
      BY <2>1, <3>6, <3>7
    <3> HIDE DEF before, after
    <3>10. before \in Int /\ before = balances[e.account]
      BY <2>4, <3>5 DEF before
    <3> QED
      BY <2>4, <3>8, <3>9, <3>10 DEF after
  <2>6. ASSUME NEW i \in DOMAIN journal'
        PROVE  /\ snapshots'[i].account = journal'[i].account
               /\ snapshots'[i].change = Changes'[i]
               /\ snapshots'[i].after = ChangedIn(journal', Changes', journal'[i].account, 1..i)
    <3> HIDE DEF n
    <3>1. CASE i = n
      BY <2>1, <2>3, <2>5, <3>1
    <3>2. CASE i \in DOMAIN journal
      BY <1>3, <2>3, <3>2 DEF Mirror
    <3> QED
      BY <2>1, <3>1, <3>2
  <2> QED
    BY <2>2, <2>3, <2>6 DEF Mirror, ChangedBy
<1> QED
  BY <1>4, <1>5, TablesStep DEF tables, Opens

LEMMA SnapshotsOfIs ==
  ASSUME TypeOK, Mirror
  PROVE  \A a : SnapshotsOf(a) = PostedTo(a)
<1>1. DOMAIN snapshots = DOMAIN journal
  BY DEF TypeOK, Mirror
<1> QED
  BY <1>1 DEF Mirror, SnapshotsOf, PostedTo

LEMMA AllSnapshotsSum ==
  ASSUME TypeOK, Balanced, Mirror, NEW a \in DOMAIN accounts
  PROVE  ChangeOver(snapshots, SnapshotsOf(a)) = balances[a]
<1> DEFINE S == PostedTo(a)
<1>1. S \subseteq DOMAIN journal /\ \A i \in S : snapshots[i].change = Changes[i]
  BY DEF PostedTo, Mirror
<1>2. balances[a] = SumOver(Changes, S)
  BY DEF Balanced, TypeOK
<1> HIDE DEF S
<1>3. SumOver([i \in S |-> snapshots[i].change], S) = SumOver(Changes, S)
  BY <1>1, SumSame
<1>4. SnapshotsOf(a) = S
  BY SnapshotsOfIs DEF S
<1> QED
  BY <1>2, <1>3, <1>4, ChangeOverIsSum

LEMMA SeqItems ==
  ASSUME NEW T, NEW s \in Seq(T)
  PROVE  DOMAIN s = 1..Len(s) /\ \A i \in 1..Len(s) : s[i] \in T
OBVIOUS

(* The drift function's largest balance.                                   *)
LEMMA LargestBalance ==
  ASSUME TypeOK, ReportTypeOK, Balanced, Mirror, NEW a \in DOMAIN accounts
  PROVE  /\ DriftActual(a, clock) \in Int
         /\ DriftActual(a, clock) >= balances[a]
         /\ DriftActual(a, clock) > balances[a] <=>
              \E i \in PostedTo(a) : ChangedBy(a, 1..i) > balances[a]
<1> DEFINE S == PostedTo(a)
           after(i) == ChangedBy(a, 1..i)
           Afters == {snapshots[i].after : i \in S}
<1>1. /\ Len(journal) \in Nat /\ DOMAIN journal = 1..Len(journal)
      /\ S \subseteq DOMAIN journal /\ IsFiniteSet(S)
      /\ balances[a] \in Int
  BY ChangesType, FS_Subset DEF TypeOK, PostedTo
<1>2. \A i \in S : snapshots[i].after = after(i) /\ after(i) \in Int
  BY ChangedByInt DEF Mirror, PostedTo
<1>3. {i \in SnapshotsOf(a) : times[i] <= clock} = S
  <2>1. SnapshotsOf(a) = S
    BY SnapshotsOfIs
  <2>2. \A i \in S : times[i] \in 1..clock
    <3>1. times \in Seq(1..clock) /\ Len(times) = Len(journal)
      BY DEF ReportTypeOK, Mirror
    <3>2. \A i \in 1..Len(journal) : times[i] \in 1..clock
      BY <3>1, SeqItems
    <3> QED
      BY <1>1, <3>2
  <2>3. clock \in Nat
    BY ReportsAssumption DEF ReportTypeOK
  <2> HIDE DEF S
  <2> QED
    BY <2>1, <2>2, <2>3
<1>4. DriftActual(a, clock) = IF S = {} THEN 0 ELSE Max(Afters)
  BY <1>3 DEF DriftActual
<1>5. CASE S = {}
  <2>1. balances[a] = SumOver(Changes, S)
    BY DEF Balanced, TypeOK
  <2>2. SumOver(Changes, S) = 0
    <3> HIDE DEF S
    <3>1. S = {} => SumOver(Changes, S) = 0
      BY <1>1, SumStep
    <3> QED
      BY <1>5, <3>1
  <2> QED
    BY <1>4, <1>5, <2>1, <2>2
<1>6. CASE S # {}
  <2>1. PICK m \in S : \A i \in S : m >= i
    <3> DEFINE w == [i \in S |-> i]
    <3>1. \A i \in S : w[i] \in Int /\ w[i] = i
      BY <1>1
    <3> HIDE DEF S, w
    <3>2. \E m \in S : \A i \in S : w[m] >= w[i]
      BY <1>1, <1>6, <3>1, Greatest
    <3> QED
      BY <3>1, <3>2
  <2>2. after(m) = balances[a]
    <3>1. PostedTo(a) \cap (1..m) = PostedTo(a)
      BY <1>1, <2>1
    <3>2. balances[a] = SumOver(Changes, PostedTo(a))
      BY DEF Balanced, TypeOK
    <3> QED
      BY <3>1, <3>2 DEF ChangedBy, ChangedIn, PostedTo
  <2>3. PICK k \in S : \A i \in S : after(k) >= after(i)
    <3> DEFINE w == [i \in S |-> after(i)]
    <3>1. \A i \in S : w[i] \in Int /\ w[i] = after(i)
      BY <1>2
    <3> HIDE DEF S, w, after
    <3>2. \E x \in S : \A y \in S : w[x] >= w[y]
      BY <1>1, <1>6, <3>1, Greatest
    <3> QED
      BY <3>1, <3>2
  <2> HIDE DEF S, after
  <2>4. Max(Afters) \in Afters /\ \A v \in Afters : Max(Afters) >= v
    <3>1. after(k) \in Afters /\ \A v \in Afters : after(k) >= v
      BY <1>2, <2>3
    <3> HIDE DEF Afters
    <3> QED
      BY <3>1 DEF Max
  <2>5. PICK j \in S : Max(Afters) = after(j)
    BY <1>2, <2>4
  <2>6. \A i \in S : Max(Afters) >= after(i) /\ after(i) \in Int
    BY <1>2, <2>4
  <2> HIDE DEF Afters
  <2>7. /\ Max(Afters) \in Int /\ Max(Afters) >= balances[a]
        /\ Max(Afters) > balances[a] <=> \E i \in S : after(i) > balances[a]
    BY <1>1, <2>1, <2>2, <2>5, <2>6
  <2> QED
    BY <1>4, <1>6, <2>7 DEF S, after
<1> QED
  BY <1>5, <1>6

(* Whatever is posted and in whatever order it commits, all balances that  *)
(* the reporting functions know of now agree, and a drift since the first  *)
(* snapshot is only that an account has once held more.                    *)
THEOREM DriftOnlyFalls ==
  ASSUME {"update_account_balance", "create_balance_snapshot"} \subseteq Schema
  PROVE  ReportSpec => []DriftTellsOfFalls
<1>1. Init => Mirror
  BY DEF Init, Mirror
<1>2. TypeOK /\ Balanced /\ Mirror /\ [Next]_vars => Mirror'
  BY MirrorStep
<1>3. TypeOK /\ ReportTypeOK /\ Balanced /\ Mirror => DriftTellsOfFalls
  <2> SUFFICES ASSUME TypeOK, ReportTypeOK, Balanced, Mirror, NEW a \in DOMAIN accounts
               PROVE  /\ BalanceAt(a, clock) = balances[a]
                      /\ validate_balance_consistency(a)
                      /\ Drift(a, 1, clock) # 0 <=>
                           \E i \in DOMAIN journal : /\ journal[i].account = a
                                                     /\ BalanceAfterEntry(a, i) > balances[a]
    BY DEF DriftTellsOfFalls
  <2>1. \A i \in SnapshotsOf(a) : times[i] \in 1..clock
    <3>1. /\ times \in Seq(1..clock) /\ Len(times) = Len(snapshots)
          /\ snapshots \in Seq(Snapshot)
      BY DEF ReportTypeOK, TypeOK
    <3>2. DOMAIN snapshots = 1..Len(times) /\ \A i \in 1..Len(times) : times[i] \in 1..clock
      BY <3>1, SeqItems
    <3> QED
      BY <3>2 DEF SnapshotsOf
  <2>2. clock \in Nat
    BY ReportsAssumption DEF ReportTypeOK
  <2>3. /\ {i \in SnapshotsOf(a) : times[i] <= clock} = SnapshotsOf(a)
        /\ {i \in SnapshotsOf(a) : times[i] \in 1..clock} = SnapshotsOf(a)
    BY <2>1, <2>2
  <2>4. ChangeOver(snapshots, SnapshotsOf(a)) = balances[a] /\ balances[a] \in Int
    BY AllSnapshotsSum DEF TypeOK
  <2>5. /\ BalanceAt(a, clock) = ChangeOver(snapshots, {i \in SnapshotsOf(a) : times[i] <= clock})
        /\ DriftExpected(a, 1, clock) =
             ChangeOver(snapshots, {i \in SnapshotsOf(a) : times[i] \in 1..clock})
        /\ validate_balance_consistency(a) <=> ChangeOver(snapshots, SnapshotsOf(a)) = balances[a]
    BY DEF BalanceAt, DriftExpected, validate_balance_consistency, ChangeOver,
           MapThenSumSet, MapThenFoldSet
  <2>6. Drift(a, 1, clock) # 0 <=> \E i \in PostedTo(a) : ChangedBy(a, 1..i) > balances[a]
    <3>1. Drift(a, 1, clock) = DriftActual(a, clock) - balances[a]
      BY <2>3, <2>4, <2>5 DEF Drift
    <3> QED
      BY <2>4, <3>1, LargestBalance
  <2>7. ASSUME NEW i \in DOMAIN journal
        PROVE  BalanceAfterEntry(a, i) = ChangedBy(a, 1..i)
    <3> DEFINE S == {k \in 1..i : journal[k].account = a}
    <3>1. journal \in Seq(Entry)
      BY DEF TypeOK
    <3>2. 1..i \subseteq DOMAIN journal
      BY <3>1
    <3>3. S \subseteq DOMAIN journal /\ S = {k \in DOMAIN journal : journal[k].account = a} \cap (1..i)
      BY <3>2
    <3>4. MapThenSumSet(LAMBDA k : Change(journal[k]), S) = SumOver(Changes, S)
      BY <3>3, ChangesSum
    <3> QED
      BY <3>3, <3>4 DEF BalanceAfterEntry, ChangedBy, ChangedIn
  <2> QED
    BY <2>3, <2>4, <2>5, <2>6, <2>7 DEF PostedTo
<1>4. Spec => []Balanced
  BY BalancedAlways
<1>5. Spec => []Mirror
  BY <1>1, <1>2, <1>4, TypeCorrect, PTL DEF Spec
<1> QED
  BY <1>3, <1>4, <1>5, ReportTypeCorrect, ReportsKeepLedger, TypeCorrect, PTL

-----------------------------------------------------------------------------
(* The overdraft check.                                                    *)

(* Whatever the clients have posted, the check never warns of an entry     *)
(* that the ledger would refuse: no balance that it may not overdraw is    *)
(* below zero, so an entry that the check finds to take too much is one    *)
(* that adds at least as much as there is.                                 *)
THEOREM OverdraftAlarms == ReportSpec => []OverdraftAlarmsAreFalse
<1>1. TypeOK /\ NoOverdraft => OverdraftAlarmsAreFalse
  <2> SUFFICES ASSUME TypeOK, NoOverdraft, NEW a \in DOMAIN accounts, NEW amount \in Amounts,
                      NEW type \in {"debit", "credit"},
                      ValidateOverdraftPrevention(a, amount, type) = "invalid"
               PROVE  ~BalanceRaises([account |-> a, amount |-> amount, type |-> type])
    BY DEF OverdraftAlarmsAreFalse
  <2> DEFINE e == [account |-> a, amount |-> amount, type |-> type]
  <2>1. balances[a] \in Int /\ amount \in Int /\ a \in DOMAIN balances
    BY LedgerAssumption DEF TypeOK
  <2>2. Change(e) \in Int /\ balances[a] - Change(e) < 0
    <3>1. Change(e) = IF (type = "debit") <=> (accounts[a].type \in DebitNormal)
                      THEN amount ELSE -amount
      BY DEF Change
    <3>2. CASE accounts[a].type \in DebitNormal
      BY <2>1, <3>1, <3>2 DEF ValidateOverdraftPrevention, Verdict
    <3>3. CASE accounts[a].type \notin DebitNormal
      BY <2>1, <3>1, <3>3 DEF ValidateOverdraftPrevention, Verdict
    <3> QED
      BY <3>2, <3>3
  <2>3. e.account = a
    OBVIOUS
  <2> HIDE DEF e
  <2>4. "account_balances_chk" \in Schema \/ accounts[a].type # "expense" =>
          Change(e) >= 0 /\ balances[a] + Change(e) >= 0
    BY <2>1, <2>2 DEF NoOverdraft
  <2>5. ~BalanceRaises(e)
    BY <2>1, <2>2, <2>3, <2>4 DEF BalanceRaises
  <2> QED
    BY <2>5 DEF e
<1> QED
  BY <1>1, ReportsKeepLedger, TypeCorrect, NeverOverdrawn, PTL

=============================================================================
