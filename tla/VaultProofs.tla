---------------------------- MODULE VaultProofs ----------------------------
(***************************************************************************)
(* Proofs about Vault, for any calls, tokens, keys and failures, and about *)
(* the card numbers of Tokenizer.                                          *)
(*                                                                         *)
(* The inductive invariant adds to the types what the KMS and the locks of *)
(* SQLite guarantee: Sealing, that a master key in memory is of this       *)
(* lifetime and is there when a row of this lifetime is; Locks, that while *)
(* a rotation reads, or has rewritten a row, the rows it has read are      *)
(* still what the table holds; Opened, that it rewrites only what it could *)
(* open; and Fresh, that an insert meets no card of its token.             *)
(***************************************************************************)
EXTENDS Vault, Tokenizer, Sums, TLAPS

Sound(row) == row.master <= lifetime /\ (row.master = lifetime => keys[row.key] = lifetime)

Sealing ==
  /\ \A k \in KeyIds : keys[k] \in {0, lifetime}
  /\ \A t \in DOMAIN cards : Sound(cards[t])
  /\ \A c \in Calls : \A t \in DOMAIN source[c] : Sound(source[c][t])
  /\ \A c \in Calls : pc[c] = "insert" => keys[TestKey] = lifetime
  /\ \A c \in Calls : done[c] # {} => keys[job[c][2]] = lifetime

Rewriting(c) == done[c] # {}

Agrees(c) == \A t \in DOMAIN source[c] : t \in DOMAIN cards /\ source[c][t] = cards[t]

Locks ==
  /\ \A c \in Calls : c \in readers <=> pc[c] = "rows"
  /\ \A c \in Calls : Rewriting(c) => writer = c /\ pc[c] \in {"rows", "commit"}
  /\ \A c \in Calls : c \in readers \/ Rewriting(c) => Agrees(c)

(* A rotation rewrites only cards that it could open.                      *)
Opened ==
  \A c \in Calls : \A t \in done[c] : source[c][t].master = lifetime

(* Two calls never insert the same card, nor one that is there.            *)
Fresh ==
  \A c \in Calls :
    pc[c] = "insert" =>
      /\ job[c][1] \notin DOMAIN cards
      /\ \A d \in Calls : pc[d] = "insert" /\ job[d] = job[c] => d = c

Inv == TypeOK /\ Sealing /\ Locks /\ Opened /\ Fresh

-----------------------------------------------------------------------------
(* Tables.                                                                 *)

LEMMA InTable ==
  ASSUME NEW f, DOMAIN f \subseteq Tokens, f \in [DOMAIN f -> Row]
  PROVE  f \in Table
BY DEF Table

LEMMA OfTable ==
  ASSUME NEW f \in Table
  PROVE  DOMAIN f \subseteq Tokens /\ f \in [DOMAIN f -> Row]
BY DEF Table

LEMMA NoRowsInTable == NoRows \in Table
<1>1. NoRows \in [{} -> Row]
  BY DEF NoRows
<1> QED BY <1>1 DEF Table

-----------------------------------------------------------------------------
(* Type correctness.                                                       *)

LEMMA InitTypes == ASSUME Init PROVE TypeOK
<1> USE VaultAssumption, NoRowsInTable DEF Init, TypeOK
<1>1. cards \in Table /\ source \in [Calls -> Table]
  OBVIOUS
<1>2. lifetime \in 1..MaxLifetime
  OBVIOUS
<1> QED BY <1>1, <1>2

LEMMA GenerateTypes ==
  ASSUME TypeOK, NEW k \in KeyIds, GenerateDataKey(k) \/ PersistFails(k) \/ UNCHANGED kms
  PROVE  keys' \in [KeyIds -> 0..MaxLifetime] /\ files' \in [KeyIds -> 0..MaxLifetime]
<1>1. lifetime \in 0..MaxLifetime /\ 0 \in 0..MaxLifetime
  BY VaultAssumption DEF TypeOK
<1>2. CASE GenerateDataKey(k)
  BY <1>1, <1>2 DEF TypeOK, GenerateDataKey, kms
<1>3. CASE PersistFails(k)
  BY <1>1, <1>3 DEF TypeOK, PersistFails
<1>4. CASE UNCHANGED kms
  BY <1>4 DEF TypeOK, kms
<1> QED BY <1>2, <1>3, <1>4

(* A call that ends leaves nothing behind.                                 *)
LEMMA EndTypes ==
  ASSUME TypeOK, NEW c \in Calls, End(c),
         keys' \in [KeyIds -> 0..MaxLifetime], files' \in [KeyIds -> 0..MaxLifetime],
         cards' \in Table
  PROVE  TypeOK'
<1>1. source' \in [Calls -> Table]
  BY NoRowsInTable DEF End, TypeOK
<1>2. /\ readers' \subseteq Calls
      /\ writer' \in Calls \cup {Nobody}
      /\ lifetime' \in 1..MaxLifetime
  BY DEF End, Free, TypeOK
<1>3. /\ pc' \in [Calls -> {"idle", "insert", "decrypt", "query", "rows", "commit"}]
      /\ done' \in [Calls -> SUBSET Tokens]
  BY DEF End, TypeOK
<1>4. job' \in [Calls -> {<<>>} \cup {<<t>> : t \in Tokens} \cup (KeyIds \X KeyIds)]
  BY DEF End, TypeOK
<1>5. ASSUME NEW d \in Calls
      PROVE  /\ pc'[d] \in {"insert", "decrypt"} => job'[d] \in {<<t>> : t \in Tokens}
             /\ pc'[d] \in {"query", "rows", "commit"} => job'[d] \in KeyIds \X KeyIds
             /\ done'[d] \subseteq DOMAIN source'[d]
             /\ pc'[d] \notin {"rows", "commit"} => done'[d] = {}
  <2>1. CASE d = c
    BY <2>1 DEF End, TypeOK
  <2>2. CASE d # c
    BY <2>2 DEF End, TypeOK
  <2> QED BY <2>1, <2>2
<1> QED BY <1>1, <1>2, <1>3, <1>4, <1>5 DEF TypeOK

(* A call begins with what it is about.                                    *)
LEMMA StartTypes ==
  ASSUME TypeOK, NEW c \in Calls, NEW step, NEW args, Start(c, step, args),
         \/ step \in {"insert", "decrypt"} /\ args \in {<<t>> : t \in Tokens}
         \/ step = "query" /\ args \in KeyIds \X KeyIds,
         keys' \in [KeyIds -> 0..MaxLifetime], files' \in [KeyIds -> 0..MaxLifetime],
         NEW S \in Table, source' = source \/ source' = [source EXCEPT ![c] = S]
  PROVE  TypeOK'
<1>1. /\ source' \in [Calls -> Table]
      /\ cards' \in Table /\ readers' \subseteq Calls /\ writer' \in Calls \cup {Nobody}
      /\ lifetime' \in 1..MaxLifetime
  BY DEF Start, TypeOK, database
<1>2. /\ pc' \in [Calls -> {"idle", "insert", "decrypt", "query", "rows", "commit"}]
      /\ done' \in [Calls -> SUBSET Tokens]
  BY DEF Start, TypeOK
<1>3. job' \in [Calls -> {<<>>} \cup {<<t>> : t \in Tokens} \cup (KeyIds \X KeyIds)]
  BY DEF Start, TypeOK
<1>4. ASSUME NEW d \in Calls
      PROVE  /\ pc'[d] \in {"insert", "decrypt"} => job'[d] \in {<<t>> : t \in Tokens}
             /\ pc'[d] \in {"query", "rows", "commit"} => job'[d] \in KeyIds \X KeyIds
             /\ done'[d] \subseteq DOMAIN source'[d]
             /\ pc'[d] \notin {"rows", "commit"} => done'[d] = {}
  <2>1. CASE d = c
    BY <2>1 DEF Start, TypeOK
  <2>2. CASE d # c
    BY <2>2 DEF Start, TypeOK
  <2> QED BY <2>1, <2>2
<1> QED BY <1>1, <1>2, <1>3, <1>4 DEF TypeOK

(* The steps of a rotation that end nothing.                               *)
LEMMA RotationTypes ==
  ASSUME TypeOK, NEW c \in Calls,
         \/ OpenRows(c)
         \/ \E t \in Tokens : UpdateCard(c, t)
         \/ CloseRows(c)
  PROVE  TypeOK'
<1> USE DEF TypeOK
<1>1. CASE OpenRows(c)
  <2> DEFINE S == {u \in DOMAIN cards : cards[u].key = job[c][1]}
  <2>1. [t \in S |-> cards[t]] \in Table
    <3>1. DOMAIN cards \subseteq Tokens /\ cards \in [DOMAIN cards -> Row]
      BY OfTable
    <3>2. S \subseteq Tokens /\ [t \in S |-> cards[t]] \in [S -> Row]
      BY <3>1
    <3> QED BY <3>2 DEF Table
  <2>2. source' \in [Calls -> Table]
    BY <1>1, <2>1 DEF OpenRows
  <2>3. ASSUME NEW d \in Calls
        PROVE  /\ pc'[d] \in {"insert", "decrypt"} => job'[d] \in {<<t>> : t \in Tokens}
               /\ pc'[d] \in {"query", "rows", "commit"} => job'[d] \in KeyIds \X KeyIds
               /\ done'[d] \subseteq DOMAIN source'[d]
               /\ pc'[d] \notin {"rows", "commit"} => done'[d] = {}
    <3>1. CASE d = c
      BY <1>1, <3>1 DEF OpenRows
    <3>2. CASE d # c
      BY <1>1, <3>2 DEF OpenRows
    <3> QED BY <3>1, <3>2
  <2> QED BY <1>1, <2>2, <2>3 DEF OpenRows, kms
<1>2. ASSUME NEW t \in Tokens, UpdateCard(c, t)
      PROVE  TypeOK'
  <2>1. job[c] \in KeyIds \X KeyIds
    BY <1>2 DEF UpdateCard
  <2>2. keys' \in [KeyIds -> 0..MaxLifetime] /\ files' \in [KeyIds -> 0..MaxLifetime]
    BY <1>2, <2>1, GenerateTypes DEF UpdateCard
  <2>3. done' \in [Calls -> SUBSET Tokens] /\ writer' \in Calls \cup {Nobody}
    BY <1>2 DEF UpdateCard
  <2>4. ASSUME NEW d \in Calls
        PROVE  /\ done'[d] \subseteq DOMAIN source'[d]
               /\ pc'[d] \notin {"rows", "commit"} => done'[d] = {}
    BY <1>2 DEF UpdateCard
  <2> QED BY <1>2, <2>2, <2>3, <2>4 DEF UpdateCard
<1>3. CASE CloseRows(c)
  <2>1. pc' \in [Calls -> {"idle", "insert", "decrypt", "query", "rows", "commit"}]
    BY <1>3 DEF CloseRows
  <2>2. ASSUME NEW d \in Calls
        PROVE  /\ pc'[d] \in {"insert", "decrypt"} => job'[d] \in {<<t>> : t \in Tokens}
               /\ pc'[d] \in {"query", "rows", "commit"} => job'[d] \in KeyIds \X KeyIds
               /\ done'[d] \subseteq DOMAIN source'[d]
               /\ pc'[d] \notin {"rows", "commit"} => done'[d] = {}
    BY <1>3 DEF CloseRows
  <2> QED BY <1>3, <2>1, <2>2 DEF CloseRows, kms
<1> QED BY <1>1, <1>2, <1>3

LEMMA StepTypes ==
  ASSUME TypeOK, [Next]_vars
  PROVE  TypeOK'
<1>1. TestKey \in KeyIds
  BY VaultAssumption
<1>2. UNCHANGED kms => /\ keys' \in [KeyIds -> 0..MaxLifetime]
                       /\ files' \in [KeyIds -> 0..MaxLifetime]
  BY DEF TypeOK, kms
<1>3. ASSUME NEW c \in Calls, NEW t \in Tokens, StoreCard(c, t)
      PROVE  TypeOK'
  <2>1. Start(c, "insert", <<t>>) /\ source' = source
    BY <1>3 DEF StoreCard
  <2>2. keys' \in [KeyIds -> 0..MaxLifetime] /\ files' \in [KeyIds -> 0..MaxLifetime]
    BY <1>1, <1>3, GenerateTypes DEF StoreCard
  <2> QED BY <2>1, <2>2, NoRowsInTable, StartTypes
<1>4. ASSUME NEW c \in Calls, NEW t \in Tokens, RetrieveCard(c, t)
      PROVE  TypeOK'
  <2> DEFINE S == [u \in {t} |-> cards[u]]
  <2>1. S \in Table
    <3>1. cards[t] \in Row
      BY <1>4, OfTable DEF RetrieveCard, TypeOK
    <3>2. S \in [{t} -> Row]
      BY <3>1
    <3> QED BY <3>2 DEF Table
  <2>2. Start(c, "decrypt", <<t>>) /\ source' = [source EXCEPT ![c] = S]
    BY <1>4 DEF RetrieveCard
  <2> HIDE DEF S
  <2> QED BY <1>2, <1>4, <2>1, <2>2, StartTypes DEF RetrieveCard
<1>5. ASSUME NEW c \in Calls, StoreCardFails(c)
      PROVE  TypeOK'
  <2>1. keys' \in [KeyIds -> 0..MaxLifetime] /\ files' \in [KeyIds -> 0..MaxLifetime]
    BY <1>1, <1>5, GenerateTypes DEF StoreCardFails
  <2> QED BY <1>5, <2>1 DEF StoreCardFails, TypeOK, database, calls
<1>6. ASSUME NEW c \in Calls, NEW old \in KeyIds, NEW new \in KeyIds, RotateKey(c, old, new)
      PROVE  TypeOK'
  <2>1. Start(c, "query", <<old, new>>) /\ source' = source
    BY <1>6 DEF RotateKey
  <2> QED BY <1>2, <1>6, <2>1, NoRowsInTable, StartTypes DEF RotateKey
<1>7. ASSUME NEW c \in Calls, InsertCard(c)
      PROVE  TypeOK'
  <2>1. PICK t \in Tokens : job[c] = <<t>>
    BY <1>7 DEF InsertCard, TypeOK
  <2>2. Sealed(TestKey) \in Row
    BY <1>1 DEF Sealed, Row, TypeOK
  <2>3. DOMAIN cards \subseteq Tokens /\ cards \in [DOMAIN cards -> Row]
    BY OfTable DEF TypeOK
  <2>4. cards' \in [DOMAIN cards \cup {t} -> Row]
    BY <1>7, <2>1, <2>2, <2>3 DEF InsertCard
  <2>5. cards' \in Table
    BY <2>3, <2>4 DEF Table
  <2> QED BY <1>2, <1>7, <2>5, EndTypes DEF InsertCard
<1>8. ASSUME NEW c \in Calls, Commit(c)
      PROVE  TypeOK'
  <2>1. Sealed(job[c][2]) \in Row
    BY <1>8 DEF Commit, Sealed, Row, TypeOK
  <2>2. DOMAIN cards \subseteq Tokens /\ cards \in [DOMAIN cards -> Row]
    BY OfTable DEF TypeOK
  <2>3. cards' \in [DOMAIN cards -> Row]
    BY <1>8, <2>1, <2>2 DEF Commit
  <2>4. cards' \in Table
    BY <2>2, <2>3 DEF Table
  <2> QED BY <1>2, <1>8, <2>4, EndTypes DEF Commit
<1>9. ASSUME NEW c \in Calls, DecryptCard(c) \/ RotationFails(c) \/ DatabaseLocked(c)
      PROVE  TypeOK'
  <2>1. /\ End(c)
        /\ cards' = cards
        /\ \/ UNCHANGED kms
           \/ pc[c] = "rows" /\ (GenerateDataKey(job[c][2]) \/ PersistFails(job[c][2]))
    BY <1>9 DEF DecryptCard, RotationFails, DatabaseLocked
  <2>2. keys' \in [KeyIds -> 0..MaxLifetime] /\ files' \in [KeyIds -> 0..MaxLifetime]
    <3>1. CASE UNCHANGED kms
      BY <1>2, <3>1
    <3>2. CASE pc[c] = "rows" /\ (GenerateDataKey(job[c][2]) \/ PersistFails(job[c][2]))
      <4>1. job[c][2] \in KeyIds
        BY <3>2 DEF TypeOK
      <4> QED BY <3>2, <4>1, GenerateTypes
    <3> QED BY <2>1, <3>1, <3>2
  <2>3. cards' \in Table
    BY <2>1 DEF TypeOK
  <2> QED BY <2>1, <2>2, <2>3, EndTypes
<1>10. CASE Restart
  <2>1. source' \in [Calls -> Table]
    BY <1>10, NoRowsInTable DEF Restart
  <2>2. lifetime' \in 1..MaxLifetime
    BY <1>10, VaultAssumption DEF Restart, TypeOK
  <2>3. keys' \in [KeyIds -> 0..MaxLifetime]
    BY <1>10, VaultAssumption DEF Restart
  <2> QED BY <1>10, <2>1, <2>2, <2>3 DEF Restart, TypeOK
<1>11. CASE UNCHANGED vars
  BY <1>11 DEF vars, kms, database, calls, TypeOK
<1> QED BY <1>3, <1>4, <1>5, <1>6, <1>7, <1>8, <1>9, <1>10, <1>11, RotationTypes
        DEF Next, Step, Continue

(* Every reachable state of the vault has its types.                       *)
THEOREM TypeCorrect == Spec => []TypeOK
<1>1. Init => TypeOK
  BY InitTypes
<1>2. TypeOK /\ [Next]_vars => TypeOK'
  BY StepTypes
<1> QED BY <1>1, <1>2, PTL DEF Spec

-----------------------------------------------------------------------------
(* Sealing.                                                                *)

(* The keys in memory stay, and a key that is added is of this lifetime.   *)
KeysKept ==
  /\ lifetime' = lifetime
  /\ \A k \in KeyIds : keys'[k] \in {0, lifetime} /\ (keys[k] = lifetime => keys'[k] = lifetime)

LEMMA GenerateKeeps ==
  ASSUME TypeOK, Sealing, lifetime' = lifetime, NEW k \in KeyIds,
         GenerateDataKey(k) \/ PersistFails(k) \/ UNCHANGED kms
  PROVE  KeysKept /\ (GenerateDataKey(k) => keys'[k] = lifetime)
<1> USE DEF TypeOK, Sealing, KeysKept
<1>1. CASE GenerateDataKey(k)
  <2>1. CASE keys[k] # 0
    BY <1>1, <2>1 DEF GenerateDataKey, kms
  <2>2. CASE keys[k] = 0
    BY <1>1, <2>2 DEF GenerateDataKey
  <2> QED BY <2>1, <2>2
<1>2. CASE PersistFails(k)
  <2>1. keys' = [keys EXCEPT ![k] = lifetime]
    BY <1>2 DEF PersistFails
  <2>2. ~GenerateDataKey(k) \/ keys'[k] = lifetime
    BY <2>1
  <2> QED BY <2>1, <2>2
<1>3. CASE UNCHANGED kms
  <2>1. GenerateDataKey(k) => keys'[k] = lifetime
    BY <1>3 DEF GenerateDataKey, kms
  <2> QED BY <1>3, <2>1 DEF kms
<1> QED BY <1>1, <1>2, <1>3

(* Rows come from where sound rows are, or are sealed with a key in memory. *)
LEMMA SealingKept ==
  ASSUME TypeOK, TypeOK', Sealing, KeysKept,
         \A t \in DOMAIN cards' :
           \/ t \in DOMAIN cards /\ cards'[t] = cards[t]
           \/ cards'[t].master = lifetime /\ keys'[cards'[t].key] = lifetime,
         \A c \in Calls : \A t \in DOMAIN source'[c] :
           \/ t \in DOMAIN source[c] /\ source'[c][t] = source[c][t]
           \/ t \in DOMAIN cards /\ source'[c][t] = cards[t],
         \A c \in Calls : pc'[c] = "insert" => pc[c] = "insert" \/ keys'[TestKey] = lifetime,
         \A c \in Calls : done'[c] # {} =>
           \/ done[c] # {} /\ job'[c] = job[c]
           \/ keys'[job'[c][2]] = lifetime
  PROVE  Sealing'
<1>1. ASSUME NEW row \in Row, Sound(row)
      PROVE  Sound(row)'
  BY <1>1 DEF KeysKept, Sound, Row, TypeOK
<1>3. \A t \in DOMAIN cards : cards[t] \in Row /\ Sound(cards[t])
  BY OfTable DEF TypeOK, Sealing
<1>4. \A c \in Calls : \A t \in DOMAIN source[c] : source[c][t] \in Row /\ Sound(source[c][t])
  BY OfTable DEF TypeOK, Sealing
<1>5. ASSUME NEW t \in DOMAIN cards'
      PROVE  Sound(cards[t])'
  <2>1. CASE t \in DOMAIN cards /\ cards'[t] = cards[t]
    BY <1>1, <1>3, <2>1 DEF Sound
  <2>2. CASE cards'[t].master = lifetime /\ keys'[cards'[t].key] = lifetime
    BY <2>2 DEF Sound, KeysKept, TypeOK
  <2> QED BY <2>1, <2>2
<1>6. ASSUME NEW c \in Calls, NEW t \in DOMAIN source'[c]
      PROVE  Sound(source[c][t])'
  <2>1. CASE t \in DOMAIN source[c] /\ source'[c][t] = source[c][t]
    BY <1>1, <1>4, <2>1 DEF Sound
  <2>2. CASE t \in DOMAIN cards /\ source'[c][t] = cards[t]
    BY <1>1, <1>3, <2>2 DEF Sound
  <2> QED BY <2>1, <2>2
<1>7. \A k \in KeyIds : keys'[k] \in {0, lifetime'}
  BY DEF KeysKept
<1>8. ASSUME NEW c \in Calls, pc'[c] = "insert"
      PROVE  keys'[TestKey] = lifetime'
  BY <1>8, VaultAssumption DEF Sealing, KeysKept
<1>9. ASSUME NEW c \in Calls, done'[c] # {}
      PROVE  keys'[job'[c][2]] = lifetime'
  <2>1. job'[c] \in KeyIds \X KeyIds
    BY <1>9 DEF TypeOK
  <2> QED BY <1>9, <2>1 DEF Sealing, KeysKept
<1> QED BY <1>5, <1>6, <1>7, <1>8, <1>9 DEF Sealing

LEMMA StepSealing ==
  ASSUME TypeOK, TypeOK', Sealing, [Next]_vars
  PROVE  Sealing'
<1>1. TestKey \in KeyIds
  BY VaultAssumption
<1>2. ASSUME NEW c \in Calls, NEW t \in Tokens, StoreCard(c, t)
      PROVE  Sealing'
  <2>1. /\ lifetime' = lifetime /\ cards' = cards /\ source' = source
        /\ done' = done /\ job' = [job EXCEPT ![c] = <<t>>] /\ pc[c] = "idle"
    BY <1>2 DEF StoreCard, Start, database
  <2>2. KeysKept /\ keys'[TestKey] = lifetime
    BY <1>1, <1>2, <2>1, GenerateKeeps DEF StoreCard
  <2>3. \A d \in Calls : done'[d] # {} => done[d] # {} /\ job'[d] = job[d]
    BY <2>1 DEF TypeOK
  <2> QED BY <2>1, <2>2, <2>3, SealingKept
<1>3. ASSUME NEW c \in Calls, NEW t \in Tokens, RetrieveCard(c, t)
      PROVE  Sealing'
  <2>1. /\ lifetime' = lifetime /\ cards' = cards /\ done' = done /\ pc[c] = "idle"
        /\ job' = [job EXCEPT ![c] = <<t>>] /\ pc' = [pc EXCEPT ![c] = "decrypt"]
        /\ t \in DOMAIN cards
        /\ source' = [source EXCEPT ![c] = [u \in {t} |-> cards[u]]]
    BY <1>3 DEF RetrieveCard, Start, database
  <2>2. KeysKept
    BY <1>1, <1>3, <2>1, GenerateKeeps DEF RetrieveCard
  <2>3. \A d \in Calls : done'[d] # {} => done[d] # {} /\ job'[d] = job[d]
    BY <2>1 DEF TypeOK
  <2>4. \A d \in Calls : pc'[d] = "insert" => pc[d] = "insert"
    BY <2>1 DEF TypeOK
  <2>5. \A d \in Calls : \A u \in DOMAIN source'[d] :
          \/ u \in DOMAIN source[d] /\ source'[d][u] = source[d][u]
          \/ u \in DOMAIN cards /\ source'[d][u] = cards[u]
    BY <2>1 DEF TypeOK
  <2> QED BY <2>1, <2>2, <2>3, <2>4, <2>5, SealingKept
<1>4. ASSUME NEW c \in Calls, StoreCardFails(c)
      PROVE  Sealing'
  <2>1. UNCHANGED <<lifetime, cards, source, done, job, pc>>
    BY <1>4 DEF StoreCardFails, database, calls
  <2>2. KeysKept
    BY <1>1, <1>4, <2>1, GenerateKeeps DEF StoreCardFails
  <2> QED BY <2>1, <2>2, SealingKept
<1>5. ASSUME NEW c \in Calls, NEW old \in KeyIds, NEW new \in KeyIds, RotateKey(c, old, new)
      PROVE  Sealing'
  <2>1. /\ lifetime' = lifetime /\ cards' = cards /\ source' = source /\ done' = done
        /\ job' = [job EXCEPT ![c] = <<old, new>>] /\ pc[c] = "idle"
        /\ pc' = [pc EXCEPT ![c] = "query"]
    BY <1>5 DEF RotateKey, Start, database
  <2>2. KeysKept
    BY <1>1, <1>5, <2>1, GenerateKeeps DEF RotateKey
  <2>3. \A d \in Calls : done'[d] # {} => done[d] # {} /\ job'[d] = job[d]
    BY <2>1 DEF TypeOK
  <2>4. \A d \in Calls : pc'[d] = "insert" => pc[d] = "insert"
    BY <2>1 DEF TypeOK
  <2> QED BY <2>1, <2>2, <2>3, <2>4, SealingKept
<1>6. ASSUME NEW c \in Calls, End(c), KeysKept,
             \A t \in DOMAIN cards' :
               \/ t \in DOMAIN cards /\ cards'[t] = cards[t]
               \/ cards'[t].master = lifetime /\ keys'[cards'[t].key] = lifetime
      PROVE  Sealing'
  <2>1. \A d \in Calls : done'[d] # {} => done[d] # {} /\ job'[d] = job[d]
    BY <1>6 DEF End, TypeOK
  <2>2. \A d \in Calls : pc'[d] = "insert" => pc[d] = "insert"
    BY <1>6 DEF End, TypeOK
  <2>3. \A d \in Calls : \A u \in DOMAIN source'[d] :
          u \in DOMAIN source[d] /\ source'[d][u] = source[d][u]
    <3> SUFFICES ASSUME NEW d \in Calls, NEW u \in DOMAIN source'[d]
                 PROVE  u \in DOMAIN source[d] /\ source'[d][u] = source[d][u]
      OBVIOUS
    <3>1. d # c
      BY <1>6 DEF End, TypeOK, NoRows
    <3> QED BY <1>6, <3>1 DEF End, TypeOK
  <2> QED BY <1>6, <2>1, <2>2, <2>3, SealingKept
<1>7. ASSUME NEW c \in Calls, InsertCard(c)
      PROVE  Sealing'
  <2>1. lifetime' = lifetime /\ keys' = keys
    BY <1>7 DEF InsertCard, End, kms
  <2>2. KeysKept /\ keys[TestKey] = lifetime
    BY <1>1, <1>7, <2>1, GenerateKeeps DEF InsertCard, Sealing
  <2>3. \A t \in DOMAIN cards' :
          \/ t \in DOMAIN cards /\ cards'[t] = cards[t]
          \/ cards'[t].master = lifetime /\ keys'[cards'[t].key] = lifetime
    BY <1>7, <2>1, <2>2 DEF InsertCard, Sealed
  <2> QED BY <1>6, <1>7, <2>2, <2>3 DEF InsertCard
<1>8. ASSUME NEW c \in Calls, Commit(c)
      PROVE  Sealing'
  <2>1. lifetime' = lifetime /\ keys' = keys
    BY <1>8 DEF Commit, End, kms
  <2>2. KeysKept
    BY <1>1, <1>8, <2>1, GenerateKeeps DEF Commit
  <2>3. ASSUME NEW t \in DOMAIN cards'
        PROVE  \/ t \in DOMAIN cards /\ cards'[t] = cards[t]
               \/ cards'[t].master = lifetime /\ keys'[cards'[t].key] = lifetime
    <3>1. CASE t \in done[c]
      <4>1. keys[job[c][2]] = lifetime
        BY <3>1 DEF Sealing
      <4>2. cards'[t] = Sealed(job[c][2])
        BY <1>8, <3>1, <2>3 DEF Commit
      <4> QED BY <2>1, <4>1, <4>2 DEF Sealed
    <3>2. CASE t \notin done[c]
      BY <1>8, <2>3, <3>2 DEF Commit
    <3> QED BY <3>1, <3>2
  <2> QED BY <1>6, <1>8, <2>2, <2>3 DEF Commit
<1>9. ASSUME NEW c \in Calls, DecryptCard(c) \/ RotationFails(c) \/ DatabaseLocked(c)
      PROVE  Sealing'
  <2>1. /\ End(c) /\ cards' = cards /\ lifetime' = lifetime
        /\ \/ UNCHANGED kms
           \/ pc[c] = "rows" /\ (GenerateDataKey(job[c][2]) \/ PersistFails(job[c][2]))
    BY <1>9 DEF DecryptCard, RotationFails, DatabaseLocked, End
  <2>2. KeysKept
    <3>1. CASE UNCHANGED kms
      BY <1>1, <2>1, <3>1, GenerateKeeps
    <3>2. CASE pc[c] = "rows" /\ (GenerateDataKey(job[c][2]) \/ PersistFails(job[c][2]))
      <4>1. job[c][2] \in KeyIds
        BY <3>2 DEF TypeOK
      <4> QED BY <2>1, <3>2, <4>1, GenerateKeeps
    <3> QED BY <2>1, <3>1, <3>2
  <2> QED BY <1>6, <2>1, <2>2
<1>10. ASSUME NEW c \in Calls, OpenRows(c)
       PROVE  Sealing'
  <2>1. UNCHANGED <<lifetime, cards, job, done, kms>>
    BY <1>10 DEF OpenRows
  <2>2. KeysKept
    BY <1>1, <2>1, GenerateKeeps
  <2>3. \A d \in Calls : pc'[d] = "insert" => pc[d] = "insert"
    BY <1>10 DEF OpenRows, TypeOK
  <2>4. \A d \in Calls : \A u \in DOMAIN source'[d] :
          \/ u \in DOMAIN source[d] /\ source'[d][u] = source[d][u]
          \/ u \in DOMAIN cards /\ source'[d][u] = cards[u]
    BY <1>10 DEF OpenRows, TypeOK
  <2> QED BY <2>1, <2>2, <2>3, <2>4, SealingKept
<1>11. ASSUME NEW c \in Calls, NEW t \in Tokens, UpdateCard(c, t)
       PROVE  Sealing'
  <2>1. /\ UNCHANGED <<lifetime, cards, pc, job, source>>
        /\ done' = [done EXCEPT ![c] = @ \cup {t}]
        /\ GenerateDataKey(job[c][2]) /\ job[c][2] \in KeyIds
    BY <1>11 DEF UpdateCard, TypeOK
  <2>2. KeysKept /\ keys'[job[c][2]] = lifetime
    BY <2>1, GenerateKeeps
  <2>3. \A d \in Calls : done'[d] # {} =>
          \/ done[d] # {} /\ job'[d] = job[d]
          \/ keys'[job'[d][2]] = lifetime
    BY <2>1, <2>2 DEF TypeOK
  <2> QED BY <2>1, <2>2, <2>3, SealingKept
<1>12. ASSUME NEW c \in Calls, CloseRows(c)
       PROVE  Sealing'
  <2>1. UNCHANGED <<lifetime, kms, cards, job, source, done>>
    BY <1>12 DEF CloseRows
  <2>2. KeysKept
    BY <1>1, <2>1, GenerateKeeps
  <2>3. \A d \in Calls : pc'[d] = "insert" => pc[d] = "insert"
    BY <1>12 DEF CloseRows, TypeOK
  <2> QED BY <2>1, <2>2, <2>3, SealingKept
<1>13. CASE Restart
  <2>1. \A t \in DOMAIN cards' : Sound(cards[t])'
    <3> SUFFICES ASSUME NEW t \in DOMAIN cards
                 PROVE  Sound(cards[t])'
      BY <1>13 DEF Restart
    <3>1. cards[t] \in Row /\ cards[t].master <= lifetime
      BY OfTable DEF TypeOK, Sealing, Sound
    <3>2. cards[t].master \in Nat /\ lifetime \in Nat
      BY <3>1 DEF Row, TypeOK
    <3> QED BY <1>13, <3>1, <3>2 DEF Restart, Sound
  <2> QED BY <1>1, <1>13, <2>1 DEF Restart, Sealing, NoRows
<1>14. CASE UNCHANGED vars
  <2>1. UNCHANGED <<lifetime, keys, cards, source, pc, job, done>>
    BY <1>14 DEF vars, kms, database, calls
  <2> QED BY <2>1 DEF Sealing, Sound
<1> QED BY <1>2, <1>3, <1>4, <1>5, <1>7, <1>8, <1>9, <1>10, <1>11, <1>12, <1>13, <1>14
        DEF Next, Step, Continue

-----------------------------------------------------------------------------
(* Locks.                                                                  *)

(* The end of a call disturbs no other, if it leaves the cards alone or    *)
(* nobody else is reading or rewriting them.                               *)
LEMMA EndLocks ==
  ASSUME TypeOK, Locks, NEW c \in Calls, End(c),
         \/ cards' = cards
         \/ \A d \in Calls \ {c} : d \notin readers /\ ~Rewriting(d)
  PROVE  Locks'
<1>1. ASSUME NEW d \in Calls
      PROVE  /\ d \in readers' <=> pc'[d] = "rows"
             /\ Rewriting(d)' => writer' = d /\ pc'[d] \in {"rows", "commit"}
             /\ d \in readers' \/ Rewriting(d)' => Agrees(d)'
  <2>1. CASE d = c
    BY <2>1 DEF End, Free, TypeOK, Rewriting
  <2>2. CASE d # c
    <3>1. /\ pc'[d] = pc[d] /\ done'[d] = done[d] /\ source'[d] = source[d]
          /\ d \in readers' <=> d \in readers
      BY <2>2 DEF End, Free, TypeOK
    <3>2. Rewriting(d) => writer' = writer
      BY <2>2 DEF End, Free, Locks
    <3>3. d \in readers \/ Rewriting(d) => Agrees(d)'
      BY <2>2, <3>1 DEF Locks, Agrees
    <3> QED BY <3>1, <3>2, <3>3 DEF Locks, Rewriting
  <2> QED BY <2>1, <2>2
<1> QED BY <1>1 DEF Locks

(* A call that begins reads and rewrites nothing yet.                      *)
LEMMA StartLocks ==
  ASSUME TypeOK, Locks, NEW c \in Calls, NEW args,
         NEW step \in {"insert", "decrypt", "query"}, Start(c, step, args),
         NEW S, source' = source \/ source' = [source EXCEPT ![c] = S]
  PROVE  Locks'
<1>1. ASSUME NEW d \in Calls
      PROVE  /\ d \in readers' <=> pc'[d] = "rows"
             /\ Rewriting(d)' => writer' = d /\ pc'[d] \in {"rows", "commit"}
             /\ d \in readers' \/ Rewriting(d)' => Agrees(d)'
  <2>1. UNCHANGED <<cards, readers, writer, done>> /\ pc[c] = "idle"
    BY DEF Start, database
  <2>2. CASE d = c
    BY <2>1, <2>2 DEF Start, TypeOK, Rewriting, Locks
  <2>3. CASE d # c
    <3>1. pc'[d] = pc[d] /\ source'[d] = source[d]
      BY <2>3 DEF Start, TypeOK
    <3> QED BY <2>1, <3>1 DEF Locks, Rewriting, Agrees
  <2> QED BY <2>2, <2>3
<1> QED BY <1>1 DEF Locks

LEMMA StepLocks ==
  ASSUME TypeOK, Locks, [Next]_vars
  PROVE  Locks'
<1>1. ASSUME NEW c \in Calls, NEW t \in Tokens, StoreCard(c, t) \/ RetrieveCard(c, t)
      PROVE  Locks'
  <2>1. PICK step \in {"insert", "decrypt"} : Start(c, step, <<t>>)
    BY <1>1 DEF StoreCard, RetrieveCard
  <2>2. source' = source \/ source' = [source EXCEPT ![c] = [u \in {t} |-> cards[u]]]
    BY <1>1 DEF StoreCard, RetrieveCard
  <2> QED BY <2>1, <2>2, StartLocks
<1>2. ASSUME NEW c \in Calls, NEW old \in KeyIds, NEW new \in KeyIds, RotateKey(c, old, new)
      PROVE  Locks'
  BY <1>2, StartLocks DEF RotateKey
<1>3. ASSUME NEW c \in Calls, InsertCard(c)
      PROVE  Locks'
  <2>1. \A d \in Calls : d \notin readers /\ ~Rewriting(d)
    BY <1>3, VaultAssumption DEF InsertCard, Locks
  <2> QED BY <1>3, <2>1, EndLocks DEF InsertCard
<1>4. ASSUME NEW c \in Calls, DecryptCard(c) \/ RotationFails(c) \/ DatabaseLocked(c)
      PROVE  Locks'
  <2>1. End(c) /\ cards' = cards
    BY <1>4 DEF DecryptCard, RotationFails, DatabaseLocked
  <2> QED BY <2>1, EndLocks
<1>5. ASSUME NEW c \in Calls, Commit(c)
      PROVE  Locks'
  <2>1. CASE done[c] = {}
    <3>1. DOMAIN cards' = DOMAIN cards /\ \A t \in DOMAIN cards : cards'[t] = cards[t]
      BY <1>5, <2>1 DEF Commit
    <3>2. cards \in [DOMAIN cards -> Row] /\ cards' = [t \in DOMAIN cards |-> cards[t]]
      BY <1>5, <2>1, OfTable DEF Commit, TypeOK
    <3>3. cards' = cards
      BY <3>2
    <3> QED BY <1>5, <3>3, EndLocks DEF Commit
  <2>2. CASE done[c] # {}
    <3>1. \A d \in Calls \ {c} : d \notin readers /\ ~Rewriting(d)
      BY <1>5, <2>2 DEF Commit, Locks, Rewriting
    <3> QED BY <1>5, <3>1, EndLocks DEF Commit
  <2> QED BY <2>1, <2>2
<1>6. ASSUME NEW c \in Calls, OpenRows(c)
      PROVE  Locks'
  <2>1. /\ UNCHANGED <<cards, writer, done>> /\ pc[c] = "query"
        /\ pc' = [pc EXCEPT ![c] = "rows"] /\ readers' = readers \cup {c}
        /\ source' = [source EXCEPT ![c] =
             [t \in {u \in DOMAIN cards : cards[u].key = job[c][1]} |-> cards[t]]]
    BY <1>6 DEF OpenRows
  <2>2. ASSUME NEW d \in Calls
        PROVE  /\ d \in readers' <=> pc'[d] = "rows"
               /\ Rewriting(d)' => writer' = d /\ pc'[d] \in {"rows", "commit"}
               /\ d \in readers' \/ Rewriting(d)' => Agrees(d)'
    <3>1. CASE d = c
      <4>1. Agrees(c)'
        BY <2>1 DEF Agrees, TypeOK
      <4> QED BY <2>1, <3>1, <4>1 DEF Locks, Rewriting, TypeOK
    <3>2. CASE d # c
      <4>1. pc'[d] = pc[d] /\ source'[d] = source[d] /\ (d \in readers' <=> d \in readers)
        BY <2>1, <3>2 DEF TypeOK
      <4> QED BY <2>1, <4>1 DEF Locks, Rewriting, Agrees
    <3> QED BY <3>1, <3>2
  <2> QED BY <2>2 DEF Locks
<1>7. ASSUME NEW c \in Calls, NEW t \in Tokens, UpdateCard(c, t)
      PROVE  Locks'
  <2>1. /\ UNCHANGED <<cards, readers, pc, source>> /\ pc[c] = "rows"
        /\ writer \in {Nobody, c} /\ writer' = c
        /\ done' = [done EXCEPT ![c] = @ \cup {t}]
    BY <1>7 DEF UpdateCard
  <2>2. ASSUME NEW d \in Calls
        PROVE  /\ d \in readers' <=> pc'[d] = "rows"
               /\ Rewriting(d)' => writer' = d /\ pc'[d] \in {"rows", "commit"}
               /\ d \in readers' \/ Rewriting(d)' => Agrees(d)'
    <3>1. CASE d = c
      BY <2>1, <3>1 DEF Locks, Agrees
    <3>2. CASE d # c
      <4>1. ~Rewriting(d)
        BY <2>1, <3>2, VaultAssumption DEF Locks
      <4>2. ~Rewriting(d)'
        BY <2>1, <3>2, <4>1 DEF Rewriting, TypeOK
      <4> QED BY <2>1, <4>2 DEF Locks, Agrees
    <3> QED BY <3>1, <3>2
  <2> QED BY <2>2 DEF Locks
<1>8. ASSUME NEW c \in Calls, CloseRows(c)
      PROVE  Locks'
  <2>1. /\ UNCHANGED <<cards, writer, source, done>> /\ pc[c] = "rows"
        /\ pc' = [pc EXCEPT ![c] = "commit"] /\ readers' = readers \ {c}
    BY <1>8 DEF CloseRows
  <2>2. ASSUME NEW d \in Calls
        PROVE  /\ d \in readers' <=> pc'[d] = "rows"
               /\ Rewriting(d)' => writer' = d /\ pc'[d] \in {"rows", "commit"}
               /\ d \in readers' \/ Rewriting(d)' => Agrees(d)'
    <3>1. CASE d = c
      BY <2>1, <3>1 DEF Locks, Rewriting, Agrees, TypeOK
    <3>2. CASE d # c
      BY <2>1, <3>2 DEF Locks, Rewriting, Agrees, TypeOK
    <3> QED BY <3>1, <3>2
  <2> QED BY <2>2 DEF Locks
<1>9. CASE Restart
  BY <1>9 DEF Restart, Locks, Rewriting
<1>10. ASSUME UNCHANGED <<database, calls>>
       PROVE  Locks'
  BY <1>10 DEF database, calls, Locks, Rewriting, Agrees
<1>11. ASSUME NEW c \in Calls, StoreCardFails(c)
       PROVE  Locks'
  BY <1>10, <1>11 DEF StoreCardFails
<1>12. CASE UNCHANGED vars
  BY <1>10, <1>12 DEF vars
<1> QED BY <1>1, <1>2, <1>3, <1>4, <1>5, <1>6, <1>7, <1>8, <1>9, <1>11, <1>12
        DEF Next, Step, Continue

-----------------------------------------------------------------------------
(* Rewritten cards.                                                        *)

LEMMA StepOpened ==
  ASSUME TypeOK, TypeOK', Sealing, Opened, [Next]_vars
  PROVE  Opened'
<1>1. ASSUME lifetime' = lifetime,
             \A c \in Calls : \A t \in done'[c] :
               source'[c] = source[c] /\ (t \in done[c] \/ source[c][t].master = lifetime)
      PROVE  Opened'
  BY <1>1 DEF Opened
<1>2. ASSUME NEW c \in Calls, End(c)
      PROVE  Opened'
  <2>1. \A d \in Calls : \A t \in done'[d] : source'[d] = source[d] /\ t \in done[d]
    BY <1>2 DEF End, TypeOK
  <2> QED BY <1>1, <1>2, <2>1 DEF End
<1>3. ASSUME NEW c \in Calls, NEW t \in Tokens,
             StoreCard(c, t) \/ RetrieveCard(c, t) \/ StoreCardFails(c)
      PROVE  Opened'
  <2>1. lifetime' = lifetime /\ done' = done /\ pc[c] = "idle"
    BY <1>3 DEF StoreCard, RetrieveCard, StoreCardFails, Start, calls
  <2>2. \A d \in Calls \ {c} : source'[d] = source[d]
    BY <1>3 DEF StoreCard, RetrieveCard, StoreCardFails, calls, TypeOK
  <2>3. done[c] = {}
    BY <2>1 DEF TypeOK
  <2> QED BY <1>1, <2>1, <2>2, <2>3
<1>4. ASSUME NEW c \in Calls, StoreCardFails(c)
      PROVE  Opened'
  BY <1>4 DEF StoreCardFails, calls, Opened
<1>5. ASSUME NEW c \in Calls, NEW old \in KeyIds, NEW new \in KeyIds, RotateKey(c, old, new)
      PROVE  Opened'
  BY <1>5 DEF RotateKey, Start, Opened
<1>6. ASSUME NEW c \in Calls, OpenRows(c)
      PROVE  Opened'
  <2>1. lifetime' = lifetime /\ done' = done /\ done[c] = {}
    BY <1>6 DEF OpenRows, TypeOK
  <2>2. \A d \in Calls \ {c} : source'[d] = source[d]
    BY <1>6 DEF OpenRows, TypeOK
  <2> QED BY <1>1, <2>1, <2>2
<1>7. ASSUME NEW c \in Calls, NEW t \in Tokens, UpdateCard(c, t)
      PROVE  Opened'
  <2>1. source[c][t] \in Row
    BY <1>7, OfTable DEF UpdateCard, TypeOK
  <2>2. keys[source[c][t].key] = source[c][t].master /\ source[c][t].key \in KeyIds
    BY <1>7, <2>1 DEF UpdateCard, Opens, Row
  <2>3. source[c][t].master # 0
    BY <2>1 DEF Row
  <2>4. source[c][t].master = lifetime
    BY <2>2, <2>3 DEF Sealing
  <2>5. \A d \in Calls : \A u \in done'[d] : u \in done[d] \/ (d = c /\ u = t)
    BY <1>7 DEF UpdateCard, TypeOK
  <2> QED BY <1>1, <1>7, <2>4, <2>5 DEF UpdateCard
<1>8. ASSUME NEW c \in Calls, CloseRows(c)
      PROVE  Opened'
  BY <1>8 DEF CloseRows, Opened
<1>9. CASE Restart
  BY <1>9 DEF Restart, Opened
<1>10. CASE UNCHANGED vars
  BY <1>10 DEF vars, calls, Opened
<1> QED BY <1>2, <1>3, <1>4, <1>5, <1>6, <1>7, <1>8, <1>9, <1>10
        DEF Next, Step, Continue, InsertCard, DecryptCard, RotationFails, Commit, DatabaseLocked

-----------------------------------------------------------------------------
(* New cards.                                                              *)

LEMMA StepFresh ==
  ASSUME TypeOK, Fresh, [Next]_vars
  PROVE  Fresh'
<1>1. ASSUME DOMAIN cards' = DOMAIN cards,
             \A c \in Calls : pc'[c] = "insert" => pc[c] = "insert" /\ job'[c] = job[c]
      PROVE  Fresh'
  BY <1>1 DEF Fresh
<1>2. ASSUME NEW c \in Calls, End(c), DOMAIN cards' = DOMAIN cards
      PROVE  Fresh'
  <2>1. \A d \in Calls : pc'[d] = "insert" => pc[d] = "insert" /\ job'[d] = job[d]
    BY <1>2 DEF End, TypeOK
  <2> QED BY <1>1, <1>2, <2>1
<1>3. ASSUME NEW c \in Calls, NEW t \in Tokens, StoreCard(c, t)
      PROVE  Fresh'
  <2>1. /\ t \notin DOMAIN cards /\ cards' = cards
        /\ \A d \in Calls : job[d] # <<t>>
        /\ pc' = [pc EXCEPT ![c] = "insert"] /\ job' = [job EXCEPT ![c] = <<t>>]
    BY <1>3 DEF StoreCard, Start, database
  <2>2. \A d \in Calls \ {c} : pc'[d] = pc[d] /\ job'[d] = job[d]
    BY <2>1 DEF TypeOK
  <2>3. job'[c] = <<t>>
    BY <2>1 DEF TypeOK
  <2> QED BY <2>1, <2>2, <2>3 DEF Fresh
<1>4. ASSUME NEW c \in Calls, InsertCard(c)
      PROVE  Fresh'
  <2>1. PICK t \in Tokens : job[c] = <<t>>
    BY <1>4 DEF InsertCard, TypeOK
  <2>2. DOMAIN cards' = DOMAIN cards \cup {t} /\ pc[c] = "insert"
    BY <1>4, <2>1 DEF InsertCard
  <2>3. ASSUME NEW d \in Calls, pc'[d] = "insert"
        PROVE  d # c /\ pc[d] = "insert" /\ job'[d] = job[d]
    BY <1>4, <2>3 DEF InsertCard, End, TypeOK
  <2>4. ASSUME NEW d \in Calls, pc'[d] = "insert"
        PROVE  job'[d][1] \notin DOMAIN cards'
    <3>1. PICK u \in Tokens : job[d] = <<u>>
      BY <2>3, <2>4 DEF TypeOK
    <3>2. u # t
      BY <2>1, <2>2, <2>3, <2>4, <3>1 DEF Fresh
    <3> QED BY <2>2, <2>3, <2>4, <3>1, <3>2 DEF Fresh
  <2> QED BY <2>3, <2>4 DEF Fresh
<1>5. ASSUME NEW c \in Calls, NEW args, NEW step \in {"decrypt", "query"}, Start(c, step, args)
      PROVE  Fresh'
  <2>1. \A d \in Calls : pc'[d] = "insert" => pc[d] = "insert" /\ job'[d] = job[d]
    BY <1>5 DEF Start, TypeOK
  <2> QED BY <1>1, <1>5, <2>1 DEF Start, database
<1>6. ASSUME NEW c \in Calls, OpenRows(c) \/ CloseRows(c)
      PROVE  Fresh'
  <2>1. \A d \in Calls : pc'[d] = "insert" => pc[d] = "insert" /\ job'[d] = job[d]
    BY <1>6 DEF OpenRows, CloseRows, TypeOK
  <2> QED BY <1>1, <1>6, <2>1 DEF OpenRows, CloseRows
<1>7. ASSUME UNCHANGED <<cards, pc, job>>
      PROVE  Fresh'
  BY <1>7 DEF Fresh
<1>8. CASE Restart
  BY <1>8 DEF Restart, Fresh
<1> QED BY <1>2, <1>3, <1>4, <1>5, <1>6, <1>7, <1>8
        DEF Next, Step, Continue, RetrieveCard, RotateKey, StoreCardFails, UpdateCard,
            DecryptCard, RotationFails, Commit, DatabaseLocked, vars, database, calls

-----------------------------------------------------------------------------
(* The invariant.                                                          *)

LEMMA InitInv == ASSUME Init PROVE Inv
<1>1. TypeOK
  BY InitTypes
<1>2. Sealing /\ Locks /\ Opened /\ Fresh
  BY DEF Init, Sealing, Locks, Rewriting, Opened, Fresh, NoRows
<1> QED BY <1>1, <1>2 DEF Inv

LEMMA StepInv == ASSUME Inv, [Next]_vars PROVE Inv'
<1>1. TypeOK'
  BY StepTypes DEF Inv
<1> QED BY <1>1, StepSealing, StepLocks, StepOpened, StepFresh DEF Inv

LEMMA Invariance == Spec => []Inv
<1>1. Init => Inv
  BY InitInv
<1>2. Inv /\ [Next]_vars => Inv'
  BY StepInv
<1> QED BY <1>1, <1>2, PTL DEF Spec

(* A card, and a row that a call has read, opens exactly in the lifetime   *)
(* that sealed it last, whatever rotations, failures and restarts do.      *)
THEOREM CardsOpen == Spec => []CardsOpenInTheirLifetime
<1>1. ASSUME Inv, NEW row \in Row, Sound(row)
      PROVE  Opens(row) <=> row.master = lifetime
  <2>1. keys[row.key] \in {0, lifetime} /\ row.master # 0
    BY <1>1 DEF Inv, Sealing, Row
  <2> QED BY <1>1, <2>1 DEF Opens, Sound
<1>2. Inv => CardsOpenInTheirLifetime
  <2> SUFFICES ASSUME Inv PROVE CardsOpenInTheirLifetime
    OBVIOUS
  <2>1. \A t \in DOMAIN cards : cards[t] \in Row /\ Sound(cards[t])
    BY OfTable DEF Inv, TypeOK, Sealing
  <2>2. \A c \in Calls : \A t \in DOMAIN source[c] : source[c][t] \in Row /\ Sound(source[c][t])
    BY OfTable DEF Inv, TypeOK, Sealing
  <2> QED BY <1>1, <2>1, <2>2 DEF CardsOpenInTheirLifetime
<1> QED BY <1>2, Invariance, PTL

(* A step that changes a card is the commit of a rotation which still has  *)
(* that card as it read it, and which could open it.                       *)
LEMMA OnlyRotations ==
  ASSUME Inv, [Next]_vars, NEW t \in DOMAIN cards, cards'[t] # cards[t]
  PROVE  \E c \in Calls : /\ writer = c /\ t \in DOMAIN source[c]
                          /\ source[c][t] = cards[t] /\ cards[t].master = lifetime
<1>1. PICK c \in Calls : InsertCard(c) \/ Commit(c)
  BY DEF Next, Step, Continue, StoreCard, RetrieveCard, StoreCardFails, RotateKey, Start,
         OpenRows, UpdateCard, DecryptCard, RotationFails, CloseRows, DatabaseLocked,
         Restart, vars, database
<1>2. ~InsertCard(c)
  BY DEF InsertCard, Inv, Fresh
<1>3. t \in done[c]
  BY <1>1, <1>2 DEF Commit
<1>4. writer = c /\ Agrees(c)
  BY <1>3 DEF Inv, Locks, Rewriting
<1>5. t \in DOMAIN source[c] /\ source[c][t].master = lifetime
  BY <1>3 DEF Inv, TypeOK, Opened
<1> QED BY <1>4, <1>5 DEF Agrees

(* No rotation writes over what another call has committed since it read.  *)
THEOREM NoRotationLost == Spec => NoLostUpdate
<1>1. Inv /\ [Next]_vars =>
        [ \A t \in DOMAIN cards :
            cards'[t] # cards[t] =>
              /\ writer \in Calls
              /\ t \in DOMAIN source[writer]
              /\ source[writer][t] = cards[t] ]_vars
  BY OnlyRotations
<1> QED BY <1>1, Invariance, PTL DEF Spec, NoLostUpdate

(* A card that an earlier lifetime sealed stays as it is for good.         *)
THEOREM OldCards == Spec => OldCardsStay
<1>1. Inv /\ [Next]_vars =>
        [ \A t \in DOMAIN cards :
            cards[t].master < lifetime => cards'[t] = cards[t] ]_vars
  <2> SUFFICES ASSUME Inv, [Next]_vars, NEW t \in DOMAIN cards,
                      cards[t].master < lifetime, cards'[t] # cards[t]
               PROVE  FALSE
    OBVIOUS
  <2>1. cards[t].master = lifetime
    BY OnlyRotations
  <2> QED BY <2>1 DEF Inv, TypeOK
<1> QED BY <1>1, Invariance, PTL DEF Spec, OldCardsStay

-----------------------------------------------------------------------------
(* Calls come to an end.                                                   *)

StageOf == [insert |-> 1, decrypt |-> 1, query |-> 1, rows |-> 2, commit |-> 3]

(* What a step of a call in progress may do: end it, bring it to a later   *)
(* stage, or rewrite one more of the rows that a rotation has read.        *)
Nearer(c) ==
  \/ pc'[c] = "idle"
  \/ /\ pc'[c] # "idle" /\ StageOf[pc'[c]] > StageOf[pc[c]]
     /\ job'[c] = job[c]
  \/ /\ pc[c] = "rows" /\ pc'[c] = "rows"
     /\ job'[c] = job[c] /\ source'[c] = source[c]
     /\ \E t \in DOMAIN source[c] \ done[c] : done'[c] = done[c] \cup {t}

LEMMA StepNearer ==
  ASSUME TypeOK, NEW c \in Calls, Step(c), pc[c] # "idle"
  PROVE  Nearer(c)
<1>1. CASE InsertCard(c) \/ DecryptCard(c) \/ RotationFails(c) \/ Commit(c) \/ DatabaseLocked(c)
  BY <1>1 DEF InsertCard, DecryptCard, RotationFails, Commit, DatabaseLocked, End, Nearer, TypeOK
<1>2. CASE OpenRows(c) \/ CloseRows(c)
  BY <1>2 DEF OpenRows, CloseRows, Nearer, StageOf, TypeOK
<1>3. ASSUME NEW t \in Tokens, UpdateCard(c, t)
      PROVE  Nearer(c)
  BY <1>3 DEF UpdateCard, Nearer, TypeOK
<1> QED
  BY <1>1, <1>2, <1>3
     DEF Step, Continue, StoreCard, RetrieveCard, StoreCardFails, RotateKey, Start

(* The step of one call does not touch another.                            *)
LEMMA OthersUntouched ==
  ASSUME TypeOK, NEW c \in Calls, NEW d \in Calls \ {c}, Step(d)
  PROVE  pc'[c] = pc[c] /\ job'[c] = job[c] /\ source'[c] = source[c] /\ done'[c] = done[c]
<1>1. CASE End(d)
  BY <1>1 DEF End, TypeOK
<1>2. CASE \E t \in Tokens : StoreCard(d, t) \/ RetrieveCard(d, t)
  BY <1>2 DEF StoreCard, RetrieveCard, Start, TypeOK
<1>3. CASE \E old, new \in KeyIds : RotateKey(d, old, new)
  BY <1>3 DEF RotateKey, Start, TypeOK
<1>4. CASE OpenRows(d) \/ CloseRows(d) \/ \E t \in Tokens : UpdateCard(d, t)
  BY <1>4 DEF OpenRows, CloseRows, UpdateCard, TypeOK
<1>5. CASE StoreCardFails(d)
  BY <1>5 DEF StoreCardFails, calls
<1> QED
  BY <1>1, <1>2, <1>3, <1>4, <1>5
     DEF Step, Continue, InsertCard, DecryptCard, RotationFails, Commit, DatabaseLocked

(* Every step of a call in progress brings it nearer to its end, and only  *)
(* the end of the process touches it otherwise: a rotation rewrites each   *)
(* row that it has read at most once and never begins again, however often *)
(* it meets the locks of others.                                           *)
CallsGetOn ==
  [][ \A c \in Calls : pc[c] # "idle" =>
        IF Step(c) THEN Nearer(c)
        ELSE \/ pc'[c] = "idle" /\ Restart
             \/ UNCHANGED <<pc[c], job[c], source[c], done[c]>> ]_vars

THEOREM CallsEnd == Spec => CallsGetOn
<1> DEFINE GetOn == \A c \in Calls : pc[c] # "idle" =>
                      IF Step(c) THEN Nearer(c)
                      ELSE \/ pc'[c] = "idle" /\ Restart
                           \/ UNCHANGED <<pc[c], job[c], source[c], done[c]>>
<1>1. TypeOK /\ [Next]_vars => GetOn
  <2> SUFFICES ASSUME TypeOK, [Next]_vars, NEW c \in Calls, pc[c] # "idle"
               PROVE  IF Step(c) THEN Nearer(c)
                      ELSE \/ pc'[c] = "idle" /\ Restart
                           \/ UNCHANGED <<pc[c], job[c], source[c], done[c]>>
    OBVIOUS
  <2>1. CASE Step(c)
    BY <2>1, StepNearer
  <2>2. CASE ~Step(c) /\ ~Restart
    <3>1. UNCHANGED vars \/ \E d \in Calls \ {c} : Step(d)
      BY <2>2 DEF Next
    <3>2. pc'[c] = pc[c] /\ job'[c] = job[c] /\ source'[c] = source[c] /\ done'[c] = done[c]
      BY <3>1, OthersUntouched DEF vars, calls
    <3> QED
      BY <2>2, <3>2
  <2>3. CASE Restart
    <3>1. pc'[c] = "idle"
      BY <2>3 DEF Restart
    <3> QED
      BY <2>3, <3>1 DEF Nearer
  <2> QED
    BY <2>1, <2>2, <2>3
<1> QED
  BY <1>1, TypeCorrect, PTL DEF Spec, CallsGetOn

-----------------------------------------------------------------------------
(* Slips of the pen in a card number.                                      *)

(* The weights that luhnCheck adds up.                                     *)
Twice(pan, i) == (i - 1) % 2 = Len(pan) % 2

Weight(pan, i) == IF Twice(pan, i) THEN Doubled(pan[i]) ELSE pan[i]

Weights(pan) == [i \in 1..Len(pan) |-> Weight(pan, i)]

LuhnTotal(pan) == SumOver(Weights(pan), 1..Len(pan))

LEMMA LuhnSum ==
  ASSUME NEW pan
  PROVE  luhnCheck(pan) <=> LuhnTotal(pan) % 10 = 0
<1> DEFINE W == Weights(pan)
           S == 1..Len(pan)
           G(g) == [s \in SUBSET S |-> IF s = {} THEN 0 ELSE W[Pick(s)] + g[s \ {Pick(s)}]]
<1>1. luhnCheck(pan) <=> FoldSeq(+, 0, W) % 10 = 0
  BY DEF luhnCheck, Weights, Weight, Twice
<1>2. DOMAIN W = S
  BY DEF Weights
<1> HIDE DEF W
<1>3. FoldSeq(+, 0, W) = (CHOOSE g : g = G(g))[S]
  BY <1>2 DEF FoldSeq, FoldFunction, FoldFunctionOnSet, MapThenFoldSet, Pick
<1>4. SumOver(W, S) = (CHOOSE g : g = G(g))[S]
  BY DEF SumOver, Sums, IsSum
<1> HIDE DEF S, G
<1>5. FoldSeq(+, 0, W) = SumOver(W, S)
  BY <1>3, <1>4
<1> QED
  BY <1>1, <1>5 DEF W, S, LuhnTotal

(* Doubling permutes the digits.                                           *)
LEMMA DoubledDigits ==
  ASSUME NEW d \in Digits, NEW e \in Digits
  PROVE  /\ Doubled(d) \in 0..9
         /\ Doubled(d) = Doubled(e) => d = e
         /\ (Doubled(d) - d) % 10 = (Doubled(e) - e) % 10 <=> d = e \/ {d, e} = {0, 9}
<1>1. /\ Doubled(0) = 0 /\ Doubled(1) = 2 /\ Doubled(2) = 4 /\ Doubled(3) = 6 /\ Doubled(4) = 8
      /\ Doubled(5) = 1 /\ Doubled(6) = 3 /\ Doubled(7) = 5 /\ Doubled(8) = 7 /\ Doubled(9) = 9
  BY DEF Doubled
<1>2. \A x \in Digits : \/ x = 0 \/ x = 1 \/ x = 2 \/ x = 3 \/ x = 4
                        \/ x = 5 \/ x = 6 \/ x = 7 \/ x = 8 \/ x = 9
  BY DEF Digits
<1> DEFINE lean(x) == (Doubled(x) - x) % 10
<1>3. /\ lean(0) = 0 /\ lean(1) = 1 /\ lean(2) = 2 /\ lean(3) = 3 /\ lean(4) = 4
      /\ lean(5) = 6 /\ lean(6) = 7 /\ lean(7) = 8 /\ lean(8) = 9 /\ lean(9) = 0
  BY <1>1
<1>4. Doubled(d) \in 0..9
  BY <1>1, <1>2
<1>5. Doubled(d) = Doubled(e) => d = e
  BY <1>1, <1>2
<1>6. {d, e} = {0, 9} <=> (d = 0 /\ e = 9) \/ (d = 9 /\ e = 0)
  BY <1>2
<1>7. lean(d) = lean(e) <=> d = e \/ (d = 0 /\ e = 9) \/ (d = 9 /\ e = 0)
  <2> HIDE DEF lean
  <2> QED
    BY <1>2, <1>3
<1> QED
  BY <1>4, <1>5, <1>6, <1>7

LEMMA WeightsType ==
  ASSUME NEW pan \in Seq(Digits)
  PROVE  /\ IsFiniteSet(1..Len(pan))
         /\ \A i \in 1..Len(pan) : pan[i] \in Digits /\ Weights(pan)[i] = Weight(pan, i)
                                   /\ Weights(pan)[i] \in 0..9
<1>1. Len(pan) \in Nat /\ \A i \in 1..Len(pan) : pan[i] \in Digits
  OBVIOUS
<1>2. \A d \in Digits : d \in 0..9 /\ Doubled(d) \in 0..9
  BY DoubledDigits DEF Digits
<1>3. \A i \in 1..Len(pan) : Weights(pan)[i] = Weight(pan, i) /\ Weight(pan, i) \in 0..9
  BY <1>1, <1>2 DEF Weights, Weight
<1>4. IsFiniteSet(1..Len(pan))
  BY <1>1, FS_Interval
<1> QED
  BY <1>1, <1>3, <1>4

(* What is left of a sum over 10, when it is changed.                      *)
LEMMA Residues ==
  ASSUME NEW t \in Int, t % 10 = 0
  PROVE  /\ \A v, w \in 0..9 : v # w => (t + (v - w)) % 10 # 0
         /\ \A x, y \in Int : (t + (x - y)) % 10 = 0 <=> x % 10 = y % 10
OBVIOUS

(* In a number of any length that luhnCheck accepts, no digit can be       *)
(* written wrong and no two neighbours swapped without luhnCheck refusing  *)
(* it, unless the neighbours are alike, or are 0 and 9.                    *)
THEOREM SlipsFail ==
  ASSUME NEW pan \in Seq(Digits), luhnCheck(pan), NEW i \in DOMAIN pan
  PROVE  /\ \A d \in Digits \ {pan[i]} : ~luhnCheck(Written(pan, i, d))
         /\ i # Len(pan) =>
              (luhnCheck(Swapped(pan, i)) <=> pan[i] = pan[i + 1] \/ {pan[i], pan[i + 1]} = {0, 9})
<1> DEFINE n == Len(pan)
           S == 1..n
           W == Weights(pan)
           total == LuhnTotal(pan)
<1>1. n \in Nat /\ DOMAIN pan = S /\ IsFiniteSet(S) /\ \A k \in S : W[k] \in Int
  BY WeightsType
<1>2. total \in Int /\ total % 10 = 0
  BY <1>1, SumInt, LuhnSum DEF LuhnTotal
<1>3. ASSUME NEW d \in Digits \ {pan[i]}
      PROVE  ~luhnCheck(Written(pan, i, d))
  <2> DEFINE wrong == Written(pan, i, d)
             V == Weights(wrong)
  <2>1. wrong \in Seq(Digits) /\ Len(wrong) = n /\ wrong[i] = d
        /\ \A k \in S \ {i} : wrong[k] = pan[k]
    BY <1>1 DEF Written
  <2> HIDE DEF wrong
  <2>2. \A k \in S : V[k] = Weight(wrong, k) /\ W[k] = Weight(pan, k) /\ V[k] \in Int
    BY <2>1, WeightsType
  <2>3. \A k \in S \ {i} : W[k] = V[k]
    BY <2>1, <2>2 DEF Weight, Twice
  <2>4. LuhnTotal(wrong) = total + (V[i] - W[i])
    <3>1. LuhnTotal(wrong) = SumOver(V, S) /\ total = SumOver(W, S)
      BY <2>1 DEF LuhnTotal
    <3> HIDE DEF V, W, S, total
    <3>2. i \in S /\ \A k \in S : W[k] \in Int /\ V[k] \in Int
      BY <1>1, <2>2
    <3>3. SumOver(V, S) = SumOver(W, S) + (V[i] - W[i])
      BY <1>1, <2>3, <3>2, SumChanged
    <3> QED
      BY <3>1, <3>3
  <2>5. V[i] # W[i] /\ V[i] \in 0..9 /\ W[i] \in 0..9
    <3>1. pan[i] \in Digits /\ V[i] \in 0..9 /\ W[i] \in 0..9
      BY <1>1, <2>1, WeightsType
    <3>2. d # pan[i] /\ Doubled(d) # Doubled(pan[i])
      BY <3>1, DoubledDigits
    <3> QED
      BY <1>1, <2>1, <2>2, <3>1, <3>2 DEF Weight, Twice
  <2> HIDE DEF V, W, total
  <2>6. LuhnTotal(wrong) % 10 # 0
    <3> DEFINE v == V[i]
               w == W[i]
    <3>1. v # w /\ v \in 0..9 /\ w \in 0..9 /\ LuhnTotal(wrong) = total + (v - w)
      BY <2>4, <2>5
    <3> HIDE DEF v, w
    <3>2. (total + (v - w)) % 10 # 0
      BY <1>2, <3>1, Residues
    <3> QED
      BY <3>1, <3>2
  <2> QED
    BY <2>6, LuhnSum DEF wrong
<1>4. ASSUME i # n
      PROVE  luhnCheck(Swapped(pan, i)) <=> pan[i] = pan[i + 1] \/ {pan[i], pan[i + 1]} = {0, 9}
  <2> DEFINE j == i + 1
             swapped == Swapped(pan, i)
             V == Weights(swapped)
             a == pan[i]
             b == pan[j]
  <2>1. i \in S /\ j \in S /\ i # j /\ a \in Digits /\ b \in Digits
    BY <1>1, <1>4
  <2>2. /\ swapped \in Seq(Digits) /\ Len(swapped) = n /\ swapped[i] = b /\ swapped[j] = a
        /\ \A k \in S \ {i, j} : swapped[k] = pan[k]
    BY <1>1, <2>1 DEF Swapped
  <2> HIDE DEF swapped
  <2>3. \A k \in S : V[k] = Weight(swapped, k) /\ W[k] = Weight(pan, k) /\ V[k] \in Int
    BY <2>2, WeightsType
  <2>4. \A k \in S \ {i, j} : W[k] = V[k]
    BY <2>2, <2>3 DEF Weight, Twice
  <2>5. LuhnTotal(swapped) = total + (V[i] - W[i]) + (V[j] - W[j])
    <3>1. LuhnTotal(swapped) = SumOver(V, S) /\ total = SumOver(W, S)
      BY <2>2 DEF LuhnTotal
    <3> HIDE DEF V, W, S, total, j
    <3>2. \A k \in S : W[k] \in Int /\ V[k] \in Int
      BY <1>1, <2>3
    <3>3. SumOver(V, S) = SumOver(W, S) + (V[i] - W[i]) + (V[j] - W[j])
      BY <1>1, <2>1, <2>4, <3>2, SumChangedTwice
    <3> QED
      BY <3>1, <3>3
  <2>6. Twice(pan, i) <=> ~Twice(pan, j)
    BY <1>1 DEF Twice
  <2>7. \/ /\ V[i] = Doubled(b) /\ W[i] = Doubled(a) /\ V[j] = a /\ W[j] = b
        \/ /\ V[i] = b /\ W[i] = a /\ V[j] = Doubled(a) /\ W[j] = Doubled(b)
    BY <2>1, <2>2, <2>3, <2>6 DEF Weight, Twice
  <2>8. (Doubled(a) - a) % 10 = (Doubled(b) - b) % 10 <=> a = b \/ {a, b} = {0, 9}
    BY <2>1, DoubledDigits
  <2> DEFINE x == Doubled(a) - a
             y == Doubled(b) - b
  <2>9. x \in Int /\ y \in Int /\ a \in Int /\ b \in Int /\ Doubled(a) \in Int /\ Doubled(b) \in Int
    <3>1. Doubled(a) \in 0..9 /\ Doubled(b) \in 0..9 /\ a \in 0..9 /\ b \in 0..9
      <4> HIDE DEF a, b
      <4> QED
        BY <2>1, DoubledDigits DEF Digits
    <3> HIDE DEF a, b
    <3> QED
      BY <3>1
  <2>10. LuhnTotal(swapped) = total + (y - x) \/ LuhnTotal(swapped) = total + (x - y)
    <3> HIDE DEF total, V, W, a, b
    <3> DEFINE da == Doubled(a)
               db == Doubled(b)
    <3>0. da \in Int /\ db \in Int /\ a \in Int /\ b \in Int /\ total \in Int
      BY <1>2, <2>9
    <3> HIDE DEF da, db
    <3>3. /\ total + (db - da) + (a - b) = total + ((db - b) - (da - a))
          /\ total + (b - a) + (da - db) = total + ((da - a) - (db - b))
      BY <3>0
    <3>1. ASSUME V[i] = Doubled(b), W[i] = Doubled(a), V[j] = a, W[j] = b
          PROVE  LuhnTotal(swapped) = total + (y - x)
      BY <2>5, <3>1, <3>3 DEF da, db
    <3>2. ASSUME V[i] = b, W[i] = a, V[j] = Doubled(a), W[j] = Doubled(b)
          PROVE  LuhnTotal(swapped) = total + (x - y)
      BY <2>5, <3>2, <3>3 DEF da, db
    <3> QED
      BY <2>7, <3>1, <3>2
  <2> HIDE DEF x, y, total
  <2>11. LuhnTotal(swapped) % 10 = 0 <=> x % 10 = y % 10
    <3>1. x \in Int /\ y \in Int /\ total \in Int /\ total % 10 = 0
      BY <1>2, <2>9
    <3>2. (total + (x - y)) % 10 = 0 <=> x % 10 = y % 10
      BY <3>1, Residues
    <3>3. (total + (y - x)) % 10 = 0 <=> y % 10 = x % 10
      BY <3>1, Residues
    <3> QED
      BY <2>10, <3>2, <3>3
  <2> QED
    BY <2>8, <2>11, LuhnSum DEF swapped, x, y
<1> QED
  BY <1>3, <1>4

=============================================================================
