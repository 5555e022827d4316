------------------------------- MODULE Vault -------------------------------
(***************************************************************************)
(* The card vault: VaultStore (internal/vault/store.go) over AEADEncryptor *)
(* and FileBasedKMS (internal/crypto), with vault_cards in SQLite.         *)
(*                                                                         *)
(* A card is sealed with a data key that a master key seals; the KMS keeps *)
(* the master keys in the memory of the process, writes each to a file and *)
(* never reads the files.  RotateKey reads the cards of the old key on one *)
(* connection while it rewrites them in a transaction on another, so the   *)
(* locks of SQLite decide what other calls do meanwhile.                   *)
(*                                                                         *)
(* Of a card only its key matters here: its row holds key_id and, instead  *)
(* of the ciphertexts, the lifetime of the process whose master key sealed *)
(* it.  A call refused by its validation or for want of a service identity *)
(* or of the vault-admin identity changes nothing and is left out.         *)
(***************************************************************************)
EXTENDS Naturals

CONSTANTS
  Calls,         (* concurrent calls of the service                        *)
  Tokens,        (* the random tokens of cards                             *)
  KeyIds,        (* key ids                                                *)
  TestKey,       (* "test-key-1", the one GetKeyID returns                 *)
  Nobody,        (* no call                                                *)
  Faults,        (* which failures happen                                  *)
  MaxLifetime    (* bound on the lifetimes of the process                  *)

ASSUME VaultAssumption ==
  /\ TestKey \in KeyIds
  /\ Nobody \notin Calls
  /\ Faults \subseteq {"persist", "rows", "restart"}
  /\ MaxLifetime \in Nat \ {0}

VARIABLES
  lifetime,   (* of the process, counted                                   *)
  keys,       (* the master keys in memory: 0, or the lifetime that made it *)
  files,      (* the master keys on disk, the same way                     *)
  cards,      (* vault_cards: token |-> row                                *)
  readers,    (* calls that hold rows open: they share the database        *)
  writer,     (* the call whose transaction has written: it has reserved it *)
  pc,         (* where each call stands                                    *)
  job,        (* the token or the keys the call is about                   *)
  source,     (* the rows it has read                                      *)
  done        (* the tokens whose cards its transaction has rewritten      *)

database == <<cards, readers, writer>>
kms == <<keys, files>>
calls == <<pc, job, source, done>>
vars == <<lifetime, kms, database, calls>>

Row == [key: KeyIds, master: 1..MaxLifetime]

NoRows == [t \in {} |-> Nobody]

(* Rows by their tokens.                                                   *)
Table == UNION {[S -> Row] : S \in SUBSET Tokens}

Init ==
  /\ lifetime = 1
  /\ keys = [k \in KeyIds |-> 0]
  /\ files = [k \in KeyIds |-> 0]
  /\ cards = NoRows
  /\ readers = {}
  /\ writer = Nobody
  /\ pc = [c \in Calls |-> "idle"]
  /\ job = [c \in Calls |-> <<>>]
  /\ source = [c \in Calls |-> NoRows]
  /\ done = [c \in Calls |-> {}]

-----------------------------------------------------------------------------
(* The KMS.  A master key that is not in memory is made anew and its file  *)
(* written over; when that fails the key stays in memory all the same.     *)

(* Mutant: the new master key is written and not remembered.               *)
GenerateDataKeyForgetful(k) ==
  IF keys[k] # 0 THEN UNCHANGED kms
  ELSE /\ files' = [files EXCEPT ![k] = lifetime]
       /\ UNCHANGED keys

GenerateDataKey(k) ==
  IF keys[k] # 0 THEN UNCHANGED kms
  ELSE /\ keys' = [keys EXCEPT ![k] = lifetime]
       /\ files' = [files EXCEPT ![k] = lifetime]

PersistFails(k) ==
  /\ "persist" \in Faults
  /\ keys[k] = 0
  /\ keys' = [keys EXCEPT ![k] = lifetime]
  /\ files' = files \/ files' = [files EXCEPT ![k] = 0]

(* The data key comes out right only with the master key that sealed it.   *)
Opens(row) == keys[row.key] = row.master

(* What Encrypt returns, once GenerateDataKey has seen to the master key.  *)
Sealed(k) == [key |-> k, master |-> lifetime]

-----------------------------------------------------------------------------
(* Calls.  The end of a call closes its rows and rolls back what it has    *)
(* not committed.                                                          *)

Free(c) ==
  /\ readers' = readers \ {c}
  /\ writer' = IF writer = c THEN Nobody ELSE writer

(* Mutant: the transaction is left open.                                   *)
EndWithoutRollback(c) ==
  /\ pc' = [pc EXCEPT ![c] = "idle"]
  /\ job' = [job EXCEPT ![c] = <<>>]
  /\ source' = [source EXCEPT ![c] = NoRows]
  /\ Free(c)
  /\ UNCHANGED <<lifetime, done>>

End(c) ==
  /\ pc' = [pc EXCEPT ![c] = "idle"]
  /\ job' = [job EXCEPT ![c] = <<>>]
  /\ source' = [source EXCEPT ![c] = NoRows]
  /\ done' = [done EXCEPT ![c] = {}]
  /\ Free(c)
  /\ UNCHANGED lifetime

Start(c, step, args) ==
  /\ pc[c] = "idle"
  /\ pc' = [pc EXCEPT ![c] = step]
  /\ job' = [job EXCEPT ![c] = args]
  /\ UNCHANGED <<lifetime, database, done>>

(* StoreCard seals the card under the test key, and then inserts it.       *)
StoreCard(c, t) ==
  /\ t \notin DOMAIN cards
  /\ \A d \in Calls : job[d] # <<t>>
  /\ Start(c, "insert", <<t>>)
  /\ GenerateDataKey(TestKey)
  /\ UNCHANGED source

StoreCardFails(c) ==
  /\ pc[c] = "idle"
  /\ PersistFails(TestKey)
  /\ UNCHANGED <<lifetime, database, calls>>

(* A statement of its own: it commits when nobody else reads or writes.    *)
InsertCard(c) ==
  /\ pc[c] = "insert"
  /\ readers = {} /\ writer = Nobody
  /\ cards' = [t \in DOMAIN cards \cup {job[c][1]} |->
                 IF t = job[c][1] THEN Sealed(TestKey) ELSE cards[t]]
  /\ End(c)
  /\ UNCHANGED kms

(* DetokenizeCard reads the row and then decrypts what it has read.        *)
RetrieveCard(c, t) ==
  /\ t \in DOMAIN cards
  /\ Start(c, "decrypt", <<t>>)
  /\ source' = [source EXCEPT ![c] = [u \in {t} |-> cards[u]]]
  /\ UNCHANGED kms

DecryptCard(c) ==
  /\ pc[c] = "decrypt"
  /\ End(c)
  /\ UNCHANGED <<kms, cards>>

-----------------------------------------------------------------------------
(* RotateKey.                                                              *)

RotateKey(c, old, new) ==
  /\ Start(c, "query", <<old, new>>)
  /\ UNCHANGED <<kms, source>>

(* The query sees the cards of one moment, and shares the database until   *)
(* its last row has been read.                                             *)
(* Mutant: all rows are read before the first is rewritten.                *)
OpenRowsAtOnce(c) ==
  /\ pc[c] = "query"
  /\ pc' = [pc EXCEPT ![c] = "rows"]
  /\ source' = [source EXCEPT ![c] =
       [t \in {u \in DOMAIN cards : cards[u].key = job[c][1]} |-> cards[t]]]
  /\ UNCHANGED <<lifetime, kms, database, job, done>>

OpenRows(c) ==
  /\ pc[c] = "query"
  /\ pc' = [pc EXCEPT ![c] = "rows"]
  /\ source' = [source EXCEPT ![c] =
       [t \in {u \in DOMAIN cards : cards[u].key = job[c][1]} |-> cards[t]]]
  /\ readers' = readers \cup {c}
  /\ UNCHANGED <<lifetime, kms, cards, writer, job, done>>

(* Mutant: a card that does not open is rewritten all the same.            *)
UpdateCardUnopened(c, t) ==
  /\ pc[c] = "rows"
  /\ t \in DOMAIN source[c] \ done[c]
  /\ writer \in {Nobody, c}
  /\ GenerateDataKey(job[c][2])
  /\ writer' = c
  /\ done' = [done EXCEPT ![c] = @ \cup {t}]
  /\ UNCHANGED <<lifetime, cards, readers, pc, job, source>>

UpdateCard(c, t) ==
  /\ pc[c] = "rows"
  /\ t \in DOMAIN source[c] \ done[c]
  /\ Opens(source[c][t])
  /\ writer \in {Nobody, c}
  /\ GenerateDataKey(job[c][2])
  /\ writer' = c
  /\ done' = [done EXCEPT ![c] = @ \cup {t}]
  /\ UNCHANGED <<lifetime, cards, readers, pc, job, source>>

(* A card that does not open, or a new key that cannot be written, ends    *)
(* the rotation.                                                           *)
RotationFails(c) ==
  /\ pc[c] = "rows"
  /\ \E t \in DOMAIN source[c] \ done[c] :
       \/ ~Opens(source[c][t]) /\ UNCHANGED kms
       \/ Opens(source[c][t]) /\ PersistFails(job[c][2])
  /\ End(c)
  /\ UNCHANGED cards

(* Next returns false after the last row, and also when it fails: nobody   *)
(* asks rows.Err.                                                          *)
CloseRows(c) ==
  /\ pc[c] = "rows"
  /\ DOMAIN source[c] = done[c] \/ "rows" \in Faults
  /\ pc' = [pc EXCEPT ![c] = "commit"]
  /\ readers' = readers \ {c}
  /\ UNCHANGED <<lifetime, kms, cards, writer, job, source, done>>

Commit(c) ==
  /\ pc[c] = "commit"
  /\ done[c] = {} \/ readers = {}
  /\ cards' = [t \in DOMAIN cards |->
                 IF t \in done[c] THEN Sealed(job[c][2]) ELSE cards[t]]
  /\ End(c)
  /\ UNCHANGED kms

(* An insert that waits for readers may have reserved the database.        *)
InsertWaits(c) ==
  readers # {} /\ writer = Nobody /\ \E d \in Calls \ {c} : pc[d] = "insert"

(* A statement that meets the lock of another call waits and then fails:   *)
(* the database is locked.  A commit or an insert that waits for readers   *)
(* lets no new one in.  A rotation has encrypted the card by then.  (A     *)
(* RetrieveCard that fails in this way changes nothing and is left out.)   *)
Blocked(c) ==
  \/ pc[c] = "insert" /\ (readers # {} \/ writer # Nobody)
  \/ /\ pc[c] = "query"
     /\ InsertWaits(c) \/ (writer # Nobody /\ pc[writer] = "commit")
  \/ /\ pc[c] = "rows"
     /\ InsertWaits(c) \/ writer \notin {Nobody, c}
     /\ \E t \in DOMAIN source[c] \ done[c] : Opens(source[c][t])
  \/ pc[c] = "commit" /\ readers # {}

(* Mutant: a rotation that finds the database locked begins again.         *)
DatabaseLockedRetrying(c) ==
  /\ Blocked(c)
  /\ IF pc[c] = "rows" THEN GenerateDataKey(job[c][2]) ELSE UNCHANGED kms
  /\ pc' = [pc EXCEPT ![c] = IF @ = "insert" THEN "idle" ELSE "query"]
  /\ done' = [done EXCEPT ![c] = {}]
  /\ Free(c)
  /\ UNCHANGED <<lifetime, cards, job, source>>

DatabaseLocked(c) ==
  /\ Blocked(c)
  /\ IF pc[c] = "rows" THEN GenerateDataKey(job[c][2]) ELSE UNCHANGED kms
  /\ End(c)
  /\ UNCHANGED cards

-----------------------------------------------------------------------------
(* The process ends, at any point of any call, and starts again: SQLite    *)
(* rolls back, and NewFileBasedKMS starts without keys.                    *)
Restart ==
  /\ "restart" \in Faults
  /\ lifetime < MaxLifetime
  /\ lifetime' = lifetime + 1
  /\ keys' = [k \in KeyIds |-> 0]
  /\ readers' = {}
  /\ writer' = Nobody
  /\ pc' = [c \in Calls |-> "idle"]
  /\ job' = [c \in Calls |-> <<>>]
  /\ source' = [c \in Calls |-> NoRows]
  /\ done' = [c \in Calls |-> {}]
  /\ UNCHANGED <<files, cards>>

Continue(c) ==
  \/ InsertCard(c)
  \/ DecryptCard(c)
  \/ OpenRows(c)
  \/ \E t \in Tokens : UpdateCard(c, t)
  \/ RotationFails(c)
  \/ CloseRows(c)
  \/ Commit(c)
  \/ DatabaseLocked(c)

Step(c) ==
  \/ \E t \in Tokens : StoreCard(c, t) \/ RetrieveCard(c, t)
  \/ StoreCardFails(c)
  \/ \E old, new \in KeyIds : RotateKey(c, old, new)
  \/ Continue(c)

Next == (\E c \in Calls : Step(c)) \/ Restart

Spec == Init /\ [][Next]_vars

(* A call in progress goes on: SQLite makes no statement wait for ever.    *)
FairSpec == Spec /\ \A c \in Calls : WF_vars(Continue(c))

-----------------------------------------------------------------------------
(* The types; only a rotation has rewritten rows, and rows it has read.    *)
TypeOK ==
  /\ lifetime \in 1..MaxLifetime
  /\ keys \in [KeyIds -> 0..MaxLifetime]
  /\ files \in [KeyIds -> 0..MaxLifetime]
  /\ cards \in Table
  /\ readers \subseteq Calls
  /\ writer \in Calls \cup {Nobody}
  /\ pc \in [Calls -> {"idle", "insert", "decrypt", "query", "rows", "commit"}]
  /\ job \in [Calls -> {<<>>} \cup {<<t>> : t \in Tokens} \cup (KeyIds \X KeyIds)]
  /\ source \in [Calls -> Table]
  /\ done \in [Calls -> SUBSET Tokens]
  /\ \A c \in Calls :
       /\ pc[c] \in {"insert", "decrypt"} => job[c] \in {<<t>> : t \in Tokens}
       /\ pc[c] \in {"query", "rows", "commit"} => job[c] \in KeyIds \X KeyIds
       /\ done[c] \subseteq DOMAIN source[c]
       /\ pc[c] \notin {"rows", "commit"} => done[c] = {}

(* A card opens exactly in the lifetime of the process that sealed it last *)
(* and so does every row a call has read, whatever was rotated since: no   *)
(* rotation, failure or race makes a card of this lifetime unreadable, and *)
(* nothing makes a card of an earlier one readable again.                  *)
CardsOpenInTheirLifetime ==
  /\ \A t \in DOMAIN cards : Opens(cards[t]) <=> cards[t].master = lifetime
  /\ \A c \in Calls : \A t \in DOMAIN source[c] :
       Opens(source[c][t]) <=> source[c][t].master = lifetime

(* A rotation writes over a card only what it has made of that very row:   *)
(* no rotation undoes what another call committed since it looked.         *)
NoLostUpdate ==
  [][ \A t \in DOMAIN cards :
        cards'[t] # cards[t] =>
          /\ writer \in Calls
          /\ t \in DOMAIN source[writer]
          /\ source[writer][t] = cards[t] ]_vars

(* Nothing changes a card that an earlier lifetime sealed, so the key it   *)
(* is under never gets rid of it.                                          *)
OldCardsStay ==
  [][ \A t \in DOMAIN cards :
        cards[t].master < lifetime => cards'[t] = cards[t] ]_vars

(* Every call returns, although two rotations that hold rows and the       *)
(* reservation wait for each other.                                        *)
CallsReturn == \A c \in Calls : pc[c] # "idle" ~> pc[c] = "idle"

=============================================================================
