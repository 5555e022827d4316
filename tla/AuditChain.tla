----------------------------- MODULE AuditChain -----------------------------
(***************************************************************************)
(* The hash chain of pkg/audit/chainlogger.go.  SHA-256 is taken to be     *)
(* without collisions: the hash of an entry is the triple it is made from. *)
(***************************************************************************)
EXTENDS Naturals, Sequences

(* Sixty-four zeros: the hash that no entry has.                           *)
ZeroHash == <<>>

Hash(previous, timestamp, payload) == <<previous, timestamp, payload>>

LogEntry(previous, timestamp, payload) ==
  [ timestamp     |-> timestamp,
    previous_hash |-> previous,
    payload       |-> payload,
    hash          |-> Hash(previous, timestamp, payload) ]

(* The hash of the last of these entries: what the next is linked to.      *)
PreviousHash(entries) == IF entries = <<>> THEN ZeroHash ELSE entries[Len(entries)].hash

(* Whether entries are a chain.  The first is taken at its word.           *)
VerifyChain(entries) ==
  \A i \in DOMAIN entries :
    /\ i > 1 => entries[i].previous_hash = entries[i - 1].hash
    /\ entries[i].hash =
         Hash(entries[i].previous_hash, entries[i].timestamp, entries[i].payload)

(* An unbroken piece of a log.                                             *)
IsPieceOf(entries, log) ==
  \E i \in 0..Len(log) :
    /\ i + Len(entries) <= Len(log)
    /\ \A k \in DOMAIN entries : entries[k] = log[i + k]

=============================================================================
