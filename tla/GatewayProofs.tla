---------------------------- MODULE GatewayProofs ----------------------------
(* Theorems of Gateway and AuditChain, for every value of the constants. *)
EXTENDS Gateway, SequenceTheorems, Sums, TLAPS

-----------------------------------------------------------------------------
(* Chains of entries.                                                      *)

(* The entries of a logger after one more Append.                          *)
Extended(entries, timestamp, payload) ==
  Append(entries, LogEntry(PreviousHash(entries), timestamp, payload))

(* Every entry carries the hash of the one before it, and its own.         *)
IsChain(entries) ==
  /\ \E S : entries \in Seq(S)
  /\ \A i \in DOMAIN entries :
       LET e == entries[i] IN
       /\ e = LogEntry(e.previous_hash, e.timestamp, e.payload)
       /\ e.previous_hash = IF i = 1 THEN ZeroHash ELSE entries[i - 1].hash

LEMMA EmptyIsChain == IsChain(<<>>)
<1>1. <<>> \in Seq({})
  OBVIOUS
<1> QED
  BY <1>1 DEF IsChain

(* An Append leaves a chain, whatever it is told.                          *)
LEMMA ExtendedIsChain ==
  ASSUME NEW entries, IsChain(entries), NEW timestamp, NEW payload
  PROVE  IsChain(Extended(entries, timestamp, payload))
<1> DEFINE new == LogEntry(PreviousHash(entries), timestamp, payload)
           longer == Append(entries, new)
           n == Len(entries) + 1
<1>1. PICK S : entries \in Seq(S)
  BY DEF IsChain
<1>2. /\ entries \in Seq(S \cup {new})
      /\ DOMAIN entries = 1..Len(entries) /\ Len(entries) \in Nat
      /\ entries = <<>> <=> Len(entries) = 0
  BY <1>1
<1>3. /\ longer \in Seq(S \cup {new})
      /\ DOMAIN longer = 1..n
      /\ longer[n] = new
      /\ \A i \in 1..Len(entries) : longer[i] = entries[i]
  <2> HIDE DEF new
  <2> QED
    BY <1>2
<1>4. new = LogEntry(new.previous_hash, new.timestamp, new.payload)
  BY DEF LogEntry
<1>5. new.previous_hash = IF n = 1 THEN ZeroHash ELSE longer[n - 1].hash
  <2>1. new.previous_hash = PreviousHash(entries)
    BY DEF LogEntry
  <2>2. CASE n = 1
    BY <1>2, <2>1, <2>2 DEF PreviousHash
  <2>3. CASE n # 1
    <3>1. n - 1 = Len(entries) /\ n - 1 \in 1..Len(entries) /\ entries # <<>>
      BY <1>2, <2>3
    <3>2. longer[n - 1] = entries[Len(entries)]
      BY <1>3, <3>1
    <3> QED
      BY <2>1, <2>3, <3>1, <3>2 DEF PreviousHash
  <2> QED
    BY <2>2, <2>3
<1>6. ASSUME NEW i \in 1..Len(entries)
      PROVE  /\ longer[i] = LogEntry(longer[i].previous_hash, longer[i].timestamp, longer[i].payload)
             /\ longer[i].previous_hash = IF i = 1 THEN ZeroHash ELSE longer[i - 1].hash
  <2>1. /\ entries[i] = LogEntry(entries[i].previous_hash, entries[i].timestamp, entries[i].payload)
        /\ entries[i].previous_hash = IF i = 1 THEN ZeroHash ELSE entries[i - 1].hash
    BY <1>2 DEF IsChain
  <2>2. i # 1 => longer[i - 1] = entries[i - 1]
    <3> HIDE DEF longer
    <3> QED
      BY <1>2, <1>3
  <2>3. longer[i] = entries[i]
    BY <1>3
  <2> HIDE DEF longer
  <2> QED
    BY <2>1, <2>2, <2>3
<1>7. Extended(entries, timestamp, payload) = longer
  BY DEF Extended
<1>8. \A i \in DOMAIN longer : i = n \/ i \in 1..Len(entries)
  BY <1>2, <1>3
<1> HIDE DEF new, longer, n
<1>9. IsChain(longer)
  BY <1>3, <1>4, <1>5, <1>6, <1>8 DEF IsChain
<1> QED
  BY <1>7, <1>9

(* Two entries of chains with the same hash are the same entry.            *)
LEMMA HashesTell ==
  ASSUME NEW e, e = LogEntry(e.previous_hash, e.timestamp, e.payload),
         NEW f, f = LogEntry(f.previous_hash, f.timestamp, f.payload), e.hash = f.hash
  PROVE  e = f
<1>1. e.hash = <<e.previous_hash, e.timestamp, e.payload>>
  BY DEF LogEntry, Hash
<1>2. f.hash = <<f.previous_hash, f.timestamp, f.payload>>
  BY DEF LogEntry, Hash
<1>3. e.previous_hash = f.previous_hash /\ e.timestamp = f.timestamp /\ e.payload = f.payload
  <2>1. /\ e.hash[1] = e.previous_hash /\ e.hash[2] = e.timestamp /\ e.hash[3] = e.payload
    BY <1>1
  <2>2. /\ f.hash[1] = f.previous_hash /\ f.hash[2] = f.timestamp /\ f.hash[3] = f.payload
    BY <1>2
  <2> QED
    BY <2>1, <2>2
<1> QED
  BY <1>3

(* An entry of a chain follows only the entry it stands behind.            *)
LEMMA FollowsNeighbour ==
  ASSUME NEW entries, IsChain(entries), NEW i \in DOMAIN entries,
         NEW e, e = LogEntry(e.previous_hash, e.timestamp, e.payload),
         entries[i].previous_hash = e.hash
  PROVE  i > 1 /\ i - 1 \in DOMAIN entries /\ entries[i - 1] = e
<1>1. DOMAIN entries = 1..Len(entries) /\ Len(entries) \in Nat
  BY DEF IsChain
<1>2. e.hash = <<e.previous_hash, e.timestamp, e.payload>>
  BY DEF LogEntry, Hash
<1>3. e.hash # ZeroHash
  BY <1>2 DEF ZeroHash
<1>4. i > 1 /\ i - 1 \in DOMAIN entries
  BY <1>1, <1>3 DEF IsChain
<1>5. entries[i - 1].hash = e.hash
  BY <1>4 DEF IsChain
<1>6. entries[i - 1] = LogEntry(entries[i - 1].previous_hash, entries[i - 1].timestamp,
                                entries[i - 1].payload)
  BY <1>4 DEF IsChain
<1> QED
  BY <1>4, <1>5, <1>6, HashesTell

(* A piece of a chain verifies.                                            *)
LEMMA PieceVerifies ==
  ASSUME NEW entries, IsChain(entries), NEW piece, IsPieceOf(piece, entries),
         DOMAIN piece = 1..Len(piece), Len(piece) \in Nat
  PROVE  VerifyChain(piece)
<1>1. DOMAIN entries = 1..Len(entries) /\ Len(entries) \in Nat
  BY DEF IsChain
<1>2. PICK i \in 0..Len(entries) :
        i + Len(piece) <= Len(entries) /\ \A k \in DOMAIN piece : piece[k] = entries[i + k]
  BY DEF IsPieceOf
<1>3. ASSUME NEW k \in DOMAIN piece
      PROVE  /\ k > 1 => piece[k].previous_hash = piece[k - 1].hash
             /\ piece[k].hash = Hash(piece[k].previous_hash, piece[k].timestamp, piece[k].payload)
  <2>1. i + k \in DOMAIN entries /\ piece[k] = entries[i + k]
    BY <1>1, <1>2
  <2>2. piece[k].hash = Hash(piece[k].previous_hash, piece[k].timestamp, piece[k].payload)
    <3>1. piece[k] = LogEntry(piece[k].previous_hash, piece[k].timestamp, piece[k].payload)
      BY <2>1 DEF IsChain
    <3> QED
      BY <3>1 DEF LogEntry
  <2>3. ASSUME k > 1
        PROVE  piece[k].previous_hash = piece[k - 1].hash
    <3>1. k - 1 \in DOMAIN piece /\ i + k # 1 /\ (i + k) - 1 = i + (k - 1)
      BY <1>2, <2>3
    <3>2. piece[k - 1] = entries[(i + k) - 1]
      BY <1>2, <3>1
    <3>3. entries[i + k].previous_hash = entries[(i + k) - 1].hash
      BY <2>1, <3>1 DEF IsChain
    <3> QED
      BY <2>1, <3>2, <3>3
  <2> QED
    BY <2>2, <2>3
<1> QED
  BY <1>3 DEF VerifyChain

-----------------------------------------------------------------------------
(* Types.                                                                  *)

(* The words of an answer.                                                 *)
Words == STRING \cup Statuses

LEMMA BatchWords == Batch \in Seq(Words) /\ Batch # <<>>
<1>1. STRING \subseteq Words
  BY DEF Words
<1> HIDE DEF Words
<1> QED
  BY <1>1, GatewayAssumption, SeqMonotonic

IsEnd(part, whole) == \E i \in 0..Len(whole) : part = SubSeq(whole, i + 1, Len(whole))

LEMMA WholeIsEnd ==
  ASSUME NEW whole \in Seq(Words)
  PROVE  IsEnd(whole, whole)
<1>1. whole = SubSeq(whole, 0 + 1, Len(whole)) /\ 0 \in 0..Len(whole)
  OBVIOUS
<1> QED
  BY <1>1 DEF IsEnd

LEMMA TailIsEnd ==
  ASSUME NEW whole \in Seq(Words), NEW part, IsEnd(part, whole), part # <<>>
  PROVE  IsEnd(Tail(part), whole)
<1>1. PICK i \in 0..Len(whole) : part = SubSeq(whole, i + 1, Len(whole))
  BY DEF IsEnd
<1>2. i < Len(whole)
  BY <1>1
<1>3. Tail(part) = SubSeq(whole, (i + 1) + 1, Len(whole)) /\ i + 1 \in 0..Len(whole)
  BY <1>1, <1>2
<1> QED
  BY <1>3 DEF IsEnd

(* The types of a request, and what is printed of it when.                 *)
RequestOK(q) ==
  /\ pc[q] \in {"sign", "handler"} => req[q].claims \in Claims /\ req[q].at \in Gateways
  /\ pc[q] = "append" => req[q].at \in Processes /\ pending[q] # <<>>
  /\ pc[q] = "print" => req[q].at \in Gateways
  /\ pc[q] \in {"refuse", "refused"} => req[q].at \in Gateways /\ req[q].status \in Statuses
  /\ pc[q] \in {"append", "print", "done"} /\ req[q].at \in Gateways =>
       req[q].status \in Statuses /\ req[q].told = <<req[q].status>>
  /\ req[q].told \in Seq(Words)
  /\ IsEnd(pending[q], req[q].told)
  /\ pc[q] = "new" => req[q].told = <<>>
  /\ lines[q] = IF pc[q] \in {"done", "refused"} /\ req[q].at \in Gateways
                  THEN <<req[q].status>> ELSE <<>>

Steps == {"new", "refuse", "refused", "sign", "handler", "panicked", "append", "print", "done",
          "lost"}

RequestTypes ==
  /\ pc \in [Requests -> Steps]
  /\ DOMAIN req = Requests /\ DOMAIN pending = Requests
  /\ lines = [q \in Requests |-> lines[q]]
  /\ \A q \in Requests : RequestOK(q)

TableTypes ==
  /\ now \in 1..MaxTime
  /\ clients \in [Clients -> SUBSET Scopes]
  /\ changes \in 0..MaxChanges
  /\ removed \in [Clients -> [Scopes -> [change: 0..changes, time: 0..now]]]
  /\ lifetime \in [Processes -> 1..MaxLifetime]
  /\ tokens \subseteq {claims \in Claims : claims.exp \in 1..(now + TTL)}

LEMMA TypeParts == TableTypes /\ RequestTypes => TypeOK
<1> SUFFICES ASSUME TableTypes, RequestTypes
             PROVE  TypeOK
  OBVIOUS
<1>1. ASSUME NEW q \in Requests
      PROVE  lines[q] \in Seq(Statuses)
  <2>1. RequestOK(q)
    BY DEF RequestTypes
  <2>2. CASE pc[q] \in {"done", "refused"} /\ req[q].at \in Gateways
    BY <2>1, <2>2 DEF RequestOK
  <2>3. CASE ~(pc[q] \in {"done", "refused"} /\ req[q].at \in Gateways)
    <3>1. lines[q] = <<>>
      BY <2>1, <2>3 DEF RequestOK
    <3> QED
      BY <3>1
  <2> QED
    BY <2>2, <2>3
<1>2. lines \in [Requests -> Seq(Statuses)]
  <2>1. lines = [q \in Requests |-> lines[q]]
    BY DEF RequestTypes, RequestOK
  <2> QED
    BY <1>1, <2>1
<1> QED
  BY <1>2 DEF TypeOK, TableTypes, RequestTypes, RequestOK, IsEnd, Steps

(* A request that stands still keeps its types.                            *)
LEMMA StandsOK ==
  ASSUME NEW r \in Requests, RequestOK(r), pc'[r] = pc[r], req'[r] = req[r],
         pending'[r] = pending[r], lines'[r] = lines[r]
  PROVE  RequestOK(r)'
BY DEF RequestOK, IsEnd

(* Nothing of what a logger is to be told is appended yet.                 *)
LEMMA TellTypes ==
  ASSUME RequestTypes, NEW q \in Requests, NEW p \in Processes, NEW status,
         NEW payloads \in Seq(Words), payloads # <<>>,
         p \in Gateways => status \in Statuses /\ payloads = <<status>>,
         pc[q] \notin {"done", "refused"}, Tell(q, p, status, payloads), UNCHANGED lines
  PROVE  RequestTypes'
<1>1. /\ pc' = [pc EXCEPT ![q] = "append"]
      /\ pending' = [pending EXCEPT ![q] = payloads]
      /\ DOMAIN req' = Requests
      /\ req'[q].at = p /\ req'[q].told = payloads /\ req'[q].status = status
      /\ \A r \in Requests \ {q} : req'[r] = req[r]
  BY DEF Tell, Goto, Blank, RequestTypes
<1>2. RequestOK(q)'
  BY <1>1, WholeIsEnd DEF RequestOK, RequestTypes, IsEnd
<1>3. ASSUME NEW r \in Requests \ {q}
      PROVE  RequestOK(r)'
  <2>1. RequestOK(r) /\ pc'[r] = pc[r] /\ req'[r] = req[r] 
        /\ pending'[r] = pending[r] /\ lines'[r] = lines[r]
    BY <1>1 DEF RequestTypes
  <2> QED
    BY <2>1, StandsOK
<1> QED
  BY <1>1, <1>2, <1>3 DEF RequestTypes, Steps

(* A gateway tells of a single status.                                     *)
LEMMA OneStatus ==
  ASSUME NEW status \in Statuses
  PROVE  <<status>> \in Seq(Words) /\ <<status>> # <<>>
<1>1. status \in Words
  BY DEF Words
<1> QED
  BY <1>1

(* A request goes on with its claims.                                      *)
LEMMA ClaimTypes ==
  ASSUME RequestTypes, NEW q \in Requests, NEW p \in Gateways, NEW scope,
         NEW claims \in Claims, NEW step \in {"sign", "handler"}, Goto(q, step),
         pc[q] = "new", UNCHANGED <<pending, lines>>,
         req' = [req EXCEPT ![q] = [at |-> p, scope |-> scope, claims |-> claims,
                                    status |-> None, told |-> <<>>]]
  PROVE  RequestTypes'
<1>1. /\ pc' = [pc EXCEPT ![q] = step]
      /\ pending' = pending /\ lines' = lines
      /\ DOMAIN req' = Requests
      /\ req'[q].at = p /\ req'[q].claims = claims /\ req'[q].told = <<>>
      /\ \A r \in Requests \ {q} : req'[r] = req[r]
  BY DEF Goto, RequestTypes
<1>2. RequestOK(q)'
  <2>1. req[q].told = <<>> /\ IsEnd(pending[q], <<>>)
    BY DEF RequestOK, RequestTypes
  <2>2. <<>> \in Seq(Words)
    OBVIOUS
  <2> QED
    BY <1>1, <2>1, <2>2 DEF RequestOK, RequestTypes, IsEnd
<1>3. ASSUME NEW r \in Requests \ {q}
      PROVE  RequestOK(r)'
  <2>1. RequestOK(r) /\ pc'[r] = pc[r] /\ req'[r] = req[r] 
        /\ pending'[r] = pending[r] /\ lines'[r] = lines[r]
    BY <1>1 DEF RequestTypes
  <2> QED
    BY <2>1, StandsOK
<1> QED
  BY <1>1, <1>2, <1>3 DEF RequestTypes, Steps

(* The claims of a new token are those of a client.                        *)
LEMMA NewClaims ==
  ASSUME TableTypes, NEW p \in Gateways, NEW c \in Clients, NEW requested \in SUBSET Scopes
  PROVE  ClaimsOf(p, c, requested) \in Claims
<1>1. intersectScopes(clients[c], requested) \in SUBSET Scopes
  BY DEF intersectScopes, TableTypes
<1>2. lifetime[p] \in 1..MaxLifetime /\ changes \in 0..MaxChanges
  BY DEF TableTypes, Processes
<1>3. 0 \in 0..(MaxTime + TTL) /\ 0 \in 0..MaxChanges
  BY GatewayAssumption
<1> QED
  BY <1>1, <1>2, <1>3 DEF ClaimsOf, Claims

(* A token that is signed now is good for TTL from now.                    *)
LEMMA SignedClaims ==
  ASSUME TableTypes, NEW claims \in Claims
  PROVE  LET signed == [claims EXCEPT !.exp = now + TTL, !.signed = changes] IN
         /\ signed \in Claims
         /\ signed.exp = now + TTL /\ signed.signed = changes /\ signed.exp \in 1..(now + TTL)
         /\ signed.client = claims.client /\ signed.scopes = claims.scopes
         /\ signed.read = claims.read
<1>1. now + TTL \in 0..(MaxTime + TTL) /\ now + TTL \in 1..(now + TTL)
  BY GatewayAssumption DEF TableTypes
<1>2. changes \in 0..MaxChanges
  BY DEF TableTypes
<1> QED
  BY <1>1, <1>2 DEF Claims

LEMMA StepTypes ==
  ASSUME TableTypes, RequestTypes, NEW q \in Requests, Step(q)
  PROVE  TableTypes' /\ RequestTypes'
<1> USE GatewayAssumption
<1>1. ASSUME NEW p \in Gateways, NEW status \in Statuses, Respond(q, p, status),
             pc[q] \in {"new", "sign", "handler"}, UNCHANGED lines
      PROVE  RequestTypes'
  <2>1. p \in Processes
    BY DEF Processes
  <2> QED
    BY <1>1, <2>1, OneStatus, TellTypes DEF Respond
<1>2. ASSUME UNCHANGED <<now, lifetime, oauth>>
      PROVE  TableTypes'
  BY <1>2 DEF TableTypes, oauth
<1>3. CASE HandlerPanics(q)
  <2>1. Goto(q, "panicked") /\ UNCHANGED <<req, pending, lines>> /\ pc[q] = "handler"
    BY <1>3 DEF HandlerPanics
  <2>2. RequestTypes'
    BY <2>1 DEF Goto, RequestTypes, RequestOK, IsEnd, Steps
  <2> QED
    BY <1>2, <1>3, <2>2 DEF HandlerPanics
<1>4. ASSUME NEW p \in Gateways, Serve(q, p)
      PROVE  TableTypes' /\ RequestTypes'
  <2>1. TableTypes'
    BY <1>2, <1>4 DEF Serve, Refuse, Open, RequestToken, RefuseToken, Authenticate, RefuseRequest
  <2>2. CASE Open(q, p) \/ RefuseToken(q, p) \/ RefuseRequest(q, p)
    <3>1. /\ \E status \in Statuses : Respond(q, p, status)
          /\ pc[q] = "new" /\ UNCHANGED lines
      BY <2>2 DEF Open, RefuseToken, RefuseRequest, Statuses
    <3> QED
      BY <1>1, <2>1, <3>1
  <2>3. ASSUME NEW c \in Clients, NEW requested \in SUBSET Scopes, RequestToken(q, p, c, requested)
        PROVE  RequestTypes'
    BY <2>3, NewClaims, ClaimTypes DEF RequestToken
  <2>4. ASSUME NEW scope \in Scopes, NEW claims \in tokens, Authenticate(q, p, claims, scope)
        PROVE  RequestTypes'
    <3>1. claims \in Claims
      BY DEF TableTypes
    <3> QED
      BY <2>4, <3>1, ClaimTypes DEF Authenticate
  <2>5. CASE Refuse(q, p)
    <3>1. PICK status \in Statuses :
            /\ pc[q] = "new" /\ Goto(q, "refuse") /\ UNCHANGED <<pending, lines>>
            /\ req' = [req EXCEPT ![q] = [Blank EXCEPT !.at = p, !.status = status]]
      BY <2>5 DEF Refuse, Statuses
    <3>2. /\ pc' = [pc EXCEPT ![q] = "refuse"]
          /\ DOMAIN req' = Requests
          /\ req'[q].at = p /\ req'[q].status = status /\ req'[q].told = <<>>
          /\ \A r \in Requests \ {q} : req'[r] = req[r]
      BY <3>1 DEF Goto, Blank, RequestTypes
    <3>3. RequestOK(q)'
      <4>1. <<>> \in Seq(Words) /\ IsEnd(pending[q], <<>>)
        BY <3>1 DEF RequestOK, RequestTypes
      <4> QED
        BY <3>1, <3>2, <4>1 DEF RequestOK, RequestTypes, IsEnd
    <3>4. ASSUME NEW r \in Requests \ {q}
          PROVE  RequestOK(r)'
      BY <3>1, <3>2 DEF RequestOK, RequestTypes, IsEnd
    <3> QED
      BY <2>1, <3>1, <3>2, <3>3, <3>4 DEF RequestTypes, Steps
  <2> QED
    BY <1>4, <2>1, <2>2, <2>3, <2>4, <2>5 DEF Serve
<1>5. ASSUME NEW p \in Auditds, Ingest(q, p)
      PROVE  TableTypes' /\ RequestTypes'
  <2>1. p \in Processes /\ p \notin Gateways
    BY DEF Processes
  <2>2. Tell(q, p, None, Batch) /\ pc[q] = "new" /\ UNCHANGED lines
    BY <1>5 DEF Ingest
  <2>3. RequestTypes'
    BY <2>1, <2>2, BatchWords, TellTypes
  <2> QED
    BY <1>2, <1>5, <2>3 DEF Ingest
<1>6. CASE SignToken(q)
  <2>1. req[q].claims \in Claims /\ req[q].at \in Gateways
    BY <1>6 DEF SignToken, RequestTypes, RequestOK
  <2>2. RequestTypes'
    BY <1>1, <1>6, <2>1 DEF SignToken, Statuses
  <2>3. tokens' \subseteq {claims \in Claims : claims.exp \in 1..(now' + TTL)}
    <3> DEFINE signed == [req[q].claims EXCEPT !.exp = now + TTL, !.signed = changes]
    <3>1. tokens' = tokens \cup {signed} /\ now' = now
      BY <1>6 DEF SignToken
    <3>2. signed \in Claims /\ signed.exp \in 1..(now + TTL)
      BY <2>1, SignedClaims
    <3> HIDE DEF signed
    <3> QED
      BY <3>1, <3>2 DEF TableTypes
  <2> QED
    BY <1>6, <2>2, <2>3 DEF SignToken, TableTypes
<1>7. CASE Handle(q)
  <2>1. req[q].at \in Gateways
    BY <1>7 DEF Handle, RequestTypes, RequestOK
  <2> QED
    BY <1>1, <1>2, <1>7, <2>1 DEF Handle
<1>8. CASE AppendEntry(q)
  <2>1. TableTypes'
    BY <1>2, <1>8 DEF AppendEntry
  <2>2. /\ pc[q] = "append" /\ pending[q] # <<>> /\ req[q].told \in Seq(Words)
        /\ IsEnd(pending[q], req[q].told) /\ req[q].at \in Processes
        /\ lines[q] = <<>>
    BY <1>8 DEF AppendEntry, RequestTypes, RequestOK
  <2>3. PICK step \in {"append", "print", "done"} :
          /\ req' = req /\ lines' = lines
          /\ pending' = [pending EXCEPT ![q] = Tail(@)]
          /\ pc' = [pc EXCEPT ![q] = step]
          /\ step = "append" => Tail(pending[q]) # <<>>
          /\ step = "print" => req[q].at \in Gateways
          /\ step = "done" => req[q].at \notin Gateways
    BY <1>8 DEF AppendEntry, Goto
  <2>4. RequestOK(q)'
    <3>1. IsEnd(Tail(pending[q]), req[q].told)
      BY <2>2, TailIsEnd
    <3>2. pending'[q] = Tail(pending[q]) /\ pc'[q] = step
      BY <2>3 DEF RequestTypes
    <3> QED
      BY <2>2, <2>3, <3>1, <3>2 DEF RequestOK, RequestTypes, IsEnd
  <2>5. ASSUME NEW r \in Requests \ {q}
        PROVE  RequestOK(r)'
    BY <2>3 DEF RequestOK, RequestTypes, IsEnd
  <2> QED
    BY <2>1, <2>3, <2>4, <2>5 DEF RequestTypes, Steps
<1>9. CASE PrintLine(q)
  <2>1. TableTypes'
    BY <1>2, <1>9 DEF PrintLine
  <2>2. PICK step \in {"done", "refused"} :
          /\ UNCHANGED <<req, pending>>
          /\ lines' = [lines EXCEPT ![q] = Append(@, req[q].status)]
          /\ pc' = [pc EXCEPT ![q] = step]
          /\ pc[q] = IF step = "done" THEN "print" ELSE "refuse"
    BY <1>9 DEF PrintLine, Goto
  <2>3. /\ req[q].at \in Gateways /\ req[q].status \in Statuses /\ lines[q] = <<>>
        /\ step = "done" => req[q].told = <<req[q].status>>
    BY <2>2 DEF RequestTypes, RequestOK
  <2>4. RequestOK(q)'
    <3>1. lines'[q] = <<req[q].status>> /\ pc'[q] = step
      BY <2>2, <2>3 DEF RequestTypes
    <3> QED
      BY <2>2, <2>3, <3>1 DEF RequestOK, RequestTypes, IsEnd
  <2>5. ASSUME NEW r \in Requests \ {q}
        PROVE  RequestOK(r)'
    BY <2>2 DEF RequestOK, RequestTypes, IsEnd
  <2> QED
    BY <2>1, <2>2, <2>4, <2>5 DEF RequestTypes, Steps
<1> QED
  BY <1>3, <1>4, <1>5, <1>6, <1>7, <1>8, <1>9 DEF Step

LEMMA TypeStep == TableTypes /\ RequestTypes /\ [Next]_vars => TableTypes' /\ RequestTypes'
<1> SUFFICES ASSUME TableTypes, RequestTypes, [Next]_vars
             PROVE  TableTypes' /\ RequestTypes'
  OBVIOUS
<1> USE GatewayAssumption
<1>1. ASSUME UNCHANGED <<requests, lines>>
      PROVE  RequestTypes'
  BY <1>1 DEF requests, RequestTypes, RequestOK, IsEnd
<1>2. ASSUME NEW p \in Processes, Restart(p)
      PROVE  TableTypes' /\ RequestTypes'
  <2>1. TableTypes'
    BY <1>2 DEF Restart, TableTypes, oauth
  <2>2. /\ UNCHANGED <<req, pending, lines>>
        /\ pc' \in [Requests -> Steps]
        /\ \A q \in Requests : pc'[q] = pc[q] \/ (pc'[q] = "lost" /\ pc[q] \in InProgress)
    BY <1>2 DEF Restart, RequestTypes, Steps
  <2>3. \A q \in Requests : RequestOK(q)'
    BY <2>2 DEF RequestTypes, RequestOK, IsEnd, InProgress
  <2> QED
    BY <2>1, <2>2, <2>3 DEF RequestTypes
<1>3. ASSUME NEW c \in Clients, NEW scopes \in SUBSET Scopes, SetScopes(c, scopes)
      PROVE  TableTypes' /\ RequestTypes'
  <2>1. changes' \in 0..MaxChanges /\ changes' = changes + 1 /\ 0..changes \subseteq 0..changes'
    BY <1>3 DEF SetScopes, TableTypes
  <2>2. removed' \in [Clients -> [Scopes -> [change: 0..changes', time: 0..now]]]
    <3> DEFINE row == [s \in Scopes |-> IF s \in clients[c] \ scopes
                         THEN [change |-> changes', time |-> now] ELSE removed[c][s]]
    <3>1. removed' = [removed EXCEPT ![c] = row]
      BY <1>3 DEF SetScopes
    <3>2. \A b \in Clients, s \in Scopes : removed[b][s] \in [change: 0..changes', time: 0..now]
      BY <2>1 DEF TableTypes
    <3>3. [change |-> changes', time |-> now] \in [change: 0..changes', time: 0..now]
      BY <2>1 DEF TableTypes
    <3>4. row \in [Scopes -> [change: 0..changes', time: 0..now]]
      BY <3>2, <3>3
    <3>5. \A b \in Clients : removed[b] \in [Scopes -> [change: 0..changes', time: 0..now]]
      BY <3>2 DEF TableTypes
    <3> HIDE DEF row
    <3> QED
      BY <3>1, <3>4, <3>5 DEF TableTypes
  <2>3. TableTypes'
    BY <1>3, <2>1, <2>2 DEF SetScopes, TableTypes
  <2> QED
    BY <1>1, <1>3, <2>3 DEF SetScopes
<1>4. CASE Tick
  <2>1. now' = now + 1 /\ now' \in 1..MaxTime /\ 0..now \subseteq 0..now'
        /\ 1..(now + TTL) \subseteq 1..(now' + TTL)
        /\ UNCHANGED <<lifetime, clients, changes, removed, tokens>>
    BY <1>4 DEF Tick, TableTypes, oauth
  <2>2. removed' \in [Clients -> [Scopes -> [change: 0..changes', time: 0..now']]]
    <3>1. \A b \in Clients, s \in Scopes : removed[b][s] \in [change: 0..changes, time: 0..now']
      BY <2>1 DEF TableTypes
    <3>2. \A b \in Clients : removed[b] \in [Scopes -> [change: 0..changes, time: 0..now']]
      BY <3>1 DEF TableTypes
    <3> QED
      BY <2>1, <3>2 DEF TableTypes
  <2>3. TableTypes'
    BY <2>1, <2>2 DEF TableTypes
  <2> QED
    BY <1>1, <1>4, <2>3 DEF Tick
<1>5. CASE UNCHANGED vars
  <2>1. UNCHANGED <<now, lifetime, clients, changes, removed, tokens>> /\ UNCHANGED <<requests, lines>>
    BY <1>5 DEF vars, oauth
  <2> QED
    BY <1>1, <2>1 DEF TableTypes
<1> QED
  BY <1>2, <1>3, <1>4, <1>5, StepTypes DEF Next

LEMMA TypesAlways == Spec => [](TableTypes /\ RequestTypes)
<1>1. Init => TableTypes /\ RequestTypes
  <2> SUFFICES ASSUME Init
               PROVE  TableTypes /\ RequestTypes
    OBVIOUS
  <2>1. TableTypes
    <3>1. [change |-> 0, time |-> 0] \in [change: 0..changes, time: 0..now]
      BY DEF Init
    <3> QED
      BY <3>1, GatewayAssumption DEF Init, TableTypes
  <2>2. <<>> \in Seq(Words) /\ IsEnd(<<>>, <<>>)
    <3>1. <<>> \in Seq(Words)
      OBVIOUS
    <3> QED
      BY <3>1, WholeIsEnd
  <2>3. \A q \in Requests : /\ req[q].told = <<>> /\ pending[q] = <<>>
                             /\ pc[q] = "new" /\ lines[q] = <<>>
    BY DEF Init, Blank
  <2>4. \A q \in Requests : RequestOK(q)
    BY <2>2, <2>3 DEF RequestOK
  <2>5. /\ pc \in [Requests -> Steps]
        /\ DOMAIN req = Requests /\ DOMAIN pending = Requests
        /\ lines = [q \in Requests |-> lines[q]]
    BY DEF Init, Steps
  <2> QED
    BY <2>1, <2>4, <2>5 DEF RequestTypes
<1> QED
  BY <1>1, TypeStep, PTL DEF Spec

(* The types hold; above all no token outlives its TTL, and what Append is *)
(* still to be called with is the end of what it is called with.           *)
THEOREM TypeCorrect == Spec => []TypeOK
<1>1. TableTypes /\ RequestTypes => TypeOK
  BY TypeParts
<1> QED
  BY <1>1, TypesAlways, PTL

-----------------------------------------------------------------------------
(* What the loggers have returned, and the hash that each keeps.           *)

LogInv ==
  /\ DOMAIN log = Processes /\ DOMAIN previousHash = Processes
  /\ \A entries \in Logs : IsChain(entries)
  /\ \A p \in Processes : previousHash[p] = PreviousHash(log[p])

(* A step leaves the loggers alone, has one of them make an entry, or ends *)
(* one.                                                                    *)
Logged(p, payload) ==
  /\ log' = [log EXCEPT ![p] = Extended(@, now, payload)]
  /\ previousHash' = [previousHash EXCEPT ![p] = PreviousHash(Extended(log[p], now, payload))]
  /\ ended' = ended

Ended(p) ==
  /\ log' = [log EXCEPT ![p] = <<>>]
  /\ previousHash' = [previousHash EXCEPT ![p] = ZeroHash]
  /\ ended' = ended \cup {log[p]}

(* The hash kept being that of the last entry, one more Append extends the *)
(* chain.                                                                  *)
LEMMA AppendToLogs ==
  ASSUME LogInv, NEW p \in Processes, NEW payload, AppendTo(p, payload)
  PROVE  Logged(p, payload)
<1> DEFINE entry == LogEntry(previousHash[p], now, payload)
<1>1. /\ previousHash' = [previousHash EXCEPT ![p] = entry.hash]
      /\ log' = [log EXCEPT ![p] = Append(log[p], entry)]
      /\ ended' = ended
  BY DEF AppendTo
<1>2. previousHash[p] = PreviousHash(log[p]) /\ IsChain(log[p])
  BY DEF LogInv, Logs
<1>3. Extended(log[p], now, payload) = Append(log[p], entry)
  BY <1>2 DEF Extended
<1>4. PreviousHash(Append(log[p], entry)) = entry.hash
  <2> HIDE DEF entry
  <2>1. PICK S : log[p] \in Seq(S)
    BY <1>2 DEF IsChain
  <2>2. log[p] \in Seq(S \cup {entry})
    BY <2>1
  <2>3. /\ Append(log[p], entry) # <<>>
        /\ Append(log[p], entry)[Len(Append(log[p], entry))] = entry
    BY <2>2
  <2> QED
    BY <2>3 DEF PreviousHash
<1> HIDE DEF entry
<1> QED
  BY <1>1, <1>3, <1>4 DEF Logged

(* Among what a request does, only AppendEntry is about the loggers.       *)
LEMMA StepLogs ==
  ASSUME LogInv, RequestTypes, NEW q \in Requests, Step(q)
  PROVE  UNCHANGED audit \/ Logged(req[q].at, <<q, Head(pending[q])>>)
<1>1. CASE AppendEntry(q)
  <2>1. req[q].at \in Processes /\ AppendTo(req[q].at, <<q, Head(pending[q])>>)
    BY <1>1 DEF AppendEntry, RequestTypes, RequestOK
  <2> QED
    BY <2>1, AppendToLogs
<1>2. CASE ~AppendEntry(q)
  BY <1>2 DEF Step, Refuse, Serve, Open, RequestToken, RefuseToken, Authenticate, RefuseRequest,
              Ingest, SignToken, Handle, HandlerPanics, PrintLine
<1> QED
  BY <1>1, <1>2

LEMMA LogStep ==
  ASSUME LogInv, RequestTypes, [Next]_vars
  PROVE  \/ UNCHANGED audit
         \/ \E q \in Requests : Logged(req[q].at, <<q, Head(pending[q])>>)
         \/ \E p \in Processes : Ended(p)
<1>1. ASSUME NEW p \in Processes, Restart(p)
      PROVE  Ended(p)
  BY <1>1 DEF Restart, Ended
<1>2. ASSUME Tick \/ \E c \in Clients, scopes \in SUBSET Scopes : SetScopes(c, scopes)
      PROVE  UNCHANGED audit
  BY <1>2 DEF Tick, SetScopes
<1>3. CASE UNCHANGED vars
  BY <1>3 DEF vars
<1> QED
  BY <1>1, <1>2, <1>3, StepLogs DEF Next

LEMMA LogInvStep == LogInv /\ RequestTypes /\ [Next]_vars => LogInv'
<1> SUFFICES ASSUME LogInv, RequestTypes, [Next]_vars
             PROVE  LogInv'
  OBVIOUS
<1>1. CASE UNCHANGED audit
  BY <1>1 DEF LogInv, Logs, audit, PreviousHash
<1>2. ASSUME NEW p, NEW payload, Logged(p, payload)
      PROVE  LogInv'
  <2>1. DOMAIN log' = Processes /\ DOMAIN previousHash' = Processes
    BY <1>2 DEF LogInv, Logged
  <2>2. ASSUME NEW r \in Processes
        PROVE  IsChain(log'[r]) /\ previousHash'[r] = PreviousHash(log'[r])
    <3>1. IsChain(log[r]) /\ previousHash[r] = PreviousHash(log[r])
      BY DEF LogInv, Logs
    <3>2. CASE r = p
      <4>1. /\ log'[r] = Extended(log[r], now, payload)
            /\ previousHash'[r] = PreviousHash(Extended(log[r], now, payload))
        BY <1>2, <3>2 DEF LogInv, Logged
      <4> QED
        BY <3>1, <4>1, ExtendedIsChain
    <3>3. CASE r # p
      <4>1. log'[r] = log[r] /\ previousHash'[r] = previousHash[r]
        BY <1>2, <3>3 DEF LogInv, Logged
      <4> QED
        BY <3>1, <4>1
    <3> QED
      BY <3>2, <3>3
  <2>3. \A entries \in ended' : IsChain(entries)
    BY <1>2 DEF LogInv, Logs, Logged
  <2> QED
    BY <2>1, <2>2, <2>3 DEF LogInv, Logs
<1>3. ASSUME NEW p \in Processes, Ended(p)
      PROVE  LogInv'
  <2>1. /\ DOMAIN log' = Processes /\ DOMAIN previousHash' = Processes
        /\ \A r \in Processes :
             \/ log'[r] = log[r] /\ previousHash'[r] = previousHash[r]
             \/ log'[r] = <<>> /\ previousHash'[r] = ZeroHash
    BY <1>3 DEF LogInv, Ended
  <2>2. \A entries \in Logs' : entries \in Logs \/ entries = <<>>
    BY <1>3, <2>1 DEF Logs, Ended
  <2>3. PreviousHash(<<>>) = ZeroHash
    BY DEF PreviousHash
  <2> QED
    BY <2>1, <2>2, <2>3, EmptyIsChain DEF LogInv
<1> QED
  BY <1>1, <1>2, <1>3, LogStep

LEMMA LogAlways == Spec => []LogInv
<1>1. Init => LogInv
  BY EmptyIsChain DEF Init, LogInv, Logs, PreviousHash
<1>2. TableTypes /\ RequestTypes => RequestTypes
  OBVIOUS
<1> QED
  BY <1>1, <1>2, LogInvStep, TypesAlways, PTL DEF Spec

-----------------------------------------------------------------------------
(* One hash.                                                               *)

(* Two chains that end with the same hash are the same, as far back as the *)
(* first goes: at the first step at which they were not, an entry would    *)
(* follow another than the one it stands behind.                           *)
LEMMA AlikeFromTheEnd ==
  ASSUME NEW e, IsChain(e), NEW f, IsChain(f), PreviousHash(e) = PreviousHash(f),
         NEW k \in 0..(Len(e) - 1)
  PROVE  k < Len(f) /\ e[Len(e) - k] = f[Len(f) - k]
<1> DEFINE n == Len(e)
           m == Len(f)
           Alike(i) == i < m /\ e[n - i] = f[m - i]
           B == {i \in 0..(n - 1) : ~Alike(i)}
<1>1. /\ n \in Nat /\ DOMAIN e = 1..n /\ (e = <<>> <=> n = 0)
      /\ m \in Nat /\ DOMAIN f = 1..m /\ (f = <<>> <=> m = 0)
  BY DEF IsChain
<1>2. ASSUME B # {} PROVE FALSE
  <2>1. PICK i \in B : \A h \in B : i <= h
    <3> B \in SUBSET Nat
      OBVIOUS
    <3> HIDE DEF B
    <3> QED
      BY <1>2, LeastOf
  <2>2. i \in 0..(n - 1) /\ ~Alike(i)
    OBVIOUS
  <2>3. CASE i = 0
    <3>1. n # 0 /\ n \in DOMAIN e /\ e[n].hash = PreviousHash(f)
      BY <1>1, <2>2 DEF PreviousHash
    <3>2. e[n] = LogEntry(e[n].previous_hash, e[n].timestamp, e[n].payload)
      BY <3>1 DEF IsChain
    <3>3. e[n].hash # ZeroHash
      <4>1. e[n].hash = <<e[n].previous_hash, e[n].timestamp, e[n].payload>>
        BY <3>2 DEF LogEntry, Hash
      <4> QED
        BY <4>1 DEF ZeroHash
    <3>4. m # 0 /\ m \in DOMAIN f /\ e[n].hash = f[m].hash
      BY <1>1, <3>1, <3>3 DEF PreviousHash
    <3>5. f[m] = LogEntry(f[m].previous_hash, f[m].timestamp, f[m].payload)
      BY <3>4 DEF IsChain
    <3>6. e[n] = f[m]
      BY <3>2, <3>4, <3>5, HashesTell
    <3> QED
      BY <1>1, <2>2, <2>3, <3>4, <3>6
  <2>4. CASE i # 0
    <3> DEFINE a == n - (i - 1)
               b == m - (i - 1)
    <3>1. i - 1 \in 0..(n - 1) /\ i - 1 \notin B
      BY <1>1, <2>1, <2>2, <2>4
    <3>2. i - 1 < m /\ e[a] = f[b]
      BY <3>1
    <3>3. /\ a \in DOMAIN e /\ a # 1 /\ a - 1 = n - i /\ n - i \in DOMAIN e
          /\ b \in DOMAIN f /\ b - 1 = m - i
      BY <1>1, <2>2, <2>4, <3>2
    <3>4. f[b].previous_hash = e[n - i].hash
      <4>1. e[a].previous_hash = e[a - 1].hash
        BY <3>3 DEF IsChain
      <4> QED
        BY <3>2, <3>3, <4>1
    <3>5. e[n - i] = LogEntry(e[n - i].previous_hash, e[n - i].timestamp, e[n - i].payload)
      BY <3>3 DEF IsChain
    <3>6. b > 1 /\ f[b - 1] = e[n - i]
      <4> DEFINE g == e[n - i]
      <4> HIDE DEF a, b, g, n, m
      <4>1. f[b].previous_hash = g.hash /\ b \in DOMAIN f
            /\ g = LogEntry(g.previous_hash, g.timestamp, g.payload)
        BY <3>3, <3>4, <3>5 DEF g
      <4>2. b > 1 /\ f[b - 1] = g
        BY <4>1, FollowsNeighbour
      <4> QED
        BY <4>2 DEF g
    <3> QED
      BY <1>1, <2>2, <2>4, <3>3, <3>6
  <2> QED
    BY <2>3, <2>4
<1> QED
  BY <1>2

LEMMA SameHashSameChain ==
  ASSUME NEW e, IsChain(e), NEW f, IsChain(f), PreviousHash(e) = PreviousHash(f)
  PROVE  e = f
<1> DEFINE n == Len(e)
           m == Len(f)
<1>1. PICK S : e \in Seq(S)
  BY DEF IsChain
<1>2. PICK T : f \in Seq(T)
  BY DEF IsChain
<1>3. /\ n \in Nat /\ DOMAIN e = 1..n /\ m \in Nat /\ DOMAIN f = 1..m
  BY <1>1, <1>2
<1>4. \A k \in 0..(n - 1) : k < m /\ e[n - k] = f[m - k]
  BY AlikeFromTheEnd
<1>5. \A k \in 0..(m - 1) : k < n
  BY AlikeFromTheEnd
<1>6. n = m
  <2>1. n # 0 => n - 1 \in 0..(n - 1)
    BY <1>3
  <2>2. m # 0 => m - 1 \in 0..(m - 1)
    BY <1>3
  <2>3. n <= m
    BY <1>3, <1>4, <2>1
  <2>4. m <= n
    BY <1>3, <1>5, <2>2
  <2> HIDE DEF n, m
  <2> QED
    BY <1>3, <2>3, <2>4
<1>7. ASSUME NEW i \in 1..n
      PROVE  e[i] = f[i]
  <2>1. n - i \in 0..(n - 1) /\ n - (n - i) = i /\ m - (n - i) = i
    BY <1>3, <1>6
  <2>2. e[n - (n - i)] = f[m - (n - i)]
    BY <1>4, <2>1
  <2> QED
    BY <2>1, <2>2
<1> HIDE DEF n, m
<1>8. e \in Seq(S \cup T) /\ f \in Seq(S \cup T)
  BY <1>1, <1>2
<1>9. Len(e) = Len(f) /\ \A i \in 1..Len(e) : e[i] = f[i]
  BY <1>6, <1>7 DEF n, m
<1> QED
  BY <1>8, <1>9, SeqEqual

(* The hash that a logger keeps is all the program has of its audit log,   *)
(* and it is enough to tell it: whoever comes with a chain of entries that *)
(* begins at the zeros and ends at that hash comes with exactly those that *)
(* Append has returned since the process began, in their order.            *)
OneHashTellsAll ==
  \A p \in Processes : \A entries :
    IsChain(entries) => (PreviousHash(entries) = previousHash[p] <=> entries = log[p])

THEOREM OneHashIsEnough == Spec => []OneHashTellsAll
<1>1. LogInv => OneHashTellsAll
  <2> SUFFICES ASSUME LogInv, NEW p \in Processes, NEW entries, IsChain(entries)
               PROVE  PreviousHash(entries) = previousHash[p] <=> entries = log[p]
    BY DEF OneHashTellsAll
  <2>1. IsChain(log[p]) /\ previousHash[p] = PreviousHash(log[p])
    BY DEF LogInv, Logs
  <2> QED
    BY <2>1, SameHashSameChain
<1> QED
  BY <1>1, LogAlways, PTL

-----------------------------------------------------------------------------
(* Pieces of logs.                                                         *)

Made == UNION {{entries[i] : i \in DOMAIN entries} : entries \in Logs}

LEMMA MadeEntry ==
  ASSUME LogInv, NEW e \in Made
  PROVE  /\ e = LogEntry(e.previous_hash, e.timestamp, e.payload)
         /\ \E entries \in Logs : \E i \in DOMAIN entries : e = entries[i]
<1>1. PICK entries \in Logs : \E i \in DOMAIN entries : e = entries[i]
  BY DEF Made
<1>2. IsChain(entries)
  BY DEF LogInv
<1> QED
  BY <1>1, <1>2 DEF IsChain

(* As far back from an entry of a log as a collection that verifies goes,   *)
(* it is the log: the first step at which it were not would have an entry  *)
(* follow another than the one it stands behind.                           *)
LEMMA BackwardsAlike ==
  ASSUME LogInv, NEW collected \in Seq(Made), VerifyChain(collected),
         NEW entries \in Logs, NEW j \in DOMAIN entries, collected # <<>>,
         collected[Len(collected)] = entries[j],
         NEW m \in 0..(Len(collected) - 1)
  PROVE  j - m \in DOMAIN entries /\ collected[Len(collected) - m] = entries[j - m]
<1> DEFINE n == Len(collected)
           Alike(k) == j - k \in DOMAIN entries /\ collected[n - k] = entries[j - k]
           B == {k \in 0..(n - 1) : ~Alike(k)}
<1>1. n \in Nat /\ DOMAIN collected = 1..n /\ n # 0
  BY EmptySeq
<1>2. IsChain(entries) /\ DOMAIN entries = 1..Len(entries) /\ Len(entries) \in Nat
  BY DEF LogInv, IsChain
<1>3. ASSUME B # {} PROVE FALSE
  <2>1. PICK k \in B : \A i \in B : k <= i
    <3> B \in SUBSET Nat
      OBVIOUS
    <3> HIDE DEF B
    <3> QED
      BY <1>3, LeastOf
  <2>2. k \in 0..(n - 1) /\ ~Alike(k)
    OBVIOUS
  <2>3. k # 0
    BY <1>1, <1>2, <2>2
  <2>4. k - 1 \in 0..(n - 1) /\ k - 1 \notin B
    BY <1>1, <2>1, <2>2, <2>3
  <2>5. j - (k - 1) \in DOMAIN entries /\ collected[n - (k - 1)] = entries[j - (k - 1)]
    BY <2>4
  <2>6. n - (k - 1) \in DOMAIN collected /\ n - (k - 1) > 1 /\ (n - (k - 1)) - 1 = n - k
    BY <1>1, <2>2, <2>3
  <2>7. collected[n - (k - 1)].previous_hash = collected[n - k].hash
    BY <2>6 DEF VerifyChain
  <2>8. collected[n - k] \in Made
    BY <1>1, <2>2
  <2>9. /\ (j - (k - 1)) - 1 \in DOMAIN entries
        /\ entries[(j - (k - 1)) - 1] = collected[n - k]
    <3> DEFINE i == j - (k - 1)
               e == collected[n - k]
    <3>1. i \in DOMAIN entries /\ entries[i].previous_hash = e.hash
      BY <2>5, <2>7
    <3>2. e = LogEntry(e.previous_hash, e.timestamp, e.payload)
      BY <2>8, MadeEntry
    <3>3. i > 1 /\ i - 1 \in DOMAIN entries /\ entries[i - 1] = e
      <4> HIDE DEF i, e
      <4>1. IsChain(entries)
        BY <1>2
      <4> QED
        BY <3>1, <3>2, <4>1, FollowsNeighbour
    <3> QED
      BY <3>3 DEF i, e
  <2>10. (j - (k - 1)) - 1 = j - k
    BY <1>2, <2>2
  <2> QED
    BY <2>2, <2>9, <2>10
<1> QED
  BY <1>3

(* A collection that verifies is a piece of the log its last entry is in.  *)
LEMMA ChainIsPiece ==
  ASSUME LogInv, NEW collected \in Seq(Made), collected # <<>>, VerifyChain(collected)
  PROVE  \E entries \in Logs : IsPieceOf(collected, entries)
<1> DEFINE n == Len(collected)
<1>1. n \in Nat /\ DOMAIN collected = 1..n /\ n # 0
  BY EmptySeq
<1>2. collected[n] \in Made
  BY <1>1
<1>3. PICK entries \in Logs : \E j \in DOMAIN entries : collected[n] = entries[j]
  BY <1>2, MadeEntry
<1>4. PICK j \in DOMAIN entries : collected[n] = entries[j]
  BY <1>3
<1>5. DOMAIN entries = 1..Len(entries) /\ Len(entries) \in Nat
  BY DEF LogInv, IsChain
<1>6. \A m \in 0..(n - 1) : j - m \in DOMAIN entries /\ collected[n - m] = entries[j - m]
  BY <1>4, BackwardsAlike
<1> DEFINE i == j - n
<1>7. i \in 0..Len(entries) /\ i + n <= Len(entries)
  <2>1. n - 1 \in 0..(n - 1)
    BY <1>1
  <2>2. j - (n - 1) \in DOMAIN entries
    BY <1>6, <2>1
  <2> QED
    BY <1>1, <1>5, <2>2
<1>8. ASSUME NEW k \in DOMAIN collected
      PROVE  collected[k] = entries[i + k]
  <2>1. n - k \in 0..(n - 1) /\ n - (n - k) = k /\ j - (n - k) = i + k
    BY <1>1, <1>5
  <2>2. collected[n - (n - k)] = entries[j - (n - k)]
    BY <1>6, <2>1
  <2> QED
    BY <2>1, <2>2
<1> HIDE DEF i
<1> QED
  BY <1>7, <1>8 DEF IsPieceOf

(* What VerifyChain accepts, of any length: the pieces of one log.         *)
LEMMA ChainsArePieces ==
  ASSUME LogInv, NEW collected \in Seq(Made), collected # <<>>
  PROVE  VerifyChain(collected) <=> \E entries \in Logs : IsPieceOf(collected, entries)
<1>1. DOMAIN collected = 1..Len(collected) /\ Len(collected) \in Nat
  OBVIOUS
<1>2. ASSUME NEW entries \in Logs, IsPieceOf(collected, entries)
      PROVE  VerifyChain(collected)
  BY <1>1, <1>2, PieceVerifies DEF LogInv
<1> QED
  BY <1>2, ChainIsPiece

(* Whatever processes, requests and restarts there were, entries that were *)
(* made verify exactly when they are a piece of one log, however many they *)
(* are.                                                                    *)
AnyPieceVerifies ==
  \A collected \in Seq(Made) \ {<<>>} :
    VerifyChain(collected) <=> \E entries \in Logs : IsPieceOf(collected, entries)

THEOREM AllPiecesVerify == Spec => []AnyPieceVerifies
<1>1. LogInv => AnyPieceVerifies
  BY ChainsArePieces DEF AnyPieceVerifies
<1> QED
  BY <1>1, LogAlways, PTL

(* In particular two entries, or three.                                    *)
THEOREM PiecesAlwaysVerify == Spec => []PiecesVerify
<1>1. AnyPieceVerifies => PiecesVerify
  <2> SUFFICES ASSUME AnyPieceVerifies,
                      NEW collected \in {<<e, f>> : e, f \in Made}
                                          \cup {<<e, f, g>> : e, f, g \in Made}
               PROVE  VerifyChain(collected) <=> \E entries \in Logs : IsPieceOf(collected, entries)
    BY DEF PiecesVerify, Made
  <2>1. ASSUME NEW e \in Made, NEW f \in Made, NEW g \in Made
        PROVE  {<<e, f>>, <<e, f, g>>} \subseteq Seq(Made) \ {<<>>}
    OBVIOUS
  <2>2. collected \in Seq(Made) \ {<<>>}
    <3>1. CASE collected \in {<<e, f>> : e, f \in Made}
      <4>1. PICK e, f \in Made : collected = <<e, f>>
        BY <3>1
      <4> QED
        BY <2>1, <4>1
    <3>2. CASE collected \in {<<e, f, g>> : e, f, g \in Made}
      <4>1. PICK e, f, g \in Made : collected = <<e, f, g>>
        BY <3>2
      <4> QED
        BY <2>1, <4>1
    <3> QED
      BY <3>1, <3>2
  <2> QED
    BY <2>2 DEF AnyPieceVerifies
<1> QED
  BY <1>1, AllPiecesVerify, PTL

-----------------------------------------------------------------------------
(* Scopes.  Claims were made of a row of oauth_clients: what the client    *)
(* has lost of them since it lost after that row was read; and a token     *)
(* that was signed before the loss expires at the latest TTL after it.     *)

Granted(claims) ==
  /\ claims.read <= changes
  /\ \A s \in claims.scopes : \/ s \in clients[claims.client]
                              \/ claims.read < removed[claims.client][s].change

RunsOut(claims) ==
  \A s \in claims.scopes : claims.signed < removed[claims.client][s].change =>
    claims.exp <= removed[claims.client][s].time + TTL

ScopeInv ==
  /\ \A claims \in tokens : Granted(claims) /\ RunsOut(claims)
  /\ \A q \in Requests : pc[q] = "sign" => Granted(req[q].claims)

(* A change of the table is later than any row that was read.              *)
LEMMA GrantedStays ==
  ASSUME TableTypes, NEW c \in Clients, NEW scopes \in SUBSET Scopes, SetScopes(c, scopes),
         NEW claims \in Claims, Granted(claims)
  PROVE  /\ Granted(claims)'
         /\ \A s \in claims.scopes :
              \/ removed'[claims.client][s] = removed[claims.client][s]
              \/ removed'[claims.client][s].time = now
<1>1. /\ claims.client \in Clients /\ claims.scopes \subseteq Scopes
      /\ claims.read \in Nat /\ claims.read <= changes
      /\ changes \in Nat /\ changes' = changes + 1
  BY DEF Claims, Granted, SetScopes, TableTypes
<1>2. clients' = [clients EXCEPT ![c] = scopes] /\ c \in DOMAIN clients
  BY DEF SetScopes, TableTypes
<1>3. ASSUME NEW s \in claims.scopes
      PROVE  IF claims.client = c /\ s \in clients[c] \ scopes
               THEN removed'[claims.client][s] = [change |-> changes + 1, time |-> now]
               ELSE removed'[claims.client][s] = removed[claims.client][s]
  <2> DEFINE row == [s0 \in Scopes |-> IF s0 \in clients[c] \ scopes
                       THEN [change |-> changes', time |-> now] ELSE removed[c][s0]]
  <2>1. removed' = [removed EXCEPT ![c] = row] /\ DOMAIN removed = Clients /\ s \in Scopes
    BY <1>1 DEF SetScopes, TableTypes
  <2>2. row[s] = IF s \in clients[c] \ scopes
                   THEN [change |-> changes + 1, time |-> now] ELSE removed[c][s]
    BY <1>1, <2>1
  <2> HIDE DEF row
  <2> QED
    BY <1>1, <2>1, <2>2
<1>4. ASSUME NEW s \in claims.scopes
      PROVE  s \in clients'[claims.client] \/ claims.read < removed'[claims.client][s].change
  <2>1. CASE claims.client = c /\ s \in clients[c] \ scopes
    BY <1>1, <1>3, <2>1
  <2>2. CASE ~(claims.client = c /\ s \in clients[c] \ scopes)
    <3>1. removed'[claims.client][s] = removed[claims.client][s]
      BY <1>3, <2>2
    <3>2. s \in clients[claims.client] => s \in clients'[claims.client]
      BY <1>1, <1>2, <2>2
    <3> QED
      BY <3>1, <3>2 DEF Granted
  <2> QED
    BY <2>1, <2>2
<1>5. claims.read <= changes'
  BY <1>1
<1> QED
  BY <1>3, <1>4, <1>5 DEF Granted

LEMMA ScopeStep == TableTypes /\ RequestTypes /\ ScopeInv /\ [Next]_vars => ScopeInv'
<1> SUFFICES ASSUME TableTypes, RequestTypes, ScopeInv, [Next]_vars
             PROVE  ScopeInv'
  OBVIOUS
<1>1. ASSUME UNCHANGED <<clients, changes, removed, tokens>>,
             \A q \in Requests : pc'[q] = "sign" => pc[q] = "sign" /\ req'[q].claims = req[q].claims
      PROVE  ScopeInv'
  BY <1>1 DEF ScopeInv, Granted, RunsOut
<1>2. ASSUME NEW q \in Requests, NEW p, NEW status, NEW payloads, Tell(q, p, status, payloads)
      PROVE  \A r \in Requests : pc'[r] = "sign" => pc[r] = "sign" /\ req'[r].claims = req[r].claims
  BY <1>2 DEF Tell, Goto, RequestTypes
<1>3. ASSUME NEW q \in Requests,
             \/ HandlerPanics(q) \/ AppendEntry(q) \/ PrintLine(q)
             \/ Handle(q) \/ \E p \in Auditds : Ingest(q, p)
             \/ \E p \in Gateways :
                  \/ Refuse(q, p) \/ Open(q, p) \/ RefuseToken(q, p) \/ RefuseRequest(q, p)
                  \/ \E scope \in Scopes, claims \in tokens : Authenticate(q, p, claims, scope)
      PROVE  ScopeInv'
  <2>1. UNCHANGED <<clients, changes, removed, tokens>>
    BY <1>3 DEF Refuse, HandlerPanics, AppendEntry, PrintLine, Handle, Ingest, Open, RefuseToken,
                RefuseRequest, Authenticate, oauth
  <2>2. CASE HandlerPanics(q) \/ AppendEntry(q) \/ PrintLine(q)
    <3>1. /\ req' = req
          /\ \E step \in {"refused", "panicked", "append", "print", "done"} : Goto(q, step)
      BY <2>2 DEF HandlerPanics, AppendEntry, PrintLine
    <3> QED
      BY <1>1, <2>1, <3>1 DEF RequestTypes, Goto
  <2>3. CASE \E p \in Gateways :
               \/ Refuse(q, p)
               \/ \E scope \in Scopes, claims \in tokens : Authenticate(q, p, claims, scope)
    <3>1. /\ \E step \in {"handler", "refuse"} : pc' = [pc EXCEPT ![q] = step]
          /\ \A r \in Requests \ {q} : req'[r] = req[r]
      BY <2>3 DEF Refuse, Authenticate, Goto, RequestTypes
    <3> QED
      BY <1>1, <2>1, <3>1 DEF RequestTypes
  <2>4. CASE \/ Handle(q) \/ \E p \in Auditds : Ingest(q, p)
             \/ \E p \in Gateways : Open(q, p) \/ RefuseToken(q, p) \/ RefuseRequest(q, p)
    <3>1. \E p, status, payloads : Tell(q, p, status, payloads)
      BY <2>4 DEF Handle, Ingest, Open, RefuseToken, RefuseRequest, Respond
    <3> QED
      BY <1>1, <1>2, <2>1, <3>1
  <2> QED
    BY <1>3, <2>2, <2>3, <2>4
<1>4. ASSUME NEW q \in Requests, NEW p \in Gateways, NEW c \in Clients,
             NEW requested \in SUBSET Scopes, RequestToken(q, p, c, requested)
      PROVE  ScopeInv'
  <2>1. UNCHANGED <<clients, changes, removed, tokens>>
    BY <1>4 DEF RequestToken, oauth
  <2>2. /\ req'[q].claims = ClaimsOf(p, c, requested)
        /\ \A r \in Requests \ {q} : req'[r] = req[r] /\ pc'[r] = pc[r]
    BY <1>4 DEF RequestToken, Goto, RequestTypes
  <2>3. Granted(ClaimsOf(p, c, requested))
    <3>1. changes \in Nat
      BY DEF TableTypes
    <3> QED
      BY <3>1 DEF Granted, ClaimsOf, intersectScopes
  <2> QED
    BY <2>1, <2>2, <2>3 DEF ScopeInv, Granted, RunsOut
<1>5. ASSUME NEW q \in Requests, SignToken(q)
      PROVE  ScopeInv'
  <2> DEFINE signed == [req[q].claims EXCEPT !.exp = now + TTL, !.signed = changes]
  <2>1. /\ tokens' = tokens \cup {signed}
        /\ UNCHANGED <<clients, changes, removed>>
        /\ pc[q] = "sign" /\ Tell(q, req[q].at, "ok", <<"ok">>)
    BY <1>5 DEF SignToken, Respond
  <2>2. req[q].claims \in Claims /\ req[q].at \in Processes /\ Granted(req[q].claims)
    BY <2>1 DEF RequestTypes, RequestOK, ScopeInv, Processes
  <2>3. /\ signed.signed = changes /\ signed.read = req[q].claims.read
        /\ signed.client = req[q].claims.client /\ signed.scopes = req[q].claims.scopes
    BY <2>2, SignedClaims
  <2> HIDE DEF signed
  <2>4. Granted(signed)
    BY <2>2, <2>3 DEF Granted
  <2>5. \A c \in Clients, s \in Scopes : ~(changes < removed[c][s].change)
    BY DEF TableTypes
  <2>6. RunsOut(signed)
    <3>1. signed.client \in Clients /\ signed.scopes \subseteq Scopes
      BY <2>2, <2>3 DEF Claims
    <3> QED
      BY <2>3, <2>5, <3>1 DEF RunsOut
  <2>7. \A claims \in tokens' : Granted(claims)' /\ RunsOut(claims)'
    BY <2>1, <2>4, <2>6 DEF ScopeInv, Granted, RunsOut
  <2>8. \A r \in Requests : pc'[r] = "sign" => pc[r] = "sign" /\ req'[r].claims = req[r].claims
    BY <1>2, <2>1, <2>2
  <2> QED
    BY <2>1, <2>7, <2>8 DEF ScopeInv, Granted
<1>6. ASSUME NEW c \in Clients, NEW scopes \in SUBSET Scopes, SetScopes(c, scopes)
      PROVE  ScopeInv'
  <2>1. tokens' = tokens /\ pc' = pc /\ req' = req
    BY <1>6 DEF SetScopes, requests
  <2>2. ASSUME NEW claims \in tokens
        PROVE  Granted(claims)' /\ RunsOut(claims)'
    <3>1. claims \in Claims /\ claims.exp \in 1..(now + TTL) /\ Granted(claims) /\ RunsOut(claims)
      BY DEF TableTypes, ScopeInv
    <3>2. Granted(claims)'
      BY <1>6, <3>1, GrantedStays
    <3>3. \A s \in claims.scopes : \/ removed'[claims.client][s] = removed[claims.client][s]
                                   \/ removed'[claims.client][s].time = now
      BY <1>6, <3>1, GrantedStays
    <3>4. claims.exp <= now + TTL
      BY <3>1
    <3> QED
      BY <3>1, <3>2, <3>3, <3>4 DEF RunsOut
  <2>3. ASSUME NEW q \in Requests, pc[q] = "sign"
        PROVE  Granted(req[q].claims)'
    <3>1. req[q].claims \in Claims /\ Granted(req[q].claims)
      BY <2>3 DEF RequestTypes, RequestOK, ScopeInv
    <3>2. Granted(req[q].claims)'
      BY <1>6, <2>1, <3>1, GrantedStays DEF Granted
    <3> QED
      BY <3>2
  <2> QED
    BY <2>1, <2>2, <2>3 DEF ScopeInv
<1>7. ASSUME NEW p \in Processes, Restart(p)
      PROVE  ScopeInv'
  <2>1. UNCHANGED <<clients, changes, removed, tokens, req>>
    BY <1>7 DEF Restart, oauth
  <2>2. \A q \in Requests : pc'[q] = pc[q] \/ pc'[q] = "lost"
    BY <1>7 DEF Restart
  <2> QED
    BY <1>1, <2>1, <2>2
<1>8. CASE Tick \/ UNCHANGED vars
  BY <1>1, <1>8 DEF Tick, vars, oauth, requests
<1> QED
  BY <1>3, <1>4, <1>5, <1>6, <1>7, <1>8 DEF Next, Step, Serve

(* A handler begins only by authentication.                                *)
LEMMA HandlerBegins ==
  ASSUME RequestTypes, [Next]_vars, NEW q \in Requests, pc[q] # "handler", pc'[q] = "handler"
  PROVE  \E p \in Gateways, scope \in Scopes, claims \in tokens : Authenticate(q, p, claims, scope)
<1>1. ASSUME NEW r \in Requests, NEW step, step # "handler", Goto(r, step)
      PROVE  FALSE
  BY <1>1 DEF Goto, RequestTypes
<1>2. ASSUME NEW r \in Requests, Step(r)
      PROVE  \E p \in Gateways, scope \in Scopes, claims \in tokens : Authenticate(r, p, claims, scope)
  BY <1>1, <1>2 DEF Step, Refuse, Serve, Open, RequestToken, RefuseToken, RefuseRequest, Ingest,
                    SignToken, Handle, HandlerPanics, AppendEntry, PrintLine, Respond, Tell
<1>3. ASSUME NEW r \in Requests, NEW p \in Gateways, NEW scope \in Scopes, NEW claims \in tokens,
             Authenticate(r, p, claims, scope)
      PROVE  r = q
  BY <1>3 DEF Authenticate, Goto, RequestTypes
<1>4. ASSUME NEW p \in Processes, Restart(p)
      PROVE  FALSE
  BY <1>4 DEF Restart
<1>5. ASSUME Tick \/ UNCHANGED vars \/ \E c \in Clients, scopes \in SUBSET Scopes : SetScopes(c, scopes)
      PROVE  FALSE
  BY <1>5 DEF Tick, vars, SetScopes, requests
<1> QED
  BY <1>2, <1>3, <1>4, <1>5 DEF Next

(* However reads, signatures and changes of oauth_clients interleave: a    *)
(* scope that was lost is served only on what was read before, and from    *)
(* TTL after the loss only if the signature was still to come.             *)
THEOREM LostScopesEnd == Spec => LostScopesRunOut
<1> DEFINE Served == \A q \in Requests :
             pc[q] # "handler" /\ pc'[q] = "handler" =>
               LET claims == req'[q].claims
                   scope == req'[q].scope
                   loss == removed[claims.client][scope]
               IN  \/ scope \in clients[claims.client]
                   \/ /\ claims.read < loss.change
                      /\ now < loss.time + TTL \/ claims.signed >= loss.change
<1>1. TableTypes /\ RequestTypes /\ ScopeInv /\ [Next]_vars => Served
  <2> SUFFICES ASSUME TableTypes, RequestTypes, ScopeInv, [Next]_vars, NEW q \in Requests,
                      pc[q] # "handler", pc'[q] = "handler"
               PROVE  LET claims == req'[q].claims
                          scope == req'[q].scope
                          loss == removed[claims.client][scope]
                      IN  \/ scope \in clients[claims.client]
                          \/ /\ claims.read < loss.change
                             /\ now < loss.time + TTL \/ claims.signed >= loss.change
    OBVIOUS
  <2>1. PICK p \in Gateways, scope \in Scopes, claims \in tokens : Authenticate(q, p, claims, scope)
    BY HandlerBegins
  <2>2. req'[q].claims = claims /\ req'[q].scope = scope /\ scope \in claims.scopes /\ now < claims.exp
    BY <2>1 DEF Authenticate, Validate, RequestTypes
  <2>3. Granted(claims) /\ RunsOut(claims)
    BY DEF ScopeInv
  <2>4. /\ claims.client \in Clients /\ claims.signed \in Nat /\ claims.exp \in Nat /\ now \in Nat
        /\ removed[claims.client][scope].change \in Nat /\ removed[claims.client][scope].time \in Nat
    <3>1. claims \in Claims /\ removed[claims.client][scope] \in [change: 0..changes, time: 0..now]
      BY DEF TableTypes, Claims
    <3> QED
      BY <3>1, GatewayAssumption DEF TableTypes, Claims
  <2> QED
    BY <2>2, <2>3, <2>4, GatewayAssumption DEF Granted, RunsOut
<1>2. Init => ScopeInv
  BY DEF Init, ScopeInv
<1>3. Spec => [][Served]_vars
  BY <1>1, <1>2, ScopeStep, TypesAlways, PTL DEF Spec
<1> QED
  BY <1>3 DEF LostScopesRunOut

-----------------------------------------------------------------------------
(* The audit log and the answers.                                          *)

(* What an Append does to a log, position by position.                     *)
LEMMA ExtendedAt ==
  ASSUME NEW entries, IsChain(entries), NEW timestamp, NEW payload
  PROVE  LET longer == Extended(entries, timestamp, payload)
             n == Len(entries) + 1
         IN  /\ Len(entries) \in Nat
             /\ DOMAIN entries = 1..Len(entries)
             /\ DOMAIN longer = 1..n
             /\ longer[n].payload = payload
             /\ \A k \in 1..Len(entries) : longer[k] = entries[k]
<1> DEFINE new == LogEntry(PreviousHash(entries), timestamp, payload)
           longer == Append(entries, new)
           n == Len(entries) + 1
<1>1. PICK S : entries \in Seq(S)
  BY DEF IsChain
<1>2. new.payload = payload
  BY DEF LogEntry
<1> HIDE DEF new
<1>3. entries \in Seq(S \cup {new}) /\ Len(entries) \in Nat /\ DOMAIN entries = 1..Len(entries)
  BY <1>1
<1>4. /\ DOMAIN longer = 1..n
      /\ longer[n] = new
      /\ \A k \in 1..Len(entries) : longer[k] = entries[k]
  BY <1>3
<1>5. Extended(entries, timestamp, payload) = longer
  BY DEF Extended, new
<1> HIDE DEF longer
<1> QED
  BY <1>2, <1>3, <1>4, <1>5

Silent(entries, q) == \A k \in DOMAIN entries : entries[k].payload[1] # q

LEMMA SilentTells ==
  ASSUME NEW entries, NEW q
  PROVE  Silent(entries, q) <=> Tells(entries, q, <<>>)
<1>1. DOMAIN <<>> = {}
  OBVIOUS
<1>2. ASSUME Silent(entries, q)
      PROVE  Tells(entries, q, <<>>)
  <2> DEFINE at == [i \in DOMAIN <<>> |-> i]
  <2>1. at \in [DOMAIN <<>> -> DOMAIN entries]
    BY <1>1
  <2> HIDE DEF at
  <2> QED
    BY <1>1, <1>2, <2>1 DEF Tells, Silent
<1> QED
  BY <1>1, <1>2 DEF Tells, Silent

(* An entry about another request changes nothing of what a log says of q. *)
LEMMA OthersEntry ==
  ASSUME NEW entries, IsChain(entries), NEW timestamp, NEW q, NEW r, r # q, NEW word, NEW part
  PROVE  LET longer == Extended(entries, timestamp, <<r, word>>) IN
         /\ Silent(entries, q) => Silent(longer, q)
         /\ Tells(entries, q, part) => Tells(longer, q, part)
<1> DEFINE payload == <<r, word>>
           longer == Extended(entries, timestamp, payload)
           n == Len(entries) + 1
<1>1. payload[1] = r
  OBVIOUS
<1> HIDE DEF payload
<1>2. /\ Len(entries) \in Nat
      /\ DOMAIN entries = 1..Len(entries)
      /\ DOMAIN longer = 1..n
      /\ longer[n].payload = payload
      /\ \A k \in 1..Len(entries) : longer[k] = entries[k]
  BY ExtendedAt
<1> HIDE DEF longer
<1>3. Silent(entries, q) => Silent(longer, q)
  BY <1>1, <1>2 DEF Silent
<1>4. ASSUME Tells(entries, q, part)
      PROVE  Tells(longer, q, part)
  <2>1. PICK at \in [DOMAIN part -> DOMAIN entries] :
          /\ \A i, j \in DOMAIN part : i < j => at[i] < at[j]
          /\ \A i \in DOMAIN part : entries[at[i]].payload = <<q, part[i]>>
          /\ \A k \in DOMAIN entries :
               entries[k].payload[1] = q => \E i \in DOMAIN part : at[i] = k
    BY <1>4 DEF Tells
  <2>2. at \in [DOMAIN part -> DOMAIN longer]
    BY <1>2
  <2>3. \A i \in DOMAIN part : longer[at[i]].payload = <<q, part[i]>>
    BY <1>2, <2>1
  <2>4. \A k \in DOMAIN longer :
          longer[k].payload[1] = q => \E i \in DOMAIN part : at[i] = k
    BY <1>1, <1>2, <2>1
  <2> QED
    BY <2>1, <2>2, <2>3, <2>4 DEF Tells
<1> QED
  BY <1>3, <1>4 DEF longer, payload

(* An entry about q adds its word to what the log says of it.              *)
LEMMA OwnEntry ==
  ASSUME NEW entries, IsChain(entries), NEW timestamp, NEW q,
         NEW part \in Seq(Words), NEW word \in Words, Tells(entries, q, part)
  PROVE  Tells(Extended(entries, timestamp, <<q, word>>), q, Append(part, word))
<1> DEFINE payload == <<q, word>>
           longer == Extended(entries, timestamp, payload)
           n == Len(entries) + 1
           more == Append(part, word)
           m == Len(part) + 1
<1>1. /\ Len(entries) \in Nat
      /\ DOMAIN entries = 1..Len(entries)
      /\ DOMAIN longer = 1..n
      /\ longer[n].payload = payload
      /\ \A k \in 1..Len(entries) : longer[k] = entries[k]
  <2> HIDE DEF payload
  <2> QED
    BY ExtendedAt
<1>2. /\ Len(part) \in Nat /\ DOMAIN part = 1..Len(part)
      /\ DOMAIN more = 1..m
      /\ more[m] = word
      /\ \A i \in 1..Len(part) : more[i] = part[i]
  OBVIOUS
<1> HIDE DEF longer, more
<1>3. PICK at \in [DOMAIN part -> DOMAIN entries] :
        /\ \A i, j \in DOMAIN part : i < j => at[i] < at[j]
        /\ \A i \in DOMAIN part : entries[at[i]].payload = <<q, part[i]>>
        /\ \A k \in DOMAIN entries :
             entries[k].payload[1] = q => \E i \in DOMAIN part : at[i] = k
  BY DEF Tells
<1> DEFINE all == [i \in 1..m |-> IF i = m THEN n ELSE at[i]]
<1>4. all[m] = n /\ \A i \in 1..Len(part) : all[i] = at[i] /\ at[i] \in 1..Len(entries)
  BY <1>1, <1>2
<1>5. all \in [DOMAIN more -> DOMAIN longer]
  BY <1>1, <1>2
<1> HIDE DEF all
<1>6. ASSUME NEW i \in DOMAIN more, NEW j \in DOMAIN more, i < j
      PROVE  all[i] < all[j]
  <2>1. i \in 1..Len(part)
    BY <1>2, <1>6
  <2>2. CASE j = m
    BY <1>1, <1>4, <2>1, <2>2
  <2>3. CASE j # m
    <3>1. j \in 1..Len(part)
      BY <1>2, <2>3
    <3> QED
      BY <1>2, <1>3, <1>4, <1>6, <2>1, <3>1
  <2> QED
    BY <2>2, <2>3
<1>7. ASSUME NEW i \in DOMAIN more
      PROVE  longer[all[i]].payload = <<q, more[i]>>
  <2>1. CASE i = m
    BY <1>1, <1>2, <1>4, <2>1
  <2>2. CASE i # m
    <3>1. i \in 1..Len(part)
      BY <1>2, <2>2
    <3> QED
      BY <1>1, <1>2, <1>3, <1>4, <3>1
  <2> QED
    BY <2>1, <2>2
<1>8. ASSUME NEW k \in DOMAIN longer, longer[k].payload[1] = q
      PROVE  \E i \in DOMAIN more : all[i] = k
  <2>1. CASE k = n
    BY <1>2, <1>4, <2>1
  <2>2. CASE k # n
    <3>1. k \in 1..Len(entries) /\ entries[k].payload[1] = q
      BY <1>1, <1>8, <2>2
    <3>2. PICK i \in DOMAIN part : at[i] = k
      BY <1>1, <1>3, <3>1
    <3> QED
      BY <1>2, <1>4, <3>2
  <2> QED
    BY <2>1, <2>2
<1> QED
  BY <1>5, <1>6, <1>7, <1>8 DEF Tells, longer, more, payload

(* A log says of q what of its answer is not pending any more.             *)
SaidIn(entries, q) ==
  \E i \in 0..Len(req[q].told) :
    /\ pending[q] = SubSeq(req[q].told, i + 1, Len(req[q].told))
    /\ Tells(entries, q, SubSeq(req[q].told, 1, i))

(* Where that log is: in the process that answers, or among those that are *)
(* over; or there is none yet.                                             *)
SaidLive(q, p) ==
  /\ pc[q] = "append" => p = req[q].at
  /\ SaidIn(log[p], q)
  /\ \A r \in Processes \ {p} : Silent(log[r], q)
  /\ \A e \in ended : Silent(e, q)

SaidBefore(q, e) ==
  /\ pc[q] # "append"
  /\ SaidIn(e, q)
  /\ \A p \in Processes : Silent(log[p], q)
  /\ \A f \in ended \ {e} : Silent(f, q)

SaidNothing(q) ==
  /\ pending[q] = req[q].told
  /\ \A entries \in Logs : Silent(entries, q)

Said(q) ==
  \/ \E p \in Processes : SaidLive(q, p)
  \/ \E e \in ended : SaidBefore(q, e)
  \/ SaidNothing(q)

(* When a request has an answer, and when all of it is logged.             *)
Unanswered == {"new", "refuse", "refused", "sign", "handler", "panicked"}

AnswerTimes(q) ==
  /\ pc[q] \in Unanswered => req[q].told = <<>>
  /\ pc[q] \in {"print", "done"} => pending[q] = <<>> /\ req[q].told # <<>>

AuditInv == \A q \in Requests : Said(q) /\ AnswerTimes(q)

(* Of a request without an answer no log says anything.                    *)
LEMMA UnansweredIsSilent ==
  ASSUME LogInv, NEW q \in Requests, Said(q), req[q].told = <<>>, IsEnd(pending[q], <<>>)
  PROVE  SaidNothing(q)
<1>1. SubSeq(<<>>, 0 + 1, 0) = <<>> /\ SubSeq(<<>>, 1, 0) = <<>> /\ Len(<<>>) = 0
  OBVIOUS
<1>2. \A i \in 0..0 : i = 0
  OBVIOUS
<1>3. pending[q] = <<>>
  BY <1>1, <1>2 DEF IsEnd
<1>4. ASSUME NEW entries, SaidIn(entries, q)
      PROVE  Silent(entries, q)
  BY <1>1, <1>2, <1>4, SilentTells DEF SaidIn
<1>5. \A entries \in Logs : Silent(entries, q)
  <2>1. CASE \E p \in Processes : SaidLive(q, p)
    BY <1>4, <2>1 DEF SaidLive, Logs
  <2>2. CASE \E e \in ended : SaidBefore(q, e)
    BY <1>4, <2>2 DEF SaidBefore, Logs
  <2> QED
    BY <2>1, <2>2 DEF Said, SaidNothing
<1> QED
  BY <1>3, <1>5 DEF SaidNothing

(* What is asked of the rest of a step: q stands where it stood.           *)
Stays(q) == pc'[q] = pc[q] /\ req'[q] = req[q] /\ pending'[q] = pending[q]

LEMMA KeptAudit ==
  ASSUME NEW q \in Requests, Said(q), UNCHANGED audit,
         req'[q] = req[q], pending'[q] = pending[q],
         pc'[q] = pc[q] \/ pc'[q] # "append"
  PROVE  Said(q)'
<1>1. UNCHANGED <<log, ended, Logs>>
  BY DEF audit, Logs
<1>2. \A entries : SaidIn(entries, q)' <=> SaidIn(entries, q)
  BY DEF SaidIn
<1>3. ASSUME NEW p \in Processes, SaidLive(q, p)
      PROVE  SaidLive(q, p)'
  BY <1>1, <1>2, <1>3 DEF SaidLive, SaidIn, Silent
<1>4. ASSUME NEW e \in ended, SaidBefore(q, e)
      PROVE  SaidBefore(q, e)'
  BY <1>1, <1>2, <1>4 DEF SaidBefore, SaidIn, Silent
<1>5. ASSUME SaidNothing(q)
      PROVE  SaidNothing(q)'
  BY <1>1, <1>5 DEF SaidNothing, Silent
<1> QED
  BY <1>1, <1>3, <1>4, <1>5 DEF Said

(* Before anything is told of a request, no log says anything of it.       *)
LEMMA SilentBefore ==
  ASSUME LogInv, RequestTypes, NEW q \in Requests, Said(q), AnswerTimes(q), pc[q] \in Unanswered
  PROVE  SaidNothing(q) /\ req[q].told = <<>> /\ pending[q] = <<>>
<1>1. req[q].told = <<>> /\ IsEnd(pending[q], <<>>)
  BY DEF AnswerTimes, RequestTypes, RequestOK
<1>2. SaidNothing(q)
  BY <1>1, UnansweredIsSilent
<1> QED
  BY <1>1, <1>2 DEF SaidNothing

LEMMA TellSaid ==
  ASSUME LogInv, RequestTypes, NEW q \in Requests, Said(q), AnswerTimes(q),
         NEW p, NEW status, NEW payloads, pc[q] \in Unanswered,
         Tell(q, p, status, payloads), UNCHANGED audit
  PROVE  Said(q)' /\ AnswerTimes(q)'
<1>1. SaidNothing(q)
  BY SilentBefore
<1>2. pc'[q] = "append" /\ req'[q].told = payloads /\ pending'[q] = payloads
  BY DEF Tell, Goto, Blank, RequestTypes
<1>3. Logs' = Logs
  BY DEF audit, Logs
<1>4. SaidNothing(q)'
  BY <1>1, <1>2, <1>3 DEF SaidNothing, Silent
<1> QED
  BY <1>2, <1>4 DEF Said, AnswerTimes, Unanswered

(* Another request has an entry made.                                      *)
LEMMA OthersEntrySaid ==
  ASSUME LogInv, NEW q \in Requests, Said(q), Stays(q),
         NEW p, NEW r, r # q, NEW word, Logged(p, <<r, word>>)
  PROVE  Said(q)'
<1>1. /\ DOMAIN log = Processes /\ DOMAIN log' = Processes /\ ended' = ended
      /\ \A s \in Processes : log'[s] = log[s] \/ log'[s] = Extended(log[s], now, <<r, word>>)
      /\ \A s \in Processes : IsChain(log[s])
  BY DEF Logged, LogInv, Logs
<1>2. ASSUME NEW s \in Processes
      PROVE  /\ Silent(log[s], q) => Silent(log'[s], q)
             /\ \A part : Tells(log[s], q, part) => Tells(log'[s], q, part)
  BY <1>1, OthersEntry
<1>3. ASSUME NEW s \in Processes, SaidLive(q, s)
      PROVE  SaidLive(q, s)'
  BY <1>1, <1>2, <1>3 DEF SaidLive, SaidIn, Silent, Stays
<1>4. ASSUME NEW e \in ended, SaidBefore(q, e)
      PROVE  SaidBefore(q, e)'
  BY <1>1, <1>2, <1>4 DEF SaidBefore, SaidIn, Silent, Stays
<1>5. ASSUME SaidNothing(q)
      PROVE  SaidNothing(q)'
  BY <1>1, <1>2, <1>5 DEF SaidNothing, Stays, Logs, Silent
<1> QED
  BY <1>1, <1>3, <1>4, <1>5 DEF Said

(* A process ends: what its log says of q is now in a log that is over.    *)
LEMMA RestartSaid ==
  ASSUME LogInv, RequestTypes, NEW q \in Requests, Said(q), AnswerTimes(q),
         NEW p \in Processes, Restart(p)
  PROVE  Said(q)' /\ AnswerTimes(q)'
<1>1. /\ DOMAIN log = Processes
      /\ log'[p] = <<>> /\ \A s \in Processes \ {p} : log'[s] = log[s]
      /\ ended' = ended \cup {log[p]}
      /\ req' = req /\ pending' = pending
      /\ pc'[q] = pc[q] \/ pc'[q] = "lost"
      /\ pc[q] = "append" /\ req[q].at = p => pc'[q] = "lost"
  BY DEF Restart, LogInv, InProgress
<1>2. Silent(<<>>, q)
  BY DEF Silent
<1>3. ASSUME SaidLive(q, p), NEW e, e = log[p]
      PROVE  SaidBefore(q, e)'
  <2>1. pc'[q] # "append"
    BY <1>1, <1>3 DEF SaidLive
  <2>2. SaidIn(log[p], q) /\ \A f \in ended : Silent(f, q)
    BY <1>3 DEF SaidLive
  <2>3. \A s \in Processes : Silent(log'[s], q)
    BY <1>1, <1>2, <1>3 DEF SaidLive
  <2>4. \E i \in 0..Len(req[q].told) :
          /\ pending[q] = SubSeq(req[q].told, i + 1, Len(req[q].told))
          /\ Tells(e, q, SubSeq(req[q].told, 1, i))
    BY <1>3, <2>2 DEF SaidIn
  <2> QED
    BY <1>1, <1>3, <2>1, <2>2, <2>3, <2>4 DEF SaidBefore, SaidIn, Silent
<1>4. ASSUME NEW s \in Processes \ {p}, SaidLive(q, s)
      PROVE  SaidLive(q, s)'
  BY <1>1, <1>2, <1>4 DEF SaidLive, SaidIn, Silent
<1>5. ASSUME NEW e \in ended, SaidBefore(q, e)
      PROVE  SaidBefore(q, e)'
  BY <1>1, <1>2, <1>5 DEF SaidBefore, SaidIn, Silent
<1>6. ASSUME SaidNothing(q)
      PROVE  SaidNothing(q)'
  <2>1. \A entries \in Logs' : entries \in Logs \/ entries = <<>>
    BY <1>1 DEF Logs
  <2> QED
    BY <1>1, <1>2, <1>6, <2>1 DEF SaidNothing, Silent
<1>7. Said(q)'
  <2>1. CASE \E s \in Processes : SaidLive(q, s)
    <3>1. PICK s \in Processes : SaidLive(q, s)
      BY <2>1
    <3>2. CASE s = p
      <4>1. PICK e : e = log[p]
        OBVIOUS
      <4>2. e \in ended' /\ SaidBefore(q, e)'
        BY <1>1, <1>3, <3>1, <3>2, <4>1
      <4> QED
        BY <4>2 DEF Said
    <3> QED
      BY <1>4, <3>1, <3>2 DEF Said
  <2>2. CASE \E e \in ended : SaidBefore(q, e)
    BY <1>1, <1>5, <2>2 DEF Said
  <2> QED
    BY <1>6, <2>1, <2>2 DEF Said
<1> QED
  BY <1>1, <1>7 DEF AnswerTimes, Unanswered

(* The next word of the answer is logged.                                  *)
LEMMA AppendSaid ==
  ASSUME LogInv, RequestTypes, NEW q \in Requests, Said(q), AppendEntry(q)
  PROVE  Said(q)' /\ AnswerTimes(q)'
<1> DEFINE p == req[q].at
           answer == req[q].told
           n == Len(answer)
           word == Head(pending[q])
<1>1. /\ pc[q] = "append" /\ p \in Processes /\ pending[q] # <<>>
      /\ answer \in Seq(Words) /\ n \in Nat
  BY DEF AppendEntry, RequestTypes, RequestOK
<1>2. /\ DOMAIN log = Processes
      /\ log'[p] = Extended(log[p], now, <<q, word>>)
      /\ \A s \in Processes \ {p} : log'[s] = log[s]
      /\ ended' = ended /\ req' = req
      /\ pending'[q] = Tail(pending[q])
      /\ pc'[q] \in {"append", "print", "done"}
      /\ pc'[q] \in {"print", "done"} => Tail(pending[q]) = <<>>
      /\ IsChain(log[p])
  <2>1. Logged(p, <<q, word>>)
    BY <1>1, AppendToLogs DEF AppendEntry
  <2> HIDE DEF p, word
  <2>2. /\ DOMAIN log = Processes /\ IsChain(log[p])
        /\ log'[p] = Extended(log[p], now, <<q, word>>)
        /\ \A s \in Processes \ {p} : log'[s] = log[s]
        /\ ended' = ended
    BY <1>1, <2>1 DEF Logged, LogInv, Logs
  <2> QED
    BY <2>2 DEF AppendEntry, Goto, RequestTypes
<1>3. \E i \in 0..n : /\ pending[q] = SubSeq(answer, i + 1, n)
                      /\ Tells(log[p], q, SubSeq(answer, 1, i))
  <2>1. ASSUME SaidNothing(q)
        PROVE  pending[q] = SubSeq(answer, 0 + 1, n) /\ Tells(log[p], q, SubSeq(answer, 1, 0))
    <3>1. pending[q] = SubSeq(answer, 0 + 1, n)
      BY <1>1, <2>1 DEF SaidNothing
    <3>2. SubSeq(answer, 1, 0) = <<>> /\ Silent(log[p], q)
      BY <1>1, <2>1 DEF SaidNothing, Logs
    <3> QED
      BY <3>1, <3>2, SilentTells
  <2>2. 0 \in 0..n
    BY <1>1
  <2> QED
    BY <1>1, <2>1, <2>2 DEF Said, SaidLive, SaidBefore, SaidIn
<1>4. /\ \A s \in Processes \ {p} : Silent(log[s], q)
      /\ \A e \in ended : Silent(e, q)
  BY <1>1 DEF Said, SaidLive, SaidBefore, SaidNothing, Logs
<1>5. PICK i \in 0..n : /\ pending[q] = SubSeq(answer, i + 1, n)
                        /\ Tells(log[p], q, SubSeq(answer, 1, i))
  BY <1>3
<1>6. i < n /\ i + 1 \in 0..n
  BY <1>1, <1>5
<1>7. /\ Tail(pending[q]) = SubSeq(answer, (i + 1) + 1, n)
      /\ word = answer[i + 1] /\ word \in Words
      /\ SubSeq(answer, 1, i) \in Seq(Words)
      /\ SubSeq(answer, 1, i + 1) = Append(SubSeq(answer, 1, i), word)
  <2>1. /\ pending[q] \in Seq(Words)
        /\ Len(pending[q]) = n - i
        /\ \A k \in 1..n - i : pending[q][k] = answer[i + k]
    BY <1>1, <1>5
  <2>2. word = answer[i + 1] /\ word \in Words
    BY <1>1, <1>6, <2>1
  <2>3. Tail(pending[q]) = SubSeq(answer, (i + 1) + 1, n)
    BY <1>1, <1>5, <1>6
  <2> HIDE DEF word, answer, n
  <2>4. SubSeq(answer, 1, i) \in Seq(Words)
    BY <1>1, <1>6 DEF n
  <2>5. SubSeq(answer, 1, i + 1) = Append(SubSeq(answer, 1, i), answer[i + 1])
    BY <1>1, <1>6 DEF n
  <2> QED
    BY <2>2, <2>3, <2>4, <2>5
<1>8. Tells(log'[p], q, SubSeq(answer, 1, i + 1))
  <2> HIDE DEF word, answer, n, p
  <2> QED
    BY <1>2, <1>5, <1>7, OwnEntry
<1>9. ASSUME NEW s, s = p
      PROVE  SaidLive(q, s)'
  <2>1. SaidIn(log[s], q)'
    BY <1>2, <1>6, <1>7, <1>8, <1>9 DEF SaidIn
  <2>2. \A r \in Processes \ {s} : Silent(log[r], q)'
    BY <1>2, <1>4, <1>9 DEF Silent
  <2>3. \A e \in ended : Silent(e, q)'
    BY <1>4 DEF Silent
  <2> QED
    BY <1>2, <1>9, <2>1, <2>2, <2>3 DEF SaidLive
<1>10. Said(q)'
  <2>1. PICK s : s = p
    OBVIOUS
  <2> QED
    BY <1>1, <1>9, <2>1 DEF Said
<1>11. answer # <<>>
  BY <1>1, <1>6
<1> QED
  BY <1>2, <1>10, <1>11 DEF AnswerTimes, Unanswered

(* What a request does by itself.                                          *)
LEMMA OwnStepSaid ==
  ASSUME LogInv, RequestTypes, NEW q \in Requests, Said(q), AnswerTimes(q), Step(q)
  PROVE  Said(q)' /\ AnswerTimes(q)'
<1>1. CASE AppendEntry(q)
  BY <1>1, AppendSaid
<1>2. ASSUME NEW p, NEW status, NEW payloads, pc[q] \in Unanswered,
             Tell(q, p, status, payloads), UNCHANGED audit
      PROVE  Said(q)' /\ AnswerTimes(q)'
  BY <1>2, TellSaid
<1>3. ASSUME NEW p, NEW status, pc[q] \in Unanswered, Respond(q, p, status), UNCHANGED audit
      PROVE  Said(q)' /\ AnswerTimes(q)'
  <2>1. Tell(q, p, status, <<status>>)
    BY <1>3 DEF Respond
  <2> QED
    BY <1>2, <1>3, <2>1
<1>4. CASE HandlerPanics(q) \/ PrintLine(q)
  <2>1. /\ UNCHANGED <<req, pending, audit>>
        /\ \/ pc[q] \in Unanswered /\ pc'[q] \in {"panicked", "refused"}
           \/ pc[q] = "print" /\ pc'[q] = "done"
    BY <1>4 DEF HandlerPanics, PrintLine, Goto, RequestTypes, Unanswered
  <2>2. Said(q)'
    BY <2>1, KeptAudit DEF audit
  <2> QED
    BY <2>1, <2>2 DEF AnswerTimes, Unanswered
<1>5. ASSUME NEW p \in Gateways, Serve(q, p)
      PROVE  Said(q)' /\ AnswerTimes(q)'
  <2>1. CASE Open(q, p) \/ RefuseToken(q, p) \/ RefuseRequest(q, p)
    <3>1. /\ \E status : Respond(q, p, status)
          /\ pc[q] = "new" /\ UNCHANGED audit
      BY <2>1 DEF Open, RefuseToken, RefuseRequest
    <3> QED
      BY <1>3, <3>1 DEF Unanswered
  <2>2. CASE \/ Refuse(q, p)
             \/ \E c \in Clients, requested \in SUBSET Scopes : RequestToken(q, p, c, requested)
             \/ \E scope \in Scopes, claims \in tokens : Authenticate(q, p, claims, scope)
    <3>1. /\ pc[q] = "new" /\ pc'[q] \in {"refuse", "sign", "handler"}
          /\ req'[q].told = <<>> /\ pending' = pending /\ UNCHANGED audit
      <4>1. CASE Refuse(q, p)
        <5>1. PICK status \in {"refused", "failed"} :
                req' = [req EXCEPT ![q] = [Blank EXCEPT !.at = p, !.status = status]]
          BY <4>1 DEF Refuse
        <5>2. req'[q].told = <<>>
          BY <5>1 DEF Blank, RequestTypes
        <5> QED
          BY <4>1, <5>2 DEF Refuse, Goto, RequestTypes
      <4>2. ASSUME NEW c \in Clients, NEW requested \in SUBSET Scopes,
                   RequestToken(q, p, c, requested)
            PROVE  /\ pc[q] = "new" /\ pc'[q] = "sign"
                   /\ req'[q].told = <<>> /\ pending' = pending /\ UNCHANGED audit
        BY <4>2 DEF RequestToken, Goto, RequestTypes
      <4>3. ASSUME NEW scope \in Scopes, NEW claims \in tokens, Authenticate(q, p, claims, scope)
            PROVE  /\ pc[q] = "new" /\ pc'[q] = "handler"
                   /\ req'[q].told = <<>> /\ pending' = pending /\ UNCHANGED audit
        BY <4>3 DEF Authenticate, Goto, RequestTypes
      <4> QED
        BY <2>2, <4>1, <4>2, <4>3
    <3>2. SaidNothing(q) /\ req[q].told = <<>>
      BY <3>1, SilentBefore DEF Unanswered
    <3>3. Logs' = Logs
      BY <3>1 DEF audit, Logs
    <3>4. SaidNothing(q)'
      BY <3>1, <3>2, <3>3 DEF SaidNothing, Silent
    <3> QED
      BY <3>1, <3>4 DEF Said, AnswerTimes, Unanswered
  <2> QED
    BY <1>5, <2>1, <2>2 DEF Serve
<1>6. ASSUME NEW p \in Auditds, Ingest(q, p)
      PROVE  Said(q)' /\ AnswerTimes(q)'
  BY <1>2, <1>6 DEF Ingest, Unanswered
<1>7. CASE SignToken(q) \/ Handle(q)
  <2>1. /\ \E status : Respond(q, req[q].at, status)
        /\ pc[q] \in Unanswered /\ UNCHANGED audit
    BY <1>7 DEF SignToken, Handle, Unanswered
  <2> QED
    BY <1>3, <2>1
<1> QED
  BY <1>1, <1>4, <1>5, <1>6, <1>7 DEF Step

(* A step of one request leaves the others where they stand.               *)
LEMMA OthersStand ==
  ASSUME RequestTypes, NEW q \in Requests, NEW r \in Requests, r # q, Step(r)
  PROVE  Stays(q)
<1>1. ASSUME NEW step, Goto(r, step)
      PROVE  pc'[q] = pc[q]
  BY <1>1 DEF Goto, RequestTypes
<1>2. ASSUME NEW p, NEW status, NEW payloads, Tell(r, p, status, payloads)
      PROVE  Stays(q)
  BY <1>1, <1>2 DEF Tell, Stays, RequestTypes
<1>3. CASE HandlerPanics(r) \/ PrintLine(r)
  BY <1>1, <1>3 DEF HandlerPanics, PrintLine, Stays
<1>4. ASSUME NEW p \in Gateways, Serve(r, p)
      PROVE  Stays(q)
  <2>1. CASE Open(r, p) \/ RefuseToken(r, p) \/ RefuseRequest(r, p)
    BY <1>2, <2>1 DEF Open, RefuseToken, RefuseRequest, Respond
  <2>2. CASE \/ Refuse(r, p)
             \/ \E c \in Clients, requested \in SUBSET Scopes : RequestToken(r, p, c, requested)
             \/ \E scope \in Scopes, claims \in tokens : Authenticate(r, p, claims, scope)
    BY <1>1, <2>2 DEF Refuse, RequestToken, Authenticate, Stays, RequestTypes
  <2> QED
    BY <1>4, <2>1, <2>2 DEF Serve
<1>5. ASSUME NEW p \in Auditds, Ingest(r, p)
      PROVE  Stays(q)
  BY <1>2, <1>5 DEF Ingest
<1>6. CASE SignToken(r) \/ Handle(r)
  BY <1>2, <1>6 DEF SignToken, Handle, Respond
<1>7. CASE AppendEntry(r)
  BY <1>1, <1>7 DEF AppendEntry, Stays, RequestTypes
<1> QED
  BY <1>3, <1>4, <1>5, <1>6, <1>7 DEF Step

LEMMA AuditStep == LogInv /\ RequestTypes /\ AuditInv /\ [Next]_vars => AuditInv'
<1> SUFFICES ASSUME LogInv, RequestTypes, AuditInv, [Next]_vars, NEW q \in Requests
             PROVE  Said(q)' /\ AnswerTimes(q)'
  BY DEF AuditInv
<1>1. Said(q) /\ AnswerTimes(q)
  BY DEF AuditInv
<1>2. ASSUME Stays(q)
      PROVE  AnswerTimes(q)'
  BY <1>1, <1>2 DEF Stays, AnswerTimes
<1>3. ASSUME Stays(q), UNCHANGED audit
      PROVE  Said(q)' /\ AnswerTimes(q)'
  BY <1>1, <1>2, <1>3, KeptAudit DEF Stays
<1>4. CASE Step(q)
  BY <1>1, <1>4, OwnStepSaid
<1>5. ASSUME NEW r \in Requests, r # q, Step(r)
      PROVE  Said(q)' /\ AnswerTimes(q)'
  <2>1. Stays(q)
    BY <1>5, OthersStand
  <2>2. UNCHANGED audit \/ Logged(req[r].at, <<r, Head(pending[r])>>)
    BY <1>5, StepLogs
  <2> QED
    BY <1>1, <1>2, <1>3, <1>5, <2>1, <2>2, OthersEntrySaid
<1>6. ASSUME NEW p \in Processes, Restart(p)
      PROVE  Said(q)' /\ AnswerTimes(q)'
  BY <1>1, <1>6, RestartSaid
<1>7. CASE Tick \/ \E c \in Clients, scopes \in SUBSET Scopes : SetScopes(c, scopes)
  BY <1>3, <1>7 DEF Tick, SetScopes, requests, Stays
<1>8. CASE UNCHANGED vars
  BY <1>3, <1>8 DEF vars, requests, Stays
<1> QED
  BY <1>4, <1>5, <1>6, <1>7, <1>8 DEF Next

LEMMA AuditInit == Init => AuditInv
<1> SUFFICES ASSUME Init, NEW q \in Requests
             PROVE  Said(q) /\ AnswerTimes(q)
  BY DEF AuditInv
<1>1. pc[q] = "new" /\ req[q].told = <<>> /\ pending[q] = <<>>
  BY DEF Init, Blank
<1>2. \A entries \in Logs : entries = <<>>
  BY DEF Init, Logs
<1> QED
  BY <1>1, <1>2 DEF Said, SaidNothing, Silent, AnswerTimes

(* Of a request q: what of its payloads the entries tell, and its line.    *)
Told(q) ==
  LET telling == {entries \in Logs : ~Tells(entries, q, <<>>)} IN
  /\ \A entries, others \in telling : entries = others
  /\ pc[q] \in {"print", "done"} => telling # {}
  /\ \A entries \in telling :
       IF pc[q] \in {"print", "done"} THEN Tells(entries, q, req[q].told)
       ELSE /\ pc[q] \in {"append", "lost"}
            /\ \E i \in 1..Len(req[q].told) :
                 Tells(entries, q, SubSeq(req[q].told, 1, i))

LEMMA SaidIsTold ==
  ASSUME RequestTypes, AuditInv, NEW q \in Requests
  PROVE  Told(q)
<1> DEFINE telling == {entries \in Logs : ~Tells(entries, q, <<>>)}
           told == req[q].told
           Over == pc[q] \in {"print", "done"}
<1>1. Said(q) /\ AnswerTimes(q) /\ told \in Seq(Words) /\ pc[q] \in Steps
  BY DEF AuditInv, RequestTypes, RequestOK
<1>2. \A entries : entries \in telling <=> entries \in Logs /\ ~Silent(entries, q)
  BY SilentTells
<1>3. ASSUME NEW entries \in telling, SaidIn(entries, q)
      PROVE  IF Over THEN Tells(entries, q, told)
             ELSE /\ pc[q] \in {"append", "lost"}
                  /\ \E i \in 1..Len(told) : Tells(entries, q, SubSeq(told, 1, i))
  <2>1. PICK i \in 0..Len(told) : /\ pending[q] = SubSeq(told, i + 1, Len(told))
                                  /\ Tells(entries, q, SubSeq(told, 1, i))
    BY <1>3 DEF SaidIn
  <2>2. SubSeq(told, 1, 0) = <<>> /\ SubSeq(told, 1, Len(told)) = told
    BY <1>1
  <2>3. i # 0
    BY <2>1, <2>2
  <2>4. i \in 1..Len(told)
    BY <1>1, <2>1, <2>3
  <2>5. pc[q] \notin Unanswered
    BY <1>1, <2>4 DEF AnswerTimes
  <2>6. Over => i = Len(told)
    <3>1. Over => SubSeq(told, i + 1, Len(told)) = <<>>
      BY <1>1, <2>1 DEF AnswerTimes
    <3>2. Len(SubSeq(told, i + 1, Len(told))) = Len(told) - i
      BY <1>1, <2>4
    <3>3. Over => Len(told) - i = 0
      BY <3>1, <3>2
    <3> HIDE DEF told, Over
    <3> QED
      BY <1>1, <2>4, <3>3
  <2> QED
    BY <1>1, <2>1, <2>2, <2>4, <2>5, <2>6 DEF Unanswered, Steps
<1>4. ASSUME Over, NEW entries, SaidIn(entries, q)
      PROVE  ~Silent(entries, q)
  <2>1. pending[q] = <<>> /\ told # <<>>
    BY <1>1, <1>4 DEF AnswerTimes
  <2>2. PICK i \in 0..Len(told) : /\ pending[q] = SubSeq(told, i + 1, Len(told))
                                  /\ Tells(entries, q, SubSeq(told, 1, i))
    BY <1>4 DEF SaidIn
  <2>3. i = Len(told) /\ SubSeq(told, 1, i) = told /\ 1 \in DOMAIN told
    BY <1>1, <2>1, <2>2
  <2>4. PICK at \in [DOMAIN told -> DOMAIN entries] :
          \A k \in DOMAIN told : entries[at[k]].payload = <<q, told[k]>>
    BY <2>2, <2>3 DEF Tells
  <2>5. at[1] \in DOMAIN entries /\ entries[at[1]].payload[1] = q
    BY <2>3, <2>4
  <2> QED
    BY <2>5 DEF Silent
<1> HIDE DEF telling
<1>5. CASE \E p \in Processes : SaidLive(q, p)
  <2>1. PICK p \in Processes : SaidLive(q, p)
    BY <1>5
  <2>2. \A entries \in telling : entries = log[p]
    BY <1>2, <2>1 DEF SaidLive, Logs
  <2>3. SaidIn(log[p], q) /\ log[p] \in Logs
    BY <2>1 DEF SaidLive, Logs
  <2> QED
    BY <1>2, <1>3, <1>4, <2>2, <2>3 DEF telling, Told
<1>6. CASE \E e \in ended : SaidBefore(q, e)
  <2>1. PICK e \in ended : SaidBefore(q, e)
    BY <1>6
  <2>2. \A entries \in telling : entries = e
    BY <1>2, <2>1 DEF SaidBefore, Logs
  <2>3. SaidIn(e, q) /\ e \in Logs
    BY <2>1 DEF SaidBefore, Logs
  <2> QED
    BY <1>2, <1>3, <1>4, <2>2, <2>3 DEF telling, Told
<1>7. CASE SaidNothing(q)
  <2>1. telling = {}
    BY <1>2, <1>7 DEF SaidNothing
  <2>2. ~Over
    BY <1>1, <1>7 DEF SaidNothing, AnswerTimes
  <2> QED
    BY <2>1, <2>2 DEF telling, Told
<1> QED
  BY <1>1, <1>5, <1>6, <1>7 DEF Said

(* However requests interleave, panic and are cut off by the end of their  *)
(* process: the hash that a logger keeps is that of the entries it has     *)
(* made since the process began; those entries tell of every request       *)
(* exactly what Append was called with for it, in order and in a single    *)
(* lifetime, or, where it was cut off, a beginning of that; and the line   *)
(* printed of a request says what its entry says, and is printed after it. *)
THEOREM AuditTells == Spec => []AuditTellsTheAnswers
<1>1. LogInv /\ RequestTypes /\ AuditInv => AuditTellsTheAnswers
  <2> SUFFICES ASSUME LogInv, RequestTypes, AuditInv
               PROVE  AuditTellsTheAnswers
    OBVIOUS
  <2>1. \A p \in Processes : previousHash[p] = PreviousHash(log[p])
    BY DEF LogInv
  <2>2. ASSUME NEW q \in Requests
        PROVE  LET telling == {entries \in Logs : ~Tells(entries, q, <<>>)} IN
               /\ \A entries, others \in telling : entries = others
               /\ pc[q] \in {"print", "done"} => telling # {}
               /\ \A entries \in telling :
                    IF pc[q] \in {"print", "done"} THEN Tells(entries, q, req[q].told)
                    ELSE /\ pc[q] \in {"append", "lost"}
                         /\ \E i \in 1..Len(req[q].told) :
                              Tells(entries, q, SubSeq(req[q].told, 1, i))
               /\ lines[q] # <<>> =>
                    /\ lines[q] = <<req[q].status>>
                    /\ IF pc[q] = "refused" THEN telling = {}
                       ELSE \E entries \in telling : Tells(entries, q, lines[q])
               /\ req[q].at \in Gateways /\ pc[q] \in {"done", "refused"} => lines[q] # <<>>
               /\ pc[q] \in {"panicked", "lost"} => lines[q] = <<>>
    <3> DEFINE telling == {entries \in Logs : ~Tells(entries, q, <<>>)}
    <3>1. /\ \A entries, others \in telling : entries = others
          /\ pc[q] \in {"print", "done"} => telling # {}
          /\ \A entries \in telling :
               IF pc[q] \in {"print", "done"} THEN Tells(entries, q, req[q].told)
               ELSE /\ pc[q] \in {"append", "lost"}
                    /\ \E i \in 1..Len(req[q].told) :
                         Tells(entries, q, SubSeq(req[q].told, 1, i))
      BY SaidIsTold DEF Told
    <3>2. RequestOK(q)
      BY DEF RequestTypes
    <3> HIDE DEF telling
    <3>3. /\ lines[q] # <<>> =>
               /\ lines[q] = <<req[q].status>> /\ pc[q] \in {"done", "refused"}
               /\ pc[q] = "done" => lines[q] = req[q].told
          /\ req[q].at \in Gateways /\ pc[q] \in {"done", "refused"} => lines[q] # <<>>
          /\ pc[q] \in {"panicked", "lost"} => lines[q] = <<>>
      BY <3>2 DEF RequestOK
    <3>4. pc[q] = "refused" => telling = {}
      BY <3>1
    <3>5. pc[q] = "done" /\ lines[q] = req[q].told =>
            \E entries \in telling : Tells(entries, q, lines[q])
      BY <3>1
    <3> QED
      BY <3>1, <3>3, <3>4, <3>5 DEF telling
  <2> QED
    BY <2>1, <2>2 DEF AuditTellsTheAnswers
<1>2. LogInv /\ RequestTypes /\ AuditInv /\ [Next]_vars => AuditInv'
  BY AuditStep
<1>3. TableTypes /\ RequestTypes => RequestTypes
  OBVIOUS
<1> QED
  BY <1>1, <1>2, <1>3, AuditInit, LogAlways, TypesAlways, PTL DEF Spec

=============================================================================
