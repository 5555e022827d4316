------------------------------ MODULE Gateway ------------------------------
(***************************************************************************)
(* The API gateway: the middleware of internal/api/router.go around the    *)
(* OAuth server and the token validation of internal/auth, the audit chain *)
(* that AuditMiddleware and auditd extend with pkg/audit, and the lines of *)
(* RequestLogger.                                                          *)
(*                                                                         *)
(* Every process makes its signing key and its audit logger when it starts *)
(* and loses both when it ends.  The table oauth_clients is shared, and    *)
(* only an operator writes it.                                             *)
(*                                                                         *)
(* Of the audit chain a logger keeps one hash.  Append returns the entry   *)
(* it has made, and AuditMiddleware and Ingest drop it: no entry is stored *)
(* or printed anywhere.  The variables log and ended are therefore no      *)
(* state of the program.  They are the history of what Append returned,    *)
(* and the properties hold the hash and the lines against it.  What stays  *)
(* of a request is the line http_request that RequestLogger prints.        *)
(*                                                                         *)
(* Requests are given names, each used once.  RequestLogger is around all  *)
(* of the gateway.  Within it a request is refused before AuditMiddleware  *)
(* (by IPAllowlist or RateLimitMiddleware; TokenBucket models the second)  *)
(* or goes through it.  What a handler does to the ledger is in the module *)
(* Ledger; here only that it ran, and how it ended.                        *)
(***************************************************************************)
EXTENDS AuditChain, FiniteSets

CONSTANTS
  Requests,      (* requests of clients, to the gateway or to auditd       *)
  Gateways,      (* gateway processes                                      *)
  Auditds,       (* auditd processes                                       *)
  Clients,       (* OAuth clients                                          *)
  Scopes,        (* scopes a route may require                             *)
  TTL,           (* AccessTokenTTL, in units of the clock                  *)
  None,          (* no process, scope or claims                            *)
  Batch,         (* what a request to auditd asks it to log                *)
  MaxTime,       (* bound on the clock                                     *)
  MaxChanges,    (* bound on the changes of oauth_clients                  *)
  MaxLifetime    (* bound on the lifetimes: one more is the last of all    *)

ASSUME GatewayAssumption ==
  /\ Gateways \cap Auditds = {}
  /\ TTL \in Nat \ {0}
  /\ Batch \in Seq(STRING) /\ Batch # <<>>
  /\ MaxTime \in Nat \ {0}
  /\ MaxChanges \in Nat
  /\ MaxLifetime \in Nat \ {0}

VARIABLES
  now,        (* the clock                                                 *)
  clients,    (* oauth_clients: the scopes of each client                  *)
  changes,    (* how often oauth_clients was changed (for the properties)  *)
  removed,    (* the change and the time that last took a scope from a     *)
              (* client (for the properties)                               *)
  lifetime,   (* of each process, counted: its key is of that lifetime     *)
  tokens,     (* the claims of the tokens that were signed                 *)
  pc,         (* where each request stands                                 *)
  req,        (* its process, scope and claims, the status it is answered  *)
              (* with, and the payloads that Append is called with for it  *)
  pending,    (* those of the payloads that are still to come              *)
  lines,      (* the lines http_request printed about each request         *)
  previousHash, (* what the logger of each process keeps                   *)
  log,        (* the entries that logger has returned (history)            *)
  ended       (* those of the lifetimes that are over (history)            *)

oauth == <<clients, changes, removed, tokens>>
requests == <<pc, req, pending>>
audit == <<previousHash, log, ended>>
vars == <<now, lifetime, oauth, requests, lines, audit>>

Processes == Gateways \cup Auditds

(* Of a status only its class counts: up to 399, the client's fault, or    *)
(* the server's.                                                           *)
Statuses == {"ok", "refused", "failed"}

(* The claims of a token: the client, its scopes, the process and lifetime *)
(* whose key signs it, and when it expires.  The changes that oauth_clients *)
(* had seen when the row was read and when the token was signed are not in *)
(* the token: they are there for the properties.                           *)
Claims ==
  [client: Clients, scopes: SUBSET Scopes, issuer: Gateways, key: 1..MaxLifetime,
   exp: 0..(MaxTime + TTL), read: 0..MaxChanges, signed: 0..MaxChanges]

Blank == [at |-> None, scope |-> None, claims |-> None, status |-> None, told |-> <<>>]

Init ==
  /\ now = 1
  /\ clients \in [Clients -> SUBSET Scopes]
  /\ changes = 0
  /\ removed = [c \in Clients |-> [s \in Scopes |-> [change |-> 0, time |-> 0]]]
  /\ lifetime = [p \in Processes |-> 1]
  /\ tokens = {}
  /\ pc = [q \in Requests |-> "new"]
  /\ req = [q \in Requests |-> Blank]
  /\ pending = [q \in Requests |-> <<>>]
  /\ lines = [q \in Requests |-> <<>>]
  /\ previousHash = [p \in Processes |-> ZeroHash]
  /\ log = [p \in Processes |-> <<>>]
  /\ ended = {}

-----------------------------------------------------------------------------
(* Parts of the actions.                                                   *)

Goto(q, step) == pc' = [pc EXCEPT ![q] = step]

(* From here on the logger of p is told these payloads of q, one by one.   *)
Tell(q, p, status, payloads) ==
  /\ Goto(q, "append")
  /\ req' = [req EXCEPT ![q] = [Blank EXCEPT !.at = p, !.status = status, !.told = payloads]]
  /\ pending' = [pending EXCEPT ![q] = payloads]

(* The handlers have returned; AuditMiddleware tells of the status that    *)
(* its statusWriter has seen.                                              *)
Respond(q, p, status) == Tell(q, p, status, <<status>>)

(* Mutant: the hash is read before the lock is taken, and stored after.    *)
AppendToUnlocked(p, payload) ==
  \E previous \in {previousHash[p], IF log[p] = <<>> THEN ZeroHash
                                    ELSE log[p][Len(log[p])].previous_hash} :
    LET entry == LogEntry(previous, now, payload) IN
    /\ previousHash' = [previousHash EXCEPT ![p] = entry.hash]
    /\ log' = [log EXCEPT ![p] = Append(@, entry)]
    /\ UNCHANGED ended

(* One Append of the logger of p: an entry linked to the hash it keeps,    *)
(* whose hash it keeps from now on.  The caller drops the entry.           *)
AppendTo(p, payload) ==
  LET entry == LogEntry(previousHash[p], now, payload) IN
  /\ previousHash' = [previousHash EXCEPT ![p] = entry.hash]
  /\ log' = [log EXCEPT ![p] = Append(@, entry)]
  /\ UNCHANGED ended

-----------------------------------------------------------------------------
(* The gateway.                                                            *)

(* IPAllowlist and RateLimitMiddleware answer by themselves, outside of    *)
(* AuditMiddleware: 403, 429, or 503 without Redis.                        *)
Refuse(q, p) ==
  /\ pc[q] = "new"
  /\ Goto(q, "refuse")
  /\ \E status \in {"refused", "failed"} :
       req' = [req EXCEPT ![q] = [Blank EXCEPT !.at = p, !.status = status]]
  /\ UNCHANGED <<now, lifetime, oauth, pending, lines, audit>>

(* What needs no token: healthz, jwks.json, which may fail, and the routes *)
(* and methods that are not there.                                         *)
Open(q, p) ==
  /\ pc[q] = "new"
  /\ \E status \in Statuses : Respond(q, p, status)
  /\ UNCHANGED <<now, lifetime, oauth, lines, audit>>

(* The scopes of a token; no request for scopes asks for all of them.      *)
intersectScopes(allowed, requested) ==
  IF requested = {} THEN allowed ELSE allowed \cap requested

(* The claims that TokenHandler fills in once it has read the row.         *)
ClaimsOf(p, c, requested) ==
  [client |-> c, scopes |-> intersectScopes(clients[c], requested),
   issuer |-> p, key |-> lifetime[p], exp |-> 0, read |-> changes, signed |-> 0]

(* TokenHandler as far as the row of the client.  A client without a row   *)
(* counts as one without scopes: it has no use for a token.                *)
RequestToken(q, p, c, requested) ==
  /\ pc[q] = "new"
  /\ requested = {} \/ intersectScopes(clients[c], requested) # {}
  /\ Goto(q, "sign")
  /\ req' = [req EXCEPT ![q] =
       [at |-> p, scope |-> None, claims |-> ClaimsOf(p, c, requested),
        status |-> None, told |-> <<>>]]
  /\ UNCHANGED <<now, lifetime, oauth, pending, lines, audit>>

(* Not a grant of client_credentials, no row, no database, a wrong secret, *)
(* scopes that are not the client's; or the signing fails.                 *)
RefuseToken(q, p) ==
  /\ pc[q] = "new"
  /\ \E status \in {"refused", "failed"} : Respond(q, p, status)
  /\ UNCHANGED <<now, lifetime, oauth, lines, audit>>

(* Mutant: the token expires TTL after it would have expired.              *)
SignTokenDoubling(q) ==
  /\ pc[q] = "sign"
  /\ tokens' = tokens \cup {[req[q].claims EXCEPT !.exp = now + 2 * TTL, !.signed = changes]}
  /\ Respond(q, req[q].at, "ok")
  /\ UNCHANGED <<now, lifetime, clients, changes, removed, lines, audit>>

(* The secret has been compared, and the token is made.                    *)
SignToken(q) ==
  /\ pc[q] = "sign"
  /\ tokens' = tokens \cup {[req[q].claims EXCEPT !.exp = now + TTL, !.signed = changes]}
  /\ Respond(q, req[q].at, "ok")
  /\ UNCHANGED <<now, lifetime, clients, changes, removed, lines, audit>>

(* Mutant: a token is good while its key is.                               *)
ValidateUnexpired(p, claims) ==
  /\ claims.issuer = p
  /\ claims.key = lifetime[p]

(* A token is good for the process that signed it, in the same lifetime,   *)
(* until it expires.                                                       *)
Validate(p, claims) ==
  /\ claims.issuer = p
  /\ claims.key = lifetime[p]
  /\ now < claims.exp

Authenticate(q, p, claims, scope) ==
  /\ pc[q] = "new"
  /\ Validate(p, claims)
  /\ scope \in claims.scopes
  /\ Goto(q, "handler")
  /\ req' = [req EXCEPT ![q] = [at |-> p, scope |-> scope, claims |-> claims,
                                  status |-> None, told |-> <<>>]]
  /\ UNCHANGED <<now, lifetime, oauth, pending, lines, audit>>

(* No token, one that is not good, or one without the scope.               *)
RefuseRequest(q, p) ==
  /\ pc[q] = "new"
  /\ Respond(q, p, "refused")
  /\ UNCHANGED <<now, lifetime, oauth, lines, audit>>

(* The handler of the route, whatever it does.                             *)
Handle(q) ==
  /\ pc[q] = "handler"
  /\ \E status \in Statuses : Respond(q, req[q].at, status)
  /\ UNCHANGED <<now, lifetime, oauth, lines, audit>>

(* Mutant: the log is told in a defer, with the status there was.          *)
HandlerPanicsDeferring(q) ==
  /\ pc[q] = "handler"
  /\ Goto(q, "panicked")
  /\ AppendTo(req[q].at, <<q, "ok">>)
  /\ UNCHANGED <<now, lifetime, oauth, req, pending, lines>>

(* Recoverer is outside of RequestLogger and AuditMiddleware, and neither  *)
(* has a defer.                                                            *)
HandlerPanics(q) ==
  /\ pc[q] = "handler"
  /\ Goto(q, "panicked")
  /\ UNCHANGED <<now, lifetime, oauth, req, pending, lines, audit>>

-----------------------------------------------------------------------------
(* The audit log.                                                          *)

(* auditd is sent a batch.  It answers when it has gone through it, and    *)
(* prints nothing.                                                         *)
Ingest(q, p) ==
  /\ pc[q] = "new"
  /\ Tell(q, p, None, Batch)
  /\ UNCHANGED <<now, lifetime, oauth, lines, audit>>

(* One Append, with the logger locked; the clock is read under the lock.   *)
(* After the last one Ingest answers, and AuditMiddleware returns to       *)
(* RequestLogger.                                                          *)
AppendEntry(q) ==
  /\ pc[q] = "append"
  /\ AppendTo(req[q].at, <<q, Head(pending[q])>>)
  /\ pending' = [pending EXCEPT ![q] = Tail(@)]
  /\ Goto(q, IF Tail(pending[q]) # <<>> THEN "append"
             ELSE IF req[q].at \in Gateways THEN "print" ELSE "done")
  /\ UNCHANGED <<now, lifetime, oauth, req, lines>>

(* RequestLogger, after all it is around: the status its statusWriter saw. *)
PrintLine(q) ==
  /\ \/ pc[q] = "print" /\ Goto(q, "done")
     \/ pc[q] = "refuse" /\ Goto(q, "refused")
  /\ lines' = [lines EXCEPT ![q] = Append(@, req[q].status)]
  /\ UNCHANGED <<now, lifetime, oauth, req, pending, audit>>

-----------------------------------------------------------------------------
(* What happens to all.                                                    *)

InProgress == {"refuse", "sign", "handler", "append", "print"}

(* A process ends, and with it every request it was about: main does not   *)
(* wait for Shutdown.  It starts again with a key and a chain of its own.  *)
Restart(p) ==
  /\ \A r \in Processes : lifetime[r] < MaxLifetime
  /\ lifetime' = [lifetime EXCEPT ![p] = @ + 1]
  /\ ended' = ended \cup {log[p]}
  /\ log' = [log EXCEPT ![p] = <<>>]
  /\ previousHash' = [previousHash EXCEPT ![p] = ZeroHash]
  /\ pc' = [q \in Requests |->
               IF pc[q] \in InProgress /\ req[q].at = p THEN "lost" ELSE pc[q]]
  /\ UNCHANGED <<now, oauth, req, pending, lines>>

(* An operator changes the scopes of a client.                             *)
SetScopes(c, scopes) ==
  /\ changes < MaxChanges
  /\ scopes # clients[c]
  /\ changes' = changes + 1
  /\ clients' = [clients EXCEPT ![c] = scopes]
  /\ removed' = [removed EXCEPT ![c] =
       [s \in Scopes |->
          IF s \in clients[c] \ scopes THEN [change |-> changes', time |-> now] ELSE @[s]]]
  /\ UNCHANGED <<now, lifetime, tokens, requests, lines, audit>>

Tick ==
  /\ now < MaxTime
  /\ now' = now + 1
  /\ UNCHANGED <<lifetime, oauth, requests, lines, audit>>

Serve(q, p) ==
  \/ Refuse(q, p)
  \/ Open(q, p)
  \/ \E c \in Clients, requested \in SUBSET Scopes : RequestToken(q, p, c, requested)
  \/ RefuseToken(q, p)
  \/ \E scope \in Scopes, claims \in tokens : Authenticate(q, p, claims, scope)
  \/ RefuseRequest(q, p)

Step(q) ==
  \/ \E p \in Gateways : Serve(q, p)
  \/ \E p \in Auditds : Ingest(q, p)
  \/ SignToken(q)
  \/ Handle(q)
  \/ HandlerPanics(q)
  \/ AppendEntry(q)
  \/ PrintLine(q)

Next ==
  \/ \E q \in Requests : Step(q)
  \/ \E p \in Processes : Restart(p)
  \/ \E c \in Clients, scopes \in SUBSET Scopes : SetScopes(c, scopes)
  \/ Tick

Spec == Init /\ [][Next]_vars

-----------------------------------------------------------------------------
(* All that Append has returned: by lifetime of a logger, in order.        *)
Logs == ended \cup {log[p] : p \in Processes}

(* The entries of a log that are about a request say this, in this order,  *)
(* and nothing else.                                                       *)
Tells(entries, q, part) ==
  \E at \in [DOMAIN part -> DOMAIN entries] :
    /\ \A i, j \in DOMAIN part : i < j => at[i] < at[j]
    /\ \A i \in DOMAIN part : entries[at[i]].payload = <<q, part[i]>>
    /\ \A k \in DOMAIN entries :
         entries[k].payload[1] = q => \E i \in DOMAIN part : at[i] = k

(* The types; no token outlives its TTL, and what Append is still to be    *)
(* called with is the end of what it is called with.                       *)
TypeOK ==
  /\ now \in 1..MaxTime
  /\ clients \in [Clients -> SUBSET Scopes]
  /\ changes \in 0..MaxChanges
  /\ removed \in [Clients -> [Scopes -> [change: 0..changes, time: 0..now]]]
  /\ lifetime \in [Processes -> 1..MaxLifetime]
  /\ tokens \subseteq {claims \in Claims : claims.exp \in 1..(now + TTL)}
  /\ pc \in [Requests -> {"new", "refuse", "refused", "sign", "handler", "panicked",
                          "append", "print", "done", "lost"}]
  /\ lines \in [Requests -> Seq(Statuses)]
  /\ \A q \in Requests :
       /\ pc[q] \in {"sign", "handler"} => req[q].claims \in Claims /\ req[q].at \in Gateways
       /\ pc[q] = "append" => req[q].at \in Processes /\ pending[q] # <<>>
       /\ pc[q] \in {"print", "refuse"} => req[q].at \in Gateways /\ req[q].status \in Statuses
       /\ \E i \in 0..Len(req[q].told) :
            pending[q] = SubSeq(req[q].told, i + 1, Len(req[q].told))

(* The one hash that a logger keeps is that of the last entry it has made, *)
(* and so stands for all that Append was told since the process began.     *)
(* The entries of all lifetimes tell of every request that came through    *)
(* exactly what it was answered, or the batch it brought, once and in      *)
(* order, and in one lifetime; of a request that panicked nothing; of one  *)
(* that its process took with it a beginning at most.  Of a request to a   *)
(* gateway there is one line, with the status that the chain tells, and    *)
(* never before the entry; only of those refused outside of                *)
(* AuditMiddleware is there a line and no entry; and of those that         *)
(* panicked, or were cut off, there is none.                               *)
AuditTellsTheAnswers ==
  /\ \A p \in Processes : previousHash[p] = PreviousHash(log[p])
  /\ \A q \in Requests :
       LET telling == {entries \in Logs : ~Tells(entries, q, <<>>)} IN
       /\ \A entries, others \in telling : entries = others
       /\ pc[q] \in {"print", "done"} => telling # {}
       /\ \A entries \in telling :
            IF pc[q] \in {"print", "done"} THEN Tells(entries, q, req[q].told)
            ELSE /\ pc[q] \in {"append", "lost"}
                 /\ \E i \in 1..Len(req[q].told) :
                      Tells(entries, q, SubSeq(req[q].told, 1, i))
       /\ lines[q] # <<>> =>
            /\ lines[q] = <<req[q].status>>
            /\ IF pc[q] = "refused" THEN telling = {}
               ELSE \E entries \in telling : Tells(entries, q, lines[q])
       /\ req[q].at \in Gateways /\ pc[q] \in {"done", "refused"} => lines[q] # <<>>
       /\ pc[q] \in {"panicked", "lost"} => lines[q] = <<>>

(* VerifyChain accepts the pieces of what one logger made in one lifetime  *)
(* and no other collection of entries that Append ever returned: not one   *)
(* with a hole, with two entries swapped, or put together from two         *)
(* loggers.  It is about the entries as they were made; the program keeps  *)
(* none of them.                                                           *)
PiecesVerify ==
  LET made == UNION {{entries[i] : i \in DOMAIN entries} : entries \in Logs}
  IN  \A collected \in {<<e, f>> : e, f \in made} \cup {<<e, f, g>> : e, f, g \in made} :
        VerifyChain(collected) <=> \E entries \in Logs : IsPieceOf(collected, entries)

(* A client that has lost a scope is served on it only with a token whose  *)
(* row was read before, and from TTL after the loss only if the signing of *)
(* that token was still to come.                                           *)
LostScopesRunOut ==
  [][ \A q \in Requests :
        pc[q] # "handler" /\ pc'[q] = "handler" =>
          LET claims == req'[q].claims
              scope == req'[q].scope
              loss == removed[claims.client][scope]
          IN  \/ scope \in clients[claims.client]
              \/ /\ claims.read < loss.change
                 /\ now < loss.time + TTL \/ claims.signed >= loss.change ]_vars

=============================================================================
