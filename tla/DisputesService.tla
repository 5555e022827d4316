--------------------------- MODULE DisputesService ---------------------------
(***************************************************************************)
(* DisputesService of internal/disputes/service.go over the tables and     *)
(* triggers of migration 020, the pool of connections it shares with the   *)
(* ledger validator, and the state machine (Machine) it calls.             *)
(*                                                                         *)
(* A call keeps the connection of its transaction to its end, and its      *)
(* transition of the state machine runs on other connections: what the     *)
(* transaction does is undone when the call fails, the transition is not.  *)
(*                                                                         *)
(* Some statements of the code can never succeed (Obstacles); with all of  *)
(* them no dispute is ever created, and an instance drops those it looks   *)
(* behind.  Ids, hashes, times and texts are left out: Asked gives for     *)
(* each dispute id the request that CreateDispute makes it for.            *)
(***************************************************************************)
EXTENDS DisputeReasons, Sequences, FiniteSets

CONSTANTS
  Callers,         (* concurrent callers of the service                    *)
  Uses,            (* the operations each of them calls, and on what        *)
  Validators,      (* concurrent calls of ComprehensiveValidation          *)
  Disputes,        (* dispute ids                                          *)
  Asked,           (* the request a dispute id is made for                 *)
  EntryAmount,     (* the amount of each journal entry                     *)
  Opening,         (* reserve of each merchant that has a row, at first    *)
  Rate,            (* what the reserve takes of a unit of the amount       *)
  Obstacles,       (* statements that never succeed                        *)
  Store, Faults, MaxTransitions,    (* of the state machine                *)
  Limit,           (* bound on the transitions of each dispute             *)
  PoolSize         (* connections of the pool                              *)

Entries == DOMAIN EntryAmount
Merchants == DOMAIN Opening

Operations == {"create", "authorize", "initiate", "reverse", "settle"}

ASSUME ServiceAssumption ==
  /\ IsFiniteSet(Callers) /\ IsFiniteSet(Validators)
  /\ Uses \in [Callers -> SUBSET (Operations \X Disputes)]
  /\ EntryAmount \in [Entries -> Nat]
  /\ Opening \in [Merchants -> Nat]
  /\ Rate \in Nat
  /\ DOMAIN Asked = Disputes
  /\ \A d \in Disputes : Asked[d].entry \in Entries /\ Asked[d].amount \in Int
  /\ Store \in [Disputes -> {"memory", "postgres"}]
  /\ Faults \subseteq {"unavailable", "reply_lost"}
  /\ MaxTransitions \in Nat
  /\ Limit \in [Disputes -> 0..MaxTransitions]
  /\ PoolSize \in Nat

VARIABLES
  status,      (* of the rows of disputes, "none" without a row            *)
  holds,       (* of each dispute: how many are ACTIVE, how many RELEASED  *)
  reserve,     (* current_reserve_amount of each merchant                  *)
  overlapped,  (* merchants two of whose calls overlapped from the reading *)
               (* of the reserve to the commit (for the properties)        *)
  late,        (* of each dispute that has ended: the authorizations that  *)
               (* had read it before and were still in progress (for the   *)
               (* properties)                                              *)
  pc,          (* where each call of the service stands                    *)
  call,        (* its operation, its disputes, those left, the reserve read *)
  validating,  (* validators that hold rows open                           *)
  history, step, request, seen, outcome     (* of the state machine        *)

machine == <<history, step, request, seen, outcome>>
tables == <<status, holds, reserve, overlapped, late>>
calls == <<pc, call>>
vars == <<tables, calls, validating, machine>>

Machine == INSTANCE DisputeStateMachine WITH pc <- step

NoCall == [op |-> "none", on |-> {}, left |-> {}, base |-> 0]

Init ==
  /\ status = [d \in Disputes |-> "none"]
  /\ holds = [d \in Disputes |-> [active |-> 0, released |-> 0]]
  /\ reserve = Opening
  /\ overlapped = {}
  /\ late = [d \in Disputes |-> 0]
  /\ pc = [c \in Callers |-> "idle"]
  /\ call = [c \in Callers |-> NoCall]
  /\ validating = {}
  /\ Machine!Init

-----------------------------------------------------------------------------
(* The pool.  A transaction keeps its connection, and so do the rows of a  *)
(* validator; every other statement takes one for a moment.                *)

InTransaction(c) == pc[c] \notin {"idle", "begin", "ok"} /\ call[c].op # "initiate"

InUse == Cardinality({c \in Callers : InTransaction(c)}) + Cardinality(validating)

FreeConnection == InUse < PoolSize

-----------------------------------------------------------------------------
(* The beginning and the end of a call.                                    *)

(* Room in the history of a dispute for what the calls in progress may add. *)
Room(d) == Len(history[d]) + Cardinality({c \in Callers : d \in call[c].on}) < Limit[d]

Start(c, op, on) ==
  /\ pc[c] = "idle" /\ \E d \in on : <<op, d>> \in Uses[c]
  /\ pc' = [pc EXCEPT ![c] = "begin"]
  /\ call' = [call EXCEPT ![c] = [op |-> op, on |-> on, left |-> {}, base |-> 0]]
  /\ UNCHANGED <<tables, validating, machine>>

Continue(c, from, next) ==
  /\ pc[c] = from
  /\ pc' = [pc EXCEPT ![c] = next]
  /\ UNCHANGED validating

(* The call returns, with an error or, from "ok", with success.            *)
End(c) ==
  /\ pc' = [pc EXCEPT ![c] = "idle"]
  /\ call' = [call EXCEPT ![c] = NoCall]
  /\ UNCHANGED validating

(* It fails, and its transaction is rolled back.                           *)
Fail(c) == End(c) /\ UNCHANGED <<tables, machine>>

Succeed(c) == pc[c] = "ok" /\ End(c) /\ UNCHANGED <<tables, machine>>

(* A dispute gets an id of its own each time one is created; only with the *)
(* answer does anybody know it.                                            *)
CreateDispute(c, d) ==
  /\ status[d] = "none" /\ history[d] = <<>>
  /\ Room(d)
  /\ \A b \in Callers : call[b].op = "create" => d \notin call[b].on
  /\ Start(c, "create", {d})

AuthorizeDispute(c, d) == status[d] # "none" /\ Room(d) /\ Start(c, "authorize", {d})

ReverseDispute(c, d) == status[d] # "none" /\ Room(d) /\ Start(c, "reverse", {d})

(* InitiateDispute has no transaction.                                     *)
InitiateDispute(c, d) == status[d] # "none" /\ Room(d) /\ Start(c, "initiate", {d})

SettleTransaction(c, e) ==
  LET on == {d \in Disputes : Asked[d].entry = e} IN
  /\ \A d \in on : status[d] \in {"PENDING", "AUTHORIZED"} => Room(d)
  /\ Start(c, "settle", on)

-----------------------------------------------------------------------------
(* Up to the transition.  A call waits for the connection of its           *)
(* transaction, or of its first statement, and makes that statement.       *)

CanInsert(d) ==
  /\ ValidateDisputeRequest(Asked[d], EntryAmount[Asked[d].entry])
  /\ "metadata" \notin Obstacles

(* The row of the dispute is seen by nobody else before the commit.        *)
InsertDispute(c, d) ==
  /\ FreeConnection
  /\ call[c].op = "create" /\ d \in call[c].on
  /\ CanInsert(d)
  /\ Continue(c, "begin", "transition")
  /\ Machine!Transition(c, d, "PENDING")
  /\ UNCHANGED <<tables, call>>

(* The check each operation makes of the status it has read, and the state *)
(* it asks the state machine for.                                          *)
Allows(op, s) ==
  CASE op = "authorize" -> s = "PENDING"
    [] op = "initiate"  -> s = "SETTLED"
    [] op = "reverse"   -> s # "none"

Target(op) ==
  CASE op = "authorize" -> "AUTHORIZED"
    [] op = "initiate"  -> "DISPUTED"
    [] op = "reverse"   -> "REVERSED"

CanRead(op, d) == "scan" \notin Obstacles /\ Allows(op, status[d])

ReadDispute(c, d) ==
  /\ FreeConnection
  /\ call[c].op \in {"authorize", "initiate", "reverse"} /\ d \in call[c].on
  /\ CanRead(call[c].op, d)
  /\ Continue(c, "begin", "transition")
  /\ Machine!Transition(c, d, Target(call[c].op))
  /\ UNCHANGED <<tables, call>>

(* SettleTransaction settles the disputes it finds AUTHORIZED, in turn.    *)
ReadDisputes(c) ==
  LET rows == {d \in call[c].on : status[d] # "none"}
      open == {d \in rows : status[d] = "AUTHORIZED"}
  IN  /\ FreeConnection
      /\ call[c].op = "settle"
      /\ rows # {} => "scan" \notin Obstacles
      /\ Continue(c, "begin", IF open = {} THEN "commit" ELSE "next")
      /\ call' = [call EXCEPT ![c].on = open, ![c].left = open]
      /\ UNCHANGED <<tables, machine>>

SettleNext(c, d) ==
  /\ d \in call[c].left
  /\ Continue(c, "next", "transition")
  /\ call' = [call EXCEPT ![c].left = @ \ {d}]
  /\ Machine!Transition(c, d, "SETTLED")
  /\ UNCHANGED tables

(* The request is refused, or its dispute not found or in another state.   *)
Refuse(c) ==
  /\ pc[c] = "begin" /\ FreeConnection
  /\ CASE call[c].op = "create" -> \A d \in call[c].on : ~CanInsert(d)
       [] call[c].op = "settle" -> "scan" \in Obstacles /\ \E d \in call[c].on : status[d] # "none"
       [] OTHER -> \A d \in call[c].on : ~CanRead(call[c].op, d)
  /\ Fail(c)

-----------------------------------------------------------------------------
(* The transition.                                                         *)

(* Its statements take other connections than the transaction holds.       *)
TransitionStep(c) ==
  /\ FreeConnection
  /\ Machine!Continue(c)
  /\ UNCHANGED <<tables, calls, validating>>

Returned(c) == pc[c] = "transition" /\ step[c] = "idle"

ReturnedOk(c, op) == Returned(c) /\ outcome[c] = "ok" /\ call[c].op = op

InitiateDone(c) ==
  /\ ReturnedOk(c, "initiate")
  /\ Continue(c, "transition", "ok")
  /\ Machine!TakeResult(c)
  /\ UNCHANGED <<tables, call>>

SettleDone(c) ==
  /\ ReturnedOk(c, "settle")
  /\ Continue(c, "transition", IF call[c].left = {} THEN "commit" ELSE "next")
  /\ Machine!TakeResult(c)
  /\ UNCHANGED <<tables, call>>

-----------------------------------------------------------------------------
(* The rest of the transaction.                                            *)

MerchantOf(c) == CHOOSE m \in {Asked[d].merchant : d \in call[c].on} : TRUE

Increment(c) == Rate * Asked[CHOOSE d \in call[c].on : TRUE].amount

(* Between the reading of a merchant's reserve and the commit.             *)
OfReserve(c, m) == pc[c] \in {"reserve", "commit"} /\ call[c].op # "settle" /\ MerchantOf(c) = m

(* A hold refers to the row of its dispute, but the one that CreateDispute *)
(* makes to an id that no row has.  A merchant without a reserve is an     *)
(* error, as in NoRows of the state machine.                               *)
CanHold(c) ==
  /\ call[c].op = "create" => "hold_id" \notin Obstacles
  /\ MerchantOf(c) \in Merchants

(* Mutant: nobody asks whether the transition succeeded.                   *)
ApplyFundsHoldUnchecked(c) ==
  LET m == MerchantOf(c) IN
  /\ Returned(c) /\ call[c].op \in {"create", "authorize"}
  /\ CanHold(c)
  /\ Continue(c, "transition", "reserve")
  /\ call' = [call EXCEPT ![c].base = reserve[m]]
  /\ overlapped' = overlapped \cup {n \in {m} : \E b \in Callers \ {c} : OfReserve(b, n)}
  /\ Machine!TakeResult(c)
  /\ UNCHANGED <<status, holds, reserve, late>>

(* applyFundsHold, and updateFraudReserve up to the reading of the reserve. *)
ApplyFundsHold(c) ==
  LET m == MerchantOf(c) IN
  /\ ReturnedOk(c, "create") \/ ReturnedOk(c, "authorize")
  /\ CanHold(c)
  /\ Continue(c, "transition", "reserve")
  /\ call' = [call EXCEPT ![c].base = reserve[m]]
  /\ overlapped' = overlapped \cup {n \in {m} : \E b \in Callers \ {c} : OfReserve(b, n)}
  /\ Machine!TakeResult(c)
  /\ UNCHANGED <<status, holds, reserve, late>>

CanGoOn(c) ==
  /\ outcome[c] = "ok"
  /\ call[c].op \in {"create", "authorize"} => CanHold(c)

(* The call fails with its transition, for want of its hold or of the      *)
(* reserve, or with any statement after the transition.                    *)
TransitionFails(c) ==
  /\ Returned(c)
  /\ CanGoOn(c) => "unavailable" \in Faults /\ call[c].op # "initiate"
  /\ End(c)
  /\ Machine!TakeResult(c)
  /\ UNCHANGED tables

(* The row of the reserve stays locked from the update to the commit.      *)
ReserveLocked(c) == \E b \in Callers \ {c} : pc[b] = "commit" /\ OfReserve(b, MerchantOf(c))

UpdateFraudReserve(c) ==
  /\ Continue(c, "reserve", "commit")
  /\ ~ReserveLocked(c)
  /\ UNCHANGED <<tables, call, machine>>

(* Mutant: the increment replaces the reserve.                             *)
NewReserveAfresh(c) == Increment(c)

(* Mutant: the increment is taken from the reserve.                        *)
NewReserveSpent(c) == call[c].base - Increment(c)

(* newReserveAmount, from the reserve as it was read.                      *)
NewReserve(c) == call[c].base + Increment(c)

Commit(c) ==
  /\ pc[c] = "commit"
  /\ \/ pc' = [pc EXCEPT ![c] = "ok"] /\ UNCHANGED call
     \/ "reply_lost" \in Faults /\ End(c)
  /\ IF call[c].op \in {"create", "authorize"}
       THEN /\ status' = [d \in Disputes |->
                 IF d \in call[c].on /\ call[c].op = "create" THEN "PENDING" ELSE status[d]]
            /\ holds' = [d \in Disputes |->
                 IF d \in call[c].on THEN [holds[d] EXCEPT !.active = @ + 1] ELSE holds[d]]
            /\ reserve' = [reserve EXCEPT ![MerchantOf(c)] = NewReserve(c)]
       ELSE UNCHANGED <<status, holds, reserve>>
  /\ UNCHANGED <<overlapped, late, validating, machine>>

(* Mutant: a status may also stay what it is.                              *)
ValidTransitionOrSame(from, to) == from = to \/ Machine!IsValidTransition(from, to)

(* validate_dispute_transition, before every update of a dispute.          *)
ValidTransition(from, to) == Machine!IsValidTransition(from, to)

(* The details of the resolution: an update that leaves the status alone,  *)
(* so the trigger refuses it.                                              *)
CanResolve(c) == \A d \in call[c].on : ValidTransition(status[d], status[d])

ReverseDone(c) ==
  /\ ReturnedOk(c, "reverse")
  /\ IF CanResolve(c) THEN Continue(c, "transition", "commit") /\ UNCHANGED call ELSE End(c)
  /\ Machine!TakeResult(c)
  /\ UNCHANGED tables

(* Any statement of the transaction, its begin and its commit may fail.    *)
DatabaseFails(c) ==
  /\ "unavailable" \in Faults
  /\ pc[c] \notin {"idle", "transition", "ok"}
  /\ Fail(c)

-----------------------------------------------------------------------------
(* Nothing in the code changes the status of a dispute after its creation. *)
(* An operator brings it to its latest transition, and the triggers act.   *)

(* Mutant: the holds stay as they are.                                     *)
HoldsAfterUnreleased(d, to) == holds[d]

(* handle_dispute_resolution: the holds of a dispute that becomes REVERSED *)
(* are released.                                                           *)
HoldsAfter(d, to) ==
  IF to = "REVERSED"
    THEN [active |-> 0, released |-> holds[d].released + holds[d].active]
    ELSE holds[d]

(* The authorizations of a dispute between their reading and their end.    *)
Authorizers(d) ==
  {c \in Callers : /\ call[c].op = "authorize" /\ d \in call[c].on
                   /\ pc[c] \in {"transition", "reserve", "commit"}}

(* Each release posts a journal entry of its own, which the triggers of    *)
(* migration 011 refuse.                                                   *)
UpdateStatus(d, to) ==
  /\ ValidTransition(status[d], to)
  /\ Machine!Latest(d).state = to
  /\ to = "REVERSED" /\ holds[d].active > 0 => "release_entry" \notin Obstacles
  /\ status' = [status EXCEPT ![d] = to]
  /\ holds' = [holds EXCEPT ![d] = HoldsAfter(d, to)]
  /\ late' = IF to = "REVERSED" THEN [late EXCEPT ![d] = Cardinality(Authorizers(d))] ELSE late
  /\ UNCHANGED <<reserve, overlapped, calls, validating, machine>>

-----------------------------------------------------------------------------
(* ComprehensiveValidation asks for a connection for each transaction      *)
(* while it holds the one of its rows; its context ends after 5 seconds.   *)

OpenRows(v) ==
  /\ v \notin validating
  /\ FreeConnection
  /\ validating' = validating \cup {v}
  /\ UNCHANGED <<tables, calls, machine>>

CloseRows(v) ==
  /\ v \in validating
  /\ FreeConnection
  /\ validating' = validating \ {v}
  /\ UNCHANGED <<tables, calls, machine>>

(* Mutant: the validator has no deadline and goes on waiting.              *)
DeadlinePassesUnseen(v) == v \in validating /\ UNCHANGED vars

DeadlinePasses(v) ==
  /\ v \in validating
  /\ validating' = validating \ {v}
  /\ UNCHANGED <<tables, calls, machine>>

-----------------------------------------------------------------------------
Proceed(c) ==
  \/ \E d \in Disputes : InsertDispute(c, d) \/ ReadDispute(c, d) \/ SettleNext(c, d)
  \/ ReadDisputes(c)
  \/ Refuse(c)
  \/ TransitionStep(c)
  \/ TransitionFails(c)
  \/ InitiateDone(c)
  \/ SettleDone(c)
  \/ ReverseDone(c)
  \/ ApplyFundsHold(c)
  \/ UpdateFraudReserve(c)
  \/ Commit(c)
  \/ DatabaseFails(c)
  \/ Succeed(c)

Request(c) ==
  \/ \E d \in Disputes : \/ CreateDispute(c, d) \/ AuthorizeDispute(c, d)
                         \/ InitiateDispute(c, d) \/ ReverseDispute(c, d)
  \/ \E e \in Entries : SettleTransaction(c, e)

Next ==
  \/ \E c \in Callers : Request(c) \/ Proceed(c)
  \/ \E d \in Disputes, to \in Machine!States : UpdateStatus(d, to)
  \/ \E v \in Validators : OpenRows(v) \/ CloseRows(v) \/ DeadlinePasses(v)

Spec == Init /\ [][Next]_vars

(* A call can go on without a failure: it waits neither for a connection   *)
(* nor for the row of a reserve.                                           *)
CanProceed(c) ==
  /\ pc[c] # "idle"
  /\ pc[c] = "begin" \/ step[c] # "idle" => FreeConnection
  /\ pc[c] = "reserve" => ~ReserveLocked(c)

(* The pool serves those who wait in turn, and so does the lock of a row:  *)
(* a call that can go on again and again does.  This is SF_vars(Proceed(c)) *)
(* with the failures of the database left out of what must happen.  A      *)
(* deadline passes.                                                        *)
FairCaller(c) == []<>CanProceed(c) => []<><<pc[c] # "idle">>_<<pc[c], step[c], call[c]>>

FairSpec ==
  /\ Spec
  /\ \A c \in Callers : FairCaller(c)
  /\ \A v \in Validators : WF_vars(CloseRows(v) \/ DeadlinePasses(v))

-----------------------------------------------------------------------------
Call == [op: Operations \cup {"none"}, on: SUBSET Disputes, left: SUBSET Disputes, base: Nat]

(* The types of the tables, of the calls and of the pool: never more       *)
(* connections in use than it has.                                         *)
TypeOK ==
  /\ status \in [Disputes -> Machine!States \cup {"none"}]
  /\ holds \in [Disputes -> [active: Nat, released: Nat]]
  /\ reserve \in [Merchants -> Nat]
  /\ overlapped \subseteq Merchants
  /\ late \in [Disputes -> Nat]
  /\ pc \in [Callers -> {"idle", "begin", "next", "transition", "reserve", "commit", "ok"}]
  /\ call \in [Callers -> Call]
  /\ validating \subseteq Validators
  /\ InUse <= PoolSize
  /\ Machine!TypeOK

(* Although the transition is made outside the transaction, a dispute that *)
(* has a row has begun with PENDING in its history; a creation that failed *)
(* after its transition leaves just that one transition behind.            *)
DisputesBegin ==
  \A d \in Disputes :
    IF status[d] = "none"
      THEN Len(history[d]) <= 1 /\ \A i \in DOMAIN history[d] : history[d][i].to = "PENDING"
      ELSE history[d] # <<>> /\ history[d][1].to = "PENDING"

Authorizations(d) == Cardinality({i \in DOMAIN history[d] : history[d][i].to = "AUTHORIZED"})

(* A dispute has one hold of its creation and at most one more of each     *)
(* time it was authorized, whoever raced and failed; holds are released    *)
(* only and all with the dispute, and what is held of a REVERSED dispute   *)
(* was held after the release, once at most by each authorization that had *)
(* read the dispute before the end and was still in progress.              *)
HoldsAreAccountedFor ==
  \A d \in Disputes :
    LET total == holds[d].active + holds[d].released IN
    /\ status[d] = "none" => total = 0
    /\ status[d] # "none" => total \in 1..1 + Authorizations(d)
    /\ holds[d].released > 0 <=> status[d] = "REVERSED"
    /\ status[d] = "REVERSED" => holds[d].active <= late[d]

(* What the holds of a merchant have added to its reserve.                 *)
Due(m) ==
  LET of == {d \in Disputes : Asked[d].merchant = m}
      sum[S \in SUBSET of] ==
        IF S = {} THEN 0
        ELSE LET d == CHOOSE x \in S : TRUE
             IN  Rate * Asked[d].amount * (holds[d].active + holds[d].released) + sum[S \ {d}]
  IN  sum[of]

(* The reserve of a merchant is what its holds have added to it, unless    *)
(* two calls overlapped: then it is never more, and increments are lost.   *)
ReservesFollowHolds ==
  \A m \in Merchants :
    /\ reserve[m] <= Opening[m] + Due(m)
    /\ m \notin overlapped => reserve[m] = Opening[m] + Due(m)

(* Nothing is ever disputed for fraud, so what fraud_reserves collects     *)
(* comes from other disputes only.                                         *)
FraudIsNeverDisputed ==
  \A d \in Disputes :
    status[d] # "none" \/ history[d] # <<>> => Asked[d].code \notin FraudCodes

(* What a call that reports success has done.                              *)
Recorded(d, to) == \E i \in DOMAIN history[d] : history[d][i].to = to

Done(op, d) ==
  CASE op = "create"    -> status[d] # "none" /\ Recorded(d, "PENDING")
    [] op = "authorize" -> Recorded(d, "AUTHORIZED") /\ holds[d].active + holds[d].released >= 2
    [] op = "settle"    -> Recorded(d, "SETTLED")
    [] op = "initiate"  -> Recorded(d, "DISPUTED")
    [] op = "reverse"   -> status[d] = "REVERSED" /\ holds[d].active = 0

(* A call that reports success has made its transition and its holds;      *)
(* ReverseDispute, which releases nothing, never reports it.               *)
OkMeansDone ==
  \A c \in Callers : pc[c] = "ok" => \A d \in call[c].on : Done(call[c].op, d)

(* Every call returns, and so does every validator, although they hold     *)
(* connections while they wait for others.                                 *)
CallsReturn ==
  /\ \A c \in Callers : pc[c] # "idle" ~> pc[c] = "idle"
  /\ \A v \in Validators : v \in validating ~> v \notin validating

=============================================================================
