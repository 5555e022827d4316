------------------------ MODULE DisputeStateMachine ------------------------
(***************************************************************************)
(* StateMachine of internal/disputes/state_machine.go over a               *)
(* TransitionStore: the in-memory store of its tests, or the table         *)
(* dispute_transitions of migration 021 through PostgresTransitionStore.   *)
(* An instance may keep some disputes in the one and some in the other.    *)
(*                                                                         *)
(* Transition reads the latest transition of the dispute, validates the    *)
(* request against it and then stores a new transition; nothing holds the  *)
(* dispute between the read and the store, so calls interleave there.      *)
(*                                                                         *)
(* A transition hash covers the moment it is calculated, so no two are     *)
(* alike: the position of a transition in the history of its dispute       *)
(* stands for its hash, and 0 for the empty string.  Reasons, authors and  *)
(* metadata are left out.                                                  *)
(***************************************************************************)
EXTENDS Integers, Sequences, FiniteSets

CONSTANTS
  Callers,         (* concurrent callers of Transition                     *)
  Disputes,        (* dispute ids                                          *)
  Store,           (* where a dispute is kept: "memory" or "postgres"      *)
  Faults,          (* which failures of the store happen                   *)
  MaxTransitions   (* bound on the transitions of a dispute                *)

ASSUME StateMachineAssumption ==
  /\ Store \in [Disputes -> {"memory", "postgres"}]
  /\ Faults \subseteq {"unavailable", "reply_lost"}
  /\ MaxTransitions \in Nat

VARIABLES
  history,   (* the stored transitions of each dispute, in order           *)
  pc,        (* where each caller's Transition stands                      *)
  request,   (* the dispute and the target state it asks for               *)
  seen,      (* currentState and prevHash as it read them                  *)
  outcome    (* how its call ended, until the caller has looked            *)

calls == <<pc, request, seen, outcome>>
vars == <<history, calls>>

States == {"PENDING", "AUTHORIZED", "SETTLED", "DISPUTED", "REVERSED"}

AllowedTransitions ==
  [s \in States |->
     CASE s = "PENDING"    -> {"AUTHORIZED", "REVERSED"}
       [] s = "AUTHORIZED" -> {"SETTLED", "REVERSED"}
       [] s = "SETTLED"    -> {"DISPUTED", "REVERSED"}
       [] s = "DISPUTED"   -> {"REVERSED"}
       [] s = "REVERSED"   -> {}]

(* The zero values of currentState (the empty string) and prevHash.        *)
Nothing == [state |-> "none", hash |-> 0]

StateTransition == [from: States \cup {"none"}, to: States, hash: Nat \ {0}, prev: Nat]

Init ==
  /\ history = [d \in Disputes |-> <<>>]
  /\ pc = [c \in Callers |-> "idle"]
  /\ request = [c \in Callers |-> <<>>]
  /\ seen = [c \in Callers |-> Nothing]
  /\ outcome = [c \in Callers |-> "none"]

-----------------------------------------------------------------------------
IsValidTransition(from, to) == from \in States /\ to \in AllowedTransitions[from]

(* The operation that leads to a state, and the states that allow it.      *)
Operation(to) ==
  CASE to = "AUTHORIZED" -> "authorize"
    [] to = "SETTLED"    -> "settle"
    [] to = "DISPUTED"   -> "dispute"
    [] to = "REVERSED"   -> "reverse"

ValidateOperation(state, operation) ==
  CASE operation = "authorize" -> state = "PENDING"
    [] operation = "settle"    -> state = "AUTHORIZED"
    [] operation = "dispute"   -> state = "SETTLED"
    [] operation = "reverse"   -> state \in {"DISPUTED", "SETTLED", "AUTHORIZED", "PENDING"}

(* Mutant: the oldest transition, not the latest.                          *)
Oldest(d) ==
  IF history[d] = <<>> THEN Nothing
  ELSE [state |-> history[d][1].to, hash |-> history[d][1].hash]

(* GetLatestTransition, as Transition uses it.                             *)
Latest(d) ==
  IF history[d] = <<>> THEN Nothing
  ELSE LET last == history[d][Len(history[d])]
       IN  [state |-> last.to, hash |-> last.hash]

(* Mutant: the trigger and the CHECKs let the first transition through.    *)
DatabaseRejectsLater(d, t) ==
  /\ Store[d] = "postgres"
  /\ Latest(d).hash # 0
  /\ t.from \notin States \/ ~IsValidTransition(Latest(d).state, t.to)

(* What migration 021 does to an inserted row: a trigger replaces prev_hash *)
(* by the hash of the latest transition, '' if there is none, CHECKs want   *)
(* prev_hash and from_state not empty, and a trigger wants an allowed step. *)
DatabaseRejects(d, t) ==
  /\ Store[d] = "postgres"
  /\ \/ Latest(d).hash = 0
     \/ t.from \notin States
     \/ ~IsValidTransition(Latest(d).state, t.to)

-----------------------------------------------------------------------------
End(c, how) ==
  /\ pc' = [pc EXCEPT ![c] = "idle"]
  /\ outcome' = [outcome EXCEPT ![c] = how]
  /\ request' = [request EXCEPT ![c] = <<>>]
  /\ seen' = [seen EXCEPT ![c] = Nothing]

(* Transition is called.  The service asks for PENDING only with the id of *)
(* a new dispute; then nothing is read or validated.                       *)
IsNew(d) == history[d] = <<>> /\ \A c \in Callers : request[c] # <<d, "PENDING">>

Transition(c, d, to) ==
  /\ pc[c] = "idle" /\ outcome[c] = "none"
  /\ Len(history[d]) < MaxTransitions
  /\ to = "PENDING" => IsNew(d)
  /\ request' = [request EXCEPT ![c] = <<d, to>>]
  /\ pc' = [pc EXCEPT ![c] = IF to = "PENDING" THEN "store" ELSE "read"]
  /\ UNCHANGED <<history, seen, outcome>>

(* A request without dispute id, target state or author.                   *)
RefuseRequest(c) ==
  /\ pc[c] = "idle" /\ outcome[c] = "none"
  /\ End(c, "error")
  /\ UNCHANGED history

(* No rows is an error to PostgresTransitionStore: it compares with        *)
(* sql.ErrNoRows where pgx returns pgx.ErrNoRows.                          *)
NoRows(d) == Store[d] = "postgres" /\ history[d] = <<>>

Validates(view, to) ==
  IsValidTransition(view.state, to) /\ ValidateOperation(view.state, Operation(to))

(* Mutant: the step is not validated.                                      *)
ReadLatestUnvalidated(c) ==
  /\ pc[c] = "read"
  /\ ~NoRows(request[c][1])
  /\ seen' = [seen EXCEPT ![c] = Latest(request[c][1])]
  /\ pc' = [pc EXCEPT ![c] = "store"]
  /\ UNCHANGED <<history, request, outcome>>

ReadLatest(c) ==
  LET d == request[c][1] IN
  /\ pc[c] = "read"
  /\ ~NoRows(d)
  /\ Validates(Latest(d), request[c][2])
  /\ seen' = [seen EXCEPT ![c] = Latest(d)]
  /\ pc' = [pc EXCEPT ![c] = "store"]
  /\ UNCHANGED <<history, request, outcome>>

RefuseTransition(c) ==
  LET d == request[c][1] IN
  /\ pc[c] = "read"
  /\ IF NoRows(d) THEN End(c, "error")
     ELSE ~Validates(Latest(d), request[c][2]) /\ End(c, "invalid")
  /\ UNCHANGED history

(* Mutants: the transition keeps the hash of the one before; it does not   *)
(* point at the one before.                                                *)
NewTransitionUnhashed(c) ==
  [from |-> seen[c].state, to |-> request[c][2], hash |-> seen[c].hash, prev |-> seen[c].hash]

NewTransitionUnchained(c) ==
  [from |-> seen[c].state, to |-> request[c][2],
   hash |-> Len(history[request[c][1]]) + 1, prev |-> 0]

(* The hash and the record of the new transition, from what was read.      *)
NewTransition(c) ==
  [from |-> seen[c].state, to |-> request[c][2],
   hash |-> Len(history[request[c][1]]) + 1, prev |-> seen[c].hash]

CreateTransition(c) ==
  LET d == request[c][1] IN
  /\ pc[c] = "store"
  /\ ~DatabaseRejects(d, NewTransition(c))
  /\ history' = [history EXCEPT ![d] = Append(@, NewTransition(c))]
  /\ End(c, "ok") \/ ("reply_lost" \in Faults /\ End(c, "error"))

RejectTransition(c) ==
  /\ pc[c] = "store"
  /\ DatabaseRejects(request[c][1], NewTransition(c))
  /\ End(c, "error")
  /\ UNCHANGED history

StoreUnavailable(c) ==
  /\ "unavailable" \in Faults
  /\ pc[c] # "idle"
  /\ End(c, "error")
  /\ UNCHANGED history

(* The caller takes the TransitionResult.                                  *)
TakeResult(c) ==
  /\ pc[c] = "idle" /\ outcome[c] # "none"
  /\ outcome' = [outcome EXCEPT ![c] = "none"]
  /\ UNCHANGED <<history, pc, request, seen>>

(* A call in progress goes on.                                             *)
Continue(c) ==
  \/ ReadLatest(c)
  \/ RefuseTransition(c)
  \/ CreateTransition(c)
  \/ RejectTransition(c)
  \/ StoreUnavailable(c)

Step(c) ==
  \/ RefuseRequest(c)
  \/ \E d \in Disputes, to \in States : Transition(c, d, to)
  \/ Continue(c)
  \/ TakeResult(c)

Next == \E c \in Callers : Step(c)

Spec == Init /\ [][Next]_vars

-----------------------------------------------------------------------------
(* GetCurrentState, with its default.                                      *)
CurrentState(d) == IF history[d] = <<>> THEN "PENDING" ELSE Latest(d).state

(* The continuity of the chain that VerifyChainIntegrity checks.           *)
ChainIsContinuous(d) ==
  \A i \in DOMAIN history[d] : i > 1 => history[d][i].prev = history[d][i - 1].hash

-----------------------------------------------------------------------------
(* The types of the histories and of what the calls know of them.          *)
TypeOK ==
  /\ history \in [Disputes -> Seq(StateTransition)]
  /\ pc \in [Callers -> {"idle", "read", "store"}]
  /\ \A c \in Callers : pc[c] # "idle" => request[c] \in Disputes \X States
  /\ DOMAIN request = Callers
  /\ seen \in [Callers -> [state: States \cup {"none"}, hash: Nat]]
  /\ outcome \in [Callers -> {"none", "ok", "invalid", "error"}]

(* Through any interleaving of calls a dispute is created once, first, and *)
(* every other transition extends an earlier one of its dispute along an   *)
(* allowed edge, by hash and by state: the history is a tree.              *)
Extends(d, j, i) ==
  LET old == history[d][j]
      new == history[d][i]
  IN  new.prev = old.hash /\ new.from = old.to /\ new.to \in AllowedTransitions[old.to]

HistoryIsATree ==
  \A d \in Disputes : \A i \in DOMAIN history[d] :
    IF history[d][i].to = "PENDING" THEN i = 1 ELSE \E j \in 1..i - 1 : Extends(d, j, i)

(* A transition is extended by at most as many others as there are callers *)
(* of Transition at a time: once it is not the latest any more, only those *)
(* who read it before can still extend it.                                 *)
ForksAreBounded ==
  \A d \in Disputes : \A j \in DOMAIN history[d] :
    Cardinality({i \in DOMAIN history[d] : Extends(d, j, i)}) <= Cardinality(Callers)

(* With one caller at a time each transition of a dispute carries the hash *)
(* of the one before, as the test of VerifyChainIntegrity wants.           *)
HistoriesAreChained == \A d \in Disputes : ChainIsContinuous(d)

(* With one caller at a time the state machine implements the life cycle   *)
(* it promises.                                                            *)
Lifecycle ==
  INSTANCE DisputeLifecycle WITH state <- [d \in Disputes |-> Latest(d).state]

ImplementsLifecycle == Lifecycle!Spec

(* Migration 021 as written accepts no transition at all.                  *)
NothingIsRecorded ==
  \A d \in Disputes : Store[d] = "postgres" => history[d] = <<>>

-----------------------------------------------------------------------------
(* What the documentation and the tests say and the code does not do.      *)

(* "Terminal state": a dispute that is REVERSED stays so.                  *)
ReversedIsTerminal ==
  [][ \A d \in Disputes : CurrentState(d) = "REVERSED" => CurrentState(d)' = "REVERSED" ]_vars

=============================================================================
