----------------------- MODULE DisputesServiceProofs -----------------------
(* Theorems of DisputesService, for every value of its constants. *)
EXTENDS DisputesService, Sums, TLAPS

(* The steps of a call that are not steps of its transition.               *)
LEMMA RequestKeepsMachine ==
  ASSUME NEW c \in Callers, Request(c)
  PROVE  UNCHANGED machine
BY DEF Request, CreateDispute, AuthorizeDispute, InitiateDispute, ReverseDispute,
       SettleTransaction, Start

(* A step of a call is a step of its transition, or leaves it alone.       *)
LEMMA ProceedStep ==
  ASSUME NEW c \in Callers, Proceed(c)
  PROVE  Machine!Step(c) \/ UNCHANGED machine
<1>1. ASSUME NEW d \in Disputes, InsertDispute(c, d)
      PROVE  Machine!Transition(c, d, "PENDING")
  BY <1>1 DEF InsertDispute
<1>2. ASSUME NEW d \in Disputes, ReadDispute(c, d)
      PROVE  Machine!Transition(c, d, "AUTHORIZED") \/ Machine!Transition(c, d, "DISPUTED")
               \/ Machine!Transition(c, d, "REVERSED")
  BY <1>2 DEF ReadDispute, Target
<1>3. ASSUME NEW d \in Disputes, SettleNext(c, d)
      PROVE  Machine!Transition(c, d, "SETTLED")
  BY <1>3 DEF SettleNext
<1>4. ASSUME NEW d \in Disputes, NEW to \in Machine!States, Machine!Transition(c, d, to)
      PROVE  Machine!Step(c)
  BY <1>4 DEF Machine!Step
<1>5. {"PENDING", "AUTHORIZED", "SETTLED", "DISPUTED", "REVERSED"} = Machine!States
  BY DEF Machine!States
<1>6. ASSUME TransitionStep(c)
      PROVE  Machine!Step(c)
  BY <1>6 DEF TransitionStep, Machine!Step
<1>7. ASSUME TransitionFails(c) \/ InitiateDone(c) \/ SettleDone(c) \/ ReverseDone(c)
               \/ ApplyFundsHold(c)
      PROVE  Machine!Step(c)
  BY <1>7 DEF TransitionFails, InitiateDone, SettleDone, ReverseDone, ApplyFundsHold, Machine!Step
<1>8. ASSUME ReadDisputes(c) \/ Refuse(c) \/ UpdateFraudReserve(c) \/ Commit(c)
               \/ DatabaseFails(c) \/ Succeed(c)
      PROVE  UNCHANGED machine
  BY <1>8 DEF ReadDisputes, Refuse, UpdateFraudReserve, Commit, DatabaseFails, Succeed, Fail
<1> QED
  BY <1>1, <1>2, <1>3, <1>4, <1>5, <1>6, <1>7, <1>8 DEF Proceed

(* Whatever the calls of the service do, what they do to the state machine *)
(* is what its callers may do: the service is composed of it.              *)
THEOREM ServiceUsesMachine == Spec => Machine!Spec
<1>1. Init => Machine!Init
  BY DEF Init
<1>2. [Next]_vars => [Machine!Next]_(Machine!vars)
  <2> SUFFICES ASSUME [Next]_vars
               PROVE  [Machine!Next]_(Machine!vars)
    OBVIOUS
  <2>1. UNCHANGED machine => UNCHANGED Machine!vars
    BY DEF machine, Machine!vars, Machine!calls
  <2>2. CASE UNCHANGED vars
    BY <2>1, <2>2 DEF vars
  <2>3. ASSUME NEW c \in Callers, Request(c) \/ Proceed(c)
        PROVE  [Machine!Next]_(Machine!vars)
    BY <2>1, <2>3, RequestKeepsMachine, ProceedStep DEF Machine!Next
  <2>4. ASSUME NEW d \in Disputes, NEW to \in Machine!States, UpdateStatus(d, to)
        PROVE  UNCHANGED machine
    BY <2>4 DEF UpdateStatus
  <2>5. ASSUME NEW v \in Validators, OpenRows(v) \/ CloseRows(v) \/ DeadlinePasses(v)
        PROVE  UNCHANGED machine
    BY <2>5 DEF OpenRows, CloseRows, DeadlinePasses
  <2> QED
    BY <2>1, <2>2, <2>3, <2>4, <2>5 DEF Next
<1> QED
  BY <1>1, <1>2, PTL DEF Spec, Machine!Spec

-----------------------------------------------------------------------------
(* What is proved of the state machine holds of the histories that the     *)
(* service leaves.                                                         *)

Histories == INSTANCE DisputeStateMachineProofs WITH pc <- step

LEMMA SameNext == Machine!Next <=> Histories!Next
BY DEF Machine!Next, Histories!Next, Machine!Step, Histories!Step,
       Machine!Transition, Histories!Transition,
       Machine!RefuseRequest, Histories!RefuseRequest,
       Machine!Continue, Histories!Continue, Machine!TakeResult, Histories!TakeResult,
       Machine!ReadLatest, Histories!ReadLatest,
       Machine!RefuseTransition, Histories!RefuseTransition,
       Machine!CreateTransition, Histories!CreateTransition,
       Machine!RejectTransition, Histories!RejectTransition,
       Machine!StoreUnavailable, Histories!StoreUnavailable, Machine!End, Histories!End,
       Machine!IsNew, Histories!IsNew, Machine!NoRows, Histories!NoRows,
       Machine!Validates, Histories!Validates,
       Machine!NewTransition, Histories!NewTransition,
       Machine!DatabaseRejects, Histories!DatabaseRejects,
       Machine!Latest, Histories!Latest, Machine!Nothing, Histories!Nothing,
       Machine!IsValidTransition, Histories!IsValidTransition,
       Machine!ValidateOperation, Histories!ValidateOperation,
       Machine!Operation, Histories!Operation,
       Machine!AllowedTransitions, Histories!AllowedTransitions,
       Machine!States, Histories!States

LEMMA ServiceHistories == Spec => Histories!Spec
<1>1. Machine!Init => Histories!Init
  BY DEF Histories!Init, Machine!Init, Histories!Nothing, Machine!Nothing
<1>2. [Machine!Next]_(Machine!vars) => [Histories!Next]_(Histories!vars)
  BY SameNext DEF Histories!vars, Machine!vars, Histories!calls, Machine!calls
<1>3. Machine!Spec => Histories!Spec
  BY <1>1, <1>2, PTL DEF Machine!Spec, Histories!Spec
<1> QED
  BY <1>3, ServiceUsesMachine, PTL

LEMMA MachineAssumption == Histories!StateMachineAssumption
BY ServiceAssumption DEF Histories!StateMachineAssumption

(* However calls of the service interleave and fail, the transitions of    *)
(* each dispute are a tree of allowed steps.                               *)
THEOREM ServiceTree == Spec => []Machine!HistoryIsATree
<1>1. Histories!Spec => []Histories!HistoryIsATree
  BY MachineAssumption, Histories!HistoryTree
<1>2. Histories!HistoryIsATree => Machine!HistoryIsATree
  BY DEF Histories!HistoryIsATree, Machine!HistoryIsATree, Histories!Extends, Machine!Extends,
     Histories!AllowedTransitions, Machine!AllowedTransitions, Histories!States, Machine!States
<1> QED
  BY <1>1, <1>2, ServiceHistories, PTL

(* Over the table of migration 021 the service records nothing either.     *)
THEOREM ServiceRecordsNothing == Spec => []Machine!NothingIsRecorded
<1>1. Histories!Spec => []Histories!NothingIsRecorded
  BY MachineAssumption, Histories!NothingRecorded
<1>2. Histories!NothingIsRecorded => Machine!NothingIsRecorded
  BY DEF Histories!NothingIsRecorded, Machine!NothingIsRecorded
<1> QED
  BY <1>1, <1>2, ServiceHistories, PTL

LEMMA MachineTypes == Spec => []Machine!TypeOK
<1>1. Histories!Spec => []Histories!TypeOK
  BY MachineAssumption, Histories!TypeCorrect
<1>2. Histories!TypeOK => Machine!TypeOK
  BY DEF Histories!TypeOK, Machine!TypeOK, Histories!StateTransition, Machine!StateTransition,
     Histories!States, Machine!States
<1> QED
  BY <1>1, <1>2, ServiceHistories, PTL

-----------------------------------------------------------------------------
(* The inductive invariant: the types, what each call is at, what it knows *)
(* and what the tables hold together.                                      *)

Locations == {"idle", "begin", "next", "transition", "reserve", "commit", "ok"}

ServiceTypes ==
  /\ status \in [Disputes -> Machine!States \cup {"none"}]
  /\ holds \in [Disputes -> [active: Nat, released: Nat]]
  /\ reserve \in [Merchants -> Nat]
  /\ overlapped \subseteq Merchants
  /\ pc \in [Callers -> Locations]
  /\ call \in [Callers -> Call]
  /\ validating \subseteq Validators

(* What an operation asks the state machine for.                           *)
Goal(op) ==
  IF op = "create" THEN "PENDING" ELSE IF op = "settle" THEN "SETTLED" ELSE Target(op)

One == {"create", "authorize", "initiate", "reverse"}

(* Where a call can stand, and that its transition is in progress only     *)
(* while it waits for it.                                                  *)
CallShape(c) ==
  /\ pc[c] = "idle" <=> call[c].op = "none"
  /\ pc[c] = "idle" => call[c] = NoCall
  /\ call[c].op \in One => call[c].left = {} /\ \E d \in Disputes : call[c].on = {d}
  /\ call[c].left \subseteq call[c].on
  /\ pc[c] = "next" => call[c].op = "settle"
  /\ pc[c] = "reserve" => call[c].op \in {"create", "authorize"}
  /\ pc[c] = "commit" => call[c].op \in {"create", "authorize", "settle"}
  /\ pc[c] = "ok" => call[c].op # "reverse"
  /\ pc[c] \in {"commit", "ok"} => call[c].left = {}
  /\ pc[c] # "transition" => step[c] = "idle" /\ outcome[c] = "none"
  /\ pc[c] = "transition" => (step[c] = "idle" <=> outcome[c] # "none")
  /\ step[c] # "idle" => \E d \in call[c].on : request[c] = <<d, Goal(call[c].op)>>

ValidRequest(d) == ValidateDisputeRequest(Asked[d], EntryAmount[Asked[d].entry])

Recording(c, d) == step[c] # "idle" /\ request[c][1] = d

(* What a call relies on, and what it has recorded.                        *)
Claims(c) ==
  /\ (call[c].op \in One \ {"create"} \/ (call[c].op = "settle" /\ pc[c] # "begin")) =>
       \A d \in call[c].on : status[d] # "none"
  /\ call[c].op = "create" => \A d \in call[c].on :
       /\ pc[c] # "begin" => ValidRequest(d)
       /\ pc[c] # "ok" => status[d] = "none"
       /\ pc[c] = "begin" \/ step[c] # "idle" => history[d] = <<>>
       /\ pc[c] = "ok" => status[d] # "none"
  /\ (pc[c] \notin {"idle", "begin"} /\ (step[c] # "idle" \/ outcome[c] \in {"none", "ok"})) =>
       \A d \in call[c].on \ call[c].left : Recording(c, d) \/ Recorded(d, Goal(call[c].op))
  /\ (pc[c] = "ok" /\ call[c].op = "authorize") =>
       \A d \in call[c].on : holds[d].active + holds[d].released >= 2

OneCreator ==
  \A b, c \in Callers :
    (b # c /\ call[b].op = "create" /\ call[c].op = "create") => call[b].on \cap call[c].on = {}

(* What the row of a dispute says of its history and of its holds.         *)
Rows(d) ==
  IF status[d] = "none"
    THEN Len(history[d]) <= 1 /\ \A i \in DOMAIN history[d] : history[d][i].to = "PENDING"
    ELSE /\ history[d] # <<>> /\ history[d][1].to = "PENDING"
         /\ holds[d].active + holds[d].released >= 1

ValidRows == \A d \in Disputes : status[d] # "none" \/ history[d] # <<>> => ValidRequest(d)

ServiceInv ==
  /\ ServiceTypes
  /\ \A c \in Callers : CallShape(c) /\ Claims(c)
  /\ OneCreator
  /\ \A d \in Disputes : Rows(d)
  /\ ValidRows

-----------------------------------------------------------------------------
(* What a step does to the callers.                                        *)

Local(c) == <<pc[c], call[c], step[c], request[c], outcome[c]>>

(* A transition begins.                                                    *)
LEMMA Asks ==
  ASSUME Machine!TypeOK, NEW c \in Callers, NEW d \in Disputes, NEW to, Machine!Transition(c, d, to)
  PROVE  /\ UNCHANGED <<history, outcome>>
         /\ outcome[c] = "none"
         /\ step'[c] # "idle" /\ request'[c] = <<d, to>>
         /\ to = "PENDING" => history[d] = <<>>
         /\ \A b \in Callers \ {c} : step'[b] = step[b] /\ request'[b] = request[b]
BY DEF Machine!Transition, Machine!TypeOK, Machine!IsNew

(* Its result is taken.                                                    *)
LEMMA Takes ==
  ASSUME Machine!TypeOK, NEW c \in Callers, Machine!TakeResult(c)
  PROVE  /\ UNCHANGED <<history, step, request>>
         /\ outcome'[c] = "none"
         /\ \A b \in Callers \ {c} : outcome'[b] = outcome[b]
BY DEF Machine!TakeResult, Machine!TypeOK

(* The caller's transition is added to the history of its dispute.         *)
Adds(c) ==
  \E d \in Disputes, t \in Machine!StateTransition :
    /\ request[c] = <<d, t.to>>
    /\ history' = [history EXCEPT ![d] = Append(@, t)]

(* A transition in progress goes on: it has read, has failed, or has been  *)
(* stored, with or without the answer.                                     *)
LEMMA GoesOn ==
  ASSUME Machine!TypeOK, NEW c \in Callers, Machine!Continue(c)
  PROVE  /\ step[c] # "idle"
         /\ \A b \in Callers \ {c} : /\ step'[b] = step[b] /\ request'[b] = request[b]
                                      /\ outcome'[b] = outcome[b]
         /\ \/ /\ UNCHANGED <<history, outcome>>
               /\ step'[c] # "idle" /\ request'[c] = request[c]
            \/ /\ UNCHANGED history
               /\ step'[c] = "idle" /\ outcome'[c] \in {"invalid", "error"}
            \/ /\ Adds(c)
               /\ step'[c] = "idle" /\ outcome'[c] \in {"ok", "error"}
<1>1. ASSUME NEW how, Machine!End(c, how)
      PROVE  /\ step'[c] = "idle" /\ outcome'[c] = how
             /\ \A b \in Callers \ {c} : /\ step'[b] = step[b] /\ request'[b] = request[b]
                                          /\ outcome'[b] = outcome[b]
  BY <1>1 DEF Machine!End, Machine!TypeOK
<1>2. CASE Machine!ReadLatest(c)
  BY <1>2 DEF Machine!ReadLatest, Machine!TypeOK
<1>3. CASE Machine!RefuseTransition(c) \/ Machine!RejectTransition(c) \/ Machine!StoreUnavailable(c)
  <2>1. UNCHANGED history /\ step[c] # "idle" /\ \E how \in {"invalid", "error"} : Machine!End(c, how)
    BY <1>3 DEF Machine!RefuseTransition, Machine!RejectTransition, Machine!StoreUnavailable
  <2> QED
    BY <1>1, <2>1
<1>4. CASE Machine!CreateTransition(c)
  <2>1. step[c] # "idle" /\ \E how \in {"ok", "error"} : Machine!End(c, how)
    BY <1>4 DEF Machine!CreateTransition
  <2>2. PICK d \in Disputes, to \in Machine!States : request[c] = <<d, to>>
    BY <2>1 DEF Machine!TypeOK
  <2>3. history' = [history EXCEPT ![d] = Append(@, Machine!NewTransition(c))]
    BY <1>4, <2>2 DEF Machine!CreateTransition
  <2>4. seen[c].state \in Machine!States \cup {"none"} /\ seen[c].hash \in Nat
    BY DEF Machine!TypeOK
  <2>5. Len(history[d]) + 1 \in Nat \ {0}
    <3>1. Len(history[d]) \in Nat
      BY DEF Machine!TypeOK
    <3> QED
      BY <3>1
  <2>6. Machine!NewTransition(c) = [from |-> seen[c].state, to |-> to,
                                    hash |-> Len(history[d]) + 1, prev |-> seen[c].hash]
    BY <2>2 DEF Machine!NewTransition
  <2>7. Machine!NewTransition(c) \in Machine!StateTransition /\ Machine!NewTransition(c).to = to
    BY <2>4, <2>5, <2>6 DEF Machine!StateTransition
  <2> QED
    BY <1>1, <2>1, <2>2, <2>3, <2>7 DEF Adds
<1> QED
  BY <1>2, <1>3, <1>4 DEF Machine!Continue

(* No step of a call changes anything of another.                          *)
LEMMA OthersStay ==
  ASSUME Machine!TypeOK, ServiceTypes, NEW c \in Callers, Request(c) \/ Proceed(c),
         NEW b \in Callers \ {c}
  PROVE  UNCHANGED Local(b)
<1>1. UNCHANGED machine => UNCHANGED <<step[b], request[b], outcome[b]>>
  BY DEF machine
<1>2. UNCHANGED <<step[b], request[b], outcome[b]>>
  <2>1. CASE \E d \in Disputes : InsertDispute(c, d) \/ ReadDispute(c, d) \/ SettleNext(c, d)
    BY <2>1, Asks DEF InsertDispute, ReadDispute, SettleNext
  <2>2. CASE TransitionStep(c)
    BY <2>2, GoesOn DEF TransitionStep
  <2>3. CASE TransitionFails(c) \/ InitiateDone(c) \/ SettleDone(c) \/ ReverseDone(c) \/ ApplyFundsHold(c)
    BY <2>3, Takes DEF TransitionFails, InitiateDone, SettleDone, ReverseDone, ApplyFundsHold
  <2>4. CASE ReadDisputes(c) \/ Refuse(c) \/ UpdateFraudReserve(c) \/ Commit(c)
               \/ DatabaseFails(c) \/ Succeed(c)
    BY <1>1, <2>4 DEF ReadDisputes, Refuse, UpdateFraudReserve, Commit, DatabaseFails, Succeed, Fail
  <2>5. CASE Request(c)
    BY <1>1, <2>5, RequestKeepsMachine
  <2> QED
    BY <2>1, <2>2, <2>3, <2>4, <2>5 DEF Proceed
<1>3. UNCHANGED <<pc[b], call[b]>>
  <2>1. CASE Request(c)
    BY <2>1 DEF Request, CreateDispute, AuthorizeDispute, InitiateDispute, ReverseDispute,
                SettleTransaction, Start, ServiceTypes
  <2>2. CASE \E d \in Disputes : InsertDispute(c, d) \/ ReadDispute(c, d) \/ SettleNext(c, d)
    BY <2>2 DEF InsertDispute, ReadDispute, SettleNext, Continue, ServiceTypes
  <2>3. CASE ReadDisputes(c) \/ UpdateFraudReserve(c) \/ InitiateDone(c) \/ SettleDone(c)
               \/ ApplyFundsHold(c)
    BY <2>3 DEF ReadDisputes, UpdateFraudReserve, InitiateDone, SettleDone, ApplyFundsHold,
                Continue, ServiceTypes
  <2>4. CASE TransitionStep(c)
    BY <2>4 DEF TransitionStep, calls
  <2>5. CASE Refuse(c) \/ DatabaseFails(c) \/ Succeed(c) \/ TransitionFails(c)
    BY <2>5 DEF Refuse, DatabaseFails, Succeed, TransitionFails, Fail, End, ServiceTypes
  <2>6. CASE ReverseDone(c) \/ Commit(c)
    BY <2>6 DEF ReverseDone, Commit, Continue, End, ServiceTypes
  <2> QED
    BY <2>1, <2>2, <2>3, <2>4, <2>5, <2>6 DEF Proceed
<1> QED
  BY <1>2, <1>3 DEF Local

-----------------------------------------------------------------------------
(* What a step does to the rows and the histories.                         *)

Total(d) == holds[d].active + holds[d].released

(* Nothing that is there is lost.                                          *)
Monotone ==
  \A d \in Disputes :
    /\ status[d] # "none" => status'[d] # "none"
    /\ \A to : Recorded(d, to) => Recorded(d, to)'
    /\ Total(d)' \in Nat /\ Total(d)' >= Total(d)

(* What a creation is about does not change under it.                      *)
Quiet(b) ==
  (call[b].op = "create" /\ pc[b] # "ok") =>
    \A d \in call[b].on : status'[d] = status[d] /\ history'[d] = history[d]

Fine(c) ==
  /\ Monotone
  /\ \A b \in Callers \ {c} : Quiet(b)
  /\ \A d \in Disputes : Rows(d)'
  /\ ValidRows'

LEMMA HistoryTypes ==
  ASSUME Machine!TypeOK, NEW d \in Disputes
  PROVE  /\ history[d] \in Seq(Machine!StateTransition)
         /\ Len(history[d]) \in Nat
         /\ DOMAIN history[d] = 1..Len(history[d])
         /\ history[d] # <<>> => Len(history[d]) >= 1
<1>1. history[d] \in Seq(Machine!StateTransition)
  BY DEF Machine!TypeOK
<1> QED
  BY <1>1

LEMMA HoldTypes ==
  ASSUME ServiceTypes, NEW d \in Disputes
  PROVE  holds[d].active \in Nat /\ holds[d].released \in Nat /\ Total(d) \in Nat
<1>1. holds[d] \in [active: Nat, released: Nat]
  BY DEF ServiceTypes
<1>2. holds[d].active \in Nat /\ holds[d].released \in Nat
  BY <1>1
<1> QED
  BY <1>2 DEF Total

LEMMA KeptIsFine ==
  ASSUME ServiceInv, UNCHANGED <<status, holds, history>>, NEW c
  PROVE  Fine(c)
<1>1. Monotone
  <2>1. \A d \in Disputes : Total(d) \in Nat
    BY HoldTypes DEF ServiceInv
  <2> QED
    BY <2>1 DEF Monotone, Recorded, Total
<1> QED
  BY <1>1 DEF Fine, Quiet, Rows, ValidRows, ServiceInv, ValidRequest

(* A transition is stored.                                                 *)
LEMMA AddsIsFine ==
  ASSUME Machine!TypeOK, ServiceInv, NEW c \in Callers, step[c] # "idle", Adds(c),
         UNCHANGED <<status, holds>>
  PROVE  /\ Fine(c)
         /\ \A to : to = Goal(call[c].op) =>
              \A d \in Disputes : Recording(c, d) => Recorded(d, to)'
<1>1. PICK d \in Disputes, t \in Machine!StateTransition :
        request[c] = <<d, t.to>> /\ history' = [history EXCEPT ![d] = Append(@, t)]
  BY DEF Adds
<1>2. d \in call[c].on /\ t.to = Goal(call[c].op)
  BY <1>1 DEF ServiceInv, CallShape
<1>3. pc[c] = "transition" /\ call[c].op \in Operations
  BY DEF ServiceInv, CallShape, ServiceTypes, Call
<1>4. history'[d] = Append(history[d], t) /\ \A e \in Disputes \ {d} : history'[e] = history[e]
  BY <1>1 DEF Machine!TypeOK
<1>5. /\ history[d] \in Seq(Machine!StateTransition) /\ Len(history[d]) \in Nat
      /\ DOMAIN history[d] = 1..Len(history[d])
      /\ history[d] # <<>> => Len(history[d]) >= 1
  BY HistoryTypes
<1>6. /\ Len(history'[d]) = Len(history[d]) + 1 /\ DOMAIN history'[d] = 1..Len(history[d]) + 1
      /\ \A i \in DOMAIN history[d] : history'[d][i] = history[d][i]
      /\ history'[d][Len(history[d]) + 1] = t
  BY <1>4, <1>5
<1>7. call[c].op = "create" =>
        history[d] = <<>> /\ t.to = "PENDING" /\ status[d] = "none" /\ ValidRequest(d)
  BY <1>2, <1>3 DEF ServiceInv, Claims, Goal
<1>8. call[c].op # "create" => status[d] # "none"
  BY <1>2, <1>3 DEF ServiceInv, Claims, Operations, One
<1>9. status[d] = "none" => /\ history[d] = <<>> /\ t.to = "PENDING" /\ ValidRequest(d)
                            /\ call[c].op = "create"
  BY <1>7, <1>8
<1>10. Monotone
  <2>1. \A e \in Disputes : \A to : Recorded(e, to) => Recorded(e, to)'
    BY <1>4, <1>5, <1>6 DEF Recorded
  <2>2. \A e \in Disputes : Total(e) \in Nat /\ Total(e)' = Total(e)
    BY HoldTypes DEF ServiceInv, Total
  <2> QED
    BY <2>1, <2>2 DEF Monotone
<1>11. ASSUME NEW b \in Callers \ {c}
       PROVE  Quiet(b)
  <2> SUFFICES ASSUME call[b].op = "create", pc[b] # "ok", NEW e \in call[b].on
               PROVE  e \in Disputes /\ e # d
    BY <1>4 DEF Quiet
  <2>1. status[e] = "none" /\ e \in Disputes
    BY DEF ServiceInv, Claims, ServiceTypes, Call
  <2>2. CASE e = d
    <3>1. call[c].op = "create"
      BY <1>9, <2>1, <2>2
    <3> QED
      BY <1>2, <2>2, <3>1 DEF ServiceInv, OneCreator
  <2> QED
    BY <2>1, <2>2
<1>12. ASSUME NEW e \in Disputes
       PROVE  Rows(e)'
  <2>1. CASE e # d
    BY <1>4, <2>1 DEF Rows, ServiceInv
  <2>2. CASE e = d /\ status[d] = "none"
    <3>1. Len(history[d]) = 0
      BY <1>9, <2>2
    <3>2. Len(history'[d]) = 1 /\ DOMAIN history'[d] = {1} /\ history'[d][1].to = "PENDING"
      BY <1>6, <1>9, <2>2, <3>1
    <3> QED
      BY <2>2, <3>2 DEF Rows
  <2>3. CASE e = d /\ status[d] # "none"
    <3>1. history[d] # <<>> /\ history[d][1].to = "PENDING" /\ Total(d) >= 1
      BY <2>3 DEF ServiceInv, Rows, Total
    <3>2. history'[d][1] = history[d][1] /\ Len(history'[d]) # 0
      BY <1>5, <1>6, <3>1
    <3>3. history'[d] # <<>>
      BY <3>2
    <3> QED
      BY <2>3, <3>1, <3>2, <3>3 DEF Rows, Total
  <2> QED
    BY <2>1, <2>2, <2>3
<1>13. ValidRows'
  BY <1>4, <1>9 DEF ServiceInv, ValidRows, ValidRequest
<1>14. ASSUME NEW to, to = Goal(call[c].op), NEW e \in Disputes, Recording(c, e)
       PROVE  Recorded(e, to)'
  <2>1. e = d
    BY <1>1, <1>14 DEF Recording
  <2>2. Len(history[d]) + 1 \in DOMAIN history'[d]
    BY <1>5, <1>6
  <2>3. history'[d][Len(history[d]) + 1].to = to
    BY <1>2, <1>6, <1>14
  <2>4. \E i \in DOMAIN history'[e] : history'[e][i].to = to
    BY <2>1, <2>2, <2>3
  <2> QED
    BY <2>4 DEF Recorded
<1> QED
  BY <1>10, <1>11, <1>12, <1>13, <1>14 DEF Fine

(* A call commits: the row of a creation appears, and its hold with it.    *)
LEMMA CommitIsFine ==
  ASSUME Machine!TypeOK, ServiceInv, NEW c \in Callers, Commit(c)
  PROVE  /\ Fine(c)
         /\ call[c].op = "create" => \A d \in call[c].on : status'[d] # "none"
         /\ call[c].op = "authorize" => \A d \in call[c].on : Total(d)' >= 2
<1>1. UNCHANGED history /\ pc[c] = "commit" /\ step[c] = "idle" /\ outcome[c] = "none"
  BY DEF Commit, machine, ServiceInv, CallShape
<1>2. CASE call[c].op \notin {"create", "authorize"}
  <2>1. UNCHANGED <<status, holds>>
    BY <1>2 DEF Commit
  <2> QED
    BY <1>1, <1>2, <2>1, KeptIsFine
<1>3. CASE call[c].op \in {"create", "authorize"}
  <2>1. /\ \A d \in Disputes : status'[d] =
             IF d \in call[c].on /\ call[c].op = "create" THEN "PENDING" ELSE status[d]
        /\ \A d \in Disputes : holds'[d] =
             IF d \in call[c].on THEN [holds[d] EXCEPT !.active = @ + 1] ELSE holds[d]
    BY <1>3 DEF Commit
  <2>2. call[c].on \subseteq Disputes
    BY DEF ServiceInv, ServiceTypes, Call
  <2>3. ASSUME NEW d \in Disputes
        PROVE  /\ Total(d) \in Nat
               /\ Total(d)' = IF d \in call[c].on THEN Total(d) + 1 ELSE Total(d)
    <3>1. holds[d] \in [active: Nat, released: Nat]
      BY DEF ServiceInv, ServiceTypes
    <3>2. /\ holds[d].active \in Nat /\ holds[d].released \in Nat
          /\ [holds[d] EXCEPT !.active = @ + 1].active = holds[d].active + 1
          /\ [holds[d] EXCEPT !.active = @ + 1].released = holds[d].released
      BY <3>1
    <3>3. CASE d \in call[c].on
      <4>1. holds'[d].active = holds[d].active + 1 /\ holds'[d].released = holds[d].released
        BY <2>1, <3>2, <3>3
      <4> QED
        BY <3>2, <3>3, <4>1 DEF Total
    <3>4. CASE d \notin call[c].on
      <4>1. holds'[d] = holds[d]
        BY <2>1, <3>4
      <4> QED
        BY <3>2, <3>4, <4>1 DEF Total
    <3> QED
      BY <3>3, <3>4
  <2>4. ASSUME NEW d \in call[c].on
        PROVE  IF call[c].op = "create"
                 THEN status[d] = "none" /\ Recorded(d, "PENDING") /\ ValidRequest(d)
                 ELSE status[d] # "none"
    BY <1>1, <1>3, <2>4 DEF ServiceInv, CallShape, Claims, Goal, One, Recording
  <2>5. Monotone
    BY <1>1, <2>1, <2>3 DEF Monotone, Recorded
  <2>6. ASSUME NEW b \in Callers \ {c}
        PROVE  Quiet(b)
    <3> SUFFICES ASSUME call[b].op = "create", pc[b] # "ok", NEW d \in call[b].on
                 PROVE  status'[d] = status[d]
      BY <1>1 DEF Quiet
    <3>1. d \in Disputes
      BY DEF ServiceInv, ServiceTypes, Call
    <3>2. call[c].op = "create" => d \notin call[c].on
      BY DEF ServiceInv, OneCreator
    <3> QED
      BY <2>1, <3>1, <3>2
  <2>7. ASSUME NEW d \in Disputes
        PROVE  Rows(d)'
    <3>1. CASE d \in call[c].on /\ call[c].op = "create"
      <4>1. /\ Len(history[d]) <= 1 /\ \A i \in DOMAIN history[d] : history[d][i].to = "PENDING"
            /\ \E i \in DOMAIN history[d] : history[d][i].to = "PENDING"
        BY <2>4, <3>1 DEF ServiceInv, Rows, Recorded
      <4>2. DOMAIN history[d] = 1..Len(history[d]) /\ Len(history[d]) \in Nat
        BY HistoryTypes
      <4>3. 1 \in DOMAIN history[d]
        BY <4>1, <4>2
      <4>4. history[d] # <<>> /\ history[d][1].to = "PENDING"
        BY <4>1, <4>3
      <4>5. Total(d)' >= 1
        BY <2>3, <3>1
      <4> QED
        BY <1>1, <2>1, <3>1, <4>4, <4>5 DEF Rows, Total
    <3>2. CASE ~(d \in call[c].on /\ call[c].op = "create")
      <4>1. status'[d] = status[d] /\ Rows(d)
        BY <2>1, <3>2 DEF ServiceInv
      <4>2. Total(d)' >= Total(d) /\ Total(d) \in Nat /\ Total(d)' \in Nat
        BY <2>3
      <4> QED
        BY <1>1, <4>1, <4>2 DEF Rows, Total
    <3> QED
      BY <3>1, <3>2
  <2>8. ValidRows'
    BY <1>1, <2>1, <2>4 DEF ServiceInv, ValidRows, ValidRequest
  <2>9. ASSUME call[c].op = "create", NEW d \in call[c].on
        PROVE  status'[d] # "none"
    BY <2>1, <2>2, <2>9
  <2>10. ASSUME call[c].op = "authorize", NEW d \in call[c].on
         PROVE  Total(d)' >= 2
    <3>1. Total(d) >= 1
      BY <2>2, <2>4, <2>10 DEF ServiceInv, Rows, Total
    <3> QED
      BY <2>2, <2>3, <2>10, <3>1
  <2> QED
    BY <2>5, <2>6, <2>7, <2>8, <2>9, <2>10 DEF Fine
<1> QED
  BY <1>2, <1>3

(* An operator changes a status.                                           *)
LEMMA UpdateIsFine ==
  ASSUME Machine!TypeOK, ServiceInv, NEW d \in Disputes, NEW to \in Machine!States,
         UpdateStatus(d, to), NEW c
  PROVE  Fine(c) /\ \A b \in Callers : Quiet(b)
<1>1. /\ UNCHANGED history
      /\ status[d] # "none" /\ to # "none"
      /\ status'[d] = to /\ \A e \in Disputes \ {d} : status'[e] = status[e]
      /\ holds' = [holds EXCEPT ![d] = HoldsAfter(d, to)]
  BY DEF UpdateStatus, machine, ValidTransition, Machine!IsValidTransition, Machine!States,
         ServiceInv, ServiceTypes
<1>2. ASSUME NEW e \in Disputes
      PROVE  Total(e) \in Nat /\ Total(e)' = Total(e)
  <2>1. holds[e] \in [active: Nat, released: Nat]
    BY DEF ServiceInv, ServiceTypes
  <2>2. holds'[e] = IF e = d THEN HoldsAfter(d, to) ELSE holds[e]
    BY <1>1 DEF ServiceInv, ServiceTypes
  <2>3. CASE e = d /\ to = "REVERSED"
    <3>1. holds'[e] = [active |-> 0, released |-> holds[e].released + holds[e].active]
      BY <2>2, <2>3 DEF HoldsAfter
    <3> QED
      BY <2>1, <3>1 DEF Total
  <2>4. CASE ~(e = d /\ to = "REVERSED")
    <3>1. holds'[e] = holds[e]
      BY <2>2, <2>4 DEF HoldsAfter
    <3> QED
      BY <2>1, <3>1 DEF Total
  <2> QED
    BY <2>3, <2>4
<1>3. Monotone
  BY <1>1, <1>2 DEF Monotone, Recorded
<1>4. ASSUME NEW b \in Callers
      PROVE  Quiet(b)
  <2>1. \A e \in call[b].on : e \in Disputes
    BY DEF ServiceInv, ServiceTypes, Call
  <2> QED
    BY <1>1, <2>1 DEF Quiet, ServiceInv, Claims
<1>5. ASSUME NEW e \in Disputes
      PROVE  Rows(e)'
  <2>1. Rows(e) /\ (status[e] = "none" <=> status'[e] = "none")
    BY <1>1 DEF ServiceInv
  <2> QED
    BY <1>1, <1>2, <2>1 DEF Rows, Total
<1>6. ValidRows'
  BY <1>1 DEF ServiceInv, ValidRows, ValidRequest
<1> QED
  BY <1>3, <1>4, <1>5, <1>6 DEF Fine

-----------------------------------------------------------------------------
(* The steps keep the invariant.                                           *)

LEMMA OthersKeep ==
  ASSUME ServiceInv, NEW b \in Callers, Monotone, Quiet(b), UNCHANGED Local(b)
  PROVE  CallShape(b)' /\ Claims(b)'
<1>1. /\ pc'[b] = pc[b] /\ call'[b] = call[b] /\ step'[b] = step[b]
      /\ request'[b] = request[b] /\ outcome'[b] = outcome[b]
  BY DEF Local
<1>2. CallShape(b)'
  BY <1>1 DEF ServiceInv, CallShape
<1>3. call[b].on \subseteq Disputes
  BY DEF ServiceInv, ServiceTypes, Call
<1>4. Claims(b)
  BY DEF ServiceInv
<1>5. (call[b].op \in One \ {"create"} \/ (call[b].op = "settle" /\ pc[b] # "begin")) =>
        \A d \in call[b].on : status'[d] # "none"
  BY <1>3, <1>4 DEF Claims, Monotone
<1>6. call[b].op = "create" => \A d \in call[b].on :
        /\ pc[b] # "begin" => ValidRequest(d)
        /\ pc[b] # "ok" => status'[d] = "none"
        /\ pc[b] = "begin" \/ step[b] # "idle" => history'[d] = <<>>
        /\ pc[b] = "ok" => status'[d] # "none"
  <2>1. step[b] # "idle" => pc[b] = "transition"
    BY DEF ServiceInv, CallShape
  <2>2. CASE pc[b] # "ok"
    BY <1>4, <2>2 DEF Claims, Quiet
  <2>3. CASE pc[b] = "ok"
    BY <1>3, <1>4, <2>1, <2>3 DEF Claims, Monotone
  <2> QED
    BY <2>2, <2>3
<1>7. (pc[b] \notin {"idle", "begin"} /\ (step[b] # "idle" \/ outcome[b] \in {"none", "ok"})) =>
        \A d \in call[b].on \ call[b].left : Recording(b, d) \/ Recorded(d, Goal(call[b].op))'
  BY <1>1, <1>3, <1>4 DEF Claims, Monotone
<1>8. ASSUME pc[b] = "ok", call[b].op = "authorize", NEW d \in call[b].on
      PROVE  Total(d)' >= 2
  <2>1. Total(d) >= 2 /\ Total(d)' >= Total(d) /\ Total(d)' \in Nat
    BY <1>3, <1>4, <1>8 DEF Claims, Monotone, Total
  <2>2. Total(d) \in Nat
    BY <1>3, HoldTypes DEF ServiceInv
  <2> QED
    BY <2>1, <2>2
<1> QED
  BY <1>1, <1>2, <1>5, <1>6, <1>7, <1>8 DEF Claims, ValidRequest, Recording, Total, Recorded, Goal

LEMMA CallerKeeps ==
  ASSUME Machine!TypeOK, ServiceInv, NEW c \in Callers, Request(c) \/ Proceed(c),
         Fine(c), ServiceTypes', CallShape(c)', Claims(c)', OneCreator'
  PROVE  ServiceInv'
<1>1. ASSUME NEW b \in Callers
      PROVE  CallShape(b)' /\ Claims(b)'
  <2>1. CASE b = c
    BY <2>1
  <2>2. CASE b # c
    <3>1. UNCHANGED Local(b) /\ Monotone /\ Quiet(b)
      BY <2>2, OthersStay DEF ServiceInv, Fine
    <3> QED
      BY <3>1, OthersKeep
  <2> QED
    BY <2>1, <2>2
<1> QED
  BY <1>1 DEF ServiceInv, Fine

(* A call that creates nothing new leaves the creations apart.             *)
LEMMA CreatorsApart ==
  ASSUME Machine!TypeOK, ServiceInv, NEW c \in Callers, Request(c) \/ Proceed(c),
         call'[c].op = "create" => call[c].op = "create" /\ call'[c].on = call[c].on
  PROVE  OneCreator'
<1>1. \A b \in Callers \ {c} : call'[b] = call[b]
  BY OthersStay DEF ServiceInv, Local
<1> QED
  BY <1>1 DEF ServiceInv, OneCreator

(* The call goes on at a next place; End is for a call that returns.       *)
LEMMA EndKeeps ==
  ASSUME Machine!TypeOK, ServiceInv, NEW c \in Callers, Request(c) \/ Proceed(c),
         End(c), UNCHANGED <<status, holds, history, reserve, overlapped>>,
         step'[c] = "idle", outcome'[c] = "none"
  PROVE  ServiceInv'
<1>1. pc'[c] = "idle" /\ call'[c] = NoCall
  BY DEF End, ServiceInv, ServiceTypes
<1>2. NoCall \in Call
  BY DEF NoCall, Call
<1>3. ServiceTypes'
  BY <1>2 DEF ServiceInv, ServiceTypes, End, Locations
<1>4. CallShape(c)' /\ Claims(c)'
  BY <1>1 DEF CallShape, Claims, NoCall, One
<1>5. OneCreator'
  BY <1>1, CreatorsApart DEF NoCall
<1> QED
  BY <1>3, <1>4, <1>5, KeptIsFine, CallerKeeps

LEMMA RequestKeeps ==
  ASSUME Machine!TypeOK, ServiceInv, NEW c \in Callers, Request(c)
  PROVE  ServiceInv'
<1> DEFINE Fits(op, on) ==
             /\ op \in One => \E d \in Disputes : on = {d}
             /\ op \in One \ {"create"} => \A d \in on : status[d] # "none"
             /\ op = "create" => \A d \in on :
                  /\ status[d] = "none" /\ history[d] = <<>>
                  /\ \A b \in Callers : call[b].op = "create" => d \notin call[b].on
<1>1. PICK op \in Operations, on \in SUBSET Disputes : Start(c, op, on) /\ Fits(op, on)
  <2>1. ASSUME NEW d \in Disputes, CreateDispute(c, d)
        PROVE  Start(c, "create", {d}) /\ Fits("create", {d})
    BY <2>1 DEF CreateDispute
  <2>2. ASSUME NEW d \in Disputes,
               AuthorizeDispute(c, d) \/ InitiateDispute(c, d) \/ ReverseDispute(c, d)
        PROVE  \E o \in {"authorize", "initiate", "reverse"} : Start(c, o, {d}) /\ Fits(o, {d})
    <3>1. \A o \in {"authorize", "initiate", "reverse"} : status[d] # "none" => Fits(o, {d})
      OBVIOUS
    <3> QED
      BY <2>2, <3>1 DEF AuthorizeDispute, InitiateDispute, ReverseDispute
  <2>3. ASSUME NEW e \in Entries, SettleTransaction(c, e)
        PROVE  \E o \in SUBSET Disputes : Start(c, "settle", o) /\ Fits("settle", o)
    <3>1. \A o : Fits("settle", o)
      BY DEF One
    <3> QED
      BY <2>3, <3>1 DEF SettleTransaction
  <2> HIDE DEF Fits
  <2> QED
    BY <2>1, <2>2, <2>3 DEF Request, Operations
<1>2. /\ pc[c] = "idle" /\ pc'[c] = "begin"
      /\ call' = [call EXCEPT ![c] = [op |-> op, on |-> on, left |-> {}, base |-> 0]]
      /\ pc' = [pc EXCEPT ![c] = "begin"]
      /\ UNCHANGED <<status, holds, reserve, overlapped, history, step, request, outcome, validating>>
  <2>1. UNCHANGED <<tables, validating, machine>>
    BY <1>1 DEF Start
  <2>2. /\ pc[c] = "idle" /\ pc' = [pc EXCEPT ![c] = "begin"]
        /\ call' = [call EXCEPT ![c] = [op |-> op, on |-> on, left |-> {}, base |-> 0]]
    BY <1>1 DEF Start
  <2> QED
    BY <2>1, <2>2 DEF tables, machine, ServiceInv, ServiceTypes
<1>3. call'[c] = [op |-> op, on |-> on, left |-> {}, base |-> 0] /\ call'[c] \in Call
  BY <1>2 DEF ServiceInv, ServiceTypes, Call
<1>4. step[c] = "idle" /\ outcome[c] = "none"
  BY <1>2 DEF ServiceInv, CallShape
<1>5. ServiceTypes'
  BY <1>2, <1>3 DEF ServiceInv, ServiceTypes, Locations
<1>6. CallShape(c)'
  BY <1>1, <1>2, <1>3, <1>4 DEF CallShape, Operations
<1>7. Claims(c)'
  BY <1>1, <1>2, <1>3, <1>4 DEF Claims, Operations
<1>8. OneCreator'
  <2>1. \A b \in Callers \ {c} : call'[b] = call[b]
    BY <1>2 DEF ServiceInv, ServiceTypes
  <2> QED
    BY <1>1, <1>3, <2>1 DEF ServiceInv, OneCreator
<1> QED
  BY <1>2, <1>5, <1>6, <1>7, <1>8, KeptIsFine, CallerKeeps

LEMMA AskKeeps ==
  ASSUME Machine!TypeOK, ServiceInv, NEW c \in Callers, NEW d \in Disputes,
         InsertDispute(c, d) \/ ReadDispute(c, d)
  PROVE  ServiceInv'
<1>1. /\ pc[c] = "begin" /\ pc' = [pc EXCEPT ![c] = "transition"]
      /\ UNCHANGED <<tables, call, validating>>
      /\ d \in call[c].on /\ call[c].op \in One
      /\ call[c].op = "create" => ValidRequest(d)
      /\ Machine!Transition(c, d, Goal(call[c].op))
  BY DEF InsertDispute, ReadDispute, Continue, CanInsert, ValidRequest, Goal, One
<1>2. /\ UNCHANGED <<status, holds, reserve, overlapped, history, outcome>>
      /\ outcome[c] = "none" /\ step'[c] # "idle" /\ request'[c] = <<d, Goal(call[c].op)>>
      /\ Goal(call[c].op) = "PENDING" => history[d] = <<>>
  BY <1>1, Asks DEF tables
<1>3. call[c].on = {d} /\ call[c].left = {}
  BY <1>1 DEF ServiceInv, CallShape
<1>4. pc'[c] = "transition" /\ call'[c] = call[c]
  BY <1>1 DEF ServiceInv, ServiceTypes
<1>5. call[c].op # "settle" /\ call[c].op # "none"
  BY <1>1 DEF One
<1>6. ServiceTypes'
  BY <1>1, <1>2 DEF ServiceInv, ServiceTypes, Locations
<1>7. CallShape(c)'
  BY <1>1, <1>2, <1>3, <1>4, <1>5 DEF CallShape
<1>8. Claims(c)'
  <2>1. Claims(c)
    BY DEF ServiceInv
  <2>2. call[c].op = "create" => Goal(call[c].op) = "PENDING"
    BY DEF Goal
  <2>3. Recording(c, d)'
    BY <1>2 DEF Recording
  <2> QED
    BY <1>1, <1>2, <1>3, <1>4, <1>5, <2>1, <2>2, <2>3 DEF Claims, ValidRequest
<1>9. OneCreator'
  BY <1>4, CreatorsApart DEF Proceed
<1> QED
  BY <1>2, <1>6, <1>7, <1>8, <1>9, KeptIsFine, CallerKeeps DEF Proceed

LEMMA ReadDisputesKeeps ==
  ASSUME Machine!TypeOK, ServiceInv, NEW c \in Callers, ReadDisputes(c)
  PROVE  ServiceInv'
<1> DEFINE open == {d \in {e \in call[c].on : status[e] # "none"} : status[d] = "AUTHORIZED"}
<1>1. /\ pc[c] = "begin" /\ call[c].op = "settle"
      /\ pc' = [pc EXCEPT ![c] = IF open = {} THEN "commit" ELSE "next"]
      /\ call' = [call EXCEPT ![c].on = open, ![c].left = open]
      /\ UNCHANGED <<tables, machine, validating>>
  BY DEF ReadDisputes, Continue
<1>2. UNCHANGED <<status, holds, reserve, overlapped, history, step, request, outcome>>
  BY <1>1 DEF tables, machine
<1>3. call[c] \in Call /\ call[c].op = "settle"
  BY <1>1 DEF ServiceInv, ServiceTypes
<1>4. open \subseteq Disputes /\ \A d \in open : status[d] # "none"
  BY <1>3 DEF Call
<1> HIDE DEF open
<1>5. call'[c] = [op |-> "settle", on |-> open, left |-> open, base |-> call[c].base]
  BY <1>1, <1>3 DEF ServiceInv, ServiceTypes, Call
<1>6. call' \in [Callers -> Call]
  <2>1. call'[c] \in Call
    BY <1>3, <1>4, <1>5 DEF Call, Operations
  <2> QED
    BY <1>1, <2>1 DEF ServiceInv, ServiceTypes
<1>7. /\ pc' \in [Callers -> Locations]
      /\ pc'[c] \in {"commit", "next"} /\ (pc'[c] = "commit" => open = {})
  BY <1>1 DEF ServiceInv, ServiceTypes, Locations
<1>8. ServiceTypes'
  BY <1>1, <1>2, <1>6, <1>7 DEF ServiceInv, ServiceTypes
<1>9. step[c] = "idle" /\ outcome[c] = "none"
  BY <1>1 DEF ServiceInv, CallShape
<1>10. CallShape(c)'
  BY <1>2, <1>5, <1>7, <1>9 DEF CallShape, One
<1>11. Claims(c)'
  BY <1>2, <1>4, <1>5, <1>7, <1>9 DEF Claims, One
<1>12. OneCreator'
  BY <1>5, CreatorsApart DEF Proceed
<1> QED
  BY <1>2, <1>8, <1>10, <1>11, <1>12, KeptIsFine, CallerKeeps DEF Proceed

LEMMA SettleNextKeeps ==
  ASSUME Machine!TypeOK, ServiceInv, NEW c \in Callers, NEW d \in Disputes, SettleNext(c, d)
  PROVE  ServiceInv'
<1>1. /\ pc[c] = "next" /\ pc' = [pc EXCEPT ![c] = "transition"]
      /\ d \in call[c].left /\ call' = [call EXCEPT ![c].left = call[c].left \ {d}]
      /\ UNCHANGED <<tables, validating>>
      /\ Machine!Transition(c, d, "SETTLED")
  BY DEF SettleNext, Continue
<1>2. /\ UNCHANGED <<status, holds, reserve, overlapped, history, outcome>>
      /\ outcome[c] = "none" /\ step'[c] # "idle" /\ request'[c] = <<d, "SETTLED">>
  BY <1>1, Asks DEF tables
<1>3. call[c] \in Call /\ call[c].op = "settle" /\ call[c].left \subseteq call[c].on
  BY <1>1 DEF ServiceInv, ServiceTypes, CallShape
<1>4. call'[c] = [op |-> "settle", on |-> call[c].on, left |-> call[c].left \ {d}, base |-> call[c].base]
  BY <1>1, <1>3 DEF ServiceInv, ServiceTypes, Call
<1>5. call' \in [Callers -> Call]
  <2>1. call'[c] \in Call
    BY <1>3, <1>4 DEF Call, Operations
  <2> QED
    BY <1>1, <2>1 DEF ServiceInv, ServiceTypes
<1>6. pc' \in [Callers -> Locations] /\ pc'[c] = "transition"
  BY <1>1 DEF ServiceInv, ServiceTypes, Locations
<1>7. ServiceTypes'
  BY <1>1, <1>2, <1>5, <1>6 DEF ServiceInv, ServiceTypes
<1>8. step[c] = "idle"
  BY <1>1 DEF ServiceInv, CallShape
<1>9. CallShape(c)'
  <2>1. d \in call[c].on /\ Goal("settle") = "SETTLED"
    BY <1>1, <1>3 DEF Goal
  <2> QED
    BY <1>2, <1>3, <1>4, <1>6, <2>1 DEF CallShape, One
<1>10. Claims(c)'
  <2>1. Claims(c) /\ Goal("settle") = "SETTLED"
    BY DEF ServiceInv, Goal
  <2>2. \A e \in call[c].on : status[e] # "none"
    BY <1>1, <1>3, <2>1 DEF Claims
  <2>3. \A e \in call[c].on \ call[c].left : Recorded(e, "SETTLED")
    BY <1>1, <1>2, <1>3, <1>8, <2>1 DEF Claims, Recording
  <2>4. \A e \in call[c].on \ call[c].left : Recorded(e, "SETTLED")'
    BY <1>2, <2>3 DEF Recorded
  <2>5. Recording(c, d)'
    BY <1>2 DEF Recording
  <2>6. \A e \in call'[c].on \ call'[c].left : Recording(c, e)' \/ Recorded(e, "SETTLED")'
    BY <1>4, <2>4, <2>5
  <2> QED
    BY <1>2, <1>4, <1>6, <2>1, <2>2, <2>6 DEF Claims, One
<1>11. OneCreator'
  BY <1>4, CreatorsApart DEF Proceed
<1> QED
  BY <1>2, <1>7, <1>9, <1>10, <1>11, KeptIsFine, CallerKeeps DEF Proceed

LEMMA TransitionStepKeeps ==
  ASSUME Machine!TypeOK, ServiceInv, NEW c \in Callers, TransitionStep(c)
  PROVE  ServiceInv'
<1>1. Machine!Continue(c) /\ UNCHANGED <<status, holds, reserve, overlapped, pc, call, validating>>
  BY DEF TransitionStep, tables, calls
<1>2. step[c] # "idle" /\ pc[c] = "transition" /\ outcome[c] = "none"
  BY <1>1, GoesOn DEF ServiceInv, CallShape
<1>3. ServiceTypes'
  BY <1>1 DEF ServiceInv, ServiceTypes
<1>4. OneCreator'
  BY <1>1 DEF ServiceInv, OneCreator
<1>5. CallShape(c) /\ Claims(c) /\ call[c].on \subseteq Disputes
  BY DEF ServiceInv, ServiceTypes, Call
<1>6. CASE UNCHANGED <<history, outcome>> /\ step'[c] # "idle" /\ request'[c] = request[c]
  <2>1. CallShape(c)'
    BY <1>1, <1>2, <1>5, <1>6 DEF CallShape
  <2>2. Claims(c)'
    BY <1>1, <1>2, <1>5, <1>6 DEF Claims, Recording, Recorded, ValidRequest
  <2> QED
    BY <1>1, <1>3, <1>4, <1>6, <2>1, <2>2, KeptIsFine, CallerKeeps DEF Proceed
<1>7. CASE UNCHANGED history /\ step'[c] = "idle" /\ outcome'[c] \in {"invalid", "error"}
  <2>1. CallShape(c)'
    BY <1>1, <1>2, <1>5, <1>7 DEF CallShape
  <2>2. Claims(c)'
    BY <1>1, <1>2, <1>5, <1>7 DEF Claims, ValidRequest
  <2> QED
    BY <1>1, <1>3, <1>4, <1>7, <2>1, <2>2, KeptIsFine, CallerKeeps DEF Proceed
<1>8. CASE Adds(c) /\ step'[c] = "idle" /\ outcome'[c] \in {"ok", "error"}
  <2>1. CallShape(c)'
    BY <1>1, <1>2, <1>5, <1>8 DEF CallShape
  <2>2. PICK to : to = Goal(call[c].op)
    OBVIOUS
  <2>3. Fine(c) /\ \A d \in Disputes : Recording(c, d) => Recorded(d, to)'
    BY <1>1, <1>2, <1>8, <2>2, AddsIsFine
  <2>4. \A d \in call[c].on \ call[c].left : Recording(c, d) \/ Recorded(d, to)
    BY <1>2, <1>5, <2>2 DEF Claims
  <2>5. \A d \in Disputes : Recorded(d, to) => Recorded(d, to)'
    BY <2>3 DEF Fine, Monotone
  <2>6. \A d \in call[c].on \ call[c].left : Recorded(d, to)'
    BY <1>5, <2>3, <2>4, <2>5
  <2>7. Goal(call'[c].op) = to
    BY <1>1, <2>2
  <2>8. Claims(c)'
    BY <1>1, <1>2, <1>5, <1>8, <2>6, <2>7 DEF Claims, ValidRequest, Recorded, Goal
  <2> QED
    BY <1>1, <1>3, <1>4, <2>1, <2>3, <2>8, CallerKeeps DEF Proceed
<1> QED
  BY <1>1, <1>6, <1>7, <1>8, GoesOn

(* The call returns, or it waits for nothing any more.                     *)
LEMMA EndsKeep ==
  ASSUME Machine!TypeOK, ServiceInv, NEW c \in Callers,
         Refuse(c) \/ DatabaseFails(c) \/ Succeed(c) \/ TransitionFails(c) \/ ReverseDone(c)
  PROVE  ServiceInv'
<1>1. CASE Refuse(c) \/ DatabaseFails(c) \/ Succeed(c)
  <2>1. End(c) /\ UNCHANGED <<tables, machine>> /\ pc[c] # "transition"
    BY <1>1 DEF Refuse, DatabaseFails, Succeed, Fail
  <2>2. step[c] = "idle" /\ outcome[c] = "none"
    BY <2>1 DEF ServiceInv, CallShape
  <2> QED
    BY <1>1, <2>1, <2>2, EndKeeps DEF tables, machine, Proceed
<1>2. CASE TransitionFails(c) \/ ReverseDone(c)
  <2>1. Returned(c) /\ Machine!TakeResult(c) /\ UNCHANGED tables
    BY <1>2 DEF TransitionFails, ReverseDone, ReturnedOk
  <2>2. End(c)
    <3>1. CASE ReverseDone(c)
      <4>1. call[c].op = "reverse"
        BY <3>1 DEF ReverseDone, ReturnedOk
      <4>2. PICK d \in Disputes : call[c].on = {d}
        BY <4>1 DEF ServiceInv, CallShape, One
      <4>3. ~ValidTransition(status[d], status[d])
        BY DEF ValidTransition, Machine!IsValidTransition, Machine!AllowedTransitions, Machine!States
      <4> QED
        BY <3>1, <4>2, <4>3 DEF ReverseDone, CanResolve
    <3> QED
      BY <1>2, <3>1 DEF TransitionFails
  <2>3. step[c] = "idle"
    BY <2>1 DEF Returned
  <2> QED
    BY <1>2, <2>1, <2>2, <2>3, Takes, EndKeeps DEF tables, Proceed
<1> QED
  BY <1>1, <1>2

(* The transition has succeeded and the call goes on.                      *)
LEMMA ResultKeeps ==
  ASSUME Machine!TypeOK, ServiceInv, NEW c \in Callers,
         InitiateDone(c) \/ SettleDone(c) \/ ApplyFundsHold(c)
  PROVE  ServiceInv'
<1>1. PICK next \in {"ok", "commit", "next", "reserve"} :
        /\ pc' = [pc EXCEPT ![c] = next]
        /\ next = "ok" => call[c].op = "initiate"
        /\ next \in {"commit", "next"} => call[c].op = "settle"
        /\ next = "commit" => call[c].left = {}
        /\ next = "reserve" => call[c].op \in {"create", "authorize"}
  BY DEF InitiateDone, SettleDone, ApplyFundsHold, Continue, ReturnedOk
<1>2. /\ Machine!TakeResult(c) /\ UNCHANGED <<status, holds, reserve, validating>>
      /\ pc[c] = "transition" /\ step[c] = "idle" /\ outcome[c] = "ok"
  BY DEF InitiateDone, SettleDone, ApplyFundsHold, ReturnedOk, Returned, Continue, tables
<1>3. UNCHANGED <<history, step, request>> /\ outcome'[c] = "none"
  BY <1>2, Takes
<1>4. CallShape(c) /\ Claims(c) /\ call[c] \in Call
  BY DEF ServiceInv, ServiceTypes
<1>5. overlapped' \subseteq Merchants
  BY DEF InitiateDone, SettleDone, ApplyFundsHold, CanHold, tables, ServiceInv, ServiceTypes
<1>6. call' \in [Callers -> Call] /\ \E n \in Nat : call'[c] =
        [op |-> call[c].op, on |-> call[c].on, left |-> call[c].left, base |-> n]
  <2>1. CASE UNCHANGED call
    <3>1. call[c] = [op |-> call[c].op, on |-> call[c].on, left |-> call[c].left, base |-> call[c].base]
          /\ call[c].base \in Nat
      BY <1>4 DEF Call
    <3> QED
      BY <2>1, <3>1 DEF ServiceInv, ServiceTypes
  <2>2. CASE ApplyFundsHold(c)
    <3>1. /\ MerchantOf(c) \in Merchants
          /\ call' = [call EXCEPT ![c].base = reserve[MerchantOf(c)]]
      BY <2>2 DEF ApplyFundsHold, CanHold
    <3>2. reserve[MerchantOf(c)] \in Nat
      BY <3>1 DEF ServiceInv, ServiceTypes
    <3>3. PICK n \in Nat : n = reserve[MerchantOf(c)]
      BY <3>2
    <3>4. call' = [call EXCEPT ![c].base = n]
      BY <3>1, <3>3
    <3>5. call'[c] = [op |-> call[c].op, on |-> call[c].on, left |-> call[c].left, base |-> n]
      BY <1>4, <3>4 DEF Call, ServiceInv, ServiceTypes
    <3>6. call'[c] \in Call
      BY <1>4, <3>5 DEF Call
    <3> QED
      BY <3>4, <3>5, <3>6 DEF ServiceInv, ServiceTypes
  <2> QED
    BY <2>1, <2>2 DEF InitiateDone, SettleDone
<1>7. pc' \in [Callers -> Locations] /\ pc'[c] = next
  BY <1>1 DEF ServiceInv, ServiceTypes, Locations
<1>8. call'[c].op = call[c].op /\ call'[c].on = call[c].on /\ call'[c].left = call[c].left
  BY <1>6
<1>9. ServiceTypes'
  BY <1>2, <1>5, <1>6, <1>7 DEF ServiceInv, ServiceTypes
<1>10. CallShape(c)'
  BY <1>1, <1>2, <1>3, <1>4, <1>7, <1>8 DEF CallShape, One
<1>11. Claims(c)'
  <2>1. \A d \in call[c].on \ call[c].left : Recorded(d, Goal(call[c].op))
    BY <1>2, <1>4 DEF Claims, Recording
  <2>2. (call[c].op \in One \ {"create"} \/ call[c].op = "settle") => \A d \in call[c].on : status[d] # "none"
    BY <1>2, <1>4 DEF Claims
  <2>3. call[c].op = "create" => \A d \in call[c].on : status[d] = "none" /\ ValidRequest(d)
    BY <1>2, <1>4 DEF Claims
  <2> QED
    BY <1>1, <1>2, <1>3, <1>7, <1>8, <2>1, <2>2, <2>3 DEF Claims, ValidRequest, Recorded, Goal
<1>12. OneCreator'
  BY <1>8, CreatorsApart DEF Proceed
<1> QED
  BY <1>2, <1>3, <1>9, <1>10, <1>11, <1>12, KeptIsFine, CallerKeeps DEF Proceed

LEMMA UpdateFraudReserveKeeps ==
  ASSUME Machine!TypeOK, ServiceInv, NEW c \in Callers, UpdateFraudReserve(c)
  PROVE  ServiceInv'
<1>1. /\ pc[c] = "reserve" /\ pc' = [pc EXCEPT ![c] = "commit"]
      /\ UNCHANGED <<status, holds, reserve, overlapped, call, history, step, request, outcome, validating>>
  BY DEF UpdateFraudReserve, Continue, tables, machine
<1>2. pc' \in [Callers -> Locations] /\ pc'[c] = "commit"
  BY <1>1 DEF ServiceInv, ServiceTypes, Locations
<1>3. ServiceTypes'
  BY <1>1, <1>2 DEF ServiceInv, ServiceTypes
<1>4. CallShape(c) /\ Claims(c) /\ call[c].op \in {"create", "authorize"}
  BY <1>1 DEF ServiceInv, CallShape
<1>5. CallShape(c)'
  BY <1>1, <1>2, <1>4 DEF CallShape, One
<1>6. Claims(c)'
  BY <1>1, <1>2, <1>4 DEF Claims, Recording, Recorded, ValidRequest
<1>7. OneCreator'
  BY <1>1 DEF ServiceInv, OneCreator
<1> QED
  BY <1>1, <1>3, <1>5, <1>6, <1>7, KeptIsFine, CallerKeeps DEF Proceed

LEMMA CommitKeeps ==
  ASSUME Machine!TypeOK, ServiceInv, NEW c \in Callers, Commit(c)
  PROVE  ServiceInv'
<1>1. /\ pc[c] = "commit" /\ UNCHANGED <<overlapped, history, step, request, outcome, validating>>
      /\ step[c] = "idle" /\ outcome[c] = "none"
  BY DEF Commit, machine, ServiceInv, CallShape
<1>2. CallShape(c) /\ Claims(c) /\ call[c] \in Call /\ call[c].on \subseteq Disputes
  BY DEF ServiceInv, ServiceTypes, Call
<1>3. \/ pc' = [pc EXCEPT ![c] = "ok"] /\ call' = call
      \/ pc' = [pc EXCEPT ![c] = "idle"] /\ call' = [call EXCEPT ![c] = NoCall]
  BY DEF Commit, End
<1>4. pc' \in [Callers -> Locations] /\ call' \in [Callers -> Call]
  <2>1. NoCall \in Call
    BY DEF NoCall, Call
  <2> QED
    BY <1>3, <2>1 DEF ServiceInv, ServiceTypes, Locations
<1>5. \/ pc'[c] = "ok" /\ call'[c] = call[c]
      \/ pc'[c] = "idle" /\ call'[c] = NoCall
  BY <1>3 DEF ServiceInv, ServiceTypes
<1>6. /\ status' \in [Disputes -> Machine!States \cup {"none"}]
      /\ holds' \in [Disputes -> [active: Nat, released: Nat]]
  <2>1. ASSUME NEW d \in Disputes
        PROVE  [holds[d] EXCEPT !.active = @ + 1] \in [active: Nat, released: Nat]
    <3>1. holds[d] \in [active: Nat, released: Nat]
      BY DEF ServiceInv, ServiceTypes
    <3> QED
      BY <3>1
  <2>2. "PENDING" \in Machine!States
    BY DEF Machine!States
  <2> QED
    BY <2>1, <2>2 DEF Commit, ServiceInv, ServiceTypes
<1>7. reserve' \in [Merchants -> Nat]
  <2>1. CASE call[c].op \notin {"create", "authorize"}
    BY <2>1 DEF Commit, ServiceInv, ServiceTypes
  <2>2. CASE call[c].op \in {"create", "authorize"}
    <3>1. PICK d \in Disputes : call[c].on = {d}
      BY <1>2, <2>2 DEF CallShape, One
    <3>2. ValidRequest(d)
      BY <1>1, <1>2, <2>2, <3>1 DEF Claims, ServiceInv, ValidRows, One
    <3>3. Asked[d].amount \in Nat /\ Rate \in Nat
      BY <3>2, ServiceAssumption DEF ValidRequest, ValidateDisputeRequest
    <3>4. (CHOOSE e \in call[c].on : TRUE) = d
      BY <3>1
    <3>5. Increment(c) \in Nat
      <4>1. PICK n \in Nat : n = Asked[d].amount
        BY <3>3
      <4>2. Increment(c) = Rate * n
        BY <3>4, <4>1 DEF Increment
      <4>3. Rate * n \in Nat
        BY <3>3
      <4> QED
        BY <4>2, <4>3
    <3>6. call[c].base \in Nat
      BY <1>2 DEF Call
    <3>7. NewReserve(c) \in Nat
      BY <3>5, <3>6 DEF NewReserve
    <3>8. reserve' = [reserve EXCEPT ![MerchantOf(c)] = NewReserve(c)]
      BY <2>2 DEF Commit
    <3> HIDE DEF NewReserve, MerchantOf
    <3> QED
      BY <3>7, <3>8 DEF ServiceInv, ServiceTypes
  <2> QED
    BY <2>1, <2>2
<1>8. ServiceTypes'
  BY <1>1, <1>4, <1>6, <1>7 DEF ServiceInv, ServiceTypes
<1>9. CallShape(c)'
  BY <1>1, <1>2, <1>5 DEF CallShape, NoCall, One
<1>10. Claims(c)'
  <2>1. CASE pc'[c] = "idle" /\ call'[c] = NoCall
    BY <2>1 DEF Claims, NoCall, One
  <2>2. CASE pc'[c] = "ok" /\ call'[c] = call[c]
    <3>1. \A d \in call[c].on \ call[c].left : Recorded(d, Goal(call[c].op))
      BY <1>1, <1>2 DEF Claims, Recording
    <3>2. call[c].op \in One \ {"create"} \/ call[c].op = "settle" => \A d \in call[c].on : status'[d] # "none"
      BY <1>1, <1>2, CommitIsFine DEF Claims, Fine, Monotone
    <3>3. call[c].op = "create" => \A d \in call[c].on : ValidRequest(d) /\ status'[d] # "none"
      BY <1>1, <1>2, CommitIsFine DEF Claims
    <3>4. call[c].op = "authorize" => \A d \in call[c].on : holds'[d].active + holds'[d].released >= 2
      BY CommitIsFine DEF Total
    <3> QED
      BY <1>1, <2>2, <3>1, <3>2, <3>3, <3>4 DEF Claims, ValidRequest, Recorded, Goal
  <2> QED
    BY <1>5, <2>1, <2>2
<1>11. OneCreator'
  BY <1>5, CreatorsApart DEF Proceed, NoCall
<1> QED
  BY <1>8, <1>9, <1>10, <1>11, CommitIsFine, CallerKeeps DEF Proceed

(* What an operator or a validator does leaves the calls alone.            *)
LEMMA UpdateStatusKeeps ==
  ASSUME Machine!TypeOK, ServiceInv, NEW d \in Disputes, NEW to \in Machine!States,
         UpdateStatus(d, to)
  PROVE  ServiceInv'
<1>1. UNCHANGED <<reserve, overlapped, pc, call, validating, history, step, request, outcome>>
  BY DEF UpdateStatus, calls, machine
<1>2. \A b \in Callers : UNCHANGED Local(b)
  BY <1>1 DEF Local
<1>3. \A c : Fine(c) /\ \A b \in Callers : Quiet(b)
  BY UpdateIsFine
<1>4. \A b \in Callers : CallShape(b)' /\ Claims(b)'
  BY <1>2, <1>3, OthersKeep DEF Fine
<1>5. HoldsAfter(d, to) \in [active: Nat, released: Nat]
  <2>1. holds[d] \in [active: Nat, released: Nat]
    BY DEF ServiceInv, ServiceTypes
  <2>2. holds[d].released + holds[d].active \in Nat
    BY <2>1
  <2> QED
    BY <2>1, <2>2 DEF HoldsAfter
<1>6. ServiceTypes'
  BY <1>1, <1>5 DEF ServiceInv, ServiceTypes, UpdateStatus
<1>7. OneCreator'
  BY <1>1 DEF ServiceInv, OneCreator
<1> QED
  BY <1>3, <1>4, <1>6, <1>7 DEF ServiceInv, Fine

LEMMA PoolKeeps ==
  ASSUME ServiceInv, validating' \subseteq Validators,
         UNCHANGED <<status, holds, reserve, overlapped, pc, call, history, step, request, outcome>>
  PROVE  ServiceInv'
<1>1. ServiceTypes' /\ OneCreator' /\ ValidRows'
  BY DEF ServiceInv, ServiceTypes, OneCreator, ValidRows, ValidRequest
<1>2. \A d \in Disputes : Rows(d)'
  BY DEF ServiceInv, Rows
<1>3. \A c \in Callers : CallShape(c)'
  BY DEF ServiceInv, CallShape
<1>4. \A c \in Callers : Claims(c)'
  BY DEF ServiceInv, Claims, ValidRequest, Recording, Recorded
<1> QED
  BY <1>1, <1>2, <1>3, <1>4 DEF ServiceInv

LEMMA ValidatorKeeps ==
  ASSUME ServiceInv, NEW v \in Validators,
         OpenRows(v) \/ CloseRows(v) \/ DeadlinePasses(v)
  PROVE  ServiceInv'
BY PoolKeeps DEF OpenRows, CloseRows, DeadlinePasses, tables, calls, machine, ServiceInv, ServiceTypes

LEMMA ServiceInvStep == Machine!TypeOK /\ ServiceInv /\ [Next]_vars => ServiceInv'
<1> SUFFICES ASSUME Machine!TypeOK, ServiceInv, [Next]_vars
             PROVE  ServiceInv'
  OBVIOUS
<1>1. CASE UNCHANGED vars
  BY <1>1, PoolKeeps DEF vars, tables, calls, machine, ServiceInv, ServiceTypes
<1>2. ASSUME NEW c \in Callers, Proceed(c)
      PROVE  ServiceInv'
  BY <1>2, AskKeeps, ReadDisputesKeeps, SettleNextKeeps, TransitionStepKeeps, EndsKeep, ResultKeeps,
     UpdateFraudReserveKeeps, CommitKeeps DEF Proceed
<1> QED
  BY <1>1, <1>2, RequestKeeps, UpdateStatusKeeps, ValidatorKeeps DEF Next

LEMMA ServiceInvInit == Init => ServiceInv
<1> SUFFICES ASSUME Init
             PROVE  ServiceInv
  OBVIOUS
<1>1. NoCall \in Call
  BY DEF NoCall, Call
<1>2. ServiceTypes
  BY <1>1, ServiceAssumption DEF Init, ServiceTypes, Locations
<1>3. ASSUME NEW c \in Callers
      PROVE  CallShape(c) /\ Claims(c)
  BY DEF Init, Machine!Init, NoCall, One, CallShape, Claims
<1>4. OneCreator
  BY DEF Init, NoCall, OneCreator
<1>5. ASSUME NEW d \in Disputes
      PROVE  history[d] = <<>> /\ status[d] = "none" /\ Rows(d)
  BY DEF Init, Machine!Init, Rows
<1> QED
  BY <1>2, <1>3, <1>4, <1>5 DEF ServiceInv, ValidRows

LEMMA ServiceAlways == Spec => []ServiceInv
BY MachineTypes, ServiceInvInit, ServiceInvStep, PTL DEF Spec

-----------------------------------------------------------------------------
(* Whatever fails between the transition and the commit, a dispute with a  *)
(* row has begun with PENDING, and one without has at most that.           *)
THEOREM ServiceBegins == Spec => []DisputesBegin
<1>1. ServiceInv => DisputesBegin
  BY DEF ServiceInv, Rows, DisputesBegin
<1> QED
  BY <1>1, ServiceAlways, PTL

(* No dispute is ever made for a fraud code, whatever is asked for.        *)
THEOREM ServiceNeverFraud == Spec => []FraudIsNeverDisputed
<1>1. ServiceInv => FraudIsNeverDisputed
  BY DEF ServiceInv, ValidRows, ValidRequest, ValidateDisputeRequest, FraudIsNeverDisputed
<1> QED
  BY <1>1, ServiceAlways, PTL

(* A call that reports success has made its transition, its row and its    *)
(* holds, whichever other calls run and fail beside it.                    *)
THEOREM ServiceOk == Spec => []OkMeansDone
<1>1. ServiceInv => OkMeansDone
  <2> SUFFICES ASSUME ServiceInv, NEW c \in Callers, pc[c] = "ok", NEW d \in call[c].on
               PROVE  Done(call[c].op, d)
    BY DEF OkMeansDone
  <2>1. CallShape(c) /\ Claims(c) /\ call[c].op \in Operations \cup {"none"}
    BY DEF ServiceInv, ServiceTypes, Call
  <2>2. call[c].op \in {"create", "authorize", "settle", "initiate"}
    BY <2>1 DEF CallShape, Operations
  <2>3. Recorded(d, Goal(call[c].op))
    BY <2>1 DEF CallShape, Claims, Recording
  <2>4. call[c].op = "create" => status[d] # "none"
    BY <2>1 DEF Claims
  <2>5. call[c].op = "authorize" => holds[d].active + holds[d].released >= 2
    BY <2>1 DEF Claims
  <2>6. CASE call[c].op = "create"
    BY <2>3, <2>4, <2>6 DEF Goal, Done
  <2>7. CASE call[c].op = "authorize"
    BY <2>3, <2>5, <2>7 DEF Goal, Target, Done
  <2>8. CASE call[c].op = "settle"
    BY <2>3, <2>8 DEF Goal, Done
  <2>9. CASE call[c].op = "initiate"
    BY <2>3, <2>9 DEF Goal, Target, Done
  <2> QED
    BY <2>2, <2>6, <2>7, <2>8, <2>9
<1> QED
  BY <1>1, ServiceAlways, PTL

(* In the tables as the migrations leave them no dispute ever gets a row:  *)
(* the transition of a creation is never recorded, so it never commits.    *)
THEOREM NoDisputeInPostgres ==
  Spec => [](\A d \in Disputes : Store[d] = "postgres" => status[d] = "none")
<1>1. ServiceInv /\ Machine!NothingIsRecorded =>
        \A d \in Disputes : Store[d] = "postgres" => status[d] = "none"
  BY DEF ServiceInv, Rows, Machine!NothingIsRecorded
<1> QED
  BY <1>1, ServiceAlways, ServiceRecordsNothing, PTL

-----------------------------------------------------------------------------
(* The pool never lends more connections than it has.                      *)

Holding == {c \in Callers : InTransaction(c)}

PoolInv == InUse <= PoolSize

(* Only the beginning of a transaction takes a connection for longer.      *)
LEMMA TakesConnection ==
  ASSUME Machine!TypeOK, ServiceInv, NEW c \in Callers, Request(c) \/ Proceed(c)
  PROVE  /\ UNCHANGED validating
         /\ InTransaction(c)' => InTransaction(c) \/ FreeConnection
<1>1. CASE Request(c)
  <2>1. UNCHANGED validating /\ pc'[c] = "begin"
    BY <1>1 DEF Request, CreateDispute, AuthorizeDispute, InitiateDispute, ReverseDispute,
                SettleTransaction, Start, ServiceInv, ServiceTypes
  <2> QED
    BY <2>1 DEF InTransaction
<1>2. CASE ReadDisputes(c) \/ \E d \in Disputes : InsertDispute(c, d) \/ ReadDispute(c, d)
  BY <1>2 DEF ReadDisputes, InsertDispute, ReadDispute, Continue
<1>3. ASSUME NEW d \in Disputes, SettleNext(c, d)
      PROVE  InTransaction(c) /\ UNCHANGED validating
  <2>1. pc[c] = "next" /\ UNCHANGED validating
    BY <1>3 DEF SettleNext, Continue
  <2> QED
    BY <2>1 DEF InTransaction, ServiceInv, CallShape
<1>4. CASE Refuse(c) \/ DatabaseFails(c) \/ Succeed(c) \/ TransitionFails(c) \/ InitiateDone(c)
  <2>1. UNCHANGED validating /\ pc'[c] \in {"idle", "ok"}
    BY <1>4 DEF Refuse, DatabaseFails, Succeed, Fail, TransitionFails, InitiateDone, Continue, End,
                ServiceInv, ServiceTypes
  <2> QED
    BY <2>1 DEF InTransaction
<1>5. CASE Commit(c)
  <2>1. UNCHANGED validating /\ pc'[c] \in {"idle", "ok"}
    BY <1>5 DEF Commit, End, ServiceInv, ServiceTypes
  <2> QED
    BY <2>1 DEF InTransaction
<1>6. CASE TransitionStep(c)
  BY <1>6 DEF TransitionStep, calls, InTransaction
<1>7. CASE SettleDone(c) \/ ApplyFundsHold(c) \/ ReverseDone(c)
  BY <1>7 DEF SettleDone, ApplyFundsHold, ReverseDone, ReturnedOk, Returned, Continue, End, InTransaction
<1>8. CASE UpdateFraudReserve(c)
  BY <1>8 DEF UpdateFraudReserve, Continue, InTransaction, ServiceInv, CallShape
<1> QED
  BY <1>1, <1>2, <1>3, <1>4, <1>5, <1>6, <1>7, <1>8 DEF Proceed

LEMMA HoldingFinite ==
  ASSUME ServiceInv
  PROVE  /\ IsFiniteSet(Holding) /\ Cardinality(Holding) \in Nat
         /\ IsFiniteSet(validating) /\ Cardinality(validating) \in Nat
         /\ InUse = Cardinality(Holding) + Cardinality(validating)
<1>1. Holding \subseteq Callers /\ validating \subseteq Validators
  BY DEF Holding, ServiceInv, ServiceTypes
<1>2. IsFiniteSet(Holding) /\ IsFiniteSet(validating)
  BY <1>1, ServiceAssumption, FS_Subset
<1> QED
  BY <1>2, FS_CardinalityType DEF InUse, Holding

LEMMA PoolStep == Machine!TypeOK /\ ServiceInv /\ ServiceInv' /\ PoolInv /\ [Next]_vars => PoolInv'
<1> SUFFICES ASSUME Machine!TypeOK, ServiceInv, ServiceInv', PoolInv, [Next]_vars
             PROVE  PoolInv'
  OBVIOUS
<1>1. PoolSize \in Nat
  BY ServiceAssumption
<1>2. /\ IsFiniteSet(Holding) /\ Cardinality(Holding) \in Nat
      /\ IsFiniteSet(validating) /\ Cardinality(validating) \in Nat
      /\ InUse = Cardinality(Holding) + Cardinality(validating)
  BY HoldingFinite
<1>3. InUse' = Cardinality(Holding') + Cardinality(validating')
  BY DEF InUse, Holding
<1>4. ASSUME UNCHANGED calls
      PROVE  Holding' = Holding
  BY <1>4 DEF calls, Holding, InTransaction
<1>5. CASE UNCHANGED vars
  BY <1>3, <1>4, <1>5 DEF vars, PoolInv, InUse, Holding
<1>6. ASSUME NEW d \in Disputes, NEW to \in Machine!States, UpdateStatus(d, to)
      PROVE  PoolInv'
  BY <1>2, <1>3, <1>4, <1>6 DEF UpdateStatus, PoolInv
<1>7. ASSUME NEW v \in Validators, OpenRows(v)
      PROVE  PoolInv'
  <2>1. Holding' = Holding /\ validating' = validating \cup {v} /\ InUse < PoolSize
    BY <1>4, <1>7 DEF OpenRows, FreeConnection
  <2>2. Cardinality(validating') = Cardinality(validating)
          \/ Cardinality(validating') = Cardinality(validating) + 1
    BY <1>2, <2>1, FS_AddElement
  <2> QED
    BY <1>1, <1>2, <1>3, <2>1, <2>2 DEF PoolInv
<1>8. ASSUME NEW v \in Validators, CloseRows(v) \/ DeadlinePasses(v)
      PROVE  PoolInv'
  <2>1. Holding' = Holding /\ validating' = validating \ {v}
    BY <1>4, <1>8 DEF CloseRows, DeadlinePasses
  <2>2. Cardinality(validating') <= Cardinality(validating) /\ Cardinality(validating') \in Nat
    BY <1>2, <2>1, FS_Subset, FS_CardinalityType
  <2> QED
    BY <1>1, <1>2, <1>3, <2>1, <2>2 DEF PoolInv
<1>9. ASSUME NEW c \in Callers, Request(c) \/ Proceed(c)
      PROVE  PoolInv'
  <2>1. /\ validating' = validating
        /\ InTransaction(c)' => InTransaction(c) \/ FreeConnection
    BY <1>9, TakesConnection
  <2>2. \A b \in Callers \ {c} : InTransaction(b)' <=> InTransaction(b)
    BY <1>9, OthersStay DEF ServiceInv, Local, InTransaction
  <2>3. CASE Holding' \subseteq Holding
    <3>1. Cardinality(Holding') <= Cardinality(Holding) /\ Cardinality(Holding') \in Nat
      BY <1>2, <2>3, FS_Subset, FS_CardinalityType
    <3> QED
      BY <1>1, <1>2, <1>3, <2>1, <3>1 DEF PoolInv
  <2>4. CASE ~(Holding' \subseteq Holding)
    <3>1. Holding' \subseteq Holding \cup {c} /\ InUse < PoolSize
      BY <2>1, <2>2, <2>4 DEF Holding, FreeConnection
    <3>2. /\ IsFiniteSet(Holding \cup {c})
          /\ Cardinality(Holding \cup {c}) = Cardinality(Holding)
               \/ Cardinality(Holding \cup {c}) = Cardinality(Holding) + 1
      <4>1. IsFiniteSet(Holding)
        BY <1>2
      <4> QED
        BY <4>1, FS_AddElement
    <3>3. Cardinality(Holding') <= Cardinality(Holding \cup {c}) /\ Cardinality(Holding') \in Nat
      <4>1. IsFiniteSet(Holding') /\ Cardinality(Holding') <= Cardinality(Holding \cup {c})
        BY <3>1, <3>2, FS_Subset
      <4> QED
        BY <4>1, FS_CardinalityType
    <3> QED
      BY <1>1, <1>2, <1>3, <2>1, <3>1, <3>2, <3>3 DEF PoolInv
  <2> QED
    BY <2>3, <2>4
<1> QED
  BY <1>5, <1>6, <1>7, <1>8, <1>9 DEF Next

(* Only the end of a dispute counts who is late.                           *)
LEMMA CallLate ==
  ASSUME NEW c \in Callers, Request(c) \/ Proceed(c)
  PROVE  UNCHANGED late
<1>1. CASE Request(c)
  BY <1>1 DEF Request, CreateDispute, AuthorizeDispute, InitiateDispute, ReverseDispute,
              SettleTransaction, Start, tables
<1>2. CASE Proceed(c)
  BY <1>2 DEF Proceed, InsertDispute, ReadDispute, SettleNext, ReadDisputes, Refuse, TransitionStep,
              TransitionFails, InitiateDone, SettleDone, ReverseDone, ApplyFundsHold,
              UpdateFraudReserve, Commit, DatabaseFails, Succeed, Fail, tables
<1> QED
  BY <1>1, <1>2

AuthorizersType(d) ==
  /\ IsFiniteSet(Authorizers(d)) /\ Cardinality(Authorizers(d)) \in Nat

LEMMA AuthorizersFinite ==
  ASSUME NEW d
  PROVE  AuthorizersType(d) /\ AuthorizersType(d)'
<1>1. Authorizers(d) \subseteq Callers /\ Authorizers(d)' \subseteq Callers
  BY DEF Authorizers
<1>2. IsFiniteSet(Authorizers(d)) /\ IsFiniteSet(Authorizers(d)')
  BY <1>1, ServiceAssumption, FS_Subset
<1> QED
  BY <1>2, FS_CardinalityType DEF AuthorizersType

LateInv == late \in [Disputes -> Nat]

LEMMA LateStep == LateInv /\ [Next]_vars => LateInv'
<1> SUFFICES ASSUME LateInv, [Next]_vars
             PROVE  LateInv'
  OBVIOUS
<1>1. ASSUME NEW d \in Disputes, NEW to \in Machine!States, UpdateStatus(d, to)
      PROVE  LateInv'
  BY <1>1, AuthorizersFinite DEF UpdateStatus, LateInv, AuthorizersType
<1>2. ASSUME NEW v \in Validators, OpenRows(v) \/ CloseRows(v) \/ DeadlinePasses(v)
      PROVE  LateInv'
  BY <1>2 DEF OpenRows, CloseRows, DeadlinePasses, tables, LateInv
<1>3. CASE UNCHANGED vars
  BY <1>3 DEF vars, tables, LateInv
<1> QED
  BY <1>1, <1>2, <1>3, CallLate DEF Next, LateInv

(* The types of the service and of its state machine; a call that waits    *)
(* for its transition while it holds a connection never takes one that is  *)
(* not there.                                                              *)
THEOREM ServiceTypeCorrect == Spec => []TypeOK
<1>1. Init => PoolInv
  <2> SUFFICES ASSUME Init
               PROVE  PoolInv
    OBVIOUS
  <2>1. Holding = {} /\ validating = {}
    BY DEF Init, Holding, InTransaction
  <2>2. Cardinality({}) = 0 /\ PoolSize \in Nat
    BY FS_EmptySet, ServiceAssumption
  <2>3. InUse = Cardinality(Holding) + Cardinality(validating)
    BY DEF InUse, Holding
  <2> QED
    BY <2>1, <2>2, <2>3 DEF PoolInv
<1>2. ServiceInv /\ PoolInv /\ LateInv /\ Machine!TypeOK => TypeOK
  BY DEF ServiceInv, ServiceTypes, PoolInv, LateInv, TypeOK, Locations
<1>3. Init => LateInv
  BY DEF Init, LateInv
<1> QED
  BY <1>1, <1>2, <1>3, PoolStep, LateStep, ServiceAlways, MachineTypes, PTL DEF Spec

-----------------------------------------------------------------------------
(* The holds.                                                              *)

(* A call that has authorized a dispute and has not held for it yet.       *)
Owes(c, d) ==
  /\ call[c].op = "authorize" /\ d \in call[c].on
  /\ pc[c] \in {"reserve", "commit"}
       \/ (pc[c] = "transition" /\ step[c] = "idle" /\ outcome[c] = "ok")

Owing(d) == {c \in Callers : Owes(c, d)}

LEMMA AuthorizationsType ==
  ASSUME Machine!TypeOK, NEW d \in Disputes
  PROVE  /\ IsFiniteSet({i \in DOMAIN history[d] : history[d][i].to = "AUTHORIZED"})
         /\ Authorizations(d) \in Nat
<1> DEFINE A == {i \in DOMAIN history[d] : history[d][i].to = "AUTHORIZED"}
<1>1. A \subseteq 1..Len(history[d]) /\ Len(history[d]) \in Nat
  BY HistoryTypes
<1>2. IsFiniteSet(1..Len(history[d]))
  BY <1>1, FS_Interval
<1> HIDE DEF A
<1>3. IsFiniteSet(A)
  BY <1>1, <1>2, FS_Subset
<1>4. Cardinality(A) \in Nat
  BY <1>3, FS_CardinalityType
<1> QED
  BY <1>3, <1>4 DEF A, Authorizations

(* A transition more is an authorization more if it is one.                *)
LEMMA AuthorizationsGrow ==
  ASSUME Machine!TypeOK, NEW d \in Disputes, NEW t \in Machine!StateTransition,
         history'[d] = Append(history[d], t)
  PROVE  Authorizations(d)' = IF t.to = "AUTHORIZED" THEN Authorizations(d) + 1 ELSE Authorizations(d)
<1> DEFINE A == {i \in DOMAIN history[d] : history[d][i].to = "AUTHORIZED"}
           n == Len(history[d])
<1>1. history[d] \in Seq(Machine!StateTransition) /\ n \in Nat /\ DOMAIN history[d] = 1..n
  BY HistoryTypes
<1>2. /\ DOMAIN history'[d] = 1..n + 1
      /\ history'[d][n + 1] = t
      /\ \A i \in 1..n : history'[d][i] = history[d][i]
  BY <1>1
<1>3. A' = IF t.to = "AUTHORIZED" THEN A \cup {n + 1} ELSE A
  BY <1>1, <1>2
<1>4. n + 1 \notin A
  BY <1>1
<1>5. IsFiniteSet(A)
  BY AuthorizationsType
<1>6. Authorizations(d) = Cardinality(A) /\ Authorizations(d)' = Cardinality(A')
  BY DEF Authorizations
<1> HIDE DEF A, n
<1>7. Cardinality(A \cup {n + 1}) = Cardinality(A) + 1
  BY <1>4, <1>5, FS_AddElement
<1> QED
  BY <1>3, <1>6, <1>7

LEMMA OwingType ==
  ASSUME NEW d
  PROVE  /\ IsFiniteSet(Owing(d)) /\ Cardinality(Owing(d)) \in Nat
         /\ Cardinality(Owing(d))' \in Nat
<1>1. Owing(d) \subseteq Callers /\ Owing(d)' \subseteq Callers
  BY DEF Owing
<1>2. IsFiniteSet(Owing(d)) /\ IsFiniteSet(Owing(d)')
  BY <1>1, ServiceAssumption, FS_Subset
<1> QED
  BY <1>2, FS_CardinalityType

(* What a step of a call does to the holds of a dispute, and to what it    *)
(* owes: nothing or a new debt with its authorization, or a hold for its   *)
(* debt, or the first hold of a dispute.                                   *)
Settles(c, d) ==
  \/ /\ UNCHANGED <<status[d], holds[d]>>
     /\ \/ Authorizations(d)' = Authorizations(d) /\ (Owes(c, d)' => Owes(c, d))
        \/ Authorizations(d)' = Authorizations(d) + 1
  \/ /\ status'[d] = status[d] /\ status[d] # "none"
     /\ holds'[d] = [holds[d] EXCEPT !.active = @ + 1]
     /\ Authorizations(d)' = Authorizations(d)
     /\ Owes(c, d) /\ ~Owes(c, d)'
  \/ /\ status[d] = "none" /\ status'[d] = "PENDING"
     /\ holds'[d] = [holds[d] EXCEPT !.active = @ + 1]
     /\ Authorizations(d)' = Authorizations(d)
     /\ ~Owes(c, d)'

LEMMA CallSettles ==
  ASSUME Machine!TypeOK, ServiceInv, NEW c \in Callers, Request(c) \/ Proceed(c), NEW d \in Disputes
  PROVE  Settles(c, d)
<1>1. ASSUME UNCHANGED <<status, holds, history>>, Owes(c, d)' => Owes(c, d)
      PROVE  Settles(c, d)
  BY <1>1 DEF Settles, Authorizations
<1>2. CASE Request(c)
  <2>1. pc'[c] = "begin" /\ UNCHANGED <<status, holds, history>>
    BY <1>2 DEF Request, CreateDispute, AuthorizeDispute, InitiateDispute, ReverseDispute,
                SettleTransaction, Start, ServiceInv, ServiceTypes, tables, machine
  <2> QED
    BY <1>1, <2>1 DEF Owes
<1>3. ASSUME NEW e \in Disputes, InsertDispute(c, e) \/ ReadDispute(c, e) \/ SettleNext(c, e)
      PROVE  Settles(c, d)
  <2>1. step'[c] # "idle" /\ UNCHANGED history
    BY <1>3, Asks DEF InsertDispute, ReadDispute, SettleNext
  <2>2. pc'[c] = "transition" /\ UNCHANGED <<status, holds>>
    BY <1>3 DEF InsertDispute, ReadDispute, SettleNext, Continue, tables, ServiceInv, ServiceTypes
  <2> QED
    BY <1>1, <2>1, <2>2 DEF Owes
<1>4. CASE ReadDisputes(c)
  <2>1. PICK open : call' = [call EXCEPT ![c].on = open, ![c].left = open]
    BY <1>4 DEF ReadDisputes
  <2>2. call \in [Callers -> Call] /\ call[c].op = "settle"
    BY <1>4 DEF ReadDisputes, ServiceInv, ServiceTypes
  <2>3. call'[c].op = "settle"
    BY <2>1, <2>2 DEF Call
  <2>4. UNCHANGED <<status, holds, history>>
    BY <1>4 DEF ReadDisputes, tables, machine
  <2> QED
    BY <1>1, <2>3, <2>4 DEF Owes
<1>5. CASE Refuse(c) \/ DatabaseFails(c) \/ Succeed(c) \/ TransitionFails(c) \/ InitiateDone(c)
  <2>1. UNCHANGED <<status, holds>> /\ pc'[c] \in {"idle", "ok"}
    BY <1>5 DEF Refuse, DatabaseFails, Succeed, Fail, TransitionFails, InitiateDone, Continue, End,
                tables, ServiceInv, ServiceTypes
  <2>2. UNCHANGED history
    BY <1>5, Takes DEF Refuse, DatabaseFails, Succeed, Fail, TransitionFails, InitiateDone, machine
  <2> QED
    BY <1>1, <2>1, <2>2 DEF Owes
<1>6. CASE SettleDone(c) \/ ReverseDone(c)
  <2>1. UNCHANGED <<status, holds, history>> /\ call[c].op # "authorize"
    BY <1>6, Takes DEF SettleDone, ReverseDone, ReturnedOk, tables
  <2>2. call'[c] = call[c] \/ call'[c] = NoCall
    BY <1>6 DEF SettleDone, ReverseDone, Continue, End, ServiceInv, ServiceTypes
  <2> QED
    BY <1>1, <2>1, <2>2 DEF Owes, NoCall
<1>7. CASE ApplyFundsHold(c)
  <2>1. /\ pc[c] = "transition" /\ step[c] = "idle" /\ outcome[c] = "ok"
        /\ UNCHANGED <<status, holds, history>>
        /\ call'[c].op = call[c].op /\ call'[c].on = call[c].on
    BY <1>7, Takes DEF ApplyFundsHold, ReturnedOk, Returned, ServiceInv, ServiceTypes, Call
  <2> QED
    BY <1>1, <2>1 DEF Owes
<1>8. CASE UpdateFraudReserve(c)
  <2>1. pc[c] = "reserve" /\ UNCHANGED <<status, holds, history, call>>
    BY <1>8 DEF UpdateFraudReserve, Continue, tables, machine
  <2> QED
    BY <1>1, <2>1 DEF Owes
<1>9. CASE TransitionStep(c)
  <2>1. UNCHANGED <<status, holds, pc, call>>
    BY <1>9 DEF TransitionStep, tables, calls
  <2>2. pc[c] = "transition" /\ step[c] # "idle" /\ CallShape(c)
    BY <1>9, GoesOn DEF TransitionStep, ServiceInv, CallShape
  <2>3. CASE UNCHANGED history /\ (step'[c] # "idle" \/ outcome'[c] \in {"invalid", "error"})
    BY <1>1, <2>1, <2>2, <2>3 DEF Owes
  <2>4. CASE Adds(c)
    <3>1. PICK e \in Disputes, t \in Machine!StateTransition :
            request[c] = <<e, t.to>> /\ history' = [history EXCEPT ![e] = Append(@, t)]
      BY <2>4 DEF Adds
    <3>2. history \in [Disputes -> Seq(Machine!StateTransition)]
      BY DEF Machine!TypeOK
    <3>3. e \in call[c].on /\ t.to = Goal(call[c].op)
      BY <2>2, <3>1 DEF CallShape
    <3>4. CASE e # d
      <4>1. history'[d] = history[d]
        BY <3>1, <3>2, <3>4
      <4>2. call[c].op = "authorize" => d \notin call[c].on
        BY <2>2, <3>3, <3>4 DEF CallShape, One
      <4>3. ~Owes(c, d)'
        BY <2>1, <4>2 DEF Owes
      <4> QED
        BY <2>1, <4>1, <4>3 DEF Settles, Authorizations
    <3>5. CASE e = d
      <4>1. history'[d] = Append(history[d], t)
        BY <3>1, <3>2, <3>5
      <4>2. CASE call[c].op = "authorize"
        <5>1. t.to = "AUTHORIZED"
          BY <3>3, <4>2 DEF Goal, Target
        <5>2. Authorizations(d)' = Authorizations(d) + 1
          BY <4>1, <5>1, AuthorizationsGrow
        <5> QED
          BY <2>1, <5>2 DEF Settles
      <4>3. CASE call[c].op # "authorize"
        <5>1. ~Owes(c, d)'
          BY <2>1, <4>3 DEF Owes
        <5>2. Authorizations(d)' = Authorizations(d) \/ Authorizations(d)' = Authorizations(d) + 1
          BY <4>1, AuthorizationsGrow
        <5> QED
          BY <2>1, <5>1, <5>2 DEF Settles
      <4> QED
        BY <4>2, <4>3
    <3> QED
      BY <3>4, <3>5
  <2> QED
    BY <1>9, <2>3, <2>4, GoesOn DEF TransitionStep
<1>10. CASE Commit(c)
  <2>1. /\ pc[c] = "commit" /\ UNCHANGED history
        /\ CallShape(c) /\ Claims(c)
    BY <1>10 DEF Commit, machine, ServiceInv
  <2>2. pc'[c] \in {"idle", "ok"}
    BY <1>10 DEF Commit, End, ServiceInv, ServiceTypes
  <2>3. ~Owes(c, d)' /\ Authorizations(d)' = Authorizations(d)
    BY <2>1, <2>2 DEF Owes, Authorizations
  <2>4. CASE call[c].op \notin {"create", "authorize"}
    BY <1>10, <2>3, <2>4 DEF Commit, Settles
  <2>5. CASE call[c].op \in {"create", "authorize"} /\ d \notin call[c].on
    BY <1>10, <2>3, <2>5 DEF Commit, Settles
  <2>6. CASE call[c].op = "authorize" /\ d \in call[c].on
    <3>1. Owes(c, d) /\ status[d] # "none"
      BY <2>1, <2>6 DEF Owes, Claims, One
    <3>2. status'[d] = status[d] /\ holds'[d] = [holds[d] EXCEPT !.active = @ + 1]
      BY <1>10, <2>6 DEF Commit
    <3> QED
      BY <2>3, <3>1, <3>2 DEF Settles
  <2>7. CASE call[c].op = "create" /\ d \in call[c].on
    <3>1. status[d] = "none"
      BY <2>1, <2>7 DEF Claims
    <3>2. status'[d] = "PENDING" /\ holds'[d] = [holds[d] EXCEPT !.active = @ + 1]
      BY <1>10, <2>7 DEF Commit
    <3> QED
      BY <2>3, <3>1, <3>2 DEF Settles
  <2> QED
    BY <2>1, <2>4, <2>5, <2>6, <2>7 DEF CallShape
<1> QED
  BY <1>2, <1>3, <1>4, <1>5, <1>6, <1>7, <1>8, <1>9, <1>10 DEF Proceed

(* Who else owes for a dispute stays the same.                             *)
LEMMA OthersOwe ==
  ASSUME Machine!TypeOK, ServiceInv, NEW c \in Callers, Request(c) \/ Proceed(c), NEW d
  PROVE  \A b \in Callers \ {c} : Owes(b, d)' <=> Owes(b, d)
BY OthersStay DEF ServiceInv, Local, Owes

LEMMA OwingStep ==
  ASSUME Machine!TypeOK, ServiceInv, NEW c \in Callers, Request(c) \/ Proceed(c), NEW d
  PROVE  /\ Cardinality(Owing(d))' <= Cardinality(Owing(d)) + 1
         /\ (Owes(c, d)' => Owes(c, d)) => Cardinality(Owing(d))' <= Cardinality(Owing(d))
         /\ (Owes(c, d) /\ ~Owes(c, d)') => Cardinality(Owing(d))' <= Cardinality(Owing(d)) - 1
<1>1. IsFiniteSet(Owing(d)) /\ Cardinality(Owing(d)) \in Nat /\ Cardinality(Owing(d))' \in Nat
  BY OwingType
<1>2. Owing(d)' \subseteq Owing(d) \cup {c}
  BY OthersOwe DEF Owing
<1>3. Cardinality(Owing(d)') <= Cardinality(Owing(d)) + 1
  <2>1. IsFiniteSet(Owing(d) \cup {c})
    BY <1>1, FS_AddElement
  <2>2. Cardinality(Owing(d) \cup {c}) =
          IF c \in Owing(d) THEN Cardinality(Owing(d)) ELSE Cardinality(Owing(d)) + 1
    BY <1>1, FS_AddElement
  <2>3. Cardinality(Owing(d)') <= Cardinality(Owing(d) \cup {c})
    BY <1>2, <2>1, FS_Subset
  <2> QED
    BY <1>1, <2>2, <2>3
<1>4. ASSUME Owes(c, d)' => Owes(c, d)
      PROVE  Cardinality(Owing(d)') <= Cardinality(Owing(d))
  <2>1. Owing(d)' \subseteq Owing(d)
    BY <1>4, OthersOwe DEF Owing
  <2> QED
    BY <1>1, <2>1, FS_Subset
<1>5. ASSUME Owes(c, d), ~Owes(c, d)'
      PROVE  Cardinality(Owing(d)') <= Cardinality(Owing(d)) - 1
  <2>1. Owing(d)' \subseteq Owing(d) \ {c} /\ c \in Owing(d)
    BY <1>5, OthersOwe DEF Owing
  <2>2. IsFiniteSet(Owing(d) \ {c}) /\ Cardinality(Owing(d) \ {c}) = Cardinality(Owing(d)) - 1
    BY <1>1, <2>1, FS_RemoveElement
  <2>3. Cardinality(Owing(d)') <= Cardinality(Owing(d) \ {c})
    BY <2>1, <2>2, FS_Subset
  <2> QED
    BY <2>2, <2>3
<1> QED
  BY <1>3, <1>4, <1>5

(* A call authorizes a dispute only once it has read it as PENDING, and    *)
(* its hold is the last that it does about it.                             *)
LEMMA Joins ==
  ASSUME Machine!TypeOK, ServiceInv, NEW c \in Callers, Request(c) \/ Proceed(c),
         NEW d \in Disputes
  PROVE  /\ c \in Authorizers(d)' => c \in Authorizers(d) \/ status[d] = "PENDING"
         /\ holds'[d] # holds[d] => c \notin Authorizers(d)'
<1> DEFINE Goal1 == c \in Authorizers(d)' => c \in Authorizers(d) \/ status[d] = "PENDING"
           Goal2 == holds'[d] # holds[d] => c \notin Authorizers(d)'
           Out == c \notin Authorizers(d)'
<1>1. Out => Goal1 /\ Goal2
  OBVIOUS
<1>2. CASE Request(c)
  <2>1. pc'[c] = "begin"
    BY <1>2 DEF Request, CreateDispute, AuthorizeDispute, InitiateDispute, ReverseDispute,
                SettleTransaction, Start, ServiceInv, ServiceTypes
  <2> QED
    BY <1>1, <2>1 DEF Authorizers
<1>3. CASE \E e \in Disputes : InsertDispute(c, e) \/ SettleNext(c, e)
  <2>1. PICK e \in Disputes : InsertDispute(c, e) \/ SettleNext(c, e)
    BY <1>3
  <2>2. call[c].op \in {"create", "settle"} /\ call'[c].op = call[c].op
    BY <2>1 DEF InsertDispute, SettleNext, Continue, ServiceInv, ServiceTypes, CallShape, Call
  <2> QED
    BY <1>1, <2>2 DEF Authorizers
<1>4. ASSUME NEW e \in Disputes, ReadDispute(c, e)
      PROVE  Goal1 /\ Goal2
  <2>1. /\ UNCHANGED <<status, holds, call>> /\ e \in call[c].on /\ CallShape(c)
        /\ CanRead(call[c].op, e) /\ call[c].op \in One
    BY <1>4 DEF ReadDispute, tables, ServiceInv, One
  <2>2. ASSUME c \in Authorizers(d)'
        PROVE  status[d] = "PENDING"
    <3>1. call[c].op = "authorize" /\ d \in call[c].on
      BY <2>1, <2>2 DEF Authorizers
    <3>2. d = e
      BY <2>1, <3>1 DEF CallShape
    <3> QED
      BY <2>1, <3>1, <3>2 DEF CanRead, Allows
  <2> QED
    BY <2>1, <2>2
<1>5. CASE ReadDisputes(c)
  <2>1. PICK open : call' = [call EXCEPT ![c].on = open, ![c].left = open]
    BY <1>5 DEF ReadDisputes
  <2>2. call \in [Callers -> Call] /\ call[c].op = "settle"
    BY <1>5 DEF ReadDisputes, ServiceInv, ServiceTypes
  <2>3. call'[c].op = "settle"
    BY <2>1, <2>2 DEF Call
  <2> QED
    BY <1>1, <2>3 DEF Authorizers
<1>6. CASE Refuse(c) \/ DatabaseFails(c) \/ Succeed(c) \/ TransitionFails(c) \/ InitiateDone(c)
             \/ Commit(c)
  <2>1. pc'[c] \in {"idle", "ok"}
    BY <1>6 DEF Refuse, DatabaseFails, Succeed, Fail, TransitionFails, InitiateDone, Commit,
                Continue, End, ServiceInv, ServiceTypes
  <2> QED
    BY <1>1, <2>1 DEF Authorizers
<1>7. CASE SettleDone(c) \/ ReverseDone(c)
  <2>1. call[c].op # "authorize"
    BY <1>7 DEF SettleDone, ReverseDone, ReturnedOk
  <2>2. call'[c] = call[c] \/ call'[c] = NoCall
    BY <1>7 DEF SettleDone, ReverseDone, Continue, End, ServiceInv, ServiceTypes
  <2> QED
    BY <1>1, <2>1, <2>2 DEF Authorizers, NoCall
<1>8. CASE ApplyFundsHold(c) \/ UpdateFraudReserve(c) \/ TransitionStep(c)
  <2>1. /\ pc[c] \in {"transition", "reserve", "commit"}
        /\ UNCHANGED <<status, holds>>
        /\ call'[c].op = call[c].op /\ call'[c].on = call[c].on
    <3>1. CASE ApplyFundsHold(c)
      BY <3>1 DEF ApplyFundsHold, ReturnedOk, Returned, ServiceInv, ServiceTypes, Call
    <3>2. CASE UpdateFraudReserve(c)
      BY <3>2 DEF UpdateFraudReserve, Continue, tables
    <3>3. CASE TransitionStep(c)
      <4>1. step[c] # "idle" /\ CallShape(c)
        BY <3>3, GoesOn DEF TransitionStep, ServiceInv
      <4> QED
        BY <3>3, <4>1 DEF TransitionStep, tables, calls, CallShape
    <3> QED
      BY <1>8, <3>1, <3>2, <3>3
  <2> QED
    BY <2>1 DEF Authorizers
<1> QED
  BY <1>2, <1>3, <1>4, <1>5, <1>6, <1>7, <1>8 DEF Proceed

(* So nobody begins to authorize a dispute that has ended, and who holds   *)
(* for it authorizes it no more.                                           *)
LEMMA AuthorizersStep ==
  ASSUME Machine!TypeOK, ServiceInv, NEW c \in Callers, Request(c) \/ Proceed(c),
         NEW d \in Disputes, status[d] = "REVERSED"
  PROVE  /\ Cardinality(Authorizers(d)') <= Cardinality(Authorizers(d))
         /\ holds'[d] # holds[d] /\ Owes(c, d)
              => Cardinality(Authorizers(d)') <= Cardinality(Authorizers(d)) - 1
<1>1. \A b \in Callers \ {c} : b \in Authorizers(d)' <=> b \in Authorizers(d)
  BY OthersStay DEF ServiceInv, Local, Authorizers
<1>2. Authorizers(d)' \subseteq Authorizers(d)
  <2>1. c \in Authorizers(d)' => c \in Authorizers(d)
    BY Joins
  <2>2. Authorizers(d)' \subseteq Callers
    BY DEF Authorizers
  <2> QED
    BY <1>1, <2>1, <2>2
<1>3. IsFiniteSet(Authorizers(d)) /\ Cardinality(Authorizers(d)) \in Nat
  BY AuthorizersFinite DEF AuthorizersType
<1>4. Cardinality(Authorizers(d)') <= Cardinality(Authorizers(d))
  BY <1>2, <1>3, FS_Subset
<1>5. ASSUME holds'[d] # holds[d], Owes(c, d)
      PROVE  Cardinality(Authorizers(d)') <= Cardinality(Authorizers(d)) - 1
  <2>1. c \notin Authorizers(d)' /\ c \in Authorizers(d)
    BY <1>5, Joins DEF Owes, Authorizers
  <2>2. Authorizers(d)' \subseteq Authorizers(d) \ {c}
    BY <1>2, <2>1
  <2>3. /\ IsFiniteSet(Authorizers(d) \ {c})
        /\ Cardinality(Authorizers(d) \ {c}) = Cardinality(Authorizers(d)) - 1
    BY <1>3, <2>1, FS_RemoveElement
  <2>4. Cardinality(Authorizers(d)') <= Cardinality(Authorizers(d) \ {c})
    BY <2>2, <2>3, FS_Subset
  <2> QED
    BY <2>3, <2>4
<1> QED
  BY <1>4, <1>5

(* The strengthening: the holds that are owed count, too.                  *)
HoldsOf(d) ==
  /\ status[d] = "none" => Total(d) = 0
  /\ status[d] # "none" => Total(d) + Cardinality(Owing(d)) <= 1 + Authorizations(d)
  /\ holds[d].released > 0 <=> status[d] = "REVERSED"
  /\ status[d] = "REVERSED" => holds[d].active + Cardinality(Authorizers(d)) <= late[d]

HoldInv == \A d \in Disputes : HoldsOf(d)

LEMMA CallHolds ==
  ASSUME Machine!TypeOK, Machine!TypeOK', ServiceInv, ServiceInv', NEW d \in Disputes, HoldsOf(d),
         LateInv, NEW c \in Callers, Request(c) \/ Proceed(c)
  PROVE  HoldsOf(d)'
<1>0. /\ Cardinality(Authorizers(d)) \in Nat /\ Cardinality(Authorizers(d)') \in Nat
      /\ late[d] \in Nat /\ late'[d] = late[d]
      /\ status[d] = "REVERSED" =>
           /\ Cardinality(Authorizers(d)') <= Cardinality(Authorizers(d))
           /\ holds'[d] # holds[d] /\ Owes(c, d)
                => Cardinality(Authorizers(d)') <= Cardinality(Authorizers(d)) - 1
  BY AuthorizersFinite, AuthorizersStep, CallLate DEF AuthorizersType, LateInv
<1>1. /\ holds[d].active \in Nat /\ holds[d].released \in Nat
      /\ Total(d) = holds[d].active + holds[d].released
  BY HoldTypes DEF ServiceInv, Total
<1>2. Total(d)' = holds'[d].active + holds'[d].released
  BY DEF Total
<1>3. Cardinality(Owing(d)) \in Nat /\ Cardinality(Owing(d))' \in Nat
  BY OwingType
<1>4. Authorizations(d) \in Nat
  BY AuthorizationsType
<1>5. /\ Cardinality(Owing(d))' <= Cardinality(Owing(d)) + 1
      /\ (Owes(c, d)' => Owes(c, d)) => Cardinality(Owing(d))' <= Cardinality(Owing(d))
      /\ (Owes(c, d) /\ ~Owes(c, d)') => Cardinality(Owing(d))' <= Cardinality(Owing(d)) - 1
  BY OwingStep
<1>6. holds[d] \in [active: Nat, released: Nat]
  BY DEF ServiceInv, ServiceTypes
<1>7. CASE UNCHANGED <<status[d], holds[d]>> /\ Authorizations(d)' = Authorizations(d)
             /\ (Owes(c, d)' => Owes(c, d))
  BY <1>0, <1>1, <1>2, <1>3, <1>4, <1>5, <1>7 DEF HoldsOf
<1>8. CASE UNCHANGED <<status[d], holds[d]>> /\ Authorizations(d)' = Authorizations(d) + 1
  BY <1>0, <1>1, <1>2, <1>3, <1>4, <1>5, <1>8 DEF HoldsOf
<1>9. CASE /\ status'[d] = status[d] /\ status[d] # "none"
           /\ holds'[d] = [holds[d] EXCEPT !.active = @ + 1]
           /\ Authorizations(d)' = Authorizations(d)
           /\ Owes(c, d) /\ ~Owes(c, d)'
  <2>1. /\ holds'[d].active = holds[d].active + 1 /\ holds'[d].released = holds[d].released
        /\ holds'[d] # holds[d]
    BY <1>1, <1>6, <1>9
  <2> QED
    BY <1>0, <1>1, <1>2, <1>3, <1>4, <1>5, <1>9, <2>1 DEF HoldsOf
<1>10. CASE /\ status[d] = "none" /\ status'[d] = "PENDING"
            /\ holds'[d] = [holds[d] EXCEPT !.active = @ + 1]
            /\ Authorizations(d)' = Authorizations(d)
            /\ ~Owes(c, d)'
  <2>1. holds'[d].active = holds[d].active + 1 /\ holds'[d].released = holds[d].released
    BY <1>6, <1>10
  <2>2. \A b \in Callers : ~Owes(b, d)
    BY <1>10 DEF Owes, ServiceInv, Claims, One
  <2>3. Owing(d)' = {}
    BY <1>10, <2>2, OthersOwe DEF Owing
  <2>4. Cardinality(Owing(d))' = 0
    BY <2>3, FS_EmptySet
  <2> QED
    BY <1>1, <1>2, <1>3, <1>4, <1>10, <2>1, <2>4 DEF HoldsOf
<1> QED
  BY <1>7, <1>8, <1>9, <1>10, CallSettles DEF Settles

LEMMA UpdateHolds ==
  ASSUME Machine!TypeOK, ServiceInv, LateInv, NEW d \in Disputes, HoldsOf(d),
         NEW e \in Disputes, NEW to \in Machine!States, UpdateStatus(e, to)
  PROVE  HoldsOf(d)'
<1>1. /\ holds[d].active \in Nat /\ holds[d].released \in Nat
      /\ Total(d) = holds[d].active + holds[d].released
      /\ Total(d)' = holds'[d].active + holds'[d].released
  BY HoldTypes DEF ServiceInv, Total
<1>2. Cardinality(Owing(d)) \in Nat /\ Authorizations(d) \in Nat
  BY OwingType, AuthorizationsType
<1>3. UNCHANGED <<Cardinality(Owing(d)), Authorizations(d), Cardinality(Authorizers(d))>>
  BY DEF UpdateStatus, calls, machine, Owing, Owes, Authorizations, Authorizers
<1>0. Cardinality(Authorizers(d)) \in Nat
  BY AuthorizersFinite DEF AuthorizersType
<1>4. CASE e # d
  <2>1. UNCHANGED <<status[d], holds[d], late[d]>>
    BY <1>4 DEF UpdateStatus, ServiceInv, ServiceTypes, LateInv
  <2> QED
    BY <1>1, <1>3, <2>1 DEF HoldsOf
<1>5. CASE e = d
  <2>1. status'[d] = to /\ holds'[d] = HoldsAfter(d, to) /\ ValidTransition(status[d], to)
    BY <1>5 DEF UpdateStatus, ServiceInv, ServiceTypes
  <2>2. status[d] \notin {"none", "REVERSED"} /\ to # "none"
    BY <2>1 DEF ValidTransition, Machine!IsValidTransition, Machine!States, Machine!AllowedTransitions
  <2>3. Total(d) >= 1
    BY <2>2 DEF ServiceInv, Rows, Total
  <2>4. CASE to = "REVERSED"
    <3>1. holds'[d] = [active |-> 0, released |-> holds[d].released + holds[d].active]
      BY <2>1, <2>4 DEF HoldsAfter
    <3>2. holds'[d].active = 0 /\ holds'[d].released = holds[d].released + holds[d].active
      BY <3>1
    <3>3. late'[d] = Cardinality(Authorizers(d))
      BY <1>5, <2>4 DEF UpdateStatus, LateInv
    <3> QED
      BY <1>0, <1>1, <1>2, <1>3, <2>1, <2>2, <2>3, <2>4, <3>2, <3>3 DEF HoldsOf
  <2>5. CASE to # "REVERSED"
    <3>1. holds'[d] = holds[d]
      BY <2>1, <2>5 DEF HoldsAfter
    <3> QED
      BY <1>1, <1>2, <1>3, <2>1, <2>2, <2>5, <3>1 DEF HoldsOf
  <2> QED
    BY <2>4, <2>5
<1> QED
  BY <1>4, <1>5

LEMMA HoldsStep ==
  Machine!TypeOK /\ Machine!TypeOK' /\ ServiceInv /\ ServiceInv' /\ LateInv /\ HoldInv /\ [Next]_vars
    => HoldInv'
<1> SUFFICES ASSUME Machine!TypeOK, Machine!TypeOK', ServiceInv, ServiceInv', LateInv, HoldInv,
                    [Next]_vars,
                    NEW d \in Disputes
             PROVE  HoldsOf(d)'
  BY DEF HoldInv
<1>1. HoldsOf(d)
  BY DEF HoldInv
<1>2. ASSUME UNCHANGED <<status, holds, late, history, pc, call, step, outcome>>
      PROVE  HoldsOf(d)'
  BY <1>1, <1>2 DEF HoldsOf, Total, Owing, Owes, Authorizations, Authorizers
<1>3. ASSUME NEW v \in Validators, OpenRows(v) \/ CloseRows(v) \/ DeadlinePasses(v)
      PROVE  HoldsOf(d)'
  BY <1>2, <1>3 DEF OpenRows, CloseRows, DeadlinePasses, tables, calls, machine
<1>4. CASE UNCHANGED vars
  BY <1>2, <1>4 DEF vars, tables, calls, machine
<1> QED
  BY <1>1, <1>3, <1>4, CallHolds, UpdateHolds DEF Next

(* A dispute has a hold of its creation and at most one of each time it    *)
(* was authorized, released only and all with the dispute, whoever races   *)
(* and fails; what is held of a dispute after its end, authorizations hold *)
(* that had begun before.                                                  *)
THEOREM ServiceHolds == Spec => []HoldsAreAccountedFor
<1>1. Init => HoldInv
  <2> SUFFICES ASSUME Init, NEW d \in Disputes
               PROVE  HoldsOf(d)
    BY DEF HoldInv, HoldsOf
  <2>1. status[d] = "none" /\ holds[d] = [active |-> 0, released |-> 0]
    BY DEF Init
  <2> QED
    BY <2>1 DEF HoldsOf, Total
<1>2. Machine!TypeOK /\ ServiceInv /\ LateInv /\ HoldInv => HoldsAreAccountedFor
  <2> SUFFICES ASSUME Machine!TypeOK, ServiceInv, LateInv, HoldInv, NEW d \in Disputes
               PROVE  LET total == holds[d].active + holds[d].released IN
                      /\ status[d] = "none" => total = 0
                      /\ status[d] # "none" => total \in 1..1 + Authorizations(d)
                      /\ holds[d].released > 0 <=> status[d] = "REVERSED"
                      /\ status[d] = "REVERSED" => holds[d].active <= late[d]
    BY Zenon DEF HoldsAreAccountedFor
  <2>1. HoldsOf(d)
    BY DEF HoldInv
  <2>2. /\ Cardinality(Owing(d)) \in Nat /\ Authorizations(d) \in Nat
        /\ Cardinality(Authorizers(d)) \in Nat /\ late[d] \in Nat
    BY OwingType, AuthorizationsType, AuthorizersFinite DEF AuthorizersType, LateInv
  <2>3. holds[d].active \in Nat /\ holds[d].released \in Nat
    BY HoldTypes DEF ServiceInv
  <2>4. status[d] # "none" => Total(d) >= 1
    BY DEF ServiceInv, Rows, Total
  <2> QED
    BY <2>1, <2>2, <2>3, <2>4 DEF HoldsOf, Total
<1>3. Init => LateInv
  BY DEF Init, LateInv
<1> QED
  BY <1>1, <1>2, <1>3, HoldsStep, LateStep, ServiceAlways, MachineTypes, PTL DEF Spec

-----------------------------------------------------------------------------
(* The reserves.                                                           *)

(* What each dispute's holds have added to the reserve of its merchant.    *)
Added == [d \in Disputes |-> Rate * Asked[d].amount * Total(d)]

Of(m) == {d \in Disputes : Asked[d].merchant = m}

Debt(m) == SumOver(Added, Of(m))

(* A call that has read the reserve of its merchant and has not committed. *)
Reads(c) == pc[c] \in {"reserve", "commit"} /\ call[c].op \in {"create", "authorize"}

(* The strengthening: what such a call has read is no more than is due,    *)
(* and is the reserve unless another call is as far.                       *)
Basis(c) ==
  Reads(c) =>
    /\ MerchantOf(c) \in Merchants
    /\ call[c].base <= Opening[MerchantOf(c)] + Debt(MerchantOf(c))
    /\ MerchantOf(c) \notin overlapped =>
         /\ call[c].base = reserve[MerchantOf(c)]
         /\ \A b \in Callers \ {c} : Reads(b) => MerchantOf(b) # MerchantOf(c)

ReserveOf(m) ==
  /\ reserve[m] <= Opening[m] + Debt(m)
  /\ m \notin overlapped => reserve[m] = Opening[m] + Debt(m)

ReserveInv ==
  /\ \A m \in Merchants : ReserveOf(m)
  /\ \A c \in Callers : Basis(c)

LEMMA DueIsDebt ==
  ASSUME NEW m
  PROVE  Due(m) = Debt(m)
<1> DEFINE S == Of(m)
           F(g) == [s \in SUBSET S |->
                      IF s = {} THEN 0
                      ELSE Rate * Asked[Pick(s)].amount
                             * (holds[Pick(s)].active + holds[Pick(s)].released) + g[s \ {Pick(s)}]]
           G(g) == [s \in SUBSET S |-> IF s = {} THEN 0 ELSE Added[Pick(s)] + g[s \ {Pick(s)}]]
<1>1. \A g : F(g) = G(g)
  <2>1. \A s \in SUBSET S : s # {} =>
          Added[Pick(s)] = Rate * Asked[Pick(s)].amount
                             * (holds[Pick(s)].active + holds[Pick(s)].released)
    BY PickIn DEF Added, Total, Of
  <2> QED
    BY <2>1
<1>2. Due(m) = (CHOOSE g : g = F(g))[S]
  BY DEF Due, Of, Pick
<1>3. Debt(m) = (CHOOSE g : g = G(g))[S]
  BY DEF Debt, SumOver, Sums, IsSum
<1> HIDE DEF F, G
<1>4. \A g : (g = F(g)) <=> (g = G(g))
  BY <1>1
<1>5. (CHOOSE g : g = F(g)) = (CHOOSE g : g = G(g))
  BY <1>4
<1> QED
  BY <1>2, <1>3, <1>5

LEMMA DebtType ==
  ASSUME IsFiniteSet(Disputes), ServiceInv, NEW m
  PROVE  /\ IsFiniteSet(Of(m)) /\ Of(m) \subseteq Disputes
         /\ \A d \in Disputes : Added[d] \in Int
         /\ Debt(m) \in Int
<1>1. IsFiniteSet(Of(m)) /\ Of(m) \subseteq Disputes
  BY FS_Subset DEF Of
<1>2. ASSUME NEW d \in Disputes
      PROVE  Added[d] \in Int
  <2>1. PICK r \in Int, a \in Int, n \in Int : r = Rate /\ a = Asked[d].amount /\ n = Total(d)
    <3>1. Rate \in Int /\ Asked[d].amount \in Int
      BY ServiceAssumption
    <3>2. Total(d) \in Int
      BY HoldTypes DEF ServiceInv
    <3> QED
      BY <3>1, <3>2
  <2>2. r * a \in Int
    BY <2>1
  <2>3. (r * a) * n \in Int
    BY <2>1, <2>2
  <2> QED
    BY <2>1, <2>3 DEF Added
<1> QED
  BY <1>1, <1>2, SumInt DEF Debt

(* One hold more of a dispute adds its increment to its merchant's debt.   *)
LEMMA DebtGrows ==
  ASSUME IsFiniteSet(Disputes), ServiceInv, ServiceInv', NEW d \in Disputes,
         Total(d)' = Total(d) + 1, \A e \in Disputes \ {d} : Total(e)' = Total(e), NEW m
  PROVE  Debt(m)' = Debt(m) + (IF Asked[d].merchant = m THEN Rate * Asked[d].amount ELSE 0)
<1>1. /\ IsFiniteSet(Of(m)) /\ Of(m) \subseteq Disputes
      /\ \A e \in Disputes : Added[e] \in Int
  BY DebtType
<1>2. \A e \in Disputes \ {d} : Added'[e] = Added[e]
  BY DEF Added
<1>3. Added'[d] = Added[d] + Rate * Asked[d].amount /\ Rate * Asked[d].amount \in Int
  <2>1. PICK r \in Int, a \in Int, n \in Int : r = Rate /\ a = Asked[d].amount /\ n = Total(d)
    BY ServiceAssumption, HoldTypes DEF ServiceInv
  <2>2. PICK p \in Int : p = r * a
    BY <2>1
  <2>3. p * (n + 1) = p * n + p
    BY <2>1, <2>2
  <2>4. Added'[d] = p * (n + 1) /\ Added[d] = p * n
    BY <2>1, <2>2 DEF Added
  <2> QED
    BY <2>1, <2>2, <2>3, <2>4
<1>4. Debt(m)' = SumOver(Added', Of(m))
  BY DEF Debt
<1>5. CASE d \notin Of(m)
  <2>1. SumOver(Added', Of(m)) = SumOver(Added, Of(m))
    BY <1>1, <1>2, <1>5, SumSame
  <2>2. Asked[d].merchant # m
    BY <1>5 DEF Of
  <2>3. Debt(m) \in Int
    BY DebtType
  <2> QED
    BY <1>4, <2>1, <2>2, <2>3 DEF Debt
<1>6. CASE d \in Of(m)
  <2> DEFINE rest == Of(m) \ {d}
  <2>1. SumOver(Added', rest) = SumOver(Added, rest)
    BY <1>1, <1>2, SumSame
  <2>2. \A e \in Of(m) : Added[e] \in Int /\ Added'[e] \in Int
    BY <1>1, <1>2, <1>3
  <2>3. SumOver(Added, Of(m)) = Added[d] + SumOver(Added, rest)
    BY <1>1, <1>6, <2>2, SumWithout
  <2>4. SumOver(Added', Of(m)) = Added'[d] + SumOver(Added', rest)
    BY <1>1, <1>6, <2>2, SumWithout
  <2>5. SumOver(Added, rest) \in Int
    <3>1. IsFiniteSet(rest)
      BY <1>1, FS_Subset
    <3> QED
      BY <2>2, <3>1, SumInt
  <2>6. Asked[d].merchant = m
    BY <1>6 DEF Of
  <2> HIDE DEF rest
  <2> QED
    BY <1>1, <1>3, <1>4, <2>1, <2>3, <2>4, <2>5, <2>6 DEF Debt
<1> QED
  BY <1>5, <1>6

LEMMA DebtStays ==
  ASSUME \A e \in Disputes : Total(e)' = Total(e), NEW m
  PROVE  Debt(m)' = Debt(m)
<1>1. Added' = Added
  BY DEF Added
<1> QED
  BY <1>1 DEF Debt

(* A step that adds nothing, and lets nobody read.                         *)
LEMMA ReserveKept ==
  ASSUME ReserveInv, UNCHANGED <<reserve, overlapped>>, \A d \in Disputes : Total(d)' = Total(d),
         \A c \in Callers : Reads(c)' => Reads(c) /\ call'[c] = call[c]
  PROVE  ReserveInv'
<1>1. \A m : Debt(m)' = Debt(m)
  BY DebtStays
<1>2. \A m \in Merchants : ReserveOf(m)'
  BY <1>1 DEF ReserveInv, ReserveOf
<1>3. ASSUME NEW c \in Callers, Reads(c)'
      PROVE  Reads(c) /\ call'[c] = call[c] /\ MerchantOf(c)' = MerchantOf(c)
  BY <1>3 DEF MerchantOf
<1>4. ASSUME NEW c \in Callers
      PROVE  Basis(c)'
  <2> SUFFICES ASSUME Reads(c)'
               PROVE  Basis(c)'
    BY DEF Basis
  <2>1. Basis(c) /\ Reads(c) /\ call'[c] = call[c] /\ MerchantOf(c)' = MerchantOf(c)
    BY <1>3 DEF ReserveInv
  <2>2. \A b \in Callers : Reads(b)' => Reads(b) /\ MerchantOf(b)' = MerchantOf(b)
    BY <1>3
  <2> HIDE DEF MerchantOf
  <2> QED
    BY <1>1, <2>1, <2>2 DEF Basis
<1> QED
  BY <1>2, <1>4 DEF ReserveInv

LEMMA ApplyKeepsReserve ==
  ASSUME IsFiniteSet(Disputes), Machine!TypeOK, ServiceInv, ReserveInv, NEW c \in Callers,
         ApplyFundsHold(c)
  PROVE  ReserveInv'
<1> DEFINE m == MerchantOf(c)
<1>1. /\ m \in Merchants
      /\ pc' = [pc EXCEPT ![c] = "reserve"]
      /\ call' = [call EXCEPT ![c].base = reserve[m]]
      /\ overlapped' = overlapped \cup {n \in {m} : \E b \in Callers \ {c} : OfReserve(b, n)}
      /\ UNCHANGED <<status, holds, reserve>>
      /\ call[c].op \in {"create", "authorize"} /\ pc[c] = "transition"
  BY DEF ApplyFundsHold, CanHold, Continue, ReturnedOk, Returned
<1>2. /\ call'[c].op = call[c].op /\ call'[c].on = call[c].on /\ call'[c].base = reserve[m]
      /\ pc'[c] = "reserve"
      /\ \A b \in Callers \ {c} : call'[b] = call[b] /\ pc'[b] = pc[b]
  BY <1>1 DEF ServiceInv, ServiceTypes, Call
<1>3. \A b \in Callers : MerchantOf(b)' = MerchantOf(b)
  BY <1>2 DEF MerchantOf
<1>4. \A b \in Callers \ {c} : Reads(b)' <=> Reads(b)
  BY <1>2 DEF Reads
<1>5. \A b \in Callers \ {c} : Reads(b) /\ MerchantOf(b) = m => m \in overlapped'
  BY <1>1 DEF Reads, OfReserve
<1>6. overlapped \subseteq overlapped'
  BY <1>1
<1>7. \A n : Debt(n)' = Debt(n)
  BY <1>1, DebtStays DEF Total
<1>8. \A n \in Merchants : ReserveOf(n)'
  BY <1>1, <1>6, <1>7 DEF ReserveInv, ReserveOf
<1> HIDE DEF m
<1>9. ReserveOf(m)
  BY <1>1 DEF ReserveInv
<1>10. Basis(c)'
  BY <1>1, <1>2, <1>3, <1>4, <1>5, <1>7, <1>9 DEF Basis, ReserveOf, m
<1>11. ASSUME NEW b \in Callers \ {c}
       PROVE  Basis(b)'
  <2> SUFFICES ASSUME Reads(b)'
               PROVE  Basis(b)'
    BY DEF Basis
  <2>1. Basis(b) /\ Reads(b) /\ call'[b] = call[b]
    BY <1>2, <1>4 DEF ReserveInv
  <2>2. MerchantOf(b) \notin overlapped' => MerchantOf(b) \notin overlapped /\ MerchantOf(b) # m
    BY <1>5, <1>6, <2>1
  <2>3. MerchantOf(c) = m
    BY DEF m
  <2> HIDE DEF MerchantOf
  <2> QED
    BY <1>1, <1>3, <1>4, <1>7, <2>1, <2>2, <2>3 DEF Basis
<1> QED
  BY <1>8, <1>10, <1>11 DEF ReserveInv

LEMMA CommitKeepsReserve ==
  ASSUME IsFiniteSet(Disputes), Machine!TypeOK, ServiceInv, ServiceInv', ReserveInv,
         NEW c \in Callers, Commit(c), call[c].op \in {"create", "authorize"}
  PROVE  ReserveInv'
<1> DEFINE m == MerchantOf(c)
<1>1. /\ pc[c] = "commit"
      /\ UNCHANGED overlapped
      /\ reserve' = [reserve EXCEPT ![m] = NewReserve(c)]
      /\ holds' = [d \in Disputes |->
             IF d \in call[c].on THEN [holds[d] EXCEPT !.active = @ + 1] ELSE holds[d]]
  BY DEF Commit
<1>2. CallShape(c) /\ Claims(c) /\ call[c].base \in Nat
  BY DEF ServiceInv, ServiceTypes, Call
<1>3. PICK d \in Disputes : call[c].on = {d}
  BY <1>2 DEF CallShape, One
<1>4. m = Asked[d].merchant
  <2>1. {Asked[x].merchant : x \in call[c].on} = {Asked[d].merchant}
    BY <1>3
  <2> QED
    BY <2>1 DEF MerchantOf
<1>5. NewReserve(c) = call[c].base + Rate * Asked[d].amount
  <2>1. (CHOOSE x \in call[c].on : TRUE) = d
    BY <1>3
  <2> QED
    BY <2>1 DEF NewReserve, Increment
<1>6. Rate * Asked[d].amount \in Nat
  <2>1. ValidRequest(d)
    BY <1>1, <1>2, <1>3 DEF Claims, ServiceInv, ValidRows, One
  <2>2. PICK r \in Nat, a \in Nat : r = Rate /\ a = Asked[d].amount
    BY <2>1, ServiceAssumption DEF ValidRequest, ValidateDisputeRequest
  <2>3. r * a \in Nat
    BY <2>2
  <2> QED
    BY <2>2, <2>3
<1>7. Total(d)' = Total(d) + 1 /\ \A e \in Disputes \ {d} : Total(e)' = Total(e)
  <2>1. holds[d] \in [active: Nat, released: Nat]
    BY DEF ServiceInv, ServiceTypes
  <2>2. holds'[d].active = holds[d].active + 1 /\ holds'[d].released = holds[d].released
    BY <1>1, <1>3, <2>1
  <2>3. holds[d].active \in Nat /\ holds[d].released \in Nat
    BY <2>1
  <2>4. \A e \in Disputes \ {d} : holds'[e] = holds[e]
    BY <1>1, <1>3
  <2> QED
    BY <2>2, <2>3, <2>4 DEF Total
<1>8. \A n : Debt(n)' = Debt(n) + (IF m = n THEN Rate * Asked[d].amount ELSE 0)
  BY <1>4, <1>7, DebtGrows
<1>9. \A n : Debt(n) \in Int
  BY DebtType
<1>10. \A b \in Callers \ {c} : UNCHANGED <<pc[b], call[b]>>
  BY OthersStay DEF ServiceInv, Local, Proceed
<1>11. pc'[c] \in {"idle", "ok"}
  BY DEF Commit, End, ServiceInv, ServiceTypes
<1>12. Basis(c) /\ Reads(c)
  BY <1>1 DEF ReserveInv, Reads
<1>13. ASSUME NEW b \in Callers \ {c}
       PROVE  /\ Reads(b)' <=> Reads(b)
              /\ MerchantOf(b)' = MerchantOf(b)
  BY <1>10 DEF Reads, MerchantOf
<1>14. ~Reads(c)'
  BY <1>11 DEF Reads
<1>15. /\ m \in Merchants
       /\ call[c].base <= Opening[m] + Debt(m)
       /\ m \notin overlapped =>
            /\ call[c].base = reserve[m]
            /\ \A b \in Callers \ {c} : Reads(b) => MerchantOf(b) # m
  BY <1>12 DEF Basis
<1> HIDE DEF m
<1> DEFINE p == Rate * Asked[d].amount
<1> HIDE DEF p
<1>16. p \in Nat /\ NewReserve(c) = call[c].base + p /\ \A n : Debt(n)' = Debt(n) + (IF m = n THEN p ELSE 0)
  BY <1>5, <1>6, <1>8 DEF p
<1>17. ASSUME NEW n \in Merchants
       PROVE  ReserveOf(n)'
  <2>1. ReserveOf(n) /\ Opening[n] \in Nat /\ Debt(n) \in Int /\ reserve[n] \in Nat
    BY <1>9, ServiceAssumption DEF ReserveInv, ServiceInv, ServiceTypes
  <2>2. CASE n # m
    <3>1. reserve'[n] = reserve[n] /\ Debt(n)' = Debt(n)
      BY <1>1, <1>16, <2>1, <2>2 DEF ServiceInv, ServiceTypes
    <3> QED
      BY <1>1, <2>1, <3>1 DEF ReserveOf
  <2>3. CASE n = m
    <3>1. reserve'[n] = call[c].base + p /\ Debt(n)' = Debt(n) + p
      BY <1>1, <1>16, <2>3 DEF ServiceInv, ServiceTypes
    <3> QED
      BY <1>1, <1>2, <1>15, <1>16, <2>1, <2>3, <3>1 DEF ReserveOf
  <2> QED
    BY <2>2, <2>3
<1>18. ASSUME NEW b \in Callers \ {c}
       PROVE  Basis(b)'
  <2> SUFFICES ASSUME Reads(b)'
               PROVE  Basis(b)'
    BY DEF Basis
  <2> DEFINE n == MerchantOf(b)
  <2>1. Basis(b) /\ Reads(b) /\ call'[b] = call[b] /\ n' = n
    BY <1>10, <1>13 DEF ReserveInv
  <2>2. n \in Merchants /\ call[b].base <= Opening[n] + Debt(n)
    BY <2>1 DEF Basis
  <2>3. Opening[n] \in Nat /\ Debt(n) \in Int /\ call[b].base \in Nat
    BY <1>9, <2>2, ServiceAssumption DEF ServiceInv, ServiceTypes, Call
  <2>4. n \notin overlapped => n # m
    BY <1>12, <1>15, <2>1
  <2> HIDE DEF n
  <2>5. call'[b].base <= Opening[n] + Debt(n)'
    BY <1>16, <2>1, <2>2, <2>3
  <2>6. ASSUME n \notin overlapped'
        PROVE  /\ call'[b].base = reserve'[n]
               /\ \A a \in Callers \ {b} : Reads(a)' => MerchantOf(a)' # n
    <3>1. n \notin overlapped /\ n # m
      BY <1>1, <2>4, <2>6
    <3>2. reserve'[n] = reserve[n]
      BY <1>1, <2>2, <3>1 DEF ServiceInv, ServiceTypes
    <3>3. call[b].base = reserve[n] /\ \A a \in Callers \ {b} : Reads(a) => MerchantOf(a) # n
      BY <2>1, <3>1 DEF Basis, n
    <3>4. ASSUME NEW a \in Callers \ {b}, Reads(a)'
          PROVE  MerchantOf(a)' # n
      <4>1. a # c
        BY <1>14, <3>4
      <4> QED
        BY <1>13, <3>3, <3>4, <4>1
    <3> QED
      BY <2>1, <3>2, <3>3, <3>4
  <2> QED
    BY <2>1, <2>2, <2>5, <2>6 DEF Basis, n
<1>19. Basis(c)'
  BY <1>14 DEF Basis
<1> QED
  BY <1>17, <1>18, <1>19 DEF ReserveInv

LEMMA ProceedKeepsReserve ==
  ASSUME IsFiniteSet(Disputes), Machine!TypeOK, ServiceInv, ServiceInv', ReserveInv,
         NEW c \in Callers, Request(c) \/ Proceed(c)
  PROVE  ReserveInv'
<1>1. \A b \in Callers \ {c} : UNCHANGED <<pc[b], call[b]>>
  BY OthersStay DEF ServiceInv, Local
<1>2. ASSUME UNCHANGED <<holds, reserve, overlapped>>,
             Reads(c)' => Reads(c) /\ call'[c] = call[c]
      PROVE  ReserveInv'
  <2>1. \A b \in Callers : Reads(b)' => Reads(b) /\ call'[b] = call[b]
    BY <1>1, <1>2 DEF Reads
  <2>2. \A d \in Disputes : Total(d)' = Total(d)
    BY <1>2 DEF Total
  <2> QED
    BY <1>2, <2>1, <2>2, ReserveKept
<1>3. CASE Request(c)
  <2>1. pc'[c] = "begin" /\ UNCHANGED <<holds, reserve, overlapped>>
    BY <1>3 DEF Request, CreateDispute, AuthorizeDispute, InitiateDispute, ReverseDispute,
                SettleTransaction, Start, ServiceInv, ServiceTypes, tables
  <2> QED
    BY <1>2, <2>1 DEF Reads
<1>4. ASSUME NEW d \in Disputes, InsertDispute(c, d) \/ ReadDispute(c, d) \/ SettleNext(c, d)
      PROVE  ReserveInv'
  <2>1. pc'[c] = "transition" /\ UNCHANGED <<holds, reserve, overlapped>>
    BY <1>4 DEF InsertDispute, ReadDispute, SettleNext, Continue, tables, ServiceInv, ServiceTypes
  <2> QED
    BY <1>2, <2>1 DEF Reads
<1>5. CASE ReadDisputes(c)
  <2>1. PICK open : call' = [call EXCEPT ![c].on = open, ![c].left = open]
    BY <1>5 DEF ReadDisputes
  <2>3. call \in [Callers -> Call] /\ call[c].op = "settle"
    BY <1>5 DEF ReadDisputes, ServiceInv, ServiceTypes
  <2>4. call'[c].op = "settle"
    BY <2>1, <2>3 DEF Call
  <2>2. UNCHANGED <<holds, reserve, overlapped>>
    BY <1>5 DEF ReadDisputes, tables
  <2> QED
    BY <1>2, <2>2, <2>4 DEF Reads
<1>6. CASE Refuse(c) \/ DatabaseFails(c) \/ Succeed(c) \/ TransitionFails(c) \/ InitiateDone(c)
  <2>1. pc'[c] \in {"idle", "ok"} /\ UNCHANGED <<holds, reserve, overlapped>>
    BY <1>6 DEF Refuse, DatabaseFails, Succeed, Fail, TransitionFails, InitiateDone, Continue, End,
                tables, ServiceInv, ServiceTypes
  <2> QED
    BY <1>2, <2>1 DEF Reads
<1>7. CASE SettleDone(c) \/ ReverseDone(c)
  <2>1. UNCHANGED <<holds, reserve, overlapped>> /\ call[c].op \in {"settle", "reverse"}
    BY <1>7 DEF SettleDone, ReverseDone, ReturnedOk, tables
  <2>2. call'[c] = call[c] \/ call'[c] = NoCall
    BY <1>7 DEF SettleDone, ReverseDone, Continue, End, ServiceInv, ServiceTypes
  <2> QED
    BY <1>2, <2>1, <2>2 DEF Reads, NoCall
<1>8. CASE UpdateFraudReserve(c)
  <2>1. pc[c] = "reserve" /\ UNCHANGED <<holds, reserve, overlapped, call>>
    BY <1>8 DEF UpdateFraudReserve, Continue, tables
  <2> QED
    BY <1>2, <2>1 DEF Reads
<1>9. CASE TransitionStep(c)
  BY <1>2, <1>9 DEF TransitionStep, tables, calls, Reads
<1>10. CASE Commit(c) /\ call[c].op \notin {"create", "authorize"}
  <2>1. UNCHANGED <<holds, reserve, overlapped>> /\ (call'[c] = call[c] \/ call'[c] = NoCall)
    BY <1>10 DEF Commit, End, ServiceInv, ServiceTypes
  <2> QED
    BY <1>2, <1>10, <2>1 DEF Reads, NoCall
<1> QED
  BY <1>3, <1>4, <1>5, <1>6, <1>7, <1>8, <1>9, <1>10, ApplyKeepsReserve, CommitKeepsReserve DEF Proceed

LEMMA ReserveStep ==
  ASSUME IsFiniteSet(Disputes), Machine!TypeOK, ServiceInv, ServiceInv', ReserveInv, [Next]_vars
  PROVE  ReserveInv'
<1>1. ASSUME UNCHANGED <<holds, reserve, overlapped, pc, call>>
      PROVE  ReserveInv'
  <2>1. \A d \in Disputes : Total(d)' = Total(d)
    BY <1>1 DEF Total
  <2>2. \A c \in Callers : Reads(c)' => Reads(c) /\ call'[c] = call[c]
    BY <1>1 DEF Reads
  <2> QED
    BY <1>1, <2>1, <2>2, ReserveKept
<1>2. CASE UNCHANGED vars
  BY <1>1, <1>2 DEF vars, tables, calls
<1>3. ASSUME NEW v \in Validators, OpenRows(v) \/ CloseRows(v) \/ DeadlinePasses(v)
      PROVE  ReserveInv'
  BY <1>1, <1>3 DEF OpenRows, CloseRows, DeadlinePasses, tables, calls
<1>4. ASSUME NEW d \in Disputes, NEW to \in Machine!States, UpdateStatus(d, to)
      PROVE  ReserveInv'
  <2>1. UNCHANGED <<reserve, overlapped, pc, call>>
    BY <1>4 DEF UpdateStatus, calls
  <2>2. ASSUME NEW e \in Disputes
        PROVE  Total(e)' = Total(e)
    <3>1. holds[e].active \in Nat /\ holds[e].released \in Nat
      BY HoldTypes DEF ServiceInv
    <3>2. CASE e # d
      BY <1>4, <3>2 DEF UpdateStatus, Total
    <3>3. CASE e = d /\ to = "REVERSED"
      <4>1. holds'[e] = [active |-> 0, released |-> holds[e].released + holds[e].active]
        BY <1>4, <3>3 DEF UpdateStatus, HoldsAfter, ServiceInv, ServiceTypes
      <4>2. holds'[e].active = 0 /\ holds'[e].released = holds[e].released + holds[e].active
        BY <4>1
      <4> QED
        BY <3>1, <4>2 DEF Total
    <3>4. CASE e = d /\ to # "REVERSED"
      <4>1. holds'[e] = holds[e]
        BY <1>4, <3>4 DEF UpdateStatus, HoldsAfter, ServiceInv, ServiceTypes
      <4> QED
        BY <4>1 DEF Total
    <3> QED
      BY <3>2, <3>3, <3>4
  <2>3. \A c \in Callers : Reads(c)' => Reads(c) /\ call'[c] = call[c]
    BY <2>1 DEF Reads
  <2> QED
    BY <2>1, <2>2, <2>3, ReserveKept
<1> QED
  BY <1>2, <1>3, <1>4, ProceedKeepsReserve DEF Next

LEMMA ReserveInit ==
  ASSUME IsFiniteSet(Disputes), Init
  PROVE  ReserveInv
<1>1. ASSUME NEW m \in Merchants
      PROVE  ReserveOf(m)
  <2>1. \A d \in Disputes : Added[d] = 0
    <3> SUFFICES ASSUME NEW d \in Disputes
                 PROVE  Added[d] = 0
      OBVIOUS
    <3>1. holds[d].active = 0 /\ holds[d].released = 0
      BY DEF Init
    <3>2. PICK r \in Int, a \in Int : r = Rate /\ a = Asked[d].amount
      BY ServiceAssumption
    <3>3. (r * a) * 0 = 0
      BY <3>2
    <3> QED
      BY <3>1, <3>2, <3>3 DEF Added, Total
  <2>2. Debt(m) = 0
    <3>1. IsFiniteSet(Of(m)) /\ \A d \in Of(m) : Added[d] = 0
      BY <2>1, FS_Subset DEF Of
    <3> QED
      BY <3>1, SumZero DEF Debt
  <2>3. reserve[m] = Opening[m] /\ Opening[m] \in Nat
    BY ServiceAssumption DEF Init
  <2> QED
    BY <2>2, <2>3 DEF ReserveOf
<1>2. ASSUME NEW c \in Callers
      PROVE  Basis(c)
  BY DEF Init, Basis, Reads
<1> QED
  BY <1>1, <1>2 DEF ReserveInv

(* The reserve of a merchant is what its holds have added to it, unless    *)
(* two calls overlapped; then it is never more.                            *)
THEOREM ServiceReserves ==
  ASSUME IsFiniteSet(Disputes)
  PROVE  Spec => []ReservesFollowHolds
<1>1. ReserveInv => ReservesFollowHolds
  BY DueIsDebt DEF ReserveInv, ReserveOf, ReservesFollowHolds
<1>2. Init => ReserveInv
  BY ReserveInit
<1>3. Machine!TypeOK /\ ServiceInv /\ ServiceInv' /\ ReserveInv /\ [Next]_vars => ReserveInv'
  BY ReserveStep
<1> QED
  BY <1>1, <1>2, <1>3, ServiceAlways, MachineTypes, PTL DEF Spec

-----------------------------------------------------------------------------
(* The rows alone.                                                         *)

(* The rows of disputes as the life cycle of DisputeLifecycle.             *)
RowLife == INSTANCE DisputeLifecycle WITH state <- status

(* A commit creates a row or leaves the status of every row alone.         *)
LEMMA CommitMakesRows ==
  ASSUME ServiceInv, NEW c \in Callers, Commit(c)
  PROVE  status' = status \/ \E d \in Disputes : RowLife!Create(d)
<1>1. call[c].on \subseteq Disputes /\ status \in [Disputes -> Machine!States \cup {"none"}]
  BY DEF ServiceInv, ServiceTypes, Call
<1>2. CASE call[c].op = "create"
  <2>1. PICK d \in Disputes : call[c].on = {d}
    BY <1>2 DEF ServiceInv, CallShape, One
  <2>2. status[d] = "none"
    BY <1>2, <2>1 DEF ServiceInv, Claims, Commit
  <2>3. status' = [e \in Disputes |-> IF e = d THEN "PENDING" ELSE status[e]]
    BY <1>2, <2>1 DEF Commit
  <2>4. status' = [status EXCEPT ![d] = "PENDING"]
    BY <1>1, <2>3
  <2> QED
    BY <2>2, <2>4 DEF RowLife!Create
<1>3. CASE call[c].op = "authorize"
  <2>1. status' = [e \in Disputes |-> status[e]]
    BY <1>3 DEF Commit
  <2> QED
    BY <1>1, <2>1
<1>4. CASE call[c].op \notin {"create", "authorize"}
  BY <1>4 DEF Commit
<1> QED
  BY <1>2, <1>3, <1>4

(* Nothing else that a call does touches the status of a row.              *)
LEMMA CallsKeepRows ==
  ASSUME NEW c \in Callers, Request(c) \/ Proceed(c), ~Commit(c)
  PROVE  status' = status
<1>1. CASE Request(c)
  BY <1>1 DEF Request, CreateDispute, AuthorizeDispute, InitiateDispute, ReverseDispute,
              SettleTransaction, Start, tables
<1>2. CASE Proceed(c)
  BY <1>2 DEF Proceed, InsertDispute, ReadDispute, SettleNext, ReadDisputes, Refuse, Fail,
              TransitionStep, TransitionFails, InitiateDone, SettleDone, ReverseDone,
              ApplyFundsHold, UpdateFraudReserve, DatabaseFails, Succeed, tables
<1> QED
  BY <1>1, <1>2

(* Every step creates one row PENDING, moves one along an allowed edge, or *)
(* leaves the rows alone.                                                  *)
LEMMA RowStep ==
  ASSUME ServiceInv, [Next]_vars
  PROVE  [RowLife!Next]_status
<1>1. CASE UNCHANGED vars
  BY <1>1 DEF vars, tables
<1>2. ASSUME NEW c \in Callers, Request(c) \/ Proceed(c)
      PROVE  [RowLife!Next]_status
  BY <1>2, CommitMakesRows, CallsKeepRows DEF RowLife!Next
<1>3. ASSUME NEW d \in Disputes, NEW to \in Machine!States, UpdateStatus(d, to)
      PROVE  RowLife!Next
  <2>1. /\ status[d] \in Machine!States /\ to \in Machine!AllowedTransitions[status[d]]
        /\ status' = [status EXCEPT ![d] = to]
    BY <1>3 DEF UpdateStatus, ValidTransition, Machine!IsValidTransition
  <2>2. RowLife!Move(d, to) /\ to \in RowLife!States
    BY <2>1 DEF RowLife!Move, RowLife!AllowedTransitions, Machine!AllowedTransitions,
                RowLife!States, Machine!States
  <2> QED
    BY <2>2 DEF RowLife!Next
<1>4. ASSUME NEW v \in Validators, OpenRows(v) \/ CloseRows(v) \/ DeadlinePasses(v)
      PROVE  status' = status
  BY <1>4 DEF OpenRows, CloseRows, DeadlinePasses, tables
<1> QED
  BY <1>1, <1>2, <1>3, <1>4 DEF Next

(* Whatever the histories do under racing calls, the rows of disputes keep *)
(* the life cycle: one is created once, PENDING, moves along the allowed   *)
(* edges only, and REVERSED is final.                                      *)
THEOREM RowsFollowLifecycle == Spec => RowLife!Spec
<1>1. Init => RowLife!Init
  BY DEF Init, RowLife!Init
<1>2. ServiceInv /\ [Next]_vars => [RowLife!Next]_status
  BY RowStep
<1> QED
  BY <1>1, <1>2, ServiceAlways, PTL DEF Spec, RowLife!Spec

(* What the row of a dispute says is in its history.                       *)
RowsAreRecorded == \A d \in Disputes : status[d] # "none" => Recorded(d, status[d])

(* The latest state is the target of a transition that is there.           *)
LEMMA LatestRecorded ==
  ASSUME Machine!TypeOK, NEW d \in Disputes, Machine!Latest(d).state # "none"
  PROVE  Recorded(d, Machine!Latest(d).state)
<1>1. history[d] # <<>>
  BY DEF Machine!Latest, Machine!Nothing
<1>2. DOMAIN history[d] = 1..Len(history[d]) /\ Len(history[d]) \in Nat /\ history[d] \in Seq(Machine!StateTransition)
  BY HistoryTypes DEF Machine!TypeOK
<1>3. Len(history[d]) \in DOMAIN history[d]
  BY <1>1, <1>2
<1> QED
  BY <1>1, <1>3 DEF Machine!Latest, Recorded

LEMMA RecordedStep ==
  ASSUME Machine!TypeOK, ServiceInv, RowsAreRecorded, [Next]_vars,
         \A d \in Disputes, to \in Machine!States : Recorded(d, to) => Recorded(d, to)'
  PROVE  RowsAreRecorded'
<1> SUFFICES ASSUME NEW d \in Disputes, NEW s, s = status'[d], s # "none"
             PROVE  Recorded(d, s)'
  BY DEF RowsAreRecorded
<1>1. status \in [Disputes -> Machine!States \cup {"none"}]
  BY DEF ServiceInv, ServiceTypes
<1>2. CASE status'[d] = status[d]
  BY <1>1, <1>2 DEF RowsAreRecorded, Recorded
<1>3. ASSUME NEW c \in Callers, Commit(c), status'[d] # status[d]
      PROVE  Recorded(d, s)'
  <2>1. call[c].op = "create" /\ d \in call[c].on /\ status'[d] = "PENDING" /\ UNCHANGED history
    BY <1>3 DEF Commit, machine
  <2>2. Recorded(d, "PENDING")
    BY <1>3, <2>1 DEF ServiceInv, CallShape, Claims, Commit, Goal, Recording
  <2> QED
    BY <2>1, <2>2 DEF Recorded
<1>4. ASSUME NEW e \in Disputes, NEW to \in Machine!States, UpdateStatus(e, to),
             status'[d] # status[d]
      PROVE  Recorded(d, s)'
  <2>1. e = d /\ status'[d] = to /\ to = Machine!Latest(d).state /\ UNCHANGED history
    BY <1>1, <1>4 DEF UpdateStatus, machine
  <2>2. Recorded(d, to)
    BY <2>1, LatestRecorded DEF Machine!States
  <2> QED
    BY <2>1, <2>2 DEF Recorded
<1>5. CASE UNCHANGED vars
  BY <1>2, <1>5 DEF vars, tables
<1>6. ASSUME NEW v \in Validators, OpenRows(v) \/ CloseRows(v) \/ DeadlinePasses(v)
      PROVE  status' = status
  BY <1>6 DEF OpenRows, CloseRows, DeadlinePasses, tables
<1> QED
  BY <1>2, <1>3, <1>4, <1>5, <1>6, CallsKeepRows DEF Next

(* What is recorded stays recorded.                                        *)
StillRecorded ==
  \A d \in Disputes, to \in Machine!States : Recorded(d, to) => Recorded(d, to)'

LEMMA RecordsStay ==
  ASSUME Histories!TypeOK, [Histories!Next]_(Histories!vars)
  PROVE  StillRecorded
<1>1. ASSUME NEW d \in Disputes
      PROVE  /\ DOMAIN history[d] \subseteq DOMAIN history'[d]
             /\ \A i \in DOMAIN history[d] : history'[d][i] = history[d][i]
  BY <1>1, MachineAssumption, Histories!HistoryGrows
<1> QED
  BY <1>1 DEF StillRecorded, Recorded

(* A row never says what was not recorded: it is created after its first   *)
(* transition is stored, and moved only to the latest one.                 *)
THEOREM RowsTellHistory == Spec => []RowsAreRecorded
<1>1. Init => RowsAreRecorded
  BY DEF Init, RowsAreRecorded
<1>2. Histories!Spec => []Histories!TypeOK
  BY MachineAssumption, Histories!TypeCorrect
<1>3. Histories!TypeOK /\ [Histories!Next]_(Histories!vars) => StillRecorded
  BY RecordsStay
<1>4. Machine!TypeOK /\ ServiceInv /\ RowsAreRecorded /\ [Next]_vars /\ StillRecorded
        => RowsAreRecorded'
  BY RecordedStep DEF StillRecorded
<1> QED
  BY <1>1, <1>2, <1>3, <1>4, ServiceHistories, ServiceAlways, MachineTypes, PTL
  DEF Spec, Histories!Spec

-----------------------------------------------------------------------------
(* Nobody waits for ever for a connection.                                 *)

(* c waits for the row of a reserve that b has locked, and b can commit.   *)
WaitsFor(c, b) ==
  /\ pc[c] = "reserve" /\ pc[b] = "commit" /\ OfReserve(b, MerchantOf(c))
  /\ CanProceed(b)

CallsGoOn ==
  Cardinality(Callers) + Cardinality(validating) < PoolSize =>
    \A c \in Callers : pc[c] # "idle" =>
      CanProceed(c) \/ \E b \in Callers \ {c} : WaitsFor(c, b)

(* While there are more connections than callers and validators that hold  *)
(* rows, the calls that hold one as they wait for another cannot have them *)
(* all: every call can go on, or waits for one that can.  The deadline of  *)
(* a validator closes its rows, so more connections than callers are       *)
(* enough in the end; with as many callers as connections all the calls    *)
(* may wait for each other.                                                *)
THEOREM NeverWedged == Spec => []CallsGoOn
<1>1. ServiceInv => CallsGoOn
  <2> SUFFICES ASSUME ServiceInv, Cardinality(Callers) + Cardinality(validating) < PoolSize,
                      NEW c \in Callers, pc[c] # "idle"
               PROVE  CanProceed(c) \/ \E b \in Callers \ {c} : WaitsFor(c, b)
    BY DEF CallsGoOn
  <2>1. /\ Cardinality(Holding) \in Nat /\ Cardinality(validating) \in Nat
        /\ InUse = Cardinality(Holding) + Cardinality(validating)
    BY HoldingFinite
  <2>2. Cardinality(Holding) <= Cardinality(Callers) /\ Cardinality(Callers) \in Nat
    <3>1. IsFiniteSet(Callers) /\ Holding \subseteq Callers
      BY ServiceAssumption DEF Holding
    <3> QED
      BY <3>1, FS_Subset, FS_CardinalityType
  <2>3. FreeConnection
    BY <2>1, <2>2, ServiceAssumption DEF FreeConnection
  <2>4. ASSUME NEW b \in Callers, pc[b] = "commit"
        PROVE  CanProceed(b)
    BY <2>3, <2>4 DEF CanProceed
  <2>5. CASE pc[c] = "reserve" /\ ReserveLocked(c)
    BY <2>4, <2>5 DEF ReserveLocked, WaitsFor
  <2>6. CASE ~(pc[c] = "reserve" /\ ReserveLocked(c))
    BY <2>3, <2>6 DEF CanProceed
  <2> QED
    BY <2>5, <2>6
<1> QED
  BY <1>1, ServiceAlways, PTL

-----------------------------------------------------------------------------
(* The calls of the service end.                                           *)

(* How far from its end a call is between two of its disputes.             *)
Stage(c) ==
  CASE pc[c] = "transition" /\ step[c] = "read"  -> 7
    [] pc[c] = "transition" /\ step[c] = "store" -> 6
    [] pc[c] = "transition" /\ step[c] = "idle"  -> 5
    [] pc[c] = "next"                            -> 4
    [] pc[c] = "reserve"                         -> 3
    [] pc[c] = "commit"                          -> 2
    [] OTHER                                     -> 1

(* A step ends the call or, with its first statement behind it for good,   *)
(* takes one from the disputes that it has left, or goes a stage on.       *)
Nearer(c) ==
  \/ pc'[c] = "idle"
  \/ /\ pc'[c] # "begin"
     /\ \/ pc[c] = "begin"
        \/ call'[c].left \subseteq call[c].left /\ call'[c].left # call[c].left
        \/ call'[c].left = call[c].left /\ Stage(c)' < Stage(c)

LEMMA ProceedNearer ==
  ASSUME Machine!TypeOK, ServiceTypes, NEW c \in Callers, CallShape(c), Proceed(c)
  PROVE  Nearer(c)
<1>1. /\ step[c] \in {"idle", "read", "store"}
      /\ pc[c] # "transition" => step[c] = "idle"
  BY DEF Machine!TypeOK, CallShape
<1>2. ASSUME NEW from, NEW next, Continue(c, from, next)
      PROVE  pc[c] = from /\ pc'[c] = next
  BY <1>2 DEF Continue, ServiceTypes
<1>3. End(c) => pc'[c] = "idle"
  BY DEF End, ServiceTypes
<1>4. CASE \E d \in Disputes : InsertDispute(c, d) \/ ReadDispute(c, d)
  <2>1. Continue(c, "begin", "transition")
    BY <1>4 DEF InsertDispute, ReadDispute
  <2> QED
    BY <1>2, <2>1 DEF Nearer
<1>5. CASE ReadDisputes(c)
  <2>1. PICK next \in {"commit", "next"} : Continue(c, "begin", next)
    BY <1>5 DEF ReadDisputes
  <2> QED
    BY <1>2, <2>1 DEF Nearer
<1>6. ASSUME NEW d \in Disputes, SettleNext(c, d)
      PROVE  Nearer(c)
  <2>1. pc'[c] = "transition" /\ d \in call[c].left /\ call'[c].left = call[c].left \ {d}
    BY <1>2, <1>6 DEF SettleNext, ServiceTypes
  <2> QED
    BY <2>1 DEF Nearer
<1>7. CASE TransitionStep(c)
  <2>1. Machine!Continue(c) /\ UNCHANGED <<pc[c], call[c]>> /\ step[c] # "idle"
    BY <1>7, GoesOn DEF TransitionStep, calls
  <2>2. pc[c] = "transition" /\ pc'[c] = "transition" /\ call'[c].left = call[c].left
    BY <1>1, <2>1
  <2>3. step'[c] = "idle" \/ (step[c] = "read" /\ step'[c] = "store")
    BY <2>1, GoesOn DEF Machine!Continue, Machine!ReadLatest, Machine!RefuseTransition,
       Machine!CreateTransition, Machine!RejectTransition, Machine!StoreUnavailable,
       Machine!End, Machine!TypeOK
  <2> QED
    BY <1>1, <2>1, <2>2, <2>3 DEF Nearer, Stage
<1>8. CASE InitiateDone(c) \/ SettleDone(c) \/ ApplyFundsHold(c)
  <2>1. PICK next \in {"ok", "commit", "next", "reserve"} : Continue(c, "transition", next)
    BY <1>8 DEF InitiateDone, SettleDone, ApplyFundsHold
  <2>2. call'[c].left = call[c].left
    <3>1. CASE ApplyFundsHold(c)
      <4>1. \E base : call' = [call EXCEPT ![c].base = base]
        BY <3>1 DEF ApplyFundsHold
      <4> QED
        BY <4>1 DEF ServiceTypes, Call
    <3>2. CASE InitiateDone(c) \/ SettleDone(c)
      BY <3>2 DEF InitiateDone, SettleDone
    <3> QED
      BY <1>8, <3>1, <3>2
  <2>3. step[c] = "idle" /\ pc[c] = "transition" /\ pc'[c] = next
    BY <1>2, <1>8, <2>1 DEF InitiateDone, SettleDone, ApplyFundsHold, ReturnedOk, Returned
  <2> QED
    BY <2>2, <2>3 DEF Nearer, Stage
<1>9. CASE ReverseDone(c)
  <2>1. CASE CanResolve(c)
    <3>1. pc[c] = "transition" /\ pc'[c] = "commit" /\ call' = call /\ step[c] = "idle"
      BY <1>2, <1>9, <2>1 DEF ReverseDone, ReturnedOk, Returned
    <3> QED
      BY <3>1 DEF Nearer, Stage
  <2>2. CASE ~CanResolve(c)
    BY <1>3, <1>9, <2>2 DEF ReverseDone, Nearer
  <2> QED
    BY <2>1, <2>2
<1>10. CASE UpdateFraudReserve(c)
  <2>1. pc[c] = "reserve" /\ pc'[c] = "commit" /\ call' = call
    BY <1>2, <1>10 DEF UpdateFraudReserve
  <2> QED
    BY <2>1 DEF Nearer, Stage
<1>11. CASE Commit(c)
  <2>1. CASE End(c)
    BY <1>3, <2>1 DEF Nearer
  <2>2. CASE ~End(c)
    <3>1. pc[c] = "commit" /\ pc'[c] = "ok" /\ call' = call
      BY <1>11, <2>2 DEF Commit, ServiceTypes
    <3> QED
      BY <3>1 DEF Nearer, Stage
  <2> QED
    BY <2>1, <2>2
<1>12. CASE Refuse(c) \/ TransitionFails(c) \/ DatabaseFails(c) \/ Succeed(c)
  BY <1>3, <1>12 DEF Refuse, TransitionFails, DatabaseFails, Succeed, Fail, Nearer
<1> QED
  BY <1>4, <1>5, <1>6, <1>7, <1>8, <1>9, <1>10, <1>11, <1>12 DEF Proceed

(* Every step of a call in progress brings it nearer to its end, and       *)
(* nothing else touches it: a settlement goes through its disputes once,   *)
(* and no call is sent back by what others do.                             *)
CallsGetOn ==
  [][ \A c \in Callers : pc[c] # "idle" =>
        IF Proceed(c) THEN Nearer(c) ELSE UNCHANGED <<pc[c], call[c], step[c]>> ]_vars

THEOREM CallsEnd == Spec => CallsGetOn
<1> DEFINE GetOn == \A c \in Callers : pc[c] # "idle" =>
                      IF Proceed(c) THEN Nearer(c) ELSE UNCHANGED <<pc[c], call[c], step[c]>>
<1>1. Machine!TypeOK /\ ServiceInv /\ [Next]_vars => GetOn
  <2> SUFFICES ASSUME Machine!TypeOK, ServiceInv, [Next]_vars, NEW c \in Callers, pc[c] # "idle"
               PROVE  IF Proceed(c) THEN Nearer(c) ELSE UNCHANGED <<pc[c], call[c], step[c]>>
    OBVIOUS
  <2>1. ServiceTypes /\ CallShape(c)
    BY DEF ServiceInv
  <2>2. CASE Proceed(c)
    BY <2>1, <2>2, ProceedNearer
  <2>3. CASE ~Proceed(c)
    <3>1. ~Request(c)
      BY DEF Request, CreateDispute, AuthorizeDispute, InitiateDispute, ReverseDispute,
             SettleTransaction, Start
    <3>2. CASE \E b \in Callers \ {c} : Request(b) \/ Proceed(b)
      <4>1. UNCHANGED Local(c)
        BY <2>1, <3>2, OthersStay
      <4> QED
        BY <2>3, <4>1 DEF Local
    <3>3. CASE \/ \E d \in Disputes, to \in Machine!States : UpdateStatus(d, to)
               \/ \E v \in Validators : OpenRows(v) \/ CloseRows(v) \/ DeadlinePasses(v)
               \/ UNCHANGED vars
      <4>1. UNCHANGED <<calls, machine>>
        BY <3>3 DEF UpdateStatus, OpenRows, CloseRows, DeadlinePasses, vars
      <4> QED
        BY <2>3, <4>1 DEF calls, machine
    <3> QED
      BY <2>3, <3>1, <3>2, <3>3 DEF Next
  <2> QED
    BY <2>2, <2>3
<1> QED
  BY <1>1, MachineTypes, ServiceAlways, PTL DEF Spec, CallsGetOn

-----------------------------------------------------------------------------
(* One caller of the service at a time.                                    *)

(* When the calls do not overlap, the histories that the service leaves    *)
(* follow the life cycle and are chained, although each transition is made *)
(* outside the transaction that it is part of and stays when that fails.   *)
THEOREM SerialServiceKeepsLifecycle ==
  ASSUME NEW c0, Callers = {c0}
  PROVE  Spec => Machine!ImplementsLifecycle
<1>1. Histories!Spec => Histories!ImplementsLifecycle
  BY MachineAssumption, Histories!SequentialRefinement
<1>2. /\ \A d \in Disputes : Histories!Latest(d) = Machine!Latest(d)
      /\ \A d \in Disputes : Histories!Latest(d)' = Machine!Latest(d)'
  BY DEF Histories!Latest, Machine!Latest, Histories!Nothing, Machine!Nothing
<1>3. Histories!Lifecycle!Init => Machine!Lifecycle!Init
  BY <1>2 DEF Histories!Lifecycle!Init, Machine!Lifecycle!Init
<1>4. /\ Histories!Lifecycle!States = Machine!Lifecycle!States
      /\ Histories!Lifecycle!AllowedTransitions = Machine!Lifecycle!AllowedTransitions
  BY DEF Histories!Lifecycle!States, Machine!Lifecycle!States,
         Histories!Lifecycle!AllowedTransitions, Machine!Lifecycle!AllowedTransitions
<1>5. [Histories!Lifecycle!Next]_([d \in Disputes |-> Histories!Latest(d).state])
        => [Machine!Lifecycle!Next]_([d \in Disputes |-> Machine!Latest(d).state])
  BY <1>2, <1>4
  DEF Histories!Lifecycle!Next, Machine!Lifecycle!Next, Histories!Lifecycle!Create,
      Machine!Lifecycle!Create, Histories!Lifecycle!Move, Machine!Lifecycle!Move
<1> QED
  BY <1>1, <1>3, <1>5, ServiceHistories, PTL
  DEF Histories!ImplementsLifecycle, Machine!ImplementsLifecycle,
      Histories!Lifecycle!Spec, Machine!Lifecycle!Spec

(* Each transition of a dispute then carries the hash of the one before.   *)
THEOREM SerialServiceKeepsChains ==
  ASSUME NEW c0, Callers = {c0}
  PROVE  Spec => []Machine!HistoriesAreChained
<1>1. Histories!Spec => []Histories!HistoriesAreChained
  BY MachineAssumption, Histories!SequentialChains
<1>2. Histories!HistoriesAreChained => Machine!HistoriesAreChained
  BY DEF Histories!HistoriesAreChained, Machine!HistoriesAreChained,
         Histories!ChainIsContinuous, Machine!ChainIsContinuous
<1> QED
  BY <1>1, <1>2, ServiceHistories, PTL

-----------------------------------------------------------------------------
(* The amount of a hold, for every amount.                                 *)

(* What is held beside the amount is the fee, and it never falls as the    *)
(* amount grows.                                                           *)
LEMMA Between ==
  ASSUME NEW low \in Int, NEW high \in Int, low <= high, NEW x \in Int, NEW y \in Int, x <= y
  PROVE  /\ low <= min(high, max(low, x)) /\ min(high, max(low, x)) <= high /\ min(high, max(low, x)) \in Int
         /\ min(high, max(low, x)) <= min(high, max(low, y))
<1>1. max(low, x) \in Int /\ max(low, y) \in Int /\ low <= max(low, x) /\ max(low, x) <= max(low, y)
  BY DEF max
<1> HIDE DEF max
<1> QED
  BY <1>1 DEF min

LEMMA FeeBounds ==
  ASSUME NEW amount \in Nat, NEW code
  PROVE  /\ 5000 <= calculateChargebackFee(amount, code) /\ calculateChargebackFee(amount, code) <= 25000 /\ calculateChargebackFee(amount, code) \in Int
         /\ calculateChargebackFee(amount, code) <= calculateChargebackFee(amount + 1, code)
<1>1. CASE code \in VisaCodes
  <2> DEFINE x == amount * 20
             y == (amount + 1) * 20
  <2>1. x \in Int /\ y \in Int /\ x <= y
    OBVIOUS
  <2>2. /\ calculateChargebackFee(amount, code) = min(15000, max(5000, x))
        /\ calculateChargebackFee(amount + 1, code) = min(15000, max(5000, y))
    BY <1>1 DEF calculateChargebackFee
  <2> HIDE DEF x, y
  <2>3. \A low, high \in Int : low <= high =>
          /\ low <= min(high, max(low, x)) /\ min(high, max(low, x)) <= high /\ min(high, max(low, x)) \in Int
          /\ min(high, max(low, x)) <= min(high, max(low, y))
    BY <2>1, Between
  <2>4. /\ 5000 <= min(15000, max(5000, x)) /\ min(15000, max(5000, x)) <= 15000 /\ min(15000, max(5000, x)) \in Int
        /\ min(15000, max(5000, x)) <= min(15000, max(5000, y))
    <3>1. 5000 \in Int /\ 15000 \in Int /\ 5000 <= 15000
      OBVIOUS
    <3> QED
      BY <2>3, <3>1
  <2>5. /\ 5000 <= calculateChargebackFee(amount, code) /\ calculateChargebackFee(amount, code) <= 15000 /\ calculateChargebackFee(amount, code) \in Int
        /\ calculateChargebackFee(amount, code) <= calculateChargebackFee(amount + 1, code)
    BY <2>2, <2>4
  <2> QED
    BY <2>5
<1>2. CASE code \notin VisaCodes
  <2> DEFINE x == amount * 25
             y == (amount + 1) * 25
  <2>1. x \in Int /\ y \in Int /\ x <= y
    OBVIOUS
  <2>2. /\ calculateChargebackFee(amount, code) = min(25000, max(8000, x))
        /\ calculateChargebackFee(amount + 1, code) = min(25000, max(8000, y))
    BY <1>2 DEF calculateChargebackFee
  <2> HIDE DEF x, y
  <2>3. \A low, high \in Int : low <= high =>
          /\ low <= min(high, max(low, x)) /\ min(high, max(low, x)) <= high /\ min(high, max(low, x)) \in Int
          /\ min(high, max(low, x)) <= min(high, max(low, y))
    BY <2>1, Between
  <2>4. /\ 8000 <= min(25000, max(8000, x)) /\ min(25000, max(8000, x)) <= 25000 /\ min(25000, max(8000, x)) \in Int
        /\ min(25000, max(8000, x)) <= min(25000, max(8000, y))
    <3>1. 8000 \in Int /\ 25000 \in Int /\ 8000 <= 25000
      OBVIOUS
    <3> QED
      BY <2>3, <3>1
  <2>5. /\ 8000 <= calculateChargebackFee(amount, code) /\ calculateChargebackFee(amount, code) <= 25000 /\ calculateChargebackFee(amount, code) \in Int
        /\ calculateChargebackFee(amount, code) <= calculateChargebackFee(amount + 1, code)
    BY <2>2, <2>4
  <2> QED
    BY <2>5
<1> QED
  BY <1>1, <1>2

(* Whatever the amount, a hold takes the amount and a fee between the      *)
(* least of Visa and the most of Mastercard, and a larger dispute of the   *)
(* same code holds more: no bound of the fee turns the order around.       *)
THEOREM HoldsCover == HoldsCoverTheDispute(Nat)
<1> SUFFICES ASSUME NEW code \in ReasonCodes \ WithoutFee, NEW amount \in Nat
             PROVE  /\ Held(amount, code) >= amount * 1000 + 5000
                    /\ Held(amount, code) <= amount * 1000 + 25000
                    /\ Held(amount, code) < Held(amount + 1, code)
  BY DEF HoldsCoverTheDispute
<1>1. /\ Held(amount, code) = amount * 1000 + calculateChargebackFee(amount, code)
      /\ Held(amount + 1, code) = (amount + 1) * 1000 + calculateChargebackFee(amount + 1, code)
  BY DEF Held, HeldAmount
<1>2. /\ 5000 <= calculateChargebackFee(amount, code)
      /\ calculateChargebackFee(amount, code) <= 25000
      /\ calculateChargebackFee(amount, code) <= calculateChargebackFee(amount + 1, code)
      /\ calculateChargebackFee(amount, code) \in Int
      /\ calculateChargebackFee(amount + 1, code) \in Int
  BY FeeBounds
<1> QED
  BY <1>1, <1>2

=============================================================================
