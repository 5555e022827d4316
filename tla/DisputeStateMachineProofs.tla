--------------------- MODULE DisputeStateMachineProofs ---------------------
(* Theorems of DisputeStateMachine, for every value of its constants. *)
EXTENDS DisputeStateMachine, FiniteSetTheorems, TLAPS

(* AllowedTransitions leads from states to states, and never to PENDING.   *)
LEMMA Edges ==
  /\ AllowedTransitions \in [States -> SUBSET States]
  /\ \A s \in States : "PENDING" \notin AllowedTransitions[s]
BY DEF AllowedTransitions, States

(* ValidateOperation adds nothing to IsValidTransition: the second check   *)
(* of Transition never refuses what the first let through.                 *)
THEOREM OperationCheckIsRedundant ==
  ASSUME NEW from, NEW to, IsValidTransition(from, to)
  PROVE  ValidateOperation(from, Operation(to))
<1>1. from \in States /\ to \in States /\ to # "PENDING"
  BY Edges DEF IsValidTransition
<1>2. CASE to = "AUTHORIZED"
  BY <1>1, <1>2 DEF IsValidTransition, AllowedTransitions, States, Operation, ValidateOperation
<1>3. CASE to = "SETTLED"
  BY <1>1, <1>3 DEF IsValidTransition, AllowedTransitions, States, Operation, ValidateOperation
<1>4. CASE to = "DISPUTED"
  BY <1>1, <1>4 DEF IsValidTransition, AllowedTransitions, States, Operation, ValidateOperation
<1>5. CASE to = "REVERSED"
  BY <1>1, <1>5 DEF IsValidTransition, AllowedTransitions, States, Operation, ValidateOperation
<1> QED
  BY <1>1, <1>2, <1>3, <1>4, <1>5 DEF States

-----------------------------------------------------------------------------
(* The inductive invariant: what a caller holds between its read and its   *)
(* store is a transition of its dispute, and a dispute that is being       *)
(* created has no history and one creator.                                 *)

IsPosition(d, j, view) ==
  j \in DOMAIN history[d] /\ view.hash = history[d][j].hash /\ view.state = history[d][j].to

IsStored(d, view) == \E j \in DOMAIN history[d] : IsPosition(d, j, view)

SeenIsStored ==
  \A c \in Callers :
    /\ pc[c] = "idle" => request[c] = <<>>
    /\ pc[c] # "store" => seen[c] = Nothing
    /\ pc[c] = "read" => request[c][2] # "PENDING"
    /\ pc[c] = "store" =>
         IF request[c][2] = "PENDING"
         THEN seen[c] = Nothing /\ history[request[c][1]] = <<>>
         ELSE IsStored(request[c][1], seen[c])
              /\ IsValidTransition(seen[c].state, request[c][2])

OneCreator ==
  \A b, c \in Callers :
    (pc[b] = "store" /\ pc[c] = "store" /\ request[b] = request[c] /\ request[c][2] = "PENDING")
      => b = c

TreeInv == TypeOK /\ SeenIsStored /\ OneCreator /\ HistoryIsATree

(* The latest transition of a dispute, as a view.                          *)
LEMMA LatestType ==
  ASSUME TypeOK, NEW d \in Disputes
  PROVE  Latest(d) \in [state: States \cup {"none"}, hash: Nat]
<1>1. history[d] \in Seq(StateTransition)
  BY DEF TypeOK
<1>2. CASE history[d] = <<>>
  BY <1>2 DEF Latest, Nothing
<1>3. CASE history[d] # <<>>
  <2> DEFINE last == history[d][Len(history[d])]
  <2>1. last \in StateTransition
    BY <1>1, <1>3
  <2>2. last.to \in States /\ last.hash \in Nat
    BY <2>1 DEF StateTransition
  <2>3. Latest(d) = [state |-> last.to, hash |-> last.hash]
    BY <1>3 DEF Latest
  <2>4. Latest(d).state = last.to /\ Latest(d).hash = last.hash
    BY <2>3
  <2> HIDE DEF last
  <2> QED
    BY <2>2, <2>3
<1> QED
  BY <1>1, <1>2, <1>3

(* What a step does to the histories: nothing, or it adds the transition   *)
(* of one caller, whose call ends.                                         *)
Stores(c, d, to) ==
  /\ pc[c] = "store"
  /\ request[c] = <<d, to>>
  /\ NewTransition(c) \in StateTransition
  /\ ~DatabaseRejects(d, NewTransition(c))
  /\ history' = [history EXCEPT ![d] = Append(@, NewTransition(c))]
  /\ \E how \in {"ok", "error"} : End(c, how)

LEMMA HistoryStep ==
  ASSUME TypeOK, [Next]_vars
  PROVE  \/ UNCHANGED history
         \/ \E c \in Callers, d \in Disputes, to \in States : Stores(c, d, to)
<1>1. CASE UNCHANGED vars
  BY <1>1 DEF vars
<1>2. ASSUME NEW c \in Callers, CreateTransition(c)
      PROVE  \E d \in Disputes, to \in States : Stores(c, d, to)
  <2> request[c] \in Disputes \X States
    BY <1>2 DEF CreateTransition, TypeOK
  <2>1. PICK d \in Disputes, to \in States : request[c] = <<d, to>>
    OBVIOUS
  <2>2. seen[c] \in [state: States \cup {"none"}, hash: Nat]
    BY DEF TypeOK
  <2>3. Len(history[d]) + 1 \in Nat \ {0}
    <3>1. Len(history[d]) \in Nat
      BY DEF TypeOK
    <3> QED
      BY <3>1
  <2>4. NewTransition(c) \in StateTransition
    <3>1. seen[c].state \in States \cup {"none"} /\ seen[c].hash \in Nat
      BY <2>2
    <3>2. NewTransition(c) = [from |-> seen[c].state, to |-> to,
                              hash |-> Len(history[d]) + 1, prev |-> seen[c].hash]
      BY <2>1 DEF NewTransition
    <3> QED
      BY <2>3, <3>1, <3>2 DEF StateTransition
  <2>5. Stores(c, d, to)
    BY <1>2, <2>1, <2>4 DEF CreateTransition, Stores
  <2> QED
    BY <2>5
<1>3. ASSUME NEW c \in Callers,
             \/ RefuseRequest(c)
             \/ \E d \in Disputes, to \in States : Transition(c, d, to)
             \/ ReadLatest(c) \/ RefuseTransition(c)
             \/ RejectTransition(c) \/ StoreUnavailable(c) \/ TakeResult(c)
      PROVE  UNCHANGED history
  BY <1>3 DEF RefuseRequest, Transition, ReadLatest, RefuseTransition, RejectTransition,
              StoreUnavailable, TakeResult
<1> QED
  BY <1>1, <1>2, <1>3 DEF Next, Step, Continue

(* What a step does to one caller: nothing, it ends its call, starts one,  *)
(* or has read the latest transition.                                      *)
LEMMA CallerStep ==
  ASSUME TypeOK, [Next]_vars, NEW c \in Callers
  PROVE  \/ UNCHANGED <<pc[c], request[c], seen[c]>>
         \/ pc'[c] = "idle" /\ request'[c] = <<>> /\ seen'[c] = Nothing
         \/ \E d \in Disputes, to \in States : Transition(c, d, to)
         \/ ReadLatest(c)
<1>1. CASE UNCHANGED vars
  BY <1>1 DEF vars, calls
<1>2. ASSUME NEW b \in Callers, NEW how, End(b, how)
      PROVE  \/ UNCHANGED <<pc[c], request[c], seen[c]>>
             \/ pc'[c] = "idle" /\ request'[c] = <<>> /\ seen'[c] = Nothing
  BY <1>2 DEF End, TypeOK
<1>3. ASSUME NEW b \in Callers, b # c,
             (\E d \in Disputes, to \in States : Transition(b, d, to)) \/ ReadLatest(b)
      PROVE  UNCHANGED <<pc[c], request[c], seen[c]>>
  BY <1>3 DEF Transition, ReadLatest, TypeOK
<1>4. ASSUME NEW b \in Callers,
             RefuseRequest(b) \/ RefuseTransition(b) \/ CreateTransition(b)
               \/ RejectTransition(b) \/ StoreUnavailable(b)
      PROVE  \E how : End(b, how)
  BY <1>4 DEF RefuseRequest, RefuseTransition, CreateTransition, RejectTransition, StoreUnavailable
<1>5. ASSUME NEW b \in Callers, TakeResult(b)
      PROVE  UNCHANGED <<pc[c], request[c], seen[c]>>
  BY <1>5 DEF TakeResult
<1> QED
  BY <1>1, <1>2, <1>3, <1>4, <1>5 DEF Next, Step, Continue

(* Every step keeps the types.                                             *)
LEMMA TypeStep ==
  ASSUME TypeOK, [Next]_vars
  PROVE  TypeOK'
<1>1. CASE UNCHANGED vars
  BY <1>1 DEF vars, calls, TypeOK
<1>2. ASSUME NEW c \in Callers, NEW how \in {"ok", "invalid", "error"}, End(c, how)
      PROVE  /\ pc' \in [Callers -> {"idle", "read", "store"}]
             /\ \A b \in Callers : pc'[b] # "idle" => request'[b] \in Disputes \X States
             /\ DOMAIN request' = Callers
             /\ seen' \in [Callers -> [state: States \cup {"none"}, hash: Nat]]
             /\ outcome' \in [Callers -> {"none", "ok", "invalid", "error"}]
  <2>1. Nothing \in [state: States \cup {"none"}, hash: Nat]
    BY DEF Nothing
  <2> QED
    BY <1>2, <2>1 DEF End, TypeOK
<1>3. history' \in [Disputes -> Seq(StateTransition)]
  <2>1. CASE UNCHANGED history
    BY <2>1 DEF TypeOK
  <2>2. ASSUME NEW c \in Callers, NEW d \in Disputes, NEW to \in States, Stores(c, d, to)
        PROVE  history' \in [Disputes -> Seq(StateTransition)]
    <3>1. history \in [Disputes -> Seq(StateTransition)] /\ NewTransition(c) \in StateTransition
      BY <2>2 DEF Stores, TypeOK
    <3>2. Append(history[d], NewTransition(c)) \in Seq(StateTransition)
      BY <3>1
    <3> QED
      BY <2>2, <3>1, <3>2 DEF Stores
  <2> QED
    BY <2>1, <2>2, HistoryStep
<1>4. ASSUME NEW c \in Callers, NEW d \in Disputes, NEW to \in States, Transition(c, d, to)
      PROVE  TypeOK'
  BY <1>3, <1>4 DEF Transition, TypeOK
<1>5. ASSUME NEW c \in Callers, ReadLatest(c)
      PROVE  TypeOK'
  <2> request[c] \in Disputes \X States
    BY <1>5 DEF ReadLatest, TypeOK
  <2>1. PICK d \in Disputes, to \in States : request[c] = <<d, to>>
    OBVIOUS
  <2>2. /\ seen' = [seen EXCEPT ![c] = Latest(d)]
        /\ pc' = [pc EXCEPT ![c] = "store"]
        /\ UNCHANGED <<history, request, outcome>>
    BY <1>5, <2>1 DEF ReadLatest
  <2>3. pc[c] = "read"
    BY <1>5 DEF ReadLatest
  <2> QED
    BY <2>2, <2>3, LatestType DEF TypeOK
<1>6. ASSUME NEW c \in Callers,
             RefuseRequest(c) \/ RefuseTransition(c) \/ CreateTransition(c)
               \/ RejectTransition(c) \/ StoreUnavailable(c)
      PROVE  TypeOK'
  <2>1. \E how \in {"ok", "invalid", "error"} : End(c, how)
    BY <1>6 DEF RefuseRequest, RefuseTransition, CreateTransition, RejectTransition,
                StoreUnavailable
  <2> QED
    BY <1>2, <1>3, <2>1 DEF TypeOK
<1>7. ASSUME NEW c \in Callers, TakeResult(c)
      PROVE  TypeOK'
  BY <1>7 DEF TakeResult, TypeOK
<1> QED
  BY <1>1, <1>4, <1>5, <1>6, <1>7 DEF Next, Step, Continue

(* The initial states have them.                                           *)
LEMMA InitType ==
  ASSUME Init
  PROVE  TypeOK
<1>1. history \in [Disputes -> Seq(StateTransition)]
  BY DEF Init
<1>2. pc \in [Callers -> {"idle", "read", "store"}]
  BY DEF Init
<1>3. /\ \A c \in Callers : pc[c] # "idle" => request[c] \in Disputes \X States
      /\ DOMAIN request = Callers
  BY DEF Init
<1>4. seen \in [Callers -> [state: States \cup {"none"}, hash: Nat]]
  <2>1. Nothing \in [state: States \cup {"none"}, hash: Nat]
    BY DEF Nothing
  <2> QED
    BY <2>1 DEF Init
<1>5. outcome \in [Callers -> {"none", "ok", "invalid", "error"}]
  BY DEF Init
<1> QED
  BY <1>1, <1>2, <1>3, <1>4, <1>5 DEF TypeOK

(* Every reachable state has the types of TypeOK.                          *)
THEOREM TypeCorrect == Spec => []TypeOK
<1>1. Init => TypeOK
  BY InitType
<1>2. TypeOK /\ [Next]_vars => TypeOK'
  BY TypeStep
<1> QED
  BY <1>1, <1>2, PTL DEF Spec

-----------------------------------------------------------------------------
(* Migration 021.                                                          *)

(* Over migration 021 the histories stay empty.                            *)
THEOREM NothingRecorded == Spec => []NothingIsRecorded
<1>1. Init => NothingIsRecorded
  BY DEF Init, NothingIsRecorded
<1>2. TypeOK /\ NothingIsRecorded /\ [Next]_vars => NothingIsRecorded'
  <2> SUFFICES ASSUME TypeOK, NothingIsRecorded, [Next]_vars,
                      NEW d \in Disputes, Store[d] = "postgres"
               PROVE  history'[d] = history[d]
    BY DEF NothingIsRecorded
  <2>1. \A t : DatabaseRejects(d, t)
    BY DEF NothingIsRecorded, DatabaseRejects, Latest, Nothing
  <2>2. ASSUME NEW c \in Callers, NEW e \in Disputes, NEW to \in States, Stores(c, e, to)
        PROVE  history'[d] = history[d]
    BY <2>1, <2>2 DEF Stores, TypeOK
  <2> QED
    BY <2>2, HistoryStep
<1> QED
  BY <1>1, <1>2, TypeCorrect, PTL DEF Spec

-----------------------------------------------------------------------------
(* The tree of transitions.                                                *)

(* What is stored stays stored, where it is.                               *)
LEMMA HistoryGrows ==
  ASSUME TypeOK, [Next]_vars, NEW d \in Disputes
  PROVE  /\ DOMAIN history[d] \subseteq DOMAIN history'[d]
         /\ \A i \in DOMAIN history[d] : history'[d][i] = history[d][i]
<1>1. history[d] \in Seq(StateTransition)
  BY DEF TypeOK
<1>2. CASE history'[d] = history[d]
  BY <1>2
<1>3. ASSUME NEW t \in StateTransition, history'[d] = Append(history[d], t)
      PROVE  /\ DOMAIN history[d] \subseteq DOMAIN history'[d]
             /\ \A i \in DOMAIN history[d] : history'[d][i] = history[d][i]
  BY <1>1, <1>3
<1>4. ASSUME NEW c \in Callers, NEW e \in Disputes, NEW to \in States, Stores(c, e, to)
      PROVE  \/ history'[d] = history[d]
             \/ \E t \in StateTransition : history'[d] = Append(history[d], t)
  BY <1>4 DEF Stores, TypeOK
<1> QED
  BY <1>2, <1>3, <1>4, HistoryStep

(* The transition just stored is the last one of its dispute.              *)
LEMMA StoredLast ==
  ASSUME TypeOK, NEW c \in Callers, NEW d \in Disputes, NEW to \in States, Stores(c, d, to)
  PROVE  /\ DOMAIN history'[d] = 1..Len(history[d]) + 1
         /\ DOMAIN history[d] = 1..Len(history[d])
         /\ Len(history[d]) \in Nat
         /\ Len(history'[d]) = Len(history[d]) + 1
         /\ history'[d][Len(history[d]) + 1] = NewTransition(c)
         /\ \A e \in Disputes : e # d => history'[e] = history[e]
<1>1. history[d] \in Seq(StateTransition) /\ NewTransition(c) \in StateTransition
  BY DEF TypeOK, Stores
<1>2. history'[d] = Append(history[d], NewTransition(c))
  BY DEF Stores, TypeOK
<1>3. \A e \in Disputes : e # d => history'[e] = history[e]
  BY DEF Stores, TypeOK
<1> QED
  BY <1>1, <1>2, <1>3

(* A dispute whose latest state is a state has a latest transition.        *)
LEMMA LatestIsStored ==
  ASSUME TypeOK, NEW d \in Disputes, Latest(d).state \in States
  PROVE  IsStored(d, Latest(d))
<1>1. history[d] \in Seq(StateTransition)
  BY DEF TypeOK
<1>2. history[d] # <<>>
  BY DEF Latest, Nothing, States
<1>3. Len(history[d]) \in DOMAIN history[d]
  BY <1>1, <1>2
<1>4. IsPosition(d, Len(history[d]), Latest(d))
  BY <1>2, <1>3 DEF IsPosition, Latest
<1> QED
  BY <1>3, <1>4 DEF IsStored

(* A dispute with a creator keeps no history until its creator stores.     *)
LEMMA CreatorAlone ==
  ASSUME TreeInv, [Next]_vars, NEW c \in Callers, NEW d \in Disputes,
         pc[c] = "store", request[c] = <<d, "PENDING">>, pc'[c] = "store"
  PROVE  history'[d] = <<>>
<1> USE DEF TreeInv
<1>1. history[d] = <<>>
  BY DEF SeenIsStored
<1>2. ASSUME NEW b \in Callers, NEW to \in States, Stores(b, d, to)
      PROVE  FALSE
  <2>1. pc[b] = "store" /\ request[b] = <<d, to>> /\ pc'[b] = "idle"
    BY <1>2 DEF Stores, End, TypeOK
  <2>2. CASE to = "PENDING"
    BY <2>1, <2>2 DEF OneCreator
  <2>3. CASE to # "PENDING"
    BY <1>1, <2>1, <2>3 DEF SeenIsStored, IsStored
  <2> QED
    BY <2>2, <2>3
<1>3. ASSUME NEW b \in Callers, NEW e \in Disputes, NEW to \in States, Stores(b, e, to), e # d
      PROVE  history'[d] = history[d]
  BY <1>3, StoredLast
<1> QED
  BY <1>1, <1>2, <1>3, HistoryStep

LEMMA SeenStep ==
  ASSUME TreeInv, [Next]_vars
  PROVE  SeenIsStored'
<1> USE DEF TreeInv
<1> SUFFICES ASSUME NEW c \in Callers
             PROVE  /\ pc'[c] = "idle" => request'[c] = <<>>
                    /\ pc'[c] # "store" => seen'[c] = Nothing
                    /\ pc'[c] = "read" => request'[c][2] # "PENDING"
                    /\ pc'[c] = "store" =>
                         IF request'[c][2] = "PENDING"
                         THEN seen'[c] = Nothing /\ history'[request'[c][1]] = <<>>
                         ELSE IsStored(request[c][1], seen[c])'
                              /\ IsValidTransition(seen'[c].state, request'[c][2])
  BY DEF SeenIsStored, IsValidTransition
<1>1. CASE UNCHANGED <<pc[c], request[c], seen[c]>>
  <2>1. CASE pc[c] # "store"
    BY <1>1, <2>1 DEF SeenIsStored
  <2>2. CASE pc[c] = "store"
    <3>1. request[c] \in Disputes \X States
      BY <2>2 DEF TypeOK
    <3>2. PICK d \in Disputes, to \in States : request[c] = <<d, to>>
      BY <3>1
    <3>3. CASE to = "PENDING"
      BY <1>1, <2>2, <3>2, <3>3, CreatorAlone DEF SeenIsStored
    <3>4. CASE to # "PENDING"
      <4>1. IsStored(d, seen[c]) /\ IsValidTransition(seen[c].state, to)
        BY <2>2, <3>2, <3>4 DEF SeenIsStored
      <4>2. \E j \in DOMAIN history'[d] : IsPosition(d, j, seen[c])'
        BY <1>1, <4>1, HistoryGrows DEF IsStored, IsPosition
      <4>3. IsStored(request[c][1], seen[c])'
        BY <1>1, <3>2, <4>2 DEF IsStored, IsPosition
      <4> QED
        BY <1>1, <2>2, <3>2, <3>4, <4>1, <4>3
    <3> QED
      BY <3>3, <3>4
  <2> QED
    BY <2>1, <2>2
<1>2. CASE pc'[c] = "idle" /\ request'[c] = <<>> /\ seen'[c] = Nothing
  BY <1>2
<1>3. ASSUME NEW e \in Disputes, NEW s \in States, Transition(c, e, s)
      PROVE  /\ request'[c] = <<e, s>> /\ seen'[c] = Nothing
             /\ pc'[c] = IF s = "PENDING" THEN "store" ELSE "read"
             /\ s = "PENDING" => history'[e] = <<>>
  BY <1>3 DEF Transition, TypeOK, SeenIsStored, IsNew
<1>4. CASE ReadLatest(c)
  <2>1. pc[c] = "read"
    BY <1>4 DEF ReadLatest
  <2>2. request[c] \in Disputes \X States
    BY <2>1 DEF TypeOK
  <2>3. PICK d \in Disputes, to \in States : request[c] = <<d, to>>
    BY <2>2
  <2>4. /\ request' = request /\ history' = history /\ pc'[c] = "store"
        /\ seen'[c] = Latest(d) /\ IsValidTransition(Latest(d).state, to)
    BY <1>4, <2>3 DEF ReadLatest, Validates, TypeOK
  <2>5. to # "PENDING"
    BY <2>1, <2>3 DEF SeenIsStored
  <2>6. IsStored(d, Latest(d))
    BY <2>4, LatestIsStored DEF IsValidTransition
  <2>7. IsStored(request[c][1], seen[c])'
    BY <2>3, <2>4, <2>6 DEF IsStored, IsPosition
  <2> QED
    BY <2>3, <2>4, <2>5, <2>7
<1> QED
  BY <1>1, <1>2, <1>3, <1>4, CallerStep

LEMMA CreatorStep ==
  ASSUME TreeInv, [Next]_vars
  PROVE  OneCreator'
<1> USE DEF TreeInv
<1> SUFFICES ASSUME NEW b \in Callers, NEW c \in Callers,
                    pc'[b] = "store", pc'[c] = "store", request'[b] = request'[c],
                    request'[c][2] = "PENDING", b # c
             PROVE  FALSE
  BY DEF OneCreator
<1>1. ASSUME NEW x \in Callers, NEW y \in Callers, x # y, pc'[x] = "store", pc'[y] = "store",
             request'[x] = request'[y], request'[x][2] = "PENDING",
             NEW d \in Disputes, NEW to \in States, Transition(x, d, to)
      PROVE  FALSE
  BY <1>1 DEF Transition, IsNew, TypeOK
<1>2. ASSUME NEW x \in Callers, request'[x][2] = "PENDING", ReadLatest(x)
      PROVE  FALSE
  BY <1>2 DEF ReadLatest, SeenIsStored
<1> QED
  BY <1>1, <1>2, CallerStep DEF OneCreator

LEMMA TreeStep ==
  ASSUME TreeInv, [Next]_vars
  PROVE  HistoryIsATree'
<1> USE DEF TreeInv
<1> SUFFICES ASSUME NEW d \in Disputes, NEW i \in DOMAIN history'[d]
             PROVE  IF history'[d][i].to = "PENDING" THEN i = 1
                    ELSE \E j \in 1..i - 1 : Extends(d, j, i)'
  BY Zenon DEF HistoryIsATree, Extends
<1>1. CASE i \in DOMAIN history[d]
  <2>1. history[d] \in Seq(StateTransition) /\ history'[d][i] = history[d][i]
    BY <1>1, HistoryGrows DEF TypeOK
  <2>2. CASE history[d][i].to = "PENDING"
    BY <1>1, <2>1, <2>2 DEF HistoryIsATree
  <2>3. CASE history[d][i].to # "PENDING"
    <3>1. PICK j \in 1..i - 1 : Extends(d, j, i)
      BY <1>1, <2>3 DEF HistoryIsATree
    <3>2. j \in DOMAIN history[d]
      BY <1>1, <2>1, <3>1
    <3>3. history'[d][j] = history[d][j]
      BY <3>2, HistoryGrows
    <3> QED
      BY <2>1, <2>3, <3>1, <3>3 DEF Extends
  <2> QED
    BY <2>2, <2>3
<1>2. CASE i \notin DOMAIN history[d]
  <2>1. PICK c \in Callers, to \in States : Stores(c, d, to)
    <3>1. PICK c \in Callers, e \in Disputes, to \in States : Stores(c, e, to)
      BY <1>2, HistoryStep
    <3>2. e = d
      BY <1>2, <3>1, StoredLast
    <3> QED
      BY <3>1, <3>2
  <2>2. i = Len(history[d]) + 1 /\ history'[d][i] = NewTransition(c)
    BY <1>2, <2>1, StoredLast
  <2>3. /\ pc[c] = "store" /\ request[c][1] = d /\ request[c][2] = to
        /\ NewTransition(c).to = to /\ NewTransition(c).from = seen[c].state
        /\ NewTransition(c).prev = seen[c].hash
    BY <2>1 DEF Stores, NewTransition
  <2>4. CASE to = "PENDING"
    BY <2>2, <2>3, <2>4 DEF SeenIsStored
  <2>5. CASE to # "PENDING"
    <3>1. /\ \E j \in DOMAIN history[d] : IsPosition(d, j, seen[c])
          /\ IsValidTransition(seen[c].state, to)
      BY <2>3, <2>5 DEF SeenIsStored, IsStored
    <3>2. PICK j \in DOMAIN history[d] : IsPosition(d, j, seen[c])
      BY <3>1
    <3>3. j \in 1..i - 1 /\ history'[d][j] = history[d][j]
      BY <2>1, <2>2, <3>2, HistoryGrows, StoredLast
    <3>4. Extends(d, j, i)'
      BY <2>2, <2>3, <3>1, <3>2, <3>3 DEF Extends, IsPosition, IsValidTransition
    <3> QED
      BY <2>2, <2>3, <2>5, <3>3, <3>4
  <2> QED
    BY <2>4, <2>5
<1> QED
  BY <1>1, <1>2

LEMMA TreeAlways == Spec => []TreeInv
<1>1. Init => TreeInv
  <2> SUFFICES ASSUME Init PROVE TreeInv
    OBVIOUS
  <2>1. TypeOK
    BY InitType
  <2>2. SeenIsStored
    BY DEF Init, SeenIsStored
  <2>3. OneCreator /\ HistoryIsATree
    BY DEF Init, OneCreator, HistoryIsATree
  <2> QED
    BY <2>1, <2>2, <2>3 DEF TreeInv
<1>2. TreeInv /\ [Next]_vars => TreeInv'
  BY TypeStep, SeenStep, CreatorStep, TreeStep DEF TreeInv
<1> QED
  BY <1>1, <1>2, PTL DEF Spec

(* Whatever calls overlap, the transitions of a dispute form a tree.       *)
THEOREM HistoryTree == Spec => []HistoryIsATree
<1>1. TreeInv => HistoryIsATree
  BY DEF TreeInv
<1> QED
  BY <1>1, TreeAlways, PTL

-----------------------------------------------------------------------------
(* One caller at a time.                                                   *)

(* Between its read and its store the one caller holds the latest          *)
(* transition of its dispute.                                              *)
SeenIsLatest == \A c \in Callers : pc[c] = "store" => seen[c] = Latest(request[c][1])

SequentialInv == TreeInv /\ SeenIsLatest

LEMMA LatestStep ==
  ASSUME NEW c0, Callers = {c0}, SequentialInv, [Next]_vars
  PROVE  SeenIsLatest'
<1> USE DEF SequentialInv, TreeInv
<1>1. c0 \in Callers
  OBVIOUS
<1> SUFFICES ASSUME pc'[c0] = "store"
             PROVE  seen'[c0] = Latest(request[c0][1])'
  BY DEF SeenIsLatest
<1>2. CASE UNCHANGED vars
  BY <1>1, <1>2 DEF vars, calls, SeenIsLatest, Latest
<1>3. ASSUME NEW d \in Disputes, NEW to \in States, Transition(c0, d, to)
      PROVE  seen'[c0] = Latest(request[c0][1])'
  <2>1. history' = history /\ seen' = seen /\ request'[c0] = <<d, to>> /\ history[d] = <<>>
    BY <1>1, <1>3 DEF Transition, IsNew, TypeOK
  <2>2. seen[c0] = Nothing
    BY <1>1, <1>3 DEF Transition, SeenIsStored
  <2> QED
    BY <2>1, <2>2 DEF Latest
<1>4. ASSUME ReadLatest(c0)
      PROVE  seen'[c0] = Latest(request[c0][1])'
  BY <1>1, <1>4 DEF ReadLatest, TypeOK, Latest
<1>5. ASSUME NEW how, End(c0, how)
      PROVE  FALSE
  BY <1>1, <1>5 DEF End, TypeOK
<1>6. ASSUME TakeResult(c0)
      PROVE  seen'[c0] = Latest(request[c0][1])'
  BY <1>1, <1>6 DEF TakeResult
<1> QED
  BY <1>1, <1>2, <1>3, <1>4, <1>5, <1>6
  DEF Next, Step, Continue, RefuseRequest, RefuseTransition, CreateTransition, RejectTransition,
      StoreUnavailable

(* A transition that extends the latest one moves the dispute.             *)
LEMMA LifecycleStep ==
  ASSUME NEW c0, Callers = {c0}, SequentialInv, [Next]_vars
  PROVE  [Lifecycle!Next]_([d \in Disputes |-> Latest(d).state])
<1> USE DEF SequentialInv, TreeInv
<1> DEFINE st == [d \in Disputes |-> Latest(d).state]
<1>1. CASE UNCHANGED history
  BY <1>1 DEF Latest
<1>2. ASSUME NEW d \in Disputes, NEW to \in States, Stores(c0, d, to)
      PROVE  Lifecycle!Next
  <2>1. /\ pc[c0] = "store" /\ request[c0] = <<d, to>> /\ seen[c0] = Latest(d)
        /\ NewTransition(c0).to = to
    BY <1>2 DEF Stores, SeenIsLatest, NewTransition
  <2>2. Latest(d)'.state = to
    BY <1>2, <2>1, StoredLast DEF Latest
  <2>3. \A e \in Disputes : e # d => Latest(e)'.state = Latest(e).state
    BY <1>2, StoredLast DEF Latest
  <2>4. st' = [st EXCEPT ![d] = to]
    BY <2>2, <2>3
  <2>5. CASE to = "PENDING"
    <3>1. Latest(d) = Nothing
      BY <2>1, <2>5 DEF SeenIsStored
    <3>2. Lifecycle!Create(d)
      BY <2>4, <2>5, <3>1 DEF Nothing, Lifecycle!Create
    <3> QED
      BY <3>2 DEF Lifecycle!Next
  <2>6. CASE to # "PENDING"
    <3>1. st[d] \in States /\ to \in AllowedTransitions[st[d]]
      BY <2>1, <2>6 DEF SeenIsStored, IsValidTransition
    <3>2. Lifecycle!Move(d, to)
      BY <2>4, <3>1 DEF Lifecycle!Move, Lifecycle!AllowedTransitions, AllowedTransitions,
                        Lifecycle!States, States
    <3> QED
      BY <3>2 DEF Lifecycle!Next, Lifecycle!States, States
  <2> QED
    BY <2>5, <2>6
<1> QED
  BY <1>1, <1>2, HistoryStep

(* One caller at a time, the state machine implements the life cycle of    *)
(* DisputeLifecycle, over either store and whatever fails.                 *)
THEOREM SequentialRefinement ==
  ASSUME NEW c0, Callers = {c0}
  PROVE  Spec => ImplementsLifecycle
<1>1. Init => Lifecycle!Init
  BY DEF Init, Latest, Nothing, Lifecycle!Init
<1>2. Init => SeenIsLatest
  BY DEF Init, SeenIsLatest
<1>3. TreeInv /\ SeenIsLatest /\ [Next]_vars => SeenIsLatest'
  BY LatestStep DEF SequentialInv
<1>4. TreeInv /\ SeenIsLatest /\ [Next]_vars
        => [Lifecycle!Next]_([d \in Disputes |-> Latest(d).state])
  BY LifecycleStep DEF SequentialInv
<1> QED
  BY <1>1, <1>2, <1>3, <1>4, TreeAlways, PTL DEF Spec, ImplementsLifecycle, Lifecycle!Spec

(* In the life cycle REVERSED is final.                                    *)
LEMMA ReversedStays ==
  ASSUME [Lifecycle!Next]_([d \in Disputes |-> Latest(d).state]), NEW d \in Disputes,
         CurrentState(d) = "REVERSED"
  PROVE  CurrentState(d)' = "REVERSED"
<1> DEFINE st == [e \in Disputes |-> Latest(e).state]
<1>1. st[d] = "REVERSED"
  BY DEF CurrentState
<1>2. ASSUME NEW e \in Disputes, Lifecycle!Create(e)
      PROVE  st'[d] = "REVERSED"
  BY <1>1, <1>2 DEF Lifecycle!Create
<1>3. ASSUME NEW e \in Disputes, NEW to \in Lifecycle!States, Lifecycle!Move(e, to)
      PROVE  st'[d] = "REVERSED"
  <2>1. e # d
    BY <1>1, <1>3 DEF Lifecycle!Move, Lifecycle!AllowedTransitions, Lifecycle!States
  <2> QED
    BY <1>1, <1>3, <2>1 DEF Lifecycle!Move
<1>4. st'[d] = "REVERSED"
  BY <1>1, <1>2, <1>3 DEF Lifecycle!Next
<1>5. Latest(d)'.state = "REVERSED"
  BY <1>4
<1>6. history'[d] # <<>>
  BY <1>5 DEF Latest, Nothing
<1> QED
  BY <1>5, <1>6 DEF CurrentState

(* REVERSED is the terminal state that the documentation calls it as long  *)
(* as one caller at a time asks for transitions.                           *)
THEOREM SequentialTerminal ==
  ASSUME NEW c0, Callers = {c0}
  PROVE  Spec => ReversedIsTerminal
<1>1. Init => SeenIsLatest
  BY DEF Init, SeenIsLatest
<1>2. TreeInv /\ SeenIsLatest /\ [Next]_vars => SeenIsLatest'
  BY LatestStep DEF SequentialInv
<1>3. TreeInv /\ SeenIsLatest /\ [Next]_vars
        => [\A d \in Disputes : CurrentState(d) = "REVERSED" => CurrentState(d)' = "REVERSED"]_vars
  BY LifecycleStep, ReversedStays DEF SequentialInv
<1> QED
  BY <1>1, <1>2, <1>3, TreeAlways, PTL DEF Spec, ReversedIsTerminal

(* With one caller what is stored carries the hash of the latest.          *)
LEMMA ChainStep ==
  ASSUME NEW c0, Callers = {c0}, SequentialInv, HistoriesAreChained, [Next]_vars
  PROVE  HistoriesAreChained'
<1> USE DEF SequentialInv, TreeInv
<1> SUFFICES ASSUME NEW d \in Disputes, NEW i \in DOMAIN history'[d], i > 1
             PROVE  history'[d][i].prev = history'[d][i - 1].hash
  BY DEF HistoriesAreChained, ChainIsContinuous
<1>1. CASE UNCHANGED history
  BY <1>1 DEF HistoriesAreChained, ChainIsContinuous
<1>2. ASSUME NEW e \in Disputes, NEW to \in States, Stores(c0, e, to)
      PROVE  history'[d][i].prev = history'[d][i - 1].hash
  <2>1. CASE e # d
    BY <1>2, <2>1, StoredLast DEF HistoriesAreChained, ChainIsContinuous
  <2>2. CASE e = d
    <3>1. /\ DOMAIN history'[d] = 1..Len(history[d]) + 1
          /\ DOMAIN history[d] = 1..Len(history[d])
          /\ Len(history[d]) \in Nat
          /\ history'[d][Len(history[d]) + 1] = NewTransition(c0)
      BY <1>2, <2>2, StoredLast
    <3>2. \A k \in DOMAIN history[d] : history'[d][k] = history[d][k]
      BY HistoryGrows
    <3>3. CASE i \in DOMAIN history[d]
      <4>1. i - 1 \in DOMAIN history[d]
        BY <3>1, <3>3
      <4> QED
        BY <3>2, <3>3, <4>1 DEF HistoriesAreChained, ChainIsContinuous
    <3>4. CASE i \notin DOMAIN history[d]
      <4>1. i = Len(history[d]) + 1 /\ Len(history[d]) \in DOMAIN history[d]
        BY <3>1, <3>4
      <4>2. history'[d][i].prev = Latest(d).hash
        BY <1>2, <2>2, <3>1, <4>1 DEF Stores, NewTransition, SeenIsLatest
      <4>3. Latest(d).hash = history[d][Len(history[d])].hash
        BY <3>1, <4>1 DEF Latest
      <4>4. i - 1 = Len(history[d])
        BY <3>1, <4>1
      <4> QED
        BY <3>2, <4>1, <4>2, <4>3, <4>4
    <3> QED
      BY <3>3, <3>4
  <2> QED
    BY <2>1, <2>2
<1> QED
  BY <1>1, <1>2, HistoryStep

(* One caller at a time, each transition carries the hash of the one       *)
(* before, over either store and whatever fails.                           *)
THEOREM SequentialChains ==
  ASSUME NEW c0, Callers = {c0}
  PROVE  Spec => []HistoriesAreChained
<1>1. Init => SeenIsLatest
  BY DEF Init, SeenIsLatest
<1>2. Init => HistoriesAreChained
  BY DEF Init, HistoriesAreChained, ChainIsContinuous
<1>3. TreeInv /\ SeenIsLatest /\ [Next]_vars => SeenIsLatest'
  BY LatestStep DEF SequentialInv
<1>4. TreeInv /\ SeenIsLatest /\ HistoriesAreChained /\ [Next]_vars => HistoriesAreChained'
  BY ChainStep DEF SequentialInv
<1> QED
  BY <1>1, <1>2, <1>3, <1>4, TreeAlways, PTL DEF Spec

-----------------------------------------------------------------------------
(* How far a history forks.                                                *)

(* What extends a transition, and who still can: the transitions that      *)
(* carry its hash, and the callers that hold it between read and store.    *)
Extending(d, j) == {i \in DOMAIN history[d] : history[d][i].prev = j}

Holding(d, j) == {c \in Callers : pc[c] = "store" /\ request[c][1] = d /\ seen[c].hash = j}

(* The hash of a transition is its position, and what it carries is an     *)
(* earlier one's, or none's.                                               *)
Positions ==
  \A d \in Disputes : \A i \in DOMAIN history[d] :
    history[d][i].hash = i /\ history[d][i].prev < i

ForkInv ==
  \A d \in Disputes : \A j \in DOMAIN history[d] :
    Cardinality(Extending(d, j)) + Cardinality(Holding(d, j)) <= Cardinality(Callers)

(* Positions are finitely many, and one more element is one more at most.  *)
LEMMA FinitelyMany ==
  ASSUME NEW n \in Nat, NEW S, S \subseteq 1..n
  PROVE  IsFiniteSet(S) /\ Cardinality(S) \in Nat
<1>1. IsFiniteSet(1..n)
  BY FS_Interval
<1>2. IsFiniteSet(S)
  BY <1>1, FS_Subset
<1> QED
  BY <1>2, FS_CardinalityType

LEMMA OneMore ==
  ASSUME NEW S, NEW T, NEW x, IsFiniteSet(S), T \subseteq S \cup {x}
  PROVE  Cardinality(T) <= Cardinality(S) + 1
<1>1. Cardinality(S) \in Nat
  BY FS_CardinalityType
<1>2. IsFiniteSet(S \cup {x})
  BY FS_AddElement
<1>3. Cardinality(S \cup {x}) = IF x \in S THEN Cardinality(S) ELSE Cardinality(S) + 1
  BY FS_AddElement
<1>4. Cardinality(T) <= Cardinality(S \cup {x}) /\ IsFiniteSet(T)
  BY <1>2, FS_Subset
<1>5. Cardinality(T) \in Nat /\ Cardinality(S \cup {x}) \in Nat
  BY <1>2, <1>4, FS_CardinalityType
<1> QED
  BY <1>1, <1>3, <1>4, <1>5

(* What a caller holds is a position of the history, or none.              *)
LEMMA HeldPosition ==
  ASSUME TreeInv, Positions, NEW c \in Callers, pc[c] = "store"
  PROVE  seen[c].hash \in 0..Len(history[request[c][1]])
<1> USE DEF TreeInv
<1>1. PICK d \in Disputes, to \in States : request[c] = <<d, to>>
  BY DEF TypeOK
<1>2. history[d] \in Seq(StateTransition)
  BY DEF TypeOK
<1>3. CASE to = "PENDING"
  BY <1>1, <1>2, <1>3 DEF SeenIsStored, Nothing
<1>4. CASE to # "PENDING"
  <2>1. PICK j \in DOMAIN history[d] : IsPosition(d, j, seen[c])
    BY <1>1, <1>4 DEF SeenIsStored, IsStored
  <2>2. seen[c].hash = j
    BY <2>1 DEF IsPosition, Positions
  <2> QED
    BY <1>1, <1>2, <2>2
<1> QED
  BY <1>3, <1>4

LEMMA PositionsStep ==
  ASSUME TreeInv, Positions, [Next]_vars
  PROVE  Positions'
<1> USE DEF TreeInv
<1> SUFFICES ASSUME NEW d \in Disputes, NEW i \in DOMAIN history'[d]
             PROVE  history'[d][i].hash = i /\ history'[d][i].prev < i
  BY DEF Positions
<1>1. CASE i \in DOMAIN history[d]
  BY <1>1, HistoryGrows DEF Positions
<1>2. CASE i \notin DOMAIN history[d]
  <2>1. PICK c \in Callers, e \in Disputes, to \in States : Stores(c, e, to)
    BY <1>2, HistoryStep
  <2>2. e = d
    BY <1>2, <2>1, StoredLast
  <2>3. /\ Len(history[d]) \in Nat
        /\ i = Len(history[d]) + 1
        /\ history'[d][i] = NewTransition(c)
    BY <1>2, <2>1, <2>2, StoredLast
  <2>4. /\ pc[c] = "store" /\ request[c][1] = d
        /\ NewTransition(c).hash = Len(history[d]) + 1
        /\ NewTransition(c).prev = seen[c].hash
    BY <2>1, <2>2 DEF Stores, NewTransition
  <2>5. seen[c].hash \in 0..Len(history[d])
    BY <2>4, HeldPosition
  <2> QED
    BY <2>3, <2>4, <2>5
<1> QED
  BY <1>1, <1>2

(* Nobody comes to hold a transition that is no longer the latest.         *)
LEMMA HoldingShrinks ==
  ASSUME TreeInv, Positions, [Next]_vars, NEW d \in Disputes,
         NEW j \in DOMAIN history[d], j # Len(history[d])
  PROVE  Holding(d, j)' \subseteq Holding(d, j)
<1> USE DEF TreeInv
<1> SUFFICES ASSUME NEW c \in Callers,
                    pc'[c] = "store", request'[c][1] = d, seen'[c].hash = j
             PROVE  pc[c] = "store" /\ request[c][1] = d /\ seen[c].hash = j
  BY DEF Holding
<1>1. j # 0
  BY DEF TypeOK
<1>2. ASSUME NEW e \in Disputes, NEW to \in States, Transition(c, e, to)
      PROVE  FALSE
  BY <1>1, <1>2 DEF Transition, SeenIsStored, Nothing
<1>3. ASSUME ReadLatest(c)
      PROVE  FALSE
  <2>1. seen'[c] = Latest(d) /\ request[c][1] = d
    BY <1>3 DEF ReadLatest, TypeOK
  <2>2. history[d] # <<>> /\ Len(history[d]) \in DOMAIN history[d]
    BY DEF TypeOK
  <2>3. Latest(d).hash = Len(history[d])
    BY <2>2 DEF Latest, Positions
  <2> QED
    BY <2>1, <2>3
<1> QED
  BY <1>2, <1>3, CallerStep

LEMMA ForkStep ==
  ASSUME IsFiniteSet(Callers), TreeInv, Positions, ForkInv, [Next]_vars
  PROVE  ForkInv'
<1> USE DEF TreeInv
<1> SUFFICES ASSUME NEW d \in Disputes, NEW j \in DOMAIN history'[d]
             PROVE  Cardinality(Extending(d, j)') + Cardinality(Holding(d, j)')
                      <= Cardinality(Callers)
  BY Zenon DEF ForkInv, Extending, Holding
<1>1. TypeOK' /\ Positions'
  BY TypeStep, PositionsStep
<1>2. /\ DOMAIN history[d] = 1..Len(history[d]) /\ Len(history[d]) \in Nat
      /\ DOMAIN history'[d] = 1..Len(history'[d]) /\ Len(history'[d]) \in Nat
  BY <1>1 DEF TypeOK
<1>3. /\ Cardinality(Callers) \in Nat
      /\ IsFiniteSet(Holding(d, j)) /\ Cardinality(Holding(d, j)) \in Nat
      /\ Cardinality(Holding(d, j)') \in Nat
      /\ Cardinality(Holding(d, j)') <= Cardinality(Callers)
  <2>1. Holding(d, j) \subseteq Callers /\ Holding(d, j)' \subseteq Callers
    BY DEF Holding
  <2> QED
    BY <2>1, FS_Subset, FS_CardinalityType
<1>4. IsFiniteSet(Extending(d, j)) /\ Cardinality(Extending(d, j)) \in Nat
  <2>1. Extending(d, j) \subseteq 1..Len(history[d])
    BY <1>2 DEF Extending
  <2> QED
    BY <1>2, <2>1, FinitelyMany
<1>5. CASE j = Len(history'[d])
  <2>1. Extending(d, j)' = {}
    BY <1>1, <1>2, <1>5 DEF Extending, Positions
  <2> QED
    BY <1>3, <2>1, FS_EmptySet
<1>6. CASE j # Len(history'[d]) /\ history'[d] = history[d]
  <2>1. Extending(d, j)' = Extending(d, j)
    BY <1>6 DEF Extending
  <2>2. j \in DOMAIN history[d] /\ j # Len(history[d])
    BY <1>6
  <2>3. Holding(d, j)' \subseteq Holding(d, j)
    BY <2>2, HoldingShrinks
  <2>4. Cardinality(Holding(d, j)') <= Cardinality(Holding(d, j))
    BY <1>3, <2>3, FS_Subset
  <2>5. Cardinality(Extending(d, j)) + Cardinality(Holding(d, j)) <= Cardinality(Callers)
    BY <2>2 DEF ForkInv
  <2> QED
    BY <1>3, <1>4, <2>1, <2>4, <2>5
<1>7. ASSUME NEW c \in Callers, NEW to \in States, Stores(c, d, to), j # Len(history'[d])
      PROVE  Cardinality(Extending(d, j)') + Cardinality(Holding(d, j)') <= Cardinality(Callers)
  <2> DEFINE new == Len(history[d]) + 1
  <2>1. /\ DOMAIN history'[d] = 1..new /\ Len(history'[d]) = new
        /\ history'[d][new] = NewTransition(c)
    BY <1>7, StoredLast
  <2>2. j \in DOMAIN history[d]
    BY <1>2, <1>7, <2>1
  <2>3. Cardinality(Extending(d, j)) + Cardinality(Holding(d, j)) <= Cardinality(Callers)
    BY <2>2 DEF ForkInv
  <2>4. /\ pc[c] = "store" /\ request[c][1] = d /\ pc'[c] = "idle"
        /\ NewTransition(c).prev = seen[c].hash
    BY <1>7 DEF Stores, End, NewTransition, TypeOK
  <2>5. \A i \in DOMAIN history[d] : history'[d][i] = history[d][i]
    BY HistoryGrows
  <2>6. Extending(d, j)' \subseteq Extending(d, j)
          \cup (IF seen[c].hash = j THEN {new} ELSE {})
    BY <1>2, <2>1, <2>4, <2>5 DEF Extending
  <2>7. CASE seen[c].hash = j
    <3>1. Cardinality(Extending(d, j)') <= Cardinality(Extending(d, j)) + 1
      <4>1. Extending(d, j)' \subseteq Extending(d, j) \cup {new}
        BY <2>6, <2>7
      <4> HIDE DEF new
      <4> QED
        BY <1>4, <4>1, OneMore
    <3>2. Cardinality(Holding(d, j)') <= Cardinality(Holding(d, j)) - 1
      <4>1. c \in Holding(d, j)
        BY <2>4, <2>7 DEF Holding
      <4>2. c \notin Holding(d, j)'
        BY <2>4 DEF Holding
      <4>3. Holding(d, j)' \subseteq Holding(d, j)
        <5>1. CASE j # Len(history[d])
          BY <2>2, <5>1, HoldingShrinks
        <5>2. CASE j = Len(history[d])
          <6> SUFFICES ASSUME NEW b \in Callers, pc'[b] = "store", request'[b][1] = d,
                              seen'[b].hash = j
                       PROVE  pc[b] = "store" /\ request[b][1] = d /\ seen[b].hash = j
            BY DEF Holding
          <6>1. b # c /\ UNCHANGED <<pc[b], request[b], seen[b]>>
            BY <1>7, <2>4 DEF Stores, End, TypeOK
          <6> QED
            BY <6>1
        <5> QED
          BY <5>1, <5>2
      <4>4. Holding(d, j)' \subseteq Holding(d, j) \ {c}
        BY <4>2, <4>3
      <4>5. /\ IsFiniteSet(Holding(d, j) \ {c})
            /\ Cardinality(Holding(d, j) \ {c}) = Cardinality(Holding(d, j)) - 1
        BY <1>3, <4>1, FS_RemoveElement
      <4>6. Cardinality(Holding(d, j)') <= Cardinality(Holding(d, j) \ {c})
        BY <4>4, <4>5, FS_Subset
      <4> QED
        BY <4>5, <4>6
    <3>3. IsFiniteSet(Extending(d, j)') /\ Cardinality(Extending(d, j)') \in Nat
      <4>1. Extending(d, j)' \subseteq 1..Len(history'[d])
        BY <1>2 DEF Extending
      <4> QED
        BY <1>2, <4>1, FinitelyMany
    <3> QED
      BY <1>3, <1>4, <2>3, <3>1, <3>2, <3>3
  <2>8. CASE seen[c].hash # j
    <3>1. Extending(d, j)' \subseteq Extending(d, j)
      BY <2>6, <2>8
    <3>2. Cardinality(Extending(d, j)') <= Cardinality(Extending(d, j))
          /\ IsFiniteSet(Extending(d, j)')
      BY <1>4, <3>1, FS_Subset
    <3>3. Cardinality(Extending(d, j)') \in Nat
      BY <3>2, FS_CardinalityType
    <3>4. Holding(d, j)' \subseteq Holding(d, j)
      <4> SUFFICES ASSUME NEW b \in Callers, pc'[b] = "store", request'[b][1] = d,
                          seen'[b].hash = j
                   PROVE  pc[b] = "store" /\ request[b][1] = d /\ seen[b].hash = j
        BY DEF Holding
      <4>1. b # c /\ UNCHANGED <<pc[b], request[b], seen[b]>>
        BY <1>7, <2>4 DEF Stores, End, TypeOK
      <4> QED
        BY <4>1
    <3>5. Cardinality(Holding(d, j)') <= Cardinality(Holding(d, j))
      BY <1>3, <3>4, FS_Subset
    <3> QED
      BY <1>3, <1>4, <2>3, <3>2, <3>3, <3>5
  <2> QED
    BY <2>7, <2>8
<1>8. ASSUME NEW c \in Callers, NEW e \in Disputes, NEW to \in States, Stores(c, e, to)
      PROVE  history'[d] = history[d] \/ e = d
  BY <1>8, StoredLast
<1> QED
  BY <1>5, <1>6, <1>7, <1>8, HistoryStep

(* However many calls overlap, a transition is extended by at most as many *)
(* others as there are callers.                                            *)
THEOREM ForksBounded ==
  ASSUME IsFiniteSet(Callers)
  PROVE  Spec => []ForksAreBounded
<1>1. Init => Positions /\ ForkInv
  BY DEF Init, Positions, ForkInv
<1>2. TreeInv /\ Positions /\ ForkInv /\ [Next]_vars => Positions' /\ ForkInv'
  BY PositionsStep, ForkStep
<1>3. TreeInv /\ Positions /\ ForkInv => ForksAreBounded
  <2> SUFFICES ASSUME TreeInv, Positions, ForkInv, NEW d \in Disputes, NEW j \in DOMAIN history[d]
               PROVE  Cardinality({i \in DOMAIN history[d] : Extends(d, j, i)})
                        <= Cardinality(Callers)
    BY DEF ForksAreBounded
  <2> DEFINE E == {i \in DOMAIN history[d] : Extends(d, j, i)}
  <2>1. E \subseteq Extending(d, j)
    BY DEF Extends, Extending, Positions
  <2>2. DOMAIN history[d] = 1..Len(history[d]) /\ Len(history[d]) \in Nat
    BY DEF TreeInv, TypeOK
  <2>3. IsFiniteSet(Extending(d, j)) /\ Cardinality(Extending(d, j)) \in Nat
    <3>1. Extending(d, j) \subseteq 1..Len(history[d])
      BY <2>2 DEF Extending
    <3> QED
      BY <2>2, <3>1, FinitelyMany
  <2> HIDE DEF E
  <2>4. IsFiniteSet(E) /\ Cardinality(E) <= Cardinality(Extending(d, j))
    BY <2>1, <2>3, FS_Subset
  <2>5. Holding(d, j) \subseteq Callers
    BY DEF Holding
  <2>6. Cardinality(Holding(d, j)) \in Nat /\ Cardinality(Callers) \in Nat
    BY <2>5, FS_Subset, FS_CardinalityType
  <2>7. Cardinality(E) \in Nat
    BY <2>4, FS_CardinalityType
  <2>8. Cardinality(Extending(d, j)) + Cardinality(Holding(d, j)) <= Cardinality(Callers)
    BY DEF ForkInv
  <2>9. Cardinality(E) <= Cardinality(Callers)
    BY <2>3, <2>4, <2>6, <2>7, <2>8
  <2> QED
    BY <2>9 DEF E
<1> QED
  BY <1>1, <1>2, <1>3, TreeAlways, PTL DEF Spec

=============================================================================
