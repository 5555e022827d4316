-------------------------- MODULE DisputeLifecycle --------------------------
(***************************************************************************)
(* What the dispute state machine promises: every dispute has one state,   *)
(* it is created PENDING, and it moves along AllowedTransitions until it   *)
(* is REVERSED, which is final.                                            *)
(***************************************************************************)

CONSTANT Disputes  (* dispute ids *)

VARIABLE state     (* the state of each dispute, "none" before it exists *)

States == {"PENDING", "AUTHORIZED", "SETTLED", "DISPUTED", "REVERSED"}

AllowedTransitions ==
  [s \in States |->
     CASE s = "PENDING"    -> {"AUTHORIZED", "REVERSED"}
       [] s = "AUTHORIZED" -> {"SETTLED", "REVERSED"}
       [] s = "SETTLED"    -> {"DISPUTED", "REVERSED"}
       [] s = "DISPUTED"   -> {"REVERSED"}
       [] s = "REVERSED"   -> {}]

Init == state = [d \in Disputes |-> "none"]

Create(d) ==
  /\ state[d] = "none"
  /\ state' = [state EXCEPT ![d] = "PENDING"]

Move(d, to) ==
  /\ state[d] # "none"
  /\ to \in AllowedTransitions[state[d]]
  /\ state' = [state EXCEPT ![d] = to]

Next == \E d \in Disputes : Create(d) \/ \E to \in States : Move(d, to)

Spec == Init /\ [][Next]_state

=============================================================================
