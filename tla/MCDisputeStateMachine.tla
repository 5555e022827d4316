----------------------- MODULE MCDisputeStateMachine -----------------------
(* Small instances of DisputeStateMachine for TLC. *)
EXTENDS DisputeStateMachine, TLC

CONSTANTS d1, d2, d3

(* Every dispute in memory; the last of three over migration 021. *)
InMemory == [d \in Disputes |-> "memory"]
LastOverMigration == (d1 :> "memory") @@ (d2 :> "memory") @@ (d3 :> "postgres")

Symmetry == Permutations(Callers)

=============================================================================
