---------------------------- MODULE MCTokenBucket ----------------------------
(* Small instances of TokenBucket for TLC. *)
EXTENDS TokenBucket, TLC

CONSTANTS c1, c2

(* The process of c2 is a tick ahead of Redis, that of c1 is not. *)
SkewedClocks == (c1 :> 0) @@ (c2 :> 1)

=============================================================================
