------------------------------ MODULE MCVault ------------------------------
(* Small instances of Vault and Tokenizer for TLC. *)
EXTENDS Vault, Tokenizer

(* Numbers of every valid length and one to each side, that end in any two   *)
(* digits: plain, in groups, and with a letter.                              *)
Numbers(n) == {[i \in 1..n |-> IF i <= n - 2 THEN i % 10 ELSE IF i = n THEN last ELSE next] :
                  next \in Digits, last \in Digits}

Grouped(pan) == SubSeq(pan, 1, 4) \o <<Separator>> \o SubSeq(pan, 5, Len(pan))

Lettered(pan) == [pan EXCEPT ![1] = Other]

SamplePans ==
  LET plain == UNION {Numbers(n) : n \in 12..20}
  IN  plain \cup {Grouped(p) : p \in plain} \cup {Lettered(p) : p \in plain}

(* TLC evaluates this before the run: luhnCheck is a function, and has no    *)
(* state to look at.                                                         *)
ASSUME SlipsAreRefused

=============================================================================
