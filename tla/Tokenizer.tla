----------------------------- MODULE Tokenizer -----------------------------
(***************************************************************************)
(* The validation of card numbers of internal/vault/tokenizer.go.  A       *)
(* number is a sequence of digits, Separators (a space or a dash) and      *)
(* Others (any other character).                                           *)
(***************************************************************************)
EXTENDS Integers, Sequences, SequencesExt

CONSTANT Pans  (* the numbers that are looked at *)

Separator == -1
Other == 10

Digits == 0..9

(* The sum of the digits of twice a digit.                                 *)
Doubled(d) == IF 2 * d > 9 THEN 2 * d - 9 ELSE 2 * d

(* Every second digit counts twice, and never the last.                    *)
luhnCheck(pan) ==
  LET weight(i) == IF (i - 1) % 2 = Len(pan) % 2 THEN Doubled(pan[i]) ELSE pan[i]
  IN  FoldSeq(+, 0, [i \in 1..Len(pan) |-> weight(i)]) % 10 = 0

validatePAN(pan) ==
  LET digits == SelectSeq(pan, LAMBDA d : d # Separator) IN
  /\ Len(digits) \in 13..19
  /\ \A i \in DOMAIN digits : digits[i] \in Digits
  /\ luhnCheck(digits)

(* A slip of the pen in a valid number is refused, with or without         *)
(* separators: one digit written wrong, or two neighbours swapped, unless  *)
(* they are 0 and 9, whose sum is the same in either order.                *)
Written(pan, i, d) == [pan EXCEPT ![i] = d]
Swapped(pan, i) == [pan EXCEPT ![i] = pan[i + 1], ![i + 1] = pan[i]]

SlipsAreRefused ==
  \A pan \in {p \in Pans : validatePAN(p)} :
    /\ \A i \in DOMAIN pan, d \in Digits :
         pan[i] \in Digits \ {d} => ~validatePAN(Written(pan, i, d))
    /\ \A i \in DOMAIN pan \ {Len(pan)} :
         {pan[i], pan[i + 1]} \subseteq Digits =>
           (validatePAN(Swapped(pan, i)) <=> pan[i] = pan[i + 1] \/ {pan[i], pan[i + 1]} = {0, 9})

=============================================================================
