--------------------------- MODULE DisputeReasons ---------------------------
(***************************************************************************)
(* The reason codes of internal/disputes/reasons.go and what a request for *)
(* a dispute is checked for.  A request is a record with the journal entry *)
(* it disputes, the merchant, the amount and the reason code; the fields   *)
(* that must only not be empty are left out.                               *)
(***************************************************************************)
EXTENDS Integers

(* Visa writes its codes with a point, Mastercard without.                 *)
VisaCodes ==
  {"10.1", "10.2", "11.1", "11.2", "11.3", "12.1", "12.2", "12.5", "13.1", "13.2", "13.7",
   "13.8", "13.9", "14.1", "14.2", "14.3", "14.4", "14.5", "14.6", "14.7", "14.8"}

MastercardCodes ==
  {"4807", "4808", "4837", "4840", "4841", "4842", "4849", "4850", "4851", "4852", "4853",
   "4854", "4855", "4859", "4860", "4863", "4870", "4871"}

ReasonCodes == VisaCodes \cup MastercardCodes

FraudCodes ==
  {"11.1", "11.2", "11.3", "12.1", "12.2", "12.5", "13.1", "13.2", "13.7", "13.8", "13.9",
   "14.1", "4840", "4841", "4842", "4863", "4870", "4871"}

AuthorizationCodes == {"10.1", "10.2", "4807", "4808"}

WithoutFee == {"10.2", "4808"}

(* Mutant: only an authorization code is asked for.                        *)
ValidateDisputeRequestOfFraud(request, original) ==
  /\ original > 0
  /\ request.amount > 0 /\ request.amount <= original
  /\ request.code \in ReasonCodes \ AuthorizationCodes

(* The service never sets the flag a fraud code needs, nor the code an     *)
(* authorization code needs.                                               *)
ValidateDisputeRequest(request, original) ==
  /\ original > 0
  /\ request.amount > 0 /\ request.amount <= original
  /\ request.code \in ReasonCodes \ (FraudCodes \cup AuthorizationCodes)

min(a, b) == IF a < b THEN a ELSE b
max(a, b) == IF a > b THEN a ELSE b

(* The fee in thousandths of the unit of the amount: 2% between 5 and 15,  *)
(* or 2.5% between 8 and 25.                                               *)
calculateChargebackFee(amount, code) ==
  IF code \in VisaCodes THEN min(15000, max(5000, amount * 20))
                        ELSE min(25000, max(8000, amount * 25))

(* The amount of a hold, fee included, in thousandths.                     *)
HeldAmount(request) ==
  request.amount * 1000
    + IF request.code \in WithoutFee THEN 0 ELSE calculateChargebackFee(request.amount, request.code)

(* Every hold takes more than the amount in dispute, but never more than   *)
(* twenty-five more, and a larger dispute of one code holds more.           *)
Held(amount, code) == HeldAmount([amount |-> amount, code |-> code])

HoldsCoverTheDispute(amounts) ==
  \A code \in ReasonCodes \ WithoutFee, amount \in amounts :
    /\ Held(amount, code) >= amount * 1000 + 5000
    /\ Held(amount, code) <= amount * 1000 + 25000
    /\ Held(amount, code) < Held(amount + 1, code)

=============================================================================
