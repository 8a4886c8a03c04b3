---------------------------- MODULE AggregateOps ----------------------------
(***************************************************************************)
(* The operations on secret-shared values that bit_sum, int_sum, xor_op    *)
(* and max_op share, and the results server 0 reports.                     *)
(*                                                                         *)
(* A share payload is the set of its nonzero positions, so that combining  *)
(* two XOR shares is their symmetric difference: bit positions for sums,   *)
(* <<index, token>> pairs for AND/OR/MAX/MIN, where a token stands for one *)
(* random 64-bit word (random words do not cancel unless they are equal).  *)
(***************************************************************************)
EXTENDS OTConversion, FiniteSetsExt

CONSTANT Modulus      \* Int_Modulus

ASSUME ModulusAssumption == Modulus \in Nat \ {0}

Server == {0, 1}
SumOps == {"BIT_SUM", "INT_SUM"}
MaxOps == {"MAX_OP", "MIN_OP"}
XorOps == {"AND_OP", "OR_OP"} \cup MaxOps

Pending   == [ret |-> "none", ans |-> 0]
Invalid   == [ret |-> "RET_INVALID", ans |-> 0]
Answer(v) == [ret |-> "RET_ANS", ans |-> v]
Runaway   == [ret |-> "crash", ans |-> 0]

\* The integer whose binary digits are the positions of a payload.
Number(bits) == MapThenSumSet(LAMBDA k : 2 ^ k, bits)

\* XOR of a family of payloads: the positions an odd number of them hold.
XorAll(payloads, S) ==
    {p \in UNION {payloads[x] : x \in S} :
        Cardinality({x \in S : p \in payloads[x]}) % 2 = 1}

\* bit_sum adds 64-bit words, int_sum adds modulo Int_Modulus.
SumModulus(type) == IF type = "BIT_SUM" THEN Word ELSE Modulus

\* num_valid < total_inputs * (1 - INVALID_THRESHOLD), the threshold being 0.5
BelowThresholdIgnored(num_valid, total_inputs) == FALSE
BelowThresholdInclusive(num_valid, total_inputs) == 2 * num_valid <= total_inputs
BelowThreshold(num_valid, total_inputs) == 2 * num_valid < total_inputs

\* What server 0 reads off the XOR of all counted payloads. MAX and MIN take
\* the highest index at which it is not zero; with none the scan leaves the
\* arrays.
Decode(msg, xor) ==
    LET indices == {p[1] : p \in xor} IN
    CASE msg.type = "AND_OP" -> Answer(IF xor = {} THEN 1 ELSE 0)
      [] msg.type = "OR_OP"  -> Answer(IF xor # {} THEN 1 ELSE 0)
      [] msg.type \in MaxOps /\ indices = {} -> Runaway
      [] msg.type = "MAX_OP" /\ indices # {} -> Answer(Max(indices))
      [] msg.type = "MIN_OP" /\ indices # {} -> Answer(msg.max_inp - Max(indices))
=============================================================================
