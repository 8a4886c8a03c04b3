----------------------------- MODULE SnipClient -----------------------------
(***************************************************************************)
(* What the meta-client (client.cpp) makes of a batch of VAR, STDDEV or    *)
(* LINREG submissions: honest ones (var_op_helper, lin_reg_helper) and     *)
(* those of the *_invalid routines. A submission is an array of fields, x  *)
(* and its square, or x_0 .. , y, the x_i * x_j and the x_i * y, in XOR    *)
(* shares, with a proof of some inputs.                                    *)
(*                                                                         *)
(* A share is the set of its nonzero bit positions. `degree' is the number *)
(* of leading fields of num_bits bits; the others have twice as many.      *)
(***************************************************************************)
EXTENDS AggregateOps, Circuit

Shapes == {"ok", "big", "bigshare", "bigsquare", "junk", "junkproved",
           "corrupt", "mismatch0", "dup0", "dup1"}
Moments == {"VAR_OP", "STDDEV_OP"}

max_int(num_bits) == 2 ^ num_bits
BitsOf(v) == {k \in 0 .. 12 : (v \div 2 ^ k) % 2 = 1}

\* The client's guard, for values of any routine but the *_invalid ones.
ModulusHolds(num_bits, numreqs) == Modulus >= 2 ^ (2 * num_bits) * numreqs

Inputs(type, values) ==
    IF type \in Moments THEN VarInputs(values[1])
    ELSE LinRegInputs(SubSeq(values, 1, Len(values) - 1), values[Len(values)])

\* The field the routine spoils, and what it puts there.
SpoiltField(type, degree, shape) ==
    IF shape = "junkproved" /\ type = "LINREG_OP" THEN degree + 1 ELSE degree
Spoil(v, num_bits) == (v + 10) % (max_int(num_bits) * max_int(num_bits))

\* Submission n with the given shape; values are what the client drew for it,
\* share0 the draws for server 0's shares.
Submission(type, num_bits, degree, n, sub) ==
    LET drawn  == IF sub.shape = "big"
                  THEN [sub.values EXCEPT ![1] = @ + max_int(num_bits)] ELSE sub.values
        real   == Inputs(type, drawn)
        spoilt == SpoiltField(type, degree, sub.shape)
        sent   == IF sub.shape \in {"junk", "junkproved"}
                  THEN [real EXCEPT ![spoilt] = Spoil(@, num_bits)] ELSE real
        over   == CASE sub.shape = "bigshare" -> {<<degree - 1, num_bits>>}
                    [] sub.shape = "bigsquare" -> {<<degree, 2 * num_bits>>}
                    [] OTHER -> {}
        share0 == [f \in DOMAIN real |->
                     (sub.share0 \cap 0 .. num_bits - 1) \cup {p[2] : p \in {q \in over : q[1] = f}}]
        key(s) == CASE sub.shape = "mismatch0" /\ s = 0 -> <<"q", n>>
                    [] sub.shape = "dup0" /\ s = 0 -> <<"pk", n - 1>>
                    [] sub.shape = "dup1" /\ s = 1 -> <<"pk", n - 1>>
                    [] OTHER -> <<"pk", n>>
    IN [pk  |-> [s \in Server |-> key(s)],
        val |-> [s \in Server |-> [f \in DOMAIN real |->
                   IF s = 0 THEN share0[f] ELSE SymDiff(share0[f], BitsOf(sent[f]))]],
        proved |-> CASE sub.shape = "junkproved" -> real
                     [] sub.shape = "junk" /\ type \in Moments ->
                          [real EXCEPT ![spoilt] = (@ + 10) % max_int(num_bits)]
                     [] OTHER -> sent,
        intact |-> sub.shape # "corrupt"]

\* The report on what the routine calls valid.
Printed(type, degree, subs) ==
    MomentsOf(type, degree, {n \in DOMAIN subs : subs[n].shape = "ok"},
              LAMBDA n : subs[n].values, Modulus)

SnipCampaign(type, num_bits, degree, subs, mortal) ==
    [msg |-> [type |-> type, num_bits |-> num_bits, num_of_inputs |-> Len(subs)],
     degree |-> degree,
     subs |-> [n \in DOMAIN subs |-> Submission(type, num_bits, degree, n, subs[n])],
     valid |-> {n \in DOMAIN subs : subs[n].shape = "ok"},
     printed |-> Printed(type, degree, subs),
     mortal |-> mortal]
=============================================================================
