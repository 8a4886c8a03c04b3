----------------------------- MODULE MetaClient -----------------------------
(***************************************************************************)
(* The batches client.cpp prepares: the honest helpers (bit_sum_helper,    *)
(* int_sum_helper, xor_op_helper, max_op_helper) and the *_invalid         *)
(* routines written to exercise the servers' validity checks, with the     *)
(* answer each of them prints.                                             *)
(***************************************************************************)
EXTENDS AggregateOps

\* How a submission deviates. "mismatch0" and "mismatch1": that server's share
\* has a key nobody else has. "dup0" and "dup1": it has the key of the
\* submission before. (prev_pk points into a string that has been reassigned
\* when it is copied, so a duplicate may come out as a mismatch.) "big" and
\* "bigshare": the value, or only its shares, are out of range (int_sum).
Shapes == {"ok", "mismatch0", "mismatch1", "dup0", "dup1", "big", "bigshare"}

PkOf(k, shape, s) ==
    CASE shape = "mismatch0" /\ s = 0 -> <<"q", k>>
      [] shape = "mismatch1" /\ s = 1 -> <<"q", k>>
      [] shape = "dup0" /\ s = 0      -> <<"pk", k - 1>>
      [] shape = "dup1" /\ s = 1      -> <<"pk", k - 1>>
      [] OTHER                        -> <<"pk", k>>

\* share1 = share0 xor encoded
Split(k, shape, encoded, share0) ==
    [s \in Server |-> [pk  |-> PkOf(k, shape, s),
                       val |-> IF s = 0 THEN share0 ELSE SymDiff(share0, encoded)]]

\* A fresh random word is a token of its own: no two of them cancel.
MaskToken(k) == 100 + k

\* AND hides "true" and OR hides "false" as 0; the other value is random.
\* MAX sets words 0..v to random, MIN does the same with B - v.
Encode(type, max_inp, k, value) ==
    CASE type \in SumOps   -> value
      [] type = "AND_OP"   -> IF value = 1 THEN {} ELSE {<<0, k>>}
      [] type = "OR_OP"    -> IF value = 0 THEN {} ELSE {<<0, k>>}
      [] type = "MAX_OP"   -> {<<j, k>> : j \in 0 .. value}
      [] type = "MIN_OP"   -> {<<j, k>> : j \in 0 .. max_inp - value}

Mask(type, max_inp, k) ==
    {<<j, MaskToken(k)>> : j \in IF type \in MaxOps THEN 0 .. max_inp ELSE {0}}

\* The "Ans" a routine prints: over the submissions it does not call invalid.
Printed(type, max_inp, subs) ==
    LET good   == {k \in DOMAIN subs : subs[k].shape = "ok"}
        values == {subs[k].value : k \in good}
    IN CASE type \in SumOps -> Wrap(MapThenSumSet(LAMBDA k : Number(subs[k].value), good))
         [] type = "AND_OP" -> IF 0 \in values THEN 0 ELSE 1
         [] type = "OR_OP"  -> IF 1 \in values THEN 1 ELSE 0
         [] type = "MAX_OP" -> Max(values \cup {0})
         [] type = "MIN_OP" -> Min(values \cup {max_inp})

Campaign(type, num_bits, max_inp, subs) ==
    [msg     |-> [type |-> type, num_bits |-> num_bits,
                  num_of_inputs |-> Len(subs), max_inp |-> max_inp],
     shares  |-> [k \in DOMAIN subs |->
                    Split(k, subs[k].shape,
                          Encode(type, max_inp, k, subs[k].value),
                          IF type \in SumOps THEN subs[k].share0
                                             ELSE Mask(type, max_inp, k))],
     printed |-> Printed(type, max_inp, subs)]

\* The client's check before an int_sum, in unsigned long arithmetic:
\* Int_Modulus against (1ULL << num_bits) * numreqs.
ModulusLargeEnough(num_bits, numreqs) == Modulus >= Wrap(2 ^ num_bits * numreqs)
=============================================================================
