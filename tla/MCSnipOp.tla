------------------------------ MODULE MCSnipOp ------------------------------
(***************************************************************************)
(* Batches for SnipOp, as the routines of client.cpp make them. Degree 2   *)
(* is the one lin_reg_invalid uses; honest LINREG batches also have 3.     *)
(***************************************************************************)
EXTENDS SnipOp, SnipClient

CONSTANT Bits      \* num_bits of every batch

\* A duplicate repeats the key of a valid submission, as in the routines.
Sequenced(shapes) ==
    \A n \in DOMAIN shapes : shapes[n] \in {"dup0", "dup1"} => n > 1 /\ shapes[n - 1] = "ok"

Single == Shapes \ {"dup0", "dup1"}
Pairs2 == {p \in [1 .. 2 -> Shapes] : Sequenced(p)}
Triples == {t \in [1 .. 3 -> Shapes] :
               /\ Sequenced(t)
               /\ t[1] \in {"ok", "big", "mismatch0"} /\ t[2] \in {"ok", "corrupt"}
               /\ t[3] \in {"ok", "dup0", "dup1", "junkproved"}}
AllShapes == [1 .. 0 -> Shapes] \cup [1 .. 1 -> Single] \cup Pairs2 \cup Triples

\* Values and masks that vary with the position in the batch.
Top == 2 ^ Bits - 1
Filled(shapes, values, mask) ==
    [n \in DOMAIN shapes |-> [shape |-> shapes[n], share0 |-> mask,
        values |-> [v \in DOMAIN values |-> IF n = 2 THEN Top - values[v] ELSE values[v]]]]

Var == {SnipCampaign(type, Bits, 1, Filled(shapes, <<Top>>, {Bits - 1}), FALSE) :
           type \in {"VAR_OP"}, shapes \in AllShapes}
LinReg == {SnipCampaign("LINREG_OP", Bits, 2, Filled(shapes, <<Top, 2>>, {0}), FALSE) :
              shapes \in [1 .. 1 -> Single] \cup Pairs2}
Honest == {SnipCampaign(type, Bits, 1, Filled(shapes, <<1>>, {}), TRUE) :
              type \in Moments, shapes \in [1 .. 1 -> {"ok"}] \cup [1 .. 2 -> {"ok"}]}
          \cup {SnipCampaign("LINREG_OP", Bits, degree, Filled([n \in 1 .. 2 |-> "ok"], [k \in 1 .. degree |-> k], {}), TRUE) :
              degree \in 2 .. 3}
Broken == {SnipCampaign("VAR_OP", Bits, 1, Filled(shapes, <<2>>, {}), TRUE) : shapes \in Pairs2}

ASSUME ModulusHolds(Bits, 3)

\* Pads of a batch: none, all 1s, and words that differ in every place.
Draw(word(_, _, _)) ==
    [n \in 1 .. 3 |-> [f \in 0 .. 8 |-> [k \in 0 .. 2 * Bits - 1 |-> word(n, f, k)]]]
Draws == {Draw(LAMBDA n, f, k : 0), Draw(LAMBDA n, f, k : Word - 1),
          Draw(LAMBDA n, f, k : (41 * n + 17 * f + 59 * k) % Word)}

AllCampaigns == Var \cup LinReg \cup Honest \cup Broken
Offered == AllCampaigns
=============================================================================
