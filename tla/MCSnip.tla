------------------------------- MODULE MCSnip -------------------------------
(***************************************************************************)
(* Batches of honest and of invalid submissions, as the *_invalid routines *)
(* of client.cpp make them: wrong products with a proof of the wrong or of *)
(* the right ones, and corrupted packets. Modulus 17 with a generator of   *)
(* its 16 roots of unity: degree 3 needs all of them.                      *)
(***************************************************************************)
EXTENDS SnipSession

\* B = 0 makes a corrupted triple share harmless.
Draws == {[f0 |-> 5, g0 |-> 2, A |-> 7, B |-> 3], [f0 |-> 0, g0 |-> 9, A |-> 4, B |-> 0]}

Submission(ckt, inp, proved, rnd, how, mask) ==
    [ckt |-> ckt, inp |-> inp, proved |-> proved, rnd |-> rnd, how |-> how, mask |-> mask]

Junk(inp, k) == [inp EXCEPT ![k] = (@ + 10) % Modulus]
VarOf(x) == Reduced(VarInputs(x))
Points2 == Reduced(LinRegInputs(<<2>>, 5))
Points3 == Reduced(LinRegInputs(<<2, 6>>, 5))

First == CHOOSE rnd \in Draws : rnd.f0 = 5
Honest(ckt, inp) == Submission(ckt, inp, inp, First, "none", 4)

\* The junk is in what is submitted, in what is proved, or in both.
Var == {Submission(CheckVar, VarOf(3), VarOf(3), rnd, how, mask) :
            rnd \in Draws, how \in Corruption, mask \in {0, 11}}
       \cup {Submission(CheckVar, inp, proved, First, "none", 11) :
            inp, proved \in {VarOf(0), Junk(VarOf(0), 1)}}
LinReg == {Honest(CheckLinReg(2), Points2), Honest(CheckLinReg(3), Points3)}
          \cup {Submission(CheckLinReg(2), Junk(Points2, 2), Points2, First, "none", 4),
                Submission(CheckLinReg(2), Points2, Points2, First, "h_points", 4)}

AllBatches == {<<v>> : v \in Var} \cup {<<l>> : l \in LinReg}
              \cup {<<Submission(CheckVar, VarOf(3), VarOf(3), First, how, 0),
                      Honest(CheckVar, VarOf(3))>> : how \in {"none", "f0"}}
Offered == AllBatches

Numbers == <<3, 14, 1, 5, 9, 2, 6, 8, 16, 10, 13, 4>>
AllStreams == {Numbers, [k \in DOMAIN Numbers |-> 17 - Numbers[k]]}
=============================================================================
