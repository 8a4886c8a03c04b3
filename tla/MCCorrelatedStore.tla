-------------------------- MODULE MCCorrelatedStore --------------------------
(* Programs for CorrelatedStore, small enough for TLC.                      *)
EXTENDS CorrelatedStore

Call(op, widths) == [op |-> op, widths |-> widths]
Single(n) == Call("b2a_daBit_single", [k \in 1 .. n |-> 1])
Multi(widths) == Call("b2a_daBit_multi", widths)
Multiply(n) == Call("multiplyBoolShares", [k \in 1 .. n |-> 1])
Check(n) == Call("checkDaBits", <<n>>)
Update == Call("update", <<>>)

Exact(calls) == [lazy |-> FALSE, batch |-> 1, calls |-> calls]
LazyStore(calls) == [lazy |-> TRUE, batch |-> 2, calls |-> calls]

\* Conversions after a check that provided for more, or for less, than is used.
DaBitPrograms == {Exact(calls) : calls \in
    {<<Check(1), Multi(<<2>>)>>, <<Check(2), Single(1), Single(1)>>, <<Multi(<<1, 1>>)>>}}
\* Two opened bits per product, and a second product from what is left.
TriplePrograms == {Exact(<<Multiply(1), Multiply(1)>>)}
\* What freq_op does when a submission is missing: it checks for more than it
\* converts, which leaves some for the next call; and maybeUpdate first. Several
\* units are on the wire each way.
LazyPrograms == {LazyStore(calls) : calls \in
    {<<Check(2), Single(1), Single(2)>>, <<Update, Single(1), Update>>}}
AllPrograms == DaBitPrograms \cup TriplePrograms \cup LazyPrograms

\* Named for the configurations, computed once.
Made == AllPrograms
MadeDaBits == DaBitPrograms
=============================================================================
