-------------------------------- MODULE Snip --------------------------------
(***************************************************************************)
(* The proof that goes with a VAR or LINREG submission: the packet the     *)
(* client makes (share_polynomials, client.h), and what one server         *)
(* computes from its half of it (Checker, server.h). A packet, opened or   *)
(* one server's half, is a record of numbers and arrays.                   *)
(***************************************************************************)
EXTENDS Poly, Circuit

Server == {0, 1}
-----------------------------------------------------------------------------
(* The client's packet. *)

\* f or g at the N-th roots: a value of its own, the gates' inputs, zeros.
Points(N, first, wires) ==
    Array(N, LAMBDA k : IF k = 0 THEN first ELSE IF k <= Len(wires) THEN wires[k] ELSE 0)
LeftWires(ckt, inp) == [n \in DOMAIN ckt |-> inp[ckt[n].L]]
RightWires(ckt, inp) == [n \in DOMAIN ckt |-> inp[ckt[n].R]]

\* share_polynomials; rnd holds the numbers the client draws.
SharePolynomials(ckt, inp, rnd) ==
    LET N       == NextPowerOfTwo(Len(ckt))
        pointsF == Points(N, rnd.f0, LeftWires(ckt, inp))
        pointsG == Points(N, rnd.g0, RightWires(ckt, inp))
        evalsF  == EvaluateAtRoots2(N, Interpolate(N, pointsF))
        evalsG  == EvaluateAtRoots2(N, Interpolate(N, pointsG))
    IN [f0 |-> rnd.f0, g0 |-> rnd.g0, h0 |-> (rnd.f0 * rnd.g0) % Modulus,
        MulShares |-> [n \in DOMAIN ckt |-> (inp[ckt[n].L] * inp[ckt[n].R]) % Modulus],
        h_points  |-> Array(N, LAMBDA j : (evalsF[2 * j + 1] * evalsG[2 * j + 1]) % Modulus),
        A |-> rnd.A, B |-> rnd.B, C |-> (rnd.A * rnd.B) % Modulus]

\* SplitShare, with the same mask throughout: 0 gets the mask, 1 the rest.
Split(s, val, mask) == IF s = 0 THEN mask ELSE (val - mask) % Modulus
SplitArray(s, vals, mask) == [k \in DOMAIN vals |-> Split(s, vals[k], mask)]
SplitPacket(s, p, mask) ==
    [f0 |-> Split(s, p.f0, mask), g0 |-> Split(s, p.g0, mask), h0 |-> Split(s, p.h0, mask),
     MulShares |-> SplitArray(s, p.MulShares, mask),
     h_points |-> SplitArray(s, p.h_points, mask),
     A |-> Split(s, p.A, mask), B |-> Split(s, p.B, mask), C |-> Split(s, p.C, mask)]

\* What the *_invalid routines do to one half of a packet before they send it.
Corruption == {"none", "h_points", "f0", "MulShares", "triple"}
Corrupt(s, half, how) ==
    CASE how = "h_points"  /\ s = 0 -> [half EXCEPT !.h_points[0] = (@ + 1) % Modulus]
      [] how = "f0"        /\ s = 1 -> [half EXCEPT !.f0 = (@ + 1) % Modulus]
      [] how = "MulShares" /\ s = 0 -> [half EXCEPT !.MulShares[1] = (@ + 1) % Modulus]
      [] how = "triple"    /\ s = 1 -> [half EXCEPT !.A = (@ + 1) % Modulus]
      [] OTHER -> half
-----------------------------------------------------------------------------
(* One server's Checker. *)

\* CheckerPreComp for every size and every point: what precomp_store may hold.
Sizes == {2 ^ k : k \in 1 .. TwoOrder - 1}
PreComp == [N \in Sizes |-> [x \in Field |->
               [xN  |-> PreX(N, Roots(N), x), x2N |-> PreX(2 * N, Roots2(N), x)]]]

PointsH(N, ckt, p) ==
    Array(2 * N, LAMBDA k : IF k % 2 = 1 THEN p.h_points[k \div 2]
                            ELSE IF k = 0 THEN p.h0
                            ELSE IF k \div 2 <= Len(ckt) THEN p.MulShares[k \div 2] ELSE 0)

\* ImportWires and evalPoly: shares of f(x), x g(x), x h(x) and the zero gates.
Checker(ckt, p, inp, x) ==
    LET N   == NextPowerOfTwo(Len(ckt))
        pre == PreComp[N][x]
    IN [evalF |-> PreEval(pre.xN, Points(N, p.f0, LeftWires(ckt, inp))),
        evalG |-> (x * PreEval(pre.xN, Points(N, p.g0, RightWires(ckt, inp)))) % Modulus,
        evalH |-> (x * PreEval(pre.x2N, PointsH(N, ckt, p))) % Modulus,
        zeros |-> [n \in DOMAIN ckt |-> (p.MulShares[n] - inp[ckt[n].out]) % Modulus]]

CorShare(c, p) == [D |-> (c.evalF - p.A) % Modulus, E |-> (c.evalG - p.B) % Modulus]
Cor(mine, theirs) == [D |-> (mine.D + theirs.D) % Modulus, E |-> (mine.E + theirs.E) % Modulus]

\* mulCheck is a share of f(x) * x g(x) - x h(x); only server 0 adds D * E.
MulCheck(s, c, p, cor) ==
    ((IF s = 0 THEN cor.D * cor.E ELSE 0) + cor.D * p.B + cor.E * p.A + p.C - c.evalH) % Modulus

\* randSum, with r the coefficients drawn from snips_seed.
OutShareMulOnly(s, c, p, cor, r) == (r[1] * MulCheck(s, c, p, cor)) % Modulus
OutShare(s, c, p, cor, r) ==
    (r[1] * MulCheck(s, c, p, cor) + SumMod([n \in DOMAIN c.zeros |-> r[n + 1] * c.zeros[n]])) % Modulus

AddToZero(x, y) == (x + y) % Modulus = 0
=============================================================================
