-------------------------------- MODULE Poly --------------------------------
(***************************************************************************)
(* Polynomials over the integers modulo Int_Modulus as the two sides of a  *)
(* SNIP handle them: the client interpolates and evaluates by FFT at roots *)
(* of unity (poly/fft.c), the servers evaluate at one point of their own   *)
(* from the same values, with precomputed Lagrange coefficients            *)
(* (poly/poly_batch.c, poly/poly_once.c). An array of n numbers is a       *)
(* function on 0 .. n - 1, and so is a polynomial, by powers of X.         *)
(***************************************************************************)
EXTENDS Integers
LOCAL INSTANCE Functions
LOCAL INSTANCE SequencesExt

CONSTANTS Modulus,   \* Int_Modulus, a prime
          Gen,       \* Int_Gen
          TwoOrder   \* twoOrder: Gen ^ (2 ^ TwoOrder) = 1

Field == 0 .. Modulus - 1
Array(n, Elem(_)) == [k \in 0 .. n - 1 |-> Elem(k)]
SumMod(values) == FoldFunction(LAMBDA v, acc : (v + acc) % Modulus, 0, values)
ProductMod(values) == FoldFunction(LAMBDA v, acc : (v * acc) % Modulus, 1, values)
PowerMod(x, e) == ProductMod([k \in 1 .. e |-> x])

\* fmpz_invmod; what it leaves for a number without inverse is never used.
InvMod(x) == IF x % Modulus = 0 THEN 0
             ELSE CHOOSE y \in Field : (x * y) % Modulus = 1

ASSUME FieldAssumption ==
    /\ Modulus \in Nat /\ \A x \in 1 .. Modulus - 1 : \E y \in Field : (x * y) % Modulus = 1
    /\ Gen \in 1 .. Modulus - 1 /\ TwoOrder \in Nat \ {0}
    /\ PowerMod(Gen, 2 ^ TwoOrder) = 1 /\ PowerMod(Gen, 2 ^ (TwoOrder - 1)) # 1

\* The smallest power of two above n.
NextPowerOfTwo(n) ==
    2 ^ (CHOOSE k \in 0 .. n : 2 ^ k > n /\ \A j \in 0 .. k - 1 : 2 ^ j <= n)
-----------------------------------------------------------------------------
(* init_roots: powers of a generator of the N-th, or 2N-th, roots of unity. *)

StepSize(N) == 2 ^ TwoOrder \div N
Roots(N) == Array(N, LAMBDA k : PowerMod(Gen, StepSize(N) * k))
InvRoots(N) == Array(N, LAMBDA k : PowerMod(InvMod(Gen), StepSize(N) * k))
Roots2(N) == Array(2 * N, LAMBDA k : PowerMod(Gen, (StepSize(N) \div 2) * k))
-----------------------------------------------------------------------------
(* fft_interpolate, and its use in both directions. *)

RECURSIVE FftRecurse(_, _, _)
FftRecurse(n, roots, ys) ==
    IF n = 1 THEN ys
    ELSE LET half  == n \div 2
             subs  == Array(half, LAMBDA k : roots[2 * k])
             evens == Array(half, LAMBDA k : (ys[k] + ys[k + half]) % Modulus)
             odds  == Array(half, LAMBDA k : ((ys[k] - ys[k + half]) * roots[k]) % Modulus)
             out   == <<FftRecurse(half, subs, evens), FftRecurse(half, subs, odds)>>
         IN Array(n, LAMBDA k : out[(k % 2) + 1][k \div 2])

\* Values at the N-th roots to coefficients; coefficients to values at the 2N-th.
Interpolate(N, ys) ==
    LET out == FftRecurse(N, InvRoots(N), ys)
    IN Array(N, LAMBDA k : (out[k] * InvMod(N)) % Modulus)
EvaluateAtRoots2(N, coeffs) ==
    FftRecurse(2 * N, Roots2(N), Array(2 * N, LAMBDA k : IF k < N THEN coeffs[k] ELSE 0))
-----------------------------------------------------------------------------
(* CheckerPreComp: coefficients that give the value at x of the polynomial   *)
(* through given values at n fixed points.                                   *)

Times(n, p, m, q) ==
    Array(n + m - 1, LAMBDA k :
        SumMod([j \in {j \in 0 .. n - 1 : k - j \in 0 .. m - 1} |-> (p[j] * q[k - j]) % Modulus]))

\* tree_init: (X - x_0) ... (X - x_{n-1}), by halves.
RECURSIVE Master(_, _)
Master(n, points) ==
    IF n = 1 THEN Array(2, LAMBDA k : IF k = 1 THEN 1 ELSE (-points[0]) % Modulus)
    ELSE LET half == n \div 2
             rest == n - half
         IN Times(half + 1, Master(half, points),
                  rest + 1, Master(rest, Array(rest, LAMBDA k : points[half + k])))

Derivative(n, p) == Array(n - 1, LAMBDA k : ((k + 1) * p[k + 1]) % Modulus)

\* fast_evaluate: remainders down the tree come to the value at each point.
Value(n, p, x) ==
    FoldLeft(LAMBDA acc, k : (acc * x + p[n - k]) % Modulus, 0, [k \in 1 .. n |-> k])

SPoints(n, points) ==
    LET deriv == Derivative(n + 1, Master(n, points))
    IN Array(n, LAMBDA k : InvMod(Value(n, deriv, points[k])))

\* precomp_x_init: all coefficients are 0 if x is one of the points, the one
\* that short_x records.
PreX(n, points, x) ==
    LET prod == ProductMod(Array(n, LAMBDA k : (x - points[k]) % Modulus))
        s    == SPoints(n, points)
    IN [short_x |-> {k \in 0 .. n - 1 : points[k] = x},
        coeffs  |-> Array(n, LAMBDA k : (InvMod(x - points[k]) * prod * s[k]) % Modulus)]

\* precomp_x_eval
PreEvalLong(pre, ys) == SumMod([k \in DOMAIN pre.coeffs |-> (ys[k] * pre.coeffs[k]) % Modulus])
PreEval(pre, ys) ==
    IF pre.short_x # {} THEN ys[CHOOSE k \in pre.short_x : TRUE]
    ELSE SumMod([k \in DOMAIN pre.coeffs |-> (ys[k] * pre.coeffs[k]) % Modulus])
=============================================================================
