------------------------------- MODULE Circuit -------------------------------
(***************************************************************************)
(* The circuits of circuit.h, the inputs they are about, and what becomes  *)
(* of the sums of such inputs. Every circuit the program builds is a list  *)
(* of checks inp[L] * inp[R] = inp[out], each of them a mul gate, a gate   *)
(* for -inp[out] and their sum, which has to be zero; a circuit is that    *)
(* list. Inputs are a function on 0 .. n - 1.                              *)
(***************************************************************************)
EXTENDS Integers, Sequences, FiniteSetsExt

\* AddCheckMulEqual
MulEqual(i, j, k) == [L |-> i, R |-> j, out |-> k]

CheckVar == <<MulEqual(0, 0, 1)>>

\* The pairs i <= j below num_x, in the order of the two nested loops.
Pairs(num_x) ==
    LET pairs == {p \in (0 .. num_x - 1) \X (0 .. num_x - 1) : p[1] <= p[2]}
        Upto(p) == {q \in pairs : q[1] < p[1] \/ (q[1] = p[1] /\ q[2] <= p[2])}
    IN [n \in 1 .. Cardinality(pairs) |-> CHOOSE p \in pairs : Cardinality(Upto(p)) = n]

\* Inputs are x_0 .., y, all x_i * x_j, all x_i * y.
CheckLinRegSquares(degree) ==
    LET num_x == degree - 1
        idx   == degree + num_x
    IN [n \in 1 .. num_x |-> MulEqual(n - 1, n - 1, degree + n - 1)]
       \o [n \in 1 .. num_x |-> MulEqual(num_x, n - 1, idx + n - 1)]
CheckLinReg(degree) ==
    LET num_x == degree - 1
        pairs == Pairs(num_x)
        idx   == degree + Len(pairs)
    IN [n \in DOMAIN pairs |-> MulEqual(pairs[n][1], pairs[n][2], degree + n - 1)]
       \o [n \in 1 .. num_x |-> MulEqual(num_x, n - 1, idx + n - 1)]

\* num_fields of linreg_op; var_op has a value and its square.
NumFields(degree) == 2 * (degree - 1) + 1 + ((degree - 1) * degree) \div 2
FieldsOf(type, degree) == 0 .. (IF type = "LINREG_OP" THEN NumFields(degree) ELSE 2) - 1
CircuitOf(type, degree) == IF type = "LINREG_OP" THEN CheckLinReg(degree) ELSE CheckVar

\* What a client with value x, or with values xs and y, computes for them.
VarInputs(x) == [k \in 0 .. 1 |-> IF k = 0 THEN x ELSE x * x]
LinRegInputs(xs, y) ==
    LET pairs  == Pairs(Len(xs))
        fields == xs \o <<y>>
                  \o [n \in DOMAIN pairs |-> xs[pairs[n][1] + 1] * xs[pairs[n][2] + 1]]
                  \o [n \in DOMAIN xs |-> xs[n] * y]
    IN [k \in 0 .. Len(fields) - 1 |-> fields[k + 1]]

\* What server 0 makes of num submissions and the sums of their fields: for a
\* regression x_accum and y_accum, and of these SolveLinReg's X and Y. Inverting
\* X, and what VAR does with its two sums, is left to exact arithmetic.
XAccumPacked(degree, num, sums) ==
    [k \in 0 .. degree + Len(Pairs(degree - 1)) - 1 |-> IF k = 0 THEN num ELSE sums[k - 1]]
XAccum(degree, num, sums) ==
    [k \in 0 .. degree + Len(Pairs(degree - 1)) - 1 |->
        IF k = 0 THEN num ELSE IF k < degree THEN sums[k - 1] ELSE sums[k]]
YAccum(degree, sums) ==
    [k \in 0 .. degree - 1 |->
        IF k = 0 THEN sums[degree - 1] ELSE sums[degree + Len(Pairs(degree - 1)) + k - 1]]
SolveX(degree, x) ==
    LET pairs == Pairs(degree - 1)
        nth(i, j) == CHOOSE n \in DOMAIN pairs : pairs[n] \in {<<i - 1, j - 1>>, <<j - 1, i - 1>>}
    IN [p \in (0 .. degree - 1) \X (0 .. degree - 1) |->
           IF p[1] = 0 THEN x[p[2]] ELSE IF p[2] = 0 THEN x[p[1]]
           ELSE x[degree + nth(p[1], p[2]) - 1]]
Report(type, degree, num, sums) ==
    IF type = "LINREG_OP"
    THEN [num |-> num, X |-> SolveX(degree, XAccum(degree, num, sums)), Y |-> YAccum(degree, sums)]
    ELSE [num |-> num, sums |-> sums]

\* The same from the values themselves, x_0 .., y (or x) of each k in S: sums
\* of products of a column of ones and the values.
MomentsOf(type, degree, S, ValuesOf(_), modulus) ==
    LET row(k) == <<1>> \o ValuesOf(k)
        sum(i, j) == MapThenSumSet(LAMBDA k : row(k)[i] * row(k)[j], S) % modulus
    IN IF type = "LINREG_OP"
       THEN [num |-> Cardinality(S),
             X |-> [p \in (0 .. degree - 1) \X (0 .. degree - 1) |-> sum(p[1] + 1, p[2] + 1)],
             Y |-> [i \in 0 .. degree - 1 |-> sum(i + 1, degree + 1)]]
       ELSE [num |-> Cardinality(S), sums |-> [f \in 0 .. 1 |-> sum(f + 1, 2)]]

\* Eval, modulo Int_Modulus: every zero gate is zero.
Satisfies(ckt, inp, modulus) ==
    \A n \in DOMAIN ckt :
        (inp[ckt[n].L] * inp[ckt[n].R]) % modulus = inp[ckt[n].out] % modulus
=============================================================================
