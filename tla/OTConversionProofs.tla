------------------------- MODULE OTConversionProofs -------------------------
(***************************************************************************)
(* What the folds of OTConversion compute, for every number of bits: the   *)
(* loops' partial sums, and that sender's and receiver's results add up to *)
(* the shared value. A fold of the community modules is a function chosen  *)
(* by its recursion; that there is one is proved here (Recursion), by      *)
(* induction over the numbers for which a fact holds, taken as a set.      *)
(* Powers of two and division come last.                                   *)
(***************************************************************************)
EXTENDS OTConversion, FiniteSetsExt, FiniteSetTheorems, WellFoundedInduction, TLAPS

-----------------------------------------------------------------------------
(* Induction and recursion *)

\* Numbers from the least one up.
LEMMA Least ==
  ASSUME NEW T, T \subseteq Nat, T # {}
  PROVE  \E x \in T : \A y \in T : x <= y
<1> DEFINE R == {ss \in Nat \X Nat : ss[1] < ss[2]}
<1>1. IsWellFoundedOn(R, Nat)
  BY NatLessThanWellFounded DEF OpToRel
<1>2. PICK x \in T : \A y \in T : ~(<<y, x>> \in R)
  BY <1>1, WFMin
<1>3. \A y \in T : ~(y < x)
  BY <1>2
<1> QED
  BY <1>3

\* Induction, for the set of the numbers of which something holds.
LEMMA Induct ==
  ASSUME NEW S, 0 \in S, \A n \in Nat : n \in S => n + 1 \in S
  PROVE  Nat \subseteq S
<1>1. ASSUME NEW n \in Nat \ S PROVE FALSE
  <2>1. PICK x \in Nat \ S : \A y \in Nat \ S : x <= y
    BY <1>1, Least
  <2>2. x - 1 \in Nat \ S
    BY <2>1
  <2> QED
    BY <2>1, <2>2
<1> QED
  BY <1>1

Peeling(S, V, base, c, G) ==
    /\ IsFiniteSet(S) /\ base \in V /\ G \in [SUBSET S -> [V -> V]]
    /\ \A s \in SUBSET S : s # {} => c[s] \in s
Peeled(S, V, base, c, G, iter) ==
    /\ iter \in [SUBSET S -> V]
    /\ \A s \in SUBSET S : iter[s] = IF s = {} THEN base ELSE G[s][iter[s \ {c[s]}]]

\* A recursion on the subsets of a finite set has a solution.
LEMMA Recursion ==
  ASSUME NEW S, NEW V, NEW base, NEW c, NEW G, Peeling(S, V, base, c, G)
  PROVE  \E iter : Peeled(S, V, base, c, G, iter)
<1> USE DEF Peeling
<1> DEFINE Step(h) == [s \in SUBSET S |-> IF s = {} THEN base ELSE G[s][h[s \ {c[s]}]]]
           Upto(n) == {s \in SUBSET S : Cardinality(s) <= n}
           P == {n \in Nat : \E h \in [SUBSET S -> V] : \A s \in Upto(n) : h[s] = Step(h)[s]}
<1>1. ASSUME NEW h \in [SUBSET S -> V] PROVE Step(h) \in [SUBSET S -> V]
  OBVIOUS
<1>2. ASSUME NEW s \in SUBSET S
      PROVE  /\ IsFiniteSet(s) /\ Cardinality(s) \in Nat
             /\ Cardinality(s) <= Cardinality(S)
             /\ Cardinality(s) = 0 => s = {}
             /\ s # {} => Cardinality(s \ {c[s]}) = Cardinality(s) - 1
  <2>1. IsFiniteSet(s) /\ Cardinality(s) <= Cardinality(S)
    BY FS_Subset
  <2>2. Cardinality(s) \in Nat /\ (Cardinality(s) = 0 <=> s = {})
    BY <2>1, FS_CardinalityType, FS_EmptySet
  <2>3. ASSUME s # {} PROVE Cardinality(s \ {c[s]}) = Cardinality(s) - 1
    <3>1. c[s] \in s
      BY <2>3
    <3> QED
      BY ZenonT(40), <2>1, <3>1, FS_RemoveElement
  <2> QED
    BY <2>1, <2>2, <2>3
<1>3. 0 \in P
  <2>1. PICK h \in [SUBSET S -> V] : h = [s \in SUBSET S |-> base]
    OBVIOUS
  <2>2. \A s \in Upto(0) : h[s] = Step(h)[s]
    <3>1. \A s \in Upto(0) : s = {}
      <4> TAKE s \in Upto(0)
      <4>1. Cardinality(s) \in Nat /\ Cardinality(s) <= 0
        BY <1>2
      <4>2. Cardinality(s) = 0
        BY <4>1
      <4> QED
        BY <1>2, <4>2
    <3> QED
      BY <2>1, <3>1
  <2> QED
    BY <2>2
<1>4. ASSUME NEW n \in Nat, n \in P PROVE n + 1 \in P
  <2>1. PICK h \in [SUBSET S -> V] : \A s \in Upto(n) : h[s] = Step(h)[s]
    BY <1>4
  <2>2. PICK g \in [SUBSET S -> V] : g = Step(h)
    BY <1>1
  <2>3. ASSUME NEW s \in Upto(n + 1) PROVE g[s] = Step(g)[s]
    <3>1. CASE s = {}
      BY <2>2, <3>1
    <3>2. CASE s # {}
      <4>1. PICK t \in Upto(n) : t = s \ {c[s]}
        <5>1. s \in SUBSET S /\ Cardinality(s) <= n + 1 /\ s \ {c[s]} \in SUBSET S
          OBVIOUS
        <5>2. Cardinality(s \ {c[s]}) = Cardinality(s) - 1 /\ Cardinality(s) \in Nat
          BY <1>2, <3>2, <5>1
        <5> QED
          BY <5>1, <5>2
      <4>2. g[t] = h[t]
        BY <2>1, <2>2
      <4> QED
        BY <2>2, <3>2, <4>1, <4>2
    <3> QED
      BY <3>1, <3>2
  <2> HIDE DEF Step
  <2>4. g \in [SUBSET S -> V] /\ n + 1 \in Nat /\ \A s \in Upto(n + 1) : g[s] = Step(g)[s]
    BY <2>3
  <2> QED
    BY <2>4
<1>5. Cardinality(S) \in P
  <2> HIDE DEF P
  <2>1. Nat \subseteq P
    BY <1>3, <1>4, Induct
  <2> QED
    BY <2>1, FS_CardinalityType
<1>6. PICK h \in [SUBSET S -> V] : \A s \in Upto(Cardinality(S)) : h[s] = Step(h)[s]
  BY <1>5
<1>7. \A s \in SUBSET S : s \in Upto(Cardinality(S))
  BY <1>2
<1>8. h = Step(h)
  BY <1>1, <1>6, <1>7
<1> QED
  BY <1>8 DEF Peeled

\* A non-empty set of numbers up to n has a greatest one.
LEMMA MaxUpto ==
  ASSUME NEW n \in Nat \ {0}
  PROVE  Max(1 .. n) = n /\ (1 .. n) \ {n} = 1 .. n - 1 /\ 1 .. n # {}
<1>1. n \in 1 .. n /\ \A y \in 1 .. n : n >= y
  OBVIOUS
<1>2. Max(1 .. n) = n
  BY <1>1 DEF Max
<1>3. ASSUME NEW x PROVE x \in (1 .. n) \ {n} <=> x \in 1 .. n - 1
  OBVIOUS
<1>4. (1 .. n) \ {n} = 1 .. n - 1
  BY <1>3
<1> QED
  BY <1>1, <1>2, <1>4

\* The Max of a set of positions is one of them.
LEMMA MaxIn == ASSUME NEW n \in Nat, NEW s \in SUBSET (1 .. n), s # {} PROVE Max(s) \in s
<1> DEFINE T == {k \in Nat : \E x \in s : k = n - x}
<1>1. PICK m \in T : \A y \in T : m <= y
  <2>1. PICK x \in s : x \in 1 .. n
    OBVIOUS
  <2>2. n - x \in T
    BY <2>1
  <2> QED
    BY <2>2, Least
<1>2. PICK x \in s : m = n - x
  BY <1>1
<1>3. \A y \in s : x >= y
  <2> TAKE y \in s
  <2>1. y \in 1 .. n /\ x \in 1 .. n
    OBVIOUS
  <2>2. n - y \in T
    BY <2>1
  <2>3. m <= n - y
    BY <1>1, <2>2
  <2> QED
    BY <1>2, <2>1, <2>3
<1> QED
  BY <1>2, <1>3 DEF Max

Folding(n, V, base, G) == n \in Nat /\ base \in V /\ G \in [1 .. n -> [V -> V]]
Folded(n, V, base, G, fold) ==
    /\ fold[{}] = base
    /\ \A s \in SUBSET (1 .. n) :
          s # {} /\ fold[s \ {Max(s)}] \in V => fold[s] = G[Max(s)][fold[s \ {Max(s)}]]
PartSums(n, V, base, G, acc) ==
    /\ acc \in [0 .. n -> V] /\ acc[0] = base
    /\ \A i \in 1 .. n : acc[i] = G[i][acc[i - 1]]

\* The fold over positions that FoldLeft chooses exists.
LEMMA FoldExists ==
  ASSUME NEW n, NEW V, NEW base, NEW G, Folding(n, V, base, G)
  PROVE  \E iter : iter \in [SUBSET (1 .. n) -> V] /\ Folded(n, V, base, G, iter)
<1> USE DEF Folding
<1> DEFINE D == 1 .. n
<1>1. PICK c : c = [s \in SUBSET D |-> Max(s)]
  OBVIOUS
<1>2. PICK H : H = [s \in SUBSET D |-> IF s = {} THEN [v \in V |-> base] ELSE G[Max(s)]]
  OBVIOUS
<1>3. \A s \in SUBSET D : s # {} => c[s] \in s
  BY <1>1, MaxIn
<1>4. ASSUME NEW s \in SUBSET D PROVE H[s] \in [V -> V]
  <2>1. CASE s = {}
    BY <1>2, <2>1
  <2>2. CASE s # {}
    <3>1. Max(s) \in D
      BY <2>2, MaxIn
    <3> QED
      BY <1>2, <2>2, <3>1
  <2> QED
    BY <2>1, <2>2
<1>5. H \in [SUBSET D -> [V -> V]]
  BY <1>2, <1>4
<1>6. IsFiniteSet(D)
  BY FS_Interval
<1>7. PICK iter \in [SUBSET D -> V] :
          \A s \in SUBSET D : iter[s] = IF s = {} THEN base ELSE H[s][iter[s \ {c[s]}]]
  <2> HIDE DEF D
  <2> QED
    <3>1. Peeling(D, V, base, c, H)
      BY <1>3, <1>5, <1>6 DEF Peeling
    <3>2. \E iter : Peeled(D, V, base, c, H, iter)
      BY <3>1, Recursion
    <3> QED
      BY <3>2 DEF Peeled
<1>8. iter[{}] = base
  BY <1>7
<1>9. ASSUME NEW s \in SUBSET D, s # {} PROVE iter[s] = G[Max(s)][iter[s \ {Max(s)}]]
  <2>1. iter[s] = H[s][iter[s \ {c[s]}]]
    BY <1>7, <1>9
  <2> QED
    BY <1>1, <1>2, <1>9, <2>1
<1> QED
  BY <1>8, <1>9 DEF Folded

\* Such a fold is the sequence of its partial results.
LEMMA FoldPrefixes ==
  ASSUME NEW n, NEW V, NEW base, NEW G, NEW fold,
         Folding(n, V, base, G), Folded(n, V, base, G, fold)
  PROVE  \E acc : PartSums(n, V, base, G, acc) /\ fold[1 .. n] = acc[n]
<1> USE DEF Folding, Folded
<1>1. ASSUME NEW i \in 1 .. n, fold[1 .. i - 1] \in V
      PROVE  fold[1 .. i] = G[i][fold[1 .. i - 1]] /\ fold[1 .. i] \in V
  <2>1. 1 .. i \in SUBSET (1 .. n)
    OBVIOUS
  <2>2. Max(1 .. i) = i /\ (1 .. i) \ {i} = 1 .. i - 1 /\ 1 .. i # {}
    <3>1. i \in Nat \ {0}
      OBVIOUS
    <3> QED
      BY <3>1, MaxUpto
  <2>3. fold[1 .. i] = G[i][fold[1 .. i - 1]]
    BY <1>1, <2>1, <2>2
  <2> QED
    BY <1>1, <2>3
<1>2. fold[1 .. 0] = base
  <2>1. 1 .. 0 = {}
    OBVIOUS
  <2> QED
    BY <2>1
<1> DEFINE P == {k \in Nat : k <= n => fold[1 .. k] \in V}
<1>3. 0 \in P
  BY <1>2
<1>4. ASSUME NEW k \in Nat, k \in P PROVE k + 1 \in P
  <2>1. CASE k + 1 <= n
    <3>1. k + 1 \in 1 .. n /\ (k + 1) - 1 = k /\ fold[1 .. k] \in V
      BY <1>4, <2>1
    <3>2. PICK i \in 1 .. n : i = k + 1 /\ i - 1 = k
      BY <3>1
    <3>3. fold[1 .. i] \in V
      BY <1>1, <3>1, <3>2
    <3> QED
      BY <3>2, <3>3
  <2> QED
    BY <2>1
<1>5. Nat \subseteq P
  <2> HIDE DEF P
  <2> QED
    BY <1>3, <1>4, Induct
<1>6. \A k \in 0 .. n : fold[1 .. k] \in V
  BY <1>5
<1>7. PICK acc \in [0 .. n -> V] : acc = [k \in 0 .. n |-> fold[1 .. k]]
  BY <1>6
<1>8. ASSUME NEW i \in 1 .. n PROVE acc[i] = G[i][acc[i - 1]]
  <2>1. i - 1 \in 0 .. n /\ i \in 0 .. n
    OBVIOUS
  <2>2. fold[1 .. i] = G[i][fold[1 .. i - 1]]
    BY <1>1, <1>6, <2>1
  <2> QED
    BY <1>7, <2>1, <2>2
<1>9. acc[0] = base /\ fold[1 .. n] = acc[n]
  BY <1>2, <1>7
<1> QED
  BY <1>8, <1>9 DEF PartSums

-----------------------------------------------------------------------------
(* Congruence.                                                             *)

Cong(a, b, m) == \E q \in Int : a = b + q * m

\* A multiple of m that is less than m apart from 0 is 0.
LEMMA Multiple ==
  ASSUME NEW a \in Int, NEW m \in Nat \ {0}, a % m = 0
  PROVE  \E q \in Int : a = q * m
  BY Z3T(10)

\* A residue that differs by a multiple of m is the remainder.
LEMMA ModUnique ==
  ASSUME NEW m \in Nat \ {0}, NEW q \in Int, NEW r \in 0 .. m - 1
  PROVE  (q * m + r) % m = r
  BY Z3T(10)

\* A remainder is a residue.
LEMMA ModRange ==
  ASSUME NEW a \in Int, NEW m \in Nat \ {0}
  PROVE  a % m \in 0 .. m - 1
  OBVIOUS

\* What the remainder leaves out is a multiple of m.
LEMMA ModOff ==
  ASSUME NEW a \in Int, NEW m \in Nat \ {0}
  PROVE  (a - (a % m)) % m = 0
  BY Z3T(10)

\* A number is congruent to its remainder.
LEMMA ModCong ==
  ASSUME NEW a \in Int, NEW m \in Nat \ {0}
  PROVE  Cong(a % m, a, m)
<1>1. a % m \in Int
  BY ModRange
<1>2. PICK d \in Int : d = a - (a % m)
  BY <1>1
<1>3. d % m = 0
  BY <1>2, ModOff
<1>31. PICK q \in Int : d = q * m
  BY <1>3, Multiple
<1>4. q * m \in Int /\ -q \in Int /\ (-q) * m = - (q * m)
  OBVIOUS
<1>5. a % m = a + (-q) * m
  BY <1>1, <1>2, <1>31, <1>4
<1> QED
  BY <1>4, <1>5 DEF Cong

\* Congruence is symmetric,
LEMMA CongSym ==
  ASSUME NEW a \in Int, NEW b \in Int, NEW m \in Nat, Cong(a, b, m)
  PROVE  Cong(b, a, m)
<1>1. PICK p \in Int : a = b + p * m
  BY DEF Cong
<1>2. -p \in Int /\ (-p) * m = -(p * m) /\ p * m \in Int
  OBVIOUS
<1>3. b = a + (-p) * m
  BY <1>1, <1>2
<1> QED
  BY <1>2, <1>3 DEF Cong

\* transitive,
LEMMA CongTrans ==
  ASSUME NEW a \in Int, NEW b \in Int, NEW c \in Int, NEW m \in Nat,
         Cong(a, b, m), Cong(b, c, m)
  PROVE  Cong(a, c, m)
<1>1. PICK p \in Int : a = b + p * m
  BY DEF Cong
<1>2. PICK q \in Int : b = c + q * m
  BY DEF Cong
<1>3. p + q \in Int /\ (p + q) * m = p * m + q * m /\ p * m \in Int /\ q * m \in Int
  OBVIOUS
<1>4. a = c + (p + q) * m
  BY <1>1, <1>2, <1>3
<1> QED
  BY <1>3, <1>4 DEF Cong

\* kept by addition,
LEMMA CongAdd ==
  ASSUME NEW a \in Int, NEW b \in Int, NEW c \in Int, NEW d \in Int, NEW m \in Nat,
         Cong(a, b, m), Cong(c, d, m)
  PROVE  Cong(a + c, b + d, m) /\ Cong(a - c, b - d, m)
<1>1. PICK p \in Int : a = b + p * m
  BY DEF Cong
<1>2. PICK q \in Int : c = d + q * m
  BY DEF Cong
<1>3. p + q \in Int /\ (p + q) * m = p * m + q * m /\ p - q \in Int /\ (p - q) * m = p * m - (q * m)
       /\ p * m \in Int /\ q * m \in Int
  OBVIOUS
<1>4. a + c = b + d + (p + q) * m /\ a - c = b - d + (p - q) * m
  BY <1>1, <1>2, <1>3
<1> QED
  BY <1>3, <1>4 DEF Cong

\* reflexive, and blind to the modulus itself.
LEMMA CongSelf == ASSUME NEW a \in Int, NEW m \in Nat PROVE Cong(a, a, m) /\ Cong(a + m, a, m)
<1>1. a = a + 0 * m /\ a + m = a + 1 * m
  OBVIOUS
<1> QED
  BY <1>1 DEF Cong

\* Congruent residues are equal.
LEMMA SmallCong ==
  ASSUME NEW m \in Nat \ {0}, NEW a \in 0 .. m - 1, NEW b \in 0 .. m - 1, Cong(a, b, m)
  PROVE  a = b
<1>1. PICK q \in Int : a = b + q * m
  BY DEF Cong
<1>2. q * m < m /\ q * m > -m
  BY <1>1
<1>3. CASE q > 0
  <2>1. q * m >= m
    BY <1>3
  <2> QED BY <1>2, <2>1
<1>4. CASE q < 0
  <2>1. q * m <= -m
    BY <1>4
  <2> QED BY <1>2, <2>1
<1>5. CASE q = 0
  BY <1>1, <1>5
<1> QED
  BY <1>3, <1>4, <1>5

\* Congruent numbers have equal remainders.
LEMMA CongMod ==
  ASSUME NEW m \in Nat \ {0}, NEW a \in Int, NEW b \in Int, Cong(a, b, m)
  PROVE  a % m = b % m
<1>1. a % m \in 0 .. m - 1 /\ b % m \in 0 .. m - 1
  BY ModRange
<1>2. PICK r \in 0 .. m - 1 : r = a % m
  BY <1>1
<1>3. PICK s \in 0 .. m - 1 : s = b % m
  BY <1>1
<1>4. Cong(r, a, m) /\ Cong(s, b, m) /\ r \in Int /\ s \in Int
  BY <1>2, <1>3, ModCong
<1>5. Cong(r, b, m) /\ Cong(b, s, m)
  <2>1. Cong(r, b, m)
    BY <1>4, CongTrans
  <2>2. Cong(b, s, m)
    BY <1>4, CongSym
  <2> QED
    BY <2>1, <2>2
<1>6. Cong(r, s, m)
  BY <1>4, <1>5, CongTrans
<1> QED
  BY <1>2, <1>3, <1>6, SmallCong

\* A residue is its own remainder.
LEMMA ModSmall == ASSUME NEW m \in Nat \ {0}, NEW a \in 0 .. m - 1 PROVE a % m = a
<1>0. 0 \in Int /\ 0 * m + a = a
  OBVIOUS
<1>1. (0 * m + a) % m = a
  BY <1>0, ModUnique
<1> QED
  BY <1>0, <1>1
-----------------------------------------------------------------------------
(* Words.                                                                  *)

Ring(mod) == IF mod = 0 THEN Word ELSE mod

\* Both moduli are positive.
LEMMA RingType ==
  ASSUME NEW mod \in Nat
  PROVE  /\ Ring(mod) \in Nat \ {0} /\ Word \in Nat \ {0}
  BY WordAssumption DEF Ring

\* What the loops keep is a residue.
LEMMA StepReduced ==
  ASSUME NEW mod \in Nat, NEW x \in Int
  PROVE  Reduce(Wrap(x), mod) \in 0 .. Ring(mod) - 1
<1>1. PICK y \in 0 .. Word - 1 : y = x % Word
  BY ModRange, WordAssumption
<1>2. CASE mod = 0
  BY <1>1, <1>2 DEF Reduce, Wrap, Ring
<1>3. CASE mod # 0
  <2>0. mod \in Nat \ {0} /\ y \in Int
    BY <1>3, WordAssumption
  <2>1. y % mod \in 0 .. mod - 1
    BY <2>0, ModRange
  <2> QED
    BY <1>1, <1>3, <2>1 DEF Reduce, Wrap, Ring
<1> QED
  BY <1>2, <1>3

\* Wrapping loses nothing modulo 2^64, nor what fits a word.
LEMMA StepExact ==
  ASSUME NEW mod \in Nat, NEW x \in Int, mod = 0 \/ x \in 0 .. Word - 1
  PROVE  Cong(Reduce(Wrap(x), mod), x, Ring(mod))
<1>1. CASE mod = 0
  BY <1>1, ModCong, WordAssumption DEF Reduce, Wrap, Ring
<1>2. CASE mod # 0
  <2>1. Wrap(x) = x
    BY <1>2, ModSmall, WordAssumption DEF Wrap
  <2>2. mod \in Nat \ {0}
    BY <1>2
  <2>3. Cong(x % mod, x, mod)
    BY <2>2, ModCong
  <2> QED
    BY <1>2, <2>1, <2>3 DEF Reduce, Ring
<1> QED
  BY <1>1, <1>2

\* max - x + 1 is an additive inverse, where it does not wrap.
LEMMA MinusExact ==
  ASSUME NEW mod \in Nat, NEW x \in Int, mod = 0 \/ (x \in 0 .. mod /\ mod < Word)
  PROVE  /\ Minus(x, mod) \in Nat /\ Cong(Minus(x, mod), -x, Ring(mod))
         /\ mod # 0 => Minus(x, mod) = mod - x
<1>1. CASE mod = 0
  <2>1. Minus(x, mod) = (Word - x) % Word
    <3>1. Word - 1 - x + 1 = Word - x
      BY WordAssumption
    <3> QED
      BY <1>1, <3>1 DEF Minus, Wrap, MaxOf
  <2>2. PICK y \in Int : y = Word - x
    BY WordAssumption
  <2>3. PICK z \in 0 .. Word - 1 : z = y % Word
    BY ModRange, WordAssumption
  <2>4. Cong(z, y, Word)
    BY <2>3, ModCong, WordAssumption
  <2>5. PICK w \in Int : w = -x
    OBVIOUS
  <2>6. Cong(y, w, Word)
    <3>1. y = w + 1 * Word
      BY <2>2, <2>5, WordAssumption
    <3> QED
      BY <3>1 DEF Cong
  <2>7. Cong(z, w, Word)
    <3>1. z \in Int /\ Word \in Nat
      BY WordAssumption
    <3> QED
      BY <2>4, <2>6, <3>1, CongTrans
  <2> QED
    BY <1>1, <2>1, <2>2, <2>3, <2>5, <2>7 DEF Ring
<1>2. CASE mod # 0
  <2>1. PICK y \in 0 .. Word - 1 : y = mod - x /\ y = mod - 1 - x + 1
    BY <1>2, WordAssumption
  <2>2. Minus(x, mod) = mod - x
    BY <1>2, <2>1, ModSmall, WordAssumption DEF Minus, Wrap, MaxOf
  <2>3. y = -x + 1 * mod
    BY <2>1
  <2> QED
    BY <1>2, <2>1, <2>2, <2>3 DEF Ring, Cong
<1> QED
  BY <1>1, <1>2
-----------------------------------------------------------------------------
(* The loops.                                                              *)

\* A power of two is an integer.
LEMMA Pow == ASSUME NEW k \in Nat PROVE 2 ^ k \in Int
  OBVIOUS

Arb(s) == CHOOSE x \in s : TRUE
Summed(S, f, fold) ==
    /\ fold[{}] = 0
    /\ \A s \in SUBSET S : s # {} => fold[s] = f[Arb(s)] + fold[s \ {Arb(s)}]
Summable(S, f) == IsFiniteSet(S) /\ f \in [S -> Int]

\* A chosen element of a non-empty set is in it.
LEMMA ArbIn == ASSUME NEW s, s # {} PROVE Arb(s) \in s
  BY DEF Arb

\* The sum over a finite set that MapThenSumSet chooses exists,
LEMMA SumExists ==
  ASSUME NEW S, NEW f, Summable(S, f)
  PROVE  \E iter : iter \in [SUBSET S -> Int] /\ Summed(S, f, iter)
<1>1. PICK c : c = [s \in SUBSET S |-> Arb(s)]
  OBVIOUS
<1>2. PICK G : G = [s \in SUBSET S |-> [v \in Int |-> IF s = {} THEN 0 ELSE f[Arb(s)] + v]]
  OBVIOUS
<1>3. G \in [SUBSET S -> [Int -> Int]]
  <2>1. ASSUME NEW s \in SUBSET S, NEW v \in Int
        PROVE  (IF s = {} THEN 0 ELSE f[Arb(s)] + v) \in Int
    <3>1. CASE s = {}
      BY <3>1
    <3>2. CASE s # {}
      <4>1. PICK a \in S : a = Arb(s)
        BY <3>2, ArbIn
      <4>2. f[a] \in Int
        BY DEF Summable
      <4> QED
        BY <3>2, <4>1, <4>2
    <3> QED
      BY <3>1, <3>2
  <2> QED
    BY <1>2, <2>1
<1>4. Peeling(S, Int, 0, c, G)
  <2>1. \A s \in SUBSET S : s # {} => c[s] \in s
    BY <1>1, ArbIn
  <2> QED
    BY <1>3, <2>1 DEF Peeling, Summable
<1>5. PICK iter : Peeled(S, Int, 0, c, G, iter)
  BY <1>4, Recursion
<1>6. iter \in [SUBSET S -> Int] /\ iter[{}] = 0
  BY <1>5 DEF Peeled
<1>7. ASSUME NEW s \in SUBSET S, s # {} PROVE iter[s] = f[Arb(s)] + iter[s \ {Arb(s)}]
  <2>1. iter[s] = G[s][iter[s \ {Arb(s)}]]
    BY <1>1, <1>5, <1>7 DEF Peeled
  <2>2. iter[s \ {Arb(s)}] \in Int
    BY <1>6
  <2> QED
    BY <1>2, <1>7, <2>1, <2>2
<1> QED
  BY <1>6, <1>7 DEF Summed

AnyOrder(S, f, fold) ==
    /\ fold[{}] = 0
    /\ \A s \in SUBSET S : /\ fold[s] \in Int
                           /\ \A x \in s : fold[s] = f[x] + fold[s \ {x}]

\* and any element may be taken out of it first.
LEMMA SumAny ==
  ASSUME NEW S, NEW f, NEW fold, Summable(S, f), Summed(S, f, fold)
  PROVE  AnyOrder(S, f, fold)
<1> DEFINE Good(s) == fold[s] \in Int /\ \A x \in s : fold[s] = f[x] + fold[s \ {x}]
           P == {n \in Nat : \A s \in SUBSET S : Cardinality(s) <= n => Good(s)}
<1>1. ASSUME NEW s \in SUBSET S
      PROVE  IsFiniteSet(s) /\ Cardinality(s) \in Nat /\ (Cardinality(s) = 0 <=> s = {})
  BY FS_Subset, FS_CardinalityType, FS_EmptySet DEF Summable
<1>2. ASSUME NEW s \in SUBSET S, NEW x \in s
      PROVE  Cardinality(s \ {x}) = Cardinality(s) - 1
  <2>1. IsFiniteSet(s)
    BY <1>1
  <2> QED
    BY <2>1, FS_RemoveElement
<1>3. 0 \in P
  <2>1. Good({})
    BY DEF Summed
  <2>2. \A s \in SUBSET S : Cardinality(s) <= 0 => s = {}
    <3> TAKE s \in SUBSET S
    <3>1. Cardinality(s) \in Nat /\ (Cardinality(s) = 0 <=> s = {})
      BY <1>1
    <3> QED
      BY <3>1
  <2> HIDE DEF Good
  <2> QED
    BY <2>1, <2>2
<1>4. ASSUME NEW n \in Nat, n \in P PROVE n + 1 \in P
  <2>1. ASSUME NEW s \in SUBSET S, Cardinality(s) <= n + 1, s # {} PROVE Good(s)
    <3>1. s # {}
      BY <2>1
    <3>2. PICK y \in s : y = Arb(s)
      BY <3>1, ArbIn
    <3>3. fold[s] = f[y] + fold[s \ {y}] /\ y \in S
      BY <3>1, <3>2 DEF Summed
    <3>4. ASSUME NEW z \in s PROVE s \ {z} \in SUBSET S /\ Good(s \ {z}) /\ f[z] \in Int
      <4>1. s \ {z} \in SUBSET S /\ Cardinality(s \ {z}) <= n
        BY <1>1, <1>2, <2>1
      <4> QED
        BY <1>4, <4>1 DEF Summable
    <3>5. ASSUME NEW x \in s PROVE fold[s] = f[x] + fold[s \ {x}]
      <4>1. CASE x = y
        BY <3>3, <4>1
      <4>2. CASE x # y
        <5>1. x \in s \ {y} /\ y \in s \ {x} /\ (s \ {y}) \ {x} = (s \ {x}) \ {y}
          BY <4>2
        <5>2. fold[s \ {y}] = f[x] + fold[(s \ {y}) \ {x}] /\ fold[s \ {y}] \in Int
          BY <3>4, <5>1
        <5>3. fold[s \ {x}] = f[y] + fold[(s \ {x}) \ {y}] /\ fold[s \ {x}] \in Int
          BY <3>4, <5>1
        <5>4. f[x] \in Int /\ f[y] \in Int
          BY <3>4
        <5>5. (s \ {y}) \ {x} \in SUBSET S /\ Cardinality((s \ {y}) \ {x}) <= n
          <6>1. s \ {y} \in SUBSET S /\ Cardinality(s \ {y}) <= n /\ Cardinality(s \ {y}) \in Nat
            BY <1>1, <1>2, <2>1
          <6>2. Cardinality((s \ {y}) \ {x}) = Cardinality(s \ {y}) - 1
            BY <1>2, <5>1, <6>1
          <6> QED
            BY <6>1, <6>2
        <5>6. PICK r \in Int : r = fold[(s \ {y}) \ {x}]
          BY <1>4, <5>5
        <5>7. fold[(s \ {x}) \ {y}] = r
          BY <5>1, <5>6
        <5>8. fold[s \ {y}] = f[x] + r /\ fold[s \ {x}] = f[y] + r
          BY <5>2, <5>3, <5>6, <5>7
        <5>9. f[y] + (f[x] + r) = f[x] + (f[y] + r)
          BY <5>4
        <5> QED
          BY <3>3, <5>8, <5>9
      <4> QED
        BY <4>1, <4>2
    <3>6. fold[s] \in Int
      <4>1. fold[s \ {y}] \in Int /\ f[y] \in Int
        BY <3>4
      <4> QED
        BY <3>3, <4>1
    <3> QED
      BY <3>5, <3>6
  <2>2. Good({})
    BY DEF Summed
  <2> HIDE DEF Good
  <2>3. \A s \in SUBSET S : Cardinality(s) <= n + 1 => Good(s)
    BY <2>1, <2>2
  <2> QED
    BY <2>3
<1>5. Nat \subseteq P
  <2> HIDE DEF P
  <2> QED
    BY <1>3, <1>4, Induct
<1>6. ASSUME NEW s \in SUBSET S PROVE Good(s)
  <2>1. Cardinality(s) \in P
    BY <1>1, <1>5
  <2> QED
    BY <2>1
<1>7. fold[{}] = 0
  BY DEF Summed
<1> QED
  BY <1>6, <1>7 DEF AnyOrder

\* Total's loop, one element at a time.
Summands(seq, n, mod) ==
    n \in Nat /\ mod \in Nat /\ DOMAIN seq = 1 .. n /\ \A i \in 1 .. n : seq[i] \in Int
TotalSums(seq, n, mod, acc) ==
    /\ acc \in [0 .. n -> 0 .. Ring(mod) - 1] /\ acc[0] = 0
    /\ \A i \in 1 .. n : acc[i] = Reduce(Wrap(acc[i - 1] + seq[i]), mod)

\* Total is the last of its partial sums.
LEMMA TotalRec ==
  ASSUME NEW seq, NEW n, NEW mod, Summands(seq, n, mod)
  PROVE  \E acc : TotalSums(seq, n, mod, acc) /\ Total(seq, mod) = acc[n]
<1> USE DEF Summands
<1> DEFINE V == 0 .. Ring(mod) - 1
<1>0. 0 \in V /\ \A v \in V, i \in 1 .. n : Reduce(Wrap(v + seq[i]), mod) \in V
  <2>1. 0 \in V
    BY RingType
  <2>2. ASSUME NEW v \in V, NEW i \in 1 .. n PROVE Reduce(Wrap(v + seq[i]), mod) \in V
    <3>1. PICK z \in Int : z = v + seq[i]
      BY RingType
    <3>2. Reduce(Wrap(z), mod) \in V
      BY StepReduced
    <3> QED
      BY <3>1, <3>2
  <2> QED
    BY <2>1, <2>2
<1> HIDE DEF V
<1> DEFINE D == DOMAIN seq
           Fix(h) == [s \in SUBSET D |-> IF s = {} THEN 0
                         ELSE LET x == Max(s) IN Reduce(Wrap(h[s \ {x}] + seq[x]), mod)]
           fold == CHOOSE h : h = Fix(h)
<1>1. Total(seq, mod) = fold[D]
  BY DEF Total, FoldLeft, MapThenFoldSet
<1>2. PICK G : G = [i \in 1 .. n |-> [v \in V |-> Reduce(Wrap(v + seq[i]), mod)]]
  OBVIOUS
<1>3. Folding(n, V, 0, G)
  BY <1>0, <1>2 DEF Folding
<1>4. fold = Fix(fold)
  <2>1. PICK iter : iter \in [SUBSET (1 .. n) -> V] /\ Folded(n, V, 0, G, iter)
    BY <1>3, FoldExists
  <2>2. ASSUME NEW s \in SUBSET D PROVE iter[s] = Fix(iter)[s]
    <3>1. CASE s = {}
      BY <2>1, <3>1 DEF Folded
    <3>2. CASE s # {}
      <4>1. Max(s) \in 1 .. n /\ s \ {Max(s)} \in SUBSET (1 .. n)
        BY <3>2, MaxIn
      <4>2. iter[s] = Reduce(Wrap(iter[s \ {Max(s)}] + seq[Max(s)]), mod)
        BY <1>2, <2>1, <3>2, <4>1 DEF Folded
      <4> QED
        BY <3>2, <4>2
    <3> QED
      BY <3>1, <3>2
  <2>3. iter = Fix(iter)
    BY <2>1, <2>2
  <2> HIDE DEF Fix
  <2> QED
    BY <2>3, Zenon
<1> HIDE DEF fold
<1>5. Folded(n, V, 0, G, fold)
  <2>1. fold[{}] = 0
    BY <1>4
  <2>2. ASSUME NEW s \in SUBSET (1 .. n), s # {}, fold[s \ {Max(s)}] \in V
        PROVE  fold[s] = G[Max(s)][fold[s \ {Max(s)}]]
    <3>1. Max(s) \in 1 .. n
      BY <2>2, MaxIn
    <3>2. fold[s] = Reduce(Wrap(fold[s \ {Max(s)}] + seq[Max(s)]), mod)
      BY <1>4, <2>2
    <3> QED
      BY <1>2, <2>2, <3>1, <3>2
  <2> QED
    BY <2>1, <2>2 DEF Folded
<1>6. PICK acc : PartSums(n, V, 0, G, acc) /\ fold[1 .. n] = acc[n]
  BY <1>3, <1>5, FoldPrefixes
<1>7. acc \in [0 .. n -> V] /\ acc[0] = 0
  BY <1>6 DEF PartSums
<1>8. ASSUME NEW i \in 1 .. n PROVE acc[i] = Reduce(Wrap(acc[i - 1] + seq[i]), mod)
  <2>1. acc[i - 1] \in V
    BY <1>7
  <2> QED
    BY <1>2, <1>6, <2>1 DEF PartSums
<1> QED
  BY <1>1, <1>6, <1>7, <1>8 DEF TotalSums, V
SenderStep(share, pads, mod, ret, k) ==
    Reduce(Wrap(ret + Bit(share, k) * 2 ^ k + Minus(Reduce(pads[k], mod), mod)), mod)

\* A sender's step leaves a residue.
LEMMA SenderStepType ==
  ASSUME NEW share, NEW mod \in Nat, NEW pads, NEW ret \in Int, NEW k \in Nat,
         Minus(Reduce(pads[k], mod), mod) \in Int
  PROVE  SenderStep(share, pads, mod, ret, k) \in 0 .. Ring(mod) - 1
<1>1. 2 ^ k \in Int
  BY Pow
<1>2. PICK b \in Int : b = Bit(share, k) * 2 ^ k
  BY <1>1 DEF Bit
<1>3. ret + b + Minus(Reduce(pads[k], mod), mod) \in Int
  BY <1>2
<1> QED
  BY <1>2, <1>3, StepReduced DEF SenderStep

\* The sender's loop, one place at a time.
UsablePads(n, pads, mod) ==
    n \in Nat /\ mod \in Nat /\ \A k \in 0 .. n - 1 : Minus(Reduce(pads[k], mod), mod) \in Int
SenderSums(share, n, pads, mod, acc) ==
    /\ acc \in [0 .. n -> 0 .. Ring(mod) - 1] /\ acc[0] = 0
    /\ \A i \in 1 .. n : acc[i] = SenderStep(share, pads, mod, acc[i - 1], i - 1)

\* intsum_ot's sender share is the last of its partial sums.
LEMMA IntSenderRec ==
  ASSUME NEW share, NEW n, NEW pads, NEW mod, UsablePads(n, pads, mod)
  PROVE  \E acc : /\ SenderSums(share, n, pads, mod, acc)
                  /\ IntSenderShare(share, TRUE, n, pads, mod) = acc[n]
<1> USE DEF UsablePads
<1> DEFINE V == 0 .. Ring(mod) - 1
           D == DOMAIN Positions(n)
           Fix(h) == [s \in SUBSET D |-> IF s = {} THEN 0 ELSE LET x == Max(s) IN
                        Reduce(Wrap(h[s \ {x}] + Bit(share, Positions(n)[x]) * 2 ^ Positions(n)[x]
                                + Minus(Reduce(pads[Positions(n)[x]], mod), mod)), mod)]
           fold == CHOOSE h : h = Fix(h)
<1>1. IntSenderShare(share, TRUE, n, pads, mod) = fold[D]
  BY DEF IntSenderShare, FoldLeft, MapThenFoldSet
<1>0. D = 1 .. n /\ \A i \in 1 .. n : Positions(n)[i] = i - 1
  BY DEF Positions
<1>2. PICK G : G = [i \in 1 .. n |-> [v \in V |-> SenderStep(share, pads, mod, v, i - 1)]]
  OBVIOUS
<1>3. Folding(n, V, 0, G)
  <2>1. 0 \in V
    BY RingType
  <2>2. \A i \in 1 .. n : \A v \in V : SenderStep(share, pads, mod, v, i - 1) \in V
    <3> TAKE i \in 1 .. n
    <3> TAKE v \in V
    <3>1. i - 1 \in Nat /\ i - 1 \in 0 .. n - 1 /\ v \in Int
      BY RingType
    <3> HIDE DEF V
    <3> QED
      BY <3>1, SenderStepType DEF V
  <2> HIDE DEF V
  <2> QED
    BY <1>2, <2>1, <2>2 DEF Folding
<1> HIDE DEF V
<1>4. fold = Fix(fold)
  <2>1. PICK iter : iter \in [SUBSET (1 .. n) -> V] /\ Folded(n, V, 0, G, iter)
    BY <1>3, FoldExists
  <2>2. ASSUME NEW s \in SUBSET D PROVE iter[s] = Fix(iter)[s]
    <3>1. CASE s = {}
      BY <2>1, <3>1 DEF Folded
    <3>2. CASE s # {}
      <4>1. Max(s) \in 1 .. n /\ s \ {Max(s)} \in SUBSET (1 .. n)
        BY <1>0, <3>2, MaxIn
      <4>2. iter[s] = SenderStep(share, pads, mod, iter[s \ {Max(s)}], Positions(n)[Max(s)])
        BY <1>0, <1>2, <2>1, <3>2, <4>1 DEF Folded
      <4> QED
        BY <3>2, <4>2 DEF SenderStep
    <3> QED
      BY <3>1, <3>2
  <2>3. iter = Fix(iter)
    BY <1>0, <2>1, <2>2
  <2> HIDE DEF Fix
  <2> QED
    BY <2>3, Zenon
<1> HIDE DEF fold
<1>5. Folded(n, V, 0, G, fold)
  <2>1. fold[{}] = 0
    BY <1>4
  <2>2. ASSUME NEW s \in SUBSET (1 .. n), s # {}, fold[s \ {Max(s)}] \in V
        PROVE  fold[s] = G[Max(s)][fold[s \ {Max(s)}]]
    <3>1. Max(s) \in 1 .. n
      BY <2>2, MaxIn
    <3>2. fold[s] = SenderStep(share, pads, mod, fold[s \ {Max(s)}], Positions(n)[Max(s)])
      BY <1>0, <1>4, <2>2 DEF SenderStep
    <3> QED
      BY <1>0, <1>2, <2>2, <3>1, <3>2
  <2> QED
    BY <2>1, <2>2 DEF Folded
<1>6. PICK acc : PartSums(n, V, 0, G, acc) /\ fold[1 .. n] = acc[n]
  BY <1>3, <1>5, FoldPrefixes
<1>7. acc \in [0 .. n -> V] /\ acc[0] = 0
  BY <1>6 DEF PartSums
<1>8. ASSUME NEW i \in 1 .. n PROVE acc[i] = SenderStep(share, pads, mod, acc[i - 1], i - 1)
  <2>1. acc[i - 1] \in V
    BY <1>7
  <2> QED
    BY <1>2, <1>6, <2>1 DEF PartSums
<1> QED
  BY <1>0, <1>1, <1>6, <1>7, <1>8 DEF V, SenderSums
-----------------------------------------------------------------------------
(* A sender's step and a message, without wrap-around                       *)

\* A pad reduced is a residue.
LEMMA PadReduced ==
  ASSUME NEW mod \in Nat, NEW pad \in 0 .. Word - 1
  PROVE  Reduce(pad, mod) \in 0 .. Ring(mod) - 1
<1>1. CASE mod = 0
  BY <1>1 DEF Reduce, Ring
<1>2. CASE mod # 0
  <2>1. mod \in Nat \ {0} /\ pad \in Int
    BY <1>2, WordAssumption
  <2>2. pad % mod \in 0 .. mod - 1
    BY <2>1, ModRange
  <2> QED
    BY <1>2, <2>2 DEF Reduce, Ring
<1> QED
  BY <1>1, <1>2

\* Congruence is kept by adding the same number.
LEMMA CongPlus ==
  ASSUME NEW a \in Int, NEW b \in Int, NEW c \in Int, NEW m \in Nat, Cong(a, b, m)
  PROVE  Cong(c + a, c + b, m)
<1>1. PICK q \in Int : a = b + q * m
  BY DEF Cong
<1>2. q * m \in Int
  OBVIOUS
<1>3. c + a = (c + b) + q * m
  BY <1>1, <1>2
<1> QED
  BY <1>3 DEF Cong

\* The sender takes its pad off and adds its share of the bit.
LEMMA SenderExact ==
  ASSUME NEW share, NEW mod \in Nat, NEW pads, NEW ret \in 0 .. Ring(mod) - 1, NEW k \in Nat,
         NEW b \in 0 .. Ring(mod) - 1, b = Reduce(pads[k], mod), RoomAt(k, mod)
  PROVE  Cong(SenderStep(share, pads, mod, ret, k), ret + Bit(share, k) * 2 ^ k - b, Ring(mod))
<1>1. Ring(mod) \in Nat \ {0} /\ Word \in Nat \ {0}
  BY RingType
<1>2. PICK p \in Int : p = Bit(share, k) * 2 ^ k
      /\ (mod # 0 => p \in 0 .. mod /\ 2 * mod + p <= Word)
  <2>1. 2 ^ k \in Int
    BY Pow
  <2>2. CASE k \in share
    <3>1. Bit(share, k) * 2 ^ k = 2 ^ k
      BY <2>1, <2>2 DEF Bit
    <3> QED
      BY <2>1, <3>1 DEF RoomAt
  <2>3. CASE k \notin share
    <3>1. Bit(share, k) * 2 ^ k = 0
      BY <2>1, <2>3 DEF Bit
    <3>2. mod # 0 => 2 * mod <= Word
      BY <1>1, <2>1 DEF RoomAt
    <3> QED
      BY <3>1, <3>2
  <2> QED
    BY <2>2, <2>3
<1>3. mod = 0 \/ (b \in 0 .. mod /\ mod < Word)
  BY <1>1, <1>2 DEF Ring
<1>4. PICK y \in Nat : y = Minus(b, mod) /\ Cong(y, -b, Ring(mod)) /\ (mod # 0 => y = mod - b)
  BY SMTT(40), <1>3, MinusExact
<1>5. PICK x \in Int : x = ret + p + y
  BY <1>1
<1>6. mod = 0 \/ x \in 0 .. Word - 1
  BY <1>1, <1>2, <1>4, <1>5 DEF Ring
<1>61. Reduce(Wrap(x), mod) \in 0 .. Ring(mod) - 1
  BY StepReduced
<1>7. PICK z \in Int : z = Reduce(Wrap(x), mod) /\ Cong(z, x, Ring(mod))
  BY <1>1, <1>6, <1>61, StepExact
<1>8. PICK w \in Int : w = ret + p - b
  BY <1>1
<1>9. Cong(x, w, Ring(mod))
  <2>1. PICK nb \in Int : nb = -b
    BY <1>1
  <2>2. PICK c \in Int : c = ret + p
    BY <1>1
  <2>3. Cong(c + y, c + nb, Ring(mod))
    BY <1>1, <1>4, <2>1, CongPlus
  <2>4. c + y = x /\ c + nb = w
    BY <1>1, <1>5, <1>8, <2>1, <2>2
  <2> QED
    BY <2>3, <2>4
<1>10. Cong(z, w, Ring(mod))
  <2>1. PICK m \in Nat : m = Ring(mod)
    BY <1>1
  <2>2. Cong(z, x, m) /\ Cong(x, w, m)
    BY <1>7, <1>9, <2>1
  <2> QED
    BY <2>1, <2>2, CongTrans
<1> QED
  BY <1>2, <1>4, <1>5, <1>7, <1>8, <1>10 DEF SenderStep

\* The second message of a pair is off the first by what the bit is worth.
LEMMA MessageExact ==
  ASSUME NEW share, NEW mod \in Nat, NEW k \in Nat, NEW b \in 0 .. Ring(mod) - 1, RoomAt(k, mod),
         NEW c, c = Reduce(Wrap(b + (IF k \in share THEN Minus(2 ^ k, mod) ELSE 2 ^ k)), mod)
  PROVE  /\ c \in 0 .. Ring(mod) - 1
         /\ Cong(c, b + (IF k \in share THEN -(2 ^ k) ELSE 2 ^ k), Ring(mod))
<1>1. Ring(mod) \in Nat \ {0} /\ Word \in Nat \ {0}
  BY RingType
<1>2. PICK p \in Int : p = 2 ^ k
  BY Pow
<1>3. mod # 0 => p \in 0 .. mod /\ 2 * mod + p <= Word
  BY <1>2 DEF RoomAt
<1>4. PICK d \in Int : d = IF k \in share THEN -p ELSE p
  BY <1>2
<1>5. PICK st \in Int : /\ st = (IF k \in share THEN Minus(p, mod) ELSE p)
                        /\ Cong(st, d, Ring(mod))
                        /\ mod # 0 => st \in 0 .. mod
  <2>1. CASE k \in share
    <3>1. mod = 0 \/ (p \in 0 .. mod /\ mod < Word)
      BY <1>1, <1>3
    <3>2. /\ Minus(p, mod) \in Nat /\ Cong(Minus(p, mod), -p, Ring(mod))
          /\ mod # 0 => Minus(p, mod) = mod - p
      BY <3>1, MinusExact
    <3>3. mod # 0 => Minus(p, mod) \in 0 .. mod
      BY <1>3, <3>2
    <3> QED
      BY <1>4, <2>1, <3>2, <3>3
  <2>2. CASE k \notin share
    <3>1. Cong(p, p, Ring(mod))
      BY <1>1, CongSelf
    <3> QED
      BY <1>3, <1>4, <2>2, <3>1
  <2> QED
    BY <2>1, <2>2
<1>6. PICK x \in Int : x = b + st
  BY <1>1
<1>7. mod = 0 \/ x \in 0 .. Word - 1
  BY <1>1, <1>3, <1>5, <1>6 DEF Ring
<1>8. Reduce(Wrap(x), mod) \in 0 .. Ring(mod) - 1
  BY StepReduced
<1>9. PICK z \in Int : z = Reduce(Wrap(x), mod) /\ Cong(z, x, Ring(mod))
  BY <1>1, <1>7, <1>8, StepExact
<1>10. PICK w \in Int : w = b + d
  BY <1>1
<1>11. Cong(x, w, Ring(mod))
  BY <1>1, <1>5, <1>6, <1>10, CongPlus
<1>12. Cong(z, w, Ring(mod))
  <2>1. PICK m \in Nat : m = Ring(mod)
    BY <1>1
  <2>2. Cong(z, x, m) /\ Cong(x, w, m)
    BY <1>9, <1>11, <2>1
  <2> QED
    BY <2>1, <2>2, CongTrans
<1>13. c = z
  BY <1>2, <1>5, <1>6, <1>9
<1>14. w = b + (IF k \in share THEN -(2 ^ k) ELSE 2 ^ k)
  BY <1>2, <1>4, <1>10
<1> QED
  BY <1>8, <1>9, <1>12, <1>13, <1>14
-----------------------------------------------------------------------------
(* The value of a set of bits, bit by bit                                   *)

\* The value of an integer, from the positions of its 1 bits.
BitsValue(bits) == MapThenSumSet(LAMBDA k : 2 ^ k, bits)

\* A sum over a set, one element at a time, in any order.
LEMMA ValueSum ==
  ASSUME NEW S \in SUBSET Nat, IsFiniteSet(S)
  PROVE  \E fold : BitsValue(S) = fold[S] /\ AnyOrder(S, [x \in S |-> 2 ^ x], fold)
<1> DEFINE Fix(h) == [s \in SUBSET S |-> IF s = {} THEN 0 ELSE
                        LET x == (CHOOSE y \in s : TRUE) IN 2 ^ x + h[s \ {x}]]
           fold == CHOOSE h : h = Fix(h)
<1>1. BitsValue(S) = fold[S]
  BY DEF BitsValue, MapThenSumSet, MapThenFoldSet
<1>2. PICK f : f = [x \in S |-> 2 ^ x]
  OBVIOUS
<1>3. Summable(S, f)
  <2>1. \A x \in S : 2 ^ x \in Int
    BY Pow
  <2> QED
    BY <1>2, <2>1 DEF Summable
<1>4. PICK iter : iter \in [SUBSET S -> Int] /\ Summed(S, f, iter)
  BY <1>3, SumExists
<1>5. ASSUME NEW s \in SUBSET S PROVE iter[s] = Fix(iter)[s]
  <2>1. CASE s = {}
    BY <1>4, <2>1 DEF Summed
  <2>2. CASE s # {}
    <3>1. iter[s] = f[Arb(s)] + iter[s \ {Arb(s)}]
      BY <1>4, <2>2 DEF Summed
    <3>2. Arb(s) \in S
      BY <2>2, ArbIn
    <3>3. f[Arb(s)] = 2 ^ Arb(s)
      BY <1>2, <3>2
    <3> QED
      BY <2>2, <3>1, <3>3 DEF Arb
  <2> QED
    BY <2>1, <2>2
<1>6. iter = Fix(iter)
  BY <1>4, <1>5
<1>7. fold = Fix(fold)
  <2> HIDE DEF Fix
  <2> QED
    BY <1>6, Zenon
<1> HIDE DEF fold
<1>8. Summed(S, f, fold)
  <2>1. fold[{}] = 0
    BY <1>7
  <2>2. ASSUME NEW s \in SUBSET S, s # {} PROVE fold[s] = f[Arb(s)] + fold[s \ {Arb(s)}]
    <3>1. fold[s] = 2 ^ Arb(s) + fold[s \ {Arb(s)}]
      BY <1>7, <2>2 DEF Arb
    <3>2. Arb(s) \in S
      BY <2>2, ArbIn
    <3> QED
      BY <1>2, <3>1, <3>2
  <2> QED
    BY <2>1, <2>2 DEF Summed
<1>9. AnyOrder(S, f, fold)
  BY <1>3, <1>8, SumAny
<1> QED
  BY <1>1, <1>2, <1>9

\* In order of position.
Below(bits, i) == bits \cap (0 .. i - 1)

ValueSums(n, bits, acc) ==
    /\ acc \in [0 .. n -> Int] /\ acc[0] = 0
    /\ \A i \in 1 .. n : acc[i] = acc[i - 1] + Bit(bits, i - 1) * 2 ^ (i - 1)

\* The value of a set of bits is the last of its partial sums.
LEMMA ValueRec ==
  ASSUME NEW n \in Nat, NEW bits \in SUBSET (0 .. n - 1)
  PROVE  \E acc : ValueSums(n, bits, acc) /\ BitsValue(bits) = acc[n]
<1>1. bits \in SUBSET Nat /\ IsFiniteSet(bits)
  <2>1. IsFiniteSet(0 .. n - 1)
    BY FS_Interval
  <2>2. bits \subseteq 0 .. n - 1
    OBVIOUS
  <2>3. IsFiniteSet(bits)
    BY <2>1, <2>2, FS_Subset
  <2> QED
    BY <2>3
<1>2. PICK fold : BitsValue(bits) = fold[bits] /\ AnyOrder(bits, [x \in bits |-> 2 ^ x], fold)
  BY <1>1, ValueSum
<1>3. fold[{}] = 0 /\ \A s \in SUBSET bits : /\ fold[s] \in Int
                                            /\ \A x \in s : fold[s] = 2 ^ x + fold[s \ {x}]
  BY <1>2 DEF AnyOrder
<1>4. Below(bits, 0) = {} /\ Below(bits, n) = bits
  <2>1. 0 .. 0 - 1 = {}
    OBVIOUS
  <2>2. bits \subseteq 0 .. n - 1
    OBVIOUS
  <2> QED
    BY <2>1, <2>2 DEF Below
<1>5. \A i \in 0 .. n : Below(bits, i) \in SUBSET bits
  BY DEF Below
<1>6. PICK acc : acc = [i \in 0 .. n |-> fold[Below(bits, i)]]
  OBVIOUS
<1>7. acc \in [0 .. n -> Int]
  BY <1>3, <1>5, <1>6
<1>8. ASSUME NEW i \in 1 .. n PROVE acc[i] = acc[i - 1] + Bit(bits, i - 1) * 2 ^ (i - 1)
  <2>1. PICK k \in 0 .. n - 1 : k = i - 1
    OBVIOUS
  <2>2. acc[i] = fold[Below(bits, i)] /\ acc[k] = fold[Below(bits, k)] /\ acc[k] \in Int
    <3>1. i \in 0 .. n /\ k \in 0 .. n
      OBVIOUS
    <3> QED
      BY <1>6, <1>7, <3>1
  <2>3. 2 ^ k \in Int
    BY Pow
  <2>4. CASE k \in bits
    <3>1. k \in Below(bits, i) /\ Below(bits, i) \ {k} = Below(bits, k)
      BY <2>1, <2>4 DEF Below
    <3>2. Below(bits, i) \in SUBSET bits
      BY DEF Below
    <3>3. fold[Below(bits, i)] = 2 ^ k + fold[Below(bits, k)]
      BY <1>3, <3>1, <3>2
    <3>4. Bit(bits, k) * 2 ^ k = 2 ^ k
      BY <2>3, <2>4 DEF Bit
    <3> QED
      BY <2>1, <2>2, <2>3, <3>3, <3>4
  <2>5. CASE k \notin bits
    <3>1. Below(bits, i) = Below(bits, k)
      BY <2>1, <2>5 DEF Below
    <3>2. Bit(bits, k) * 2 ^ k = 0
      BY <2>3, <2>5 DEF Bit
    <3> QED
      BY <2>1, <2>2, <3>1, <3>2
  <2> QED
    BY <2>4, <2>5
<1>9. acc[0] = 0 /\ BitsValue(bits) = acc[n]
  <2>1. 0 \in 0 .. n /\ n \in 0 .. n
    OBVIOUS
  <2>2. acc[0] = fold[Below(bits, 0)] /\ acc[n] = fold[Below(bits, n)]
    BY <1>6, <2>1
  <2> QED
    BY <1>2, <1>3, <1>4, <2>2
<1> QED
  BY <1>7, <1>8, <1>9 DEF ValueSums
-----------------------------------------------------------------------------
(* One bit of intsum_ot                                                     *)

\* One place of an integer: what both sides add is worth the place's bit of
\* the XOR.
LEMMA PlaceExact ==
  ASSUME NEW a, NEW b, NEW k \in Nat, NEW mod \in Nat, RoomAt(k, mod),
         NEW pads, NEW pad \in 0 .. Ring(mod) - 1, pad = Reduce(pads[k], mod),
         NEW c, c = (IF k \in b
                     THEN Reduce(Wrap(pad + (IF k \in a THEN Minus(2 ^ k, mod) ELSE 2 ^ k)), mod)
                     ELSE pad),
         NEW x \in 0 .. Ring(mod) - 1, NEW y \in 0 .. Ring(mod) - 1, NEW v \in Int,
         Cong(x + y, v, Ring(mod))
  PROVE  Cong(SenderStep(a, pads, mod, x, k) + Reduce(Wrap(y + c), mod),
              v + Bit(SymDiff(a, b), k) * 2 ^ k, Ring(mod))
<1>1. PICK m \in Nat : m = Ring(mod) /\ m # 0
  BY RingType
<1>2. PICK p \in Int : p = 2 ^ k
  BY Pow
<1>3. PICK d \in Int : d = IF k \in a THEN -p ELSE p
  BY <1>2
<1>4. PICK e \in Int : e = IF k \in b THEN d ELSE 0
  BY <1>3
<1>5. PICK f \in Int : f = Bit(a, k) * p
  BY <1>2 DEF Bit
<1>6. f + e = Bit(SymDiff(a, b), k) * p
  BY <1>2, <1>3, <1>4, <1>5 DEF Bit, SymDiff
<1>7. c \in 0 .. m - 1 /\ Cong(c, pad + e, m)
  <2>1. CASE k \in b
    <3>1. /\ c \in 0 .. Ring(mod) - 1
          /\ Cong(c, pad + (IF k \in a THEN -(2 ^ k) ELSE 2 ^ k), Ring(mod))
      BY <2>1, MessageExact
    <3> QED
      BY <1>1, <1>2, <1>3, <1>4, <2>1, <3>1
  <2>2. CASE k \notin b
    <3>1. c = pad /\ pad + e = pad /\ pad \in 0 .. m - 1 /\ pad \in Int
      BY <1>1, <1>4, <2>2
    <3>2. Cong(pad, pad, m)
      BY <1>1, <3>1, CongSelf
    <3> QED
      BY <3>1, <3>2
  <2> QED
    BY <2>1, <2>2
<1>8. PICK s \in Int : /\ s = SenderStep(a, pads, mod, x, k)
                       /\ Cong(s, x + f - pad, m)
  <2>1. Cong(SenderStep(a, pads, mod, x, k), x + Bit(a, k) * 2 ^ k - pad, Ring(mod))
    BY SenderExact
  <2>2. SenderStep(a, pads, mod, x, k) \in Int
    <3>1. Reduce(Wrap(x + Bit(a, k) * 2 ^ k + Minus(Reduce(pads[k], mod), mod)), mod) \in 0 .. Ring(mod) - 1
      <4>1. Minus(pad, mod) \in Int
        <5>1. MaxOf(mod) - pad + 1 \in Int
          BY WordAssumption DEF MaxOf, Ring
        <5>2. (MaxOf(mod) - pad + 1) % Word \in 0 .. Word - 1
          BY <5>1, ModRange, WordAssumption
        <5> QED
          BY <5>2 DEF Minus, Wrap
      <4>2. PICK z \in Int : z = x + Bit(a, k) * 2 ^ k + Minus(Reduce(pads[k], mod), mod)
        BY <1>1, <1>2, <1>5, <4>1
      <4>3. Reduce(Wrap(z), mod) \in 0 .. Ring(mod) - 1
        BY StepReduced
      <4> QED
        BY <4>2, <4>3
    <3> QED
      BY <1>1, <3>1 DEF SenderStep
  <2> QED
    BY <1>1, <1>2, <1>5, <2>1, <2>2
<1>9. PICK r \in Int : r = Reduce(Wrap(y + c), mod) /\ Cong(r, y + c, m)
  <2>1. y + c \in Int /\ (mod = 0 \/ y + c \in 0 .. Word - 1)
    <3>1. mod # 0 => 2 * mod <= Word /\ m = mod
      BY <1>1, <1>2 DEF RoomAt, Ring
    <3> QED
      BY <1>1, <1>7, <3>1, WordAssumption
  <2>2. PICK z \in Int : z = y + c /\ (mod = 0 \/ z \in 0 .. Word - 1)
    BY <2>1
  <2>3. Reduce(Wrap(z), mod) \in 0 .. Ring(mod) - 1 /\ Cong(Reduce(Wrap(z), mod), z, Ring(mod))
    BY <2>2, StepReduced, StepExact
  <2> QED
    BY <1>1, <2>2, <2>3
<1>10. PICK q1 \in Int : s = (x + f - pad) + q1 * m
  BY <1>8 DEF Cong
<1>11. PICK q2 \in Int : r = (y + c) + q2 * m
  BY <1>9 DEF Cong
<1>12. PICK q3 \in Int : c = (pad + e) + q3 * m
  BY <1>7 DEF Cong
<1>13. PICK q4 \in Int : x + y = v + q4 * m
  BY <1>1 DEF Cong
<1>14. PICK q \in Int : q = q1 + q2 + q3 + q4
  OBVIOUS
<1>15. q * m = q1 * m + q2 * m + q3 * m + q4 * m
       /\ q1 * m \in Int /\ q2 * m \in Int /\ q3 * m \in Int /\ q4 * m \in Int
  BY <1>14
<1>16. s + r = (v + (f + e)) + q * m
  BY <1>1, <1>7, <1>10, <1>11, <1>12, <1>13, <1>15
<1>17. Cong(s + r, v + (f + e), m)
  BY <1>16 DEF Cong
<1> QED
  BY <1>1, <1>2, <1>6, <1>8, <1>9, <1>17
-----------------------------------------------------------------------------
(* One entry of intsum_ot                                                   *)

\* max - x + 1 is a word.
LEMMA MinusType ==
  ASSUME NEW mod \in Nat, NEW x \in Int
  PROVE  Minus(x, mod) \in Int
<1>1. PICK z \in Int : z = MaxOf(mod) - x + 1
  BY WordAssumption DEF MaxOf
<1>2. z % Word \in 0 .. Word - 1
  BY ModRange, WordAssumption
<1> QED
  BY <1>1, <1>2 DEF Minus, Wrap

\* intsum_ot: an entry's two shares are residues and add up to the opened
\* value, for any number of bits and any pads.
LEMMA IntEntryExact ==
  ASSUME NEW n \in Nat, NEW mod \in Nat, \A k \in 0 .. n - 1 : RoomAt(k, mod),
         NEW a \in SUBSET (0 .. n - 1), NEW b \in SUBSET (0 .. n - 1),
         NEW pads, \A k \in 0 .. n - 1 : pads[k] \in 0 .. Word - 1, NEW messages,
         messages = IntMessages(a, TRUE, n, pads, mod),
         NEW s, s = IntSenderShare(a, TRUE, n, pads, mod),
         NEW r, r = IntReceiverShare(b, n, messages, mod)
  PROVE  /\ Cong(s + r, BitsValue(SymDiff(a, b)), Ring(mod))
         /\ s \in 0 .. Ring(mod) - 1 /\ r \in 0 .. Ring(mod) - 1
         /\ BitsValue(SymDiff(a, b)) \in Int
<1>1. PICK m \in Nat : m = Ring(mod) /\ m # 0
  BY RingType
<1> DEFINE V == 0 .. Ring(mod) - 1
           pad(k) == Reduce(pads[k], mod)
           pick(k) == IF k \in b
                      THEN Reduce(Wrap(pad(k) + (IF k \in a THEN Minus(2 ^ k, mod) ELSE 2 ^ k)), mod)
                      ELSE pad(k)
           seq == [k \in 1 .. n |-> Chosen(messages[k - 1], Bit(b, k - 1))]
<1>2. ASSUME NEW k \in 0 .. n - 1 PROVE pad(k) \in V /\ Minus(pad(k), mod) \in Int
  <2>1. pad(k) \in V
    BY PadReduced
  <2>2. pad(k) \in Int
    BY <1>1, <2>1
  <2> HIDE DEF V, pad
  <2> QED
    BY <2>1, <2>2, MinusType
<1>3. ASSUME NEW i \in 1 .. n PROVE seq[i] = pick(i - 1) /\ seq[i] \in Int
  <2>1. PICK k \in 0 .. n - 1 : k = i - 1
    OBVIOUS
  <2>2. messages[k] = <<pad(k), Reduce(Wrap(pad(k) + (IF k \in a THEN Minus(2 ^ k, mod) ELSE 2 ^ k)), mod)>>
    BY <1>1 DEF IntMessages
  <2>3. seq[i] = Chosen(messages[k], Bit(b, k))
    BY <2>1
  <2>4. seq[i] = pick(k)
    <3>1. PICK A : A = pad(k)
      OBVIOUS
    <3>2. PICK B : B = Reduce(Wrap(pad(k) + (IF k \in a THEN Minus(2 ^ k, mod) ELSE 2 ^ k)), mod)
      OBVIOUS
    <3>3. messages[k] = <<A, B>>
      BY <2>2, <3>1, <3>2
    <3>4. Chosen(<<A, B>>, Bit(b, k)) = IF k \in b THEN B ELSE A
      BY DEF Chosen, Bit
    <3>5. pick(k) = IF k \in b THEN B ELSE A
      BY <3>1, <3>2
    <3> HIDE DEF seq, pick
    <3> QED
      BY <2>3, <3>3, <3>4, <3>5
  <2>5. pick(k) \in Int
    <3>0. 2 ^ k \in Int
      BY Pow
    <3>01. Minus(2 ^ k, mod) \in Int
      BY <3>0, MinusType
    <3>1. PICK st \in Int : st = IF k \in a THEN Minus(2 ^ k, mod) ELSE 2 ^ k
      BY <3>0, <3>01
    <3>10. pad(k) \in Int
      BY <1>1, <1>2
    <3>2. PICK z \in Int : z = pad(k) + st
      BY <3>1, <3>10
    <3>3. Reduce(Wrap(z), mod) \in 0 .. Ring(mod) - 1
      BY StepReduced
    <3> QED
      BY <1>1, <3>1, <3>10, <3>2, <3>3
  <2> HIDE DEF seq, pick
  <2> QED
    BY <2>1, <2>4, <2>5
<1>4. PICK x : SenderSums(a, n, pads, mod, x) /\ s = x[n]
  <2>1. UsablePads(n, pads, mod)
    BY <1>2 DEF UsablePads
  <2> QED
    BY <2>1, IntSenderRec
<1>5. PICK y : TotalSums(seq, n, mod, y) /\ r = y[n]
  <2>1. Summands(seq, n, mod)
    <3>1. DOMAIN seq = 1 .. n
      OBVIOUS
    <3> HIDE DEF seq
    <3> QED
      BY <1>3, <3>1 DEF Summands
  <2>2. r = Total(seq, mod)
    BY DEF IntReceiverShare
  <2> HIDE DEF seq
  <2> QED
    BY ZenonT(40), <2>1, <2>2, TotalRec
<1>6. PICK v : ValueSums(n, SymDiff(a, b), v) /\ BitsValue(SymDiff(a, b)) = v[n]
  <2>1. SymDiff(a, b) \in SUBSET (0 .. n - 1)
    BY DEF SymDiff
  <2> QED
    BY <2>1, ValueRec
<1>60. /\ x \in [0 .. n -> V] /\ x[0] = 0 /\ y \in [0 .. n -> V] /\ y[0] = 0
       /\ v \in [0 .. n -> Int] /\ v[0] = 0
  BY <1>4, <1>5, <1>6 DEF SenderSums, TotalSums, ValueSums
<1> DEFINE P == {i \in Nat : i <= n => Cong(x[i] + y[i], v[i], Ring(mod))}
<1>7. 0 \in P
  <2>1. Cong(0, 0, Ring(mod))
    BY <1>1, CongSelf
  <2> QED
    BY <1>60, <2>1
<1>8. ASSUME NEW j \in Nat, j \in P PROVE j + 1 \in P
  <2>1. CASE j + 1 <= n
    <3>1. j \in 0 .. n - 1 /\ j + 1 \in 1 .. n /\ (j + 1) - 1 = j /\ j \in 0 .. n
      BY <2>1
    <3>2. PICK i \in 1 .. n : i = j + 1 /\ i - 1 = j
      BY <3>1
    <3>3. x[j] \in V /\ y[j] \in V /\ v[j] \in Int
      BY <1>60, <3>1
    <3>4. Cong(x[j] + y[j], v[j], Ring(mod))
      BY <1>8, <3>1
    <3>5. x[i] = SenderStep(a, pads, mod, x[j], j)
      BY <1>4, <3>2 DEF SenderSums
    <3>6. y[i] = Reduce(Wrap(y[j] + pick(j)), mod)
      <4>1. y[i] = Reduce(Wrap(y[i - 1] + seq[i]), mod) /\ seq[i] = pick(i - 1)
        BY <1>3, <1>5 DEF TotalSums
      <4> HIDE DEF seq, pick
      <4> QED
        BY <3>2, <4>1
    <3>7. v[i] = v[j] + Bit(SymDiff(a, b), j) * 2 ^ j
      BY <1>6, <3>2 DEF ValueSums
    <3>8. PICK c : c = pick(j)
      OBVIOUS
    <3>9. PICK p \in V : p = pad(j)
      BY <1>2, <3>1
    <3>10. c = IF j \in b
               THEN Reduce(Wrap(p + (IF j \in a THEN Minus(2 ^ j, mod) ELSE 2 ^ j)), mod)
               ELSE p
      BY <3>8, <3>9
    <3>11. RoomAt(j, mod)
      BY <3>1
    <3>12. Cong(SenderStep(a, pads, mod, x[j], j) + Reduce(Wrap(y[j] + c), mod),
                v[j] + Bit(SymDiff(a, b), j) * 2 ^ j, Ring(mod))
      BY <3>1, <3>3, <3>4, <3>9, <3>10, <3>11, PlaceExact
    <3>13. Cong(x[i] + y[i], v[i], Ring(mod))
      BY <3>5, <3>6, <3>7, <3>8, <3>12
    <3> QED
      BY <3>2, <3>13
  <2> QED
    BY <2>1
<1>9. Nat \subseteq P
  <2> HIDE DEF P
  <2> QED
    BY <1>7, <1>8, Induct
<1>10. Cong(x[n] + y[n], v[n], Ring(mod))
  BY <1>9
<1>11. s \in V /\ r \in V /\ v[n] \in Int
  <2>1. n \in 0 .. n
    OBVIOUS
  <2> HIDE DEF V, seq
  <2> QED
    BY <1>4, <1>5, <1>60, <2>1
<1>12. Cong(s + r, BitsValue(SymDiff(a, b)), Ring(mod)) /\ BitsValue(SymDiff(a, b)) \in Int
  <2> HIDE DEF V, seq
  <2> QED
    BY <1>4, <1>5, <1>6, <1>10, <1>11
<1> QED
  BY <1>11, <1>12
-----------------------------------------------------------------------------
(* What intsum_ot returns for any modulus                                   *)

\* A message of a pair is an integer.
LEMMA MessageType ==
  ASSUME NEW n \in Nat, NEW mod \in Nat, NEW a, NEW valid \in BOOLEAN,
         NEW pads \in [0 .. n - 1 -> 0 .. Word - 1], NEW k \in 0 .. n - 1, NEW choice
  PROVE  Chosen(IntMessages(a, valid, n, pads, mod)[k], choice) \in Int
<1>1. PICK p \in Int : p = Reduce(pads[k], mod)
  <2>1. Reduce(pads[k], mod) \in 0 .. Ring(mod) - 1
    BY PadReduced
  <2> QED
    BY <2>1, RingType
<1>2. PICK st \in Int : st = IF k \in a THEN Minus(2 ^ k, mod) ELSE 2 ^ k
  <2>1. 2 ^ k \in Int
    BY Pow
  <2> QED
    BY <2>1, MinusType
<1>3. PICK q \in Int : q = Reduce(Wrap(p + st), mod)
  <2>1. PICK z \in Int : z = p + st
    OBVIOUS
  <2>2. Reduce(Wrap(z), mod) \in 0 .. Ring(mod) - 1
    BY StepReduced
  <2> QED
    BY <2>1, <2>2, RingType
<1>4. IntMessages(a, valid, n, pads, mod)[k] = IF valid THEN <<p, q>> ELSE <<0, 0>>
  BY <1>1, <1>2, <1>3 DEF IntMessages
<1>5. CASE valid
  BY <1>4, <1>5 DEF Chosen
<1>6. CASE ~valid
  BY <1>4, <1>6 DEF Chosen
<1> QED
  BY <1>5, <1>6

\* intsum_ot returns residues, whatever wraps.
LEMMA IntEntryReduced ==
  ASSUME NEW n \in Nat, NEW mod \in Nat, NEW a, NEW b, NEW valid \in BOOLEAN,
         NEW pads \in [0 .. n - 1 -> 0 .. Word - 1]
  PROVE  /\ IntSenderShare(a, valid, n, pads, mod) \in 0 .. Ring(mod) - 1
         /\ IntReceiverShare(b, n, IntMessages(a, valid, n, pads, mod), mod)
                \in 0 .. Ring(mod) - 1
<1>1. IntSenderShare(a, valid, n, pads, mod) \in 0 .. Ring(mod) - 1
  <2>1. CASE ~valid
    BY <2>1, RingType DEF IntSenderShare
  <2>2. CASE valid
    <3>1. UsablePads(n, pads, mod)
      <4>1. ASSUME NEW k \in 0 .. n - 1 PROVE Minus(Reduce(pads[k], mod), mod) \in Int
        <5>1. Reduce(pads[k], mod) \in 0 .. Ring(mod) - 1
          BY PadReduced
        <5>2. PICK p \in Int : p = Reduce(pads[k], mod)
          BY <5>1, RingType
        <5> QED
          BY <5>2, MinusType
      <4> QED
        BY <4>1 DEF UsablePads
    <3>2. PICK x : SenderSums(a, n, pads, mod, x) /\ IntSenderShare(a, TRUE, n, pads, mod) = x[n]
      BY <3>1, IntSenderRec
    <3>3. n \in 0 .. n
      OBVIOUS
    <3> QED
      BY ZenonT(40), <2>2, <3>2, <3>3 DEF SenderSums
  <2> QED
    BY <2>1, <2>2
<1>2. PICK messages : messages = IntMessages(a, valid, n, pads, mod)
  OBVIOUS
<1> DEFINE seq == [k \in 1 .. n |-> Chosen(messages[k - 1], Bit(b, k - 1))]
<1>3. Summands(seq, n, mod)
  <2>1. DOMAIN seq = 1 .. n
    OBVIOUS
  <2>2. ASSUME NEW i \in 1 .. n PROVE seq[i] \in Int
    <3>1. PICK k \in 0 .. n - 1 : k = i - 1
      OBVIOUS
    <3>2. Chosen(messages[k], Bit(b, k)) \in Int
      BY <1>2, MessageType
    <3> QED
      BY <3>1, <3>2
  <2> HIDE DEF seq
  <2> QED
    BY <2>1, <2>2 DEF Summands
<1>4. IntReceiverShare(b, n, messages, mod) = Total(seq, mod)
  BY DEF IntReceiverShare
<1> HIDE DEF seq
<1>5. PICK y : TotalSums(seq, n, mod, y) /\ Total(seq, mod) = y[n]
  BY <1>3, TotalRec
<1>6. n \in 0 .. n
  OBVIOUS
<1>7. y[n] \in 0 .. Ring(mod) - 1
  BY <1>5, <1>6 DEF TotalSums
<1> QED
  BY <1>1, <1>2, <1>4, <1>5, <1>7

\* An invalid entry of intsum_ot is worth nothing.
LEMMA IntEntryInvalid ==
  ASSUME NEW n \in Nat, NEW mod \in Nat, NEW a, NEW b, NEW pads
  PROVE  /\ IntSenderShare(a, FALSE, n, pads, mod) = 0
         /\ IntReceiverShare(b, n, IntMessages(a, FALSE, n, pads, mod), mod) = 0
<1>1. IntSenderShare(a, FALSE, n, pads, mod) = 0
  BY DEF IntSenderShare
<1>2. PICK messages : messages = IntMessages(a, FALSE, n, pads, mod)
  OBVIOUS
<1> DEFINE seq == [k \in 1 .. n |-> Chosen(messages[k - 1], Bit(b, k - 1))]
<1>3. DOMAIN seq = 1 .. n /\ \A i \in 1 .. n : seq[i] = 0
  <2>1. ASSUME NEW i \in 1 .. n PROVE seq[i] = 0
    <3>1. PICK k \in 0 .. n - 1 : k = i - 1
      OBVIOUS
    <3>2. messages[k] = <<0, 0>>
      BY <1>2 DEF IntMessages
    <3>3. Chosen(messages[k], Bit(b, k)) = 0
      BY <3>2 DEF Chosen
    <3> QED
      BY <3>1, <3>3
  <2> QED
    BY <2>1
<1>4. IntReceiverShare(b, n, messages, mod) = Total(seq, mod)
  BY DEF IntReceiverShare
<1> HIDE DEF seq
<1>5. Summands(seq, n, mod)
  BY <1>3 DEF Summands
<1>6. PICK y : TotalSums(seq, n, mod, y) /\ Total(seq, mod) = y[n]
  BY <1>5, TotalRec
<1>7. Reduce(Wrap(0 + 0), mod) = 0
  <2>1. Wrap(0) = 0
    BY ModSmall, WordAssumption DEF Wrap
  <2>2. CASE mod = 0
    BY <2>1, <2>2 DEF Reduce
  <2>3. CASE mod # 0
    <3>1. mod \in Nat \ {0} /\ 0 \in 0 .. mod - 1
      BY <2>3
    <3>2. 0 % mod = 0
      BY <3>1, ModSmall
    <3> QED
      BY <2>1, <2>3, <3>2 DEF Reduce
  <2> QED
    BY <2>2, <2>3
<1> DEFINE P == {i \in Nat : i <= n => y[i] = 0}
<1>8. 0 \in P
  BY <1>6 DEF TotalSums
<1>9. ASSUME NEW j \in Nat, j \in P PROVE j + 1 \in P
  <2>1. CASE j + 1 <= n
    <3>1. PICK i \in 1 .. n : i = j + 1 /\ i - 1 = j /\ j <= n
      BY <2>1
    <3>2. y[i] = Reduce(Wrap(y[j] + seq[i]), mod)
      BY <1>6, <3>1 DEF TotalSums
    <3>3. y[j] = 0 /\ seq[i] = 0
      BY <1>3, <1>9, <3>1
    <3> QED
      BY <1>7, <3>1, <3>2, <3>3
  <2> QED
    BY <2>1
<1>10. Nat \subseteq P
  <2> HIDE DEF P
  <2> QED
    BY <1>8, <1>9, Induct
<1>11. y[n] = 0
  BY <1>10
<1> QED
  BY <1>1, <1>2, <1>4, <1>6, <1>11
-----------------------------------------------------------------------------
(* bitsum_ot's sender                                                       *)

\* bitsum_ot's sender, one entry at a time.
BitStep(shares, valid, pads, mod, sum, i) ==
    IF valid[i]
    THEN Reduce(Wrap(sum + Minus(Reduce(pads[i], mod), mod) + Bit(shares[i], 0)), mod)
    ELSE sum
BitPads(n, pads, mod) ==
    n \in Nat /\ mod \in Nat /\ \A i \in 1 .. n : Minus(Reduce(pads[i], mod), mod) \in Int
BitSums(shares, valid, n, pads, mod, acc) ==
    /\ acc \in [0 .. n -> 0 .. Ring(mod) - 1] /\ acc[0] = 0
    /\ \A i \in 1 .. n : acc[i] = BitStep(shares, valid, pads, mod, acc[i - 1], i)

\* A step of bitsum_ot's sender leaves a residue.
LEMMA BitStepType ==
  ASSUME NEW shares, NEW valid, NEW mod \in Nat, NEW pads, NEW sum \in 0 .. Ring(mod) - 1, NEW i,
         Minus(Reduce(pads[i], mod), mod) \in Int
  PROVE  BitStep(shares, valid, pads, mod, sum, i) \in 0 .. Ring(mod) - 1
<1>1. PICK z \in Int : z = sum + Minus(Reduce(pads[i], mod), mod) + Bit(shares[i], 0)
  BY RingType DEF Bit
<1>2. Reduce(Wrap(z), mod) \in 0 .. Ring(mod) - 1
  BY StepReduced
<1> QED
  BY <1>1, <1>2 DEF BitStep

\* bitsum_ot's sender sum is the last of its partial sums.
LEMMA BitSenderRec ==
  ASSUME NEW shares, NEW valid, NEW n, NEW pads, NEW mod, BitPads(n, pads, mod),
         DOMAIN shares = 1 .. n
  PROVE  \E acc : /\ BitSums(shares, valid, n, pads, mod, acc)
                  /\ BitSenderSum(shares, valid, pads, mod) = acc[n]
<1> USE DEF BitPads
<1> DEFINE V == 0 .. Ring(mod) - 1
           Order == [i \in DOMAIN shares |-> i]
           D == DOMAIN Order
           Fix(h) == [s \in SUBSET D |-> IF s = {} THEN 0 ELSE LET x == Max(s) IN
                        IF valid[Order[x]]
                        THEN Reduce(Wrap(h[s \ {x}] + Minus(Reduce(pads[Order[x]], mod), mod)
                                             + Bit(shares[Order[x]], 0)), mod)
                        ELSE h[s \ {x}]]
           fold == CHOOSE h : h = Fix(h)
<1>1. BitSenderSum(shares, valid, pads, mod) = fold[D]
  BY DEF BitSenderSum, FoldLeft, MapThenFoldSet
<1>0. D = 1 .. n /\ \A i \in 1 .. n : Order[i] = i
  OBVIOUS
<1>2. PICK G : G = [i \in 1 .. n |-> [v \in V |-> BitStep(shares, valid, pads, mod, v, i)]]
  OBVIOUS
<1>3. Folding(n, V, 0, G)
  <2>1. 0 \in V
    BY RingType
  <2>2. \A i \in 1 .. n : \A v \in V : BitStep(shares, valid, pads, mod, v, i) \in V
    BY BitStepType
  <2> HIDE DEF V
  <2> QED
    BY <1>2, <2>1, <2>2 DEF Folding
<1> HIDE DEF V
<1>4. fold = Fix(fold)
  <2>1. PICK iter : iter \in [SUBSET (1 .. n) -> V] /\ Folded(n, V, 0, G, iter)
    BY <1>3, FoldExists
  <2>2. ASSUME NEW s \in SUBSET D PROVE iter[s] = Fix(iter)[s]
    <3>1. CASE s = {}
      BY <2>1, <3>1 DEF Folded
    <3>2. CASE s # {}
      <4>1. Max(s) \in 1 .. n /\ s \ {Max(s)} \in SUBSET (1 .. n)
        BY <1>0, <3>2, MaxIn
      <4>2. iter[s] = BitStep(shares, valid, pads, mod, iter[s \ {Max(s)}], Order[Max(s)])
        BY <1>0, <1>2, <2>1, <3>2, <4>1 DEF Folded
      <4> QED
        BY <3>2, <4>2 DEF BitStep
    <3> QED
      BY <3>1, <3>2
  <2>3. iter = Fix(iter)
    BY <1>0, <2>1, <2>2
  <2> HIDE DEF Fix
  <2> QED
    BY <2>3, Zenon
<1> HIDE DEF fold
<1>5. Folded(n, V, 0, G, fold)
  <2>1. fold[{}] = 0
    BY <1>4
  <2>2. ASSUME NEW s \in SUBSET (1 .. n), s # {}, fold[s \ {Max(s)}] \in V
        PROVE  fold[s] = G[Max(s)][fold[s \ {Max(s)}]]
    <3>1. Max(s) \in 1 .. n
      BY <2>2, MaxIn
    <3>2. fold[s] = BitStep(shares, valid, pads, mod, fold[s \ {Max(s)}], Order[Max(s)])
      BY <1>0, <1>4, <2>2 DEF BitStep
    <3> QED
      BY <1>0, <1>2, <2>2, <3>1, <3>2
  <2> QED
    BY <2>1, <2>2 DEF Folded
<1>6. PICK acc : PartSums(n, V, 0, G, acc) /\ fold[1 .. n] = acc[n]
  BY <1>3, <1>5, FoldPrefixes
<1>7. acc \in [0 .. n -> V] /\ acc[0] = 0
  BY <1>6 DEF PartSums
<1>8. ASSUME NEW i \in 1 .. n PROVE acc[i] = BitStep(shares, valid, pads, mod, acc[i - 1], i)
  <2>1. acc[i - 1] \in V
    BY <1>7
  <2> QED
    BY <1>2, <1>6, <2>1 DEF PartSums
<1> QED
  BY <1>0, <1>1, <1>6, <1>7, <1>8 DEF V, BitSums

\* What bitsum_ot is to add up.
OpenedSum(x0, x1, T) == MapThenSumSet(LAMBDA i : BitsValue(SymDiff(x0[i], x1[i])), T)
OpenedBit(x0, x1, i) == Bit(SymDiff(x0[i], x1[i]), 0)

\* One bit is worth itself.
LEMMA BitValue ==
  ASSUME NEW bits \in SUBSET {0}
  PROVE  BitsValue(bits) = Bit(bits, 0)
<1>1. bits \in SUBSET (0 .. 1 - 1)
  OBVIOUS
<1>2. PICK acc : ValueSums(1, bits, acc) /\ BitsValue(bits) = acc[1]
  BY <1>1, ValueRec
<1>3. acc[1] = acc[1 - 1] + Bit(bits, 1 - 1) * 2 ^ (1 - 1) /\ acc[0] = 0
  BY <1>2 DEF ValueSums
<1>4. 2 ^ 0 = 1 /\ 1 - 1 = 0
  OBVIOUS
<1>5. acc[1] = 0 + Bit(bits, 0) * 1
  BY <1>3, <1>4
<1> QED
  BY <1>2, <1>5 DEF Bit
-----------------------------------------------------------------------------
(* The opened bits of a batch                                               *)

\* Entries of one bit, and the opened bits of those in T.
OneBit(n, x0, x1) == n \in Nat /\ \A i \in 1 .. n : x0[i] \in SUBSET {0} /\ x1[i] \in SUBSET {0}
OpenedBits(x0, x1, n, T, f) == T \in SUBSET (1 .. n) /\ f = [i \in T |-> OpenedBit(x0, x1, i)]

\* The sum of the opened bits, in any order.
LEMMA OpenedAnyOrder ==
  ASSUME NEW n, NEW x0, NEW x1, OneBit(n, x0, x1), NEW T, NEW f, OpenedBits(x0, x1, n, T, f)
  PROVE  \E fold : OpenedSum(x0, x1, T) = fold[T] /\ AnyOrder(T, f, fold)
<1> USE DEF OneBit, OpenedBits
<1> DEFINE Fix(h) == [s \in SUBSET T |-> IF s = {} THEN 0 ELSE
                        LET x == (CHOOSE y \in s : TRUE)
                        IN BitsValue(SymDiff(x0[x], x1[x])) + h[s \ {x}]]
           fold == CHOOSE h : h = Fix(h)
<1>1. OpenedSum(x0, x1, T) = fold[T]
  BY DEF OpenedSum, MapThenSumSet, MapThenFoldSet
<1>0. ASSUME NEW i \in T
      PROVE  BitsValue(SymDiff(x0[i], x1[i])) = OpenedBit(x0, x1, i) /\ OpenedBit(x0, x1, i) \in Int
  <2>1. SymDiff(x0[i], x1[i]) \in SUBSET {0}
    BY DEF SymDiff
  <2> QED
    BY <2>1, BitValue DEF OpenedBit, Bit
<1>2. f = [i \in T |-> OpenedBit(x0, x1, i)]
  OBVIOUS
<1>3. Summable(T, f)
  <2>1. IsFiniteSet(1 .. n)
    BY FS_Interval
  <2>2. IsFiniteSet(T)
    BY <2>1, FS_Subset
  <2> QED
    BY <1>0, <1>2, <2>2 DEF Summable
<1>4. PICK iter : iter \in [SUBSET T -> Int] /\ Summed(T, f, iter)
  BY <1>3, SumExists
<1>5. ASSUME NEW s \in SUBSET T PROVE iter[s] = Fix(iter)[s]
  <2>1. CASE s = {}
    BY <1>4, <2>1 DEF Summed
  <2>2. CASE s # {}
    <3>1. iter[s] = f[Arb(s)] + iter[s \ {Arb(s)}]
      BY <1>4, <2>2 DEF Summed
    <3>2. Arb(s) \in T
      BY <2>2, ArbIn
    <3>3. f[Arb(s)] = BitsValue(SymDiff(x0[Arb(s)], x1[Arb(s)]))
      BY <1>0, <1>2, <3>2
    <3> QED
      BY <2>2, <3>1, <3>3 DEF Arb
  <2> QED
    BY <2>1, <2>2
<1>6. iter = Fix(iter)
  BY <1>4, <1>5
<1>7. fold = Fix(fold)
  <2> HIDE DEF Fix
  <2> QED
    BY <1>6, Zenon
<1> HIDE DEF fold
<1>8. Summed(T, f, fold)
  <2>1. fold[{}] = 0
    BY <1>7
  <2>2. ASSUME NEW s \in SUBSET T, s # {} PROVE fold[s] = f[Arb(s)] + fold[s \ {Arb(s)}]
    <3>1. fold[s] = BitsValue(SymDiff(x0[Arb(s)], x1[Arb(s)])) + fold[s \ {Arb(s)}]
      BY <1>7, <2>2 DEF Arb
    <3>2. Arb(s) \in T
      BY <2>2, ArbIn
    <3> QED
      BY <1>0, <1>2, <3>1, <3>2
  <2> QED
    BY <2>1, <2>2 DEF Summed
<1>9. AnyOrder(T, f, fold)
  BY <1>3, <1>8, SumAny
<1> QED
  BY <1>1, <1>2, <1>9

\* In the order of the entries.
OpenedSums(x0, x1, valid, n, acc) ==
    /\ acc \in [0 .. n -> Int] /\ acc[0] = 0
    /\ \A i \in 1 .. n :
          acc[i] = acc[i - 1] + IF valid[i] THEN OpenedBit(x0, x1, i) ELSE 0

\* The opened sum is the last of its partial sums.
LEMMA OpenedRec ==
  ASSUME NEW n, NEW x0, NEW x1, OneBit(n, x0, x1), NEW valid
  PROVE  \E acc : /\ OpenedSums(x0, x1, valid, n, acc)
                  /\ OpenedSum(x0, x1, {i \in 1 .. n : valid[i]}) = acc[n]
<1> n \in Nat
  BY DEF OneBit
<1>0. PICK T : T = {i \in 1 .. n : valid[i]}
  OBVIOUS
<1>1. T \in SUBSET (1 .. n)
  BY <1>0
<1>2. PICK f : OpenedBits(x0, x1, n, T, f)
  BY <1>1 DEF OpenedBits
<1>20. PICK fold : OpenedSum(x0, x1, T) = fold[T] /\ AnyOrder(T, f, fold)
  BY <1>2, OpenedAnyOrder
<1>21. T \in SUBSET T /\ \A x \in T : f[x] = OpenedBit(x0, x1, x)
  BY <1>2 DEF OpenedBits
<1>3. fold[{}] = 0
      /\ \A s \in SUBSET T : /\ fold[s] \in Int
                             /\ \A x \in s : fold[s] = OpenedBit(x0, x1, x) + fold[s \ {x}]
  BY <1>20, <1>21 DEF AnyOrder
<1>4. Below(T, 1) = {} /\ Below(T, n + 1) = T
  BY <1>0, <1>1 DEF Below
<1>5. \A i \in 0 .. n : Below(T, i + 1) \in SUBSET T
  BY DEF Below
<1>6. PICK acc : acc = [i \in 0 .. n |-> fold[Below(T, i + 1)]]
  OBVIOUS
<1>7. acc \in [0 .. n -> Int]
  BY <1>3, <1>5, <1>6
<1>8. ASSUME NEW i \in 1 .. n
      PROVE  acc[i] = acc[i - 1] + IF valid[i] THEN OpenedBit(x0, x1, i) ELSE 0
  <2>1. PICK k \in 0 .. n - 1 : k = i - 1 /\ k + 1 = i
    OBVIOUS
  <2>2. acc[i] = fold[Below(T, i + 1)] /\ acc[k] = fold[Below(T, i)] /\ acc[k] \in Int
    <3>1. i \in 0 .. n /\ k \in 0 .. n
      OBVIOUS
    <3> QED
      BY <1>6, <1>7, <2>1, <3>1
  <2>3. CASE valid[i]
    <3>1. i \in Below(T, i + 1) /\ Below(T, i + 1) \ {i} = Below(T, i)
      BY <1>0, <2>3 DEF Below
    <3>2. Below(T, i + 1) \in SUBSET T
      BY DEF Below
    <3>3. fold[Below(T, i + 1)] = OpenedBit(x0, x1, i) + fold[Below(T, i)]
      BY <1>3, <3>1, <3>2
    <3>4. OpenedBit(x0, x1, i) \in Int
      BY DEF OpenedBit, Bit
    <3> QED
      BY <2>1, <2>2, <2>3, <3>3, <3>4
  <2>4. CASE ~valid[i]
    <3>1. Below(T, i + 1) = Below(T, i)
      BY <1>0, <2>4 DEF Below
    <3> QED
      BY <2>1, <2>2, <2>4, <3>1
  <2> QED
    BY <2>3, <2>4
<1>9. acc[0] = 0 /\ OpenedSum(x0, x1, T) = acc[n]
  <2>1. 0 \in 0 .. n /\ n \in 0 .. n /\ 0 + 1 = 1
    OBVIOUS
  <2>2. acc[0] = fold[Below(T, 1)] /\ acc[n] = fold[Below(T, n + 1)]
    BY <1>6, <2>1
  <2> QED
    BY <1>20, <1>3, <1>4, <2>2
<1> QED
  BY <1>0, <1>7, <1>8, <1>9 DEF OpenedSums
-----------------------------------------------------------------------------
(* bitsum_ot's sums                                                         *)

\* What the receiver adds up: the message its own bit chose, for each entry.
ReceivedAs(x1, messages, n, seq) ==
    seq = [i \in 1 .. n |-> Chosen(messages[i], Bit(x1[i], 0))]
BitBatch(n, x0, x1, valid, pads) ==
    /\ n \in Nat /\ DOMAIN x0 = 1 .. n /\ DOMAIN x1 = 1 .. n
    /\ valid \in [1 .. n -> BOOLEAN] /\ pads \in [1 .. n -> 0 .. Word - 1]

\* bitsum_ot_sender returns a residue, for any modulus.
LEMMA BitSenderSums ==
  ASSUME NEW n, NEW mod \in Nat, NEW x0, NEW x1, NEW valid, NEW pads,
         BitBatch(n, x0, x1, valid, pads)
  PROVE  \E x : BitSums(x0, valid, n, pads, mod, x) /\ BitSenderSum(x0, valid, pads, mod) = x[n]
<1> USE DEF BitBatch
<1>1. ASSUME NEW i \in 1 .. n
      PROVE  Minus(Reduce(pads[i], mod), mod) \in Int
  <2>1. Reduce(pads[i], mod) \in 0 .. Ring(mod) - 1
    BY PadReduced
  <2>2. PICK p \in Int : p = Reduce(pads[i], mod)
    BY <2>1, RingType
  <2> QED
    BY <2>2, MinusType
<1>2. BitPads(n, pads, mod)
  BY <1>1 DEF BitPads
<1> QED
  BY <1>2, BitSenderRec

\* So does bitsum_ot_receiver.
LEMMA BitReceiverSums ==
  ASSUME NEW n, NEW mod \in Nat, NEW x0, NEW x1, NEW valid, NEW pads,
         BitBatch(n, x0, x1, valid, pads),
         NEW messages, messages = BitMessages(x0, valid, pads, mod),
         NEW seq, ReceivedAs(x1, messages, n, seq)
  PROVE  \E y : TotalSums(seq, n, mod, y) /\ BitReceiverSum(x1, messages, mod) = y[n]
<1> USE DEF BitBatch
<1>1. ASSUME NEW i \in 1 .. n PROVE seq[i] \in Int
  <2>1. PICK p \in Int : p = Reduce(pads[i], mod)
    <3>1. Reduce(pads[i], mod) \in 0 .. Ring(mod) - 1
      BY PadReduced
    <3> QED
      BY <3>1, RingType
  <2>2. PICK z \in Int : z = p + 1 - 2 * Bit(x0[i], 0)
    <3>1. Bit(x0[i], 0) \in {0, 1}
      BY DEF Bit
    <3>2. PICK a \in {0, 1} : a = Bit(x0[i], 0)
      BY <3>1
    <3> QED
      BY <3>2
  <2>3. z % Word \in 0 .. Word - 1
    BY ModRange, WordAssumption
  <2>4. PICK q \in Int : q = z % Word
    BY <2>3, WordAssumption
  <2>5. messages[i] = IF valid[i] THEN <<p, q>> ELSE <<0, 0>>
    BY <2>1, <2>2, <2>4 DEF BitMessages, Wrap
  <2>6. seq[i] = IF Bit(x1[i], 0) = 1 THEN messages[i][2] ELSE messages[i][1]
    BY DEF ReceivedAs, Chosen
  <2>7. CASE valid[i]
    BY <2>5, <2>6, <2>7
  <2>8. CASE ~valid[i]
    BY <2>5, <2>6, <2>8
  <2> QED
    BY <2>7, <2>8
<1>2. Summands(seq, n, mod)
  <2>1. DOMAIN seq = 1 .. n
    BY DEF ReceivedAs
  <2> QED
    BY <1>1, <2>1 DEF Summands
<1>3. BitReceiverSum(x1, messages, mod) = Total(seq, mod)
  BY DEF BitReceiverSum, ReceivedAs
<1> QED
  BY <1>2, <1>3, TotalRec

\* What the two sides of bitsum_ot return are residues.
LEMMA BitSumsReduced ==
  ASSUME NEW n, NEW mod \in Nat, NEW x0, NEW x1, NEW valid, NEW pads,
         BitBatch(n, x0, x1, valid, pads),
         NEW messages, messages = BitMessages(x0, valid, pads, mod)
  PROVE  /\ BitSenderSum(x0, valid, pads, mod) \in 0 .. Ring(mod) - 1
         /\ BitReceiverSum(x1, messages, mod) \in 0 .. Ring(mod) - 1
<1>1. PICK x : BitSums(x0, valid, n, pads, mod, x) /\ BitSenderSum(x0, valid, pads, mod) = x[n]
  BY BitSenderSums
<1>2. PICK seq : ReceivedAs(x1, messages, n, seq)
  BY DEF ReceivedAs
<1>3. PICK y : TotalSums(seq, n, mod, y) /\ BitReceiverSum(x1, messages, mod) = y[n]
  BY <1>2, BitReceiverSums
<1>4. n \in 0 .. n
  BY DEF BitBatch
<1>5. x[n] \in 0 .. Ring(mod) - 1
  BY <1>1, <1>4 DEF BitSums
<1>6. y[n] \in 0 .. Ring(mod) - 1
  BY <1>3, <1>4 DEF TotalSums
<1> QED
  BY <1>1, <1>3, <1>5, <1>6

\* One valid bit, modulo 2^64: what both sides add is its XOR.
LEMMA BitPlaceExact ==
  ASSUME NEW a \in {0, 1}, NEW b \in {0, 1}, NEW pad \in 0 .. Word - 1,
         NEW c, c = (IF b = 1 THEN Wrap(pad + 1 - 2 * a) ELSE pad),
         NEW x \in Int, NEW y \in Int, NEW v \in Int, Cong(x + y, v, Word),
         NEW xn \in Int, NEW yn \in Int,
         xn = Wrap(x + Minus(pad, 0) + a), yn = Wrap(y + c)
  PROVE  Cong(xn + yn, v + (IF a = b THEN 0 ELSE 1), Word)
<1>1. PICK m \in Nat \ {0} : m = Word
  BY WordAssumption
<1>2. PICK g \in Int : g = Minus(pad, 0) /\ Cong(g, -pad, m)
  <2>1. pad \in Int
    BY WordAssumption
  <2>2. Minus(pad, 0) \in Nat /\ Cong(Minus(pad, 0), -pad, Ring(0))
    BY <2>1, MinusExact
  <2> QED
    BY <1>1, <2>2 DEF Ring
<1>3. PICK d \in Int : d = IF b = 1 THEN 1 - 2 * a ELSE 0
  OBVIOUS
<1>4. c \in Int /\ Cong(c, pad + d, m)
  <2>1. PICK z \in Int : z = pad + 1 - 2 * a
    BY WordAssumption
  <2>2. CASE b = 1
    <3>1. z % m \in 0 .. m - 1 /\ Cong(z % m, z, m)
      BY ModRange, ModCong
    <3>2. c = z % m /\ z = pad + d
      BY <1>1, <1>3, <2>1, <2>2 DEF Wrap
    <3> QED
      BY <3>1, <3>2
  <2>3. CASE b # 1
    <3>1. c = pad /\ pad + d = pad /\ pad \in Int
      BY <1>3, <2>3, WordAssumption
    <3>2. Cong(pad, pad, m)
      BY <3>1, CongSelf
    <3> QED
      BY <3>1, <3>2
  <2> QED
    BY <2>2, <2>3
<1>5. Cong(xn, x + g + a, m)
  <2>1. PICK z \in Int : z = x + g + a
    OBVIOUS
  <2>2. xn = z % m
    BY <1>1, <1>2, <2>1 DEF Wrap
  <2> QED
    BY <2>1, <2>2, ModCong
<1>6. Cong(yn, y + c, m)
  <2>1. PICK z \in Int : z = y + c
    BY <1>4
  <2>2. yn = z % m
    BY <1>1, <2>1 DEF Wrap
  <2> QED
    BY <2>1, <2>2, ModCong
<1>7. PICK q1 \in Int : xn = (x + g + a) + q1 * m
  BY <1>5 DEF Cong
<1>8. PICK q2 \in Int : yn = (y + c) + q2 * m
  BY <1>6 DEF Cong
<1>9. PICK q3 \in Int : c = (pad + d) + q3 * m
  BY <1>4 DEF Cong
<1>10. PICK q4 \in Int : g = -pad + q4 * m
  BY <1>2 DEF Cong
<1>11. PICK q5 \in Int : x + y = v + q5 * m
  BY <1>1 DEF Cong
<1>12. PICK q \in Int : q = q1 + q2 + q3 + q4 + q5
  OBVIOUS
<1>13. q * m = q1 * m + q2 * m + q3 * m + q4 * m + q5 * m
       /\ q1 * m \in Int /\ q2 * m \in Int /\ q3 * m \in Int /\ q4 * m \in Int /\ q5 * m \in Int
  BY <1>12
<1>14. a + d = IF a = b THEN 0 ELSE 1
  BY <1>3
<1>15. xn + yn = (v + (a + d)) + q * m
  BY <1>3, <1>4, <1>7, <1>8, <1>9, <1>10, <1>11, <1>13, WordAssumption
<1> QED
  BY <1>1, <1>14, <1>15 DEF Cong
-----------------------------------------------------------------------------
(* bitsum_ot, modulo 2^64                                                   *)

\* The two sums and the sum of the opened bits, entry by entry.
LEMMA BitPathsExact ==
  ASSUME NEW n, NEW x0, NEW x1, NEW valid, NEW pads,
         BitBatch(n, x0, x1, valid, pads),
         NEW messages, messages = BitMessages(x0, valid, pads, 0),
         NEW seq, ReceivedAs(x1, messages, n, seq),
         NEW x, BitSums(x0, valid, n, pads, 0, x),
         NEW y, TotalSums(seq, n, 0, y),
         NEW v, OpenedSums(x0, x1, valid, n, v)
  PROVE  Cong(x[n] + y[n], v[n], Word) /\ v[n] \in Int
<1>0. Ring(0) = Word /\ Word \in Nat \ {0} /\ n \in Nat
  BY WordAssumption DEF Ring, BitBatch
<1>4. /\ x \in [0 .. n -> 0 .. Word - 1] /\ x[0] = 0 /\ y \in [0 .. n -> 0 .. Word - 1] /\ y[0] = 0
      /\ v \in [0 .. n -> Int] /\ v[0] = 0
  BY <1>0 DEF BitSums, TotalSums, OpenedSums
<1>5. ASSUME NEW i \in 1 .. n
      PROVE  seq[i] = IF valid[i]
                      THEN IF Bit(x1[i], 0) = 1 THEN Wrap(pads[i] + 1 - 2 * Bit(x0[i], 0)) ELSE pads[i]
                      ELSE 0
  <2>1. PICK p : p = Reduce(pads[i], 0) /\ p = pads[i]
    BY DEF Reduce
  <2>2. PICK q : q = Wrap(p + 1 - 2 * Bit(x0[i], 0))
    OBVIOUS
  <2>3. messages[i] = IF valid[i] THEN <<p, q>> ELSE <<0, 0>>
    BY <2>1, <2>2 DEF BitMessages, BitBatch
  <2>4. Chosen(<<p, q>>, Bit(x1[i], 0)) = IF Bit(x1[i], 0) = 1 THEN q ELSE p
    BY DEF Chosen
  <2>5. Chosen(<<0, 0>>, Bit(x1[i], 0)) = 0
    BY DEF Chosen
  <2> QED
    BY <2>1, <2>2, <2>3, <2>4, <2>5 DEF ReceivedAs
<1> DEFINE P == {i \in Nat : i <= n => Cong(x[i] + y[i], v[i], Word)}
<1>6. 0 \in P
  <2>1. Cong(0, 0, Word)
    BY <1>0, CongSelf
  <2> QED
    BY <1>4, <2>1
<1>7. ASSUME NEW j \in Nat, j \in P PROVE j + 1 \in P
  <2>1. CASE j + 1 <= n
    <3>1. PICK i \in 1 .. n : i = j + 1 /\ i - 1 = j /\ j \in 0 .. n /\ i \in 0 .. n
      BY <1>0, <2>1
    <3>2. PICK xj \in 0 .. Word - 1 : xj = x[j]
      BY <1>4, <3>1
    <3>3. PICK yj \in 0 .. Word - 1 : yj = y[j]
      BY <1>4, <3>1
    <3>4. PICK vj \in Int : vj = v[j]
      BY <1>4, <3>1
    <3>5. Cong(xj + yj, vj, Word)
      BY <1>7, <3>1, <3>2, <3>3, <3>4
    <3>6. x[i] = BitStep(x0, valid, pads, 0, xj, i) /\ x[i] \in Int
      BY SMTT(40), <1>0, <1>4, <3>1, <3>2 DEF BitSums
    <3>7. y[i] = Wrap(yj + seq[i]) /\ y[i] \in Int
      <4>1. y[i] \in 0 .. Word - 1
        BY <1>4, <3>1
      <4>2. y[i] \in Int
        BY <1>0, <4>1
      <4>3. y[i] = Reduce(Wrap(yj + seq[i]), 0)
        BY <3>1, <3>3 DEF TotalSums
      <4> QED
        BY <4>2, <4>3 DEF Reduce
    <3>8. v[i] = vj + IF valid[i] THEN OpenedBit(x0, x1, i) ELSE 0
      BY <3>1, <3>4 DEF OpenedSums
    <3>9. CASE valid[i]
      <4>1. PICK a \in {0, 1} : a = Bit(x0[i], 0)
        BY DEF Bit
      <4>2. PICK b \in {0, 1} : b = Bit(x1[i], 0)
        BY DEF Bit
      <4>3. PICK pad \in 0 .. Word - 1 : pad = pads[i]
        BY DEF BitBatch
      <4>4. x[i] = Wrap(xj + Minus(pad, 0) + a)
        BY <3>6, <3>9, <4>1, <4>3 DEF BitStep, Reduce
      <4>5. PICK c : c = seq[i]
        OBVIOUS
      <4>6. c = IF b = 1 THEN Wrap(pad + 1 - 2 * a) ELSE pad
        BY <1>5, <3>9, <4>1, <4>2, <4>3, <4>5
      <4>7. OpenedBit(x0, x1, i) = IF a = b THEN 0 ELSE 1
        BY <4>1, <4>2 DEF OpenedBit, Bit, SymDiff
      <4>8. PICK xn \in Int : xn = x[i]
        BY <3>6
      <4>9. PICK yn \in Int : yn = y[i]
        BY <3>7
      <4>10. Cong(xn + yn, vj + (IF a = b THEN 0 ELSE 1), Word)
        <5>1. xj \in Int /\ yj \in Int /\ xn = Wrap(xj + Minus(pad, 0) + a) /\ yn = Wrap(yj + c)
          BY <1>0, <3>7, <4>4, <4>5, <4>8, <4>9
        <5> QED
          BY SMTT(40), <3>5, <4>6, <5>1, BitPlaceExact
      <4> QED
        BY <3>1, <3>8, <3>9, <4>7, <4>8, <4>9, <4>10
    <3>10. CASE ~valid[i]
      <4>1. x[i] = xj
        BY <3>6, <3>10 DEF BitStep
      <4>2. seq[i] = 0
        BY <1>5, <3>10
      <4>3. y[i] = yj
        <5>1. yj + 0 = yj
          BY <1>0
        <5>2. Wrap(yj) = yj
          BY <1>0, ModSmall DEF Wrap
        <5> QED
          BY <3>7, <4>2, <5>1, <5>2
      <4>4. v[i] = vj
        BY <3>8, <3>10
      <4> QED
        BY <3>1, <3>5, <4>1, <4>3, <4>4
    <3> QED
      BY <3>9, <3>10
  <2> QED
    BY <2>1
<1>8. Nat \subseteq P
  <2> HIDE DEF P
  <2> QED
    BY <1>6, <1>7, Induct
<1>9. n \in 0 .. n /\ Cong(x[n] + y[n], v[n], Word)
  BY <1>0, <1>8
<1> QED
  BY <1>4, <1>9

\* bitsum_ot, modulo 2^64: the two sums add up to the opened bits of the valid
\* entries, for any number of entries and any pads.
LEMMA BitSumExact ==
  ASSUME NEW n, NEW x0, NEW x1, OneBit(n, x0, x1), NEW valid, NEW pads,
         BitBatch(n, x0, x1, valid, pads), NEW mod \in Nat, mod = 0,
         NEW messages, messages = BitMessages(x0, valid, pads, mod)
  PROVE  \E v \in Int :
           /\ v = OpenedSum(x0, x1, {i \in 1 .. n : valid[i]})
           /\ Cong(BitSenderSum(x0, valid, pads, mod) + BitReceiverSum(x1, messages, mod), v, Word)
<1>1. PICK x : BitSums(x0, valid, n, pads, mod, x) /\ BitSenderSum(x0, valid, pads, mod) = x[n]
  BY BitSenderSums
<1>2. PICK seq : ReceivedAs(x1, messages, n, seq)
  BY DEF ReceivedAs
<1>3. PICK y : TotalSums(seq, n, mod, y) /\ BitReceiverSum(x1, messages, mod) = y[n]
  BY <1>2, BitReceiverSums
<1>4. PICK v : /\ OpenedSums(x0, x1, valid, n, v)
               /\ OpenedSum(x0, x1, {i \in 1 .. n : valid[i]}) = v[n]
  BY OpenedRec
<1>5. Cong(x[n] + y[n], v[n], Word) /\ v[n] \in Int
  BY <1>1, <1>2, <1>3, <1>4, BitPathsExact
<1> QED
  BY <1>1, <1>3, <1>4, <1>5

-----------------------------------------------------------------------------
(* Parity                                                                   *)

Odd(S) == Cardinality(S) % 2 = 1

\* The symmetric difference of finite sets has an odd number of elements if and
\* only if exactly one of them has.
LEMMA OddSymDiff ==
  ASSUME NEW A, NEW B, IsFiniteSet(A), IsFiniteSet(B)
  PROVE  Odd(SymDiff(A, B)) <=> (Odd(A) /\ ~Odd(B)) \/ (~Odd(A) /\ Odd(B))
<1>1. /\ IsFiniteSet(A \ B) /\ Cardinality(A \ B) = Cardinality(A) - Cardinality(A \cap B)
      /\ IsFiniteSet(B \ A) /\ Cardinality(B \ A) = Cardinality(B) - Cardinality(B \cap A)
  BY FS_Difference
<1>2. Cardinality((A \ B) \cup (B \ A)) =
        Cardinality(A \ B) + Cardinality(B \ A) - Cardinality((A \ B) \cap (B \ A))
  BY <1>1, FS_Union
<1>3. (A \ B) \cap (B \ A) = {} /\ B \cap A = A \cap B
  OBVIOUS
<1>4. IsFiniteSet(A \cap B)
  BY FS_Intersection
<1>5. PICK a \in Nat : a = Cardinality(A)
  BY FS_CardinalityType
<1>6. PICK b \in Nat : b = Cardinality(B)
  BY FS_CardinalityType
<1>7. PICK c \in Nat : c = Cardinality(A \cap B)
  BY <1>4, FS_CardinalityType
<1>8. Cardinality(SymDiff(A, B)) = a + b - 2 * c
  <2>1. Cardinality(A \ B) = a - c /\ Cardinality(B \ A) = b - c /\ Cardinality((A \ B) \cap (B \ A)) = 0
    BY <1>1, <1>3, <1>5, <1>6, <1>7, FS_EmptySet
  <2>2. SymDiff(A, B) = (A \ B) \cup (B \ A)
    BY DEF SymDiff
  <2> HIDE <1>1
  <2> QED
    BY <1>2, <2>1, <2>2
<1>9. PICK d \in Int : d = a + b - 2 * c
  OBVIOUS
<1>10. d % 2 = 1 <=> (a % 2 = 1 /\ ~(b % 2 = 1)) \/ (~(a % 2 = 1) /\ b % 2 = 1)
  <2>1. PICK ra \in 0 .. 1, qa \in Int : ra = a % 2 /\ a = 2 * qa + ra
    BY Z3T(10)
  <2>2. PICK rb \in 0 .. 1, qb \in Int : rb = b % 2 /\ b = 2 * qb + rb
    BY Z3T(10)
  <2>3. PICK q \in Int : q = qa + qb - c
    OBVIOUS
  <2>4. d = 2 * q + ra + rb
    BY <1>9, <2>1, <2>2, <2>3
  <2>5. d % 2 = (ra + rb) % 2
    BY <2>4, Z3T(10)
  <2> QED
    BY <2>1, <2>2, <2>5
<1> QED
  BY <1>5, <1>6, <1>8, <1>9, <1>10 DEF Odd

-----------------------------------------------------------------------------
(* Powers of two and division                                              *)

\* A set has twice as many subsets as without one of its elements.
LEMMA PowDouble == ASSUME NEW n \in Nat PROVE 2 ^ (n + 1) = 2 * 2 ^ n
  <1>1. PICK S : S = 1 .. n
    OBVIOUS
  <1>2. PICK x : x = n + 1
    OBVIOUS
  <1>3. /\ IsFiniteSet(S) /\ Cardinality(S) = n /\ x \notin S
        /\ IsFiniteSet(S \cup {x}) /\ Cardinality(S \cup {x}) = n + 1
    <2>1. PICK one \in Int, k \in Int : one = 1 /\ k = n
      OBVIOUS
    <2>2. IsFiniteSet(one .. k) /\ Cardinality(one .. k) = IF one > k THEN 0 ELSE k - one + 1
      BY FS_Interval
    <2>3. IsFiniteSet(S) /\ Cardinality(S) = n /\ x \notin S
      BY <1>1, <1>2, <2>1, <2>2
    <2> QED
      BY <2>3, FS_AddElement
  <1>4. PICK A, B : A = SUBSET S /\ B = {T \in SUBSET (S \cup {x}) : x \in T}
    OBVIOUS
  <1>5. IsFiniteSet(A) /\ Cardinality(A) = 2 ^ n /\ Cardinality(SUBSET (S \cup {x})) = 2 ^ (n + 1)
    BY <1>3, <1>4, FS_SUBSET
  <1>6. SUBSET (S \cup {x}) = A \cup B /\ A \cap B = {}
    BY <1>3, <1>4
  <1>7. IsFiniteSet(B) /\ Cardinality(B) = Cardinality(A)
    <2>1. PICK f : f = [T \in A |-> T \cup {x}]
      OBVIOUS
    <2>2. f \in [A -> B]
      BY <1>4, <2>1
    <2>3. \A T, U \in A : f[T] = f[U] => T = U
      <3>1. \A T \in A : x \notin T /\ f[T] \ {x} = T
        BY <1>3, <1>4, <2>1
      <3> QED
        BY <3>1
    <2>4. \A U \in B : \E T \in A : f[T] = U
      <3>1. ASSUME NEW U \in B PROVE U \ {x} \in A /\ (U \ {x}) \cup {x} = U
        BY <1>4
      <3> QED
        BY <2>1, <3>1
    <2>5. f \in Bijection(A, B)
      BY <2>2, <2>3, <2>4 DEF Bijection, Injection, Surjection, IsInjective
    <2>6. ExistsBijection(A, B)
      BY <2>5 DEF ExistsBijection
    <2> QED
      BY <1>5, <2>6, FS_Bijection
  <1>8. Cardinality(A \cup B) = Cardinality(A) + Cardinality(B) - Cardinality(A \cap B)
    BY <1>5, <1>7, FS_Union
  <1>9. 2 ^ n \in Int /\ 2 ^ (n + 1) \in Int
    BY Pow
  <1>10. Cardinality(A \cap B) = 0
    BY <1>6, FS_EmptySet
  <1>11. PICK a \in Int, b \in Int : a = 2 ^ n /\ b = 2 ^ (n + 1)
    BY <1>9
  <1>12. b = a + a - 0
    BY <1>5, <1>6, <1>7, <1>8, <1>10, <1>11
  <1>13. b = 2 * a
    BY <1>12
  <1> QED
    BY <1>11, <1>13

\* There is one subset of the empty set.
LEMMA PowZero == 2 ^ 0 = 1
  OBVIOUS

\* Powers of two are positive.
LEMMA PowPos == ASSUME NEW n \in Nat PROVE 2 ^ n \in Nat \ {0}
  <1> DEFINE P == {k \in Nat : 2 ^ k \in Nat \ {0}}
  <1>1. 0 \in P
    BY PowZero
  <1>2. ASSUME NEW k \in Nat, k \in P PROVE k + 1 \in P
    <2>1. 2 ^ (k + 1) = 2 * 2 ^ k
      BY PowDouble
    <2>2. PICK a \in Nat : a = 2 ^ k /\ a # 0
      BY <1>2
    <2>3. 2 * a \in Nat \ {0}
      BY <2>2
    <2> QED
      BY <2>1, <2>2, <2>3
  <1> HIDE DEF P
  <1>3. Nat \subseteq P
    BY <1>1, <1>2, Induct
  <1> QED
    BY <1>3 DEF P

\* The quotient of a multiple and a residue.
LEMMA DivUnique ==
  ASSUME NEW m \in Nat \ {0}, NEW q \in Int, NEW r \in 0 .. m - 1
  PROVE  (q * m + r) \div m = q
  BY Z3T(10)

\* A number is its quotient and its remainder.
LEMMA DivMod ==
  ASSUME NEW x \in Int, NEW m \in Nat \ {0}
  PROVE  x \div m \in Int /\ x = (x \div m) * m + (x % m) /\ x % m \in 0 .. m - 1
  BY Z3T(10)

\* Powers of two multiply as their exponents add.
LEMMA PowAdd == ASSUME NEW a \in Nat, NEW b \in Nat PROVE 2 ^ (a + b) = 2 ^ a * 2 ^ b
  <1> DEFINE P == {k \in Nat : 2 ^ (a + k) = 2 ^ a * 2 ^ k}
  <1>1. 0 \in P
    <2>1. PICK p \in Nat : p = 2 ^ a
      BY PowPos
    <2>2. a + 0 = a /\ p * 1 = p
      OBVIOUS
    <2> QED
      BY <2>1, <2>2, PowZero
  <1>2. ASSUME NEW k \in Nat, k \in P PROVE k + 1 \in P
    <2>1. PICK h \in Nat : h = a + k
      OBVIOUS
    <2>2. PICK p \in Nat, q \in Nat, r \in Nat : p = 2 ^ a /\ q = 2 ^ k /\ r = 2 ^ h
      BY PowPos
    <2>3. r = p * q
      BY <1>2, <2>1, <2>2
    <2>4. 2 ^ (h + 1) = 2 * r /\ 2 ^ (k + 1) = 2 * q
      BY <2>2, PowDouble
    <2>5. 2 * (p * q) = p * (2 * q)
      OBVIOUS
    <2>6. a + (k + 1) = h + 1
      BY <2>1
    <2>7. 2 ^ (a + (k + 1)) = 2 ^ a * 2 ^ (k + 1)
      BY <2>2, <2>3, <2>4, <2>5, <2>6
    <2> QED
      BY <2>7
  <1> HIDE DEF P
  <1>3. Nat \subseteq P
    BY <1>1, <1>2, Induct
  <1> QED
    BY <1>3 DEF P

\* Reading a number's remainder by a * b as one by a and a digit.
LEMMA ModSplit ==
  ASSUME NEW x \in Int, NEW a \in Nat \ {0}, NEW b \in Nat \ {0}
  PROVE  x % (a * b) = (x % a) + ((x \div a) % b) * a
  <1>1. PICK q \in Int, r \in 0 .. a - 1 : q = x \div a /\ r = x % a /\ x = q * a + r
    BY DivMod
  <1>2. PICK p \in Int, d \in 0 .. b - 1 : d = q % b /\ q = p * b + d
    BY DivMod
  <1>3. PICK m \in Nat \ {0}, s \in Int : m = a * b /\ s = d * a + r
    <2>1. a * b \in Nat /\ a * b >= 1
      OBVIOUS
    <2> QED
      BY <2>1
  <1>4. s \in 0 .. m - 1
    <2>1. d * a >= 0 /\ d * a <= (b - 1) * a
      OBVIOUS
    <2>2. (b - 1) * a = a * b - a
      OBVIOUS
    <2> QED
      BY <1>3, <2>1, <2>2
  <1>5. x = p * m + s
    <2>1. q * a = (p * b + d) * a
      BY <1>2
    <2>2. (p * b + d) * a = p * (a * b) + d * a
      OBVIOUS
    <2> QED
      BY <1>1, <1>3, <2>1, <2>2
  <1>6. x % m = s
    BY <1>4, <1>5, ModUnique
  <1> QED
    BY <1>1, <1>2, <1>3, <1>6
=============================================================================
