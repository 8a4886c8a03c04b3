------------------------ MODULE CorrelatedStoreProofs ------------------------
(* Both servers' runs of a program of CorrelatedStore calls stay aligned, at  *)
(* whatever paces, socket capacities and batch sizes: what each server's      *)
(* caches, sockets and reads hold are windows on what was ever made and sent, *)
(* and where a window lies is a matter of the program alone.                  *)
EXTENDS CorrelatedStore, OTConversionProofs, SequenceTheorems

-----------------------------------------------------------------------------
(* Sizes and offsets of a call *)

WidthPath(w, n, part) ==
    /\ part \in [0 .. n -> Nat] /\ part[0] = 0
    /\ \A j \in 1 .. n : part[j] = part[j - 1] + w[j]

\* The size of a call is the last of its widths' partial sums.
LEMMA SizeRec ==
  ASSUME NEW n \in Nat, NEW w \in [1 .. n -> Nat]
  PROVE  \E part : WidthPath(w, n, part) /\ N(w) = part[n]
<1> DEFINE D == DOMAIN w
           Fix(h) == [s \in SUBSET D |-> IF s = {} THEN 0 ELSE LET x == Max(s) IN
                        h[s \ {x}] + w[x]]
           fold == CHOOSE h : h = Fix(h)
<1>1. N(w) = fold[D]
  BY DEF N, FoldLeft, MapThenFoldSet
<1>0. D = 1 .. n
  OBVIOUS
<1>2. PICK G : G = [j \in 1 .. n |-> [v \in Nat |-> v + w[j]]]
  OBVIOUS
<1>3. Folding(n, Nat, 0, G)
  BY <1>2 DEF Folding
<1>4. fold = Fix(fold)
  <2>1. PICK iter : iter \in [SUBSET (1 .. n) -> Nat] /\ Folded(n, Nat, 0, G, iter)
    BY <1>3, FoldExists
  <2>2. ASSUME NEW s \in SUBSET D PROVE iter[s] = Fix(iter)[s]
    <3>1. CASE s = {}
      BY <2>1, <3>1 DEF Folded
    <3>2. CASE s # {}
      <4>1. Max(s) \in 1 .. n /\ s \ {Max(s)} \in SUBSET (1 .. n)
        BY <1>0, <3>2, MaxIn
      <4>2. iter[s] = iter[s \ {Max(s)}] + w[Max(s)]
        BY <1>0, <1>2, <2>1, <3>2, <4>1 DEF Folded
      <4> QED
        BY <3>2, <4>2
    <3> QED
      BY <3>1, <3>2
  <2>3. iter = Fix(iter)
    BY <1>0, <2>1, <2>2
  <2> HIDE DEF Fix
  <2> QED
    BY <2>3, Zenon
<1> HIDE DEF fold
<1>5. Folded(n, Nat, 0, G, fold)
  <2>1. fold[{}] = 0
    BY <1>4
  <2>2. ASSUME NEW s \in SUBSET (1 .. n), s # {}, fold[s \ {Max(s)}] \in Nat
        PROVE  fold[s] = G[Max(s)][fold[s \ {Max(s)}]]
    <3>1. Max(s) \in 1 .. n
      BY <2>2, MaxIn
    <3>2. fold[s] = fold[s \ {Max(s)}] + w[Max(s)]
      BY <1>0, <1>4, <2>2
    <3> QED
      BY <1>0, <1>2, <2>2, <3>1, <3>2
  <2> QED
    BY <2>1, <2>2 DEF Folded
<1>6. PICK part : PartSums(n, Nat, 0, G, part) /\ fold[1 .. n] = part[n]
  BY <1>3, <1>5, FoldPrefixes
<1>7. part \in [0 .. n -> Nat] /\ part[0] = 0
  BY <1>6 DEF PartSums
<1>8. ASSUME NEW j \in 1 .. n PROVE part[j] = part[j - 1] + w[j]
  <2>1. part[j - 1] \in Nat
    BY <1>7
  <2> QED
    BY <1>2, <1>6, <2>1 DEF PartSums
<1> QED
  BY <1>0, <1>1, <1>6, <1>7, <1>8 DEF WidthPath

\* Partial sums of widths do not decrease, and depend on what they sum.
LEMMA WidthPaths ==
  ASSUME NEW n \in Nat, NEW m \in 0 .. n, NEW w \in [1 .. n -> Nat], NEW p, NEW q,
         WidthPath(w, n, p), WidthPath(w, m, q)
  PROVE  q[m] = p[m] /\ p[m] <= p[n]
<1> USE DEF WidthPath
<1> DEFINE A == {k \in Nat : k <= m => q[k] = p[k]}
           B == {k \in Nat : m + k <= n => p[m] <= p[m + k]}
<1>1. 0 \in A
  OBVIOUS
<1>2. ASSUME NEW k \in Nat, k \in A PROVE k + 1 \in A
  <2>1. CASE k + 1 <= m
    <3>1. PICK j \in 1 .. m : j = k + 1 /\ j - 1 = k
      BY <2>1
    <3>2. q[j] = q[k] + w[j] /\ p[j] = p[k] + w[j] /\ q[k] = p[k]
      BY SMTT(40), <1>2, <3>1
    <3> QED
      BY <3>1, <3>2
  <2> QED
    BY <2>1
<1>3. 0 \in B
  OBVIOUS
<1>4. ASSUME NEW k \in Nat, k \in B PROVE k + 1 \in B
  <2>1. CASE m + (k + 1) <= n
    <3>1. PICK j \in 1 .. n : j = m + (k + 1) /\ j - 1 = m + k
      BY <2>1
    <3>2. p[j] = p[m + k] + w[j] /\ p[m] <= p[m + k] /\ w[j] \in Nat /\ p[m + k] \in Nat /\ p[m] \in Nat
      BY <1>4, <3>1
    <3> QED
      BY <3>1, <3>2
  <2> QED
    BY <2>1
<1>5. Nat \subseteq A
  <2> HIDE DEF A
  <2> QED
    BY <1>1, <1>2, Induct
<1>6. Nat \subseteq B
  <2> HIDE DEF B
  <2> QED
    BY <1>3, <1>4, Induct
<1>7. m \in A
  BY <1>5
<1>8. PICK k \in Nat : k = n - m /\ m + k = n
  OBVIOUS
<1>9. k \in B
  BY <1>6
<1> QED
  BY <1>7, <1>8, <1>9

\* One more width: a partial sum no greater than the whole.
LEMMA WidthSteps ==
  ASSUME NEW n \in Nat, NEW x \in 1 .. n, NEW w \in [1 .. n -> Nat], NEW p, WidthPath(w, n, p)
  PROVE  p[x] <= p[n] /\ p[x] = p[x - 1] + w[x] /\ p[x - 1] \in Nat
<1>1. p \in [0 .. n -> Nat] /\ p[0] = 0
  BY DEF WidthPath
<1>2. \A j \in 1 .. n : p[j] = p[j - 1] + w[j]
  BY DEF WidthPath
<1>3. PICK m \in 0 .. n : m = x
  OBVIOUS
<1>4. PICK r : r = [k \in 0 .. m |-> p[k]]
  OBVIOUS
<1>5. \A k \in 0 .. m : r[k] = p[k] /\ p[k] \in Nat
  BY <1>1, <1>4
<1>6. r \in [0 .. m -> Nat]
  BY <1>4, <1>5
<1>7. ASSUME NEW k \in 1 .. m PROVE r[k] = r[k - 1] + w[k]
  <2>1. p[k] = p[k - 1] + w[k]
    BY <1>2
  <2>2. k - 1 \in 0 .. m /\ k \in 0 .. m
    OBVIOUS
  <2> QED
    BY <1>5, <2>1, <2>2
<1>8. WidthPath(w, m, r)
  <2>1. r[0] = 0
    BY <1>1, <1>5
  <2> QED
    BY <1>6, <1>7, <2>1 DEF WidthPath
<1>9. p[m] <= p[n]
  BY <1>8, WidthPaths
<1> QED
  BY <1>1, <1>2, <1>3, <1>9

\* A value's bits lie within its call's.
LEMMA OffsetFits ==
  ASSUME NEW w \in Seq(Nat)
  PROVE  /\ N(w) \in Nat
         /\ \A v \in DOMAIN w : \A j \in 1 .. w[v] : Offset(w, v) \in Nat /\ Offset(w, v) + j \in 1 .. N(w)
<1>1. PICK n \in Nat : n = Len(w) /\ w \in [1 .. n -> Nat]
  OBVIOUS
<1>2. PICK p : WidthPath(w, n, p) /\ N(w) = p[n]
  BY <1>1, SizeRec
<1>3. N(w) \in Nat
  BY <1>1, <1>2 DEF WidthPath
<1>4. ASSUME NEW v \in DOMAIN w, NEW j \in 1 .. w[v]
      PROVE  Offset(w, v) \in Nat /\ Offset(w, v) + j \in 1 .. N(w)
  <2>1. PICK m \in 0 .. n : m = v - 1 /\ v \in 1 .. n /\ v \in 0 .. n
    BY <1>1
  <2>2. PICK u \in [1 .. m -> Nat] : u = SubSeq(w, 1, m)
    <3>1. SubSeq(w, 1, m) = [k \in 1 .. m |-> w[k]]
      BY <1>1, <2>1
    <3>2. \A k \in 1 .. m : w[k] \in Nat
      BY <1>1
    <3>3. [k \in 1 .. m |-> w[k]] \in [1 .. m -> Nat]
      BY <3>2
    <3> QED
      BY <3>1, <3>3
  <2>3. PICK q : WidthPath(u, m, q) /\ N(u) = q[m]
    <3>1. m \in Nat
      BY <2>1
    <3> QED
      BY <3>1, SizeRec
  <2>4. WidthPath(w, m, q)
    <3>1. \A k \in 1 .. m : u[k] = w[k]
      BY <1>1, <2>1, <2>2
    <3> QED
      BY <2>3, <3>1 DEF WidthPath
  <2>5. q[m] = p[m]
    <3>1. WidthPath(w, n, p) /\ WidthPath(w, m, q) /\ w \in [1 .. n -> Nat]
      BY <1>1, <1>2, <2>4
    <3>2. q[m] = p[m] /\ p[m] <= p[n]
      BY <3>1, WidthPaths
    <3> QED
      BY <3>2
  <2>6. Offset(w, v) = p[m]
    BY <2>1, <2>2, <2>3, <2>5 DEF Offset
  <2>7. PICK x \in 1 .. n : x = v /\ x - 1 = m
    BY <2>1
  <2>8. p[x] <= p[n] /\ p[x] = p[m] + w[x] /\ p[m] \in Nat
    BY <1>1, <1>2, <2>7, WidthSteps
  <2>9. w[x] \in Nat
    BY <1>1
  <2>10. p[m] + j \in 1 .. p[n]
    <3>1. PICK y \in Nat : y = p[m]
      BY <2>8
    <3>2. PICK z \in Int : z = p[n]
      BY <1>2, <1>3
    <3>3. PICK x1 \in Nat : x1 = w[x]
      BY <2>9
    <3>4. y + x1 <= z
      BY <2>8, <3>1, <3>2, <3>3
    <3>5. j \in 1 .. x1
      BY <2>7, <3>3
    <3>6. y + j \in 1 .. z
      BY <3>4, <3>5
    <3> QED
      BY <3>1, <3>2, <3>6
  <2> QED
    BY <1>2, <2>6, <2>8, <2>10
<1> QED
  BY <1>3, <1>4

-----------------------------------------------------------------------------
(* Windows: a queue holding the entries from + 1 .. to of all there ever were *)

Window(q, from, to, F) ==
    /\ \E S : q \in Seq(S)
    /\ Len(q) = to - from
    /\ \A k \in 1 .. Len(q) : q[k] = F[from + k]

\* An empty queue is a window anywhere.
LEMMA EmptyWindow ==
  ASSUME NEW a \in Nat, NEW F PROVE Window(<<>>, a, a, F)
<1>1. <<>> \in Seq({}) /\ Len(<<>>) = 0
  OBVIOUS
<1> QED
  BY <1>1 DEF Window

\* A window's ends are as far apart as it is long.
LEMMA WindowLen ==
  ASSUME NEW q, NEW a \in Nat, NEW b \in Nat, NEW F, Window(q, a, b, F)
  PROVE  a <= b /\ Len(q) = b - a /\ Len(q) \in Nat /\ (q = <<>> <=> a = b)
<1>1. PICK S : q \in Seq(S)
  BY DEF Window
<1>2. Len(q) = b - a /\ Len(q) \in Nat /\ (q = <<>> <=> Len(q) = 0)
  BY <1>1 DEF Window
<1> QED
  BY <1>2

\* An entry of a window.
LEMMA WindowAt ==
  ASSUME NEW q, NEW a \in Nat, NEW b \in Nat, NEW F, Window(q, a, b, F), NEW k \in 1 .. b - a
  PROVE  q[k] = F[a + k]
  BY DEF Window

\* Taking the head moves the window's start.
LEMMA WindowTail ==
  ASSUME NEW q, NEW a \in Nat, NEW b \in Nat, NEW F, Window(q, a, b, F), q # <<>>
  PROVE  Head(q) = F[a + 1] /\ Window(Tail(q), a + 1, b, F)
<1>1. PICK S : q \in Seq(S)
  BY DEF Window
<1>2. PICK n \in Nat : n = Len(q) /\ n = b - a /\ n # 0
  BY <1>1, WindowLen
<1>3. Tail(q) \in Seq(S) /\ Len(Tail(q)) = n - 1 /\ Head(q) = q[1]
  <2>1. Tail(q) \in Seq(S) /\ Len(Tail(q)) = Len(q) - 1
    BY <1>1, HeadTailProperties
  <2>2. Head(q) = q[1]
    BY <1>1 DEF Head
  <2> QED
    BY <1>2, <2>1, <2>2
<1>4. ASSUME NEW k \in 1 .. n - 1 PROVE Tail(q)[k] = F[(a + 1) + k]
  <2>1. Tail(q)[k] = q[k + 1]
    <3>1. q # <<>>
      OBVIOUS
    <3> QED
      BY <1>1, <1>3, <3>1, HeadTailProperties
  <2>2. PICK m \in 1 .. b - a : m = k + 1
    BY <1>2
  <2>3. q[m] = F[a + m] /\ a + m = (a + 1) + k
    BY <2>2, WindowAt
  <2> QED
    BY <2>1, <2>2, <2>3
<1>5. 1 \in 1 .. b - a
  BY <1>2
<1>6. Head(q) = F[a + 1]
  BY <1>3, <1>5, WindowAt
<1>7. n - 1 = b - (a + 1)
  BY <1>2
<1> QED
  BY <1>3, <1>4, <1>6, <1>7 DEF Window

\* Appending the next entry moves its end.
LEMMA WindowAppend ==
  ASSUME NEW q, NEW a \in Nat, NEW b \in Nat, NEW F, Window(q, a, b, F)
  PROVE  Window(Append(q, F[b + 1]), a, b + 1, F)
<1>1. PICK S : q \in Seq(S)
  BY DEF Window
<1>2. PICK n \in Nat : n = Len(q) /\ n = b - a
  BY WindowLen
<1>3. PICK e : e = F[b + 1]
  OBVIOUS
<1>4. PICK S2 : S2 = S \cup {e}
  OBVIOUS
<1>5. q \in Seq(S2) /\ e \in S2
  BY <1>1, <1>4
<1>6. /\ Append(q, e) \in Seq(S2) /\ Len(Append(q, e)) = Len(q) + 1
      /\ \A k \in 1 .. Len(q) : Append(q, e)[k] = q[k]
      /\ Append(q, e)[Len(q) + 1] = e
  BY <1>5, AppendProperties
<1>7. ASSUME NEW k \in 1 .. n + 1 PROVE Append(q, e)[k] = F[a + k]
  <2>1. CASE k = n + 1
    <3>1. Append(q, e)[k] = e /\ a + k = b + 1
      BY <1>2, <1>6, <2>1
    <3> QED
      BY <1>3, <3>1
  <2>2. CASE k # n + 1
    <3>1. k \in 1 .. b - a /\ k \in 1 .. n
      BY <1>2, <2>2
    <3>2. Append(q, e)[k] = q[k]
      BY <1>2, <1>6, <3>1
    <3> QED
      BY <3>1, <3>2, WindowAt
  <2> QED
    BY <2>1, <2>2
<1>8. n + 1 = (b + 1) - a
  BY <1>2
<1> QED
  BY <1>2, <1>3, <1>6, <1>7, <1>8 DEF Window

\* Adjacent windows, one after the other.
LEMMA WindowConcat ==
  ASSUME NEW q, NEW r, NEW a \in Nat, NEW b \in Nat, NEW c \in Nat, NEW F,
         Window(q, a, b, F), Window(r, b, c, F)
  PROVE  Window(q \o r, a, c, F)
<1>1. PICK S : q \in Seq(S)
  BY DEF Window
<1>2. PICK R : r \in Seq(R)
  BY DEF Window
<1>3. PICK V : V = S \cup R
  OBVIOUS
<1>4. q \in Seq(V) /\ r \in Seq(V)
  BY <1>1, <1>2, <1>3
<1>5. PICK n \in Nat : n = Len(q) /\ n = b - a
  BY WindowLen
<1>6. PICK m \in Nat : m = Len(r) /\ m = c - b
  BY WindowLen
<1>7. /\ q \o r \in Seq(V) /\ Len(q \o r) = n + m
      /\ \A k \in 1 .. n + m : (q \o r)[k] = IF k <= n THEN q[k] ELSE r[k - n]
  <2>1. /\ q \o r \in Seq(V) /\ Len(q \o r) = Len(q) + Len(r)
        /\ \A k \in 1 .. Len(q) + Len(r) : (q \o r)[k] = IF k <= Len(q) THEN q[k] ELSE r[k - Len(q)]
    BY <1>4, ConcatProperties
  <2> QED
    BY <1>5, <1>6, <2>1
<1>8. ASSUME NEW k \in 1 .. n + m PROVE (q \o r)[k] = F[a + k]
  <2>1. CASE k <= n
    <3>1. (q \o r)[k] = q[k] /\ k \in 1 .. b - a
      BY <1>5, <1>7, <2>1
    <3> QED
      BY <3>1, WindowAt
  <2>2. CASE ~(k <= n)
    <3>1. PICK j \in 1 .. c - b : j = k - n
      BY <1>5, <1>6, <2>2
    <3>2. (q \o r)[k] = r[j]
      BY <1>5, <1>7, <2>2, <3>1
    <3>3. r[j] = F[b + j] /\ b + j = a + k
      BY <1>5, <3>1, WindowAt
    <3> QED
      BY <3>2, <3>3
  <2> QED
    BY <2>1, <2>2
<1>9. n + m = c - a
  BY <1>5, <1>6
<1> QED
  BY <1>7, <1>8, <1>9 DEF Window

\* Popping n entries.
LEMMA WindowPop ==
  ASSUME NEW q, NEW a \in Nat, NEW b \in Nat, NEW F, Window(q, a, b, F),
         NEW n \in Nat, a + n <= b
  PROVE  Window(SubSeq(q, 1, n), a, a + n, F) /\ Window(Pop(q, n), a + n, b, F)
<1>1. PICK S : q \in Seq(S)
  BY DEF Window
<1>2. PICK m \in Nat : m = Len(q) /\ m = b - a /\ n <= m
  BY WindowLen
<1>3. /\ SubSeq(q, 1, n) \in Seq(S) /\ Len(SubSeq(q, 1, n)) = n
      /\ \A k \in 1 .. n : SubSeq(q, 1, n)[k] = q[k]
  <2>1. PICK x \in Int, y \in Int : x = 1 /\ y = n
    OBVIOUS
  <2>2. \A k \in x .. y : q[k] \in S
    <3> TAKE k \in x .. y
    <3>1. k \in 1 .. Len(q)
      BY <1>2, <2>1
    <3> QED
      BY <1>1, <3>1, ElementOfSeq
  <2>3. /\ SubSeq(q, x, y) \in Seq(S) /\ Len(SubSeq(q, x, y)) = IF x <= y THEN y - x + 1 ELSE 0
        /\ \A k \in 1 .. y - x + 1 : SubSeq(q, x, y)[k] = q[x + k - 1]
    BY <2>2, SubSeqProperties
  <2> QED
    BY <2>1, <2>3
<1>4. Window(SubSeq(q, 1, n), a, a + n, F)
  <2>1. \A k \in 1 .. n : SubSeq(q, 1, n)[k] = F[a + k]
    <3> TAKE k \in 1 .. n
    <3>1. k \in 1 .. b - a
      BY <1>2
    <3> QED
      BY <1>3, <3>1, WindowAt
  <2>2. n = (a + n) - a
    OBVIOUS
  <2> QED
    BY <1>3, <2>1, <2>2 DEF Window
<1>5. /\ SubSeq(q, n + 1, m) \in Seq(S) /\ Len(SubSeq(q, n + 1, m)) = m - n
      /\ \A k \in 1 .. m - n : SubSeq(q, n + 1, m)[k] = q[n + k]
  <2>1. PICK x \in Int, y \in Int : x = n + 1 /\ y = m
    BY <1>2
  <2>2. \A k \in x .. y : q[k] \in S
    <3> TAKE k \in x .. y
    <3>1. k \in 1 .. Len(q)
      BY <1>2, <2>1
    <3> QED
      BY <1>1, <3>1, ElementOfSeq
  <2>3. /\ SubSeq(q, x, y) \in Seq(S) /\ Len(SubSeq(q, x, y)) = IF x <= y THEN y - x + 1 ELSE 0
        /\ \A k \in 1 .. y - x + 1 : SubSeq(q, x, y)[k] = q[x + k - 1]
    BY <2>2, SubSeqProperties
  <2>4. \A k \in 1 .. m - n : x + k - 1 = n + k
    BY <2>1
  <2> QED
    BY <1>2, <2>1, <2>3, <2>4
<1>6. Window(Pop(q, n), a + n, b, F)
  <2>1. \A k \in 1 .. m - n : SubSeq(q, n + 1, m)[k] = F[(a + n) + k]
    <3> TAKE k \in 1 .. m - n
    <3>1. PICK j \in 1 .. b - a : j = n + k
      BY <1>2
    <3>2. q[j] = F[a + j] /\ a + j = (a + n) + k
      BY <3>1, WindowAt
    <3> QED
      BY <1>5, <3>1, <3>2
  <2>2. m - n = b - (a + n)
    BY <1>2
  <2> QED
    BY <1>2, <1>5, <2>1, <2>2 DEF Window, Pop
<1> QED
  BY <1>4, <1>6

\* What a queue is a window on matters only within it.
LEMMA WindowElsewhere ==
  ASSUME NEW q, NEW a \in Nat, NEW b \in Nat, NEW F, NEW H, Window(q, a, b, F),
         \A j \in Nat : j <= b => H[j] = F[j]
  PROVE  Window(q, a, b, H)
<1>1. Len(q) = b - a
  BY DEF Window
<1>2. ASSUME NEW k \in 1 .. b - a PROVE q[k] = H[a + k]
  <2>1. a + k \in Nat /\ a + k <= b
    BY <1>2
  <2> QED
    BY <2>1, WindowAt
<1> QED
  BY <1>1, <1>2 DEF Window

-----------------------------------------------------------------------------
(* What a program has made and popped before each of its calls *)

Converting == {"b2a_daBit_single", "b2a_daBit_multi"}
Multiplying == {"multiplyBoolShares"}
Size(c) == N(Calls[c].widths)

Counts == [dmade : Nat, tmade : Nat, dpos : Nat, tpos : Nat]
Zero == [dmade |-> 0, tmade |-> 0, dpos |-> 0, tpos |-> 0]

DaBitsAdded(p, op, n) ==
    CASE op = "update" -> IF p.dmade - p.dpos < Batch \div 2 THEN 2 * Batch ELSE 0
      [] op = "multiplyBoolShares" -> 0
      [] OTHER -> IF p.dmade - p.dpos < n THEN n - (p.dmade - p.dpos) ELSE 0
TriplesShort(p, op, n) ==
    IF op = "multiplyBoolShares" /\ p.tmade - p.tpos < n THEN n - (p.tmade - p.tpos) ELSE 0
TriplesAdded(p, op, n) ==
    IF TriplesShort(p, op, n) = 0 THEN 0
    ELSE IF TriplesShort(p, op, n) > Batch THEN TriplesShort(p, op, n) ELSE Batch
After(p, op, n) ==
    [dmade |-> p.dmade + DaBitsAdded(p, op, n),
     tmade |-> p.tmade + TriplesAdded(p, op, n),
     dpos  |-> p.dpos + (IF op \in Converting THEN n ELSE 0),
     tpos  |-> p.tpos + (IF op \in Multiplying THEN n ELSE 0)]
TableOf(P) ==
    /\ P \in [1 .. Len(Calls) + 1 -> Counts]
    /\ P[1] = Zero
    /\ \A c \in 1 .. Len(Calls) : P[c + 1] = After(P[c], Calls[c].op, Size(c))

Leq(p, q) ==
    p.dmade <= q.dmade /\ p.tmade <= q.tmade /\ p.dpos <= q.dpos /\ p.tpos <= q.tpos
Covered(p) == p.dpos <= p.dmade /\ p.tpos <= p.tmade

\* The calls of a program.
LEMMA CallType ==
  ASSUME program \in Programs
  PROVE  /\ Batch \in Nat /\ Lazy \in BOOLEAN /\ Len(Calls) \in Nat /\ DOMAIN Calls = 1 .. Len(Calls)
         /\ \A c \in 1 .. Len(Calls) : Calls[c].op \in CallOps /\ Size(c) \in Nat
<1>1. Calls \in Seq([op : CallOps, widths : Seq(Nat)])
  BY CallsAssumption DEF Calls
<1>2. ASSUME NEW c \in 1 .. Len(Calls) PROVE Calls[c].op \in CallOps /\ Size(c) \in Nat
  <2>1. Calls[c] \in [op : CallOps, widths : Seq(Nat)]
    BY <1>1, <1>2, ElementOfSeq
  <2>2. Calls[c].op \in CallOps
    BY <2>1
  <2>3. PICK w \in Seq(Nat) : w = Calls[c].widths
    BY <2>1
  <2>4. N(w) \in Nat
    BY OffsetFits
  <2> QED
    BY <2>2, <2>3, <2>4 DEF Size
<1>3. Len(Calls) \in Nat /\ DOMAIN Calls = 1 .. Len(Calls)
  BY <1>1, LenProperties
<1>4. Batch \in Nat /\ Lazy \in BOOLEAN
  BY StoreAssumption DEF Batch, Lazy
<1> QED
  BY <1>2, <1>3, <1>4

\* A call makes at least what it lacks, and pops no more than there is.
LEMMA AfterType ==
  ASSUME NEW p \in Counts, NEW op, NEW n \in Nat, Batch \in Nat
  PROVE  /\ After(p, op, n) \in Counts /\ Leq(p, After(p, op, n))
         /\ Covered(p) => Covered(After(p, op, n))
<1>1. p.dmade \in Nat /\ p.tmade \in Nat /\ p.dpos \in Nat /\ p.tpos \in Nat
  BY DEF Counts
<1>2. PICK a \in Nat : a = DaBitsAdded(p, op, n) /\ (op \in Converting /\ p.dpos <= p.dmade => p.dpos + n <= p.dmade + a)
  <2>1. CASE op = "update"
    BY <1>1, <2>1 DEF DaBitsAdded, Converting
  <2>2. CASE op = "multiplyBoolShares"
    BY <1>1, <2>2 DEF DaBitsAdded, Converting
  <2>3. CASE op # "update" /\ op # "multiplyBoolShares"
    BY <1>1, <2>3 DEF DaBitsAdded, Converting
  <2> QED
    BY <2>1, <2>2, <2>3
<1>3. PICK b \in Nat : b = TriplesAdded(p, op, n) /\ (op \in Multiplying /\ p.tpos <= p.tmade => p.tpos + n <= p.tmade + b)
  <2>1. CASE op = "multiplyBoolShares" /\ p.tmade - p.tpos < n
    <3>1. PICK sh \in Nat : sh = n - (p.tmade - p.tpos) /\ sh # 0
      BY <1>1, <2>1
    <3>2. TriplesShort(p, op, n) = sh
      BY <2>1, <3>1 DEF TriplesShort
    <3>3. TriplesAdded(p, op, n) = IF sh > Batch THEN sh ELSE Batch
      BY <3>1, <3>2 DEF TriplesAdded
    <3> QED
      BY <1>1, <3>1, <3>3
  <2>2. CASE ~(op = "multiplyBoolShares" /\ p.tmade - p.tpos < n)
    <3>1. TriplesShort(p, op, n) = 0
      BY <2>2 DEF TriplesShort
    <3>2. TriplesAdded(p, op, n) = 0
      BY <3>1 DEF TriplesAdded
    <3> QED
      BY <1>1, <2>2, <3>2 DEF Multiplying
  <2> QED
    BY <2>1, <2>2
<1>4. PICK x \in Nat : x = IF op \in Converting THEN n ELSE 0
  OBVIOUS
<1>5. PICK y \in Nat : y = IF op \in Multiplying THEN n ELSE 0
  OBVIOUS
<1>6. After(p, op, n) = [dmade |-> p.dmade + a, tmade |-> p.tmade + b, dpos |-> p.dpos + x, tpos |-> p.tpos + y]
  BY <1>2, <1>3, <1>4, <1>5 DEF After
<1>7. After(p, op, n) \in Counts /\ Leq(p, After(p, op, n))
  BY <1>1, <1>6 DEF Counts, Leq
<1>8. ASSUME Covered(p) PROVE Covered(After(p, op, n))
  <2>1. p.dpos <= p.dmade /\ p.tpos <= p.tmade
    BY <1>8 DEF Covered
  <2>2. p.dpos + x <= p.dmade + a
    BY <1>1, <1>2, <1>4, <2>1
  <2>3. p.tpos + y <= p.tmade + b
    BY <1>1, <1>3, <1>5, <2>1
  <2> QED
    BY <1>6, <2>2, <2>3 DEF Covered
<1> QED
  BY <1>7, <1>8

PartOf(h, n) ==
    /\ h \in [1 .. n + 1 -> Counts]
    /\ h[1] = Zero
    /\ \A c \in 1 .. n : h[c + 1] = After(h[c], Calls[c].op, Size(c))

\* Every program has such counts.
LEMMA TableExists ==
  ASSUME program \in Programs PROVE \E P : TableOf(P)
<1>1. PICK m \in Nat : m = Len(Calls)
  BY CallType
<1> DEFINE A == {n \in Nat : n <= m => \E h : PartOf(h, n)}
<1>2. 0 \in A
  <2>1. PICK h : h = [c \in 1 .. 1 |-> Zero]
    OBVIOUS
  <2>2. PartOf(h, 0)
    BY <2>1 DEF PartOf, Counts, Zero
  <2> QED
    BY <2>2
<1>3. ASSUME NEW n \in Nat, n \in A PROVE n + 1 \in A
  <2>1. CASE n + 1 <= m
    <3>1. PICK h : PartOf(h, n)
      BY <1>3, <2>1
    <3>2. n + 1 \in 1 .. Len(Calls) /\ Batch \in Nat
      BY <1>1, <2>1, CallType
    <3>3. PICK d \in 1 .. Len(Calls) : d = n + 1
      BY <3>2
    <3>4. Size(d) \in Nat /\ h[d] \in Counts
      BY <3>1, <3>3, CallType DEF PartOf
    <3>5. PICK e \in Counts : e = After(h[d], Calls[d].op, Size(d))
      BY <3>2, <3>4, AfterType
    <3>6. PICK g : g = [c \in 1 .. d + 1 |-> IF c = d + 1 THEN e ELSE h[c]]
      OBVIOUS
    <3>7. \A c \in 1 .. d : g[c] = h[c] /\ h[c] \in Counts
      BY <3>1, <3>3, <3>6 DEF PartOf
    <3>8. g \in [1 .. d + 1 -> Counts] /\ g[1] = Zero
      <4>1. \A c \in 1 .. d + 1 : g[c] \in Counts
        <5> TAKE c \in 1 .. d + 1
        <5>1. CASE c = d + 1
          BY <3>5, <3>6, <5>1
        <5>2. CASE c \in 1 .. d
          BY <3>7, <5>2
        <5> QED
          BY <5>1, <5>2
      <4>2. g = [c \in 1 .. d + 1 |-> g[c]]
        BY <3>6
      <4>3. h[1] = Zero /\ 1 \in 1 .. d
        BY <3>1, <3>3 DEF PartOf
      <4> QED
        BY <3>7, <4>1, <4>2, <4>3
    <3>9. ASSUME NEW c \in 1 .. d PROVE g[c + 1] = After(g[c], Calls[c].op, Size(c))
      <4>1. CASE c = d
        BY <3>5, <3>6, <3>7, <4>1
      <4>2. CASE c # d
        <5>1. c \in 1 .. n /\ c + 1 \in 1 .. d
          BY <3>3, <4>2
        <5>2. h[c + 1] = After(h[c], Calls[c].op, Size(c))
          BY <3>1, <5>1 DEF PartOf
        <5> QED
          BY <3>7, <5>1, <5>2
      <4> QED
        BY <4>1, <4>2
    <3>10. PartOf(g, d)
      BY <3>8, <3>9 DEF PartOf
    <3> QED
      BY <3>3, <3>10
  <2> QED
    BY <2>1
<1>4. Nat \subseteq A
  <2> HIDE DEF A
  <2> QED
    BY <1>2, <1>3, Induct
<1>5. PICK P : PartOf(P, m)
  BY <1>4
<1> QED
  BY <1>1, <1>5 DEF TableOf, PartOf

\* One call of a table.
LEMMA TableStep ==
  ASSUME program \in Programs, NEW P, TableOf(P), NEW c \in 1 .. Len(Calls)
  PROVE  /\ P[c] \in Counts /\ P[c + 1] \in Counts /\ Leq(P[c], P[c + 1])
         /\ P[c + 1] = After(P[c], Calls[c].op, Size(c))
         /\ Covered(P[c]) => Covered(P[c + 1])
<1>1. Batch \in Nat /\ Len(Calls) \in Nat /\ Size(c) \in Nat
  BY CallType
<1>2. c \in 1 .. Len(Calls) + 1 /\ c + 1 \in 1 .. Len(Calls) + 1
  BY <1>1
<1>3. P[c] \in Counts /\ P[c + 1] \in Counts /\ P[c + 1] = After(P[c], Calls[c].op, Size(c))
  BY <1>2 DEF TableOf
<1> QED
  BY <1>1, <1>3, AfterType

\* Order is kept from call to call.
LEMMA LeqTrans ==
  ASSUME NEW p \in Counts, NEW q \in Counts, NEW r \in Counts, Leq(p, q), Leq(q, r)
  PROVE  Leq(p, r)
  BY DEF Leq, Counts

\* No count exceeds itself.
LEMMA LeqSelf == ASSUME NEW p \in Counts PROVE Leq(p, p)
<1>1. p.dmade \in Nat /\ p.tmade \in Nat /\ p.dpos \in Nat /\ p.tpos \in Nat
  BY DEF Counts
<1> QED
  BY <1>1 DEF Leq

\* Later calls find at least as much made and popped; nothing is popped unmade.
LEMMA TableMono ==
  ASSUME program \in Programs, NEW P, TableOf(P),
         NEW c \in 1 .. Len(Calls) + 1, NEW d \in c .. Len(Calls) + 1
  PROVE  P[c] \in Counts /\ P[d] \in Counts /\ Leq(P[c], P[d]) /\ Covered(P[d])
<1>1. PICK m \in Nat : m = Len(Calls)
  BY CallType
<1>2. \A b \in 1 .. m + 1 : P[b] \in Counts
  BY <1>1 DEF TableOf
<1> DEFINE A == {k \in Nat : c + k <= m + 1 => Leq(P[c], P[c + k])}
           B == {k \in Nat : 1 + k <= m + 1 => Covered(P[1 + k])}
<1>3. 0 \in A
  <2>1. c \in 1 .. m + 1 /\ c + 0 = c
    BY <1>1
  <2>2. Leq(P[c], P[c])
    BY <1>2, <2>1 DEF Leq, Counts
  <2> QED
    BY <2>1, <2>2
<1>4. ASSUME NEW k \in Nat, k \in A PROVE k + 1 \in A
  <2>1. CASE c + (k + 1) <= m + 1
    <3>1. PICK b \in 1 .. Len(Calls) : b = c + k /\ b + 1 = c + (k + 1)
      BY <1>1, <2>1
    <3>2. P[b] \in Counts /\ P[b + 1] \in Counts /\ Leq(P[b], P[b + 1])
      BY TableStep
    <3>3. Leq(P[c], P[b]) /\ P[c] \in Counts
      BY <1>1, <1>2, <1>4, <3>1
    <3> QED
      BY <3>1, <3>2, <3>3, LeqTrans
  <2> QED
    BY <2>1
<1>5. 0 \in B
  BY DEF TableOf, Covered, Zero
<1>6. ASSUME NEW k \in Nat, k \in B PROVE k + 1 \in B
  <2>1. CASE 1 + (k + 1) <= m + 1
    <3>1. PICK b \in 1 .. Len(Calls) : b = 1 + k /\ b + 1 = 1 + (k + 1)
      BY <1>1, <2>1
    <3>2. Covered(P[b])
      BY <1>1, <1>6, <3>1
    <3> QED
      BY <3>1, <3>2, TableStep
  <2> QED
    BY <2>1
<1>7. Nat \subseteq A
  <2> HIDE DEF A
  <2> QED
    BY <1>3, <1>4, Induct
<1>8. Nat \subseteq B
  <2> HIDE DEF B
  <2> QED
    BY <1>5, <1>6, Induct
<1>9. PICK k \in Nat, j \in Nat : c + k = d /\ 1 + j = d /\ d <= m + 1 /\ c \in 1 .. m + 1 /\ d \in 1 .. m + 1
  <2>1. d - c \in Nat /\ d - 1 \in Nat /\ c + (d - c) = d /\ 1 + (d - 1) = d
    BY <1>1
  <2> QED
    BY <1>1, <2>1
<1>10. Leq(P[c], P[d]) /\ Covered(P[d])
  <2>1. k \in A /\ j \in B
    BY <1>7, <1>8
  <2> QED
    BY <1>9, <2>1
<1> QED
  BY <1>2, <1>9, <1>10

-----------------------------------------------------------------------------
(* Where each server is: how much it has made, popped, sent and read *)

Sends(p) == p.dpos + 2 * p.tpos
Lead(s, p) == IF Lazy /\ s = 0 THEN p.dmade ELSE 0
Lag(s, p) == IF Lazy /\ s = 1 THEN p.dmade ELSE 0

\* m: as much as it has made; q: popped and sent; b: read, but for got.
PlaceOf(s, m, q, b) ==
    [dm |-> m.dmade, tm |-> m.tmade, dp |-> q.dpos, tp |-> q.tpos,
     em |-> Sends(q) + Lead(s, m), base |-> Sends(b) + Lag(s, m)]

Topped(s) == pc[s] \in {"flush", "take", "open"}
MadeBy(P, s) == IF Topped(s) THEN P[call[s] + 1] ELSE P[call[s]]
PoppedBy(P, s) == IF pc[s] = "open" THEN P[call[s] + 1] ELSE P[call[s]]
Places(P) == [s \in Server |-> PlaceOf(s, MadeBy(P, s), PoppedBy(P, s), P[call[s]])]

Units(c) ==
    (IF Calls[c].op \in Converting THEN Size(c) ELSE 0) +
    (IF Calls[c].op \in Multiplying THEN 2 * Size(c) ELSE 0)

Opening == Converting \cup Multiplying
PcOK(s) ==
    /\ pc[s] # "idle" => call[s] \in 1 .. Len(Calls)
    /\ pc[s] = "flush" => Lazy /\ s = 0
    /\ pc[s] = "open" => Op(s) \in Opening
    /\ pc[s] \in {"idle", "add", "take"} => out[s] = <<>>
    /\ pc[s] \in {"idle", "flush", "take"} => got[s] = <<>>
    /\ pc[s] = "add" /\ ~(Lazy /\ s = 1 /\ Op(s) \notin Multiplying) => got[s] = <<>>
Shape ==
    /\ program \in Programs
    /\ call \in [Server -> 1 .. Len(Calls) + 1]
    /\ pc \in [Server -> {"idle", "add", "flush", "take", "open"}]
    /\ DOMAIN input = Server /\ DOMAIN dabit_store = Server /\ DOMAIN btriple_store = Server
    /\ DOMAIN used = Server /\ DOMAIN out = Server /\ DOMAIN chan = Server
    /\ DOMAIN got = Server /\ DOMAIN done = Server
    /\ \A s \in Server : PcOK(s)

Numbered(k) ==
    /\ k.dm \in Nat /\ k.tm \in Nat /\ k.dp \in Nat /\ k.tp \in Nat /\ k.em \in Nat /\ k.base \in Nat
    /\ k.dp <= k.dm /\ k.tp <= k.tm

\* A count of what was sent.
LEMMA SendsType ==
  ASSUME NEW p \in Counts PROVE Sends(p) \in Nat
<1>1. PICK x \in Nat : x = p.dpos
  BY DEF Counts
<1>2. PICK y \in Nat : y = p.tpos
  BY DEF Counts
<1>3. x + 2 * y \in Nat
  OBVIOUS
<1> QED
  BY <1>1, <1>2, <1>3 DEF Sends

\* What one call adds to what was sent.
LEMMA SendsStep ==
  ASSUME program \in Programs, NEW P, TableOf(P), NEW c \in 1 .. Len(Calls)
  PROVE  /\ Units(c) \in Nat /\ Sends(P[c]) \in Nat /\ Sends(P[c + 1]) = Sends(P[c]) + Units(c)
         /\ P[c + 1].dpos = P[c].dpos + (IF Calls[c].op \in Converting THEN Size(c) ELSE 0)
         /\ P[c + 1].tpos = P[c].tpos + (IF Calls[c].op \in Multiplying THEN Size(c) ELSE 0)
<1>1. PICK p \in Counts, n \in Nat : p = P[c] /\ n = Size(c)
  BY TableStep, CallType
<1>2. PICK o : o = Calls[c].op
  OBVIOUS
<1>3. P[c + 1] = After(p, o, n)
  BY <1>1, <1>2, TableStep
<1>4. PICK x \in Nat : x = IF o \in Converting THEN n ELSE 0
  OBVIOUS
<1>5. PICK y \in Nat : y = IF o \in Multiplying THEN n ELSE 0
  OBVIOUS
<1>6. P[c + 1].dpos = p.dpos + x /\ P[c + 1].tpos = p.tpos + y
  BY <1>3, <1>4, <1>5 DEF After
<1>7. Units(c) = x + 2 * y
  BY <1>1, <1>2, <1>4, <1>5 DEF Units
<1>8. p.dpos \in Nat /\ p.tpos \in Nat
  BY DEF Counts
<1>9. Sends(P[c]) = p.dpos + 2 * p.tpos /\ Sends(P[c + 1]) = (p.dpos + x) + 2 * (p.tpos + y)
  BY <1>1, <1>6 DEF Sends
<1>10. PICK d \in Nat, t \in Nat : d = p.dpos /\ t = p.tpos
  BY <1>8
<1>11. (d + x) + 2 * (t + y) = (d + 2 * t) + (x + 2 * y) /\ x + 2 * y \in Nat /\ d + 2 * t \in Nat
  OBVIOUS
<1>12. Units(c) \in Nat /\ Sends(P[c]) \in Nat /\ Sends(P[c + 1]) = Sends(P[c]) + Units(c)
  BY <1>7, <1>9, <1>10, <1>11
<1>13. P[c + 1].dpos = P[c].dpos + (IF Calls[c].op \in Converting THEN Size(c) ELSE 0)
  BY <1>1, <1>2, <1>4, <1>6
<1>14. P[c + 1].tpos = P[c].tpos + (IF Calls[c].op \in Multiplying THEN Size(c) ELSE 0)
  BY <1>1, <1>2, <1>5, <1>6
<1> QED
  BY <1>12, <1>13, <1>14

\* Places are counts.
LEMMA PlaceType ==
  ASSUME Shape, NEW P, TableOf(P), NEW s \in Server
  PROVE  Numbered(Places(P)[s])
<1>1. program \in Programs /\ call[s] \in 1 .. Len(Calls) + 1 /\ (pc[s] # "idle" => call[s] \in 1 .. Len(Calls))
  BY DEF Shape, PcOK
<1>2. Len(Calls) \in Nat /\ Lazy \in BOOLEAN
  BY <1>1, CallType
<1>3. PICK c \in 1 .. Len(Calls) + 1 : c = call[s]
  BY <1>1
<1>4. P[c] \in Counts /\ Covered(P[c])
  <2>1. c \in c .. Len(Calls) + 1
    BY <1>2
  <2> QED
    BY <1>1, <2>1, TableMono
<1>5. PICK m \in Counts, q \in Counts, b \in Counts :
          /\ m = MadeBy(P, s) /\ q = PoppedBy(P, s) /\ b = P[c]
          /\ q.dpos <= m.dmade /\ q.tpos <= m.tmade
  <2>1. CASE c \in 1 .. Len(Calls)
    <3>1. P[c + 1] \in Counts /\ Leq(P[c], P[c + 1]) /\ Covered(P[c + 1])
      BY <1>1, <1>4, <2>1, TableStep
    <3>2. PICK u \in Counts, v \in Counts : u = P[c] /\ v = P[c + 1]
      BY <1>4, <3>1
    <3>3. u.dpos <= u.dmade /\ u.tpos <= u.tmade /\ u.dpos <= v.dmade /\ u.tpos <= v.tmade
          /\ v.dpos <= v.dmade /\ v.tpos <= v.tmade
      BY SMTT(40), <1>4, <3>1, <3>2 DEF Covered, Leq, Counts
    <3>4. (MadeBy(P, s) = u /\ PoppedBy(P, s) = u) \/ (MadeBy(P, s) = v /\ PoppedBy(P, s) = u)
          \/ (MadeBy(P, s) = v /\ PoppedBy(P, s) = v)
      BY <1>3, <3>2 DEF MadeBy, PoppedBy, Topped
    <3> QED
      BY <3>2, <3>3, <3>4
  <2>2. CASE c \notin 1 .. Len(Calls)
    <3>1. pc[s] = "idle"
      BY <1>1, <1>3, <2>2
    <3>2. MadeBy(P, s) = P[c] /\ PoppedBy(P, s) = P[c]
      BY <1>3, <3>1 DEF MadeBy, PoppedBy, Topped
    <3> QED
      BY <1>4, <3>2 DEF Covered
  <2> QED
    BY <2>1, <2>2
<1>6. Places(P)[s] = PlaceOf(s, m, q, b)
  BY <1>3, <1>5 DEF Places
<1>7. /\ m.dmade \in Nat /\ m.tmade \in Nat /\ q.dpos \in Nat /\ q.tpos \in Nat
      /\ b.dpos \in Nat /\ b.tpos \in Nat
  BY DEF Counts
<1>8. Lead(s, m) \in Nat /\ Lag(s, m) \in Nat
  BY <1>7 DEF Lead, Lag
<1>9. Sends(q) \in Nat /\ Sends(b) \in Nat
  BY SendsType
<1> QED
  BY SMTT(40), <1>5, <1>6, <1>7, <1>8, <1>9 DEF Numbered, PlaceOf

-----------------------------------------------------------------------------
(* How each step moves the places *)

\* A table is a program's.
LEMMA TableKept ==
  ASSUME program \in Programs, program' = program, NEW P, TableOf(P)
  PROVE  TableOf(P)'
<1>1. Calls' = Calls /\ Batch' = Batch
  BY DEF Calls, Batch
<1>2. ASSUME NEW c \in 1 .. Len(Calls) PROVE P[c + 1] = After(P[c], Calls[c].op, Size(c))'
  <2>1. After(P[c], Calls[c].op, Size(c))' = After(P[c], Calls[c].op, Size(c))
    BY <1>1 DEF After, DaBitsAdded, TriplesAdded, TriplesShort, Size
  <2> QED
    BY <2>1 DEF TableOf
<1>3. P \in [1 .. Len(Calls)' + 1 -> Counts] /\ P[1] = Zero
  BY <1>1 DEF TableOf
<1> QED
  BY <1>1, <1>2, <1>3 DEF TableOf

\* A server that is not moved stays where it is.
LEMMA SamePlace ==
  ASSUME program' = program, NEW P, NEW s \in Server, pc'[s] = pc[s], call'[s] = call[s]
  PROVE  Places(P)'[s] = Places(P)[s]
<1>1. Places(P)[s] = PlaceOf(s, MadeBy(P, s), PoppedBy(P, s), P[call[s]])
  BY DEF Places
<1>2. Places(P)'[s] = PlaceOf(s, MadeBy(P, s), PoppedBy(P, s), P[call[s]])'
  BY DEF Places
<1>3. MadeBy(P, s)' = MadeBy(P, s) /\ PoppedBy(P, s)' = PoppedBy(P, s)
  BY DEF MadeBy, PoppedBy, Topped
<1> QED
  BY <1>1, <1>2, <1>3 DEF PlaceOf, Lead, Lag, Lazy

\* Places are equal where each server's is.
LEMMA PlacesEqual ==
  ASSUME NEW P, Places(P)'[0] = Places(P)[0], Places(P)'[1] = Places(P)[1]
  PROVE  Places(P)' = Places(P)
  BY DEF Places, Server

\* Where a server is, by what it is doing.
LEMMA PlaceBy ==
  ASSUME NEW P, NEW s \in Server, NEW c, c = call[s]
  PROVE  /\ pc[s] \in {"idle", "add"} => Places(P)[s] = PlaceOf(s, P[c], P[c], P[c])
         /\ pc[s] \in {"flush", "take"} => Places(P)[s] = PlaceOf(s, P[c + 1], P[c], P[c])
         /\ pc[s] = "open" => Places(P)[s] = PlaceOf(s, P[c + 1], P[c + 1], P[c])
  BY DEF Places, MadeBy, PoppedBy, Topped

\* What a call is short of is what the table says.
LEMMA ToAddKnown ==
  ASSUME Shape, NEW P, TableOf(P), NEW s \in Server, NEW c \in 1 .. Len(Calls), c = call[s],
         pc[s] \in {"idle", "add"},
         Len(dabit_store[s]) = Places(P)[s].dm - Places(P)[s].dp,
         Len(btriple_store[s]) = Places(P)[s].tm - Places(P)[s].tp
  PROVE  /\ ToAdd(s) \in Nat
         /\ Op(s) \in Multiplying =>
              /\ P[c + 1].dmade = P[c].dmade
              /\ P[c + 1].tmade = P[c].tmade + (IF ToAdd(s) = 0 THEN 0 ELSE IF ToAdd(s) > Batch THEN ToAdd(s) ELSE Batch)
         /\ Op(s) \notin Multiplying =>
              P[c + 1].dmade = P[c].dmade + ToAdd(s) /\ P[c + 1].tmade = P[c].tmade
<1>0. program \in Programs
  BY DEF Shape
<1>1. PICK p \in Counts, n \in Nat : p = P[c] /\ n = Size(c)
  BY <1>0, TableStep, CallType
<1>2. PICK o \in CallOps : o = Calls[c].op /\ o = Op(s)
  BY <1>0, CallType DEF Op
<1>3. P[c + 1] = After(p, o, n)
  BY ZenonT(40), <1>0, <1>1, <1>2, TableStep
<1>4. PICK dm \in Nat, dp \in Nat, tm \in Nat, tp \in Nat :
          dm = p.dmade /\ dp = p.dpos /\ tm = p.tmade /\ tp = p.tpos
  BY DEF Counts
<1>5. Places(P)[s] = PlaceOf(s, p, p, p)
  BY <1>1, PlaceBy
<1>6. Len(dabit_store[s]) = dm - dp /\ Len(btriple_store[s]) = tm - tp
  BY <1>4, <1>5 DEF PlaceOf
<1>7. N(Widths(s)) = n
  BY <1>1 DEF Widths, Size
<1>8. Batch \in Nat
  BY <1>0, CallType
<1>9. P[c + 1].dmade = dm + DaBitsAdded(p, o, n) /\ P[c + 1].tmade = tm + TriplesAdded(p, o, n)
  BY <1>3, <1>4 DEF After
<1>10. CASE o = "multiplyBoolShares"
  <2>1. ToAdd(s) = IF tm - tp < n THEN n - (tm - tp) ELSE 0
    BY <1>2, <1>6, <1>7, <1>10 DEF ToAdd, ShortBy
  <2>2. DaBitsAdded(p, o, n) = 0
    BY <1>10 DEF DaBitsAdded
  <2>3. TriplesShort(p, o, n) = IF tm - tp < n THEN n - (tm - tp) ELSE 0
    BY <1>4, <1>10 DEF TriplesShort
  <2>4. TriplesAdded(p, o, n) = IF ToAdd(s) = 0 THEN 0 ELSE IF ToAdd(s) > Batch THEN ToAdd(s) ELSE Batch
    BY <2>1, <2>3 DEF TriplesAdded
  <2>5. ToAdd(s) \in Nat
    BY <2>1
  <2>6. o \in Multiplying
    BY <1>10 DEF Multiplying
  <2> QED
    BY <1>1, <1>2, <1>4, <1>9, <2>2, <2>4, <2>5, <2>6
<1>11. CASE o # "multiplyBoolShares"
  <2>1. TriplesAdded(p, o, n) = 0
    BY <1>11 DEF TriplesAdded, TriplesShort
  <2>2. ToAdd(s) = DaBitsAdded(p, o, n) /\ ToAdd(s) \in Nat
    <3>1. CASE o = "update"
      BY <1>2, <1>4, <1>6, <1>8, <3>1 DEF ToAdd, DaBitsAdded
    <3>2. CASE o # "update"
      BY <1>2, <1>4, <1>6, <1>7, <1>11, <3>2 DEF ToAdd, ShortBy, DaBitsAdded
    <3> QED
      BY <3>1, <3>2
  <2>3. o \notin Multiplying
    BY <1>11 DEF Multiplying
  <2> QED
    BY <1>1, <1>2, <1>4, <1>9, <2>1, <2>2, <2>3
<1> QED
  BY <1>10, <1>11

\* Once topped up, each store holds what the call pops.
LEMMA EnoughMade ==
  ASSUME Shape, NEW P, TableOf(P), NEW s \in Server, NEW c \in 1 .. Len(Calls), c = call[s],
         pc[s] = "take"
  PROVE  /\ Places(P)[s].dp + (IF Calls[c].op \in Converting THEN Size(c) ELSE 0) <= Places(P)[s].dm
         /\ Places(P)[s].tp + (IF Calls[c].op \in Multiplying THEN Size(c) ELSE 0) <= Places(P)[s].tm
<1>0. program \in Programs /\ Len(Calls) \in Nat
  BY CallType DEF Shape
<1>1. PICK d \in 1 .. Len(Calls) + 1 : d = c + 1 /\ d \in d .. Len(Calls) + 1
  BY <1>0
<1>2. Covered(P[d])
  BY <1>0, <1>1, TableMono
<1>3. Places(P)[s] = PlaceOf(s, P[c + 1], P[c], P[c])
  BY PlaceBy
<1>4. /\ P[c + 1].dpos = P[c].dpos + (IF Calls[c].op \in Converting THEN Size(c) ELSE 0)
      /\ P[c + 1].tpos = P[c].tpos + (IF Calls[c].op \in Multiplying THEN Size(c) ELSE 0)
  BY <1>0, SendsStep
<1> QED
  BY <1>1, <1>2, <1>3, <1>4 DEF PlaceOf, Covered

\* The same after a step.
LEMMA PlaceByNext ==
  ASSUME program' = program, NEW P, NEW s \in Server, NEW c, c = call'[s]
  PROVE  /\ pc'[s] \in {"idle", "add"} => Places(P)'[s] = PlaceOf(s, P[c], P[c], P[c])
         /\ pc'[s] \in {"flush", "take"} => Places(P)'[s] = PlaceOf(s, P[c + 1], P[c], P[c])
         /\ pc'[s] = "open" => Places(P)'[s] = PlaceOf(s, P[c + 1], P[c + 1], P[c])
<1>1. Places(P)'[s] = PlaceOf(s, MadeBy(P, s), PoppedBy(P, s), P[call[s]])'
  BY DEF Places
<1>2. ASSUME NEW m, NEW q, NEW b PROVE PlaceOf(s, m, q, b)' = PlaceOf(s, m, q, b)
  BY DEF PlaceOf, Lead, Lag, Lazy
<1>3. ASSUME NEW m, NEW q, MadeBy(P, s)' = m, PoppedBy(P, s)' = q
      PROVE  Places(P)'[s] = PlaceOf(s, m, q, P[c])
  <2>1. PlaceOf(s, MadeBy(P, s), PoppedBy(P, s), P[call[s]])' = PlaceOf(s, m, q, P[c])
    BY <1>3 DEF PlaceOf, Lead, Lag, Lazy
  <2> QED
    BY <1>1, <2>1
<1>4. ASSUME pc'[s] \in {"idle", "add"} PROVE Places(P)'[s] = PlaceOf(s, P[c], P[c], P[c])
  <2>1. MadeBy(P, s)' = P[c] /\ PoppedBy(P, s)' = P[c]
    BY <1>4 DEF MadeBy, PoppedBy, Topped
  <2> QED
    BY <1>3, <2>1
<1>5. ASSUME pc'[s] \in {"flush", "take"} PROVE Places(P)'[s] = PlaceOf(s, P[c + 1], P[c], P[c])
  <2>1. MadeBy(P, s)' = P[c + 1] /\ PoppedBy(P, s)' = P[c]
    BY <1>5 DEF MadeBy, PoppedBy, Topped
  <2> QED
    BY <1>3, <2>1
<1>6. ASSUME pc'[s] = "open" PROVE Places(P)'[s] = PlaceOf(s, P[c + 1], P[c + 1], P[c])
  <2>1. MadeBy(P, s)' = P[c + 1] /\ PoppedBy(P, s)' = P[c + 1]
    BY <1>6 DEF MadeBy, PoppedBy, Topped
  <2> QED
    BY <1>3, <2>1
<1> QED
  BY <1>4, <1>5, <1>6

Moved(k, k2, dm, tm, dp, tp, em, base) ==
    /\ k2.dm = k.dm + dm /\ k2.tm = k.tm + tm /\ k2.dp = k.dp + dp /\ k2.tp = k.tp + tp
    /\ k2.em = k.em + em /\ k2.base = k.base + base

\* To stay in place is to move by nothing.
LEMMA NotMoved == ASSUME NEW k, Numbered(k) PROVE Moved(k, k, 0, 0, 0, 0, 0, 0)
  BY DEF Moved, Numbered

\* Making moves what is made, and server 0's lazy daBits are also sent.
LEMMA MadeMove ==
  ASSUME program \in Programs, NEW P, TableOf(P), NEW s \in Server, NEW c \in 1 .. Len(Calls),
         NEW a \in Nat, NEW b \in Nat,
         P[c + 1].dmade = P[c].dmade + a, P[c + 1].tmade = P[c].tmade + b
  PROVE  Moved(PlaceOf(s, P[c], P[c], P[c]), PlaceOf(s, P[c + 1], P[c], P[c]), a, b, 0, 0,
               IF Lazy /\ s = 0 THEN a ELSE 0, IF Lazy /\ s = 1 THEN a ELSE 0)
<1>1. PICK dm \in Nat, tm \in Nat, dp \in Nat, tp \in Nat :
          dm = P[c].dmade /\ tm = P[c].tmade /\ dp = P[c].dpos /\ tp = P[c].tpos
  <2>1. P[c] \in Counts
    BY TableStep
  <2> QED
    BY <2>1 DEF Counts
<1>2. PICK se \in Nat : se = Sends(P[c])
  BY SendsStep
<1>3. PlaceOf(s, P[c], P[c], P[c]) =
        [dm |-> dm, tm |-> tm, dp |-> dp, tp |-> tp,
         em |-> se + (IF Lazy /\ s = 0 THEN dm ELSE 0), base |-> se + (IF Lazy /\ s = 1 THEN dm ELSE 0)]
  BY <1>1, <1>2 DEF PlaceOf, Lead, Lag
<1>4. PlaceOf(s, P[c + 1], P[c], P[c]) =
        [dm |-> dm + a, tm |-> tm + b, dp |-> dp, tp |-> tp,
         em |-> se + (IF Lazy /\ s = 0 THEN dm + a ELSE 0), base |-> se + (IF Lazy /\ s = 1 THEN dm + a ELSE 0)]
  BY <1>1, <1>2 DEF PlaceOf, Lead, Lag
<1> QED
  BY <1>3, <1>4 DEF Moved

\* Popping moves what is popped and sent.
LEMMA TakeMove ==
  ASSUME program \in Programs, NEW P, TableOf(P), NEW s \in Server, NEW c \in 1 .. Len(Calls)
  PROVE  Moved(PlaceOf(s, P[c + 1], P[c], P[c]), PlaceOf(s, P[c + 1], P[c + 1], P[c]), 0, 0,
               IF Calls[c].op \in Converting THEN Size(c) ELSE 0,
               IF Calls[c].op \in Multiplying THEN Size(c) ELSE 0, Units(c), 0)
<1>1. PICK dm \in Nat, tm \in Nat, dp \in Nat, tp \in Nat :
          dm = P[c + 1].dmade /\ tm = P[c + 1].tmade /\ dp = P[c].dpos /\ tp = P[c].tpos
  <2>1. P[c] \in Counts /\ P[c + 1] \in Counts
    BY TableStep
  <2> QED
    BY <2>1 DEF Counts
<1>2. PICK se \in Nat, u \in Nat : se = Sends(P[c]) /\ u = Units(c) /\ Sends(P[c + 1]) = se + u
  BY SendsStep
<1>3. PICK x \in Nat, y \in Nat :
         /\ x = (IF Calls[c].op \in Converting THEN Size(c) ELSE 0)
         /\ y = (IF Calls[c].op \in Multiplying THEN Size(c) ELSE 0)
  BY CallType
<1>4. P[c + 1].dpos = dp + x /\ P[c + 1].tpos = tp + y
  BY <1>1, <1>3, SendsStep
<1>5. PICK e \in Nat : e = Lead(s, P[c + 1])
  BY <1>1 DEF Lead
<1>6. PICK g \in Nat : g = Lag(s, P[c + 1])
  BY <1>1 DEF Lag
<1>7. PlaceOf(s, P[c + 1], P[c], P[c]) =
        [dm |-> dm, tm |-> tm, dp |-> dp, tp |-> tp, em |-> se + e, base |-> se + g]
  BY <1>1, <1>2, <1>5, <1>6 DEF PlaceOf
<1>8. PlaceOf(s, P[c + 1], P[c + 1], P[c]) =
        [dm |-> dm, tm |-> tm, dp |-> dp + x, tp |-> tp + y, em |-> (se + u) + e, base |-> se + g]
  BY <1>1, <1>2, <1>4, <1>5, <1>6 DEF PlaceOf
<1>9. Moved([dm |-> dm, tm |-> tm, dp |-> dp, tp |-> tp, em |-> se + e, base |-> se + g],
            [dm |-> dm, tm |-> tm, dp |-> dp + x, tp |-> tp + y, em |-> (se + u) + e, base |-> se + g],
            0, 0, x, y, u, 0)
  BY DEF Moved
<1> QED
  BY <1>2, <1>3, <1>7, <1>8, <1>9

\* Returning moves what was read for good, and nothing else.
LEMMA ReturnMove ==
  ASSUME program \in Programs, NEW P, TableOf(P), NEW s \in Server, NEW c \in 1 .. Len(Calls)
  PROVE  /\ Moved(PlaceOf(s, P[c + 1], P[c + 1], P[c]), PlaceOf(s, P[c + 1], P[c + 1], P[c + 1]),
                  0, 0, 0, 0, 0, Units(c))
         /\ Calls[c].op \notin Opening =>
              PlaceOf(s, P[c + 1], P[c], P[c]) = PlaceOf(s, P[c + 1], P[c + 1], P[c + 1])
<1>1. PICK dm \in Nat, tm \in Nat, dp \in Nat, tp \in Nat :
          dm = P[c + 1].dmade /\ tm = P[c + 1].tmade /\ dp = P[c + 1].dpos /\ tp = P[c + 1].tpos
  <2>1. P[c + 1] \in Counts
    BY TableStep
  <2> QED
    BY <2>1 DEF Counts
<1>2. PICK se \in Nat, u \in Nat : se = Sends(P[c]) /\ u = Units(c) /\ Sends(P[c + 1]) = se + u
  BY SendsStep
<1>5. PICK e \in Nat : e = Lead(s, P[c + 1])
  BY <1>1 DEF Lead
<1>6. PICK g \in Nat : g = Lag(s, P[c + 1])
  BY <1>1 DEF Lag
<1>7. PlaceOf(s, P[c + 1], P[c + 1], P[c]) =
        [dm |-> dm, tm |-> tm, dp |-> dp, tp |-> tp, em |-> (se + u) + e, base |-> se + g]
  BY <1>1, <1>2, <1>5, <1>6 DEF PlaceOf
<1>8. PlaceOf(s, P[c + 1], P[c + 1], P[c + 1]) =
        [dm |-> dm, tm |-> tm, dp |-> dp, tp |-> tp, em |-> (se + u) + e, base |-> (se + u) + g]
  BY <1>1, <1>2, <1>5, <1>6 DEF PlaceOf
<1>9. Moved([dm |-> dm, tm |-> tm, dp |-> dp, tp |-> tp, em |-> (se + u) + e, base |-> se + g],
            [dm |-> dm, tm |-> tm, dp |-> dp, tp |-> tp, em |-> (se + u) + e, base |-> (se + u) + g],
            0, 0, 0, 0, 0, u)
  BY DEF Moved
<1>10. ASSUME Calls[c].op \notin Opening
       PROVE  PlaceOf(s, P[c + 1], P[c], P[c]) = PlaceOf(s, P[c + 1], P[c + 1], P[c + 1])
  <2>1. Calls[c].op \notin Converting /\ Calls[c].op \notin Multiplying
    BY <1>10 DEF Opening
  <2>2. u = 0
    BY <1>2, <2>1 DEF Units
  <2>3. PICK dp1 \in Nat, tp1 \in Nat : dp1 = P[c].dpos /\ tp1 = P[c].tpos
    <3>1. P[c] \in Counts
      BY TableStep
    <3> QED
      BY <3>1 DEF Counts
  <2>4. dp = dp1 + 0 /\ tp = tp1 + 0
    BY <1>1, <2>1, <2>3, SendsStep
  <2>5. Sends(P[c + 1]) = Sends(P[c])
    BY <1>2, <2>2
  <2> QED
    BY <1>1, <2>3, <2>4, <2>5 DEF PlaceOf
<1> QED
  BY <1>2, <1>7, <1>8, <1>9, <1>10

-----------------------------------------------------------------------------
(* The invariant. D and T: each server's halves of all daBits and triples     *)
(* ever made; U: all units each server ever sent; X: its operands of each     *)
(* call.                                                                      *)

Level(K) ==
    /\ K[0].tm = K[1].tm
    /\ IF Lazy THEN K[1].dm <= K[0].dm ELSE K[1].dm = K[0].dm

StoredAt(k, s, D, T) ==
    /\ Window(dabit_store[s], k.dp, k.dm, D[s])
    /\ Window(btriple_store[s], k.tp, k.tm, T[s])
Stores(K, D, T) == \A s \in Server : StoredAt(K[s], s, D, T)

\* From server s to server t: read, in the socket, still to be written.
FlowTo(base, em, t, s, F) ==
    /\ Window(got[t], base, base + Len(got[t]), F)
    /\ Window(chan[t], base + Len(got[t]), base + Len(got[t]) + Len(chan[t]), F)
    /\ Window(out[s], base + Len(got[t]) + Len(chan[t]), em, F)
Flow(K, U) == \A t \in Server : FlowTo(K[t].base, K[Other(t)].em, t, Other(t), U[Other(t)])

DaBit == [bp : Nat, b2 : BOOLEAN]
BoolTriple == [a : BOOLEAN, b : BOOLEAN, c : BOOLEAN]
DaBitPair(d0, d1) == d0 \in DaBit /\ d1 \in DaBit /\ Matching(d0, d1)
TriplePair(t0, t1) == t0 \in BoolTriple /\ t1 \in BoolTriple /\ Beaver(t0, t1)
Good(K, D, T) ==
    /\ \A k \in 1 .. K[0].dm : DaBitPair(D[0][k], D[1][k])
    /\ \A k \in 1 .. K[0].tm : TriplePair(T[0][k], T[1][k])

\* What a server has at hand in a call.
Held(F, from, n) == [k \in 1 .. n |-> F[from + k]]
Hand(P, D, T, X, s, c) ==
    [d |-> Held(D[s], P[c].dpos, IF Calls[c].op \in Converting THEN Size(c) ELSE 0),
     t |-> Held(T[s], P[c].tpos, IF Calls[c].op \in Multiplying THEN Size(c) ELSE 0),
     x |-> X[s][c]]
Masks(c, h) ==
    [k \in 1 .. Units(c) |->
        IF Calls[c].op \in Multiplying
        THEN IF k <= Size(c) THEN h.x.x[k] # h.t[k].a ELSE h.x.y[k - Size(c)] # h.t[k - Size(c)].b
        ELSE h.x.x[k] # h.d[k].b2]

Taken(s, c) == c < call[s] \/ (c = call[s] /\ pc[s] = "open")
Passing(c) == c < call[0] \/ (c = call[0] /\ Topped(0))
MaskStart(P, s, c) == Sends(P[c]) + Lead(s, P[c + 1])

Masked(P, D, T, U, X) == \A s \in Server : \A c \in 1 .. Len(Calls) :
    Taken(s, c) => Held(U[s], MaskStart(P, s, c), Units(c)) = Masks(c, Hand(P, D, T, X, s, c))
Passed(P, D, U) == Lazy => \A c \in 1 .. Len(Calls) :
    Passing(c) => Held(U[0], Sends(P[c]) + P[c].dmade, P[c + 1].dmade - P[c].dmade) =
                  Held(D[1], P[c].dmade, P[c + 1].dmade - P[c].dmade)

Operands(c) == [x : Bits(Size(c)), y : Bits(Size(c))]
Inputs(X) == \A s \in Server :
    /\ pc[s] # "idle" => input[s] = X[s][call[s]]
    /\ \A c \in 1 .. Len(Calls) :
         c < call[s] \/ (c = call[s] /\ pc[s] # "idle") => X[s][c] \in Operands(c)

UsesOf(q, c, h) ==
    /\ Calls[c].op \in Converting => \A k \in 1 .. Size(c) : q[k] = h.d[k]
    /\ Calls[c].op \in Multiplying => \A k \in 1 .. Size(c) : q[k] = h.t[k]
Using(P, D, T, X) == \A s \in Server :
    pc[s] = "open" => UsesOf(used[s], call[s], Hand(P, D, T, X, s, call[s]))

\* What a call returns: from the server's own hand, and both servers' masks.
ProductOf(s, t, a, b, d, e) == (t.c # ((a /\ e) # (b /\ d))) # (s = 0 /\ d /\ e)
ConvertedOf(s, bp, v) == IF v THEN (s - bp) % Modulus ELSE bp
ConvertPath(s, h, offset, w, shown, path) ==
    /\ path \in [0 .. w -> Int] /\ path[0] = 0
    /\ \A j \in 1 .. w :
         path[j] = (path[j - 1] + ConvertedOf(s, h.d[offset + j].bp, shown[offset + j]) * 2 ^ (j - 1)) % Modulus
Shown(c, mine, theirs) == [k \in 1 .. Units(c) |-> mine[k] # theirs[k]]
ResultOf(s, c, h, shown, ret) ==
    /\ Calls[c].op = "multiplyBoolShares" =>
         /\ DOMAIN ret = 1 .. Size(c)
         /\ \A k \in 1 .. Size(c) :
              ret[k] = ProductOf(s, h.t[k], h.x.x[k], h.x.y[k], shown[k], shown[Size(c) + k])
    /\ Calls[c].op = "b2a_daBit_single" =>
         /\ DOMAIN ret = 1 .. Size(c)
         /\ \A k \in 1 .. Size(c) : ret[k] = ConvertedOf(s, h.d[k].bp, shown[k])
    /\ Calls[c].op = "b2a_daBit_multi" =>
         /\ DOMAIN ret = DOMAIN Calls[c].widths
         /\ \A v \in DOMAIN Calls[c].widths : \E path :
              /\ ConvertPath(s, h, Offset(Calls[c].widths, v), Calls[c].widths[v], shown, path)
              /\ ret[v] = path[Calls[c].widths[v]]
Returned(P, D, T, X, s, c) ==
    /\ done[s][c].input = X[s][c]
    /\ ResultOf(s, c, Hand(P, D, T, X, s, c),
                Shown(c, Masks(c, Hand(P, D, T, X, s, c)), Masks(c, Hand(P, D, T, X, Other(s), c))),
                done[s][c].ret)
Results(P, D, T, X) == \A s \in Server :
    /\ \E S : done[s] \in Seq(S)
    /\ Len(done[s]) = call[s] - 1
    /\ \A c \in 1 .. Len(Calls) : c < call[s] => Returned(P, D, T, X, s, c)

\* No more is read ahead of a lazy top-up than what is missing.
Reading(P) == Lazy /\ pc[1] = "add" => Len(got[1]) <= P[call[1] + 1].dmade - P[call[1]].dmade

Described(P, D, T, U, X) ==
    /\ TableOf(P) /\ Shape /\ Level(Places(P)) /\ Reading(P)
    /\ Stores(Places(P), D, T) /\ Flow(Places(P), U) /\ Good(Places(P), D, T)
    /\ Masked(P, D, T, U, X) /\ Passed(P, D, U)
    /\ Inputs(X) /\ Using(P, D, T, X) /\ Results(P, D, T, X)
Aligned == \E P, D, T, U, X : Described(P, D, T, U, X)

-----------------------------------------------------------------------------
(* How far what was taken and read reaches *)

\* The other server's other server.
LEMMA Others == ASSUME NEW s \in Server PROVE Other(s) \in Server /\ Other(Other(s)) = s /\ Other(s) # s
                       /\ (s = 1 <=> Other(s) = 0) /\ (s = 0 <=> Other(s) = 1)
  BY DEF Server, Other

\* More calls, more sent.
LEMMA SendsMono ==
  ASSUME NEW p \in Counts, NEW q \in Counts, Leq(p, q), NEW s \in Server
  PROVE  /\ Sends(p) <= Sends(q) /\ Lead(s, p) <= Lead(s, q) /\ Lag(s, p) <= Lag(s, q)
         /\ Sends(p) \in Nat /\ Lead(s, p) \in Nat /\ Lag(s, p) \in Nat
         /\ Lead(Other(s), p) = Lag(s, p) /\ Lag(Other(s), p) = Lead(s, p)
<1>1. PICK a \in Nat, b \in Nat, m \in Nat : a = p.dpos /\ b = p.tpos /\ m = p.dmade
  BY DEF Counts
<1>2. PICK e \in Nat, f \in Nat, n \in Nat : e = q.dpos /\ f = q.tpos /\ n = q.dmade
  BY DEF Counts
<1>3. a <= e /\ b <= f /\ m <= n
  BY <1>1, <1>2 DEF Leq
<1>4. Sends(p) = a + 2 * b /\ Sends(q) = e + 2 * f
  BY <1>1, <1>2 DEF Sends
<1>5. a + 2 * b <= e + 2 * f /\ a + 2 * b \in Nat
  BY <1>3
<1>6. Lead(s, p) <= Lead(s, q) /\ Lag(s, p) <= Lag(s, q) /\ Lead(s, p) \in Nat /\ Lag(s, p) \in Nat
  BY <1>1, <1>2, <1>3 DEF Lead, Lag
<1>7. Lead(Other(s), p) = Lag(s, p) /\ Lag(Other(s), p) = Lead(s, p)
  BY Others DEF Lead, Lag
<1> QED
  BY <1>4, <1>5, <1>6, <1>7

\* A server's counts lie between its call's and the next call's.
LEMMA Bounds ==
  ASSUME Shape, NEW P, TableOf(P), NEW s \in Server
  PROVE  /\ P[call[s]] \in Counts /\ MadeBy(P, s) \in Counts /\ PoppedBy(P, s) \in Counts
         /\ Leq(P[call[s]], MadeBy(P, s)) /\ Leq(P[call[s]], PoppedBy(P, s))
         /\ call[s] \in 1 .. Len(Calls) + 1
         /\ pc[s] # "idle" => call[s] \in 1 .. Len(Calls)
<1>1. program \in Programs /\ call[s] \in 1 .. Len(Calls) + 1 /\ (pc[s] # "idle" => call[s] \in 1 .. Len(Calls))
  BY DEF Shape, PcOK
<1>2. Len(Calls) \in Nat
  BY <1>1, CallType
<1>3. PICK c \in 1 .. Len(Calls) + 1 : c = call[s]
  BY <1>1
<1>4. P[c] \in Counts /\ Leq(P[c], P[c])
  <2>1. c \in c .. Len(Calls) + 1
    BY <1>2
  <2> QED
    BY <1>1, <2>1, TableMono
<1>5. CASE c \in 1 .. Len(Calls)
  <2>1. P[c + 1] \in Counts /\ Leq(P[c], P[c + 1])
    BY <1>1, <1>5, TableStep
  <2> QED
    BY <1>1, <1>3, <1>4, <2>1 DEF MadeBy, PoppedBy
<1>6. CASE c \notin 1 .. Len(Calls)
  <2>1. pc[s] = "idle"
    BY <1>1, <1>3, <1>6
  <2>2. MadeBy(P, s) = P[c] /\ PoppedBy(P, s) = P[c]
    BY <1>3, <2>1 DEF MadeBy, PoppedBy, Topped
  <2> QED
    BY <1>1, <1>3, <1>4, <2>2
<1> QED
  BY <1>5, <1>6

\* What a call has popped and sent is no more than its server has, in all.
LEMMA TakenReach ==
  ASSUME Shape, NEW P, TableOf(P), Level(Places(P)), NEW s \in Server, NEW c \in 1 .. Len(Calls), Taken(s, c)
  PROVE  /\ P[c + 1].dpos <= Places(P)[0].dm /\ P[c + 1].tpos <= Places(P)[0].tm
         /\ MaskStart(P, s, c) + Units(c) <= Places(P)[s].em
<1>0. program \in Programs /\ Len(Calls) \in Nat
  BY CallType DEF Shape
<1>1. PICK m \in Counts, q \in Counts : m = MadeBy(P, s) /\ q = PoppedBy(P, s)
  BY Bounds
<1>2. P[c + 1] \in Counts /\ Leq(P[c + 1], m) /\ Leq(P[c + 1], q)
  <2>1. CASE c < call[s]
    <3>1. PICK d \in 1 .. Len(Calls) + 1, e \in 1 .. Len(Calls) + 1 : d = c + 1 /\ e = call[s] /\ e \in d .. Len(Calls) + 1
      BY <1>0, <2>1, Bounds
    <3>2. P[d] \in Counts /\ P[e] \in Counts /\ Leq(P[d], P[e])
      BY <1>0, <3>1, TableMono
    <3>3. Leq(P[e], m) /\ Leq(P[e], q)
      BY <1>1, <3>1, Bounds
    <3> QED
      BY <3>1, <3>2, <3>3, LeqTrans
  <2>2. CASE c = call[s] /\ pc[s] = "open"
    <3>1. m = P[c + 1] /\ q = P[c + 1]
      BY <1>1, <2>2 DEF MadeBy, PoppedBy, Topped
    <3> QED
      BY <3>1 DEF Leq, Counts
  <2> QED
    BY <2>1, <2>2 DEF Taken
<1>3. PICK r \in Counts : r = P[c + 1]
  BY <1>2
<1>4. PICK k : k = Places(P)[s] /\ Numbered(k)
  BY PlaceType
<1>5. k.dp = q.dpos /\ k.tp = q.tpos /\ k.em = Sends(q) + Lead(s, m)
  BY <1>1, <1>4 DEF Places, PlaceOf
<1>6. PICK k0 : k0 = Places(P)[0] /\ Numbered(k0)
  BY PlaceType DEF Server
<1>7. k.dm <= k0.dm /\ k.tm <= k0.tm
  BY SMTT(40), <1>4, <1>6 DEF Level, Server, Numbered
<1>8. r.dpos <= q.dpos /\ r.tpos <= q.tpos /\ r.dpos \in Nat /\ r.tpos \in Nat
  BY <1>2, <1>3 DEF Leq, Counts
<1>9. r.dpos <= k0.dm /\ r.tpos <= k0.tm
  <2>1. PICK x \in Nat, y \in Nat : x = r.dpos /\ y = r.tpos
    BY <1>8
  <2>2. x <= k.dp /\ k.dp <= k.dm /\ y <= k.tp /\ k.tp <= k.tm
    BY <1>4, <1>5, <1>8, <2>1 DEF Numbered
  <2>3. /\ k.dp \in Nat /\ k.dm \in Nat /\ k.tp \in Nat /\ k.tm \in Nat /\ k0.dm \in Nat /\ k0.tm \in Nat
    BY <1>4, <1>6 DEF Numbered
  <2>4. x <= k0.dm /\ y <= k0.tm
    BY SMTT(40), <1>7, <2>2, <2>3
  <2> QED
    BY <2>1, <2>4
<1>10. MaskStart(P, s, c) + Units(c) <= k.em
  <2>1. PICK u \in Nat, e \in Nat : u = Units(c) /\ e = Sends(P[c]) /\ Sends(r) = e + u
    BY <1>0, <1>3, SendsStep
  <2>2. Sends(r) <= Sends(q) /\ Sends(r) \in Nat
    BY <1>2, <1>3, SendsMono
  <2>3. Lead(s, r) <= Lead(s, m) /\ Lead(s, r) \in Nat
    BY <1>2, <1>3, SendsMono
  <2>4. Sends(q) \in Nat /\ Lead(s, m) \in Nat
    <3>1. Leq(m, m) /\ Leq(q, q)
      BY DEF Leq, Counts
    <3> QED
      BY <3>1, SendsMono
  <2>5. PICK a \in Nat, b \in Nat, d \in Nat : a = Sends(q) /\ b = Lead(s, m) /\ d = Lead(s, r)
    BY <2>3, <2>4
  <2>6. e + u <= a /\ d <= b
    BY <2>1, <2>2, <2>3, <2>5
  <2>7. e + d + u <= a + b
    BY <2>6
  <2>8. MaskStart(P, s, c) = e + d
    BY <1>3, <2>1, <2>5 DEF MaskStart
  <2> QED
    BY <1>5, <2>1, <2>5, <2>7, <2>8
<1> QED
  BY <1>3, <1>4, <1>6, <1>9, <1>10

\* The same of the daBits server 0 has passed on.
LEMMA PassedReach ==
  ASSUME Shape, NEW P, TableOf(P), Lazy, NEW c \in 1 .. Len(Calls), Passing(c)
  PROVE  /\ P[c + 1].dmade <= Places(P)[0].dm
         /\ Sends(P[c]) + P[c + 1].dmade <= Places(P)[0].em
<1>0. program \in Programs /\ Len(Calls) \in Nat /\ 0 \in Server
  BY CallType DEF Shape, Server
<1>1. PICK m \in Counts, q \in Counts : m = MadeBy(P, 0) /\ q = PoppedBy(P, 0)
  BY <1>0, Bounds
<1>2. P[c] \in Counts /\ P[c + 1] \in Counts /\ Leq(P[c + 1], m) /\ Leq(P[c], q)
  <2>0. P[c] \in Counts /\ P[c + 1] \in Counts /\ Leq(P[c], P[c + 1])
    BY <1>0, TableStep
  <2>1. CASE c < call[0]
    <3>1. PICK d \in 1 .. Len(Calls) + 1, e \in 1 .. Len(Calls) + 1 : d = c + 1 /\ e = call[0] /\ e \in d .. Len(Calls) + 1
      BY <1>0, <2>1, Bounds
    <3>2. P[d] \in Counts /\ P[e] \in Counts /\ Leq(P[d], P[e])
      BY <1>0, <3>1, TableMono
    <3>3. Leq(P[e], m) /\ Leq(P[e], q)
      BY <1>0, <1>1, <3>1, Bounds
    <3>4. Leq(P[d], m) /\ Leq(P[d], q)
      BY <3>2, <3>3, LeqTrans
    <3> QED
      BY <2>0, <3>1, <3>4, LeqTrans
  <2>2. CASE c = call[0] /\ Topped(0)
    <3>1. m = P[c + 1]
      BY <1>1, <2>2 DEF MadeBy
    <3>2. Leq(P[c], q)
      BY <1>0, <1>1, <2>2, Bounds
    <3> QED
      BY SMTT(40), <2>0, <3>1, <3>2 DEF Leq, Counts
  <2> QED
    BY <2>1, <2>2 DEF Passing
<1>3. PICK r \in Counts, p \in Counts : r = P[c + 1] /\ p = P[c]
  BY <1>2
<1>4. Places(P)[0].dm = m.dmade /\ Places(P)[0].em = Sends(q) + m.dmade
  BY <1>0, <1>1 DEF Places, PlaceOf, Lead
<1>5. Sends(p) <= Sends(q) /\ Sends(p) \in Nat /\ Sends(q) \in Nat
  BY <1>0, <1>2, <1>3, SendsMono, SendsType
<1>6. PICK x \in Nat, y \in Nat : x = r.dmade /\ y = m.dmade /\ x <= y
  BY <1>2, <1>3 DEF Leq, Counts
<1>7. PICK a \in Nat, b \in Nat : a = Sends(p) /\ b = Sends(q)
  BY <1>5
<1>8. a + x <= b + y
  BY <1>5, <1>6, <1>7
<1> QED
  BY <1>3, <1>4, <1>6, <1>7, <1>8

\* A server whose units of a call have been read is in that call or past it.
LEMMA ReadReach ==
  ASSUME Shape, NEW P, TableOf(P), NEW s \in Server, NEW c \in 1 .. Len(Calls), Units(c) > 0,
         NEW n \in Nat, n <= Places(P)[s].em, n >= MaskStart(P, s, c) + Units(c)
  PROVE  Taken(s, c)
<1>0. program \in Programs /\ Len(Calls) \in Nat
  BY CallType DEF Shape
<1>1. PICK m \in Counts, q \in Counts : m = MadeBy(P, s) /\ q = PoppedBy(P, s)
  BY Bounds
<1>2. P[c] \in Counts /\ P[c + 1] \in Counts /\ Leq(P[c], P[c + 1])
  BY <1>0, TableStep
<1>3. PICK p \in Counts, r \in Counts : p = P[c] /\ r = P[c + 1]
  BY <1>2
<1>4. SUFFICES ASSUME ~Taken(s, c) PROVE FALSE
  OBVIOUS
<1>5. call[s] \in 1 .. Len(Calls) + 1 /\ call[s] <= c /\ ~(c = call[s] /\ pc[s] = "open")
  <2>1. call[s] \in 1 .. Len(Calls) + 1
    BY Bounds
  <2>2. ~(c < call[s]) /\ ~(c = call[s] /\ pc[s] = "open")
    BY <1>4 DEF Taken
  <2> QED
    BY <1>0, <2>1, <2>2
<1>6. Leq(q, p) /\ Leq(m, r)
  <2>1. CASE call[s] = c
    <3>1. q = p
      BY <1>1, <1>3, <1>5, <2>1 DEF PoppedBy
    <3>2. m = p \/ m = r
      BY <1>1, <1>3, <2>1 DEF MadeBy
    <3>3. Leq(p, p) /\ Leq(r, r) /\ Leq(p, r)
      BY <1>2, <1>3, LeqSelf
    <3> QED
      BY <3>1, <3>2, <3>3
  <2>2. CASE call[s] # c
    <3>1. PICK b \in 1 .. Len(Calls) : b = call[s] /\ b + 1 <= c
      BY <1>0, <1>5, <2>2
    <3>2. PICK d \in 1 .. Len(Calls) + 1 : d = b + 1 /\ c \in d .. Len(Calls) + 1
      BY <1>0, <3>1
    <3>3. Leq(P[d], P[c]) /\ P[d] \in Counts
      BY <1>0, <3>2, TableMono
    <3>4. Leq(P[b], P[b + 1]) /\ P[b] \in Counts
      BY <1>0, TableStep
    <3>5. PICK u \in Counts, v \in Counts : u = P[b] /\ v = P[d]
      BY <3>3, <3>4
    <3>6. Leq(u, v) /\ Leq(v, p)
      BY <1>3, <3>2, <3>3, <3>4, <3>5
    <3>7. Leq(u, p) /\ Leq(p, r)
      BY <1>2, <1>3, <3>6, LeqTrans
    <3>8. Leq(u, r) /\ Leq(v, r)
      BY <3>6, <3>7, LeqTrans
    <3>9. (q = u \/ q = v) /\ (m = u \/ m = v)
      BY <1>1, <3>1, <3>2, <3>5 DEF PoppedBy, MadeBy
    <3> QED
      BY <3>6, <3>7, <3>8, <3>9
  <2> QED
    BY <2>1, <2>2
<1>7. Places(P)[s].em = Sends(q) + Lead(s, m)
  BY <1>1 DEF Places, PlaceOf
<1>8. PICK a \in Nat, b \in Nat, d \in Nat, e \in Nat :
          a = Sends(q) /\ b = Lead(s, m) /\ d = Sends(p) /\ e = Lead(s, r) /\ a <= d /\ b <= e
  <2>1. Sends(q) <= Sends(p) /\ Sends(q) \in Nat
    BY <1>6, SendsMono
  <2>2. Lead(s, m) <= Lead(s, r) /\ Lead(s, m) \in Nat
    BY <1>6, SendsMono
  <2>3. Leq(r, r)
    BY LeqSelf
  <2>4. Sends(p) \in Nat /\ Lead(s, r) \in Nat
    BY <2>3, SendsType, SendsMono
  <2> QED
    BY <2>1, <2>2, <2>4
<1>9. n <= a + b /\ n >= d + e + Units(c)
  BY <1>3, <1>7, <1>8 DEF MaskStart
<1>10. PICK u \in Nat : u = Units(c) /\ u > 0
  BY <1>0, SendsStep
<1> QED
  BY SMTT(40), <1>8, <1>9, <1>10

\* Server 0 has passed on what server 1 has read of it.
LEMMA PassReach ==
  ASSUME Shape, NEW P, TableOf(P), Lazy, NEW c \in 1 .. Len(Calls), P[c + 1].dmade > P[c].dmade,
         NEW n \in Nat, n <= Places(P)[0].em, n >= Sends(P[c]) + P[c + 1].dmade
  PROVE  Passing(c)
<1>0. program \in Programs /\ Len(Calls) \in Nat /\ 0 \in Server
  BY CallType DEF Shape, Server
<1>1. PICK m \in Counts, q \in Counts : m = MadeBy(P, 0) /\ q = PoppedBy(P, 0)
  BY <1>0, Bounds
<1>2. P[c] \in Counts /\ P[c + 1] \in Counts
  BY <1>0, TableStep
<1>3. PICK p \in Counts, r \in Counts : p = P[c] /\ r = P[c + 1]
  BY <1>2
<1>4. SUFFICES ASSUME ~Passing(c) PROVE FALSE
  OBVIOUS
<1>5. call[0] \in 1 .. Len(Calls) + 1 /\ call[0] <= c /\ ~(c = call[0] /\ Topped(0))
  <2>1. call[0] \in 1 .. Len(Calls) + 1
    BY <1>0, Bounds
  <2>2. ~(c < call[0]) /\ ~(c = call[0] /\ Topped(0))
    BY <1>4 DEF Passing
  <2> QED
    BY <1>0, <2>1, <2>2
<1>6. Leq(q, p) /\ Leq(m, p)
  <2>1. CASE call[0] = c
    <3>1. q = p /\ m = p
      BY <1>1, <1>3, <1>5, <2>1 DEF PoppedBy, MadeBy, Topped
    <3> QED
      BY <3>1 DEF Leq, Counts
  <2>2. CASE call[0] # c
    <3>1. PICK b \in 1 .. Len(Calls) : b = call[0] /\ b + 1 <= c
      BY <1>0, <1>5, <2>2
    <3>2. PICK d \in 1 .. Len(Calls) + 1 : d = b + 1 /\ c \in d .. Len(Calls) + 1
      BY <1>0, <3>1
    <3>3. Leq(P[d], P[c]) /\ P[d] \in Counts
      BY <1>0, <3>2, TableMono
    <3>4. Leq(P[b], P[b + 1]) /\ P[b] \in Counts
      BY <1>0, TableStep
    <3>5. PICK u \in Counts, v \in Counts : u = P[b] /\ v = P[d]
      BY <3>3, <3>4
    <3>6. Leq(u, v) /\ Leq(v, p)
      BY <1>3, <3>2, <3>3, <3>4, <3>5
    <3>7. Leq(u, p)
      BY <3>6, LeqTrans
    <3>9. (q = u \/ q = v) /\ (m = u \/ m = v)
      BY <1>1, <3>1, <3>2, <3>5 DEF PoppedBy, MadeBy
    <3> QED
      BY <3>6, <3>7, <3>9
  <2> QED
    BY <2>1, <2>2
<1>7. Places(P)[0].em = Sends(q) + m.dmade
  BY <1>0, <1>1 DEF Places, PlaceOf, Lead
<1>8. PICK a \in Nat, d \in Nat : a = Sends(q) /\ d = Sends(p) /\ a <= d
  BY <1>0, <1>6, SendsMono, SendsType
<1>9. PICK x \in Nat, y \in Nat, z \in Nat : x = m.dmade /\ y = p.dmade /\ z = r.dmade /\ x <= y
  BY <1>6 DEF Leq, Counts
<1>10. n <= a + x /\ n >= d + z /\ z > y
  BY <1>3, <1>7, <1>8, <1>9
<1> QED
  BY SMTT(40), <1>8, <1>9, <1>10

-----------------------------------------------------------------------------
(* What is yet to be made, sent or computed does not matter *)

Agree(F, G, b) == \A j \in Nat : j <= b => G[j] = F[j]
Begun(s, c) == c < call[s] \/ (c = call[s] /\ pc[s] # "idle")
Grown(K, D, T, U, X, D2, T2, U2, X2) == \A s \in Server :
    /\ Agree(D[s], D2[s], K[0].dm) /\ Agree(T[s], T2[s], K[0].tm) /\ Agree(U[s], U2[s], K[s].em)
    /\ \A c \in 1 .. Len(Calls) : Begun(s, c) => X2[s][c] = X[s][c]

\* Nor to what is at hand,
LEMMA HeldKept ==
  ASSUME NEW F, NEW G, NEW b, Agree(F, G, b), NEW a \in Nat, NEW n \in Nat, b \in Nat, a + n <= b
  PROVE  Held(G, a, n) = Held(F, a, n)
<1>1. ASSUME NEW k \in 1 .. n PROVE G[a + k] = F[a + k]
  <2>1. a + k \in Nat /\ a + k <= b
    OBVIOUS
  <2> QED
    BY <2>1 DEF Agree
<1> QED
  BY <1>1 DEF Held

\* nor to a window.
LEMMA WindowKept ==
  ASSUME NEW F, NEW G, NEW m \in Nat, Agree(F, G, m), NEW q, NEW a \in Nat, NEW b \in Nat, b <= m,
         Window(q, a, b, F)
  PROVE  Window(q, a, b, G)
<1>1. \A j \in Nat : j <= b => G[j] = F[j]
  BY DEF Agree
<1> QED
  BY <1>1, WindowElsewhere

\* What a call that has popped has at hand stays so.
LEMMA HandKept ==
  ASSUME Shape, NEW P, TableOf(P), Level(Places(P)), NEW s \in Server, NEW c \in 1 .. Len(Calls), Taken(s, c),
         NEW D, NEW T, NEW U, NEW X, NEW D2, NEW T2, NEW U2, NEW X2,
         Grown(Places(P), D, T, U, X, D2, T2, U2, X2)
  PROVE  Hand(P, D2, T2, X2, s, c) = Hand(P, D, T, X, s, c)
<1>0. program \in Programs /\ 0 \in Server
  BY DEF Shape, Server
<1>1. PICK dm \in Nat, tm \in Nat : dm = Places(P)[0].dm /\ tm = Places(P)[0].tm
  BY <1>0, PlaceType DEF Numbered
<1>2. PICK x \in Nat, y \in Nat :
         /\ x = (IF Calls[c].op \in Converting THEN Size(c) ELSE 0)
         /\ y = (IF Calls[c].op \in Multiplying THEN Size(c) ELSE 0)
  BY <1>0, CallType
<1>3. PICK a \in Nat, b \in Nat : a = P[c].dpos /\ b = P[c].tpos
  <2>1. P[c] \in Counts
    BY <1>0, TableStep
  <2> QED
    BY <2>1 DEF Counts
<1>4. P[c + 1].dpos = a + x /\ P[c + 1].tpos = b + y
  BY <1>0, <1>2, <1>3, SendsStep
<1>5. a + x <= dm /\ b + y <= tm
  BY <1>1, <1>4, TakenReach
<1>6. Agree(D[s], D2[s], dm) /\ Agree(T[s], T2[s], tm)
  BY <1>1 DEF Grown
<1>7. Held(D2[s], a, x) = Held(D[s], a, x) /\ Held(T2[s], b, y) = Held(T[s], b, y)
  BY <1>5, <1>6, HeldKept
<1>8. X2[s][c] = X[s][c]
  <2>1. Begun(s, c)
    BY DEF Begun, Taken
  <2> QED
    BY <2>1 DEF Grown
<1> QED
  BY <1>2, <1>3, <1>7, <1>8 DEF Hand

\* Masks of nothing.
LEMMA NoMasks ==
  ASSUME NEW c, Units(c) = 0, NEW h, NEW g PROVE Masks(c, h) = Masks(c, g)
  BY DEF Masks

\* The order in which what one server sends another lies.
LEMMA FlowOrder ==
  ASSUME Shape, NEW P, TableOf(P), NEW U, Flow(Places(P), U), NEW t \in Server
  PROVE  /\ Places(P)[t].base \in Nat /\ Places(P)[Other(t)].em \in Nat
         /\ Len(got[t]) \in Nat /\ Len(chan[t]) \in Nat /\ Len(out[Other(t)]) \in Nat
         /\ Places(P)[t].base + Len(got[t]) + Len(chan[t]) + Len(out[Other(t)]) = Places(P)[Other(t)].em
<1>1. PICK b \in Nat : b = Places(P)[t].base
  BY PlaceType DEF Numbered
<1>2. PICK e \in Nat : e = Places(P)[Other(t)].em
  BY PlaceType, Others DEF Numbered
<1>3. FlowTo(b, e, t, Other(t), U[Other(t)])
  BY <1>1, <1>2 DEF Flow
<1>4. PICK s \in Server : s = Other(t)
  BY Others
<1>5. Len(got[t]) \in Nat /\ Len(chan[t]) \in Nat /\ Len(out[s]) \in Nat
  <2>1. \A q : (\E S : q \in Seq(S)) => Len(q) \in Nat
    OBVIOUS
  <2>2. (\E S : got[t] \in Seq(S)) /\ (\E S : chan[t] \in Seq(S)) /\ (\E S : out[s] \in Seq(S))
    BY <1>3, <1>4 DEF FlowTo, Window
  <2> QED
    BY <2>1, <2>2
<1>6. PICK g \in Nat, h \in Nat, o \in Nat : g = Len(got[t]) /\ h = Len(chan[t]) /\ o = Len(out[s])
  BY <1>5
<1>7. o = e - (b + g + h)
  BY <1>3, <1>4, <1>6 DEF FlowTo, Window
<1>8. b + g + h + o = e
  BY <1>7
<1> QED
  BY <1>1, <1>2, <1>4, <1>6, <1>8

\* A call one server has returned from has popped at the other.
LEMMA BothTaken ==
  ASSUME Shape, NEW P, TableOf(P), NEW U, Flow(Places(P), U), NEW s \in Server, NEW c \in 1 .. Len(Calls),
         c < call[s], Units(c) > 0
  PROVE  Taken(Other(s), c)
<1>0. program \in Programs /\ Len(Calls) \in Nat
  BY CallType DEF Shape
<1>1. PICK n \in Nat : n = Places(P)[s].base /\ n <= Places(P)[Other(s)].em
  <2>1. PICK n \in Nat, e \in Nat, g \in Nat, h \in Nat, o \in Nat :
           /\ n = Places(P)[s].base /\ e = Places(P)[Other(s)].em
           /\ g = Len(got[s]) /\ h = Len(chan[s]) /\ o = Len(out[Other(s)])
    BY FlowOrder
  <2>2. n + g + h + o = e
    BY <2>1, FlowOrder
  <2>3. n <= e
    BY <2>2
  <2> QED
    BY <2>1, <2>3
<1>2. PICK p \in Counts, m \in Counts : p = P[call[s]] /\ m = MadeBy(P, s)
  BY Bounds
<1>3. n = Sends(p) + Lag(s, m)
  BY <1>1, <1>2 DEF Places, PlaceOf
<1>4. PICK d \in 1 .. Len(Calls) + 1, e \in 1 .. Len(Calls) + 1 : d = c + 1 /\ e = call[s] /\ e \in d .. Len(Calls) + 1
  BY <1>0, Bounds
<1>5. P[d] \in Counts /\ Leq(P[d], p)
  BY <1>0, <1>2, <1>4, TableMono
<1>6. PICK r \in Counts : r = P[c + 1] /\ Leq(r, p) /\ Leq(r, m)
  <2>1. Leq(p, m)
    BY <1>2, Bounds
  <2>2. Leq(P[d], m)
    BY <1>5, <2>1, LeqTrans
  <2> QED
    BY <1>4, <1>5, <2>2
<1>7. PICK u \in Nat : u = Units(c) /\ Sends(r) = Sends(P[c]) + u /\ Sends(P[c]) \in Nat
  BY <1>0, <1>6, SendsStep
<1>8. Sends(r) <= Sends(p) /\ Lag(s, r) <= Lag(s, m) /\ Lag(s, r) = Lead(Other(s), r) /\ Lag(s, r) \in Nat
  BY <1>6, SendsMono
<1>9. Sends(p) \in Nat /\ Lag(s, m) \in Nat
  <2>1. Leq(m, m)
    BY LeqSelf
  <2> QED
    BY <2>1, SendsType, SendsMono
<1>10. PICK x \in Nat, y \in Nat, z \in Nat, w \in Nat :
          x = Sends(P[c]) /\ y = Lag(s, r) /\ z = Sends(p) /\ w = Lag(s, m)
  BY <1>7, <1>8, <1>9
<1>11. x + u <= z /\ y <= w /\ n = z + w
  BY <1>3, <1>7, <1>8, <1>10
<1>12. n >= x + y + u
  BY <1>11
<1>13. n >= MaskStart(P, Other(s), c) + Units(c)
  BY <1>6, <1>7, <1>8, <1>10, <1>12 DEF MaskStart
<1>14. PICK t \in Server : t = Other(s)
  BY Others
<1> QED
  BY <1>1, <1>13, <1>14, ReadReach

-----------------------------------------------------------------------------
(* The invariant holds whatever the histories go on with *)

\* The caches and sockets hold what they held.
LEMMA GrownQueues ==
  ASSUME Shape, NEW P, TableOf(P), Level(Places(P)),
         NEW D, NEW T, NEW U, NEW X, NEW D2, NEW T2, NEW U2, NEW X2,
         Grown(Places(P), D, T, U, X, D2, T2, U2, X2),
         Stores(Places(P), D, T), Flow(Places(P), U)
  PROVE  Stores(Places(P), D2, T2) /\ Flow(Places(P), U2)
<1>0. 0 \in Server
  BY DEF Server
<1>1. PICK dm \in Nat, tm \in Nat : dm = Places(P)[0].dm /\ tm = Places(P)[0].tm
  BY <1>0, PlaceType DEF Numbered
<1>2. ASSUME NEW s \in Server PROVE StoredAt(Places(P)[s], s, D2, T2)
  <2>1. PICK a \in Nat, b \in Nat, c \in Nat, d \in Nat :
           a = Places(P)[s].dp /\ b = Places(P)[s].dm /\ c = Places(P)[s].tp /\ d = Places(P)[s].tm
    BY PlaceType DEF Numbered
  <2>2. b <= dm /\ d <= tm
    BY <1>1, <2>1 DEF Level, Server
  <2>3. Agree(D[s], D2[s], dm) /\ Agree(T[s], T2[s], tm)
    BY <1>1 DEF Grown
  <2>4. Window(dabit_store[s], a, b, D[s]) /\ Window(btriple_store[s], c, d, T[s])
    BY <2>1 DEF Stores, StoredAt
  <2>5. Window(dabit_store[s], a, b, D2[s])
    BY <2>2, <2>3, <2>4, WindowKept
  <2>6. Window(btriple_store[s], c, d, T2[s])
    BY <2>2, <2>3, <2>4, WindowKept
  <2> QED
    BY <2>1, <2>5, <2>6 DEF StoredAt
<1>3. ASSUME NEW t \in Server, NEW s \in Server, s = Other(t)
      PROVE  FlowTo(Places(P)[t].base, Places(P)[s].em, t, s, U2[s])
  <2>1. PICK b \in Nat, e \in Nat, g \in Nat, h \in Nat, o \in Nat :
           /\ b = Places(P)[t].base /\ e = Places(P)[s].em
           /\ g = Len(got[t]) /\ h = Len(chan[t]) /\ o = Len(out[s])
    BY <1>3, FlowOrder
  <2>2. b + g + h + o = e
    BY <1>3, <2>1, FlowOrder
  <2>3. /\ Window(got[t], b, b + g, U[s]) /\ Window(chan[t], b + g, b + g + h, U[s])
        /\ Window(out[s], b + g + h, e, U[s])
    BY <1>3, <2>1 DEF Flow, FlowTo
  <2>4. Agree(U[s], U2[s], e)
    BY <2>1 DEF Grown
  <2>5. PICK x \in Nat, y \in Nat : x = b + g /\ y = b + g + h /\ x <= e /\ y <= e
    BY <2>2
  <2>6. Window(got[t], b, x, U2[s])
    BY <2>3, <2>4, <2>5, WindowKept
  <2>7. Window(chan[t], x, y, U2[s])
    BY <2>3, <2>4, <2>5, WindowKept
  <2>8. Window(out[s], y, e, U2[s])
    BY <2>3, <2>4, <2>5, WindowKept
  <2> QED
    BY <2>1, <2>5, <2>6, <2>7, <2>8 DEF FlowTo
<1>4. Flow(Places(P), U2)
  BY <1>3, Others DEF Flow
<1> QED
  BY <1>2, <1>4 DEF Stores

\* What was made is as good, and what was sent as it was.
LEMMA GrownGood ==
  ASSUME Shape, NEW P, TableOf(P), Level(Places(P)),
         NEW D, NEW T, NEW U, NEW X, NEW D2, NEW T2, NEW U2, NEW X2,
         Grown(Places(P), D, T, U, X, D2, T2, U2, X2), Good(Places(P), D, T)
  PROVE  Good(Places(P), D2, T2)
<1>0. 0 \in Server /\ 1 \in Server
  BY DEF Server
<1>1. PICK dm \in Nat, tm \in Nat : dm = Places(P)[0].dm /\ tm = Places(P)[0].tm
  BY <1>0, PlaceType DEF Numbered
<1>2. /\ Agree(D[0], D2[0], dm) /\ Agree(D[1], D2[1], dm)
      /\ Agree(T[0], T2[0], tm) /\ Agree(T[1], T2[1], tm)
  BY <1>0, <1>1 DEF Grown
<1>3. ASSUME NEW k \in 1 .. dm PROVE D2[0][k] = D[0][k] /\ D2[1][k] = D[1][k]
  BY <1>2 DEF Agree
<1>4. ASSUME NEW k \in 1 .. tm PROVE T2[0][k] = T[0][k] /\ T2[1][k] = T[1][k]
  BY <1>2 DEF Agree
<1>5. \A k \in 1 .. dm : DaBitPair(D2[0][k], D2[1][k])
  BY <1>1, <1>3 DEF Good
<1>6. \A k \in 1 .. tm : TriplePair(T2[0][k], T2[1][k])
  BY <1>1, <1>4 DEF Good
<1> QED
  BY <1>1, <1>5, <1>6 DEF Good

\* What was sent is what was masked, and what was passed on.
LEMMA GrownMasked ==
  ASSUME Shape, NEW P, TableOf(P), Level(Places(P)),
         NEW D, NEW T, NEW U, NEW X, NEW D2, NEW T2, NEW U2, NEW X2,
         Grown(Places(P), D, T, U, X, D2, T2, U2, X2),
         Masked(P, D, T, U, X), Passed(P, D, U)
  PROVE  Masked(P, D2, T2, U2, X2) /\ Passed(P, D2, U2)
<1>0. 0 \in Server /\ 1 \in Server /\ program \in Programs
  BY DEF Server, Shape
<1>1. ASSUME NEW s \in Server, NEW c \in 1 .. Len(Calls), Taken(s, c)
      PROVE  Held(U2[s], MaskStart(P, s, c), Units(c)) = Masks(c, Hand(P, D2, T2, X2, s, c))
  <2>1. PICK e \in Nat, u \in Nat, m \in Nat : e = Places(P)[s].em /\ u = Units(c) /\ m = MaskStart(P, s, c)
    <3>1. P[c] \in Counts /\ P[c + 1] \in Counts /\ Units(c) \in Nat
      BY <1>0, TableStep, SendsStep
    <3>2. Leq(P[c + 1], P[c + 1])
      BY <3>1, LeqSelf
    <3>3. PICK x \in Nat, y \in Nat : x = Sends(P[c]) /\ y = Lead(s, P[c + 1])
      BY <3>1, <3>2, SendsType, SendsMono
    <3>4. MaskStart(P, s, c) = x + y
      BY <3>3 DEF MaskStart
    <3>5. x + y \in Nat
      OBVIOUS
    <3> QED
      BY <3>1, <3>4, <3>5, PlaceType DEF Numbered
  <2>2. m + u <= e
    BY <1>1, <2>1, TakenReach
  <2>3. Agree(U[s], U2[s], e)
    BY <2>1 DEF Grown
  <2>4. Held(U2[s], m, u) = Held(U[s], m, u)
    BY <2>2, <2>3, HeldKept
  <2>5. Hand(P, D2, T2, X2, s, c) = Hand(P, D, T, X, s, c)
    BY <1>1, HandKept
  <2> QED
    BY <1>1, <2>1, <2>4, <2>5 DEF Masked
<1>2. ASSUME Lazy, NEW c \in 1 .. Len(Calls), Passing(c)
      PROVE  Held(U2[0], Sends(P[c]) + P[c].dmade, P[c + 1].dmade - P[c].dmade) =
             Held(D2[1], P[c].dmade, P[c + 1].dmade - P[c].dmade)
  <2>1. PICK e \in Nat, dm \in Nat : e = Places(P)[0].em /\ dm = Places(P)[0].dm
    BY <1>0, PlaceType DEF Numbered
  <2>2. PICK x \in Nat, y \in Nat, n \in Nat : x = P[c].dmade /\ n = Sends(P[c]) /\ y = P[c + 1].dmade /\ x <= y
    <3>1. P[c] \in Counts /\ P[c + 1] \in Counts /\ Leq(P[c], P[c + 1]) /\ Sends(P[c]) \in Nat
      BY <1>0, TableStep, SendsType
    <3> QED
      BY <3>1 DEF Leq, Counts
  <2>3. y <= dm /\ n + y <= e
    BY <1>2, <2>1, <2>2, PassedReach
  <2>4. PICK d \in Nat, a \in Nat : d = y - x /\ a = n + x /\ a + d <= e /\ x + d <= dm
    <3>1. y - x \in Nat /\ n + x \in Nat
      BY <2>2
    <3>2. n + x + (y - x) <= e /\ x + (y - x) <= dm
      BY SMTT(40), <2>2, <2>3
    <3> QED
      BY <3>1, <3>2
  <2>5. Agree(U[0], U2[0], e) /\ Agree(D[1], D2[1], dm)
    BY <1>0, <2>1 DEF Grown
  <2>6. Held(U2[0], a, d) = Held(U[0], a, d)
    BY SMTT(40), <2>4, <2>5, HeldKept
  <2>7. Held(D2[1], x, d) = Held(D[1], x, d)
    <3>1. Agree(D[1], D2[1], dm) /\ x + d <= dm
      BY <2>4, <2>5
    <3>2. PICK F, G : F = D[1] /\ G = D2[1]
      OBVIOUS
    <3>3. Agree(F, G, dm)
      BY <3>1, <3>2
    <3>4. Held(G, x, d) = Held(F, x, d)
      BY <3>1, <3>3, HeldKept
    <3> QED
      BY <3>2, <3>4
  <2>8. Held(U[0], a, d) = Held(D[1], x, d)
    BY <1>2, <2>2, <2>4 DEF Passed
  <2> QED
    BY <2>2, <2>4, <2>6, <2>7, <2>8
<1> QED
  BY <1>1, <1>2 DEF Masked, Passed

\* What was returned was computed from what still is at hand.
LEMMA GrownResults ==
  ASSUME Shape, NEW P, TableOf(P), Level(Places(P)),
         NEW D, NEW T, NEW U, NEW X, NEW D2, NEW T2, NEW U2, NEW X2,
         Grown(Places(P), D, T, U, X, D2, T2, U2, X2), Flow(Places(P), U),
         Inputs(X), Using(P, D, T, X), Results(P, D, T, X)
  PROVE  Inputs(X2) /\ Using(P, D2, T2, X2) /\ Results(P, D2, T2, X2)
<1>0. program \in Programs /\ Len(Calls) \in Nat
  BY CallType DEF Shape
<1>1. ASSUME NEW s \in Server, NEW c \in 1 .. Len(Calls), Begun(s, c) PROVE X2[s][c] = X[s][c]
  BY <1>1 DEF Grown
<1>2. ASSUME NEW s \in Server, pc[s] # "idle"
      PROVE  call[s] \in 1 .. Len(Calls) /\ X2[s][call[s]] = X[s][call[s]]
  <2>1. call[s] \in 1 .. Len(Calls)
    BY <1>2, Bounds
  <2>2. PICK c \in 1 .. Len(Calls) : c = call[s]
    BY <2>1
  <2>3. Begun(s, c)
    BY <1>2, <2>2 DEF Begun
  <2> QED
    BY <1>1, <2>2, <2>3
<1>3. Inputs(X2)
  <2>1. ASSUME NEW s \in Server, pc[s] # "idle" PROVE input[s] = X2[s][call[s]]
    BY <1>2, <2>1 DEF Inputs
  <2>2. ASSUME NEW s \in Server, NEW c \in 1 .. Len(Calls), Begun(s, c) PROVE X2[s][c] \in Operands(c)
    <3>1. X[s][c] \in Operands(c)
      BY <2>2 DEF Inputs, Begun
    <3> QED
      BY <1>1, <2>2, <3>1
  <2> QED
    BY <2>1, <2>2 DEF Inputs, Begun
<1>4. Using(P, D2, T2, X2)
  <2>1. ASSUME NEW s \in Server, pc[s] = "open"
        PROVE  UsesOf(used[s], call[s], Hand(P, D2, T2, X2, s, call[s]))
    <3>1. PICK c \in 1 .. Len(Calls) : c = call[s]
      BY <1>2, <2>1
    <3>2. Taken(s, c)
      BY <2>1, <3>1 DEF Taken
    <3>3. Hand(P, D2, T2, X2, s, c) = Hand(P, D, T, X, s, c)
      BY <3>2, HandKept
    <3> QED
      BY <2>1, <3>1, <3>3 DEF Using
  <2> QED
    BY <2>1 DEF Using
<1>5. ASSUME NEW s \in Server, NEW c \in 1 .. Len(Calls), c < call[s]
      PROVE  Returned(P, D2, T2, X2, s, c)
  <2>1. Taken(s, c) /\ Begun(s, c)
    BY <1>5 DEF Taken, Begun
  <2>2. Hand(P, D2, T2, X2, s, c) = Hand(P, D, T, X, s, c)
    BY <2>1, HandKept
  <2>3. PICK t \in Server : t = Other(s)
    BY Others
  <2>4. Masks(c, Hand(P, D2, T2, X2, t, c)) = Masks(c, Hand(P, D, T, X, t, c))
    <3>1. Units(c) \in Nat
      BY <1>0, SendsStep
    <3>2. CASE Units(c) = 0
      BY <3>2, NoMasks
    <3>3. CASE Units(c) > 0
      <4>1. Taken(t, c)
        BY <1>5, <2>3, <3>3, BothTaken
      <4>2. Hand(P, D2, T2, X2, t, c) = Hand(P, D, T, X, t, c)
        BY <4>1, HandKept
      <4> QED
        BY <4>2
    <3> QED
      BY <3>1, <3>2, <3>3
  <2>5. X2[s][c] = X[s][c]
    BY <1>1, <2>1
  <2>6. Returned(P, D, T, X, s, c)
    BY <1>5 DEF Results
  <2> QED
    BY <2>2, <2>3, <2>4, <2>5, <2>6 DEF Returned
<1>6. Results(P, D2, T2, X2)
  BY <1>5 DEF Results
<1> QED
  BY <1>3, <1>4, <1>6

\* Altogether.
LEMMA GrownDescribed ==
  ASSUME NEW P, NEW D, NEW T, NEW U, NEW X, Described(P, D, T, U, X),
         NEW D2, NEW T2, NEW U2, NEW X2, Grown(Places(P), D, T, U, X, D2, T2, U2, X2)
  PROVE  Described(P, D2, T2, U2, X2)
<1>1. /\ TableOf(P) /\ Shape /\ Level(Places(P)) /\ Reading(P)
      /\ Stores(Places(P), D, T) /\ Flow(Places(P), U) /\ Good(Places(P), D, T)
      /\ Masked(P, D, T, U, X) /\ Passed(P, D, U)
      /\ Inputs(X) /\ Using(P, D, T, X) /\ Results(P, D, T, X)
  BY DEF Described
<1>2. Stores(Places(P), D2, T2) /\ Flow(Places(P), U2)
  BY <1>1, GrownQueues
<1>3. Good(Places(P), D2, T2)
  BY <1>1, GrownGood
<1>4. Masked(P, D2, T2, U2, X2) /\ Passed(P, D2, U2)
  BY <1>1, GrownMasked
<1>5. Inputs(X2) /\ Using(P, D2, T2, X2) /\ Results(P, D2, T2, X2)
  BY <1>1, GrownResults
<1> QED
  BY <1>1, <1>2, <1>3, <1>4, <1>5 DEF Described


-----------------------------------------------------------------------------
(* What a step leaves as it was *)

\* A program's own quantities.
LEMMA OfProgram ==
  ASSUME program' = program, NEW P, NEW D, NEW T, NEW X, NEW s, NEW c, NEW h, NEW f, NEW q, NEW r
  PROVE  /\ Lazy' = Lazy /\ Calls' = Calls /\ Batch' = Batch /\ Units(c)' = Units(c) /\ Size(c)' = Size(c)
         /\ Hand(P, D, T, X, s, c)' = Hand(P, D, T, X, s, c) /\ Masks(c, h)' = Masks(c, h)
         /\ MaskStart(P, s, c)' = MaskStart(P, s, c) /\ Operands(c)' = Operands(c)
         /\ Shown(c, q, r)' = Shown(c, q, r)
         /\ ResultOf(s, c, h, f, q)' <=> ResultOf(s, c, h, f, q)
         /\ UsesOf(q, c, h)' <=> UsesOf(q, c, h)
<1>1. Lazy' = Lazy /\ Calls' = Calls /\ Batch' = Batch
  BY DEF Lazy, Calls, Batch
<1>2. Size(c)' = Size(c)
  BY <1>1 DEF Size
<1>3. Units(c)' = Units(c)
  BY <1>1, <1>2 DEF Units
<1>4. Hand(P, D, T, X, s, c)' = Hand(P, D, T, X, s, c)
  BY <1>1, <1>2 DEF Hand
<1>5. Masks(c, h)' = Masks(c, h)
  BY <1>1, <1>2, <1>3 DEF Masks
<1>6. MaskStart(P, s, c)' = MaskStart(P, s, c)
  BY <1>1 DEF MaskStart, Lead
<1>7. Operands(c)' = Operands(c)
  BY <1>2 DEF Operands
<1>8. Shown(c, q, r)' = Shown(c, q, r)
  BY <1>3 DEF Shown
<1>9. ResultOf(s, c, h, f, q)' <=> ResultOf(s, c, h, f, q)
  BY <1>1, <1>2 DEF ResultOf
<1>10. UsesOf(q, c, h)' <=> UsesOf(q, c, h)
  BY <1>1, <1>2 DEF UsesOf
<1> QED
  BY <1>1, <1>2, <1>3, <1>4, <1>5, <1>6, <1>7, <1>8, <1>9, <1>10

\* What a server returned, as long as it is not changed.
LEMMA ReturnedKept ==
  ASSUME program' = program, NEW P, NEW D, NEW T, NEW X, NEW s, NEW c, done'[s][c] = done[s][c],
         Returned(P, D, T, X, s, c)
  PROVE  Returned(P, D, T, X, s, c)'
<1>1. PICK h, g, m, n, f, r :
        /\ h = Hand(P, D, T, X, s, c) /\ g = Hand(P, D, T, X, Other(s), c)
        /\ m = Masks(c, h) /\ n = Masks(c, g) /\ f = Shown(c, m, n) /\ r = done[s][c].ret
  OBVIOUS
<1>2. ResultOf(s, c, h, f, r) /\ done'[s][c].input = X[s][c]
  BY <1>1 DEF Returned
<1>3. Hand(P, D, T, X, s, c)' = h /\ Hand(P, D, T, X, Other(s), c)' = g
  BY <1>1, OfProgram
<1>4. Masks(c, h)' = m /\ Masks(c, g)' = n
  BY <1>1, OfProgram
<1>5. Shown(c, m, n)' = f
  BY <1>1, OfProgram
<1>6. ResultOf(s, c, h, f, r)'
  BY <1>2, OfProgram
<1>7. done'[s][c].ret = r
  BY <1>1
<1> QED
  BY <1>2, <1>3, <1>4, <1>5, <1>6, <1>7 DEF Returned

\* Operands, masks and results do not change in a step that begins, pops and
\* returns nothing.
Quiet ==
    /\ program' = program /\ call' = call /\ input' = input /\ used' = used /\ done' = done
    /\ \A s \in Server : (pc'[s] = "open" <=> pc[s] = "open") /\ (pc'[s] = "idle" <=> pc[s] = "idle")

\* Masks are kept when no call pops but one whose masks are described.
LEMMA MaskedStep ==
  ASSUME program' = program, NEW P, NEW D, NEW T, NEW U, NEW X, Masked(P, D, T, U, X),
         \A s \in Server : \A c \in 1 .. Len(Calls) : Taken(s, c)' =>
            Taken(s, c) \/ Held(U[s], MaskStart(P, s, c), Units(c)) = Masks(c, Hand(P, D, T, X, s, c))
  PROVE  Masked(P, D, T, U, X)'
<1>1. Calls' = Calls
  BY OfProgram
<1>2. ASSUME NEW s \in Server, NEW c \in 1 .. Len(Calls), Taken(s, c)'
      PROVE  Held(U[s], MaskStart(P, s, c)', Units(c)') = Masks(c, Hand(P, D, T, X, s, c))'
  <2>1. Held(U[s], MaskStart(P, s, c), Units(c)) = Masks(c, Hand(P, D, T, X, s, c))
    BY <1>2 DEF Masked
  <2>2. PICK h : h = Hand(P, D, T, X, s, c)
    OBVIOUS
  <2>3. Hand(P, D, T, X, s, c)' = h /\ Masks(c, h)' = Masks(c, h)
    BY <2>2, OfProgram
  <2>4. MaskStart(P, s, c)' = MaskStart(P, s, c) /\ Units(c)' = Units(c)
    BY OfProgram
  <2> QED
    BY <2>1, <2>2, <2>3, <2>4
<1> QED
  BY <1>1, <1>2 DEF Masked

\* Likewise what server 0 passed on.
LEMMA PassedStep ==
  ASSUME program' = program, NEW P, NEW D, NEW U, Passed(P, D, U),
         \A c \in 1 .. Len(Calls) : Lazy /\ Passing(c)' =>
            Passing(c) \/ Held(U[0], Sends(P[c]) + P[c].dmade, P[c + 1].dmade - P[c].dmade) =
                          Held(D[1], P[c].dmade, P[c + 1].dmade - P[c].dmade)
  PROVE  Passed(P, D, U)'
<1>1. Calls' = Calls /\ Lazy' = Lazy
  BY OfProgram
<1> QED
  BY <1>1 DEF Passed

\* A step that opens, makes and returns nothing leaves operands, uses and
\* results as the histories say.
LEMMA QuietKeeps ==
  ASSUME Quiet, NEW P, NEW D, NEW T, NEW U, NEW X,
         Masked(P, D, T, U, X), Inputs(X), Using(P, D, T, X), Results(P, D, T, X)
  PROVE  Masked(P, D, T, U, X)' /\ Inputs(X)' /\ Using(P, D, T, X)' /\ Results(P, D, T, X)'
<1>0. program' = program /\ call' = call /\ input' = input /\ used' = used /\ done' = done
  BY DEF Quiet
<1>1. Calls' = Calls
  BY <1>0, OfProgram
<1>2. ASSUME NEW s \in Server PROVE (pc'[s] = "open" <=> pc[s] = "open") /\ (pc'[s] = "idle" <=> pc[s] = "idle")
  BY DEF Quiet
<1>3. Masked(P, D, T, U, X)'
  <2>1. \A s \in Server : \A c \in 1 .. Len(Calls) : Taken(s, c)' => Taken(s, c)
    BY <1>0, <1>2 DEF Taken
  <2> QED
    BY <1>0, <2>1, MaskedStep
<1>4. Inputs(X)'
  <2>1. \A c : Operands(c)' = Operands(c)
    BY <1>0, OfProgram
  <2> QED
    BY <1>0, <1>1, <1>2, <2>1 DEF Inputs
<1>5. Using(P, D, T, X)'
  <2>1. ASSUME NEW s \in Server, pc'[s] = "open" PROVE UsesOf(used[s], call[s], Hand(P, D, T, X, s, call[s]))'
    <3>1. PICK c, h, q : c = call[s] /\ h = Hand(P, D, T, X, s, c) /\ q = used[s]
      OBVIOUS
    <3>2. UsesOf(q, c, h)
      BY <1>2, <2>1, <3>1 DEF Using
    <3>3. UsesOf(q, c, h)' /\ Hand(P, D, T, X, s, c)' = h
      BY <1>0, <3>1, <3>2, OfProgram
    <3> QED
      BY <1>0, <3>1, <3>3
  <2> QED
    BY <1>0, <2>1 DEF Using
<1>6. Results(P, D, T, X)'
  <2>1. ASSUME NEW s \in Server, NEW c \in 1 .. Len(Calls), c < call[s] PROVE Returned(P, D, T, X, s, c)'
    BY <1>0, <2>1, ReturnedKept DEF Results
  <2> QED
    BY <1>0, <1>1, <2>1 DEF Results
<1> QED
  BY <1>3, <1>4, <1>5, <1>6

\* A server that does nothing is as it was.
LEMMA PcKept ==
  ASSUME program' = program, NEW t, call'[t] = call[t], pc'[t] = pc[t], out'[t] = out[t], got'[t] = got[t], PcOK(t)
  PROVE  PcOK(t)'
<1>1. Calls' = Calls /\ Lazy' = Lazy
  BY OfProgram
<1>2. Op(t)' = Op(t)
  BY <1>1 DEF Op
<1> QED
  BY <1>1, <1>2 DEF PcOK


-----------------------------------------------------------------------------
(* Writing and reading *)

\* The queues from one server to another, as values.
Queues(q, r, o, base, em, F) ==
    /\ Window(q, base, base + Len(q), F)
    /\ Window(r, base + Len(q), base + Len(q) + Len(r), F)
    /\ Window(o, base + Len(q) + Len(r), em, F)

\* The three queues on a server's way to another partition what was emitted
\* and not yet read.
LEMMA QueueLens ==
  ASSUME NEW q, NEW r, NEW o, NEW b \in Nat, NEW e \in Nat, NEW F, Queues(q, r, o, b, e, F)
  PROVE  \E x \in Nat, y \in Nat, z \in Nat :
            x = Len(q) /\ y = Len(r) /\ z = Len(o) /\ b + x + y + z = e
<1>1. (\E S : q \in Seq(S)) /\ (\E S : r \in Seq(S)) /\ (\E S : o \in Seq(S))
  BY DEF Queues, Window
<1>2. \A z : (\E S : z \in Seq(S)) => Len(z) \in Nat
  OBVIOUS
<1>3. PICK x \in Nat, y \in Nat, z \in Nat : x = Len(q) /\ y = Len(r) /\ z = Len(o)
  BY <1>1, <1>2
<1>4. z = e - (b + x + y)
  BY <1>3 DEF Queues, Window
<1>5. b + x + y + z = e
  BY <1>4
<1> QED
  BY <1>3, <1>5

\* A unit written moves from what is to be written to the socket,
LEMMA QueueWrite ==
  ASSUME NEW q, NEW r, NEW o, NEW b \in Nat, NEW e \in Nat, NEW F, Queues(q, r, o, b, e, F), o # <<>>
  PROVE  Queues(q, Append(r, Head(o)), Tail(o), b, e, F)
<1>1. PICK x \in Nat, y \in Nat, z \in Nat : x = Len(q) /\ y = Len(r) /\ z = Len(o) /\ b + x + y + z = e
  BY QueueLens
<1>2. PICK m \in Nat, n \in Nat : m = b + x /\ n = b + x + y
  OBVIOUS
<1>3. Window(q, b, m, F) /\ Window(r, m, n, F) /\ Window(o, n, e, F)
  BY <1>1, <1>2 DEF Queues
<1>4. Head(o) = F[n + 1] /\ Window(Tail(o), n + 1, e, F)
  BY <1>3, WindowTail
<1>5. Window(Append(r, Head(o)), m, n + 1, F)
  BY <1>3, <1>4, WindowAppend
<1>6. PICK w : w = Append(r, Head(o))
  OBVIOUS
<1>7. Len(w) = n + 1 - m
  <2>1. PICK k \in Nat : k = n + 1
    OBVIOUS
  <2>2. Window(w, m, k, F)
    BY <1>5, <1>6, <2>1
  <2> QED
    BY <2>1, <2>2, WindowLen
<1>8. m + Len(w) = n + 1 /\ b + Len(q) = m
  BY <1>1, <1>2, <1>7
<1> QED
  BY <1>3, <1>4, <1>5, <1>6, <1>8 DEF Queues

\* and a unit read from the socket to what is read.
LEMMA QueueRead ==
  ASSUME NEW q, NEW r, NEW o, NEW b \in Nat, NEW e \in Nat, NEW F, Queues(q, r, o, b, e, F), r # <<>>
  PROVE  Queues(Append(q, Head(r)), Tail(r), o, b, e, F)
<1>1. PICK x \in Nat, y \in Nat, z \in Nat : x = Len(q) /\ y = Len(r) /\ z = Len(o) /\ b + x + y + z = e
  BY QueueLens
<1>2. PICK m \in Nat, n \in Nat : m = b + x /\ n = b + x + y
  OBVIOUS
<1>3. Window(q, b, m, F) /\ Window(r, m, n, F) /\ Window(o, n, e, F)
  BY <1>1, <1>2 DEF Queues
<1>4. Head(r) = F[m + 1] /\ Window(Tail(r), m + 1, n, F)
  BY <1>3, WindowTail
<1>5. Window(Append(q, Head(r)), b, m + 1, F)
  BY <1>3, <1>4, WindowAppend
<1>6. PICK w, v : w = Append(q, Head(r)) /\ v = Tail(r)
  OBVIOUS
<1>7. Len(w) = m + 1 - b /\ Len(v) = n - (m + 1)
  <2>1. PICK k \in Nat : k = m + 1
    OBVIOUS
  <2>2. Window(w, b, k, F) /\ Window(v, k, n, F)
    BY <1>4, <1>5, <1>6, <2>1
  <2> QED
    BY <2>1, <2>2, WindowLen
<1>8. b + Len(w) = m + 1 /\ b + Len(w) + Len(v) = n
  BY <1>1, <1>2, <1>7
<1> QED
  BY <1>3, <1>4, <1>5, <1>6, <1>8 DEF Queues

\* A step in which server 1 reads nothing for a top-up.
LEMMA ReadingStep ==
  ASSUME program' = program, NEW P, Reading(P),
         pc'[1] = "add" => pc[1] = "add" /\ call'[1] = call[1] /\ got'[1] = got[1]
  PROVE  Reading(P)'
<1>1. Lazy' = Lazy
  BY OfProgram
<1> QED
  BY <1>1 DEF Reading

\* Nothing but queues moves.
Unmoved == program' = program /\ call' = call /\ pc' = pc
\* A step that only moves messages between queues, in order, keeps the
\* description.
LEMMA QueuesMove ==
  ASSUME Unmoved, input' = input, dabit_store' = dabit_store, btriple_store' = btriple_store,
         used' = used, done' = done,
         NEW P, NEW D, NEW T, NEW U, NEW X, Described(P, D, T, U, X),
         DOMAIN out' = Server, DOMAIN chan' = Server, DOMAIN got' = Server,
         \A s \in Server : PcOK(s)', Reading(P)',
         \A t \in Server : \A s \in Server : s = Other(t) =>
            Queues(got'[t], chan'[t], out'[s], Places(P)[t].base, Places(P)[s].em, U[s])
  PROVE  Described(P, D, T, U, X)'
<1>0. program' = program /\ call' = call /\ pc' = pc /\ program \in Programs /\ TableOf(P) /\ Shape
  BY DEF Unmoved, Described, Shape
<1>1. \A s \in Server : Places(P)'[s] = Places(P)[s]
  BY <1>0, SamePlace
<1>2. Places(P)' = Places(P)
  BY <1>1, PlacesEqual DEF Server
<1>3. TableOf(P)'
  BY <1>0, TableKept
<1>4. Shape'
  <2>1. Calls' = Calls
    BY <1>0, OfProgram
  <2> QED
    BY <1>0, <2>1 DEF Shape
<1>5. Level(Places(P))'
  <2>1. Lazy' = Lazy
    BY <1>0, OfProgram
  <2> QED
    BY <1>2, <2>1 DEF Level, Described
<1>6. Stores(Places(P), D, T)'
  BY <1>2 DEF Stores, StoredAt, Described
<1>7. Flow(Places(P), U)'
  BY <1>2, Others DEF Flow, FlowTo, Queues
<1>8. Good(Places(P), D, T)'
  BY <1>2 DEF Good, Described
<1>9. Passed(P, D, U)'
  BY <1>0, PassedStep DEF Passing, Topped, Described
<1>10. Masked(P, D, T, U, X)' /\ Inputs(X)' /\ Using(P, D, T, X)' /\ Results(P, D, T, X)'
  <2>1. Quiet
    BY <1>0 DEF Quiet
  <2> QED
    BY <2>1, QuietKeeps DEF Described
<1> QED
  BY <1>3, <1>4, <1>5, <1>6, <1>7, <1>8, <1>9, <1>10 DEF Described

\* What there is between two servers.
LEMMA QueuesNow ==
  ASSUME NEW P, NEW U, Shape, TableOf(P), Flow(Places(P), U), NEW t \in Server, NEW s \in Server, s = Other(t)
  PROVE  /\ Queues(got[t], chan[t], out[s], Places(P)[t].base, Places(P)[s].em, U[s])
         /\ Places(P)[t].base \in Nat /\ Places(P)[s].em \in Nat
<1>1. FlowTo(Places(P)[t].base, Places(P)[s].em, t, s, U[s])
  BY DEF Flow
<1> QED
  BY <1>1, PlaceType DEF FlowTo, Queues, Numbered

\* Handing the front message to the socket keeps the description: this is
\* where the capacity bounds, and nothing depends on it.
LEMMA WriteStep ==
  ASSUME NEW P, NEW D, NEW T, NEW U, NEW X, Described(P, D, T, U, X), NEW s \in Server, Write(s)
  PROVE  Described(P, D, T, U, X)'
<1>0. Shape /\ TableOf(P) /\ Flow(Places(P), U)
  BY DEF Described
<1>1. PICK t \in Server : t = Other(s) /\ s = Other(t) /\ t # s
  BY Others
<1>2. /\ out[s] # <<>> /\ chan' = [chan EXCEPT ![t] = Append(@, Head(out[s]))]
      /\ out' = [out EXCEPT ![s] = Tail(@)]
      /\ UNCHANGED <<program, call, pc, input, dabit_store, btriple_store, used, got, done>>
  BY <1>1 DEF Write
<1>3. DOMAIN out = Server /\ DOMAIN chan = Server /\ DOMAIN got = Server /\ \A z \in Server : PcOK(z)
  BY <1>0 DEF Shape
<1>4. Unmoved
  BY <1>2 DEF Unmoved
<1>5. PcOK(s)'
  <2>1. pc[s] \notin {"idle", "add", "take"} /\ PcOK(s)
    BY <1>2, <1>3 DEF PcOK
  <2>2. Calls' = Calls /\ Lazy' = Lazy
    BY <1>2, OfProgram
  <2> QED
    BY <1>2, <2>1, <2>2 DEF PcOK, Op
<1>6. PcOK(t)'
  BY <1>1, <1>2, <1>3, PcKept
<1>7. Queues(got'[t], chan'[t], out'[s], Places(P)[t].base, Places(P)[s].em, U[s])
  <2>1. PICK b \in Nat, e \in Nat : b = Places(P)[t].base /\ e = Places(P)[s].em
    BY <1>0, <1>1, QueuesNow
  <2>0. PICK q, r, o : q = got[t] /\ r = chan[t] /\ o = out[s]
    OBVIOUS
  <2>2. Queues(q, r, o, b, e, U[s])
    BY <1>0, <1>1, <2>0, <2>1, QueuesNow
  <2>3. Queues(q, Append(r, Head(o)), Tail(o), b, e, U[s])
    BY <1>2, <2>0, <2>2, QueueWrite
  <2> QED
    BY <1>2, <1>3, <2>0, <2>1, <2>3
<1>8. Queues(got'[s], chan'[s], out'[t], Places(P)[s].base, Places(P)[t].em, U[t])
  BY <1>0, <1>1, <1>2, <1>3, QueuesNow
<1>9. \A z \in Server : z = s \/ z = t
  BY <1>1 DEF Server
<1>10. DOMAIN out' = Server /\ DOMAIN chan' = Server /\ DOMAIN got' = Server
  BY <1>2, <1>3
<1>11. \A z \in Server : PcOK(z)'
  BY <1>5, <1>6, <1>9
<1>12. \A z \in Server : \A y \in Server : y = Other(z) =>
            Queues(got'[z], chan'[z], out'[y], Places(P)[z].base, Places(P)[y].em, U[y])
  BY <1>1, <1>7, <1>8, <1>9
<1>13. Reading(P)'
  BY <1>2, ReadingStep DEF Described
<1> QED
  BY <1>2, <1>4, <1>10, <1>11, <1>12, <1>13, QueuesMove

\* Reading a unit, in a call or while its daBits come.
LEMMA UnitRead ==
  ASSUME NEW P, NEW D, NEW T, NEW U, NEW X, Described(P, D, T, U, X), NEW s \in Server,
         pc[s] = "open" \/ (pc[s] = "add" /\ Lazy /\ s = 1 /\ Op(s) \notin Multiplying),
         pc[s] = "add" => Len(got[s]) < P[call[s] + 1].dmade - P[call[s]].dmade,
         chan[s] # <<>>, got' = [got EXCEPT ![s] = Append(@, Head(chan[s]))], chan' = [chan EXCEPT ![s] = Tail(@)],
         UNCHANGED <<program, call, pc, input, dabit_store, btriple_store, used, out, done>>
  PROVE  Described(P, D, T, U, X)'
<1>0. Shape /\ TableOf(P) /\ Flow(Places(P), U)
  BY DEF Described
<1>1. PICK t \in Server : t = Other(s) /\ s = Other(t) /\ t # s
  BY Others
<1>3. DOMAIN out = Server /\ DOMAIN chan = Server /\ DOMAIN got = Server /\ \A z \in Server : PcOK(z)
  BY <1>0 DEF Shape
<1>4. Unmoved
  BY DEF Unmoved
<1>5. PcOK(s)'
  <2>1. PcOK(s)
    BY <1>3
  <2>2. Calls' = Calls /\ Lazy' = Lazy
    BY OfProgram
  <2> QED
    BY <2>1, <2>2 DEF PcOK, Op
<1>6. PcOK(t)'
  BY <1>1, <1>3, PcKept
<1>7. Queues(got'[s], chan'[s], out'[t], Places(P)[s].base, Places(P)[t].em, U[t])
  <2>1. PICK b \in Nat, e \in Nat : b = Places(P)[s].base /\ e = Places(P)[t].em
    BY <1>0, <1>1, QueuesNow
  <2>0. PICK q, r, o : q = got[s] /\ r = chan[s] /\ o = out[t]
    OBVIOUS
  <2>2. Queues(q, r, o, b, e, U[t])
    BY <1>0, <1>1, <2>0, <2>1, QueuesNow
  <2>3. Queues(Append(q, Head(r)), Tail(r), o, b, e, U[t])
    BY <2>0, <2>2, QueueRead
  <2> QED
    BY <1>3, <2>0, <2>1, <2>3
<1>8. Queues(got'[t], chan'[t], out'[s], Places(P)[t].base, Places(P)[s].em, U[s])
  BY <1>0, <1>1, <1>3, QueuesNow
<1>9. \A z \in Server : z = s \/ z = t
  BY <1>1 DEF Server
<1>10. DOMAIN out' = Server /\ DOMAIN chan' = Server /\ DOMAIN got' = Server
  BY <1>3
<1>11. \A z \in Server : PcOK(z)'
  BY <1>5, <1>6, <1>9
<1>12. \A z \in Server : \A y \in Server : y = Other(z) =>
            Queues(got'[z], chan'[z], out'[y], Places(P)[z].base, Places(P)[y].em, U[y])
  BY <1>1, <1>7, <1>8, <1>9
<1>13. Reading(P)'
  <2>1. CASE pc[s] = "open" \/ s = 0
    BY <1>3, <2>1, ReadingStep DEF Described, Server
  <2>2. CASE pc[s] = "add" /\ s = 1
    <3>1. PICK q, r : q = got[s] /\ r = Head(chan[s]) /\ got'[s] = Append(q, r)
      BY <1>3
    <3>2. PICK W : q \in Seq(W) /\ r \in W
      <4>1. PICK b \in Nat : b = Places(P)[s].base
        BY <1>0, <1>1, QueuesNow
      <4>2. PICK W : q \in Seq(W)
        BY <1>0, <1>1, <3>1, QueuesNow DEF Queues, Window
      <4>3. q \in Seq(W \cup {r}) /\ r \in W \cup {r}
        BY <4>2
      <4> QED
        BY <4>3
    <3>3. Len(Append(q, r)) = Len(q) + 1 /\ Len(q) \in Nat
      BY <3>2, AppendProperties
    <3>4. PICK n \in Nat, m \in Nat : n = P[call[s] + 1].dmade /\ m = P[call[s]].dmade
      <4>1. call[s] \in 1 .. Len(Calls)
        BY <1>0, <2>2, Bounds
      <4>2. P[call[s]] \in Counts /\ P[call[s] + 1] \in Counts
        BY <1>0, <4>1, TableStep DEF Shape
      <4> QED
        BY <4>2 DEF Counts
    <3>5. Len(got'[s]) <= n - m
      BY SMTT(40), <2>2, <3>1, <3>3, <3>4
    <3> QED
      BY <2>2, <3>4, <3>5 DEF Reading
  <2> QED
    BY <2>1, <2>2 DEF Server
<1> QED
  BY <1>4, <1>10, <1>11, <1>12, <1>13, QueuesMove

\* Taking a message off the socket keeps the description.
LEMMA ReadStep ==
  ASSUME NEW P, NEW D, NEW T, NEW U, NEW X, Described(P, D, T, U, X), NEW s \in Server, Read(s)
  PROVE  Described(P, D, T, U, X)'
<1>1. pc[s] = "open" /\ chan[s] # <<>>
  BY DEF Read
<1>2. /\ got' = [got EXCEPT ![s] = Append(@, Head(chan[s]))] /\ chan' = [chan EXCEPT ![s] = Tail(@)]
      /\ UNCHANGED <<program, call, pc, input, dabit_store, btriple_store, used, out, done>>
  BY DEF Read
<1> QED
  BY <1>1, <1>2, UnitRead

\* Nothing but what the servers are doing changes, nor where they are.
LEMMA Standing ==
  ASSUME program' = program, dabit_store' = dabit_store, btriple_store' = btriple_store,
         out' = out, chan' = chan, got' = got,
         NEW P, NEW D, NEW T, NEW U, NEW X, Described(P, D, T, U, X), Places(P)' = Places(P)
  PROVE  /\ TableOf(P)' /\ Level(Places(P))' /\ Stores(Places(P), D, T)' /\ Flow(Places(P), U)'
         /\ Good(Places(P), D, T)'
<1>0. program \in Programs /\ TableOf(P)
  BY DEF Described, Shape
<1>1. Lazy' = Lazy
  BY OfProgram
<1>2. Level(Places(P))'
  BY <1>1 DEF Level, Described
<1>3. Stores(Places(P), D, T)'
  BY DEF Stores, StoredAt, Described
<1>4. Flow(Places(P), U)'
  BY DEF Flow, FlowTo, Described
<1>5. Good(Places(P), D, T)'
  BY DEF Good, Described
<1> QED
  BY <1>0, <1>2, <1>3, <1>4, <1>5, TableKept

\* Server 0 leaving its blocking lazy send keeps the description.
LEMMA FlushedStep ==
  ASSUME NEW P, NEW D, NEW T, NEW U, NEW X, Described(P, D, T, U, X), Flushed
  PROVE  Described(P, D, T, U, X)'
<1>0. Shape /\ TableOf(P) /\ 0 \in Server /\ 1 \in Server /\ program \in Programs
  BY DEF Described, Server, Shape
<1>1. /\ pc[0] = "flush" /\ out[0] = <<>> /\ pc' = [pc EXCEPT ![0] = "take"]
      /\ UNCHANGED <<program, call, input, dabit_store, btriple_store, used, out, chan, got, done>>
  BY DEF Flushed
<1>2. /\ DOMAIN pc = Server /\ pc \in [Server -> {"idle", "add", "flush", "take", "open"}]
      /\ \A s \in Server : PcOK(s)
  BY <1>0 DEF Shape
<1>3. pc'[0] = "take" /\ pc'[1] = pc[1]
  BY <1>0, <1>1, <1>2
<1>4. Places(P)' = Places(P)
  <2>1. PICK c : c = call[0] /\ c = call'[0]
    BY <1>1
  <2>2. Places(P)[0] = PlaceOf(0, P[c + 1], P[c], P[c])
    BY <1>0, <1>1, <2>1, PlaceBy
  <2>3. Places(P)'[0] = PlaceOf(0, P[c + 1], P[c], P[c])
    BY <1>0, <1>1, <1>3, <2>1, PlaceByNext
  <2>4. Places(P)'[1] = Places(P)[1]
    BY <1>0, <1>1, <1>3, SamePlace
  <2> QED
    BY <2>2, <2>3, <2>4, PlacesEqual
<1>5. Shape'
  <2>1. Calls' = Calls /\ Lazy' = Lazy
    BY <1>1, OfProgram
  <2>2. PcOK(0)'
    <3>1. PcOK(0)
      BY <1>0, <1>2
    <3> QED
      BY <1>1, <1>3, <2>1, <3>1 DEF PcOK, Op
  <2>3. PcOK(1)'
    BY <1>0, <1>1, <1>2, <1>3, PcKept
  <2>4. pc' \in [Server -> {"idle", "add", "flush", "take", "open"}]
    BY <1>1, <1>2
  <2> QED
    BY <1>0, <1>1, <2>1, <2>2, <2>3, <2>4 DEF Shape, Server
<1>6. Passed(P, D, U)'
  BY <1>1, <1>3, PassedStep DEF Passing, Topped, Described
<1>7. Quiet
  BY <1>1, <1>3 DEF Quiet, Server
<1>8. Masked(P, D, T, U, X)' /\ Inputs(X)' /\ Using(P, D, T, X)' /\ Results(P, D, T, X)'
  BY <1>7, QuietKeeps DEF Described
<1>9. TableOf(P)' /\ Level(Places(P))' /\ Stores(Places(P), D, T)' /\ Flow(Places(P), U)' /\ Good(Places(P), D, T)'
  BY <1>1, <1>4, Standing
<1>10. Reading(P)'
  BY <1>1, <1>3, ReadingStep DEF Described
<1> QED
  BY <1>5, <1>6, <1>8, <1>9, <1>10 DEF Described


-----------------------------------------------------------------------------
(* Beginning and returning *)

\* The stores are as long as their windows.
LEMMA StoreLens ==
  ASSUME NEW P, NEW D, NEW T, Shape, TableOf(P), Stores(Places(P), D, T), NEW s \in Server
  PROVE  /\ Len(dabit_store[s]) = Places(P)[s].dm - Places(P)[s].dp
         /\ Len(btriple_store[s]) = Places(P)[s].tm - Places(P)[s].tp
  BY DEF Stores, StoredAt, Window

\* A server begins a call whose operands are X's.
LEMMA BeginStep ==
  ASSUME NEW P, NEW D, NEW T, NEW U, NEW X, Described(P, D, T, U, X), NEW s \in Server, Begin(s),
         input'[s] = X[s][call[s]], X[s][call[s]] \in Operands(call[s])
  PROVE  Described(P, D, T, U, X)'
<1>0. /\ Shape /\ TableOf(P) /\ program \in Programs /\ Len(Calls) \in Nat /\ Stores(Places(P), D, T)
  BY CallType DEF Described, Shape
<1>1. /\ pc[s] = "idle" /\ call[s] <= Len(Calls)
      /\ pc' = [pc EXCEPT ![s] = IF ToAdd(s) > 0 THEN "add" ELSE "take"]
      /\ UNCHANGED <<program, call, dabit_store, btriple_store, used, out, chan, got, done>>
      /\ \E i : input' = [input EXCEPT ![s] = i]
  BY DEF Begin
<1>2. PICK t \in Server : t = Other(s) /\ t # s
  BY Others
<1>3. /\ \A z \in Server : PcOK(z)
      /\ pc \in [Server -> {"idle", "add", "flush", "take", "open"}] /\ DOMAIN input = Server
  BY <1>0 DEF Shape
<1>4. PICK c \in 1 .. Len(Calls) : c = call[s]
  BY <1>0, <1>1 DEF Shape
<1>5. /\ ToAdd(s) \in Nat
      /\ ToAdd(s) = 0 => P[c + 1].dmade = P[c].dmade /\ P[c + 1].tmade = P[c].tmade
  <2>1. /\ Len(dabit_store[s]) = Places(P)[s].dm - Places(P)[s].dp
        /\ Len(btriple_store[s]) = Places(P)[s].tm - Places(P)[s].tp
    BY <1>0, StoreLens
  <2>2. pc[s] \in {"idle", "add"}
    BY <1>1
  <2>3. PICK a : a = ToAdd(s)
    OBVIOUS
  <2>4. /\ a \in Nat
        /\ Op(s) \in Multiplying =>
              /\ P[c + 1].dmade = P[c].dmade
              /\ P[c + 1].tmade = P[c].tmade + (IF a = 0 THEN 0 ELSE IF a > Batch THEN a ELSE Batch)
        /\ Op(s) \notin Multiplying => P[c + 1].dmade = P[c].dmade + a /\ P[c + 1].tmade = P[c].tmade
    BY <1>0, <1>4, <2>1, <2>2, <2>3, ToAddKnown
  <2>5. P[c].dmade \in Nat /\ P[c].tmade \in Nat
    <3>1. P[c] \in Counts
      BY <1>0, TableStep
    <3> QED
      BY <3>1 DEF Counts
  <2> QED
    BY <2>3, <2>4, <2>5
<1>6. pc'[s] = (IF ToAdd(s) = 0 THEN "take" ELSE "add") /\ pc'[t] = pc[t] /\ pc'[s] \in {"add", "take"}
  <2>1. ToAdd(s) > 0 <=> ToAdd(s) # 0
    BY <1>5
  <2> QED
    BY <1>1, <1>2, <1>3, <2>1
<1>7. \A z \in Server : z = s \/ z = t
  BY <1>2 DEF Server
<1>8. Calls' = Calls /\ Lazy' = Lazy
  BY <1>1, OfProgram
<1>9. input'[t] = input[t] /\ DOMAIN input' = Server
  BY <1>1, <1>2, <1>3
<1>10. Places(P)' = Places(P)
  <2>1. Places(P)[s] = PlaceOf(s, P[c], P[c], P[c])
    BY <1>1, <1>4, PlaceBy
  <2>2. Places(P)'[s] = PlaceOf(s, P[c], P[c], P[c])
    <3>0. call'[s] = c
      BY <1>1, <1>4
    <3>1. CASE ToAdd(s) = 0
      <4>1. Places(P)'[s] = PlaceOf(s, P[c + 1], P[c], P[c])
        BY <1>1, <1>6, <3>0, <3>1, PlaceByNext
      <4> QED
        BY <1>5, <3>1, <4>1 DEF PlaceOf, Lead, Lag
    <3>2. CASE ToAdd(s) # 0
      BY <1>1, <1>6, <3>0, <3>2, PlaceByNext
    <3> QED
      BY <3>1, <3>2
  <2>3. Places(P)'[t] = Places(P)[t]
    BY <1>1, <1>6, SamePlace
  <2> QED
    BY <1>7, <2>1, <2>2, <2>3, PlacesEqual DEF Server
<1>11. Shape'
  <2>1. PcOK(s)'
    <3>1. PcOK(s)
      BY <1>3
    <3> QED
      BY <1>1, <1>4, <1>6, <1>8, <3>1 DEF PcOK, Op
  <2>2. PcOK(t)'
    BY <1>1, <1>3, <1>6, PcKept
  <2>3. pc' \in [Server -> {"idle", "add", "flush", "take", "open"}]
    BY <1>1, <1>3
  <2>4. \A z \in Server : PcOK(z)'
    BY <1>7, <2>1, <2>2
  <2> QED
    BY <1>0, <1>1, <1>8, <1>9, <2>3, <2>4 DEF Shape
<1>12. Passed(P, D, U)'
  <2>1. ASSUME NEW d \in 1 .. Len(Calls), Passing(d)', ~Passing(d)
        PROVE  Held(U[0], Sends(P[d]) + P[d].dmade, P[d + 1].dmade - P[d].dmade) =
               Held(D[1], P[d].dmade, P[d + 1].dmade - P[d].dmade)
    <3>1. s = 0 /\ d = c /\ pc'[s] = "take"
      <4>1. call' = call
        BY <1>1
      <4>2. d = call[0] /\ Topped(0)' /\ ~Topped(0)
        BY <2>1, <4>1 DEF Passing
      <4>3. s = 0
        BY <1>6, <1>7, <4>2 DEF Topped, Server
      <4> QED
        BY <1>4, <1>6, <4>2, <4>3 DEF Topped
    <3>2. P[c + 1].dmade = P[c].dmade /\ P[c].dmade \in Nat
      <4>1. P[c] \in Counts
        BY <1>0, TableStep
      <4> QED
        BY <1>5, <1>6, <3>1, <4>1 DEF Counts
    <3>3. P[c + 1].dmade - P[c].dmade = 0
      BY <3>2
    <3>4. \A F, a : Held(F, a, 0) = <<>>
      BY DEF Held
    <3> QED
      BY <3>1, <3>3, <3>4
  <2> QED
    BY <1>1, <2>1, PassedStep DEF Described
<1>13. Masked(P, D, T, U, X)'
  <2>1. \A z \in Server : \A d \in 1 .. Len(Calls) : Taken(z, d)' => Taken(z, d)
    BY <1>1, <1>6, <1>7 DEF Taken
  <2> QED
    BY <1>1, <2>1, MaskedStep DEF Described
<1>14. Inputs(X)'
  <2>0. \A d : Operands(d)' = Operands(d)
    BY <1>1, OfProgram
  <2>1. ASSUME NEW z \in Server, pc'[z] # "idle" PROVE input'[z] = X[z][call'[z]]
    BY <1>1, <1>6, <1>7, <1>9, <2>1 DEF Inputs, Described
  <2>2. ASSUME NEW z \in Server, NEW d \in 1 .. Len(Calls), d < call'[z] \/ (d = call'[z] /\ pc'[z] # "idle")
        PROVE  X[z][d] \in Operands(d)
    <3>1. CASE z = s /\ d = c
      BY <1>4, <3>1
    <3>2. CASE ~(z = s /\ d = c)
      BY <1>1, <1>4, <1>6, <1>7, <2>2, <3>2 DEF Inputs, Described
    <3> QED
      BY <3>1, <3>2
  <2> QED
    BY <1>8, <2>0, <2>1, <2>2 DEF Inputs
<1>15. Using(P, D, T, X)'
  <2>1. ASSUME NEW z \in Server, pc'[z] = "open" PROVE UsesOf(used[z], call[z], Hand(P, D, T, X, z, call[z]))'
    <3>0. pc[z] = "open"
      BY <1>6, <1>7, <2>1
    <3>1. PICK d, h, q : d = call[z] /\ h = Hand(P, D, T, X, z, d) /\ q = used[z]
      OBVIOUS
    <3>2. UsesOf(q, d, h)
      BY <3>0, <3>1 DEF Using, Described
    <3>3. UsesOf(q, d, h)' /\ Hand(P, D, T, X, z, d)' = h
      BY <1>1, <3>1, <3>2, OfProgram
    <3> QED
      BY <1>1, <3>1, <3>3
  <2> QED
    BY <1>1, <2>1 DEF Using
<1>16. Results(P, D, T, X)'
  <2>1. ASSUME NEW z \in Server, NEW d \in 1 .. Len(Calls), d < call[z] PROVE Returned(P, D, T, X, z, d)'
    BY <1>1, <2>1, ReturnedKept DEF Results, Described
  <2> QED
    BY <1>1, <1>8, <2>1 DEF Results, Described
<1>17. TableOf(P)' /\ Level(Places(P))' /\ Stores(Places(P), D, T)' /\ Flow(Places(P), U)' /\ Good(Places(P), D, T)'
  BY <1>1, <1>10, Standing
<1>18. Reading(P)'
  <2>1. CASE s = 1
    <3>1. got'[1] = <<>> /\ call'[1] = c
      BY <1>1, <1>3, <1>4, <2>1 DEF PcOK
    <3>2. PICK n \in Nat, m \in Nat : n = P[c + 1].dmade /\ m = P[c].dmade /\ m <= n
      <4>1. P[c] \in Counts /\ P[c + 1] \in Counts /\ Leq(P[c], P[c + 1])
        BY <1>0, TableStep
      <4> QED
        BY <4>1 DEF Counts, Leq
    <3>3. Len(<<>>) <= n - m
      BY <3>2
    <3> QED
      BY <3>1, <3>2, <3>3 DEF Reading
  <2>2. CASE s # 1
    <3>1. t = 1
      BY <1>7, <2>2 DEF Server
    <3> QED
      BY <1>1, <1>6, <3>1, ReadingStep DEF Described
  <2> QED
    BY <2>1, <2>2
<1> QED
  BY <1>11, <1>12, <1>13, <1>14, <1>15, <1>16, <1>17, <1>18 DEF Described

\* What a server returns is put after what it returned.
LEMMA ReturnedNext ==
  ASSUME NEW P, NEW D, NEW T, NEW X, NEW s \in Server, NEW c \in 1 .. Len(Calls), c = call[s], NEW ret,
         Return(s, ret), program' = program, program \in Programs, DOMAIN done = Server, DOMAIN call = Server,
         Results(P, D, T, X), input[s] = X[s][c],
         ResultOf(s, c, Hand(P, D, T, X, s, c),
                  Shown(c, Masks(c, Hand(P, D, T, X, s, c)), Masks(c, Hand(P, D, T, X, Other(s), c))), ret)
  PROVE  Results(P, D, T, X)'
<1>0. Len(Calls) \in Nat /\ Calls' = Calls
  BY CallType, OfProgram
<1>1. PICK r : r = [input |-> input[s], ret |-> ret]
  OBVIOUS
<1>2. done' = [done EXCEPT ![s] = Append(@, r)] /\ call' = [call EXCEPT ![s] = @ + 1]
  BY <1>1 DEF Return
<1>3. PICK q : q = done[s] /\ (\E S : q \in Seq(S)) /\ Len(q) = c - 1
  BY DEF Results
<1>4. /\ \E S : Append(q, r) \in Seq(S)
      /\ Len(Append(q, r)) = c /\ Append(q, r)[c] = r
      /\ \A k \in 1 .. c - 1 : Append(q, r)[k] = q[k]
  <2>1. PICK S : q \in Seq(S)
    BY <1>3
  <2>2. PICK W : W = S \cup {r}
    OBVIOUS
  <2>3. q \in Seq(W) /\ r \in W
    BY <2>1, <2>2
  <2>4. /\ Append(q, r) \in Seq(W) /\ Len(Append(q, r)) = Len(q) + 1
        /\ \A i \in 1 .. Len(q) : Append(q, r)[i] = q[i]
        /\ Append(q, r)[Len(q) + 1] = r
    BY <2>3, AppendProperties
  <2>5. c - 1 + 1 = c
    OBVIOUS
  <2> QED
    BY <1>3, <2>4, <2>5
<1>5. done'[s] = Append(q, r) /\ call'[s] = c + 1
  BY <1>2, <1>3
<1>6. PICK t \in Server : t = Other(s) /\ t # s
  BY Others
<1>7. done'[t] = done[t] /\ call'[t] = call[t]
  BY <1>2, <1>6
<1>8. \A z \in Server : z = s \/ z = t
  BY <1>6 DEF Server
<1>9. ASSUME NEW d \in 1 .. Len(Calls), d < c + 1 PROVE Returned(P, D, T, X, s, d)'
  <2>1. CASE d = c
    <3>1. PICK h, g, m, n, f :
        /\ h = Hand(P, D, T, X, s, c) /\ g = Hand(P, D, T, X, Other(s), c)
        /\ m = Masks(c, h) /\ n = Masks(c, g) /\ f = Shown(c, m, n)
      OBVIOUS
    <3>2. Hand(P, D, T, X, s, c)' = h /\ Hand(P, D, T, X, Other(s), c)' = g
      BY <3>1, OfProgram
    <3>3. Masks(c, h)' = m /\ Masks(c, g)' = n
      BY <3>1, OfProgram
    <3>6. Shown(c, m, n)' = f
      BY <3>1, OfProgram
    <3>4. ResultOf(s, c, h, f, ret)'
      BY <3>1, OfProgram
    <3>5. done'[s][c].input = X[s][c] /\ done'[s][c].ret = ret
      BY <1>1, <1>4, <1>5
    <3> QED
      BY <2>1, <3>2, <3>3, <3>4, <3>5, <3>6 DEF Returned
  <2>2. CASE d # c
    <3>1. d \in 1 .. c - 1 /\ d < call[s]
      BY <1>9, <2>2
    <3>2. done'[s][d] = done[s][d] /\ Returned(P, D, T, X, s, d)
      BY <1>3, <1>4, <1>5, <3>1 DEF Results
    <3> QED
      BY <3>2, ReturnedKept
  <2> QED
    BY <2>1, <2>2
<1>10. ASSUME NEW d \in 1 .. Len(Calls), d < call[t] PROVE Returned(P, D, T, X, t, d)'
  BY <1>7, <1>10, ReturnedKept DEF Results
<1>11. Len(done'[s]) = call'[s] - 1 /\ Len(done'[t]) = call'[t] - 1
  BY <1>4, <1>5, <1>7 DEF Results
<1>12. (\E S : done'[s] \in Seq(S)) /\ (\E S : done'[t] \in Seq(S))
  BY <1>4, <1>5, <1>7 DEF Results
<1> QED
  BY <1>0, <1>5, <1>7, <1>8, <1>9, <1>10, <1>11, <1>12 DEF Results

\* Nothing is left of what a call read.
LEMMA QueueDrop ==
  ASSUME NEW q, NEW r, NEW o, NEW b \in Nat, NEW e \in Nat, NEW F, Queues(q, r, o, b, e, F)
  PROVE  Queues(<<>>, r, o, b + Len(q), e, F)
<1>1. PICK x \in Nat, y \in Nat, z \in Nat : x = Len(q) /\ y = Len(r) /\ z = Len(o)
  BY QueueLens
<1>2. PICK m \in Nat, n \in Nat : m = b + x /\ n = b + x + y
  OBVIOUS
<1>3. Window(r, m, n, F) /\ Window(o, n, e, F)
  BY <1>1, <1>2 DEF Queues
<1>4. Window(<<>>, m, m, F)
  BY EmptyWindow
<1>5. b + Len(q) = m /\ m + 0 = m /\ m + Len(r) = n /\ Len(<<>>) = 0 /\ m + 0 + Len(r) = n
  BY <1>1, <1>2
<1> QED
  BY <1>3, <1>4, <1>5 DEF Queues

\* A server returns, whatever it has read used up.
LEMMA Returning ==
  ASSUME NEW P, NEW D, NEW T, NEW U, NEW X, Described(P, D, T, U, X), NEW s \in Server,
         NEW c \in 1 .. Len(Calls), c = call[s], NEW ret, Return(s, ret),
         pc[s] = "open" \/ (pc[s] = "take" /\ Calls[c].op \notin Opening),
         out[s] = <<>>, Len(got[s]) = Units(c),
         got'[s] = <<>>, got'[Other(s)] = got[Other(s)], DOMAIN got' = Server,
         DOMAIN used' = Server, used'[Other(s)] = used[Other(s)],
         UNCHANGED <<program, input, dabit_store, btriple_store, out, chan>>,
         ResultOf(s, c, Hand(P, D, T, X, s, c),
                  Shown(c, Masks(c, Hand(P, D, T, X, s, c)), Masks(c, Hand(P, D, T, X, Other(s), c))), ret)
  PROVE  Described(P, D, T, U, X)'
<1>0. /\ Shape /\ TableOf(P) /\ program \in Programs /\ Len(Calls) \in Nat
  BY CallType DEF Described, Shape
<1>1. PICK t \in Server : t = Other(s) /\ s = Other(t) /\ t # s
  BY Others
<1>2. \A z \in Server : z = s \/ z = t
  BY <1>1 DEF Server
<1>3. /\ \A z \in Server : PcOK(z)
      /\ pc \in [Server -> {"idle", "add", "flush", "take", "open"}]
      /\ call \in [Server -> 1 .. Len(Calls) + 1]
      /\ DOMAIN call = Server /\ DOMAIN done = Server /\ DOMAIN out = Server /\ DOMAIN chan = Server /\ DOMAIN got = Server
  BY <1>0 DEF Shape
<1>4. Calls' = Calls /\ Lazy' = Lazy
  BY OfProgram
<1>5. /\ pc' = [pc EXCEPT ![s] = "idle"] /\ call' = [call EXCEPT ![s] = @ + 1]
      /\ \E r : done' = [done EXCEPT ![s] = r]
  BY DEF Return
<1>6. pc'[s] = "idle" /\ pc'[t] = pc[t] /\ call'[s] = c + 1 /\ call'[t] = call[t] /\ got'[s] = <<>> /\ got'[t] = got[t]
  BY <1>1, <1>3, <1>5
<1>7. PICK u \in Nat : u = Units(c)
  BY <1>0, SendsStep
<1>8. Moved(Places(P)[s], Places(P)'[s], 0, 0, 0, 0, 0, u) /\ Places(P)'[t] = Places(P)[t]
  <2>1. PICK d : d = c + 1 /\ d = call'[s]
    BY <1>6
  <2>2. Places(P)'[s] = PlaceOf(s, P[c + 1], P[c + 1], P[c + 1])
    BY <1>6, <2>1, PlaceByNext
  <2>3. Places(P)'[t] = Places(P)[t]
    BY <1>6, SamePlace
  <2>4. CASE pc[s] = "open"
    <3>1. Places(P)[s] = PlaceOf(s, P[c + 1], P[c + 1], P[c])
      BY <2>4, PlaceBy
    <3> QED
      BY <1>0, <1>7, <2>2, <2>3, <3>1, ReturnMove
  <2>5. CASE pc[s] = "take" /\ Calls[c].op \notin Opening
    <3>1. Places(P)[s] = PlaceOf(s, P[c + 1], P[c], P[c])
      BY <2>5, PlaceBy
    <3>2. Places(P)'[s] = Places(P)[s]
      BY <1>0, <2>2, <2>5, <3>1, ReturnMove
    <3>3. u = 0
      BY <1>7, <2>5 DEF Units, Opening
    <3>4. Moved(Places(P)[s], Places(P)[s], 0, 0, 0, 0, 0, 0)
      BY <1>0, PlaceType, NotMoved
    <3> QED
      BY <2>3, <3>2, <3>3, <3>4
  <2> QED
    BY <2>4, <2>5
<1>9. /\ Places(P)'[s].dm = Places(P)[s].dm /\ Places(P)'[s].tm = Places(P)[s].tm
      /\ Places(P)'[s].dp = Places(P)[s].dp /\ Places(P)'[s].tp = Places(P)[s].tp
      /\ Places(P)'[s].em = Places(P)[s].em /\ Places(P)'[s].base = Places(P)[s].base + u
  <2>1. PICK a \in Nat, b \in Nat, d \in Nat, e \in Nat, f \in Nat, g \in Nat :
           /\ a = Places(P)[s].dm /\ b = Places(P)[s].tm /\ d = Places(P)[s].dp /\ e = Places(P)[s].tp
           /\ f = Places(P)[s].em /\ g = Places(P)[s].base
    BY <1>0, PlaceType DEF Numbered
  <2>2. /\ Places(P)'[s].dm = a + 0 /\ Places(P)'[s].tm = b + 0 /\ Places(P)'[s].dp = d + 0
        /\ Places(P)'[s].tp = e + 0 /\ Places(P)'[s].em = f + 0 /\ Places(P)'[s].base = g + u
    BY <1>8, <2>1 DEF Moved
  <2> QED
    BY <2>1, <2>2
<1>10. Shape'
  <2>1. PcOK(s)'
    BY <1>4, <1>6, <1>1 DEF PcOK
  <2>2. PcOK(t)'
    BY <1>3, <1>6, PcKept
  <2>3. pc' \in [Server -> {"idle", "add", "flush", "take", "open"}]
    BY <1>3, <1>5
  <2>4. call' \in [Server -> 1 .. Len(Calls) + 1]
    <3>1. c + 1 \in 1 .. Len(Calls) + 1
      BY <1>0
    <3> QED
      BY <1>3, <1>5, <3>1
  <2>5. \A z \in Server : PcOK(z)'
    BY <1>2, <2>1, <2>2
  <2>6. DOMAIN done' = Server
    BY <1>3, <1>5
  <2> QED
    BY <1>0, <1>4, <2>3, <2>4, <2>5, <2>6 DEF Shape
<1>11. Level(Places(P))'
  BY <1>2, <1>4, <1>8, <1>9 DEF Level, Described, Server
<1>12. Stores(Places(P), D, T)'
  <2>1. StoredAt(Places(P)[s], s, D, T)'
    BY <1>9 DEF Stores, StoredAt, Described
  <2>2. StoredAt(Places(P)[t], t, D, T)'
    BY <1>8 DEF Stores, StoredAt, Described
  <2> QED
    BY <1>2, <2>1, <2>2 DEF Stores
<1>13. Good(Places(P), D, T)'
  <2>1. Places(P)'[0].dm = Places(P)[0].dm /\ Places(P)'[0].tm = Places(P)[0].tm
    BY <1>2, <1>8, <1>9 DEF Server
  <2> QED
    BY <2>1 DEF Good, Described
<1>14. Flow(Places(P), U)'
  <2>0. Flow(Places(P), U)
    BY DEF Described
  <2>1. Queues(got'[t], chan'[t], out'[s], Places(P)'[t].base, Places(P)'[s].em, U[s])
    BY <1>0, <1>1, <1>6, <1>8, <1>9, <2>0, QueuesNow
  <2>2. Queues(got'[s], chan'[s], out'[t], Places(P)'[s].base, Places(P)'[t].em, U[t])
    <3>1. PICK b \in Nat, e \in Nat : b = Places(P)[s].base /\ e = Places(P)[t].em
      BY <1>0, <1>1, <2>0, QueuesNow
    <3>2. PICK q, r, o : q = got[s] /\ r = chan[s] /\ o = out[t]
      OBVIOUS
    <3>3. Queues(q, r, o, b, e, U[t])
      BY <1>0, <1>1, <2>0, <3>1, <3>2, QueuesNow
    <3>4. Queues(<<>>, r, o, b + Len(q), e, U[t])
      BY <3>3, QueueDrop
    <3>5. Places(P)'[s].base = b + Len(q) /\ Places(P)'[t].em = e
      BY <1>7, <1>8, <1>9, <3>1, <3>2
    <3> QED
      BY <1>6, <3>2, <3>4, <3>5
  <2> QED
    BY <1>1, <1>2, <2>1, <2>2 DEF Flow, FlowTo, Queues
<1>15. Masked(P, D, T, U, X)'
  <2>1. ASSUME NEW z \in Server, NEW d \in 1 .. Len(Calls), Taken(z, d)', ~Taken(z, d)
        PROVE  Held(U[z], MaskStart(P, z, d), Units(d)) = Masks(d, Hand(P, D, T, X, z, d))
    <3>1. z = s /\ d = c /\ pc[s] # "open"
      <4>1. z = s
        BY <1>2, <1>6, <2>1 DEF Taken
      <4>2. d < c + 1 /\ ~(d < c) /\ ~(d = c /\ pc[s] = "open")
        BY <1>6, <2>1, <4>1 DEF Taken
      <4> QED
        BY <4>1, <4>2
    <3>2. Units(c) = 0
      BY <3>1 DEF Units, Opening
    <3> QED
      BY <3>1, <3>2 DEF Held, Masks
  <2> QED
    BY <2>1, MaskedStep DEF Described
<1>16. Passed(P, D, U)'
  <2>1. ASSUME NEW d \in 1 .. Len(Calls), Passing(d)' PROVE Passing(d)
    <3>1. CASE s = 0
      <4>1. d < c + 1 /\ Topped(0)
        BY <1>6, <2>1, <3>1 DEF Passing, Topped
      <4>2. d < c \/ d = c
        BY <4>1
      <4> QED
        BY <3>1, <4>1, <4>2 DEF Passing
    <3>2. CASE t = 0
      BY <1>6, <2>1, <3>2 DEF Passing, Topped
    <3> QED
      BY <1>2, <3>1, <3>2 DEF Server
  <2> QED
    BY <2>1, PassedStep DEF Described
<1>17. Inputs(X)'
  <2>0. \A d : Operands(d)' = Operands(d)
    BY OfProgram
  <2>1. ASSUME NEW z \in Server, pc'[z] # "idle" PROVE input'[z] = X[z][call'[z]]
    BY <1>2, <1>6, <2>1 DEF Inputs, Described
  <2>2. ASSUME NEW z \in Server, NEW d \in 1 .. Len(Calls), d < call'[z] \/ (d = call'[z] /\ pc'[z] # "idle")
        PROVE  X[z][d] \in Operands(d)
    <3>1. CASE z = s
      <4>1. d < c \/ d = c
        BY <1>6, <2>2, <3>1
      <4>2. pc[s] # "idle"
        OBVIOUS
      <4> QED
        BY <3>1, <4>1, <4>2 DEF Inputs, Described
    <3>2. CASE z = t
      BY <1>6, <2>2, <3>2 DEF Inputs, Described
    <3> QED
      BY <1>2, <3>1, <3>2
  <2> QED
    BY <1>4, <2>0, <2>1, <2>2 DEF Inputs
<1>18. Using(P, D, T, X)'
  <2>1. ASSUME NEW z \in Server, pc'[z] = "open" PROVE UsesOf(used[z], call[z], Hand(P, D, T, X, z, call[z]))'
    <3>0. z = t /\ pc[z] = "open" /\ used'[z] = used[z] /\ call'[z] = call[z]
      BY <1>1, <1>2, <1>6, <2>1
    <3>1. PICK d, h, q : d = call[z] /\ h = Hand(P, D, T, X, z, d) /\ q = used[z]
      OBVIOUS
    <3>2. UsesOf(q, d, h)
      BY <3>0, <3>1 DEF Using, Described
    <3>3. UsesOf(q, d, h)' /\ Hand(P, D, T, X, z, d)' = h
      BY <3>1, <3>2, OfProgram
    <3> QED
      BY <3>0, <3>1, <3>3
  <2> QED
    BY <2>1 DEF Using
<1>19. Results(P, D, T, X)'
  <2>1. pc[s] # "idle"
    OBVIOUS
  <2>2. input[s] = X[s][c] /\ Results(P, D, T, X)
    BY <2>1 DEF Inputs, Described
  <2> QED
    BY <1>0, <1>3, <2>2, ReturnedNext
<1>20. Reading(P)'
  BY <1>2, <1>6, ReadingStep DEF Described, Server
<1> QED
  BY <1>20, <1>0, <1>10, <1>11, <1>12, <1>13, <1>14, <1>15, <1>16, <1>17, <1>18, <1>19, TableKept DEF Described

\* A call on the caches alone returns.
LEMMA CheckedStep ==
  ASSUME NEW P, NEW D, NEW T, NEW U, NEW X, Described(P, D, T, U, X), NEW s \in Server, Checked(s)
  PROVE  Described(P, D, T, U, X)'
<1>0. Shape /\ TableOf(P) /\ program \in Programs /\ DOMAIN got = Server /\ DOMAIN used = Server /\ PcOK(s)
  BY DEF Described, Shape
<1>1. /\ pc[s] = "take" /\ Op(s) \in {"update", "checkDaBits"} /\ Return(s, <<>>)
      /\ UNCHANGED <<program, input, dabit_store, btriple_store, used, out, chan, got>>
  BY DEF Checked
<1>2. PICK c \in 1 .. Len(Calls) : c = call[s]
  BY <1>0, <1>1 DEF PcOK
<1>3. Calls[c].op \in {"update", "checkDaBits"} /\ Calls[c].op \notin Opening
  BY <1>1, <1>2 DEF Op, Opening, Converting, Multiplying
<1>4. out[s] = <<>> /\ got[s] = <<>>
  BY <1>0, <1>1 DEF PcOK
<1>5. Units(c) = 0 /\ Len(got[s]) = Units(c)
  BY <1>3, <1>4 DEF Units, Opening
<1>6. got'[s] = <<>> /\ got'[Other(s)] = got[Other(s)] /\ DOMAIN got' = Server
  BY <1>0, <1>1, <1>4
<1>7. ResultOf(s, c, Hand(P, D, T, X, s, c),
               Shown(c, Masks(c, Hand(P, D, T, X, s, c)), Masks(c, Hand(P, D, T, X, Other(s), c))), <<>>)
  BY <1>3 DEF ResultOf
<1>8. DOMAIN used' = Server /\ used'[Other(s)] = used[Other(s)]
  BY <1>0, <1>1
<1>9. UNCHANGED <<program, input, dabit_store, btriple_store, out, chan>>
  BY <1>1
<1>10. PICK r : r = <<>>
  OBVIOUS
<1>11. /\ Return(s, r)
       /\ ResultOf(s, c, Hand(P, D, T, X, s, c),
                   Shown(c, Masks(c, Hand(P, D, T, X, s, c)), Masks(c, Hand(P, D, T, X, Other(s), c))), r)
  BY <1>1, <1>7, <1>10
<1>12. pc[s] = "open" \/ (pc[s] = "take" /\ Calls[c].op \notin Opening)
  BY <1>1, <1>3
<1> QED
  BY <1>2, <1>4, <1>5, <1>6, <1>8, <1>9, <1>11, <1>12, Returning


-----------------------------------------------------------------------------
(* Masked operands, and what finishing a call makes of them *)

\* Two lists of bits, one after the other.
LEMMA JoinBits ==
  ASSUME NEW n \in Nat, NEW f \in [1 .. n -> BOOLEAN], NEW g \in [1 .. n -> BOOLEAN]
  PROVE  /\ f \o g \in Seq(BOOLEAN) /\ Len(f \o g) = 2 * n
         /\ \A k \in 1 .. 2 * n : (f \o g)[k] = IF k <= n THEN f[k] ELSE g[k - n]
<1>1. f \in Seq(BOOLEAN) /\ g \in Seq(BOOLEAN) /\ Len(f) = n /\ Len(g) = n
  OBVIOUS
<1>2. /\ f \o g \in Seq(BOOLEAN) /\ Len(f \o g) = Len(f) + Len(g)
      /\ \A i \in 1 .. Len(f) + Len(g) : (f \o g)[i] = IF i <= Len(f) THEN f[i] ELSE g[i - Len(f)]
  BY <1>1, ConcatProperties
<1>3. n + n = 2 * n
  OBVIOUS
<1> QED
  BY <1>1, <1>2, <1>3

\* A server's current call.
LEMMA CallNow ==
  ASSUME program \in Programs, NEW s, NEW c \in 1 .. Len(Calls), c = call[s]
  PROVE  /\ Op(s) = Calls[c].op /\ Widths(s) = Calls[c].widths /\ N(Widths(s)) = Size(c) /\ Size(c) \in Nat
         /\ Calls[c].op \in Opening => ToRead(s) = Units(c)
<1>1. Op(s) = Calls[c].op /\ Widths(s) = Calls[c].widths /\ N(Widths(s)) = Size(c)
  BY DEF Op, Widths, Size
<1>2. PICK n \in Nat : n = Size(c)
  BY CallType
<1>3. ASSUME Calls[c].op \in Opening PROVE ToRead(s) = Units(c)
  <2>1. CASE Calls[c].op \in Multiplying
    <3>1. Units(c) = 0 + 2 * n /\ ToRead(s) = 2 * n
      BY <1>1, <1>2, <2>1 DEF Units, ToRead, Converting, Multiplying
    <3> QED
      BY <3>1
  <2>2. CASE Calls[c].op \notin Multiplying
    <3>1. Units(c) = n + 0 /\ ToRead(s) = n
      BY <1>1, <1>2, <1>3, <2>2 DEF Units, ToRead, Opening, Multiplying
    <3> QED
      BY <3>1
  <2> QED
    BY <2>1, <2>2
<1> QED
  BY <1>1, <1>2, <1>3

\* What a server opens of operands i with entries q.
OwnMasks(c, i, q) ==
    IF Calls[c].op = "multiplyBoolShares"
    THEN [k \in 1 .. Size(c) |-> i.x[k] # q[k].a] \o [k \in 1 .. Size(c) |-> i.y[k] # q[k].b]
    ELSE [k \in 1 .. Size(c) |-> i.x[k] # q[k].b2]

\* What a server sends of its operands is what the description calls its masks.
LEMMA OwnMasksAre ==
  ASSUME program \in Programs, NEW c \in 1 .. Len(Calls), Calls[c].op \in Opening,
         NEW h, NEW q, UsesOf(q, c, h)
  PROVE  /\ OwnMasks(c, h.x, q) \in Seq(BOOLEAN) /\ Len(OwnMasks(c, h.x, q)) = Units(c)
         /\ \A k \in 1 .. Units(c) : OwnMasks(c, h.x, q)[k] = Masks(c, h)[k]
<1>1. PICK n \in Nat : n = Size(c)
  BY CallType
<1>2. CASE Calls[c].op \in Multiplying
  <2>1. Units(c) = 2 * n
    <3>1. Units(c) = 0 + 2 * n
      BY <1>1, <1>2 DEF Units, Converting, Multiplying
    <3> QED
      BY <3>1
  <2>2. PICK f \in [1 .. n -> BOOLEAN], g \in [1 .. n -> BOOLEAN] :
           f = [k \in 1 .. n |-> h.x.x[k] # q[k].a] /\ g = [k \in 1 .. n |-> h.x.y[k] # q[k].b]
    OBVIOUS
  <2>3. OwnMasks(c, h.x, q) = f \o g
    BY <1>1, <1>2, <2>2 DEF OwnMasks, Multiplying
  <2>4. \A k \in 1 .. n : q[k] = h.t[k]
    BY <1>1, <1>2 DEF UsesOf
  <2>5. ASSUME NEW k \in 1 .. 2 * n PROVE (f \o g)[k] = Masks(c, h)[k]
    <3>1. (f \o g)[k] = IF k <= n THEN f[k] ELSE g[k - n]
      BY JoinBits
    <3>2. Masks(c, h)[k] = IF k <= n THEN h.x.x[k] # h.t[k].a ELSE h.x.y[k - n] # h.t[k - n].b
      BY <1>1, <1>2, <2>1 DEF Masks
    <3>3. CASE k <= n
      <4>1. k \in 1 .. n
        BY <3>3
      <4>2. f[k] = (h.x.x[k] # h.t[k].a)
        BY <2>2, <2>4, <4>1
      <4> QED
        BY <3>1, <3>2, <3>3, <4>2
    <3>4. CASE ~(k <= n)
      <4>1. PICK j \in 1 .. n : j = k - n
        BY <3>4
      <4>2. g[j] = (h.x.y[j] # h.t[j].b)
        BY <2>2, <2>4, <4>1
      <4> QED
        BY <3>1, <3>2, <3>4, <4>1, <4>2
    <3> QED
      BY <3>3, <3>4
  <2>6. f \o g \in Seq(BOOLEAN) /\ Len(f \o g) = 2 * n
    BY JoinBits
  <2> QED
    BY <2>1, <2>3, <2>5, <2>6
<1>3. CASE Calls[c].op \notin Multiplying
  <2>1. Units(c) = n
    <3>1. Units(c) = n + 0
      BY <1>1, <1>3 DEF Units, Opening
    <3> QED
      BY <3>1
  <2>2. PICK f \in [1 .. n -> BOOLEAN] : f = [k \in 1 .. n |-> h.x.x[k] # q[k].b2]
    OBVIOUS
  <2>3. OwnMasks(c, h.x, q) = f
    BY <1>1, <1>3, <2>2 DEF OwnMasks, Multiplying
  <2>4. \A k \in 1 .. n : q[k] = h.d[k]
    BY <1>1, <1>3 DEF UsesOf, Opening
  <2>5. ASSUME NEW k \in 1 .. n PROVE f[k] = Masks(c, h)[k]
    BY <1>1, <1>3, <2>1, <2>2, <2>4 DEF Masks
  <2>6. f \in Seq(BOOLEAN) /\ Len(f) = n
    OBVIOUS
  <2> QED
    BY <2>1, <2>3, <2>5, <2>6
<1> QED
  BY <1>2, <1>3

\* What a call has read is what the other server masked.
LEMMA ReadMasks ==
  ASSUME NEW P, NEW D, NEW T, NEW U, NEW X, Described(P, D, T, U, X), NEW s \in Server,
         NEW c \in 1 .. Len(Calls), c = call[s], pc[s] = "open", Len(got[s]) = Units(c)
  PROVE  \A k \in 1 .. Units(c) : got[s][k] = Masks(c, Hand(P, D, T, X, Other(s), c))[k]
<1>0. Shape /\ TableOf(P) /\ program \in Programs /\ Flow(Places(P), U) /\ Masked(P, D, T, U, X)
  BY DEF Described, Shape
<1>1. PICK t \in Server : t = Other(s) /\ s = Other(t)
  BY Others
<1>2. PICK u \in Nat : u = Units(c)
  BY <1>0, SendsStep
<1>3. PICK b \in Nat, e \in Nat : b = Places(P)[s].base /\ e = Places(P)[t].em
  BY <1>0, <1>1, QueuesNow
<1>4. PICK q, r, o : q = got[s] /\ r = chan[s] /\ o = out[t]
  OBVIOUS
<1>5. Queues(q, r, o, b, e, U[t])
  BY <1>0, <1>1, <1>3, <1>4, QueuesNow
<1>6. b + u <= e
  <2>1. PICK x \in Nat, y \in Nat, z \in Nat : x = Len(q) /\ y = Len(r) /\ z = Len(o) /\ b + x + y + z = e
    BY <1>5, QueueLens
  <2>2. x = u
    BY <1>2, <1>4, <2>1
  <2> QED
    BY <2>1, <2>2
<1>7. Window(q, b, b + u, U[t])
  BY <1>2, <1>4, <1>5 DEF Queues
<1>8. b = MaskStart(P, t, c)
  <2>1. Places(P)[s] = PlaceOf(s, P[c + 1], P[c + 1], P[c])
    BY PlaceBy
  <2>2. b = Sends(P[c]) + Lag(s, P[c + 1])
    BY <1>3, <2>1 DEF PlaceOf
  <2>3. Lead(t, P[c + 1]) = Lag(s, P[c + 1])
    BY <1>1, Others DEF Lead, Lag
  <2> QED
    BY <2>2, <2>3 DEF MaskStart
<1>9. ASSUME NEW k \in 1 .. u PROVE got[s][k] = Masks(c, Hand(P, D, T, X, t, c))[k]
  <2>1. u > 0
    OBVIOUS
  <2>2. Taken(t, c)
    <3>1. PICK n \in Nat : n = b + u
      OBVIOUS
    <3>2. n <= Places(P)[t].em /\ n >= MaskStart(P, t, c) + Units(c)
      BY <1>2, <1>3, <1>6, <1>8, <3>1
    <3> QED
      BY <1>0, <1>2, <2>1, <3>2, ReadReach
  <2>3. Held(U[t], b, u) = Masks(c, Hand(P, D, T, X, t, c))
    BY <1>0, <1>2, <1>8, <2>2 DEF Masked
  <2>4. Held(U[t], b, u)[k] = U[t][b + k]
    BY DEF Held
  <2>5. q[k] = U[t][b + k]
    <3>1. PICK n \in Nat : n = b + u /\ n - b = u
      OBVIOUS
    <3>2. Window(q, b, n, U[t]) /\ k \in 1 .. n - b
      BY <1>7, <3>1
    <3> QED
      BY <3>2, WindowAt
  <2> QED
    BY <1>4, <2>3, <2>4, <2>5
<1> QED
  BY <1>1, <1>2, <1>9


-----------------------------------------------------------------------------
(* Adding up by weight *)

Weighable(s, o, n) == \A j \in 1 .. n : Converted(s, o + j, Opened(s, o + j)) \in Int
WeighPath(s, o, n, path) ==
    /\ path \in [0 .. n -> Int] /\ path[0] = 0
    /\ \A j \in 1 .. n :
         path[j] = (path[j - 1] + Converted(s, o + j, Opened(s, o + j)) * 2 ^ (j - 1)) % Modulus

\* A value's converted bits are added up one by one, each sum reduced.
LEMMA WeightedRec ==
  ASSUME NEW n \in Nat, NEW s, NEW o, Weighable(s, o, n)
  PROVE  \E path : WeighPath(s, o, n, path) /\ Weighted(s, o, n) = path[n]
<1> DEFINE Order == [j \in 1 .. n |-> j]
           D == DOMAIN Order
           Step(sum, j) == (sum + Converted(s, o + j, Opened(s, o + j)) * 2 ^ (j - 1)) % Modulus
           Fix(h) == [z \in SUBSET D |-> IF z = {} THEN 0 ELSE LET x == Max(z) IN
                        (h[z \ {x}] + Converted(s, o + Order[x], Opened(s, o + Order[x])) * 2 ^ (Order[x] - 1)) % Modulus]
           fold == CHOOSE h : h = Fix(h)
<1>1. Weighted(s, o, n) = fold[D]
  BY DEF Weighted, FoldLeft, MapThenFoldSet
<1>0. D = 1 .. n /\ \A j \in 1 .. n : Order[j] = j
  OBVIOUS
<1>2. PICK G : G = [j \in 1 .. n |-> [v \in Int |-> Step(v, j)]]
  OBVIOUS
<1>3. Folding(n, Int, 0, G)
  <2>1. ASSUME NEW j \in 1 .. n, NEW v \in Int PROVE Step(v, j) \in Int
    <3>1. PICK a \in Int : a = Converted(s, o + j, Opened(s, o + j))
      BY DEF Weighable
    <3>2. PICK p \in Int : p = 2 ^ (j - 1)
      <4>1. j - 1 \in Nat
        OBVIOUS
      <4> QED
        BY <4>1, Pow
    <3>3. PICK z \in Int : z = v + a * p
      OBVIOUS
    <3>4. PICK m \in Nat \ {0} : m = Modulus
      BY StoreAssumption
    <3>5. z % m \in 0 .. m - 1
      BY ModRange
    <3>6. z % m \in Int
      BY <3>5
    <3> QED
      BY <3>1, <3>2, <3>3, <3>4, <3>6
  <2> HIDE DEF Step
  <2> QED
    BY <1>2, <2>1 DEF Folding
<1>4. fold = Fix(fold)
  <2>1. PICK iter : iter \in [SUBSET (1 .. n) -> Int] /\ Folded(n, Int, 0, G, iter)
    BY <1>3, FoldExists
  <2>2. ASSUME NEW z \in SUBSET D PROVE iter[z] = Fix(iter)[z]
    <3>1. CASE z = {}
      BY <2>1, <3>1 DEF Folded
    <3>2. CASE z # {}
      <4>1. Max(z) \in 1 .. n /\ z \ {Max(z)} \in SUBSET (1 .. n)
        BY <1>0, <3>2, MaxIn
      <4>2. iter[z] = Step(iter[z \ {Max(z)}], Order[Max(z)])
        BY <1>0, <1>2, <2>1, <3>2, <4>1 DEF Folded
      <4> QED
        BY <3>2, <4>2
    <3> QED
      BY <3>1, <3>2
  <2>3. iter = Fix(iter)
    BY <1>0, <2>1, <2>2
  <2> HIDE DEF Fix
  <2> QED
    BY <2>3, Zenon
<1> HIDE DEF fold
<1>5. Folded(n, Int, 0, G, fold)
  <2>1. fold[{}] = 0
    BY <1>4
  <2>2. ASSUME NEW z \in SUBSET (1 .. n), z # {}, fold[z \ {Max(z)}] \in Int
        PROVE  fold[z] = G[Max(z)][fold[z \ {Max(z)}]]
    <3>1. Max(z) \in 1 .. n
      BY <2>2, MaxIn
    <3>2. fold[z] = Step(fold[z \ {Max(z)}], Order[Max(z)])
      BY <1>0, <1>4, <2>2
    <3> QED
      BY <1>0, <1>2, <2>2, <3>1, <3>2
  <2> QED
    BY <2>1, <2>2 DEF Folded
<1>6. PICK part : PartSums(n, Int, 0, G, part) /\ fold[1 .. n] = part[n]
  BY <1>3, <1>5, FoldPrefixes
<1>7. part \in [0 .. n -> Int] /\ part[0] = 0
  BY <1>6 DEF PartSums
<1>8. ASSUME NEW j \in 1 .. n PROVE part[j] = Step(part[j - 1], j)
  <2>1. part[j - 1] \in Int
    BY <1>7
  <2> QED
    BY <1>2, <1>6, <2>1 DEF PartSums
<1> QED
  BY <1>0, <1>1, <1>6, <1>7, <1>8 DEF WeighPath

OpenPath(c, o, n, path) ==
    /\ path \in [0 .. n -> Int] /\ path[0] = 0
    /\ \A j \in 1 .. n : path[j] = path[j - 1] + Value(OpenX(c, o + j)) * 2 ^ (j - 1)

\* So is what a value opens to.
LEMMA OpenValueRec ==
  ASSUME NEW c, NEW v, NEW n \in Nat, n = Calls[c].widths[v], NEW o, o = Offset(Calls[c].widths, v)
  PROVE  \E path : OpenPath(c, o, n, path) /\ OpenValue(c, v) = path[n]
<1> DEFINE Order == [j \in 1 .. n |-> j]
           D == DOMAIN Order
           Step(sum, j) == sum + Value(OpenX(c, o + j)) * 2 ^ (j - 1)
           Fix(h) == [z \in SUBSET D |-> IF z = {} THEN 0 ELSE LET x == Max(z) IN
                        h[z \ {x}] + Value(OpenX(c, o + Order[x])) * 2 ^ (Order[x] - 1)]
           fold == CHOOSE h : h = Fix(h)
<1>1. OpenValue(c, v) = fold[D]
  BY DEF OpenValue, FoldLeft, MapThenFoldSet
<1>0. D = 1 .. n /\ \A j \in 1 .. n : Order[j] = j
  OBVIOUS
<1>2. PICK G : G = [j \in 1 .. n |-> [w \in Int |-> Step(w, j)]]
  OBVIOUS
<1>3. Folding(n, Int, 0, G)
  <2>1. ASSUME NEW j \in 1 .. n, NEW w \in Int PROVE Step(w, j) \in Int
    <3>1. PICK a \in Int : a = Value(OpenX(c, o + j))
      BY DEF Value
    <3>2. PICK p \in Int : p = 2 ^ (j - 1)
      <4>1. j - 1 \in Nat
        OBVIOUS
      <4> QED
        BY <4>1, Pow
    <3>3. w + a * p \in Int
      OBVIOUS
    <3> QED
      BY <3>1, <3>2, <3>3
  <2> HIDE DEF Step
  <2> QED
    BY <1>2, <2>1 DEF Folding
<1>4. fold = Fix(fold)
  <2>1. PICK iter : iter \in [SUBSET (1 .. n) -> Int] /\ Folded(n, Int, 0, G, iter)
    BY <1>3, FoldExists
  <2>2. ASSUME NEW z \in SUBSET D PROVE iter[z] = Fix(iter)[z]
    <3>1. CASE z = {}
      BY <2>1, <3>1 DEF Folded
    <3>2. CASE z # {}
      <4>1. Max(z) \in 1 .. n /\ z \ {Max(z)} \in SUBSET (1 .. n)
        BY <1>0, <3>2, MaxIn
      <4>2. iter[z] = Step(iter[z \ {Max(z)}], Order[Max(z)])
        BY <1>0, <1>2, <2>1, <3>2, <4>1 DEF Folded
      <4> QED
        BY <3>2, <4>2
    <3> QED
      BY <3>1, <3>2
  <2>3. iter = Fix(iter)
    BY <1>0, <2>1, <2>2
  <2> HIDE DEF Fix
  <2> QED
    BY <2>3, Zenon
<1> HIDE DEF fold
<1>5. Folded(n, Int, 0, G, fold)
  <2>1. fold[{}] = 0
    BY <1>4
  <2>2. ASSUME NEW z \in SUBSET (1 .. n), z # {}, fold[z \ {Max(z)}] \in Int
        PROVE  fold[z] = G[Max(z)][fold[z \ {Max(z)}]]
    <3>1. Max(z) \in 1 .. n
      BY <2>2, MaxIn
    <3>2. fold[z] = Step(fold[z \ {Max(z)}], Order[Max(z)])
      BY <1>0, <1>4, <2>2
    <3> QED
      BY <1>0, <1>2, <2>2, <3>1, <3>2
  <2> QED
    BY <2>1, <2>2 DEF Folded
<1>6. PICK part : PartSums(n, Int, 0, G, part) /\ fold[1 .. n] = part[n]
  BY <1>3, <1>5, FoldPrefixes
<1>7. part \in [0 .. n -> Int] /\ part[0] = 0
  BY <1>6 DEF PartSums
<1>8. ASSUME NEW j \in 1 .. n PROVE part[j] = Step(part[j - 1], j)
  <2>1. part[j - 1] \in Int
    BY <1>7
  <2> QED
    BY <1>2, <1>6, <2>1 DEF PartSums
<1> QED
  BY <1>0, <1>1, <1>6, <1>7, <1>8 DEF OpenPath

\* What a call pops are the two halves of the same entries.
LEMMA HandPairs ==
  ASSUME NEW P, NEW D, NEW T, NEW U, NEW X, Described(P, D, T, U, X), NEW s \in Server,
         NEW c \in 1 .. Len(Calls), Taken(s, c), NEW k \in 1 .. Size(c)
  PROVE  /\ Calls[c].op \in Converting =>
              DaBitPair(Hand(P, D, T, X, 0, c).d[k], Hand(P, D, T, X, 1, c).d[k])
         /\ Calls[c].op \in Multiplying =>
              TriplePair(Hand(P, D, T, X, 0, c).t[k], Hand(P, D, T, X, 1, c).t[k])
<1>0. /\ Shape /\ TableOf(P) /\ program \in Programs /\ Level(Places(P)) /\ Good(Places(P), D, T)
      /\ 0 \in Server
  BY DEF Described, Shape, Server
<1>1. PICK n \in Nat : n = Size(c)
  BY <1>0, CallType
<1>2. PICK a \in Nat, b \in Nat : a = P[c].dpos /\ b = P[c].tpos
  <2>1. P[c] \in Counts
    BY <1>0, TableStep
  <2> QED
    BY <2>1 DEF Counts
<1>3. PICK dm \in Nat, tm \in Nat : dm = Places(P)[0].dm /\ tm = Places(P)[0].tm
  BY <1>0, PlaceType DEF Numbered
<1>4. P[c + 1].dpos <= dm /\ P[c + 1].tpos <= tm
  BY <1>0, <1>3, TakenReach
<1>5. /\ P[c + 1].dpos = a + (IF Calls[c].op \in Converting THEN n ELSE 0)
      /\ P[c + 1].tpos = b + (IF Calls[c].op \in Multiplying THEN n ELSE 0)
  BY <1>0, <1>1, <1>2, SendsStep
<1>6. k \in 1 .. n
  BY <1>1
<1>7. ASSUME Calls[c].op \in Converting
      PROVE  DaBitPair(Hand(P, D, T, X, 0, c).d[k], Hand(P, D, T, X, 1, c).d[k])
  <2>1. a + n <= dm
    BY <1>4, <1>5, <1>7
  <2>2. a + k \in 1 .. dm
    BY <1>6, <2>1
  <2>3. DaBitPair(D[0][a + k], D[1][a + k])
    BY <1>0, <1>3, <2>2 DEF Good
  <2>4. Hand(P, D, T, X, 0, c).d[k] = D[0][a + k] /\ Hand(P, D, T, X, 1, c).d[k] = D[1][a + k]
    BY <1>1, <1>2, <1>6, <1>7 DEF Hand, Held
  <2> QED
    BY <2>3, <2>4
<1>8. ASSUME Calls[c].op \in Multiplying
      PROVE  TriplePair(Hand(P, D, T, X, 0, c).t[k], Hand(P, D, T, X, 1, c).t[k])
  <2>1. b + n <= tm
    BY <1>4, <1>5, <1>8
  <2>2. b + k \in 1 .. tm
    BY <1>6, <2>1
  <2>3. TriplePair(T[0][b + k], T[1][b + k])
    BY <1>0, <1>3, <2>2 DEF Good
  <2>4. Hand(P, D, T, X, 0, c).t[k] = T[0][b + k] /\ Hand(P, D, T, X, 1, c).t[k] = T[1][b + k]
    BY <1>1, <1>2, <1>6, <1>8 DEF Hand, Held
  <2> QED
    BY <2>3, <2>4
<1> QED
  BY <1>7, <1>8

\* A server's converted bit is an integer.
LEMMA ConvertedInt ==
  ASSUME NEW s \in Server, NEW b \in Nat, NEW v PROVE ConvertedOf(s, b, v) \in Int
<1>1. PICK m \in Nat \ {0} : m = Modulus
  BY StoreAssumption
<1>2. PICK z \in Int : z = s - b
  BY DEF Server
<1>3. z % m \in 0 .. m - 1
  BY ModRange
<1> QED
  BY <1>1, <1>2, <1>3 DEF ConvertedOf

\* Returning from a call keeps the description: what was read is the other
\* server's masks of the same call, so the result is the one described.
LEMMA FinishStep ==
  ASSUME NEW P, NEW D, NEW T, NEW U, NEW X, Described(P, D, T, U, X), NEW s \in Server, Finish(s)
  PROVE  Described(P, D, T, U, X)'
<1>0. /\ Shape /\ TableOf(P) /\ program \in Programs /\ Len(Calls) \in Nat /\ PcOK(s)
      /\ DOMAIN used = Server /\ DOMAIN got = Server
  BY CallType DEF Described, Shape
<1>1. /\ pc[s] = "open" /\ Len(got[s]) = ToRead(s) /\ out[s] = <<>>
      /\ used' = [used EXCEPT ![s] = <<>>] /\ got' = [got EXCEPT ![s] = <<>>]
      /\ UNCHANGED <<program, input, dabit_store, btriple_store, out, chan>>
  BY DEF Finish
<1>2. PICK c \in 1 .. Len(Calls) : c = call[s]
  BY <1>0, <1>1 DEF PcOK
<1>3. PICK n \in Nat : n = Size(c)
  BY <1>0, CallType
<1>4. /\ Op(s) = Calls[c].op /\ Widths(s) = Calls[c].widths /\ N(Widths(s)) = n
      /\ Calls[c].op \in Opening => ToRead(s) = Units(c)
  BY <1>0, <1>2, <1>3, CallNow
<1>5. Calls[c].op \in Opening /\ Len(got[s]) = Units(c)
  BY <1>0, <1>1, <1>4 DEF PcOK
<1>6. PICK h, g, f : /\ h = Hand(P, D, T, X, s, c) /\ g = Hand(P, D, T, X, Other(s), c)
                     /\ f = Shown(c, Masks(c, h), Masks(c, g))
  OBVIOUS
<1>7. PICK i, q : i = input[s] /\ q = used[s]
  OBVIOUS
<1>8. i = h.x /\ UsesOf(q, c, h)
  BY <1>1, <1>2, <1>6, <1>7 DEF Inputs, Using, Hand, Described
<1>9. ASSUME NEW k \in 1 .. Units(c) PROVE Opened(s, k) = f[k]
  <2>1. Mine(s) = OwnMasks(c, i, q)
    BY <1>3, <1>4, <1>7 DEF Mine, OwnMasks
  <2>2. OwnMasks(c, i, q)[k] = Masks(c, h)[k]
    BY <1>0, <1>5, <1>8, OwnMasksAre
  <2>3. got[s][k] = Masks(c, g)[k]
    BY <1>1, <1>2, <1>5, <1>6, ReadMasks
  <2>4. f[k] = (Masks(c, h)[k] # Masks(c, g)[k])
    BY <1>6 DEF Shown
  <2> QED
    BY <2>1, <2>2, <2>3, <2>4 DEF Opened
<1>10. Taken(s, c)
  BY <1>1, <1>2 DEF Taken
<1>11. PICK ret : /\ Return(s, ret)
                  /\ ret = CASE Op(s) = "multiplyBoolShares" ->
                                  [k \in 1 .. n |-> Product(s, k, Opened(s, k), Opened(s, n + k))]
                             [] Op(s) = "b2a_daBit_single" ->
                                  [k \in 1 .. n |-> Converted(s, k, Opened(s, k))]
                             [] Op(s) = "b2a_daBit_multi" ->
                                  [v \in DOMAIN Widths(s) |-> Weighted(s, Offset(Widths(s), v), Widths(s)[v])]
  BY <1>4 DEF Finish
<1>12. ASSUME Calls[c].op \in Converting, NEW k \in 1 .. n
       PROVE  /\ \A v : Converted(s, k, v) = ConvertedOf(s, h.d[k].bp, v)
              /\ h.d[k].bp \in Nat /\ Opened(s, k) = f[k]
  <2>1. q[k] = h.d[k]
    BY <1>3, <1>8, <1>12 DEF UsesOf
  <2>2. \A v : Converted(s, k, v) = ConvertedOf(s, h.d[k].bp, v)
    BY <1>7, <2>1 DEF Converted, ConvertedOf
  <2>3. h.d[k] \in DaBit
    <3>1. DaBitPair(Hand(P, D, T, X, 0, c).d[k], Hand(P, D, T, X, 1, c).d[k])
      BY <1>3, <1>10, <1>12, HandPairs
    <3> QED
      BY <1>6, <3>1 DEF DaBitPair, Server
  <2>4. k \in 1 .. Units(c)
    <3>1. Units(c) = n + 0
      BY <1>3, <1>12 DEF Units, Converting, Multiplying
    <3> QED
      BY <3>1
  <2> QED
    BY <1>9, <2>2, <2>3, <2>4 DEF DaBit
<1>13. ASSUME Calls[c].op = "multiplyBoolShares"
       PROVE  /\ DOMAIN ret = 1 .. n
              /\ \A k \in 1 .. n :
                   ret[k] = ProductOf(s, h.t[k], h.x.x[k], h.x.y[k], f[k], f[n + k])
  <2>0. ret = [k \in 1 .. n |-> Product(s, k, Opened(s, k), Opened(s, n + k))]
    BY <1>4, <1>11, <1>13
  <2>1. ASSUME NEW k \in 1 .. n PROVE ret[k] = ProductOf(s, h.t[k], h.x.x[k], h.x.y[k], f[k], f[n + k])
    <3>1. Units(c) = 0 + 2 * n
      BY <1>3, <1>13 DEF Units, Converting, Multiplying
    <3>2. k \in 1 .. Units(c) /\ n + k \in 1 .. Units(c)
      BY <3>1
    <3>3. Opened(s, k) = f[k] /\ Opened(s, n + k) = f[n + k]
      BY <1>9, <3>2
    <3>4. q[k] = h.t[k]
      BY <1>3, <1>8, <1>13 DEF UsesOf, Multiplying
    <3>5. \A d, e : Product(s, k, d, e) = ProductOf(s, h.t[k], h.x.x[k], h.x.y[k], d, e)
      BY <1>7, <1>8, <3>4 DEF Product, ProductOf
    <3> QED
      BY <2>0, <3>3, <3>5
  <2> QED
    BY <2>0, <2>1
<1>14. ASSUME Calls[c].op = "b2a_daBit_single"
       PROVE  /\ DOMAIN ret = 1 .. n
              /\ \A k \in 1 .. n : ret[k] = ConvertedOf(s, h.d[k].bp, f[k])
  <2>0. ret = [k \in 1 .. n |-> Converted(s, k, Opened(s, k))]
    BY <1>4, <1>11, <1>14
  <2>1. Calls[c].op \in Converting
    BY <1>14 DEF Converting
  <2> QED
    BY <1>12, <2>0, <2>1
<1>15. ASSUME Calls[c].op = "b2a_daBit_multi"
       PROVE  /\ DOMAIN ret = DOMAIN Calls[c].widths
              /\ \A v \in DOMAIN Calls[c].widths : \E path :
                   /\ ConvertPath(s, h, Offset(Calls[c].widths, v), Calls[c].widths[v], f, path)
                   /\ ret[v] = path[Calls[c].widths[v]]
  <2>0. ret = [v \in DOMAIN Widths(s) |-> Weighted(s, Offset(Widths(s), v), Widths(s)[v])]
    BY <1>4, <1>11, <1>15
  <2>1. Calls[c].op \in Converting
    BY <1>15 DEF Converting
  <2>2. PICK w \in Seq(Nat) : w = Calls[c].widths
    <3>1. program.calls \in Seq([op : CallOps, widths : Seq(Nat)])
      BY <1>0, CallsAssumption
    <3>2. Calls[c] \in [op : CallOps, widths : Seq(Nat)]
      BY <3>1, ElementOfSeq DEF Calls
    <3> QED
      BY <3>2
  <2>3. ASSUME NEW v \in DOMAIN w
        PROVE  \E path : ConvertPath(s, h, Offset(w, v), w[v], f, path) /\ ret[v] = path[w[v]]
    <3>1. PICK m \in Nat : m = w[v]
      BY ElementOfSeq, LenProperties
    <3>2. N(w) = n
      BY <1>3, <2>2 DEF Size
    <3>3. PICK o : o = Offset(w, v)
      OBVIOUS
    <3>4. ASSUME NEW j \in 1 .. m PROVE o + j \in 1 .. n
      BY <3>1, <3>2, <3>3, OffsetFits
    <3>5. ASSUME NEW j \in 1 .. m
          PROVE  /\ Converted(s, o + j, Opened(s, o + j)) = ConvertedOf(s, h.d[o + j].bp, f[o + j])
                 /\ ConvertedOf(s, h.d[o + j].bp, f[o + j]) \in Int
      <4>1. PICK k \in 1 .. n : k = o + j
        BY <3>4
      <4>2. /\ \A x : Converted(s, k, x) = ConvertedOf(s, h.d[k].bp, x)
            /\ h.d[k].bp \in Nat /\ Opened(s, k) = f[k]
        BY <1>12, <2>1
      <4>3. ConvertedOf(s, h.d[k].bp, f[k]) \in Int
        BY <4>2, ConvertedInt
      <4> QED
        BY <4>1, <4>2, <4>3
    <3>6. PICK path : WeighPath(s, o, m, path) /\ Weighted(s, o, m) = path[m]
      <4>1. Weighable(s, o, m)
        BY <3>5 DEF Weighable
      <4> QED
        BY <4>1, WeightedRec
    <3>7. ConvertPath(s, h, o, m, f, path)
      BY <3>5, <3>6 DEF ConvertPath, WeighPath
    <3>8. ret[v] = Weighted(s, o, m)
      BY <1>4, <2>0, <2>2, <3>1, <3>3
    <3> QED
      BY <3>1, <3>3, <3>6, <3>7, <3>8
  <2> QED
    BY <1>4, <2>0, <2>2, <2>3
<1>16. ResultOf(s, c, h, f, ret)
  BY <1>3, <1>13, <1>14, <1>15 DEF ResultOf
<1>17. DOMAIN used' = Server /\ used'[Other(s)] = used[Other(s)]
  BY <1>0, <1>1, Others
<1>18. got'[s] = <<>> /\ got'[Other(s)] = got[Other(s)] /\ DOMAIN got' = Server
  BY <1>0, <1>1, Others
<1>19. UNCHANGED <<program, input, dabit_store, btriple_store, out, chan>>
  BY <1>1
<1>20. ResultOf(s, c, Hand(P, D, T, X, s, c),
                Shown(c, Masks(c, Hand(P, D, T, X, s, c)), Masks(c, Hand(P, D, T, X, Other(s), c))), ret)
  BY <1>6, <1>16
<1> QED
  BY <1>1, <1>2, <1>5, <1>11, <1>17, <1>18, <1>19, <1>20, Returning


-----------------------------------------------------------------------------
(* Popping *)

\* What is to be written goes after what was sent.
LEMMA QueueFill ==
  ASSUME NEW q, NEW r, NEW o, NEW b \in Nat, NEW e \in Nat, NEW e2 \in Nat, NEW F,
         Queues(q, r, <<>>, b, e, F), Window(o, e, e2, F)
  PROVE  Queues(q, r, o, b, e2, F)
<1>1. PICK x \in Nat, y \in Nat, z \in Nat : x = Len(q) /\ y = Len(r) /\ z = Len(<<>>) /\ b + x + y + z = e
  BY QueueLens
<1>2. b + x + y = e
  BY <1>1
<1>3. Window(q, b, b + Len(q), F) /\ Window(r, b + Len(q), b + Len(q) + Len(r), F)
  BY DEF Queues
<1>4. b + Len(q) + Len(r) = e
  BY <1>1, <1>2
<1> QED
  BY <1>3, <1>4 DEF Queues

\* What a call pops of a store, and what it leaves.
LEMMA PopsWindow ==
  ASSUME NEW q, NEW a \in Nat, NEW b \in Nat, NEW F, Window(q, a, b, F), NEW n \in Nat, a + n <= b
  PROVE  /\ Window(Pop(q, n), a + n, b, F)
         /\ \A k \in 1 .. n : SubSeq(q, 1, n)[k] = Held(F, a, n)[k]
<1>1. PICK m \in Nat : m = a + n /\ m - a = n
  OBVIOUS
<1>2. Window(SubSeq(q, 1, n), a, m, F) /\ Window(Pop(q, n), m, b, F)
  BY <1>1, WindowPop
<1>3. ASSUME NEW k \in 1 .. n PROVE SubSeq(q, 1, n)[k] = Held(F, a, n)[k]
  <2>1. PICK w : w = SubSeq(q, 1, n)
    OBVIOUS
  <2>2. k \in 1 .. m - a
    BY <1>1
  <2>3. Window(w, a, m, F)
    BY <1>2, <2>1
  <2>4. w[k] = F[a + k]
    BY <2>2, <2>3, WindowAt
  <2> QED
    BY <2>1, <2>4 DEF Held
<1> QED
  BY <1>1, <1>2, <1>3

\* A server pops what it has at hand and masks its operands with it.
LEMMA TakeStep ==
  ASSUME NEW P, NEW D, NEW T, NEW U, NEW X, Described(P, D, T, U, X), NEW s \in Server, Take(s),
         NEW c \in 1 .. Len(Calls), c = call[s],
         Held(U[s], Places(P)[s].em, Units(c)) = Masks(c, Hand(P, D, T, X, s, c))
  PROVE  Described(P, D, T, U, X)'
<1>0. /\ Shape /\ TableOf(P) /\ program \in Programs /\ PcOK(s) /\ Stores(Places(P), D, T) /\ Flow(Places(P), U)
      /\ DOMAIN used = Server /\ DOMAIN out = Server /\ DOMAIN dabit_store = Server /\ DOMAIN btriple_store = Server
      /\ pc \in [Server -> {"idle", "add", "flush", "take", "open"}] /\ \A z \in Server : PcOK(z)
  BY DEF Described, Shape
<1>1. /\ pc[s] = "take" /\ Op(s) \in Opening
      /\ pc' = [pc EXCEPT ![s] = "open"]
      /\ UNCHANGED <<program, call, input, chan, got, done>>
  BY DEF Take, Opening, Converting, Multiplying
<1>2. PICK t \in Server : t = Other(s) /\ s = Other(t) /\ t # s
  BY Others
<1>3. \A z \in Server : z = s \/ z = t
  BY <1>2 DEF Server
<1>4. PICK n \in Nat : n = Size(c)
  BY <1>0, CallType
<1>5. Op(s) = Calls[c].op /\ N(Widths(s)) = n
  BY <1>0, <1>4, CallNow
<1>6. PICK u \in Nat, x \in Nat, y \in Nat :
         /\ u = Units(c) /\ x = (IF Calls[c].op \in Converting THEN n ELSE 0)
         /\ y = (IF Calls[c].op \in Multiplying THEN n ELSE 0)
  BY <1>0, SendsStep
<1>7. PICK h : h = Hand(P, D, T, X, s, c)
  OBVIOUS
<1>8. PICK dm \in Nat, tm \in Nat, dp \in Nat, tp \in Nat, em \in Nat, base \in Nat :
         /\ dm = Places(P)[s].dm /\ tm = Places(P)[s].tm /\ dp = Places(P)[s].dp /\ tp = Places(P)[s].tp
         /\ em = Places(P)[s].em /\ base = Places(P)[s].base
  BY <1>0, PlaceType DEF Numbered
<1>9. dp + x <= dm /\ tp + y <= tm
  BY <1>0, <1>1, <1>4, <1>6, <1>8, EnoughMade
<1>10. Places(P)[s] = PlaceOf(s, P[c + 1], P[c], P[c])
  BY <1>1, PlaceBy
<1>11. dp = P[c].dpos /\ tp = P[c].tpos /\ em = MaskStart(P, s, c)
  BY <1>8, <1>10 DEF PlaceOf, MaskStart
<1>12. h.x = input[s] /\ h.d = Held(D[s], dp, x) /\ h.t = Held(T[s], tp, y)
  <2>1. input[s] = X[s][c]
    BY <1>1 DEF Inputs, Described
  <2> QED
    BY <1>4, <1>6, <1>7, <1>11, <2>1 DEF Hand
<1>13. Window(dabit_store[s], dp, dm, D[s]) /\ Window(btriple_store[s], tp, tm, T[s])
  BY <1>0, <1>8 DEF Stores, StoredAt
<1>14. /\ Window(dabit_store'[s], dp + x, dm, D[s]) /\ Window(btriple_store'[s], tp + y, tm, T[s])
       /\ UsesOf(used'[s], c, h) /\ out'[s] = OwnMasks(c, h.x, used'[s])
       /\ DOMAIN used' = Server /\ DOMAIN out' = Server
       /\ DOMAIN dabit_store' = Server /\ DOMAIN btriple_store' = Server
       /\ dabit_store'[t] = dabit_store[t] /\ btriple_store'[t] = btriple_store[t]
       /\ used'[t] = used[t] /\ out'[t] = out[t]
  <2>1. CASE Calls[c].op \in Multiplying
    <3>1. x = 0 /\ y = n
      BY <1>6, <2>1 DEF Converting, Multiplying
    <3>2. /\ used' = [used EXCEPT ![s] = SubSeq(btriple_store[s], 1, n)]
          /\ btriple_store' = [btriple_store EXCEPT ![s] = Pop(@, n)]
          /\ out' = [out EXCEPT ![s] = [k \in 1 .. n |-> input[s].x[k] # used'[s][k].a] \o
                                       [k \in 1 .. n |-> input[s].y[k] # used'[s][k].b]]
          /\ dabit_store' = dabit_store
      BY <1>5, <2>1 DEF Take, Multiplying
    <3>3. /\ Window(Pop(btriple_store[s], n), tp + n, tm, T[s])
          /\ \A k \in 1 .. n : SubSeq(btriple_store[s], 1, n)[k] = Held(T[s], tp, n)[k]
      BY SMTT(40), <1>9, <1>13, <3>1, PopsWindow
    <3>4. used'[s] = SubSeq(btriple_store[s], 1, n) /\ btriple_store'[s] = Pop(btriple_store[s], n)
      BY <1>0, <3>2
    <3>5. dp + x = dp
      BY <3>1
    <3>6. UsesOf(used'[s], c, h)
      BY <1>4, <1>12, <2>1, <3>1, <3>3, <3>4 DEF UsesOf, Converting, Multiplying
    <3>7. out'[s] = OwnMasks(c, h.x, used'[s])
      BY <1>0, <1>4, <1>12, <2>1, <3>2 DEF OwnMasks, Multiplying
    <3> QED
      BY <1>0, <1>2, <1>13, <3>1, <3>2, <3>3, <3>4, <3>5, <3>6, <3>7
  <2>2. CASE Calls[c].op \notin Multiplying
    <3>1. x = n /\ y = 0 /\ Calls[c].op \in Converting
      BY <1>1, <1>5, <1>6, <2>2 DEF Opening
    <3>2. /\ used' = [used EXCEPT ![s] = SubSeq(dabit_store[s], 1, n)]
          /\ dabit_store' = [dabit_store EXCEPT ![s] = Pop(@, n)]
          /\ out' = [out EXCEPT ![s] = [k \in 1 .. n |-> input[s].x[k] # used'[s][k].b2]]
          /\ btriple_store' = btriple_store
      BY <1>5, <2>2 DEF Take, Multiplying
    <3>3. /\ Window(Pop(dabit_store[s], n), dp + n, dm, D[s])
          /\ \A k \in 1 .. n : SubSeq(dabit_store[s], 1, n)[k] = Held(D[s], dp, n)[k]
      <4>1. dp + n <= dm
        BY <1>9, <3>1
      <4>2. PICK q, F : q = dabit_store[s] /\ F = D[s]
        OBVIOUS
      <4>3. Window(q, dp, dm, F)
        BY <1>13, <4>2
      <4>4. Window(Pop(q, n), dp + n, dm, F) /\ \A k \in 1 .. n : SubSeq(q, 1, n)[k] = Held(F, dp, n)[k]
        BY SMTT(40), <4>1, <4>3, PopsWindow
      <4> QED
        BY <4>2, <4>4
    <3>4. used'[s] = SubSeq(dabit_store[s], 1, n) /\ dabit_store'[s] = Pop(dabit_store[s], n)
      BY <1>0, <3>2
    <3>5. tp + y = tp
      BY <3>1
    <3>6. UsesOf(used'[s], c, h)
      BY <1>4, <1>12, <2>2, <3>1, <3>3, <3>4 DEF UsesOf
    <3>7. out'[s] = OwnMasks(c, h.x, used'[s])
      BY <1>0, <1>4, <1>12, <2>2, <3>2 DEF OwnMasks, Multiplying
    <3> QED
      BY <1>0, <1>2, <1>13, <3>1, <3>2, <3>3, <3>4, <3>5, <3>6, <3>7
  <2> QED
    BY <2>1, <2>2
<1>15. pc'[s] = "open" /\ pc'[t] = pc[t]
  BY <1>0, <1>1, <1>2
<1>16. Calls' = Calls /\ Lazy' = Lazy
  BY <1>1, OfProgram
<1>17. /\ Places(P)'[s].dm = dm /\ Places(P)'[s].tm = tm /\ Places(P)'[s].dp = dp + x /\ Places(P)'[s].tp = tp + y
       /\ Places(P)'[s].em = em + u /\ Places(P)'[s].base = base
       /\ Places(P)'[t] = Places(P)[t]
  <2>1. Places(P)'[s] = PlaceOf(s, P[c + 1], P[c + 1], P[c])
    <3>1. call'[s] = c
      BY <1>1
    <3> QED
      BY <1>1, <1>15, <3>1, PlaceByNext
  <2>2. Moved(Places(P)[s], Places(P)'[s], 0, 0, x, y, u, 0)
    BY <1>0, <1>4, <1>6, <1>10, <2>1, TakeMove
  <2>3. Places(P)'[t] = Places(P)[t]
    BY <1>1, <1>15, SamePlace
  <2>4. /\ Places(P)'[s].dm = dm + 0 /\ Places(P)'[s].tm = tm + 0 /\ Places(P)'[s].dp = dp + x
        /\ Places(P)'[s].tp = tp + y /\ Places(P)'[s].em = em + u /\ Places(P)'[s].base = base + 0
    BY <1>8, <2>2 DEF Moved
  <2> QED
    BY <2>3, <2>4
<1>18. Shape'
  <2>1. PcOK(s)'
    BY <1>1, <1>2, <1>15, <1>16 DEF PcOK, Op
  <2>2. PcOK(t)'
    BY <1>0, <1>1, <1>14, <1>15, PcKept
  <2>3. pc' \in [Server -> {"idle", "add", "flush", "take", "open"}]
    BY <1>0, <1>1
  <2>4. \A z \in Server : PcOK(z)'
    BY <1>3, <2>1, <2>2
  <2> QED
    BY <1>0, <1>1, <1>14, <1>16, <2>3, <2>4 DEF Shape
<1>19. Level(Places(P))'
  BY <1>3, <1>8, <1>16, <1>17 DEF Level, Described, Server
<1>20. Stores(Places(P), D, T)'
  <2>1. StoredAt(Places(P)[s], s, D, T)'
    BY <1>14, <1>17 DEF StoredAt
  <2>2. StoredAt(Places(P)[t], t, D, T)'
    BY <1>0, <1>14, <1>17 DEF Stores, StoredAt
  <2> QED
    BY <1>3, <2>1, <2>2 DEF Stores
<1>21. Good(Places(P), D, T)'
  <2>1. Places(P)'[0].dm = Places(P)[0].dm /\ Places(P)'[0].tm = Places(P)[0].tm
    BY <1>3, <1>8, <1>17 DEF Server
  <2> QED
    BY <2>1 DEF Good, Described
<1>22. Flow(Places(P), U)'
  <2>1. Queues(got'[t], chan'[t], out'[s], Places(P)'[t].base, Places(P)'[s].em, U[s])
    <3>1. PICK b \in Nat : b = Places(P)[t].base
      BY <1>0, <1>2, QueuesNow
    <3>2. PICK q, r, o : q = got[t] /\ r = chan[t] /\ o = out'[s]
      OBVIOUS
    <3>3. out[s] = <<>>
      BY <1>0, <1>1 DEF PcOK
    <3>4. Queues(q, r, <<>>, b, em, U[s])
      BY <1>0, <1>2, <1>8, <3>1, <3>2, <3>3, QueuesNow
    <3>5. Window(o, em, em + u, U[s])
      <4>1. o \in Seq(BOOLEAN) /\ Len(o) = u /\ \A k \in 1 .. u : o[k] = Masks(c, h)[k]
        BY <1>0, <1>1, <1>5, <1>6, <1>14, <3>2, OwnMasksAre
      <4>2. Masks(c, h) = Held(U[s], em, u)
        BY <1>6, <1>7, <1>8
      <4>3. \A k \in 1 .. u : o[k] = U[s][em + k]
        BY <4>1, <4>2 DEF Held
      <4>4. em + u - em = u
        OBVIOUS
      <4> QED
        BY <4>1, <4>3, <4>4 DEF Window
    <3>6. PICK e \in Nat : e = em + u
      OBVIOUS
    <3>7. Queues(q, r, o, b, e, U[s])
      BY <3>4, <3>5, <3>6, QueueFill
    <3> QED
      BY <1>1, <1>17, <3>1, <3>2, <3>6, <3>7
  <2>2. Queues(got'[s], chan'[s], out'[t], Places(P)'[s].base, Places(P)'[t].em, U[t])
    BY <1>0, <1>1, <1>2, <1>8, <1>14, <1>17, QueuesNow
  <2> QED
    BY <1>2, <1>3, <2>1, <2>2 DEF Flow, FlowTo, Queues
<1>23. Masked(P, D, T, U, X)'
  <2>1. ASSUME NEW z \in Server, NEW d \in 1 .. Len(Calls), Taken(z, d)', ~Taken(z, d)
        PROVE  Held(U[z], MaskStart(P, z, d), Units(d)) = Masks(d, Hand(P, D, T, X, z, d))
    <3>1. z = s /\ d = c
      BY <1>1, <1>3, <1>15, <2>1 DEF Taken
    <3> QED
      BY <1>8, <1>11, <3>1
  <2> QED
    BY <1>1, <2>1, MaskedStep DEF Described
<1>24. Passed(P, D, U)'
  <2>1. \A d \in 1 .. Len(Calls) : Passing(d)' => Passing(d)
    BY <1>1, <1>3, <1>15 DEF Passing, Topped, Server
  <2> QED
    BY <1>1, <2>1, PassedStep DEF Described
<1>25. Inputs(X)'
  <2>0. \A d : Operands(d)' = Operands(d)
    BY <1>1, OfProgram
  <2>1. \A z \in Server : pc'[z] = "idle" <=> pc[z] = "idle"
    BY <1>1, <1>3, <1>15
  <2> QED
    BY <1>1, <1>16, <2>0, <2>1 DEF Inputs, Described
<1>26. Using(P, D, T, X)'
  <2>1. ASSUME NEW z \in Server, pc'[z] = "open" PROVE UsesOf(used[z], call[z], Hand(P, D, T, X, z, call[z]))'
    <3>1. CASE z = s
      <4>1. PICK q : q = used'[s]
        OBVIOUS
      <4>2. UsesOf(q, c, h)' /\ Hand(P, D, T, X, s, c)' = h
        BY <1>1, <1>7, <1>14, <4>1, OfProgram
      <4> QED
        BY <1>1, <3>1, <4>1, <4>2
    <3>2. CASE z = t
      <4>0. pc[z] = "open" /\ used'[z] = used[z]
        BY <1>14, <1>15, <2>1, <3>2
      <4>1. PICK d, f, q : d = call[z] /\ f = Hand(P, D, T, X, z, d) /\ q = used[z]
        OBVIOUS
      <4>2. UsesOf(q, d, f)
        BY <4>0, <4>1 DEF Using, Described
      <4>3. UsesOf(q, d, f)' /\ Hand(P, D, T, X, z, d)' = f
        BY <1>1, <4>1, <4>2, OfProgram
      <4> QED
        BY <1>1, <4>0, <4>1, <4>3
    <3> QED
      BY <1>3, <3>1, <3>2
  <2> QED
    BY <2>1 DEF Using
<1>27. Results(P, D, T, X)'
  <2>1. ASSUME NEW z \in Server, NEW d \in 1 .. Len(Calls), d < call[z] PROVE Returned(P, D, T, X, z, d)'
    BY <1>1, <2>1, ReturnedKept DEF Results, Described
  <2> QED
    BY <1>1, <1>16, <2>1 DEF Results, Described
<1>28. Reading(P)'
  BY <1>1, <1>3, <1>15, ReadingStep DEF Described, Server
<1> QED
  BY <1>28, <1>0, <1>1, <1>18, <1>19, <1>20, <1>21, <1>22, <1>23, <1>24, <1>25, <1>26, <1>27, TableKept DEF Described


-----------------------------------------------------------------------------
(* Topping up *)

\* Good entries go after good entries.
LEMMA GoodMore ==
  ASSUME NEW K, NEW L, NEW D, NEW T, Good(K, D, T), NEW dm \in Nat, NEW tm \in Nat, NEW a \in Nat, NEW b \in Nat,
         K[0].dm = dm, K[0].tm = tm, L[0].dm = dm + a, L[0].tm = tm + b,
         \A k \in 1 .. a : DaBitPair(D[0][dm + k], D[1][dm + k]),
         \A k \in 1 .. b : TriplePair(T[0][tm + k], T[1][tm + k])
  PROVE  Good(L, D, T)
<1>1. ASSUME NEW k \in 1 .. dm + a PROVE DaBitPair(D[0][k], D[1][k])
  <2>1. CASE k <= dm
    <3>1. k \in 1 .. dm
      BY <2>1
    <3> QED
      BY <3>1 DEF Good
  <2>2. CASE ~(k <= dm)
    <3>1. PICK j \in 1 .. a : k = dm + j
      <4>1. k - dm \in 1 .. a /\ k = dm + (k - dm)
        BY <2>2
      <4> QED
        BY <4>1
    <3> QED
      BY <3>1
  <2> QED
    BY <2>1, <2>2
<1>2. ASSUME NEW k \in 1 .. tm + b PROVE TriplePair(T[0][k], T[1][k])
  <2>1. CASE k <= tm
    <3>1. k \in 1 .. tm
      BY <2>1
    <3> QED
      BY <3>1 DEF Good
  <2>2. CASE ~(k <= tm)
    <3>1. PICK j \in 1 .. b : k = tm + j
      <4>1. k - tm \in 1 .. b /\ k = tm + (k - tm)
        BY <2>2
      <4> QED
        BY <4>1
    <3> QED
      BY <3>1
  <2> QED
    BY <2>1, <2>2
<1> QED
  BY <1>1, <1>2 DEF Good

\* What each of both servers adds, and where it goes.
Adds(P, s, a, b) ==
    /\ P[call[s] + 1].dmade = P[call[s]].dmade + a
    /\ P[call[s] + 1].tmade = P[call[s]].tmade + b
ToppedUp(k, s, a, b, D, T) ==
    /\ Window(dabit_store'[s], k.dp, k.dm + a, D[s])
    /\ Window(btriple_store'[s], k.tp, k.tm + b, T[s])

\* Both servers make entries together.
LEMMA BothMade ==
  ASSUME NEW P, NEW D, NEW T, NEW U, NEW X, Described(P, D, T, U, X), NEW a \in Nat, NEW b \in Nat,
         \A s \in Server : pc[s] = "add" /\ (~Lazy \/ Op(s) \in Multiplying),
         \A s \in Server : Adds(P, s, a, b), Lazy => a = 0,
         \A s \in Server : ToppedUp(Places(P)[s], s, a, b, D, T),
         DOMAIN dabit_store' = Server, DOMAIN btriple_store' = Server,
         \A k \in 1 .. a : DaBitPair(D[0][Places(P)[0].dm + k], D[1][Places(P)[0].dm + k]),
         \A k \in 1 .. b : TriplePair(T[0][Places(P)[0].tm + k], T[1][Places(P)[0].tm + k]),
         pc' = [s \in Server |-> "take"],
         UNCHANGED <<program, call, input, used, out, chan, got, done>>
  PROVE  Described(P, D, T, U, X)'
<1>0. /\ Shape /\ TableOf(P) /\ program \in Programs /\ Stores(Places(P), D, T) /\ Flow(Places(P), U)
      /\ 0 \in Server /\ 1 \in Server /\ \A z \in Server : PcOK(z)
  BY DEF Described, Shape, Server
<1>1. Calls' = Calls /\ Lazy' = Lazy
  BY OfProgram
<1>2. ASSUME NEW s \in Server
      PROVE  /\ Places(P)'[s].dm = Places(P)[s].dm + a /\ Places(P)'[s].tm = Places(P)[s].tm + b
             /\ Places(P)'[s].dp = Places(P)[s].dp /\ Places(P)'[s].tp = Places(P)[s].tp
             /\ Places(P)'[s].em = Places(P)[s].em /\ Places(P)'[s].base = Places(P)[s].base
  <2>1. PICK c \in 1 .. Len(Calls) : c = call[s]
    BY <1>0 DEF PcOK
  <2>2. Places(P)[s] = PlaceOf(s, P[c], P[c], P[c])
    BY <2>1, PlaceBy
  <2>3. Places(P)'[s] = PlaceOf(s, P[c + 1], P[c], P[c])
    <3>1. call'[s] = c /\ pc'[s] = "take"
      BY <2>1
    <3> QED
      BY <3>1, PlaceByNext
  <2>4. P[c + 1].dmade = P[c].dmade + a /\ P[c + 1].tmade = P[c].tmade + b
    BY <2>1 DEF Adds
  <2>5. Moved(Places(P)[s], Places(P)'[s], a, b, 0, 0,
              IF Lazy /\ s = 0 THEN a ELSE 0, IF Lazy /\ s = 1 THEN a ELSE 0)
    BY <1>0, <2>2, <2>3, <2>4, MadeMove
  <2>6. (IF Lazy /\ s = 0 THEN a ELSE 0) = 0 /\ (IF Lazy /\ s = 1 THEN a ELSE 0) = 0
    OBVIOUS
  <2>7. PICK x \in Nat, y \in Nat, e \in Nat, f \in Nat :
           x = Places(P)[s].dp /\ y = Places(P)[s].tp /\ e = Places(P)[s].em /\ f = Places(P)[s].base
    BY <1>0, PlaceType DEF Numbered
  <2>8. /\ Places(P)'[s].dm = Places(P)[s].dm + a /\ Places(P)'[s].tm = Places(P)[s].tm + b
        /\ Places(P)'[s].dp = x + 0 /\ Places(P)'[s].tp = y + 0
        /\ Places(P)'[s].em = e + 0 /\ Places(P)'[s].base = f + 0
    BY <2>5, <2>6, <2>7 DEF Moved
  <2> QED
    BY <2>7, <2>8
<1>3. Shape'
  <2>1. ASSUME NEW s \in Server PROVE PcOK(s)'
    <3>1. out[s] = <<>> /\ got[s] = <<>> /\ call[s] \in 1 .. Len(Calls)
      BY <1>0 DEF PcOK
    <3>2. pc'[s] = "take"
      OBVIOUS
    <3> QED
      BY <1>1, <3>1, <3>2 DEF PcOK
  <2> QED
    BY <1>0, <1>1, <2>1 DEF Shape
<1>4. Level(Places(P))'
  <2>1. PICK x \in Nat, y \in Nat, z \in Nat, w \in Nat :
           x = Places(P)[0].dm /\ y = Places(P)[1].dm /\ z = Places(P)[0].tm /\ w = Places(P)[1].tm
    BY <1>0, PlaceType DEF Numbered
  <2>2. z = w /\ IF Lazy THEN y <= x ELSE y = x
    BY <2>1 DEF Level, Described
  <2>3. /\ Places(P)'[0].dm = x + a /\ Places(P)'[1].dm = y + a
        /\ Places(P)'[0].tm = z + b /\ Places(P)'[1].tm = w + b
    BY <1>0, <1>2, <2>1
  <2>4. z + b = w + b /\ IF Lazy THEN y + a <= x + a ELSE y + a = x + a
    BY <2>2
  <2> QED
    BY <1>1, <2>3, <2>4 DEF Level
<1>5. Stores(Places(P), D, T)'
  <2>1. ASSUME NEW s \in Server PROVE StoredAt(Places(P)[s], s, D, T)'
    <3>1. ToppedUp(Places(P)[s], s, a, b, D, T)
      OBVIOUS
    <3> QED
      BY <1>2, <3>1 DEF StoredAt, ToppedUp
  <2> QED
    BY <2>1 DEF Stores
<1>6. Flow(Places(P), U)'
  <2>1. ASSUME NEW s \in Server, NEW t \in Server, s = Other(t)
        PROVE  Queues(got'[t], chan'[t], out'[s], Places(P)'[t].base, Places(P)'[s].em, U[s])
    BY <1>0, <1>2, <2>1, QueuesNow
  <2> QED
    BY <2>1, Others DEF Flow, FlowTo, Queues
<1>7. Good(Places(P), D, T)'
  <2>1. PICK dm \in Nat, tm \in Nat : dm = Places(P)[0].dm /\ tm = Places(P)[0].tm
    BY <1>0, PlaceType DEF Numbered
  <2>2. PICK K, L : K = Places(P) /\ L = Places(P)'
    OBVIOUS
  <2>3. L[0].dm = dm + a /\ L[0].tm = tm + b
    BY <1>0, <1>2, <2>1, <2>2
  <2>4. Good(K, D, T) /\ K[0].dm = dm /\ K[0].tm = tm
    BY <2>1, <2>2 DEF Described
  <2>5. /\ \A k \in 1 .. a : DaBitPair(D[0][dm + k], D[1][dm + k])
        /\ \A k \in 1 .. b : TriplePair(T[0][tm + k], T[1][tm + k])
    BY <2>1
  <2>6. Good(L, D, T)
    BY <2>3, <2>4, <2>5, GoodMore
  <2> QED
    BY <2>2, <2>6
<1>8. Quiet
  BY DEF Quiet
<1>9. Masked(P, D, T, U, X)' /\ Inputs(X)' /\ Using(P, D, T, X)' /\ Results(P, D, T, X)'
  BY <1>8, QuietKeeps DEF Described
<1>10. Passed(P, D, U)'
  <2>1. ASSUME NEW d \in 1 .. Len(Calls), Lazy, Passing(d)', ~Passing(d)
        PROVE  Held(U[0], Sends(P[d]) + P[d].dmade, P[d + 1].dmade - P[d].dmade) =
               Held(D[1], P[d].dmade, P[d + 1].dmade - P[d].dmade)
    <3>1. d = call[0]
      BY <2>1 DEF Passing
    <3>2. P[d + 1].dmade = P[d].dmade + a /\ a = 0
      BY <1>0, <2>1, <3>1 DEF Adds
    <3>3. PICK x \in Nat : x = P[d].dmade
      <4>1. P[d] \in Counts
        BY <1>0, TableStep
      <4> QED
        BY <4>1 DEF Counts
    <3>4. P[d + 1].dmade - P[d].dmade = 0
      BY <3>2, <3>3
    <3>5. \A F, z : Held(F, z, 0) = <<>>
      BY DEF Held
    <3> QED
      BY <3>4, <3>5
  <2> QED
    BY <2>1, PassedStep DEF Described
<1>11. Reading(P)'
  BY <1>0, ReadingStep DEF Described
<1> QED
  BY <1>0, <1>3, <1>4, <1>5, <1>6, <1>7, <1>9, <1>10, <1>11, TableKept DEF Described


-----------------------------------------------------------------------------
(* What is made is good *)

\* The modulus leaves room in a word, or is odd where parities must line up.
ModulusFits == \A p \in Programs : IF p.lazy THEN Modulus % 2 = 1 ELSE 2 * Modulus + 1 < Word

\* A number below a word is not wrapped.
LEMMA NoWrap ==
  ASSUME NEW z \in Nat, z < Word PROVE Wrap(z) = z
<1>1. PICK w \in Nat \ {0} : w = Word
  BY WordAssumption
<1>2. z \in 0 .. w - 1
  BY <1>1
<1> QED
  BY <1>1, <1>2, ModSmall DEF Wrap

MadeFrom(a, b, pad, s0, s1) == \E pair :
    /\ pair = DaBitMessages(a, pad, Modulus)
    /\ s0 = DaBitShare(a, Modulus - pair[1], Modulus)
    /\ s1 = DaBitShare(b, Chosen(pair, b), Modulus)

\* generateDaBit's two shares add up to the exclusive or of the two bits.
LEMMA DaBitShares ==
  ASSUME 2 * Modulus + 1 < Word, NEW a \in {0, 1}, NEW b \in {0, 1}, NEW pad \in Nat,
         NEW s0, NEW s1, MadeFrom(a, b, pad, s0, s1)
  PROVE  s0 \in Nat /\ s1 \in Nat /\ (s0 + s1) % Modulus = IF a = b THEN 0 ELSE 1
<1>0. PICK pair : /\ pair = DaBitMessages(a, pad, Modulus)
                  /\ s0 = DaBitShare(a, Modulus - pair[1], Modulus)
                  /\ s1 = DaBitShare(b, Chosen(pair, b), Modulus)
  BY DEF MadeFrom
<1>1. PICK m \in Nat \ {0}, w \in Nat \ {0} : m = Modulus /\ w = Word /\ m > 2 /\ 2 * m + 1 < w
  BY StoreAssumption, WordAssumption
<1>2. PICK r \in 0 .. m - 1 : r = pad % m
  <2>1. pad \in Int
    OBVIOUS
  <2>2. pad % m \in 0 .. m - 1
    BY <2>1, ModRange
  <2> QED
    BY <2>2
<1>3. pair = <<r, Wrap(r + a) % m>>
  BY <1>0, <1>1, <1>2 DEF DaBitMessages
<1>4. Wrap(r + a) = r + a
  BY <1>1, NoWrap
<1>5. PICK x \in 0 .. m - 1 : x = (r + a) % m
  <2>1. PICK z \in Int : z = r + a
    OBVIOUS
  <2>2. z % m \in 0 .. m - 1
    BY ModRange
  <2> QED
    BY <2>1, <2>2
<1>6. Cong(x, r + a, m)
  <2>1. PICK z \in Int : z = r + a
    OBVIOUS
  <2> QED
    BY <1>5, <2>1, ModCong
<1>7. PICK y \in 0 .. m - 1 : y = (IF b = 1 THEN x ELSE r)
  OBVIOUS
<1>8. Chosen(pair, b) = y /\ pair[1] = r
  BY <1>3, <1>4, <1>5, <1>7 DEF Chosen
<1>9. PICK e \in Nat, f \in Nat : e = a + 2 * r /\ f = b + 2 * (m - y) /\ e < w /\ f < w
  <2>1. a + 2 * r \in Nat /\ a + 2 * r < w
    BY <1>1
  <2>2. b + 2 * (m - y) \in Nat /\ b + 2 * (m - y) < w
    BY <1>1
  <2> QED
    BY <2>1, <2>2
<1>10. s0 = e % m
  <2>1. m - (m - r) = r
    OBVIOUS
  <2>2. Wrap(e) = e
    BY <1>1, <1>9, NoWrap
  <2> QED
    BY <1>0, <1>1, <1>8, <1>9, <2>1, <2>2 DEF DaBitShare
<1>11. s1 = f % m
  <2>1. Wrap(f) = f
    BY <1>1, <1>9, NoWrap
  <2> QED
    BY <1>0, <1>1, <1>8, <1>9, <2>1 DEF DaBitShare
<1>12. s0 \in 0 .. m - 1 /\ s1 \in 0 .. m - 1
  BY <1>10, <1>11, ModRange
<1>13. Cong(s0, e, m) /\ Cong(s1, f, m)
  BY <1>10, <1>11, ModCong
<1>14. Cong(s0 + s1, e + f, m)
  BY <1>12, <1>13, CongAdd
<1>15. PICK v \in 0 .. m - 1 : v = IF a = b THEN 0 ELSE 1
  BY <1>1
<1>16. Cong(e + f, v, m)
  <2>1. PICK q \in Int : x = r + a + q * m
    BY <1>6 DEF Cong
  <2>2. CASE b = 0
    <3>1. e + f = a + 2 * m
      BY <1>7, <1>9, <2>2
    <3>2. v = a
      BY <1>15, <2>2
    <3> QED
      BY <3>1, <3>2 DEF Cong
  <2>3. CASE b = 1
    <3>1. e + f = a + 2 * r + 1 + 2 * m - 2 * (r + a + q * m)
      BY <1>7, <1>9, <2>1, <2>3
    <3>2. PICK p \in Int : p = q * m
      OBVIOUS
    <3>3. e + f = 1 - a + 2 * m - 2 * p
      BY <3>1, <3>2
    <3>4. v = 1 - a
      BY <1>15, <2>3
    <3>5. e + f = v + (2 - 2 * q) * m
      <4>1. (2 - 2 * q) * m = 2 * m - 2 * p
        BY <3>2
      <4> QED
        BY <3>3, <3>4, <4>1
    <3>6. 2 - 2 * q \in Int
      OBVIOUS
    <3> QED
      BY <3>5, <3>6 DEF Cong
  <2> QED
    BY <2>2, <2>3
<1>17. PICK z \in Int, g \in Int : z = s0 + s1 /\ g = e + f
  BY <1>12
<1>18. Cong(z, v, m)
  BY <1>14, <1>16, <1>17, CongTrans
<1>19. z % m = v % m
  <2>1. PICK i \in Int : i = v
    OBVIOUS
  <2>2. Cong(z, i, m)
    BY <1>18, <2>1
  <2>3. z % m = i % m
    BY <2>2, CongMod
  <2> QED
    BY <2>1, <2>3
<1>20. v % m = v
  BY ModSmall
<1> QED
  BY <1>1, <1>12, <1>15, <1>17, <1>19, <1>20

\* A daBit made by oblivious transfer (generateDaBit) shares one bit in both
\* ways, when twice the modulus leaves room in the word.
LEMMA DaBitsGood ==
  ASSUME 2 * Modulus + 1 < Word, NEW n \in Nat, NEW b0 \in Bits(n), NEW b1 \in Bits(n),
         NEW pads \in [1 .. n -> Pads], NEW k \in 1 .. n
  PROVE  DaBitPair(DaBits(b0, b1, pads)[k][0], DaBits(b0, b1, pads)[k][1])
<1>1. PICK x \in BOOLEAN, y \in BOOLEAN, pad \in Nat : x = b0[k] /\ y = b1[k] /\ pad = pads[k]
  BY StoreAssumption DEF Bits
<1>2. PICK a \in {0, 1}, b \in {0, 1} : a = Value(x) /\ b = Value(y) /\ (a = b <=> x = y)
  <2>1. Value(x) \in {0, 1} /\ Value(y) \in {0, 1} /\ (Value(x) = Value(y) <=> x = y)
    BY DEF Value
  <2> QED
    BY <2>1
<1>3. PICK pair : pair = DaBitMessages(a, pad, Modulus)
  OBVIOUS
<1>4. PICK s0, s1 : s0 = DaBitShare(a, Modulus - pair[1], Modulus) /\ s1 = DaBitShare(b, Chosen(pair, b), Modulus)
  OBVIOUS
<1>5. s0 \in Nat /\ s1 \in Nat /\ (s0 + s1) % Modulus = IF a = b THEN 0 ELSE 1
  <2>1. MadeFrom(a, b, pad, s0, s1)
    BY <1>3, <1>4 DEF MadeFrom
  <2> QED
    BY <2>1, DaBitShares
<1>6. PICK d0, d1 : d0 = [bp |-> s0, b2 |-> x] /\ d1 = [bp |-> s1, b2 |-> y]
  OBVIOUS
<1>7. DaBits(b0, b1, pads)[k][0] = d0 /\ DaBits(b0, b1, pads)[k][1] = d1
  BY <1>1, <1>2, <1>3, <1>4, <1>6 DEF DaBits, Bits, Server
<1>8. d0 \in DaBit /\ d1 \in DaBit
  BY <1>5, <1>6 DEF DaBit
<1>9. Value(x # y) = IF a = b THEN 0 ELSE 1
  BY <1>2 DEF Value
<1> QED
  BY <1>5, <1>6, <1>7, <1>8, <1>9 DEF DaBitPair, Matching

\* makeLocalDaBit's two halves match when the modulus is odd.
LEMMA LocalGood ==
  ASSUME Modulus % 2 = 1, NEW bit \in {0, 1}, NEW r \in LocalRange(bit)
  PROVE  DaBitPair(LocalDaBit(bit, r)[0], LocalDaBit(bit, r)[1])
<1>1. PICK m \in Nat \ {0} : m = Modulus /\ m > 2 /\ m % 2 = 1
  BY StoreAssumption
<1>2. r \in Nat /\ r \in bit + 1 .. m - 1
  BY <1>1, StoreAssumption DEF LocalRange
<1>3. PICK z \in 0 .. m - 1 : z = m + bit - r
  BY <1>1, <1>2
<1>4. (bit - r) % m = z
  <2>1. bit - r = (-1) * m + z
    BY <1>2, <1>3
  <2> QED
    BY <2>1, ModUnique
<1>5. PICK d0, d1 : d0 = LocalDaBit(bit, r)[0] /\ d1 = LocalDaBit(bit, r)[1]
  OBVIOUS
<1>6. d0 = [bp |-> r, b2 |-> r % 2 = 1] /\ d1 = [bp |-> z, b2 |-> z % 2 = 0]
  BY <1>1, <1>4, <1>5 DEF LocalDaBit, Server
<1>7. d0 \in DaBit /\ d1 \in DaBit
  BY <1>2, <1>3, <1>6 DEF DaBit
<1>8. (r + z) % m = bit
  <2>1. r + z = 1 * m + bit /\ bit \in 0 .. m - 1
    BY <1>1, <1>2, <1>3
  <2> QED
    BY <2>1, ModUnique
<1>9. Value((r % 2 = 1) # (z % 2 = 0)) = bit
  <2>1. m = 2 * (m \div 2) + 1
    BY <1>1
  <2>2. PICK h \in Int : m = 2 * h + 1
    BY <2>1
  <2>3. PICK g \in Int : r = 2 * g \/ r = 2 * g + 1
    <3>1. r = 2 * (r \div 2) \/ r = 2 * (r \div 2) + 1
      BY <1>2
    <3> QED
      BY <1>2, <3>1
  <2>4. CASE r = 2 * g
    <3>1. r % 2 = 0
      BY <2>4
    <3>2. z = 2 * (h - g) + 1 + bit
      BY <1>3, <2>2, <2>4
    <3>3. bit = 0 => z % 2 = 1
      BY <3>2
    <3>4. bit = 1 => z % 2 = 0
      BY <3>2
    <3> QED
      BY <3>1, <3>3, <3>4 DEF Value
  <2>5. CASE r = 2 * g + 1
    <3>1. r % 2 = 1
      BY <2>5
    <3>2. z = 2 * (h - g) + bit
      BY <1>3, <2>2, <2>5
    <3>3. bit = 0 => z % 2 = 0
      BY <3>2
    <3>4. bit = 1 => z % 2 = 1
      BY <3>2
    <3> QED
      BY <3>1, <3>3, <3>4 DEF Value
  <2> QED
    BY <2>3, <2>4, <2>5
<1>10. Matching(d0, d1)
  BY <1>1, <1>6, <1>8, <1>9 DEF Matching
<1> QED
  BY <1>5, <1>7, <1>10 DEF DaBitPair

\* gen_boolean_beaver_triples makes shares of a product of shared bits.
LEMMA TripleGood ==
  ASSUME NEW x \in [Server -> BOOLEAN], NEW y \in [Server -> BOOLEAN], NEW r \in [Server -> BOOLEAN]
  PROVE  TriplePair(Triple(x, y, r)[0], Triple(x, y, r)[1])
<1>1. PICK x0 \in BOOLEAN, x1 \in BOOLEAN, y0 \in BOOLEAN, y1 \in BOOLEAN, r0 \in BOOLEAN, r1 \in BOOLEAN :
         x0 = x[0] /\ x1 = x[1] /\ y0 = y[0] /\ y1 = y[1] /\ r0 = r[0] /\ r1 = r[1]
  BY DEF Server
<1>2. PICK c0 \in BOOLEAN, c1 \in BOOLEAN :
         /\ c0 = ((IF y0 THEN r1 # x1 ELSE r1) # (r0 # (x0 /\ y0)))
         /\ c1 = ((IF y1 THEN r0 # x0 ELSE r0) # (r1 # (x1 /\ y1)))
  OBVIOUS
<1>3. Other(0) = 1 /\ Other(1) = 0
  BY DEF Other
<1>4. /\ Triple(x, y, r)[0] = [a |-> x0, b |-> y0, c |-> c0]
      /\ Triple(x, y, r)[1] = [a |-> x1, b |-> y1, c |-> c1]
  BY <1>1, <1>2, <1>3 DEF Triple, Server
<1>5. (c0 # c1) = ((x0 # x1) /\ (y0 # y1))
  BY <1>2
<1> QED
  BY <1>4, <1>5 DEF TriplePair, BoolTriple, Beaver


\* A history that goes on with M from at + 1.
Beyond(F, at, M) == [k \in Nat |-> IF k > at THEN M[k - at] ELSE F[k]]

Follows(G, at, M) == \A k \in Nat \ {0} : G[at + k] = M[k]

\* It agrees with the old one up to at and is the new entries after it.
LEMMA BeyondIs ==
  ASSUME NEW F, NEW at \in Nat, NEW M, NEW G, G = Beyond(F, at, M)
  PROVE  Agree(F, G, at) /\ Follows(G, at, M)
<1>1. Agree(F, Beyond(F, at, M), at)
  BY DEF Agree, Beyond
<1>2. ASSUME NEW k \in Nat \ {0} PROVE Beyond(F, at, M)[at + k] = M[k]
  <2>1. PICK j \in Nat : j = at + k /\ j > at /\ j - at = k
    OBVIOUS
  <2>2. Beyond(F, at, M)[j] = M[j - at]
    BY <2>1 DEF Beyond
  <2> QED
    BY <2>1, <2>2
<1> QED
  BY <1>1, <1>2 DEF Follows

\* A list of entries that follow is a window on them,
LEMMA WindowList ==
  ASSUME NEW b \in Nat, NEW n \in Nat, NEW F, NEW M, \A k \in 1 .. n : F[b + k] = M[k]
  PROVE  Window([k \in 1 .. n |-> M[k]], b, b + n, F)
<1>1. PICK r : r = [k \in 1 .. n |-> M[k]]
  OBVIOUS
<1>2. PICK S : S = {M[k] : k \in 1 .. n}
  OBVIOUS
<1>3. r \in Seq(S) /\ Len(r) = n
  BY <1>1, <1>2
<1>4. (b + n) - b = n
  OBVIOUS
<1>5. \A k \in 1 .. Len(r) : r[k] = F[b + k]
  BY <1>1, <1>3
<1> QED
  BY <1>1, <1>3, <1>4, <1>5 DEF Window

\* and goes after a window that ends where they begin.
LEMMA WindowMore ==
  ASSUME NEW q, NEW a \in Nat, NEW b \in Nat, NEW F, Window(q, a, b, F),
         NEW n \in Nat, NEW M, \A k \in 1 .. n : F[b + k] = M[k],
         NEW r, r = [k \in 1 .. n |-> M[k]]
  PROVE  Window(q \o r, a, b + n, F)
<1>2. Window(r, b, b + n, F)
  BY WindowList
<1>3. PICK c \in Nat : c = b + n
  OBVIOUS
<1>4. Window(q \o r, a, c, F)
  BY <1>2, <1>3, WindowConcat
<1> QED
  BY <1>3, <1>4

\* What a server that is topping up adds.
LEMMA AddsKnown ==
  ASSUME NEW P, NEW D, NEW T, Shape, TableOf(P), Stores(Places(P), D, T), NEW s \in Server, pc[s] = "add"
  PROVE  /\ ToAdd(s) \in Nat /\ call[s] \in 1 .. Len(Calls) /\ Op(s) = Calls[call[s]].op
         /\ Op(s) \in Multiplying =>
              Adds(P, s, 0, IF ToAdd(s) = 0 THEN 0 ELSE IF ToAdd(s) > Batch THEN ToAdd(s) ELSE Batch)
         /\ Op(s) \notin Multiplying => Adds(P, s, ToAdd(s), 0)
<1>1. call[s] \in 1 .. Len(Calls)
  BY DEF Shape, PcOK
<1>2. PICK c \in 1 .. Len(Calls) : c = call[s]
  BY <1>1
<1>3. /\ Len(dabit_store[s]) = Places(P)[s].dm - Places(P)[s].dp
      /\ Len(btriple_store[s]) = Places(P)[s].tm - Places(P)[s].tp
  BY StoreLens
<1>4. /\ ToAdd(s) \in Nat
      /\ Op(s) \in Multiplying =>
           /\ P[c + 1].dmade = P[c].dmade
           /\ P[c + 1].tmade = P[c].tmade + (IF ToAdd(s) = 0 THEN 0 ELSE IF ToAdd(s) > Batch THEN ToAdd(s) ELSE Batch)
      /\ Op(s) \notin Multiplying =>
           P[c + 1].dmade = P[c].dmade + ToAdd(s) /\ P[c + 1].tmade = P[c].tmade
  BY <1>2, <1>3, ToAddKnown
<1>5. PICK d \in Nat, t \in Nat : d = P[c].dmade /\ t = P[c].tmade
  <2>1. program \in Programs
    BY DEF Shape
  <2>2. P[c] \in Counts
    BY <2>1, TableStep
  <2> QED
    BY <2>2 DEF Counts
<1>6. d + 0 = d /\ t + 0 = t
  OBVIOUS
<1>7. Op(s) = Calls[call[s]].op
  BY DEF Op
<1>8. Op(s) \in Multiplying =>
        Adds(P, s, 0, IF ToAdd(s) = 0 THEN 0 ELSE IF ToAdd(s) > Batch THEN ToAdd(s) ELSE Batch)
  BY <1>2, <1>4, <1>5, <1>6 DEF Adds
<1>9. Op(s) \notin Multiplying => Adds(P, s, ToAdd(s), 0)
  BY <1>2, <1>4, <1>5, <1>6 DEF Adds
<1> QED
  BY <1>1, <1>4, <1>7, <1>8, <1>9

SomeDaBits(n) == \E b0, b1 \in Bits(n), pads \in [1 .. n -> Pads] :
    dabit_store' = [s \in Server |-> dabit_store[s] \o [k \in 1 .. n |-> DaBits(b0, b1, pads)[k][s]]]

\* Both servers make daBits.
LEMMA MakeDaBitsStep ==
  ASSUME NEW P, NEW D, NEW T, NEW U, NEW X, Described(P, D, T, U, X), MakeDaBits, ModulusFits
  PROVE  \E D2 : Described(P, D2, T, U, X)'
<1>1. /\ ~Lazy /\ ToAdd(0) = ToAdd(1)
      /\ \A s \in Server : pc[s] = "add" /\ Op(s) \notin Multiplying
      /\ pc' = [s \in Server |-> "take"] /\ btriple_store' = btriple_store
      /\ UNCHANGED <<program, call, input, used, out, chan, got, done>>
  BY DEF MakeDaBits, Multiplying
<1>2. Shape /\ TableOf(P) /\ Level(Places(P)) /\ Stores(Places(P), D, T)
  BY DEF Described
<1>3. PICK a \in Nat : a = ToAdd(0) /\ a = ToAdd(1)
  BY <1>1, <1>2, AddsKnown DEF Server
<1>4. \A s \in Server : Adds(P, s, a, 0)
  BY <1>1, <1>2, <1>3, AddsKnown DEF Server
<1>5. PICK b0 \in Bits(a), b1 \in Bits(a), pads \in [1 .. a -> Pads] :
        dabit_store' = [s \in Server |-> dabit_store[s] \o [k \in 1 .. a |-> DaBits(b0, b1, pads)[k][s]]]
  <2>1. SomeDaBits(ToAdd(0))
    BY DEF MakeDaBits, SomeDaBits
  <2>2. SomeDaBits(a)
    BY <1>3, <2>1
  <2> QED
    BY <2>2 DEF SomeDaBits
<1>6. PICK M : M = [s \in Server |-> [k \in 1 .. a |-> DaBits(b0, b1, pads)[k][s]]]
  OBVIOUS
<1>7. PICK dm \in Nat : dm = Places(P)[0].dm /\ dm = Places(P)[1].dm
  <2>1. Places(P)[0].dm \in Nat
    BY <1>2, PlaceType DEF Server, Numbered
  <2> QED
    BY <1>1, <1>2, <2>1 DEF Level
<1>8. PICK D2 : D2 = [s \in Server |-> Beyond(D[s], dm, M[s])]
  OBVIOUS
<1>9. \A s \in Server : Agree(D[s], D2[s], dm) /\ \A k \in Nat \ {0} : D2[s][dm + k] = M[s][k]
  <2> SUFFICES ASSUME NEW s \in Server
               PROVE Agree(D[s], D2[s], dm) /\ \A k \in Nat \ {0} : D2[s][dm + k] = M[s][k]
    OBVIOUS
  <2>1. PICK F, m : F = D[s] /\ m = M[s]
    OBVIOUS
  <2>2. D2[s] = Beyond(F, dm, m)
    BY <1>8, <2>1
  <2>3. PICK G : G = D2[s]
    OBVIOUS
  <2>4. Agree(F, G, dm) /\ Follows(G, dm, m)
    BY <2>2, <2>3, BeyondIs
  <2> QED
    BY <2>1, <2>3, <2>4 DEF Follows
<1>10. Grown(Places(P), D, T, U, X, D2, T, U, X)
  BY <1>7, <1>9 DEF Grown, Agree
<1>11. Described(P, D2, T, U, X)
  BY <1>10, GrownDescribed
<1>12. \A s \in Server : ToppedUp(Places(P)[s], s, a, 0, D2, T)
  <2> SUFFICES ASSUME NEW s \in Server PROVE ToppedUp(Places(P)[s], s, a, 0, D2, T)
    OBVIOUS
  <2>1. Numbered(Places(P)[s])
    BY <1>2, PlaceType
  <2>2. PICK dp \in Nat, tp \in Nat, tm \in Nat :
          dp = Places(P)[s].dp /\ tp = Places(P)[s].tp /\ tm = Places(P)[s].tm
    BY <2>1 DEF Numbered
  <2>3. Places(P)[s].dm = dm
    BY <1>7 DEF Server
  <2>4. Window(dabit_store[s], dp, dm, D2[s]) /\ Window(btriple_store[s], tp, tm, T[s])
    BY <1>11, <2>2, <2>3 DEF Described, Stores, StoredAt
  <2>5. PICK q, F, m : q = dabit_store[s] /\ F = D2[s] /\ m = M[s]
    OBVIOUS
  <2>6. \A k \in 1 .. a : F[dm + k] = m[k]
    BY <1>9, <2>5
  <2>11. PICK r : r = [k \in 1 .. a |-> m[k]]
    OBVIOUS
  <2>10. Window(q, dp, dm, F)
    BY <2>4, <2>5
  <2>7. Window(q \o r, dp, dm + a, F)
    BY <2>10, <2>6, <2>11, WindowMore
  <2>8. dabit_store'[s] = q \o r
    <3>1. r = [k \in 1 .. a |-> DaBits(b0, b1, pads)[k][s]]
      BY <1>6, <2>5, <2>11
    <3> QED
      BY <1>5, <2>5, <3>1
  <2>9. tm + 0 = tm /\ btriple_store'[s] = btriple_store[s]
    BY <1>1
  <2> QED
    BY <2>2, <2>3, <2>4, <2>5, <2>7, <2>8, <2>9 DEF ToppedUp
<1>13. \A k \in 1 .. a : DaBitPair(D2[0][Places(P)[0].dm + k], D2[1][Places(P)[0].dm + k])
  <2> SUFFICES ASSUME NEW k \in 1 .. a PROVE DaBitPair(D2[0][dm + k], D2[1][dm + k])
    BY <1>7
  <2>1. 2 * Modulus + 1 < Word
    BY <1>1, <1>2 DEF ModulusFits, Shape, Lazy
  <2>2. DaBitPair(DaBits(b0, b1, pads)[k][0], DaBits(b0, b1, pads)[k][1])
    BY <2>1, DaBitsGood
  <2>3. D2[0][dm + k] = DaBits(b0, b1, pads)[k][0] /\ D2[1][dm + k] = DaBits(b0, b1, pads)[k][1]
    <3>1. k \in Nat \ {0}
      OBVIOUS
    <3>2. D2[0][dm + k] = M[0][k] /\ D2[1][dm + k] = M[1][k]
      BY <1>9, <3>1 DEF Server
    <3>3. M[0][k] = DaBits(b0, b1, pads)[k][0] /\ M[1][k] = DaBits(b0, b1, pads)[k][1]
      BY <1>6 DEF Server
    <3> QED
      BY <3>2, <3>3
  <2> QED
    BY <2>2, <2>3
<1>14. \A k \in 1 .. 0 : TriplePair(T[0][Places(P)[0].tm + k], T[1][Places(P)[0].tm + k])
  OBVIOUS
<1>15. DOMAIN dabit_store' = Server /\ DOMAIN btriple_store' = Server
  BY <1>1, <1>2, <1>5 DEF Shape
<1>16. \A s \in Server : pc[s] = "add" /\ (~Lazy \/ Op(s) \in Multiplying)
  BY <1>1
<1> QED
  BY <1>1, <1>4, <1>11, <1>12, <1>13, <1>14, <1>15, <1>16, BothMade

\* Both servers make triples.
SomeTriples(n) == \E x, y, r \in [1 .. n -> [Server -> BOOLEAN]] :
    btriple_store' = [s \in Server |-> btriple_store[s] \o [k \in 1 .. n |-> Triple(x[k], y[k], r[k])[s]]]

\* A server at a refill has something to add.
Wanting == \A s \in Server : pc[s] = "add" => ToAdd(s) > 0

\* A batch of triples, of both servers together, keeps the description with a
\* history of triples that goes on.
LEMMA MakeTriplesStep ==
  ASSUME NEW P, NEW D, NEW T, NEW U, NEW X, Described(P, D, T, U, X), MakeTriples, Wanting
  PROVE  \E T2 : Described(P, D, T2, U, X)'
<1>1. /\ ToAdd(0) = ToAdd(1)
      /\ \A s \in Server : pc[s] = "add" /\ Op(s) \in Multiplying
      /\ pc' = [s \in Server |-> "take"] /\ dabit_store' = dabit_store
      /\ UNCHANGED <<program, call, input, used, out, chan, got, done>>
  BY DEF MakeTriples, Multiplying
<1>2. Shape /\ TableOf(P) /\ Level(Places(P)) /\ Stores(Places(P), D, T)
  BY DEF Described
<1>3. PICK a \in Nat : a = ToAdd(0) /\ a = ToAdd(1) /\ a > 0
  BY <1>1, <1>2, AddsKnown DEF Server, Wanting
<1>4. PICK b \in Nat : b = IF a > Batch THEN a ELSE Batch
  <2>1. Batch \in Nat
    BY <1>2, CallType DEF Shape
  <2> QED
    BY <2>1
<1>5. \A s \in Server : Adds(P, s, 0, b)
  <2>1. a # 0
    BY <1>3
  <2> QED
    BY <1>1, <1>2, <1>3, <1>4, <2>1, AddsKnown DEF Server
<1>6. PICK x \in [1 .. b -> [Server -> BOOLEAN]], y \in [1 .. b -> [Server -> BOOLEAN]],
           z \in [1 .. b -> [Server -> BOOLEAN]] :
        btriple_store' = [s \in Server |-> btriple_store[s] \o [k \in 1 .. b |-> Triple(x[k], y[k], z[k])[s]]]
  <2>1. SomeTriples(IF ToAdd(0) > Batch THEN ToAdd(0) ELSE Batch)
    BY DEF MakeTriples, SomeTriples
  <2>2. SomeTriples(b)
    BY <1>3, <1>4, <2>1
  <2> QED
    BY <2>2 DEF SomeTriples
<1>7. PICK M : M = [s \in Server |-> [k \in 1 .. b |-> Triple(x[k], y[k], z[k])[s]]]
  OBVIOUS
<1>8. PICK tm \in Nat : tm = Places(P)[0].tm /\ tm = Places(P)[1].tm
  <2>1. Places(P)[0].tm \in Nat
    BY <1>2, PlaceType DEF Server, Numbered
  <2> QED
    BY <1>2, <2>1 DEF Level
<1>9. PICK T2 : T2 = [s \in Server |-> Beyond(T[s], tm, M[s])]
  OBVIOUS
<1>10. \A s \in Server : Agree(T[s], T2[s], tm) /\ \A k \in Nat \ {0} : T2[s][tm + k] = M[s][k]
  <2> SUFFICES ASSUME NEW s \in Server
               PROVE Agree(T[s], T2[s], tm) /\ \A k \in Nat \ {0} : T2[s][tm + k] = M[s][k]
    OBVIOUS
  <2>1. PICK F, m : F = T[s] /\ m = M[s]
    OBVIOUS
  <2>2. T2[s] = Beyond(F, tm, m)
    BY <1>9, <2>1
  <2>3. PICK G : G = T2[s]
    OBVIOUS
  <2>4. Agree(F, G, tm) /\ Follows(G, tm, m)
    BY <2>2, <2>3, BeyondIs
  <2> QED
    BY <2>1, <2>3, <2>4 DEF Follows
<1>11. Grown(Places(P), D, T, U, X, D, T2, U, X)
  BY <1>8, <1>10 DEF Grown, Agree
<1>12. Described(P, D, T2, U, X)
  BY <1>11, GrownDescribed
<1>13. \A s \in Server : ToppedUp(Places(P)[s], s, 0, b, D, T2)
  <2> SUFFICES ASSUME NEW s \in Server PROVE ToppedUp(Places(P)[s], s, 0, b, D, T2)
    OBVIOUS
  <2>1. Numbered(Places(P)[s])
    BY <1>2, PlaceType
  <2>2. PICK dp \in Nat, tp \in Nat, dm \in Nat :
          dp = Places(P)[s].dp /\ tp = Places(P)[s].tp /\ dm = Places(P)[s].dm
    BY <2>1 DEF Numbered
  <2>3. Places(P)[s].tm = tm
    BY <1>8 DEF Server
  <2>4. Window(dabit_store[s], dp, dm, D[s]) /\ Window(btriple_store[s], tp, tm, T2[s])
    BY <1>12, <2>2, <2>3 DEF Described, Stores, StoredAt
  <2>5. PICK q, F, m : q = btriple_store[s] /\ F = T2[s] /\ m = M[s]
    OBVIOUS
  <2>6. \A k \in 1 .. b : F[tm + k] = m[k]
    BY <1>10, <2>5
  <2>11. PICK r : r = [k \in 1 .. b |-> m[k]]
    OBVIOUS
  <2>10. Window(q, tp, tm, F)
    BY <2>4, <2>5
  <2>7. Window(q \o r, tp, tm + b, F)
    BY <2>10, <2>6, <2>11, WindowMore
  <2>8. btriple_store'[s] = q \o r
    <3>1. r = [k \in 1 .. b |-> Triple(x[k], y[k], z[k])[s]]
      BY <1>7, <2>5, <2>11
    <3> QED
      BY <1>6, <2>5, <3>1
  <2>9. dm + 0 = dm /\ dabit_store'[s] = dabit_store[s]
    BY <1>1
  <2> QED
    BY <2>2, <2>3, <2>4, <2>5, <2>7, <2>8, <2>9 DEF ToppedUp
<1>14. \A k \in 1 .. b : TriplePair(T2[0][Places(P)[0].tm + k], T2[1][Places(P)[0].tm + k])
  <2> SUFFICES ASSUME NEW k \in 1 .. b PROVE TriplePair(T2[0][tm + k], T2[1][tm + k])
    BY <1>8
  <2>1. TriplePair(Triple(x[k], y[k], z[k])[0], Triple(x[k], y[k], z[k])[1])
    BY TripleGood
  <2>2. T2[0][tm + k] = Triple(x[k], y[k], z[k])[0] /\ T2[1][tm + k] = Triple(x[k], y[k], z[k])[1]
    <3>1. k \in Nat \ {0}
      OBVIOUS
    <3>2. T2[0][tm + k] = M[0][k] /\ T2[1][tm + k] = M[1][k]
      BY <1>10, <3>1 DEF Server
    <3>3. M[0][k] = Triple(x[k], y[k], z[k])[0] /\ M[1][k] = Triple(x[k], y[k], z[k])[1]
      BY <1>7 DEF Server
    <3> QED
      BY <3>2, <3>3
  <2> QED
    BY <2>1, <2>2
<1>15. \A k \in 1 .. 0 : DaBitPair(D[0][Places(P)[0].dm + k], D[1][Places(P)[0].dm + k])
  OBVIOUS
<1>16. DOMAIN dabit_store' = Server /\ DOMAIN btriple_store' = Server
  BY <1>1, <1>2, <1>6 DEF Shape
<1>17. \A s \in Server : pc[s] = "add" /\ (~Lazy \/ Op(s) \in Multiplying)
  BY <1>1
<1> QED
  BY <1>1, <1>5, <1>12, <1>13, <1>14, <1>15, <1>16, <1>17, BothMade

-----------------------------------------------------------------------------
(* Topping up with daBits server 0 makes alone *)

\* Server 0 keeps its halves and is to write the others.
LEMMA LazyMade ==
  ASSUME NEW P, NEW D, NEW T, NEW U, NEW X, Described(P, D, T, U, X), NEW a \in Nat,
         Lazy, pc[0] = "add", Adds(P, 0, a, 0),
         Window(dabit_store'[0], Places(P)[0].dp, Places(P)[0].dm + a, D[0]),
         Window(out'[0], Places(P)[0].em, Places(P)[0].em + a, U[0]),
         dabit_store'[1] = dabit_store[1], out'[1] = out[1], DOMAIN dabit_store' = Server, DOMAIN out' = Server,
         \A k \in 1 .. a : DaBitPair(D[0][Places(P)[0].dm + k], D[1][Places(P)[0].dm + k]),
         Held(U[0], Places(P)[0].em, a) = Held(D[1], Places(P)[0].dm, a),
         pc' = [pc EXCEPT ![0] = "flush"],
         UNCHANGED <<program, call, input, btriple_store, used, chan, got, done>>
  PROVE  Described(P, D, T, U, X)'
<1>0. /\ Shape /\ TableOf(P) /\ program \in Programs /\ Stores(Places(P), D, T) /\ Flow(Places(P), U)
      /\ 0 \in Server /\ 1 \in Server /\ \A z \in Server : PcOK(z)
      /\ DOMAIN pc = Server /\ pc \in [Server -> {"idle", "add", "flush", "take", "open"}]
  BY DEF Described, Shape, Server
<1>1. Calls' = Calls /\ Lazy' = Lazy
  BY OfProgram
<1>2. PICK c \in 1 .. Len(Calls) : c = call[0]
  BY <1>0 DEF PcOK
<1>3. pc'[0] = "flush" /\ pc'[1] = pc[1] /\ call'[0] = c /\ out[0] = <<>> /\ got[0] = <<>>
  BY <1>0, <1>2 DEF PcOK
<1>4. Places(P)[0] = PlaceOf(0, P[c], P[c], P[c])
  BY <1>0, <1>2, PlaceBy
<1>5. PICK dm \in Nat, tm \in Nat, dp \in Nat, tp \in Nat, em \in Nat, base \in Nat :
         /\ dm = Places(P)[0].dm /\ tm = Places(P)[0].tm /\ dp = Places(P)[0].dp /\ tp = Places(P)[0].tp
         /\ em = Places(P)[0].em /\ base = Places(P)[0].base
  BY <1>0, PlaceType DEF Numbered
<1>6. P[c + 1].dmade = P[c].dmade + a /\ P[c + 1].tmade = P[c].tmade + 0
  BY <1>2 DEF Adds
<1>7. /\ Places(P)'[0].dm = dm + a /\ Places(P)'[0].tm = tm /\ Places(P)'[0].dp = dp /\ Places(P)'[0].tp = tp
      /\ Places(P)'[0].em = em + a /\ Places(P)'[0].base = base
      /\ Places(P)'[1] = Places(P)[1]
  <2>1. Places(P)'[0] = PlaceOf(0, P[c + 1], P[c], P[c])
    BY <1>0, <1>3, PlaceByNext
  <2>2. Moved(Places(P)[0], Places(P)'[0], a, 0, 0, 0,
              IF Lazy /\ 0 = 0 THEN a ELSE 0, IF Lazy /\ 0 = 1 THEN a ELSE 0)
    BY <1>0, <1>4, <1>6, <2>1, MadeMove
  <2>3. (IF Lazy /\ 0 = 0 THEN a ELSE 0) = a /\ (IF Lazy /\ 0 = 1 THEN a ELSE 0) = 0
    OBVIOUS
  <2>4. /\ Places(P)'[0].dm = dm + a /\ Places(P)'[0].tm = tm + 0 /\ Places(P)'[0].dp = dp + 0
        /\ Places(P)'[0].tp = tp + 0 /\ Places(P)'[0].em = em + a /\ Places(P)'[0].base = base + 0
    BY <1>5, <2>2, <2>3 DEF Moved
  <2>5. Places(P)'[1] = Places(P)[1]
    BY <1>0, <1>3, SamePlace
  <2> QED
    BY <2>4, <2>5
<1>8. Shape'
  <2>1. PcOK(0)'
    BY <1>1, <1>2, <1>3 DEF PcOK, Op
  <2>2. PcOK(1)'
    BY <1>0, <1>3, PcKept
  <2>3. pc' \in [Server -> {"idle", "add", "flush", "take", "open"}]
    BY <1>0
  <2>4. \A z \in Server : PcOK(z)'
    BY <2>1, <2>2 DEF Server
  <2> QED
    BY <1>0, <1>1, <2>3, <2>4 DEF Shape
<1>9. Level(Places(P))'
  <2>1. PICK y \in Nat : y = Places(P)[1].dm
    BY <1>0, PlaceType DEF Numbered
  <2>2. tm = Places(P)[1].tm /\ y <= dm
    BY <1>5, <2>1 DEF Level, Described
  <2>3. y <= dm + a
    BY <2>2
  <2> QED
    BY <1>1, <1>7, <2>1, <2>2, <2>3 DEF Level
<1>10. Stores(Places(P), D, T)'
  <2>1. StoredAt(Places(P)[0], 0, D, T)'
    BY <1>0, <1>5, <1>7 DEF Stores, StoredAt
  <2>2. StoredAt(Places(P)[1], 1, D, T)'
    BY <1>0, <1>7 DEF Stores, StoredAt
  <2> QED
    BY <2>1, <2>2 DEF Stores, Server
<1>11. Flow(Places(P), U)'
  <2>0. 0 = Other(1) /\ 1 = Other(0)
    BY DEF Other
  <2>1. Queues(got'[1], chan'[1], out'[0], Places(P)'[1].base, Places(P)'[0].em, U[0])
    <3>1. PICK b \in Nat : b = Places(P)[1].base
      BY <1>0, PlaceType DEF Numbered
    <3>2. PICK q, r, o : q = got[1] /\ r = chan[1] /\ o = out'[0]
      OBVIOUS
    <3>3. Queues(q, r, <<>>, b, em, U[0])
      <4>1. Queues(got[1], chan[1], out[0], Places(P)[1].base, Places(P)[0].em, U[0])
        BY <1>0, <2>0, QueuesNow
      <4> QED
        BY <1>3, <1>5, <3>1, <3>2, <4>1
    <3>4. PICK e \in Nat : e = em + a
      OBVIOUS
    <3>5. Window(o, em, e, U[0])
      BY <1>5, <3>2, <3>4
    <3>6. Queues(q, r, o, b, e, U[0])
      BY <3>3, <3>5, QueueFill
    <3> QED
      BY <1>7, <3>1, <3>2, <3>4, <3>6
  <2>2. Queues(got'[0], chan'[0], out'[1], Places(P)'[0].base, Places(P)'[1].em, U[1])
    <3>1. Queues(got[0], chan[0], out[1], Places(P)[0].base, Places(P)[1].em, U[1])
      BY <1>0, <2>0, QueuesNow
    <3> QED
      BY <1>5, <1>7, <3>1
  <2> QED
    BY <2>0, <2>1, <2>2 DEF Flow, FlowTo, Queues, Server
<1>12. Good(Places(P), D, T)'
  <2>1. PICK K, L : K = Places(P) /\ L = Places(P)'
    OBVIOUS
  <2>2. L[0].dm = dm + a /\ L[0].tm = tm + 0
    BY <1>7, <2>1
  <2>3. Good(K, D, T) /\ K[0].dm = dm /\ K[0].tm = tm
    BY <1>5, <2>1 DEF Described
  <2>4. \A k \in 1 .. a : DaBitPair(D[0][dm + k], D[1][dm + k])
    BY <1>5
  <2>5. \A k \in 1 .. 0 : TriplePair(T[0][tm + k], T[1][tm + k])
    OBVIOUS
  <2>6. Good(L, D, T)
    BY <2>2, <2>3, <2>4, <2>5, GoodMore
  <2> QED
    BY <2>1, <2>6
<1>13. Quiet
  BY <1>3 DEF Quiet, Server
<1>14. Masked(P, D, T, U, X)' /\ Inputs(X)' /\ Using(P, D, T, X)' /\ Results(P, D, T, X)'
  BY <1>13, QuietKeeps DEF Described
<1>15. Passed(P, D, U)'
  <2>1. ASSUME NEW d \in 1 .. Len(Calls), Lazy, Passing(d)', ~Passing(d)
        PROVE  Held(U[0], Sends(P[d]) + P[d].dmade, P[d + 1].dmade - P[d].dmade) =
               Held(D[1], P[d].dmade, P[d + 1].dmade - P[d].dmade)
    <3>1. d = c
      BY <1>2, <1>3, <2>1 DEF Passing, Topped
    <3>2. PICK x \in Nat : x = P[c].dmade
      <4>1. P[c] \in Counts
        BY <1>0, TableStep
      <4> QED
        BY <4>1 DEF Counts
    <3>3. P[c + 1].dmade - P[c].dmade = a
      BY <1>6, <3>2
    <3>4. Sends(P[c]) + P[c].dmade = em /\ P[c].dmade = dm
      BY <1>4, <1>5 DEF PlaceOf, Lead
    <3> QED
      BY <1>5, <3>1, <3>3, <3>4
  <2> QED
    BY <2>1, PassedStep DEF Described
<1>16. Reading(P)'
  BY <1>0, <1>3, ReadingStep DEF Described
<1> QED
  BY <1>0, <1>8, <1>9, <1>10, <1>11, <1>12, <1>14, <1>15, <1>16, TableKept DEF Described

LocalDaBits == UNION {{LocalDaBit(bit, r) : r \in LocalRange(bit)} : bit \in {0, 1}}
SomeLocal(n) == \E made \in [1 .. n -> LocalDaBits] :
    /\ dabit_store' = [dabit_store EXCEPT ![0] = @ \o [k \in DOMAIN made |-> made[k][0]]]
    /\ out' = [out EXCEPT ![0] = @ \o [k \in DOMAIN made |-> made[k][1]]]

\* Server 0 making a lazy batch, caching its halves and sending the others,
\* keeps the description with histories of daBits and of messages that go on.
LEMMA MakeLazyStep ==
  ASSUME NEW P, NEW D, NEW T, NEW U, NEW X, Described(P, D, T, U, X), MakeLazy, ModulusFits
  PROVE  \E D2, U2 : Described(P, D2, T, U2, X)'
<1>1. /\ Lazy /\ pc[0] = "add" /\ Op(0) \notin Multiplying
      /\ pc' = [pc EXCEPT ![0] = "flush"]
      /\ UNCHANGED <<program, call, input, btriple_store, used, chan, got, done>>
  BY DEF MakeLazy, Multiplying
<1>2. /\ Shape /\ TableOf(P) /\ Level(Places(P)) /\ Stores(Places(P), D, T) /\ 0 \in Server /\ 1 \in Server
      /\ DOMAIN dabit_store = Server /\ DOMAIN out = Server
      /\ PcOK(0)
  BY DEF Described, Shape, Server
<1>3. PICK a \in Nat : a = ToAdd(0)
  BY <1>1, <1>2, AddsKnown
<1>4. Adds(P, 0, a, 0)
  BY <1>1, <1>2, <1>3, AddsKnown
<1>5. PICK made \in [1 .. a -> LocalDaBits] :
        /\ dabit_store' = [dabit_store EXCEPT ![0] = @ \o [k \in DOMAIN made |-> made[k][0]]]
        /\ out' = [out EXCEPT ![0] = @ \o [k \in DOMAIN made |-> made[k][1]]]
  <2>1. SomeLocal(ToAdd(0))
    BY DEF MakeLazy, SomeLocal, LocalDaBits
  <2>2. SomeLocal(a)
    BY <1>3, <2>1
  <2> QED
    BY <2>2 DEF SomeLocal
<1>6. PICK m, n : m = [k \in 1 .. a |-> made[k][0]] /\ n = [k \in 1 .. a |-> made[k][1]]
  OBVIOUS
<1>7. DOMAIN made = 1 .. a
  OBVIOUS
<1>8. /\ dabit_store'[0] = dabit_store[0] \o m /\ out'[0] = out[0] \o n
      /\ dabit_store'[1] = dabit_store[1] /\ out'[1] = out[1]
      /\ DOMAIN dabit_store' = Server /\ DOMAIN out' = Server
  BY <1>2, <1>5, <1>6, <1>7
<1>9. PICK dm \in Nat, dp \in Nat, em \in Nat :
         dm = Places(P)[0].dm /\ dp = Places(P)[0].dp /\ em = Places(P)[0].em
  BY <1>2, PlaceType DEF Numbered
<1>10. Places(P)[1].dm \in Nat /\ Places(P)[1].dm <= dm
  BY <1>1, <1>2, <1>9, PlaceType DEF Level, Numbered
<1>11. PICK F, G, H, f, g, h : F = D[0] /\ G = D[1] /\ H = U[0]
          /\ f = Beyond(F, dm, m) /\ g = Beyond(G, dm, n) /\ h = Beyond(H, em, n)
  OBVIOUS
<1>12. /\ Agree(F, f, dm) /\ Agree(G, g, dm) /\ Agree(H, h, em)
       /\ Follows(f, dm, m) /\ Follows(g, dm, n) /\ Follows(h, em, n)
  BY <1>11, BeyondIs
<1>13. PICK D2 : D2 = [s \in Server |-> IF s = 0 THEN f ELSE g]
  OBVIOUS
<1>14. PICK U2 : U2 = [s \in Server |-> IF s = 0 THEN h ELSE U[1]]
  OBVIOUS
<1>15. D2[0] = f /\ D2[1] = g /\ U2[0] = h /\ U2[1] = U[1]
  BY <1>2, <1>13, <1>14
<1>16. Grown(Places(P), D, T, U, X, D2, T, U2, X)
  <2> SUFFICES ASSUME NEW s \in Server
               PROVE  /\ Agree(D[s], D2[s], Places(P)[0].dm) /\ Agree(T[s], T[s], Places(P)[0].tm)
                      /\ Agree(U[s], U2[s], Places(P)[s].em)
    BY DEF Grown
  <2>1. Agree(T[s], T[s], Places(P)[0].tm) /\ Agree(U[1], U[1], Places(P)[1].em)
    BY DEF Agree
  <2>2. CASE s = 0
    BY <1>9, <1>11, <1>12, <1>15, <2>1, <2>2
  <2>3. CASE s = 1
    BY <1>9, <1>11, <1>12, <1>15, <2>1, <2>3
  <2> QED
    BY <2>2, <2>3 DEF Server
<1>17. Described(P, D2, T, U2, X)
  BY <1>16, GrownDescribed
<1>18. \A k \in 1 .. a : f[dm + k] = m[k] /\ g[dm + k] = n[k] /\ h[em + k] = n[k]
  <2> SUFFICES ASSUME NEW k \in 1 .. a PROVE f[dm + k] = m[k] /\ g[dm + k] = n[k] /\ h[em + k] = n[k]
    OBVIOUS
  <2>1. k \in Nat \ {0}
    OBVIOUS
  <2>2. Follows(f, dm, m) /\ Follows(g, dm, n) /\ Follows(h, em, n)
    BY <1>12
  <2>3. f[dm + k] = m[k]
    BY <2>1, <2>2 DEF Follows
  <2>4. g[dm + k] = n[k]
    BY <2>1, <2>2 DEF Follows
  <2>5. h[em + k] = n[k]
    BY <2>1, <2>2 DEF Follows
  <2> QED
    BY <2>3, <2>4, <2>5
<1>19. Window(dabit_store'[0], Places(P)[0].dp, Places(P)[0].dm + a, D2[0])
  <2>1. PICK q : q = dabit_store[0]
    OBVIOUS
  <2>2. Window(q, dp, dm, f)
    BY <1>2, <1>9, <1>15, <1>17, <2>1 DEF Described, Stores, StoredAt
  <2>3. m = [k \in 1 .. a |-> m[k]]
    BY <1>6
  <2>4. Window(q \o m, dp, dm + a, f)
    BY <1>18, <2>2, <2>3, WindowMore
  <2> QED
    BY <1>8, <1>9, <1>15, <2>1, <2>4
<1>20. Window(out'[0], Places(P)[0].em, Places(P)[0].em + a, U2[0])
  <2>1. out[0] = <<>>
    BY <1>1, <1>2 DEF PcOK
  <2>2. Window(<<>>, em, em, h)
    BY EmptyWindow
  <2>3. n = [k \in 1 .. a |-> n[k]]
    BY <1>6
  <2>4. Window(<<>> \o n, em, em + a, h)
    BY <1>18, <2>2, <2>3, WindowMore
  <2> QED
    BY <1>8, <1>9, <1>15, <2>1, <2>4
<1>21. \A k \in 1 .. a : DaBitPair(D2[0][Places(P)[0].dm + k], D2[1][Places(P)[0].dm + k])
  <2> SUFFICES ASSUME NEW k \in 1 .. a PROVE DaBitPair(f[dm + k], g[dm + k])
    BY <1>9, <1>15
  <2>5. PICK bit \in {0, 1} : \E r \in LocalRange(bit) : made[k] = LocalDaBit(bit, r)
    <3>1. made[k] \in LocalDaBits
      OBVIOUS
    <3> QED
      BY <3>1 DEF LocalDaBits
  <2>1. PICK r \in LocalRange(bit) : made[k] = LocalDaBit(bit, r)
    BY <2>5
  <2>2. Modulus % 2 = 1
    BY <1>1, <1>2 DEF ModulusFits, Shape, Lazy
  <2>3. DaBitPair(made[k][0], made[k][1])
    BY <2>1, <2>2, LocalGood
  <2>4. m[k] = made[k][0] /\ n[k] = made[k][1]
    BY <1>6
  <2> QED
    BY <1>18, <2>3, <2>4
<1>22. Held(U2[0], Places(P)[0].em, a) = Held(D2[1], Places(P)[0].dm, a)
  <2>1. \A k \in 1 .. a : h[em + k] = g[dm + k]
    BY <1>18
  <2>2. Held(h, em, a) = Held(g, dm, a)
    BY <2>1 DEF Held
  <2> QED
    BY <1>9, <1>15, <2>2
<1> QED
  BY <1>1, <1>4, <1>8, <1>17, <1>19, <1>20, <1>21, <1>22, LazyMade

\* What server 1 has read of a top-up is what server 0 made for it.
LEMMA PassedOn ==
  ASSUME NEW P, NEW D, NEW T, NEW U, NEW X, Described(P, D, T, U, X), Lazy, pc[1] = "add",
         NEW c \in 1 .. Len(Calls), c = call[1], NEW a \in Nat, Adds(P, 1, a, 0), Len(got[1]) = a,
         NEW dm \in Nat, dm = Places(P)[1].dm, NEW d0 \in Nat, d0 = Places(P)[0].dm
  PROVE  Window(got[1], dm, dm + a, D[1]) /\ dm + a <= d0
<1>0. /\ Shape /\ TableOf(P) /\ program \in Programs /\ Flow(Places(P), U) /\ 0 \in Server /\ 1 \in Server
      /\ 0 = Other(1) /\ 1 = Other(0) /\ Level(Places(P))
  BY DEF Described, Shape, Server, Other
<1>1. Places(P)[1] = PlaceOf(1, P[c], P[c], P[c])
  BY <1>0, PlaceBy
<1>2. PICK f \in Nat, e \in Nat : f = Places(P)[1].base /\ e = Places(P)[0].em
  BY <1>0, PlaceType DEF Numbered
<1>3. PICK x \in Nat : x = Sends(P[c])
  BY <1>0, SendsStep
<1>4. f = x + dm /\ dm = P[c].dmade
  BY <1>1, <1>2, <1>3 DEF PlaceOf, Lag
<1>5. P[c + 1].dmade = dm + a
  BY <1>4 DEF Adds
<1>6. PICK q : q = got[1]
  OBVIOUS
<1>7. Window(q, f, f + a, U[0]) /\ f + a <= e
  <2>1. Queues(got[1], chan[1], out[0], Places(P)[1].base, Places(P)[0].em, U[0])
    BY <1>0, QueuesNow
  <2>2. PICK r, o : r = chan[1] /\ o = out[0]
    OBVIOUS
  <2>3. Queues(q, r, o, f, e, U[0])
    BY <1>2, <1>6, <2>1, <2>2
  <2>4. PICK k \in Nat, y \in Nat, z \in Nat : k = Len(q) /\ y = Len(r) /\ z = Len(o) /\ f + k + y + z = e
    BY <2>3, QueueLens
  <2>5. k = a
    BY <1>6, <2>4
  <2>6. Window(q, f, f + Len(q), U[0])
    BY <2>3 DEF Queues
  <2> QED
    BY <2>4, <2>5, <2>6
<1>8. CASE a = 0
  <2>1. dm <= d0
    BY <1>0 DEF Level
  <2>2. Window(q, f, f, U[0])
    BY <1>7, <1>8
  <2>3. q = <<>>
    BY <2>2, WindowLen
  <2>4. Window(q, dm, dm, D[1])
    BY <2>3, EmptyWindow
  <2> QED
    BY <1>6, <1>8, <2>1, <2>4
<1>9. CASE a > 0
  <2>1. Passing(c)
    <3>1. PICK n \in Nat : n = f + a
      OBVIOUS
    <3>2. n <= Places(P)[0].em /\ n >= Sends(P[c]) + P[c + 1].dmade /\ P[c + 1].dmade > P[c].dmade
      <4>1. f + a <= e /\ f = x + dm
        BY <1>4, <1>7
      <4>2. n <= e /\ n >= x + (dm + a) /\ dm + a > dm
        <5>1. n <= e
          BY <3>1, <4>1
        <5>2. dm + a > dm
          BY <1>9
        <5>3. n >= x + (dm + a)
          <6>1. x + (dm + a) = (x + dm) + a
            OBVIOUS
          <6>2. n = x + (dm + a)
            BY <3>1, <4>1, <6>1
          <6>3. n >= n
            OBVIOUS
          <6> QED
            BY <6>2, <6>3
        <5> QED
          BY <5>1, <5>2, <5>3
      <4>3. P[c + 1].dmade > P[c].dmade
        BY <1>4, <1>5, <4>2
      <4>4. n <= Places(P)[0].em
        BY <1>2, <4>2
      <4>5. n >= Sends(P[c]) + P[c + 1].dmade
        BY <1>3, <1>5, <4>2
      <4> QED
        BY <4>3, <4>4, <4>5
    <3> QED
      BY <1>0, <3>1, <3>2, PassReach
  <2>2. dm + a <= d0
    BY <1>0, <1>5, <2>1, PassedReach
  <2>3. Held(U[0], f, a) = Held(D[1], dm, a)
    <3>1. Held(U[0], Sends(P[c]) + P[c].dmade, P[c + 1].dmade - P[c].dmade) =
          Held(D[1], P[c].dmade, P[c + 1].dmade - P[c].dmade)
      BY <2>1 DEF Passed, Described
    <3>2. (dm + a) - dm = a
      OBVIOUS
    <3> QED
      BY <1>3, <1>4, <1>5, <3>1, <3>2
  <2>4. \A k \in 1 .. a : U[0][f + k] = D[1][dm + k]
    <3> SUFFICES ASSUME NEW k \in 1 .. a PROVE U[0][f + k] = D[1][dm + k]
      OBVIOUS
    <3>1. Held(U[0], f, a)[k] = U[0][f + k] /\ Held(D[1], dm, a)[k] = D[1][dm + k]
      BY DEF Held
    <3> QED
      BY <2>3, <3>1
  <2>5. Window(q, dm, dm + a, D[1])
    <3>1. Len(q) = a /\ (dm + a) - dm = a /\ (\E S : q \in Seq(S))
      BY <1>6, <1>7 DEF Window
    <3>2. \A k \in 1 .. a : q[k] = U[0][f + k]
      BY <1>7, <3>1 DEF Window
    <3>3. \A k \in 1 .. a : q[k] = D[1][dm + k]
      BY <2>4, <3>2
    <3> QED
      BY <3>1, <3>3 DEF Window
  <2> QED
    BY <1>6, <2>2, <2>5
<1> QED
  BY <1>8, <1>9

\* Server 1 puts away what it has read of a top-up.
LEMMA PutAway ==
  ASSUME NEW P, NEW D, NEW T, NEW U, NEW X, Described(P, D, T, U, X), Lazy, pc[1] = "add",
         NEW a \in Nat, Adds(P, 1, a, 0), Len(got[1]) = a,
         dabit_store' = [dabit_store EXCEPT ![1] = @ \o got[1]], got' = [got EXCEPT ![1] = <<>>],
         pc' = [pc EXCEPT ![1] = "take"],
         UNCHANGED <<program, call, input, btriple_store, used, out, chan, done>>
  PROVE  Described(P, D, T, U, X)'
<1>0. /\ Shape /\ TableOf(P) /\ program \in Programs /\ Stores(Places(P), D, T) /\ Flow(Places(P), U)
      /\ 0 \in Server /\ 1 \in Server /\ \A z \in Server : PcOK(z)
      /\ DOMAIN pc = Server /\ pc \in [Server -> {"idle", "add", "flush", "take", "open"}]
      /\ DOMAIN got = Server /\ DOMAIN dabit_store = Server
  BY DEF Described, Shape, Server
<1>1. Calls' = Calls /\ Lazy' = Lazy
  BY OfProgram
<1>2. PICK c \in 1 .. Len(Calls) : c = call[1]
  BY <1>0 DEF PcOK
<1>3. /\ pc'[1] = "take" /\ pc'[0] = pc[0] /\ call'[1] = c /\ out[1] = <<>>
      /\ got'[1] = <<>> /\ got'[0] = got[0] /\ DOMAIN got' = Server
      /\ dabit_store'[1] = dabit_store[1] \o got[1] /\ dabit_store'[0] = dabit_store[0]
      /\ DOMAIN dabit_store' = Server
  BY <1>0, <1>2 DEF PcOK
<1>4. Places(P)[1] = PlaceOf(1, P[c], P[c], P[c])
  BY <1>0, <1>2, PlaceBy
<1>5. PICK dm \in Nat, tm \in Nat, dp \in Nat, tp \in Nat, em \in Nat, base \in Nat :
         /\ dm = Places(P)[1].dm /\ tm = Places(P)[1].tm /\ dp = Places(P)[1].dp /\ tp = Places(P)[1].tp
         /\ em = Places(P)[1].em /\ base = Places(P)[1].base
  BY <1>0, PlaceType DEF Numbered
<1>6. P[c + 1].dmade = P[c].dmade + a /\ P[c + 1].tmade = P[c].tmade + 0
  BY <1>2 DEF Adds
<1>7. /\ Places(P)'[1].dm = dm + a /\ Places(P)'[1].tm = tm /\ Places(P)'[1].dp = dp /\ Places(P)'[1].tp = tp
      /\ Places(P)'[1].em = em /\ Places(P)'[1].base = base + a
      /\ Places(P)'[0] = Places(P)[0]
  <2>1. Places(P)'[1] = PlaceOf(1, P[c + 1], P[c], P[c])
    BY <1>0, <1>3, PlaceByNext
  <2>6. PICK s \in Server : s = 1
    BY <1>0
  <2>2. Moved(Places(P)[s], Places(P)'[s], a, 0, 0, 0,
              IF Lazy /\ s = 0 THEN a ELSE 0, IF Lazy /\ s = 1 THEN a ELSE 0)
    <3>1. Moved(PlaceOf(s, P[c], P[c], P[c]), PlaceOf(s, P[c + 1], P[c], P[c]), a, 0, 0, 0,
                IF Lazy /\ s = 0 THEN a ELSE 0, IF Lazy /\ s = 1 THEN a ELSE 0)
      BY <1>0, <1>6, MadeMove
    <3> QED
      BY <1>4, <2>1, <2>6, <3>1
  <2>3. (IF Lazy /\ s = 0 THEN a ELSE 0) = 0 /\ (IF Lazy /\ s = 1 THEN a ELSE 0) = a
    BY <2>6
  <2>4. /\ Places(P)'[1].dm = dm + a /\ Places(P)'[1].tm = tm + 0 /\ Places(P)'[1].dp = dp + 0
        /\ Places(P)'[1].tp = tp + 0 /\ Places(P)'[1].em = em + 0 /\ Places(P)'[1].base = base + a
    BY <1>5, <2>2, <2>3, <2>6 DEF Moved
  <2>5. Places(P)'[0] = Places(P)[0]
    BY <1>0, <1>3, SamePlace
  <2> QED
    BY <2>4, <2>5
<1>8. PICK d0 \in Nat : d0 = Places(P)[0].dm
  BY <1>0, PlaceType DEF Numbered
<1>9. Window(got[1], dm, dm + a, D[1]) /\ dm + a <= d0
  BY <1>2, <1>5, <1>8, PassedOn
<1>10. Shape'
  <2>1. PcOK(1)'
    BY <1>1, <1>2, <1>3 DEF PcOK, Op
  <2>2. PcOK(0)'
    BY <1>0, <1>3, PcKept
  <2>3. pc' \in [Server -> {"idle", "add", "flush", "take", "open"}]
    BY <1>0
  <2>4. \A z \in Server : PcOK(z)'
    BY <2>1, <2>2 DEF Server
  <2> QED
    BY <1>0, <1>1, <1>3, <2>3, <2>4 DEF Shape
<1>11. Level(Places(P))'
  <2>1. Places(P)[0].tm = tm
    BY <1>5 DEF Level, Described
  <2> QED
    BY <1>1, <1>7, <1>8, <1>9, <2>1 DEF Level
<1>12. Stores(Places(P), D, T)'
  <2>1. StoredAt(Places(P)[1], 1, D, T)'
    <3>1. PICK q, r, F : q = dabit_store[1] /\ r = got[1] /\ F = D[1]
      OBVIOUS
    <3>2. Window(q, dp, dm, F) /\ Window(btriple_store[1], tp, tm, T[1])
      BY <1>0, <1>5, <3>1 DEF Stores, StoredAt
    <3>3. PICK e \in Nat : e = dm + a
      OBVIOUS
    <3>4. Window(q \o r, dp, e, F)
      BY <1>9, <3>1, <3>2, <3>3, WindowConcat
    <3> QED
      BY <1>3, <1>7, <3>1, <3>2, <3>3, <3>4 DEF StoredAt
  <2>2. StoredAt(Places(P)[0], 0, D, T)'
    BY <1>0, <1>3, <1>7 DEF Stores, StoredAt
  <2> QED
    BY <2>1, <2>2 DEF Stores, Server
<1>13. Flow(Places(P), U)'
  <2>0. 0 = Other(1) /\ 1 = Other(0)
    BY DEF Other
  <2>1. Queues(got'[1], chan'[1], out'[0], Places(P)'[1].base, Places(P)'[0].em, U[0])
    <3>1. PICK e \in Nat : e = Places(P)[0].em
      BY <1>0, PlaceType DEF Numbered
    <3>2. PICK q, r, o : q = got[1] /\ r = chan[1] /\ o = out[0]
      OBVIOUS
    <3>3. Queues(q, r, o, base, e, U[0])
      <4>1. Queues(got[1], chan[1], out[0], Places(P)[1].base, Places(P)[0].em, U[0])
        BY <1>0, <2>0, QueuesNow
      <4> QED
        BY <1>5, <3>1, <3>2, <4>1
    <3>4. Queues(<<>>, r, o, base + Len(q), e, U[0])
      BY <3>3, QueueDrop
    <3>5. Len(q) = a
      BY <3>2
    <3> QED
      BY <1>3, <1>7, <3>1, <3>2, <3>4, <3>5
  <2>2. Queues(got'[0], chan'[0], out'[1], Places(P)'[0].base, Places(P)'[1].em, U[1])
    <3>1. Queues(got[0], chan[0], out[1], Places(P)[0].base, Places(P)[1].em, U[1])
      BY <1>0, <2>0, QueuesNow
    <3> QED
      BY <1>3, <1>5, <1>7, <3>1
  <2> QED
    BY <2>0, <2>1, <2>2 DEF Flow, FlowTo, Queues, Server
<1>14. Good(Places(P), D, T)'
  BY <1>7 DEF Good, Described
<1>15. Quiet
  BY <1>3 DEF Quiet, Server
<1>16. Masked(P, D, T, U, X)' /\ Inputs(X)' /\ Using(P, D, T, X)' /\ Results(P, D, T, X)'
  BY <1>15, QuietKeeps DEF Described
<1>17. Passed(P, D, U)'
  BY <1>3, PassedStep DEF Passing, Topped, Described
<1>18. Reading(P)'
  BY <1>3, ReadingStep DEF Described
<1> QED
  BY <1>0, <1>10, <1>11, <1>12, <1>13, <1>14, <1>16, <1>17, <1>18, TableKept DEF Described

\* Server 1 taking its halves off the socket keeps the description: they are
\* the next ones of the history.
LEMMA RecvLazyStep ==
  ASSUME NEW P, NEW D, NEW T, NEW U, NEW X, Described(P, D, T, U, X), RecvLazy
  PROVE  Described(P, D, T, U, X)'
<1>1. Lazy /\ pc[1] = "add" /\ Op(1) \notin Multiplying
  BY DEF RecvLazy, Multiplying
<1>2. /\ Shape /\ TableOf(P) /\ Stores(Places(P), D, T) /\ Flow(Places(P), U) /\ 0 \in Server /\ 1 \in Server
      /\ 0 = Other(1)
  BY DEF Described, Server, Other
<1>3. PICK a \in Nat : a = ToAdd(1)
  BY <1>1, <1>2, AddsKnown
<1>4. Adds(P, 1, a, 0) /\ call[1] \in 1 .. Len(Calls)
  BY <1>1, <1>2, <1>3, AddsKnown
<1>5. PICK n \in Nat : n = Len(got[1])
  <2>1. Places(P)[1].base \in Nat /\ Places(P)[0].em \in Nat
    BY <1>2, PlaceType DEF Numbered
  <2>2. PICK b \in Nat, e \in Nat : b = Places(P)[1].base /\ e = Places(P)[0].em
    BY <2>1
  <2>5. PICK q, r, o : q = got[1] /\ r = chan[1] /\ o = out[0]
    OBVIOUS
  <2>3. Queues(got[1], chan[1], out[0], Places(P)[1].base, Places(P)[0].em, U[0])
    BY <1>2, QueuesNow
  <2>4. Queues(q, r, o, b, e, U[0])
    BY <2>2, <2>3, <2>5
  <2> QED
    BY <2>5, <2>4, QueueLens
<1>6. P[call[1] + 1].dmade - P[call[1]].dmade = a
  <2>1. PICK x \in Nat : x = P[call[1]].dmade
    <3>1. P[call[1]] \in Counts
      BY <1>2, <1>4, TableStep DEF Shape
    <3> QED
      BY <3>1 DEF Counts
  <2>2. P[call[1] + 1].dmade = x + a
    BY <1>4, <2>1 DEF Adds
  <2> QED
    BY <2>1, <2>2
<1>7. n <= a
  BY <1>1, <1>5, <1>6 DEF Reading, Described
<1>8. CASE n < a
  <2>1. /\ chan[1] # <<>>
        /\ got' = [got EXCEPT ![1] = Append(@, Head(chan[1]))]
        /\ chan' = [chan EXCEPT ![1] = Tail(@)]
        /\ UNCHANGED <<dabit_store, pc>> /\ UNCHANGED <<program, call, input, btriple_store, used, out, done>>
    BY <1>3, <1>5, <1>8 DEF RecvLazy
  <2>2. pc[1] = "add" => Len(got[1]) < P[call[1] + 1].dmade - P[call[1]].dmade
    BY <1>5, <1>6, <1>8
  <2>3. got' = [got EXCEPT ![1] = Append(got[1], Head(chan[1]))] /\ chan' = [chan EXCEPT ![1] = Tail(chan[1])]
    BY <2>1
  <2> QED
    BY <1>1, <1>2, <2>1, <2>2, <2>3, UnitRead
<1>9. CASE n = a
  <2>1. /\ dabit_store' = [dabit_store EXCEPT ![1] = @ \o got[1]]
        /\ got' = [got EXCEPT ![1] = <<>>]
        /\ pc' = [pc EXCEPT ![1] = "take"]
        /\ UNCHANGED chan /\ UNCHANGED <<program, call, input, btriple_store, used, out, done>>
    <3>1. ~(Len(got[1]) < ToAdd(1))
      BY <1>3, <1>5, <1>9
    <3> QED
      BY <3>1 DEF RecvLazy
  <2>2. Len(got[1]) = a
    BY <1>5, <1>9
  <2> QED
    BY <1>1, <1>4, <2>1, <2>2, PutAway
<1> QED
  BY <1>7, <1>8, <1>9

-----------------------------------------------------------------------------
(* The invariant is kept *)

\* A server begins a call on some operands.
LEMMA BeginGrows ==
  ASSUME NEW P, NEW D, NEW T, NEW U, NEW X, Described(P, D, T, U, X), NEW s \in Server, Begin(s)
  PROVE  \E X2 : Described(P, D, T, U, X2)'
<1>1. pc[s] = "idle" /\ call[s] <= Len(Calls)
  BY DEF Begin
<1>2. Shape /\ program \in Programs /\ DOMAIN input = Server
  BY DEF Described, Shape
<1>3. PICK c \in 1 .. Len(Calls) : c = call[s]
  <2>1. PICK n \in Nat : n = Len(Calls)
    BY <1>2, CallType
  <2>2. PICK c \in 1 .. n + 1 : c = call[s]
    BY <1>2, <2>1 DEF Shape
  <2> QED
    BY <1>1, <2>1, <2>2
<1>4. N(Widths(s)) = Size(c)
  BY <1>2, <1>3, CallNow
<1>5. PICK i : i = input'[s]
  OBVIOUS
<1>6. i \in Operands(c)
  <2>1. PICK x \in Bits(N(Widths(s))), y \in Bits(N(Widths(s))) :
           input' = [input EXCEPT ![s] = [x |-> x, y |-> y]]
    BY DEF Begin
  <2>2. i = [x |-> x, y |-> y]
    BY <1>2, <1>5, <2>1
  <2> QED
    BY <1>4, <2>2 DEF Operands
<1>7. PICK X2 : X2 = [z \in Server |-> [d \in 1 .. Len(Calls) |-> IF z = s /\ d = c THEN i ELSE X[z][d]]]
  OBVIOUS
<1>8. \A z \in Server : \A d \in 1 .. Len(Calls) : Begun(z, d) => X2[z][d] = X[z][d]
  <2>1. ~Begun(s, c)
    <3>1. PICK n \in Nat : n = c
      OBVIOUS
    <3> QED
      BY <1>1, <1>3, <3>1 DEF Begun
  <2> SUFFICES ASSUME NEW z \in Server, NEW d \in 1 .. Len(Calls), Begun(z, d) PROVE X2[z][d] = X[z][d]
    OBVIOUS
  <2>2. ~(z = s /\ d = c)
    BY <2>1
  <2> QED
    BY <1>7, <2>2
<1>9. Grown(Places(P), D, T, U, X, D, T, U, X2)
  BY <1>8 DEF Grown, Agree
<1>10. Described(P, D, T, U, X2)
  BY <1>9, GrownDescribed
<1>11. X2[s][c] = i
  BY <1>7
<1>12. input'[s] = X2[s][call[s]] /\ X2[s][call[s]] \in Operands(call[s])
  BY <1>3, <1>5, <1>6, <1>11
<1> QED
  BY <1>10, <1>12, BeginStep

\* A server pops and sends what it masks.
LEMMA TakeGrows ==
  ASSUME NEW P, NEW D, NEW T, NEW U, NEW X, Described(P, D, T, U, X), NEW s \in Server, Take(s)
  PROVE  \E U2 : Described(P, D, T, U2, X)'
<1>1. pc[s] = "take"
  BY DEF Take
<1>2. Shape /\ TableOf(P) /\ program \in Programs
  BY DEF Described, Shape
<1>3. PICK c \in 1 .. Len(Calls) : c = call[s]
  BY <1>1, <1>2 DEF Shape, PcOK
<1>4. PICK u \in Nat : u = Units(c)
  BY <1>2, SendsStep
<1>5. PICK em \in Nat : em = Places(P)[s].em
  BY <1>2, PlaceType DEF Numbered
<1>6. PICK m : m = Masks(c, Hand(P, D, T, X, s, c))
  OBVIOUS
<1>7. PICK F, G : F = U[s] /\ G = Beyond(F, em, m)
  OBVIOUS
<1>8. Agree(F, G, em) /\ Follows(G, em, m)
  BY <1>7, BeyondIs
<1>9. PICK U2 : U2 = [z \in Server |-> IF z = s THEN G ELSE U[z]]
  OBVIOUS
<1>10. U2[s] = G
  BY <1>9
<1>11. Grown(Places(P), D, T, U, X, D, T, U2, X)
  <2> SUFFICES ASSUME NEW z \in Server
               PROVE  /\ Agree(D[z], D[z], Places(P)[0].dm) /\ Agree(T[z], T[z], Places(P)[0].tm)
                      /\ Agree(U[z], U2[z], Places(P)[z].em)
    BY DEF Grown
  <2>1. /\ Agree(D[z], D[z], Places(P)[0].dm) /\ Agree(T[z], T[z], Places(P)[0].tm)
        /\ Agree(U[z], U[z], Places(P)[z].em)
    BY DEF Agree
  <2>2. z = s => Agree(U[z], U2[z], Places(P)[z].em)
    BY <1>5, <1>7, <1>8, <1>10
  <2>3. z # s => U2[z] = U[z]
    BY <1>9
  <2> QED
    BY <2>1, <2>2, <2>3
<1>12. Described(P, D, T, U2, X)
  BY <1>11, GrownDescribed
<1>13. Held(G, em, u) = m
  <2>1. \A k \in 1 .. u : G[em + k] = m[k]
    <3> SUFFICES ASSUME NEW k \in 1 .. u PROVE G[em + k] = m[k]
      OBVIOUS
    <3>1. k \in Nat \ {0}
      OBVIOUS
    <3> QED
      BY <1>8, <3>1 DEF Follows
  <2>2. m = [k \in 1 .. u |-> m[k]]
    BY <1>4, <1>6 DEF Masks
  <2> QED
    BY <2>1, <2>2 DEF Held
<1>14. Held(U2[s], Places(P)[s].em, Units(c)) = Masks(c, Hand(P, D, T, X, s, c))
  BY <1>4, <1>5, <1>6, <1>10, <1>13
<1> QED
  BY <1>3, <1>12, <1>14, TakeStep

\* What a server is short of while it tops up, its caches being its own.
LEMMA WantingKept ==
  ASSUME Wanting, program' = program,
         \A s \in Server : pc'[s] = "add" =>
            /\ call'[s] = call[s] /\ dabit_store'[s] = dabit_store[s] /\ btriple_store'[s] = btriple_store[s]
            /\ pc[s] = "add" \/ ToAdd(s) > 0
  PROVE  Wanting'
<1> SUFFICES ASSUME NEW s \in Server, pc'[s] = "add" PROVE ToAdd(s)' > 0
  BY DEF Wanting
<1>1. call'[s] = call[s] /\ dabit_store'[s] = dabit_store[s] /\ btriple_store'[s] = btriple_store[s]
  OBVIOUS
<1>2. ToAdd(s)' = ToAdd(s)
  <2>1. Op(s)' = Op(s) /\ Widths(s)' = Widths(s) /\ Batch' = Batch
    BY <1>1 DEF Op, Widths, Calls, Batch
  <2> QED
    BY <1>1, <2>1 DEF ToAdd, ShortBy
<1>3. ToAdd(s) > 0
  BY DEF Wanting
<1> QED
  BY <1>2, <1>3

Kept(s) == call'[s] = call[s] /\ dabit_store'[s] = dabit_store[s] /\ btriple_store'[s] = btriple_store[s]

\* A server at a refill always has something to add.
LEMMA WantingNext ==
  ASSUME Shape, Wanting, [Next]_vars PROVE Wanting'
<1>1. /\ DOMAIN pc = Server /\ DOMAIN call = Server
      /\ DOMAIN dabit_store = Server /\ DOMAIN btriple_store = Server
  BY DEF Shape
<1>2. program' = program /\ \A s \in Server : pc'[s] = "add" => Kept(s) /\ (pc[s] = "add" \/ ToAdd(s) > 0)
  <2>1. CASE UNCHANGED vars
    BY <2>1 DEF vars, Kept
  <2>2. CASE MakeDaBits \/ MakeTriples
    BY <2>2 DEF MakeDaBits, MakeTriples
  <2>3. CASE MakeLazy
    BY <1>1, <2>3 DEF MakeLazy, Kept, Server
  <2>4. CASE Flushed
    BY <1>1, <2>4 DEF Flushed, Kept, Server
  <2>5. CASE RecvLazy
    BY <1>1, <2>5 DEF RecvLazy, Kept, Server
  <2>6. ASSUME NEW t \in Server, Begin(t)
        PROVE  program' = program /\ \A s \in Server : pc'[s] = "add" => Kept(s) /\ (pc[s] = "add" \/ ToAdd(s) > 0)
    BY <1>1, <2>6 DEF Begin, Kept
  <2>7. ASSUME NEW t \in Server, Checked(t) \/ Finish(t)
        PROVE  program' = program /\ \A s \in Server : pc'[s] = "add" => Kept(s) /\ (pc[s] = "add" \/ ToAdd(s) > 0)
    BY <1>1, <2>7 DEF Checked, Finish, Return, Kept
  <2>8. ASSUME NEW t \in Server, Take(t)
        PROVE  program' = program /\ \A s \in Server : pc'[s] = "add" => Kept(s) /\ (pc[s] = "add" \/ ToAdd(s) > 0)
    BY <1>1, <2>8 DEF Take, Kept
  <2>9. ASSUME NEW t \in Server, Read(t) \/ Write(t)
        PROVE  program' = program /\ \A s \in Server : pc'[s] = "add" => Kept(s) /\ (pc[s] = "add" \/ ToAdd(s) > 0)
    BY <1>1, <2>9 DEF Read, Write, Kept
  <2> QED
    BY <2>1, <2>2, <2>3, <2>4, <2>5, <2>6, <2>7, <2>8, <2>9 DEF Next, Generate, ServerStep
<1> QED
  BY <1>2, WantingKept DEF Kept

\* Stuttering.
LEMMA StutterStep ==
  ASSUME NEW P, NEW D, NEW T, NEW U, NEW X, Described(P, D, T, U, X), UNCHANGED vars
  PROVE  Described(P, D, T, U, X)'
<1>1. /\ Unmoved /\ input' = input /\ dabit_store' = dabit_store /\ btriple_store' = btriple_store
      /\ used' = used /\ done' = done /\ out' = out /\ chan' = chan /\ got' = got
  BY DEF vars, Unmoved
<1>2. Shape /\ TableOf(P) /\ Flow(Places(P), U)
  BY DEF Described
<1>3. DOMAIN out' = Server /\ DOMAIN chan' = Server /\ DOMAIN got' = Server
  BY <1>1, <1>2 DEF Shape
<1>4. \A s \in Server : PcOK(s)'
  BY <1>1, <1>2, PcKept DEF Unmoved, Shape
<1>5. Reading(P)'
  BY <1>1, ReadingStep DEF Unmoved, Described
<1>6. \A t \in Server : \A s \in Server : s = Other(t) =>
        Queues(got'[t], chan'[t], out'[s], Places(P)[t].base, Places(P)[s].em, U[s])
  BY <1>1, <1>2, QueuesNow
<1> QED
  BY <1>1, <1>3, <1>4, <1>5, <1>6, QueuesMove

Inv == Aligned /\ Wanting

\* Every step keeps the invariant.
LEMMA AlignedNext ==
  ASSUME ModulusFits, Inv, [Next]_vars PROVE Inv'
<1>1. PICK P, D, T, U, X : Described(P, D, T, U, X)
  BY DEF Inv, Aligned
<1>2. \E D2, T2, U2, X2 : Described(P, D2, T2, U2, X2)'
  <2>1. CASE UNCHANGED vars
    BY <1>1, <2>1, StutterStep
  <2>2. CASE MakeDaBits
    BY <1>1, <2>2, MakeDaBitsStep
  <2>3. CASE MakeTriples
    BY <1>1, <2>3, MakeTriplesStep DEF Inv
  <2>4. CASE MakeLazy
    BY <1>1, <2>4, MakeLazyStep
  <2>5. CASE Flushed
    BY <1>1, <2>5, FlushedStep
  <2>6. CASE RecvLazy
    BY <1>1, <2>6, RecvLazyStep
  <2>7. ASSUME NEW s \in Server, Begin(s) PROVE \E D2, T2, U2, X2 : Described(P, D2, T2, U2, X2)'
    BY <1>1, <2>7, BeginGrows
  <2>8. ASSUME NEW s \in Server, Checked(s) PROVE \E D2, T2, U2, X2 : Described(P, D2, T2, U2, X2)'
    BY <1>1, <2>8, CheckedStep
  <2>9. ASSUME NEW s \in Server, Take(s) PROVE \E D2, T2, U2, X2 : Described(P, D2, T2, U2, X2)'
    BY <1>1, <2>9, TakeGrows
  <2>10. ASSUME NEW s \in Server, Read(s) PROVE \E D2, T2, U2, X2 : Described(P, D2, T2, U2, X2)'
    BY <1>1, <2>10, ReadStep
  <2>11. ASSUME NEW s \in Server, Finish(s) PROVE \E D2, T2, U2, X2 : Described(P, D2, T2, U2, X2)'
    BY <1>1, <2>11, FinishStep
  <2>12. ASSUME NEW s \in Server, Write(s) PROVE \E D2, T2, U2, X2 : Described(P, D2, T2, U2, X2)'
    BY <1>1, <2>12, WriteStep
  <2> QED
    BY <2>1, <2>2, <2>3, <2>4, <2>5, <2>6, <2>7, <2>8, <2>9, <2>10, <2>11, <2>12 DEF Next, Generate, ServerStep
<1>3. Aligned'
  BY <1>2 DEF Aligned
<1>4. Wanting'
  BY <1>1, WantingNext DEF Inv, Described
<1> QED
  BY <1>3, <1>4 DEF Inv

-----------------------------------------------------------------------------
(* It holds initially, and keeps the stores aligned *)

\* Initially nothing was made or sent, and the table of places exists.
LEMMA InitAligned ==
  ASSUME Init PROVE Inv
<1>1. program \in Programs
  BY DEF Init
<1>2. PICK P : TableOf(P)
  BY <1>1, TableExists
<1>3. PICK n \in Nat : n = Len(Calls) /\ DOMAIN Calls = 1 .. n
  BY <1>1, CallType
<1>4. \A s \in Server : /\ call[s] = 1 /\ pc[s] = "idle" /\ dabit_store[s] = <<>> /\ btriple_store[s] = <<>>
                        /\ used[s] = <<>> /\ out[s] = <<>> /\ chan[s] = <<>> /\ got[s] = <<>> /\ done[s] = <<>>
  BY DEF Init
<1>5. Shape
  <2>1. \A s \in Server : PcOK(s)
    BY <1>4 DEF PcOK
  <2>2. call \in [Server -> 1 .. n + 1] /\ pc \in [Server -> {"idle", "add", "flush", "take", "open"}]
    BY DEF Init
  <2>3. /\ DOMAIN input = Server /\ DOMAIN dabit_store = Server /\ DOMAIN btriple_store = Server
        /\ DOMAIN used = Server /\ DOMAIN out = Server /\ DOMAIN chan = Server
        /\ DOMAIN got = Server /\ DOMAIN done = Server
    BY DEF Init
  <2> QED
    BY <1>1, <1>3, <2>1, <2>2, <2>3 DEF Shape
<1>6. P[1] = Zero
  BY <1>2 DEF TableOf
<1>7. \A s \in Server : /\ Places(P)[s].dm = 0 /\ Places(P)[s].tm = 0 /\ Places(P)[s].dp = 0
                        /\ Places(P)[s].tp = 0 /\ Places(P)[s].em = 0 /\ Places(P)[s].base = 0
  <2> SUFFICES ASSUME NEW s \in Server
               PROVE  /\ Places(P)[s].dm = 0 /\ Places(P)[s].tm = 0 /\ Places(P)[s].dp = 0
                      /\ Places(P)[s].tp = 0 /\ Places(P)[s].em = 0 /\ Places(P)[s].base = 0
    OBVIOUS
  <2>1. Places(P)[s] = PlaceOf(s, P[1], P[1], P[1])
    BY <1>4, PlaceBy
  <2> QED
    BY <1>6, <2>1 DEF PlaceOf, Zero, Sends, Lead, Lag
<1>8. PICK E : E = [s \in Server |-> <<>>]
  OBVIOUS
<1>9. \A F : Window(<<>>, 0, 0, F)
  BY EmptyWindow
<1>10. Level(Places(P)) /\ Reading(P) /\ Good(Places(P), E, E)
  BY <1>4, <1>7 DEF Level, Reading, Good, Server
<1>11. Stores(Places(P), E, E)
  BY <1>4, <1>7, <1>9 DEF Stores, StoredAt
<1>12. Flow(Places(P), E)
  <2> SUFFICES ASSUME NEW t \in Server PROVE FlowTo(Places(P)[t].base, Places(P)[Other(t)].em, t, Other(t), E[Other(t)])
    BY DEF Flow
  <2>1. Places(P)[t].base = 0 /\ Places(P)[Other(t)].em = 0
    BY <1>7, Others
  <2>2. got[t] = <<>> /\ chan[t] = <<>> /\ out[Other(t)] = <<>>
    BY <1>4, Others
  <2>3. Len(<<>>) = 0 /\ 0 + 0 = 0
    OBVIOUS
  <2> QED
    BY <1>9, <2>1, <2>2, <2>3 DEF FlowTo
<1>13. \A s \in Server : \A c \in 1 .. Len(Calls) : ~(c < call[s])
  BY <1>3, <1>4
<1>14. Masked(P, E, E, E, E) /\ Passed(P, E, E)
  BY <1>4, <1>13 DEF Masked, Passed, Taken, Passing, Topped, Server
<1>15. Inputs(E) /\ Using(P, E, E, E)
  BY <1>4, <1>13 DEF Inputs, Using
<1>16. Results(P, E, E, E)
  <2> SUFFICES ASSUME NEW s \in Server
               PROVE  /\ \E S : done[s] \in Seq(S)
                      /\ Len(done[s]) = call[s] - 1
                      /\ \A c \in 1 .. Len(Calls) : c < call[s] => Returned(P, E, E, E, s, c)
    BY DEF Results
  <2>1. \E S : done[s] \in Seq(S)
    <3>1. <<>> \in Seq(Server)
      OBVIOUS
    <3> QED
      BY <1>4, <3>1
  <2>2. Len(done[s]) = call[s] - 1
    BY <1>4
  <2> QED
    BY <1>13, <2>1, <2>2
<1>17. Aligned
  BY <1>2, <1>5, <1>10, <1>11, <1>12, <1>14, <1>15, <1>16 DEF Aligned, Described
<1>18. Wanting
  BY <1>4 DEF Wanting
<1> QED
  BY <1>17, <1>18 DEF Inv

\* Two windows over the same place of two histories.
LEMMA TwoWindows ==
  ASSUME NEW q, NEW r, NEW a \in Nat, NEW b \in Nat, NEW F, NEW G, Window(q, a, b, F), Window(r, a, b, G)
  PROVE  /\ Len(q) = Len(r) /\ DOMAIN q = 1 .. b - a
         /\ \A k \in DOMAIN q : q[k] = F[a + k] /\ r[k] = G[a + k] /\ a + k \in 1 .. b
<1>1. PICK n \in Nat : n = b - a /\ a + n = b /\ Len(q) = n /\ Len(r) = n
  <2>1. a <= b /\ Len(q) = b - a /\ Len(r) = b - a
    BY WindowLen
  <2> QED
    BY <2>1
<1>2. DOMAIN q = 1 .. n
  BY <1>1 DEF Window
<1>3. \A k \in 1 .. n : q[k] = F[a + k] /\ r[k] = G[a + k]
  BY <1>1 DEF Window
<1>4. \A k \in 1 .. n : a + k \in 1 .. b
  BY <1>1
<1> QED
  BY <1>1, <1>2, <1>3, <1>4

\* Between calls the places of both servers are the same, so the caches are
\* the same windows on the history of pairs.
LEMMA AlignedStores ==
  ASSUME Aligned PROVE StoresAligned
<1> SUFFICES ASSUME BetweenCalls
             PROVE  /\ Len(dabit_store[0]) = Len(dabit_store[1])
                    /\ Len(btriple_store[0]) = Len(btriple_store[1])
                    /\ \A n \in DOMAIN dabit_store[0] : Matching(dabit_store[0][n], dabit_store[1][n])
                    /\ \A n \in DOMAIN btriple_store[0] : Beaver(btriple_store[0][n], btriple_store[1][n])
                    /\ \A s \in Server : chan[s] = <<>> /\ out[s] = <<>>
  BY DEF StoresAligned
<1>1. PICK P, D, T, U, X : Described(P, D, T, U, X)
  BY DEF Aligned
<1>2. /\ Shape /\ TableOf(P) /\ program \in Programs /\ Stores(Places(P), D, T) /\ Flow(Places(P), U)
      /\ Good(Places(P), D, T) /\ 0 \in Server /\ 1 \in Server
  BY <1>1 DEF Described, Shape, Server
<1>3. PICK c : c = call[0] /\ c = call[1]
  BY DEF BetweenCalls
<1>4. \A s \in Server : Places(P)[s] = PlaceOf(s, P[c], P[c], P[c])
  BY <1>3, PlaceBy DEF BetweenCalls, Server
<1>5. PICK dm \in Nat, tm \in Nat, dp \in Nat, tp \in Nat :
        \A s \in Server : dm = Places(P)[s].dm /\ tm = Places(P)[s].tm /\ dp = Places(P)[s].dp /\ tp = Places(P)[s].tp
  <2>1. PICK dm \in Nat, tm \in Nat, dp \in Nat, tp \in Nat :
          dm = Places(P)[0].dm /\ tm = Places(P)[0].tm /\ dp = Places(P)[0].dp /\ tp = Places(P)[0].tp
    BY <1>2, PlaceType DEF Numbered
  <2>2. \A s \in Server : dm = Places(P)[s].dm /\ tm = Places(P)[s].tm /\ dp = Places(P)[s].dp /\ tp = Places(P)[s].tp
    <3> SUFFICES ASSUME NEW s \in Server
                 PROVE  dm = Places(P)[s].dm /\ tm = Places(P)[s].tm /\ dp = Places(P)[s].dp /\ tp = Places(P)[s].tp
      OBVIOUS
    <3>1. PICK p : p = P[c]
      OBVIOUS
    <3>2. dm = p.dmade /\ tm = p.tmade /\ dp = p.dpos /\ tp = p.tpos
      <4>1. Places(P)[0] = PlaceOf(0, p, p, p)
        BY <1>2, <1>4, <3>1
      <4> QED
        BY <2>1, <4>1 DEF PlaceOf
    <3>3. Places(P)[s] = PlaceOf(s, p, p, p)
      BY <1>4, <3>1
    <3> QED
      BY <3>2, <3>3 DEF PlaceOf
  <2> QED
    BY <2>2
<1>6. \A s \in Server : Window(dabit_store[s], dp, dm, D[s]) /\ Window(btriple_store[s], tp, tm, T[s])
  BY <1>2, <1>5 DEF Stores, StoredAt
<1>7. Len(dabit_store[0]) = Len(dabit_store[1])
      /\ \A n \in DOMAIN dabit_store[0] : Matching(dabit_store[0][n], dabit_store[1][n])
  <2>1. PICK q, r, F, G : q = dabit_store[0] /\ r = dabit_store[1] /\ F = D[0] /\ G = D[1]
    OBVIOUS
  <2>2. /\ Len(q) = Len(r)
        /\ \A k \in DOMAIN q : q[k] = F[dp + k] /\ r[k] = G[dp + k] /\ dp + k \in 1 .. dm
    <3>1. Window(q, dp, dm, F) /\ Window(r, dp, dm, G)
      BY <1>2, <1>6, <2>1
    <3> QED
      BY <3>1, TwoWindows
  <2>3. \A k \in 1 .. dm : Matching(F[k], G[k])
    BY <1>2, <1>5, <2>1 DEF Good, DaBitPair
  <2> QED
    BY <2>1, <2>2, <2>3
<1>8. Len(btriple_store[0]) = Len(btriple_store[1])
      /\ \A n \in DOMAIN btriple_store[0] : Beaver(btriple_store[0][n], btriple_store[1][n])
  <2>1. PICK q, r, F, G : q = btriple_store[0] /\ r = btriple_store[1] /\ F = T[0] /\ G = T[1]
    OBVIOUS
  <2>2. /\ Len(q) = Len(r)
        /\ \A k \in DOMAIN q : q[k] = F[tp + k] /\ r[k] = G[tp + k] /\ tp + k \in 1 .. tm
    <3>1. Window(q, tp, tm, F) /\ Window(r, tp, tm, G)
      BY <1>2, <1>6, <2>1
    <3> QED
      BY <3>1, TwoWindows
  <2>3. \A k \in 1 .. tm : Beaver(F[k], G[k])
    BY <1>2, <1>5, <2>1 DEF Good, TriplePair
  <2> QED
    BY <2>1, <2>2, <2>3
<1>9. ASSUME NEW t \in Server PROVE chan[t] = <<>> /\ out[Other(t)] = <<>>
  <2>1. PICK s \in Server : s = Other(t)
    BY Others
  <2>2. P[c] \in Counts
    BY <1>2, <1>3, Bounds
  <2>3. Leq(P[c], P[c])
    BY <2>2, LeqSelf
  <2>4. PICK z \in Nat, l \in Nat : z = Sends(P[c]) /\ l = Lag(t, P[c]) /\ l = Lead(s, P[c])
    BY <2>1, <2>2, <2>3, SendsMono
  <2>5. PICK b \in Nat : b = Places(P)[t].base /\ b = Places(P)[s].em
    <3>1. Places(P)[t].base = z + l /\ Places(P)[s].em = z + l
      <4>1. PICK p : p = P[c]
        OBVIOUS
      <4>2. Places(P)[t] = PlaceOf(t, p, p, p) /\ Places(P)[s] = PlaceOf(s, p, p, p)
        BY <1>4, <4>1
      <4>3. z = Sends(p) /\ l = Lag(t, p) /\ l = Lead(s, p)
        BY <2>4, <4>1
      <4> QED
        BY <4>2, <4>3 DEF PlaceOf
    <3> QED
      BY <3>1
  <2>6. PICK q, r, o, F : q = got[t] /\ r = chan[t] /\ o = out[s] /\ F = U[s]
    OBVIOUS
  <2>7. Queues(q, r, o, b, b, F)
    <3>1. Queues(got[t], chan[t], out[s], Places(P)[t].base, Places(P)[s].em, U[s])
      BY <1>2, <2>1, QueuesNow
    <3> QED
      BY <2>5, <2>6, <3>1
  <2>8. PICK x \in Nat, y \in Nat, w \in Nat : x = Len(q) /\ y = Len(r) /\ w = Len(o) /\ b + x + y + w = b
    BY <2>7, QueueLens
  <2>9. x = 0 /\ y = 0 /\ w = 0
    BY <2>8
  <2>10. r = <<>> /\ o = <<>>
    <3>1. PICK e \in Nat : e = b + x /\ e = b + x + y
      BY <2>9
    <3>2. Window(r, e, e, F) /\ Window(o, e, b, F)
      BY <2>7, <2>8, <3>1 DEF Queues
    <3>3. e = b
      BY <2>9, <3>1
    <3> QED
      BY <3>2, <3>3, WindowLen
  <2> QED
    BY <2>1, <2>6, <2>10
<1>10. \A s \in Server : chan[s] = <<>> /\ out[s] = <<>>
  BY <1>9, Others
<1> QED
  BY <1>7, <1>8, <1>10

-----------------------------------------------------------------------------
(* What both servers return are shares of the right value *)

\* A triple's halves turn two opened operands into shares of their product.
LEMMA ProductsOpen ==
  ASSUME NEW t0, NEW t1, TriplePair(t0, t1),
         NEW x0 \in BOOLEAN, NEW x1 \in BOOLEAN, NEW y0 \in BOOLEAN, NEW y1 \in BOOLEAN,
         NEW d, d = ((x0 # t0.a) # (x1 # t1.a)), NEW e, e = ((y0 # t0.b) # (y1 # t1.b))
  PROVE  (ProductOf(0, t0, x0, y0, d, e) # ProductOf(1, t1, x1, y1, d, e)) = ((x0 # x1) /\ (y0 # y1))
<1>1. PICK a0 \in BOOLEAN, b0 \in BOOLEAN, c0 \in BOOLEAN, a1 \in BOOLEAN, b1 \in BOOLEAN, c1 \in BOOLEAN :
        /\ a0 = t0.a /\ b0 = t0.b /\ c0 = t0.c /\ a1 = t1.a /\ b1 = t1.b /\ c1 = t1.c
        /\ (c0 # c1) = ((a0 # a1) /\ (b0 # b1))
  BY DEF TriplePair, BoolTriple, Beaver
<1>2. PICK f \in BOOLEAN, g \in BOOLEAN : f = d /\ g = e /\ f = ((x0 # a0) # (x1 # a1)) /\ g = ((y0 # b0) # (y1 # b1))
  BY <1>1
<1>3. PICK z0 \in BOOLEAN, z1 \in BOOLEAN :
        /\ z0 = ((c0 # ((x0 /\ g) # (y0 /\ f))) # (f /\ g))
        /\ z1 = (c1 # ((x1 /\ g) # (y1 /\ f)))
  OBVIOUS
<1>4. (z0 # z1) = ((x0 # x1) /\ (y0 # y1))
  BY <1>1, <1>2, <1>3
<1>5. ProductOf(0, t0, x0, y0, d, e) = z0
  BY <1>1, <1>2, <1>3 DEF ProductOf
<1>6. ProductOf(1, t1, x1, y1, d, e) = z1
  BY <1>1, <1>2, <1>3 DEF ProductOf
<1> QED
  BY <1>4, <1>5, <1>6

\* A daBit's halves turn an opened masked bit into shares of the bit.
LEMMA ConvertedOpen ==
  ASSUME NEW d0, NEW d1, DaBitPair(d0, d1), NEW x0 \in BOOLEAN, NEW x1 \in BOOLEAN,
         NEW v, v = ((x0 # d0.b2) # (x1 # d1.b2))
  PROVE  /\ ConvertedOf(0, d0.bp, v) \in Int /\ ConvertedOf(1, d1.bp, v) \in Int
         /\ Cong(ConvertedOf(0, d0.bp, v) + ConvertedOf(1, d1.bp, v), Value(x0 # x1), Modulus)
<1>1. PICK m \in Nat \ {0} : m = Modulus /\ m > 2
  BY StoreAssumption
<1>2. PICK p \in Nat, q \in Nat, b \in BOOLEAN, c \in BOOLEAN :
        p = d0.bp /\ q = d1.bp /\ b = d0.b2 /\ c = d1.b2 /\ (p + q) % m = Value(b # c)
  BY <1>1 DEF DaBitPair, DaBit, Matching
<1>3. PICK s \in Int, n \in 0 .. 1 : s = p + q /\ n = Value(b # c)
  BY DEF Value
<1>4. Cong(s, n, m)
  <2>1. Cong(s % m, s, m)
    BY ModCong
  <2>2. s % m = n
    BY <1>2, <1>3
  <2>3. PICK i \in Int : i = n
    OBVIOUS
  <2>4. Cong(i, s, m)
    BY <2>1, <2>2, <2>3
  <2>5. Cong(s, i, m)
    BY <2>4, CongSym
  <2> QED
    BY <2>3, <2>5
<1>5. PICK w \in BOOLEAN : w = v /\ w = ((x0 # b) # (x1 # c))
  BY <1>2
<1>6. CASE w
  <2>1. PICK e \in Int, f \in Int : e = 0 - p /\ f = 1 - q
    OBVIOUS
  <2>2. PICK g \in Int, h \in Int : g = e % m /\ h = f % m
    <3>1. e % m \in 0 .. m - 1 /\ f % m \in 0 .. m - 1
      BY ModRange
    <3> QED
      BY <3>1
  <2>3. Cong(g, e, m) /\ Cong(h, f, m)
    BY <2>2, ModCong
  <2>4. Cong(g + h, e + f, m)
    BY <2>3, CongAdd
  <2>5. PICK k \in Int : s = n + k * m
    BY <1>4 DEF Cong
  <2>6. PICK u \in Int, y \in Int, z \in Int : u = g + h /\ y = e + f /\ z = 1 - n
    OBVIOUS
  <2>7. Cong(y, z, m)
    <3>1. y = 1 - s
      BY <1>3, <2>1, <2>6
    <3>2. PICK r \in Int : r = k * m
      OBVIOUS
    <3>3. y = z - r
      BY <2>5, <2>6, <3>1, <3>2
    <3>4. (-k) * m = -r /\ -k \in Int
      BY <3>2
    <3>5. y = z + (-k) * m
      BY <3>3, <3>4
    <3> QED
      BY <3>4, <3>5 DEF Cong
  <2>8. Cong(u, z, m)
    BY <2>4, <2>6, <2>7, CongTrans
  <2>9. z = Value(x0 # x1)
    <3>1. (x0 # x1) <=> ~(b # c)
      BY <1>5, <1>6
    <3>2. CASE b # c
      <4>1. n = 1 /\ ~(x0 # x1)
        BY <1>3, <3>1, <3>2 DEF Value
      <4> QED
        BY <2>6, <4>1 DEF Value
    <3>3. CASE ~(b # c)
      <4>1. n = 0 /\ (x0 # x1)
        BY <1>3, <3>1, <3>3 DEF Value
      <4> QED
        BY <2>6, <4>1 DEF Value
    <3> QED
      BY <3>2, <3>3
  <2>10. ConvertedOf(0, d0.bp, v) = g /\ ConvertedOf(1, d1.bp, v) = h
    BY <1>1, <1>2, <1>5, <1>6, <2>1, <2>2 DEF ConvertedOf
  <2> QED
    BY <1>1, <2>6, <2>8, <2>9, <2>10
<1>7. CASE ~w
  <2>1. n = Value(x0 # x1)
    BY <1>3, <1>5, <1>7 DEF Value
  <2>2. ConvertedOf(0, d0.bp, v) = p /\ ConvertedOf(1, d1.bp, v) = q
    BY <1>2, <1>5, <1>7 DEF ConvertedOf
  <2> QED
    BY <1>1, <1>3, <1>4, <2>1, <2>2
<1> QED
  BY <1>6, <1>7

\* Congruence is kept by weighting and adding up, whatever is reduced.
LEMMA CongWeigh ==
  ASSUME NEW m \in Nat \ {0}, NEW a \in Int, NEW b \in Int, NEW c \in Int, Cong(a + b, c, m),
         NEW u \in Int, NEW v \in Int, NEW d \in Int, Cong(u + v, d, m), NEW t \in Int
  PROVE  Cong(((a + u * t) % m) + ((b + v * t) % m), c + d * t, m)
<1>1. PICK x \in Int, y \in Int, z \in Int : x = u * t /\ y = v * t /\ z = d * t
  OBVIOUS
<1>2. Cong(x + y, z, m)
  <2>1. PICK k \in Int : u + v = d + k * m
    BY DEF Cong
  <2>2. PICK k2 \in Int : k2 = k * t
    OBVIOUS
  <2>3. x + y = (u + v) * t
    BY <1>1
  <2>4. (u + v) * t = (d + k * m) * t
    BY <2>1
  <2>5. (d + k * m) * t = d * t + (k * t) * m
    OBVIOUS
  <2>6. x + y = z + k2 * m
    BY <1>1, <2>2, <2>3, <2>4, <2>5
  <2> QED
    BY <2>2, <2>6 DEF Cong
<1>3. PICK e \in Int, f \in Int, g \in Int, h \in Int : e = a + x /\ f = b + y /\ g = e % m /\ h = f % m
  <2>1. PICK e \in Int, f \in Int : e = a + x /\ f = b + y
    OBVIOUS
  <2>2. e % m \in 0 .. m - 1 /\ f % m \in 0 .. m - 1
    BY ModRange
  <2> QED
    BY <2>1, <2>2
<1>4. Cong(g, e, m) /\ Cong(h, f, m)
  BY <1>3, ModCong
<1>5. Cong(g + h, e + f, m)
  BY <1>4, CongAdd
<1>6. PICK i \in Int, j \in Int, k \in Int : i = a + b /\ j = x + y /\ k = g + h
  OBVIOUS
<1>7. Cong(i + j, c + z, m)
  BY <1>2, <1>6, CongAdd
<1>8. e + f = i + j
  BY <1>3, <1>6
<1>9. PICK n \in Int, o \in Int : n = i + j /\ o = c + z
  OBVIOUS
<1>10. Cong(k, n, m) /\ Cong(n, o, m)
  BY <1>5, <1>6, <1>7, <1>8, <1>9
<1>11. Cong(k, o, m)
  BY <1>10, CongTrans
<1> QED
  BY <1>1, <1>3, <1>6, <1>9, <1>11

\* Of a call both servers returned from: what each had at hand, and f, what
\* was opened.
Given(c, h0, h1, f) ==
    /\ h0.x \in Operands(c) /\ h1.x \in Operands(c)
    /\ done[0][c].input = h0.x /\ done[1][c].input = h1.x
    /\ ResultOf(0, c, h0, f, done[0][c].ret) /\ ResultOf(1, c, h1, f, done[1][c].ret)
    /\ \A k \in 1 .. Units(c) : f[k] = (Masks(c, h0)[k] # Masks(c, h1)[k])
    /\ \A k \in 1 .. Size(c) :
         /\ Calls[c].op \in Converting => DaBitPair(h0.d[k], h1.d[k])
         /\ Calls[c].op \in Multiplying => TriplePair(h0.t[k], h1.t[k])

\* A call both servers returned from has one such f.
LEMMA BothReturned ==
  ASSUME NEW P, NEW D, NEW T, NEW U, NEW X, Described(P, D, T, U, X), NEW c \in 1 .. Len(Calls),
         c < call[0], c < call[1]
  PROVE  \E h0, h1, f : Given(c, h0, h1, f)
<1>1. 0 \in Server /\ 1 \in Server /\ Other(0) = 1 /\ Other(1) = 0
  BY DEF Server, Other
<1>2. PICK h0, h1 : h0 = Hand(P, D, T, X, 0, c) /\ h1 = Hand(P, D, T, X, 1, c)
  OBVIOUS
<1>3. PICK m0, m1 : m0 = Masks(c, h0) /\ m1 = Masks(c, h1)
  OBVIOUS
<1>4. PICK f : f = Shown(c, m0, m1)
  OBVIOUS
<1>5. Shown(c, m1, m0) = f
  BY <1>4 DEF Shown
<1>6. Returned(P, D, T, X, 0, c) /\ Returned(P, D, T, X, 1, c)
  BY <1>1 DEF Results, Described
<1>7. h0.x = X[0][c] /\ h1.x = X[1][c]
  BY <1>2 DEF Hand
<1>8. X[0][c] \in Operands(c) /\ X[1][c] \in Operands(c)
  BY <1>1 DEF Inputs, Described
<1>9. done[0][c].input = h0.x /\ done[1][c].input = h1.x
  BY <1>6, <1>7 DEF Returned
<1>10. ResultOf(0, c, h0, f, done[0][c].ret)
  BY <1>1, <1>2, <1>3, <1>4, <1>6 DEF Returned
<1>11. ResultOf(1, c, h1, f, done[1][c].ret)
  BY <1>1, <1>2, <1>3, <1>5, <1>6 DEF Returned
<1>12. \A k \in 1 .. Units(c) : f[k] = (m0[k] # m1[k])
  BY <1>4 DEF Shown
<1>13. ASSUME NEW k \in 1 .. Size(c)
       PROVE  /\ Calls[c].op \in Converting => DaBitPair(h0.d[k], h1.d[k])
              /\ Calls[c].op \in Multiplying => TriplePair(h0.t[k], h1.t[k])
  <2>1. Taken(0, c)
    BY DEF Taken
  <2> QED
    BY <1>1, <1>2, <2>1, HandPairs
<1>14. Given(c, h0, h1, f)
  BY <1>3, <1>7, <1>8, <1>9, <1>10, <1>11, <1>12, <1>13 DEF Given
<1> QED
  BY <1>14

\* Both servers' operands are lists of bits.
LEMMA OperandBits ==
  ASSUME NEW c, NEW h0, NEW h1, NEW f, Given(c, h0, h1, f), NEW k \in 1 .. Size(c)
  PROVE  /\ h0.x.x[k] \in BOOLEAN /\ h1.x.x[k] \in BOOLEAN /\ h0.x.y[k] \in BOOLEAN /\ h1.x.y[k] \in BOOLEAN
         /\ OpenX(c, k) = (h0.x.x[k] # h1.x.x[k]) /\ OpenY(c, k) = (h0.x.y[k] # h1.x.y[k])
<1>1. h0.x \in Operands(c) /\ h1.x \in Operands(c) /\ done[0][c].input = h0.x /\ done[1][c].input = h1.x
  BY DEF Given
<1>2. /\ h0.x.x \in Bits(Size(c)) /\ h0.x.y \in Bits(Size(c))
      /\ h1.x.x \in Bits(Size(c)) /\ h1.x.y \in Bits(Size(c))
  BY <1>1 DEF Operands
<1>3. h0.x.x[k] \in BOOLEAN /\ h1.x.x[k] \in BOOLEAN /\ h0.x.y[k] \in BOOLEAN /\ h1.x.y[k] \in BOOLEAN
  BY <1>2 DEF Bits
<1> QED
  BY <1>1, <1>3 DEF OpenX, OpenY

\* Products,
LEMMA ProductsRight ==
  ASSUME program \in Programs, NEW c \in 1 .. Len(Calls), Calls[c].op = "multiplyBoolShares",
         NEW h0, NEW h1, NEW f, Given(c, h0, h1, f), NEW k \in DOMAIN done[0][c].ret
  PROVE  (done[0][c].ret[k] # done[1][c].ret[k]) = (OpenX(c, k) /\ OpenY(c, k))
<1>1. PICK n \in Nat : n = Size(c)
  BY CallType
<1>2. Calls[c].op \in Multiplying /\ Calls[c].op \notin Converting
  BY DEF Multiplying, Converting
<1>3. Units(c) = 2 * n
  BY <1>1, <1>2 DEF Units
<1>4. /\ ResultOf(0, c, h0, f, done[0][c].ret) /\ ResultOf(1, c, h1, f, done[1][c].ret)
      /\ \A j \in 1 .. Units(c) : f[j] = (Masks(c, h0)[j] # Masks(c, h1)[j])
  BY DEF Given
<1>5. k \in 1 .. Size(c)
  BY <1>4 DEF ResultOf
<1>6. PICK i \in Nat : i = k /\ i >= 1 /\ i <= n
  BY <1>1, <1>5
<1>7. TriplePair(h0.t[k], h1.t[k])
  BY <1>2, <1>5 DEF Given
<1>8. PICK x0 \in BOOLEAN, x1 \in BOOLEAN, y0 \in BOOLEAN, y1 \in BOOLEAN :
        /\ x0 = h0.x.x[k] /\ x1 = h1.x.x[k] /\ y0 = h0.x.y[k] /\ y1 = h1.x.y[k]
        /\ OpenX(c, k) = (x0 # x1) /\ OpenY(c, k) = (y0 # y1)
  BY <1>5, OperandBits
<1>9. PICK t0, t1 : t0 = h0.t[k] /\ t1 = h1.t[k]
  OBVIOUS
<1>10. PICK d, e : d = f[k] /\ e = f[n + k]
  OBVIOUS
<1>11. d = ((x0 # t0.a) # (x1 # t1.a))
  <2>1. k \in 1 .. Units(c) /\ k <= Size(c)
    BY <1>1, <1>3, <1>6
  <2>2. f[k] = (Masks(c, h0)[k] # Masks(c, h1)[k])
    BY <1>4, <2>1
  <2>3. Masks(c, h0)[k] = (x0 # t0.a) /\ Masks(c, h1)[k] = (x1 # t1.a)
    BY <1>2, <1>8, <1>9, <2>1 DEF Masks
  <2> QED
    BY <1>10, <2>2, <2>3
<1>12. e = ((y0 # t0.b) # (y1 # t1.b))
  <2>1. PICK j \in Nat : j = n + k
    BY <1>6
  <2>2. j \in 1 .. Units(c) /\ ~(j <= Size(c)) /\ j - Size(c) = k
    BY <1>1, <1>3, <1>6, <2>1
  <2>3. f[j] = (Masks(c, h0)[j] # Masks(c, h1)[j])
    BY <1>4, <2>2
  <2>4. Masks(c, h0)[j] = (y0 # t0.b) /\ Masks(c, h1)[j] = (y1 # t1.b)
    BY <1>2, <1>8, <1>9, <2>2 DEF Masks
  <2> QED
    BY <1>10, <2>1, <2>3, <2>4
<1>13. done[0][c].ret[k] = ProductOf(0, t0, x0, y0, d, e)
  BY <1>1, <1>4, <1>5, <1>8, <1>9, <1>10 DEF ResultOf
<1>14. done[1][c].ret[k] = ProductOf(1, t1, x1, y1, d, e)
  BY <1>1, <1>4, <1>5, <1>8, <1>9, <1>10 DEF ResultOf
<1>15. (ProductOf(0, t0, x0, y0, d, e) # ProductOf(1, t1, x1, y1, d, e)) = ((x0 # x1) /\ (y0 # y1))
  BY <1>7, <1>9, <1>11, <1>12, ProductsOpen
<1> QED
  BY <1>8, <1>13, <1>14, <1>15

\* one converted bit,
LEMMA BitRight ==
  ASSUME program \in Programs, NEW c \in 1 .. Len(Calls), Calls[c].op \in Converting,
         NEW h0, NEW h1, NEW f, Given(c, h0, h1, f), NEW k \in 1 .. Size(c)
  PROVE  /\ ConvertedOf(0, h0.d[k].bp, f[k]) \in Int /\ ConvertedOf(1, h1.d[k].bp, f[k]) \in Int
         /\ Cong(ConvertedOf(0, h0.d[k].bp, f[k]) + ConvertedOf(1, h1.d[k].bp, f[k]), Value(OpenX(c, k)), Modulus)
<1>1. PICK n \in Nat : n = Size(c)
  BY CallType
<1>2. Calls[c].op \notin Multiplying
  BY DEF Multiplying, Converting
<1>3. Units(c) = n
  BY <1>1, <1>2 DEF Units
<1>4. PICK x0 \in BOOLEAN, x1 \in BOOLEAN : x0 = h0.x.x[k] /\ x1 = h1.x.x[k] /\ OpenX(c, k) = (x0 # x1)
  BY OperandBits
<1>5. PICK d0, d1 : d0 = h0.d[k] /\ d1 = h1.d[k]
  OBVIOUS
<1>6. DaBitPair(d0, d1)
  BY <1>5 DEF Given
<1>7. f[k] = ((x0 # d0.b2) # (x1 # d1.b2))
  <2>1. k \in 1 .. Units(c)
    BY <1>1, <1>3
  <2>2. f[k] = (Masks(c, h0)[k] # Masks(c, h1)[k])
    BY <2>1 DEF Given
  <2>3. Masks(c, h0)[k] = (x0 # d0.b2) /\ Masks(c, h1)[k] = (x1 # d1.b2)
    BY <1>2, <1>4, <1>5, <2>1 DEF Masks
  <2> QED
    BY <2>2, <2>3
<1>8. PICK v : v = f[k]
  OBVIOUS
<1>9. /\ ConvertedOf(0, d0.bp, v) \in Int /\ ConvertedOf(1, d1.bp, v) \in Int
      /\ Cong(ConvertedOf(0, d0.bp, v) + ConvertedOf(1, d1.bp, v), Value(x0 # x1), Modulus)
  BY <1>6, <1>7, <1>8, ConvertedOpen
<1> QED
  BY <1>4, <1>5, <1>8, <1>9

\* converted bits,
LEMMA BitsRight ==
  ASSUME program \in Programs, NEW c \in 1 .. Len(Calls), Calls[c].op = "b2a_daBit_single",
         NEW h0, NEW h1, NEW f, Given(c, h0, h1, f), NEW k \in DOMAIN done[0][c].ret
  PROVE  (done[0][c].ret[k] + done[1][c].ret[k]) % Modulus = Value(OpenX(c, k))
<1>1. Calls[c].op \in Converting
  BY DEF Converting
<1>2. k \in 1 .. Size(c)
  BY DEF Given, ResultOf
<1>3. PICK a \in Int, b \in Int : a = ConvertedOf(0, h0.d[k].bp, f[k]) /\ b = ConvertedOf(1, h1.d[k].bp, f[k])
  BY <1>1, <1>2, BitRight
<1>4. done[0][c].ret[k] = a /\ done[1][c].ret[k] = b
  BY <1>2, <1>3 DEF Given, ResultOf
<1>5. PICK m \in Nat \ {0}, v \in Int, s \in Int : m = Modulus /\ m > 2 /\ v = Value(OpenX(c, k)) /\ v \in 0 .. 1 /\ s = a + b
  <2>1. Value(OpenX(c, k)) \in 0 .. 1
    BY DEF Value
  <2> QED
    BY <2>1, StoreAssumption
<1>6. Cong(s, v, m)
  BY <1>1, <1>2, <1>3, <1>5, BitRight
<1>7. s % m = v % m
  BY <1>6, CongMod
<1>8. v % m = v
  <2>1. v \in 0 .. m - 1
    BY <1>5
  <2> QED
    BY <2>1, ModSmall
<1> QED
  BY <1>4, <1>5, <1>7, <1>8

\* and values.
LEMMA ValuesRight ==
  ASSUME program \in Programs, NEW c \in 1 .. Len(Calls), Calls[c].op = "b2a_daBit_multi",
         NEW h0, NEW h1, NEW f, Given(c, h0, h1, f), NEW v \in DOMAIN done[0][c].ret
  PROVE  (done[0][c].ret[v] + done[1][c].ret[v]) % Modulus = OpenValue(c, v) % Modulus
<1>1. Calls[c].op \in Converting
  BY DEF Converting
<1>2. PICK ws : ws = Calls[c].widths
  OBVIOUS
<1>3. v \in DOMAIN ws
  BY <1>2 DEF Given, ResultOf
<1>4. ws \in Seq(Nat)
  <2>1. Calls \in Seq([op : CallOps, widths : Seq(Nat)])
    BY CallsAssumption DEF Calls
  <2>2. Calls[c] \in [op : CallOps, widths : Seq(Nat)]
    <3>1. DOMAIN Calls = 1 .. Len(Calls)
      BY CallType
    <3>2. PICK S : S = [op : CallOps, widths : Seq(Nat)]
      OBVIOUS
    <3>3. Calls \in Seq(S) /\ c \in 1 .. Len(Calls)
      BY <2>1, <3>2
    <3>4. Calls[c] \in S
      BY <3>3
    <3> QED
      BY <3>2, <3>4
  <2> QED
    BY <1>2, <2>2
<1>5. PICK w \in Nat : w = ws[v]
  BY <1>3, <1>4
<1>6. PICK o : o = Offset(ws, v)
  OBVIOUS
<1>7. \A j \in 1 .. w : o + j \in 1 .. Size(c)
  BY <1>2, <1>3, <1>4, <1>5, <1>6, OffsetFits DEF Size
<1>8. PICK p : ConvertPath(0, h0, o, w, f, p) /\ done[0][c].ret[v] = p[w]
  BY <1>2, <1>3, <1>5, <1>6 DEF Given, ResultOf
<1>9. PICK q : ConvertPath(1, h1, o, w, f, q) /\ done[1][c].ret[v] = q[w]
  BY <1>2, <1>3, <1>5, <1>6 DEF Given, ResultOf
<1>10. PICK r : OpenPath(c, o, w, r) /\ OpenValue(c, v) = r[w]
  BY <1>2, <1>5, <1>6, OpenValueRec
<1>11. PICK m \in Nat \ {0} : m = Modulus
  BY StoreAssumption
<1>12. /\ p \in [0 .. w -> Int] /\ p[0] = 0 /\ q \in [0 .. w -> Int] /\ q[0] = 0
       /\ r \in [0 .. w -> Int] /\ r[0] = 0
  BY <1>8, <1>9, <1>10 DEF ConvertPath, OpenPath
<1> DEFINE A == {j \in Nat : j <= w => Cong(p[j] + q[j], r[j], m)}
<1>13. 0 \in A
  <2>1. Cong(0, 0, m)
    BY CongSelf
  <2> QED
    BY <1>12, <2>1
<1>14. ASSUME NEW k \in Nat, k \in A PROVE k + 1 \in A
  <2>1. CASE k + 1 <= w
    <3>1. PICK j \in 1 .. w : j = k + 1 /\ j - 1 = k /\ k \in 0 .. w /\ j \in 0 .. w
      BY <2>1
    <3>2. PICK a \in Int, b \in Int, d \in Int : a = p[k] /\ b = q[k] /\ d = r[k]
      BY <1>12, <3>1
    <3>3. Cong(a + b, d, m)
      BY <1>14, <3>1, <3>2
    <3>4. PICK i \in 1 .. Size(c) : i = o + j
      BY <1>7, <3>1
    <3>5. PICK x \in Int, y \in Int, z \in Int :
            /\ x = ConvertedOf(0, h0.d[i].bp, f[i]) /\ y = ConvertedOf(1, h1.d[i].bp, f[i])
            /\ z = Value(OpenX(c, i))
      <4>1. Value(OpenX(c, i)) \in Int
        BY DEF Value
      <4> QED
        BY <1>1, <4>1, BitRight
    <3>6. Cong(x + y, z, m)
      BY <1>1, <1>11, <3>5, BitRight
    <3>7. PICK t \in Int : t = 2 ^ k
      BY Pow
    <3>8. p[j] = (a + x * t) % m
      BY <1>8, <1>11, <3>1, <3>2, <3>4, <3>5, <3>7 DEF ConvertPath
    <3>9. q[j] = (b + y * t) % m
      BY <1>9, <1>11, <3>1, <3>2, <3>4, <3>5, <3>7 DEF ConvertPath
    <3>10. r[j] = d + z * t
      BY <1>10, <3>1, <3>2, <3>4, <3>5, <3>7 DEF OpenPath
    <3>11. Cong(((a + x * t) % m) + ((b + y * t) % m), d + z * t, m)
      BY <3>3, <3>6, CongWeigh
    <3>12. Cong(p[j] + q[j], r[j], m)
      BY <3>8, <3>9, <3>10, <3>11
    <3> QED
      BY <3>1, <3>12
  <2>2. CASE ~(k + 1 <= w)
    BY <2>2
  <2> QED
    BY <2>1, <2>2
<1>15. w \in A
  <2> HIDE DEF A
  <2>1. Nat \subseteq A
    BY <1>13, <1>14, Induct
  <2> QED
    BY <2>1
<1>16. PICK a \in Int, b \in Int, d \in Int : a = p[w] /\ b = q[w] /\ d = r[w]
  BY <1>12
<1>17. PICK s \in Int : s = a + b
  OBVIOUS
<1>18. Cong(s, d, m)
  BY <1>15, <1>16, <1>17
<1>19. s % m = d % m
  BY <1>18, CongMod
<1> QED
  BY <1>8, <1>9, <1>10, <1>11, <1>16, <1>17, <1>19

\* Whatever a call is, what both returned recombines.
LEMMA AlignedResults ==
  ASSUME Aligned PROVE ResultsRecombine
<1>1. PICK P, D, T, U, X : Described(P, D, T, U, X)
  BY DEF Aligned
<1>2. program \in Programs /\ Shape
  BY <1>1 DEF Described, Shape
<1>3. PICK n \in Nat : n = Len(Calls)
  BY <1>2, CallType
<1>4. PICK i \in 1 .. n + 1, j \in 1 .. n + 1 : i = call[0] /\ j = call[1]
  BY <1>2, <1>3 DEF Shape, Server
<1>5. Len(done[0]) = i - 1 /\ Len(done[1]) = j - 1
  BY <1>1, <1>4 DEF Described, Results, Server
<1>6. ASSUME NEW c \in Both
      PROVE  /\ Calls[c].op = "multiplyBoolShares" =>
                  \A k \in DOMAIN done[0][c].ret :
                     (done[0][c].ret[k] # done[1][c].ret[k]) = (OpenX(c, k) /\ OpenY(c, k))
             /\ Calls[c].op = "b2a_daBit_single" =>
                  \A k \in DOMAIN done[0][c].ret :
                     (done[0][c].ret[k] + done[1][c].ret[k]) % Modulus = Value(OpenX(c, k))
             /\ Calls[c].op = "b2a_daBit_multi" =>
                  \A v \in DOMAIN done[0][c].ret :
                     (done[0][c].ret[v] + done[1][c].ret[v]) % Modulus = OpenValue(c, v) % Modulus
  <2>0. i \in Int /\ j \in Int /\ Both = 1 .. (IF i - 1 < j - 1 THEN i - 1 ELSE j - 1)
    BY <1>3, <1>4, <1>5 DEF Both
  <2>a. PICK b \in Int : b = (IF i - 1 < j - 1 THEN i - 1 ELSE j - 1)
    BY <2>0
  <2>b. c \in 1 .. b
    BY <2>0, <2>a
  <2>c. c \in Int /\ 1 <= c /\ c <= i - 1 /\ c <= j - 1
    BY <2>0, <2>a, <2>b
  <2>1. c \in 1 .. Len(Calls) /\ c < call[0] /\ c < call[1]
    BY <1>3, <1>4, <2>0, <2>c
  <2>2. PICK h0, h1, f : Given(c, h0, h1, f)
    BY <1>1, <2>1, BothReturned
  <2>3. ASSUME Calls[c].op = "multiplyBoolShares", NEW k \in DOMAIN done[0][c].ret
        PROVE  (done[0][c].ret[k] # done[1][c].ret[k]) = (OpenX(c, k) /\ OpenY(c, k))
    BY <1>2, <2>1, <2>2, <2>3, ProductsRight
  <2>4. ASSUME Calls[c].op = "b2a_daBit_single", NEW k \in DOMAIN done[0][c].ret
        PROVE  (done[0][c].ret[k] + done[1][c].ret[k]) % Modulus = Value(OpenX(c, k))
    BY <1>2, <2>1, <2>2, <2>4, BitsRight
  <2>5. ASSUME Calls[c].op = "b2a_daBit_multi", NEW v \in DOMAIN done[0][c].ret
        PROVE  (done[0][c].ret[v] + done[1][c].ret[v]) % Modulus = OpenValue(c, v) % Modulus
    BY <1>2, <2>1, <2>2, <2>5, ValuesRight
  <2> QED
    BY <2>3, <2>4, <2>5
<1> QED
  BY <1>6 DEF ResultsRecombine

-----------------------------------------------------------------------------
(* Altogether *)

\* The invariant, of every behaviour: whatever the programs, the sockets'
\* capacity, the batch sizes and whether calls fork.
THEOREM InvHolds == ASSUME ModulusFits PROVE Spec => []Inv
<1>1. Init => Inv
  BY InitAligned
<1>2. Inv /\ [Next]_vars => Inv'
  BY AlignedNext
<1> QED
  BY <1>1, <1>2, PTL DEF Spec

\* Between two calls the two servers' caches hold matching halves, entry by
\* entry, and nothing is left on the connection.
THEOREM StoresStayAligned == ASSUME ModulusFits PROVE Spec => []StoresAligned
<1>1. Inv => StoresAligned
  BY AlignedStores DEF Inv
<1> QED
  BY <1>1, InvHolds, PTL

\* What both servers returned from a call are shares of the product of its
\* opened operands, or of the opened bits as a number modulo Int_Modulus.
THEOREM ResultsAlwaysRecombine == ASSUME ModulusFits PROVE Spec => []ResultsRecombine
<1>1. Inv => ResultsRecombine
  BY AlignedResults DEF Inv
<1> QED
  BY <1>1, InvHolds, PTL
=============================================================================
