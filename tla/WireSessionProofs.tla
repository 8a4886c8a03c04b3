-------------------------- MODULE WireSessionProofs --------------------------
(***************************************************************************)
(* Proofs about WireSession, for every width, batch maximum and series of  *)
(* calls: however the bytes come in and wherever the sender stops, a call  *)
(* returns what its counterpart wrote or has met the end of the stream,    *)
(* and after that no call reads anything (Reading); and a call that got    *)
(* all its bytes gives what its counterpart was given (Taken). The totals  *)
(* of a call are those of recv_in's results over its parts, so what a call *)
(* is made of comes first: one part at least, and all of them empty or     *)
(* none. Then what the conversions do to a call's data: numbers come back  *)
(* from their digits, flags from their bits, batches from their pieces.    *)
(* Last come the calls in the stream and the reader's place in it.         *)
(***************************************************************************)
EXTENDS WireSession, OTConversionProofs, SequenceTheorems

-----------------------------------------------------------------------------
(* Lengths *)

\* A function on 1 .. n is a sequence of length n.
LEMMA MadeLen ==
  ASSUME NEW n \in Nat, NEW S, NEW f \in [1 .. n -> S]
  PROVE  f \in Seq(S) /\ Len(f) = n
  OBVIOUS

\* FlattenSeq puts one sequence after the other.
LEMMA FlattenRec ==
  ASSUME NEW S, NEW ss \in Seq(Seq(S)), ss # <<>>
  PROVE  \E f : /\ f \in [1 .. Len(ss) -> Seq(S)] /\ f[1] = ss[1]
                /\ \A i \in 2 .. Len(ss) : f[i] = f[i - 1] \o ss[i]
                /\ FlattenSeq(ss) = f[Len(ss)]
<1>1. PICK n \in Nat \ {0} : n = Len(ss)
  OBVIOUS
<1> DEFINE V == Seq(S)
           Fix(h) == [i \in 1 .. n |-> IF i = 1 THEN ss[i] ELSE h[i - 1] \o ss[i]]
           flat == CHOOSE h : h = Fix(h)
<1>2. \A i \in 1 .. n : ss[i] \in V
  BY <1>1
<1>3. PICK G : G = [i \in 1 .. n |-> [v \in V |-> v \o ss[i]]]
  OBVIOUS
<1>4. <<>> \in V /\ \A v \in V, i \in 1 .. n : v \o ss[i] \in V
  BY <1>2
<1>5. Folding(n, V, <<>>, G)
  BY <1>3, <1>4 DEF Folding
<1>6. PICK acc : PartSums(n, V, <<>>, G, acc)
  BY <1>5, FoldExists, FoldPrefixes
<1>7. acc \in [0 .. n -> V] /\ acc[0] = <<>>
  BY <1>6 DEF PartSums
<1>8. ASSUME NEW i \in 1 .. n PROVE acc[i] = acc[i - 1] \o ss[i]
  <2>1. acc[i - 1] \in V
    BY <1>7
  <2> QED
    BY <1>3, <1>6, <2>1 DEF PartSums
<1>9. acc[1] = ss[1]
  <2>1. 1 \in 1 .. n
    OBVIOUS
  <2>2. acc[1] = acc[1 - 1] \o ss[1]
    BY <1>8, <2>1
  <2>3. <<>> \o ss[1] = ss[1]
    BY <1>2, <2>1, ConcatEmptySeq
  <2> QED
    BY <1>7, <2>2, <2>3, 1 - 1 = 0
<1>10. flat = Fix(flat)
  <2>1. PICK g : g = [i \in 1 .. n |-> acc[i]]
    OBVIOUS
  <2>2. ASSUME NEW i \in 1 .. n PROVE g[i] = Fix(g)[i]
    <3>1. CASE i = 1
      BY <1>9, <2>1, <3>1
    <3>2. CASE i # 1
      <4>1. i - 1 \in 1 .. n
        BY <3>2
      <4>2. acc[i] = acc[i - 1] \o ss[i]
        BY <1>8
      <4> QED
        BY <2>1, <3>2, <4>1, <4>2
    <3> QED
      BY <3>1, <3>2
  <2>3. g = Fix(g)
    BY <2>1, <2>2
  <2> HIDE DEF Fix
  <2> QED
    BY <2>3, Zenon
<1>11. FlattenSeq(ss) = flat[n]
  BY <1>1 DEF FlattenSeq
<1> HIDE DEF flat
<1>12. /\ flat = [i \in 1 .. n |-> flat[i]] /\ flat[1] = ss[1]
       /\ \A i \in 2 .. n : flat[i] = flat[i - 1] \o ss[i]
  <2>1. flat = [i \in 1 .. n |-> IF i = 1 THEN ss[i] ELSE flat[i - 1] \o ss[i]]
    BY <1>10
  <2>2. /\ 1 \in 1 .. n
        /\ \A i \in 2 .. n : i \in 1 .. n /\ i # 1
    OBVIOUS
  <2>3. flat[1] = ss[1]
    BY <2>1, <2>2, Zenon
  <2>4. \A i \in 2 .. n : flat[i] = flat[i - 1] \o ss[i]
    BY <2>1, <2>2, Zenon
  <2>5. DOMAIN flat = 1 .. n
    BY <2>1, Zenon
  <2>6. flat = [i \in 1 .. n |-> flat[i]]
    BY <2>1, Zenon
  <2> QED
    BY <2>3, <2>4, <2>6
<1>13. \A k \in Nat : k \in 1 .. n => flat[k] \in V
  <2> DEFINE P == {k \in Nat : k \in 1 .. n => flat[k] \in V}
  <2>1. 0 \in P
    OBVIOUS
  <2>2. ASSUME NEW k \in Nat, k \in P PROVE k + 1 \in P
    <3> SUFFICES ASSUME k + 1 \in 1 .. n PROVE flat[k + 1] \in V
      OBVIOUS
    <3>1. CASE k = 0
      BY <1>2, <1>12, <3>1
    <3>2. CASE k # 0
      <4>1. flat[k] \in V /\ (k + 1) - 1 = k /\ k + 1 \in 2 .. n
        BY <2>2, <3>2
      <4>2. flat[k + 1] = flat[k] \o ss[k + 1]
        BY <1>12, <4>1
      <4> QED
        BY <1>4, <4>1, <4>2
    <3> QED
      BY <3>1, <3>2
  <2> HIDE DEF P
  <2>3. Nat \subseteq P
    BY <2>1, <2>2, Induct
  <2> QED
    BY <2>3 DEF P
<1>14. flat \in [1 .. n -> V]
  <2>1. \A i \in 1 .. n : flat[i] \in V
    BY <1>13
  <2> QED
    BY <1>12, <2>1
<1> QED
  BY <1>1, <1>11, <1>12, <1>14

\* FlattenSeq of sequences of one length.
LEMMA FlattenLen ==
  ASSUME NEW S, NEW ss \in Seq(Seq(S)), NEW m \in Nat, \A i \in 1 .. Len(ss) : Len(ss[i]) = m
  PROVE  FlattenSeq(ss) \in Seq(S) /\ Len(FlattenSeq(ss)) = Len(ss) * m
<1>1. CASE ss = <<>>
  <2>1. FlattenSeq(ss) = <<>>
    BY <1>1 DEF FlattenSeq
  <2>2. Len(ss) = 0 /\ <<>> \in Seq(S) /\ Len(<<>>) = 0
    BY <1>1
  <2>3. Len(ss) * m = 0
    BY <2>2
  <2> QED
    BY <2>1, <2>2, <2>3, Zenon
<1>2. CASE ss # <<>>
  <2>1. PICK f : /\ f \in [1 .. Len(ss) -> Seq(S)] /\ f[1] = ss[1]
                 /\ \A i \in 2 .. Len(ss) : f[i] = f[i - 1] \o ss[i]
                 /\ FlattenSeq(ss) = f[Len(ss)]
    BY <1>2, FlattenRec
  <2>2. PICK n \in Nat \ {0} : n = Len(ss)
    BY <1>2
  <2> DEFINE P == {k \in Nat : k \in 1 .. n => Len(f[k]) = k * m}
  <2>3. 0 \in P
    OBVIOUS
  <2>4. ASSUME NEW k \in Nat, k \in P PROVE k + 1 \in P
    <3> SUFFICES ASSUME k + 1 \in 1 .. n PROVE Len(f[k + 1]) = (k + 1) * m
      OBVIOUS
    <3>1. CASE k = 0
      BY <2>1, <2>2, <3>1
    <3>2. CASE k # 0
      <4>1. f[k] \in Seq(S) /\ ss[k + 1] \in Seq(S) /\ (k + 1) - 1 = k /\ k + 1 \in 2 .. n
        BY <2>1, <2>2, <3>2
      <4>2. f[k + 1] = f[k] \o ss[k + 1] /\ Len(ss[k + 1]) = m
        BY <2>1, <2>2, <4>1
      <4>3. PICK x \in Int : x = k * m
        OBVIOUS
      <4>4. Len(f[k]) = x
        BY <2>4, <4>1, <4>3
      <4>5. Len(f[k + 1]) = x + m
        BY ZenonT(40), <4>1, <4>2, <4>4, ConcatProperties
      <4> QED
        BY <4>3, <4>5
    <3> QED
      BY <3>1, <3>2
  <2> HIDE DEF P
  <2>5. Nat \subseteq P
    BY <2>3, <2>4, Induct
  <2>6. n \in P /\ n \in 1 .. n
    BY <2>5
  <2> QED
    BY <2>1, <2>2, <2>6 DEF P
<1> QED
  BY <1>1, <1>2

-----------------------------------------------------------------------------
(* What the parts of a call are: one at least, and either all of them have  *)
(* bytes or none has. A reader can tell an empty batch from a failure no    *)
(* other way than by asking for nothing.                                    *)

PartLen(parts, p) == Len(parts[p].bytes)
Filled(parts) == \A p \in 1 .. Len(parts) : PartLen(parts, p) \in Nat \ {0}
Blank(parts) == \A p \in 1 .. Len(parts) : PartLen(parts, p) = 0
Shape(parts) ==
    /\ Len(parts) \in Nat \ {0} /\ DOMAIN parts = 1 .. Len(parts)
    /\ \A p \in 1 .. Len(parts) : parts[p].chunk \in Nat \ {0}
    /\ Filled(parts) \/ Blank(parts)

\* A number is FmpzBytes bytes, a size twice IntBytes.
LEMMA NumberLen ==
  ASSUME NEW x
  PROVE  Len(PutFmpz(x)) = FmpzBytes /\ Len(PutSize(x)) = IntBytes + IntBytes
<1>1. FmpzBytes \in Nat /\ IntBytes \in Nat
  BY WidthAssumption
<1>2. Len(PutFmpz(x)) = FmpzBytes
  <2> DEFINE S == {Digit(x, k - 1) : k \in 1 .. FmpzBytes}
  <2>1. PutFmpz(x) \in [1 .. FmpzBytes -> S]
    BY DEF PutFmpz, Little
  <2> QED
    BY <1>1, <2>1, MadeLen
<1>3. Len(PutSize(x)) = IntBytes + IntBytes
  <2> DEFINE S == {Digit(x, k - 1) : k \in 1 .. IntBytes} \cup {0}
             low == Little(x, IntBytes)
             high == [k \in 1 .. IntBytes |-> 0]
  <2>1. low \in [1 .. IntBytes -> S] /\ high \in [1 .. IntBytes -> S]
    BY DEF Little
  <2>2. low \in Seq(S) /\ Len(low) = IntBytes /\ high \in Seq(S) /\ Len(high) = IntBytes
    BY <1>1, <2>1, MadeLen
  <2> HIDE DEF low, high, S
  <2>3. Reverse(low) \in [1 .. IntBytes -> S]
    <3>1. \A k \in 1 .. IntBytes : (IntBytes - k) + 1 \in 1 .. IntBytes
      BY <1>1
    <3>2. \A k \in 1 .. IntBytes : low[k] \in S
      BY <2>1
    <3> QED
      BY <2>2, <3>1, <3>2 DEF Reverse
  <2>4. Reverse(low) \in Seq(S) /\ Len(Reverse(low)) = IntBytes
    BY <1>1, <2>3, MadeLen
  <2>5. PICK back, zeros : back = Reverse(low) /\ zeros = high
    OBVIOUS
  <2>6. back \in Seq(S) /\ zeros \in Seq(S) /\ Len(back) = IntBytes /\ Len(zeros) = IntBytes
    BY <2>2, <2>4, <2>5
  <2>7. Len(back \o zeros) = IntBytes + IntBytes
    BY SMTT(40), <2>6, ConcatProperties
  <2> QED
    BY <2>5, <2>7 DEF PutSize, low, high
<1> QED
  BY <1>2, <1>3

\* A batch of numbers is FmpzBytes for each of them.
LEMMA NumbersLen ==
  ASSUME NEW S, NEW xs \in Seq(S)
  PROVE  Len(PutFmpzs(xs)) = Len(xs) * FmpzBytes
<1>1. PICK n \in Nat : n = Len(xs) /\ DOMAIN xs = 1 .. n
  OBVIOUS
<1> DEFINE B == {Digit(xs[i], k - 1) : i \in 1 .. n, k \in 1 .. FmpzBytes}
           ss == [i \in 1 .. n |-> PutFmpz(xs[i])]
<1>2. FmpzBytes \in Nat
  BY WidthAssumption
<1>3. ASSUME NEW i \in 1 .. n PROVE ss[i] \in Seq(B) /\ Len(ss[i]) = FmpzBytes
  <2>1. PICK f : f = ss[i]
    OBVIOUS
  <2>2. f \in [1 .. FmpzBytes -> B]
    BY <2>1 DEF PutFmpz, Little
  <2> HIDE DEF ss, B
  <2>3. f \in Seq(B) /\ Len(f) = FmpzBytes
    BY <1>2, <2>2, MadeLen
  <2> QED
    BY <2>1, <2>3
<1>4. ss \in [1 .. n -> Seq(B)]
  BY <1>3
<1> HIDE DEF B
<1>5. ss \in Seq(Seq(B)) /\ Len(ss) = n
  <2> HIDE DEF ss
  <2> QED
    BY <1>4, MadeLen
<1>6. PutFmpzs(xs) = FlattenSeq(ss)
  BY <1>1 DEF PutFmpzs
<1> HIDE DEF ss
<1>7. Len(FlattenSeq(ss)) = Len(ss) * FmpzBytes
  BY <1>2, <1>3, <1>5, FlattenLen
<1> QED
  BY <1>1, <1>5, <1>6, <1>7

\* So it has bytes if there are any numbers.
LEMMA NumbersFilled ==
  ASSUME NEW S, NEW xs \in Seq(S)
  PROVE  /\ xs # <<>> => Len(PutFmpzs(xs)) \in Nat \ {0}
         /\ xs = <<>> => Len(PutFmpzs(xs)) = 0
<1>1. PICK n \in Nat : n = Len(xs) /\ (n = 0 <=> xs = <<>>)
  OBVIOUS
<1>2. PICK b \in Nat \ {0} : b = FmpzBytes
  BY WidthAssumption
<1>3. Len(PutFmpzs(xs)) = n * b
  BY <1>1, <1>2, NumbersLen
<1>4. n # 0 => n * b \in Nat \ {0}
  OBVIOUS
<1>5. n = 0 => n * b = 0
  OBVIOUS
<1> QED
  BY <1>1, <1>3, <1>4, <1>5

\* and so have flags.
LEMMA FlagsFilled ==
  ASSUME NEW S, NEW xs \in Seq(S)
  PROVE  /\ xs # <<>> => Len(PutBools(xs)) \in Nat \ {0}
         /\ xs = <<>> => Len(PutBools(xs)) = 0
<1>1. PICK n \in Nat : n = Len(xs) /\ (n = 0 <=> xs = <<>>)
  OBVIOUS
<1>2. PICK b \in Nat \ {0} : b = ByteBits
  BY WidthAssumption
<1>3. PICK q \in Int, r \in 0 .. b - 1 : q = BoolBytes(n) /\ n + b - 1 = q * b + r
  <2>1. PICK x \in Int : x = n + b - 1
    OBVIOUS
  <2>2. x \div b \in Int /\ x = (x \div b) * b + (x % b) /\ x % b \in 0 .. b - 1
    BY DivMod
  <2> QED
    BY <1>2, <2>1, <2>2 DEF BoolBytes
<1>4. n = 0 => q = 0
  <2> SUFFICES ASSUME n = 0 PROVE q = 0
    OBVIOUS
  <2>1. q * b + r = b - 1
    BY <1>3
  <2>2. ~(q >= 1)
    <3> SUFFICES ASSUME q >= 1 PROVE FALSE
      OBVIOUS
    <3>1. q * b >= b
      OBVIOUS
    <3> QED
      BY <2>1, <3>1
  <2>3. ~(q <= -1)
    <3> SUFFICES ASSUME q <= -1 PROVE FALSE
      OBVIOUS
    <3>1. q * b <= -b
      OBVIOUS
    <3> QED
      BY <2>1, <3>1
  <2> QED
    BY <2>2, <2>3
<1>5. n # 0 => q \in Nat \ {0}
  <2> SUFFICES ASSUME n # 0, q <= 0 PROVE FALSE
    OBVIOUS
  <2>1. q * b <= 0
    OBVIOUS
  <2> QED
    BY <1>3, <2>1
<1>6. q \in Nat => Len(PutBools(xs)) = q
  <2> DEFINE f == [k \in 1 .. BoolBytes(Len(xs)) |-> PutBools(xs)[k]]
  <2>1. PutBools(xs) = f
    BY DEF PutBools
  <2>2. f \in [1 .. q -> {PutBools(xs)[k] : k \in 1 .. q}]
    BY <1>1, <1>3
  <2> HIDE DEF f
  <2> QED
    BY <2>1, <2>2, MadeLen
<1> QED
  BY <1>1, <1>4, <1>5, <1>6

\* The k-th of count pieces of a batch, of max each but the last, ends at e.
CutAt(xs, max, count, k, piece, e) ==
    /\ piece = SubSeq(xs, (k - 1) * max + 1, e)
    /\ e \in (k - 1) * max .. Len(xs) /\ (xs # <<>> => (k - 1) * max < e)
    /\ IF k < count THEN e = k * max ELSE e = Len(xs) /\ Len(xs) <= k * max

\* The pieces of a batch are cut so.
LEMMA PiecesCut ==
  ASSUME NEW S, NEW xs \in Seq(S), NEW max \in Nat \ {0}
  PROVE  \E count \in Nat \ {0} :
           /\ Len(Pieces(xs, max)) = count /\ DOMAIN Pieces(xs, max) = 1 .. count
           /\ \A k \in 1 .. count : \E e \in Nat : CutAt(xs, max, count, k, Pieces(xs, max)[k], e)
<1>1. PICK n \in Nat : n = Len(xs) /\ (n = 0 <=> xs = <<>>)
  OBVIOUS
<1> DEFINE count == IF xs = <<>> THEN 1 ELSE (Len(xs) - 1) \div max + 1
           last(k) == IF k < count THEN k * max ELSE Len(xs)
           pieces == [k \in 1 .. count |-> SubSeq(xs, (k - 1) * max + 1, last(k))]
<1>2. /\ count \in Nat \ {0} /\ (xs # <<>> => (count - 1) * max <= n - 1)
      /\ n <= (count - 1) * max + max
  <2>1. CASE xs = <<>>
    BY <1>1, <2>1
  <2>2. CASE xs # <<>>
    <3>1. PICK x \in Nat : x = n - 1
      BY <1>1, <2>2
    <3>2. PICK q \in Int, r \in 0 .. max - 1 : q = x \div max /\ x = q * max + r
      BY DivMod
    <3>3. ~(q <= -1)
      <4> SUFFICES ASSUME q <= -1 PROVE FALSE
        OBVIOUS
      <4>1. q * max <= -max
        OBVIOUS
      <4> QED
        BY <3>2, <4>1
    <3>4. count = q + 1
      BY <1>1, <2>2, <3>1, <3>2
    <3> HIDE DEF count
    <3>5. count - 1 = q /\ q * max <= x /\ x <= q * max + max - 1
      BY <3>2, <3>4
    <3> QED
      BY <3>1, <3>3, <3>4, <3>5
  <2> QED
    BY <2>1, <2>2
<1>3. Pieces(xs, max) = pieces
  BY DEF Pieces
<1>4. PICK m \in Nat \ {0} : m = count /\ (xs = <<>> => m = 1)
  BY <1>2
<1>5. pieces = [k \in 1 .. m |-> SubSeq(xs, (k - 1) * max + 1, last(k))]
      /\ \A k \in 1 .. m : last(k) = IF k < m THEN k * max ELSE n
  BY <1>1, <1>4
<1>6. /\ xs # <<>> => (m - 1) * max <= n - 1
      /\ n <= (m - 1) * max + max
  BY <1>2, <1>4
<1> HIDE DEF count, last, pieces
<1>7. ASSUME NEW k \in 1 .. m
      PROVE  last(k) \in Nat /\ CutAt(xs, max, m, k, pieces[k], last(k))
  <2>1. PICK a \in Nat, b \in Nat : a = (k - 1) * max /\ b = k * max
    <3>1. k - 1 \in Nat
      OBVIOUS
    <3> QED
      BY <3>1
  <2>2. b = a + max
    BY <2>1
  <2>3. pieces[k] = SubSeq(xs, a + 1, last(k))
    BY <1>5, <2>1
  <2>4. CASE k < m
    <3>1. last(k) = b /\ xs # <<>>
      BY <1>4, <1>5, <2>1, <2>4
    <3>2. b <= n - 1
      <4>1. PICK d \in Nat : m - 1 = k + d
        BY <2>4
      <4>2. (m - 1) * max = k * max + d * max /\ d * max >= 0
        BY <4>1
      <4> QED
        BY <1>6, <2>1, <3>1, <4>2
    <3>3. last(k) \in a .. n /\ a < last(k)
      BY <1>1, <2>2, <3>1, <3>2
    <3> QED
      BY <1>1, <2>1, <2>3, <2>4, <3>1, <3>3 DEF CutAt
  <2>5. CASE k = m
    <3>1. last(k) = n /\ ~(k < m)
      BY <1>5, <2>5
    <3>2. xs # <<>> => a <= n - 1
      BY <1>6, <2>1, <2>5
    <3>3. n <= b
      BY <1>6, <2>1, <2>2, <2>5
    <3>4. xs = <<>> => a = 0 /\ n = 0
      BY <1>1, <1>4, <2>1, <2>5
    <3>5. last(k) \in a .. n /\ (xs # <<>> => a < last(k))
      BY <3>1, <3>2, <3>4
    <3> QED
      BY <1>1, <2>1, <2>3, <3>1, <3>3, <3>5 DEF CutAt
  <2> QED
    BY <2>4, <2>5
<1>8. Len(pieces) = m /\ DOMAIN pieces = 1 .. m
  BY <1>5
<1> QED
  BY <1>3, <1>7, <1>8

\* So the pieces are empty if the batch is, and none is otherwise.
LEMMA PiecesShape ==
  ASSUME NEW S, NEW xs \in Seq(S), NEW max \in Nat \ {0}
  PROVE  /\ Pieces(xs, max) \in Seq(Seq(S)) /\ Len(Pieces(xs, max)) \in Nat \ {0}
         /\ \A k \in 1 .. Len(Pieces(xs, max)) : Pieces(xs, max)[k] = <<>> <=> xs = <<>>
<1>1. PICK pieces : pieces = Pieces(xs, max)
  OBVIOUS
<1>2. PICK m \in Nat \ {0} :
           /\ Len(pieces) = m /\ DOMAIN pieces = 1 .. m
           /\ \A k \in 1 .. m : \E e \in Nat : CutAt(xs, max, m, k, pieces[k], e)
  BY <1>1, PiecesCut
<1>3. ASSUME NEW k \in 1 .. m PROVE pieces[k] \in Seq(S) /\ (pieces[k] = <<>> <=> xs = <<>>)
  <2>1. PICK e \in Nat : CutAt(xs, max, m, k, pieces[k], e)
    BY <1>2
  <2>2. PICK a \in Nat : a = (k - 1) * max
    <3>1. k - 1 \in Nat
      OBVIOUS
    <3> QED
      BY <3>1
  <2>3. pieces[k] = SubSeq(xs, a + 1, e) /\ e \in a .. Len(xs) /\ (xs # <<>> => a < e)
    BY <2>1, <2>2 DEF CutAt
  <2>4. /\ SubSeq(xs, a + 1, e) \in Seq(S)
        /\ Len(SubSeq(xs, a + 1, e)) = IF a + 1 <= e THEN e - (a + 1) + 1 ELSE 0
    <3>1. \A i \in a + 1 .. e : xs[i] \in S
      BY <2>3
    <3> QED
      BY <3>1, SubSeqProperties
  <2>5. xs = <<>> => Len(xs) = 0
    OBVIOUS
  <2>6. pieces[k] = <<>> <=> Len(pieces[k]) = 0
    BY <2>3, <2>4
  <2> QED
    BY <2>3, <2>4, <2>5, <2>6
<1>4. pieces = [k \in 1 .. m |-> pieces[k]]
  BY <1>1, <1>2 DEF Pieces
<1>5. pieces \in [1 .. m -> Seq(S)]
  BY <1>3, <1>4
<1>6. pieces \in Seq(Seq(S))
  BY <1>5, MadeLen
<1> QED
  BY <1>1, <1>2, <1>3, <1>6

\* All parts have bytes, or all are empty, as the batch they are made of is.
Uniform(parts, empty) ==
    /\ Len(parts) \in Nat \ {0} /\ DOMAIN parts = 1 .. Len(parts)
    /\ \A p \in 1 .. Len(parts) :
          /\ parts[p].chunk \in Nat \ {0}
          /\ IF empty THEN PartLen(parts, p) = 0 ELSE PartLen(parts, p) \in Nat \ {0}

\* Parts that are empty just if the batch is have the shape.
LEMMA UniformShape ==
  ASSUME NEW parts, NEW empty \in BOOLEAN, Uniform(parts, empty)
  PROVE  Shape(parts)
  BY DEF Uniform, Shape, Filled, Blank

\* One part,
LEMMA OnePartUniform ==
  ASSUME NEW bytes, NEW empty \in BOOLEAN,
         IF empty THEN Len(bytes) = 0 ELSE Len(bytes) \in Nat \ {0}
  PROVE  Uniform(<<Part(1, 1, bytes)>>, empty)
<1>1. PICK parts : parts = <<Part(1, 1, bytes)>>
  OBVIOUS
<1>2. Len(parts) = 1 /\ DOMAIN parts = 1 .. 1 /\ parts[1] = Part(1, 1, bytes)
  BY <1>1
<1>3. parts[1].chunk = 1 /\ parts[1].bytes = bytes
  BY <1>2 DEF Part
<1>4. \A p \in 1 .. 1 : p = 1
  OBVIOUS
<1> QED
  BY <1>1, <1>2, <1>3, <1>4 DEF Uniform, PartLen

\* a batch of numbers,
LEMMA BatchUniform ==
  ASSUME NEW S, NEW xs \in Seq(S), NEW step
  PROVE  Uniform(FmpzBatch(step, xs), xs = <<>>)
<1>1. PICK pieces : pieces = Pieces(xs, MaxFmpzBatch)
  OBVIOUS
<1>2. /\ pieces \in Seq(Seq(S)) /\ Len(pieces) \in Nat \ {0}
      /\ \A k \in 1 .. Len(pieces) : pieces[k] = <<>> <=> xs = <<>>
  BY <1>1, PiecesShape, WidthAssumption
<1>3. PICK n \in Nat \ {0} : n = Len(pieces) /\ DOMAIN pieces = 1 .. n
  BY <1>2
<1>4. ASSUME NEW k \in 1 .. n
      PROVE  IF xs = <<>> THEN Len(PutFmpzs(pieces[k])) = 0
             ELSE Len(PutFmpzs(pieces[k])) \in Nat \ {0}
  <2>1. pieces[k] \in Seq(S) /\ (pieces[k] = <<>> <=> xs = <<>>)
    BY <1>2, <1>3
  <2> QED
    BY <2>1, NumbersFilled
<1>5. PICK parts : parts = [k \in 1 .. n |-> Part(step, k, PutFmpzs(pieces[k]))]
  OBVIOUS
<1>6. FmpzBatch(step, xs) = parts
  BY <1>1, <1>3, <1>5 DEF FmpzBatch
<1>7. Len(parts) = n /\ DOMAIN parts = 1 .. n
  BY <1>5
<1>8. ASSUME NEW k \in 1 .. n
      PROVE  parts[k].chunk = k /\ parts[k].bytes = PutFmpzs(pieces[k])
  BY <1>5 DEF Part
<1> QED
  BY <1>4, <1>6, <1>7, <1>8 DEF Uniform, PartLen

\* one after another,
LEMMA ConcatUniform ==
  ASSUME NEW S, NEW a \in Seq(S), NEW b \in Seq(S), NEW empty \in BOOLEAN,
         Uniform(a, empty), Uniform(b, empty)
  PROVE  Uniform(a \o b, empty)
<1>1. PICK m \in Nat \ {0}, n \in Nat \ {0} : m = Len(a) /\ n = Len(b)
  BY DEF Uniform
<1>2. PICK c : c = a \o b
  OBVIOUS
<1>3. /\ c \in Seq(S) /\ Len(c) = m + n
      /\ \A i \in 1 .. m + n : c[i] = IF i <= m THEN a[i] ELSE b[i - m]
  BY <1>1, <1>2, ConcatProperties
<1>4. ASSUME NEW i \in 1 .. m + n
      PROVE  \/ \E p \in 1 .. m : c[i] = a[p]
             \/ \E p \in 1 .. n : c[i] = b[p]
  <2>1. CASE i <= m
    <3>1. i \in 1 .. m /\ c[i] = a[i]
      BY <1>3, <2>1
    <3> QED
      BY <3>1
  <2>2. CASE ~(i <= m)
    <3>1. i - m \in 1 .. n
      BY <2>2
    <3>2. c[i] = b[i - m]
      BY <1>3, <2>2
    <3> QED
      BY <3>1, <3>2
  <2> QED
    BY <2>1, <2>2
<1>5. DOMAIN c = 1 .. m + n /\ m + n \in Nat \ {0}
  BY <1>3
<1>6. ASSUME NEW i \in 1 .. m + n
      PROVE  /\ c[i].chunk \in Nat \ {0}
             /\ IF empty THEN Len(c[i].bytes) = 0 ELSE Len(c[i].bytes) \in Nat \ {0}
  BY <1>1, <1>4 DEF Uniform, PartLen
<1> QED
  BY SMTT(60), <1>2, <1>3, <1>5, <1>6 DEF Uniform, PartLen

\* a batch of daBits, numbers and flags in turn,
LEMMA DaBitsUniform ==
  ASSUME NEW xs \in Seq(DaBit)
  PROVE  Uniform(DaBitBatch(xs), xs = <<>>)
<1> DEFINE D == DaBit
<1>1. PICK pieces : pieces = Pieces(xs, MaxDaBitBatch)
  OBVIOUS
<1>2. /\ pieces \in Seq(Seq(D)) /\ Len(pieces) \in Nat \ {0}
      /\ \A k \in 1 .. Len(pieces) : pieces[k] = <<>> <=> xs = <<>>
  BY SMTT(40), <1>1, PiecesShape, WidthAssumption
<1>3. PICK n \in Nat \ {0} : n = Len(pieces) /\ DOMAIN pieces = 1 .. n
  BY <1>2
<1> DEFINE bp(k) == [i \in DOMAIN pieces[k] |-> pieces[k][i].bp]
           b2(k) == [i \in DOMAIN pieces[k] |-> pieces[k][i].b2]
           Two(k) == <<Part(1, k, PutFmpzs(bp(k))), Part(1, k, PutBools(b2(k)))>>
           All == {Part(1, k, PutFmpzs(bp(k))) : k \in 1 .. n}
                  \cup {Part(1, k, PutBools(b2(k))) : k \in 1 .. n}
           Fits(x) == x.chunk \in Nat \ {0}
                      /\ IF xs = <<>> THEN Len(x.bytes) = 0 ELSE Len(x.bytes) \in Nat \ {0}
<1>4. ASSUME NEW k \in 1 .. n
      PROVE  Fits(Part(1, k, PutFmpzs(bp(k)))) /\ Fits(Part(1, k, PutBools(b2(k))))
  <2>1. pieces[k] \in Seq(D) /\ (pieces[k] = <<>> <=> xs = <<>>)
    BY <1>2, <1>3
  <2>2. PICK l \in Nat : l = Len(pieces[k]) /\ DOMAIN pieces[k] = 1 .. l /\ (l = 0 <=> xs = <<>>)
    BY <2>1
  <2>3. bp(k) \in [1 .. l -> Residue] /\ b2(k) \in [1 .. l -> BOOLEAN]
    <3>1. ASSUME NEW i \in 1 .. l PROVE pieces[k][i] \in D
      <4> HIDE DEF D
      <4> QED
        BY <2>1, <2>2, ElementOfSeq
    <3>2. \A i \in 1 .. l : pieces[k][i].bp \in Residue /\ pieces[k][i].b2 \in BOOLEAN
      BY <3>1 DEF DaBit
    <3>3. bp(k) \in [1 .. l -> Residue]
      BY <2>2, <3>2
    <3>4. b2(k) \in [1 .. l -> BOOLEAN]
      BY <2>2, <3>2
    <3> QED
      BY <3>3, <3>4
  <2>4. PICK u, v : u = bp(k) /\ v = b2(k)
    OBVIOUS
  <2>5. u \in Seq(Residue) /\ v \in Seq(BOOLEAN) /\ Len(u) = l /\ Len(v) = l
    BY <2>3, <2>4, MadeLen
  <2>6. (u = <<>> <=> xs = <<>>) /\ (v = <<>> <=> xs = <<>>)
    BY <2>2, <2>5
  <2>7. /\ IF xs = <<>> THEN Len(PutFmpzs(u)) = 0 ELSE Len(PutFmpzs(u)) \in Nat \ {0}
        /\ IF xs = <<>> THEN Len(PutBools(v)) = 0 ELSE Len(PutBools(v)) \in Nat \ {0}
    BY <2>5, <2>6, NumbersFilled, FlagsFilled
  <2> HIDE DEF bp, b2
  <2>8. /\ Part(1, k, PutFmpzs(bp(k))).chunk = k /\ Part(1, k, PutFmpzs(bp(k))).bytes = PutFmpzs(u)
        /\ Part(1, k, PutBools(b2(k))).chunk = k /\ Part(1, k, PutBools(b2(k))).bytes = PutBools(v)
    BY <2>4 DEF Part
  <2> QED
    BY <2>7, <2>8
<1>5. \A x \in All : Fits(x)
  <2> HIDE DEF bp, b2, Fits
  <2> QED
    BY <1>4
<1>6. PICK ss : ss = [k \in 1 .. n |-> Two(k)]
  OBVIOUS
<1>7. DaBitBatch(xs) = FlattenSeq(ss)
  BY <1>1, <1>3, <1>6 DEF DaBitBatch
<1>8. ASSUME NEW k \in 1 .. n PROVE ss[k] \in Seq(All) /\ Len(ss[k]) = 2
  <2> HIDE DEF bp, b2
  <2>1. PICK a \in All, b \in All : Two(k) = <<a, b>>
    OBVIOUS
  <2>2. ss[k] = <<a, b>>
    BY <1>6, <2>1
  <2> HIDE DEF All
  <2> QED
    BY <2>2
<1> HIDE DEF All, Fits
<1>9. ss \in Seq(Seq(All)) /\ Len(ss) = n
  <2>1. ss \in [1 .. n -> Seq(All)]
    BY <1>6, <1>8
  <2> QED
    BY <2>1, MadeLen
<1>10. PICK parts : parts = FlattenSeq(ss)
  OBVIOUS
<1>11. parts \in Seq(All) /\ Len(parts) = n * 2
  BY <1>8, <1>9, <1>10, FlattenLen
<1>12. \A p \in 1 .. Len(parts) : Fits(parts[p])
  BY <1>5, <1>11
<1>13. Len(parts) \in Nat \ {0} /\ DOMAIN parts = 1 .. Len(parts)
  BY <1>11
<1> QED
  BY <1>7, <1>10, <1>12, <1>13 DEF Uniform, PartLen, Fits

\* and a packet, every number of it a part.
LEMMA PacketUniform ==
  ASSUME NEW p \in ClientPacket
  PROVE  Uniform([n \in DOMAIN PacketFields(p) |-> Part(n, 1, PutFmpz(PacketFields(p)[n]))], FALSE)
<1>1. PICK xs : xs = PacketFields(p)
  OBVIOUS
<1>2. /\ p.MulShares \in Seq(Residue) /\ p.h_points \in Seq(Residue)
      /\ <<p.f0, p.g0, p.h0>> \in Seq(Residue) /\ <<p.A, p.B, p.C>> \in Seq(Residue)
      /\ Len(<<p.f0, p.g0, p.h0>>) = 3 /\ Len(<<p.A, p.B, p.C>>) = 3
  BY DEF ClientPacket
<1>3. xs \in Seq(Residue) /\ Len(xs) \in Nat \ {0}
  <2>1. PICK a, b, c, d : a = p.MulShares /\ b = <<p.f0, p.g0, p.h0>> /\ c = p.h_points
                          /\ d = <<p.A, p.B, p.C>>
    OBVIOUS
  <2>2. /\ a \in Seq(Residue) /\ b \in Seq(Residue) /\ c \in Seq(Residue) /\ d \in Seq(Residue)
        /\ Len(a) \in Nat /\ Len(b) = 3 /\ Len(c) \in Nat
    BY <1>2, <2>1
  <2>3. a \o b \in Seq(Residue) /\ Len(a \o b) \in Nat
    BY <2>2, ConcatProperties
  <2>4. (a \o b) \o c \in Seq(Residue) /\ Len((a \o b) \o c) \in Nat
    BY <2>2, <2>3, ConcatProperties
  <2>5. ((a \o b) \o c) \o d \in Seq(Residue) /\ Len(((a \o b) \o c) \o d) = Len((a \o b) \o c) + 3
    BY <1>2, <2>1, <2>2, <2>4, ConcatProperties
  <2>6. xs = ((a \o b) \o c) \o d
    BY <1>1, <2>1 DEF PacketFields
  <2> QED
    BY SMTT(40), <2>4, <2>5, <2>6
<1>4. PICK n \in Nat \ {0} : n = Len(xs) /\ DOMAIN xs = 1 .. n
  BY <1>3
<1>5. PICK parts : parts = [i \in 1 .. n |-> Part(i, 1, PutFmpz(xs[i]))]
  OBVIOUS
<1>6. Len(parts) = n /\ DOMAIN parts = 1 .. n
  BY <1>5
<1>7. ASSUME NEW i \in 1 .. n PROVE parts[i].chunk = 1 /\ Len(parts[i].bytes) = FmpzBytes
  <2>1. parts[i].chunk = 1 /\ parts[i].bytes = PutFmpz(xs[i])
    BY <1>5 DEF Part
  <2> QED
    BY <2>1, NumberLen
<1> QED
  BY SMTT(40), <1>1, <1>4, <1>5, <1>6, <1>7, WidthAssumption DEF Uniform, PartLen

\* So have the parts of every call that is made.
LEMMA PartsShape ==
  ASSUME NEW p \in Programs, NEW c \in DOMAIN p
  PROVE  Shape(Parts(p[c]))
<1>1. PICK call : call = p[c]
  OBVIOUS
<1>2. /\ call.kind \in {"size", "bools", "fmpzs", "cors", "dabits", "packet"}
      /\ call.data \in Data(call.kind)
  BY <1>1, ProgramsAssumption
<1>3. CASE call.kind = "size"
  <2>1. Len(PutSize(call.data)) \in Nat \ {0}
    BY NumberLen, WidthAssumption
  <2>2. Parts(call) = <<Part(1, 1, PutSize(call.data))>>
    BY <1>3 DEF Parts
  <2> QED
    BY <1>1, <2>1, <2>2, OnePartUniform, UniformShape
<1>4. CASE call.kind = "bools"
  <2>1. call.data \in Seq(BOOLEAN)
    BY <1>2, <1>4 DEF Data
  <2>2. Parts(call) = <<Part(1, 1, PutBools(call.data))>>
    BY <1>4 DEF Parts
  <2>3. Uniform(Parts(call), call.data = <<>>)
    BY <2>1, <2>2, FlagsFilled, OnePartUniform
  <2> QED
    BY <1>1, <2>3, UniformShape
<1>5. CASE call.kind = "fmpzs"
  <2>1. call.data \in Seq(Residue)
    BY <1>2, <1>5 DEF Data
  <2>2. Parts(call) = FmpzBatch(1, call.data)
    BY <1>5 DEF Parts
  <2>3. Uniform(Parts(call), call.data = <<>>)
    BY <2>1, <2>2, BatchUniform
  <2> QED
    BY <1>1, <2>3, UniformShape
<1>6. CASE call.kind = "cors"
  <2>1. call.data \in Seq(Cor)
    BY <1>2, <1>6 DEF Data
  <2>2. PICK n \in Nat : n = Len(call.data) /\ DOMAIN call.data = 1 .. n
    BY <2>1
  <2>3. PICK d, e : d = [k \in DOMAIN call.data |-> call.data[k].D]
                    /\ e = [k \in DOMAIN call.data |-> call.data[k].E]
    OBVIOUS
  <2>4. d \in [1 .. n -> Residue] /\ e \in [1 .. n -> Residue]
    <3> DEFINE S == Cor
    <3>1. ASSUME NEW k \in 1 .. n PROVE call.data[k] \in S
      <4> HIDE DEF S
      <4> QED
        BY <2>1, <2>2, ElementOfSeq DEF S
    <3>2. \A k \in 1 .. n : call.data[k].D \in Residue /\ call.data[k].E \in Residue
      BY <3>1 DEF Cor
    <3>3. d \in [1 .. n -> Residue]
      BY <2>2, <2>3, <3>2
    <3>4. e \in [1 .. n -> Residue]
      BY <2>2, <2>3, <3>2
    <3> QED
      BY <3>3, <3>4
  <2>5. d \in Seq(Residue) /\ e \in Seq(Residue) /\ Len(d) = n /\ Len(e) = n
    BY <2>4, MadeLen
  <2>6. (d = <<>> <=> n = 0) /\ (e = <<>> <=> n = 0)
    BY <2>5
  <2>7. PICK empty \in BOOLEAN : empty = (n = 0)
    OBVIOUS
  <2>8. Uniform(FmpzBatch(1, d), empty) /\ Uniform(FmpzBatch(2, e), empty)
    BY <2>5, <2>6, <2>7, BatchUniform
  <2>9. PICK a, b : a = FmpzBatch(1, d) /\ b = FmpzBatch(2, e)
    OBVIOUS
  <2>10. Parts(call) = a \o b
    BY <1>6, <2>3, <2>9 DEF Parts
  <2> DEFINE S == {a[k] : k \in 1 .. Len(a)} \cup {b[k] : k \in 1 .. Len(b)}
  <2>11. a \in [1 .. Len(a) -> S] /\ b \in [1 .. Len(b) -> S] /\ Len(a) \in Nat /\ Len(b) \in Nat
    <3>1. /\ DOMAIN a = 1 .. Len(a) /\ DOMAIN b = 1 .. Len(b) /\ Len(a) \in Nat /\ Len(b) \in Nat
      BY <2>8, <2>9 DEF Uniform
    <3>2. a = [k \in DOMAIN a |-> a[k]] /\ b = [k \in DOMAIN b |-> b[k]]
      BY <2>9 DEF FmpzBatch
    <3> QED
      BY <3>1, <3>2
  <2> HIDE DEF S
  <2>12. a \in Seq(S) /\ b \in Seq(S)
    BY <2>11, MadeLen
  <2>13. Uniform(a \o b, empty)
    BY <2>8, <2>9, <2>12, ConcatUniform
  <2> QED
    BY <1>1, <2>10, <2>13, UniformShape
<1>7. CASE call.kind = "dabits"
  <2>1. call.data \in Seq(DaBit)
    BY <1>2, <1>7 DEF Data
  <2>2. Parts(call) = DaBitBatch(call.data)
    BY <1>7 DEF Parts
  <2>3. Uniform(Parts(call), call.data = <<>>)
    BY <2>1, <2>2, DaBitsUniform
  <2> QED
    BY <1>1, <2>3, UniformShape
<1>8. CASE call.kind = "packet"
  <2>1. call.data \in ClientPacket
    BY <1>2, <1>8 DEF Data
  <2>2. Parts(call) = [n \in DOMAIN PacketFields(call.data) |->
                          Part(n, 1, PutFmpz(PacketFields(call.data)[n]))]
    BY <1>8 DEF Parts
  <2>3. Uniform(Parts(call), FALSE)
    BY <2>1, <2>2, PacketUniform
  <2> QED
    BY <1>1, <2>3, UniformShape
<1> QED
  BY <1>2, <1>3, <1>4, <1>5, <1>6, <1>7, <1>8

-----------------------------------------------------------------------------
(* Sums, and the numbers and flags that are made of them *)

\* Sums as FoldLeft makes them, from the last position down.
SumOf(n, w, h) ==
    [s \in SUBSET (1 .. n) |-> IF s = {} THEN 0 ELSE h[s \ {Max(s)}] + w[Max(s)]]
\* The partial sums.
SumPath(n, w, acc) ==
    /\ acc \in [0 .. n -> Int] /\ acc[0] = 0
    /\ \A k \in 1 .. n : acc[k] = acc[k - 1] + w[k]

\* There are such sums, and each is the last of its partial sums.
LEMMA SumsExist ==
  ASSUME NEW n \in Nat, NEW w \in [1 .. n -> Int]
  PROVE  /\ \E h : h = SumOf(n, w, h)
         /\ \A h : h = SumOf(n, w, h) => \E acc : SumPath(n, w, acc) /\ h[1 .. n] = acc[n]
<1>1. PICK G : G = [j \in 1 .. n |-> [v \in Int |-> v + w[j]]]
  OBVIOUS
<1>2. Folding(n, Int, 0, G)
  <2>1. ASSUME NEW j \in 1 .. n PROVE [v \in Int |-> v + w[j]] \in [Int -> Int]
    OBVIOUS
  <2>2. G \in [1 .. n -> [Int -> Int]]
    BY <1>1, <2>1
  <2> QED
    BY <2>2 DEF Folding
<1>3. \E h : h = SumOf(n, w, h)
  <2>1. PICK iter : iter \in [SUBSET (1 .. n) -> Int] /\ Folded(n, Int, 0, G, iter)
    BY <1>2, FoldExists
  <2>2. ASSUME NEW s \in SUBSET (1 .. n) PROVE iter[s] = SumOf(n, w, iter)[s]
    <3>1. CASE s = {}
      BY <2>1, <3>1 DEF Folded, SumOf
    <3>2. CASE s # {}
      <4>1. Max(s) \in 1 .. n /\ s \ {Max(s)} \in SUBSET (1 .. n)
        BY <3>2, MaxIn
      <4>2. iter[s] = iter[s \ {Max(s)}] + w[Max(s)]
        BY <1>1, <2>1, <3>2, <4>1 DEF Folded
      <4> QED
        BY <3>2, <4>2 DEF SumOf
    <3> QED
      BY <3>1, <3>2
  <2>3. iter = SumOf(n, w, iter)
    BY <2>1, <2>2 DEF SumOf
  <2> QED
    BY <2>3
<1>4. ASSUME NEW h, h = SumOf(n, w, h)
      PROVE  \E acc : SumPath(n, w, acc) /\ h[1 .. n] = acc[n]
  <2>1. Folded(n, Int, 0, G, h)
    <3>1. h[{}] = 0
      BY <1>4 DEF SumOf
    <3>2. ASSUME NEW s \in SUBSET (1 .. n), s # {}, h[s \ {Max(s)}] \in Int
          PROVE  h[s] = G[Max(s)][h[s \ {Max(s)}]]
      <4>1. Max(s) \in 1 .. n
        BY <3>2, MaxIn
      <4>2. h[s] = h[s \ {Max(s)}] + w[Max(s)]
        BY <1>4, <3>2 DEF SumOf
      <4> QED
        BY <1>1, <3>2, <4>1, <4>2
    <3> QED
      BY <3>1, <3>2 DEF Folded
  <2>2. PICK acc : PartSums(n, Int, 0, G, acc) /\ h[1 .. n] = acc[n]
    BY <1>2, <2>1, FoldPrefixes
  <2>3. acc \in [0 .. n -> Int] /\ acc[0] = 0
    BY <2>2 DEF PartSums
  <2>4. ASSUME NEW j \in 1 .. n PROVE acc[j] = acc[j - 1] + w[j]
    <3>1. acc[j - 1] \in Int
      BY <2>3
    <3> QED
      BY <1>1, <2>2, <3>1 DEF PartSums
  <2> QED
    BY <2>2, <2>3, <2>4 DEF SumPath
<1> QED
  BY <1>3, <1>4

\* Numbers from bytes are such sums,
LEMMA FromLittleRec ==
  ASSUME NEW n \in Nat, NEW bytes \in [1 .. n -> Int]
  PROVE  \E acc : /\ SumPath(n, [k \in 1 .. n |-> bytes[k] * 2 ^ (ByteBits * (k - 1))], acc)
                  /\ FromLittle(bytes) = acc[n]
<1>1. PICK w : w = [k \in 1 .. n |-> bytes[k] * 2 ^ (ByteBits * (k - 1))]
  OBVIOUS
<1>2. w \in [1 .. n -> Int]
  <2>1. ASSUME NEW k \in 1 .. n PROVE bytes[k] * 2 ^ (ByteBits * (k - 1)) \in Int
    <3>1. ByteBits * (k - 1) \in Nat
      BY SMTT(60), WidthAssumption
    <3>2. PICK p \in Int : p = 2 ^ (ByteBits * (k - 1))
      BY <3>1, Pow
    <3> QED
      BY <3>2
  <2> QED
    BY <1>1, <2>1
<1> DEFINE D == DOMAIN bytes
           seq == [i \in D |-> i]
           Fix(h) == [s \in SUBSET DOMAIN seq |-> IF s = {} THEN 0 ELSE LET x == Max(s) IN
                        h[s \ {x}] + bytes[seq[x]] * 2 ^ (ByteBits * (seq[x] - 1))]
           fold == CHOOSE h : h = Fix(h)
<1>3. FromLittle(bytes) = fold[DOMAIN seq]
  BY DEF FromLittle, FoldLeftDomain, FoldLeft, MapThenFoldSet
<1>4. DOMAIN seq = 1 .. n /\ \A i \in 1 .. n : seq[i] = i
  OBVIOUS
<1> HIDE DEF seq
<1>5. ASSUME NEW h PROVE Fix(h) = SumOf(n, w, h)
  <2>1. ASSUME NEW s \in SUBSET (1 .. n) PROVE Fix(h)[s] = SumOf(n, w, h)[s]
    <3>1. CASE s = {}
      BY <1>4, <3>1 DEF SumOf
    <3>2. CASE s # {}
      <4>1. Max(s) \in 1 .. n
        BY <3>2, MaxIn
      <4>2. seq[Max(s)] = Max(s)
        BY <1>4, <4>1
      <4>3. w[Max(s)] = bytes[Max(s)] * 2 ^ (ByteBits * (Max(s) - 1))
        BY <1>1, <4>1
      <4> QED
        BY <1>4, <3>2, <4>2, <4>3 DEF SumOf
    <3> QED
      BY <3>1, <3>2
  <2> QED
    BY <1>4, <2>1 DEF SumOf
<1>6. fold = Fix(fold)
  <2> HIDE DEF Fix
  <2>1. \E h : h = Fix(h)
    <3>1. PICK h : h = SumOf(n, w, h)
      BY <1>2, SumsExist
    <3>2. h = Fix(h)
      BY <1>5, <3>1
    <3> QED
      BY <3>2
  <2> QED
    BY <2>1, Zenon
<1>7. fold = SumOf(n, w, fold)
  BY <1>5, <1>6
<1> HIDE DEF fold
<1>8. PICK acc : SumPath(n, w, acc) /\ fold[1 .. n] = acc[n]
  BY <1>2, <1>7, SumsExist
<1> QED
  BY <1>1, <1>3, <1>4, <1>8

\* and so is a byte of flags.
LEMMA FlagsRec ==
  ASSUME NEW xs \in Seq(BOOLEAN), NEW b \in 1 .. BoolBytes(Len(xs))
  PROVE  \E acc : /\ SumPath(ByteBits, [k \in 1 .. ByteBits |->
                                IF (b - 1) * ByteBits + (k - 1) < Len(xs)
                                   /\ xs[(b - 1) * ByteBits + (k - 1) + 1] THEN 2 ^ (k - 1) ELSE 0], acc)
                  /\ PutBools(xs)[b] = acc[ByteBits]
<1>1. PICK n \in Nat \ {0} : n = ByteBits
  BY WidthAssumption
<1> DEFINE val(k) == IF (b - 1) * ByteBits + k < Len(xs)
                        /\ xs[(b - 1) * ByteBits + k + 1] THEN 2 ^ k ELSE 0
           seq == [k \in 1 .. ByteBits |-> k - 1]
           Fix(h) == [s \in SUBSET DOMAIN seq |-> IF s = {} THEN 0 ELSE LET x == Max(s) IN
                        h[s \ {x}] + val(seq[x])]
           fold == CHOOSE h : h = Fix(h)
<1>2. PutBools(xs)[b] = fold[DOMAIN seq]
  BY DEF PutBools, FoldLeft, MapThenFoldSet
<1>3. PICK w : w = [k \in 1 .. ByteBits |-> val(k - 1)]
  OBVIOUS
<1>4. w \in [1 .. n -> Int]
  <2>1. ASSUME NEW k \in 1 .. n PROVE val(k - 1) \in Int
    <3>1. PICK p \in Int : p = 2 ^ (k - 1)
      <4>1. k - 1 \in Nat
        OBVIOUS
      <4> QED
        BY <4>1, Pow
    <3> QED
      BY <3>1
  <2> QED
    BY <1>1, <1>3, <2>1
<1>5. DOMAIN seq = 1 .. n /\ \A i \in 1 .. n : seq[i] = i - 1
  BY <1>1
<1>6. \A k \in 1 .. n : w[k] = val(k - 1)
  BY <1>1, <1>3
<1> HIDE DEF seq, val
<1>7. ASSUME NEW h PROVE Fix(h) = SumOf(n, w, h)
  <2>1. ASSUME NEW s \in SUBSET (1 .. n) PROVE Fix(h)[s] = SumOf(n, w, h)[s]
    <3>1. CASE s = {}
      BY <1>5, <3>1 DEF SumOf
    <3>2. CASE s # {}
      <4>1. Max(s) \in 1 .. n
        BY <3>2, MaxIn
      <4>2. w[Max(s)] = val(seq[Max(s)])
        BY <1>5, <1>6, <4>1
      <4> QED
        BY <1>5, <3>2, <4>2 DEF SumOf
    <3> QED
      BY <3>1, <3>2
  <2> QED
    BY <1>5, <2>1 DEF SumOf
<1>8. fold = Fix(fold)
  <2> HIDE DEF Fix
  <2>1. \E h : h = Fix(h)
    <3>1. PICK h : h = SumOf(n, w, h)
      BY <1>4, SumsExist
    <3>2. h = Fix(h)
      BY <1>7, <3>1
    <3> QED
      BY <3>2
  <2> QED
    BY <2>1, Zenon
<1>9. fold = SumOf(n, w, fold)
  BY <1>7, <1>8
<1> HIDE DEF fold
<1>10. PICK acc : SumPath(n, w, acc) /\ fold[1 .. n] = acc[n]
  BY <1>4, <1>9, SumsExist
<1>11. w = [k \in 1 .. ByteBits |->
              IF (b - 1) * ByteBits + (k - 1) < Len(xs)
                 /\ xs[(b - 1) * ByteBits + (k - 1) + 1] THEN 2 ^ (k - 1) ELSE 0]
  BY <1>3 DEF val
<1> QED
  BY <1>1, <1>2, <1>5, <1>10, <1>11

\* A number's digits are bytes.
LEMMA DigitType ==
  ASSUME NEW v \in Int, NEW k \in Nat
  PROVE  Digit(v, k) \in Int
<1>1. ByteBits * k \in Nat /\ ByteBits \in Nat
  BY WidthAssumption
<1>2. PICK p \in Nat \ {0}, m \in Nat \ {0} : p = 2 ^ (ByteBits * k) /\ m = 2 ^ ByteBits
  BY <1>1, PowPos
<1>3. PICK q \in Int : q = v \div p
  BY DivMod
<1>4. q % m \in Int
  BY DivMod
<1> QED
  BY <1>2, <1>3, <1>4 DEF Digit

\* n digits are the number, modulo what n bytes hold.
LEMMA LittleValue ==
  ASSUME NEW x \in Int, NEW n \in Nat
  PROVE  FromLittle(Little(x, n)) = x % 2 ^ (ByteBits * n)
<1>1. PICK bytes : bytes = Little(x, n)
  OBVIOUS
<1>2. bytes \in [1 .. n -> Int] /\ \A k \in 1 .. n : bytes[k] = Digit(x, k - 1)
  <2>1. ASSUME NEW k \in 1 .. n PROVE Digit(x, k - 1) \in Int
    <3>1. k - 1 \in Nat
      OBVIOUS
    <3> QED
      BY <3>1, DigitType
  <2> QED
    BY <1>1, <2>1 DEF Little
<1>3. PICK w : w = [k \in 1 .. n |-> bytes[k] * 2 ^ (ByteBits * (k - 1))]
  OBVIOUS
<1>4. PICK acc : SumPath(n, w, acc) /\ FromLittle(bytes) = acc[n]
  BY <1>2, <1>3, FromLittleRec
<1> DEFINE P == {k \in Nat : k <= n => acc[k] = x % 2 ^ (ByteBits * k)}
<1>5. 0 \in P
  <2>1. ByteBits * 0 = 0
    BY WidthAssumption
  <2>2. PICK one \in Nat \ {0} : one = 1
    OBVIOUS
  <2>3. x % one \in 0 .. one - 1
    BY DivMod
  <2>4. 2 ^ (ByteBits * 0) = one
    BY <2>1, <2>2, PowZero
  <2>5. x % one = 0
    BY <2>2, <2>3
  <2>6. acc[0] = x % 2 ^ (ByteBits * 0)
    BY <1>4, <2>4, <2>5 DEF SumPath
  <2> QED
    BY <2>6
<1>6. ASSUME NEW k \in Nat, k \in P PROVE k + 1 \in P
  <2> SUFFICES ASSUME k + 1 <= n PROVE acc[k + 1] = x % 2 ^ (ByteBits * (k + 1))
    OBVIOUS
  <2>1. PICK B \in Nat \ {0}, e \in Nat : B = ByteBits /\ e = ByteBits * k
    BY WidthAssumption
  <2>2. ByteBits * (k + 1) = e + B
    BY <2>1
  <2>3. PICK p \in Nat \ {0}, m \in Nat \ {0} : p = 2 ^ e /\ m = 2 ^ B
    BY PowPos
  <2>4. 2 ^ (ByteBits * (k + 1)) = p * m
    BY <2>2, <2>3, PowAdd
  <2>5. k + 1 \in 1 .. n /\ (k + 1) - 1 = k
    OBVIOUS
  <2>6. acc[k + 1] = acc[k] + Digit(x, k) * p
    <3>1. acc[k + 1] = acc[(k + 1) - 1] + w[k + 1]
      BY <1>4, <2>5 DEF SumPath
    <3>2. w[k + 1] = bytes[k + 1] * 2 ^ (ByteBits * ((k + 1) - 1))
      BY <1>3, <2>5
    <3>3. bytes[k + 1] = Digit(x, (k + 1) - 1)
      BY <1>2, <2>5
    <3> QED
      BY <2>1, <2>3, <2>5, <3>1, <3>2, <3>3
  <2>7. acc[k] = x % p
    BY <1>6, <2>1, <2>3
  <2>8. Digit(x, k) = (x \div p) % m
    BY <2>1, <2>3 DEF Digit
  <2>9. x % (p * m) = (x % p) + ((x \div p) % m) * p
    BY ModSplit
  <2> QED
    BY <2>4, <2>6, <2>7, <2>8, <2>9
<1> HIDE DEF P
<1>7. Nat \subseteq P
  BY <1>5, <1>6, Induct
<1>8. acc[n] = x % 2 ^ (ByteBits * n)
  BY <1>7 DEF P
<1> QED
  BY <1>1, <1>4, <1>8

\* A sum of different powers of two has the bits it was made of.
LEMMA BitOfSum ==
  ASSUME NEW n \in Nat, NEW bits \in [1 .. n -> BOOLEAN], NEW acc,
         SumPath(n, [k \in 1 .. n |-> IF bits[k] THEN 2 ^ (k - 1) ELSE 0], acc),
         NEW j \in 1 .. n
  PROVE  (acc[n] \div 2 ^ (j - 1)) % 2 = 1 <=> bits[j]
<1>1. PICK w : w = [k \in 1 .. n |-> IF bits[k] THEN 2 ^ (k - 1) ELSE 0]
  OBVIOUS
<1>2. ASSUME NEW k \in 1 .. n
      PROVE  /\ k - 1 \in Nat /\ acc[k] = acc[k - 1] + w[k]
             /\ w[k] = IF bits[k] THEN 2 ^ (k - 1) ELSE 0
  BY <1>1 DEF SumPath
<1>3. acc \in [0 .. n -> Int] /\ acc[0] = 0
  BY DEF SumPath
<1> DEFINE L == {k \in Nat : k <= n => acc[k] \in 0 .. 2 ^ k - 1}
<1>4. 0 \in L
  BY <1>3, PowZero
<1>5. ASSUME NEW k \in Nat, k \in L PROVE k + 1 \in L
  <2> SUFFICES ASSUME k + 1 <= n PROVE acc[k + 1] \in 0 .. 2 ^ (k + 1) - 1
    OBVIOUS
  <2>1. k + 1 \in 1 .. n /\ (k + 1) - 1 = k
    OBVIOUS
  <2>2. PICK p \in Nat \ {0} : p = 2 ^ k
    BY PowPos
  <2>3. 2 ^ (k + 1) = 2 * p
    BY <2>2, PowDouble
  <2>4. acc[k + 1] = acc[k] + w[k + 1] /\ w[k + 1] \in {0, p}
    <3>1. acc[k + 1] = acc[(k + 1) - 1] + w[k + 1]
      BY <1>2, <2>1
    <3>2. w[k + 1] = IF bits[k + 1] THEN 2 ^ ((k + 1) - 1) ELSE 0
      BY <1>2, <2>1
    <3> QED
      BY <2>1, <2>2, <3>1, <3>2
  <2>5. acc[k] \in 0 .. p - 1
    BY <1>5, <2>2
  <2> QED
    BY <2>3, <2>4, <2>5
<1> HIDE DEF L
<1>6. Nat \subseteq L
  BY <1>4, <1>5, Induct
<1>7. PICK i \in Nat : i = j - 1
  OBVIOUS
<1>8. PICK p \in Nat \ {0} : p = 2 ^ i
  BY PowPos
<1> DEFINE bit == IF bits[j] THEN 1 ELSE 0
           H == {k \in Nat : i + 1 + k <= n =>
                    \E m \in Int, r \in 0 .. p - 1 : acc[i + 1 + k] = (2 * m + bit) * p + r}
<1>9. 0 \in H
  <2>1. i + 1 + 0 = j
    BY <1>7
  <2>2. acc[j] = acc[i] + w[j] /\ w[j] = IF bits[j] THEN p ELSE 0
    BY <1>2, <1>7, <1>8
  <2>3. PICK r \in 0 .. p - 1 : r = acc[i]
    <3>1. i \in L /\ i <= n
      BY <1>6, <1>7
    <3> QED
      BY <1>8, <3>1 DEF L
  <2>4. (2 * 0 + bit) * p = IF bits[j] THEN p ELSE 0
    <3>1. CASE bits[j]
      BY <3>1
    <3>2. CASE ~bits[j]
      BY <3>2
    <3> QED
      BY <3>1, <3>2
  <2>5. PICK zero \in Int : zero = 0
    OBVIOUS
  <2>6. acc[j] = (2 * zero + bit) * p + r
    <3>1. PICK z \in Int : z = w[j] /\ z = (2 * zero + bit) * p
      BY <2>2, <2>4, <2>5
    <3>2. acc[j] = r + z
      BY <2>2, <2>3, <3>1
    <3>3. acc[j] = z + r
      BY <3>1, <3>2
    <3> QED
      BY <3>1, <3>3
  <2> QED
    BY <2>1, <2>6
<1>10. ASSUME NEW k \in Nat, k \in H PROVE k + 1 \in H
  <2> SUFFICES ASSUME i + 1 + (k + 1) <= n
               PROVE  \E m \in Int, r \in 0 .. p - 1 : acc[i + 1 + (k + 1)] = (2 * m + bit) * p + r
    OBVIOUS
  <2>1. PICK h \in 1 .. n : h = i + 1 + k
    OBVIOUS
  <2>2. h + 1 \in 1 .. n /\ (h + 1) - 1 = h /\ i + 1 + (k + 1) = h + 1
    BY <2>1
  <2>3. PICK m \in Int, r \in 0 .. p - 1 : acc[h] = (2 * m + bit) * p + r
    BY <1>10, <2>1
  <2>4. PICK t \in Nat : t = 2 ^ k
    BY PowPos
  <2>5. 2 ^ h = (2 * t) * p
    <3>1. 2 ^ (k + 1) = 2 * t
      BY <2>4, PowDouble
    <3>2. PICK g \in Nat : g = k + 1
      OBVIOUS
    <3>3. 2 ^ (g + i) = 2 ^ g * 2 ^ i
      BY <3>2, PowAdd
    <3>4. h = g + i
      BY <2>1, <3>2
    <3> QED
      BY <1>8, <3>1, <3>2, <3>3, <3>4
  <2>6. acc[h + 1] = acc[h] + w[h + 1] /\ w[h + 1] = IF bits[h + 1] THEN (2 * t) * p ELSE 0
    <3>1. acc[h + 1] = acc[(h + 1) - 1] + w[h + 1]
      BY <1>2, <2>2
    <3>2. w[h + 1] = IF bits[h + 1] THEN 2 ^ ((h + 1) - 1) ELSE 0
      BY <1>2, <2>2
    <3> QED
      BY <2>2, <2>5, <3>1, <3>2
  <2>7. PICK c \in 0 .. 1 : c = bit
    OBVIOUS
  <2> HIDE DEF bit
  <2>8. (2 * m + c) * p + r + (2 * t) * p = (2 * (m + t) + c) * p + r
    OBVIOUS
  <2>9. m + t \in Int
    OBVIOUS
  <2>10. acc[h + 1] = (2 * (m + t) + bit) * p + r \/ acc[h + 1] = (2 * m + bit) * p + r
    BY <2>3, <2>6, <2>7, <2>8
  <2> QED
    BY <2>2, <2>9, <2>10
<1> HIDE DEF H
<1>11. Nat \subseteq H
  BY <1>9, <1>10, Induct
<1>12. PICK m \in Int, r \in 0 .. p - 1 : acc[n] = (2 * m + bit) * p + r
  <2>1. PICK k \in Nat : n = i + 1 + k
    BY <1>7
  <2>2. k \in H
    BY <1>11
  <2> QED
    BY <2>1, <2>2 DEF H
<1>13. PICK q \in Int, c \in 0 .. 1 : q = 2 * m + bit /\ c = bit
  OBVIOUS
<1>14. acc[n] \div p = q
  BY <1>12, <1>13, DivUnique
<1>15. q % 2 = c
  <2>1. PICK two \in Nat \ {0} : two = 2
    OBVIOUS
  <2>2. (m * two + c) % two = c
    BY <2>1, ModUnique
  <2>3. m * two + c = q
    BY <1>13, <2>1
  <2> QED
    BY <2>1, <2>2, <2>3
<1> QED
  BY <1>7, <1>8, <1>13, <1>14, <1>15

-----------------------------------------------------------------------------
(* What sequences become when they are put one after another *)

\* One sequence more,
LEMMA FlattenSnoc ==
  ASSUME NEW S, NEW ss \in Seq(Seq(S)), NEW t \in Seq(S)
  PROVE  FlattenSeq(ss) \in Seq(S) /\ FlattenSeq(Append(ss, t)) = FlattenSeq(ss) \o t
<1>1. PICK n \in Nat : n = Len(ss) /\ (n = 0 <=> ss = <<>>)
  OBVIOUS
<1>2. PICK tt : tt = Append(ss, t)
  OBVIOUS
<1>3. /\ tt \in Seq(Seq(S)) /\ tt # <<>> /\ Len(tt) = n + 1
      /\ tt[n + 1] = t /\ \A i \in 1 .. n : tt[i] = ss[i]
  BY <1>1, <1>2, AppendProperties
<1>4. PICK g : /\ g \in [1 .. n + 1 -> Seq(S)] /\ g[1] = tt[1]
               /\ \A i \in 2 .. n + 1 : g[i] = g[i - 1] \o tt[i]
               /\ FlattenSeq(tt) = g[n + 1]
  <2>1. PICK l : l = Len(tt) /\ l = n + 1
    BY <1>3
  <2>2. PICK g : /\ g \in [1 .. Len(tt) -> Seq(S)] /\ g[1] = tt[1]
                 /\ \A i \in 2 .. Len(tt) : g[i] = g[i - 1] \o tt[i]
                 /\ FlattenSeq(tt) = g[Len(tt)]
    BY <1>3, FlattenRec
  <2> QED
    BY <2>1, <2>2
<1>5. CASE ss = <<>>
  <2>1. FlattenSeq(ss) = <<>>
    BY <1>5 DEF FlattenSeq
  <2>2. FlattenSeq(tt) = t
    BY <1>1, <1>3, <1>4, <1>5
  <2>3. <<>> \o t = t /\ <<>> \in Seq(S)
    BY ConcatEmptySeq
  <2> QED
    BY <1>2, <2>1, <2>2, <2>3
<1>6. CASE ss # <<>>
  <2>1. PICK f : /\ f \in [1 .. n -> Seq(S)] /\ f[1] = ss[1]
                 /\ \A i \in 2 .. n : f[i] = f[i - 1] \o ss[i]
                 /\ FlattenSeq(ss) = f[n]
    BY <1>1, <1>6, FlattenRec
  <2> DEFINE P == {k \in Nat : k \in 1 .. n => f[k] = g[k]}
  <2>2. 0 \in P
    OBVIOUS
  <2>3. ASSUME NEW k \in Nat, k \in P PROVE k + 1 \in P
    <3> SUFFICES ASSUME k + 1 \in 1 .. n PROVE f[k + 1] = g[k + 1]
      OBVIOUS
    <3>1. CASE k = 0
      <4>1. 1 \in 1 .. n
        BY <3>1
      <4> QED
        BY <1>3, <1>4, <2>1, <3>1, <4>1
    <3>2. CASE k # 0
      <4>1. /\ k + 1 \in 2 .. n /\ k + 1 \in 2 .. n + 1 /\ k \in 1 .. n /\ (k + 1) - 1 = k
        BY <3>2
      <4>2. f[k + 1] = f[k] \o ss[k + 1]
        BY <2>1, <4>1
      <4>3. g[k + 1] = g[k] \o tt[k + 1]
        BY <1>4, <4>1
      <4>4. tt[k + 1] = ss[k + 1]
        BY <1>3
      <4>5. f[k] = g[k]
        BY <2>3, <4>1
      <4> QED
        BY <4>2, <4>3, <4>4, <4>5
    <3> QED
      BY <3>1, <3>2
  <2> HIDE DEF P
  <2>4. Nat \subseteq P
    BY <2>2, <2>3, Induct
  <2>5. n \in 1 .. n /\ n + 1 \in 2 .. n + 1 /\ (n + 1) - 1 = n
    BY <1>1, <1>6
  <2>6. f[n] = g[n]
    BY <2>4, <2>5 DEF P
  <2>7. g[n + 1] = g[n] \o tt[n + 1]
    BY <1>4, <2>5
  <2>8. FlattenSeq(ss) \in Seq(S)
    BY <2>1, <2>5
  <2> QED
    BY <1>2, <1>3, <1>4, <2>1, <2>6, <2>7, <2>8
<1> QED
  BY <1>5, <1>6

\* or a series of them more.
LEMMA FlattenConcat ==
  ASSUME NEW S, NEW ss \in Seq(Seq(S)), NEW tt \in Seq(Seq(S))
  PROVE  FlattenSeq(ss \o tt) = FlattenSeq(ss) \o FlattenSeq(tt)
<1>1. PICK n \in Nat : n = Len(tt)
  OBVIOUS
<1> DEFINE V == Seq(S)
           Firsts(k) == SubSeq(tt, 1, k)
           P == {k \in Nat : k <= n =>
                    FlattenSeq(ss \o Firsts(k)) = FlattenSeq(ss) \o FlattenSeq(Firsts(k))}
<1>2. 0 \in P
  <2>1. Firsts(0) = <<>>
    BY SubSeqEmpty
  <2>2. ss \o <<>> = ss
    <3> HIDE DEF V
    <3>1. ss \in Seq(V)
      BY DEF V
    <3> QED
      BY <3>1, ConcatEmptySeq
  <2>3. FlattenSeq(<<>>) = <<>>
    BY DEF FlattenSeq
  <2>4. FlattenSeq(ss) \o <<>> = FlattenSeq(ss)
    <3>1. FlattenSeq(ss) \in Seq(S)
      BY FlattenSnoc, EmptySeq
    <3> QED
      BY <3>1, ConcatEmptySeq
  <2> QED
    BY <2>1, <2>2, <2>3, <2>4
<1>3. ASSUME NEW k \in Nat, k \in P PROVE k + 1 \in P
  <2> SUFFICES ASSUME k + 1 <= n
               PROVE  FlattenSeq(ss \o Firsts(k + 1)) = FlattenSeq(ss) \o FlattenSeq(Firsts(k + 1))
    OBVIOUS
  <2>1. PICK u, t : u = Firsts(k) /\ t = tt[k + 1]
    OBVIOUS
  <2>2. ss \in Seq(V) /\ tt \in Seq(V)
    OBVIOUS
  <2> HIDE DEF V
  <2>3. u \in Seq(V) /\ t \in V
    <3>1. \A i \in 1 .. k : tt[i] \in V
      BY <1>1, <2>2
    <3>2. SubSeq(tt, 1, k) \in Seq(V)
      BY <3>1, SubSeqProperties
    <3> QED
      BY <1>1, <2>1, <2>2, <3>2
  <2>4. Firsts(k + 1) = Append(u, t)
    <3>1. k + 1 \in 1 .. Len(tt) /\ (k + 1) - 1 = k
      BY <1>1
    <3>2. SubSeq(tt, 1, k + 1) = SubSeq(tt, 1, (k + 1) - 1) \o <<tt[k + 1]>>
      BY <2>2, <3>1, SubSeqRecursiveSecond
    <3>3. Append(u, t) = u \o <<t>>
      BY <2>3, AppendIsConcat
    <3> QED
      BY <2>1, <3>1, <3>2, <3>3
  <2>5. ss \o Append(u, t) = Append(ss \o u, t)
    <3>1. /\ ss \o u \in Seq(V) /\ <<t>> \in Seq(V)
      BY <2>2, <2>3, ConcatProperties
    <3>2. Append(ss \o u, t) = (ss \o u) \o <<t>> /\ Append(u, t) = u \o <<t>>
      BY <2>3, <3>1, AppendIsConcat
    <3>3. (ss \o u) \o <<t>> = ss \o (u \o <<t>>)
      BY SMTT(60), <2>2, <2>3, <3>1, ConcatAssociative
    <3> QED
      BY <3>2, <3>3
  <2>6. ss \o u \in Seq(V)
    BY <2>2, <2>3, ConcatProperties
  <2>7. /\ FlattenSeq(Append(ss \o u, t)) = FlattenSeq(ss \o u) \o t
        /\ FlattenSeq(Append(u, t)) = FlattenSeq(u) \o t
        /\ FlattenSeq(u) \in Seq(S) /\ FlattenSeq(ss) \in Seq(S) /\ t \in Seq(S)
    BY <2>2, <2>3, <2>6, FlattenSnoc DEF V
  <2>8. FlattenSeq(ss \o u) = FlattenSeq(ss) \o FlattenSeq(u)
    BY <1>3, <2>1
  <2>9. (FlattenSeq(ss) \o FlattenSeq(u)) \o t = FlattenSeq(ss) \o (FlattenSeq(u) \o t)
    BY SMTT(60), <2>7, ConcatAssociative
  <2> QED
    BY <2>4, <2>5, <2>7, <2>8, <2>9
<1> HIDE DEF P
<1>4. Nat \subseteq P
  BY <1>2, <1>3, Induct
<1>5. n \in P /\ n <= n
  BY <1>4
<1>6. Firsts(n) = tt
  <2> HIDE DEF V
  <2>1. tt \in Seq(V)
    BY DEF V
  <2> QED
    BY <1>1, <2>1, SubSeqFull
<1>7. FlattenSeq(ss \o Firsts(n)) = FlattenSeq(ss) \o FlattenSeq(Firsts(n))
  BY <1>5 DEF P
<1> QED
  BY <1>6, <1>7

\* Where the elements of sequences of one length come to lie.
LEMMA FlattenAt ==
  ASSUME NEW S, NEW ss \in Seq(Seq(S)), NEW m \in Nat, \A i \in 1 .. Len(ss) : Len(ss[i]) = m,
         NEW i \in 1 .. Len(ss), NEW j \in 1 .. m
  PROVE  FlattenSeq(ss)[(i - 1) * m + j] = ss[i][j]
<1>1. PICK n \in Nat : n = Len(ss)
  OBVIOUS
<1>2. PICK V : V = Seq(S)
  OBVIOUS
<1>3. ss \in Seq(V)
  BY <1>2
<1> DEFINE Firsts(k) == SubSeq(ss, 1, k)
           P == {k \in Nat : k \in i .. n => FlattenSeq(Firsts(k))[(i - 1) * m + j] = ss[i][j]}
<1>4. ASSUME NEW k \in 0 .. n - 1
      PROVE  /\ Firsts(k) \in Seq(V) /\ Len(FlattenSeq(Firsts(k))) = k * m
             /\ FlattenSeq(Firsts(k)) \in Seq(S) /\ ss[k + 1] \in Seq(S) /\ Len(ss[k + 1]) = m
             /\ FlattenSeq(Firsts(k + 1)) = FlattenSeq(Firsts(k)) \o ss[k + 1]
  <2>1. \A h \in 1 .. k : ss[h] \in V
    BY <1>1, <1>3
  <2>2. Firsts(k) \in Seq(V) /\ Len(Firsts(k)) = k /\ \A h \in 1 .. k : Firsts(k)[h] = ss[h]
    <3>1. SubSeq(ss, 1, k) \in Seq(V)
      BY <2>1, SubSeqProperties
    <3>2. Len(SubSeq(ss, 1, k)) = IF 1 <= k THEN k - 1 + 1 ELSE 0
      BY <2>1, SubSeqProperties
    <3>3. \A h \in 1 .. k - 1 + 1 : SubSeq(ss, 1, k)[h] = ss[1 + h - 1]
      BY <2>1, SubSeqProperties
    <3> QED
      BY <3>1, <3>2, <3>3
  <2>3. k + 1 \in 1 .. Len(ss) /\ (k + 1) - 1 = k
    BY <1>1
  <2>4. Firsts(k + 1) = Append(Firsts(k), ss[k + 1])
    <3>1. SubSeq(ss, 1, k + 1) = SubSeq(ss, 1, (k + 1) - 1) \o <<ss[k + 1]>>
      BY <1>3, <2>3, SubSeqRecursiveSecond
    <3>2. ss[k + 1] \in V
      BY <1>3, <2>3
    <3> QED
      BY <2>2, <2>3, <3>1, <3>2, AppendIsConcat
  <2>5. Firsts(k) \in Seq(Seq(S)) /\ ss[k + 1] \in Seq(S) /\ Len(ss[k + 1]) = m
    BY <1>2, <1>3, <2>2, <2>3
  <2> HIDE DEF Firsts
  <2>6. /\ FlattenSeq(Firsts(k)) \in Seq(S)
        /\ FlattenSeq(Append(Firsts(k), ss[k + 1])) = FlattenSeq(Firsts(k)) \o ss[k + 1]
    BY <2>5, FlattenSnoc
  <2>7. \A h \in 1 .. Len(Firsts(k)) : Len(Firsts(k)[h]) = m
    BY <1>1, <2>2
  <2>8. Len(FlattenSeq(Firsts(k))) = k * m
    BY <2>2, <2>5, <2>7, FlattenLen
  <2> QED
    BY <2>2, <2>4, <2>5, <2>6, <2>8
<1> HIDE DEF Firsts
<1>5. 0 \in P
  OBVIOUS
<1>6. ASSUME NEW k \in Nat, k \in P PROVE k + 1 \in P
  <2> SUFFICES ASSUME k + 1 \in i .. n
               PROVE  FlattenSeq(Firsts(k + 1))[(i - 1) * m + j] = ss[i][j]
    OBVIOUS
  <2>0. k \in i .. n => FlattenSeq(Firsts(k))[(i - 1) * m + j] = ss[i][j]
    BY <1>6
  <2> HIDE DEF P
  <2>1. PICK a, b : a = FlattenSeq(Firsts(k)) /\ b = ss[k + 1]
    OBVIOUS
  <2>2. k \in 0 .. n - 1
    OBVIOUS
  <2>3. PICK x \in Nat : x = k * m
    OBVIOUS
  <2>4. /\ a \in Seq(S) /\ b \in Seq(S) /\ Len(a) = x /\ Len(b) = m
        /\ FlattenSeq(Firsts(k + 1)) = a \o b
    BY <1>4, <2>1, <2>2, <2>3
  <2>5. Len(a \o b) = x + m /\ \A h \in 1 .. x + m : (a \o b)[h] = IF h <= x THEN a[h] ELSE b[h - x]
    <3>1. a \o b \in Seq(S) /\ Len(a \o b) = Len(a) + Len(b)
      BY <2>4, ConcatProperties
    <3>2. \A h \in 1 .. Len(a) + Len(b) : (a \o b)[h] = IF h <= Len(a) THEN a[h] ELSE b[h - Len(a)]
      BY <2>4, ConcatProperties
    <3> QED
      BY <2>4, <3>1, <3>2
  <2>7. CASE i = k + 1
    <3>1. (i - 1) * m + j = x + j
      BY <2>3, <2>7
    <3>2. x + j \in 1 .. x + m /\ ~(x + j <= x) /\ (x + j) - x = j
      OBVIOUS
    <3>3. (a \o b)[x + j] = b[j]
      BY <2>5, <3>2
    <3> QED
      BY <2>1, <2>4, <2>5, <2>7, <3>1, <3>3
  <2>8. CASE i # k + 1
    <3>1. k \in i .. n
      BY <1>1, <2>2, <2>8
    <3>2. a[(i - 1) * m + j] = ss[i][j]
      BY <2>0, <2>1, <3>1
    <3>3. PICK y \in Nat : y = (i - 1) * m
      OBVIOUS
    <3>4. y + m <= x
      <4>1. PICK d \in Nat : k = (i - 1) + 1 + d
        BY <3>1
      <4>2. k * m = (i - 1) * m + m + d * m
        BY <4>1
      <4>3. d * m >= 0
        OBVIOUS
      <4> QED
        BY <2>3, <3>3, <4>2, <4>3
    <3>5. y + j \in 1 .. x + m /\ y + j <= x
      BY <3>4
    <3>6. (a \o b)[y + j] = a[y + j]
      BY <2>5, <3>5
    <3> QED
      BY <2>4, <2>5, <3>2, <3>3, <3>6
  <2> QED
    BY <2>7, <2>8
<1> HIDE DEF P
<1>7. n \in P /\ n \in i .. n
  <2>1. Nat \subseteq P
    BY <1>5, <1>6, Induct
  <2> QED
    BY <1>1, <2>1
<1>8. Firsts(n) = ss
  BY <1>1, <1>3, SubSeqFull DEF Firsts
<1> QED
  BY <1>7, <1>8 DEF P

-----------------------------------------------------------------------------
(* Sizes, numbers and flags come back as they were sent *)

\* The digits of a number are a sequence.
LEMMA LittleSeq ==
  ASSUME NEW x \in Int, NEW n \in Nat
  PROVE  /\ Little(x, n) \in Seq(Int) /\ Len(Little(x, n)) = n
         /\ Little(x, n) \in [1 .. n -> Int]
<1>1. ASSUME NEW k \in 1 .. n PROVE Digit(x, k - 1) \in Int
  <2>1. k - 1 \in Nat
    OBVIOUS
  <2> QED
    BY <2>1, DigitType
<1>2. Little(x, n) \in [1 .. n -> Int]
  BY <1>1 DEF Little
<1> QED
  BY <1>2, MadeLen

\* A size comes back modulo what a uint32_t holds.
LEMMA SizeRoundTrip ==
  ASSUME NEW x \in Nat
  PROVE  PutSize(x) \in Seq(Int) /\ GetSize(PutSize(x)) = x % 2 ^ (ByteBits * IntBytes)
<1>1. PICK n \in Nat : n = IntBytes
  BY WidthAssumption
<1>2. PICK low, back, zeros : /\ low = Little(x, n) /\ back = Reverse(low)
                              /\ zeros = [k \in 1 .. n |-> 0]
  OBVIOUS
<1>3. low \in [1 .. n -> Int] /\ low \in Seq(Int) /\ Len(low) = n
  BY <1>2, LittleSeq
<1>4. /\ back \in [1 .. n -> Int] /\ \A k \in 1 .. n : back[k] = low[(n - k) + 1]
  <2>1. \A k \in 1 .. n : (n - k) + 1 \in 1 .. n
    OBVIOUS
  <2>2. \A k \in 1 .. n : low[(n - k) + 1] \in Int
    BY <1>3, <2>1
  <2> QED
    BY <1>2, <1>3, <2>2 DEF Reverse
<1>5. back \in Seq(Int) /\ Len(back) = n
  BY <1>4, MadeLen
<1>6. zeros \in Seq(Int)
  <2>1. zeros \in [1 .. n -> Int]
    BY <1>2
  <2> QED
    BY <2>1, MadeLen
<1>7. PutSize(x) = back \o zeros
  BY <1>1, <1>2 DEF PutSize
<1>8. back \o zeros \in Seq(Int) /\ SubSeq(back \o zeros, 1, n) = back
  <2>1. /\ back \o zeros \in Seq(Int) /\ Len(back \o zeros) = Len(back) + Len(zeros)
        /\ \A i \in 1 .. Len(back) + Len(zeros) : (back \o zeros)[i] =
               IF i <= Len(back) THEN back[i] ELSE zeros[i - Len(back)]
    BY <1>5, <1>6, ConcatProperties
  <2>2. n \in 1 .. n /\ 1 \in 1 .. n
    BY <1>1, WidthAssumption
  <2>3. SubSeq(back \o zeros, 1, n) = SubSeq(back, 1, n)
    BY <1>5, <1>6, <2>2, SubSeqOfConcat1
  <2> QED
    BY <1>5, <2>1, <2>3, SubSeqFull
<1>9. Reverse(back) = low
  <2>1. ASSUME NEW k \in 1 .. n PROVE back[(n - k) + 1] = low[k]
    <3>1. (n - k) + 1 \in 1 .. n /\ (n - ((n - k) + 1)) + 1 = k
      OBVIOUS
    <3> QED
      BY <1>4, <3>1
  <2>2. Reverse(back) = [k \in 1 .. n |-> back[(n - k) + 1]]
    BY <1>5 DEF Reverse
  <2> QED
    BY <1>3, <2>1, <2>2
<1>10. FromLittle(low) = x % 2 ^ (ByteBits * n)
  BY <1>2, LittleValue
<1> QED
  BY <1>1, <1>7, <1>8, <1>9, <1>10 DEF GetSize

\* Numbers one after another take FmpzBytes bytes each.
LEMMA NumberBytes ==
  ASSUME NEW xs \in Seq(Residue)
  PROVE  /\ [n \in DOMAIN xs |-> PutFmpz(xs[n])] \in Seq(Seq(Int))
         /\ Len([n \in DOMAIN xs |-> PutFmpz(xs[n])]) = Len(xs)
         /\ \A i \in 1 .. Len(xs) :
               /\ PutFmpz(xs[i]) \in Seq(Int) /\ Len(PutFmpz(xs[i])) = FmpzBytes
               /\ FromLittle(PutFmpz(xs[i])) = xs[i]
         /\ PutFmpzs(xs) \in Seq(Int)
<1>1. PICK n \in Nat : n = Len(xs) /\ DOMAIN xs = 1 .. n
  OBVIOUS
<1>2. ASSUME NEW i \in 1 .. n
      PROVE  /\ PutFmpz(xs[i]) \in Seq(Int) /\ Len(PutFmpz(xs[i])) = FmpzBytes
             /\ FromLittle(PutFmpz(xs[i])) = xs[i]
  <2>1. FmpzBytes \in Nat /\ ByteBits * FmpzBytes \in Nat
    BY WidthAssumption
  <2>2. PICK p \in Nat \ {0} : p = 2 ^ (ByteBits * FmpzBytes)
    BY <2>1, PowPos
  <2>3. xs[i] \in Residue
    BY <1>1
  <2>4. xs[i] \in 0 .. p - 1
    BY <2>2, <2>3 DEF Residue
  <2>5. xs[i] \in Int /\ xs[i] % p = xs[i]
    BY <2>4, ModSmall
  <2> QED
    BY <2>1, <2>2, <2>5, LittleSeq, LittleValue DEF PutFmpz
<1>3. PICK ss : ss = [i \in 1 .. n |-> PutFmpz(xs[i])]
  OBVIOUS
<1>4. ss \in Seq(Seq(Int)) /\ Len(ss) = n
  <2>1. ss \in [1 .. n -> Seq(Int)]
    BY <1>2, <1>3
  <2> QED
    BY <2>1, MadeLen
<1>5. FlattenSeq(ss) \in Seq(Int)
  BY <1>4, FlattenSnoc, EmptySeq
<1> QED
  BY <1>1, <1>2, <1>3, <1>4, <1>5 DEF PutFmpzs

\* and come back.
LEMMA NumbersRoundTrip ==
  ASSUME NEW xs \in Seq(Residue)
  PROVE  GetFmpzs(PutFmpzs(xs)) = xs
<1>1. PICK n \in Nat, F \in Nat \ {0} : n = Len(xs) /\ DOMAIN xs = 1 .. n /\ F = FmpzBytes
  BY WidthAssumption
<1>2. PICK ss : ss = [i \in DOMAIN xs |-> PutFmpz(xs[i])]
  OBVIOUS
<1>3. /\ ss \in Seq(Seq(Int)) /\ Len(ss) = n
      /\ \A i \in 1 .. n : /\ ss[i] \in Seq(Int) /\ Len(ss[i]) = F
                           /\ FromLittle(ss[i]) = xs[i]
  BY ZenonT(60), <1>1, <1>2, NumberBytes
<1>4. PICK bytes : bytes = PutFmpzs(xs)
  OBVIOUS
<1>5. bytes = FlattenSeq(ss) /\ bytes \in Seq(Int) /\ Len(bytes) = n * F
  BY <1>1, <1>2, <1>3, <1>4, NumberBytes, NumbersLen DEF PutFmpzs
<1>6. Len(bytes) \div F = n
  <2>1. PICK q \in Int, r \in 0 .. F - 1 : q = n /\ r = 0
    OBVIOUS
  <2>2. (q * F + r) \div F = q
    BY DivUnique
  <2>3. q * F + r = n * F
    BY <2>1
  <2> QED
    BY <1>5, <2>1, <2>2, <2>3
<1>7. ASSUME NEW i \in 1 .. n
      PROVE  SubSeq(bytes, (i - 1) * F + 1, i * F) = ss[i]
  <2>1. PICK x \in Nat : x = (i - 1) * F
    OBVIOUS
  <2>2. i * F = x + F
    BY <2>1
  <2>3. x + F <= n * F
    <3>1. PICK d \in Nat : n = i + d
      OBVIOUS
    <3>2. n * F = i * F + d * F /\ d * F >= 0
      BY <3>1
    <3> QED
      BY <2>2, <3>2
  <2>4. PICK l \in Nat : l = Len(bytes) /\ x + F <= l
    BY <1>5, <2>3
  <2>5. \A j \in 1 .. F : bytes[x + j] = ss[i][j]
    <3>1. \A h \in 1 .. Len(ss) : Len(ss[h]) = F
      BY <1>3
    <3>2. i \in 1 .. Len(ss)
      BY <1>3
    <3>3. \A j \in 1 .. F : FlattenSeq(ss)[(i - 1) * F + j] = ss[i][j]
      BY ZenonT(60), <1>3, <3>1, <3>2, FlattenAt
    <3> QED
      BY <1>5, <2>1, <3>3
  <2>6. \A h \in x + 1 .. x + F : bytes[h] \in Int
    BY <1>5, <2>4
  <2>7. PICK a \in Int, b \in Int : a = x + 1 /\ b = x + F
    OBVIOUS
  <2>8. /\ SubSeq(bytes, a, b) \in Seq(Int)
        /\ Len(SubSeq(bytes, a, b)) = IF a <= b THEN b - a + 1 ELSE 0
        /\ \A j \in 1 .. b - a + 1 : SubSeq(bytes, a, b)[j] = bytes[a + j - 1]
    <3>1. \A h \in a .. b : bytes[h] \in Int
      BY <2>6, <2>7
    <3> QED
      BY <3>1, SubSeqProperties
  <2>9. PICK piece : piece = SubSeq(bytes, a, b)
    OBVIOUS
  <2>10. piece \in Seq(Int) /\ Len(piece) = F /\ \A j \in 1 .. F : piece[j] = bytes[x + j]
    <3>1. a <= b /\ b - a + 1 = F /\ \A j \in 1 .. F : a + j - 1 = x + j
      BY <2>7
    <3> QED
      BY <2>8, <2>9, <3>1
  <2>11. piece = ss[i]
    <3>1. PICK t : t = ss[i] /\ t \in Seq(Int) /\ Len(t) = F
      BY <1>3
    <3>2. Len(piece) = Len(t) /\ \A j \in 1 .. Len(piece) : piece[j] = t[j]
      BY <2>5, <2>10, <3>1
    <3>3. piece = t
      BY <2>10, <3>1, <3>2, SeqEqual
    <3> QED
      BY <3>1, <3>3
  <2> QED
    BY <2>1, <2>2, <2>7, <2>9, <2>11
<1>8. GetFmpzs(bytes) = [i \in 1 .. n |-> FromLittle(SubSeq(bytes, (i - 1) * F + 1, i * F))]
  BY <1>1, <1>6 DEF GetFmpzs
<1>9. GetFmpzs(bytes) = [i \in 1 .. n |-> xs[i]]
  BY <1>3, <1>7, <1>8
<1>10. [i \in 1 .. n |-> xs[i]] = xs
  BY <1>1
<1> QED
  BY <1>4, <1>9, <1>10

\* The bytes of two batches of numbers are those of both together.
LEMMA NumbersConcat ==
  ASSUME NEW xs \in Seq(Residue), NEW ys \in Seq(Residue)
  PROVE  PutFmpzs(xs \o ys) = PutFmpzs(xs) \o PutFmpzs(ys)
<1>1. PICK zs : zs = xs \o ys
  OBVIOUS
<1>2. PICK m \in Nat, n \in Nat : m = Len(xs) /\ n = Len(ys)
  OBVIOUS
<1>3. /\ zs \in Seq(Residue) /\ Len(zs) = m + n
      /\ \A i \in 1 .. m + n : zs[i] = IF i <= m THEN xs[i] ELSE ys[i - m]
  <2>1. xs \o ys \in Seq(Residue) /\ Len(xs \o ys) = Len(xs) + Len(ys)
    BY ConcatProperties
  <2>2. \A i \in 1 .. Len(xs) + Len(ys) : (xs \o ys)[i] = IF i <= Len(xs) THEN xs[i] ELSE ys[i - Len(xs)]
    BY ConcatProperties
  <2> QED
    BY <1>1, <1>2, <2>1, <2>2
<1> DEFINE Put(s) == [i \in DOMAIN s |-> PutFmpz(s[i])]
<1>4. /\ Put(xs) \in Seq(Seq(Int)) /\ Len(Put(xs)) = m
      /\ Put(ys) \in Seq(Seq(Int)) /\ Len(Put(ys)) = n
      /\ Put(zs) \in Seq(Seq(Int)) /\ Len(Put(zs)) = m + n
  BY <1>2, <1>3, NumberBytes
<1>5. /\ \A i \in 1 .. m : Put(xs)[i] = PutFmpz(xs[i])
      /\ \A i \in 1 .. n : Put(ys)[i] = PutFmpz(ys[i])
      /\ \A i \in 1 .. m + n : Put(zs)[i] = PutFmpz(zs[i])
  BY <1>2, <1>3
<1> HIDE DEF Put
<1>6. PICK V : V = Seq(Int)
  OBVIOUS
<1>7. PICK a \in Seq(V), b \in Seq(V), c \in Seq(V) : a = Put(xs) /\ b = Put(ys) /\ c = Put(zs)
  BY <1>4, <1>6
<1>8. c = a \o b
  <2>1. a \o b \in Seq(V) /\ Len(a \o b) = Len(a) + Len(b)
    BY ConcatProperties
  <2>2. \A i \in 1 .. Len(a) + Len(b) : (a \o b)[i] = IF i <= Len(a) THEN a[i] ELSE b[i - Len(a)]
    BY ConcatProperties
  <2>3. ASSUME NEW i \in 1 .. m + n PROVE c[i] = (a \o b)[i]
    <3>1. CASE i <= m
      <4>1. i \in 1 .. m
        BY <3>1
      <4>2. c[i] = PutFmpz(xs[i])
        BY <1>3, <1>5, <1>7, <3>1
      <4>3. (a \o b)[i] = a[i]
        BY <1>4, <1>7, <2>2, <3>1
      <4> QED
        BY <1>5, <1>7, <4>1, <4>2, <4>3
    <3>2. CASE ~(i <= m)
      <4>1. i - m \in 1 .. n
        BY <3>2
      <4>2. c[i] = PutFmpz(ys[i - m])
        BY <1>3, <1>5, <1>7, <3>2
      <4>3. (a \o b)[i] = b[i - m]
        BY <1>4, <1>7, <2>2, <3>2
      <4> QED
        BY <1>5, <1>7, <4>1, <4>2, <4>3
    <3> QED
      BY <3>1, <3>2
  <2>4. Len(c) = m + n /\ Len(a \o b) = m + n
    BY <1>4, <1>7, <2>1
  <2> QED
    BY <2>1, <2>3, <2>4, SeqEqual
<1>9. FlattenSeq(a \o b) = FlattenSeq(a) \o FlattenSeq(b)
  BY <1>6, FlattenConcat
<1>10. PutFmpzs(xs) = FlattenSeq(a) /\ PutFmpzs(ys) = FlattenSeq(b) /\ PutFmpzs(zs) = FlattenSeq(c)
  BY <1>7 DEF PutFmpzs, Put
<1> QED
  BY <1>1, <1>8, <1>9, <1>10

\* The flags of a byte are its bits.
LEMMA FlagOfByte ==
  ASSUME NEW xs \in Seq(BOOLEAN), NEW b \in 1 .. BoolBytes(Len(xs)), NEW j \in 1 .. ByteBits,
         NEW i \in 1 .. Len(xs), i = (b - 1) * ByteBits + j
  PROVE  /\ PutBools(xs)[b] \in Int
         /\ (PutBools(xs)[b] \div 2 ^ (j - 1)) % 2 = 1 <=> xs[i]
<1>1. PICK n \in Nat \ {0}, l \in Nat, x \in Int : n = ByteBits /\ l = Len(xs) /\ x = (b - 1) * ByteBits
  <2>1. PICK n \in Nat \ {0} : n = ByteBits
    BY WidthAssumption
  <2>2. b \in Int
    OBVIOUS
  <2>3. PICK x \in Int : x = (b - 1) * n
    BY <2>2
  <2> QED
    BY <2>1, <2>3
<1>2. PICK bits : bits = [k \in 1 .. n |-> x + (k - 1) < l /\ xs[x + (k - 1) + 1]]
  OBVIOUS
<1>3. bits \in [1 .. n -> BOOLEAN]
  BY <1>2
<1>4. PICK acc : /\ SumPath(n, [k \in 1 .. n |-> IF x + (k - 1) < l /\ xs[x + (k - 1) + 1]
                                                 THEN 2 ^ (k - 1) ELSE 0], acc)
                 /\ PutBools(xs)[b] = acc[n]
  BY <1>1, FlagsRec
<1>5. [k \in 1 .. n |-> IF x + (k - 1) < l /\ xs[x + (k - 1) + 1] THEN 2 ^ (k - 1) ELSE 0]
        = [k \in 1 .. n |-> IF bits[k] THEN 2 ^ (k - 1) ELSE 0]
  <2>1. \A k \in 1 .. n : bits[k] <=> x + (k - 1) < l /\ xs[x + (k - 1) + 1]
    BY <1>2
  <2> QED
    BY <2>1
<1>6. (acc[n] \div 2 ^ (j - 1)) % 2 = 1 <=> bits[j]
  <2>1. SumPath(n, [k \in 1 .. n |-> IF bits[k] THEN 2 ^ (k - 1) ELSE 0], acc)
    BY <1>4, <1>5
  <2>2. j \in 1 .. n
    BY <1>1
  <2> QED
    BY <1>3, <2>1, <2>2, BitOfSum
<1>7. bits[j] <=> xs[i]
  <2>1. j \in 1 .. n /\ x + (j - 1) + 1 = i /\ x + (j - 1) < l
    BY <1>1
  <2> QED
    BY <1>2, <2>1
<1>8. acc[n] \in Int
  BY <1>4 DEF SumPath
<1> QED
  BY <1>4, <1>6, <1>7, <1>8

\* A flag is in the byte and at the place that its number says.
LEMMA FlagPlace ==
  ASSUME NEW l \in Nat, NEW i \in 1 .. l
  PROVE  \E q \in Int, r \in Int :
            /\ q = (i - 1) \div ByteBits /\ r = (i - 1) % ByteBits
            /\ q + 1 \in 1 .. BoolBytes(l) /\ r + 1 \in 1 .. ByteBits
            /\ i = q * ByteBits + r + 1
<1>1. PICK n \in Nat \ {0} : n = ByteBits
  BY WidthAssumption
<1>2. PICK y \in Nat : y = i - 1
  OBVIOUS
<1>3. PICK q \in Int, r \in 0 .. n - 1 : q = y \div n /\ r = y % n /\ y = q * n + r
  <2>1. y \in Int
    OBVIOUS
  <2>2. y \div n \in Int /\ y = (y \div n) * n + (y % n) /\ y % n \in 0 .. n - 1
    BY <2>1, DivMod
  <2> QED
    BY <2>2
<1>4. PICK z \in Nat : z = l + n - 1
  OBVIOUS
<1>5. PICK Q \in Int, R \in 0 .. n - 1 : Q = z \div n /\ z = Q * n + R
  <2>1. z \in Int
    OBVIOUS
  <2>2. z \div n \in Int /\ z = (z \div n) * n + (z % n) /\ z % n \in 0 .. n - 1
    BY <2>1, DivMod
  <2> QED
    BY <2>2
<1>6. ~(q <= -1)
  <2> SUFFICES ASSUME q <= -1 PROVE FALSE
    OBVIOUS
  <2>1. q * n <= -n
    OBVIOUS
  <2> QED
    BY <1>3, <2>1
<1>7. ~(q >= Q)
  <2> SUFFICES ASSUME q >= Q PROVE FALSE
    OBVIOUS
  <2>1. PICK d \in Nat : q = Q + d
    OBVIOUS
  <2>2. q * n = Q * n + d * n /\ d * n >= 0
    BY <2>1
  <2>3. PICK u \in Int, v \in Int : u = q * n /\ v = Q * n
    OBVIOUS
  <2>4. u >= v /\ y = u + r /\ z = v + R
    BY <1>3, <1>5, <2>2, <2>3
  <2> QED
    BY <1>2, <1>4, <2>4
<1>8. q + 1 \in 1 .. Q /\ r + 1 \in 1 .. n
  BY <1>6, <1>7
<1>9. i = q * n + r + 1
  BY <1>2, <1>3
<1>10. BoolBytes(l) = Q
  BY <1>1, <1>4, <1>5 DEF BoolBytes
<1>11. (i - 1) \div ByteBits = q /\ (i - 1) % ByteBits = r /\ ByteBits = n
  BY <1>1, <1>2, <1>3
<1>12. /\ q + 1 \in 1 .. BoolBytes(l) /\ r + 1 \in 1 .. ByteBits
       /\ i = q * ByteBits + r + 1
  BY Zenon, <1>8, <1>9, <1>10, <1>11
<1>13. q \in Int /\ r \in Int
  OBVIOUS
<1> QED
  BY Zenon, <1>11, <1>12, <1>13

\* Flags come back, also the first ones of them alone.
LEMMA FlagsRoundTrip ==
  ASSUME NEW xs \in Seq(BOOLEAN), NEW n \in 0 .. Len(xs)
  PROVE  /\ \A i \in 1 .. n : GetBools(PutBools(xs), n)[i] = xs[i]
         /\ GetBools(PutBools(xs), Len(xs)) = xs
<1>1. ASSUME NEW m \in 0 .. Len(xs), NEW i \in 1 .. m
      PROVE  GetBools(PutBools(xs), m)[i] = xs[i]
  <2>1. i \in 1 .. Len(xs) /\ Len(xs) \in Nat
    OBVIOUS
  <2>2. PICK b, j : b = (i - 1) \div ByteBits + 1 /\ j = ((i - 1) % ByteBits) + 1
    OBVIOUS
  <2>3. /\ b \in 1 .. BoolBytes(Len(xs)) /\ j \in 1 .. ByteBits /\ i = (b - 1) * ByteBits + j
        /\ b = (i - 1) \div ByteBits + 1 /\ j - 1 = (i - 1) % ByteBits
    <3>1. PICK l \in Nat : l = Len(xs) /\ i \in 1 .. l
      BY <2>1
    <3>2. PICK q \in Int, r \in Int :
            /\ q = (i - 1) \div ByteBits /\ r = (i - 1) % ByteBits
            /\ q + 1 \in 1 .. BoolBytes(l) /\ r + 1 \in 1 .. ByteBits
            /\ i = q * ByteBits + r + 1
      BY <3>1, FlagPlace
    <3>3. b = q + 1 /\ j = r + 1 /\ b - 1 = q /\ j - 1 = r
      BY SMTT(60), <2>2, <3>2
    <3>4. PICK n0 \in Nat, u \in Int : n0 = ByteBits /\ u = q * n0
      BY WidthAssumption
    <3>5. i = u + j
      BY <3>2, <3>3, <3>4
    <3> QED
      BY <3>1, <3>2, <3>3, <3>4, <3>5
  <2>4. (PutBools(xs)[b] \div 2 ^ (j - 1)) % 2 = 1 <=> xs[i]
    BY <2>1, <2>3, FlagOfByte
  <2>5. GetBools(PutBools(xs), m)[i]
          = ((PutBools(xs)[(i - 1) \div ByteBits + 1] \div 2 ^ ((i - 1) % ByteBits)) % 2 = 1)
    BY DEF GetBools
  <2>6. GetBools(PutBools(xs), m)[i] = ((PutBools(xs)[b] \div 2 ^ (j - 1)) % 2 = 1)
    BY <2>3, <2>5
  <2>7. xs[i] \in BOOLEAN
    BY <2>1
  <2> QED
    BY <2>4, <2>6, <2>7
<1>2. GetBools(PutBools(xs), Len(xs)) = xs
  <2>1. PICK l \in Nat : l = Len(xs) /\ DOMAIN xs = 1 .. l /\ l \in 0 .. Len(xs)
    OBVIOUS
  <2>2. PICK ys : ys = GetBools(PutBools(xs), l)
    OBVIOUS
  <2>3. ys = [i \in 1 .. l |-> ys[i]]
    BY <2>2 DEF GetBools
  <2>4. \A i \in 1 .. l : ys[i] = xs[i]
    BY <1>1, <2>1, <2>2
  <2> QED
    BY <2>1, <2>2, <2>3, <2>4
<1> QED
  BY <1>1, <1>2

\* The bytes of flags are numbers.
LEMMA FlagBytes ==
  ASSUME NEW xs \in Seq(BOOLEAN)
  PROVE  PutBools(xs) \in Seq(Int)
<1>1. BoolBytes(Len(xs)) \in Int
  <2>1. PICK n \in Nat \ {0}, z \in Int : n = ByteBits /\ z = Len(xs) + n - 1
    <3>1. PICK n \in Nat \ {0}, l \in Nat : n = ByteBits /\ l = Len(xs)
      BY WidthAssumption
    <3> QED
      BY <3>1
  <2>2. z \div n \in Int
    BY DivMod
  <2> QED
    BY <2>1, <2>2 DEF BoolBytes
<1>2. ASSUME NEW b \in 1 .. BoolBytes(Len(xs)) PROVE PutBools(xs)[b] \in Int
  <2>1. PICK n \in Nat \ {0} : n = ByteBits
    BY WidthAssumption
  <2>2. PICK w, acc : SumPath(n, w, acc) /\ PutBools(xs)[b] = acc[n]
    BY <2>1, FlagsRec
  <2> QED
    BY <2>2 DEF SumPath
<1>3. PICK f : f = [b \in 1 .. BoolBytes(Len(xs)) |-> PutBools(xs)[b]]
  OBVIOUS
<1>4. PutBools(xs) = f
  BY <1>3 DEF PutBools
<1>5. f \in [1 .. BoolBytes(Len(xs)) -> Int]
  BY <1>2, <1>3
<1>6. PICK m \in Nat : 1 .. BoolBytes(Len(xs)) = 1 .. m
  <2>1. CASE BoolBytes(Len(xs)) \in Nat
    BY <2>1
  <2>2. CASE BoolBytes(Len(xs)) \notin Nat
    <3>1. 1 .. BoolBytes(Len(xs)) = 1 .. 0
      BY <1>1, <2>2
    <3> QED
      BY <3>1
  <2> QED
    BY <2>1, <2>2
<1> QED
  BY <1>4, <1>5, <1>6, MadeLen

-----------------------------------------------------------------------------
(* Calls come back as they were sent, from the bytes of their parts *)

\* The first elements of a sequence, one at a time.
LEMMA FrontSnoc ==
  ASSUME NEW S, NEW ss \in Seq(S), NEW k \in Nat, k + 1 <= Len(ss)
  PROVE  /\ SubSeq(ss, 1, k) \in Seq(S) /\ ss[k + 1] \in S
         /\ SubSeq(ss, 1, k + 1) = Append(SubSeq(ss, 1, k), ss[k + 1])
<1>1. PICK n \in Nat : n = Len(ss)
  OBVIOUS
<1>2. PICK u, t : u = SubSeq(ss, 1, k) /\ t = ss[k + 1]
  OBVIOUS
<1>3. u \in Seq(S) /\ t \in S
  <2>1. \A i \in 1 .. k : ss[i] \in S
    BY <1>1
  <2>2. SubSeq(ss, 1, k) \in Seq(S)
    BY <2>1, SubSeqProperties
  <2>3. k + 1 \in 1 .. Len(ss)
    OBVIOUS
  <2> QED
    BY <1>2, <2>2, <2>3, ElementOfSeq
<1>4. k + 1 \in 1 .. Len(ss) /\ (k + 1) - 1 = k
  BY <1>1
<1>5. SubSeq(ss, 1, k + 1) = SubSeq(ss, 1, (k + 1) - 1) \o <<ss[k + 1]>>
  BY <1>4, SubSeqRecursiveSecond
<1>6. Append(u, t) = u \o <<t>>
  BY <1>3, AppendIsConcat
<1> QED
  BY <1>2, <1>3, <1>4, <1>5, <1>6

\* The bytes of parts.
Bytes(parts) == [p \in DOMAIN parts |-> parts[p].bytes]

\* The bytes of a batch are those of its numbers, wherever it was cut.
LEMMA BatchBytes ==
  ASSUME NEW xs \in Seq(Residue), NEW step
  PROVE  /\ Bytes(FmpzBatch(step, xs)) \in Seq(Seq(Int))
         /\ FlattenSeq(Bytes(FmpzBatch(step, xs))) = PutFmpzs(xs)
<1>0. PICK max \in Nat \ {0} : max = MaxFmpzBatch
  BY WidthAssumption
<1>1. PICK pieces : max = MaxFmpzBatch /\ pieces = Pieces(xs, max)
  BY <1>0
<1>2. PICK m \in Nat \ {0} :
           /\ Len(pieces) = m /\ DOMAIN pieces = 1 .. m
           /\ \A k \in 1 .. m : \E e \in Nat : CutAt(xs, max, m, k, pieces[k], e)
  BY <1>1, PiecesCut
<1>3. \A k \in 1 .. m : pieces[k] \in Seq(Residue)
  <2>1. pieces \in Seq(Seq(Residue))
    BY <1>1, PiecesShape
  <2> QED
    BY <1>2, <2>1
<1>4. PICK put : put = [k \in 1 .. m |-> PutFmpzs(pieces[k])]
  OBVIOUS
<1>5. Bytes(FmpzBatch(step, xs)) = put
  BY <1>1, <1>2, <1>4 DEF FmpzBatch, Bytes, Part
<1>6. PICK V : V = Seq(Int)
  OBVIOUS
<1>7. put \in Seq(V) /\ Len(put) = m
  <2>1. \A k \in 1 .. m : PutFmpzs(pieces[k]) \in V
    BY <1>3, <1>6, NumberBytes
  <2>2. put \in [1 .. m -> V]
    BY <1>4, <2>1
  <2> QED
    BY <2>2, MadeLen
<1>8. PICK n \in Nat : n = Len(xs)
  OBVIOUS
<1> DEFINE end(k) == IF k < m THEN k * max ELSE n
           P == {k \in Nat : k <= m =>
                    FlattenSeq(SubSeq(put, 1, k)) = PutFmpzs(SubSeq(xs, 1, end(k)))}
<1>9. 0 \in P
  <2>1. end(0) = 0
    OBVIOUS
  <2>2. SubSeq(put, 1, 0) = <<>> /\ SubSeq(xs, 1, 0) = <<>>
    BY SubSeqEmpty
  <2>3. FlattenSeq(<<>>) = <<>> /\ PutFmpzs(<<>>) = <<>>
    BY DEF FlattenSeq, PutFmpzs
  <2> QED
    BY <2>1, <2>2, <2>3
<1>10. ASSUME NEW k \in Nat, k \in P PROVE k + 1 \in P
  <2> SUFFICES ASSUME k + 1 <= m
               PROVE  FlattenSeq(SubSeq(put, 1, k + 1)) = PutFmpzs(SubSeq(xs, 1, end(k + 1)))
    OBVIOUS
  <2>1. FlattenSeq(SubSeq(put, 1, k)) = PutFmpzs(SubSeq(xs, 1, k * max)) /\ k + 1 \in 1 .. m
    BY <1>10
  <2>2. PICK e \in Nat : CutAt(xs, max, m, k + 1, pieces[k + 1], e)
    BY <1>2, <2>1
  <2>3. PICK a \in Nat : a = k * max
    OBVIOUS
  <2>4. /\ pieces[k + 1] = SubSeq(xs, a + 1, e) /\ e \in a .. n /\ e = end(k + 1)
    <3>1. (k + 1) - 1 = k
      OBVIOUS
    <3> QED
      BY <1>8, <2>2, <2>3, <3>1 DEF CutAt
  <2> HIDE DEF end, P
  <2>5. SubSeq(xs, 1, a) \o SubSeq(xs, a + 1, e) = SubSeq(xs, 1, e)
    <3>1. /\ 1 \in 1 .. Len(xs) + 1 /\ a \in 1 - 1 .. Len(xs) /\ e \in a .. Len(xs)
      BY <1>8, <2>4
    <3> QED
      BY <3>1, ConcatAdjacentSubSeq
  <2>6. SubSeq(xs, 1, a) \in Seq(Residue) /\ SubSeq(xs, a + 1, e) \in Seq(Residue)
    <3>1. \A i \in 1 .. a : xs[i] \in Residue
      BY <1>8, <2>4
    <3>2. SubSeq(xs, 1, a) \in Seq(Residue)
      BY <3>1, SubSeqProperties
    <3> QED
      BY <1>3, <2>1, <2>4, <3>2
  <2>7. PutFmpzs(SubSeq(xs, 1, e)) = PutFmpzs(SubSeq(xs, 1, a)) \o PutFmpzs(SubSeq(xs, a + 1, e))
    BY <2>5, <2>6, NumbersConcat
  <2>8. /\ SubSeq(put, 1, k) \in Seq(V) /\ put[k + 1] \in V
        /\ SubSeq(put, 1, k + 1) = Append(SubSeq(put, 1, k), put[k + 1])
    BY <1>7, FrontSnoc
  <2>9. FlattenSeq(SubSeq(put, 1, k + 1)) = FlattenSeq(SubSeq(put, 1, k)) \o put[k + 1]
    BY <1>6, <2>8, FlattenSnoc
  <2>10. put[k + 1] = PutFmpzs(SubSeq(xs, a + 1, e))
    BY <1>4, <2>1, <2>4
  <2> QED
    BY <2>1, <2>3, <2>4, <2>7, <2>9, <2>10
<1>11. end(m) = n
  OBVIOUS
<1> HIDE DEF P, end
<1>12. Nat \subseteq P
  BY <1>9, <1>10, Induct
<1>13. FlattenSeq(SubSeq(put, 1, m)) = PutFmpzs(SubSeq(xs, 1, n))
  BY <1>11, <1>12 DEF P
<1>14. SubSeq(put, 1, m) = put /\ SubSeq(xs, 1, n) = xs
  BY <1>7, <1>8, SubSeqFull
<1> QED
  BY <1>5, <1>6, <1>7, <1>13, <1>14

\* What parts are made of, and their bytes.
PartSet == [step : Nat, chunk : Nat, bytes : Seq(Int)]

\* A part is what it is made of.
LEMMA PartType ==
  ASSUME NEW step \in Nat, NEW chunk \in Nat, NEW bytes \in Seq(Int)
  PROVE  Part(step, chunk, bytes) \in PartSet /\ Part(step, chunk, bytes).bytes = bytes
  BY DEF Part, PartSet

\* There is one sequence of bytes for each part.
LEMMA BytesType ==
  ASSUME NEW parts \in Seq(PartSet)
  PROVE  /\ Bytes(parts) \in Seq(Seq(Int)) /\ Len(Bytes(parts)) = Len(parts)
         /\ \A p \in 1 .. Len(parts) : Bytes(parts)[p] = parts[p].bytes
<1>1. PICK n \in Nat : n = Len(parts) /\ DOMAIN parts = 1 .. n
  OBVIOUS
<1>2. \A p \in 1 .. n : parts[p].bytes \in Seq(Int)
  <2>1. ASSUME NEW p \in 1 .. n PROVE parts[p] \in PartSet
    BY <1>1, ElementOfSeq
  <2> QED
    BY <2>1 DEF PartSet
<1>3. PICK f : f = [p \in 1 .. n |-> parts[p].bytes]
  OBVIOUS
<1>4. Bytes(parts) = f
  BY <1>1, <1>3 DEF Bytes
<1>5. f \in [1 .. n -> Seq(Int)]
  BY <1>2, <1>3
<1>6. f \in Seq(Seq(Int)) /\ Len(f) = n
  BY <1>5, MadeLen
<1> QED
  BY <1>1, <1>3, <1>4, <1>6

\* The bytes of two series of parts.
LEMMA BytesConcat ==
  ASSUME NEW a \in Seq(PartSet), NEW b \in Seq(PartSet)
  PROVE  a \o b \in Seq(PartSet) /\ Bytes(a \o b) = Bytes(a) \o Bytes(b)
<1>0. PICK m \in Nat, n \in Nat : m = Len(a) /\ n = Len(b)
  OBVIOUS
<1>1. PICK c : c = a \o b
  OBVIOUS
<1>2. /\ c \in Seq(PartSet) /\ Len(c) = m + n
      /\ \A i \in 1 .. m + n : c[i] = IF i <= m THEN a[i] ELSE b[i - m]
  <2>1. c \in Seq(PartSet) /\ Len(c) = m + n
    BY <1>0, <1>1, ConcatProperties
  <2>2. \A i \in 1 .. Len(a) + Len(b) : (a \o b)[i] = IF i <= Len(a) THEN a[i] ELSE b[i - Len(a)]
    BY ConcatProperties
  <2> QED
    BY <1>0, <1>1, <2>1, <2>2
<1>3. PICK V : V = Seq(Int)
  OBVIOUS
<1> DEFINE Of(f, parts) ==
              f = Bytes(parts) /\ f \in Seq(V) /\ Len(f) = Len(parts)
              /\ \A i \in 1 .. Len(parts) : f[i] = parts[i].bytes
<1>4. \A parts \in Seq(PartSet) : \E f : Of(f, parts)
  BY <1>3, BytesType
<1>8. PICK x : Of(x, a)
  BY <1>4
<1>9. PICK y : Of(y, b)
  BY <1>4
<1>10. PICK z : Of(z, c)
  BY <1>2, <1>4
<1>5. /\ x \o y \in Seq(V) /\ Len(x \o y) = m + n
      /\ \A i \in 1 .. m + n : (x \o y)[i] = IF i <= m THEN x[i] ELSE y[i - m]
  <2>1. x \o y \in Seq(V) /\ Len(x \o y) = Len(x) + Len(y)
    BY <1>8, <1>9, ConcatProperties
  <2>2. \A i \in 1 .. Len(x) + Len(y) : (x \o y)[i] = IF i <= Len(x) THEN x[i] ELSE y[i - Len(x)]
    BY <1>8, <1>9, ConcatProperties
  <2> QED
    BY <1>0, <1>8, <1>9, <2>1, <2>2
<1>6. ASSUME NEW i \in 1 .. m + n PROVE z[i] = (x \o y)[i]
  <2>1. CASE i <= m
    <3>1. i \in 1 .. m
      BY <2>1
    <3>2. z[i] = c[i].bytes /\ c[i] = a[i]
      BY <1>2, <1>10, <2>1
    <3>3. (x \o y)[i] = x[i] /\ x[i] = a[i].bytes
      BY <1>0, <1>5, <1>8, <2>1, <3>1
    <3> QED
      BY <3>2, <3>3
  <2>2. CASE ~(i <= m)
    <3>1. i - m \in 1 .. n
      BY <2>2
    <3>2. z[i] = c[i].bytes /\ c[i] = b[i - m]
      BY <1>2, <1>10, <2>2
    <3>3. (x \o y)[i] = y[i - m] /\ y[i - m] = b[i - m].bytes
      BY <1>0, <1>5, <1>9, <2>2, <3>1
    <3> QED
      BY <3>2, <3>3
  <2> QED
    BY <2>1, <2>2
<1>7. z = x \o y
  BY <1>2, <1>5, <1>6, <1>10, SeqEqual
<1> QED
  BY <1>1, <1>2, <1>7, <1>8, <1>9, <1>10

\* The parts of a batch of numbers.
LEMMA BatchParts ==
  ASSUME NEW xs \in Seq(Residue), NEW step \in Nat
  PROVE  FmpzBatch(step, xs) \in Seq(PartSet)
<1>1. PICK pieces : pieces = Pieces(xs, MaxFmpzBatch)
  OBVIOUS
<1>2. pieces \in Seq(Seq(Residue))
  BY <1>1, PiecesShape, WidthAssumption
<1>3. PICK m \in Nat : m = Len(pieces) /\ DOMAIN pieces = 1 .. m
  BY <1>2
<1>4. PICK parts : parts = [k \in 1 .. m |-> Part(step, k, PutFmpzs(pieces[k]))]
  OBVIOUS
<1>5. FmpzBatch(step, xs) = parts
  BY <1>1, <1>3, <1>4 DEF FmpzBatch
<1>6. \A k \in 1 .. m : Part(step, k, PutFmpzs(pieces[k])) \in PartSet
  <2>1. ASSUME NEW k \in 1 .. m PROVE Part(step, k, PutFmpzs(pieces[k])) \in PartSet
    <3>1. pieces[k] \in Seq(Residue)
      BY <1>2, <1>3
    <3>2. PutFmpzs(pieces[k]) \in Seq(Int)
      BY <3>1, NumberBytes
    <3>3. k \in Nat
      OBVIOUS
    <3> QED
      BY <3>2, <3>3, PartType
  <2> QED
    BY <2>1
<1>7. parts \in [1 .. m -> PartSet]
  BY <1>4, <1>6
<1> QED
  BY <1>5, <1>7, MadeLen

\* A call of kind "fmpzs" gives its numbers.
LEMMA NumbersReceived ==
  ASSUME NEW xs \in Seq(Residue)
  PROVE  Numbers(Bytes(FmpzBatch(1, xs))) = xs
  BY BatchBytes, NumbersRoundTrip DEF Numbers

\* One of kind "cors": first all the Ds, then all the Es.
DsOf(xs) == [n \in DOMAIN xs |-> xs[n].D]
EsOf(xs) == [n \in DOMAIN xs |-> xs[n].E]

\* The bytes of such a call are those of the two batches.
LEMMA CorsSplit ==
  ASSUME NEW xs \in Seq(Cor), NEW d, NEW e, d = DsOf(xs), e = EsOf(xs)
  PROVE  /\ d \in [1 .. Len(xs) -> Residue] /\ e \in [1 .. Len(xs) -> Residue]
         /\ \A k \in 1 .. Len(xs) : xs[k] = [D |-> d[k], E |-> e[k]]
<1>1. PICK n \in Nat : n = Len(xs) /\ DOMAIN xs = 1 .. n
  OBVIOUS
<1>2. ASSUME NEW k \in 1 .. n
      PROVE  xs[k].D \in Residue /\ xs[k].E \in Residue /\ xs[k] = [D |-> xs[k].D, E |-> xs[k].E]
  <2>1. PICK x : x = xs[k]
    OBVIOUS
  <2>2. x \in Cor
    BY <1>1, <2>1, ElementOfSeq
  <2>3. x.D \in Residue /\ x.E \in Residue /\ x = [D |-> x.D, E |-> x.E]
    BY <2>2 DEF Cor
  <2> QED
    BY <2>1, <2>3
<1>3. d \in [1 .. n -> Residue]
  BY <1>1, <1>2 DEF DsOf
<1>4. e \in [1 .. n -> Residue]
  BY <1>1, <1>2 DEF EsOf
<1>5. \A k \in 1 .. n : d[k] = xs[k].D /\ e[k] = xs[k].E
  BY <1>1 DEF DsOf, EsOf
<1> QED
  BY <1>1, <1>2, <1>3, <1>4, <1>5

\* So it gives the pairs.
LEMMA CorsReceived ==
  ASSUME NEW xs \in Seq(Cor), NEW parts, parts = FmpzBatch(1, DsOf(xs)) \o FmpzBatch(2, EsOf(xs))
  PROVE  parts \in Seq(PartSet) /\ GetCors(Bytes(parts), Len(xs)) = xs
<1>1. PICK n \in Nat : n = Len(xs) /\ DOMAIN xs = 1 .. n
  OBVIOUS
<1>2. PICK d, e : d = DsOf(xs) /\ e = EsOf(xs)
  OBVIOUS
<1>3. /\ d \in [1 .. n -> Residue] /\ e \in [1 .. n -> Residue]
      /\ \A k \in 1 .. n : xs[k] = [D |-> d[k], E |-> e[k]]
  BY <1>1, <1>2, CorsSplit
<1>4. d \in Seq(Residue) /\ e \in Seq(Residue) /\ Len(d) = n /\ Len(e) = n
  BY <1>3, MadeLen
<1>5. PICK a, b : a = FmpzBatch(1, d) /\ b = FmpzBatch(2, e)
  OBVIOUS
<1>6. /\ a \in Seq(PartSet) /\ b \in Seq(PartSet)
      /\ Bytes(a) \in Seq(Seq(Int)) /\ Bytes(b) \in Seq(Seq(Int))
      /\ FlattenSeq(Bytes(a)) = PutFmpzs(d) /\ FlattenSeq(Bytes(b)) = PutFmpzs(e)
  BY <1>4, <1>5, BatchParts, BatchBytes
<1>7. PICK all : all = Bytes(a \o b)
  OBVIOUS
<1>8. FlattenSeq(all) = PutFmpzs(d \o e)
  <2>1. all = Bytes(a) \o Bytes(b)
    BY <1>6, <1>7, BytesConcat
  <2>2. FlattenSeq(all) = FlattenSeq(Bytes(a)) \o FlattenSeq(Bytes(b))
    BY <1>6, <2>1, FlattenConcat
  <2> QED
    BY <1>4, <1>6, <2>2, NumbersConcat
<1>9. PICK z : z = d \o e
  OBVIOUS
<1>10. /\ z \in Seq(Residue)
       /\ \A i \in 1 .. n + n : z[i] = IF i <= n THEN d[i] ELSE e[i - n]
  BY <1>4, <1>9, ConcatProperties
<1>11. Numbers(all) = z
  BY <1>8, <1>9, <1>10, NumbersRoundTrip DEF Numbers
<1>12. ASSUME NEW k \in 1 .. n PROVE z[k] = d[k] /\ z[n + k] = e[k]
  <2>1. k \in 1 .. n + n /\ n + k \in 1 .. n + n /\ k <= n /\ ~(n + k <= n) /\ (n + k) - n = k
    OBVIOUS
  <2>2. z[k] = d[k]
    BY <1>10, <2>1
  <2>3. z[n + k] = e[(n + k) - n]
    BY <1>10, <2>1
  <2> QED
    BY <2>1, <2>2, <2>3
<1>13. PICK g : g = GetCors(all, n)
  OBVIOUS
<1>14. g = [k \in 1 .. n |-> [D |-> z[k], E |-> z[n + k]]]
  BY <1>11, <1>13 DEF GetCors
<1>15. \A k \in 1 .. n : g[k] = xs[k]
  BY <1>3, <1>12, <1>14
<1>16. xs = [k \in 1 .. n |-> xs[k]] /\ g = [k \in 1 .. n |-> g[k]]
  BY <1>1, <1>14
<1>17. g = xs
  BY <1>15, <1>16
<1>18. a \o b \in Seq(PartSet)
  BY <1>6, BytesConcat
<1> QED
  BY <1>1, <1>2, <1>5, <1>7, <1>13, <1>17, <1>18

\* Where an element of a batch comes to lie in its pieces.
LEMMA PiecePlace ==
  ASSUME NEW S, NEW xs \in Seq(S), NEW max \in Nat \ {0}, NEW k \in 1 .. Len(xs)
  PROVE  \E q \in Nat, r \in Nat :
           /\ q = (k - 1) \div max /\ r = (k - 1) % max
           /\ q + 1 \in 1 .. Len(Pieces(xs, max))
           /\ r + 1 \in 1 .. Len(Pieces(xs, max)[q + 1])
           /\ Pieces(xs, max)[q + 1][r + 1] = xs[k]
<1>0. PICK n \in Nat : n = Len(xs)
  OBVIOUS
<1>1. PICK pieces : n = Len(xs) /\ pieces = Pieces(xs, max)
  BY <1>0
<1>2. PICK m \in Nat \ {0} :
           /\ Len(pieces) = m /\ DOMAIN pieces = 1 .. m
           /\ \A i \in 1 .. m : \E e \in Nat : CutAt(xs, max, m, i, pieces[i], e)
  BY <1>1, PiecesCut
<1>3. PICK x \in Nat : x = k - 1 /\ x < n
  BY <1>1
<1>4. PICK q \in Int, r \in 0 .. max - 1 : q = x \div max /\ r = x % max /\ x = q * max + r
  <2>1. PICK y \in Int : y = x
    OBVIOUS
  <2>2. y \div max \in Int /\ y = (y \div max) * max + (y % max) /\ y % max \in 0 .. max - 1
    BY DivMod
  <2> QED
    BY <2>1, <2>2
<1>5. q >= 0
  <2> SUFFICES ASSUME q <= -1 PROVE FALSE
    OBVIOUS
  <2>1. q * max <= -max
    OBVIOUS
  <2> QED
    BY <1>3, <1>4, <2>1
<1>6. n <= m * max
  <2>1. PICK e \in Nat : CutAt(xs, max, m, m, pieces[m], e)
    BY <1>2
  <2> QED
    BY <1>1, <2>1 DEF CutAt
<1>7. q < m
  <2> SUFFICES ASSUME q >= m PROVE FALSE
    OBVIOUS
  <2>1. PICK d \in Nat : q = m + d
    OBVIOUS
  <2>2. q * max = m * max + d * max /\ d * max >= 0
    BY <2>1
  <2> QED
    BY <1>3, <1>4, <1>6, <2>2
<1>8. q + 1 \in 1 .. m /\ q \in Nat /\ r \in Nat /\ (q + 1) - 1 = q
  BY <1>5, <1>7
<1>9. PICK e \in Nat : CutAt(xs, max, m, q + 1, pieces[q + 1], e)
  BY <1>2, <1>8
<1>10. PICK a \in Nat, b \in Nat : a = q * max /\ b = (q + 1) * max
  BY <1>8
<1>11. b = a + max /\ x = a + r
  BY <1>4, <1>10
<1>12. /\ pieces[q + 1] = SubSeq(xs, a + 1, e) /\ e \in a .. n
       /\ IF q + 1 < m THEN e = b ELSE e = n
  BY <1>1, <1>8, <1>9, <1>10 DEF CutAt
<1>13. a + (r + 1) <= e
  BY <1>3, <1>4, <1>8, <1>11, <1>12
<1>14. \A i \in a + 1 .. e : xs[i] \in S
  BY <1>1, <1>12
<1>15. /\ Len(SubSeq(xs, a + 1, e)) = IF a + 1 <= e THEN e - (a + 1) + 1 ELSE 0
       /\ \A i \in 1 .. e - (a + 1) + 1 : SubSeq(xs, a + 1, e)[i] = xs[a + 1 + i - 1]
  BY <1>14, SubSeqProperties
<1>16. r + 1 \in 1 .. e - (a + 1) + 1 /\ a + 1 + (r + 1) - 1 = k
  BY <1>3, <1>8, <1>11, <1>13
<1>17. Len(pieces[q + 1]) = e - a /\ r + 1 \in 1 .. e - a
  BY <1>8, <1>12, <1>13, <1>15
<1>18. pieces[q + 1][r + 1] = xs[k]
  BY <1>12, <1>15, <1>16
<1> QED
  BY <1>1, <1>2, <1>3, <1>4, <1>8, <1>17, <1>18

\* A call of kind "dabits": in every piece the numbers, then the flags.
LEMMA DaBitsReceived ==
  ASSUME NEW xs \in Seq(DaBit)
  PROVE  /\ DaBitBatch(xs) \in Seq(PartSet)
         /\ GetDaBits(Bytes(DaBitBatch(xs)), Len(xs)) = xs
<1>0. PICK max \in Nat \ {0} : max = MaxDaBitBatch
  BY WidthAssumption
<1>1. PICK pieces : max = MaxDaBitBatch /\ pieces = Pieces(xs, max)
  BY <1>0
<1>2. pieces \in Seq(Seq(DaBit))
  BY <1>1, PiecesShape
<1>3. PICK m \in Nat : m = Len(pieces) /\ DOMAIN pieces = 1 .. m
  BY <1>2
<1> DEFINE bp(k) == [n \in DOMAIN pieces[k] |-> pieces[k][n].bp]
           b2(k) == [n \in DOMAIN pieces[k] |-> pieces[k][n].b2]
<1>4. ASSUME NEW k \in 1 .. m
      PROVE  /\ bp(k) \in Seq(Residue) /\ b2(k) \in Seq(BOOLEAN)
             /\ Len(bp(k)) = Len(pieces[k]) /\ Len(b2(k)) = Len(pieces[k])
             /\ \A i \in 1 .. Len(pieces[k]) :
                   bp(k)[i] = pieces[k][i].bp /\ b2(k)[i] = pieces[k][i].b2
  <2>1. PICK piece : piece = pieces[k]
    OBVIOUS
  <2>2. piece \in Seq(DaBit)
    BY <1>2, <1>3, <2>1
  <2>3. PICK l \in Nat : l = Len(piece) /\ DOMAIN piece = 1 .. l
    BY <2>2
  <2>4. \A i \in 1 .. l : piece[i].bp \in Residue /\ piece[i].b2 \in BOOLEAN
    <3>1. ASSUME NEW i \in 1 .. l PROVE piece[i] \in DaBit
      BY <2>2, <2>3, ElementOfSeq
    <3> QED
      BY <3>1 DEF DaBit
  <2>5. PICK u, v : u = [i \in 1 .. l |-> piece[i].bp] /\ v = [i \in 1 .. l |-> piece[i].b2]
    OBVIOUS
  <2>6. u = bp(k) /\ v = b2(k)
    BY <2>1, <2>3, <2>5
  <2>7. u \in [1 .. l -> Residue]
    BY <2>4, <2>5
  <2>8. v \in [1 .. l -> BOOLEAN]
    BY <2>4, <2>5
  <2>9. u \in Seq(Residue) /\ v \in Seq(BOOLEAN) /\ Len(u) = l /\ Len(v) = l
    BY <2>7, <2>8, MadeLen
  <2>10. \A i \in 1 .. l : u[i] = piece[i].bp /\ v[i] = piece[i].b2
    BY <2>5
  <2> HIDE DEF bp, b2
  <2> QED
    BY <2>1, <2>3, <2>6, <2>9, <2>10
<1> DEFINE Two(k) == <<Part(1, k, PutFmpzs(bp(k))), Part(1, k, PutBools(b2(k)))>>
<1>5. PICK ss : ss = [k \in 1 .. m |-> Two(k)]
  OBVIOUS
<1>6. DaBitBatch(xs) = FlattenSeq(ss)
  BY <1>1, <1>3, <1>5 DEF DaBitBatch
<1> HIDE DEF bp, b2
<1>7. ASSUME NEW k \in 1 .. m
      PROVE  /\ ss[k] \in Seq(PartSet) /\ Len(ss[k]) = 2
             /\ ss[k][1].bytes = PutFmpzs(bp(k)) /\ ss[k][2].bytes = PutBools(b2(k))
  <2>1. PutFmpzs(bp(k)) \in Seq(Int) /\ PutBools(b2(k)) \in Seq(Int) /\ k \in Nat
    <3>1. bp(k) \in Seq(Residue) /\ b2(k) \in Seq(BOOLEAN)
      BY <1>4
    <3>2. PutFmpzs(bp(k)) \in Seq(Int)
      BY <3>1, NumberBytes
    <3>3. PutBools(b2(k)) \in Seq(Int)
      BY <3>1, FlagBytes
    <3> QED
      BY <3>2, <3>3
  <2>2. PICK p \in PartSet, q \in PartSet :
             /\ p = Part(1, k, PutFmpzs(bp(k))) /\ q = Part(1, k, PutBools(b2(k)))
             /\ p.bytes = PutFmpzs(bp(k)) /\ q.bytes = PutBools(b2(k))
    BY <2>1, PartType
  <2>3. ss[k] = <<p, q>>
    BY <1>5, <2>2
  <2> QED
    BY <2>2, <2>3
<1>8. ss \in Seq(Seq(PartSet)) /\ Len(ss) = m
  <2>1. ss = [k \in 1 .. m |-> ss[k]]
    BY <1>5
  <2>2. ss \in [1 .. m -> Seq(PartSet)]
    BY <1>7, <2>1
  <2> QED
    BY <2>2, MadeLen
<1>9. PICK parts : parts = FlattenSeq(ss)
  OBVIOUS
<1>10. parts \in Seq(PartSet) /\ Len(parts) = m * 2
  BY <1>7, <1>8, <1>9, FlattenLen
<1>11. PICK all : all = Bytes(parts)
  OBVIOUS
<1>12. ASSUME NEW q \in Nat, q + 1 \in 1 .. m
       PROVE  /\ all[2 * q + 1] = PutFmpzs(bp(q + 1)) /\ all[2 * q + 2] = PutBools(b2(q + 1))
  <2>1. /\ ((q + 1) - 1) * 2 + 1 = 2 * q + 1 /\ ((q + 1) - 1) * 2 + 2 = 2 * q + 2
        /\ 2 * q + 1 \in 1 .. m * 2 /\ 2 * q + 2 \in 1 .. m * 2
    BY <1>12
  <2>2. ASSUME NEW i \in 1 .. Len(ss), NEW j \in 1 .. 2
        PROVE  FlattenSeq(ss)[(i - 1) * 2 + j] = ss[i][j]
    <3>1. PICK two \in Nat : two = 2
      OBVIOUS
    <3>2. \A k \in 1 .. Len(ss) : Len(ss[k]) = two
      BY <1>7, <1>8, <3>1
    <3>3. j \in 1 .. two
      BY <3>1
    <3>4. FlattenSeq(ss)[(i - 1) * two + j] = ss[i][j]
      BY ZenonT(60), <1>8, <3>2, <3>3, FlattenAt
    <3> QED
      BY <3>1, <3>4
  <2>3. parts[2 * q + 1] = ss[q + 1][1] /\ parts[2 * q + 2] = ss[q + 1][2]
    <3>1. 1 \in 1 .. 2 /\ 2 \in 1 .. 2 /\ q + 1 \in 1 .. Len(ss)
      BY <1>8, <1>12
    <3>2. parts[((q + 1) - 1) * 2 + 1] = ss[q + 1][1]
      BY <1>9, <2>2, <3>1
    <3>3. parts[((q + 1) - 1) * 2 + 2] = ss[q + 1][2]
      BY <1>9, <2>2, <3>1
    <3> QED
      BY <2>1, <3>2, <3>3
  <2>4. \A p \in 1 .. m * 2 : all[p] = parts[p].bytes
    BY <1>10, <1>11, BytesType
  <2> QED
    BY <1>7, <1>12, <2>1, <2>3, <2>4
<1>13. PICK n \in Nat : n = Len(xs) /\ DOMAIN xs = 1 .. n
  OBVIOUS
<1>14. PICK g : g = GetDaBits(all, n)
  OBVIOUS
<1>15. ASSUME NEW k \in 1 .. n PROVE g[k] = xs[k]
  <2>1. PICK q \in Nat, r \in Nat :
             /\ q = (k - 1) \div max /\ r = (k - 1) % max
             /\ q + 1 \in 1 .. m /\ r + 1 \in 1 .. Len(pieces[q + 1])
             /\ pieces[q + 1][r + 1] = xs[k]
    <3>1. \E q \in Nat, r \in Nat :
             /\ q = (k - 1) \div max /\ r = (k - 1) % max
             /\ q + 1 \in 1 .. Len(Pieces(xs, max))
             /\ r + 1 \in 1 .. Len(Pieces(xs, max)[q + 1])
             /\ Pieces(xs, max)[q + 1][r + 1] = xs[k]
      BY ZenonT(60), <1>13, PiecePlace
    <3> QED
      BY <1>1, <1>3, <3>1
  <2>2. PICK j \in Nat : j = r + 1
    OBVIOUS
  <2>3. g[k] = [bp |-> GetFmpzs(all[2 * q + 1])[j], b2 |-> GetBools(all[2 * q + 2], j)[j]]
    <3>1. g[k] = LET piece == (k - 1) \div MaxDaBitBatch
                     nth   == ((k - 1) % MaxDaBitBatch) + 1
                 IN [bp |-> GetFmpzs(all[2 * piece + 1])[nth],
                     b2 |-> GetBools(all[2 * piece + 2], nth)[nth]]
      BY <1>14 DEF GetDaBits
    <3> QED
      BY <1>1, <2>1, <2>2, <3>1
  <2>4. /\ bp(q + 1) \in Seq(Residue) /\ b2(q + 1) \in Seq(BOOLEAN)
        /\ Len(b2(q + 1)) = Len(pieces[q + 1])
        /\ bp(q + 1)[j] = xs[k].bp /\ b2(q + 1)[j] = xs[k].b2
    BY <1>4, <2>1, <2>2
  <2>5. GetFmpzs(all[2 * q + 1])[j] = xs[k].bp
    BY <1>12, <2>1, <2>4, NumbersRoundTrip
  <2>6. GetBools(all[2 * q + 2], j)[j] = xs[k].b2
    <3>1. PICK v \in Seq(BOOLEAN) : v = b2(q + 1)
      BY <2>4
    <3>2. j \in 0 .. Len(v) /\ j \in 1 .. j
      <4>1. PICK l \in Nat : l = Len(v)
        BY <3>1
      <4>2. j \in 1 .. l
        BY <2>1, <2>2, <2>4, <3>1, <4>1
      <4> QED
        BY <4>1, <4>2
    <3>3. GetBools(PutBools(v), j)[j] = v[j]
      BY <3>2, FlagsRoundTrip
    <3> QED
      BY <1>12, <2>1, <2>4, <3>1, <3>3
  <2>7. xs[k] = [bp |-> xs[k].bp, b2 |-> xs[k].b2]
    <3>1. PICK x : x = xs[k]
      OBVIOUS
    <3>2. x \in DaBit
      BY <1>13, <3>1, ElementOfSeq
    <3>3. x = [bp |-> x.bp, b2 |-> x.b2]
      BY <3>2 DEF DaBit
    <3> QED
      BY <3>1, <3>3
  <2> QED
    BY <2>3, <2>5, <2>6, <2>7
<1>16. DOMAIN g = 1 .. n /\ g = [k \in DOMAIN g |-> g[k]]
  BY <1>14 DEF GetDaBits
<1>17. xs = [k \in 1 .. n |-> xs[k]]
  BY <1>13
<1>18. g = xs
  BY <1>15, <1>16, <1>17
<1> QED
  BY <1>6, <1>9, <1>10, <1>11, <1>13, <1>14, <1>18

\* A call of kind "packet": its numbers, in their order.
LEMMA PacketReceived ==
  ASSUME NEW p \in ClientPacket, NEW parts,
         parts = [n \in DOMAIN PacketFields(p) |-> Part(n, 1, PutFmpz(PacketFields(p)[n]))]
  PROVE  /\ parts \in Seq(PartSet)
         /\ GetPacket(Bytes(parts), Len(p.MulShares)) = p
<1>1. PICK a, b, c, d : /\ a = p.MulShares /\ b = <<p.f0, p.g0, p.h0>>
                        /\ c = p.h_points /\ d = <<p.A, p.B, p.C>>
  OBVIOUS
<1>2. /\ a \in Seq(Residue) /\ b \in Seq(Residue) /\ c \in Seq(Residue) /\ d \in Seq(Residue)
      /\ Len(b) = 3 /\ Len(d) = 3
  BY <1>1 DEF ClientPacket
<1>3. PICK m \in Nat, n \in Nat : m = Len(a) /\ n = Len(c)
  BY <1>2
<1>4. PICK u, v, xs : u = a \o b /\ v = u \o c /\ xs = v \o d
  OBVIOUS
<1>5. /\ u \in Seq(Residue) /\ Len(u) = m + 3
      /\ \A i \in 1 .. m + 3 : u[i] = IF i <= m THEN a[i] ELSE b[i - m]
  <2>1. u \in Seq(Residue) /\ Len(u) = Len(a) + Len(b)
    BY <1>2, <1>4, ConcatProperties
  <2>2. \A i \in 1 .. Len(a) + Len(b) : (a \o b)[i] = IF i <= Len(a) THEN a[i] ELSE b[i - Len(a)]
    BY <1>2, ConcatProperties
  <2> QED
    BY <1>2, <1>3, <1>4, <2>1, <2>2
<1>6. /\ v \in Seq(Residue) /\ Len(v) = m + 3 + n
      /\ \A i \in 1 .. m + 3 + n : v[i] = IF i <= m + 3 THEN u[i] ELSE c[i - (m + 3)]
  <2>1. v \in Seq(Residue) /\ Len(v) = Len(u) + Len(c)
    BY <1>2, <1>4, <1>5, ConcatProperties
  <2>2. \A i \in 1 .. Len(u) + Len(c) : (u \o c)[i] = IF i <= Len(u) THEN u[i] ELSE c[i - Len(u)]
    BY <1>2, <1>5, ConcatProperties
  <2> QED
    BY <1>3, <1>4, <1>5, <2>1, <2>2
<1>7. /\ xs \in Seq(Residue) /\ Len(xs) = m + n + 6
      /\ \A i \in 1 .. m + n + 6 : xs[i] = IF i <= m + 3 + n THEN v[i] ELSE d[i - (m + 3 + n)]
  <2>1. xs \in Seq(Residue) /\ Len(xs) = Len(v) + Len(d)
    BY <1>2, <1>4, <1>6, ConcatProperties
  <2>2. \A i \in 1 .. Len(v) + Len(d) : (v \o d)[i] = IF i <= Len(v) THEN v[i] ELSE d[i - Len(v)]
    BY <1>2, <1>6, ConcatProperties
  <2>3. Len(v) + Len(d) = m + n + 6
    BY <1>2, <1>3, <1>6
  <2> QED
    BY <1>3, <1>4, <1>6, <2>1, <2>2, <2>3
<1>8. xs = PacketFields(p)
  BY <1>1, <1>4 DEF PacketFields
<1>9. DOMAIN xs = 1 .. m + n + 6 /\ m + n + 6 \in Nat
  BY <1>7
<1>10. PICK w : w = [i \in 1 .. m + n + 6 |-> PutFmpz(xs[i])]
  OBVIOUS
<1>11. parts = [i \in 1 .. m + n + 6 |-> Part(i, 1, PutFmpz(xs[i]))]
  BY <1>8, <1>9
<1>12. ASSUME NEW i \in 1 .. m + n + 6
       PROVE  Part(i, 1, PutFmpz(xs[i])) \in PartSet /\ Part(i, 1, PutFmpz(xs[i])).bytes = PutFmpz(xs[i])
  <2>1. i \in 1 .. Len(xs) /\ i \in Nat /\ 1 \in Nat
    BY <1>7, <1>9
  <2>2. PutFmpz(xs[i]) \in Seq(Int)
    BY <1>7, <2>1, NumberBytes
  <2> QED
    BY <2>1, <2>2, PartType
<1>13. parts \in Seq(PartSet)
  <2>1. parts \in [1 .. m + n + 6 -> PartSet]
    BY <1>11, <1>12
  <2> QED
    BY <1>9, <2>1, MadeLen
<1>14. Bytes(parts) = w
  <2>1. DOMAIN parts = 1 .. m + n + 6 /\ \A i \in 1 .. m + n + 6 : parts[i].bytes = PutFmpz(xs[i])
    BY <1>11, <1>12
  <2> QED
    BY <1>10, <2>1 DEF Bytes
<1>15. FlattenSeq(w) = PutFmpzs(xs)
  BY <1>9, <1>10 DEF PutFmpzs
<1>16. Numbers(w) = xs
  BY <1>7, <1>15, NumbersRoundTrip DEF Numbers
<1>17. /\ \A i \in 1 .. m : xs[i] = a[i]
       /\ \A i \in 1 .. 3 : xs[m + i] = b[i]
       /\ \A i \in 1 .. n : xs[m + 3 + i] = c[i]
       /\ \A i \in 1 .. 3 : xs[m + n + 3 + i] = d[i]
  <2>1. ASSUME NEW i \in 1 .. m PROVE xs[i] = a[i]
    BY <1>5, <1>6, <1>7
  <2>2. ASSUME NEW i \in 1 .. 3 PROVE xs[m + i] = b[i]
    <3>1. /\ m + i \in 1 .. m + 3 /\ m + i \in 1 .. m + 3 + n /\ m + i \in 1 .. m + n + 6
          /\ ~(m + i <= m) /\ (m + i) - m = i
      OBVIOUS
    <3>2. xs[m + i] = v[m + i]
      BY <1>7, <3>1
    <3>3. v[m + i] = u[m + i]
      BY <1>6, <3>1
    <3>4. u[m + i] = b[(m + i) - m]
      BY <1>5, <3>1
    <3> QED
      BY <3>1, <3>2, <3>3, <3>4
  <2>3. ASSUME NEW i \in 1 .. n PROVE xs[m + 3 + i] = c[i]
    <3>1. /\ m + 3 + i \in 1 .. m + 3 + n /\ m + 3 + i \in 1 .. m + n + 6
          /\ ~(m + 3 + i <= m + 3) /\ (m + 3 + i) - (m + 3) = i
      OBVIOUS
    <3>2. xs[m + 3 + i] = v[m + 3 + i]
      BY <1>7, <3>1
    <3>3. v[m + 3 + i] = c[(m + 3 + i) - (m + 3)]
      BY <1>6, <3>1
    <3> QED
      BY <3>1, <3>2, <3>3
  <2>4. ASSUME NEW i \in 1 .. 3 PROVE xs[m + n + 3 + i] = d[i]
    <3>1. /\ m + n + 3 + i \in 1 .. m + n + 6 /\ ~(m + n + 3 + i <= m + 3 + n)
          /\ (m + n + 3 + i) - (m + 3 + n) = i
      OBVIOUS
    <3>2. xs[m + n + 3 + i] = d[(m + n + 3 + i) - (m + 3 + n)]
      BY <1>7, <3>1
    <3> QED
      BY <3>1, <3>2
  <2> QED
    BY <2>1, <2>2, <2>3, <2>4
<1>18. /\ xs[m + 1] = p.f0 /\ xs[m + 2] = p.g0 /\ xs[m + 3] = p.h0
       /\ xs[m + n + 4] = p.A /\ xs[m + n + 5] = p.B /\ xs[m + n + 6] = p.C
  <2>1. b[1] = p.f0 /\ b[2] = p.g0 /\ b[3] = p.h0 /\ d[1] = p.A /\ d[2] = p.B /\ d[3] = p.C
    BY <1>1
  <2>2. 1 \in 1 .. 3 /\ 2 \in 1 .. 3 /\ 3 \in 1 .. 3
    OBVIOUS
  <2>3. m + n + 3 + 1 = m + n + 4 /\ m + n + 3 + 2 = m + n + 5 /\ m + n + 3 + 3 = m + n + 6
    OBVIOUS
  <2>4. xs[m + 1] = b[1] /\ xs[m + 2] = b[2] /\ xs[m + 3] = b[3]
    BY <1>17, <2>2
  <2>5. /\ xs[m + n + 3 + 1] = d[1] /\ xs[m + n + 3 + 2] = d[2] /\ xs[m + n + 3 + 3] = d[3]
    BY <1>17, <2>2
  <2> QED
    BY <2>1, <2>3, <2>4, <2>5
<1>19. SubSeq(xs, 1, m) = a
  <2>1. /\ SubSeq(xs, 1, m) \in Seq(Residue) /\ Len(SubSeq(xs, 1, m)) = m
        /\ \A i \in 1 .. m : SubSeq(xs, 1, m)[i] = xs[i]
    <3>1. \A i \in 1 .. m : xs[i] \in Residue
      BY <1>2, <1>3, <1>17
    <3>2. /\ SubSeq(xs, 1, m) \in Seq(Residue)
          /\ Len(SubSeq(xs, 1, m)) = IF 1 <= m THEN m - 1 + 1 ELSE 0
          /\ \A i \in 1 .. m - 1 + 1 : SubSeq(xs, 1, m)[i] = xs[1 + i - 1]
      BY <3>1, SubSeqProperties
    <3> QED
      BY <3>2
  <2> QED
    BY <1>2, <1>3, <1>17, <2>1, SeqEqual
<1>20. SubSeq(xs, m + 4, m + 3 + n) = c
  <2>1. PICK s : s = SubSeq(xs, m + 4, m + 3 + n)
    OBVIOUS
  <2>2. \A i \in m + 4 .. m + 3 + n : xs[i] \in Residue
    BY <1>7
  <2>3. /\ s \in Seq(Residue)
        /\ Len(s) = IF m + 4 <= m + 3 + n THEN (m + 3 + n) - (m + 4) + 1 ELSE 0
        /\ \A i \in 1 .. (m + 3 + n) - (m + 4) + 1 : s[i] = xs[m + 4 + i - 1]
    BY <2>1, <2>2, SubSeqProperties
  <2>4. Len(s) = n
    BY <2>3
  <2>5. ASSUME NEW i \in 1 .. n PROVE s[i] = c[i]
    <3>1. i \in 1 .. (m + 3 + n) - (m + 4) + 1 /\ m + 4 + i - 1 = m + 3 + i
      OBVIOUS
    <3> QED
      BY <1>17, <2>3, <3>1
  <2> QED
    BY ZenonT(60), <1>2, <1>3, <2>1, <2>3, <2>4, <2>5, SeqEqual
<1>21. PICK g : g = GetPacket(w, m)
  OBVIOUS
<1>22. g = [MulShares |-> a, f0 |-> p.f0, g0 |-> p.g0, h0 |-> p.h0, h_points |-> c,
            A |-> p.A, B |-> p.B, C |-> p.C]
  <2>1. Len(xs) - m - 6 = n
    BY <1>7
  <2>2. g = LET N == Len(xs) - m - 6
            IN [MulShares |-> SubSeq(xs, 1, m), f0 |-> xs[m + 1], g0 |-> xs[m + 2],
                h0 |-> xs[m + 3], h_points |-> SubSeq(xs, m + 4, m + 3 + N),
                A |-> xs[m + N + 4], B |-> xs[m + N + 5], C |-> xs[m + N + 6]]
    BY <1>16, <1>21 DEF GetPacket
  <2> QED
    BY <1>18, <1>19, <1>20, <2>1, <2>2
<1>23. p = [MulShares |-> p.MulShares, f0 |-> p.f0, g0 |-> p.g0, h0 |-> p.h0,
            h_points |-> p.h_points, A |-> p.A, B |-> p.B, C |-> p.C]
  BY DEF ClientPacket
<1> QED
  BY <1>1, <1>3, <1>13, <1>14, <1>21, <1>22, <1>23

\* What a call is given, as its counterpart can have it: a size is a uint32_t.
Given(call) ==
    IF call.kind = "size" THEN call.data % 2 ^ (ByteBits * IntBytes) ELSE call.data

\* Whatever is sent, the bytes of all its parts give it back.
LEMMA CallReceived ==
  ASSUME NEW p \in Programs, NEW c \in DOMAIN p
  PROVE  /\ Parts(p[c]) \in Seq(PartSet)
         /\ Received(p[c], Bytes(Parts(p[c]))) = Given(p[c])
<1>1. PICK call : call = p[c]
  OBVIOUS
<1>2. /\ call.kind \in {"size", "bools", "fmpzs", "cors", "dabits", "packet"}
      /\ call.data \in Data(call.kind)
  BY <1>1, ProgramsAssumption
<1>3. PICK parts, all, x : parts = Parts(call) /\ all = Bytes(parts) /\ x = call.data
  OBVIOUS
<1>4. ASSUME NEW bytes \in Seq(Int), parts = <<Part(1, 1, bytes)>>
      PROVE  parts \in Seq(PartSet) /\ all[1] = bytes
  <2>1. PICK q \in PartSet : q = Part(1, 1, bytes) /\ q.bytes = bytes
    BY PartType
  <2>2. parts = <<q>> /\ parts \in Seq(PartSet) /\ Len(parts) = 1 /\ parts[1] = q
    BY <1>4, <2>1
  <2>3. 1 \in 1 .. Len(parts)
    BY <2>2
  <2>4. all[1] = parts[1].bytes
    BY <1>3, <2>2, <2>3, BytesType
  <2> QED
    BY <2>1, <2>2, <2>4
<1>5. CASE call.kind = "size"
  <2>1. x \in Nat
    BY <1>2, <1>3, <1>5 DEF Data
  <2>2. PutSize(x) \in Seq(Int) /\ GetSize(PutSize(x)) = x % 2 ^ (ByteBits * IntBytes)
    BY <2>1, SizeRoundTrip
  <2>3. parts = <<Part(1, 1, PutSize(x))>>
    BY <1>3, <1>5 DEF Parts
  <2>4. parts \in Seq(PartSet) /\ all[1] = PutSize(x)
    BY <1>4, <2>2, <2>3
  <2>5. Received(call, all) = GetSize(all[1]) /\ Given(call) = x % 2 ^ (ByteBits * IntBytes)
    BY <1>3, <1>5 DEF Received, Given
  <2> QED
    BY <1>1, <1>3, <2>2, <2>4, <2>5
<1>6. CASE call.kind = "bools"
  <2>1. x \in Seq(BOOLEAN)
    BY <1>2, <1>3, <1>6 DEF Data
  <2>2. PutBools(x) \in Seq(Int)
    BY <2>1, FlagBytes
  <2>3. parts = <<Part(1, 1, PutBools(x))>>
    BY <1>3, <1>6 DEF Parts
  <2>4. parts \in Seq(PartSet) /\ all[1] = PutBools(x)
    BY <1>4, <2>2, <2>3
  <2>5. Len(x) \in 0 .. Len(x)
    BY <2>1
  <2>6. GetBools(PutBools(x), Len(x)) = x
    BY <2>1, <2>5, FlagsRoundTrip
  <2>7. Received(call, all) = GetBools(all[1], Len(x)) /\ Given(call) = x
    BY <1>3, <1>6 DEF Received, Given
  <2> QED
    BY <1>1, <1>3, <2>4, <2>6, <2>7
<1>7. CASE call.kind = "fmpzs"
  <2>1. x \in Seq(Residue)
    BY <1>2, <1>3, <1>7 DEF Data
  <2>2. parts = FmpzBatch(1, x)
    BY <1>3, <1>7 DEF Parts
  <2>3. parts \in Seq(PartSet) /\ Numbers(all) = x
    BY <1>3, <2>1, <2>2, BatchParts, NumbersReceived
  <2>4. Received(call, all) = Numbers(all) /\ Given(call) = x
    BY <1>3, <1>7 DEF Received, Given
  <2> QED
    BY <1>1, <1>3, <2>3, <2>4
<1>8. CASE call.kind = "cors"
  <2>1. x \in Seq(Cor)
    BY <1>2, <1>3, <1>8 DEF Data
  <2>3. parts = FmpzBatch(1, DsOf(x)) \o FmpzBatch(2, EsOf(x))
    BY <1>3, <1>8 DEF Parts, DsOf, EsOf
  <2>4. parts \in Seq(PartSet) /\ GetCors(all, Len(x)) = x
    BY <1>3, <2>1, <2>3, CorsReceived
  <2>5. Received(call, all) = GetCors(all, Len(x)) /\ Given(call) = x
    BY <1>3, <1>8 DEF Received, Given
  <2> QED
    BY <1>1, <1>3, <2>4, <2>5
<1>9. CASE call.kind = "dabits"
  <2>1. x \in Seq(DaBit)
    BY <1>2, <1>3, <1>9 DEF Data
  <2>2. parts = DaBitBatch(x)
    BY <1>3, <1>9 DEF Parts
  <2>3. parts \in Seq(PartSet) /\ GetDaBits(all, Len(x)) = x
    BY <1>3, <2>1, <2>2, DaBitsReceived
  <2>4. Received(call, all) = GetDaBits(all, Len(x)) /\ Given(call) = x
    BY <1>3, <1>9 DEF Received, Given
  <2> QED
    BY <1>1, <1>3, <2>3, <2>4
<1>10. CASE call.kind = "packet"
  <2>1. x \in ClientPacket
    BY <1>2, <1>3, <1>10 DEF Data
  <2>2. parts = [n \in DOMAIN PacketFields(x) |-> Part(n, 1, PutFmpz(PacketFields(x)[n]))]
    BY <1>3, <1>10 DEF Parts
  <2>3. parts \in Seq(PartSet) /\ GetPacket(all, Len(x.MulShares)) = x
    BY <1>3, <2>1, <2>2, PacketReceived
  <2>4. Received(call, all) = GetPacket(all, Len(x.MulShares)) /\ Given(call) = x
    BY <1>3, <1>10 DEF Received, Given
  <2> QED
    BY <1>1, <1>3, <2>3, <2>4
<1> QED
  BY <1>2, <1>5, <1>6, <1>7, <1>8, <1>9, <1>10

-----------------------------------------------------------------------------
(* The bytes of a call, part by part *)

BytePath(parts, upto) ==
    /\ upto \in [0 .. Len(parts) -> Nat] /\ upto[0] = 0
    /\ \A p \in 1 .. Len(parts) : upto[p] = upto[p - 1] + PartLen(parts, p)

\* The length of a call is the last of its parts' partial sums.
LEMMA ByteLenRec ==
  ASSUME NEW parts, Shape(parts)
  PROVE  \E upto : BytePath(parts, upto) /\ ByteLen(parts) = upto[Len(parts)]
<1>1. PICK n \in Nat \ {0} : n = Len(parts) /\ DOMAIN parts = 1 .. n
  BY DEF Shape
<1> DEFINE w(j) == Len(parts[j].bytes)
<1>2. \A j \in 1 .. n : w(j) \in Nat
  BY <1>1 DEF Shape, Filled, Blank, PartLen
<1> DEFINE D == DOMAIN parts
           Fix(h) == [s \in SUBSET D |-> IF s = {} THEN 0 ELSE LET x == Max(s) IN
                        h[s \ {x}] + Len(parts[x].bytes)]
           fold == CHOOSE h : h = Fix(h)
<1>3. ByteLen(parts) = fold[D]
  BY DEF ByteLen, FoldLeft, MapThenFoldSet
<1>4. PICK G : G = [j \in 1 .. n |-> [v \in Nat |-> v + w(j)]]
  OBVIOUS
<1>5. Folding(n, Nat, 0, G)
  <2> HIDE DEF w
  <2>1. ASSUME NEW j \in 1 .. n PROVE [v \in Nat |-> v + w(j)] \in [Nat -> Nat]
    BY <1>2
  <2>2. G \in [1 .. n -> [Nat -> Nat]]
    BY <1>4, <2>1
  <2> QED
    BY <2>2 DEF Folding
<1>6. fold = Fix(fold)
  <2>1. PICK iter : iter \in [SUBSET (1 .. n) -> Nat] /\ Folded(n, Nat, 0, G, iter)
    BY <1>5, FoldExists
  <2>2. ASSUME NEW s \in SUBSET D PROVE iter[s] = Fix(iter)[s]
    <3>1. CASE s = {}
      BY <2>1, <3>1 DEF Folded
    <3>2. CASE s # {}
      <4>1. Max(s) \in 1 .. n /\ s \ {Max(s)} \in SUBSET (1 .. n)
        BY <1>1, <3>2, MaxIn
      <4>2. iter[s] = iter[s \ {Max(s)}] + w(Max(s))
        BY <1>1, <1>4, <2>1, <3>2, <4>1 DEF Folded
      <4> QED
        BY <3>2, <4>2
    <3> QED
      BY <3>1, <3>2
  <2>3. iter = Fix(iter)
    BY <1>1, <2>1, <2>2
  <2> HIDE DEF Fix
  <2> QED
    BY <2>3, Zenon
<1> HIDE DEF fold
<1>7. Folded(n, Nat, 0, G, fold)
  <2>1. fold[{}] = 0
    BY <1>6
  <2>2. ASSUME NEW s \in SUBSET (1 .. n), s # {}, fold[s \ {Max(s)}] \in Nat
        PROVE  fold[s] = G[Max(s)][fold[s \ {Max(s)}]]
    <3>1. Max(s) \in 1 .. n
      BY <2>2, MaxIn
    <3>2. fold[s] = fold[s \ {Max(s)}] + w(Max(s))
      BY <1>1, <1>6, <2>2
    <3> QED
      BY <1>4, <2>2, <3>1, <3>2
  <2> QED
    BY <2>1, <2>2 DEF Folded
<1>8. PICK upto : PartSums(n, Nat, 0, G, upto) /\ fold[1 .. n] = upto[n]
  BY <1>5, <1>7, FoldPrefixes
<1>9. upto \in [0 .. n -> Nat] /\ upto[0] = 0
  BY <1>8 DEF PartSums
<1>10. ASSUME NEW j \in 1 .. n PROVE upto[j] = upto[j - 1] + PartLen(parts, j)
  <2>1. upto[j - 1] \in Nat
    BY <1>9
  <2>2. upto[j] = upto[j - 1] + w(j)
    BY <1>4, <1>8, <2>1 DEF PartSums
  <2> QED
    BY <2>2 DEF PartLen
<1> QED
  BY SMTT(60), <1>1, <1>3, <1>8, <1>9, <1>10 DEF BytePath

\* A call of empty parts has no bytes.
LEMMA BlankLen ==
  ASSUME NEW parts, Shape(parts), Blank(parts)
  PROVE  ByteLen(parts) = 0
<1>1. PICK n \in Nat \ {0} : n = Len(parts)
  BY DEF Shape
<1>2. PICK upto : BytePath(parts, upto) /\ ByteLen(parts) = upto[n]
  BY <1>1, ByteLenRec
<1> DEFINE P == {k \in Nat : k <= n => upto[k] = 0}
<1>3. 0 \in P
  BY <1>2 DEF BytePath
<1>4. ASSUME NEW k \in Nat, k \in P PROVE k + 1 \in P
  <2> SUFFICES ASSUME k + 1 <= n PROVE upto[k + 1] = 0
    OBVIOUS
  <2>1. k + 1 \in 1 .. n /\ (k + 1) - 1 = k /\ upto[k] = 0
    BY <1>4
  <2>2. PartLen(parts, k + 1) = 0
    BY <1>1, <2>1 DEF Blank
  <2>3. upto[k + 1] = upto[(k + 1) - 1] + PartLen(parts, k + 1)
    BY <1>1, <1>2, <2>1 DEF BytePath
  <2> QED
    BY <2>1, <2>2, <2>3
<1> HIDE DEF P
<1>5. Nat \subseteq P
  BY <1>3, <1>4, Induct
<1>6. n \in P
  BY <1>5
<1> QED
  BY <1>2, <1>6 DEF P

-----------------------------------------------------------------------------
(* The invariant *)

\* The sender is gone and everything it wrote has been read.
Stopped == sender # "open" /\ read = written

\* A call that had bytes coming and did not get them all.
Failed(c) == Whole(c) > 0 /\ ~Complete(c)

\* While everything arrives the three totals add up to the parts read.
Exact(parts) ==
    /\ chunk_total \in Nat /\ step_total \in Nat /\ total \in Nat
    /\ \A upto : BytePath(parts, upto) => chunk_total + step_total + total = upto[part - 1]

Uncut(parts) == \A p \in 1 .. Len(parts) : ~(parts[p].chunk > 1)

InCall(parts) ==
    /\ part \in 1 .. Len(parts) /\ bytes_read \in Nat
    /\ chunk_total \in Int /\ step_total \in Int /\ total \in Int
    /\ Filled(parts) => bytes_read < PartLen(parts, part) /\ (Exact(parts) \/ Stopped)
    /\ Blank(parts) => bytes_read = 0 /\ chunk_total = 0 /\ step_total = 0 /\ total = 0
    /\ Uncut(parts) => step_total = 0

Returned ==
    /\ \E S : returns \in Seq(S)
    /\ Len(returns) <= Len(program)
    /\ \A c \in 1 .. Len(returns) :
          /\ returns[c].ret \in Int
          /\ Failed(c) => /\ Stopped /\ chunk_total <= 0 /\ step_total <= 0
                          /\ \A d \in c + 1 .. Len(returns) : returns[d].ret <= 0
          /\ ~Cut(c) /\ ~Complete(c) => returns[c].ret \in {0, -1}

Reading ==
    /\ program \in Programs
    /\ read \in Nat /\ written \in Nat /\ read <= written
    /\ chunk_total \in Int /\ step_total \in Int
    /\ Returned
    /\ ~Ended => InCall(Parts(Call))

\* The end of a call, or a call that has none left.
LEMMA CallParts ==
  ASSUME program \in Programs, \E S : returns \in Seq(S), Len(returns) <= Len(program), ~Ended
  PROVE  /\ Len(returns) + 1 \in 1 .. Len(program) /\ Len(returns) \in Nat
         /\ Len(program) \in Nat /\ DOMAIN program = 1 .. Len(program)
         /\ Shape(Parts(Call))
<1>1. Len(program) \in Nat /\ DOMAIN program = 1 .. Len(program)
  BY ProgramsAssumption
<1>2. Len(returns) \in Nat
  OBVIOUS
<1>3. Len(returns) + 1 \in 1 .. Len(program)
  BY <1>1, <1>2 DEF Ended
<1> QED
  BY <1>1, <1>2, <1>3, PartsShape DEF Call

\* The next part is one of those that come, or none.
LEMMA NextPartRange ==
  ASSUME NEW parts, Shape(parts), part \in 1 .. Len(parts), NEW ret \in Int
  PROVE  /\ NextPart(parts, ret) \in part + 1 .. Len(parts) + 1
         /\ ret > 0 => NextPart(parts, ret) = part + 1
         /\ ~(ret > 0) => ~SameChunk(parts, NextPart(parts, ret))
<1>1. PICK n \in Nat \ {0} : n = Len(parts)
  BY DEF Shape
<1>2. CASE ret > 0
  BY <1>1, <1>2 DEF NextPart
<1>3. CASE ~(ret > 0)
  <2> DEFINE T == {k \in part + 1 .. n + 1 : ~SameChunk(parts, k)}
  <2>1. n + 1 \in T
    <3>1. ~SameChunk(parts, n + 1)
      BY <1>1 DEF SameChunk, SameStep
    <3> QED
      BY <1>1, <3>1
  <2>2. T \subseteq Nat /\ T # {}
    BY <1>1, <2>1
  <2>3. PICK least \in T : \A k \in T : least <= k
    <3> HIDE DEF T
    <3> QED
      BY <2>2, Least
  <2>4. \A m \in part + 1 .. least - 1 : SameChunk(parts, m)
    <3> SUFFICES ASSUME NEW m \in part + 1 .. least - 1, ~SameChunk(parts, m) PROVE FALSE
      OBVIOUS
    <3>1. m \in T /\ m < least
      BY <1>1, <2>3
    <3> QED
      BY <2>3, <3>1
  <2> DEFINE Q(k) == ~SameChunk(parts, k) /\ \A m \in part + 1 .. k - 1 : SameChunk(parts, m)
  <2>5. \E k \in part + 1 .. Len(parts) + 1 : Q(k)
    BY <1>1, <2>3, <2>4
  <2>6. NextPart(parts, ret) = CHOOSE k \in part + 1 .. Len(parts) + 1 : Q(k)
    BY <1>3 DEF NextPart
  <2> HIDE DEF Q
  <2>7. NextPart(parts, ret) \in part + 1 .. Len(parts) + 1 /\ Q(NextPart(parts, ret))
    BY <2>5, <2>6
  <2> QED
    BY <1>3, <2>7 DEF Q
<1> QED
  BY SMTT(60), <1>2, <1>3

-----------------------------------------------------------------------------
(* The end of a part *)

\* What a part's end does to the totals: it is followed by a part of its
\* chunk, of its step or of the next one, or it ends the call.
SameNext(next, chunk) ==
    /\ chunk_total' = chunk /\ step_total' = step_total /\ total' = total
    /\ part' = next /\ returns' = returns
ChunkNext(next, step) ==
    /\ chunk_total' = 0 /\ step_total' = step /\ total' = total
    /\ part' = next /\ returns' = returns
StepNext(next, step) ==
    /\ step > 0
    /\ chunk_total' = 0 /\ step_total' = 0 /\ total' = total + step
    /\ part' = next /\ returns' = returns
CallEnds(ret, arrived) ==
    /\ chunk_total' = 0 /\ step_total' = 0 /\ total' = 0
    /\ part' = 1 /\ returns' = Append(returns, [ret |-> ret, got |-> arrived])

\* These are the cases of EndPart.
LEMMA EndPartCases ==
  ASSUME NEW parts, parts = Parts(Call), Shape(parts), part \in 1 .. Len(parts),
         NEW ret \in Int, NEW arrived, EndPart(ret, arrived),
         chunk_total \in Int, step_total \in Int
  PROVE  \E next \in part + 1 .. Len(parts) + 1, chunk, step \in Int :
           /\ chunk = (IF ret > 0 THEN chunk_total + ret ELSE ret) /\ step = step_total + chunk
           /\ ret > 0 => next = part + 1
           /\ bytes_read' = 0
           /\ \/ ret > 0 /\ next <= Len(parts) /\ SameNext(next, chunk)
              \/ /\ next <= Len(parts) /\ parts[next].chunk # parts[part].chunk
                 /\ ChunkNext(next, step)
              \/ next <= Len(parts) /\ StepNext(next, step)
              \/ /\ ~(next <= Len(parts) /\ step > 0)
                 /\ CallEnds(IF step > 0 THEN total + step ELSE step, arrived)
<1>1. PICK next : next = NextPart(parts, ret)
  OBVIOUS
<1>2. /\ next \in part + 1 .. Len(parts) + 1
      /\ ret > 0 => next = part + 1
      /\ ~(ret > 0) => ~SameChunk(parts, next)
  BY <1>1, NextPartRange
<1>3. PICK chunk \in Int, step \in Int :
           chunk = (IF ret > 0 THEN chunk_total + ret ELSE ret) /\ step = step_total + chunk
  OBVIOUS
<1> DEFINE goes_on == SameStep(parts, next) \/ (next <= Len(parts) /\ step > 0)
<1>4. /\ bytes_read' = 0
      /\ chunk_total' = IF SameChunk(parts, next) THEN chunk ELSE 0
      /\ step_total' = CASE SameChunk(parts, next) -> step_total
                         [] SameStep(parts, next) /\ ~SameChunk(parts, next) -> step
                         [] OTHER -> 0
      /\ total' = IF ~goes_on THEN 0
                  ELSE IF SameStep(parts, next) THEN total ELSE total + step
      /\ part' = IF goes_on THEN next ELSE 1
      /\ returns' = IF goes_on THEN returns
                    ELSE Append(returns, [ret |-> IF step > 0 THEN total + step ELSE step,
                                          got |-> arrived])
  <2> USE <1>1, <1>3 DEF EndPart
  <2>1. bytes_read' = 0 /\ chunk_total' = IF SameChunk(parts, next) THEN chunk ELSE 0
    OBVIOUS
  <2>2. step_total' = CASE SameChunk(parts, next) -> step_total
                        [] SameStep(parts, next) /\ ~SameChunk(parts, next) -> step
                        [] OTHER -> 0
    OBVIOUS
  <2>3. total' = IF ~goes_on THEN 0
                 ELSE IF SameStep(parts, next) THEN total ELSE total + step
    OBVIOUS
  <2>4. part' = IF goes_on THEN next ELSE 1
    OBVIOUS
  <2>5. returns' = IF goes_on THEN returns
                   ELSE Append(returns, [ret |-> IF step > 0 THEN total + step ELSE step,
                                         got |-> arrived])
    OBVIOUS
  <2> QED
    BY <2>1, <2>2, <2>3, <2>4, <2>5
<1>5. SameChunk(parts, next) => SameStep(parts, next)
  BY DEF SameChunk
<1>6. SameStep(parts, next) => next <= Len(parts)
  BY DEF SameStep
<1>7. CASE SameChunk(parts, next)
  <2>1. SameNext(next, chunk)
    BY <1>4, <1>5, <1>7 DEF SameNext
  <2> QED
    BY <1>2, <1>3, <1>4, <1>5, <1>6, <1>7, <2>1
<1>8. CASE SameStep(parts, next) /\ ~SameChunk(parts, next)
  <2>1. ChunkNext(next, step)
    BY <1>4, <1>8 DEF ChunkNext
  <2>2. parts[next].chunk # parts[part].chunk
    BY <1>8 DEF SameChunk
  <2> QED
    BY <1>2, <1>3, <1>4, <1>6, <1>8, <2>1, <2>2
<1>9. CASE ~SameStep(parts, next) /\ next <= Len(parts) /\ step > 0
  <2>1. StepNext(next, step)
    BY <1>4, <1>5, <1>9 DEF StepNext
  <2> QED
    BY <1>2, <1>3, <1>4, <1>9, <2>1
<1>10. CASE ~SameStep(parts, next) /\ ~(next <= Len(parts) /\ step > 0)
  <2>1. CallEnds(IF step > 0 THEN total + step ELSE step, arrived)
    BY <1>4, <1>5, <1>10 DEF CallEnds
  <2> QED
    BY <1>2, <1>3, <1>4, <1>10, <2>1
<1> QED
  BY <1>7, <1>8, <1>9, <1>10

\* How a part ends: with nothing to read, after the end, or arrived.
PartEnd(parts, ret) ==
    \/ ret = 0 /\ Blank(parts)
    \/ ret \in {0, -1} /\ Filled(parts) /\ Stopped /\ Stopped'
    \/ ret = PartLen(parts, part) /\ Filled(parts) /\ Exact(parts) /\ ~Stopped

\* The steps that end a part.
EndStep(parts, ret, arrived) ==
    /\ Reading /\ ~Ended /\ parts = Parts(Call)
    /\ ret \in Int /\ EndPart(ret, arrived) /\ PartEnd(parts, ret)
    /\ program' = program
    /\ read' \in Nat /\ written' \in Nat /\ read' <= written'
    /\ Stopped => Stopped'

\* Parts are not filled and empty at once.
LEMMA FilledOrBlank ==
  ASSUME NEW parts, Shape(parts)
  PROVE  ~(Filled(parts) /\ Blank(parts))
<1>1. 1 \in 1 .. Len(parts)
  BY DEF Shape
<1> QED
  BY <1>1 DEF Filled, Blank

\* A call that goes on is in one of its parts, with the totals it had or more.
LEMMA GoesOn ==
  ASSUME NEW parts, NEW ret, NEW arrived, EndStep(parts, ret, arrived), returns' = returns
  PROVE  Reading'
<1>1. PICK n \in Nat \ {0} : n = Len(parts)
  BY CallParts DEF EndStep, Reading, Returned, Shape
<1>2. Shape(parts) /\ InCall(parts) /\ ret \in Int
  BY CallParts DEF EndStep, Reading, Returned
<1>3. /\ part \in 1 .. n /\ chunk_total \in Int /\ step_total \in Int /\ total \in Int
      /\ \A p \in 1 .. n : parts[p].chunk \in Nat \ {0}
  BY <1>1, <1>2 DEF InCall, Shape
<1>4. PICK next \in part + 1 .. n + 1, chunk, step \in Int :
           /\ chunk = (IF ret > 0 THEN chunk_total + ret ELSE ret) /\ step = step_total + chunk
           /\ ret > 0 => next = part + 1
           /\ bytes_read' = 0
           /\ \/ ret > 0 /\ next <= n /\ SameNext(next, chunk)
              \/ /\ next <= n /\ parts[next].chunk # parts[part].chunk
                 /\ ChunkNext(next, step)
              \/ next <= n /\ StepNext(next, step)
              \/ /\ ~(next <= n /\ step > 0)
                 /\ CallEnds(IF step > 0 THEN total + step ELSE step, arrived)
  BY SMTT(60), <1>1, <1>2, <1>3, EndPartCases DEF EndStep
<1>5. chunk \in Int /\ next \in Nat
  BY <1>3, <1>4
<1>6. ~CallEnds(IF step > 0 THEN total + step ELSE step, arrived)
  <2> SUFFICES ASSUME CallEnds(IF step > 0 THEN total + step ELSE step, arrived) PROVE FALSE
    OBVIOUS
  <2>1. PICK S : returns \in Seq(S)
    BY DEF EndStep, Reading, Returned
  <2>2. PICK r : returns' = Append(returns, r)
    BY DEF CallEnds
  <2> DEFINE T == S \cup {r}
  <2>3. returns \in Seq(T) /\ r \in T
    BY <2>1
  <2>4. Len(returns') = Len(returns) + 1
    BY <2>2, <2>3, AppendProperties
  <2> QED
    BY <2>1, <2>4
<1>7. /\ part' = next /\ next <= n
      /\ \/ ret > 0 /\ chunk_total' = chunk /\ step_total' = step_total /\ total' = total
         \/ /\ parts[next].chunk # parts[part].chunk
            /\ chunk_total' = 0 /\ step_total' = step /\ total' = total
         \/ step > 0 /\ chunk_total' = 0 /\ step_total' = 0 /\ total' = total + step
  BY <1>4, <1>6 DEF SameNext, ChunkNext, StepNext
<1>8. part' \in 1 .. n /\ part \in Nat
  BY <1>3, <1>4, <1>7
<1>9. chunk_total' \in Int /\ step_total' \in Int /\ total' \in Int
  BY <1>3, <1>4, <1>5, <1>7
<1>10. Uncut(parts) => step_total' = 0
  <2> SUFFICES ASSUME Uncut(parts) PROVE step_total' = 0
    OBVIOUS
  <2>1. step_total = 0
    BY <1>2 DEF InCall
  <2>2. parts[next].chunk = parts[part].chunk
    <3>1. next \in 1 .. n
      BY <1>7, <1>8
    <3>2. ~(parts[next].chunk > 1) /\ ~(parts[part].chunk > 1)
      BY <1>1, <1>3, <3>1 DEF Uncut
    <3>3. parts[next].chunk \in Nat \ {0} /\ parts[part].chunk \in Nat \ {0}
      BY <1>3, <3>1
    <3> QED
      BY <3>2, <3>3
  <2> QED
    BY <1>7, <2>1, <2>2
<1>11. Blank(parts) => bytes_read' = 0 /\ chunk_total' = 0 /\ step_total' = 0 /\ total' = 0
  <2> SUFFICES ASSUME Blank(parts) PROVE chunk_total' = 0 /\ step_total' = 0 /\ total' = 0
    BY <1>4
  <2>1. chunk_total = 0 /\ step_total = 0 /\ total = 0
    BY <1>2 DEF InCall
  <2>2. ret = 0
    BY <1>2, FilledOrBlank DEF EndStep, PartEnd
  <2>3. chunk = 0 /\ step = 0
    BY <1>4, <2>1, <2>2
  <2> QED
    BY <1>7, <2>1, <2>2, <2>3
<1>12. Filled(parts) => bytes_read' < PartLen(parts, part') /\ (Exact(parts)' \/ Stopped')
  <2> SUFFICES ASSUME Filled(parts)
               PROVE  bytes_read' < PartLen(parts, part') /\ (Exact(parts)' \/ Stopped')
    OBVIOUS
  <2>1. PartLen(parts, part') \in Nat \ {0} /\ PartLen(parts, part) \in Nat \ {0}
    BY <1>1, <1>3, <1>8 DEF Filled
  <2>2. CASE ~Stopped'
    <3>1. ret = PartLen(parts, part) /\ Exact(parts)
      BY <1>2, <2>2, FilledOrBlank DEF EndStep, PartEnd
    <3>2. /\ chunk_total \in Nat /\ step_total \in Nat /\ total \in Nat
          /\ \A upto : BytePath(parts, upto) => chunk_total + step_total + total = upto[part - 1]
      BY <3>1 DEF Exact
    <3>3. ret > 0 /\ ret \in Nat /\ chunk = chunk_total + ret /\ step = step_total + chunk
          /\ part' = part + 1
      BY <1>4, <1>7, <2>1, <3>1
    <3>4. chunk_total' \in Nat /\ step_total' \in Nat /\ total' \in Nat
      BY <1>7, <3>2, <3>3
    <3>5. chunk_total' + step_total' + total' = chunk_total + step_total + total + ret
      BY <1>7, <3>2, <3>3
    <3>6. ASSUME NEW upto, BytePath(parts, upto)
          PROVE  chunk_total' + step_total' + total' = upto[part' - 1]
      <4>1. upto[part] = upto[part - 1] + PartLen(parts, part)
        BY <1>1, <1>3, <3>6 DEF BytePath
      <4>2. chunk_total + step_total + total = upto[part - 1]
        BY <3>2, <3>6
      <4>3. part' - 1 = part
        BY <1>8, <3>3
      <4> QED
        BY <3>1, <3>5, <4>1, <4>2, <4>3
    <3>7. Exact(parts)'
      BY <3>4, <3>6 DEF Exact
    <3> QED
      BY <1>4, <2>1, <3>7
  <2> QED
    BY <1>4, <2>1, <2>2
<1>13. InCall(parts)'
  BY <1>1, <1>4, <1>8, <1>9, <1>10, <1>11, <1>12 DEF InCall
<1>14. ASSUME NEW c \in 1 .. Len(returns), Failed(c)
       PROVE  Stopped' /\ chunk_total' <= 0 /\ step_total' <= 0
  <2>1. Stopped /\ chunk_total <= 0 /\ step_total <= 0
    BY <1>14 DEF EndStep, Reading, Returned
  <2>2. ret <= 0
    BY <1>2, <2>1 DEF EndStep, PartEnd
  <2>3. chunk <= 0 /\ step <= 0
    BY <1>2, <1>3, <1>4, <2>1, <2>2
  <2> QED
    BY <1>2, <1>3, <1>4, <1>5, <1>7, <2>1, <2>2, <2>3 DEF EndStep
<1>15. Returned'
  <2>1. program' = program
    BY DEF EndStep
  <2>2. ASSUME NEW c \in 1 .. Len(returns)
        PROVE  /\ Failed(c)' = Failed(c) /\ Complete(c)' = Complete(c) /\ Cut(c)' = Cut(c)
    BY <2>1 DEF Failed, Complete, Cut, Whole
  <2>3. Returned
    BY DEF EndStep, Reading
  <2> HIDE DEF EndStep, Reading
  <2> QED
    BY <1>14, <2>1, <2>2, <2>3 DEF Returned
<1>16. Call' = Call /\ parts = Parts(Call)
  BY DEF EndStep, Call
<1> QED
  BY <1>9, <1>13, <1>15, <1>16 DEF EndStep, Reading

\* A call that ends returns what all its parts were, or no more than 0 when
\* one before it has failed.
LEMMA ReturnOf ==
  ASSUME NEW parts, NEW ret, NEW arrived, EndStep(parts, ret, arrived), returns' # returns
  PROVE  \E v \in Int :
           /\ returns' = Append(returns, [ret |-> v, got |-> arrived])
           /\ part' = 1 /\ bytes_read' = 0
           /\ chunk_total' = 0 /\ step_total' = 0 /\ total' = 0
           /\ (\E c \in 1 .. Len(returns) : Failed(c)) => Stopped' /\ v <= 0
           /\ \/ Blank(parts) /\ v = 0
              \/ Filled(parts) /\ Stopped' /\ (Uncut(parts) => v \in {0, -1})
              \/ v = ByteLen(parts) /\ v > 0
<1>1. PICK n \in Nat \ {0} : n = Len(parts)
  BY CallParts DEF EndStep, Reading, Returned, Shape
<1>2. Shape(parts) /\ InCall(parts) /\ ret \in Int
  BY CallParts DEF EndStep, Reading, Returned
<1>3. part \in 1 .. n /\ chunk_total \in Int /\ step_total \in Int /\ total \in Int
  BY <1>1, <1>2 DEF InCall
<1>4. PICK next \in part + 1 .. n + 1, chunk, step \in Int :
           /\ chunk = (IF ret > 0 THEN chunk_total + ret ELSE ret) /\ step = step_total + chunk
           /\ ret > 0 => next = part + 1
           /\ bytes_read' = 0
           /\ \/ ret > 0 /\ next <= n /\ SameNext(next, chunk)
              \/ /\ next <= n /\ parts[next].chunk # parts[part].chunk
                 /\ ChunkNext(next, step)
              \/ next <= n /\ StepNext(next, step)
              \/ /\ ~(next <= n /\ step > 0)
                 /\ CallEnds(IF step > 0 THEN total + step ELSE step, arrived)
  BY SMTT(60), <1>1, <1>2, <1>3, EndPartCases DEF EndStep
<1>5. ~(next <= n /\ step > 0) /\ CallEnds(IF step > 0 THEN total + step ELSE step, arrived)
  BY <1>4 DEF SameNext, ChunkNext, StepNext
<1>6. PICK v \in Int : v = IF step > 0 THEN total + step ELSE step
  BY <1>3
<1>7. /\ returns' = Append(returns, [ret |-> v, got |-> arrived])
      /\ part' = 1 /\ bytes_read' = 0
      /\ chunk_total' = 0 /\ step_total' = 0 /\ total' = 0
  BY <1>4, <1>5, <1>6 DEF CallEnds
<1>8. ASSUME NEW c \in 1 .. Len(returns), Failed(c) PROVE Stopped' /\ v <= 0
  <2>1. Stopped /\ chunk_total <= 0 /\ step_total <= 0
    BY <1>8 DEF EndStep, Reading, Returned
  <2>2. ret <= 0
    BY <1>2, <2>1 DEF EndStep, PartEnd
  <2>3. step <= 0
    BY <1>2, <1>3, <1>4, <2>1, <2>2
  <2> QED
    BY <1>6, <2>1, <2>3 DEF EndStep
<1>9. CASE ret = 0 /\ Blank(parts)
  <2>1. chunk_total = 0 /\ step_total = 0 /\ total = 0
    BY <1>2, <1>9 DEF InCall
  <2>2. v = 0
    BY <1>4, <1>6, <1>9, <2>1
  <2> QED
    BY <1>7, <1>8, <1>9, <2>2
<1>10. CASE ret \in {0, -1} /\ Filled(parts) /\ Stopped /\ Stopped'
  <2>1. Uncut(parts) => v \in {0, -1}
    <3> SUFFICES ASSUME Uncut(parts) PROVE v \in {0, -1}
      OBVIOUS
    <3>1. step_total = 0
      BY <1>2 DEF InCall
    <3>2. step = ret
      BY <1>4, <1>10, <3>1
    <3> QED
      BY <1>6, <1>10, <3>2
  <2> QED
    BY <1>7, <1>8, <1>10, <2>1
<1>11. CASE ret = PartLen(parts, part) /\ Filled(parts) /\ Exact(parts) /\ ~Stopped
  <2>1. PICK upto : BytePath(parts, upto) /\ ByteLen(parts) = upto[n]
    BY <1>1, <1>2, ByteLenRec
  <2>2. /\ chunk_total \in Nat /\ step_total \in Nat /\ total \in Nat
        /\ chunk_total + step_total + total = upto[part - 1]
    BY <1>11, <2>1 DEF Exact
  <2>3. PartLen(parts, part) \in Nat \ {0}
    BY <1>1, <1>3, <1>11 DEF Filled
  <2>4. ret > 0 /\ step = step_total + chunk_total + ret /\ step > 0
    BY <1>4, <1>11, <2>2, <2>3
  <2>5. part = n
    BY <1>1, <1>3, <1>4, <1>5, <2>4
  <2>6. upto[n] = upto[n - 1] + PartLen(parts, n)
    <3>1. n \in 1 .. Len(parts)
      BY <1>1
    <3> QED
      BY <2>1, <3>1 DEF BytePath
  <2>7. v = ByteLen(parts) /\ v > 0
    BY <1>6, <1>11, <2>1, <2>2, <2>3, <2>4, <2>5, <2>6
  <2> QED
    BY <1>7, <1>8, <2>7
<1> QED
  BY <1>9, <1>10, <1>11 DEF EndStep, PartEnd

\* So a call that ends leaves the calls as they have to be.
LEMMA Ends ==
  ASSUME NEW parts, NEW ret, NEW arrived, EndStep(parts, ret, arrived), returns' # returns
  PROVE  Reading'
<1>1. PICK v \in Int :
           /\ returns' = Append(returns, [ret |-> v, got |-> arrived])
           /\ part' = 1 /\ bytes_read' = 0
           /\ chunk_total' = 0 /\ step_total' = 0 /\ total' = 0
           /\ (\E c \in 1 .. Len(returns) : Failed(c)) => Stopped' /\ v <= 0
           /\ \/ Blank(parts) /\ v = 0
              \/ Filled(parts) /\ Stopped' /\ (Uncut(parts) => v \in {0, -1})
              \/ v = ByteLen(parts) /\ v > 0
  BY ReturnOf
<1>2. /\ program' = program /\ program \in Programs /\ parts = Parts(Call) /\ Returned
      /\ read' \in Nat /\ written' \in Nat /\ read' <= written'
  BY DEF EndStep, Reading
<1>3. /\ Len(returns) + 1 \in 1 .. Len(program) /\ Len(program) \in Nat
      /\ DOMAIN program = 1 .. Len(program) /\ Shape(parts)
  BY <1>2, CallParts DEF EndStep, Reading, Returned
<1>0. PICK S : returns \in Seq(S)
  BY <1>2 DEF Returned
<1>4. PICK m \in Nat : m = Len(returns) /\ returns \in Seq(S)
  BY <1>0
<1>5. PICK r : r = [ret |-> v, got |-> arrived]
  OBVIOUS
<1> DEFINE T == S \cup {r}
<1>6. /\ returns' \in Seq(T) /\ Len(returns') = m + 1
      /\ returns'[m + 1] = r /\ \A c \in 1 .. m : returns'[c] = returns[c]
  <2>1. returns \in Seq(T) /\ r \in T
    BY <1>4
  <2> HIDE DEF T
  <2> QED
    BY <1>1, <1>4, <1>5, <2>1, AppendProperties
<1>7. ASSUME NEW c \in 1 .. m
      PROVE  /\ Failed(c)' = Failed(c) /\ Complete(c)' = Complete(c) /\ Cut(c)' = Cut(c)
             /\ returns'[c].ret = returns[c].ret
  <2>1. returns'[c] = returns[c]
    BY <1>6
  <2> QED
    BY <1>2, <2>1 DEF Failed, Complete, Cut, Whole
<1>8. /\ Whole(m + 1)' = ByteLen(parts) /\ returns'[m + 1].ret = v
      /\ Cut(m + 1)' = ~Uncut(parts)
  <2>1. parts = Parts(program[m + 1])
    BY <1>2, <1>4 DEF Call
  <2>2. DOMAIN parts = 1 .. Len(parts)
    BY <1>3 DEF Shape
  <2>3. returns'[m + 1].ret = v
    BY <1>5, <1>6
  <2> QED
    BY <1>2, <2>1, <2>2, <2>3 DEF Whole, Cut, Uncut
<1>9. Failed(m + 1)' => Stopped'
  <2>1. Blank(parts) => ByteLen(parts) = 0
    BY <1>3, BlankLen
  <2>2. v = ByteLen(parts) /\ v > 0 => Complete(m + 1)'
    BY <1>8 DEF Complete
  <2> QED
    BY <1>1, <1>8, <2>1, <2>2 DEF Failed
<1>10. ~Cut(m + 1)' /\ ~Complete(m + 1)' => v \in {0, -1}
  <2>1. v = ByteLen(parts) /\ v > 0 => Complete(m + 1)'
    BY <1>8 DEF Complete
  <2> QED
    BY <1>1, <1>8, <2>1
<1>11. ASSUME NEW c \in 1 .. m
       PROVE  /\ returns'[c].ret \in Int
              /\ Failed(c)' => /\ Stopped'
                               /\ \A d \in c + 1 .. m + 1 : returns'[d].ret <= 0
              /\ ~Cut(c)' /\ ~Complete(c)' => returns'[c].ret \in {0, -1}
  <2>1. /\ returns[c].ret \in Int
        /\ Failed(c) => /\ Stopped
                        /\ \A d \in c + 1 .. m : returns[d].ret <= 0
        /\ ~Cut(c) /\ ~Complete(c) => returns[c].ret \in {0, -1}
    BY <1>2, <1>4 DEF Returned
  <2>2. ASSUME Failed(c), NEW d \in c + 1 .. m + 1 PROVE returns'[d].ret <= 0
    <3>1. CASE d = m + 1
      BY <1>1, <1>4, <1>8, <2>2, <3>1
    <3>2. CASE d # m + 1
      <4>1. d \in 1 .. m /\ d \in c + 1 .. m
        BY <3>2
      <4> QED
        BY <1>7, <2>1, <2>2, <4>1
    <3> QED
      BY <3>1, <3>2
  <2>3. Failed(c) => Stopped'
    BY <1>1, <1>4
  <2> QED
    BY <1>7, <2>1, <2>2, <2>3
<1>12. Returned'
  <2>1. \E U : returns' \in Seq(U)
    BY <1>6
  <2>2. Len(returns') <= Len(program')
    BY <1>2, <1>3, <1>4, <1>6
  <2>3. ASSUME NEW c \in 1 .. m + 1
        PROVE  /\ returns'[c].ret \in Int
               /\ Failed(c)' => /\ Stopped'
                                /\ \A d \in c + 1 .. m + 1 : returns'[d].ret <= 0
               /\ ~Cut(c)' /\ ~Complete(c)' => returns'[c].ret \in {0, -1}
    <3>1. CASE c = m + 1
      <4>1. c + 1 .. m + 1 = {}
        BY <3>1
      <4> QED
        BY <1>8, <1>9, <1>10, <3>1, <4>1
    <3>2. CASE c # m + 1
      <4>1. c \in 1 .. m
        BY <3>2
      <4> QED
        BY <1>11, <4>1
    <3> QED
      BY <3>1, <3>2
  <2>4. chunk_total' <= 0 /\ step_total' <= 0
    BY <1>1
  <2> QED
    BY <1>6, <2>1, <2>2, <2>3, <2>4 DEF Returned
<1>13. ~Ended' => InCall(Parts(Call))'
  <2> SUFFICES ASSUME ~Ended' PROVE InCall(Parts(Call))'
    OBVIOUS
  <2>1. PICK next : next = Parts(Call)'
    OBVIOUS
  <2>2. m + 1 # Len(program)
    BY <1>2, <1>6 DEF Ended
  <2>3. m + 2 \in DOMAIN program
    <3>1. PICK l \in Nat : l = Len(program)
      BY ZenonT(60), <1>3
    <3>2. m + 1 \in 1 .. l /\ m + 1 # l
      BY <1>3, <1>4, <2>2, <3>1
    <3>3. m + 2 \in 1 .. l
      BY <3>2
    <3> QED
      BY SMTT(60), <1>3, <3>1, <3>3
  <2>4. next = Parts(program[m + 2])
    <3>1. (m + 1) + 1 = m + 2
      OBVIOUS
    <3> QED
      BY <1>2, <1>6, <2>1, <3>1 DEF Call
  <2>5. Shape(next)
    BY SMTT(60), <1>2, <2>3, <2>4, PartsShape
  <2>6. PICK k \in Nat \ {0} : k = Len(next)
    BY <2>5 DEF Shape
  <2>7. Exact(next)'
    <3>1. ASSUME NEW upto, BytePath(next, upto)
          PROVE  chunk_total' + step_total' + total' = upto[part' - 1]
      <4>1. upto[0] = 0
        BY <3>1 DEF BytePath
      <4>2. part' - 1 = 0 /\ chunk_total' + step_total' + total' = 0
        BY <1>1
      <4> QED
        BY <4>1, <4>2
    <3> QED
      BY <1>1, <3>1 DEF Exact
  <2>8. Filled(next) => bytes_read' < PartLen(next, part')
    BY <1>1, <2>6 DEF Filled
  <2>9. InCall(next)'
    BY <1>1, <2>6, <2>7, <2>8 DEF InCall
  <2> QED
    BY <2>1, <2>9
<1> QED
  BY <1>1, <1>2, <1>12, <1>13 DEF Reading

-----------------------------------------------------------------------------
(* The steps *)

\* A part that ends in one of the ways it can leaves everything in order.
LEMMA PartEnds ==
  ASSUME NEW parts, NEW ret, NEW arrived, EndStep(parts, ret, arrived)
  PROVE  Reading'
  BY GoesOn, Ends

\* What a step finds when a call is not over.
LEMMA Asked ==
  ASSUME Reading, ~Ended
  PROVE  /\ Shape(Parts(Call)) /\ InCall(Parts(Call))
         /\ part \in 1 .. Len(Parts(Call)) /\ bytes_read \in Nat
         /\ Want = PartLen(Parts(Call), part) - bytes_read
         /\ Filled(Parts(Call)) => Want \in Nat \ {0}
         /\ Blank(Parts(Call)) => Want = 0
         /\ Arrived \in Nat
<1>1. PICK parts : parts = Parts(Call)
  OBVIOUS
<1>2. Shape(parts) /\ InCall(parts)
  BY <1>1, CallParts DEF Reading, Returned
<1>3. part \in 1 .. Len(parts) /\ bytes_read \in Nat
  BY <1>2 DEF InCall
<1>4. Want = PartLen(parts, part) - bytes_read
  BY <1>1 DEF Want, PartLen
<1>5. Filled(parts) => Want \in Nat \ {0}
  <2> SUFFICES ASSUME Filled(parts) PROVE Want \in Nat \ {0}
    OBVIOUS
  <2>1. PartLen(parts, part) \in Nat \ {0}
    BY <1>3 DEF Filled
  <2>2. bytes_read < PartLen(parts, part)
    BY <1>2 DEF InCall
  <2> QED
    BY <1>3, <1>4, <2>1, <2>2
<1>6. Blank(parts) => Want = 0
  BY <1>2, <1>3, <1>4 DEF InCall, Blank
<1>7. Arrived \in Nat
  BY DEF Reading, Arrived
<1> QED
  BY <1>1, <1>2, <1>3, <1>4, <1>5, <1>6, <1>7

\* Only the stream moves, or a part's count: the calls stay as they are.
LEMMA SameCalls ==
  ASSUME Reading, program' = program, returns' = returns, part' = part,
         chunk_total' = chunk_total, step_total' = step_total, total' = total,
         read' \in Nat, written' \in Nat, read' <= written', Stopped => Stopped',
         \/ bytes_read' = bytes_read
         \/ /\ ~Ended /\ Filled(Parts(Call))
            /\ bytes_read' \in 0 .. PartLen(Parts(Call), part) - 1
  PROVE  Reading'
<1>1. Returned'
  <2>1. ASSUME NEW c \in 1 .. Len(returns)
        PROVE  /\ Failed(c)' = Failed(c) /\ Complete(c)' = Complete(c) /\ Cut(c)' = Cut(c)
    BY DEF Failed, Complete, Cut, Whole
  <2> QED
    BY <2>1 DEF Reading, Returned
<1>2. ~Ended' => InCall(Parts(Call))'
  <2> SUFFICES ASSUME ~Ended PROVE InCall(Parts(Call))'
    BY DEF Ended
  <2>1. PICK parts : parts = Parts(Call)
    OBVIOUS
  <2>2. parts = Parts(Call)'
    BY <2>1 DEF Call
  <2>3. Shape(parts) /\ InCall(parts)
    BY <2>1, Asked
  <2>4. Exact(parts) => Exact(parts)'
    BY DEF Exact
  <2>5. part \in 1 .. Len(parts) /\ bytes_read \in Nat
    BY <2>3 DEF InCall
  <2>6. CASE bytes_read' = bytes_read
    <3>1. InCall(parts)'
      BY <2>3, <2>4, <2>6 DEF InCall
    <3> QED
      BY <2>2, <3>1
  <2>7. CASE Filled(parts) /\ bytes_read' \in 0 .. PartLen(parts, part) - 1
    <3>1. PartLen(parts, part) \in Nat
      BY <2>5, <2>7 DEF Filled
    <3>2. bytes_read' \in Nat /\ bytes_read' < PartLen(parts, part)
      BY <2>7, <3>1
    <3>3. ~Blank(parts)
      BY <2>3, <2>7, FilledOrBlank
    <3>4. InCall(parts)'
      BY <2>3, <2>4, <3>2, <3>3 DEF InCall
    <3> QED
      BY <2>2, <3>4
  <2> QED
    BY <2>1, <2>6, <2>7
<1> QED
  BY <1>1, <1>2 DEF Reading

\* A connection begins in order,
LEMMA ReadingInit ==
  ASSUME Init
  PROVE  Reading
<1>1. returns = <<>> /\ program \in Programs
  BY DEF Init
<1>2. Len(returns) = 0 /\ returns \in Seq({}) /\ 1 .. Len(returns) = {}
  BY <1>1
<1>3. Len(program) \in Nat /\ DOMAIN program = 1 .. Len(program)
  BY <1>1, ProgramsAssumption
<1>4. Returned
  <2>1. \E S : returns \in Seq(S)
    BY <1>2
  <2> QED
    BY <1>2, <1>3, <2>1 DEF Returned
<1>5. ~Ended => InCall(Parts(Call))
  <2> SUFFICES ASSUME ~Ended PROVE InCall(Parts(Call))
    OBVIOUS
  <2>1. PICK parts : parts = Parts(Call)
    OBVIOUS
  <2>2. Shape(parts)
    BY <1>1, <1>2, <1>3, <2>1, CallParts
  <2>3. part = 1 /\ bytes_read = 0 /\ chunk_total = 0 /\ step_total = 0 /\ total = 0
    BY DEF Init
  <2>4. PICK k \in Nat \ {0} : k = Len(parts)
    BY <2>2 DEF Shape
  <2>5. Exact(parts)
    <3>1. ASSUME NEW upto, BytePath(parts, upto)
          PROVE  chunk_total + step_total + total = upto[part - 1]
      <4>1. upto[0] = 0
        BY <3>1 DEF BytePath
      <4>2. part - 1 = 0 /\ chunk_total + step_total + total = 0
        BY <2>3
      <4> QED
        BY <4>1, <4>2
    <3> QED
      BY <2>3, <3>1 DEF Exact
  <2>6. Filled(parts) => bytes_read < PartLen(parts, part)
    BY <2>3, <2>4 DEF Filled
  <2>7. InCall(parts)
    BY <2>3, <2>4, <2>5, <2>6 DEF InCall
  <2> QED
    BY <2>1, <2>7
<1> QED
  BY <1>1, <1>4, <1>5 DEF Init, Reading

\* the sender's steps leave it so,
LEMMA SenderKeeps ==
  ASSUME Reading, Deliver \/ Exit
  PROVE  Reading'
<1>1. CASE Deliver
  <2>1. ~Stopped
    BY <1>1 DEF Deliver, Stopped
  <2>2. written' \in Nat /\ read' \in Nat /\ read' <= written'
    BY <1>1 DEF Deliver, Reading
  <2> QED
    BY <1>1, <2>1, <2>2, SameCalls DEF Deliver
<1>2. CASE Exit
  <2>1. ~Stopped
    BY <1>2 DEF Exit, Stopped
  <2>2. written' \in Nat /\ read' \in Nat /\ read' <= written'
    BY <1>2 DEF Exit, Reading
  <2> QED
    BY <1>2, <2>1, <2>2, SameCalls DEF Exit
<1> QED
  BY <1>1, <1>2

\* and so do the reader's.
LEMMA ReaderKeeps ==
  ASSUME Reading, Reader
  PROVE  Reading'
<1>1. ~Ended
  BY DEF Reader, RecvSome, RecvNothing, RecvEof, RecvError
<1>2. PICK parts : parts = Parts(Call)
  OBVIOUS
<1>3. /\ Shape(parts) /\ InCall(parts)
      /\ part \in 1 .. Len(parts) /\ bytes_read \in Nat
      /\ Want = PartLen(parts, part) - bytes_read
      /\ Filled(parts) => Want \in Nat \ {0}
      /\ Blank(parts) => Want = 0
      /\ Arrived \in Nat
  BY <1>1, <1>2, Asked
<1>4. Filled(parts) \/ Blank(parts)
  BY <1>3 DEF Shape
<1>5. Arrived = 0 => read = written
  BY DEF Reading, Arrived
<1>6. read \in Nat /\ written \in Nat /\ read <= written
  BY DEF Reading
<1>7. CASE RecvSome
  <2>1. PICK n \in 1 .. Arrived :
          /\ n <= Want
          /\ read' = read + n
          /\ IF n < Want
             THEN /\ bytes_read' = bytes_read + n
                  /\ UNCHANGED <<returns, part, got, chunk_total, step_total, total>>
             ELSE EndPart(bytes_read + n,
                          Append(got, SubSeq(Stream, read' - bytes_read - n + 1, read')))
    BY <1>7 DEF RecvSome
  <2>2. program' = program /\ written' = written /\ sender' = sender
    BY <1>7 DEF RecvSome
  <2>3. n \in Nat \ {0} /\ n <= written - read
    BY <1>3, <2>1 DEF Arrived
  <2>4. read' \in Nat /\ written' \in Nat /\ read' <= written' /\ ~Stopped
    BY <1>6, <2>1, <2>2, <2>3 DEF Stopped
  <2>5. Filled(parts) /\ Want \in Nat \ {0}
    BY <1>3, <1>4, <2>1, <2>3
  <2>6. PartLen(parts, part) \in Nat \ {0}
    BY <1>3, <2>5 DEF Filled
  <2>7. CASE n < Want
    <3>1. bytes_read' \in 0 .. PartLen(parts, part) - 1
      BY <1>3, <2>1, <2>3, <2>5, <2>6, <2>7
    <3>2. UNCHANGED <<returns, part, got, chunk_total, step_total, total>>
      BY <2>1, <2>7
    <3> QED
      BY <1>1, <1>2, <2>2, <2>4, <2>5, <3>1, <3>2, SameCalls
  <2>8. CASE ~(n < Want)
    <3>1. bytes_read + n = PartLen(parts, part)
      BY SMTT(40), <1>3, <2>1, <2>3, <2>5, <2>6, <2>8
    <3>2. Exact(parts)
      BY <1>3, <2>4, <2>5 DEF InCall
    <3>3. PICK arrived : EndPart(bytes_read + n, arrived)
      BY <2>1, <2>8
    <3>4. PICK ret \in Int : ret = bytes_read + n
      BY <1>3, <2>3
    <3>5. EndStep(parts, ret, arrived)
      BY <1>1, <1>2, <2>2, <2>4, <2>5, <3>1, <3>2, <3>3, <3>4 DEF EndStep, PartEnd
    <3> QED
      BY <3>5, PartEnds
  <2> QED
    BY <2>7, <2>8
<1>8. CASE RecvNothing
  <2>1. Want = 0 /\ EndPart(0, Append(got, <<>>)) /\ UNCHANGED <<program, written, sender, read>>
    BY <1>8 DEF RecvNothing
  <2>2. Blank(parts)
    BY <1>3, <1>4, <2>1
  <2>3. Stopped => Stopped'
    BY <2>1 DEF Stopped
  <2>4. EndStep(parts, 0, Append(got, <<>>))
    BY <1>1, <1>2, <1>6, <2>1, <2>2, <2>3 DEF EndStep, PartEnd
  <2> QED
    BY <2>4, PartEnds
<1>9. CASE RecvEof
  <2>1. /\ Want > 0 /\ sender = "closed" /\ Arrived = 0
        /\ EndPart(0, got) /\ UNCHANGED <<program, written, sender, read>>
    BY <1>9 DEF RecvEof
  <2>2. Filled(parts)
    BY <1>3, <1>4, <2>1
  <2>3. Stopped /\ Stopped'
    BY <1>5, <2>1 DEF Stopped
  <2>4. EndStep(parts, 0, got)
    BY <1>1, <1>2, <1>6, <2>1, <2>2, <2>3 DEF EndStep, PartEnd
  <2> QED
    BY <2>4, PartEnds
<1>10. CASE RecvError
  <2>1. /\ Want > 0 /\ sender = "reset" /\ Arrived = 0 /\ sender' = "closed"
        /\ UNCHANGED <<program, written, read>>
    BY <1>10 DEF RecvError
  <2>2. Filled(parts)
    BY <1>3, <1>4, <2>1
  <2>3. Stopped /\ Stopped'
    BY <1>5, <2>1 DEF Stopped
  <2>4. CASE bytes_read = 0
    <3>1. EndPart(-1, got)
      BY <1>10, <2>4 DEF RecvError
    <3>2. EndStep(parts, -1, got)
      BY <1>1, <1>2, <1>6, <2>1, <2>2, <2>3, <3>1 DEF EndStep, PartEnd
    <3> QED
      BY <3>2, PartEnds
  <2>5. CASE bytes_read # 0
    <3>1. /\ bytes_read' = bytes_read - 1
          /\ UNCHANGED <<returns, part, got, chunk_total, step_total, total>>
      BY <1>10, <2>5 DEF RecvError
    <3>2. PartLen(parts, part) \in Nat \ {0} /\ bytes_read < PartLen(parts, part)
      BY <1>3, <2>2 DEF Filled, InCall
    <3>3. bytes_read' \in 0 .. PartLen(parts, part) - 1
      BY <1>3, <2>5, <3>1, <3>2
    <3> QED
      BY <1>1, <1>2, <1>6, <2>1, <2>2, <2>3, <3>1, <3>3, SameCalls
  <2> QED
    BY <2>4, <2>5
<1> QED
  BY <1>7, <1>8, <1>9, <1>10 DEF Reader

\* In every reachable state each finished call returned the length of what its
\* counterpart sent, or something failed and nothing is left to read; and the
\* totals of the call under way add up to the parts that arrived.
THEOREM ReadingInOrder == Spec => []Reading
<1>1. Init => Reading
  BY ReadingInit
<1>2. Reading /\ [Next]_vars => Reading'
  <2>1. ASSUME Reading, Next PROVE Reading'
    BY <2>1, SenderKeeps, ReaderKeeps DEF Next
  <2>2. ASSUME Reading, UNCHANGED vars PROVE Reading'
    <3>1. Stopped => Stopped'
      BY <2>2 DEF vars, Stopped
    <3>2. read' \in Nat /\ written' \in Nat /\ read' <= written'
      BY <2>2 DEF vars, Reading
    <3> QED
      BY <2>2, <3>1, <3>2, SameCalls DEF vars
  <2> QED
    BY <2>1, <2>2
<1> QED
  BY <1>1, <1>2, PTL DEF Spec

\* A batch within its maximum is read whole or its call returns 0 or -1.
THEOREM WholeOrFailed == Spec => []WholeOrFailure
<1>1. Reading => WholeOrFailure
  <2> SUFFICES ASSUME Reading PROVE WholeOrFailure
    OBVIOUS
  <2>1. DOMAIN returns = 1 .. Len(returns)
    BY DEF Reading, Returned
  <2> QED
    BY <2>1 DEF Reading, Returned, WholeOrFailure
<1> QED
  BY <1>1, ReadingInOrder, PTL

\* After a call that failed no call reads anything.
THEOREM FailureIsFinal == Spec => []EndIsFinal
<1>1. Reading => EndIsFinal
  <2> SUFFICES ASSUME Reading, NEW c \in DOMAIN returns, NEW d \in DOMAIN returns,
                      c < d, Whole(c) > 0, ~Complete(c)
               PROVE  returns[d].ret <= 0
    BY DEF EndIsFinal
  <2>1. DOMAIN returns = 1 .. Len(returns) /\ Len(returns) \in Nat
    BY DEF Reading, Returned
  <2>2. Failed(c)
    BY DEF Failed
  <2>3. d \in c + 1 .. Len(returns)
    BY <2>1
  <2> QED
    BY <2>1, <2>2, <2>3 DEF Reading, Returned
<1> QED
  BY <1>1, ReadingInOrder, PTL

-----------------------------------------------------------------------------
(* Where the parts and the calls lie in the stream *)

\* How long the first k of a series of sequences are.
Upto(ss, k) == Len(FlattenSeq(SubSeq(ss, 1, k)))

\* One more is longer by its length.
LEMMA UptoRec ==
  ASSUME NEW S, NEW ss \in Seq(Seq(S))
  PROVE  /\ Upto(ss, 0) = 0
         /\ \A k \in 0 .. Len(ss) : Upto(ss, k) \in Nat
         /\ \A k \in 1 .. Len(ss) : Upto(ss, k) = Upto(ss, k - 1) + Len(ss[k])
<1>0. PICK n \in Nat : n = Len(ss)
  OBVIOUS
<1>1. PICK V : n = Len(ss) /\ V = Seq(S)
  BY <1>0
<1>2. Upto(ss, 0) = 0
  <2>1. SubSeq(ss, 1, 0) = <<>>
    BY SubSeqEmpty
  <2>2. FlattenSeq(<<>>) = <<>> /\ Len(<<>>) = 0
    BY DEF FlattenSeq
  <2> QED
    BY <2>1, <2>2 DEF Upto
<1>3. ASSUME NEW k \in 0 .. n PROVE SubSeq(ss, 1, k) \in Seq(V)
  <2>1. \A i \in 1 .. k : ss[i] \in V
    BY <1>1
  <2> QED
    BY <2>1, SubSeqProperties
<1>4. ASSUME NEW k \in 0 .. n
      PROVE FlattenSeq(SubSeq(ss, 1, k)) \in Seq(S) /\ Upto(ss, k) \in Nat
  <2>1. FlattenSeq(SubSeq(ss, 1, k)) \in Seq(S)
    BY <1>1, <1>3, FlattenSnoc, EmptySeq
  <2> QED
    BY <2>1 DEF Upto
<1>5. ASSUME NEW k \in 1 .. n PROVE Upto(ss, k) = Upto(ss, k - 1) + Len(ss[k])
  <2>1. PICK j \in Nat : j = k - 1 /\ k = j + 1 /\ j + 1 <= Len(ss) /\ j \in 0 .. n
    BY <1>1
  <2>2. PICK u, t : u = SubSeq(ss, 1, j) /\ t = ss[k]
    OBVIOUS
  <2>3. u \in Seq(V) /\ t \in V /\ SubSeq(ss, 1, k) = Append(u, t)
    BY <1>1, <2>1, <2>2, FrontSnoc
  <2>4. FlattenSeq(u) \in Seq(S) /\ FlattenSeq(SubSeq(ss, 1, k)) = FlattenSeq(u) \o t
    BY <1>1, <2>3, FlattenSnoc
  <2>5. Len(FlattenSeq(u) \o t) = Len(FlattenSeq(u)) + Len(t)
    BY <1>1, <2>3, <2>4, ConcatProperties
  <2> QED
    BY <2>1, <2>2, <2>4, <2>5 DEF Upto
<1> QED
  BY <1>1, <1>2, <1>4, <1>5

\* It grows with k.
LEMMA UptoGrows ==
  ASSUME NEW S, NEW ss \in Seq(Seq(S)), NEW i \in 0 .. Len(ss), NEW j \in i .. Len(ss)
  PROVE  Upto(ss, i) <= Upto(ss, j)
<1>1. PICK n \in Nat : n = Len(ss)
  OBVIOUS
<1> DEFINE P == {k \in Nat : k \in i .. n => Upto(ss, i) <= Upto(ss, k)}
<1>2. \A k \in 0 .. n : Upto(ss, k) \in Nat
  BY <1>1, UptoRec
<1>3. 0 \in P
  BY <1>1, <1>2
<1>4. ASSUME NEW k \in Nat, k \in P PROVE k + 1 \in P
  <2> SUFFICES ASSUME k + 1 \in i .. n PROVE Upto(ss, i) <= Upto(ss, k + 1)
    OBVIOUS
  <2>1. CASE k + 1 = i
    BY <1>1, <1>2, <2>1
  <2>2. CASE k + 1 # i
    <3>1. k \in i .. n /\ k \in 0 .. n /\ k + 1 \in 1 .. n /\ (k + 1) - 1 = k /\ i \in 0 .. n
      BY <1>1, <2>2
    <3>2. Upto(ss, i) <= Upto(ss, k)
      BY <1>4, <3>1
    <3>3. Upto(ss, k + 1) = Upto(ss, (k + 1) - 1) + Len(ss[k + 1])
      BY <1>1, <3>1, UptoRec
    <3>4. PICK t \in Seq(S) : t = ss[k + 1]
      BY <1>1, <3>1
    <3>5. Len(ss[k + 1]) \in Nat
      BY <3>4
    <3> QED
      BY SMTT(60), <1>2, <3>1, <3>2, <3>3, <3>5
  <2> QED
    BY <2>1, <2>2
<1> HIDE DEF P
<1>5. Nat \subseteq P
  BY <1>3, <1>4, Induct
<1>6. j \in P /\ j \in i .. n
  BY <1>1, <1>5
<1> QED
  BY <1>6 DEF P

\* Where what is in them comes to lie.
LEMMA FlattenIn ==
  ASSUME NEW S, NEW ss \in Seq(Seq(S)), NEW i \in 1 .. Len(ss), NEW j \in 1 .. Len(ss[i])
  PROVE  /\ FlattenSeq(ss)[Upto(ss, i - 1) + j] = ss[i][j]
         /\ Upto(ss, i - 1) + j \in 1 .. Len(FlattenSeq(ss))
<1>0. PICK n \in Nat : n = Len(ss)
  OBVIOUS
<1>1. PICK V : n = Len(ss) /\ V = Seq(S) /\ ss \in Seq(V)
  BY <1>0
<1>2. PICK k \in Nat : k = i - 1 /\ i = k + 1 /\ k + 1 <= Len(ss)
  BY <1>1
<1>3. PICK u, t, v, w : /\ u = SubSeq(ss, 1, k) /\ t = ss[i] /\ v = SubSeq(ss, 1, i)
                        /\ w = SubSeq(ss, i + 1, n)
  OBVIOUS
<1>4. u \in Seq(V) /\ t \in V /\ v = Append(u, t)
  BY <1>1, <1>2, <1>3, FrontSnoc
<1>5. v \in Seq(V)
  BY <1>4, AppendProperties
<1>6. w \in Seq(V) /\ v \o w = ss
  <2>1. \A x \in i + 1 .. n : ss[x] \in V
    BY <1>1
  <2>2. SubSeq(ss, i + 1, n) \in Seq(V)
    BY <1>1, <2>1, SubSeqProperties
  <2>3. 1 \in 1 .. Len(ss) + 1 /\ i \in 1 - 1 .. Len(ss) /\ n \in i .. Len(ss)
    BY <1>1
  <2>4. SubSeq(ss, 1, i) \o SubSeq(ss, i + 1, n) = SubSeq(ss, 1, n)
    BY <1>1, <2>3, ConcatAdjacentSubSeq
  <2>5. SubSeq(ss, 1, n) = ss
    BY <1>1, SubSeqFull
  <2> QED
    BY <1>3, <2>2, <2>4, <2>5
<1>7. PICK fu, fv, fw : fu = FlattenSeq(u) /\ fv = FlattenSeq(v) /\ fw = FlattenSeq(w)
  OBVIOUS
<1>8. /\ fu \in Seq(S) /\ fv = fu \o t /\ t \in Seq(S) /\ fw \in Seq(S)
      /\ FlattenSeq(ss) = fv \o fw
  <2>1. fu \in Seq(S) /\ fv = fu \o t
    BY <1>1, <1>4, <1>7, FlattenSnoc
  <2>2. fw \in Seq(S)
    BY <1>1, <1>6, <1>7, FlattenSnoc, EmptySeq
  <2>3. FlattenSeq(ss) = fv \o fw
    BY <1>1, <1>5, <1>6, <1>7, FlattenConcat
  <2> QED
    BY <1>1, <1>4, <2>1, <2>2, <2>3
<1>9. PICK a \in Nat, b \in Nat, c \in Nat : a = Len(fu) /\ b = Len(t) /\ c = Len(fw)
  BY <1>8
<1>10. /\ fv \in Seq(S) /\ Len(fv) = a + b
       /\ \A x \in 1 .. a + b : fv[x] = IF x <= a THEN fu[x] ELSE t[x - a]
  <2>1. fu \o t \in Seq(S) /\ Len(fu \o t) = Len(fu) + Len(t)
    BY <1>8, ConcatProperties
  <2>2. \A x \in 1 .. Len(fu) + Len(t) : (fu \o t)[x] = IF x <= Len(fu) THEN fu[x] ELSE t[x - Len(fu)]
    BY <1>8, ConcatProperties
  <2> QED
    <3>1. fv \in Seq(S) /\ Len(fv) = a + b
      BY <1>8, <1>9, <2>1
    <3>2. \A x \in 1 .. a + b : (fu \o t)[x] = IF x <= a THEN fu[x] ELSE t[x - a]
      BY <1>9, <2>2
    <3> QED
      BY <1>8, <3>1, <3>2
<1>11. /\ Len(fv \o fw) = a + b + c
       /\ \A x \in 1 .. a + b : (fv \o fw)[x] = fv[x]
  <2>0. fv \in Seq(S) /\ fw \in Seq(S)
    BY <1>8, <1>10
  <2>1. Len(fv \o fw) = Len(fv) + Len(fw)
    BY <2>0, ConcatProperties
  <2>2. \A x \in 1 .. Len(fv) + Len(fw) : (fv \o fw)[x] = IF x <= Len(fv) THEN fv[x] ELSE fw[x - Len(fv)]
    BY <2>0, ConcatProperties
  <2> QED
    BY <1>9, <1>10, <2>1, <2>2
<1>12. /\ a + j \in 1 .. a + b /\ a + j \in 1 .. a + b + c /\ ~(a + j <= a) /\ (a + j) - a = j
  BY SMTT(60), <1>3, <1>9
<1>13. Upto(ss, i - 1) = a
  BY <1>2, <1>3, <1>7, <1>9 DEF Upto
<1>14. fv[a + j] = t[j] /\ (fv \o fw)[a + j] = fv[a + j]
  BY <1>10, <1>11, <1>12
<1> QED
  BY <1>3, <1>8, <1>11, <1>12, <1>13, <1>14

\* All of them are as long as they are together.
LEMMA UptoAll ==
  ASSUME NEW S, NEW ss \in Seq(Seq(S))
  PROVE  Upto(ss, Len(ss)) = Len(FlattenSeq(ss))
<1>1. PICK V : V = Seq(S) /\ ss \in Seq(V)
  OBVIOUS
<1>2. SubSeq(ss, 1, Len(ss)) = ss
  BY <1>1, SubSeqFull
<1> QED
  BY <1>2 DEF Upto

\* What the sender writes for each call.
Calls == [c \in DOMAIN program |-> FlattenSeq(Bytes(Parts(program[c])))]

\* Together they are the stream.
LEMMA CallsStream ==
  ASSUME program \in Programs
  PROVE  /\ Calls \in Seq(Seq(Int)) /\ Len(Calls) = Len(program)
         /\ Stream = FlattenSeq(Calls)
         /\ \A c \in 1 .. Len(program) :
               /\ c \in DOMAIN program /\ Parts(program[c]) \in Seq(PartSet)
               /\ Bytes(Parts(program[c])) \in Seq(Seq(Int))
               /\ Calls[c] = FlattenSeq(Bytes(Parts(program[c])))
<1>1. PICK n \in Nat : n = Len(program) /\ DOMAIN program = 1 .. n
  BY ProgramsAssumption
<1>2. ASSUME NEW c \in 1 .. n
      PROVE  /\ Parts(program[c]) \in Seq(PartSet)
             /\ Bytes(Parts(program[c])) \in Seq(Seq(Int))
             /\ FlattenSeq(Bytes(Parts(program[c]))) \in Seq(Int)
  <2>1. Parts(program[c]) \in Seq(PartSet)
    BY <1>1, CallReceived
  <2>2. Bytes(Parts(program[c])) \in Seq(Seq(Int))
    BY <2>1, BytesType
  <2>3. FlattenSeq(Bytes(Parts(program[c]))) \in Seq(Int)
    BY <2>2, FlattenSnoc, EmptySeq
  <2> QED
    BY <2>1, <2>2, <2>3
<1>3. PICK f : f = [c \in 1 .. n |-> FlattenSeq(Bytes(Parts(program[c])))]
  OBVIOUS
<1>4. Calls = f
  BY <1>1, <1>3 DEF Calls
<1>5. f \in [1 .. n -> Seq(Int)]
  BY <1>2, <1>3
<1>6. f \in Seq(Seq(Int)) /\ Len(f) = n
  BY <1>5, MadeLen
<1>7. Stream = FlattenSeq(Calls)
  BY DEF Stream, Calls, Bytes
<1>8. \A c \in 1 .. n : f[c] = FlattenSeq(Bytes(Parts(program[c])))
  BY <1>3
<1> QED
  BY <1>1, <1>2, <1>4, <1>6, <1>7, <1>8

\* The length of a call is that of the bytes of its parts.
LEMMA WholeLen ==
  ASSUME NEW parts \in Seq(PartSet), Shape(parts)
  PROVE  ByteLen(parts) = Upto(Bytes(parts), Len(parts))
<1>1. PICK n \in Nat \ {0} : n = Len(parts)
  BY DEF Shape
<1>2. PICK upto : BytePath(parts, upto) /\ ByteLen(parts) = upto[n]
  BY <1>1, ByteLenRec
<1>3. PICK ss \in Seq(Seq(Int)) : /\ ss = Bytes(parts) /\ Len(ss) = n
                                  /\ \A p \in 1 .. n : Len(ss[p]) = PartLen(parts, p)
  <2>1. \A p \in 1 .. n : Bytes(parts)[p] = parts[p].bytes
    BY <1>1, BytesType
  <2>2. Bytes(parts) \in Seq(Seq(Int)) /\ Len(Bytes(parts)) = n
    BY <1>1, BytesType
  <2> QED
    BY <2>1, <2>2 DEF PartLen
<1> DEFINE P == {k \in Nat : k <= n => upto[k] = Upto(ss, k)}
<1>4. Upto(ss, 0) = 0 /\ \A k \in 1 .. n : Upto(ss, k) = Upto(ss, k - 1) + Len(ss[k])
  BY <1>3, UptoRec
<1>5. 0 \in P
  BY <1>2, <1>4 DEF BytePath
<1>6. ASSUME NEW k \in Nat, k \in P PROVE k + 1 \in P
  <2> SUFFICES ASSUME k + 1 <= n PROVE upto[k + 1] = Upto(ss, k + 1)
    OBVIOUS
  <2>1. k + 1 \in 1 .. n /\ (k + 1) - 1 = k /\ upto[k] = Upto(ss, k)
    BY <1>6
  <2>2. upto[k + 1] = upto[(k + 1) - 1] + PartLen(parts, k + 1)
    BY <1>1, <1>2, <2>1 DEF BytePath
  <2>3. Upto(ss, k + 1) = Upto(ss, (k + 1) - 1) + Len(ss[k + 1])
    BY <1>4, <2>1
  <2> QED
    BY <1>3, <2>1, <2>2, <2>3
<1> HIDE DEF P
<1>7. Nat \subseteq P
  BY <1>5, <1>6, Induct
<1>8. n \in P
  BY <1>7
<1> QED
  BY SMTT(60), <1>1, <1>2, <1>3, <1>8 DEF P

\* Places are numbers.
LEMMA PlaceType ==
  ASSUME program \in Programs, NEW c \in 1 .. Len(program),
         NEW parts, parts = Parts(program[c]), NEW p \in 1 .. Len(parts)
  PROVE  Upto(Calls, c - 1) \in Nat /\ Upto(Bytes(parts), p - 1) \in Nat
<1>1. PICK ss : ss = Bytes(parts)
  OBVIOUS
<1>2. ss \in Seq(Seq(Int)) /\ Len(ss) = Len(parts)
  BY <1>1, CallsStream, BytesType
<1>3. Calls \in Seq(Seq(Int)) /\ Len(Calls) = Len(program)
  BY CallsStream
<1>4. PICK m \in Nat, n \in Nat : m = Len(Calls) /\ n = Len(ss)
  BY <1>2, <1>3
<1>5. c - 1 \in 0 .. m /\ p - 1 \in 0 .. n
  BY <1>2, <1>3, <1>4
<1> QED
  BY <1>1, <1>2, <1>3, <1>4, <1>5, UptoRec

\* A part of a call is in the stream after the parts and the calls before it.
LEMMA WrittenAt ==
  ASSUME program \in Programs, NEW c \in 1 .. Len(program),
         NEW parts, parts = Parts(program[c]), NEW p \in 1 .. Len(parts)
  PROVE  LET at == Upto(Calls, c - 1) + Upto(Bytes(parts), p - 1)
         IN  SubSeq(Stream, at + 1, at + Len(Bytes(parts)[p])) = Bytes(parts)[p]
<1>1. PICK ss : ss = Bytes(parts)
  OBVIOUS
<1>2. ss \in Seq(Seq(Int)) /\ Len(ss) = Len(parts) /\ Calls[c] = FlattenSeq(ss)
  BY <1>1, CallsStream, BytesType
<1>3. /\ Calls \in Seq(Seq(Int)) /\ Len(Calls) = Len(program) /\ Stream = FlattenSeq(Calls)
  BY CallsStream
<1>4. PICK b \in Seq(Int), l \in Nat : b = ss[p] /\ l = Len(b)
  BY <1>2
<1>5. PICK x \in Nat, y \in Nat : x = Upto(Calls, c - 1) /\ y = Upto(ss, p - 1)
  BY <1>1, PlaceType
<1>6. ASSUME NEW j \in 1 .. l
      PROVE  Stream[x + y + j] = b[j] /\ x + y + j \in 1 .. Len(Stream)
  <2>1. FlattenSeq(ss)[y + j] = b[j] /\ y + j \in 1 .. Len(FlattenSeq(ss))
    <3>1. p \in 1 .. Len(ss) /\ j \in 1 .. Len(ss[p])
      BY <1>2, <1>4
    <3>2. /\ FlattenSeq(ss)[Upto(ss, p - 1) + j] = ss[p][j]
          /\ Upto(ss, p - 1) + j \in 1 .. Len(FlattenSeq(ss))
      BY <1>2, <3>1, FlattenIn
    <3> QED
      BY <1>4, <1>5, <3>2
  <2>2. PICK i : i = y + j /\ i \in 1 .. Len(Calls[c]) /\ Calls[c][i] = b[j]
    BY <1>2, <2>1
  <2>3. c \in 1 .. Len(Calls)
    BY <1>3
  <2>4. Stream[x + i] = b[j] /\ x + i \in 1 .. Len(Stream)
    <3>1. /\ FlattenSeq(Calls)[Upto(Calls, c - 1) + i] = Calls[c][i]
          /\ Upto(Calls, c - 1) + i \in 1 .. Len(FlattenSeq(Calls))
      BY <1>3, <2>2, <2>3, FlattenIn
    <3> QED
      BY <1>3, <1>5, <2>2, <3>1
  <2>5. x + i = x + y + j
    BY <2>2
  <2> QED
    BY <2>4, <2>5
<1>7. PICK at \in Nat : at = x + y
  OBVIOUS
<1>8. PICK s : s = SubSeq(Stream, at + 1, at + l)
  OBVIOUS
<1>9. /\ s \in Seq(Int) /\ Len(s) = l
      /\ \A j \in 1 .. l : s[j] = Stream[at + j]
  <2>1. Stream \in Seq(Int)
    BY <1>3, FlattenSnoc, EmptySeq
  <2>2. ASSUME NEW i \in at + 1 .. at + l PROVE Stream[i] \in Int
    <3>1. PICK j \in 1 .. l : i = x + y + j
      <4>1. i - at \in 1 .. l /\ i = at + (i - at)
        OBVIOUS
      <4> QED
        BY <1>7, <4>1
    <3>2. i \in 1 .. Len(Stream)
      BY <1>6, <3>1
    <3> QED
      BY <2>1, <3>2, ElementOfSeq
  <2>3. /\ s \in Seq(Int)
        /\ Len(s) = IF at + 1 <= at + l THEN (at + l) - (at + 1) + 1 ELSE 0
        /\ \A j \in 1 .. (at + l) - (at + 1) + 1 : s[j] = Stream[at + 1 + j - 1]
    <3>1. PICK f \in Int, e \in Int : f = at + 1 /\ e = at + l
      OBVIOUS
    <3>2. PICK t : t = Stream
      OBVIOUS
    <3>3. \A i \in f .. e : t[i] \in Int
      BY <2>2, <3>1, <3>2
    <3>4. /\ SubSeq(t, f, e) \in Seq(Int)
          /\ Len(SubSeq(t, f, e)) = IF f <= e THEN e - f + 1 ELSE 0
          /\ \A i \in 1 .. e - f + 1 : SubSeq(t, f, e)[i] = t[f + i - 1]
      BY <3>3, SubSeqProperties
    <3>5. s = SubSeq(t, f, e)
      BY <1>8, <3>1, <3>2
    <3> QED
      BY <3>1, <3>2, <3>4, <3>5
  <2>4. ASSUME NEW j \in 1 .. l PROVE s[j] = Stream[at + j]
    <3>1. j \in 1 .. (at + l) - (at + 1) + 1 /\ at + 1 + j - 1 = at + j
      OBVIOUS
    <3> QED
      BY <2>3, <3>1
  <2>5. Len(s) = l
    BY <2>3
  <2> QED
    BY <2>3, <2>4, <2>5
<1>10. ASSUME NEW j \in 1 .. l PROVE s[j] = b[j]
  BY <1>6, <1>7, <1>9
<1>11. s = b
  BY <1>4, <1>9, <1>10, SeqEqual
<1> QED
  BY <1>1, <1>4, <1>5, <1>7, <1>8, <1>11

-----------------------------------------------------------------------------
(* The reader's place in the stream *)

\* The reader is where the totals say, and has what came before; nothing is
\* said of where it is once the sender is gone and all is read, as then nothing
\* more arrives, and the totals only grow by what does.
InPlace(parts) ==
    /\ Filled(parts) => /\ chunk_total \in Nat
                        /\ chunk_total + step_total + total <= Upto(Bytes(parts), part - 1)
    /\ ~Stopped => read = Upto(Calls, Len(returns)) + Upto(Bytes(parts), part - 1) + bytes_read
    /\ ~Stopped /\ Filled(parts) => got = SubSeq(Bytes(parts), 1, part - 1)

\* What each call that got all its bytes has, and the call under way.
Taken ==
    /\ \A c \in 1 .. Len(returns) : Complete(c) => returns[c].got = Bytes(Parts(program[c]))
    /\ ~Ended => InPlace(Parts(Call))

\* What a part's end makes of what the call has got.
LEMMA GotNext ==
  ASSUME NEW S, returns \in Seq(S), NEW ret, NEW arrived, EndPart(ret, arrived)
  PROVE  /\ returns' = returns => got' = arrived
         /\ returns' # returns => got' = <<>>
<1> DEFINE goes_on == LET parts == Parts(Call)
                          next  == NextPart(parts, ret)
                          chunk == IF ret > 0 THEN chunk_total + ret ELSE ret
                          step  == step_total + chunk
                      IN SameStep(parts, next) \/ (next <= Len(parts) /\ step > 0)
<1>1. got' = IF goes_on THEN arrived ELSE <<>>
  BY DEF EndPart
<1>2. \E r : returns' = IF goes_on THEN returns ELSE Append(returns, r)
  BY DEF EndPart
<1> HIDE DEF goes_on
<1>3. PICK r : returns' = IF goes_on THEN returns ELSE Append(returns, r)
  BY <1>2
<1>4. Append(returns, r) # returns
  <2> DEFINE T == S \cup {r}
  <2>1. returns \in Seq(T) /\ r \in T
    OBVIOUS
  <2> HIDE DEF T
  <2>2. Len(Append(returns, r)) = Len(returns) + 1 /\ Len(returns) \in Nat
    BY <2>1, AppendProperties
  <2> QED
    BY <2>2
<1> QED
  BY <1>1, <1>3, <1>4

\* How a part that ends leaves the stream: as it was, at its end, or after the
\* part's bytes, which are what has arrived.
Lands(parts, ret, arrived) ==
    \/ ret = 0 /\ Blank(parts) /\ read' = read
    \/ ret \in {0, -1} /\ Filled(parts) /\ Stopped'
    \/ /\ ret = PartLen(parts, part) /\ Filled(parts) /\ ~Stopped /\ Exact(parts)
       /\ read' = read + (PartLen(parts, part) - bytes_read)
       /\ arrived = Append(got, Bytes(parts)[part])

\* What is known when a part ends.
LEMMA AtPartEnd ==
  ASSUME NEW parts, NEW ret, NEW arrived, EndStep(parts, ret, arrived), Taken
  PROVE  /\ Shape(parts) /\ InCall(parts) /\ InPlace(parts) /\ parts \in Seq(PartSet)
         /\ Len(returns) + 1 \in 1 .. Len(program) /\ Len(returns) \in Nat
         /\ Len(program) \in Nat /\ DOMAIN program = 1 .. Len(program)
         /\ parts = Parts(program[Len(returns) + 1])
         /\ program \in Programs /\ program' = program
<1>1. /\ program \in Programs /\ parts = Parts(Call) /\ Returned /\ ~Ended /\ program' = program
  BY DEF EndStep, Reading
<1>2. /\ Len(returns) + 1 \in 1 .. Len(program) /\ Len(returns) \in Nat
      /\ Len(program) \in Nat /\ DOMAIN program = 1 .. Len(program)
      /\ Shape(parts)
  BY <1>1, CallParts DEF Returned
<1>3. InCall(parts)
  BY <1>1 DEF EndStep, Reading
<1>4. InPlace(parts)
  BY <1>1 DEF Taken
<1>5. parts = Parts(program[Len(returns) + 1])
  BY <1>1 DEF Call
<1>6. parts \in Seq(PartSet)
  BY <1>1, <1>2, <1>5, CallsStream
<1> QED
  BY <1>1, <1>2, <1>3, <1>4, <1>5, <1>6

\* The bytes of the parts of a call, and how many there are before each.
LEMMA PartPlaces ==
  ASSUME NEW parts \in Seq(PartSet), Shape(parts), NEW n \in Nat, n = Len(parts)
  PROVE  /\ Upto(Bytes(parts), 0) = 0
         /\ \A k \in 0 .. n : Upto(Bytes(parts), k) \in Nat
         /\ \A k \in 1 .. n : Upto(Bytes(parts), k) = Upto(Bytes(parts), k - 1) + PartLen(parts, k)
         /\ \A i \in 0 .. n : \A j \in i .. n : Upto(Bytes(parts), i) <= Upto(Bytes(parts), j)
         /\ ByteLen(parts) = Upto(Bytes(parts), n)
         /\ Blank(parts) => \A k \in 0 .. n : Upto(Bytes(parts), k) = 0
<1>1. PICK ss : ss = Bytes(parts)
  OBVIOUS
<1>2. ss \in Seq(Seq(Int)) /\ Len(ss) = n /\ \A k \in 1 .. n : ss[k] = parts[k].bytes
  BY <1>1, BytesType
<1>3. Upto(ss, 0) = 0 /\ \A k \in 0 .. n : Upto(ss, k) \in Nat
  BY <1>2, UptoRec
<1>4. \A k \in 1 .. n : Upto(ss, k) = Upto(ss, k - 1) + PartLen(parts, k)
  <2>1. \A k \in 1 .. n : Upto(ss, k) = Upto(ss, k - 1) + Len(ss[k])
    BY <1>2, UptoRec
  <2> QED
    BY <1>2, <2>1 DEF PartLen
<1>5. \A i \in 0 .. n : \A j \in i .. n : Upto(ss, i) <= Upto(ss, j)
  BY <1>2, UptoGrows
<1>6. ByteLen(parts) = Upto(ss, n)
  BY <1>1, WholeLen
<1>7. ASSUME Blank(parts), NEW k \in 0 .. n PROVE Upto(ss, k) = 0
  <2>1. Upto(ss, n) = 0
    BY <1>6, <1>7, BlankLen
  <2>2. k \in 0 .. n /\ n \in k .. n
    OBVIOUS
  <2>3. Upto(ss, k) \in Nat /\ Upto(ss, k) <= Upto(ss, n)
    BY <1>3, <1>5, <2>2
  <2> QED
    BY <2>1, <2>3
<1> QED
  BY <1>1, <1>3, <1>4, <1>5, <1>6, <1>7

\* Finished calls keep what they got.
LEMMA KeptGot ==
  ASSUME program' = program, NEW c, returns'[c] = returns[c],
         Complete(c) => returns[c].got = Bytes(Parts(program[c]))
  PROVE  Complete(c)' => returns'[c].got = Bytes(Parts(program'[c]))
<1>1. Complete(c)' = Complete(c)
  BY DEF Complete, Whole
<1> QED
  BY <1>1

\* A call that goes on is in place in its next part.
LEMMA GoesOnInPlace ==
  ASSUME NEW parts, NEW ret, NEW arrived, EndStep(parts, ret, arrived), Taken,
         Lands(parts, ret, arrived), returns' = returns
  PROVE  Taken'
<1>1. /\ Shape(parts) /\ InCall(parts) /\ InPlace(parts) /\ parts \in Seq(PartSet)
      /\ parts = Parts(program[Len(returns) + 1])
      /\ program \in Programs /\ program' = program
  BY AtPartEnd
<1>2. PICK n \in Nat \ {0} : n = Len(parts)
  BY <1>1 DEF Shape
<1>3. /\ part \in 1 .. n /\ chunk_total \in Int /\ step_total \in Int /\ total \in Int
      /\ bytes_read \in Nat /\ ret \in Int
  BY <1>1, <1>2 DEF InCall, EndStep
<1> DEFINE up(k) == Upto(Bytes(parts), k)
<1>4. /\ \A k \in 0 .. n : up(k) \in Nat
      /\ \A k \in 1 .. n : up(k) = up(k - 1) + PartLen(parts, k)
      /\ \A i \in 0 .. n : \A j \in i .. n : up(i) <= up(j)
      /\ Blank(parts) => \A k \in 0 .. n : up(k) = 0
  BY <1>1, <1>2, PartPlaces
<1>5. PICK next \in part + 1 .. n + 1, chunk, step \in Int :
           /\ chunk = (IF ret > 0 THEN chunk_total + ret ELSE ret) /\ step = step_total + chunk
           /\ ret > 0 => next = part + 1
           /\ bytes_read' = 0
           /\ \/ ret > 0 /\ next <= n /\ SameNext(next, chunk)
              \/ /\ next <= n /\ parts[next].chunk # parts[part].chunk
                 /\ ChunkNext(next, step)
              \/ next <= n /\ StepNext(next, step)
              \/ /\ ~(next <= n /\ step > 0)
                 /\ CallEnds(IF step > 0 THEN total + step ELSE step, arrived)
  BY SMTT(60), <1>1, <1>2, <1>3, EndPartCases DEF EndStep
<1>6. PICK S : returns \in Seq(S)
  BY DEF EndStep, Reading, Returned
<1>7. got' = arrived
  BY <1>6, GotNext DEF EndStep
<1>8. ~CallEnds(IF step > 0 THEN total + step ELSE step, arrived)
  <2> SUFFICES ASSUME CallEnds(IF step > 0 THEN total + step ELSE step, arrived) PROVE FALSE
    OBVIOUS
  <2>1. PICK r : returns' = Append(returns, r)
    BY DEF CallEnds
  <2> DEFINE T == S \cup {r}
  <2>2. returns \in Seq(T) /\ r \in T
    BY <1>6
  <2> HIDE DEF T
  <2>3. Len(Append(returns, r)) = Len(returns) + 1 /\ Len(returns) \in Nat
    BY <2>2, AppendProperties
  <2> QED
    BY <2>1, <2>3
<1>9. /\ part' = next /\ next <= n
      /\ \/ ret > 0 /\ chunk_total' = chunk /\ step_total' = step_total /\ total' = total
         \/ chunk_total' = 0 /\ step_total' = step /\ total' = total
         \/ step > 0 /\ chunk_total' = 0 /\ step_total' = 0 /\ total' = total + step
  BY <1>5, <1>8 DEF SameNext, ChunkNext, StepNext
<1>10. /\ next - 1 \in part .. n /\ part \in 1 .. n /\ part - 1 \in 0 .. n /\ part \in 0 .. n
       /\ next - 1 \in 0 .. n /\ next - 1 \in part - 1 .. n
  BY <1>3, <1>5, <1>9
<1>11. Calls' = Calls
  BY <1>1 DEF Calls
<1> HIDE DEF up
<1>12. up(part) = up(part - 1) + PartLen(parts, part) /\ up(part - 1) <= up(next - 1)
       /\ up(part - 1) \in Nat /\ up(next - 1) \in Nat
  BY <1>4, <1>10
<1>13. ASSUME Filled(parts)
       PROVE  chunk_total' \in Nat /\ chunk_total' + step_total' + total' <= up(part' - 1)
  <2>1. chunk_total \in Nat /\ chunk_total + step_total + total <= up(part - 1)
    BY <1>1, <1>13 DEF InPlace, up
  <2>2. PartLen(parts, part) \in Nat \ {0}
    BY <1>2, <1>3, <1>13 DEF Filled
  <2>3. CASE ret > 0
    <3>1. ret = PartLen(parts, part)
      BY <2>3 DEF Lands
    <3>2. chunk = chunk_total + ret /\ step = step_total + chunk /\ next = part + 1
      BY <1>5, <2>3
    <3>3. chunk_total' \in Nat
      BY <1>3, <1>9, <2>1, <2>3, <3>2
    <3>4. chunk_total' + step_total' + total' = chunk_total + step_total + total + ret
      BY <1>3, <1>9, <2>1, <3>2
    <3>5. next - 1 = part
      BY <1>3, <3>2
    <3> QED
      BY <1>3, <1>9, <1>12, <2>1, <2>2, <3>1, <3>3, <3>4, <3>5
  <2>4. CASE ~(ret > 0)
    <3>1. chunk = ret /\ step = step_total + ret /\ ret <= 0
      BY <1>3, <1>5, <2>4
    <3>2. chunk_total' = 0
      BY <1>9, <2>4
    <3>3. step_total' + total' = step_total + ret + total
      BY <1>3, <1>9, <2>4, <3>1
    <3>4. step_total' + total' <= up(part - 1)
      BY <1>3, <1>12, <2>1, <3>1, <3>3
    <3>5. step_total' \in Int /\ total' \in Int
      BY <1>3, <1>9
    <3>6. step_total' + total' <= up(next - 1)
      BY <1>12, <3>4, <3>5
    <3> QED
      BY <1>9, <3>2, <3>5, <3>6
  <2> QED
    BY <2>3, <2>4
<1>14. ASSUME ~Stopped'
       PROVE  /\ read' = Upto(Calls, Len(returns)) + up(part' - 1) + bytes_read'
              /\ Filled(parts) => got' = SubSeq(Bytes(parts), 1, part' - 1)
  <2>1. ~Stopped
    BY <1>14 DEF EndStep
  <2>2. read = Upto(Calls, Len(returns)) + up(part - 1) + bytes_read
    BY <1>1, <2>1 DEF InPlace, up
  <2>3. PICK before \in Nat : before = Upto(Calls, Len(returns))
    <3>1. Calls \in Seq(Seq(Int)) /\ Len(Calls) = Len(program)
      BY <1>1, CallsStream
    <3>2. Len(returns) \in Nat /\ Len(program) \in Nat /\ Len(returns) + 1 \in 1 .. Len(program)
      BY AtPartEnd
    <3>3. Len(returns) \in 0 .. Len(Calls)
      BY <3>1, <3>2
    <3> QED
      BY <3>1, <3>3, UptoRec
  <2>4. CASE Blank(parts)
    <3>1. ~Filled(parts)
      BY <1>1, <2>4, FilledOrBlank
    <3>2. read' = read
      BY <3>1 DEF Lands
    <3>3. bytes_read = 0 /\ up(part - 1) = 0 /\ up(next - 1) = 0
      BY <1>1, <1>4, <1>10, <2>4 DEF InCall
    <3> QED
      BY <1>5, <1>9, <2>2, <2>3, <3>1, <3>2, <3>3
  <2>5. CASE Filled(parts)
    <3>1. ~Blank(parts)
      BY <1>1, <2>5, FilledOrBlank
    <3>2. /\ ret = PartLen(parts, part) /\ read' = read + (PartLen(parts, part) - bytes_read)
          /\ arrived = Append(got, Bytes(parts)[part])
      BY <1>14, <3>1 DEF Lands
    <3>3. PartLen(parts, part) \in Nat \ {0}
      BY <1>2, <1>3, <2>5 DEF Filled
    <3>4. next = part + 1 /\ next - 1 = part
      BY <1>3, <1>5, <3>2, <3>3
    <3>5. read' = Upto(Calls, Len(returns)) + up(part' - 1) + bytes_read'
      <4>1. up(part' - 1) = up(part - 1) + PartLen(parts, part)
        BY <1>9, <1>12, <3>4
      <4>2. PICK a \in Nat, l \in Nat : a = up(part - 1) /\ l = PartLen(parts, part)
        BY <1>12, <3>3
      <4>3. read' = before + a + bytes_read + (l - bytes_read)
        BY <2>2, <2>3, <3>2, <4>2
      <4>4. read' = before + (a + l) + 0
        BY <1>3, <4>3
      <4> QED
        BY <1>5, <2>3, <4>1, <4>2, <4>4
    <3>6. got = SubSeq(Bytes(parts), 1, part - 1)
      BY <1>1, <2>1, <2>5 DEF InPlace
    <3>7. got' = SubSeq(Bytes(parts), 1, part)
      <4>1. Bytes(parts) \in Seq(Seq(Int)) /\ Len(Bytes(parts)) = n
        BY <1>1, <1>2, BytesType
      <4>2. PICK k \in Nat : k = part - 1 /\ part = k + 1 /\ k + 1 <= n
        BY <1>3
      <4>3. SubSeq(Bytes(parts), 1, k + 1) = Append(SubSeq(Bytes(parts), 1, k), Bytes(parts)[k + 1])
        BY <4>1, <4>2, FrontSnoc
      <4> QED
        BY <1>7, <3>2, <3>6, <4>2, <4>3
    <3> QED
      BY <1>9, <3>4, <3>5, <3>7
  <2> QED
    BY <1>1, <2>4, <2>5 DEF Shape
<1>15. InPlace(parts)'
  BY <1>11, <1>13, <1>14 DEF InPlace, up
<1>16. Parts(Call)' = parts
  BY <1>1 DEF Call
<1>17. \A c \in 1 .. Len(returns') : Complete(c)' => returns'[c].got = Bytes(Parts(program'[c]))
  BY <1>1, KeptGot DEF Taken
<1> QED
  BY <1>15, <1>16, <1>17 DEF Taken

\* A call that ends and got all its bytes has them in place, part by part.
LEMMA EndsInPlace ==
  ASSUME NEW parts, NEW ret, NEW arrived, EndStep(parts, ret, arrived), Taken,
         Lands(parts, ret, arrived), returns' # returns
  PROVE  Taken'
<1>1. /\ Shape(parts) /\ InCall(parts) /\ InPlace(parts) /\ parts \in Seq(PartSet)
      /\ Len(returns) + 1 \in 1 .. Len(program) /\ Len(returns) \in Nat
      /\ Len(program) \in Nat /\ DOMAIN program = 1 .. Len(program)
      /\ parts = Parts(program[Len(returns) + 1])
      /\ program \in Programs /\ program' = program
  BY SMTT(60), AtPartEnd
<1>2. PICK n \in Nat \ {0}, m \in Nat, l \in Nat :
           n = Len(parts) /\ m = Len(returns) /\ l = Len(program)
  BY <1>1 DEF Shape
<1>3. /\ part \in 1 .. n /\ chunk_total \in Int /\ step_total \in Int /\ total \in Int
      /\ bytes_read \in Nat /\ ret \in Int
  BY <1>1, <1>2 DEF InCall, EndStep
<1> DEFINE up(k) == Upto(Bytes(parts), k)
<1>4. /\ \A k \in 0 .. n : up(k) \in Nat
      /\ \A k \in 1 .. n : up(k) = up(k - 1) + PartLen(parts, k)
      /\ \A i \in 0 .. n : \A j \in i .. n : up(i) <= up(j)
      /\ ByteLen(parts) = up(n)
      /\ Blank(parts) => \A k \in 0 .. n : up(k) = 0
  BY <1>1, <1>2, PartPlaces
<1> HIDE DEF up
<1>5. PICK next \in part + 1 .. n + 1, chunk, step \in Int :
           /\ chunk = (IF ret > 0 THEN chunk_total + ret ELSE ret) /\ step = step_total + chunk
           /\ ret > 0 => next = part + 1
           /\ bytes_read' = 0
           /\ \/ ret > 0 /\ next <= n /\ SameNext(next, chunk)
              \/ /\ next <= n /\ parts[next].chunk # parts[part].chunk
                 /\ ChunkNext(next, step)
              \/ next <= n /\ StepNext(next, step)
              \/ /\ ~(next <= n /\ step > 0)
                 /\ CallEnds(IF step > 0 THEN total + step ELSE step, arrived)
  BY SMTT(60), <1>1, <1>2, <1>3, EndPartCases DEF EndStep
<1>6. ~(next <= n /\ step > 0) /\ CallEnds(IF step > 0 THEN total + step ELSE step, arrived)
  BY <1>5 DEF SameNext, ChunkNext, StepNext
<1>7. PICK v \in Int : v = IF step > 0 THEN total + step ELSE step
  BY <1>3
<1>8. /\ returns' = Append(returns, [ret |-> v, got |-> arrived])
      /\ part' = 1 /\ bytes_read' = 0
      /\ chunk_total' = 0 /\ step_total' = 0 /\ total' = 0
  BY <1>5, <1>6, <1>7 DEF CallEnds
<1>9. PICK S : returns \in Seq(S)
  BY DEF EndStep, Reading, Returned
<1>10. got' = <<>>
  BY <1>9, GotNext DEF EndStep
<1>11. PICK r : r = [ret |-> v, got |-> arrived]
  OBVIOUS
<1>12. /\ Len(returns') = m + 1 /\ returns'[m + 1] = r
       /\ \A c \in 1 .. m : returns'[c] = returns[c]
  <2> DEFINE T == S \cup {r}
  <2>1. returns \in Seq(T) /\ r \in T
    BY <1>9
  <2> HIDE DEF T
  <2> QED
    BY <1>2, <1>8, <1>11, <2>1, AppendProperties
<1>13. /\ up(part) = up(part - 1) + PartLen(parts, part) /\ up(part) <= up(n)
       /\ up(part - 1) \in Nat /\ up(part) \in Nat /\ up(n) \in Nat
  <2>1. part \in 1 .. n /\ part - 1 \in 0 .. n /\ part \in 0 .. n /\ n \in part .. n /\ n \in 0 .. n
    BY <1>3
  <2> QED
    BY <1>4, <2>1
<1>14. Calls' = Calls /\ Calls \in Seq(Seq(Int)) /\ Len(Calls) = l
       /\ Calls[m + 1] = FlattenSeq(Bytes(parts)) /\ Bytes(parts) \in Seq(Seq(Int)) /\ Len(Bytes(parts)) = n
  <2>1. Calls' = Calls
    BY <1>1 DEF Calls
  <2>2. Bytes(parts) \in Seq(Seq(Int)) /\ Len(Bytes(parts)) = n
    BY <1>1, <1>2, BytesType
  <2>3. Calls \in Seq(Seq(Int)) /\ Len(Calls) = l /\ Calls[m + 1] = FlattenSeq(Bytes(parts))
    BY <1>1, <1>2, CallsStream
  <2> QED
    BY <2>1, <2>2, <2>3
<1>15. PICK before \in Nat : before = Upto(Calls, m) /\ Upto(Calls, m + 1) = before + up(n)
  <2>1. m \in 0 .. Len(Calls) /\ m + 1 \in 1 .. Len(Calls) /\ (m + 1) - 1 = m
    BY <1>1, <1>2, <1>14
  <2>2. Upto(Calls, m) \in Nat
    BY <1>14, <2>1, UptoRec
  <2>3. Upto(Calls, m + 1) = Upto(Calls, (m + 1) - 1) + Len(Calls[m + 1])
    BY <1>14, <2>1, UptoRec
  <2>4. Len(Calls[m + 1]) = up(n)
    BY <1>14, UptoAll DEF up
  <2> QED
    BY <2>1, <2>2, <2>3, <2>4
<1>16. Blank(parts) => up(n) = 0 /\ up(part - 1) = 0 /\ bytes_read = 0
  <2>1. n \in 0 .. n /\ part - 1 \in 0 .. n
    BY <1>3
  <2> QED
    BY <1>1, <1>4, <2>1 DEF InCall
<1>17. /\ v = ByteLen(parts) /\ ByteLen(parts) > 0 => arrived = Bytes(parts)
       /\ ~Stopped' => read' = before + up(n)
  <2>1. CASE ret = 0 /\ Blank(parts) /\ read' = read
    <3>1. ByteLen(parts) = 0
      BY <1>4, <1>16, <2>1
    <3>2. ASSUME ~Stopped' PROVE read' = before + up(n)
      <4>1. read = before + up(part - 1) + bytes_read
        BY <1>1, <1>2, <1>15, <3>2 DEF InPlace, up, EndStep
      <4> QED
        BY <1>15, <1>16, <2>1, <4>1
    <3> QED
      BY <3>1, <3>2
  <2>2. CASE ret \in {0, -1} /\ Filled(parts) /\ Stopped'
    <3>1. chunk_total \in Nat /\ chunk_total + step_total + total <= up(part - 1)
      BY <1>1, <2>2 DEF InPlace, up
    <3>2. PartLen(parts, part) \in Nat \ {0}
      BY <1>2, <1>3, <2>2 DEF Filled
    <3>3. up(part - 1) < ByteLen(parts)
      BY <1>4, <1>13, <3>2
    <3>4. step = step_total + ret /\ ret <= 0
      BY <1>3, <1>5, <2>2
    <3>5. v <= 0 \/ v <= up(part - 1)
      BY <1>3, <1>7, <1>13, <3>1, <3>4
    <3>6. ByteLen(parts) \in Nat
      BY <1>4, <1>13
    <3> QED
      BY <1>13, <2>2, <3>3, <3>5, <3>6
  <2>3. CASE /\ ret = PartLen(parts, part) /\ Filled(parts) /\ ~Stopped /\ Exact(parts)
             /\ read' = read + (PartLen(parts, part) - bytes_read)
             /\ arrived = Append(got, Bytes(parts)[part])
    <3>1. PartLen(parts, part) \in Nat \ {0}
      BY <1>2, <1>3, <2>3 DEF Filled
    <3>2. chunk_total \in Nat /\ step_total \in Nat /\ total \in Nat
      BY <2>3 DEF Exact
    <3>3. step > 0 /\ next = part + 1
      BY SMTT(60), <1>5, <2>3, <3>1, <3>2
    <3>4. part = n
      BY <1>3, <1>6, <3>3
    <3>5. got = SubSeq(Bytes(parts), 1, part - 1)
      BY <1>1, <2>3 DEF InPlace
    <3>6. arrived = Bytes(parts)
      <4>1. PICK ss, V : ss = Bytes(parts) /\ V = Seq(Int) /\ ss \in Seq(V) /\ Len(ss) = n
        BY <1>14
      <4>2. PICK k \in Nat : k = part - 1 /\ part = k + 1 /\ n = k + 1 /\ k + 1 <= Len(ss)
        BY <1>3, <3>4, <4>1
      <4>3. SubSeq(ss, 1, k + 1) = Append(SubSeq(ss, 1, k), ss[k + 1])
        BY <4>1, <4>2, FrontSnoc
      <4>4. SubSeq(ss, 1, n) = ss
        BY <4>1, SubSeqFull
      <4> QED
        BY <2>3, <3>5, <4>1, <4>2, <4>3, <4>4
    <3>7. read = before + up(part - 1) + bytes_read
      BY <1>1, <1>2, <1>15, <2>3 DEF InPlace, up
    <3>8. read' = before + up(n)
      <4>1. PICK a \in Nat, b \in Nat : a = up(part - 1) /\ b = PartLen(parts, part)
        BY <1>13, <3>1
      <4>2. up(n) = a + b
        BY <1>13, <3>4, <4>1
      <4>3. read' = before + a + bytes_read + (b - bytes_read)
        BY <2>3, <3>7, <4>1
      <4> QED
        BY <1>3, <1>15, <4>2, <4>3
    <3> QED
      BY <3>6, <3>8
  <2> QED
    BY <2>1, <2>2, <2>3 DEF Lands
<1>18. ASSUME NEW c \in 1 .. Len(returns'), Complete(c)'
       PROVE  returns'[c].got = Bytes(Parts(program'[c]))
  <2>1. CASE c = m + 1
    <3>1. returns'[c].ret = v /\ returns'[c].got = arrived
      BY <1>11, <1>12, <2>1
    <3>2. Whole(c)' = ByteLen(parts) /\ Parts(program'[c]) = parts
      BY <1>1, <1>2, <2>1 DEF Whole
    <3>3. Whole(c)' > 0 /\ returns'[c].ret = Whole(c)'
      BY <1>18 DEF Complete
    <3> QED
      BY <1>17, <3>1, <3>2, <3>3
  <2>2. CASE c # m + 1
    <3>1. c \in 1 .. m
      BY <1>12, <2>2
    <3>2. returns'[c] = returns[c] /\ (Complete(c) => returns[c].got = Bytes(Parts(program[c])))
      BY <1>2, <1>12, <3>1 DEF Taken
    <3> QED
      BY <1>1, <1>18, <3>2, KeptGot
  <2> QED
    BY <2>1, <2>2
<1>19. ASSUME ~Ended' PROVE InPlace(Parts(Call))'
  <2>1. PICK other : other = Parts(Call)'
    OBVIOUS
  <2>2. SubSeq(Bytes(other), 1, 0) = <<>> /\ Upto(Bytes(other), 0) = 0
    <3>1. SubSeq(Bytes(other), 1, 0) = <<>>
      BY SubSeqEmpty
    <3>2. FlattenSeq(<<>>) = <<>> /\ Len(<<>>) = 0
      BY DEF FlattenSeq
    <3> QED
      BY <3>1, <3>2 DEF Upto
  <2>3. part' - 1 = 0
    BY <1>8
  <2>4. ~Stopped' => read' = Upto(Calls, Len(returns'))
    BY <1>12, <1>15, <1>17
  <2>5. ~Stopped' => read' = Upto(Calls', Len(returns')) + Upto(Bytes(other), part' - 1) + bytes_read'
    BY <1>8, <1>13, <1>14, <1>15, <1>17, <2>2, <2>3, <2>4
  <2>6. InPlace(other)'
    BY <1>8, <1>10, <2>2, <2>3, <2>5 DEF InPlace
  <2> QED
    BY <2>1, <2>6
<1> QED
  BY <1>18, <1>19 DEF Taken

\* Only the stream moves, or the reader with its part's count: all stays in place.
LEMMA SamePlace ==
  ASSUME Reading, Taken, program' = program, returns' = returns, part' = part, got' = got,
         chunk_total' = chunk_total, step_total' = step_total, total' = total,
         ~Stopped' => /\ ~Stopped
                      /\ \/ read' = read /\ bytes_read' = bytes_read
                         \/ \E d \in Int : read' = read + d /\ bytes_read' = bytes_read + d
  PROVE  Taken'
<1>1. \A c \in 1 .. Len(returns') : Complete(c)' => returns'[c].got = Bytes(Parts(program'[c]))
  BY KeptGot DEF Taken
<1>2. ASSUME ~Ended PROVE InPlace(Parts(Call))'
  <2>1. PICK parts : parts = Parts(Call) /\ parts = Parts(Call)'
    BY DEF Call
  <2>2. Shape(parts) /\ InCall(parts) /\ InPlace(parts)
    BY <1>2, <2>1, Asked DEF Taken
  <2>3. Calls' = Calls
    BY DEF Calls
  <2>4. /\ Len(returns) + 1 \in 1 .. Len(program) /\ Len(returns) \in Nat
        /\ Len(program) \in Nat /\ program \in Programs
    BY <1>2, CallParts DEF Reading, Returned
  <2>5. PICK c \in 1 .. Len(program) : c = Len(returns) + 1 /\ c - 1 = Len(returns)
    BY <2>4
  <2>6. PICK a \in Nat, b \in Nat : a = Upto(Calls, Len(returns)) /\ b = Upto(Bytes(parts), part - 1)
    <3>1. parts = Parts(program[c])
      BY <2>1, <2>5 DEF Call
    <3>2. part \in 1 .. Len(parts)
      BY <2>2 DEF InCall
    <3> QED
      BY <2>4, <2>5, <3>1, <3>2, PlaceType
  <2>7. bytes_read \in Int
    BY <2>2 DEF InCall
  <2>8. ASSUME ~Stopped' PROVE read' = a + b + bytes_read'
    <3>1. read = a + b + bytes_read
      BY <2>2, <2>6, <2>8 DEF InPlace
    <3>2. CASE read' = read /\ bytes_read' = bytes_read
      BY <3>1, <3>2
    <3>3. ASSUME NEW d \in Int, read' = read + d, bytes_read' = bytes_read + d
          PROVE  read' = a + b + bytes_read'
      BY <2>7, <3>1, <3>3
    <3> QED
      BY <2>8, <3>2, <3>3
  <2>9. InPlace(parts)'
    BY <2>2, <2>3, <2>6, <2>8 DEF InPlace
  <2> QED
    BY <2>1, <2>9
<1> QED
  BY <1>1, <1>2 DEF Taken, Ended

\* A connection begins in place,
LEMMA TakenInit ==
  ASSUME Init
  PROVE  Taken
<1>1. returns = <<>> /\ Len(returns) = 0 /\ 1 .. Len(returns) = {}
  BY DEF Init
<1>2. PICK parts : parts = Parts(Call)
  OBVIOUS
<1>3. /\ part - 1 = 0 /\ bytes_read = 0 /\ read = 0 /\ got = <<>>
      /\ chunk_total = 0 /\ step_total = 0 /\ total = 0
  BY DEF Init
<1>4. \A ss : SubSeq(ss, 1, 0) = <<>> /\ Upto(ss, 0) = 0
  <2>1. ASSUME NEW ss PROVE SubSeq(ss, 1, 0) = <<>>
    BY SubSeqEmpty
  <2>2. FlattenSeq(<<>>) = <<>> /\ Len(<<>>) = 0
    BY DEF FlattenSeq
  <2> QED
    BY <2>1, <2>2 DEF Upto
<1>5. InPlace(parts)
  BY <1>1, <1>3, <1>4 DEF InPlace
<1> QED
  BY <1>1, <1>2, <1>5 DEF Taken

\* a part that ends in one of the ways it can leaves it so,
LEMMA PartEndsInPlace ==
  ASSUME NEW parts, NEW ret, NEW arrived, EndStep(parts, ret, arrived), Taken,
         Lands(parts, ret, arrived)
  PROVE  Taken'
  BY GoesOnInPlace, EndsInPlace

\* and so does every step.
LEMMA TakenKept ==
  ASSUME Reading, Taken, Next
  PROVE  Taken'
<1>1. CASE Deliver
  BY <1>1, SamePlace DEF Deliver, Stopped
<1>2. CASE Exit
  BY <1>2, SamePlace DEF Exit, Stopped
<1>3. ASSUME Reader PROVE Taken'
  <2>1. ~Ended
    BY <1>3 DEF Reader, RecvSome, RecvNothing, RecvEof, RecvError
  <2>2. PICK parts : parts = Parts(Call)
    OBVIOUS
  <2>3. /\ Shape(parts) /\ InCall(parts) /\ InPlace(parts)
        /\ part \in 1 .. Len(parts) /\ bytes_read \in Nat
        /\ Want = PartLen(parts, part) - bytes_read
        /\ Filled(parts) => Want \in Nat \ {0}
        /\ Blank(parts) => Want = 0
        /\ Arrived \in Nat
    BY <2>1, <2>2, Asked DEF Taken
  <2>4. Filled(parts) \/ Blank(parts)
    BY <2>3 DEF Shape
  <2>5. read \in Nat /\ written \in Nat /\ read <= written /\ (Arrived = 0 => read = written)
    BY DEF Reading, Arrived
  <2>6. CASE RecvSome
    <3>1. PICK n \in 1 .. Arrived :
            /\ n <= Want
            /\ read' = read + n
            /\ IF n < Want
               THEN /\ bytes_read' = bytes_read + n
                    /\ UNCHANGED <<returns, part, got, chunk_total, step_total, total>>
               ELSE EndPart(bytes_read + n,
                            Append(got, SubSeq(Stream, read' - bytes_read - n + 1, read')))
      BY <2>6 DEF RecvSome
    <3>2. program' = program /\ written' = written /\ sender' = sender
      BY <2>6 DEF RecvSome
    <3>3. n \in Nat \ {0} /\ n <= written - read
      BY <2>3, <3>1 DEF Arrived
    <3>4. read' \in Nat /\ written' \in Nat /\ read' <= written' /\ ~Stopped
      BY <2>5, <3>1, <3>2, <3>3 DEF Stopped
    <3>5. Filled(parts) /\ Want \in Nat \ {0}
      BY <2>3, <2>4, <3>1, <3>3
    <3>6. CASE n < Want
      BY <3>1, <3>2, <3>3, <3>4, <3>6, SamePlace
    <3>7. CASE ~(n < Want)
      <4>1. PICK l \in Nat \ {0} : l = PartLen(parts, part)
        BY <2>3, <3>5 DEF Filled
      <4>2. bytes_read + n = l /\ n = l - bytes_read
        BY SMTT(60), <2>3, <3>1, <3>3, <3>5, <3>7, <4>1
      <4>3. PICK arrived : arrived = Append(got, SubSeq(Stream, read' - bytes_read - n + 1, read'))
        OBVIOUS
      <4>4. EndPart(l, arrived)
        BY <3>1, <3>7, <4>2, <4>3
      <4>5. Exact(parts)
        BY <2>3, <3>4, <3>5 DEF InCall
      <4>6. EndStep(parts, l, arrived)
        BY <2>1, <2>2, <3>2, <3>4, <3>5, <4>1, <4>4, <4>5 DEF EndStep, PartEnd
      <4>7. SubSeq(Stream, read' - bytes_read - n + 1, read') = Bytes(parts)[part]
        <5>1. /\ Len(returns) + 1 \in 1 .. Len(program) /\ Len(returns) \in Nat
              /\ parts = Parts(program[Len(returns) + 1]) /\ program \in Programs
              /\ parts \in Seq(PartSet)
          BY <4>6, AtPartEnd
        <5>2. PICK c \in 1 .. Len(program) : c = Len(returns) + 1 /\ c - 1 = Len(returns)
          BY <5>1
        <5>3. PICK at : at = Upto(Calls, c - 1) + Upto(Bytes(parts), part - 1)
          OBVIOUS
        <5>4. SubSeq(Stream, at + 1, at + Len(Bytes(parts)[part])) = Bytes(parts)[part]
          BY <2>3, <5>1, <5>2, <5>3, WrittenAt
        <5>5. Len(Bytes(parts)[part]) = l
          BY <2>3, <4>1, <5>1, BytesType DEF PartLen
        <5>6. read = at + bytes_read
          BY <2>3, <3>4, <5>2, <5>3 DEF InPlace
        <5>7. at \in Int
          <6>1. Upto(Calls, c - 1) \in Nat /\ Upto(Bytes(parts), part - 1) \in Nat
            BY <2>3, <5>1, <5>2, PlaceType
          <6> QED
            BY <5>3, <6>1
        <5>8. read' - bytes_read - n + 1 = at + 1 /\ read' = at + l
          <6>1. PICK b \in Nat : b = bytes_read
            BY <2>3
          <6>2. PICK m \in Nat : m = n
            BY <3>3
          <6>3. PICK a \in Int : a = at
            BY <5>7
          <6>4. read = a + b /\ read' = read + m /\ b + m = l
            BY <3>1, <4>2, <5>6, <6>1, <6>2, <6>3
          <6>5. read' = a + b + m /\ read' - b - m + 1 = a + 1
            BY <6>4
          <6>6. read' = a + l
            BY <6>4, <6>5
          <6> QED
            BY <6>1, <6>2, <6>3, <6>5, <6>6
        <5> QED
          BY <5>4, <5>5, <5>8
      <4>8. Lands(parts, l, arrived)
        BY <3>1, <3>4, <3>5, <4>1, <4>2, <4>3, <4>5, <4>7 DEF Lands
      <4> QED
        BY <4>6, <4>8, PartEndsInPlace
    <3> QED
      BY <3>6, <3>7
  <2>7. CASE RecvNothing
    <3>1. Want = 0 /\ EndPart(0, Append(got, <<>>)) /\ UNCHANGED <<program, written, sender, read>>
      BY <2>7 DEF RecvNothing
    <3>2. Blank(parts)
      BY <2>3, <2>4, <3>1
    <3>3. Stopped => Stopped'
      BY <3>1 DEF Stopped
    <3>4. EndStep(parts, 0, Append(got, <<>>))
      BY <2>1, <2>2, <2>5, <3>1, <3>2, <3>3 DEF EndStep, PartEnd
    <3>5. Lands(parts, 0, Append(got, <<>>))
      BY <3>1, <3>2 DEF Lands
    <3> QED
      BY <3>4, <3>5, PartEndsInPlace
  <2>8. CASE RecvEof
    <3>1. /\ Want > 0 /\ sender = "closed" /\ Arrived = 0
          /\ EndPart(0, got) /\ UNCHANGED <<program, written, sender, read>>
      BY <2>8 DEF RecvEof
    <3>2. Filled(parts)
      BY <2>3, <2>4, <3>1
    <3>3. Stopped /\ Stopped'
      BY <2>5, <3>1 DEF Stopped
    <3>4. EndStep(parts, 0, got)
      BY <2>1, <2>2, <2>5, <3>1, <3>2, <3>3 DEF EndStep, PartEnd
    <3>5. Lands(parts, 0, got)
      BY <3>2, <3>3 DEF Lands
    <3> QED
      BY <3>4, <3>5, PartEndsInPlace
  <2>9. CASE RecvError
    <3>1. /\ Want > 0 /\ sender = "reset" /\ Arrived = 0 /\ sender' = "closed"
          /\ UNCHANGED <<program, written, read>>
      BY <2>9 DEF RecvError
    <3>2. Filled(parts)
      BY <2>3, <2>4, <3>1
    <3>3. Stopped /\ Stopped'
      BY <2>5, <3>1 DEF Stopped
    <3>4. CASE bytes_read = 0
      <4>1. EndPart(-1, got)
        BY <2>9, <3>4 DEF RecvError
      <4>2. EndStep(parts, -1, got)
        BY <2>1, <2>2, <2>5, <3>1, <3>2, <3>3, <4>1 DEF EndStep, PartEnd
      <4>3. Lands(parts, -1, got)
        BY <3>2, <3>3 DEF Lands
      <4> QED
        BY <4>2, <4>3, PartEndsInPlace
    <3>5. CASE bytes_read # 0
      <4>1. UNCHANGED <<returns, part, got, chunk_total, step_total, total>>
        BY <2>9, <3>5 DEF RecvError
      <4> QED
        BY <3>1, <3>3, <4>1, SamePlace
    <3> QED
      BY <3>4, <3>5
  <2> QED
    BY <1>3, <2>6, <2>7, <2>8, <2>9 DEF Reader
<1> QED
  BY <1>1, <1>2, <1>3 DEF Next

\* In every reachable state each call that got all its bytes has its parts as
\* they were sent, and the reader is where the call under way says.
THEOREM TakenInOrder == Spec => []Taken
<1>1. Init => Taken
  BY TakenInit
<1>2. Reading /\ Taken /\ [Next]_vars => Taken'
  <2>1. ASSUME Reading, Taken, UNCHANGED vars PROVE Taken'
    <3>1. Stopped' = Stopped
      BY <2>1 DEF vars, Stopped
    <3> QED
      BY <2>1, <3>1, SamePlace DEF vars
  <2> QED
    BY <2>1, TakenKept
<1> QED
  BY <1>1, <1>2, ReadingInOrder, PTL DEF Spec

\* So a call that returns the length of what its counterpart wrote has what its
\* counterpart was given.
THEOREM WhatCameWasSent == Spec => []RoundTrip
<1>1. Reading /\ Taken => RoundTrip
  <2> SUFFICES ASSUME Reading, Taken, NEW c \in DOMAIN returns, Complete(c)
               PROVE  Received(program[c], returns[c].got) = Sent(c)
    BY DEF RoundTrip
  <2>1. PICK S : returns \in Seq(S)
    BY DEF Reading, Returned
  <2>2. PICK m \in Nat, n \in Nat : m = Len(returns) /\ n = Len(program) /\ m <= n
    BY <2>1, ProgramsAssumption DEF Reading, Returned
  <2>3. c \in 1 .. Len(returns) /\ c \in DOMAIN program /\ program \in Programs
    BY <2>1, <2>2, ProgramsAssumption DEF Reading
  <2>4. returns[c].got = Bytes(Parts(program[c]))
    BY <2>3 DEF Taken
  <2>5. Received(program[c], Bytes(Parts(program[c]))) = Given(program[c])
    BY <2>3, CallReceived
  <2> QED
    BY <2>4, <2>5 DEF Given, Sent
<1> QED
  BY <1>1, ReadingInOrder, TakenInOrder, PTL
=============================================================================
