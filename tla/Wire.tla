-------------------------------- MODULE Wire --------------------------------
(***************************************************************************)
(* net_share.cpp: a series of send calls at one end of a TCP connection,   *)
(* and the matching recv calls at the other, which take what has arrived   *)
(* in pieces of any size. The sender may exit anywhere, leaving the reader *)
(* the end of the stream or, once, a reset.                                *)
(*                                                                         *)
(* A recv call is a list of parts, each one recv_in; parts belong to a     *)
(* chunk, which ends at the first failure, and chunks to a step. A batch   *)
(* over its maximum is a step of several chunks whose results are added,   *)
(* failures too; the next step is taken if that sum is positive.           *)
(***************************************************************************)
EXTENDS Integers, Sequences, SequencesExt

CONSTANTS ByteBits,        \* bits of a byte
          FmpzBytes,       \* bytes of fmpz_size(Int_Modulus) limbs
          IntBytes,        \* bytes of the uint32_t that htonl takes
          MaxFmpzBatch, MaxDaBitBatch,
          Programs         \* series of calls, each [kind, data]

ASSUME WidthAssumption ==
    /\ {ByteBits, FmpzBytes, IntBytes, MaxFmpzBatch, MaxDaBitBatch} \subseteq Nat \ {0}
    /\ MaxDaBitBatch <= MaxFmpzBatch

\* What a call of each kind is given: a size, flags, or numbers that have no more
\* limbs than Int_Modulus has, which bounds every number that is sent.
Residue == 0 .. 2 ^ (ByteBits * FmpzBytes) - 1
DaBit == [bp : Residue, b2 : BOOLEAN]
Cor == [D : Residue, E : Residue]
ClientPacket == [MulShares : Seq(Residue), f0 : Residue, g0 : Residue, h0 : Residue,
                 h_points : Seq(Residue), A : Residue, B : Residue, C : Residue]
Data(kind) ==
    CASE kind = "size"   -> Nat
      [] kind = "bools"  -> Seq(BOOLEAN)
      [] kind = "fmpzs"  -> Seq(Residue)
      [] kind = "cors"   -> Seq(Cor)
      [] kind = "dabits" -> Seq(DaBit)
      [] kind = "packet" -> ClientPacket

ASSUME ProgramsAssumption ==
    \A p \in Programs :
        /\ Len(p) \in Nat /\ DOMAIN p = 1 .. Len(p)
        /\ \A c \in DOMAIN p :
              /\ p[c].kind \in {"size", "bools", "fmpzs", "cors", "dabits", "packet"}
              /\ p[c].data \in Data(p[c].kind)
-----------------------------------------------------------------------------
(* Numbers and flags in bytes. *)

Digit(v, k) == (v \div 2 ^ (ByteBits * k)) % 2 ^ ByteBits
Little(v, n) == [k \in 1 .. n |-> Digit(v, k - 1)]
FromLittle(bytes) ==
    FoldLeftDomain(LAMBDA v, k : v + bytes[k] * 2 ^ (ByteBits * (k - 1)), 0, bytes)

\* size_t x_conv = htonl(x): the low half turned round, a high half of zeros.
PutSize(x) == Reverse(Little(x, IntBytes)) \o [k \in 1 .. IntBytes |-> 0]
GetSize(bytes) == FromLittle(Reverse(SubSeq(bytes, 1, IntBytes)))

PutFmpz(x) == Little(x, FmpzBytes)
PutFmpzs(xs) == FlattenSeq([n \in DOMAIN xs |-> PutFmpz(xs[n])])
GetFmpzs(bytes) ==
    [n \in 1 .. Len(bytes) \div FmpzBytes |->
        FromLittle(SubSeq(bytes, (n - 1) * FmpzBytes + 1, n * FmpzBytes))]

\* n flags, ByteBits of them to a byte
BoolBytes(n) == (n + ByteBits - 1) \div ByteBits
PutBools(xs) ==
    [b \in 1 .. BoolBytes(Len(xs)) |->
        FoldLeft(LAMBDA v, k : v + (IF (b - 1) * ByteBits + k < Len(xs)
                                       /\ xs[(b - 1) * ByteBits + k + 1] THEN 2 ^ k ELSE 0),
                 0, [k \in 1 .. ByteBits |-> k - 1])]
GetBools(bytes, n) ==
    [i \in 1 .. n |-> (bytes[(i - 1) \div ByteBits + 1] \div 2 ^ ((i - 1) % ByteBits)) % 2 = 1]

\* The pieces a batch is sent in: max of it, and the rest likewise.
Pieces(xs, max) ==
    LET count == IF xs = <<>> THEN 1 ELSE (Len(xs) - 1) \div max + 1
    IN [k \in 1 .. count |-> SubSeq(xs, (k - 1) * max + 1, IF k < count THEN k * max ELSE Len(xs))]
-----------------------------------------------------------------------------
(* The parts of a call: [step, chunk, bytes]. *)

Part(step, chunk, bytes) == [step |-> step, chunk |-> chunk, bytes |-> bytes]

FmpzBatch(step, xs) ==
    LET pieces == Pieces(xs, MaxFmpzBatch)
    IN [k \in DOMAIN pieces |-> Part(step, k, PutFmpzs(pieces[k]))]

DaBitBatch(xs) ==
    LET pieces == Pieces(xs, MaxDaBitBatch)
        bp(k) == [n \in DOMAIN pieces[k] |-> pieces[k][n].bp]
        b2(k) == [n \in DOMAIN pieces[k] |-> pieces[k][n].b2]
    IN FlattenSeq([k \in DOMAIN pieces |-> <<Part(1, k, PutFmpzs(bp(k))), Part(1, k, PutBools(b2(k)))>>])

\* ClientPacket: every number a step of its own, in this order.
PacketFields(p) == p.MulShares \o <<p.f0, p.g0, p.h0>> \o p.h_points \o <<p.A, p.B, p.C>>

Parts(call) ==
    LET data == call.data IN
    CASE call.kind = "size"   -> <<Part(1, 1, PutSize(data))>>
      [] call.kind = "bools"  -> <<Part(1, 1, PutBools(data))>>
      [] call.kind = "fmpzs"  -> FmpzBatch(1, data)
      [] call.kind = "cors"   -> FmpzBatch(1, [n \in DOMAIN data |-> data[n].D])
                                 \o FmpzBatch(2, [n \in DOMAIN data |-> data[n].E])
      [] call.kind = "dabits" -> DaBitBatch(data)
      [] call.kind = "packet" ->
            [n \in DOMAIN PacketFields(data) |-> Part(n, 1, PutFmpz(PacketFields(data)[n]))]

\* What the reader makes of the parts it got; n and NMul are its own.
Numbers(got) == GetFmpzs(FlattenSeq(got))
GetCorsPaired(got, n) ==
    [k \in 1 .. n |-> [D |-> Numbers(got)[2 * k - 1], E |-> Numbers(got)[2 * k]]]
GetCors(got, n) ==
    [k \in 1 .. n |-> [D |-> Numbers(got)[k], E |-> Numbers(got)[n + k]]]
GetDaBits(got, n) ==
    [k \in 1 .. n |->
        LET piece == (k - 1) \div MaxDaBitBatch
            nth   == ((k - 1) % MaxDaBitBatch) + 1
        IN [bp |-> GetFmpzs(got[2 * piece + 1])[nth],
            b2 |-> GetBools(got[2 * piece + 2], nth)[nth]]]
GetPacket(got, NMul) ==
    LET x == Numbers(got)
        N == Len(x) - NMul - 6
    IN [MulShares |-> SubSeq(x, 1, NMul), f0 |-> x[NMul + 1], g0 |-> x[NMul + 2],
        h0 |-> x[NMul + 3], h_points |-> SubSeq(x, NMul + 4, NMul + 3 + N),
        A |-> x[NMul + N + 4], B |-> x[NMul + N + 5], C |-> x[NMul + N + 6]]

Received(call, got) ==
    CASE call.kind = "size"   -> GetSize(got[1])
      [] call.kind = "bools"  -> GetBools(got[1], Len(call.data))
      [] call.kind = "fmpzs"  -> Numbers(got)
      [] call.kind = "cors"   -> GetCors(got, Len(call.data))
      [] call.kind = "dabits" -> GetDaBits(got, Len(call.data))
      [] call.kind = "packet" -> GetPacket(got, Len(call.data.MulShares))
=============================================================================
