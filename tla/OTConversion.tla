---------------------------- MODULE OTConversion ----------------------------
(***************************************************************************)
(* Share conversion by oblivious transfer (ot.cpp): the two servers hold   *)
(* XOR shares of a bit or an integer, the OT sender (server 0) and the OT  *)
(* receiver (server 1) end with additive shares of the same value.         *)
(*                                                                         *)
(* A share is the set of the positions of its 1 bits. Machine words are    *)
(* integers modulo Word (2^64 in the code); mod = 0 means "modulo Word".   *)
(***************************************************************************)
EXTENDS Integers, SequencesExt

CONSTANT Word      \* one more than UINT64_MAX

ASSUME WordAssumption == Word \in Nat \ {0}

Wrap(x) == x % Word
Reduce(x, mod) == IF mod = 0 THEN x ELSE x % mod
Bit(share, k) == IF k \in share THEN 1 ELSE 0

\* const uint64_t max = mod == 0 ? UINT64_MAX : mod - 1
MaxOf(mod) == IF mod = 0 THEN Word - 1 ELSE mod - 1

\* max - x + 1: the additive inverse of x
MinusNoOne(x, mod) == Wrap(MaxOf(mod) - x)
MinusWord(x, mod) == Wrap(Word - 1 - x + 1)
Minus(x, mod) == Wrap(MaxOf(mod) - x + 1)

\* What OT_Wrapper::recv leaves in data[i]: the message its choice bit selects.
Chosen(pair, choice) == IF choice = 1 THEN pair[2] ELSE pair[1]

Total(seq, mod) == FoldLeft(LAMBDA sum, x : Reduce(Wrap(sum + x), mod), 0, seq)
-----------------------------------------------------------------------------
(* bitsum_ot: entry i is one bit; an invalid entry is blanked on both sides *)

BitMessages(shares, valid, pads, mod) ==
    [i \in DOMAIN shares |->
        LET b0 == Reduce(pads[i], mod) IN
        IF valid[i] THEN <<b0, Wrap(b0 + 1 - 2 * Bit(shares[i], 0))>>
                    ELSE <<0, 0>>]

BitSenderSum(shares, valid, pads, mod) ==
    FoldLeft(LAMBDA sum, i :
                IF valid[i]
                THEN Reduce(Wrap(sum + Minus(Reduce(pads[i], mod), mod)
                                     + Bit(shares[i], 0)), mod)
                ELSE sum,
             0, [i \in DOMAIN shares |-> i])

BitReceiverSum(shares, messages, mod) ==
    Total([i \in DOMAIN shares |-> Chosen(messages[i], Bit(shares[i], 0))], mod)
-----------------------------------------------------------------------------
(* intsum_ot: one transfer per bit k < num_bits of the value *)

Positions(num_bits) == [k \in 1 .. num_bits |-> k - 1]

IntMessages(share, valid, num_bits, pads, mod) ==
    [k \in 0 .. num_bits - 1 |->
        LET b0   == Reduce(pads[k], mod)
            step == IF k \in share THEN Minus(2 ^ k, mod) ELSE 2 ^ k
        IN IF valid THEN <<b0, Reduce(Wrap(b0 + step), mod)>> ELSE <<0, 0>>]

IntSenderShare(share, valid, num_bits, pads, mod) ==
    IF ~valid THEN 0 ELSE
    FoldLeft(LAMBDA ret, k :
                Reduce(Wrap(ret + Bit(share, k) * 2 ^ k
                                + Minus(Reduce(pads[k], mod), mod)), mod),
             0, Positions(num_bits))

IntReceiverShare(share, num_bits, messages, mod) ==
    Total([k \in 1 .. num_bits |->
              Chosen(messages[k - 1], Bit(share, k - 1))], mod)

\* Modulo mod, all that is added for bit k fits a word: a sum so far, the
\* inverse of a pad and the bit's worth.
RoomAt(k, mod) == mod = 0 \/ (2 ^ k \in 0 .. mod /\ 2 * mod + 2 ^ k <= Word)
-----------------------------------------------------------------------------
(* generateDaBit: one transfer of a random bit against a random pad *)

DaBitMessages(bit, pad, mod) == <<pad % mod, Wrap((pad % mod) + bit) % mod>>
DaBitShare(bit, x, mod) == Wrap(bit + 2 * (mod - x)) % mod
=============================================================================
