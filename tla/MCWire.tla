------------------------------- MODULE MCWire -------------------------------
(***************************************************************************)
(* Series of calls as the program makes them, over bytes of two bits.      *)
(***************************************************************************)
EXTENDS WireSession

Of(kind, data) == [kind |-> kind, data |-> data]
CorOf(D, E) == [D |-> D, E |-> E]
DaBitOf(bp, b2) == [bp |-> bp, b2 |-> b2]
PacketVar == [MulShares |-> <<7>>, f0 |-> 1, g0 |-> 14, h0 |-> 3, h_points |-> <<9, 12>>,
              A |-> 5, B |-> 10, C |-> 6]
Flags == <<TRUE, FALSE, TRUE, TRUE, FALSE>>

AllPrograms ==
    { \* a submission with its proof; the keys' number and the flags
      <<Of("packet", PacketVar), Of("bools", <<TRUE>>)>>,
      <<Of("size", 6), Of("bools", Flags)>>,
      \* a size too large for htonl
      <<Of("size", 19), Of("bools", <<FALSE, TRUE>>)>>,
      \* validate_snips, flags, sums
      <<Of("cors", <<CorOf(3, 12), CorOf(8, 5)>>), Of("fmpzs", <<11, 2>>), Of("bools", <<TRUE, TRUE>>)>>,
      <<Of("cors", <<CorOf(3, 12), CorOf(8, 5), CorOf(15, 0)>>), Of("bools", <<TRUE, FALSE, TRUE>>)>>,
      \* the same with nothing to validate
      <<Of("cors", <<>>), Of("fmpzs", <<>>), Of("bools", <<>>), Of("fmpzs", <<4, 13>>)>>,
      \* the store's daBits
      <<Of("dabits", <<DaBitOf(6, TRUE), DaBitOf(9, FALSE), DaBitOf(1, TRUE)>>), Of("fmpzs", <<7, 8, 9>>)>> }
Offered == AllPrograms
=============================================================================
