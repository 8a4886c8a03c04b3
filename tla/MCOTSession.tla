----------------------------- MODULE MCOTSession -----------------------------
(* Instances of OTSession: the calls the servers and the OT test make.      *)
EXTENDS OTSession

CONSTANTS Moduli, Bits      \* Int_Modulus, with room in a word or without; num_bits

\* bit_sum: bitsum_ot over two clients, mod = 0.
BitSumJobs == {[op |-> "bitsum", x0 |-> a, x1 |-> b, valid |-> v,
                num_bits |-> 1, mod |-> 0] :
                  a \in [1 .. 2 -> {{}, {0}}], b \in [1 .. 2 -> {{}, {0}}],
                  v \in [1 .. 2 -> BOOLEAN]}

\* b2a_ot: intsum_ot with Int_Modulus.
IntSumJobs == {[op |-> "intsum", x0 |-> <<a>>, x1 |-> <<b>>, valid |-> <<TRUE>>,
                num_bits |-> Bits, mod |-> m] :
                  a \in SUBSET (0 .. Bits - 1), b \in SUBSET (0 .. Bits - 1), m \in Moduli}

\* Invalid entries and a second entry, as intsum_ot's own interface allows.
MaskedJobs == {[op |-> "intsum", x0 |-> <<{0}, {}>>, x1 |-> <<a, b>>, valid |-> v,
                num_bits |-> 1, mod |-> m] :
                  a \in {{}, {0}}, b \in {{}, {0}}, v \in [1 .. 2 -> BOOLEAN], m \in Moduli}

ServerJobs == BitSumJobs \cup IntSumJobs \cup MaskedJobs
=============================================================================
