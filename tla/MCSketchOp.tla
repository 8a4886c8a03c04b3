----------------------------- MODULE MCSketchOp -----------------------------
(* Campaigns for SketchOp, small enough for TLC.                            *)
EXTENDS SketchOp

CONSTANT MaxInputs    \* longest batch

Config(type, num_bits, w, d, L, hashes) ==
    [type |-> type, num_bits |-> num_bits, w |-> w, d |-> d, L |-> L,
     t |-> <<1, 2>>, hashes |-> hashes]

\* What freq_helper, countmin_helper and heavy_helper prepare: the two shares of
\* a submission differ in the cells of its value, and its key is fresh.
Prepared(c, values, share0) ==
    [cfg |-> c, num_of_inputs |-> Len(values), values |-> values,
     shares |-> [k \in DOMAIN values |-> [s \in Server |->
                    [pk  |-> <<"pk", k>>,
                     arr |-> IF s = 0 THEN share0 ELSE SymDiff(share0, Hot(c, values[k]))]]]]

Batches(values) == UNION {[1 .. n -> values] : n \in 0 .. MaxInputs}

\* The order of a batch only says which values a lost tail had.
Sorted(values) ==
    {v \in Batches(values) : \A k \in DOMAIN v \ {1} : v[k - 1] <= v[k]}

Freqs == {Config("FREQ_OP", 1, 0, 0, 0, <<>>)}

\* Some of the hashes a store may draw.
Drawn(l_bits, w) == {h \in Family(l_bits, w) : h.c1 > 0 /\ (h.c0 = 1 <=> h.c1 = 1)}

CountMins ==
    {Config("COUNTMIN_OP", 2, 2, 2, 0, [k \in {0} |-> [j \in {0, 1} |-> h[j]]]) :
        h \in {f \in [{0, 1} -> Drawn(2, 2)] : f[0].c1 < f[1].c1}}

\* L = num_bits - LOG2(w * d)
Heavies ==
    {Config("HEAVY_OP", 3, 2, 1, 2, [k \in {0, 1} |-> [j \in {0} |-> h[k]]]) :
        h \in {f \in [{0, 1} -> UNION {Drawn(3 - k, 2) : k \in {0, 1}}] :
                  \A k \in {0, 1} : f[k].l_bits = 3 - k /\ f[k].c1 \in {1, 3}}}

FreqCampaigns ==
    {Prepared(c, values, share0) : c \in Freqs, values \in Batches({0, 1}), share0 \in {{}, {0}}}
CountMinCampaigns ==
    {Prepared(c, values, {0, 3}) : c \in CountMins, values \in Sorted(0 .. 3)}
HeavyCampaigns ==
    {Prepared(c, values, {1}) : c \in Heavies, values \in Sorted({0, 3, 4})}

AllCampaigns == FreqCampaigns \cup CountMinCampaigns \cup HeavyCampaigns

\* One batch for each hash store a 3-bit COUNTMIN may draw.
WideCountMin ==
    {Prepared(Config("COUNTMIN_OP", 3, 2, 1, 0, [k \in {0} |-> [j \in {0} |-> h]]),
              <<1>>, {}) : h \in Family(3, 2)}

\* The stack of a fresh process: the key of nobody.
StackGarbage == {<<"garbage", 0>>}
=============================================================================
