----------------------------- MODULE MCPairedOp -----------------------------
(* Campaigns for PairedOp, small enough for TLC.                            *)
EXTENDS PairedOp, MetaClient

CONSTANTS MaxInputs,    \* longest batch
          MaxIntInputs, \* longest INT_SUM batch (a transfer per bit: many pads)
          Bits,         \* num_bits of the INT_SUM batches
          MaxInp        \* max_inp of the MAX/MIN batches

\* A duplicate repeats the key of a valid submission, as in the routines.
Subs(shapes, values, masks) ==
    UNION {{subs \in [1 .. n -> [shape : shapes, value : values, share0 : masks]] :
                \A k \in 1 .. n : subs[k].shape \in {"dup0", "dup1"} =>
                                    k > 1 /\ subs[k - 1].shape = "ok"} :
           n \in 0 .. MaxInputs}


PkShapes == {"ok", "mismatch0", "dup0", "dup1"}

BitCampaigns == {Campaign("BIT_SUM", 1, 0, subs) :
                    subs \in Subs(PkShapes, {{}, {0}}, {{0}})}

\* A value out of range has a bit Bits; so have both shares of "bigshare".
IntSubs ==
    {subs \in Subs(PkShapes \cup {"big", "bigshare"},
                   {{0}, 0 .. Bits - 1, {Bits}}, {{}, {Bits - 1}, {Bits}}) :
        /\ Len(subs) <= MaxIntInputs
        /\ \A k \in DOMAIN subs :
              /\ subs[k].value = {Bits} <=> subs[k].shape = "big"
              /\ subs[k].share0 = {Bits} <=> subs[k].shape = "bigshare"}

IntCampaigns == {c \in {Campaign("INT_SUM", Bits, 0, subs) : subs \in IntSubs} :
                    ModulusLargeEnough(Bits, c.msg.num_of_inputs)}

XorCampaigns ==
    {Campaign(type, 0, 0, subs) : type \in {"AND_OP", "OR_OP"},
                                  subs \in Subs(PkShapes, {0, 1}, {{}})}

MaxCampaigns ==
    {Campaign(type, 0, MaxInp, subs) : type \in MaxOps,
                                       subs \in Subs(PkShapes, 1 .. MaxInp, {{}})}

SumCampaigns == BitCampaigns \cup IntCampaigns
OrCampaigns == XorCampaigns \cup MaxCampaigns
HonestCampaigns ==
    {Campaign(type, 1, 1, subs) : type \in {"OR_OP", "MAX_OP"}, subs \in Subs({"ok"}, {1}, {{}})}
        \cup {Campaign(type, 1, 0, subs) : type \in SumOps, subs \in Subs({"ok"}, {{0}}, {{}})}
AllCampaigns == SumCampaigns \cup OrCampaigns \cup HonestCampaigns

\* Honest batches of any value the client's own check lets through.
WideCampaigns ==
    {c \in {Campaign("INT_SUM", Bits, 0, subs) :
               subs \in Subs({"ok"}, SUBSET (0 .. Bits - 1), {{}})} :
        ModulusLargeEnough(Bits, c.msg.num_of_inputs)}

\* Stack contents that were never written: no share, the key of nobody.
NoGarbage == {[pk |-> <<"garbage", 0>>, val |-> {}]}

\* What the configurations refer to: TLC evaluates a definition that replaces a
\* constant at every use, and these only name a set it has computed already.
Offered == AllCampaigns
Mortal == HonestCampaigns
Wide == WideCampaigns
=============================================================================
