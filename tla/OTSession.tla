------------------------------ MODULE OTSession ------------------------------
(***************************************************************************)
(* One batch through the OT share conversion, for every choice of the      *)
(* sender's random pads: the sender prepares its message pairs, the OT     *)
(* functionality hands the receiver one message of each pair, the receiver *)
(* adds up. The arithmetic is that of 64-bit words, see OTConversion.      *)
(***************************************************************************)
EXTENDS OTConversion, FiniteSetsExt

CONSTANT Jobs      \* the calls examined: [op, x0, x1, valid, num_bits, mod]

\* A call's shares and validity bits are as many, and a share has the batch's
\* number of bits: one for bitsum_ot.
ASSUME JobsAssumption ==
    \A j \in Jobs :
        /\ j.op \in {"bitsum", "intsum"}
        /\ j.num_bits \in (IF j.op = "bitsum" THEN {1} ELSE Nat)
        /\ j.mod \in Nat
        /\ j.x0 \in Seq(SUBSET (0 .. j.num_bits - 1))
        /\ j.x1 \in [DOMAIN j.x0 -> SUBSET (0 .. j.num_bits - 1)]
        /\ j.valid \in [DOMAIN j.x0 -> BOOLEAN]

VARIABLES phase, job, messages, chosen, ret0, ret1
vars == <<phase, job, messages, chosen, ret0, ret1>>

Entries == DOMAIN job.x0
Pads == [Entries -> [0 .. job.num_bits - 1 -> 0 .. Word - 1]]

Init ==
    /\ phase = "prepare"
    /\ job \in Jobs
    /\ messages = <<>> /\ chosen = <<>> /\ ret0 = <<>> /\ ret1 = <<>>

\* bitsum_ot_sender up to ot->send; the sum needs no further message.
BitSender ==
    /\ phase = "prepare" /\ job.op = "bitsum"
    /\ \E pads \in Pads :
         LET pad == [i \in Entries |-> pads[i][0]] IN
         /\ messages' = BitMessages(job.x0, job.valid, pad, job.mod)
         /\ ret0' = <<BitSenderSum(job.x0, job.valid, pad, job.mod)>>
    /\ phase' = "transfer"
    /\ UNCHANGED <<job, chosen, ret1>>

\* intsum_ot_sender: one message pair per entry and bit.
IntSender ==
    /\ phase = "prepare" /\ job.op = "intsum"
    /\ \E pads \in Pads :
         /\ messages' = [i \in Entries |->
               IntMessages(job.x0[i], job.valid[i], job.num_bits, pads[i], job.mod)]
         /\ ret0' = [i \in Entries |->
               IntSenderShare(job.x0[i], job.valid[i], job.num_bits, pads[i], job.mod)]
    /\ phase' = "transfer"
    /\ UNCHANGED <<job, chosen, ret1>>

\* The OT functionality: each side returns once both have called.
Transfer ==
    /\ phase = "transfer"
    /\ chosen' = messages
    /\ phase' = "receive"
    /\ UNCHANGED <<job, messages, ret0, ret1>>

BitReceiver ==
    /\ phase = "receive" /\ job.op = "bitsum"
    /\ ret1' = <<BitReceiverSum(job.x1, chosen, job.mod)>>
    /\ phase' = "done"
    /\ UNCHANGED <<job, messages, chosen, ret0>>

IntReceiver ==
    /\ phase = "receive" /\ job.op = "intsum"
    /\ ret1' = [i \in Entries |->
          IntReceiverShare(job.x1[i], job.num_bits, chosen[i], job.mod)]
    /\ phase' = "done"
    /\ UNCHANGED <<job, messages, chosen, ret0>>

Next == BitSender \/ IntSender \/ Transfer \/ BitReceiver \/ IntReceiver

Spec == Init /\ [][Next]_vars
-----------------------------------------------------------------------------
Number(bits) == MapThenSumSet(LAMBDA k : 2 ^ k, bits)
Opened(i) == SymDiff(job.x0[i], job.x1[i])
Modulo(x) == IF job.mod = 0 THEN Wrap(x) ELSE x % job.mod

\* What the two additive shares must add up to: the opened value of every
\* valid entry, and nothing for an invalid one.
Expected ==
    IF job.op = "bitsum"
    THEN <<Modulo(MapThenSumSet(LAMBDA i : Number(Opened(i)),
                                {i \in Entries : job.valid[i]}))>>
    ELSE [i \in Entries |-> IF job.valid[i] THEN Modulo(Number(Opened(i))) ELSE 0]

\* A modulus that leaves room for the sums a step forms: the ring of words
\* itself for a sum of bits, which is how the servers call bitsum_ot, and any
\* modulus twice of which fits a word together with each bit's worth.
HasRoom(j) ==
    \/ j.mod = 0
    \/ j.op = "intsum" /\ \A k \in 0 .. j.num_bits - 1 : RoomAt(k, j.mod)

\* The additive shares the servers end with recombine to the XOR of their
\* Boolean shares, whatever pads the sender drew, if the modulus leaves room.
ConversionExact ==
    phase = "done" /\ HasRoom(job) =>
        \A i \in DOMAIN Expected : Modulo(ret0[i] + ret1[i]) = Expected[i]

\* How many words an entry may lose: for each bit, those in the largest sum the
\* sender adds to, in that of its second message and in the receiver's.
MayLose(j) ==
    MapThenSumSet(LAMBDA k : ((2 * j.mod + 2 ^ k - 1) \div Word)
                                + 2 * ((2 * j.mod - 2) \div Word),
                  0 .. j.num_bits - 1)

\* Without room intsum_ot goes wrong by the words its 64-bit additions lost and
\* by nothing else: the results are off by a number of them that is 0 with room,
\* and never more than one per addition where a modulus is just over half a word.
OnlyWordsLost ==
    phase = "done" /\ job.op = "intsum" /\ job.mod # 0 =>
        \A i \in Entries : \E lost \in 0 .. MayLose(job) :
            Modulo(ret0[i] + ret1[i] + lost * Word) = Expected[i]
=============================================================================
