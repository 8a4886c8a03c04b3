--------------------------- MODULE OTSessionProofs ---------------------------
(***************************************************************************)
(* A theorem about one batch through the OT share conversion, for any      *)
(* batch and any pads: where no word wraps, the two results add up to the  *)
(* opened values.                                                          *)
(***************************************************************************)
EXTENDS OTSession, OTConversionProofs

Size == Len(job.x0)

\* What the sender has made of some pads.
BitPrepared ==
    \E pad \in [Entries -> 0 .. Word - 1] :
        /\ messages = BitMessages(job.x0, job.valid, pad, job.mod)
        /\ ret0 = <<BitSenderSum(job.x0, job.valid, pad, job.mod)>>
IntPrepared ==
    \E pads \in Pads :
        /\ messages = [i \in Entries |->
              IntMessages(job.x0[i], job.valid[i], job.num_bits, pads[i], job.mod)]
        /\ ret0 = [i \in Entries |->
              IntSenderShare(job.x0[i], job.valid[i], job.num_bits, pads[i], job.mod)]

\* What the receiver has made of the sender's messages.
BitAdded == ret1 = <<BitReceiverSum(job.x1, messages, job.mod)>>
IntAdded == ret1 = [i \in Entries |->
                IntReceiverShare(job.x1[i], job.num_bits, messages[i], job.mod)]

\* The inductive invariant.
Progress ==
    /\ job \in Jobs
    /\ phase \in {"prepare", "transfer", "receive", "done"}
    /\ phase # "prepare" => IF job.op = "bitsum" THEN BitPrepared ELSE IntPrepared
    /\ phase \in {"receive", "done"} => chosen = messages
    /\ phase = "done" => IF job.op = "bitsum" THEN BitAdded ELSE IntAdded
-----------------------------------------------------------------------------
\* What JobsAssumption says of the call under way.
LEMMA JobFacts ==
  ASSUME job \in Jobs
  PROVE  /\ job.op \in {"bitsum", "intsum"} /\ job.num_bits \in Nat /\ job.mod \in Nat
         /\ job.op = "bitsum" => job.num_bits = 1
         /\ Size \in Nat /\ Entries = 1 .. Size /\ DOMAIN job.x1 = 1 .. Size
         /\ job.x0 \in [1 .. Size -> SUBSET (0 .. job.num_bits - 1)]
         /\ job.x1 \in [1 .. Size -> SUBSET (0 .. job.num_bits - 1)]
         /\ job.valid \in [1 .. Size -> BOOLEAN]
<1>1. /\ job.op \in {"bitsum", "intsum"}
      /\ job.num_bits \in (IF job.op = "bitsum" THEN {1} ELSE Nat)
      /\ job.mod \in Nat
      /\ job.x0 \in Seq(SUBSET (0 .. job.num_bits - 1))
      /\ job.x1 \in [DOMAIN job.x0 -> SUBSET (0 .. job.num_bits - 1)]
      /\ job.valid \in [DOMAIN job.x0 -> BOOLEAN]
  BY JobsAssumption
<1>2. Size \in Nat /\ Entries = 1 .. Size /\ job.x0 \in [1 .. Size -> SUBSET (0 .. job.num_bits - 1)]
  BY <1>1 DEF Size, Entries
<1> QED
  BY <1>1, <1>2 DEF Entries

\* The sender's and the receiver's results are those of its operators.
LEMMA ProgressHolds == Spec => []Progress
<1>1. Init => Progress
  BY DEF Init, Progress
<1>2. Progress /\ [Next]_vars => Progress'
  <2> SUFFICES ASSUME Progress, [Next]_vars PROVE Progress'
    OBVIOUS
  <2>0. job \in Jobs /\ (job.op = "bitsum" => job.num_bits = 1)
    BY JobFacts DEF Progress
  <2>1. CASE BitSender
    <3>1. PICK pads \in Pads :
            LET pad == [i \in Entries |-> pads[i][0]] IN
            /\ messages' = BitMessages(job.x0, job.valid, pad, job.mod)
            /\ ret0' = <<BitSenderSum(job.x0, job.valid, pad, job.mod)>>
      BY <2>1 DEF BitSender
    <3>2. PICK pad : pad = [i \in Entries |-> pads[i][0]]
      OBVIOUS
    <3>3. pad \in [Entries -> 0 .. Word - 1]
      <4>1. job.num_bits = 1
        BY <2>0, <2>1 DEF BitSender
      <4>2. 0 \in 0 .. job.num_bits - 1
        BY <4>1
      <4>3. \A i \in Entries : pads[i][0] \in 0 .. Word - 1
        BY <4>2 DEF Pads
      <4> QED
        BY <3>2, <4>3
    <3>4. job' = job /\ phase' = "transfer" /\ job.op = "bitsum"
      BY <2>1 DEF BitSender
    <3>5. BitPrepared'
      BY <3>1, <3>2, <3>3, <3>4 DEF BitPrepared, Entries
    <3> QED
      BY <2>0, <3>4, <3>5 DEF Progress
  <2>2. CASE IntSender
    <3>1. job' = job /\ phase' = "transfer" /\ job.op = "intsum"
      BY <2>2 DEF IntSender
    <3>2. IntPrepared'
      BY <2>2 DEF IntSender, IntPrepared, Entries, Pads
    <3> QED
      BY <2>0, <3>1, <3>2 DEF Progress
  <2>3. CASE Transfer
    BY <2>3 DEF Transfer, Progress, BitPrepared, IntPrepared, Entries, Pads
  <2>4. CASE BitReceiver
    BY <2>4 DEF BitReceiver, Progress, BitPrepared, IntPrepared, BitAdded, Entries, Pads
  <2>5. CASE IntReceiver
    BY <2>5 DEF IntReceiver, Progress, BitPrepared, IntPrepared, IntAdded, Entries, Pads
  <2>6. CASE UNCHANGED vars
    BY <2>6 DEF vars, Progress, BitPrepared, IntPrepared, BitAdded, IntAdded, Entries, Pads
  <2> QED
    BY <2>1, <2>2, <2>3, <2>4, <2>5, <2>6 DEF Next
<1> QED
  BY <1>1, <1>2, PTL DEF Spec
-----------------------------------------------------------------------------
\* One batch of bits, as OTConversionProofs takes it.
LEMMA BitJob ==
  ASSUME Progress, job.op = "bitsum",
         NEW pad \in [Entries -> 0 .. Word - 1]
  PROVE  BitBatch(Size, job.x0, job.x1, job.valid, pad) /\ OneBit(Size, job.x0, job.x1)
<1>1. job \in Jobs
  BY DEF Progress
<1>2. /\ Size \in Nat /\ Entries = 1 .. Size /\ DOMAIN job.x1 = 1 .. Size /\ job.num_bits = 1
      /\ job.x0 \in [1 .. Size -> SUBSET (0 .. job.num_bits - 1)]
      /\ job.x1 \in [1 .. Size -> SUBSET (0 .. job.num_bits - 1)]
      /\ job.valid \in [1 .. Size -> BOOLEAN]
  BY <1>1, JobFacts
<1>3. 0 .. job.num_bits - 1 = {0}
  BY <1>2
<1>4. OneBit(Size, job.x0, job.x1)
  BY <1>2, <1>3 DEF OneBit
<1>5. BitBatch(Size, job.x0, job.x1, job.valid, pad)
  BY <1>2 DEF BitBatch
<1> QED
  BY <1>4, <1>5
-----------------------------------------------------------------------------
\* What the results are congruent to, a batch of bits.
LEMMA BitExact ==
  ASSUME Progress, phase = "done", job.op = "bitsum", job.mod = 0
  PROVE  Modulo(ret0[1] + ret1[1]) = Expected[1]
<1>0. job \in Jobs
  BY DEF Progress
<1>00. Entries = 1 .. Size /\ job.mod \in Nat
  BY <1>0, JobFacts
<1>1. BitPrepared /\ BitAdded
  BY DEF Progress
<1>2. PICK pad \in [Entries -> 0 .. Word - 1] :
          /\ messages = BitMessages(job.x0, job.valid, pad, job.mod)
          /\ ret0 = <<BitSenderSum(job.x0, job.valid, pad, job.mod)>>
  BY <1>1 DEF BitPrepared
<1>3. BitBatch(Size, job.x0, job.x1, job.valid, pad) /\ OneBit(Size, job.x0, job.x1)
  BY BitJob
<1>4. PICK v \in Int :
         /\ v = OpenedSum(job.x0, job.x1, {i \in 1 .. Size : job.valid[i]})
         /\ Cong(BitSenderSum(job.x0, job.valid, pad, job.mod)
                   + BitReceiverSum(job.x1, messages, job.mod), v, Word)
  BY <1>00, <1>2, <1>3, BitSumExact
<1>5. /\ BitSenderSum(job.x0, job.valid, pad, job.mod) \in 0 .. Ring(job.mod) - 1
      /\ BitReceiverSum(job.x1, messages, job.mod) \in 0 .. Ring(job.mod) - 1
  BY <1>00, <1>2, <1>3, BitSumsReduced
<1>6. PICK t \in Int : t = ret0[1] + ret1[1] /\ Cong(t, v, Word)
  <2>1. PICK w \in Nat : w = Ring(job.mod)
    BY WordAssumption DEF Ring
  <2>2. PICK s \in Int : s = BitSenderSum(job.x0, job.valid, pad, job.mod)
    BY <1>5, <2>1
  <2>3. PICK r \in Int : r = BitReceiverSum(job.x1, messages, job.mod)
    BY <1>5, <2>1
  <2>4. ret0[1] = s /\ ret1[1] = r
    BY <1>1, <1>2, <2>2, <2>3 DEF BitAdded
  <2>5. Cong(s + r, v, Word)
    BY <1>4, <2>2, <2>3
  <2> QED
    BY <2>4, <2>5
<1>7. PICK m \in Nat \ {0} : m = Word
  BY WordAssumption
<1>8. t % m = v % m
  BY <1>6, <1>7, CongMod
<1>9. Expected = <<Modulo(v)>>
  <2>1. PICK T : T = {i \in Entries : job.valid[i]}
    OBVIOUS
  <2>2. v = OpenedSum(job.x0, job.x1, T)
    BY <1>00, <1>4, <2>1
  <2>3. Expected = <<Modulo(OpenedSum(job.x0, job.x1, T))>>
    BY <2>1 DEF Expected, OpenedSum, BitsValue, Number, Opened, MapThenSumSet, MapThenFoldSet
  <2> QED
    BY <2>2, <2>3
<1> QED
  BY <1>6, <1>7, <1>8, <1>9 DEF Modulo, Wrap

\* Of one entry of a batch of integers.
LEMMA IntExact ==
  ASSUME Progress, phase = "done", job.op = "intsum",
         \A k \in 0 .. job.num_bits - 1 : RoomAt(k, job.mod), NEW i \in Entries
  PROVE  Modulo(ret0[i] + ret1[i]) = Expected[i]
<1>0. job \in Jobs
  BY DEF Progress
<1>1. IntPrepared /\ IntAdded
  BY DEF Progress
<1>2. PICK pads \in Pads :
        /\ messages = [e \in Entries |->
              IntMessages(job.x0[e], job.valid[e], job.num_bits, pads[e], job.mod)]
        /\ ret0 = [e \in Entries |->
              IntSenderShare(job.x0[e], job.valid[e], job.num_bits, pads[e], job.mod)]
  BY <1>1 DEF IntPrepared
<1>3. PICK n \in Nat : n = job.num_bits
  BY <1>0, JobFacts
<1>4. PICK pad \in [0 .. n - 1 -> 0 .. Word - 1] : pad = pads[i]
  BY <1>3 DEF Pads
<1>5. PICK a \in SUBSET (0 .. n - 1) : a = job.x0[i]
  BY <1>0, <1>3, JobFacts
<1>6. PICK b \in SUBSET (0 .. n - 1) : b = job.x1[i]
  BY <1>0, <1>3, JobFacts
<1>7. PICK mod \in Nat : mod = job.mod
  BY <1>0, JobFacts
<1>8. job.valid[i] \in BOOLEAN
  BY <1>0, JobFacts
<1>9. PICK m \in Nat \ {0} : m = Ring(mod)
  BY RingType
<1>10. \A x : Modulo(x) = x % m
  BY <1>7, <1>9 DEF Modulo, Ring, Wrap
<1>11. CASE job.valid[i] = TRUE
  <2>1. PICK msg : msg = IntMessages(a, TRUE, n, pad, mod)
    OBVIOUS
  <2>2. PICK s : s = IntSenderShare(a, TRUE, n, pad, mod)
    OBVIOUS
  <2>3. PICK r : r = IntReceiverShare(b, n, msg, mod)
    OBVIOUS
  <2>4. ret0[i] = s /\ ret1[i] = r
    BY <1>1, <1>2, <1>3, <1>4, <1>5, <1>6, <1>7, <1>11, <2>1, <2>2, <2>3 DEF IntAdded
  <2>5. /\ Cong(s + r, BitsValue(SymDiff(a, b)), Ring(mod))
        /\ s \in 0 .. Ring(mod) - 1 /\ r \in 0 .. Ring(mod) - 1
        /\ BitsValue(SymDiff(a, b)) \in Int
    <3>1. \A k \in 0 .. n - 1 : RoomAt(k, mod)
      BY <1>3, <1>7
    <3> QED
      BY <2>1, <2>2, <2>3, <3>1, IntEntryExact
  <2>6. PICK v \in Int : v = BitsValue(SymDiff(a, b))
    BY <2>5
  <2>7. PICK t \in Int : t = s + r
    BY <1>9, <2>5
  <2>8. t % m = v % m
    BY <1>9, <2>5, <2>6, <2>7, CongMod
  <2>9. Expected[i] = Modulo(v)
    BY <1>5, <1>6, <1>11, <2>6 DEF Expected, BitsValue, Number, Opened
  <2> QED
    BY <1>10, <2>4, <2>7, <2>8, <2>9
<1>12. CASE job.valid[i] = FALSE
  <2>1. /\ IntSenderShare(a, FALSE, n, pad, mod) = 0
        /\ IntReceiverShare(b, n, IntMessages(a, FALSE, n, pad, mod), mod) = 0
    BY IntEntryInvalid
  <2>2. ret0[i] = 0 /\ ret1[i] = 0
    BY <1>1, <1>2, <1>3, <1>4, <1>5, <1>6, <1>7, <1>12, <2>1 DEF IntAdded
  <2>3. 0 % m = 0
    BY <1>9, ModSmall
  <2>4. Expected[i] = 0
    BY <1>12 DEF Expected
  <2> QED
    BY <1>10, <2>2, <2>3, <2>4
<1> QED
  BY <1>8, <1>11, <1>12

\* ConversionExact: the two results recombine to the opened values of the valid
\* entries, for any batch whose modulus has room and any pads.
THEOREM ConversionIsExact == Spec => []ConversionExact
<1>1. Progress => ConversionExact
  <2> SUFFICES ASSUME Progress, phase = "done", HasRoom(job), NEW i \in DOMAIN Expected
               PROVE  Modulo(ret0[i] + ret1[i]) = Expected[i]
    BY DEF ConversionExact
  <2>1. job \in Jobs /\ HasRoom(job)
    BY DEF Progress
  <2>2. CASE job.op = "bitsum"
    <3>1. job.mod = 0
      BY <2>1, <2>2 DEF HasRoom
    <3>2. i = 1
      BY <2>2 DEF Expected
    <3> QED
      BY <2>2, <3>1, <3>2, BitExact
  <2>3. CASE job.op # "bitsum"
    <3>1. job.op = "intsum"
      BY <2>1, <2>3, JobFacts
    <3>2. \A k \in 0 .. job.num_bits - 1 : RoomAt(k, job.mod)
      BY <2>1 DEF HasRoom, RoomAt
    <3>3. i \in Entries
      BY <2>3 DEF Expected
    <3> QED
      BY <3>1, <3>2, <3>3, IntExact
  <2> QED
    BY <2>2, <2>3
<1> QED
  BY <1>1, ProgressHolds, PTL
=============================================================================
