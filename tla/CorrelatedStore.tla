--------------------------- MODULE CorrelatedStore ---------------------------
(***************************************************************************)
(* correlated.cpp: the two servers' caches of correlated randomness and    *)
(* the share computations that consume them.                               *)
(*                                                                         *)
(* Both servers run the same program of CorrelatedStore calls, each at its *)
(* own pace. A call first tops its cache up (with the other server: by OT, *)
(* or made by server 0 and sent), pops what it needs from the front, and   *)
(* opens masked bits: a forked child writes them to the socket while the   *)
(* parent reads the other server's, and is waited for before returning.    *)
(*                                                                         *)
(* A socket holds at most Capacity unread units, a unit being one masked   *)
(* bit or one daBit; TRUE is a 1 bit and # is XOR.                         *)
(***************************************************************************)
EXTENDS OTConversion

CONSTANTS Programs,    \* [lazy, batch, calls], a call being [op, widths]
          Modulus,     \* Int_Modulus
          DoFork,      \* do_fork
          Capacity,    \* units a socket buffers
          Pads         \* random words the generator may draw

Server == {0, 1}
Other(s) == 1 - s

ASSUME StoreAssumption ==
    /\ Modulus \in Nat /\ Modulus > 2
    /\ Capacity \in Nat \ {0} /\ Pads \subseteq Nat
    /\ DoFork \in BOOLEAN
    /\ \A p \in Programs : p.lazy \in BOOLEAN /\ p.batch \in Nat

\* The calls there are, each on values of the given numbers of bits.
CallOps == {"update", "checkDaBits", "multiplyBoolShares", "b2a_daBit_single", "b2a_daBit_multi"}
ASSUME CallsAssumption ==
    \A p \in Programs : p.calls \in Seq([op : CallOps, widths : Seq(Nat)])

VARIABLES program,        \* how the store was made, and the calls on it
          call,           \* index of each server's current call
          pc,             \* where it is in that call
          input,          \* its shares of the call's operands
          dabit_store,    \* cached [bp, b2]
          btriple_store,  \* cached [a, b, c]
          used,           \* entries popped by the current call
          out,            \* what the sending child has still to write
          chan,           \* unread units on the socket each server reads
          got,            \* what the current call has read
          done            \* [input, ret] of each call that returned

vars == <<program, call, pc, input, dabit_store, btriple_store, used, out,
          chan, got, done>>

Lazy == program.lazy       \* LAZY_PRECOMPUTE
Batch == program.batch     \* CACHE_SIZE
Calls == program.calls
Op(s) == Calls[call[s]].op
Widths(s) == Calls[call[s]].widths
N(widths) == FoldLeft(+, 0, widths)
Zeros(n) == [k \in 1 .. n |-> FALSE]
Bits(n) == [1 .. n -> BOOLEAN]
Value(bit) == IF bit THEN 1 ELSE 0

Init ==
    /\ program \in Programs
    /\ call = [s \in Server |-> 1]
    /\ pc = [s \in Server |-> "idle"]
    /\ input = [s \in Server |-> [x |-> <<>>, y |-> <<>>]]
    /\ dabit_store = [s \in Server |-> <<>>]
    /\ btriple_store = [s \in Server |-> <<>>]
    /\ used = [s \in Server |-> <<>>]
    /\ out = [s \in Server |-> <<>>]
    /\ chan = [s \in Server |-> <<>>]
    /\ got = [s \in Server |-> <<>>]
    /\ done = [s \in Server |-> <<>>]
-----------------------------------------------------------------------------
(* Topping up: checkDaBits, checkBoolTriples, maybeUpdate *)

\* What is to be added before the call can go on: exactly what is missing, or
\* two batches when less than half a batch is left.
ShortBy(store, n) == IF Len(store) < n THEN n - Len(store) ELSE 0

ToAdd(s) ==
    CASE Op(s) = "update" ->
            IF Len(dabit_store[s]) < Batch \div 2 THEN 2 * Batch ELSE 0
      [] Op(s) = "multiplyBoolShares" -> ShortBy(btriple_store[s], N(Widths(s)))
      [] OTHER -> ShortBy(dabit_store[s], N(Widths(s)))

Begin(s) ==
    /\ pc[s] = "idle" /\ call[s] <= Len(Calls)
    /\ \E x, y \in Bits(N(Widths(s))) :
         /\ Op(s) \in {"update", "checkDaBits"} => x = Zeros(Len(x))
         /\ Op(s) # "multiplyBoolShares" => y = Zeros(Len(y))
         /\ input' = [input EXCEPT ![s] = [x |-> x, y |-> y]]
    /\ pc' = [pc EXCEPT ![s] = IF ToAdd(s) > 0 THEN "add" ELSE "take"]
    /\ UNCHANGED <<program, call, dabit_store, btriple_store, used, out, chan,
                   got, done>>

\* generateDaBit: bits b0, b1 of the two servers, one OT of (pad, pad + b0).
DaBitsPadUnnegated(b0, b1, pads) ==
    [n \in DOMAIN b0 |->
        LET pair == DaBitMessages(Value(b0[n]), pads[n], Modulus)
            x1   == Chosen(pair, Value(b1[n]))
        IN [s \in Server |->
              IF s = 0 THEN [bp |-> DaBitShare(Value(b0[n]), pair[1], Modulus), b2 |-> b0[n]]
                       ELSE [bp |-> DaBitShare(Value(b1[n]), x1, Modulus), b2 |-> b1[n]]]]
DaBits(b0, b1, pads) ==
    [n \in DOMAIN b0 |->
        LET pair == DaBitMessages(Value(b0[n]), pads[n], Modulus)
            x0   == Modulus - pair[1]
            x1   == Chosen(pair, Value(b1[n]))
        IN [s \in Server |->
              IF s = 0 THEN [bp |-> DaBitShare(Value(b0[n]), x0, Modulus), b2 |-> b0[n]]
                       ELSE [bp |-> DaBitShare(Value(b1[n]), x1, Modulus), b2 |-> b1[n]]]]

MakeDaBits ==
    /\ ~Lazy
    /\ \A s \in Server : pc[s] = "add" /\ Op(s) # "multiplyBoolShares"
    /\ ToAdd(0) = ToAdd(1)
    /\ \E b0, b1 \in Bits(ToAdd(0)), pads \in [1 .. ToAdd(0) -> Pads] :
          dabit_store' = [s \in Server |-> dabit_store[s] \o
                            [n \in 1 .. ToAdd(0) |-> DaBits(b0, b1, pads)[n][s]]]
    /\ pc' = [s \in Server |-> "take"]
    /\ UNCHANGED <<program, call, input, btriple_store, used, out, chan, got, done>>

\* gen_boolean_beaver_triples: server s draws x, y, r; one OT each way of
\* (r, r xor x) chosen by the other's y.
Triple(x, y, r) ==
    [s \in Server |->
        LET b == IF y[s] THEN r[Other(s)] # x[Other(s)] ELSE r[Other(s)]
        IN [a |-> x[s], b |-> y[s], c |-> b # (r[s] # (x[s] /\ y[s]))]]

MakeTriples ==
    /\ \A s \in Server : pc[s] = "add" /\ Op(s) = "multiplyBoolShares"
    /\ LET n == IF ToAdd(0) > Batch THEN ToAdd(0) ELSE Batch IN
       /\ ToAdd(0) = ToAdd(1)
       /\ \E x, y, r \in [1 .. n -> [Server -> BOOLEAN]] :
            btriple_store' = [s \in Server |-> btriple_store[s] \o
                                [k \in 1 .. n |-> Triple(x[k], y[k], r[k])[s]]]
    /\ pc' = [s \in Server |-> "take"]
    /\ UNCHANGED <<program, call, input, dabit_store, used, out, chan, got, done>>

\* makeLocalDaBit: server 0 makes both halves of a random bit. The range of r
\* keeps b - r from rolling over, so that parities line up.
LocalDaBit(bit, r) ==
    LET bp1 == (bit - r) % Modulus
    IN [s \in Server |-> IF s = 0 THEN [bp |-> r, b2 |-> r % 2 = 1]
                                  ELSE [bp |-> bp1, b2 |-> bp1 % 2 = 0]]
LocalRange(bit) == {r \in Pads : r \in bit + 1 .. Modulus - 1}

\* Server 0 keeps its halves and writes the others, without forking.
MakeLazy ==
    /\ Lazy /\ pc[0] = "add" /\ Op(0) # "multiplyBoolShares"
    /\ \E made \in [1 .. ToAdd(0) -> UNION {{LocalDaBit(bit, r) : r \in LocalRange(bit)} : bit \in {0, 1}}] :
         /\ dabit_store' = [dabit_store EXCEPT ![0] = @ \o [n \in DOMAIN made |-> made[n][0]]]
         /\ out' = [out EXCEPT ![0] = @ \o [n \in DOMAIN made |-> made[n][1]]]
    /\ pc' = [pc EXCEPT ![0] = "flush"]
    /\ UNCHANGED <<program, call, input, btriple_store, used, chan, got, done>>

Flushed ==
    /\ pc[0] = "flush" /\ out[0] = <<>>
    /\ pc' = [pc EXCEPT ![0] = "take"]
    /\ UNCHANGED <<program, call, input, dabit_store, btriple_store, used, out,
                   chan, got, done>>

RecvLazy ==
    /\ Lazy /\ pc[1] = "add" /\ Op(1) # "multiplyBoolShares"
    /\ IF Len(got[1]) < ToAdd(1)
       THEN /\ chan[1] # <<>>
            /\ got' = [got EXCEPT ![1] = Append(@, Head(chan[1]))]
            /\ chan' = [chan EXCEPT ![1] = Tail(@)]
            /\ UNCHANGED <<dabit_store, pc>>
       ELSE /\ dabit_store' = [dabit_store EXCEPT ![1] = @ \o got[1]]
            /\ got' = [got EXCEPT ![1] = <<>>]
            /\ pc' = [pc EXCEPT ![1] = "take"]
            /\ UNCHANGED chan
    /\ UNCHANGED <<program, call, input, btriple_store, used, out, done>>
-----------------------------------------------------------------------------
(* Computing: multiplyBoolShares, b2a_daBit_single, b2a_daBit_multi *)

Return(s, ret) ==
    /\ done' = [done EXCEPT ![s] = Append(@, [input |-> input[s], ret |-> ret])]
    /\ call' = [call EXCEPT ![s] = @ + 1]
    /\ pc' = [pc EXCEPT ![s] = "idle"]

\* The caches alone: nothing is computed.
Checked(s) ==
    /\ pc[s] = "take" /\ Op(s) \in {"update", "checkDaBits"}
    /\ Return(s, <<>>)
    /\ UNCHANGED <<program, input, dabit_store, btriple_store, used, out, chan, got>>

\* getDaBit and getBoolTriple pop the front; the masked operands go out.
Pop(store, n) == SubSeq(store, n + 1, Len(store))

Take(s) ==
    LET n == N(Widths(s)) IN
    /\ pc[s] = "take"
    /\ \/ /\ Op(s) = "multiplyBoolShares"
          /\ used' = [used EXCEPT ![s] = SubSeq(btriple_store[s], 1, n)]
          /\ btriple_store' = [btriple_store EXCEPT ![s] = Pop(@, n)]
          /\ out' = [out EXCEPT ![s] =
                       [k \in 1 .. n |-> input[s].x[k] # used'[s][k].a] \o
                       [k \in 1 .. n |-> input[s].y[k] # used'[s][k].b]]
          /\ UNCHANGED dabit_store
       \/ /\ Op(s) \in {"b2a_daBit_single", "b2a_daBit_multi"}
          /\ used' = [used EXCEPT ![s] = SubSeq(dabit_store[s], 1, n)]
          /\ dabit_store' = [dabit_store EXCEPT ![s] = Pop(@, n)]
          /\ out' = [out EXCEPT ![s] = [k \in 1 .. n |-> input[s].x[k] # used'[s][k].b2]]
          /\ UNCHANGED btriple_store
    /\ pc' = [pc EXCEPT ![s] = "open"]
    /\ UNCHANGED <<program, call, input, chan, got, done>>

\* The child process, or the call itself when it does not fork.
Write(s) ==
    /\ out[s] # <<>> /\ Len(chan[Other(s)]) < Capacity
    /\ chan' = [chan EXCEPT ![Other(s)] = Append(@, Head(out[s]))]
    /\ out' = [out EXCEPT ![s] = Tail(@)]
    /\ UNCHANGED <<program, call, pc, input, dabit_store, btriple_store, used,
                   got, done>>

ToRead(s) == IF Op(s) = "multiplyBoolShares" THEN 2 * N(Widths(s)) ELSE N(Widths(s))

MayReadUnforked(s) == out[s] = <<>>
MayRead(s) == DoFork \/ out[s] = <<>>

Read(s) ==
    /\ pc[s] = "open" /\ MayRead(s)
    /\ Len(got[s]) < ToRead(s) /\ chan[s] # <<>>
    /\ got' = [got EXCEPT ![s] = Append(@, Head(chan[s]))]
    /\ chan' = [chan EXCEPT ![s] = Tail(@)]
    /\ UNCHANGED <<program, call, pc, input, dabit_store, btriple_store, used,
                   out, done>>

\* z = c + x e + y d, and server 0 alone adds d e.
ProductBothAdd(s, k, d, e) ==
    (used[s][k].c # ((input[s].x[k] /\ e) # (input[s].y[k] /\ d))) # (d /\ e)
Product(s, k, d, e) ==
    (used[s][k].c # ((input[s].x[k] /\ e) # (input[s].y[k] /\ d))) # (s = 0 /\ d /\ e)

\* v ? server_num - bp : bp
Converted(s, k, v) ==
    IF v THEN (s - used[s][k].bp) % Modulus ELSE used[s][k].bp

Mine(s) ==
    IF Op(s) = "multiplyBoolShares"
    THEN [k \in 1 .. N(Widths(s)) |-> input[s].x[k] # used[s][k].a] \o
         [k \in 1 .. N(Widths(s)) |-> input[s].y[k] # used[s][k].b]
    ELSE [k \in 1 .. N(Widths(s)) |-> input[s].x[k] # used[s][k].b2]
Opened(s, k) == Mine(s)[k] # got[s][k]

Offset(widths, v) == N(SubSeq(widths, 1, v - 1))

\* The converted bits of one value, added up by weight.
Weighted(s, offset, w) ==
    FoldLeft(LAMBDA sum, j :
                (sum + Converted(s, offset + j, Opened(s, offset + j)) * 2 ^ (j - 1)) % Modulus,
             0, [j \in 1 .. w |-> j])

Finish(s) ==
    LET n == N(Widths(s)) IN
    /\ pc[s] = "open" /\ Len(got[s]) = ToRead(s) /\ out[s] = <<>>
    /\ Return(s,
         CASE Op(s) = "multiplyBoolShares" ->
                [k \in 1 .. n |-> Product(s, k, Opened(s, k), Opened(s, n + k))]
           [] Op(s) = "b2a_daBit_single" ->
                [k \in 1 .. n |-> Converted(s, k, Opened(s, k))]
           [] Op(s) = "b2a_daBit_multi" ->
                [v \in DOMAIN Widths(s) |->
                   Weighted(s, Offset(Widths(s), v), Widths(s)[v])])
    /\ used' = [used EXCEPT ![s] = <<>>]
    /\ got' = [got EXCEPT ![s] = <<>>]
    /\ UNCHANGED <<program, input, dabit_store, btriple_store, out, chan>>
-----------------------------------------------------------------------------
ServerStep(s) == Begin(s) \/ Checked(s) \/ Take(s) \/ Read(s) \/ Finish(s)
Generate == MakeDaBits \/ MakeTriples \/ MakeLazy \/ Flushed \/ RecvLazy

Next == Generate \/ \E s \in Server : ServerStep(s) \/ Write(s)

Spec == Init /\ [][Next]_vars

\* Both server processes and their children run on.
FairSpec ==
    /\ Spec
    /\ WF_vars(MakeDaBits \/ MakeTriples) /\ WF_vars(MakeLazy \/ Flushed)
    /\ WF_vars(RecvLazy)
    /\ \A s \in Server : WF_vars(ServerStep(s)) /\ WF_vars(Write(s))
-----------------------------------------------------------------------------
(* Properties. *)

\* Between two calls, once both servers have returned from the same number of
\* them, the caches hold matching halves entry by entry and the connection is
\* empty, so that the next call can use both.
Matching(d0, d1) == (d0.bp + d1.bp) % Modulus = Value(d0.b2 # d1.b2)
Beaver(t0, t1) == (t0.c # t1.c) = ((t0.a # t1.a) /\ (t0.b # t1.b))

BetweenCalls == call[0] = call[1] /\ \A s \in Server : pc[s] = "idle"

StoresAligned ==
    BetweenCalls =>
        /\ Len(dabit_store[0]) = Len(dabit_store[1])
        /\ Len(btriple_store[0]) = Len(btriple_store[1])
        /\ \A n \in DOMAIN dabit_store[0] : Matching(dabit_store[0][n], dabit_store[1][n])
        /\ \A n \in DOMAIN btriple_store[0] : Beaver(btriple_store[0][n], btriple_store[1][n])
        /\ \A s \in Server : chan[s] = <<>> /\ out[s] = <<>>

\* Every call both servers have returned from computed shares of the right
\* value: the product of the two opened operands, or the opened bits as a
\* number modulo Int_Modulus.
Both == 1 .. (IF Len(done[0]) < Len(done[1]) THEN Len(done[0]) ELSE Len(done[1]))
OpenX(c, k) == done[0][c].input.x[k] # done[1][c].input.x[k]
OpenY(c, k) == done[0][c].input.y[k] # done[1][c].input.y[k]
OpenValue(c, v) ==
    FoldLeft(LAMBDA sum, j :
                sum + Value(OpenX(c, Offset(Calls[c].widths, v) + j)) * 2 ^ (j - 1),
             0, [j \in 1 .. Calls[c].widths[v] |-> j])

ResultsRecombine ==
    \A c \in Both :
        LET ret(s) == done[s][c].ret
            op     == Calls[c].op
        IN /\ op = "multiplyBoolShares" =>
                \A k \in DOMAIN ret(0) : (ret(0)[k] # ret(1)[k]) = (OpenX(c, k) /\ OpenY(c, k))
           /\ op = "b2a_daBit_single" =>
                \A k \in DOMAIN ret(0) :
                    (ret(0)[k] + ret(1)[k]) % Modulus = Value(OpenX(c, k))
           /\ op = "b2a_daBit_multi" =>
                \A v \in DOMAIN ret(0) :
                    (ret(0)[v] + ret(1)[v]) % Modulus = OpenValue(c, v) % Modulus

\* Each call returns at both servers, however little the sockets buffer.
AllCallsReturn == <>(\A s \in Server : call[s] > Len(Calls))
=============================================================================
