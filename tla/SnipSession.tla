----------------------------- MODULE SnipSession -----------------------------
(***************************************************************************)
(* validate_snips of server.cpp: both servers check a batch of proofs at   *)
(* the point they share, swap what masks the one multiplication that is    *)
(* left, and swap shares of a random combination of everything that has to *)
(* be zero. The combination's coefficients are drawn, entry after entry,   *)
(* from a seed they share.                                                 *)
(*                                                                         *)
(* Each send is a forked child's, so it never waits for the peer to read:  *)
(* a stream is a sequence of messages.                                     *)
(***************************************************************************)
EXTENDS Snip, FiniteSets

CONSTANTS Batches,   \* sequences of submissions validated together, each
                     \* [ckt, inp, proved, rnd, how, mask]: the inputs submitted,
                     \* those the proof is about, and how it is made and cut
          Streams    \* numbers snips_seed may yield, sequences long enough

\* Bound on a batch, so that positions in the stream stay simple.
ASSUME BatchAssumption == \A batch \in Batches : Len(batch) \in 1 .. 2

VARIABLES
    batch,            \* the submissions
    packet, shares_p, \* each server's halves of the proofs, shares of the inputs
    randomX,          \* the point, once server 1 has drawn and sent it
    snips_seed,       \* the numbers both draw, from the first on
    pc, checker, cor_share, valid_share,
    to,               \* unread messages
    ans               \* per server, which entries it takes to be valid

vars == <<batch, packet, shares_p, randomX, snips_seed, pc, checker,
          cor_share, valid_share, to, ans>>

\* What the servers hold of one submission: the packet of the statement the
\* client proves, and shares of the inputs it submitted.
Half(sub, s) == Corrupt(s, SplitPacket(s, SharePolynomials(sub.ckt, sub.proved, sub.rnd), sub.mask),
                        sub.how)

Init ==
    /\ batch \in Batches
    /\ packet = [s \in Server |-> [n \in DOMAIN batch |-> Half(batch[n], s)]]
    /\ shares_p = [s \in Server |->
                     [n \in DOMAIN batch |-> SplitArray(s, batch[n].inp, batch[n].mask)]]
    /\ randomX = 0 /\ snips_seed = <<>>
    /\ pc = [s \in Server |-> "sync"]
    /\ checker = [s \in Server |-> <<>>]
    /\ cor_share = [s \in Server |-> <<>>]
    /\ valid_share = [s \in Server |-> <<>>]
    /\ to = [s \in Server |-> <<>>]
    /\ ans = [s \in Server |-> <<>>]
-----------------------------------------------------------------------------
\* sync_randomX and syncSnipSeeds, before there is anything to validate.
Sync ==
    /\ pc = [s \in Server |-> "sync"]
    /\ randomX' \in Field /\ snips_seed' \in Streams
    /\ pc' = [s \in Server |-> "check"]
    /\ UNCHANGED <<batch, packet, shares_p, checker, cor_share, valid_share, to, ans>>

Send(s, what) == to' = [to EXCEPT ![1 - s] = Append(@, what)]

Check(s) ==
    /\ pc[s] = "check"
    /\ checker' = [checker EXCEPT ![s] = [n \in DOMAIN batch |->
                     Checker(batch[n].ckt, packet[s][n], shares_p[s][n], randomX)]]
    /\ cor_share' = [cor_share EXCEPT ![s] = [n \in DOMAIN batch |->
                     CorShare(checker'[s][n], packet[s][n])]]
    /\ Send(s, cor_share'[s])
    /\ pc' = [pc EXCEPT ![s] = "cor"]
    /\ UNCHANGED <<batch, packet, shares_p, randomX, snips_seed, valid_share, ans>>

\* Entry n's coefficients come after those of the entries before it.
Needs(n) == Len(batch[n].ckt) + 1
Before(n) == IF n = 1 THEN 0 ELSE Needs(1)
Coefficients(n) == [k \in 1 .. Needs(n) |-> snips_seed[Before(n) + k]]

RecvCor(s) ==
    /\ pc[s] = "cor" /\ to[s] # <<>>
    /\ valid_share' = [valid_share EXCEPT ![s] = [n \in DOMAIN batch |->
                         OutShare(s, checker[s][n], packet[s][n],
                                  Cor(cor_share[s][n], Head(to[s])[n]), Coefficients(n))]]
    /\ to' = [to EXCEPT ![s] = Tail(@), ![1 - s] = Append(@, valid_share'[s])]
    /\ pc' = [pc EXCEPT ![s] = "out"]
    /\ UNCHANGED <<batch, packet, shares_p, randomX, snips_seed, checker, cor_share, ans>>

RecvOut(s) ==
    /\ pc[s] = "out" /\ to[s] # <<>>
    /\ ans' = [ans EXCEPT ![s] = [n \in DOMAIN batch |->
                 AddToZero(valid_share[s][n], Head(to[s])[n])]]
    /\ to' = [to EXCEPT ![s] = Tail(@)]
    /\ pc' = [pc EXCEPT ![s] = "done"]
    /\ UNCHANGED <<batch, packet, shares_p, randomX, snips_seed, checker,
                   cor_share, valid_share>>

Next == Sync \/ \E s \in Server : Check(s) \/ RecvCor(s) \/ RecvOut(s)
Spec == Init /\ [][Next]_vars
-----------------------------------------------------------------------------
(* What a submission is worth, from what both servers hold of it. *)

Opened(a, b) == (a + b) % Modulus
OpenedArray(a, b) == [k \in DOMAIN a |-> Opened(a[k], b[k])]
OpenedInputs(n) == OpenedArray(shares_p[0][n], shares_p[1][n])

\* The submitted inputs satisfy the circuit, and the packet is what an honest
\* client could have sent with them.
Proves(n) ==
    LET p == packet[0][n]
        q == packet[1][n]
        rnd == [f0 |-> Opened(p.f0, q.f0), g0 |-> Opened(p.g0, q.g0),
                A |-> Opened(p.A, q.A), B |-> Opened(p.B, q.B)]
    IN /\ Satisfies(batch[n].ckt, OpenedInputs(n), Modulus)
       /\ [rnd |-> rnd, h0 |-> Opened(p.h0, q.h0), C |-> Opened(p.C, q.C),
           MulShares |-> OpenedArray(p.MulShares, q.MulShares),
           h_points |-> OpenedArray(p.h_points, q.h_points)]
          = LET own == SharePolynomials(batch[n].ckt, OpenedInputs(n), rnd)
            IN [rnd |-> rnd, h0 |-> own.h0, C |-> own.C,
                MulShares |-> own.MulShares, h_points |-> own.h_points]

\* The combinations of coefficients with which entry n passes at point x.
Passing(n, x) ==
    LET c0 == Checker(batch[n].ckt, packet[0][n], shares_p[0][n], x)
        c1 == Checker(batch[n].ckt, packet[1][n], shares_p[1][n], x)
        cor == Cor(CorShare(c0, packet[0][n]), CorShare(c1, packet[1][n]))
    IN {r \in [1 .. Needs(n) -> Field] : AddToZero(OutShare(0, c0, packet[0][n], cor, r),
                                                  OutShare(1, c1, packet[1][n], cor, r))}

\* A proved submission passes on both servers at every point, the points the
\* polynomials were interpolated at included, however its shares were cut,
\* and whatever else is in the batch: both servers give each entry the same
\* coefficients.
ProvedPasses ==
    \A n \in DOMAIN batch : Proves(n) => \A s \in Server : pc[s] = "done" => ans[s][n]

\* Anything else passes by chance alone. The polynomial x f(x) g(x) - x h(x)
\* + (C - A B) is not zero or else some zero gate is not: the one has at most
\* 2N roots x, and elsewhere one coefficient in Modulus makes a combination
\* with a term that is not zero come out as zero.
NoRoots(n) == 2 * NextPowerOfTwo(Len(batch[n].ckt))
Bound(n) ==
    NoRoots(n) * Modulus ^ Needs(n) + (Modulus - NoRoots(n)) * Modulus ^ (Needs(n) - 1)
CountPassing(n) == LET f[k \in 0 .. Modulus] ==
                        IF k = 0 THEN 0 ELSE f[k - 1] + Cardinality(Passing(n, k - 1))
                   IN f[Modulus]
OthersPassByChance ==
    pc[0] = "sync" => \A n \in DOMAIN batch : ~Proves(n) => CountPassing(n) <= Bound(n)

\* Nothing satisfies a circuit but a client's inputs, every product where the
\* client and the servers put it: a change of any one number is noticed.
Reduced(inp) == [k \in DOMAIN inp |-> inp[k] % Modulus]
Layout(ckt, inp) ==
    IF ckt = CheckVar THEN Reduced(VarInputs(inp[0]))
    ELSE LET degree == CHOOSE d \in 2 .. Len(ckt) + 1 : Cardinality(DOMAIN inp) = NumFields(d)
         IN Reduced(LinRegInputs([k \in 1 .. degree - 1 |-> inp[k - 1]], inp[degree - 1]))
OnlyProducts ==
    pc[0] = "sync" =>
        \A n \in DOMAIN batch : \A k \in DOMAIN batch[n].inp, v \in Field :
            LET inp == [batch[n].inp EXCEPT ![k] = v]
            IN Satisfies(batch[n].ckt, inp, Modulus) <=> inp = Layout(batch[n].ckt, inp)
=============================================================================
