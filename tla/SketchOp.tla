------------------------------- MODULE SketchOp -------------------------------
(***************************************************************************)
(* One FREQ, COUNTMIN or HEAVY operation from the client's first share to  *)
(* both servers' return (freq_op, countMin_op, heavy_op of server.cpp).    *)
(*                                                                         *)
(* The bits of every submission are converted to additive shares in one    *)
(* go, and the servers check per row of cells that the number of set bits  *)
(* is the number of submissions expected. If it is not, COUNTMIN and HEAVY *)
(* drop everything, FREQ goes on to check each submission: which messages  *)
(* follow depends on the verdict.                                          *)
(*                                                                         *)
(* Streams are as in PairedOp, except that server 1's size and key list    *)
(* are one message here: PairedOp shows they are read as they were sent.   *)
(***************************************************************************)
EXTENDS Sketch, SequencesExt

CONSTANTS Campaigns,       \* what a client sends: [cfg, num_of_inputs, shares, values]
          Garbage,         \* keys an uninitialised share struct may have
          Junk,            \* bits an unwritten buffer may have, as sets of cells
          Pads,            \* daBit values the conversion may be masked with
          ClientMayCrash   \* whether the client may die before it is done

\* Sums of bits are compared with numbers of inputs, so they must not wrap.
ASSUME SketchAssumption ==
    \A c \in Campaigns :
        /\ c.cfg.type \in SketchOps
        /\ c.num_of_inputs \in 0 .. Modulus - 1
        /\ DOMAIN c.shares = 1 .. c.num_of_inputs

\* What freq_helper, countmin_helper and heavy_helper prepare: both shares of a
\* submission carry its key, which no other has, and they differ in its value's
\* cells; the hashes are drawn for their layers and shrink their inputs (hash.h).
ASSUME PreparedAssumption ==
    \A c \in Campaigns :
        /\ {c.cfg.num_bits, c.cfg.w, c.cfg.d, c.cfg.t[1], c.cfg.t[2]} \subseteq Nat
        /\ Layers(c.cfg) \in 0 .. c.cfg.num_bits
        /\ HasExactRow(c.cfg) \/ c.cfg.d > 0
        /\ \A k \in 0 .. Layers(c.cfg) - 1, j \in 0 .. c.cfg.d - 1 :
            /\ c.cfg.w > 0 /\ W_bits(c.cfg.w) \in 1 .. c.cfg.num_bits - k
            /\ c.cfg.hashes[k][j] \in LayerFamily(c.cfg, k)
        /\ c.values \in [1 .. c.num_of_inputs -> 0 .. 2 ^ c.cfg.num_bits - 1]
        /\ \A k \in 1 .. c.num_of_inputs :
            /\ c.shares[k][0].pk = c.shares[k][1].pk
            /\ \A n \in 1 .. c.num_of_inputs :
                  c.shares[k][0].pk = c.shares[n][0].pk => k = n
            /\ SymDiff(c.shares[k][0].arr, c.shares[k][1].arr) = Hot(c.cfg, c.values[k])

ASSUME PadsAssumption == Pads \subseteq 0 .. Modulus - 1

VARIABLES
    campaign,   \* the client's messages: configuration and prepared shares
    client,     \* "sending" or "closed"
    sent,       \* shares the client has written to each server
    pc,         \* where each server is in its handler
    i, taken,   \* loop counter, and shares actually read
    pk,         \* the key in the struct the receiving loop reads into
    share_map,  \* first vector stored under each public key
    to, rcvd,   \* server-to-server streams and what was read of them
    pk_list,    \* keys in server 1's iteration order
    valid,      \* validity of each listed key
    shares_p,   \* additive shares of each cell of each entry
    result      \* what server 0 returns

vars == <<campaign, client, sent, pc, i, taken, pk, share_map, to, rcvd,
          pk_list, valid, shares_p, result>>

cfg == campaign.cfg
Total_inputs == campaign.num_of_inputs

Init ==
    /\ campaign \in Campaigns
    /\ client = "sending"
    /\ sent = [s \in Server |-> 0]
    /\ pc = [s \in Server |-> "recv"]
    /\ i = [s \in Server |-> 0]
    /\ taken = [s \in Server |-> 0]
    /\ pk \in [Server -> Garbage]
    /\ share_map = [s \in Server |-> <<>>]
    /\ to = [s \in Server |-> <<>>]
    /\ rcvd = [s \in Server |-> 0]
    /\ pk_list = [s \in Server |-> <<>>]
    /\ valid = [s \in Server |-> <<>>]
    /\ shares_p = [s \in Server |-> <<>>]
    /\ result = Pending
-----------------------------------------------------------------------------
(* The meta-client, and the receiving loop of both servers. *)

SendShare(s) ==
    /\ client = "sending"
    /\ sent[s] < Total_inputs
    /\ IF s = 0 THEN sent[0] = sent[1] ELSE sent[1] < sent[0]
    /\ sent' = [sent EXCEPT ![s] = @ + 1]
    /\ UNCHANGED <<campaign, client, pc, i, taken, pk, share_map, to, rcvd,
                   pk_list, valid, shares_p, result>>

Close ==
    /\ client = "sending"
    /\ ClientMayCrash \/ \A s \in Server : sent[s] = Total_inputs
    /\ client' = "closed"
    /\ UNCHANGED <<campaign, sent, pc, i, taken, pk, share_map, to, rcvd,
                   pk_list, valid, shares_p, result>>

KeepLast(m, key, bits) == [q \in DOMAIN m \cup {key} |-> IF q = key THEN bits ELSE m[q]]
Keep(m, key, bits) ==
    IF key \in DOMAIN m THEN m
    ELSE [q \in DOMAIN m \cup {key} |-> IF q = key THEN bits ELSE m[q]]

\* At end of file the key stays what it was, and the fresh vector is unpacked
\* from a buffer nothing was written to.
Recv(s) ==
    /\ pc[s] = "recv" /\ i[s] < Total_inputs
    /\ \/ /\ taken[s] < sent[s]
          /\ LET share == campaign.shares[taken[s] + 1][s] IN
             /\ pk' = [pk EXCEPT ![s] = share.pk]
             /\ share_map' = [share_map EXCEPT ![s] = Keep(@, share.pk, share.arr)]
          /\ taken' = [taken EXCEPT ![s] = @ + 1]
       \/ /\ taken[s] = sent[s] /\ client = "closed"
          /\ \E arr \in Junk : share_map' = [share_map EXCEPT ![s] = Keep(@, pk[s], arr)]
          /\ UNCHANGED <<pk, taken>>
    /\ i' = [i EXCEPT ![s] = @ + 1]
    /\ UNCHANGED <<campaign, client, sent, pc, to, rcvd, pk_list, valid,
                   shares_p, result>>
-----------------------------------------------------------------------------
(* Lining up public keys and converting. *)

Message(kind, val) == [kind |-> kind, val |-> val]
CanRead(s, kind) == rcvd[s] < Len(to[s]) /\ to[s][rcvd[s] + 1].kind = kind
Incoming(s) == to[s][rcvd[s] + 1].val
Read(s) == rcvd' = [rcvd EXCEPT ![s] = @ + 1]
Send(s, kind, val) == to' = [to EXCEPT ![s] = Append(@, Message(kind, val))]

SendPks ==
    /\ pc[1] = "recv" /\ i[1] = Total_inputs
    /\ \E order \in SetToSeqs(DOMAIN share_map[1]) :
         /\ pk_list' = [pk_list EXCEPT ![1] = order]
         /\ Send(0, "pks", order)
    /\ pc' = [pc EXCEPT ![1] = "convert"]
    /\ UNCHANGED <<campaign, client, sent, i, taken, pk, share_map, rcvd, valid,
                   shares_p, result>>

RecvPks ==
    /\ pc[0] = "recv" /\ i[0] = Total_inputs
    /\ CanRead(0, "pks") /\ Read(0)
    /\ pk_list' = [pk_list EXCEPT ![0] = Incoming(0)]
    /\ valid' = [valid EXCEPT ![0] =
                   [n \in DOMAIN Incoming(0) |-> Incoming(0)[n] \in DOMAIN share_map[0]]]
    /\ pc' = [pc EXCEPT ![0] = "convert"]
    /\ UNCHANGED <<campaign, client, sent, i, taken, pk, share_map, to, shares_p,
                   result>>

\* shares[i * max_inp + j]; server 0 has zeros for a key it does not know.
Bits(s, n) ==
    IF pk_list[s][n] \in DOMAIN share_map[s] THEN share_map[s][pk_list[s][n]] ELSE {}

\* checkDaBits and b2a_daBit_single, called by both servers for equally many
\* bits: additive shares of every opened bit (CorrelatedStore, ResultsRecombine).
Convert ==
    /\ \A s \in Server : pc[s] = "convert"
    /\ \E r \in Pads :
         shares_p' = [s \in Server |-> [n \in DOMAIN pk_list[s] |->
            [c \in Cells(cfg) |->
               LET opened == IF c \in SymDiff(Bits(0, n), Bits(1, n)) THEN 1 ELSE 0
               IN IF s = 0 THEN r ELSE (opened - r) % Modulus]]]
    /\ pc' = [pc EXCEPT ![0] = "check", ![1] = "send_check"]
    /\ UNCHANGED <<campaign, client, sent, i, taken, pk, share_map, to, rcvd,
                   pk_list, valid, result>>
-----------------------------------------------------------------------------
(* The batch check: parity and sum of each row, over all submissions. *)

AddUp(values) == FoldFunction(LAMBDA x, sum : (sum + x) % Modulus, 0, values)
XorUp(parities) == FoldFunction(LAMBDA x, p : (p + x) % 2, 0, parities)

EntryParity(s, n, row) == Cardinality(Bits(s, n) \cap row) % 2
EntrySum(s, n, row) == AddUp([c \in row |-> shares_p[s][n][c]])

RowChecks(s) ==
    [r \in DOMAIN Rows(cfg) |->
        [parity |-> XorUp([n \in DOMAIN pk_list[s] |-> EntryParity(s, n, Rows(cfg)[r])]),
         sum    |-> AddUp([n \in DOMAIN pk_list[s] |-> EntrySum(s, n, Rows(cfg)[r])])]]

SendChecks ==
    /\ pc[1] = "send_check"
    /\ Send(0, "checks", RowChecks(1))
    /\ pc' = [pc EXCEPT ![1] = "verdict"]
    /\ UNCHANGED <<campaign, client, sent, i, taken, pk, share_map, rcvd, pk_list,
                   valid, shares_p, result>>

AllValidUnreduced(mine, theirs) ==
    LET last == Len(mine) IN
    /\ (mine[last].parity + theirs[last].parity) % 2 = Total_inputs % 2
    /\ mine[last].sum + theirs[last].sum = Total_inputs
AllValidOfListed(mine, theirs) ==
    LET last == Len(mine) IN
    /\ (mine[last].parity + theirs[last].parity) % 2 = Len(pk_list[0]) % 2
    /\ (mine[last].sum + theirs[last].sum) % Modulus = Len(pk_list[0])
\* Both loops go on after a row that fails, so the last row decides.
AllValid(mine, theirs) ==
    LET last == Len(mine) IN
    /\ (mine[last].parity + theirs[last].parity) % 2 = Total_inputs % 2
    /\ (mine[last].sum + theirs[last].sum) % Modulus = Total_inputs

EveryButLast(n, flag) == [k \in 1 .. n - 1 |-> flag]
Every(n, flag) == [k \in 1 .. n |-> flag]

\* Only FREQ goes on to check the submissions one by one.
AfterRowsGivesUp(all_valid) == "sum"
AfterRows(all_valid) == IF ~all_valid /\ cfg.type = "FREQ_OP" THEN "single" ELSE "sum"

CheckRows ==
    /\ pc[0] = "check"
    /\ CanRead(0, "checks") /\ Read(0)
    /\ LET all_valid == AllValid(RowChecks(0), Incoming(0)) IN
       /\ Send(1, "all_valid", all_valid)
       /\ pc' = [pc EXCEPT ![0] = AfterRows(all_valid)]
       /\ valid' = IF pc'[0] = "single" THEN valid
                   ELSE [valid EXCEPT ![0] = Every(Len(@), all_valid)]
    /\ UNCHANGED <<campaign, client, sent, i, taken, pk, share_map, pk_list,
                   shares_p, result>>

\* accumulate: per cell, over the entries flagged valid.
Accumulate(s, flags) ==
    [c \in Cells(cfg) |->
        AddUp([n \in {m \in DOMAIN flags : flags[m]} |-> shares_p[s][n][c]])]

\* Server 1 follows the verdict. When FREQ goes on to single checks it sends the
\* bool array it has just allocated in place of its parities.
Unwritten(n) == [1 .. n -> BOOLEAN]

RecvVerdict ==
    /\ pc[1] = "verdict"
    /\ CanRead(1, "all_valid") /\ Read(1)
    /\ IF ~Incoming(1) /\ cfg.type = "FREQ_OP"
       THEN /\ \E parities \in Unwritten(Len(pk_list[1])) :
                  Send(0, "singles",
                       [parity |-> parities,
                        sum |-> [n \in DOMAIN pk_list[1] |-> EntrySum(1, n, Cells(cfg))]])
            /\ pc' = [pc EXCEPT ![1] = "valid"]
            /\ UNCHANGED valid
       ELSE /\ valid' = [valid EXCEPT ![1] = Every(Len(pk_list[1]), Incoming(1))]
            /\ Send(0, "sum", Accumulate(1, valid'[1]))
            /\ pc' = [pc EXCEPT ![1] = "done"]
    /\ UNCHANGED <<campaign, client, sent, i, taken, pk, share_map, pk_list,
                   shares_p, result>>

SingleValid(n, singles) ==
    /\ valid[0][n]
    /\ (EntryParity(0, n, Cells(cfg)) = 1) # singles.parity[n]
    /\ (EntrySum(0, n, Cells(cfg)) + singles.sum[n]) % Modulus = 1

SendFlagsIfAny(flags) ==
    IF \E n \in DOMAIN flags : flags[n] THEN Send(1, "valid", flags) ELSE UNCHANGED to
SendFlags(flags) == Send(1, "valid", flags)

CheckSingles ==
    /\ pc[0] = "single"
    /\ CanRead(0, "singles") /\ Read(0)
    /\ valid' = [valid EXCEPT ![0] =
                   [n \in DOMAIN valid[0] |-> SingleValid(n, Incoming(0))]]
    /\ SendFlags(valid'[0])
    /\ pc' = [pc EXCEPT ![0] = "sum"]
    /\ UNCHANGED <<campaign, client, sent, i, taken, pk, share_map, pk_list,
                   shares_p, result>>

RecvValid ==
    /\ pc[1] = "valid"
    /\ CanRead(1, "valid") /\ Read(1)
    /\ valid' = [valid EXCEPT ![1] = Incoming(1)]
    /\ Send(0, "sum", Accumulate(1, valid'[1]))
    /\ pc' = [pc EXCEPT ![1] = "done"]
    /\ UNCHANGED <<campaign, client, sent, i, taken, pk, share_map, pk_list,
                   shares_p, result>>

\* Server 0 adds server 1's totals to its own; the queries use num_inputs, the
\* number of keys listed.
Verdict(b) ==
    LET a         == Accumulate(0, valid[0])
        totals    == [c \in Cells(cfg) |-> (a[c] + b[c]) % Modulus]
        num_valid == Cardinality({n \in DOMAIN valid[0] : valid[0][n]})
    IN IF BelowThreshold(num_valid, Total_inputs) THEN Invalid
       ELSE Answer(Queried(cfg, totals, Len(pk_list[0])))

RecvTotals ==
    /\ pc[0] = "sum"
    /\ CanRead(0, "sum") /\ Read(0)
    /\ result' = Verdict(Incoming(0))
    /\ pc' = [pc EXCEPT ![0] = "done"]
    /\ UNCHANGED <<campaign, client, sent, i, taken, pk, share_map, to, pk_list,
                   valid, shares_p>>
-----------------------------------------------------------------------------
ClientStep == Close \/ \E s \in Server : SendShare(s)
Server0Step == Recv(0) \/ RecvPks \/ CheckRows \/ CheckSingles \/ RecvTotals
Server1Step == Recv(1) \/ SendPks \/ SendChecks \/ RecvVerdict \/ RecvValid

Next == ClientStep \/ Server0Step \/ Server1Step \/ Convert

Spec == Init /\ [][Next]_vars

\* Each process goes on while it can: the servers are never suspended, the
\* client sends or its sockets are closed by its exit.
FairSpec ==
    /\ Spec
    /\ WF_vars(ClientStep) /\ WF_vars(Server0Step) /\ WF_vars(Server1Step)
    /\ WF_vars(Convert)
-----------------------------------------------------------------------------
(* Properties. *)

Decided == pc[0] = "done"
ClientDone == client = "closed" /\ \A s \in Server : sent[s] = Total_inputs

\* Each server has read a share, so that a repeated struct repeats a real key.
BothHeard == \A s \in Server : taken[s] > 0

\* Submissions of which both servers got their share, and how many hold x.
ReachedBoth == {n \in 1 .. Total_inputs : \A s \in Server : n <= sent[s]}
Count(S, x) == Cardinality({n \in S : campaign.values[n] = x})
Frequencies(S) == [x \in Cells(cfg) |-> Count(S, x)]

\* Every variable keeps its shape, and there is a flag per listed key.
TypeOK ==
    /\ campaign \in Campaigns
    /\ client \in {"sending", "closed"}
    /\ pc \in [Server -> {"recv", "convert", "check", "send_check", "verdict",
                         "single", "valid", "sum", "done"}]
    /\ \A s \in Server : taken[s] <= sent[s] /\ taken[s] <= i[s] /\ i[s] <= Total_inputs
    /\ \A s \in Server : valid[s] \in Seq(BOOLEAN)
    /\ pc[0] # "recv" => Len(valid[0]) = Len(pk_list[0])
    /\ pc[1] = "done" => Len(valid[1]) = Len(pk_list[1])

\* Whatever the verdicts, the servers take the same branch: neither finds a
\* message of another kind than the one it asks for, and nothing is left on
\* the connection when both have returned.
Wanted(s) ==
    CASE pc[s] = "recv" /\ s = 0   -> {"pks"}
      [] pc[s] \in {"convert", "check"} /\ s = 0 -> {"checks"}
      [] pc[s] = "single"          -> {"singles"}
      [] pc[s] = "sum"             -> {"sum"}
      [] pc[s] = "verdict"         -> {"all_valid"}
      [] pc[s] = "valid"           -> {"valid"}
      [] OTHER                     -> {}
StreamsInStep ==
    \A s \in Server : rcvd[s] < Len(to[s]) => to[s][rcvd[s] + 1].kind \in Wanted(s)

\* A client that delivered everything gets an answer; for FREQ it is the exact
\* histogram the client prints.
HonestCounts ==
    ClientDone /\ Decided =>
        /\ result.ret = "RET_ANS"
        /\ cfg.type = "FREQ_OP" => result.ans = Frequencies(DOMAIN campaign.values)

\* After a client died halfway, no frequency exceeds what reached both servers.
NothingInvented ==
    BothHeard /\ cfg.type = "FREQ_OP" /\ result.ret = "RET_ANS" =>
        \A x \in Cells(cfg) : result.ans[x] <= Count(ReachedBoth, x)

\* COUNTMIN and HEAVY answer only when every submission is in the totals.
AllOrNothing ==
    BothHeard /\ cfg.type # "FREQ_OP" /\ result.ret = "RET_ANS" =>
        ReachedBoth = 1 .. Total_inputs

\* A value as frequent as the threshold is never missing from the answer:
\* hashing can only raise an estimate, and so for every prefix of the value.
AllHeavyFound ==
    BothHeard /\ cfg.type # "FREQ_OP" /\ result.ret = "RET_ANS" =>
        {x \in 0 .. 2 ^ cfg.num_bits - 1 :
            AtLeast(cfg, Count(1 .. Total_inputs, x), Total_inputs)} \subseteq result.ans

\* The comment on freq_op's second round: if the batch check fails each
\* submission is tested alone, so the intact ones that reached both servers are
\* what is counted, or is found to be too little.
DeliveredCounted ==
    BothHeard /\ Decided /\ cfg.type = "FREQ_OP" =>
        IF BelowThreshold(Cardinality(ReachedBoth), Total_inputs)
        THEN result.ret = "RET_INVALID"
        ELSE result.ret = "RET_ANS" /\ result.ans = Frequencies(ReachedBoth)

\* hash.h: the hashes of two distinct inputs are independent of each other and
\* uniform, over the hashes a store may draw.
PairwiseIndependent ==
    \A k \in 0 .. Layers(cfg) - 1 :
        \A x, y \in 0 .. 2 ^ (cfg.num_bits - (Layers(cfg) - 1 - k)) - 1 :
            \A u, v \in 0 .. cfg.w - 1 :
                x # y => Cardinality({h \in LayerFamily(cfg, k) :
                                        Eval(h, x) = u /\ Eval(h, y) = v}) * cfg.w * cfg.w
                         = Cardinality(LayerFamily(cfg, k))

\* Whatever the client does, once it is gone both handlers return.
BothReturn == <>(\A s \in Server : pc[s] = "done")
=============================================================================
