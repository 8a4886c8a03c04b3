------------------------------ MODULE PairedOp ------------------------------
(***************************************************************************)
(* One aggregate operation from the client's first share to both servers'  *)
(* return: bit_sum, int_sum, xor_op (AND, OR) and max_op (MAX, MIN) of     *)
(* server.cpp, run by two server processes against one meta-client.        *)
(*                                                                         *)
(* Both servers have read the same initMsg. The client sends share i to    *)
(* server 0, then to server 1, and may die in between. Server 1 sends its  *)
(* public keys in the iteration order of its hash map; server 0 answers    *)
(* which of them it has too; server 1 sends its sum; server 0 reports.     *)
(*                                                                         *)
(* A TCP stream is the sequence of messages written to it and the count of *)
(* those read: to[s] is the server-to-server stream that server s reads,   *)
(* sent[s] counts the shares the client wrote to server s.                 *)
(***************************************************************************)
EXTENDS AggregateOps

CONSTANTS Campaigns,       \* what a client sends: [msg, shares, printed]
          Garbage,         \* contents an uninitialised share struct may have
          Junk,            \* contents an uninitialised payload may have
          Pads,            \* the random words the OT sender may draw
          MayDie           \* campaigns whose client may die before it is done

ASSUME CampaignsAssumption ==
    \A c \in Campaigns :
        /\ c.msg.num_of_inputs \in Nat
        /\ DOMAIN c.shares = 1 .. c.msg.num_of_inputs
        /\ c.msg.type \in SumOps \cup XorOps

\* The payload of a sum is a bool (BitShare) or a 64-bit word (IntShare), also
\* in a struct nobody wrote to; the OT pads are 64-bit words.
Payloads(type) == SUBSET (IF type = "BIT_SUM" THEN {0} ELSE Nat)

ASSUME PayloadsAssumption ==
    /\ Pads \subseteq 0 .. Word - 1
    /\ \A c \in Campaigns : c.msg.type \in SumOps =>
          /\ c.msg.num_bits \in Nat /\ (c.msg.type = "BIT_SUM" => c.msg.num_bits > 0)
          /\ \A k \in DOMAIN c.shares, s \in Server : c.shares[k][s].val \in Payloads(c.msg.type)
          /\ \A g \in Garbage : g.val \in Payloads(c.msg.type)

\* The submissions a routine calls valid: both shares are sent under one key,
\* that none before has, and neither server finds its share out of range.
TooWide(c, val) == c.msg.type = "INT_SUM" /\ \E k \in val : k >= c.msg.num_bits
Genuine(c) ==
    {k \in DOMAIN c.shares :
        /\ c.shares[k][0].pk = c.shares[k][1].pk
        /\ \A n \in 1 .. k - 1 : \A s \in Server : c.shares[n][s].pk # c.shares[k][0].pk
        /\ \A s \in Server : ~TooWide(c, c.shares[k][s].val)}

\* What its shares open to, the value that stands for, and the "Ans" printed.
PayloadOf(c) == [k \in DOMAIN c.shares |-> SymDiff(c.shares[k][0].val, c.shares[k][1].val)]
Marks(payload) == {p[1] : p \in payload}
ValueOf(c, k) ==
    LET payload == PayloadOf(c)[k]
    IN CASE c.msg.type = "AND_OP" -> IF payload = {} THEN 1 ELSE 0
         [] c.msg.type = "OR_OP"  -> IF payload = {} THEN 0 ELSE 1
         [] c.msg.type = "MAX_OP" -> Max(Marks(payload))
         [] c.msg.type = "MIN_OP" -> c.msg.max_inp - Max(Marks(payload))
TotalOf(c) == MapThenSumSet(LAMBDA k : Number(PayloadOf(c)[k]), Genuine(c))
AnsOf(c) ==
    LET values == {ValueOf(c, k) : k \in Genuine(c)}
    IN CASE c.msg.type = "AND_OP" -> IF 0 \in values THEN 0 ELSE 1
         [] c.msg.type = "OR_OP"  -> IF 1 \in values THEN 1 ELSE 0
         [] c.msg.type = "MAX_OP" -> Max(values \cup {0})
         [] c.msg.type = "MIN_OP" -> Min(values \cup {c.msg.max_inp})
         [] OTHER                 -> Wrap(TotalOf(c))

\* A routine prints the aggregate of what it calls valid, and repeats the key
\* of no other submission. Its random words do not cancel; a value to find the
\* maximum or minimum of is below the bound, and marks some index.
ASSUME RoutinesAssumption ==
    \A c \in Campaigns :
        /\ c.printed = AnsOf(c)
        /\ \A j, k \in DOMAIN c.shares : \A s, t \in Server :
              j # k /\ c.shares[j][s].pk = c.shares[k][t].pk =>
                  \E n \in Genuine(c) : /\ n <= j /\ n <= k
                                        /\ c.shares[n][0].pk = c.shares[j][s].pk
        /\ c.msg.type \in XorOps =>
              \A j, k \in Genuine(c) : j # k => PayloadOf(c)[j] \cap PayloadOf(c)[k] = {}
        /\ c.msg.type \in MaxOps =>
              /\ c.msg.max_inp \in Nat
              /\ \A k \in Genuine(c) : /\ Marks(PayloadOf(c)[k]) # {}
                                       /\ Marks(PayloadOf(c)[k]) \subseteq 0 .. c.msg.max_inp

VARIABLES
    campaign,   \* the client's initMsg and its prepared shares
    client,     \* "sending" or "closed"
    sent,       \* shares the client has written to each server
    pc,         \* where each server is in its handler
    i,          \* loop counter of the receiving loop
    taken,      \* shares actually read from the client's stream
    share,      \* the struct the receiving loop reads into
    share_map,  \* first share stored under each public key
    to, rcvd,   \* server-to-server streams and what was read of them
    num_inputs, \* the number of keys server 0 was told to expect
    pk_list,    \* keys in server 1's iteration order, and as read by server 0
    valid,      \* validity of each listed key
    shares_p,   \* additive shares of each entry
    acc,        \* each server's own aggregate
    result      \* what server 0 returns

vars == <<campaign, client, sent, pc, i, taken, share, share_map, to, rcvd,
          num_inputs, pk_list, valid, shares_p, acc, result>>

msg == campaign.msg
Total_inputs == msg.num_of_inputs
UsesOT == msg.type \in SumOps

Init ==
    /\ campaign \in Campaigns
    /\ client = "sending"
    /\ sent = [s \in Server |-> 0]
    /\ pc = [s \in Server |-> "recv"]
    /\ i = [s \in Server |-> 0]
    /\ taken = [s \in Server |-> 0]
    /\ share \in [Server -> Garbage]
    /\ share_map = [s \in Server |-> <<>>]
    /\ to = [s \in Server |-> <<>>]
    /\ rcvd = [s \in Server |-> 0]
    /\ num_inputs = 0
    /\ pk_list = [s \in Server |-> <<>>]
    /\ valid = [s \in Server |-> <<>>]
    /\ shares_p = [s \in Server |-> <<>>]
    /\ acc = [s \in Server |-> IF UsesOT THEN 0 ELSE {}]
    /\ result = Pending
-----------------------------------------------------------------------------
(* The meta-client: share k to server 0, share k to server 1, next k. *)

SendShare(s) ==
    /\ client = "sending"
    /\ sent[s] < Total_inputs
    /\ IF s = 0 THEN sent[0] = sent[1] ELSE sent[1] < sent[0]
    /\ sent' = [sent EXCEPT ![s] = @ + 1]
    /\ UNCHANGED <<campaign, client, pc, i, taken, share, share_map, to, rcvd,
                   num_inputs, pk_list, valid, shares_p, acc, result>>

Close ==
    /\ client = "sending"
    /\ campaign \in MayDie \/ \A s \in Server : sent[s] = Total_inputs
    /\ client' = "closed"
    /\ UNCHANGED <<campaign, sent, pc, i, taken, share, share_map, to, rcvd,
                   num_inputs, pk_list, valid, shares_p, acc, result>>
-----------------------------------------------------------------------------
(* Receiving loop of both servers. *)

MoreExpectedOffByOne(s) == i[s] <= Total_inputs
MoreExpected(s) == i[s] < Total_inputs

\* share.val >= max_val, tested by int_sum only
OutOfRangeInclusive(val) == msg.type = "INT_SUM" /\ \E k \in val : k > msg.num_bits
OutOfRange(val) == msg.type = "INT_SUM" /\ \E k \in val : k >= msg.num_bits

KeepLast(m, sh) ==
    IF OutOfRange(sh.val) THEN m
    ELSE [pk \in DOMAIN m \cup {sh.pk} |-> IF pk = sh.pk THEN sh.val ELSE m[pk]]
Keep(m, sh) ==
    IF sh.pk \in DOMAIN m \/ OutOfRange(sh.val) THEN m
    ELSE [pk \in DOMAIN m \cup {sh.pk} |-> IF pk = sh.pk THEN sh.val ELSE m[pk]]

RecvBlocksAtEof(s) ==
    /\ pc[s] = "recv" /\ MoreExpected(s)
    /\ taken[s] < sent[s]
    /\ share' = [share EXCEPT ![s] = campaign.shares[taken[s] + 1][s]]
    /\ taken' = [taken EXCEPT ![s] = @ + 1]
    /\ share_map' = [share_map EXCEPT ![s] = Keep(@, share'[s])]
    /\ i' = [i EXCEPT ![s] = @ + 1]
    /\ UNCHANGED <<campaign, client, sent, pc, to, rcvd, num_inputs, pk_list,
                   valid, shares_p, acc, result>>

\* recv_in returns the next share, or at end of file leaves the struct alone;
\* either way the loop goes on with what the struct holds.
AtEofFresh(s) == share' \in {[share EXCEPT ![s] = g] : g \in Garbage}
AtEof(s) == UNCHANGED share

Recv(s) ==
    /\ pc[s] = "recv" /\ MoreExpected(s)
    /\ \/ /\ taken[s] < sent[s]
          /\ share' = [share EXCEPT ![s] = campaign.shares[taken[s] + 1][s]]
          /\ taken' = [taken EXCEPT ![s] = @ + 1]
       \/ /\ taken[s] = sent[s] /\ client = "closed"
          /\ AtEof(s) /\ UNCHANGED taken
    /\ share_map' = [share_map EXCEPT ![s] = Keep(@, share'[s])]
    /\ i' = [i EXCEPT ![s] = @ + 1]
    /\ UNCHANGED <<campaign, client, sent, pc, to, rcvd, num_inputs, pk_list,
                   valid, shares_p, acc, result>>
-----------------------------------------------------------------------------
(* Lining up public keys. *)

Message(kind, val) == [kind |-> kind, val |-> val]
CanRead(s, kind) == rcvd[s] < Len(to[s]) /\ to[s][rcvd[s] + 1].kind = kind
Incoming(s) == to[s][rcvd[s] + 1].val
Read(s) == rcvd' = [rcvd EXCEPT ![s] = @ + 1]

Enumerations(S) ==
    {f \in [1 .. Cardinality(S) -> S] : \A pk \in S : \E n \in DOMAIN f : f[n] = pk}

\* Server 1: the map size, then every key, in the map's iteration order.
Opening(order) ==
    [n \in 1 .. Len(order) + 1 |-> IF n = 1 THEN Message("size", Len(order))
                                   ELSE Message("pk", order[n - 1])]

SendPks ==
    /\ pc[1] = "recv" /\ i[1] = Total_inputs
    /\ \E order \in Enumerations(DOMAIN share_map[1]) :
         /\ pk_list' = [pk_list EXCEPT ![1] = order]
         /\ to' = [to EXCEPT ![0] = Opening(order)]
    /\ pc' = [pc EXCEPT ![1] = IF UsesOT THEN "ot" ELSE "valid"]
    /\ UNCHANGED <<campaign, client, sent, i, taken, share, share_map, rcvd,
                   num_inputs, valid, shares_p, acc, result>>

AfterPksShort(count) == IF Len(valid'[0]) + 1 < count THEN "pks"
                        ELSE IF UsesOT THEN "ot" ELSE "valid"
AfterPks(count) == IF Len(valid'[0]) < count THEN "pks"
                   ELSE IF UsesOT THEN "ot" ELSE "valid"

RecvSize ==
    /\ pc[0] = "recv" /\ i[0] = Total_inputs
    /\ CanRead(0, "size") /\ Read(0)
    /\ num_inputs' = Incoming(0)
    /\ valid' = valid
    /\ pc' = [pc EXCEPT ![0] = AfterPks(num_inputs')]
    /\ UNCHANGED <<campaign, client, sent, i, taken, share, share_map, to,
                   pk_list, shares_p, acc, result>>

\* share_map.find(pk) != share_map.end()
HasShareAssumed(s, pk) == TRUE
HasShare(s, pk) == pk \in DOMAIN share_map[s]

RecvPk ==
    /\ pc[0] = "pks"
    /\ CanRead(0, "pk") /\ Read(0)
    /\ pk_list' = [pk_list EXCEPT ![0] = Append(@, Incoming(0))]
    /\ valid' = [valid EXCEPT ![0] = Append(@, HasShare(0, Incoming(0)))]
    /\ pc' = [pc EXCEPT ![0] = AfterPks(num_inputs)]
    /\ UNCHANGED <<campaign, client, sent, i, taken, share, share_map, to,
                   num_inputs, shares_p, acc, result>>
-----------------------------------------------------------------------------
(* Share conversion: both servers are in it, and leave it, together. *)

\* shares[i] of each server; server 0 leaves the entries of unknown keys as
\* they were allocated.
Aligned(s, junk) ==
    [n \in DOMAIN pk_list[s] |->
        IF HasShare(s, pk_list[s][n]) THEN share_map[s][pk_list[s][n]]
        ELSE junk]

\* bit_sum: bitsum_ot with the validity mask, modulo 2^64.
BitConvert(pads, junk) ==
    LET pad      == [n \in DOMAIN pk_list[0] |-> pads[n][0]]
        messages == BitMessages(Aligned(0, junk), valid[0], pad, 0)
    IN /\ acc' = [s \in Server |->
                     IF s = 0 THEN BitSenderSum(Aligned(0, junk), valid[0], pad, 0)
                     ELSE BitReceiverSum(Aligned(1, junk), messages, 0)]
       /\ pc' = [s \in Server |-> "sum"]
       /\ UNCHANGED shares_p

\* int_sum: intsum_ot of every entry, invalid ones too, modulo Int_Modulus. (The
\* call asks for nvalues = 10000 values per input; accumulate then reads the
\* first num_inputs of them, which are one per input while there are at most
\* 10000 inputs.)
IntConvert(pads, junk) ==
    LET bits        == msg.num_bits
        messages(n) == IntMessages(Aligned(0, junk)[n], TRUE, bits, pads[n], Modulus)
    IN /\ shares_p' = [s \in Server |-> [n \in DOMAIN pk_list[s] |->
             IF s = 0
             THEN IntSenderShare(Aligned(0, junk)[n], TRUE, bits, pads[n], Modulus)
             ELSE IntReceiverShare(Aligned(1, junk)[n], bits, messages(n), Modulus)]]
       /\ pc' = [s \in Server |-> "valid"]
       /\ UNCHANGED acc

Convert ==
    /\ \A s \in Server : pc[s] = "ot"
    /\ \E pads \in [DOMAIN pk_list[0] -> [0 .. msg.num_bits - 1 -> Pads]], junk \in Junk :
          IF msg.type = "BIT_SUM" THEN BitConvert(pads, junk) ELSE IntConvert(pads, junk)
    /\ UNCHANGED <<campaign, client, sent, i, taken, share, share_map, to, rcvd,
                   num_inputs, pk_list, valid, result>>
-----------------------------------------------------------------------------
(* Validity, aggregation and the verdict. *)

Counted(flags) == {n \in DOMAIN flags : flags[n]}

\* accumulate, and the XOR loops of xor_op and max_op
Accumulate(s, flags) ==
    IF UsesOT
    THEN FoldLeft(LAMBDA sum, n : IF flags[n] THEN (sum + shares_p[s][n]) % Modulus ELSE sum,
                  0, [n \in DOMAIN flags |-> n])
    ELSE XorAll([n \in Counted(flags) |-> share_map[s][pk_list[s][n]]], Counted(flags))

SendValid ==
    /\ pc[0] = "valid"
    /\ to' = [to EXCEPT ![1] = Append(@, Message("valid", valid[0]))]
    /\ acc' = [acc EXCEPT ![0] = Accumulate(0, valid[0])]
    /\ pc' = [pc EXCEPT ![0] = "sum"]
    /\ UNCHANGED <<campaign, client, sent, i, taken, share, share_map, rcvd,
                   num_inputs, pk_list, valid, shares_p, result>>

\* Server 1 aggregates by server 0's flags, sends its sum, returns RET_NO_ANS.
RecvValid ==
    /\ pc[1] = "valid"
    /\ CanRead(1, "valid") /\ Read(1)
    /\ valid' = [valid EXCEPT ![1] = Incoming(1)]
    /\ acc' = [acc EXCEPT ![1] = Accumulate(1, valid'[1])]
    /\ to' = [to EXCEPT ![0] = Append(@, Message("sum", acc'[1]))]
    /\ pc' = [pc EXCEPT ![1] = "done"]
    /\ UNCHANGED <<campaign, client, sent, i, taken, share, share_map,
                   num_inputs, pk_list, shares_p, result>>

\* bit_sum has no flags to wait for.
SendBitSum ==
    /\ pc[1] = "sum"
    /\ to' = [to EXCEPT ![0] = Append(@, Message("sum", acc[1]))]
    /\ pc' = [pc EXCEPT ![1] = "done"]
    /\ UNCHANGED <<campaign, client, sent, i, taken, share, share_map, rcvd,
                   num_inputs, pk_list, valid, shares_p, acc, result>>

Combine(b) ==
    CASE msg.type = "BIT_SUM" -> Answer(Wrap(acc[0] + b))
      [] msg.type = "INT_SUM" -> Answer((acc[0] + b) % Modulus)
      [] OTHER                -> Decode(msg, SymDiff(acc[0], b))

RecvSumUnlessInvalid ==
    /\ pc[0] = "sum"
    /\ IF BelowThreshold(Cardinality(Counted(valid[0])), Total_inputs)
       THEN result' = Invalid /\ UNCHANGED rcvd
       ELSE CanRead(0, "sum") /\ Read(0) /\ result' = Combine(Incoming(0))
    /\ pc' = [pc EXCEPT ![0] = "done"]
    /\ UNCHANGED <<campaign, client, sent, i, taken, share, share_map, to,
                   num_inputs, pk_list, valid, shares_p, acc>>

RecvSum ==
    /\ pc[0] = "sum"
    /\ CanRead(0, "sum") /\ Read(0)
    /\ result' = IF BelowThreshold(Cardinality(Counted(valid[0])), Total_inputs)
                 THEN Invalid ELSE Combine(Incoming(0))
    /\ pc' = [pc EXCEPT ![0] = "done"]
    /\ UNCHANGED <<campaign, client, sent, i, taken, share, share_map, to,
                   num_inputs, pk_list, valid, shares_p, acc>>
-----------------------------------------------------------------------------
ClientStep == Close \/ \E s \in Server : SendShare(s)
Server0Step == Recv(0) \/ RecvSize \/ RecvPk \/ SendValid \/ RecvSum
Server1Step == Recv(1) \/ SendPks \/ RecvValid \/ SendBitSum

Next == ClientStep \/ Server0Step \/ Server1Step \/ Convert

Spec == Init /\ [][Next]_vars

\* Each process goes on while it can: the servers are never suspended, the
\* client sends or its sockets are closed by its exit.
FairSpec ==
    /\ Spec
    /\ WF_vars(ClientStep) /\ WF_vars(Server0Step) /\ WF_vars(Server1Step)
    /\ WF_vars(Convert)
-----------------------------------------------------------------------------
(* Properties. *)

ClientDone == client = "closed" /\ \A s \in Server : sent[s] = Total_inputs
BothStored == DOMAIN share_map[0] \cap DOMAIN share_map[1]
CountedKeys(s) == {pk_list[s][n] : n \in Counted(valid[s])}

\* Every variable keeps its shape; counters stay within the campaign.
TypeOK ==
    /\ campaign \in Campaigns
    /\ client \in {"sending", "closed"}
    /\ sent \in [Server -> 0 .. Total_inputs]
    /\ pc \in [Server -> {"recv", "pks", "ot", "valid", "sum", "done"}]
    /\ i \in [Server -> 0 .. Total_inputs]
    /\ taken \in [Server -> 0 .. Total_inputs]
    /\ \A s \in Server : taken[s] <= sent[s] /\ taken[s] <= i[s]
    /\ \A s \in Server : IsFiniteSet(DOMAIN share_map[s])
                         /\ Cardinality(DOMAIN share_map[s]) <= i[s]
    /\ rcvd \in [Server -> Nat]
    /\ num_inputs \in 0 .. Total_inputs
    /\ valid \in [Server -> Seq(BOOLEAN)]

\* Both servers aggregate the same submissions, those whose key each of them
\* stored, whatever order server 1's hash map lists them in.
SameInputsCounted ==
    /\ pc[0] \in {"ot", "valid", "sum", "done"} => CountedKeys(0) = BothStored
    /\ pc[1] = "done" /\ msg.type # "BIT_SUM" => CountedKeys(1) = BothStored

\* Neither server ever finds a message of another kind than the one its
\* handler asks for: the raw byte streams stay aligned.
Wanted(s) ==
    CASE s = 0 /\ pc[0] = "recv" -> {"size"}
      [] s = 0 /\ pc[0] = "pks"  -> {"pk"}
      [] s = 0 /\ pc[0] \in {"ot", "valid", "sum"} -> {"sum"}
      [] s = 1 /\ pc[1] = "valid" -> {"valid"}
      [] OTHER -> {}

StreamsInStep ==
    \A s \in Server : rcvd[s] < Len(to[s]) => to[s][rcvd[s] + 1].kind \in Wanted(s)

\* When both handlers have returned, nothing is left on the connection the
\* next operation will use, also when the verdict is RET_INVALID.
StreamsDrained ==
    (\A s \in Server : pc[s] = "done") => \A s \in Server : rcvd[s] = Len(to[s])

(* The inductive invariant behind them: how far each server may be ahead of *)
(* the other, and what the streams hold at each point.                      *)

Shape ==
    /\ TypeOK
    /\ share = [s \in Server |-> share[s]]
    /\ share_map = [s \in Server |-> share_map[s]]
    /\ acc = [s \in Server |-> acc[s]]
    /\ to = [s \in Server |-> to[s]]
    /\ \A s \in Server : to[s] = [k \in 1 .. Len(to[s]) |-> to[s][k]]
    /\ pk_list \in [Server -> Seq(DOMAIN share_map[1])]

Before == {"recv", "pks", "ot"}

Phases ==
    /\ \A s \in Server : pc[s] # "recv" => i[s] = Total_inputs
    /\ pc[0] \in IF msg.type = "BIT_SUM" THEN Before \cup {"sum", "done"}
                 ELSE IF UsesOT THEN Before \cup {"valid", "sum", "done"}
                 ELSE {"recv", "pks", "valid", "sum", "done"}
    /\ pc[1] \in IF msg.type = "BIT_SUM" THEN {"recv", "ot", "sum", "done"}
                 ELSE IF UsesOT THEN {"recv", "ot", "valid", "done"}
                 ELSE {"recv", "valid", "done"}
    /\ pc[1] = "recv" => pc[0] = "recv"
    /\ pc[1] = "ot" => pc[0] \in Before
    /\ pc[0] \in Before /\ UsesOT => pc[1] \in {"recv", "ot"}
    /\ pc[1] = "done" => pc[0] \in {"sum", "done"}
    /\ pc[0] = "done" => pc[1] = "done"

KeysListed ==
    /\ pc[0] = "recv" => num_inputs = 0 /\ valid[0] = <<>>
    /\ pc[0] # "recv" => num_inputs = Len(pk_list[1])
    /\ pc[0] = "pks" => Len(valid[0]) < num_inputs
    /\ pc[0] \notin {"recv", "pks"} => Len(valid[0]) = num_inputs
    /\ Len(pk_list[0]) = Len(valid[0])
    /\ Len(pk_list[0]) <= Len(pk_list[1])
    /\ \A n \in 1 .. Len(pk_list[0]) :
          /\ pk_list[0][n] = pk_list[1][n]
          /\ valid[0][n] <=> pk_list[1][n] \in DOMAIN share_map[0]
    /\ pc[1] = "recv" => pk_list[1] = <<>>
    /\ pc[1] # "recv" => \A pk \in DOMAIN share_map[1] :
                            \E n \in 1 .. Len(pk_list[1]) : pk_list[1][n] = pk
    /\ pc[1] # "recv" => Len(pk_list[1]) = Cardinality(DOMAIN share_map[1])
    /\ pc[1] = "done" /\ msg.type # "BIT_SUM" => valid[1] = valid[0]

Streams ==
    /\ Len(to[0]) = CASE pc[1] = "recv" -> 0
                      [] pc[1] = "done" -> Len(pk_list[1]) + 2
                      [] OTHER          -> Len(pk_list[1]) + 1
    /\ pc[1] # "recv" => to[0][1] = Message("size", Len(pk_list[1]))
    /\ pc[1] # "recv" => \A n \in 1 .. Len(pk_list[1]) :
                            to[0][n + 1] = Message("pk", pk_list[1][n])
    /\ pc[1] = "done" => to[0][Len(pk_list[1]) + 2].kind = "sum"
    /\ rcvd[0] = CASE pc[0] = "recv" -> 0
                   [] pc[0] = "done" -> Len(pk_list[1]) + 2
                   [] OTHER          -> Len(valid[0]) + 1
    /\ to[1] = IF msg.type # "BIT_SUM" /\ pc[0] \in {"sum", "done"}
               THEN <<Message("valid", valid[0])>> ELSE <<>>
    /\ rcvd[1] = IF msg.type # "BIT_SUM" /\ pc[1] = "done" THEN 1 ELSE 0

\* The servers' relative progress, the listed keys and the two streams agree
\* at every step; everything proved about the exchange rests on it.
Lockstep == Shape /\ Phases /\ KeysListed /\ Streams

\* A client that delivered everything sees its own "Ans" reported, over the
\* submissions its routine calls valid, unless too few of them are.
HonestTotals ==
    ClientDone /\ result.ret = "RET_ANS" => result.ans = campaign.printed

\* The scan for the maximum ends on an index whenever there was any input and
\* each server has read a share: what the stack held marks no index.
BothHeard == \A s \in Server : taken[s] > 0
MaxScanStops == result.ret = "crash" => Total_inputs = 0 \/ ~BothHeard

\* If the client dies after each server has read a share of it, what is
\* counted was delivered to both: a partial batch is never made up.
Delivered(s) == {campaign.shares[k][s].pk : k \in 1 .. sent[s]}
CountedWereDelivered ==
    BothHeard =>
        \A s \in Server : CountedKeys(s) \subseteq Delivered(0) \cap Delivered(1)

\* The operation is the abstract one: the exchange has the effect of looking
\* into both maps at once.
Abstract == INSTANCE Aggregate WITH stored <- share_map
ImplementsAggregate == Abstract!Spec

\* Whatever the client does, once it is gone both handlers return (or the MAX
\* scan has run away).
BothReturn == <>(\A s \in Server : pc[s] = "done")
=============================================================================
