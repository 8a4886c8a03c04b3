------------------------------- MODULE SnipOp -------------------------------
(***************************************************************************)
(* var_op (VAR, STDDEV) and linreg_op of server.cpp, run by two server     *)
(* processes against one meta-client, from the first share to the return.  *)
(*                                                                         *)
(* A submission is two messages to each server, a share and the packet of  *)
(* its proof; the client may die in between any two of its writes. Server  *)
(* 1 sends its public keys, the shares are converted, the proofs are       *)
(* checked (validate_snips), server 0 sends the flags and server 1 its     *)
(* sums, and server 0 reports.                                             *)
(*                                                                         *)
(* What goes on inside is modelled by itself: the conversion by OT in      *)
(* OTSession, the proofs in SnipSession. Here a conversion is one exchange *)
(* that leaves the words intsum_ot computes, and a proof passes exactly    *)
(* when both servers hold their halves of one packet that proves what they *)
(* hold; a false one passes by chance only, with odds no operation of a    *)
(* real modulus meets.                                                     *)
(***************************************************************************)
EXTENDS AggregateOps, Circuit

CONSTANTS Campaigns,   \* what a client sends: [msg, degree, subs, valid,
                       \* printed, mortal: it may die before it is done]
          Junk,        \* payloads an unwritten array of linreg_op may hold
          Pads         \* what the OT sender may draw for a batch:
                       \* pads[entry][field][bit] is a word

ASSUME CampaignsAssumption ==
    \A c \in Campaigns : /\ c.msg.num_of_inputs \in Nat
                         /\ DOMAIN c.subs = 1 .. c.msg.num_of_inputs

\* Values have num_bits bits, squares and products twice as many.
FieldWidth(c, f) == c.msg.num_bits * (IF f >= c.degree THEN 2 ELSE 1)

\* The shares of what a routine calls valid are no wider than that.
ASSUME ValidAssumption ==
    \A c \in Campaigns : \A k \in c.valid :
        /\ k \in DOMAIN c.subs
        /\ \A s \in Server, f \in FieldsOf(c.msg.type, c.degree) :
              \A b \in c.subs[k].val[s][f] : ~(b >= FieldWidth(c, f))

\* A batch is smaller than Int_Modulus, and its submissions have all their
\* fields, of finitely many bits; linreg_op alone is told a degree.
ASSUME FieldsAssumption ==
    \A c \in Campaigns :
        /\ c.msg.num_of_inputs < Modulus /\ c.msg.num_bits \in Nat
        /\ c.degree \in Nat \ {0} /\ (c.msg.type # "LINREG_OP" => c.degree = 1)
        /\ \A k \in DOMAIN c.subs :
              /\ DOMAIN c.subs[k].proved = FieldsOf(c.msg.type, c.degree)
              /\ \A s \in Server :
                    /\ DOMAIN c.subs[k].val[s] = FieldsOf(c.msg.type, c.degree)
                    /\ \A f \in FieldsOf(c.msg.type, c.degree) :
                          c.subs[k].val[s][f] \subseteq Nat /\ IsFiniteSet(c.subs[k].val[s][f])
ASSUME PadsAssumption ==
    \A pads \in Pads, c \in Campaigns :
        \A n \in 1 .. c.msg.num_of_inputs, f \in FieldsOf(c.msg.type, c.degree) :
            \A k \in 0 .. FieldWidth(c, f) - 1 : pads[n][f][k] \in 0 .. Word - 1

\* What the shares of submission k are shares of; its values are the first.
Opened(c, k) ==
    [f \in FieldsOf(c.msg.type, c.degree) |->
        Number(SymDiff(c.subs[k].val[0][f], c.subs[k].val[1][f]))]
Values(c, k) == [v \in 1 .. c.degree |-> Opened(c, k)[v - 1]]
InputsOf(c, values) ==
    IF c.msg.type = "LINREG_OP"
    THEN LinRegInputs(SubSeq(values, 1, c.degree - 1), values[c.degree])
    ELSE VarInputs(values[1])

\* What a routine made of values, with a proof of that and under one key, its
\* own; and what it spoilt: it has two keys, is too wide or is not proved.
Genuine(c, k) ==
    /\ c.subs[k].intact
    /\ Opened(c, k) = InputsOf(c, Values(c, k)) /\ c.subs[k].proved = Opened(c, k)
    /\ c.subs[k].pk[0] = c.subs[k].pk[1]
    /\ \A n \in 1 .. k - 1 : \A s \in Server : c.subs[n].pk[s] # c.subs[k].pk[s]
Spoilt(c, k) ==
    \/ c.subs[k].pk[0] # c.subs[k].pk[1]
    \/ \E s \in Server, f \in FieldsOf(c.msg.type, c.degree) :
          \E b \in c.subs[k].val[s][f] : b >= FieldWidth(c, f)
    \/ ~c.subs[k].intact
    \/ \E f \in FieldsOf(c.msg.type, c.degree) :
          Opened(c, k)[f] % Modulus # c.subs[k].proved[f] % Modulus
    \/ ~Satisfies(CircuitOf(c.msg.type, c.degree), Opened(c, k), Modulus)

\* A routine prints the moments of the values of what it did not spoil.
ASSUME RoutinesAssumption ==
    \A c \in Campaigns :
        /\ \A k \in c.valid : Genuine(c, k)
        /\ \A k \in DOMAIN c.subs \ c.valid : Spoilt(c, k)
        /\ c.printed = MomentsOf(c.msg.type, c.degree, c.valid, LAMBDA k : Values(c, k), Modulus)

VARIABLES
    campaign,
    client,     \* "sending" or "closed"
    sent,       \* messages the client has written to each server
    pc,         \* where each server is in its handler
    i,          \* loop counter of the receiving loop
    taken,      \* messages read from the client's stream
    share_map,  \* number of the submission stored under each public key
    to, rcvd,   \* server-to-server streams and what was read of them
    pk_list,    \* the keys, in server 1's iteration order
    shares_p,   \* converted shares: entry |-> field |-> residue
    valid,      \* validity of each listed key
    acc,        \* each server's sums of fields
    result      \* what server 0 returns

vars == <<campaign, client, sent, pc, i, taken, share_map, to, rcvd, pk_list,
          shares_p, valid, acc, result>>

msg == campaign.msg
Total_inputs == msg.num_of_inputs
Fields == FieldsOf(msg.type, campaign.degree)
Zeros == [f \in Fields |-> 0]

Init ==
    /\ campaign \in Campaigns
    /\ client = "sending"
    /\ sent = [s \in Server |-> 0]
    /\ pc = [s \in Server |-> "recv"]
    /\ i = [s \in Server |-> 0]
    /\ taken = [s \in Server |-> 0]
    /\ share_map = [s \in Server |-> <<>>]
    /\ to = [s \in Server |-> <<>>]
    /\ rcvd = [s \in Server |-> 0]
    /\ pk_list = [s \in Server |-> <<>>]
    /\ shares_p = [s \in Server |-> <<>>]
    /\ valid = [s \in Server |-> <<>>]
    /\ acc = [s \in Server |-> Zeros]
    /\ result = Pending
-----------------------------------------------------------------------------
(* The meta-client, after the initMsg (and the degree): a share to server 0, *)
(* one to server 1, a packet to each, and so on.                             *)

SendNext(s) ==
    /\ client = "sending"
    /\ sent[s] < 2 * Total_inputs
    /\ IF s = 0 THEN sent[0] = sent[1] ELSE sent[1] < sent[0]
    /\ sent' = [sent EXCEPT ![s] = @ + 1]
    /\ UNCHANGED <<campaign, client, pc, i, taken, share_map, to, rcvd, pk_list,
                   shares_p, valid, acc, result>>

Close ==
    /\ client = "sending"
    /\ campaign.mortal \/ \A s \in Server : sent[s] = 2 * Total_inputs
    /\ client' = "closed"
    /\ UNCHANGED <<campaign, sent, pc, i, taken, share_map, to, rcvd, pk_list,
                   shares_p, valid, acc, result>>
-----------------------------------------------------------------------------
(* Receiving loop of both servers. Message m of a stream is the share, or    *)
(* the packet, of submission (m + 1) \div 2. A read past the end of a closed *)
(* stream returns 0; a share then is what it was, the packet is not valid.   *)

MoreExpectedOffByOne(s) == i[s] <= Total_inputs
MoreExpected(s) == i[s] < Total_inputs
Arrived(s) == taken[s] < sent[s]
AtEof(s) == taken[s] = sent[s] /\ client = "closed"
Current(s) == (taken[s] + 1) \div 2

\* val >= max_val, val_squared >= max_val * max_val, and so for every field
WidthSingle(f) == msg.num_bits
Width(f) == FieldWidth(campaign, f)
OutOfRange(val) == \E f \in Fields : \E b \in val[f] : b >= Width(f)

Acceptable(s, k) ==
    /\ campaign.subs[k].pk[s] \notin DOMAIN share_map[s]
    /\ ~OutOfRange(campaign.subs[k].val[s])

\* Keeps the submission of the share read last.
Keep(s) ==
    LET pk == campaign.subs[Current(s)].pk[s] IN
    share_map' = [share_map EXCEPT ![s] =
        [q \in DOMAIN @ \cup {pk} |-> IF q = pk THEN Current(s) ELSE @[q]]]

\* A share judged before its packet is read, which then stays in the stream.
RecvShareJudged(s) ==
    /\ pc[s] = "recv" /\ MoreExpected(s)
    /\ Arrived(s) \/ AtEof(s)
    /\ taken' = [taken EXCEPT ![s] = IF Arrived(s) THEN @ + 1 ELSE @]
    /\ LET rejected == Arrived(s) /\ ~Acceptable(s, taken[s] \div 2 + 1) IN
       /\ pc' = [pc EXCEPT ![s] = IF rejected THEN "recv" ELSE "packet"]
       /\ i' = [i EXCEPT ![s] = IF rejected THEN @ + 1 ELSE @]
    /\ UNCHANGED <<campaign, client, sent, share_map, to, rcvd, pk_list,
                   shares_p, valid, acc, result>>

RecvShare(s) ==
    /\ pc[s] = "recv" /\ MoreExpected(s)
    /\ Arrived(s) \/ AtEof(s)
    /\ taken' = [taken EXCEPT ![s] = IF Arrived(s) THEN @ + 1 ELSE @]
    /\ pc' = [pc EXCEPT ![s] = "packet"]
    /\ UNCHANGED <<campaign, client, sent, i, share_map, to, rcvd, pk_list,
                   shares_p, valid, acc, result>>

\* packet_bytes > 0 is not asked for.
RecvPacketUnchecked(s) ==
    /\ pc[s] = "packet"
    /\ Arrived(s) \/ AtEof(s)
    /\ taken' = [taken EXCEPT ![s] = IF Arrived(s) THEN @ + 1 ELSE @]
    /\ IF Current(s) > 0 /\ Acceptable(s, Current(s)) THEN Keep(s) ELSE UNCHANGED share_map
    /\ i' = [i EXCEPT ![s] = @ + 1]
    /\ pc' = [pc EXCEPT ![s] = "recv"]
    /\ UNCHANGED <<campaign, client, sent, to, rcvd, pk_list, shares_p, valid,
                   acc, result>>

\* The end of the client's stream is waited out.
RecvPacketBlocks(s) ==
    /\ pc[s] = "packet"
    /\ Arrived(s)
    /\ taken' = [taken EXCEPT ![s] = @ + 1]
    /\ IF Acceptable(s, Current(s)) THEN Keep(s) ELSE UNCHANGED share_map
    /\ i' = [i EXCEPT ![s] = @ + 1]
    /\ pc' = [pc EXCEPT ![s] = "recv"]
    /\ UNCHANGED <<campaign, client, sent, to, rcvd, pk_list, shares_p, valid,
                   acc, result>>

RecvPacket(s) ==
    /\ pc[s] = "packet"
    /\ \/ /\ Arrived(s)
          /\ taken' = [taken EXCEPT ![s] = @ + 1]
          /\ IF Acceptable(s, Current(s)) THEN Keep(s) ELSE UNCHANGED share_map
       \/ AtEof(s) /\ UNCHANGED <<taken, share_map>>
    /\ i' = [i EXCEPT ![s] = @ + 1]
    /\ pc' = [pc EXCEPT ![s] = "recv"]
    /\ UNCHANGED <<campaign, client, sent, to, rcvd, pk_list, shares_p, valid,
                   acc, result>>
-----------------------------------------------------------------------------
(* Lining up public keys, and converting shares.                             *)

Message(kind, val) == [kind |-> kind, val |-> val]
Incoming(s) == to[s][rcvd[s] + 1].val
CanRead(s) == rcvd[s] < Len(to[s])
Read(s) == rcvd' = [rcvd EXCEPT ![s] = @ + 1]

Enumerations(S) ==
    {f \in [1 .. Cardinality(S) -> S] : \A pk \in S : \E n \in DOMAIN f : f[n] = pk}

\* Server 1: the size of its map and every key, in the map's order.
SendPks ==
    /\ pc[1] = "recv" /\ i[1] = Total_inputs
    /\ \E order \in Enumerations(DOMAIN share_map[1]) :
         /\ pk_list' = [pk_list EXCEPT ![1] = order]
         /\ to' = [to EXCEPT ![0] = Append(@, Message("pks", order))]
         /\ valid' = [valid EXCEPT ![1] = [n \in DOMAIN order |-> FALSE]]
    /\ pc' = [pc EXCEPT ![1] = "convert"]
    /\ UNCHANGED <<campaign, client, sent, i, taken, share_map, rcvd, shares_p,
                   acc, result>>

RecvPks ==
    /\ pc[0] = "recv" /\ i[0] = Total_inputs
    /\ CanRead(0) /\ Read(0)
    /\ pk_list' = [pk_list EXCEPT ![0] = Incoming(0)]
    /\ valid' = [valid EXCEPT ![0] =
                   [n \in DOMAIN Incoming(0) |-> Incoming(0)[n] \in DOMAIN share_map[0]]]
    /\ pc' = [pc EXCEPT ![0] = "convert"]
    /\ UNCHANGED <<campaign, client, sent, i, taken, share_map, to, shares_p,
                   acc, result>>

\* Which submission server s holds as entry n; 0 is the mock of an unknown key.
Entry(s, n) == IF pk_list[s][n] \in DOMAIN share_map[s] THEN share_map[s][pk_list[s][n]] ELSE 0

\* shares[n * num_fields + f]; unknown keys are 0 in var_op, unwritten in linreg_op.
Payload(s, n, f, junk) ==
    IF Entry(s, n) > 0 THEN campaign.subs[Entry(s, n)].val[s][f]
    ELSE IF msg.type = "LINREG_OP" THEN junk ELSE {}

\* share_convert of both servers, which is intsum_ot of every field of every
\* entry modulo Int_Modulus, in 64-bit words.
Converted(s, n, f, pads, junk) ==
    IF s = 0 THEN IntSenderShare(Payload(0, n, f, junk), TRUE, Width(f), pads[n][f], Modulus)
    ELSE IntReceiverShare(Payload(1, n, f, junk), Width(f),
             IntMessages(Payload(0, n, f, junk), TRUE, Width(f), pads[n][f], Modulus), Modulus)

Convert ==
    /\ \A s \in Server : pc[s] = "convert"
    /\ \E pads \in Pads, junk \in Junk :
         shares_p' = [s \in Server |-> [n \in DOMAIN pk_list[s] |-> [f \in Fields |->
                         Converted(s, n, f, pads, junk)]]]
    /\ pc' = [s \in Server |-> "check"]
    /\ UNCHANGED <<campaign, client, sent, i, taken, share_map, to, rcvd, pk_list,
                   valid, acc, result>>
-----------------------------------------------------------------------------
(* validate_snips. *)

NoEntries(s) == pk_list[s] = <<>>

\* What a server's side of the check is computed from: its half of the packet
\* and its shares of the inputs.
Held(s) == [n \in DOMAIN pk_list[s] |-> [packet |-> Entry(s, n), inputs |-> shares_p[s][n]]]

SendCor(s) ==
    /\ pc[s] = "check" /\ ~NoEntries(s)
    /\ to' = [to EXCEPT ![1 - s] = Append(@, Message("cor", Held(s)))]
    /\ pc' = [pc EXCEPT ![s] = "cor"]
    /\ UNCHANGED <<campaign, client, sent, i, taken, share_map, rcvd, pk_list,
                   shares_p, valid, acc, result>>

\* With no entry there is no circuit[0] to ask for its size: the server dies,
\* or what it finds there does for one and nothing is exchanged.
NoCircuit(s) ==
    /\ pc[s] = "check" /\ NoEntries(s)
    /\ pc' \in {[pc EXCEPT ![s] = to_do] : to_do \in {"valid", "dead"}}
    /\ UNCHANGED <<campaign, client, sent, i, taken, share_map, to, rcvd, pk_list,
                   shares_p, valid, acc, result>>

RecvCor(s) ==
    /\ pc[s] = "cor"
    /\ CanRead(s) /\ Read(s)
    /\ to' = [to EXCEPT ![1 - s] = Append(@, Message("out", Held(s)))]
    /\ pc' = [pc EXCEPT ![s] = "out"]
    /\ UNCHANGED <<campaign, client, sent, i, taken, share_map, pk_list, shares_p,
                   valid, acc, result>>

\* One entry's proof, from both servers' halves.
PassesUnlinked(mine, theirs) ==
    /\ mine.packet = theirs.packet /\ mine.packet > 0
    /\ campaign.subs[mine.packet].intact
    /\ Satisfies(CircuitOf(msg.type, campaign.degree), campaign.subs[mine.packet].proved, Modulus)
Passes(mine, theirs) ==
    LET inputs == [f \in Fields |-> (mine.inputs[f] + theirs.inputs[f]) % Modulus]
    IN /\ mine.packet = theirs.packet /\ mine.packet > 0
       /\ campaign.subs[mine.packet].intact
       /\ inputs = [f \in Fields |-> campaign.subs[mine.packet].proved[f] % Modulus]
       /\ Satisfies(CircuitOf(msg.type, campaign.degree), inputs, Modulus)

\* Server 0's flags become valid and proved; server 1 keeps what was proved.
RecvOut(s) ==
    /\ pc[s] = "out"
    /\ CanRead(s) /\ Read(s)
    /\ valid' = [valid EXCEPT ![s] = [n \in DOMAIN pk_list[s] |->
                   /\ s = 0 => valid[0][n]
                   /\ Passes(Held(s)[n], Incoming(s)[n])]]
    /\ pc' = [pc EXCEPT ![s] = "valid"]
    /\ UNCHANGED <<campaign, client, sent, i, taken, share_map, to, pk_list,
                   shares_p, acc, result>>
-----------------------------------------------------------------------------
(* Flags, sums and the verdict. *)

\* accumulate
Accumulate(s, flags) ==
    [f \in Fields |->
        MapThenSumSet(LAMBDA n : shares_p[s][n][f], {n \in DOMAIN flags : flags[n]}) % Modulus]

SendValid ==
    /\ pc[0] = "valid"
    /\ to' = IF NoEntries(0) THEN to ELSE [to EXCEPT ![1] = Append(@, Message("valid", valid[0]))]
    /\ acc' = [acc EXCEPT ![0] = Accumulate(0, valid[0])]
    /\ pc' = [pc EXCEPT ![0] = "sums"]
    /\ UNCHANGED <<campaign, client, sent, i, taken, share_map, rcvd, pk_list,
                   shares_p, valid, result>>

\* Server 1 adds what both take to be valid, sends its sums and returns; a
\* server that writes to one that died may die of it.
RecvValid ==
    /\ pc[1] = "valid"
    /\ IF NoEntries(1) THEN UNCHANGED <<rcvd, valid>>
       ELSE /\ CanRead(1) /\ Read(1)
            /\ valid' = [valid EXCEPT ![1] = [n \in DOMAIN @ |-> @[n] /\ Incoming(1)[n]]]
    /\ acc' = [acc EXCEPT ![1] = Accumulate(1, valid'[1])]
    /\ to' = [to EXCEPT ![0] = Append(@, Message("sums", acc'[1]))]
    /\ \/ pc' = [pc EXCEPT ![1] = "done"]
       \/ pc[0] = "dead" /\ pc' = [pc EXCEPT ![1] = "dead"]
    /\ UNCHANGED <<campaign, client, sent, i, taken, share_map, pk_list, shares_p,
                   result>>

Num_valid == Cardinality({n \in DOMAIN valid[0] : valid[0][n]})

\* At the end of a stream whose writer died the numbers read are zero.
RecvSums ==
    /\ pc[0] = "sums"
    /\ \E b \in IF CanRead(0) THEN {Incoming(0)} ELSE {Zeros} :
         result' = IF BelowThreshold(Num_valid, Total_inputs) THEN Invalid
                   ELSE Answer(Report(msg.type, campaign.degree, Num_valid,
                                      [f \in Fields |-> (acc[0][f] + b[f]) % Modulus]))
    /\ \/ CanRead(0) /\ Read(0)
       \/ ~CanRead(0) /\ pc[1] = "dead" /\ UNCHANGED rcvd
    /\ pc' = [pc EXCEPT ![0] = "done"]
    /\ UNCHANGED <<campaign, client, sent, i, taken, share_map, to, pk_list,
                   shares_p, valid, acc>>
-----------------------------------------------------------------------------
ClientStep == Close \/ \E s \in Server : SendNext(s)
Receive(s) == RecvShare(s) \/ RecvPacket(s)
Validate(s) == SendCor(s) \/ NoCircuit(s) \/ RecvCor(s) \/ RecvOut(s)
Server0Step == Receive(0) \/ RecvPks \/ Validate(0) \/ SendValid \/ RecvSums
Server1Step == Receive(1) \/ SendPks \/ Validate(1) \/ RecvValid

Next == ClientStep \/ Server0Step \/ Server1Step \/ Convert
Spec == Init /\ [][Next]_vars

\* Each process goes on while it can: the servers are never suspended, the
\* client sends or its sockets are closed by its exit.
FairSpec ==
    /\ Spec
    /\ WF_vars(ClientStep) /\ WF_vars(Server0Step) /\ WF_vars(Server1Step)
    /\ WF_vars(Convert)
-----------------------------------------------------------------------------
(* Properties. *)

ClientDone == client = "closed" /\ \A s \in Server : sent[s] = 2 * Total_inputs
Returned == \A s \in Server : pc[s] = "done"

\* Every variable keeps its shape; the loops end where the batch ends.
TypeOK ==
    /\ client \in {"sending", "closed"}
    /\ sent \in [Server -> 0 .. 2 * Total_inputs]
    /\ pc \in [Server -> {"recv", "packet", "convert", "check", "cor", "out",
                          "valid", "sums", "done", "dead"}]
    /\ i \in [Server -> 0 .. Total_inputs]
    /\ taken \in [Server -> 0 .. 2 * Total_inputs]
    /\ \A s \in Server : taken[s] <= sent[s]
    /\ \A s \in Server : pc[s] = "packet" => i[s] < Total_inputs
    /\ \A s \in Server : rcvd[s] \in 0 .. Len(to[s])

\* A server's reads fall on the messages they are meant for: shares and
\* packets take turns also after a submission that is rejected, and each step
\* of the exchange between the servers finds the message it asks for. When
\* both handlers have returned, no connection has anything left to read.
ClientInStep(s) ==
    /\ pc[s] \in {"recv", "packet"} =>
          \/ taken[s] = 2 * i[s] + (IF pc[s] = "packet" THEN 1 ELSE 0)
          \/ AtEof(s)
    /\ pc[s] = "done" => taken[s] = sent[s]
Wanted(s) ==
    CASE pc[s] = "recv" -> {"pks"}
      [] pc[s] \in {"cor", "out", "sums"} -> {pc[s]}
      [] pc[1] = "valid" /\ s = 1 -> {"valid"}
      [] OTHER -> {"pks", "cor", "out", "valid", "sums"}
StreamsInStep ==
    /\ \A s \in Server : ClientInStep(s)
    /\ \A s \in Server : CanRead(s) => to[s][rcvd[s] + 1].kind \in Wanted(s)
    /\ Returned => \A s \in Server : rcvd[s] = Len(to[s])

\* Whenever the client dies, what a server has stored under a key is one
\* submission that reached it whole, share and proof, under that key: nothing
\* is made of a share without its packet, or of what the struct held before.
StoredWhole ==
    \A s \in Server : \A pk \in DOMAIN share_map[s] :
        /\ share_map[s][pk] \in DOMAIN campaign.subs
        /\ campaign.subs[share_map[s][pk]].pk[s] = pk
        /\ 2 * share_map[s][pk] <= taken[s]

\* A client that delivered its batch gets the sums, or the regression's two
\* matrices, of the values of the submissions its routine calls valid, or
\* RET_INVALID if it spoilt more of them than it left valid.
HonestMoments ==
    ClientDone /\ Returned =>
        result = IF Total_inputs - campaign.printed.num > campaign.printed.num
                 THEN Invalid ELSE Answer(campaign.printed)

\* One valid submission that reached both servers keeps both of them alive:
\* they die of batches only in which they have nothing to validate.
ServesValid ==
    (\E k \in campaign.valid : \A s \in Server : 2 * k <= sent[s]) =>
        \A s \in Server : pc[s] # "dead"

\* The operation is the abstract one: what is counted are the submissions
\* both servers hold and whose proofs are proofs, whatever the exchange.
Abstract == INSTANCE ProvedAggregate WITH stored <- share_map
ImplementsProvedAggregate == Abstract!Spec

\* Once the client is gone both handlers return (or have died).
BothReturn == <>(\A s \in Server : pc[s] \in {"done", "dead"})
=============================================================================
