---------------------------- MODULE SnipOpProofs ----------------------------
(***************************************************************************)
(* Proofs about SnipOp, for every campaign and proof: the                  *)
(* receiving loops keep what they store whole, the two handlers stay in    *)
(* step with the client and with one another, and together they do what    *)
(* ProvedAggregate does: count a submission only if both servers hold its  *)
(* parts and its proof, and report the moments of the values it is of. A   *)
(* client that delivered its batch gets what its routine prints. From the  *)
(* conversion on this asks for room in a word (ModulusFits): with less     *)
(* intsum_ot wraps before it reduces, as with the shipped modulus.         *)
(***************************************************************************)
EXTENDS SnipOp, OTConversionProofs, SequenceTheorems, TLAPS

Receiving == {"recv", "packet"}
PreCheck == Receiving \cup {"convert"}
Places == {"recv", "packet", "convert", "check", "cor", "out", "valid", "sums",
           "done", "dead"}

(* Reception: what the receiving loops and the client leave.               *)
\* A server that received everything it waits for is at the end of its loop.
Turns(s) ==
    \/ AtEof(s)
    \/ pc[s] = "recv" /\ taken[s] = 2 * i[s]
    \/ pc[s] = "packet" /\ taken[s] = 2 * i[s] + 1
    \/ pc[s] \notin Receiving /\ taken[s] = 2 * Total_inputs

Reception ==
    /\ campaign \in Campaigns
    /\ client \in {"sending", "closed"}
    /\ sent \in [Server -> 0 .. 2 * Total_inputs]
    /\ pc \in [Server -> Places]
    /\ i \in [Server -> 0 .. Total_inputs]
    /\ taken \in [Server -> 0 .. 2 * Total_inputs]
    /\ share_map = [s \in Server |-> share_map[s]]
    /\ \A s \in Server : taken[s] <= sent[s]
    /\ \A s \in Server : pc[s] = "packet" => i[s] < Total_inputs
    /\ \A s \in Server : Turns(s)
    /\ StoredWhole

(* Exchange: what the servers have written to one another, and read.       *)
\* The kind of message n written to server s.
Kind(s, n) ==
    IF s = 0 THEN IF n = 1 THEN "pks"
                  ELSE IF NoEntries(1) \/ n = 4 THEN "sums"
                  ELSE IF n = 2 THEN "cor" ELSE "out"
    ELSE IF n = 1 THEN "cor" ELSE IF n = 2 THEN "out" ELSE "valid"

\* How many messages server s has been written when its peer is where it is.
WrittenTo0 ==
    /\ pc[1] \in Receiving => Len(to[0]) = 0
    /\ pc[1] \in {"convert", "check"} => Len(to[0]) = 1
    /\ pc[1] = "cor" => Len(to[0]) = 2
    /\ pc[1] = "out" => Len(to[0]) = 3
    /\ pc[1] = "valid" => Len(to[0]) = IF NoEntries(1) THEN 1 ELSE 3
    /\ pc[1] = "done" => Len(to[0]) = IF NoEntries(1) THEN 2 ELSE 4
    /\ pc[1] = "dead" => Len(to[0]) \in {1, 2}
WrittenTo1 ==
    /\ pc[0] \in PreCheck \cup {"check", "dead"} => Len(to[1]) = 0
    /\ pc[0] = "cor" => Len(to[1]) = 1
    /\ pc[0] = "out" => Len(to[1]) = 2
    /\ pc[0] = "valid" => Len(to[1]) = IF NoEntries(1) THEN 0 ELSE 2
    /\ pc[0] \in {"sums", "done"} => Len(to[1]) = IF NoEntries(1) THEN 0 ELSE 3

\* How many it has read when it is where it is.
ReadBy0 ==
    /\ pc[0] \in Receiving => rcvd[0] = 0
    /\ pc[0] \in {"convert", "check", "cor", "dead"} => rcvd[0] = 1
    /\ pc[0] = "out" => rcvd[0] = 2
    /\ pc[0] \in {"valid", "sums"} => rcvd[0] = IF NoEntries(1) THEN 1 ELSE 3
    /\ pc[0] = "done" /\ NoEntries(1) => rcvd[0] = 2 \/ (rcvd[0] = 1 /\ pc[1] = "dead")
    /\ pc[0] = "done" /\ ~NoEntries(1) => rcvd[0] = 4
ReadBy1 ==
    /\ pc[1] \in PreCheck \cup {"check", "cor", "dead"} => rcvd[1] = 0
    /\ pc[1] = "out" => rcvd[1] = 1
    /\ pc[1] = "valid" => rcvd[1] = IF NoEntries(1) THEN 0 ELSE 2
    /\ pc[1] = "done" => rcvd[1] = IF NoEntries(1) THEN 0 ELSE 3

\* Where the two can be at the same time.
Together ==
    /\ pc[0] \in PreCheck <=> pc[1] \in PreCheck
    /\ pc[0] \notin Receiving => pc[1] \notin Receiving /\ pk_list[0] = pk_list[1]
    /\ \A s \in Server : pc[s] \in {"cor", "out"} => ~NoEntries(s)
    /\ \A s \in Server : pc[s] = "dead" => NoEntries(s)
    /\ pc[1] # "sums"

Exchange ==
    /\ pc \in [Server -> Places]
    /\ to = [s \in Server |-> to[s]]
    /\ \A s \in Server : Len(to[s]) \in Nat /\ to[s] = [k \in 1 .. Len(to[s]) |-> to[s][k]]
    /\ rcvd \in [Server -> Nat]
    /\ pk_list = [s \in Server |-> pk_list[s]]
    /\ Len(to[0]) > 0 => to[0][1].val = pk_list[1]
    /\ \A s \in Server : \A n \in 1 .. Len(to[s]) : to[s][n].kind = Kind(s, n)
    /\ \A s \in Server : rcvd[s] <= Len(to[s])
    /\ Together /\ WrittenTo0 /\ WrittenTo1 /\ ReadBy0 /\ ReadBy1
-----------------------------------------------------------------------------
\* A batch has a natural number of inputs, one submission for each.
LEMMA BatchSize ==
    ASSUME campaign \in Campaigns
    PROVE  Total_inputs \in Nat /\ DOMAIN campaign.subs = 1 .. Total_inputs
  BY CampaignsAssumption DEF Total_inputs, msg

\* Both invariants hold before the first share.
LEMMA InitReception == Init => Reception
  <1> SUFFICES ASSUME Init PROVE Reception
    OBVIOUS
  <1>1. Total_inputs \in Nat
    BY BatchSize DEF Init
  <1>2. StoredWhole
    <2>1. \A s \in Server : DOMAIN share_map[s] = {}
      BY DEF Init
    <2> QED
      BY <2>1 DEF StoredWhole
  <1>3. \A s \in Server : Turns(s)
    BY DEF Init, Turns
  <1> QED
    BY <1>1, <1>2, <1>3 DEF Init, Reception, Places

LEMMA InitExchange == Init => Exchange
  BY DEF Init, Exchange, Places, PreCheck, Receiving, Together, WrittenTo0,
         WrittenTo1, ReadBy0, ReadBy1, Server

\* The client only moves its own counters.
LEMMA ClientKeepsReception == Reception /\ ClientStep => Reception'
  <1> SUFFICES ASSUME Reception, ClientStep PROVE Reception'
    OBVIOUS
  <1>1. /\ Total_inputs \in Nat /\ Total_inputs' = Total_inputs
        /\ UNCHANGED <<campaign, pc, i, taken, share_map>>
    BY BatchSize DEF Reception, ClientStep, Close, SendNext, Total_inputs, msg
  <1>2. /\ client' \in {"sending", "closed"}
        /\ sent' \in [Server -> 0 .. 2 * Total_inputs]
        /\ \A s \in Server : sent[s] <= sent'[s]
        /\ client = "sending"
    <2>1. CASE Close
      BY <2>1, <1>1 DEF Close, Reception
    <2>2. ASSUME NEW t \in Server, SendNext(t) PROVE <1>2
      <3>1. /\ sent \in [Server -> 0 .. 2 * Total_inputs] /\ sent[t] < 2 * Total_inputs
            /\ sent' = [sent EXCEPT ![t] = @ + 1] /\ client' = "sending"
            /\ client = "sending"
        BY <2>2 DEF SendNext, Reception
      <3> QED
        BY <1>1, <3>1
    <2> QED
      BY <2>1, <2>2 DEF ClientStep
  <1>3. \A s \in Server : taken'[s] <= sent'[s]
    BY <1>1, <1>2 DEF Reception
  <1>4. \A s \in Server : Turns(s)'
    BY <1>1, <1>2 DEF Reception, Turns, AtEof
  <1>5. StoredWhole'
    BY <1>1 DEF Reception, StoredWhole
  <1> QED
    BY <1>1, <1>2, <1>3, <1>4, <1>5 DEF Reception

\* A share is read, or the end of the stream is met.
LEMMA RecvShareKeepsReception ==
    ASSUME Reception, NEW s \in Server, RecvShare(s) PROVE Reception'
  <1>1. /\ Total_inputs \in Nat /\ Total_inputs' = Total_inputs
        /\ UNCHANGED <<campaign, client, sent, i, share_map>>
    BY BatchSize DEF Reception, RecvShare, Total_inputs, msg
  <1>2. /\ pc[s] = "recv" /\ i[s] < Total_inputs /\ pc' = [pc EXCEPT ![s] = "packet"]
        /\ \/ taken[s] < sent[s] /\ taken' = [taken EXCEPT ![s] = @ + 1]
           \/ ~(taken[s] < sent[s]) /\ AtEof(s) /\ taken' = taken
    <2>1. taken = [t \in Server |-> taken[t]]
      BY DEF Reception
    <2> QED
      BY <2>1 DEF RecvShare, MoreExpected, Arrived
  <1>3. taken' \in [Server -> 0 .. 2 * Total_inputs] /\ \A t \in Server : taken'[t] <= sent[t]
    BY <1>1, <1>2 DEF Reception
  <1>4. pc' \in [Server -> Places]
    BY <1>2 DEF Reception, Places
  <1>5. \A t \in Server : Turns(t)'
    <2> TAKE t \in Server
    <2>1. CASE t # s
      <3>1. pc'[t] = pc[t] /\ taken'[t] = taken[t]
        BY <1>2, <2>1 DEF Reception
      <3> QED
        BY <1>1, <3>1 DEF Reception, Turns, AtEof
    <2>2. CASE t = s /\ taken[s] < sent[s]
      <3>1. pc'[s] = "packet" /\ taken'[s] = taken[s] + 1
        BY <1>2, <2>2 DEF Reception
      <3>2. taken[s] = 2 * i[s] /\ i[s] \in Nat
        BY <1>1, <1>2, <2>2 DEF Reception, Turns, AtEof, Receiving
      <3> QED
        BY <1>1, <2>2, <3>1, <3>2 DEF Turns
    <2>3. CASE t = s /\ ~(taken[s] < sent[s])
      BY <1>1, <1>2, <2>3 DEF Turns, AtEof
    <2> QED
      BY <2>1, <2>2, <2>3
  <1>6. \A t \in Server : pc'[t] = "packet" => i'[t] < Total_inputs
    BY <1>1, <1>2 DEF Reception
  <1>7. StoredWhole'
    <2>1. \A t \in Server : taken[t] \in Nat /\ taken'[t] \in Nat /\ taken[t] <= taken'[t]
      BY <1>1, <1>2 DEF Reception
    <2>2. \A t \in Server : \A pk \in DOMAIN share_map[t] : share_map[t][pk] \in Nat
      BY BatchSize DEF Reception, StoredWhole
    <2> QED
      BY <1>1, <2>1, <2>2 DEF Reception, StoredWhole
  <1> QED
    BY <1>1, <1>3, <1>4, <1>5, <1>6, <1>7 DEF Reception

\* The packet that follows it is read, and both are kept, or refused together.
LEMMA RecvPacketKeepsReception ==
    ASSUME Reception, NEW s \in Server, RecvPacket(s) PROVE Reception'
  <1>1. /\ Total_inputs \in Nat /\ Total_inputs' = Total_inputs
        /\ UNCHANGED <<campaign, client, sent>>
        /\ DOMAIN campaign.subs = 1 .. Total_inputs
    BY BatchSize DEF Reception, RecvPacket, Total_inputs, msg
  <1>2. /\ pc[s] = "packet" /\ i[s] < Total_inputs /\ i[s] \in Nat
        /\ i' = [i EXCEPT ![s] = @ + 1] /\ pc' = [pc EXCEPT ![s] = "recv"]
    BY <1>1 DEF RecvPacket, Reception
  <1>3. i' \in [Server -> 0 .. Total_inputs] /\ pc' \in [Server -> Places]
    BY <1>1, <1>2 DEF Reception, Places
  <1>4. \A t \in Server : pc'[t] = "packet" => i'[t] < Total_inputs
    BY <1>1, <1>2 DEF Reception
  <1>5. CASE AtEof(s) /\ UNCHANGED <<taken, share_map>>
    <2>1. \A t \in Server : Turns(t)'
      BY <1>1, <1>2, <1>5 DEF Reception, Turns, AtEof
    <2>2. StoredWhole'
      BY <1>1, <1>5 DEF Reception, StoredWhole
    <2> QED
      BY <1>1, <1>3, <1>4, <1>5, <2>1, <2>2 DEF Reception
  <1>6. CASE /\ Arrived(s)
             /\ taken' = [taken EXCEPT ![s] = @ + 1]
             /\ IF Acceptable(s, Current(s)) THEN Keep(s) ELSE UNCHANGED share_map
    <2> DEFINE k == i[s] + 1
    <2>1. /\ taken[s] = 2 * i[s] + 1 /\ taken[s] < sent[s]
          /\ taken' \in [Server -> 0 .. 2 * Total_inputs] /\ taken'[s] = 2 * k
          /\ \A t \in Server : taken'[t] <= sent[t] /\ (t # s => taken'[t] = taken[t])
      <3>1. taken[s] < sent[s] /\ taken \in [Server -> 0 .. 2 * Total_inputs]
        BY <1>6 DEF Arrived, Reception
      <3>2. taken[s] = 2 * i[s] + 1
        BY SMTT(40), <1>1, <1>2, <3>1 DEF Reception, Turns, AtEof, Receiving
      <3>3. /\ taken'[s] = taken[s] + 1 /\ DOMAIN taken' = Server
            /\ \A t \in Server : t # s => taken'[t] = taken[t]
            /\ taken' = [t \in Server |-> taken'[t]]
        BY <1>6, <3>1
      <3>4. taken'[s] = 2 * k /\ taken'[s] \in 0 .. 2 * Total_inputs /\ taken'[s] <= sent[s]
        BY <1>1, <1>2, <3>1, <3>2, <3>3 DEF Reception
      <3>5. \A t \in Server : taken'[t] \in 0 .. 2 * Total_inputs /\ taken'[t] <= sent[t]
        BY <3>1, <3>3, <3>4 DEF Reception
      <3> QED
        BY <3>1, <3>2, <3>3, <3>4, <3>5
    <2>2. Current(s) = k /\ k \in DOMAIN campaign.subs
      <3>1. \A n \in Nat : ((2 * n + 1) + 1) \div 2 = n + 1
        OBVIOUS
      <3>2. Current(s) = ((2 * i[s] + 1) + 1) \div 2
        BY <2>1 DEF Current
      <3>3. Current(s) = k
        BY <1>2, <3>1, <3>2
      <3> QED
        BY <1>1, <1>2, <3>3
    <2>3. \A t \in Server : Turns(t)'
      BY <1>1, <1>2, <2>1 DEF Reception, Turns, AtEof, Receiving
    <2>4. share_map' = [t \in Server |-> share_map'[t]] /\ StoredWhole'
      <3>1. \A t \in Server : taken[t] \in Nat /\ taken'[t] \in Nat /\ taken[t] <= taken'[t]
        <4>1. \A t \in Server : taken[t] \in Nat
          BY <1>1 DEF Reception
        <4>2. taken'[s] \in Nat /\ taken[s] <= taken'[s]
          BY <1>2, <2>1
        <4> QED
          BY <2>1, <4>1, <4>2
      <3>2. \A t \in Server : \A pk \in DOMAIN share_map[t] : share_map[t][pk] \in Nat
        BY <1>1 DEF Reception, StoredWhole
      <3>3. CASE UNCHANGED share_map
        BY <1>1, <3>1, <3>2, <3>3 DEF Reception, StoredWhole
      <3>4. CASE Keep(s)
        <4> DEFINE key == campaign.subs[k].pk[s]
                   kept == [q \in DOMAIN share_map[s] \cup {key} |->
                               IF q = key THEN k ELSE share_map[s][q]]
        <4>1. share_map' = [share_map EXCEPT ![s] = kept]
          BY <2>2, <3>4 DEF Keep
        <4>2. /\ share_map' = [t \in Server |-> share_map'[t]]
              /\ share_map'[s] = kept /\ \A t \in Server : t # s => share_map'[t] = share_map[t]
          BY <4>1 DEF Reception
        <4>3. \A pk \in DOMAIN kept : /\ kept[pk] \in DOMAIN campaign.subs
                                      /\ campaign.subs[kept[pk]].pk[s] = pk
                                      /\ 2 * kept[pk] <= taken'[s]
          <5> SUFFICES ASSUME NEW pk \in DOMAIN kept
                       PROVE  /\ kept[pk] \in DOMAIN campaign.subs
                              /\ campaign.subs[kept[pk]].pk[s] = pk
                              /\ 2 * kept[pk] <= taken'[s]
            OBVIOUS
          <5>1. CASE pk = key
            BY <1>1, <1>2, <2>1, <2>2, <5>1
          <5>2. CASE pk # key
            <6>1. pk \in DOMAIN share_map[s] /\ kept[pk] = share_map[s][pk]
              BY <5>2
            <6>2. /\ share_map[s][pk] \in DOMAIN campaign.subs /\ share_map[s][pk] \in Nat
                  /\ campaign.subs[share_map[s][pk]].pk[s] = pk
                  /\ 2 * share_map[s][pk] <= taken[s]
              BY <3>2, <6>1 DEF Reception, StoredWhole
            <6> HIDE DEF kept, key
            <6> QED
              BY <3>1, <6>1, <6>2
          <5> QED
            BY <5>1, <5>2
        <4> HIDE DEF kept, key
        <4>4. StoredWhole'
          <5> SUFFICES ASSUME NEW t \in Server, NEW pk \in DOMAIN share_map'[t]
                       PROVE  /\ share_map'[t][pk] \in DOMAIN campaign.subs
                              /\ campaign.subs[share_map'[t][pk]].pk[t] = pk
                              /\ 2 * share_map'[t][pk] <= taken'[t]
            BY <1>1 DEF StoredWhole
          <5>1. CASE t = s
            BY <4>2, <4>3, <5>1
          <5>2. CASE t # s
            BY <3>1, <3>2, <4>2, <5>2 DEF Reception, StoredWhole
          <5> QED
            BY <5>1, <5>2
        <4> QED
          BY <4>2, <4>4
      <3> QED
        BY <1>6, <3>3, <3>4
    <2> QED
      BY <1>1, <1>3, <1>4, <2>1, <2>3, <2>4 DEF Reception
  <1> QED
    BY <1>5, <1>6 DEF RecvPacket

\* Nothing after the loop touches what the loop left.
LEMMA LaterKeepsReception ==
    ASSUME Reception, UNCHANGED <<campaign, client, sent, i, taken, share_map>>,
           pc' \in [Server -> Places],
           \A s \in Server :
              \/ pc'[s] = pc[s]
              \/ /\ pc'[s] \notin Receiving
                 /\ pc[s] \notin Receiving \/ (pc[s] = "recv" /\ i[s] = Total_inputs)
    PROVE  Reception'
  <1>1. Total_inputs \in Nat /\ Total_inputs' = Total_inputs
    BY BatchSize DEF Reception, Total_inputs, msg
  <1>2. \A s \in Server : Turns(s)'
    BY <1>1 DEF Reception, Turns, AtEof, Receiving
  <1>3. StoredWhole'
    BY DEF Reception, StoredWhole
  <1>4. \A s \in Server : pc'[s] = "packet" => i'[s] < Total_inputs
    BY DEF Reception, Receiving
  <1> QED
    BY <1>1, <1>2, <1>3, <1>4 DEF Reception
-----------------------------------------------------------------------------
\* The receiving loops and the client leave the exchange alone.
LEMMA LoopsKeepExchange ==
    ASSUME Exchange, UNCHANGED <<to, rcvd, pk_list>>, pc' \in [Server -> Places],
           \A s \in Server : pc'[s] = pc[s] \/ (pc[s] \in Receiving /\ pc'[s] \in Receiving)
    PROVE  Exchange'
  <1>1. NoEntries(0)' = NoEntries(0) /\ NoEntries(1)' = NoEntries(1)
    BY DEF NoEntries
  <1>2. Together'
    BY <1>1 DEF Exchange, Together, Receiving, PreCheck, Server
  <1>3. WrittenTo0' /\ WrittenTo1'
    BY <1>1 DEF Exchange, WrittenTo0, WrittenTo1, Receiving, PreCheck, Server
  <1>4. ReadBy0' /\ ReadBy1'
    BY <1>1 DEF Exchange, ReadBy0, ReadBy1, Receiving, PreCheck, Server
  <1>5. \A s \in Server : \A n \in 1 .. Len(to'[s]) : to'[s][n].kind = Kind(s, n)'
    BY <1>1 DEF Exchange, Kind
  <1> QED
    BY <1>2, <1>3, <1>4, <1>5 DEF Exchange

\* What a stream looks like once a message is added to it.
LEMMA AppendToStream ==
    ASSUME NEW q, Len(q) \in Nat, q = [k \in 1 .. Len(q) |-> q[k]], NEW e
    PROVE  /\ Len(Append(q, e)) = Len(q) + 1
           /\ Append(q, e) = [k \in 1 .. Len(Append(q, e)) |-> Append(q, e)[k]]
           /\ Append(q, e)[Len(q) + 1] = e
           /\ \A n \in 1 .. Len(q) : Append(q, e)[n] = q[n]
  <1> DEFINE S == {q[k] : k \in 1 .. Len(q)} \cup {e}
  <1>1. q \in Seq(S) /\ e \in S
    OBVIOUS
  <1> HIDE DEF S
  <1>2. /\ Append(q, e) \in Seq(S) /\ Len(Append(q, e)) = Len(q) + 1
        /\ Append(q, e)[Len(q) + 1] = e
        /\ \A n \in 1 .. Len(q) : Append(q, e)[n] = q[n]
    BY <1>1, AppendProperties
  <1>3. Append(q, e) \in [1 .. Len(Append(q, e)) -> S]
    BY <1>2, LenProperties
  <1> QED
    BY <1>2, <1>3

\* The shape of both streams, apart from who has read how much.
Streams ==
    /\ to = [s \in Server |-> to[s]]
    /\ \A s \in Server : Len(to[s]) \in Nat /\ to[s] = [k \in 1 .. Len(to[s]) |-> to[s][k]]
    /\ Len(to[0]) > 0 => to[0][1].val = pk_list[1]
    /\ \A s \in Server : \A n \in 1 .. Len(to[s]) : to[s][n].kind = Kind(s, n)

\* A message of the kind that is due keeps the streams in shape.
LEMMA SendKeepsStreams ==
    ASSUME Exchange, NEW s \in Server, NEW n \in Nat, NEW kind, NEW val,
           n = Len(to[s]) + 1, kind = Kind(s, n)',
           to' = [to EXCEPT ![s] = Append(@, Message(kind, val))],
           \/ pk_list'[1] = pk_list[1]
           \/ Len(to[0]) = 0 /\ Len(to[1]) = 0,
           s = 0 /\ Len(to[0]) = 0 => val = pk_list'[1]
    PROVE  /\ Streams'
           /\ Len(to'[s]) = n
           /\ \A t \in Server : t # s => to'[t] = to[t]
  <1> DEFINE e == Message(kind, val)
  <1>1. /\ Len(to[s]) \in Nat /\ to[s] = [k \in 1 .. Len(to[s]) |-> to[s][k]]
        /\ to = [t \in Server |-> to[t]]
    BY DEF Exchange
  <1>2. e.kind = Kind(s, n)' /\ e.val = val
    BY DEF Message
  <1> HIDE DEF e
  <1>3. /\ to'[s] = Append(to[s], e) /\ \A t \in Server : t # s => to'[t] = to[t]
        /\ to' = [t \in Server |-> to'[t]]
    BY <1>1 DEF e
  <1>4. /\ Len(to'[s]) = Len(to[s]) + 1
        /\ to'[s] = [k \in 1 .. Len(to'[s]) |-> to'[s][k]]
        /\ to'[s][Len(to[s]) + 1] = e
        /\ \A m \in 1 .. Len(to[s]) : to'[s][m] = to[s][m]
    BY <1>1, <1>3, AppendToStream
  <1>5. \A t \in Server : Len(to'[t]) \in Nat /\ to'[t] = [k \in 1 .. Len(to'[t]) |-> to'[t][k]]
    BY <1>1, <1>3, <1>4 DEF Exchange
  <1>6. Len(to'[0]) > 0 => to'[0][1].val = pk_list'[1]
    <2>1. CASE s = 0 /\ Len(to[0]) = 0
      BY <1>2, <1>4, <2>1
    <2>2. CASE s = 0 /\ Len(to[0]) # 0
      <3>1. 1 \in 1 .. Len(to[0]) /\ to[0][1].val = pk_list[1] /\ pk_list'[1] = pk_list[1]
        BY <1>1, <2>2 DEF Exchange
      <3> QED
        BY <1>4, <2>2, <3>1
    <2>3. CASE s = 1
      BY <1>3, <2>3 DEF Exchange, Server
    <2> QED
      BY <2>1, <2>2, <2>3 DEF Server
  <1>7. \A t \in Server : \A m \in 1 .. Len(to'[t]) : to'[t][m].kind = Kind(t, m)'
    <2>1. \A t \in Server : \A k \in 1 .. Len(to[t]) : to[t][k].kind = Kind(t, k)'
      <3>1. CASE pk_list'[1] = pk_list[1]
        BY <3>1 DEF Exchange, Kind, NoEntries
      <3>2. CASE Len(to[0]) = 0 /\ Len(to[1]) = 0
        BY <3>2 DEF Server
      <3> QED
        BY <3>1, <3>2
    <2> SUFFICES ASSUME NEW t \in Server, NEW k \in 1 .. Len(to'[t])
                 PROVE  to'[t][k].kind = Kind(t, k)'
      OBVIOUS
    <2>2. CASE t # s
      BY <1>3, <2>1, <2>2
    <2>3. CASE t = s /\ k = n
      BY <1>2, <1>4, <2>3
    <2>4. CASE t = s /\ k # n
      <3>1. k \in 1 .. Len(to[s])
        BY <1>1, <1>4, <2>4
      <3> QED
        BY <1>4, <2>1, <2>4, <3>1
    <2> QED
      BY <2>2, <2>3, <2>4
  <1> QED
    BY <1>3, <1>4, <1>5, <1>6, <1>7 DEF Streams

\* The same for a message after the lists.
LEMMA SendKeepsOrder ==
    ASSUME Exchange, NEW s \in Server, NEW n \in Nat, NEW kind, NEW val,
           Len(to[s]) = n, kind = Kind(s, n + 1), s = 0 => n # 0, UNCHANGED pk_list,
           to' = [to EXCEPT ![s] = Append(@, Message(kind, val))]
    PROVE  /\ Streams'
           /\ Len(to'[s]) = n + 1
           /\ \A t \in Server : t # s => to'[t] = to[t]
  <1>1. PICK m \in Nat : m = n + 1
    OBVIOUS
  <1>2. m = Len(to[s]) + 1 /\ kind = Kind(s, m)
    BY <1>1
  <1>3. Kind(s, m)' = Kind(s, m)
    BY DEF Kind, NoEntries
  <1>4. pk_list'[1] = pk_list[1] /\ ~(s = 0 /\ Len(to[0]) = 0)
    OBVIOUS
  <1>5. kind = Kind(s, m)'
    BY <1>2, <1>3
  <1>6. /\ Streams' /\ Len(to'[s]) = m
        /\ \A t \in Server : t # s => to'[t] = to[t]
    BY <1>2, <1>4, <1>5, SendKeepsStreams
  <1> QED
    BY <1>1, <1>6

\* Reading on, or not, leaves the streams as they are.
LEMMA ReadKeepsStreams ==
    ASSUME Exchange, UNCHANGED to, pk_list'[1] = pk_list[1]
    PROVE  Streams'
  BY DEF Exchange, Streams, Kind, NoEntries

\* Server 1 lists its keys.
LEMMA SendPksKeepsExchange == Exchange /\ SendPks => Exchange'
  <1> SUFFICES ASSUME Exchange, SendPks PROVE Exchange'
    OBVIOUS
  <1>1. PICK order : /\ pk_list' = [pk_list EXCEPT ![1] = order]
                     /\ to' = [to EXCEPT ![0] = Append(@, Message("pks", order))]
    BY DEF SendPks
  <1>2. pc[1] = "recv" /\ pc' = [pc EXCEPT ![1] = "convert"] /\ rcvd' = rcvd
    BY DEF SendPks
  <1>3. pc[0] \in Receiving
    BY <1>2 DEF Exchange, Together, Receiving, PreCheck
  <1>4. Len(to[0]) = 0 /\ Len(to[1]) = 0 /\ rcvd[0] = 0 /\ rcvd[1] = 0
    BY <1>2, <1>3 DEF Exchange, WrittenTo0, WrittenTo1, ReadBy0, ReadBy1, Receiving, PreCheck
  <1>5. /\ pk_list'[1] = order /\ pk_list'[0] = pk_list[0]
        /\ pk_list' = [s \in Server |-> pk_list'[s]]
    <2>1. pk_list = [s \in Server |-> pk_list[s]]
      BY DEF Exchange
    <2> QED
      BY <1>1, <2>1 DEF Server
  <1>6. "pks" = Kind(0, 1)' /\ 1 = Len(to[0]) + 1 /\ 0 \in Server /\ 1 \in Nat
    BY <1>4 DEF Kind, Server
  <1>7. Streams' /\ Len(to'[0]) = 1 /\ \A t \in Server : t # 0 => to'[t] = to[t]
    BY <1>1, <1>4, <1>5, <1>6, SendKeepsStreams
  <1>8. pc'[0] = pc[0] /\ pc'[1] = "convert" /\ pc' \in [Server -> Places]
    BY <1>2 DEF Exchange, Server, Places
  <1>9. Together'
    BY <1>2, <1>3, <1>8 DEF Exchange, Together, Receiving, PreCheck, Server, NoEntries
  <1>10. WrittenTo0' /\ WrittenTo1' /\ ReadBy0' /\ ReadBy1'
    BY <1>2, <1>3, <1>4, <1>7, <1>8
       DEF Server, WrittenTo0, WrittenTo1, ReadBy0, ReadBy1, Receiving, PreCheck
  <1> QED
    BY <1>2, <1>4, <1>5, <1>7, <1>8, <1>9, <1>10 DEF Exchange, Streams, Server

\* Server 0 takes the list over.
LEMMA RecvPksKeepsExchange == Exchange /\ RecvPks => Exchange'
  <1> SUFFICES ASSUME Exchange, RecvPks PROVE Exchange'
    OBVIOUS
  <1>1. /\ pc[0] = "recv" /\ pc' = [pc EXCEPT ![0] = "convert"] /\ to' = to
        /\ rcvd[0] < Len(to[0]) /\ rcvd' = [rcvd EXCEPT ![0] = @ + 1]
        /\ pk_list' = [pk_list EXCEPT ![0] = to[0][rcvd[0] + 1].val]
    BY DEF RecvPks, CanRead, Read, Incoming
  <1>2. rcvd[0] = 0 /\ rcvd'[0] = 1 /\ rcvd'[1] = rcvd[1] /\ rcvd' \in [Server -> Nat]
    BY <1>1 DEF Exchange, ReadBy0, Receiving, Server
  <1>3. /\ pk_list'[0] = pk_list[1] /\ pk_list'[1] = pk_list[1]
        /\ pk_list' = [s \in Server |-> pk_list'[s]]
    BY <1>1, <1>2 DEF Exchange, Server
  <1>4. pc[1] = "convert"
    BY <1>1, <1>2 DEF Exchange, Together, WrittenTo0, Receiving, PreCheck
  <1>5. pc'[0] = "convert" /\ pc'[1] = "convert" /\ pc' \in [Server -> Places]
    BY <1>1, <1>4 DEF Exchange, Server, Places
  <1>6. Streams'
    BY <1>1, <1>3, ReadKeepsStreams
  <1>7. Together'
    BY <1>3, <1>5 DEF Together, Receiving, PreCheck, Server
  <1>8. WrittenTo0' /\ WrittenTo1' /\ ReadBy0' /\ ReadBy1'
    BY <1>1, <1>2, <1>4, <1>5
       DEF Exchange, WrittenTo0, WrittenTo1, ReadBy0, ReadBy1, Receiving, PreCheck
  <1>9. \A s \in Server : rcvd'[s] <= Len(to'[s])
    BY <1>1, <1>2 DEF Exchange, Server
  <1> QED
    BY <1>2, <1>3, <1>5, <1>6, <1>7, <1>8, <1>9 DEF Exchange, Streams

\* The conversion takes both on together.
LEMMA ConvertKeepsExchange == Exchange /\ Convert => Exchange'
  <1> SUFFICES ASSUME Exchange, Convert PROVE Exchange'
    OBVIOUS
  <1>1. /\ pc[0] = "convert" /\ pc[1] = "convert" /\ UNCHANGED <<to, rcvd, pk_list>>
        /\ pc' = [s \in Server |-> "check"]
    BY DEF Convert, Server
  <1>2. pc'[0] = "check" /\ pc'[1] = "check" /\ pc' \in [Server -> Places]
    BY <1>1 DEF Server, Places
  <1>3. Streams'
    BY <1>1, ReadKeepsStreams
  <1>4. Together'
    BY <1>1, <1>2 DEF Exchange, Together, Receiving, PreCheck, Server
  <1>5. WrittenTo0' /\ WrittenTo1' /\ ReadBy0' /\ ReadBy1'
    BY <1>1, <1>2 DEF Exchange, WrittenTo0, WrittenTo1, ReadBy0, ReadBy1, Receiving, PreCheck
  <1> QED
    BY <1>1, <1>2, <1>3, <1>4, <1>5 DEF Exchange, Streams

\* Once the lists are exchanged both servers see the same entries.
LEMMA SameEntries ==
    ASSUME Exchange, NEW s \in Server, pc[s] \notin PreCheck
    PROVE  /\ \A t \in Server : pc[t] \notin PreCheck /\ (NoEntries(t) <=> NoEntries(1))
           /\ pk_list[0] = pk_list[1]
  BY DEF Exchange, Together, PreCheck, NoEntries, Server

\* One server moves among the places after the lists, both know what it has.
LEMMA MoveKeepsTogether ==
    ASSUME Exchange, NEW s \in Server, NEW place \in Places, UNCHANGED pk_list,
           pc[s] \notin PreCheck, place \notin PreCheck, pc' = [pc EXCEPT ![s] = place],
           place \in {"cor", "out"} => ~NoEntries(1),
           place = "dead" => NoEntries(1),
           s = 1 => place # "sums"
    PROVE  /\ Together' /\ pc' \in [Server -> Places]
           /\ pc'[s] = place /\ \A t \in Server : t # s => pc'[t] = pc[t]
           /\ \A t \in Server : NoEntries(t)' = NoEntries(t)
  <1>1. /\ \A t \in Server : pc[t] \notin PreCheck /\ (NoEntries(t) <=> NoEntries(1))
        /\ pk_list[0] = pk_list[1]
    BY SameEntries
  <1>2. pc'[s] = place /\ \A t \in Server : t # s => pc'[t] = pc[t]
    BY DEF Exchange
  <1>3. pc' \in [Server -> Places]
    BY DEF Exchange
  <1>4. \A t \in Server : NoEntries(t)' = NoEntries(t)
    BY DEF NoEntries
  <1>5. \A t \in Server : pc'[t] \notin PreCheck
    BY <1>1, <1>2
  <1>6. \A t \in Server : pc'[t] \in {"cor", "out"} => ~NoEntries(t)'
    BY <1>1, <1>2, <1>4 DEF Exchange, Together
  <1>7. \A t \in Server : pc'[t] = "dead" => NoEntries(t)'
    BY <1>1, <1>2, <1>4 DEF Exchange, Together
  <1>8. pc'[1] # "sums"
    BY <1>2 DEF Exchange, Together, Server
  <1>9. pc'[1] \notin Receiving /\ pk_list'[0] = pk_list'[1]
    BY <1>1, <1>5 DEF PreCheck, Server
  <1>10. Together'
    BY <1>5, <1>6, <1>7, <1>8, <1>9 DEF Together, Server
  <1> QED
    BY <1>2, <1>3, <1>4, <1>10

\* The first round of a check.
LEMMA SendCorKeepsExchange ==
    ASSUME Exchange, NEW s \in Server, SendCor(s) PROVE Exchange'
  <1>1. /\ pc[s] = "check" /\ pc' = [pc EXCEPT ![s] = "cor"] /\ UNCHANGED <<rcvd, pk_list>>
        /\ to' = [to EXCEPT ![1 - s] = Append(@, Message("cor", Held(s)))]
    BY DEF SendCor
  <1>2. ~NoEntries(1)
    BY <1>1, SameEntries DEF SendCor, PreCheck, Receiving
  <1>3. /\ Together' /\ pc' \in [Server -> Places]
        /\ pc'[s] = "cor" /\ \A t \in Server : t # s => pc'[t] = pc[t]
        /\ \A t \in Server : NoEntries(t)' = NoEntries(t)
    <2>1. "cor" \in Places /\ "cor" \notin PreCheck /\ pc[s] \notin PreCheck
      BY <1>1 DEF Places, PreCheck, Receiving
    <2> QED
      BY <1>1, <1>2, <2>1, MoveKeepsTogether
  <1>4. /\ Streams' /\ to'[s] = to[s]
        /\ \A t \in Server : t # s => Len(to'[t]) = Len(to[t]) + 1
    <2>1. 1 - s \in Server /\ 1 - s # s /\ s \in {0, 1}
      BY DEF Server
    <2>2. PICK n \in {0, 1} : /\ Len(to[1 - s]) = n
                              /\ n = IF s = 0 THEN 0 ELSE 1
      BY <1>1, <2>1 DEF Exchange, WrittenTo0, WrittenTo1
    <2>3. "cor" = Kind(1 - s, n + 1)
      BY <1>2, <2>1, <2>2 DEF Kind
    <2>4. /\ Streams' /\ Len(to'[1 - s]) = n + 1
          /\ \A t \in Server : t # 1 - s => to'[t] = to[t]
      <3>1. n \in Nat /\ (1 - s = 0 => n # 0)
        BY <2>1, <2>2
      <3> QED
        BY <1>1, <2>1, <2>2, <2>3, <3>1, SendKeepsOrder
    <2>5. \A t \in Server : t # s => t = 1 - s
      BY DEF Server
    <2> QED
      BY <2>1, <2>2, <2>4, <2>5
  <1>5. WrittenTo0' /\ WrittenTo1' /\ ReadBy0' /\ ReadBy1'
    <2>1. CASE s = 0
      <3>1. WrittenTo0'
        BY <1>1, <1>2, <1>3, <1>4, <2>1 DEF Exchange, WrittenTo0, Receiving, PreCheck, Server
      <3>2. WrittenTo1'
        BY <1>1, <1>2, <1>3, <1>4, <2>1 DEF Exchange, WrittenTo1, Receiving, PreCheck, Server
      <3>3. ReadBy0'
        BY <1>1, <1>2, <1>3, <1>4, <2>1 DEF Exchange, ReadBy0, Receiving, PreCheck, Server
      <3>4. ReadBy1'
        BY <1>1, <1>2, <1>3, <1>4, <2>1 DEF Exchange, ReadBy1, Receiving, PreCheck, Server
      <3> QED
        BY <3>1, <3>2, <3>3, <3>4
    <2>2. CASE s = 1
      <3>1. WrittenTo0'
        <4>1. pc[1] = "check" /\ pc'[1] = "cor"
          BY <1>1, <1>3, <2>2
        <4>2. Len(to[0]) = 1
          BY <4>1 DEF Exchange, WrittenTo0
        <4>3. 0 \in Server /\ 0 # s
          BY <2>2 DEF Server
        <4>4. Len(to'[0]) = Len(to[0]) + 1
          BY <1>4, <4>3
        <4>5. Len(to'[0]) = 2
          BY <4>2, <4>4
        <4> QED
          BY <4>1, <4>5 DEF WrittenTo0, Receiving, PreCheck
      <3>2. WrittenTo1'
        BY <1>1, <1>2, <1>3, <1>4, <2>2 DEF Exchange, WrittenTo1, Receiving, PreCheck, Server
      <3>3. ReadBy0'
        BY <1>1, <1>2, <1>3, <1>4, <2>2 DEF Exchange, ReadBy0, Receiving, PreCheck, Server
      <3>4. ReadBy1'
        BY <1>1, <1>2, <1>3, <1>4, <2>2 DEF Exchange, ReadBy1, Receiving, PreCheck, Server
      <3> QED
        BY <3>1, <3>2, <3>3, <3>4
    <2> QED
      BY <2>1, <2>2 DEF Server
  <1>6. \A t \in Server : rcvd'[t] <= Len(to'[t])
    BY <1>1, <1>4 DEF Exchange, Server
  <1> QED
    BY <1>1, <1>3, <1>4, <1>5, <1>6 DEF Exchange, Streams

\* A check of nothing: the server goes on, or dies.
LEMMA NoCircuitKeepsExchange ==
    ASSUME Exchange, NEW s \in Server, NoCircuit(s) PROVE Exchange'
  <1>1. PICK place \in {"valid", "dead"} : pc' = [pc EXCEPT ![s] = place]
    BY DEF NoCircuit
  <1>2. pc[s] = "check" /\ UNCHANGED <<to, rcvd, pk_list>>
    BY DEF NoCircuit
  <1>3. NoEntries(1)
    BY <1>2, SameEntries DEF NoCircuit, PreCheck, Receiving
  <1>4. /\ Together' /\ pc' \in [Server -> Places]
        /\ pc'[s] = place /\ \A t \in Server : t # s => pc'[t] = pc[t]
        /\ \A t \in Server : NoEntries(t)' = NoEntries(t)
    <2>1. /\ place \in Places /\ place \notin PreCheck /\ place # "sums"
          /\ place \notin {"cor", "out"} /\ pc[s] \notin PreCheck
      BY <1>1, <1>2 DEF Places, PreCheck, Receiving
    <2> QED
      BY <1>1, <1>2, <1>3, <2>1, MoveKeepsTogether
  <1>5. Streams'
    BY <1>2, ReadKeepsStreams
  <1>6. WrittenTo0' /\ WrittenTo1' /\ ReadBy0' /\ ReadBy1'
    <2>1. CASE s = 0
      <3>1. WrittenTo0'
        BY <1>1, <1>2, <1>3, <1>4, <2>1 DEF Exchange, WrittenTo0, Receiving, PreCheck, Server
      <3>2. WrittenTo1'
        BY <1>1, <1>2, <1>3, <1>4, <2>1 DEF Exchange, WrittenTo1, Receiving, PreCheck, Server
      <3>3. ReadBy0'
        BY <1>1, <1>2, <1>3, <1>4, <2>1 DEF Exchange, ReadBy0, Receiving, PreCheck, Server
      <3>4. ReadBy1'
        BY <1>1, <1>2, <1>3, <1>4, <2>1 DEF Exchange, ReadBy1, Receiving, PreCheck, Server
      <3> QED
        BY <3>1, <3>2, <3>3, <3>4
    <2>2. CASE s = 1
      <3>1. WrittenTo0'
        BY <1>1, <1>2, <1>3, <1>4, <2>2 DEF Exchange, WrittenTo0, Receiving, PreCheck, Server
      <3>2. WrittenTo1'
        BY <1>1, <1>2, <1>3, <1>4, <2>2 DEF Exchange, WrittenTo1, Receiving, PreCheck, Server
      <3>3. ReadBy0'
        BY <1>1, <1>2, <1>3, <1>4, <2>2 DEF Exchange, ReadBy0, Receiving, PreCheck, Server
      <3>4. ReadBy1'
        BY <1>1, <1>2, <1>3, <1>4, <2>2 DEF Exchange, ReadBy1, Receiving, PreCheck, Server
      <3> QED
        BY <3>1, <3>2, <3>3, <3>4
    <2> QED
      BY <2>1, <2>2 DEF Server
  <1> QED
    BY <1>2, <1>4, <1>5, <1>6 DEF Exchange, Streams

\* The second round.
LEMMA RecvCorKeepsExchange ==
    ASSUME Exchange, NEW s \in Server, RecvCor(s) PROVE Exchange'
  <1>1. /\ pc[s] = "cor" /\ pc' = [pc EXCEPT ![s] = "out"] /\ UNCHANGED pk_list
        /\ rcvd[s] < Len(to[s]) /\ rcvd' = [rcvd EXCEPT ![s] = @ + 1]
        /\ to' = [to EXCEPT ![1 - s] = Append(@, Message("out", Held(s)))]
    BY DEF RecvCor, CanRead, Read
  <1>2. ~NoEntries(1)
    BY <1>1, SameEntries DEF Exchange, Together, PreCheck, Receiving
  <1>3. /\ Together' /\ pc' \in [Server -> Places]
        /\ pc'[s] = "out" /\ \A t \in Server : t # s => pc'[t] = pc[t]
        /\ \A t \in Server : NoEntries(t)' = NoEntries(t)
    <2>1. "out" \in Places /\ "out" \notin PreCheck /\ pc[s] \notin PreCheck
      BY <1>1 DEF Places, PreCheck, Receiving
    <2> QED
      BY <1>1, <1>2, <2>1, MoveKeepsTogether
  <1>4. /\ Streams' /\ to'[s] = to[s]
        /\ \A t \in Server : t # s => Len(to'[t]) = Len(to[t]) + 1
    <2>1. 1 - s \in Server /\ 1 - s # s /\ s \in {0, 1}
      BY DEF Server
    <2>2. PICK n \in {1, 2} : /\ Len(to[1 - s]) = n
                              /\ n = IF s = 0 THEN 1 ELSE 2
      BY <1>1, <2>1 DEF Exchange, WrittenTo0, WrittenTo1
    <2>3. "out" = Kind(1 - s, n + 1)
      BY <1>2, <2>1, <2>2 DEF Kind
    <2>4. /\ Streams' /\ Len(to'[1 - s]) = n + 1
          /\ \A t \in Server : t # 1 - s => to'[t] = to[t]
      <3>1. n \in Nat /\ (1 - s = 0 => n # 0)
        BY <2>1, <2>2
      <3> QED
        BY <1>1, <2>1, <2>2, <2>3, <3>1, SendKeepsOrder
    <2>5. \A t \in Server : t # s => t = 1 - s
      BY DEF Server
    <2> QED
      BY <2>1, <2>2, <2>4, <2>5
  <1>5. /\ rcvd' \in [Server -> Nat] /\ rcvd'[s] = rcvd[s] + 1
        /\ \A t \in Server : t # s => rcvd'[t] = rcvd[t]
    BY <1>1 DEF Exchange
  <1>6. WrittenTo0' /\ WrittenTo1' /\ ReadBy0' /\ ReadBy1'
    <2>1. CASE s = 0
      <3>1. WrittenTo0'
        BY <1>1, <1>2, <1>3, <1>4, <1>5, <2>1 DEF Exchange, WrittenTo0, Receiving, PreCheck, Server
      <3>2. WrittenTo1'
        <4>1. pc[0] = "cor" /\ pc'[0] = "out"
          BY <1>1, <1>3, <2>1
        <4>2. Len(to[1]) = 1
          BY <4>1 DEF Exchange, WrittenTo1
        <4>3. 1 \in Server /\ 1 # s
          BY <2>1 DEF Server
        <4>4. Len(to'[1]) = Len(to[1]) + 1
          BY <1>4, <4>3
        <4>5. Len(to'[1]) = 2
          BY <4>2, <4>4
        <4> QED
          BY <4>1, <4>5 DEF WrittenTo1, Receiving, PreCheck
      <3>3. ReadBy0'
        BY <1>1, <1>2, <1>3, <1>4, <1>5, <2>1 DEF Exchange, ReadBy0, Receiving, PreCheck, Server
      <3>4. ReadBy1'
        BY <1>1, <1>2, <1>3, <1>4, <1>5, <2>1 DEF Exchange, ReadBy1, Receiving, PreCheck, Server
      <3> QED
        BY <3>1, <3>2, <3>3, <3>4
    <2>2. CASE s = 1
      <3>1. WrittenTo0'
        <4>1. pc[1] = "cor" /\ pc'[1] = "out"
          BY <1>1, <1>3, <2>2
        <4>2. Len(to[0]) = 2
          BY <4>1 DEF Exchange, WrittenTo0
        <4>3. 0 \in Server /\ 0 # s
          BY <2>2 DEF Server
        <4>4. Len(to'[0]) = Len(to[0]) + 1
          BY <1>4, <4>3
        <4>5. Len(to'[0]) = 3
          BY <4>2, <4>4
        <4> QED
          BY <4>1, <4>5 DEF WrittenTo0, Receiving, PreCheck
      <3>2. WrittenTo1'
        BY <1>1, <1>2, <1>3, <1>4, <1>5, <2>2 DEF Exchange, WrittenTo1, Receiving, PreCheck, Server
      <3>3. ReadBy0'
        BY <1>1, <1>2, <1>3, <1>4, <1>5, <2>2 DEF Exchange, ReadBy0, Receiving, PreCheck, Server
      <3>4. ReadBy1'
        BY <1>1, <1>2, <1>3, <1>4, <1>5, <2>2 DEF Exchange, ReadBy1, Receiving, PreCheck, Server
      <3> QED
        BY <3>1, <3>2, <3>3, <3>4
    <2> QED
      BY <2>1, <2>2 DEF Server
  <1>7. \A t \in Server : rcvd'[t] <= Len(to'[t])
    BY <1>1, <1>4, <1>5 DEF Exchange, Server
  <1> QED
    BY <1>1, <1>3, <1>4, <1>5, <1>6, <1>7 DEF Exchange, Streams

\* The second round is read, and the check is over.
LEMMA RecvOutKeepsExchange ==
    ASSUME Exchange, NEW s \in Server, RecvOut(s) PROVE Exchange'
  <1>1. /\ pc[s] = "out" /\ pc' = [pc EXCEPT ![s] = "valid"] /\ UNCHANGED <<to, pk_list>>
        /\ rcvd[s] < Len(to[s]) /\ rcvd' = [rcvd EXCEPT ![s] = @ + 1]
    BY DEF RecvOut, CanRead, Read
  <1>2. ~NoEntries(1)
    BY <1>1, SameEntries DEF Exchange, Together, PreCheck, Receiving
  <1>3. /\ Together' /\ pc' \in [Server -> Places]
        /\ pc'[s] = "valid" /\ \A t \in Server : t # s => pc'[t] = pc[t]
        /\ \A t \in Server : NoEntries(t)' = NoEntries(t)
    <2>1. "valid" \in Places /\ "valid" \notin PreCheck /\ pc[s] \notin PreCheck
      BY <1>1 DEF Places, PreCheck, Receiving
    <2> QED
      BY <1>1, <1>2, <2>1, MoveKeepsTogether
  <1>4. Streams'
    BY <1>1, ReadKeepsStreams
  <1>5. /\ rcvd' \in [Server -> Nat] /\ rcvd'[s] = rcvd[s] + 1
        /\ \A t \in Server : t # s => rcvd'[t] = rcvd[t]
    BY <1>1 DEF Exchange
  <1>6. WrittenTo0' /\ WrittenTo1' /\ ReadBy0' /\ ReadBy1'
    <2>1. CASE s = 0
      <3>1. WrittenTo0'
        BY <1>1, <1>2, <1>3, <1>5, <2>1 DEF Exchange, WrittenTo0, Receiving, PreCheck, Server
      <3>2. WrittenTo1'
        BY <1>1, <1>2, <1>3, <1>5, <2>1 DEF Exchange, WrittenTo1, Receiving, PreCheck, Server
      <3>3. ReadBy0'
        BY <1>1, <1>2, <1>3, <1>5, <2>1 DEF Exchange, ReadBy0, Receiving, PreCheck, Server
      <3>4. ReadBy1'
        BY <1>1, <1>2, <1>3, <1>5, <2>1 DEF Exchange, ReadBy1, Receiving, PreCheck, Server
      <3> QED
        BY <3>1, <3>2, <3>3, <3>4
    <2>2. CASE s = 1
      <3>1. WrittenTo0'
        BY <1>1, <1>2, <1>3, <1>5, <2>2 DEF Exchange, WrittenTo0, Receiving, PreCheck, Server
      <3>2. WrittenTo1'
        BY <1>1, <1>2, <1>3, <1>5, <2>2 DEF Exchange, WrittenTo1, Receiving, PreCheck, Server
      <3>3. ReadBy0'
        BY <1>1, <1>2, <1>3, <1>5, <2>2 DEF Exchange, ReadBy0, Receiving, PreCheck, Server
      <3>4. ReadBy1'
        BY <1>1, <1>2, <1>3, <1>5, <2>2 DEF Exchange, ReadBy1, Receiving, PreCheck, Server
      <3> QED
        BY <3>1, <3>2, <3>3, <3>4
    <2> QED
      BY <2>1, <2>2 DEF Server
  <1>7. \A t \in Server : rcvd'[t] <= Len(to'[t])
    BY <1>1, <1>5 DEF Exchange, Server
  <1> QED
    BY <1>1, <1>3, <1>4, <1>5, <1>6, <1>7 DEF Exchange, Streams

\* Server 0 sends its flags, if there is any.
LEMMA SendValidKeepsExchange == Exchange /\ SendValid => Exchange'
  <1> SUFFICES ASSUME Exchange, SendValid PROVE Exchange'
    OBVIOUS
  <1>1. /\ pc[0] = "valid" /\ pc' = [pc EXCEPT ![0] = "sums"] /\ UNCHANGED <<rcvd, pk_list>>
        /\ 0 \in Server /\ 1 \in Server
    BY DEF SendValid, Server
  <1>2. NoEntries(0) <=> NoEntries(1)
    BY <1>1, SameEntries DEF PreCheck, Receiving
  <1>3. /\ Together' /\ pc' \in [Server -> Places]
        /\ pc'[0] = "sums" /\ \A t \in Server : t # 0 => pc'[t] = pc[t]
        /\ \A t \in Server : NoEntries(t)' = NoEntries(t)
    <2>1. /\ "sums" \in Places /\ "sums" \notin PreCheck /\ pc[0] \notin PreCheck
          /\ "sums" \notin {"cor", "out"} /\ "sums" # "dead" /\ 0 # 1
      BY <1>1 DEF Places, PreCheck, Receiving
    <2> QED
      BY <1>1, <2>1, MoveKeepsTogether
  <1>4. /\ Streams' /\ to'[0] = to[0]
        /\ NoEntries(1) => to'[1] = to[1]
        /\ ~NoEntries(1) => Len(to[1]) = 2 /\ Len(to'[1]) = 3
    <2>1. CASE NoEntries(1)
      <3>1. to' = to
        BY <1>2, <2>1 DEF SendValid
      <3> QED
        BY <1>1, <2>1, <3>1, ReadKeepsStreams
    <2>2. CASE ~NoEntries(1)
      <3>1. to' = [to EXCEPT ![1] = Append(@, Message("valid", valid[0]))]
        BY <1>2, <2>2 DEF SendValid
      <3>2. Len(to[1]) = 2
        BY <1>1, <2>2 DEF Exchange, WrittenTo1
      <3>3. "valid" = Kind(1, 2 + 1) /\ 2 \in Nat /\ 1 # 0
        BY DEF Kind
      <3>4. Streams' /\ Len(to'[1]) = 2 + 1 /\ \A t \in Server : t # 1 => to'[t] = to[t]
        BY <1>1, <3>1, <3>2, <3>3, SendKeepsOrder
      <3>5. 2 + 1 = 3
        OBVIOUS
      <3> QED
        BY <1>1, <2>2, <3>2, <3>3, <3>4, <3>5
    <2> QED
      BY <2>1, <2>2
  <1>5. WrittenTo0' /\ WrittenTo1' /\ ReadBy0' /\ ReadBy1'
    <2>1. WrittenTo0'
      BY <1>1, <1>3, <1>4 DEF Exchange, WrittenTo0, Receiving, PreCheck, Server
    <2>2. WrittenTo1'
      BY <1>1, <1>3, <1>4 DEF Exchange, WrittenTo1, Receiving, PreCheck, Server
    <2>3. ReadBy0'
      BY <1>1, <1>3, <1>4 DEF Exchange, ReadBy0, Receiving, PreCheck, Server
    <2>4. ReadBy1'
      BY <1>1, <1>3, <1>4 DEF Exchange, ReadBy1, Receiving, PreCheck, Server
    <2> QED
      BY <2>1, <2>2, <2>3, <2>4
  <1>6. \A t \in Server : rcvd'[t] <= Len(to'[t])
    <2>1. rcvd'[0] <= Len(to'[0])
      BY <1>1, <1>4 DEF Exchange
    <2>2. rcvd[1] <= Len(to[1]) /\ rcvd[1] \in Nat /\ rcvd'[1] = rcvd[1]
      BY <1>1 DEF Exchange
    <2>3. rcvd'[1] <= Len(to'[1])
      <3>1. CASE NoEntries(1)
        BY <1>4, <2>2, <3>1
      <3>2. CASE ~NoEntries(1)
        <4>1. Len(to[1]) = 2 /\ Len(to'[1]) = 3
          BY <1>4, <3>2
        <4>2. rcvd[1] <= 2
          BY <2>2, <4>1
        <4>3. rcvd'[1] <= 3
          BY <2>2, <4>2
        <4> QED
          BY <4>1, <4>3
      <3> QED
        BY <3>1, <3>2
    <2> QED
      BY <2>1, <2>3 DEF Server
  <1> QED
    BY <1>1, <1>3, <1>4, <1>5, <1>6 DEF Exchange, Streams

\* Server 1 takes the flags, sends its sums and returns, or dies of writing
\* to a server that died.
LEMMA RecvValidKeepsExchange == Exchange /\ RecvValid => Exchange'
  <1> SUFFICES ASSUME Exchange, RecvValid PROVE Exchange'
    OBVIOUS
  <1>1. /\ pc[1] = "valid" /\ UNCHANGED pk_list
        /\ 0 \in Server /\ 1 \in Server
        /\ to' = [to EXCEPT ![0] = Append(@, Message("sums", acc'[1]))]
    BY DEF RecvValid, Server
  <1>2. /\ NoEntries(0) <=> NoEntries(1)
        /\ pc[0] \notin PreCheck
    BY <1>1, SameEntries DEF PreCheck, Receiving
  <1>3. PICK place \in {"done", "dead"} :
          pc' = [pc EXCEPT ![1] = place] /\ (place = "dead" => pc[0] = "dead")
    BY DEF RecvValid
  <1>4. /\ Together' /\ pc' \in [Server -> Places]
        /\ pc'[1] = place /\ \A t \in Server : t # 1 => pc'[t] = pc[t]
        /\ \A t \in Server : NoEntries(t)' = NoEntries(t)
        /\ place = "dead" => NoEntries(1)
    <2>1. /\ place \in Places /\ place \notin PreCheck /\ pc[1] \notin PreCheck
          /\ place \notin {"cor", "out"} /\ place # "sums"
      BY <1>1, <1>3 DEF Places, PreCheck, Receiving
    <2>2. place = "dead" => NoEntries(1)
      BY <1>1, <1>2, <1>3 DEF Exchange, Together
    <2> QED
      BY <1>1, <1>3, <2>1, <2>2, MoveKeepsTogether
  <1>5. /\ Streams' /\ to'[1] = to[1]
        /\ NoEntries(1) => Len(to[0]) = 1 /\ Len(to'[0]) = 2
        /\ ~NoEntries(1) => Len(to[0]) = 3 /\ Len(to'[0]) = 4
    <2>1. PICK n \in {1, 3} : Len(to[0]) = n /\ (NoEntries(1) => n = 1) /\ (~NoEntries(1) => n = 3)
      BY <1>1 DEF Exchange, WrittenTo0
    <2>2. "sums" = Kind(0, n + 1) /\ n \in Nat /\ n # 0 /\ 1 # 0
      BY <2>1 DEF Kind
    <2>3. Streams' /\ Len(to'[0]) = n + 1 /\ \A t \in Server : t # 0 => to'[t] = to[t]
      BY <1>1, <2>1, <2>2, SendKeepsOrder
    <2>4. n + 1 = IF n = 1 THEN 2 ELSE 4
      BY <2>1
    <2> QED
      BY <1>1, <2>1, <2>2, <2>3, <2>4
  <1>6. /\ rcvd' \in [Server -> Nat] /\ rcvd'[0] = rcvd[0] /\ rcvd'[1] <= Len(to[1])
        /\ rcvd'[1] = IF NoEntries(1) THEN 0 ELSE 3
    <2>1. rcvd \in [Server -> Nat] /\ rcvd[1] <= Len(to[1])
      BY <1>1 DEF Exchange
    <2>2. CASE NoEntries(1)
      <3>1. rcvd' = rcvd
        BY <2>2 DEF RecvValid
      <3>2. rcvd[1] = 0
        BY <1>1, <2>2 DEF Exchange, ReadBy1
      <3> QED
        BY <2>1, <2>2, <3>1, <3>2
    <2>3. CASE ~NoEntries(1)
      <3>1. rcvd' = [rcvd EXCEPT ![1] = @ + 1] /\ rcvd[1] < Len(to[1])
        BY <2>3 DEF RecvValid, Read, CanRead
      <3>2. rcvd[1] = 2
        BY <1>1, <2>3 DEF Exchange, ReadBy1
      <3>3. Len(to[1]) \in Nat
        BY <1>1 DEF Exchange
      <3> QED
        BY <1>1, <2>1, <2>3, <3>1, <3>2, <3>3
    <2> QED
      BY <2>2, <2>3
  <1>7. WrittenTo0' /\ WrittenTo1' /\ ReadBy0' /\ ReadBy1'
    <2>0. /\ pc'[1] = place /\ place \in {"done", "dead"} /\ (place = "dead" => NoEntries(1))
          /\ NoEntries(1)' = NoEntries(1)
      BY <1>1, <1>3, <1>4
    <2>1. WrittenTo0'
      BY <1>5, <2>0 DEF WrittenTo0, Receiving
    <2>2. WrittenTo1'
      BY <1>1, <1>3, <1>4, <1>5, <1>6 DEF Exchange, WrittenTo1, Receiving, PreCheck, Server
    <2>3. ReadBy0'
      BY <1>1, <1>3, <1>4, <1>5, <1>6 DEF Exchange, ReadBy0, Receiving, PreCheck, Server
    <2>4. ReadBy1'
      BY <1>6, <2>0 DEF ReadBy1, Receiving, PreCheck
    <2> QED
      BY <2>1, <2>2, <2>3, <2>4
  <1>8. \A t \in Server : rcvd'[t] <= Len(to'[t])
    <2>1. rcvd'[0] <= Len(to'[0])
      <3>1. rcvd[0] <= Len(to[0]) /\ rcvd[0] \in Nat
        BY <1>1 DEF Exchange
      <3>2. \/ Len(to[0]) = 1 /\ Len(to'[0]) = 2
            \/ Len(to[0]) = 3 /\ Len(to'[0]) = 4
        BY <1>5
      <3>3. CASE Len(to[0]) = 1 /\ Len(to'[0]) = 2
        <4>1. rcvd'[0] <= 2
          BY <1>6, <3>1, <3>3
        <4> QED
          BY <3>3, <4>1
      <3>4. CASE Len(to[0]) = 3 /\ Len(to'[0]) = 4
        <4>1. rcvd'[0] <= 4
          BY <1>6, <3>1, <3>4
        <4> QED
          BY <3>4, <4>1
      <3> QED
        BY <3>2, <3>3, <3>4
    <2>2. rcvd'[1] <= Len(to'[1])
      BY <1>5, <1>6
    <2> QED
      BY <2>1, <2>2 DEF Server
  <1> QED
    BY <1>1, <1>4, <1>5, <1>6, <1>7, <1>8 DEF Exchange, Streams

\* Server 0 reads the sums, or the end of a dead server's stream.
LEMMA RecvSumsKeepsExchange == Exchange /\ RecvSums => Exchange'
  <1> SUFFICES ASSUME Exchange, RecvSums PROVE Exchange'
    OBVIOUS
  <1>1. /\ pc[0] = "sums" /\ pc' = [pc EXCEPT ![0] = "done"] /\ UNCHANGED <<to, pk_list>>
        /\ 0 \in Server /\ 1 \in Server
        /\ \/ rcvd[0] < Len(to[0]) /\ rcvd' = [rcvd EXCEPT ![0] = @ + 1]
           \/ pc[1] = "dead" /\ rcvd' = rcvd
    BY DEF RecvSums, CanRead, Read, Server
  <1>2. /\ Together' /\ pc' \in [Server -> Places]
        /\ pc'[0] = "done" /\ \A t \in Server : t # 0 => pc'[t] = pc[t]
        /\ \A t \in Server : NoEntries(t)' = NoEntries(t)
    <2>1. /\ "done" \in Places /\ "done" \notin PreCheck /\ pc[0] \notin PreCheck
          /\ "done" \notin {"cor", "out"} /\ "done" # "dead"
      BY <1>1 DEF Places, PreCheck, Receiving
    <2> QED
      BY <1>1, <2>1, MoveKeepsTogether
  <1>3. Streams'
    BY <1>1, ReadKeepsStreams
  <1>4. /\ rcvd' \in [Server -> Nat] /\ rcvd'[1] = rcvd[1]
        /\ \/ rcvd[0] < Len(to[0]) /\ rcvd'[0] = rcvd[0] + 1
           \/ pc[1] = "dead" /\ rcvd'[0] = rcvd[0]
    BY <1>1 DEF Exchange
  <1>5. pc[1] = "dead" => NoEntries(1)
    BY <1>1 DEF Exchange, Together
  <1>6. WrittenTo0' /\ WrittenTo1' /\ ReadBy0' /\ ReadBy1'
    <2>1. WrittenTo0'
      BY <1>1, <1>2, <1>4, <1>5 DEF Exchange, WrittenTo0, Receiving, PreCheck, Server
    <2>2. WrittenTo1'
      BY <1>1, <1>2, <1>4, <1>5 DEF Exchange, WrittenTo1, Receiving, PreCheck, Server
    <2>3. ReadBy0'
      BY <1>1, <1>2, <1>4, <1>5 DEF Exchange, ReadBy0, Receiving, PreCheck, Server
    <2>4. ReadBy1'
      BY <1>1, <1>2, <1>4, <1>5 DEF Exchange, ReadBy1, Receiving, PreCheck, Server
    <2> QED
      BY <2>1, <2>2, <2>3, <2>4
  <1>7. \A t \in Server : rcvd'[t] <= Len(to'[t])
    BY <1>1, <1>4 DEF Exchange, Server
  <1> QED
    BY <1>1, <1>2, <1>3, <1>4, <1>6, <1>7 DEF Exchange, Streams
-----------------------------------------------------------------------------
\* Reception is inductive.
LEMMA StepKeepsReception == Reception /\ [Next]_vars => Reception'
  <1> SUFFICES ASSUME Reception, [Next]_vars PROVE Reception'
    OBVIOUS
  <1> DEFINE Later(s, place) ==
        /\ UNCHANGED <<campaign, client, sent, i, taken, share_map>>
        /\ pc' = [pc EXCEPT ![s] = place]
        /\ pc[s] \notin Receiving \/ (pc[s] = "recv" /\ i[s] = Total_inputs)
  <1>1. ASSUME NEW s \in Server, NEW place \in Places \ Receiving, Later(s, place)
        PROVE  Reception'
    <2>1. pc \in [Server -> Places]
      BY DEF Reception
    <2>2. pc' \in [Server -> Places]
      BY <1>1, <2>1
    <2>3. \A t \in Server :
             \/ pc'[t] = pc[t]
             \/ /\ pc'[t] \notin Receiving
                /\ pc[t] \notin Receiving \/ (pc[t] = "recv" /\ i[t] = Total_inputs)
      BY <1>1, <2>1
    <2> QED
      BY <1>1, <2>2, <2>3, LaterKeepsReception
  <1>2. CASE ClientStep
    BY <1>2, ClientKeepsReception
  <1>3. ASSUME NEW s \in Server, Receive(s) PROVE Reception'
    BY <1>3, RecvShareKeepsReception, RecvPacketKeepsReception DEF Receive
  <1>4. ASSUME NEW s \in Server, Validate(s) PROVE Reception'
    <2>1. PICK place \in {"cor", "valid", "dead", "out"} : Later(s, place)
      BY <1>4 DEF Validate, SendCor, NoCircuit, RecvCor, RecvOut, Receiving
    <2>2. place \in Places \ Receiving
      BY DEF Places, Receiving
    <2> QED
      BY <1>1, <2>1, <2>2
  <1>5. CASE RecvPks \/ SendValid \/ RecvSums
    <2>1. PICK place \in {"convert", "sums", "done"} : Later(0, place)
      BY <1>5 DEF RecvPks, SendValid, RecvSums, Receiving
    <2>2. place \in Places \ Receiving /\ 0 \in Server
      BY DEF Places, Receiving, Server
    <2> QED
      BY <1>1, <2>1, <2>2
  <1>6. CASE SendPks \/ RecvValid
    <2>1. PICK place \in {"convert", "done", "dead"} : Later(1, place)
      BY <1>6 DEF SendPks, RecvValid, Receiving
    <2>2. place \in Places \ Receiving /\ 1 \in Server
      BY DEF Places, Receiving, Server
    <2> QED
      BY <1>1, <2>1, <2>2
  <1>7. CASE Convert
    <2>1. /\ UNCHANGED <<campaign, client, sent, i, taken, share_map>>
          /\ pc' \in [Server -> Places]
          /\ \A t \in Server : pc'[t] \notin Receiving /\ pc[t] \notin Receiving
      BY <1>7 DEF Convert, Places, Receiving
    <2> QED
      BY <2>1, LaterKeepsReception
  <1>8. CASE UNCHANGED vars
    <2>1. /\ UNCHANGED <<campaign, client, sent, i, taken, share_map>>
          /\ pc' = pc /\ pc \in [Server -> Places]
      BY <1>8 DEF vars, Reception
    <2> QED
      BY <2>1, LaterKeepsReception
  <1> QED
    BY <1>2, <1>3, <1>4, <1>5, <1>6, <1>7, <1>8
       DEF Next, Server0Step, Server1Step, Server

\* Exchange is inductive.
LEMMA StepKeepsExchange == Exchange /\ [Next]_vars => Exchange'
  <1> SUFFICES ASSUME Exchange, [Next]_vars PROVE Exchange'
    OBVIOUS
  <1>1. CASE ClientStep \/ UNCHANGED vars
    <2>1. UNCHANGED <<pc, to, rcvd, pk_list>>
      BY <1>1 DEF ClientStep, Close, SendNext, vars
    <2> QED
      BY <2>1, LoopsKeepExchange DEF Exchange
  <1>2. ASSUME NEW s \in Server, Receive(s) PROVE Exchange'
    <2>1. PICK place \in Receiving : pc' = [pc EXCEPT ![s] = place]
      BY <1>2 DEF Receive, RecvShare, RecvPacket, Receiving
    <2>2. pc[s] \in Receiving /\ UNCHANGED <<to, rcvd, pk_list>>
      BY <1>2 DEF Receive, RecvShare, RecvPacket, Receiving
    <2>3. /\ pc' \in [Server -> Places]
          /\ \A t \in Server : pc'[t] = pc[t] \/ (pc[t] \in Receiving /\ pc'[t] \in Receiving)
      <3>1. pc \in [Server -> Places] /\ place \in Places
        BY DEF Exchange, Receiving, Places
      <3> QED
        BY <2>1, <2>2, <3>1
    <2> QED
      BY <2>2, <2>3, LoopsKeepExchange
  <1>3. ASSUME NEW s \in Server, Validate(s) PROVE Exchange'
    BY <1>3, SendCorKeepsExchange, NoCircuitKeepsExchange, RecvCorKeepsExchange,
       RecvOutKeepsExchange DEF Validate
  <1>4. CASE RecvPks \/ SendValid \/ RecvSums
    BY <1>4, RecvPksKeepsExchange, SendValidKeepsExchange, RecvSumsKeepsExchange
  <1>5. CASE SendPks \/ RecvValid
    BY <1>5, SendPksKeepsExchange, RecvValidKeepsExchange
  <1>6. CASE Convert
    BY <1>6, ConvertKeepsExchange
  <1> QED
    BY <1>1, <1>2, <1>3, <1>4, <1>5, <1>6 DEF Next, Server0Step, Server1Step, Server

\* The loops of var_op and linreg_op and what they leave, for every batch.
THEOREM ReceptionHolds == Spec => []Reception
  BY InitReception, StepKeepsReception, PTL DEF Spec

\* What the two servers write to one another, for every batch.
THEOREM ExchangeHolds == Spec => []Exchange
  BY InitExchange, StepKeepsExchange, PTL DEF Spec

\* Every variable keeps its shape and every counter its bound.
THEOREM SnipTypeCorrect == Spec => []TypeOK
  <1>1. Reception /\ Exchange => TypeOK
    <2> SUFFICES ASSUME Reception, Exchange PROVE TypeOK
      OBVIOUS
    <2>1. \A s \in Server : rcvd[s] \in 0 .. Len(to[s])
      BY DEF Exchange
    <2>2. pc \in [Server -> {"recv", "packet", "convert", "check", "cor", "out",
                             "valid", "sums", "done", "dead"}]
      BY DEF Exchange, Places
    <2> QED
      BY <2>1, <2>2 DEF Reception, TypeOK
  <1> QED
    BY <1>1, ReceptionHolds, ExchangeHolds, PTL

\* Wherever the client dies, a server keeps only whole submissions, each
\* under its own key.
THEOREM SubmissionsStoredWhole == Spec => []StoredWhole
  <1>1. Reception => StoredWhole
    BY DEF Reception
  <1> QED
    BY <1>1, ReceptionHolds, PTL

\* Shares and packets take turns whatever is rejected, every message the
\* servers read is the one they ask for, and nothing is left over.
THEOREM SnipStreamsInStep == Spec => []StreamsInStep
  <1>1. Reception /\ Exchange => StreamsInStep
    <2> SUFFICES ASSUME Reception, Exchange PROVE StreamsInStep
      OBVIOUS
    <2>1. \A s \in Server : ClientInStep(s)
      <3> TAKE s \in Server
      <3>1. Total_inputs \in Nat
        BY BatchSize DEF Reception
      <3>2. /\ Turns(s) /\ taken[s] <= sent[s]
            /\ taken[s] \in Nat /\ sent[s] \in Nat /\ sent[s] <= 2 * Total_inputs
            /\ i[s] \in Nat
        BY <3>1 DEF Reception
      <3> QED
        BY <3>1, <3>2 DEF Turns, ClientInStep, AtEof, Receiving
    <2>2. ASSUME CanRead(0) PROVE to[0][rcvd[0] + 1].kind \in Wanted(0)
      <3>1. /\ rcvd[0] < Len(to[0]) /\ rcvd[0] \in Nat /\ Len(to[0]) \in Nat
            /\ pc[0] \in Places /\ 0 \in Server
        BY <2>2 DEF CanRead, Exchange, Server
      <3>2. to[0][rcvd[0] + 1].kind = Kind(0, rcvd[0] + 1)
        <4>1. rcvd[0] + 1 \in 1 .. Len(to[0])
          BY <3>1
        <4>2. \A n \in 1 .. Len(to[0]) : to[0][n].kind = Kind(0, n)
          BY <3>1 DEF Exchange
        <4> QED
          BY <4>1, <4>2
      <3>3. Kind(0, rcvd[0] + 1) \in {"pks", "cor", "out", "valid", "sums"}
        BY DEF Kind
      <3>4. CASE pc[0] = "recv"
        <4>1. rcvd[0] = 0
          BY <3>4 DEF Exchange, ReadBy0, Receiving
        <4> QED
          BY <3>2, <3>4, <4>1 DEF Kind, Wanted
      <3>5. CASE pc[0] = "cor"
        <4>1. rcvd[0] = 1 /\ ~NoEntries(1)
          BY <3>1, <3>5, SameEntries DEF Exchange, ReadBy0, Together, PreCheck, Receiving
        <4> QED
          BY <3>2, <3>5, <4>1 DEF Kind, Wanted
      <3>6. CASE pc[0] = "out"
        <4>1. rcvd[0] = 2 /\ ~NoEntries(1)
          BY <3>1, <3>6, SameEntries DEF Exchange, ReadBy0, Together, PreCheck, Receiving
        <4> QED
          BY <3>2, <3>6, <4>1 DEF Kind, Wanted
      <3>7. CASE pc[0] = "sums"
        <4>1. rcvd[0] = IF NoEntries(1) THEN 1 ELSE 3
          BY <3>7 DEF Exchange, ReadBy0
        <4>2. Kind(0, rcvd[0] + 1) = "sums"
          BY <4>1 DEF Kind
        <4> QED
          BY <3>2, <3>7, <4>2 DEF Wanted
      <3>8. CASE pc[0] \notin {"recv", "cor", "out", "sums"}
        BY <3>2, <3>3, <3>8 DEF Wanted
      <3> QED
        BY <3>4, <3>5, <3>6, <3>7, <3>8
    <2>3. ASSUME CanRead(1) PROVE to[1][rcvd[1] + 1].kind \in Wanted(1)
      <3>1. /\ rcvd[1] < Len(to[1]) /\ rcvd[1] \in Nat /\ Len(to[1]) \in Nat
            /\ pc[0] \in Places /\ pc[1] \in Places /\ 1 \in Server /\ 0 \in Server
        BY <2>3 DEF CanRead, Exchange, Server
      <3>2. to[1][rcvd[1] + 1].kind = Kind(1, rcvd[1] + 1)
        <4>1. rcvd[1] + 1 \in 1 .. Len(to[1])
          BY <3>1
        <4>2. \A n \in 1 .. Len(to[1]) : to[1][n].kind = Kind(1, n)
          BY <3>1 DEF Exchange
        <4> QED
          BY <4>1, <4>2
      <3>3. Kind(1, rcvd[1] + 1) \in {"pks", "cor", "out", "valid", "sums"}
        BY DEF Kind
      <3>4. pc[0] \notin PreCheck /\ pc[1] # "recv" /\ pc[1] # "sums"
        <4>1. Len(to[1]) # 0
          BY <3>1
        <4>2. pc[0] \notin PreCheck
          BY <4>1 DEF Exchange, WrittenTo1
        <4>3. pc[1] \notin PreCheck /\ pc[1] # "sums"
          BY <4>2 DEF Exchange, Together
        <4> QED
          BY <4>2, <4>3 DEF PreCheck, Receiving
      <3>5. CASE pc[1] = "cor"
        <4>1. rcvd[1] = 0
          BY <3>5 DEF Exchange, ReadBy1
        <4> QED
          BY <3>2, <3>5, <4>1 DEF Kind, Wanted
      <3>6. CASE pc[1] = "out"
        <4>1. rcvd[1] = 1
          BY <3>6 DEF Exchange, ReadBy1
        <4> QED
          BY <3>2, <3>6, <4>1 DEF Kind, Wanted
      <3>7. CASE pc[1] = "valid"
        <4>1. ~NoEntries(1)
          <5>1. Len(to[1]) # 0
            BY <3>1
          <5>2. CASE pc[0] \in {"cor", "out"}
            <6>1. ~NoEntries(0)
              BY <3>1, <5>2 DEF Exchange, Together
            <6> QED
              BY <3>1, <3>4, <6>1, SameEntries
          <5>3. CASE pc[0] \in {"check", "valid", "sums", "done", "dead"}
            BY <5>1, <5>3 DEF Exchange, WrittenTo1
          <5> QED
            BY <3>1, <3>4, <5>2, <5>3 DEF Places, PreCheck, Receiving
        <4>2. rcvd[1] = 2
          BY <3>7, <4>1 DEF Exchange, ReadBy1
        <4> QED
          BY <3>2, <3>7, <4>2 DEF Kind, Wanted
      <3>8. CASE pc[1] \notin {"recv", "cor", "out", "sums", "valid"}
        BY <3>2, <3>3, <3>8 DEF Wanted
      <3> QED
        BY <3>4, <3>5, <3>6, <3>7, <3>8
    <2>4. ASSUME Returned PROVE \A s \in Server : rcvd[s] = Len(to[s])
      <3>1. pc[0] = "done" /\ pc[1] = "done"
        BY <2>4 DEF Returned, Server
      <3>2. rcvd[0] = Len(to[0])
        BY <3>1 DEF Exchange, WrittenTo0, ReadBy0
      <3>3. rcvd[1] = Len(to[1])
        BY <3>1 DEF Exchange, WrittenTo1, ReadBy1
      <3> QED
        BY <3>2, <3>3 DEF Server
    <2> QED
      BY <2>1, <2>2, <2>3, <2>4 DEF StreamsInStep, Server
  <1> QED
    BY <1>1, ReceptionHolds, ExchangeHolds, PTL
-----------------------------------------------------------------------------
(* A valid submission keeps the servers out of an empty validation.        *)

\* Server 1 stores something by the time it has read a valid submission, and
\* lists something once it has stored something.
Listed ==
    /\ \A k \in campaign.valid : 2 * k <= taken[1] => DOMAIN share_map[1] # {}
    /\ pc[1] \notin Receiving /\ NoEntries(1) => DOMAIN share_map[1] = {}

\* Before the first share nothing is listed or read.
LEMMA InitListed == Init => Listed
  <1> SUFFICES ASSUME Init PROVE Listed
    OBVIOUS
  <1>1. \A k \in campaign.valid : k \in Nat /\ k # 0
    BY BatchSize, ValidAssumption DEF Init
  <1>2. taken[1] = 0 /\ pc[1] \in Receiving
    BY DEF Init, Server, Receiving
  <1> QED
    BY <1>1, <1>2 DEF Listed

\* Reading a share completes no submission.
LEMMA RecvShareKeepsListed ==
    ASSUME Reception, Listed, RecvShare(1) PROVE Listed'
  <1>1. /\ UNCHANGED <<campaign, share_map>> /\ 1 \in Server
        /\ pc[1] = "recv" /\ pc' = [pc EXCEPT ![1] = "packet"]
    BY DEF RecvShare, Server
  <1>2. pc'[1] \in Receiving
    BY <1>1 DEF Reception, Receiving
  <1>3. Total_inputs \in Nat /\ i[1] \in Nat /\ taken[1] \in Nat
        /\ \A k \in campaign.valid : k \in Nat
    BY <1>1, BatchSize, ValidAssumption DEF Reception
  <1>4. CASE taken' = taken
    BY <1>1, <1>2, <1>4 DEF Listed
  <1>5. CASE Arrived(1) /\ taken' = [taken EXCEPT ![1] = @ + 1]
    <2>1. taken[1] = 2 * i[1]
      BY <1>1, <1>3, <1>5 DEF Reception, Turns, AtEof, Arrived, Receiving
    <2>2. taken'[1] = 2 * i[1] + 1
      BY <1>1, <1>5, <2>1 DEF Reception
    <2>3. \A k \in Nat, n \in Nat : 2 * k <= 2 * n + 1 => 2 * k <= 2 * n
      OBVIOUS
    <2> QED
      BY <1>1, <1>2, <1>3, <2>1, <2>2, <2>3 DEF Listed
  <1>6. taken = [t \in Server |-> taken[t]]
    BY DEF Reception
  <1> QED
    BY <1>1, <1>4, <1>5, <1>6 DEF RecvShare

\* Its packet does: a valid one is acceptable unless its key is there already.
LEMMA RecvPacketKeepsListed ==
    ASSUME Reception, Listed, RecvPacket(1) PROVE Listed'
  <1>1. /\ UNCHANGED campaign /\ 1 \in Server
        /\ pc[1] = "packet" /\ pc' = [pc EXCEPT ![1] = "recv"]
    BY DEF RecvPacket, Server
  <1>2. pc'[1] \in Receiving
    BY <1>1 DEF Reception, Receiving
  <1>3. Total_inputs \in Nat /\ i[1] \in Nat /\ taken[1] \in Nat
        /\ \A k \in campaign.valid : k \in Nat
    BY <1>1, BatchSize, ValidAssumption DEF Reception
  <1>4. CASE UNCHANGED <<taken, share_map>>
    BY <1>1, <1>2, <1>4 DEF Listed
  <1>5. CASE /\ Arrived(1) /\ taken' = [taken EXCEPT ![1] = @ + 1]
             /\ IF Acceptable(1, Current(1)) THEN Keep(1) ELSE UNCHANGED share_map
    <2>1. taken[1] = 2 * i[1] + 1
      BY <1>1, <1>3, <1>5 DEF Reception, Turns, AtEof, Arrived, Receiving
    <2>2. taken'[1] = 2 * (i[1] + 1)
      BY <1>1, <1>3, <1>5, <2>1 DEF Reception
    <2>3. Current(1) = i[1] + 1
      <3>1. \A n \in Nat : ((2 * n + 1) + 1) \div 2 = n + 1
        OBVIOUS
      <3> QED
        BY <1>3, <2>1, <3>1 DEF Current
    <2>0. Keep(1) => DOMAIN share_map'[1]
                       = DOMAIN share_map[1] \cup {campaign.subs[Current(1)].pk[1]}
      BY <1>1 DEF Keep, Reception
    <2>4. DOMAIN share_map[1] # {} => DOMAIN share_map'[1] # {}
      <3>1. CASE Keep(1)
        BY <2>0, <3>1
      <3> QED
        BY <1>5, <3>1
    <2>5. i[1] + 1 \in campaign.valid => DOMAIN share_map'[1] # {}
      <3> SUFFICES ASSUME i[1] + 1 \in campaign.valid PROVE DOMAIN share_map'[1] # {}
        OBVIOUS
      <3>1. ~OutOfRange(campaign.subs[i[1] + 1].val[1])
        <4>1. campaign \in Campaigns
          BY DEF Reception
        <4>2. \A f \in Fields : \A b \in campaign.subs[i[1] + 1].val[1][f] : ~(b >= Width(f))
          BY <1>1, <4>1, ValidAssumption, Zenon DEF Width, Fields, msg
        <4> QED
          BY <4>2, Zenon DEF OutOfRange
      <3>2. CASE Acceptable(1, Current(1))
        BY <1>5, <2>0, <3>2
      <3>3. CASE ~Acceptable(1, Current(1))
        <4>1. campaign.subs[i[1] + 1].pk[1] \in DOMAIN share_map[1]
          BY <2>3, <3>1, <3>3 DEF Acceptable
        <4> QED
          BY <2>4, <4>1
      <3> QED
        BY <3>2, <3>3
    <2>6. \A k \in Nat, n \in Nat : 2 * k <= 2 * (n + 1) => k = n + 1 \/ 2 * k <= 2 * n + 1
      OBVIOUS
    <2> QED
      BY <1>1, <1>2, <1>3, <2>1, <2>2, <2>4, <2>5, <2>6 DEF Listed
  <1> QED
    BY <1>4, <1>5 DEF RecvPacket

\* A list of all keys of a map that has some is not empty.
LEMMA SendPksKeepsListed ==
    ASSUME Reception, Exchange, Listed, SendPks PROVE Listed'
  <1>1. UNCHANGED <<campaign, taken, share_map>> /\ 1 \in Server
    BY DEF SendPks, Server
  <1>2. PICK order \in Enumerations(DOMAIN share_map[1]) :
             pk_list' = [pk_list EXCEPT ![1] = order]
    BY DEF SendPks
  <1>3. pk_list'[1] = order
    BY <1>1, <1>2 DEF Exchange
  <1>4. order = <<>> => DOMAIN share_map[1] = {}
    BY <1>2 DEF Enumerations
  <1> QED
    BY <1>1, <1>3, <1>4 DEF Listed, NoEntries

\* Nothing else touches what was read, stored or listed by server 1.
LEMMA StepKeepsListed == Reception /\ Exchange /\ Listed /\ [Next]_vars => Listed'
  <1> SUFFICES ASSUME Reception, Exchange, Listed, [Next]_vars PROVE Listed'
    OBVIOUS
  <1>1. ASSUME UNCHANGED <<campaign, taken, share_map, pk_list>>,
               pc'[1] = pc[1] \/ pc[1] \notin Receiving
        PROVE  Listed'
    BY <1>1 DEF Listed, NoEntries
  <1>2. 0 \in Server /\ 1 \in Server
    BY DEF Server
  <1>3. CASE ClientStep \/ UNCHANGED vars
    BY <1>1, <1>3 DEF ClientStep, SendNext, Close, vars
  <1>4. CASE Receive(0) \/ RecvPks
    <2>1. /\ UNCHANGED campaign /\ pc'[1] = pc[1] /\ taken'[1] = taken[1]
          /\ share_map'[1] = share_map[1] /\ pk_list'[1] = pk_list[1]
      BY SMTT(40), <1>2, <1>4 DEF Receive, RecvShare, RecvPacket, RecvPks, Keep, Reception, Exchange
    <2> QED
      BY <2>1 DEF Listed, NoEntries
  <1>5. CASE Receive(1)
    BY <1>5, RecvShareKeepsListed, RecvPacketKeepsListed DEF Receive
  <1>6. CASE SendPks
    BY <1>6, SendPksKeepsListed
  <1>7. CASE Convert \/ RecvValid
    BY <1>1, <1>2, <1>7 DEF Convert, RecvValid, Receiving
  <1>8. ASSUME NEW s \in Server, Validate(s) PROVE Listed'
    <2>1. UNCHANGED <<campaign, taken, share_map, pk_list>>
      BY <1>8 DEF Validate, SendCor, NoCircuit, RecvCor, RecvOut
    <2>2. pc'[1] = pc[1] \/ pc[1] \notin Receiving
      BY <1>2, <1>8 DEF Validate, SendCor, NoCircuit, RecvCor, RecvOut, Exchange, Receiving, Server
    <2> QED
      BY <1>1, <2>1, <2>2
  <1>9. CASE SendValid \/ RecvSums
    <2>1. pc'[1] = pc[1] /\ UNCHANGED <<campaign, taken, share_map, pk_list>>
      BY <1>2, <1>9 DEF SendValid, RecvSums, Exchange
    <2> QED
      BY <1>1, <2>1
  <1> QED
    BY <1>2, <1>3, <1>4, <1>5, <1>6, <1>7, <1>8, <1>9 DEF Next, Server0Step, Server1Step

\* A submission its client calls valid, once it is written to both servers,
\* keeps them from dying of the circuit they look for in an empty batch.
THEOREM ValidIsServed == Spec => []ServesValid
  <1>1. Reception /\ Exchange /\ Listed => ServesValid
    <2> SUFFICES ASSUME Reception, Exchange, Listed,
                        NEW k \in campaign.valid, \A s \in Server : 2 * k <= sent[s],
                        NEW s \in Server, pc[s] = "dead"
                 PROVE  FALSE
      BY DEF ServesValid
    <2>1. pc[0] \notin PreCheck /\ pc[1] \notin PreCheck
      BY DEF Exchange, Together, PreCheck, Receiving, Server
    <2>2. NoEntries(1)
      BY <2>1 DEF Exchange, Together, NoEntries, PreCheck, Server
    <2>3. DOMAIN share_map[1] = {}
      BY <2>1, <2>2 DEF Listed, PreCheck
    <2>4. /\ Total_inputs \in Nat /\ k \in 1 .. Total_inputs
          /\ 1 \in Server /\ 2 * k <= sent[1]
      BY BatchSize, ValidAssumption DEF Reception, Server
    <2>5. taken[1] = sent[1] \/ taken[1] = 2 * Total_inputs
      BY <2>1, <2>4 DEF Reception, Turns, AtEof, PreCheck, Receiving
    <2>6. 2 * k <= taken[1]
      BY <2>4, <2>5
    <2> QED
      BY <2>3, <2>6 DEF Listed
  <1>2. Init => Listed
    BY InitListed
  <1> QED
    BY <1>1, <1>2, StepKeepsListed, ReceptionHolds, ExchangeHolds, PTL DEF Spec
-----------------------------------------------------------------------------
(* Sums over sets *)

\* Each item of S has two additive shares, of the value its image in T has.
SharedOut(S, a, b, T, c, g, m) ==
    /\ Summable(S, a) /\ Summable(S, b) /\ Summable(T, c) /\ m \in Nat
    /\ T = {g[x] : x \in S} /\ \A x, y \in S : g[x] = g[y] => x = y
    /\ \A x \in S : Cong(a[x] + b[x], c[g[x]], m)

\* The sums of the shares are shares of the sum.
LEMMA SharesSum ==
  ASSUME NEW S, NEW a, NEW b, NEW T, NEW c, NEW g, NEW m, SharedOut(S, a, b, T, c, g, m),
         NEW fa, NEW fb, NEW fc, AnyOrder(S, a, fa), AnyOrder(S, b, fb), AnyOrder(T, c, fc)
  PROVE  Cong(fa[S] + fb[S], fc[T], m)
<1> DEFINE Img(U) == {g[x] : x \in U}
           Good(U) == Cong(fa[U] + fb[U], fc[Img(U)], m)
           P == {n \in Nat : \A U \in SUBSET S : Cardinality(U) <= n => Good(U)}
<1>1. /\ m \in Nat /\ IsFiniteSet(S) /\ T = Img(S)
      /\ \A x \in S : a[x] \in Int /\ b[x] \in Int /\ c[g[x]] \in Int /\ Cong(a[x] + b[x], c[g[x]], m)
      /\ \A x, y \in S : g[x] = g[y] => x = y
  BY DEF SharedOut, Summable
<1>2. ASSUME NEW U \in SUBSET S
      PROVE  IsFiniteSet(U) /\ Cardinality(U) \in Nat /\ (Cardinality(U) = 0 <=> U = {})
  BY <1>1, FS_Subset, FS_CardinalityType, FS_EmptySet
<1>3. Good({})
  <2>1. Img({}) = {} /\ fa[{}] = 0 /\ fb[{}] = 0 /\ fc[{}] = 0
    BY DEF AnyOrder
  <2>2. Cong(0, 0, m)
    BY <1>1, CongSelf
  <2> QED
    BY <2>1, <2>2
<1>4. 0 \in P
  <2>1. \A U \in SUBSET S : Cardinality(U) <= 0 => U = {}
    BY <1>2
  <2> HIDE DEF Good
  <2> QED
    BY <1>3, <2>1
<1>5. ASSUME NEW n \in Nat, n \in P PROVE n + 1 \in P
  <2>1. ASSUME NEW U \in SUBSET S, Cardinality(U) <= n + 1, U # {} PROVE Good(U)
    <3>1. PICK x \in U : TRUE
      BY <2>1
    <3>2. PICK V \in SUBSET S : V = U \ {x}
      OBVIOUS
    <3>3. Cardinality(V) <= n
      <4>1. Cardinality(V) = Cardinality(U) - 1
        BY <1>2, <3>1, <3>2, FS_RemoveElement
      <4> QED
        BY <1>2, <2>1, <4>1
    <3>4. Cong(fa[V] + fb[V], fc[Img(V)], m)
      BY <1>5, <3>3
    <3>5. fa[U] = a[x] + fa[V] /\ fb[U] = b[x] + fb[V] /\ fa[V] \in Int /\ fb[V] \in Int
      BY <3>1, <3>2 DEF AnyOrder
    <3>6. /\ Img(U) \in SUBSET T /\ g[x] \in Img(U) /\ Img(U) \ {g[x]} = Img(V)
          /\ Img(V) \in SUBSET T
      BY <1>1, <3>1, <3>2
    <3> HIDE DEF Img
    <3>7. fc[Img(U)] = c[g[x]] + fc[Img(V)] /\ fc[Img(V)] \in Int
      <4>1. PICK I \in SUBSET T : I = Img(U)
        BY <3>6
      <4>2. PICK y \in I : y = g[x]
        BY <3>6, <4>1
      <4>3. PICK J \in SUBSET T : J = I \ {y}
        OBVIOUS
      <4>4. fc[I] = c[y] + fc[J] /\ fc[J] \in Int
        BY <4>3 DEF AnyOrder
      <4> QED
        BY <3>6, <4>1, <4>2, <4>3, <4>4
    <3>8. Cong((fa[V] + fb[V]) + (a[x] + b[x]), fc[Img(V)] + c[g[x]], m)
      <4>1. PICK p \in Int : p = fa[V] + fb[V]
        BY <3>5
      <4>2. PICK q \in Int : q = a[x] + b[x]
        BY <1>1, <3>1
      <4>3. Cong(q, c[g[x]], m) /\ c[g[x]] \in Int
        BY <1>1, <3>1, <4>2
      <4>4. Cong(p, fc[Img(V)], m)
        BY <3>4, <4>1
      <4> QED
        BY <1>1, <3>7, <4>1, <4>2, <4>3, <4>4, CongAdd
    <3>9. /\ (fa[V] + fb[V]) + (a[x] + b[x]) = fa[U] + fb[U]
          /\ fc[Img(V)] + c[g[x]] = fc[Img(U)]
      BY <1>1, <3>1, <3>5, <3>7
    <3> QED
      BY <3>8, <3>9
  <2> HIDE DEF Good
  <2> QED
    BY <1>3, <2>1
<1>6. Nat \subseteq P
  <2> HIDE DEF P
  <2> QED
    BY <1>4, <1>5, Induct
<1>7. Good(S)
  <2>1. Cardinality(S) \in P
    BY <1>2, <1>6
  <2> QED
    BY <1>2, <2>1
<1> QED
  BY <1>1, <1>7

\* A sum of ones counts.
LEMMA OnesCount ==
  ASSUME NEW S, NEW f, NEW fold, Summable(S, f), AnyOrder(S, f, fold), \A x \in S : f[x] = 1
  PROVE  fold[S] = Cardinality(S)
<1> DEFINE Good(U) == fold[U] = Cardinality(U)
           P == {n \in Nat : \A U \in SUBSET S : Cardinality(U) <= n => Good(U)}
<1>1. IsFiniteSet(S)
  BY DEF Summable
<1>2. ASSUME NEW U \in SUBSET S
      PROVE  IsFiniteSet(U) /\ Cardinality(U) \in Nat /\ (Cardinality(U) = 0 <=> U = {})
  BY <1>1, FS_Subset, FS_CardinalityType, FS_EmptySet
<1>3. Good({})
  BY FS_EmptySet DEF AnyOrder
<1>4. 0 \in P
  <2>1. \A U \in SUBSET S : Cardinality(U) <= 0 => U = {}
    BY <1>2
  <2> HIDE DEF Good
  <2> QED
    BY <1>3, <2>1
<1>5. ASSUME NEW n \in Nat, n \in P PROVE n + 1 \in P
  <2>1. ASSUME NEW U \in SUBSET S, Cardinality(U) <= n + 1, U # {} PROVE Good(U)
    <3>1. PICK x \in U : TRUE
      BY <2>1
    <3>2. PICK V \in SUBSET S : V = U \ {x}
      OBVIOUS
    <3>3. Cardinality(V) = Cardinality(U) - 1
      BY <1>2, <3>1, <3>2, FS_RemoveElement
    <3>4. fold[V] = Cardinality(V)
      BY <1>2, <1>5, <2>1, <3>3
    <3>5. fold[U] = f[x] + fold[V] /\ f[x] = 1
      BY <3>1, <3>2 DEF AnyOrder
    <3> QED
      BY <1>2, <3>3, <3>4, <3>5
  <2> HIDE DEF Good
  <2> QED
    BY <1>3, <2>1
<1>6. Nat \subseteq P
  <2> HIDE DEF P
  <2> QED
    BY <1>4, <1>5, Induct
<1> QED
  BY <1>2, <1>6

-----------------------------------------------------------------------------
(* The pairs of a regression *)

\* The pairs i <= j below num_x, and how many come before one.
PairSet(num_x) == {p \in (0 .. num_x - 1) \X (0 .. num_x - 1) : p[1] <= p[2]}
PairsUpto(num_x, p) == {q \in PairSet(num_x) : q[1] < p[1] \/ (q[1] = p[1] /\ q[2] <= p[2])}

\* There are num_x * (num_x + 1) / 2 of them.
LEMMA PairsCount ==
  ASSUME NEW num_x \in Nat
  PROVE  /\ IsFiniteSet(PairSet(num_x)) /\ Cardinality(PairSet(num_x)) \in Nat
         /\ 2 * Cardinality(PairSet(num_x)) = num_x * (num_x + 1)
<1> DEFINE Good(n) == /\ IsFiniteSet(PairSet(n)) /\ Cardinality(PairSet(n)) \in Nat
                      /\ 2 * Cardinality(PairSet(n)) = n * (n + 1)
           P == {n \in Nat : Good(n)}
<1>1. 0 \in P
  <2>1. PairSet(0) = {}
    BY DEF PairSet
  <2>2. Good(0)
    BY <2>1, FS_EmptySet
  <2> QED
    BY <2>2
<1>2. ASSUME NEW n \in Nat, n \in P PROVE n + 1 \in P
  <2> DEFINE New == {p \in (0 .. n) \X (0 .. n) : p[2] = n}
  <2>1. PairSet(n + 1) = PairSet(n) \cup New /\ PairSet(n) \cap New = {}
    BY DEF PairSet
  <2>2. IsFiniteSet(New) /\ Cardinality(New) = n + 1
    <3>1. IsFiniteSet(0 .. n) /\ Cardinality(0 .. n) = n + 1
      BY FS_Interval
    <3>2. PICK f : f = [k \in 0 .. n |-> <<k, n>>]
      OBVIOUS
    <3>3. f \in [0 .. n -> New] /\ \A k \in 0 .. n : f[k] = <<k, n>>
      BY <3>2
    <3>4. \A j, k \in 0 .. n : f[j] = f[k] => j = k
      BY <3>3
    <3>5. \A p \in New : \E k \in 0 .. n : f[k] = p
      <4> SUFFICES ASSUME NEW p \in New PROVE \E k \in 0 .. n : f[k] = p
        OBVIOUS
      <4>1. p[1] \in 0 .. n /\ p = <<p[1], n>>
        OBVIOUS
      <4> QED
        BY <3>3, <4>1
    <3> HIDE DEF New
    <3>6. f \in Bijection(0 .. n, New)
      BY <3>3, <3>4, <3>5 DEF Bijection, Injection, Surjection, IsInjective
    <3>7. ExistsBijection(0 .. n, New)
      BY <3>6 DEF ExistsBijection
    <3> QED
      BY <3>1, <3>7, FS_Bijection
  <2>3. /\ IsFiniteSet(PairSet(n)) /\ Cardinality(PairSet(n)) \in Nat
        /\ 2 * Cardinality(PairSet(n)) = n * (n + 1)
    BY <1>2
  <2> HIDE DEF New
  <2>4. /\ IsFiniteSet(PairSet(n + 1))
        /\ Cardinality(PairSet(n + 1)) = Cardinality(PairSet(n)) + (n + 1)
    <3>1. /\ IsFiniteSet(PairSet(n) \cup New)
          /\ Cardinality(PairSet(n) \cup New)
               = Cardinality(PairSet(n)) + Cardinality(New) - Cardinality(PairSet(n) \cap New)
      BY <2>2, <2>3, FS_Union
    <3>2. Cardinality(PairSet(n) \cap New) = 0
      BY <2>1, FS_EmptySet
    <3>3. Cardinality(PairSet(n)) \in Nat
      BY <2>3
    <3> QED
      BY <2>1, <2>2, <3>1, <3>2, <3>3
  <2>5. (n + 1) * ((n + 1) + 1) = n * (n + 1) + 2 * (n + 1)
    OBVIOUS
  <2>6. PICK c \in Nat : c = Cardinality(PairSet(n))
    BY <2>3
  <2>7. Cardinality(PairSet(n + 1)) = c + n + 1
    BY <2>4, <2>6
  <2>8. 2 * (c + n + 1) = (n + 1) * ((n + 1) + 1)
    <3>1. PICK t \in Int : t = n * (n + 1)
      OBVIOUS
    <3>2. 2 * c = t
      BY <2>3, <2>6, <3>1
    <3> QED
      BY <2>5, <3>1, <3>2
  <2>9. Good(n + 1)
    BY <2>4, <2>7, <2>8
  <2> QED
    BY <2>9
<1>3. Nat \subseteq P
  <2> HIDE DEF P
  <2> QED
    BY <1>1, <1>2, Induct
<1> QED
  BY <1>3

\* Pairs lists that many.
LEMMA PairsLength ==
  ASSUME NEW num_x \in Nat
  PROVE  /\ Len(Pairs(num_x)) = Cardinality(PairSet(num_x)) /\ Len(Pairs(num_x)) \in Nat
         /\ DOMAIN Pairs(num_x) = 1 .. Len(Pairs(num_x))
         /\ 2 * Len(Pairs(num_x)) = num_x * (num_x + 1)
<1> DEFINE c == Cardinality(PairSet(num_x))
<1>1. c \in Nat /\ 2 * c = num_x * (num_x + 1)
  BY PairsCount
<1>2. Pairs(num_x) = [n \in 1 .. c |-> CHOOSE p \in PairSet(num_x) : Cardinality(PairsUpto(num_x, p)) = n]
  BY DEF Pairs, PairSet, PairsUpto
<1> HIDE DEF c
<1>3. DOMAIN Pairs(num_x) = 1 .. c
  BY <1>2
<1>4. Len(Pairs(num_x)) = c
  BY <1>1, <1>2
<1> QED
  BY <1>1, <1>3, <1>4 DEF c

\* Every pair is in the list: the list goes by how many come before.
LEMMA PairListed ==
  ASSUME NEW num_x \in Nat, NEW p \in PairSet(num_x)
  PROVE  \E n \in DOMAIN Pairs(num_x) : Pairs(num_x)[n] = p
<1> DEFINE Rank(q) == Cardinality(PairsUpto(num_x, q))
<1>1. IsFiniteSet(PairSet(num_x)) /\ Cardinality(PairSet(num_x)) \in Nat
  BY PairsCount
<1>2. ASSUME NEW q \in PairSet(num_x)
      PROVE  /\ IsFiniteSet(PairsUpto(num_x, q)) /\ q \in PairsUpto(num_x, q)
             /\ Rank(q) \in 1 .. Cardinality(PairSet(num_x))
  <2>1. PairsUpto(num_x, q) \in SUBSET PairSet(num_x) /\ q \in PairsUpto(num_x, q)
    BY DEF PairsUpto, PairSet
  <2>2. IsFiniteSet(PairsUpto(num_x, q)) /\ Rank(q) <= Cardinality(PairSet(num_x))
    BY <1>1, <2>1, FS_Subset
  <2>3. Rank(q) \in Nat /\ Rank(q) # 0
    BY <2>1, <2>2, FS_CardinalityType, FS_EmptySet
  <2> QED
    BY <1>1, <2>1, <2>2, <2>3
<1>3. ASSUME NEW q \in PairSet(num_x), NEW r \in PairSet(num_x),
             q[1] < r[1] \/ (q[1] = r[1] /\ q[2] < r[2])
      PROVE  Rank(q) # Rank(r)
  <2>1. PairsUpto(num_x, q) \in SUBSET PairsUpto(num_x, r) /\ r \notin PairsUpto(num_x, q)
    BY <1>3 DEF PairsUpto, PairSet
  <2>2. PairsUpto(num_x, r) # PairsUpto(num_x, q)
    BY <1>2, <2>1
  <2> QED
    BY <1>2, <2>1, <2>2, FS_Subset
<1>4. ASSUME NEW q \in PairSet(num_x), Rank(q) = Rank(p) PROVE q = p
  <2>1. /\ q = <<q[1], q[2]>> /\ p = <<p[1], p[2]>>
        /\ q[1] \in Int /\ q[2] \in Int /\ p[1] \in Int /\ p[2] \in Int
    BY DEF PairSet
  <2>2. ~(q[1] < p[1] \/ (q[1] = p[1] /\ q[2] < p[2])) /\ ~(p[1] < q[1] \/ (p[1] = q[1] /\ p[2] < q[2]))
    BY <1>3, <1>4
  <2>3. q[1] = p[1] /\ q[2] = p[2]
    BY <2>1, <2>2
  <2> QED
    BY <2>1, <2>3
<1>5. Pairs(num_x) = [n \in 1 .. Cardinality(PairSet(num_x)) |->
                         CHOOSE q \in PairSet(num_x) : Rank(q) = n]
  BY DEF Pairs, PairSet, PairsUpto
<1>6. PICK n \in 1 .. Cardinality(PairSet(num_x)) : n = Rank(p)
  BY <1>2
<1> HIDE DEF Rank
<1>7. \A q \in PairSet(num_x) : Rank(q) = n => q = p
  BY <1>4, <1>6
<1>8. (CHOOSE q \in PairSet(num_x) : Rank(q) = n) = p
  BY <1>6, <1>7
<1> QED
  BY <1>5, <1>6, <1>8

-----------------------------------------------------------------------------
(* What a circuit says of its inputs *)

\* VAR and STDDEV: the second input is the first one's square.
LEMMA VarSquare ==
  ASSUME NEW inp, NEW m, Satisfies(CheckVar, inp, m)
  PROVE  (inp[0] * inp[0]) % m = inp[1] % m
<1>1. CheckVar[1] = MulEqual(0, 0, 1) /\ 1 \in DOMAIN CheckVar
  BY DEF CheckVar
<1> QED
  BY <1>1 DEF Satisfies, MulEqual

\* One list after another.
LEMMA Joined ==
  ASSUME NEW c \in Nat, NEW d \in Nat, NEW u, NEW v,
         u = [n \in 1 .. c |-> u[n]], v = [n \in 1 .. d |-> v[n]]
  PROVE  /\ DOMAIN (u \o v) = 1 .. c + d
         /\ \A n \in 1 .. c : (u \o v)[n] = u[n]
         /\ \A n \in 1 .. d : (u \o v)[c + n] = v[n]
<1>1. PICK S : S = {u[n] : n \in 1 .. c} \cup {v[n] : n \in 1 .. d}
  OBVIOUS
<1>2. u \in [1 .. c -> S]
  BY <1>1
<1>3. v \in [1 .. d -> S]
  BY <1>1
<1>4. u \in Seq(S) /\ Len(u) = c
  BY <1>2
<1>5. v \in Seq(S) /\ Len(v) = d
  BY <1>3
<1>6. u \o v \in Seq(S) /\ Len(u \o v) = c + d
  BY <1>4, <1>5
<1>7. \A n \in 1 .. c : (u \o v)[n] = u[n]
  BY <1>4, <1>5
<1>8. \A n \in 1 .. d : (u \o v)[c + n] = v[n]
  BY <1>4, <1>5
<1> QED
  BY <1>6, <1>7, <1>8

\* LINREG: the inputs after y are the x_i * x_j, in the order of the pairs, and
\* the x_i * y.
LEMMA LinRegProducts ==
  ASSUME NEW degree \in Nat \ {0}, NEW inp, NEW m, Satisfies(CheckLinReg(degree), inp, m),
         NEW pairs, pairs = Pairs(degree - 1)
  PROVE  /\ \A n \in DOMAIN pairs :
               (inp[pairs[n][1]] * inp[pairs[n][2]]) % m = inp[degree + n - 1] % m
         /\ \A n \in 1 .. degree - 1 :
               (inp[degree - 1] * inp[n - 1]) % m = inp[degree + Len(pairs) + n - 1] % m
<1> DEFINE num_x == degree - 1
           idx == degree + Len(pairs)
<1>1. /\ degree \in Nat /\ num_x \in Nat /\ Len(pairs) \in Nat /\ DOMAIN pairs = 1 .. Len(pairs)
  BY PairsLength
<1>2. PICK u : u = [n \in DOMAIN pairs |-> MulEqual(pairs[n][1], pairs[n][2], degree + n - 1)]
  OBVIOUS
<1>3. PICK v : v = [n \in 1 .. num_x |-> MulEqual(num_x, n - 1, idx + n - 1)]
  OBVIOUS
<1>4. CheckLinReg(degree) = u \o v
  BY <1>2, <1>3 DEF CheckLinReg
<1>5. u = [n \in 1 .. Len(pairs) |-> u[n]] /\ v = [n \in 1 .. num_x |-> v[n]]
  BY <1>1, <1>2, <1>3
<1>7. /\ DOMAIN (u \o v) = 1 .. Len(pairs) + num_x
      /\ \A n \in 1 .. Len(pairs) : (u \o v)[n] = u[n]
      /\ \A n \in 1 .. num_x : (u \o v)[Len(pairs) + n] = v[n]
  BY <1>1, <1>5, Joined
<1>8. PICK w : w = u \o v
  OBVIOUS
<1>9. \A n \in DOMAIN w : (inp[w[n].L] * inp[w[n].R]) % m = inp[w[n].out] % m
  BY <1>4, <1>8 DEF Satisfies
<1>10. ASSUME NEW n \in DOMAIN pairs
       PROVE  (inp[pairs[n][1]] * inp[pairs[n][2]]) % m = inp[degree + n - 1] % m
  <2>1. n \in DOMAIN w /\ w[n] = MulEqual(pairs[n][1], pairs[n][2], degree + n - 1)
    BY <1>1, <1>2, <1>7, <1>8
  <2> QED
    BY <1>9, <2>1 DEF MulEqual
<1>11. ASSUME NEW n \in 1 .. num_x
       PROVE  (inp[num_x] * inp[n - 1]) % m = inp[idx + n - 1] % m
  <2>1. v[n] = MulEqual(num_x, n - 1, idx + n - 1)
    BY <1>3
  <2> HIDE DEF idx, num_x
  <2>2. w[Len(pairs) + n] = MulEqual(num_x, n - 1, idx + n - 1)
    BY <1>7, <1>8, <2>1
  <2>3. Len(pairs) + n \in DOMAIN w
    BY <1>1, <1>7, <1>8
  <2> QED
    BY <1>9, <2>2, <2>3 DEF MulEqual
<1> QED
  BY <1>10, <1>11

\* The fields of a regression are x_0 .., y, a product for each pair, and the
\* x_i * y.
LEMMA FieldCount ==
  ASSUME NEW degree \in Nat \ {0}
  PROVE  /\ Len(Pairs(degree - 1)) \in Nat
         /\ FieldsOf("LINREG_OP", degree) = 0 .. 2 * (degree - 1) + Len(Pairs(degree - 1))
<1>1. PICK n \in Nat : n = Len(Pairs(degree - 1)) /\ 2 * n = (degree - 1) * ((degree - 1) + 1)
  <2>1. PICK num_x \in Nat : num_x = degree - 1
    OBVIOUS
  <2>2. Len(Pairs(num_x)) \in Nat /\ 2 * Len(Pairs(num_x)) = num_x * (num_x + 1)
    BY PairsLength
  <2> QED
    BY <2>1, <2>2
<1>2. PICK t \in Int : t = (degree - 1) * degree
  OBVIOUS
<1>3. (degree - 1) + 1 = degree
  OBVIOUS
<1>4. t = 2 * n
  BY <1>1, <1>2, <1>3
<1>5. t \div 2 = n
  BY <1>4
<1>6. NumFields(degree) = 2 * (degree - 1) + 1 + n
  BY <1>2, <1>5 DEF NumFields
<1>7. NumFields(degree) - 1 = 2 * (degree - 1) + n
  BY <1>6
<1> QED
  BY <1>1, <1>7 DEF FieldsOf

-----------------------------------------------------------------------------
(* The abstract operation, in terms of SnipOp *)

Degree == campaign.degree
Clear(k) ==
    [f \in DOMAIN campaign.subs[k].val[0] |->
        Number(SymDiff(campaign.subs[k].val[0][f], campaign.subs[k].val[1][f])) % Modulus]
Proved(k) ==
    /\ campaign.subs[k].intact
    /\ Clear(k) = [f \in DOMAIN campaign.subs[k].proved |-> campaign.subs[k].proved[f] % Modulus]
    /\ Satisfies(CircuitOf(msg.type, Degree), Clear(k), Modulus)
Agreed ==
    {k \in DOMAIN campaign.subs :
        /\ \E pk \in DOMAIN share_map[0] \cap DOMAIN share_map[1] :
              share_map[0][pk] = k /\ share_map[1][pk] = k
        /\ Proved(k)}

\* A column of ones and the opened values; the sum of two columns' products.
Row(k) == <<1>> \o [v \in 1 .. Degree |-> Clear(k)[v - 1]]
MomentSum(i_, j_, S) == MapThenSumSet(LAMBDA k : Row(k)[i_] * Row(k)[j_], S)
Moments ==
    IF msg.type = "LINREG_OP"
    THEN [num |-> Cardinality(Agreed),
          X |-> [p \in (0 .. Degree - 1) \X (0 .. Degree - 1) |->
                    MomentSum(p[1] + 1, p[2] + 1, Agreed) % Modulus],
          Y |-> [n \in 0 .. Degree - 1 |-> MomentSum(n + 1, Degree + 1, Agreed) % Modulus]]
    ELSE [num |-> Cardinality(Agreed),
          sums |-> [f \in 0 .. 1 |-> MomentSum(f + 1, 2, Agreed) % Modulus]]

\* A submission's fields are residues, one for each field of the operation.
LEMMA ClearFields ==
  ASSUME campaign \in Campaigns, NEW k \in DOMAIN campaign.subs
  PROVE  /\ Clear(k) \in [Fields -> 0 .. Modulus - 1]
         /\ \A f \in Fields :
               Number(SymDiff(campaign.subs[k].val[0][f], campaign.subs[k].val[1][f])) \in Int
<1>1. /\ Modulus \in Nat \ {0}
      /\ \A s \in Server : DOMAIN campaign.subs[k].val[s] = Fields
      /\ \A s \in Server, f \in Fields :
            campaign.subs[k].val[s][f] \subseteq Nat /\ IsFiniteSet(campaign.subs[k].val[s][f])
  BY FieldsAssumption, ModulusAssumption DEF Fields, msg
<1>2. ASSUME NEW f \in Fields
      PROVE  Number(SymDiff(campaign.subs[k].val[0][f], campaign.subs[k].val[1][f])) \in Int
  <2>1. PICK a \in SUBSET Nat : a = campaign.subs[k].val[0][f] /\ IsFiniteSet(a)
    BY <1>1 DEF Server
  <2>2. PICK b \in SUBSET Nat : b = campaign.subs[k].val[1][f] /\ IsFiniteSet(b)
    BY <1>1 DEF Server
  <2>3. PICK S \in SUBSET Nat : S = SymDiff(a, b)
    BY DEF SymDiff
  <2>4. IsFiniteSet(S)
    <3>1. IsFiniteSet(a \ b) /\ IsFiniteSet(b \ a)
      BY <2>1, <2>2, FS_Difference
    <3> QED
      BY <2>3, <3>1, FS_Union DEF SymDiff
  <2>5. PICK fold : BitsValue(S) = fold[S] /\ AnyOrder(S, [x \in S |-> 2 ^ x], fold)
    BY <2>4, ValueSum
  <2>6. BitsValue(S) \in Int
    BY <2>5 DEF AnyOrder
  <2>7. Number(S) = BitsValue(S)
    BY DEF Number, BitsValue
  <2> QED
    BY <2>1, <2>2, <2>3, <2>6, <2>7
<1>3. ASSUME NEW x \in Int PROVE x % Modulus \in 0 .. Modulus - 1
  BY <1>1, ModRange
<1> QED
  BY <1>1, <1>2, <1>3 DEF Clear, Server

\* A row has a one, then the opened values.
LEMMA RowTerms ==
  ASSUME campaign \in Campaigns, NEW k
  PROVE  Row(k)[1] = 1 /\ \A v \in 0 .. Degree - 1 : Row(k)[v + 2] = Clear(k)[v]
<1>1. Degree \in Nat \ {0}
  BY FieldsAssumption DEF Degree
<1>2. PICK q : q = [v \in 1 .. Degree |-> Clear(k)[v - 1]]
  OBVIOUS
<1>3. q = [v \in 1 .. Degree |-> q[v]]
  BY <1>2
<1>4. PICK one : one = <<1>>
  OBVIOUS
<1>5. one = [v \in 1 .. 1 |-> one[v]] /\ one[1] = 1
  BY <1>4
<1>6. (one \o q)[1] = 1 /\ \A v \in 1 .. Degree : (one \o q)[1 + v] = q[v]
  <2>1. /\ \A v \in 1 .. 1 : (one \o q)[v] = one[v]
        /\ \A v \in 1 .. Degree : (one \o q)[1 + v] = q[v]
    BY <1>1, <1>3, <1>5, Joined
  <2>2. 1 \in 1 .. 1
    OBVIOUS
  <2>3. (one \o q)[1] = one[1]
    BY <2>1, <2>2
  <2> QED
    BY <1>5, <2>1, <2>3
<1>7. ASSUME NEW v \in 0 .. Degree - 1 PROVE Row(k)[v + 2] = Clear(k)[v]
  <2>1. v + 1 \in 1 .. Degree /\ 1 + (v + 1) = v + 2 /\ (v + 1) - 1 = v
    BY <1>1
  <2>2. q[v + 1] = Clear(k)[(v + 1) - 1]
    BY <1>2, <2>1
  <2>3. (one \o q)[1 + (v + 1)] = q[v + 1]
    BY <1>6, <2>1
  <2> QED
    BY <1>2, <1>4, <2>1, <2>2, <2>3 DEF Row
<1> QED
  BY <1>2, <1>4, <1>6, <1>7 DEF Row

\* A sum of products may be taken in any order,
LEMMA MomentAny ==
  ASSUME NEW i_, NEW j_, NEW S, NEW F, Summable(S, F), F = [k \in S |-> Row(k)[i_] * Row(k)[j_]]
  PROVE  \E fold : MomentSum(i_, j_, S) = fold[S] /\ AnyOrder(S, F, fold)
<1> DEFINE Fix(h) == [s \in SUBSET S |-> IF s = {} THEN 0 ELSE
                        LET x == (CHOOSE y \in s : TRUE)
                        IN  Row(x)[i_] * Row(x)[j_] + h[s \ {x}]]
           fold == CHOOSE h : h = Fix(h)
<1>1. MomentSum(i_, j_, S) = fold[S]
  BY DEF MomentSum, MapThenSumSet, MapThenFoldSet
<1>2. \A k \in S : F[k] = Row(k)[i_] * Row(k)[j_]
  OBVIOUS
<1>3. PICK iter : iter \in [SUBSET S -> Int] /\ Summed(S, F, iter)
  BY SumExists
<1>4. ASSUME NEW s \in SUBSET S PROVE iter[s] = Fix(iter)[s]
  <2>1. CASE s = {}
    BY <1>3, <2>1 DEF Summed
  <2>2. CASE s # {}
    <3>1. iter[s] = F[Arb(s)] + iter[s \ {Arb(s)}]
      BY <1>3, <2>2 DEF Summed
    <3>2. F[Arb(s)] = Row(Arb(s))[i_] * Row(Arb(s))[j_]
      BY <1>2, <2>2, ArbIn
    <3> QED
      BY <2>2, <3>1, <3>2 DEF Arb
  <2> QED
    BY <2>1, <2>2
<1>5. iter = Fix(iter)
  BY <1>3, <1>4
<1>6. fold = Fix(fold)
  <2> HIDE DEF Fix
  <2> QED
    BY <1>5, Zenon
<1> HIDE DEF fold
<1>7. Summed(S, F, fold)
  <2>1. fold[{}] = 0
    BY <1>6
  <2>2. ASSUME NEW s \in SUBSET S, s # {} PROVE fold[s] = F[Arb(s)] + fold[s \ {Arb(s)}]
    <3>1. fold[s] = Row(Arb(s))[i_] * Row(Arb(s))[j_] + fold[s \ {Arb(s)}]
      BY <1>6, <2>2 DEF Arb
    <3> QED
      BY <1>2, <2>2, <3>1, ArbIn
  <2> QED
    BY <2>1, <2>2 DEF Summed
<1>8. AnyOrder(S, F, fold)
  BY <1>7, SumAny
<1> QED
  BY <1>1, <1>8

\* accumulate's sum of one server's shares of a field
ShareSum(s, f, T) == MapThenSumSet(LAMBDA n : shares_p[s][n][f], T)

\* may be taken in any order too.
LEMMA SharesAny ==
  ASSUME NEW s, NEW f, NEW T, NEW F, Summable(T, F), F = [n \in T |-> shares_p[s][n][f]]
  PROVE  \E fold : ShareSum(s, f, T) = fold[T] /\ AnyOrder(T, F, fold)
<1> DEFINE Fix(h) == [u \in SUBSET T |-> IF u = {} THEN 0 ELSE
                        LET x == (CHOOSE y \in u : TRUE) IN shares_p[s][x][f] + h[u \ {x}]]
           fold == CHOOSE h : h = Fix(h)
<1>1. ShareSum(s, f, T) = fold[T]
  BY DEF ShareSum, MapThenSumSet, MapThenFoldSet
<1>2. \A n \in T : F[n] = shares_p[s][n][f]
  OBVIOUS
<1>3. PICK iter : iter \in [SUBSET T -> Int] /\ Summed(T, F, iter)
  BY SumExists
<1>4. ASSUME NEW u \in SUBSET T PROVE iter[u] = Fix(iter)[u]
  <2>1. CASE u = {}
    BY <1>3, <2>1 DEF Summed
  <2>2. CASE u # {}
    <3>1. iter[u] = F[Arb(u)] + iter[u \ {Arb(u)}]
      BY <1>3, <2>2 DEF Summed
    <3>2. F[Arb(u)] = shares_p[s][Arb(u)][f]
      BY <1>2, <2>2, ArbIn
    <3> QED
      BY <2>2, <3>1, <3>2 DEF Arb
  <2> QED
    BY <2>1, <2>2
<1>5. iter = Fix(iter)
  BY <1>3, <1>4
<1>6. fold = Fix(fold)
  <2> HIDE DEF Fix
  <2> QED
    BY <1>5, Zenon
<1> HIDE DEF fold
<1>7. Summed(T, F, fold)
  <2>1. fold[{}] = 0
    BY <1>6
  <2>2. ASSUME NEW u \in SUBSET T, u # {} PROVE fold[u] = F[Arb(u)] + fold[u \ {Arb(u)}]
    <3>1. fold[u] = shares_p[s][Arb(u)][f] + fold[u \ {Arb(u)}]
      BY <1>6, <2>2 DEF Arb
    <3> QED
      BY <1>2, <2>2, <3>1, ArbIn
  <2> QED
    BY <2>1, <2>2 DEF Summed
<1>8. AnyOrder(T, F, fold)
  BY <1>7, SumAny
<1> QED
  BY <1>1, <1>8

-----------------------------------------------------------------------------
(* The report is the moments *)

\* Equal remainders are congruent.
LEMMA ModsCong ==
  ASSUME NEW m \in Nat \ {0}, NEW a \in Int, NEW b \in Int, a % m = b % m
  PROVE  Cong(a, b, m)
<1>1. PICK r \in Int : r = a % m
  BY ModRange
<1>2. Cong(r, a, m) /\ Cong(r, b, m)
  BY <1>1, ModCong
<1>3. Cong(a, r, m)
  BY <1>2, CongSym
<1> QED
  BY <1>2, <1>3, CongTrans

\* Field f holds the product of columns a and b, in every counted submission.
Holds(f, a, b) == \A k \in Agreed : Cong(Clear(k)[f], Row(k)[a] * Row(k)[b], Modulus)

\* What is counted has a proof of the circuit's products.
LEMMA AgreedFields ==
  ASSUME campaign \in Campaigns, NEW k \in Agreed
  PROVE  /\ Clear(k) \in [Fields -> 0 .. Modulus - 1]
         /\ Satisfies(CircuitOf(msg.type, Degree), Clear(k), Modulus)
  BY ClearFields DEF Agreed, Proved

\* How many fields there are.
LEMMA FieldsAre ==
  ASSUME campaign \in Campaigns
  PROVE  /\ Degree \in Nat \ {0} /\ Modulus \in Nat \ {0} /\ Len(Pairs(Degree - 1)) \in Nat
         /\ msg.type = "LINREG_OP" => Fields = 0 .. 2 * (Degree - 1) + Len(Pairs(Degree - 1))
         /\ msg.type # "LINREG_OP" => Degree = 1 /\ Fields = 0 .. 1
<1>1. Degree \in Nat \ {0} /\ (msg.type # "LINREG_OP" => Degree = 1)
  BY FieldsAssumption DEF Degree, msg
<1>2. Len(Pairs(Degree - 1)) \in Nat
  BY <1>1, FieldCount
<1>3. msg.type = "LINREG_OP" => Fields = 0 .. 2 * (Degree - 1) + Len(Pairs(Degree - 1))
  BY <1>1, FieldCount DEF Fields, Degree
<1>4. msg.type # "LINREG_OP" => Fields = 0 .. 1
  BY DEF Fields, FieldsOf
<1> QED
  BY <1>1, <1>2, <1>3, <1>4, ModulusAssumption

\* The values are columns; with the ones, they are sums of products too.
LEMMA ColumnHolds ==
  ASSUME campaign \in Campaigns, NEW v \in 0 .. Degree - 1
  PROVE  v \in Fields /\ Holds(v, 1, v + 2) /\ Holds(v, v + 2, 1)
<1>1. v \in Fields
  BY FieldsAre
<1>2. ASSUME NEW k \in Agreed
      PROVE  /\ Cong(Clear(k)[v], Row(k)[1] * Row(k)[v + 2], Modulus)
             /\ Cong(Clear(k)[v], Row(k)[v + 2] * Row(k)[1], Modulus)
  <2>1. PICK x \in Int : x = Clear(k)[v]
    BY <1>1, AgreedFields
  <2>2. Row(k)[1] = 1 /\ Row(k)[v + 2] = x
    BY <2>1, RowTerms
  <2>3. Cong(x, x, Modulus) /\ 1 * x = x /\ x * 1 = x
    BY CongSelf, ModulusAssumption
  <2> QED
    BY <2>1, <2>2, <2>3
<1> QED
  BY <1>1, <1>2 DEF Holds

\* A product the circuit checks.
LEMMA ProductHolds ==
  ASSUME campaign \in Campaigns, NEW f \in Fields,
         NEW v \in 0 .. Degree - 1, NEW w \in 0 .. Degree - 1,
         \A k \in Agreed : \/ (Clear(k)[v] * Clear(k)[w]) % Modulus = Clear(k)[f] % Modulus
                           \/ (Clear(k)[w] * Clear(k)[v]) % Modulus = Clear(k)[f] % Modulus
  PROVE  Holds(f, v + 2, w + 2)
<1> SUFFICES ASSUME NEW k \in Agreed
             PROVE  Cong(Clear(k)[f], Row(k)[v + 2] * Row(k)[w + 2], Modulus)
  BY DEF Holds
<1>1. v \in Fields /\ w \in Fields
  BY ColumnHolds
<1>2. PICK x \in Int : x = Clear(k)[v]
  BY <1>1, AgreedFields
<1>3. PICK y \in Int : y = Clear(k)[w]
  BY <1>1, AgreedFields
<1>4. PICK z \in Int : z = Clear(k)[f]
  BY AgreedFields
<1>5. PICK p \in Int : p = x * y /\ p = y * x
  OBVIOUS
<1>6. z % Modulus = p % Modulus
  BY <1>2, <1>3, <1>4, <1>5
<1>7. Cong(z, p, Modulus)
  BY <1>6, ModsCong, ModulusAssumption
<1>8. Row(k)[v + 2] = x /\ Row(k)[w + 2] = y
  BY <1>2, <1>3, RowTerms
<1> QED
  BY <1>4, <1>5, <1>7, <1>8

\* VAR and STDDEV: the square.
LEMMA SquareHolds ==
  ASSUME campaign \in Campaigns, msg.type # "LINREG_OP"
  PROVE  Holds(1, 2, 2)
<1>1. 1 \in Fields /\ 0 \in 0 .. Degree - 1
  BY FieldsAre
<1>2. ASSUME NEW k \in Agreed PROVE (Clear(k)[0] * Clear(k)[0]) % Modulus = Clear(k)[1] % Modulus
  <2>1. Satisfies(CheckVar, Clear(k), Modulus)
    BY AgreedFields DEF CircuitOf
  <2> QED
    BY <2>1, VarSquare
<1>3. Holds(1, 0 + 2, 0 + 2)
  BY <1>1, <1>2, ProductHolds
<1> QED
  BY <1>3

\* LINREG: the x_i * x_j, wherever the list of pairs has them.
LEMMA PairHolds ==
  ASSUME campaign \in Campaigns, msg.type = "LINREG_OP", NEW pairs, pairs = Pairs(Degree - 1),
         NEW n \in DOMAIN pairs, NEW a \in 0 .. Degree - 2, NEW b \in 0 .. Degree - 2,
         pairs[n] \in {<<a, b>>, <<b, a>>}
  PROVE  Degree + n - 1 \in Fields /\ Holds(Degree + n - 1, a + 2, b + 2)
<1>1. /\ Degree \in Nat \ {0} /\ Degree - 1 \in Nat /\ Len(pairs) \in Nat
      /\ Fields = 0 .. 2 * (Degree - 1) + Len(pairs)
  BY FieldsAre
<1>2. n \in 1 .. Len(pairs)
  BY <1>1, PairsLength
<1>3. Degree + n - 1 \in Fields /\ a \in 0 .. Degree - 1 /\ b \in 0 .. Degree - 1
  BY <1>1, <1>2
<1>4. ASSUME NEW k \in Agreed
      PROVE  \/ (Clear(k)[a] * Clear(k)[b]) % Modulus = Clear(k)[Degree + n - 1] % Modulus
             \/ (Clear(k)[b] * Clear(k)[a]) % Modulus = Clear(k)[Degree + n - 1] % Modulus
  <2>1. Satisfies(CheckLinReg(Degree), Clear(k), Modulus)
    BY AgreedFields DEF CircuitOf
  <2>2. PICK inp : inp = Clear(k)
    OBVIOUS
  <2>3. (inp[pairs[n][1]] * inp[pairs[n][2]]) % Modulus = inp[Degree + n - 1] % Modulus
    BY <1>1, <2>1, <2>2, LinRegProducts
  <2>4. \/ pairs[n][1] = a /\ pairs[n][2] = b
        \/ pairs[n][1] = b /\ pairs[n][2] = a
    OBVIOUS
  <2> QED
    BY <2>2, <2>3, <2>4
<1> QED
  BY <1>3, <1>4, ProductHolds

\* LINREG: the x_i * y.
LEMMA CrossHolds ==
  ASSUME campaign \in Campaigns, msg.type = "LINREG_OP", NEW pairs, pairs = Pairs(Degree - 1),
         NEW n \in 1 .. Degree - 1
  PROVE  /\ Degree + Len(pairs) + n - 1 \in Fields
         /\ Holds(Degree + Len(pairs) + n - 1, n + 1, Degree + 1)
<1>1. /\ Degree \in Nat \ {0} /\ Len(pairs) \in Nat
      /\ Fields = 0 .. 2 * (Degree - 1) + Len(pairs)
  BY FieldsAre
<1>2. PICK f : f = Degree + Len(pairs) + n - 1
  OBVIOUS
<1>3. /\ f \in Fields /\ n - 1 \in 0 .. Degree - 1 /\ Degree - 1 \in 0 .. Degree - 1
      /\ (n - 1) + 2 = n + 1 /\ (Degree - 1) + 2 = Degree + 1
  BY <1>1, <1>2
<1>4. ASSUME NEW k \in Agreed
      PROVE  (Clear(k)[Degree - 1] * Clear(k)[n - 1]) % Modulus = Clear(k)[f] % Modulus
  <2>1. Satisfies(CheckLinReg(Degree), Clear(k), Modulus)
    BY AgreedFields DEF CircuitOf
  <2>2. PICK inp : inp = Clear(k)
    OBVIOUS
  <2>3. (inp[Degree - 1] * inp[n - 1]) % Modulus = inp[Degree + Len(pairs) + n - 1] % Modulus
    BY <1>1, <2>1, <2>2, LinRegProducts
  <2> QED
    BY <1>2, <2>2, <2>3
<1>5. Holds(f, (n - 1) + 2, (Degree - 1) + 2)
  BY <1>3, <1>4, ProductHolds
<1> QED
  BY <1>2, <1>3, <1>5

\* Each field's sum is the sum of the products the field holds.
SumsOf(sums) ==
    /\ sums = [f \in Fields |-> sums[f]]
    /\ \A f \in Fields : \A a, b \in 1 .. Degree + 1 :
          Holds(f, a, b) => sums[f] = MomentSum(a, b, Agreed) % Modulus

\* The sum over an x_i and an x_j is read where the pair is listed.
LEMMA SolvedPair ==
  ASSUME campaign \in Campaigns, msg.type = "LINREG_OP", NEW sums, SumsOf(sums), NEW num,
         NEW a \in 1 .. Degree - 1, NEW b \in 1 .. Degree - 1
  PROVE  SolveX(Degree, XAccum(Degree, num, sums))[<<a, b>>]
           = MomentSum(a + 1, b + 1, Agreed) % Modulus
<1>1. PICK pairs : pairs = Pairs(Degree - 1)
  OBVIOUS
<1>2. /\ Degree \in Nat \ {0} /\ Degree - 1 \in Nat /\ Len(pairs) \in Nat
      /\ DOMAIN pairs = 1 .. Len(pairs)
  <2>1. Degree \in Nat \ {0} /\ Degree - 1 \in Nat
    BY FieldsAre
  <2> QED
    BY <1>1, <2>1, PairsLength
<1>3. \E n \in DOMAIN pairs : pairs[n] \in {<<a - 1, b - 1>>, <<b - 1, a - 1>>}
  <2>1. a - 1 \in 0 .. (Degree - 1) - 1 /\ b - 1 \in 0 .. (Degree - 1) - 1
    BY <1>2
  <2>2. CASE a <= b
    <3>1. <<a - 1, b - 1>> \in PairSet(Degree - 1)
      BY <1>2, <2>1, <2>2 DEF PairSet
    <3> QED
      BY <1>1, <1>2, <3>1, PairListed
  <2>3. CASE b <= a
    <3>1. <<b - 1, a - 1>> \in PairSet(Degree - 1)
      BY <1>2, <2>1, <2>3 DEF PairSet
    <3> QED
      BY <1>1, <1>2, <3>1, PairListed
  <2> QED
    BY <1>2, <2>2, <2>3
<1>4. PICK n : n = CHOOSE k \in DOMAIN pairs : pairs[k] \in {<<a - 1, b - 1>>, <<b - 1, a - 1>>}
  OBVIOUS
<1>5. n \in DOMAIN pairs /\ pairs[n] \in {<<a - 1, b - 1>>, <<b - 1, a - 1>>}
  BY <1>3, <1>4
<1>6. SolveX(Degree, XAccum(Degree, num, sums))[<<a, b>>] = XAccum(Degree, num, sums)[Degree + n - 1]
  <2>1. <<a, b>> \in (0 .. Degree - 1) \X (0 .. Degree - 1) /\ a # 0 /\ b # 0
    BY <1>2
  <2> QED
    BY <1>1, <1>4, <2>1 DEF SolveX
<1>7. Degree + n - 1 \in 0 .. Degree + Len(pairs) - 1 /\ ~(Degree + n - 1 < Degree) /\ Degree + n - 1 # 0
  BY <1>2, <1>5
<1>8. XAccum(Degree, num, sums)[Degree + n - 1] = sums[Degree + n - 1]
  BY <1>1, <1>7 DEF XAccum
<1>9. a - 1 \in 0 .. Degree - 2 /\ b - 1 \in 0 .. Degree - 2 /\ (a - 1) + 2 = a + 1 /\ (b - 1) + 2 = b + 1
  BY <1>2
<1>10. Degree + n - 1 \in Fields /\ Holds(Degree + n - 1, (a - 1) + 2, (b - 1) + 2)
  BY <1>1, <1>5, <1>9, PairHolds
<1>11. a + 1 \in 1 .. Degree + 1 /\ b + 1 \in 1 .. Degree + 1
  BY <1>2
<1> QED
  BY <1>6, <1>8, <1>9, <1>10, <1>11 DEF SumsOf

\* The other sums of SolveLinReg's two matrices are of one column.
LEMMA SolvedColumn ==
  ASSUME campaign \in Campaigns, msg.type = "LINREG_OP", NEW sums, SumsOf(sums), NEW num,
         NEW b \in 1 .. Degree - 1
  PROVE  /\ SolveX(Degree, XAccum(Degree, num, sums))[<<0, b>>] = MomentSum(1, b + 1, Agreed) % Modulus
         /\ SolveX(Degree, XAccum(Degree, num, sums))[<<b, 0>>] = MomentSum(b + 1, 1, Agreed) % Modulus
<1>1. /\ Degree \in Nat \ {0} /\ Len(Pairs(Degree - 1)) \in Nat
  BY FieldsAre
<1>2. /\ <<0, b>> \in (0 .. Degree - 1) \X (0 .. Degree - 1)
      /\ <<b, 0>> \in (0 .. Degree - 1) \X (0 .. Degree - 1)
      /\ b # 0 /\ b < Degree /\ b \in 0 .. Degree + Len(Pairs(Degree - 1)) - 1
  BY <1>1
<1>3. /\ SolveX(Degree, XAccum(Degree, num, sums))[<<0, b>>] = XAccum(Degree, num, sums)[b]
      /\ SolveX(Degree, XAccum(Degree, num, sums))[<<b, 0>>] = XAccum(Degree, num, sums)[b]
  BY <1>2 DEF SolveX
<1>4. XAccum(Degree, num, sums)[b] = sums[b - 1]
  BY <1>2 DEF XAccum
<1>5. b - 1 \in 0 .. Degree - 1 /\ (b - 1) + 2 = b + 1 /\ 1 \in 1 .. Degree + 1 /\ b + 1 \in 1 .. Degree + 1
  BY <1>1
<1>6. b - 1 \in Fields /\ Holds(b - 1, 1, (b - 1) + 2) /\ Holds(b - 1, (b - 1) + 2, 1)
  BY <1>5, ColumnHolds
<1> QED
  BY <1>3, <1>4, <1>5, <1>6 DEF SumsOf

\* A sum of ones, as long as the batch is smaller than the modulus.
LEMMA OnesMoment ==
  ASSUME campaign \in Campaigns, IsFiniteSet(Agreed), Cardinality(Agreed) \in 0 .. Modulus - 1
  PROVE  MomentSum(1, 1, Agreed) % Modulus = Cardinality(Agreed)
<1>1. PICK F : F = [k \in Agreed |-> Row(k)[1] * Row(k)[1]]
  OBVIOUS
<1>2. \A k \in Agreed : F[k] = 1
  BY <1>1, RowTerms
<1>3. Summable(Agreed, F)
  BY <1>1, <1>2 DEF Summable
<1>4. PICK fold : MomentSum(1, 1, Agreed) = fold[Agreed] /\ AnyOrder(Agreed, F, fold)
  BY <1>1, <1>3, MomentAny
<1>5. fold[Agreed] = Cardinality(Agreed)
  BY <1>2, <1>3, <1>4, OnesCount
<1> QED
  BY <1>4, <1>5, ModSmall, ModulusAssumption

\* What server 0 makes of the sums is what it would make of the values.
LEMMA ReportIsMoments ==
  ASSUME campaign \in Campaigns, IsFiniteSet(Agreed), Cardinality(Agreed) \in 0 .. Modulus - 1,
         NEW sums, SumsOf(sums), NEW num, num = Cardinality(Agreed)
  PROVE  Report(msg.type, Degree, num, sums) = Moments
<1>1. Degree \in Nat \ {0} /\ Len(Pairs(Degree - 1)) \in Nat
  BY FieldsAre
<1>2. CASE msg.type # "LINREG_OP"
  <2>1. Fields = 0 .. 1 /\ Degree = 1
    BY <1>2, FieldsAre
  <2>2. sums[0] = MomentSum(1, 2, Agreed) % Modulus
    <3>1. Holds(0, 1, 0 + 2) /\ 0 \in Fields
      BY <2>1, ColumnHolds
    <3> QED
      BY <2>1, <3>1 DEF SumsOf
  <2>3. sums[1] = MomentSum(2, 2, Agreed) % Modulus
    <3>1. Holds(1, 2, 2) /\ 1 \in Fields
      BY <1>2, <2>1, SquareHolds
    <3> QED
      BY <2>1, <3>1 DEF SumsOf
  <2>4. sums = [f \in 0 .. 1 |-> MomentSum(f + 1, 2, Agreed) % Modulus]
    BY <2>1, <2>2, <2>3 DEF SumsOf
  <2> QED
    BY <1>2, <2>4 DEF Report, Moments
<1>3. CASE msg.type = "LINREG_OP"
  <2>1. PICK X : X = SolveX(Degree, XAccum(Degree, num, sums))
    OBVIOUS
  <2>2. DOMAIN X = (0 .. Degree - 1) \X (0 .. Degree - 1) /\ X = [p \in DOMAIN X |-> X[p]]
    BY <2>1 DEF SolveX
  <2>3. ASSUME NEW a \in 0 .. Degree - 1, NEW b \in 0 .. Degree - 1
        PROVE  X[<<a, b>>] = MomentSum(a + 1, b + 1, Agreed) % Modulus
    <3>1. CASE a = 0 /\ b = 0
      <4>1. XAccum(Degree, num, sums)[0] = num
        BY <1>1 DEF XAccum
      <4>2. X[<<0, 0>>] = num
        BY <1>1, <2>1, <4>1 DEF SolveX
      <4> QED
        BY <3>1, <4>2, OnesMoment
    <3>2. CASE a = 0 /\ b # 0
      <4>1. b \in 1 .. Degree - 1
        BY <1>1, <3>2
      <4>2. X[<<0, b>>] = MomentSum(1, b + 1, Agreed) % Modulus
        BY <1>3, <2>1, <4>1, SolvedColumn
      <4>3. a + 1 = 1 /\ <<a, b>> = <<0, b>>
        BY <3>2
      <4> QED
        BY <4>2, <4>3
    <3>3. CASE a # 0 /\ b = 0
      <4>1. a \in 1 .. Degree - 1
        BY <1>1, <3>3
      <4>2. X[<<a, 0>>] = MomentSum(a + 1, 1, Agreed) % Modulus
        BY <1>3, <2>1, <4>1, SolvedColumn
      <4>3. b + 1 = 1 /\ <<a, b>> = <<a, 0>>
        BY <3>3
      <4> QED
        BY <4>2, <4>3
    <3>4. CASE a # 0 /\ b # 0
      <4>1. a \in 1 .. Degree - 1 /\ b \in 1 .. Degree - 1
        BY <1>1, <3>4
      <4> QED
        BY <1>3, <2>1, <4>1, SolvedPair
    <3> QED
      BY <3>1, <3>2, <3>3, <3>4
  <2>4. ASSUME NEW p \in DOMAIN X PROVE X[p] = MomentSum(p[1] + 1, p[2] + 1, Agreed) % Modulus
    <3>1. p = <<p[1], p[2]>> /\ p[1] \in 0 .. Degree - 1 /\ p[2] \in 0 .. Degree - 1
      BY <2>2
    <3>2. X[<<p[1], p[2]>>] = MomentSum(p[1] + 1, p[2] + 1, Agreed) % Modulus
      BY <2>3, <3>1
    <3> QED
      BY <3>1, <3>2
  <2>5. X = [p \in (0 .. Degree - 1) \X (0 .. Degree - 1) |->
                MomentSum(p[1] + 1, p[2] + 1, Agreed) % Modulus]
    BY <2>2, <2>4
  <2>6. PICK Y : Y = YAccum(Degree, sums)
    OBVIOUS
  <2>7. ASSUME NEW n \in 0 .. Degree - 1 PROVE Y[n] = MomentSum(n + 1, Degree + 1, Agreed) % Modulus
    <3>1. CASE n = 0
      <4>1. Y[n] = sums[Degree - 1]
        BY <1>1, <2>6, <3>1 DEF YAccum
      <4>2. Degree - 1 \in 0 .. Degree - 1 /\ (Degree - 1) + 2 = Degree + 1 /\ 1 \in 1 .. Degree + 1
            /\ Degree + 1 \in 1 .. Degree + 1
        BY <1>1
      <4>3. Degree - 1 \in Fields /\ Holds(Degree - 1, 1, (Degree - 1) + 2)
        BY <4>2, ColumnHolds
      <4> QED
        BY <3>1, <4>1, <4>2, <4>3 DEF SumsOf
    <3>2. CASE n # 0
      <4>1. PICK f : f = Degree + Len(Pairs(Degree - 1)) + n - 1
        OBVIOUS
      <4>2. Y[n] = sums[f]
        BY <1>1, <2>6, <3>2, <4>1 DEF YAccum
      <4>3. n \in 1 .. Degree - 1 /\ n + 1 \in 1 .. Degree + 1 /\ Degree + 1 \in 1 .. Degree + 1
        BY <1>1, <3>2
      <4>4. f \in Fields /\ Holds(f, n + 1, Degree + 1)
        BY <1>3, <4>1, <4>3, CrossHolds
      <4> QED
        BY <4>2, <4>3, <4>4 DEF SumsOf
    <3> QED
      BY <3>1, <3>2
  <2>8. Y = [n \in 0 .. Degree - 1 |-> MomentSum(n + 1, Degree + 1, Agreed) % Modulus]
    BY <2>6, <2>7 DEF YAccum
  <2> QED
    BY <1>3, <2>1, <2>5, <2>6, <2>8 DEF Report, Moments
<1> QED
  BY <1>2, <1>3

-----------------------------------------------------------------------------
(* What the servers hold of what was sent *)

\* Of what a server has read, a valid submission is stored, under its key, and
\* nothing too wide is.
FirstCome ==
    /\ \A s \in Server, k \in campaign.valid : 2 * k <= taken[s] =>
          /\ campaign.subs[k].pk[s] \in DOMAIN share_map[s]
          /\ share_map[s][campaign.subs[k].pk[s]] = k
    /\ \A s \in Server : \A pk \in DOMAIN share_map[s] :
          ~OutOfRange(campaign.subs[share_map[s][pk]].val[s])

\* A routine's valid submission has a key of its own.
LEMMA OwnKey ==
  ASSUME campaign \in Campaigns, NEW k \in campaign.valid
  PROVE  /\ campaign.subs[k].pk[0] = campaign.subs[k].pk[1]
         /\ \A n \in 1 .. k - 1 : \A s \in Server : campaign.subs[n].pk[s] # campaign.subs[k].pk[s]
<1>1. Genuine(campaign, k)
  BY RoutinesAssumption, Zenon
<1> QED
  BY <1>1 DEF Genuine

\* Nothing is read or stored at first.
LEMMA InitFirstCome == Init => FirstCome
<1> SUFFICES ASSUME Init PROVE FirstCome
  OBVIOUS
<1>1. \A k \in campaign.valid : k \in Nat /\ k # 0
  BY BatchSize, ValidAssumption DEF Init
<1>2. \A s \in Server : taken[s] = 0 /\ DOMAIN share_map[s] = {}
  BY DEF Init
<1> QED
  BY <1>1, <1>2 DEF FirstCome, Server

\* Reading a share completes no submission.
LEMMA RecvShareKeepsFirst ==
  ASSUME Reception, FirstCome, NEW s \in Server, RecvShare(s)
  PROVE  FirstCome'
<1>1. UNCHANGED <<campaign, share_map>> /\ pc[s] = "recv"
  BY DEF RecvShare
<1>2. /\ Total_inputs \in Nat /\ i[s] \in Nat /\ \A k \in campaign.valid : k \in Nat
      /\ taken \in [Server -> Nat]
  BY BatchSize, ValidAssumption DEF Reception
<1>3. ASSUME NEW t \in Server, NEW k \in campaign.valid, 2 * k <= taken'[t]
      PROVE  2 * k <= taken[t]
  <2>1. CASE taken'[t] = taken[t]
    BY <1>3, <2>1
  <2>2. CASE taken'[t] # taken[t]
    <3>1. t = s /\ Arrived(s) /\ taken'[s] = taken[s] + 1
      BY <1>2, <2>2 DEF RecvShare
    <3>2. taken[s] = 2 * i[s]
      BY <1>1, <1>2, <3>1 DEF Reception, Turns, AtEof, Arrived, Receiving
    <3>3. \A m \in Nat, n \in Nat : 2 * m <= 2 * n + 1 => 2 * m <= 2 * n
      OBVIOUS
    <3> QED
      BY <1>2, <1>3, <3>1, <3>2, <3>3
  <2> QED
    BY <2>1, <2>2
<1>4. \A k, t : OutOfRange(campaign.subs[k].val[t])' = OutOfRange(campaign.subs[k].val[t])
  BY <1>1 DEF OutOfRange, Width, FieldWidth, Fields, msg
<1> QED
  BY <1>1, <1>3, <1>4 DEF FirstCome

\* Its packet does; no other submission has had a valid one's key before.
LEMMA RecvPacketKeepsFirst ==
  ASSUME Reception, FirstCome, NEW s \in Server, RecvPacket(s)
  PROVE  FirstCome'
<1>1. UNCHANGED campaign /\ pc[s] = "packet"
  BY DEF RecvPacket
<1>2. /\ Total_inputs \in Nat /\ i[s] \in Nat /\ campaign \in Campaigns
      /\ \A k \in campaign.valid : k \in 1 .. Total_inputs
      /\ taken \in [Server -> Nat] /\ share_map = [t \in Server |-> share_map[t]]
      /\ DOMAIN campaign.subs = 1 .. Total_inputs
  BY BatchSize, ValidAssumption DEF Reception
<1>3. \A k, t : OutOfRange(campaign.subs[k].val[t])' = OutOfRange(campaign.subs[k].val[t])
  BY <1>1 DEF OutOfRange, Width, FieldWidth, Fields, msg
<1>4. CASE UNCHANGED <<taken, share_map>>
  BY <1>1, <1>3, <1>4 DEF FirstCome
<1>5. CASE /\ Arrived(s) /\ taken' = [taken EXCEPT ![s] = @ + 1]
           /\ IF Acceptable(s, Current(s)) THEN Keep(s) ELSE UNCHANGED share_map
  <2>1. taken[s] = 2 * i[s] + 1
    <3>1. taken[s] < sent[s] /\ taken[s] \in Nat /\ sent[s] \in Nat
      BY <1>2, <1>5 DEF Arrived, Reception
    <3> QED
      BY <1>1, <3>1 DEF Reception, Turns, AtEof, Receiving
  <2>2. PICK n \in Nat \ {0} : n = i[s] + 1 /\ taken[s] = 2 * n - 1
    BY <1>2, <2>1
  <2>3. Current(s) = n
    <3>1. \A m \in Nat : ((2 * m + 1) + 1) \div 2 = m + 1
      OBVIOUS
    <3> QED
      BY <1>2, <2>1, <2>2, <3>1 DEF Current
  <2>4. taken'[s] = 2 * n /\ \A t \in Server : t # s => taken'[t] = taken[t]
    BY <1>2, <1>5, <2>2
  <2>5. PICK pk : pk = campaign.subs[n].pk[s]
    OBVIOUS
  <2>6. CASE Acceptable(s, n)
    <3>1. /\ pk \notin DOMAIN share_map[s] /\ ~OutOfRange(campaign.subs[n].val[s])
          /\ share_map' = [share_map EXCEPT ![s] =
                  [q \in DOMAIN @ \cup {pk} |-> IF q = pk THEN n ELSE @[q]]]
      BY <1>5, <2>3, <2>5, <2>6 DEF Acceptable, Keep
    <3>2. /\ DOMAIN share_map'[s] = DOMAIN share_map[s] \cup {pk} /\ share_map'[s][pk] = n
          /\ \A q \in DOMAIN share_map[s] : share_map'[s][q] = share_map[s][q]
          /\ \A t \in Server : t # s => share_map'[t] = share_map[t]
      BY <1>2, <3>1
    <3>3. ASSUME NEW t \in Server, NEW k \in campaign.valid, 2 * k <= taken'[t]
          PROVE  /\ campaign.subs[k].pk[t] \in DOMAIN share_map'[t]
                 /\ share_map'[t][campaign.subs[k].pk[t]] = k
      <4>1. CASE t = s /\ k = n
        BY <2>5, <3>2, <4>1
      <4>2. CASE t = s /\ k # n
        <5>1. 2 * k <= taken[s]
          BY SMTT(40), <1>2, <2>2, <2>4, <3>3, <4>2
        <5> QED
          BY <3>2, <4>2, <5>1 DEF FirstCome
      <4>3. CASE t # s
        BY <2>4, <3>2, <3>3, <4>3 DEF FirstCome
      <4> QED
        BY <4>1, <4>2, <4>3
    <3>4. ASSUME NEW t \in Server, NEW q \in DOMAIN share_map'[t]
          PROVE  ~OutOfRange(campaign.subs[share_map'[t][q]].val[t])
      BY <3>1, <3>2, <3>4 DEF FirstCome
    <3> QED
      BY <1>1, <1>3, <3>3, <3>4 DEF FirstCome
  <2>7. CASE ~Acceptable(s, n)
    <3>1. UNCHANGED share_map
      BY <1>5, <2>3, <2>7
    <3>2. n \notin campaign.valid
      <4> SUFFICES ASSUME n \in campaign.valid PROVE FALSE
        OBVIOUS
      <4>1. ~OutOfRange(campaign.subs[n].val[s])
        <5>1. \A f \in Fields : \A b \in campaign.subs[n].val[s][f] : ~(b >= Width(f))
          BY <1>2, ValidAssumption, Zenon DEF Width, Fields, msg
        <5> QED
          BY <5>1, Zenon DEF OutOfRange
      <4>2. pk \in DOMAIN share_map[s]
        BY <2>5, <2>7, <4>1 DEF Acceptable
      <4>3. PICK j : j = share_map[s][pk]
        OBVIOUS
      <4>4. j \in DOMAIN campaign.subs /\ campaign.subs[j].pk[s] = pk /\ 2 * j <= taken[s]
        BY <4>2, <4>3 DEF Reception, StoredWhole
      <4>5. j \in 1 .. n - 1
        BY SMTT(40), <1>2, <2>2, <4>4
      <4>6. campaign.subs[j].pk[s] # campaign.subs[n].pk[s]
        BY <1>2, <4>5, OwnKey
      <4> QED
        BY <2>5, <4>4, <4>6
    <3>3. ASSUME NEW t \in Server, NEW k \in campaign.valid, 2 * k <= taken'[t]
          PROVE  2 * k <= taken[t]
      <4>1. CASE t # s
        BY <2>4, <3>3, <4>1
      <4>2. CASE t = s
        <5>1. k # n /\ k \in Nat /\ 2 * k <= 2 * n
          BY <1>2, <2>4, <3>2, <3>3, <4>2
        <5>2. \A a, b \in Nat : a # b /\ 2 * a <= 2 * b => 2 * a <= 2 * b - 1
          OBVIOUS
        <5> QED
          BY <2>2, <4>2, <5>1, <5>2
      <4> QED
        BY <4>1, <4>2
    <3> QED
      BY <1>1, <1>3, <3>1, <3>3 DEF FirstCome
  <2> QED
    BY <2>6, <2>7
<1> QED
  BY <1>4, <1>5 DEF RecvPacket

\* Nothing else reads from the client or stores.
LEMMA StepKeepsFirst == Reception /\ FirstCome /\ [Next]_vars => FirstCome'
<1> SUFFICES ASSUME Reception, FirstCome, [Next]_vars PROVE FirstCome'
  OBVIOUS
<1>1. ASSUME UNCHANGED <<campaign, taken, share_map>> PROVE FirstCome'
  <2>1. \A k, t : OutOfRange(campaign.subs[k].val[t])' = OutOfRange(campaign.subs[k].val[t])
    BY <1>1 DEF OutOfRange, Width, FieldWidth, Fields, msg
  <2> QED
    BY <1>1, <2>1 DEF FirstCome
<1>2. CASE UNCHANGED vars \/ ClientStep
  BY <1>1, <1>2 DEF vars, ClientStep, Close, SendNext
<1>3. ASSUME NEW s \in Server, Receive(s) PROVE FirstCome'
  BY <1>3, RecvShareKeepsFirst, RecvPacketKeepsFirst DEF Receive
<1>4. CASE RecvPks \/ SendValid \/ SendPks \/ RecvValid \/ Convert \/ RecvSums
  BY <1>1, <1>4 DEF RecvPks, SendValid, SendPks, RecvValid, Convert, RecvSums
<1>5. ASSUME NEW s \in Server, Validate(s) PROVE FirstCome'
  BY <1>1, <1>5 DEF Validate, SendCor, NoCircuit, RecvCor, RecvOut
<1>6. CASE Server0Step
  BY <1>3, <1>4, <1>5, <1>6 DEF Server0Step, Server
<1>7. CASE Server1Step
  BY <1>3, <1>4, <1>5, <1>7 DEF Server1Step, Server
<1> QED
  BY <1>2, <1>4, <1>6, <1>7 DEF Next

LEMMA FirstComeHolds == Spec => []FirstCome
  BY InitFirstCome, StepKeepsFirst, ReceptionHolds, PTL DEF Spec

-----------------------------------------------------------------------------
(* What the servers compute *)

\* Entry n is one submission, to both servers.
Shared(n) == Entry(0, n) = Entry(1, n) /\ Entry(1, n) > 0
\* Entry n's proof, put together from both halves, and the flag of each entry.
Good(n) == Passes(Held(0)[n], Held(1)[n])
Flags == [n \in DOMAIN pk_list[1] |-> Good(n)]

\* Server 1's list has each of its keys once, no more than there are inputs.
KeysListed ==
    pc[1] \notin Receiving =>
        /\ IsFiniteSet(DOMAIN pk_list[1]) /\ DOMAIN pk_list[1] \subseteq 1 .. Total_inputs
        /\ DOMAIN share_map[1] = {pk_list[1][n] : n \in DOMAIN pk_list[1]}
        /\ \A m, n \in DOMAIN pk_list[1] : pk_list[1][m] = pk_list[1][n] => m = n

\* Converted shares are additive shares of what the submission hides.
EntriesOpen ==
    pc[1] \notin PreCheck =>
        \A n \in DOMAIN pk_list[1] : \A f \in Fields : Shared(n) =>
            /\ shares_p[0][n][f] \in Int /\ shares_p[1][n][f] \in Int
            /\ (shares_p[0][n][f] + shares_p[1][n][f]) % Modulus = Clear(Entry(1, n))[f]

\* What is on its way is what its sender computed.
OnWire ==
    \A s \in Server : \A n \in 1 .. Len(to[s]) :
        /\ to[s][n].kind = "out" => to[s][n].val = Held(1 - s)
        /\ to[s][n].kind = "valid" => to[s][n].val = Flags
        /\ to[s][n].kind = "sums" => to[s][n].val = Accumulate(1, Flags)

\* Before its check a server's flags are the keys it knows, or nothing; after
\* it they are the same at both.
FlagsSet ==
    /\ valid = [s \in Server |-> valid[s]] /\ acc = [s \in Server |-> acc[s]]
    /\ \A s \in Server :
          /\ pc[s] \in {"convert", "check", "cor", "out"} =>
                valid[s] = [n \in DOMAIN pk_list[1] |-> s = 0 /\ pk_list[1][n] \in DOMAIN share_map[0]]
          /\ pc[s] \in {"valid", "sums", "done"} => valid[s] = Flags
    /\ pc[0] \in {"sums", "done"} => acc[0] = Accumulate(0, Flags)
    /\ pc[0] # "done" => result = Pending

Settled == KeysListed /\ EntriesOpen /\ OnWire /\ FlagsSet

\* What the servers hold, and what they compute of it, changes with nothing
\* but the maps, the lists and the converted shares.
LEMMA SameHeld ==
  ASSUME UNCHANGED <<campaign, share_map, pk_list, shares_p>>
  PROVE  /\ UNCHANGED <<Held(0), Held(1), Flags, Accumulate(0, Flags), Accumulate(1, Flags)>>
         /\ (KeysListed /\ pc'[1] \notin Receiving /\ pc[1] \notin Receiving => KeysListed')
         /\ (EntriesOpen /\ pc'[1] \notin PreCheck /\ pc[1] \notin PreCheck => EntriesOpen')
<1>1. \A s, n : Entry(s, n)' = Entry(s, n)
  BY DEF Entry
<1>2. \A s : Held(s)' = Held(s)
  BY <1>1 DEF Held
<1>3. \A a, b : Passes(a, b)' = Passes(a, b)
  BY DEF Passes, Fields, msg
<1>4. Flags' = Flags
  <2>1. \A n : Good(n)' = Good(n)
    BY <1>2, <1>3 DEF Good
  <2> QED
    BY <2>1 DEF Flags
<1>5. \A s, fl : Accumulate(s, fl)' = Accumulate(s, fl)
  BY DEF Accumulate, Fields, msg, MapThenSumSet, MapThenFoldSet
<1>6. \A s : Accumulate(s, Flags)' = Accumulate(s, Flags)
  BY <1>4 DEF Accumulate, Fields, msg, MapThenSumSet, MapThenFoldSet
<1>7. KeysListed /\ pc'[1] \notin Receiving /\ pc[1] \notin Receiving => KeysListed'
  BY DEF KeysListed, Total_inputs, msg
<1>8. EntriesOpen /\ pc'[1] \notin PreCheck /\ pc[1] \notin PreCheck => EntriesOpen'
  <2>1. \A k : Clear(k)' = Clear(k)
    BY DEF Clear
  <2>2. Fields' = Fields /\ \A n : Shared(n)' = Shared(n)
    BY <1>1 DEF Shared, Fields, msg
  <2> QED
    BY <1>1, <2>1, <2>2 DEF EntriesOpen
<1> QED
  BY <1>2, <1>4, <1>6, <1>7, <1>8

\* A batch leaves at most as many keys as it has inputs.
LEMMA FiniteKeys ==
  ASSUME Reception, NEW s \in Server
  PROVE  IsFiniteSet(DOMAIN share_map[s]) /\ Cardinality(DOMAIN share_map[s]) <= Total_inputs
<1>1. Total_inputs \in Nat /\ DOMAIN campaign.subs = 1 .. Total_inputs
  BY BatchSize DEF Reception
<1>2. PICK K : K = DOMAIN share_map[s]
  OBVIOUS
<1>3. PICK D : D = 1 .. Total_inputs
  OBVIOUS
<1>4. PICK f : f = [pk \in K |-> share_map[s][pk]]
  OBVIOUS
<1>5. \A pk \in K : f[pk] \in D /\ campaign.subs[f[pk]].pk[s] = pk
  BY <1>1, <1>2, <1>3, <1>4 DEF Reception, StoredWhole
<1>6. f \in Injection(K, D)
  BY <1>4, <1>5 DEF Injection, IsInjective
<1>7. IsFiniteSet(D) /\ Cardinality(D) = Total_inputs
  <2>1. PICK n \in Nat : n = Total_inputs
    BY <1>1
  <2>2. IsFiniteSet(1 .. n) /\ Cardinality(1 .. n) = IF 1 > n THEN 0 ELSE n - 1 + 1
    BY FS_Interval
  <2>3. Cardinality(1 .. n) = n
    BY <2>1, <2>2
  <2> QED
    BY <1>3, <2>1, <2>2, <2>3
<1> QED
  BY <1>2, <1>6, <1>7, FS_Injection

\* Server 1 lists each key once: the list is as long as there are keys.
LEMMA SendPksListsKeys ==
  ASSUME Reception, Exchange, SendPks PROVE KeysListed'
<1>1. PICK D : D = DOMAIN share_map[1]
  OBVIOUS
<1>2. PICK order \in Enumerations(D) : pk_list'[1] = order
  BY <1>1 DEF SendPks, Exchange, Server
<1>3. IsFiniteSet(D) /\ Cardinality(D) \in Nat /\ Cardinality(D) <= Total_inputs
  BY <1>1, FiniteKeys, FS_CardinalityType DEF Server
<1>4. PICK n \in Nat : n = Cardinality(D)
  BY <1>3
<1>5. order \in [1 .. n -> D] /\ \A pk \in D : \E j \in 1 .. n : order[j] = pk
  <2>1. order \in [1 .. n -> D] /\ \A pk \in D : \E j \in DOMAIN order : order[j] = pk
    BY <1>2, <1>4 DEF Enumerations
  <2> QED
    BY <2>1
<1>6. IsFiniteSet(1 .. n) /\ Cardinality(1 .. n) = n
  <2>1. IsFiniteSet(1 .. n) /\ Cardinality(1 .. n) = IF 1 > n THEN 0 ELSE n - 1 + 1
    BY FS_Interval
  <2> QED
    BY <2>1
<1>7. order \in Injection(1 .. n, D)
  <2>1. order \in Surjection(1 .. n, D)
    BY <1>5 DEF Surjection
  <2> QED
    BY <1>4, <1>6, <2>1, FS_SurjSameCardinalityImpliesInj
<1>8. \A j, k \in 1 .. n : order[j] = order[k] => j = k
  BY <1>7 DEF Injection, IsInjective
<1>9. D = {order[j] : j \in 1 .. n} /\ DOMAIN order = 1 .. n
  BY <1>5
<1>10. DOMAIN share_map'[1] = D /\ Total_inputs' = Total_inputs
  BY <1>1 DEF SendPks, Total_inputs, msg
<1>11. 1 .. n \subseteq 1 .. Total_inputs
  <2>1. Total_inputs \in Nat
    BY BatchSize DEF Reception
  <2> QED
    BY <1>3, <1>4, <2>1
<1> QED
  BY <1>2, <1>6, <1>8, <1>9, <1>10, <1>11 DEF KeysListed

\* Both lists are there, the same, by the time of the check; each key listed is
\* server 1's, of one of its submissions.
LEMMA ListedEntries ==
  ASSUME Reception, Exchange, KeysListed, pc[0] \notin Receiving
  PROVE  /\ pc[1] \notin Receiving /\ pk_list[0] = pk_list[1]
         /\ \A n \in DOMAIN pk_list[1] :
               /\ pk_list[1][n] \in DOMAIN share_map[1]
               /\ Entry(1, n) = share_map[1][pk_list[1][n]]
               /\ Entry(1, n) \in DOMAIN campaign.subs /\ Entry(1, n) \in Nat /\ Entry(1, n) > 0
               /\ Entry(0, n) \in Nat
               /\ Entry(0, n) > 0 <=> pk_list[1][n] \in DOMAIN share_map[0]
               /\ Entry(0, n) > 0 => Entry(0, n) = share_map[0][pk_list[1][n]]
<1>1. pc[1] \notin Receiving /\ pk_list[0] = pk_list[1]
  BY DEF Exchange, Together
<1>2. Total_inputs \in Nat /\ DOMAIN campaign.subs = 1 .. Total_inputs
  BY BatchSize DEF Reception
<1>3. \A s \in Server : \A pk \in DOMAIN share_map[s] :
         share_map[s][pk] \in DOMAIN campaign.subs /\ share_map[s][pk] \in Nat /\ share_map[s][pk] > 0
  BY <1>2 DEF Reception, StoredWhole
<1>4. ASSUME NEW n \in DOMAIN pk_list[1]
      PROVE  /\ pk_list[1][n] \in DOMAIN share_map[1]
             /\ Entry(1, n) = share_map[1][pk_list[1][n]]
             /\ Entry(0, n) = IF pk_list[1][n] \in DOMAIN share_map[0]
                              THEN share_map[0][pk_list[1][n]] ELSE 0
  <2>1. pk_list[1][n] \in DOMAIN share_map[1]
    BY <1>1 DEF KeysListed
  <2> QED
    BY <1>1, <2>1 DEF Entry
<1> QED
  BY <1>1, <1>3, <1>4 DEF Server

\* Flags that mark the same entries are the same.
LEMMA SameFlags ==
  ASSUME NEW D, NEW f \in [D -> BOOLEAN], NEW g \in [D -> BOOLEAN], \A n \in D : f[n] <=> g[n]
  PROVE  f = g
<1>1. \A n \in D : f[n] = g[n]
  OBVIOUS
<1> QED
  BY <1>1

\* A flag says whether its entry is good.
LEMMA FlagsMark ==
  /\ Flags \in [DOMAIN pk_list[1] -> BOOLEAN]
  /\ \A n \in DOMAIN pk_list[1] : Flags[n] <=> Good(n)
<1>1. \A n : Good(n) \in BOOLEAN
  BY DEF Good, Passes
<1>2. Flags = [n \in DOMAIN pk_list[1] |-> Good(n)]
  BY DEF Flags
<1>3. Flags \in [DOMAIN pk_list[1] -> BOOLEAN]
  BY <1>1, <1>2
<1>4. \A n \in DOMAIN pk_list[1] : Flags[n] = Good(n)
  BY <1>2
<1> QED
  BY <1>1, <1>3, <1>4

\* Neither side's half of a check tells more than the other's: an entry passes
\* when it is one submission whose proof is a proof of what it hides.
LEMMA GoodIsProved ==
  ASSUME Reception, Exchange, KeysListed, EntriesOpen, pc[1] \notin PreCheck,
         NEW n \in DOMAIN pk_list[1]
  PROVE  /\ Good(n) <=> Shared(n) /\ Proved(Entry(1, n))
         /\ Passes(Held(1)[n], Held(0)[n]) <=> Good(n)
<1>1. /\ pc[0] \notin Receiving /\ pk_list[0] = pk_list[1]
      /\ campaign \in Campaigns
  BY DEF Exchange, Reception, Together, PreCheck
<1>2. PICK h0 : h0 = Held(0)[n]
  OBVIOUS
<1>3. PICK h1 : h1 = Held(1)[n]
  OBVIOUS
<1>4. /\ h0.packet = Entry(0, n) /\ h0.inputs = shares_p[0][n]
      /\ h1.packet = Entry(1, n) /\ h1.inputs = shares_p[1][n]
  BY <1>1, <1>2, <1>3 DEF Held
<1>5. CASE ~Shared(n)
  BY <1>2, <1>3, <1>4, <1>5 DEF Good, Passes, Shared
<1>6. CASE Shared(n)
  <2>1. PICK k : k = Entry(1, n)
    OBVIOUS
  <2>2. k \in DOMAIN campaign.subs
    BY <1>1, <2>1, ListedEntries
  <2>3. h0.packet = h1.packet /\ h1.packet = k /\ k > 0
    BY <1>4, <1>6, <2>1 DEF Shared
  <2>4. ASSUME NEW f \in Fields
        PROVE  /\ (h0.inputs[f] + h1.inputs[f]) % Modulus = Clear(k)[f]
               /\ (h1.inputs[f] + h0.inputs[f]) % Modulus = Clear(k)[f]
    <3>1. PICK a : a = shares_p[0][n][f]
      OBVIOUS
    <3>2. PICK b : b = shares_p[1][n][f]
      OBVIOUS
    <3>3. a \in Int /\ b \in Int /\ (a + b) % Modulus = Clear(k)[f]
      BY <1>6, <2>1, <2>4, <3>1, <3>2 DEF EntriesOpen
    <3>4. a + b = b + a
      BY <3>3
    <3> QED
      BY <1>4, <3>1, <3>2, <3>3, <3>4
  <2>5. /\ DOMAIN campaign.subs[k].proved = Fields
        /\ Clear(k) = [f \in Fields |-> Clear(k)[f]]
    <3>1. Clear(k) \in [Fields -> 0 .. Modulus - 1]
      BY <1>1, <2>2, ClearFields
    <3>2. DOMAIN campaign.subs[k].proved = Fields
      BY <1>1, <2>2, FieldsAssumption DEF Fields, msg
    <3> QED
      BY <3>1, <3>2
  <2>6. /\ [f \in Fields |-> (h0.inputs[f] + h1.inputs[f]) % Modulus] = Clear(k)
        /\ [f \in Fields |-> (h1.inputs[f] + h0.inputs[f]) % Modulus] = Clear(k)
    BY <2>4, <2>5
  <2>7. Passes(h0, h1) <=> Proved(k)
    BY <2>3, <2>5, <2>6 DEF Passes, Proved, Degree
  <2>8. Passes(h1, h0) <=> Proved(k)
    BY <2>3, <2>5, <2>6 DEF Passes, Proved, Degree
  <2> QED
    BY <1>2, <1>3, <1>6, <2>1, <2>7, <2>8 DEF Good
<1> QED
  BY <1>5, <1>6

\* There is room in a word for every bit of every field that is converted.
ModulusFits ==
    \A c \in Campaigns : \A f \in FieldsOf(c.msg.type, c.degree) :
        \A k \in 0 .. FieldWidth(c, f) - 1 : RoomAt(k, Modulus)

\* Residues that add up to a number open to it.
LEMMA ResiduesAdd ==
  ASSUME NEW m \in Nat \ {0}, NEW x \in 0 .. m - 1, NEW y \in 0 .. m - 1, NEW v \in Int,
         Cong(x + y, v, m)
  PROVE  x \in Int /\ y \in Int /\ (x + y) % m = v % m
<1>1. PICK z \in Int : z = x + y
  OBVIOUS
<1>2. z % m = v % m
  BY <1>1, CongMod
<1> QED
  BY <1>1, <1>2

\* What the conversion needs of a field, and what it makes of it.
InWidth(f, a) == a \in SUBSET Nat /\ \A k \in a : ~(k >= Width(f))
FieldPads(f, pads) == \A k \in 0 .. Width(f) - 1 : pads[k] \in 0 .. Word - 1
FieldShares(f, a, b, pads, x, y) ==
    LET messages == IntMessages(a, TRUE, Width(f), pads, Modulus)
    IN /\ x = IntSenderShare(a, TRUE, Width(f), pads, Modulus)
       /\ y = IntReceiverShare(b, Width(f), messages, Modulus)

\* A field of one submission opens, modulo Int_Modulus, to what was shared.
LEMMA FieldOpens ==
  ASSUME campaign \in Campaigns, ModulusFits, NEW f \in Fields,
         NEW a, InWidth(f, a), NEW b, InWidth(f, b), NEW pads, FieldPads(f, pads),
         NEW x, NEW y, FieldShares(f, a, b, pads, x, y)
  PROVE  /\ x \in Int /\ y \in Int
         /\ (x + y) % Modulus = Number(SymDiff(a, b)) % Modulus
<1>1. PICK n \in Nat : n = Width(f)
  BY FieldsAssumption DEF Width, FieldWidth
<1>2. PICK m \in Nat \ {0} : m = Modulus
  BY ModulusAssumption
<1>3. \A k \in 0 .. n - 1 : RoomAt(k, m)
  BY <1>1, <1>2 DEF ModulusFits, Width, Fields, msg
<1>4. a \in SUBSET (0 .. n - 1) /\ b \in SUBSET (0 .. n - 1)
  BY <1>1 DEF InWidth
<1>5. PICK messages : messages = IntMessages(a, TRUE, n, pads, m)
  OBVIOUS
<1>6. x = IntSenderShare(a, TRUE, n, pads, m) /\ y = IntReceiverShare(b, n, messages, m)
  BY <1>1, <1>2, <1>5 DEF FieldShares
<1>7. \A k \in 0 .. n - 1 : pads[k] \in 0 .. Word - 1
  BY <1>1 DEF FieldPads
<1>8. /\ Cong(x + y, BitsValue(SymDiff(a, b)), Ring(m))
      /\ x \in 0 .. Ring(m) - 1 /\ y \in 0 .. Ring(m) - 1
      /\ BitsValue(SymDiff(a, b)) \in Int
  <2>1. m \in Nat
    OBVIOUS
  <2> HIDE DEF ModulusFits
  <2> QED
    BY <1>3, <1>4, <1>5, <1>6, <1>7, <2>1, IntEntryExact
<1>9. Ring(m) = m
  BY <1>2 DEF Ring
<1>10. PICK v : v = BitsValue(SymDiff(a, b))
  OBVIOUS
<1>11. /\ x \in Int /\ y \in Int
       /\ (x + y) % m = v % m
  <2>1. x \in 0 .. m - 1 /\ y \in 0 .. m - 1 /\ v \in Int /\ Cong(x + y, v, m)
    BY <1>8, <1>9, <1>10, Zenon
  <2> QED
    BY <2>1, ResiduesAdd, Zenon
<1>12. v = Number(SymDiff(a, b))
  BY <1>10, Zenon DEF Number, BitsValue
<1> QED
  BY <1>2, <1>11, <1>12, Zenon

\* The conversion opens to what the payloads hide.
LEMMA ConvertOpens ==
  ASSUME Reception, Exchange, FirstCome, KeysListed, ModulusFits, Convert PROVE EntriesOpen'
<1>1. /\ pc[0] = "convert" /\ pc[1] = "convert" /\ campaign \in Campaigns
      /\ UNCHANGED <<campaign, share_map, pk_list>>
  BY DEF Convert, Server, Reception
<1>2. /\ pc[0] \notin Receiving /\ pk_list[0] = pk_list[1] /\ Fields' = Fields
  BY <1>1 DEF Exchange, Together, Receiving, Fields, msg
<1>3. PICK pads \in Pads, junk \in Junk :
         shares_p' = [s \in Server |-> [n \in DOMAIN pk_list[s] |-> [f \in Fields |->
                         Converted(s, n, f, pads, junk)]]]
  BY DEF Convert
<1>4. \A s, n : Entry(s, n)' = Entry(s, n)
  BY <1>1 DEF Entry
<1>5. ASSUME NEW n \in DOMAIN pk_list[1], NEW f \in Fields, Shared(n)
      PROVE  /\ shares_p'[0][n][f] \in Int /\ shares_p'[1][n][f] \in Int
             /\ (shares_p'[0][n][f] + shares_p'[1][n][f]) % Modulus = Clear(Entry(1, n))[f]
  <2>1. PICK k : k = Entry(1, n)
    OBVIOUS
  <2>2. /\ k \in DOMAIN campaign.subs /\ Entry(0, n) = k /\ k > 0
        /\ \A s \in Server : ~OutOfRange(campaign.subs[k].val[s])
    <3>1. /\ k \in DOMAIN campaign.subs /\ Entry(0, n) = k /\ k > 0
          /\ pk_list[1][n] \in DOMAIN share_map[0] /\ share_map[0][pk_list[1][n]] = k
          /\ pk_list[1][n] \in DOMAIN share_map[1] /\ share_map[1][pk_list[1][n]] = k
      BY <1>2, <1>5, <2>1, ListedEntries DEF Shared
    <3> QED
      BY <3>1 DEF FirstCome, Server
  <2>3. \A s \in Server :
           /\ campaign.subs[k].val[s][f] \subseteq Nat
           /\ \A b \in campaign.subs[k].val[s][f] : ~(b >= Width(f))
    BY <1>1, <2>2, FieldsAssumption DEF OutOfRange, Fields, msg
  <2>4. PICK a : a = campaign.subs[k].val[0][f] /\ InWidth(f, a)
    BY <2>3 DEF InWidth, Server
  <2>5. PICK b : b = campaign.subs[k].val[1][f] /\ InWidth(f, b)
    BY <2>3 DEF InWidth, Server
  <2>6. Payload(0, n, f, junk) = a /\ Payload(1, n, f, junk) = b
    BY <2>1, <2>2, <2>4, <2>5 DEF Payload
  <2>7. PICK pad : pad = pads[n][f]
    OBVIOUS
  <2>8. FieldPads(f, pad)
    <3>1. n \in 1 .. campaign.msg.num_of_inputs
      BY <1>1 DEF KeysListed, Receiving, Total_inputs, msg
    <3> QED
      BY <1>1, <2>7, <3>1, PadsAssumption DEF FieldPads, Width, Fields, msg
  <2>9. PICK x : x = Converted(0, n, f, pads, junk)
    OBVIOUS
  <2>10. PICK y : y = Converted(1, n, f, pads, junk)
    OBVIOUS
  <2>11. FieldShares(f, a, b, pad, x, y)
    <3>1. 1 # 0
      OBVIOUS
    <3> QED
      BY <2>6, <2>7, <2>9, <2>10, <3>1, Zenon DEF Converted, FieldShares
  <2>12. shares_p'[0][n][f] = x /\ shares_p'[1][n][f] = y
    BY <1>2, <1>3, <2>9, <2>10 DEF Server
  <2>13. /\ x \in Int /\ y \in Int
         /\ (x + y) % Modulus = Number(SymDiff(a, b)) % Modulus
    <3>1. InWidth(f, a) /\ InWidth(f, b)
      BY <2>4, <2>5
    <3> HIDE DEF ModulusFits, InWidth, FieldPads, FieldShares
    <3> QED
      BY <1>1, <2>8, <2>11, <3>1, FieldOpens
  <2>14. Clear(k)[f] = Number(SymDiff(a, b)) % Modulus
    <3>1. f \in DOMAIN campaign.subs[k].val[0]
      BY <1>1, <2>2, FieldsAssumption DEF Fields, msg, Server
    <3> QED
      BY <2>4, <2>5, <3>1 DEF Clear
  <2> QED
    BY <2>1, <2>12, <2>13, <2>14
<1>6. \A k : Clear(k)' = Clear(k)
  BY <1>1 DEF Clear
<1>7. \A n : Shared(n)' = Shared(n)
  BY <1>4 DEF Shared
<1> QED
  BY <1>1, <1>2, <1>4, <1>5, <1>6, <1>7 DEF EntriesOpen

-----------------------------------------------------------------------------
(* Every step keeps what is computed in order *)

\* One server's part of a variable changes.
LEMMA OnePart ==
  ASSUME NEW f, f = [s \in Server |-> f[s]], NEW t \in Server, NEW v, NEW g,
         g = [f EXCEPT ![t] = v]
  PROVE  g = [s \in Server |-> g[s]] /\ g[t] = v /\ \A s \in Server : s # t => g[s] = f[s]
  OBVIOUS

\* Before the check nothing computed is on its way.
LEMMA EarlyOnWire ==
  ASSUME Exchange', \A s \in Server : pc'[s] \in PreCheck \cup {"check"}
  PROVE  OnWire'
<1>1. pc'[0] \in PreCheck \cup {"check"} /\ pc'[1] \in PreCheck \cup {"check"}
  BY DEF Server
<1>2. Len(to'[1]) = 0 /\ (Len(to'[0]) = 0 \/ Len(to'[0]) = 1)
  BY <1>1 DEF Exchange, WrittenTo0, WrittenTo1, PreCheck, Receiving
<1>3. \A s \in Server : \A n \in 1 .. Len(to'[s]) : to'[s][n].kind = "pks"
  <2> SUFFICES ASSUME NEW s \in Server, NEW n \in 1 .. Len(to'[s]) PROVE to'[s][n].kind = "pks"
    OBVIOUS
  <2>1. s = 0 /\ n = 1
    <3>1. \A l \in 0 .. 1 : \A m \in 1 .. l : l = 1 /\ m = 1
      OBVIOUS
    <3>2. Len(to'[s]) \in 0 .. 1
      BY <1>2 DEF Server
    <3>3. Len(to'[s]) = 1 /\ n = 1
      BY <3>1, <3>2
    <3> QED
      BY <1>2, <3>3 DEF Server
  <2>2. to'[s][n].kind = Kind(s, n)'
    BY DEF Exchange
  <2>3. Kind(s, n)' = "pks"
    BY <2>1 DEF Kind
  <2> QED
    BY <2>2, <2>3
<1> QED
  BY <1>3 DEF OnWire

\* What is computed stays what it is while nothing it is made of changes,
LEMMA WireStands ==
  ASSUME OnWire, UNCHANGED <<campaign, to, share_map, pk_list, shares_p>>
  PROVE  OnWire'
<1>1. Flags' = Flags /\ Accumulate(1, Flags)' = Accumulate(1, Flags)
  BY SameHeld
<1>2. \A s \in Server : Held(1 - s)' = Held(1 - s)
  <2>1. Held(1 - 0)' = Held(1 - 0) /\ Held(1 - 1)' = Held(1 - 1)
    <3>1. Held(0)' = Held(0) /\ Held(1)' = Held(1) /\ 1 - 0 = 1 /\ 1 - 1 = 0
      BY SameHeld
    <3> QED
      BY <3>1
  <2> QED
    BY <2>1 DEF Server
<1> QED
  BY <1>1, <1>2 DEF OnWire

\* and when a message of it is added to a stream.
LEMMA SendKeepsWire ==
  ASSUME Exchange, OnWire, UNCHANGED <<campaign, share_map, pk_list, shares_p>>,
         NEW s \in Server, NEW e,
         to'[s] = Append(to[s], e), \A t \in Server : t # s => to'[t] = to[t],
         e.kind = "out" => e.val = Held(1 - s),
         e.kind = "valid" => e.val = Flags,
         e.kind = "sums" => e.val = Accumulate(1, Flags)
  PROVE  OnWire'
<1>1. Flags' = Flags /\ Accumulate(1, Flags)' = Accumulate(1, Flags)
  BY SameHeld
<1>2. \A t \in Server : Held(1 - t)' = Held(1 - t)
  <2>1. Held(1 - 0)' = Held(1 - 0) /\ Held(1 - 1)' = Held(1 - 1)
    <3>1. Held(0)' = Held(0) /\ Held(1)' = Held(1) /\ 1 - 0 = 1 /\ 1 - 1 = 0
      BY SameHeld
    <3> QED
      BY <3>1
  <2> QED
    BY <2>1 DEF Server
<1>6. /\ Len(to[s]) \in Nat /\ Len(to'[s]) = Len(to[s]) + 1
      /\ to'[s][Len(to[s]) + 1] = e
      /\ \A m \in 1 .. Len(to[s]) : to'[s][m] = to[s][m]
  BY AppendToStream DEF Exchange
<1>7. ASSUME NEW t \in Server, NEW m \in 1 .. Len(to'[t])
      PROVE  /\ to'[t][m].kind = "out" => to'[t][m].val = Held(1 - t)
             /\ to'[t][m].kind = "valid" => to'[t][m].val = Flags
             /\ to'[t][m].kind = "sums" => to'[t][m].val = Accumulate(1, Flags)
  <2>1. CASE t = s /\ m = Len(to[s]) + 1
    BY <1>6, <2>1
  <2>2. CASE t = s /\ m # Len(to[s]) + 1
    <3>1. m \in 1 .. Len(to[s])
      BY <1>6, <2>2
    <3> QED
      BY SMTT(40), <1>6, <2>2, <3>1 DEF OnWire
  <2>3. CASE t # s
    BY <1>7, <2>3 DEF OnWire
  <2> QED
    BY <2>1, <2>2, <2>3
<1> QED
  BY <1>1, <1>2, <1>7 DEF OnWire

\* Nothing is listed, converted, written or flagged before the first share.
LEMMA InitSettled == Init => Settled
<1> SUFFICES ASSUME Init PROVE Settled
  OBVIOUS
<1>1. \A s \in Server : pc[s] = "recv" /\ to[s] = <<>>
  BY DEF Init
<1>2. valid = [s \in Server |-> valid[s]] /\ acc = [s \in Server |-> acc[s]] /\ result = Pending
  BY DEF Init
<1>3. OnWire
  BY <1>1 DEF OnWire
<1>4. FlagsSet
  BY <1>1, <1>2 DEF FlagsSet, Server
<1>5. KeysListed /\ EntriesOpen
  BY <1>1 DEF KeysListed, EntriesOpen, PreCheck, Receiving, Server
<1> QED
  BY <1>3, <1>4, <1>5 DEF Settled

\* The client's steps touch none of it.
LEMMA IdleKeepsSettled ==
  ASSUME Settled,
         UNCHANGED <<campaign, pc, share_map, to, pk_list, shares_p, valid, acc, result>>
  PROVE  Settled'
<1>1. OnWire'
  BY WireStands DEF Settled
<1>2. KeysListed'
  BY DEF Settled, KeysListed, Total_inputs, msg
<1>3. EntriesOpen'
  <2>1. CASE pc[1] \in PreCheck
    BY <2>1 DEF EntriesOpen
  <2>2. CASE pc[1] \notin PreCheck
    BY <2>2, SameHeld DEF Settled
  <2> QED
    BY <2>1, <2>2
<1>4. FlagsSet'
  <2>1. Flags' = Flags /\ Accumulate(0, Flags)' = Accumulate(0, Flags)
    BY SameHeld
  <2> QED
    BY <2>1 DEF Settled, FlagsSet
<1> QED
  BY <1>1, <1>2, <1>3, <1>4 DEF Settled

\* What a server receives it receives before its keys are lined up.
LEMMA RecvKeepsSettled ==
  ASSUME Exchange, Exchange', Settled, NEW s \in Server, Reception, RecvShare(s) \/ RecvPacket(s)
  PROVE  Settled'
<1>1. /\ pc[s] \in Receiving /\ pc'[s] \in Receiving
      /\ \A t \in Server : t # s => pc'[t] = pc[t] /\ share_map'[t] = share_map[t]
      /\ UNCHANGED <<campaign, to, pk_list, shares_p, valid, acc, result>>
  BY DEF RecvShare, RecvPacket, Keep, Reception, Receiving
<1>2. \A t \in Server : pc[t] \in PreCheck /\ pc'[t] \in PreCheck
  <2>1. pc[0] \in PreCheck /\ pc[1] \in PreCheck
    BY <1>1 DEF Exchange, Together, PreCheck, Server
  <2> QED
    BY <1>1, <2>1 DEF PreCheck, Server
<1>3. OnWire'
  BY <1>2, EarlyOnWire
<1>4. EntriesOpen'
  BY <1>2 DEF EntriesOpen, Server
<1>5. KeysListed'
  <2>1. CASE s = 1
    BY <1>1, <2>1 DEF KeysListed
  <2>2. CASE s = 0
    BY <1>1, <2>2 DEF Settled, KeysListed, Server, Total_inputs, msg
  <2> QED
    BY <2>1, <2>2 DEF Server
<1>6. FlagsSet'
  <2>1. \A t \in Server : pc'[t] \in Receiving \/ (t = 1 /\ s = 0 /\ pc'[1] = "convert" /\ pc[1] = "convert")
    <3>1. pc[0] \in Receiving
      <4>1. s = 1 => pc[0] \in Receiving
        BY <1>1 DEF Exchange, Together
      <4> QED
        BY <1>1, <4>1 DEF Server
    <3>2. pc'[0] \in Receiving
      BY <1>1, <3>1 DEF Server
    <3> QED
      BY <1>1, <1>2, <3>2 DEF Server, PreCheck
  <2>2. /\ \A t \in Server : pc'[t] \notin {"check", "cor", "out", "valid", "sums", "done"}
        /\ pc'[0] # "convert" /\ pc[0] # "done"
    BY <1>2, <2>1 DEF PreCheck, Receiving, Server
  <2>3. pc'[1] = "convert" => valid'[1] = [n \in DOMAIN pk_list'[1] |-> 1 = 0 /\ pk_list'[1][n] \in DOMAIN share_map'[0]]
    <3>1. SUFFICES ASSUME pc'[1] = "convert"
                   PROVE  valid'[1] = [n \in DOMAIN pk_list'[1] |-> 1 = 0 /\ pk_list'[1][n] \in DOMAIN share_map'[0]]
      OBVIOUS
    <3>2. pc[1] = "convert"
      BY <2>1, <3>1 DEF Receiving, Server
    <3>3. valid[1] = [n \in DOMAIN pk_list[1] |-> 1 = 0 /\ pk_list[1][n] \in DOMAIN share_map[0]]
      BY <3>2 DEF Settled, FlagsSet, Server
    <3> QED
      BY <1>1, <3>3
  <2> QED
    BY <1>1, <2>2, <2>3 DEF Settled, FlagsSet, Server
<1> QED
  BY <1>3, <1>4, <1>5, <1>6 DEF Settled

\* Server 1 lines its keys up.
LEMMA SendPksKeepsSettled ==
  ASSUME Reception, Exchange, Exchange', Settled, SendPks PROVE Settled'
<1>1. /\ pc[1] = "recv" /\ pc' = [pc EXCEPT ![1] = "convert"]
      /\ UNCHANGED <<campaign, share_map, shares_p, acc, result>>
  BY DEF SendPks
<1>2. PICK order : /\ pk_list' = [pk_list EXCEPT ![1] = order]
                   /\ valid' = [valid EXCEPT ![1] = [n \in DOMAIN order |-> FALSE]]
  BY DEF SendPks
<1>3. pc[0] \in Receiving
  BY <1>1 DEF Exchange, Together, PreCheck, Receiving, Server
<1>4. pc'[0] = pc[0] /\ pc'[1] = "convert"
  BY <1>1 DEF Exchange, Server
<1>5. \A s \in Server : pc'[s] \in PreCheck
  BY <1>3, <1>4 DEF PreCheck, Server
<1>6. OnWire'
  BY <1>5, EarlyOnWire
<1>7. EntriesOpen'
  BY <1>5 DEF EntriesOpen, Server
<1>8. KeysListed'
  BY SendPksListsKeys
<1>9. FlagsSet'
  <2>1. /\ valid' = [s \in Server |-> valid'[s]] /\ acc' = [s \in Server |-> acc'[s]]
        /\ valid'[1] = [n \in DOMAIN order |-> FALSE] /\ pk_list'[1] = order
    BY <1>1, <1>2 DEF Settled, FlagsSet, Exchange, Server
  <2>2. valid'[1] = [n \in DOMAIN pk_list'[1] |-> 1 = 0 /\ pk_list'[1][n] \in DOMAIN share_map'[0]]
    <3>1. 1 # 0
      OBVIOUS
    <3>2. ASSUME NEW D, NEW q
          PROVE  [n \in D |-> FALSE] = [n \in D |-> 1 = 0 /\ q[n] \in DOMAIN share_map'[0]]
      BY <3>1, Zenon
    <3> QED
      BY <2>1, <3>2
  <2>3. result' = Pending
    BY <1>1, <1>3 DEF Settled, FlagsSet, Receiving
  <2>4. pc'[0] \notin {"convert", "check", "cor", "out", "valid", "sums", "done"}
    BY <1>3, <1>4 DEF Receiving
  <2> QED
    BY <1>4, <2>1, <2>2, <2>3, <2>4 DEF FlagsSet, Server
<1> QED
  BY <1>6, <1>7, <1>8, <1>9 DEF Settled

\* Server 0 takes the list over, and marks the keys it knows.
LEMMA RecvPksKeepsSettled ==
  ASSUME Reception, Exchange, Exchange', Settled, RecvPks PROVE Settled'
<1>1. /\ pc[0] = "recv" /\ pc' = [pc EXCEPT ![0] = "convert"]
      /\ UNCHANGED <<campaign, share_map, shares_p, acc, result>>
      /\ pk_list' = [pk_list EXCEPT ![0] = Incoming(0)]
      /\ valid' = [valid EXCEPT ![0] =
                   [n \in DOMAIN Incoming(0) |-> Incoming(0)[n] \in DOMAIN share_map[0]]]
  BY DEF RecvPks
<1>2. pc[1] \in PreCheck
  BY <1>1 DEF Exchange, Together, PreCheck, Receiving
<1>3. pc'[1] = pc[1] /\ pc'[0] = "convert" /\ pk_list'[1] = pk_list[1] /\ pk_list'[0] = Incoming(0)
  BY <1>1 DEF Exchange, Server
<1>4. pk_list'[0] = pk_list'[1] /\ pc'[1] \notin Receiving
  BY <1>3 DEF Exchange, Together, Receiving
<1>5. \A s \in Server : pc'[s] \in PreCheck
  BY <1>2, <1>3 DEF PreCheck, Server
<1>6. OnWire'
  BY <1>5, EarlyOnWire
<1>7. EntriesOpen'
  BY <1>5 DEF EntriesOpen, Server
<1>8. KeysListed'
  BY <1>1, <1>3, <1>4 DEF Settled, KeysListed, Total_inputs, msg
<1>9. FlagsSet'
  <2>1. /\ valid' = [s \in Server |-> valid'[s]] /\ acc' = [s \in Server |-> acc'[s]]
        /\ valid'[0] = [n \in DOMAIN Incoming(0) |-> Incoming(0)[n] \in DOMAIN share_map[0]]
        /\ valid'[1] = valid[1]
    <3>1. PICK flags : flags = [n \in DOMAIN Incoming(0) |-> Incoming(0)[n] \in DOMAIN share_map[0]]
      OBVIOUS
    <3>2. /\ valid' = [valid EXCEPT ![0] = flags] /\ UNCHANGED acc
          /\ valid = [s \in Server |-> valid[s]] /\ acc = [s \in Server |-> acc[s]]
      BY <1>1, <3>1 DEF Settled, FlagsSet
    <3>3. /\ valid' = [s \in Server |-> valid'[s]] /\ acc' = [s \in Server |-> acc'[s]]
          /\ valid'[0] = flags /\ valid'[1] = valid[1]
      <4>1. 0 \in Server /\ 1 \in Server /\ 1 # 0
        BY DEF Server
      <4>2. PICK f : f = valid
        OBVIOUS
      <4>3. PICK g : g = valid'
        OBVIOUS
      <4>4. f = [s \in Server |-> f[s]] /\ g = [f EXCEPT ![0] = flags]
        BY <3>2, <4>2, <4>3
      <4>5. g = [s \in Server |-> g[s]] /\ g[0] = flags /\ g[1] = f[1]
        BY <4>1, <4>4, OnePart
      <4> QED
        BY <3>2, <4>2, <4>3, <4>5
    <3> QED
      BY <3>1, <3>3
  <2>2. Incoming(0) = pk_list'[1]
    BY <1>3, <1>4
  <2>3. valid'[0] = [n \in DOMAIN pk_list'[1] |-> pk_list'[1][n] \in DOMAIN share_map'[0]]
    BY <1>1, <2>1, <2>2
  <2>4. valid'[0] = [n \in DOMAIN pk_list'[1] |-> 0 = 0 /\ pk_list'[1][n] \in DOMAIN share_map'[0]]
    BY <2>3
  <2>5. pc'[1] = "convert" /\ valid[1] = [n \in DOMAIN pk_list[1] |-> 1 = 0 /\ pk_list[1][n] \in DOMAIN share_map[0]]
    BY <1>2, <1>3, <1>4 DEF Settled, FlagsSet, Server, PreCheck
  <2>6. valid'[1] = [n \in DOMAIN pk_list'[1] |-> 1 = 0 /\ pk_list'[1][n] \in DOMAIN share_map'[0]]
    BY <1>1, <1>3, <2>1, <2>5
  <2>7. result' = Pending
    BY <1>1 DEF Settled, FlagsSet
  <2> QED
    BY <1>3, <2>1, <2>4, <2>5, <2>6, <2>7 DEF FlagsSet, Server
<1> QED
  BY <1>6, <1>7, <1>8, <1>9 DEF Settled

\* The shares are converted.
LEMMA ConvertKeepsSettled ==
  ASSUME Reception, Exchange, Exchange', FirstCome, ModulusFits, Settled, Convert
  PROVE  Settled'
<1>1. /\ pc[0] = "convert" /\ pc[1] = "convert"
      /\ pc'[0] = "check" /\ pc'[1] = "check"
      /\ UNCHANGED <<campaign, share_map, pk_list, valid, acc, result>>
  BY DEF Convert, Server
<1>2. OnWire'
  BY <1>1, EarlyOnWire DEF Server
<1>3. EntriesOpen'
  BY ConvertOpens DEF Settled
<1>4. KeysListed'
  BY <1>1 DEF Settled, KeysListed, Receiving, Total_inputs, msg
<1>5. FlagsSet'
  BY <1>1 DEF Settled, FlagsSet, Server
<1> QED
  BY <1>2, <1>3, <1>4, <1>5 DEF Settled

\* From there on the maps, the lists and the shares stand; what is left is to
\* see what a step adds to the streams, the flags and the sums.
LEMMA LaterKeepsSettled ==
  ASSUME Exchange, Exchange', Settled, pc[1] \notin PreCheck, pc'[1] \notin PreCheck,
         UNCHANGED <<campaign, share_map, pk_list, shares_p>>, OnWire',
         valid' = [s \in Server |-> valid'[s]], acc' = [s \in Server |-> acc'[s]],
         \A s \in Server :
            \/ pc'[s] = pc[s] /\ valid'[s] = valid[s]
            \/ pc'[s] \in {"cor", "out"} /\ pc[s] \in {"check", "cor"} /\ valid'[s] = valid[s]
            \/ pc'[s] \in {"valid", "sums", "done"} /\ valid'[s] = Flags
            \/ pc'[s] = "dead",
         pc'[0] \in {"sums", "done"} => acc'[0] = Accumulate(0, Flags),
         pc'[0] # "done" => result' = Pending
  PROVE  Settled'
<1>1. /\ Flags' = Flags /\ Accumulate(0, Flags)' = Accumulate(0, Flags)
      /\ pc[1] \notin Receiving /\ pc'[1] \notin Receiving
  BY SameHeld DEF PreCheck
<1>2. KeysListed' /\ EntriesOpen'
  BY <1>1, SameHeld DEF Settled
<1>3. FlagsSet'
  <2>1. ASSUME NEW s \in Server, pc'[s] \in {"convert", "check", "cor", "out"}
        PROVE  valid'[s] = [n \in DOMAIN pk_list'[1] |-> s = 0 /\ pk_list'[1][n] \in DOMAIN share_map'[0]]
    <3>1. pc[s] \in {"convert", "check", "cor", "out"} /\ valid'[s] = valid[s]
      BY <2>1
    <3>2. valid[s] = [n \in DOMAIN pk_list[1] |-> s = 0 /\ pk_list[1][n] \in DOMAIN share_map[0]]
      BY <3>1 DEF Settled, FlagsSet
    <3> QED
      BY <3>1, <3>2
  <2>2. ASSUME NEW s \in Server, pc'[s] \in {"valid", "sums", "done"}
        PROVE  valid'[s] = Flags
    BY <2>2 DEF Settled, FlagsSet
  <2> QED
    BY <1>1, <2>1, <2>2 DEF FlagsSet
<1> QED
  BY <1>2, <1>3 DEF Settled

\* The first round of a check.
LEMMA SendCorKeepsSettled ==
  ASSUME Exchange, Exchange', Settled, NEW s \in Server, SendCor(s) PROVE Settled'
<1>1. /\ pc[s] = "check" /\ pc' = [pc EXCEPT ![s] = "cor"]
      /\ to' = [to EXCEPT ![1 - s] = Append(@, Message("cor", Held(s)))]
      /\ UNCHANGED <<campaign, share_map, pk_list, shares_p, valid, acc, result>>
  BY DEF SendCor
<1>2. /\ pc'[s] = "cor" /\ \A t \in Server : t # s => pc'[t] = pc[t]
      /\ pc[1] \notin PreCheck /\ pc'[1] \notin PreCheck /\ 1 - s \in Server
      /\ pc'[0] \in {"sums", "done"} => pc[0] \in {"sums", "done"}
      /\ pc'[0] # "done" => pc[0] # "done"
  <2>1. pc \in [Server -> Places] /\ (pc[0] \in PreCheck <=> pc[1] \in PreCheck)
    BY DEF Exchange, Together
  <2>2. pc'[s] = "cor" /\ \A t \in Server : t # s => pc'[t] = pc[t]
    BY <1>1, <2>1
  <2>3. pc[s] = "check" /\ "check" \notin PreCheck /\ "cor" \notin PreCheck
    BY <1>1 DEF PreCheck, Receiving
  <2>4. CASE s = 0
    BY <2>1, <2>2, <2>3, <2>4 DEF Server
  <2>5. CASE s = 1
    BY <2>1, <2>2, <2>3, <2>5 DEF Server
  <2> QED
    BY <2>4, <2>5 DEF Server
<1>3. PICK t \in Server : t = 1 - s
  BY <1>2
<1>4. OnWire'
  <2>1. PICK e : e = Message("cor", Held(s))
    OBVIOUS
  <2>2. e.kind = "cor"
    BY <2>1 DEF Message
  <2>3. to' = [to EXCEPT ![t] = Append(to[t], e)] /\ to = [r \in Server |-> to[r]]
    BY <1>1, <1>3, <2>1 DEF Exchange
  <2>4. to'[t] = Append(to[t], e) /\ \A r \in Server : r # t => to'[r] = to[r]
    BY <2>3, OnePart
  <2> QED
    BY <1>1, <2>2, <2>4, SendKeepsWire DEF Settled
<1> QED
  BY <1>1, <1>2, <1>4, LaterKeepsSettled DEF Settled, FlagsSet

\* A check of nothing has nothing to flag.
LEMMA NoCircuitKeepsSettled ==
  ASSUME Exchange, Exchange', Settled, NEW s \in Server, NoCircuit(s) PROVE Settled'
<1>1. /\ pc[s] = "check" /\ UNCHANGED <<campaign, share_map, to, pk_list, shares_p, valid, acc, result>>
      /\ NoEntries(s)
  BY DEF NoCircuit
<1>2. PICK place \in {"valid", "dead"} : pc' = [pc EXCEPT ![s] = place]
  BY DEF NoCircuit
<1>3. /\ pc'[s] = place /\ \A t \in Server : t # s => pc'[t] = pc[t]
      /\ pc[1] \notin PreCheck /\ pc'[1] \notin PreCheck
      /\ pc'[0] \in {"sums", "done"} => pc[0] \in {"sums", "done"}
      /\ pc'[0] # "done" => pc[0] # "done"
  BY <1>1, <1>2 DEF Exchange, Together, PreCheck, Receiving, Server
<1>4. OnWire'
  BY <1>1, WireStands DEF Settled
<1>5. valid'[s] = Flags
  <2>1. pk_list[1] = <<>>
    BY <1>1 DEF Exchange, Together, NoEntries, Receiving, Server
  <2>2. DOMAIN pk_list[1] = {}
    BY <2>1
  <2>3. valid[s] = [n \in DOMAIN pk_list[1] |-> s = 0 /\ pk_list[1][n] \in DOMAIN share_map[0]]
    BY <1>1 DEF Settled, FlagsSet
  <2>4. Flags = [n \in DOMAIN pk_list[1] |-> Good(n)]
    BY DEF Flags
  <2> QED
    BY <1>1, <2>2, <2>3, <2>4
<1> QED
  BY <1>1, <1>3, <1>4, <1>5, LaterKeepsSettled DEF Settled, FlagsSet

\* The second round.
LEMMA RecvCorKeepsSettled ==
  ASSUME Exchange, Exchange', Settled, NEW s \in Server, RecvCor(s) PROVE Settled'
<1>1. /\ pc[s] = "cor" /\ pc' = [pc EXCEPT ![s] = "out"]
      /\ to' = [to EXCEPT ![1 - s] = Append(@, Message("out", Held(s)))]
      /\ UNCHANGED <<campaign, share_map, pk_list, shares_p, valid, acc, result>>
  BY DEF RecvCor
<1>2. /\ pc'[s] = "out" /\ \A t \in Server : t # s => pc'[t] = pc[t]
      /\ pc[1] \notin PreCheck /\ pc'[1] \notin PreCheck
      /\ pc'[0] \in {"sums", "done"} => pc[0] \in {"sums", "done"}
      /\ pc'[0] # "done" => pc[0] # "done"
  BY <1>1 DEF Exchange, Together, PreCheck, Receiving, Server
<1>3. PICK t \in Server : t = 1 - s /\ 1 - t = s
  BY DEF Server
<1>4. OnWire'
  <2>1. PICK e : e = Message("out", Held(s))
    OBVIOUS
  <2>2. e.kind = "out" /\ e.val = Held(1 - t)
    BY <1>3, <2>1 DEF Message
  <2>3. to' = [to EXCEPT ![t] = Append(to[t], e)] /\ to = [r \in Server |-> to[r]]
    BY <1>1, <1>3, <2>1 DEF Exchange
  <2>4. to'[t] = Append(to[t], e) /\ \A r \in Server : r # t => to'[r] = to[r]
    BY <2>3, OnePart
  <2> QED
    BY <1>1, <2>2, <2>4, SendKeepsWire DEF Settled
<1> QED
  BY <1>1, <1>2, <1>4, LaterKeepsSettled DEF Settled, FlagsSet

\* The second round is read: both servers come to the same flags.
LEMMA RecvOutKeepsSettled ==
  ASSUME Reception, Exchange, Exchange', Settled, NEW s \in Server, RecvOut(s) PROVE Settled'
<1>1. /\ pc[s] = "out" /\ pc' = [pc EXCEPT ![s] = "valid"] /\ CanRead(s)
      /\ valid' = [valid EXCEPT ![s] = [n \in DOMAIN pk_list[s] |->
                   /\ s = 0 => valid[0][n]
                   /\ Passes(Held(s)[n], Incoming(s)[n])]]
      /\ UNCHANGED <<campaign, share_map, to, pk_list, shares_p, acc, result>>
  BY DEF RecvOut
<1>2. /\ pc'[s] = "valid" /\ \A t \in Server : t # s => pc'[t] = pc[t]
      /\ pc[1] \notin PreCheck /\ pc'[1] \notin PreCheck /\ pc[0] \notin Receiving
      /\ pc'[0] \in {"sums", "done"} => pc[0] \in {"sums", "done"}
      /\ pc'[0] # "done" => pc[0] # "done"
      /\ pk_list[s] = pk_list[1] /\ ~NoEntries(1)
  BY <1>1 DEF Exchange, Together, PreCheck, Receiving, NoEntries, Server
<1>3. OnWire'
  BY <1>1, WireStands DEF Settled
<1>4. Incoming(s) = Held(1 - s)
  <2>1. PICK m \in 1 .. Len(to[s]) : m = rcvd[s] + 1 /\ m = (IF s = 0 THEN 3 ELSE 2)
    <3>1. rcvd[s] = (IF s = 0 THEN 2 ELSE 1) /\ rcvd[s] < Len(to[s]) /\ Len(to[s]) \in Nat
      BY <1>1 DEF Exchange, ReadBy0, ReadBy1, CanRead, Server
    <3>2. rcvd[s] + 1 = IF s = 0 THEN 3 ELSE 2
      BY <3>1
    <3> QED
      BY <3>1, <3>2
  <2>2. to[s][m].kind = "out"
    <3>1. to[s][m].kind = Kind(s, m)
      BY DEF Exchange
    <3>2. Kind(s, m) = "out"
      BY <1>2, <2>1 DEF Kind
    <3> QED
      BY <3>1, <3>2
  <2>3. to[s][m].val = Held(1 - s)
    BY <2>2 DEF Settled, OnWire
  <2> QED
    BY <2>1, <2>3 DEF Incoming
<1>5. ASSUME NEW n \in DOMAIN pk_list[1]
      PROVE  (/\ s = 0 => valid[0][n]
              /\ Passes(Held(s)[n], Incoming(s)[n])) <=> Good(n)
  <2>1. Passes(Held(s)[n], Incoming(s)[n]) <=> Good(n)
    <3>1. CASE s = 0
      <4>1. Incoming(s) = Held(1)
        BY <1>4, <3>1
      <4> QED
        BY <3>1, <4>1 DEF Good
    <3>2. CASE s = 1
      <4>1. Incoming(s) = Held(0)
        BY <1>4, <3>2
      <4> QED
        BY <1>2, <3>2, <4>1, GoodIsProved DEF Settled
    <3> QED
      BY <3>1, <3>2 DEF Server
  <2>2. ASSUME s = 0, Good(n) PROVE valid[0][n]
    <3>1. Entry(0, n) > 0
      BY <1>2, <2>2, GoodIsProved DEF Settled, Shared
    <3>2. pk_list[1][n] \in DOMAIN share_map[0]
      BY <1>2, <3>1, ListedEntries DEF Settled
    <3>3. valid[0] = [j \in DOMAIN pk_list[1] |-> s = 0 /\ pk_list[1][j] \in DOMAIN share_map[0]]
      BY <1>1, <2>2 DEF Settled, FlagsSet, Server
    <3> QED
      BY <2>2, <3>2, <3>3
  <2> QED
    BY <2>1, <2>2
<1>6. PICK flags : flags = [n \in DOMAIN pk_list[1] |->
                             /\ s = 0 => valid[0][n]
                             /\ Passes(Held(s)[n], Incoming(s)[n])]
  OBVIOUS
<1>7. flags = Flags
  <2>1. \A n \in DOMAIN pk_list[1] : (/\ s = 0 => valid[0][n]
                                     /\ Passes(Held(s)[n], Incoming(s)[n])) \in BOOLEAN
    OBVIOUS
  <2>2. flags \in [DOMAIN pk_list[1] -> BOOLEAN]
    BY <1>6, <2>1
  <2>3. ASSUME NEW n \in DOMAIN pk_list[1] PROVE flags[n] <=> Flags[n]
    <3>1. flags[n] = (/\ s = 0 => valid[0][n]
                      /\ Passes(Held(s)[n], Incoming(s)[n]))
      BY <1>6
    <3>2. flags[n] <=> Good(n)
      BY <1>5, <3>1
    <3> QED
      BY <3>2, FlagsMark
  <2> QED
    BY <2>2, <2>3, FlagsMark, SameFlags
<1>8. valid' = [valid EXCEPT ![s] = flags]
  BY <1>1, <1>2, <1>6
<1>9. /\ valid' = [t \in Server |-> valid'[t]] /\ acc' = [t \in Server |-> acc'[t]]
      /\ valid'[s] = Flags /\ \A t \in Server : t # s => valid'[t] = valid[t]
  BY <1>1, <1>7, <1>8 DEF Settled, FlagsSet
<1>10. /\ pc'[0] \in {"sums", "done"} => acc'[0] = Accumulate(0, Flags)
       /\ pc'[0] # "done" => result' = Pending
  BY <1>1, <1>2 DEF Settled, FlagsSet
<1>11. \A t \in Server :
            \/ pc'[t] = pc[t] /\ valid'[t] = valid[t]
            \/ pc'[t] \in {"valid", "sums", "done"} /\ valid'[t] = Flags
  BY <1>2, <1>9
<1> QED
  BY <1>1, <1>2, <1>3, <1>9, <1>10, <1>11, LaterKeepsSettled

\* Server 0 sends the flags, and adds up its shares of what they mark.
LEMMA SendValidKeepsSettled ==
  ASSUME Exchange, Exchange', Settled, SendValid PROVE Settled'
<1>1. /\ pc[0] = "valid" /\ pc' = [pc EXCEPT ![0] = "sums"]
      /\ to' = IF NoEntries(0) THEN to ELSE [to EXCEPT ![1] = Append(@, Message("valid", valid[0]))]
      /\ acc' = [acc EXCEPT ![0] = Accumulate(0, valid[0])]
      /\ UNCHANGED <<campaign, share_map, pk_list, shares_p, valid, result>>
  BY DEF SendValid
<1>2. /\ pc'[0] = "sums" /\ pc'[1] = pc[1]
      /\ pc[1] \notin PreCheck /\ pc'[1] \notin PreCheck
  BY <1>1 DEF Exchange, Together, PreCheck, Receiving, Server
<1>3. PICK flags : flags = Flags
  OBVIOUS
<1>4. valid[0] = flags
  BY <1>1, <1>3 DEF Settled, FlagsSet, Server
<1>5. OnWire'
  <2>1. CASE NoEntries(0)
    BY <1>1, <2>1, WireStands DEF Settled
  <2>2. CASE ~NoEntries(0)
    <3>1. PICK e : e = Message("valid", flags)
      OBVIOUS
    <3>2. e.kind = "valid" /\ e.val = Flags /\ 1 \in Server
      BY <1>3, <3>1 DEF Message, Server
    <3>3. to' = [to EXCEPT ![1] = Append(to[1], e)] /\ to = [r \in Server |-> to[r]]
      BY <1>1, <1>4, <2>2, <3>1 DEF Exchange
    <3>4. to'[1] = Append(to[1], e) /\ \A r \in Server : r # 1 => to'[r] = to[r]
      BY <3>2, <3>3, OnePart
    <3> QED
      BY <1>1, <3>2, <3>4, SendKeepsWire DEF Settled
  <2> QED
    BY <2>1, <2>2
<1>6. /\ valid' = [t \in Server |-> valid'[t]] /\ valid'[0] = Flags /\ valid'[1] = valid[1]
  BY <1>1, <1>3, <1>4 DEF Settled, FlagsSet
<1>7. /\ acc' = [t \in Server |-> acc'[t]]
      /\ acc'[0] = Accumulate(0, Flags)
  <2>1. PICK sum : sum = Accumulate(0, Flags)
    OBVIOUS
  <2>2. acc' = [acc EXCEPT ![0] = sum] /\ acc = [t \in Server |-> acc[t]]
    BY <1>1, <1>3, <1>4, <2>1 DEF Settled, FlagsSet
  <2>3. acc' = [t \in Server |-> acc'[t]] /\ acc'[0] = sum
    <3>1. PICK f : f = acc
      OBVIOUS
    <3>2. PICK g : g = acc'
      OBVIOUS
    <3>3. f = [t \in Server |-> f[t]] /\ g = [f EXCEPT ![0] = sum] /\ 0 \in Server
      BY <2>2, <3>1, <3>2 DEF Server
    <3>4. g[0] = sum /\ g = [t \in Server |-> g[t]]
      BY <3>3, OnePart
    <3> QED
      BY <3>1, <3>2, <3>4
  <2> QED
    BY <2>1, <2>3
<1>8. result' = Pending
  BY <1>1 DEF Settled, FlagsSet
<1>9. \A t \in Server :
            \/ pc'[t] = pc[t] /\ valid'[t] = valid[t]
            \/ pc'[t] \in {"valid", "sums", "done"} /\ valid'[t] = Flags
  BY <1>2, <1>6 DEF Server
<1> QED
  BY <1>1, <1>2, <1>5, <1>6, <1>7, <1>8, <1>9, LaterKeepsSettled

\* Server 1 takes the flags, which are its own, and sends its sums.
LEMMA RecvValidKeepsSettled ==
  ASSUME Exchange, Exchange', Settled, RecvValid PROVE Settled'
<1>1. /\ pc[1] = "valid"
      /\ IF NoEntries(1) THEN UNCHANGED valid
         ELSE CanRead(1) /\ valid' = [valid EXCEPT ![1] = [n \in DOMAIN @ |-> @[n] /\ Incoming(1)[n]]]
      /\ acc' = [acc EXCEPT ![1] = Accumulate(1, valid'[1])]
      /\ to' = [to EXCEPT ![0] = Append(@, Message("sums", acc'[1]))]
      /\ UNCHANGED <<campaign, share_map, pk_list, shares_p, result>>
  BY DEF RecvValid
<1>2. PICK place \in {"done", "dead"} : pc' = [pc EXCEPT ![1] = place]
  BY DEF RecvValid
<1>3. /\ pc'[1] = place /\ pc'[0] = pc[0]
      /\ pc[1] \notin PreCheck /\ pc'[1] \notin PreCheck
  BY <1>1, <1>2 DEF Exchange, PreCheck, Receiving, Server
<1>4. PICK flags : flags = Flags
  OBVIOUS
<1>5. valid[1] = flags /\ valid = [t \in Server |-> valid[t]]
  BY <1>1, <1>4 DEF Settled, FlagsSet, Server
<1>6. valid'[1] = flags /\ valid'[0] = valid[0] /\ valid' = [t \in Server |-> valid'[t]]
  <2>1. CASE NoEntries(1)
    BY <1>1, <1>5, <2>1
  <2>2. CASE ~NoEntries(1)
    <3>1. Incoming(1) = flags
      <4>1. rcvd[1] = 2 /\ rcvd[1] < Len(to[1]) /\ Len(to[1]) \in Nat
        BY <1>1, <2>2 DEF Exchange, ReadBy1, CanRead, Server
      <4>2. 3 \in 1 .. Len(to[1]) /\ rcvd[1] + 1 = 3
        BY <4>1
      <4>3. to[1][3].kind = "valid"
        <5>1. to[1][3].kind = Kind(1, 3)
          BY <4>2 DEF Exchange, Server
        <5> QED
          BY <5>1 DEF Kind
      <4>4. to[1][3].val = flags
        BY <1>4, <4>2, <4>3 DEF Settled, OnWire, Server
      <4> QED
        BY <4>2, <4>4 DEF Incoming
    <3>2. [n \in DOMAIN flags |-> flags[n] /\ flags[n]] = flags
      <4>1. flags \in [DOMAIN pk_list[1] -> BOOLEAN]
        BY <1>4, FlagsMark
      <4>2. \A n \in DOMAIN pk_list[1] : (flags[n] /\ flags[n]) = flags[n]
        BY <4>1
      <4> QED
        BY <4>1, <4>2
    <3>3. PICK both : both = [n \in DOMAIN flags |-> flags[n] /\ Incoming(1)[n]]
      OBVIOUS
    <3>4. both = flags
      BY <3>1, <3>2, <3>3
    <3>5. valid' = [valid EXCEPT ![1] = both]
      BY <1>1, <1>5, <2>2, <3>3
    <3> QED
      BY <1>5, <3>4, <3>5 DEF Server
  <2> QED
    BY <2>1, <2>2
<1>7. PICK sum : sum = Accumulate(1, Flags)
  OBVIOUS
<1>8. acc' = [acc EXCEPT ![1] = sum] /\ acc = [t \in Server |-> acc[t]]
  BY <1>1, <1>4, <1>6, <1>7 DEF Settled, FlagsSet
<1>9. acc'[1] = sum /\ acc'[0] = acc[0] /\ acc' = [t \in Server |-> acc'[t]]
  <2>1. PICK f : f = acc
    OBVIOUS
  <2>2. PICK g : g = acc'
    OBVIOUS
  <2>3. f = [t \in Server |-> f[t]] /\ g = [f EXCEPT ![1] = sum]
    BY <1>8, <2>1, <2>2
  <2>4. 0 \in Server /\ 1 \in Server /\ 0 # 1
    BY DEF Server
  <2>5. g[1] = sum /\ g[0] = f[0] /\ g = [t \in Server |-> g[t]]
    BY <2>3, <2>4, OnePart
  <2> QED
    BY <2>1, <2>2, <2>5
<1>10. OnWire'
  <2>1. PICK e : e = Message("sums", sum)
    OBVIOUS
  <2>2. e.kind = "sums" /\ e.val = Accumulate(1, Flags) /\ 0 \in Server
    BY <1>7, <2>1 DEF Message, Server
  <2>3. to' = [to EXCEPT ![0] = Append(to[0], e)] /\ to = [r \in Server |-> to[r]]
    BY <1>1, <1>9, <2>1 DEF Exchange
  <2>4. to'[0] = Append(to[0], e) /\ \A r \in Server : r # 0 => to'[r] = to[r]
    BY <2>2, <2>3, OnePart
  <2> QED
    BY <1>1, <2>2, <2>4, SendKeepsWire DEF Settled
<1>11. \A t \in Server :
            \/ pc'[t] = pc[t] /\ valid'[t] = valid[t]
            \/ pc'[t] \in {"valid", "sums", "done"} /\ valid'[t] = Flags
            \/ pc'[t] = "dead"
  BY <1>3, <1>4, <1>6 DEF Server
<1>12. /\ pc'[0] \in {"sums", "done"} => acc'[0] = Accumulate(0, Flags)
       /\ pc'[0] # "done" => result' = Pending
  BY <1>1, <1>3, <1>9 DEF Settled, FlagsSet
<1> QED
  BY <1>1, <1>3, <1>6, <1>9, <1>10, <1>11, <1>12, LaterKeepsSettled

\* Server 0 reports.
LEMMA RecvSumsKeepsSettled ==
  ASSUME Exchange, Exchange', Settled, RecvSums PROVE Settled'
<1>1. /\ pc[0] = "sums" /\ pc' = [pc EXCEPT ![0] = "done"]
      /\ UNCHANGED <<campaign, share_map, to, pk_list, shares_p, valid, acc>>
  BY DEF RecvSums
<1>2. /\ pc'[0] = "done" /\ pc'[1] = pc[1]
      /\ pc[1] \notin PreCheck /\ pc'[1] \notin PreCheck
  BY <1>1 DEF Exchange, Together, PreCheck, Receiving, Server
<1>3. OnWire'
  BY <1>1, WireStands DEF Settled
<1>4. /\ valid' = [t \in Server |-> valid'[t]] /\ acc' = [t \in Server |-> acc'[t]]
      /\ valid'[0] = Flags /\ valid'[1] = valid[1] /\ acc'[0] = Accumulate(0, Flags)
  BY <1>1 DEF Settled, FlagsSet, Server
<1>5. \A t \in Server :
            \/ pc'[t] = pc[t] /\ valid'[t] = valid[t]
            \/ pc'[t] \in {"valid", "sums", "done"} /\ valid'[t] = Flags
  BY <1>2, <1>4 DEF Server
<1> QED
  BY <1>1, <1>2, <1>3, <1>4, <1>5, LaterKeepsSettled

\* Settled is inductive, once the loops and the streams are in order.
LEMMA StepKeepsSettled ==
  ASSUME Reception, Exchange, Exchange', FirstCome, ModulusFits, Settled, [Next]_vars
  PROVE  Settled'
<1>1. CASE UNCHANGED vars
  BY <1>1, IdleKeepsSettled DEF vars
<1>2. CASE ClientStep
  BY <1>2, IdleKeepsSettled DEF ClientStep, Close, SendNext
<1>3. ASSUME NEW s \in Server, Receive(s) \/ Validate(s) PROVE Settled'
  BY <1>3, RecvKeepsSettled, SendCorKeepsSettled, NoCircuitKeepsSettled, RecvCorKeepsSettled,
     RecvOutKeepsSettled DEF Receive, Validate
<1>4. CASE Server0Step
  BY <1>3, <1>4, RecvPksKeepsSettled, SendValidKeepsSettled, RecvSumsKeepsSettled
     DEF Server0Step, Server
<1>5. CASE Server1Step
  BY <1>3, <1>5, SendPksKeepsSettled, RecvValidKeepsSettled DEF Server1Step, Server
<1>6. CASE Convert
  BY <1>6, ConvertKeepsSettled
<1> QED
  BY <1>1, <1>2, <1>4, <1>5, <1>6 DEF Next

-----------------------------------------------------------------------------
(* The refinement *)

\* The submissions of the flagged entries, by entry.
Flagged(T, g) ==
    /\ T = {n \in DOMAIN pk_list[1] : Flags[n]}
    /\ g = [n \in T |-> Entry(1, n)]

\* They are the submissions both servers hold with a proof of what they hold,
\* each in one entry; and they are no more than the batch has.
LEMMA FlaggedAreAgreed ==
  ASSUME Reception, Exchange, Settled, pc[1] \notin PreCheck, NEW T, NEW g, Flagged(T, g)
  PROVE  /\ Agreed = {g[n] : n \in T} /\ \A m, n \in T : g[m] = g[n] => m = n
         /\ \A n \in T : Shared(n) /\ g[n] \in Agreed
         /\ IsFiniteSet(T) /\ IsFiniteSet(Agreed) /\ Cardinality(T) = Cardinality(Agreed)
         /\ Cardinality(Agreed) \in 0 .. Modulus - 1
<1>1. /\ pc[0] \notin Receiving /\ pc[1] \notin Receiving /\ pk_list[0] = pk_list[1]
      /\ campaign \in Campaigns
      /\ KeysListed /\ EntriesOpen
  BY DEF Exchange, Reception, Together, PreCheck, Settled
<1>2. /\ Total_inputs \in Nat /\ DOMAIN campaign.subs = 1 .. Total_inputs /\ Total_inputs < Modulus
  BY <1>1, BatchSize, FieldsAssumption DEF Total_inputs, msg
<1>3. \A n \in DOMAIN pk_list[1] : n \in T <=> Shared(n) /\ Proved(Entry(1, n))
  BY <1>1, FlagsMark, GoodIsProved DEF Flagged
<1>4. \A n \in T : n \in DOMAIN pk_list[1] /\ g[n] = Entry(1, n)
  BY DEF Flagged
<1>5. ASSUME NEW n \in T PROVE Shared(n) /\ g[n] \in Agreed
  <2>1. PICK k : k = Entry(1, n)
    OBVIOUS
  <2>2. /\ Shared(n) /\ Proved(k) /\ g[n] = k
    BY <1>3, <1>4, <2>1
  <2>3. PICK pk : pk = pk_list[1][n]
    OBVIOUS
  <2>4. /\ pk \in DOMAIN share_map[1] /\ k = share_map[1][pk] /\ k \in DOMAIN campaign.subs
        /\ pk \in DOMAIN share_map[0] /\ k = share_map[0][pk]
    BY <1>1, <1>4, <2>1, <2>2, <2>3, ListedEntries DEF Shared
  <2> QED
    BY <2>2, <2>4 DEF Agreed
<1>6. ASSUME NEW k \in Agreed PROVE \E n \in T : g[n] = k
  <2>1. PICK pk \in DOMAIN share_map[0] \cap DOMAIN share_map[1] :
           share_map[0][pk] = k /\ share_map[1][pk] = k
    BY <1>6 DEF Agreed
  <2>2. PICK n \in DOMAIN pk_list[1] : pk_list[1][n] = pk
    BY <1>1, <2>1 DEF KeysListed
  <2>3. Entry(0, n) = k /\ Entry(1, n) = k /\ k > 0
    BY <1>1, <2>1, <2>2, ListedEntries
  <2>4. Proved(k)
    BY <1>6 DEF Agreed
  <2>5. n \in T
    BY <1>3, <2>3, <2>4 DEF Shared
  <2> QED
    BY <1>4, <2>3, <2>5
<1>7. ASSUME NEW m \in T, NEW n \in T, g[m] = g[n] PROVE m = n
  <2>1. PICK k : k = g[m]
    OBVIOUS
  <2>2. /\ k = share_map[1][pk_list[1][m]] /\ k = share_map[1][pk_list[1][n]]
        /\ pk_list[1][m] \in DOMAIN share_map[1] /\ pk_list[1][n] \in DOMAIN share_map[1]
    BY <1>1, <1>4, <1>7, <2>1, ListedEntries
  <2>3. campaign.subs[k].pk[1] = pk_list[1][m] /\ campaign.subs[k].pk[1] = pk_list[1][n]
    BY <2>2 DEF Reception, StoredWhole, Server
  <2> QED
    BY <1>1, <1>4, <2>3 DEF KeysListed
<1>8. PICK K : K = Agreed
  OBVIOUS
<1>9. K \in SUBSET (1 .. Total_inputs)
  BY <1>2, <1>8 DEF Agreed
<1>10. IsFiniteSet(1 .. Total_inputs) /\ Cardinality(1 .. Total_inputs) = Total_inputs
  <2>1. IsFiniteSet(1 .. Total_inputs)
        /\ Cardinality(1 .. Total_inputs) = IF 1 > Total_inputs THEN 0 ELSE Total_inputs - 1 + 1
    BY <1>2, FS_Interval
  <2> QED
    BY <1>2, <2>1
<1>11. IsFiniteSet(K) /\ Cardinality(K) <= Total_inputs /\ Cardinality(K) \in Nat
  BY <1>9, <1>10, FS_Subset, FS_CardinalityType
<1>12. IsFiniteSet(T)
  <2>1. PICK D : D = DOMAIN pk_list[1]
    OBVIOUS
  <2>2. IsFiniteSet(D) /\ T \in SUBSET D
    BY <1>1, <1>4, <2>1 DEF KeysListed
  <2> QED
    BY <2>2, FS_Subset
<1>13. g \in Bijection(T, K)
  <2>1. g \in [T -> K]
    BY <1>5, <1>8 DEF Flagged
  <2>2. \A k \in K : \E n \in T : g[n] = k
    BY <1>6, <1>8
  <2> QED
    BY <1>7, <2>1, <2>2 DEF Bijection, Injection, Surjection, IsInjective
<1>14. Cardinality(T) = Cardinality(K)
  BY <1>12, <1>13, FS_Bijection DEF ExistsBijection
<1>15. Agreed = {g[n] : n \in T}
  BY <1>5, <1>6
<1>16. Cardinality(Agreed) \in 0 .. Modulus - 1
  BY <1>2, <1>8, <1>11, ModulusAssumption
<1> QED
  BY <1>5, <1>7, <1>8, <1>11, <1>12, <1>14, <1>15, <1>16

\* A sum of accumulate is of the flagged entries.
LEMMA AccumulateAny ==
  ASSUME NEW s, NEW T, T = {n \in DOMAIN pk_list[1] : Flags[n]}, NEW f \in Fields
  PROVE  Accumulate(s, Flags)[f] = ShareSum(s, f, T) % Modulus
<1>1. DOMAIN Flags = DOMAIN pk_list[1]
  BY DEF Flags
<1>2. {n \in DOMAIN Flags : Flags[n]} = T
  BY <1>1
<1> QED
  BY <1>2 DEF Accumulate, ShareSum, MapThenSumSet, MapThenFoldSet

\* With no entry the sums are zero.
LEMMA AccumulateNothing ==
  ASSUME pk_list[1] = <<>>, NEW s
  PROVE  Accumulate(s, Flags) = Zeros
<1>1. DOMAIN pk_list[1] = {}
  OBVIOUS
<1>2. PICK T : T = {n \in DOMAIN pk_list[1] : Flags[n]}
  OBVIOUS
<1>3. T = {}
  BY <1>1, <1>2
<1>4. ASSUME NEW f \in Fields PROVE Accumulate(s, Flags)[f] = 0
  <2>1. PICK F : F = [n \in T |-> shares_p[s][n][f]]
    OBVIOUS
  <2>2. Summable(T, F)
    <3>1. IsFiniteSet(T)
      BY <1>3, FS_EmptySet
    <3>2. F \in [T -> Int]
      BY <1>3, <2>1
    <3> QED
      BY <3>1, <3>2 DEF Summable
  <2>3. PICK fold : ShareSum(s, f, T) = fold[T] /\ AnyOrder(T, F, fold)
    BY <2>1, <2>2, SharesAny
  <2>4. ShareSum(s, f, T) = 0
    BY <1>3, <2>3 DEF AnyOrder
  <2>5. 0 % Modulus = 0
    BY ModulusAssumption
  <2> QED
    BY <1>2, <2>4, <2>5, AccumulateAny
<1>5. Accumulate(s, Flags) = [f \in Fields |-> Accumulate(s, Flags)[f]]
  BY DEF Accumulate
<1> QED
  BY <1>4, <1>5 DEF Zeros

\* Columns of what is counted hold integers.
LEMMA RowIsInt ==
  ASSUME campaign \in Campaigns, NEW k \in Agreed, NEW a \in 1 .. Degree + 1
  PROVE  Row(k)[a] \in Int
<1>1. Degree \in Nat \ {0} /\ Modulus \in Nat \ {0}
  BY FieldsAre
<1>2. Clear(k) \in [Fields -> 0 .. Modulus - 1]
  BY AgreedFields
<1>3. CASE a = 1
  BY <1>3, RowTerms
<1>4. CASE a # 1
  <2>1. PICK v \in 0 .. Degree - 1 : v + 2 = a
    <3>1. a - 2 \in 0 .. Degree - 1 /\ (a - 2) + 2 = a
      BY <1>1, <1>4
    <3> QED
      BY <3>1
  <2>2. v \in Fields
    BY ColumnHolds
  <2>3. Clear(k)[v] \in 0 .. Modulus - 1
    BY <1>2, <2>2
  <2>4. Row(k)[v + 2] = Clear(k)[v]
    BY RowTerms
  <2> QED
    BY <1>1, <2>1, <2>3, <2>4
<1> QED
  BY <1>3, <1>4

\* The two servers' sums, put together, are sums of what the submissions hide.
LEMMA ServersSumUp ==
  ASSUME Reception, Exchange, Settled, pc[1] \notin PreCheck, NEW a0, NEW a1,
         a0 = Accumulate(0, Flags), a1 = Accumulate(1, Flags),
         NEW sums, sums = [f \in Fields |-> (a0[f] + a1[f]) % Modulus]
  PROVE  SumsOf(sums)
<1>1. PICK T : T = {n \in DOMAIN pk_list[1] : Flags[n]}
  OBVIOUS
<1>2. PICK g : g = [n \in T |-> Entry(1, n)]
  OBVIOUS
<1>3. /\ Agreed = {g[n] : n \in T} /\ \A m, n \in T : g[m] = g[n] => m = n
      /\ \A n \in T : Shared(n) /\ g[n] \in Agreed
      /\ IsFiniteSet(T) /\ IsFiniteSet(Agreed)
  BY <1>1, <1>2, FlaggedAreAgreed DEF Flagged
<1>4. campaign \in Campaigns /\ EntriesOpen
  BY DEF Reception, Settled
<1>5. PICK M \in Nat \ {0} : M = Modulus
  BY ModulusAssumption
<1>6. ASSUME NEW f \in Fields, NEW a \in 1 .. Degree + 1, NEW b \in 1 .. Degree + 1, Holds(f, a, b)
      PROVE  sums[f] = MomentSum(a, b, Agreed) % Modulus
  <2>1. PICK K : K = Agreed
    OBVIOUS
  <2>2. PICK f0 : f0 = [n \in T |-> shares_p[0][n][f]]
    OBVIOUS
  <2>3. PICK f1 : f1 = [n \in T |-> shares_p[1][n][f]]
    OBVIOUS
  <2>4. PICK c : c = [k \in K |-> Row(k)[a] * Row(k)[b]]
    OBVIOUS
  <2>5. Summable(K, c)
    <3>1. ASSUME NEW k \in K PROVE Row(k)[a] * Row(k)[b] \in Int
      <4>1. PICK x \in Int : x = Row(k)[a]
        BY <1>4, <2>1, RowIsInt
      <4>2. PICK y \in Int : y = Row(k)[b]
        BY <1>4, <2>1, RowIsInt
      <4>3. x * y \in Int
        OBVIOUS
      <4> QED
        BY <4>1, <4>2, <4>3
    <3>2. c \in [K -> Int]
      BY <2>4, <3>1
    <3> QED
      BY <1>3, <2>1, <3>2 DEF Summable
  <2>6. ASSUME NEW n \in T
        PROVE  f0[n] \in Int /\ f1[n] \in Int /\ Cong(f0[n] + f1[n], c[g[n]], M)
    <3>1. PICK k : k = g[n]
      OBVIOUS
    <3>2. k \in K /\ Shared(n) /\ n \in DOMAIN pk_list[1] /\ k = Entry(1, n)
      BY <1>1, <1>2, <1>3, <2>1, <3>1
    <3>3. PICK x : x = shares_p[0][n][f]
      OBVIOUS
    <3>4. PICK y : y = shares_p[1][n][f]
      OBVIOUS
    <3>5. x \in Int /\ y \in Int /\ (x + y) % M = Clear(k)[f]
      BY <1>4, <1>5, <3>2, <3>3, <3>4 DEF EntriesOpen
    <3>6. PICK z \in Int : z = x + y
      BY <3>5
    <3>7. PICK r \in Int : r = z % M
      <4>1. z % M \in 0 .. M - 1
        BY ModRange
      <4> QED
        BY <4>1
    <3>8. Cong(z, r, M)
      <4>1. Cong(r, z, M)
        BY <3>7, ModCong
      <4> QED
        BY <4>1, CongSym
    <3>9. PICK p \in Int : p = c[k]
      BY <2>5, <3>2 DEF Summable
    <3>10. Cong(r, p, M)
      <4>1. Cong(Clear(k)[f], Row(k)[a] * Row(k)[b], M)
        BY <1>5, <1>6, <2>1, <3>2 DEF Holds
      <4>2. p = Row(k)[a] * Row(k)[b]
        BY <2>4, <3>2, <3>9
      <4>3. r = Clear(k)[f]
        BY <3>5, <3>6, <3>7
      <4> QED
        BY <4>1, <4>2, <4>3
    <3>11. Cong(z, p, M)
      BY <3>8, <3>10, CongTrans
    <3> QED
      BY <2>2, <2>3, <3>1, <3>3, <3>4, <3>5, <3>6, <3>9, <3>11
  <2>7. Summable(T, f0) /\ Summable(T, f1)
    <3>1. f0 \in [T -> Int] /\ f1 \in [T -> Int]
      BY <2>2, <2>3, <2>6
    <3> QED
      BY <1>3, <3>1 DEF Summable
  <2>8. SharedOut(T, f0, f1, K, c, g, M)
    BY <1>3, <1>5, <2>1, <2>5, <2>6, <2>7 DEF SharedOut
  <2>9. PICK h0 : ShareSum(0, f, T) = h0[T] /\ AnyOrder(T, f0, h0)
    BY <2>2, <2>7, SharesAny
  <2>10. PICK h1 : ShareSum(1, f, T) = h1[T] /\ AnyOrder(T, f1, h1)
    BY <2>3, <2>7, SharesAny
  <2>11. PICK hc : MomentSum(a, b, K) = hc[K] /\ AnyOrder(K, c, hc)
    BY <2>4, <2>5, MomentAny
  <2>12. Cong(h0[T] + h1[T], hc[K], M)
    BY <2>8, <2>9, <2>10, <2>11, SharesSum
  <2>13. PICK x \in Int : x = h0[T]
    BY <2>9 DEF AnyOrder
  <2>14. PICK y \in Int : y = h1[T]
    BY <2>10 DEF AnyOrder
  <2>15. PICK z \in Int : z = hc[K]
    BY <2>11 DEF AnyOrder
  <2>16. a0[f] = x % M /\ a1[f] = y % M
    BY <1>1, <1>5, <2>9, <2>10, <2>13, <2>14, AccumulateAny
  <2>17. PICK u \in Int : u = x % M
    <3>1. x % M \in 0 .. M - 1
      BY ModRange
    <3> QED
      BY <3>1
  <2>18. PICK v \in Int : v = y % M
    <3>1. y % M \in 0 .. M - 1
      BY ModRange
    <3> QED
      BY <3>1
  <2>19. Cong(u + v, x + y, M)
    <3>1. Cong(u, x, M) /\ Cong(v, y, M)
      BY <2>17, <2>18, ModCong
    <3> QED
      BY <3>1, CongAdd
  <2>20. Cong(u + v, z, M)
    <3>1. u + v \in Int /\ x + y \in Int /\ Cong(x + y, z, M)
      BY <2>12, <2>13, <2>14, <2>15
    <3> QED
      BY <2>19, <3>1, CongTrans
  <2>21. (u + v) % M = z % M
    <3>1. u + v \in Int
      OBVIOUS
    <3> QED
      BY <2>20, <3>1, CongMod
  <2>22. sums[f] = (u + v) % M
    BY <1>5, <2>16, <2>17, <2>18
  <2> QED
    BY <1>5, <2>1, <2>11, <2>15, <2>21, <2>22
<1>7. sums = [f \in Fields |-> sums[f]]
  OBVIOUS
<1> QED
  BY <1>6, <1>7 DEF SumsOf

\* The abstract circuits are those the servers check.
LEMMA AbstractCircuits ==
  ASSUME NEW type, NEW degree, NEW inp, NEW m
  PROVE  Abstract!Satisfies(Abstract!CircuitOf(type, degree), inp, m)
           <=> Satisfies(CircuitOf(type, degree), inp, m)
<1>1. \A n : Abstract!Pairs(n) = Pairs(n)
  BY DEF Abstract!Pairs, Pairs, Abstract!Cardinality, Cardinality
<1>2. \A a, b, c : Abstract!MulEqual(a, b, c) = MulEqual(a, b, c)
  BY DEF Abstract!MulEqual, MulEqual
<1>3. Abstract!CheckVar = CheckVar
  BY <1>2 DEF Abstract!CheckVar, CheckVar
<1>4. Abstract!CheckLinReg(degree) = CheckLinReg(degree)
  BY <1>1, <1>2 DEF Abstract!CheckLinReg, CheckLinReg
<1>5. Abstract!CircuitOf(type, degree) = CircuitOf(type, degree)
  BY <1>3, <1>4 DEF Abstract!CircuitOf, CircuitOf
<1>6. ASSUME NEW ckt PROVE Abstract!Satisfies(ckt, inp, m) <=> Satisfies(ckt, inp, m)
  BY DEF Abstract!Satisfies, Satisfies
<1> QED
  BY <1>5, <1>6

\* So are the submissions counted,
LEMMA AbstractAgreed ==
  Abstract!Agreed = Agreed /\ \A k : Abstract!Clear(k) = Clear(k)
<1>1. \A b : Abstract!Number(b) = Number(b)
  BY DEF Abstract!Number, Number, Abstract!MapThenSumSet, MapThenSumSet,
         Abstract!MapThenFoldSet, MapThenFoldSet
<1>2. \A a, b : Abstract!SymDiff(a, b) = SymDiff(a, b)
  BY DEF Abstract!SymDiff, SymDiff
<1>3. \A k : Abstract!Clear(k) = Clear(k)
  BY <1>1, <1>2 DEF Abstract!Clear, Clear
<1>4. \A k : Abstract!Proved(k) <=> Proved(k)
  BY <1>3, AbstractCircuits DEF Abstract!Proved, Proved, msg, Degree
<1> QED
  BY <1>3, <1>4 DEF Abstract!Agreed, Agreed

\* and the sums over them.
LEMMA AbstractMoments ==
  Abstract!MomentsOf(msg.type, Degree, Agreed,
                     LAMBDA k : [v \in 1 .. Degree |-> Abstract!Clear(k)[v - 1]], Modulus) = Moments
<1>1. Abstract!Cardinality(Agreed) = Cardinality(Agreed)
  BY DEF Abstract!Cardinality, Cardinality
<1>2. PICK S : S = Agreed
  OBVIOUS
<1>3. Abstract!MomentsOf(msg.type, Degree, S,
                     LAMBDA k : [v \in 1 .. Degree |-> Abstract!Clear(k)[v - 1]], Modulus)
        = IF msg.type = "LINREG_OP"
          THEN [num |-> Abstract!Cardinality(S),
                X |-> [p \in (0 .. Degree - 1) \X (0 .. Degree - 1) |->
                          MomentSum(p[1] + 1, p[2] + 1, S) % Modulus],
                Y |-> [n \in 0 .. Degree - 1 |-> MomentSum(n + 1, Degree + 1, S) % Modulus]]
          ELSE [num |-> Abstract!Cardinality(S),
                sums |-> [f \in 0 .. 1 |-> MomentSum(f + 1, 2, S) % Modulus]]
  BY Zenon DEF Abstract!MomentsOf, MomentSum, Row, Abstract!Clear, Clear, Abstract!Number, Number, Abstract!SymDiff, SymDiff,
         Abstract!MapThenSumSet, MapThenSumSet, Abstract!MapThenFoldSet, MapThenFoldSet
<1> QED
  BY <1>1, <1>2, <1>3 DEF Moments

\* At most the inputs are agreed.
LEMMA AgreedFinite == ASSUME campaign \in Campaigns PROVE IsFiniteSet(Agreed)
<1>1. Total_inputs \in Nat /\ DOMAIN campaign.subs = 1 .. Total_inputs
  BY BatchSize
<1>2. IsFiniteSet(1 .. Total_inputs) /\ Agreed \subseteq 1 .. Total_inputs
  BY <1>1, FS_Interval DEF Agreed
<1> QED
  BY <1>2, FS_Subset

\* What the abstract operation decides, in terms of the servers' own operators.
LEMMA AbstractOutcome ==
  ASSUME campaign \in Campaigns
  PROVE  Abstract!Outcome =
    IF BelowThreshold(Cardinality(Agreed), Total_inputs) THEN Invalid ELSE Answer(Moments)
<1>1. Abstract!Agreed = Agreed
  BY AbstractAgreed
<1>2. Abstract!MostLost <=> BelowThreshold(Cardinality(Agreed), Total_inputs)
  <2>1. PICK n : n = Cardinality(Agreed)
    OBVIOUS
  <2>2. n \in Nat /\ Total_inputs \in Nat
    BY <2>1, AgreedFinite, BatchSize, FS_CardinalityType
  <2>3. Abstract!MostLost <=> Total_inputs - n > n
    BY <1>1, <2>1 DEF Abstract!MostLost, Abstract!Cardinality, Cardinality, Total_inputs, msg
  <2> QED
    BY <2>1, <2>2, <2>3 DEF BelowThreshold
<1>3. Abstract!Invalid = Invalid /\ \A v : Abstract!Answer(v) = Answer(v)
  BY DEF Abstract!Invalid, Invalid, Abstract!Answer, Answer
<1> QED
  BY <1>1, <1>2, <1>3, AbstractMoments DEF Abstract!Outcome, Total_inputs, msg, Degree

\* Server 0's report is the abstract decision.
LEMMA ReportDecides ==
  ASSUME Reception, Exchange, Settled, RecvSums
  PROVE  Abstract!Decide
<1>1. /\ pc[0] = "sums" /\ UNCHANGED <<campaign, share_map>>
      /\ CanRead(0) \/ pc[1] = "dead"
  BY DEF RecvSums
<1>2. result = Pending /\ Abstract!Pending = Pending
  BY <1>1 DEF Settled, FlagsSet, Abstract!Pending, Pending
<1>3. pc[1] \notin PreCheck /\ campaign \in Campaigns
  BY <1>1 DEF Reception, Exchange, Together, PreCheck, Receiving
<1>4. PICK sum0 : sum0 = Accumulate(0, Flags)
  OBVIOUS
<1>5. PICK sum1 : sum1 = Accumulate(1, Flags)
  OBVIOUS
<1>6. acc[0] = sum0 /\ valid[0] = Flags
  BY <1>1, <1>4 DEF Settled, FlagsSet, Server
<1>7. CanRead(0) => Incoming(0) = sum1
  <2> SUFFICES ASSUME CanRead(0) PROVE Incoming(0) = sum1
    OBVIOUS
  <2>1. /\ rcvd[0] = IF NoEntries(1) THEN 1 ELSE 3
        /\ rcvd[0] < Len(to[0]) /\ Len(to[0]) \in Nat
    BY <1>1 DEF Exchange, ReadBy0, CanRead, Server
  <2>2. PICK m \in 1 .. Len(to[0]) : m = rcvd[0] + 1 /\ (m = IF NoEntries(1) THEN 2 ELSE 4)
    <3>1. rcvd[0] + 1 = IF NoEntries(1) THEN 2 ELSE 4
      BY <2>1
    <3> QED
      BY <2>1, <3>1
  <2>3. to[0][m].kind = Kind(0, m)
    BY DEF Exchange, Server
  <2>4. Kind(0, m) = "sums"
    BY <2>2 DEF Kind
  <2>5. to[0][m].val = sum1
    BY <1>5, <2>3, <2>4 DEF Settled, OnWire, Server
  <2> QED
    BY <2>2, <2>5 DEF Incoming
<1>8. ~CanRead(0) => Zeros = sum1
  <2> SUFFICES ASSUME ~CanRead(0) PROVE Zeros = sum1
    OBVIOUS
  <2>1. NoEntries(1)
    BY <1>1 DEF Exchange, Together, Server
  <2> QED
    BY <1>5, <2>1, AccumulateNothing DEF NoEntries
<1>9. PICK sums : sums = [f \in Fields |-> (sum0[f] + sum1[f]) % Modulus]
  OBVIOUS
<1>10. SumsOf(sums)
  BY <1>3, <1>4, <1>5, <1>9, ServersSumUp
<1>11. PICK T : T = {n \in DOMAIN pk_list[1] : Flags[n]}
  OBVIOUS
<1>12. PICK g : g = [n \in T |-> Entry(1, n)]
  OBVIOUS
<1>13. /\ Cardinality(T) = Cardinality(Agreed) /\ IsFiniteSet(Agreed)
       /\ Cardinality(Agreed) \in 0 .. Modulus - 1
  BY <1>3, <1>11, <1>12, FlaggedAreAgreed DEF Flagged
<1>14. Num_valid = Cardinality(Agreed)
  <2>1. {n \in DOMAIN valid[0] : valid[0][n]} = T
    <3>1. DOMAIN Flags = DOMAIN pk_list[1]
      BY DEF Flags
    <3> QED
      BY <1>6, <1>11, <3>1
  <2> QED
    BY <1>13, <2>1 DEF Num_valid
<1>15. PICK num : num = Num_valid
  OBVIOUS
<1>16. Report(msg.type, Degree, num, sums) = Moments
  BY <1>3, <1>10, <1>13, <1>14, <1>15, ReportIsMoments
<1>17. result' = IF BelowThreshold(num, Total_inputs) THEN Invalid
                 ELSE Answer(Report(msg.type, Degree, num, sums))
  <2>1. PICK b : /\ b = sum1
                 /\ result' = IF BelowThreshold(num, Total_inputs) THEN Invalid
                              ELSE Answer(Report(msg.type, campaign.degree, num,
                                      [f \in Fields |-> (acc[0][f] + b[f]) % Modulus]))
    BY <1>7, <1>8, <1>15 DEF RecvSums
  <2> QED
    BY <1>6, <1>9, <2>1 DEF Degree
<1>18. result' = Abstract!Outcome
  BY <1>3, <1>14, <1>15, <1>16, <1>17, AbstractOutcome
<1> QED
  BY <1>1, <1>2, <1>18 DEF Abstract!Decide

\* Reading a packet stores its submission first-come, or nothing.
LEMMA RecvPacketStores ==
  ASSUME Reception, Exchange, Settled, NEW s \in Server, RecvPacket(s)
  PROVE  Abstract!Store(s) \/ UNCHANGED <<campaign, share_map, result>>
<1>1. /\ pc[s] = "packet" /\ UNCHANGED <<campaign, result>>
      /\ \/ UNCHANGED share_map
         \/ Arrived(s) /\ Acceptable(s, Current(s)) /\ Keep(s)
  BY DEF RecvPacket
<1>2. result = Pending /\ Abstract!Pending = Pending
  <2>1. pc[0] \in PreCheck
    BY <1>1 DEF Exchange, Together, PreCheck, Receiving, Server
  <2>2. pc[0] # "done"
    BY <2>1 DEF PreCheck, Receiving
  <2> QED
    BY <2>2 DEF Settled, FlagsSet, Abstract!Pending, Pending
<1>3. CASE Arrived(s) /\ Acceptable(s, Current(s)) /\ Keep(s)
  <2>1. PICK k : k = Current(s)
    OBVIOUS
  <2>2. k \in DOMAIN campaign.subs
    <3>1. Total_inputs \in Nat /\ DOMAIN campaign.subs = 1 .. Total_inputs
      BY BatchSize DEF Reception
    <3>2. i[s] < Total_inputs /\ i[s] \in Nat
      BY <1>1, <3>1 DEF Reception
    <3>3. taken[s] = 2 * i[s] + 1
      <4>1. taken[s] < sent[s] /\ taken[s] \in Nat
        BY <1>3, <3>1 DEF Arrived, Reception
      <4> QED
        BY <1>1, <4>1 DEF Reception, Turns, AtEof, Receiving
    <3>4. \A n \in Nat : ((2 * n + 1) + 1) \div 2 = n + 1
      OBVIOUS
    <3>5. k = i[s] + 1
      BY <2>1, <3>2, <3>3, <3>4 DEF Current
    <3> QED
      BY <3>1, <3>2, <3>5
  <2>3. PICK pk : pk = campaign.subs[k].pk[s]
    OBVIOUS
  <2>4. /\ pk \notin DOMAIN share_map[s]
        /\ share_map' = [share_map EXCEPT ![s] =
                [q \in DOMAIN @ \cup {pk} |-> IF q = pk THEN k ELSE @[q]]]
    BY <1>3, <2>1, <2>3 DEF Acceptable, Keep
  <2> QED
    BY <1>1, <1>2, <2>2, <2>3, <2>4 DEF Abstract!Store
<1> QED
  BY <1>1, <1>3

\* Every step is one of the abstract operation or changes nothing it sees.
LEMMA StepRefines ==
  Reception /\ Exchange /\ Settled /\ [Next]_vars => [Abstract!Next]_(Abstract!vars)
<1> SUFFICES ASSUME Reception, Exchange, Settled, [Next]_vars
             PROVE  Abstract!Next \/ UNCHANGED <<campaign, share_map, result>>
  BY DEF Abstract!vars
<1>1. CASE UNCHANGED vars
  BY <1>1 DEF vars
<1>2. CASE ClientStep
  BY <1>2 DEF ClientStep, Close, SendNext
<1>3. ASSUME NEW s \in Server, RecvPacket(s)
      PROVE  Abstract!Next \/ UNCHANGED <<campaign, share_map, result>>
  <2>1. s \in Abstract!Server
    BY DEF Abstract!Server, Server
  <2> QED
    BY <1>3, <2>1, RecvPacketStores DEF Abstract!Next
<1>4. CASE RecvSums
  BY <1>4, ReportDecides DEF Abstract!Next
<1>5. CASE RecvPks \/ SendValid \/ SendPks \/ RecvValid \/ Convert
  BY <1>5 DEF RecvPks, SendValid, SendPks, RecvValid, Convert
<1>6. ASSUME NEW s \in Server, RecvShare(s) \/ Validate(s)
      PROVE  UNCHANGED <<campaign, share_map, result>>
  BY <1>6 DEF RecvShare, Validate, SendCor, NoCircuit, RecvCor, RecvOut
<1>7. CASE Server0Step
  BY <1>3, <1>4, <1>5, <1>6, <1>7 DEF Server0Step, Receive, Server
<1>8. CASE Server1Step
  BY <1>3, <1>5, <1>6, <1>8 DEF Server1Step, Receive, Server
<1> QED
  BY <1>1, <1>2, <1>5, <1>7, <1>8 DEF Next

\* Nothing stored, nothing decided.
LEMMA InitRefines == Init => Abstract!Init
  BY DEF Init, Abstract!Init, Abstract!Pending, Pending, Abstract!Server, Server

\* What the two servers compute, from the conversion to the sums, for every
\* batch whose fields have room in a word next to the modulus.
THEOREM SettledHolds ==
  ASSUME ModulusFits
  PROVE  Spec => []Settled
<1>1. Reception /\ Exchange /\ Exchange' /\ FirstCome /\ Settled /\ [Next]_vars => Settled'
  BY StepKeepsSettled
<1> QED
  BY <1>1, InitSettled, ReceptionHolds, ExchangeHolds, FirstComeHolds, PTL DEF Spec

\* var_op and linreg_op do what they promise: each server keeps, under a key,
\* the first acceptable submission it gets whole, and the result is decided
\* once, as the moments of the submissions that both keep and that are proved,
\* if the modulus leaves room in a word for what the conversion adds.
THEOREM RefinesProvedAggregate ==
  ASSUME ModulusFits
  PROVE  Spec => ImplementsProvedAggregate
<1>1. Spec => []Settled
  BY SettledHolds
<1> QED
  BY <1>1, InitRefines, StepRefines, ReceptionHolds, ExchangeHolds, PTL
     DEF Spec, ImplementsProvedAggregate, Abstract!Spec

-----------------------------------------------------------------------------
(* What a client makes of values satisfies the circuit *)

\* Products of congruent numbers are congruent.
LEMMA CongTimes ==
  ASSUME NEW a \in Int, NEW b \in Int, NEW c \in Int, NEW d \in Int, NEW m \in Nat,
         Cong(a, b, m), Cong(c, d, m)
  PROVE  Cong(a * c, b * d, m)
<1>1. PICK p \in Int : a = b + p * m
  BY DEF Cong
<1>2. PICK q \in Int : c = d + q * m
  BY DEF Cong
<1>3. PICK r \in Int : r = b * q + p * d + p * q * m
  OBVIOUS
<1>4. (b + p * m) * (d + q * m) = b * d + (b * q + p * d + p * q * m) * m
  OBVIOUS
<1>5. a * c = b * d + r * m
  BY <1>1, <1>2, <1>3, <1>4
<1> QED
  BY <1>5 DEF Cong

\* The list has pairs only, since as many places as there are pairs have one.
LEMMA ListedPair ==
  ASSUME NEW num_x \in Nat, NEW n \in DOMAIN Pairs(num_x)
  PROVE  Pairs(num_x)[n] \in PairSet(num_x)
<1>1. PICK c \in Nat : c = Cardinality(PairSet(num_x)) /\ IsFiniteSet(PairSet(num_x))
  BY PairsCount
<1>2. DOMAIN Pairs(num_x) = 1 .. c
  BY <1>1, PairsLength
<1>3. PICK at \in [PairSet(num_x) -> 1 .. c] : \A p \in PairSet(num_x) : Pairs(num_x)[at[p]] = p
  <2>1. \A p \in PairSet(num_x) : \E k \in 1 .. c : Pairs(num_x)[k] = p
    BY <1>2, PairListed
  <2>2. PICK at : at = [p \in PairSet(num_x) |-> CHOOSE k \in 1 .. c : Pairs(num_x)[k] = p]
    OBVIOUS
  <2> QED
    BY <2>1, <2>2
<1>4. at \in Injection(PairSet(num_x), 1 .. c)
  BY <1>3 DEF Injection, IsInjective
<1>5. IsFiniteSet(1 .. c) /\ Cardinality(1 .. c) = c
  BY FS_Interval
<1>6. at \in Surjection(PairSet(num_x), 1 .. c)
  BY <1>1, <1>4, <1>5, FS_Injection
<1> QED
  BY <1>2, <1>3, <1>6 DEF Surjection

\* A circuit's wires are inputs.
LEMMA WiresAreFields ==
  ASSUME NEW type, NEW degree \in Nat \ {0}, type # "LINREG_OP" => degree = 1,
         NEW n \in DOMAIN CircuitOf(type, degree)
  PROVE  /\ CircuitOf(type, degree)[n].L \in FieldsOf(type, degree)
         /\ CircuitOf(type, degree)[n].R \in FieldsOf(type, degree)
         /\ CircuitOf(type, degree)[n].out \in FieldsOf(type, degree)
<1>1. CASE type # "LINREG_OP"
  <2>1. CircuitOf(type, degree) = <<MulEqual(0, 0, 1)>> /\ FieldsOf(type, degree) = 0 .. 1
    BY <1>1 DEF CircuitOf, CheckVar, FieldsOf
  <2> QED
    BY <2>1 DEF MulEqual
<1>2. CASE type = "LINREG_OP"
  <2>1. PICK pairs : pairs = Pairs(degree - 1)
    OBVIOUS
  <2>2. PICK num_x \in Nat : num_x = degree - 1
    OBVIOUS
  <2>3. Len(pairs) \in Nat /\ DOMAIN pairs = 1 .. Len(pairs)
    BY <2>1, <2>2, PairsLength
  <2>4. FieldsOf(type, degree) = 0 .. 2 * num_x + Len(pairs)
    BY <1>2, <2>1, <2>2, FieldCount
  <2>5. PICK u : u = [k \in DOMAIN pairs |-> MulEqual(pairs[k][1], pairs[k][2], degree + k - 1)]
    OBVIOUS
  <2>6. PICK v : v = [k \in 1 .. num_x |-> MulEqual(num_x, k - 1, degree + Len(pairs) + k - 1)]
    OBVIOUS
  <2>7. CircuitOf(type, degree) = u \o v
    BY <1>2, <2>1, <2>2, <2>5, <2>6 DEF CircuitOf, CheckLinReg
  <2>8. u = [k \in 1 .. Len(pairs) |-> u[k]] /\ v = [k \in 1 .. num_x |-> v[k]]
    BY <2>3, <2>5, <2>6
  <2>9. /\ DOMAIN (u \o v) = 1 .. Len(pairs) + num_x
        /\ \A k \in 1 .. Len(pairs) : (u \o v)[k] = u[k]
        /\ \A k \in 1 .. num_x : (u \o v)[Len(pairs) + k] = v[k]
    BY <2>2, <2>3, <2>8, Joined
  <2>10. CASE n \in 1 .. Len(pairs)
    <3>1. pairs[n] \in (0 .. num_x - 1) \X (0 .. num_x - 1)
      BY <2>1, <2>2, <2>3, <2>10, ListedPair DEF PairSet
    <3>2. (u \o v)[n] = MulEqual(pairs[n][1], pairs[n][2], degree + n - 1)
      BY <2>3, <2>5, <2>9, <2>10
    <3>3. pairs[n][1] \in 0 .. num_x - 1 /\ pairs[n][2] \in 0 .. num_x - 1
      BY <3>1
    <3>4. PICK a \in 0 .. num_x - 1 : a = pairs[n][1]
      BY <3>3
    <3>5. PICK b \in 0 .. num_x - 1 : b = pairs[n][2]
      BY <3>3
    <3>6. PICK top \in Nat : top = Len(pairs)
      BY <2>3
    <3>7. n \in 1 .. top /\ {a, b, degree + n - 1} \subseteq 0 .. 2 * num_x + top
      BY <2>2, <2>10, <3>6
    <3>8. CircuitOf(type, degree)[n] = MulEqual(a, b, degree + n - 1)
      BY <2>7, <3>2, <3>4, <3>5
    <3> QED
      BY <2>4, <3>6, <3>7, <3>8 DEF MulEqual
  <2>11. CASE n \notin 1 .. Len(pairs)
    <3>1. PICK k \in 1 .. num_x : n = Len(pairs) + k
      <4>1. n \in 1 .. Len(pairs) + num_x
        BY <2>7, <2>9
      <4>2. n - Len(pairs) \in 1 .. num_x /\ n = Len(pairs) + (n - Len(pairs))
        BY <2>2, <2>3, <2>11, <4>1
      <4> QED
        BY <4>2
    <3>2. (u \o v)[n] = MulEqual(num_x, k - 1, degree + Len(pairs) + k - 1)
      BY <2>6, <2>9, <3>1
    <3> QED
      BY <2>2, <2>3, <2>4, <2>7, <3>2 DEF MulEqual
  <2> QED
    BY <2>10, <2>11
<1> QED
  BY <1>1, <1>2

\* The circuit is about residues: it holds of inputs if it holds of them reduced.
LEMMA SatisfiesReduced ==
  ASSUME NEW type, NEW degree \in Nat \ {0}, type # "LINREG_OP" => degree = 1,
         NEW m \in Nat \ {0}, NEW inp, inp \in [FieldsOf(type, degree) -> Int],
         NEW red, red = [f \in FieldsOf(type, degree) |-> inp[f] % m]
  PROVE  Satisfies(CircuitOf(type, degree), inp, m) <=> Satisfies(CircuitOf(type, degree), red, m)
<1>1. PICK ckt : ckt = CircuitOf(type, degree)
  OBVIOUS
<1>2. ASSUME NEW n \in DOMAIN ckt
      PROVE  (inp[ckt[n].L] * inp[ckt[n].R]) % m = inp[ckt[n].out] % m
               <=> (red[ckt[n].L] * red[ckt[n].R]) % m = red[ckt[n].out] % m
  <2>1. /\ ckt[n].L \in FieldsOf(type, degree) /\ ckt[n].R \in FieldsOf(type, degree)
        /\ ckt[n].out \in FieldsOf(type, degree)
    BY <1>1, WiresAreFields
  <2>2. PICK x \in Int : x = inp[ckt[n].L]
    BY <2>1
  <2>3. PICK y \in Int : y = inp[ckt[n].R]
    BY <2>1
  <2>4. PICK z \in Int : z = inp[ckt[n].out]
    BY <2>1
  <2>5. PICK p \in 0 .. m - 1 : p = x % m
    BY ModRange
  <2>6. PICK q \in 0 .. m - 1 : q = y % m
    BY ModRange
  <2>7. PICK r \in 0 .. m - 1 : r = z % m
    BY ModRange
  <2>8. Cong(p, x, m) /\ Cong(q, y, m)
    BY <2>5, <2>6, ModCong
  <2>9. PICK pq \in Int : pq = p * q
    OBVIOUS
  <2>10. PICK xy \in Int : xy = x * y
    OBVIOUS
  <2>11. pq % m = xy % m
    <3>1. Cong(p * q, x * y, m)
      <4>1. p \in Int /\ q \in Int /\ m \in Nat
        OBVIOUS
      <4> QED
        BY <2>8, <4>1, CongTimes
    <3>2. Cong(pq, xy, m)
      BY <2>9, <2>10, <3>1
    <3> QED
      BY <3>2, CongMod
  <2>12. r % m = r
    BY ModSmall
  <2>13. red[ckt[n].L] = p /\ red[ckt[n].R] = q /\ red[ckt[n].out] = r
    BY <2>1, <2>2, <2>3, <2>4, <2>5, <2>6, <2>7
  <2>14. /\ inp[ckt[n].L] * inp[ckt[n].R] = xy /\ red[ckt[n].L] * red[ckt[n].R] = pq
         /\ inp[ckt[n].out] % m = r /\ red[ckt[n].out] % m = r
    BY <2>2, <2>3, <2>4, <2>7, <2>9, <2>10, <2>12, <2>13
  <2> QED
    BY <2>11, <2>14
<1> QED
  BY <1>1, <1>2 DEF Satisfies

\* and the two are a list again.
LEMMA JoinedList ==
  ASSUME NEW c \in Nat, NEW d \in Nat, NEW u, NEW v,
         u = [n \in 1 .. c |-> u[n]], v = [n \in 1 .. d |-> v[n]]
  PROVE  u \o v = [n \in 1 .. c + d |-> (u \o v)[n]] /\ Len(u \o v) = c + d
<1>1. PICK S : S = {u[n] : n \in 1 .. c} \cup {v[n] : n \in 1 .. d}
  OBVIOUS
<1>2. u \in [1 .. c -> S]
  BY <1>1
<1>3. v \in [1 .. d -> S]
  BY <1>1
<1>4. u \in Seq(S) /\ Len(u) = c
  BY <1>2
<1>5. v \in Seq(S) /\ Len(v) = d
  BY <1>3
<1>6. u \o v \in Seq(S) /\ Len(u \o v) = c + d
  BY <1>4, <1>5
<1> QED
  BY <1>6

\* The inputs of a regression with num_x values x_i, one part after another.
InputsAt(inp, num_x, xs, y, pairs) ==
    /\ \A n \in 1 .. num_x : inp[n - 1] = xs[n]
    /\ inp[num_x] = y
    /\ \A n \in 1 .. Len(pairs) : inp[num_x + n] = xs[pairs[n][1] + 1] * xs[pairs[n][2] + 1]
    /\ \A n \in 1 .. num_x : inp[num_x + Len(pairs) + n] = xs[n] * y

\* That is where LinRegInputs puts them.
LEMMA LinRegFields ==
  ASSUME NEW num_x \in Nat, NEW xs, xs \in [1 .. num_x -> Int], NEW y \in Int,
         NEW pairs, pairs = Pairs(num_x), NEW inp, inp = LinRegInputs(xs, y)
  PROVE  InputsAt(inp, num_x, xs, y, pairs)
<1>1. PICK top \in Nat : top = Len(pairs) /\ DOMAIN pairs = 1 .. top
  BY PairsLength
<1>2. Len(xs) = num_x /\ DOMAIN xs = 1 .. num_x /\ xs = [n \in 1 .. num_x |-> xs[n]]
  OBVIOUS
<1>3. PICK last : last = <<y>>
  OBVIOUS
<1>4. PICK prods : prods = [n \in DOMAIN pairs |-> xs[pairs[n][1] + 1] * xs[pairs[n][2] + 1]]
  OBVIOUS
<1>5. PICK ys : ys = [n \in DOMAIN xs |-> xs[n] * y]
  OBVIOUS
<1>6. /\ last = [n \in 1 .. 1 |-> last[n]] /\ last[1] = y
      /\ prods = [n \in 1 .. top |-> prods[n]] /\ ys = [n \in 1 .. num_x |-> ys[n]]
  BY <1>1, <1>2, <1>3, <1>4, <1>5
<1>7. PICK a : a = xs \o last
  OBVIOUS
<1>8. /\ a = [n \in 1 .. num_x + 1 |-> a[n]] /\ a[num_x + 1] = y
      /\ \A n \in 1 .. num_x : a[n] = xs[n]
  <2>1. 1 \in Nat /\ 1 \in 1 .. 1
    OBVIOUS
  <2>2. a = [n \in 1 .. num_x + 1 |-> a[n]]
    BY <1>2, <1>6, <1>7, <2>1, JoinedList
  <2>3. (\A n \in 1 .. num_x : a[n] = xs[n]) /\ (\A n \in 1 .. 1 : a[num_x + n] = last[n])
    BY <1>2, <1>6, <1>7, <2>1, Joined
  <2> QED
    BY <1>6, <2>1, <2>2, <2>3
<1>9. PICK b : b = a \o prods
  OBVIOUS
<1>10. /\ b = [n \in 1 .. (num_x + 1) + top |-> b[n]]
       /\ \A n \in 1 .. num_x + 1 : b[n] = a[n]
       /\ \A n \in 1 .. top : b[(num_x + 1) + n] = prods[n]
  <2>1. num_x + 1 \in Nat
    OBVIOUS
  <2>2. b = [n \in 1 .. (num_x + 1) + top |-> b[n]]
    BY SMTT(40), <1>6, <1>8, <1>9, <2>1, JoinedList
  <2>3. /\ \A n \in 1 .. num_x + 1 : b[n] = a[n]
        /\ \A n \in 1 .. top : b[(num_x + 1) + n] = prods[n]
    <3>1. PICK w \in Nat : w = num_x + 1 /\ a = [n \in 1 .. w |-> a[n]]
      BY <1>8
    <3>2. /\ \A n \in 1 .. w : (a \o prods)[n] = a[n]
          /\ \A n \in 1 .. top : (a \o prods)[w + n] = prods[n]
      BY <1>6, <3>1, Joined
    <3> QED
      BY <1>9, <3>1, <3>2
  <2> QED
    BY <2>2, <2>3
<1>11. PICK c : c = b \o ys
  OBVIOUS
<1>12. /\ Len(c) = ((num_x + 1) + top) + num_x
       /\ \A n \in 1 .. (num_x + 1) + top : c[n] = b[n]
       /\ \A n \in 1 .. num_x : c[((num_x + 1) + top) + n] = ys[n]
  <2>1. (num_x + 1) + top \in Nat
    OBVIOUS
  <2>2. Len(c) = ((num_x + 1) + top) + num_x
    BY <1>6, <1>10, <1>11, <2>1, JoinedList
  <2> QED
    BY SMTT(40), <1>6, <1>10, <1>11, <2>1, <2>2, Joined
<1>13. inp = [k \in 0 .. Len(c) - 1 |-> c[k + 1]]
  BY <1>2, <1>3, <1>4, <1>5, <1>7, <1>9, <1>11 DEF LinRegInputs
<1>14. ASSUME NEW k \in 1 .. ((num_x + 1) + top) + num_x PROVE inp[k - 1] = c[k]
  <2>1. k - 1 \in 0 .. Len(c) - 1 /\ (k - 1) + 1 = k
    BY <1>12
  <2> QED
    BY <1>13, <2>1
<1>15. ASSUME NEW n \in 1 .. num_x
       PROVE  inp[n - 1] = xs[n] /\ inp[num_x + top + n] = xs[n] * y
  <2>1. /\ n \in 1 .. ((num_x + 1) + top) + num_x /\ n \in 1 .. (num_x + 1) + top
        /\ n \in 1 .. num_x + 1
    OBVIOUS
  <2>2. inp[n - 1] = xs[n]
    BY <1>8, <1>10, <1>12, <1>14, <2>1
  <2>3. PICK k \in 1 .. ((num_x + 1) + top) + num_x :
             k = ((num_x + 1) + top) + n /\ k - 1 = num_x + top + n
    OBVIOUS
  <2>4. inp[k - 1] = ys[n]
    BY <1>12, <1>14, <2>3
  <2>5. ys[n] = xs[n] * y
    BY <1>2, <1>5
  <2> QED
    BY <2>2, <2>3, <2>4, <2>5
<1>16. inp[num_x] = y
  <2>1. PICK k \in 1 .. num_x + 1 : k = num_x + 1 /\ k - 1 = num_x
    OBVIOUS
  <2>2. k \in 1 .. ((num_x + 1) + top) + num_x /\ k \in 1 .. (num_x + 1) + top
    OBVIOUS
  <2>3. inp[k - 1] = a[k]
    BY <1>10, <1>12, <1>14, <2>1, <2>2
  <2> QED
    BY <1>8, <2>1, <2>3
<1>17. ASSUME NEW n \in 1 .. top
       PROVE  inp[num_x + n] = xs[pairs[n][1] + 1] * xs[pairs[n][2] + 1]
  <2>1. PICK k \in 1 .. (num_x + 1) + top : k = (num_x + 1) + n /\ k - 1 = num_x + n
    OBVIOUS
  <2>2. k \in 1 .. ((num_x + 1) + top) + num_x
    OBVIOUS
  <2>3. inp[k - 1] = prods[n]
    BY <1>10, <1>12, <1>14, <2>1, <2>2
  <2> QED
    BY <1>1, <1>4, <2>1, <2>3
<1> QED
  BY <1>1, <1>15, <1>16, <1>17 DEF InputsAt

\* What a client computes for its values is what the circuit asks of inputs.
LEMMA InputsSatisfy ==
  ASSUME NEW c, c.degree \in Nat \ {0}, c.msg.type # "LINREG_OP" => c.degree = 1,
         NEW values, values \in [1 .. c.degree -> Int], NEW m
  PROVE  Satisfies(CircuitOf(c.msg.type, c.degree), InputsOf(c, values), m)
<1>1. CASE c.msg.type # "LINREG_OP"
  <2>1. PICK x : x = values[1]
    OBVIOUS
  <2>2. /\ InputsOf(c, values) = VarInputs(x)
        /\ CircuitOf(c.msg.type, c.degree) = <<MulEqual(0, 0, 1)>>
    BY <1>1, <2>1 DEF InputsOf, CircuitOf, CheckVar
  <2>3. VarInputs(x)[0] = x /\ VarInputs(x)[1] = x * x
    BY DEF VarInputs
  <2> QED
    BY <2>2, <2>3 DEF Satisfies, MulEqual
<1>2. CASE c.msg.type = "LINREG_OP"
  <2>1. PICK num_x \in Nat : num_x = c.degree - 1 /\ c.degree = num_x + 1
    OBVIOUS
  <2>2. PICK xs : xs = SubSeq(values, 1, num_x)
    OBVIOUS
  <2>3. PICK y \in Int : y = values[c.degree]
    OBVIOUS
  <2>4. xs \in [1 .. num_x -> Int]
    <3>1. \A n \in 1 .. num_x : values[n] \in Int
      BY <2>1
    <3>2. xs \in Seq(Int) /\ Len(xs) = IF 1 <= num_x THEN num_x - 1 + 1 ELSE 0
      <4>1. \A n \in 1 .. num_x : values[n] \in Int
        BY <3>1
      <4> QED
        BY <2>2, <4>1, SubSeqProperties
    <3> QED
      BY <3>2
  <2>5. PICK inp : inp = InputsOf(c, values) /\ inp = LinRegInputs(xs, y)
    BY <1>2, <2>1, <2>2, <2>3 DEF InputsOf
  <2>6. PICK pairs : pairs = Pairs(num_x)
    OBVIOUS
  <2>7. PICK top \in Nat : top = Len(pairs) /\ DOMAIN pairs = 1 .. top
    BY <2>6, PairsLength
  <2>8. /\ \A n \in 1 .. num_x : inp[n - 1] = xs[n]
        /\ inp[num_x] = y
        /\ \A n \in 1 .. top : inp[num_x + n] = xs[pairs[n][1] + 1] * xs[pairs[n][2] + 1]
        /\ \A n \in 1 .. num_x : inp[num_x + top + n] = xs[n] * y
    <3>1. inp = LinRegInputs(xs, y)
      BY <2>5
    <3>2. InputsAt(inp, num_x, xs, y, pairs)
      BY <2>4, <2>6, <3>1, LinRegFields
    <3> QED
      BY <2>7, <3>2 DEF InputsAt
  <2>9. PICK u : u = [n \in DOMAIN pairs |-> MulEqual(pairs[n][1], pairs[n][2], num_x + n)]
    OBVIOUS
  <2>10. PICK v : v = [n \in 1 .. num_x |-> MulEqual(num_x, n - 1, num_x + top + n)]
    OBVIOUS
  <2>11. CircuitOf(c.msg.type, c.degree) = u \o v
    <3>1. \A n \in 1 .. top : c.degree + n - 1 = num_x + n
      BY <2>1
    <3>2. \A n \in 1 .. num_x : (c.degree + top) + n - 1 = num_x + top + n
      BY <2>1
    <3>3. u = [n \in DOMAIN pairs |-> MulEqual(pairs[n][1], pairs[n][2], c.degree + n - 1)]
      BY <2>7, <2>9, <3>1
    <3>4. v = [n \in 1 .. num_x |-> MulEqual(num_x, n - 1, (c.degree + top) + n - 1)]
      BY <2>10, <3>2
    <3> QED
      BY <1>2, <2>1, <2>6, <2>7, <3>3, <3>4 DEF CircuitOf, CheckLinReg
  <2>12. /\ DOMAIN (u \o v) = 1 .. top + num_x
         /\ \A n \in 1 .. top : (u \o v)[n] = u[n]
         /\ \A n \in 1 .. num_x : (u \o v)[top + n] = v[n]
    <3>1. u = [n \in 1 .. top |-> u[n]] /\ v = [n \in 1 .. num_x |-> v[n]]
      BY <2>7, <2>9, <2>10
    <3> QED
      BY <3>1, Joined
  <2>13. PICK ckt : ckt = u \o v
    OBVIOUS
  <2>14. ASSUME NEW n \in 1 .. top
         PROVE  inp[ckt[n].L] * inp[ckt[n].R] = inp[ckt[n].out]
    <3>1. pairs[n] \in (0 .. num_x - 1) \X (0 .. num_x - 1)
      BY <2>6, <2>7, ListedPair DEF PairSet
    <3>2. PICK a \in 0 .. num_x - 1 : a = pairs[n][1]
      BY <3>1
    <3>3. PICK b \in 0 .. num_x - 1 : b = pairs[n][2]
      BY <3>1
    <3>4. ckt[n] = MulEqual(a, b, num_x + n)
      BY <2>7, <2>9, <2>12, <2>13, <3>2, <3>3
    <3>5. inp[a] = xs[a + 1] /\ inp[b] = xs[b + 1]
      <4>1. a + 1 \in 1 .. num_x /\ b + 1 \in 1 .. num_x /\ (a + 1) - 1 = a /\ (b + 1) - 1 = b
        OBVIOUS
      <4> QED
        BY <2>8, <4>1
    <3>6. inp[num_x + n] = xs[a + 1] * xs[b + 1]
      BY <2>8, <3>2, <3>3
    <3>7. ckt[n].L = a /\ ckt[n].R = b /\ ckt[n].out = num_x + n
      BY <3>4 DEF MulEqual
    <3> QED
      BY <3>5, <3>6, <3>7
  <2>15. ASSUME NEW n \in 1 .. num_x
         PROVE  inp[ckt[top + n].L] * inp[ckt[top + n].R] = inp[ckt[top + n].out]
    <3>1. ckt[top + n] = MulEqual(num_x, n - 1, num_x + top + n)
      BY <2>10, <2>12, <2>13
    <3>2. PICK x \in Int : x = xs[n]
      BY <2>4
    <3>3. y * x = x * y
      OBVIOUS
    <3> QED
      BY <2>8, <3>1, <3>2, <3>3 DEF MulEqual
  <2>16. ASSUME NEW n \in DOMAIN ckt PROVE inp[ckt[n].L] * inp[ckt[n].R] = inp[ckt[n].out]
    <3>1. n \in 1 .. top + num_x
      BY <2>12, <2>13
    <3>2. CASE n \in 1 .. top
      BY <2>14, <3>2
    <3>3. CASE n \notin 1 .. top
      <4>1. PICK k \in 1 .. num_x : n = top + k
        <5>1. n - top \in 1 .. num_x /\ n = top + (n - top)
          BY <3>1, <3>3
        <5> QED
          BY <5>1
      <4> QED
        BY <2>15, <4>1
    <3> QED
      BY <3>2, <3>3
  <2> QED
    BY <2>5, <2>11, <2>13, <2>16 DEF Satisfies
<1> QED
  BY <1>1, <1>2

-----------------------------------------------------------------------------
(* A batch that came whole yields what its client prints. *)

\* The moments of the values of campaign c that are in S.
ClearIn(c, k) ==
    [f \in DOMAIN c.subs[k].val[0] |->
        Number(SymDiff(c.subs[k].val[0][f], c.subs[k].val[1][f])) % Modulus]
MomentsIn(c, S) ==
    MomentsOf(c.msg.type, c.degree, S, LAMBDA k : [v \in 1 .. c.degree |-> ClearIn(c, k)[v - 1]],
              Modulus)

\* Once server 0 has returned its result is the moments of the agreed.
Decided ==
    pc[0] = "done" =>
        result = IF BelowThreshold(Cardinality(Agreed), Total_inputs) THEN Invalid
                 ELSE Answer(MomentsIn(campaign, Agreed))

\* Nothing is decided before the first share.
LEMMA InitDecided == Init => Decided
  BY DEF Init, Decided, Server

\* The agreed change only with what is stored.
LEMMA SameAgreed ==
  ASSUME UNCHANGED <<campaign, share_map>>
  PROVE  Agreed' = Agreed
<1>1. \A k : Clear(k)' = Clear(k)
  BY DEF Clear
<1>2. \A k : Proved(k)' = Proved(k)
  BY <1>1 DEF Proved, msg, Degree
<1> QED
  BY <1>2 DEF Agreed

\* What the report is of are the moments of the agreed.
LEMMA MomentsAgreed == Moments = MomentsIn(campaign, Agreed)
<1>1. \A k : ClearIn(campaign, k) = Clear(k)
  BY DEF ClearIn, Clear
<1>2. PICK S : S = Agreed
  OBVIOUS
<1>3. MomentsOf(msg.type, Degree, S, LAMBDA k : [v \in 1 .. Degree |-> Clear(k)[v - 1]], Modulus)
        = IF msg.type = "LINREG_OP"
          THEN [num |-> Cardinality(S),
                X |-> [p \in (0 .. Degree - 1) \X (0 .. Degree - 1) |->
                          MomentSum(p[1] + 1, p[2] + 1, S) % Modulus],
                Y |-> [n \in 0 .. Degree - 1 |-> MomentSum(n + 1, Degree + 1, S) % Modulus]]
          ELSE [num |-> Cardinality(S),
                sums |-> [f \in 0 .. 1 |-> MomentSum(f + 1, 2, S) % Modulus]]
  BY Zenon DEF MomentsOf, MomentSum, Row, MapThenSumSet, MapThenFoldSet
<1>4. MomentsIn(campaign, S)
        = MomentsOf(msg.type, Degree, S, LAMBDA k : [v \in 1 .. Degree |-> Clear(k)[v - 1]], Modulus)
  BY Zenon DEF MomentsIn, ClearIn, Clear, msg, Degree
<1> QED
  BY <1>2, <1>3, <1>4 DEF Moments

\* Server 0 reports once, when no server stores any more.
LEMMA StepKeepsDecided ==
  Reception /\ Exchange /\ Settled /\ Decided /\ [Next]_vars => Decided'
<1> SUFFICES ASSUME Reception, Exchange, Settled, Decided, [Next]_vars, pc'[0] = "done"
             PROVE  result' = IF BelowThreshold(Cardinality(Agreed), Total_inputs)' THEN Invalid
                              ELSE Answer(MomentsIn(campaign, Agreed))'
  BY DEF Decided, Invalid
<1>1. ASSUME UNCHANGED <<campaign, share_map>>
      PROVE  /\ BelowThreshold(Cardinality(Agreed), Total_inputs)'
                   = BelowThreshold(Cardinality(Agreed), Total_inputs)
             /\ Answer(MomentsIn(campaign, Agreed))' = Answer(MomentsIn(campaign, Agreed))
  BY <1>1, SameAgreed DEF Total_inputs, msg
<1>2. CASE RecvSums
  <2>1. result' = Abstract!Outcome /\ UNCHANGED <<campaign, share_map>>
    BY <1>2, ReportDecides DEF Abstract!Decide
  <2> QED
    BY <1>1, <2>1, AbstractOutcome, MomentsAgreed DEF Reception
<1>3. ASSUME UNCHANGED <<campaign, share_map, result>>, pc[0] = "done"
      PROVE  result' = IF BelowThreshold(Cardinality(Agreed), Total_inputs)' THEN Invalid
                       ELSE Answer(MomentsIn(campaign, Agreed))'
  BY <1>1, <1>3 DEF Decided
<1>4. CASE UNCHANGED vars \/ ClientStep
  BY <1>3, <1>4 DEF vars, ClientStep, Close, SendNext
<1>5. ASSUME NEW s \in Server, RecvPacket(s) PROVE FALSE
  <2>1. pc[s] = "packet" /\ pc' = [pc EXCEPT ![s] = "recv"] /\ pc \in [Server -> Places]
    BY <1>5 DEF RecvPacket, Exchange
  <2>2. pc[0] = "done"
    BY <2>1 DEF Server
  <2>3. s = 1 /\ pc[1] \in PreCheck
    BY <2>1, <2>2 DEF Server, PreCheck, Receiving
  <2> QED
    BY <2>2, <2>3 DEF Exchange, Together, PreCheck, Receiving
<1>6. ASSUME NEW s \in Server, RecvShare(s) \/ Validate(s)
      PROVE  UNCHANGED <<campaign, share_map, result>> /\ pc[0] = "done"
  <2>1. /\ UNCHANGED <<campaign, share_map, result>> /\ pc \in [Server -> Places]
        /\ \E place \in Places \ {"done"} : pc' = [pc EXCEPT ![s] = place]
    BY <1>6 DEF RecvShare, Validate, SendCor, NoCircuit, RecvCor, RecvOut, Exchange, Places
  <2> QED
    BY <2>1 DEF Server
<1>7. CASE RecvPks \/ SendValid
  BY <1>7 DEF RecvPks, SendValid, Exchange, Server
<1>8. CASE SendPks \/ RecvValid
  <2>1. UNCHANGED <<campaign, share_map, result>> /\ pc'[0] = pc[0]
    BY <1>8 DEF SendPks, RecvValid, Exchange, Server
  <2> QED
    BY <1>3, <2>1
<1>9. CASE Convert
  BY <1>9 DEF Convert, Server
<1>10. CASE Server0Step
  BY <1>2, <1>3, <1>5, <1>6, <1>7, <1>10 DEF Server0Step, Receive, Server
<1>11. CASE Server1Step
  BY <1>3, <1>5, <1>6, <1>8, <1>11 DEF Server1Step, Receive, Server
<1> QED
  BY <1>4, <1>9, <1>10, <1>11 DEF Next

\* A valid submission is what the circuit asks for, and its proof proves it.
LEMMA ValidMade ==
  ASSUME campaign \in Campaigns, NEW k \in campaign.valid
  PROVE  /\ k \in DOMAIN campaign.subs /\ campaign.subs[k].intact
         /\ Opened(campaign, k) = InputsOf(campaign, Values(campaign, k))
         /\ campaign.subs[k].proved = Opened(campaign, k)
<1>1. k \in DOMAIN campaign.subs
  BY ValidAssumption
<1>2. Genuine(campaign, k)
  BY RoutinesAssumption, Zenon
<1> QED
  BY <1>1, <1>2 DEF Genuine

\* What a routine spoilt, it spoilt in one of these ways.
LEMMA OthersSpoilt ==
  ASSUME campaign \in Campaigns, NEW k \in DOMAIN campaign.subs, k \notin campaign.valid,
         campaign.subs[k].pk[0] = campaign.subs[k].pk[1],
         \A s \in Server : ~OutOfRange(campaign.subs[k].val[s])
  PROVE  \/ ~campaign.subs[k].intact
         \/ \E f \in Fields :
               Opened(campaign, k)[f] % Modulus # campaign.subs[k].proved[f] % Modulus
         \/ ~Satisfies(CircuitOf(msg.type, Degree), Opened(campaign, k), Modulus)
<1>1. \A s \in Server, f \in FieldsOf(campaign.msg.type, campaign.degree) :
        \A b \in campaign.subs[k].val[s][f] : ~(b >= FieldWidth(campaign, f))
  BY Zenon DEF OutOfRange, Width, Fields, msg
<1>2. k \in DOMAIN campaign.subs \ campaign.valid
  OBVIOUS
<1>3. Spoilt(campaign, k)
  BY <1>2, RoutinesAssumption, Zenon
<1> QED
  BY <1>1, <1>3 DEF Spoilt, Fields, msg, Degree

\* A submission's fields are what it opens to, reduced.
LEMMA ClearIsReduced ==
  ASSUME campaign \in Campaigns, NEW k \in DOMAIN campaign.subs
  PROVE  /\ Opened(campaign, k) \in [Fields -> Int]
         /\ Clear(k) = [f \in Fields |-> Opened(campaign, k)[f] % Modulus]
         /\ Values(campaign, k) \in [1 .. Degree -> Int]
         /\ Satisfies(CircuitOf(msg.type, Degree), Opened(campaign, k), Modulus)
              <=> Satisfies(CircuitOf(msg.type, Degree), Clear(k), Modulus)
<1>1. /\ Degree \in Nat \ {0} /\ (msg.type # "LINREG_OP" => Degree = 1)
      /\ DOMAIN campaign.subs[k].val[0] = Fields /\ Modulus \in Nat \ {0}
      /\ DOMAIN campaign.subs[k].proved = Fields
  BY FieldsAssumption, ModulusAssumption DEF Fields, msg, Degree, Server
<1>2. \A f \in Fields :
        Number(SymDiff(campaign.subs[k].val[0][f], campaign.subs[k].val[1][f])) \in Int
  BY ClearFields
<1>3. Opened(campaign, k)
        = [f \in Fields |-> Number(SymDiff(campaign.subs[k].val[0][f], campaign.subs[k].val[1][f]))]
  BY DEF Opened, Fields, msg
<1>4. Opened(campaign, k) \in [Fields -> Int]
  BY <1>2, <1>3
<1>5. Clear(k) = [f \in Fields |-> Opened(campaign, k)[f] % Modulus]
  BY <1>1, <1>3 DEF Clear
<1>6. Values(campaign, k) \in [1 .. Degree -> Int]
  <2>1. ASSUME NEW v \in 1 .. Degree PROVE Opened(campaign, k)[v - 1] \in Int
    <3>1. v - 1 \in 0 .. Degree - 1
      BY <1>1
    <3>2. v - 1 \in Fields
      BY <3>1, ColumnHolds
    <3> QED
      BY <1>4, <3>2
  <2> QED
    BY <2>1 DEF Values, Degree
<1>7. Satisfies(CircuitOf(msg.type, Degree), Opened(campaign, k), Modulus)
        <=> Satisfies(CircuitOf(msg.type, Degree), Clear(k), Modulus)
  <2>1. Fields = FieldsOf(msg.type, Degree)
    BY DEF Fields, Degree
  <2> QED
    BY ZenonT(40), <1>1, <1>4, <1>5, <2>1, SatisfiesReduced
<1> QED
  BY <1>4, <1>5, <1>6, <1>7

\* When both servers have read a whole batch, what they count is what is valid.
LEMMA AllCounted ==
  ASSUME Reception, FirstCome, \A s \in Server : taken[s] = 2 * Total_inputs
  PROVE  Agreed = campaign.valid
<1>1. /\ campaign \in Campaigns /\ Total_inputs \in Nat
      /\ DOMAIN campaign.subs = 1 .. Total_inputs
  BY BatchSize DEF Reception
<1>2. ASSUME NEW k \in campaign.valid PROVE k \in Agreed
  <2>1. /\ k \in DOMAIN campaign.subs /\ campaign.subs[k].intact
        /\ Opened(campaign, k) = InputsOf(campaign, Values(campaign, k))
        /\ campaign.subs[k].proved = Opened(campaign, k)
    BY <1>1, ValidMade
  <2>2. k \in 1 .. Total_inputs
    BY <1>1, <2>1
  <2>3. \A s \in Server : 2 * k <= taken[s]
    BY <1>1, <2>2
  <2>4. \A s \in Server : /\ campaign.subs[k].pk[s] \in DOMAIN share_map[s]
                          /\ share_map[s][campaign.subs[k].pk[s]] = k
    BY <2>3 DEF FirstCome
  <2>5. campaign.subs[k].pk[0] = campaign.subs[k].pk[1]
    BY <1>1, OwnKey
  <2>6. \E pk \in DOMAIN share_map[0] \cap DOMAIN share_map[1] :
           share_map[0][pk] = k /\ share_map[1][pk] = k
    BY <2>4, <2>5 DEF Server
  <2>7. /\ Opened(campaign, k) \in [Fields -> Int]
        /\ Clear(k) = [f \in Fields |-> Opened(campaign, k)[f] % Modulus]
        /\ Values(campaign, k) \in [1 .. Degree -> Int]
        /\ Satisfies(CircuitOf(msg.type, Degree), Opened(campaign, k), Modulus)
              <=> Satisfies(CircuitOf(msg.type, Degree), Clear(k), Modulus)
    BY <1>1, <2>1, ClearIsReduced
  <2>8. Satisfies(CircuitOf(msg.type, Degree), Opened(campaign, k), Modulus)
    <3>1. campaign.degree \in Nat \ {0} /\ (campaign.msg.type # "LINREG_OP" => campaign.degree = 1)
      BY <1>1, FieldsAssumption
    <3>2. Values(campaign, k) \in [1 .. campaign.degree -> Int]
      BY <2>7 DEF Degree
    <3> QED
      BY <2>1, <3>1, <3>2, InputsSatisfy DEF msg, Degree
  <2>9. Clear(k) = [f \in DOMAIN campaign.subs[k].proved |-> campaign.subs[k].proved[f] % Modulus]
    BY <2>1, <2>7
  <2>10. Proved(k)
    BY <2>1, <2>7, <2>8, <2>9 DEF Proved
  <2> QED
    BY <2>1, <2>6, <2>10 DEF Agreed
<1>3. ASSUME NEW k \in Agreed PROVE k \in campaign.valid
  <2> SUFFICES ASSUME k \notin campaign.valid PROVE FALSE
    OBVIOUS
  <2>1. k \in DOMAIN campaign.subs /\ Proved(k)
    BY DEF Agreed
  <2>2. PICK pk \in DOMAIN share_map[0] \cap DOMAIN share_map[1] :
             share_map[0][pk] = k /\ share_map[1][pk] = k
    BY DEF Agreed
  <2>3. \A s \in Server : pk \in DOMAIN share_map[s] /\ share_map[s][pk] = k
    BY <2>2 DEF Server
  <2>4. \A s \in Server : campaign.subs[k].pk[s] = pk /\ ~OutOfRange(campaign.subs[k].val[s])
    BY <2>3 DEF Reception, StoredWhole, FirstCome
  <2>5. campaign.subs[k].pk[0] = campaign.subs[k].pk[1]
    BY <2>4 DEF Server
  <2>6. \/ ~campaign.subs[k].intact
        \/ \E f \in Fields : Opened(campaign, k)[f] % Modulus # campaign.subs[k].proved[f] % Modulus
        \/ ~Satisfies(CircuitOf(msg.type, Degree), Opened(campaign, k), Modulus)
    BY <1>1, <2>1, <2>4, <2>5, OthersSpoilt
  <2>7. /\ Clear(k) = [f \in Fields |-> Opened(campaign, k)[f] % Modulus]
        /\ Satisfies(CircuitOf(msg.type, Degree), Opened(campaign, k), Modulus)
              <=> Satisfies(CircuitOf(msg.type, Degree), Clear(k), Modulus)
    BY <1>1, <2>1, ClearIsReduced
  <2>8. Clear(k) = [f \in DOMAIN campaign.subs[k].proved |-> campaign.subs[k].proved[f] % Modulus]
    BY <2>1 DEF Proved
  <2>9. DOMAIN campaign.subs[k].proved = Fields
    BY <2>7, <2>8
  <2>10. \A f \in Fields : Opened(campaign, k)[f] % Modulus = campaign.subs[k].proved[f] % Modulus
    BY <2>7, <2>8, <2>9
  <2> QED
    BY <2>1, <2>6, <2>7, <2>10 DEF Proved
<1> QED
  BY <1>2, <1>3

\* A column of ones and the values before they are reduced; sums of products.
OpenRow(k) == <<1>> \o Values(campaign, k)
OpenSum(i_, j_, S) == MapThenSumSet(LAMBDA k : OpenRow(k)[i_] * OpenRow(k)[j_], S)

\* These sums may be taken in any order,
LEMMA OpenAny ==
  ASSUME NEW i_, NEW j_, NEW S, NEW F, Summable(S, F),
         F = [k \in S |-> OpenRow(k)[i_] * OpenRow(k)[j_]]
  PROVE  \E fold : OpenSum(i_, j_, S) = fold[S] /\ AnyOrder(S, F, fold)
<1> DEFINE Fix(h) == [s \in SUBSET S |-> IF s = {} THEN 0 ELSE
                        LET x == (CHOOSE y \in s : TRUE)
                        IN  OpenRow(x)[i_] * OpenRow(x)[j_] + h[s \ {x}]]
           fold == CHOOSE h : h = Fix(h)
<1>1. OpenSum(i_, j_, S) = fold[S]
  BY DEF OpenSum, MapThenSumSet, MapThenFoldSet
<1>2. \A k \in S : F[k] = OpenRow(k)[i_] * OpenRow(k)[j_]
  OBVIOUS
<1>3. PICK iter : iter \in [SUBSET S -> Int] /\ Summed(S, F, iter)
  BY SumExists
<1>4. ASSUME NEW s \in SUBSET S PROVE iter[s] = Fix(iter)[s]
  <2>1. CASE s = {}
    BY <1>3, <2>1 DEF Summed
  <2>2. CASE s # {}
    <3>1. iter[s] = F[Arb(s)] + iter[s \ {Arb(s)}]
      BY <1>3, <2>2 DEF Summed
    <3>2. F[Arb(s)] = OpenRow(Arb(s))[i_] * OpenRow(Arb(s))[j_]
      BY <1>2, <2>2, ArbIn
    <3> QED
      BY <2>2, <3>1, <3>2 DEF Arb
  <2> QED
    BY <2>1, <2>2
<1>5. iter = Fix(iter)
  BY <1>3, <1>4
<1>6. fold = Fix(fold)
  <2> HIDE DEF Fix
  <2> QED
    BY <1>5, Zenon
<1> HIDE DEF fold
<1>7. Summed(S, F, fold)
  <2>1. fold[{}] = 0
    BY <1>6
  <2>2. ASSUME NEW s \in SUBSET S, s # {} PROVE fold[s] = F[Arb(s)] + fold[s \ {Arb(s)}]
    <3>1. fold[s] = OpenRow(Arb(s))[i_] * OpenRow(Arb(s))[j_] + fold[s \ {Arb(s)}]
      BY <1>6, <2>2 DEF Arb
    <3> QED
      BY <1>2, <2>2, <3>1, ArbIn
  <2> QED
    BY <2>1, <2>2 DEF Summed
<1>8. AnyOrder(S, F, fold)
  BY <1>7, SumAny
<1> QED
  BY <1>1, <1>8

\* A row holds what the values are, reduced.
LEMMA RowIsReduced ==
  ASSUME campaign \in Campaigns, NEW k \in Agreed, NEW a \in 1 .. Degree + 1
  PROVE  Row(k)[a] \in Int /\ OpenRow(k)[a] \in Int /\ Cong(Row(k)[a], OpenRow(k)[a], Modulus)
<1>1. /\ Degree \in Nat \ {0} /\ Modulus \in Nat \ {0} /\ k \in DOMAIN campaign.subs
      /\ Row(k)[a] \in Int
  BY FieldsAre, RowIsInt DEF Agreed
<1>2. PICK q : q = Values(campaign, k)
  OBVIOUS
<1>3. q \in [1 .. Degree -> Int] /\ q = [v \in 1 .. Degree |-> q[v]]
  BY <1>1, <1>2, ClearIsReduced
<1>4. PICK one : one = <<1>> /\ one = [v \in 1 .. 1 |-> one[v]] /\ one[1] = 1
  <2>1. PICK o : o = <<1>>
    OBVIOUS
  <2>2. o = [v \in 1 .. 1 |-> o[v]] /\ o[1] = 1
    BY <2>1
  <2> QED
    BY <2>1, <2>2
<1>5. /\ \A v \in 1 .. 1 : (one \o q)[v] = one[v]
      /\ \A v \in 1 .. Degree : (one \o q)[1 + v] = q[v]
  BY <1>1, <1>3, <1>4, Joined
<1>6. OpenRow(k) = one \o q
  BY <1>2, <1>4 DEF OpenRow
<1>7. CASE a = 1
  <2>1. OpenRow(k)[1] = 1
    <3>1. 1 \in 1 .. 1
      OBVIOUS
    <3> QED
      BY <1>4, <1>5, <1>6, <3>1
  <2>2. Row(k)[1] = 1
    BY RowTerms
  <2>3. Cong(1, 1, Modulus)
    BY <1>1, CongSelf
  <2> QED
    BY <1>7, <2>1, <2>2, <2>3
<1>8. CASE a # 1
  <2>1. PICK v \in 0 .. Degree - 1 : v + 2 = a /\ 1 + (v + 1) = a /\ v + 1 \in 1 .. Degree
                                  /\ (v + 1) - 1 = v
    <3>1. a - 2 \in 0 .. Degree - 1 /\ (a - 2) + 2 = a /\ 1 + ((a - 2) + 1) = a
          /\ (a - 2) + 1 \in 1 .. Degree /\ ((a - 2) + 1) - 1 = a - 2
      BY <1>1, <1>8
    <3> QED
      BY <3>1
  <2>2. v \in Fields
    BY ColumnHolds
  <2>3. PICK x \in Int : x = Opened(campaign, k)[v]
    BY <1>1, <2>2, ClearIsReduced
  <2>4. OpenRow(k)[a] = x
    <3>1. OpenRow(k)[1 + (v + 1)] = q[v + 1]
      BY <1>5, <1>6, <2>1
    <3>2. q[v + 1] = Opened(campaign, k)[(v + 1) - 1]
      BY <1>2, <2>1 DEF Values, Degree
    <3> QED
      BY <2>1, <2>3, <3>1, <3>2
  <2>5. Row(k)[a] = x % Modulus
    <3>1. Row(k)[v + 2] = Clear(k)[v]
      BY RowTerms
    <3>2. Clear(k)[v] = Opened(campaign, k)[v] % Modulus
      BY <1>1, <2>2, ClearIsReduced
    <3> QED
      BY <2>1, <2>3, <3>1, <3>2
  <2>6. PICK r \in Int : r = x % Modulus
    <3>1. PICK m \in Nat \ {0} : m = Modulus
      BY <1>1
    <3>2. x % m \in 0 .. m - 1
      BY ModRange
    <3> QED
      BY <3>1, <3>2
  <2>7. Cong(r, x, Modulus)
    BY <1>1, <2>6, ModCong
  <2> QED
    BY <2>4, <2>5, <2>6, <2>7
<1> QED
  BY <1>1, <1>7, <1>8

\* so that they come to the same.
LEMMA SameSums ==
  ASSUME campaign \in Campaigns, NEW a \in 1 .. Degree + 1, NEW b \in 1 .. Degree + 1
  PROVE  MomentSum(a, b, Agreed) % Modulus = OpenSum(a, b, Agreed) % Modulus
<1>1. PICK S : S = Agreed
  OBVIOUS
<1>2. IsFiniteSet(S)
  BY <1>1, AgreedFinite
<1>3. PICK F : F = [k \in S |-> Row(k)[a] * Row(k)[b]]
  OBVIOUS
<1>4. PICK G : G = [k \in S |-> OpenRow(k)[a] * OpenRow(k)[b]]
  OBVIOUS
<1>5. PICK Z : Z = [k \in S |-> 0]
  OBVIOUS
<1>6. PICK g : g = [k \in S |-> k]
  OBVIOUS
<1>7. PICK zero : zero = [U \in SUBSET S |-> 0]
  OBVIOUS
<1>8. ASSUME NEW k \in S
      PROVE  F[k] \in Int /\ G[k] \in Int /\ Cong(F[k] + Z[k], G[g[k]], Modulus)
  <2>1. /\ Row(k)[a] \in Int /\ OpenRow(k)[a] \in Int /\ Cong(Row(k)[a], OpenRow(k)[a], Modulus)
        /\ Row(k)[b] \in Int /\ OpenRow(k)[b] \in Int /\ Cong(Row(k)[b], OpenRow(k)[b], Modulus)
    BY <1>1, RowIsReduced
  <2>2. Modulus \in Nat
    BY ModulusAssumption
  <2>3. Cong(Row(k)[a] * Row(k)[b], OpenRow(k)[a] * OpenRow(k)[b], Modulus)
    BY <2>1, <2>2, CongTimes
  <2>4. PICK x \in Int : x = Row(k)[a] * Row(k)[b]
    BY <2>1
  <2>5. PICK y \in Int : y = OpenRow(k)[a] * OpenRow(k)[b]
    BY <2>1
  <2>6. F[k] = x /\ G[k] = y /\ Z[k] = 0 /\ g[k] = k /\ x + 0 = x
    BY <1>3, <1>4, <1>5, <1>6, <2>4, <2>5
  <2>7. Cong(x, y, Modulus)
    BY <2>3, <2>4, <2>5
  <2> QED
    BY <2>6, <2>7
<1>9. Summable(S, F) /\ Summable(S, G) /\ Summable(S, Z)
  BY <1>2, <1>3, <1>4, <1>5, <1>8 DEF Summable
<1>10. AnyOrder(S, Z, zero)
  BY <1>5, <1>7 DEF AnyOrder
<1>11. PICK f : MomentSum(a, b, S) = f[S] /\ AnyOrder(S, F, f)
  BY <1>3, <1>9, MomentAny
<1>12. PICK h : OpenSum(a, b, S) = h[S] /\ AnyOrder(S, G, h)
  BY <1>4, <1>9, OpenAny
<1>13. SharedOut(S, F, Z, S, G, g, Modulus)
  <2>1. S = {g[x] : x \in S} /\ \A x, y \in S : g[x] = g[y] => x = y
    BY <1>6
  <2>2. Modulus \in Nat
    BY ModulusAssumption
  <2> QED
    BY <1>8, <1>9, <2>1, <2>2 DEF SharedOut
<1>14. Cong(f[S] + zero[S], h[S], Modulus)
  BY <1>10, <1>11, <1>12, <1>13, SharesSum
<1>15. f[S] \in Int /\ h[S] \in Int /\ zero[S] = 0 /\ f[S] + 0 = f[S]
  BY <1>7, <1>11, <1>12 DEF AnyOrder
<1>16. f[S] % Modulus = h[S] % Modulus
  <2>1. PICK x \in Int : x = f[S]
    BY <1>15
  <2>2. PICK y \in Int : y = h[S]
    BY <1>15
  <2>3. Cong(x, y, Modulus)
    BY <1>14, <1>15, <2>1, <2>2
  <2> QED
    BY <2>1, <2>2, <2>3, ModulusAssumption, CongMod
<1> QED
  BY <1>1, <1>11, <1>12, <1>16

\* The moments of the values reduced are those of the values themselves.
LEMMA MomentsOpen ==
  ASSUME campaign \in Campaigns
  PROVE  Moments = MomentsOf(msg.type, Degree, Agreed, LAMBDA k : Values(campaign, k), Modulus)
<1>1. PICK S : S = Agreed
  OBVIOUS
<1>2. MomentsOf(msg.type, Degree, S, LAMBDA k : Values(campaign, k), Modulus)
        = IF msg.type = "LINREG_OP"
          THEN [num |-> Cardinality(S),
                X |-> [p \in (0 .. Degree - 1) \X (0 .. Degree - 1) |->
                          OpenSum(p[1] + 1, p[2] + 1, S) % Modulus],
                Y |-> [n \in 0 .. Degree - 1 |-> OpenSum(n + 1, Degree + 1, S) % Modulus]]
          ELSE [num |-> Cardinality(S),
                sums |-> [f \in 0 .. 1 |-> OpenSum(f + 1, 2, S) % Modulus]]
  BY Zenon DEF MomentsOf, OpenSum, OpenRow, MapThenSumSet, MapThenFoldSet
<1>3. Degree \in Nat \ {0} /\ (msg.type # "LINREG_OP" => Degree = 1)
  BY FieldsAre
<1>4. CASE msg.type = "LINREG_OP"
  <2>1. ASSUME NEW p \in (0 .. Degree - 1) \X (0 .. Degree - 1)
        PROVE  MomentSum(p[1] + 1, p[2] + 1, S) % Modulus = OpenSum(p[1] + 1, p[2] + 1, S) % Modulus
    <3>1. p[1] + 1 \in 1 .. Degree + 1 /\ p[2] + 1 \in 1 .. Degree + 1
      BY <1>3
    <3> QED
      BY <1>1, <3>1, SameSums
  <2>2. ASSUME NEW n \in 0 .. Degree - 1
        PROVE  MomentSum(n + 1, Degree + 1, S) % Modulus = OpenSum(n + 1, Degree + 1, S) % Modulus
    <3>1. n + 1 \in 1 .. Degree + 1 /\ Degree + 1 \in 1 .. Degree + 1
      BY <1>3
    <3> QED
      BY <1>1, <3>1, SameSums
  <2> QED
    BY <1>1, <1>2, <1>4, <2>1, <2>2 DEF Moments
<1>5. CASE msg.type # "LINREG_OP"
  <2>1. ASSUME NEW f \in 0 .. 1
        PROVE  MomentSum(f + 1, 2, S) % Modulus = OpenSum(f + 1, 2, S) % Modulus
    <3>1. f + 1 \in 1 .. Degree + 1 /\ 2 \in 1 .. Degree + 1
      BY <1>3, <1>5
    <3> QED
      BY <1>1, <3>1, SameSums
  <2> QED
    BY <1>1, <1>2, <1>5, <2>1 DEF Moments
<1> QED
  BY <1>4, <1>5

\* When both servers have read a whole batch, the moments are those its client
\* prints.
LEMMA PrintedIsMoments ==
  ASSUME campaign \in Campaigns, Agreed = campaign.valid
  PROVE  Moments = campaign.printed /\ campaign.printed.num = Cardinality(Agreed)
<1>1. campaign.printed
        = MomentsOf(campaign.msg.type, campaign.degree, campaign.valid,
                    LAMBDA k : Values(campaign, k), Modulus)
  BY RoutinesAssumption, ZenonT(40)
<1>2. Moments = campaign.printed
  BY <1>1, MomentsOpen, Zenon DEF msg, Degree
<1>3. Moments.num = Cardinality(Agreed)
  BY DEF Moments
<1> QED
  BY <1>2, <1>3

\* A client that delivered its batch gets the moments of the values of the
\* submissions its routine calls valid, computed without being reduced before
\* they are multiplied, or RET_INVALID if it spoilt more than it left valid; for
\* every batch whose fields have room in a word next to the modulus.
THEOREM HonestGetMoments ==
  ASSUME ModulusFits
  PROVE  Spec => []HonestMoments
<1>1. Reception /\ Exchange /\ FirstCome /\ Decided => HonestMoments
  <2> SUFFICES ASSUME Reception, Exchange, FirstCome, Decided, ClientDone, Returned
               PROVE  result = IF Total_inputs - campaign.printed.num > campaign.printed.num
                               THEN Invalid ELSE Answer(campaign.printed)
    BY DEF HonestMoments
  <2>1. campaign \in Campaigns /\ pc[0] = "done"
    BY DEF Reception, Returned, Server
  <2>2. \A s \in Server : taken[s] = 2 * Total_inputs
    <3> SUFFICES ASSUME NEW s \in Server PROVE taken[s] = 2 * Total_inputs
      OBVIOUS
    <3>1. pc[s] = "done" /\ sent[s] = 2 * Total_inputs
      BY DEF Returned, ClientDone
    <3> QED
      BY <3>1 DEF Reception, Turns, AtEof, Receiving
  <2>3. Agreed = campaign.valid
    BY <2>2, AllCounted
  <2>4. Moments = campaign.printed /\ campaign.printed.num = Cardinality(Agreed)
    BY <2>1, <2>3, PrintedIsMoments
  <2>5. BelowThreshold(campaign.printed.num, Total_inputs)
          <=> Total_inputs - campaign.printed.num > campaign.printed.num
    <3>1. PICK n : n = campaign.printed.num
      OBVIOUS
    <3>2. n \in Nat /\ Total_inputs \in Nat
      BY <2>1, <2>4, <3>1, AgreedFinite, BatchSize, FS_CardinalityType
    <3> QED
      BY <3>1, <3>2 DEF BelowThreshold
  <2> QED
    BY <2>1, <2>4, <2>5, MomentsAgreed DEF Decided
<1>2. Spec => []Settled
  BY SettledHolds
<1>3. Spec => []Decided
  BY <1>2, InitDecided, StepKeepsDecided, ReceptionHolds, ExchangeHolds, PTL DEF Spec
<1> QED
  BY <1>1, <1>3, ReceptionHolds, ExchangeHolds, FirstComeHolds, PTL
=============================================================================
