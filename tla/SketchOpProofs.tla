--------------------------- MODULE SketchOpProofs ---------------------------
(***************************************************************************)
(* Proofs about SketchOp, for every campaign, hash and modulus: whatever   *)
(* the batch check says, and whatever server 1's unwritten flags hold, the *)
(* two handlers take the same branch and read what they were sent; and the *)
(* counts are the true ones, a batch being counted whole or not at all,    *)
(* and no frequent value is missing from the answer.                       *)
(***************************************************************************)
EXTENDS SketchOp, OTConversionProofs, SequenceTheorems

Places0 == {"recv", "convert", "check", "single", "sum", "done"}
Places1 == {"recv", "convert", "send_check", "verdict", "valid", "done"}
Early == {"recv", "convert"}

(* Reception: what the client and the receiving loops leave.               *)
Reception ==
    /\ campaign \in Campaigns
    /\ client \in {"sending", "closed"}
    /\ sent \in [Server -> Nat] /\ i \in [Server -> Nat] /\ taken \in [Server -> Nat]
    /\ share_map = [s \in Server |-> share_map[s]]
    /\ \A s \in Server : taken[s] <= sent[s] /\ taken[s] <= i[s] /\ i[s] <= Total_inputs
    /\ \A s \in Server : IsFiniteSet(DOMAIN share_map[s])

(* Exchange: where the two servers are, and what is on their connection.   *)
\* The verdict server 0 has sent asks for a second round.
Second == Len(to[1]) > 0 /\ ~to[1][1].val /\ cfg.type = "FREQ_OP"

Shaped ==
    /\ to = [s \in Server |-> to[s]]
    /\ \A s \in Server : Len(to[s]) \in Nat /\ to[s] = [k \in 1 .. Len(to[s]) |-> to[s][k]]

\* The messages in the order they are written.
Carried ==
    /\ Len(to[0]) >= 1 => to[0][1].kind = "pks" /\ to[0][1].val = pk_list[1]
    /\ Len(to[0]) >= 2 => to[0][2].kind = "checks"
    /\ Len(to[0]) >= 3 => to[0][3].kind = IF Second THEN "singles" ELSE "sum"
    /\ Len(to[0]) >= 4 => to[0][4].kind = "sum"
    /\ Len(to[1]) >= 1 => to[1][1].kind = "all_valid" /\ to[1][1].val \in BOOLEAN
    /\ Len(to[1]) >= 2 => to[1][2].kind = "valid" /\ to[1][2].val = valid[0]

\* How many of them are written, and read, when a server is where it is.
Written ==
    /\ pc[1] = "recv" => Len(to[0]) = 0
    /\ pc[1] \in {"convert", "send_check"} => Len(to[0]) = 1
    /\ pc[1] = "verdict" => Len(to[0]) = 2
    /\ pc[1] = "valid" => Len(to[0]) = 3
    /\ pc[1] = "done" => Len(to[0]) = IF Second THEN 4 ELSE 3
    /\ pc[0] \in Early \cup {"check"} => Len(to[1]) = 0
    /\ pc[0] = "single" => Len(to[1]) = 1
    /\ pc[0] \in {"sum", "done"} => Len(to[1]) = IF Second THEN 2 ELSE 1
WasRead ==
    /\ pc[0] = "recv" => rcvd[0] = 0
    /\ pc[0] \in {"convert", "check"} => rcvd[0] = 1
    /\ pc[0] = "single" => rcvd[0] = 2
    /\ pc[0] = "sum" => rcvd[0] = IF Second THEN 3 ELSE 2
    /\ pc[0] = "done" => rcvd[0] = IF Second THEN 4 ELSE 3
    /\ pc[1] \in Early \cup {"send_check", "verdict"} => rcvd[1] = 0
    /\ pc[1] = "valid" => rcvd[1] = 1
    /\ pc[1] = "done" => rcvd[1] = IF Second THEN 2 ELSE 1

\* A server reads no more than it was sent.
Behind == rcvd[0] <= Len(to[0]) /\ rcvd[1] <= Len(to[1])

\* Where the two can be at the same time.
Together ==
    /\ pc[0] \in Early <=> pc[1] \in Early
    /\ pc[0] = "single" => Second
    /\ pc[1] = "valid" => Second

\* A flag for each listed key.
Flags ==
    /\ valid \in [Server -> Seq(BOOLEAN)]
    /\ pk_list = [s \in Server |-> pk_list[s]]
    /\ Len(pk_list[1]) \in Nat /\ DOMAIN pk_list[1] = 1 .. Len(pk_list[1])
    /\ pc[0] # "recv" => pk_list[0] = pk_list[1] /\ Len(valid[0]) = Len(pk_list[1])
    /\ pc[1] = "done" => Len(valid[1]) = Len(pk_list[1])

Exchange ==
    /\ pc \in [Server -> Places0 \cup Places1] /\ pc[0] \in Places0 /\ pc[1] \in Places1
    /\ rcvd \in [Server -> Nat]
    /\ Shaped /\ Carried /\ Written /\ WasRead /\ Behind /\ Together /\ Flags
-----------------------------------------------------------------------------
\* A batch has a natural number of inputs.
LEMMA BatchSize == ASSUME campaign \in Campaigns PROVE Total_inputs \in Nat
  BY SketchAssumption, ModulusAssumption DEF Total_inputs

\* Both invariants hold before the first share.
LEMMA InitReception == Init => Reception
  <1> SUFFICES ASSUME Init PROVE Reception
    OBVIOUS
  <1>1. Total_inputs \in Nat
    BY BatchSize DEF Init
  <1>2. \A s \in Server : DOMAIN share_map[s] = {}
    BY DEF Init
  <1> QED
    BY <1>1, <1>2, FS_EmptySet DEF Init, Reception

\* No message is there at first.
LEMMA InitExchange == Init => Exchange
  <1> SUFFICES ASSUME Init PROVE Exchange
    OBVIOUS
  <1>1. Len(<<>>) = 0 /\ <<>> \in Seq(BOOLEAN) /\ DOMAIN <<>> = 1 .. 0
    OBVIOUS
  <1>2. Shaped /\ Carried
    BY <1>1 DEF Init, Shaped, Carried, Server
  <1>3. Written /\ WasRead /\ Behind /\ Together /\ Flags
    BY <1>1 DEF Init, Written, WasRead, Behind, Together, Flags, Early, Server
  <1> QED
    BY <1>2, <1>3 DEF Init, Exchange, Places0, Places1, Server
-----------------------------------------------------------------------------
(* Reception. *)

\* The client only moves its own counters.
LEMMA ClientKeepsReception == Reception /\ ClientStep => Reception'
  <1> SUFFICES ASSUME Reception, ClientStep PROVE Reception'
    OBVIOUS
  <1>1. UNCHANGED <<campaign, i, taken, share_map>> /\ Total_inputs' = Total_inputs
    BY DEF ClientStep, Close, SendShare, Total_inputs
  <1>2. CASE Close
    BY <1>1, <1>2 DEF Close, Reception
  <1>3. ASSUME NEW t \in Server, SendShare(t) PROVE Reception'
    <2>1. sent' = [sent EXCEPT ![t] = @ + 1] /\ client' = client
      BY <1>3 DEF SendShare
    <2>2. sent' \in [Server -> Nat] /\ \A s \in Server : sent[s] <= sent'[s]
      BY <2>1 DEF Reception
    <2>3. \A s \in Server : taken'[s] <= sent'[s]
      BY <1>1, <2>2 DEF Reception
    <2> QED
      BY <1>1, <2>1, <2>2, <2>3 DEF Reception
  <1> QED
    BY <1>2, <1>3 DEF ClientStep

\* Reading a vector, or none, and storing it.
LEMMA RecvKeepsReception ==
    ASSUME Reception, NEW s \in Server, Recv(s) PROVE Reception'
  <1>1. /\ UNCHANGED <<campaign, client, sent>> /\ Total_inputs' = Total_inputs
        /\ i[s] < Total_inputs /\ i' = [i EXCEPT ![s] = @ + 1]
        /\ Total_inputs \in Nat
    BY BatchSize DEF Recv, Total_inputs, Reception
  <1>2. i' \in [Server -> Nat] /\ \A t \in Server : i[t] <= i'[t] /\ i'[t] <= Total_inputs
    BY <1>1 DEF Reception
  <1>3. /\ taken' \in [Server -> Nat]
        /\ \A t \in Server : taken'[t] <= sent[t] /\ taken'[t] <= i'[t]
    <2>1. CASE taken[s] < sent[s] /\ taken' = [taken EXCEPT ![s] = @ + 1]
      BY <1>1, <2>1 DEF Reception
    <2>2. CASE UNCHANGED taken
      BY <1>2, <2>2 DEF Reception
    <2> QED
      BY <2>1, <2>2 DEF Recv
  <1>4. PICK key, bits : share_map' = [share_map EXCEPT ![s] = Keep(@, key, bits)]
    BY DEF Recv
  <1>5. /\ share_map' = [t \in Server |-> share_map'[t]]
        /\ share_map'[s] = Keep(share_map[s], key, bits)
        /\ \A t \in Server : t # s => share_map'[t] = share_map[t]
    BY <1>4 DEF Reception
  <1>6. \A t \in Server : IsFiniteSet(DOMAIN share_map'[t])
    <2>1. \/ DOMAIN share_map'[s] = DOMAIN share_map[s]
          \/ DOMAIN share_map'[s] = DOMAIN share_map[s] \cup {key}
      BY <1>5 DEF Keep
    <2>2. IsFiniteSet(DOMAIN share_map[s]) /\ IsFiniteSet(DOMAIN share_map[s] \cup {key})
      BY FS_AddElement DEF Reception
    <2> QED
      BY <1>5, <2>1, <2>2 DEF Reception
  <1> QED
    BY <1>1, <1>2, <1>3, <1>5, <1>6 DEF Reception

\* After the receiving loop nothing of it moves.
LEMMA StepKeepsReception == Reception /\ [Next]_vars => Reception'
  <1> SUFFICES ASSUME Reception, [Next]_vars PROVE Reception'
    OBVIOUS
  <1>1. ASSUME UNCHANGED <<campaign, client, sent, i, taken, share_map>> PROVE Reception'
    BY <1>1 DEF Reception, Total_inputs
  <1>2. CASE UNCHANGED vars
    BY <1>1, <1>2 DEF vars
  <1>3. CASE ClientStep
    BY <1>3, ClientKeepsReception
  <1>4. CASE Recv(0) \/ Recv(1)
    BY <1>4, RecvKeepsReception DEF Server
  <1>5. CASE RecvPks \/ CheckRows \/ CheckSingles \/ RecvTotals
    BY <1>1, <1>5 DEF RecvPks, CheckRows, CheckSingles, RecvTotals
  <1>6. CASE SendPks \/ SendChecks \/ RecvVerdict \/ RecvValid
    BY <1>1, <1>6 DEF SendPks, SendChecks, RecvVerdict, RecvValid
  <1>7. CASE Convert
    BY <1>1, <1>7 DEF Convert
  <1> QED
    BY <1>2, <1>3, <1>4, <1>5, <1>6, <1>7 DEF Next, Server0Step, Server1Step
-----------------------------------------------------------------------------
(* Exchange. *)

\* A stream with one message more.
LEMMA AppendToStream ==
    ASSUME NEW q, Len(q) \in Nat, q = [k \in 1 .. Len(q) |-> q[k]], NEW e
    PROVE  /\ Len(Append(q, e)) = Len(q) + 1
           /\ Append(q, e) = [k \in 1 .. Len(Append(q, e)) |-> Append(q, e)[k]]
           /\ Append(q, e)[Len(q) + 1] = e
           /\ \A n \in 1 .. Len(q) : Append(q, e)[n] = q[n]
  <1> DEFINE S == {q[k] : k \in 1 .. Len(q)} \cup {e}
  <1>1. q \in Seq(S) /\ e \in S
    OBVIOUS
  <1> HIDE DEF S
  <1>2. /\ Append(q, e) \in Seq(S) /\ Len(Append(q, e)) = Len(q) + 1
        /\ Append(q, e)[Len(q) + 1] = e
        /\ \A n \in 1 .. Len(q) : Append(q, e)[n] = q[n]
    BY <1>1, AppendProperties
  <1>3. Append(q, e) \in [1 .. Len(Append(q, e)) -> S]
    BY <1>2, LenProperties
  <1> QED
    BY <1>2, <1>3

\* Server s is sent one message more, and the other nothing.
Sent(s, kind, val) ==
    /\ Shaped' /\ Len(to'[s]) = Len(to[s]) + 1
    /\ to'[s][Len(to[s]) + 1].kind = kind /\ to'[s][Len(to[s]) + 1].val = val
    /\ \A n \in 1 .. Len(to[s]) : to'[s][n] = to[s][n]
    /\ \A t \in Server : t # s => to'[t] = to[t]

\* What sending does to the streams.
LEMMA SendAppends ==
    ASSUME Shaped, NEW s \in Server, NEW kind, NEW val, Send(s, kind, val)
    PROVE  Sent(s, kind, val)
  <1> DEFINE e == Message(kind, val)
  <1>1. e.kind = kind /\ e.val = val
    BY DEF Message
  <1>2. to' = [to EXCEPT ![s] = Append(@, e)]
    BY DEF Send
  <1> HIDE DEF e
  <1>3. /\ to'[s] = Append(to[s], e) /\ \A t \in Server : t # s => to'[t] = to[t]
        /\ to' = [t \in Server |-> to'[t]]
    BY <1>2 DEF Shaped
  <1>4. /\ Len(to'[s]) = Len(to[s]) + 1
        /\ to'[s] = [k \in 1 .. Len(to'[s]) |-> to'[s][k]]
        /\ to'[s][Len(to[s]) + 1] = e
        /\ \A n \in 1 .. Len(to[s]) : to'[s][n] = to[s][n]
    BY <1>3, AppendToStream DEF Shaped
  <1>5. Len(to[s]) \in Nat /\ Len(to'[s]) \in Nat
    <2>1. Len(to[s]) \in Nat
      BY DEF Shaped
    <2> QED
      BY <1>4, <2>1
  <1>6. \A t \in Server : Len(to'[t]) \in Nat /\ to'[t] = [k \in 1 .. Len(to'[t]) |-> to'[t][k]]
    <2> TAKE t \in Server
    <2>1. CASE t = s
      BY <1>4, <1>5, <2>1
    <2>2. CASE t # s
      BY <1>3, <2>2 DEF Shaped
    <2> QED
      BY <2>1, <2>2
  <1>7. Shaped'
    BY <1>3, <1>6 DEF Shaped
  <1> QED
    BY <1>1, <1>3, <1>4, <1>7 DEF Sent

\* An assignment to one server's entry.
LEMMA Assigned ==
    ASSUME NEW f, f = [s \in Server |-> f[s]], NEW t \in Server, NEW v, NEW g,
           g = [f EXCEPT ![t] = v]
    PROVE  /\ g = [s \in Server |-> g[s]] /\ g[t] = v
           /\ \A s \in Server : s # t => g[s] = f[s]
  OBVIOUS

\* The servers are two.
LEMMA TwoServers == 0 \in Server /\ 1 \in Server /\ Server = {0, 1}
  BY DEF Server

\* Equal flags, one for each of n keys.
LEMMA EveryFlag ==
    ASSUME NEW n \in Nat, NEW flag \in BOOLEAN
    PROVE  Every(n, flag) \in Seq(BOOLEAN) /\ Len(Every(n, flag)) = n
  BY DEF Every

\* The client and the receiving loops leave the exchange alone.
LEMMA OutsideKeepsExchange ==
    ASSUME Exchange, UNCHANGED <<campaign, pc, to, rcvd, pk_list, valid>>
    PROVE  Exchange'
  <1>1. Second' = Second
    BY DEF Second, cfg
  <1>2. Shaped' /\ Carried' /\ Written' /\ WasRead' /\ Behind'
    BY <1>1 DEF Exchange, Shaped, Carried, Written, WasRead, Behind
  <1>3. Together' /\ Flags'
    BY <1>1 DEF Exchange, Together, Flags
  <1> QED
    BY <1>2, <1>3 DEF Exchange

\* Server 1 lists its keys.
LEMMA SendPksKeepsExchange == Reception /\ Exchange /\ SendPks => Exchange'
  <1> SUFFICES ASSUME Reception, Exchange, SendPks PROVE Exchange'
    OBVIOUS
  <1>0. /\ Shaped /\ Carried /\ Written /\ WasRead /\ Behind /\ Together
        /\ 0 \in Server /\ 1 \in Server
    BY TwoServers DEF Exchange
  <1>1. PICK order \in SetToSeqs(DOMAIN share_map[1]) :
           pk_list' = [pk_list EXCEPT ![1] = order] /\ Send(0, "pks", order)
    BY DEF SendPks
  <1>2. /\ pc[1] = "recv" /\ pc' = [pc EXCEPT ![1] = "convert"]
        /\ UNCHANGED <<campaign, rcvd, valid>>
    BY DEF SendPks
  <1>3. Len(order) \in Nat /\ DOMAIN order = 1 .. Len(order)
    <2>1. Cardinality(DOMAIN share_map[1]) \in Nat
      BY FS_CardinalityType DEF Reception, Server
    <2>2. order \in [1 .. Cardinality(DOMAIN share_map[1]) -> DOMAIN share_map[1]]
      BY DEF SetToSeqs
    <2> QED
      BY <2>1, <2>2
  <1>4. Len(to[0]) = 0 /\ Len(to[1]) = 0 /\ pc[0] = "recv" /\ rcvd[0] = 0 /\ rcvd[1] = 0
    BY <1>2 DEF Exchange, Written, WasRead, Behind, Together, Early, Server
  <1>5. /\ Shaped' /\ Len(to'[0]) = 1 /\ to'[1] = to[1]
        /\ to'[0][1].kind = "pks" /\ to'[0][1].val = order
    <2>1. Sent(0, "pks", order)
      BY <1>0, <1>1, SendAppends
    <2> QED
      BY <1>0, <1>4, <2>1 DEF Sent
  <1>6. /\ pc' \in [Server -> Places0 \cup Places1] /\ pc'[0] = "recv" /\ pc'[1] = "convert"
    BY <1>2, <1>4 DEF Exchange, Server, Places1
  <1>7. /\ pk_list' = [s \in Server |-> pk_list'[s]] /\ pk_list'[1] = order
        /\ pk_list'[0] = pk_list[0]
    <2>1. pk_list = [s \in Server |-> pk_list[s]] /\ 1 # 0
      BY DEF Exchange, Flags
    <2> QED
      BY <1>0, <1>1, <2>1, Assigned
  <1>8. Carried'
    BY <1>4, <1>5, <1>7 DEF Carried
  <1>9. Written' /\ WasRead' /\ Behind' /\ Together'
    BY <1>2, <1>4, <1>5, <1>6 DEF Written, WasRead, Behind, Together, Early, Server
  <1>10. Flags'
    BY <1>2, <1>3, <1>6, <1>7 DEF Exchange, Flags
  <1> QED
    BY <1>2, <1>5, <1>6, <1>8, <1>9, <1>10 DEF Exchange, Places0, Places1

\* Server 0 takes the list over and flags the keys it knows.
LEMMA RecvPksKeepsExchange == Exchange /\ RecvPks => Exchange'
  <1> SUFFICES ASSUME Exchange, RecvPks PROVE Exchange'
    OBVIOUS
  <1>0. /\ Shaped /\ Carried /\ Written /\ WasRead /\ Behind /\ Together
        /\ 0 \in Server /\ 1 \in Server
    BY TwoServers DEF Exchange
  <1>1. /\ pc[0] = "recv" /\ pc' = [pc EXCEPT ![0] = "convert"]
        /\ UNCHANGED <<campaign, to>> /\ rcvd[0] < Len(to[0])
        /\ rcvd' = [rcvd EXCEPT ![0] = @ + 1]
        /\ pk_list' = [pk_list EXCEPT ![0] = Incoming(0)]
        /\ valid' = [valid EXCEPT ![0] =
                       [n \in DOMAIN Incoming(0) |-> Incoming(0)[n] \in DOMAIN share_map[0]]]
    BY DEF RecvPks, CanRead, Read
  <1>2. /\ rcvd[0] = 0 /\ rcvd'[0] = 1 /\ rcvd'[1] = rcvd[1] /\ rcvd' \in [Server -> Nat]
        /\ pc[1] = "convert" /\ Len(to[0]) = 1 /\ Len(to[1]) = 0
    BY <1>1 DEF Exchange, Written, WasRead, Behind, Together, Early, Server
  <1>3. Incoming(0) = pk_list[1]
    BY <1>2 DEF Incoming, Exchange, Carried
  <1>4. /\ pk_list' = [s \in Server |-> pk_list'[s]]
        /\ pk_list'[0] = pk_list[1] /\ pk_list'[1] = pk_list[1]
    <2>1. pk_list = [s \in Server |-> pk_list[s]] /\ 1 # 0
      BY DEF Exchange, Flags
    <2> QED
      BY <1>1, <1>3, <2>1, Assigned, TwoServers
  <1>5. valid' \in [Server -> Seq(BOOLEAN)] /\ Len(valid'[0]) = Len(pk_list[1])
    <2> DEFINE flags == [n \in 1 .. Len(pk_list[1]) |-> pk_list[1][n] \in DOMAIN share_map[0]]
    <2>1. Len(pk_list[1]) \in Nat /\ DOMAIN pk_list[1] = 1 .. Len(pk_list[1])
          /\ valid \in [Server -> Seq(BOOLEAN)]
      BY DEF Exchange, Flags
    <2>2. flags \in Seq(BOOLEAN) /\ Len(flags) = Len(pk_list[1])
      BY <2>1
    <2>3. valid' = [valid EXCEPT ![0] = flags]
      BY <1>1, <1>3, <2>1
    <2> HIDE DEF flags
    <2> QED
      BY <2>1, <2>2, <2>3 DEF Server
  <1>6. /\ pc' \in [Server -> Places0 \cup Places1] /\ pc'[0] = "convert" /\ pc'[1] = "convert"
    BY <1>1, <1>2 DEF Exchange, Server, Places0
  <1>7. Shaped' /\ Carried'
    BY <1>0, <1>1, <1>2, <1>4 DEF Shaped, Carried
  <1>8. Written' /\ WasRead' /\ Behind' /\ Together'
    BY <1>0, <1>1, <1>2, <1>6 DEF Written, WasRead, Behind, Together, Early
  <1>9. Flags'
    BY <1>4, <1>5, <1>6 DEF Exchange, Flags
  <1> QED
    BY <1>2, <1>6, <1>7, <1>8, <1>9 DEF Exchange, Places0, Places1

\* The conversion takes both on together.
LEMMA ConvertKeepsExchange == Exchange /\ Convert => Exchange'
  <1> SUFFICES ASSUME Exchange, Convert PROVE Exchange'
    OBVIOUS
  <1>1. /\ pc[0] = "convert" /\ pc[1] = "convert"
        /\ UNCHANGED <<campaign, to, rcvd, pk_list, valid>>
        /\ pc' = [pc EXCEPT ![0] = "check", ![1] = "send_check"]
    BY DEF Convert, Server
  <1>2. /\ pc' \in [Server -> Places0 \cup Places1] /\ pc'[0] = "check" /\ pc'[1] = "send_check"
    BY <1>1 DEF Exchange, Server, Places0, Places1
  <1>3. Second' = Second
    BY <1>1 DEF Second, cfg
  <1>4. Shaped' /\ Carried' /\ Flags'
    BY <1>1, <1>2, <1>3 DEF Exchange, Shaped, Carried, Flags
  <1>5. Written' /\ WasRead' /\ Behind' /\ Together'
    BY <1>1, <1>2 DEF Exchange, Written, WasRead, Behind, Together, Early, Server
  <1> QED
    BY <1>1, <1>2, <1>4, <1>5 DEF Exchange, Places0, Places1

\* Server 1 sends its parities and sums.
LEMMA SendChecksKeepsExchange == Exchange /\ SendChecks => Exchange'
  <1> SUFFICES ASSUME Exchange, SendChecks PROVE Exchange'
    OBVIOUS
  <1>0. /\ Shaped /\ Carried /\ Written /\ WasRead /\ Behind /\ Together
        /\ 0 \in Server /\ 1 \in Server
    BY TwoServers DEF Exchange
  <1>1. /\ pc[1] = "send_check" /\ pc' = [pc EXCEPT ![1] = "verdict"]
        /\ Send(0, "checks", RowChecks(1)) /\ UNCHANGED <<campaign, rcvd, pk_list, valid>>
    BY DEF SendChecks
  <1>2. Len(to[0]) = 1 /\ rcvd[1] = 0 /\ pc[0] \notin Early
    BY <1>0, <1>1 DEF Written, WasRead, Behind, Together, Early
  <1>3. /\ Shaped' /\ Len(to'[0]) = 2 /\ to'[1] = to[1] /\ to'[0][2].kind = "checks"
        /\ to'[0][1] = to[0][1]
    <2>1. Sent(0, "checks", RowChecks(1))
      BY <1>0, <1>1, SendAppends
    <2> QED
      BY <1>0, <1>2, <2>1 DEF Sent
  <1>4. pc' \in [Server -> Places0 \cup Places1] /\ pc'[0] = pc[0] /\ pc'[1] = "verdict"
    BY <1>1 DEF Exchange, Server, Places1
  <1>5. Second' = Second
    BY <1>1, <1>3 DEF Second, cfg
  <1>6. Carried' /\ Flags'
    BY <1>1, <1>2, <1>3, <1>4 DEF Exchange, Carried, Flags
  <1>7. Written' /\ WasRead' /\ Behind' /\ Together'
    <2>1. Written'
      BY <1>0, <1>2, <1>3, <1>4, <1>5 DEF Written, Early
    <2>2. WasRead'
      BY <1>0, <1>1, <1>2, <1>3, <1>4, <1>5 DEF WasRead, Early
    <2>3. Together'
      BY <1>0, <1>2, <1>4, <1>5 DEF Together, Early
    <2>4. Behind'
      <3>1. rcvd[0] <= 1 /\ rcvd[1] = 0 /\ rcvd[0] \in Nat
        BY <1>0, <1>2 DEF Behind, Exchange
      <3>2. Len(to'[0]) = 2 /\ Len(to'[1]) = Len(to[1]) /\ Len(to[1]) \in Nat /\ rcvd' = rcvd
        BY <1>0, <1>1, <1>3 DEF Shaped
      <3> QED
        BY <3>1, <3>2 DEF Behind
    <2> QED
      BY <2>1, <2>2, <2>3, <2>4
  <1> QED
    BY <1>1, <1>3, <1>4, <1>6, <1>7 DEF Exchange, Places1

\* Server 0's verdict on the rows settles which messages follow.
LEMMA CheckRowsKeepsExchange == Exchange /\ CheckRows => Exchange'
  <1> SUFFICES ASSUME Exchange, CheckRows PROVE Exchange'
    OBVIOUS
  <1>0. /\ Shaped /\ Carried /\ Written /\ WasRead /\ Behind /\ Together
        /\ 0 \in Server /\ 1 \in Server
    BY TwoServers DEF Exchange
  <1> DEFINE all_valid == AllValid(RowChecks(0), Incoming(0))
  <1>1. /\ pc[0] = "check" /\ rcvd[0] < Len(to[0]) /\ rcvd' = [rcvd EXCEPT ![0] = @ + 1]
        /\ Send(1, "all_valid", all_valid) /\ UNCHANGED <<campaign, pk_list>>
        /\ pc' = [pc EXCEPT ![0] = AfterRows(all_valid)]
        /\ valid' = IF pc'[0] = "single" THEN valid
                    ELSE [valid EXCEPT ![0] = Every(Len(@), all_valid)]
    BY DEF CheckRows, CanRead, Read
  <1>2. all_valid \in BOOLEAN
    BY DEF AllValid
  <1> HIDE DEF all_valid
  <1>3. /\ rcvd[0] = 1 /\ Len(to[0]) # 0 /\ Len(to[0]) # 1 /\ Len(to[1]) = 0
        /\ rcvd[1] = 0
    <2>0. rcvd[1] \in Nat
      BY <1>0 DEF Exchange
    <2>1. Len(to[0]) \in Nat /\ Len(to[1]) \in Nat
      BY <1>0 DEF Shaped
    <2>2. rcvd[0] = 1 /\ Len(to[1]) = 0 /\ rcvd[1] <= Len(to[1])
      BY <1>0, <1>1 DEF Written, WasRead, Behind, Early
    <2>3. PICK n \in Nat, m \in Nat : n = Len(to[0]) /\ m = Len(to[1])
      BY <2>1
    <2>4. 1 < n /\ m = 0 /\ rcvd[1] <= m
      BY <1>1, <2>2, <2>3
    <2>5. n # 0 /\ n # 1 /\ rcvd[1] = 0
      BY <2>0, <2>4
    <2> QED
      BY <2>2, <2>3, <2>5
  <1>4. pc[1] = "verdict" /\ Len(to[0]) = 2
    <2>1. pc[1] # "recv" /\ pc[1] # "convert" /\ pc[1] # "send_check"
      <3>1. (pc[1] = "recv" => Len(to[0]) = 0) /\ (pc[1] = "convert" => Len(to[0]) = 1)
            /\ (pc[1] = "send_check" => Len(to[0]) = 1)
        BY <1>0 DEF Written
      <3> QED
        BY <1>3, <3>1
    <2>2. pc[1] # "valid" /\ pc[1] # "done"
      <3>1. (pc[1] = "valid" => rcvd[1] = 1) /\ (pc[1] = "done" => rcvd[1] \in {1, 2})
        BY <1>0 DEF WasRead
      <3> QED
        BY <1>3, <3>1
    <2> QED
      BY <1>0, <2>1, <2>2 DEF Written, Places1, Exchange
  <1>5. /\ Shaped' /\ Len(to'[1]) = 1 /\ to'[0] = to[0]
        /\ to'[1][1].kind = "all_valid" /\ to'[1][1].val = all_valid
    <2>1. Sent(1, "all_valid", all_valid)
      BY <1>0, <1>1, SendAppends
    <2> QED
      BY <1>0, <1>3, <2>1 DEF Sent
  <1>6. Second' = (~all_valid /\ cfg.type = "FREQ_OP")
    BY <1>1, <1>5 DEF Second, cfg
  <1>7. /\ pc' \in [Server -> Places0 \cup Places1] /\ pc'[1] = "verdict"
        /\ pc'[0] = IF Second' THEN "single" ELSE "sum"
    BY <1>1, <1>4, <1>6 DEF Exchange, AfterRows, Server, Places0
  <1>8. rcvd' \in [Server -> Nat] /\ rcvd'[0] = 2 /\ rcvd'[1] = 0
    BY <1>1, <1>3 DEF Exchange, Server
  <1>9. valid' \in [Server -> Seq(BOOLEAN)] /\ Len(valid'[0]) = Len(valid[0])
    <2>1. valid \in [Server -> Seq(BOOLEAN)] /\ Len(valid[0]) \in Nat
      BY DEF Exchange, Flags, Server
    <2>2. /\ Every(Len(valid[0]), all_valid) \in Seq(BOOLEAN)
          /\ Len(Every(Len(valid[0]), all_valid)) = Len(valid[0])
      BY <1>2, <2>1, EveryFlag
    <2> QED
      BY <1>1, <2>1, <2>2 DEF Server
  <1>10. Carried'
    BY <1>0, <1>1, <1>2, <1>4, <1>5 DEF Carried
  <1>11. Written' /\ WasRead' /\ Behind' /\ Together'
    <2>1. Written'
      BY <1>4, <1>5, <1>7 DEF Written, Early
    <2>2. WasRead'
      BY <1>4, <1>5, <1>7, <1>8 DEF WasRead, Early
    <2>3. Together'
      BY <1>7 DEF Together, Early
    <2>4. Behind'
      <3>1. Len(to'[0]) = 2 /\ Len(to'[1]) = 1
        BY <1>4, <1>5
      <3>2. rcvd'[0] = 2 /\ rcvd'[1] = 0
        BY <1>8
      <3> QED
        BY <3>1, <3>2 DEF Behind
    <2> QED
      BY <2>1, <2>2, <2>3, <2>4
  <1>12. Flags'
    BY <1>1, <1>4, <1>7, <1>9 DEF Exchange, Flags
  <1> QED
    BY <1>5, <1>7, <1>8, <1>10, <1>11, <1>12 DEF Exchange, Places0, Places1

\* Server 1 follows the verdict: singles and then flags to wait for, or the
\* totals at once.
LEMMA RecvVerdictKeepsExchange == Exchange /\ RecvVerdict => Exchange'
  <1> SUFFICES ASSUME Exchange, RecvVerdict PROVE Exchange'
    OBVIOUS
  <1>0. /\ Shaped /\ Carried /\ Written /\ WasRead /\ Behind /\ Together
        /\ 0 \in Server /\ 1 \in Server
    BY TwoServers DEF Exchange
  <1> DEFINE b == Incoming(1)
  <1>1. /\ pc[1] = "verdict" /\ rcvd[1] < Len(to[1]) /\ rcvd' = [rcvd EXCEPT ![1] = @ + 1]
        /\ UNCHANGED <<campaign, pk_list>>
    BY DEF RecvVerdict, CanRead, Read
  <1>2. Len(to[0]) = 2 /\ rcvd[1] = 0
    BY <1>0, <1>1 DEF Written, WasRead
  <1>3. /\ pc[0] # "recv" /\ Len(to[1]) \in {1, 2}
        /\ pc[0] \in {"single", "sum", "done"}
    <2>1. 0 < Len(to[1])
      BY <1>1, <1>2
    <2>2. Len(to[1]) # 0
      BY <2>1
    <2>3. pc[0] \in {"single", "sum", "done"}
      BY <1>0, <2>2 DEF Written, Early, Exchange, Places0
    <2> QED
      BY <1>0, <2>3 DEF Written
  <1>4. b \in BOOLEAN /\ Second = (~b /\ cfg.type = "FREQ_OP")
    BY <1>0, <1>2, <1>3 DEF Carried, Second, Incoming
  <1>5. PICK kind, val :
          /\ Send(0, kind, val) /\ kind = IF Second THEN "singles" ELSE "sum"
          /\ pc' = [pc EXCEPT ![1] = IF Second THEN "valid" ELSE "done"]
          /\ valid' = IF Second THEN valid ELSE [valid EXCEPT ![1] = Every(Len(pk_list[1]), b)]
    BY <1>4 DEF RecvVerdict
  <1> HIDE DEF b
  <1>6. /\ Shaped' /\ Len(to'[0]) = 3 /\ to'[1] = to[1] /\ to'[0][3].kind = kind
        /\ to'[0][1] = to[0][1] /\ to'[0][2] = to[0][2]
    <2>1. Sent(0, kind, val)
      BY <1>0, <1>5, SendAppends
    <2> QED
      BY <1>0, <1>2, <2>1 DEF Sent
  <1>7. Second' = Second
    BY <1>1, <1>6 DEF Second, cfg
  <1>8. /\ pc' \in [Server -> Places0 \cup Places1] /\ pc'[0] = pc[0]
        /\ pc'[1] = IF Second THEN "valid" ELSE "done"
    BY <1>5 DEF Exchange, Server, Places1
  <1>9. rcvd' \in [Server -> Nat] /\ rcvd'[1] = 1 /\ rcvd'[0] = rcvd[0]
    BY <1>1, <1>2 DEF Exchange, Server
  <1>10. Written'
    BY <1>0, <1>3, <1>6, <1>7, <1>8 DEF Written, Early
  <1>11. WasRead'
    BY <1>0, <1>3, <1>7, <1>8, <1>9 DEF WasRead, Early
  <1>12. Behind'
    <2>1. rcvd[0] <= 2 /\ rcvd[0] \in Nat
      BY <1>0, <1>2 DEF Behind, Exchange
    <2>2. Len(to'[0]) = 3 /\ Len(to'[1]) \in {1, 2} /\ rcvd'[1] = 1 /\ rcvd'[0] = rcvd[0]
      BY <1>3, <1>6, <1>9
    <2>3. PICK n \in {1, 2} : n = Len(to'[1])
      BY <2>2
    <2>4. rcvd[0] <= 3 /\ 1 <= n
      BY <2>1
    <2> QED
      BY <2>2, <2>3, <2>4 DEF Behind
  <1>13. Together'
    BY <1>0, <1>3, <1>7, <1>8 DEF Together, Early
  <1>14. valid' \in [Server -> Seq(BOOLEAN)] /\ valid'[0] = valid[0]
         /\ (~Second => Len(valid'[1]) = Len(pk_list[1]))
    <2>1. valid \in [Server -> Seq(BOOLEAN)] /\ Len(pk_list[1]) \in Nat
      BY DEF Exchange, Flags
    <2>2. /\ Every(Len(pk_list[1]), b) \in Seq(BOOLEAN)
          /\ Len(Every(Len(pk_list[1]), b)) = Len(pk_list[1])
      BY <1>4, <2>1, EveryFlag
    <2> QED
      BY <1>5, <2>1, <2>2 DEF Server
  <1>15. Flags'
    BY <1>1, <1>8, <1>14 DEF Exchange, Flags
  <1>16. Carried'
    BY <1>0, <1>1, <1>2, <1>5, <1>6, <1>7, <1>14 DEF Carried
  <1> QED
    BY <1>3, <1>6, <1>8, <1>9, <1>10, <1>11, <1>12, <1>13, <1>15, <1>16
       DEF Exchange, Places0, Places1

\* Server 0 tests every submission and sends the flags.
LEMMA CheckSinglesKeepsExchange == Exchange /\ CheckSingles => Exchange'
  <1> SUFFICES ASSUME Exchange, CheckSingles PROVE Exchange'
    OBVIOUS
  <1>0. /\ Shaped /\ Carried /\ Written /\ WasRead /\ Behind /\ Together
        /\ 0 \in Server /\ 1 \in Server
    BY TwoServers DEF Exchange
  <1>1. /\ pc[0] = "single" /\ rcvd[0] < Len(to[0]) /\ rcvd' = [rcvd EXCEPT ![0] = @ + 1]
        /\ UNCHANGED <<campaign, pk_list>> /\ pc' = [pc EXCEPT ![0] = "sum"]
        /\ valid' = [valid EXCEPT ![0] =
                       [n \in DOMAIN valid[0] |-> SingleValid(n, Incoming(0))]]
        /\ Send(1, "valid", valid'[0])
    BY DEF CheckSingles, CanRead, Read, SendFlags
  <1>2. Second /\ rcvd[0] = 2 /\ Len(to[1]) = 1
    BY <1>0, <1>1 DEF Written, WasRead, Together
  <1>3. pc[1] = "valid" /\ Len(to[0]) = 3
    <2>1. Len(to[0]) \notin {0, 1, 2}
      <3>1. PICK n \in Nat : n = Len(to[0])
        BY <1>0 DEF Shaped
      <3>2. 2 < n
        BY <1>1, <1>2, <3>1
      <3>3. n \notin {0, 1, 2}
        BY <3>2
      <3> QED
        BY <3>1, <3>3
    <2>2. pc[1] \notin {"recv", "convert", "send_check", "verdict"}
      BY <1>0, <2>1 DEF Written
    <2>3. pc[1] # "done"
      <3>1. pc[1] = "done" => rcvd[1] = 2
        BY <1>0, <1>2 DEF WasRead
      <3>2. rcvd[1] <= 1
        BY <1>0, <1>2 DEF Behind
      <3> QED
        BY <3>1, <3>2
    <2> QED
      BY <1>0, <2>2, <2>3 DEF Written, Exchange, Places1
  <1>4. /\ Shaped' /\ Len(to'[1]) = 2 /\ to'[0] = to[0] /\ to'[1][1] = to[1][1]
        /\ to'[1][2].kind = "valid" /\ to'[1][2].val = valid'[0]
    <2>1. Sent(1, "valid", valid'[0])
      BY <1>0, <1>1, SendAppends
    <2> QED
      BY <1>0, <1>2, <2>1 DEF Sent
  <1>5. Second'
    BY <1>1, <1>2, <1>4 DEF Second, cfg
  <1>6. pc' \in [Server -> Places0 \cup Places1] /\ pc'[0] = "sum" /\ pc'[1] = "valid"
    BY <1>1, <1>3 DEF Exchange, Server, Places0
  <1>7. rcvd' \in [Server -> Nat] /\ rcvd'[0] = 3 /\ rcvd'[1] = 1
    BY <1>0, <1>1, <1>2, <1>3 DEF Exchange, WasRead, Server
  <1>8. Written' /\ WasRead'
    BY <1>3, <1>4, <1>5, <1>6, <1>7 DEF Written, WasRead, Early
  <1>9. Behind'
    <2>1. Len(to'[0]) = 3 /\ Len(to'[1]) = 2 /\ rcvd'[0] = 3 /\ rcvd'[1] = 1
      BY <1>3, <1>4, <1>7
    <2> QED
      BY <2>1 DEF Behind
  <1>10. Together'
    BY <1>5, <1>6 DEF Together, Early
  <1>11. valid' \in [Server -> Seq(BOOLEAN)] /\ valid'[1] = valid[1]
         /\ Len(valid'[0]) = Len(valid[0])
    <2> DEFINE flags == [n \in DOMAIN valid[0] |-> SingleValid(n, Incoming(0))]
    <2>1. valid \in [Server -> Seq(BOOLEAN)] /\ valid[0] \in Seq(BOOLEAN)
      BY <1>0 DEF Exchange, Flags
    <2>2. \A n : SingleValid(n, Incoming(0)) \in BOOLEAN
      BY DEF SingleValid
    <2>3. flags \in Seq(BOOLEAN) /\ Len(flags) = Len(valid[0])
      BY <2>1, <2>2
    <2>4. valid' = [valid EXCEPT ![0] = flags]
      BY <1>1
    <2> HIDE DEF flags
    <2> QED
      BY <2>1, <2>3, <2>4 DEF Server
  <1>12. Flags'
    BY <1>1, <1>6, <1>11 DEF Exchange, Flags
  <1>13. Carried'
    BY <1>0, <1>1, <1>2, <1>3, <1>4, <1>5 DEF Carried
  <1> QED
    BY <1>4, <1>6, <1>7, <1>8, <1>9, <1>10, <1>12, <1>13 DEF Exchange, Places0, Places1

\* Server 1 takes the flags over and sends its totals.
LEMMA RecvValidKeepsExchange == Exchange /\ RecvValid => Exchange'
  <1> SUFFICES ASSUME Exchange, RecvValid PROVE Exchange'
    OBVIOUS
  <1>0. /\ Shaped /\ Carried /\ Written /\ WasRead /\ Behind /\ Together
        /\ 0 \in Server /\ 1 \in Server
    BY TwoServers DEF Exchange
  <1>1. /\ pc[1] = "valid" /\ rcvd[1] < Len(to[1]) /\ rcvd' = [rcvd EXCEPT ![1] = @ + 1]
        /\ UNCHANGED <<campaign, pk_list>> /\ pc' = [pc EXCEPT ![1] = "done"]
        /\ valid' = [valid EXCEPT ![1] = Incoming(1)]
        /\ Send(0, "sum", Accumulate(1, valid'[1]))
    BY DEF RecvValid, CanRead, Read
  <1>2. Second /\ rcvd[1] = 1 /\ Len(to[0]) = 3
    BY <1>0, <1>1 DEF Written, WasRead, Together
  <1>3. pc[0] \in {"sum", "done"} /\ Len(to[1]) = 2
    <2>1. Len(to[1]) \notin {0, 1}
      <3>1. PICK n \in Nat : n = Len(to[1])
        BY <1>0 DEF Shaped
      <3>2. 1 < n
        BY <1>1, <1>2, <3>1
      <3>3. n \notin {0, 1}
        BY <3>2
      <3> QED
        BY <3>1, <3>3
    <2>2. pc[0] \notin {"recv", "convert", "check", "single"}
      BY <1>0, <2>1 DEF Written, Early
    <2> QED
      BY <1>0, <1>2, <2>2 DEF Written, Exchange, Places0
  <1>4. Incoming(1) = valid[0]
    BY <1>0, <1>2, <1>3 DEF Incoming, Carried
  <1>5. /\ Shaped' /\ Len(to'[0]) = 4 /\ to'[1] = to[1] /\ to'[0][1] = to[0][1]
        /\ to'[0][2] = to[0][2] /\ to'[0][3] = to[0][3] /\ to'[0][4].kind = "sum"
    <2>1. Sent(0, "sum", Accumulate(1, valid'[1]))
      BY <1>0, <1>1, SendAppends
    <2> QED
      BY <1>0, <1>2, <2>1 DEF Sent
  <1>6. Second'
    BY <1>1, <1>2, <1>5 DEF Second, cfg
  <1>7. /\ pc' \in [Server -> Places0 \cup Places1]
        /\ pc'[0] = pc[0] /\ pc'[1] = "done"
    BY <1>1 DEF Exchange, Server, Places1
  <1>8. rcvd' \in [Server -> Nat] /\ rcvd'[0] = rcvd[0] /\ rcvd'[1] = 2
    BY <1>1, <1>2 DEF Exchange, Server
  <1>9. Written' /\ WasRead'
    BY <1>0, <1>2, <1>3, <1>5, <1>6, <1>7, <1>8 DEF Written, WasRead, Early
  <1>10. Behind'
    <2>1. rcvd[0] <= 3 /\ rcvd[0] \in Nat
      BY <1>0, <1>2 DEF Behind, Exchange
    <2>2. rcvd[0] <= 4
      BY <2>1
    <2>3. Len(to'[0]) = 4 /\ Len(to'[1]) = 2 /\ rcvd'[0] = rcvd[0] /\ rcvd'[1] = 2
      BY <1>3, <1>5, <1>8
    <2> QED
      BY <2>2, <2>3 DEF Behind
  <1>11. Together'
    BY <1>0, <1>3, <1>7 DEF Together, Early
  <1>12. /\ valid' \in [Server -> Seq(BOOLEAN)] /\ valid'[0] = valid[0]
         /\ Len(valid'[1]) = Len(pk_list[1])
    BY <1>1, <1>3, <1>4 DEF Exchange, Flags, Server
  <1>13. Flags'
    BY <1>1, <1>3, <1>7, <1>12 DEF Exchange, Flags
  <1>14. Carried'
    BY <1>0, <1>1, <1>2, <1>3, <1>5, <1>6, <1>12 DEF Carried
  <1> QED
    BY <1>3, <1>5, <1>7, <1>8, <1>9, <1>10, <1>11, <1>13, <1>14
       DEF Exchange, Places0, Places1

\* Server 0 takes the totals and reports.
LEMMA RecvTotalsKeepsExchange == Exchange /\ RecvTotals => Exchange'
  <1> SUFFICES ASSUME Exchange, RecvTotals PROVE Exchange'
    OBVIOUS
  <1>0. /\ Shaped /\ Carried /\ Written /\ WasRead /\ Behind /\ Together
        /\ 0 \in Server /\ 1 \in Server
    BY TwoServers DEF Exchange
  <1>1. /\ pc[0] = "sum" /\ rcvd[0] < Len(to[0]) /\ rcvd' = [rcvd EXCEPT ![0] = @ + 1]
        /\ UNCHANGED <<campaign, to, pk_list, valid>> /\ pc' = [pc EXCEPT ![0] = "done"]
    BY DEF RecvTotals, CanRead, Read
  <1>2. Second' = Second
    BY <1>1 DEF Second, cfg
  <1>3. rcvd[0] = (IF Second THEN 3 ELSE 2) /\ rcvd[0] \in Nat
    BY <1>0, <1>1 DEF WasRead, Exchange
  <1>4. /\ rcvd' \in [Server -> Nat] /\ rcvd'[1] = rcvd[1]
        /\ rcvd'[0] = IF Second THEN 4 ELSE 3
    BY <1>1, <1>3 DEF Exchange, Server
  <1>5. /\ pc' \in [Server -> Places0 \cup Places1]
        /\ pc'[0] = "done" /\ pc'[1] = pc[1]
    BY <1>1 DEF Exchange, Server, Places0
  <1>6. Shaped' /\ Carried' /\ Flags'
    BY <1>0, <1>1, <1>2, <1>5 DEF Exchange, Shaped, Carried, Flags
  <1>7. Written' /\ WasRead' /\ Together'
    BY <1>0, <1>1, <1>2, <1>4, <1>5 DEF Written, WasRead, Together, Early
  <1>8. Behind'
    <2>1. PICK n \in Nat : n = Len(to[0])
      BY <1>0 DEF Shaped
    <2>2. rcvd[0] < n /\ rcvd'[0] = rcvd[0] + 1
      BY <1>1, <1>3, <1>4, <2>1
    <2>3. rcvd'[0] <= n
      BY <1>3, <2>2
    <2> QED
      BY <1>0, <1>1, <1>4, <2>1, <2>3 DEF Behind
  <1> QED
    BY <1>0, <1>4, <1>5, <1>6, <1>7, <1>8 DEF Exchange, Places0

\* The servers' exchange is kept by every step.
LEMMA StepKeepsExchange == Reception /\ Exchange /\ [Next]_vars => Exchange'
  <1> SUFFICES ASSUME Reception, Exchange, [Next]_vars PROVE Exchange'
    OBVIOUS
  <1>1. CASE UNCHANGED vars
    BY <1>1, OutsideKeepsExchange DEF vars
  <1>2. CASE ClientStep
    BY <1>2, OutsideKeepsExchange DEF ClientStep, Close, SendShare
  <1>3. CASE Recv(0) \/ Recv(1)
    BY <1>3, OutsideKeepsExchange DEF Recv
  <1>4. CASE RecvPks \/ CheckRows \/ CheckSingles \/ RecvTotals
    BY <1>4, RecvPksKeepsExchange, CheckRowsKeepsExchange, CheckSinglesKeepsExchange,
       RecvTotalsKeepsExchange
  <1>5. CASE SendPks \/ SendChecks \/ RecvVerdict \/ RecvValid
    BY <1>5, SendPksKeepsExchange, SendChecksKeepsExchange, RecvVerdictKeepsExchange,
       RecvValidKeepsExchange
  <1>6. CASE Convert
    BY <1>6, ConvertKeepsExchange
  <1> QED
    BY <1>1, <1>2, <1>3, <1>4, <1>5, <1>6 DEF Next, Server0Step, Server1Step

\* What the receiving loops and the client leave, in every reachable state.
THEOREM SketchReception == Spec => []Reception
  BY InitReception, StepKeepsReception, PTL DEF Spec

\* The sketches' handlers are in step, whichever way the batch check goes and
\* whatever the flags server 1 sends unwritten.
THEOREM SketchExchange == Spec => []Exchange
  BY InitExchange, StepKeepsExchange, SketchReception, PTL DEF Spec

\* Every variable keeps its shape, and there is a flag per listed key.
THEOREM SketchTypeCorrect == Spec => []TypeOK
  <1>1. Reception /\ Exchange => TypeOK
    <2> SUFFICES ASSUME Reception, Exchange PROVE TypeOK
      OBVIOUS
    <2>1. pc \in [Server -> {"recv", "convert", "check", "send_check", "verdict",
                             "single", "valid", "sum", "done"}]
      BY DEF Exchange, Places0, Places1
    <2>2. \A s \in Server : valid[s] \in Seq(BOOLEAN)
      BY DEF Exchange, Flags
    <2>3. /\ pc[0] # "recv" => Len(valid[0]) = Len(pk_list[0])
          /\ pc[1] = "done" => Len(valid[1]) = Len(pk_list[1])
      BY DEF Exchange, Flags
    <2> QED
      BY <2>1, <2>2, <2>3 DEF Reception, TypeOK
  <1> QED
    BY <1>1, SketchReception, SketchExchange, PTL

\* How much each connection carries: a second round adds a message to each.
LEMMA Traffic ==
    ASSUME Exchange
    PROVE  /\ Len(to[0]) \in {0, 1, 2, 3, 4} /\ (~Second => Len(to[0]) # 4)
           /\ Len(to[1]) \in {0, 1, 2} /\ (~Second => Len(to[1]) # 2)
  <1>1. Written /\ pc[0] \in Places0 /\ pc[1] \in Places1
    BY DEF Exchange
  <1>2. Len(to[0]) \in {0, 1, 2, 3, 4} /\ (~Second => Len(to[0]) # 4)
    <2>1. CASE pc[1] # "done"
      BY <1>1, <2>1 DEF Written, Places1
    <2>2. CASE pc[1] = "done" /\ Second
      BY <1>1, <2>2 DEF Written
    <2>3. CASE pc[1] = "done" /\ ~Second
      BY SMTT(40), <1>1, <2>3 DEF Written
    <2> QED
      BY <2>1, <2>2, <2>3
  <1>3. Len(to[1]) \in {0, 1, 2} /\ (~Second => Len(to[1]) # 2)
    <2>1. CASE pc[0] \notin {"sum", "done"}
      BY SMTT(40), <1>1, <2>1 DEF Written, Places0, Early
    <2>2. CASE pc[0] \in {"sum", "done"} /\ Second
      BY <1>1, <2>2 DEF Written
    <2>3. CASE pc[0] \in {"sum", "done"} /\ ~Second
      <3>1. Len(to[1]) = 1
        BY <1>1, <2>3 DEF Written
      <3> QED
        BY <3>1
    <2> QED
      BY <2>1, <2>2, <2>3
  <1> QED
    BY <1>2, <1>3

\* The message a server finds next is of the kind its handler reads next: the
\* branch server 0 takes on the batch check is the one server 1 follows.
THEOREM SketchStreamsInStep == Spec => []StreamsInStep
  <1>1. Exchange => StreamsInStep
    <2> SUFFICES ASSUME Exchange, NEW s \in Server, rcvd[s] < Len(to[s])
                 PROVE  to[s][rcvd[s] + 1].kind \in Wanted(s)
      BY DEF StreamsInStep
    <2>0. Shaped /\ Carried /\ Written /\ WasRead /\ Behind /\ Together
      BY DEF Exchange
    <2>1. pc[0] \in Places0 /\ pc[1] \in Places1
      BY DEF Exchange
    <2>2. ASSUME s = 0 PROVE to[0][rcvd[0] + 1].kind \in Wanted(0)
      <3>1. PICK n \in 0 .. 4 : n = Len(to[0]) /\ (~Second => n # 4)
        BY Traffic
      <3>2. rcvd[0] < n
        BY <2>2, <3>1
      <3>3. CASE pc[0] = "recv"
        <4>1. rcvd[0] = 0 /\ rcvd[0] + 1 = 1 /\ Wanted(0) = {"pks"}
          BY <2>0, <3>3 DEF WasRead, Wanted
        <4>2. n \in 1 .. 4
          BY <3>2, <4>1
        <4> QED
          BY <2>0, <3>1, <4>1, <4>2 DEF Carried
      <3>4. CASE pc[0] \in {"convert", "check"}
        <4>1. rcvd[0] = 1 /\ rcvd[0] + 1 = 2 /\ Wanted(0) = {"checks"}
          BY <2>0, <3>4 DEF WasRead, Wanted
        <4>2. n \in 2 .. 4
          BY <3>2, <4>1
        <4> QED
          BY <2>0, <3>1, <4>1, <4>2 DEF Carried
      <3>5. CASE pc[0] = "single"
        <4>1. Second /\ rcvd[0] = 2 /\ rcvd[0] + 1 = 3 /\ Wanted(0) = {"singles"}
          BY <2>0, <3>5 DEF WasRead, Together, Wanted
        <4>2. n \in 3 .. 4
          BY <3>2, <4>1
        <4> QED
          BY <2>0, <3>1, <4>1, <4>2 DEF Carried
      <3>6. CASE pc[0] = "sum" /\ Second
        <4>1. rcvd[0] = 3 /\ rcvd[0] + 1 = 4 /\ Wanted(0) = {"sum"}
          BY <2>0, <3>6 DEF WasRead, Wanted
        <4>2. n = 4
          BY <3>2, <4>1
        <4> QED
          BY <2>0, <3>1, <4>1, <4>2 DEF Carried
      <3>7. CASE pc[0] = "sum" /\ ~Second
        <4>1. rcvd[0] = 2 /\ rcvd[0] + 1 = 3 /\ Wanted(0) = {"sum"}
          BY <2>0, <3>7 DEF WasRead, Wanted
        <4>2. n \in 3 .. 4
          BY <3>2, <4>1
        <4> QED
          BY <2>0, <3>1, <3>7, <4>1, <4>2 DEF Carried
      <3>8. CASE pc[0] = "done"
        <4>1. rcvd[0] = IF Second THEN 4 ELSE 3
          BY <2>0, <3>8 DEF WasRead
        <4> QED
          BY <3>1, <3>2, <4>1
      <3> QED
        BY <2>1, <3>3, <3>4, <3>5, <3>6, <3>7, <3>8 DEF Places0
    <2>3. ASSUME s = 1 PROVE to[1][rcvd[1] + 1].kind \in Wanted(1)
      <3>1. PICK n \in 0 .. 2 : n = Len(to[1]) /\ (~Second => n # 2)
        BY Traffic
      <3>2. rcvd[1] < n
        BY <2>3, <3>1
      <3>3. pc[1] \notin {"recv", "convert", "send_check"}
        <4>1. pc[0] \notin Early \cup {"check"}
          <5>1. rcvd[1] \in Nat
            BY DEF Exchange, Server
          <5>2. n # 0
            BY <3>2, <5>1
          <5> QED
            BY <2>0, <3>1, <5>2 DEF Written
        <4>2. pc[1] # "recv" /\ pc[1] # "convert"
          BY <2>0, <4>1 DEF Together, Early
        <4>3. pc[1] # "send_check"
          <5>1. pc[0] \in {"single", "sum", "done"}
            BY <2>1, <4>1 DEF Places0, Early
          <5>2. rcvd[0] \in {2, 3, 4}
            BY <2>0, <5>1 DEF WasRead
          <5>3. ASSUME pc[1] = "send_check" PROVE FALSE
            <6>1. Len(to[0]) = 1
              BY <2>0, <5>3 DEF Written
            <6>2. rcvd[0] <= 1
              BY <2>0, <6>1 DEF Behind
            <6> QED
              BY <5>2, <6>2
          <5> QED
            BY <5>3
        <4> QED
          BY <4>2, <4>3
      <3>4. CASE pc[1] = "verdict"
        <4>1. rcvd[1] = 0 /\ rcvd[1] + 1 = 1 /\ Wanted(1) = {"all_valid"}
          BY <2>0, <3>4 DEF WasRead, Wanted
        <4>2. n \in 1 .. 2
          BY <3>2, <4>1
        <4> QED
          BY <2>0, <3>1, <4>1, <4>2 DEF Carried
      <3>5. CASE pc[1] = "valid"
        <4>1. rcvd[1] = 1 /\ rcvd[1] + 1 = 2 /\ Wanted(1) = {"valid"}
          BY <2>0, <3>5 DEF WasRead, Wanted
        <4>2. n = 2
          BY <3>2, <4>1
        <4> QED
          BY <2>0, <3>1, <4>1, <4>2 DEF Carried
      <3>6. CASE pc[1] = "done"
        <4>1. rcvd[1] = IF Second THEN 2 ELSE 1
          BY <2>0, <3>6 DEF WasRead
        <4> QED
          BY <3>1, <3>2, <4>1
      <3> QED
        BY <2>1, <3>3, <3>4, <3>5, <3>6 DEF Places1
    <2> QED
      BY <2>2, <2>3 DEF Server
  <1> QED
    BY <1>1, SketchExchange, PTL

-----------------------------------------------------------------------------
(* Sums modulo a number, as the loops over rows and entries add up.        *)

ModSum(f, m) == FoldFunction(LAMBDA x, sum : (sum + x) % m, 0, f)

ModSumming(S, f, m) ==
    IsFiniteSet(S) /\ f \in [S -> Int] /\ m \in Nat \ {0}
ModSums(S, f, m, fold) ==
    /\ fold \in [SUBSET S -> 0 .. m - 1] /\ fold[{}] = 0
    /\ \A s \in SUBSET S : s # {} => fold[s] = (fold[s \ {Arb(s)}] + f[Arb(s)]) % m

\* Such sums exist, of every part of a set,
LEMMA ModSumsExist ==
    ASSUME NEW S, NEW f, NEW m, ModSumming(S, f, m)
    PROVE  \E fold : ModSums(S, f, m, fold)
  <1> DEFINE V == 0 .. m - 1
  <1>1. PICK c : c = [s \in SUBSET S |-> Arb(s)]
    OBVIOUS
  <1>2. PICK G : G = [s \in SUBSET S |-> [v \in V |-> IF s = {} THEN 0 ELSE (v + f[Arb(s)]) % m]]
    OBVIOUS
  <1>3. 0 \in V /\ m \in Nat \ {0}
    BY DEF ModSumming
  <1>4. G \in [SUBSET S -> [V -> V]]
    <2>1. ASSUME NEW s \in SUBSET S, NEW v \in V
          PROVE  (IF s = {} THEN 0 ELSE (v + f[Arb(s)]) % m) \in V
      <3>1. CASE s = {}
        BY <1>3, <3>1
      <3>2. CASE s # {}
        <4>1. Arb(s) \in S
          BY <3>2, ArbIn
        <4>2. PICK x \in Int : x = v + f[Arb(s)]
          BY <1>3, <4>1 DEF ModSumming
        <4>3. x % m \in 0 .. m - 1
          BY <1>3, ModRange
        <4> QED
          BY <3>2, <4>2, <4>3
      <3> QED
        BY <3>1, <3>2
    <2> QED
      BY <1>2, <2>1
  <1>5. Peeling(S, V, 0, c, G)
    <2>1. \A s \in SUBSET S : s # {} => c[s] \in s
      BY <1>1, ArbIn
    <2> QED
      BY <1>3, <1>4, <2>1 DEF Peeling, ModSumming
  <1>6. PICK fold : Peeled(S, V, 0, c, G, fold)
    BY <1>5, Recursion
  <1>7. fold \in [SUBSET S -> V] /\ fold[{}] = 0
    BY <1>6 DEF Peeled
  <1>8. ASSUME NEW s \in SUBSET S, s # {}
        PROVE  fold[s] = (fold[s \ {Arb(s)}] + f[Arb(s)]) % m
    <2>1. fold[s] = G[s][fold[s \ {Arb(s)}]]
      BY <1>1, <1>6, <1>8 DEF Peeled
    <2>2. fold[s \ {Arb(s)}] \in V
      BY <1>7
    <2> QED
      BY <1>2, <1>8, <2>1, <2>2
  <1> QED
    BY <1>7, <1>8 DEF ModSums

\* and the fold over a function is the one of the whole.
LEMMA ModSumIs ==
    ASSUME NEW S, NEW f, NEW m, ModSumming(S, f, m)
    PROVE  \E fold : ModSums(S, f, m, fold) /\ ModSum(f, m) = fold[S]
  <1> DEFINE Fix(h) == [s \in SUBSET S |-> IF s = {} THEN 0 ELSE
                          LET x == (CHOOSE y \in s : TRUE) IN (h[s \ {x}] + f[x]) % m]
             fold == CHOOSE h : h = Fix(h)
  <1>1. ModSum(f, m) = fold[S]
    <2>1. DOMAIN f = S
      BY DEF ModSumming
    <2>2. ModSum(f, m) = MapThenFoldSet(LAMBDA x, sum : (sum + x) % m, 0, LAMBDA k : f[k],
                                        LAMBDA s : CHOOSE x \in s : TRUE, S)
      BY <2>1 DEF ModSum, FoldFunction, FoldFunctionOnSet
    <2> QED
      BY <2>2 DEF MapThenFoldSet
  <1>2. PICK iter : ModSums(S, f, m, iter)
    BY ModSumsExist
  <1>3. ASSUME NEW s \in SUBSET S PROVE iter[s] = Fix(iter)[s]
    <2>1. CASE s = {}
      BY <1>2, <2>1 DEF ModSums
    <2>2. CASE s # {}
      BY <1>2, <2>2 DEF ModSums, Arb
    <2> QED
      BY <2>1, <2>2
  <1>4. iter = Fix(iter)
    BY <1>2, <1>3 DEF ModSums
  <1>5. fold = Fix(fold)
    <2> HIDE DEF Fix
    <2> QED
      BY <1>4, Zenon
  <1> HIDE DEF fold
  <1>6. ASSUME NEW s \in SUBSET S, s # {} PROVE fold[s] = (fold[s \ {Arb(s)}] + f[Arb(s)]) % m
    BY <1>5, <1>6 DEF Arb
  <1>7. fold[{}] = 0
    BY <1>5
  <1>8. fold = iter
    <2> DEFINE P == {n \in Nat : \A s \in SUBSET S : Cardinality(s) <= n => fold[s] = iter[s]}
    <2>1. ASSUME NEW s \in SUBSET S
          PROVE  /\ IsFiniteSet(s) /\ Cardinality(s) \in Nat /\ (Cardinality(s) = 0 <=> s = {})
      BY FS_Subset, FS_CardinalityType, FS_EmptySet DEF ModSumming
    <2>2. 0 \in P
      <3>1. ASSUME NEW s \in SUBSET S, Cardinality(s) <= 0 PROVE fold[s] = iter[s]
        <4>1. Cardinality(s) \in Nat /\ (Cardinality(s) = 0 <=> s = {})
          BY <2>1
        <4>2. s = {}
          BY <3>1, <4>1
        <4> QED
          BY <1>2, <1>7, <4>2 DEF ModSums
      <3> QED
        BY <3>1
    <2>3. ASSUME NEW n \in Nat, n \in P PROVE n + 1 \in P
      <3>1. ASSUME NEW s \in SUBSET S, Cardinality(s) <= n + 1, s # {} PROVE fold[s] = iter[s]
        <4>1. PICK x \in s : x = Arb(s)
          BY <3>1, ArbIn
        <4>2. IsFiniteSet(s) /\ Cardinality(s) \in Nat
          BY <2>1
        <4>3. Cardinality(s \ {x}) = Cardinality(s) - 1
          BY <4>2, FS_RemoveElement
        <4>4. s \ {x} \in SUBSET S /\ Cardinality(s \ {x}) <= n
          BY <3>1, <4>2, <4>3
        <4>5. fold[s \ {x}] = iter[s \ {x}]
          BY <2>3, <4>4
        <4>6. fold[s] = (fold[s \ {x}] + f[x]) % m /\ iter[s] = (iter[s \ {x}] + f[x]) % m
          BY <1>2, <1>6, <3>1, <4>1 DEF ModSums
        <4> QED
          BY <4>5, <4>6
      <3>2. ASSUME NEW s \in SUBSET S, Cardinality(s) <= n + 1 PROVE fold[s] = iter[s]
        <4>1. CASE s = {}
          BY <1>2, <1>7, <4>1 DEF ModSums
        <4> QED
          BY <3>1, <3>2, <4>1
      <3> QED
        BY <3>2
    <2>4. Nat \subseteq P
      <3> HIDE DEF P
      <3> QED
        BY <2>2, <2>3, Induct
    <2>5. ASSUME NEW s \in SUBSET S PROVE fold[s] = iter[s]
      <3>1. Cardinality(s) \in Nat
        BY <2>1
      <3>2. Cardinality(s) \in P
        BY <2>4, <3>1
      <3> QED
        BY <3>1, <3>2
    <2> QED
      BY <1>2, <1>5, <2>5 DEF ModSums
  <1> QED
    BY <1>1, <1>2, <1>8

\* One summand more on both sides.
LEMMA CountMore ==
    ASSUME NEW m \in Nat \ {0}, NEW a \in Int, NEW b \in Int, NEW x \in Int, NEW y \in Int,
           NEW c \in Int, NEW d \in Int, Cong(a + b, c, m), Cong(x + y, d, m)
    PROVE  Cong(((a + x) % m) + ((b + y) % m), c + d, m)
  <1>1. PICK p \in Int, q \in Int, ax \in Int, by \in Int :
          ax = a + x /\ by = b + y /\ p = ax % m /\ q = by % m
    <2>1. PICK ax \in Int, by \in Int : ax = a + x /\ by = b + y
      OBVIOUS
    <2>2. ax % m \in 0 .. m - 1 /\ by % m \in 0 .. m - 1
      BY ModRange
    <2> QED
      BY <2>1, <2>2
  <1>2. Cong(p, ax, m) /\ Cong(q, by, m)
    BY <1>1, ModCong
  <1>3. Cong(p + q, ax + by, m) /\ Cong(p - q, ax - by, m)
    BY <1>2, CongAdd
  <1>4. PICK u \in Int, v \in Int : u = a + b /\ v = x + y /\ ax + by = u + v
    BY <1>1
  <1>5. Cong(u, c, m) /\ Cong(v, d, m)
    BY <1>4
  <1>6. Cong(u + v, c + d, m) /\ Cong(u - v, c - d, m)
    BY <1>5, CongAdd
  <1>7. PICK s \in Int, t \in Int, r \in Int : s = p + q /\ t = u + v /\ r = c + d
    OBVIOUS
  <1>8. Cong(s, t, m) /\ Cong(t, r, m)
    BY <1>3, <1>4, <1>6, <1>7
  <1>9. Cong(s, r, m)
    BY <1>8, CongTrans
  <1> QED
    BY <1>1, <1>7, <1>9

\* Two sums whose summands are shares of 1 for the elements of o, and of 0 for
\* the others, are shares of how many o has.
LEMMA SharesCount ==
    ASSUME NEW S, NEW m, NEW a, NEW b, ModSumming(S, a, m), ModSumming(S, b, m),
           NEW o \in SUBSET S, \A x \in S : Cong(a[x] + b[x], IF x \in o THEN 1 ELSE 0, m)
    PROVE  /\ Cong(ModSum(a, m) + ModSum(b, m), Cardinality(o), m)
           /\ ModSum(a, m) \in 0 .. m - 1 /\ ModSum(b, m) \in 0 .. m - 1
           /\ Cardinality(o) \in Nat
  <1>0. m \in Nat \ {0} /\ IsFiniteSet(S)
    BY DEF ModSumming
  <1>1. PICK f : ModSums(S, a, m, f) /\ ModSum(a, m) = f[S]
    BY ModSumIs
  <1>2. PICK g : ModSums(S, b, m, g) /\ ModSum(b, m) = g[S]
    BY ModSumIs
  <1>3. ASSUME NEW s \in SUBSET S
        PROVE  /\ IsFiniteSet(s) /\ Cardinality(s) \in Nat /\ (Cardinality(s) = 0 <=> s = {})
               /\ f[s] \in 0 .. m - 1 /\ g[s] \in 0 .. m - 1
               /\ IsFiniteSet(s \cap o) /\ Cardinality(s \cap o) \in Nat
    <2>1. s \cap o \in SUBSET S
      OBVIOUS
    <2>2. f[s] \in 0 .. m - 1 /\ g[s] \in 0 .. m - 1
      BY <1>1, <1>2 DEF ModSums
    <2> QED
      BY <1>0, <2>1, <2>2, FS_Subset, FS_CardinalityType, FS_EmptySet
  <1> DEFINE Good(s) == Cong(f[s] + g[s], Cardinality(s \cap o), m)
             P == {n \in Nat : \A s \in SUBSET S : Cardinality(s) <= n => Good(s)}
  <1>4. ASSUME NEW s \in SUBSET S, s = {} PROVE Good(s)
    <2>1. f[s] + g[s] = 0 /\ Cardinality(s \cap o) = 0
      BY <1>1, <1>2, <1>4, FS_EmptySet DEF ModSums
    <2>2. Cong(0, 0, m)
      BY <1>0, CongSelf
    <2> QED
      BY <2>1, <2>2
  <1>5. 0 \in P
    <2>1. ASSUME NEW s \in SUBSET S, Cardinality(s) <= 0 PROVE s = {}
      <3>1. Cardinality(s) \in Nat /\ (Cardinality(s) = 0 <=> s = {})
        BY <1>3
      <3> QED
        BY <2>1, <3>1
    <2> HIDE DEF Good
    <2> QED
      BY <1>4, <2>1
  <1>6. ASSUME NEW n \in Nat, n \in P PROVE n + 1 \in P
    <2>1. ASSUME NEW s \in SUBSET S, Cardinality(s) <= n + 1, s # {} PROVE Good(s)
      <3>1. PICK x \in s : x = Arb(s)
        BY <2>1, ArbIn
      <3>2. PICK t \in SUBSET S : t = s \ {x}
        OBVIOUS
      <3>3. Cardinality(t) <= n
        <4>1. Cardinality(t) = Cardinality(s) - 1
          BY <1>3, <3>2, FS_RemoveElement
        <4>2. Cardinality(s) \in Nat
          BY <1>3
        <4> QED
          BY <2>1, <4>1, <4>2
      <3>4. Good(t)
        BY <1>6, <3>3
      <3>5. f[s] = (f[t] + a[x]) % m /\ g[s] = (g[t] + b[x]) % m
        BY <1>1, <1>2, <2>1, <3>1, <3>2 DEF ModSums
      <3>6. PICK e \in Int : e = IF x \in o THEN 1 ELSE 0
        OBVIOUS
      <3>7. Cardinality(s \cap o) = Cardinality(t \cap o) + e
        <4>1. CASE x \in o
          <5>1. s \cap o = (t \cap o) \cup {x} /\ x \notin t \cap o
            BY <3>2, <4>1
          <5>2. IsFiniteSet(t \cap o)
            BY <1>3
          <5> QED
            BY <3>6, <4>1, <5>1, <5>2, FS_AddElement
        <4>2. CASE x \notin o
          <5>1. s \cap o = t \cap o /\ Cardinality(t \cap o) \in Nat
            BY <1>3, <3>2, <4>2
          <5> QED
            BY <3>6, <4>2, <5>1
        <4> QED
          BY <4>1, <4>2
      <3>8. Cong(a[x] + b[x], e, m) /\ a[x] \in Int /\ b[x] \in Int
        BY <3>6 DEF ModSumming
      <3>9. PICK u \in Int, v \in Int, c \in Int : u = f[t] /\ v = g[t] /\ c = Cardinality(t \cap o)
        <4>1. f[t] \in 0 .. m - 1 /\ g[t] \in 0 .. m - 1 /\ Cardinality(t \cap o) \in Nat
          BY <1>3
        <4> QED
          BY <1>0, <4>1
      <3>10. PICK p \in Int, q \in Int : p = a[x] /\ q = b[x]
        BY <3>8
      <3>11. Cong(u + v, c, m) /\ Cong(p + q, e, m)
        BY <3>4, <3>8, <3>9, <3>10
      <3>12. Cong(((u + p) % m) + ((v + q) % m), c + e, m)
        BY <1>0, <3>11, CountMore
      <3> QED
        BY <3>5, <3>7, <3>9, <3>10, <3>12
    <2>2. ASSUME NEW s \in SUBSET S, Cardinality(s) <= n + 1 PROVE Good(s)
      <3> HIDE DEF Good
      <3>1. CASE s = {}
        BY <1>4, <3>1
      <3> QED
        BY <2>1, <2>2, <3>1
    <2> HIDE DEF Good
    <2> QED
      BY <2>2
  <1>7. Nat \subseteq P
    <2> HIDE DEF P
    <2> QED
      BY <1>5, <1>6, Induct
  <1>8. Good(S)
    <2>1. Cardinality(S) \in Nat
      BY <1>3
    <2>2. Cardinality(S) \in P
      BY <1>7, <2>1
    <2> HIDE DEF Good
    <2> QED
      BY <2>1, <2>2
  <1>9. S \cap o = o
    OBVIOUS
  <1>10. f[S] \in 0 .. m - 1 /\ g[S] \in 0 .. m - 1 /\ Cardinality(S \cap o) \in Nat
    BY <1>3
  <1> QED
    BY <1>1, <1>2, <1>8, <1>9, <1>10
-----------------------------------------------------------------------------
(* Which submissions the servers have stored.                              *)

KeyOf(k, s) == campaign.shares[k][s].pk
BitsOf(k, s) == campaign.shares[k][s].arr

\* Server s has stored the shares it has taken, and nothing else.
Heard(s) == taken[s] > 0 \/ i[s] = 0
Holds(s) ==
    /\ DOMAIN share_map[s] = {KeyOf(k, s) : k \in 1 .. taken[s]}
    /\ \A k \in 1 .. taken[s] : share_map[s][KeyOf(k, s)] = BitsOf(k, s)

\* Both streams carry the submissions in the client's order, server 1's behind.
Deliveries ==
    /\ sent[1] <= sent[0] /\ (\A s \in Server : sent[s] <= Total_inputs)
    /\ pk = [s \in Server |-> pk[s]]
    /\ \A s \in Server : i[s] = taken[s] \/ (client = "closed" /\ taken[s] = sent[s])
    /\ \A s \in Server : pc[s] # "recv" => i[s] = Total_inputs
    /\ \A s \in Server : Heard(s) => Holds(s)
    /\ \A s \in Server : taken[s] > 0 => pk[s] = KeyOf(taken[s], s)

\* Server 1 lists what it has stored.
Listing == pc[1] # "recv" => pk_list[1] \in SetToSeqs(DOMAIN share_map[1])

\* The client hands out no submission twice, and not more than it has.
LEMMA InitDeliveries == Init => Deliveries /\ Listing
  <1> SUFFICES ASSUME Init PROVE Deliveries /\ Listing
    OBVIOUS
  <1>1. Total_inputs \in Nat
    BY BatchSize DEF Init
  <1>2. \A s \in Server : sent[s] = 0 /\ taken[s] = 0 /\ i[s] = 0 /\ pc[s] = "recv"
                          /\ DOMAIN share_map[s] = {}
    BY DEF Init
  <1>3. \A s \in Server : Holds(s)
    BY <1>2 DEF Holds
  <1>4. pk = [s \in Server |-> pk[s]]
    BY DEF Init
  <1> QED
    BY <1>1, <1>2, <1>3, <1>4 DEF Deliveries, Listing, Server

\* What is stored does not change with the client's counters.
LEMMA HoldsStays ==
    ASSUME UNCHANGED <<campaign, taken, i, share_map>>, NEW s \in Server
    PROVE  (Heard(s) <=> Heard(s)') /\ (Holds(s) <=> Holds(s)')
  BY DEF Heard, Holds, KeyOf, BitsOf

\* The client sends to server 0 first, and stops sending when it is closed.
LEMMA ClientKeepsDeliveries == Reception /\ Deliveries /\ ClientStep => Deliveries'
  <1> SUFFICES ASSUME Reception, Deliveries, ClientStep PROVE Deliveries'
    OBVIOUS
  <1>1. UNCHANGED <<campaign, i, taken, share_map, pc, pk>> /\ Total_inputs' = Total_inputs
    BY DEF ClientStep, Close, SendShare, Total_inputs
  <1>2. \A s \in Server : Heard(s)' => Holds(s)'
    BY <1>1, HoldsStays DEF Deliveries
  <1>3. \A s \in Server : KeyOf(taken[s], s)' = KeyOf(taken[s], s)
    BY <1>1 DEF KeyOf
  <1>4. client = "sending"
    BY DEF ClientStep, Close, SendShare
  <1>5. \A s \in Server : i'[s] = taken'[s]
    BY <1>1, <1>4 DEF Deliveries
  <1>6. CASE Close
    <2>1. sent' = sent
      BY <1>6 DEF Close
    <2> QED
      BY <1>1, <1>2, <1>3, <1>5, <2>1 DEF Deliveries
  <1>7. ASSUME NEW t \in Server, SendShare(t) PROVE Deliveries'
    <2>1. sent' = [sent EXCEPT ![t] = @ + 1] /\ sent[t] < Total_inputs
          /\ IF t = 0 THEN sent[0] = sent[1] ELSE sent[1] < sent[0]
      BY <1>7 DEF SendShare
    <2>2. sent \in [Server -> Nat] /\ Total_inputs \in Nat
      BY BatchSize DEF Reception
    <2>3. sent'[1] <= sent'[0] /\ \A s \in Server : sent'[s] <= Total_inputs
      <3>1. CASE t = 0
        BY <2>1, <2>2, <3>1 DEF Deliveries, Server
      <3>2. CASE t = 1
        BY <2>1, <2>2, <3>2 DEF Deliveries, Server
      <3> QED
        BY <3>1, <3>2 DEF Server
    <2> QED
      BY <1>1, <1>2, <1>3, <1>5, <2>3 DEF Deliveries
  <1> QED
    BY <1>6, <1>7 DEF ClientStep

\* The keys of a batch are different.
LEMMA KeysDiffer ==
    ASSUME campaign \in Campaigns, NEW k \in 1 .. Total_inputs, NEW n \in 1 .. Total_inputs,
           NEW s \in Server, NEW t \in Server
    PROVE  KeyOf(k, s) = KeyOf(n, t) <=> k = n
  <1>1. KeyOf(k, 0) = KeyOf(k, 1) /\ KeyOf(n, 0) = KeyOf(n, 1)
    BY PreparedAssumption DEF KeyOf, Total_inputs
  <1>2. KeyOf(k, 0) = KeyOf(n, 0) => k = n
    BY PreparedAssumption DEF KeyOf, Total_inputs
  <1> QED
    BY <1>1, <1>2 DEF Server

\* A share is stored under its key, which is new; at end of file a key is
\* stored that is there.
LEMMA RecvKeepsDeliveries ==
    ASSUME Reception, Deliveries, NEW s \in Server, Recv(s) PROVE Deliveries'
  <1>1. /\ UNCHANGED <<campaign, client, sent, pc>> /\ Total_inputs' = Total_inputs
        /\ i[s] < Total_inputs /\ i' = [i EXCEPT ![s] = @ + 1] /\ pc[s] = "recv"
        /\ Total_inputs \in Nat /\ campaign \in Campaigns
    BY BatchSize DEF Recv, Total_inputs, Reception
  <1>2. /\ i \in [Server -> Nat] /\ taken \in [Server -> Nat] /\ sent \in [Server -> Nat]
        /\ share_map = [t \in Server |-> share_map[t]] /\ pk = [t \in Server |-> pk[t]]
        /\ taken[s] <= sent[s] /\ taken[s] <= i[s] /\ sent[s] <= Total_inputs
    BY DEF Reception, Deliveries
  <1>3. /\ i'[s] = i[s] + 1 /\ \A t \in Server : t # s => i'[t] = i[t]
    BY <1>1, <1>2
  <1>4. ASSUME taken[s] < sent[s], taken' = [taken EXCEPT ![s] = @ + 1],
               pk' = [pk EXCEPT ![s] = KeyOf(taken[s] + 1, s)],
               share_map' = [share_map EXCEPT ![s] =
                                Keep(@, KeyOf(taken[s] + 1, s), BitsOf(taken[s] + 1, s))]
        PROVE  Deliveries'
    <2>1. /\ taken'[s] = taken[s] + 1 /\ pk'[s] = KeyOf(taken[s] + 1, s)
          /\ share_map'[s] = Keep(share_map[s], KeyOf(taken[s] + 1, s), BitsOf(taken[s] + 1, s))
          /\ pk' = [t \in Server |-> pk'[t]]
          /\ \A t \in Server : t # s => taken'[t] = taken[t] /\ pk'[t] = pk[t]
                                        /\ share_map'[t] = share_map[t]
      BY <1>2, <1>4
    <2>2. i[s] = taken[s]
      BY <1>2, <1>4 DEF Deliveries
    <2>3. Heard(s)
      BY <1>2, <2>2 DEF Heard
    <2>4. Holds(s)
      BY <2>3 DEF Deliveries
    <2>5. PICK n \in Nat : n = taken[s]
      BY <1>2
    <2>6. n + 1 \in 1 .. Total_inputs /\ \A k \in 1 .. n : k \in 1 .. Total_inputs
      BY <1>1, <1>2, <1>4, <2>5
    <2>7. KeyOf(n + 1, s) \notin DOMAIN share_map[s]
      <3>1. \A k \in 1 .. n : KeyOf(n + 1, s) # KeyOf(k, s)
        BY <1>1, <2>6, KeysDiffer
      <3> QED
        BY <2>4, <2>5, <3>1 DEF Holds
    <2>8. /\ DOMAIN share_map'[s] = DOMAIN share_map[s] \cup {KeyOf(n + 1, s)}
          /\ \A q \in DOMAIN share_map[s] : share_map'[s][q] = share_map[s][q]
          /\ share_map'[s][KeyOf(n + 1, s)] = BitsOf(n + 1, s)
      <3>1. PICK m, key, bits, kept :
              m = share_map[s] /\ key = KeyOf(n + 1, s) /\ bits = BitsOf(n + 1, s)
              /\ kept = share_map'[s]
        OBVIOUS
      <3>2. kept = Keep(m, key, bits)
        BY <2>1, <2>5, <3>1
      <3>3. /\ DOMAIN kept = DOMAIN m \cup {key} /\ \A q \in DOMAIN m : kept[q] = m[q]
            /\ key \notin DOMAIN m => kept[key] = bits
        BY <3>2 DEF Keep
      <3> QED
        BY <2>7, <3>1, <3>3
    <2>9. Holds(s)'
      <3>1. 1 .. n + 1 = 1 .. n \cup {n + 1}
        BY <2>5
      <3>2. {KeyOf(k, s) : k \in 1 .. n + 1} = {KeyOf(k, s) : k \in 1 .. n} \cup {KeyOf(n + 1, s)}
        BY <3>1
      <3>3. \A k \in 1 .. n + 1 : share_map'[s][KeyOf(k, s)] = BitsOf(k, s)
        BY <2>4, <2>5, <2>8, <3>1 DEF Holds
      <3>4. taken'[s] = n + 1
        BY <2>1, <2>5
      <3>5. DOMAIN share_map'[s] = {KeyOf(k, s) : k \in 1 .. n + 1}
        BY <2>4, <2>5, <2>8, <3>2 DEF Holds
      <3>6. \A k : KeyOf(k, s)' = KeyOf(k, s) /\ BitsOf(k, s)' = BitsOf(k, s)
        BY <1>1 DEF KeyOf, BitsOf
      <3> QED
        BY <3>3, <3>4, <3>5, <3>6 DEF Holds
    <2>10. ASSUME NEW t \in Server, t # s
           PROVE  (Heard(t)' => Holds(t)') /\ (taken'[t] > 0 => pk'[t] = KeyOf(taken[t], t)')
      <3>1. (Heard(t)' <=> Heard(t)) /\ (Holds(t)' <=> Holds(t))
        <4>1. /\ campaign' = campaign /\ i'[t] = i[t]
              /\ taken'[t] = taken[t] /\ share_map'[t] = share_map[t]
          BY <1>1, <1>3, <2>1, <2>10
        <4>2. Heard(t)' <=> Heard(t)
          BY <4>1 DEF Heard
        <4>3. Holds(t)' <=> Holds(t)
          BY <4>1 DEF Holds, KeyOf, BitsOf
        <4> QED
          BY <4>2, <4>3
      <3> QED
        BY <1>1, <2>1, <2>10, <3>1 DEF Deliveries, KeyOf
    <2>11. pk'[s] = KeyOf(taken[s], s)'
      BY <1>1, <2>1 DEF KeyOf
    <2>12. \A t \in Server : i'[t] = taken'[t] \/ (client' = "closed" /\ taken'[t] = sent'[t])
      BY <1>1, <1>3, <2>1, <2>2 DEF Deliveries
    <2>13. \A t \in Server : pc'[t] # "recv" => i'[t] = Total_inputs'
      BY <1>1, <1>3 DEF Deliveries
    <2> QED
      BY <1>1, <2>1, <2>9, <2>10, <2>11, <2>12, <2>13 DEF Deliveries
  <1>5. ASSUME taken[s] = sent[s], client = "closed", UNCHANGED <<pk, taken>>,
               NEW bits, share_map' = [share_map EXCEPT ![s] = Keep(@, pk[s], bits)]
        PROVE  Deliveries'
    <2>1. /\ share_map'[s] = Keep(share_map[s], pk[s], bits)
          /\ \A t \in Server : t # s => share_map'[t] = share_map[t]
      BY <1>2, <1>5
    <2>2. ASSUME Heard(s)' PROVE Holds(s)'
      <3>1. taken[s] > 0
        BY <1>2, <1>3, <1>5, <2>2 DEF Heard
      <3>2. Holds(s) /\ pk[s] = KeyOf(taken[s], s)
        BY <3>1 DEF Deliveries, Heard
      <3>3. pk[s] \in DOMAIN share_map[s]
        BY <1>2, <3>1, <3>2 DEF Holds
      <3>4. share_map'[s] = share_map[s]
        BY <2>1, <3>3 DEF Keep
      <3> QED
        BY <1>1, <1>5, <3>2, <3>4 DEF Holds, KeyOf, BitsOf
    <2>3. ASSUME NEW t \in Server, t # s PROVE Heard(t)' => Holds(t)'
      <3>1. (Heard(t)' <=> Heard(t)) /\ (Holds(t)' <=> Holds(t))
        BY <1>1, <1>3, <1>5, <2>1, <2>3 DEF Heard, Holds, KeyOf, BitsOf
      <3> QED
        BY <3>1 DEF Deliveries
    <2>4. \A t \in Server : taken'[t] > 0 => pk'[t] = KeyOf(taken[t], t)'
      BY <1>1, <1>5 DEF Deliveries, KeyOf
    <2>5. \A t \in Server : pc'[t] # "recv" => i'[t] = Total_inputs'
      BY <1>1, <1>3 DEF Deliveries
    <2>6. \A t \in Server : i'[t] = taken'[t] \/ (client' = "closed" /\ taken'[t] = sent'[t])
      BY <1>1, <1>3, <1>5 DEF Deliveries
    <2> QED
      BY <1>1, <1>5, <2>2, <2>3, <2>4, <2>5, <2>6 DEF Deliveries
  <1> QED
    BY <1>4, <1>5 DEF Recv, KeyOf, BitsOf

\* After the receiving loop nothing of it moves, and all rounds are done.
LEMMA StepKeepsDeliveries ==
    Reception /\ Exchange /\ Deliveries /\ [Next]_vars => Deliveries'
  <1> SUFFICES ASSUME Reception, Exchange, Deliveries, [Next]_vars PROVE Deliveries'
    OBVIOUS
  <1>1. ASSUME UNCHANGED <<campaign, client, sent, i, taken, pk, share_map>>,
               \A s \in Server : pc'[s] # "recv" => pc[s] # "recv" \/ i[s] = Total_inputs
        PROVE  Deliveries'
    <2>1. Total_inputs' = Total_inputs
      BY <1>1 DEF Total_inputs
    <2>2. \A s \in Server : Heard(s)' => Holds(s)'
      BY <1>1, HoldsStays DEF Deliveries
    <2>3. \A s \in Server : KeyOf(taken[s], s)' = KeyOf(taken[s], s)
      BY <1>1 DEF KeyOf
    <2>4. \A s \in Server : pc'[s] # "recv" => i'[s] = Total_inputs'
      BY <1>1, <2>1 DEF Deliveries
    <2> QED
      BY <1>1, <2>1, <2>2, <2>3, <2>4 DEF Deliveries
  <1>2. CASE UNCHANGED vars
    BY <1>1, <1>2 DEF vars
  <1>3. CASE ClientStep
    BY <1>3, ClientKeepsDeliveries
  <1>4. CASE Recv(0) \/ Recv(1)
    BY <1>4, RecvKeepsDeliveries DEF Server
  <1>5. pc \in [Server -> Places0 \cup Places1]
    BY DEF Exchange
  <1>6. CASE SendPks \/ RecvPks
    BY <1>1, <1>5, <1>6 DEF SendPks, RecvPks, Server
  <1>7. CASE CheckRows \/ CheckSingles \/ RecvTotals
    BY <1>1, <1>5, <1>7 DEF CheckRows, CheckSingles, RecvTotals, Server
  <1>8. CASE SendChecks \/ RecvVerdict \/ RecvValid
    BY <1>1, <1>5, <1>8 DEF SendChecks, RecvVerdict, RecvValid, Server
  <1>9. CASE Convert
    <2>1. pc[0] = "convert" /\ pc[1] = "convert"
      BY <1>9 DEF Convert, Server
    <2> QED
      BY <1>1, <1>9, <2>1 DEF Convert, Server
  <1> QED
    BY <1>2, <1>3, <1>4, <1>6, <1>7, <1>8, <1>9 DEF Next, Server0Step, Server1Step

\* The list is made of what is stored when server 1 leaves its receiving loop.
LEMMA StepKeepsListing ==
    Reception /\ Exchange /\ Listing /\ [Next]_vars => Listing'
  <1> SUFFICES ASSUME Reception, Exchange, Listing, [Next]_vars PROVE Listing'
    OBVIOUS
  <1>0. /\ pk_list = [s \in Server |-> pk_list[s]] /\ pc \in [Server -> Places0 \cup Places1]
        /\ share_map = [s \in Server |-> share_map[s]]
    BY DEF Exchange, Flags, Reception
  <1>1. ASSUME pk_list'[1] = pk_list[1], share_map'[1] = share_map[1],
               pc'[1] # "recv" => pc[1] # "recv"
        PROVE  Listing'
    BY <1>1 DEF Listing
  <1>2. CASE UNCHANGED vars \/ ClientStep
    BY <1>1, <1>2 DEF vars, ClientStep, Close, SendShare
  <1>3. CASE Recv(0)
    BY <1>0, <1>1, <1>3 DEF Recv, Server
  <1>4. CASE Recv(1)
    BY <1>4 DEF Recv, Listing
  <1>5. CASE SendPks
    BY <1>0, <1>5 DEF SendPks, Listing, Server
  <1>6. CASE RecvPks
    BY <1>0, <1>1, <1>6 DEF RecvPks, Server
  <1>7. CASE CheckRows \/ CheckSingles \/ RecvTotals
    BY <1>0, <1>1, <1>7 DEF CheckRows, CheckSingles, RecvTotals, Server
  <1>8. CASE SendChecks \/ RecvVerdict \/ RecvValid
    BY <1>0, <1>1, <1>8 DEF SendChecks, RecvVerdict, RecvValid, Server
  <1>9. CASE Convert
    <2>1. pc[1] = "convert"
      BY <1>9 DEF Convert, Server
    <2> QED
      BY <1>1, <1>9, <2>1 DEF Convert
  <1> QED
    BY <1>2, <1>3, <1>4, <1>5, <1>6, <1>7, <1>8, <1>9 DEF Next, Server0Step, Server1Step
-----------------------------------------------------------------------------
(* What the messages carry.                                                *)

\* The XOR of what the servers stored for the n-th key.
Opened(n) == SymDiff(Bits(0, n), Bits(1, n))

\* Shares of the opened bits under a pad.
Masked(r) ==
    [s \in Server |-> [n \in DOMAIN pk_list[s] |-> [c \in Cells(cfg) |->
        LET opened == IF c \in SymDiff(Bits(0, n), Bits(1, n)) THEN 1 ELSE 0
        IN IF s = 0 THEN r ELSE (opened - r) % Modulus]]]

Converted == pc[0] \notin Early => \E r \in Pads : shares_p = Masked(r)

\* The verdict is about the rows, flags follow it, totals follow the flags.
Truthful ==
    /\ Len(to[0]) >= 2 => to[0][2].val = RowChecks(1)
    /\ Len(to[1]) >= 1 => to[1][1].val = AllValid(RowChecks(0), RowChecks(1))
    /\ Len(to[1]) >= 1 /\ ~Second => valid[0] = Every(Len(pk_list[1]), to[1][1].val)
    /\ pc[1] = "done" => to[0][IF Second THEN 4 ELSE 3].val = Accumulate(1, valid[0])
    /\ pc[0] = "done" => result = Verdict(Accumulate(1, valid[0]))
    /\ pc[0] # "done" => result = Pending

\* Nothing is sent, and nothing decided, at the start.
LEMMA InitTruthful == Init => Converted /\ Truthful
  BY DEF Init, Converted, Truthful, Early, Server

\* What the checks compute depends on the converted bits only.
LEMMA Frozen ==
    ASSUME UNCHANGED <<campaign, share_map, pk_list, shares_p>>
    PROVE  /\ \A s : RowChecks(s)' = RowChecks(s)
           /\ \A s, flags : Accumulate(s, flags)' = Accumulate(s, flags)
           /\ \A r : Masked(r)' = Masked(r)
           /\ \A mine, theirs : AllValid(mine, theirs)' = AllValid(mine, theirs)
  <1>1. cfg' = cfg /\ Total_inputs' = Total_inputs
    BY DEF cfg, Total_inputs
  <1>2. \A s, n, row : EntryParity(s, n, row)' = EntryParity(s, n, row)
    BY DEF EntryParity, Bits
  <1>3. \A s, n, row : EntrySum(s, n, row)' = EntrySum(s, n, row)
    BY DEF EntrySum
  <1>4. \A s : RowChecks(s)' = RowChecks(s)
    <2> TAKE s
    <2>1. \A row : /\ [n \in DOMAIN pk_list[s] |-> EntryParity(s, n, row)]'
                       = [n \in DOMAIN pk_list[s] |-> EntryParity(s, n, row)]
                   /\ [n \in DOMAIN pk_list[s] |-> EntrySum(s, n, row)]'
                       = [n \in DOMAIN pk_list[s] |-> EntrySum(s, n, row)]
      BY <1>2, <1>3
    <2> QED
      BY <1>1, <2>1 DEF RowChecks
  <1>5. \A s, flags : Accumulate(s, flags)' = Accumulate(s, flags)
    BY <1>1 DEF Accumulate
  <1>6. \A s, n : Bits(s, n)' = Bits(s, n)
    BY DEF Bits
  <1>7. \A r : Masked(r)' = Masked(r)
    BY <1>1, <1>6 DEF Masked
  <1>8. \A mine, theirs : AllValid(mine, theirs)' = AllValid(mine, theirs)
    BY <1>1 DEF AllValid
  <1> QED
    BY <1>4, <1>5, <1>7, <1>8

\* So do the totals of the valid entries, and the answer.
LEMMA FrozenTotals ==
    ASSUME UNCHANGED <<campaign, share_map, pk_list, shares_p>>, valid'[0] = valid[0]
    PROVE  /\ Accumulate(1, valid[0])' = Accumulate(1, valid[0])
           /\ Verdict(Accumulate(1, valid[0]))' = Verdict(Accumulate(1, valid[0]))
  <1>1. cfg' = cfg /\ Total_inputs' = Total_inputs
    BY DEF cfg, Total_inputs
  <1>2. /\ Accumulate(0, valid[0])' = Accumulate(0, valid[0])
        /\ Accumulate(1, valid[0])' = Accumulate(1, valid[0])
    BY <1>1 DEF Accumulate
  <1> QED
    BY <1>1, <1>2 DEF Verdict

\* A step that touches none of this keeps it.
LEMMA QuietTruthful ==
    ASSUME Truthful, UNCHANGED <<campaign, share_map, pk_list, shares_p, to, valid, result, pc>>
    PROVE  Truthful'
  <1>1. Second' = Second
    BY DEF Second, cfg
  <1>2. \A s : RowChecks(s)' = RowChecks(s)
    BY Frozen
  <1>3. \A mine, theirs : AllValid(mine, theirs)' = AllValid(mine, theirs)
    BY Frozen
  <1>4. /\ Accumulate(1, valid[0])' = Accumulate(1, valid[0])
        /\ Verdict(Accumulate(1, valid[0]))' = Verdict(Accumulate(1, valid[0]))
    BY FrozenTotals
  <1>5. AllValid(RowChecks(0), RowChecks(1))' = AllValid(RowChecks(0), RowChecks(1))
    BY <1>2, <1>3
  <1> QED
    BY <1>1, <1>2, <1>4, <1>5 DEF Truthful

\* While both servers receive, nothing is claimed.
LEMMA ReceivingTruthful ==
    ASSUME Exchange, Exchange', Truthful,
           Recv(0) \/ Recv(1) \/ SendPks \/ RecvPks \/ Convert
    PROVE  Truthful'
  <1>1. pc[0] \in Early /\ pc[1] \in Early
    BY DEF Recv, SendPks, RecvPks, Convert, Early, Exchange, Together, Server
  <1>2. result' = result /\ result = Pending
    BY <1>1 DEF Recv, SendPks, RecvPks, Convert, Truthful, Early
  <1>3. pc'[0] \in Early \cup {"check"} /\ pc'[1] \in Early \cup {"send_check"}
    BY <1>1 DEF Recv, SendPks, RecvPks, Convert, Early, Exchange, Server
  <1>4. Len(to'[0]) \in 0 .. 1 /\ Len(to'[1]) = 0
    BY <1>3 DEF Exchange, Written, Early
  <1> QED
    BY <1>2, <1>3, <1>4 DEF Truthful, Early

\* Server 1's parities and sums are those of its rows.
LEMMA SendChecksTruthful ==
    ASSUME Exchange, Exchange', Truthful, SendChecks PROVE Truthful'
  <1>1. /\ pc[1] = "send_check" /\ pc' = [pc EXCEPT ![1] = "verdict"]
        /\ Send(0, "checks", RowChecks(1))
        /\ UNCHANGED <<campaign, share_map, pk_list, valid, shares_p, result>>
    BY DEF SendChecks
  <1>2. Len(to[0]) = 1 /\ Shaped /\ pc'[1] = "verdict" /\ pc'[0] = pc[0]
    BY <1>1 DEF Exchange, Written, Server
  <1>3. to'[0][2].val = RowChecks(1) /\ Len(to'[0]) = 2 /\ to'[1] = to[1]
    <2>1. Sent(0, "checks", RowChecks(1))
      BY <1>1, <1>2, SendAppends, TwoServers
    <2> QED
      BY <1>2, <2>1 DEF Sent, Server
  <1>4. /\ RowChecks(1)' = RowChecks(1)
        /\ AllValid(RowChecks(0), RowChecks(1))' = AllValid(RowChecks(0), RowChecks(1))
    BY <1>1, Frozen
  <1>5. Second' = Second
    BY <1>1, <1>3 DEF Second, cfg
  <1>6. Verdict(Accumulate(1, valid[0]))' = Verdict(Accumulate(1, valid[0]))
    BY <1>1, FrozenTotals
  <1> QED
    BY <1>1, <1>2, <1>3, <1>4, <1>5, <1>6 DEF Truthful

\* The verdict is the one on both servers' rows.
LEMMA CheckRowsTruthful ==
    ASSUME Exchange, Exchange', Truthful, CheckRows PROVE Truthful'
  <1> DEFINE all_valid == AllValid(RowChecks(0), RowChecks(1))
  <1>1. /\ pc[0] = "check" /\ rcvd[0] < Len(to[0])
        /\ UNCHANGED <<campaign, share_map, pk_list, shares_p, result>>
    BY DEF CheckRows, CanRead
  <1>2. /\ rcvd[0] = 1 /\ rcvd[1] \in Nat /\ Len(to[0]) \in Nat /\ Len(to[1]) = 0 /\ Shaped
        /\ pc[1] # "done"
    <2>1. rcvd[0] = 1 /\ rcvd[1] \in Nat /\ Len(to[0]) \in Nat /\ Len(to[1]) = 0 /\ Shaped
      BY <1>1 DEF Exchange, WasRead, Written, Shaped, Server
    <2>2. rcvd[1] <= 0
      BY <2>1 DEF Exchange, Behind
    <2> QED
      BY <2>1, <2>2 DEF Exchange, WasRead
  <1>3. Incoming(0) = RowChecks(1) /\ Len(to[0]) >= 2
    BY <1>1, <1>2 DEF Incoming, Truthful
  <1>4. /\ Send(1, "all_valid", all_valid)
        /\ pc' = [pc EXCEPT ![0] = AfterRows(all_valid)]
        /\ valid' = IF pc'[0] = "single" THEN valid
                    ELSE [valid EXCEPT ![0] = Every(Len(valid[0]), all_valid)]
    BY <1>3 DEF CheckRows
  <1>5. to'[1][1].val = all_valid /\ Len(to'[1]) = 1 /\ to'[0] = to[0]
    <2> HIDE DEF all_valid
    <2>1. Sent(1, "all_valid", all_valid)
      BY <1>2, <1>4, SendAppends, TwoServers
    <2> QED
      BY <1>2, <2>1 DEF Sent, Server
  <1>6. all_valid' = all_valid /\ RowChecks(1)' = RowChecks(1)
    BY <1>1, Frozen
  <1>7. Second' <=> ~all_valid /\ cfg.type = "FREQ_OP"
    BY <1>1, <1>5 DEF Second, cfg
  <1>8. /\ pc'[0] = IF Second' THEN "single" ELSE "sum"
        /\ pc'[1] = pc[1]
    <2>1. pc \in [Server -> Places0 \cup Places1]
      BY DEF Exchange
    <2> HIDE DEF all_valid
    <2> QED
      BY <1>4, <1>7, <2>1 DEF AfterRows, Server
  <1>9. ~Second' => valid'[0] = Every(Len(pk_list'[1]), all_valid)
    <2>1. valid \in [Server -> Seq(BOOLEAN)] /\ Len(valid[0]) = Len(pk_list[1])
      BY <1>1 DEF Exchange, Flags
    <2> HIDE DEF all_valid
    <2> QED
      BY <1>1, <1>4, <1>8, <2>1 DEF Server
  <1>10. result = Pending
    BY <1>1 DEF Truthful
  <1> HIDE DEF all_valid
  <1>11. AllValid(RowChecks(0), RowChecks(1))' = all_valid
    BY <1>6 DEF all_valid
  <1> QED
    BY <1>1, <1>2, <1>3, <1>5, <1>6, <1>8, <1>9, <1>10, <1>11 DEF Truthful

\* Single checks replace the flags before server 1 has any.
LEMMA CheckSinglesTruthful ==
    ASSUME Exchange, Exchange', Truthful, CheckSingles PROVE Truthful'
  <1>1. /\ pc[0] = "single" /\ pc' = [pc EXCEPT ![0] = "sum"]
        /\ UNCHANGED <<campaign, share_map, pk_list, shares_p, result>>
        /\ Send(1, "valid", valid'[0])
    BY DEF CheckSingles, SendFlags
  <1>2. Second /\ Len(to[1]) = 1 /\ Shaped /\ pc[1] # "done" /\ pc'[0] = "sum" /\ pc'[1] = pc[1]
    <2>1. Second /\ Len(to[1]) = 1 /\ Shaped /\ pc'[0] = "sum" /\ pc'[1] = pc[1]
      BY <1>1 DEF Exchange, Together, Written, Server
    <2>2. rcvd[1] <= 1
      BY <2>1 DEF Exchange, Behind
    <2> QED
      BY <2>1, <2>2 DEF Exchange, WasRead
  <1>3. to'[1][1] = to[1][1] /\ to'[0] = to[0] /\ Len(to'[1]) = 2
    <2>1. PICK flags : flags = valid'[0]
      OBVIOUS
    <2>2. Sent(1, "valid", flags)
      BY <1>1, <1>2, <2>1, SendAppends, TwoServers
    <2> QED
      BY <1>2, <2>2 DEF Sent, Server
  <1>4. Second'
    BY <1>1, <1>2, <1>3 DEF Second, cfg
  <1>5. /\ RowChecks(1)' = RowChecks(1)
        /\ AllValid(RowChecks(0), RowChecks(1))' = AllValid(RowChecks(0), RowChecks(1))
    BY <1>1, Frozen
  <1> QED
    BY <1>1, <1>2, <1>3, <1>4, <1>5 DEF Truthful

\* Without a second round server 1 adds up by the verdict, as server 0 does.
LEMMA RecvVerdictTruthful ==
    ASSUME Exchange, Exchange', Truthful, RecvVerdict PROVE Truthful'
  <1>1. /\ pc[1] = "verdict" /\ rcvd[1] < Len(to[1])
        /\ UNCHANGED <<campaign, share_map, pk_list, shares_p, result>>
    BY DEF RecvVerdict, CanRead
  <1>2. /\ rcvd[1] = 0 /\ Len(to[0]) = 2 /\ Len(to[1]) \in Nat /\ Len(to[1]) >= 1 /\ Shaped
    BY <1>1 DEF Exchange, WasRead, Written, Shaped, Server
  <1>3. Incoming(1) = to[1][1].val /\ (Second <=> ~Incoming(1) /\ cfg.type = "FREQ_OP")
    BY <1>2 DEF Incoming, Second
  <1>4. /\ RowChecks(1)' = RowChecks(1)
        /\ AllValid(RowChecks(0), RowChecks(1))' = AllValid(RowChecks(0), RowChecks(1))
    BY <1>1, Frozen
  <1>5. pc \in [Server -> Places0 \cup Places1] /\ valid \in [Server -> Seq(BOOLEAN)]
    BY DEF Exchange, Flags
  <1>6. CASE Second
    <2>1. /\ pc' = [pc EXCEPT ![1] = "valid"] /\ valid' = valid
          /\ \E singles : Send(0, "singles", singles)
      BY <1>3, <1>6 DEF RecvVerdict
    <2>2. to'[1] = to[1] /\ to'[0][2] = to[0][2] /\ Len(to'[0]) = 3
      <3>1. PICK singles : Send(0, "singles", singles)
        BY <2>1
      <3>2. Sent(0, "singles", singles)
        BY <1>2, <3>1, SendAppends, TwoServers
      <3> QED
        BY <1>2, <3>2 DEF Sent, Server
    <2>3. Second'
      BY <1>1, <1>6, <2>2 DEF Second, cfg
    <2>4. Verdict(Accumulate(1, valid[0]))' = Verdict(Accumulate(1, valid[0]))
      BY <1>1, <2>1, FrozenTotals
    <2>5. pc'[0] = pc[0] /\ pc'[1] = "valid"
      BY <1>5, <2>1 DEF Server
    <2> QED
      BY <1>1, <1>2, <1>4, <1>6, <2>1, <2>2, <2>3, <2>4, <2>5 DEF Truthful
  <1>7. CASE ~Second
    <2>1. /\ pc' = [pc EXCEPT ![1] = "done"]
          /\ valid' = [valid EXCEPT ![1] = Every(Len(pk_list[1]), Incoming(1))]
          /\ Send(0, "sum", Accumulate(1, valid'[1]))
      BY <1>3, <1>7 DEF RecvVerdict
    <2>2. valid[0] = Every(Len(pk_list[1]), Incoming(1))
      BY <1>2, <1>3, <1>7 DEF Truthful
    <2>3. valid'[1] = valid[0] /\ valid'[0] = valid[0]
      BY <1>5, <2>1, <2>2 DEF Server
    <2>4. Send(0, "sum", Accumulate(1, valid[0]))
      BY <2>1, <2>3
    <2>5. /\ to'[1] = to[1] /\ to'[0][2] = to[0][2] /\ Len(to'[0]) = 3
          /\ to'[0][3].val = Accumulate(1, valid[0])
      <3>1. Sent(0, "sum", Accumulate(1, valid[0]))
        BY <1>2, <2>4, SendAppends, TwoServers
      <3> QED
        BY <1>2, <3>1 DEF Sent, Server
    <2>6. ~Second'
      BY <1>1, <1>7, <2>5 DEF Second, cfg
    <2>7. /\ Accumulate(1, valid[0])' = Accumulate(1, valid[0])
          /\ Verdict(Accumulate(1, valid[0]))' = Verdict(Accumulate(1, valid[0]))
      BY <1>1, <2>3, FrozenTotals
    <2>8. pc'[0] = pc[0] /\ pc'[1] = "done"
      BY <1>5, <2>1 DEF Server
    <2> QED
      BY <1>1, <1>2, <1>4, <1>7, <2>3, <2>5, <2>6, <2>7, <2>8 DEF Truthful
  <1> QED
    BY <1>6, <1>7

\* After a second round server 1 adds up by server 0's flags.
LEMMA RecvValidTruthful ==
    ASSUME Exchange, Exchange', Truthful, RecvValid PROVE Truthful'
  <1>1. /\ pc[1] = "valid" /\ rcvd[1] < Len(to[1]) /\ pc' = [pc EXCEPT ![1] = "done"]
        /\ UNCHANGED <<campaign, share_map, pk_list, shares_p, result>>
        /\ valid' = [valid EXCEPT ![1] = Incoming(1)]
        /\ Send(0, "sum", Accumulate(1, valid'[1]))
    BY DEF RecvValid, CanRead
  <1>2. /\ rcvd[1] = 1 /\ Len(to[0]) = 3 /\ Len(to[1]) \in Nat /\ Len(to[1]) >= 2 /\ Shaped /\ Second
    BY <1>1 DEF Exchange, WasRead, Written, Shaped, Together, Server
  <1>3. Incoming(1) = valid[0]
    BY <1>2 DEF Incoming, Exchange, Carried
  <1>4. /\ RowChecks(1)' = RowChecks(1)
        /\ AllValid(RowChecks(0), RowChecks(1))' = AllValid(RowChecks(0), RowChecks(1))
    BY <1>1, Frozen
  <1>5. pc \in [Server -> Places0 \cup Places1] /\ valid \in [Server -> Seq(BOOLEAN)]
    BY DEF Exchange, Flags
  <1>6. valid'[1] = valid[0] /\ valid'[0] = valid[0]
    BY <1>1, <1>3, <1>5 DEF Server
  <1>7. Send(0, "sum", Accumulate(1, valid[0]))
    BY <1>1, <1>6
  <1>8. /\ to'[1] = to[1] /\ to'[0][2] = to[0][2] /\ Len(to'[0]) = 4
        /\ to'[0][4].val = Accumulate(1, valid[0])
    <2>1. Sent(0, "sum", Accumulate(1, valid[0]))
      BY <1>2, <1>7, SendAppends, TwoServers
    <2> QED
      BY <1>2, <2>1 DEF Sent, Server
  <1>9. Second'
    BY <1>1, <1>2, <1>8 DEF Second, cfg
  <1>10. /\ Accumulate(1, valid[0])' = Accumulate(1, valid[0])
         /\ Verdict(Accumulate(1, valid[0]))' = Verdict(Accumulate(1, valid[0]))
    BY <1>1, <1>6, FrozenTotals
  <1>11. pc'[0] = pc[0] /\ pc'[1] = "done"
    BY <1>1, <1>5 DEF Server
  <1> QED
    BY <1>1, <1>2, <1>4, <1>6, <1>8, <1>9, <1>10, <1>11 DEF Truthful

\* What server 0 decides on are both servers' totals of the valid entries.
LEMMA RecvTotalsTruthful ==
    ASSUME Exchange, Exchange', Truthful, RecvTotals PROVE Truthful'
  <1>1. /\ pc[0] = "sum" /\ rcvd[0] < Len(to[0]) /\ pc' = [pc EXCEPT ![0] = "done"]
        /\ UNCHANGED <<campaign, share_map, to, pk_list, valid, shares_p>>
        /\ result' = Verdict(Incoming(0))
    BY DEF RecvTotals, CanRead
  <1>2. /\ rcvd[0] = IF Second THEN 3 ELSE 2
        /\ Len(to[0]) \in Nat /\ Len(to[1]) \in Nat
    BY <1>1 DEF Exchange, WasRead, Shaped, Server
  <1>3. pc[1] = "done"
    <2>1. pc[1] \in Places1 /\ Written /\ Together
      BY DEF Exchange
    <2>2. pc[1] \notin Early
      BY <1>1, <2>1 DEF Together, Early
    <2>3. pc[1] # "send_check" /\ pc[1] # "verdict"
      <3>1. PICK n \in Nat : n = Len(to[0])
        BY <1>2
      <3>2. n > 2
        <4>1. CASE Second
          BY <1>1, <1>2, <3>1, <4>1
        <4>2. CASE ~Second
          BY <1>1, <1>2, <3>1, <4>2
        <4> QED
          BY <4>1, <4>2
      <3>3. pc[1] \in {"convert", "send_check"} => n = 1
        BY <2>1, <3>1 DEF Written
      <3>4. pc[1] = "verdict" => n = 2
        BY <2>1, <3>1 DEF Written
      <3> QED
        BY <3>2, <3>3, <3>4
    <2>4. pc[1] # "valid"
      <3>1. ASSUME pc[1] = "valid" PROVE FALSE
        <4>1. Second /\ Len(to[0]) = 3
          BY <2>1, <3>1 DEF Written, Together
        <4> QED
          BY <1>1, <1>2, <4>1
      <3> QED
        BY <3>1
    <2> QED
      BY <2>1, <2>2, <2>3, <2>4 DEF Places1, Early
  <1>4. Incoming(0) = Accumulate(1, valid[0])
    <2>1. to[0][IF Second THEN 4 ELSE 3].val = Accumulate(1, valid[0])
      BY <1>3 DEF Truthful
    <2>2. rcvd[0] + 1 = IF Second THEN 4 ELSE 3
      BY <1>2
    <2> QED
      BY <2>1, <2>2 DEF Incoming
  <1>5. /\ RowChecks(1)' = RowChecks(1)
        /\ AllValid(RowChecks(0), RowChecks(1))' = AllValid(RowChecks(0), RowChecks(1))
    BY <1>1, Frozen
  <1>6. /\ Accumulate(1, valid[0])' = Accumulate(1, valid[0])
        /\ Verdict(Accumulate(1, valid[0]))' = Verdict(Accumulate(1, valid[0]))
    BY <1>1, FrozenTotals
  <1>7. Second' = Second
    BY <1>1 DEF Second, cfg
  <1>8. pc'[0] = "done" /\ pc'[1] = pc[1]
    BY <1>1 DEF Exchange, Server
  <1>9. result' = Verdict(Accumulate(1, valid[0]))
    BY <1>1, <1>4
  <1> QED
    BY <1>1, <1>3, <1>5, <1>6, <1>7, <1>8, <1>9 DEF Truthful

\* The messages are what they claim to be.
LEMMA StepKeepsTruthful == Exchange /\ Exchange' /\ Truthful /\ [Next]_vars => Truthful'
  <1> SUFFICES ASSUME Exchange, Exchange', Truthful, [Next]_vars PROVE Truthful'
    OBVIOUS
  <1>1. CASE UNCHANGED vars \/ ClientStep
    BY <1>1, QuietTruthful DEF vars, ClientStep, Close, SendShare
  <1>2. CASE Recv(0) \/ Recv(1) \/ SendPks \/ RecvPks \/ Convert
    BY <1>2, ReceivingTruthful
  <1>3. CASE SendChecks \/ CheckRows \/ CheckSingles
    BY <1>3, SendChecksTruthful, CheckRowsTruthful, CheckSinglesTruthful
  <1>4. CASE RecvVerdict \/ RecvValid \/ RecvTotals
    BY <1>4, RecvVerdictTruthful, RecvValidTruthful, RecvTotalsTruthful
  <1> QED
    BY <1>1, <1>2, <1>3, <1>4 DEF Next, Server0Step, Server1Step

\* After the conversion the shares stay.
LEMMA StepKeepsConverted == Exchange /\ Converted /\ [Next]_vars => Converted'
  <1> SUFFICES ASSUME Exchange, Converted, [Next]_vars PROVE Converted'
    OBVIOUS
  <1>1. ASSUME UNCHANGED <<campaign, share_map, pk_list, shares_p>>,
               pc'[0] \notin Early => pc[0] \notin Early
        PROVE  Converted'
    <2>1. \A r : Masked(r)' = Masked(r)
      BY <1>1, Frozen
    <2> QED
      BY <1>1, <2>1 DEF Converted
  <1>2. ASSUME pc'[0] \in Early PROVE Converted'
    BY <1>2 DEF Converted
  <1>3. pc \in [Server -> Places0 \cup Places1] /\ Together
    BY DEF Exchange
  <1>4. CASE UNCHANGED vars \/ ClientStep
    BY <1>1, <1>4 DEF vars, ClientStep, Close, SendShare
  <1>5. CASE Recv(0) \/ Recv(1) \/ SendPks \/ RecvPks
    BY <1>2, <1>3, <1>5 DEF Recv, SendPks, RecvPks, Together, Early, Server
  <1>6. CASE Convert
    <2>1. /\ UNCHANGED <<campaign, share_map, pk_list>>
          /\ \E r \in Pads : shares_p' = Masked(r)
      BY <1>6 DEF Convert, Masked
    <2>2. ASSUME NEW r PROVE Masked(r)' = Masked(r)
      <3>1. cfg' = cfg /\ \A s, n : Bits(s, n)' = Bits(s, n)
        BY <2>1 DEF cfg, Bits
      <3> QED
        BY <2>1, <3>1 DEF Masked
    <2> QED
      BY <2>1, <2>2 DEF Converted
  <1>7. CASE SendChecks \/ RecvVerdict \/ RecvValid
    BY <1>1, <1>3, <1>7 DEF SendChecks, RecvVerdict, RecvValid, Server
  <1>8. CASE CheckRows \/ CheckSingles \/ RecvTotals
    <2>1. pc[0] \notin Early
      BY <1>8 DEF CheckRows, CheckSingles, RecvTotals, Early
    <2> QED
      BY <1>1, <1>8, <2>1 DEF CheckRows, CheckSingles, RecvTotals
  <1> QED
    BY <1>4, <1>5, <1>6, <1>7, <1>8 DEF Next, Server0Step, Server1Step

\* All four are invariants.
THEOREM SketchMessages == Spec => [](Deliveries /\ Listing /\ Converted /\ Truthful)
  <1>1. Init => Deliveries /\ Listing /\ Converted /\ Truthful
    BY InitDeliveries, InitTruthful
  <1>2. Reception /\ Exchange /\ Exchange' /\ Deliveries /\ Listing /\ Converted /\ Truthful
            /\ [Next]_vars
        => (Deliveries /\ Listing /\ Converted /\ Truthful)'
    BY StepKeepsDeliveries, StepKeepsListing, StepKeepsConverted, StepKeepsTruthful
  <1> QED
    BY <1>1, <1>2, SketchReception, SketchExchange, PTL DEF Spec
-----------------------------------------------------------------------------
(* Prefixes.                                                               *)

\* Dropping no bits.
LEMMA DivOne == ASSUME NEW x \in Int PROVE x \div 1 = x
  <1>1. PICK one \in Nat \ {0}, z \in Int : one = 1 /\ z = 0
    OBVIOUS
  <1>2. (x * one + z) \div one = x
    BY <1>1, DivUnique
  <1>3. x * one + z = x
    BY <1>1
  <1> QED
    BY <1>1, <1>2, <1>3

\* Dropping bits one after the other.
LEMMA DivDouble ==
  ASSUME NEW x \in Nat, NEW m \in Nat \ {0}
  PROVE  (x \div m) \div 2 = x \div (2 * m)
  <1>1. PICK q \in Int, r \in 0 .. m - 1 : q = x \div m /\ x = q * m + r
    BY DivMod
  <1>2. PICK p \in Int, b \in 0 .. 1 : p = q \div 2 /\ q = 2 * p + b
    <2>1. PICK two \in Nat \ {0} : two = 2
      OBVIOUS
    <2>2. q \div two \in Int /\ q = (q \div two) * two + (q % two) /\ q % two \in 0 .. two - 1
      BY DivMod
    <2> QED
      BY <2>1, <2>2
  <1>3. PICK mm \in Nat \ {0}, s \in Int : mm = 2 * m /\ s = b * m + r
    OBVIOUS
  <1>4. s \in 0 .. mm - 1
    <2>1. CASE b = 0
      BY <1>3, <2>1
    <2>2. CASE b = 1
      BY <1>3, <2>2
    <2> QED
      BY <2>1, <2>2
  <1>5. x = p * mm + s
    <2>1. CASE b = 0
      <3>1. q = 2 * p /\ s = r
        BY <1>2, <1>3, <2>1
      <3>2. q * m = p * (2 * m)
        BY <3>1
      <3> QED
        BY <1>1, <1>3, <3>1, <3>2
    <2>2. CASE b = 1
      <3>1. q = 2 * p + 1 /\ s = m + r
        BY <1>2, <1>3, <2>2
      <3>2. q * m = p * (2 * m) + m
        BY <3>1
      <3> QED
        BY <1>1, <1>3, <3>1, <3>2
    <2> QED
      BY <2>1, <2>2
  <1>6. (p * mm + s) \div mm = p
    BY <1>4, DivUnique
  <1> QED
    BY <1>1, <1>2, <1>3, <1>5, <1>6

\* The prefixes of an n-bit number: k bits shorter after k bits are dropped.
LEMMA PrefixBound ==
  ASSUME NEW n \in Nat, NEW x \in 0 .. 2 ^ n - 1, NEW k \in 0 .. n
  PROVE  x \div 2 ^ k \in 0 .. 2 ^ (n - k) - 1
  <1> DEFINE P == {h \in Nat : h <= n => x \div 2 ^ h \in 0 .. 2 ^ (n - h) - 1}
  <1>0. 2 ^ n \in Nat \ {0} /\ x \in Nat
    BY PowPos
  <1>1. 0 \in P
    <2>1. x \div 1 = x
      BY <1>0, DivOne
    <2>2. x \div 2 ^ 0 = x /\ 2 ^ (n - 0) = 2 ^ n
      <3>1. n - 0 = n
        OBVIOUS
      <3> QED
        BY <2>1, <3>1, PowZero
    <2>3. x \div 2 ^ 0 \in 0 .. 2 ^ (n - 0) - 1
      BY <2>2
    <2> QED
      BY <2>3
  <1>2. ASSUME NEW h \in Nat, h \in P PROVE h + 1 \in P
    <2> SUFFICES ASSUME h + 1 <= n PROVE x \div 2 ^ (h + 1) \in 0 .. 2 ^ (n - (h + 1)) - 1
      OBVIOUS
    <2>1. 2 ^ h \in Nat \ {0} /\ 2 ^ (h + 1) = 2 * 2 ^ h
      BY PowPos, PowDouble
    <2>2. PICK g \in Nat : g = n - (h + 1)
      OBVIOUS
    <2>3. 2 ^ (g + 1) = 2 * 2 ^ g /\ 2 ^ g \in Nat \ {0} /\ g + 1 = n - h
      BY <2>2, PowPos, PowDouble
    <2>4. PICK y \in Int, b \in Nat \ {0} : y = x \div 2 ^ h /\ b = 2 ^ g /\ y \in 0 .. 2 * b - 1
      BY <1>2, <2>3
    <2>5. y \div 2 \in 0 .. b - 1
      <3>1. PICK two \in Nat \ {0} : two = 2
        OBVIOUS
      <3>2. PICK p \in Int, c \in 0 .. 1 : p = y \div 2 /\ y = p * 2 + c
        <4>1. y \div two \in Int /\ y = (y \div two) * two + (y % two) /\ y % two \in 0 .. two - 1
          BY <2>4, DivMod
        <4> QED
          BY <3>1, <4>1
      <3>3. p \in 0 .. b - 1
        BY <2>4, <3>2
      <3> QED
        BY <3>2, <3>3
    <2>6. x \div 2 ^ (h + 1) = (x \div 2 ^ h) \div 2
      BY <1>0, <2>1, DivDouble
    <2> QED
      BY <2>2, <2>4, <2>5, <2>6
  <1> HIDE DEF P
  <1>3. Nat \subseteq P
    BY <1>1, <1>2, Induct
  <1>4. k \in P /\ k <= n
    BY <1>3
  <1> QED
    BY <1>4 DEF P
-----------------------------------------------------------------------------
(* Rows and cells.                                                         *)

\* What the batches are made of.
LEMMA Configured ==
    ASSUME campaign \in Campaigns
    PROVE  /\ cfg.num_bits \in Nat /\ cfg.w \in Nat /\ cfg.d \in Nat
           /\ Layers(cfg) \in 0 .. cfg.num_bits /\ (HasExactRow(cfg) \/ cfg.d > 0)
           /\ cfg.type \in SketchOps
           /\ (HasExactRow(cfg) <=> cfg.type # "COUNTMIN_OP")
           /\ cfg.type = "FREQ_OP" => Layers(cfg) = 0
           /\ cfg.type = "COUNTMIN_OP" => Layers(cfg) = 1
           /\ cfg.type = "HEAVY_OP" => Layers(cfg) = cfg.L
  <1>1. cfg.type \in SketchOps
    BY SketchAssumption DEF cfg
  <1>2. /\ cfg.type = "FREQ_OP" => Layers(cfg) = 0
        /\ cfg.type = "COUNTMIN_OP" => Layers(cfg) = 1
        /\ cfg.type = "HEAVY_OP" => Layers(cfg) = cfg.L
    BY <1>1 DEF Layers, SketchOps
  <1> QED
    BY <1>1, <1>2, PreparedAssumption DEF cfg, HasExactRow

\* A hash's values are numbers of cells of its row.
LEMMA HashRange ==
    ASSUME campaign \in Campaigns, NEW k \in 0 .. Layers(cfg) - 1, NEW j \in 0 .. cfg.d - 1,
           NEW x \in Nat
    PROVE  cfg.w \in Nat \ {0} /\ Eval(cfg.hashes[k][j], x) \in 0 .. cfg.w - 1
  <1>1. PICK w \in Nat \ {0}, l \in Nat, b \in Nat :
          w = cfg.w /\ l = cfg.num_bits - k /\ b = W_bits(cfg.w) /\ b <= l
    <2>1. cfg.w > 0 /\ W_bits(cfg.w) \in 1 .. cfg.num_bits - k
      BY PreparedAssumption DEF cfg
    <2> QED
      BY <2>1, Configured
  <1>2. PICK h : h = cfg.hashes[k][j] /\ h \in Family(l, w)
    <2>1. cfg.hashes[k][j] \in LayerFamily(cfg, k)
      BY PreparedAssumption DEF cfg
    <2> QED
      BY <1>1, <2>1 DEF LayerFamily
  <1>3. PICK p \in Nat \ {0}, q \in Nat \ {0} : p = 2 ^ l /\ q = 2 ^ (l - b)
    <2>1. l - b \in Nat
      BY <1>1
    <2> QED
      BY <2>1, PowPos
  <1>4. h.l_bits = l /\ h.w = w /\ h.c0 \in 0 .. w - 1 /\ h.c1 \in 0 .. p - 1
    BY <1>2, <1>3 DEF Family
  <1>5. PICK y \in Int : y = x * h.c1
    BY <1>4
  <1>6. PICK z \in Int : z = y % p
    BY <1>3
  <1>7. PICK u \in Int : u = z \div q
    BY <1>3, DivMod
  <1>8. PICK v \in Int : v = u + h.c0
    BY <1>4
  <1>9. v % w \in 0 .. w - 1
    BY ModRange
  <1>10. Eval(h, x) = v % w
    BY <1>1, <1>3, <1>4, <1>5, <1>6, <1>7, <1>8 DEF Eval
  <1> QED
    BY <1>1, <1>2, <1>9, <1>10

Layout(kd, start, size) ==
    /\ kd = Layers(cfg) * cfg.d /\ start = kd * cfg.w /\ size = 2 ^ (cfg.num_bits - Layers(cfg))
    /\ start = ExactStart(cfg) /\ size = ExactSize(cfg)
    /\ kd \in Nat /\ start \in Nat /\ size \in Nat \ {0}
    /\ DOMAIN Rows(cfg) = 1 .. Len(Rows(cfg))
    /\ Len(Rows(cfg)) = IF HasExactRow(cfg) THEN kd + 1 ELSE kd
    /\ \A r \in 1 .. kd : Rows(cfg)[r] = (r - 1) * cfg.w .. r * cfg.w - 1
    /\ HasExactRow(cfg) => Rows(cfg)[kd + 1] = start .. start + size - 1

\* The rows of the hashes, and the exact one.
LEMMA RowsKnown == ASSUME campaign \in Campaigns PROVE \E kd, start, size : Layout(kd, start, size)
  <1>1. PICK w \in Nat, d \in Nat, nb \in Nat, k \in Nat :
          w = cfg.w /\ d = cfg.d /\ nb = cfg.num_bits /\ k = Layers(cfg) /\ k <= nb
    BY Configured
  <1>2. PICK kd \in Nat : kd = k * d
    OBVIOUS
  <1>3. PICK start \in Nat, size \in Nat \ {0} :
          start = kd * w /\ size = 2 ^ (nb - k) /\ start = ExactStart(cfg) /\ size = ExactSize(cfg)
    <2>1. nb - k \in Nat
      BY <1>1
    <2>2. 2 ^ (nb - k) \in Nat \ {0}
      BY <2>1, PowPos
    <2>3. ExactStart(cfg) = kd * w /\ kd * w \in Nat
      BY <1>1, <1>2 DEF ExactStart
    <2> QED
      BY <1>1, <2>2, <2>3 DEF ExactSize
  <1>4. PICK hashed : hashed = [r \in 1 .. kd |-> (r - 1) * w .. r * w - 1]
    OBVIOUS
  <1>5. PICK exact : exact = IF HasExactRow(cfg) THEN <<start .. start + size - 1>> ELSE <<>>
    OBVIOUS
  <1>6. Rows(cfg) = hashed \o exact
    BY <1>1, <1>2, <1>3, <1>4, <1>5 DEF Rows
  <1> DEFINE R == SUBSET Int
  <1>7. hashed \in Seq(R) /\ Len(hashed) = kd
    <2>1. ASSUME NEW r \in 1 .. kd PROVE (r - 1) * w .. r * w - 1 \in R
      <3>1. PICK x \in Int, y \in Int : x = (r - 1) * w /\ y = r * w - 1
        OBVIOUS
      <3>2. x .. y \in R
        OBVIOUS
      <3> QED
        BY <3>1, <3>2
    <2> HIDE DEF R
    <2>2. hashed \in [1 .. kd -> R]
      BY <1>4, <2>1
    <2> QED
      BY <2>2
  <1>8. exact \in Seq(R) /\ Len(exact) = IF HasExactRow(cfg) THEN 1 ELSE 0
    <2>1. start .. start + size - 1 \in R
      OBVIOUS
    <2> HIDE DEF R
    <2> QED
      BY <1>5, <2>1
  <1> HIDE DEF R
  <1>9. /\ Rows(cfg) \in Seq(R) /\ Len(Rows(cfg)) = IF HasExactRow(cfg) THEN kd + 1 ELSE kd
        /\ \A r \in 1 .. Len(Rows(cfg)) :
              Rows(cfg)[r] = IF r <= kd THEN hashed[r] ELSE exact[r - kd]
    <2>1. /\ hashed \o exact \in Seq(R) /\ Len(hashed \o exact) = Len(hashed) + Len(exact)
          /\ \A r \in 1 .. Len(hashed) + Len(exact) :
               (hashed \o exact)[r] = IF r <= Len(hashed) THEN hashed[r] ELSE exact[r - Len(hashed)]
      BY <1>7, <1>8, ConcatProperties
    <2> QED
      BY <1>6, <1>7, <1>8, <2>1
  <1>10. DOMAIN Rows(cfg) = 1 .. Len(Rows(cfg))
    BY <1>9
  <1>11. \A r \in 1 .. kd : Rows(cfg)[r] = (r - 1) * w .. r * w - 1
    BY <1>4, <1>9
  <1>12. HasExactRow(cfg) => Rows(cfg)[kd + 1] = start .. start + size - 1
    <2>1. HasExactRow(cfg) => exact[kd + 1 - kd] = start .. start + size - 1
      BY <1>5
    <2> QED
      BY <1>9, <2>1
  <1>13. /\ kd = Layers(cfg) * cfg.d /\ start = kd * cfg.w
         /\ size = 2 ^ (cfg.num_bits - Layers(cfg))
    BY <1>1, <1>2, <1>3
  <1>14. \A r \in 1 .. kd : Rows(cfg)[r] = (r - 1) * cfg.w .. r * cfg.w - 1
    BY <1>1, <1>11
  <1>15. Layout(kd, start, size)
    BY <1>3, <1>9, <1>10, <1>12, <1>13, <1>14, Zenon DEF Layout
  <1> QED
    BY <1>15

\* The number of a row is the quotient of any of its cells.
LEMMA RowOf ==
    ASSUME NEW w \in Nat \ {0}, NEW q \in Nat, NEW e \in 0 .. w - 1, NEW r \in Nat \ {0}
    PROVE  q * w + e \in (r - 1) * w .. r * w - 1 <=> r = q + 1
  <1>1. PICK m \in Nat : r = m + 1
    <2>1. r - 1 \in Nat /\ r = (r - 1) + 1
      OBVIOUS
    <2> QED
      BY <2>1
  <1>2. PICK x \in Int, y \in Int : x = q * w /\ y = m * w
    OBVIOUS
  <1>3. (r - 1) * w = y /\ r * w - 1 = y + w - 1
    <2>1. r - 1 = m
      BY <1>1
    <2>2. (m + 1) * w = m * w + w
      OBVIOUS
    <2> QED
      BY <1>1, <1>2, <2>1, <2>2
  <1>4. ASSUME r = q + 1 PROVE q * w + e \in (r - 1) * w .. r * w - 1
    <2>1. m = q
      BY <1>1, <1>4
    <2>2. x = y
      BY <1>2, <2>1
    <2> QED
      BY <1>2, <1>3, <2>2
  <1>5. ASSUME q * w + e \in (r - 1) * w .. r * w - 1 PROVE r = q + 1
    <2>1. PICK z \in 0 .. w - 1 : z = x + e - y
      <3>1. x + e - y \in 0 .. w - 1
        BY <1>2, <1>3, <1>5
      <3> QED
        BY <3>1
    <2>2. q * w + e = m * w + z
      BY <1>2, <2>1
    <2>3. (q * w + e) \div w = q /\ (m * w + z) \div w = m
      BY DivUnique
    <2> QED
      BY <1>1, <2>2, <2>3
  <1> QED
    BY <1>4, <1>5

\* Hash j of layer k has a row of its own, before the exact one.
LEMMA HashRow ==
    ASSUME NEW d \in Nat, NEW l \in Nat, NEW k \in 0 .. l - 1, NEW j \in 0 .. d - 1
    PROVE  k * d + j \in Nat /\ k * d + j + 1 \in 1 .. l * d
  <1>1. PICK h \in Nat : l = k + 1 + h
    <2>1. l - (k + 1) \in Nat /\ l = k + 1 + (l - (k + 1))
      OBVIOUS
    <2> QED
      BY <2>1
  <1>2. PICK x \in Nat, y \in Nat : x = k * d /\ y = h * d
    OBVIOUS
  <1>3. l * d = x + d + y
    BY <1>1, <1>2
  <1> QED
    BY <1>2, <1>3

\* Each of those rows is of some hash,
LEMMA HashOf ==
    ASSUME NEW d \in Nat, NEW l \in Nat, NEW r \in 1 .. l * d
    PROVE  \E k \in 0 .. l - 1, j \in 0 .. d - 1 : r = k * d + j + 1
  <1>1. d \in Nat \ {0}
    <2>1. ASSUME d = 0 PROVE FALSE
      <3>1. l * d = 0
        BY <2>1
      <3> QED
        BY <3>1
    <2> QED
      BY <2>1
  <1>2. PICK k \in Int, j \in 0 .. d - 1 : r - 1 = k * d + j
    <2>1. r - 1 \in Int
      OBVIOUS
    <2>2. (r - 1) \div d \in Int /\ r - 1 = ((r - 1) \div d) * d + ((r - 1) % d) /\ (r - 1) % d \in 0 .. d - 1
      BY <1>1, <2>1, DivMod
    <2> QED
      BY <2>2
  <1>3. k >= 0
    <2>1. ASSUME k <= -1 PROVE FALSE
      <3>1. PICK h \in Nat : k = -1 - h
        <4>1. -1 - k \in Nat /\ k = -1 - (-1 - k)
          BY <2>1
        <4> QED
          BY <4>1
      <3>2. PICK x \in Nat : x = h * d
        OBVIOUS
      <3>3. k * d = -d - x
        BY <3>1, <3>2
      <3> QED
        BY <1>2, <3>2, <3>3
    <2> QED
      BY <2>1
  <1>4. k <= l - 1
    <2>1. ASSUME k >= l PROVE FALSE
      <3>1. PICK h \in Nat : k = l + h
        <4>1. k - l \in Nat /\ k = l + (k - l)
          BY <2>1
        <4> QED
          BY <4>1
      <3>2. PICK x \in Nat, y \in Nat : x = h * d /\ y = l * d
        OBVIOUS
      <3>3. k * d = y + x
        BY <3>1, <3>2
      <3> QED
        BY <1>2, <3>2, <3>3
    <2> QED
      BY <2>1
  <1>5. k \in 0 .. l - 1 /\ r = k * d + j + 1
    <2>1. PICK x \in Int : x = k * d
      OBVIOUS
    <2> QED
      BY <1>2, <1>3, <1>4, <2>1
  <1> QED
    BY <1>5

\* and of one.
LEMMA HashesApart ==
    ASSUME NEW d \in Nat, NEW l \in Nat, NEW k \in 0 .. l - 1, NEW j \in 0 .. d - 1,
           NEW kk \in 0 .. l - 1, NEW jj \in 0 .. d - 1, k * d + j = kk * d + jj
    PROVE  k = kk /\ j = jj
  <1>1. d \in Nat \ {0} /\ k \in Int /\ kk \in Int
    OBVIOUS
  <1>2. (k * d + j) \div d = k /\ (kk * d + jj) \div d = kk
    BY <1>1, DivUnique
  <1>3. k = kk
    BY <1>2
  <1>4. PICK x \in Int : x = k * d
    OBVIOUS
  <1> QED
    BY <1>3, <1>4

\* Earlier rows lie below the end of the last one.
LEMMA RowsBelow ==
    ASSUME NEW w \in Nat, NEW n \in Nat, NEW r \in 1 .. n PROVE r * w <= n * w
  <1>1. PICK h \in Nat : n = r + h
    <2>1. n - r \in Nat /\ n = r + (n - r)
      OBVIOUS
    <2> QED
      BY <2>1
  <1>2. PICK x \in Nat, y \in Nat : x = r * w /\ y = h * w
    OBVIOUS
  <1>3. n * w = x + y
    BY <1>1, <1>2
  <1> QED
    BY <1>2, <1>3

HotCell(val, k, j) == Cell(cfg, k, j, Prefix(cfg, k, val))

\* The cell a hash sets is in its row.
LEMMA HotInRow ==
    ASSUME campaign \in Campaigns, NEW val \in 0 .. 2 ^ cfg.num_bits - 1,
           NEW k \in 0 .. Layers(cfg) - 1, NEW j \in 0 .. cfg.d - 1,
           NEW kd, NEW start, NEW size, Layout(kd, start, size), NEW r \in 1 .. kd
    PROVE  /\ k * cfg.d + j + 1 \in 1 .. kd
           /\ HotCell(val, k, j) \in Int /\ HotCell(val, k, j) < start
           /\ HotCell(val, k, j) \in Rows(cfg)[r] <=> r = k * cfg.d + j + 1
  <1>1. PICK w \in Nat, d \in Nat, nb \in Nat, l \in Nat :
          w = cfg.w /\ d = cfg.d /\ nb = cfg.num_bits /\ l = Layers(cfg) /\ l <= nb
    BY Configured
  <1>2. PICK p \in Nat : p = Prefix(cfg, k, val)
    <2>1. PICK h \in 0 .. nb : h = l - 1 - k
      BY <1>1
    <2>2. val \div 2 ^ h \in 0 .. 2 ^ (nb - h) - 1
      BY <1>1, PrefixBound
    <2>3. val \div 2 ^ h \in Nat
      <3>1. nb - h \in Nat
        OBVIOUS
      <3>2. 2 ^ (nb - h) \in Nat \ {0}
        BY <3>1, PowPos
      <3> QED
        BY <2>2, <3>2
    <2> QED
      BY <1>1, <2>1, <2>3 DEF Prefix
  <1>3. w \in Nat \ {0} /\ Eval(cfg.hashes[k][j], p) \in 0 .. w - 1
    BY <1>1, <1>2, HashRange
  <1>4. PICK e \in 0 .. w - 1 : e = Eval(cfg.hashes[k][j], p)
    BY <1>3
  <1>5. PICK q \in Nat : q = k * d + j /\ q + 1 \in 1 .. kd
    <2>1. k * d + j \in Nat /\ k * d + j + 1 \in 1 .. l * d
      BY <1>1, HashRow
    <2> QED
      BY <1>1, <2>1 DEF Layout
  <1>6. HotCell(val, k, j) = q * w + e
    BY <1>1, <1>2, <1>4, <1>5 DEF HotCell, Cell
  <1>7. r \in Nat \ {0} /\ kd \in Nat /\ q + 1 \in Nat \ {0}
    BY <1>5 DEF Layout
  <1>8. Rows(cfg)[r] = (r - 1) * w .. r * w - 1
    BY <1>1 DEF Layout
  <1>9. q * w + e \in Rows(cfg)[r] <=> r = q + 1
    BY <1>3, <1>7, <1>8, RowOf
  <1>10. q * w + e \in Int /\ q * w + e < start
    <2>1. q * w + e \in (q + 1 - 1) * w .. (q + 1) * w - 1
      BY <1>3, <1>7, RowOf
    <2>2. (q + 1) * w <= kd * w
      BY <1>5, <1>7, RowsBelow
    <2>3. PICK x \in Int, y \in Int, z \in Int : x = q * w + e /\ y = (q + 1) * w /\ z = kd * w
      BY <1>7
    <2>4. x <= y - 1
      BY <2>1, <2>3
    <2>5. start = z
      BY <1>1, <2>3 DEF Layout
    <2> QED
      BY <2>2, <2>3, <2>4, <2>5
  <1> QED
    BY <1>1, <1>5, <1>6, <1>9, <1>10

\* The cell of the exact row a value sets, in the exact row.
LEMMA HotExact ==
    ASSUME campaign \in Campaigns, NEW val \in 0 .. 2 ^ cfg.num_bits - 1,
           NEW kd, NEW start, NEW size, Layout(kd, start, size), HasExactRow(cfg)
    PROVE  /\ Rows(cfg)[kd + 1] = start .. start + size - 1 /\ start \in Nat
           /\ start + (val \div 2 ^ Layers(cfg)) \in Rows(cfg)[kd + 1]
           /\ start + (val \div 2 ^ Layers(cfg)) \in Int
           /\ val \div 2 ^ Layers(cfg) \in 0 .. size - 1
           /\ start + (val \div 2 ^ Layers(cfg)) >= start
  <1>1. val \div 2 ^ Layers(cfg) \in 0 .. 2 ^ (cfg.num_bits - Layers(cfg)) - 1
    BY Configured, PrefixBound
  <1>2. PICK p \in Int : p = val \div 2 ^ Layers(cfg) /\ p \in 0 .. size - 1
    BY <1>1 DEF Layout
  <1>3. /\ start \in Nat /\ size \in Nat \ {0}
        /\ Rows(cfg)[kd + 1] = start .. start + size - 1
    BY Zenon DEF Layout
  <1>4. start + p \in start .. start + size - 1 /\ start + p \in Int /\ start + p >= start
    BY <1>2, <1>3
  <1> QED
    BY <1>2, <1>3, <1>4

\* Where an exact row is, it does not overlap with the others.
LEMMA RowsApart ==
    ASSUME campaign \in Campaigns, NEW kd, NEW start, NEW size, Layout(kd, start, size),
           NEW r \in 1 .. kd, NEW x \in Int, x >= start
    PROVE  x \notin Rows(cfg)[r]
  <1>1. PICK w \in Nat : w = cfg.w
    BY Configured
  <1>2. r * w <= kd * w /\ r \in Nat /\ kd \in Nat
    <2>1. kd \in Nat
      BY Zenon DEF Layout
    <2> QED
      BY <2>1, RowsBelow
  <1>3. PICK a \in Int, b \in Int, c \in Int : a = (r - 1) * w /\ b = r * w /\ c = kd * w
    BY <1>2
  <1>4. Rows(cfg)[r] = a .. b - 1 /\ start = c
    BY <1>1, <1>3 DEF Layout
  <1> QED
    BY <1>2, <1>3, <1>4

\* A value sets one cell of each row.
LEMMA OneCell ==
    ASSUME campaign \in Campaigns, NEW val \in 0 .. 2 ^ cfg.num_bits - 1,
           NEW r \in DOMAIN Rows(cfg)
    PROVE  \E cell \in Rows(cfg)[r] : Hot(cfg, val) \cap Rows(cfg)[r] = {cell}
  <1>1. PICK kd, start, size : Layout(kd, start, size)
    BY RowsKnown
  <1> DEFINE Hashed == {HotCell(val, k, j) : k \in 0 .. Layers(cfg) - 1, j \in 0 .. cfg.d - 1}
             exact == start + (val \div 2 ^ Layers(cfg))
  <1>2. Hot(cfg, val) = Hashed \cup (IF HasExactRow(cfg) THEN {exact} ELSE {})
    <2>1. start = ExactStart(cfg)
      BY <1>1, Zenon DEF Layout
    <2> QED
      BY <2>1 DEF Hot, HotCell
  <1>3. CASE r \in 1 .. kd
    <2>1. PICK k \in 0 .. Layers(cfg) - 1, j \in 0 .. cfg.d - 1 : r = k * cfg.d + j + 1
      <3>1. PICK d \in Nat, l \in Nat : d = cfg.d /\ l = Layers(cfg)
        BY Configured
      <3>2. r \in 1 .. l * d
        BY <1>1, <1>3, <3>1 DEF Layout
      <3>3. \E k \in 0 .. l - 1, j \in 0 .. d - 1 : r = k * d + j + 1
        BY <3>2, HashOf
      <3> QED
        BY <3>1, <3>3
    <2>2. HotCell(val, k, j) \in Rows(cfg)[r] /\ HotCell(val, k, j) \in Hot(cfg, val)
      BY <1>1, <1>2, <1>3, <2>1, HotInRow
    <2>3. ASSUME NEW x \in Hot(cfg, val), x \in Rows(cfg)[r] PROVE x = HotCell(val, k, j)
      <3>1. CASE x \in Hashed
        <4>1. PICK kk \in 0 .. Layers(cfg) - 1, jj \in 0 .. cfg.d - 1 : x = HotCell(val, kk, jj)
          BY <3>1
        <4>2. r = kk * cfg.d + jj + 1
          BY <1>1, <1>3, <2>3, <4>1, HotInRow
        <4>3. kk * cfg.d + jj = k * cfg.d + j
          <5>1. PICK a \in Int, b \in Int : a = kk * cfg.d + jj /\ b = k * cfg.d + j
            BY Configured
          <5> QED
            BY <2>1, <4>2, <5>1
        <4>4. k = kk /\ j = jj
          BY <4>3, Configured, HashesApart
        <4> QED
          BY <4>1, <4>4
      <3>2. CASE HasExactRow(cfg) /\ x = exact
        <4>1. exact \in Int /\ exact >= start
          BY <1>1, <3>2, HotExact
        <4> QED
          BY <1>1, <1>3, <2>3, <3>2, <4>1, RowsApart
      <3> QED
        BY <1>2, <2>3, <3>1, <3>2
    <2> QED
      BY <2>2, <2>3
  <1>4. CASE HasExactRow(cfg) /\ r = kd + 1
    <2>1. exact \in Rows(cfg)[r] /\ exact \in Hot(cfg, val)
      BY <1>1, <1>2, <1>4, HotExact
    <2>2. ASSUME NEW x \in Hashed, x \in Rows(cfg)[r] PROVE FALSE
      <3>1. PICK k \in 0 .. Layers(cfg) - 1, j \in 0 .. cfg.d - 1 : x = HotCell(val, k, j)
        OBVIOUS
      <3>2. k * cfg.d + j + 1 \in 1 .. kd
        <4>1. k * cfg.d + j + 1 \in 1 .. Layers(cfg) * cfg.d
          BY Configured, HashRow
        <4> QED
          BY <1>1, <4>1 DEF Layout
      <3>3. x \in Int /\ x < start
        BY <1>1, <3>1, <3>2, HotInRow
      <3>4. x \in start .. start + size - 1 /\ start \in Nat
        <4>1. Rows(cfg)[kd + 1] = start .. start + size - 1 /\ start \in Nat
          BY <1>1, <1>4, HotExact
        <4> QED
          BY <1>4, <2>2, <4>1
      <3> QED
        BY <3>3, <3>4
    <2> HIDE DEF Hashed
    <2> QED
      BY <1>2, <1>4, <2>1, <2>2
  <1>5. r \in 1 .. kd \/ (HasExactRow(cfg) /\ r = kd + 1)
    BY <1>1 DEF Layout
  <1> QED
    BY <1>3, <1>4, <1>5

\* All cells a value sets are cells of the sketch.
LEMMA HotCells ==
    ASSUME campaign \in Campaigns, NEW val \in 0 .. 2 ^ cfg.num_bits - 1
    PROVE  Hot(cfg, val) \subseteq Cells(cfg)
  <1>1. PICK kd, start, size : Layout(kd, start, size)
    BY RowsKnown
  <1>2. ASSUME NEW k \in 0 .. Layers(cfg) - 1, NEW j \in 0 .. cfg.d - 1
        PROVE  HotCell(val, k, j) \in Cells(cfg)
    <2>1. k * cfg.d + j + 1 \in 1 .. Layers(cfg) * cfg.d
      BY Configured, HashRow
    <2>2. PICK r \in 1 .. kd : r = k * cfg.d + j + 1
      BY <1>1, <2>1 DEF Layout
    <2>3. HotCell(val, k, j) \in Rows(cfg)[r]
      BY <1>1, <2>2, HotInRow
    <2>4. r \in DOMAIN Rows(cfg)
      BY <1>1 DEF Layout
    <2> QED
      BY <2>3, <2>4 DEF Cells
  <1>3. ASSUME HasExactRow(cfg) PROVE ExactStart(cfg) + (val \div 2 ^ Layers(cfg)) \in Cells(cfg)
    <2>1. kd + 1 \in DOMAIN Rows(cfg) /\ start = ExactStart(cfg)
      BY SMTT(40), <1>1, <1>3 DEF Layout
    <2>2. start + (val \div 2 ^ Layers(cfg)) \in Rows(cfg)[kd + 1]
      BY <1>1, <1>3, HotExact
    <2> QED
      BY <2>1, <2>2 DEF Cells
  <1> QED
    BY <1>2, <1>3 DEF Hot, HotCell

RowsAre(last) ==
    /\ last \in Nat \ {0} /\ DOMAIN Rows(cfg) = 1 .. last
    /\ \A r \in 1 .. last : IsFiniteSet(Rows(cfg)[r])
    /\ cfg.type = "FREQ_OP" => Cells(cfg) = Rows(cfg)[last]

\* A batch has a row, each row finitely many cells, and FREQ one row only.
LEMMA RowsShape == ASSUME campaign \in Campaigns PROVE \E last : RowsAre(last)
  <1>1. PICK kd, start, size : Layout(kd, start, size)
    BY RowsKnown
  <1>2. PICK n \in Nat : n = IF HasExactRow(cfg) THEN kd + 1 ELSE kd
    BY <1>1 DEF Layout
  <1>3. DOMAIN Rows(cfg) = 1 .. n
    BY <1>1, <1>2 DEF Layout
  <1>4. ASSUME NEW r \in 1 .. n PROVE IsFiniteSet(Rows(cfg)[r])
    <2>1. PICK x \in Int, y \in Int : Rows(cfg)[r] = x .. y
      <3>1. CASE r \in 1 .. kd
        <4>1. Rows(cfg)[r] = (r - 1) * cfg.w .. r * cfg.w - 1
          BY <1>1, <3>1 DEF Layout
        <4>2. (r - 1) * cfg.w \in Int /\ r * cfg.w - 1 \in Int
          BY Configured
        <4> QED
          BY <4>1, <4>2
      <3>2. CASE HasExactRow(cfg) /\ r = kd + 1
        <4>1. Rows(cfg)[kd + 1] = start .. start + size - 1 /\ start \in Nat /\ size \in Nat
          <5>1. HasExactRow(cfg)
            BY <3>2
          <5> QED
            BY <1>1, <5>1 DEF Layout
        <4> QED
          BY <3>2, <4>1
      <3>3. r \in 1 .. kd \/ (HasExactRow(cfg) /\ r = kd + 1)
        BY <1>1, <1>2 DEF Layout
      <3> QED
        BY <3>1, <3>2, <3>3
    <2> QED
      BY <2>1, FS_Interval
  <1>5. n # 0
    <2>1. CASE HasExactRow(cfg)
      BY <1>1, <1>2, <2>1 DEF Layout
    <2>2. CASE ~HasExactRow(cfg)
      <3>1. cfg.d \in Nat \ {0} /\ Layers(cfg) = 1
        BY <2>2, Configured
      <3>2. kd = cfg.d
        BY <1>1, <3>1 DEF Layout
      <3> QED
        BY <1>2, <2>2, <3>1, <3>2
    <2> QED
      BY <2>1, <2>2
  <1>6. ASSUME cfg.type = "FREQ_OP" PROVE Cells(cfg) = Rows(cfg)[n]
    <2>1. Layers(cfg) = 0 /\ HasExactRow(cfg) /\ cfg.d \in Nat
      BY <1>6, Configured
    <2>2. kd = 0
      BY <1>1, <2>1 DEF Layout
    <2>3. n = 1
      BY <1>2, <2>1, <2>2
    <2>4. DOMAIN Rows(cfg) = {1}
      BY <1>3, <2>3
    <2> QED
      BY <2>3, <2>4 DEF Cells
  <1> QED
    BY <1>3, <1>4, <1>5, <1>6 DEF RowsAre

\* A frequency's cell is the value itself.
LEMMA HotFreq ==
    ASSUME campaign \in Campaigns, cfg.type = "FREQ_OP", NEW val \in 0 .. 2 ^ cfg.num_bits - 1
    PROVE  Hot(cfg, val) = {val}
  <1>1. PICK kd, start, size : Layout(kd, start, size)
    BY RowsKnown
  <1>2. Layers(cfg) = 0 /\ HasExactRow(cfg) /\ cfg.d \in Nat /\ cfg.w \in Nat
    BY Configured
  <1>3. val \in Int
    BY Configured, PowPos
  <1>4. ExactStart(cfg) = 0
    <2>1. 0 * cfg.d = 0 /\ 0 * cfg.w = 0
      BY <1>2
    <2> QED
      BY <1>2, <2>1 DEF ExactStart
  <1>5. val \div 2 ^ Layers(cfg) = val
    <2>1. val \div 1 = val
      BY <1>3, DivOne
    <2> QED
      BY <1>2, <2>1, PowZero
  <1>6. {Cell(cfg, k, j, Prefix(cfg, k, val)) : k \in 0 .. Layers(cfg) - 1, j \in 0 .. cfg.d - 1} = {}
    <2>1. 0 .. Layers(cfg) - 1 = {}
      BY <1>2
    <2> QED
      BY <2>1
  <1>7. ExactStart(cfg) + (val \div 2 ^ Layers(cfg)) = val
    BY <1>3, <1>4, <1>5
  <1> QED
    BY <1>2, <1>6, <1>7 DEF Hot

-----------------------------------------------------------------------------
(* Entries: the keys listed are submissions both servers hold.             *)

Lined(n, idx) ==
    /\ n = sent[1] /\ n \in 0 .. Total_inputs /\ n <= sent[0] /\ ReachedBoth = 1 .. n
    /\ pk_list[0] = pk_list[1] /\ DOMAIN pk_list[1] = 1 .. n /\ Len(pk_list[1]) = n
    /\ idx \in Bijection(1 .. n, 1 .. n)
    /\ \A e \in 1 .. n, s \in Server : Bits(s, e) = BitsOf(idx[e], s)

Settled ==
    /\ Reception /\ Exchange /\ Deliveries /\ Listing /\ Converted /\ Truthful
    /\ pc[0] \notin Early
    /\ \A s \in Server : Heard(s)

\* Past the receiving loop a server has taken all it was sent.
LEMMA AllTaken ==
    ASSUME Settled
    PROVE  /\ \A s \in Server : taken[s] = sent[s] /\ Holds(s) /\ pc[s] # "recv"
           /\ sent[1] \in 0 .. Total_inputs /\ sent[1] <= sent[0] /\ sent[0] \in 0 .. Total_inputs
  <1>1. \A s \in Server : pc[s] # "recv" /\ Holds(s)
    BY DEF Settled, Deliveries, Exchange, Together, Early, Server
  <1>2. /\ sent \in [Server -> Nat] /\ taken \in [Server -> Nat]
        /\ \A s \in Server : taken[s] <= sent[s] /\ sent[s] <= Total_inputs
        /\ Total_inputs \in Nat
    BY BatchSize DEF Settled, Reception, Deliveries
  <1>3. ASSUME NEW s \in Server PROVE taken[s] = sent[s]
    <2>1. i[s] = Total_inputs /\ (i[s] = taken[s] \/ taken[s] = sent[s])
      BY <1>1 DEF Settled, Deliveries
    <2> QED
      BY <1>2, <2>1
  <1>4. sent[1] <= sent[0]
    BY DEF Settled, Deliveries
  <1> QED
    BY <1>1, <1>2, <1>3, <1>4, TwoServers

\* The numbers up to n are n.
LEMMA Upto == ASSUME NEW n \in Nat PROVE IsFiniteSet(1 .. n) /\ Cardinality(1 .. n) = n
  <1>1. PICK one \in Int, k \in Int : one = 1 /\ k = n
    OBVIOUS
  <1>2. IsFiniteSet(one .. k) /\ Cardinality(one .. k) = IF one > k THEN 0 ELSE k - one + 1
    BY FS_Interval
  <1> QED
    BY <1>1, <1>2

\* The servers list the same submissions, those that reached both.
LEMMA LinedUp == ASSUME Settled PROVE \E n, idx : Lined(n, idx)
  <1>1. PICK n \in 0 .. Total_inputs : n = sent[1]
    BY AllTaken
  <1>2. campaign \in Campaigns /\ Total_inputs \in Nat /\ IsFiniteSet(1 .. n)
        /\ Cardinality(1 .. n) = n
    <2>1. n \in Nat
      BY BatchSize DEF Settled, Reception
    <2> QED
      BY <2>1, Upto, BatchSize DEF Settled, Reception
  <1>3. \A k \in 1 .. n : k \in 1 .. Total_inputs
    BY <1>2
  <1> DEFINE D == DOMAIN share_map[1]
             keys == [k \in 1 .. n |-> KeyOf(k, 1)]
  <1>4. D = {KeyOf(k, 1) : k \in 1 .. n}
    BY <1>1, AllTaken, TwoServers DEF Holds
  <1>5. Cardinality(D) = n /\ IsFiniteSet(D)
    <2>1. keys \in [1 .. n -> D]
      BY <1>4
    <2>2. \A j, k \in 1 .. n : keys[j] = keys[k] => j = k
      BY <1>2, <1>3, KeysDiffer, TwoServers
    <2>3. \A key \in D : \E k \in 1 .. n : keys[k] = key
      BY <1>4
    <2> HIDE DEF keys, D
    <2>4. keys \in Bijection(1 .. n, D)
      BY <2>1, <2>2, <2>3 DEF Bijection, Injection, Surjection, IsInjective
    <2>5. ExistsBijection(1 .. n, D)
      BY <2>4 DEF ExistsBijection
    <2> QED
      BY <1>2, <2>5, FS_Bijection
  <1>6. pk_list[0] = pk_list[1] /\ pc[1] # "recv"
    BY AllTaken, TwoServers DEF Settled, Exchange, Flags, Early
  <1>7. /\ pk_list[1] \in [1 .. n -> D]
        /\ \A j, k \in 1 .. n : j # k => pk_list[1][j] # pk_list[1][k]
    BY <1>5, <1>6 DEF Settled, Listing, SetToSeqs
  <1>8. DOMAIN pk_list[1] = 1 .. n /\ Len(pk_list[1]) = n
    BY <1>2, <1>7
  <1>9. PICK idx : idx = [e \in 1 .. n |-> CHOOSE k \in 1 .. n : KeyOf(k, 1) = pk_list[1][e]]
    OBVIOUS
  <1>10. ASSUME NEW e \in 1 .. n PROVE idx[e] \in 1 .. n /\ KeyOf(idx[e], 1) = pk_list[1][e]
    <2>1. \E k \in 1 .. n : KeyOf(k, 1) = pk_list[1][e]
      BY <1>4, <1>7
    <2> QED
      BY <1>9, <2>1
  <1>11. idx \in Bijection(1 .. n, 1 .. n)
    <2>1. idx \in [1 .. n -> 1 .. n]
      BY <1>9, <1>10
    <2>2. \A j, k \in 1 .. n : idx[j] = idx[k] => j = k
      BY <1>7, <1>10
    <2>3. idx \in Injection(1 .. n, 1 .. n)
      BY <2>1, <2>2 DEF Injection, IsInjective
    <2>4. idx \in Surjection(1 .. n, 1 .. n)
      BY <1>2, <2>3, FS_Injection
    <2> QED
      BY <2>3, <2>4 DEF Bijection
  <1>12. ASSUME NEW e \in 1 .. n, NEW s \in Server PROVE Bits(s, e) = BitsOf(idx[e], s)
    <2>1. PICK k \in 1 .. n : k = idx[e] /\ KeyOf(k, 1) = pk_list[1][e]
      BY <1>10
    <2>2. pk_list[s][e] = KeyOf(k, s)
      <3>1. KeyOf(k, s) = KeyOf(k, 1)
        BY <1>2, <1>3, KeysDiffer, TwoServers
      <3> QED
        BY <1>6, <2>1, <3>1 DEF Server
    <2>3. k \in 1 .. taken[s]
      BY <1>1, <1>2, AllTaken, TwoServers DEF Server
    <2>4. KeyOf(k, s) \in DOMAIN share_map[s] /\ share_map[s][KeyOf(k, s)] = BitsOf(k, s)
      BY <2>3, AllTaken DEF Holds
    <2> QED
      BY <2>1, <2>2, <2>4 DEF Bits
  <1>13. ReachedBoth = 1 .. n
    <2>1. ASSUME NEW k \in 1 .. Total_inputs PROVE (\A s \in Server : k <= sent[s]) <=> k <= n
      BY <1>1, <1>2, AllTaken DEF Server
    <2> QED
      BY <1>2, <2>1 DEF ReachedBoth
  <1>14. n <= sent[0]
    BY <1>1, AllTaken
  <1> HIDE DEF D
  <1> QED
    BY <1>1, <1>6, <1>8, <1>11, <1>12, <1>13, <1>14 DEF Lined
-----------------------------------------------------------------------------
(* What the batch check tells.                                             *)

\* Shares of a converted bit add up to it.
LEMMA ShareAdds ==
    ASSUME Settled, NEW n, NEW idx, Lined(n, idx), NEW e \in 1 .. n, NEW c \in Cells(cfg)
    PROVE  /\ shares_p[0][e][c] \in Int /\ shares_p[1][e][c] \in Int
           /\ Cong(shares_p[0][e][c] + shares_p[1][e][c], IF c \in Opened(e) THEN 1 ELSE 0, Modulus)
  <1>1. PICK r \in Pads : shares_p = Masked(r)
    BY DEF Settled, Converted
  <1>2. r \in Int /\ Modulus \in Nat \ {0}
    BY PadsAssumption, ModulusAssumption
  <1>3. PICK bit \in 0 .. 1 : bit = IF c \in Opened(e) THEN 1 ELSE 0
    OBVIOUS
  <1>4. e \in DOMAIN pk_list[0] /\ e \in DOMAIN pk_list[1]
    BY DEF Lined
  <1>5. shares_p[0][e][c] = r
    BY <1>1, <1>4 DEF Masked, Server
  <1>6. shares_p[1][e][c] = (bit - r) % Modulus
    BY <1>1, <1>3, <1>4 DEF Masked, Server, Opened
  <1>7. PICK x \in Int, y \in Int : x = bit - r /\ y = x % Modulus
    <2>1. PICK x \in Int : x = bit - r
      BY <1>2
    <2>2. x % Modulus \in 0 .. Modulus - 1
      BY <1>2, ModRange
    <2> QED
      BY <2>1, <2>2
  <1>8. Cong(y, x, Modulus)
    BY <1>2, <1>7, ModCong
  <1>9. Cong(r + y, r + x, Modulus)
    BY <1>2, <1>7, <1>8, CongPlus
  <1>10. r + x = bit
    BY <1>2, <1>7
  <1> QED
    BY <1>2, <1>3, <1>5, <1>6, <1>7, <1>9, <1>10

\* A submission opens its value's cells, one of each row; for FREQ the value itself.
LEMMA OpensOne ==
    ASSUME Settled, NEW n, NEW idx, Lined(n, idx), NEW e \in 1 .. n
    PROVE  /\ idx[e] \in 1 .. n /\ idx[e] \in 1 .. Total_inputs
           /\ Opened(e) = Hot(cfg, campaign.values[idx[e]])
           /\ \A r \in DOMAIN Rows(cfg) :
                 \E cell \in Rows(cfg)[r] : Opened(e) \cap Rows(cfg)[r] = {cell}
           /\ cfg.type = "FREQ_OP" => Opened(e) = {campaign.values[idx[e]]}
  <1>1. campaign \in Campaigns /\ Total_inputs \in Nat
    BY BatchSize DEF Settled, Reception
  <1>2. PICK k \in 1 .. n : k = idx[e]
    BY DEF Lined, Bijection, Injection
  <1>3. k \in 1 .. campaign.num_of_inputs /\ k \in 1 .. Total_inputs
    BY <1>1, <1>2 DEF Lined, Total_inputs
  <1>4. Opened(e) = SymDiff(campaign.shares[k][0].arr, campaign.shares[k][1].arr)
    BY <1>2 DEF Opened, Lined, BitsOf, Server
  <1>5. /\ campaign.values[k] \in 0 .. 2 ^ cfg.num_bits - 1
        /\ SymDiff(campaign.shares[k][0].arr, campaign.shares[k][1].arr) = Hot(cfg, campaign.values[k])
    BY <1>1, <1>3, PreparedAssumption DEF cfg
  <1>6. Opened(e) = Hot(cfg, campaign.values[k])
    BY <1>4, <1>5
  <1>7. \A r \in DOMAIN Rows(cfg) :
          \E cell \in Rows(cfg)[r] : Hot(cfg, campaign.values[k]) \cap Rows(cfg)[r] = {cell}
    BY <1>1, <1>5, OneCell
  <1>8. cfg.type = "FREQ_OP" => Hot(cfg, campaign.values[k]) = {campaign.values[k]}
    BY <1>1, <1>5, HotFreq
  <1> QED
    BY <1>2, <1>3, <1>6, <1>7, <1>8

\* Of each entry, both servers' sums of a row are shares of 1, and their
\* parities differ.
LEMMA EntryCounts ==
    ASSUME Settled, NEW n, NEW idx, Lined(n, idx), NEW e \in 1 .. n,
           NEW last, RowsAre(last), NEW r \in 1 .. last, NEW row, row = Rows(cfg)[r]
    PROVE  /\ EntrySum(0, e, row) \in Int /\ EntrySum(1, e, row) \in Int
           /\ Cong(EntrySum(0, e, row) + EntrySum(1, e, row), 1, Modulus)
           /\ EntryParity(0, e, row) \in Int /\ EntryParity(1, e, row) \in Int
           /\ Cong(EntryParity(0, e, row) + EntryParity(1, e, row), 1, 2)
  <1>1. IsFiniteSet(row) /\ row \subseteq Cells(cfg) /\ Modulus \in Nat \ {0}
    BY ModulusAssumption DEF RowsAre, Cells
  <1>2. PICK o \in SUBSET row : o = Opened(e) \cap row
    OBVIOUS
  <1>3. \E cell : o = {cell}
    BY <1>2, OpensOne DEF RowsAre
  <1>4. Cardinality(o) = 1
    BY <1>3, FS_Singleton
  <1>5. /\ EntrySum(0, e, row) \in Int /\ EntrySum(1, e, row) \in Int
        /\ Cong(EntrySum(0, e, row) + EntrySum(1, e, row), 1, Modulus)
    <2>1. PICK a, b : a = [c \in row |-> shares_p[0][e][c]] /\ b = [c \in row |-> shares_p[1][e][c]]
      OBVIOUS
    <2>2. ASSUME NEW c \in row
          PROVE  /\ a[c] \in Int /\ b[c] \in Int
                 /\ Cong(a[c] + b[c], IF c \in o THEN 1 ELSE 0, Modulus)
      <3>1. c \in Cells(cfg) /\ (c \in Opened(e) <=> c \in o)
        BY <1>1, <1>2
      <3>2. /\ shares_p[0][e][c] \in Int /\ shares_p[1][e][c] \in Int
            /\ Cong(shares_p[0][e][c] + shares_p[1][e][c],
                    IF c \in Opened(e) THEN 1 ELSE 0, Modulus)
        BY <3>1, ShareAdds
      <3>3. a[c] = shares_p[0][e][c] /\ b[c] = shares_p[1][e][c]
        BY <2>1
      <3> QED
        BY <3>1, <3>2, <3>3
    <2>3. ModSumming(row, a, Modulus) /\ ModSumming(row, b, Modulus)
      BY <1>1, <2>1, <2>2 DEF ModSumming
    <2>4. /\ Cong(ModSum(a, Modulus) + ModSum(b, Modulus), Cardinality(o), Modulus)
          /\ ModSum(a, Modulus) \in 0 .. Modulus - 1 /\ ModSum(b, Modulus) \in 0 .. Modulus - 1
      BY <2>2, <2>3, SharesCount
    <2>5. EntrySum(0, e, row) = ModSum(a, Modulus) /\ EntrySum(1, e, row) = ModSum(b, Modulus)
      BY <2>1 DEF EntrySum, AddUp, ModSum
    <2> QED
      BY <1>1, <1>4, <2>4, <2>5
  <1>6. /\ EntryParity(0, e, row) \in Int /\ EntryParity(1, e, row) \in Int
        /\ Cong(EntryParity(0, e, row) + EntryParity(1, e, row), 1, 2)
    <2>1. PICK p, q : p = Bits(0, e) \cap row /\ q = Bits(1, e) \cap row
      OBVIOUS
    <2>2. IsFiniteSet(p) /\ IsFiniteSet(q)
      <3>1. p \in SUBSET row /\ q \in SUBSET row
        BY <2>1
      <3> QED
        BY <1>1, <3>1, FS_Subset
    <2>3. SymDiff(p, q) = o
      BY <1>2, <2>1 DEF SymDiff, Opened
    <2>4. Odd(o)
      <3>1. 1 % 2 = 1
        OBVIOUS
      <3> QED
        BY <1>4, <3>1 DEF Odd
    <2>5. (Odd(p) /\ ~Odd(q)) \/ (~Odd(p) /\ Odd(q))
      BY <2>2, <2>3, <2>4, OddSymDiff
    <2>6. PICK x \in 0 .. 1, y \in 0 .. 1 : x = Cardinality(p) % 2 /\ y = Cardinality(q) % 2
      <3>1. Cardinality(p) \in Nat /\ Cardinality(q) \in Nat
        BY <2>2, FS_CardinalityType
      <3>2. \A k \in Nat : k % 2 \in 0 .. 1
        OBVIOUS
      <3> QED
        BY <3>1, <3>2
    <2>7. x + y = 1
      BY <2>5, <2>6 DEF Odd
    <2>8. Cong(1, 1, 2)
      BY CongSelf
    <2> QED
      BY <2>1, <2>6, <2>7, <2>8 DEF EntryParity
  <1> QED
    BY <1>5, <1>6

\* The last row's parities and sums, over the entries, are shares of their number.
LEMMA LastRow ==
    ASSUME Settled, NEW n, NEW idx, Lined(n, idx), NEW last, RowsAre(last)
    PROVE  /\ Len(RowChecks(0)) = last /\ Len(RowChecks(1)) = last
           /\ RowChecks(0)[last].sum \in Int /\ RowChecks(1)[last].sum \in Int
           /\ Cong(RowChecks(0)[last].sum + RowChecks(1)[last].sum, n, Modulus)
           /\ RowChecks(0)[last].parity \in Int /\ RowChecks(1)[last].parity \in Int
           /\ Cong(RowChecks(0)[last].parity + RowChecks(1)[last].parity, n, 2)
  <1>1. /\ last \in Nat \ {0} /\ DOMAIN Rows(cfg) = 1 .. last /\ last \in 1 .. last
        /\ n \in Nat /\ Modulus \in Nat \ {0} /\ 2 \in Nat \ {0}
        /\ DOMAIN pk_list[0] = 1 .. n /\ DOMAIN pk_list[1] = 1 .. n
    BY ModulusAssumption, BatchSize DEF RowsAre, Lined, Settled, Reception
  <1>2. IsFiniteSet(1 .. n) /\ Cardinality(1 .. n) = n
    BY <1>1, Upto
  <1>3. PICK row : row = Rows(cfg)[last]
    OBVIOUS
  <1>4. ASSUME NEW e \in 1 .. n
        PROVE  /\ EntrySum(0, e, row) \in Int /\ EntrySum(1, e, row) \in Int
               /\ Cong(EntrySum(0, e, row) + EntrySum(1, e, row), 1, Modulus)
               /\ EntryParity(0, e, row) \in Int /\ EntryParity(1, e, row) \in Int
               /\ Cong(EntryParity(0, e, row) + EntryParity(1, e, row), 1, 2)
    BY <1>1, <1>3, EntryCounts
  <1>5. PICK a, b : /\ a = [e \in 1 .. n |-> EntrySum(0, e, row)]
                    /\ b = [e \in 1 .. n |-> EntrySum(1, e, row)]
    OBVIOUS
  <1>6. PICK p, q : /\ p = [e \in 1 .. n |-> EntryParity(0, e, row)]
                    /\ q = [e \in 1 .. n |-> EntryParity(1, e, row)]
    OBVIOUS
  <1>7. /\ RowChecks(0)[last].sum = ModSum(a, Modulus) /\ RowChecks(1)[last].sum = ModSum(b, Modulus)
        /\ RowChecks(0)[last].parity = ModSum(p, 2) /\ RowChecks(1)[last].parity = ModSum(q, 2)
    <2>1. /\ RowChecks(0)[last].sum = AddUp(a) /\ RowChecks(1)[last].sum = AddUp(b)
          /\ RowChecks(0)[last].parity = XorUp(p) /\ RowChecks(1)[last].parity = XorUp(q)
      BY <1>1, <1>3, <1>5, <1>6 DEF RowChecks
    <2>2. AddUp(a) = ModSum(a, Modulus) /\ AddUp(b) = ModSum(b, Modulus)
      BY DEF AddUp, ModSum
    <2>3. XorUp(p) = ModSum(p, 2) /\ XorUp(q) = ModSum(q, 2)
      BY DEF XorUp, ModSum
    <2> QED
      BY <2>1, <2>2, <2>3
  <1>8. Len(RowChecks(0)) = last /\ Len(RowChecks(1)) = last
    BY <1>1 DEF RowChecks
  <1>9. /\ Cong(ModSum(a, Modulus) + ModSum(b, Modulus), n, Modulus)
        /\ ModSum(a, Modulus) \in Int /\ ModSum(b, Modulus) \in Int
    <2>1. ModSumming(1 .. n, a, Modulus) /\ ModSumming(1 .. n, b, Modulus)
      BY <1>1, <1>2, <1>4, <1>5 DEF ModSumming
    <2>2. PICK o \in SUBSET (1 .. n) : o = 1 .. n
      OBVIOUS
    <2>3. \A e \in 1 .. n : Cong(a[e] + b[e], IF e \in o THEN 1 ELSE 0, Modulus)
      BY <1>4, <1>5, <2>2
    <2>4. /\ Cong(ModSum(a, Modulus) + ModSum(b, Modulus), Cardinality(o), Modulus)
          /\ ModSum(a, Modulus) \in 0 .. Modulus - 1 /\ ModSum(b, Modulus) \in 0 .. Modulus - 1
      BY <2>1, <2>3, SharesCount
    <2> QED
      BY <1>1, <1>2, <2>2, <2>4
  <1>10. Cong(ModSum(p, 2) + ModSum(q, 2), n, 2) /\ ModSum(p, 2) \in Int /\ ModSum(q, 2) \in Int
    <2>1. ModSumming(1 .. n, p, 2) /\ ModSumming(1 .. n, q, 2)
      BY <1>1, <1>2, <1>4, <1>6 DEF ModSumming
    <2>2. PICK o \in SUBSET (1 .. n) : o = 1 .. n
      OBVIOUS
    <2>3. \A e \in 1 .. n : Cong(p[e] + q[e], IF e \in o THEN 1 ELSE 0, 2)
      BY <1>4, <1>6, <2>2
    <2>4. /\ Cong(ModSum(p, 2) + ModSum(q, 2), Cardinality(o), 2)
          /\ ModSum(p, 2) \in 0 .. 2 - 1 /\ ModSum(q, 2) \in 0 .. 2 - 1
      BY <2>1, <2>3, SharesCount
    <2> QED
      BY <1>1, <1>2, <2>2, <2>4
  <1> QED
    BY <1>7, <1>8, <1>9, <1>10

\* So the batch check passes if and only if all submissions are there.
LEMMA RowsTell ==
    ASSUME Settled, NEW n, NEW idx, Lined(n, idx)
    PROVE  AllValid(RowChecks(0), RowChecks(1)) <=> n = Total_inputs
  <1>1. PICK last : RowsAre(last)
    BY RowsShape DEF Settled, Reception
  <1>2. PICK s \in Int, p \in Int :
          /\ s = RowChecks(0)[last].sum + RowChecks(1)[last].sum
          /\ p = RowChecks(0)[last].parity + RowChecks(1)[last].parity
    BY <1>1, LastRow
  <1>3. Cong(s, n, Modulus) /\ Cong(p, n, 2) /\ Len(RowChecks(0)) = last
    BY <1>1, <1>2, LastRow
  <1>4. n \in 0 .. Modulus - 1 /\ n \in Int /\ Modulus \in Nat \ {0} /\ 2 \in Nat \ {0}
    <2>1. n \in 0 .. Total_inputs
      BY DEF Lined
    <2>2. Total_inputs \in 0 .. Modulus - 1
      BY SketchAssumption DEF Settled, Reception, Total_inputs
    <2> QED
      BY <2>1, <2>2, ModulusAssumption
  <1>5. s % Modulus = n
    <2>1. s % Modulus = n % Modulus
      BY <1>3, <1>4, CongMod
    <2> QED
      BY <1>4, <2>1, ModSmall
  <1>6. p % 2 = n % 2
    BY <1>3, <1>4, CongMod
  <1>7. AllValid(RowChecks(0), RowChecks(1)) <=>
          p % 2 = Total_inputs % 2 /\ s % Modulus = Total_inputs
    BY <1>2, <1>3 DEF AllValid
  <1> QED
    BY <1>5, <1>6, <1>7
-----------------------------------------------------------------------------
(* What the totals tell.                                                   *)

Flagged(n, flags) == {e \in 1 .. n : flags[e]}

\* Both servers' totals of a cell add up to how many flagged entries opened it.
LEMMA TotalsTell ==
    ASSUME Settled, NEW n, NEW idx, Lined(n, idx), NEW flags \in [1 .. n -> BOOLEAN],
           NEW c \in Cells(cfg)
    PROVE  (Accumulate(0, flags)[c] + Accumulate(1, flags)[c]) % Modulus
              = Cardinality({e \in Flagged(n, flags) : c \in Opened(e)})
  <1>1. n \in 0 .. Modulus - 1 /\ n \in Nat /\ Modulus \in Nat \ {0}
    <2>1. n \in 0 .. Total_inputs
      BY DEF Lined
    <2>2. Total_inputs \in 0 .. Modulus - 1
      BY SketchAssumption DEF Settled, Reception, Total_inputs
    <2> QED
      BY <2>1, <2>2, ModulusAssumption
  <1>2. PICK S \in SUBSET (1 .. n) : S = Flagged(n, flags) /\ S = {m \in DOMAIN flags : flags[m]}
    BY DEF Flagged
  <1>3. PICK o \in SUBSET S : o = {e \in Flagged(n, flags) : c \in Opened(e)}
    BY <1>2
  <1>4. IsFiniteSet(1 .. n) /\ Cardinality(1 .. n) = n
    BY <1>1, Upto
  <1>5. IsFiniteSet(S) /\ Cardinality(o) \in 0 .. Modulus - 1
    <2>1. o \in SUBSET (1 .. n)
      OBVIOUS
    <2>2. IsFiniteSet(o) /\ Cardinality(o) <= Cardinality(1 .. n)
      BY <1>4, <2>1, FS_Subset
    <2>3. IsFiniteSet(S)
      BY <1>4, FS_Subset
    <2>4. Cardinality(o) \in Nat
      BY <2>2, FS_CardinalityType
    <2>5. Cardinality(o) <= n
      BY <1>4, <2>2
    <2> QED
      BY <1>1, <2>3, <2>4, <2>5
  <1>6. PICK a, b : a = [e \in S |-> shares_p[0][e][c]] /\ b = [e \in S |-> shares_p[1][e][c]]
    OBVIOUS
  <1>7. ASSUME NEW e \in S
        PROVE  /\ a[e] \in Int /\ b[e] \in Int
               /\ Cong(a[e] + b[e], IF e \in o THEN 1 ELSE 0, Modulus)
    <2>1. /\ shares_p[0][e][c] \in Int /\ shares_p[1][e][c] \in Int
          /\ Cong(shares_p[0][e][c] + shares_p[1][e][c],
                  IF c \in Opened(e) THEN 1 ELSE 0, Modulus)
      BY ShareAdds
    <2>2. c \in Opened(e) <=> e \in o
      BY <1>2, <1>3
    <2> QED
      BY <1>6, <2>1, <2>2
  <1>8. ModSumming(S, a, Modulus) /\ ModSumming(S, b, Modulus)
    BY <1>1, <1>5, <1>6, <1>7 DEF ModSumming
  <1>9. /\ Cong(ModSum(a, Modulus) + ModSum(b, Modulus), Cardinality(o), Modulus)
        /\ ModSum(a, Modulus) \in 0 .. Modulus - 1 /\ ModSum(b, Modulus) \in 0 .. Modulus - 1
    BY <1>7, <1>8, SharesCount
  <1>10. Accumulate(0, flags)[c] = ModSum(a, Modulus) /\ Accumulate(1, flags)[c] = ModSum(b, Modulus)
    <2>1. Accumulate(0, flags)[c] = AddUp(a) /\ Accumulate(1, flags)[c] = AddUp(b)
      BY <1>2, <1>6 DEF Accumulate
    <2>2. AddUp(a) = ModSum(a, Modulus) /\ AddUp(b) = ModSum(b, Modulus)
      BY DEF AddUp, ModSum
    <2> QED
      BY <2>1, <2>2
  <1>11. PICK x \in Int, k \in Int : x = ModSum(a, Modulus) + ModSum(b, Modulus) /\ k = Cardinality(o)
    BY <1>1, <1>5, <1>9
  <1>12. x % Modulus = k % Modulus
    BY <1>1, <1>9, <1>11, CongMod
  <1>13. k % Modulus = k
    BY <1>1, <1>5, <1>11, ModSmall
  <1> QED
    BY <1>3, <1>10, <1>11, <1>12, <1>13

\* For FREQ, no more entries open a cell than submissions hold the value, and
\* as many if every entry is flagged.
LEMMA CountsTell ==
    ASSUME Settled, NEW n, NEW idx, Lined(n, idx), NEW flags \in [1 .. n -> BOOLEAN],
           cfg.type = "FREQ_OP", NEW c, NEW S, S = {e \in Flagged(n, flags) : c \in Opened(e)}
    PROVE  /\ Cardinality(S) \in Nat /\ Count(1 .. n, c) \in Nat
           /\ Cardinality(S) <= Count(1 .. n, c)
           /\ (\A e \in 1 .. n : flags[e]) => Cardinality(S) = Count(1 .. n, c)
  <1>1. PICK T \in SUBSET (1 .. n) : T = {k \in 1 .. n : campaign.values[k] = c}
    OBVIOUS
  <1>2. IsFiniteSet(T)
    <2>1. n \in Nat
      BY BatchSize DEF Settled, Reception, Lined
    <2> QED
      BY <1>1, <2>1, Upto, FS_Subset
  <1>3. PICK f : f = [e \in S |-> idx[e]]
    OBVIOUS
  <1>4. ASSUME NEW e \in 1 .. n PROVE idx[e] \in 1 .. n /\ Opened(e) = {campaign.values[idx[e]]}
    BY <1>4, OpensOne
  <1>5. f \in [S -> T]
    <2>1. ASSUME NEW e \in S PROVE idx[e] \in T
      <3>1. e \in 1 .. n /\ c \in Opened(e)
        BY DEF Flagged
      <3> QED
        BY <1>1, <1>4, <3>1
    <2> QED
      BY <1>3, <2>1
  <1>6. \A j, k \in S : f[j] = f[k] => j = k
    BY <1>3 DEF Lined, Bijection, Injection, IsInjective, Flagged
  <1>7. f \in Injection(S, T)
    BY <1>5, <1>6 DEF Injection, IsInjective
  <1>8. IsFiniteSet(S) /\ Cardinality(S) <= Cardinality(T)
        /\ (Cardinality(S) = Cardinality(T) <=> f \in Surjection(S, T))
    BY <1>2, <1>7, FS_Injection
  <1>9. ASSUME \A e \in 1 .. n : flags[e] PROVE f \in Surjection(S, T)
    <2>1. ASSUME NEW k \in T PROVE \E e \in S : f[e] = k
      <3>1. PICK e \in 1 .. n : idx[e] = k
        BY DEF Lined, Bijection, Surjection
      <3>2. c \in Opened(e)
        BY <1>1, <1>4, <3>1
      <3> QED
        BY <1>3, <1>9, <3>1, <3>2 DEF Flagged
    <2> QED
      BY <1>5, <2>1 DEF Surjection
  <1>10. Count(1 .. n, c) = Cardinality(T)
    BY <1>1 DEF Count
  <1> QED
    BY <1>2, <1>8, <1>9, <1>10, FS_CardinalityType

\* Once server 0 is done its flags and its answer are known.
LEMMA Concluded ==
    ASSUME Settled, pc[0] = "done", NEW n, NEW idx, Lined(n, idx)
    PROVE  /\ valid[0] \in [1 .. n -> BOOLEAN]
           /\ result = Verdict(Accumulate(1, valid[0]))
           /\ n = Total_inputs \/ cfg.type # "FREQ_OP" =>
                 valid[0] = [e \in 1 .. n |-> n = Total_inputs]
  <1>1. valid[0] \in Seq(BOOLEAN) /\ Len(valid[0]) = n
    BY DEF Settled, Exchange, Flags, Early, Lined, Server
  <1>2. result = Verdict(Accumulate(1, valid[0]))
    BY DEF Settled, Truthful
  <1>3. Len(to[1]) \in Nat /\ Len(to[1]) >= 1
    <2>1. Written /\ Len(to[1]) \in Nat
      BY TwoServers DEF Settled, Exchange, Shaped
    <2>2. Len(to[1]) = IF Second THEN 2 ELSE 1
      BY <2>1 DEF Written
    <2> QED
      BY <2>1, <2>2
  <1>4. to[1][1].val \in BOOLEAN /\ to[1][1].val = AllValid(RowChecks(0), RowChecks(1))
    BY <1>3 DEF Settled, Exchange, Carried, Truthful
  <1>5. to[1][1].val = (n = Total_inputs)
    BY <1>4, RowsTell
  <1>6. ASSUME n = Total_inputs \/ cfg.type # "FREQ_OP"
        PROVE  valid[0] = [e \in 1 .. n |-> n = Total_inputs]
    <2>1. ~Second
      BY <1>5, <1>6 DEF Second
    <2>2. valid[0] = Every(n, to[1][1].val)
      BY <1>3, <2>1 DEF Settled, Truthful, Lined
    <2> QED
      BY <1>5, <2>2 DEF Every
  <1> QED
    BY <1>1, <1>2, <1>6

\* What the answer consists of.
LEMMA Answered ==
    ASSUME NEW b, result = Verdict(b), NEW k, k = Cardinality({e \in DOMAIN valid[0] : valid[0][e]})
    PROVE  /\ (result.ret = "RET_ANS") <=> ~BelowThreshold(k, Total_inputs)
           /\ result.ret = "RET_ANS" /\ cfg.type = "FREQ_OP" =>
                result.ans = [c \in Cells(cfg) |-> (Accumulate(0, valid[0])[c] + b[c]) % Modulus]
  <1> DEFINE totals == [c \in Cells(cfg) |-> (Accumulate(0, valid[0])[c] + b[c]) % Modulus]
  <1>1. result = IF BelowThreshold(k, Total_inputs) THEN Invalid
                 ELSE Answer(Queried(cfg, totals, Len(pk_list[0])))
    BY DEF Verdict
  <1>2. cfg.type = "FREQ_OP" => Queried(cfg, totals, Len(pk_list[0])) = totals
    BY DEF Queried
  <1> HIDE DEF totals
  <1>3. result.ret = "RET_ANS" <=> ~BelowThreshold(k, Total_inputs)
    BY <1>1 DEF Invalid, Answer
  <1>4. result.ret = "RET_ANS" /\ cfg.type = "FREQ_OP" => result.ans = totals
    BY <1>1, <1>2, <1>3 DEF Answer
  <1> QED
    BY <1>3, <1>4 DEF totals

\* An answer comes when server 0 is done.
LEMMA AnswerDone ==
    ASSUME Truthful, Exchange, result.ret = "RET_ANS" PROVE pc[0] = "done" /\ pc[0] \notin Early
  BY DEF Truthful, Pending, Early

\* No frequency exceeds what reached both servers.
LEMMA NothingInventedStep ==
    Reception /\ Exchange /\ Deliveries /\ Listing /\ Converted /\ Truthful => NothingInvented
  <1> SUFFICES ASSUME Reception, Exchange, Deliveries, Listing, Converted, Truthful,
                      BothHeard, cfg.type = "FREQ_OP", result.ret = "RET_ANS",
                      NEW x \in Cells(cfg)
               PROVE  result.ans[x] <= Count(ReachedBoth, x)
    BY DEF NothingInvented
  <1>1. Settled /\ pc[0] = "done"
    BY AnswerDone DEF Settled, BothHeard, Heard
  <1>2. PICK n, idx : Lined(n, idx)
    BY <1>1, LinedUp
  <1>3. valid[0] \in [1 .. n -> BOOLEAN] /\ result = Verdict(Accumulate(1, valid[0]))
    BY <1>1, <1>2, Concluded
  <1>4. result.ans[x] = (Accumulate(0, valid[0])[x] + Accumulate(1, valid[0])[x]) % Modulus
    <2>1. PICK b : b = Accumulate(1, valid[0])
      OBVIOUS
    <2>2. result.ans = [c \in Cells(cfg) |-> (Accumulate(0, valid[0])[c] + b[c]) % Modulus]
      BY <1>3, <2>1, Answered
    <2> QED
      BY <2>1, <2>2
  <1>5. PICK S : S = {e \in Flagged(n, valid[0]) : x \in Opened(e)}
    OBVIOUS
  <1>6. result.ans[x] = Cardinality(S)
    BY <1>1, <1>2, <1>3, <1>4, <1>5, TotalsTell
  <1>7. Cardinality(S) <= Count(1 .. n, x)
    BY <1>1, <1>2, <1>3, <1>5, CountsTell
  <1> QED
    BY <1>2, <1>6, <1>7 DEF Lined

\* An answer of COUNTMIN or HEAVY is about every submission.
LEMMA AllOrNothingStep ==
    Reception /\ Exchange /\ Deliveries /\ Listing /\ Converted /\ Truthful => AllOrNothing
  <1> SUFFICES ASSUME Reception, Exchange, Deliveries, Listing, Converted, Truthful,
                      BothHeard, cfg.type # "FREQ_OP", result.ret = "RET_ANS"
               PROVE  ReachedBoth = 1 .. Total_inputs
    BY DEF AllOrNothing
  <1>1. Settled /\ pc[0] = "done"
    BY AnswerDone DEF Settled, BothHeard, Heard
  <1>2. PICK n, idx : Lined(n, idx)
    BY <1>1, LinedUp
  <1>3. /\ result = Verdict(Accumulate(1, valid[0]))
        /\ valid[0] = [e \in 1 .. n |-> n = Total_inputs]
    BY <1>1, <1>2, Concluded
  <1>4. PICK k : k = Cardinality({e \in DOMAIN valid[0] : valid[0][e]})
    OBVIOUS
  <1>5. ~BelowThreshold(k, Total_inputs)
    <2>1. PICK b : b = Accumulate(1, valid[0])
      OBVIOUS
    <2> QED
      BY <1>3, <1>4, <2>1, Answered
  <1>6. ASSUME n # Total_inputs PROVE FALSE
    <2>1. {e \in DOMAIN valid[0] : valid[0][e]} = {}
      BY <1>3, <1>6
    <2>2. k = 0
      BY <1>4, <2>1, FS_EmptySet
    <2>3. Total_inputs > 0
      BY BatchSize, TwoServers DEF Reception, BothHeard
    <2> QED
      BY <1>5, <2>2, <2>3, BatchSize DEF BelowThreshold, Reception
  <1> QED
    BY <1>2, <1>6 DEF Lined

\* When all was sent, all was heard.
LEMMA HonestSettled ==
    ASSUME Reception, Exchange, Deliveries, Listing, Converted, Truthful, ClientDone, Decided
    PROVE  Settled
  <1>1. pc[0] = "done" /\ pc[0] \notin Early /\ pc[0] # "recv" /\ pc[1] # "recv"
    BY DEF Decided, Exchange, Together, Early
  <1>2. ASSUME NEW s \in Server PROVE Heard(s)
    <2>1. /\ i[s] = Total_inputs /\ sent[s] = Total_inputs /\ Total_inputs \in Nat
          /\ taken[s] \in Nat /\ i[s] \in Nat
      BY <1>1, BatchSize DEF Deliveries, Reception, ClientDone, Server
    <2>2. taken[s] = Total_inputs
      BY <2>1 DEF Deliveries
    <2> QED
      BY <2>1, <2>2 DEF Heard
  <1> QED
    BY <1>1, <1>2 DEF Settled

\* A client that delivered everything gets its answer, and FREQ its histogram.
LEMMA HonestCountsStep ==
    Reception /\ Exchange /\ Deliveries /\ Listing /\ Converted /\ Truthful => HonestCounts
  <1> SUFFICES ASSUME Reception, Exchange, Deliveries, Listing, Converted, Truthful,
                      ClientDone, Decided
               PROVE  /\ result.ret = "RET_ANS"
                      /\ cfg.type = "FREQ_OP" => result.ans = Frequencies(DOMAIN campaign.values)
    BY DEF HonestCounts
  <1>1. Settled /\ pc[0] = "done"
    BY HonestSettled DEF Decided
  <1>2. PICK n, idx : Lined(n, idx)
    BY <1>1, LinedUp
  <1>3. n = Total_inputs /\ n \in Nat
    BY <1>2, BatchSize, TwoServers DEF Lined, ClientDone, Reception
  <1>4. result = Verdict(Accumulate(1, valid[0])) /\ valid[0] \in [1 .. n -> BOOLEAN]
    BY <1>1, <1>2, Concluded
  <1>5. \A e \in 1 .. n : valid[0][e]
    <2>1. valid[0] = [e \in 1 .. n |-> n = Total_inputs]
      BY <1>1, <1>2, <1>3, Concluded
    <2> QED
      BY <1>3, <2>1
  <1>6. PICK b, k : b = Accumulate(1, valid[0])
                    /\ k = Cardinality({e \in DOMAIN valid[0] : valid[0][e]})
    OBVIOUS
  <1>7. k = n
    <2>1. {e \in DOMAIN valid[0] : valid[0][e]} = 1 .. n
      BY <1>4, <1>5
    <2> QED
      BY <1>3, <1>6, <2>1, Upto
  <1>8. result.ret = "RET_ANS"
    <2>1. ~BelowThreshold(k, Total_inputs)
      BY <1>3, <1>7 DEF BelowThreshold
    <2> QED
      BY <1>4, <1>6, <2>1, Answered
  <1>9. ASSUME cfg.type = "FREQ_OP" PROVE result.ans = Frequencies(DOMAIN campaign.values)
    <2>1. result.ans = [c \in Cells(cfg) |-> (Accumulate(0, valid[0])[c] + b[c]) % Modulus]
      BY <1>4, <1>6, <1>8, <1>9, Answered
    <2>2. DOMAIN campaign.values = 1 .. n
      BY <1>3, PreparedAssumption DEF Total_inputs, Reception
    <2>3. ASSUME NEW c \in Cells(cfg)
          PROVE  (Accumulate(0, valid[0])[c] + b[c]) % Modulus = Count(1 .. n, c)
      <3>1. PICK S : S = {e \in Flagged(n, valid[0]) : c \in Opened(e)}
        OBVIOUS
      <3>2. (Accumulate(0, valid[0])[c] + b[c]) % Modulus = Cardinality(S)
        BY <1>1, <1>2, <1>4, <1>6, <3>1, TotalsTell
      <3>3. Cardinality(S) = Count(1 .. n, c)
        BY <1>1, <1>2, <1>4, <1>5, <1>9, <3>1, CountsTell
      <3> QED
        BY <3>2, <3>3
    <2> QED
      BY <2>1, <2>2, <2>3 DEF Frequencies
  <1> QED
    BY <1>8, <1>9
-----------------------------------------------------------------------------
(* What the queries find.                                                  *)

\* A batch of which every entry is flagged has a value's cells set at least as
\* often as the value.
LEMMA CellCounts ==
    ASSUME Settled, NEW n, NEW idx, Lined(n, idx), NEW flags \in [1 .. n -> BOOLEAN],
           \A e \in 1 .. n : flags[e], NEW x, NEW c \in Hot(cfg, x),
           NEW S, S = {e \in Flagged(n, flags) : c \in Opened(e)}
    PROVE  /\ Cardinality(S) \in Nat /\ Count(1 .. n, x) \in 0 .. n
           /\ Count(1 .. n, x) <= Cardinality(S)
  <1>1. n \in Nat /\ IsFiniteSet(1 .. n) /\ Cardinality(1 .. n) = n
    BY BatchSize, Upto DEF Settled, Reception, Lined
  <1>2. PICK T \in SUBSET (1 .. n) : T = {k \in 1 .. n : campaign.values[k] = x}
    OBVIOUS
  <1>3. PICK U \in SUBSET (1 .. n) : U = {e \in 1 .. n : campaign.values[idx[e]] = x}
    OBVIOUS
  <1>4. S \in SUBSET (1 .. n)
    BY DEF Flagged
  <1>5. IsFiniteSet(T) /\ IsFiniteSet(S)
    BY <1>1, <1>4, FS_Subset
  <1>6. IsFiniteSet(U)
    BY <1>1, FS_Subset
  <1>7. U \in SUBSET S
    <2>1. ASSUME NEW e \in U PROVE e \in S
      <3>1. e \in 1 .. n /\ Opened(e) = Hot(cfg, campaign.values[idx[e]])
        BY OpensOne
      <3>2. c \in Opened(e)
        BY <1>3, <3>1
      <3> QED
        BY <3>1, <3>2 DEF Flagged
    <2> QED
      BY <2>1
  <1>8. PICK f : f = [e \in U |-> idx[e]]
    OBVIOUS
  <1>9. f \in Surjection(U, T)
    <2>1. ASSUME NEW e \in U PROVE f[e] \in T
      <3>1. idx[e] \in 1 .. n
        BY OpensOne
      <3> QED
        BY <1>2, <1>3, <1>8, <3>1
    <2>2. ASSUME NEW k \in T PROVE \E e \in U : f[e] = k
      <3>1. PICK e \in 1 .. n : idx[e] = k
        BY DEF Lined, Bijection, Surjection
      <3> QED
        BY <1>2, <1>3, <1>8, <3>1
    <2> QED
      BY <1>8, <2>1, <2>2 DEF Surjection
  <1>10. Cardinality(T) <= Cardinality(U)
    BY <1>6, <1>9, FS_Surjection
  <1>11. Cardinality(U) <= Cardinality(S)
    BY <1>5, <1>7, FS_Subset
  <1>12. Cardinality(T) <= n
    <2>1. Cardinality(T) <= Cardinality(1 .. n)
      BY <1>1, FS_Subset
    <2> QED
      BY <1>1, <2>1
  <1>13. Cardinality(T) \in Nat /\ Cardinality(U) \in Nat /\ Cardinality(S) \in Nat
    BY <1>5, <1>6, FS_CardinalityType
  <1>14. Count(1 .. n, x) = Cardinality(T)
    BY <1>2 DEF Count
  <1> QED
    BY <1>1, <1>10, <1>11, <1>12, <1>13, <1>14

\* The totals of a value's cells are all at least m, a number up to n.
Covered(totals, x, m, n) ==
    /\ n \in Nat /\ m \in 0 .. n
    /\ \A c \in Hot(cfg, x) : totals[c] \in Nat /\ m <= totals[c]

\* Of numbers that are all at least m the least is.
LEMMA MinAtLeast ==
    ASSUME NEW S, S \subseteq Nat, S # {}, NEW m \in Nat, \A y \in S : m <= y
    PROVE  Min(S) \in Nat /\ m <= Min(S)
  <1>1. \E y \in S : \A z \in S : y <= z
    BY Least
  <1>2. Min(S) \in S
    BY <1>1 DEF Min
  <1> QED
    BY <1>2

\* So no estimate of a value is too low, in any layer.
LEMMA EstimateCovers ==
    ASSUME NEW totals, NEW x, NEW m, NEW n, Covered(totals, x, m, n),
           NEW k \in 0 .. Layers(cfg) - 1
    PROVE  /\ Estimate(cfg, totals, n, k, Prefix(cfg, k, x)) \in Nat
           /\ m <= Estimate(cfg, totals, n, k, Prefix(cfg, k, x))
  <1>1. PICK S : S = {n} \cup {totals[HotCell(x, k, j)] : j \in 0 .. cfg.d - 1}
    OBVIOUS
  <1>2. Estimate(cfg, totals, n, k, Prefix(cfg, k, x)) = Min(S)
    BY <1>1 DEF Estimate, HotCell
  <1>3. ASSUME NEW j \in 0 .. cfg.d - 1 PROVE HotCell(x, k, j) \in Hot(cfg, x)
    BY DEF Hot, HotCell
  <1>4. ASSUME NEW y \in S PROVE y \in Nat /\ m <= y
    BY <1>1, <1>3 DEF Covered
  <1>5. S # {} /\ m \in Nat
    BY <1>1 DEF Covered
  <1> QED
    BY <1>2, <1>4, <1>5, MinAtLeast

\* What a count reaches a greater one does.
LEMMA MoreIsEnough ==
    ASSUME campaign \in Campaigns, NEW m \in Nat, NEW q \in Nat, NEW n \in Nat, m <= q,
           AtLeast(cfg, m, n)
    PROVE  AtLeast(cfg, q, n)
  <1>1. PICK a \in Nat, b \in Nat : a = cfg.t[1] /\ b = cfg.t[2]
    BY PreparedAssumption DEF cfg
  <1>2. PICK h \in Nat : q = m + h
    <2>1. q - m \in Nat /\ q = m + (q - m)
      OBVIOUS
    <2> QED
      BY <2>1
  <1>3. PICK x \in Nat, y \in Nat, z \in Nat : x = m * b /\ y = h * b /\ z = n * a
    OBVIOUS
  <1>4. q * b = x + y
    BY <1>2, <1>3
  <1>5. x >= z
    BY <1>1, <1>3 DEF AtLeast
  <1>6. q * b >= z
    BY <1>3, <1>4, <1>5
  <1> QED
    BY <1>1, <1>3, <1>6 DEF AtLeast

\* The prefixes that heavy_op keeps of each length.
Halves(kept) == {2 * y : y \in kept} \cup {2 * y + 1 : y \in kept}
Kept(totals, n, reached) ==
    /\ reached[0] = {y \in 0 .. ExactSize(cfg) - 1 : AtLeast(cfg, totals[ExactStart(cfg) + y], n)}
    /\ \A k \in 1 .. cfg.L :
          reached[k] = {y \in Halves(reached[k - 1]) :
                           AtLeast(cfg, Estimate(cfg, totals, n, k - 1, y), n)}

\* heavy_op's loop over the layers computes them.
LEMMA TreeIs ==
    ASSUME campaign \in Campaigns, cfg.type = "HEAVY_OP", NEW totals, NEW n
    PROVE  \E reached : Kept(totals, n, reached) /\ TreeHeavy(cfg, totals, n) = reached[cfg.L]
  <1>1. PICK l \in Nat : l = cfg.L
    BY Configured
  <1>2. PICK base \in SUBSET Int :
          base = {y \in 0 .. ExactSize(cfg) - 1 : AtLeast(cfg, totals[ExactStart(cfg) + y], n)}
    <2>1. PICK z \in Int : z = ExactSize(cfg) - 1
      BY RowsKnown DEF Layout
    <2>2. PICK B : B = {y \in 0 .. z : AtLeast(cfg, totals[ExactStart(cfg) + y], n)}
      OBVIOUS
    <2>3. B \in SUBSET Int
      BY <2>2
    <2> QED
      BY <2>1, <2>2, <2>3
  <1> DEFINE Layer(k, kept) == {y \in Halves(kept) : AtLeast(cfg, Estimate(cfg, totals, n, k - 1, y), n)}
             Whole(f) == f = [k \in 0 .. cfg.L |-> IF k = 0 THEN base ELSE Layer(k, f[k - 1])]
  <1>3. PICK G : G = [k \in 1 .. l |-> [kept \in SUBSET Int |-> Layer(k, kept)]]
    OBVIOUS
  <1>4. Folding(l, SUBSET Int, base, G)
    <2>1. ASSUME NEW k \in 1 .. l, NEW kept \in SUBSET Int PROVE Layer(k, kept) \in SUBSET Int
      BY DEF Halves
    <2> HIDE DEF Layer
    <2>2. G \in [1 .. l -> [SUBSET Int -> SUBSET Int]]
      BY <1>3, <2>1
    <2> QED
      BY <2>2 DEF Folding
  <1>5. PICK acc : PartSums(l, SUBSET Int, base, G, acc)
    BY <1>4, FoldExists, FoldPrefixes
  <1>6. Whole(acc)
    <2>1. acc = [k \in 0 .. l |-> acc[k]] /\ acc[0] = base
      BY <1>5 DEF PartSums
    <2>2. ASSUME NEW k \in 1 .. l PROVE acc[k] = Layer(k, acc[k - 1])
      <3>1. k - 1 \in 0 .. l /\ acc[k - 1] \in SUBSET Int
        BY <1>5 DEF PartSums
      <3>2. acc[k] = G[k][acc[k - 1]]
        BY <1>5 DEF PartSums
      <3> HIDE DEF Layer
      <3> QED
        BY <1>3, <3>1, <3>2
    <2> HIDE DEF Layer
    <2>3. \A k \in 0 .. l : acc[k] = IF k = 0 THEN base ELSE Layer(k, acc[k - 1])
      <3> TAKE k \in 0 .. l
      <3>1. k = 0 \/ k \in 1 .. l
        OBVIOUS
      <3>2. CASE k = 0
        BY <2>1, <3>2
      <3>3. CASE k \in 1 .. l
        BY <2>2, <3>3
      <3> QED
        BY <3>1, <3>2, <3>3
    <2> QED
      BY <1>1, <2>1, <2>3
  <1>7. PICK reached : reached = CHOOSE f : Whole(f)
    OBVIOUS
  <1>8. Whole(reached)
    BY <1>6, <1>7, Zenon
  <1>9. TreeHeavy(cfg, totals, n) = reached[cfg.L]
    BY <1>2, <1>7 DEF TreeHeavy, Halves
  <1>10. Kept(totals, n, reached)
    <2>1. reached[0] = base
      BY <1>1, <1>8
    <2>2. ASSUME NEW k \in 1 .. cfg.L PROVE reached[k] = Layer(k, reached[k - 1])
      <3>1. k \in 0 .. cfg.L /\ k # 0
        BY <1>1
      <3> HIDE DEF Layer
      <3> QED
        BY <1>8, <3>1
    <2> QED
      BY <1>2, <2>1, <2>2 DEF Kept
  <1> QED
    BY <1>9, <1>10

\* heavy_op keeps every prefix of a frequent value, so it finds the value.
LEMMA HeavyFinds ==
    ASSUME campaign \in Campaigns, cfg.type = "HEAVY_OP", NEW x \in 0 .. 2 ^ cfg.num_bits - 1,
           NEW totals, NEW m, NEW n, Covered(totals, x, m, n), AtLeast(cfg, m, n)
    PROVE  x \in TreeHeavy(cfg, totals, n)
  <1>1. PICK reached : Kept(totals, n, reached) /\ TreeHeavy(cfg, totals, n) = reached[cfg.L]
    BY TreeIs
  <1>2. PICK l \in Nat, nb \in Nat :
          l = cfg.L /\ l = Layers(cfg) /\ nb = cfg.num_bits /\ l <= nb /\ HasExactRow(cfg)
    BY Configured
  <1>3. x \in Nat /\ m \in Nat /\ n \in Nat
    BY <1>2, PowPos DEF Covered
  <1> DEFINE P == {k \in Nat : k <= l => x \div 2 ^ (l - k) \in reached[k]}
  <1>4. 0 \in P
    <2>1. x \div 2 ^ l \in 0 .. ExactSize(cfg) - 1
      BY <1>2, HotExact, RowsKnown DEF Layout
    <2>2. ExactStart(cfg) + (x \div 2 ^ l) \in Hot(cfg, x)
      BY <1>2 DEF Hot
    <2>3. PICK q \in Nat : q = totals[ExactStart(cfg) + (x \div 2 ^ l)] /\ m <= q
      BY <2>2 DEF Covered
    <2>4. AtLeast(cfg, q, n)
      BY <1>3, <2>3, MoreIsEnough
    <2>5. x \div 2 ^ l \in reached[0]
      BY <1>1, <2>1, <2>3, <2>4 DEF Kept
    <2>6. l - 0 = l
      OBVIOUS
    <2> QED
      BY <2>5, <2>6
  <1>5. ASSUME NEW k \in Nat, k \in P PROVE k + 1 \in P
    <2> SUFFICES ASSUME k + 1 <= l PROVE x \div 2 ^ (l - (k + 1)) \in reached[k + 1]
      OBVIOUS
    <2>1. PICK h \in Nat : h = l - (k + 1) /\ l - k = h + 1
      OBVIOUS
    <2>2. x \div 2 ^ (l - k) \in reached[k]
      BY <1>5
    <2>3. PICK y \in Int : y = x \div 2 ^ h
      <3>1. 2 ^ h \in Nat \ {0}
        BY PowPos
      <3>2. x \div 2 ^ h \in Int
        BY <1>3, <3>1, DivMod
      <3> QED
        BY <3>2
    <2>4. y \div 2 \in reached[k]
      <3>1. (x \div 2 ^ h) \div 2 = x \div (2 * 2 ^ h)
        BY <1>3, PowPos, DivDouble
      <3>2. 2 ^ (h + 1) = 2 * 2 ^ h
        BY PowDouble
      <3> QED
        BY <2>1, <2>2, <2>3, <3>1, <3>2
    <2>5. y = 2 * (y \div 2) \/ y = 2 * (y \div 2) + 1
      <3>1. PICK two \in Nat \ {0} : two = 2
        OBVIOUS
      <3>2. y \div two \in Int /\ y = (y \div two) * two + (y % two) /\ y % two \in 0 .. two - 1
        BY DivMod
      <3> QED
        BY <3>1, <3>2
    <2>6. y \in Halves(reached[k])
      BY <2>4, <2>5 DEF Halves
    <2>7. PICK q \in Nat : q = Estimate(cfg, totals, n, k, y) /\ m <= q
      <3>1. k \in 0 .. Layers(cfg) - 1
        BY <1>2
      <3>2. Prefix(cfg, k, x) = y
        <4>1. Layers(cfg) - 1 - k = h
          BY <1>2, <2>1
        <4> QED
          BY <2>3, <4>1 DEF Prefix
      <3> QED
        BY <3>1, <3>2, EstimateCovers
    <2>8. AtLeast(cfg, q, n)
      BY <1>3, <2>7, MoreIsEnough
    <2>9. k + 1 \in 1 .. cfg.L /\ k + 1 - 1 = k
      BY <1>2
    <2>10. reached[k + 1] = {z \in Halves(reached[k]) : AtLeast(cfg, Estimate(cfg, totals, n, k, z), n)}
      BY <1>1, <2>9 DEF Kept
    <2>11. y \in reached[k + 1]
      BY <2>6, <2>7, <2>8, <2>10
    <2> QED
      BY <2>1, <2>3, <2>11
  <1> HIDE DEF P
  <1>6. Nat \subseteq P
    BY <1>4, <1>5, Induct
  <1>7. x \div 2 ^ (l - l) \in reached[l]
    <2>1. l \in P /\ l <= l
      BY <1>6
    <2> QED
      BY <2>1 DEF P
  <1>8. x \div 2 ^ (l - l) = x
    <2>1. l - l = 0
      OBVIOUS
    <2> QED
      BY <1>3, <2>1, PowZero, DivOne
  <1> QED
    BY <1>1, <1>2, <1>7, <1>8

\* So does countMin_op, of the values it tries.
LEMMA CountMinFinds ==
    ASSUME campaign \in Campaigns, cfg.type = "COUNTMIN_OP", NEW x \in 0 .. 2 ^ cfg.num_bits - 1,
           x < 256, NEW totals, NEW m, NEW n, Covered(totals, x, m, n), AtLeast(cfg, m, n)
    PROVE  x \in CountMinHeavy(cfg, totals, n)
  <1>1. Layers(cfg) = 1 /\ x \in Int /\ m \in Nat /\ n \in Nat
    BY Configured, PowPos DEF Covered
  <1>2. Prefix(cfg, 0, x) = x
    <2>1. Layers(cfg) - 1 - 0 = 0
      BY <1>1
    <2> QED
      BY <1>1, <2>1, PowZero, DivOne DEF Prefix
  <1>3. 0 \in 0 .. Layers(cfg) - 1
    BY <1>1
  <1>4. PICK q \in Nat : q = Estimate(cfg, totals, n, 0, x) /\ m <= q
    BY <1>2, <1>3, EstimateCovers
  <1>5. AtLeast(cfg, q, n)
    BY <1>1, <1>4, MoreIsEnough
  <1> QED
    BY <1>4, <1>5 DEF CountMinHeavy

\* countMin_op tries the values below 256 only.
CountMinTriesAll == \A c \in Campaigns : c.cfg.type = "COUNTMIN_OP" => 2 ^ c.cfg.num_bits <= 256

\* An answer of COUNTMIN or HEAVY has every value that is frequent enough.
LEMMA AllHeavyFoundStep ==
    CountMinTriesAll /\ Reception /\ Exchange /\ Deliveries /\ Listing /\ Converted /\ Truthful
        => AllHeavyFound
  <1> SUFFICES ASSUME CountMinTriesAll, Reception, Exchange, Deliveries, Listing, Converted,
                      Truthful, BothHeard, cfg.type # "FREQ_OP", result.ret = "RET_ANS",
                      NEW x \in 0 .. 2 ^ cfg.num_bits - 1,
                      AtLeast(cfg, Count(1 .. Total_inputs, x), Total_inputs)
               PROVE  x \in result.ans
    BY DEF AllHeavyFound
  <1>1. Settled /\ pc[0] = "done" /\ campaign \in Campaigns
    BY AnswerDone DEF Settled, BothHeard, Heard, Reception
  <1>2. PICK n, idx : Lined(n, idx)
    BY <1>1, LinedUp
  <1>3. n = Total_inputs /\ n \in Nat
    <2>1. ReachedBoth = 1 .. Total_inputs /\ ReachedBoth = 1 .. n
      BY <1>2, AllOrNothingStep DEF AllOrNothing, Lined
    <2>2. n \in 0 .. Total_inputs /\ Total_inputs \in Nat
      BY <1>2, BatchSize DEF Lined, Reception
    <2>3. Cardinality(1 .. n) = n /\ Cardinality(1 .. Total_inputs) = Total_inputs
      BY <2>2, Upto
    <2> QED
      BY <2>1, <2>2, <2>3
  <1>4. /\ result = Verdict(Accumulate(1, valid[0]))
        /\ valid[0] \in [1 .. n -> BOOLEAN] /\ \A e \in 1 .. n : valid[0][e]
    BY <1>1, <1>2, <1>3, Concluded
  <1>5. PICK b, totals :
          /\ b = Accumulate(1, valid[0])
          /\ totals = [c \in Cells(cfg) |-> (Accumulate(0, valid[0])[c] + b[c]) % Modulus]
    OBVIOUS
  <1>6. result.ans = Queried(cfg, totals, n)
    <2>1. Len(pk_list[0]) = n
      BY <1>2 DEF Lined
    <2>2. PICK k : k = Cardinality({e \in DOMAIN valid[0] : valid[0][e]})
      OBVIOUS
    <2>3. result = IF BelowThreshold(k, Total_inputs) THEN Invalid ELSE Answer(Queried(cfg, totals, n))
      BY <1>4, <1>5, <2>1, <2>2 DEF Verdict
    <2> QED
      BY <2>3 DEF Invalid, Answer
  <1>7. PICK m : m = Count(1 .. n, x) /\ AtLeast(cfg, m, n)
    BY <1>3
  <1>8. Covered(totals, x, m, n)
    <2>1. ASSUME NEW c \in Hot(cfg, x) PROVE totals[c] \in Nat /\ m \in 0 .. n /\ m <= totals[c]
      <3>1. c \in Cells(cfg)
        BY <1>1, HotCells
      <3>2. PICK S : S = {e \in Flagged(n, valid[0]) : c \in Opened(e)}
        OBVIOUS
      <3>3. totals[c] = Cardinality(S)
        BY <1>1, <1>2, <1>4, <1>5, <3>1, <3>2, TotalsTell
      <3>4. /\ Cardinality(S) \in Nat /\ Count(1 .. n, x) \in 0 .. n
            /\ Count(1 .. n, x) <= Cardinality(S)
        BY <1>1, <1>2, <1>4, <3>2, CellCounts
      <3> QED
        BY <1>7, <3>3, <3>4
    <2>2. \E c : c \in Hot(cfg, x)
      <3>1. PICK last : RowsAre(last)
        BY <1>1, RowsShape
      <3>2. last \in DOMAIN Rows(cfg)
        BY <3>1 DEF RowsAre
      <3> QED
        BY <1>1, <3>2, OneCell
    <2> QED
      BY <1>3, <2>1, <2>2 DEF Covered
  <1>9. cfg.type \in {"COUNTMIN_OP", "HEAVY_OP"}
    BY <1>1, Configured DEF SketchOps
  <1>10. CASE cfg.type = "COUNTMIN_OP"
    <2>1. x < 256
      <3>1. 2 ^ cfg.num_bits <= 256 /\ 2 ^ cfg.num_bits \in Nat
        BY <1>1, <1>10, Configured, PowPos DEF CountMinTriesAll, cfg
      <3> QED
        BY <3>1
    <2>2. x \in CountMinHeavy(cfg, totals, n)
      BY <1>1, <1>7, <1>8, <1>10, <2>1, CountMinFinds
    <2> QED
      BY <1>6, <1>10, <2>2 DEF Queried
  <1>11. CASE cfg.type = "HEAVY_OP"
    <2>1. x \in TreeHeavy(cfg, totals, n)
      BY <1>1, <1>7, <1>8, <1>11, HeavyFinds
    <2> QED
      BY <1>6, <1>11, <2>1 DEF Queried
  <1> QED
    BY <1>9, <1>10, <1>11

\* After a client died halfway, FREQ reports no value more often than it
\* reached both servers (freq_op), whatever the flags server 1 has not written.
THEOREM SketchNothingInvented == Spec => []NothingInvented
  BY SketchReception, SketchExchange, SketchMessages, NothingInventedStep, PTL

\* COUNTMIN and HEAVY answer only when the batch check has seen every submission
\* (countMin_op, heavy_op).
THEOREM SketchAllOrNothing == Spec => []AllOrNothing
  BY SketchReception, SketchExchange, SketchMessages, AllOrNothingStep, PTL

\* A client that delivered everything gets an answer, and from FREQ the exact
\* histogram it prints.
THEOREM SketchHonestCounts == Spec => []HonestCounts
  BY SketchReception, SketchExchange, SketchMessages, HonestCountsStep, PTL

\* A value as frequent as the threshold is in the answer of COUNTMIN and HEAVY
\* (countMin_op, heavy_op), provided COUNTMIN's values are below 256.
THEOREM SketchAllHeavyFound == CountMinTriesAll /\ Spec => []AllHeavyFound
  <1> SUFFICES ASSUME CountMinTriesAll PROVE Spec => []AllHeavyFound
    OBVIOUS
  <1>1. Reception /\ Exchange /\ Deliveries /\ Listing /\ Converted /\ Truthful => AllHeavyFound
    BY AllHeavyFoundStep
  <1> QED
    BY <1>1, SketchReception, SketchExchange, SketchMessages, PTL
=============================================================================
