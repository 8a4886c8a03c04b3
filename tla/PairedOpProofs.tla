--------------------------- MODULE PairedOpProofs ---------------------------
(***************************************************************************)
(* Proofs about PairedOp. For every campaign, any number of inputs and any *)
(* hash-map order the two servers stay in step and count the same inputs;  *)
(* and bit_sum, int_sum, xor_op and max_op each do, over two               *)
(* unsynchronised servers, what Aggregate does in one step: store          *)
(* first-come, then decide as a function of the payloads both servers      *)
(* hold. The sums go through the OT conversions, whose exactness           *)
(* OTConversionProofs proves; the XORs of both servers' payloads are the   *)
(* XOR of what the payloads open to. A client that delivered its batch has *)
(* what its routine prints reported.                                       *)
(***************************************************************************)
EXTENDS PairedOp, OTConversionProofs, FiniteSetTheorems, SequenceTheorems, TLAPS

\* A batch has a natural number of inputs.
LEMMA TotalIsNat == ASSUME campaign \in Campaigns PROVE Total_inputs \in Nat
  BY CampaignsAssumption DEF Total_inputs, msg

\* Storing a share adds at most its own key and keeps every other key.
LEMMA KeepAddsOne ==
    ASSUME NEW m, NEW sh, IsFiniteSet(DOMAIN m)
    PROVE  /\ IsFiniteSet(DOMAIN Keep(m, sh))
           /\ Cardinality(DOMAIN Keep(m, sh)) <= Cardinality(DOMAIN m) + 1
           /\ DOMAIN m \subseteq DOMAIN Keep(m, sh)
  <1> DEFINE D == DOMAIN Keep(m, sh)
  <1>1. Cardinality(DOMAIN m) \in Nat
    BY FS_CardinalityType
  <1>2. D = DOMAIN m \/ D = DOMAIN m \cup {sh.pk}
    BY DEF Keep
  <1>3. CASE D = DOMAIN m
    BY <1>1, <1>3
  <1>4. CASE D = DOMAIN m \cup {sh.pk}
    <2>1. /\ IsFiniteSet(DOMAIN m \cup {sh.pk})
          /\ Cardinality(DOMAIN m \cup {sh.pk}) =
               IF sh.pk \in DOMAIN m THEN Cardinality(DOMAIN m) ELSE Cardinality(DOMAIN m) + 1
      BY FS_AddElement
    <2> QED
      BY <1>1, <1>4, <2>1
  <1> QED
    BY <1>2, <1>3, <1>4

\* The invariant holds before the first share.
LEMMA InitLockstep == Init => Lockstep
  <1> SUFFICES ASSUME Init PROVE Lockstep
    OBVIOUS
  <1>1. Total_inputs \in Nat
    BY TotalIsNat DEF Init
  <1>2. DOMAIN share_map[0] = {} /\ DOMAIN share_map[1] = {}
    BY DEF Init, Server
  <1>3. TypeOK
    BY <1>1, <1>2, FS_EmptySet DEF Init, TypeOK, Server
  <1>4. Shape
    BY <1>3, <1>2 DEF Init, Shape, Server
  <1>5. Phases
    BY DEF Init, Phases, Server, Before, UsesOT
  <1>6. KeysListed
    BY <1>2 DEF Init, KeysListed, Server
  <1>7. Streams
    BY DEF Init, Streams, Server
  <1> QED
    BY <1>4, <1>5, <1>6, <1>7 DEF Lockstep

\* The client only moves its own counters.
LEMMA ClientKeepsLockstep == Lockstep /\ ClientStep => Lockstep'
  <1> SUFFICES ASSUME Lockstep, ClientStep PROVE Lockstep'
    OBVIOUS
  <1>1. Total_inputs \in Nat /\ Total_inputs' = Total_inputs /\ msg' = msg /\ campaign' = campaign
    BY TotalIsNat DEF Lockstep, Shape, TypeOK, ClientStep, Close, SendShare, Total_inputs, msg
  <1>2. UNCHANGED <<pc, i, taken, share, share_map, to, rcvd, num_inputs, pk_list, valid, acc>>
    BY DEF ClientStep, Close, SendShare
  <1>3. /\ client' \in {"sending", "closed"}
        /\ sent' \in [Server -> 0 .. Total_inputs]
        /\ \A s \in Server : sent[s] <= sent'[s]
    <2>1. CASE Close
      BY <2>1, <1>1 DEF Close, Lockstep, Shape, TypeOK
    <2>2. ASSUME NEW t \in Server, SendShare(t) PROVE <1>3
      <3>1. /\ sent \in [Server -> 0 .. Total_inputs] /\ sent[t] < Total_inputs
            /\ sent' = [sent EXCEPT ![t] = @ + 1] /\ client' = "sending"
        BY <2>2 DEF SendShare, Lockstep, Shape, TypeOK
      <3> QED
        BY <1>1, <3>1
    <2> QED
      BY <2>1, <2>2 DEF ClientStep
  <1>4. TypeOK'
    <2>1. \A s \in Server : taken'[s] <= sent'[s]
      BY <1>1, <1>2, <1>3 DEF Lockstep, Shape, TypeOK
    <2> QED
      BY <1>1, <1>2, <1>3, <2>1 DEF Lockstep, Shape, TypeOK
  <1>5. Shape'
    BY <1>2, <1>4 DEF Lockstep, Shape
  <1>6. Phases'
    BY <1>1, <1>2 DEF Lockstep, Phases, UsesOT
  <1>7. KeysListed'
    BY <1>1, <1>2 DEF Lockstep, KeysListed
  <1>8. Streams'
    BY <1>1, <1>2 DEF Lockstep, Streams
  <1> QED
    BY <1>5, <1>6, <1>7, <1>8 DEF Lockstep

\* Reading a share, or none, and storing it.
LEMMA RecvKeepsLockstep ==
    ASSUME Lockstep, NEW s \in Server, Recv(s) PROVE Lockstep'
  <1>1. Total_inputs \in Nat /\ Total_inputs' = Total_inputs /\ msg' = msg /\ campaign' = campaign
    BY TotalIsNat DEF Lockstep, Shape, TypeOK, Recv, Total_inputs, msg
  <1>2. UNCHANGED <<campaign, client, sent, pc, to, rcvd, num_inputs, pk_list, valid, acc>>
    BY DEF Recv
  <1>3. pc[s] = "recv" /\ i[s] < Total_inputs /\ i' = [i EXCEPT ![s] = @ + 1]
    BY DEF Recv, MoreExpected
  <1>4. /\ share_map' = [share_map EXCEPT ![s] = Keep(@, share'[s])]
        /\ share_map' = [t \in Server |-> IF t = s THEN Keep(share_map[s], share'[s]) ELSE share_map[t]]
    BY DEF Recv, Lockstep, Shape
  <1>5. /\ share' = [t \in Server |-> share'[t]]
        /\ taken' \in [Server -> 0 .. Total_inputs]
        /\ \A t \in Server : taken'[t] <= sent[t] /\ taken'[t] <= i'[t]
    <2>1. /\ share = [t \in Server |-> share[t]]
          /\ i \in [Server -> 0 .. Total_inputs]
          /\ sent \in [Server -> 0 .. Total_inputs]
          /\ taken \in [Server -> 0 .. Total_inputs]
          /\ \A t \in Server : taken[t] <= sent[t] /\ taken[t] <= i[t]
      BY DEF Lockstep, Shape, TypeOK
    <2>2. CASE /\ taken[s] < sent[s]
               /\ share' = [share EXCEPT ![s] = campaign.shares[taken[s] + 1][s]]
               /\ taken' = [taken EXCEPT ![s] = @ + 1]
      BY <1>1, <1>3, <2>1, <2>2
    <2>3. CASE UNCHANGED share /\ UNCHANGED taken
      BY <1>1, <1>3, <2>1, <2>3
    <2> QED
      BY <2>2, <2>3 DEF Recv, AtEof
  <1>6. \A t \in Server : /\ IsFiniteSet(DOMAIN share_map'[t])
                          /\ Cardinality(DOMAIN share_map'[t]) <= i'[t]
                          /\ DOMAIN share_map[t] \subseteq DOMAIN share_map'[t]
    <2> TAKE t \in Server
    <2>0. /\ IsFiniteSet(DOMAIN share_map[t]) /\ Cardinality(DOMAIN share_map[t]) \in Nat
          /\ i[t] \in Nat /\ Cardinality(DOMAIN share_map[t]) <= i[t]
      BY <1>1, FS_CardinalityType DEF Lockstep, Shape, TypeOK
    <2>1. CASE t = s
      <3> DEFINE m == Keep(share_map[t], share'[t])
      <3>1. share_map'[t] = m /\ i'[t] = i[t] + 1
        BY <1>3, <1>4, <2>1 DEF Lockstep, Shape, TypeOK
      <3>2. /\ IsFiniteSet(DOMAIN m) /\ Cardinality(DOMAIN m) <= Cardinality(DOMAIN share_map[t]) + 1
            /\ DOMAIN share_map[t] \subseteq DOMAIN m
        BY <2>0, KeepAddsOne
      <3>3. Cardinality(DOMAIN m) \in Nat
        BY <3>2, FS_CardinalityType
      <3> HIDE DEF m
      <3> QED
        BY <2>0, <3>1, <3>2, <3>3
    <2>2. CASE t # s
      <3>1. share_map'[t] = share_map[t] /\ i'[t] = i[t]
        BY <1>3, <1>4, <2>2 DEF Lockstep, Shape, TypeOK
      <3> QED
        BY <2>0, <3>1
    <2> QED
      BY <2>1, <2>2
  <1>7. TypeOK'
    <2>1. i' \in [Server -> 0 .. Total_inputs]
      BY <1>1, <1>3 DEF Lockstep, Shape, TypeOK
    <2> QED
      BY <1>1, <1>2, <1>5, <1>6, <2>1 DEF Lockstep, Shape, TypeOK
  <1>8. Shape'
    <2>1. pk_list' \in [Server -> Seq(DOMAIN share_map'[1])]
      <3>1. DOMAIN share_map[1] \subseteq DOMAIN share_map'[1]
        BY <1>6 DEF Server
      <3>2. \A D, E : D \subseteq E => Seq(D) \subseteq Seq(E)
        OBVIOUS
      <3> QED
        BY <1>2, <3>1, <3>2 DEF Lockstep, Shape
    <2> QED
      BY ZenonT(40), <1>2, <1>4, <1>5, <1>7, <2>1 DEF Lockstep, Shape
  <1>9. Phases'
    BY <1>1, <1>2, <1>3 DEF Lockstep, Phases, UsesOT, Shape, TypeOK
  <1>10. KeysListed'
    <2>1. CASE s = 0
      <3>1. valid[0] = <<>> /\ Len(pk_list[0]) = Len(valid[0]) /\ share_map'[1] = share_map[1]
        BY <1>3, <1>4, <2>1 DEF Lockstep, KeysListed, Server
      <3>2. 1 .. Len(pk_list[0]) = {}
        BY <3>1
      <3> QED
        BY <1>1, <1>2, <3>1, <3>2 DEF Lockstep, KeysListed
    <2>2. CASE s = 1
      <3>1. share_map'[0] = share_map[0] /\ pc[1] = "recv"
        BY <1>3, <1>4, <2>2 DEF Server
      <3> QED
        BY <1>1, <1>2, <3>1 DEF Lockstep, KeysListed
    <2> QED
      BY <2>1, <2>2 DEF Server
  <1>11. Streams'
    BY <1>1, <1>2 DEF Lockstep, Streams
  <1> QED
    BY <1>8, <1>9, <1>10, <1>11 DEF Lockstep

\* The message stream server 1 writes: the size, then the keys in order.
LEMMA OpeningStream ==
    ASSUME NEW c \in Nat, NEW order, Len(order) = c
    PROVE  /\ Len(Opening(order)) = c + 1
           /\ Opening(order) = [k \in 1 .. Len(Opening(order)) |-> Opening(order)[k]]
           /\ Opening(order)[1] = Message("size", c)
           /\ \A n \in 1 .. c : Opening(order)[n + 1] = Message("pk", order[n])
  <1>1. Opening(order) = [n \in 1 .. c + 1 |-> IF n = 1 THEN Message("size", c)
                                               ELSE Message("pk", order[n - 1])]
    BY DEF Opening
  <1>2. Len(Opening(order)) = c + 1
    BY <1>1
  <1>3. \A n \in 1 .. c : n + 1 \in 1 .. c + 1 /\ n + 1 # 1 /\ (n + 1) - 1 = n
    OBVIOUS
  <1> QED
    BY <1>1, <1>2, <1>3

\* Server 1 lists its keys.
LEMMA SendPksKeepsLockstep == Lockstep /\ SendPks => Lockstep'
  <1> SUFFICES ASSUME Lockstep, SendPks PROVE Lockstep'
    OBVIOUS
  <1> DEFINE D == DOMAIN share_map[1]
             c == Cardinality(D)
  <1>1. Total_inputs \in Nat /\ Total_inputs' = Total_inputs /\ msg' = msg /\ campaign' = campaign
    BY TotalIsNat DEF Lockstep, Shape, TypeOK, SendPks, Total_inputs, msg
  <1>2. UNCHANGED <<campaign, client, sent, i, taken, share, share_map, rcvd, num_inputs, valid, acc>>
    BY DEF SendPks
  <1>3. pc[1] = "recv" /\ pc[0] = "recv" /\ i[1] = Total_inputs
    BY DEF SendPks, Lockstep, Phases
  <1>4. c \in Nat
    BY FS_CardinalityType DEF Lockstep, Shape, TypeOK, Server
  <1>5. PICK order \in Enumerations(D) :
          /\ pk_list' = [pk_list EXCEPT ![1] = order]
          /\ to' = [to EXCEPT ![0] = Opening(order)]
    BY DEF SendPks
  <1>6. /\ order \in [1 .. c -> D] /\ order \in Seq(D) /\ Len(order) = c
        /\ \A pk \in D : \E n \in 1 .. c : order[n] = pk
    <2>1. /\ order \in [1 .. c -> D]
          /\ \A pk \in D : \E n \in DOMAIN order : order[n] = pk
      BY DEF Enumerations
    <2> HIDE DEF c, D
    <2> QED
      BY <1>4, <2>1
  <1>7. /\ Len(to'[0]) = c + 1 /\ to'[0] = [k \in 1 .. Len(to'[0]) |-> to'[0][k]]
        /\ to'[0][1] = Message("size", c)
        /\ \A n \in 1 .. c : to'[0][n + 1] = Message("pk", order[n])
    <2>1. to'[0] = Opening(order)
      BY <1>5 DEF Lockstep, Shape, Server
    <2>2. c \in Nat /\ Len(order) = c
      BY <1>4, <1>6
    <2> HIDE DEF c, D
    <2>3. /\ Len(Opening(order)) = c + 1
          /\ Opening(order) = [k \in 1 .. Len(Opening(order)) |-> Opening(order)[k]]
          /\ Opening(order)[1] = Message("size", c)
          /\ \A n \in 1 .. c : Opening(order)[n + 1] = Message("pk", order[n])
      BY <2>2, OpeningStream
    <2> QED
      BY <2>1, <2>3
  <1>8. to' = [s \in Server |-> to'[s]] /\ to'[1] = to[1]
    <2>1. DOMAIN to = Server
      BY DEF Lockstep, Shape
    <2>2. to' = [s \in Server |-> IF s = 0 THEN Opening(order) ELSE to[s]]
      BY <1>5, <2>1
    <2> QED
      BY <2>2 DEF Server
  <1>9. /\ pk_list' \in [Server -> Seq(D)]
        /\ pk_list'[0] = pk_list[0] /\ pk_list'[1] = order
    BY <1>5, <1>6 DEF Lockstep, Shape, Server
  <1>10. pc' = [pc EXCEPT ![1] = IF UsesOT THEN "ot" ELSE "valid"]
    BY DEF SendPks
  <1>11. pc'[0] = pc[0] /\ pc'[1] = (IF UsesOT THEN "ot" ELSE "valid")
         /\ pc' \in [Server -> {"recv", "pks", "ot", "valid", "sum", "done"}]
    BY <1>10 DEF Lockstep, Shape, TypeOK, Server
  <1> HIDE DEF D, c
  <1>12. TypeOK'
    BY <1>1, <1>2, <1>11 DEF Lockstep, Shape, TypeOK
  <1>13. Shape'
    <2>1. \A s \in Server : to'[s] = [k \in 1 .. Len(to'[s]) |-> to'[s][k]]
      BY <1>7, <1>8 DEF Lockstep, Shape, Server
    <2>2. pk_list' \in [Server -> Seq(DOMAIN share_map'[1])]
      BY <1>2, <1>9 DEF D
    <2> QED
      BY <1>2, <1>8, <1>12, <2>1, <2>2 DEF Lockstep, Shape
  <1>14. Phases'
    BY <1>1, <1>2, <1>3, <1>11 DEF Lockstep, Phases, UsesOT, Before, Server, SumOps
  <1>15. KeysListed'
    <2>1. pk_list[0] = <<>> /\ num_inputs = 0 /\ valid[0] = <<>>
      BY <1>3 DEF Lockstep, KeysListed, Shape, Server
    <2>2. 1 .. Len(pk_list'[0]) = {} /\ Len(pk_list'[0]) = 0 /\ Len(pk_list'[0]) = Len(valid'[0])
      BY <1>2, <1>9, <2>1
    <2>3. Len(pk_list'[1]) = c /\ c = Cardinality(DOMAIN share_map'[1])
      BY <1>2, <1>6, <1>9 DEF c, D
    <2>4. \A pk \in DOMAIN share_map'[1] : \E n \in 1 .. Len(pk_list'[1]) : pk_list'[1][n] = pk
      BY <1>2, <1>6, <1>9, <2>3 DEF D
    <2> QED
      BY <1>1, <1>2, <1>3, <1>4, <1>11, <2>1, <2>2, <2>3, <2>4 DEF KeysListed
  <1>16. Streams'
    <2>1. rcvd'[0] = 0 /\ rcvd'[1] = 0 /\ to'[1] = <<>>
      BY <1>2, <1>3, <1>8 DEF Lockstep, Streams
    <2> QED
      BY <1>1, <1>3, <1>6, <1>7, <1>9, <1>11, <2>1 DEF Streams
  <1> QED
    BY <1>13, <1>14, <1>15, <1>16 DEF Lockstep

\* Server 0 learns how many keys follow.
LEMMA RecvSizeKeepsLockstep == Lockstep /\ RecvSize => Lockstep'
  <1> SUFFICES ASSUME Lockstep, RecvSize PROVE Lockstep'
    OBVIOUS
  <1>1. Total_inputs \in Nat /\ Total_inputs' = Total_inputs /\ msg' = msg /\ campaign' = campaign
    BY TotalIsNat DEF Lockstep, Shape, TypeOK, RecvSize, Total_inputs, msg
  <1>2. UNCHANGED <<campaign, client, sent, i, taken, share, share_map, to, pk_list, valid, acc>>
    BY DEF RecvSize
  <1>3. pc[0] = "recv" /\ i[0] = Total_inputs
    BY DEF RecvSize
  <1>4. rcvd[0] = 0 /\ rcvd' = [rcvd EXCEPT ![0] = 1]
    <2>1. rcvd[0] = 0
      BY <1>3 DEF Lockstep, Streams
    <2>2. rcvd' = [rcvd EXCEPT ![0] = rcvd[0] + 1]
      BY DEF RecvSize, Read
    <2> QED
      BY <2>1, <2>2
  <1>5. pc[1] \notin {"recv", "done"}
    BY <1>3, <1>4 DEF RecvSize, CanRead, Lockstep, Streams, Phases
  <1>6. num_inputs' = Len(pk_list[1])
    <2>1. to[0][1] = Message("size", Len(pk_list[1]))
      BY <1>5 DEF Lockstep, Streams
    <2> QED
      BY <1>4, <2>1 DEF RecvSize, Incoming, Message
  <1>7. num_inputs' \in 0 .. Total_inputs
    <2>1. /\ Len(pk_list[1]) = Cardinality(DOMAIN share_map[1])
          /\ Cardinality(DOMAIN share_map[1]) <= i[1] /\ i[1] = Total_inputs
      BY <1>5 DEF Lockstep, Phases, KeysListed, Shape, TypeOK, Server
    <2>2. Len(pk_list[1]) \in Nat
      BY DEF Lockstep, Shape, Server
    <2> QED
      BY <1>1, <1>6, <2>1, <2>2
  <1>8. /\ valid[0] = <<>> /\ Len(valid[0]) = 0
        /\ pc' = [pc EXCEPT ![0] = AfterPks(num_inputs')]
    BY <1>3 DEF RecvSize, Lockstep, KeysListed
  <1>9. /\ pc'[1] = pc[1]
        /\ pc'[0] = IF 0 < num_inputs' THEN "pks" ELSE IF UsesOT THEN "ot" ELSE "valid"
        /\ pc' \in [Server -> {"recv", "pks", "ot", "valid", "sum", "done"}]
    BY <1>2, <1>8 DEF AfterPks, Lockstep, Shape, TypeOK, Server
  <1>10. rcvd' \in [Server -> Nat] /\ rcvd'[0] = 1 /\ rcvd'[1] = rcvd[1]
    BY <1>4 DEF Lockstep, Shape, TypeOK, Server
  <1>11. TypeOK'
    BY <1>1, <1>2, <1>7, <1>9, <1>10 DEF Lockstep, Shape, TypeOK
  <1>12. Shape'
    BY <1>2, <1>11 DEF Lockstep, Shape
  <1>13. Phases'
    BY <1>1, <1>2, <1>3, <1>5, <1>9 DEF Lockstep, Phases, UsesOT, Before, Server, SumOps
  <1>14. KeysListed'
    <2>1. Len(pk_list[0]) = 0 /\ Len(pk_list'[1]) = Len(pk_list[1])
      BY <1>2, <1>8 DEF Lockstep, KeysListed
    <2> QED
      BY <1>1, <1>2, <1>3, <1>5, <1>6, <1>7, <1>8, <1>9, <2>1 DEF Lockstep, KeysListed
  <1>15. Streams'
    BY <1>1, <1>2, <1>3, <1>5, <1>8, <1>9, <1>10 DEF Lockstep, Streams
  <1> QED
    BY <1>12, <1>13, <1>14, <1>15 DEF Lockstep

\* Appending a flag to the validity list.
LEMMA AppendFlag ==
    ASSUME NEW q \in Seq(BOOLEAN), NEW e \in BOOLEAN
    PROVE  /\ Append(q, e) \in Seq(BOOLEAN) /\ Len(Append(q, e)) = Len(q) + 1
           /\ Append(q, e)[Len(q) + 1] = e
           /\ \A n \in 1 .. Len(q) : Append(q, e)[n] = q[n]
  BY AppendProperties

\* Server 0 looks one listed key up.
LEMMA RecvPkKeepsLockstep == Lockstep /\ RecvPk => Lockstep'
  <1> SUFFICES ASSUME Lockstep, RecvPk PROVE Lockstep'
    OBVIOUS
  <1> DEFINE k == Len(valid[0])
             pk == pk_list[1][k + 1]
  <1>1. Total_inputs \in Nat /\ Total_inputs' = Total_inputs /\ msg' = msg /\ campaign' = campaign
    BY TotalIsNat DEF Lockstep, Shape, TypeOK, RecvPk, Total_inputs, msg
  <1>2. UNCHANGED <<campaign, client, sent, i, taken, share, share_map, to, num_inputs, acc>>
    BY DEF RecvPk
  <1>3. pc[0] = "pks" /\ pc[1] # "recv" /\ pc[1] # "done"
    BY DEF RecvPk, Lockstep, Phases
  <1>4. /\ k \in Nat /\ k < Len(pk_list[1]) /\ num_inputs = Len(pk_list[1])
        /\ Len(pk_list[0]) = k /\ Len(pk_list[1]) \in Nat
    BY SMTT(40), <1>3 DEF Lockstep, KeysListed, Shape, TypeOK, Server
  <1>5. rcvd[0] = k + 1 /\ rcvd' = [rcvd EXCEPT ![0] = k + 2]
    <2>1. rcvd[0] = k + 1
      BY <1>3 DEF Lockstep, Streams
    <2>2. rcvd' = [rcvd EXCEPT ![0] = rcvd[0] + 1]
      BY DEF RecvPk, Read
    <2>3. (k + 1) + 1 = k + 2
      BY <1>4
    <2> QED
      BY <2>1, <2>2, <2>3
  <1>6. Incoming(0) = pk
    <2>1. k + 1 \in 1 .. Len(pk_list[1])
      BY <1>4
    <2>2. to[0][(k + 1) + 1] = Message("pk", pk)
      BY <1>3, <2>1 DEF Lockstep, Streams
    <2> QED
      BY <1>5, <2>2 DEF Incoming, Message
  <1>7. pk \in DOMAIN share_map[1]
    <2>1. pk_list[1] \in Seq(DOMAIN share_map[1])
      BY DEF Lockstep, Shape, Server
    <2> QED
      BY <1>4, <2>1
  <1>8. /\ pk_list' = [pk_list EXCEPT ![0] = Append(@, pk)]
        /\ valid' = [valid EXCEPT ![0] = Append(@, pk \in DOMAIN share_map[0])]
    BY <1>6 DEF RecvPk, HasShare
  <1>9. /\ pk_list'[1] = pk_list[1] /\ pk_list'[0] = Append(pk_list[0], pk)
        /\ pk_list' \in [Server -> Seq(DOMAIN share_map[1])]
    BY <1>7, <1>8 DEF Lockstep, Shape, Server
  <1>10. /\ valid'[1] = valid[1] /\ valid'[0] = Append(valid[0], pk \in DOMAIN share_map[0])
         /\ valid' \in [Server -> Seq(BOOLEAN)]
    <2> DEFINE known == pk \in DOMAIN share_map[0]
    <2>1. valid \in [Server -> Seq(BOOLEAN)]
      BY DEF Lockstep, Shape, TypeOK
    <2>2. valid' = [valid EXCEPT ![0] = Append(@, known)]
      BY <1>8
    <2>3. known \in BOOLEAN
      OBVIOUS
    <2> HIDE DEF known
    <2>4. valid'[1] = valid[1] /\ valid'[0] = Append(valid[0], known)
      BY <2>1, <2>2 DEF Server
    <2>5. Append(valid[0], known) \in Seq(BOOLEAN)
      BY <2>1, <2>3 DEF Server
    <2>6. valid' \in [Server -> Seq(BOOLEAN)]
      BY <2>1, <2>2, <2>5 DEF Server
    <2> QED
      BY <2>4, <2>6 DEF known
  <1>11. /\ Len(pk_list'[0]) = k + 1 /\ Len(valid'[0]) = k + 1
         /\ pk_list'[0][k + 1] = pk /\ (valid'[0][k + 1] <=> pk \in DOMAIN share_map[0])
         /\ \A n \in 1 .. k : pk_list'[0][n] = pk_list[0][n] /\ valid'[0][n] = valid[0][n]
    <2>1. pk_list[0] \in Seq(DOMAIN share_map[1]) /\ valid[0] \in Seq(BOOLEAN)
      BY DEF Lockstep, Shape, TypeOK, Server
    <2>2. \A S : \A q \in Seq(S), e \in S :
             /\ Len(Append(q, e)) = Len(q) + 1 /\ Append(q, e)[Len(q) + 1] = e
             /\ \A n \in 1 .. Len(q) : Append(q, e)[n] = q[n]
      BY AppendProperties
    <2>3. (pk \in DOMAIN share_map[0]) \in BOOLEAN
      OBVIOUS
    <2>4. /\ Len(pk_list'[0]) = k + 1 /\ pk_list'[0][k + 1] = pk
          /\ \A n \in 1 .. k : pk_list'[0][n] = pk_list[0][n]
      BY <1>4, <1>7, <1>9, <2>1, <2>2
    <2>5. /\ Len(valid'[0]) = k + 1 /\ (valid'[0][k + 1] <=> pk \in DOMAIN share_map[0])
          /\ \A n \in 1 .. k : valid'[0][n] = valid[0][n]
      <3> DEFINE has == pk \in DOMAIN share_map[0]
      <3>1. valid'[0] = Append(valid[0], has)
        BY <1>10
      <3>2. has \in BOOLEAN /\ valid[0] \in Seq(BOOLEAN) /\ k = Len(valid[0])
        BY <2>1
      <3>3. has <=> pk \in DOMAIN share_map[0]
        OBVIOUS
      <3> HIDE DEF has, k, pk
      <3>4. /\ Len(Append(valid[0], has)) = Len(valid[0]) + 1
            /\ Append(valid[0], has)[Len(valid[0]) + 1] = has
            /\ \A n \in 1 .. Len(valid[0]) : Append(valid[0], has)[n] = valid[0][n]
        BY <3>2, AppendFlag
      <3>5. k = Len(valid[0])
        BY <3>2
      <3>6. Len(valid'[0]) = k + 1 /\ \A n \in 1 .. k : valid'[0][n] = valid[0][n]
        BY <3>1, <3>4, <3>5
      <3>7. valid'[0][k + 1] = has
        BY <3>1, <3>4, <3>5, Zenon
      <3> QED
        BY <3>3, <3>6, <3>7, Zenon
    <2> QED
      BY <2>4, <2>5
  <1>12. /\ pc'[1] = pc[1]
         /\ pc'[0] = IF k + 1 < num_inputs THEN "pks" ELSE IF UsesOT THEN "ot" ELSE "valid"
         /\ pc' \in [Server -> {"recv", "pks", "ot", "valid", "sum", "done"}]
    BY <1>11 DEF RecvPk, AfterPks, Lockstep, Shape, TypeOK, Server
  <1>13. rcvd' \in [Server -> Nat] /\ rcvd'[0] = k + 2 /\ rcvd'[1] = rcvd[1]
    BY SMTT(40), <1>4, <1>5 DEF Lockstep, Shape, TypeOK, Server
  <1> HIDE DEF k, pk
  <1>14. TypeOK'
    BY <1>1, <1>2, <1>10, <1>12, <1>13 DEF Lockstep, Shape, TypeOK
  <1>15. Shape'
    BY <1>2, <1>9, <1>14 DEF Lockstep, Shape
  <1>16. Phases'
    BY <1>1, <1>2, <1>3, <1>12 DEF Lockstep, Phases, UsesOT, Before, Server, SumOps
  <1>17. KeysListed'
    <2>1. \A n \in 1 .. Len(pk_list'[0]) :
             /\ pk_list'[0][n] = pk_list'[1][n]
             /\ valid'[0][n] <=> pk_list'[1][n] \in DOMAIN share_map'[0]
      <3> TAKE n \in 1 .. Len(pk_list'[0])
      <3>1. CASE n \in 1 .. k
        BY <1>2, <1>4, <1>9, <1>11, <3>1 DEF Lockstep, KeysListed
      <3>2. CASE n = k + 1
        BY <1>2, <1>9, <1>11, <3>2 DEF pk
      <3> QED
        BY <1>4, <1>11, <3>1, <3>2
    <2>2. pc'[0] # "recv" /\ pc'[1] # "recv" /\ pc'[1] # "done"
      BY <1>3, <1>12
    <2>3. pc'[0] = "pks" => k + 1 < num_inputs
      BY <1>12
    <2>4. pc'[0] # "pks" => k + 1 = num_inputs
      BY <1>4, <1>12
    <2>5. /\ \A q \in DOMAIN share_map[1] : \E n \in 1 .. Len(pk_list[1]) : pk_list[1][n] = q
          /\ Len(pk_list[1]) = Cardinality(DOMAIN share_map[1])
      BY <1>3 DEF Lockstep, KeysListed
    <2>6. /\ Len(pk_list'[0]) = Len(valid'[0]) /\ Len(pk_list'[0]) <= Len(pk_list'[1])
      BY <1>4, <1>9, <1>11
    <2> QED
      BY SMTT(40), <1>1, <1>2, <1>4, <1>9, <1>11, <2>1, <2>2, <2>3, <2>4, <2>5, <2>6 DEF KeysListed
  <1>18. Streams'
    BY <1>1, <1>2, <1>3, <1>4, <1>9, <1>11, <1>12, <1>13 DEF Lockstep, Streams
  <1> QED
    BY <1>15, <1>16, <1>17, <1>18 DEF Lockstep

\* The conversion is a joint step; it tells the servers apart no further.
LEMMA ConvertKeepsLockstep == Lockstep /\ Convert => Lockstep'
  <1> SUFFICES ASSUME Lockstep, Convert PROVE Lockstep'
    OBVIOUS
  <1>1. Total_inputs \in Nat /\ Total_inputs' = Total_inputs /\ msg' = msg /\ campaign' = campaign
    BY TotalIsNat DEF Lockstep, Shape, TypeOK, Convert, Total_inputs, msg
  <1>2. UNCHANGED <<campaign, client, sent, i, taken, share, share_map, to, rcvd,
                    num_inputs, pk_list, valid>>
    BY DEF Convert
  <1>3. pc[0] = "ot" /\ pc[1] = "ot"
    BY DEF Convert, Server
  <1>4. acc' = [s \in Server |-> acc'[s]]
    BY DEF Convert, BitConvert, IntConvert, Lockstep, Shape
  <1>5. pc' = [s \in Server |-> IF msg.type = "BIT_SUM" THEN "sum" ELSE "valid"]
    BY DEF Convert, BitConvert, IntConvert
  <1>6. /\ pc'[0] = IF msg.type = "BIT_SUM" THEN "sum" ELSE "valid"
        /\ pc'[1] = pc'[0]
        /\ pc' \in [Server -> {"recv", "pks", "ot", "valid", "sum", "done"}]
    BY <1>5 DEF Server
  <1>7. TypeOK'
    BY <1>1, <1>2, <1>6 DEF Lockstep, Shape, TypeOK
  <1>8. Shape'
    BY <1>2, <1>4, <1>7 DEF Lockstep, Shape
  <1>9. Phases'
    <2>1. UsesOT /\ UsesOT' = UsesOT
      BY <1>1, <1>3 DEF Lockstep, Phases, UsesOT, SumOps
    <2>2. \A s \in Server : i[s] = Total_inputs
      BY <1>3 DEF Lockstep, Phases, Server
    <2> QED
      BY <1>1, <1>2, <1>6, <2>1, <2>2 DEF Phases, Before, Server
  <1>10. KeysListed'
    BY <1>1, <1>2, <1>3, <1>6 DEF Lockstep, KeysListed
  <1>11. Streams'
    BY <1>1, <1>2, <1>3, <1>6 DEF Lockstep, Streams
  <1> QED
    BY <1>8, <1>9, <1>10, <1>11 DEF Lockstep

\* Server 0 sends its flags.
LEMMA SendValidKeepsLockstep == Lockstep /\ SendValid => Lockstep'
  <1> SUFFICES ASSUME Lockstep, SendValid PROVE Lockstep'
    OBVIOUS
  <1>1. Total_inputs \in Nat /\ Total_inputs' = Total_inputs /\ msg' = msg /\ campaign' = campaign
    BY TotalIsNat DEF Lockstep, Shape, TypeOK, SendValid, Total_inputs, msg
  <1>2. UNCHANGED <<campaign, client, sent, i, taken, share, share_map, rcvd,
                    num_inputs, pk_list, valid>>
    BY DEF SendValid
  <1>3. pc[0] = "valid" /\ msg.type # "BIT_SUM" /\ pc[1] = "valid"
    BY DEF SendValid, Lockstep, Phases, Before, UsesOT, SumOps
  <1>4. /\ pc'[0] = "sum" /\ pc'[1] = pc[1]
        /\ pc' \in [Server -> {"recv", "pks", "ot", "valid", "sum", "done"}]
    BY DEF SendValid, Lockstep, Shape, TypeOK, Server
  <1>5. acc' = [s \in Server |-> acc'[s]]
    <2>1. DOMAIN acc = Server
      BY DEF Lockstep, Shape
    <2> QED
      BY <2>1 DEF SendValid
  <1>6. /\ to' = [s \in Server |-> to'[s]] /\ to'[0] = to[0]
        /\ to'[1] = <<Message("valid", valid[0])>>
    <2>1. DOMAIN to = Server /\ to[1] = <<>>
      BY <1>3 DEF Lockstep, Shape, Streams
    <2>2. to' = [s \in Server |-> IF s = 1 THEN Append(to[1], Message("valid", valid[0])) ELSE to[s]]
      BY <2>1 DEF SendValid
    <2>3. Append(<<>>, Message("valid", valid[0])) = <<Message("valid", valid[0])>>
      OBVIOUS
    <2> QED
      BY <2>1, <2>2, <2>3 DEF Server
  <1>7. TypeOK'
    BY <1>1, <1>2, <1>4 DEF Lockstep, Shape, TypeOK
  <1>8. Shape'
    <2>1. \A s \in Server : to'[s] = [k \in 1 .. Len(to'[s]) |-> to'[s][k]]
      <3>1. to'[1] = [k \in 1 .. Len(to'[1]) |-> to'[1][k]]
        BY <1>6
      <3> QED
        BY <1>6, <3>1 DEF Lockstep, Shape, Server
    <2> QED
      BY <1>2, <1>5, <1>6, <1>7, <2>1 DEF Lockstep, Shape
  <1>9. Phases'
    BY <1>1, <1>2, <1>3, <1>4 DEF Lockstep, Phases, UsesOT, Before, Server, SumOps
  <1>10. KeysListed'
    BY <1>1, <1>2, <1>3, <1>4 DEF Lockstep, KeysListed
  <1>11. Streams'
    BY <1>1, <1>2, <1>3, <1>4, <1>6 DEF Lockstep, Streams
  <1> QED
    BY <1>8, <1>9, <1>10, <1>11 DEF Lockstep

\* Appending to a stream keeps what it holds.
LEMMA AppendToStream ==
    ASSUME NEW q, Len(q) \in Nat, q = [k \in 1 .. Len(q) |-> q[k]], NEW e
    PROVE  /\ Len(Append(q, e)) = Len(q) + 1
           /\ Append(q, e) = [k \in 1 .. Len(Append(q, e)) |-> Append(q, e)[k]]
           /\ Append(q, e)[Len(q) + 1] = e
           /\ \A n \in 1 .. Len(q) : Append(q, e)[n] = q[n]
  <1> DEFINE S == {q[k] : k \in 1 .. Len(q)} \cup {e}
  <1>1. q \in Seq(S)
    OBVIOUS
  <1>2. e \in S
    OBVIOUS
  <1> HIDE DEF S
  <1>3. /\ Append(q, e) \in Seq(S) /\ Len(Append(q, e)) = Len(q) + 1
        /\ Append(q, e)[Len(q) + 1] = e
        /\ \A n \in 1 .. Len(q) : Append(q, e)[n] = q[n]
    BY <1>1, <1>2, AppendProperties
  <1>4. Append(q, e) \in [1 .. Len(Append(q, e)) -> S]
    BY <1>3, LenProperties
  <1> QED
    BY <1>3, <1>4

\* Server 1's last message follows the keys, whichever operation it ends.
LEMMA SumSent ==
    ASSUME Lockstep, pc[1] \in {"valid", "sum"}, NEW b,
           to' = [to EXCEPT ![0] = Append(@, Message("sum", b))]
    PROVE  /\ to' = [s \in Server |-> to'[s]] /\ to'[1] = to[1]
           /\ Len(to'[0]) = Len(pk_list[1]) + 2
           /\ to'[0] = [k \in 1 .. Len(to'[0]) |-> to'[0][k]]
           /\ to'[0][1] = Message("size", Len(pk_list[1]))
           /\ \A n \in 1 .. Len(pk_list[1]) : to'[0][n + 1] = Message("pk", pk_list[1][n])
           /\ to'[0][Len(pk_list[1]) + 2].kind = "sum"
  <1> DEFINE c == Len(pk_list[1])
  <1>1. DOMAIN to = Server
    BY DEF Lockstep, Shape
  <1>2. to' = [s \in Server |-> IF s = 0 THEN Append(to[0], Message("sum", b)) ELSE to[s]]
    BY <1>1
  <1>3. c \in Nat
    BY DEF Lockstep, Shape, Server
  <1>4. /\ Len(to[0]) = c + 1 /\ to[0] = [k \in 1 .. Len(to[0]) |-> to[0][k]]
        /\ to[0][1] = Message("size", c)
        /\ \A n \in 1 .. c : to[0][n + 1] = Message("pk", pk_list[1][n])
    BY DEF Lockstep, Shape, Streams, Server
  <1>5. to'[0] = Append(to[0], Message("sum", b)) /\ to'[1] = to[1]
    BY <1>2 DEF Server
  <1>6. /\ Len(to'[0]) = Len(to[0]) + 1
        /\ to'[0] = [k \in 1 .. Len(to'[0]) |-> to'[0][k]]
        /\ to'[0][Len(to[0]) + 1] = Message("sum", b)
        /\ \A n \in 1 .. Len(to[0]) : to'[0][n] = to[0][n]
    <2>1. Len(to[0]) \in Nat
      BY <1>3, <1>4
    <2> QED
      BY <1>4, <1>5, <2>1, AppendToStream
  <1>7. to' = [s \in Server |-> to'[s]]
    BY <1>2
  <1>8. Message("sum", b).kind = "sum"
    BY DEF Message
  <1>9. \A n \in 1 .. c : n + 1 \in 1 .. c + 1
    BY <1>3
  <1>10. 1 \in 1 .. c + 1 /\ (c + 1) + 1 = c + 2
    BY <1>3
  <1> HIDE DEF c
  <1>11. /\ Len(to'[0]) = c + 2 /\ to'[0][1] = Message("size", c)
         /\ \A n \in 1 .. c : to'[0][n + 1] = Message("pk", pk_list[1][n])
         /\ to'[0][c + 2].kind = "sum"
    BY <1>4, <1>6, <1>8, <1>9, <1>10
  <1> QED
    BY <1>5, <1>6, <1>7, <1>11 DEF c

\* Server 1 takes the flags, sends its sum and returns.
LEMMA RecvValidKeepsLockstep == Lockstep /\ RecvValid => Lockstep'
  <1> SUFFICES ASSUME Lockstep, RecvValid PROVE Lockstep'
    OBVIOUS
  <1>1. Total_inputs \in Nat /\ Total_inputs' = Total_inputs /\ msg' = msg /\ campaign' = campaign
    BY TotalIsNat DEF Lockstep, Shape, TypeOK, RecvValid, Total_inputs, msg
  <1>2. UNCHANGED <<campaign, client, sent, i, taken, share, share_map, num_inputs, pk_list>>
    BY DEF RecvValid
  <1>3. pc[1] = "valid" /\ msg.type # "BIT_SUM"
    BY DEF RecvValid, Lockstep, Phases
  <1>4. /\ rcvd[1] = 0 /\ rcvd' = [rcvd EXCEPT ![1] = 1]
    <2>1. rcvd[1] = 0
      BY <1>3 DEF Lockstep, Streams
    <2>2. rcvd' = [rcvd EXCEPT ![1] = rcvd[1] + 1]
      BY DEF RecvValid, Read
    <2> QED
      BY <2>1, <2>2
  <1>5. pc[0] = "sum" /\ to[1] = <<Message("valid", valid[0])>>
    <2>1. to[1] # <<>>
      BY <1>4 DEF RecvValid, CanRead
    <2> QED
      BY <1>3, <2>1 DEF Lockstep, Streams, Phases
  <1>6. valid' = [valid EXCEPT ![1] = valid[0]]
    <2>1. to[1][1] = Message("valid", valid[0]) /\ rcvd[1] + 1 = 1
      BY <1>4, <1>5
    <2>2. Incoming(1) = valid[0]
      BY <2>1 DEF Incoming, Message
    <2> QED
      BY <2>2 DEF RecvValid
  <1>7. /\ valid'[0] = valid[0] /\ valid'[1] = valid[0]
        /\ valid' \in [Server -> Seq(BOOLEAN)]
    BY <1>6 DEF Lockstep, Shape, TypeOK, Server
  <1>8. /\ pc'[1] = "done" /\ pc'[0] = "sum"
        /\ pc' \in [Server -> {"recv", "pks", "ot", "valid", "sum", "done"}]
    BY <1>5 DEF RecvValid, Lockstep, Shape, TypeOK, Server
  <1>9. rcvd' \in [Server -> Nat] /\ rcvd'[1] = 1 /\ rcvd'[0] = rcvd[0]
    BY <1>4 DEF Lockstep, Shape, TypeOK, Server
  <1>10. acc' = [s \in Server |-> acc'[s]]
    <2>1. DOMAIN acc = Server
      BY DEF Lockstep, Shape
    <2>2. acc' = [acc EXCEPT ![1] = Accumulate(1, valid'[1])]
      BY DEF RecvValid
    <2> QED
      BY <2>1, <2>2
  <1>11. /\ to' = [s \in Server |-> to'[s]] /\ to'[1] = to[1]
         /\ Len(to'[0]) = Len(pk_list[1]) + 2
         /\ to'[0] = [k \in 1 .. Len(to'[0]) |-> to'[0][k]]
         /\ to'[0][1] = Message("size", Len(pk_list[1]))
         /\ \A n \in 1 .. Len(pk_list[1]) : to'[0][n + 1] = Message("pk", pk_list[1][n])
         /\ to'[0][Len(pk_list[1]) + 2].kind = "sum"
    BY <1>3, SumSent DEF RecvValid
  <1>12. TypeOK'
    BY <1>1, <1>2, <1>7, <1>8, <1>9 DEF Lockstep, Shape, TypeOK
  <1>13. Shape'
    <2>1. \A s \in Server : to'[s] = [k \in 1 .. Len(to'[s]) |-> to'[s][k]]
      BY <1>11 DEF Lockstep, Shape, Server
    <2> QED
      BY <1>2, <1>10, <1>11, <1>12, <2>1 DEF Lockstep, Shape
  <1>14. Phases'
    BY <1>1, <1>2, <1>3, <1>5, <1>8 DEF Lockstep, Phases, UsesOT, Before, Server, SumOps
  <1>15. KeysListed'
    BY <1>1, <1>2, <1>3, <1>5, <1>7, <1>8 DEF Lockstep, KeysListed
  <1>16. Streams'
    BY <1>1, <1>2, <1>3, <1>5, <1>7, <1>8, <1>9, <1>11 DEF Lockstep, Streams
  <1> QED
    BY <1>13, <1>14, <1>15, <1>16 DEF Lockstep

\* bit_sum: server 1 sends its sum at once.
LEMMA SendBitSumKeepsLockstep == Lockstep /\ SendBitSum => Lockstep'
  <1> SUFFICES ASSUME Lockstep, SendBitSum PROVE Lockstep'
    OBVIOUS
  <1>1. Total_inputs \in Nat /\ Total_inputs' = Total_inputs /\ msg' = msg /\ campaign' = campaign
    BY TotalIsNat DEF Lockstep, Shape, TypeOK, SendBitSum, Total_inputs, msg
  <1>2. UNCHANGED <<campaign, client, sent, i, taken, share, share_map, rcvd,
                    num_inputs, pk_list, valid, acc>>
    BY DEF SendBitSum
  <1>3. pc[1] = "sum" /\ msg.type = "BIT_SUM" /\ UsesOT
    BY DEF SendBitSum, Lockstep, Phases, UsesOT, SumOps
  <1>4. pc[0] = "sum"
    BY <1>3 DEF Lockstep, Phases, Before
  <1>5. /\ pc'[1] = "done" /\ pc'[0] = "sum"
        /\ pc' \in [Server -> {"recv", "pks", "ot", "valid", "sum", "done"}]
    BY <1>4 DEF SendBitSum, Lockstep, Shape, TypeOK, Server
  <1>6. /\ to' = [s \in Server |-> to'[s]] /\ to'[1] = to[1]
        /\ Len(to'[0]) = Len(pk_list[1]) + 2
        /\ to'[0] = [k \in 1 .. Len(to'[0]) |-> to'[0][k]]
        /\ to'[0][1] = Message("size", Len(pk_list[1]))
        /\ \A n \in 1 .. Len(pk_list[1]) : to'[0][n + 1] = Message("pk", pk_list[1][n])
        /\ to'[0][Len(pk_list[1]) + 2].kind = "sum"
    BY <1>3, SumSent DEF SendBitSum
  <1>7. TypeOK'
    BY <1>1, <1>2, <1>5 DEF Lockstep, Shape, TypeOK
  <1>8. Shape'
    <2>1. \A s \in Server : to'[s] = [k \in 1 .. Len(to'[s]) |-> to'[s][k]]
      BY <1>6 DEF Lockstep, Shape, Server
    <2> QED
      BY <1>2, <1>6, <1>7, <2>1 DEF Lockstep, Shape
  <1>9. Phases'
    BY <1>1, <1>2, <1>3, <1>4, <1>5 DEF Lockstep, Phases, UsesOT, Before, Server
  <1>10. KeysListed'
    BY <1>1, <1>2, <1>3, <1>4, <1>5 DEF Lockstep, KeysListed
  <1>11. Streams'
    BY <1>1, <1>2, <1>3, <1>4, <1>5, <1>6 DEF Lockstep, Streams
  <1> QED
    BY <1>8, <1>9, <1>10, <1>11 DEF Lockstep

\* Server 0 reads the sum and reports.
LEMMA RecvSumKeepsLockstep == Lockstep /\ RecvSum => Lockstep'
  <1> SUFFICES ASSUME Lockstep, RecvSum PROVE Lockstep'
    OBVIOUS
  <1>1. Total_inputs \in Nat /\ Total_inputs' = Total_inputs /\ msg' = msg /\ campaign' = campaign
    BY TotalIsNat DEF Lockstep, Shape, TypeOK, RecvSum, Total_inputs, msg
  <1>2. UNCHANGED <<campaign, client, sent, i, taken, share, share_map, to,
                    num_inputs, pk_list, valid, acc>>
    BY DEF RecvSum
  <1>3. pc[0] = "sum" /\ pc[1] # "recv"
    BY DEF RecvSum, Lockstep, Phases
  <1>4. /\ Len(pk_list[1]) \in Nat /\ Len(valid[0]) = Len(pk_list[1])
        /\ rcvd[0] = Len(pk_list[1]) + 1
    BY <1>3 DEF Lockstep, Shape, KeysListed, Streams, Server
  <1>5. pc[1] = "done"
    <2>1. rcvd[0] < Len(to[0])
      BY DEF RecvSum, CanRead
    <2> QED
      BY <1>3, <1>4, <2>1 DEF Lockstep, Streams
  <1>6. rcvd' \in [Server -> Nat] /\ rcvd'[0] = Len(pk_list[1]) + 2 /\ rcvd'[1] = rcvd[1]
    <2>1. rcvd' = [rcvd EXCEPT ![0] = rcvd[0] + 1]
      BY DEF RecvSum, Read
    <2> QED
      BY SMTT(40), <1>4, <2>1 DEF Lockstep, Shape, TypeOK, Server
  <1>7. /\ pc'[0] = "done" /\ pc'[1] = "done"
        /\ pc' \in [Server -> {"recv", "pks", "ot", "valid", "sum", "done"}]
    BY <1>5 DEF RecvSum, Lockstep, Shape, TypeOK, Server
  <1>8. TypeOK'
    BY <1>1, <1>2, <1>6, <1>7 DEF Lockstep, Shape, TypeOK
  <1>9. Shape'
    BY <1>2, <1>8 DEF Lockstep, Shape
  <1>10. Phases'
    BY <1>1, <1>2, <1>3, <1>5, <1>7 DEF Lockstep, Phases, UsesOT, Before, Server
  <1>11. KeysListed'
    BY <1>1, <1>2, <1>3, <1>5, <1>7 DEF Lockstep, KeysListed
  <1>12. Streams'
    BY <1>1, <1>2, <1>3, <1>5, <1>6, <1>7 DEF Lockstep, Streams
  <1> QED
    BY <1>9, <1>10, <1>11, <1>12 DEF Lockstep

\* Lockstep is inductive.
LEMMA StepKeepsLockstep == Lockstep /\ [Next]_vars => Lockstep'
  <1> SUFFICES ASSUME Lockstep, [Next]_vars PROVE Lockstep'
    OBVIOUS
  <1>1. CASE UNCHANGED vars
    <2>1. Total_inputs' = Total_inputs /\ msg' = msg /\ (UsesOT' <=> UsesOT)
      BY <1>1 DEF vars, Total_inputs, msg, UsesOT
    <2>2. TypeOK'
      BY <1>1, <2>1 DEF vars, Lockstep, Shape, TypeOK
    <2>3. Shape'
      BY <1>1, <2>2 DEF vars, Lockstep, Shape
    <2>4. Phases'
      BY <1>1, <2>1 DEF vars, Lockstep, Phases
    <2>5. KeysListed'
      BY <1>1, <2>1 DEF vars, Lockstep, KeysListed
    <2>6. Streams'
      BY <1>1, <2>1 DEF vars, Lockstep, Streams
    <2> QED
      BY <2>3, <2>4, <2>5, <2>6 DEF Lockstep
  <1>2. CASE ClientStep
    BY <1>2, ClientKeepsLockstep
  <1>3. CASE Server0Step
    BY <1>3, RecvKeepsLockstep, RecvSizeKeepsLockstep, RecvPkKeepsLockstep,
       SendValidKeepsLockstep, RecvSumKeepsLockstep DEF Server0Step, Server
  <1>4. CASE Server1Step
    BY <1>4, RecvKeepsLockstep, SendPksKeepsLockstep, RecvValidKeepsLockstep,
       SendBitSumKeepsLockstep DEF Server1Step, Server
  <1>5. CASE Convert
    BY <1>5, ConvertKeepsLockstep
  <1> QED
    BY <1>1, <1>2, <1>3, <1>4, <1>5 DEF Next

\* The two handlers of server.cpp never get out of step, for any batch.
THEOREM ServersInLockstep == Spec => []Lockstep
  BY InitLockstep, StepKeepsLockstep, PTL DEF Spec

\* Every variable keeps its shape and every counter its bound.
THEOREM TypeCorrect == Spec => []TypeOK
  <1>1. Lockstep => TypeOK
    BY DEF Lockstep, Shape
  <1> QED
    BY <1>1, ServersInLockstep, PTL

\* What the invariant says of the flags, once both servers have them.
LEMMA LockstepCounts == Lockstep => SameInputsCounted
  <1> SUFFICES ASSUME Lockstep PROVE SameInputsCounted
    OBVIOUS
  <1>1. /\ Len(pk_list[0]) = Len(valid[0]) /\ Len(pk_list[1]) \in Nat
        /\ DOMAIN valid[0] = 1 .. Len(valid[0])
        /\ \A n \in 1 .. Len(pk_list[1]) : pk_list[1][n] \in DOMAIN share_map[1]
    <2>1. pk_list[1] \in Seq(DOMAIN share_map[1]) /\ valid[0] \in Seq(BOOLEAN)
      BY DEF Lockstep, Shape, TypeOK, Server
    <2>2. Len(pk_list[0]) = Len(valid[0])
      BY DEF Lockstep, KeysListed
    <2>3. DOMAIN valid[0] = 1 .. Len(valid[0])
      BY <2>1
    <2>4. Len(pk_list[1]) \in Nat
      BY <2>1
    <2>5. \A n \in 1 .. Len(pk_list[1]) : pk_list[1][n] \in DOMAIN share_map[1]
      BY <2>1
    <2> QED
      BY <2>2, <2>3, <2>4, <2>5
  <1>2. \A n \in 1 .. Len(valid[0]) :
           /\ pk_list[0][n] = pk_list[1][n]
           /\ valid[0][n] <=> pk_list[1][n] \in DOMAIN share_map[0]
    BY DEF Lockstep, KeysListed
  <1>3. ASSUME pc[0] \in {"ot", "valid", "sum", "done"}
        PROVE  CountedKeys(0) = BothStored
    <2>1. pc[1] # "recv" /\ Len(valid[0]) = Len(pk_list[1])
      BY <1>3 DEF Lockstep, Phases, KeysListed
    <2>2. \A pk \in DOMAIN share_map[1] : \E n \in 1 .. Len(pk_list[1]) : pk_list[1][n] = pk
      BY <2>1 DEF Lockstep, KeysListed
    <2>3. CountedKeys(0) \subseteq BothStored
      BY <1>1, <1>2, <2>1 DEF CountedKeys, Counted, BothStored
    <2>4. BothStored \subseteq CountedKeys(0)
      <3> SUFFICES ASSUME NEW pk \in DOMAIN share_map[1], pk \in DOMAIN share_map[0]
                   PROVE  pk \in CountedKeys(0)
        BY DEF BothStored
      <3>1. PICK n \in 1 .. Len(valid[0]) : pk_list[1][n] = pk
        BY <2>1, <2>2
      <3>2. n \in Counted(valid[0]) /\ pk_list[0][n] = pk
        BY <1>1, <1>2, <3>1 DEF Counted
      <3> QED
        BY <3>2 DEF CountedKeys
    <2> QED
      BY <2>3, <2>4
  <1>4. ASSUME pc[1] = "done", msg.type # "BIT_SUM"
        PROVE  CountedKeys(1) = BothStored
    <2>1. pc[0] \in {"sum", "done"} /\ valid[1] = valid[0]
      BY <1>4 DEF Lockstep, Phases, KeysListed
    <2>2. CountedKeys(0) = BothStored
      BY <1>3, <2>1
    <2>3. CountedKeys(1) = CountedKeys(0)
      BY SMTT(40), <1>1, <1>2, <2>1 DEF CountedKeys, Counted
    <2> QED
      BY <2>2, <2>3
  <1> QED
    BY <1>3, <1>4 DEF SameInputsCounted

\* bit_sum, int_sum, xor_op and max_op aggregate the same submissions at both
\* servers: those whose public key both stored.
THEOREM SameInputsAreCounted == Spec => []SameInputsCounted
  BY LockstepCounts, ServersInLockstep, PTL

\* The raw byte streams stay aligned: the message a server finds next is of
\* the kind its handler reads next.
THEOREM StreamsStayInStep == Spec => []StreamsInStep
  <1>1. Lockstep => StreamsInStep
    <2> SUFFICES ASSUME Lockstep PROVE StreamsInStep
      OBVIOUS
    <2> DEFINE c == Len(pk_list[1])
    <2>1. c \in Nat /\ Len(valid[0]) \in Nat /\ Len(valid[0]) <= c
      BY SMTT(40) DEF Lockstep, Shape, TypeOK, KeysListed, Server
    <2>2. ASSUME rcvd[0] < Len(to[0]) PROVE to[0][rcvd[0] + 1].kind \in Wanted(0)
      <3>1. pc[1] # "recv"
        BY <2>1, <2>2 DEF Lockstep, Streams, Phases
      <3>2. CASE pc[0] = "recv"
        BY <3>1, <3>2 DEF Lockstep, Streams, Message, Wanted
      <3>3. CASE pc[0] = "pks"
        <4>1. rcvd[0] = Len(valid[0]) + 1 /\ Len(valid[0]) + 1 \in 1 .. c
          BY <2>1, <3>3 DEF Lockstep, Streams, KeysListed
        <4>2. to[0][rcvd[0] + 1] = Message("pk", pk_list[1][Len(valid[0]) + 1])
          BY <3>1, <4>1 DEF Lockstep, Streams
        <4> QED
          BY <3>3, <4>2 DEF Message, Wanted
      <3>4. CASE pc[0] \in {"ot", "valid", "sum"}
        <4>1. rcvd[0] = c + 1
          BY <2>1, <3>4 DEF Lockstep, Streams, KeysListed
        <4>2. pc[1] = "done"
          BY <2>1, <2>2, <3>1, <4>1 DEF Lockstep, Streams
        <4>3. to[0][c + 2].kind = "sum" /\ (c + 1) + 1 = c + 2
          BY <2>1, <4>2 DEF Lockstep, Streams
        <4> HIDE DEF c
        <4> QED
          BY <3>4, <4>1, <4>3 DEF Wanted
      <3>5. CASE pc[0] = "done"
        BY <2>1, <2>2, <3>5 DEF Lockstep, Streams, Phases
      <3> QED
        BY <3>2, <3>3, <3>4, <3>5 DEF Lockstep, Shape, TypeOK, Server
    <2>3. ASSUME rcvd[1] < Len(to[1]) PROVE to[1][rcvd[1] + 1].kind \in Wanted(1)
      <3>1. to[1] = <<Message("valid", valid[0])>> /\ msg.type # "BIT_SUM"
            /\ pc[0] \in {"sum", "done"}
        BY <2>3 DEF Lockstep, Streams
      <3>2. rcvd[1] = 0 /\ pc[1] # "done"
        BY <2>3, <3>1 DEF Lockstep, Streams
      <3>3. pc[1] = "valid"
        BY <3>1, <3>2 DEF Lockstep, Phases, Before
      <3>4. to[1][rcvd[1] + 1].kind = "valid"
        BY <3>1, <3>2 DEF Message
      <3> QED
        BY <3>3, <3>4 DEF Wanted
    <2> QED
      BY <2>2, <2>3 DEF StreamsInStep, Server
  <1> QED
    BY <1>1, ServersInLockstep, PTL

\* Whatever the verdict, both handlers leave the shared connection empty for
\* the next operation.
THEOREM StreamsEndDrained == Spec => []StreamsDrained
  <1>1. Lockstep => StreamsDrained
    <2> SUFFICES ASSUME Lockstep, \A s \in Server : pc[s] = "done"
                 PROVE  \A s \in Server : rcvd[s] = Len(to[s])
      BY DEF StreamsDrained
    <2>1. pc[0] = "done" /\ pc[1] = "done"
      BY DEF Server
    <2>2. rcvd[0] = Len(to[0])
      BY <2>1 DEF Lockstep, Streams
    <2>3. rcvd[1] = Len(to[1])
      BY <2>1 DEF Lockstep, Streams
    <2> QED
      BY <2>2, <2>3 DEF Server
  <1> QED
    BY <1>1, ServersInLockstep, PTL

(* Where the stored keys come from: a share a server stores is one it read,  *)
(* once it has read any.                                                     *)

\* Before its first share a server stores nothing, unless no share will ever
\* come; afterwards the struct holds the last share read, and every key of
\* the map is one read so far.
Kept ==
    /\ \A s \in Server :
          /\ taken[s] = 0 => \/ DOMAIN share_map[s] = {}
                             \/ client = "closed" /\ sent[s] = 0
          /\ taken[s] > 0 =>
                /\ share[s] = campaign.shares[taken[s]][s]
                /\ DOMAIN share_map[s] \subseteq
                      {campaign.shares[k][s].pk : k \in 1 .. taken[s]}
    /\ valid[1] = <<>> \/ (pc[1] = "done" /\ msg.type # "BIT_SUM")

\* Nothing is stored before the first share.
LEMMA InitKept == Init => Kept
  BY DEF Init, Kept, Server

\* A share written, or the client gone, takes nothing from the servers.
LEMMA ClientKeepsKept == Lockstep /\ Kept /\ ClientStep => Kept'
  <1> SUFFICES ASSUME Lockstep, Kept, ClientStep PROVE Kept'
    OBVIOUS
  <1>1. UNCHANGED <<campaign, taken, share, share_map, valid, pc>> /\ msg' = msg
    BY DEF ClientStep, Close, SendShare, msg
  <1>2. client = "sending" /\ (client' = "closed" => sent' = sent)
    BY DEF ClientStep, Close, SendShare
  <1> QED
    BY <1>1, <1>2 DEF Kept

\* The receiving loop stores the share it read, or the one it read before.
LEMMA RecvKeepsKept ==
    ASSUME Lockstep, Kept, NEW s \in Server, Recv(s) PROVE Kept'
  <1>1. UNCHANGED <<campaign, client, sent, valid, pc>> /\ msg' = msg
    BY DEF Recv, msg
  <1>2. /\ taken \in [Server -> Nat] /\ sent[s] \in Nat
        /\ DOMAIN share = Server /\ DOMAIN share_map = Server
    BY TotalIsNat DEF Lockstep, Shape, TypeOK
  <1>3. /\ share_map' = [share_map EXCEPT ![s] = Keep(@, share'[s])]
        /\ share_map'[s] = Keep(share_map[s], share'[s])
        /\ DOMAIN share_map'[s] \subseteq DOMAIN share_map[s] \cup {share'[s].pk}
    <2>1. share_map' = [share_map EXCEPT ![s] = Keep(@, share'[s])]
      BY DEF Recv
    <2>2. share_map'[s] = Keep(share_map[s], share'[s])
      BY <1>2, <2>1
    <2> QED
      BY <2>1, <2>2 DEF Keep
  <1>4. CASE /\ taken[s] < sent[s]
             /\ share' = [share EXCEPT ![s] = campaign.shares[taken[s] + 1][s]]
             /\ taken' = [taken EXCEPT ![s] = @ + 1]
    <2>1. /\ taken'[s] = taken[s] + 1 /\ taken[s] \in Nat
          /\ share'[s] = campaign.shares[taken[s] + 1][s]
      BY <1>2, <1>4
    <2>2. DOMAIN share_map[s] \subseteq {campaign.shares[k][s].pk : k \in 1 .. taken[s]}
      <3>1. CASE taken[s] = 0
        BY <1>2, <1>4, <3>1 DEF Kept
      <3>2. CASE taken[s] > 0
        BY <3>2 DEF Kept
      <3> QED
        BY <2>1, <3>1, <3>2
    <2>3. DOMAIN share_map'[s] \subseteq {campaign.shares[k][s].pk : k \in 1 .. taken'[s]}
      <3>1. 1 .. taken[s] \subseteq 1 .. taken'[s] /\ taken[s] + 1 \in 1 .. taken'[s]
        BY <2>1
      <3> QED
        BY <1>3, <2>1, <2>2, <3>1
    <2>4. \A t \in Server : t # s => /\ taken'[t] = taken[t] /\ share'[t] = share[t]
                                     /\ share_map'[t] = share_map[t]
      BY <1>2, <1>3, <1>4
    <2> QED
      BY <1>1, <2>1, <2>3, <2>4 DEF Kept
  <1>5. CASE /\ taken[s] = sent[s] /\ client = "closed"
             /\ AtEof(s) /\ UNCHANGED taken
    <2>1. taken' = taken /\ share' = share /\ taken[s] \in Nat
      BY <1>2, <1>5 DEF AtEof
    <2>2. taken[s] > 0 =>
             DOMAIN share_map'[s] \subseteq {campaign.shares[k][s].pk : k \in 1 .. taken[s]}
      <3> SUFFICES ASSUME taken[s] > 0
                   PROVE  DOMAIN share_map'[s] \subseteq
                             {campaign.shares[k][s].pk : k \in 1 .. taken[s]}
        OBVIOUS
      <3>1. taken[s] \in 1 .. taken[s] /\ share'[s].pk = campaign.shares[taken[s]][s].pk
        BY <2>1 DEF Kept
      <3> QED
        BY <1>3, <3>1 DEF Kept
    <2>3. \A t \in Server : t # s => share_map'[t] = share_map[t]
      BY <1>2, <1>3
    <2> QED
      BY <1>1, <1>5, <2>1, <2>2, <2>3 DEF Kept
  <1> QED
    BY <1>4, <1>5 DEF Recv

\* After the receiving loop the maps stay as they are; server 1 takes its
\* flags in the step in which it returns.
LEMMA StepKeepsKept == Lockstep /\ Kept /\ [Next]_vars => Kept'
  <1> SUFFICES ASSUME Lockstep, Kept, [Next]_vars PROVE Kept'
    OBVIOUS
  <1>1. CASE UNCHANGED vars
    BY <1>1 DEF vars, Kept, msg
  <1>2. CASE ClientStep
    BY <1>2, ClientKeepsKept
  <1>3. CASE Recv(0) \/ Recv(1)
    BY <1>3, RecvKeepsKept DEF Server
  <1>4. ASSUME UNCHANGED <<campaign, client, sent, taken, share, share_map>>,
               valid'[1] = valid[1], pc[1] = "done" => pc'[1] = "done"
        PROVE  Kept'
    BY <1>4 DEF Kept, msg
  <1>5. /\ valid \in [Server -> Seq(BOOLEAN)]
        /\ pc \in [Server -> {"recv", "pks", "ot", "valid", "sum", "done"}]
    BY DEF Lockstep, Shape, TypeOK
  <1>6. CASE RecvSize
    BY <1>4, <1>5, <1>6 DEF RecvSize, Server
  <1>7. CASE RecvPk
    BY <1>4, <1>5, <1>7 DEF RecvPk, Server
  <1>8. CASE SendValid
    BY <1>4, <1>5, <1>8 DEF SendValid, Server
  <1>9. CASE RecvSum
    BY <1>4, <1>5, <1>9 DEF RecvSum, Server
  <1>10. CASE SendPks
    BY <1>4, <1>5, <1>10 DEF SendPks, Server
  <1>11. CASE SendBitSum
    BY <1>4, <1>5, <1>11 DEF SendBitSum, Server
  <1>12. CASE Convert
    <2>1. UNCHANGED <<campaign, client, sent, taken, share, share_map, valid>>
      BY <1>12 DEF Convert
    <2>2. pc[1] # "done"
      BY <1>12 DEF Convert, Server
    <2> QED
      BY <1>4, <2>1, <2>2
  <1>13. CASE RecvValid
    <2>1. /\ UNCHANGED <<campaign, client, sent, taken, share, share_map>>
          /\ pc'[1] = "done" /\ msg' = msg
      BY <1>5, <1>13 DEF RecvValid, Server, msg
    <2>2. msg.type # "BIT_SUM"
      BY <1>13 DEF RecvValid, Lockstep, Phases
    <2> QED
      BY <2>1, <2>2 DEF Kept
  <1> QED
    BY <1>1, <1>2, <1>3, <1>6, <1>7, <1>8, <1>9, <1>10, <1>11, <1>12, <1>13
       DEF Next, Server0Step, Server1Step

\* Once each server has read a share, whatever it counts was delivered to
\* both: the struct left over at the end of a stream adds no submission.
THEOREM CountedAreDelivered == Spec => []CountedWereDelivered
  <1>1. Lockstep /\ Kept => CountedWereDelivered
    <2> SUFFICES ASSUME Lockstep, Kept, BothHeard, NEW s \in Server
                 PROVE  CountedKeys(s) \subseteq Delivered(0) \cap Delivered(1)
      BY DEF CountedWereDelivered
    <2>1. \A t \in Server : DOMAIN share_map[t] \subseteq Delivered(t)
      <3> TAKE t \in Server
      <3>1. taken[t] > 0 /\ taken[t] <= sent[t] /\ taken[t] \in Nat /\ sent[t] \in Nat
        BY TotalIsNat DEF BothHeard, Lockstep, Shape, TypeOK
      <3>2. 1 .. taken[t] \subseteq 1 .. sent[t]
        BY <3>1
      <3> QED
        BY <3>1, <3>2 DEF Kept, Delivered
    <2>2. \A n \in DOMAIN valid[0] :
             valid[0][n] => pk_list[0][n] \in DOMAIN share_map[0] \cap DOMAIN share_map[1]
      <3>1. DOMAIN valid[0] = 1 .. Len(valid[0]) /\ Len(valid[0]) \in Nat
        BY DEF Lockstep, Shape, TypeOK, Server
      <3>2. /\ Len(pk_list[0]) = Len(valid[0]) /\ Len(valid[0]) <= Len(pk_list[1])
            /\ \A n \in 1 .. Len(valid[0]) :
                  /\ pk_list[0][n] = pk_list[1][n]
                  /\ valid[0][n] <=> pk_list[1][n] \in DOMAIN share_map[0]
        BY DEF Lockstep, KeysListed
      <3>3. \A n \in 1 .. Len(pk_list[1]) : pk_list[1][n] \in DOMAIN share_map[1]
        BY DEF Lockstep, Shape, Server
      <3>4. Len(pk_list[1]) \in Nat
        BY DEF Lockstep, Shape, Server
      <3> QED
        BY <3>1, <3>2, <3>3, <3>4
    <2>3. CountedKeys(0) \subseteq DOMAIN share_map[0] \cap DOMAIN share_map[1]
      BY <2>2 DEF CountedKeys, Counted
    <2>4. CountedKeys(1) \subseteq DOMAIN share_map[0] \cap DOMAIN share_map[1]
      <3>1. CASE valid[1] = <<>>
        BY <3>1 DEF CountedKeys, Counted
      <3>2. CASE pc[1] = "done" /\ msg.type # "BIT_SUM"
        <4>1. SameInputsCounted
          BY LockstepCounts
        <4> QED
          BY <3>2, <4>1 DEF SameInputsCounted, BothStored
      <3> QED
        BY <3>1, <3>2 DEF Kept
    <2> QED
      BY <2>1, <2>3, <2>4 DEF Server
  <1>2. Spec => []Kept
    BY InitKept, StepKeepsKept, InitLockstep, StepKeepsLockstep, PTL DEF Spec
  <1> QED
    BY <1>1, <1>2, ServersInLockstep, PTL
-----------------------------------------------------------------------------
(* XOR of payloads, entry by entry and key by key *)

Holders(payloads, S, p) == {x \in S : p \in payloads[x]}

\* A position is in the XOR if and only if an odd number of payloads hold it.
LEMMA InXor ==
  ASSUME NEW payloads, NEW S, IsFiniteSet(S), NEW p
  PROVE  p \in XorAll(payloads, S) <=> Odd(Holders(payloads, S, p))
<1>1. Odd(Holders(payloads, S, p)) => Holders(payloads, S, p) # {}
  BY FS_EmptySet DEF Odd
<1>2. Holders(payloads, S, p) # {} => p \in UNION {payloads[x] : x \in S}
  BY DEF Holders
<1> QED
  BY <1>1, <1>2 DEF XorAll, Odd, Holders

\* The XOR of two servers' XORs is the XOR of the opened payloads.
LEMMA XorOfShares ==
  ASSUME NEW a, NEW b, NEW v, NEW S, IsFiniteSet(S), \A x \in S : v[x] = SymDiff(a[x], b[x])
  PROVE  SymDiff(XorAll(a, S), XorAll(b, S)) = XorAll(v, S)
<1>1. ASSUME NEW p PROVE p \in SymDiff(XorAll(a, S), XorAll(b, S)) <=> p \in XorAll(v, S)
  <2>1. IsFiniteSet(Holders(a, S, p)) /\ IsFiniteSet(Holders(b, S, p))
    <3>1. Holders(a, S, p) \in SUBSET S /\ Holders(b, S, p) \in SUBSET S
      BY DEF Holders
    <3> QED
      BY <3>1, FS_Subset
  <2>2. Holders(v, S, p) = SymDiff(Holders(a, S, p), Holders(b, S, p))
    BY DEF Holders, SymDiff
  <2>3. Odd(Holders(v, S, p)) <=>
          \/ Odd(Holders(a, S, p)) /\ ~Odd(Holders(b, S, p))
          \/ ~Odd(Holders(a, S, p)) /\ Odd(Holders(b, S, p))
    BY <2>1, <2>2, OddSymDiff
  <2>4. p \in SymDiff(XorAll(a, S), XorAll(b, S)) <=>
          \/ p \in XorAll(a, S) /\ ~(p \in XorAll(b, S))
          \/ ~(p \in XorAll(a, S)) /\ p \in XorAll(b, S)
    BY DEF SymDiff
  <2> QED
    BY <2>3, <2>4, InXor
<1> QED
  BY <1>1

\* g lists, without repetition, n keys; K are those that flags marks.
Lists(g, n, flags, K) ==
    /\ n \in Nat /\ flags \in [1 .. n -> BOOLEAN]
    /\ \A j, k \in 1 .. n : g[j] = g[k] => j = k
    /\ K = {g[j] : j \in {j \in 1 .. n : flags[j]}}

MarkedIn(n, flags, g, Q) == {j \in 1 .. n : flags[j] /\ g[j] \in Q}

\* Marked entries and marked keys are as many.
LEMMA ListsCount ==
  ASSUME NEW g, NEW n, NEW flags, NEW K, Lists(g, n, flags, K), NEW Q \in SUBSET K
  PROVE  /\ IsFiniteSet(Q)
         /\ Cardinality(MarkedIn(n, flags, g, Q)) = Cardinality(Q)
<1>1. PICK T : T = {j \in 1 .. n : flags[j] /\ g[j] \in Q}
  OBVIOUS
<1>2. IsFiniteSet(T)
  <2>1. IsFiniteSet(1 .. n)
    BY FS_Interval DEF Lists
  <2>2. T \in SUBSET (1 .. n)
    BY <1>1
  <2> QED
    BY <2>1, <2>2, FS_Subset
<1>3. PICK f : f = [j \in T |-> g[j]]
  OBVIOUS
<1>4. f \in [T -> Q]
  BY <1>1, <1>3
<1>5. \A j, k \in T : f[j] = f[k] => j = k
  BY <1>1, <1>3 DEF Lists
<1>6. \A q \in Q : \E j \in T : f[j] = q
  BY <1>1, <1>3 DEF Lists
<1>7. f \in Bijection(T, Q)
  BY <1>4, <1>5, <1>6 DEF Bijection, Injection, Surjection, IsInjective
<1>8. ExistsBijection(T, Q)
  BY <1>7 DEF ExistsBijection
<1> QED
  BY <1>1, <1>2, <1>8, FS_Bijection DEF MarkedIn

\* The XOR over the marked entries is the XOR over the marked keys.
Marked(n, flags) == {j \in 1 .. n : flags[j]}
ByKey(n, flags, f, g, v) == \A j \in 1 .. n : flags[j] => f[j] = v[g[j]]

\* The XOR over the marked entries is the XOR over the marked keys.
LEMMA XorOfKeys ==
  ASSUME NEW g, NEW n, NEW flags, NEW K, Lists(g, n, flags, K),
         NEW f, NEW v, ByKey(n, flags, f, g, v)
  PROVE  XorAll(f, Marked(n, flags)) = XorAll(v, K)
<1>1. PICK T : T = {j \in 1 .. n : flags[j]}
  OBVIOUS
<1>2. IsFiniteSet(T)
  <2>1. IsFiniteSet(1 .. n)
    BY FS_Interval DEF Lists
  <2>2. T \in SUBSET (1 .. n)
    BY <1>1
  <2> QED
    BY <2>1, <2>2, FS_Subset
<1>3. IsFiniteSet(K)
  BY ListsCount
<1>4. ASSUME NEW p PROVE p \in XorAll(f, T) <=> p \in XorAll(v, K)
  <2>1. PICK Q : Q = Holders(v, K, p)
    OBVIOUS
  <2>2. Q \in SUBSET K
    BY <2>1 DEF Holders
  <2>3. Holders(f, T, p) = MarkedIn(n, flags, g, Q)
    BY <1>1, <2>1 DEF Holders, Lists, ByKey, MarkedIn
  <2>4. Cardinality(Holders(f, T, p)) = Cardinality(Q)
    BY <2>2, <2>3, ListsCount
  <2> QED
    BY <1>2, <1>3, <2>1, <2>4, InXor DEF Odd
<1> QED
  BY <1>1, <1>4 DEF Marked

-----------------------------------------------------------------------------
(* Sums over keys and over a list of the keys *)

\* The sum of the opened values, as Aggregate writes it, and its summands.
SumOf(values, S) == MapThenSumSet(LAMBDA pk : Number(values[pk]), S)
Numbers(values, S, F) == F = [pk \in S |-> Number(values[pk])] /\ Summable(S, F)

\* It may be taken in any order.
LEMMA SumOfAny ==
  ASSUME NEW values, NEW S, NEW F, Numbers(values, S, F)
  PROVE  \E fold : SumOf(values, S) = fold[S] /\ AnyOrder(S, F, fold)
<1> DEFINE Fix(h) == [s \in SUBSET S |-> IF s = {} THEN 0 ELSE
                        LET x == (CHOOSE y \in s : TRUE) IN Number(values[x]) + h[s \ {x}]]
           fold == CHOOSE h : h = Fix(h)
<1>1. SumOf(values, S) = fold[S]
  BY DEF SumOf, MapThenSumSet, MapThenFoldSet
<1>2. F = [pk \in S |-> Number(values[pk])] /\ Summable(S, F)
  BY DEF Numbers
<1>3. \A pk \in S : F[pk] = Number(values[pk])
  BY <1>2
<1>4. PICK iter : iter \in [SUBSET S -> Int] /\ Summed(S, F, iter)
  BY <1>2, SumExists
<1>5. ASSUME NEW s \in SUBSET S PROVE iter[s] = Fix(iter)[s]
  <2>1. CASE s = {}
    BY <1>4, <2>1 DEF Summed
  <2>2. CASE s # {}
    <3>1. iter[s] = F[Arb(s)] + iter[s \ {Arb(s)}]
      BY <1>4, <2>2 DEF Summed
    <3>2. F[Arb(s)] = Number(values[Arb(s)])
      BY <1>3, <2>2, ArbIn
    <3> QED
      BY <2>2, <3>1, <3>2 DEF Arb
  <2> QED
    BY <2>1, <2>2
<1>6. iter = Fix(iter)
  BY <1>4, <1>5
<1>7. fold = Fix(fold)
  <2> HIDE DEF Fix
  <2> QED
    BY <1>6, Zenon
<1> HIDE DEF fold
<1>8. Summed(S, F, fold)
  <2>1. fold[{}] = 0
    BY <1>7
  <2>2. ASSUME NEW s \in SUBSET S, s # {} PROVE fold[s] = F[Arb(s)] + fold[s \ {Arb(s)}]
    <3>1. fold[s] = Number(values[Arb(s)]) + fold[s \ {Arb(s)}]
      BY <1>7, <2>2 DEF Arb
    <3> QED
      BY <1>3, <2>2, <3>1, ArbIn
  <2> QED
    BY <2>1, <2>2 DEF Summed
<1>9. AnyOrder(S, F, fold)
  BY <1>2, <1>8, SumAny
<1> QED
  BY <1>1, <1>9

\* Entry by entry of a list of the keys.
SumPath(v, g, n, flags, F) ==
    /\ v \in [0 .. n -> Int] /\ v[0] = 0
    /\ \A j \in 1 .. n : v[j] = v[j - 1] + IF flags[j] THEN F[g[j]] ELSE 0

\* The sum over the keys is the last of the list's partial sums.
LEMMA SumOfPath ==
  ASSUME NEW values, NEW K, NEW F, Numbers(values, K, F),
         NEW g, NEW n, NEW flags, Lists(g, n, flags, K)
  PROVE  \E v : SumPath(v, g, n, flags, F) /\ SumOf(values, K) = v[n]
<1>0. /\ n \in Nat /\ flags \in [1 .. n -> BOOLEAN] /\ K = {g[j] : j \in {j \in 1 .. n : flags[j]}}
      /\ \A j, k \in 1 .. n : g[j] = g[k] => j = k
  BY DEF Lists
<1>1. PICK fold : SumOf(values, K) = fold[K] /\ AnyOrder(K, F, fold)
  BY SumOfAny
<1>2. fold[{}] = 0
      /\ \A s \in SUBSET K : fold[s] \in Int /\ \A x \in s : fold[s] = F[x] + fold[s \ {x}]
  BY <1>1 DEF AnyOrder
<1>3. \A x \in K : F[x] \in Int
  BY DEF Numbers, Summable
<1>4. PICK upto : upto = [j \in 0 .. n |-> {g[k] : k \in {k \in 1 .. j : flags[k]}}]
  OBVIOUS
<1>5. \A j \in 0 .. n : upto[j] \in SUBSET K
  BY <1>0, <1>4
<1>6. upto[0] = {} /\ upto[n] = K
  <2>1. 0 \in 0 .. n /\ n \in 0 .. n /\ 1 .. 0 = {}
    BY <1>0
  <2> QED
    BY <1>0, <1>4, <2>1
<1>7. PICK v : v = [j \in 0 .. n |-> fold[upto[j]]]
  OBVIOUS
<1>8. v \in [0 .. n -> Int]
  BY <1>2, <1>5, <1>7
<1>9. ASSUME NEW j \in 1 .. n PROVE v[j] = v[j - 1] + IF flags[j] THEN F[g[j]] ELSE 0
  <2>1. PICK i0 \in 0 .. n : i0 = j - 1 /\ j \in 0 .. n
    BY <1>0
  <2>2. v[j] = fold[upto[j]] /\ v[i0] = fold[upto[i0]] /\ v[i0] \in Int
    BY <1>7, <1>8, <2>1
  <2>3. 1 .. j = (1 .. i0) \cup {j} /\ j \notin 1 .. i0 /\ 1 .. i0 \subseteq 1 .. n
    BY <1>0, <2>1
  <2>4. upto[j] = {g[k] : k \in {k \in 1 .. j : flags[k]}}
        /\ upto[i0] = {g[k] : k \in {k \in 1 .. i0 : flags[k]}}
    BY <1>4, <2>1
  <2>5. CASE flags[j]
    <3>1. g[j] \in upto[j] /\ upto[j] \ {g[j]} = upto[i0] /\ g[j] \in K
      <4>1. g[j] \in upto[j] /\ g[j] \in K
        BY <1>0, <2>3, <2>4, <2>5
      <4>2. g[j] \notin upto[i0]
        BY <1>0, <2>3, <2>4
      <4>3. upto[j] = upto[i0] \cup {g[j]}
        BY <2>3, <2>4, <2>5
      <4> QED
        BY <4>1, <4>2, <4>3
    <3>2. fold[upto[j]] = F[g[j]] + fold[upto[i0]]
      <4>1. upto[j] \in SUBSET K
        BY <1>5, <2>1
      <4>2. fold[upto[j]] = F[g[j]] + fold[upto[j] \ {g[j]}]
        BY <1>2, <3>1, <4>1
      <4> QED
        BY <3>1, <4>2
    <3>3. F[g[j]] \in Int
      BY <1>3, <3>1
    <3> QED
      BY <2>1, <2>2, <2>5, <3>2, <3>3
  <2>6. CASE ~flags[j]
    <3>1. upto[j] = upto[i0]
      BY <2>3, <2>4, <2>6
    <3> QED
      BY <2>1, <2>2, <2>6, <3>1
  <2> QED
    BY <2>5, <2>6
<1>10. v[0] = 0 /\ SumOf(values, K) = v[n]
  <2>1. 0 \in 0 .. n /\ n \in 0 .. n
    BY <1>0
  <2> QED
    BY <1>1, <1>2, <1>6, <1>7, <2>1
<1> QED
  BY <1>8, <1>9, <1>10 DEF SumPath

\* accumulate's loop over one server's additive shares.
SumModulo(sh, flags) ==
    FoldLeft(LAMBDA sum, n : IF flags[n] THEN (sum + sh[n]) % Modulus ELSE sum,
             0, [n \in DOMAIN flags |-> n])
Addends(n, sh, flags) ==
    n \in Nat /\ DOMAIN flags = 1 .. n /\ \A j \in 1 .. n : flags[j] => sh[j] \in Int
AddPath(sh, flags, n, part) ==
    /\ part \in [0 .. n -> 0 .. Modulus - 1] /\ part[0] = 0
    /\ \A j \in 1 .. n : part[j] = IF flags[j] THEN (part[j - 1] + sh[j]) % Modulus ELSE part[j - 1]

\* accumulate's loop goes through such partial sums, each reduced.
LEMMA AddRec ==
  ASSUME NEW n, NEW sh, NEW flags, Addends(n, sh, flags)
  PROVE  \E part : AddPath(sh, flags, n, part) /\ SumModulo(sh, flags) = part[n]
<1> USE DEF Addends
<1> DEFINE V == 0 .. Modulus - 1
           Order == [j \in DOMAIN flags |-> j]
           D == DOMAIN Order
           Step(sum, j) == IF flags[j] THEN (sum + sh[j]) % Modulus ELSE sum
           Fix(h) == [s \in SUBSET D |-> IF s = {} THEN 0 ELSE LET x == Max(s) IN
                        IF flags[Order[x]] THEN (h[s \ {x}] + sh[Order[x]]) % Modulus ELSE h[s \ {x}]]
           fold == CHOOSE h : h = Fix(h)
<1>1. SumModulo(sh, flags) = fold[D]
  BY DEF SumModulo, FoldLeft, MapThenFoldSet
<1>0. D = 1 .. n /\ \A j \in 1 .. n : Order[j] = j
  OBVIOUS
<1>2. PICK G : G = [j \in 1 .. n |-> [v \in V |-> Step(v, j)]]
  OBVIOUS
<1>3. Folding(n, V, 0, G)
  <2>1. 0 \in V
    BY ModulusAssumption
  <2>2. ASSUME NEW j \in 1 .. n, NEW v \in V PROVE Step(v, j) \in V
    <3>1. CASE flags[j]
      <4>1. PICK z \in Int : z = v + sh[j]
        BY <3>1, ModulusAssumption
      <4>2. z % Modulus \in V
        BY ModRange, ModulusAssumption
      <4> QED
        BY <3>1, <4>1, <4>2
    <3>2. CASE ~flags[j]
      BY <3>2
    <3> QED
      BY <3>1, <3>2
  <2> HIDE DEF V, Step
  <2> QED
    BY <1>2, <2>1, <2>2 DEF Folding
<1> HIDE DEF V
<1>4. fold = Fix(fold)
  <2>1. PICK iter : iter \in [SUBSET (1 .. n) -> V] /\ Folded(n, V, 0, G, iter)
    BY <1>3, FoldExists
  <2>2. ASSUME NEW s \in SUBSET D PROVE iter[s] = Fix(iter)[s]
    <3>1. CASE s = {}
      BY <2>1, <3>1 DEF Folded
    <3>2. CASE s # {}
      <4>1. Max(s) \in 1 .. n /\ s \ {Max(s)} \in SUBSET (1 .. n)
        BY <1>0, <3>2, MaxIn
      <4>2. iter[s] = Step(iter[s \ {Max(s)}], Order[Max(s)])
        BY <1>0, <1>2, <2>1, <3>2, <4>1 DEF Folded
      <4> QED
        BY <3>2, <4>2
    <3> QED
      BY <3>1, <3>2
  <2>3. iter = Fix(iter)
    BY <1>0, <2>1, <2>2
  <2> HIDE DEF Fix
  <2> QED
    BY <2>3, Zenon
<1> HIDE DEF fold
<1>5. Folded(n, V, 0, G, fold)
  <2>1. fold[{}] = 0
    BY <1>4
  <2>2. ASSUME NEW s \in SUBSET (1 .. n), s # {}, fold[s \ {Max(s)}] \in V
        PROVE  fold[s] = G[Max(s)][fold[s \ {Max(s)}]]
    <3>1. Max(s) \in 1 .. n
      BY <2>2, MaxIn
    <3>2. fold[s] = Step(fold[s \ {Max(s)}], Order[Max(s)])
      BY <1>0, <1>4, <2>2
    <3> QED
      BY <1>0, <1>2, <2>2, <3>1, <3>2
  <2> QED
    BY <2>1, <2>2 DEF Folded
<1>6. PICK part : PartSums(n, V, 0, G, part) /\ fold[1 .. n] = part[n]
  BY <1>3, <1>5, FoldPrefixes
<1>7. part \in [0 .. n -> V] /\ part[0] = 0
  BY <1>6 DEF PartSums
<1>8. ASSUME NEW j \in 1 .. n PROVE part[j] = Step(part[j - 1], j)
  <2>1. part[j - 1] \in V
    BY <1>7
  <2> QED
    BY <1>2, <1>6, <2>1 DEF PartSums
<1> QED
  BY <1>0, <1>1, <1>6, <1>7, <1>8 DEF V, AddPath

-----------------------------------------------------------------------------
(* What the two servers' sums open to *)

\* The additive shares of each marked entry open to its key's number.
Opens(n, flags, sh0, sh1, F, g) ==
    \A j \in 1 .. n : flags[j] => Cong(sh0[j] + sh1[j], F[g[j]], Modulus)

\* Congruent numbers have the same remainder, whatever is added to both.
LEMMA CongTerms ==
  ASSUME NEW m \in Nat, NEW a \in Int, NEW b \in Int, NEW c \in Int, NEW d \in Int,
         NEW p \in Int, NEW q \in Int, NEW x \in Int, NEW y \in Int, NEW e \in Int,
         Cong(a + b, c, m), Cong(x, a + p, m), Cong(y, b + q, m), Cong(p + q, d, m), e = c + d
  PROVE  Cong(x + y, e, m)
<1>1. PICK q1 \in Int : a + b = c + q1 * m
  BY DEF Cong
<1>2. PICK q2 \in Int : x = a + p + q2 * m
  BY DEF Cong
<1>3. PICK q3 \in Int : y = b + q + q3 * m
  BY DEF Cong
<1>4. PICK q4 \in Int : p + q = d + q4 * m
  BY DEF Cong
<1>5. PICK k \in Int : k = q1 + q2 + q3 + q4
  OBVIOUS
<1>6. k * m = q1 * m + q2 * m + q3 * m + q4 * m
      /\ q1 * m \in Int /\ q2 * m \in Int /\ q3 * m \in Int /\ q4 * m \in Int
  BY <1>5
<1>7. x + y = e + k * m
  BY <1>1, <1>2, <1>3, <1>4, <1>6
<1> QED
  BY <1>5, <1>7 DEF Cong

\* int_sum: the two accumulated shares add up to the sum of the opened values.
LEMMA SharesAddUp ==
  ASSUME NEW g, NEW n, NEW flags, NEW K, Lists(g, n, flags, K),
         NEW values, NEW F, Numbers(values, K, F),
         NEW sh0, NEW sh1, Addends(n, sh0, flags), Addends(n, sh1, flags),
         Opens(n, flags, sh0, sh1, F, g)
  PROVE  (SumModulo(sh0, flags) + SumModulo(sh1, flags)) % Modulus = SumOf(values, K) % Modulus
<1>1. PICK a : AddPath(sh0, flags, n, a) /\ SumModulo(sh0, flags) = a[n]
  BY AddRec
<1>2. PICK b : AddPath(sh1, flags, n, b) /\ SumModulo(sh1, flags) = b[n]
  BY AddRec
<1>3. PICK v : SumPath(v, g, n, flags, F) /\ SumOf(values, K) = v[n]
  BY SumOfPath
<1>4. PICK m \in Nat \ {0} : m = Modulus
  BY ModulusAssumption
<1>5. n \in Nat /\ flags \in [1 .. n -> BOOLEAN]
  BY DEF Lists
<1>6. /\ a \in [0 .. n -> 0 .. m - 1] /\ a[0] = 0 /\ b \in [0 .. n -> 0 .. m - 1] /\ b[0] = 0
      /\ v \in [0 .. n -> Int] /\ v[0] = 0
  BY <1>1, <1>2, <1>3, <1>4 DEF AddPath, SumPath
<1> DEFINE P == {j \in Nat : j <= n => Cong(a[j] + b[j], v[j], m)}
<1>7. 0 \in P
  <2>1. Cong(0, 0, m)
    BY <1>4, CongSelf
  <2> QED
    BY <1>6, <2>1
<1>8. ASSUME NEW k \in Nat, k \in P PROVE k + 1 \in P
  <2>1. CASE k + 1 <= n
    <3>1. PICK j \in 1 .. n : j = k + 1 /\ j - 1 = k /\ k \in 0 .. n /\ j \in 0 .. n
      BY <1>5, <2>1
    <3>2. PICK ak \in Int : ak = a[k]
      BY <1>6, <3>1
    <3>3. PICK bk \in Int : bk = b[k]
      BY <1>6, <3>1
    <3>4. PICK vk \in Int : vk = v[k]
      BY <1>6, <3>1
    <3>5. Cong(ak + bk, vk, m)
      BY <1>8, <3>1, <3>2, <3>3, <3>4
    <3>6. a[j] = IF flags[j] THEN (ak + sh0[j]) % m ELSE ak
      BY <1>1, <1>4, <3>1, <3>2 DEF AddPath
    <3>7. b[j] = IF flags[j] THEN (bk + sh1[j]) % m ELSE bk
      BY <1>2, <1>4, <3>1, <3>3 DEF AddPath
    <3>8. v[j] = vk + IF flags[j] THEN F[g[j]] ELSE 0
      BY <1>3, <3>1, <3>4 DEF SumPath
    <3>9. CASE flags[j]
      <4>1. PICK p \in Int : p = sh0[j]
        BY <3>9 DEF Addends
      <4>2. PICK q \in Int : q = sh1[j]
        BY <3>9 DEF Addends
      <4>3. PICK d \in Int : d = F[g[j]]
        <5>1. g[j] \in K
          BY <3>9 DEF Lists
        <5> QED
          BY <5>1 DEF Numbers, Summable
      <4>4. Cong(p + q, d, m)
        BY <1>4, <3>9, <4>1, <4>2, <4>3 DEF Opens
      <4>5. PICK s \in Int : s = ak + p
        OBVIOUS
      <4>6. PICK t \in Int : t = bk + q
        OBVIOUS
      <4>7. PICK x \in Int : x = a[j] /\ Cong(x, s, m)
        <5>1. a[j] = s % m
          BY <3>6, <3>9, <4>1, <4>5
        <5>2. s % m \in 0 .. m - 1
          BY ModRange
        <5>3. Cong(s % m, s, m)
          BY ModCong
        <5>4. PICK x \in Int : x = s % m
          BY <5>2
        <5> QED
          BY <5>1, <5>3, <5>4
      <4>8. PICK y \in Int : y = b[j] /\ Cong(y, t, m)
        <5>1. b[j] = t % m
          BY <3>7, <3>9, <4>2, <4>6
        <5>2. t % m \in 0 .. m - 1
          BY ModRange
        <5>3. Cong(t % m, t, m)
          BY ModCong
        <5>4. PICK y \in Int : y = t % m
          BY <5>2
        <5> QED
          BY <5>1, <5>3, <5>4
      <4>9. PICK e \in Int : e = vk + d
        OBVIOUS
      <4>10. Cong(x + y, e, m)
        BY <3>5, <4>4, <4>5, <4>6, <4>7, <4>8, <4>9, CongTerms
      <4> QED
        BY <3>1, <3>8, <3>9, <4>3, <4>7, <4>8, <4>9, <4>10
    <3>10. CASE ~flags[j]
      BY <3>1, <3>5, <3>6, <3>7, <3>8, <3>10
    <3> QED
      BY <3>9, <3>10
  <2> QED
    BY <2>1
<1>9. Nat \subseteq P
  <2> HIDE DEF P
  <2> QED
    BY <1>7, <1>8, Induct
<1>10. n \in 0 .. n /\ Cong(a[n] + b[n], v[n], m)
  BY <1>5, <1>9
<1>11. PICK z \in Int : z = a[n] + b[n]
  BY <1>6, <1>10
<1>12. PICK w \in Int : w = v[n]
  BY <1>6, <1>10
<1>13. z % m = w % m
  BY <1>4, <1>10, <1>11, <1>12, CongMod
<1> QED
  BY <1>1, <1>2, <1>3, <1>4, <1>11, <1>12, <1>13

\* bit_sum: so do the two sums of bitsum_ot, modulo 2^64.
OpensBits(n, flags, x0, x1, F, g) ==
    \A j \in 1 .. n : flags[j] => F[g[j]] = OpenedBit(x0, x1, j)

\* bitsum_ot's sums open to the sum of the marked keys' bits.
LEMMA BitsAddUp ==
  ASSUME NEW g, NEW n, NEW flags, NEW K, Lists(g, n, flags, K),
         NEW values, NEW F, Numbers(values, K, F),
         NEW x0, NEW x1, NEW pads, BitBatch(n, x0, x1, flags, pads),
         OpensBits(n, flags, x0, x1, F, g), NEW mod \in Nat, mod = 0,
         NEW messages, messages = BitMessages(x0, flags, pads, mod)
  PROVE  \E s, r \in Int : /\ s = BitSenderSum(x0, flags, pads, mod)
                           /\ r = BitReceiverSum(x1, messages, mod)
                           /\ (s + r) % Word = SumOf(values, K) % Word
<1>1. PICK x : BitSums(x0, flags, n, pads, mod, x) /\ BitSenderSum(x0, flags, pads, mod) = x[n]
  BY BitSenderSums
<1>2. PICK seq : ReceivedAs(x1, messages, n, seq)
  BY DEF ReceivedAs
<1>3. PICK y : TotalSums(seq, n, mod, y) /\ BitReceiverSum(x1, messages, mod) = y[n]
  BY <1>2, BitReceiverSums
<1>4. PICK v : SumPath(v, g, n, flags, F) /\ SumOf(values, K) = v[n]
  BY SumOfPath
<1>5. OpenedSums(x0, x1, flags, n, v)
  BY <1>4 DEF OpenedSums, SumPath, OpensBits
<1>6. Cong(x[n] + y[n], v[n], Word) /\ v[n] \in Int
  BY <1>1, <1>2, <1>3, <1>5, BitPathsExact
<1>7. PICK m \in Nat \ {0} : m = Word /\ Ring(mod) = m
  BY WordAssumption DEF Ring
<1>8. /\ BitSenderSum(x0, flags, pads, mod) \in 0 .. Ring(mod) - 1
      /\ BitReceiverSum(x1, messages, mod) \in 0 .. Ring(mod) - 1
  BY BitSumsReduced
<1>9. PICK s \in Int : s = x[n] /\ s = BitSenderSum(x0, flags, pads, mod)
  BY <1>1, <1>7, <1>8
<1>10. PICK r \in Int : r = y[n] /\ r = BitReceiverSum(x1, messages, mod)
  BY <1>3, <1>7, <1>8
<1>11. PICK z \in Int : z = s + r
  OBVIOUS
<1>12. PICK w \in Int : w = v[n]
  BY <1>6
<1>13. z % m = w % m
  BY ZenonT(40), <1>6, <1>7, <1>9, <1>10, <1>11, <1>12, CongMod
<1> QED
  BY <1>4, <1>7, <1>9, <1>10, <1>11, <1>12, <1>13

-----------------------------------------------------------------------------
(* What each server has computed: the invariant, before the conversion *)

\* What the stored shares of each key open to.
Opened == [pk \in BothStored |-> SymDiff(share_map[0][pk], share_map[1][pk])]

\* Where a stored payload of a sum may have a 1 bit.
Places == IF msg.type = "BIT_SUM" THEN {0} ELSE 0 .. msg.num_bits - 1

\* What a server adds or XORs up, by server 0's flags.
OwnAggregate(s) ==
    IF UsesOT THEN SumModulo(shares_p[s], valid[0])
    ELSE XorAll([n \in Counted(valid[0]) |-> share_map[s][pk_list[s][n]]], Counted(valid[0]))

Undecided == pc[0] # "done" => result = Pending

PayloadsFit ==
    UsesOT => \A s \in Server :
                 /\ share[s].val \in Payloads(msg.type)
                 /\ \A pk \in DOMAIN share_map[s] : share_map[s][pk] \subseteq Places

SumOnTheWire == pc[1] = "done" => to[0][Len(pk_list[1]) + 2].val = acc[1]

Aggregated ==
    msg.type # "BIT_SUM" => /\ pc[0] \in {"sum", "done"} => acc[0] = OwnAggregate(0)
                            /\ pc[1] = "done" => acc[1] = OwnAggregate(1)

EntriesOpen ==
    msg.type = "INT_SUM" /\ pc[0] \in {"valid", "sum", "done"} =>
        \A n \in Counted(valid[0]) :
           /\ shares_p[0][n] \in Int /\ shares_p[1][n] \in Int
           /\ (shares_p[0][n] + shares_p[1][n]) % Modulus
                = Number(Opened[pk_list[0][n]]) % Modulus

BitsOpen ==
    msg.type = "BIT_SUM" /\ pc[0] \in {"sum", "done"} =>
        /\ acc[0] \in Int /\ acc[1] \in Int
        /\ (acc[0] + acc[1]) % Word = SumOf(Opened, BothStored) % Word

\* What each server has computed, in terms of what both have stored.
Computed ==
    Undecided /\ PayloadsFit /\ SumOnTheWire /\ Aggregated /\ EntriesOpen /\ BitsOpen

\* The type of every operation.
LEMMA TypeKnown ==
  ASSUME campaign \in Campaigns
  PROVE  msg.type \in SumOps \cup XorOps /\ (UsesOT <=> msg.type \in SumOps)
  BY CampaignsAssumption DEF msg, UsesOT

\* Before the first share nothing is computed.
LEMMA InitComputed == Init => Computed
<1> SUFFICES ASSUME Init PROVE Computed
  OBVIOUS
<1>1. pc[0] = "recv" /\ pc[1] = "recv" /\ result = Pending
  BY DEF Init, Server
<1>2. PayloadsFit
  <2>1. campaign \in Campaigns /\ share \in [Server -> Garbage]
        /\ \A s \in Server : DOMAIN share_map[s] = {}
    BY DEF Init
  <2> QED
    BY <2>1, PayloadsAssumption DEF PayloadsFit, UsesOT, msg
<1> QED
  BY <1>1, <1>2 DEF Computed, Undecided, SumOnTheWire, Aggregated, EntriesOpen, BitsOpen

\* Nothing the servers hold changes.
LEMMA IdleKeepsComputed ==
  ASSUME Computed, UNCHANGED <<campaign, pc, share, share_map, to, pk_list, valid, shares_p, acc, result>>
  PROVE  Computed'
<1>1. Undecided'
  BY DEF Computed, Undecided
<1>2. PayloadsFit' /\ SumOnTheWire'
  BY DEF Computed, PayloadsFit, SumOnTheWire, Places, UsesOT, msg
<1>3. Aggregated'
  BY DEF Computed, Aggregated, OwnAggregate, UsesOT, msg, Counted
<1>4. BothStored' = BothStored /\ Opened' = Opened
  BY DEF BothStored, Opened
<1>5. EntriesOpen'
  BY <1>4 DEF Computed, EntriesOpen, msg, Counted
<1>6. BitsOpen'
  BY <1>4 DEF Computed, BitsOpen, msg
<1> QED
  BY <1>1, <1>2, <1>3, <1>5, <1>6 DEF Computed

\* Before the keys are lined up there is only the payloads' shape to keep.
LEMMA EarlyComputed ==
  ASSUME result' = Pending, PayloadsFit', pc'[0] \in {"recv", "pks", "ot", "valid"}, pc'[1] # "done",
         pc'[0] = "valid" => msg'.type # "INT_SUM"
  PROVE  Computed'
  BY DEF Computed, Undecided, SumOnTheWire, Aggregated, EntriesOpen, BitsOpen

\* The receiving loop stores payloads of the right width only.
LEMMA RecvKeepsComputed ==
  ASSUME Lockstep, Computed, NEW s \in Server, Recv(s) PROVE Computed'
<1>1. /\ pc[s] = "recv" /\ pc' = pc /\ campaign' = campaign /\ result' = result
      /\ share_map' = [share_map EXCEPT ![s] = Keep(@, share'[s])]
  BY DEF Recv
<1>2. /\ campaign \in Campaigns /\ taken \in [Server -> 0 .. Total_inputs]
      /\ sent \in [Server -> 0 .. Total_inputs] /\ Total_inputs \in Nat
      /\ DOMAIN share = Server /\ DOMAIN share_map = Server
  BY TotalIsNat DEF Lockstep, Shape, TypeOK
<1>3. pc[0] = "recv" /\ pc[1] # "done"
  BY <1>1 DEF Lockstep, Phases, Server
<1>4. ASSUME UsesOT PROVE share'[s].val \in Payloads(msg.type)
  <2>1. share[s].val \in Payloads(msg.type)
    BY <1>4 DEF Computed, PayloadsFit
  <2>2. CASE taken[s] < sent[s] /\ share' = [share EXCEPT ![s] = campaign.shares[taken[s] + 1][s]]
    <3>1. taken[s] + 1 \in 1 .. Total_inputs
      BY <1>2, <2>2
    <3>2. taken[s] + 1 \in DOMAIN campaign.shares
      BY <1>2, <3>1, CampaignsAssumption DEF Total_inputs, msg
    <3> QED
      BY <1>2, <1>4, <2>2, <3>2, PayloadsAssumption DEF UsesOT, msg
  <2>3. CASE share' = share
    BY <2>1, <2>3
  <2> QED
    BY <2>2, <2>3 DEF Recv, AtEof
<1>5. ASSUME NEW t \in Server, t # s PROVE share'[t] = share[t] /\ share_map'[t] = share_map[t]
  BY <1>1, <1>2, <1>5 DEF Recv, AtEof
<1>6. share_map'[s] = Keep(share_map[s], share'[s])
  BY <1>1, <1>2
<1>7. ASSUME UsesOT, NEW pk \in DOMAIN share_map'[s] PROVE share_map'[s][pk] \subseteq Places
  <2>1. CASE pk \in DOMAIN share_map[s]
    <3>1. share_map'[s][pk] = share_map[s][pk]
      BY <1>6, <2>1 DEF Keep
    <3> QED
      BY <1>7, <2>1, <3>1 DEF Computed, PayloadsFit
  <2>2. CASE pk \notin DOMAIN share_map[s]
    <3>1. share_map'[s][pk] = share'[s].val /\ ~OutOfRange(share'[s].val)
      BY <1>6, <1>7, <2>2 DEF Keep
    <3>2. share'[s].val \in Payloads(msg.type)
      BY <1>4, <1>7
    <3>3. CASE msg.type = "BIT_SUM"
      BY <3>1, <3>2, <3>3 DEF Payloads, Places
    <3>4. CASE msg.type = "INT_SUM"
      <4>1. msg.num_bits \in Nat
        BY <1>2, <3>4, PayloadsAssumption DEF msg, SumOps
      <4>2. share'[s].val \subseteq Nat /\ \A k \in share'[s].val : ~(k >= msg.num_bits)
        BY <3>1, <3>2, <3>4 DEF Payloads, OutOfRange
      <4>3. Places = 0 .. msg.num_bits - 1
        BY <3>4 DEF Places
      <4> QED
        BY <3>1, <4>1, <4>2, <4>3
    <3> QED
      BY <1>7, <3>3, <3>4 DEF UsesOT, SumOps
  <2> QED
    BY <2>1, <2>2
<1>8. PayloadsFit'
  <2>1. msg' = msg /\ UsesOT' = UsesOT /\ Places' = Places
    BY <1>1 DEF msg, UsesOT, Places
  <2>2. ASSUME UsesOT, NEW t \in Server
        PROVE  share'[t].val \in Payloads(msg.type)
               /\ \A pk \in DOMAIN share_map'[t] : share_map'[t][pk] \subseteq Places
    <3>1. CASE t = s
      BY <1>4, <1>7, <2>2, <3>1
    <3>2. CASE t # s
      BY <1>5, <2>2, <3>2 DEF Computed, PayloadsFit
    <3> QED
      BY <3>1, <3>2
  <2> QED
    BY <2>1, <2>2 DEF PayloadsFit
<1>9. result' = Pending
  BY <1>1, <1>3 DEF Computed, Undecided
<1> QED
  BY <1>1, <1>3, <1>8, <1>9, EarlyComputed

\* Nor do the keys on their way change any payload.
LEMMA LiningUpKeepsComputed ==
  ASSUME Lockstep, Computed, SendPks \/ RecvSize \/ RecvPk PROVE Computed'
<1>1. /\ UNCHANGED <<campaign, share, share_map, result>>
      /\ pc \in [Server -> {"recv", "pks", "ot", "valid", "sum", "done"}]
  BY DEF SendPks, RecvSize, RecvPk, Lockstep, Shape, TypeOK
<1>2. PayloadsFit'
  BY <1>1 DEF Computed, PayloadsFit, Places, UsesOT, msg
<1>3. pc[0] \in {"recv", "pks"} /\ pc[1] # "done"
  BY DEF SendPks, RecvSize, RecvPk, Lockstep, Phases
<1>4. result' = Pending
  BY <1>1, <1>3 DEF Computed, Undecided
<1>5. /\ pc'[0] \in {"recv", "pks", "ot", "valid"} /\ pc'[1] # "done"
      /\ pc'[0] = "valid" => ~UsesOT
  <2>1. CASE SendPks
    BY <1>1, <1>3, <2>1 DEF SendPks, Server
  <2>2. CASE RecvSize
    BY <1>1, <1>3, <2>2 DEF RecvSize, AfterPks, Server
  <2>3. CASE RecvPk
    BY <1>1, <1>3, <2>3 DEF RecvPk, AfterPks, Server
  <2> QED
    BY <2>1, <2>2, <2>3
<1>6. msg' = msg
  BY <1>1 DEF msg
<1> QED
  BY <1>2, <1>4, <1>5, <1>6, EarlyComputed DEF UsesOT, SumOps

-----------------------------------------------------------------------------
(* The lists of keys, once they are lined up *)

\* Both servers' key lists, once they are lined up, list the same keys without
\* repetition; server 0's flags mark those both have stored.
LEMMA ListedKeys ==
  ASSUME Lockstep, pc[0] \notin {"recv", "pks"}
  PROVE  /\ Lists(pk_list[0], Len(pk_list[1]), valid[0], BothStored)
         /\ Lists(pk_list[1], Len(pk_list[1]), valid[0], BothStored)
         /\ DOMAIN pk_list[0] = 1 .. Len(pk_list[1]) /\ DOMAIN pk_list[1] = 1 .. Len(pk_list[1])
         /\ DOMAIN valid[0] = 1 .. Len(pk_list[1])
         /\ \A n \in 1 .. Len(pk_list[1]) :
               /\ pk_list[0][n] = pk_list[1][n]
               /\ pk_list[1][n] \in DOMAIN share_map[1]
               /\ valid[0][n] <=> pk_list[1][n] \in DOMAIN share_map[0]
<1>1. pc[1] # "recv"
  BY DEF Lockstep, Phases
<1>2. PICK D : D = DOMAIN share_map[1]
  OBVIOUS
<1>3. pk_list[0] \in Seq(D) /\ pk_list[1] \in Seq(D) /\ valid[0] \in Seq(BOOLEAN)
  BY <1>2 DEF Lockstep, Shape, TypeOK, Server
<1>4. PICK n \in Nat : n = Len(pk_list[1])
  BY <1>3
<1>5. Len(pk_list[0]) = n /\ Len(valid[0]) = n
  BY <1>4 DEF Lockstep, KeysListed
<1>6. pk_list[0] \in [1 .. n -> D] /\ pk_list[1] \in [1 .. n -> D] /\ valid[0] \in [1 .. n -> BOOLEAN]
  BY <1>3, <1>4, <1>5
<1>7. \A j \in 1 .. n : /\ pk_list[0][j] = pk_list[1][j]
                        /\ valid[0][j] <=> pk_list[1][j] \in DOMAIN share_map[0]
  BY <1>5 DEF Lockstep, KeysListed
<1>8. \A pk \in D : \E j \in 1 .. n : pk_list[1][j] = pk
  BY <1>1, <1>2, <1>4 DEF Lockstep, KeysListed
<1>9. \A j, k \in 1 .. n : pk_list[1][j] = pk_list[1][k] => j = k
  <2>1. pk_list[1] \in Surjection(1 .. n, D)
    BY <1>6, <1>8 DEF Surjection
  <2>2. IsFiniteSet(1 .. n) /\ Cardinality(1 .. n) = n
    <3>1. IsFiniteSet(1 .. n) /\ Cardinality(1 .. n) = IF 1 > n THEN 0 ELSE n - 1 + 1
      BY FS_Interval
    <3> QED
      BY <3>1
  <2>3. Cardinality(D) = n
    BY <1>1, <1>2, <1>4 DEF Lockstep, KeysListed
  <2>4. pk_list[1] \in Injection(1 .. n, D)
    BY <2>1, <2>2, <2>3, FS_SurjSameCardinalityImpliesInj
  <2> QED
    BY <2>4 DEF Injection, IsInjective
<1>10. BothStored = {pk_list[1][j] : j \in {j \in 1 .. n : valid[0][j]}}
  <2>1. BothStored = D \cap DOMAIN share_map[0]
    BY <1>2 DEF BothStored
  <2>2. \A j \in 1 .. n : pk_list[1][j] \in D
    BY <1>6
  <2> QED
    BY <1>7, <1>8, <2>1, <2>2
<1>11. BothStored = {pk_list[0][j] : j \in {j \in 1 .. n : valid[0][j]}}
  BY <1>7, <1>10
<1> QED
  BY <1>2, <1>4, <1>6, <1>7, <1>9, <1>10, <1>11 DEF Lists

\* A payload of bits below n has an integer value.
LEMMA NumberIsInt ==
  ASSUME NEW n \in Nat, NEW bits \in SUBSET (0 .. n - 1)
  PROVE  Number(bits) \in Int /\ Number(bits) = BitsValue(bits)
<1>1. PICK a : ValueSums(n, bits, a) /\ BitsValue(bits) = a[n]
  BY ValueRec
<1>2. n \in 0 .. n
  OBVIOUS
<1>3. a[n] \in Int
  BY <1>1, <1>2 DEF ValueSums
<1> QED
  BY <1>1, <1>3 DEF Number, BitsValue

\* What the counted keys open to, as numbers.
LEMMA OpenedNumbers ==
  ASSUME Lockstep, Computed, UsesOT, pc[0] \notin {"recv", "pks"}
  PROVE  /\ \E n \in Nat : Places = 0 .. n - 1
         /\ \A pk \in BothStored : Opened[pk] \subseteq Places
         /\ \E F : Numbers(Opened, BothStored, F)
<1>1. PICK n \in Nat : Places = 0 .. n - 1
  <2>1. CASE msg.type = "BIT_SUM"
    BY <2>1 DEF Places
  <2>2. CASE msg.type = "INT_SUM"
    BY <2>2, PayloadsAssumption DEF Places, msg, SumOps, Lockstep, Shape, TypeOK
  <2> QED
    BY <2>1, <2>2 DEF UsesOT, SumOps
<1>2. \A pk \in BothStored : Opened[pk] \subseteq Places
  <2> TAKE pk \in BothStored
  <2>1. share_map[0][pk] \subseteq Places /\ share_map[1][pk] \subseteq Places
    BY DEF Computed, PayloadsFit, BothStored, Server
  <2> QED
    BY <2>1 DEF Opened, SymDiff
<1>3. PICK F : F = [pk \in BothStored |-> Number(Opened[pk])]
  OBVIOUS
<1>4. IsFiniteSet(BothStored)
  BY ListedKeys, ListsCount
<1>5. ASSUME NEW pk \in BothStored PROVE F[pk] \in Int
  <2>1. PICK bits \in SUBSET (0 .. n - 1) : bits = Opened[pk]
    BY <1>1, <1>2
  <2>2. Number(bits) \in Int
    BY NumberIsInt
  <2> QED
    BY <1>3, <2>1, <2>2
<1>6. Numbers(Opened, BothStored, F)
  BY <1>3, <1>4, <1>5 DEF Numbers, Summable
<1> QED
  BY <1>1, <1>2, <1>6

-----------------------------------------------------------------------------
(* Share conversion *)

\* int_sum's conversion has room for every bit of the value modulo Int_Modulus.
ModulusFits ==
    \A c \in Campaigns : c.msg.type = "INT_SUM" =>
        \A k \in 0 .. c.msg.num_bits - 1 : RoomAt(k, Modulus)

\* What the conversion needs of an entry both servers have stored.
EntryShares(s, payload0, payload1, pads, x) ==
    LET messages == IntMessages(payload0, TRUE, msg.num_bits, pads, Modulus)
    IN x = IF s = 0 THEN IntSenderShare(payload0, TRUE, msg.num_bits, pads, Modulus)
           ELSE IntReceiverShare(payload1, msg.num_bits, messages, Modulus)

\* One entry of intsum_ot opens modulo Int_Modulus.
LEMMA EntryOpens ==
  ASSUME campaign \in Campaigns, msg.type = "INT_SUM", ModulusFits,
         NEW a \in SUBSET (0 .. msg.num_bits - 1), NEW b \in SUBSET (0 .. msg.num_bits - 1),
         NEW pads \in [0 .. msg.num_bits - 1 -> Pads],
         NEW x, EntryShares(0, a, b, pads, x), NEW y, EntryShares(1, a, b, pads, y)
  PROVE  /\ x \in Int /\ y \in Int
         /\ (x + y) % Modulus = Number(SymDiff(a, b)) % Modulus
<1>1. PICK n \in Nat : n = msg.num_bits
  BY PayloadsAssumption DEF msg, SumOps
<1>2. PICK m \in Nat \ {0} : m = Modulus
  BY ModulusAssumption
<1>3. \A k \in 0 .. n - 1 : RoomAt(k, m)
  BY <1>1, <1>2 DEF ModulusFits, msg
<1>4. pads \in [0 .. n - 1 -> 0 .. Word - 1]
  BY <1>1, PayloadsAssumption
<1>5. PICK messages : messages = IntMessages(a, TRUE, n, pads, m)
  OBVIOUS
<1>6. x = IntSenderShare(a, TRUE, n, pads, m) /\ y = IntReceiverShare(b, n, messages, m)
  BY <1>1, <1>2, <1>5 DEF EntryShares
<1>7. a \in SUBSET (0 .. n - 1) /\ b \in SUBSET (0 .. n - 1) /\ m \in Nat
  BY <1>1
<1>8. /\ Cong(x + y, BitsValue(SymDiff(a, b)), Ring(m))
      /\ x \in 0 .. Ring(m) - 1 /\ y \in 0 .. Ring(m) - 1
      /\ BitsValue(SymDiff(a, b)) \in Int
  <2> HIDE DEF ModulusFits, EntryShares
  <2> QED
    BY <1>3, <1>4, <1>5, <1>6, <1>7, IntEntryExact
<1>9. Ring(m) = m
  BY <1>2 DEF Ring
<1>10. PICK z \in Int : z = x + y
  BY <1>8, <1>9
<1>11. PICK v \in Int : v = BitsValue(SymDiff(a, b)) /\ v = Number(SymDiff(a, b))
  BY <1>8 DEF Number, BitsValue
<1>12. z % m = v % m
  BY <1>8, <1>9, <1>10, <1>11, CongMod
<1> QED
  BY <1>2, <1>8, <1>9, <1>10, <1>11, <1>12

\* int_sum: after intsum_ot every counted entry opens to its value.
LEMMA IntConvertKeepsComputed ==
  ASSUME Lockstep, Computed, ModulusFits, Convert, msg.type = "INT_SUM" PROVE Computed'
<1>1. PICK pads \in [DOMAIN pk_list[0] -> [0 .. msg.num_bits - 1 -> Pads]], junk \in Junk :
         IntConvert(pads, junk)
  BY DEF Convert
<1>2. /\ UNCHANGED <<campaign, share, share_map, to, pk_list, valid, acc, result>>
      /\ msg' = msg /\ pc[0] = "ot" /\ pc[1] = "ot" /\ pc'[0] = "valid" /\ pc'[1] = "valid"
      /\ campaign \in Campaigns
  BY <1>1 DEF Convert, IntConvert, Server, msg, Lockstep, Shape, TypeOK
<1>3. UsesOT
  BY DEF UsesOT, SumOps
<1>4. /\ DOMAIN pk_list[0] = 1 .. Len(pk_list[1]) /\ DOMAIN pk_list[1] = 1 .. Len(pk_list[1])
      /\ DOMAIN valid[0] = 1 .. Len(pk_list[1])
      /\ \A n \in 1 .. Len(pk_list[1]) :
            /\ pk_list[0][n] = pk_list[1][n]
            /\ pk_list[1][n] \in DOMAIN share_map[1]
            /\ valid[0][n] <=> pk_list[1][n] \in DOMAIN share_map[0]
  BY <1>2, ListedKeys
<1>5. ASSUME NEW n \in Counted(valid[0])
      PROVE  /\ shares_p'[0][n] \in Int /\ shares_p'[1][n] \in Int
             /\ (shares_p'[0][n] + shares_p'[1][n]) % Modulus
                  = Number(Opened[pk_list[0][n]]) % Modulus
  <2>1. n \in DOMAIN pk_list[0] /\ n \in DOMAIN pk_list[1] /\ valid[0][n]
    BY <1>4 DEF Counted
  <2>2. PICK pk : pk = pk_list[0][n] /\ pk = pk_list[1][n] /\ pk \in BothStored
                  /\ HasShare(0, pk) /\ HasShare(1, pk)
    BY <1>4, <2>1 DEF BothStored, HasShare
  <2>3. PICK a \in SUBSET Places : a = share_map[0][pk]
    BY <1>3, <2>2 DEF Computed, PayloadsFit, BothStored, Server
  <2>4. PICK b \in SUBSET Places : b = share_map[1][pk]
    BY <1>3, <2>2 DEF Computed, PayloadsFit, BothStored, Server
  <2>5. Aligned(0, junk)[n] = a /\ Aligned(1, junk)[n] = b
    BY <2>1, <2>2, <2>3, <2>4 DEF Aligned
  <2>6. pads[n] \in [0 .. msg.num_bits - 1 -> Pads]
    BY <2>1
  <2>7. EntryShares(0, a, b, pads[n], shares_p'[0][n]) /\ EntryShares(1, a, b, pads[n], shares_p'[1][n])
    BY <1>1, <2>1, <2>5 DEF IntConvert, EntryShares, Server
  <2>8. Places = 0 .. msg.num_bits - 1
    BY DEF Places
  <2>9. PICK p \in [0 .. msg.num_bits - 1 -> Pads] : p = pads[n]
    BY <2>6
  <2>10. PICK x : x = shares_p'[0][n]
    OBVIOUS
  <2>11. PICK y : y = shares_p'[1][n]
    OBVIOUS
  <2>12. x \in Int /\ y \in Int /\ (x + y) % Modulus = Number(SymDiff(a, b)) % Modulus
    BY <1>2, <2>7, <2>8, <2>9, <2>10, <2>11, EntryOpens
  <2>13. Opened[pk] = SymDiff(a, b)
    BY <2>2, <2>3, <2>4 DEF Opened
  <2> QED
    BY <2>2, <2>10, <2>11, <2>12, <2>13
<1>6. BothStored' = BothStored /\ Opened' = Opened
  BY <1>2 DEF BothStored, Opened
<1>7. EntriesOpen'
  BY <1>2, <1>5, <1>6 DEF EntriesOpen, Counted
<1>8. PayloadsFit'
  BY <1>2 DEF Computed, PayloadsFit, Places, UsesOT, msg
<1>9. Undecided'
  BY <1>2 DEF Computed, Undecided
<1> QED
  BY <1>2, <1>7, <1>8, <1>9 DEF Computed, SumOnTheWire, Aggregated, BitsOpen

\* bit_sum: after bitsum_ot the two sums open to the sum of the counted bits.
LEMMA BitConvertKeepsComputed ==
  ASSUME Lockstep, Computed, Convert, msg.type = "BIT_SUM" PROVE Computed'
<1>1. PICK pads \in [DOMAIN pk_list[0] -> [0 .. msg.num_bits - 1 -> Pads]], junk \in Junk :
         BitConvert(pads, junk)
  BY DEF Convert
<1>2. /\ UNCHANGED <<campaign, share, share_map, to, pk_list, valid, shares_p, result>>
      /\ msg' = msg /\ pc[0] = "ot" /\ pc[1] = "ot" /\ pc'[0] = "sum" /\ pc'[1] = "sum"
      /\ campaign \in Campaigns
  BY <1>1 DEF Convert, BitConvert, Server, msg, Lockstep, Shape, TypeOK
<1>3. UsesOT
  BY DEF UsesOT, SumOps
<1>4. PICK n : n = Len(pk_list[1])
  OBVIOUS
<1>5. /\ DOMAIN pk_list[0] = 1 .. n /\ DOMAIN pk_list[1] = 1 .. n
      /\ Lists(pk_list[0], n, valid[0], BothStored)
      /\ \A j \in 1 .. n :
            /\ pk_list[0][j] = pk_list[1][j]
            /\ pk_list[1][j] \in DOMAIN share_map[1]
            /\ valid[0][j] <=> pk_list[1][j] \in DOMAIN share_map[0]
  BY <1>2, <1>4, ListedKeys
<1>6. PICK F : Numbers(Opened, BothStored, F)
  BY <1>2, <1>3, OpenedNumbers
<1>7. PICK pad : pad = [j \in DOMAIN pk_list[0] |-> pads[j][0]]
  OBVIOUS
<1>8. PICK x0 : x0 = Aligned(0, junk)
  OBVIOUS
<1>9. PICK x1 : x1 = Aligned(1, junk)
  OBVIOUS
<1>10. BitBatch(n, x0, x1, valid[0], pad)
  <2>1. n \in Nat /\ valid[0] \in [1 .. n -> BOOLEAN]
    BY <1>5 DEF Lists
  <2>2. 0 \in 0 .. msg.num_bits - 1
    BY <1>2, PayloadsAssumption DEF msg, SumOps
  <2>3. pad \in [1 .. n -> 0 .. Word - 1]
    BY ZenonT(40), <1>5, <1>7, <2>2, PayloadsAssumption
  <2>4. DOMAIN x0 = 1 .. n /\ DOMAIN x1 = 1 .. n
    BY <1>5, <1>8, <1>9 DEF Aligned
  <2> QED
    BY <2>1, <2>3, <2>4 DEF BitBatch
<1>11. OpensBits(n, valid[0], x0, x1, F, pk_list[0])
  <2> SUFFICES ASSUME NEW j \in 1 .. n, valid[0][j] PROVE F[pk_list[0][j]] = OpenedBit(x0, x1, j)
    BY DEF OpensBits
  <2>1. PICK pk : pk = pk_list[0][j] /\ pk = pk_list[1][j] /\ pk \in BothStored
                  /\ HasShare(0, pk) /\ HasShare(1, pk)
    BY <1>5 DEF BothStored, HasShare
  <2>2. x0[j] = share_map[0][pk] /\ x1[j] = share_map[1][pk]
    BY <1>5, <1>8, <1>9, <2>1 DEF Aligned
  <2>3. PICK bits \in SUBSET {0} : bits = Opened[pk]
    <3>1. Places = {0}
      BY DEF Places
    <3> QED
      BY <1>2, <1>3, <2>1, <3>1, OpenedNumbers
  <2>4. Number(bits) = Bit(bits, 0)
    BY BitValue DEF Number, BitsValue
  <2>5. F[pk] = Number(Opened[pk])
    BY <1>6, <2>1 DEF Numbers
  <2>6. Opened[pk] = SymDiff(x0[j], x1[j])
    BY <2>1, <2>2 DEF Opened
  <2> QED
    BY <2>1, <2>3, <2>4, <2>5, <2>6 DEF OpenedBit
<1>12. PICK mod \in Nat : mod = 0
  OBVIOUS
<1>13. PICK messages : messages = BitMessages(x0, valid[0], pad, mod)
  OBVIOUS
<1>14. PICK s, r \in Int : /\ s = BitSenderSum(x0, valid[0], pad, mod)
                           /\ r = BitReceiverSum(x1, messages, mod)
                           /\ (s + r) % Word = SumOf(Opened, BothStored) % Word
  <2>1. PICK flags : flags = valid[0]
    OBVIOUS
  <2>2. PICK g : g = pk_list[0]
    OBVIOUS
  <2>3. PICK K : K = BothStored
    OBVIOUS
  <2>4. PICK values : values = Opened
    OBVIOUS
  <2>5. /\ Lists(g, n, flags, K) /\ Numbers(values, K, F) /\ BitBatch(n, x0, x1, flags, pad)
        /\ OpensBits(n, flags, x0, x1, F, g) /\ messages = BitMessages(x0, flags, pad, mod)
    BY <1>5, <1>6, <1>10, <1>11, <1>13, <2>1, <2>2, <2>3, <2>4
  <2>6. \E s, r \in Int : /\ s = BitSenderSum(x0, flags, pad, mod)
                          /\ r = BitReceiverSum(x1, messages, mod)
                          /\ (s + r) % Word = SumOf(values, K) % Word
    BY <1>12, <2>5, BitsAddUp
  <2> QED
    BY <2>1, <2>3, <2>4, <2>6
<1>15. acc'[0] = s /\ acc'[1] = r
  BY <1>1, <1>7, <1>8, <1>9, <1>12, <1>13, <1>14 DEF BitConvert, Server
<1>16. BothStored' = BothStored /\ Opened' = Opened
  BY <1>2 DEF BothStored, Opened
<1>17. BitsOpen'
  BY <1>2, <1>14, <1>15, <1>16 DEF BitsOpen
<1>18. PayloadsFit'
  BY <1>2 DEF Computed, PayloadsFit, Places, UsesOT, msg
<1>19. Undecided'
  BY <1>2 DEF Computed, Undecided
<1> QED
  BY <1>2, <1>17, <1>18, <1>19 DEF Computed, SumOnTheWire, Aggregated, EntriesOpen

-----------------------------------------------------------------------------
(* Validity and aggregation *)

\* Nothing stored, listed or converted changes after the conversion.
LEMMA LateComputed ==
  ASSUME Lockstep, Computed,
         UNCHANGED <<campaign, share, share_map, pk_list, shares_p>>, valid'[0] = valid[0],
         pc[0] \in {"valid", "sum", "done"}
  PROVE  /\ msg' = msg /\ PayloadsFit' /\ EntriesOpen'
         /\ Opened' = Opened /\ BothStored' = BothStored
         /\ OwnAggregate(0)' = OwnAggregate(0) /\ OwnAggregate(1)' = OwnAggregate(1)
<1>1. msg' = msg
  BY DEF msg
<1>2. PayloadsFit'
  BY <1>1 DEF Computed, PayloadsFit, Places, UsesOT
<1>3. BothStored' = BothStored /\ Opened' = Opened
  BY DEF BothStored, Opened
<1>4. EntriesOpen'
  BY <1>1, <1>3 DEF Computed, EntriesOpen, Counted
<1>5. OwnAggregate(0)' = OwnAggregate(0) /\ OwnAggregate(1)' = OwnAggregate(1)
  BY <1>1 DEF OwnAggregate, Counted, UsesOT
<1> QED
  BY <1>1, <1>2, <1>3, <1>4, <1>5

\* Server 0 aggregates by the flags it sends.
LEMMA SendValidKeepsComputed == ASSUME Lockstep, Computed, SendValid PROVE Computed'
<1>1. /\ UNCHANGED <<campaign, share, share_map, pk_list, valid, shares_p, result>>
      /\ pc[0] = "valid" /\ pc'[0] = "sum" /\ pc'[1] = pc[1]
      /\ acc'[0] = Accumulate(0, valid[0])
  BY DEF SendValid, Lockstep, Shape, TypeOK, Server
<1>2. msg.type # "BIT_SUM" /\ pc[1] # "done"
  BY <1>1 DEF Lockstep, Phases, Before
<1>3. /\ msg' = msg /\ PayloadsFit' /\ EntriesOpen'
      /\ OwnAggregate(0)' = OwnAggregate(0)
  BY <1>1, LateComputed
<1>4. Accumulate(0, valid[0]) = OwnAggregate(0)
  BY DEF Accumulate, OwnAggregate, SumModulo
<1> QED
  BY <1>1, <1>2, <1>3, <1>4 DEF Computed, Undecided, SumOnTheWire, Aggregated, BitsOpen

\* Server 1 aggregates by the flags it reads, and sends the aggregate.
LEMMA RecvValidKeepsComputed == ASSUME Lockstep, Computed, RecvValid PROVE Computed'
<1>1. /\ UNCHANGED <<campaign, share, share_map, pk_list, shares_p, result>> /\ msg' = msg
      /\ pc[1] = "valid" /\ pc'[1] = "done" /\ pc'[0] = pc[0]
      /\ valid'[0] = valid[0] /\ acc'[0] = acc[0]
      /\ acc'[1] = Accumulate(1, valid'[1])
      /\ to' = [to EXCEPT ![0] = Append(@, Message("sum", acc'[1]))]
  BY DEF RecvValid, Lockstep, Shape, TypeOK, Server, msg
<1>2. valid'[1] = valid[0] /\ msg.type # "BIT_SUM"
  <2>1. msg.type # "BIT_SUM"
    BY <1>1 DEF Lockstep, Phases
  <2>2. valid'[1] = valid'[0]
    BY <1>1, <2>1, RecvValidKeepsLockstep DEF Lockstep, KeysListed
  <2> QED
    BY <1>1, <2>1, <2>2
<1>3. pc[0] \in {"sum", "done"}
  BY <1>1, RecvValidKeepsLockstep DEF Lockstep, Phases
<1>4. /\ PayloadsFit' /\ EntriesOpen'
      /\ OwnAggregate(0)' = OwnAggregate(0) /\ OwnAggregate(1)' = OwnAggregate(1)
  BY <1>1, <1>3, LateComputed
<1>5. Accumulate(1, valid[0]) = OwnAggregate(1)
  BY DEF Accumulate, OwnAggregate, SumModulo
<1>6. SumOnTheWire'
  <2>1. Len(to[0]) = Len(pk_list[1]) + 1 /\ Len(pk_list[1]) \in Nat
    BY <1>1 DEF Lockstep, Streams, Shape, Server
  <2>2. to'[0] = Append(to[0], Message("sum", acc'[1]))
    BY <1>1 DEF Lockstep, Shape, Server
  <2>3. to'[0][Len(pk_list[1]) + 2] = Message("sum", acc'[1])
    <3>1. Len(to[0]) + 1 = Len(pk_list[1]) + 2
      BY <2>1
    <3>2. PICK q : q = to[0]
      OBVIOUS
    <3>3. Len(q) \in Nat /\ q = [k \in 1 .. Len(q) |-> q[k]]
      BY <2>1, <3>2 DEF Lockstep, Shape, Server
    <3>4. PICK e : e = Message("sum", acc'[1])
      OBVIOUS
    <3>5. Append(q, e)[Len(q) + 1] = e
      BY <3>3, AppendToStream
    <3> QED
      BY <2>2, <3>1, <3>2, <3>4, <3>5
  <2>4. pk_list' = pk_list /\ Message("sum", acc'[1]).val = acc'[1]
    BY <1>1 DEF Message
  <2> QED
    BY <2>3, <2>4 DEF SumOnTheWire
<1> QED
  BY <1>1, <1>2, <1>3, <1>4, <1>5, <1>6 DEF Computed, Undecided, Aggregated, BitsOpen

\* bit_sum: server 1 sends the sum its conversion left.
LEMMA SendBitSumKeepsComputed == ASSUME Lockstep, Computed, SendBitSum PROVE Computed'
<1>1. /\ UNCHANGED <<campaign, share, share_map, pk_list, valid, shares_p, acc, result>> /\ msg' = msg
      /\ pc[1] = "sum" /\ pc'[1] = "done" /\ pc'[0] = pc[0]
      /\ to' = [to EXCEPT ![0] = Append(@, Message("sum", acc[1]))]
  BY DEF SendBitSum, Lockstep, Shape, TypeOK, Server, msg
<1>2. msg.type = "BIT_SUM" /\ pc[0] \in {"sum", "done"}
  BY <1>1, SendBitSumKeepsLockstep DEF Lockstep, Phases
<1>3. PayloadsFit' /\ EntriesOpen' /\ Opened' = Opened /\ BothStored' = BothStored
  BY <1>1, <1>2, LateComputed
<1>6. SumOnTheWire'
  <2>1. Len(to[0]) = Len(pk_list[1]) + 1 /\ Len(pk_list[1]) \in Nat
    BY <1>1 DEF Lockstep, Streams, Shape, Server
  <2>2. to'[0] = Append(to[0], Message("sum", acc[1]))
    BY <1>1 DEF Lockstep, Shape, Server
  <2>3. to'[0][Len(pk_list[1]) + 2] = Message("sum", acc[1])
    <3>1. Len(to[0]) + 1 = Len(pk_list[1]) + 2
      BY <2>1
    <3>2. PICK q : q = to[0]
      OBVIOUS
    <3>3. Len(q) \in Nat /\ q = [k \in 1 .. Len(q) |-> q[k]]
      BY <2>1, <3>2 DEF Lockstep, Shape, Server
    <3>4. PICK e : e = Message("sum", acc[1])
      OBVIOUS
    <3>5. Append(q, e)[Len(q) + 1] = e
      BY <3>3, AppendToStream
    <3> QED
      BY <2>2, <3>1, <3>2, <3>4, <3>5
  <2>4. pk_list' = pk_list /\ Message("sum", acc[1]).val = acc'[1]
    BY <1>1 DEF Message
  <2> QED
    BY <2>3, <2>4 DEF SumOnTheWire
<1> QED
  BY <1>1, <1>2, <1>3, <1>6 DEF Computed, Undecided, Aggregated, BitsOpen

\* The report changes none of what it is computed from.
LEMMA RecvSumKeepsComputed == ASSUME Lockstep, Computed, RecvSum PROVE Computed'
<1>1. /\ UNCHANGED <<campaign, share, share_map, to, pk_list, valid, shares_p, acc>> /\ msg' = msg
      /\ pc[0] = "sum" /\ pc'[0] = "done" /\ pc'[1] = pc[1]
  BY DEF RecvSum, Lockstep, Shape, TypeOK, Server, msg
<1>2. /\ PayloadsFit' /\ EntriesOpen' /\ Opened' = Opened /\ BothStored' = BothStored
      /\ OwnAggregate(0)' = OwnAggregate(0) /\ OwnAggregate(1)' = OwnAggregate(1)
  BY <1>1, LateComputed
<1> QED
  BY <1>1, <1>2 DEF Computed, Undecided, SumOnTheWire, Aggregated, BitsOpen

\* Every step keeps the invariant.
LEMMA StepKeepsComputed ==
  (msg.type = "INT_SUM" => ModulusFits) /\ Lockstep /\ Computed /\ [Next]_vars => Computed'
<1> SUFFICES ASSUME msg.type = "INT_SUM" => ModulusFits, Lockstep, Computed, [Next]_vars
             PROVE  Computed'
  OBVIOUS
<1>1. CASE UNCHANGED vars
  BY <1>1, IdleKeepsComputed DEF vars
<1>2. CASE ClientStep
  BY <1>2, IdleKeepsComputed DEF ClientStep, Close, SendShare
<1>3. CASE Server0Step
  BY <1>3, RecvKeepsComputed, LiningUpKeepsComputed, SendValidKeepsComputed,
     RecvSumKeepsComputed DEF Server0Step, Server
<1>4. CASE Server1Step
  BY <1>4, RecvKeepsComputed, LiningUpKeepsComputed, RecvValidKeepsComputed,
     SendBitSumKeepsComputed DEF Server1Step, Server
<1>5. CASE Convert
  <2>1. msg.type \in {"BIT_SUM", "INT_SUM"}
    <3>1. pc[0] = "ot"
      BY <1>5 DEF Convert, Server
    <3>2. UsesOT
      BY <3>1 DEF Lockstep, Phases, Before, UsesOT, SumOps
    <3> QED
      BY <3>2 DEF UsesOT, SumOps
  <2> QED
    BY <1>5, <2>1, IntConvertKeepsComputed, BitConvertKeepsComputed
<1> QED
  BY <1>1, <1>2, <1>3, <1>4, <1>5 DEF Next

-----------------------------------------------------------------------------
(* The refinement *)

\* The abstract operators are those the servers compute with.
LEMMA AbstractSets ==
  /\ Abstract!Server = Server /\ Abstract!Pending = Pending
  /\ Abstract!SumOps = SumOps /\ Abstract!XorOps = XorOps
  BY DEF Abstract!Server, Server, Abstract!Pending, Pending, Abstract!SumOps, SumOps,
         Abstract!XorOps, XorOps, Abstract!MaxOps, MaxOps

\* So are the ones that read off the XOR.
LEMMA AbstractXor ==
  ASSUME NEW payloads, NEW S, NEW m
  PROVE  Abstract!Decode(m, Abstract!XorAll(payloads, S)) = Decode(m, XorAll(payloads, S))
<1>1. Abstract!XorAll(payloads, S) = XorAll(payloads, S)
  BY DEF Abstract!XorAll, XorAll, Abstract!Cardinality, Cardinality
<1>2. ASSUME NEW xor PROVE Abstract!Decode(m, xor) = Decode(m, xor)
  BY DEF Abstract!Decode, Decode, Abstract!Max, Max, Abstract!MaxOps, MaxOps,
         Abstract!Answer, Answer, Abstract!Runaway, Runaway
<1> QED
  BY <1>1, <1>2

\* Finitely many inputs are listed, and stored.
LEMMA StoredFinite == Lockstep => Total_inputs \in Nat /\ IsFiniteSet(BothStored)
<1> SUFFICES ASSUME Lockstep PROVE Total_inputs \in Nat /\ IsFiniteSet(BothStored)
  OBVIOUS
<1>1. Total_inputs \in Nat /\ \A s \in Server : IsFiniteSet(DOMAIN share_map[s])
  BY TotalIsNat DEF Lockstep, Shape, TypeOK
<1>2. BothStored \in SUBSET DOMAIN share_map[0]
  BY DEF BothStored
<1> QED
  BY <1>1, <1>2, FS_Subset DEF Server

\* What the abstract operation decides, in terms of the opened payloads.
LEMMA AbstractOutcome ==
  ASSUME Total_inputs \in Nat, IsFiniteSet(BothStored)
  PROVE  Abstract!Outcome =
    IF BelowThreshold(Cardinality(BothStored), msg.num_of_inputs) THEN Invalid
    ELSE IF msg.type \in SumOps
    THEN Answer(SumOf(Opened, BothStored) % SumModulus(msg.type))
    ELSE Decode(msg, XorAll(Opened, BothStored))
<1>1. Abstract!Common = BothStored
  BY DEF Abstract!Common, BothStored
<1>2. Abstract!Value = Opened
  BY <1>1 DEF Abstract!Value, Opened, Abstract!SymDiff, SymDiff
<1>3. Abstract!MostLost <=> BelowThreshold(Cardinality(BothStored), msg.num_of_inputs)
  <2>1. PICK n : n = Cardinality(BothStored)
    OBVIOUS
  <2>2. n \in Nat /\ msg.num_of_inputs \in Nat
    BY <2>1, FS_CardinalityType DEF Total_inputs
  <2>3. Abstract!MostLost <=> msg.num_of_inputs - n > n
    BY <1>1, <2>1 DEF Abstract!MostLost, Abstract!Cardinality, Cardinality
  <2> QED
    BY <2>1, <2>2, <2>3 DEF BelowThreshold
<1>4. Abstract!Answer(Abstract!MapThenSumSet(LAMBDA pk : Abstract!Number(Abstract!Value[pk]),
                                              Abstract!Common) % Abstract!SumModulus(msg.type))
        = Answer(SumOf(Abstract!Value, Abstract!Common) % SumModulus(msg.type))
  BY DEF SumOf, Abstract!Answer, Answer, Abstract!SumModulus, SumModulus, Abstract!Number, Number,
         Abstract!MapThenSumSet, MapThenSumSet, Abstract!MapThenFoldSet, MapThenFoldSet
<1>5. Abstract!Decode(msg, Abstract!XorAll(Abstract!Value, Abstract!Common))
        = Decode(msg, XorAll(Opened, BothStored))
  BY <1>1, <1>2, AbstractXor
<1>6. Abstract!Invalid = Invalid
  BY DEF Abstract!Invalid, Invalid
<1> HIDE DEF Opened
<1> QED
  BY <1>1, <1>2, <1>3, <1>4, <1>5, <1>6, AbstractSets DEF Abstract!Outcome

\* The two aggregates combine to the abstract verdict's answer.
LEMMA AggregatesCombine ==
  ASSUME Lockstep, Computed, pc[0] = "sum", pc[1] = "done"
  PROVE  Combine(acc[1]) =
           IF msg.type \in SumOps
           THEN Answer(SumOf(Opened, BothStored) % SumModulus(msg.type))
           ELSE Decode(msg, XorAll(Opened, BothStored))
<1>0. msg.type \in SumOps \cup XorOps /\ (UsesOT <=> msg.type \in SumOps)
  BY TypeKnown DEF Lockstep, Shape, TypeOK
<1>1. CASE msg.type = "BIT_SUM"
  <2>1. (acc[0] + acc[1]) % Word = SumOf(Opened, BothStored) % Word
    BY <1>1 DEF Computed, BitsOpen
  <2>2. Combine(acc[1]) = Answer((acc[0] + acc[1]) % Word)
    BY <1>1 DEF Combine, Wrap
  <2> QED
    BY <1>1, <2>1, <2>2 DEF SumOps, SumModulus
<1>2. PICK n : n = Len(pk_list[1])
  OBVIOUS
<1>3. PICK g : g = pk_list[0]
  OBVIOUS
<1>4. PICK flags : flags = valid[0]
  OBVIOUS
<1>5. PICK K : K = BothStored
  OBVIOUS
<1>6. PICK values : values = Opened
  OBVIOUS
<1>7. /\ Lists(g, n, flags, K) /\ DOMAIN flags = 1 .. n
      /\ \A j \in 1 .. n : pk_list[1][j] = g[j]
  BY <1>2, <1>3, <1>4, <1>5, ListedKeys
<1>8. \A j \in 1 .. n : flags[j] => g[j] \in K
  BY <1>7 DEF Lists
<1>9. CASE msg.type = "INT_SUM"
  <2>1. PICK sh0 : sh0 = shares_p[0]
    OBVIOUS
  <2>2. PICK sh1 : sh1 = shares_p[1]
    OBVIOUS
  <2>3. UsesOT
    BY <1>9 DEF UsesOT, SumOps
  <2>4. acc[0] = SumModulo(sh0, flags) /\ acc[1] = SumModulo(sh1, flags)
    BY <1>4, <1>9, <2>1, <2>2, <2>3 DEF Computed, Aggregated, OwnAggregate
  <2>5. PICK F : Numbers(values, K, F)
    BY <1>5, <1>6, <2>3, OpenedNumbers
  <2>6. ASSUME NEW j \in 1 .. n, flags[j]
        PROVE  sh0[j] \in Int /\ sh1[j] \in Int /\ Cong(sh0[j] + sh1[j], F[g[j]], Modulus)
    <3>1. PICK m \in Nat \ {0} : m = Modulus
      BY ModulusAssumption
    <3>2. j \in Counted(valid[0])
      BY <1>4, <1>7, <2>6 DEF Counted
    <3>3. F[g[j]] = Number(values[g[j]]) /\ F[g[j]] \in Int
      BY <1>8, <2>5, <2>6 DEF Numbers, Summable
    <3>4. /\ sh0[j] \in Int /\ sh1[j] \in Int
          /\ (sh0[j] + sh1[j]) % m = F[g[j]] % m
      BY <1>3, <1>6, <1>9, <2>1, <2>2, <3>1, <3>2, <3>3 DEF Computed, EntriesOpen
    <3>5. PICK z \in Int : z = sh0[j] + sh1[j]
      BY <3>4
    <3>6. PICK v \in Int : v = F[g[j]]
      BY <3>3
    <3>7. PICK r \in Int : r = z % m /\ r = v % m
      BY <3>4, <3>5, <3>6, ModRange
    <3>8. Cong(r, z, m) /\ Cong(r, v, m)
      BY <3>7, ModCong
    <3>9. Cong(z, v, m)
      <4>1. Cong(z, r, m)
        BY <3>8, CongSym
      <4> QED
        BY <3>8, <4>1, CongTrans
    <3> QED
      BY <3>1, <3>4, <3>5, <3>6, <3>9
  <2>7. Addends(n, sh0, flags) /\ Addends(n, sh1, flags) /\ Opens(n, flags, sh0, sh1, F, g)
    <3>1. n \in Nat
      BY <1>7 DEF Lists
    <3> QED
      BY <1>7, <2>6, <3>1 DEF Addends, Opens
  <2>8. (SumModulo(sh0, flags) + SumModulo(sh1, flags)) % Modulus = SumOf(values, K) % Modulus
    BY <1>7, <2>5, <2>7, SharesAddUp
  <2>9. Combine(acc[1]) = Answer((acc[0] + acc[1]) % Modulus)
    BY <1>9 DEF Combine
  <2> QED
    BY <1>5, <1>6, <1>9, <2>4, <2>8, <2>9 DEF SumOps, SumModulus
<1>10. CASE msg.type \in XorOps
  <2>1. ~UsesOT /\ msg.type # "BIT_SUM" /\ msg.type # "INT_SUM" /\ msg.type \notin SumOps
    BY <1>10 DEF UsesOT, SumOps, XorOps, MaxOps
  <2>2. PICK T : T = Marked(n, flags)
    OBVIOUS
  <2>3. Counted(valid[0]) = T
    BY <1>4, <1>7, <2>2 DEF Counted, Marked
  <2>4. PICK v0 : v0 = share_map[0]
    OBVIOUS
  <2>5. PICK v1 : v1 = share_map[1]
    OBVIOUS
  <2>6. PICK f0 : f0 = [j \in T |-> v0[g[j]]]
    OBVIOUS
  <2>7. PICK f1 : f1 = [j \in T |-> v1[g[j]]]
    OBVIOUS
  <2>8. acc[0] = XorAll(f0, T)
    BY <1>3, <2>1, <2>3, <2>4, <2>6 DEF Computed, Aggregated, OwnAggregate
  <2>9. acc[1] = XorAll(f1, T)
    <3>1. f1 = [j \in T |-> share_map[1][pk_list[1][j]]]
      BY <1>7, <2>2, <2>5, <2>7 DEF Marked
    <3> QED
      BY <2>1, <2>3, <3>1 DEF Computed, Aggregated, OwnAggregate
  <2>10. XorAll(f0, T) = XorAll(v0, K) /\ XorAll(f1, T) = XorAll(v1, K)
    <3>1. ByKey(n, flags, f0, g, v0) /\ ByKey(n, flags, f1, g, v1)
      BY <2>2, <2>6, <2>7 DEF ByKey, Marked
    <3> QED
      BY <1>7, <2>2, <3>1, XorOfKeys
  <2>11. IsFiniteSet(K)
    BY <1>7, ListsCount
  <2>12. \A pk \in K : values[pk] = SymDiff(v0[pk], v1[pk])
    BY <1>5, <1>6, <2>4, <2>5 DEF Opened
  <2>13. SymDiff(XorAll(v0, K), XorAll(v1, K)) = XorAll(values, K)
    BY <2>11, <2>12, XorOfShares
  <2>14. Combine(acc[1]) = Decode(msg, SymDiff(acc[0], acc[1]))
    BY <2>1 DEF Combine
  <2>15. Combine(acc[1]) = Decode(msg, XorAll(values, K))
    BY <2>8, <2>9, <2>10, <2>13, <2>14
  <2> QED
    BY <1>5, <1>6, <2>1, <2>15
<1> QED
  BY <1>0, <1>1, <1>9, <1>10 DEF SumOps

\* Server 0's report is the abstract decision.
LEMMA ReportDecides ==
  ASSUME Lockstep, Computed, RecvSum
  PROVE  Abstract!Decide
<1>1. /\ pc[0] = "sum" /\ CanRead(0, "sum") /\ UNCHANGED <<campaign, share_map>> /\ msg' = msg
      /\ result' = IF BelowThreshold(Cardinality(Counted(valid[0])), Total_inputs)
                   THEN Invalid ELSE Combine(Incoming(0))
  BY DEF RecvSum, msg
<1>2. result = Pending
  BY <1>1 DEF Computed, Undecided
<1>3. Len(pk_list[1]) \in Nat /\ rcvd[0] = Len(pk_list[1]) + 1 /\ pc[1] # "recv"
  <2>1. Len(pk_list[1]) \in Nat
    BY DEF Lockstep, Shape, Server
  <2>2. Len(valid[0]) = Len(pk_list[1]) /\ pc[1] # "recv"
    BY <1>1 DEF Lockstep, KeysListed, Phases
  <2> QED
    BY <1>1, <2>1, <2>2 DEF Lockstep, Streams
<1>4. pc[1] = "done"
  <2>1. Len(to[0]) > Len(pk_list[1]) + 1
    BY <1>1, <1>3 DEF CanRead, Lockstep, Shape, Server
  <2> QED
    BY <1>3, <2>1 DEF Lockstep, Streams
<1>5. Incoming(0) = acc[1]
  <2>1. rcvd[0] + 1 = Len(pk_list[1]) + 2
    BY <1>3
  <2> QED
    BY <1>4, <2>1 DEF Incoming, Computed, SumOnTheWire
<1>6. Cardinality(Counted(valid[0])) = Cardinality(BothStored)
  <2>1. PICK n : n = Len(pk_list[1])
    OBVIOUS
  <2>2. PICK g : g = pk_list[0]
    OBVIOUS
  <2>3. PICK flags : flags = valid[0]
    OBVIOUS
  <2>4. PICK K : K = BothStored
    OBVIOUS
  <2>5. Lists(g, n, flags, K) /\ DOMAIN flags = 1 .. n
    BY <1>1, <2>1, <2>2, <2>3, <2>4, ListedKeys
  <2>6. PICK Q \in SUBSET K : Q = K
    OBVIOUS
  <2>7. Cardinality(MarkedIn(n, flags, g, Q)) = Cardinality(Q)
    BY <2>5, ListsCount
  <2>8. Counted(flags) = MarkedIn(n, flags, g, Q)
    BY <2>5, <2>6 DEF Counted, Lists, MarkedIn
  <2> QED
    BY <2>3, <2>4, <2>6, <2>7, <2>8
<1>7. result' = Abstract!Outcome
  BY <1>1, <1>4, <1>5, <1>6, StoredFinite, AggregatesCombine, AbstractOutcome DEF Total_inputs
<1> QED
  BY <1>1, <1>2, <1>7, AbstractSets DEF Abstract!Decide

\* Reading a share stores it first-come, or stores nothing.
LEMMA RecvStores ==
  ASSUME Lockstep, Computed, NEW s \in Server, Recv(s)
  PROVE  Abstract!Store(s) \/ UNCHANGED <<msg, share_map, result>>
<1>1. /\ pc[s] = "recv" /\ result' = result /\ msg' = msg
      /\ share_map' = [share_map EXCEPT ![s] = Keep(@, share'[s])]
  BY DEF Recv, msg
<1>2. DOMAIN share_map = Server /\ share_map = [t \in Server |-> share_map[t]]
  BY DEF Lockstep, Shape
<1>3. result = Pending
  BY <1>1 DEF Computed, Undecided, Lockstep, Phases, Server
<1>4. share_map'[s] = Keep(share_map[s], share'[s]) /\ \A t \in Server \ {s} : share_map'[t] = share_map[t]
  BY <1>1, <1>2
<1>5. CASE share'[s].pk \in DOMAIN share_map[s] \/ OutOfRange(share'[s].val)
  <2>1. share_map'[s] = share_map[s]
    BY <1>4, <1>5 DEF Keep
  <2>2. share_map' = share_map
    BY <1>1, <1>2, <1>4, <2>1
  <2> QED
    BY <1>1, <2>2
<1>6. CASE ~(share'[s].pk \in DOMAIN share_map[s] \/ OutOfRange(share'[s].val))
  <2>1. PICK pk : pk = share'[s].pk
    OBVIOUS
  <2>2. /\ pk \notin DOMAIN share_map[s]
        /\ DOMAIN share_map'[s] = DOMAIN share_map[s] \cup {pk}
        /\ \A q \in DOMAIN share_map[s] : share_map'[s][q] = share_map[s][q]
    BY <1>4, <1>6, <2>1 DEF Keep
  <2> QED
    BY <1>1, <1>3, <1>4, <2>2, AbstractSets DEF Abstract!Store
<1> QED
  BY <1>5, <1>6

\* Every step is one of the abstract operation or changes nothing it sees.
LEMMA StepRefines ==
  Lockstep /\ Computed /\ [Next]_vars => [Abstract!Next]_(Abstract!vars)
<1> SUFFICES ASSUME Lockstep, Computed, [Next]_vars
             PROVE  Abstract!Next \/ UNCHANGED <<msg, share_map, result>>
  BY DEF Abstract!vars
<1>1. CASE UNCHANGED vars
  BY <1>1 DEF vars, msg
<1>2. CASE ClientStep
  BY <1>2 DEF ClientStep, Close, SendShare, msg
<1>3. CASE Recv(0) \/ Recv(1)
  BY <1>3, RecvStores, AbstractSets DEF Abstract!Next, Server
<1>4. CASE RecvSum
  BY <1>4, ReportDecides DEF Abstract!Next
<1>5. CASE RecvSize \/ RecvPk \/ SendValid \/ SendPks \/ RecvValid \/ SendBitSum
  BY <1>5 DEF RecvSize, RecvPk, SendValid, SendPks, RecvValid, SendBitSum, msg
<1>6. CASE Convert
  BY <1>6 DEF Convert, msg
<1> QED
  BY <1>1, <1>2, <1>3, <1>4, <1>5, <1>6 DEF Next, Server0Step, Server1Step

\* Nothing stored, nothing decided.
LEMMA InitRefines == Init => Abstract!Init
<1> SUFFICES ASSUME Init PROVE Abstract!Init
  OBVIOUS
<1>1. msg.type \in SumOps \cup XorOps
  BY TypeKnown DEF Init
<1> QED
  BY <1>1, AbstractSets DEF Init, Abstract!Init

\* bit_sum, int_sum, xor_op and max_op implement the abstract operation: their
\* exchange stores shares first-come and decides once, by both maps' contents.
THEOREM RefinesAggregate ==
  ASSUME ModulusFits
  PROVE  Spec => ImplementsAggregate
<1>1. Spec => []Computed
  BY InitComputed, StepKeepsComputed, InitLockstep, StepKeepsLockstep, PTL DEF Spec
<1> QED
  BY <1>1, ServersInLockstep, InitRefines, StepRefines, PTL DEF Spec, ImplementsAggregate, Abstract!Spec

-----------------------------------------------------------------------------
(* What server 0 returns, in terms of what both servers have stored *)

Verdict ==
    IF BelowThreshold(Cardinality(BothStored), Total_inputs) THEN Invalid
    ELSE IF msg.type \in SumOps
    THEN Answer(SumOf(Opened, BothStored) % SumModulus(msg.type))
    ELSE Decode(msg, XorAll(Opened, BothStored))
Reported == result = IF pc[0] = "done" THEN Verdict ELSE Pending

\* Both hold whatever the modulus, unless it is too small for the conversion.
Reliable == (msg.type = "INT_SUM" => ModulusFits) => Computed /\ Reported

\* No step changes what the client set out to send.
LEMMA CampaignKept == [Next]_vars => campaign' = campaign /\ msg' = msg
  BY DEF Next, ClientStep, Close, SendShare, Server0Step, Server1Step, Recv, RecvSize, RecvPk,
         SendValid, RecvSum, SendPks, RecvValid, SendBitSum, Convert, vars, msg

\* The verdict is about what does not change any more.
LEMMA StepKeepsReported == Lockstep /\ Computed /\ Reported /\ [Next]_vars => Reported'
<1> SUFFICES ASSUME Lockstep, Computed, Reported, [Next]_vars PROVE Reported'
  OBVIOUS
<1>1. ASSUME UNCHANGED <<campaign, share_map>> PROVE Verdict' = Verdict
  <2>1. msg' = msg /\ Total_inputs' = Total_inputs
    BY <1>1 DEF msg, Total_inputs
  <2>2. BothStored' = BothStored /\ Opened' = Opened
    BY <1>1 DEF BothStored, Opened
  <2> QED
    BY <2>1, <2>2 DEF Verdict
<1>2. ASSUME UNCHANGED <<campaign, share_map, result>>, pc'[0] = "done" <=> pc[0] = "done"
      PROVE  Reported'
  BY <1>1, <1>2 DEF Reported
<1>3. pc \in [Server -> {"recv", "pks", "ot", "valid", "sum", "done"}]
  BY DEF Lockstep, Shape, TypeOK
<1>4. CASE UNCHANGED vars \/ ClientStep
  BY <1>2, <1>4 DEF vars, ClientStep, Close, SendShare
<1>5. CASE Recv(0) \/ Recv(1)
  <2>1. pc[0] # "done" /\ pc' = pc /\ result' = result
    BY <1>5 DEF Recv, Lockstep, Phases
  <2> QED
    BY <2>1 DEF Reported
<1>6. CASE RecvSum
  <2>1. pc'[0] = "done" /\ UNCHANGED <<campaign, share_map>>
    BY <1>3, <1>6 DEF RecvSum, Server
  <2>2. result' = Verdict
    BY <1>6, ReportDecides, StoredFinite, AbstractOutcome DEF Abstract!Decide, Verdict, Total_inputs
  <2> QED
    BY <1>1, <2>1, <2>2 DEF Reported
<1>7. CASE RecvSize
  BY <1>2, <1>3, <1>7 DEF RecvSize, AfterPks, Server
<1>8. CASE RecvPk
  BY <1>2, <1>3, <1>8 DEF RecvPk, AfterPks, Server
<1>9. CASE SendValid
  BY <1>2, <1>3, <1>9 DEF SendValid, Server
<1>10. CASE SendPks \/ RecvValid \/ SendBitSum
  BY <1>2, <1>3, <1>10 DEF SendPks, RecvValid, SendBitSum, Server
<1>11. CASE Convert
  BY <1>2, <1>3, <1>11 DEF Convert, BitConvert, IntConvert, Server
<1> QED
  BY <1>4, <1>5, <1>6, <1>7, <1>8, <1>9, <1>10, <1>11 DEF Next, Server0Step, Server1Step

\* Server 0 returns the verdict.
LEMMA ReliableHolds == Spec => []Reliable
<1>1. Init => Reliable
  <2>1. Init => pc[0] = "recv" /\ result = Pending
    BY DEF Init, Server
  <2> QED
    BY <2>1, InitComputed DEF Reliable, Reported
<1>2. Lockstep /\ Reliable /\ [Next]_vars => Reliable'
  <2> SUFFICES ASSUME Lockstep, Reliable, [Next]_vars, (msg.type = "INT_SUM" => ModulusFits)'
               PROVE  Computed' /\ Reported'
    BY DEF Reliable
  <2>1. msg.type = "INT_SUM" => ModulusFits
    BY CampaignKept DEF ModulusFits
  <2> QED
    BY <2>1, StepKeepsComputed, StepKeepsReported DEF Reliable
<1> QED
  BY <1>1, <1>2, ServersInLockstep, PTL DEF Spec

-----------------------------------------------------------------------------
(* Which submissions are stored: the first of each key, once a share is read *)

First(s, k) ==
    /\ ~OutOfRange(campaign.shares[k][s].val)
    /\ \A n \in 1 .. k - 1 : campaign.shares[n][s].pk = campaign.shares[k][s].pk =>
                                OutOfRange(campaign.shares[n][s].val)

\* An entry is a share read; whatever was read and fits has its key stored.
OnlyFirst(s) ==
    \A pk \in DOMAIN share_map[s] : \E k \in 1 .. taken[s] :
        /\ campaign.shares[k][s].pk = pk /\ share_map[s][pk] = campaign.shares[k][s].val
        /\ First(s, k)
AllRead(s) ==
    \A k \in 1 .. taken[s] : OutOfRange(campaign.shares[k][s].val)
                             \/ campaign.shares[k][s].pk \in DOMAIN share_map[s]

\* A pass of the loop that reads nothing finds the client gone and all read.
FirstCome ==
    \A s \in Server : /\ taken[s] > 0 => OnlyFirst(s) /\ AllRead(s)
                      /\ i[s] > taken[s] => client = "closed" /\ taken[s] = sent[s]

\* A share read is stored unless its key is, or it does not fit.
LEMMA KeepFirst ==
  ASSUME NEW s \in Server, NEW k \in Nat, OnlyFirst(s), AllRead(s), taken[s] = k,
         UNCHANGED campaign, taken'[s] = k + 1,
         share_map'[s] = Keep(share_map[s], campaign.shares[k + 1][s])
  PROVE  OnlyFirst(s)' /\ AllRead(s)'
<1>1. PICK sh : sh = campaign.shares[k + 1][s]
  OBVIOUS
<1>2. \A val : OutOfRange(val)' <=> OutOfRange(val)
  BY DEF OutOfRange, msg
<1>3. \A n : First(s, n)' <=> First(s, n)
  BY <1>2 DEF First
<1>4. /\ 1 .. taken[s] \subseteq 1 .. taken'[s] /\ k + 1 \in 1 .. taken'[s]
      /\ \A n \in 1 .. taken'[s] : n \in 1 .. taken[s] \/ n = k + 1
  OBVIOUS
<1>5. CASE sh.pk \in DOMAIN share_map[s] \/ OutOfRange(sh.val)
  <2>1. share_map'[s] = share_map[s]
    BY <1>1, <1>5 DEF Keep
  <2> QED
    BY <1>1, <1>2, <1>3, <1>4, <1>5, <2>1 DEF OnlyFirst, AllRead
<1>6. CASE ~(sh.pk \in DOMAIN share_map[s] \/ OutOfRange(sh.val))
  <2>1. /\ DOMAIN share_map'[s] = DOMAIN share_map[s] \cup {sh.pk}
        /\ share_map'[s][sh.pk] = sh.val
        /\ \A pk \in DOMAIN share_map[s] : share_map'[s][pk] = share_map[s][pk]
    BY <1>1, <1>6 DEF Keep
  <2>2. First(s, k + 1)
    <3>1. \A n \in 1 .. (k + 1) - 1 : n \in 1 .. taken[s]
      OBVIOUS
    <3> QED
      BY <1>1, <1>6, <3>1 DEF First, AllRead
  <2>3. OnlyFirst(s)'
    BY <1>1, <1>3, <1>4, <2>1, <2>2 DEF OnlyFirst
  <2>4. AllRead(s)'
    BY <1>1, <1>2, <1>4, <2>1 DEF AllRead
  <2> QED
    BY <2>3, <2>4
<1> QED
  BY <1>5, <1>6

\* Each pass of the receiving loop keeps it.
LEMMA RecvKeepsFirst ==
  ASSUME Lockstep, Kept, FirstCome, NEW s \in Server, Recv(s) PROVE FirstCome'
<1>1. /\ UNCHANGED <<campaign, client, sent>> /\ i' = [i EXCEPT ![s] = @ + 1]
      /\ share_map' = [share_map EXCEPT ![s] = Keep(@, share'[s])]
  BY DEF Recv
<1>2. /\ DOMAIN taken = Server /\ DOMAIN i = Server /\ DOMAIN share = Server
      /\ DOMAIN share_map = Server
      /\ taken[s] \in Nat /\ i[s] \in Nat /\ sent[s] \in Nat
  BY TotalIsNat DEF Lockstep, Shape, TypeOK
<1>3. share_map'[s] = Keep(share_map[s], share'[s]) /\ i'[s] = i[s] + 1
  BY <1>1, <1>2
<1>4. /\ \A val : OutOfRange(val)' <=> OutOfRange(val)
      /\ \A t, n : First(t, n)' <=> First(t, n)
  BY <1>1 DEF First, OutOfRange, msg
<1>5. ASSUME NEW t \in Server, taken'[t] = taken[t], share_map'[t] = share_map[t],
             OnlyFirst(t), AllRead(t)
      PROVE  OnlyFirst(t)' /\ AllRead(t)'
  BY <1>1, <1>4, <1>5 DEF OnlyFirst, AllRead
<1>6. ASSUME \A t \in Server \ {s} : taken'[t] = taken[t],
             taken'[s] > 0 => OnlyFirst(s)' /\ AllRead(s)',
             i'[s] > taken'[s] => client = "closed" /\ taken'[s] = sent[s]
      PROVE  FirstCome'
  <2>1. ASSUME NEW t \in Server, t # s
        PROVE  taken'[t] = taken[t] /\ share_map'[t] = share_map[t] /\ i'[t] = i[t]
    BY <1>1, <1>2, <1>6, <2>1
  <2>2. ASSUME NEW t \in Server, t # s, taken'[t] > 0 PROVE OnlyFirst(t)' /\ AllRead(t)'
    <3>1. taken'[t] = taken[t] /\ share_map'[t] = share_map[t]
      BY <2>1, <2>2
    <3> QED
      BY <1>5, <2>2, <3>1 DEF FirstCome
  <2>3. \A t \in Server : t # s => (i'[t] > taken'[t] => client' = "closed" /\ taken'[t] = sent'[t])
    BY <1>1, <2>1 DEF FirstCome
  <2> QED
    BY <1>1, <1>6, <2>2, <2>3 DEF FirstCome
<1>7. CASE /\ taken[s] < sent[s]
           /\ share' = [share EXCEPT ![s] = campaign.shares[taken[s] + 1][s]]
           /\ taken' = [taken EXCEPT ![s] = @ + 1]
  <2>1. PICK k \in Nat : k = taken[s]
    BY <1>2
  <2>2. taken'[s] = k + 1 /\ share'[s] = campaign.shares[k + 1][s]
    BY <1>2, <1>7, <2>1
  <2>3. OnlyFirst(s) /\ AllRead(s)
    <3>1. CASE k = 0
      <4>1. DOMAIN share_map[s] = {}
        <5>1. taken[s] = 0 /\ sent[s] # 0
          BY <1>2, <1>7, <2>1, <3>1
        <5> QED
          BY <5>1 DEF Kept
      <4> QED
        BY <2>1, <3>1, <4>1 DEF OnlyFirst, AllRead
    <3>2. CASE k > 0
      BY <2>1, <3>2 DEF FirstCome
    <3> QED
      BY <3>1, <3>2
  <2>4. OnlyFirst(s)' /\ AllRead(s)'
    BY <1>1, <1>3, <2>1, <2>2, <2>3, KeepFirst
  <2>5. ~(i'[s] > taken'[s])
    <3>1. ~(i[s] > taken[s])
      <4>1. taken[s] # sent[s]
        BY <1>2, <1>7
      <4> QED
        BY <4>1 DEF FirstCome
    <3> QED
      BY <1>2, <1>3, <2>1, <2>2, <3>1
  <2>6. \A t \in Server \ {s} : taken'[t] = taken[t]
    BY <1>2, <1>7
  <2> QED
    BY <1>6, <2>4, <2>5, <2>6
<1>8. CASE taken[s] = sent[s] /\ client = "closed" /\ AtEof(s) /\ UNCHANGED taken
  <2>1. taken' = taken /\ share' = share
    BY <1>8 DEF AtEof
  <2>2. ASSUME taken'[s] > 0 PROVE OnlyFirst(s)' /\ AllRead(s)'
    <3>1. /\ OnlyFirst(s) /\ AllRead(s)
          /\ share'[s] = campaign.shares[taken[s]][s] /\ taken[s] \in 1 .. taken[s]
      BY <1>2, <2>1, <2>2 DEF FirstCome, Kept
    <3>2. share'[s].pk \in DOMAIN share_map[s] \/ OutOfRange(share'[s].val)
      BY <3>1 DEF AllRead
    <3>3. share_map'[s] = share_map[s]
      BY <1>3, <3>2 DEF Keep
    <3> QED
      BY <1>5, <2>1, <3>1, <3>3
  <2> QED
    BY <1>6, <1>8, <2>1, <2>2
<1> QED
  BY <1>7, <1>8 DEF Recv

\* Nothing else stores anything, and the client's last step is to go.
LEMMA StepKeepsFirst == Lockstep /\ Kept /\ FirstCome /\ [Next]_vars => FirstCome'
<1> SUFFICES ASSUME Lockstep, Kept, FirstCome, [Next]_vars PROVE FirstCome'
  OBVIOUS
<1>1. ASSUME UNCHANGED <<campaign, share_map, taken>>
      PROVE  \A s \in Server : /\ OnlyFirst(s)' <=> OnlyFirst(s)
                               /\ AllRead(s)' <=> AllRead(s)
  <2>1. /\ \A val : OutOfRange(val)' <=> OutOfRange(val)
        /\ \A s, n : First(s, n)' <=> First(s, n)
    BY <1>1 DEF First, OutOfRange, msg
  <2> QED
    BY <1>1, <2>1 DEF OnlyFirst, AllRead
<1>2. ASSUME UNCHANGED <<campaign, share_map, taken, i, client, sent>> PROVE FirstCome'
  BY <1>1, <1>2 DEF FirstCome
<1>3. CASE UNCHANGED vars
  BY <1>2, <1>3 DEF vars
<1>4. CASE ClientStep
  <2>1. client = "sending" /\ UNCHANGED <<campaign, share_map, taken, i>>
    BY <1>4 DEF ClientStep, Close, SendShare
  <2> QED
    BY <1>1, <2>1 DEF FirstCome
<1>5. CASE Recv(0) \/ Recv(1)
  BY <1>5, RecvKeepsFirst DEF Server
<1>6. CASE RecvSize \/ RecvPk \/ SendValid \/ RecvSum \/ SendPks \/ RecvValid \/ SendBitSum
  BY <1>2, <1>6 DEF RecvSize, RecvPk, SendValid, RecvSum, SendPks, RecvValid, SendBitSum
<1>7. CASE Convert
  BY <1>2, <1>7 DEF Convert
<1> QED
  BY <1>3, <1>4, <1>5, <1>6, <1>7 DEF Next, Server0Step, Server1Step

\* What a server has stored are the first shares of their keys.
LEMMA FirstComeHolds == Spec => []FirstCome
<1>1. Init => FirstCome
  BY DEF Init, FirstCome
<1>2. Spec => []Kept
  BY InitKept, StepKeepsKept, InitLockstep, StepKeepsLockstep, PTL DEF Spec
<1> QED
  BY <1>1, <1>2, StepKeepsFirst, ServersInLockstep, PTL DEF Spec

-----------------------------------------------------------------------------
(* The valid submissions, by number and by key *)

\* What is valid and was read by both; unless a struct never written was kept.
Came == {k \in Genuine(campaign) : \A s \in Server : k <= taken[s]}
KeyOf(k) == campaign.shares[k][0].pk
Heard == BothHeard \/ (Total_inputs = 0 /\ BothStored = {})

\* Submissions have positive numbers, up to the batch's.
LEMMA Numbered ==
  ASSUME campaign \in Campaigns
  PROVE  /\ Total_inputs \in Nat /\ DOMAIN campaign.shares = 1 .. Total_inputs
         /\ \A k \in Genuine(campaign) : k \in 1 .. Total_inputs
  BY CampaignsAssumption DEF Total_inputs, msg, Genuine

\* A key of both maps is that of one valid submission, which both have stored.
LEMMA SameSubmission ==
  ASSUME Lockstep, FirstCome, BothHeard, NEW pk \in BothStored
  PROVE  \E k \in Came : KeyOf(k) = pk /\ Opened[pk] = PayloadOf(campaign)[k]
<1>1. campaign \in Campaigns /\ taken[0] \in Nat /\ taken[1] \in Nat
  BY TotalIsNat DEF Lockstep, Shape, TypeOK, Server
<1>2. OnlyFirst(0) /\ OnlyFirst(1) /\ pk \in DOMAIN share_map[0] /\ pk \in DOMAIN share_map[1]
  BY DEF BothHeard, FirstCome, BothStored, Server
<1>3. PICK j \in 1 .. taken[0] :
         campaign.shares[j][0].pk = pk /\ share_map[0][pk] = campaign.shares[j][0].val /\ First(0, j)
  BY <1>2 DEF OnlyFirst
<1>4. PICK k \in 1 .. taken[1] :
         campaign.shares[k][1].pk = pk /\ share_map[1][pk] = campaign.shares[k][1].val /\ First(1, k)
  BY <1>2 DEF OnlyFirst
<1>5. /\ Total_inputs \in Nat /\ DOMAIN campaign.shares = 1 .. Total_inputs
      /\ \A n \in Genuine(campaign) : n \in 1 .. Total_inputs
      /\ taken[0] <= Total_inputs /\ taken[1] <= Total_inputs
  BY <1>1, Numbered DEF Lockstep, Shape, TypeOK, Server
<1>6. j \in DOMAIN campaign.shares /\ k \in DOMAIN campaign.shares
  BY <1>1, <1>5
<1>7. ASSUME NEW n \in Genuine(campaign), NEW s \in Server
      PROVE  ~OutOfRange(campaign.shares[n][s].val) /\ campaign.shares[n][s].pk = KeyOf(n)
  BY DEF Genuine, TooWide, OutOfRange, msg, KeyOf, Server
<1>8. ASSUME NEW n \in Genuine(campaign), KeyOf(n) = pk PROVE ~(n < j) /\ ~(n < k)
  <2>1. n < j => n \in 1 .. j - 1
    BY <1>1, <1>5
  <2>2. n < k => n \in 1 .. k - 1
    BY <1>1, <1>5
  <2> QED
    BY <1>3, <1>4, <1>7, <1>8, <2>1, <2>2 DEF First, Server
<1>9. ASSUME NEW m \in DOMAIN campaign.shares, NEW n \in DOMAIN campaign.shares,
             NEW s \in Server, NEW t \in Server, m # n,
             campaign.shares[m][s].pk = pk, campaign.shares[n][t].pk = pk
      PROVE  \E g \in Genuine(campaign) : g <= m /\ g <= n /\ KeyOf(g) = pk
  BY <1>1, <1>9, RoutinesAssumption DEF KeyOf
<1>10. j = k
  <2> SUFFICES ASSUME j # k PROVE FALSE
    OBVIOUS
  <2>1. PICK g \in Genuine(campaign) : g <= j /\ g <= k /\ KeyOf(g) = pk
    BY <1>3, <1>4, <1>6, <1>9 DEF Server
  <2> QED
    BY <1>1, <1>5, <1>8, <2>1
<1>11. j \in Genuine(campaign)
  <2>1. ASSUME NEW n \in 1 .. j - 1, NEW s \in Server, campaign.shares[n][s].pk = pk PROVE FALSE
    <3>1. n \in DOMAIN campaign.shares /\ n # j /\ n < j
      BY <1>1, <1>5
    <3>2. PICK g \in Genuine(campaign) : g <= n /\ g <= j /\ KeyOf(g) = pk
      BY <1>3, <1>6, <1>9, <2>1, <3>1 DEF Server
    <3> QED
      BY <1>1, <1>5, <1>8, <3>1, <3>2
  <2>2. \A s \in Server : ~TooWide(campaign, campaign.shares[j][s].val)
    BY <1>3, <1>4, <1>10 DEF First, OutOfRange, TooWide, msg, Server
  <2> QED
    BY <1>3, <1>4, <1>6, <1>10, <2>1, <2>2 DEF Genuine
<1>12. Opened[pk] = PayloadOf(campaign)[j]
  BY <1>3, <1>4, <1>6, <1>10 DEF Opened, PayloadOf
<1>13. j \in Came
  BY <1>3, <1>4, <1>10, <1>11 DEF Came, Server
<1> QED
  BY <1>3, <1>12, <1>13 DEF KeyOf

\* The keys of both maps are those of the valid submissions that came to both.
LEMMA KeysMatch ==
  ASSUME Lockstep, FirstCome, Heard
  PROVE  /\ BothStored = {KeyOf(k) : k \in Came}
         /\ \A j, k \in Came : KeyOf(j) = KeyOf(k) => j = k
         /\ \A k \in Came : Opened[KeyOf(k)] = PayloadOf(campaign)[k]
         /\ IsFiniteSet(Came) /\ IsFiniteSet(BothStored) /\ Came \in SUBSET Genuine(campaign)
<1>1. /\ Total_inputs \in Nat /\ \A k \in Genuine(campaign) : k \in 1 .. Total_inputs
      /\ \A s \in Server : IsFiniteSet(DOMAIN share_map[s]) /\ taken[s] \in Nat
  BY Numbered, TotalIsNat DEF Lockstep, Shape, TypeOK
<1>2. IsFiniteSet(Came) /\ Came \in SUBSET Genuine(campaign)
  <2>1. Came \in SUBSET (1 .. Total_inputs) /\ Came \in SUBSET Genuine(campaign)
    BY <1>1 DEF Came
  <2>2. IsFiniteSet(1 .. Total_inputs)
    BY <1>1, FS_Interval
  <2> QED
    BY <2>1, <2>2, FS_Subset
<1>3. IsFiniteSet(BothStored)
  <2>1. BothStored \in SUBSET DOMAIN share_map[0]
    BY DEF BothStored
  <2> QED
    BY <1>1, <2>1, FS_Subset DEF Server
<1>4. ASSUME NEW j \in Came, NEW k \in Came, KeyOf(j) = KeyOf(k) PROVE j = k
  <2>1. /\ j \in 1 .. Total_inputs /\ k \in 1 .. Total_inputs
        /\ j \in Genuine(campaign) /\ k \in Genuine(campaign)
    BY <1>1 DEF Came
  <2>2. j \in 1 .. k - 1 \/ k \in 1 .. j - 1 \/ j = k
    BY <1>1, <2>1
  <2>3. ~(j \in 1 .. k - 1) /\ ~(k \in 1 .. j - 1)
    BY <1>4, <2>1 DEF Genuine, KeyOf, Server
  <2> QED
    BY <2>2, <2>3
<1>5. CASE Total_inputs = 0 /\ BothStored = {}
  <2>1. Came = {}
    BY <1>1, <1>5 DEF Came
  <2> QED
    BY <1>2, <1>3, <1>5, <2>1
<1>6. CASE BothHeard
  <2>1. \A pk \in BothStored : \E k \in Came : KeyOf(k) = pk /\ Opened[pk] = PayloadOf(campaign)[k]
    BY <1>6, SameSubmission
  <2>2. ASSUME NEW k \in Came PROVE KeyOf(k) \in BothStored
    <3>1. k \in Genuine(campaign) /\ \A s \in Server : k \in 1 .. taken[s]
      BY <1>1 DEF Came
    <3>2. ASSUME NEW s \in Server PROVE KeyOf(k) \in DOMAIN share_map[s]
      <4>1. ~OutOfRange(campaign.shares[k][s].val) /\ campaign.shares[k][s].pk = KeyOf(k)
        BY <3>1 DEF Genuine, TooWide, OutOfRange, msg, KeyOf, Server
      <4>2. AllRead(s)
        BY <1>6 DEF BothHeard, FirstCome
      <4> QED
        BY <3>1, <4>1, <4>2 DEF AllRead
    <3> QED
      BY <3>2 DEF BothStored, Server
  <2>3. BothStored = {KeyOf(k) : k \in Came}
    BY <2>1, <2>2
  <2>4. ASSUME NEW k \in Came PROVE Opened[KeyOf(k)] = PayloadOf(campaign)[k]
    <3>1. PICK j \in Came : KeyOf(j) = KeyOf(k) /\ Opened[KeyOf(k)] = PayloadOf(campaign)[j]
      BY <2>1, <2>2
    <3> QED
      BY <1>4, <3>1
  <2> QED
    BY <1>2, <1>3, <1>4, <2>3, <2>4
<1> QED
  BY <1>5, <1>6 DEF Heard

-----------------------------------------------------------------------------
(* XOR and sum over the valid submissions *)

\* Random words of different submissions do not cancel: the XOR has them all.
LEMMA XorOfCame ==
  ASSUME Lockstep, FirstCome, Heard, msg.type \in XorOps
  PROVE  XorAll(Opened, BothStored) = UNION {PayloadOf(campaign)[k] : k \in Came}
<1>1. PICK payload : payload = PayloadOf(campaign)
  OBVIOUS
<1>2. /\ BothStored = {KeyOf(k) : k \in Came} /\ IsFiniteSet(BothStored)
      /\ \A j, k \in Came : KeyOf(j) = KeyOf(k) => j = k
      /\ \A k \in Came : Opened[KeyOf(k)] = payload[k]
      /\ Came \in SUBSET Genuine(campaign)
  BY <1>1, KeysMatch
<1>3. \A j, k \in Came : j # k => payload[j] \cap payload[k] = {}
  <2>1. campaign \in Campaigns
    BY DEF Lockstep, Shape, TypeOK
  <2>2. \A j, k \in Genuine(campaign) : j # k => payload[j] \cap payload[k] = {}
    BY <1>1, <2>1, RoutinesAssumption DEF msg
  <2> QED
    BY <1>2, <2>2
<1>4. ASSUME NEW p PROVE p \in XorAll(Opened, BothStored) <=> \E k \in Came : p \in payload[k]
  <2>1. p \in XorAll(Opened, BothStored) <=> Odd(Holders(Opened, BothStored, p))
    BY <1>2, InXor
  <2>2. ASSUME NEW k \in Came, p \in payload[k] PROVE Odd(Holders(Opened, BothStored, p))
    <3>1. Holders(Opened, BothStored, p) = {KeyOf(k)}
      BY <1>2, <1>3, <2>2 DEF Holders
    <3>2. Cardinality({KeyOf(k)}) = 1
      BY FS_Singleton
    <3> QED
      BY <3>1, <3>2 DEF Odd
  <2>3. ASSUME \A k \in Came : ~(p \in payload[k]) PROVE ~Odd(Holders(Opened, BothStored, p))
    <3>1. Holders(Opened, BothStored, p) = {}
      BY <1>2, <2>3 DEF Holders
    <3>2. Cardinality({}) = 0
      BY FS_EmptySet
    <3> QED
      BY <3>1, <3>2 DEF Odd
  <2> QED
    BY <2>1, <2>2, <2>3
<1> QED
  BY <1>1, <1>4

\* Two families of numbers, indexed by S and by the image of S.
Renamed(S, T, g, f, h) ==
    /\ Summable(S, f) /\ Summable(T, h)
    /\ T = {g[x] : x \in S} /\ \A x, y \in S : g[x] = g[y] => x = y
    /\ \A x \in S : h[g[x]] = f[x]

\* They have the same sum.
LEMMA SumRenamed ==
  ASSUME NEW S, NEW T, NEW g, NEW f, NEW h, Renamed(S, T, g, f, h),
         NEW a, NEW b, AnyOrder(S, f, a), AnyOrder(T, h, b)
  PROVE  a[S] = b[T]
<1> DEFINE Img(U) == {g[x] : x \in U}
           Good(U) == a[U] = b[Img(U)]
           P == {n \in Nat : \A U \in SUBSET S : Cardinality(U) <= n => Good(U)}
<1>1. /\ IsFiniteSet(S) /\ T = Img(S) /\ \A x \in S : h[g[x]] = f[x]
      /\ \A x, y \in S : g[x] = g[y] => x = y
  BY DEF Renamed, Summable
<1>2. ASSUME NEW U \in SUBSET S
      PROVE  IsFiniteSet(U) /\ Cardinality(U) \in Nat /\ (Cardinality(U) = 0 <=> U = {})
  BY <1>1, FS_Subset, FS_CardinalityType, FS_EmptySet
<1>3. Good({})
  BY DEF AnyOrder
<1>4. 0 \in P
  <2>1. \A U \in SUBSET S : Cardinality(U) <= 0 => U = {}
    BY <1>2
  <2> HIDE DEF Good
  <2> QED
    BY <1>3, <2>1
<1>5. ASSUME NEW n \in Nat, n \in P PROVE n + 1 \in P
  <2>1. ASSUME NEW U \in SUBSET S, Cardinality(U) <= n + 1, U # {} PROVE Good(U)
    <3>1. PICK x \in U : TRUE
      BY <2>1
    <3>2. PICK V \in SUBSET S : V = U \ {x}
      OBVIOUS
    <3>3. Cardinality(V) <= n
      <4>1. Cardinality(V) = Cardinality(U) - 1
        BY <1>2, <3>1, <3>2, FS_RemoveElement
      <4> QED
        BY <1>2, <2>1, <4>1
    <3>4. a[V] = b[Img(V)]
      BY <1>5, <3>3
    <3>5. a[U] = f[x] + a[V]
      BY <3>1, <3>2 DEF AnyOrder
    <3>6. Img(U) \in SUBSET T /\ g[x] \in Img(U) /\ Img(U) \ {g[x]} = Img(V)
      BY <1>1, <3>1, <3>2
    <3> HIDE DEF Img
    <3>7. b[Img(U)] = h[g[x]] + b[Img(V)]
      <4>1. PICK I \in SUBSET T : I = Img(U)
        BY <3>6
      <4>2. PICK y \in I : y = g[x]
        BY <3>6, <4>1
      <4>3. b[I] = h[y] + b[I \ {y}]
        BY DEF AnyOrder
      <4> QED
        BY <3>6, <4>1, <4>2, <4>3
    <3> QED
      BY <1>1, <3>1, <3>4, <3>5, <3>7
  <2> HIDE DEF Good
  <2> QED
    BY <1>3, <2>1
<1>6. Nat \subseteq P
  <2> HIDE DEF P
  <2> QED
    BY <1>4, <1>5, Induct
<1>7. Good(S)
  <2>1. Cardinality(S) \in P
    BY <1>2, <1>6
  <2> QED
    BY <1>2, <2>1
<1> QED
  BY <1>1, <1>7

\* The sum over the keys is the sum over the submissions.
LEMMA SumOfCame ==
  ASSUME Lockstep, Computed, FirstCome, Heard, UsesOT, pc[0] = "done"
  PROVE  SumOf(Opened, BothStored) = SumOf(PayloadOf(campaign), Came)
<1>1. PICK K : K = BothStored
  OBVIOUS
<1>2. PICK opened : opened = Opened
  OBVIOUS
<1>3. PICK S : S = Came
  OBVIOUS
<1>4. PICK payload : payload = PayloadOf(campaign)
  OBVIOUS
<1>5. PICK g : g = [k \in S |-> KeyOf(k)]
  OBVIOUS
<1>6. /\ K = {g[k] : k \in S} /\ \A j, k \in S : g[j] = g[k] => j = k
      /\ \A k \in S : opened[g[k]] = payload[k]
      /\ IsFiniteSet(S)
  BY <1>1, <1>2, <1>3, <1>4, <1>5, KeysMatch
<1>7. PICK F : Numbers(opened, K, F)
  BY <1>1, <1>2, OpenedNumbers
<1>8. PICK f : f = [k \in S |-> F[g[k]]]
  OBVIOUS
<1>9. \A k \in S : g[k] \in K /\ F[g[k]] \in Int /\ F[g[k]] = Number(payload[k])
  BY <1>6, <1>7 DEF Numbers, Summable
<1>10. f = [k \in S |-> Number(payload[k])] /\ Summable(S, f) /\ Numbers(payload, S, f)
  BY <1>6, <1>8, <1>9 DEF Summable, Numbers
<1>11. PICK a : SumOf(payload, S) = a[S] /\ AnyOrder(S, f, a)
  BY <1>10, SumOfAny
<1>12. PICK b : SumOf(opened, K) = b[K] /\ AnyOrder(K, F, b)
  BY <1>7, SumOfAny
<1>13. Renamed(S, K, g, f, F)
  BY <1>6, <1>7, <1>8, <1>10 DEF Renamed, Numbers
<1>14. a[S] = b[K]
  BY <1>11, <1>12, <1>13, SumRenamed
<1> QED
  BY <1>1, <1>2, <1>3, <1>4, <1>11, <1>12, <1>14

-----------------------------------------------------------------------------
(* What the client prints *)

\* A non-empty set of numbers up to n has a greatest one,
LEMMA Greatest ==
  ASSUME NEW n \in Nat, NEW s \in SUBSET (0 .. n), s # {}
  PROVE  Max(s) \in s /\ \A y \in s : y <= Max(s)
<1> DEFINE T == {k \in Nat : \E x \in s : k = n - x}
<1>1. \A x \in s : x \in 0 .. n /\ n - x \in T
  OBVIOUS
<1>2. PICK m \in T : \A y \in T : m <= y
  BY <1>1, Least
<1>3. PICK x \in s : m = n - x
  BY <1>2
<1>4. \A y \in s : x >= y
  <2> TAKE y \in s
  <2>1. m <= n - y /\ y \in 0 .. n /\ x \in 0 .. n
    BY <1>1, <1>2
  <2> QED
    BY <1>3, <2>1
<1>5. Max(s) \in s /\ \A y \in s : Max(s) >= y
  BY <1>4 DEF Max
<1> QED
  BY <1>1, <1>5

\* and a set of numbers a least one.
LEMMA Smallest ==
  ASSUME NEW s \in SUBSET Nat, s # {}
  PROVE  Min(s) \in s /\ \A y \in s : Min(s) <= y
<1>1. PICK x \in s : \A y \in s : x <= y
  BY Least
<1> QED
  BY <1>1 DEF Min

\* Every payload that marks an index adds it to the XOR; the highest is the maximum.
LEMMA TopMark ==
  ASSUME campaign \in Campaigns, msg.type \in MaxOps,
         NEW I, I = Marks(UNION {PayloadOf(campaign)[k] : k \in Genuine(campaign)}), I # {}
  PROVE  /\ msg.max_inp \in Nat /\ Max(I) \in 0 .. msg.max_inp
         /\ \E k \in Genuine(campaign) : Max(Marks(PayloadOf(campaign)[k])) = Max(I)
         /\ \A k \in Genuine(campaign) : Max(Marks(PayloadOf(campaign)[k])) \in 0 .. Max(I)
<1>1. PICK payload : payload = PayloadOf(campaign)
  OBVIOUS
<1>2. PICK G : G = Genuine(campaign)
  OBVIOUS
<1>3. /\ msg.max_inp \in Nat
      /\ \A k \in G : Marks(payload[k]) # {} /\ Marks(payload[k]) \subseteq 0 .. msg.max_inp
  BY <1>1, <1>2, RoutinesAssumption DEF msg
<1>4. I = UNION {Marks(payload[k]) : k \in G}
  BY <1>1, <1>2 DEF Marks
<1>5. PICK B \in Nat : B = msg.max_inp
  BY <1>3
<1>6. I \in SUBSET (0 .. B)
  BY <1>3, <1>4, <1>5
<1>7. Max(I) \in I /\ \A y \in I : y <= Max(I)
  BY <1>6, Greatest
<1>8. ASSUME NEW k \in G
      PROVE  /\ Max(Marks(payload[k])) \in Marks(payload[k])
             /\ \A y \in Marks(payload[k]) : y <= Max(Marks(payload[k]))
  <2>1. PICK s \in SUBSET (0 .. B) : s = Marks(payload[k]) /\ s # {}
    BY <1>3, <1>5
  <2> QED
    BY <2>1, Greatest
<1>9. PICK k \in G : Max(I) \in Marks(payload[k])
  BY <1>4, <1>7
<1>10. PICK m \in 0 .. B : m = Max(I)
  BY <1>6, <1>7
<1>11. \A j \in G : Max(Marks(payload[j])) \in 0 .. m
  <2> TAKE j \in G
  <2>1. PICK x : x = Max(Marks(payload[j]))
    OBVIOUS
  <2>2. x \in I
    BY <1>4, <1>8, <2>1
  <2>3. x \in 0 .. B /\ x <= m
    BY <1>6, <1>7, <1>10, <2>2
  <2> QED
    BY <2>1, <2>3
<1>12. Max(Marks(payload[k])) = m
  <2>1. PICK x \in 0 .. m : x = Max(Marks(payload[k]))
    BY <1>11
  <2>2. m <= x
    BY <1>8, <1>9, <1>10, <2>1
  <2> QED
    BY <2>1, <2>2
<1> QED
  BY <1>1, <1>2, <1>5, <1>10, <1>11, <1>12

\* What server 0 reads off the XOR is what the routine prints.
LEMMA XorPrinted ==
  ASSUME campaign \in Campaigns, msg.type \in XorOps,
         NEW xor, xor = UNION {PayloadOf(campaign)[k] : k \in Genuine(campaign)},
         Decode(msg, xor) # Runaway
  PROVE  Decode(msg, xor) = Answer(campaign.printed)
<1>1. PICK payload : payload = PayloadOf(campaign)
  OBVIOUS
<1>2. PICK G : G = Genuine(campaign)
  OBVIOUS
<1>3. PICK values : values = {ValueOf(campaign, k) : k \in G}
  OBVIOUS
<1>4. campaign.printed = AnsOf(campaign) /\ msg = campaign.msg
  BY RoutinesAssumption DEF msg
<1>5. xor # {} <=> \E k \in G : payload[k] # {}
  BY <1>1, <1>2
<1>6. CASE msg.type = "AND_OP"
  <2>1. Decode(msg, xor) = Answer(IF xor = {} THEN 1 ELSE 0)
    BY <1>6 DEF Decode
  <2>2. \A k \in G : ValueOf(campaign, k) = IF payload[k] = {} THEN 1 ELSE 0
    BY <1>1, <1>4, <1>6 DEF ValueOf
  <2>3. AnsOf(campaign) = IF 0 \in values THEN 0 ELSE 1
    BY <1>2, <1>3, <1>4, <1>6 DEF AnsOf
  <2>4. 0 \in values <=> xor # {}
    BY <1>3, <1>5, <2>2
  <2> QED
    BY <1>4, <2>1, <2>3, <2>4
<1>7. CASE msg.type = "OR_OP"
  <2>1. Decode(msg, xor) = Answer(IF xor # {} THEN 1 ELSE 0)
    BY <1>7 DEF Decode
  <2>2. \A k \in G : ValueOf(campaign, k) = IF payload[k] = {} THEN 0 ELSE 1
    BY <1>1, <1>4, <1>7 DEF ValueOf
  <2>3. AnsOf(campaign) = IF 1 \in values THEN 1 ELSE 0
    BY <1>2, <1>3, <1>4, <1>7 DEF AnsOf
  <2>4. 1 \in values <=> xor # {}
    BY <1>3, <1>5, <2>2
  <2> QED
    BY <1>4, <2>1, <2>3, <2>4
<1>8. CASE msg.type \in MaxOps
  <2>1. PICK I : I = Marks(xor) /\ I = {p[1] : p \in xor}
    BY DEF Marks
  <2>2. I # {}
    BY <1>8, <2>1 DEF Decode, MaxOps
  <2>3. /\ msg.max_inp \in Nat /\ Max(I) \in 0 .. msg.max_inp
        /\ \E k \in G : Max(Marks(payload[k])) = Max(I)
        /\ \A k \in G : Max(Marks(payload[k])) \in 0 .. Max(I)
    BY <1>1, <1>2, <1>8, <2>1, <2>2, TopMark
  <2>4. PICK B \in Nat : B = msg.max_inp
    BY <2>3
  <2>5. PICK m \in 0 .. B : m = Max(I)
    BY <2>3, <2>4
  <2>6. CASE msg.type = "MAX_OP"
    <3>1. Decode(msg, xor) = Answer(m)
      BY <2>1, <2>2, <2>5, <2>6 DEF Decode, MaxOps
    <3>2. \A k \in G : ValueOf(campaign, k) = Max(Marks(payload[k]))
      BY <1>1, <1>4, <2>6 DEF ValueOf
    <3>3. AnsOf(campaign) = Max(values \cup {0})
      BY <1>2, <1>3, <1>4, <2>6 DEF AnsOf
    <3>4. m \in values /\ \A v \in values \cup {0} : v \in 0 .. m
      BY <1>3, <2>3, <2>5, <3>2
    <3>5. Max(values \cup {0}) \in values \cup {0} /\ m <= Max(values \cup {0})
      <4>1. PICK s \in SUBSET (0 .. m) : s = values \cup {0}
        BY <3>4
      <4>2. m \in s /\ m \in Nat
        BY <3>4, <4>1
      <4>3. Max(s) \in s /\ \A y \in s : y <= Max(s)
        BY <4>2, Greatest
      <4> QED
        BY <4>1, <4>2, <4>3
    <3>6. Max(values \cup {0}) = m
      <4>1. PICK x \in values \cup {0} : x = Max(values \cup {0}) /\ m <= x
        BY <3>5
      <4>2. x \in 0 .. m
        BY <3>4, <4>1
      <4> QED
        BY <4>1, <4>2
    <3> QED
      BY <1>4, <3>1, <3>3, <3>6
  <2>7. CASE msg.type = "MIN_OP"
    <3>1. Decode(msg, xor) = Answer(B - m)
      BY <2>1, <2>2, <2>4, <2>5, <2>7 DEF Decode, MaxOps
    <3>2. \A k \in G : ValueOf(campaign, k) = B - Max(Marks(payload[k]))
      BY <1>1, <1>4, <2>4, <2>7 DEF ValueOf
    <3>3. AnsOf(campaign) = Min(values \cup {B})
      BY <1>2, <1>3, <1>4, <2>4, <2>7 DEF AnsOf
    <3>4. B - m \in values /\ \A v \in values \cup {B} : v \in Nat /\ B - m <= v
      BY <1>3, <2>3, <2>5, <3>2
    <3>5. Min(values \cup {B}) \in values \cup {B} /\ Min(values \cup {B}) <= B - m
      <4>1. PICK s \in SUBSET Nat : s = values \cup {B}
        BY <3>4
      <4> QED
        BY <3>4, <4>1, Smallest
    <3>6. Min(values \cup {B}) = B - m
      BY <3>4, <3>5
    <3> QED
      BY <1>4, <3>1, <3>3, <3>6
  <2> QED
    BY <1>8, <2>6, <2>7 DEF MaxOps
<1> QED
  BY <1>6, <1>7, <1>8 DEF XorOps

\* The total of each int_sum batch is a residue, and a word.
TotalsFit ==
    \A c \in Campaigns : c.msg.type = "INT_SUM" =>
        TotalOf(c) \in 0 .. Modulus - 1 /\ TotalOf(c) < Word

\* A client that delivered its batch has its routine's "Ans" reported, whatever
\* the keys it spoilt, if the modulus has room for the conversion and the total.
THEOREM HonestGetTotals ==
  ASSUME ModulusFits, TotalsFit
  PROVE  Spec => []HonestTotals
<1>1. ASSUME Lockstep, Reliable, Kept, FirstCome PROVE HonestTotals
  <2> SUFFICES ASSUME ClientDone, result.ret = "RET_ANS" PROVE result.ans = campaign.printed
    BY DEF HonestTotals
  <2>1. Computed /\ pc[0] = "done" /\ result = Verdict
    BY <1>1 DEF Reliable, Reported, Pending
  <2>2. /\ campaign \in Campaigns /\ Total_inputs \in Nat
        /\ \A k \in Genuine(campaign) : k \in 1 .. Total_inputs
    BY <1>1, Numbered DEF Lockstep, Shape, TypeOK
  <2>3. ASSUME NEW s \in Server PROVE taken[s] = Total_inputs /\ i[s] = Total_inputs
    <3>1. pc[s] # "recv"
      BY <1>1, <2>1 DEF Lockstep, Phases, Server
    <3>2. i[s] = Total_inputs /\ taken[s] \in 0 .. Total_inputs
      BY <1>1, <3>1 DEF Lockstep, Shape, TypeOK, Phases
    <3>3. i[s] > taken[s] => taken[s] = Total_inputs
      BY <1>1 DEF FirstCome, ClientDone
    <3> QED
      BY <2>2, <3>2, <3>3
  <2>4. Heard
    <3>1. CASE Total_inputs = 0
      <4>1. /\ IsFiniteSet(DOMAIN share_map[0]) /\ Cardinality(DOMAIN share_map[0]) <= 0
        BY <1>1, <2>3, <3>1 DEF Lockstep, Shape, TypeOK, Server
      <4>2. DOMAIN share_map[0] = {}
        BY <4>1, FS_CardinalityType, FS_EmptySet
      <4> QED
        BY <3>1, <4>2 DEF Heard, BothStored
    <3>2. CASE Total_inputs > 0
      BY <2>3, <3>2 DEF Heard, BothHeard
    <3> QED
      BY <2>2, <3>1, <3>2
  <2>5. Came = Genuine(campaign)
    BY <2>2, <2>3 DEF Came
  <2>6. campaign.printed = AnsOf(campaign) /\ msg = campaign.msg
    BY <2>2, RoutinesAssumption DEF msg
  <2>7. /\ msg.type \in SumOps \cup XorOps /\ (UsesOT <=> msg.type \in SumOps)
        /\ msg.type \in XorOps => msg.type \notin SumOps
    BY <2>2, TypeKnown DEF SumOps, XorOps, MaxOps
  <2>8. CASE msg.type \in SumOps
    <3>1. SumOf(Opened, BothStored) = SumOf(PayloadOf(campaign), Genuine(campaign))
      BY <1>1, <2>1, <2>4, <2>5, <2>7, <2>8, SumOfCame
    <3>2. PICK x : x = TotalOf(campaign) /\ x = SumOf(Opened, BothStored)
      BY <3>1 DEF TotalOf, SumOf
    <3>3. AnsOf(campaign) = x % Word
      BY <2>6, <2>8, <3>2 DEF AnsOf, SumOps, Wrap
    <3>4. result.ans = x % SumModulus(msg.type)
      BY <2>1, <2>8, <3>2 DEF Verdict, Answer, Invalid
    <3>5. x % Word = x % SumModulus(msg.type)
      <4>1. CASE msg.type = "BIT_SUM"
        BY <4>1 DEF SumModulus
      <4>2. CASE msg.type = "INT_SUM"
        <5>1. x \in 0 .. Modulus - 1 /\ x < Word
          BY <2>2, <2>6, <3>2, <4>2 DEF TotalsFit
        <5>2. PICK m \in Nat \ {0} : m = Modulus
          BY ModulusAssumption
        <5>3. PICK w \in Nat \ {0} : w = Word
          BY WordAssumption, <5>1
        <5>4. x % m = x /\ x % w = x
          BY <5>1, <5>2, <5>3, ModSmall
        <5> QED
          BY <4>2, <5>2, <5>3, <5>4 DEF SumModulus
      <4> QED
        BY <2>8, <4>1, <4>2 DEF SumOps
    <3> QED
      BY <2>6, <3>3, <3>4, <3>5
  <2>9. CASE msg.type \in XorOps
    <3>1. PICK xor : xor = UNION {PayloadOf(campaign)[k] : k \in Genuine(campaign)}
      OBVIOUS
    <3>2. XorAll(Opened, BothStored) = xor
      BY <1>1, <2>4, <2>5, <2>9, <3>1, XorOfCame
    <3>3. result = Decode(msg, xor)
      BY <2>1, <2>7, <2>9, <3>2 DEF Verdict, Invalid
    <3>4. Decode(msg, xor) # Runaway
      BY <3>3 DEF Runaway
    <3>5. result = Answer(campaign.printed)
      BY <2>2, <2>9, <3>1, <3>3, <3>4, XorPrinted
    <3> QED
      BY <3>5 DEF Answer
  <2> QED
    BY <2>7, <2>8, <2>9
<1>2. Spec => []Kept
  BY InitKept, StepKeepsKept, InitLockstep, StepKeepsLockstep, PTL DEF Spec
<1> QED
  BY <1>1, <1>2, ServersInLockstep, ReliableHolds, FirstComeHolds, PTL

\* Only a scan for a maximum can leave the arrays.
LEMMA OnlyScansCrash == Spec => [](result.ret = "crash" => msg.type \in MaxOps)
<1>1. Init => (result.ret = "crash" => msg.type \in MaxOps)
  BY DEF Init, Pending
<1>2. Lockstep /\ (result.ret = "crash" => msg.type \in MaxOps) /\ [Next]_vars
        => (result.ret = "crash" => msg.type \in MaxOps)'
  <2> SUFFICES ASSUME Lockstep, result.ret = "crash" => msg.type \in MaxOps, [Next]_vars
               PROVE  (result.ret = "crash" => msg.type \in MaxOps)'
    OBVIOUS
  <2>1. msg' = msg
    BY CampaignKept
  <2>2. CASE RecvSum
    <3>1. \/ result' = Invalid \/ result' = Combine(Incoming(0))
      BY <2>2 DEF RecvSum
    <3>2. msg.type \in SumOps \cup XorOps
      BY TypeKnown DEF Lockstep, Shape, TypeOK
    <3>3. CASE msg.type \in SumOps
      BY <3>1, <3>3 DEF Combine, Invalid, Answer, SumOps
    <3>4. CASE msg.type \in {"AND_OP", "OR_OP"}
      BY <3>1, <3>4 DEF Combine, Invalid, Answer, Decode, MaxOps
    <3> QED
      BY <2>1, <3>2, <3>3, <3>4 DEF XorOps
  <2>3. CASE ~RecvSum
    <3>1. result' = result
      BY <2>3 DEF Next, ClientStep, Close, SendShare, Server0Step, Server1Step, Recv, RecvSize,
         RecvPk, SendValid, SendPks, RecvValid, SendBitSum, Convert, vars
    <3> QED
      BY <2>1, <3>1
  <2> QED
    BY <2>2, <2>3
<1> QED
  BY <1>1, <1>2, ServersInLockstep, PTL DEF Spec

\* Whenever the client dies, if each server has read a share then too few
\* submissions are valid or the scan for the maximum ends on an index.
THEOREM ScanStops == Spec => []MaxScanStops
<1>1. ASSUME Lockstep, Reliable, FirstCome, result.ret = "crash" => msg.type \in MaxOps
      PROVE  MaxScanStops
  <2> SUFFICES ASSUME result.ret = "crash", Total_inputs # 0, BothHeard PROVE FALSE
    BY DEF MaxScanStops
  <2>1. campaign \in Campaigns /\ Total_inputs \in Nat /\ msg.type \in MaxOps
    BY <1>1, Numbered DEF Lockstep, Shape, TypeOK
  <2>2. msg.type \in XorOps /\ msg.type \notin SumOps /\ msg.type # "INT_SUM"
    BY <2>1 DEF XorOps, SumOps, MaxOps
  <2>3. result = Verdict
    BY <1>1, <2>2 DEF Reliable, Reported, Pending
  <2>4. ~BelowThreshold(Cardinality(BothStored), Total_inputs)
    BY <2>3 DEF Verdict, Invalid
  <2>5. PICK xor : xor = UNION {PayloadOf(campaign)[k] : k \in Came}
    OBVIOUS
  <2>6. XorAll(Opened, BothStored) = xor
    BY <1>1, <2>2, <2>5, XorOfCame DEF Heard
  <2>7. Decode(msg, xor).ret = "crash"
    BY <2>2, <2>3, <2>4, <2>6 DEF Verdict
  <2>8. {p[1] : p \in xor} = {}
    BY <2>1, <2>7 DEF Decode, MaxOps, Answer
  <2>9. PICK k \in Came : k \in Genuine(campaign)
    <3>1. BothStored # {}
      <4>1. Cardinality({}) = 0
        BY FS_EmptySet
      <4> QED
        BY <2>1, <2>4, <4>1 DEF BelowThreshold
    <3>2. BothStored = {KeyOf(k) : k \in Came} /\ Came \in SUBSET Genuine(campaign)
      BY <1>1, KeysMatch DEF Heard
    <3> QED
      BY <3>1, <3>2
  <2>10. Marks(PayloadOf(campaign)[k]) # {}
    <3>1. campaign.msg.type \in MaxOps
      BY <2>1 DEF msg
    <3>2. \A j \in Genuine(campaign) : Marks(PayloadOf(campaign)[j]) # {}
      BY <2>1, <3>1, RoutinesAssumption
    <3> QED
      BY <2>9, <3>2
  <2> QED
    BY <2>5, <2>8, <2>9, <2>10 DEF Marks
<1> QED
  BY <1>1, ServersInLockstep, ReliableHolds, FirstComeHolds, OnlyScansCrash, PTL
=============================================================================
