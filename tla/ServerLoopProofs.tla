-------------------------- MODULE ServerLoopProofs --------------------------
(***************************************************************************)
(* Three results about the server loops, for any series of clients, any    *)
(* number of inputs and any threshold.                                     *)
(*                                                                         *)
(* PointRetired: a refresh recomputes every cached precomputation, and a   *)
(* new one is made for the point of the moment.                            *)
(*                                                                         *)
(* InStep and SnipsAgree, from the invariant LoopInv. It says where the    *)
(* servers can be of one another: both in the start-up, both in the        *)
(* exchange of one client, or apart, server 1 ahead by at most a sum, a    *)
(* new point and the keys of the next exchange; and for each of these what *)
(* is on the wire. In an exchange that is a table: how many messages a     *)
(* server has written and read, and of which kind the n-th is, given how   *)
(* much of its script is left.                                             *)
(***************************************************************************)
EXTENDS ServerLoop, TLAPS

\* What EXCEPT needs to know of the two variables, and the property.
PointInv ==
    /\ randomX = [s \in Server |-> randomX[s]]
    /\ precomp = [s \in Server |-> precomp[s]]
    /\ PointRetired

\* Nothing is precomputed when the servers start.
LEMMA InitPoint == Init => PointInv
  BY DEF Init, PointInv, PointRetired, Server

\* Adopting a point leaves nothing of the point before.
LEMMA AdoptPoint ==
  ASSUME PointInv, NEW s \in Server, NEW x, Adopt(s, x)
  PROVE  PointInv'
<1>1. randomX' = [randomX EXCEPT ![s] = x]
  BY DEF Adopt
<1>2. precomp' = [precomp EXCEPT ![s] = [N \in DOMAIN precomp[s] |-> x]]
  BY DEF Adopt, Refreshed
<1>3. randomX'[s] = x /\ \A t \in Server \ {s} : randomX'[t] = randomX[t]
  BY <1>1 DEF PointInv
<1>4. precomp'[s] = [N \in DOMAIN precomp[s] |-> x]
      /\ \A t \in Server \ {s} : precomp'[t] = precomp[t]
  BY <1>2 DEF PointInv
<1>5. PointRetired'
  BY <1>3, <1>4 DEF PointInv, PointRetired
<1> QED
  BY <1>1, <1>2, <1>5 DEF PointInv

\* A size met for the first time is precomputed for the current point.
LEMMA SendCorPoint ==
  ASSUME PointInv, NEW s \in Server, SendCor(s)
  PROVE  PointInv'
<1>1. randomX' = randomX /\ precomp' = [precomp EXCEPT ![s] = GetPrecomp(s)]
  BY DEF SendCor
<1>2. \A N \in DOMAIN GetPrecomp(s) : GetPrecomp(s)[N] = randomX[s]
  BY DEF GetPrecomp, PointInv, PointRetired
<1>3. precomp'[s] = GetPrecomp(s) /\ \A t \in Server \ {s} : precomp'[t] = precomp[t]
  BY <1>1 DEF PointInv
<1>4. PointRetired'
  BY <1>1, <1>2, <1>3 DEF PointInv, PointRetired
<1> QED
  BY <1>1, <1>4 DEF PointInv

\* Only a refresh and the first SNIP of a size touch the two variables.
LEMMA NextPoint == PointInv /\ [Next]_vars => PointInv'
<1> SUFFICES ASSUME PointInv, [Next]_vars
             PROVE  PointInv'
  OBVIOUS
<1>1. ASSUME UNCHANGED <<randomX, precomp>> PROVE PointInv'
  BY <1>1 DEF PointInv, PointRetired
<1>2. CASE UNCHANGED vars
  BY <1>1, <1>2 DEF vars
<1>3. CASE MeetOther
  BY <1>1, <1>3 DEF MeetOther
<1>4. CASE \E c \in DOMAIN ops : ClientStep(c)
  BY <1>1, <1>4 DEF ClientStep
<1>5. ASSUME NEW s \in Server, ServerStep(s) PROVE PointInv'
  <2>1. CASE Refresh(s) \/ Accept(s) \/ RecvInit(s) \/ RecvShares(s) \/ Close(s)
    BY <1>1, <2>1 DEF Refresh, Accept, RecvInit, RecvShares, Close
  <2>2. CASE SendCor(s)
    BY <2>2, SendCorPoint
  <2>3. CASE SendOut(s) \/ SendPlain(s) \/ RecvPlain(s)
    BY <1>1, <2>3 DEF SendOut, SendPlain, RecvPlain
  <2>4. CASE RecvKeys \/ SendKeys
    BY <1>1, <2>4 DEF RecvKeys, SendKeys
  <2>5. CASE RecvRandomX
    BY <2>5, AdoptPoint DEF RecvRandomX, Server
  <2>6. CASE SendRandomX
    BY <2>6, AdoptPoint DEF SendRandomX, Server
  <2> QED
    BY <1>5, <2>1, <2>2, <2>3, <2>4, <2>5, <2>6 DEF ServerStep
<1> QED
  BY <1>2, <1>3, <1>4, <1>5 DEF Next

\* No SNIP is ever checked with a precomputation for a retired point.
THEOREM PointsAreRetired == Spec => []PointRetired
<1>1. PointInv => PointRetired
  BY DEF PointInv
<1> QED
  BY <1>1, InitPoint, NextPoint, PTL DEF Spec
-----------------------------------------------------------------------------
(* Where a server is.                                                      *)

RealOps == {"BIT_SUM", "INT_SUM"} \cup MaskedSumOps \cup SnipOps \cup SketchOps
Real(c) == c \in DOMAIN ops /\ ops[c] \in RealOps

Scripted == {"startup", "refresh", "recv", "work"}
In(s) == pc[s] \in {"recv", "work"}
Op(s) == ops[cur[s]]
Segment(s) == IF In(s) THEN Op(s) ELSE pc[s]

\* Items of a script left to do, and the last client dealt with.
Rem(s) == Len(script[s])
Fin(s) == IF pc[s] \in {"init", "recv", "work"} THEN cur[s] - 1 ELSE cur[s]

\* The length of a script, and its item when r are left.
Steps(g) ==
    CASE g = "refresh" -> 1
      [] g \in {"startup", "BIT_SUM"} \cup MaskedSumOps -> 3
      [] g = "INT_SUM" -> 4
      [] g \in SketchOps -> 5
      [] OTHER -> 8

Way(s, from, what) == Item(IF s = from THEN "send" ELSE "recv", what)
StepAt(s, g, r) ==
    IF g = "refresh" \/ (g = "startup" /\ r = 3) THEN Way(s, 1, "randomX")
    ELSE IF g = "startup" THEN IF r = 2 THEN Way(s, 0, "seed") ELSE Meet
    ELSE IF r = 1 THEN Way(s, 1, "sum")
    ELSE IF r = Steps(g) THEN Way(s, 1, "keys")
    ELSE IF g \notin MaskedSumOps /\ r = Steps(g) - 1 THEN Meet
    ELSE IF g \in SketchOps THEN IF r = 3 THEN Way(s, 1, "checks") ELSE Way(s, 0, "all_valid")
    ELSE IF r = 2 THEN Way(s, 0, "valid")
    ELSE Item(IF r \in {6, 4} THEN "send" ELSE "recv", IF r \in {6, 5} THEN "cor" ELSE "out")

Script(s, g, r) == [j \in 1 .. r |-> StepAt(s, g, r + 1 - j)]

Place ==
    /\ pc \in [Server -> Scripted \cup {"top", "accept", "init", "close"}]
    /\ cur \in [Server -> Nat]
    /\ script = [s \in Server |-> script[s]]
    /\ \A s \in Server :
          /\ pc[s] \in Scripted => /\ Rem(s) \in 1 .. Steps(Segment(s))
                                   /\ script[s] = Script(s, Segment(s), Rem(s))
          /\ pc[s] \notin Scripted => script[s] = <<>>
          /\ pc[s] = "startup" => cur[s] = 0
          /\ pc[s] \in {"init", "recv", "work", "close"} => cur[s] > 0
          /\ In(s) => Real(cur[s])
          /\ pc[s] = "recv" => Rem(s) = Steps(Op(s))
-----------------------------------------------------------------------------
(* The line of clients.                                                    *)

Clients == Len(ops)
Waiting(s) == Len(backlog[s])
Joined(s) == {"at1", "init0", "init1", "sent"} \cup IF s = 0 THEN {"at0"} ELSE {}

Line ==
    /\ ops \in Seq(STRING)
    /\ conn \in [DOMAIN ops -> {"started"} \cup Joined(0)]
    /\ backlog = [s \in Server |-> backlog[s]]
    /\ \A s \in Server :
          /\ Waiting(s) \in Nat
          /\ backlog[s] = [p \in 1 .. Waiting(s) |-> cur[s] + p]
          /\ \A c \in DOMAIN ops : c <= cur[s] + Waiting(s) <=> conn[c] \in Joined(s)
          /\ cur[s] + Waiting(s) <= Clients
-----------------------------------------------------------------------------
(* What is on the wire while both are in the same exchange g.              *)

Unread(s) == Len(to[s])
Streams ==
    /\ to = [s \in Server |-> to[s]]
    /\ \A s \in Server : Unread(s) \in Nat /\ to[s] = [p \in 1 .. Unread(s) |-> to[s][p]]

One(b) == IF b THEN 1 ELSE 0
Written(s, g, r) ==
    IF s = 1
    THEN One(r < Steps(g)) + One(g \in SnipOps /\ r < 6) + One(g \in SnipOps /\ r < 4)
         + One(g \in SketchOps /\ r < 3)
    ELSE One(g \in SnipOps /\ r < 6) + One(g \in SnipOps /\ r < 4) + One(g # "BIT_SUM" /\ r < 2)
WasRead(s, g, r) ==
    IF s = 0
    THEN One(r < Steps(g)) + One(g \in SnipOps /\ r < 5) + One(g \in SnipOps /\ r < 3)
         + One(g \in SketchOps /\ r < 3)
    ELSE One(g \in SnipOps /\ r < 5) + One(g \in SnipOps /\ r < 3) + One(g # "BIT_SUM" /\ r < 2)

\* The n-th message a server reads.
Kind(s, g, n) ==
    IF g = "startup" THEN IF s = 0 THEN "randomX" ELSE "seed"
    ELSE IF s = 0 /\ n = 1 THEN "keys"
    ELSE IF g \in SnipOps
         THEN LET k == IF s = 0 THEN n - 1 ELSE n IN
              IF k = 1 THEN "cor" ELSE IF k = 2 THEN "out" ELSE IF s = 0 THEN "sum" ELSE "valid"
    ELSE IF g \in SketchOps
         THEN IF s = 1 THEN "all_valid" ELSE IF n = 2 THEN "checks" ELSE "sum"
    ELSE IF s = 1 THEN "valid" ELSE "sum"

\* What a message of that kind tells of the server that sends it.
Val(s, kind) ==
    IF kind \in {"randomX", "cor"} THEN randomX[s]
    ELSE IF kind = "keys" THEN num_inputs[s]
    ELSE IF kind = "out" THEN snips_seed[s] ELSE 0
Carries(m, s, kind, client) ==
    m = [kind |-> kind, client |-> client, val |-> Val(1 - s, kind)]

Wire(g) ==
    \A s \in Server :
        /\ WasRead(s, g, Rem(s)) <= Written(1 - s, g, Rem(1 - s))
        /\ Unread(s) = Written(1 - s, g, Rem(1 - s)) - WasRead(s, g, Rem(s))
        /\ \A p \in 1 .. Unread(s) :
              Carries(to[s][p], s, Kind(s, g, WasRead(s, g, Rem(s)) + p), cur[s])

\* Neither is through a Meet alone.
Met(g) == g \notin MaskedSumOps =>
              (Rem(0) < Steps(g) - 1 <=> Rem(1) < Steps(g) - 1)

\* A SNIP's halves are sent; its coefficients are drawn.
Checked(s) == Op(s) \in SnipOps /\ Rem(s) < 6
Drawn(s) == Op(s) \in SnipOps /\ Rem(s) < 4
SameUses ==
    /\ \A s \in Server : (Checked(s) /\ ~Checked(1 - s)) =>
                            randx_uses[s] = randx_uses[1 - s] + num_inputs[1]
    /\ (Checked(0) <=> Checked(1)) => randx_uses[0] = randx_uses[1]
SameSeed ==
    /\ \A s \in Server : (Drawn(s) /\ ~Drawn(1 - s)) =>
                            snips_seed[s] = snips_seed[1 - s] + Draws(1)
    /\ (Drawn(0) <=> Drawn(1)) => snips_seed[0] = snips_seed[1]
SameExchange ==
    /\ Met(Op(0)) /\ Wire(Op(0))
    /\ randomX[0] = randomX[1]
    /\ Rem(0) < Steps(Op(0)) => num_inputs[0] = num_inputs[1]
    /\ SameUses /\ SameSeed
-----------------------------------------------------------------------------
(* What is on the wire while they are not: server 1 may be ahead by a sum,  *)
(* a new point and the keys of the next exchange.                          *)

NoReal(a, b) == \A c \in DOMAIN ops : a < c /\ c <= b => ~Real(c)
Lagging == In(0) /\ cur[0] <= Fin(1)
Owed == randx_uses[0] > RandomXThreshold /\ randx_uses[1] = 0
Keyed == In(1) /\ Rem(1) # Steps(Op(1))
\* The last client server 0 is done with, but perhaps for its sum.
Ended == IF Lagging THEN cur[0] ELSE Fin(0)

Trail ==
    /\ Unread(1) = 0
    /\ Unread(0) = One(Lagging) + One(Owed) + One(Keyed)
    /\ Lagging => Carries(to[0][1], 0, "sum", cur[0])
    /\ Owed => Carries(to[0][One(Lagging) + 1], 0, "randomX", cur[0])
    /\ Keyed => Carries(to[0][One(Lagging) + One(Owed) + 1], 0, "keys", cur[1])
Apart ==
    /\ NoReal(Ended, Fin(1)) /\ NoReal(Fin(1), Fin(0))
    /\ In(0) => Rem(0) = IF Lagging THEN 1 ELSE Steps(Op(0))
    /\ In(1) => Rem(1) >= Steps(Op(1)) - 1
    /\ Trail
    /\ Owed => Lagging \/ pc[0] \in {"close", "top", "refresh"}
    /\ ~Owed => randomX[0] = randomX[1] /\ randx_uses[0] = randx_uses[1]
    /\ snips_seed[0] = snips_seed[1]

Starting == pc[0] = "startup" /\ pc[1] = "startup"
StartingUp ==
    /\ Wire("startup") /\ randx_uses[0] = 0 /\ randx_uses[1] = 0
    /\ snips_seed[0] = snips_seed[1]
    /\ Rem(0) = 3 \/ randomX[0] = randomX[1]
Together == In(0) /\ In(1) /\ cur[0] = cur[1]
Pair ==
    /\ pc[0] = "startup" <=> pc[1] = "startup"
    /\ Starting => StartingUp
    /\ Together => SameExchange
    /\ ~Starting /\ ~Together => Apart

\* The point is due for a refresh only between a SNIP and the next client.
DueAt(s) ==
    randx_uses[s] > RandomXThreshold =>
        /\ Real(cur[s])
        /\ pc[s] \in {"close", "top", "refresh"} \/ (pc[s] = "work" /\ Checked(s))
Counts ==
    /\ num_inputs \in [Server -> Nat] /\ randx_uses \in [Server -> Nat]
    /\ snips_seed \in [Server -> Nat]
    /\ \A s \in Server :
          /\ DueAt(s)
          /\ pc[s] = "refresh" => randx_uses[s] > RandomXThreshold
          /\ In(s) /\ Checked(s) => Size(s) \in DOMAIN precomp[s]

LoopInv == Place /\ Line /\ Streams /\ Pair /\ Counts /\ PointInv

-----------------------------------------------------------------------------
(* The tables of the scripts: what an item does to what is on the wire.    *)

\* The families of operations do not overlap.
LEMMA Families ==
  ASSUME NEW g \in RealOps
  PROVE  /\ g # "startup" /\ g # "refresh" /\ Steps(g) \in 3 .. 8
         /\ g \in {"BIT_SUM"} \cup MaskedSumOps => Steps(g) = 3 /\ g \notin SnipOps \cup SketchOps
         /\ g = "INT_SUM" => Steps(g) = 4 /\ g \notin SnipOps \cup SketchOps
         /\ g \in SketchOps => Steps(g) = 5 /\ g \notin SnipOps \cup MaskedSumOps
         /\ g \in SnipOps => Steps(g) = 8 /\ g \notin SketchOps \cup MaskedSumOps
  BY DEF RealOps, MaskedSumOps, SnipOps, SketchOps, Steps

\* Nor do they include what a server does by itself.
LEMMA StartSteps == Steps("refresh") = 1 /\ Steps("startup") = 3
  BY DEF Steps, MaskedSumOps, SketchOps

\* The script of an operation is its list of items; none, if it is not one.
LEMMA Scripts ==
  ASSUME NEW s \in Server
  PROVE  /\ Startup(s) = Script(s, "startup", 3)
         /\ OneWay(s, 1, "randomX") = Script(s, "refresh", 1)
         /\ \A g \in RealOps : Exchange(s, g) = Script(s, g, Steps(g))
         /\ \A g : g \notin RealOps => Exchange(s, g) = <<>>
<1>1. Startup(s) = Script(s, "startup", 3)
  BY DEF Startup, OneWay, Script, StepAt, Way, Meet
<1>2. OneWay(s, 1, "randomX") = Script(s, "refresh", 1)
  BY DEF OneWay, Script, StepAt, Way
<1>3. ASSUME NEW g \in RealOps PROVE Exchange(s, g) = Script(s, g, Steps(g))
  <2>1. CASE g = "BIT_SUM"
    <3>1. Steps(g) = 3 /\ g # "startup" /\ g # "refresh"
      BY <2>1, Families
    <3>2. Exchange(s, g) = OneWay(s, 1, "keys") \o <<Meet>> \o OneWay(s, 1, "sum")
      BY <2>1 DEF Exchange, MaskedSumOps, SnipOps, SketchOps
    <3>3. /\ StepAt(s, g, 3) = Way(s, 1, "keys")
          /\ StepAt(s, g, 2) = Meet
          /\ StepAt(s, g, 1) = Way(s, 1, "sum")
      BY <2>1, <3>1 DEF StepAt, MaskedSumOps, SnipOps, SketchOps
    <3>4. Script(s, g, 3) = [j \in 1 .. 3 |-> StepAt(s, g, 4 - j)]
      BY DEF Script
    <3> QED
      BY <3>1, <3>2, <3>3, <3>4 DEF OneWay, Way, Swap
  <2>2. CASE g = "INT_SUM"
    <3>1. Steps(g) = 4 /\ g # "startup" /\ g # "refresh"
      BY <2>2, Families
    <3>2. Exchange(s, g) = OneWay(s, 1, "keys") \o <<Meet>> \o OneWay(s, 0, "valid") \o
            OneWay(s, 1, "sum")
      BY <2>2 DEF Exchange, MaskedSumOps, SnipOps, SketchOps
    <3>3. /\ StepAt(s, g, 4) = Way(s, 1, "keys")
          /\ StepAt(s, g, 3) = Meet
          /\ StepAt(s, g, 2) = Way(s, 0, "valid")
          /\ StepAt(s, g, 1) = Way(s, 1, "sum")
      BY <2>2, <3>1 DEF StepAt, MaskedSumOps, SnipOps, SketchOps
    <3>4. Script(s, g, 4) = [j \in 1 .. 4 |-> StepAt(s, g, 5 - j)]
      BY DEF Script
    <3> QED
      BY <3>1, <3>2, <3>3, <3>4 DEF OneWay, Way, Swap
  <2>3. CASE g \in MaskedSumOps
    <3>1. Steps(g) = 3 /\ g # "startup" /\ g # "refresh"
      BY <2>3, Families
    <3>2. Exchange(s, g) = OneWay(s, 1, "keys") \o OneWay(s, 0, "valid") \o
            OneWay(s, 1, "sum")
      BY <2>3 DEF Exchange, MaskedSumOps, SnipOps, SketchOps
    <3>3. /\ StepAt(s, g, 3) = Way(s, 1, "keys")
          /\ StepAt(s, g, 2) = Way(s, 0, "valid")
          /\ StepAt(s, g, 1) = Way(s, 1, "sum")
      BY <2>3, <3>1 DEF StepAt, MaskedSumOps, SnipOps, SketchOps
    <3>4. Script(s, g, 3) = [j \in 1 .. 3 |-> StepAt(s, g, 4 - j)]
      BY DEF Script
    <3> QED
      BY <3>1, <3>2, <3>3, <3>4 DEF OneWay, Way, Swap
  <2>4. CASE g \in SnipOps
    <3>1. Steps(g) = 8 /\ g # "startup" /\ g # "refresh"
      BY <2>4, Families
    <3>2. Exchange(s, g) = OneWay(s, 1, "keys") \o <<Meet>> \o Swap("cor") \o
            Swap("out") \o OneWay(s, 0, "valid") \o OneWay(s, 1, "sum")
      BY <2>4 DEF Exchange, MaskedSumOps, SnipOps, SketchOps
    <3>3. /\ StepAt(s, g, 8) = Way(s, 1, "keys")
          /\ StepAt(s, g, 7) = Meet
          /\ StepAt(s, g, 6) = Item("send", "cor")
          /\ StepAt(s, g, 5) = Item("recv", "cor")
          /\ StepAt(s, g, 4) = Item("send", "out")
          /\ StepAt(s, g, 3) = Item("recv", "out")
          /\ StepAt(s, g, 2) = Way(s, 0, "valid")
          /\ StepAt(s, g, 1) = Way(s, 1, "sum")
      BY <2>4, <3>1 DEF StepAt, MaskedSumOps, SnipOps, SketchOps
    <3>4. Script(s, g, 8) = [j \in 1 .. 8 |-> StepAt(s, g, 9 - j)]
      BY DEF Script
    <3> QED
      BY <3>1, <3>2, <3>3, <3>4 DEF OneWay, Way, Swap
  <2>5. CASE g \in SketchOps
    <3>1. Steps(g) = 5 /\ g # "startup" /\ g # "refresh"
      BY <2>5, Families
    <3>2. Exchange(s, g) = OneWay(s, 1, "keys") \o <<Meet>> \o
            OneWay(s, 1, "checks") \o OneWay(s, 0, "all_valid") \o OneWay(s, 1, "sum")
      BY <2>5 DEF Exchange, MaskedSumOps, SnipOps, SketchOps
    <3>3. /\ StepAt(s, g, 5) = Way(s, 1, "keys")
          /\ StepAt(s, g, 4) = Meet
          /\ StepAt(s, g, 3) = Way(s, 1, "checks")
          /\ StepAt(s, g, 2) = Way(s, 0, "all_valid")
          /\ StepAt(s, g, 1) = Way(s, 1, "sum")
      BY <2>5, <3>1 DEF StepAt, MaskedSumOps, SnipOps, SketchOps
    <3>4. Script(s, g, 5) = [j \in 1 .. 5 |-> StepAt(s, g, 6 - j)]
      BY DEF Script
    <3> QED
      BY <3>1, <3>2, <3>3, <3>4 DEF OneWay, Way, Swap
  <2> QED
    BY <2>1, <2>2, <2>3, <2>4, <2>5 DEF RealOps
<1>4. ASSUME NEW g, g \notin RealOps PROVE Exchange(s, g) = <<>>
  BY <1>4 DEF Exchange, RealOps
<1> QED
  BY <1>1, <1>2, <1>3, <1>4

Exchanges == RealOps \cup {"startup"}

\* Whatever the exchange, the counts of messages are numbers.
LEMMA TableTypes ==
  ASSUME NEW s, NEW g, NEW r
  PROVE  Written(s, g, r) \in Nat /\ WasRead(s, g, r) \in Nat
  BY DEF Written, WasRead, One

\* A message sent is the next the other is to read, and of a new kind.
LEMMA SendTable ==
  ASSUME NEW s \in Server, NEW g \in Exchanges, NEW r \in 2 .. Steps(g), NEW what,
         StepAt(s, g, r) = Item("send", what)
  PROVE  /\ Written(s, g, r - 1) = Written(s, g, r) + 1
         /\ WasRead(s, g, r - 1) = WasRead(s, g, r)
         /\ Kind(1 - s, g, Written(s, g, r) + 1) = what
         /\ \A n \in 1 .. Written(s, g, r) : Kind(1 - s, g, n) # what
<1> USE DEF Server, StepAt, Way, Item, Meet, Written, WasRead, Kind, One
<1>1. CASE g = "startup"
  BY <1>1 DEF Steps, SnipOps, SketchOps
<1>2. CASE g \in {"BIT_SUM", "INT_SUM"}
  BY <1>2 DEF Steps, SnipOps, SketchOps, MaskedSumOps
<1>3. CASE g \in MaskedSumOps
  BY <1>3 DEF Steps, SnipOps, SketchOps, MaskedSumOps
<1>4. CASE g \in SnipOps
  <2>1. Steps(g) = 8 /\ g \notin SketchOps /\ g \notin MaskedSumOps /\ g # "startup"
        /\ g # "refresh" /\ g # "BIT_SUM"
    BY <1>4 DEF Steps, SnipOps, SketchOps, MaskedSumOps
  <2>2. CASE r \in {2, 3, 4}
    BY <1>4, <2>1, <2>2
  <2>3. CASE r \in {5, 6, 7, 8}
    BY <1>4, <2>1, <2>3
  <2> QED
    BY <2>1, <2>2, <2>3
<1>5. CASE g \in SketchOps
  BY <1>5 DEF Steps, SnipOps, SketchOps, MaskedSumOps
<1> QED
  BY <1>1, <1>2, <1>3, <1>4, <1>5 DEF Exchanges, RealOps

\* A message is read in its turn.
LEMMA ReadTable ==
  ASSUME NEW s \in Server, NEW g \in Exchanges, NEW r \in 2 .. Steps(g), NEW what,
         StepAt(s, g, r) = Item("recv", what)
  PROVE  /\ Written(s, g, r - 1) = Written(s, g, r)
         /\ WasRead(s, g, r - 1) = WasRead(s, g, r) + 1
         /\ Kind(s, g, WasRead(s, g, r) + 1) = what
<1> USE DEF Server, StepAt, Way, Item, Meet, Written, WasRead, Kind, One
<1>1. CASE g = "startup"
  BY <1>1 DEF Steps, SnipOps, SketchOps
<1>2. CASE g \in {"BIT_SUM", "INT_SUM"}
  BY <1>2 DEF Steps, SnipOps, SketchOps, MaskedSumOps
<1>3. CASE g \in MaskedSumOps
  BY <1>3 DEF Steps, SnipOps, SketchOps, MaskedSumOps
<1>4. CASE g \in SnipOps
  <2>1. Steps(g) = 8 /\ g \notin SketchOps /\ g \notin MaskedSumOps /\ g # "startup"
        /\ g # "refresh" /\ g # "BIT_SUM"
    BY <1>4 DEF Steps, SnipOps, SketchOps, MaskedSumOps
  <2>2. CASE r \in {2, 3, 4}
    BY <1>4, <2>1, <2>2
  <2>3. CASE r \in {5, 6, 7, 8}
    BY <1>4, <2>1, <2>3
  <2> QED
    BY <2>1, <2>2, <2>3
<1>5. CASE g \in SketchOps
  BY <1>5 DEF Steps, SnipOps, SketchOps, MaskedSumOps
<1> QED
  BY <1>1, <1>2, <1>3, <1>4, <1>5 DEF Exchanges, RealOps

\* A Meet is the last but one item, or the last of the start-up.
LEMMA MeetTable ==
  ASSUME NEW s \in Server, NEW g \in Exchanges, NEW r \in 1 .. Steps(g),
         StepAt(s, g, r) = Meet
  PROVE  IF g = "startup" THEN r = 1
         ELSE /\ r = Steps(g) - 1 /\ r > 1 /\ g \notin MaskedSumOps
              /\ Written(s, g, r - 1) = Written(s, g, r)
              /\ WasRead(s, g, r - 1) = WasRead(s, g, r)
<1> USE DEF Server, StepAt, Way, Item, Meet, Written, WasRead, One
<1>1. CASE g = "startup"
  BY <1>1 DEF Steps, SnipOps, SketchOps
<1>2. CASE g \in {"BIT_SUM", "INT_SUM"}
  BY <1>2 DEF Steps, SnipOps, SketchOps, MaskedSumOps
<1>3. CASE g \in MaskedSumOps
  BY <1>3 DEF Steps, SnipOps, SketchOps, MaskedSumOps
<1>4. CASE g \in SnipOps
  BY <1>4 DEF Steps, SnipOps, SketchOps, MaskedSumOps
<1>5. CASE g \in SketchOps
  BY <1>5 DEF Steps, SnipOps, SketchOps, MaskedSumOps
<1> QED
  BY <1>1, <1>2, <1>3, <1>4, <1>5 DEF Exchanges, RealOps

-----------------------------------------------------------------------------
(* The control of one server.                                              *)

\* A script is worked off from the front.
LEMMA ScriptFront ==
  ASSUME NEW s, NEW g, NEW r \in Nat \ {0}
  PROVE  /\ Script(s, g, r) # <<>> /\ Len(Script(s, g, r)) = r
         /\ Head(Script(s, g, r)) = StepAt(s, g, r)
         /\ r > 1 => Tail(Script(s, g, r)) = Script(s, g, r - 1)
         /\ r = 1 => Tail(Script(s, g, r)) = <<>>
  BY SMTT(40) DEF Script

\* What the next item is, where the server is.
LEMMA NextItem ==
  ASSUME Place, NEW s \in Server, NEW do, NEW what, Ready(s, do, what)
  PROVE  /\ pc[s] \in {"startup", "refresh", "work"}
         /\ StepAt(s, Segment(s), Rem(s)) = Item(do, what)
         /\ Rem(s) \in 1 .. Steps(Segment(s))
         /\ pc[s] = "refresh" => Rem(s) = 1 /\ what = "randomX"
         /\ pc[s] # "refresh" => Segment(s) \in Exchanges
         /\ pc[s] = "startup" => Segment(s) = "startup"
         /\ pc[s] = "work" => Segment(s) = Op(s) /\ Op(s) \in RealOps
<1>1. pc[s] \in {"startup", "refresh", "work"} /\ pc[s] \in Scripted
  BY DEF Ready, Scripted
<1>2. Rem(s) \in 1 .. Steps(Segment(s)) /\ script[s] = Script(s, Segment(s), Rem(s))
  BY <1>1 DEF Place
<1>3. Steps("refresh") = 1 /\ Steps("startup") = 3 /\ \A g \in RealOps : Steps(g) \in 3 .. 8
  BY StartSteps, Families
<1>4. /\ pc[s] = "startup" => Segment(s) = "startup"
      /\ pc[s] = "refresh" => Segment(s) = "refresh"
      /\ pc[s] = "work" => Segment(s) = Op(s) /\ Op(s) \in RealOps
  BY DEF Segment, In, Place, Real, Op
<1>5. Rem(s) \in Nat \ {0}
  BY <1>1, <1>2, <1>3, <1>4
<1>6. StepAt(s, Segment(s), Rem(s)) = Item(do, what)
  BY <1>2, <1>5, ScriptFront DEF Ready
<1>7. pc[s] = "refresh" => Rem(s) = 1 /\ what = "randomX"
  BY <1>2, <1>3, <1>4, <1>6 DEF StepAt, Way, Item
<1> QED
  BY <1>1, <1>2, <1>4, <1>6, <1>7 DEF Exchanges

\* Where a server is once its script is done.
Beyond(at) == IF at = "startup" THEN "top" ELSE IF at = "refresh" THEN "accept" ELSE "close"

\* s does the next item of its script.
Moves(s) ==
    /\ \E do, what : Ready(s, do, what)
    /\ script'[s] = Tail(script[s]) /\ pc'[s] = AfterScript(s)
Moved(s) ==
    /\ Rem(s) > 1 => pc'[s] = pc[s] /\ Rem(s)' = Rem(s) - 1
                     /\ script'[s] = Script(s, Segment(s), Rem(s)')
    /\ Rem(s) = 1 => pc'[s] = Beyond(pc[s]) /\ script'[s] = <<>>
Rests(s) == script'[s] = script[s] /\ pc'[s] = pc[s]

\* It has one item less, or is where the script leads.
LEMMA MovesOn ==
  ASSUME Place, NEW s \in Server, Moves(s)
  PROVE  Moved(s)
<1>1. script[s] = Script(s, Segment(s), Rem(s)) /\ Rem(s) \in Nat \ {0}
  <2>1. pc[s] \in Scripted
    BY DEF Moves, Ready, Scripted
  <2>2. Steps(Segment(s)) \in Nat
    BY NextItem, Families DEF Exchanges, Steps, Moves
  <2> QED
    BY <2>1, <2>2 DEF Place
<1>2. AfterScript(s) = IF Rem(s) > 1 THEN pc[s] ELSE Beyond(pc[s])
  BY DEF AfterScript, Rem, Beyond
<1>3. CASE Rem(s) > 1
  <2>1. Tail(script[s]) = Script(s, Segment(s), Rem(s) - 1)
    BY <1>1, <1>3, ScriptFront
  <2>2. Rem(s)' = Rem(s) - 1
    BY <1>1, <1>3, <2>1, ScriptFront DEF Rem, Moves
  <2> QED
    BY <1>1, <1>2, <1>3, <2>1, <2>2 DEF Moves, Moved
<1>4. CASE Rem(s) = 1
  BY <1>1, <1>2, <1>4, ScriptFront DEF Moves, Moved
<1> QED
  BY <1>1, <1>3, <1>4

\* A step of the scripts leaves both servers somewhere.
LEMMA PlaceMoves ==
  ASSUME Place, \A s \in Server : Moves(s) \/ Rests(s), ops' = ops, cur' = cur,
         pc' = [s \in Server |-> pc'[s]], script' = [s \in Server |-> script'[s]]
  PROVE  Place'
<1>1. ASSUME NEW s \in Server
      PROVE  /\ pc'[s] \in Scripted \cup {"top", "accept", "init", "close"}
             /\ (pc[s] \in Scripted => /\ Rem(s) \in 1 .. Steps(Segment(s))
                                   /\ script[s] = Script(s, Segment(s), Rem(s)))'
             /\ (pc[s] \notin Scripted => script[s] = <<>>)'
             /\ (pc[s] = "startup" => cur[s] = 0)'
             /\ (pc[s] \in {"init", "recv", "work", "close"} => cur[s] > 0)'
             /\ (In(s) => Real(cur[s]))'
             /\ (pc[s] = "recv" => Rem(s) = Steps(Op(s)))'
  <2>1. CASE Rests(s)
    <3>1. Rem(s)' = Rem(s) /\ Segment(s)' = Segment(s) /\ Op(s)' = Op(s)
          /\ Real(cur[s])' = Real(cur[s]) /\ In(s)' = In(s)
      BY <2>1 DEF Rests, Rem, Segment, In, Op, Real
    <3> QED
      BY <2>1, <3>1 DEF Rests, Place
  <2>2. CASE Moves(s)
    <3>1. Moved(s)
      BY <2>2, MovesOn
    <3>2. /\ pc[s] \in {"startup", "refresh", "work"} /\ Rem(s) \in 1 .. Steps(Segment(s))
          /\ pc[s] = "work" => Segment(s) = Op(s) /\ Op(s) \in RealOps
          /\ Steps(Segment(s)) \in Nat
      BY <2>2, NextItem, Families DEF Moves, Exchanges, Steps
    <3>3. Op(s)' = Op(s) /\ Real(cur[s])' = Real(cur[s])
      BY DEF Op, Real
    <3>4. CASE Rem(s) > 1
      <4>1. pc'[s] = pc[s] /\ Rem(s)' = Rem(s) - 1 /\ script'[s] = Script(s, Segment(s), Rem(s)')
        BY <3>1, <3>4 DEF Moved
      <4>2. Segment(s)' = Segment(s) /\ In(s)' = In(s)
        BY <3>3, <4>1 DEF Segment, In
      <4>3. pc[s] \in Scripted /\ pc[s] # "recv"
        BY <3>2 DEF Scripted
      <4>4. Rem(s)' \in 1 .. Steps(Segment(s)')
        BY <3>2, <3>4, <4>1, <4>2
      <4> QED
        BY <3>3, <4>1, <4>2, <4>3, <4>4 DEF Place
    <3>5. CASE Rem(s) = 1
      <4>1. pc'[s] = Beyond(pc[s]) /\ script'[s] = <<>>
        BY <3>1, <3>5 DEF Moved
      <4>2. pc'[s] \in {"top", "accept", "close"} /\ (pc'[s] = "close" => pc[s] = "work")
        BY <3>2, <4>1 DEF Beyond
      <4>3. pc'[s] \notin Scripted /\ ~In(s)'
        BY <4>2 DEF Scripted, In
      <4> QED
        BY <4>1, <4>2, <4>3 DEF Place
    <3> QED
      BY <3>2, <3>4, <3>5
  <2> QED
    BY <2>1, <2>2
<1> QED
  BY <1>1 DEF Place

-----------------------------------------------------------------------------
(* The streams.                                                            *)

\* A message sent comes last.
LEMMA Sent ==
  ASSUME Streams, NEW s \in Server, NEW what, NEW val, Put(s, what, val)
  PROVE  /\ Streams' /\ Unread(s)' = Unread(s) /\ to'[s] = to[s]
         /\ Unread(1 - s)' = Unread(1 - s) + 1
         /\ \A p \in 1 .. Unread(1 - s) : to'[1 - s][p] = to[1 - s][p]
         /\ to'[1 - s][Unread(1 - s) + 1] = Message(s, what, val)
<1>1. 1 - s \in Server /\ 1 - s # s /\ Server = {s, 1 - s}
  BY DEF Server
<1>2. PICK q : q = to[1 - s]
  OBVIOUS
<1>3. PICK m : m = Message(s, what, val)
  OBVIOUS
<1>4. PICK n \in Nat : n = Len(q) /\ n = Unread(1 - s) /\ q = [p \in 1 .. n |-> q[p]]
  BY <1>1, <1>2 DEF Streams, Unread
<1>5. Append(q, m) = [p \in 1 .. n + 1 |-> IF p <= n THEN q[p] ELSE m]
  BY <1>4
<1>6. PICK r : r = Append(q, m)
  OBVIOUS
<1>7. Len(r) = n + 1 /\ r = [p \in 1 .. n + 1 |-> r[p]]
      /\ (\A p \in 1 .. n : r[p] = q[p]) /\ r[n + 1] = m
  BY <1>4, <1>5, <1>6
<1>8. to' = [to EXCEPT ![1 - s] = r]
  BY <1>2, <1>3, <1>6 DEF Put
<1>9. to'[1 - s] = r /\ to'[s] = to[s] /\ to' = [t \in Server |-> to'[t]]
  BY <1>1, <1>8 DEF Streams
<1>10. Unread(s)' = Unread(s) /\ Unread(1 - s)' = n + 1
  BY <1>7, <1>9 DEF Unread
<1>11. Streams'
  <2>1. Unread(1 - s)' \in Nat /\ to'[1 - s] = [p \in 1 .. Unread(1 - s)' |-> to'[1 - s][p]]
    BY <1>4, <1>7, <1>9, <1>10
  <2>2. Unread(s)' \in Nat /\ to'[s] = [p \in 1 .. Unread(s)' |-> to'[s][p]]
    BY <1>1, <1>9, <1>10 DEF Streams
  <2> QED
    BY <1>1, <1>9, <2>1, <2>2 DEF Streams
<1> QED
  BY <1>2, <1>3, <1>4, <1>7, <1>9, <1>10, <1>11

\* The message taken is the first.
LEMMA Taken ==
  ASSUME Streams, NEW s \in Server, NEW what, Get(s, what)
  PROVE  /\ Streams' /\ Unread(1 - s)' = Unread(1 - s) /\ to'[1 - s] = to[1 - s]
         /\ Unread(s) > 0 /\ Unread(s)' = Unread(s) - 1
         /\ Head(to[s]) = to[s][1] /\ to[s][1].kind = what
         /\ \A p \in 1 .. Unread(s) - 1 : to'[s][p] = to[s][p + 1]
<1>1. 1 - s \in Server /\ 1 - s # s /\ Server = {s, 1 - s}
  BY DEF Server
<1>2. PICK q : q = to[s]
  OBVIOUS
<1>3. PICK n \in Nat : n = Len(q) /\ n = Unread(s) /\ q = [p \in 1 .. n |-> q[p]]
  BY <1>1, <1>2 DEF Streams, Unread
<1>4. n > 0
  <2>1. q # <<>>
    BY <1>2 DEF Get
  <2>2. n = 0 => q = <<>>
    BY <1>3
  <2> QED
    BY <2>1, <2>2
<1>5. PICK r : r = Tail(q)
  OBVIOUS
<1>6. r = [p \in 1 .. n - 1 |-> q[p + 1]] /\ Head(q) = q[1]
  BY <1>3, <1>4, <1>5
<1>7. Len(r) = n - 1 /\ r = [p \in 1 .. n - 1 |-> r[p]]
      /\ \A p \in 1 .. n - 1 : r[p] = q[p + 1]
  BY <1>3, <1>4, <1>6
<1>8. to' = [to EXCEPT ![s] = r] /\ Head(q).kind = what
  BY <1>2, <1>5 DEF Get
<1>9. to'[s] = r /\ to'[1 - s] = to[1 - s] /\ to' = [t \in Server |-> to'[t]]
  BY <1>1, <1>8 DEF Streams
<1>10. Unread(s)' = n - 1 /\ Unread(1 - s)' = Unread(1 - s)
  BY <1>7, <1>9 DEF Unread
<1>11. Streams'
  <2>1. Unread(s)' \in Nat /\ to'[s] = [p \in 1 .. Unread(s)' |-> to'[s][p]]
    BY <1>3, <1>4, <1>7, <1>9, <1>10
  <2>2. Unread(1 - s)' \in Nat /\ to'[1 - s] = [p \in 1 .. Unread(1 - s)' |-> to'[1 - s][p]]
    BY <1>1, <1>9, <1>10 DEF Streams
  <2> QED
    BY <1>1, <1>9, <2>1, <2>2 DEF Streams
<1> QED
  BY <1>2, <1>3, <1>4, <1>6, <1>7, <1>8, <1>9, <1>10, <1>11

\* What a server does in an exchange with what it tells in it.
Tells(s, what) ==
    /\ \A kind : kind # what => Val(s, kind)' = Val(s, kind)
    /\ \A kind : Val(1 - s, kind)' = Val(1 - s, kind)

\* A send in an exchange both are in leaves the wire as expected.
LEMMA WireSends ==
  ASSUME Streams, NEW g \in Exchanges, Wire(g), NEW s \in Server, NEW what, NEW val,
         Put(s, what, val), Rem(s) \in 2 .. Steps(g),
         StepAt(s, g, Rem(s)) = Item("send", what),
         cur' = cur, cur[0] = cur[1], Rem(s)' = Rem(s) - 1, Rem(1 - s)' = Rem(1 - s),
         Tells(s, what), val = Val(s, what)'
  PROVE  Wire(g)'
<1>1. 1 - s \in Server /\ Server = {s, 1 - s} /\ 1 - (1 - s) = s /\ cur[1 - s] = cur[s]
  BY DEF Server
<1>2. PICK w \in Nat, d \in Nat, w1 \in Nat, d1 \in Nat :
         /\ w = Written(s, g, Rem(s)) /\ d = WasRead(s, g, Rem(s))
         /\ w1 = Written(1 - s, g, Rem(1 - s)) /\ d1 = WasRead(1 - s, g, Rem(1 - s))
  BY TableTypes
<1>3. /\ Written(s, g, Rem(s))' = w + 1 /\ WasRead(s, g, Rem(s))' = d
      /\ Kind(1 - s, g, w + 1) = what
      /\ \A n \in 1 .. w : Kind(1 - s, g, n) # what
  BY <1>2, SendTable
<1>4. Written(1 - s, g, Rem(1 - s))' = w1 /\ WasRead(1 - s, g, Rem(1 - s))' = d1
  BY <1>2
<1>5. /\ d <= w1 /\ Unread(s) = w1 - d
      /\ \A p \in 1 .. Unread(s) : Carries(to[s][p], s, Kind(s, g, d + p), cur[s])
      /\ d1 <= w /\ Unread(1 - s) = w - d1
      /\ \A p \in 1 .. Unread(1 - s) :
            Carries(to[1 - s][p], 1 - s, Kind(1 - s, g, d1 + p), cur[s])
  BY <1>1, <1>2 DEF Wire
<1>6. /\ Unread(s)' = Unread(s) /\ to'[s] = to[s] /\ Unread(1 - s)' = Unread(1 - s) + 1
      /\ \A p \in 1 .. Unread(1 - s) : to'[1 - s][p] = to[1 - s][p]
      /\ to'[1 - s][Unread(1 - s) + 1] = Message(s, what, val)
  BY Sent
<1>7. /\ d <= w1 /\ Unread(s)' = w1 - d
      /\ \A p \in 1 .. Unread(s)' : Carries(to[s][p], s, Kind(s, g, d + p), cur[s])'
  BY ZenonT(40), <1>5, <1>6 DEF Carries, Tells
<1>8. d1 <= w + 1 /\ Unread(1 - s)' = (w + 1) - d1
  BY <1>2, <1>5, <1>6
<1>9. ASSUME NEW p \in 1 .. Unread(1 - s)'
      PROVE  Carries(to[1 - s][p], 1 - s, Kind(1 - s, g, d1 + p), cur[s])'
  <2>1. CASE p = Unread(1 - s) + 1
    <3>1. d1 + p = w + 1
      BY <1>2, <1>5, <2>1
    <3>2. to'[1 - s][p] = [kind |-> what, client |-> cur[s], val |-> val]
      BY <1>6, <2>1 DEF Message
    <3> QED
      BY <1>1, <1>3, <3>1, <3>2 DEF Carries
  <2>2. CASE p \in 1 .. Unread(1 - s)
    <3>1. d1 + p \in 1 .. w
      BY <1>2, <1>5, <2>2
    <3>2. Kind(1 - s, g, d1 + p) # what
      BY <1>3, <3>1
    <3>3. Val(s, Kind(1 - s, g, d1 + p))' = Val(s, Kind(1 - s, g, d1 + p))
      BY <3>2 DEF Tells
    <3> QED
      BY <1>1, <1>5, <1>6, <2>2, <3>3 DEF Carries
  <2> QED
    BY <1>2, <1>5, <1>6, <2>1, <2>2
<1>10. ASSUME NEW t \in Server
       PROVE /\ WasRead(t, g, Rem(t))' <= Written(1 - t, g, Rem(1 - t))'
             /\ Unread(t)' = Written(1 - t, g, Rem(1 - t))' - WasRead(t, g, Rem(t))'
             /\ \A p \in 1 .. Unread(t)' :
                   Carries(to[t][p], t, Kind(t, g, WasRead(t, g, Rem(t)) + p), cur[t])'
  <2>1. CASE t = s
    BY <1>3, <1>4, <1>7, <2>1
  <2>2. CASE t = 1 - s
    BY <1>1, <1>3, <1>4, <1>8, <1>9, <2>2
  <2> QED
    BY <1>1, <2>1, <2>2
<1> QED
  BY <1>10 DEF Wire


\* The first message is the one due, with what the other has now.
LEMMA WireFirst ==
  ASSUME NEW g, Wire(g), NEW s \in Server, Unread(s) \in Nat, Unread(s) > 0
  PROVE  Carries(to[s][1], s, Kind(s, g, WasRead(s, g, Rem(s)) + 1), cur[s])
  BY DEF Wire

\* So does a read in it.
LEMMA WireReads ==
  ASSUME Streams, NEW g \in Exchanges, Wire(g), NEW s \in Server, NEW what,
         Get(s, what), Rem(s) \in 2 .. Steps(g),
         StepAt(s, g, Rem(s)) = Item("recv", what),
         cur' = cur, Rem(s)' = Rem(s) - 1, Rem(1 - s)' = Rem(1 - s),
         \A t \in Server : \A n : Val(1 - t, Kind(t, g, n))' = Val(1 - t, Kind(t, g, n))
  PROVE  Wire(g)'
<1>1. 1 - s \in Server /\ Server = {s, 1 - s} /\ 1 - (1 - s) = s
  BY DEF Server
<1>2. PICK w \in Nat, d \in Nat, w1 \in Nat, d1 \in Nat :
         /\ w = Written(s, g, Rem(s)) /\ d = WasRead(s, g, Rem(s))
         /\ w1 = Written(1 - s, g, Rem(1 - s)) /\ d1 = WasRead(1 - s, g, Rem(1 - s))
  BY TableTypes
<1>3. Written(s, g, Rem(s))' = w /\ WasRead(s, g, Rem(s))' = d + 1
  BY <1>2, ReadTable
<1>4. Written(1 - s, g, Rem(1 - s))' = w1 /\ WasRead(1 - s, g, Rem(1 - s))' = d1
  BY <1>2
<1>5. /\ d <= w1 /\ Unread(s) = w1 - d
      /\ \A p \in 1 .. Unread(s) : Carries(to[s][p], s, Kind(s, g, d + p), cur[s])
      /\ d1 <= w /\ Unread(1 - s) = w - d1
      /\ \A p \in 1 .. Unread(1 - s) :
            Carries(to[1 - s][p], 1 - s, Kind(1 - s, g, d1 + p), cur[1 - s])
  BY <1>1, <1>2 DEF Wire
<1>6. /\ Unread(s) > 0 /\ Unread(s)' = Unread(s) - 1
      /\ Unread(1 - s)' = Unread(1 - s) /\ to'[1 - s] = to[1 - s]
      /\ \A p \in 1 .. Unread(s) - 1 : to'[s][p] = to[s][p + 1]
  BY Taken
<1>7. \A n : Val(1 - s, Kind(s, g, n))' = Val(1 - s, Kind(s, g, n))
  OBVIOUS
<1>8. \A n : Val(s, Kind(1 - s, g, n))' = Val(s, Kind(1 - s, g, n))
  BY <1>1
<1>9. d1 <= w /\ Unread(1 - s)' = w - d1
  BY <1>5, <1>6
<1>10. ASSUME NEW p \in 1 .. Unread(1 - s)'
       PROVE  Carries(to[1 - s][p], 1 - s, Kind(1 - s, g, d1 + p), cur[1 - s])'
  BY <1>1, <1>5, <1>6, <1>8 DEF Carries
<1>11. d + 1 <= w1 /\ Unread(s)' = w1 - (d + 1)
  BY <1>2, <1>5, <1>6
<1>12. ASSUME NEW p \in 1 .. Unread(s)'
       PROVE  Carries(to[s][p], s, Kind(s, g, d + 1 + p), cur[s])'
  <2>1. p + 1 \in 1 .. Unread(s) /\ p \in 1 .. Unread(s) - 1 /\ d + (p + 1) = d + 1 + p
    BY <1>2, <1>5, <1>6
  <2>2. Carries(to[s][p + 1], s, Kind(s, g, d + 1 + p), cur[s]) /\ to'[s][p] = to[s][p + 1]
    BY <1>5, <1>6, <2>1
  <2> QED
    BY <1>7, <2>2 DEF Carries
<1>13. ASSUME NEW t \in Server
       PROVE /\ WasRead(t, g, Rem(t))' <= Written(1 - t, g, Rem(1 - t))'
             /\ Unread(t)' = Written(1 - t, g, Rem(1 - t))' - WasRead(t, g, Rem(t))'
             /\ \A p \in 1 .. Unread(t)' :
                   Carries(to[t][p], t, Kind(t, g, WasRead(t, g, Rem(t)) + p), cur[t])'
  <2>1. CASE t = s
    BY <1>3, <1>4, <1>11, <1>12, <2>1
  <2>2. CASE t = 1 - s
    BY <1>1, <1>3, <1>4, <1>9, <1>10, <2>2
  <2> QED
    BY <1>1, <2>1, <2>2
<1> QED
  BY <1>13 DEF Wire

\* And a Meet.
LEMMA WireMeets ==
  ASSUME NEW g \in RealOps, Wire(g), UNCHANGED <<to, cur, randomX, num_inputs, snips_seed>>,
         \A s \in Server : /\ Rem(s) \in 1 .. Steps(g) /\ StepAt(s, g, Rem(s)) = Meet
                           /\ Rem(s)' = Rem(s) - 1
  PROVE  Wire(g)'
<1>1. \A s \in Server : 1 - s \in Server
  BY DEF Server
<1>2. g # "startup" /\ g \in Exchanges
  BY Families DEF Exchanges
<1>3. \A s \in Server : /\ Written(s, g, Rem(s))' = Written(s, g, Rem(s))
                        /\ WasRead(s, g, Rem(s))' = WasRead(s, g, Rem(s))
  BY <1>2, MeetTable
<1>4. \A s : Unread(s)' = Unread(s) /\ \A kind : Val(s, kind)' = Val(s, kind)
  BY DEF Unread, Val
<1> QED
  BY <1>1, <1>3, <1>4 DEF Wire, Carries
-----------------------------------------------------------------------------
(* The line of clients.                                                    *)

\* How far a client is.
LEMMA StageFacts ==
  ASSUME Line, NEW c \in DOMAIN ops
  PROVE  /\ Reached(c, "at1") <=> conn[c] \in Joined(1)
         /\ conn[c] = "started" => Stages[StageOf(c) + 1] = "at0"
         /\ conn[c] = "at0" => Stages[StageOf(c) + 1] = "at1"
         /\ conn[c] \in Joined(1) \ {"sent"} =>
               Stages[StageOf(c) + 1] \in Joined(1) \ {"at1"}
<1>1. conn[c] \in {"started", "at0", "at1", "init0", "init1", "sent"}
  BY DEF Line, Joined
<1>2. /\ DOMAIN Stages = 1 .. 6 /\ Stages[1] = "started" /\ Stages[2] = "at0" /\ Stages[3] = "at1"
      /\ Stages[4] = "init0" /\ Stages[5] = "init1" /\ Stages[6] = "sent"
  BY DEF Stages
<1> HIDE DEF Stages
<1>3. \A k \in DOMAIN Stages : Stages[k] = conn[c] => StageOf(c) = k
  BY <1>2 DEF StageOf
<1>4. CASE conn[c] = "started"
  <2>1. StageOf(c) = 1
    BY <1>2, <1>3, <1>4
  <2> QED
    BY <1>2, <1>4, <2>1 DEF Reached, Joined
<1>5. CASE conn[c] = "at0"
  <2>1. StageOf(c) = 2
    BY <1>2, <1>3, <1>5
  <2> QED
    BY <1>2, <1>5, <2>1 DEF Reached, Joined
<1>6. CASE conn[c] \in {"at1", "init0", "init1", "sent"}
  <2>1. StageOf(c) \in 3 .. 6 /\ Stages[StageOf(c)] = conn[c]
    BY <1>2, <1>3, <1>6
  <2>2. Reached(c, "at1")
    BY <1>2, <2>1 DEF Reached
  <2>3. conn[c] # "sent" => StageOf(c) \in 3 .. 5
    BY <1>2, <2>1
  <2> QED
    BY <1>2, <1>6, <2>2, <2>3 DEF Joined
<1> QED
  BY <1>1, <1>4, <1>5, <1>6

\* A client lines up at a server last.
LEMMA ClientStepLine ==
  ASSUME Line, cur \in [Server -> Nat], NEW c \in DOMAIN ops, ClientStep(c)
  PROVE  Line'
<1>1. /\ ops' = ops /\ cur' = cur /\ conn[c] # "sent"
      /\ conn' = [conn EXCEPT ![c] = Stages[StageOf(c) + 1]]
      /\ backlog' = [s \in Server |->
                       IF conn'[c] = (IF s = 0 THEN "at0" ELSE "at1")
                       THEN Append(backlog[s], c) ELSE backlog[s]]
  BY DEF ClientStep
<1>2. \A b \in DOMAIN ops : b < c => conn[b] \in Joined(1)
  BY StageFacts DEF ClientStep
<1>3. conn'[c] = Stages[StageOf(c) + 1] /\ \A b \in DOMAIN ops : b # c => conn'[b] = conn[b]
  BY <1>1 DEF Line
<1>4. \/ conn[c] = "started" /\ conn'[c] = "at0"
      \/ conn[c] = "at0" /\ conn'[c] = "at1"
      \/ conn[c] \in Joined(1) /\ conn'[c] \in Joined(1) \ {"at1"}
  <2>1. conn[c] \in {"started", "at0"} \cup Joined(1)
    BY DEF Line, Joined
  <2> QED
    BY <1>1, <1>3, <2>1, StageFacts
<1>5. conn' \in [DOMAIN ops -> {"started"} \cup Joined(0)]
  BY <1>1, <1>3, <1>4 DEF Line, Joined
<1>6. PICK n \in Nat : n = Clients /\ DOMAIN ops = 1 .. n
  BY DEF Line, Clients
<1>7. ASSUME NEW s \in Server
      PROVE  /\ Waiting(s)' \in Nat
             /\ backlog'[s] = [p \in 1 .. Waiting(s)' |-> cur[s] + p]
             /\ \A b \in DOMAIN ops : b <= cur[s] + Waiting(s)' <=> conn'[b] \in Joined(s)
             /\ cur[s] + Waiting(s)' <= n
  <2>1. PICK q : q = backlog[s]
    OBVIOUS
  <2>2. PICK m \in Nat : m = Waiting(s) /\ m = Len(q) /\ q = [p \in 1 .. m |-> cur[s] + p]
    BY <2>1 DEF Line, Waiting
  <2>3. (\A b \in DOMAIN ops : b <= cur[s] + m <=> conn[b] \in Joined(s)) /\ cur[s] + m <= n
    BY <1>6, <2>2 DEF Line
  <2>4. PICK k \in Nat : k = cur[s]
    OBVIOUS
  <2>5. CASE conn'[c] = (IF s = 0 THEN "at0" ELSE "at1")
    <3>1. conn[c] \notin Joined(s) /\ conn'[c] \in Joined(s)
      BY <1>4, <2>5 DEF Server, Joined
    <3>2. \A b \in DOMAIN ops : b < c => conn[b] \in Joined(s)
      BY <1>2 DEF Joined
    <3>3. c = k + m + 1
      <4>1. c > k + m /\ c \in 1 .. n
        BY <1>6, <2>3, <2>4, <3>1
      <4>2. CASE c > k + m + 1
        <5>1. k + m + 1 \in 1 .. n /\ k + m + 1 < c
          BY <4>1, <4>2
        <5>2. conn[k + m + 1] \in Joined(s)
          BY <1>6, <3>2, <5>1
        <5>3. k + m + 1 <= k + m
          BY <1>6, <2>3, <2>4, <5>1, <5>2
        <5> QED
          BY <5>3
      <4> QED
        BY <4>1, <4>2
    <3>4. backlog'[s] = Append(q, c)
      BY <1>1, <2>1, <2>5
    <3>5. Append(q, c) = [p \in 1 .. m + 1 |-> IF p <= m THEN k + p ELSE c]
      BY <2>2, <2>4
    <3>6. PICK r : r = backlog'[s]
      OBVIOUS
    <3>7. Len(r) = m + 1 /\ r = [p \in 1 .. m + 1 |-> k + p]
      <4>1. \A p \in 1 .. m + 1 : (IF p <= m THEN k + p ELSE c) = k + p
        BY <3>3
      <4>2. r = [p \in 1 .. m + 1 |-> k + p]
        BY <3>4, <3>5, <3>6, <4>1
      <4> QED
        BY <4>2
    <3>8. Waiting(s)' = m + 1
      BY <3>6, <3>7 DEF Waiting
    <3>9. c <= n
      BY <1>6
    <3>10. ASSUME NEW b \in DOMAIN ops
           PROVE  b <= k + m + 1 <=> conn'[b] \in Joined(s)
      BY <1>3, <1>6, <2>3, <2>4, <3>1, <3>3
    <3> QED
      BY <2>4, <3>3, <3>6, <3>7, <3>8, <3>9, <3>10
  <2>6. CASE conn'[c] # (IF s = 0 THEN "at0" ELSE "at1")
    <3>1. conn[c] \in Joined(s) <=> conn'[c] \in Joined(s)
      BY <1>4, <2>6 DEF Server, Joined
    <3>2. backlog'[s] = q
      BY <1>1, <2>1, <2>6
    <3>3. Waiting(s)' = m
      BY <2>2, <3>2 DEF Waiting
    <3>4. \A b \in DOMAIN ops : conn[b] \in Joined(s) <=> conn'[b] \in Joined(s)
      BY <1>3, <3>1
    <3> QED
      BY <2>2, <2>3, <3>2, <3>3, <3>4
  <2> QED
    BY <2>5, <2>6
<1>8. Clients' = Clients
  BY <1>1 DEF Clients
<1> QED
  BY <1>1, <1>5, <1>6, <1>7, <1>8 DEF Line

\* A server accepts the next client.
LEMMA AcceptLine ==
  ASSUME Line, cur \in [Server -> Nat], NEW s \in Server, Accept(s)
  PROVE  Line' /\ cur' = [cur EXCEPT ![s] = cur[s] + 1]
<1>1. PICK q : q = backlog[s]
  OBVIOUS
<1>2. PICK m \in Nat : m = Waiting(s) /\ m = Len(q) /\ q = [p \in 1 .. m |-> cur[s] + p]
  BY <1>1 DEF Line, Waiting
<1>3. m > 0
  <2>1. q # <<>>
    BY <1>1 DEF Accept
  <2>2. m = 0 => q = <<>>
    BY <1>2
  <2> QED
    BY <2>1, <2>2
<1>4. PICK k \in Nat : k = cur[s]
  OBVIOUS
<1>5. PICK r : r = Tail(q)
  OBVIOUS
<1>6. r = [p \in 1 .. m - 1 |-> q[p + 1]] /\ Head(q) = q[1]
  BY <1>2, <1>3, <1>5
<1>7. Len(r) = m - 1 /\ r = [p \in 1 .. m - 1 |-> k + 1 + p] /\ Head(q) = k + 1
  <2>1. \A p \in 1 .. m - 1 : q[p + 1] = k + 1 + p
    BY <1>2, <1>4
  <2>2. r = [p \in 1 .. m - 1 |-> k + 1 + p]
    BY <1>6, <2>1
  <2> QED
    BY <1>2, <1>3, <1>4, <1>6, <2>2
<1>8. /\ cur' = [cur EXCEPT ![s] = k + 1] /\ backlog' = [backlog EXCEPT ![s] = r]
      /\ ops' = ops /\ conn' = conn
  BY <1>1, <1>5, <1>7 DEF Accept
<1>9. /\ cur'[s] = k + 1 /\ backlog'[s] = r /\ backlog' = [t \in Server |-> backlog'[t]]
      /\ \A t \in Server : t # s => cur'[t] = cur[t] /\ backlog'[t] = backlog[t]
  BY <1>8 DEF Line
<1>10. Waiting(s)' = m - 1 /\ \A t \in Server : t # s => Waiting(t)' = Waiting(t)
  BY <1>7, <1>9 DEF Waiting
<1>11. Clients' = Clients
  BY <1>8 DEF Clients
<1>12. cur'[s] + Waiting(s)' = cur[s] + Waiting(s)
  BY <1>2, <1>4, <1>9, <1>10
<1>13. ASSUME NEW t \in Server
       PROVE /\ Waiting(t)' \in Nat
             /\ backlog'[t] = [p \in 1 .. Waiting(t)' |-> cur'[t] + p]
             /\ cur'[t] + Waiting(t)' = cur[t] + Waiting(t)
  <2>1. CASE t = s
    BY <1>3, <1>7, <1>9, <1>10, <1>12, <2>1
  <2>2. CASE t # s
    BY <1>9, <1>10, <2>2 DEF Line
  <2> QED
    BY <2>1, <2>2
<1>14. Line'
  BY <1>8, <1>9, <1>11, <1>13 DEF Line
<1> QED
  BY <1>4, <1>8, <1>14

-----------------------------------------------------------------------------
(* Steps that neither write nor read.                                      *)

Still == UNCHANGED <<ops, to, randomX, randx_uses, snips_seed, num_inputs, precomp>>

\* Between two clients, and not yet or no longer in an exchange.
LEMMA IdleStep ==
  ASSUME Pair, Still, NEW s \in Server,
         pc[s] \notin {"startup", "recv", "work"}, pc'[s] \notin {"startup", "recv", "work"},
         Fin(s)' = Fin(s), pc'[1 - s] = pc[1 - s], cur'[1 - s] = cur[1 - s],
         script'[1 - s] = script[1 - s],
         s = 0 /\ Owed => pc'[0] \in {"close", "top", "refresh"} /\ cur'[0] = cur[0]
  PROVE  Pair'
<1>1. s \in {0, 1} /\ 1 - s \in Server
  BY DEF Server
<1>2. /\ In(0)' = In(0) /\ In(1)' = In(1) /\ ~In(s)
      /\ Fin(0)' = Fin(0) /\ Fin(1)' = Fin(1)
  BY <1>1 DEF In, Fin
<1>3. /\ In(0) => s = 1 /\ cur'[0] = cur[0] /\ Rem(0)' = Rem(0) /\ Op(0)' = Op(0)
      /\ In(1) => s = 0 /\ cur'[1] = cur[1] /\ Rem(1)' = Rem(1) /\ Op(1)' = Op(1)
  BY <1>1, <1>2 DEF Rem, Op, Still
<1>4. ~Starting /\ ~Starting' /\ ~Together /\ ~Together' /\ (pc[0] = "startup" <=> pc[1] = "startup")'
  BY <1>1, <1>2 DEF Pair, Starting, Together
<1>5. Apart
  BY <1>4 DEF Pair
<1>6. Lagging' = Lagging /\ Owed' = Owed /\ Keyed' = Keyed
  BY <1>2, <1>3 DEF Lagging, Owed, Keyed, Still
<1>7. Unread(0)' = Unread(0) /\ Unread(1)' = Unread(1) /\ to' = to
  BY DEF Unread, Still
<1>8. \A t, kind : Val(t, kind)' = Val(t, kind)
  BY DEF Val, Still
<1>9. \A a, b : NoReal(a, b)' = NoReal(a', b')
  BY DEF NoReal, Real, Still
<1>10. Owed => cur'[0] = cur[0]
  <2>1. CASE s = 0
    BY <2>1
  <2>2. CASE s = 1
    BY <2>2
  <2> QED
    BY <1>1, <2>1, <2>2
<1>11. Trail'
  <2>1. Lagging => Carries(to[0][1], 0, "sum", cur[0])'
    BY <1>3, <1>5, <1>7, <1>8 DEF Apart, Trail, Carries, Lagging
  <2>2. Owed => Carries(to[0][One(Lagging) + 1], 0, "randomX", cur[0])'
    BY <1>5, <1>6, <1>7, <1>8, <1>10 DEF Apart, Trail, Carries
  <2>3. Keyed => Carries(to[0][One(Lagging) + One(Owed) + 1], 0, "keys", cur[1])'
    BY <1>3, <1>5, <1>6, <1>7, <1>8 DEF Apart, Trail, Carries, Keyed
  <2> QED
    BY <1>5, <1>6, <1>7, <2>1, <2>2, <2>3 DEF Apart, Trail
<1>12. Apart'
  BY <1>1, <1>2, <1>3, <1>5, <1>6, <1>9, <1>11 DEF Apart, Ended, Lagging, NoReal, Real, Still
<1> QED
  BY <1>4, <1>12 DEF Pair


\* Reading a client's shares.
LEMMA RecvSharesPair ==
  ASSUME Pair, Place, Still, NEW s \in Server, pc[s] = "recv", pc' = [pc EXCEPT ![s] = "work"],
         cur' = cur, script' = script
  PROVE  Pair'
<1>1. pc'[s] = "work" /\ \A t \in Server : t # s => pc'[t] = pc[t]
  BY DEF Place
<1>2. \A t \in Server : In(t)' = In(t) /\ Fin(t)' = Fin(t) /\ (pc'[t] = "startup" <=> pc[t] = "startup")
  BY <1>1 DEF In, Fin
<1>3. 0 \in Server /\ 1 \in Server
  BY DEF Server
<1>4. \A t : Op(t)' = Op(t) /\ Rem(t)' = Rem(t) /\ Unread(t)' = Unread(t)
  BY DEF Op, Rem, Unread, Still
<1>5. \A t, kind : Val(t, kind)' = Val(t, kind)
  BY DEF Val, Still
<1>6. ~Starting /\ ~Starting' /\ Together' = Together /\ (pc[0] = "startup" <=> pc[1] = "startup")'
  <2>1. pc[0] # "startup" \/ pc[1] # "startup"
    BY DEF Server
  <2> QED
    BY <1>2, <1>3, <2>1 DEF Pair, Starting, Together
<1>7. \A m, t, kind, client : Carries(m, t, kind, client)' = Carries(m', t', kind', client')
  BY <1>5 DEF Carries
<1>8. ASSUME Together PROVE SameExchange'
  <2>1. SameExchange
    BY <1>8 DEF Pair
  <2>2. (Met(Op(0)) /\ Wire(Op(0)))'
    BY <1>4, <1>5, <2>1 DEF SameExchange, Met, Wire, Carries, Still
  <2>3. \A t : Checked(t)' = Checked(t) /\ Drawn(t)' = Drawn(t)
    BY <1>4 DEF Checked, Drawn
  <2>4. Draws(1)' = Draws(1)
    BY DEF Draws, Still
  <2>5. SameUses' /\ SameSeed'
    BY <2>1, <2>3, <2>4 DEF SameExchange, SameUses, SameSeed, Still
  <2> QED
    BY <1>4, <2>1, <2>2, <2>5 DEF SameExchange, Still
<1>9. ASSUME ~Together PROVE Apart'
  <2>1. Apart
    BY <1>6, <1>9 DEF Pair
  <2>2. Lagging' = Lagging /\ Owed' = Owed /\ Keyed' = Keyed
    BY <1>2, <1>3, <1>4 DEF Lagging, Owed, Keyed, Still
  <2>3. \A a, b : NoReal(a, b)' = NoReal(a', b')
    BY DEF NoReal, Real, Still
  <2>4. Trail'
    BY <1>4, <1>5, <2>1, <2>2 DEF Apart, Trail, Carries, Still
  <2>5. Owed' => Lagging' \/ pc'[0] \in {"close", "top", "refresh"}
    BY <1>1, <1>3, <2>1, <2>2 DEF Apart
  <2> QED
    BY <1>2, <1>3, <1>4, <2>1, <2>2, <2>3, <2>4, <2>5 DEF Apart, Ended, NoReal, Real, Still
<1> QED
  BY <1>6, <1>8, <1>9 DEF Pair

\* The client just dealt with had no exchange.
LEMMA SkipPair ==
  ASSUME Pair, Place, Still, NEW s \in Server, pc[s] = "init", pc' = [pc EXCEPT ![s] = "close"],
         cur' = cur, \A t \in Server : t # s => script'[t] = script[t], ~Real(cur[s]),
         DOMAIN ops \subseteq Nat
  PROVE  Pair'
<1>1. pc'[s] = "close" /\ \A t \in Server : t # s => pc'[t] = pc[t]
  BY DEF Place
<1>2. cur[0] \in Nat /\ cur[1] \in Nat /\ 0 \in Server /\ 1 \in Server /\ (s = 0 \/ s = 1)
  BY DEF Place, Server
<1>3. /\ In(0)' = In(0) /\ In(1)' = In(1) /\ ~In(s) /\ (\A t \in Server : In(t) => t # s)
      /\ Fin(s) = cur[s] - 1 /\ Fin(s)' = cur[s]
      /\ \A t \in Server : t # s => Fin(t)' = Fin(t)
  BY <1>1, <1>2 DEF In, Fin
<1>4. \A t \in Server : In(t) => Rem(t)' = Rem(t) /\ Op(t)' = Op(t) /\ Real(cur[t])
  BY <1>3 DEF Rem, Op, Still, Place
<1>5. ~Starting /\ ~Starting' /\ ~Together /\ ~Together' /\ (pc[0] = "startup" <=> pc[1] = "startup")'
  BY <1>1, <1>2, <1>3 DEF Pair, Starting, Together
<1>6. Apart
  BY <1>5 DEF Pair
<1>7. Fin(0) \in Int /\ Fin(1) \in Int
  BY <1>2 DEF Fin
<1>8. Lagging' = Lagging
  <2>1. CASE s = 0
    BY <1>3, <2>1 DEF Lagging
  <2>2. CASE s = 1
    <3>1. In(0) => cur[0] # cur[1]
      BY <1>2, <1>4, <2>2
    <3> QED
      BY <1>2, <1>3, <1>7, <2>2, <3>1 DEF Lagging
  <2> QED
    BY <1>2, <2>1, <2>2
<1>9. Owed' = Owed /\ Keyed' = Keyed
  BY <1>2, <1>3, <1>4 DEF Owed, Keyed, Still
<1>10. \A t : Unread(t)' = Unread(t) /\ \A kind : Val(t, kind)' = Val(t, kind)
  BY DEF Unread, Val, Still
<1>11. Trail'
  BY <1>6, <1>8, <1>9, <1>10 DEF Apart, Trail, Carries, Still
<1>12. NoReal(Ended, Fin(1))' /\ NoReal(Fin(1), Fin(0))'
  <2>1. \A c : Real(c)' = Real(c)
    BY DEF Real, Still
  <2>2. PICK a \in Int, b \in Int : a = Ended /\ b = Fin(1)
    BY <1>2, <1>7 DEF Ended
  <2>3. PICK a0 \in Int, a1 \in Int, b1 \in Int :
          a0 = Fin(0) /\ a1 = Ended' /\ b1 = Fin(1)'
    BY <1>2, <1>3, <1>7, <1>8 DEF Ended
  <2>4. PICK k \in Nat : k = cur[s]
    BY <1>2
  <2>5. \A c \in DOMAIN ops : Real(c) => c # k /\ c \in Int
    BY <2>4
  <2>6. \A c \in DOMAIN ops : /\ a < c /\ c <= b => ~Real(c)
                              /\ b < c /\ c <= a0 => ~Real(c)
    BY <1>6, <2>2, <2>3 DEF Apart, NoReal
  <2>7. \/ s = 0 /\ a = k - 1 /\ a0 = k - 1 /\ a1 = k /\ b1 = b /\ Fin(0)' = k
        \/ s = 1 /\ b = k - 1 /\ b1 = k /\ a1 = a /\ Fin(0)' = a0
    BY <1>2, <1>3, <1>8, <2>2, <2>3, <2>4 DEF Lagging, Ended
  <2>8. \A c \in DOMAIN ops : /\ a1 < c /\ c <= b1 => ~Real(c)
                              /\ b1 < c /\ c <= Fin(0)' => ~Real(c)
    <3>1. CASE s = 0
      BY <2>5, <2>6, <2>7, <3>1
    <3>2. CASE s = 1
      BY <2>5, <2>6, <2>7, <3>2
    <3> QED
      BY <1>2, <3>1, <3>2
  <2>9. \A c \in DOMAIN ops' : /\ a1 < c /\ c <= b1 => ~Real(c)'
                               /\ b1 < c /\ c <= Fin(0)' => ~Real(c)'
    BY <2>1, <2>8 DEF Still
  <2>10. NoReal(Ended, Fin(1))'
    BY <2>3, <2>9 DEF NoReal
  <2> QED
    BY <2>3, <2>9, <2>10 DEF NoReal
<1>13. Owed' => Lagging' \/ pc'[0] \in {"close", "top", "refresh"}
  BY <1>1, <1>2, <1>6, <1>8, <1>9 DEF Apart
<1>14. Apart'
  BY <1>2, <1>3, <1>4, <1>6, <1>8, <1>9, <1>11, <1>12, <1>13 DEF Apart, Still
<1> QED
  BY <1>5, <1>14 DEF Pair

\* A server gets to the next operation.
LEMMA RecvInitPair ==
  ASSUME Pair, Place, Counts, Still, NEW s \in Server, pc[s] = "init",
         pc' = [pc EXCEPT ![s] = "recv"], cur' = cur,
         \A t \in Server : t # s => script'[t] = script[t],
         Real(cur[s]), Rem(s)' = Steps(Op(s)), DOMAIN ops \subseteq Nat
  PROVE  Pair'
<1>1. pc'[s] = "recv" /\ \A t \in Server : t # s => pc'[t] = pc[t]
  BY DEF Place
<1>2. cur[0] \in Nat /\ cur[1] \in Nat /\ 0 \in Server /\ 1 \in Server /\ (s = 0 \/ s = 1)
  BY DEF Place, Server
<1>3. /\ ~In(s) /\ In(s)' /\ \A t \in Server : Fin(t)' = Fin(t) /\ (t # s => In(t)' = In(t))
      /\ Fin(s) = cur[s] - 1
  BY <1>1, <1>2 DEF In, Fin
<1>4. /\ \A t \in Server : Op(t)' = Op(t) /\ (t # s => Rem(t)' = Rem(t))
      /\ \A t \in Server : In(t) => Real(cur[t])
  BY DEF Rem, Op, Still, Place
<1>5. /\ ~Starting /\ ~Starting' /\ ~Together /\ (pc[0] = "startup" <=> pc[1] = "startup")'
      /\ Together' = (In(1 - s) /\ cur[0] = cur[1])
  BY <1>1, <1>2, <1>3 DEF Pair, Starting, Together
<1>6. Apart
  BY <1>5 DEF Pair
<1>7. Fin(0) \in Int /\ Fin(1) \in Int /\ \A t \in Server : In(t) => Fin(t) = cur[t] - 1
  BY <1>2 DEF Fin, In
<1>8. s = 0 => cur[0] > Fin(1)
  <2>1. s = 0 /\ cur[0] <= Fin(1) => ~Real(cur[0])
    BY <1>2, <1>3, <1>6, <1>7 DEF Apart, Ended, NoReal, Lagging, Real
  <2> QED
    BY <1>2, <1>7, <2>1
<1>9. Lagging' = Lagging /\ (s = 0 => ~Lagging)
  BY <1>2, <1>3, <1>7, <1>8 DEF Lagging
<1>10. Owed' = Owed /\ (s = 0 => ~Owed)
  BY <1>6, <1>9 DEF Owed, Still, Apart
<1>11. Keyed' = Keyed /\ (s = 1 => ~Keyed)
  BY <1>2, <1>3, <1>4 DEF Keyed
<1>12. \A t : Unread(t)' = Unread(t) /\ \A kind : Val(t, kind)' = Val(t, kind)
  BY DEF Unread, Val, Still
<1>13. \A a, b : NoReal(a, b)' = NoReal(a', b')
  BY DEF NoReal, Real, Still
<1>14. Trail'
  BY <1>6, <1>9, <1>10, <1>11, <1>12 DEF Apart, Trail, Carries, Still
<1>15. Apart'
  <2>1. NoReal(Ended, Fin(1))' /\ NoReal(Fin(1), Fin(0))'
    BY <1>2, <1>3, <1>6, <1>9, <1>13 DEF Apart, Ended
  <2>2. (In(0) => Rem(0) = IF Lagging THEN 1 ELSE Steps(Op(0)))'
    BY <1>2, <1>3, <1>4, <1>6, <1>9 DEF Apart
  <2>3. Steps(Op(s)) \in Nat
    BY Families DEF Real, Op
  <2>4. (In(1) => Rem(1) >= Steps(Op(1)) - 1)'
    BY <1>2, <1>3, <1>4, <1>6, <2>3 DEF Apart
  <2>5. Owed' => Lagging' \/ pc'[0] \in {"close", "top", "refresh"}
    BY <1>1, <1>2, <1>6, <1>9, <1>10 DEF Apart
  <2> QED
    BY <1>6, <1>10, <1>14, <2>1, <2>2, <2>4, <2>5 DEF Apart, Still
<1>16. ASSUME Together' PROVE SameExchange'
  <2>1. In(1 - s) /\ cur[0] = cur[1] /\ Op(0) = Op(1) /\ Op(0) \in RealOps
    BY <1>2, <1>4, <1>5, <1>16 DEF Op, Real
  <2>2. PICK g \in RealOps : g = Op(0) /\ g = Op(1) /\ g = Op(0)' /\ g = Op(1)'
    BY <1>2, <1>4, <2>1
  <2>3. ~Lagging
    BY <1>2, <1>3, <1>7, <1>9, <2>1 DEF Lagging
  <2>4. ~Owed
    BY <1>1, <1>2, <1>6, <1>10, <2>1, <2>3 DEF Apart, In
  <2>5. PICK n \in Nat : n = Steps(g) /\ n \in 3 .. 8 /\ (g \in SnipOps => n = 8) /\ (g \in SketchOps => n = 5)
    BY Families
  <2>6. Rem(0)' = n /\ Rem(1)' \in {n - 1, n}
    <3>1. CASE s = 0
      <4>1. In(1) /\ Rem(1)' = Rem(1) /\ Rem(1) >= n - 1 /\ Rem(0)' = n
        BY <1>2, <1>4, <1>6, <2>1, <2>2, <2>5, <3>1 DEF Apart
      <4>2. Rem(1) \in 1 .. n
        BY <1>2, <2>2, <2>5, <4>1 DEF Place, In, Scripted, Segment
      <4> QED
        BY <2>5, <4>1, <4>2
    <3>2. CASE s = 1
      BY <1>2, <1>4, <1>6, <2>1, <2>2, <2>3, <2>5, <3>2 DEF Apart
    <3> QED
      BY <1>2, <3>1, <3>2
  <2>7. Keyed' <=> Rem(1)' = n - 1
    BY <1>2, <1>3, <2>1, <2>2, <2>5, <2>6 DEF Keyed
  <2>8. Unread(1)' = 0 /\ Unread(0)' = One(Rem(1)' = n - 1)
    BY <1>9, <1>10, <1>14, <2>3, <2>4, <2>7 DEF Trail, One
  <2>9. Rem(1)' = n - 1 => Carries(to[0][1], 0, "keys", cur[1])'
    BY <1>9, <1>10, <1>14, <2>3, <2>4, <2>7 DEF Trail, One
  <2>10. /\ WasRead(0, g, Rem(0))' = 0 /\ Written(0, g, Rem(0))' = 0 /\ WasRead(1, g, Rem(1))' = 0
         /\ Written(1, g, Rem(1))' = One(Rem(1)' = n - 1)
    BY <2>5, <2>6 DEF WasRead, Written, One
  <2>11. Kind(0, g, 1) = "keys"
    BY Families DEF Kind
  <2>12. Wire(g)'
    <3>1. ASSUME NEW p \in 1 .. Unread(0)'
          PROVE  Carries(to[0][p], 0, Kind(0, g, WasRead(0, g, Rem(0)) + p), cur[0])'
      <4>1. p = 1 /\ Rem(1)' = n - 1
        BY <2>8 DEF One
      <4>2. 0 + p = 1 /\ cur'[0] = cur'[1]
        BY <2>1, <4>1
      <4> QED
        BY <2>9, <2>10, <2>11, <4>1, <4>2 DEF Carries
    <3>2. ASSUME NEW t \in Server
          PROVE  /\ WasRead(t, g, Rem(t))' <= Written(1 - t, g, Rem(1 - t))'
                 /\ Unread(t)' = Written(1 - t, g, Rem(1 - t))' - WasRead(t, g, Rem(t))'
                 /\ \A p \in 1 .. Unread(t)' :
                       Carries(to[t][p], t, Kind(t, g, WasRead(t, g, Rem(t)) + p), cur[t])'
      <4>1. CASE t = 0
        BY <2>8, <2>10, <3>1, <4>1 DEF One
      <4>2. CASE t = 1
        BY <2>8, <2>10, <4>2
      <4> QED
        BY <4>1, <4>2 DEF Server
    <3> QED
      BY <3>2 DEF Wire
  <2>13. Met(g)'
    BY <2>5, <2>6 DEF Met
  <2>14. ~Checked(0)' /\ ~Checked(1)' /\ ~Drawn(0)' /\ ~Drawn(1)'
    BY <2>2, <2>5, <2>6 DEF Checked, Drawn
  <2>15. randx_uses[0] = randx_uses[1] /\ randomX[0] = randomX[1] /\ snips_seed[0] = snips_seed[1]
    BY <1>6, <2>4 DEF Apart
  <2>16. SameUses' /\ SameSeed'
    BY <2>14, <2>15 DEF SameUses, SameSeed, Still, Server
  <2>17. ~(Rem(0)' < Steps(g))
    BY <2>5, <2>6
  <2> QED
    BY <2>2, <2>12, <2>13, <2>15, <2>16, <2>17 DEF SameExchange, Still
<1> QED
  BY <1>5, <1>15, <1>16 DEF Pair


\* The invariant that the Pair lemmas leave.
LEMMA StillInv ==
  ASSUME LoopInv, Still, Place', Line', Pair',
         \A s \in Server : (DueAt(s) /\ (pc[s] = "refresh" => randx_uses[s] > RandomXThreshold)
                            /\ (In(s) /\ Checked(s) => Size(s) \in DOMAIN precomp[s]))'
  PROVE  LoopInv'
<1>1. Streams'
  BY DEF LoopInv, Streams, Still, Unread
<1>2. PointInv'
  BY DEF LoopInv, PointInv, PointRetired, Still
<1>3. Counts'
  BY DEF LoopInv, Counts, Still
<1> QED
  BY <1>1, <1>2, <1>3 DEF LoopInv

\* A server that is elsewhere now; the other stays where it is.
LEMMA PlaceStep ==
  ASSUME Place, NEW s \in Server, ops' = ops, pc' = [t \in Server |-> pc'[t]],
         cur' \in [Server -> Nat], script' = [t \in Server |-> script'[t]],
         \A t \in Server : t # s => pc'[t] = pc[t] /\ cur'[t] = cur[t] /\ script'[t] = script[t],
         (/\ pc[s] \in Scripted \cup {"top", "accept", "init", "close"}
          /\ pc[s] \in Scripted => /\ Rem(s) \in 1 .. Steps(Segment(s))
                                   /\ script[s] = Script(s, Segment(s), Rem(s))
          /\ pc[s] \notin Scripted => script[s] = <<>>
          /\ pc[s] = "startup" => cur[s] = 0
          /\ pc[s] \in {"init", "recv", "work", "close"} => cur[s] > 0
          /\ In(s) => Real(cur[s])
          /\ pc[s] = "recv" => Rem(s) = Steps(Op(s)))'
  PROVE  Place'
<1>1. ASSUME NEW t \in Server, t # s
      PROVE  /\ Rem(t)' = Rem(t) /\ Segment(t)' = Segment(t) /\ Op(t)' = Op(t)
             /\ Real(cur[t])' = Real(cur[t]) /\ In(t)' = In(t)
  BY <1>1 DEF Rem, Segment, In, Op, Real
<1>2. \A t \in Server : pc'[t] \in Scripted \cup {"top", "accept", "init", "close"}
  BY DEF Place
<1>3. ASSUME NEW t \in Server, t # s
      PROVE (/\ pc[t] \in Scripted => /\ Rem(t) \in 1 .. Steps(Segment(t))
                                      /\ script[t] = Script(t, Segment(t), Rem(t))
             /\ pc[t] \notin Scripted => script[t] = <<>>
             /\ pc[t] = "startup" => cur[t] = 0
             /\ pc[t] \in {"init", "recv", "work", "close"} => cur[t] > 0
             /\ In(t) => Real(cur[t])
             /\ pc[t] = "recv" => Rem(t) = Steps(Op(t)))'
  BY <1>1, <1>3 DEF Place
<1> QED
  BY <1>2, <1>3 DEF Place

\* Lining up changes nothing for the servers.
LEMMA ClientStepInv ==
  ASSUME LoopInv, NEW c \in DOMAIN ops, ClientStep(c)
  PROVE  LoopInv'
<1>1. Still /\ UNCHANGED <<pc, cur, script>>
  BY DEF ClientStep, Still
<1>2. Line'
  BY ClientStepLine DEF LoopInv, Place
<1>3. /\ \A s : Rem(s)' = Rem(s) /\ In(s)' = In(s) /\ Op(s)' = Op(s) /\ Segment(s)' = Segment(s)
      /\ \A s : Fin(s)' = Fin(s) /\ Unread(s)' = Unread(s) /\ Size(s)' = Size(s)
      /\ \A k : Real(k)' = Real(k)
  BY <1>1 DEF Rem, In, Op, Segment, Fin, Real, Unread, Size, Still
<1>4. \A s, kind : Val(s, kind)' = Val(s, kind)
  BY <1>1 DEF Val, Still
<1>5. Place'
  BY <1>1, <1>3 DEF LoopInv, Place, Still
<1>6. \A g : Wire(g)' = Wire(g') /\ Met(g)' = Met(g')
  BY <1>1, <1>3, <1>4 DEF Wire, Met, Carries, Still
<1>7. SameUses' = SameUses /\ SameSeed' = SameSeed
  BY <1>1, <1>3 DEF SameUses, SameSeed, Checked, Drawn, Draws, Still
<1>8. Starting' = Starting /\ Together' = Together /\ StartingUp' = StartingUp
  BY <1>1, <1>3, <1>6 DEF Starting, Together, StartingUp, Still
<1>9. SameExchange' = SameExchange
  BY <1>1, <1>3, <1>6, <1>7 DEF SameExchange, Still
<1>10. Lagging' = Lagging /\ Owed' = Owed /\ Keyed' = Keyed
  BY <1>1, <1>3 DEF Lagging, Owed, Keyed, Still
<1>11. Ended' = Ended /\ \A a, b : NoReal(a, b)' = NoReal(a', b')
  BY <1>1, <1>3, <1>10 DEF Ended, NoReal, Still
<1>12. Trail' = Trail
  BY <1>1, <1>3, <1>4, <1>10 DEF Trail, Carries, Still
<1>13. Apart' = Apart
  BY <1>1, <1>3, <1>10, <1>11, <1>12 DEF Apart, NoReal, Still
<1>14. Pair'
  BY <1>1, <1>8, <1>9, <1>13 DEF LoopInv, Pair
<1>15. \A s \in Server : (DueAt(s) /\ (pc[s] = "refresh" => randx_uses[s] > RandomXThreshold)
                            /\ (In(s) /\ Checked(s) => Size(s) \in DOMAIN precomp[s]))'
  BY <1>1, <1>3 DEF LoopInv, Counts, DueAt, Checked, Still
<1> QED
  BY <1>1, <1>2, <1>5, <1>14, <1>15, StillInv

\* A server that reads nothing keeps the line of clients.
LEMMA SameLine == ASSUME Line, UNCHANGED <<ops, conn, backlog, cur>> PROVE Line'
  BY DEF Line, Waiting, Clients

\* At the top of the loop.
LEMMA RefreshInv ==
  ASSUME LoopInv, NEW s \in Server, Refresh(s)
  PROVE  LoopInv'
<1>1. Still /\ pc[s] = "top" /\ UNCHANGED <<conn, backlog, cur>> /\ (s = 0 \/ s = 1)
  BY DEF Refresh, Still, Server
<1>2. \/ /\ randx_uses[s] > RandomXThreshold
         /\ pc' = [pc EXCEPT ![s] = "refresh"]
         /\ script' = [script EXCEPT ![s] = OneWay(s, 1, "randomX")]
      \/ /\ ~(randx_uses[s] > RandomXThreshold)
         /\ pc' = [pc EXCEPT ![s] = "accept"] /\ script' = script
  BY DEF Refresh
<1>3. /\ pc'[s] = (IF randx_uses[s] > RandomXThreshold THEN "refresh" ELSE "accept")
      /\ \A t \in Server : t # s => pc'[t] = pc[t] /\ script'[t] = script[t]
      /\ script'[s] = (IF randx_uses[s] > RandomXThreshold THEN Script(s, "refresh", 1) ELSE <<>>)
      /\ pc' = [t \in Server |-> pc'[t]] /\ script' = [t \in Server |-> script'[t]]
  <2>1. /\ pc = [t \in Server |-> pc[t]] /\ script = [t \in Server |-> script[t]]
        /\ script[s] = <<>>
    BY <1>1 DEF LoopInv, Place, Scripted
  <2>2. CASE randx_uses[s] > RandomXThreshold
    BY <1>2, <2>1, <2>2, Scripts
  <2>3. CASE ~(randx_uses[s] > RandomXThreshold)
    BY <1>2, <2>1, <2>3
  <2> QED
    BY <2>2, <2>3
<1>4. Place'
  <2>1. pc'[s] = "refresh" => Rem(s)' = 1 /\ Segment(s)' = "refresh"
    <3>1. pc'[s] = "refresh" => script'[s] = Script(s, "refresh", 1)
      BY <1>3
    <3>2. Len(Script(s, "refresh", 1)) = 1
      BY 1 \in Nat \ {0}, ScriptFront
    <3> QED
      BY <3>1, <3>2 DEF Rem, Segment, In
  <2>2. Steps("refresh") = 1
    BY StartSteps
  <2>3. /\ (pc[s] \in Scripted => /\ Rem(s) \in 1 .. Steps(Segment(s))
                                  /\ script[s] = Script(s, Segment(s), Rem(s)))'
        /\ (pc[s] \notin Scripted => script[s] = <<>>)'
    BY <1>3, <2>1, <2>2 DEF Scripted
  <2> QED
    BY <1>1, <1>3, <2>3, PlaceStep DEF LoopInv, Place, Still, Scripted, In
<1>5. 1 - s \in Server /\ 1 - s # s
  BY <1>1 DEF Server
<1>6. Pair'
  <2>1. Fin(s)' = Fin(s)
    BY <1>1, <1>3 DEF Fin
  <2>2. s = 0 /\ Owed => pc'[0] = "refresh"
    BY <1>3 DEF Owed
  <2>3. pc[s] \notin {"startup", "recv", "work"} /\ pc'[s] \notin {"startup", "recv", "work"}
    BY <1>1, <1>3
  <2>4. pc'[1 - s] = pc[1 - s] /\ cur'[1 - s] = cur[1 - s] /\ script'[1 - s] = script[1 - s]
    BY <1>1, <1>3, <1>5
  <2> QED
    BY <1>1, <2>1, <2>2, <2>3, <2>4, IdleStep DEF LoopInv
<1>7. ASSUME NEW t \in Server
      PROVE (DueAt(t) /\ (pc[t] = "refresh" => randx_uses[t] > RandomXThreshold)
             /\ (In(t) /\ Checked(t) => Size(t) \in DOMAIN precomp[t]))'
  <2>1. CASE t = s
    BY <1>1, <1>3, <2>1 DEF LoopInv, Counts, DueAt, In, Still, Real
  <2>2. CASE t # s
    BY <1>1, <1>3, <2>2 DEF LoopInv, Counts, DueAt, In, Checked, Still, Real, Op, Rem, Size
  <2> QED
    BY <2>1, <2>2
<1> QED
  BY <1>1, <1>4, <1>6, <1>7, SameLine, StillInv DEF LoopInv, Still


\* The next client is accepted: no point is due then.
LEMMA AcceptInv ==
  ASSUME LoopInv, NEW s \in Server, Accept(s)
  PROVE  LoopInv'
<1>1. /\ Still /\ pc[s] = "accept" /\ script' = script /\ pc' = [pc EXCEPT ![s] = "init"]
      /\ s = 0 \/ s = 1
  BY DEF Accept, Still, Server
<1>2. Line' /\ cur' = [cur EXCEPT ![s] = cur[s] + 1]
  BY AcceptLine DEF LoopInv, Place
<1>3. cur \in [Server -> Nat] /\ pc = [t \in Server |-> pc[t]] /\ script[s] = <<>>
  BY <1>1 DEF LoopInv, Place, Scripted
<1>4. /\ pc'[s] = "init" /\ cur'[s] = cur[s] + 1 /\ cur' \in [Server -> Nat]
      /\ pc' = [t \in Server |-> pc'[t]]
      /\ \A t \in Server : t # s => pc'[t] = pc[t] /\ cur'[t] = cur[t]
  BY <1>1, <1>2, <1>3
<1>5. Place'
  BY <1>1, <1>3, <1>4, PlaceStep DEF LoopInv, Place, Still, Scripted, In
<1>6. ~(randx_uses[s] > RandomXThreshold)
  BY <1>1 DEF LoopInv, Counts, DueAt
<1>7. Pair'
  <2>1. Fin(s)' = Fin(s)
    BY <1>1, <1>3, <1>4 DEF Fin
  <2>2. ~(s = 0 /\ Owed)
    BY <1>6 DEF Owed
  <2>3. pc[s] \notin {"startup", "recv", "work"} /\ pc'[s] \notin {"startup", "recv", "work"}
    BY <1>1, <1>4
  <2>4. pc'[1 - s] = pc[1 - s] /\ cur'[1 - s] = cur[1 - s] /\ script'[1 - s] = script[1 - s]
    BY <1>1, <1>4 DEF Server
  <2> QED
    BY <1>1, <2>1, <2>2, <2>3, <2>4, IdleStep DEF LoopInv
<1>8. ASSUME NEW t \in Server
      PROVE (DueAt(t) /\ (pc[t] = "refresh" => randx_uses[t] > RandomXThreshold)
             /\ (In(t) /\ Checked(t) => Size(t) \in DOMAIN precomp[t]))'
  <2>1. CASE t = s
    BY <1>1, <1>4, <1>6, <2>1 DEF DueAt, In, Still
  <2>2. CASE t # s
    BY <1>1, <1>4, <2>2 DEF LoopInv, Counts, DueAt, In, Checked, Still, Real, Op, Rem, Size
  <2> QED
    BY <2>1, <2>2
<1> QED
  BY <1>1, <1>2, <1>5, <1>7, <1>8, StillInv

\* An initMsg is read: the exchange of the operation, or none.
LEMMA RecvInitInv ==
  ASSUME LoopInv, NEW s \in Server, RecvInit(s)
  PROVE  LoopInv'
<1>1. /\ Still /\ pc[s] = "init" /\ UNCHANGED <<conn, backlog, cur>> /\ (s = 0 \/ s = 1)
      /\ script' = [script EXCEPT ![s] = Exchange(s, Op(s))]
      /\ pc' = [pc EXCEPT ![s] = IF script'[s] = <<>> THEN "close" ELSE "recv"]
  BY DEF RecvInit, Still, Server, Op
<1>2. /\ cur \in [Server -> Nat] /\ pc = [t \in Server |-> pc[t]]
      /\ script = [t \in Server |-> script[t]] /\ cur[s] > 0
  BY <1>1 DEF LoopInv, Place, Scripted
<1>3. /\ script'[s] = Exchange(s, Op(s)) /\ script' = [t \in Server |-> script'[t]]
      /\ \A t \in Server : t # s => script'[t] = script[t]
  BY <1>1, <1>2
<1>4. /\ pc'[s] = (IF script'[s] = <<>> THEN "close" ELSE "recv") /\ pc' = [t \in Server |-> pc'[t]]
      /\ \A t \in Server : t # s => pc'[t] = pc[t]
  BY <1>1, <1>2
<1>5. cur[s] \in DOMAIN ops /\ DOMAIN ops \subseteq Nat
  <2>1. PICK n \in Nat : n = Clients /\ DOMAIN ops = 1 .. n
    BY SMTT(40) DEF LoopInv, Line, Clients
  <2>2. PICK m \in Nat : m = Waiting(s) /\ cur[s] + m <= n
    BY <2>1 DEF LoopInv, Line
  <2> QED
    BY <1>2, <2>1, <2>2
<1>6. ASSUME NEW t \in Server
      PROVE (DueAt(t) /\ (pc[t] = "refresh" => randx_uses[t] > RandomXThreshold)
             /\ (In(t) /\ Checked(t) => Size(t) \in DOMAIN precomp[t]))'
  <2>1. CASE t = s
    <3>1. ~(randx_uses[s] > RandomXThreshold) /\ randx_uses' = randx_uses
      BY <1>1 DEF LoopInv, Counts, DueAt, Still
    <3>2. In(s)' => ~Checked(s)'
      <4>1. ASSUME In(s)', Op(s)' \in SnipOps PROVE Rem(s)' = 8
        <5>1. Op(s)' = Op(s) /\ Op(s) \in RealOps /\ Steps(Op(s)) = 8
          BY <1>1, <4>1, Families DEF Op, Still, RealOps
        <5>2. Exchange(s, Op(s)) = Script(s, Op(s), 8)
          BY <5>1, Scripts
        <5>3. Len(Script(s, Op(s), 8)) = 8
          BY 8 \in Nat \ {0}, ScriptFront
        <5> QED
          BY <1>3, <5>2, <5>3 DEF Rem
      <4> QED
        BY <4>1 DEF Checked
    <3> QED
      BY <1>4, <2>1, <3>1, <3>2 DEF DueAt
  <2>2. CASE t # s
    BY <1>1, <1>3, <1>4, <2>2 DEF LoopInv, Counts, DueAt, In, Checked, Still, Real, Op, Rem, Size
  <2> QED
    BY <2>1, <2>2
<1>7. ASSUME Real(cur[s])
      PROVE  Place' /\ Pair'
  <2>1. Op(s) \in RealOps /\ Steps(Op(s)) \in Nat \ {0} /\ Op(s)' = Op(s) /\ Real(cur[s])'
    BY <1>1, <1>7, Families DEF Real, Op, Still
  <2>2. script'[s] = Script(s, Op(s), Steps(Op(s)))
    BY <1>3, <2>1, Scripts
  <2>3. script'[s] # <<>> /\ Len(script'[s]) = Steps(Op(s))
    BY <2>1, <2>2, ScriptFront
  <2>4. Rem(s)' = Steps(Op(s)) /\ pc'[s] = "recv"
    BY <1>4, <2>3 DEF Rem
  <2>5. Segment(s)' = Op(s)
    BY <2>1, <2>4 DEF Segment, In
  <2>6. Place'
    <3>1. Rem(s)' \in 1 .. Steps(Op(s)) /\ Steps(Op(s))' = Steps(Op(s))
      BY <2>1, <2>4
    <3>2. (/\ pc[s] \in Scripted \cup {"top", "accept", "init", "close"}
           /\ pc[s] \in Scripted => /\ Rem(s) \in 1 .. Steps(Segment(s))
                                    /\ script[s] = Script(s, Segment(s), Rem(s))
           /\ pc[s] \notin Scripted => script[s] = <<>>
           /\ pc[s] = "startup" => cur[s] = 0
           /\ pc[s] \in {"init", "recv", "work", "close"} => cur[s] > 0
           /\ In(s) => Real(cur[s])
           /\ pc[s] = "recv" => Rem(s) = Steps(Op(s)))'
      BY <1>1, <1>2, <2>1, <2>2, <2>4, <2>5, <3>1 DEF Scripted
    <3> QED
      BY <1>1, <1>2, <1>3, <1>4, <3>2, PlaceStep DEF LoopInv, Still
  <2>7. Pair'
    <3>1. pc' = [pc EXCEPT ![s] = "recv"]
      BY <1>1, <2>3
    <3> QED
      BY <1>1, <1>3, <1>5, <1>7, <2>4, <3>1, RecvInitPair DEF LoopInv
  <2> QED
    BY <2>6, <2>7
<1>8. ASSUME ~Real(cur[s])
      PROVE  Place' /\ Pair'
  <2>1. script'[s] = <<>>
    BY <1>3, <1>5, <1>8, Scripts DEF Real, Op
  <2>2. pc'[s] = "close" /\ pc' = [pc EXCEPT ![s] = "close"]
    BY <1>1, <1>4, <2>1
  <2>3. Place'
    BY <1>1, <1>2, <1>3, <1>4, <2>1, <2>2, PlaceStep DEF LoopInv, Still, Scripted, In
  <2>4. Pair'
    BY <1>1, <1>3, <1>5, <1>8, <2>2, SkipPair DEF LoopInv
  <2> QED
    BY <2>3, <2>4
<1>9. Line'
  BY <1>1, SameLine DEF LoopInv, Still
<1> QED
  BY <1>1, <1>6, <1>7, <1>8, <1>9, StillInv

\* The shares are read.
LEMMA RecvSharesInv ==
  ASSUME LoopInv, NEW s \in Server, RecvShares(s)
  PROVE  LoopInv'
<1>1. /\ Still /\ pc[s] = "recv" /\ UNCHANGED <<conn, backlog, cur, script>>
      /\ pc' = [pc EXCEPT ![s] = "work"]
  BY DEF RecvShares, Still
<1>2. /\ pc = [t \in Server |-> pc[t]] /\ cur \in [Server -> Nat] /\ cur[s] > 0
      /\ script = [t \in Server |-> script[t]]
  BY <1>1 DEF LoopInv, Place, Scripted
<1>3. /\ pc'[s] = "work" /\ pc' = [t \in Server |-> pc'[t]]
      /\ \A t \in Server : t # s => pc'[t] = pc[t]
  BY <1>1, <1>2
<1>4. /\ \A t : Rem(t)' = Rem(t) /\ Op(t)' = Op(t) /\ Size(t)' = Size(t) /\ Real(cur[t])' = Real(cur[t])
      /\ \A t \in Server : In(t)' = In(t)
  BY <1>1, <1>3 DEF Rem, Op, Size, Real, In, Still
<1>5. Segment(s)' = Segment(s)
  BY <1>1, <1>3, <1>4 DEF Segment, In
<1>6. Place'
  <2>1. Rem(s) \in 1 .. Steps(Segment(s)) /\ script[s] = Script(s, Segment(s), Rem(s)) /\ Real(cur[s])
    BY <1>1 DEF LoopInv, Place, Scripted, In
  <2>2. (/\ pc[s] \in Scripted \cup {"top", "accept", "init", "close"}
         /\ pc[s] \in Scripted => /\ Rem(s) \in 1 .. Steps(Segment(s))
                                  /\ script[s] = Script(s, Segment(s), Rem(s))
         /\ pc[s] \notin Scripted => script[s] = <<>>
         /\ pc[s] = "startup" => cur[s] = 0
         /\ pc[s] \in {"init", "recv", "work", "close"} => cur[s] > 0
         /\ In(s) => Real(cur[s])
         /\ pc[s] = "recv" => Rem(s) = Steps(Op(s)))'
    BY <1>1, <1>2, <1>3, <1>4, <1>5, <2>1 DEF Scripted
  <2> QED
    BY <1>1, <1>2, <1>3, <2>2, PlaceStep DEF LoopInv, Still
<1>7. Pair'
  BY <1>1, RecvSharesPair DEF LoopInv
<1>8. ASSUME NEW t \in Server
      PROVE (DueAt(t) /\ (pc[t] = "refresh" => randx_uses[t] > RandomXThreshold)
             /\ (In(t) /\ Checked(t) => Size(t) \in DOMAIN precomp[t]))'
  <2>1. Checked(t)' = Checked(t)
    BY <1>4 DEF Checked
  <2>2. t = s => ~(randx_uses[s] > RandomXThreshold)
    BY <1>1 DEF LoopInv, Counts, DueAt
  <2> QED
    BY <1>1, <1>3, <1>4, <2>1, <2>2 DEF LoopInv, Counts, DueAt, Still
<1> QED
  BY <1>1, <1>6, <1>7, <1>8, SameLine, StillInv DEF LoopInv, Still

\* A client is done with.
LEMMA CloseInv ==
  ASSUME LoopInv, NEW s \in Server, Close(s)
  PROVE  LoopInv'
<1>1. /\ Still /\ pc[s] = "close" /\ UNCHANGED <<conn, backlog, cur, script>>
      /\ pc' = [pc EXCEPT ![s] = "top"] /\ (s = 0 \/ s = 1)
  BY DEF Close, Still, Server
<1>2. /\ pc = [t \in Server |-> pc[t]] /\ cur \in [Server -> Nat] /\ script[s] = <<>>
      /\ script = [t \in Server |-> script[t]]
  BY <1>1 DEF LoopInv, Place, Scripted
<1>3. /\ pc'[s] = "top" /\ pc' = [t \in Server |-> pc'[t]]
      /\ \A t \in Server : t # s => pc'[t] = pc[t]
  BY <1>1, <1>2
<1>4. Place'
  BY <1>1, <1>2, <1>3, PlaceStep DEF LoopInv, Still, Scripted, In
<1>5. Pair'
  <2>1. Fin(s)' = Fin(s)
    BY <1>1, <1>3 DEF Fin
  <2>2. pc[s] \notin {"startup", "recv", "work"} /\ pc'[s] \notin {"startup", "recv", "work"}
    BY <1>1, <1>3
  <2>3. pc'[1 - s] = pc[1 - s] /\ cur'[1 - s] = cur[1 - s] /\ script'[1 - s] = script[1 - s]
    BY <1>1, <1>3 DEF Server
  <2> QED
    BY <1>1, <1>3, <2>1, <2>2, <2>3, IdleStep DEF LoopInv
<1>6. ASSUME NEW t \in Server
      PROVE (DueAt(t) /\ (pc[t] = "refresh" => randx_uses[t] > RandomXThreshold)
             /\ (In(t) /\ Checked(t) => Size(t) \in DOMAIN precomp[t]))'
  <2>1. CASE t = s
    BY <1>1, <1>3, <2>1 DEF LoopInv, Counts, DueAt, In, Still, Real
  <2>2. CASE t # s
    BY <1>1, <1>3, <2>2 DEF LoopInv, Counts, DueAt, In, Checked, Still, Real, Op, Rem, Size
  <2> QED
    BY <2>1, <2>2
<1> QED
  BY <1>1, <1>4, <1>5, <1>6, SameLine, StillInv DEF LoopInv, Still

-----------------------------------------------------------------------------
(* Steps of an exchange.                                                   *)

\* What holds of every step of s that the other takes no part in.
LEMMA StepFacts ==
  ASSUME LoopInv, NEW s \in Server, NEW do, NEW what, Ready(s, do, what), Done(s)
  PROVE  /\ Place' /\ Line' /\ ops' = ops /\ cur' = cur /\ Moved(s) /\ Rests(1 - s)
         /\ Rem(1 - s)' = Rem(1 - s) /\ In(1 - s)' = In(1 - s) /\ Fin(1 - s)' = Fin(1 - s)
         /\ \A t : Op(t)' = Op(t) /\ Real(cur[t])' = Real(cur[t]) /\ Size(t)' = Size(t)
         /\ \A a, b : NoReal(a, b)' = NoReal(a', b')
<1>1. /\ script' = [script EXCEPT ![s] = Tail(script[s])]
      /\ pc' = [pc EXCEPT ![s] = AfterScript(s)] /\ UNCHANGED <<ops, conn, backlog, cur>>
  BY DEF Done
<1>2. pc = [t \in Server |-> pc[t]] /\ script = [t \in Server |-> script[t]] /\ Place /\ Line
  BY DEF LoopInv, Place
<1>3. Moves(s)
  BY <1>1, <1>2 DEF Moves
<1>4. \A t \in Server : t # s => Rests(t)
  BY <1>1, <1>2 DEF Rests
<1>5. 1 - s \in Server /\ 1 - s # s
  BY DEF Server
<1>6. Rests(1 - s)
  BY <1>4, <1>5
<1>7. Place'
  BY <1>1, <1>2, <1>3, <1>4, PlaceMoves
<1>8. Line'
  BY <1>1, <1>2, SameLine
<1>9. Moved(s)
  BY <1>2, <1>3, MovesOn
<1>10. Rem(1 - s)' = Rem(1 - s) /\ In(1 - s)' = In(1 - s) /\ Fin(1 - s)' = Fin(1 - s)
  BY <1>1, <1>6 DEF Rem, In, Fin, Rests
<1>11. \A t : Op(t)' = Op(t) /\ Real(cur[t])' = Real(cur[t]) /\ Size(t)' = Size(t)
  BY <1>1 DEF Op, Real, Size
<1>12. \A a, b : NoReal(a, b)' = NoReal(a', b')
  BY <1>1 DEF NoReal, Real
<1> QED
  BY <1>1, <1>6, <1>7, <1>8, <1>9, <1>10, <1>11, <1>12

\* The same operation for both.
Shared(g) == /\ g \in RealOps /\ g = Op(0) /\ g = Op(1) /\ cur[0] = cur[1]
             /\ \A t \in Server : In(t) /\ Rem(t) \in 1 .. Steps(g) /\ Segment(t) = g
LEMMA TogetherFacts ==
  ASSUME LoopInv, Together
  PROVE  ~Starting /\ SameExchange /\ \E g \in RealOps : Shared(g)
<1>1. SameExchange /\ ~Starting
  BY DEF LoopInv, Pair, Together, Starting, In
<1>2. Op(0) = Op(1) /\ Op(0) \in RealOps
  BY DEF LoopInv, Place, Together, Op, Real, Server
<1>3. \A t \in Server : In(t) /\ Segment(t) = Op(0) /\ pc[t] \in Scripted
  BY <1>2 DEF Together, Segment, In, Scripted, Server
<1>4. \A t \in Server : Rem(t) \in 1 .. Steps(Op(0))
  BY <1>3 DEF LoopInv, Place
<1> QED
  BY <1>1, <1>2, <1>3, <1>4 DEF Shared, Together

\* Only together do they get past the Meet, or is server 1 sent anything.
LEMMA MustBeTogether ==
  ASSUME LoopInv, NEW s \in Server, pc[s] = "work",
         \/ Rem(s) < Steps(Op(s)) - 1 /\ (s = 0 => Rem(s) # 1)
         \/ s = 1 /\ Unread(1) > 0
         \/ s = 0 /\ Rem(s) # 1 /\ Rem(s) # Steps(Op(s))
  PROVE  Together
<1>1. ~Starting /\ In(s) /\ (s = 0 \/ s = 1)
  BY DEF Starting, In, Server, LoopInv, Pair
<1>2. Steps(Op(s)) \in Nat /\ Rem(s) \in Nat
  <2>1. Op(s) \in RealOps /\ Segment(s) = Op(s) /\ pc[s] \in Scripted
    BY <1>1 DEF LoopInv, Place, Real, Op, Segment, Scripted
  <2> QED
    BY <2>1, Families DEF LoopInv, Place
<1>3. ASSUME Apart PROVE FALSE
  BY <1>1, <1>2, <1>3 DEF Apart, Trail
<1> QED
  BY <1>1, <1>3 DEF LoopInv, Pair

\* A message is never sent or read at a Meet.
LEMMA NotAtMeet ==
  ASSUME NEW s \in Server, NEW g \in RealOps \ MaskedSumOps, NEW r \in 1 .. Steps(g),
         NEW do, NEW what, StepAt(s, g, r) = Item(do, what), do # "meet"
  PROVE  r # Steps(g) - 1
<1>1. g # "startup" /\ g # "refresh" /\ Steps(g) \in 3 .. 8 /\ (Steps(g) = 3 => g = "BIT_SUM")
  BY Families DEF RealOps
<1>2. r = Steps(g) - 1 => StepAt(s, g, r) = Meet
  BY <1>1 DEF StepAt
<1> QED
  BY <1>2 DEF Meet, Item

\* A step of s in an exchange of both that is not its last.
LEMMA StaysTogether ==
  ASSUME LoopInv, Together, NEW g \in RealOps, Shared(g), NEW s \in Server, NEW do, NEW what,
         Ready(s, do, what), Done(s), do # "meet", Rem(s) > 1
  PROVE  /\ Together' /\ ~Starting' /\ Met(g)' /\ g = Op(0)' /\ g = Op(1)' /\ pc'[s] = pc[s]
         /\ Rem(s)' = Rem(s) - 1 /\ Rem(1 - s)' = Rem(1 - s)
         /\ StepAt(s, g, Rem(s)) = Item(do, what)
         /\ (pc[0] = "startup" <=> pc[1] = "startup")'
<1>1. /\ ops' = ops /\ cur' = cur /\ Moved(s) /\ Rests(1 - s)
      /\ Rem(1 - s)' = Rem(1 - s) /\ In(1 - s)' = In(1 - s) /\ \A t : Op(t)' = Op(t)
  BY StepFacts
<1>2. pc'[s] = pc[s] /\ Rem(s)' = Rem(s) - 1
  BY <1>1 DEF Moved
<1>3. In(s)' = In(s)
  BY <1>2 DEF In
<1>4. StepAt(s, g, Rem(s)) = Item(do, what) /\ Rem(s) \in 1 .. Steps(g) /\ Rem(1 - s) \in 1 .. Steps(g)
  BY NextItem DEF Shared, LoopInv, Server
<1>5. Server = {s, 1 - s} /\ {s, 1 - s} = {0, 1}
  BY DEF Server
<1>6. Together' /\ ~Starting' /\ (pc[0] = "startup" <=> pc[1] = "startup")'
  BY <1>1, <1>2, <1>3, <1>5 DEF Together, Starting, In
<1>7. Met(g)'
  <2>1. Met(g)
    BY TogetherFacts DEF SameExchange, Shared
  <2>2. g \notin MaskedSumOps => Rem(s) # Steps(g) - 1
    BY <1>4, NotAtMeet
  <2>3. Steps(g) \in Nat
    BY Families
  <2>4. CASE s = 0
    BY <1>1, <1>2, <1>4, <2>1, <2>2, <2>3, <2>4 DEF Met
  <2>5. CASE s = 1
    BY <1>1, <1>2, <1>4, <2>1, <2>2, <2>3, <2>5 DEF Met
  <2> QED
    BY <2>4, <2>5 DEF Server
<1> QED
  BY <1>1, <1>2, <1>4, <1>6, <1>7 DEF Shared


\* Which items are where in an operation.
LEMMA ItemAt ==
  ASSUME NEW s \in Server, NEW g \in RealOps, NEW r \in 1 .. Steps(g), NEW do, NEW what,
         StepAt(s, g, r) = Item(do, what)
  PROVE  /\ (what = "cor" /\ do = "send") <=> (g \in SnipOps /\ r = 6)
         /\ (what = "out" /\ do = "send") <=> (g \in SnipOps /\ r = 4)
         /\ (what = "cor" /\ do = "recv") => (g \in SnipOps /\ r = 5)
         /\ (what = "out" /\ do = "recv") => (g \in SnipOps /\ r = 3)
         /\ (what = "keys" <=> r = Steps(g)) /\ (what = "sum" <=> r = 1)
         /\ what \in {"keys", "sum"} => do = IF s = 1 THEN "send" ELSE "recv"
         /\ what # "randomX" /\ what # "seed"
         /\ s = 1 /\ do = "send" /\ what \notin {"keys", "sum", "cor", "out"} => g \in SketchOps /\ r = 3
<1> USE DEF StepAt, Way, Item, Meet
<1>1. CASE g \in {"BIT_SUM"} \cup MaskedSumOps
  <2>1. Steps(g) = 3 /\ g \notin SnipOps \cup SketchOps /\ g # "startup" /\ g # "refresh"
        /\ r \in {1, 2, 3}
    BY <1>1, Families
  <2> QED
    BY <2>1
<1>2. CASE g = "INT_SUM"
  <2>1. Steps(g) = 4 /\ g \notin SnipOps \cup SketchOps /\ r \in {1, 2, 3, 4}
    BY <1>2, Families
  <2> QED
    BY <1>2, <2>1 DEF MaskedSumOps
<1>3. CASE g \in SketchOps
  <2>1. Steps(g) = 5 /\ g \notin SnipOps \cup MaskedSumOps /\ g # "startup" /\ g # "refresh"
        /\ r \in {1, 2, 3, 4, 5}
    BY <1>3, Families
  <2> QED
    BY <1>3, <2>1
<1>4. CASE g \in SnipOps
  <2>1. Steps(g) = 8 /\ g \notin SketchOps \cup MaskedSumOps /\ g # "startup" /\ g # "refresh"
        /\ r \in {1, 2, 3, 4, 5, 6, 7, 8}
    BY <1>4, Families
  <2> QED
    BY <1>4, <2>1
<1> QED
  BY <1>1, <1>2, <1>3, <1>4 DEF RealOps

\* And in the start-up.
LEMMA StartItemAt ==
  ASSUME NEW s \in Server, NEW r \in 1 .. 3, NEW do, NEW what,
         StepAt(s, "startup", r) = Item(do, what)
  PROVE  /\ (r = 3 <=> what = "randomX") /\ (r = 2 <=> what = "seed") /\ (r = 1 <=> do = "meet")
         /\ (r = 1 <=> what = "both")
         /\ what = "randomX" => do = IF s = 1 THEN "send" ELSE "recv"
         /\ what = "seed" => do = IF s = 0 THEN "send" ELSE "recv"
  BY DEF StepAt, Way, Item, Meet

\* Nothing falls due for a refresh by a step that counts no use.
LEMMA SteadyCounts ==
  ASSUME LoopInv, NEW s \in Server, NEW do, NEW what, Ready(s, do, what), Done(s),
         pc[s] = "work", ~(do = "send" /\ what = "cor"),
         randx_uses' = randx_uses, precomp' = precomp,
         num_inputs' \in [Server -> Nat], snips_seed' \in [Server -> Nat]
  PROVE  Counts'
<1>1. /\ ops' = ops /\ cur' = cur /\ Moved(s) /\ Rests(1 - s)
      /\ Rem(1 - s)' = Rem(1 - s) /\ In(1 - s)' = In(1 - s)
      /\ \A t : Op(t)' = Op(t) /\ Real(cur[t])' = Real(cur[t]) /\ Size(t)' = Size(t)
  BY StepFacts
<1>2. /\ Op(s) \in RealOps /\ Rem(s) \in 1 .. Steps(Op(s)) /\ Real(cur[s])
      /\ StepAt(s, Op(s), Rem(s)) = Item(do, what) /\ In(s)
  BY NextItem DEF LoopInv, Place, In
<1>3. Op(s) \in SnipOps => Rem(s) # 6
  BY <1>2, ItemAt
<1>4. Rem(s) \in Nat /\ Rem(s) >= 1
  BY <1>2, Families
<1>5. /\ Rem(s) > 1 => pc'[s] = "work" /\ Checked(s)' = Checked(s)
      /\ Rem(s) = 1 => pc'[s] = "close"
  BY <1>1, <1>3, <1>4 DEF Moved, Checked, Beyond
<1>6. ASSUME NEW t \in Server
      PROVE (DueAt(t) /\ (pc[t] = "refresh" => randx_uses[t] > RandomXThreshold)
             /\ (In(t) /\ Checked(t) => Size(t) \in DOMAIN precomp[t]))'
  <2>1. CASE t = s
    <3>1. CASE Rem(s) > 1
      BY <1>1, <1>2, <1>5, <2>1, <3>1 DEF LoopInv, Counts, DueAt, In
    <3>2. CASE Rem(s) = 1
      BY <1>1, <1>2, <1>5, <2>1, <3>2 DEF DueAt, In
    <3> QED
      BY <1>4, <3>1, <3>2
  <2>2. CASE t # s
    <3>1. t = 1 - s
      BY <2>2 DEF Server
    <3> QED
      BY <1>1, <3>1 DEF LoopInv, Counts, DueAt, Rests, Checked
  <2> QED
    BY <2>1, <2>2
<1> QED
  BY <1>6 DEF Counts, LoopInv

\* Neither do they disagree on the uses and the draws.
LEMMA SteadyTogether ==
  ASSUME LoopInv, Together, NEW g \in RealOps, Shared(g), NEW s \in Server, NEW do, NEW what,
         Ready(s, do, what), Done(s), do # "meet", Rem(s) > 1
  PROVE  /\ ~(do = "send" /\ what = "cor") => \A t \in Server : Checked(t)' <=> Checked(t)
         /\ ~(do = "send" /\ what = "out") => \A t \in Server : Drawn(t)' <=> Drawn(t)
<1>1. /\ Rem(s)' = Rem(s) - 1 /\ Rem(1 - s)' = Rem(1 - s) /\ StepAt(s, g, Rem(s)) = Item(do, what)
      /\ \A t : Op(t)' = Op(t)
  BY StaysTogether, StepFacts
<1>2. Rem(s) \in 1 .. Steps(g) /\ Rem(s) \in Nat /\ g = Op(s) /\ g = Op(1 - s)
  BY Families DEF Shared, Server
<1>3. /\ ~(do = "send" /\ what = "cor") => ~(g \in SnipOps /\ Rem(s) = 6)
      /\ ~(do = "send" /\ what = "out") => ~(g \in SnipOps /\ Rem(s) = 4)
  BY <1>1, <1>2, ItemAt
<1>4. \A t \in Server : t = s \/ t = 1 - s
  BY DEF Server
<1>5. (Checked(1 - s)' <=> Checked(1 - s)) /\ (Drawn(1 - s)' <=> Drawn(1 - s))
  BY <1>1 DEF Checked, Drawn
<1>6. PICK r \in Nat : r = Rem(s) /\ r - 1 = Rem(s)' /\ Op(s) = g /\ Op(s)' = g
  BY <1>1, <1>2
<1>7. (Checked(s) <=> g \in SnipOps /\ r < 6) /\ (Checked(s)' <=> g \in SnipOps /\ r - 1 < 6)
  BY <1>6 DEF Checked
<1>8. (Drawn(s) <=> g \in SnipOps /\ r < 4) /\ (Drawn(s)' <=> g \in SnipOps /\ r - 1 < 4)
  BY <1>6 DEF Drawn
<1>9. /\ ~(g \in SnipOps /\ r = 6) => (Checked(s)' <=> Checked(s))
      /\ ~(g \in SnipOps /\ r = 4) => (Drawn(s)' <=> Drawn(s))
  BY <1>7, <1>8
<1> QED
  BY <1>3, <1>4, <1>5, <1>6, <1>9

-----------------------------------------------------------------------------
(* The keys.                                                               *)

\* The points stay as they should.
LEMMA PointStep == ASSUME LoopInv, NEW s \in Server, ServerStep(s) PROVE PointInv'
  BY NextPoint DEF LoopInv, Next

\* Server 1 lists its keys, ahead of server 0 or not.
LEMMA SendKeysInv ==
  ASSUME LoopInv, SendKeys
  PROVE  LoopInv'
<1>1. PICK n \in Nat : /\ Ready(1, "send", "keys") /\ Done(1) /\ Put(1, "keys", n)
                       /\ num_inputs' = [num_inputs EXCEPT ![1] = n]
                       /\ UNCHANGED <<randomX, randx_uses, precomp, snips_seed>>
  <2>1. \A n \in 1 .. MaxInputs : n \in Nat
    BY LoopAssumption
  <2>2. PICK n \in 1 .. MaxInputs : Put(1, "keys", n) /\ num_inputs' = [num_inputs EXCEPT ![1] = n]
    BY DEF SendKeys
  <2> QED
    BY <2>1, <2>2 DEF SendKeys
<1>2. 0 \in Server /\ 1 \in Server /\ 1 - 1 = 0
  BY DEF Server
<1>3. /\ Place' /\ Line' /\ ops' = ops /\ cur' = cur /\ Moved(1) /\ Rests(0)
      /\ Rem(0)' = Rem(0) /\ In(0)' = In(0) /\ Fin(0)' = Fin(0)
      /\ \A t : Op(t)' = Op(t) /\ Real(cur[t])' = Real(cur[t])
      /\ \A a, b : NoReal(a, b)' = NoReal(a', b')
  BY <1>1, <1>2, StepFacts
<1>4. /\ Streams' /\ Unread(1)' = Unread(1) /\ to'[1] = to[1] /\ Unread(0)' = Unread(0) + 1
      /\ \A p \in 1 .. Unread(0) : to'[0][p] = to[0][p]
      /\ to'[0][Unread(0) + 1] = Message(1, "keys", n)
  BY <1>1, <1>2, Sent DEF LoopInv
<1>5. num_inputs' \in [Server -> Nat] /\ num_inputs'[1] = n /\ num_inputs'[0] = num_inputs[0]
  BY <1>1, <1>2 DEF LoopInv, Counts
<1>6. PICK g \in RealOps : /\ g = Op(1) /\ Segment(1) = g /\ pc[1] = "work" /\ Rem(1) \in 1 .. Steps(g)
                           /\ StepAt(1, g, Rem(1)) = Item("send", "keys")
  <2>1. pc[1] = "work"
    <3>1. pc[1] # "refresh"
      BY <1>1, <1>2, NextItem DEF LoopInv
    <3>2. pc[1] # "startup"
      BY <1>1, <1>2, NextItem, StartSteps, StartItemAt DEF LoopInv
    <3> QED
      BY <1>1, <1>2, <3>1, <3>2, NextItem DEF LoopInv
  <2> QED
    BY <1>1, <1>2, <2>1, NextItem DEF LoopInv
<1>7. Rem(1) = Steps(g) /\ Steps(g) \in 3 .. 8
  BY <1>2, <1>6, ItemAt, Families
<1>8. pc'[1] = "work" /\ Rem(1)' = Rem(1) - 1 /\ In(1) /\ In(1)' /\ Fin(1)' = Fin(1)
  BY <1>3, <1>6, <1>7 DEF Moved, In, Fin
<1>9. Counts'
  BY <1>1, <1>2, <1>5, <1>6, SteadyCounts DEF LoopInv, Counts
<1>10. ~Starting /\ ~Starting' /\ (pc[0] = "startup" <=> pc[1] = "startup")' /\ Together' = Together
  BY <1>3, <1>6, <1>8 DEF Starting, Together, LoopInv, Pair, Rests
<1>11. ASSUME Together PROVE SameExchange'
  <2>1. SameExchange /\ Shared(g)
    BY <1>6, <1>11, TogetherFacts DEF Shared
  <2>2. Wire(g) /\ g \in Exchanges /\ cur[0] = cur[1] /\ g = Op(0)
    BY <2>1 DEF SameExchange, Shared, Exchanges
  <2>3. Tells(1, "keys") /\ n = Val(1, "keys")'
    BY <1>1, <1>2, <1>5 DEF Tells, Val
  <2>4. Wire(g)'
    BY <1>1, <1>2, <1>3, <1>6, <1>7, <1>8, <2>2, <2>3, WireSends DEF LoopInv
  <2>5. Met(g)' /\ g = Op(0)'
    BY <1>1, <1>2, <1>7, <1>11, <2>1, StaysTogether
  <2>6. ~(Rem(0) < Steps(g))
    <3>1. Written(1, g, Rem(1)) = 0
      BY <1>7, Families DEF Written, One
    <3>2. WasRead(0, g, Rem(0)) <= 0
      BY <1>2, <2>2, <3>1 DEF Wire
    <3>3. PICK r \in Nat : r = Rem(0)
      BY <1>2, <2>1, Families DEF Shared
    <3>4. r < Steps(g) => WasRead(0, g, r) >= 1
      BY <1>7, <3>3 DEF WasRead, One
    <3>5. WasRead(0, g, r) \in Nat
      BY TableTypes
    <3> QED
      BY <3>2, <3>3, <3>4, <3>5
  <2>7. ~(Rem(0)' < Steps(g))
    BY <1>3, <2>6
  <2>8. ~Checked(0) /\ ~Checked(1) /\ ~Drawn(0) /\ ~Drawn(1)
    <3>1. g \in SnipOps => Steps(g) = 8 /\ Rem(0) = 8 /\ Rem(1) = 8
      BY <1>2, <1>7, <2>1, <2>6, Families DEF Shared
    <3> QED
      BY <1>6, <2>2, <3>1 DEF Checked, Drawn
  <2>9. ~Checked(0)' /\ ~Checked(1)' /\ ~Drawn(0)' /\ ~Drawn(1)'
    BY <1>1, <1>2, <1>7, <1>11, <2>1, <2>8, SteadyTogether
  <2>10. SameUses' /\ SameSeed'
    BY <1>1, <1>2, <2>1, <2>8, <2>9 DEF SameExchange, SameUses, SameSeed, Server
  <2> QED
    BY <1>1, <2>1, <2>4, <2>5, <2>7, <2>10 DEF SameExchange
<1>12. ASSUME ~Together PROVE Apart'
  <2>1. Apart
    BY <1>10, <1>12 DEF LoopInv, Pair
  <2>2. Lagging' = Lagging /\ Owed' = Owed /\ ~Keyed /\ Keyed'
    BY <1>1, <1>3, <1>6, <1>7, <1>8 DEF Lagging, Owed, Keyed
  <2>3. Ended' = Ended
    BY <1>3, <2>2 DEF Ended
  <2>4. Unread(0) = One(Lagging) + One(Owed)
    BY <2>1, <2>2 DEF Apart, Trail, One
  <2>5. \A kind : kind # "keys" => Val(1, kind)' = Val(1, kind)
    BY <1>1 DEF Val
  <2>6. Trail'
    <3>1. Unread(1)' = 0 /\ Unread(0)' = One(Lagging) + One(Owed) + 1
      BY <1>4, <2>1, <2>4 DEF Apart, Trail
    <3>2. Lagging => Carries(to[0][1], 0, "sum", cur[0])'
      BY <1>3, <1>4, <2>1, <2>4, <2>5 DEF Apart, Trail, Carries, One
    <3>3. Owed => Carries(to[0][One(Lagging) + 1], 0, "randomX", cur[0])'
      BY <1>3, <1>4, <2>1, <2>2, <2>4, <2>5 DEF Apart, Trail, Carries, One
    <3>4. Carries(to[0][One(Lagging) + One(Owed) + 1], 0, "keys", cur[1])'
      BY <1>3, <1>4, <1>5, <2>2, <2>4 DEF Carries, Message, Val
    <3> QED
      BY <2>2, <3>1, <3>2, <3>3, <3>4 DEF Trail, One
  <2>7. (In(1) => Rem(1) >= Steps(Op(1)) - 1)'
    BY <1>3, <1>6, <1>7, <1>8
  <2> QED
    BY <1>1, <1>3, <1>8, <2>1, <2>2, <2>3, <2>6, <2>7 DEF Apart, Rests
<1>13. Pair'
  BY <1>10, <1>11, <1>12 DEF Pair
<1>14. PointInv'
  BY <1>2, PointStep DEF ServerStep
<1> QED
  BY <1>3, <1>4, <1>9, <1>13, <1>14 DEF LoopInv

\* Server 0 reads them, once it serves the client they are of.
LEMMA RecvKeysInv ==
  ASSUME LoopInv, RecvKeys
  PROVE  LoopInv'
<1>1. /\ Ready(0, "recv", "keys") /\ Done(0) /\ Get(0, "keys")
      /\ num_inputs' = [num_inputs EXCEPT ![0] = Head(to[0]).val]
      /\ UNCHANGED <<randomX, randx_uses, precomp, snips_seed>>
  BY DEF RecvKeys
<1>2. 0 \in Server /\ 1 \in Server /\ 1 - 0 = 1
  BY DEF Server
<1>3. /\ Place' /\ Line' /\ ops' = ops /\ cur' = cur /\ Moved(0) /\ Rests(1)
      /\ Rem(1)' = Rem(1) /\ \A t : Op(t)' = Op(t)
  BY <1>1, <1>2, StepFacts
<1>4. /\ Streams' /\ Unread(0) > 0 /\ Head(to[0]) = to[0][1] /\ to[0][1].kind = "keys"
  BY <1>1, <1>2, Taken DEF LoopInv
<1>5. PICK g \in RealOps : /\ g = Op(0) /\ Segment(0) = g /\ pc[0] = "work" /\ Rem(0) \in 1 .. Steps(g)
                           /\ StepAt(0, g, Rem(0)) = Item("recv", "keys")
  <2>1. pc[0] = "work"
    <3>1. pc[0] # "refresh"
      BY <1>1, <1>2, NextItem DEF LoopInv
    <3>2. pc[0] # "startup"
      BY <1>1, <1>2, NextItem, StartSteps, StartItemAt DEF LoopInv
    <3> QED
      BY <1>1, <1>2, <3>1, <3>2, NextItem DEF LoopInv
  <2> QED
    BY <1>1, <1>2, <2>1, NextItem DEF LoopInv
<1>6. Rem(0) = Steps(g) /\ Steps(g) \in 3 .. 8
  BY <1>2, <1>5, ItemAt, Families
<1>7. ~Starting /\ In(0)
  BY <1>5 DEF Starting, In
<1>8. Together
  <2>1. ASSUME ~Together PROVE FALSE
    <3>1. Apart
      BY <1>7, <2>1 DEF LoopInv, Pair
    <3>2. ~Lagging /\ ~Owed
      BY <1>5, <1>6, <1>7, <3>1 DEF Apart
    <3>3. Keyed
      BY <1>4, <3>1, <3>2 DEF Apart, Trail, One
    <3>4. /\ In(1) /\ Real(cur[1]) /\ Fin(1) = cur[1] - 1 /\ Fin(0) = cur[0] - 1
          /\ cur[0] \in Nat /\ cur[1] \in Nat /\ cur[0] # cur[1]
      BY <1>2, <1>7, <2>1, <3>3 DEF Keyed, In, Fin, LoopInv, Place, Together
    <3>5. cur[0] > cur[1]
      BY <1>7, <3>2, <3>4 DEF Lagging
    <3> QED
      BY <3>1, <3>4, <3>5 DEF Apart, NoReal, Real
  <2> QED
    BY <2>1
<1>9. SameExchange /\ Shared(g)
  BY <1>5, <1>8, TogetherFacts DEF Shared
<1>10. Wire(g) /\ g \in Exchanges /\ cur[0] = cur[1] /\ g # "startup"
  BY <1>5, <1>9, Families DEF SameExchange, Shared, Exchanges
<1>11. Carries(to[0][1], 0, "keys", cur[0])
  <2>1. Unread(0) \in Nat
    BY <1>2 DEF LoopInv, Streams
  <2>2. Carries(to[0][1], 0, Kind(0, g, WasRead(0, g, Rem(0)) + 1), cur[0])
    BY <1>2, <1>4, <1>10, <2>1, WireFirst
  <2> QED
    BY <1>4, <2>2 DEF Carries
<1>12. num_inputs'[0] = num_inputs[1] /\ num_inputs'[1] = num_inputs[1] /\ num_inputs' \in [Server -> Nat]
  BY <1>1, <1>2, <1>4, <1>11 DEF LoopInv, Counts, Carries, Val
<1>13. Counts'
  BY <1>1, <1>2, <1>5, <1>12, SteadyCounts DEF LoopInv, Counts
<1>14. /\ Together' /\ ~Starting' /\ Met(g)' /\ g = Op(0)' /\ Rem(0)' = Rem(0) - 1
       /\ (pc[0] = "startup" <=> pc[1] = "startup")'
  BY <1>1, <1>2, <1>6, <1>8, <1>9, StaysTogether
<1>15. Wire(g)'
  <2>1. \A t \in Server : \A n : Val(1 - t, Kind(t, g, n))' = Val(1 - t, Kind(t, g, n))
    <3>1. \A kind : Val(1, kind)' = Val(1, kind)
      BY <1>1, <1>12 DEF Val
    <3>2. \A kind : kind # "keys" => Val(0, kind)' = Val(0, kind)
      BY <1>1 DEF Val
    <3>3. \A n : Kind(1, g, n) # "keys"
      BY <1>10 DEF Kind
    <3>4. \A n : Val(1 - 0, Kind(0, g, n))' = Val(1 - 0, Kind(0, g, n))
      BY <3>1
    <3>5. \A n : Val(1 - 1, Kind(1, g, n))' = Val(1 - 1, Kind(1, g, n))
      BY <3>2, <3>3
    <3> QED
      BY <3>4, <3>5 DEF Server
  <2> QED
    BY <1>1, <1>2, <1>3, <1>5, <1>6, <1>10, <1>14, <2>1, WireReads DEF LoopInv
<1>16. SameUses' /\ SameSeed'
  <2>1. \A t \in Server : (Checked(t)' <=> Checked(t)) /\ (Drawn(t)' <=> Drawn(t))
    BY <1>1, <1>2, <1>6, <1>8, <1>9, SteadyTogether
  <2>2. Draws(1)' = Draws(1)
    BY <1>3, <1>12 DEF Draws
  <2>3. \A t \in Server : 1 - t \in Server
    BY DEF Server
  <2> QED
    BY <1>1, <1>2, <1>9, <1>12, <2>1, <2>2, <2>3 DEF SameExchange, SameUses, SameSeed
<1>17. SameExchange'
  BY <1>1, <1>9, <1>12, <1>14, <1>15, <1>16 DEF SameExchange
<1>18. Pair'
  BY <1>14, <1>17 DEF Pair
<1>19. PointInv'
  BY <1>2, PointStep DEF ServerStep
<1> QED
  BY <1>3, <1>4, <1>13, <1>18, <1>19 DEF LoopInv

-----------------------------------------------------------------------------
(* The checks of the SNIPs.                                                *)

\* A step between the keys and the sum: both are in the operation.
LEMMA InTheMiddle ==
  ASSUME LoopInv, NEW s \in Server, NEW do, NEW what, Ready(s, do, what), Done(s), pc[s] = "work",
         what \in {"cor", "out"}
  PROVE  /\ Together /\ SameExchange /\ num_inputs[0] = num_inputs[1]
         /\ \E g \in SnipOps : /\ g \in RealOps /\ Shared(g) /\ Steps(g) = 8 /\ Rem(s) \in 3 .. 6
                               /\ (do = "send" /\ what = "cor" => Rem(s) = 6)
                               /\ (do = "send" /\ what = "out" => Rem(s) = 4)
                               /\ StepAt(s, g, Rem(s)) = Item(do, what)
<1>1. /\ Op(s) \in RealOps /\ Rem(s) \in 1 .. Steps(Op(s))
      /\ StepAt(s, Op(s), Rem(s)) = Item(do, what)
  BY NextItem DEF LoopInv
<1>2. do = "send" \/ do = "recv"
  BY <1>1 DEF StepAt, Way, Item, Meet
<1>3. Op(s) \in SnipOps /\ Rem(s) \in 3 .. 6
      /\ (do = "send" /\ what = "cor" => Rem(s) = 6) /\ (do = "send" /\ what = "out" => Rem(s) = 4)
  BY <1>1, <1>2, ItemAt
<1>4. Steps(Op(s)) = 8
  BY <1>1, <1>3, Families
<1>5. Together
  BY <1>3, <1>4, MustBeTogether
<1>6. SameExchange /\ Shared(Op(s)) /\ Op(s) = Op(0) /\ Op(s) = Op(1)
  BY <1>1, <1>5, TogetherFacts DEF Shared, Server
<1>7. Rem(0) < 8
  <2>1. Op(s) \notin MaskedSumOps
    BY <1>1, <1>3, Families
  <2>2. Rem(0) < 7 <=> Rem(1) < 7
    BY <1>4, <1>6, <2>1 DEF SameExchange, Met
  <2>3. s = 0 \/ s = 1
    BY DEF Server
  <2>4. Rem(0) \in Nat /\ Rem(1) \in Nat
    BY <1>4, <1>6 DEF Shared, Server
  <2> QED
    BY <1>3, <2>2, <2>3, <2>4
<1>8. num_inputs[0] = num_inputs[1]
  BY <1>4, <1>6, <1>7 DEF SameExchange
<1> QED
  BY <1>1, <1>3, <1>4, <1>5, <1>6, <1>8

\* The halves are sent: num_inputs more uses of the point.
LEMMA SendCorInv ==
  ASSUME LoopInv, NEW s \in Server, SendCor(s)
  PROVE  LoopInv'
<1>1. /\ Ready(s, "send", "cor") /\ Done(s) /\ Put(s, "cor", precomp'[s][Size(s)])
      /\ precomp' = [precomp EXCEPT ![s] = GetPrecomp(s)]
      /\ randx_uses' = [randx_uses EXCEPT ![s] = randx_uses[s] + num_inputs[s]]
      /\ UNCHANGED <<randomX, snips_seed, num_inputs>>
  BY DEF SendCor, Uses
<1>2. pc[s] = "work"
  <2>1. pc[s] # "refresh"
    BY <1>1, NextItem DEF LoopInv
  <2>2. pc[s] # "startup"
    BY <1>1, NextItem, StartSteps, StartItemAt DEF LoopInv
  <2> QED
    BY <1>1, <2>1, <2>2, NextItem DEF LoopInv
<1>3. Together /\ SameExchange /\ num_inputs[0] = num_inputs[1]
  BY <1>1, <1>2, InTheMiddle
<1>4. PICK g \in SnipOps : /\ g \in RealOps /\ Shared(g) /\ Steps(g) = 8 /\ Rem(s) = 6
                           /\ StepAt(s, g, 6) = Item("send", "cor")
  BY <1>1, <1>2, InTheMiddle
<1>5. /\ Place' /\ Line' /\ ops' = ops /\ cur' = cur /\ Moved(s) /\ Rests(1 - s)
      /\ Rem(1 - s)' = Rem(1 - s) /\ In(1 - s)' = In(1 - s)
      /\ \A t : Op(t)' = Op(t) /\ Real(cur[t])' = Real(cur[t]) /\ Size(t)' = Size(t)
  BY <1>1, StepFacts
<1>6. Streams'
  BY <1>1, Sent DEF LoopInv
<1>7. /\ Together' /\ ~Starting' /\ Met(g)' /\ g = Op(0)' /\ pc'[s] = "work" /\ Rem(s)' = 5
      /\ (pc[0] = "startup" <=> pc[1] = "startup")'
  BY <1>1, <1>2, <1>3, <1>4, StaysTogether
<1>8. PointInv'
  BY PointStep DEF ServerStep
<1>9. Size(s) \in DOMAIN precomp'[s] /\ precomp'[s][Size(s)] = randomX[s]
  <2>1. precomp'[s] = GetPrecomp(s)
    BY <1>1 DEF LoopInv, PointInv
  <2>2. Size(s) \in DOMAIN GetPrecomp(s)
    BY DEF GetPrecomp
  <2> QED
    BY <1>1, <1>8, <2>1, <2>2 DEF PointInv, PointRetired
<1>10. Wire(g)'
  <2>1. Tells(s, "cor") /\ precomp'[s][Size(s)] = Val(s, "cor")'
    BY <1>1, <1>9 DEF Tells, Val
  <2>2. Wire(g) /\ g \in Exchanges /\ cur[0] = cur[1] /\ Rem(s) \in 2 .. Steps(g) /\ Rem(s)' = Rem(s) - 1
    BY <1>3, <1>4, <1>7 DEF SameExchange, Shared, Exchanges
  <2> QED
    BY <1>1, <1>4, <1>5, <2>1, <2>2, WireSends DEF LoopInv
<1>11. /\ randx_uses[0] \in Nat /\ randx_uses[1] \in Nat /\ num_inputs[1] \in Nat
       /\ randx_uses' \in [Server -> Nat] /\ randx_uses'[s] = randx_uses[s] + num_inputs[1]
       /\ \A t \in Server : t # s => randx_uses'[t] = randx_uses[t] /\ precomp'[t] = precomp[t]
  <2>1. randx_uses \in [Server -> Nat] /\ num_inputs \in [Server -> Nat]
        /\ precomp = [t \in Server |-> precomp[t]]
    BY DEF LoopInv, Counts, PointInv
  <2>2. num_inputs[s] = num_inputs[1] /\ 0 \in Server /\ 1 \in Server
    BY <1>3 DEF Server
  <2> QED
    BY <1>1, <2>1, <2>2
<1>12. ~Checked(s) /\ Checked(s)' /\ (Checked(1 - s)' <=> Checked(1 - s))
  <2>1. Op(s) = g /\ Op(s)' = g
    BY <1>4, <1>5 DEF Shared, Server
  <2>2. ~Checked(s) /\ Checked(s)'
    BY <1>4, <1>7, <2>1 DEF Checked
  <2>3. Checked(1 - s)' <=> Checked(1 - s)
    BY <1>5 DEF Checked
  <2> QED
    BY <2>2, <2>3
<1>13. SameUses'
  <2>1. CASE s = 0
    BY <1>1, <1>3, <1>11, <1>12, <2>1 DEF SameExchange, SameUses, Server
  <2>2. CASE s = 1
    BY <1>1, <1>3, <1>11, <1>12, <2>2 DEF SameExchange, SameUses, Server
  <2> QED
    BY <2>1, <2>2 DEF Server
<1>14. SameSeed'
  <2>1. \A t \in Server : (Drawn(t)' <=> Drawn(t)) /\ 1 - t \in Server
    BY <1>1, <1>3, <1>4, SteadyTogether DEF Server
  <2>2. Draws(1)' = Draws(1) /\ 0 \in Server /\ 1 \in Server
    BY <1>1, <1>5 DEF Draws, Server
  <2> QED
    BY <1>1, <1>3, <2>1, <2>2 DEF SameExchange, SameSeed
<1>15. Pair'
  BY <1>1, <1>3, <1>7, <1>10, <1>13, <1>14 DEF Pair, SameExchange
<1>16. ASSUME NEW t \in Server
       PROVE (DueAt(t) /\ (pc[t] = "refresh" => randx_uses[t] > RandomXThreshold)
              /\ (In(t) /\ Checked(t) => Size(t) \in DOMAIN precomp[t]))'
  <2>1. CASE t = s
    <3>1. Real(cur[s])
      BY <1>2 DEF LoopInv, Place, In
    <3> QED
      BY <1>5, <1>7, <1>9, <1>12, <2>1, <3>1 DEF DueAt
  <2>2. CASE t # s
    <3>1. t = 1 - s
      BY <2>2 DEF Server
    <3> QED
      BY <1>5, <1>11, <1>12, <2>2, <3>1 DEF LoopInv, Counts, DueAt, Rests
  <2> QED
    BY <2>1, <2>2
<1>17. Counts'
  BY <1>1, <1>11, <1>16 DEF Counts, LoopInv
<1> QED
  BY <1>5, <1>6, <1>8, <1>15, <1>17 DEF LoopInv

\* The number of coefficients is the same for both.
LEMMA DrawsNat ==
  ASSUME LoopInv, cur[0] = cur[1], num_inputs[0] = num_inputs[1]
  PROVE  Draws(0) = Draws(1) /\ Draws(1) \in Nat
<1>1. NumMulGates(ops[cur[1]]) \in Nat
  BY DEF NumMulGates
<1>2. num_inputs[1] \in Nat
  BY DEF LoopInv, Counts, Server
<1>3. PICK a \in Nat, b \in Nat : a = num_inputs[1] /\ b = NumMulGates(ops[cur[1]]) + 1
  BY <1>1, <1>2
<1>4. a * b \in Nat
  OBVIOUS
<1> QED
  BY <1>3, <1>4 DEF Draws

\* The combinations are sent: both draw as much.
LEMMA SendOutInv ==
  ASSUME LoopInv, NEW s \in Server, SendOut(s)
  PROVE  LoopInv'
<1>1. /\ Ready(s, "send", "out") /\ Done(s) /\ Put(s, "out", snips_seed'[s])
      /\ snips_seed' = [snips_seed EXCEPT ![s] = snips_seed[s] + Draws(s)]
      /\ UNCHANGED <<randomX, randx_uses, precomp, num_inputs>>
  BY DEF SendOut
<1>2. pc[s] = "work"
  <2>1. pc[s] # "refresh"
    BY <1>1, NextItem DEF LoopInv
  <2>2. pc[s] # "startup"
    BY <1>1, NextItem, StartSteps, StartItemAt DEF LoopInv
  <2> QED
    BY <1>1, <2>1, <2>2, NextItem DEF LoopInv
<1>3. Together /\ SameExchange /\ num_inputs[0] = num_inputs[1]
  BY <1>1, <1>2, InTheMiddle
<1>4. PICK g \in SnipOps : /\ g \in RealOps /\ Shared(g) /\ Steps(g) = 8 /\ Rem(s) = 4
                           /\ StepAt(s, g, 4) = Item("send", "out")
  BY <1>1, <1>2, InTheMiddle
<1>5. /\ Place' /\ Line' /\ ops' = ops /\ cur' = cur
      /\ Rem(1 - s)' = Rem(1 - s) /\ \A t : Op(t)' = Op(t)
  BY <1>1, StepFacts
<1>6. Streams'
  BY <1>1, Sent DEF LoopInv
<1>7. /\ Together' /\ ~Starting' /\ Met(g)' /\ g = Op(0)' /\ Rem(s)' = 3
      /\ (pc[0] = "startup" <=> pc[1] = "startup")'
  BY <1>1, <1>2, <1>3, <1>4, StaysTogether
<1>8. Draws(s) = Draws(1) /\ Draws(1) \in Nat
  BY <1>3, <1>4, DrawsNat DEF Shared, Server
<1>9. /\ snips_seed[0] \in Nat /\ snips_seed[1] \in Nat /\ snips_seed' \in [Server -> Nat]
      /\ snips_seed'[s] = snips_seed[s] + Draws(1)
      /\ \A t \in Server : t # s => snips_seed'[t] = snips_seed[t]
  <2>1. snips_seed \in [Server -> Nat] /\ 0 \in Server /\ 1 \in Server
    BY DEF LoopInv, Counts, Server
  <2> QED
    BY <1>1, <1>8, <2>1
<1>10. Wire(g)'
  <2>1. 1 - s \in Server /\ 1 - s # s
    BY DEF Server
  <2>2. Tells(s, "out") /\ snips_seed'[s] = Val(s, "out")'
    BY <1>1, <1>9, <2>1 DEF Tells, Val
  <2>3. Wire(g) /\ g \in Exchanges /\ cur[0] = cur[1] /\ Rem(s) \in 2 .. Steps(g) /\ Rem(s)' = Rem(s) - 1
    BY <1>3, <1>4, <1>7 DEF SameExchange, Shared, Exchanges
  <2> QED
    BY <1>1, <1>4, <1>5, <2>2, <2>3, WireSends DEF LoopInv
<1>11. ~Drawn(s) /\ Drawn(s)' /\ (Drawn(1 - s)' <=> Drawn(1 - s))
  <2>1. Op(s) = g /\ Op(s)' = g
    BY <1>4, <1>5 DEF Shared, Server
  <2>2. ~Drawn(s) /\ Drawn(s)'
    BY <1>4, <1>7, <2>1 DEF Drawn
  <2>3. Drawn(1 - s)' <=> Drawn(1 - s)
    BY <1>5 DEF Drawn
  <2> QED
    BY <2>2, <2>3
<1>12. Draws(1)' = Draws(1)
  BY <1>1, <1>5 DEF Draws
<1>13. SameSeed'
  <2>1. CASE s = 0
    BY <1>3, <1>8, <1>9, <1>11, <1>12, <2>1 DEF SameExchange, SameSeed, Server
  <2>2. CASE s = 1
    BY <1>3, <1>8, <1>9, <1>11, <1>12, <2>2 DEF SameExchange, SameSeed, Server
  <2> QED
    BY <2>1, <2>2 DEF Server
<1>14. SameUses'
  <2>1. \A t \in Server : (Checked(t)' <=> Checked(t)) /\ 1 - t \in Server
    BY <1>1, <1>3, <1>4, SteadyTogether DEF Server
  <2>2. 0 \in Server /\ 1 \in Server
    BY DEF Server
  <2> QED
    BY <1>1, <1>3, <2>1, <2>2 DEF SameExchange, SameUses
<1>15. Pair'
  BY <1>1, <1>3, <1>7, <1>10, <1>13, <1>14 DEF Pair, SameExchange
<1>16. Counts'
  BY <1>1, <1>2, <1>9, SteadyCounts DEF LoopInv, Counts
<1>17. PointInv'
  BY PointStep DEF ServerStep
<1> QED
  BY <1>5, <1>6, <1>15, <1>16, <1>17 DEF LoopInv

-----------------------------------------------------------------------------
(* The other messages.                                                     *)

\* An operation's own message is neither in the start-up nor in a refresh.
LEMMA AtWork ==
  ASSUME LoopInv, NEW s \in Server, NEW do, NEW what, Ready(s, do, what),
         what \notin {"randomX", "seed", "both"}
  PROVE  pc[s] = "work"
<1>1. pc[s] # "refresh"
  BY NextItem DEF LoopInv
<1>2. pc[s] # "startup"
  BY NextItem, StartSteps, StartItemAt DEF LoopInv
<1> QED
  BY <1>1, <1>2, NextItem DEF LoopInv

\* A verdict, the checks, or a SNIP's messages when they are read.
LEMMA MiddleInv ==
  ASSUME LoopInv, NEW s \in Server, NEW do, NEW what, Ready(s, do, what), Done(s),
         \/ do = "send" /\ what \in {"valid", "checks", "all_valid"} /\ Put(s, what, 0)
         \/ do = "recv" /\ what \in {"valid", "checks", "all_valid", "cor", "out"} /\ Get(s, what),
         UNCHANGED <<randomX, randx_uses, precomp, snips_seed, num_inputs>>, PointInv'
  PROVE  LoopInv'
<1>1. pc[s] = "work"
  BY AtWork
<1>2. PICK g \in RealOps : /\ g = Op(s) /\ Rem(s) \in 1 .. Steps(g)
                           /\ StepAt(s, g, Rem(s)) = Item(do, what)
  BY <1>1, NextItem DEF LoopInv
<1>3. Rem(s) # 1 /\ Rem(s) # Steps(g) /\ Steps(g) \in 3 .. 8
  BY <1>2, ItemAt, Families
<1>4. Streams'
  BY Sent, Taken DEF LoopInv
<1>5. Together
  <2>1. CASE s = 0
    BY <1>1, <1>2, <1>3, <2>1, MustBeTogether
  <2>2. CASE s = 1 /\ do = "recv"
    <3>1. Unread(1) > 0
      BY <2>2, Taken DEF LoopInv
    <3> QED
      BY <1>1, <2>2, <3>1, MustBeTogether
  <2>3. CASE s = 1 /\ do = "send"
    <3>1. g \in SketchOps /\ Rem(s) = 3
      BY <1>2, <2>3, ItemAt
    <3>2. Steps(g) = 5
      BY <1>2, <3>1, Families
    <3> QED
      BY <1>1, <1>2, <2>3, <3>1, <3>2, MustBeTogether
  <2> QED
    BY <2>1, <2>2, <2>3 DEF Server
<1>6. SameExchange /\ Shared(g)
  BY <1>2, <1>5, TogetherFacts DEF Shared, Server
<1>7. /\ Place' /\ Line' /\ ops' = ops /\ cur' = cur /\ Rem(1 - s)' = Rem(1 - s)
      /\ \A t : Op(t)' = Op(t)
  BY StepFacts
<1>8. /\ Together' /\ ~Starting' /\ Met(g)' /\ g = Op(0)' /\ Rem(s)' = Rem(s) - 1
      /\ (pc[0] = "startup" <=> pc[1] = "startup")'
  BY <1>2, <1>3, <1>5, <1>6, StaysTogether
<1>9. Wire(g) /\ g \in Exchanges /\ cur[0] = cur[1] /\ Rem(s) \in 2 .. Steps(g)
  BY <1>2, <1>3, <1>6 DEF SameExchange, Shared, Exchanges
<1>10. \A t, kind : Val(t, kind)' = Val(t, kind)
  BY DEF Val
<1>11. Wire(g)'
  <2>1. CASE do = "send"
    <3>1. Tells(s, what) /\ 0 = Val(s, what)'
      BY <1>10, <2>1 DEF Tells, Val
    <3> QED
      BY <1>2, <1>7, <1>8, <1>9, <2>1, <3>1, WireSends DEF LoopInv
  <2>2. CASE do = "recv"
    BY <1>2, <1>7, <1>8, <1>9, <1>10, <2>2, WireReads DEF LoopInv
  <2> QED
    BY <2>1, <2>2
<1>12. SameUses' /\ SameSeed'
  <2>1. \A t \in Server : (Checked(t)' <=> Checked(t)) /\ (Drawn(t)' <=> Drawn(t)) /\ 1 - t \in Server
    BY <1>2, <1>3, <1>5, <1>6, SteadyTogether DEF Server
  <2>2. Draws(1)' = Draws(1) /\ 0 \in Server /\ 1 \in Server
    BY <1>7 DEF Draws, Server
  <2> QED
    BY <1>6, <2>1, <2>2 DEF SameExchange, SameUses, SameSeed
<1>13. num_inputs[0] = num_inputs[1]
  <2>1. s = 0 => Rem(0) < Steps(g)
    BY <1>2, <1>3
  <2>2. s = 1 => Rem(0) < Steps(g)
    <3>1. CASE s = 1 /\ g \notin MaskedSumOps
      <4>1. Rem(1) # Steps(g) - 1 /\ Rem(1) < Steps(g) - 1
        BY <1>2, <1>3, <3>1, NotAtMeet
      <4>2. Rem(0) < Steps(g) - 1
        BY <1>6, <3>1, <4>1 DEF SameExchange, Met, Shared
      <4> QED
        BY <1>3, <1>6, <4>2 DEF Shared, Server
    <3>2. CASE s = 1 /\ g \in MaskedSumOps /\ Rem(0) = Steps(g)
      <4>1. Written(0, g, Rem(0)) = 0
        BY <1>3, <3>2, Families DEF Written, One
      <4>2. do = "recv"
        <5>1. g \notin SketchOps
          BY <1>2, <3>2, Families
        <5>2. do = "send" => what \notin {"keys", "sum", "cor", "out"}
          OBVIOUS
        <5> QED
          BY <1>2, <3>2, <5>1, <5>2, ItemAt
      <4>3. Unread(1) > 0
        BY <3>2, <4>2, Taken DEF LoopInv
      <4>4. Unread(1) = Written(0, g, Rem(0)) - WasRead(1, g, Rem(1)) /\ WasRead(1, g, Rem(1)) \in Nat
        BY <1>9, TableTypes DEF Wire, Server
      <4> QED
        BY <4>1, <4>3, <4>4
    <3>3. Rem(0) \in 1 .. Steps(g)
      BY <1>6 DEF Shared, Server
    <3> QED
      BY <1>3, <3>1, <3>2, <3>3
  <2> QED
    BY <1>6, <2>1, <2>2 DEF SameExchange, Shared, Server
<1>14. Pair'
  BY <1>6, <1>8, <1>11, <1>12, <1>13 DEF Pair, SameExchange
<1>15. Counts'
  BY <1>1, SteadyCounts DEF LoopInv, Counts
<1> QED
  BY <1>4, <1>7, <1>14, <1>15 DEF LoopInv

\* Server 1 sends its sum, when server 0 is waiting for nothing else.
LEMMA SendSumInv ==
  ASSUME LoopInv, Ready(1, "send", "sum"), Done(1), Put(1, "sum", 0),
         UNCHANGED <<randomX, randx_uses, precomp, snips_seed, num_inputs>>, PointInv'
  PROVE  LoopInv'
<1>1. pc[1] = "work" /\ 0 \in Server /\ 1 \in Server /\ 1 - 1 = 0
  BY AtWork DEF Server
<1>2. PICK g \in RealOps : /\ g = Op(1) /\ Rem(1) \in 1 .. Steps(g)
                           /\ StepAt(1, g, Rem(1)) = Item("send", "sum")
  BY <1>1, NextItem DEF LoopInv
<1>3. Rem(1) = 1 /\ Steps(g) \in 3 .. 8
  BY <1>1, <1>2, ItemAt, Families
<1>4. Together
  <2>1. CASE Rem(1) < Steps(Op(1)) - 1
    BY <1>1, <2>1, MustBeTogether
  <2> QED
    BY <1>2, <1>3, <2>1
<1>5. SameExchange /\ Shared(g)
  BY <1>2, <1>4, TogetherFacts DEF Shared
<1>6. /\ Place' /\ Line' /\ ops' = ops /\ cur' = cur /\ Moved(1) /\ Rests(0)
      /\ Rem(0)' = Rem(0) /\ In(0)' = In(0) /\ Fin(0)' = Fin(0) /\ \A t : Op(t)' = Op(t)
  BY <1>1, StepFacts
<1>7. pc'[1] = "close" /\ Fin(1)' = cur[1] /\ ~In(1)'
  BY <1>1, <1>3, <1>6 DEF Moved, Beyond, Fin, In
<1>8. /\ Streams' /\ Unread(1)' = Unread(1) /\ Unread(0)' = Unread(0) + 1
      /\ to'[0][Unread(0) + 1] = Message(1, "sum", 0)
  BY <1>1, Sent DEF LoopInv
<1>9. PICK r \in 1 .. 8 : r = Rem(0) /\ r <= Steps(g)
  BY <1>1, <1>3, <1>5 DEF Shared
<1>10. /\ WasRead(1, g, 1) <= Written(0, g, r) /\ Unread(1) = Written(0, g, r) - WasRead(1, g, 1)
       /\ WasRead(0, g, r) <= Written(1, g, 1) /\ Unread(0) = Written(1, g, 1) - WasRead(0, g, r)
  BY <1>1, <1>3, <1>5, <1>9 DEF SameExchange, Wire, Shared
<1>11. r = 1
  <2>1. CASE g = "BIT_SUM"
    <3>1. Steps(g) = 3 /\ g \notin MaskedSumOps
      BY <1>2, <2>1, Families DEF MaskedSumOps
    <3>2. Met(g)
      BY <1>5 DEF SameExchange, Shared
    <3>3. Rem(0) < 2 <=> Rem(1) < 2
      BY <3>1, <3>2 DEF Met
    <3> QED
      BY <1>3, <1>9, <3>3
  <2>2. CASE g # "BIT_SUM"
    BY <1>10, <2>2 DEF Written, WasRead, One
  <2> QED
    BY <2>1, <2>2
<1>12. Unread(0) = 0 /\ Unread(1) = 0
  <2>1. g \in SnipOps => Steps(g) = 8
    BY Families
  <2> QED
    BY <1>3, <1>10, <1>11, <2>1 DEF Written, WasRead, One
<1>13. randx_uses[0] = randx_uses[1] /\ randomX[0] = randomX[1] /\ snips_seed[0] = snips_seed[1]
  <2>1. (Checked(0) <=> Checked(1)) /\ (Drawn(0) <=> Drawn(1))
    BY <1>3, <1>5, <1>9, <1>11 DEF Checked, Drawn, Shared
  <2> QED
    BY <1>5, <2>1 DEF SameExchange, SameUses, SameSeed
<1>14. /\ ~Starting' /\ ~Together' /\ (pc[0] = "startup" <=> pc[1] = "startup")'
       /\ cur[0] = cur[1] /\ In(0) /\ cur[0] \in Nat
  BY <1>1, <1>4, <1>6, <1>7 DEF Starting, Together, In, Rests, LoopInv, Place
<1>15. Lagging' /\ ~Owed' /\ ~Keyed' /\ Ended' = cur[0]
  <2>1. ~Owed'
    <3>1. randx_uses[0] \in Nat /\ RandomXThreshold \in Nat
      BY <1>1, LoopAssumption DEF LoopInv, Counts
    <3> QED
      BY <1>13, <3>1 DEF Owed
  <2> QED
    BY <1>6, <1>7, <1>14, <2>1 DEF Lagging, Keyed, Ended
<1>16. Trail'
  <2>1. to'[0][1] = [kind |-> "sum", client |-> cur[0], val |-> 0]
    BY <1>8, <1>12, <1>14 DEF Message
  <2>2. Carries(to[0][1], 0, "sum", cur[0])'
    BY <1>6, <2>1 DEF Carries, Val
  <2> QED
    BY <1>8, <1>12, <1>15, <2>2 DEF Trail, One
<1>17. Apart'
  <2>1. Fin(0) = cur[0] - 1
    BY <1>14 DEF Fin, In
  <2>2. NoReal(Ended, Fin(1))' /\ NoReal(Fin(1), Fin(0))'
    <3>1. DOMAIN ops \subseteq Nat
      BY DEF LoopInv, Line
    <3>2. PICK k \in Nat : k = cur[0] /\ Ended' = k /\ Fin(1)' = k /\ Fin(0)' = k - 1
      BY <1>6, <1>7, <1>14, <1>15, <2>1
    <3> QED
      BY <1>6, <3>1, <3>2 DEF NoReal
  <2> QED
    BY <1>6, <1>7, <1>9, <1>11, <1>13, <1>15, <1>16, <2>2 DEF Apart
<1>18. Pair'
  BY <1>14, <1>17 DEF Pair
<1>19. Counts'
  BY <1>1, SteadyCounts DEF LoopInv, Counts
<1> QED
  BY <1>6, <1>8, <1>18, <1>19 DEF LoopInv


\* Server 0 reads it: server 1 may be clients ahead by then.
LEMMA RecvSumInv ==
  ASSUME LoopInv, Ready(0, "recv", "sum"), Done(0), Get(0, "sum"),
         UNCHANGED <<randomX, randx_uses, precomp, snips_seed, num_inputs>>, PointInv'
  PROVE  LoopInv'
<1>1. pc[0] = "work" /\ 0 \in Server /\ 1 \in Server /\ 1 - 0 = 1 /\ In(0)
  BY AtWork DEF Server, In
<1>2. PICK g \in RealOps : /\ g = Op(0) /\ Rem(0) \in 1 .. Steps(g)
                           /\ StepAt(0, g, Rem(0)) = Item("recv", "sum")
  BY <1>1, NextItem DEF LoopInv
<1>3. Rem(0) = 1 /\ Steps(g) \in 3 .. 8
  BY <1>1, <1>2, ItemAt, Families
<1>4. /\ Streams' /\ Unread(1)' = Unread(1) /\ to'[1] = to[1]
      /\ Unread(0) > 0 /\ Unread(0)' = Unread(0) - 1
      /\ \A p \in 1 .. Unread(0) - 1 : to'[0][p] = to[0][p + 1]
  BY <1>1, Taken DEF LoopInv
<1>5. ~Together
  <2>1. ASSUME Together PROVE FALSE
    <3>1. SameExchange /\ Shared(g)
      BY <1>2, <2>1, TogetherFacts DEF Shared
    <3>2. PICK r \in 1 .. 8 : r = Rem(1) /\ r <= Steps(g)
      BY <1>1, <1>3, <3>1 DEF Shared
    <3>3. WasRead(0, g, 1) <= Written(1, g, r) /\ Unread(0) = Written(1, g, r) - WasRead(0, g, 1)
      BY <1>1, <1>3, <3>1, <3>2 DEF SameExchange, Wire, Shared
    <3>4. g \in SnipOps => Steps(g) = 8
      BY Families
    <3> QED
      BY <1>3, <1>4, <3>2, <3>3, <3>4 DEF Written, WasRead, One
  <2> QED
    BY <2>1
<1>6. ~Starting /\ Apart
  BY <1>1, <1>5 DEF Starting, LoopInv, Pair
<1>7. Lagging
  BY <1>1, <1>2, <1>3, <1>6 DEF Apart
<1>8. /\ Place' /\ Line' /\ ops' = ops /\ cur' = cur /\ Moved(0) /\ Rests(1)
      /\ Rem(1)' = Rem(1) /\ In(1)' = In(1) /\ Fin(1)' = Fin(1) /\ \A t : Op(t)' = Op(t)
      /\ \A a, b : NoReal(a, b)' = NoReal(a', b')
  BY <1>1, StepFacts
<1>9. pc'[0] = "close" /\ Fin(0)' = cur[0] /\ ~In(0)'
  BY <1>1, <1>3, <1>8 DEF Moved, Beyond, Fin, In
<1>10. ~Starting' /\ ~Together' /\ (pc[0] = "startup" <=> pc[1] = "startup")'
  BY <1>1, <1>8, <1>9 DEF Starting, Together, LoopInv, Pair, Rests
<1>11. ~Lagging' /\ Owed' = Owed /\ Keyed' = Keyed /\ Ended' = cur[0] /\ Ended = cur[0]
  BY <1>7, <1>8, <1>9 DEF Lagging, Owed, Keyed, Ended
<1>12. Unread(0) = 1 + One(Owed) + One(Keyed) /\ Unread(1) = 0
  BY <1>6, <1>7 DEF Apart, Trail, One
<1>13. \A t, kind : Val(t, kind)' = Val(t, kind)
  BY DEF Val
<1>14. Trail'
  <2>1. Unread(0)' = One(Owed) + One(Keyed) /\ Unread(1)' = 0
    BY <1>4, <1>12 DEF One
  <2>2. Owed => Carries(to[0][1], 0, "randomX", cur[0])'
    <3>1. Owed => Carries(to[0][2], 0, "randomX", cur[0])
      BY <1>6, <1>7 DEF Apart, Trail, One
    <3>2. Owed => to'[0][1] = to[0][2]
      BY <1>4, <1>12 DEF One
    <3> QED
      BY <1>8, <1>13, <3>1, <3>2 DEF Carries
  <2>3. Keyed => Carries(to[0][One(Owed) + 1], 0, "keys", cur[1])'
    <3>1. Keyed => Carries(to[0][1 + One(Owed) + 1], 0, "keys", cur[1])
      BY <1>6, <1>7 DEF Apart, Trail, One
    <3>2. Keyed => to'[0][One(Owed) + 1] = to[0][1 + One(Owed) + 1]
      BY <1>4, <1>12 DEF One
    <3> QED
      BY <1>8, <1>11, <1>13, <3>1, <3>2 DEF Carries
  <2> QED
    BY <1>11, <2>1, <2>2, <2>3 DEF Trail, One
<1>15. Apart'
  <2>1. NoReal(Ended, Fin(1))'
    BY <1>6, <1>8, <1>11 DEF Apart
  <2>2. NoReal(Fin(1), Fin(0))'
    <3>1. cur[0] \in Nat /\ cur[1] \in Nat /\ DOMAIN ops \subseteq Nat
      BY <1>1 DEF LoopInv, Place, Line
    <3>2. PICK a \in Int, b \in Nat : a = Fin(1) /\ b = cur[0] /\ b <= a /\ Fin(1)' = a /\ Fin(0)' = b
      BY <1>7, <1>8, <1>9, <3>1 DEF Lagging, Fin
    <3> QED
      BY <1>8, <3>1, <3>2 DEF NoReal
  <2> QED
    BY <1>6, <1>8, <1>9, <1>11, <1>14, <2>1, <2>2 DEF Apart
<1>16. Pair'
  BY <1>10, <1>15 DEF Pair
<1>17. Counts'
  BY <1>1, SteadyCounts DEF LoopInv, Counts
<1> QED
  BY <1>4, <1>8, <1>16, <1>17 DEF LoopInv
-----------------------------------------------------------------------------
(* The start-up, and a new point.                                          *)

\* Both start up.
LEMMA StartFacts ==
  ASSUME LoopInv, NEW s \in Server, pc[s] = "startup"
  PROVE  /\ Starting /\ StartingUp /\ cur[0] = 0 /\ cur[1] = 0 /\ "startup" \in Exchanges
         /\ \A t \in Server : Rem(t) \in 1 .. 3 /\ Segment(t) = "startup" /\ pc[t] = "startup"
<1>1. Starting
  BY DEF LoopInv, Pair, Starting, Server
<1>2. \A t \in Server : pc[t] = "startup" /\ pc[t] \in Scripted /\ Segment(t) = "startup"
  BY <1>1 DEF Starting, Scripted, Segment, In, Server
<1>3. \A t \in Server : Rem(t) \in 1 .. 3
  BY <1>2, StartSteps DEF LoopInv, Place
<1>4. cur[0] = 0 /\ cur[1] = 0
  BY <1>2 DEF LoopInv, Place, Server
<1> QED
  BY <1>1, <1>2, <1>3, <1>4 DEF LoopInv, Pair, Exchanges

\* Nothing is due while the servers start up.
LEMMA StartCounts ==
  ASSUME LoopInv, NEW s \in Server, pc[s] = "startup", pc' = pc, cur' = cur,
         \A t \in Server : randx_uses'[t] = 0, randx_uses' \in [Server -> Nat],
         snips_seed' = snips_seed, num_inputs' = num_inputs
  PROVE  Counts'
<1>1. \A t \in Server : pc'[t] = "startup"
  BY StartFacts
<1>2. \A t \in Server : DueAt(t)' /\ ~In(t)' /\ pc'[t] # "refresh"
  BY <1>1, LoopAssumption DEF DueAt, In
<1> QED
  BY <1>2 DEF Counts, LoopInv

\* The seed is agreed.
LEMMA SeedInv ==
  ASSUME LoopInv, NEW s \in Server, NEW do, Ready(s, do, "seed"), Done(s),
         \/ do = "send" /\ Put(s, "seed", 0)
         \/ do = "recv" /\ Get(s, "seed"),
         UNCHANGED <<randomX, randx_uses, precomp, snips_seed, num_inputs>>, PointInv'
  PROVE  LoopInv'
<1>1. /\ pc[s] \in {"startup", "refresh", "work"} /\ Rem(s) \in 1 .. Steps(Segment(s))
      /\ StepAt(s, Segment(s), Rem(s)) = Item(do, "seed")
      /\ pc[s] = "work" => Segment(s) = Op(s) /\ Op(s) \in RealOps
      /\ pc[s] # "refresh"
  BY NextItem DEF LoopInv
<1>2. pc[s] = "startup"
  BY <1>1, ItemAt
<1>3. /\ Starting /\ StartingUp /\ cur[0] = 0 /\ cur[1] = 0 /\ "startup" \in Exchanges
      /\ Segment(s) = "startup" /\ Rem(s) \in 1 .. 3
  BY <1>2, StartFacts
<1>4. Rem(s) = 2
  BY <1>1, <1>3, StartItemAt
<1>5. /\ Place' /\ Line' /\ ops' = ops /\ cur' = cur /\ Moved(s) /\ Rests(1 - s)
      /\ Rem(1 - s)' = Rem(1 - s)
  BY StepFacts
<1>6. pc'[s] = pc[s] /\ Rem(s)' = Rem(s) - 1
  BY <1>4, <1>5 DEF Moved
<1>7. pc' = pc
  <2>1. \A t \in Server : pc'[t] = pc[t]
    BY <1>5, <1>6 DEF Rests, Server
  <2> QED
    BY <1>5, <2>1 DEF Place, LoopInv
<1>8. Streams'
  BY Sent, Taken DEF LoopInv
<1>9. \A t, kind : Val(t, kind)' = Val(t, kind)
  BY DEF Val
<1>10. Rem(s) \in 2 .. Steps("startup") /\ StepAt(s, "startup", Rem(s)) = Item(do, "seed")
       /\ Wire("startup") /\ cur[0] = cur[1]
  BY <1>1, <1>3, <1>4, StartSteps DEF StartingUp
<1>11. Wire("startup")'
  <2>1. CASE do = "send"
    <3>1. Tells(s, "seed") /\ 0 = Val(s, "seed")'
      BY <1>9 DEF Tells, Val
    <3> QED
      BY <1>3, <1>5, <1>6, <1>10, <2>1, <3>1, WireSends DEF LoopInv
  <2>2. CASE do = "recv"
    BY <1>3, <1>5, <1>6, <1>9, <1>10, <2>2, WireReads DEF LoopInv
  <2> QED
    BY <2>1, <2>2
<1>12. Rem(0)' = 3 \/ randomX'[0] = randomX'[1]
  <2>1. CASE s = 0
    BY <1>3, <1>4, <2>1 DEF StartingUp
  <2>2. CASE s = 1
    BY <1>3, <1>5, <2>2 DEF StartingUp
  <2> QED
    BY <2>1, <2>2 DEF Server
<1>13. Pair'
  <2>1. StartingUp'
    BY <1>3, <1>11, <1>12 DEF StartingUp
  <2>2. Starting' /\ ~Together'
    BY <1>3, <1>7 DEF Starting, Together, In
  <2> QED
    BY <2>1, <2>2 DEF Pair, Starting
<1>14. Counts'
  <2>1. \A t \in Server : randx_uses'[t] = 0
    BY <1>3 DEF StartingUp, Server
  <2> QED
    BY <1>2, <1>5, <1>7, <2>1, StartCounts DEF LoopInv, Counts
<1> QED
  BY <1>5, <1>8, <1>13, <1>14 DEF LoopInv


\* Server 1 draws a point: at the start, or once its last one is worn out.
LEMMA SendRandomXInv ==
  ASSUME LoopInv, SendRandomX
  PROVE  LoopInv'
<1>1. /\ Ready(1, "send", "randomX") /\ Done(1) /\ Put(1, "randomX", randomX'[1])
      /\ randomX' = [randomX EXCEPT ![1] = randomX[1] + 1]
      /\ randx_uses' = [randx_uses EXCEPT ![1] = 0]
      /\ UNCHANGED <<snips_seed, num_inputs>>
  BY DEF SendRandomX, Adopt
<1>2. 0 \in Server /\ 1 \in Server /\ 1 - 1 = 0
  BY DEF Server
<1>3. /\ Place' /\ Line' /\ ops' = ops /\ cur' = cur /\ Moved(1) /\ Rests(0)
      /\ Rem(0)' = Rem(0) /\ In(0)' = In(0) /\ Fin(0)' = Fin(0)
      /\ \A t : Op(t)' = Op(t) /\ Real(cur[t])' = Real(cur[t]) /\ Size(t)' = Size(t)
      /\ \A a, b : NoReal(a, b)' = NoReal(a', b')
  BY <1>1, <1>2, StepFacts
<1>4. /\ Streams' /\ Unread(1)' = Unread(1) /\ Unread(0)' = Unread(0) + 1
      /\ \A p \in 1 .. Unread(0) : to'[0][p] = to[0][p]
      /\ to'[0][Unread(0) + 1] = Message(1, "randomX", randomX'[1])
  BY <1>1, <1>2, Sent DEF LoopInv
<1>5. /\ randx_uses'[0] = randx_uses[0] /\ randx_uses'[1] = 0 /\ randomX'[0] = randomX[0]
      /\ randx_uses' \in [Server -> Nat] /\ randx_uses[0] \in Nat /\ RandomXThreshold \in Nat
      /\ randomX'[1] = randomX[1] + 1
  BY <1>1, <1>2, LoopAssumption DEF LoopInv, Counts, PointInv
<1>6. PointInv'
  BY <1>2, PointStep DEF ServerStep
<1>7. \A kind : /\ kind # "randomX" /\ kind # "cor" => Val(1, kind)' = Val(1, kind)
                /\ Val(0, kind)' = Val(0, kind)
  BY <1>1, <1>5 DEF Val
<1>8. CASE pc[1] = "startup"
  <2>1. /\ Starting /\ StartingUp /\ cur[0] = 0 /\ cur[1] = 0 /\ "startup" \in Exchanges
        /\ Segment(1) = "startup" /\ Rem(1) \in 1 .. 3 /\ Rem(0) \in 1 .. 3
    BY <1>2, <1>8, StartFacts
  <2>2. StepAt(1, "startup", Rem(1)) = Item("send", "randomX") /\ Rem(1) = 3
    BY <1>1, <1>2, <2>1, NextItem, StartItemAt DEF LoopInv
  <2>3. pc'[1] = pc[1] /\ Rem(1)' = Rem(1) - 1
    BY <1>3, <2>2 DEF Moved
  <2>4. pc' = pc
    <3>1. \A t \in Server : pc'[t] = pc[t]
      BY <1>3, <2>3 DEF Rests, Server
    <3> QED
      BY <1>3, <3>1 DEF Place, LoopInv
  <2>5. Rem(0) = 3
    <3>1. WasRead(0, "startup", Rem(0)) <= Written(1, "startup", Rem(1))
      BY <1>2, <2>1 DEF StartingUp, Wire
    <3>2. "startup" \notin SnipOps /\ "startup" \notin SketchOps
      BY DEF SnipOps, SketchOps
    <3> QED
      BY <2>1, <2>2, <3>1, <3>2, StartSteps DEF WasRead, Written, One
  <2>6. Wire("startup")'
    <3>1. \A n : Kind(0, "startup", n) = "randomX" /\ Kind(1, "startup", n) = "seed"
      BY DEF Kind
    <3>2. Unread(0) = 0
      <4>1. Unread(0) = Written(1, "startup", Rem(1)) - WasRead(0, "startup", Rem(0))
        BY <1>2, <2>1 DEF StartingUp, Wire
      <4>2. "startup" \notin SnipOps /\ "startup" \notin SketchOps
        BY DEF SnipOps, SketchOps
      <4> QED
        BY <2>2, <2>5, <4>1, <4>2, StartSteps DEF WasRead, Written, One
    <3>3. /\ WasRead(0, "startup", Rem(0))' = WasRead(0, "startup", Rem(0))
          /\ Written(0, "startup", Rem(0))' = Written(0, "startup", Rem(0))
          /\ WasRead(1, "startup", Rem(1))' = WasRead(1, "startup", Rem(1))
          /\ Written(1, "startup", Rem(1))' = Written(1, "startup", Rem(1)) + 1
      BY <1>2, <1>3, <2>1, <2>2, <2>3, SendTable, StartSteps
    <3>4. to'[0][1] = [kind |-> "randomX", client |-> cur[1], val |-> randomX'[1]]
      BY <1>4, <3>2 DEF Message
    <3>5. ASSUME NEW p \in 1 .. Unread(0)'
          PROVE  Carries(to[0][p], 0, Kind(0, "startup", WasRead(0, "startup", Rem(0)) + p), cur[0])'
      BY <1>3, <1>4, <2>1, <3>1, <3>2, <3>4 DEF Carries, Val
    <3>6. ASSUME NEW p \in 1 .. Unread(1)'
          PROVE  Carries(to[1][p], 1, Kind(1, "startup", WasRead(1, "startup", Rem(1)) + p), cur[1])'
      <4>1. Carries(to[1][p], 1, Kind(1, "startup", WasRead(1, "startup", Rem(1)) + p), cur[1])
        BY <1>2, <1>4, <2>1 DEF StartingUp, Wire
      <4>2. to'[1] = to[1]
        BY <1>1, <1>2, Sent DEF LoopInv
      <4> QED
        BY <1>3, <1>7, <3>1, <4>1, <4>2 DEF Carries
    <3>7. /\ WasRead(0, "startup", Rem(0)) <= Written(1, "startup", Rem(1))
          /\ Unread(0) = Written(1, "startup", Rem(1)) - WasRead(0, "startup", Rem(0))
          /\ WasRead(1, "startup", Rem(1)) <= Written(0, "startup", Rem(0))
          /\ Unread(1) = Written(0, "startup", Rem(0)) - WasRead(1, "startup", Rem(1))
      BY <1>2, <2>1 DEF StartingUp, Wire
    <3>8. /\ WasRead(0, "startup", Rem(0))' <= Written(1, "startup", Rem(1))'
          /\ Unread(0)' = Written(1, "startup", Rem(1))' - WasRead(0, "startup", Rem(0))'
          /\ WasRead(1, "startup", Rem(1))' <= Written(0, "startup", Rem(0))'
          /\ Unread(1)' = Written(0, "startup", Rem(0))' - WasRead(1, "startup", Rem(1))'
      BY <1>4, <3>3, <3>7, TableTypes
    <3> QED
      BY <1>2, <3>5, <3>6, <3>8 DEF Wire, Server
  <2>7. Pair'
    <3>1. StartingUp'
      BY <1>1, <1>3, <1>5, <2>1, <2>5, <2>6 DEF StartingUp
    <3>2. Starting' /\ ~Together'
      BY <2>1, <2>4 DEF Starting, Together, In
    <3> QED
      BY <3>1, <3>2 DEF Pair, Starting
  <2>8. Counts'
    <3>1. \A t \in Server : randx_uses'[t] = 0
      BY <1>5, <2>1 DEF StartingUp, Server
    <3> QED
      BY <1>1, <1>2, <1>3, <1>5, <1>8, <2>4, <3>1, StartCounts
  <2> QED
    BY <1>3, <1>4, <1>6, <2>7, <2>8 DEF LoopInv
<1>9. CASE pc[1] = "refresh"
  <2>1. Rem(1) = 1 /\ randx_uses[1] > RandomXThreshold /\ Real(cur[1])
    BY <1>1, <1>2, <1>9, NextItem DEF LoopInv, Counts, DueAt
  <2>2. pc'[1] = "accept" /\ ~In(1) /\ ~In(1)' /\ Fin(1) = cur[1] /\ Fin(1)' = cur[1]
    BY <1>3, <1>9, <2>1 DEF Moved, Beyond, In, Fin
  <2>3. ~Starting /\ ~Starting' /\ ~Together /\ ~Together' /\ (pc[0] = "startup" <=> pc[1] = "startup")'
    BY <1>2, <1>3, <1>9, <2>2 DEF Starting, Together, LoopInv, Pair, Rests
  <2>4. Apart
    BY <2>3 DEF LoopInv, Pair
  <2>5. ~Owed /\ ~Keyed /\ ~Keyed' /\ randx_uses[0] = randx_uses[1] /\ randomX[0] = randomX[1]
    <3>1. randx_uses[1] \in Nat
      BY <1>2 DEF LoopInv, Counts
    <3> QED
      BY <1>5, <2>1, <2>2, <2>4, <3>1 DEF Owed, Keyed, Apart
  <2>6. Lagging' = Lagging /\ Owed' /\ Ended' = Ended
    BY <1>3, <1>5, <2>1, <2>2, <2>5 DEF Lagging, Owed, Ended
  <2>7. Real(cur[0]) /\ (pc[0] \in {"close", "top", "refresh"} \/ (pc[0] = "work" /\ Checked(0)))
    BY <1>2, <2>1, <2>5 DEF LoopInv, Counts, DueAt
  <2>8. Lagging \/ pc[0] \in {"close", "top", "refresh"}
    <3>1. ASSUME pc[0] = "work", Checked(0) PROVE Lagging
      <4>1. Op(0) \in RealOps /\ Steps(Op(0)) = 8 /\ In(0) /\ Rem(0) # 8
        <5>1. Op(0) \in SnipOps /\ Rem(0) < 6
          BY <3>1 DEF Checked
        <5>2. Op(0) \in RealOps
          BY <5>1 DEF RealOps
        <5> QED
          BY <3>1, <5>1, <5>2, Families DEF In
      <4> QED
        BY <2>4, <4>1 DEF Apart
    <3> QED
      BY <2>7, <3>1
  <2>9. cur[0] = cur[1]
    <3>1. PICK a \in Nat, b \in Nat : a = cur[0] /\ b = cur[1]
      BY <1>2 DEF LoopInv, Place
    <3>2. CASE Lagging
      BY <2>1, <2>2, <2>4, <3>1, <3>2 DEF Apart, NoReal, Real, Lagging, Ended
    <3>3. CASE ~Lagging /\ pc[0] \in {"close", "top", "refresh"}
      <4>1. Fin(0) = a /\ Ended = a
        BY <3>1, <3>3 DEF Fin, Ended
      <4> QED
        BY <2>1, <2>2, <2>4, <2>7, <3>1, <4>1 DEF Apart, NoReal, Real
    <3> QED
      BY <2>8, <3>2, <3>3
  <2>10. Trail'
    <3>1. Unread(0) = One(Lagging) /\ Unread(1) = 0
      BY <2>4, <2>5 DEF Apart, Trail, One
    <3>2. Lagging => Carries(to[0][1], 0, "sum", cur[0])'
      <4>1. Lagging => Carries(to[0][1], 0, "sum", cur[0]) /\ to'[0][1] = to[0][1]
        BY <1>4, <2>4, <3>1 DEF Apart, Trail, One
      <4> QED
        BY <1>3, <1>7, <4>1 DEF Carries
    <3>3. Carries(to[0][One(Lagging) + 1], 0, "randomX", cur[0])'
      BY <1>3, <1>4, <2>6, <2>9, <3>1 DEF Carries, Message, Val
    <3> QED
      BY <1>4, <2>5, <2>6, <3>1, <3>2, <3>3 DEF Trail, One
  <2>11. Apart'
    BY <1>1, <1>3, <2>2, <2>4, <2>6, <2>8, <2>10 DEF Apart, Rests
  <2>12. Pair'
    BY <2>3, <2>11 DEF Pair
  <2>13. ASSUME NEW t \in Server
         PROVE (DueAt(t) /\ (pc[t] = "refresh" => randx_uses[t] > RandomXThreshold)
                /\ (In(t) /\ Checked(t) => Size(t) \in DOMAIN precomp[t]))'
    <3>1. CASE t = 1
      BY <1>5, <2>2, <3>1 DEF DueAt
    <3>2. CASE t = 0
      <4>1. precomp'[0] = precomp[0]
        BY <1>2 DEF SendRandomX, Adopt, LoopInv, PointInv
      <4> QED
        BY <1>2, <1>3, <1>5, <3>2, <4>1 DEF LoopInv, Counts, DueAt, Rests, Checked
    <3> QED
      BY <3>1, <3>2 DEF Server
  <2>14. Counts'
    BY <1>1, <1>5, <2>13 DEF LoopInv, Counts
  <2> QED
    BY <1>3, <1>4, <1>6, <2>12, <2>14 DEF LoopInv
<1>10. pc[1] # "work"
  BY <1>1, <1>2, NextItem, ItemAt DEF LoopInv
<1> QED
  BY <1>1, <1>2, <1>8, <1>9, <1>10, NextItem DEF LoopInv


\* Server 0 takes it, before it serves anyone else.
LEMMA RecvRandomXInv ==
  ASSUME LoopInv, RecvRandomX
  PROVE  LoopInv'
<1>1. /\ Ready(0, "recv", "randomX") /\ Done(0) /\ Get(0, "randomX")
      /\ randomX' = [randomX EXCEPT ![0] = Head(to[0]).val]
      /\ randx_uses' = [randx_uses EXCEPT ![0] = 0]
      /\ UNCHANGED <<snips_seed, num_inputs>>
  BY DEF RecvRandomX, Adopt
<1>2. 0 \in Server /\ 1 \in Server /\ 1 - 0 = 1
  BY DEF Server
<1>3. /\ Place' /\ Line' /\ ops' = ops /\ cur' = cur /\ Moved(0) /\ Rests(1)
      /\ Rem(1)' = Rem(1) /\ In(1)' = In(1) /\ Fin(1)' = Fin(1)
      /\ \A t : Op(t)' = Op(t) /\ Real(cur[t])' = Real(cur[t]) /\ Size(t)' = Size(t)
      /\ \A a, b : NoReal(a, b)' = NoReal(a', b')
  BY <1>1, <1>2, StepFacts
<1>4. /\ Streams' /\ Unread(1)' = Unread(1) /\ to'[1] = to[1]
      /\ Unread(0) \in Nat /\ Unread(0) > 0 /\ Unread(0)' = Unread(0) - 1
      /\ Head(to[0]) = to[0][1] /\ to[0][1].kind = "randomX"
      /\ \A p \in 1 .. Unread(0) - 1 : to'[0][p] = to[0][p + 1]
  BY <1>1, <1>2, Taken DEF LoopInv, Streams
<1>5. /\ randx_uses'[1] = randx_uses[1] /\ randx_uses'[0] = 0 /\ randomX'[1] = randomX[1]
      /\ randomX'[0] = to[0][1].val /\ RandomXThreshold \in Nat
      /\ randx_uses' \in [Server -> Nat] /\ randx_uses[0] \in Nat
  BY <1>1, <1>2, <1>4, LoopAssumption DEF LoopInv, Counts, PointInv
<1>6. PointInv'
  BY <1>2, PointStep DEF ServerStep
<1>7. \A kind : /\ kind # "randomX" /\ kind # "cor" => Val(0, kind)' = Val(0, kind)
                /\ Val(1, kind)' = Val(1, kind)
  BY <1>1, <1>5 DEF Val
<1>8. CASE pc[0] = "startup"
  <2>1. /\ Starting /\ StartingUp /\ cur[0] = 0 /\ cur[1] = 0 /\ "startup" \in Exchanges
        /\ Segment(0) = "startup" /\ Rem(1) \in 1 .. 3 /\ Rem(0) \in 1 .. 3
    BY <1>2, <1>8, StartFacts
  <2>2. StepAt(0, "startup", Rem(0)) = Item("recv", "randomX") /\ Rem(0) = 3
    BY <1>1, <1>2, <2>1, NextItem, StartItemAt DEF LoopInv
  <2>3. pc'[0] = pc[0] /\ Rem(0)' = Rem(0) - 1
    BY <1>3, <2>2 DEF Moved
  <2>4. pc' = pc
    <3>1. \A t \in Server : pc'[t] = pc[t]
      BY <1>3, <2>3 DEF Rests, Server
    <3> QED
      BY <1>3, <3>1 DEF Place, LoopInv
  <2>5. Wire("startup")'
    <3>1. \A n : Kind(0, "startup", n) = "randomX" /\ Kind(1, "startup", n) = "seed"
      BY DEF Kind
    <3>2. \A n : Val(1 - 0, Kind(0, "startup", n))' = Val(1 - 0, Kind(0, "startup", n))
      BY <1>2, <1>7
    <3>3. \A n : Val(1 - 1, Kind(1, "startup", n))' = Val(1 - 1, Kind(1, "startup", n))
      BY <1>7, <3>1
    <3>4. \A t \in Server : \A n :
             Val(1 - t, Kind(t, "startup", n))' = Val(1 - t, Kind(t, "startup", n))
      BY <3>2, <3>3 DEF Server
    <3>5. Wire("startup") /\ Rem(0) \in 2 .. Steps("startup")
      BY <2>1, <2>2, StartSteps DEF StartingUp
    <3> QED
      BY <1>1, <1>2, <1>3, <2>1, <2>2, <2>3, <3>4, <3>5, WireReads DEF LoopInv
  <2>6. randomX'[0] = randomX'[1]
    <3>1. Carries(to[0][1], 0, Kind(0, "startup", WasRead(0, "startup", Rem(0)) + 1), cur[0])
      BY <1>2, <1>4, <2>1, WireFirst DEF StartingUp
    <3>2. Kind(0, "startup", WasRead(0, "startup", Rem(0)) + 1) = "randomX"
      BY DEF Kind
    <3> QED
      BY <1>2, <1>5, <3>1, <3>2 DEF Carries, Val
  <2>7. Pair'
    <3>1. StartingUp'
      BY <1>1, <1>5, <2>1, <2>5, <2>6 DEF StartingUp
    <3>2. Starting' /\ ~Together'
      BY <2>1, <2>4 DEF Starting, Together, In
    <3> QED
      BY <3>1, <3>2 DEF Pair, Starting
  <2>8. Counts'
    <3>1. \A t \in Server : randx_uses'[t] = 0
      BY <1>5, <2>1 DEF StartingUp, Server
    <3> QED
      BY <1>1, <1>2, <1>3, <1>5, <1>8, <2>4, <3>1, StartCounts
  <2> QED
    BY <1>3, <1>4, <1>6, <2>7, <2>8 DEF LoopInv
<1>9. CASE pc[0] = "refresh"
  <2>1. Rem(0) = 1
    BY <1>1, <1>2, <1>9, NextItem DEF LoopInv
  <2>2. pc'[0] = "accept" /\ ~In(0) /\ ~In(0)' /\ Fin(0) = cur[0] /\ Fin(0)' = cur[0]
    BY <1>3, <1>9, <2>1 DEF Moved, Beyond, In, Fin
  <2>3. ~Starting /\ ~Starting' /\ ~Together /\ ~Together' /\ (pc[0] = "startup" <=> pc[1] = "startup")'
    BY <1>2, <1>3, <1>9, <2>2 DEF Starting, Together, LoopInv, Pair, Rests
  <2>4. Apart
    BY <2>3 DEF LoopInv, Pair
  <2>5. ~Lagging /\ ~Lagging' /\ Keyed' = Keyed
    BY <1>3, <2>2 DEF Lagging, Keyed
  <2>6. Owed
    <3>1. ~Owed => Keyed /\ to[0][1].kind = "keys"
      BY <1>4, <2>4, <2>5 DEF Apart, Trail, One, Carries
    <3> QED
      BY <1>4, <3>1
  <2>7. Unread(0) = 1 + One(Keyed) /\ Unread(1) = 0 /\ to[0][1].val = randomX[1] /\ randx_uses[1] = 0
    BY <1>2, <2>4, <2>5, <2>6 DEF Apart, Trail, One, Carries, Val, Owed
  <2>8. ~Owed' /\ Ended' = Ended
    BY <1>3, <1>5, <2>2, <2>5 DEF Owed, Ended
  <2>9. Trail'
    <3>1. Unread(1)' = 0 /\ Unread(0)' = One(Keyed)
      BY <1>4, <2>7 DEF One
    <3>2. Keyed => Carries(to[0][1], 0, "keys", cur[1])'
      <4>1. Keyed => Carries(to[0][2], 0, "keys", cur[1])
        BY <2>4, <2>5, <2>6 DEF Apart, Trail, One
      <4>2. Keyed => to'[0][1] = to[0][2]
        BY <1>4, <2>7 DEF One
      <4> QED
        BY <1>3, <1>7, <4>1, <4>2 DEF Carries
    <3> QED
      BY <2>5, <2>8, <3>1, <3>2 DEF Trail, One
  <2>10. Apart'
    BY <1>1, <1>3, <1>5, <2>2, <2>4, <2>5, <2>7, <2>8, <2>9 DEF Apart
  <2>11. Pair'
    BY <2>3, <2>10 DEF Pair
  <2>12. ASSUME NEW t \in Server
         PROVE (DueAt(t) /\ (pc[t] = "refresh" => randx_uses[t] > RandomXThreshold)
                /\ (In(t) /\ Checked(t) => Size(t) \in DOMAIN precomp[t]))'
    <3>1. CASE t = 0
      BY <1>5, <2>2, <3>1 DEF DueAt
    <3>2. CASE t = 1
      <4>1. precomp'[1] = precomp[1]
        BY <1>2 DEF RecvRandomX, Adopt, LoopInv, PointInv
      <4> QED
        BY <1>2, <1>3, <1>5, <3>2, <4>1 DEF LoopInv, Counts, DueAt, Rests, Checked
    <3> QED
      BY <3>1, <3>2 DEF Server
  <2>13. Counts'
    BY <1>1, <1>5, <2>12 DEF LoopInv, Counts
  <2> QED
    BY <1>3, <1>4, <1>6, <2>11, <2>13 DEF LoopInv
<1>10. pc[0] # "work"
  BY <1>1, <1>2, NextItem, ItemAt DEF LoopInv
<1> QED
  BY <1>1, <1>2, <1>8, <1>9, <1>10, NextItem DEF LoopInv

-----------------------------------------------------------------------------
(* A Meet.                                                                 *)

\* Both are at one, in the start-up or in the operation of the same client.
LEMMA MeetOtherInv ==
  ASSUME LoopInv, MeetOther
  PROVE  LoopInv'
<1>1. /\ \A s \in Server : Ready(s, "meet", "both")
      /\ script' = [s \in Server |-> Tail(script[s])] /\ pc' = [s \in Server |-> AfterScript(s)]
      /\ Still /\ UNCHANGED <<conn, backlog, cur>> /\ 0 \in Server /\ 1 \in Server
  BY DEF MeetOther, Still, Server
<1>2. \A s \in Server : Moves(s)
  BY <1>1 DEF Moves
<1>3. /\ Place' /\ Line' /\ ops' = ops /\ cur' = cur
      /\ \A s \in Server : Moved(s)
  <2>1. pc' = [s \in Server |-> pc'[s]] /\ script' = [s \in Server |-> script'[s]]
    BY <1>1
  <2>2. Place'
    BY <1>1, <1>2, <2>1, PlaceMoves DEF LoopInv, Still
  <2>3. Line'
    BY <1>1, SameLine DEF LoopInv, Still
  <2> QED
    BY <1>1, <1>2, <2>2, <2>3, MovesOn DEF LoopInv, Still
<1>4. \A t : Op(t)' = Op(t) /\ Real(cur[t])' = Real(cur[t]) /\ Size(t)' = Size(t)
  BY <1>1 DEF Op, Real, Size, Still
<1>5. ASSUME NEW s \in Server
      PROVE  /\ StepAt(s, Segment(s), Rem(s)) = Meet /\ Rem(s) \in 1 .. Steps(Segment(s))
             /\ pc[s] = "startup" \/ (pc[s] = "work" /\ Segment(s) = Op(s) /\ Op(s) \in RealOps)
  BY <1>1, NextItem DEF LoopInv, Meet
<1>6. ASSUME pc[0] = "startup" PROVE Pair' /\ Counts'
  <2>1. /\ Starting /\ StartingUp /\ cur[0] = 0 /\ cur[1] = 0
        /\ \A t \in Server : Segment(t) = "startup" /\ Rem(t) \in 1 .. 3 /\ pc[t] = "startup"
    BY <1>1, <1>6, StartFacts
  <2>2. ASSUME NEW t \in Server PROVE Rem(t) = 1
    <3>1. StepAt(t, "startup", Rem(t)) = Item("meet", "both") /\ Rem(t) \in 1 .. 3
      BY <1>5, <2>1 DEF Meet
    <3> QED
      BY <3>1, StartItemAt
  <2>3. \A t \in Server : pc'[t] = "top" /\ ~In(t)' /\ Fin(t)' = 0
    <3>1. \A t \in Server : pc'[t] = "top"
      BY <1>3, <2>1, <2>2 DEF Moved, Beyond
    <3> QED
      BY <1>3, <2>1, <3>1 DEF In, Fin, Server
  <2>4. Unread(0) = 0 /\ Unread(1) = 0
    <3>1. "startup" \notin SnipOps /\ "startup" \notin SketchOps
      BY DEF SnipOps, SketchOps
    <3>2. /\ WasRead(0, "startup", 1) = 1 /\ Written(1, "startup", 1) = 1
          /\ WasRead(1, "startup", 1) = 1 /\ Written(0, "startup", 1) = 1
      BY <3>1, StartSteps DEF WasRead, Written, One
    <3>3. /\ Unread(0) = Written(1, "startup", Rem(1)) - WasRead(0, "startup", Rem(0))
          /\ Unread(1) = Written(0, "startup", Rem(0)) - WasRead(1, "startup", Rem(1))
      BY <1>1, <2>1 DEF StartingUp, Wire
    <3> QED
      BY <1>1, <2>2, <3>2, <3>3
  <2>5. ~Starting' /\ ~Together' /\ (pc[0] = "startup" <=> pc[1] = "startup")'
    BY <1>1, <2>3 DEF Starting, Together
  <2>6. /\ randx_uses'[0] = 0 /\ randx_uses'[1] = 0 /\ randomX'[0] = randomX'[1]
        /\ snips_seed'[0] = snips_seed'[1]
    BY <1>1, <2>1, <2>2 DEF StartingUp, Still
  <2>7. ~Lagging' /\ ~Owed' /\ ~Keyed' /\ Ended' = 0
    BY <1>1, <2>3, <2>6, LoopAssumption DEF Lagging, Owed, Keyed, Ended
  <2>8. Trail'
    BY <1>1, <2>4, <2>7 DEF Trail, One, Unread, Still
  <2>9. NoReal(Ended, Fin(1))' /\ NoReal(Fin(1), Fin(0))'
    <3>1. DOMAIN ops' \subseteq Nat
      BY <1>3 DEF Line
    <3> QED
      BY <1>1, <2>3, <2>7, <3>1 DEF NoReal
  <2>10. Pair'
    BY <1>1, <2>3, <2>5, <2>6, <2>7, <2>8, <2>9 DEF Pair, Apart
  <2>11. \A t \in Server : (DueAt(t) /\ pc[t] # "refresh" /\ ~In(t))'
    BY <2>3, <2>6, LoopAssumption DEF DueAt, Server
  <2> QED
    BY <1>1, <2>10, <2>11 DEF LoopInv, Counts, Still
<1>7. ASSUME pc[0] # "startup" PROVE Pair' /\ Counts'
  <2>1. \A t \in Server : pc[t] = "work" /\ Segment(t) = Op(t) /\ Op(t) \in RealOps
    <3>1. pc[1] # "startup"
      BY <1>7 DEF LoopInv, Pair
    <3> QED
      BY <1>5, <1>7, <3>1 DEF Server
  <2>2. ASSUME NEW t \in Server
        PROVE  Rem(t) = Steps(Op(t)) - 1 /\ Rem(t) > 1 /\ Op(t) \notin MaskedSumOps
               /\ Steps(Op(t)) \in 3 .. 8
    <3>1. Op(t) \in Exchanges /\ Op(t) # "startup" /\ Steps(Op(t)) \in 3 .. 8
      BY <2>1, Families DEF Exchanges
    <3> QED
      BY <1>5, <2>1, <3>1, MeetTable
  <2>3. Together
    <3>1. Rem(0) # 1 /\ Rem(0) # Steps(Op(0)) /\ pc[0] = "work"
      BY <1>1, <2>1, <2>2
    <3> QED
      BY <1>1, <3>1, MustBeTogether
  <2>4. PICK g \in RealOps : Shared(g) /\ SameExchange
    BY <2>3, TogetherFacts
  <2>5. PICK m \in 3 .. 8 : m = Steps(g)
    BY Families
  <2>6. /\ \A t \in Server : /\ Op(t) = g /\ Op(t)' = g /\ Rem(t) = m - 1 /\ Rem(t)' = m - 2
                             /\ pc'[t] = "work" /\ In(t)'
        /\ m # 3 \/ g = "BIT_SUM"
    <3>1. \A t \in Server : Op(t) = g /\ Op(t)' = g /\ Rem(t) = m - 1 /\ g \notin MaskedSumOps
      BY <1>4, <2>2, <2>4, <2>5 DEF Shared, Server
    <3>2. \A t \in Server : pc'[t] = "work" /\ Rem(t)' = m - 2
      BY <1>3, <2>1, <2>2, <2>5, <3>1 DEF Moved
    <3>3. m # 3 \/ g = "BIT_SUM"
      BY <1>1, <2>5, <3>1, Families DEF RealOps
    <3> QED
      BY <3>1, <3>2, <3>3 DEF In
  <2>7. Together' /\ ~Starting' /\ (pc[0] = "startup" <=> pc[1] = "startup")'
    BY <1>1, <1>3, <2>4, <2>6 DEF Together, Starting, Shared
  <2>8. Wire(g)'
    <3>1. \A t \in Server : /\ Rem(t) \in 1 .. Steps(g) /\ StepAt(t, g, Rem(t)) = Meet
                            /\ Rem(t)' = Rem(t) - 1
      BY <1>5, <2>1, <2>5, <2>6
    <3>2. Wire(g)
      BY <2>4 DEF SameExchange, Shared
    <3> QED
      BY <1>1, <3>1, <3>2, WireMeets DEF Still
  <2>9. Met(g)'
    BY <1>1, <2>5, <2>6 DEF Met
  <2>10. \A t \in Server : /\ Checked(t)' <=> Checked(t)
                           /\ Drawn(t)' <=> Drawn(t)
    <3>1. g \in SnipOps => m = 8
      BY <2>5, Families
    <3>2. \A t \in Server : (Checked(t) <=> g \in SnipOps /\ m - 1 < 6)
                            /\ (Checked(t)' <=> g \in SnipOps /\ m - 2 < 6)
      BY <2>6 DEF Checked
    <3>3. \A t \in Server : (Drawn(t) <=> g \in SnipOps /\ m - 1 < 4)
                            /\ (Drawn(t)' <=> g \in SnipOps /\ m - 2 < 4)
      BY <2>6 DEF Drawn
    <3> QED
      BY <3>1, <3>2, <3>3
  <2>11. SameUses' /\ SameSeed'
    <3>1. Draws(1)' = Draws(1) /\ \A t \in Server : 1 - t \in Server
      BY <1>1 DEF Draws, Server, Still
    <3> QED
      BY <1>1, <2>4, <2>10, <3>1 DEF SameExchange, SameUses, SameSeed, Still
  <2>12. num_inputs[0] = num_inputs[1]
    BY <1>1, <2>4, <2>5, <2>6 DEF SameExchange
  <2>13. Op(0)' = g /\ randomX'[0] = randomX'[1] /\ num_inputs'[0] = num_inputs'[1]
    BY <1>1, <2>4, <2>6, <2>12 DEF SameExchange, Still
  <2>14. Pair'
    BY <2>7, <2>8, <2>9, <2>11, <2>13 DEF Pair, SameExchange
  <2>15. \A t \in Server : (DueAt(t) /\ (pc[t] = "refresh" => randx_uses[t] > RandomXThreshold)
                            /\ (In(t) /\ Checked(t) => Size(t) \in DOMAIN precomp[t]))'
    BY <1>1, <1>4, <2>1, <2>4, <2>6, <2>10 DEF LoopInv, Counts, DueAt, Still, Shared
  <2> QED
    BY <1>1, <2>14, <2>15 DEF LoopInv, Counts, Still
<1>8. Streams'
  BY <1>1 DEF LoopInv, Streams, Unread, Still
<1>9. PointInv'
  BY NextPoint DEF LoopInv, Next
<1> QED
  BY <1>3, <1>6, <1>7, <1>8, <1>9 DEF LoopInv

\* The messages without a count in them.
LEMMA SendPlainInv ==
  ASSUME LoopInv, NEW s \in Server, SendPlain(s)
  PROVE  LoopInv'
<1>1. PICK what \in Plain : Ready(s, "send", what) /\ Put(s, what, 0)
  BY DEF SendPlain
<1>2. Done(s) /\ UNCHANGED <<randomX, randx_uses, precomp, snips_seed, num_inputs>> /\ PointInv'
  BY PointStep DEF SendPlain, ServerStep
<1>3. CASE what = "seed"
  BY <1>1, <1>2, <1>3, SeedInv
<1>4. CASE what = "sum"
  <2>1. pc[s] = "work"
    BY <1>1, <1>4, AtWork
  <2>2. s = 1
    <3>1. StepAt(s, Op(s), Rem(s)) = Item("send", "sum") /\ Op(s) \in RealOps
          /\ Rem(s) \in 1 .. Steps(Op(s))
      BY <1>1, <1>4, <2>1, NextItem DEF LoopInv
    <3> QED
      BY <3>1, ItemAt
  <2> QED
    BY <1>1, <1>2, <1>4, <2>2, SendSumInv
<1>5. CASE what \in {"valid", "checks", "all_valid"}
  BY <1>1, <1>2, <1>5, MiddleInv
<1> QED
  BY <1>3, <1>4, <1>5 DEF Plain

\* And the reads that keep nothing of what they read.
LEMMA RecvPlainInv ==
  ASSUME LoopInv, NEW s \in Server, RecvPlain(s)
  PROVE  LoopInv'
<1>1. PICK what \in Plain \cup {"cor", "out"} : Ready(s, "recv", what) /\ Get(s, what)
  BY DEF RecvPlain
<1>2. Done(s) /\ UNCHANGED <<randomX, randx_uses, precomp, snips_seed, num_inputs>> /\ PointInv'
  BY PointStep DEF RecvPlain, ServerStep
<1>3. CASE what = "seed"
  BY <1>1, <1>2, <1>3, SeedInv
<1>4. CASE what = "sum"
  <2>1. pc[s] = "work"
    BY <1>1, <1>4, AtWork
  <2>2. s = 0
    <3>1. StepAt(s, Op(s), Rem(s)) = Item("recv", "sum") /\ Op(s) \in RealOps
          /\ Rem(s) \in 1 .. Steps(Op(s))
      BY <1>1, <1>4, <2>1, NextItem DEF LoopInv
    <3> QED
      BY <3>1, ItemAt DEF Server
  <2> QED
    BY <1>1, <1>2, <1>4, <2>2, RecvSumInv
<1>5. CASE what \in {"valid", "checks", "all_valid", "cor", "out"}
  BY <1>1, <1>2, <1>5, MiddleInv
<1> QED
  BY <1>3, <1>4, <1>5 DEF Plain

-----------------------------------------------------------------------------
(* The invariant, and what follows.                                        *)

\* Both servers start up, with no client yet.
LEMMA InitLoop == Init => LoopInv
<1> SUFFICES ASSUME Init PROVE LoopInv
  OBVIOUS
<1>1. /\ ops \in Seq(STRING) /\ conn = [c \in DOMAIN ops |-> "started"]
      /\ \A s \in Server : /\ backlog[s] = <<>> /\ to[s] = <<>> /\ pc[s] = "startup" /\ cur[s] = 0
                           /\ script[s] = Startup(s) /\ randomX[s] = 0 /\ randx_uses[s] = 0
                           /\ snips_seed[s] = 0 /\ num_inputs[s] = 0
      /\ 0 \in Server /\ 1 \in Server /\ "startup" \notin SnipOps /\ "startup" \notin SketchOps
  BY LoopAssumption DEF Init, SnipOps, SketchOps, Server
<1>2. ASSUME NEW s \in Server
      PROVE  Rem(s) = 3 /\ Segment(s) = "startup" /\ script[s] = Script(s, "startup", 3) /\ ~In(s)
  <2>1. script[s] = Script(s, "startup", 3)
    BY <1>1, Scripts
  <2>2. Len(Script(s, "startup", 3)) = 3
    BY 3 \in Nat \ {0}, ScriptFront
  <2> QED
    BY <1>1, <2>1, <2>2 DEF Rem, Segment, In
<1>3. Place
  BY <1>1, <1>2, StartSteps DEF Init, Place, Scripted
<1>4. Line
  <2>1. \A s \in Server : Waiting(s) = 0
    BY <1>1 DEF Waiting
  <2>2. \A s \in Server : backlog[s] = [p \in 1 .. 0 |-> cur[s] + p]
    BY <1>1
  <2>3. Clients \in Nat /\ DOMAIN ops = 1 .. Clients
    BY <1>1 DEF Clients
  <2>4. ASSUME NEW s \in Server, NEW c \in DOMAIN ops
        PROVE  ~(c <= cur[s] + Waiting(s)) /\ conn[c] \notin Joined(s)
    BY <1>1, <2>1, <2>3 DEF Joined
  <2>5. conn \in [DOMAIN ops -> {"started"} \cup Joined(0)] /\ backlog = [s \in Server |-> backlog[s]]
    BY <1>1 DEF Init
  <2>6. ASSUME NEW s \in Server
        PROVE  /\ Waiting(s) \in Nat
               /\ backlog[s] = [p \in 1 .. Waiting(s) |-> cur[s] + p]
               /\ cur[s] + Waiting(s) <= Clients
    BY <1>1, <2>1, <2>2, <2>3
  <2> QED
    BY <1>1, <2>4, <2>5, <2>6 DEF Line
<1>5. \A s \in Server : Unread(s) = 0
  BY <1>1 DEF Unread
<1>6. Streams
  <2>1. \A s \in Server : to[s] = [p \in 1 .. 0 |-> to[s][p]]
    BY <1>1
  <2> QED
    BY <1>5, <2>1 DEF Init, Streams
<1>7. Pair
  <2>1. \A s \in Server : WasRead(s, "startup", 3) = 0 /\ Written(s, "startup", 3) = 0
    BY <1>1, StartSteps DEF WasRead, Written, One
  <2>2. \A s \in Server : 1 - s \in Server
    BY DEF Server
  <2>3. Wire("startup")
    BY <1>2, <1>5, <2>1, <2>2 DEF Wire
  <2> QED
    BY <1>1, <1>2, <2>3 DEF Pair, Starting, Together, StartingUp
<1>8. Counts
  <2>1. \A s \in Server : DueAt(s)
    BY <1>1, LoopAssumption DEF DueAt
  <2> QED
    BY <1>1, <1>2, <2>1 DEF Counts, Init
<1> QED
  BY <1>3, <1>4, <1>6, <1>7, <1>8, InitPoint DEF LoopInv

\* Every step keeps it.
LEMMA NextLoop == LoopInv /\ [Next]_vars => LoopInv'
<1> SUFFICES ASSUME LoopInv, [Next]_vars PROVE LoopInv'
  OBVIOUS
<1>1. CASE UNCHANGED vars
  <2>1. Still /\ UNCHANGED <<conn, backlog, pc, cur, script>>
    BY <1>1 DEF vars, Still
  <2>2. /\ \A s : Rem(s)' = Rem(s) /\ In(s)' = In(s) /\ Op(s)' = Op(s) /\ Segment(s)' = Segment(s)
        /\ \A s : Fin(s)' = Fin(s) /\ Unread(s)' = Unread(s) /\ Size(s)' = Size(s)
        /\ \A k : Real(k)' = Real(k)
        /\ \A s, kind : Val(s, kind)' = Val(s, kind)
    BY <2>1 DEF Rem, In, Op, Segment, Fin, Real, Unread, Size, Val, Still
  <2>3. Place' /\ Line'
    BY <2>1, <2>2, SameLine DEF LoopInv, Place, Still
  <2>4. Starting' = Starting /\ Together' = Together /\ Lagging' = Lagging /\ Owed' = Owed
        /\ Keyed' = Keyed
    BY <2>1, <2>2 DEF Starting, Together, Lagging, Owed, Keyed, Still
  <2>5. StartingUp' = StartingUp /\ SameExchange' = SameExchange
    <3>1. \A g : Wire(g)' = Wire(g') /\ Met(g)' = Met(g')
      BY <2>1, <2>2 DEF Wire, Met, Carries, Still
    <3>2. SameUses' = SameUses /\ SameSeed' = SameSeed
      BY <2>1, <2>2 DEF SameUses, SameSeed, Checked, Drawn, Draws, Still
    <3> QED
      BY <2>1, <2>2, <3>1, <3>2 DEF StartingUp, SameExchange, Still
  <2>6. Apart' = Apart
    <3>1. Ended' = Ended /\ \A a, b : NoReal(a, b)' = NoReal(a', b')
      BY <2>1, <2>2, <2>4 DEF Ended, NoReal, Still
    <3>2. Trail' = Trail
      BY <2>1, <2>2, <2>4 DEF Trail, Carries, Still
    <3> QED
      BY <2>1, <2>2, <2>4, <3>1, <3>2 DEF Apart, NoReal, Still
  <2>7. Pair'
    BY <2>1, <2>4, <2>5, <2>6 DEF LoopInv, Pair
  <2>8. \A s \in Server : (DueAt(s) /\ (pc[s] = "refresh" => randx_uses[s] > RandomXThreshold)
                              /\ (In(s) /\ Checked(s) => Size(s) \in DOMAIN precomp[s]))'
    BY <2>1, <2>2 DEF LoopInv, Counts, DueAt, Checked, Still
  <2> QED
    BY <2>1, <2>3, <2>7, <2>8, StillInv
<1>2. CASE MeetOther
  BY <1>2, MeetOtherInv
<1>3. ASSUME NEW c \in DOMAIN ops, ClientStep(c) PROVE LoopInv'
  BY <1>3, ClientStepInv
<1>4. ASSUME NEW s \in Server, ServerStep(s) PROVE LoopInv'
  <2>1. CASE Refresh(s)
    BY <2>1, RefreshInv
  <2>2. CASE Accept(s)
    BY <2>2, AcceptInv
  <2>3. CASE RecvInit(s)
    BY <2>3, RecvInitInv
  <2>4. CASE RecvShares(s)
    BY <2>4, RecvSharesInv
  <2>5. CASE Close(s)
    BY <2>5, CloseInv
  <2>6. CASE SendCor(s)
    BY <2>6, SendCorInv
  <2>7. CASE SendOut(s)
    BY <2>7, SendOutInv
  <2>8. CASE SendPlain(s)
    BY <2>8, SendPlainInv
  <2>9. CASE RecvPlain(s)
    BY <2>9, RecvPlainInv
  <2>10. CASE RecvRandomX
    BY <2>10, RecvRandomXInv
  <2>11. CASE RecvKeys
    BY <2>11, RecvKeysInv
  <2>12. CASE SendRandomX
    BY <2>12, SendRandomXInv
  <2>13. CASE SendKeys
    BY <2>13, SendKeysInv
  <2> QED
    BY <1>4, <2>1, <2>2, <2>3, <2>4, <2>5, <2>6, <2>7, <2>8, <2>9, <2>10, <2>11, <2>12, <2>13
    DEF ServerStep
<1> QED
  BY <1>1, <1>2, <1>3, <1>4 DEF Next

\* Server 1 has not sent its sum as long as it is in the operation.
LEMMA SumComesAlone ==
  ASSUME LoopInv, Together, NEW g \in RealOps, Shared(g), Rem(0) = 1
  PROVE  Unread(0) = 0
<1>1. SameExchange /\ Steps(g) \in 3 .. 8 /\ 0 \in Server /\ 1 \in Server /\ 1 - 0 = 1
  BY TogetherFacts, Families DEF Server
<1>2. PICK r \in 1 .. 8 : r = Rem(1) /\ r <= Steps(g)
  BY <1>1 DEF Shared
<1>3. WasRead(0, g, 1) <= Written(1, g, r) /\ Unread(0) = Written(1, g, r) - WasRead(0, g, 1)
  BY <1>1, <1>2 DEF SameExchange, Wire, Shared
<1>4. g \in SnipOps => Steps(g) = 8
  BY Families
<1> QED
  BY <1>1, <1>2, <1>3, <1>4 DEF Written, WasRead, One

\* In every one of its cases the next message is the one asked for.
LEMMA LoopInStep == LoopInv => InStep
<1> SUFFICES ASSUME LoopInv, NEW s \in Server, script[s] # <<>>, Head(script[s]).do = "recv",
                    to[s] # <<>>
             PROVE  Head(to[s]).kind = Head(script[s]).what /\ Head(to[s]).client = cur[s]
  BY DEF InStep
<1>1. pc[s] \in Scripted /\ Rem(s) \in 1 .. Steps(Segment(s)) /\ script[s] = Script(s, Segment(s), Rem(s))
  BY DEF LoopInv, Place
<1>2. /\ pc[s] = "startup" => Segment(s) = "startup"
      /\ pc[s] = "refresh" => Segment(s) = "refresh"
      /\ In(s) => Segment(s) = Op(s) /\ Op(s) \in RealOps
      /\ pc[s] \in {"startup", "refresh"} \/ In(s)
  BY <1>1 DEF Segment, In, LoopInv, Place, Real, Op, Scripted
<1>3. Rem(s) \in Nat \ {0}
  BY <1>1, <1>2, StartSteps, Families
<1>4. PICK what : Head(script[s]) = Item("recv", what) /\ Head(script[s]).what = what
  <2>1. Head(script[s]) = StepAt(s, Segment(s), Rem(s))
    BY <1>1, <1>3, ScriptFront
  <2>2. PICK do, w : StepAt(s, Segment(s), Rem(s)) = Item(do, w)
    BY DEF StepAt, Way, Meet
  <2> QED
    BY <2>1, <2>2 DEF Item
<1>5. StepAt(s, Segment(s), Rem(s)) = Item("recv", what)
  BY <1>1, <1>3, <1>4, ScriptFront
<1>6. Unread(s) \in Nat /\ Unread(s) > 0 /\ Head(to[s]) = to[s][1]
  <2>1. PICK q : q = to[s]
    OBVIOUS
  <2>2. PICK n \in Nat : n = Len(q) /\ n = Unread(s) /\ q = [p \in 1 .. n |-> q[p]]
    BY <2>1 DEF LoopInv, Streams, Unread
  <2>3. n = 0 => q = <<>>
    BY <2>2
  <2>4. n > 0
    BY <2>1, <2>2, <2>3
  <2>5. Head(q) = q[1]
    BY <2>2, <2>4
  <2> QED
    BY <2>1, <2>2, <2>4, <2>5
<1>7. SUFFICES to[s][1].kind = what /\ to[s][1].client = cur[s]
  BY <1>4, <1>6
<1>8. CASE pc[s] = "startup"
  <2>1. Wire("startup") /\ "startup" \in Exchanges /\ Rem(s) \in 1 .. 3
    BY <1>8, StartFacts DEF StartingUp
  <2>2. Rem(s) # 1 /\ StepAt(s, "startup", Rem(s)) = Item("recv", what)
    BY <1>2, <1>5, <1>8, <2>1, StartItemAt
  <2>3. Kind(s, "startup", WasRead(s, "startup", Rem(s)) + 1) = what
    BY <2>1, <2>2, ReadTable, StartSteps
  <2>4. Carries(to[s][1], s, Kind(s, "startup", WasRead(s, "startup", Rem(s)) + 1), cur[s])
    BY <1>6, <2>1, WireFirst
  <2> QED
    BY <2>3, <2>4 DEF Carries
<1>9. CASE Together
  <2>1. PICK g \in RealOps : Shared(g)
    BY <1>9, TogetherFacts
  <2>2. /\ Wire(g) /\ g \in Exchanges /\ Rem(s) \in 1 .. Steps(g)
        /\ StepAt(s, g, Rem(s)) = Item("recv", what)
    BY <1>5, <1>9, <2>1, TogetherFacts DEF SameExchange, Shared, Exchanges
  <2>3. Rem(s) # 1
    <3>1. ASSUME Rem(s) = 1 PROVE FALSE
      <4>1. s = 0
        BY <2>2, <3>1, ItemAt DEF Server
      <4> QED
        BY <1>6, <1>9, <2>1, <3>1, <4>1, SumComesAlone
    <3> QED
      BY <3>1
  <2>4. Kind(s, g, WasRead(s, g, Rem(s)) + 1) = what
    <3>1. Rem(s) \in 2 .. Steps(g)
      BY <2>1, <2>2, <2>3, Families
    <3> QED
      BY <2>2, <3>1, ReadTable
  <2>5. Carries(to[s][1], s, Kind(s, g, WasRead(s, g, Rem(s)) + 1), cur[s])
    BY <1>6, <2>2, WireFirst
  <2> QED
    BY <2>4, <2>5 DEF Carries
<1>10. CASE pc[s] # "startup" /\ ~Together
  <2>1. Apart /\ s = 0 /\ 0 \in Server /\ 1 \in Server
    <3>1. Apart
      BY <1>10 DEF LoopInv, Pair, Starting, Server
    <3> QED
      BY <1>6, <3>1 DEF Apart, Trail, Server
  <2>2. CASE pc[0] = "refresh"
    <3>1. ~Lagging /\ randx_uses[0] > RandomXThreshold /\ what = "randomX"
      BY <1>2, <1>5, <2>1, <2>2 DEF Lagging, In, LoopInv, Counts, StepAt, Way, Item
    <3>2. Owed
      <4>1. ASSUME ~Owed PROVE FALSE
        <5>1. Keyed /\ randx_uses[1] > RandomXThreshold
          BY <1>6, <2>1, <3>1, <4>1 DEF Apart, Trail, One
        <5>2. In(1) /\ Rem(1) # Steps(Op(1)) /\ Checked(1)
          BY <2>1, <5>1 DEF Keyed, LoopInv, Counts, DueAt, In
        <5>3. Op(1) \in SnipOps /\ Rem(1) < 6 /\ Rem(1) >= Steps(Op(1)) - 1
          BY <2>1, <5>2 DEF Checked, Apart
        <5>4. Steps(Op(1)) = 8 /\ Rem(1) \in Nat
          <6>1. Op(1) \in RealOps /\ pc[1] \in Scripted /\ Segment(1) = Op(1)
            BY <2>1, <5>2 DEF LoopInv, Place, Real, Op, Segment, In, Scripted
          <6>2. Steps(Op(1)) = 8
            BY <5>3, <6>1, Families
          <6> QED
            BY <2>1, <6>1, <6>2 DEF LoopInv, Place
        <5> QED
          BY <5>3, <5>4
      <4> QED
        BY <4>1
    <3> QED
      BY <2>1, <3>1, <3>2 DEF Apart, Trail, One, Carries
  <2>3. CASE In(0) /\ Lagging
    <3>1. Rem(0) = 1 /\ what = "sum"
      BY <1>1, <1>2, <1>5, <2>1, <2>3, ItemAt DEF Apart
    <3> QED
      BY <2>1, <2>3, <3>1 DEF Apart, Trail, Carries
  <2>4. CASE In(0) /\ ~Lagging
    <3>1. Rem(0) = Steps(Op(0)) /\ what = "keys"
      BY <1>1, <1>2, <1>5, <2>1, <2>4, ItemAt DEF Apart
    <3>2. ~Owed
      BY <2>1, <2>4 DEF Apart, In
    <3>3. Keyed
      BY <1>6, <2>1, <2>4, <3>2 DEF Apart, Trail, One
    <3>4. /\ In(1) /\ Real(cur[1]) /\ Fin(1) = cur[1] - 1 /\ Fin(0) = cur[0] - 1
          /\ cur[0] \in Nat /\ cur[1] \in Nat /\ cur[0] # cur[1]
      BY <1>10, <2>1, <2>4, <3>3 DEF Keyed, In, Fin, LoopInv, Place, Together
    <3>5. cur[0] > cur[1]
      BY <2>4, <3>4 DEF Lagging
    <3> QED
      BY <2>1, <3>4, <3>5 DEF Apart, NoReal, Real
  <2> QED
    BY <1>2, <1>10, <2>1, <2>2, <2>3, <2>4
<1> QED
  BY <1>8, <1>9, <1>10

\* Both have the same point, and have drawn the same number of coefficients.
LEMMA LoopSnips == LoopInv => SnipsAgree
<1> SUFFICES ASSUME LoopInv, NEW s \in Server, to[s] # <<>>,
                    NEW what \in {"cor", "out"}, Ready(s, "recv", what)
             PROVE  Head(to[s]).val = IF what = "cor" THEN precomp[s][Size(s)] ELSE snips_seed[s]
  BY DEF SnipsAgree
<1>1. pc[s] = "work"
  BY AtWork
<1>2. /\ Op(s) \in RealOps /\ Rem(s) \in 1 .. Steps(Op(s))
      /\ StepAt(s, Op(s), Rem(s)) = Item("recv", what)
  BY <1>1, NextItem DEF LoopInv
<1>3. /\ Op(s) \in SnipOps /\ Rem(s) = (IF what = "cor" THEN 5 ELSE 3)
      /\ Steps(Op(s)) = 8
  <2>1. what = "cor" => Op(s) \in SnipOps /\ Rem(s) = 5
    BY <1>2, ItemAt
  <2>2. what = "out" => Op(s) \in SnipOps /\ Rem(s) = 3
    BY <1>2, ItemAt
  <2> QED
    BY <1>2, <2>1, <2>2, Families
<1>4. Together
  BY <1>1, <1>3, MustBeTogether
<1>5. PICK g \in RealOps : Shared(g) /\ g = Op(s) /\ g = Op(1 - s) /\ SameExchange
  <2>1. PICK g \in RealOps : Shared(g)
    BY <1>4, TogetherFacts
  <2> QED
    BY <1>4, <2>1, TogetherFacts DEF Shared, Server
<1>6. /\ Wire(g) /\ g \in Exchanges /\ Rem(s) \in 2 .. Steps(g) /\ g # "BIT_SUM"
      /\ 1 - s \in Server /\ Rem(1 - s) \in 1 .. 8
  BY <1>2, <1>3, <1>5 DEF SameExchange, Shared, Exchanges, Server, SnipOps
<1>7. Unread(s) \in Nat /\ Unread(s) > 0 /\ Head(to[s]) = to[s][1]
  <2>1. PICK q : q = to[s]
    OBVIOUS
  <2>2. PICK n \in Nat : n = Len(q) /\ n = Unread(s) /\ q = [p \in 1 .. n |-> q[p]]
    BY <2>1 DEF LoopInv, Streams, Unread
  <2>3. n = 0 => q = <<>>
    BY <2>2
  <2>4. n > 0
    BY <2>1, <2>2, <2>3
  <2>5. Head(q) = q[1]
    BY <2>2, <2>4
  <2> QED
    BY <2>1, <2>2, <2>4, <2>5
<1>8. to[s][1].val = Val(1 - s, what)
  <2>1. Kind(s, g, WasRead(s, g, Rem(s)) + 1) = what
    BY <1>2, <1>5, <1>6, ReadTable
  <2>2. Carries(to[s][1], s, Kind(s, g, WasRead(s, g, Rem(s)) + 1), cur[s])
    BY <1>6, <1>7, WireFirst
  <2> QED
    BY <2>1, <2>2 DEF Carries
<1>9. CASE what = "cor"
  <2>1. Checked(s) /\ In(s)
    BY <1>1, <1>3, <1>9 DEF Checked, In
  <2>2. precomp[s][Size(s)] = randomX[s]
    BY <2>1 DEF LoopInv, Counts, PointInv, PointRetired
  <2>3. randomX[1 - s] = randomX[s]
    BY <1>5 DEF SameExchange, Server
  <2> QED
    BY <1>7, <1>8, <1>9, <2>2, <2>3 DEF Val
<1>10. CASE what = "out"
  <2>1. PICK r \in 1 .. 8 : r = Rem(1 - s)
    BY <1>6
  <2>2. Unread(s) = Written(1 - s, g, r) - WasRead(s, g, 3)
    BY <1>3, <1>6, <1>10, <2>1 DEF Wire
  <2>3. r < 4
    <3>1. g \in SnipOps /\ g \notin SketchOps /\ Steps(g) = 8
      BY <1>3, <1>5, Families
    <3>2. CASE s = 0
      BY <1>6, <1>7, <2>2, <3>1, <3>2 DEF Written, WasRead, One
    <3>3. CASE s = 1
      BY <1>6, <1>7, <2>2, <3>1, <3>3 DEF Written, WasRead, One
    <3> QED
      BY <3>2, <3>3 DEF Server
  <2>4. Drawn(s) /\ Drawn(1 - s)
    BY <1>3, <1>5, <1>10, <2>1, <2>3 DEF Drawn
  <2>5. snips_seed[1 - s] = snips_seed[s]
    BY <1>5, <2>4 DEF SameExchange, SameSeed, Server
  <2> QED
    BY <1>7, <1>8, <1>10, <2>5 DEF Val
<1> QED
  BY <1>9, <1>10

\* The loops never drift apart: what a server asks for is what it is sent next,
\* and it is about the client it is serving, however far ahead the other is.
THEOREM ServersInStep == Spec => []InStep
  BY InitLoop, NextLoop, LoopInStep, PTL DEF Spec

\* The halves of a SNIP are evaluated at one point and combined with the same
\* coefficients, whenever the points are renewed.
THEOREM SnipsEvaluatedAlike == Spec => []SnipsAgree
  BY InitLoop, NextLoop, LoopSnips, PTL DEF Spec
=============================================================================
