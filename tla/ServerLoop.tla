----------------------------- MODULE ServerLoop -----------------------------
(***************************************************************************)
(* The two server processes over a series of meta-clients (main of         *)
(* server.cpp): start up, then for ever refresh the checking point, accept *)
(* a client, read its initMsg, run the operation it names.                 *)
(*                                                                         *)
(* An operation is the script of messages it has each server exchange with *)
(* the other on their one connection; PairedOp and SketchOp are what is in *)
(* them (FREQ is the exchange in which the batch check passes). What lives *)
(* from one operation to the next is modelled: the shared point randomX at *)
(* which SNIPs are checked, its count of uses, the precomputations made    *)
(* for it, and the seed both servers draw the SNIPs' coefficients from.    *)
(*                                                                         *)
(* Meta-clients are started one after the other: each connects once the    *)
(* one before it is connected. The servers do not wait for one another to  *)
(* be done with a client.                                                  *)
(***************************************************************************)
EXTENDS Integers, Sequences, FiniteSets

CONSTANTS Campaigns,         \* sequences of operations the clients ask for
          MaxInputs,         \* most keys a server 1 lists: bounds num_inputs
          RandomXThreshold   \* RANDOMX_THRESHOLD

ASSUME LoopAssumption ==
    /\ MaxInputs \in Nat \ {0} /\ RandomXThreshold \in Nat
    /\ Campaigns \subseteq Seq(STRING)

Server == {0, 1}
SnipOps == {"VAR_OP", "STDDEV_OP", "LINREG_OP"}
SketchOps == {"FREQ_OP", "COUNTMIN_OP", "HEAVY_OP"}
MaskedSumOps == {"AND_OP", "OR_OP", "MAX_OP", "MIN_OP"}

VARIABLES
    ops,          \* the operation each client asks for
    conn,         \* how far each client is
    backlog,      \* connections each server has still to accept
    pc,           \* where each server is in its loop
    cur,          \* the client being served
    script,       \* what is left of the exchange
    to,           \* server-to-server streams, unread messages
    randomX,      \* the point SNIPs are checked at: its number in drawing order
    randx_uses,   \* submissions checked at it
    precomp,      \* precomp_store: the point each size was precomputed for
    snips_seed,   \* numbers drawn from the synced seed
    num_inputs,   \* keys listed in the current operation
    known,        \* how many of them the server has a share of
    served        \* clients done with

vars == <<ops, conn, backlog, pc, cur, script, to, randomX, randx_uses, precomp,
          snips_seed, num_inputs, known, served>>
-----------------------------------------------------------------------------
(* Scripts. *)

Item(do, what) == [do |-> do, what |-> what]
Meet == Item("meet", "both")

SwapReadFirst(what) == <<Item("recv", what), Item("send", what)>>
\* The forked child sends while the parent reads.
Swap(what) == <<Item("send", what), Item("recv", what)>>

\* One sends what the other receives.
OneWay(s, from, what) == <<Item(IF s = from THEN "send" ELSE "recv", what)>>

\* sync_randomX; syncSnipSeeds; the OT wrappers connect to each other.
Startup(s) == OneWay(s, 1, "randomX") \o OneWay(s, 0, "seed") \o <<Meet>>

Exchange(s, op) ==
    CASE op = "BIT_SUM" -> OneWay(s, 1, "keys") \o <<Meet>> \o OneWay(s, 1, "sum")
      [] op = "INT_SUM" -> OneWay(s, 1, "keys") \o <<Meet>> \o OneWay(s, 0, "valid")
                               \o OneWay(s, 1, "sum")
      [] op \in MaskedSumOps -> OneWay(s, 1, "keys") \o OneWay(s, 0, "valid")
                               \o OneWay(s, 1, "sum")
      [] op \in SnipOps -> OneWay(s, 1, "keys") \o <<Meet>> \o Swap("cor")
                               \o Swap("out") \o OneWay(s, 0, "valid")
                               \o OneWay(s, 1, "sum")
      [] op \in SketchOps -> OneWay(s, 1, "keys") \o <<Meet>> \o OneWay(s, 1, "checks")
                               \o OneWay(s, 0, "all_valid") \o OneWay(s, 1, "sum")
      [] OTHER -> <<>>

NumMulGates(op) == IF op = "LINREG_OP" THEN 2 ELSE 1      \* degree 2
NextPowerOfTwo(n) == CHOOSE p \in 1 .. 2 * n + 1 :
                        p > n /\ p \div 2 <= n /\ \E k \in 0 .. n : p = 2 ^ k

Init ==
    /\ ops \in Campaigns
    /\ conn = [c \in DOMAIN ops |-> "started"]
    /\ backlog = [s \in Server |-> <<>>]
    /\ pc = [s \in Server |-> "startup"]
    /\ cur = [s \in Server |-> 0]
    /\ script = [s \in Server |-> Startup(s)]
    /\ to = [s \in Server |-> <<>>]
    /\ randomX = [s \in Server |-> 0]
    /\ randx_uses = [s \in Server |-> 0]
    /\ precomp = [s \in Server |-> <<>>]
    /\ snips_seed = [s \in Server |-> 0]
    /\ num_inputs = [s \in Server |-> 0]
    /\ known = [s \in Server |-> 0]
    /\ served = [s \in Server |-> <<>>]
-----------------------------------------------------------------------------
(* Meta-clients: connect to 0, to 1, initMsg to 0, to 1, all the shares. *)

Stages == <<"started", "at0", "at1", "init0", "init1", "sent">>
StageOf(c) == CHOOSE k \in DOMAIN Stages : Stages[k] = conn[c]
Reached(c, stage) == \E k \in 1 .. StageOf(c) : Stages[k] = stage

ClientStep(c) ==
    /\ conn[c] # "sent"
    /\ \A b \in DOMAIN ops : b < c => Reached(b, "at1")
    /\ conn' = [conn EXCEPT ![c] = Stages[StageOf(c) + 1]]
    /\ backlog' = [s \in Server |->
                     IF conn'[c] = (IF s = 0 THEN "at0" ELSE "at1")
                     THEN Append(backlog[s], c) ELSE backlog[s]]
    /\ UNCHANGED <<ops, pc, cur, script, to, randomX, randx_uses, precomp,
                   snips_seed, num_inputs, known, served>>
-----------------------------------------------------------------------------
(* The loop. *)

\* Where a server is when a script has come to its end.
AfterScript(s) == IF Len(script[s]) > 1 THEN pc[s]
              ELSE IF pc[s] = "startup" THEN "top"
              ELSE IF pc[s] = "refresh" THEN "accept" ELSE "close"

Refresh(s) ==
    /\ pc[s] = "top"
    /\ IF randx_uses[s] > RandomXThreshold
       THEN /\ script' = [script EXCEPT ![s] = OneWay(s, 1, "randomX")]
            /\ pc' = [pc EXCEPT ![s] = "refresh"]
       ELSE pc' = [pc EXCEPT ![s] = "accept"] /\ UNCHANGED script
    /\ UNCHANGED <<ops, conn, backlog, cur, to, randomX, randx_uses, precomp,
                   snips_seed, num_inputs, known, served>>

Accept(s) ==
    /\ pc[s] = "accept" /\ backlog[s] # <<>>
    /\ cur' = [cur EXCEPT ![s] = Head(backlog[s])]
    /\ backlog' = [backlog EXCEPT ![s] = Tail(@)]
    /\ pc' = [pc EXCEPT ![s] = "init"]
    /\ UNCHANGED <<ops, conn, script, to, randomX, randx_uses, precomp, snips_seed,
                   num_inputs, known, served>>

\* The initMsg names the operation; an unknown or empty one has no exchange.
RecvInit(s) ==
    /\ pc[s] = "init"
    /\ Reached(cur[s], IF s = 0 THEN "init0" ELSE "init1")
    /\ script' = [script EXCEPT ![s] = Exchange(s, ops[cur[s]])]
    /\ pc' = [pc EXCEPT ![s] = IF script'[s] = <<>> THEN "close" ELSE "recv"]
    /\ UNCHANGED <<ops, conn, backlog, cur, to, randomX, randx_uses, precomp,
                   snips_seed, num_inputs, known, served>>

\* The handler has read all the client's shares.
RecvShares(s) ==
    /\ pc[s] = "recv" /\ conn[cur[s]] = "sent"
    /\ pc' = [pc EXCEPT ![s] = "work"]
    /\ UNCHANGED <<ops, conn, backlog, cur, script, to, randomX, randx_uses, precomp,
                   snips_seed, num_inputs, known, served>>

Close(s) ==
    /\ pc[s] = "close"
    /\ served' = [served EXCEPT ![s] = Append(@, cur[s])]
    /\ pc' = [pc EXCEPT ![s] = "top"]
    /\ UNCHANGED <<ops, conn, backlog, cur, script, to, randomX, randx_uses, precomp,
                   snips_seed, num_inputs, known>>
-----------------------------------------------------------------------------
(* Steps of a script. *)

Ready(s, do, what) == script[s] # <<>> /\ Head(script[s]) = Item(do, what)
                      /\ pc[s] \in {"startup", "refresh", "work"}
Done(s) ==
    /\ script' = [script EXCEPT ![s] = Tail(@)]
    /\ pc' = [pc EXCEPT ![s] = AfterScript(s)]
    /\ UNCHANGED <<ops, conn, backlog, cur, served>>

Message(s, what, val) == [kind |-> what, client |-> cur[s], val |-> val]
Put(s, what, val) ==
    to' = [to EXCEPT ![1 - s] = Append(@, Message(s, what, val))]
Get(s, what) ==
    /\ to[s] # <<>> /\ Head(to[s]).kind = what
    /\ to' = [to EXCEPT ![s] = Tail(@)]

RefreshedNot(s, x) == precomp[s]
\* A new point: no uses yet, and whatever was precomputed is so again.
Refreshed(s, x) == [N \in DOMAIN precomp[s] |-> x]
Adopt(s, x) ==
    /\ randomX' = [randomX EXCEPT ![s] = x]
    /\ randx_uses' = [randx_uses EXCEPT ![s] = 0]
    /\ precomp' = [precomp EXCEPT ![s] = Refreshed(s, x)]
    /\ UNCHANGED <<snips_seed, num_inputs, known>>

SendRandomX ==
    /\ Ready(1, "send", "randomX") /\ Done(1)
    /\ Adopt(1, randomX[1] + 1)
    /\ Put(1, "randomX", randomX'[1])

RecvRandomX ==
    /\ Ready(0, "recv", "randomX") /\ Done(0)
    /\ Get(0, "randomX")
    /\ Adopt(0, Head(to[0]).val)

SendKeys ==
    /\ Ready(1, "send", "keys") /\ Done(1)
    /\ \E n \in 1 .. MaxInputs :
         /\ num_inputs' = [num_inputs EXCEPT ![1] = n]
         /\ known' = [known EXCEPT ![1] = n]
         /\ Put(1, "keys", n)
    /\ UNCHANGED <<randomX, randx_uses, precomp, snips_seed>>

RecvKeys ==
    /\ Ready(0, "recv", "keys") /\ Done(0)
    /\ Get(0, "keys")
    /\ num_inputs' = [num_inputs EXCEPT ![0] = Head(to[0]).val]
    /\ \E k \in 0 .. num_inputs'[0] : known' = [known EXCEPT ![0] = k]
    /\ UNCHANGED <<randomX, randx_uses, precomp, snips_seed>>

\* Share conversion, and the OT wrappers' start: neither side is through
\* before the other takes part.
MeetOther ==
    /\ \A s \in Server : Ready(s, "meet", "both")
    /\ script' = [s \in Server |-> Tail(script[s])]
    /\ pc' = [s \in Server |-> AfterScript(s)]
    /\ UNCHANGED <<ops, conn, backlog, cur, to, randomX, randx_uses, precomp,
                   snips_seed, num_inputs, known, served>>

UsesKnown(s) == known[s]
\* validate_snips: N more submissions are checked at randomX, with what
\* getPrecomp has or makes for their circuit's size.
Uses(s) == num_inputs[s]

Size(s) == NextPowerOfTwo(NumMulGates(ops[cur[s]]))
GetPrecomp(s) ==
    IF Size(s) \in DOMAIN precomp[s] THEN precomp[s]
    ELSE [N \in DOMAIN precomp[s] \cup {Size(s)} |->
            IF N = Size(s) THEN randomX[s] ELSE precomp[s][N]]

SendCor(s) ==
    /\ Ready(s, "send", "cor") /\ Done(s)
    /\ precomp' = [precomp EXCEPT ![s] = GetPrecomp(s)]
    /\ randx_uses' = [randx_uses EXCEPT ![s] = @ + Uses(s)]
    /\ Put(s, "cor", precomp'[s][Size(s)])
    /\ UNCHANGED <<randomX, snips_seed, num_inputs, known>>

DrawsOfKnown(s) == known[s] * (NumMulGates(ops[cur[s]]) + 1)
\* OutShare of each checker draws a coefficient for its product check and for
\* each gate that must be zero (one per multiplication).
Draws(s) == num_inputs[s] * (NumMulGates(ops[cur[s]]) + 1)

SendOut(s) ==
    /\ Ready(s, "send", "out") /\ Done(s)
    /\ snips_seed' = [snips_seed EXCEPT ![s] = @ + Draws(s)]
    /\ Put(s, "out", snips_seed'[s])
    /\ UNCHANGED <<randomX, randx_uses, precomp, num_inputs, known>>

Plain == {"seed", "valid", "checks", "all_valid", "sum"}

SendPlain(s) ==
    /\ \E what \in Plain : Ready(s, "send", what) /\ Put(s, what, 0)
    /\ Done(s)
    /\ UNCHANGED <<randomX, randx_uses, precomp, snips_seed, num_inputs, known>>

RecvPlain(s) ==
    /\ \E what \in Plain \cup {"cor", "out"} : Ready(s, "recv", what) /\ Get(s, what)
    /\ Done(s)
    /\ UNCHANGED <<randomX, randx_uses, precomp, snips_seed, num_inputs, known>>

ServerStep(s) ==
    \/ Refresh(s) \/ Accept(s) \/ RecvInit(s) \/ RecvShares(s) \/ Close(s)
    \/ SendCor(s) \/ SendOut(s) \/ SendPlain(s) \/ RecvPlain(s)
    \/ s = 0 /\ (RecvRandomX \/ RecvKeys)
    \/ s = 1 /\ (SendRandomX \/ SendKeys)

Next == MeetOther \/ (\E s \in Server : ServerStep(s)) \/ (\E c \in DOMAIN ops : ClientStep(c))

Spec == Init /\ [][Next]_vars

\* The processes run on; a client is a loop of sends.
FairSpec ==
    /\ Spec
    /\ WF_vars(MeetOther)
    /\ \A s \in Server : WF_vars(ServerStep(s))
    /\ WF_vars(\E c \in DOMAIN ops : ClientStep(c))
-----------------------------------------------------------------------------
(* Properties. *)

\* The next message a server asks for is the next it is sent, and it is about
\* the client it is serving: the loops never drift apart, neither over which
\* client is whose nor over when to refresh.
InStep ==
    \A s \in Server :
        script[s] # <<>> /\ Head(script[s]).do = "recv" /\ to[s] # <<>> =>
            /\ Head(to[s]).kind = Head(script[s]).what
            /\ Head(to[s]).client = cur[s]

\* The two halves of a SNIP are evaluated at the same point, and combined with
\* the same coefficients: otherwise every honest submission is refused.
SnipsAgree ==
    \A s \in Server : to[s] # <<>> =>
        /\ Ready(s, "recv", "cor") => Head(to[s]).val = precomp[s][Size(s)]
        /\ Ready(s, "recv", "out") => Head(to[s]).val = snips_seed[s]

\* No precomputation outlives the point it was made for, so that a refresh does
\* retire the old point, also for circuits not used since.
PointRetired ==
    \A s \in Server : \A N \in DOMAIN precomp[s] : precomp[s][N] = randomX[s]

\* Every client is served by both servers.
AllServed == <>(\A s \in Server : Len(served[s]) = Len(ops))
=============================================================================
