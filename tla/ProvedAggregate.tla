--------------------------- MODULE ProvedAggregate ---------------------------
(***************************************************************************)
(* What var_op and linreg_op promise, whatever the servers exchange: each  *)
(* keeps the first acceptable submission it gets under a public key, and   *)
(* the result is decided once, as a function of the submissions that both  *)
(* keep under the same key and whose proof is a proof of what they hold.   *)
(***************************************************************************)
EXTENDS AggregateOps, Circuit

VARIABLES campaign,  \* what the client made
          stored,    \* per server: public key |-> number of the submission
          result
vars == <<campaign, stored, result>>

\* The values of submission k, both shares put together.
Clear(k) ==
    LET val == campaign.subs[k].val
    IN [f \in DOMAIN val[0] |-> Number(SymDiff(val[0][f], val[1][f])) % Modulus]

Proved(k) ==
    LET proved == campaign.subs[k].proved
    IN /\ campaign.subs[k].intact
       /\ Clear(k) = [f \in DOMAIN proved |-> proved[f] % Modulus]
       /\ Satisfies(CircuitOf(campaign.msg.type, campaign.degree), Clear(k), Modulus)

Agreed ==
    {k \in DOMAIN campaign.subs :
        /\ \E pk \in DOMAIN stored[0] \cap DOMAIN stored[1] : stored[0][pk] = k /\ stored[1][pk] = k
        /\ Proved(k)}

\* More of the inputs are lost than are left. Half of them are enough.
MostLost == campaign.msg.num_of_inputs - Cardinality(Agreed) > Cardinality(Agreed)

Outcome ==
    IF MostLost THEN Invalid
    ELSE Answer(MomentsOf(campaign.msg.type, campaign.degree, Agreed,
                          LAMBDA k : [v \in 1 .. campaign.degree |-> Clear(k)[v - 1]], Modulus))

Init ==
    /\ stored = [s \in Server |-> <<>>]
    /\ result = Pending

Store(s) ==
    /\ result = Pending
    /\ \E k \in DOMAIN campaign.subs :
          LET pk == campaign.subs[k].pk[s] IN
          /\ pk \notin DOMAIN stored[s]
          /\ stored' = [stored EXCEPT ![s] =
                [q \in DOMAIN @ \cup {pk} |-> IF q = pk THEN k ELSE @[q]]]
    /\ UNCHANGED <<campaign, result>>

Decide ==
    /\ result = Pending
    /\ result' = Outcome
    /\ UNCHANGED <<campaign, stored>>

Next == Decide \/ \E s \in Server : Store(s)

Spec == Init /\ [][Next]_vars
=============================================================================
