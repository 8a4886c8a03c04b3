------------------------------ MODULE Aggregate ------------------------------
(***************************************************************************)
(* What one aggregate operation promises, whatever the servers exchange:   *)
(* shares are stored first-come under their public key at each server, and *)
(* the result is decided, once, as a function of the values whose key both *)
(* servers stored. Nothing is stored after the decision.                   *)
(***************************************************************************)
EXTENDS AggregateOps

VARIABLES msg, stored, result
vars == <<msg, stored, result>>

Common == DOMAIN stored[0] \cap DOMAIN stored[1]
Value == [pk \in Common |-> SymDiff(stored[0][pk], stored[1][pk])]

\* More of the inputs are lost than are left. Half of them are enough.
MostLost == msg.num_of_inputs - Cardinality(Common) > Cardinality(Common)

\* The verdict on the values both servers hold.
Outcome ==
    IF MostLost THEN Invalid
    ELSE IF msg.type \in SumOps
    THEN Answer(MapThenSumSet(LAMBDA pk : Number(Value[pk]), Common)
                    % SumModulus(msg.type))
    ELSE Decode(msg, XorAll(Value, Common))

Init ==
    /\ stored = [s \in Server |-> <<>>]
    /\ result = Pending
    /\ msg.type \in SumOps \cup XorOps

\* Server s keeps the first share it sees of a key and never replaces it.
Store(s) ==
    /\ result = Pending
    /\ \E pk \in DOMAIN stored'[s] \ DOMAIN stored[s] :
          /\ DOMAIN stored'[s] = DOMAIN stored[s] \cup {pk}
          /\ \A q \in DOMAIN stored[s] : stored'[s][q] = stored[s][q]
    /\ \A t \in Server \ {s} : stored'[t] = stored[t]
    /\ UNCHANGED <<msg, result>>

Decide ==
    /\ result = Pending
    /\ result' = Outcome
    /\ UNCHANGED <<msg, stored>>

Next == Decide \/ \E s \in Server : Store(s)

Spec == Init /\ [][Next]_vars
=============================================================================
