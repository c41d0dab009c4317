----------------------------- MODULE PumpCommand -----------------------------
(***************************************************************************)
(* What the turbo pump driver promises an operator: a pump is driven from  *)
(* the service only as the order in force for that very pump says.  An     *)
(* order is in force from the moment it is accepted until the next one, or *)
(* until the service has given it up; a pump whose order has been given up *)
(* is never driven again without a new one.                                *)
(***************************************************************************)
CONSTANT Pumps

VARIABLES
  order,    \* the order in force: "on", "off", or "local": none
  driven    \* what the bus makes the pump do: "on", "off", or "local": nothing

Words == {"local", "on", "off"}

Init == /\ order = [p \in Pumps |-> "local"]
        /\ driven = [p \in Pumps |-> "local"]

Order(p, m) == /\ order' = [order EXCEPT ![p] = m]      \* or given up: "local"
               /\ UNCHANGED driven

Obey(p)  == /\ order[p] # "local"
            /\ driven' = [driven EXCEPT ![p] = order[p]]
            /\ UNCHANGED order

LetGo(P) == /\ driven' = [p \in Pumps |-> IF p \in P THEN "local" ELSE driven[p]]
            /\ UNCHANGED order

Next == \/ \E p \in Pumps, m \in Words : Order(p, m)
        \/ \E p \in Pumps : Obey(p)
        \/ \E P \in SUBSET Pumps : LetGo(P)

Spec == Init /\ [][Next]_<<order, driven>>
=============================================================================
