----------------------------- MODULE AtomicSwap -----------------------------
(***************************************************************************)
(* What cross-chain settlement promises the two parties of a request (the  *)
(* flow of docs/CROSSCHAIN_SETTLEMENT.md), with no chains and no messages: *)
(* the taker's RWA goes into escrow, and then either the maker pays and    *)
(* the RWA leaves for the maker, or nobody pays and the RWA goes back.     *)
(***************************************************************************)
CONSTANT Ids

VARIABLE swap

Move(id, from, to) ==
    /\ swap[id] = from
    /\ swap' = [swap EXCEPT ![id] = to]

Init == swap = [id \in Ids |-> "idle"]

Escrow(id) == Move(id, "idle", "escrowed")
Pay(id)    == Move(id, "escrowed", "paid")
Cancel(id) == Move(id, "escrowed", "idle")
Settle(id) == Move(id, "paid", "settled")

Next == \E id \in Ids : Escrow(id) \/ Pay(id) \/ Cancel(id) \/ Settle(id)

Spec == Init /\ [][Next]_swap

(* Nobody has to offer; an escrow is answered, and a payment settles.      *)
Fairness ==
    \A id \in Ids : WF_swap(Pay(id) \/ Cancel(id)) /\ WF_swap(Settle(id))

LiveSpec == Spec /\ Fairness

=============================================================================
