----------------------------- MODULE MCFacility -----------------------------
(***************************************************************************)
(* Small instances of the facility with its queue.                         *)
(***************************************************************************)
EXTENDS WithdrawalQueue

CONSTANTS ann, bob, cur, queue, usd, gold

T(bid, ask, cap) ==
    [accepted |-> TRUE, bid_rate |-> bid, ask_rate |-> ask, max_bps |-> cap]
Quoted == T(1, 0, 2)
NewTerms == {[T(1, 1, 1) EXCEPT !.accepted = FALSE]}
Alike == Permutations({ann, bob})
GoldListed == [r \in Rwas |-> Quoted]
=============================================================================
