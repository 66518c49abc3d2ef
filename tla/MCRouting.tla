----------------------------- MODULE MCRouting ------------------------------
(***************************************************************************)
(* A small instance of Routing: one user, two tokens, one venue, one       *)
(* calldata router, one facility and one partner.  Fees are in halves.     *)
(***************************************************************************)
EXTENDS Routing

CONSTANTS ann, usd, rwa, pro, par, venue, target, fac

Fee(protocol) ==
    [protocol |-> protocol, max_partner |-> 1, share |-> 1, recipient |-> pro]
NewFees == {Fee(2), [Fee(0) EXCEPT !.recipient = par]}
Start == Fee(1)
Wallets == [a \in {ann, MARKET} |-> [t \in Tokens |-> IF a = ann /\ t = rwa THEN 1 ELSE 2]]
SomePartners == {None, [who |-> par, bps |-> 1]}

H(out, pays) == [venue |-> venue, out |-> out, pays |-> pays]
Direct(t, n, pays) == [amount |-> n, hops |-> <<H(t, pays)>>]
SomeSplits ==
    {<<Direct(t, 2, p)>> : t \in {usd, rwa}, p \in {0, 2}}
    \cup {<<Direct(rwa, 1, 1), [amount |-> 1, hops |-> <<H(usd, 2), H(rwa, 1)>>]>>}
C(spends, takes, pays) ==
    [target |-> target, spends |-> spends, takes |-> takes, pays |-> pays]
SomeCalls ==
    {<<C(2, 1, 2)>>, <<C(1, 1, 1), C(1, 1, 1)>>, <<C(2, 2, 0), C(1, 0, 0)>>,
     <<[C(0, 0, 0) EXCEPT !.target = usd]>>}
SomePayees == {ann, ROUTER, DEX}

Open(takes, pays) ==
    [kind |-> "Rfq", named |-> FALSE, amount |-> 2, takes |-> takes, pays |-> pays]
AllLegs ==
    {Open(1, 1), Open(3, 1), [Open(1, 1) EXCEPT !.named = TRUE]}
    \cup {[kind |-> "Dex", amount |-> 2, min |-> 1,
           data |-> [kind |-> "Splits", route |-> r]] :
             r \in {<<Direct(rwa, 2, 2)>>}}
    \cup {[kind |-> "Dex", amount |-> 2, min |-> 1,
           data |-> [kind |-> "Calls", route |-> <<C(2, 1, 2)>>]]}
    \cup {[kind |-> "Facility", amount |-> 2, min |-> 1,
           data |-> [facility |-> fac, pays |-> 2]]}
=============================================================================
