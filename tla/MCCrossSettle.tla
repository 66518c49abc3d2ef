--------------------------- MODULE MCCrossSettle ---------------------------
(***************************************************************************)
(* Small instances of CrossSettle.  The home stable has two units per wire *)
(* unit and the away one has one, so that every quote rounds on its way.   *)
(***************************************************************************)
EXTENDS CrossSettle

CONSTANTS taker, maker, fee, fund, relay, v1, v2, me, ka, kh,
          RWA, USD, EUR, CT, rwa, usd

MCAccounts == {taker, maker, fee, fund, relay, v1, v2, me}
MCTokens == {RWA, USD, EUR, CT, rwa, usd}
MCAway == {rwa, usd}
MCUnit == [t \in MCTokens |-> IF t \in {USD, EUR, RWA} THEN 2 ELSE 1]
MCLink == [t \in MCTokens |->
             CASE t = USD -> usd [] t = usd -> USD
               [] t = RWA -> rwa [] t = rwa -> RWA [] OTHER -> None]
MCOwnKey == [a \in MCAccounts |-> IF a = maker THEN ka ELSE None]

SaleAtLeast(salt, units, min) ==
    [maker_token |-> USD, taker_token |-> RWA, taker_amount |-> units,
     min_received_amount |-> min, taker |-> taker, sender |-> me,
     fee_recipient |-> fee, expiry |-> 3 - salt, salt |-> salt,
     order_type |-> "Rfq"]

Sale(salt, units) == SaleAtLeast(salt, units, 4)

Offer(delivery, salt, deadline) ==
    [maker |-> maker, stable |-> usd, max_amount |-> 5,
     delivery |-> delivery, recipient |-> fund, deadline |-> deadline,
     salt |-> salt]

Signed(keys, ids, bids) == [signer : keys, id : ids, bid : bids]

(* A stale vault is the one an issuer's change of payout stable leaves.    *)
MCPaysIn == [v \in {v1, v2} |-> IF v = v1 THEN USD ELSE EUR]
MCCt == [v \in {v1, v2} |-> CT]

Balances(units, money) ==
    [t \in MCTokens |-> [a \in MCAccounts |->
        CASE t = RWA /\ a = taker -> units
          [] t = usd /\ a = maker -> money
          [] OTHER -> 0]]

Settings(tip, delay) ==
    [s \in Slots |->
        CASE s = VaultOf(RWA) -> v1
          [] s = RouteOf(USD) -> usd
          [] s = RouteOf(RWA) -> rwa
          [] s = RouteOf(usd) -> USD
          [] s[1] = "tip" -> tip
          [] s[1] = "delay" -> delay
          [] OTHER -> None]

Xlm(home, away) == [c \in Chains |-> IF c = "home" THEN home ELSE away]

NoChanges == {}
NoDust == {[paid |-> 5, returned |-> 0], [paid |-> 2, returned |-> 1]}
Ask(amount, charge) == [maker_amount |-> amount, fee |-> charge]
OneQuote == {Ask(7, 1)}
DearQuotes == {Ask(7, 4), Ask(8, 7)}

-----------------------------------------------------------------------------
(* lz: a bid that expires at once and a bid that a hot key signed, on two  *)
(* requests, one with dust, while XLM is swept and topped up.              *)
LzRequests == {Sale(1, 2), Sale(2, 3)}
LzBids == {Offer("DELIVER", 1, 0), Offer("CROSS_DELIVER", 2, 1)}
LzSignatures ==
    Signed({ka}, LzRequests, {Offer("DELIVER", 1, 0)})
      \cup Signed({kh}, LzRequests, {Offer("CROSS_DELIVER", 2, 1)})
LzDelegations == {<<maker, kh>>}
LzCancels == {<<maker, 2>>}
LzBalances == Balances(5, 7)
LzSettings == Settings(1, 0)
LzXlm == Xlm(0, 1)

(* cctp: redemptions under a vault that is paused and that governance      *)
(* replaces, relayers with their tip, a taker that refuses its payout for  *)
(* a while, and one that signs a negative minimum, which a fee above the   *)
(* payment then meets.  The maker's money is enough for one request, and   *)
(* the other's FILL fails until it is refilled.                            *)
Cheap == SaleAtLeast(1, 2, 1)
AtALoss == SaleAtLeast(2, 3, 0 - 3)
CctpRequests == {Cheap, AtALoss}
CctpBids == {Offer("REDEEM_CT", 1, 1), Offer("REDEEM_PUSH", 2, 0)}
CctpSignatures ==
    Signed({ka}, {Cheap}, {Offer("REDEEM_PUSH", 2, 0)})
      \cup Signed({ka}, {AtALoss}, {Offer("REDEEM_CT", 1, 1)})
CctpFussy == {<<taker, USD>>, <<v1, CT>>}
VaultChange == {[slot |-> VaultOf(RWA), to |-> v2]}
CctpBalances == Balances(5, 7)
CctpSettings == Settings(1, 0)

(* loss: that request alone.                                               *)
LossRequests == {AtALoss}
=============================================================================
