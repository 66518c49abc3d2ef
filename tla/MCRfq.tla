------------------------------- MODULE MCRfq -------------------------------
(***************************************************************************)
(* Small instances of Rfq.  Prices are whole units (ONE = 1), a discount is *)
(* in tenths (DENOM = 10) and a fee in tenths (BPS = 10), so that every    *)
(* division still rounds.                                                  *)
(***************************************************************************)
EXTENDS Rfq

CONSTANTS m1, m2, alice, relay, rfq, k1, k2, kt, kh, RWA, USD

MCAccounts == {m1, m2, alice, relay, rfq}
MCKeys == {k1, k2, kt, kh}

(* The relayer's own key is the hot key that makers may register.          *)
MCOwnKey == [a \in MCAccounts |->
                CASE a = m1 -> k1 [] a = m2 -> k2 [] a = alice -> kt
                  [] a = relay -> kh [] OTHER -> None]

(* Two bids on one request of the taker's, and a fixed order open to any   *)
(* taker that the relayer submits.  The RWA taxes or over-credits.         *)
BidOne ==
    [maker_token |-> USD, taker_token |-> RWA, taker_amount |-> 4,
     min_received_amount |-> 5, fee_bps |-> 1, taker |-> alice,
     sender |-> None, fee_recipient |-> relay, expiry |-> 1, salt |-> 1,
     taker_max_bps_per_day |-> 2, maker_bps_per_day |-> 1,
     max_maker_amount |-> 10, maker |-> m1]
BidTwo == [BidOne EXCEPT !.maker = m2, !.maker_bps_per_day = 2,
                         !.max_maker_amount = 9]
OpenOrder ==
    [maker_token |-> USD, taker_token |-> RWA, taker_amount |-> 2,
     min_received_amount |-> 3, fee_bps |-> 2, taker |-> None,
     sender |-> relay, fee_recipient |-> alice, expiry |-> 2, salt |-> 2,
     maker_amount |-> 5, maker |-> m1]

FillRfqOrders == {BidOne, BidTwo}
FillFixedOrders == {OpenOrder}

(* m1's orders are signed by the hot key only; the others by own keys.     *)
FillSignatures ==
    {<<kh, BidOne>>, <<k2, BidTwo>>, <<k1, OpenOrder>>, <<kt, Request(BidOne)>>}
FillDelegations == {<<m1, kh>>}

FillBalances ==
    [t \in {RWA, USD} |-> [a \in MCAccounts |->
        CASE t = USD /\ a = m1 -> 14
          [] t = USD /\ a = m2 -> 9
          [] t = RWA /\ a = alice -> 5
          [] t = RWA /\ a = relay -> 2
          [] OTHER -> 0]]

TwoRates == {[rate |-> r, horizon |-> 1, max_bps_per_day |-> 2] : r \in {2, 3}}
FeeConfigs == {[min_fee_bps |-> 0, max_fee_bps |-> f, decay_seconds |-> 0] :
                  f \in {1, 2}}

-----------------------------------------------------------------------------
(* Listings: two tokens listed against each other, one whose fee goes to   *)
(* the contract itself, one that expires, and windows of 0 and 2 seconds.  *)
Listed ==
    [maker_token |-> USD, taker_token |-> RWA, taker_amount |-> 2,
     start_maker_amount |-> 6, min_maker_amount |-> 3, fee_bps |-> 0,
     fee_recipient |-> relay, expiry |-> 0]
MCDutchOrders ==
    {Listed,
     [Listed EXCEPT !.start_maker_amount = 5, !.min_maker_amount = 5,
                    !.fee_bps = 2, !.fee_recipient = rfq, !.expiry = 2],
     [Listed EXCEPT !.maker_token = RWA, !.taker_token = USD,
                    !.start_maker_amount = 1, !.min_maker_amount = 1]}
DutchConfigs == {[min_fee_bps |-> f, max_fee_bps |-> 2, decay_seconds |-> d] :
                    f \in {0, 1}, d \in {0, 2}}
DutchBalances ==
    [t \in {RWA, USD} |-> [a \in MCAccounts |->
        CASE t = USD /\ a = m1 -> 7
          [] t = RWA /\ a = alice -> 5
          [] OTHER -> 0]]
=============================================================================
