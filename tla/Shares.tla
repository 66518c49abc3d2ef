------------------------------- MODULE Shares -------------------------------
(***************************************************************************)
(* The share ledger of a vault and of a facility (crates/shares).          *)
(*                                                                         *)
(* A ledger t is a record of the balances, the supply, the high-water mark *)
(* and the compliance flags; an operator returns the ledger after a call,  *)
(* and a predicate Can... says when the call does not revert.  VIRTUAL     *)
(* shares back every conversion, and a performance fee that is due is      *)
(* counted as minted before it is.  A holder acts for itself: allowances   *)
(* are left out.                                                           *)
(***************************************************************************)
EXTENDS CommonMath, Sums

CONSTANTS
    VIRTUAL,  \* 10^6 in the code
    ONE,      \* the scale of a share price
    BPS       \* the scale of a fee

ASSUME SharesAssumption ==
    VIRTUAL \in Nat \ {0} /\ ONE \in Nat \ {0} /\ BPS \in Nat \ {0}

(* The smaller of two amounts, and an amount or nothing if it is negative. *)
Lesser(m, n) == IF m <= n THEN m ELSE n
Floored(n) == IF n > 0 THEN n ELSE 0

SharePrice(nav, supply) == MulDiv(nav + 1, ONE, supply + VIRTUAL)

EmptyLedger(holders) ==
    [bal |-> [h \in holders |-> 0], supply |-> 0, hwm |-> SharePrice(0, 0),
     allowlist |-> FALSE, member |-> {}, frozen |-> {}]

-----------------------------------------------------------------------------
(* Prices and fees                                                         *)

(* The shares to mint for the gain above the mark.                         *)
FeeShares(t, nav, fee_bps) ==
    LET price == SharePrice(nav, t.supply)
        gain == MulDiv(price - t.hwm, t.supply + VIRTUAL, ONE)
        fee == MulDiv(gain, fee_bps, BPS)
    IN  IF price > t.hwm /\ t.supply > 0 /\ fee > 0 /\ fee <= nav
        THEN MulDiv(fee, t.supply + VIRTUAL, nav + 1 - fee)
        ELSE 0

MarkAlways(t, nav, minted) == SharePrice(nav, t.supply + minted)
Mark(t, nav, minted) ==
    IF SharePrice(nav, t.supply) > t.hwm
    THEN SharePrice(nav, t.supply + minted) ELSE t.hwm

Snapshot(t, nav, fee_bps) ==
    LET minted == FeeShares(t, nav, fee_bps)
    IN  [nav |-> nav, supply |-> t.supply + minted, fee_shares |-> minted,
         hwm |-> Mark(t, nav, minted)]

(* A snapshot reverts on a negative price, and a conversion to shares on   *)
(* an empty divisor.                                                       *)
CanPrice(nav) == nav + 1 >= 0
CanConvert(s) == s.nav + 1 > 0

ToShares(s, assets) == MulDiv(assets, s.supply + VIRTUAL, s.nav + 1)
ToSharesUp(s, assets) == MulDivCeil(assets, s.supply + VIRTUAL, s.nav + 1)
ToAssets(s, shares) == MulDiv(shares, s.nav + 1, s.supply + VIRTUAL)
ToAssetsUp(s, shares) == MulDivCeil(shares, s.nav + 1, s.supply + VIRTUAL)

-----------------------------------------------------------------------------
(* The ledger                                                              *)

Mint(t, to, n) == [t EXCEPT !.bal[to] = @ + n, !.supply = @ + n]

Accrue(t, s, curator) ==
    [Mint(t, curator, s.fee_shares) EXCEPT !.hwm = s.hwm]

Admitted(t, who) == t.allowlist => who \in t.member

CanDebit(t, from, n) == n >= 0 /\ from \notin t.frozen /\ t.bal[from] >= n
Burn(t, from, n) == [t EXCEPT !.bal[from] = @ - n, !.supply = @ - n]

CanMove(t, from, to, n) ==
    Admitted(t, to) /\ to \notin t.frozen /\ CanDebit(t, from, n)
Moved(t, from, to, n) ==
    LET debited == [t EXCEPT !.bal[from] = @ - n]
    IN  [debited EXCEPT !.bal[to] = @ + n]

CanSeize(t, from, n) == n > 0 /\ t.bal[from] >= n

Ledgers(holders) ==
    [bal : [holders -> Nat], supply : Nat, hwm : Nat, allowlist : BOOLEAN,
     member : SUBSET holders, frozen : SUBSET holders]
=============================================================================
