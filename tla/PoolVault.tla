----------------------------- MODULE PoolVault -----------------------------
(***************************************************************************)
(* The Octarine vault (contracts/vault): one asset, shares against it, and *)
(* idle funds put to work in venue adapters.                               *)
(*                                                                         *)
(* Each entry point is one action.  A venue is external: between calls its *)
(* position earns or loses and what it can return at once changes; asked   *)
(* for no more than that it returns it, so one that returns short is one   *)
(* that lost first.  The asset may tax a transfer.  A depositor's wallet   *)
(* is unbounded, it deposits and mints for itself, and MaxNav bounds what  *)
(* the vault may hold.  The clock serves the timelock only, so there is    *)
(* none: a pending change may have waited out its delay by any later step. *)
(* The manager's and the host's identity and the upgrade are left out.     *)
(***************************************************************************)
EXTENDS Shares, Sequences, SequencesExt

CONSTANTS
    Holders,     \* the accounts that hold shares
    Curator,     \* the holder that takes the performance fee
    Adapters,    \* the adapters the host may deploy
    Amounts,     \* the amounts of the asset a call names
    Lots,        \* the amounts of shares a call names
    Taxes,       \* what the asset keeps of a transfer to the vault
    InitialFee,  \* the curator's fee at deployment
    Subjects,    \* the holders the compliance rules are applied to
    Fees, Caps,  \* the fees and deposit caps a curator may queue
    MAX_FEE,     \* MAX_CURATOR_FEE_BPS
    MAX_VENUES,  \* 8 in the code
    None,        \* Option::None
    MaxRules,    \* bound on the rules changed after deployment
    MaxNav,      \* bound on what the vault holds
    MaxShares    \* bound on the shares a call mints up to

VARIABLES
    config,      \* Key::Config: fee and deposit cap
    pending,     \* TimelockKey::Pending, by kind
    rules,       \* how many rules were changed, for the bound
    share,       \* the share ledger
    idle,        \* the vault's balance of its asset
    venues,      \* Key::Venues
    pos,         \* each adapter's total_assets
    liquid       \* each adapter's max_withdraw

vars == <<config, pending, rules, share, idle, venues, pos, liquid>>
govVars == <<config, pending, rules>>
venueVars == <<venues, pos, liquid>>

Kinds == {"Fee", "Cap", "Venue"}

ASSUME PoolVaultAssumption ==
    /\ IsFiniteSet(Holders) /\ IsFiniteSet(Adapters)
    /\ Curator \in Holders /\ Subjects \subseteq Holders
    /\ InitialFee \in 0 .. MAX_FEE
    /\ Amounts \subseteq Nat /\ Lots \subseteq Nat /\ Taxes \subseteq Nat
    /\ Fees \subseteq Nat /\ Caps \subseteq Int
    /\ MAX_FEE \in 0 .. BPS /\ MAX_VENUES \in Nat
    /\ MaxRules \in Nat /\ MaxNav \in Nat /\ MaxShares \in Nat

-----------------------------------------------------------------------------
(* What the vault is worth, and what it can pay now                        *)

Gross == idle + SumOver(pos, ToSet(venues))
Liquidity == idle + SumOver(liquid, ToSet(venues))
Snap == Snapshot(share, Gross, config.fee)
Accrued == Accrue(share, Snap, Curator)

MaxWithdraw(owner) ==
    Lesser(ToAssets(Snap, share.bal[owner]), Liquidity)

-----------------------------------------------------------------------------
(* Holders                                                                 *)

Enter(receiver, assets) ==
    /\ assets > 0
    /\ Admitted(share, receiver)
    /\ config.cap > 0 => Gross + assets <= config.cap
    /\ Gross + assets <= MaxNav

(* The assets credited are those that arrived.                             *)
Deposit(receiver, assets, tax) ==
    LET minted == ToShares(Snap, assets - tax)
    IN  /\ Enter(receiver, assets)
        /\ tax <= assets
        /\ 0 < minted /\ Snap.supply + minted <= MaxShares
        /\ share' = Mint(Accrued, receiver, minted)
        /\ idle' = idle + assets - tax
        /\ UNCHANGED <<govVars, venueVars>>

MintShares(receiver, shares) ==
    LET assets == ToAssetsUp(Snap, shares)
    IN  /\ Enter(receiver, assets)
        /\ 0 < shares /\ Snap.supply + shares <= MaxShares
        /\ share' = Mint(Accrued, receiver, shares)
        /\ idle' = idle + assets
        /\ UNCHANGED <<govVars, venueVars>>

(* Venues are drawn on in order for what idle lacks.                       *)
Short(assets, i) ==
    assets - idle - SumOver([j \in DOMAIN venues |-> liquid[venues[j]]], 1 .. i - 1)
DrawnFromFirst(assets, i) ==
    IF i = 1 THEN Floored(Lesser(Short(assets, i), liquid[venues[i]])) ELSE 0
Drawn(assets, i) == Floored(Lesser(Short(assets, i), liquid[venues[i]]))

Takes(assets) ==
    [v \in Adapters |->
        IF v \in ToSet(venues)
        THEN Drawn(assets, CHOOSE i \in DOMAIN venues : venues[i] = v) ELSE 0]
Reached(assets) == idle + SumOver(Takes(assets), Adapters)

CanExit(owner, burned, assets) ==
    /\ burned > 0 /\ assets > 0
    /\ CanDebit(Accrued, owner, burned)
    /\ Reached(assets) >= assets

Exit(owner, burned, assets) ==
    /\ CanExit(owner, burned, assets)
    /\ share' = Burn(Accrued, owner, burned)
    /\ idle' = Reached(assets) - assets
    /\ pos' = [v \in Adapters |-> pos[v] - Takes(assets)[v]]
    /\ liquid' = [v \in Adapters |-> liquid[v] - Takes(assets)[v]]
    /\ UNCHANGED <<govVars, venues>>

Withdraw(owner, assets) == Exit(owner, ToSharesUp(Snap, assets), assets)
Redeem(owner, shares) == Exit(owner, shares, ToAssets(Snap, shares))

AccrueFee ==
    /\ share' = Accrued
    /\ UNCHANGED <<govVars, idle, venueVars>>

TransferShares(from, to, n) ==
    /\ CanMove(share, from, to, n)
    /\ share' = Moved(share, from, to, n)
    /\ UNCHANGED <<govVars, idle, venueVars>>

BurnShares(from, n) ==
    /\ CanDebit(share, from, n)
    /\ share' = Burn(share, from, n)
    /\ UNCHANGED <<govVars, idle, venueVars>>

-----------------------------------------------------------------------------
(* The curator and the manager                                             *)

(* One more rule changed, within the bound.                               *)
Rule == rules < MaxRules /\ rules' = rules + 1

SetAllowlist(on) ==
    /\ Rule
    /\ share' = [share EXCEPT !.allowlist = on]
    /\ UNCHANGED <<config, pending, idle, venueVars>>

SetMember(who, allowed) ==
    /\ Rule
    /\ share' = [share EXCEPT !.member =
                    IF allowed THEN @ \cup {who} ELSE @ \ {who}]
    /\ UNCHANGED <<config, pending, idle, venueVars>>

Freeze(who, on) ==
    /\ Rule
    /\ share' = [share EXCEPT !.frozen =
                    IF on THEN @ \cup {who} ELSE @ \ {who}]
    /\ UNCHANGED <<config, pending, idle, venueVars>>

Seize(from, to, n) ==
    /\ CanSeize(share, from, n)
    /\ share' = Moved(share, from, to, n)
    /\ UNCHANGED <<govVars, idle, venueVars>>

Allocate(v, n) ==
    /\ v \in ToSet(venues)
    /\ 0 < n /\ n <= idle
    /\ share' = Accrued
    /\ idle' = idle - n
    /\ pos' = [pos EXCEPT ![v] = @ + n]
    /\ liquid' = [liquid EXCEPT ![v] = @ + n]
    /\ UNCHANGED <<govVars, venues>>

Deallocate(v, n) ==
    /\ v \in ToSet(venues)
    /\ n <= liquid[v]
    /\ share' = Accrued
    /\ idle' = idle + n
    /\ pos' = [pos EXCEPT ![v] = @ - n]
    /\ liquid' = [liquid EXCEPT ![v] = @ - n]
    /\ UNCHANGED <<govVars, venues>>

DisableHeldVenue(v) ==
    /\ \E i \in DOMAIN venues : venues[i] = v /\ venues' = RemoveAt(venues, i)
    /\ UNCHANGED <<govVars, share, idle, pos, liquid>>
DisableVenue(v) ==
    /\ pos[v] = 0
    /\ \E i \in DOMAIN venues : venues[i] = v /\ venues' = RemoveAt(venues, i)
    /\ UNCHANGED <<govVars, share, idle, pos, liquid>>

(* An order names exactly the current venues.                              *)
SetVenueOrder(order) ==
    /\ \A i \in DOMAIN order : order[i] \in ToSet(venues)
    /\ IsInjective(order)
    /\ Len(order) = Len(venues)
    /\ venues' = order
    /\ UNCHANGED <<govVars, share, idle, pos, liquid>>

Proposals(kind) ==
    CASE kind = "Fee" -> Fees
      [] kind = "Cap" -> Caps
      [] kind = "Venue" -> Adapters

Submit(kind, to) ==
    /\ kind = "Fee" => to <= MAX_FEE
    /\ IF kind = "Venue" THEN UNCHANGED rules ELSE Rule
    /\ pending' = [pending EXCEPT ![kind] = to]
    /\ UNCHANGED <<config, share, idle, venueVars>>

Revoke(kind) ==
    /\ pending[kind] # None
    /\ pending' = [pending EXCEPT ![kind] = None]
    /\ UNCHANGED <<config, rules, share, idle, venueVars>>

Take(kind) ==
    /\ pending[kind] # None
    /\ pending' = [pending EXCEPT ![kind] = None]

(* What was earned so far is charged at the old fee.                       *)
AcceptFeeAtOnce ==
    /\ Take("Fee")
    /\ config' = [config EXCEPT !.fee = pending["Fee"]]
    /\ UNCHANGED <<rules, share, idle, venueVars>>
AcceptFee ==
    /\ Take("Fee")
    /\ share' = Accrued
    /\ config' = [config EXCEPT !.fee = pending["Fee"]]
    /\ UNCHANGED <<rules, idle, venueVars>>

AcceptCap ==
    /\ Take("Cap")
    /\ pending["Cap"] >= 0
    /\ config' = [config EXCEPT !.cap = pending["Cap"]]
    /\ UNCHANGED <<rules, share, idle, venueVars>>

(* The host deploys a new adapter each time; a dropped one does not return *)
(* with a position.                                                        *)
AcceptVenue ==
    LET v == pending["Venue"]
    IN  /\ Take("Venue")
        /\ Len(venues) < MAX_VENUES
        /\ v \notin ToSet(venues)
        /\ venues' = Append(venues, v)
        /\ UNCHANGED <<config, rules, share, idle, pos, liquid>>

-----------------------------------------------------------------------------
(* Venues and donations                                                    *)

VenueMoves(v, p, l) ==
    /\ v \in ToSet(venues)
    /\ pos[v] - 1 <= p /\ p <= pos[v] + 1 /\ l <= p
    /\ Gross - pos[v] + p <= MaxNav
    /\ pos[v] = 0 => p = 0
    /\ pos' = [pos EXCEPT ![v] = p]
    /\ liquid' = [liquid EXCEPT ![v] = l]
    /\ UNCHANGED <<govVars, share, idle, venues>>

Donate(n) ==
    /\ Gross + n <= MaxNav
    /\ idle' = idle + n
    /\ UNCHANGED <<govVars, share, venueVars>>

Init ==
    /\ config = [fee |-> InitialFee, cap |-> 0]
    /\ pending = [k \in Kinds |-> None]
    /\ rules = 0
    /\ share = EmptyLedger(Holders)
    /\ idle = 0
    /\ venues = << >>
    /\ pos = [v \in Adapters |-> 0]
    /\ liquid = [v \in Adapters |-> 0]

HolderStep ==
    \/ \E h \in Holders, n \in Amounts :
          \/ \E tax \in Taxes : Deposit(h, n, tax)
          \/ Withdraw(h, n)
    \/ \E h \in Holders, n \in Lots :
          \/ MintShares(h, n)
          \/ \E to \in Holders : TransferShares(h, to, n)
          \/ Redeem(h, n)
          \/ BurnShares(h, n)
    \/ AccrueFee

ManagerStep ==
    \/ \E on \in BOOLEAN :
          SetAllowlist(on) \/ \E h \in Subjects : SetMember(h, on) \/ Freeze(h, on)
    \/ \E from, to \in Holders, n \in Lots : Seize(from, to, n)
    \/ \E v \in Adapters, n \in Amounts : Allocate(v, n) \/ Deallocate(v, n)
    \/ \E v \in Adapters : DisableVenue(v)
    \/ \E order \in BoundedSeq(Adapters, MAX_VENUES) : SetVenueOrder(order)
    \/ \E k \in Kinds :
          (\E to \in Proposals(k) : Submit(k, to)) \/ Revoke(k)
    \/ AcceptFee \/ AcceptCap \/ AcceptVenue

World ==
    \/ \E v \in Adapters, p \in 0 .. MaxNav : \E l \in {0, p} : VenueMoves(v, p, l)
    \/ Donate(1)

Next == HolderStep \/ ManagerStep \/ World

Spec == Init /\ [][Next]_vars

-----------------------------------------------------------------------------
(* Properties                                                              *)

(* No balance goes negative, and a venue never owes more than it holds.    *)
TypeOK ==
    /\ config \in [fee : 0 .. MAX_FEE, cap : Nat]
    /\ DOMAIN pending = Kinds
    /\ rules \in 0 .. MaxRules
    /\ share \in Ledgers(Holders)
    /\ idle \in Nat
    /\ venues \in Seq(Adapters) /\ IsInjective(venues)
    /\ pos \in [Adapters -> Nat] /\ liquid \in [Adapters -> Nat]
    /\ \A v \in Adapters : liquid[v] <= pos[v]

(* What holders see as the price of a share, the fee due taken off.        *)
Price == SharePrice(Gross, Snap.supply)

(* Every share is somebody's, and no position is left outside what the     *)
(* shares are worth: `disable_venue` orphans none.                         *)
SharesAccountedFor ==
    /\ TypeOK
    /\ share.supply = SumOver(share.bal, Holders)
    /\ Gross = idle + SumOver(pos, Adapters)

(* No call of the vault costs the holders anything: deposits, exits and    *)
(* allocations of others, roundings, a taxed asset, accruals and a change  *)
(* of the fee leave the price of a share where it was or higher.  Only a   *)
(* venue's loss lowers it, and a burn or a gain may make a fee due.        *)
PriceNeverFalls ==
    [][World \/ (\E h \in Holders, n \in Lots : BurnShares(h, n))
          \/ Price' >= Price]_vars

(* The mark never comes down, so no gain is charged for twice.             *)
MarkNeverFalls == [][share'.hwm >= share.hwm]_vars

(* What max_withdraw promises a holder who is not frozen can be withdrawn  *)
(* at once: no allowlist, cap or order of the venues stands in the way.    *)
MaxWithdrawHonest ==
    \A h \in Holders \ share.frozen :
        LET m == MaxWithdraw(h) IN m > 0 => CanExit(h, ToSharesUp(Snap, m), m)
=============================================================================
