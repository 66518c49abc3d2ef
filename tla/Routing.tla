------------------------------ MODULE Routing -------------------------------
(***************************************************************************)
(* The RFQ router (contracts/router) composed with its sources: the        *)
(* settlement contract, the DEX aggregator and the facility aggregator     *)
(* (contracts/aggregators/facility).                                       *)
(*                                                                         *)
(* A route is one transaction of several legs: it goes over them on the    *)
(* books of DexAggregator and has no effect when any of them reverts.  The *)
(* settlement contract and the facilities are external here (Rfq and       *)
(* Facility model them): a leg carries what they take, at most what they   *)
(* were granted, and what they pay.  The admin registers each aggregator   *)
(* under its own kind.  Anyone may also send tokens to a contract, or name *)
(* one as the recipient of a swap: `gifts` counts those, for the           *)
(* properties.  The payer that a facility leg names has signed the         *)
(* transaction: here it is the taker.  The deployment of vaults,           *)
(* facilities and adapters by the facility aggregator is left out, and its *)
(* fee recipient is fixed.                                                 *)
(***************************************************************************)
EXTENDS DexAggregator

CONSTANTS
    Base,          \* the facilities' base asset
    Facilities,    \* the facilities an admin may activate
    InitialFee, AggregatorFees, \* the facility aggregator's fee_bps, first and later
    MAX_FEE, MAX_ACTIVE, \* MAX_FEE_BPS and the bound on active facilities
    Protocol,      \* the facility aggregator's fee recipient
    Amounts,       \* the amounts a direct swap names
    Payees,        \* whom a direct swap may pay
    Partners,      \* the partners of a direct swap, None included
    SplitRoutes, CallRoutes, \* the routes a swap may name
    Legs,          \* the legs a route may have
    MaxLegs,       \* bound on the legs of a route
    MaxChanges     \* bound on the admins' changes and the transfers

VARIABLES
    sources,       \* DataKey::Sources: the aggregators registered
    router_paused, \* DataKey::Paused of the router
    agg,           \* Key::Active, Key::Fee and Key::Paused of the facility aggregator
    gifts,         \* tokens sent to a contract, or paid to one that a swap names
    changes        \* the admins' changes and the transfers so far

bookVars == <<bal, owed, total, approved>>
adminVars == <<fees, dex, sources, router_paused, agg, changes>>
vars == <<bookVars, adminVars, gifts>>

(* What a leg of each kind carries.                                        *)
RfqLegs == [kind : {"Rfq"}, named : BOOLEAN, amount : Int, takes : Int, pays : Int]
DexLegs ==
    [kind : {"Dex"}, amount : Int, min : Int,
     data : [kind : {"Splits"}, route : Seq(Splits)]
            \cup [kind : {"Calls"}, route : Seq(Calls)]]
FacilityLegs ==
    [kind : {"Facility"}, amount : Int, min : Int,
     data : [facility : Facilities, pays : Int]]

ASSUME RoutingAssumption ==
    /\ Base \in Tokens /\ Protocol \in Recipients \ Contracts /\ MAX_FEE \in 0 .. BPS
    /\ MAX_ACTIVE \in Nat /\ AggregatorFees \subseteq Nat /\ InitialFee \in Nat
    /\ Amounts \subseteq Int
    /\ Payees \subseteq Accounts /\ \A p \in Partners : p = None \/ p \in PartnerTerms
    /\ \A r \in SplitRoutes : r \in Seq(Splits)
    /\ \A r \in CallRoutes : r \in Seq(Calls)
    /\ \A leg \in Legs : leg \in RfqLegs \cup DexLegs \cup FacilityLegs
    /\ MaxLegs \in Nat /\ MaxChanges \in Nat

(* The effect of a call: its books, if nothing reverted.                   *)
Commit(w) ==
    /\ w.ok
    /\ bal' = w.bal /\ owed' = w.owed /\ total' = w.total /\ approved' = w.approved
    /\ UNCHANGED adminVars

(* n of token t goes to someone who may be a contract.                     *)
Given(to, t, n) == gifts' = IF to \in Contracts THEN Add(gifts, to, t, n) ELSE gifts

-----------------------------------------------------------------------------
(* The facility aggregator                                                 *)

FeeOn(n) == MulDiv(n, agg.fee, BPS)

(* A facility pulls the input from the payer and pays the recipient.       *)
FacilityTrade(w, payer, to, tin, tout, n, min, pays) ==
    LET priced == Require(w, n > 0 /\ pays > 0 /\ pays >= min)
    IN  Send(Send(priced, tin, payer, MARKET, n), tout, MARKET, to, pays)

Payout(tout, pays) == IF tout = Base THEN pays - FeeOn(pays) ELSE pays

(* The fee is in the base asset: off the output of a sale, off the input   *)
(* of a purchase, none between two RWAs.                                   *)
FacilityExecute(w, payer, to, tin, tout, n, min, x) ==
    LET open == Require(w, ~agg.paused /\ x.facility \in agg.active)
        traded ==
            IF tout = Base
            THEN LET got == FacilityTrade(open, payer, FACILITIES, tin, tout, n, min, x.pays)
                     taxed == Send(got, Base, FACILITIES, Protocol, FeeOn(x.pays))
                 IN  Send(taxed, Base, FACILITIES, to, Payout(tout, x.pays))
            ELSE IF tin = Base
            THEN FacilityTrade(Send(open, Base, payer, Protocol, FeeOn(n)), payer, to,
                               tin, tout, n - FeeOn(n), min, x.pays)
            ELSE FacilityTrade(open, payer, to, tin, tout, n, min, x.pays)
    IN  Require(traded, Payout(tout, x.pays) >= min)

-----------------------------------------------------------------------------
(* The router                                                              *)

(* A signed bid that names its taker is pulled from and paid to the taker  *)
(* by the settlement contract; an open one makes the router the taker.     *)
Routed(leg) == leg.kind = "Dex" \/ (leg.kind = "Rfq" /\ ~leg.named)

ValidLeg(leg) ==
    /\ leg.amount > 0
    /\ leg.kind = "Dex" => DEX \in sources /\ leg.min > 0
    /\ leg.kind = "Facility" => FACILITIES \in sources /\ leg.min > 0

Declared(route) == SumOf([i \in DOMAIN route |-> route[i].amount])
ToPull(route) ==
    SumOf([i \in DOMAIN route |-> IF Routed(route[i]) THEN route[i].amount ELSE 0])

(* The settlement contract takes at most what the router approved.         *)
Submit(w, taker, tin, tout, leg) ==
    LET party == IF leg.named THEN taker ELSE ROUTER
        pulled == Send(Require(w, leg.takes <= leg.amount), tin, party, MARKET, leg.takes)
    IN  Send(pulled, tout, MARKET, party, leg.pays)

(* Held to the payout by what the router gained.                           *)
Draw(before, after, tout, leg) ==
    Require(after, Gained(after, before, ROUTER, tout) >= leg.min)

ExecuteLeg(w, taker, tin, tout, leg) ==
    CASE leg.kind = "Rfq" -> Submit(w, taker, tin, tout, leg)
      [] leg.kind = "Dex" ->
            LET sent == Send(w, tin, ROUTER, DEX, leg.amount)
            IN  Draw(sent, DexFill(sent, tin, tout, leg.amount, leg.min, leg.data),
                     tout, leg)
      [] leg.kind = "Facility" ->
            Draw(w, FacilityExecute(w, taker, ROUTER, tin, tout, leg.amount, leg.min,
                                    leg.data), tout, leg)

(* What the router gained goes to the taker; what it held before stays.    *)
ForwardAll(w, opening, t, to) == Send(w, t, ROUTER, to, w.bal[ROUTER][t])
Forward(w, opening, t, to) ==
    LET gained == Gained(w, opening, ROUTER, t)
    IN  IF gained > 0 THEN Send(w, t, ROUTER, to, gained) ELSE w

CheckRequest(tin, tout, route, min) ==
    /\ ~router_paused /\ route # << >> /\ min > 0 /\ tin # tout
    /\ \A i \in DOMAIN route : ValidLeg(route[i])

(* Every leg in turn.                                                      *)
ExecuteRoute(start, taker, tin, tout, route) ==
    LET w[i \in 0 .. Len(route)] ==
            IF i = 0 THEN start
            ELSE ExecuteLeg(w[i - 1], taker, tin, tout, route[i])
    IN  w[Len(route)]

FillBooks(taker, tin, tout, route, min) ==
    LET opening == Books
        pulled == IF ToPull(route) > 0
                  THEN Send(opening, tin, taker, ROUTER, ToPull(route)) ELSE opening
        legs == ExecuteRoute(pulled, taker, tin, tout, route)
        home == Forward(Forward(legs, opening, tout, taker), opening, tin, taker)
    IN  Require(home, /\ Gained(home, opening, taker, tout) >= min
                      /\ -Gained(home, opening, taker, tin) <= Declared(route))

-----------------------------------------------------------------------------
(* Actions                                                                 *)

Fill(taker, tin, tout, route, min) ==
    /\ CheckRequest(tin, tout, route, min)
    /\ Commit(FillBooks(taker, tin, tout, route, min))
    /\ UNCHANGED gifts

(* A direct swap is settled to `desc.to`, who may be anyone.               *)
SwapSettles(x, t, partner, min, to) ==
    /\ Commit(Settle(x, t, partner, min, to))
    /\ Given(to, t, AmountOut(x.gross, partner))

Swap(user, to, tin, tout, n, min, route, partner) ==
    /\ ~dex.paused /\ Validate(tin, tout, n, route)
    /\ SwapSettles(SwapFilled(user, tin, n, route), tout, partner, min, to)

SwapCalls(user, to, tin, tout, n, min, calls, partner) ==
    /\ ~dex.paused /\ tin # tout /\ n > 0 /\ calls # << >>
    /\ SwapSettles(SwapCallsFilled(user, tin, tout, n, calls), tout, partner, min, to)

Claim(who, t) == Commit(ClaimBooks(who, t)) /\ UNCHANGED gifts

FacilitySwap(payer, recipient, tin, tout, n, min, x) ==
    /\ Commit(FacilityExecute(Books, payer, recipient, tin, tout, n, min, x))
    /\ Given(recipient, tout, Payout(tout, x.pays))

Change == changes < MaxChanges /\ changes' = changes + 1

RegisterSource(source, allowed) ==
    /\ Change
    /\ sources' = IF allowed THEN sources \cup {source} ELSE sources \ {source}
    /\ UNCHANGED <<bookVars, gifts, fees, dex, router_paused, agg>>

SetRouterPaused(on) ==
    /\ Change
    /\ router_paused' = on
    /\ UNCHANGED <<bookVars, gifts, fees, dex, sources, agg>>

AllowVenue(v, allowed) ==
    /\ Change
    /\ allowed /\ v \notin dex.venues => Cardinality(dex.venues) < MAX_VENUES
    /\ dex' = [dex EXCEPT !.venues = IF allowed THEN @ \cup {v} ELSE @ \ {v}]
    /\ UNCHANGED <<bookVars, gifts, fees, sources, router_paused, agg>>

AllowTarget(v, allowed) ==
    /\ Change
    /\ allowed /\ v \notin dex.targets => Cardinality(dex.targets) < MAX_VENUES
    /\ dex' = [dex EXCEPT !.targets = IF allowed THEN @ \cup {v} ELSE @ \ {v}]
    /\ UNCHANGED <<bookVars, gifts, fees, sources, router_paused, agg>>

SetFees(f) ==
    /\ Change
    /\ f.protocol <= MAX_PROTOCOL_FEE /\ f.max_partner <= MAX_PARTNER_FEE
    /\ f.share <= BPS
    /\ fees' = f
    /\ UNCHANGED <<bookVars, gifts, dex, sources, router_paused, agg>>

SetDexPaused(on) ==
    /\ Change
    /\ dex' = [dex EXCEPT !.paused = on]
    /\ UNCHANGED <<bookVars, gifts, fees, sources, router_paused, agg>>

SetActive(f, active) ==
    /\ Change
    /\ active /\ f \notin agg.active => Cardinality(agg.active) < MAX_ACTIVE
    /\ agg' = [agg EXCEPT !.active = IF active THEN @ \cup {f} ELSE @ \ {f}]
    /\ UNCHANGED <<bookVars, gifts, fees, dex, sources, router_paused>>

SetFee(bps) ==
    /\ Change
    /\ bps <= MAX_FEE
    /\ agg' = [agg EXCEPT !.fee = bps]
    /\ UNCHANGED <<bookVars, gifts, fees, dex, sources, router_paused>>

SetAggPaused(on) ==
    /\ Change
    /\ agg' = [agg EXCEPT !.paused = on]
    /\ UNCHANGED <<bookVars, gifts, fees, dex, sources, router_paused>>

(* Outside any call, a user sends a token to a contract by mistake, or     *)
(* whoever a call has had approved moves what the DEX aggregator holds.    *)
Transfer(from, to, t) ==
    /\ Change
    /\ IF from = DEX THEN t \in approved ELSE to \in Contracts
    /\ bal[from][t] > 0
    /\ bal' = Send(Books, t, from, to, 1).bal
    /\ Given(to, t, 1)
    /\ UNCHANGED <<owed, total, approved, fees, dex, sources, router_paused, agg>>

Init ==
    /\ bal = [a \in Accounts |-> IF a \in DOMAIN InitialBalances
                                 THEN InitialBalances[a] ELSE [t \in Tokens |-> 0]]
    /\ owed = [r \in Recipients |-> [t \in Tokens |-> 0]]
    /\ total = [t \in Tokens |-> 0] /\ approved = {}
    /\ fees = InitialFees
    /\ dex = [paused |-> FALSE, venues |-> Venues, targets |-> Targets]
    /\ sources = {DEX, FACILITIES}
    /\ router_paused = FALSE
    /\ agg = [active |-> Facilities, fee |-> InitialFee, paused |-> FALSE]
    /\ gifts = [c \in Contracts |-> [t \in Tokens |-> 0]]
    /\ changes = 0

(* Callers ask for nothing back, or one: what else they may ask for only   *)
(* refuses more.                                                           *)
Trade ==
    \E u \in Users, tin, tout \in Tokens :
        \/ \E route \in SeqOf(Legs, MaxLegs) : Fill(u, tin, tout, route, 1)
        \/ \E to \in Payees, n \in Amounts, p \in Partners :
              \/ \E route \in SplitRoutes : Swap(u, to, tin, tout, n, 0, route, p)
              \/ \E calls \in CallRoutes : SwapCalls(u, to, tin, tout, n, 0, calls, p)
        \/ \E to \in Payees, n, pays \in Amounts, f \in Facilities :
              FacilitySwap(u, to, tin, tout, n, 1, [facility |-> f, pays |-> pays])

AdminStep ==
    \E on \in BOOLEAN :
        \/ \E s \in {DEX, FACILITIES} : RegisterSource(s, on)
        \/ \E v \in Venues : AllowVenue(v, on)
        \/ \E v \in Targets : AllowTarget(v, on)
        \/ \E f \in Facilities : SetActive(f, on)
        \/ SetRouterPaused(on) \/ SetDexPaused(on) \/ SetAggPaused(on)

(* A recipient authorises its claim, which none of the contracts does.     *)
Next ==
    \/ Trade
    \/ \E r \in Recipients \ Contracts, t \in Tokens : Claim(r, t)
    \/ AdminStep
    \/ \E f \in FeeConfigs : SetFees(f)
    \/ \E bps \in AggregatorFees : SetFee(bps)
    \/ \E from \in Users \cup {DEX}, to \in Contracts \cup {MARKET}, t \in Tokens :
          Transfer(from, to, t)

Spec == Init /\ [][Next]_vars

-----------------------------------------------------------------------------
(* Properties                                                              *)

(* A token an admin may allow calls on, where a swap may name two others:  *)
(* the aggregator refuses calls on the tokens of the swap only.            *)
Exposed == {t \in Tokens \cap Targets : \E a, b \in Tokens \ {t} : a # b}

(* The DEX aggregator's balance of a token never falls below the fees it   *)
(* owes in it, whatever routes, partners and fee changes there were, and   *)
(* what it owes is what each recipient can claim: a claim, which no pause  *)
(* stops, is always paid.  A token that is exposed to calls is left out.   *)
OwedCovered ==
    \A t \in Tokens :
        /\ t \notin Exposed => bal[DEX][t] >= total[t]
        /\ total[t] = SumOver([r \in Recipients |-> owed[r][t]], Recipients)

(* Nothing of a trade stays behind: between calls the router and the       *)
(* facility aggregator hold what they were sent, or paid as the recipient  *)
(* a swap named, and no more or less, and the DEX aggregator that and the  *)
(* fees it owes.  A leg that takes less than it was sent is refunded, and  *)
(* no trade is paid out of what a contract was given before it.            *)
NothingLeftBehind ==
    \A c \in Contracts, t \in Tokens :
        c # DEX \/ t \notin Exposed =>
            bal[c][t] = gifts[c][t] + (IF c = DEX THEN total[t] ELSE 0)
=============================================================================
