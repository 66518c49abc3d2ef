--------------------------- MODULE DexAggregator ----------------------------
(***************************************************************************)
(* The DEX aggregator (contracts/aggregators/dex): swaps along routes      *)
(* computed off-chain, through allowlisted venue adapters or as calldata   *)
(* against allowlisted routers, and the fees it accrues on the way.        *)
(*                                                                         *)
(* A call goes over its route, hop by hop.  w is what it has done so far:  *)
(* the balances, the fees owed, and w.ok, which is FALSE once anything has *)
(* reverted; then the call has no effect at all.  Everything outside the   *)
(* contracts (venues, routers, makers, the facilities) is MARKET, and a    *)
(* route carries what MARKET takes and pays along it.  Tokens move exactly *)
(* what they are told, so the shortfall checks only see an input that was  *)
(* not sent.  An admin may allow a token contract as a call's target: the  *)
(* token then obeys the aggregator, and whoever the call has it approve    *)
(* may take the token at any later time.                                   *)
(***************************************************************************)
EXTENDS CommonMath, Sums, Sequences, SequencesExt

CONSTANTS
    Tokens,
    Users,         \* who swaps
    ROUTER, DEX, FACILITIES, \* the router and the two aggregators
    MARKET,        \* everything they trade with
    Recipients,    \* who fees are owed to: the protocol's recipients, partners
    Venues,        \* the adapters an admin may allow
    Targets,       \* what an admin may allow calls on: routers, even tokens
    FeeConfigs,    \* the fees an admin may set
    InitialFees,
    BPS,           \* the scale of a fee
    MAX_PROTOCOL_FEE, MAX_PARTNER_FEE, MAX_VENUES, MAX_SPLITS, MAX_HOPS,
    None,          \* Option::None
    InitialBalances \* [users and MARKET -> [Tokens -> Nat]]

VARIABLES
    bal,           \* balances, by account and token
    owed, total,   \* Key::Owed, Key::TotalOwed
    approved,      \* the tokens of which calls have had the aggregator approve others
    fees,          \* Key::Fees
    dex            \* Key::Paused, Key::Venues, Key::Targets

Contracts == {ROUTER, DEX, FACILITIES}
Accounts == Users \cup Recipients \cup {MARKET} \cup Contracts

(* What a fee config, a partner, a hop, a split and a call name.           *)
FeeTerms == [protocol : Nat, max_partner : Nat, share : Nat, recipient : Recipients]
PartnerTerms == [who : Recipients, bps : Nat]
Hops == [venue : Venues, out : Tokens, pays : Int]
Splits == [amount : Int, hops : Seq(Hops)]
Calls == [target : Targets, spends : Int, takes : Int, pays : Int]

ASSUME DexAssumption ==
    /\ ROUTER # DEX /\ ROUTER # FACILITIES /\ DEX # FACILITIES
    /\ Contracts \cap (Users \cup {MARKET}) = {} /\ IsFiniteSet(Recipients)
    /\ BPS \in Nat \ {0} /\ MAX_PROTOCOL_FEE + MAX_PARTNER_FEE <= BPS
    /\ MAX_VENUES \in Nat /\ MAX_SPLITS \in Nat /\ MAX_HOPS \in Nat
    /\ FeeConfigs \subseteq FeeTerms /\ InitialFees \in FeeTerms
    /\ InitialBalances \in [Users \cup {MARKET} -> [Tokens -> Nat]]

-----------------------------------------------------------------------------
(* The books a call works on                                               *)

Books == [bal |-> bal, owed |-> owed, total |-> total, approved |-> approved, ok |-> TRUE]

Require(w, p) == [w EXCEPT !.ok = @ /\ p]

(* n more of token t to account a.                                         *)
Add(table, a, t, n) == [table EXCEPT ![a][t] = table[a][t] + n]

Send(w, t, from, to, n) ==
    IF ~w.ok \/ n < 0 \/ w.bal[from][t] < n THEN [w EXCEPT !.ok = FALSE]
    ELSE [w EXCEPT !.bal = Add(Add(w.bal, from, t, -n), to, t, n)]

Gained(w, before, who, t) == w.bal[who][t] - before.bal[who][t]

FreeBalance(w, t) == w.bal[DEX][t] - w.total[t]

-----------------------------------------------------------------------------
(* Routes                                                                  *)

SumOf(seq) == SumOver(seq, DOMAIN seq)

ValidSplit(tout, split) ==
    /\ split.amount > 0
    /\ 0 < Len(split.hops) /\ Len(split.hops) <= MAX_HOPS
    /\ Last(split.hops).out = tout
    /\ \A i \in DOMAIN split.hops : split.hops[i].venue \in dex.venues

Validate(tin, tout, n, route) ==
    /\ tin # tout /\ n > 0
    /\ 0 < Len(route) /\ Len(route) <= MAX_SPLITS
    /\ \A i \in DOMAIN route : ValidSplit(tout, route[i])
    /\ SumOf([i \in DOMAIN route |-> route[i].amount]) = n

(* One hop: what arrives is measured at the aggregator, after it has paid. *)
Hop(x, hop) ==
    LET sent == Send(x.w, x.tok, DEX, MARKET, x.amount)
        got == Send(sent, hop.out, MARKET, DEX, hop.pays)
    IN  [w |-> got, tok |-> hop.out, amount |-> Gained(got, sent, DEX, hop.out)]

(* A split, hop by hop.                                                    *)
Follow(w, tin, split) ==
    LET x[i \in 0 .. Len(split.hops)] ==
            IF i = 0 THEN [w |-> w, tok |-> tin, amount |-> split.amount]
            ELSE Hop(x[i - 1], split.hops[i])
    IN  x[Len(split.hops)]

OneSplit(y, tin, split) ==
    LET x == Follow(y.w, tin, split)
    IN  [w |-> x.w, gross |-> y.gross + x.amount]

(* Every split in turn, and the total delivered.                           *)
Execute(w, tin, route) ==
    LET y[i \in 0 .. Len(route)] ==
            IF i = 0 THEN [w |-> w, gross |-> 0]
            ELSE OneSplit(y[i - 1], tin, route[i])
    IN  y[Len(route)]

(* Calldata: a router takes no more of the input than the transfers that   *)
(* the call authorises, which come out of one budget.  A token needs none: *)
(* it moves what it is told, and approves others, for the aggregator that  *)
(* calls it.                                                               *)
RunCall(x, tin, tout, call, allowed) ==
    LET budget == x.budget - call.spends
        onToken == call.target \in Tokens
        ready == Require(x.w, /\ allowed /\ budget >= 0
                              /\ ~onToken => call.takes <= call.spends)
        taken == Send(ready, IF onToken THEN call.target ELSE tin, DEX, MARKET, call.takes)
        left == [taken EXCEPT !.approved = IF onToken THEN @ \cup {call.target} ELSE @]
    IN  [w |-> Send(left, tout, MARKET, DEX, call.pays), budget |-> budget]

(* The two tokens of the swap are refused as targets, whoever allows them. *)
OneCallAnyTarget(x, tin, tout, call) ==
    RunCall(x, tin, tout, call, call.target \in dex.targets)
OneCall(x, tin, tout, call) ==
    RunCall(x, tin, tout, call, call.target \in dex.targets \ {tin, tout})

Called(w, tin, tout, n, calls) ==
    LET x[i \in 0 .. Len(calls)] ==
            IF i = 0 THEN [w |-> w, budget |-> n]
            ELSE OneCall(x[i - 1], tin, tout, calls[i])
    IN  x[Len(calls)]

ExecuteCalls(w, tin, tout, n, calls, refund) ==
    LET after == Called(w, tin, tout, n, calls).w
        spent == -Gained(after, w, DEX, tin)
        kept == Require(after, spent <= n)
    IN  [w |-> IF spent < n THEN Send(kept, tin, DEX, refund, n - spent) ELSE kept,
         gross |-> Gained(after, w, DEX, tout)]

-----------------------------------------------------------------------------
(* Fees                                                                    *)

Bps(n, bps) == MulDiv(n, bps, BPS)
ProtocolFee(gross) == Bps(gross, fees.protocol)
PartnerFee(gross, partner) == IF partner = None THEN 0 ELSE Bps(gross, partner.bps)
AmountOut(gross, partner) == gross - ProtocolFee(gross) - PartnerFee(gross, partner)

Credit(w, who, t, n) ==
    [w EXCEPT !.owed = Add(w.owed, who, t, n),
              !.total = [w.total EXCEPT ![t] = w.total[t] + n]]

(* The protocol takes its cut of a partner's fee.                          *)
AccrueFees(w, t, protocol, partnerFee, partner) ==
    LET cut == Bps(partnerFee, fees.share)
        ours == IF partner = None THEN protocol ELSE protocol + cut
        credited == IF partner = None THEN w
                    ELSE Credit(w, partner.who, t, partnerFee - cut)
    IN  Credit(credited, fees.recipient, t, ours)

SettleProtocolOnly(x, t, partner, min, to) ==
    LET protocol == ProtocolFee(x.gross)
        theirs == PartnerFee(x.gross, partner)
        out == x.gross - protocol
        priced == Require(x.w, /\ partner # None => partner.bps <= fees.max_partner
                               /\ out >= min)
    IN  Send(AccrueFees(priced, t, protocol, theirs, partner), t, DEX, to, out)
Settle(x, t, partner, min, to) ==
    LET protocol == ProtocolFee(x.gross)
        theirs == PartnerFee(x.gross, partner)
        out == AmountOut(x.gross, partner)
        priced == Require(x.w, /\ partner # None => partner.bps <= fees.max_partner
                               /\ out >= min)
    IN  Send(AccrueFees(priced, t, protocol, theirs, partner), t, DEX, to, out)

-----------------------------------------------------------------------------
(* Entry points, on the books                                              *)

(* A direct swap up to its settlement, which pays whom the swap names.     *)
SwapFilled(user, tin, n, route) ==
    Execute(Send(Books, tin, user, DEX, n), tin, route)

SwapCallsFilled(user, tin, tout, n, calls) ==
    ExecuteCalls(Send(Books, tin, user, DEX, n), tin, tout, n, calls, user)

(* For the router, which has sent the input; there is no partner.          *)
DexFill(w, tin, tout, n, min, data) ==
    LET open == Require(w, ~dex.paused /\ FreeBalance(w, tin) >= n)
    IN  IF data.kind = "Splits"
        THEN Settle(Execute(Require(open, Validate(tin, tout, n, data.route)), tin,
                            data.route), tout, None, min, ROUTER)
        ELSE Settle(ExecuteCalls(open, tin, tout, n, data.route, ROUTER), tout,
                    None, min, ROUTER)

ClaimBooks(who, t) ==
    LET n == owed[who][t]
    IN  IF n > 0 THEN Send(Credit(Books, who, t, -n), t, DEX, who, n) ELSE Books
=============================================================================
