---------------------------- MODULE CrossSettle ----------------------------
(***************************************************************************)
(* Cross-chain settlement (contracts/crosschain_settle): two copies of the *)
(* contract, peers of each other, and the bridge between them.  The taker  *)
(* fills a request "home", the maker pays "away", and the payment comes    *)
(* back before the RWA leaves escrow.                                      *)
(*                                                                         *)
(* Calls are atomic.  The bridge delivers every message once, in any order *)
(* and after any delay; a delivery that reverts leaves its message where   *)
(* it was, to be retried, so a delivery's guard is the condition under     *)
(* which the call returns.  FILL, FAIL, PAID and PAYOUT each have their    *)
(* own variable.  Amounts travel in wire units (6 decimals) and are scaled *)
(* by the token's unit at each end.                                        *)
(*                                                                         *)
(* A digest stands for what it hashes: a request is its own id, and the    *)
(* pair <<id, bid>> is the hash the maker signs.  A token lives on one     *)
(* chain, and Link maps it to the token the bridge turns it into.          *)
(***************************************************************************)
EXTENDS Integers, FiniteSets, FiniteSetsExt, Sums

CONSTANTS
    Accounts,        \* addresses on either chain
    ME,              \* the settlement contract, on either chain
    Relayers,        \* who may complete a CCTP burn
    None,            \* Option::None
    Cctp,            \* the transport built in: cctp.rs if TRUE, else lz.rs
    Tokens, Away,    \* tokens, and those of them that live away
    Unit,            \* [Tokens -> Nat]: a token's units per wire unit
    Link,            \* [Tokens -> Tokens \cup {None}]: what the bridge
                     \* turns a token into at its far end
    Requests,        \* records of orders::Request
    Bids,            \* records of wire::Bid
    Quotes,          \* [maker_amount, fee]: the RFQ contract's answers
    Keys, OwnKey,    \* ed25519 keys; [Accounts -> Keys \cup {None}]
    Signatures,      \* the [signer, id, bid] signed off chain
    Delegations,     \* the <<maker, key>> that may be registered
    Cancels,         \* the <<maker, salt>> that may be cancelled
    Vaults,          \* redemption vaults, members of Accounts
    PaysIn, Ct,      \* [Vaults -> Tokens]: a vault's stable, its claim token
    Redemptions,     \* [paid, returned]: what an issuer may hand back
    Fussy,           \* <<account, token>> whose transfers may be refused;
                     \* <<v, Ct[v]>> for a vault that may be paused
    Changes,         \* [slot, to]: the governed changes an admin may queue
    InitialSettings, \* [Slots -> value]
    InitialBalances, \* [Tokens -> [Accounts -> Nat]]
    InitialXlm,      \* XLM each contract starts with
    Sweeps,          \* the XLM amounts an admin may move out
    FEE, RETURN_FEE, \* XLM: a bridge call's price; what `fill` adds
    MaxXlm, MaxTime, \* bounds on top-ups and on the clock
    MaxTries         \* bound on the fills of one request

VARIABLES
    now,             \* both ledgers' timestamp
    setting,         \* Key::Vault, Key::Route, Config.tip, the delay
    pending,         \* TimelockKey::Pending
    order,           \* Key::Order at home
    filled,          \* Key::Filled at home
    used,            \* Key::Used away, a set of <<id, bid>>
    push,            \* Key::Push at home
    owed,            \* Key::Owed, [Tokens -> [Accounts -> Nat]]
    inbox,           \* Key::Inbox away
    fills, fails,    \* FILL and FAIL in flight
    paids, payouts,  \* PAID and PAYOUT in flight, with their money
    bal,             \* token balances
    xlm,             \* the contracts' XLM, by chain
    denied,          \* the <<account, token>> refused at the moment
    registered,      \* rfq::is_order_signer, away
    salt_cancelled,  \* rfq::is_salt_cancelled, away
    tries            \* history: how often each request was filled

vars == <<now, setting, pending, order, filled, used, push, owed, inbox,
          fills, fails, paids, payouts, bal, xlm, denied, registered,
          salt_cancelled, tries>>

swapVars  == <<order, filled, used, inbox, fills, fails, paids, tries>>
moneyVars == <<push, owed, payouts, bal, xlm>>
govVars   == <<setting, pending>>
rfqVars   == <<registered, salt_cancelled>>
worldVars == <<now, denied>>

-----------------------------------------------------------------------------
(* Settings and the bridge                                                 *)

Chains == {"home", "away"}
Deliveries == {"DELIVER", "REDEEM_CT", "REDEEM_PUSH", "CROSS_DELIVER"}

OrderRecords ==
    [taker : Accounts, rwa : Tokens, units : Nat, stable : Tokens,
     amount : Nat, fee : Nat, tip : Nat, fee_recipient : Accounts,
     delivery : Deliveries, recipient : Accounts \cup {None}, maker : Accounts]
PushRecords ==
    [vault : Vaults, rwa : Tokens, units : Nat, recipient : Accounts,
     stable : Tokens, maker : Accounts]
Bodies ==
    [id : Requests, bid : Bids, sig : Keys \cup {None}, amount : Nat]
Paids == [id : Requests, bid : Bids, token : Tokens, amount : Nat]
Payouts == [id : Requests, token : Tokens, amount : Nat, to : Accounts]
Fills ==
    [id : Requests, bid : Bids, sig : Keys \cup {None}, amount : Nat, try : Nat]

(* The slot a change queues under: one per vault, route, config and delay. *)
VaultOf(rwa)   == <<"vault", rwa>>
RouteOf(token) == <<"route", token>>
TipOn(chain)   == <<"tip", chain>>
DelayOn(chain) == <<"delay", chain>>

Slots == {VaultOf(t) : t \in Tokens} \cup {RouteOf(t) : t \in Tokens}
           \cup {TipOn(c) : c \in Chains} \cup {DelayOn(c) : c \in Chains}

(* Amounts that are transferred, capped or quoted are not negative (the    *)
(* token, `quote` and mul_div refuse others); a request's minimum is any   *)
(* number, for nothing bounds it.  A token has at least the wire's six     *)
(* decimals.  A request is made at home, in tokens of home, and with the   *)
(* taker's authorisation (require_auth), which the contract never gives.   *)
ASSUME WorldAssumption ==
    /\ None \notin OrderRecords \cup Tokens
    /\ Unit \in [Tokens -> Nat \ {0}]
    /\ \A b \in Bids :
          /\ b.maker \in Accounts /\ b.stable \in Tokens
          /\ b.max_amount \in Nat /\ b.delivery \in Deliveries
          /\ b.recipient \in Accounts \cup {None}
    /\ \A id \in Requests :
          /\ id.taker \in (Accounts \ {ME}) \cup {None}
          /\ id.fee_recipient \in Accounts
          /\ id.maker_token \in Tokens \ Away
          /\ id.taker_token \in Tokens \ Away
          /\ id.taker_amount \in Nat /\ id.min_received_amount \in Int
    /\ \A q \in Quotes : q.maker_amount \in Nat /\ q.fee \in Nat

(* The addresses are two ledgers' accounts, among them the contract, its   *)
(* relayers and the vaults; a vault pays its claims in tokens.             *)
ASSUME LedgerAssumption ==
    /\ IsFiniteSet(Accounts) /\ IsFiniteSet(Requests) /\ IsFiniteSet(Bids)
    /\ ME \in Accounts /\ None \notin Accounts
    /\ Relayers \subseteq Accounts /\ Vaults \subseteq Accounts \ {ME}
    /\ Away \subseteq Tokens /\ Link \in [Tokens -> Tokens \cup {None}]
    /\ PaysIn \in [Vaults -> Tokens] /\ Ct \in [Vaults -> Tokens]
    /\ \A r \in Redemptions : r.paid \in Nat /\ r.returned \in Nat
    /\ InitialBalances \in [Tokens -> [Accounts -> Nat]]
    /\ InitialXlm \in [Chains -> Nat] /\ Cctp \in BOOLEAN
    /\ FEE \in Nat /\ RETURN_FEE \in Nat /\ MaxTime \in Nat
    /\ \A n \in Sweeps : n \in Nat

(* The contract has no key, and registers none.                            *)
ASSUME KeyAssumption ==
    OwnKey[ME] = None /\ \A d \in Delegations : d[1] # ME

(* What governance is trusted with: a tip is not negative, a vault is one, *)
(* and a token is routed only to the one that the bridge turns back into   *)
(* it.  CCTP's check_route enforces the latter; LayerZero's does not see   *)
(* the far end.  The routes there are at the start passed check_route.     *)
SoundSetting(slot, to) ==
    /\ slot[1] = "tip" => to \in Nat
    /\ slot[1] = "vault" => to \in Vaults \cup {None}
    /\ slot[1] = "route" => to = None \/ (to \in Tokens /\ Link[to] = slot[2])

ASSUME GovernanceAssumption ==
    /\ InitialSettings \in [Slots -> {InitialSettings[s] : s \in Slots}]
    /\ \A s \in Slots : SoundSetting(s, InitialSettings[s])
    /\ \A t \in Tokens : InitialSettings[RouteOf(t)] # None => Link[t] # None
    /\ \A c \in Changes : c.slot \in Slots /\ SoundSetting(c.slot, c.to)

Tip(chain, token) == setting[TipOn(chain)] * Unit[token]

(* The XLM a LayerZero call costs; CCTP is free.                           *)
Toll == IF Cctp THEN 0 ELSE FEE

(* The bridge moves whole wire units only, and refuses dust.               *)
Bridgeable(token, amount) == amount % Unit[token] = 0
OnWire(token, amount) == amount \div Unit[token]

-----------------------------------------------------------------------------
(* The books: balances and debts, threaded through the payments of a call  *)

Move(b, token, from, to, amount) ==
    LET debited == [b EXCEPT ![token][from] = @ - amount]
    IN  [debited EXCEPT ![token][to] = @ + amount]

Issue(b, token, to, amount) == [b EXCEPT ![token][to] = @ + amount]

(* try_transfer's success.                                                 *)
CanSend(b, token, from, to, amount) ==
    /\ b[token][from] >= amount
    /\ {<<from, token>>, <<to, token>>} \cap denied = {}

SendOrHold(books, token, to, amount) ==
    IF amount <= 0 THEN books
    ELSE IF CanSend(books.bal, token, ME, to, amount)
         THEN [books EXCEPT !.bal = Move(@, token, ME, to, amount)]
         ELSE [books EXCEPT !.owed[token][to] = @ + amount]

Books == [bal |-> bal, owed |-> owed]

Keep(books) == bal' = books.bal /\ owed' = books.owed

-----------------------------------------------------------------------------
(* Taker here                                                              *)

CheckRequest(id) ==
    /\ id.taker # None
    /\ id.sender = ME
    /\ id.order_type = "Rfq"
    /\ id.expiry > now
    /\ id \notin filled

(* CCTP has no price for an RWA's bridge, so its `fill` reverts there.     *)
CheckBid(id, bid) ==
    /\ bid.deadline >= now
    /\ setting[RouteOf(id.maker_token)] = bid.stable
    /\ \/ /\ bid.delivery = "CROSS_DELIVER"
          /\ setting[RouteOf(id.taker_token)] # None
          /\ ~Cctp
       \/ /\ bid.delivery = "DELIVER"
          /\ bid.recipient # None
       \/ /\ bid.delivery \in {"REDEEM_CT", "REDEEM_PUSH"}
          /\ bid.recipient # None
          /\ setting[VaultOf(id.taker_token)] # None
          /\ bid.delivery = "REDEEM_PUSH" =>
                PaysIn[setting[VaultOf(id.taker_token)]] = id.maker_token

QuoteBeforeTip(id, bid, q) ==
    /\ q.maker_amount <= bid.max_amount * Unit[id.maker_token]
    /\ q.maker_amount - q.fee >= id.min_received_amount

Quote(id, bid, q) ==
    /\ q.maker_amount <= bid.max_amount * Unit[id.maker_token]
    /\ q.maker_amount - q.fee - Tip("home", id.maker_token)
          >= id.min_received_amount

OrderOf(id, bid, q) ==
    [taker |-> id.taker, rwa |-> id.taker_token, units |-> id.taker_amount,
     stable |-> id.maker_token, amount |-> q.maker_amount, fee |-> q.fee,
     tip |-> Tip("home", id.maker_token), fee_recipient |-> id.fee_recipient,
     delivery |-> bid.delivery, recipient |-> bid.recipient,
     maker |-> bid.maker]

WireAmountDown(token, amount) == amount \div Unit[token]

(* The wire amount that covers `amount`: rounded up.                       *)
WireAmount(token, amount) == (amount + Unit[token] - 1) \div Unit[token]

FillXlm(bid) ==
    RETURN_FEE + (IF bid.delivery = "CROSS_DELIVER" THEN Toll ELSE 0)

QuoteSendAnyAmount(id, bid) == TRUE

(* bridge_fee prices a CROSS_DELIVER send with the OFT's own quote, which  *)
(* is taken to refuse an amount with dust, as LayerZero's OFTs do.         *)
QuoteSend(id, bid) ==
    bid.delivery = "CROSS_DELIVER" => Bridgeable(id.taker_token, id.taker_amount)

(* `fill`; the taker's XLM for the message itself goes to the endpoint.    *)
Fill(id, bid, q, sig) ==
    /\ CheckRequest(id)
    /\ CheckBid(id, bid)
    /\ Quote(id, bid, q)
    /\ QuoteSend(id, bid)
    /\ CanSend(bal, id.taker_token, id.taker, ME, id.taker_amount)
    /\ tries[id] < MaxTries
    /\ filled' = filled \cup {id}
    /\ order' = [order EXCEPT ![id] = OrderOf(id, bid, q)]
    /\ bal' = Move(bal, id.taker_token, id.taker, ME, id.taker_amount)
    /\ xlm' = [xlm EXCEPT !["home"] = @ + FillXlm(bid)]
    /\ fills' = fills \cup
          {[id |-> id, bid |-> bid, sig |-> sig,
            amount |-> WireAmount(id.maker_token, q.maker_amount),
            try |-> tries[id]]}
    /\ tries' = [tries EXCEPT ![id] = @ + 1]
    /\ UNCHANGED <<used, inbox, fails, paids, push, owed, payouts, govVars,
                   rfqVars, worldVars>>

-----------------------------------------------------------------------------
(* Maker here                                                              *)

(* The part of FILL that is hashed: two sends of one FILL have one body.   *)
Body(m) == [id |-> m.id, bid |-> m.bid, sig |-> m.sig, amount |-> m.amount]

CheckSignedNot(m) == m.sig # None

(* check_signed: the maker's own key, or one registered for it.            *)
CheckSigned(m) ==
    /\ m.sig # None
    /\ [signer |-> m.sig, id |-> m.id, bid |-> m.bid] \in Signatures
    /\ \/ OwnKey[m.bid.maker] = m.sig
       \/ <<m.bid.maker, m.sig>> \in registered

Local(m) == m.amount * Unit[m.bid.stable]

(* Everything `pay` tests before it changes anything.                      *)
PayableUnmarked(m) ==
    /\ m.amount <= m.bid.max_amount
    /\ m.bid.deadline >= now
    /\ <<m.id, m.bid>> \notin used
    /\ setting[RouteOf(m.bid.stable)] # None
    /\ <<m.bid.maker, m.bid.salt>> \notin salt_cancelled
    /\ CheckSigned(m)

Payable(m) ==
    /\ m.amount <= m.bid.max_amount
    /\ m.bid.deadline >= now
    /\ <<m.id, m.bid>> \notin used
    /\ setting[RouteOf(m.bid.stable)] # None
    /\ <<m.bid.maker, m.bid.salt>> \notin salt_cancelled
    /\ CheckSigned(m)
    /\ CanSend(bal, m.bid.stable, m.bid.maker, ME, Local(m))

(* The maker's stable is pulled, then burnt into the bridge with PAID.     *)
Pay(m) ==
    /\ Payable(m)
    /\ used' = used \cup {<<m.id, m.bid>>}
    /\ bal' = [bal EXCEPT ![m.bid.stable][m.bid.maker] = @ - Local(m)]
    /\ paids' = paids \cup
          {[id |-> m.id, bid |-> m.bid, token |-> m.bid.stable,
            amount |-> OnWire(m.bid.stable, Local(m))]}
    /\ UNCHANGED fails

SendFailMarksUsed(m) ==
    /\ ~Payable(m)
    /\ fails' = [fails EXCEPT ![m.id] = @ + 1]
    /\ used' = IF PayableUnmarked(m) THEN used \cup {<<m.id, m.bid>>} ELSE used
    /\ UNCHANGED <<bal, paids>>

SendFail(m) ==
    /\ ~Payable(m)
    /\ fails' = [fails EXCEPT ![m.id] = @ + 1]
    /\ UNCHANGED <<used, bal, paids>>

(* on_fill: the reply, whichever it is, is paid from this contract's XLM.  *)
OnFill(m) ==
    /\ xlm["away"] >= Toll
    /\ Pay(m) \/ SendFail(m)
    /\ xlm' = [xlm EXCEPT !["away"] = @ - Toll]
    /\ UNCHANGED <<order, filled, tries, push, owed, payouts, govVars,
                   rfqVars, worldVars>>

(* lz_receive of FILL.                                                     *)
LzReceiveFill(m) ==
    /\ ~Cctp
    /\ fills' = fills \ {m}
    /\ OnFill(m)
    /\ UNCHANGED inbox

(* handle_recv_finalized_message of FILL: it waits under its body's hash.  *)
HandleFill(m) ==
    /\ Cctp
    /\ fills' = fills \ {m}
    /\ inbox' = inbox \cup {Body(m)}
    /\ UNCHANGED <<order, filled, used, fails, paids, tries, moneyVars,
                   govVars, rfqVars, worldVars>>

Execute(m) ==
    /\ inbox' = inbox \ {m}
    /\ OnFill(m)
    /\ UNCHANGED fills

-----------------------------------------------------------------------------
(* Settlement, taker here                                                  *)

(* A token of ours enters the bridge: it is burnt, and m carries it.       *)
Burn(books, token, amount) == [books EXCEPT !.bal[token][ME] = @ - amount]

Payout(id, token, amount, to) ==
    [id |-> id, token |-> token, amount |-> OnWire(token, amount), to |-> to]

(* request_redeem: the vault takes the RWA and mints its claim token to us, *)
(* unless it is paused or its gate has not admitted us.                    *)
CanRedeem(books, v, rwa, units) ==
    /\ v # None
    /\ units > 0
    /\ CanSend(books.bal, rwa, ME, v, units)
    /\ {<<v, Ct[v]>>, <<ME, Ct[v]>>} \cap denied = {}

Redeem(books, v, rwa, units) ==
    [books EXCEPT !.bal = Issue(Move(@, rwa, ME, v, units), Ct[v], ME, units)]

(* route_rwa.  The vault is read now, not when the fill was checked; the   *)
(* bridge and the vault must take the RWA, or the settlement reverts.      *)
RouteRwa(id, o, books) ==
    \/ /\ o.delivery = "DELIVER"
       /\ Keep(SendOrHold(books, o.rwa, o.recipient, o.units))
       /\ UNCHANGED <<push, payouts, xlm>>
    \/ /\ o.delivery = "CROSS_DELIVER"
       /\ xlm["home"] >= Toll
       /\ Bridgeable(o.rwa, o.units)
       /\ books.bal[o.rwa][ME] >= o.units
       /\ Keep(Burn(books, o.rwa, o.units))
       /\ payouts' = payouts \cup {Payout(id, o.rwa, o.units, o.maker)}
       /\ xlm' = [xlm EXCEPT !["home"] = @ - Toll]
       /\ UNCHANGED push
    \/ LET v == setting[VaultOf(o.rwa)]
           redeemed == Redeem(books, v, o.rwa, o.units)
       IN  /\ o.delivery \in {"REDEEM_CT", "REDEEM_PUSH"}
           /\ CanRedeem(books, v, o.rwa, o.units)
           /\ \/ /\ o.delivery = "REDEEM_CT"
                 /\ Keep(SendOrHold(redeemed, Ct[v], o.recipient, o.units))
                 /\ UNCHANGED push
              \/ /\ o.delivery = "REDEEM_PUSH"
                 /\ Keep(redeemed)
                 /\ push' = [push EXCEPT ![id] =
                       [vault |-> v, rwa |-> o.rwa, units |-> o.units,
                        recipient |-> o.recipient, stable |-> o.stable,
                        maker |-> o.maker]]
           /\ UNCHANGED <<payouts, xlm>>

(* LayerZero's executor is no relayer; a CCTP burn is completed by one.    *)
RelayersHere == IF Cctp THEN Relayers ELSE {None}

Or(relayer, account) == IF relayer = None THEN account ELSE relayer

(* What arrived is ours to pay out.  An OFT mints before it composes, so   *)
(* the real contract may hold the money sooner, never later.               *)
Arrived(token, amount) ==
    [bal |-> Issue(bal, token, ME, amount), owed |-> owed]

ShareOut(o, amount, relayer) ==
    LET b1 == SendOrHold(Arrived(o.stable, amount), o.stable, o.taker,
                         amount - o.fee - o.tip)
        b2 == SendOrHold(b1, o.stable, o.fee_recipient, o.fee)
    IN  SendOrHold(b2, o.stable, Or(relayer, o.taker), o.tip)

(* on_funds of PAID.                                                       *)
SettlePaid(m, relayer) ==
    LET id == m.id
        o  == order[id]
        amount == m.amount * Unit[Link[m.token]]
    IN  /\ o # None
        /\ o.stable = Link[m.token]
        /\ amount >= o.amount
        /\ order' = [order EXCEPT ![id] = None]
        /\ RouteRwa(id, o, ShareOut(o, amount, relayer))
        /\ paids' = paids \ {m}
        /\ UNCHANGED <<filled, used, inbox, fills, fails, tries, govVars,
                       rfqVars, worldVars>>

(* on_fail, from lz_receive or handle_recv_finalized_message.              *)
OnFail(id) ==
    /\ fails[id] > 0
    /\ order[id] # None
    /\ fails' = [fails EXCEPT ![id] = @ - 1]
    /\ order' = [order EXCEPT ![id] = None]
    /\ filled' = filled \ {id}
    /\ Keep(SendOrHold(Books, order[id].rwa, order[id].taker, order[id].units))
    /\ UNCHANGED <<used, inbox, fills, paids, tries, push, payouts, xlm,
                   govVars, rfqVars, worldVars>>

(* on_funds of PAYOUT, maker here: the flat tip is capped by the amount.   *)
ForwardPayout(m, relayer) ==
    LET token  == Link[m.token]
        amount == m.amount * Unit[token]
        tip    == IF relayer = None THEN 0 ELSE Min({Tip("away", token), amount})
        b1     == SendOrHold(Arrived(token, amount), token,
                             Or(relayer, m.to), tip)
    IN  /\ Keep(SendOrHold(b1, token, m.to, amount - tip))
        /\ payouts' = payouts \ {m}
        /\ UNCHANGED <<swapVars, push, xlm, govVars, rfqVars, worldVars>>

-----------------------------------------------------------------------------
(* Claims and debts                                                        *)

(* claim, of a batch that has settled: the vault hands over stable, and    *)
(* RWA its issuer returned in kind.                                        *)
Claimed(p, r) ==
    [bal |-> Issue(Move(bal, p.rwa, p.vault, ME, r.returned),
                   PaysIn[p.vault], ME, r.paid),
     owed |-> owed]

ClosePush(id) == push[id] # None /\ push' = [push EXCEPT ![id] = None]

(* `push`: r is what the batch's claim yields once its issuer has paid.    *)
(* Only what came in as the fill's stable is counted, and dust stays here. *)
(* The caller pays the bridge.                                             *)
PushProceeds(id, r) ==
    LET p       == push[id]
        claimed == Burn(Claimed(p, r), Ct[p.vault], p.units)
        paid    == IF PaysIn[p.vault] = p.stable THEN r.paid ELSE 0
        amount  == paid - (paid % Unit[p.stable])
    IN  /\ ClosePush(id)
        /\ r.returned <= bal[p.rwa][p.vault]
        /\ bal[Ct[p.vault]][ME] >= p.units
        /\ Keep(Burn(SendOrHold(claimed, p.rwa, p.recipient, r.returned),
                     p.stable, amount))
        /\ payouts' = payouts \cup {Payout(id, p.stable, amount, p.maker)}
        /\ UNCHANGED <<swapVars, xlm, govVars, rfqVars, worldVars>>

WithdrawKeepsDebt(to, token) ==
    /\ owed[token][to] > 0
    /\ CanSend(bal, token, ME, to, owed[token][to])
    /\ bal' = Move(bal, token, ME, to, owed[token][to])
    /\ UNCHANGED <<swapVars, owed, push, payouts, xlm, govVars, rfqVars,
                   worldVars>>

Withdraw(to, token) ==
    /\ owed[token][to] > 0
    /\ CanSend(bal, token, ME, to, owed[token][to])
    /\ bal' = Move(bal, token, ME, to, owed[token][to])
    /\ owed' = [owed EXCEPT ![token][to] = 0]
    /\ UNCHANGED <<swapVars, push, payouts, xlm, govVars, rfqVars, worldVars>>

-----------------------------------------------------------------------------
(* Governance: submit, wait, accept (crates/common/src/timelock.rs)        *)

ChainOf(slot) ==
    CASE slot[1] \in {"tip", "delay"} -> slot[2]
      [] slot[1] = "vault" -> "home"
      [] slot[1] = "route" -> IF slot[2] \in Away THEN "away" ELSE "home"

(* A route opens only where the bridge carries the token; LayerZero knows  *)
(* that the token has an OFT, CCTP also which token it is linked with.     *)
CheckChange(c) ==
    (c.slot[1] = "route" /\ c.to # None) =>
        IF Cctp THEN Link[c.slot[2]] = c.to ELSE Link[c.slot[2]] # None

Submit(c) ==
    /\ CheckChange(c)
    /\ pending' = [pending EXCEPT ![c.slot] =
          [to |-> c.to, at |-> now + setting[DelayOn(ChainOf(c.slot))]]]
    /\ UNCHANGED <<setting, swapVars, moneyVars, rfqVars, worldVars>>

Accept(slot) ==
    /\ pending[slot] # None
    /\ now >= pending[slot].at
    /\ CheckChange([slot |-> slot, to |-> pending[slot].to])
    /\ setting' = [setting EXCEPT ![slot] = pending[slot].to]
    /\ pending' = [pending EXCEPT ![slot] = None]
    /\ UNCHANGED <<swapVars, moneyVars, rfqVars, worldVars>>

Revoke(slot) ==
    /\ pending[slot] # None
    /\ pending' = [pending EXCEPT ![slot] = None]
    /\ UNCHANGED <<setting, swapVars, moneyVars, rfqVars, worldVars>>

Sweep(chain, amount) ==
    /\ xlm[chain] >= amount
    /\ xlm' = [xlm EXCEPT ![chain] = @ - amount]
    /\ UNCHANGED <<swapVars, push, owed, payouts, bal, govVars, rfqVars,
                   worldVars>>

(* XLM sent to a contract, or delivered with a message (take_value).       *)
TopUp(chain) ==
    /\ xlm[chain] < MaxXlm
    /\ xlm' = [xlm EXCEPT ![chain] = @ + 1]
    /\ UNCHANGED <<swapVars, push, owed, payouts, bal, govVars, rfqVars,
                   worldVars>>

-----------------------------------------------------------------------------
(* The world: the maker's RFQ contract, token issuers and time             *)

RegisterOrderSigner(d) ==
    /\ \/ registered' = registered \cup {d}
       \/ registered' = registered \ {d}
    /\ UNCHANGED <<salt_cancelled, swapVars, moneyVars, govVars, worldVars>>

CancelSalt(c) ==
    /\ salt_cancelled' = salt_cancelled \cup {c}
    /\ UNCHANGED <<registered, swapVars, moneyVars, govVars, worldVars>>

(* An allowlist, a trustline or an approval comes or goes, or a redemption *)
(* vault is paused or its gate lifted.                                     *)
Refuse(f) ==
    /\ \/ denied' = denied \cup {f}
       \/ denied' = denied \ {f}
    /\ UNCHANGED <<now, swapVars, moneyVars, govVars, rfqVars>>

Tick ==
    /\ now < MaxTime
    /\ now' = now + 1
    /\ UNCHANGED <<denied, swapVars, moneyVars, govVars, rfqVars>>

-----------------------------------------------------------------------------

Init ==
    /\ now = 0
    /\ setting = InitialSettings
    /\ pending = [s \in Slots |-> None]
    /\ order = [id \in Requests |-> None]
    /\ filled = {}
    /\ used = {}
    /\ push = [id \in Requests |-> None]
    /\ owed = [t \in Tokens |-> [a \in Accounts |-> 0]]
    /\ inbox = {}
    /\ fills = {}
    /\ fails = [id \in Requests |-> 0]
    /\ paids = {}
    /\ payouts = {}
    /\ bal = InitialBalances
    /\ xlm = InitialXlm
    /\ denied = {}
    /\ registered = {}
    /\ salt_cancelled = {}
    /\ tries = [id \in Requests |-> 0]

Deliver ==
    \/ \E m \in fills : LzReceiveFill(m) \/ HandleFill(m)
    \/ \E m \in inbox : Execute(m)
    \/ \E m \in paids, r \in RelayersHere : SettlePaid(m, r)
    \/ \E id \in Requests : OnFail(id)
    \/ \E m \in payouts, r \in RelayersHere : ForwardPayout(m, r)

Govern ==
    \/ \E c \in Changes : Submit(c)
    \/ \E s \in Slots : Accept(s) \/ Revoke(s)
    \/ \E chain \in Chains, n \in Sweeps : Sweep(chain, n)
    \/ \E chain \in Chains : TopUp(chain)

Next ==
    \/ \E id \in Requests, bid \in Bids, q \in Quotes,
          sig \in Keys \cup {None} : Fill(id, bid, q, sig)
    \/ Deliver
    \/ \E id \in Requests, r \in Redemptions : PushProceeds(id, r)
    \/ \E a \in Accounts, t \in Tokens : Withdraw(a, t)
    \/ Govern
    \/ \E d \in Delegations : RegisterOrderSigner(d)
    \/ \E c \in Cancels : CancelSalt(c)
    \/ \E f \in Fussy : Refuse(f)
    \/ Tick

Spec == Init /\ [][Next]_vars

(* Each leg is relayed for as long as it takes: an executor, or the party  *)
(* that wants its money, retries a reverted delivery; and someone tops up  *)
(* a contract that cannot pay the bridge.  Nobody has to fill, to push, to *)
(* withdraw or to govern.                                                  *)
Fairness ==
    /\ \A id \in Requests :
          /\ SF_vars(\E m \in fills : m.id = id /\ LzReceiveFill(m))
          /\ WF_vars(\E m \in fills : m.id = id /\ HandleFill(m))
          /\ SF_vars(\E m \in inbox : m.id = id /\ Execute(m))
          /\ SF_vars(\E m \in paids, r \in RelayersHere :
                        m.id = id /\ SettlePaid(m, r))
          /\ WF_vars(OnFail(id))
    /\ \A chain \in Chains : WF_vars(xlm[chain] < Toll /\ TopUp(chain))

LiveSpec == Spec /\ Fairness

-----------------------------------------------------------------------------
(* Properties                                                              *)

(* The records of the swap: orders, marks and messages.                    *)
SwapTypes ==
    /\ order \in [Requests -> OrderRecords \cup {None}]
    /\ filled \subseteq Requests
    /\ used \subseteq Requests \X Bids
    /\ inbox \subseteq Bodies
    /\ fills \subseteq Fills
    /\ fails \in [Requests -> Nat]
    /\ paids \subseteq Paids
    /\ tries \in [Requests -> Nat]

(* The money: nothing either contract counts goes negative.                *)
MoneyTypes ==
    /\ now \in 0..MaxTime
    /\ push \in [Requests -> PushRecords \cup {None}]
    /\ payouts \subseteq Payouts
    /\ bal \in [Tokens -> [Accounts -> Nat]]
    /\ owed \in [Tokens -> [Accounts -> Nat]]
    /\ xlm \in [Chains -> Nat]

(* Every table holds what its key promises, and no balance, debt or XLM    *)
(* count of either contract goes negative.                                 *)
TypeOK == SwapTypes /\ MoneyTypes

(* A fill is always somewhere: while its order is open exactly one of its  *)
(* FILL, its parked FILL, its FAIL and its PAID exists, and once the order *)
(* is closed none does.  So no reply can find its order gone (NotFound,    *)
(* which would strand the maker's money) and no escrow waits for a reply   *)
(* that is not coming.                                                     *)
OneLegInFlight ==
    \A id \in Requests :
        Cardinality({m \in fills : m.id = id})
          + Cardinality({m \in inbox : m.id = id})
          + fails[id] + Cardinality({m \in paids : m.id = id})
        = IF order[id] = None THEN 0 ELSE 1

PaidFor(id) == {b \in Bids : <<id, b>> \in used}

(* The swap is atomic across the chains: however often a request is failed *)
(* and filled again, and with whichever bids, makers pay for it once, and  *)
(* a paid request is never free again: its RWA stays in escrow until that  *)
(* very payment arrives.                                                   *)
PaidOnce ==
    \A id \in Requests : \A b \in PaidFor(id) :
        /\ PaidFor(id) = {b}
        /\ id \in filled
        /\ order[id] # None <=> \E m \in paids : m.id = id /\ m.bid = b

FillsOf(id) == {m \in fills : m.id = id}
InboxOf(id) == {m \in inbox : m.id = id}
PaidsOf(id) == {m \in paids : m.id = id}

Unpaid(id) == PaidFor(id) = {} /\ PaidsOf(id) = {}
Open(id)   == order[id] # None /\ id \in filled
Closed(id) ==
    order[id] = None /\ FillsOf(id) = {} /\ InboxOf(id) = {} /\ fails[id] = 0

Idle(id) == Closed(id) /\ id \notin filled /\ Unpaid(id)
Travelling(id) ==
    /\ Open(id) /\ Unpaid(id) /\ InboxOf(id) = {} /\ fails[id] = 0
    /\ \E m \in fills : FillsOf(id) = {m}
Parked(id) ==
    /\ Open(id) /\ Unpaid(id) /\ FillsOf(id) = {} /\ fails[id] = 0
    /\ \E m \in inbox : InboxOf(id) = {m}
Failing(id) ==
    Open(id) /\ Unpaid(id) /\ FillsOf(id) = {} /\ InboxOf(id) = {} /\ fails[id] = 1
Paying(id) ==
    /\ Open(id) /\ FillsOf(id) = {} /\ InboxOf(id) = {} /\ fails[id] = 0
    /\ \E m \in paids : PaidsOf(id) = {m} /\ PaidFor(id) = {m.bid}
Settled(id) ==
    /\ Closed(id) /\ id \in filled /\ PaidsOf(id) = {}
    /\ \E b \in Bids : PaidFor(id) = {b}

Stage(id) ==
    \/ Idle(id) \/ Travelling(id) \/ Parked(id)
    \/ Failing(id) \/ Paying(id) \/ Settled(id)

(* Two contracts that never see each other's storage agree on every        *)
(* request: what home believes (order, filled), what away believes (used,  *)
(* inbox) and what is under way always fit one of six stages.  This is the *)
(* inductive core of the swap's safety.                                    *)
SwapStages == \A id \in Requests : Stage(id)

(* PAID is never Underpaid: the money under way always covers the quote,   *)
(* after two roundings to wire units and whatever the two chains' decimals. *)
PaymentCoversQuote ==
    \A m \in paids :
        /\ order[m.id].stable = Link[m.token]
        /\ m.amount * Unit[order[m.id].stable] >= order[m.id].amount

EscrowOf(o, t) == IF o # None /\ o.rwa = t THEN o.units ELSE 0
ClaimOf(p, t) == IF p # None /\ Ct[p.vault] = t THEN p.units ELSE 0

Escrowed(t) == SumOver([id \in Requests |-> EscrowOf(order[id], t)], Requests)
Claims(t) == SumOver([id \in Requests |-> ClaimOf(push[id], t)], Requests)
Debts(t) == SumOver(owed[t], Accounts)

(* What a settled request may have cost the contract: `quote` keeps fee    *)
(* and tip within the payment only if the minimum is not negative.         *)
LossOn(id, t) ==
    IF /\ id \in filled /\ order[id] = None
       /\ id.maker_token = t /\ id.min_received_amount < 0
    THEN -id.min_received_amount ELSE 0

Losses(t) == SumOver([id \in Requests |-> LossOn(id, t)], Requests)

(* Each contract holds, token by token, all it has promised: the escrow of *)
(* every open order, the claim tokens behind every push, every debt.  It   *)
(* is short by no more than the negative minimums of the requests that     *)
(* have settled, so by nothing at all if takers sign none.                 *)
Solvent ==
    /\ TypeOK
    /\ \A t \in Tokens :
          bal[t][ME] + Losses(t) >= Escrowed(t) + Claims(t) + Debts(t)

(* Fee and tip are charged to the payment's recipient: what on_funds       *)
(* shares out is what arrived, and every escrow, claim and debt is there   *)
(* to be paid, whatever minimum a taker signs.                             *)
FullyBacked ==
    \A t \in Tokens : bal[t][ME] >= Escrowed(t) + Claims(t) + Debts(t)

(* When an order closes, its taker is whole in that same step: either the  *)
(* stable it signed for, tip and fee already taken, or all of its RWA, as  *)
(* balance or as a debt.                                                   *)
TakerMadeWhole ==
    [][\A id \in Requests :
          (order[id] # None /\ order'[id] = None) =>
             LET o == order[id]
                 Gain(t) == bal'[t][o.taker] + owed'[t][o.taker]
                              - bal[t][o.taker] - owed[t][o.taker]
             IN  \/ id \in filled' /\ Gain(o.stable) >= id.min_received_amount
                 \/ id \notin filled' /\ Gain(o.rwa) >= o.units]_vars

CapOf(u, t, mk) ==
    IF /\ u[2].maker = mk
       /\ u[2].stable = t
       /\ \E s \in Signatures : s.id = u[1] /\ s.bid = u[2]
    THEN u[2].max_amount * Unit[t] ELSE 0

SignedCap(t, mk) ==
    SumOver([u \in Requests \X Bids |-> CapOf(u, t, mk)], used)

(* Over a whole run a maker loses no more than the caps of the distinct    *)
(* bids it signed and that were paid: no replay, no second pull for a bid. *)
MakerLossBounded ==
    \A t \in Away, b \in Bids :
        InitialBalances[t][b.maker] - bal[t][b.maker] <= SignedCap(t, b.maker)

(* Nothing refuses the redemption that closing id would take.              *)
RedemptionOpen(id) ==
    LET o == order[id]
    IN  (o # None /\ o.delivery \in {"REDEEM_CT", "REDEEM_PUSH"}) =>
            CanRedeem(Books, setting[VaultOf(o.rwa)], o.rwa, o.units)

(* Every escrow ends: the order settles or the RWA is returned, whatever   *)
(* the maker, the recipients and the clock do meanwhile.  A redemption     *)
(* ends if its vault does not stay paused, closed to us or removed for     *)
(* ever: PAID reverts meanwhile, and is retried.                           *)
OrdersResolve ==
    \A id \in Requests :
        []<>RedemptionOpen(id) => (order[id] # None ~> order[id] = None)

(* A payment taken from a maker always settles its fill, though the XLM of *)
(* either contract may be swept at any moment, and the vault of a          *)
(* redemption be paused, replaced or removed for as long as one likes.     *)
PaidSettles ==
    \A id \in Requests :
        []<>RedemptionOpen(id) =>
            (PaidFor(id) # {} ~> (id \in filled /\ order[id] = None))

-----------------------------------------------------------------------------
(* What is promised to the two parties, request by request                 *)

Phase(id) ==
    CASE id \notin filled -> "idle"
      [] id \in filled /\ order[id] # None /\ PaidFor(id) = {} -> "escrowed"
      [] id \in filled /\ order[id] # None /\ PaidFor(id) # {} -> "paid"
      [] id \in filled /\ order[id] = None -> "settled"

Swap == INSTANCE AtomicSwap WITH Ids <- Requests,
                                 swap <- [id \in Requests |-> Phase(id)]

(* The two contracts and the bridge implement the atomic swap.             *)
ImplementsSwap == Swap!Spec

=============================================================================
