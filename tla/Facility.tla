------------------------------ MODULE Facility ------------------------------
(***************************************************************************)
(* The Octarine facility (contracts/facility): oLP shares over a base      *)
(* vault and one vault per RWA, trades at a discount to the oracle mark,   *)
(* redemptions with the issuers, and gains that vest.                      *)
(*                                                                         *)
(* Each entry point is one action.  Its vaults appear as the facility uses *)
(* them: their assets, the facility's shares of them, priced by the same   *)
(* share arithmetic without a fee, and what they can pay now.  Oracle      *)
(* prices, yields and losses are the world's; traders and the manager have *)
(* unbounded wallets; a trader's min_out only ever refuses a trade.  A     *)
(* pending change may have waited out its delay by any later step, and     *)
(* every RWA keeps its vault.  The curator only collects its fee; oLP may  *)
(* be sent to the queue without a request.  What happens around the        *)
(* holders (changes of rules, prices and yields, a burn, and base that a   *)
(* trade sends to the queue itself) counts as an event, for the bound.     *)
(***************************************************************************)
EXTENDS Shares, Sequences, SequencesExt

CONSTANTS
    Lps,          \* the accounts that deposit, exit and queue
    Curator,      \* takes the performance fee
    QUEUE,        \* the withdrawal queue's address
    Base,         \* the base asset, standing for its vault
    Rwas,         \* the RWAs that may be listed, each for its vault
    AllTerms,     \* the terms a curator may queue for an RWA
    InitialTerms, \* [Rwas -> the terms at the start, or None]
    InitialQueue, \* the queue at the start: QUEUE or None
    InitialVest,  \* vest_seconds at the start
    Fees, Vests,  \* the fees and vesting spans a curator may queue
    MAX_FEE,      \* MAX_FEE_BPS
    DENOM,        \* the scale of a discount
    Horizons,     \* the seconds to redemption a schedule may give
    Prices,       \* oracle prices, 0 for none that is fresh
    InitialPrice, \* the oracle's price of every RWA at the start
    Amounts,      \* the amounts of a token a call names
    Lots,         \* the amounts of oLP a call names
    None,         \* Option::None
    MaxAssets,    \* bound on what a vault holds
    MaxUnits,     \* bound on the units of an RWA held or with its issuer
    MaxShares,    \* bound on the oLP a deposit mints up to
    MaxEvents,    \* bound on the events
    MaxTime       \* bound on the ledger clock

VARIABLES
    now,       \* env.ledger().timestamp()
    paused,    \* Key::Paused
    config,    \* fee and vest of Key::Config, and Key::Queue
    pending,   \* TimelockKey::Pending, by kind
    terms,     \* Key::Rwa: the terms of a listed RWA, or None
    share,     \* the oLP ledger
    vault,     \* the vaults of Base and of every RWA
    red,       \* Key::Redemption: what an open redemption carries, or None
    lock,      \* Key::Locked
    price,     \* the oracle's price of each RWA
    sunk,      \* base that trades have sent to the queue's own address
    events     \* how many events there were

vars == <<now, paused, config, pending, terms, share, vault, red, lock, price,
          sunk, events>>
govVars == <<paused, config, pending, terms>>
worldVars == <<now, price, sunk>>

Holders == Lps \cup {Curator, QUEUE}
Tokens == Rwas \cup {Base}
Kinds == {"Fee", "Vest", "Queue"} \cup Rwas

Terms == [accepted : BOOLEAN, bid_rate : Nat, ask_rate : Nat, max_bps : 0 .. BPS]
Vaults == [nav : Nat, shares : Nat, liquid : Nat]

ASSUME FacilityAssumption ==
    /\ IsFiniteSet(Lps) /\ IsFiniteSet(Rwas)
    /\ Curator \notin Lps \cup {QUEUE} /\ QUEUE \notin Lps /\ Base \notin Rwas
    /\ Rwas \cap {"Fee", "Vest", "Queue"} = {} /\ None \notin Nat \cup {QUEUE}
    /\ DENOM \in Nat \ {0} /\ MAX_FEE \in 0 .. BPS
    /\ Horizons \subseteq Nat \ {0} /\ Prices \subseteq Nat
    /\ Amounts \subseteq Nat /\ Lots \subseteq Nat
    /\ Fees \subseteq Nat /\ Vests \subseteq Nat /\ InitialVest \in Nat
    /\ \A t \in AllTerms : t \in Terms
    /\ InitialTerms \in [Rwas -> Terms \cup {None}]
    /\ InitialQueue \in {QUEUE, None} /\ InitialPrice \in Prices
    /\ MaxAssets \in Nat /\ MaxEvents \in Nat /\ MaxTime \in Nat

(* One more event, within the bound.                                       *)
Event == events < MaxEvents /\ events' = events + 1

-----------------------------------------------------------------------------
(* A vault, as the facility uses it                                        *)

VSnap(v) == [nav |-> v.nav, supply |-> v.shares]
Position(v) == ToAssets(VSnap(v), v.shares)
Payable(v) == Lesser(Position(v), v.liquid)

CanPut(v, n) ==
    n > 0 /\ ToShares(VSnap(v), n) > 0 /\ v.nav + n <= MaxAssets
Put(v, n) ==
    [nav |-> v.nav + n, shares |-> v.shares + ToShares(VSnap(v), n),
     liquid |-> v.liquid + n]

CanPull(v, n) ==
    n > 0 /\ ToSharesUp(VSnap(v), n) <= v.shares /\ n <= v.liquid
Pull(v, n) ==
    [nav |-> v.nav - n, shares |-> v.shares - ToSharesUp(VSnap(v), n),
     liquid |-> v.liquid - n]

-----------------------------------------------------------------------------
(* Net asset value                                                         *)

(* The gain not yet released: the rest of a linear unlock.                 *)
LockedNow ==
    IF now >= lock.end \/ lock.locked = 0 THEN 0
    ELSE MulDiv(lock.locked, lock.end - now, lock.end - lock.last)

Listed(r) == terms[r] # None
Priced(r) == price[r] > 0
ValueOf(r) == MulDiv(Position(vault[r]), price[r], ONE)
Carried(r) == IF red[r] = None THEN 0 ELSE red[r].carried
WithIssuer(r) == IF red[r] = None THEN 0 ELSE red[r].amount

(* A listed RWA that is held needs a price, or the call reverts.           *)
CanMark == \A r \in Rwas : Listed(r) /\ Position(vault[r]) > 0 => Priced(r)

(* The NAV if the base vault were b.                                       *)
GrossWith(b) ==
    Position(b)
    + SumOver([r \in Rwas |-> IF Listed(r) THEN ValueOf(r) + Carried(r) ELSE 0], Rwas)
    - LockedNow
Gross == GrossWith(vault[Base])

CanSnap == CanMark /\ CanPrice(Gross)
SnapOf(t, b) == Snapshot(t, GrossWith(b), config.fee)
Snap == SnapOf(share, vault[Base])
AccruedAt(s) == Accrue(share, s, Curator)
Accrued == AccruedAt(Snap)

(* Base payable now, less what the queue is owed.                          *)
FreeForAll(t, b, s, who) == Payable(b)
Free(t, b, s, who) ==
    IF config.queue # None /\ who # config.queue
    THEN Floored(Payable(b) - ToAssetsUp(s, t.bal[config.queue]))
    ELSE Payable(b)

MaxWithdrawAt(s, owner) ==
    Lesser(ToAssets(s, share.bal[owner]), Free(share, vault[Base], s, owner))
MaxWithdraw(owner) == LET s == Snap IN MaxWithdrawAt(s, owner)

-----------------------------------------------------------------------------
(* Liquidity providers                                                     *)

(* Mints for what the facility's position gained.                          *)
Deposit(receiver, assets) ==
    LET b == vault[Base]
        got == Position(Put(b, assets)) - Position(b)
        s == Snap
        minted == ToShares(s, got)
    IN  /\ Admitted(share, receiver)
        /\ CanPut(b, assets)
        /\ CanSnap /\ CanConvert(s)
        /\ 0 < minted /\ s.supply + minted <= MaxShares
        /\ share' = Mint(AccruedAt(s), receiver, minted)
        /\ vault' = [vault EXCEPT ![Base] = Put(b, assets)]
        /\ UNCHANGED <<govVars, worldVars, red, lock, events>>

(* Redeeming against a ledger t and a base vault b, as `exit` does.        *)
CanExit(t, b, s, owner, burned, assets) ==
    /\ burned > 0 /\ assets > 0
    /\ assets <= Free(t, b, s, owner)
    /\ CanDebit(t, owner, burned)
    /\ CanPull(b, assets)

Exit(s, owner, burned, assets) ==
    /\ share' = Burn(AccruedAt(s), owner, burned)
    /\ vault' = [vault EXCEPT ![Base] = Pull(@, assets)]
    /\ UNCHANGED <<govVars, worldVars, red, lock, events>>

CanWithdrawUnpaused(s, owner, assets) ==
    /\ ~paused
    /\ CanSnap /\ CanConvert(s)
    /\ CanExit(AccruedAt(s), vault[Base], s, owner, ToSharesUp(s, assets), assets)
CanWithdraw(s, owner, assets) ==
    /\ CanSnap /\ CanConvert(s)
    /\ CanExit(AccruedAt(s), vault[Base], s, owner, ToSharesUp(s, assets), assets)

Withdraw(owner, assets) ==
    LET s == Snap
    IN  /\ CanWithdraw(s, owner, assets)
        /\ Exit(s, owner, ToSharesUp(s, assets), assets)

Redeem(owner, shares) ==
    LET s == Snap
        assets == ToAssets(s, shares)
    IN  /\ CanSnap
        /\ CanExit(AccruedAt(s), vault[Base], s, owner, shares, assets)
        /\ Exit(s, owner, shares, assets)

AccrueFee ==
    /\ CanSnap
    /\ share' = Accrued
    /\ UNCHANGED <<govVars, worldVars, vault, red, lock, events>>

TransferShares(from, to, n) ==
    /\ CanMove(share, from, to, n)
    /\ share' = Moved(share, from, to, n)
    /\ UNCHANGED <<govVars, worldVars, vault, red, lock, events>>

BurnShares(from, n) ==
    /\ Event
    /\ CanDebit(share, from, n)
    /\ share' = Burn(share, from, n)
    /\ UNCHANGED <<govVars, worldVars, vault, red, lock>>

-----------------------------------------------------------------------------
(* Trades                                                                  *)

(* A new gain re-weights the end of the unlock by size; a loss eats into   *)
(* what is locked.                                                         *)
BookGainUnlocked(gain) == [lock EXCEPT !.locked = LockedNow, !.last = now]
BookGain(gain) ==
    LET total == LockedNow + gain
        left == Floored(lock.end - now)
        span == IF total > 0
                THEN (LockedNow * left + gain * config.vest) \div total ELSE 0
    IN  IF gain >= 0
        THEN [locked |-> total, last |-> now, end |-> now + span]
        ELSE [locked |-> Floored(total), last |-> now, end |-> lock.end]

CanQuote(r) == Listed(r) /\ terms[r].accepted /\ Priced(r)

(* The base an RWA fetches, and its mark; the units a value buys.          *)
Bid(r, q, h) ==
    MulDiv(MulDiv(q, price[r], ONE), Floored(DENOM - terms[r].bid_rate * h), DENOM)
AskFactor(r, h) == DENOM - terms[r].ask_rate * h
Ask(r, value, h) == MulDiv(MulDiv(value, ONE, price[r]), DENOM, AskFactor(r, h))
MarkOf(token, q) == IF token = Base THEN q ELSE MulDiv(q, price[token], ONE)

Value(tin, q, h) == IF tin = Base THEN q ELSE Bid(tin, q, h)
Out(tin, tout, q, h) ==
    IF tout = Base THEN Value(tin, q, h) ELSE Ask(tout, Value(tin, q, h), h)

(* Base is paid out at its own value, which is the mark a gain is against. *)
GainOf(tin, tout, q, h) == MarkOf(tin, q) - MarkOf(tout, Out(tin, tout, q, h))

(* The input's share of NAV after the trade, against the NAV before it.    *)
WithinCap(r, v) ==
    MulDiv(Position(v), price[r], ONE)
        <= MulDiv(Floored(Gross), terms[r].max_bps, BPS)

Trade(recipient, tin, tout, q, h) ==
    LET out == Out(tin, tout, q, h)
        taken == Put(vault[tin], q)
    IN  /\ ~paused /\ q > 0 /\ tin # tout
        /\ tin # Base => CanQuote(tin)
        /\ tout # Base => /\ CanQuote(tout) /\ AskFactor(tout, h) > 0
                          /\ out <= Payable(vault[tout])
        /\ out > 0
        /\ CanPut(vault[tin], q)
        /\ tin # Base => taken.nav + WithIssuer(tin) <= MaxUnits
        /\ Position(taken) - Position(vault[tin]) + 1 >= q
        /\ CanSnap
        /\ tout = Base => out <= Free(Accrued, vault[Base], Snap, recipient)
        /\ CanPull(vault[tout], out)
        /\ tin # Base => WithinCap(tin, taken)
        /\ vault' = [vault EXCEPT ![tin] = taken, ![tout] = Pull(@, out)]
        /\ share' = Accrued
        /\ lock' = BookGain(GainOf(tin, tout, q, h))
        /\ IF recipient = QUEUE /\ tout = Base
           THEN Event /\ sunk' = sunk + out ELSE UNCHANGED <<sunk, events>>
        /\ UNCHANGED <<now, price, govVars, red>>

-----------------------------------------------------------------------------
(* Redemptions with the issuers                                            *)

Book(r, amount) ==
    /\ red[r] = None
    /\ Listed(r) /\ Priced(r)
    /\ CanPull(vault[r], amount)
    /\ CanSnap
    /\ vault' = [vault EXCEPT ![r] = Pull(@, amount)]
    /\ red' = [red EXCEPT ![r] =
                  [amount |-> amount, carried |-> MulDiv(amount, price[r], ONE)]]
    /\ share' = Accrued
    /\ UNCHANGED <<govVars, worldVars, lock, events>>

Settle(r, proceeds) ==
    /\ CanSnap
    /\ red[r] # None
    /\ proceeds >= red[r].carried
    /\ CanPut(vault[Base], proceeds)
    /\ vault' = [vault EXCEPT ![Base] = Put(@, proceeds)]
    /\ red' = [red EXCEPT ![r] = None]
    /\ lock' = BookGain(proceeds - red[r].carried)
    /\ share' = Accrued
    /\ UNCHANGED <<govVars, worldVars, events>>

WriteDown(r, recovered) ==
    /\ CanSnap
    /\ red[r] # None
    /\ recovered < red[r].carried
    /\ recovered > 0 => CanPut(vault[Base], recovered)
    /\ vault' = IF recovered > 0
                THEN [vault EXCEPT ![Base] = Put(@, recovered)] ELSE vault
    /\ red' = [red EXCEPT ![r] = None]
    /\ lock' = BookGain(recovered - red[r].carried)
    /\ share' = Accrued
    /\ UNCHANGED <<govVars, worldVars, events>>

-----------------------------------------------------------------------------
(* Governance                                                              *)

Proposals(kind) ==
    CASE kind = "Fee" -> {f \in Fees : f <= MAX_FEE}
      [] kind = "Vest" -> Vests
      [] kind = "Queue" -> {QUEUE}
      [] OTHER -> {t \in AllTerms : t.ask_rate <= t.bid_rate}

Submit(kind, to) ==
    /\ Event
    /\ pending' = [pending EXCEPT ![kind] = to]
    /\ UNCHANGED <<paused, config, terms, share, vault, red, lock, worldVars>>

Revoke(kind) ==
    /\ pending[kind] # None
    /\ pending' = [pending EXCEPT ![kind] = None]
    /\ UNCHANGED <<paused, config, terms, share, vault, red, lock, worldVars,
                   events>>

Take(kind) ==
    /\ pending[kind] # None
    /\ pending' = [pending EXCEPT ![kind] = None]

AcceptFee ==
    /\ Take("Fee")
    /\ CanSnap
    /\ share' = Accrued
    /\ config' = [config EXCEPT !.fee = pending["Fee"]]
    /\ UNCHANGED <<paused, terms, vault, red, lock, worldVars, events>>

AcceptVest ==
    /\ Take("Vest")
    /\ config' = [config EXCEPT !.vest = pending["Vest"]]
    /\ UNCHANGED <<paused, terms, share, vault, red, lock, worldVars, events>>

AcceptQueue ==
    /\ Take("Queue")
    /\ config' = [config EXCEPT !.queue = pending["Queue"]]
    /\ UNCHANGED <<paused, terms, share, vault, red, lock, worldVars, events>>

(* Lists an RWA, or replaces its terms.                                    *)
AcceptRwa(r) ==
    /\ Take(r)
    /\ terms' = [terms EXCEPT ![r] = pending[r]]
    /\ UNCHANGED <<paused, config, share, vault, red, lock, worldVars, events>>

RemoveRwa(r) ==
    /\ Event
    /\ Listed(r)
    /\ vault[r].shares = 0 /\ red[r] = None
    /\ terms' = [terms EXCEPT ![r] = None]
    /\ UNCHANGED <<paused, config, pending, share, vault, red, lock, worldVars>>

SetPaused(p) ==
    /\ Event
    /\ paused' = p
    /\ UNCHANGED <<config, pending, terms, share, vault, red, lock, worldVars>>

SetAllowlist(on) ==
    /\ Event
    /\ share' = [share EXCEPT !.allowlist = on]
    /\ UNCHANGED <<govVars, vault, red, lock, worldVars>>

SetMember(who, allowed) ==
    /\ Event
    /\ share' = [share EXCEPT !.member =
                    IF allowed THEN @ \cup {who} ELSE @ \ {who}]
    /\ UNCHANGED <<govVars, vault, red, lock, worldVars>>

-----------------------------------------------------------------------------
(* Oracles, the vaults' venues and time                                    *)

(* A price moves or goes stale; one that comes back is no event.           *)
PriceMoves(r, p) ==
    /\ IF Priced(r) THEN Event ELSE UNCHANGED events
    /\ p # price[r]
    /\ price' = [price EXCEPT ![r] = p]
    /\ UNCHANGED <<now, sunk, govVars, share, vault, red, lock>>

(* The base vault earns or loses a unit, or its venues lock it up or free  *)
(* it again.                                                               *)
VaultMoves(nav, liquid) ==
    LET b == vault[Base]
    IN  /\ Event
        /\ b.shares > 0
        /\ b.nav - 1 <= nav /\ nav <= b.nav + 1 /\ nav <= MaxAssets
        /\ liquid = Lesser(nav, b.liquid) \/ (nav = b.nav /\ liquid \in {0, nav})
        /\ vault' = [vault EXCEPT ![Base] = [b EXCEPT !.nav = nav, !.liquid = liquid]]
        /\ UNCHANGED <<worldVars, govVars, share, red, lock>>

(* Only an unlock reads the clock, so it stands still while none runs.     *)
Tick ==
    /\ now < MaxTime /\ LockedNow > 0
    /\ now' = now + 1
    /\ UNCHANGED <<price, sunk, govVars, share, vault, red, lock, events>>

Init ==
    /\ now = 0
    /\ paused = FALSE
    /\ config = [fee |-> 0, vest |-> InitialVest, queue |-> InitialQueue]
    /\ pending = [k \in Kinds |-> None]
    /\ terms = InitialTerms
    /\ share = EmptyLedger(Holders)
    /\ vault = [t \in Tokens |-> [nav |-> 0, shares |-> 0, liquid |-> 0]]
    /\ red = [r \in Rwas |-> None]
    /\ lock = [locked |-> 0, last |-> 0, end |-> 0]
    /\ price = [r \in Rwas |-> InitialPrice]
    /\ sunk = 0
    /\ events = 0

Provider ==
    \/ \E h \in Lps, n \in Amounts : Deposit(h, n) \/ Withdraw(h, n)
    \/ \E h \in Lps, n \in Lots :
          \/ Redeem(h, n) \/ BurnShares(h, n)
          \/ \E to \in Lps \cup {QUEUE} : TransferShares(h, to, n)
    \/ AccrueFee

(* A trade names any recipient; all but the queue are alike to it, and the *)
(* curator stands for them.                                                *)
Trading ==
    \/ \E to \in {Curator, QUEUE}, tin, tout \in Tokens, n \in Amounts,
          h \in Horizons : Trade(to, tin, tout, n, h)
    \/ \E r \in Rwas, n \in Amounts \cup {0} :
          Book(r, n) \/ Settle(r, n) \/ WriteDown(r, n)

Governance ==
    \/ \E k \in Kinds : (\E to \in Proposals(k) : Submit(k, to)) \/ Revoke(k)
    \/ AcceptFee \/ AcceptVest \/ AcceptQueue
    \/ \E r \in Rwas : AcceptRwa(r) \/ RemoveRwa(r)
    \/ \E on \in BOOLEAN :
          SetPaused(on) \/ SetAllowlist(on) \/ \E h \in Lps : SetMember(h, on)

World ==
    \/ \E r \in Rwas, p \in Prices : PriceMoves(r, p)
    \/ \E nav, liquid \in 0 .. MaxAssets : VaultMoves(nav, liquid)
    \/ Tick

Next == Provider \/ Trading \/ Governance \/ World
=============================================================================
