-------------------------------- MODULE Rfq --------------------------------
(***************************************************************************)
(* The settlement contract (contracts/rfq): signed duration-priced and     *)
(* fixed orders filled against signed requests, and Dutch listings held in *)
(* escrow.                                                                 *)
(*                                                                         *)
(* A Soroban call is atomic: it runs to the end or reverts.  Each entry    *)
(* point is therefore one action whose conjuncts are the call's checks and *)
(* effects in the code's order; a call that panics is a step not taken.    *)
(*                                                                         *)
(* A digest stands for the struct it hashes, so orders and requests are    *)
(* records and are used as the keys of the fill tables.  The price, the    *)
(* horizon and the rate ceiling a fill reads are pricing's answer          *)
(* (rfq/src/price.rs); here it is any member of Markets, chosen anew for   *)
(* every fill.  An allowance that is missing or spent disables a transfer  *)
(* exactly as a missing balance does, and is left to the balance.          *)
(***************************************************************************)
EXTENDS CommonMath, Sums, Sequences, FiniteSets

CONSTANTS
    Accounts,        \* every address that can hold a balance
    RFQ,             \* the settlement contract's own address
    Submitters,      \* the accounts that submit fills and listings
    None,            \* Option::None
    Keys,            \* ed25519 public keys
    OwnKey,          \* [Accounts -> Keys \cup {None}], None for a contract
    Signatures,      \* the <<key, message>> pairs signed off chain
    Delegations,     \* the <<account, key>> pairs that may be registered
    Tokens,          \* SEP-41 tokens
    Skewed,          \* tokens that may credit more or less than was sent
    RfqOrders,       \* duration-priced bids, records of orders::RfqOrder
    FixedOrders,     \* fixed bids, records of orders::FixedOrder
    DutchOrders,     \* the listings sellers may post
    Markets,         \* [rate, horizon, max_bps_per_day]: pricing's answers
    Configs,         \* the configurations an admin may set
    MaxAsks,         \* the max_maker_amount a buyer may pass
    InitialBalances, \* [Tokens -> [Accounts -> Nat]]
    ONE, DENOM, BPS, \* the price, discount and fee scales
    MaxTime,         \* bound on the ledger clock
    MaxListings      \* bound on the number of listings

VARIABLES
    now,             \* env.ledger().timestamp()
    paused,          \* DataKey::Paused
    config,          \* DataKey::Cfg: the fee bounds and the decay window
    bal,             \* token balances
    filled,          \* DataKey::Filled
    request_filled,  \* DataKey::RequestFilled
    salt_cancelled,  \* DataKey::SaltCancelled, the set of <<signer, salt>>
    signers,         \* DataKey::Signer, the set of <<maker, key>>
    listings,        \* DataKey::Listing; NextId is Len(listings) + 1
    paid,            \* history: maker tokens each order's maker has paid
    got,             \* history: maker tokens takers received for each order
    request_got      \* history: maker tokens received under each request

vars == <<now, paused, config, bal, filled, request_filled, salt_cancelled,
          signers, listings, paid, got, request_got>>

adminVars == <<paused, config>>
fillVars  == <<filled, request_filled, paid, got, request_got>>
authVars  == <<salt_cancelled, signers>>

-----------------------------------------------------------------------------
(* Orders and requests                                                     *)

Orders == RfqOrders \cup FixedOrders

(* The leading half of an order, which the taker signs before any bid.     *)
Request(o) ==
    [maker_token |-> o.maker_token, taker_token |-> o.taker_token,
     taker_amount |-> o.taker_amount,
     min_received_amount |-> o.min_received_amount, fee_bps |-> o.fee_bps,
     taker |-> o.taker, sender |-> o.sender,
     fee_recipient |-> o.fee_recipient, expiry |-> o.expiry, salt |-> o.salt,
     taker_max_bps_per_day |->
        IF o \in RfqOrders THEN o.taker_max_bps_per_day ELSE 0,
     order_type |-> IF o \in RfqOrders THEN "Rfq" ELSE "Fixed"]

Requests == {Request(o) : o \in Orders}
Salts == {o.salt : o \in Orders}

(* What a whole order may cost its maker.                                  *)
MakerCap(o) ==
    IF o \in RfqOrders THEN o.max_maker_amount ELSE o.maker_amount

(* A listing's terms, with amounts from a given set, and a stored listing. *)
DutchOrder(amounts) ==
    [maker_token : Tokens, taker_token : Tokens, taker_amount : amounts,
     start_maker_amount : amounts, min_maker_amount : amounts, fee_bps : Nat,
     fee_recipient : Accounts, expiry : Nat]
Listing ==
    [order : DutchOrder(Nat), seller : Accounts, created_at : Nat,
     decay_seconds : Nat, active : BOOLEAN]

(* What the proofs need of the constants: amounts are integers (i128), the *)
(* scales are positive, a rate, a fee or a horizon is unsigned, and only   *)
(* finitely many orders are ever signed.                                   *)
ASSUME ScaleAssumption ==
    /\ ONE \in Nat \ {0}
    /\ DENOM \in Nat \ {0}
    /\ BPS \in Nat \ {0}
    /\ MaxTime \in Nat
    /\ MaxListings \in Nat

ASSUME OrderAssumption ==
    /\ RfqOrders \cap FixedOrders = {}
    /\ IsFiniteSet(Orders)
    /\ \A o \in Orders : /\ o.taker_amount \in Int
                         /\ o.min_received_amount \in Int
                         /\ o.fee_bps \in Nat
                         /\ o.expiry \in Nat
                         /\ o.maker_token \in Tokens
                         /\ o.taker_token \in Tokens
                         /\ o.maker \in Accounts
                         /\ o.fee_recipient \in Accounts
                         /\ o.taker \in Accounts \cup {None}
    /\ \A o \in RfqOrders : /\ o.max_maker_amount \in Int
                            /\ o.maker_bps_per_day \in Nat
                            /\ o.taker_max_bps_per_day \in Nat
    /\ \A o \in FixedOrders : o.maker_amount \in Int

ASSUME WorldAssumption ==
    /\ RFQ \in Accounts /\ RFQ \notin Submitters /\ None \notin Accounts
    /\ Submitters \subseteq Accounts
    /\ Delegations \subseteq (Accounts \ {RFQ}) \X Keys
    /\ Skewed \subseteq Tokens
    /\ OwnKey \in [Accounts -> Keys \cup {None}] /\ None \notin Keys
    /\ OwnKey[RFQ] = None
    /\ InitialBalances \in [Tokens -> [Accounts -> Nat]]
    /\ \A m \in Markets : /\ m.rate \in Nat
                          /\ m.horizon \in Nat
                          /\ m.max_bps_per_day \in Nat
    /\ Configs \subseteq [min_fee_bps : Nat, max_fee_bps : Nat,
                          decay_seconds : Nat]
    /\ DutchOrders \subseteq DutchOrder(Int)
    /\ MaxAsks \subseteq Int

-----------------------------------------------------------------------------
(* Tokens (external SEP-41 contracts, as deliver and pay use them)         *)

(* What the receiver of a transfer may be credited.                        *)
Credits(tok, amount) ==
    IF tok \in Skewed THEN 0 .. amount + 1 ELSE {amount}

(* The balances after a transfer: the sender loses the amount, then the    *)
(* receiver gains the credit; a transfer to oneself of a plain token is    *)
(* therefore no change.                                                    *)
Transfer(b, tok, from, to, amount, credit) ==
    LET debited == [b EXCEPT ![tok][from] = @ - amount]
    IN  [debited EXCEPT ![tok][to] = @ + credit]

(* As Transfer, when the code skips a transfer of nothing.                 *)
TransferPositive(b, tok, from, to, amount, credit) ==
    IF amount > 0 THEN Transfer(b, tok, from, to, amount, credit) ELSE b

(* What a balance grew by between two states of the ledger.                *)
Received(b1, b2, tok, who) == b2[tok][who] - b1[tok][who]

-----------------------------------------------------------------------------
(* Checks shared by the entry points                                       *)

CheckFee(fee_bps) ==
    config.min_fee_bps <= fee_bps /\ fee_bps <= config.max_fee_bps

(* A signature over msg binds party when its key is the party's own or one *)
(* the party has registered and not withdrawn.                             *)
Authorised(party, key) == key = OwnKey[party] \/ <<party, key>> \in signers
Verify(party, msg) ==
    \E key \in Keys : <<key, msg>> \in Signatures /\ Authorised(party, key)

CheckTerms(r, amount) ==
    /\ ~paused
    /\ r.maker_token # r.taker_token
    /\ amount > 0 /\ r.taker_amount > 0 /\ r.min_received_amount > 0
    /\ now < r.expiry
    /\ CheckFee(r.fee_bps)

CheckSender(r, sender) == r.sender \in {None, sender}

CheckTakerConsent(r, sender) == r.taker = sender \/ Verify(r.taker, r)

(* One taker signature serves every bid on its request, so the request's   *)
(* own fill is counted across them.                                        *)
BookRequestUnlessFull(r, amount) ==
    /\ request_filled[r] < r.taker_amount
    /\ request_filled' = [request_filled EXCEPT ![r] = @ + amount]
BookRequest(r, amount) ==
    /\ request_filled[r] + amount <= r.taker_amount
    /\ request_filled' = [request_filled EXCEPT ![r] = @ + amount]

(* With no taker named the submitter becomes the taker and the request is  *)
(* not tracked: the code returns before the taker's salt is looked at.     *)
ValidateMakerSaltOnly(r, maker, sender, amount) ==
    /\ CheckTerms(r, amount)
    /\ CheckSender(r, sender)
    /\ <<maker, r.salt>> \notin salt_cancelled
    /\ \/ r.taker = None /\ UNCHANGED request_filled
       \/ /\ r.taker # None
          /\ CheckTakerConsent(r, sender)
          /\ BookRequest(r, amount)
ValidateCommon(r, maker, sender, amount) ==
    /\ CheckTerms(r, amount)
    /\ CheckSender(r, sender)
    /\ <<maker, r.salt>> \notin salt_cancelled
    /\ \/ r.taker = None /\ UNCHANGED request_filled
       \/ /\ r.taker # None
          /\ <<r.taker, r.salt>> \notin salt_cancelled
          /\ CheckTakerConsent(r, sender)
          /\ BookRequest(r, amount)

TakerOf(o, sender) == IF o.taker = None THEN sender ELSE o.taker

TakeFill(o, amount) ==
    /\ filled[o] + amount <= o.taker_amount
    /\ filled' = [filled EXCEPT ![o] = @ + amount]

(* What deliver reports: the receiver's measured gain, clamped to the      *)
(* amount asked for.                                                       *)
DeliveredUnclamped(b1, tok, to, amount) == Received(bal, b1, tok, to)
DeliveredAssumed(b1, tok, to, amount) == amount
Delivered(b1, tok, to, amount) ==
    IF Received(bal, b1, tok, to) > amount
    THEN amount ELSE Received(bal, b1, tok, to)

(* pay: the net to the receiver, then the fee, both from the payer.  The   *)
(* call stands if the receiver's gain over both, measured and not clamped, *)
(* reaches the floor its caller checks.                                    *)
PayFloorOnSent(b1, tok, payer, to, fee_to, net, fee, floor) ==
    \E cn \in Credits(tok, net), cf \in Credits(tok, fee) :
        LET b2 == TransferPositive(b1, tok, payer, to, net, cn)
        IN  /\ b1[tok][payer] >= net
            /\ b2[tok][payer] >= fee
            /\ net >= floor
            /\ bal' = TransferPositive(b2, tok, payer, fee_to, fee, cf)
Pay(b1, tok, payer, to, fee_to, net, fee, floor) ==
    \E cn \in Credits(tok, net), cf \in Credits(tok, fee) :
        LET b2 == TransferPositive(b1, tok, payer, to, net, cn)
            b3 == TransferPositive(b2, tok, payer, fee_to, fee, cf)
        IN  /\ b1[tok][payer] >= net
            /\ b2[tok][payer] >= fee
            /\ Received(b1, b3, tok, to) >= floor
            /\ bal' = b3

FeeOn(amount, fee_bps) == MulDiv(amount, fee_bps, BPS)

-----------------------------------------------------------------------------
(* Signed orders                                                           *)

(* quote: the rate is within the asset's ceiling and the taker's, and the  *)
(* discount to redemption is less than the whole.                          *)
Quotable(o, m) ==
    /\ o.maker_bps_per_day <= m.max_bps_per_day
    /\ o.maker_bps_per_day <= o.taker_max_bps_per_day
    /\ o.maker_bps_per_day * m.horizon < DENOM
Quote(o, m, amount) ==
    MulDiv(MulDiv(amount, m.rate, ONE),
           DENOM - o.maker_bps_per_day * m.horizon, DENOM)

(* The maker's ceiling for a slice of the order, rounded down.             *)
SliceCap(o, amount) == MulDiv(o.max_maker_amount, amount, o.taker_amount)

(* check_floor: the taker's floor for a slice of the order, rounded up.    *)
SliceFloorDown(o, amount) ==
    MulDiv(o.min_received_amount, amount, o.taker_amount)
SliceFloor(o, amount) ==
    MulDivCeil(o.min_received_amount, amount, o.taker_amount)

MakerSignedByAnyKey(o) == \E key \in Keys : <<key, o>> \in Signatures
MakerSigned(o) == Verify(o.maker, o)

(* The second half of both fills: the maker pays, the taker's floor is     *)
(* checked, and the histories record what moved.                           *)
PayTaker(o, taker, b1, amount, maker_amount) ==
    LET fee == FeeOn(maker_amount, o.fee_bps)
        received == Received(b1, bal', o.maker_token, taker)
    IN  /\ Pay(b1, o.maker_token, o.maker, taker, o.fee_recipient,
               maker_amount - fee, fee, SliceFloor(o, amount))
        /\ paid' = [paid EXCEPT ![o] = @ + maker_amount]
        /\ got' = [got EXCEPT ![o] = @ + received]
        /\ request_got' =
             IF o.taker = None THEN request_got
             ELSE [request_got EXCEPT ![Request(o)] = @ + received]

FillRfqOrder(o, sender, amount) ==
    /\ ValidateCommon(Request(o), o.maker, sender, amount)
    /\ TakeFill(o, amount)
    /\ MakerSigned(o)
    /\ \E credit \in Credits(o.taker_token, amount), m \in Markets :
         LET taker == TakerOf(o, sender)
             b1 == Transfer(bal, o.taker_token, taker, o.maker, amount, credit)
             delivered == Delivered(b1, o.taker_token, o.maker, amount)
             quoted == Quote(o, m, delivered)
         IN  /\ bal[o.taker_token][taker] >= amount
             /\ delivered > 0
             /\ Quotable(o, m)
             /\ o.max_maker_amount >= 0
             /\ quoted <= SliceCap(o, amount)
             /\ PayTaker(o, taker, b1, amount, quoted)
    /\ UNCHANGED <<now, adminVars, authVars, listings>>

(* A fixed order's price is its own ratio, so there is no cap to check.    *)
FillFixedOrder(o, sender, amount) ==
    /\ ValidateCommon(Request(o), o.maker, sender, amount)
    /\ TakeFill(o, amount)
    /\ MakerSigned(o)
    /\ \E credit \in Credits(o.taker_token, amount) :
         LET taker == TakerOf(o, sender)
             b1 == Transfer(bal, o.taker_token, taker, o.maker, amount, credit)
             delivered == Delivered(b1, o.taker_token, o.maker, amount)
         IN  /\ bal[o.taker_token][taker] >= amount
             /\ delivered > 0
             /\ o.maker_amount >= 0
             /\ PayTaker(o, taker, b1, amount,
                         MulDiv(o.maker_amount, delivered, o.taker_amount))
    /\ UNCHANGED <<now, adminVars, authVars, listings>>

RegisterOrderSigner(maker, key, allowed) ==
    /\ signers' = IF allowed THEN signers \cup {<<maker, key>>}
                             ELSE signers \ {<<maker, key>>}
    /\ UNCHANGED <<now, adminVars, bal, fillVars, salt_cancelled, listings>>

(* The signer retracts a salt, or a hot key it has registered does.        *)
CancelSalt(caller, signer, salt) ==
    /\ \/ caller = signer
       \/ <<signer, OwnKey[caller]>> \in signers
    /\ salt_cancelled' = salt_cancelled \cup {<<signer, salt>>}
    /\ UNCHANGED <<now, adminVars, bal, fillVars, signers, listings>>

-----------------------------------------------------------------------------
(* Dutch listings                                                          *)

CheckListing(d) ==
    /\ ~paused
    /\ d.maker_token # d.taker_token
    /\ d.expiry = 0 \/ d.expiry > now
    /\ d.taker_amount > 0 /\ d.min_maker_amount > 0
    /\ d.start_maker_amount >= d.min_maker_amount
    /\ config.decay_seconds = 0 => d.start_maker_amount = d.min_maker_amount
    /\ CheckFee(d.fee_bps)

(* The terms scaled to what was escrowed.                                  *)
Rescale(d, escrowed) ==
    IF escrowed = d.taker_amount THEN d
    ELSE [d EXCEPT
            !.start_maker_amount = MulDiv(@, escrowed, d.taker_amount),
            !.min_maker_amount = MulDiv(@, escrowed, d.taker_amount),
            !.taker_amount = escrowed]

(* The ask at time t: linear from start to floor over the window the       *)
(* listing was created with, then resting on the floor.                    *)
AskLiveWindow(l, t) ==
    LET elapsed == t - l.created_at
        start == l.order.start_maker_amount
        floor == l.order.min_maker_amount
    IN  IF config.decay_seconds = 0 \/ elapsed >= config.decay_seconds
        THEN floor
        ELSE start - MulDiv(start - floor, elapsed, config.decay_seconds)
Ask(l, t) ==
    LET elapsed == t - l.created_at
        start == l.order.start_maker_amount
        floor == l.order.min_maker_amount
    IN  IF l.decay_seconds = 0 \/ elapsed >= l.decay_seconds THEN floor
        ELSE start - MulDiv(start - floor, elapsed, l.decay_seconds)

CreateDutchOrder(seller, d) ==
    /\ Len(listings) < MaxListings
    /\ CheckListing(d)
    /\ bal[d.taker_token][seller] >= d.taker_amount
    /\ \E credit \in Credits(d.taker_token, d.taker_amount) :
         LET b1 == Transfer(bal, d.taker_token, seller, RFQ, d.taker_amount,
                            credit)
             escrowed == Delivered(b1, d.taker_token, RFQ, d.taker_amount)
             terms == Rescale(d, escrowed)
         IN  /\ escrowed > 0
             /\ terms.min_maker_amount > 0
             /\ bal' = b1
             /\ listings' = Append(listings,
                    [order |-> terms, seller |-> seller, created_at |-> now,
                     decay_seconds |-> config.decay_seconds, active |-> TRUE])
    /\ UNCHANGED <<now, adminVars, fillVars, authVars>>

(* The escrow leaving the contract for an account: the ledger afterwards.  *)
CanRelease(l) == bal[l.order.taker_token][RFQ] >= l.order.taker_amount
Release(l, to, credit) ==
    Transfer(bal, l.order.taker_token, RFQ, to, l.order.taker_amount, credit)
ReleaseCredits(l) == Credits(l.order.taker_token, l.order.taker_amount)

Deactivate(id) == listings' = [listings EXCEPT ![id].active = FALSE]

FillDutchOrder(id, buyer, max_maker_amount) ==
    LET l == listings[id]
        maker_amount == Ask(l, now)
        fee == FeeOn(maker_amount, l.order.fee_bps)
    IN  /\ ~paused
        /\ l.active
        /\ l.order.expiry = 0 \/ now <= l.order.expiry
        /\ CheckFee(l.order.fee_bps)
        /\ 0 < maker_amount /\ maker_amount <= max_maker_amount
        /\ Deactivate(id)
        /\ CanRelease(l)
        /\ \E credit \in ReleaseCredits(l) :
              Pay(Release(l, buyer, credit), l.order.maker_token, buyer,
                  l.seller, l.order.fee_recipient, maker_amount - fee, fee,
                  maker_amount - fee)
        /\ UNCHANGED <<now, adminVars, fillVars, authVars>>

(* The seller takes the escrow back; the pause switch does not stop it.    *)
CancelDutchOrderUnpaused(id) ==
    LET l == listings[id]
    IN  /\ ~paused
        /\ l.active
        /\ Deactivate(id)
        /\ CanRelease(l)
        /\ \E credit \in ReleaseCredits(l) : bal' = Release(l, l.seller, credit)
        /\ UNCHANGED <<now, adminVars, fillVars, authVars>>
CancelDutchOrder(id) ==
    LET l == listings[id]
    IN  /\ l.active
        /\ Deactivate(id)
        /\ CanRelease(l)
        /\ \E credit \in ReleaseCredits(l) : bal' = Release(l, l.seller, credit)
        /\ UNCHANGED <<now, adminVars, fillVars, authVars>>

-----------------------------------------------------------------------------
(* The admin                                                               *)

ValidConfig(c) == c.min_fee_bps <= c.max_fee_bps /\ c.max_fee_bps <= BPS \div 5

SetConfig(c) ==
    /\ ValidConfig(c)
    /\ config' = c
    /\ UNCHANGED <<now, paused, bal, fillVars, authVars, listings>>

SetPaused(p) ==
    /\ paused' = p
    /\ UNCHANGED <<now, config, bal, fillVars, authVars, listings>>

-----------------------------------------------------------------------------
(* A ledger closes.                                                        *)
Tick ==
    /\ now < MaxTime
    /\ now' = now + 1
    /\ UNCHANGED <<adminVars, bal, fillVars, authVars, listings>>

(* The state initialize leaves: fees up to a tenth, no decay window.       *)
Init ==
    /\ now = 0
    /\ paused = FALSE
    /\ config = [min_fee_bps |-> 0, max_fee_bps |-> BPS \div 10,
                 decay_seconds |-> 0]
    /\ bal = InitialBalances
    /\ filled = [o \in Orders |-> 0]
    /\ request_filled = [r \in Requests |-> 0]
    /\ salt_cancelled = {}
    /\ signers = {}
    /\ listings = << >>
    /\ paid = [o \in Orders |-> 0]
    /\ got = [o \in Orders |-> 0]
    /\ request_got = [r \in Requests |-> 0]

Amounts(o) == 1 .. o.taker_amount

Next ==
    \/ \E o \in RfqOrders, s \in Submitters : \E a \in Amounts(o) :
          FillRfqOrder(o, s, a)
    \/ \E o \in FixedOrders, s \in Submitters : \E a \in Amounts(o) :
          FillFixedOrder(o, s, a)
    \/ \E d \in Delegations, allowed \in BOOLEAN :
          RegisterOrderSigner(d[1], d[2], allowed)
    \/ \E c \in Accounts \ {RFQ}, o \in Orders :
          \E s \in {o.maker, o.taker} \ {None} : CancelSalt(c, s, o.salt)
    \/ \E s \in Submitters, d \in DutchOrders : CreateDutchOrder(s, d)
    \/ \E id \in DOMAIN listings, b \in Submitters, m \in MaxAsks :
          FillDutchOrder(id, b, m)
    \/ \E id \in DOMAIN listings :
          listings[id].seller \in Submitters /\ CancelDutchOrder(id)
    \/ \E c \in Configs : SetConfig(c)
    \/ \E p \in BOOLEAN : SetPaused(p)
    \/ Tick

Spec == Init /\ [][Next]_vars

-----------------------------------------------------------------------------
(* Properties                                                              *)

(* Every variable keeps its shape, and no balance is ever negative.        *)
TypeOK ==
    /\ now \in 0 .. MaxTime
    /\ paused \in BOOLEAN
    /\ config \in [min_fee_bps : Nat, max_fee_bps : Nat, decay_seconds : Nat]
    /\ bal \in [Tokens -> [Accounts -> Nat]]
    /\ filled \in [Orders -> Nat]
    /\ request_filled \in [Requests -> Nat]
    /\ salt_cancelled \subseteq Accounts \X Salts
    /\ signers \subseteq Accounts \X Keys
    /\ listings \in Seq(Listing)
    /\ paid \in [Orders -> Nat]
    /\ got \in [Orders -> Int]
    /\ request_got \in [Requests -> Int]

(* No slice takes an order or a request past its size.                     *)
FillsBounded ==
    /\ \A o \in Orders : filled[o] > 0 => filled[o] <= o.taker_amount
    /\ \A r \in Requests :
          request_filled[r] > 0 => request_filled[r] <= r.taker_amount

(* No sequence of slices fills an order past its size, nor, over all the   *)
(* bids that adopt it, a request past what its taker signed for; and the   *)
(* request's counter is exactly what its bids have taken.                  *)
NoOverfill ==
    /\ FillsBounded
    /\ \A r \in Requests : r.taker # None =>
          request_filled[r] = SumOver(filled, {o \in Orders : Request(o) = r})

(* However an order is split into slices, and whatever the price does      *)
(* between them, its maker has never paid more than the signed ceiling's   *)
(* share of what was filled.                                               *)
MakerProRata ==
    \A o \in Orders : paid[o] * o.taker_amount <= MakerCap(o) * filled[o]

(* Nor has the taker received less than the signed floor's share, for one  *)
(* order or for a request served by several bids.                          *)
TakerProRata ==
    /\ \A o \in Orders :
          got[o] * o.taker_amount >= o.min_received_amount * filled[o]
    /\ \A r \in Requests :
          request_got[r] * r.taker_amount
             >= r.min_received_amount * request_filled[r]

(* Once a maker or a named taker has cancelled a salt, no order under it   *)
(* fills again, whatever keys are registered or withdrawn.                 *)
CancelledNeverFills ==
    [][\A o \in Orders :
          \/ <<o.maker, o.salt>> \in salt_cancelled
          \/ <<o.taker, o.salt>> \in salt_cancelled
          => /\ filled'[o] = filled[o]
             /\ salt_cancelled \subseteq salt_cancelled']_vars

(* An account that submits nothing itself is only ever debited by an order *)
(* that it, or a hot key it still has registered, signed: its own order as *)
(* the maker, or its own request as the taker.                             *)
OfflineDebitsAreSigned ==
    [][\A t \in Tokens, a \in Accounts \ (Submitters \cup {RFQ}) :
          bal'[t][a] < bal[t][a] =>
             \E o \in Orders :
                /\ filled'[o] > filled[o]
                /\ \/ a = o.maker /\ t = o.maker_token /\ Verify(a, o)
                   \/ a = o.taker /\ t = o.taker_token /\ Verify(a, Request(o))
      ]_vars

ActiveListings(tok) ==
    {id \in DOMAIN listings :
        listings[id].active /\ listings[id].order.taker_token = tok}

Escrows == [id \in DOMAIN listings |-> listings[id].order.taker_amount]

(* The contract always holds what its live listings escrowed, so releasing *)
(* one never takes another's.                                              *)
EscrowCovered ==
    \A tok \in Tokens :
        bal[tok][RFQ] >= SumOver(Escrows, ActiveListings(tok))

(* A live listing's ask only falls, and never leaves its curve, even when  *)
(* the admin moves the decay window under it.                              *)
AskOnlyFalls ==
    [][\A id \in DOMAIN listings :
          LET l == listings[id] IN l.active =>
            /\ Ask(listings[id], now)' <= Ask(l, now)
            /\ Ask(l, now) \in
                  l.order.min_maker_amount .. l.order.start_maker_amount]_vars

(* A listing ends once and for all.  Whatever its tokens do to a transfer, *)
(* its seller has then been credited at least the ask of that moment less  *)
(* the fee on it, or the whole escrow has left the contract for the seller *)
(* and nothing else has moved.                                             *)
SellerMadeWhole ==
    [][\A id \in DOMAIN listings :
          LET l == listings[id]
              o == l.order
              ask == Ask(l, now)
          IN  /\ ~l.active => listings'[id] = l
              /\ l.active /\ ~listings'[id].active =>
                   \/ Received(bal, bal', o.maker_token, l.seller)
                         >= ask - FeeOn(ask, o.fee_bps)
                   \/ \E c \in Credits(o.taker_token, o.taker_amount) :
                         bal' = Transfer(bal, o.taker_token, RFQ, l.seller,
                                         o.taker_amount, c)
      ]_vars

(* Nothing an admin does, pausing included, stops a seller cancelling.     *)
SellerCanCancel ==
    \A id \in DOMAIN listings :
        listings[id].active => ENABLED CancelDutchOrder(id)
=============================================================================
