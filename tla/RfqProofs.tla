------------------------------ MODULE RfqProofs ------------------------------
(***************************************************************************)
(* Theorems about the settlement contract, for every set of orders,        *)
(* accounts, tokens, prices and configurations.                            *)
(***************************************************************************)
EXTENDS Rfq, ArithmeticTheorems

Ledger == [Tokens -> [Accounts -> Nat]]

-----------------------------------------------------------------------------
(* Ledgers                                                                 *)

(* A token credits a natural amount.                                       *)
LEMMA CreditsNat ==
    ASSUME NEW tok, NEW amount \in Nat
    PROVE  Credits(tok, amount) \subseteq Nat
  BY DEF Credits

(* A covered transfer keeps every balance natural.                         *)
LEMMA TransferType ==
    ASSUME NEW b \in Ledger, NEW tok \in Tokens, NEW from \in Accounts,
           NEW to \in Accounts, NEW amount \in Nat, NEW credit \in Nat,
           b[tok][from] >= amount
    PROVE  Transfer(b, tok, from, to, amount, credit) \in Ledger
  <1> DEFINE debited == [b EXCEPT ![tok][from] = @ - amount]
  <1>1. b[tok][from] - amount \in Nat
    BY DEF Ledger
  <1>2. debited \in Ledger
    BY <1>1 DEF Ledger
  <1> HIDE DEF debited
  <1>3. [debited EXCEPT ![tok][to] = @ + credit] \in Ledger
    BY <1>2 DEF Ledger
  <1>4. QED
    BY <1>3 DEF Transfer, debited

(* So does a covered transfer that is skipped when there is nothing to     *)
(* send.                                                                   *)
LEMMA TransferPositiveType ==
    ASSUME NEW b \in Ledger, NEW tok \in Tokens, NEW from \in Accounts,
           NEW to \in Accounts, NEW amount \in Int,
           NEW credit \in Credits(tok, amount), b[tok][from] >= amount
    PROVE  TransferPositive(b, tok, from, to, amount, credit) \in Ledger
  <1>1. CASE amount > 0
    <2>1. amount \in Nat /\ credit \in Nat
      BY <1>1, CreditsNat
    <2>2. QED
      BY <1>1, <2>1, TransferType DEF TransferPositive
  <1>2. CASE ~(amount > 0)
    BY <1>2 DEF TransferPositive
  <1>3. QED
    BY <1>1, <1>2

(* pay leaves a ledger in which the receiver has gained at least the floor *)
(* it was checked against.                                                 *)
LEMMA PayType ==
    ASSUME NEW b1 \in Ledger, NEW tok \in Tokens, NEW payer \in Accounts,
           NEW to \in Accounts, NEW fee_to \in Accounts, NEW net \in Int,
           NEW fee \in Int, NEW floor \in Int,
           Pay(b1, tok, payer, to, fee_to, net, fee, floor)
    PROVE  /\ bal' \in Ledger
           /\ Received(b1, bal', tok, to) \in Int
           /\ Received(b1, bal', tok, to) >= floor
  <1>1. PICK cn \in Credits(tok, net), cf \in Credits(tok, fee) :
            LET b2 == TransferPositive(b1, tok, payer, to, net, cn)
                b3 == TransferPositive(b2, tok, payer, fee_to, fee, cf)
            IN  /\ b1[tok][payer] >= net
                /\ b2[tok][payer] >= fee
                /\ Received(b1, b3, tok, to) >= floor
                /\ bal' = b3
    BY DEF Pay
  <1> DEFINE b2 == TransferPositive(b1, tok, payer, to, net, cn)
             b3 == TransferPositive(b2, tok, payer, fee_to, fee, cf)
  <1>2. b2 \in Ledger
    BY <1>1, TransferPositiveType
  <1>3. b2[tok][payer] >= fee
    BY <1>1
  <1> HIDE DEF b2
  <1>4. b3 \in Ledger
    BY <1>2, <1>3, TransferPositiveType
  <1>5. bal' = b3 /\ Received(b1, b3, tok, to) >= floor
    BY <1>1 DEF b2
  <1> HIDE DEF b3
  <1>6. Received(b1, b3, tok, to) \in Int
    BY <1>4 DEF Received, Ledger
  <1>7. QED
    BY <1>4, <1>5, <1>6

(* What deliver reports is at most the amount asked for.                   *)
LEMMA DeliveredBound ==
    ASSUME bal \in Ledger, NEW b1 \in Ledger, NEW tok \in Tokens,
           NEW to \in Accounts, NEW amount \in Int
    PROVE  /\ Delivered(b1, tok, to, amount) \in Int
           /\ Delivered(b1, tok, to, amount) <= amount
  BY DEF Delivered, Received, Ledger

-----------------------------------------------------------------------------
(* Fills                                                                   *)

(* What a fill of amount does to the books, when the maker pays x for it   *)
(* and the taker receives g.                                               *)
Fills(o, amount, x, g) ==
    /\ filled[o] + amount <= o.taker_amount
    /\ filled' = [filled EXCEPT ![o] = @ + amount]
    /\ paid' = [paid EXCEPT ![o] = @ + x]
    /\ x * o.taker_amount <= MakerCap(o) * amount
    /\ got' = [got EXCEPT ![o] = @ + g]
    /\ g * o.taker_amount >= o.min_received_amount * amount
    /\ \/ o.taker = None /\ UNCHANGED <<request_filled, request_got>>
       \/ /\ o.taker # None
          /\ request_filled[Request(o)] + amount <= o.taker_amount
          /\ request_filled' =
                [request_filled EXCEPT ![Request(o)] = @ + amount]
          /\ request_got' = [request_got EXCEPT ![Request(o)] = @ + g]

(* A request carries its orders' size, floor and taker.                    *)
LEMMA RequestFields ==
    ASSUME NEW o \in Orders
    PROVE  /\ Request(o) \in Requests
           /\ Request(o).taker_amount = o.taker_amount
           /\ Request(o).min_received_amount = o.min_received_amount
           /\ Request(o).taker = o.taker
           /\ Request(o).fee_bps = o.fee_bps
  BY DEF Request, Requests

(* The taker is an account: the named one, or whoever submits.             *)
LEMMA TakerType ==
    ASSUME NEW o \in Orders, NEW sender \in Accounts
    PROVE  TakerOf(o, sender) \in Accounts
  BY OrderAssumption DEF TakerOf

(* The checks before any token moves.                                      *)
LEMMA ValidatedFacts ==
    ASSUME NEW o \in Orders, NEW sender, NEW amount \in Int,
           ValidateCommon(Request(o), o.maker, sender, amount)
    PROVE  /\ amount > 0 /\ o.taker_amount > 0 /\ o.min_received_amount > 0
           /\ \/ o.taker = None /\ UNCHANGED request_filled
              \/ /\ o.taker # None
                 /\ request_filled[Request(o)] + amount <= o.taker_amount
                 /\ request_filled' =
                       [request_filled EXCEPT ![Request(o)] = @ + amount]
  BY RequestFields DEF ValidateCommon, CheckTerms, BookRequest

(* A fee on a natural amount is natural.                                   *)
LEMMA FeeNat ==
    ASSUME NEW amount \in Nat, NEW fee_bps \in Nat
    PROVE  FeeOn(amount, fee_bps) \in Nat
  BY ScaleAssumption, MulDivBelow DEF FeeOn

(* The maker's payment for a slice, whatever it was priced at.             *)
LEMMA PayTakerEffect ==
    ASSUME TypeOK, NEW o \in Orders, NEW taker \in Accounts,
           NEW b1 \in Ledger, NEW amount \in Nat, NEW x \in Nat,
           o.taker_amount > 0, o.min_received_amount > 0,
           PayTaker(o, taker, b1, amount, x)
    PROVE  /\ bal' \in Ledger
           /\ paid' = [paid EXCEPT ![o] = @ + x]
           /\ \E g \in Int :
                /\ got' = [got EXCEPT ![o] = @ + g]
                /\ g * o.taker_amount >= o.min_received_amount * amount
                /\ request_got' =
                     IF o.taker = None THEN request_got
                     ELSE [request_got EXCEPT ![Request(o)] = @ + g]
  <1> DEFINE fee == FeeOn(x, o.fee_bps)
             g == Received(b1, bal', o.maker_token, taker)
             t == o.taker_amount
             m == o.min_received_amount
             floor == SliceFloor(o, amount)
  <1>1. /\ t \in Nat \ {0} /\ m \in Nat /\ o.fee_bps \in Nat
        /\ o.maker_token \in Tokens /\ o.maker \in Accounts
        /\ o.fee_recipient \in Accounts
    BY OrderAssumption
  <1>2. fee \in Nat
    BY <1>1, ScaleAssumption, MulDivBelow DEF FeeOn
  <1>3. floor \in Nat /\ floor * t >= m * amount
    BY <1>1, MulDivCeilAbove DEF SliceFloor
  <1>4. /\ Pay(b1, o.maker_token, o.maker, taker, o.fee_recipient,
               x - fee, fee, floor)
        /\ paid' = [paid EXCEPT ![o] = @ + x]
        /\ got' = [got EXCEPT ![o] = @ + g]
        /\ request_got' = IF o.taker = None THEN request_got
                          ELSE [request_got EXCEPT ![Request(o)] = @ + g]
    BY DEF PayTaker
  <1>5. x - fee \in Int /\ fee \in Int /\ floor \in Int
    BY <1>2, <1>3
  <1> HIDE DEF fee, floor
  <1>6. bal' \in Ledger /\ g \in Int /\ g >= floor
    BY <1>1, <1>4, <1>5, PayType
  <1>7. g * t >= m * amount
    <2>1. g * t >= floor * t
      BY <1>1, <1>3, <1>6
    <2>2. m * amount \in Int /\ floor * t \in Int /\ g * t \in Int
      BY <1>1, <1>3, <1>6
    <2>3. QED
      BY <1>3, <2>1, <2>2
  <1>8. QED
    BY <1>4, <1>6, <1>7

(* A quote is a natural amount: the discount is less than the whole.       *)
LEMMA QuoteNat ==
    ASSUME NEW o \in RfqOrders, NEW mk \in Markets, NEW amount \in Nat,
           Quotable(o, mk)
    PROVE  Quote(o, mk, amount) \in Nat
  <1>1. mk.rate \in Nat /\ mk.horizon \in Nat /\ o.maker_bps_per_day \in Nat
    BY WorldAssumption, OrderAssumption
  <1>2. MulDiv(amount, mk.rate, ONE) \in Nat
    BY <1>1, ScaleAssumption, MulDivBelow
  <1>3. DENOM - o.maker_bps_per_day * mk.horizon \in Nat
    BY <1>1, ScaleAssumption DEF Quotable
  <1>4. QED
    BY <1>2, <1>3, ScaleAssumption, MulDivBelow DEF Quote

(* A duration-priced fill stays within the slice's share of the cap.       *)
LEMMA FillRfqEffect ==
    ASSUME TypeOK, NEW o \in RfqOrders, NEW sender \in Accounts,
           NEW amount \in Int, FillRfqOrder(o, sender, amount)
    PROVE  /\ amount > 0 /\ bal' \in Ledger
           /\ \E x \in Nat, g \in Int : Fills(o, amount, x, g)
  <1> o \in Orders
    BY DEF Orders
  <1> DEFINE taker == TakerOf(o, sender)
             t == o.taker_amount
             B(c) == Transfer(bal, o.taker_token, taker, o.maker, amount, c)
             dl(c) == Delivered(B(c), o.taker_token, o.maker, amount)
  <1>1. /\ amount > 0 /\ t > 0 /\ o.min_received_amount > 0
        /\ \/ o.taker = None /\ UNCHANGED request_filled
           \/ /\ o.taker # None
              /\ request_filled[Request(o)] + amount <= t
              /\ request_filled' =
                    [request_filled EXCEPT ![Request(o)] = @ + amount]
    BY ValidatedFacts DEF FillRfqOrder
  <1>2. /\ filled[o] + amount <= t
        /\ filled' = [filled EXCEPT ![o] = @ + amount]
    BY DEF FillRfqOrder, TakeFill
  <1>3. PICK c \in Credits(o.taker_token, amount), mk \in Markets :
           /\ bal[o.taker_token][taker] >= amount
           /\ dl(c) > 0
           /\ Quotable(o, mk)
           /\ o.max_maker_amount >= 0
           /\ Quote(o, mk, dl(c)) <= SliceCap(o, amount)
           /\ PayTaker(o, taker, B(c), amount, Quote(o, mk, dl(c)))
    BY DEF FillRfqOrder
  <1>4. /\ taker \in Accounts /\ o.taker_token \in Tokens
        /\ o.maker \in Accounts /\ t \in Nat \ {0} /\ amount \in Nat
        /\ o.max_maker_amount \in Nat /\ bal \in Ledger /\ c \in Nat
    BY <1>1, <1>3, TakerType, OrderAssumption, CreditsNat, SMTT(40) DEF TypeOK, Ledger
  <1>5. B(c) \in Ledger
    BY <1>3, <1>4, TransferType
  <1> DEFINE b1 == B(c)
             x == Quote(o, mk, dl(c))
  <1>6. dl(c) \in Nat
    BY <1>3, <1>4, <1>5, DeliveredBound
  <1>7. x \in Nat
    BY <1>3, <1>6, QuoteNat
  <1>8. x * t <= MakerCap(o) * amount
    <2> DEFINE cap == SliceCap(o, amount)
    <2>1. cap \in Nat /\ cap * t <= o.max_maker_amount * amount
      BY <1>4, MulDivBelow DEF SliceCap
    <2>2. x <= cap
      BY <1>3
    <2> HIDE DEF cap, x
    <2>3. x * t <= cap * t
      BY <1>4, <1>7, <2>1, <2>2
    <2>4. x * t \in Int /\ cap * t \in Int /\ o.max_maker_amount * amount \in Int
      BY <1>4, <1>7, <2>1
    <2>5. MakerCap(o) = o.max_maker_amount
      BY DEF MakerCap
    <2>6. QED
      BY <2>1, <2>3, <2>4, <2>5
  <1>9. PayTaker(o, taker, b1, amount, x)
    BY <1>3
  <1> HIDE DEF x, b1, taker
  <1>10. /\ bal' \in Ledger
         /\ paid' = [paid EXCEPT ![o] = @ + x]
         /\ \E g \in Int :
              /\ got' = [got EXCEPT ![o] = @ + g]
              /\ g * o.taker_amount >= o.min_received_amount * amount
              /\ request_got' =
                   IF o.taker = None THEN request_got
                   ELSE [request_got EXCEPT ![Request(o)] = @ + g]
    BY <1>1, <1>4, <1>5, <1>7, <1>9, PayTakerEffect DEF b1
  <1>11. QED
    BY <1>1, <1>2, <1>7, <1>8, <1>10 DEF Fills

(* A fixed order's own ratio bounds the price of a slice.                   *)
LEMMA FillFixedEffect ==
    ASSUME TypeOK, NEW o \in FixedOrders, NEW sender \in Accounts,
           NEW amount \in Int, FillFixedOrder(o, sender, amount)
    PROVE  /\ amount > 0 /\ bal' \in Ledger
           /\ \E x \in Nat, g \in Int : Fills(o, amount, x, g)
  <1> o \in Orders
    BY DEF Orders
  <1> DEFINE taker == TakerOf(o, sender)
             t == o.taker_amount
             B(c) == Transfer(bal, o.taker_token, taker, o.maker, amount, c)
             dl(c) == Delivered(B(c), o.taker_token, o.maker, amount)
  <1>1. /\ amount > 0 /\ t > 0 /\ o.min_received_amount > 0
        /\ \/ o.taker = None /\ UNCHANGED request_filled
           \/ /\ o.taker # None
              /\ request_filled[Request(o)] + amount <= t
              /\ request_filled' =
                    [request_filled EXCEPT ![Request(o)] = @ + amount]
    BY ValidatedFacts DEF FillFixedOrder
  <1>2. /\ filled[o] + amount <= t
        /\ filled' = [filled EXCEPT ![o] = @ + amount]
    BY DEF FillFixedOrder, TakeFill
  <1>3. PICK c \in Credits(o.taker_token, amount) :
           /\ bal[o.taker_token][taker] >= amount
           /\ dl(c) > 0
           /\ o.maker_amount >= 0
           /\ PayTaker(o, taker, B(c), amount,
                       MulDiv(o.maker_amount, dl(c), t))
    BY DEF FillFixedOrder
  <1>4. /\ taker \in Accounts /\ o.taker_token \in Tokens
        /\ o.maker \in Accounts /\ t \in Nat \ {0} /\ amount \in Nat
        /\ o.maker_amount \in Nat /\ bal \in Ledger /\ c \in Nat
    <2>1. amount \in Nat /\ bal \in Ledger
      BY <1>1 DEF TypeOK, Ledger
    <2>2. c \in Nat /\ taker \in Accounts
      BY <2>1, CreditsNat, TakerType
    <2>3. /\ o.taker_token \in Tokens /\ o.maker \in Accounts
          /\ t \in Nat \ {0} /\ o.maker_amount \in Nat
      BY <1>1, <1>3, OrderAssumption
    <2>4. QED
      BY <2>1, <2>2, <2>3
  <1>5. B(c) \in Ledger
    BY <1>3, <1>4, TransferType
  <1> DEFINE b1 == B(c)
             x == MulDiv(o.maker_amount, dl(c), t)
             d == dl(c)
  <1>6. dl(c) \in Nat /\ dl(c) <= amount
    BY <1>3, <1>4, <1>5, DeliveredBound
  <1>7. x \in Nat /\ x * t <= o.maker_amount * dl(c)
    BY <1>4, <1>6, MulDivBelow
  <1>8. x * t <= MakerCap(o) * amount
    <2>1. d \in Nat /\ d <= amount /\ x \in Nat /\ x * t <= o.maker_amount * d
      BY <1>6, <1>7
    <2> HIDE DEF d, x
    <2>2. o.maker_amount * d <= o.maker_amount * amount
      BY <1>4, <2>1
    <2>3. /\ x * t \in Int /\ o.maker_amount * d \in Int
          /\ o.maker_amount * amount \in Int
      BY <1>4, <2>1
    <2>4. MakerCap(o) = o.maker_amount
      BY OrderAssumption DEF MakerCap
    <2>5. QED
      BY <2>1, <2>2, <2>3, <2>4
  <1>9. PayTaker(o, taker, b1, amount, x)
    BY <1>3
  <1> HIDE DEF x, b1, taker
  <1>10. /\ bal' \in Ledger
         /\ paid' = [paid EXCEPT ![o] = @ + x]
         /\ \E g \in Int :
              /\ got' = [got EXCEPT ![o] = @ + g]
              /\ g * o.taker_amount >= o.min_received_amount * amount
              /\ request_got' =
                   IF o.taker = None THEN request_got
                   ELSE [request_got EXCEPT ![Request(o)] = @ + g]
    BY <1>1, <1>4, <1>5, <1>7, <1>9, PayTakerEffect DEF b1
  <1>11. QED
    BY <1>1, <1>2, <1>7, <1>8, <1>10 DEF Fills

-----------------------------------------------------------------------------
(* Type correctness                                                        *)

(* A listing's terms after rescaling, when it is accepted.                 *)
LEMMA RescaleType ==
    ASSUME NEW d \in DutchOrder(Int), NEW escrowed \in Nat,
           d.taker_amount > 0, d.min_maker_amount > 0,
           d.start_maker_amount >= d.min_maker_amount
    PROVE  Rescale(d, escrowed) \in DutchOrder(Nat)
  <1>1. /\ d.taker_amount \in Nat \ {0} /\ d.min_maker_amount \in Nat
        /\ d.start_maker_amount \in Nat
    BY DEF DutchOrder
  <1>2. d \in DutchOrder(Nat)
    BY <1>1 DEF DutchOrder
  <1>3. /\ MulDiv(d.start_maker_amount, escrowed, d.taker_amount) \in Nat
        /\ MulDiv(d.min_maker_amount, escrowed, d.taker_amount) \in Nat
    BY <1>1, MulDivBelow
  <1>4. QED
    BY <1>2, <1>3 DEF Rescale, DutchOrder

(* Creating a listing stores a well-formed one.                            *)
LEMMA CreateType ==
    ASSUME TypeOK, NEW seller \in Accounts, NEW d \in DutchOrders,
           CreateDutchOrder(seller, d)
    PROVE  bal' \in Ledger /\ listings' \in Seq(Listing)
  <1>1. d \in DutchOrder(Int)
    BY WorldAssumption
  <1>2. /\ d.taker_amount > 0 /\ d.min_maker_amount > 0
        /\ d.start_maker_amount >= d.min_maker_amount
        /\ bal[d.taker_token][seller] >= d.taker_amount
    BY DEF CreateDutchOrder, CheckListing
  <1> DEFINE b(c) == Transfer(bal, d.taker_token, seller, RFQ, d.taker_amount, c)
             e(c) == Delivered(b(c), d.taker_token, RFQ, d.taker_amount)
  <1>3. PICK c \in Credits(d.taker_token, d.taker_amount) :
           /\ e(c) > 0
           /\ bal' = b(c)
           /\ listings' = Append(listings,
                    [order |-> Rescale(d, e(c)), seller |-> seller,
                     created_at |-> now,
                     decay_seconds |-> config.decay_seconds, active |-> TRUE])
    BY DEF CreateDutchOrder
  <1>4. /\ d.taker_amount \in Nat /\ d.taker_token \in Tokens
        /\ RFQ \in Accounts /\ bal \in Ledger
    <2>1. d.taker_amount \in Nat /\ d.taker_token \in Tokens
      BY <1>1, <1>2 DEF DutchOrder
    <2>2. RFQ \in Accounts /\ bal \in Ledger
      BY WorldAssumption DEF TypeOK, Ledger
    <2>3. QED
      BY <2>1, <2>2
  <1>5. c \in Nat
    BY <1>4, CreditsNat
  <1>6. b(c) \in Ledger
    BY <1>2, <1>4, <1>5, TransferType
  <1>7. e(c) \in Nat
    <2> DEFINE b1 == b(c)
               amount == d.taker_amount
    <2>1. b1 \in Ledger /\ amount \in Int /\ d.taker_token \in Tokens
      BY <1>4, <1>6
    <2> HIDE DEF b1, amount
    <2>2. Delivered(b1, d.taker_token, RFQ, amount) \in Int
      BY <1>4, <2>1, DeliveredBound
    <2>3. QED
      BY <1>3, <2>2 DEF b1, amount
  <1>8. Rescale(d, e(c)) \in DutchOrder(Nat)
    BY <1>1, <1>2, <1>7, RescaleType
  <1>9. now \in Nat /\ config.decay_seconds \in Nat
    BY ScaleAssumption DEF TypeOK
  <1> HIDE DEF b, e
  <1>10. [order |-> Rescale(d, e(c)), seller |-> seller, created_at |-> now,
          decay_seconds |-> config.decay_seconds, active |-> TRUE] \in Listing
    BY <1>8, <1>9 DEF Listing
  <1>11. QED
    BY <1>3, <1>6, <1>10 DEF TypeOK

(* Releasing an escrow keeps every balance natural.                        *)
LEMMA ReleaseType ==
    ASSUME TypeOK, NEW id \in DOMAIN listings, NEW to \in Accounts,
           CanRelease(listings[id]), NEW c \in ReleaseCredits(listings[id])
    PROVE  /\ listings[id] \in Listing
           /\ Release(listings[id], to, c) \in Ledger
  <1> DEFINE l == listings[id]
  <1>1. l \in Listing
    BY DEF TypeOK
  <1> HIDE DEF l
  <1>2. /\ l.order.taker_amount \in Nat /\ l.order.taker_token \in Tokens
        /\ RFQ \in Accounts /\ bal \in Ledger
    BY <1>1, WorldAssumption DEF TypeOK, Ledger, Listing, DutchOrder
  <1>3. c \in Nat
    BY <1>2, CreditsNat DEF ReleaseCredits, l
  <1>4. bal[l.order.taker_token][RFQ] >= l.order.taker_amount
    BY DEF CanRelease, l
  <1>5. Release(l, to, c) \in Ledger
    BY <1>2, <1>3, <1>4, TransferType DEF Release
  <1>6. QED
    BY <1>1, <1>5 DEF l

(* A listing keeps its terms when it ends.                                 *)
LEMMA DeactivateType ==
    ASSUME TypeOK, NEW id \in DOMAIN listings, Deactivate(id)
    PROVE  listings' \in Seq(Listing)
  <1>1. listings[id] \in Listing
    BY DEF TypeOK
  <1>2. [listings[id] EXCEPT !.active = FALSE] \in Listing
    BY <1>1 DEF Listing
  <1>3. listings' = [listings EXCEPT ![id] = [listings[id] EXCEPT !.active = FALSE]]
    BY DEF Deactivate
  <1>4. QED
    BY <1>2, <1>3 DEF TypeOK

(* A sale pays the seller out of the buyer's balance.                      *)
LEMMA FillDutchType ==
    ASSUME TypeOK, NEW id \in DOMAIN listings, NEW buyer \in Accounts,
           NEW max \in Int, FillDutchOrder(id, buyer, max)
    PROVE  bal' \in Ledger /\ listings' \in Seq(Listing)
  <1> DEFINE l == listings[id]
             a == Ask(l, now)
             fee == FeeOn(a, l.order.fee_bps)
  <1>1. /\ 0 < a /\ a <= max /\ Deactivate(id) /\ CanRelease(l)
        /\ \E c \in ReleaseCredits(l) :
              Pay(Release(l, buyer, c), l.order.maker_token, buyer, l.seller,
                  l.order.fee_recipient, a - fee, fee, a - fee)
    BY DEF FillDutchOrder
  <1>2. PICK c \in ReleaseCredits(l) :
              Pay(Release(l, buyer, c), l.order.maker_token, buyer, l.seller,
                  l.order.fee_recipient, a - fee, fee, a - fee)
    BY <1>1
  <1> DEFINE b1 == Release(l, buyer, c)
  <1>3. l \in Listing /\ b1 \in Ledger
    BY <1>1, ReleaseType
  <1>4. listings' \in Seq(Listing)
    BY <1>1, DeactivateType
  <1>5. now \in Nat
    BY ScaleAssumption DEF TypeOK
  <1> HIDE DEF l
  <1>6. /\ l.order.maker_token \in Tokens /\ l.seller \in Accounts
        /\ l.order.fee_recipient \in Accounts /\ l.order.fee_bps \in Nat
        /\ l.order.start_maker_amount \in Nat /\ l.order.min_maker_amount \in Nat
        /\ l.created_at \in Nat /\ l.decay_seconds \in Nat
    BY <1>3 DEF Listing, DutchOrder
  <1>7. a \in Int
    BY <1>5, <1>6 DEF Ask, MulDiv
  <1> HIDE DEF a
  <1>8. fee \in Int
    <2>1. a \in Nat
      BY <1>1, <1>7
    <2>2. FeeOn(a, l.order.fee_bps) \in Nat
      BY <1>6, <2>1, FeeNat
    <2>3. QED
      BY <2>2
  <1> HIDE DEF fee, b1
  <1>9. a - fee \in Int
    BY <1>7, <1>8
  <1>10. bal' \in Ledger
    BY <1>2, <1>3, <1>6, <1>8, <1>9, PayType DEF b1
  <1>11. QED
    BY <1>4, <1>10

(* Every step keeps the types: bookkeeping by what a fill does, ledgers by *)
(* the lemmas above.                                                       *)
LEMMA FillKeepsType ==
    ASSUME TypeOK, NEW o \in Orders, NEW amount \in Nat, NEW x \in Nat,
           NEW g \in Int, Fills(o, amount, x, g), bal' \in Ledger,
           UNCHANGED <<now, adminVars, authVars, listings>>
    PROVE  TypeOK'
  <1>1. /\ filled' \in [Orders -> Nat]
        /\ paid' \in [Orders -> Nat]
        /\ got' \in [Orders -> Int]
    <2>1. /\ filled' = [filled EXCEPT ![o] = @ + amount]
          /\ paid' = [paid EXCEPT ![o] = @ + x]
          /\ got' = [got EXCEPT ![o] = @ + g]
      BY DEF Fills
    <2>2. /\ filled \in [Orders -> Nat]
          /\ paid \in [Orders -> Nat]
          /\ got \in [Orders -> Int]
      BY DEF TypeOK
    <2>3. QED
      BY <2>1, <2>2
  <1>2. /\ request_filled' \in [Requests -> Nat]
        /\ request_got' \in [Requests -> Int]
    <2> DEFINE r == Request(o)
    <2>1. \/ UNCHANGED <<request_filled, request_got>>
          \/ /\ request_filled' = [request_filled EXCEPT ![r] = @ + amount]
             /\ request_got' = [request_got EXCEPT ![r] = @ + g]
      BY DEF Fills
    <2>2. /\ r \in Requests
          /\ request_filled \in [Requests -> Nat]
          /\ request_got \in [Requests -> Int]
      BY RequestFields DEF TypeOK
    <2> HIDE DEF r
    <2>3. QED
      BY <2>1, <2>2
  <1>3. QED
    BY <1>1, <1>2 DEF TypeOK, Ledger, adminVars, authVars

(* initialize leaves a well-typed state.                                   *)
LEMMA TypeInit == Init => TypeOK
  <1> SUFFICES ASSUME Init
               PROVE  TypeOK
    OBVIOUS
  <1>1. config \in [min_fee_bps : Nat, max_fee_bps : Nat, decay_seconds : Nat]
    BY ScaleAssumption DEF Init
  <1>2. listings \in Seq(Listing)
    BY DEF Init
  <1>3. bal \in [Tokens -> [Accounts -> Nat]]
    BY WorldAssumption DEF Init
  <1>4. /\ filled \in [Orders -> Nat] /\ request_filled \in [Requests -> Nat]
        /\ paid \in [Orders -> Nat] /\ got \in [Orders -> Int]
        /\ request_got \in [Requests -> Int]
    BY DEF Init
  <1>5. now \in 0 .. MaxTime
    BY ScaleAssumption DEF Init
  <1>8. paused \in BOOLEAN
    BY Zenon DEF Init
  <1>6. salt_cancelled = {} /\ signers = {}
    BY DEF Init
  <1>7. QED
    BY <1>1, <1>2, <1>3, <1>4, <1>5, <1>8, <1>6 DEF TypeOK

(* Every entry point of the contract keeps the types.                      *)
LEMMA TypeStep == TypeOK /\ [Next]_vars => TypeOK'
  <1> SUFFICES ASSUME TypeOK, [Next]_vars
               PROVE  TypeOK'
    OBVIOUS
  <1>0. Submitters \subseteq Accounts
    BY WorldAssumption
  <1>1. ASSUME NEW o \in RfqOrders, NEW s \in Submitters,
               NEW a \in Amounts(o), FillRfqOrder(o, s, a)
        PROVE  TypeOK'
    <2>1. a \in Int /\ s \in Accounts /\ o \in Orders
      BY <1>0 DEF Amounts, Orders
    <2>2. /\ a > 0 /\ bal' \in Ledger
          /\ \E x \in Nat, g \in Int : Fills(o, a, x, g)
      BY <1>1, <2>1, FillRfqEffect
    <2>3. UNCHANGED <<now, adminVars, authVars, listings>>
      BY <1>1 DEF FillRfqOrder
    <2>4. QED
      BY <2>1, <2>2, <2>3, FillKeepsType
  <1>2. ASSUME NEW o \in FixedOrders, NEW s \in Submitters,
               NEW a \in Amounts(o), FillFixedOrder(o, s, a)
        PROVE  TypeOK'
    <2>1. a \in Int /\ s \in Accounts /\ o \in Orders
      BY <1>0 DEF Amounts, Orders
    <2>2. /\ a > 0 /\ bal' \in Ledger
          /\ \E x \in Nat, g \in Int : Fills(o, a, x, g)
      BY <1>2, <2>1, FillFixedEffect
    <2>3. UNCHANGED <<now, adminVars, authVars, listings>>
      BY <1>2 DEF FillFixedOrder
    <2>4. QED
      BY <2>1, <2>2, <2>3, FillKeepsType
  <1>3. ASSUME NEW d \in Delegations, NEW allowed \in BOOLEAN,
               RegisterOrderSigner(d[1], d[2], allowed)
        PROVE  TypeOK'
    <2>1. <<d[1], d[2]>> \in Accounts \X Keys
      BY WorldAssumption
    <2>2. signers' \subseteq Accounts \X Keys
      BY <1>3, <2>1 DEF RegisterOrderSigner, TypeOK
    <2>3. QED
      BY <1>3, <2>2 DEF RegisterOrderSigner, TypeOK, adminVars, fillVars
  <1>4. ASSUME NEW c \in Accounts \ {RFQ}, NEW o \in Orders,
               NEW s \in {o.maker, o.taker} \ {None}, CancelSalt(c, s, o.salt)
        PROVE  TypeOK'
    <2>1. <<s, o.salt>> \in Accounts \X Salts
      BY OrderAssumption DEF Salts
    <2>2. QED
      BY <1>4, <2>1 DEF CancelSalt, TypeOK, adminVars, fillVars
  <1>5. ASSUME NEW s \in Submitters, NEW d \in DutchOrders,
               CreateDutchOrder(s, d)
        PROVE  TypeOK'
    <2>1. bal' \in Ledger /\ listings' \in Seq(Listing)
      BY <1>0, <1>5, CreateType
    <2>2. UNCHANGED <<now, adminVars, fillVars, authVars>>
      BY <1>5 DEF CreateDutchOrder
    <2>3. QED
      BY <2>1, <2>2 DEF TypeOK, Ledger, adminVars, fillVars, authVars
  <1>6. ASSUME NEW id \in DOMAIN listings, NEW b \in Submitters,
               NEW m \in MaxAsks, FillDutchOrder(id, b, m)
        PROVE  TypeOK'
    <2>1. m \in Int
      BY WorldAssumption
    <2>2. bal' \in Ledger /\ listings' \in Seq(Listing)
      BY <1>0, <1>6, <2>1, FillDutchType
    <2>3. UNCHANGED <<now, adminVars, fillVars, authVars>>
      BY <1>6 DEF FillDutchOrder
    <2>4. QED
      BY <2>2, <2>3 DEF TypeOK, Ledger, adminVars, fillVars, authVars
  <1>7. ASSUME NEW id \in DOMAIN listings, CancelDutchOrder(id)
        PROVE  TypeOK'
    <2>0. listings[id] \in Listing
      BY DEF TypeOK
    <2>1. listings[id].seller \in Accounts
      BY <2>0 DEF Listing
    <2>2. /\ Deactivate(id) /\ CanRelease(listings[id])
          /\ \E c \in ReleaseCredits(listings[id]) :
                bal' = Release(listings[id], listings[id].seller, c)
          /\ UNCHANGED <<now, adminVars, fillVars, authVars>>
      BY <1>7 DEF CancelDutchOrder
    <2>3. bal' \in Ledger
      BY <2>1, <2>2, ReleaseType
    <2>4. listings' \in Seq(Listing)
      BY <2>2, DeactivateType
    <2>5. QED
      BY <2>2, <2>3, <2>4 DEF TypeOK, Ledger, adminVars, fillVars, authVars
  <1>8. ASSUME NEW c \in Configs, SetConfig(c)
        PROVE  TypeOK'
    <2>1. config' \in [min_fee_bps : Nat, max_fee_bps : Nat, decay_seconds : Nat]
      BY <1>8, WorldAssumption DEF SetConfig
    <2>2. QED
      BY <1>8, <2>1 DEF SetConfig, TypeOK, fillVars, authVars
  <1>9. ASSUME NEW p \in BOOLEAN, SetPaused(p)
        PROVE  TypeOK'
    BY <1>9 DEF SetPaused, TypeOK, fillVars, authVars
  <1>10. CASE Tick
    BY <1>10, ScaleAssumption DEF Tick, TypeOK, adminVars, fillVars, authVars
  <1>11. CASE UNCHANGED vars
    BY <1>11 DEF vars, TypeOK
  <1>12. QED
    BY <1>1, <1>2, <1>3, <1>4, <1>5, <1>6, <1>7, <1>8, <1>9, <1>10, <1>11
       DEF Next

(* The settlement contract's state is always well formed and no token      *)
(* balance it moves ever goes negative.                                    *)
THEOREM TypeCorrect == Spec => []TypeOK
  BY TypeInit, TypeStep, PTL DEF Spec

-----------------------------------------------------------------------------
(* What slices add up to                                                   *)

(* A step fills one order, or leaves the books alone.                      *)
LEMMA StepFills ==
    ASSUME TypeOK, [Next]_vars
    PROVE  \/ \E o \in Orders, a \in Nat, x \in Nat, g \in Int :
                 Fills(o, a, x, g)
           \/ UNCHANGED fillVars
  <1>0. Submitters \subseteq Accounts
    BY WorldAssumption
  <1>1. ASSUME NEW o \in RfqOrders, NEW s \in Submitters,
               NEW a \in Amounts(o), FillRfqOrder(o, s, a)
        PROVE  \E x \in Nat, g \in Int : o \in Orders /\ a \in Nat /\ Fills(o, a, x, g)
    <2>1. a \in Int /\ s \in Accounts /\ o \in Orders
      BY <1>0 DEF Amounts, Orders
    <2>2. a > 0 /\ \E x \in Nat, g \in Int : Fills(o, a, x, g)
      BY <1>1, <2>1, FillRfqEffect
    <2>3. QED
      BY <2>1, <2>2
  <1>2. ASSUME NEW o \in FixedOrders, NEW s \in Submitters,
               NEW a \in Amounts(o), FillFixedOrder(o, s, a)
        PROVE  \E x \in Nat, g \in Int : o \in Orders /\ a \in Nat /\ Fills(o, a, x, g)
    <2>1. a \in Int /\ s \in Accounts /\ o \in Orders
      BY <1>0 DEF Amounts, Orders
    <2>2. a > 0 /\ \E x \in Nat, g \in Int : Fills(o, a, x, g)
      BY <1>2, <2>1, FillFixedEffect
    <2>3. QED
      BY <2>1, <2>2
  <1>3. \/ \E o \in RfqOrders, s \in Submitters : \E a \in Amounts(o) :
              FillRfqOrder(o, s, a)
        \/ \E o \in FixedOrders, s \in Submitters : \E a \in Amounts(o) :
              FillFixedOrder(o, s, a)
        \/ UNCHANGED fillVars
    BY ZenonT(40) DEF Next, vars, fillVars, RegisterOrderSigner, CancelSalt,
           CreateDutchOrder, FillDutchOrder, CancelDutchOrder, SetConfig,
           SetPaused, Tick
  <1>4. QED
    BY <1>1, <1>2, <1>3

(* However an order is sliced, its fills and its request's stay within the *)
(* signed size.                                                            *)
THEOREM FillsNeverExceed == Spec => []FillsBounded
  <1>1. Init => FillsBounded
    BY DEF Init, FillsBounded
  <1>2. ASSUME TypeOK, FillsBounded, [Next]_vars
        PROVE  FillsBounded'
    <2>1. CASE UNCHANGED fillVars
      BY <1>2, <2>1 DEF FillsBounded, fillVars
    <2>2. ASSUME NEW o \in Orders, NEW a \in Nat, NEW x \in Nat,
                 NEW g \in Int, Fills(o, a, x, g)
          PROVE  FillsBounded'
      <3> DEFINE r == Request(o)
      <3>1. /\ filled[o] + a <= o.taker_amount
            /\ filled' = [filled EXCEPT ![o] = @ + a]
            /\ filled \in [Orders -> Nat]
        BY <1>2, <2>2 DEF Fills, TypeOK
      <3>2. \/ UNCHANGED request_filled
            \/ /\ request_filled[r] + a <= r.taker_amount
               /\ request_filled' = [request_filled EXCEPT ![r] = @ + a]
        BY <2>2, RequestFields DEF Fills
      <3>3. request_filled \in [Requests -> Nat] /\ r \in Requests
        BY <1>2, RequestFields DEF TypeOK
      <3> HIDE DEF r
      <3>4. \A q \in Orders : filled'[q] > 0 => filled'[q] <= q.taker_amount
        BY <1>2, <3>1 DEF FillsBounded
      <3>5. \A q \in Requests :
               request_filled'[q] > 0 => request_filled'[q] <= q.taker_amount
        BY <1>2, <3>2, <3>3 DEF FillsBounded
      <3>6. QED
        BY <3>4, <3>5 DEF FillsBounded
    <2>3. QED
      BY <1>2, <2>1, <2>2, StepFills
  <1>3. QED
    BY <1>1, <1>2, TypeCorrect, PTL DEF Spec

(* However a fill is split into slices, and whatever the price does in     *)
(* between, the maker's total stays within the signed ceiling's share:     *)
(* fill_rfq_order rounds each slice's cap down.                            *)
THEOREM MakerNeverOverpays == Spec => []MakerProRata
  <1>1. Init => MakerProRata
    <2> SUFFICES ASSUME Init, NEW o \in Orders
                 PROVE  paid[o] * o.taker_amount <= MakerCap(o) * filled[o]
      BY DEF MakerProRata
    <2>1. paid[o] = 0 /\ filled[o] = 0
      BY DEF Init
    <2>2. o.taker_amount \in Int /\ MakerCap(o) \in Int
      BY OrderAssumption DEF MakerCap, Orders
    <2>3. QED
      BY <2>1, <2>2
  <1>2. ASSUME TypeOK, MakerProRata, [Next]_vars
        PROVE  MakerProRata'
    <2>1. CASE UNCHANGED fillVars
      BY <1>2, <2>1 DEF MakerProRata, fillVars
    <2>2. ASSUME NEW o \in Orders, NEW a \in Nat, NEW x \in Nat,
                 NEW g \in Int, Fills(o, a, x, g)
          PROVE  MakerProRata'
      <3>1. /\ filled' = [filled EXCEPT ![o] = @ + a]
            /\ paid' = [paid EXCEPT ![o] = @ + x]
            /\ x * o.taker_amount <= MakerCap(o) * a
        BY <2>2 DEF Fills
      <3>2. filled \in [Orders -> Nat] /\ paid \in [Orders -> Nat]
        BY <1>2 DEF TypeOK
      <3>3. ASSUME NEW q \in Orders
            PROVE  paid'[q] * q.taker_amount <= MakerCap(q) * filled'[q]
        <4>1. /\ q.taker_amount \in Int /\ MakerCap(q) \in Int
              /\ paid[q] \in Nat /\ filled[q] \in Nat
              /\ paid[q] * q.taker_amount <= MakerCap(q) * filled[q]
          BY <1>2, <3>2, OrderAssumption DEF MakerCap, Orders, MakerProRata
        <4>2. CASE q # o
          BY <3>1, <3>2, <4>1, <4>2
        <4>3. CASE q = o
          <5>1. filled'[q] = filled[q] + a /\ paid'[q] = paid[q] + x
            BY <3>1, <3>2, <4>3
          <5>2. x * q.taker_amount <= MakerCap(q) * a
            BY <3>1, <4>3
          <5>3. QED
            BY <4>1, <5>1, <5>2, ShareAdds
        <4>4. QED
          BY <4>2, <4>3
      <3>4. QED
        BY <3>3 DEF MakerProRata
    <2>3. QED
      BY <1>2, <2>1, <2>2, StepFills
  <1>3. QED
    BY <1>1, <1>2, TypeCorrect, PTL DEF Spec

(* Nor does the taker's total fall below the signed floor's share, of an   *)
(* order or of a request that several makers' bids served: check_floor     *)
(* rounds each slice's floor up.                                           *)
THEOREM TakerNeverUnderpaid == Spec => []TakerProRata
  <1>1. Init => TakerProRata
    <2> SUFFICES ASSUME Init
                 PROVE  TakerProRata
      OBVIOUS
    <2>1. ASSUME NEW o \in Orders
          PROVE  got[o] * o.taker_amount >= o.min_received_amount * filled[o]
      <3>1. got[o] = 0 /\ filled[o] = 0
        BY DEF Init
      <3>2. o.taker_amount \in Int /\ o.min_received_amount \in Int
        BY OrderAssumption
      <3>3. QED
        BY <3>1, <3>2
    <2>2. ASSUME NEW r \in Requests
          PROVE  request_got[r] * r.taker_amount
                    >= r.min_received_amount * request_filled[r]
      <3>1. request_got[r] = 0 /\ request_filled[r] = 0
        BY DEF Init
      <3>2. r.taker_amount \in Int /\ r.min_received_amount \in Int
        BY OrderAssumption, RequestFields DEF Requests
      <3>3. QED
        BY <3>1, <3>2
    <2>3. QED
      BY <2>1, <2>2 DEF TakerProRata
  <1>2. ASSUME TypeOK, TakerProRata, [Next]_vars
        PROVE  TakerProRata'
    <2>1. CASE UNCHANGED fillVars
      BY <1>2, <2>1 DEF TakerProRata, fillVars
    <2>2. ASSUME NEW o \in Orders, NEW a \in Nat, NEW x \in Nat,
                 NEW g \in Int, Fills(o, a, x, g)
          PROVE  TakerProRata'
      <3> DEFINE s == Request(o)
      <3>1. /\ filled' = [filled EXCEPT ![o] = @ + a]
            /\ got' = [got EXCEPT ![o] = @ + g]
            /\ g * o.taker_amount >= o.min_received_amount * a
            /\ \/ UNCHANGED <<request_filled, request_got>>
               \/ /\ request_filled' = [request_filled EXCEPT ![s] = @ + a]
                  /\ request_got' = [request_got EXCEPT ![s] = @ + g]
        BY <2>2 DEF Fills
      <3>2. /\ filled \in [Orders -> Nat] /\ got \in [Orders -> Int]
            /\ request_filled \in [Requests -> Nat]
            /\ request_got \in [Requests -> Int]
        BY <1>2 DEF TypeOK
      <3>3. /\ s \in Requests /\ s.taker_amount = o.taker_amount
            /\ s.min_received_amount = o.min_received_amount
        BY RequestFields
      <3> HIDE DEF s
      <3>4. ASSUME NEW q \in Orders
            PROVE  got'[q] * q.taker_amount >= q.min_received_amount * filled'[q]
        <4>1. /\ q.taker_amount \in Int /\ q.min_received_amount \in Int
              /\ got[q] \in Int /\ filled[q] \in Nat
              /\ got[q] * q.taker_amount >= q.min_received_amount * filled[q]
          BY <1>2, <3>2, OrderAssumption DEF TakerProRata
        <4>2. CASE q # o
          BY <3>1, <3>2, <4>1, <4>2
        <4>3. CASE q = o
          <5>1. filled'[q] = filled[q] + a /\ got'[q] = got[q] + g
            BY <3>1, <3>2, <4>3
          <5>2. g * q.taker_amount >= q.min_received_amount * a
            BY <3>1, <4>3
          <5>3. QED
            BY <4>1, <5>1, <5>2, ShareAdds
        <4>4. QED
          BY <4>2, <4>3
      <3>5. ASSUME NEW q \in Requests
            PROVE  request_got'[q] * q.taker_amount
                      >= q.min_received_amount * request_filled'[q]
        <4>1. /\ request_got[q] \in Int /\ request_filled[q] \in Nat
              /\ request_got[q] * q.taker_amount
                    >= q.min_received_amount * request_filled[q]
          BY <1>2, <3>2 DEF TakerProRata
        <4>2. q.taker_amount \in Int /\ q.min_received_amount \in Int
          BY OrderAssumption, RequestFields DEF Requests
        <4>3. CASE \/ UNCHANGED <<request_filled, request_got>>
                   \/ q # s
          BY <3>1, <3>2, <4>1, <4>3
        <4>4. CASE /\ q = s
                   /\ request_filled' = [request_filled EXCEPT ![s] = @ + a]
                   /\ request_got' = [request_got EXCEPT ![s] = @ + g]
          <5>1. /\ request_filled'[q] = request_filled[q] + a
                /\ request_got'[q] = request_got[q] + g
            BY <3>2, <4>4
          <5>2. g * q.taker_amount >= q.min_received_amount * a
            BY <3>1, <3>3, <4>4
          <5>3. QED
            BY <4>1, <4>2, <5>1, <5>2, ShareAdds
        <4>5. QED
          BY <3>1, <4>3, <4>4
      <3>6. QED
        BY <3>4, <3>5 DEF TakerProRata
    <2>3. QED
      BY <1>2, <2>1, <2>2, StepFills
  <1>3. QED
    BY <1>1, <1>2, TypeCorrect, PTL DEF Spec

(* A request's counter is exactly what the bids that adopted it have       *)
(* taken, so however a taker's one signature is spread over several bids   *)
(* and slices, no request and no order is filled past its size.            *)
THEOREM RequestsNeverOverfilled == Spec => []NoOverfill
  <1> DEFINE Bids(r) == {o \in Orders : Request(o) = r}
             Counted == \A r \in Requests : r.taker # None =>
                            request_filled[r] = SumOver(filled, Bids(r))
  <1>0. ASSUME NEW r
        PROVE  IsFiniteSet(Bids(r))
    BY OrderAssumption, FS_Subset
  <1>1. Init => Counted
    <2> SUFFICES ASSUME Init, NEW r \in Requests
                 PROVE  request_filled[r] = SumOver(filled, Bids(r))
      OBVIOUS
    <2> DEFINE B == Bids(r)
    <2>1. IsFiniteSet(B) /\ \A o \in B : filled[o] = 0
      BY <1>0 DEF Init
    <2>2. request_filled[r] = 0
      BY DEF Init
    <2> HIDE DEF B
    <2>3. SumOver(filled, B) = 0
      BY <2>1, SumZero
    <2>4. QED
      BY <2>2, <2>3 DEF B
  <1>2. ASSUME TypeOK, Counted, [Next]_vars
        PROVE  Counted'
    <2>1. CASE UNCHANGED fillVars
      BY <1>2, <2>1 DEF fillVars
    <2>2. ASSUME NEW o \in Orders, NEW a \in Nat, NEW x \in Nat,
                 NEW g \in Int, Fills(o, a, x, g)
          PROVE  Counted'
      <3> SUFFICES ASSUME NEW r \in Requests, r.taker # None
                   PROVE  request_filled'[r] = SumOver(filled', Bids(r))
        OBVIOUS
      <3> DEFINE B == Bids(r)
      <3>1. /\ filled' = [filled EXCEPT ![o] = @ + a]
            /\ filled \in [Orders -> Nat] /\ request_filled \in [Requests -> Nat]
            /\ \/ o.taker = None /\ UNCHANGED request_filled
               \/ /\ o.taker # None
                  /\ request_filled' = [request_filled EXCEPT ![Request(o)] = @ + a]
        BY <1>2, <2>2 DEF Fills, TypeOK
      <3>2. /\ IsFiniteSet(B) /\ B \subseteq Orders
            /\ request_filled[r] = SumOver(filled, B)
        BY <1>0, <1>2
      <3>3. o \in B <=> r = Request(o)
        OBVIOUS
      <3> HIDE DEF B
      <3>4. CASE r # Request(o)
        <4>1. request_filled'[r] = request_filled[r]
          BY <3>1, <3>4
        <4>2. \A q \in B : filled[q] = filled'[q]
          BY <3>1, <3>2, <3>3, <3>4
        <4>3. SumOver(filled, B) = SumOver(filled', B)
          BY <3>2, <4>2, SumEqual
        <4>4. QED
          BY <3>2, <4>1, <4>3 DEF B
      <3>5. CASE r = Request(o)
        <4>1. o.taker # None /\ o \in B
          BY <3>3, <3>5, RequestFields
        <4>2. request_filled'[r] = request_filled[r] + a
          BY <3>1, <3>5, <4>1
        <4>3. /\ \A q \in B : filled[q] \in Int /\ filled'[q] \in Int
              /\ \A q \in B \ {o} : filled'[q] = filled[q]
              /\ filled'[o] - filled[o] = a
          BY <3>1, <3>2
        <4>4. SumOver(filled', B) = SumOver(filled, B) + (filled'[o] - filled[o])
          BY <3>2, <4>1, <4>3, SumChange
        <4>5. QED
          BY <3>2, <4>2, <4>3, <4>4 DEF B
      <3>6. QED
        BY <3>4, <3>5
    <2>3. QED
      BY <1>2, <2>1, <2>2, StepFills
  <1>3. FillsBounded /\ Counted => NoOverfill
    BY DEF NoOverfill
  <1> HIDE DEF Counted
  <1>4. QED
    BY <1>1, <1>2, <1>3, TypeCorrect, FillsNeverExceed, PTL DEF Spec

-----------------------------------------------------------------------------
(* Who is debited                                                          *)

(* A transfer debits its sender and credits its receiver, nobody else.     *)
LEMMA TransferEffect ==
    ASSUME NEW b \in Ledger, NEW tok \in Tokens, NEW from \in Accounts,
           NEW to \in Accounts, NEW amount \in Int, NEW credit \in Int,
           NEW t \in Tokens, NEW a \in Accounts
    PROVE  Transfer(b, tok, from, to, amount, credit)[t][a]
             = b[t][a] - (IF t = tok /\ a = from THEN amount ELSE 0)
                       + (IF t = tok /\ a = to THEN credit ELSE 0)
  <1> DEFINE debited == [b EXCEPT ![tok][from] = @ - amount]
             loss == IF t = tok /\ a = from THEN amount ELSE 0
  <1>1. debited \in [Tokens -> [Accounts -> Int]]
    BY DEF Ledger
  <1>2. debited[t][a] = b[t][a] - loss
    BY DEF Ledger
  <1>3. loss \in Int /\ b[t][a] \in Int
    BY DEF Ledger
  <1> HIDE DEF debited, loss
  <1>4. [debited EXCEPT ![tok][to] = @ + credit][t][a]
          = debited[t][a] + (IF t = tok /\ a = to THEN credit ELSE 0)
    BY <1>1
  <1>5. QED
    BY <1>2, <1>3, <1>4 DEF Transfer, debited, loss

(* pay takes only from the payer, and only the token paid.                 *)
LEMMA PayDebits ==
    ASSUME NEW b1 \in Ledger, NEW tok \in Tokens, NEW payer \in Accounts,
           NEW to \in Accounts, NEW fee_to \in Accounts, NEW net \in Int,
           NEW fee \in Int, NEW floor \in Int,
           Pay(b1, tok, payer, to, fee_to, net, fee, floor),
           NEW t \in Tokens, NEW a \in Accounts, bal'[t][a] < b1[t][a]
    PROVE  t = tok /\ a = payer
  <1>1. PICK cn \in Credits(tok, net), cf \in Credits(tok, fee) :
            LET b2 == TransferPositive(b1, tok, payer, to, net, cn)
                b3 == TransferPositive(b2, tok, payer, fee_to, fee, cf)
            IN  /\ b1[tok][payer] >= net
                /\ b2[tok][payer] >= fee
                /\ bal' = b3
    BY DEF Pay
  <1> DEFINE b2 == TransferPositive(b1, tok, payer, to, net, cn)
  <1>2. b2 \in Ledger
    BY <1>1, TransferPositiveType
  <1>3. ~(t = tok /\ a = payer) => b2[t][a] >= b1[t][a]
    <2>1. CASE net > 0
      <3>1. net \in Nat /\ cn \in Nat
        BY <2>1, CreditsNat
      <3>2. b2[t][a] = b1[t][a] - (IF t = tok /\ a = payer THEN net ELSE 0)
                                + (IF t = tok /\ a = to THEN cn ELSE 0)
        BY <2>1, <3>1, TransferEffect DEF TransferPositive
      <3> HIDE DEF b2
      <3>3. QED
        BY <3>1, <3>2 DEF Ledger
    <2>2. CASE ~(net > 0)
      BY <2>2 DEF TransferPositive, Ledger
    <2>3. QED
      BY <2>1, <2>2
  <1> HIDE DEF b2
  <1> DEFINE b3 == TransferPositive(b2, tok, payer, fee_to, fee, cf)
  <1>4. ~(t = tok /\ a = payer) => b3[t][a] >= b2[t][a]
    <2>1. CASE fee > 0
      <3>1. fee \in Nat /\ cf \in Nat
        BY <2>1, CreditsNat
      <3>2. b3[t][a] = b2[t][a] - (IF t = tok /\ a = payer THEN fee ELSE 0)
                                + (IF t = tok /\ a = fee_to THEN cf ELSE 0)
        BY <1>2, <2>1, <3>1, TransferEffect DEF TransferPositive
      <3> HIDE DEF b3
      <3>3. QED
        BY <1>2, <3>1, <3>2 DEF Ledger
    <2>2. CASE ~(fee > 0)
      BY <1>2, <2>2 DEF TransferPositive, Ledger
    <2>3. QED
      BY <2>1, <2>2
  <1>5. bal' = b3 /\ b3 \in Ledger
    <2>1. b2[tok][payer] >= fee /\ bal' = b3
      BY <1>1 DEF b2
    <2>2. QED
      BY <1>2, <2>1, TransferPositiveType
  <1> HIDE DEF b3
  <1>6. b1[t][a] \in Int /\ b2[t][a] \in Int /\ b3[t][a] \in Int
    BY <1>2, <1>5 DEF Ledger
  <1>7. QED
    BY <1>3, <1>4, <1>5, <1>6

(* The two transfers of a fill take the taker's token from the taker and   *)
(* the maker's from the maker.                                             *)
LEMMA SlicesDebit ==
    ASSUME TypeOK, NEW o \in Orders, NEW taker \in Accounts, NEW amount \in Nat,
           NEW c \in Nat, NEW x \in Nat, bal[o.taker_token][taker] >= amount,
           o.taker_amount > 0, o.min_received_amount > 0,
           PayTaker(o, taker,
                    Transfer(bal, o.taker_token, taker, o.maker, amount, c),
                    amount, x),
           NEW t \in Tokens, NEW a \in Accounts, bal'[t][a] < bal[t][a]
    PROVE  \/ t = o.taker_token /\ a = taker
           \/ t = o.maker_token /\ a = o.maker
  <1> DEFINE b1 == Transfer(bal, o.taker_token, taker, o.maker, amount, c)
             fee == FeeOn(x, o.fee_bps)
             net == x - fee
             floor == SliceFloor(o, amount)
  <1>1. /\ o.maker_token \in Tokens /\ o.taker_token \in Tokens
        /\ o.maker \in Accounts /\ o.fee_recipient \in Accounts
        /\ o.fee_bps \in Nat
        /\ o.taker_amount \in Nat \ {0} /\ o.min_received_amount \in Nat
    BY OrderAssumption
  <1>10. bal \in Ledger /\ amount \in Int /\ c \in Int
    BY DEF TypeOK, Ledger
  <1>2. b1 \in Ledger
    BY <1>1, <1>10, TransferType
  <1>3. b1[t][a] = bal[t][a] - (IF t = o.taker_token /\ a = taker THEN amount ELSE 0)
                             + (IF t = o.taker_token /\ a = o.maker THEN c ELSE 0)
    BY <1>1, <1>10, TransferEffect
  <1>4. Pay(b1, o.maker_token, o.maker, taker, o.fee_recipient, net, fee, floor)
    BY DEF PayTaker
  <1>5. fee \in Int /\ net \in Int /\ floor \in Int
    <2>1. fee \in Nat
      BY <1>1, FeeNat
    <2>2. floor \in Nat
      BY <1>1, MulDivCeilAbove DEF SliceFloor
    <2> HIDE DEF fee, floor
    <2>3. QED
      BY <2>1, <2>2
  <1> HIDE DEF b1, fee, net, floor
  <1>6. bal'[t][a] < b1[t][a] => t = o.maker_token /\ a = o.maker
    BY <1>1, <1>2, <1>4, <1>5, PayDebits
  <1>7. bal' \in Ledger
    BY <1>1, <1>2, <1>4, <1>5, PayType
  <1>8. bal[t][a] \in Nat /\ b1[t][a] \in Nat /\ bal'[t][a] \in Nat
    BY <1>10, <1>2, <1>7 DEF Ledger
  <1>9. QED
    BY <1>3, <1>6, <1>8

(* The consents a fill rests on: the maker's signature, and the taker's    *)
(* unless the taker submits.                                               *)
Consented(o, sender) ==
    /\ Verify(o.maker, o)
    /\ o.taker \in {None, sender} \/ Verify(o.taker, Request(o))
    /\ <<o.maker, o.salt>> \notin salt_cancelled
    /\ o.taker # None => <<o.taker, o.salt>> \notin salt_cancelled

(* A fill debits nobody but the taker and the maker, each in its own       *)
(* token and with its consent.                                             *)
FillOf(o, sender) ==
    /\ Consented(o, sender)
    /\ filled'[o] > filled[o]
    /\ \A q \in Orders : q # o => filled'[q] = filled[q]
    /\ \A t \in Tokens, a \in Accounts : bal'[t][a] < bal[t][a] =>
          \/ t = o.taker_token /\ a = TakerOf(o, sender)
          \/ t = o.maker_token /\ a = o.maker

(* validate_common and check_maker_signature together are consent.         *)
LEMMA ConsentFacts ==
    ASSUME NEW o \in Orders, NEW sender, NEW amount,
           ValidateCommon(Request(o), o.maker, sender, amount), MakerSigned(o)
    PROVE  Consented(o, sender)
  <1>1. Request(o).taker = o.taker /\ Request(o).salt = o.salt
    BY DEF Request
  <1>2. QED
    BY <1>1 DEF Consented, ValidateCommon, MakerSigned, CheckTakerConsent

(* fill_rfq_order takes from its maker and its taker only.                 *)
LEMMA FillRfqDebits ==
    ASSUME TypeOK, NEW o \in RfqOrders, NEW sender \in Accounts,
           NEW amount \in Int, FillRfqOrder(o, sender, amount)
    PROVE  FillOf(o, sender)
  <1> o \in Orders
    BY DEF Orders
  <1> DEFINE taker == TakerOf(o, sender)
             B(c) == Transfer(bal, o.taker_token, taker, o.maker, amount, c)
             dl(c) == Delivered(B(c), o.taker_token, o.maker, amount)
  <1>1. /\ amount > 0 /\ o.taker_amount > 0 /\ o.min_received_amount > 0
        /\ Consented(o, sender)
    BY ValidatedFacts, ConsentFacts DEF FillRfqOrder
  <1>2. PICK c \in Credits(o.taker_token, amount), mk \in Markets :
           /\ bal[o.taker_token][taker] >= amount
           /\ dl(c) > 0
           /\ Quotable(o, mk)
           /\ PayTaker(o, taker, B(c), amount, Quote(o, mk, dl(c)))
    BY DEF FillRfqOrder
  <1>3. amount \in Nat /\ c \in Nat /\ taker \in Accounts /\ bal \in Ledger
    BY <1>1, CreditsNat, TakerType DEF TypeOK, Ledger
  <1>4. o.taker_token \in Tokens /\ o.maker \in Accounts
    BY OrderAssumption
  <1>5. Quote(o, mk, dl(c)) \in Nat
    <2>1. B(c) \in Ledger
      BY <1>2, <1>3, <1>4, TransferType
    <2>2. dl(c) \in Nat
      BY <1>2, <1>3, <1>4, <2>1, DeliveredBound
    <2>3. QED
      BY <1>2, <2>2, QuoteNat
  <1>6. filled' = [filled EXCEPT ![o] = @ + amount] /\ filled \in [Orders -> Nat]
    BY DEF FillRfqOrder, TakeFill, TypeOK
  <1> HIDE DEF taker, dl
  <1>7. \A t \in Tokens, a \in Accounts : bal'[t][a] < bal[t][a] =>
          \/ t = o.taker_token /\ a = taker
          \/ t = o.maker_token /\ a = o.maker
    BY <1>1, <1>2, <1>3, <1>5, SlicesDebit
  <1>8. QED
    BY <1>1, <1>3, <1>6, <1>7 DEF FillOf, taker

(* fill_fixed_order likewise.                                              *)
LEMMA FillFixedDebits ==
    ASSUME TypeOK, NEW o \in FixedOrders, NEW sender \in Accounts,
           NEW amount \in Int, FillFixedOrder(o, sender, amount)
    PROVE  FillOf(o, sender)
  <1> o \in Orders
    BY DEF Orders
  <1> DEFINE taker == TakerOf(o, sender)
             B(c) == Transfer(bal, o.taker_token, taker, o.maker, amount, c)
             dl(c) == Delivered(B(c), o.taker_token, o.maker, amount)
             x(c) == MulDiv(o.maker_amount, dl(c), o.taker_amount)
  <1>1. /\ amount > 0 /\ o.taker_amount > 0 /\ o.min_received_amount > 0
        /\ Consented(o, sender)
    BY ValidatedFacts, ConsentFacts DEF FillFixedOrder
  <1>2. PICK c \in Credits(o.taker_token, amount) :
           /\ bal[o.taker_token][taker] >= amount
           /\ dl(c) > 0
           /\ o.maker_amount >= 0
           /\ PayTaker(o, taker, B(c), amount, x(c))
    BY DEF FillFixedOrder
  <1>3. amount \in Nat /\ bal \in Ledger
    BY <1>1 DEF TypeOK, Ledger
  <1>4. c \in Nat /\ taker \in Accounts
    BY <1>3, CreditsNat, TakerType
  <1>5. /\ o.taker_token \in Tokens /\ o.maker \in Accounts
        /\ o.taker_amount \in Nat \ {0} /\ o.maker_amount \in Nat
    BY <1>1, <1>2, OrderAssumption
  <1>6. x(c) \in Nat
    <2>1. B(c) \in Ledger
      BY <1>2, <1>3, <1>4, <1>5, TransferType
    <2>2. dl(c) \in Nat
      BY <1>2, <1>3, <1>4, <1>5, <2>1, DeliveredBound
    <2>3. QED
      BY <1>5, <2>2, MulDivBelow
  <1>7. filled' = [filled EXCEPT ![o] = @ + amount] /\ filled \in [Orders -> Nat]
    BY DEF FillFixedOrder, TakeFill, TypeOK
  <1> HIDE DEF taker, x
  <1>8. \A t \in Tokens, a \in Accounts : bal'[t][a] < bal[t][a] =>
          \/ t = o.taker_token /\ a = taker
          \/ t = o.maker_token /\ a = o.maker
    BY <1>1, <1>2, <1>3, <1>4, <1>6, SlicesDebit
  <1>9. QED
    BY <1>1, <1>3, <1>7, <1>8 DEF FillOf, taker

(* A step fills one order with the consents it needs, or leaves every      *)
(* order's fill alone; and a salt once cancelled stays cancelled.          *)
LEMMA StepConsents ==
    ASSUME TypeOK, [Next]_vars
    PROVE  /\ \/ \E o \in Orders, s \in Submitters : FillOf(o, s)
              \/ UNCHANGED filled
           /\ salt_cancelled \subseteq salt_cancelled'
  <1>0. Submitters \subseteq Accounts
    BY WorldAssumption
  <1>1. ASSUME NEW o \in RfqOrders, NEW s \in Submitters,
               NEW a \in Amounts(o), FillRfqOrder(o, s, a)
        PROVE  o \in Orders /\ FillOf(o, s) /\ UNCHANGED salt_cancelled
    <2>1. a \in Int /\ s \in Accounts /\ o \in Orders
      BY <1>0 DEF Amounts, Orders
    <2>2. QED
      BY <1>1, <2>1, FillRfqDebits DEF FillRfqOrder, authVars
  <1>2. ASSUME NEW o \in FixedOrders, NEW s \in Submitters,
               NEW a \in Amounts(o), FillFixedOrder(o, s, a)
        PROVE  o \in Orders /\ FillOf(o, s) /\ UNCHANGED salt_cancelled
    <2>1. a \in Int /\ s \in Accounts /\ o \in Orders
      BY <1>0 DEF Amounts, Orders
    <2>2. QED
      BY <1>2, <2>1, FillFixedDebits DEF FillFixedOrder, authVars
  <1>3. \/ \E o \in RfqOrders, s \in Submitters : \E a \in Amounts(o) :
              FillRfqOrder(o, s, a)
        \/ \E o \in FixedOrders, s \in Submitters : \E a \in Amounts(o) :
              FillFixedOrder(o, s, a)
        \/ UNCHANGED filled /\ salt_cancelled \subseteq salt_cancelled'
    BY DEF Next, vars, fillVars, authVars, RegisterOrderSigner, CancelSalt,
           CreateDutchOrder, FillDutchOrder, CancelDutchOrder, SetConfig,
           SetPaused, Tick
  <1>4. QED
    BY <1>1, <1>2, <1>3

(* Cancelling a salt is final: whatever keys are registered or withdrawn   *)
(* afterwards, no order under it fills again, for its maker's cancellation *)
(* or its taker's.                                                         *)
THEOREM CancellationIsFinal == Spec => CancelledNeverFills
  <1> DEFINE A == \A o \in Orders :
                    \/ <<o.maker, o.salt>> \in salt_cancelled
                    \/ <<o.taker, o.salt>> \in salt_cancelled
                    => /\ filled'[o] = filled[o]
                       /\ salt_cancelled \subseteq salt_cancelled'
  <1>1. ASSUME TypeOK, [Next]_vars
        PROVE  A
    <2> SUFFICES ASSUME NEW o \in Orders,
                        \/ <<o.maker, o.salt>> \in salt_cancelled
                        \/ <<o.taker, o.salt>> \in salt_cancelled
                 PROVE  filled'[o] = filled[o]
      BY <1>1, StepConsents
    <2>1. o.taker = None => <<o.taker, o.salt>> \notin salt_cancelled
      BY <1>1, WorldAssumption DEF TypeOK
    <2>2. ASSUME NEW s \in Submitters
          PROVE  ~FillOf(o, s)
      BY <2>1 DEF FillOf, Consented
    <2>3. ASSUME NEW q \in Orders, NEW s \in Submitters, FillOf(q, s)
          PROVE  filled'[o] = filled[o]
      BY <2>2, <2>3 DEF FillOf
    <2>4. QED
      BY <1>1, <2>3, StepConsents
  <1> HIDE DEF A
  <1>2. CancelledNeverFills <=> [][A]_vars
    BY DEF CancelledNeverFills, A
  <1>3. QED
    BY <1>1, <1>2, TypeCorrect, PTL DEF Spec

-----------------------------------------------------------------------------
(* Listings                                                                *)

(* What every stored listing owes to the checks it was created under, and  *)
(* that nobody signs for the contract.                                     *)
ListingsSound ==
    \A id \in DOMAIN listings :
        /\ listings[id].seller \in Submitters
        /\ listings[id].created_at <= now
        /\ listings[id].order.min_maker_amount
              <= listings[id].order.start_maker_amount
NobodySignsForRFQ == \A key \in Keys : <<RFQ, key>> \notin signers

EscrowOf(l, tok) ==
    IF tok = l.order.taker_token THEN l.order.taker_amount ELSE 0

(* A new listing, with at least its amount added to the contract's balance.*)
Lists(l) ==
    /\ l \in Listing
    /\ listings' = Append(listings, l)
    /\ l.active
    /\ l.seller \in Submitters
    /\ l.created_at = now
    /\ l.order.min_maker_amount <= l.order.start_maker_amount
    /\ \A t \in Tokens : bal'[t][RFQ] >= bal[t][RFQ] + EscrowOf(l, t)
    /\ \A t \in Tokens, a \in Accounts : bal'[t][a] < bal[t][a] => a = l.seller

(* A listing closed by who: its amount and no more leaves the contract.    *)
Closes(id, who) ==
    /\ listings[id].active
    /\ Deactivate(id)
    /\ \A t \in Tokens :
          bal'[t][RFQ] >= bal[t][RFQ] - EscrowOf(listings[id], t)
    /\ \A t \in Tokens, a \in Accounts :
          bal'[t][a] < bal[t][a] => a \in {RFQ, who}

(* Neither verified key nor registered key speaks for the contract.        *)
LEMMA FillSparesEscrow ==
    ASSUME TypeOK, NobodySignsForRFQ, NEW o \in Orders, NEW s \in Submitters,
           FillOf(o, s), NEW t \in Tokens
    PROVE  ~(bal'[t][RFQ] < bal[t][RFQ])
  <1>1. RFQ \in Accounts /\ RFQ \notin Submitters /\ None \notin Accounts
    BY WorldAssumption
  <1>2. ASSUME NEW msg
        PROVE  ~Verify(RFQ, msg)
    BY WorldAssumption DEF Verify, Authorised, NobodySignsForRFQ
  <1>3. o.maker # RFQ
    BY <1>2 DEF FillOf, Consented
  <1>4. TakerOf(o, s) # RFQ
    BY <1>1, <1>2 DEF FillOf, Consented, TakerOf
  <1>5. QED
    BY <1>1, <1>3, <1>4 DEF FillOf

(* create_dutch_order escrows what was delivered and scales the terms to   *)
(* it.                                                                     *)
LEMMA CreateEffect ==
    ASSUME TypeOK, NEW seller \in Submitters, NEW d \in DutchOrders,
           CreateDutchOrder(seller, d)
    PROVE  \E l \in Listing : Lists(l)
  <1>0. seller \in Accounts /\ RFQ \in Accounts /\ seller # RFQ
    BY WorldAssumption
  <1>1. d \in DutchOrder(Int)
    BY WorldAssumption
  <1>2. /\ d.taker_amount > 0 /\ d.min_maker_amount > 0
        /\ d.start_maker_amount >= d.min_maker_amount
        /\ bal[d.taker_token][seller] >= d.taker_amount
    BY DEF CreateDutchOrder, CheckListing
  <1> DEFINE b(c) == Transfer(bal, d.taker_token, seller, RFQ, d.taker_amount, c)
             e(c) == Delivered(b(c), d.taker_token, RFQ, d.taker_amount)
             L(c) == [order |-> Rescale(d, e(c)), seller |-> seller,
                      created_at |-> now,
                      decay_seconds |-> config.decay_seconds, active |-> TRUE]
  <1>3. PICK c \in Credits(d.taker_token, d.taker_amount) :
           e(c) > 0 /\ bal' = b(c) /\ listings' = Append(listings, L(c))
    BY DEF CreateDutchOrder
  <1>4. /\ d.taker_amount \in Nat \ {0} /\ d.taker_token \in Tokens
        /\ d.min_maker_amount \in Nat /\ d.start_maker_amount \in Nat
    BY <1>1, <1>2 DEF DutchOrder
  <1>5. bal \in Ledger
    BY DEF TypeOK, Ledger
  <1>6. c \in Nat
    BY <1>4, CreditsNat
  <1> DEFINE tok == d.taker_token
             n == d.taker_amount
             b1 == b(c)
             e1 == e(c)
             terms == Rescale(d, e1)
  <1>7. b1 \in Ledger
    BY <1>0, <1>2, <1>4, <1>5, <1>6, TransferType
  <1>8. ASSUME NEW t \in Tokens, NEW a \in Accounts
        PROVE  b1[t][a] = bal[t][a] - (IF t = tok /\ a = seller THEN n ELSE 0)
                                    + (IF t = tok /\ a = RFQ THEN c ELSE 0)
    <2>1. n \in Int /\ c \in Int
      BY <1>4, <1>6
    <2>2. QED
      BY <1>0, <1>4, <1>5, <2>1, TransferEffect
  <1>9. e1 = IF Received(bal, b1, tok, RFQ) > n THEN n
             ELSE Received(bal, b1, tok, RFQ)
    BY DEF Delivered
  <1>10. e1 > 0 /\ bal' = b1 /\ listings' = Append(listings, L(c))
    BY <1>3
  <1> HIDE DEF b1, e1, b, e
  <1>11. Received(bal, b1, tok, RFQ) = c
    BY <1>0, <1>4, <1>5, <1>6, <1>8 DEF Received, Ledger
  <1>12. e1 \in Nat \ {0} /\ e1 <= c
    BY <1>4, <1>6, <1>9, <1>10, <1>11
  <1>13. /\ terms \in DutchOrder(Nat)
         /\ terms.taker_token = tok /\ terms.taker_amount = e1
         /\ terms.min_maker_amount <= terms.start_maker_amount
    <2>1. terms \in DutchOrder(Nat)
      BY <1>1, <1>2, <1>12, RescaleType
    <2>2. MulDiv(d.min_maker_amount, e1, d.taker_amount)
             <= MulDiv(d.start_maker_amount, e1, d.taker_amount)
      BY <1>2, <1>4, <1>12, MulDivMonotoneLeft
    <2>3. terms.taker_token = tok /\ terms.taker_amount = e1
      BY <1>1 DEF Rescale, DutchOrder
    <2>4. terms.min_maker_amount <= terms.start_maker_amount
      BY <1>1, <1>2, <2>2 DEF Rescale, DutchOrder
    <2>5. QED
      BY <2>1, <2>3, <2>4
  <1> DEFINE l == [order |-> terms, seller |-> seller, created_at |-> now,
                   decay_seconds |-> config.decay_seconds, active |-> TRUE]
  <1>14. l \in Listing
    <2>1. now \in Nat /\ config.decay_seconds \in Nat
      BY ScaleAssumption DEF TypeOK
    <2>2. QED
      BY <1>0, <1>13, <2>1 DEF Listing
  <1>15. listings' = Append(listings, l)
    BY <1>10 DEF e1
  <1> HIDE DEF terms
  <1>16. \A t \in Tokens : bal'[t][RFQ] >= bal[t][RFQ] + EscrowOf(l, t)
    <2> SUFFICES ASSUME NEW t \in Tokens
                 PROVE  bal'[t][RFQ] >= bal[t][RFQ] + EscrowOf(l, t)
      OBVIOUS
    <2>1. bal'[t][RFQ] = bal[t][RFQ] + (IF t = tok THEN c ELSE 0)
      BY <1>0, <1>4, <1>5, <1>6, <1>8, <1>10 DEF Ledger
    <2>2. EscrowOf(l, t) = IF t = tok THEN e1 ELSE 0
      BY <1>13 DEF EscrowOf
    <2>3. bal[t][RFQ] \in Nat
      BY <1>0, <1>5 DEF Ledger
    <2>4. QED
      BY <1>6, <1>12, <2>1, <2>2, <2>3
  <1>17. \A t \in Tokens, a \in Accounts : bal'[t][a] < bal[t][a] => a = seller
    BY <1>4, <1>5, <1>6, <1>8, <1>10 DEF Ledger
  <1>18. /\ l.active /\ l.seller = seller /\ l.created_at = now
         /\ l.order.min_maker_amount <= l.order.start_maker_amount
    BY <1>13
  <1>19. Lists(l)
    BY <1>14, <1>15, <1>16, <1>17, <1>18 DEF Lists
  <1>20. QED
    BY <1>14, <1>19

(* What a transfer of n of `tok` by or to `who` means to one balance.      *)
Part(t, a, tok, who, n) == IF t = tok /\ a = who THEN n ELSE 0

(* A transfer, entry by entry.                                             *)
LEMMA TransferParts ==
    ASSUME NEW b \in Ledger, NEW tok \in Tokens, NEW from \in Accounts,
           NEW to \in Accounts, NEW amount \in Int, NEW credit \in Int,
           NEW t \in Tokens, NEW a \in Accounts
    PROVE  Transfer(b, tok, from, to, amount, credit)[t][a]
             = b[t][a] - Part(t, a, tok, from, amount)
                       + Part(t, a, tok, to, credit)
  BY TransferEffect, SMTT(30) DEF Part

(* The escrow leaves the contract for an account, in its own token.        *)
LEMMA ReleaseEffect ==
    ASSUME TypeOK, NEW id \in DOMAIN listings, NEW to \in Accounts \ {RFQ},
           CanRelease(listings[id]), NEW c \in ReleaseCredits(listings[id])
    PROVE  /\ listings[id] \in Listing /\ c \in Nat
           /\ Release(listings[id], to, c) \in Ledger
           /\ \A t \in Tokens, a \in Accounts :
                 Release(listings[id], to, c)[t][a] = bal[t][a]
                    - (IF a = RFQ THEN EscrowOf(listings[id], t) ELSE 0)
                    + (IF t = listings[id].order.taker_token /\ a = to
                       THEN c ELSE 0)
  <1> DEFINE l == listings[id]
             n == l.order.taker_amount
             tok == l.order.taker_token
  <1>1. l \in Listing /\ Release(l, to, c) \in Ledger
    BY ReleaseType
  <1>2. n \in Nat /\ tok \in Tokens
    BY <1>1 DEF Listing, DutchOrder
  <1>3. c \in Nat
    BY <1>2, CreditsNat DEF ReleaseCredits
  <1>4. bal \in Ledger
    BY DEF TypeOK, Ledger
  <1>5. RFQ \in Accounts
    BY WorldAssumption
  <1> HIDE DEF l
  <1>6. ASSUME NEW t \in Tokens, NEW a \in Accounts
        PROVE  Release(l, to, c)[t][a] = bal[t][a]
                  - (IF a = RFQ THEN EscrowOf(l, t) ELSE 0)
                  + (IF t = tok /\ a = to THEN c ELSE 0)
    <2>1. Transfer(bal, tok, RFQ, to, n, c)[t][a]
             = bal[t][a] - Part(t, a, tok, RFQ, n) + Part(t, a, tok, to, c)
      BY <1>2, <1>3, <1>4, <1>5, TransferParts
    <2>2. (IF a = RFQ THEN EscrowOf(l, t) ELSE 0) = Part(t, a, tok, RFQ, n)
      BY DEF EscrowOf, Part
    <2>3. (IF t = tok /\ a = to THEN c ELSE 0) = Part(t, a, tok, to, c)
      BY DEF Part
    <2>4. QED
      BY <2>1, <2>2, <2>3 DEF Release
  <1>7. QED
    BY <1>1, <1>3, <1>6 DEF l

(* cancel_dutch_order returns the whole escrow to the seller.              *)
LEMMA CancelEffect ==
    ASSUME TypeOK, NEW id \in DOMAIN listings, listings[id].seller \in Submitters,
           CancelDutchOrder(id)
    PROVE  /\ Closes(id, listings[id].seller)
           /\ UNCHANGED now
  <1> DEFINE l == listings[id]
             tok == l.order.taker_token
  <1>1. PICK c \in ReleaseCredits(l) : bal' = Release(l, l.seller, c)
    BY DEF CancelDutchOrder
  <1>2. l.active /\ Deactivate(id) /\ CanRelease(l) /\ UNCHANGED now
    BY DEF CancelDutchOrder
  <1>3. /\ l.seller \in Accounts \ {RFQ} /\ RFQ \in Accounts
    BY WorldAssumption
  <1>4. /\ l \in Listing /\ c \in Nat /\ bal' \in Ledger
        /\ \A t \in Tokens, a \in Accounts :
              bal'[t][a] = bal[t][a] - (IF a = RFQ THEN EscrowOf(l, t) ELSE 0)
                                + (IF t = tok /\ a = l.seller THEN c ELSE 0)
    BY <1>1, <1>2, <1>3, ReleaseEffect
  <1>5. bal \in Ledger
    BY DEF TypeOK, Ledger
  <1>6. tok \in Tokens /\ l.order.taker_amount \in Nat
    BY <1>4 DEF Listing, DutchOrder
  <1> HIDE DEF l, tok
  <1>7. \A t \in Tokens : EscrowOf(l, t) \in Nat
    BY <1>6 DEF EscrowOf
  <1>8. /\ \A t \in Tokens : bal'[t][RFQ] >= bal[t][RFQ] - EscrowOf(l, t)
        /\ \A t \in Tokens, a \in Accounts :
              bal'[t][a] < bal[t][a] => a \in {RFQ, l.seller}
    BY <1>3, <1>4, <1>5, <1>7 DEF Ledger
  <1>9. Closes(id, l.seller)
    BY <1>2, <1>8 DEF Closes, l
  <1>10. QED
    BY <1>2, <1>9 DEF l

(* fill_dutch_order pays the seller at least the ask less its fee.         *)
LEMMA SaleEffect ==
    ASSUME TypeOK, NEW id \in DOMAIN listings, listings[id].seller \in Submitters,
           NEW buyer \in Submitters, NEW max \in Int,
           FillDutchOrder(id, buyer, max)
    PROVE  LET l == listings[id]
               ask == Ask(l, now)
           IN  /\ Closes(id, buyer)
               /\ UNCHANGED now
               /\ CheckFee(l.order.fee_bps)
               /\ ask \in Nat
               /\ Received(bal, bal', l.order.maker_token, l.seller)
                     >= ask - FeeOn(ask, l.order.fee_bps)
  <1> DEFINE l == listings[id]
             a == Ask(l, now)
             fee == FeeOn(a, l.order.fee_bps)
             mt == l.order.maker_token
             tok == l.order.taker_token
  <1>1. /\ 0 < a /\ Deactivate(id) /\ CanRelease(l) /\ l.active
        /\ CheckFee(l.order.fee_bps) /\ UNCHANGED now
    BY DEF FillDutchOrder
  <1>2. PICK c \in ReleaseCredits(l) :
              Pay(Release(l, buyer, c), mt, buyer, l.seller,
                  l.order.fee_recipient, a - fee, fee, a - fee)
    BY DEF FillDutchOrder
  <1>3. /\ buyer \in Accounts \ {RFQ} /\ l.seller \in Accounts \ {RFQ}
        /\ RFQ \in Accounts
    BY WorldAssumption
  <1> DEFINE b1 == Release(l, buyer, c)
  <1>4. /\ l \in Listing /\ c \in Nat /\ b1 \in Ledger
        /\ \A t \in Tokens, x \in Accounts :
              b1[t][x] = bal[t][x] - (IF x = RFQ THEN EscrowOf(l, t) ELSE 0)
                                   + (IF t = tok /\ x = buyer THEN c ELSE 0)
    BY <1>1, <1>3, ReleaseEffect
  <1>5. now \in Nat /\ bal \in Ledger
    BY ScaleAssumption DEF TypeOK, Ledger
  <1> HIDE DEF l
  <1>6. /\ mt \in Tokens /\ tok \in Tokens /\ l.order.taker_amount \in Nat
        /\ l.order.fee_recipient \in Accounts /\ l.order.fee_bps \in Nat
        /\ l.order.start_maker_amount \in Nat /\ l.order.min_maker_amount \in Nat
        /\ l.created_at \in Nat /\ l.decay_seconds \in Nat
    BY <1>4 DEF Listing, DutchOrder
  <1>7. a \in Nat
    <2>1. a \in Int
      BY <1>5, <1>6 DEF Ask, MulDiv
    <2> HIDE DEF a
    <2>2. QED
      BY <1>1, <2>1
  <1> HIDE DEF a
  <1>8. fee \in Nat
    BY <1>6, <1>7, FeeNat
  <1>9. \A t \in Tokens : EscrowOf(l, t) \in Nat
    BY <1>6 DEF EscrowOf
  <1> HIDE DEF fee, b1, mt, tok
  <1>10. /\ a - fee \in Int /\ fee \in Int
         /\ Pay(b1, mt, buyer, l.seller, l.order.fee_recipient, a - fee, fee, a - fee)
    BY <1>2, <1>7, <1>8 DEF b1
  <1>11. bal' \in Ledger /\ Received(b1, bal', mt, l.seller) >= a - fee
    BY <1>3, <1>4, <1>6, <1>10, PayType
  <1>12. \A t \in Tokens, x \in Accounts : bal'[t][x] < b1[t][x] => x = buyer
    BY <1>3, <1>4, <1>6, <1>10, PayDebits
  <1>13. \A t \in Tokens, x \in Accounts :
            /\ bal[t][x] \in Nat /\ b1[t][x] \in Nat /\ bal'[t][x] \in Nat
    BY <1>4, <1>5, <1>11 DEF Ledger
  <1>14. \A t \in Tokens : bal'[t][RFQ] >= bal[t][RFQ] - EscrowOf(l, t)
    BY <1>3, <1>4, <1>9, <1>12, <1>13
  <1>15. \A t \in Tokens, x \in Accounts :
            bal'[t][x] < bal[t][x] => x \in {RFQ, buyer}
    BY <1>3, <1>4, <1>12, <1>13
  <1>16. Received(bal, bal', mt, l.seller) >= a - fee
    <2>1. b1[mt][l.seller] >= bal[mt][l.seller]
      BY <1>3, <1>4, <1>6, <1>13
    <2>2. QED
      BY <1>3, <1>6, <1>7, <1>8, <1>11, <1>13, <2>1 DEF Received
  <1>17. Closes(id, buyer)
    BY <1>1, <1>14, <1>15 DEF Closes, l
  <1>18. QED
    BY <1>1, <1>7, <1>16, <1>17 DEF l, a, fee, mt

(* What a step may do to the listings: nothing, list one more, or close    *)
(* one; and only the last takes anything out of the contract.              *)
LEMMA StepListings ==
    ASSUME TypeOK, ListingsSound, NobodySignsForRFQ, [Next]_vars
    PROVE  \/ /\ UNCHANGED listings
              /\ \A t \in Tokens : ~(bal'[t][RFQ] < bal[t][RFQ])
           \/ UNCHANGED now /\ \E l \in Listing : Lists(l)
           \/ UNCHANGED now /\ \E id \in DOMAIN listings, who \in Submitters :
                 Closes(id, who)
  <1>0. Submitters \subseteq Accounts /\ RFQ \in Accounts
    BY WorldAssumption
  <1>1. ASSUME NEW o \in RfqOrders, NEW s \in Submitters,
               NEW a \in Amounts(o), FillRfqOrder(o, s, a)
        PROVE  /\ UNCHANGED listings
               /\ \A t \in Tokens : ~(bal'[t][RFQ] < bal[t][RFQ])
    <2>1. a \in Int /\ s \in Accounts /\ o \in Orders
      BY <1>0 DEF Amounts, Orders
    <2>2. FillOf(o, s)
      BY <1>1, <2>1, FillRfqDebits
    <2>3. QED
      BY <1>1, <2>1, <2>2, FillSparesEscrow DEF FillRfqOrder
  <1>2. ASSUME NEW o \in FixedOrders, NEW s \in Submitters,
               NEW a \in Amounts(o), FillFixedOrder(o, s, a)
        PROVE  /\ UNCHANGED listings
               /\ \A t \in Tokens : ~(bal'[t][RFQ] < bal[t][RFQ])
    <2>1. a \in Int /\ s \in Accounts /\ o \in Orders
      BY <1>0 DEF Amounts, Orders
    <2>2. FillOf(o, s)
      BY <1>2, <2>1, FillFixedDebits
    <2>3. QED
      BY <1>2, <2>1, <2>2, FillSparesEscrow DEF FillFixedOrder
  <1>3. ASSUME NEW s \in Submitters, NEW d \in DutchOrders,
               CreateDutchOrder(s, d)
        PROVE  UNCHANGED now /\ \E l \in Listing : Lists(l)
    BY <1>3, CreateEffect DEF CreateDutchOrder
  <1>4. ASSUME NEW id \in DOMAIN listings, NEW b \in Submitters,
               NEW m \in MaxAsks, FillDutchOrder(id, b, m)
        PROVE  UNCHANGED now /\ Closes(id, b)
    <2>1. listings[id].seller \in Submitters /\ m \in Int
      BY WorldAssumption DEF ListingsSound
    <2>2. QED
      BY <1>4, <2>1, SaleEffect
  <1>5. ASSUME NEW id \in DOMAIN listings, listings[id].seller \in Submitters,
               CancelDutchOrder(id)
        PROVE  UNCHANGED now /\ Closes(id, listings[id].seller)
    BY <1>5, CancelEffect
  <1>6. CASE UNCHANGED <<bal, listings>>
    <2>1. bal \in [Tokens -> [Accounts -> Nat]]
      BY DEF TypeOK
    <2>2. QED
      BY <1>0, <1>6, <2>1
  <1>7. \/ \E o \in RfqOrders, s \in Submitters : \E a \in Amounts(o) :
              FillRfqOrder(o, s, a)
        \/ \E o \in FixedOrders, s \in Submitters : \E a \in Amounts(o) :
              FillFixedOrder(o, s, a)
        \/ \E s \in Submitters, d \in DutchOrders : CreateDutchOrder(s, d)
        \/ \E id \in DOMAIN listings, b \in Submitters, m \in MaxAsks :
              FillDutchOrder(id, b, m)
        \/ \E id \in DOMAIN listings :
              listings[id].seller \in Submitters /\ CancelDutchOrder(id)
        \/ UNCHANGED <<bal, listings>>
    BY DEF Next, vars, RegisterOrderSigner, CancelSalt, SetConfig, SetPaused, Tick
  <1>8. QED
    BY <1>1, <1>2, <1>3, <1>4, <1>5, <1>6, <1>7

(* The live listings in a token are finitely many, and each one's amount   *)
(* is natural.                                                             *)
LEMMA EscrowsType ==
    ASSUME TypeOK, NEW tok
    PROVE  /\ IsFiniteSet(ActiveListings(tok))
           /\ ActiveListings(tok) \subseteq DOMAIN listings
           /\ \A id \in DOMAIN listings :
                 Escrows[id] = listings[id].order.taker_amount /\ Escrows[id] \in Nat
           /\ SumOver(Escrows, ActiveListings(tok)) \in Nat
  <1>1. listings \in Seq(Listing)
    BY DEF TypeOK
  <1>2. DOMAIN listings = 1 .. Len(listings) /\ Len(listings) \in Int
    BY <1>1
  <1>3. ActiveListings(tok) \subseteq DOMAIN listings
    BY DEF ActiveListings
  <1>4. IsFiniteSet(ActiveListings(tok))
    BY <1>2, <1>3, FS_Interval, FS_Subset
  <1>5. ASSUME NEW id \in DOMAIN listings
        PROVE  Escrows[id] = listings[id].order.taker_amount /\ Escrows[id] \in Nat
    <2>1. listings[id] \in Listing
      BY <1>1
    <2>2. listings[id].order.taker_amount \in Nat
      BY <2>1 DEF Listing, DutchOrder
    <2>3. QED
      BY <2>2 DEF Escrows
  <1>6. SumOver(Escrows, ActiveListings(tok)) \in Nat
    BY <1>3, <1>4, <1>5, SumNat
  <1>7. QED
    BY <1>3, <1>4, <1>5, <1>6

(* Listing adds the new listing's amount to what is owed in its token.     *)
LEMMA ListedSum ==
    ASSUME TypeOK, NEW l \in Listing, Lists(l), NEW tok \in Tokens
    PROVE  SumOver(Escrows, ActiveListings(tok))'
              = SumOver(Escrows, ActiveListings(tok)) + EscrowOf(l, tok)
  <1> DEFINE A == ActiveListings(tok)
             B == ActiveListings(tok)'
             E == Escrows
             F == Escrows'
             n == Len(listings) + 1
  <1>1. /\ listings' = Append(listings, l) /\ listings \in Seq(Listing)
        /\ l.active
    BY DEF Lists, TypeOK
  <1>2. /\ n \in Nat /\ n \notin DOMAIN listings /\ listings'[n] = l
        /\ DOMAIN listings' = DOMAIN listings \cup {n}
        /\ \A id \in DOMAIN listings : listings'[id] = listings[id]
    BY <1>1
  <1>3. /\ IsFiniteSet(A) /\ A \subseteq DOMAIN listings
        /\ \A id \in DOMAIN listings : E[id] \in Nat
        /\ SumOver(E, A) \in Nat
    BY EscrowsType
  <1>4. /\ \A id \in DOMAIN listings : F[id] = E[id]
        /\ F[n] = l.order.taker_amount /\ F[n] \in Nat
    <2>1. \A id \in DOMAIN listings' : F[id] = listings'[id].order.taker_amount
      BY DEF Escrows
    <2>2. \A id \in DOMAIN listings : E[id] = listings[id].order.taker_amount
      BY DEF Escrows
    <2>3. l.order.taker_amount \in Nat
      BY DEF Listing, DutchOrder
    <2>4. QED
      BY <1>2, <2>1, <2>2, <2>3
  <1>5. B = IF l.order.taker_token = tok THEN A \cup {n} ELSE A
    <2>1. A = {id \in DOMAIN listings :
                 listings[id].active /\ listings[id].order.taker_token = tok}
      BY DEF ActiveListings
    <2>2. B = {id \in DOMAIN listings' :
                 listings'[id].active /\ listings'[id].order.taker_token = tok}
      BY DEF ActiveListings
    <2> HIDE DEF A, B
    <2>3. QED
      BY <1>1, <1>2, <2>1, <2>2
  <1> HIDE DEF A, B, E, F
  <1>6. SumOver(F, A) = SumOver(E, A)
    BY <1>3, <1>4, SumEqual
  <1>7. n \notin A /\ \A id \in A \cup {n} : F[id] \in Int
    BY <1>2, <1>3, <1>4
  <1> HIDE DEF n
  <1>8. SumOver(F, A \cup {n}) = F[n] + SumOver(F, A)
    BY <1>3, <1>7, SumAdd
  <1>9. SumOver(F, B) = SumOver(E, A) + EscrowOf(l, tok)
    BY <1>3, <1>4, <1>5, <1>6, <1>8 DEF EscrowOf
  <1>10. QED
    BY <1>9 DEF A, B, E, F

(* Closing one takes its amount off.                                       *)
LEMMA ClosedSum ==
    ASSUME TypeOK, NEW id \in DOMAIN listings, NEW who, Closes(id, who),
           NEW tok \in Tokens
    PROVE  SumOver(Escrows, ActiveListings(tok))'
              = SumOver(Escrows, ActiveListings(tok)) - EscrowOf(listings[id], tok)
  <1> DEFINE A == ActiveListings(tok)
             B == ActiveListings(tok)'
             E == Escrows
             F == Escrows'
             l == listings[id]
  <1>1. /\ listings' = [listings EXCEPT ![id].active = FALSE]
        /\ listings \in Seq(Listing) /\ l.active
    BY DEF Closes, Deactivate, TypeOK
  <1>2. l \in Listing
    BY <1>1
  <1>3. /\ DOMAIN listings' = DOMAIN listings
        /\ \A i \in DOMAIN listings : i # id => listings'[i] = listings[i]
        /\ listings'[id].active = FALSE
        /\ listings'[id].order = l.order
    BY <1>1, <1>2 DEF Listing
  <1>4. /\ IsFiniteSet(A) /\ A \subseteq DOMAIN listings
        /\ \A i \in DOMAIN listings : E[i] \in Nat
        /\ E[id] = l.order.taker_amount
        /\ SumOver(E, A) \in Nat
    BY EscrowsType
  <1>5. \A i \in DOMAIN listings : F[i] = E[i]
    <2>1. \A i \in DOMAIN listings' : F[i] = listings'[i].order.taker_amount
      BY DEF Escrows
    <2>2. \A i \in DOMAIN listings : E[i] = listings[i].order.taker_amount
      BY DEF Escrows
    <2>3. QED
      BY <1>3, <2>1, <2>2
  <1>6. A = {i \in DOMAIN listings :
               listings[i].active /\ listings[i].order.taker_token = tok}
    BY DEF ActiveListings
  <1>7. B = {i \in DOMAIN listings' :
               listings'[i].active /\ listings'[i].order.taker_token = tok}
    BY DEF ActiveListings
  <1> HIDE DEF A, B, E, F
  <1>8. B = A \ {id} /\ (id \in A <=> l.order.taker_token = tok)
    BY <1>1, <1>3, <1>6, <1>7
  <1>9. IsFiniteSet(B) /\ B \subseteq A
    BY <1>4, <1>8, FS_Subset
  <1>10. SumOver(F, B) = SumOver(E, B)
    BY <1>4, <1>5, <1>9, SumEqual
  <1>11. SumOver(F, B) = SumOver(E, A) - EscrowOf(l, tok)
    <2>1. CASE id \in A
      <3>1. SumOver(E, A) = E[id] + SumOver(E, B)
        BY <1>4, <1>8, <2>1, SumRemove
      <3>2. SumOver(E, B) \in Nat
        BY <1>4, <1>9, SumNat
      <3>3. EscrowOf(l, tok) = E[id] /\ E[id] \in Nat
        BY <1>4, <1>8, <2>1 DEF EscrowOf
      <3>4. QED
        BY <1>10, <3>1, <3>2, <3>3
    <2>2. CASE id \notin A
      <3>1. B = A /\ EscrowOf(l, tok) = 0
        BY <1>8, <2>2 DEF EscrowOf
      <3>2. QED
        BY <1>4, <1>10, <3>1
    <2>3. QED
      BY <2>1, <2>2
  <1>12. QED
    BY <1>11 DEF A, B, E, F, l

(* The invariant behind the theorems on listings.                          *)
EscrowInv ==
    TypeOK /\ ListingsSound /\ NobodySignsForRFQ /\ EscrowCovered

(* Nothing is listed at the start, and nobody signs for the contract.      *)
LEMMA EscrowInit == Init => EscrowInv
  <1> SUFFICES ASSUME Init
               PROVE  EscrowInv
    OBVIOUS
  <1>1. TypeOK
    BY TypeInit
  <1>2. listings = << >> /\ signers = {}
    BY DEF Init
  <1>3. ListingsSound /\ NobodySignsForRFQ
    BY <1>2 DEF ListingsSound, NobodySignsForRFQ
  <1>4. ASSUME NEW tok \in Tokens
        PROVE  bal[tok][RFQ] >= SumOver(Escrows, ActiveListings(tok))
    <2>1. ActiveListings(tok) = {}
      BY <1>2 DEF ActiveListings
    <2>2. SumOver(Escrows, ActiveListings(tok)) = 0
      BY <2>1, SumEmpty
    <2>3. bal[tok][RFQ] \in Nat
      BY <1>1, WorldAssumption DEF TypeOK
    <2>4. QED
      BY <2>2, <2>3
  <1>5. QED
    BY <1>1, <1>3, <1>4 DEF EscrowInv, EscrowCovered

(* Every step keeps the escrow covered.                                    *)
LEMMA EscrowStep == EscrowInv /\ [Next]_vars => EscrowInv'
  <1> SUFFICES ASSUME EscrowInv, [Next]_vars
               PROVE  EscrowInv'
    OBVIOUS
  <1>0. TypeOK /\ ListingsSound /\ NobodySignsForRFQ /\ EscrowCovered
    BY DEF EscrowInv
  <1>1. TypeOK'
    BY <1>0, TypeStep
  <1>2. NobodySignsForRFQ'
    <2>1. ASSUME NEW d \in Delegations, NEW allowed \in BOOLEAN,
                 RegisterOrderSigner(d[1], d[2], allowed)
          PROVE  NobodySignsForRFQ'
      <3>1. d[1] # RFQ
        BY WorldAssumption
      <3>2. QED
        BY <1>0, <2>1, <3>1 DEF RegisterOrderSigner, NobodySignsForRFQ
    <2>2. CASE UNCHANGED signers
      BY <1>0, <2>2 DEF NobodySignsForRFQ
    <2>3. \/ \E d \in Delegations, allowed \in BOOLEAN :
                RegisterOrderSigner(d[1], d[2], allowed)
          \/ UNCHANGED signers
      BY ZenonT(40) DEF Next, vars, authVars, FillRfqOrder, FillFixedOrder, CancelSalt,
             CreateDutchOrder, FillDutchOrder, CancelDutchOrder, SetConfig,
             SetPaused, Tick
    <2>4. QED
      BY <2>1, <2>2, <2>3
  <1>3. now \in Nat /\ now' \in Nat /\ now <= now'
    <2>1. now \in Nat /\ now' \in Nat
      BY <1>0, <1>1, ScaleAssumption DEF TypeOK
    <2>2. now' = now \/ now' = now + 1
      BY ZenonT(40) DEF Next, vars, FillRfqOrder, FillFixedOrder, CancelSalt,
             RegisterOrderSigner, CreateDutchOrder, FillDutchOrder,
             CancelDutchOrder, SetConfig, SetPaused, Tick
    <2>3. QED
      BY <2>1, <2>2
  <1>4. listings \in Seq(Listing)
    BY <1>0 DEF TypeOK
  <1>5. RFQ \in Accounts /\ bal \in Ledger /\ bal' \in Ledger
    BY <1>0, <1>1, WorldAssumption DEF TypeOK, Ledger
  <1>6. ListingsSound' /\ EscrowCovered'
    <2>1. CASE /\ UNCHANGED listings
               /\ \A t \in Tokens : ~(bal'[t][RFQ] < bal[t][RFQ])
      <3>1. ListingsSound'
        <4> SUFFICES ASSUME NEW id \in DOMAIN listings
                     PROVE  listings[id].created_at <= now'
          BY <1>0, <2>1 DEF ListingsSound
        <4>0. listings[id] \in Listing
          BY <1>4
        <4>1. listings[id].created_at \in Nat /\ listings[id].created_at <= now
          BY <1>0, <4>0 DEF ListingsSound, Listing
        <4>2. QED
          BY <1>3, <4>1
      <3>2. ASSUME NEW tok \in Tokens
            PROVE  bal'[tok][RFQ] >= SumOver(Escrows, ActiveListings(tok))'
        <4>1. SumOver(Escrows, ActiveListings(tok))'
                 = SumOver(Escrows, ActiveListings(tok))
          BY <2>1 DEF Escrows, ActiveListings
        <4>2. SumOver(Escrows, ActiveListings(tok)) \in Nat
          BY <1>0, EscrowsType
        <4>3. bal[tok][RFQ] >= SumOver(Escrows, ActiveListings(tok))
          BY <1>0 DEF EscrowCovered
        <4>4. QED
          BY <1>5, <2>1, <4>1, <4>2, <4>3 DEF Ledger
      <3>3. QED
        BY <3>1, <3>2 DEF EscrowCovered
    <2>2. ASSUME NEW l \in Listing, Lists(l), UNCHANGED now
          PROVE  ListingsSound' /\ EscrowCovered'
      <3>1. ListingsSound'
        <4>1. /\ l.seller \in Submitters /\ l.created_at = now
              /\ l.order.min_maker_amount <= l.order.start_maker_amount
              /\ listings' = Append(listings, l)
          BY <2>2 DEF Lists
        <4>2. \A id \in DOMAIN listings' :
                 \/ id \in DOMAIN listings /\ listings'[id] = listings[id]
                 \/ listings'[id] = l
          BY <1>4, <4>1
        <4>3. QED
          BY <1>0, <1>3, <2>2, <4>1, <4>2 DEF ListingsSound
      <3>2. ASSUME NEW tok \in Tokens
            PROVE  bal'[tok][RFQ] >= SumOver(Escrows, ActiveListings(tok))'
        <4>1. SumOver(Escrows, ActiveListings(tok))'
                 = SumOver(Escrows, ActiveListings(tok)) + EscrowOf(l, tok)
          BY <1>0, <2>2, ListedSum
        <4>2. SumOver(Escrows, ActiveListings(tok)) \in Nat
          BY <1>0, EscrowsType
        <4>3. bal[tok][RFQ] >= SumOver(Escrows, ActiveListings(tok))
          BY <1>0 DEF EscrowCovered
        <4>4. bal'[tok][RFQ] >= bal[tok][RFQ] + EscrowOf(l, tok)
          BY <2>2 DEF Lists
        <4>5. EscrowOf(l, tok) \in Nat
          BY DEF EscrowOf, Listing, DutchOrder
        <4>6. bal[tok][RFQ] \in Nat /\ bal'[tok][RFQ] \in Nat
          BY <1>5 DEF Ledger
        <4>7. QED
          BY <4>1, <4>2, <4>3, <4>4, <4>5, <4>6
      <3>3. QED
        BY <3>1, <3>2 DEF EscrowCovered
    <2>3. ASSUME NEW id \in DOMAIN listings, NEW who, Closes(id, who),
                 UNCHANGED now
          PROVE  ListingsSound' /\ EscrowCovered'
      <3>0. listings[id] \in Listing
        BY <1>4
      <3>1. ListingsSound'
        <4>1. listings' = [listings EXCEPT ![id].active = FALSE]
          BY <2>3 DEF Closes, Deactivate
        <4>2. DOMAIN listings' = DOMAIN listings
          BY <4>1
        <4>3. \A i \in DOMAIN listings : /\ listings'[i].seller = listings[i].seller
                                         /\ listings'[i].order = listings[i].order
                                         /\ listings'[i].created_at = listings[i].created_at
          BY <1>4, <3>0, <4>1 DEF Listing
        <4>4. QED
          BY <1>0, <2>3, <4>2, <4>3 DEF ListingsSound
      <3>2. ASSUME NEW tok \in Tokens
            PROVE  bal'[tok][RFQ] >= SumOver(Escrows, ActiveListings(tok))'
        <4> DEFINE e == EscrowOf(listings[id], tok)
        <4>1. SumOver(Escrows, ActiveListings(tok))'
                 = SumOver(Escrows, ActiveListings(tok)) - e
          BY <1>0, <2>3, ClosedSum
        <4>2. SumOver(Escrows, ActiveListings(tok)) \in Nat
          BY <1>0, EscrowsType
        <4>3. bal[tok][RFQ] >= SumOver(Escrows, ActiveListings(tok))
          BY <1>0 DEF EscrowCovered
        <4>4. bal'[tok][RFQ] >= bal[tok][RFQ] - e
          BY <2>3 DEF Closes
        <4>5. e \in Nat
          BY <3>0 DEF EscrowOf, Listing, DutchOrder
        <4>6. bal[tok][RFQ] \in Nat /\ bal'[tok][RFQ] \in Nat
          BY <1>5 DEF Ledger
        <4> HIDE DEF e
        <4>7. QED
          BY <4>1, <4>2, <4>3, <4>4, <4>5, <4>6
      <3>3. QED
        BY <3>1, <3>2 DEF EscrowCovered
    <2>4. QED
      BY <1>0, <2>1, <2>2, <2>3, StepListings
  <1>7. QED
    BY <1>1, <1>2, <1>6 DEF EscrowInv

(* The contract's balance always covers every live listing at once: no     *)
(* fill of a signed order touches it, a listing brings in what it may      *)
(* later release, and closing one releases its own amount only.            *)
THEOREM EscrowAlwaysCovered == Spec => []EscrowCovered
  <1>1. EscrowInv => EscrowCovered
    BY DEF EscrowInv
  <1>2. QED
    BY <1>1, EscrowInit, EscrowStep, PTL DEF Spec

(* So cancel_dutch_order never fails for want of the escrowed token: a     *)
(* live listing is all that its seller needs.                              *)
THEOREM EscrowAlwaysReleasable ==
    Spec => [](\A id \in DOMAIN listings :
                  listings[id].active => CanRelease(listings[id]))
  <1>1. ASSUME EscrowInv, NEW id \in DOMAIN listings, listings[id].active
        PROVE  CanRelease(listings[id])
    <2> DEFINE tok == listings[id].order.taker_token
    <2>1. TypeOK /\ EscrowCovered
      BY <1>1 DEF EscrowInv
    <2>2. listings[id] \in Listing
      BY <2>1 DEF TypeOK
    <2>3. tok \in Tokens /\ id \in ActiveListings(tok)
      BY <1>1, <2>2 DEF Listing, DutchOrder, ActiveListings
    <2>4. /\ IsFiniteSet(ActiveListings(tok))
          /\ \A i \in ActiveListings(tok) : Escrows[i] \in Nat
          /\ SumOver(Escrows, ActiveListings(tok)) \in Nat
          /\ Escrows[id] = listings[id].order.taker_amount
          /\ Escrows[id] \in Nat
      BY <2>1, EscrowsType
    <2>5. Escrows[id] <= SumOver(Escrows, ActiveListings(tok))
      BY <2>3, <2>4, SumNat
    <2>6. bal[tok][RFQ] >= SumOver(Escrows, ActiveListings(tok))
      BY <2>1, <2>3 DEF EscrowCovered
    <2>7. bal[tok][RFQ] \in Nat
      BY <2>1, <2>3, WorldAssumption DEF TypeOK
    <2> HIDE DEF tok
    <2>8. bal[tok][RFQ] >= listings[id].order.taker_amount
      BY <2>4, <2>5, <2>6, <2>7
    <2>9. QED
      BY <2>8 DEF CanRelease, tok
  <1>2. EscrowInv => \A id \in DOMAIN listings :
                        listings[id].active => CanRelease(listings[id])
    BY <1>1
  <1>3. QED
    BY <1>2, EscrowInit, EscrowStep, PTL DEF Spec

-----------------------------------------------------------------------------
(* The ask and what a seller is left with                                  *)

(* While time passes from creation the ask stays on its curve.             *)
LEMMA AskBounds ==
    ASSUME NEW l \in Listing, NEW t \in Nat, l.created_at <= t,
           l.order.min_maker_amount <= l.order.start_maker_amount
    PROVE  /\ Ask(l, t) \in Nat
           /\ l.order.min_maker_amount <= Ask(l, t)
           /\ Ask(l, t) <= l.order.start_maker_amount
  <1> DEFINE start == l.order.start_maker_amount
             floor == l.order.min_maker_amount
             d == l.decay_seconds
             elapsed == t - l.created_at
             drop == MulDiv(start - floor, elapsed, d)
  <1>1. /\ start \in Nat /\ floor \in Nat /\ d \in Nat /\ l.created_at \in Nat
        /\ floor <= start
    BY DEF Listing, DutchOrder
  <1>2. elapsed \in Nat /\ start - floor \in Nat
    BY <1>1
  <1>3. Ask(l, t) = IF d = 0 \/ elapsed >= d THEN floor ELSE start - drop
    BY DEF Ask
  <1> HIDE DEF start, floor, d, elapsed
  <1>4. CASE d = 0 \/ elapsed >= d
    BY <1>1, <1>3, <1>4 DEF start, floor
  <1>5. CASE ~(d = 0 \/ elapsed >= d)
    <2>1. d \in Nat \ {0} /\ elapsed <= d
      BY <1>1, <1>2, <1>5
    <2>2. drop \in Nat /\ drop <= start - floor
      BY <1>2, <2>1, MulDivPart
    <2> HIDE DEF drop
    <2>3. QED
      BY <1>1, <1>3, <1>5, <2>2 DEF start, floor
  <1>6. QED
    BY <1>4, <1>5

(* And only falls.                                                         *)
LEMMA AskFalls ==
    ASSUME NEW l \in Listing, NEW t \in Nat, NEW u \in Nat, l.created_at <= t,
           t <= u, l.order.min_maker_amount <= l.order.start_maker_amount
    PROVE  Ask(l, u) <= Ask(l, t)
  <1> DEFINE start == l.order.start_maker_amount
             floor == l.order.min_maker_amount
             d == l.decay_seconds
             e1 == t - l.created_at
             e2 == u - l.created_at
  <1>1. /\ start \in Nat /\ floor \in Nat /\ d \in Nat /\ l.created_at \in Nat
        /\ floor <= start
    BY DEF Listing, DutchOrder
  <1>2. e1 \in Nat /\ e2 \in Nat /\ e1 <= e2 /\ start - floor \in Nat
    BY <1>1
  <1>3. /\ Ask(l, t) = IF d = 0 \/ e1 >= d THEN floor
                       ELSE start - MulDiv(start - floor, e1, d)
        /\ Ask(l, u) = IF d = 0 \/ e2 >= d THEN floor
                       ELSE start - MulDiv(start - floor, e2, d)
    BY DEF Ask
  <1>4. floor <= Ask(l, t)
    BY AskBounds
  <1> HIDE DEF start, floor, d, e1, e2
  <1>5. CASE d = 0 \/ e2 >= d
    BY <1>3, <1>4, <1>5
  <1>6. CASE ~(d = 0 \/ e2 >= d)
    <2>1. d \in Nat \ {0} /\ ~(e1 >= d)
      BY <1>1, <1>2, <1>6
    <2> DEFINE m1 == MulDiv(start - floor, e1, d)
               m2 == MulDiv(start - floor, e2, d)
    <2>2. m1 <= m2 /\ m1 \in Nat /\ m2 \in Nat
      BY <1>2, <2>1, MulDivMonotone, MulDivBelow
    <2>3. Ask(l, t) = start - m1 /\ Ask(l, u) = start - m2
      BY <1>3, <1>6, <2>1
    <2> HIDE DEF m1, m2
    <2>4. QED
      BY <1>1, <2>2, <2>3
  <1>7. QED
    BY <1>5, <1>6

(* A step leaves a stored listing as it was, or closes it.                 *)
LEMMA ListingKept ==
    ASSUME EscrowInv, [Next]_vars, NEW id \in DOMAIN listings
    PROVE  /\ id \in DOMAIN listings'
           /\ \/ listings'[id] = listings[id]
              \/ listings'[id] = [listings[id] EXCEPT !.active = FALSE]
           /\ ~listings[id].active => listings'[id] = listings[id]
  <1>0. TypeOK /\ ListingsSound /\ NobodySignsForRFQ
    BY DEF EscrowInv
  <1>1. listings \in Seq(Listing)
    BY <1>0 DEF TypeOK
  <1>2. ASSUME NEW l \in Listing, Lists(l)
        PROVE  id \in DOMAIN listings' /\ listings'[id] = listings[id]
    BY <1>1, <1>2 DEF Lists
  <1>3. ASSUME NEW i \in DOMAIN listings, NEW who, Closes(i, who)
        PROVE  /\ id \in DOMAIN listings'
               /\ IF id = i THEN /\ listings'[id] = [listings[id] EXCEPT !.active = FALSE]
                                 /\ listings[id].active
                  ELSE listings'[id] = listings[id]
    BY <1>1, <1>3 DEF Closes, Deactivate
  <1>4. QED
    BY <1>0, <1>2, <1>3, StepListings

(* The clock never goes back.                                              *)
LEMMA ClockStep ==
    ASSUME TypeOK, [Next]_vars
    PROVE  now \in Nat /\ now' \in Nat /\ now <= now'
  <1>1. now \in Nat
    BY ScaleAssumption DEF TypeOK
  <1>2. now' = now \/ now' = now + 1
    BY ZenonT(40) DEF Next, vars, FillRfqOrder, FillFixedOrder, CancelSalt,
           RegisterOrderSigner, CreateDutchOrder, FillDutchOrder,
           CancelDutchOrder, SetConfig, SetPaused, Tick
  <1>3. QED
    BY <1>1, <1>2

(* A live listing's ask never rises and never leaves the range its seller  *)
(* signed, whatever the admin does to the decay window: dutch_ask uses the *)
(* window the listing was stored with.                                     *)
THEOREM AskNeverRises == Spec => AskOnlyFalls
  <1> DEFINE A == \A id \in DOMAIN listings :
                    LET l == listings[id] IN l.active =>
                      /\ Ask(listings[id], now)' <= Ask(l, now)
                      /\ Ask(l, now) \in l.order.min_maker_amount
                                            .. l.order.start_maker_amount
  <1>1. ASSUME EscrowInv, [Next]_vars
        PROVE  A
    <2> SUFFICES ASSUME NEW id \in DOMAIN listings
                 PROVE  LET l == listings[id] IN
                        /\ Ask(listings[id], now)' <= Ask(l, now)
                        /\ Ask(l, now) \in l.order.min_maker_amount
                                              .. l.order.start_maker_amount
      OBVIOUS
    <2> DEFINE l == listings[id]
    <2>1. TypeOK /\ ListingsSound
      BY <1>1 DEF EscrowInv
    <2>2. l \in Listing
      BY <2>1 DEF TypeOK
    <2>3. /\ l.created_at <= now
          /\ l.order.min_maker_amount <= l.order.start_maker_amount
      BY <2>1 DEF ListingsSound
    <2>4. now \in Nat /\ now' \in Nat /\ now <= now'
      BY <1>1, <2>1, ClockStep
    <2>5. Ask(listings[id], now)' = Ask(l, now')
      <3>1. listings'[id] = l \/ listings'[id] = [l EXCEPT !.active = FALSE]
        BY <1>1, ListingKept
      <3>2. /\ listings'[id].order = l.order
            /\ listings'[id].created_at = l.created_at
            /\ listings'[id].decay_seconds = l.decay_seconds
        BY <2>2, <3>1 DEF Listing
      <3>3. QED
        BY <3>2 DEF Ask
    <2>6. /\ l.order.min_maker_amount \in Nat /\ l.order.start_maker_amount \in Nat
      BY <2>2 DEF Listing, DutchOrder
    <2> HIDE DEF l
    <2>7. Ask(l, now') <= Ask(l, now)
      BY <2>2, <2>3, <2>4, AskFalls
    <2>8. Ask(l, now) \in l.order.min_maker_amount .. l.order.start_maker_amount
      BY <2>2, <2>3, <2>4, <2>6, AskBounds
    <2>9. QED
      BY <2>5, <2>7, <2>8 DEF l
  <1>2. AskOnlyFalls <=> [][A]_vars
    BY DEF AskOnlyFalls
  <1> HIDE DEF A
  <1>3. QED
    BY <1>1, <1>2, EscrowInit, EscrowStep, PTL DEF Spec

(* What closing a listing does for its seller.                             *)
MadeWhole(l) ==
    LET o == l.order
        ask == Ask(l, now)
    IN  \/ Received(bal, bal', o.maker_token, l.seller)
              >= ask - FeeOn(ask, o.fee_bps)
        \/ \E c \in Credits(o.taker_token, o.taker_amount) :
              bal' = Transfer(bal, o.taker_token, RFQ, l.seller,
                              o.taker_amount, c)

(* A listing ends once and for all, and its seller has then been credited  *)
(* the ask of that moment less its fee, or sent the whole escrow back:     *)
(* whatever the listed token and the money do to a transfer, for a sale is *)
(* checked on what the seller's balance gained.                            *)
THEOREM SellerAlwaysMadeWhole == Spec => SellerMadeWhole
  <1> DEFINE A == \A id \in DOMAIN listings :
                    /\ ~listings[id].active => listings'[id] = listings[id]
                    /\ listings[id].active /\ ~listings'[id].active =>
                          MadeWhole(listings[id])
  <1>1. ASSUME EscrowInv, [Next]_vars
        PROVE  A
    <2> SUFFICES ASSUME NEW id \in DOMAIN listings,
                        listings[id].active, ~listings'[id].active
                 PROVE  MadeWhole(listings[id])
      BY <1>1, ListingKept
    <2>1. TypeOK /\ ListingsSound /\ listings \in Seq(Listing)
      BY <1>1 DEF EscrowInv, TypeOK
    <2>2. ASSUME NEW i \in DOMAIN listings, NEW b \in Submitters,
                 NEW m \in MaxAsks, FillDutchOrder(i, b, m)
          PROVE  MadeWhole(listings[id])
      <3>1. i = id
        BY <2>1, <2>2 DEF FillDutchOrder, Deactivate
      <3>2. m \in Int /\ listings[i].seller \in Submitters
        BY <2>1, WorldAssumption DEF ListingsSound
      <3>3. QED
        BY <2>1, <2>2, <3>1, <3>2, SaleEffect DEF MadeWhole
    <2>3. ASSUME NEW i \in DOMAIN listings, listings[i].seller \in Submitters,
                 CancelDutchOrder(i)
          PROVE  MadeWhole(listings[id])
      <3>1. i = id
        BY <2>1, <2>3 DEF CancelDutchOrder, Deactivate
      <3>2. QED
        BY <2>3, <3>1 DEF CancelDutchOrder, Release, ReleaseCredits, MadeWhole
    <2>4. ASSUME NEW s \in Submitters, NEW d \in DutchOrders,
                 CreateDutchOrder(s, d)
          PROVE  FALSE
      <3>1. PICK l \in Listing : Lists(l)
        BY <2>1, <2>4, CreateEffect
      <3>2. listings' = Append(listings, l)
        BY <3>1 DEF Lists
      <3>3. QED
        BY <2>1, <3>2
    <2>5. \/ \E i \in DOMAIN listings, b \in Submitters, m \in MaxAsks :
                FillDutchOrder(i, b, m)
          \/ \E i \in DOMAIN listings :
                listings[i].seller \in Submitters /\ CancelDutchOrder(i)
          \/ \E s \in Submitters, d \in DutchOrders : CreateDutchOrder(s, d)
          \/ UNCHANGED listings
      BY <1>1, ZenonT(40) DEF Next, vars, RegisterOrderSigner, CancelSalt, SetConfig,
                  SetPaused, Tick, FillRfqOrder, FillFixedOrder
    <2>6. QED
      BY <2>2, <2>3, <2>4, <2>5
  <1>2. SellerMadeWhole <=> [][A]_vars
    BY DEF SellerMadeWhole, MadeWhole
  <1> HIDE DEF A
  <1>3. QED
    BY <1>1, <1>2, EscrowInit, EscrowStep, PTL DEF Spec

(* An account that submits nothing is debited only by a fill that it, or a *)
(* hot key it still has registered, signed for: listing and closing        *)
(* listings move nobody's tokens but the caller's and the contract's.      *)
THEOREM OnlySignersPay == Spec => OfflineDebitsAreSigned
  <1> DEFINE A ==
        \A t \in Tokens, a \in Accounts \ (Submitters \cup {RFQ}) :
           bal'[t][a] < bal[t][a] =>
              \E o \in Orders :
                 /\ filled'[o] > filled[o]
                 /\ \/ a = o.maker /\ t = o.maker_token /\ Verify(a, o)
                    \/ a = o.taker /\ t = o.taker_token /\ Verify(a, Request(o))
  <1>1. ASSUME EscrowInv, [Next]_vars
        PROVE  A
    <2> SUFFICES ASSUME NEW t \in Tokens,
                        NEW a \in Accounts \ (Submitters \cup {RFQ}),
                        bal'[t][a] < bal[t][a]
                 PROVE  \E o \in Orders :
                          /\ filled'[o] > filled[o]
                          /\ \/ a = o.maker /\ t = o.maker_token /\ Verify(a, o)
                             \/ /\ a = o.taker /\ t = o.taker_token
                                /\ Verify(a, Request(o))
      OBVIOUS
    <2>0. TypeOK /\ ListingsSound /\ Submitters \subseteq Accounts
      BY <1>1, WorldAssumption DEF EscrowInv
    <2>1. ASSUME NEW o \in Orders, NEW s \in Submitters, FillOf(o, s)
          PROVE  /\ filled'[o] > filled[o]
                 /\ \/ a = o.maker /\ t = o.maker_token /\ Verify(a, o)
                    \/ /\ a = o.taker /\ t = o.taker_token
                       /\ Verify(a, Request(o))
      <3>1. \/ t = o.taker_token /\ a = TakerOf(o, s)
            \/ t = o.maker_token /\ a = o.maker
        BY <2>1 DEF FillOf
      <3>2. CASE t = o.taker_token /\ a = TakerOf(o, s)
        <4>1. a # s
          OBVIOUS
        <4>2. a = o.taker /\ o.taker # None
          BY <3>2, <4>1 DEF TakerOf
        <4>3. Verify(o.taker, Request(o))
          BY <2>1, <4>1, <4>2 DEF FillOf, Consented
        <4>4. QED
          BY <2>1, <3>2, <4>2, <4>3 DEF FillOf
      <3>3. CASE t = o.maker_token /\ a = o.maker
        BY <2>1, <3>3 DEF FillOf, Consented
      <3>4. QED
        BY <3>1, <3>2, <3>3
    <2>2. ASSUME NEW o \in RfqOrders, NEW s \in Submitters,
                 NEW n \in Amounts(o), FillRfqOrder(o, s, n)
          PROVE  o \in Orders /\ FillOf(o, s)
      BY <2>0, <2>2, FillRfqDebits DEF Amounts, Orders
    <2>3. ASSUME NEW o \in FixedOrders, NEW s \in Submitters,
                 NEW n \in Amounts(o), FillFixedOrder(o, s, n)
          PROVE  o \in Orders /\ FillOf(o, s)
      BY <2>0, <2>3, FillFixedDebits DEF Amounts, Orders
    <2>4. ASSUME NEW s \in Submitters, NEW d \in DutchOrders,
                 CreateDutchOrder(s, d)
          PROVE  FALSE
      BY <2>0, <2>4, CreateEffect DEF Lists
    <2>5. ASSUME NEW i \in DOMAIN listings, NEW b \in Submitters,
                 NEW m \in MaxAsks, FillDutchOrder(i, b, m)
          PROVE  FALSE
      <3>1. listings[i].seller \in Submitters /\ m \in Int
        BY <2>0, WorldAssumption DEF ListingsSound
      <3>2. Closes(i, b)
        BY <2>0, <2>5, <3>1, SaleEffect
      <3>3. QED
        BY <3>2 DEF Closes
    <2>6. ASSUME NEW i \in DOMAIN listings, listings[i].seller \in Submitters,
                 CancelDutchOrder(i)
          PROVE  FALSE
      BY <2>0, <2>6, CancelEffect DEF Closes
    <2>7. bal # bal'
      BY <2>0 DEF TypeOK
    <2>8. \/ \E o \in RfqOrders, s \in Submitters : \E n \in Amounts(o) :
                FillRfqOrder(o, s, n)
          \/ \E o \in FixedOrders, s \in Submitters : \E n \in Amounts(o) :
                FillFixedOrder(o, s, n)
          \/ \E s \in Submitters, d \in DutchOrders : CreateDutchOrder(s, d)
          \/ \E i \in DOMAIN listings, b \in Submitters, m \in MaxAsks :
                FillDutchOrder(i, b, m)
          \/ \E i \in DOMAIN listings :
                listings[i].seller \in Submitters /\ CancelDutchOrder(i)
          \/ bal' = bal
      BY <1>1 DEF Next, vars, RegisterOrderSigner, CancelSalt, SetConfig,
                  SetPaused, Tick
    <2>9. QED
      BY <2>1, <2>2, <2>3, <2>4, <2>5, <2>6, <2>7, <2>8
  <1>2. OfflineDebitsAreSigned <=> [][A]_vars
    BY DEF OfflineDebitsAreSigned
  <1> HIDE DEF A
  <1>3. QED
    BY <1>1, <1>2, EscrowInit, EscrowStep, PTL DEF Spec
=============================================================================
