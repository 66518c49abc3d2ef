-------------------------- MODULE CrossSettleProofs --------------------------
(***************************************************************************)
(* Theorems about cross-chain settlement, for every set of requests, bids, *)
(* quotes, tokens and settings, any number of fills and either transport.  *)
(***************************************************************************)
EXTENDS CrossSettle, ArithmeticTheorems

-----------------------------------------------------------------------------
(* The inductive invariant                                                 *)

(* What is in force and what is queued is what governance is trusted with. *)
SettingsSound ==
    /\ setting = [s \in Slots |-> setting[s]]
    /\ pending = [s \in Slots |-> pending[s]]
    /\ \A s \in Slots :
          /\ SoundSetting(s, setting[s])
          /\ pending[s] # None => SoundSetting(s, pending[s].to)

(* A message about an open order carries enough, in the right token.       *)
Covers(m, token) ==
    /\ order[m.id].stable = Link[token]
    /\ m.amount * Unit[order[m.id].stable] >= order[m.id].amount

FillsCover ==
    /\ \A m \in fills : Covers(m, m.bid.stable)
    /\ \A m \in inbox : Covers(m, m.bid.stable)

PaidsCover == \A m \in paids : Covers(m, m.token)

Inv == SwapTypes /\ SettingsSound /\ SwapStages /\ FillsCover /\ PaidsCover

-----------------------------------------------------------------------------
(* Amounts                                                                 *)

(* Rounding a quote up to wire units never loses any of it.                *)
LEMMA WireAmountCovers ==
    ASSUME NEW t \in Tokens, NEW n \in Nat
    PROVE  WireAmount(t, n) \in Nat /\ WireAmount(t, n) * Unit[t] >= n
  <1>1. PICK u \in Nat \ {0} : u = Unit[t]
    BY WorldAssumption
  <1>2. PICK k \in Nat : k = n + u - 1
    OBVIOUS
  <1>3. k \div u \in Nat /\ k < u * (k \div u) + u
    BY DivBracket
  <1>4. (k \div u) * u >= n
    BY <1>2, <1>3
  <1>5. QED
    BY <1>1, <1>2, <1>3, <1>4 DEF WireAmount

(* What is pulled from the maker is whole wire units: the bridge carries   *)
(* exactly the amount the FILL named.                                      *)
LEMMA OnWireExact ==
    ASSUME NEW t \in Tokens, NEW n \in Nat
    PROVE  OnWire(t, n * Unit[t]) = n
  <1>1. PICK u \in Nat \ {0} : u = Unit[t]
    BY WorldAssumption
  <1>2. PICK k \in Nat : k = n * u
    OBVIOUS
  <1>3. k \div u \in Nat /\ u * (k \div u) <= k /\ k < u * (k \div u) + u
    BY DivBracket
  <1>4. n * u < (k \div u + 1) * u /\ (k \div u) * u < (n + 1) * u
    BY <1>2, <1>3
  <1>5. n <= k \div u /\ k \div u <= n
    BY <1>3, <1>4, QuotientOrder
  <1>6. QED
    BY <1>1, <1>2, <1>3, <1>5 DEF OnWire

-----------------------------------------------------------------------------
(* Steps                                                                   *)

(* A request none of whose marks and messages change keeps its stage.      *)
LEMMA StageKept ==
    ASSUME NEW id \in Requests, Stage(id),
           order'[id] = order[id], id \in filled' <=> id \in filled,
           fails'[id] = fails[id], FillsOf(id)' = FillsOf(id),
           InboxOf(id)' = InboxOf(id), PaidsOf(id)' = PaidsOf(id),
           PaidFor(id)' = PaidFor(id)
    PROVE  Stage(id)'
  <1>1. /\ Closed(id)' <=> Closed(id)
        /\ Open(id)' <=> Open(id)
        /\ Unpaid(id)' <=> Unpaid(id)
    BY DEF Closed, Open, Unpaid
  <1>2. (\E m \in fills' : FillsOf(id)' = {m}) <=> \E m \in fills : FillsOf(id) = {m}
    BY DEF FillsOf
  <1>3. (\E m \in inbox' : InboxOf(id)' = {m}) <=> \E m \in inbox : InboxOf(id) = {m}
    BY DEF InboxOf
  <1>4. (\E m \in paids' : PaidsOf(id)' = {m} /\ PaidFor(id)' = {m.bid})
          <=> \E m \in paids : PaidsOf(id) = {m} /\ PaidFor(id) = {m.bid}
    BY DEF PaidsOf
  <1>5. QED
    BY <1>1, <1>2, <1>3, <1>4
       DEF Stage, Idle, Travelling, Parked, Failing, Paying, Settled

(* Steps that touch no mark and no message of the swap.                    *)
LEMMA QuietStep ==
    ASSUME Inv, UNCHANGED swapVars
    PROVE  SwapTypes' /\ SwapStages' /\ FillsCover' /\ PaidsCover'
  <1>1. SwapTypes'
    BY DEF Inv, SwapTypes, swapVars
  <1>2. SwapStages'
    <2> SUFFICES ASSUME NEW id \in Requests PROVE Stage(id)'
      BY DEF SwapStages
    <2>1. /\ FillsOf(id)' = FillsOf(id) /\ InboxOf(id)' = InboxOf(id)
          /\ PaidsOf(id)' = PaidsOf(id) /\ PaidFor(id)' = PaidFor(id)
      BY DEF FillsOf, InboxOf, PaidsOf, PaidFor, swapVars
    <2>2. QED
      BY <2>1, StageKept DEF Inv, SwapStages, swapVars
  <1>3. FillsCover' /\ PaidsCover'
    BY DEF Inv, FillsCover, PaidsCover, Covers, swapVars
  <1>4. QED
    BY <1>1, <1>2, <1>3

(* The order `fill` stores is a record, so it is never None.               *)
LEMMA OrderTyped ==
    ASSUME SettingsSound, NEW id \in Requests, NEW bid \in Bids,
           NEW q \in Quotes, id.taker # None
    PROVE  OrderOf(id, bid, q) \in OrderRecords /\ OrderOf(id, bid, q) # None
  <1>1. setting[TipOn("home")] \in Nat
    <2>1. TipOn("home") \in Slots
      BY DEF Slots, Chains
    <2>2. TipOn("home")[1] = "tip"
      BY DEF TipOn
    <2>3. QED
      BY <2>1, <2>2 DEF SettingsSound, SoundSetting
  <1>2. Tip("home", id.maker_token) \in Nat
    BY <1>1, WorldAssumption DEF Tip
  <1>3. OrderOf(id, bid, q) \in OrderRecords
    BY <1>2, WorldAssumption DEF OrderOf, OrderRecords
  <1>4. QED
    BY <1>3, WorldAssumption

(* `fill` takes an idle request on its way: the FILL it sends is the only  *)
(* message about it, and asks for enough.                                  *)
LEMMA FillStep ==
    ASSUME Inv, NEW id \in Requests, NEW bid \in Bids, NEW q \in Quotes,
           NEW sig \in Keys \cup {None}, Fill(id, bid, q, sig)
    PROVE  SwapTypes' /\ SwapStages' /\ FillsCover' /\ PaidsCover'
  <1> DEFINE wire == WireAmount(id.maker_token, q.maker_amount)
             msg == [id |-> id, bid |-> bid, sig |-> sig, amount |-> wire,
                     try |-> tries[id]]
             o == OrderOf(id, bid, q)
  <1>1. id.taker # None /\ id \notin filled
    BY DEF Fill, CheckRequest
  <1>2. Idle(id)
    BY <1>1 DEF Inv, SwapStages, Stage, Travelling, Parked, Failing, Paying,
               Settled, Open
  <1>3. o \in OrderRecords /\ o # None
    BY <1>1, OrderTyped DEF Inv
  <1>4. id.maker_token \in Tokens /\ q.maker_amount \in Nat
    BY WorldAssumption
  <1>5. wire \in Nat /\ wire * Unit[id.maker_token] >= q.maker_amount
    BY <1>4, WireAmountCovers
  <1>6. Link[bid.stable] = id.maker_token
    <2>1. RouteOf(id.maker_token) \in Slots
      BY <1>4 DEF Slots
    <2>2. setting[RouteOf(id.maker_token)] = bid.stable
      BY DEF Fill, CheckBid
    <2>3. SoundSetting(RouteOf(id.maker_token), bid.stable)
      BY <2>1, <2>2 DEF Inv, SettingsSound
    <2>4. RouteOf(id.maker_token)[1] = "route" /\ RouteOf(id.maker_token)[2] = id.maker_token
      BY DEF RouteOf
    <2>5. bid.stable # None
      BY WorldAssumption
    <2>6. QED
      BY <2>3, <2>4, <2>5 DEF SoundSetting
  <1>7. o.stable = id.maker_token /\ o.amount = q.maker_amount
    BY DEF OrderOf
  <1> HIDE DEF o, wire
  <1>8. /\ filled' = filled \cup {id}
        /\ order' = [order EXCEPT ![id] = o]
        /\ fills' = fills \cup {msg}
        /\ tries' = [tries EXCEPT ![id] = @ + 1]
        /\ UNCHANGED <<used, inbox, fails, paids>>
    BY DEF Fill, o, wire
  <1>9. SwapTypes'
    <2>1. msg \in Fills
      BY <1>5 DEF Inv, SwapTypes, Fills
    <2> HIDE DEF msg
    <2>2. QED
      BY <1>3, <1>8, <2>1 DEF Inv, SwapTypes
  <1>10. SwapStages'
    <2> SUFFICES ASSUME NEW i \in Requests PROVE Stage(i)'
      BY DEF SwapStages
    <2>1. /\ InboxOf(i)' = InboxOf(i) /\ PaidsOf(i)' = PaidsOf(i)
          /\ PaidFor(i)' = PaidFor(i) /\ fails'[i] = fails[i]
      BY <1>8 DEF InboxOf, PaidsOf, PaidFor
    <2>2. CASE i = id
      <3>1. FillsOf(id)' = {msg} /\ msg \in fills'
        BY <1>2, <1>8 DEF Idle, Closed, FillsOf
      <3>2. order'[id] # None /\ id \in filled'
        BY <1>3, <1>8 DEF Inv, SwapTypes
      <3>3. Travelling(id)'
        BY <1>2, <2>1, <2>2, <3>1, <3>2 DEF Travelling, Idle, Closed, Open, Unpaid
      <3>4. QED
        BY <2>2, <3>3 DEF Stage
    <2>3. CASE i # id
      <3>1. FillsOf(i)' = FillsOf(i)
        BY <1>8, <2>3 DEF FillsOf
      <3>2. order'[i] = order[i] /\ (i \in filled' <=> i \in filled)
        BY <1>8, <2>3 DEF Inv, SwapTypes
      <3>3. QED
        BY <2>1, <3>1, <3>2, StageKept DEF Inv, SwapStages
    <2>4. QED
      BY <2>2, <2>3
  <1>11. FillsCover' /\ PaidsCover'
    <2>1. \A m \in fills \cup inbox \cup paids : m.id # id
      BY <1>2 DEF Idle, Closed, Unpaid, FillsOf, InboxOf, PaidsOf
    <2>2. \A m \in fills \cup inbox \cup paids : order'[m.id] = order[m.id]
      BY <1>8, <2>1 DEF Inv, SwapTypes
    <2>3. order'[id] = o
      BY <1>8 DEF Inv, SwapTypes
    <2>4. Covers(msg, msg.bid.stable)'
      BY <1>5, <1>6, <1>7, <2>3 DEF Covers
    <2>5. QED
      BY <1>8, <2>2, <2>4 DEF Inv, FillsCover, PaidsCover, Covers
  <1>12. QED
    BY <1>9, <1>10, <1>11

(* on_fill answers an unpaid request: with the one PAID that settles it,   *)
(* or with one FAIL and nothing else.                                      *)
LEMMA AnswerStep ==
    ASSUME Inv, NEW m, m.id \in Requests, m.bid \in Bids, m.amount \in Nat,
           OnFill(m), Open(m.id), Unpaid(m.id), fails[m.id] = 0,
           Covers(m, m.bid.stable),
           FillsOf(m.id)' = {}, InboxOf(m.id)' = {},
           \A i \in Requests : i # m.id =>
               FillsOf(i)' = FillsOf(i) /\ InboxOf(i)' = InboxOf(i)
    PROVE  /\ used' \subseteq Requests \X Bids
           /\ fails' \in [Requests -> Nat]
           /\ paids' \subseteq Paids
           /\ SwapStages' /\ PaidsCover'
  <1> DEFINE paid == [id |-> m.id, bid |-> m.bid, token |-> m.bid.stable,
                      amount |-> OnWire(m.bid.stable, Local(m))]
  <1>1. UNCHANGED <<order, filled>>
    BY DEF OnFill
  <1>2. m.bid.stable \in Tokens
    BY WorldAssumption
  <1>3. CASE Pay(m)
    <2>1. paid.amount = m.amount
      BY <1>2, OnWireExact DEF Local
    <2>2. paid \in Paids
      BY <1>2, <2>1 DEF Paids
    <2>3. Covers(paid, paid.token)'
      BY <1>1, <2>1 DEF Covers
    <2>4. paid.id = m.id /\ paid.bid = m.bid
      OBVIOUS
    <2>5. /\ used' = used \cup {<<m.id, m.bid>>}
          /\ paids' = paids \cup {paid} /\ fails' = fails
      BY <1>3 DEF Pay
    <2> HIDE DEF paid
    <2>6. SwapStages'
      <3> SUFFICES ASSUME NEW i \in Requests PROVE Stage(i)'
        BY DEF SwapStages
      <3>1. CASE i = m.id
        <4>1. PaidsOf(i)' = {paid} /\ paid \in paids'
          BY <2>4, <2>5, <3>1 DEF Unpaid, PaidsOf
        <4>2. PaidFor(i)' = {paid.bid}
          BY <2>4, <2>5, <3>1 DEF Unpaid, PaidFor
        <4>3. Paying(i)'
          BY <1>1, <2>5, <3>1, <4>1, <4>2 DEF Paying, Open
        <4>4. QED
          BY <4>3 DEF Stage
      <3>2. CASE i # m.id
        <4>1. PaidsOf(i)' = PaidsOf(i) /\ PaidFor(i)' = PaidFor(i)
          BY <2>4, <2>5, <3>2 DEF PaidsOf, PaidFor
        <4>2. QED
          BY <1>1, <2>5, <3>2, <4>1, StageKept DEF Inv, SwapStages
      <3>3. QED
        BY <3>1, <3>2
    <2>7. PaidsCover'
      BY <1>1, <2>3, <2>5 DEF Inv, PaidsCover, Covers
    <2>8. QED
      BY <2>2, <2>5, <2>6, <2>7 DEF Inv, SwapTypes
  <1>4. CASE SendFail(m)
    <2>1. /\ fails' = [fails EXCEPT ![m.id] = @ + 1]
          /\ UNCHANGED <<used, paids>>
      BY <1>4 DEF SendFail
    <2>2. fails' \in [Requests -> Nat]
      BY <2>1 DEF Inv, SwapTypes
    <2>3. SwapStages'
      <3> SUFFICES ASSUME NEW i \in Requests PROVE Stage(i)'
        BY DEF SwapStages
      <3>1. PaidsOf(i)' = PaidsOf(i) /\ PaidFor(i)' = PaidFor(i)
        BY <2>1 DEF PaidsOf, PaidFor
      <3>2. CASE i = m.id
        <4>1. fails'[i] = 1
          BY <2>1, <3>2 DEF Inv, SwapTypes
        <4>2. Failing(i)'
          BY <1>1, <3>1, <3>2, <4>1 DEF Failing, Open, Unpaid
        <4>3. QED
          BY <4>2 DEF Stage
      <3>3. CASE i # m.id
        <4>1. fails'[i] = fails[i]
          BY <2>1, <3>3 DEF Inv, SwapTypes
        <4>2. QED
          BY <1>1, <3>1, <3>3, <4>1, StageKept DEF Inv, SwapStages
      <3>4. QED
        BY <3>2, <3>3
    <2>4. PaidsCover'
      BY <1>1, <2>1 DEF Inv, PaidsCover, Covers
    <2>5. QED
      BY <2>1, <2>2, <2>3, <2>4 DEF Inv, SwapTypes
  <1>5. QED
    BY <1>3, <1>4 DEF OnFill

(* A FILL under way belongs to an open, unpaid request, and is its only    *)
(* message.                                                                *)
LEMMA FillAlone ==
    ASSUME Inv, NEW m \in fills
    PROVE  /\ m.id \in Requests /\ m.bid \in Bids /\ m.amount \in Nat
           /\ Travelling(m.id) /\ FillsOf(m.id) = {m}
  <1>1. m.id \in Requests /\ m.bid \in Bids /\ m.amount \in Nat
    BY DEF Inv, SwapTypes, Fills
  <1>2. m \in FillsOf(m.id)
    BY DEF FillsOf
  <1>3. Travelling(m.id)
    BY <1>1, <1>2 DEF Inv, SwapStages, Stage, Idle, Closed, Parked, Failing,
                      Paying, Settled
  <1>4. QED
    BY <1>1, <1>2, <1>3 DEF Travelling

(* A parked FILL likewise.                                                 *)
LEMMA InboxAlone ==
    ASSUME Inv, NEW m \in inbox
    PROVE  /\ m.id \in Requests /\ m.bid \in Bids /\ m.amount \in Nat
           /\ Parked(m.id) /\ InboxOf(m.id) = {m}
  <1>1. m.id \in Requests /\ m.bid \in Bids /\ m.amount \in Nat
    BY DEF Inv, SwapTypes, Bodies
  <1>2. m \in InboxOf(m.id)
    BY DEF InboxOf
  <1>3. Parked(m.id)
    BY <1>1, <1>2 DEF Inv, SwapStages, Stage, Idle, Closed, Travelling, Failing,
                      Paying, Settled
  <1>4. QED
    BY <1>1, <1>2, <1>3 DEF Parked

(* LayerZero's FILL is answered in the call that delivers it.              *)
LEMMA LzFillStep ==
    ASSUME Inv, NEW m \in fills, LzReceiveFill(m)
    PROVE  SwapTypes' /\ SwapStages' /\ FillsCover' /\ PaidsCover'
  <1>1. fills' = fills \ {m} /\ inbox' = inbox /\ OnFill(m)
    BY DEF LzReceiveFill
  <1>2. UNCHANGED <<order, filled, tries>>
    BY <1>1 DEF OnFill
  <1>3. FillsOf(m.id)' = {} /\ InboxOf(m.id)' = {}
    BY <1>1, FillAlone DEF FillsOf, InboxOf, Travelling
  <1>4. \A i \in Requests : i # m.id =>
            FillsOf(i)' = FillsOf(i) /\ InboxOf(i)' = InboxOf(i)
    BY <1>1 DEF FillsOf, InboxOf
  <1>5. Covers(m, m.bid.stable)
    BY DEF Inv, FillsCover
  <1>6. Open(m.id) /\ Unpaid(m.id) /\ fails[m.id] = 0
    BY FillAlone DEF Travelling
  <1>7. /\ used' \subseteq Requests \X Bids /\ fails' \in [Requests -> Nat]
        /\ paids' \subseteq Paids /\ SwapStages' /\ PaidsCover'
    BY <1>1, <1>3, <1>4, <1>5, <1>6, FillAlone, AnswerStep
  <1>8. FillsCover'
    BY <1>1, <1>2 DEF Inv, FillsCover, Covers
  <1>9. QED
    BY <1>1, <1>2, <1>7, <1>8 DEF Inv, SwapTypes

(* CCTP's FILL waits, unanswered, under its body.                          *)
LEMMA HandleStep ==
    ASSUME Inv, NEW m \in fills, HandleFill(m)
    PROVE  SwapTypes' /\ SwapStages' /\ FillsCover' /\ PaidsCover'
  <1> DEFINE body == Body(m)
  <1>1. /\ fills' = fills \ {m} /\ inbox' = inbox \cup {body}
        /\ UNCHANGED <<order, filled, used, fails, paids, tries>>
    BY DEF HandleFill
  <1>2. body \in Bodies /\ body.id = m.id /\ body.bid = m.bid
           /\ body.amount = m.amount
    BY DEF Inv, SwapTypes, Fills, Bodies, Body
  <1> HIDE DEF body
  <1>3. SwapTypes'
    BY <1>1, <1>2 DEF Inv, SwapTypes
  <1>4. SwapStages'
    <2> SUFFICES ASSUME NEW i \in Requests PROVE Stage(i)'
      BY DEF SwapStages
    <2>1. PaidsOf(i)' = PaidsOf(i) /\ PaidFor(i)' = PaidFor(i)
      BY <1>1 DEF PaidsOf, PaidFor
    <2>2. CASE i = m.id
      <3>1. FillsOf(i)' = {} /\ InboxOf(i)' = {body} /\ body \in inbox'
        BY <1>1, <1>2, <2>2, FillAlone DEF FillsOf, InboxOf, Travelling
      <3>2. Parked(i)'
        BY <1>1, <2>1, <2>2, <3>1, FillAlone DEF Travelling, Parked, Open, Unpaid
      <3>3. QED
        BY <3>2 DEF Stage
    <2>3. CASE i # m.id
      <3>1. FillsOf(i)' = FillsOf(i) /\ InboxOf(i)' = InboxOf(i)
        BY <1>1, <1>2, <2>3 DEF FillsOf, InboxOf
      <3>2. QED
        BY <1>1, <2>1, <3>1, StageKept DEF Inv, SwapStages
    <2>4. QED
      BY <2>2, <2>3
  <1>5. FillsCover' /\ PaidsCover'
    BY <1>1, <1>2 DEF Inv, FillsCover, PaidsCover, Covers
  <1>6. QED
    BY <1>3, <1>4, <1>5

(* `execute` answers a parked FILL.                                        *)
LEMMA ExecuteStep ==
    ASSUME Inv, NEW m \in inbox, Execute(m)
    PROVE  SwapTypes' /\ SwapStages' /\ FillsCover' /\ PaidsCover'
  <1>1. inbox' = inbox \ {m} /\ fills' = fills /\ OnFill(m)
    BY DEF Execute
  <1>2. UNCHANGED <<order, filled, tries>>
    BY <1>1 DEF OnFill
  <1>3. FillsOf(m.id)' = {} /\ InboxOf(m.id)' = {}
    BY <1>1, InboxAlone DEF FillsOf, InboxOf, Parked
  <1>4. \A i \in Requests : i # m.id =>
            FillsOf(i)' = FillsOf(i) /\ InboxOf(i)' = InboxOf(i)
    BY <1>1 DEF FillsOf, InboxOf
  <1>5. Covers(m, m.bid.stable)
    BY DEF Inv, FillsCover
  <1>6. Open(m.id) /\ Unpaid(m.id) /\ fails[m.id] = 0
    BY InboxAlone DEF Parked
  <1>7. /\ used' \subseteq Requests \X Bids /\ fails' \in [Requests -> Nat]
        /\ paids' \subseteq Paids /\ SwapStages' /\ PaidsCover'
    BY <1>1, <1>3, <1>4, <1>5, <1>6, InboxAlone, AnswerStep
  <1>8. FillsCover'
    BY <1>1, <1>2 DEF Inv, FillsCover, Covers
  <1>9. QED
    BY <1>1, <1>2, <1>7, <1>8 DEF Inv, SwapTypes

(* PAID under way is its request's only message, and its only payment.     *)
LEMMA PaidAlone ==
    ASSUME Inv, NEW m \in paids
    PROVE  /\ m.id \in Requests /\ m.bid \in Bids /\ Paying(m.id)
           /\ PaidsOf(m.id) = {m} /\ PaidFor(m.id) = {m.bid}
  <1>1. m.id \in Requests /\ m.bid \in Bids
    BY DEF Inv, SwapTypes, Paids
  <1>2. m \in PaidsOf(m.id)
    BY DEF PaidsOf
  <1>3. Paying(m.id)
    BY <1>1, <1>2 DEF Inv, SwapStages, Stage, Idle, Unpaid, Travelling, Parked,
                      Failing, Settled
  <1>4. QED
    BY <1>1, <1>2, <1>3 DEF Paying

(* PAID closes its order and leaves the request filled for good.           *)
LEMMA SettleStep ==
    ASSUME Inv, NEW m \in paids, NEW r, SettlePaid(m, r)
    PROVE  SwapTypes' /\ SwapStages' /\ FillsCover' /\ PaidsCover'
  <1>1. /\ order' = [order EXCEPT ![m.id] = None]
        /\ paids' = paids \ {m}
        /\ UNCHANGED <<filled, used, inbox, fills, fails, tries>>
    BY DEF SettlePaid
  <1>2. SwapTypes'
    BY <1>1 DEF Inv, SwapTypes
  <1>3. SwapStages'
    <2> SUFFICES ASSUME NEW i \in Requests PROVE Stage(i)'
      BY DEF SwapStages
    <2>1. /\ FillsOf(i)' = FillsOf(i) /\ InboxOf(i)' = InboxOf(i)
          /\ PaidFor(i)' = PaidFor(i)
      BY <1>1 DEF FillsOf, InboxOf, PaidFor
    <2>2. CASE i = m.id
      <3>1. PaidsOf(i)' = {}
        BY <1>1, <2>2, PaidAlone DEF PaidsOf
      <3>2. order'[i] = None
        BY <1>1, <2>2 DEF Inv, SwapTypes
      <3>3. Settled(i)'
        BY <1>1, <2>1, <2>2, <3>1, <3>2, PaidAlone
           DEF Settled, Closed, Paying, Open
      <3>4. QED
        BY <3>3 DEF Stage
    <2>3. CASE i # m.id
      <3>1. PaidsOf(i)' = PaidsOf(i)
        BY <1>1, <2>3 DEF PaidsOf
      <3>2. order'[i] = order[i]
        BY <1>1, <2>3 DEF Inv, SwapTypes
      <3>3. QED
        BY <1>1, <2>1, <3>1, <3>2, StageKept DEF Inv, SwapStages
    <2>4. QED
      BY <2>2, <2>3
  <1>4. FillsCover' /\ PaidsCover'
    <2>1. \A n \in fills \cup inbox \cup paids' : n.id # m.id
      BY <1>1, PaidAlone DEF Paying, FillsOf, InboxOf, PaidsOf
    <2>2. \A n \in fills \cup inbox \cup paids' : order'[n.id] = order[n.id]
      BY <1>1, <2>1 DEF Inv, SwapTypes
    <2>3. QED
      BY <1>1, <2>2 DEF Inv, FillsCover, PaidsCover, Covers
  <1>5. QED
    BY <1>2, <1>3, <1>4

(* A FAIL under way is its request's only message.                         *)
LEMMA FailAlone ==
    ASSUME Inv, NEW id \in Requests, fails[id] > 0
    PROVE  Failing(id)
  BY DEF Inv, SwapStages, Stage, Idle, Closed, Travelling, Parked, Paying, Settled

(* FAIL frees its request.                                                 *)
LEMMA FailStep ==
    ASSUME Inv, NEW id \in Requests, OnFail(id)
    PROVE  SwapTypes' /\ SwapStages' /\ FillsCover' /\ PaidsCover'
  <1>1. /\ fails[id] > 0
        /\ fails' = [fails EXCEPT ![id] = @ - 1]
        /\ order' = [order EXCEPT ![id] = None]
        /\ filled' = filled \ {id}
        /\ UNCHANGED <<used, inbox, fills, paids, tries>>
    BY DEF OnFail
  <1>2. Failing(id)
    BY <1>1, FailAlone
  <1>3. SwapTypes'
    BY <1>1 DEF Inv, SwapTypes
  <1>4. SwapStages'
    <2> SUFFICES ASSUME NEW i \in Requests PROVE Stage(i)'
      BY DEF SwapStages
    <2>1. /\ FillsOf(i)' = FillsOf(i) /\ InboxOf(i)' = InboxOf(i)
          /\ PaidsOf(i)' = PaidsOf(i) /\ PaidFor(i)' = PaidFor(i)
      BY <1>1 DEF FillsOf, InboxOf, PaidsOf, PaidFor
    <2>2. CASE i = id
      <3>1. fails'[i] = 0 /\ order'[i] = None /\ i \notin filled'
        BY <1>1, <1>2, <2>2 DEF Inv, SwapTypes, Failing
      <3>2. Idle(i)'
        BY <1>2, <2>1, <2>2, <3>1 DEF Idle, Closed, Unpaid, Failing
      <3>3. QED
        BY <3>2 DEF Stage
    <2>3. CASE i # id
      <3>1. /\ fails'[i] = fails[i] /\ order'[i] = order[i]
            /\ i \in filled' <=> i \in filled
        BY <1>1, <2>3 DEF Inv, SwapTypes
      <3>2. QED
        BY <2>1, <3>1, StageKept DEF Inv, SwapStages
    <2>4. QED
      BY <2>2, <2>3
  <1>5. FillsCover' /\ PaidsCover'
    <2>1. \A n \in fills \cup inbox \cup paids : n.id # id
      BY <1>2 DEF Failing, Unpaid, FillsOf, InboxOf, PaidsOf
    <2>2. \A n \in fills \cup inbox \cup paids : order'[n.id] = order[n.id]
      BY <1>1, <2>1 DEF Inv, SwapTypes
    <2>3. QED
      BY <1>1, <2>2 DEF Inv, FillsCover, PaidsCover, Covers
  <1>6. QED
    BY <1>3, <1>4, <1>5

(* Only `submit`, `accept` and `revoke` touch the settings, and only       *)
(* register_order_signer the registered keys.                              *)
LEMMA WhoGoverns ==
    ASSUME [Next]_vars
    PROVE  /\ \/ UNCHANGED govVars
              \/ \E c \in Changes : Submit(c)
              \/ \E s \in Slots : Accept(s) \/ Revoke(s)
           /\ \/ registered' = registered
              \/ \E d \in Delegations : RegisterOrderSigner(d)
  <1> DEFINE Quiet == UNCHANGED govVars /\ registered' = registered
             Governed == \/ \E c \in Changes : Submit(c)
                         \/ \E s \in Slots : Accept(s) \/ Revoke(s)
             Signed == \E d \in Delegations : RegisterOrderSigner(d)
  <1>1. ASSUME NEW id, NEW bid, NEW q, NEW sig, Fill(id, bid, q, sig) PROVE Quiet
    BY <1>1 DEF Fill, govVars, rfqVars
  <1>2. ASSUME Deliver PROVE Quiet
    <2>1. ASSUME NEW m, LzReceiveFill(m) \/ HandleFill(m) \/ Execute(m) PROVE Quiet
      BY <2>1 DEF LzReceiveFill, HandleFill, Execute, OnFill, govVars, rfqVars
    <2>2. ASSUME NEW m, NEW r, SettlePaid(m, r) \/ ForwardPayout(m, r) PROVE Quiet
      BY <2>2 DEF SettlePaid, ForwardPayout, govVars, rfqVars
    <2>3. ASSUME NEW id, OnFail(id) PROVE Quiet
      BY <2>3 DEF OnFail, govVars, rfqVars
    <2>4. QED
      BY <1>2, <2>1, <2>2, <2>3, Zenon DEF Deliver
  <1>3. ASSUME Govern PROVE Quiet \/ (Governed /\ registered' = registered)
    <2>1. ASSUME NEW c, Submit(c) \/ Accept(c) \/ Revoke(c)
          PROVE  registered' = registered
      BY <2>1 DEF Submit, Accept, Revoke, rfqVars
    <2>2. ASSUME NEW chain, NEW n, Sweep(chain, n) \/ TopUp(chain) PROVE Quiet
      BY <2>2 DEF Sweep, TopUp, govVars, rfqVars
    <2>3. QED
      BY <1>3, <2>1, <2>2, Zenon DEF Govern
  <1>4. ASSUME NEW id, NEW r, PushProceeds(id, r) \/ Withdraw(id, r) PROVE Quiet
    BY <1>4 DEF PushProceeds, Withdraw, govVars, rfqVars
  <1>5. ASSUME NEW d, RegisterOrderSigner(d) PROVE UNCHANGED govVars
    BY <1>5 DEF RegisterOrderSigner, govVars
  <1>6. ASSUME NEW c, CancelSalt(c) \/ Refuse(c) PROVE Quiet
    BY <1>6 DEF CancelSalt, Refuse, govVars, rfqVars
  <1>7. ASSUME Tick \/ UNCHANGED vars PROVE Quiet
    BY <1>7 DEF Tick, vars, govVars, rfqVars
  <1>8. Quiet \/ (Governed /\ registered' = registered) \/ (UNCHANGED govVars /\ Signed)
    BY <1>1, <1>2, <1>3, <1>4, <1>5, <1>6, <1>7, Zenon DEF Next
  <1>9. QED
    BY <1>8, Zenon

(* The settings stay among the changes an admin may queue.                 *)
LEMMA SettingsStep ==
    ASSUME Inv, [Next]_vars
    PROVE  SettingsSound'
  <1>1. CASE UNCHANGED govVars
    BY <1>1 DEF Inv, SettingsSound, SoundSetting, govVars
  <1>2. ASSUME NEW c \in Changes, Submit(c)
        PROVE  SettingsSound'
    <2>1. c.slot \in Slots /\ SoundSetting(c.slot, c.to)
      BY GovernanceAssumption
    <2>2. PICK at : /\ pending' = [pending EXCEPT ![c.slot] = [to |-> c.to, at |-> at]]
                    /\ setting' = setting
      BY <1>2 DEF Submit
    <2>3. \A s \in Slots : pending'[s] # None => SoundSetting(s, pending'[s].to)
      BY <2>1, <2>2 DEF Inv, SettingsSound
    <2>4. QED
      BY <2>1, <2>2, <2>3 DEF Inv, SettingsSound, SoundSetting
  <1>3. ASSUME NEW s \in Slots, Accept(s)
        PROVE  SettingsSound'
    <2>1. SoundSetting(s, pending[s].to)
      BY <1>3 DEF Accept, Inv, SettingsSound
    <2>2. /\ setting' = [setting EXCEPT ![s] = pending[s].to]
          /\ pending' = [pending EXCEPT ![s] = None]
      BY <1>3 DEF Accept
    <2>3. \A t \in Slots : SoundSetting(t, setting'[t])
      BY <2>1, <2>2 DEF Inv, SettingsSound
    <2>4. \A t \in Slots : pending'[t] # None => SoundSetting(t, pending'[t].to)
      BY <2>2 DEF Inv, SettingsSound
    <2>5. QED
      BY <2>2, <2>3, <2>4 DEF Inv, SettingsSound, SoundSetting
  <1>4. ASSUME NEW s \in Slots, Revoke(s)
        PROVE  SettingsSound'
    BY <1>4 DEF Revoke, Inv, SettingsSound, SoundSetting
  <1>5. QED
    BY <1>1, <1>2, <1>3, <1>4, WhoGoverns, Zenon

-----------------------------------------------------------------------------
(* The invariant                                                           *)

(* Before anything is filled, every request is idle.                       *)
LEMMA InitInv == Init => Inv
  <1> SUFFICES ASSUME Init PROVE Inv
    OBVIOUS
  <1>1. SwapTypes
    BY DEF Init, SwapTypes
  <1>2. SettingsSound
    <2>1. setting = [s \in Slots |-> setting[s]]
      BY GovernanceAssumption DEF Init
    <2>2. QED
      BY <2>1, GovernanceAssumption DEF Init, SettingsSound
  <1>3. SwapStages
    BY DEF Init, SwapStages, Stage, Idle, Closed, Unpaid, FillsOf, InboxOf,
           PaidsOf, PaidFor
  <1>4. FillsCover /\ PaidsCover
    BY DEF Init, FillsCover, PaidsCover
  <1>5. QED
    BY <1>1, <1>2, <1>3, <1>4 DEF Inv

(* Every step keeps it.                                                    *)
LEMMA NextInv == Inv /\ [Next]_vars => Inv'
  <1> SUFFICES ASSUME Inv, [Next]_vars PROVE Inv'
    OBVIOUS
  <1> DEFINE Kept == SwapTypes' /\ SwapStages' /\ FillsCover' /\ PaidsCover'
  <1>1. ASSUME UNCHANGED swapVars PROVE Kept
    BY <1>1, QuietStep
  <1>2. ASSUME NEW id \in Requests, NEW bid \in Bids, NEW q \in Quotes,
               NEW sig \in Keys \cup {None}, Fill(id, bid, q, sig)
        PROVE  Kept
    BY <1>2, FillStep
  <1>3. ASSUME Deliver PROVE Kept
    <2>1. ASSUME NEW m \in fills, LzReceiveFill(m) PROVE Kept
      BY <2>1, LzFillStep
    <2>2. ASSUME NEW m \in fills, HandleFill(m) PROVE Kept
      BY <2>2, HandleStep
    <2>3. ASSUME NEW m \in inbox, Execute(m) PROVE Kept
      BY <2>3, ExecuteStep
    <2>4. ASSUME NEW m \in paids, NEW r, SettlePaid(m, r) PROVE Kept
      BY <2>4, SettleStep
    <2>5. ASSUME NEW id \in Requests, OnFail(id) PROVE Kept
      BY <2>5, FailStep
    <2>6. ASSUME NEW m, NEW r, ForwardPayout(m, r) PROVE Kept
      BY <1>1, <2>6 DEF ForwardPayout
    <2>7. QED
      BY <1>3, <2>1, <2>2, <2>3, <2>4, <2>5, <2>6 DEF Deliver
  <1>4. ASSUME Govern PROVE Kept
    BY <1>1, <1>4 DEF Govern, Submit, Accept, Revoke, Sweep, TopUp
  <1>5. Kept
    BY <1>1, <1>2, <1>3, <1>4 DEF Next, PushProceeds, Withdraw,
       RegisterOrderSigner, CancelSalt, Refuse, Tick, vars, swapVars
  <1>6. QED
    BY <1>5, SettingsStep DEF Inv

(* Home, away and the bridge agree on the stage of every request           *)
(* (on_fill, on_funds and on_fail of lib.rs, both transports).             *)
THEOREM SwapStagesHold == Spec => []SwapStages
  <1>1. Init => Inv
    BY InitInv
  <1>2. Inv /\ [Next]_vars => Inv'
    BY NextInv
  <1>3. Inv => SwapStages
    BY DEF Inv
  <1>4. QED
    BY <1>1, <1>2, <1>3, PTL DEF Spec

(* A stage has one leg, or none.                                           *)
LEMMA StageLegs ==
    ASSUME NEW id \in Requests, Stage(id)
    PROVE  Cardinality(FillsOf(id)) + Cardinality(InboxOf(id)) + fails[id]
             + Cardinality(PaidsOf(id)) = IF order[id] = None THEN 0 ELSE 1
  <1>1. Cardinality({}) = 0
    BY FS_EmptySet
  <1>2. \A m : Cardinality({m}) = 1
    BY FS_Singleton
  <1>3. CASE Idle(id) \/ Settled(id)
    BY <1>1, <1>3 DEF Idle, Settled, Closed, Unpaid
  <1>4. CASE Travelling(id)
    BY <1>1, <1>2, <1>4, SMTT(40) DEF Travelling, Open, Unpaid
  <1>5. CASE Parked(id)
    BY <1>1, <1>2, <1>5 DEF Parked, Open, Unpaid
  <1>6. CASE Failing(id)
    BY <1>1, <1>6 DEF Failing, Open, Unpaid
  <1>7. CASE Paying(id)
    <2>1. Cardinality(PaidsOf(id)) = 1
      BY <1>2, <1>7 DEF Paying
    <2>2. QED
      BY <1>1, <1>7, <2>1 DEF Paying, Open
  <1>8. QED
    BY <1>3, <1>4, <1>5, <1>6, <1>7 DEF Stage

(* A fill is always somewhere, and in one place only: no reply finds its   *)
(* order gone, and no order waits for a reply that was never sent          *)
(* (lib.rs on_fill, on_funds, on_fail).                                    *)
THEOREM OneLeg == Spec => []OneLegInFlight
  <1>1. SwapStages => OneLegInFlight
    BY StageLegs DEF SwapStages, OneLegInFlight, FillsOf, InboxOf, PaidsOf
  <1>2. QED
    BY <1>1, SwapStagesHold, PTL

(* Makers pay for a request at most once, and a paid request's RWA is not  *)
(* returned (Key::Used away, Key::Filled and Key::Order at home).          *)
THEOREM NeverPaidTwice == Spec => []PaidOnce
  <1>1. SwapStages => PaidOnce
    <2> SUFFICES ASSUME SwapStages, NEW id \in Requests, NEW b \in PaidFor(id)
                 PROVE  /\ PaidFor(id) = {b}
                        /\ id \in filled
                        /\ order[id] # None <=>
                              \E m \in paids : m.id = id /\ m.bid = b
      BY DEF PaidOnce
    <2>1. Paying(id) \/ Settled(id)
      BY DEF SwapStages, Stage, Idle, Travelling, Parked, Failing, Unpaid
    <2>2. CASE Paying(id)
      BY <2>2 DEF Paying, Open, PaidsOf
    <2>3. CASE Settled(id)
      BY <2>3 DEF Settled, Closed, PaidsOf
    <2>4. QED
      BY <2>1, <2>2, <2>3
  <1>2. QED
    BY <1>1, SwapStagesHold, PTL

(* PAID always covers the quote its order stored, in the order's stable,   *)
(* so on_funds never reverts with Underpaid or NotFound.                   *)
THEOREM NeverUnderpaid == Spec => []PaymentCoversQuote
  <1>1. Inv => PaymentCoversQuote
    BY DEF Inv, PaidsCover, Covers, PaymentCoversQuote
  <1>2. QED
    BY <1>1, InitInv, NextInv, PTL DEF Spec

-----------------------------------------------------------------------------
(* Refinement                                                              *)

Phases == [id \in Requests |-> Phase(id)]

(* A request keeps its phase while home's marks and the payments for it do *)
(* not change.                                                             *)
LEMMA PhaseKept ==
    ASSUME NEW id \in Requests, order'[id] = order[id],
           id \in filled' <=> id \in filled, PaidFor(id)' = PaidFor(id)
    PROVE  Phase(id)' = Phase(id)
  BY DEF Phase

(* Steps that change no mark are stutters of the swap.                     *)
LEMMA PhasesKept ==
    ASSUME UNCHANGED <<order, filled, used>>
    PROVE  Phases' = Phases
  <1>1. \A id \in Requests : PaidFor(id)' = PaidFor(id)
    BY DEF PaidFor
  <1>2. \A id \in Requests : Phase(id)' = Phase(id)
    BY <1>1, PhaseKept
  <1>3. QED
    BY <1>2 DEF Phases

(* A step that moves one request and leaves the others is a step of the    *)
(* swap.                                                                   *)
LEMMA OneMoves ==
    ASSUME NEW id \in Requests,
           \A i \in Requests : i # id => Phase(i)' = Phase(i),
           NEW from, NEW to, Phase(id) = from, Phase(id)' = to
    PROVE  Phases[id] = from /\ Phases' = [Phases EXCEPT ![id] = to]
  BY DEF Phases

(* on_fill: a payment is Pay, a failure a stutter.                         *)
LEMMA AnswerRefines ==
    ASSUME NEW m, m.id \in Requests, m.bid \in Bids, OnFill(m), Open(m.id),
           Unpaid(m.id)
    PROVE  Swap!Next \/ Phases' = Phases
  <1>1. UNCHANGED <<order, filled>>
    BY DEF OnFill
  <1>2. CASE Pay(m)
    <2>1. used' = used \cup {<<m.id, m.bid>>}
      BY <1>2 DEF Pay
    <2>2. Phase(m.id) = "escrowed"
      BY DEF Phase, Open, Unpaid
    <2>3. PaidFor(m.id)' # {}
      BY <2>1 DEF PaidFor
    <2>4. Phase(m.id)' = "paid"
      BY <1>1, <2>3 DEF Phase, Open
    <2>5. \A i \in Requests : i # m.id => Phase(i)' = Phase(i)
      <3> SUFFICES ASSUME NEW i \in Requests, i # m.id PROVE Phase(i)' = Phase(i)
        OBVIOUS
      <3>1. PaidFor(i)' = PaidFor(i)
        BY <2>1 DEF PaidFor
      <3>2. QED
        BY <1>1, <3>1, PhaseKept
    <2>6. /\ Phases[m.id] = "escrowed"
          /\ Phases' = [Phases EXCEPT ![m.id] = "paid"]
      BY <2>2, <2>4, <2>5, OneMoves
    <2>7. QED
      BY <2>6 DEF Swap!Next, Swap!Pay, Swap!Move, Phases
  <1>3. CASE SendFail(m)
    BY <1>1, <1>3, PhasesKept DEF SendFail
  <1>4. QED
    BY <1>2, <1>3 DEF OnFill

(* `fill` is Escrow.                                                       *)
LEMMA FillRefines ==
    ASSUME Inv, NEW id \in Requests, NEW bid \in Bids, NEW q \in Quotes,
           NEW sig, Fill(id, bid, q, sig)
    PROVE  Swap!Next
  <1> DEFINE o == OrderOf(id, bid, q)
  <1>1. id.taker # None /\ id \notin filled
    BY DEF Fill, CheckRequest
  <1>2. o # None
    BY <1>1, OrderTyped DEF Inv
  <1>3. order' = [order EXCEPT ![id] = o] /\ filled' = filled \cup {id} /\ used' = used
    BY DEF Fill
  <1> HIDE DEF o
  <1>4. order'[id] # None /\ \A i \in Requests : i # id => order'[i] = order[i]
    BY <1>2, <1>3 DEF Inv, SwapTypes
  <1>5. \A i \in Requests : PaidFor(i)' = PaidFor(i)
    BY <1>3 DEF PaidFor
  <1>6. PaidFor(id) = {}
    BY <1>1 DEF Inv, SwapStages, Stage, Idle, Travelling, Parked, Failing,
               Paying, Settled, Open, Unpaid
  <1>7. Phase(id) = "idle" /\ Phase(id)' = "escrowed"
    BY <1>1, <1>3, <1>4, <1>5, <1>6 DEF Phase
  <1>8. \A i \in Requests : i # id => Phase(i)' = Phase(i)
    BY <1>3, <1>4, <1>5, PhaseKept
  <1>9. Phases[id] = "idle" /\ Phases' = [Phases EXCEPT ![id] = "escrowed"]
    BY <1>7, <1>8, OneMoves
  <1>10. QED
    BY <1>9 DEF Swap!Next, Swap!Escrow, Swap!Move, Phases

(* PAID is Settle.                                                         *)
LEMMA SettleRefines ==
    ASSUME Inv, NEW m \in paids, NEW r, SettlePaid(m, r)
    PROVE  Swap!Next
  <1>1. order' = [order EXCEPT ![m.id] = None] /\ UNCHANGED <<filled, used>>
    BY DEF SettlePaid
  <1>2. m.id \in Requests /\ Open(m.id) /\ PaidFor(m.id) # {}
    BY PaidAlone DEF Paying
  <1>3. order'[m.id] = None /\ \A i \in Requests : i # m.id => order'[i] = order[i]
    BY <1>1, <1>2 DEF Inv, SwapTypes
  <1>4. \A i \in Requests : PaidFor(i)' = PaidFor(i)
    BY <1>1 DEF PaidFor
  <1>5. Phase(m.id) = "paid" /\ Phase(m.id)' = "settled"
    BY <1>1, <1>2, <1>3 DEF Phase, Open
  <1>6. \A i \in Requests : i # m.id => Phase(i)' = Phase(i)
    BY <1>1, <1>3, <1>4, PhaseKept
  <1>7. Phases[m.id] = "paid" /\ Phases' = [Phases EXCEPT ![m.id] = "settled"]
    BY <1>2, <1>5, <1>6, OneMoves
  <1>8. QED
    BY <1>2, <1>7 DEF Swap!Next, Swap!Settle, Swap!Move, Phases

(* FAIL is Cancel.                                                         *)
LEMMA FailRefines ==
    ASSUME Inv, NEW id \in Requests, OnFail(id)
    PROVE  Swap!Next
  <1>1. /\ order' = [order EXCEPT ![id] = None] /\ filled' = filled \ {id}
        /\ used' = used /\ fails[id] > 0
    BY DEF OnFail
  <1>2. Open(id) /\ PaidFor(id) = {}
    BY <1>1, FailAlone DEF Failing, Unpaid
  <1>3. \A i \in Requests : i # id => order'[i] = order[i]
    BY <1>1 DEF Inv, SwapTypes
  <1>4. \A i \in Requests : PaidFor(i)' = PaidFor(i)
    BY <1>1 DEF PaidFor
  <1>5. Phase(id) = "escrowed" /\ Phase(id)' = "idle"
    BY <1>1, <1>2 DEF Phase, Open
  <1>6. \A i \in Requests : i # id => Phase(i)' = Phase(i)
    BY <1>1, <1>3, <1>4, PhaseKept
  <1>7. Phases[id] = "escrowed" /\ Phases' = [Phases EXCEPT ![id] = "idle"]
    BY <1>5, <1>6, OneMoves
  <1>8. QED
    BY <1>7 DEF Swap!Next, Swap!Cancel, Swap!Move, Phases

(* Cross-chain settlement implements the atomic swap: whatever the bridge  *)
(* delays or reorders, whatever is governed or cancelled meanwhile, a      *)
(* request goes idle, escrowed, paid, settled, or back to idle unpaid.     *)
THEOREM SettlementIsAtomic == Spec => ImplementsSwap
  <1>1. Init => Swap!Init
    BY DEF Init, Swap!Init, Phase
  <1>2. Inv /\ [Next]_vars => [Swap!Next]_Phases
    <2> SUFFICES ASSUME Inv, [Next]_vars PROVE Swap!Next \/ Phases' = Phases
      OBVIOUS
    <2>1. ASSUME UNCHANGED swapVars PROVE Phases' = Phases
      BY <2>1, PhasesKept DEF swapVars
    <2>2. ASSUME NEW id \in Requests, NEW bid \in Bids, NEW q \in Quotes,
                 NEW sig, Fill(id, bid, q, sig)
          PROVE  Swap!Next
      BY <2>2, FillRefines
    <2>3. ASSUME Deliver PROVE Swap!Next \/ Phases' = Phases
      <3>1. ASSUME NEW m \in fills, LzReceiveFill(m)
            PROVE  Swap!Next \/ Phases' = Phases
        BY <3>1, FillAlone, AnswerRefines DEF LzReceiveFill, Travelling
      <3>2. ASSUME NEW m \in fills, HandleFill(m) PROVE Phases' = Phases
        BY <3>2, PhasesKept DEF HandleFill
      <3>3. ASSUME NEW m \in inbox, Execute(m)
            PROVE  Swap!Next \/ Phases' = Phases
        BY <3>3, InboxAlone, AnswerRefines DEF Execute, Parked
      <3>4. ASSUME NEW m \in paids, NEW r, SettlePaid(m, r) PROVE Swap!Next
        BY <3>4, SettleRefines
      <3>5. ASSUME NEW id \in Requests, OnFail(id) PROVE Swap!Next
        BY <3>5, FailRefines
      <3>6. ASSUME NEW m, NEW r, ForwardPayout(m, r) PROVE Phases' = Phases
        BY <2>1, <3>6 DEF ForwardPayout
      <3>7. QED
        BY <2>3, <3>1, <3>2, <3>3, <3>4, <3>5, <3>6 DEF Deliver
    <2>4. ASSUME Govern PROVE Phases' = Phases
      BY <2>1, <2>4 DEF Govern, Submit, Accept, Revoke, Sweep, TopUp
    <2>5. QED
      BY <2>1, <2>2, <2>3, <2>4 DEF Next, PushProceeds, Withdraw,
         RegisterOrderSigner, CancelSalt, Refuse, Tick, vars, swapVars
  <1>3. QED
    BY <1>1, <1>2, InitInv, NextInv, PTL
       DEF Spec, ImplementsSwap, Swap!Spec, Phases

-----------------------------------------------------------------------------
(* The books                                                               *)

Ledger == [Tokens -> [Accounts -> Int]]
DebtBook == [Tokens -> [Accounts -> Nat]]
BookSet == [bal : Ledger, owed : DebtBook]

(* What the contract holds of a token beyond its debts.                    *)
Free(B, t) == B.bal[t][ME] - SumOver(B.owed[t], Accounts)

On(t, token, n) == IF t = token THEN n ELSE 0

(* Nobody but the contract loses by the change from B to R, and it does    *)
(* not overdraw the contract.                                              *)
Spares(B, R) ==
    /\ \A t \in Tokens, a \in Accounts \ {ME} :
          R.bal[t][a] >= B.bal[t][a] /\ R.owed[t][a] >= B.owed[t][a]
    /\ \A t \in Tokens : B.bal[t][ME] >= 0 => R.bal[t][ME] >= 0

(* The change from B to R adds at least n of `token` to what is free.      *)
Shifts(B, R, token, n) ==
    /\ R \in BookSet
    /\ \A t \in Tokens : Free(R, t) >= Free(B, t) + On(t, token, n)

(* Debts are finitely many numbers.                                        *)
LEMMA FreeInt ==
    ASSUME NEW B \in BookSet, NEW t \in Tokens
    PROVE  /\ SumOver(B.owed[t], Accounts) \in Nat /\ Free(B, t) \in Int
           /\ \A a \in Accounts : B.bal[t][a] \in Int /\ B.owed[t][a] \in Nat
  <1>1. B.bal \in Ledger /\ B.owed \in DebtBook
    BY DEF BookSet
  <1>2. \A a \in Accounts : B.bal[t][a] \in Int /\ B.owed[t][a] \in Nat
    BY <1>1 DEF Ledger, DebtBook
  <1>3. SumOver(B.owed[t], Accounts) \in Nat
    BY <1>2, SumNat, LedgerAssumption
  <1>4. QED
    BY <1>2, <1>3, LedgerAssumption DEF Free

(* An amount on one token is a number on every token.                      *)
LEMMA OnInt ==
    ASSUME NEW t, NEW token, NEW n \in Int
    PROVE  On(t, token, n) \in Int
  BY DEF On

(* What n of `token`, to or from `who`, means to one balance.              *)
Part(t, a, token, who, n) == IF t = token /\ a = who THEN n ELSE 0

(* A transfer, entry by entry.                                             *)
LEMMA MoveEffect ==
    ASSUME NEW b \in Ledger, NEW token \in Tokens, NEW from \in Accounts,
           NEW to \in Accounts, NEW n \in Int
    PROVE  /\ Move(b, token, from, to, n) \in Ledger
           /\ \A t \in Tokens, a \in Accounts :
                 Move(b, token, from, to, n)[t][a] = b[t][a]
                    - Part(t, a, token, from, n)
                    + Part(t, a, token, to, n)
  <1> DEFINE debited == [b EXCEPT ![token][from] = @ - n]
  <1>1. debited \in Ledger
    BY DEF Ledger
  <1>2. \A t \in Tokens, a \in Accounts :
            debited[t][a] = b[t][a] - Part(t, a, token, from, n)
    BY DEF Ledger, Part
  <1>3. Move(b, token, from, to, n) = [debited EXCEPT ![token][to] = @ + n]
    BY DEF Move
  <1> HIDE DEF debited
  <1>4. Move(b, token, from, to, n) \in Ledger
    BY <1>1, <1>3 DEF Ledger
  <1>5. \A t \in Tokens, a \in Accounts : Move(b, token, from, to, n)[t][a]
            = debited[t][a] + Part(t, a, token, to, n)
    BY <1>1, <1>3 DEF Ledger, Part
  <1>6. \A t \in Tokens, a \in Accounts : b[t][a] \in Int /\ debited[t][a] \in Int
    BY <1>1 DEF Ledger
  <1>7. QED
    BY <1>2, <1>4, <1>5, <1>6 DEF Part

(* Tokens are issued to an account, or burnt from it.                      *)
LEMMA IssueEffect ==
    ASSUME NEW b \in Ledger, NEW token \in Tokens, NEW to \in Accounts,
           NEW n \in Int
    PROVE  /\ Issue(b, token, to, n) \in Ledger
           /\ \A t \in Tokens, a \in Accounts :
                 Issue(b, token, to, n)[t][a]
                    = b[t][a] + Part(t, a, token, to, n)
  <1>1. \A t \in Tokens, a \in Accounts : b[t][a] \in Int
    BY DEF Ledger
  <1>2. Issue(b, token, to, n) \in Ledger
    BY <1>1 DEF Issue, Ledger
  <1>3. QED
    BY <1>1, <1>2 DEF Issue, Ledger, Part

(* A debt of n more to one account.                                        *)
LEMMA OweEffect ==
    ASSUME NEW w \in DebtBook, NEW x \in DebtBook, NEW token \in Tokens,
           NEW to \in Accounts, NEW n \in Int, x[token][to] = w[token][to] + n,
           \A t \in Tokens, a \in Accounts :
              t # token \/ a # to => x[t][a] = w[t][a],
           NEW t \in Tokens
    PROVE  SumOver(x[t], Accounts) = SumOver(w[t], Accounts) + On(t, token, n)
  <1>1. \A a \in Accounts : w[t][a] \in Nat /\ x[t][a] \in Nat
    BY DEF DebtBook
  <1>2. SumOver(w[t], Accounts) \in Nat
    BY <1>1, SumNat, LedgerAssumption
  <1>3. CASE t = token
    <2>1. \A a \in Accounts \ {to} : x[t][a] = w[t][a]
      BY <1>3
    <2>2. \A a \in Accounts : w[t][a] \in Int /\ x[t][a] \in Int
      BY <1>1
    <2>3. SumOver(x[t], Accounts) = SumOver(w[t], Accounts) + (x[t][to] - w[t][to])
      BY <2>1, <2>2, SumChange, LedgerAssumption, SMTT(40)
    <2>4. x[t][to] - w[t][to] = n
      BY <1>1, <1>3
    <2>5. QED
      BY <1>3, <2>3, <2>4 DEF On
  <1>4. CASE t # token
    <2>1. \A a \in Accounts : x[t][a] = w[t][a]
      BY <1>4
    <2>2. SumOver(x[t], Accounts) = SumOver(w[t], Accounts)
      BY <2>1, SumEqual, LedgerAssumption
    <2>3. QED
      BY <1>2, <1>4, <2>2 DEF On
  <1>5. QED
    BY <1>3, <1>4

(* send_or_hold pays n out of what is free, as balance or as a debt, and   *)
(* costs nobody else anything.                                             *)
LEMMA SendEffect ==
    ASSUME NEW B \in BookSet, NEW token \in Tokens, NEW to \in Accounts,
           NEW n \in Nat, NEW R, R = SendOrHold(B, token, to, n)
    PROVE  /\ Shifts(B, R, token, -n) /\ Spares(B, R)
           /\ to # ME => R.bal[token][to] + R.owed[token][to]
                           = B.bal[token][to] + B.owed[token][to] + n
           /\ \A t \in Tokens : R.bal[t][ME] >= B.bal[t][ME] - On(t, token, n)
  <1>0. B.bal \in Ledger /\ B.owed \in DebtBook /\ ME \in Accounts
    BY LedgerAssumption DEF BookSet
  <1>1. \A t \in Tokens, a \in Accounts : B.bal[t][a] \in Int /\ B.owed[t][a] \in Nat
    BY <1>0 DEF Ledger, DebtBook
  <1>2. \A t \in Tokens : Free(B, t) \in Int /\ SumOver(B.owed[t], Accounts) \in Nat
    BY FreeInt
  <1>3. CASE n = 0
    <2>1. R = B
      BY <1>3 DEF SendOrHold
    <2>2. Shifts(B, R, token, -n)
      BY <1>2, <1>3, <2>1 DEF Shifts, On
    <2>3. QED
      BY <1>0, <1>1, <1>3, <2>1, <2>2 DEF Spares, On
  <1>4. CASE n > 0 /\ CanSend(B.bal, token, ME, to, n)
    <2> DEFINE moved == Move(B.bal, token, ME, to, n)
    <2>1. R = [B EXCEPT !.bal = moved]
      BY <1>4 DEF SendOrHold
    <2>2. /\ moved \in Ledger
          /\ \A t \in Tokens, a \in Accounts : moved[t][a] = B.bal[t][a]
                - Part(t, a, token, ME, n)
                + Part(t, a, token, to, n)
      BY <1>0, MoveEffect
    <2> HIDE DEF moved
    <2>3. R \in BookSet /\ R.bal = moved /\ R.owed = B.owed
      BY <2>1, <2>2 DEF BookSet
    <2>4. ASSUME NEW t \in Tokens PROVE Free(R, t) >= Free(B, t) + On(t, token, -n)
      <3>1. moved[t][ME] >= B.bal[t][ME] + On(t, token, -n)
        BY <1>0, <1>1, <2>2 DEF On, Part
      <3>2. moved[t][ME] \in Int /\ On(t, token, -n) \in Int
        BY <1>0, <2>2, OnInt DEF Ledger
      <3>3. Free(R, t) = moved[t][ME] - SumOver(B.owed[t], Accounts)
        BY <2>3 DEF Free
      <3>4. QED
        BY <1>0, <1>1, <1>2, <3>1, <3>2, <3>3 DEF Free
    <2>5. Spares(B, R)
      <3>1. B.bal[token][ME] >= n
        BY <1>4 DEF CanSend
      <3>2. ASSUME NEW t \in Tokens, B.bal[t][ME] >= 0 PROVE R.bal[t][ME] >= 0
        BY <1>0, <1>1, <2>2, <2>3, <3>1, <3>2 DEF Part
      <3>3. \A t \in Tokens, a \in Accounts \ {ME} :
                R.bal[t][a] >= B.bal[t][a] /\ R.owed[t][a] >= B.owed[t][a]
        BY <1>1, <2>2, <2>3 DEF Part
      <3>4. QED
        BY <3>2, <3>3 DEF Spares
    <2>6. to # ME => R.bal[token][to] + R.owed[token][to]
                       = B.bal[token][to] + B.owed[token][to] + n
      BY <1>1, <2>2, <2>3 DEF Part
    <2>7. ASSUME NEW t \in Tokens PROVE R.bal[t][ME] >= B.bal[t][ME] - On(t, token, n)
      BY <1>0, <1>1, <2>2, <2>3 DEF Part, On
    <2>8. QED
      BY <2>3, <2>4, <2>5, <2>6, <2>7 DEF Shifts
  <1>5. CASE n > 0 /\ ~CanSend(B.bal, token, ME, to, n)
    <2> DEFINE held == [B.owed EXCEPT ![token][to] = @ + n]
    <2>1. R = [B EXCEPT !.owed = held]
      BY <1>5 DEF SendOrHold, BookSet
    <2>2. held \in DebtBook
      BY <1>0 DEF DebtBook
    <2>3. /\ held[token][to] = B.owed[token][to] + n
          /\ \A t \in Tokens, a \in Accounts :
                t # token \/ a # to => held[t][a] = B.owed[t][a]
      BY <1>0 DEF DebtBook
    <2> HIDE DEF held
    <2>4. R \in BookSet /\ R.bal = B.bal /\ R.owed = held
      BY <2>1, <2>2 DEF BookSet
    <2>5. ASSUME NEW t \in Tokens PROVE Free(R, t) >= Free(B, t) + On(t, token, -n)
      <3>1. SumOver(held[t], Accounts) = SumOver(B.owed[t], Accounts) + On(t, token, n)
        BY <1>0, <2>2, <2>3, OweEffect
      <3>2. On(t, token, -n) = - On(t, token, n) /\ On(t, token, n) \in Int
        BY DEF On
      <3>3. Free(R, t) = B.bal[t][ME] - SumOver(held[t], Accounts)
        BY <2>4 DEF Free
      <3>4. QED
        BY <1>0, <1>1, <1>2, <3>1, <3>2, <3>3 DEF Free
    <2>6. Spares(B, R)
      BY <1>0, <1>1, <2>3, <2>4 DEF Spares
    <2>7. to # ME => R.bal[token][to] + R.owed[token][to]
                       = B.bal[token][to] + B.owed[token][to] + n
      BY <1>1, <2>3, <2>4
    <2>8. ASSUME NEW t \in Tokens PROVE R.bal[t][ME] >= B.bal[t][ME] - On(t, token, n)
      BY <1>0, <1>1, <2>4 DEF On
    <2>9. QED
      BY <2>4, <2>5, <2>6, <2>7, <2>8 DEF Shifts
  <1>6. QED
    BY <1>3, <1>4, <1>5

(* Books whose debts are the same differ, to the contract, in its balance. *)
LEMMA SameDebts ==
    ASSUME NEW B \in BookSet, NEW R \in BookSet, R.owed = B.owed,
           NEW t \in Tokens
    PROVE  Free(R, t) = Free(B, t) + (R.bal[t][ME] - B.bal[t][ME])
  <1>1. B.bal[t][ME] \in Int /\ R.bal[t][ME] \in Int
    BY FreeInt, LedgerAssumption
  <1>2. SumOver(B.owed[t], Accounts) \in Int
    BY FreeInt
  <1>3. QED
    BY <1>1, <1>2 DEF Free

(* What the bridge delivers is free.                                       *)
LEMMA ArrivedEffect ==
    ASSUME Books \in BookSet, NEW token \in Tokens, NEW n \in Nat,
           NEW R, R = Arrived(token, n)
    PROVE  Shifts(Books, R, token, n) /\ Spares(Books, R)
  <1> DEFINE issued == Issue(bal, token, ME, n)
  <1>0. ME \in Accounts /\ Books.bal = bal /\ Books.owed = owed
    BY LedgerAssumption DEF Books
  <1>1. bal \in Ledger /\ owed \in DebtBook
    BY DEF BookSet, Books
  <1>2. /\ issued \in Ledger
        /\ \A t \in Tokens, a \in Accounts : issued[t][a]
              = bal[t][a] + Part(t, a, token, ME, n)
    BY <1>0, <1>1, IssueEffect
  <1>3. R = [bal |-> issued, owed |-> owed]
    BY DEF Arrived
  <1> HIDE DEF issued
  <1>4. R \in BookSet /\ R.bal = issued /\ R.owed = owed
    BY <1>1, <1>2, <1>3 DEF BookSet
  <1>5. ASSUME NEW t \in Tokens PROVE Free(R, t) >= Free(Books, t) + On(t, token, n)
    <2>1. Free(R, t) = Free(Books, t) + (R.bal[t][ME] - Books.bal[t][ME])
      BY <1>0, <1>4, SameDebts
    <2>2. R.bal[t][ME] - Books.bal[t][ME] = On(t, token, n)
      BY <1>0, <1>1, <1>2, <1>4 DEF On, Ledger, Part
    <2>3. QED
      BY <2>1, <2>2, FreeInt, OnInt
  <1>6. Spares(Books, R)
    BY <1>0, <1>1, <1>2, <1>4 DEF Spares, Ledger, DebtBook, Part
  <1>7. QED
    BY <1>4, <1>5, <1>6 DEF Shifts

(* What enters the bridge was free.                                        *)
LEMMA BurnEffect ==
    ASSUME NEW B \in BookSet, NEW token \in Tokens, NEW n \in Nat,
           B.bal[token][ME] >= n, NEW R, R = Burn(B, token, n)
    PROVE  /\ Shifts(B, R, token, -n) /\ Spares(B, R)
           /\ \A t \in Tokens : R.bal[t][ME] = B.bal[t][ME] - On(t, token, n)
  <1> DEFINE burnt == [B.bal EXCEPT ![token][ME] = @ - n]
  <1>0. B.bal \in Ledger /\ B.owed \in DebtBook /\ ME \in Accounts
    BY LedgerAssumption DEF BookSet
  <1>1. R = [B EXCEPT !.bal = burnt]
    BY DEF Burn, BookSet
  <1>2. /\ burnt \in Ledger
        /\ \A t \in Tokens, a \in Accounts : burnt[t][a]
              = B.bal[t][a] - Part(t, a, token, ME, n)
    BY <1>0 DEF Ledger, Part
  <1> HIDE DEF burnt
  <1>3. R \in BookSet /\ R.bal = burnt /\ R.owed = B.owed
    BY <1>1, <1>2 DEF BookSet
  <1>4. ASSUME NEW t \in Tokens PROVE Free(R, t) >= Free(B, t) + On(t, token, -n)
    <2>1. Free(R, t) = Free(B, t) + (R.bal[t][ME] - B.bal[t][ME])
      BY <1>3, SameDebts
    <2>2. R.bal[t][ME] - B.bal[t][ME] = On(t, token, -n)
      BY <1>0, <1>2, <1>3 DEF On, Ledger, Part
    <2>3. QED
      BY <2>1, <2>2, FreeInt, OnInt
  <1>5. Spares(B, R)
    BY <1>0, <1>2, <1>3 DEF Spares, Ledger, DebtBook, Part
  <1>6. \A t \in Tokens : R.bal[t][ME] = B.bal[t][ME] - On(t, token, n)
    BY <1>0, <1>2, <1>3 DEF Part, On
  <1>7. QED
    BY <1>3, <1>4, <1>5, <1>6 DEF Shifts

(* One change after another.                                               *)
LEMMA SparesBoth ==
    ASSUME NEW A \in BookSet, NEW B \in BookSet, NEW R \in BookSet,
           Spares(A, B), Spares(B, R)
    PROVE  Spares(A, R)
  <1>0. \A t \in Tokens : A.bal[t][ME] >= 0 => R.bal[t][ME] >= 0
    BY DEF Spares
  <1> SUFFICES ASSUME NEW t \in Tokens, NEW a \in Accounts \ {ME}
               PROVE  R.bal[t][a] >= A.bal[t][a] /\ R.owed[t][a] >= A.owed[t][a]
    BY <1>0 DEF Spares
  <1>1. /\ A.bal[t][a] \in Int /\ B.bal[t][a] \in Int /\ R.bal[t][a] \in Int
        /\ A.owed[t][a] \in Int /\ B.owed[t][a] \in Int /\ R.owed[t][a] \in Int
    BY FreeInt
  <1>2. /\ R.bal[t][a] >= B.bal[t][a] /\ R.owed[t][a] >= B.owed[t][a]
        /\ B.bal[t][a] >= A.bal[t][a] /\ B.owed[t][a] >= A.owed[t][a]
    BY DEF Spares
  <1>3. QED
    BY <1>1, <1>2

(* request_redeem turns free RWA into free claim tokens.                   *)
LEMMA RedeemEffect ==
    ASSUME NEW B \in BookSet, NEW v \in Vaults, NEW rwa \in Tokens,
           NEW n \in Nat, B.bal[rwa][ME] >= n, NEW R, R = Redeem(B, v, rwa, n)
    PROVE  /\ R \in BookSet /\ Spares(B, R)
           /\ \A t \in Tokens :
                 Free(R, t) >= Free(B, t) + On(t, rwa, -n) + On(t, Ct[v], n)
  <1> DEFINE moved == Move(B.bal, rwa, ME, v, n)
             k == Ct[v]
             minted == Issue(moved, k, ME, n)
  <1>0. /\ B.bal \in Ledger /\ B.owed \in DebtBook /\ ME \in Accounts
        /\ v \in Accounts /\ v # ME /\ k \in Tokens
    BY LedgerAssumption DEF BookSet
  <1>1. /\ moved \in Ledger
        /\ \A t \in Tokens, a \in Accounts : moved[t][a] = B.bal[t][a]
              - Part(t, a, rwa, ME, n)
              + Part(t, a, rwa, v, n)
    BY <1>0, MoveEffect
  <1>2. R = [B EXCEPT !.bal = minted]
    BY DEF Redeem
  <1> HIDE DEF moved, k
  <1>3. /\ minted \in Ledger
        /\ \A t \in Tokens, a \in Accounts : minted[t][a]
              = moved[t][a] + Part(t, a, k, ME, n)
    BY <1>0, <1>1, IssueEffect
  <1> HIDE DEF minted
  <1>4. R \in BookSet /\ R.bal = minted /\ R.owed = B.owed
    BY <1>2, <1>3 DEF BookSet
  <1>5. ASSUME NEW t \in Tokens
        PROVE  Free(R, t) >= Free(B, t) + On(t, rwa, -n) + On(t, k, n)
    <2>1. Free(R, t) = Free(B, t) + (R.bal[t][ME] - B.bal[t][ME])
      BY <1>4, SameDebts
    <2>2. B.bal[t][ME] \in Int /\ moved[t][ME] \in Int
      BY <1>0, <1>1 DEF Ledger
    <2>3. moved[t][ME] = B.bal[t][ME] + On(t, rwa, -n)
      BY <1>0, <1>1, <2>2 DEF On, Part
    <2>4. minted[t][ME] = moved[t][ME] + On(t, k, n)
      BY <1>0, <1>3 DEF On, Part
    <2>5. Free(B, t) \in Int /\ On(t, rwa, -n) \in Int /\ On(t, k, n) \in Int
      BY FreeInt, OnInt
    <2>6. QED
      BY <1>4, <2>1, <2>2, <2>3, <2>4, <2>5
  <1>6. Spares(B, R)
    <2>0. ASSUME NEW t \in Tokens, B.bal[t][ME] >= 0 PROVE R.bal[t][ME] >= 0
      <3>1. B.bal[t][ME] \in Int /\ moved[t][ME] \in Int
        BY <1>0, <1>1 DEF Ledger
      <3>2. moved[t][ME] >= 0
        BY <1>0, <1>1, <2>0, <3>1 DEF Part
      <3>3. QED
        BY <1>0, <1>3, <1>4, <3>1, <3>2 DEF Part
    <2> SUFFICES ASSUME NEW t \in Tokens, NEW a \in Accounts \ {ME}
                 PROVE  R.bal[t][a] >= B.bal[t][a] /\ R.owed[t][a] >= B.owed[t][a]
      BY <2>0 DEF Spares
    <2>1. B.bal[t][a] \in Int /\ moved[t][a] \in Int /\ B.owed[t][a] \in Int
      BY <1>0, <1>1 DEF Ledger, DebtBook
    <2>2. moved[t][a] >= B.bal[t][a] /\ minted[t][a] = moved[t][a]
      BY <1>1, <1>3, <2>1 DEF Part
    <2>3. QED
      BY <1>4, <2>1, <2>2
  <1>7. QED
    BY <1>4, <1>5, <1>6 DEF k

(* claim: the vault pays, and returns at most what it holds.               *)
LEMMA ClaimedEffect ==
    ASSUME Books \in BookSet, NEW p \in PushRecords, NEW r \in Redemptions,
           NEW R, R = Claimed(p, r)
    PROVE  /\ R \in BookSet
           /\ \A t \in Tokens : Free(R, t) >= Free(Books, t)
                 + On(t, p.rwa, r.returned) + On(t, PaysIn[p.vault], r.paid)
           /\ \A t \in Tokens, a \in Accounts \ {ME} :
                 /\ R.bal[t][a] >= bal[t][a]
                       - Part(t, a, p.rwa, p.vault, r.returned)
                 /\ R.owed[t][a] = owed[t][a]
           /\ \A t \in Tokens : R.bal[t][ME] = bal[t][ME]
                 + On(t, p.rwa, r.returned) + On(t, PaysIn[p.vault], r.paid)
  <1> DEFINE n == r.returned
             paid == r.paid
             v == p.vault
             rwa == p.rwa
             k == PaysIn[v]
             moved == Move(bal, rwa, v, ME, n)
             minted == Issue(moved, k, ME, paid)
  <1>0. /\ bal \in Ledger /\ owed \in DebtBook /\ ME \in Accounts
        /\ Books.bal = bal /\ Books.owed = owed
    BY LedgerAssumption DEF BookSet, Books
  <1>a. v \in Vaults /\ rwa \in Tokens
    BY DEF PushRecords
  <1>b. /\ v \in Accounts /\ v # ME /\ k \in Tokens
        /\ n \in Int /\ paid \in Int
    BY <1>a, LedgerAssumption
  <1>2. R = [bal |-> minted, owed |-> owed]
    BY DEF Claimed
  <1> HIDE DEF n, paid, v, rwa, k
  <1>1. /\ moved \in Ledger
        /\ \A t \in Tokens, a \in Accounts : moved[t][a] = bal[t][a]
              - Part(t, a, rwa, v, n)
              + Part(t, a, rwa, ME, n)
    BY <1>0, <1>a, <1>b, MoveEffect
  <1> HIDE DEF moved
  <1>3. /\ minted \in Ledger
        /\ \A t \in Tokens, a \in Accounts : minted[t][a]
              = moved[t][a] + Part(t, a, k, ME, paid)
    BY <1>0, <1>b, <1>1, IssueEffect
  <1> HIDE DEF minted
  <1>4. R \in BookSet /\ R.bal = minted /\ R.owed = owed
    BY <1>0, <1>2, <1>3 DEF BookSet
  <1>5. ASSUME NEW t \in Tokens
        PROVE  Free(R, t) >= Free(Books, t)
                 + On(t, rwa, n) + On(t, k, paid)
    <2>1. Free(R, t) = Free(Books, t) + (R.bal[t][ME] - Books.bal[t][ME])
      BY <1>0, <1>4, SameDebts
    <2>2. bal[t][ME] \in Int /\ moved[t][ME] \in Int
      BY <1>0, <1>1 DEF Ledger
    <2>3. moved[t][ME] = bal[t][ME] + On(t, rwa, n)
      BY <1>0, <1>b, <1>1, <2>2 DEF On, Part
    <2>4. minted[t][ME] = moved[t][ME] + On(t, k, paid)
      BY <1>0, <1>3 DEF On, Part
    <2>5. /\ Free(Books, t) \in Int /\ On(t, rwa, n) \in Int
          /\ On(t, k, paid) \in Int
      BY <1>b, FreeInt, OnInt
    <2>6. QED
      BY <1>0, <1>4, <2>1, <2>2, <2>3, <2>4, <2>5
  <1>6. ASSUME NEW t \in Tokens, NEW a \in Accounts \ {ME}
        PROVE  /\ R.bal[t][a] >= bal[t][a]
                     - Part(t, a, rwa, v, n)
               /\ R.owed[t][a] = owed[t][a]
    <2>1. bal[t][a] \in Int /\ moved[t][a] \in Int /\ n \in Int
      BY <1>0, <1>1, <1>b DEF Ledger
    <2>2. moved[t][a] = bal[t][a] - Part(t, a, rwa, v, n)
      BY <1>1, <2>1 DEF Part
    <2>3. minted[t][a] = moved[t][a]
      BY <1>3, <2>1 DEF Part
    <2>4. QED
      BY <1>4, <2>1, <2>2, <2>3 DEF Part
  <1>7. ASSUME NEW t \in Tokens
        PROVE  R.bal[t][ME] = bal[t][ME] + On(t, rwa, n) + On(t, k, paid)
    <2>1. bal[t][ME] \in Int /\ moved[t][ME] \in Int
      BY <1>0, <1>1 DEF Ledger
    <2>2. moved[t][ME] = bal[t][ME] + On(t, rwa, n)
      BY <1>0, <1>b, <1>1, <2>1 DEF On, Part
    <2>3. QED
      BY <1>0, <1>3, <1>4, <2>1, <2>2 DEF On, Part
  <1>8. QED
    BY <1>4, <1>5, <1>6, <1>7 DEF n, paid, v, rwa, k

(* What fee and tip take beyond the payment.                               *)
Short(o, amount) ==
    IF amount - o.fee - o.tip < 0 THEN o.fee + o.tip - amount ELSE 0

(* on_funds of PAID shares out what arrived: the taker gets all that the   *)
(* fee and the tip leave, and the contract loses what they take beyond it. *)
LEMMA ShareOutEffect ==
    ASSUME Books \in BookSet, NEW o \in OrderRecords, NEW amount \in Nat,
           NEW relayer \in RelayersHere,
           NEW R, R = ShareOut(o, amount, relayer)
    PROVE  /\ R \in BookSet /\ Spares(Books, R)
           /\ \A t \in Tokens : Free(R, t)
                 >= Free(Books, t) - On(t, o.stable, Short(o, amount))
           /\ o.taker # ME => R.bal[o.stable][o.taker] + R.owed[o.stable][o.taker]
                 >= bal[o.stable][o.taker] + owed[o.stable][o.taker]
                      + (amount - o.fee - o.tip)
  <1> DEFINE s == o.stable
             net == amount - o.fee - o.tip
             gone == IF net < 0 THEN 0 ELSE net
             short == Short(o, amount)
             who == Or(relayer, o.taker)
             b0 == Arrived(s, amount)
             b1 == SendOrHold(b0, s, o.taker, gone)
             b2 == SendOrHold(b1, s, o.fee_recipient, o.fee)
  <1>1. /\ s \in Tokens /\ o.taker \in Accounts /\ o.fee_recipient \in Accounts
        /\ o.fee \in Nat /\ o.tip \in Nat
    BY DEF OrderRecords
  <1>2. /\ net \in Int /\ gone \in Nat /\ gone >= net /\ short \in Nat
        /\ gone + o.fee + o.tip = amount + short
    BY <1>1 DEF Short
  <1>3. who \in Accounts
    BY <1>1, LedgerAssumption DEF Or, RelayersHere
  <1>4. R = SendOrHold(b2, s, who, o.tip)
    <2>1. SendOrHold(b0, s, o.taker, net) = b1
      BY <1>2 DEF SendOrHold
    <2>2. R = SendOrHold(SendOrHold(SendOrHold(b0, s, o.taker, net), s,
                                    o.fee_recipient, o.fee), s, who, o.tip)
      BY DEF ShareOut
    <2> HIDE DEF net, gone, b1
    <2>3. QED
      BY <2>1, <2>2
  <1> HIDE DEF s, net, gone, short, who
  <1>5. Shifts(Books, b0, s, amount) /\ Spares(Books, b0) /\ b0 \in BookSet
    <2>1. Shifts(Books, b0, s, amount) /\ Spares(Books, b0)
      BY <1>1, ArrivedEffect
    <2>2. QED
      BY <2>1 DEF Shifts
  <1> HIDE DEF b0
  <1>6. /\ Shifts(b0, b1, s, -gone) /\ Spares(b0, b1)
        /\ o.taker # ME => b1.bal[s][o.taker] + b1.owed[s][o.taker]
                             = b0.bal[s][o.taker] + b0.owed[s][o.taker] + gone
    BY <1>1, <1>2, <1>5, SendEffect
  <1>7. b1 \in BookSet
    BY <1>6 DEF Shifts
  <1> HIDE DEF b1
  <1>8. Shifts(b1, b2, s, -o.fee) /\ Spares(b1, b2)
    BY <1>1, <1>7, SendEffect
  <1>9. b2 \in BookSet
    BY <1>8 DEF Shifts
  <1> HIDE DEF b2
  <1>10. Shifts(b2, R, s, -o.tip) /\ Spares(b2, R)
    BY <1>1, <1>3, <1>4, <1>9, SendEffect
  <1>11. R \in BookSet
    BY <1>10 DEF Shifts
  <1>12. ASSUME NEW t \in Tokens
         PROVE  Free(R, t) >= Free(Books, t) - On(t, s, short)
    <2>1. /\ Free(b0, t) >= Free(Books, t) + On(t, s, amount)
          /\ Free(b1, t) >= Free(b0, t) + On(t, s, -gone)
          /\ Free(b2, t) >= Free(b1, t) + On(t, s, -o.fee)
          /\ Free(R, t) >= Free(b2, t) + On(t, s, -o.tip)
      BY <1>5, <1>6, <1>8, <1>10 DEF Shifts
    <2>2. /\ Free(Books, t) \in Int /\ Free(b0, t) \in Int /\ Free(b1, t) \in Int
          /\ Free(b2, t) \in Int /\ Free(R, t) \in Int
      BY <1>5, <1>7, <1>9, <1>11, FreeInt
    <2>3. CASE t = s
      BY <1>1, <1>2, <2>1, <2>2, <2>3 DEF On
    <2>4. CASE t # s
      BY <2>1, <2>2, <2>4 DEF On
    <2>5. QED
      BY <2>3, <2>4
  <1>13. Spares(Books, R)
    <2>1. Spares(Books, b1)
      BY <1>5, <1>6, <1>7, SparesBoth
    <2>2. Spares(Books, b2)
      BY <1>7, <1>8, <1>9, <2>1, SparesBoth
    <2>3. QED
      BY <1>9, <1>10, <1>11, <2>2, SparesBoth
  <1>14. ASSUME o.taker # ME
         PROVE  R.bal[s][o.taker] + R.owed[s][o.taker]
                  >= bal[s][o.taker] + owed[s][o.taker] + net
    <2>1. Spares(b1, R)
      BY <1>7, <1>8, <1>9, <1>10, <1>11, SparesBoth
    <2> DEFINE a == o.taker
    <2>2. a \in Accounts \ {ME}
      BY <1>1, <1>14
    <2> HIDE DEF a
    <2>3. R.bal[s][a] >= b1.bal[s][a] /\ R.owed[s][a] >= b1.owed[s][a]
      BY <1>1, <2>1, <2>2 DEF Spares
    <2>4. b0.bal[s][a] >= bal[s][a] /\ b0.owed[s][a] >= owed[s][a]
      BY <1>1, <1>5, <2>2 DEF Spares, Books
    <2>5. /\ R.bal[s][a] \in Int /\ R.owed[s][a] \in Int /\ b1.bal[s][a] \in Int
          /\ b1.owed[s][a] \in Int /\ b0.bal[s][a] \in Int /\ b0.owed[s][a] \in Int
      BY <1>1, <1>5, <1>7, <1>11, <2>2, FreeInt
    <2>6. bal[s][a] \in Int /\ owed[s][a] \in Int
      BY <1>1, <2>2 DEF Books, BookSet, Ledger, DebtBook
    <2>7. b1.bal[s][a] + b1.owed[s][a] = b0.bal[s][a] + b0.owed[s][a] + gone
      BY <1>6, <1>14 DEF a
    <2>8. QED
      BY <1>2, <2>3, <2>4, <2>5, <2>6, <2>7 DEF a
  <1>15. QED
    BY <1>11, <1>12, <1>13, <1>14 DEF s, net, short

-----------------------------------------------------------------------------
(* The invariant of the books                                              *)

(* What `fill` checked of the order it stored still holds of it.           *)
OrderSound(id, o) ==
    /\ o.taker = id.taker /\ o.rwa = id.taker_token
    /\ o.stable = id.maker_token
    /\ o.amount - o.fee - o.tip >= id.min_received_amount
    /\ Link[o.stable] # None
    /\ IF o.delivery = "CROSS_DELIVER" THEN Link[o.rwa] # None
                                       ELSE o.recipient # None

OrdersSound == \A id \in Requests : order[id] # None => OrderSound(id, order[id])

(* A claim awaiting `push` is of a home RWA, and its stable can be bridged. *)
PushesSound ==
    \A id \in Requests :
        push[id] # None => push[id].rwa \notin Away /\ Link[push[id].stable] # None

PayoutsSound == \A m \in payouts : Link[m.token] # None

(* check_route was passed by every route in force.                         *)
RoutesCarried == \A t \in Tokens : setting[RouteOf(t)] # None => Link[t] # None

KeysSound == registered \subseteq Delegations

(* Beyond its debts, the contract holds what it started with, the escrows  *)
(* and the claims, less what requests with a negative minimum cost it.     *)
Backed ==
    \A t \in Tokens : Free(Books, t) + Losses(t)
        >= InitialBalances[t][ME] + Escrowed(t) + Claims(t)

CapsCover ==
    \A t \in Away, a \in Accounts \ {ME} :
        InitialBalances[t][a] - bal[t][a] <= SignedCap(t, a)

MoneyLaws ==
    /\ MoneyTypes /\ OrdersSound /\ PushesSound /\ PayoutsSound
    /\ Backed /\ CapsCover

MoneyInv == Inv /\ RoutesCarried /\ KeysSound /\ MoneyLaws

(* The escrow sum and the claim sum of any table of orders or claims.      *)
EscrowSum(f, t) == SumOver([id \in Requests |-> EscrowOf(f[id], t)], Requests)
ClaimSum(f, t) == SumOver([id \in Requests |-> ClaimOf(f[id], t)], Requests)

OrderTables == [Requests -> OrderRecords \cup {None}]
PushTables == [Requests -> PushRecords \cup {None}]

(* An escrow is no debt.                                                   *)
LEMMA EscrowNat ==
    ASSUME NEW o \in OrderRecords \cup {None}, NEW t
    PROVE  EscrowOf(o, t) \in Nat
  BY DEF EscrowOf, OrderRecords

(* Nor is a claim.                                                         *)
LEMMA ClaimNat ==
    ASSUME NEW p \in PushRecords \cup {None}, NEW t
    PROVE  ClaimOf(p, t) \in Nat
  BY DEF ClaimOf, PushRecords

(* One order changes.                                                      *)
LEMMA EscrowMoves ==
    ASSUME NEW f \in OrderTables, NEW g \in OrderTables, NEW id \in Requests,
           \A i \in Requests \ {id} : g[i] = f[i], NEW t
    PROVE  EscrowSum(g, t)
             = EscrowSum(f, t) + (EscrowOf(g[id], t) - EscrowOf(f[id], t))
  <1> DEFINE F == [i \in Requests |-> EscrowOf(f[i], t)]
             G == [i \in Requests |-> EscrowOf(g[i], t)]
  <1>1. \A i \in Requests : F[i] = EscrowOf(f[i], t) /\ G[i] = EscrowOf(g[i], t)
    OBVIOUS
  <1>2. \A i \in Requests : f[i] \in OrderRecords \cup {None}
                            /\ g[i] \in OrderRecords \cup {None}
    BY DEF OrderTables
  <1>3. EscrowSum(f, t) = SumOver(F, Requests) /\ EscrowSum(g, t) = SumOver(G, Requests)
    BY DEF EscrowSum
  <1> HIDE DEF F, G
  <1>4. \A i \in Requests : F[i] \in Int /\ G[i] \in Int
    BY <1>1, <1>2, EscrowNat
  <1>5. \A i \in Requests \ {id} : G[i] = F[i]
    BY <1>1
  <1>6. SumOver(G, Requests) = SumOver(F, Requests) + (G[id] - F[id])
    BY <1>4, <1>5, SumChange, LedgerAssumption
  <1>7. QED
    BY <1>1, <1>3, <1>6

(* One claim changes.                                                      *)
LEMMA ClaimMoves ==
    ASSUME NEW f \in PushTables, NEW g \in PushTables, NEW id \in Requests,
           \A i \in Requests \ {id} : g[i] = f[i], NEW t
    PROVE  ClaimSum(g, t)
             = ClaimSum(f, t) + (ClaimOf(g[id], t) - ClaimOf(f[id], t))
  <1> DEFINE F == [i \in Requests |-> ClaimOf(f[i], t)]
             G == [i \in Requests |-> ClaimOf(g[i], t)]
  <1>1. \A i \in Requests : F[i] = ClaimOf(f[i], t) /\ G[i] = ClaimOf(g[i], t)
    OBVIOUS
  <1>2. \A i \in Requests : f[i] \in PushRecords \cup {None}
                            /\ g[i] \in PushRecords \cup {None}
    BY DEF PushTables
  <1>3. ClaimSum(f, t) = SumOver(F, Requests) /\ ClaimSum(g, t) = SumOver(G, Requests)
    BY DEF ClaimSum
  <1> HIDE DEF F, G
  <1>4. \A i \in Requests : F[i] \in Int /\ G[i] \in Int
    BY <1>1, <1>2, ClaimNat
  <1>5. \A i \in Requests \ {id} : G[i] = F[i]
    BY <1>1
  <1>6. SumOver(G, Requests) = SumOver(F, Requests) + (G[id] - F[id])
    BY <1>4, <1>5, SumChange, LedgerAssumption
  <1>7. QED
    BY <1>1, <1>3, <1>6

(* What is escrowed and what is claimed are finitely many amounts.         *)
LEMMA SumsNat ==
    ASSUME NEW f \in OrderTables, NEW g \in PushTables, NEW t
    PROVE  EscrowSum(f, t) \in Nat /\ ClaimSum(g, t) \in Nat
  <1> DEFINE F == [i \in Requests |-> EscrowOf(f[i], t)]
             G == [i \in Requests |-> ClaimOf(g[i], t)]
  <1>1. \A i \in Requests : F[i] = EscrowOf(f[i], t) /\ G[i] = ClaimOf(g[i], t)
    OBVIOUS
  <1>2. \A i \in Requests : f[i] \in OrderRecords \cup {None}
                            /\ g[i] \in PushRecords \cup {None}
    BY DEF OrderTables, PushTables
  <1>3. EscrowSum(f, t) = SumOver(F, Requests) /\ ClaimSum(g, t) = SumOver(G, Requests)
    BY DEF EscrowSum, ClaimSum
  <1> HIDE DEF F, G
  <1>4. \A i \in Requests : F[i] \in Nat /\ G[i] \in Nat
    BY <1>1, <1>2, EscrowNat, ClaimNat
  <1>5. SumOver(F, Requests) \in Nat /\ SumOver(G, Requests) \in Nat
    BY <1>4, SumNat, LedgerAssumption
  <1>6. QED
    BY <1>3, <1>5

(* A loss is an amount, before and after a step.                           *)
LEMMA LossNat ==
    ASSUME NEW id \in Requests, NEW t
    PROVE  LossOn(id, t) \in Nat /\ LossOn(id, t)' \in Nat
  <1>1. id.min_received_amount \in Int
    BY WorldAssumption
  <1>2. QED
    BY <1>1 DEF LossOn

(* The losses are finitely many amounts.                                   *)
LEMMA LossesNat ==
    ASSUME NEW t
    PROVE  Losses(t) \in Nat /\ Losses(t)' \in Nat
  <1> DEFINE F == [id \in Requests |-> LossOn(id, t)]
             G == [id \in Requests |-> LossOn(id, t)']
  <1>1. Losses(t) = SumOver(F, Requests) /\ Losses(t)' = SumOver(G, Requests)
    BY DEF Losses
  <1>2. \A id \in Requests : F[id] \in Nat /\ G[id] \in Nat
    BY LossNat
  <1> HIDE DEF F, G
  <1>3. QED
    BY <1>1, <1>2, SumNat, LedgerAssumption

(* A step that opens, closes or frees one request changes its loss only.   *)
LEMMA LossesMove ==
    ASSUME NEW id \in Requests, NEW t,
           \A i \in Requests \ {id} :
              order'[i] = order[i] /\ (i \in filled' <=> i \in filled)
    PROVE  Losses(t)' = Losses(t) + (LossOn(id, t)' - LossOn(id, t))
  <1> DEFINE F == [i \in Requests |-> LossOn(i, t)]
             G == [i \in Requests |-> LossOn(i, t)']
  <1>1. Losses(t) = SumOver(F, Requests) /\ Losses(t)' = SumOver(G, Requests)
    BY DEF Losses
  <1>2. \A i \in Requests : F[i] \in Int /\ G[i] \in Int
    BY LossNat
  <1>3. \A i \in Requests \ {id} : G[i] = F[i]
    BY DEF LossOn
  <1>4. F[id] = LossOn(id, t) /\ G[id] = LossOn(id, t)'
    OBVIOUS
  <1> HIDE DEF F, G
  <1>5. SumOver(G, Requests) = SumOver(F, Requests) + (G[id] - F[id])
    BY <1>2, <1>3, SumChange, LedgerAssumption
  <1>6. QED
    BY <1>1, <1>4, <1>5

(* A request that costs nothing before and after leaves the losses alone.  *)
LEMMA LossesEven ==
    ASSUME NEW id \in Requests, NEW t,
           \A i \in Requests \ {id} :
              order'[i] = order[i] /\ (i \in filled' <=> i \in filled),
           id \notin filled \/ order[id] # None,
           id \notin filled' \/ order'[id] # None
    PROVE  Losses(t)' = Losses(t)
  <1>1. LossOn(id, t) = 0 /\ LossOn(id, t)' = 0
    BY DEF LossOn
  <1>2. Losses(t)' = Losses(t) + (LossOn(id, t)' - LossOn(id, t))
    BY LossesMove
  <1>3. QED
    BY <1>1, <1>2, LossesNat

(* Where no request moves, none is lost on.                                *)
LEMMA LossesKept ==
    ASSUME order' = order, filled' = filled, NEW t
    PROVE  Losses(t)' = Losses(t)
  BY DEF Losses, LossOn

(* What MoneyInv says of the types.                                        *)
LEMMA MoneyFacts ==
    ASSUME MoneyInv
    PROVE  /\ Books \in BookSet /\ Books.bal = bal /\ Books.owed = owed
           /\ bal \in Ledger /\ owed \in DebtBook
           /\ order \in OrderTables /\ push \in PushTables
           /\ \A t \in Tokens, a \in Accounts : bal[t][a] \in Nat /\ owed[t][a] \in Nat
           /\ \A t : Escrowed(t) = EscrowSum(order, t) /\ Claims(t) = ClaimSum(push, t)
           /\ \A t : Escrowed(t) \in Nat /\ Claims(t) \in Nat
           /\ \A t \in Tokens : Free(Books, t) \in Int
  <1>1. /\ bal \in [Tokens -> [Accounts -> Nat]] /\ owed \in DebtBook
        /\ push \in PushTables /\ order \in OrderTables
    BY DEF MoneyInv, MoneyLaws, MoneyTypes, Inv, SwapTypes, DebtBook, PushTables, OrderTables
  <1>2. bal \in Ledger
    BY <1>1 DEF Ledger
  <1>3. Books \in BookSet /\ Books.bal = bal /\ Books.owed = owed
    BY <1>1, <1>2 DEF Books, BookSet
  <1>4. \A t : Escrowed(t) = EscrowSum(order, t) /\ Claims(t) = ClaimSum(push, t)
    BY DEF Escrowed, Claims, EscrowSum, ClaimSum
  <1>5. \A t : Escrowed(t) \in Nat /\ Claims(t) \in Nat
    BY <1>1, <1>4, SumsNat
  <1>6. \A t \in Tokens, a \in Accounts : bal[t][a] \in Nat /\ owed[t][a] \in Nat
    BY <1>1 DEF DebtBook
  <1>7. \A t \in Tokens : Free(Books, t) \in Int
    BY <1>3, FreeInt
  <1>8. QED
    BY <1>1, <1>2, <1>3, <1>4, <1>5, <1>6, <1>7

(* The books a call leaves: what is free covers what is promised no less   *)
(* than before, and no account is overdrawn.                               *)
Balanced(B, e, c) ==
    /\ B \in BookSet
    /\ \A t \in Tokens : Free(B, t) - EscrowSum(e, t) - ClaimSum(c, t)
                           >= Free(Books, t) - Escrowed(t) - Claims(t)
    /\ \A t \in Tokens, a \in Accounts : B.bal[t][a] >= 0

(* A call that takes out of what is free no more than the losses grow by   *)
(* leaves the books backed.                                                *)
LEMMA BackedLess ==
    ASSUME MoneyInv, NEW B \in BookSet, Keep(B), order' \in OrderTables,
           push' \in PushTables, NEW l,
           \A t \in Tokens :
              /\ l[t] \in Nat /\ Losses(t)' >= Losses(t) + l[t]
              /\ Free(B, t) - EscrowSum(order', t) - ClaimSum(push', t) + l[t]
                   >= Free(Books, t) - Escrowed(t) - Claims(t),
           \A t \in Tokens, a \in Accounts : B.bal[t][a] >= 0
    PROVE  /\ bal' \in [Tokens -> [Accounts -> Nat]]
           /\ owed' \in [Tokens -> [Accounts -> Nat]] /\ Backed'
  <1>0. bal' = B.bal /\ owed' = B.owed
    BY DEF Keep
  <1>1. B.bal \in Ledger /\ B.owed \in DebtBook
    BY DEF BookSet
  <1>2. Books' = B
    <2>1. Books' = [bal |-> B.bal, owed |-> B.owed]
      BY <1>0 DEF Books
    <2>2. QED
      BY <2>1 DEF BookSet
  <1>3. ASSUME NEW t \in Tokens
        PROVE  Free(B, t) + Losses(t)' >= InitialBalances[t][ME]
                  + EscrowSum(order', t) + ClaimSum(push', t)
    <2>1. /\ Free(B, t) - EscrowSum(order', t) - ClaimSum(push', t) + l[t]
               >= Free(Books, t) - Escrowed(t) - Claims(t)
          /\ l[t] \in Nat /\ Losses(t)' >= Losses(t) + l[t]
      OBVIOUS
    <2>2. Free(Books, t) + Losses(t)
             >= InitialBalances[t][ME] + Escrowed(t) + Claims(t)
      BY DEF MoneyInv, MoneyLaws, Backed
    <2>3. /\ Free(Books, t) \in Int /\ Escrowed(t) \in Nat /\ Claims(t) \in Nat
      BY MoneyFacts
    <2>4. /\ EscrowSum(order', t) \in Nat /\ ClaimSum(push', t) \in Nat
          /\ Losses(t) \in Nat /\ Losses(t)' \in Nat
      BY SumsNat, LossesNat
    <2>5. Free(B, t) \in Int /\ InitialBalances[t][ME] \in Nat
      BY FreeInt, LedgerAssumption
    <2>6. QED
      BY <2>1, <2>2, <2>3, <2>4, <2>5
  <1>4. \A t \in Tokens, a \in Accounts : B.bal[t][a] \in Nat
    BY <1>1 DEF Ledger
  <1>5. bal' \in [Tokens -> [Accounts -> Nat]]
    BY <1>0, <1>1, <1>4 DEF Ledger
  <1>6. Backed'
    <2>1. \A t : Escrowed(t)' = EscrowSum(order', t) /\ Claims(t)' = ClaimSum(push', t)
      BY DEF Escrowed, Claims, EscrowSum, ClaimSum
    <2>2. QED
      BY <1>2, <1>3, <2>1 DEF Backed
  <1>7. QED
    BY <1>0, <1>1, <1>5, <1>6 DEF DebtBook

(* Most calls lose nothing: balanced books are backed ones.                *)
LEMMA BackedStep ==
    ASSUME MoneyInv, NEW B, Keep(B), order' \in OrderTables,
           push' \in PushTables, Balanced(B, order', push'),
           \A t \in Tokens : Losses(t)' = Losses(t)
    PROVE  /\ bal' \in [Tokens -> [Accounts -> Nat]]
           /\ owed' \in [Tokens -> [Accounts -> Nat]] /\ Backed'
  <1> DEFINE l == [t \in Tokens |-> 0]
  <1>1. B \in BookSet /\ \A t \in Tokens, a \in Accounts : B.bal[t][a] >= 0
    BY DEF Balanced
  <1>2. ASSUME NEW t \in Tokens
        PROVE  /\ l[t] \in Nat /\ Losses(t)' >= Losses(t) + l[t]
               /\ Free(B, t) - EscrowSum(order', t) - ClaimSum(push', t) + l[t]
                    >= Free(Books, t) - Escrowed(t) - Claims(t)
    <2>1. /\ Free(B, t) - EscrowSum(order', t) - ClaimSum(push', t)
               >= Free(Books, t) - Escrowed(t) - Claims(t)
          /\ Losses(t)' = Losses(t) /\ l[t] = 0
      BY DEF Balanced
    <2>2. /\ EscrowSum(order', t) \in Nat /\ ClaimSum(push', t) \in Nat
          /\ Losses(t) \in Nat /\ Free(B, t) \in Int
      BY <1>1, SumsNat, LossesNat, FreeInt
    <2> HIDE DEF l
    <2>3. QED
      BY <2>1, <2>2
  <1> HIDE DEF l
  <1>3. QED
    BY <1>1, <1>2, BackedLess

(* The caps of the bids paid are finitely many numbers.                    *)
LEMMA CapNat ==
    ASSUME MoneyInv, NEW t \in Tokens, NEW a
    PROVE  SignedCap(t, a) \in Nat
  <1> DEFINE F == [u \in Requests \X Bids |-> CapOf(u, t, a)]
  <1>1. used \subseteq Requests \X Bids /\ IsFiniteSet(used)
    <2>1. used \subseteq Requests \X Bids
      BY DEF MoneyInv, Inv, SwapTypes
    <2>2. IsFiniteSet(Requests \X Bids)
      BY FS_Product, LedgerAssumption
    <2>3. QED
      BY <2>1, <2>2, FS_Subset
  <1>2. \A u \in Requests \X Bids : F[u] = CapOf(u, t, a)
    OBVIOUS
  <1>3. SignedCap(t, a) = SumOver(F, used)
    BY DEF SignedCap
  <1> HIDE DEF F
  <1>4. \A u \in Requests \X Bids : CapOf(u, t, a) \in Nat
    BY WorldAssumption DEF CapOf
  <1>5. \A u \in used : F[u] \in Nat
    BY <1>1, <1>2, <1>4
  <1>6. QED
    BY <1>1, <1>3, <1>5, SumNat

(* A call that takes no away token from anyone keeps the caps.             *)
LEMMA CapsStep ==
    ASSUME MoneyInv, used' = used, bal' \in [Tokens -> [Accounts -> Nat]],
           \A t \in Away, a \in Accounts \ {ME} : bal'[t][a] >= bal[t][a]
    PROVE  CapsCover'
  <1> SUFFICES ASSUME NEW t \in Away, NEW a \in Accounts \ {ME}
               PROVE  InitialBalances[t][a] - bal'[t][a] <= SignedCap(t, a)'
    BY DEF CapsCover
  <1>1. SignedCap(t, a)' = SignedCap(t, a)
    BY DEF SignedCap
  <1>2. InitialBalances[t][a] - bal[t][a] <= SignedCap(t, a)
    BY DEF MoneyInv, MoneyLaws, CapsCover
  <1>3. t \in Tokens
    BY LedgerAssumption
  <1>4. bal[t][a] \in Nat /\ bal'[t][a] \in Nat /\ InitialBalances[t][a] \in Nat
    BY <1>3, MoneyFacts, LedgerAssumption
  <1>5. SignedCap(t, a) \in Int
    BY <1>3, CapNat
  <1>6. QED
    BY <1>1, <1>2, <1>4, <1>5

-----------------------------------------------------------------------------
(* Steps that move money                                                   *)

(* Steps that move no token.                                               *)
LEMMA QuietMoney ==
    ASSUME MoneyInv, UNCHANGED <<order, filled, used, push, owed, payouts, bal>>,
           now' \in 0 .. MaxTime, xlm' \in [Chains -> Nat]
    PROVE  MoneyLaws'
  <1>1. MoneyTypes'
    BY DEF MoneyInv, MoneyLaws, MoneyTypes
  <1>2. OrdersSound' /\ PushesSound' /\ PayoutsSound'
    BY DEF MoneyInv, MoneyLaws, OrdersSound, PushesSound, PayoutsSound
  <1>3. Backed'
    BY LossesKept DEF MoneyInv, MoneyLaws, Backed, Books, Escrowed, Claims
  <1>4. CapsCover'
    BY DEF MoneyInv, MoneyLaws, CapsCover, SignedCap
  <1>5. QED
    BY <1>1, <1>2, <1>3, <1>4 DEF MoneyLaws

(* The types a step of the money starts from.                              *)
LEMMA XlmType ==
    ASSUME MoneyInv
    PROVE  /\ now \in 0 .. MaxTime /\ xlm \in [Chains -> Nat] /\ Toll \in Nat
           /\ payouts \subseteq Payouts
  BY LedgerAssumption DEF MoneyInv, MoneyLaws, MoneyTypes, Toll

(* The order `fill` stores is sound: the quote left the taker its minimum  *)
(* after fee and tip, and the routes it looked up exist.                   *)
LEMMA FillSound ==
    ASSUME MoneyInv, NEW id \in Requests, NEW bid \in Bids, NEW q \in Quotes,
           NEW sig, Fill(id, bid, q, sig)
    PROVE  /\ OrderSound(id, OrderOf(id, bid, q))
           /\ OrderOf(id, bid, q) \in OrderRecords /\ OrderOf(id, bid, q) # None
           /\ order[id] = None
           /\ id.taker \in Accounts \ {ME}
  <1> DEFINE o == OrderOf(id, bid, q)
  <1>0. Inv /\ SettingsSound
    BY DEF MoneyInv, Inv
  <1>1. id.taker # None /\ id \notin filled
    BY DEF Fill, CheckRequest
  <1>2. order[id] = None
    BY <1>0, <1>1 DEF Inv, SwapStages, Stage, Idle, Closed, Travelling, Parked,
       Failing, Paying, Settled, Open
  <1>3. o \in OrderRecords /\ o # None
    BY <1>0, <1>1, OrderTyped
  <1>4. id.taker \in Accounts \ {ME}
    BY <1>1, WorldAssumption
  <1>5. /\ o.taker = id.taker /\ o.rwa = id.taker_token
        /\ o.stable = id.maker_token /\ o.delivery = bid.delivery
        /\ o.recipient = bid.recipient
        /\ o.amount = q.maker_amount /\ o.fee = q.fee
        /\ o.tip = Tip("home", id.maker_token)
    BY DEF OrderOf
  <1> HIDE DEF o
  <1>6. o.amount - o.fee - o.tip >= id.min_received_amount
    BY <1>5 DEF Fill, Quote
  <1>7. id.maker_token \in Tokens /\ id.taker_token \in Tokens /\ bid.stable # None
    BY WorldAssumption
  <1>8. Link[o.stable] # None
    <2>1. setting[RouteOf(id.maker_token)] = bid.stable
      BY DEF Fill, CheckBid
    <2>2. QED
      BY <1>5, <1>7, <2>1 DEF MoneyInv, RoutesCarried
  <1>9. IF o.delivery = "CROSS_DELIVER" THEN Link[o.rwa] # None ELSE o.recipient # None
    <2>1. CASE bid.delivery = "CROSS_DELIVER"
      <3>1. setting[RouteOf(id.taker_token)] # None
        BY <2>1 DEF Fill, CheckBid
      <3>2. QED
        BY <1>5, <1>7, <2>1, <3>1 DEF MoneyInv, RoutesCarried
    <2>2. CASE bid.delivery # "CROSS_DELIVER"
      BY <1>5, <2>2 DEF Fill, CheckBid
    <2>3. QED
      BY <2>1, <2>2
  <1>10. QED
    BY <1>2, <1>3, <1>4, <1>5, <1>6, <1>8, <1>9 DEF OrderSound, o

(* Orders other than id's are as they were; id's, if any, is sound.        *)
LEMMA OrdersStep ==
    ASSUME MoneyInv, NEW id \in Requests,
           \A i \in Requests \ {id} : order'[i] = order[i],
           order'[id] = None \/ OrderSound(id, order'[id])
    PROVE  OrdersSound'
  BY DEF MoneyInv, MoneyLaws, OrdersSound, OrderSound

(* `fill` escrows what its order records.                                  *)
LEMMA FillMoney ==
    ASSUME MoneyInv, SwapTypes', NEW id \in Requests, NEW bid \in Bids,
           NEW q \in Quotes, NEW sig, Fill(id, bid, q, sig)
    PROVE  MoneyLaws'
  <1> DEFINE o == OrderOf(id, bid, q)
             a0 == id.taker
             rwa == id.taker_token
             n == id.taker_amount
             moved == Move(bal, rwa, a0, ME, n)
             B == [bal |-> moved, owed |-> owed]
  <1>1. /\ OrderSound(id, o) /\ o \in OrderRecords /\ o # None
        /\ order[id] = None /\ a0 \in Accounts \ {ME}
    BY FillSound
  <1>2. /\ bal' = moved /\ owed' = owed /\ order' = [order EXCEPT ![id] = o]
        /\ xlm' = [xlm EXCEPT !["home"] = @ + FillXlm(bid)]
        /\ UNCHANGED <<used, push, payouts, now>> /\ bal[rwa][a0] >= n
        /\ id \notin filled /\ filled' = filled \cup {id}
    BY DEF Fill, CanSend, CheckRequest, worldVars
  <1>3. rwa \in Tokens \ Away /\ n \in Nat /\ ME \in Accounts
    BY WorldAssumption, LedgerAssumption
  <1>4. o.rwa = rwa /\ o.units = n
    BY DEF OrderOf
  <1> HIDE DEF o, a0, rwa, n
  <1>5. order' \in OrderTables /\ push' \in PushTables /\ order \in OrderTables
    BY <1>2, MoneyFacts DEF SwapTypes, OrderTables
  <1>6. order'[id] = o /\ \A i \in Requests \ {id} : order'[i] = order[i]
    BY <1>2, <1>5 DEF OrderTables
  <1>7. /\ moved \in Ledger
        /\ \A t \in Tokens, a \in Accounts : moved[t][a] = bal[t][a]
              - Part(t, a, rwa, a0, n) + Part(t, a, rwa, ME, n)
    <2>1. bal \in Ledger
      BY MoneyFacts
    <2>2. QED
      BY <1>1, <1>3, <2>1, MoveEffect
  <1> HIDE DEF moved
  <1>8. B \in BookSet /\ B.bal = moved /\ B.owed = owed
    BY <1>7, MoneyFacts DEF BookSet
  <1> HIDE DEF B
  <1>9. ASSUME NEW t \in Tokens
        PROVE  Free(B, t) - EscrowSum(order', t) - ClaimSum(push', t)
                 >= Free(Books, t) - Escrowed(t) - Claims(t)
    <2>1. Free(B, t) = Free(Books, t) + (moved[t][ME] - bal[t][ME])
      BY <1>8, SameDebts, MoneyFacts
    <2>2. bal[t][ME] \in Int /\ moved[t][ME] \in Int
      BY <1>3, <1>7, MoneyFacts DEF Ledger
    <2>3. moved[t][ME] = bal[t][ME] + On(t, rwa, n)
      BY <1>1, <1>3, <1>7, <2>2 DEF On, Part
    <2>4. EscrowSum(order', t) = Escrowed(t)
             + (EscrowOf(order'[id], t) - EscrowOf(order[id], t))
      BY <1>5, <1>6, EscrowMoves, MoneyFacts
    <2>5. EscrowOf(order'[id], t) = On(t, rwa, n) /\ EscrowOf(order[id], t) = 0
      BY <1>1, <1>4, <1>6 DEF EscrowOf, On
    <2>6. ClaimSum(push', t) = Claims(t)
      BY <1>2, MoneyFacts
    <2>7. Free(Books, t) \in Int /\ Escrowed(t) \in Int /\ Claims(t) \in Int
      BY MoneyFacts
    <2>8. On(t, rwa, n) \in Int
      BY <1>3, OnInt
    <2>9. QED
      BY <2>1, <2>2, <2>3, <2>4, <2>5, <2>6, <2>7, <2>8
  <1>10. ASSUME NEW t \in Tokens, NEW a \in Accounts \ {ME}
         PROVE  moved[t][a] >= 0 /\ (t \in Away => moved[t][a] >= bal[t][a])
    <2>1. bal[t][a] \in Nat
      BY MoneyFacts
    <2>2. QED
      BY <1>2, <1>3, <1>7, <2>1 DEF Part
  <1>11. Balanced(B, order', push')
    <2>1. ASSUME NEW t \in Tokens PROVE moved[t][ME] >= 0
      <3>1. bal[t][ME] \in Nat
        BY <1>3, MoneyFacts
      <3>2. QED
        BY <1>1, <1>3, <1>7, <3>1 DEF Part
    <2>2. QED
      BY <1>8, <1>9, <1>10, <2>1 DEF Balanced
  <1>12. Keep(B)
    BY <1>2, <1>8 DEF Keep
  <1>13. /\ bal' \in [Tokens -> [Accounts -> Nat]]
         /\ owed' \in [Tokens -> [Accounts -> Nat]] /\ Backed'
    <2>1. \A t \in Tokens : Losses(t)' = Losses(t)
      BY <1>1, <1>2, <1>6, LossesEven
    <2>2. QED
      BY <1>5, <1>11, <1>12, <2>1, BackedStep
  <1>14. CapsCover'
    BY <1>2, <1>10, <1>13, CapsStep, LedgerAssumption
  <1>15. xlm' \in [Chains -> Nat]
    <2>1. FillXlm(bid) \in Nat
      BY XlmType, LedgerAssumption DEF FillXlm
    <2>2. QED
      BY <1>2, <2>1, XlmType DEF Chains
  <1>16. MoneyTypes'
    BY <1>2, <1>5, <1>13, <1>15, XlmType DEF MoneyTypes, PushTables
  <1>17. OrdersSound'
    BY <1>1, <1>6, OrdersStep
  <1>18. PushesSound' /\ PayoutsSound'
    BY <1>2 DEF MoneyInv, MoneyLaws, PushesSound, PayoutsSound
  <1>19. QED
    BY <1>13, <1>14, <1>16, <1>17, <1>18 DEF MoneyLaws

(* The contract signs nothing, so it is no bid's payer.                    *)
LEMMA SignerNotME ==
    ASSUME MoneyInv, NEW m, CheckSigned(m)
    PROVE  m.bid.maker # ME
  <1> SUFFICES ASSUME m.bid.maker = ME PROVE FALSE
    OBVIOUS
  <1>1. m.sig # None /\ (OwnKey[ME] = m.sig \/ <<ME, m.sig>> \in registered)
    BY DEF CheckSigned
  <1>2. <<ME, m.sig>> \notin registered
    <2>1. <<ME, m.sig>>[1] = ME
      OBVIOUS
    <2>2. QED
      BY <2>1, KeyAssumption DEF MoneyInv, KeysSound
  <1>3. QED
    BY <1>1, <1>2, KeyAssumption

(* A newly paid bid adds its cap.                                          *)
LEMMA CapGrows ==
    ASSUME MoneyInv, NEW u \in Requests \X Bids, u \notin used,
           used' = used \cup {u}, NEW t \in Tokens, NEW a
    PROVE  /\ SignedCap(t, a)' = SignedCap(t, a) + CapOf(u, t, a)
           /\ CapOf(u, t, a) \in Nat
  <1> DEFINE F == [x \in Requests \X Bids |-> CapOf(x, t, a)]
  <1>1. used \subseteq Requests \X Bids /\ IsFiniteSet(used)
    <2>1. used \subseteq Requests \X Bids
      BY DEF MoneyInv, Inv, SwapTypes
    <2>2. IsFiniteSet(Requests \X Bids)
      BY FS_Product, LedgerAssumption
    <2>3. QED
      BY <2>1, <2>2, FS_Subset
  <1>2. \A x \in Requests \X Bids : F[x] = CapOf(x, t, a)
    OBVIOUS
  <1>3. SignedCap(t, a) = SumOver(F, used) /\ SignedCap(t, a)' = SumOver(F, used \cup {u})
    BY DEF SignedCap
  <1> HIDE DEF F
  <1>4. \A x \in Requests \X Bids : CapOf(x, t, a) \in Nat
    BY WorldAssumption DEF CapOf
  <1>5. \A x \in used \cup {u} : F[x] \in Int
    BY <1>1, <1>2, <1>4
  <1>6. SumOver(F, used \cup {u}) = F[u] + SumOver(F, used)
    BY <1>1, <1>5, SumAdd
  <1>7. SignedCap(t, a) \in Nat
    BY CapNat
  <1>8. QED
    BY <1>2, <1>3, <1>4, <1>6, <1>7

(* A smaller count of wire units is a smaller amount.                      *)
LEMMA ProductOrder ==
    ASSUME NEW x \in Nat, NEW y \in Nat, NEW z \in Nat, x <= y
    PROVE  x * z \in Nat /\ x * z <= y * z
  OBVIOUS

(* on_fill pulls from the bid's signer at most the cap it signed, for a    *)
(* bid not paid before; a failure moves nothing.                           *)
LEMMA AnswerMoney ==
    ASSUME MoneyInv, NEW m, m.id \in Requests, m.bid \in Bids, m.amount \in Nat,
           OnFill(m)
    PROVE  MoneyLaws'
  <1>1. /\ UNCHANGED <<order, filled, push, owed, payouts, now>>
        /\ xlm["away"] >= Toll /\ xlm' = [xlm EXCEPT !["away"] = @ - Toll]
    BY DEF OnFill, worldVars
  <1>2. xlm' \in [Chains -> Nat]
    BY <1>1, XlmType DEF Chains
  <1>3. CASE SendFail(m)
    BY <1>1, <1>2, <1>3, QuietMoney, XlmType DEF SendFail
  <1>4. CASE Pay(m)
    <2> DEFINE mk == m.bid.maker
               s == m.bid.stable
               n == Local(m)
               u == <<m.id, m.bid>>
               pulled == [bal EXCEPT ![s][mk] = @ - n]
               B == [bal |-> pulled, owed |-> owed]
    <2>1. mk \in Accounts /\ s \in Tokens /\ m.bid.max_amount \in Nat
      BY WorldAssumption
    <2>2. /\ CheckSigned(m) /\ m.amount <= m.bid.max_amount /\ u \notin used
          /\ bal[s][mk] >= n /\ used' = used \cup {u} /\ bal' = pulled
      BY <1>4 DEF Pay, Payable, CanSend
    <2>3. mk # ME
      BY <2>2, SignerNotME
    <2>4. u \in Requests \X Bids
      OBVIOUS
    <2>5. Unit[s] \in Nat
      BY <2>1, WorldAssumption
    <2>6. n \in Nat /\ n <= m.bid.max_amount * Unit[s]
      <3>1. n = m.amount * Unit[s]
        BY DEF Local
      <3>2. m.amount * Unit[s] \in Nat /\ m.amount * Unit[s] <= m.bid.max_amount * Unit[s]
        BY <2>1, <2>2, <2>5, ProductOrder
      <3>3. QED
        BY <3>1, <3>2
    <2>7. CapOf(u, s, mk) = m.bid.max_amount * Unit[s]
      <3>1. \E sg \in Signatures : sg.id = u[1] /\ sg.bid = u[2]
        <4> DEFINE sg == [signer |-> m.sig, id |-> m.id, bid |-> m.bid]
        <4>1. sg \in Signatures /\ sg.id = u[1] /\ sg.bid = u[2]
          BY <2>2 DEF CheckSigned
        <4>2. QED
          BY <4>1
      <3>2. QED
        BY <3>1 DEF CapOf
    <2> HIDE DEF mk, s, n, u
    <2>8. /\ pulled \in Ledger
          /\ \A t \in Tokens, a \in Accounts :
                pulled[t][a] = bal[t][a] - Part(t, a, s, mk, n)
      <3>1. bal \in Ledger
        BY MoneyFacts
      <3>2. QED
        BY <2>1, <2>6, <3>1 DEF Ledger, Part
    <2> HIDE DEF pulled
    <2>9. B \in BookSet /\ B.bal = pulled /\ B.owed = owed
      BY <2>8, MoneyFacts DEF BookSet
    <2> HIDE DEF B
    <2>10. ASSUME NEW t \in Tokens
           PROVE  Free(B, t) - EscrowSum(order', t) - ClaimSum(push', t)
                    >= Free(Books, t) - Escrowed(t) - Claims(t)
      <3>1. Free(B, t) = Free(Books, t) + (pulled[t][ME] - bal[t][ME])
        BY <2>9, SameDebts, MoneyFacts
      <3>2. bal[t][ME] \in Int /\ ME \in Accounts
        BY MoneyFacts, LedgerAssumption
      <3>3. pulled[t][ME] = bal[t][ME]
        BY <2>3, <2>8, <3>2 DEF Part
      <3>4. EscrowSum(order', t) = Escrowed(t) /\ ClaimSum(push', t) = Claims(t)
        BY <1>1, MoneyFacts
      <3>5. Free(Books, t) \in Int /\ Escrowed(t) \in Int /\ Claims(t) \in Int
        BY MoneyFacts
      <3>6. QED
        BY <3>1, <3>2, <3>3, <3>4, <3>5
    <2>11. ASSUME NEW t \in Tokens, NEW a \in Accounts
           PROVE  pulled[t][a] >= 0
      <3>1. bal[t][a] \in Nat
        BY MoneyFacts
      <3>2. QED
        BY <2>2, <2>6, <2>8, <3>1 DEF Part
    <2>12. Balanced(B, order', push') /\ Keep(B)
      BY <1>1, <2>2, <2>9, <2>10, <2>11 DEF Balanced, Keep
    <2>13. order' \in OrderTables /\ push' \in PushTables
      BY <1>1, MoneyFacts
    <2>14. /\ bal' \in [Tokens -> [Accounts -> Nat]]
           /\ owed' \in [Tokens -> [Accounts -> Nat]] /\ Backed'
      BY <1>1, <2>12, <2>13, LossesKept, BackedStep
    <2>15. CapsCover'
      <3> SUFFICES ASSUME NEW t \in Away, NEW a \in Accounts \ {ME}
                   PROVE  InitialBalances[t][a] - bal'[t][a] <= SignedCap(t, a)'
        BY DEF CapsCover
      <3>1. t \in Tokens
        BY LedgerAssumption
      <3>2. /\ SignedCap(t, a)' = SignedCap(t, a) + CapOf(u, t, a)
            /\ CapOf(u, t, a) \in Nat /\ SignedCap(t, a) \in Nat
        BY <2>2, <2>4, <3>1, CapGrows, CapNat
      <3>3. bal'[t][a] = bal[t][a] - Part(t, a, s, mk, n)
        BY <2>2, <2>8, <3>1
      <3>4. Part(t, a, s, mk, n) \in Nat /\ Part(t, a, s, mk, n) <= CapOf(u, t, a)
        <4>1. CASE t = s /\ a = mk
          BY <2>6, <2>7, <4>1 DEF Part
        <4>2. CASE ~(t = s /\ a = mk)
          BY <3>2, <4>2 DEF Part
        <4>3. QED
          BY <4>1, <4>2
      <3>5. InitialBalances[t][a] - bal[t][a] <= SignedCap(t, a)
        BY DEF MoneyInv, MoneyLaws, CapsCover
      <3>6. bal[t][a] \in Nat /\ InitialBalances[t][a] \in Nat
        BY <3>1, MoneyFacts, LedgerAssumption
      <3>7. QED
        BY <3>2, <3>3, <3>4, <3>5, <3>6
    <2>16. MoneyTypes'
      BY <1>1, <1>2, <2>13, <2>14, XlmType DEF MoneyTypes, PushTables
    <2>17. OrdersSound' /\ PushesSound' /\ PayoutsSound'
      BY <1>1 DEF MoneyInv, MoneyLaws, OrdersSound, PushesSound, PayoutsSound
    <2>18. QED
      BY <2>14, <2>15, <2>16, <2>17 DEF MoneyLaws
  <1>5. QED
    BY <1>3, <1>4 DEF OnFill

(* A vault that governance set is a vault.                                 *)
LEMMA VaultSet ==
    ASSUME MoneyInv, NEW rwa \in Tokens, setting[VaultOf(rwa)] # None
    PROVE  setting[VaultOf(rwa)] \in Vaults
  <1>1. VaultOf(rwa) \in Slots /\ VaultOf(rwa)[1] = "vault"
    BY DEF Slots, VaultOf
  <1>2. SoundSetting(VaultOf(rwa), setting[VaultOf(rwa)])
    BY <1>1 DEF MoneyInv, Inv, SettingsSound
  <1>3. QED
    BY <1>1, <1>2 DEF SoundSetting

(* A payout carries whole wire units.                                      *)
LEMMA PayoutType ==
    ASSUME NEW id \in Requests, NEW token \in Tokens, NEW n \in Nat,
           NEW to \in Accounts
    PROVE  Payout(id, token, n, to) \in Payouts /\ Payout(id, token, n, to).token = token
  <1>1. PICK u \in Nat \ {0} : u = Unit[token]
    BY WorldAssumption
  <1>2. n \div u \in Nat
    BY DivBracket
  <1>3. OnWire(token, n) \in Nat
    BY <1>1, <1>2 DEF OnWire
  <1>4. QED
    BY <1>3 DEF Payout, Payouts

(* What route_rwa may do to the books, the claims and the payouts: the     *)
(* escrowed units leave, and what they leave as is accounted for.          *)
Routed(B, R, o, c) ==
    /\ R \in BookSet /\ Spares(B, R)
    /\ \A t \in Tokens : Free(R, t) - ClaimSum(c, t)
          >= Free(B, t) - ClaimSum(push, t) - On(t, o.rwa, o.units)

(* The units leave the books in one way, and no claim changes.             *)
LEMMA RoutedOut ==
    ASSUME MoneyInv, NEW B \in BookSet, NEW o \in OrderRecords, NEW R,
           Shifts(B, R, o.rwa, - o.units), Spares(B, R)
    PROVE  Routed(B, R, o, push)
  <1>1. o.rwa \in Tokens /\ o.units \in Nat /\ R \in BookSet
    BY DEF OrderRecords, Shifts
  <1>2. ASSUME NEW t \in Tokens
        PROVE  Free(R, t) - ClaimSum(push, t)
                 >= Free(B, t) - ClaimSum(push, t) - On(t, o.rwa, o.units)
    <2>1. Free(R, t) >= Free(B, t) + On(t, o.rwa, - o.units)
      BY DEF Shifts
    <2>2. On(t, o.rwa, - o.units) = - On(t, o.rwa, o.units) /\ On(t, o.rwa, o.units) \in Int
      BY <1>1 DEF On
    <2>3. Free(R, t) \in Int /\ Free(B, t) \in Int /\ ClaimSum(push, t) \in Int
      BY <1>1, FreeInt, MoneyFacts, SumsNat
    <2>4. QED
      BY <2>1, <2>2, <2>3
  <1>3. QED
    BY <1>1, <1>2 DEF Routed

(* DELIVER: the recipient gets the units, or is owed them.                 *)
LEMMA RouteDeliver ==
    ASSUME MoneyInv, NEW B \in BookSet, NEW o \in OrderRecords,
           o.recipient # None
    PROVE  Routed(B, SendOrHold(B, o.rwa, o.recipient, o.units), o, push)
  <1> DEFINE R == SendOrHold(B, o.rwa, o.recipient, o.units)
  <1>1. o.rwa \in Tokens /\ o.units \in Nat /\ o.recipient \in Accounts
    BY DEF OrderRecords
  <1>2. Shifts(B, R, o.rwa, - o.units) /\ Spares(B, R)
    BY <1>1, SendEffect
  <1>3. QED
    BY <1>2, RoutedOut

(* CROSS_DELIVER: the units enter the bridge.                              *)
LEMMA RouteCross ==
    ASSUME MoneyInv, NEW B \in BookSet, NEW o \in OrderRecords,
           B.bal[o.rwa][ME] >= o.units
    PROVE  Routed(B, Burn(B, o.rwa, o.units), o, push)
  <1> DEFINE R == Burn(B, o.rwa, o.units)
  <1>1. o.rwa \in Tokens /\ o.units \in Nat
    BY DEF OrderRecords
  <1>2. Shifts(B, R, o.rwa, - o.units) /\ Spares(B, R)
    BY <1>1, BurnEffect
  <1>3. QED
    BY <1>2, RoutedOut

(* REDEEM_CT: the claim token goes to the recipient.                       *)
LEMMA RouteClaimToken ==
    ASSUME MoneyInv, NEW B \in BookSet, NEW o \in OrderRecords,
           o.recipient # None, NEW v \in Vaults, B.bal[o.rwa][ME] >= o.units
    PROVE  Routed(B, SendOrHold(Redeem(B, v, o.rwa, o.units), Ct[v],
                                o.recipient, o.units), o, push)
  <1> DEFINE M == Redeem(B, v, o.rwa, o.units)
             k == Ct[v]
             n == o.units
             R == SendOrHold(M, k, o.recipient, n)
  <1>1. o.rwa \in Tokens /\ n \in Nat /\ o.recipient \in Accounts /\ k \in Tokens
    BY LedgerAssumption DEF OrderRecords
  <1>2. /\ M \in BookSet /\ Spares(B, M)
        /\ \A t \in Tokens :
              Free(M, t) >= Free(B, t) + On(t, o.rwa, - n) + On(t, k, n)
    BY <1>1, RedeemEffect
  <1> HIDE DEF M
  <1> HIDE DEF k, n
  <1>3. Shifts(M, R, k, -n) /\ Spares(M, R)
    BY <1>1, <1>2, SendEffect
  <1> HIDE DEF R
  <1>4. R \in BookSet /\ \A t \in Tokens : Free(R, t) >= Free(M, t) + On(t, k, -n)
    BY <1>3 DEF Shifts
  <1>5. ASSUME NEW t \in Tokens
        PROVE  Free(R, t) - ClaimSum(push, t)
                 >= Free(B, t) - ClaimSum(push, t) - On(t, o.rwa, n)
    <2>1. /\ Free(M, t) >= Free(B, t) + On(t, o.rwa, - n) + On(t, k, n)
          /\ Free(R, t) >= Free(M, t) + On(t, k, -n)
      BY <1>2, <1>4
    <2>2. /\ On(t, o.rwa, - n) = - On(t, o.rwa, n) /\ On(t, o.rwa, n) \in Int
          /\ On(t, k, - n) = - On(t, k, n) /\ On(t, k, n) \in Int
      BY <1>1 DEF On
    <2>3. /\ Free(R, t) \in Int /\ Free(M, t) \in Int /\ Free(B, t) \in Int
          /\ ClaimSum(push, t) \in Int
      BY <1>2, <1>4, FreeInt, MoneyFacts, SumsNat
    <2>4. QED
      BY <2>1, <2>2, <2>3
  <1>6. Spares(B, R)
    BY <1>2, <1>3, <1>4, SparesBoth
  <1>7. Routed(B, R, o, push)
    BY <1>4, <1>5, <1>6 DEF Routed, n
  <1>8. QED
    BY <1>7 DEF R, M, k, n

(* REDEEM_PUSH: the claim token stays, promised to the maker.              *)
LEMMA RoutePush ==
    ASSUME MoneyInv, NEW B \in BookSet, NEW o \in OrderRecords,
           NEW v \in Vaults, B.bal[o.rwa][ME] >= o.units,
           NEW id \in Requests, NEW c \in PushTables,
           \A i \in Requests \ {id} : c[i] = push[i],
           c[id].vault = v, c[id].units = o.units
    PROVE  Routed(B, Redeem(B, v, o.rwa, o.units), o, c)
  <1> DEFINE R == Redeem(B, v, o.rwa, o.units)
             k == Ct[v]
             n == o.units
  <1>1. o.rwa \in Tokens /\ n \in Nat /\ k \in Tokens
    BY LedgerAssumption DEF OrderRecords
  <1>2. /\ R \in BookSet /\ Spares(B, R)
        /\ \A t \in Tokens :
              Free(R, t) >= Free(B, t) + On(t, o.rwa, - n) + On(t, k, n)
    BY <1>1, RedeemEffect
  <1> HIDE DEF R
  <1>3. ASSUME NEW t \in Tokens
        PROVE  Free(R, t) - ClaimSum(c, t)
                 >= Free(B, t) - ClaimSum(push, t) - On(t, o.rwa, n)
    <2>1. Free(R, t) >= Free(B, t) + On(t, o.rwa, - n) + On(t, k, n)
      BY <1>2
    <2>2. /\ On(t, o.rwa, - n) = - On(t, o.rwa, n) /\ On(t, o.rwa, n) \in Int
          /\ On(t, k, n) \in Int
      BY <1>1 DEF On
    <2>3. push \in PushTables
      BY MoneyFacts
    <2>4. ClaimSum(c, t) = ClaimSum(push, t) + (ClaimOf(c[id], t) - ClaimOf(push[id], t))
      BY <2>3, ClaimMoves
    <2>5. ClaimOf(c[id], t) <= On(t, k, n)
      BY <1>1 DEF ClaimOf, On
    <2>6. ClaimOf(push[id], t) \in Nat /\ ClaimOf(c[id], t) \in Nat
      <3>1. push[id] \in PushRecords \cup {None} /\ c[id] \in PushRecords \cup {None}
        BY <2>3 DEF PushTables
      <3>2. QED
        BY <3>1, ClaimNat
    <2>7. Free(R, t) \in Int /\ Free(B, t) \in Int /\ ClaimSum(push, t) \in Int
      BY <1>2, <2>3, FreeInt, MoneyFacts, SumsNat
    <2> HIDE DEF k, n
    <2>8. QED
      BY <2>1, <2>2, <2>4, <2>5, <2>6, <2>7
  <1>4. Routed(B, R, o, c)
    BY <1>2, <1>3 DEF Routed
  <1>5. QED
    BY <1>4 DEF R

(* Whichever way the RWA goes.                                             *)
LEMMA RouteEffect ==
    ASSUME MoneyInv, NEW id \in Requests, NEW o \in OrderRecords,
           OrderSound(id, o), NEW B \in BookSet, RouteRwa(id, o, B)
    PROVE  /\ \E R : Keep(R) /\ Routed(B, R, o, push')
           /\ push' \in PushTables /\ PushesSound'
           /\ payouts' \subseteq Payouts /\ PayoutsSound'
           /\ xlm' \in [Chains -> Nat]
  <1>0. /\ push \in PushTables /\ PushesSound /\ payouts \subseteq Payouts
        /\ PayoutsSound /\ xlm \in [Chains -> Nat] /\ Toll \in Nat
    BY MoneyFacts, XlmType DEF MoneyInv, MoneyLaws
  <1>1. /\ o.rwa \in Tokens /\ o.units \in Nat /\ o.maker \in Accounts
        /\ o.stable \in Tokens /\ o.recipient \in Accounts \cup {None}
    BY DEF OrderRecords
  <1>2. /\ Link[o.stable] # None /\ o.rwa \notin Away
        /\ IF o.delivery = "CROSS_DELIVER" THEN Link[o.rwa] # None
                                           ELSE o.recipient # None
    BY WorldAssumption DEF OrderSound
  <1>3. CASE /\ o.delivery = "DELIVER"
             /\ Keep(SendOrHold(B, o.rwa, o.recipient, o.units))
             /\ UNCHANGED <<push, payouts, xlm>>
    <2>1. Routed(B, SendOrHold(B, o.rwa, o.recipient, o.units), o, push')
      BY <1>2, <1>3, RouteDeliver
    <2>2. PushesSound' /\ PayoutsSound'
      BY <1>0, <1>3 DEF PushesSound, PayoutsSound
    <2>3. QED
      BY <1>0, <1>3, <2>1, <2>2
  <1>4. CASE /\ o.delivery = "CROSS_DELIVER"
             /\ xlm["home"] >= Toll
             /\ B.bal[o.rwa][ME] >= o.units
             /\ Keep(Burn(B, o.rwa, o.units))
             /\ payouts' = payouts \cup {Payout(id, o.rwa, o.units, o.maker)}
             /\ xlm' = [xlm EXCEPT !["home"] = @ - Toll]
             /\ push' = push
    <2> DEFINE m == Payout(id, o.rwa, o.units, o.maker)
    <2>1. Routed(B, Burn(B, o.rwa, o.units), o, push')
      BY <1>4, RouteCross
    <2>2. m \in Payouts /\ m.token = o.rwa
      BY <1>1, PayoutType
    <2>3. xlm' \in [Chains -> Nat]
      BY <1>0, <1>4 DEF Chains
    <2> HIDE DEF m
    <2>4. payouts' = payouts \cup {m}
      BY <1>4 DEF m
    <2>5. PushesSound' /\ PayoutsSound'
      BY <1>0, <1>2, <1>4, <2>2, <2>4 DEF PushesSound, PayoutsSound
    <2>6. QED
      BY <1>0, <1>4, <2>1, <2>2, <2>3, <2>4, <2>5
  <1> DEFINE v == setting[VaultOf(o.rwa)]
             redeemed == Redeem(B, v, o.rwa, o.units)
  <1>5. CASE /\ o.delivery = "REDEEM_CT" /\ CanRedeem(B, v, o.rwa, o.units)
             /\ Keep(SendOrHold(redeemed, Ct[v], o.recipient, o.units))
             /\ UNCHANGED <<push, payouts, xlm>>
    <2>1. v \in Vaults /\ B.bal[o.rwa][ME] >= o.units
      BY <1>1, <1>5, VaultSet DEF CanRedeem, CanSend
    <2>2. Routed(B, SendOrHold(redeemed, Ct[v], o.recipient, o.units), o, push')
      BY <1>2, <1>5, <2>1, RouteClaimToken
    <2>3. PushesSound' /\ PayoutsSound'
      BY <1>0, <1>5 DEF PushesSound, PayoutsSound
    <2>4. QED
      BY <1>0, <1>5, <2>2, <2>3
  <1>6. CASE /\ o.delivery = "REDEEM_PUSH" /\ CanRedeem(B, v, o.rwa, o.units)
             /\ Keep(redeemed)
             /\ push' = [push EXCEPT ![id] =
                   [vault |-> v, rwa |-> o.rwa, units |-> o.units,
                    recipient |-> o.recipient, stable |-> o.stable,
                    maker |-> o.maker]]
             /\ UNCHANGED <<payouts, xlm>>
    <2> DEFINE p == [vault |-> v, rwa |-> o.rwa, units |-> o.units,
                     recipient |-> o.recipient, stable |-> o.stable,
                     maker |-> o.maker]
    <2>1. v \in Vaults /\ B.bal[o.rwa][ME] >= o.units
      BY <1>1, <1>6, VaultSet DEF CanRedeem, CanSend
    <2>2. /\ p \in PushRecords /\ p.vault = v /\ p.units = o.units
          /\ p.rwa = o.rwa /\ p.stable = o.stable
      BY <1>1, <1>2, <1>6, <2>1 DEF PushRecords
    <2>3. push' = [push EXCEPT ![id] = p]
      BY <1>6
    <2> HIDE DEF p, v
    <2>4. push' \in PushTables
      BY <1>0, <2>2, <2>3 DEF PushTables
    <2>5. push'[id] = p /\ \A i \in Requests \ {id} : push'[i] = push[i]
      BY <1>0, <2>3 DEF PushTables
    <2>6. Routed(B, redeemed, o, push')
      BY <2>1, <2>2, <2>4, <2>5, RoutePush
    <2>7. PushesSound' /\ PayoutsSound'
      BY <1>0, <1>2, <1>6, <2>2, <2>5 DEF PushesSound, PayoutsSound
    <2>8. QED
      BY <1>0, <1>6, <2>4, <2>6, <2>7
  <1>7. QED
    BY <1>3, <1>4, <1>5, <1>6 DEF RouteRwa

(* PAID closes the order: the taker has its minimum, and the books still   *)
(* cover every other promise.                                              *)
LEMMA SettleMoney ==
    ASSUME MoneyInv, SwapTypes', NEW m \in paids, NEW r \in RelayersHere,
           SettlePaid(m, r)
    PROVE  /\ MoneyLaws'
           /\ LET o == order[m.id]
              IN  bal'[o.stable][o.taker] + owed'[o.stable][o.taker]
                    >= bal[o.stable][o.taker] + owed[o.stable][o.taker]
                         + m.id.min_received_amount
  <1> DEFINE id == m.id
             o == order[id]
             amount == m.amount * Unit[Link[m.token]]
             B == ShareOut(o, amount, r)
  <1>0. Inv /\ m \in Paids
    BY DEF MoneyInv, Inv, SwapTypes
  <1>1. id \in Requests /\ m.token \in Tokens /\ m.amount \in Nat
    BY <1>0 DEF Paids
  <1>2. /\ o # None /\ o.stable = Link[m.token] /\ amount >= o.amount
        /\ order' = [order EXCEPT ![id] = None] /\ RouteRwa(id, o, B)
        /\ UNCHANGED <<filled, used, now>>
    BY DEF SettlePaid, worldVars
  <1>3. o \in OrderRecords
    BY <1>1, <1>2, MoneyFacts DEF OrderTables
  <1>4. OrderSound(id, o)
    BY <1>1, <1>2 DEF MoneyInv, MoneyLaws, OrdersSound
  <1>5. /\ o.stable \in Tokens /\ o.fee \in Nat /\ o.tip \in Nat /\ o.amount \in Nat
        /\ o.units \in Nat /\ o.rwa \in Tokens
    BY <1>3 DEF OrderRecords
  <1>6. amount \in Nat
    BY <1>1, <1>2, <1>5, WorldAssumption
  <1>7. id.min_received_amount \in Int /\ o.taker \in Accounts /\ o.taker # ME
    <2>1. o.taker \in Accounts /\ o.taker = id.taker
      BY <1>3, <1>4 DEF OrderRecords, OrderSound
    <2>2. QED
      BY <1>1, <2>1, WorldAssumption, LedgerAssumption
  <1>8. /\ o.amount - o.fee - o.tip >= id.min_received_amount
        /\ o.stable = id.maker_token
    BY <1>4 DEF OrderSound
  <1> HIDE DEF amount
  <1>9. amount - o.fee - o.tip >= id.min_received_amount
    <2> DEFINE x == o.amount
               y == o.fee
               z == o.tip
               w == id.min_received_amount
    <2>1. x \in Nat /\ y \in Nat /\ z \in Nat /\ w \in Int /\ x - y - z >= w /\ amount >= x
      BY <1>2, <1>5, <1>7, <1>8
    <2> HIDE DEF x, y, z, w
    <2>2. amount - y - z >= w
      BY <1>6, <2>1
    <2>3. QED
      BY <2>2 DEF y, z, w
  <1>10. order'[id] = None /\ \A i \in Requests \ {id} : order'[i] = order[i]
    BY <1>1, <1>2, MoneyFacts DEF OrderTables
  <1>a. id \in filled
    BY <1>0, <1>1, <1>2 DEF Inv, SwapStages, Stage, Idle, Travelling, Parked,
       Failing, Paying, Settled, Open, Closed
  <1> HIDE DEF o
  <1> DEFINE short == Short(o, amount)
             l == [t \in Tokens |-> On(t, o.stable, short)]
  <1>b. short \in Nat /\ (short = 0 \/ short <= - id.min_received_amount)
    <2> DEFINE y == o.fee
               z == o.tip
               w == id.min_received_amount
    <2>1. y \in Nat /\ z \in Nat /\ w \in Int /\ amount - y - z >= w
      BY <1>5, <1>7, <1>9
    <2>2. short = IF amount - y - z < 0 THEN y + z - amount ELSE 0
      BY DEF Short
    <2> HIDE DEF y, z, w, short
    <2>3. short \in Nat /\ (short = 0 \/ short <= - w)
      BY <1>6, <2>1, <2>2
    <2>4. QED
      BY <2>3 DEF w
  <1> HIDE DEF short
  <1>c. ASSUME NEW t \in Tokens
        PROVE  /\ l[t] = On(t, o.stable, short) /\ l[t] \in Nat
               /\ Losses(t)' >= Losses(t) + l[t]
    <2>1. l[t] = On(t, o.stable, short) /\ l[t] \in Nat
      BY <1>b DEF On
    <2>2. Losses(t)' = Losses(t) + (LossOn(id, t)' - LossOn(id, t))
      BY <1>1, <1>2, <1>10, LossesMove
    <2>3. LossOn(id, t) = 0
      BY <1>2 DEF LossOn, o
    <2>4. LossOn(id, t)' >= On(t, o.stable, short)
      <3> DEFINE w == id.min_received_amount
      <3>1. id \in filled' /\ order'[id] = None
        BY <1>2, <1>10, <1>a
      <3>2. LossOn(id, t)' = IF o.stable = t /\ w < 0 THEN - w ELSE 0
        BY <1>8, <3>1 DEF LossOn
      <3>3. w \in Int /\ (short = 0 \/ short <= - w)
        BY <1>7, <1>b
      <3> HIDE DEF w
      <3>4. QED
        BY <1>b, <3>2, <3>3 DEF On
    <2>5. /\ Losses(t) \in Nat /\ LossOn(id, t)' \in Nat
          /\ On(t, o.stable, short) \in Nat
      BY <1>1, <2>1, LossesNat, LossNat
    <2> HIDE DEF l
    <2>6. QED
      BY <2>1, <2>2, <2>3, <2>4, <2>5
  <1> HIDE DEF l
  <1>11. /\ B \in BookSet /\ Spares(Books, B)
         /\ \A t \in Tokens : Free(B, t) >= Free(Books, t) - On(t, o.stable, short)
         /\ o.taker # ME => B.bal[o.stable][o.taker] + B.owed[o.stable][o.taker]
               >= bal[o.stable][o.taker] + owed[o.stable][o.taker]
                    + (amount - o.fee - o.tip)
    BY <1>3, <1>6, MoneyFacts, ShareOutEffect DEF short
  <1> HIDE DEF B, id
  <1>12. PICK R : Keep(R) /\ Routed(B, R, o, push')
    BY <1>1, <1>2, <1>3, <1>4, <1>11, RouteEffect
  <1>13. /\ push' \in PushTables /\ PushesSound' /\ payouts' \subseteq Payouts
         /\ PayoutsSound' /\ xlm' \in [Chains -> Nat]
    BY <1>1, <1>2, <1>3, <1>4, <1>11, RouteEffect
  <1>14. R \in BookSet /\ Spares(Books, R) /\ Spares(B, R)
    <2>1. R \in BookSet /\ Spares(B, R)
      BY <1>12 DEF Routed
    <2>2. QED
      BY <1>11, <2>1, SparesBoth, MoneyFacts
  <1>15. order' \in OrderTables /\ order \in OrderTables
    BY MoneyFacts DEF SwapTypes, OrderTables
  <1>16. ASSUME NEW t \in Tokens
         PROVE  Free(R, t) - EscrowSum(order', t) - ClaimSum(push', t) + l[t]
                  >= Free(Books, t) - Escrowed(t) - Claims(t)
    <2>1. Free(R, t) - ClaimSum(push', t)
            >= Free(B, t) - ClaimSum(push, t) - On(t, o.rwa, o.units)
      BY <1>12 DEF Routed
    <2>2. EscrowSum(order', t) = EscrowSum(order, t)
             + (EscrowOf(order'[id], t) - EscrowOf(order[id], t))
      BY <1>1, <1>10, <1>15, EscrowMoves
    <2>3. EscrowOf(order'[id], t) = 0 /\ EscrowOf(order[id], t) = On(t, o.rwa, o.units)
      BY <1>2, <1>10 DEF EscrowOf, On, o
    <2>4. Free(B, t) >= Free(Books, t) - l[t] /\ l[t] \in Nat
      BY <1>11, <1>c
    <2>5. On(t, o.rwa, o.units) \in Int
      BY <1>5, OnInt
    <2>6. /\ Free(R, t) \in Int /\ Free(B, t) \in Int /\ Free(Books, t) \in Int
      BY <1>11, <1>14, FreeInt, MoneyFacts
    <2>7. /\ ClaimSum(push, t) \in Int /\ ClaimSum(push', t) \in Int
          /\ EscrowSum(order, t) \in Int
          /\ Escrowed(t) = EscrowSum(order, t) /\ Claims(t) = ClaimSum(push, t)
      BY <1>13, <1>15, SumsNat, MoneyFacts
    <2>8. QED
      BY <2>1, <2>2, <2>3, <2>4, <2>5, <2>6, <2>7
  <1>17. ASSUME NEW t \in Tokens, NEW a \in Accounts \ {ME}
         PROVE  R.bal[t][a] >= 0 /\ R.bal[t][a] >= bal[t][a]
    <2>1. R.bal[t][a] >= bal[t][a]
      BY <1>14, MoneyFacts DEF Spares
    <2>2. bal[t][a] \in Nat /\ R.bal[t][a] \in Int
      BY <1>14, MoneyFacts, FreeInt
    <2>3. QED
      BY <2>1, <2>2
  <1>18. ASSUME NEW t \in Tokens, NEW a \in Accounts PROVE R.bal[t][a] >= 0
    BY <1>14, <1>17, MoneyFacts, LedgerAssumption DEF Spares
  <1>19. /\ bal' \in [Tokens -> [Accounts -> Nat]]
         /\ owed' \in [Tokens -> [Accounts -> Nat]] /\ Backed'
    BY <1>12, <1>13, <1>14, <1>15, <1>16, <1>18, <1>c, BackedLess
  <1>20. bal' = R.bal /\ owed' = R.owed
    BY <1>12 DEF Keep
  <1>21. CapsCover'
    BY <1>2, <1>17, <1>19, <1>20, CapsStep, LedgerAssumption
  <1>22. MoneyTypes'
    BY <1>2, <1>13, <1>19, XlmType DEF MoneyTypes, PushTables
  <1>23. OrdersSound'
    BY <1>1, <1>10, OrdersStep
  <1>24. MoneyLaws'
    BY <1>13, <1>19, <1>21, <1>22, <1>23 DEF MoneyLaws
  <1>25. bal'[o.stable][o.taker] + owed'[o.stable][o.taker]
           >= bal[o.stable][o.taker] + owed[o.stable][o.taker]
                + id.min_received_amount
    <2> DEFINE s == o.stable
               a == o.taker
    <2>1. s \in Tokens /\ a \in Accounts \ {ME}
      BY <1>5, <1>7
    <2>2. B.bal[s][a] + B.owed[s][a] >= bal[s][a] + owed[s][a] + (amount - o.fee - o.tip)
      BY <1>7, <1>11
    <2> HIDE DEF s, a
    <2>3. R.bal[s][a] >= B.bal[s][a] /\ R.owed[s][a] >= B.owed[s][a]
      BY <1>14, <2>1 DEF Spares
    <2>4. /\ R.bal[s][a] \in Int /\ B.bal[s][a] \in Int /\ R.owed[s][a] \in Int
          /\ B.owed[s][a] \in Int /\ bal[s][a] \in Int /\ owed[s][a] \in Int
      BY <1>11, <1>14, <2>1, FreeInt, MoneyFacts
    <2>5. bal'[s][a] = R.bal[s][a] /\ owed'[s][a] = R.owed[s][a]
      BY <1>20
    <2> DEFINE d == amount - o.fee - o.tip
               w == id.min_received_amount
    <2>6. d \in Int /\ w \in Int /\ d >= w
      BY <1>5, <1>6, <1>7, <1>9
    <2>7. B.bal[s][a] + B.owed[s][a] >= bal[s][a] + owed[s][a] + d
      BY <2>2
    <2> HIDE DEF d, w
    <2>8. bal'[s][a] + owed'[s][a] >= bal[s][a] + owed[s][a] + w
      BY <2>3, <2>4, <2>5, <2>6, <2>7
    <2>9. QED
      BY <2>8 DEF s, a, w
  <1>26. QED
    BY <1>24, <1>25 DEF o, id

(* FAIL returns the whole escrow to the taker, or owes it.                 *)
LEMMA FailMoney ==
    ASSUME MoneyInv, SwapTypes', NEW id \in Requests, OnFail(id)
    PROVE  /\ MoneyLaws'
           /\ LET o == order[id]
              IN  bal'[o.rwa][o.taker] + owed'[o.rwa][o.taker]
                    = bal[o.rwa][o.taker] + owed[o.rwa][o.taker] + o.units
  <1> DEFINE o == order[id]
             R == SendOrHold(Books, o.rwa, o.taker, o.units)
  <1>1. /\ o # None /\ order' = [order EXCEPT ![id] = None] /\ Keep(R)
        /\ filled' = filled \ {id} /\ UNCHANGED <<used, push, payouts, xlm, now>>
    BY DEF OnFail, worldVars
  <1>2. o \in OrderRecords /\ OrderSound(id, o)
    BY <1>1, MoneyFacts DEF OrderTables, MoneyInv, MoneyLaws, OrdersSound
  <1>3. o.rwa \in Tokens /\ o.units \in Nat /\ o.taker \in Accounts
    BY <1>2 DEF OrderRecords
  <1>4. o.taker # ME
    BY <1>2, <1>3, WorldAssumption, LedgerAssumption DEF OrderSound
  <1>5. order'[id] = None /\ \A i \in Requests \ {id} : order'[i] = order[i]
    BY <1>1, MoneyFacts DEF OrderTables
  <1> HIDE DEF o
  <1>6. /\ Shifts(Books, R, o.rwa, - o.units) /\ Spares(Books, R)
        /\ o.taker # ME => R.bal[o.rwa][o.taker] + R.owed[o.rwa][o.taker]
              = Books.bal[o.rwa][o.taker] + Books.owed[o.rwa][o.taker] + o.units
    BY <1>3, MoneyFacts, SendEffect
  <1> HIDE DEF R
  <1>7. Routed(Books, R, o, push)
    BY <1>2, <1>6, MoneyFacts, RoutedOut
  <1>8. R \in BookSet /\ bal' = R.bal /\ owed' = R.owed
    BY <1>1, <1>7 DEF Routed, Keep
  <1>9. order' \in OrderTables /\ order \in OrderTables /\ push' \in PushTables
    BY <1>1, MoneyFacts DEF SwapTypes, OrderTables
  <1>10. ASSUME NEW t \in Tokens
         PROVE  Free(R, t) - EscrowSum(order', t) - ClaimSum(push', t)
                  >= Free(Books, t) - Escrowed(t) - Claims(t)
    <2>1. Free(R, t) - ClaimSum(push, t)
            >= Free(Books, t) - ClaimSum(push, t) - On(t, o.rwa, o.units)
      BY <1>7 DEF Routed
    <2>2. EscrowSum(order', t) = EscrowSum(order, t)
             + (EscrowOf(order'[id], t) - EscrowOf(order[id], t))
      BY <1>5, <1>9, EscrowMoves
    <2>3. EscrowOf(order'[id], t) = 0 /\ EscrowOf(order[id], t) = On(t, o.rwa, o.units)
      BY <1>1, <1>5 DEF EscrowOf, On, o
    <2>4. On(t, o.rwa, o.units) \in Int
      BY <1>3, OnInt
    <2>5. Free(R, t) \in Int /\ Free(Books, t) \in Int
      BY <1>8, FreeInt, MoneyFacts
    <2>6. /\ ClaimSum(push, t) \in Int /\ ClaimSum(push', t) = ClaimSum(push, t)
          /\ EscrowSum(order, t) \in Int
          /\ Escrowed(t) = EscrowSum(order, t) /\ Claims(t) = ClaimSum(push, t)
      BY <1>1, <1>9, SumsNat, MoneyFacts
    <2>7. QED
      BY <2>1, <2>2, <2>3, <2>4, <2>5, <2>6
  <1>11. ASSUME NEW t \in Tokens, NEW a \in Accounts \ {ME}
         PROVE  R.bal[t][a] >= 0 /\ R.bal[t][a] >= bal[t][a]
    <2>1. R.bal[t][a] >= bal[t][a]
      BY <1>6, MoneyFacts DEF Spares
    <2>2. bal[t][a] \in Nat /\ R.bal[t][a] \in Int
      BY <1>8, MoneyFacts, FreeInt
    <2>3. QED
      BY <2>1, <2>2
  <1>12. Balanced(R, order', push')
    <2>1. \A t \in Tokens : R.bal[t][ME] >= 0
      BY <1>6, MoneyFacts, LedgerAssumption DEF Spares
    <2>2. QED
      BY <1>8, <1>10, <1>11, <2>1 DEF Balanced
  <1>13. /\ bal' \in [Tokens -> [Accounts -> Nat]]
         /\ owed' \in [Tokens -> [Accounts -> Nat]] /\ Backed'
    <2>1. \A t \in Tokens : Losses(t)' = Losses(t)
      BY <1>1, <1>5, LossesEven DEF o
    <2>2. QED
      BY <1>1, <1>9, <1>12, <2>1, BackedStep DEF R
  <1>14. CapsCover'
    BY <1>1, <1>8, <1>11, <1>13, CapsStep, LedgerAssumption
  <1>15. MoneyTypes'
    BY <1>1, <1>9, <1>13, XlmType DEF MoneyTypes, PushTables
  <1>16. OrdersSound'
    BY <1>5, OrdersStep
  <1>17. PushesSound' /\ PayoutsSound'
    BY <1>1 DEF MoneyInv, MoneyLaws, PushesSound, PayoutsSound
  <1>18. MoneyLaws'
    BY <1>13, <1>14, <1>15, <1>16, <1>17 DEF MoneyLaws
  <1>19. bal'[o.rwa][o.taker] + owed'[o.rwa][o.taker]
           = bal[o.rwa][o.taker] + owed[o.rwa][o.taker] + o.units
    BY <1>4, <1>6, <1>8, MoneyFacts
  <1>20. QED
    BY <1>18, <1>19 DEF o

(* Books that promise what they did, have no less free and spare everyone. *)
LEMMA SparingStep ==
    ASSUME MoneyInv, NEW R \in BookSet, Keep(R), Spares(Books, R),
           \A t \in Tokens : Free(R, t) >= Free(Books, t),
           UNCHANGED <<order, filled, used, push, now, xlm>>,
           payouts' \subseteq Payouts, PayoutsSound'
    PROVE  MoneyLaws'
  <1>1. order' \in OrderTables /\ push' \in PushTables
    BY MoneyFacts
  <1>2. bal' = R.bal /\ owed' = R.owed
    BY DEF Keep
  <1>3. ASSUME NEW t \in Tokens
        PROVE  Free(R, t) - EscrowSum(order', t) - ClaimSum(push', t)
                 >= Free(Books, t) - Escrowed(t) - Claims(t)
    <2>1. /\ EscrowSum(order', t) = Escrowed(t) /\ ClaimSum(push', t) = Claims(t)
          /\ Escrowed(t) \in Int /\ Claims(t) \in Int
      BY MoneyFacts
    <2>2. Free(R, t) \in Int /\ Free(Books, t) \in Int /\ Free(R, t) >= Free(Books, t)
      BY FreeInt, MoneyFacts
    <2>3. QED
      BY <2>1, <2>2
  <1>4. ASSUME NEW t \in Tokens, NEW a \in Accounts \ {ME}
        PROVE  R.bal[t][a] >= 0 /\ R.bal[t][a] >= bal[t][a]
    <2>1. R.bal[t][a] >= bal[t][a]
      BY MoneyFacts DEF Spares
    <2>2. bal[t][a] \in Nat /\ R.bal[t][a] \in Int
      BY MoneyFacts, FreeInt
    <2>3. QED
      BY <2>1, <2>2
  <1>5. Balanced(R, order', push')
    <2>1. \A t \in Tokens : Books.bal[t][ME] >= 0
      BY MoneyFacts, LedgerAssumption
    <2>2. \A t \in Tokens : R.bal[t][ME] >= 0
      BY <2>1 DEF Spares
    <2>3. QED
      BY <1>3, <1>4, <2>2 DEF Balanced
  <1>6. /\ bal' \in [Tokens -> [Accounts -> Nat]]
        /\ owed' \in [Tokens -> [Accounts -> Nat]] /\ Backed'
    BY <1>1, <1>5, LossesKept, BackedStep
  <1>7. CapsCover'
    BY <1>2, <1>4, <1>6, CapsStep, LedgerAssumption
  <1>8. MoneyTypes'
    BY <1>1, <1>6, XlmType DEF MoneyTypes, PushTables
  <1>9. OrdersSound' /\ PushesSound'
    BY DEF MoneyInv, MoneyLaws, OrdersSound, PushesSound
  <1>10. QED
    BY <1>6, <1>7, <1>8, <1>9 DEF MoneyLaws

(* The relayer's tip is part of the amount.                                *)
LEMMA TipPart ==
    ASSUME NEW x \in Nat, NEW y \in Nat
    PROVE  Min({x, y}) \in Nat /\ Min({x, y}) <= y
  <1>1. \E z \in {x, y} : \A w \in {x, y} : z <= w
    <2>1. CASE x <= y
      BY <2>1
    <2>2. CASE y <= x
      BY <2>2
    <2>3. QED
      BY <2>1, <2>2
  <1>2. Min({x, y}) \in {x, y} /\ \A w \in {x, y} : Min({x, y}) <= w
    BY <1>1 DEF Min
  <1>3. QED
    BY <1>2

(* PAYOUT: what arrived is shared between the relayer and the maker.       *)
LEMMA ForwardMoney ==
    ASSUME MoneyInv, NEW m \in payouts, NEW r \in RelayersHere,
           ForwardPayout(m, r)
    PROVE  MoneyLaws'
  <1> DEFINE token == Link[m.token]
             amount == m.amount * Unit[token]
             tip == IF r = None THEN 0 ELSE Min({Tip("away", token), amount})
             who == Or(r, m.to)
             b0 == Arrived(token, amount)
             b1 == SendOrHold(b0, token, who, tip)
             R == SendOrHold(b1, token, m.to, amount - tip)
  <1>0. m \in Payouts /\ Link[m.token] # None
    BY XlmType DEF MoneyInv, MoneyLaws, PayoutsSound
  <1>1. m.token \in Tokens /\ m.amount \in Nat /\ m.to \in Accounts
    BY <1>0 DEF Payouts
  <1>2. token \in Tokens
    BY <1>0, <1>1, LedgerAssumption
  <1>3. /\ Keep(R) /\ payouts' = payouts \ {m}
        /\ UNCHANGED <<order, filled, used, push, now, xlm>>
    BY DEF ForwardPayout, swapVars, worldVars
  <1>4. who \in Accounts
    BY <1>1, LedgerAssumption DEF Or, RelayersHere
  <1> HIDE DEF token, who
  <1>5. Unit[token] \in Nat
    BY <1>2, WorldAssumption
  <1>6. amount \in Nat
    BY <1>1, <1>5
  <1>7. Tip("away", token) \in Nat
    <2>1. TipOn("away") \in Slots /\ TipOn("away")[1] = "tip"
      BY DEF Slots, Chains, TipOn
    <2>2. setting[TipOn("away")] \in Nat
      BY <2>1 DEF MoneyInv, Inv, SettingsSound, SoundSetting
    <2>3. QED
      BY <1>5, <2>2 DEF Tip
  <1> HIDE DEF amount
  <1>8. tip \in Nat /\ tip <= amount
    BY <1>6, <1>7, TipPart
  <1> HIDE DEF tip
  <1>9. amount - tip \in Nat
    BY <1>6, <1>8
  <1>10. Shifts(Books, b0, token, amount) /\ Spares(Books, b0)
    BY <1>2, <1>6, ArrivedEffect, MoneyFacts
  <1>11. b0 \in BookSet
    BY <1>10 DEF Shifts
  <1> HIDE DEF b0
  <1>12. Shifts(b0, b1, token, -tip) /\ Spares(b0, b1)
    BY <1>2, <1>4, <1>8, <1>11, SendEffect
  <1>13. b1 \in BookSet
    BY <1>12 DEF Shifts
  <1> HIDE DEF b1
  <1>14. Shifts(b1, R, token, -(amount - tip)) /\ Spares(b1, R)
    BY <1>1, <1>2, <1>9, <1>13, SendEffect
  <1>15. R \in BookSet
    BY <1>14 DEF Shifts
  <1> HIDE DEF R
  <1>16. ASSUME NEW t \in Tokens PROVE Free(R, t) >= Free(Books, t)
    <2>1. /\ Free(b0, t) >= Free(Books, t) + On(t, token, amount)
          /\ Free(b1, t) >= Free(b0, t) + On(t, token, -tip)
          /\ Free(R, t) >= Free(b1, t) + On(t, token, -(amount - tip))
      BY <1>10, <1>12, <1>14 DEF Shifts
    <2>2. /\ Free(Books, t) \in Int /\ Free(b0, t) \in Int /\ Free(b1, t) \in Int
          /\ Free(R, t) \in Int
      BY <1>11, <1>13, <1>15, FreeInt, MoneyFacts
    <2>3. CASE t = token
      BY <1>6, <1>8, <2>1, <2>2, <2>3 DEF On
    <2>4. CASE t # token
      BY <2>1, <2>2, <2>4 DEF On
    <2>5. QED
      BY <2>3, <2>4
  <1>17. Spares(Books, R)
    <2>1. Spares(Books, b1)
      BY <1>10, <1>11, <1>12, <1>13, SparesBoth, MoneyFacts
    <2>2. QED
      BY <1>13, <1>14, <1>15, <2>1, SparesBoth, MoneyFacts
  <1>18. payouts' \subseteq Payouts /\ PayoutsSound'
    BY <1>3, XlmType DEF MoneyInv, MoneyLaws, PayoutsSound
  <1>19. QED
    BY <1>3, <1>15, <1>16, <1>17, <1>18, SparingStep DEF R

(* Dust is part of the amount.                                             *)
LEMMA DustPart ==
    ASSUME NEW x \in Nat, NEW u \in Nat \ {0}
    PROVE  x - (x % u) \in Nat /\ x - (x % u) <= x
  <1>1. x % u \in Nat /\ x % u <= x
    OBVIOUS
  <1>2. QED
    BY <1>1

(* withdraw pays a debt.                                                   *)
LEMMA WithdrawMoney ==
    ASSUME MoneyInv, NEW to \in Accounts, NEW token \in Tokens,
           Withdraw(to, token)
    PROVE  MoneyLaws'
  <1> DEFINE n == owed[token][to]
             moved == Move(bal, token, ME, to, n)
             cleared == [owed EXCEPT ![token][to] = 0]
             R == [bal |-> moved, owed |-> cleared]
  <1>0. bal \in Ledger /\ owed \in DebtBook /\ ME \in Accounts
    BY MoneyFacts, LedgerAssumption
  <1>1. n \in Nat
    BY MoneyFacts
  <1>2. /\ bal' = moved /\ owed' = cleared
        /\ bal[token][ME] >= n
        /\ UNCHANGED <<order, filled, used, push, payouts, now, xlm>>
    BY DEF Withdraw, CanSend, swapVars, worldVars
  <1>3. /\ cleared \in DebtBook /\ cleared[token][to] = 0
        /\ \A t \in Tokens, a \in Accounts :
              t # token \/ a # to => cleared[t][a] = owed[t][a]
    BY <1>0 DEF DebtBook
  <1>4. cleared[token][to] = owed[token][to] + (-n)
    BY <1>1, <1>3
  <1> HIDE DEF n, cleared
  <1>5. /\ moved \in Ledger
        /\ \A t \in Tokens, a \in Accounts : moved[t][a] = bal[t][a]
              - Part(t, a, token, ME, n) + Part(t, a, token, to, n)
    BY <1>0, <1>1, MoveEffect
  <1> HIDE DEF moved
  <1>6. R \in BookSet /\ R.bal = moved /\ R.owed = cleared
    BY <1>3, <1>5 DEF BookSet
  <1> HIDE DEF R
  <1>7. ASSUME NEW t \in Tokens
        PROVE  Free(R, t) - EscrowSum(order', t) - ClaimSum(push', t)
                 >= Free(Books, t) - Escrowed(t) - Claims(t)
    <2>1. SumOver(cleared[t], Accounts) = SumOver(owed[t], Accounts) + On(t, token, -n)
      BY <1>0, <1>1, <1>3, <1>4, OweEffect
    <2>2. On(t, token, -n) = - On(t, token, n) /\ On(t, token, n) \in Nat
      BY <1>1 DEF On
    <2>3. bal[t][ME] \in Int
      BY <1>0, MoneyFacts
    <2>4. moved[t][ME] \in Int /\ moved[t][ME] >= bal[t][ME] - On(t, token, n)
      BY <1>0, <1>1, <1>5, <2>3 DEF On, Part
    <2>5. SumOver(owed[t], Accounts) \in Nat
      BY FreeInt, MoneyFacts
    <2>6. Free(Books, t) = bal[t][ME] - SumOver(owed[t], Accounts)
      BY MoneyFacts DEF Free
    <2>7. Free(R, t) = moved[t][ME] - SumOver(cleared[t], Accounts)
      BY <1>6 DEF Free
    <2>8. /\ EscrowSum(order', t) = Escrowed(t) /\ ClaimSum(push', t) = Claims(t)
          /\ Escrowed(t) \in Int /\ Claims(t) \in Int
      BY <1>2, MoneyFacts
    <2>9. QED
      BY <2>1, <2>2, <2>3, <2>4, <2>5, <2>6, <2>7, <2>8
  <1>8. ASSUME NEW t \in Tokens, NEW a \in Accounts \ {ME}
        PROVE  moved[t][a] >= 0 /\ moved[t][a] >= bal[t][a]
    <2>1. bal[t][a] \in Nat
      BY MoneyFacts
    <2>2. QED
      BY <1>1, <1>5, <2>1 DEF Part
  <1>9. Balanced(R, order', push') /\ Keep(R)
    <2>1. ASSUME NEW t \in Tokens PROVE moved[t][ME] >= 0
      <3>1. bal[t][ME] \in Nat
        BY <1>0, MoneyFacts
      <3>2. QED
        BY <1>0, <1>1, <1>2, <1>5, <3>1 DEF Part
    <2>2. QED
      BY <1>2, <1>6, <1>7, <1>8, <2>1 DEF Balanced, Keep
  <1>10. order' \in OrderTables /\ push' \in PushTables
    BY <1>2, MoneyFacts
  <1>11. /\ bal' \in [Tokens -> [Accounts -> Nat]]
         /\ owed' \in [Tokens -> [Accounts -> Nat]] /\ Backed'
    BY <1>2, <1>9, <1>10, LossesKept, BackedStep
  <1>12. CapsCover'
    BY <1>2, <1>8, <1>11, CapsStep, LedgerAssumption
  <1>13. MoneyTypes'
    BY <1>2, <1>10, <1>11, XlmType DEF MoneyTypes, PushTables
  <1>14. OrdersSound' /\ PushesSound' /\ PayoutsSound'
    BY <1>2 DEF MoneyInv, MoneyLaws, OrdersSound, PushesSound, PayoutsSound
  <1>15. QED
    BY <1>11, <1>12, <1>13, <1>14 DEF MoneyLaws

(* The books after `push`: the claim yields, is burnt, what came back in   *)
(* kind goes to the recipient and the stable into the bridge.              *)
LEMMA PushBooks ==
    ASSUME MoneyInv, NEW p \in PushRecords, p # None, NEW r \in Redemptions,
           NEW n \in Nat, n <= On(p.stable, PaysIn[p.vault], r.paid),
           r.returned <= bal[p.rwa][p.vault], p.rwa \notin Away,
           bal[Ct[p.vault]][ME] >= p.units, NEW R,
           R = Burn(SendOrHold(Burn(Claimed(p, r), Ct[p.vault], p.units),
                               p.rwa, p.recipient, r.returned), p.stable, n)
    PROVE  /\ R \in BookSet
           /\ \A t \in Tokens : Free(R, t) >= Free(Books, t) - ClaimOf(p, t)
           /\ \A t \in Tokens, a \in Accounts \ {ME} :
                 /\ R.bal[t][a] >= 0
                 /\ t \in Away => R.bal[t][a] >= bal[t][a]
           /\ \A t \in Tokens : R.bal[t][ME] >= 0
  <1> DEFINE v == p.vault
             rwa == p.rwa
             s == p.stable
             y == p.units
             k == Ct[v]
             h == PaysIn[v]
             x == r.paid
             z == r.returned
             C0 == Claimed(p, r)
             C1 == Burn(C0, k, y)
             C2 == SendOrHold(C1, rwa, p.recipient, z)
  <1>1. /\ v \in Vaults /\ rwa \in Tokens /\ s \in Tokens /\ y \in Nat
        /\ p.recipient \in Accounts
    BY DEF PushRecords
  <1>2. k \in Tokens /\ h \in Tokens /\ x \in Nat /\ z \in Nat
    BY <1>1, LedgerAssumption
  <1>3. /\ C0 \in BookSet
        /\ \A t \in Tokens : Free(C0, t) >= Free(Books, t) + On(t, rwa, z) + On(t, h, x)
        /\ \A t \in Tokens, a \in Accounts \ {ME} :
              /\ C0.bal[t][a] >= bal[t][a] - Part(t, a, rwa, v, z)
              /\ C0.owed[t][a] = owed[t][a]
        /\ \A t \in Tokens :
              C0.bal[t][ME] = bal[t][ME] + On(t, rwa, z) + On(t, h, x)
    BY MoneyFacts, ClaimedEffect
  <1>4. R = Burn(C2, s, n) /\ n <= On(s, h, x) /\ z <= bal[rwa][v]
        /\ rwa \notin Away /\ bal[k][ME] >= y
    OBVIOUS
  <1>5. \A t : ClaimOf(p, t) = On(t, k, y)
    BY DEF ClaimOf, On
  <1> HIDE DEF v, rwa, s, y, k, h, x, z
  <1> HIDE DEF C0
  <1>a. ASSUME NEW t \in Tokens
        PROVE  /\ bal[t][ME] \in Nat /\ On(t, rwa, z) \in Nat
               /\ On(t, h, x) \in Nat /\ On(t, k, y) \in Nat
               /\ bal[t][ME] >= On(t, k, y)
    <2>1. bal[t][ME] \in Nat
      BY MoneyFacts, LedgerAssumption
    <2>2. QED
      BY <1>1, <1>2, <1>4, <2>1 DEF On
  <1>b. C0.bal[k][ME] >= y
    BY <1>1, <1>2, <1>3, <1>4, <1>a
  <1>6. /\ Shifts(C0, C1, k, -y) /\ Spares(C0, C1)
        /\ \A t \in Tokens : C1.bal[t][ME] = C0.bal[t][ME] - On(t, k, y)
    BY <1>1, <1>2, <1>3, <1>b, BurnEffect
  <1>7. C1 \in BookSet
    BY <1>6 DEF Shifts
  <1> HIDE DEF C1
  <1>8. /\ Shifts(C1, C2, rwa, -z) /\ Spares(C1, C2)
        /\ \A t \in Tokens : C2.bal[t][ME] >= C1.bal[t][ME] - On(t, rwa, z)
    BY <1>1, <1>2, <1>7, SendEffect
  <1>9. C2 \in BookSet
    BY <1>8 DEF Shifts
  <1> HIDE DEF C2
  <1>c. ASSUME NEW t \in Tokens
        PROVE  C2.bal[t][ME] \in Int /\ C2.bal[t][ME] >= On(t, h, x)
    <2>1. /\ C0.bal[t][ME] = bal[t][ME] + On(t, rwa, z) + On(t, h, x)
          /\ C1.bal[t][ME] = C0.bal[t][ME] - On(t, k, y)
          /\ C2.bal[t][ME] >= C1.bal[t][ME] - On(t, rwa, z)
      BY <1>3, <1>6, <1>8
    <2>2. C2.bal[t][ME] \in Int
      BY <1>9, FreeInt, LedgerAssumption
    <2>3. QED
      BY <1>a, <2>1, <2>2
  <1>d. C2.bal[s][ME] >= n
    <2>1. C2.bal[s][ME] \in Int /\ C2.bal[s][ME] >= On(s, h, x) /\ On(s, h, x) \in Nat
      BY <1>1, <1>a, <1>c
    <2>2. QED
      BY <1>4, <2>1
  <1>10. /\ Shifts(C2, R, s, -n) /\ Spares(C2, R)
    BY <1>1, <1>4, <1>9, <1>d, BurnEffect
  <1>11. R \in BookSet
    BY <1>10 DEF Shifts
  <1>12. ASSUME NEW t \in Tokens PROVE Free(R, t) >= Free(Books, t) - On(t, k, y)
    <2>1. /\ Free(C0, t) >= Free(Books, t) + On(t, rwa, z) + On(t, h, x)
          /\ Free(C1, t) >= Free(C0, t) + On(t, k, -y)
          /\ Free(C2, t) >= Free(C1, t) + On(t, rwa, -z)
          /\ Free(R, t) >= Free(C2, t) + On(t, s, -n)
      BY <1>3, <1>6, <1>8, <1>10 DEF Shifts
    <2>2. /\ On(t, k, -y) = - On(t, k, y) /\ On(t, k, y) \in Int
          /\ On(t, rwa, -z) = - On(t, rwa, z) /\ On(t, rwa, z) \in Int
          /\ On(t, s, -n) = - On(t, s, n) /\ On(t, s, n) \in Int
          /\ On(t, h, x) \in Int
      BY <1>1, <1>2 DEF On
    <2>3. On(t, s, n) <= On(t, h, x)
      BY <1>2, <1>4 DEF On
    <2>4. /\ Free(Books, t) \in Int /\ Free(C0, t) \in Int /\ Free(C1, t) \in Int
          /\ Free(C2, t) \in Int /\ Free(R, t) \in Int
      BY <1>3, <1>7, <1>9, <1>11, FreeInt, MoneyFacts
    <2>5. QED
      BY <2>1, <2>2, <2>3, <2>4
  <1>13. ASSUME NEW t \in Tokens PROVE Free(R, t) >= Free(Books, t) - ClaimOf(p, t)
    BY <1>5, <1>12
  <1>14. ASSUME NEW t \in Tokens, NEW a \in Accounts \ {ME}
         PROVE  R.bal[t][a] >= 0 /\ (t \in Away => R.bal[t][a] >= bal[t][a])
    <2>1. Spares(C0, C2)
      BY <1>3, <1>6, <1>7, <1>8, <1>9, SparesBoth
    <2>2. Spares(C0, R)
      BY <1>3, <1>9, <1>10, <1>11, <2>1, SparesBoth
    <2>3. R.bal[t][a] >= C0.bal[t][a]
      BY <2>2 DEF Spares
    <2>4. C0.bal[t][a] >= bal[t][a] - Part(t, a, rwa, v, z)
      BY <1>3
    <2>5. R.bal[t][a] \in Int /\ C0.bal[t][a] \in Int /\ bal[t][a] \in Nat
      BY <1>3, <1>11, FreeInt, MoneyFacts
    <2>6. Part(t, a, rwa, v, z) \in Nat /\ Part(t, a, rwa, v, z) <= bal[t][a]
      BY <1>2, <1>4, <2>5 DEF Part
    <2>7. t \in Away => Part(t, a, rwa, v, z) = 0
      BY <1>4 DEF Part
    <2>8. QED
      BY <2>3, <2>4, <2>5, <2>6, <2>7
  <1>15. ASSUME NEW t \in Tokens PROVE R.bal[t][ME] >= 0
    BY <1>10, <1>a, <1>c DEF Spares
  <1>16. QED
    BY <1>11, <1>13, <1>14, <1>15

(* `push` closes a claim: what its batch yielded goes on to the recipient  *)
(* and, over the bridge, to the maker.                                     *)
LEMMA PushMoney ==
    ASSUME MoneyInv, NEW id \in Requests, NEW r \in Redemptions,
           PushProceeds(id, r)
    PROVE  MoneyLaws'
  <1> DEFINE p == push[id]
             paid == IF PaysIn[p.vault] = p.stable THEN r.paid ELSE 0
             n == paid - (paid % Unit[p.stable])
             R == Burn(SendOrHold(Burn(Claimed(p, r), Ct[p.vault], p.units),
                                  p.rwa, p.recipient, r.returned), p.stable, n)
             out == Payout(id, p.stable, n, p.maker)
  <1>1. /\ p # None /\ push' = [push EXCEPT ![id] = None]
        /\ r.returned <= bal[p.rwa][p.vault] /\ Keep(R)
        /\ bal[Ct[p.vault]][ME] >= p.units
        /\ payouts' = payouts \cup {out}
        /\ UNCHANGED <<order, filled, used, now, xlm>>
    BY DEF PushProceeds, ClosePush, swapVars, worldVars
  <1>2. p \in PushRecords
    BY <1>1, MoneyFacts DEF PushTables
  <1>3. /\ p.vault \in Vaults /\ p.stable \in Tokens /\ p.maker \in Accounts
    BY <1>2 DEF PushRecords
  <1>4. p.rwa \notin Away /\ Link[p.stable] # None
    BY <1>1 DEF MoneyInv, MoneyLaws, PushesSound
  <1>5. push'[id] = None /\ \A i \in Requests \ {id} : push'[i] = push[i]
    BY <1>1, MoneyFacts DEF PushTables
  <1>6. paid \in Nat /\ paid = On(p.stable, PaysIn[p.vault], r.paid)
    BY LedgerAssumption DEF On
  <1>7. n \in Nat /\ n <= paid
    <2>1. PICK u \in Nat \ {0} : u = Unit[p.stable]
      BY <1>3, WorldAssumption
    <2> HIDE DEF paid
    <2>2. QED
      BY <1>6, <2>1, DustPart
  <1>8. n <= On(p.stable, PaysIn[p.vault], r.paid)
    BY <1>6, <1>7
  <1> HIDE DEF p, paid, n
  <1>9. /\ R \in BookSet
        /\ \A t \in Tokens : Free(R, t) >= Free(Books, t) - ClaimOf(p, t)
        /\ \A t \in Tokens, a \in Accounts \ {ME} :
              /\ R.bal[t][a] >= 0
              /\ t \in Away => R.bal[t][a] >= bal[t][a]
        /\ \A t \in Tokens : R.bal[t][ME] >= 0
    BY <1>1, <1>2, <1>4, <1>7, <1>8, PushBooks
  <1>10. out \in Payouts /\ out.token = p.stable
    BY <1>3, <1>7, PayoutType
  <1> HIDE DEF R, out
  <1>11. order' \in OrderTables /\ push' \in PushTables
    BY <1>1, MoneyFacts DEF PushTables
  <1>12. ASSUME NEW t \in Tokens
         PROVE  Free(R, t) - EscrowSum(order', t) - ClaimSum(push', t)
                  >= Free(Books, t) - Escrowed(t) - Claims(t)
    <2>1. ClaimSum(push', t)
            = ClaimSum(push, t) + (ClaimOf(push'[id], t) - ClaimOf(push[id], t))
      BY <1>5, <1>11, ClaimMoves, MoneyFacts
    <2>2. ClaimOf(push'[id], t) = 0 /\ ClaimOf(push[id], t) = ClaimOf(p, t)
      BY <1>5 DEF ClaimOf, p
    <2>3. /\ EscrowSum(order', t) = Escrowed(t) /\ ClaimSum(push, t) = Claims(t)
          /\ Escrowed(t) \in Int /\ Claims(t) \in Int
      BY <1>1, MoneyFacts
    <2>4. ClaimOf(p, t) \in Int
      BY <1>2, ClaimNat
    <2>5. /\ Free(R, t) \in Int /\ Free(Books, t) \in Int
          /\ Free(R, t) >= Free(Books, t) - ClaimOf(p, t)
      BY <1>9, FreeInt, MoneyFacts
    <2>6. QED
      BY <2>1, <2>2, <2>3, <2>4, <2>5
  <1>13. Balanced(R, order', push')
    BY <1>9, <1>12 DEF Balanced
  <1>14. /\ bal' \in [Tokens -> [Accounts -> Nat]]
         /\ owed' \in [Tokens -> [Accounts -> Nat]] /\ Backed'
    BY <1>1, <1>11, <1>13, LossesKept, BackedStep
  <1>15. CapsCover'
    <2>1. \A t \in Away, a \in Accounts \ {ME} : bal'[t][a] >= bal[t][a]
      BY <1>1, <1>9, LedgerAssumption DEF Keep
    <2>2. QED
      BY <1>1, <1>14, <2>1, CapsStep
  <1>16. payouts' \subseteq Payouts /\ PayoutsSound'
    BY <1>1, <1>4, <1>10, XlmType DEF MoneyInv, MoneyLaws, PayoutsSound
  <1>17. MoneyTypes'
    BY <1>1, <1>11, <1>14, <1>16, XlmType DEF MoneyTypes, PushTables
  <1>18. OrdersSound' /\ PushesSound'
    BY <1>1, <1>5 DEF MoneyInv, MoneyLaws, OrdersSound, PushesSound
  <1>19. QED
    BY <1>14, <1>15, <1>16, <1>17, <1>18 DEF MoneyLaws

-----------------------------------------------------------------------------
(* The invariant of the money                                              *)

(* A route comes into force only through `accept`, which checks it again.  *)
LEMMA RoutesStep ==
    ASSUME MoneyInv, [Next]_vars
    PROVE  RoutesCarried'
  <1>1. CASE setting' = setting
    BY <1>1 DEF MoneyInv, RoutesCarried
  <1>2. ASSUME NEW s \in Slots, Accept(s), NEW t \in Tokens,
               setting'[RouteOf(t)] # None
        PROVE  Link[t] # None
    <2>1. setting' = [setting EXCEPT ![s] = pending[s].to]
      BY <1>2 DEF Accept
    <2>2. RouteOf(t) \in Slots /\ RouteOf(t)[1] = "route" /\ RouteOf(t)[2] = t
      BY DEF Slots, RouteOf
    <2>3. setting = [x \in Slots |-> setting[x]]
      BY DEF MoneyInv, Inv, SettingsSound
    <2>4. CASE s = RouteOf(t)
      <3>1. setting'[RouteOf(t)] = pending[s].to
        BY <2>1, <2>2, <2>3, <2>4
      <3>2. pending[s].to # None /\ CheckChange([slot |-> s, to |-> pending[s].to])
        BY <1>2, <3>1 DEF Accept
      <3>3. IF Cctp THEN Link[t] = pending[s].to ELSE Link[t] # None
        BY <2>2, <2>4, <3>2 DEF CheckChange
      <3>4. QED
        BY <3>2, <3>3
    <2>5. CASE s # RouteOf(t)
      <3>1. setting'[RouteOf(t)] = setting[RouteOf(t)]
        BY <2>1, <2>2, <2>3, <2>5
      <3>2. QED
        BY <1>2, <3>1 DEF MoneyInv, RoutesCarried
    <2>6. QED
      BY <2>4, <2>5
  <1>3. ASSUME NEW s \in Slots, Accept(s) PROVE RoutesCarried'
    BY <1>2, <1>3 DEF RoutesCarried
  <1>4. ASSUME NEW c, Submit(c) \/ Revoke(c) PROVE setting' = setting
    BY <1>4 DEF Submit, Revoke
  <1>5. UNCHANGED govVars => setting' = setting
    BY DEF govVars
  <1>6. QED
    BY <1>1, <1>3, <1>4, <1>5, WhoGoverns, Zenon

(* Keys are registered by their makers only.                               *)
LEMMA KeysStep ==
    ASSUME MoneyInv, [Next]_vars
    PROVE  KeysSound'
  <1>1. CASE registered' = registered
    BY <1>1 DEF MoneyInv, KeysSound
  <1>2. ASSUME NEW d \in Delegations, RegisterOrderSigner(d) PROVE KeysSound'
    BY <1>2 DEF RegisterOrderSigner, MoneyInv, KeysSound
  <1>3. QED
    BY <1>1, <1>2, WhoGoverns, Zenon

(* Before anything is filled nothing is promised, and nobody has paid.     *)
LEMMA InitMoney == Init => MoneyInv
  <1> SUFFICES ASSUME Init PROVE MoneyInv
    OBVIOUS
  <1>1. Inv
    BY InitInv
  <1>2. RoutesCarried
    BY GovernanceAssumption DEF Init, RoutesCarried
  <1>3. KeysSound
    BY DEF Init, KeysSound
  <1>4. MoneyTypes
    BY LedgerAssumption DEF Init, MoneyTypes
  <1>5. OrdersSound /\ PushesSound /\ PayoutsSound
    BY DEF Init, OrdersSound, PushesSound, PayoutsSound
  <1>6. Backed
    <2> SUFFICES ASSUME NEW t \in Tokens
                 PROVE  Free(Books, t) + Losses(t)
                          >= InitialBalances[t][ME] + Escrowed(t) + Claims(t)
      BY DEF Backed
    <2> DEFINE E == [id \in Requests |-> EscrowOf(order[id], t)]
               C == [id \in Requests |-> ClaimOf(push[id], t)]
    <2>1. \A id \in Requests : E[id] = 0 /\ C[id] = 0
      BY DEF Init, EscrowOf, ClaimOf
    <2>2. Escrowed(t) = SumOver(E, Requests) /\ Claims(t) = SumOver(C, Requests)
      BY DEF Escrowed, Claims
    <2>3. \A a \in Accounts : owed[t][a] = 0
      BY DEF Init
    <2> HIDE DEF E, C
    <2>4. SumOver(E, Requests) = 0 /\ SumOver(C, Requests) = 0
      BY <2>1, SumZero, LedgerAssumption
    <2>5. SumOver(owed[t], Accounts) = 0
      BY <2>3, SumZero, LedgerAssumption
    <2>6. Free(Books, t) = bal[t][ME] - SumOver(owed[t], Accounts)
      BY DEF Free, Books
    <2>7. bal[t][ME] = InitialBalances[t][ME] /\ bal[t][ME] \in Nat
      BY LedgerAssumption DEF Init
    <2>8. QED
      BY <2>2, <2>4, <2>5, <2>6, <2>7, LossesNat
  <1>7. CapsCover
    <2> SUFFICES ASSUME NEW t \in Away, NEW a \in Accounts \ {ME}
                 PROVE  InitialBalances[t][a] - bal[t][a] <= SignedCap(t, a)
      BY DEF CapsCover
    <2>1. used = {}
      BY DEF Init
    <2>2. SignedCap(t, a) = 0
      BY <2>1, SumEmpty DEF SignedCap
    <2>3. bal[t][a] = InitialBalances[t][a] /\ InitialBalances[t][a] \in Nat
      BY LedgerAssumption DEF Init
    <2>4. QED
      BY <2>2, <2>3
  <1>8. QED
    BY <1>1, <1>2, <1>3, <1>4, <1>5, <1>6, <1>7 DEF MoneyInv, MoneyLaws

(* Every step keeps it.                                                    *)
LEMMA NextMoney == MoneyInv /\ [Next]_vars => MoneyInv'
  <1> SUFFICES ASSUME MoneyInv, [Next]_vars PROVE MoneyInv'
    OBVIOUS
  <1>1. Inv' /\ SwapTypes'
    BY NextInv DEF MoneyInv, Inv
  <1>2. ASSUME UNCHANGED <<order, filled, used, push, owed, payouts, bal, now, xlm>>
        PROVE  MoneyLaws'
    <2>1. now' \in 0 .. MaxTime /\ xlm' \in [Chains -> Nat]
      BY <1>2, XlmType
    <2>2. QED
      BY <1>2, <2>1, QuietMoney
  <1>3. ASSUME NEW id \in Requests, NEW bid \in Bids, NEW q \in Quotes,
               NEW sig, Fill(id, bid, q, sig)
        PROVE  MoneyLaws'
    BY <1>1, <1>3, FillMoney
  <1>4. ASSUME Deliver PROVE MoneyLaws'
    <2>1. ASSUME NEW m \in fills, LzReceiveFill(m) PROVE MoneyLaws'
      <3>1. m \in Fills
        BY DEF MoneyInv, Inv, SwapTypes
      <3>2. m.id \in Requests /\ m.bid \in Bids /\ m.amount \in Nat
        BY <3>1 DEF Fills
      <3>3. QED
        BY <2>1, <3>2, AnswerMoney DEF LzReceiveFill
    <2>2. ASSUME NEW m \in fills, HandleFill(m) PROVE MoneyLaws'
      BY <1>2, <2>2 DEF HandleFill, moneyVars, worldVars
    <2>3. ASSUME NEW m \in inbox, Execute(m) PROVE MoneyLaws'
      <3>1. m \in Bodies
        BY DEF MoneyInv, Inv, SwapTypes
      <3>2. m.id \in Requests /\ m.bid \in Bids /\ m.amount \in Nat
        BY <3>1 DEF Bodies
      <3>3. QED
        BY <2>3, <3>2, AnswerMoney DEF Execute
    <2>4. ASSUME NEW m \in paids, NEW r \in RelayersHere, SettlePaid(m, r)
          PROVE  MoneyLaws'
      BY <1>1, <2>4, SettleMoney
    <2>5. ASSUME NEW id \in Requests, OnFail(id) PROVE MoneyLaws'
      BY <1>1, <2>5, FailMoney
    <2>6. ASSUME NEW m \in payouts, NEW r \in RelayersHere, ForwardPayout(m, r)
          PROVE  MoneyLaws'
      BY <2>6, ForwardMoney
    <2>7. QED
      BY <1>4, <2>1, <2>2, <2>3, <2>4, <2>5, <2>6, Zenon DEF Deliver
  <1>5. ASSUME Govern PROVE MoneyLaws'
    <2>1. ASSUME NEW c, Submit(c) \/ Accept(c) \/ Revoke(c) PROVE MoneyLaws'
      BY <1>2, <2>1 DEF Submit, Accept, Revoke, swapVars, moneyVars, worldVars
    <2>2. ASSUME NEW chain \in Chains, NEW n \in Sweeps, Sweep(chain, n)
          PROVE  MoneyLaws'
      <3>1. n \in Nat /\ xlm \in [Chains -> Nat] /\ now \in 0 .. MaxTime
        BY XlmType, LedgerAssumption
      <3>2. xlm' \in [Chains -> Nat]
        BY <2>2, <3>1 DEF Sweep
      <3>3. UNCHANGED <<order, filled, used, push, owed, payouts, bal, now>>
        BY <2>2 DEF Sweep, swapVars, worldVars
      <3>4. QED
        BY <3>1, <3>2, <3>3, QuietMoney
    <2>3. ASSUME NEW chain \in Chains, TopUp(chain) PROVE MoneyLaws'
      <3>1. xlm \in [Chains -> Nat] /\ now \in 0 .. MaxTime
        BY XlmType
      <3>2. xlm' \in [Chains -> Nat]
        BY <2>3, <3>1 DEF TopUp
      <3>3. UNCHANGED <<order, filled, used, push, owed, payouts, bal, now>>
        BY <2>3 DEF TopUp, swapVars, worldVars
      <3>4. QED
        BY <3>1, <3>2, <3>3, QuietMoney
    <2>4. QED
      BY <1>5, <2>1, <2>2, <2>3, Zenon DEF Govern
  <1>6. ASSUME NEW id \in Requests, NEW r \in Redemptions, PushProceeds(id, r)
        PROVE  MoneyLaws'
    BY <1>6, PushMoney
  <1>7. ASSUME NEW a \in Accounts, NEW t \in Tokens, Withdraw(a, t)
        PROVE  MoneyLaws'
    BY <1>7, WithdrawMoney
  <1>8. ASSUME NEW d, RegisterOrderSigner(d) \/ CancelSalt(d) \/ Refuse(d)
        PROVE  MoneyLaws'
    BY <1>2, <1>8 DEF RegisterOrderSigner, CancelSalt, Refuse, swapVars,
       moneyVars, worldVars
  <1>9. ASSUME Tick PROVE MoneyLaws'
    <2>1. now' \in 0 .. MaxTime /\ xlm' \in [Chains -> Nat]
      BY <1>9, XlmType, LedgerAssumption DEF Tick, moneyVars
    <2>2. UNCHANGED <<order, filled, used, push, owed, payouts, bal>>
      BY <1>9 DEF Tick, swapVars, moneyVars
    <2>3. QED
      BY <2>1, <2>2, QuietMoney
  <1>10. ASSUME UNCHANGED vars PROVE MoneyLaws'
    BY <1>2, <1>10 DEF vars
  <1>11. MoneyLaws'
    <2>1. ASSUME Next PROVE MoneyLaws'
      BY <1>3, <1>4, <1>5, <1>6, <1>7, <1>8, <1>9, <2>1, Zenon DEF Next
    <2>2. QED
      BY <1>10, <2>1
  <1>12. QED
    BY <1>1, <1>11, RoutesStep, KeysStep DEF MoneyInv

(* No table of either contract holds what it should not, and no balance,   *)
(* debt or XLM count goes negative: each pull is checked, and each burn    *)
(* and payment is of something the contract was given (lib.rs fill, pay,   *)
(* on_funds, on_fail, push, withdraw).                                     *)
THEOREM BooksStayTyped == Spec => []TypeOK
  <1>1. MoneyInv => TypeOK
    BY DEF MoneyInv, Inv, MoneyLaws, TypeOK
  <1>2. QED
    BY <1>1, InitMoney, NextMoney, PTL DEF Spec

(* Token by token, each contract holds every escrow, every claim and every *)
(* debt at once, whatever transfers are refused, whichever vault or route  *)
(* is changed while an order is open, except for what settled requests     *)
(* with a negative minimum may have cost it (lib.rs quote, on_funds,       *)
(* send_or_hold, route_rwa).                                               *)
THEOREM PromisesBacked == Spec => []Solvent
  <1>1. ASSUME MoneyInv, NEW t \in Tokens
        PROVE  bal[t][ME] + Losses(t) >= Escrowed(t) + Claims(t) + Debts(t)
    <2>1. Free(Books, t) + Losses(t) >= InitialBalances[t][ME] + Escrowed(t) + Claims(t)
      BY <1>1 DEF MoneyInv, MoneyLaws, Backed
    <2>2. Free(Books, t) = bal[t][ME] - Debts(t)
      BY <1>1, MoneyFacts DEF Free, Debts
    <2>3. bal[t][ME] \in Nat /\ Escrowed(t) \in Nat /\ Claims(t) \in Nat
      BY <1>1, MoneyFacts, LedgerAssumption
    <2>4. Debts(t) \in Nat
      BY <1>1, MoneyFacts, FreeInt DEF Debts
    <2>5. InitialBalances[t][ME] \in Nat /\ Losses(t) \in Nat
      BY LossesNat, LedgerAssumption
    <2>6. QED
      BY <2>1, <2>2, <2>3, <2>4, <2>5
  <1>2. MoneyInv => Solvent
    BY <1>1 DEF Solvent, TypeOK, MoneyInv, Inv, MoneyLaws
  <1>3. QED
    BY <1>2, InitMoney, NextMoney, PTL DEF Spec

(* A maker's away tokens leave its account only for a bid that it signed,  *)
(* up to that bid's cap and once per bid (lib.rs pay, Key::Used).          *)
THEOREM MakersBounded == Spec => []MakerLossBounded
  <1>1. ASSUME MoneyInv, NEW t \in Away, NEW b \in Bids
        PROVE  InitialBalances[t][b.maker] - bal[t][b.maker] <= SignedCap(t, b.maker)
    <2>1. b.maker \in Accounts /\ t \in Tokens
      BY WorldAssumption, LedgerAssumption
    <2>2. CASE b.maker # ME
      BY <1>1, <2>1, <2>2 DEF MoneyInv, MoneyLaws, CapsCover
    <2>3. CASE b.maker = ME
      <3>0. Losses(t) = 0
        <4> DEFINE F == [id \in Requests |-> LossOn(id, t)]
        <4>1. \A id \in Requests : F[id] = 0
          BY <1>1, WorldAssumption DEF LossOn
        <4>2. Losses(t) = SumOver(F, Requests)
          BY DEF Losses
        <4> HIDE DEF F
        <4>3. QED
          BY <4>1, <4>2, SumZero, LedgerAssumption
      <3>1. Free(Books, t) + Losses(t)
              >= InitialBalances[t][ME] + Escrowed(t) + Claims(t)
        BY <1>1, <2>1 DEF MoneyInv, MoneyLaws, Backed
      <3>2. Free(Books, t) = bal[t][ME] - SumOver(owed[t], Accounts)
        BY <1>1, <2>1, MoneyFacts DEF Free
      <3>3. bal[t][ME] \in Nat /\ Escrowed(t) \in Nat /\ Claims(t) \in Nat
        BY <1>1, <2>1, MoneyFacts, LedgerAssumption
      <3>4. SumOver(owed[t], Accounts) \in Nat
        BY <1>1, <2>1, MoneyFacts, FreeInt
      <3>5. InitialBalances[t][ME] \in Nat
        BY <2>1, LedgerAssumption
      <3>6. SignedCap(t, ME) \in Nat
        BY <1>1, <2>1, CapNat
      <3>7. InitialBalances[t][ME] - bal[t][ME] <= 0
        BY <3>0, <3>1, <3>2, <3>3, <3>4, <3>5
      <3>8. QED
        BY <2>3, <3>3, <3>5, <3>6, <3>7
    <2>4. QED
      BY <2>2, <2>3
  <1>2. MoneyInv => MakerLossBounded
    BY <1>1 DEF MakerLossBounded
  <1>3. QED
    BY <1>2, InitMoney, NextMoney, PTL DEF Spec

(* An order closes when its payment is shared out or its fill fails, and   *)
(* in no other way.                                                        *)
LEMMA WhoCloses ==
    ASSUME MoneyInv, [Next]_vars, NEW id \in Requests, order[id] # None,
           order'[id] = None
    PROVE  \/ \E m \in paids, r \in RelayersHere : m.id = id /\ SettlePaid(m, r)
           \/ OnFail(id)
  <1>0. order \in OrderTables
    BY MoneyFacts
  <1>1. order' # order
    OBVIOUS
  <1>2. ASSUME NEW i \in Requests, NEW bid \in Bids, NEW q \in Quotes, NEW sig,
               Fill(i, bid, q, sig)
        PROVE  FALSE
    <2>1. OrderOf(i, bid, q) # None /\ order' = [order EXCEPT ![i] = OrderOf(i, bid, q)]
      BY <1>2, FillSound DEF Fill
    <2>2. QED
      BY <1>0, <2>1 DEF OrderTables
  <1>3. ASSUME NEW m \in paids, NEW r \in RelayersHere, SettlePaid(m, r)
        PROVE  m.id = id
    BY <1>0, <1>3 DEF SettlePaid, OrderTables
  <1>4. ASSUME NEW i \in Requests, OnFail(i) PROVE i = id
    BY <1>0, <1>4 DEF OnFail, OrderTables
  <1>5. ~Govern
    BY <1>1 DEF Govern, Submit, Accept, Revoke, Sweep, TopUp, swapVars
  <1>6. ASSUME Deliver
        PROVE  \/ \E m \in paids, r \in RelayersHere : m.id = id /\ SettlePaid(m, r)
               \/ OnFail(id)
    <2>1. ASSUME NEW m, LzReceiveFill(m) \/ HandleFill(m) \/ Execute(m) PROVE FALSE
      BY <1>1, <2>1 DEF LzReceiveFill, HandleFill, Execute, OnFill
    <2>2. ASSUME NEW m, NEW r, ForwardPayout(m, r) PROVE FALSE
      BY <1>1, <2>2 DEF ForwardPayout, swapVars
    <2>3. QED
      BY <1>3, <1>4, <1>6, <2>1, <2>2, Zenon DEF Deliver
  <1>7. ASSUME NEW i, NEW r, PushProceeds(i, r) PROVE FALSE
    BY <1>1, <1>7 DEF PushProceeds, swapVars
  <1>8. ASSUME NEW a, NEW t, Withdraw(a, t) PROVE FALSE
    BY <1>1, <1>8 DEF Withdraw, swapVars
  <1>9. ASSUME NEW d, RegisterOrderSigner(d) \/ CancelSalt(d) \/ Refuse(d)
        PROVE  FALSE
    BY <1>1, <1>9 DEF RegisterOrderSigner, CancelSalt, Refuse, swapVars
  <1>10. ~Tick /\ ~UNCHANGED vars
    BY <1>1 DEF Tick, swapVars, vars
  <1>11. QED
    BY <1>2, <1>5, <1>6, <1>7, <1>8, <1>9, <1>10, Zenon DEF Next

(* An order never closes without its taker being made whole in that step,  *)
(* by what it signed for or by all of its RWA (lib.rs on_funds, on_fail).  *)
THEOREM TakersWhole == Spec => TakerMadeWhole
  <1> DEFINE A == \A id \in Requests :
                     (order[id] # None /\ order'[id] = None) =>
                        LET o == order[id]
                            Gain(t) == bal'[t][o.taker] + owed'[t][o.taker]
                                         - bal[t][o.taker] - owed[t][o.taker]
                        IN  \/ id \in filled' /\ Gain(o.stable) >= id.min_received_amount
                            \/ id \notin filled' /\ Gain(o.rwa) >= o.units
  <1>1. ASSUME MoneyInv, [Next]_vars PROVE [A]_vars
    <2> SUFFICES ASSUME NEW id \in Requests, order[id] # None, order'[id] = None
                 PROVE  LET o == order[id]
                            Gain(t) == bal'[t][o.taker] + owed'[t][o.taker]
                                         - bal[t][o.taker] - owed[t][o.taker]
                        IN  \/ id \in filled' /\ Gain(o.stable) >= id.min_received_amount
                            \/ id \notin filled' /\ Gain(o.rwa) >= o.units
      OBVIOUS
    <2> DEFINE o == order[id]
               a == o.taker
    <2>1. o \in OrderRecords
      BY <1>1, MoneyFacts DEF OrderTables
    <2>2. o.stable \in Tokens /\ o.rwa \in Tokens /\ a \in Accounts /\ o.units \in Nat
      BY <2>1 DEF OrderRecords
    <2>3. id \in filled
      BY <1>1 DEF MoneyInv, Inv, SwapStages, Stage, Idle, Travelling, Parked,
         Failing, Paying, Settled, Open, Closed
    <2>4. MoneyInv' /\ SwapTypes'
      BY <1>1, NextMoney DEF MoneyInv, Inv
    <2>5. \A t \in Tokens : /\ bal[t][a] \in Nat /\ owed[t][a] \in Nat
                            /\ bal'[t][a] \in Nat /\ owed'[t][a] \in Nat
      <3>1. \A t \in Tokens : bal[t][a] \in Nat /\ owed[t][a] \in Nat
        BY <1>1, <2>2, MoneyFacts
      <3>2. /\ bal' \in [Tokens -> [Accounts -> Nat]]
            /\ owed' \in [Tokens -> [Accounts -> Nat]]
        BY <2>4 DEF MoneyInv, MoneyLaws, MoneyTypes
      <3> HIDE DEF a
      <3>3. QED
        BY <2>2, <3>1, <3>2
    <2>6. id.min_received_amount \in Int
      BY WorldAssumption
    <2>7. ASSUME NEW m \in paids, NEW r \in RelayersHere, m.id = id, SettlePaid(m, r)
          PROVE  /\ id \in filled'
                 /\ bal'[o.stable][a] + owed'[o.stable][a]
                      >= bal[o.stable][a] + owed[o.stable][a] + id.min_received_amount
      <3>1. filled' = filled
        BY <2>7 DEF SettlePaid
      <3>2. LET x == order[m.id]
            IN  bal'[x.stable][x.taker] + owed'[x.stable][x.taker]
                  >= bal[x.stable][x.taker] + owed[x.stable][x.taker]
                       + m.id.min_received_amount
        BY <1>1, <2>4, <2>7, SettleMoney
      <3>3. QED
        BY <2>3, <2>7, <3>1, <3>2
    <2>8. ASSUME OnFail(id)
          PROVE  /\ id \notin filled'
                 /\ bal'[o.rwa][a] + owed'[o.rwa][a]
                      = bal[o.rwa][a] + owed[o.rwa][a] + o.units
      <3>1. id \notin filled'
        BY <2>8 DEF OnFail
      <3>2. bal'[o.rwa][a] + owed'[o.rwa][a] = bal[o.rwa][a] + owed[o.rwa][a] + o.units
        BY <1>1, <2>4, <2>8, FailMoney
      <3>3. QED
        BY <3>1, <3>2
    <2>9. \/ \E m \in paids, r \in RelayersHere : m.id = id /\ SettlePaid(m, r)
          \/ OnFail(id)
      BY <1>1, WhoCloses
    <2> DEFINE G(t) == bal'[t][a] + owed'[t][a] - bal[t][a] - owed[t][a]
    <2>10. CASE \E m \in paids, r \in RelayersHere : m.id = id /\ SettlePaid(m, r)
      <3>1. /\ id \in filled'
            /\ bal'[o.stable][a] + owed'[o.stable][a]
                 >= bal[o.stable][a] + owed[o.stable][a] + id.min_received_amount
        BY <2>7, <2>10
      <3> HIDE DEF a, o
      <3>2. G(o.stable) >= id.min_received_amount
        BY <2>2, <2>5, <2>6, <3>1
      <3>3. QED
        BY <3>1, <3>2 DEF a, o
    <2>11. CASE OnFail(id)
      <3>1. /\ id \notin filled'
            /\ bal'[o.rwa][a] + owed'[o.rwa][a] = bal[o.rwa][a] + owed[o.rwa][a] + o.units
        BY <2>8, <2>11
      <3> HIDE DEF a, o
      <3>2. G(o.rwa) >= o.units
        BY <2>2, <2>5, <3>1
      <3>3. QED
        BY <3>1, <3>2 DEF a, o
    <2>12. QED
      BY <2>9, <2>10, <2>11
  <1>2. TakerMadeWhole <=> [][A]_vars
    BY DEF TakerMadeWhole
  <1> HIDE DEF A
  <1>3. QED
    BY <1>1, <1>2, InitMoney, NextMoney, PTL DEF Spec

=============================================================================
