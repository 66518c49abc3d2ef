# Verification of the Stellar RFQ contracts

TLA+ models of the RFQ protocol's Soroban contracts, the TLC runs that check
them on small instances, and TLAPS proofs of the properties that matter most for
every instance. Paths are relative to the repository (`contracts/...` is
`src/contracts/...` in `PROJECT.json`).

## The system

Holders of redeemable real-world assets (RWA) sell them for stablecoins to
makers who price the wait until redemption. All of the protocol's own logic is in
Soroban contracts. A contract call is atomic: it runs to its end or panics, and a
panic undoes everything. The hard behaviours are therefore not data races but
sequences of calls by parties who do not trust each other, values read in one
call and used in a later one, rounding that repeats over many slices, tokens and
recipients that misbehave, governance that acts in the middle, and, across
chains, messages between two contracts that never see each other's storage.

### Inventory

| Component | State | Operations | What makes it correct |
|---|---|---|---|
| RFQ settlement, `contracts/rfq` | fills per order and per request, cancelled salts, registered hot keys, Dutch listings with their escrow, config, pause | `fill_rfq_order`, `fill_fixed_order`, `register_order_signer`, `cancel_salt`, `create/fill/cancel_dutch_order`, `set_config`, `set_paused` | no overfill; each party's pro-rata price bound over any split; cancellation and key withdrawal bite; escrow covered; an ask only falls; the seller can always leave |
| RFQ pricing, `rfq/src/price.rs`, `crates/common/src/schedule.rs` | oracle per pair, fallback price with epoch, redemption schedule, reference, keepers | `push_price`, `set_schedule`, `set_oracle`, `set_reference`, `set_keeper` | a stale or superseded price is never used; a keeper's pushes stay in bounds over a ledger; a schedule always gives a horizon |
| Push oracle, `contracts/oracles/push_oracle` | last price of a pair, updaters, deviation | `push`, `set_updater`, `set_max_deviation` | an updater's moves are paced by the source's time |
| Shared arithmetic, `crates/common/src/math.rs` | none | `mul_div`, `mul_div_ceil` | rounding directions, splitting |
| Cross-chain settlement, `contracts/crosschain_settle` | open orders, filled and used marks, pushes, debts, parked messages, routes, vaults, peers, config | `fill`, FILL, FAIL, PAID and PAYOUT handlers of two transports, `execute`, `complete`, `push`, `withdraw`, `sweep`, `submit/accept/revoke` | atomic swap over two chains; no double payment; solvency; every escrow ends |
| Timelock, `crates/common/src/timelock.rs` | pending change per slot, delay, guardian | `submit`, `accept`, `revoke` | nothing takes effect before its delay |
| Redemption vault, `contracts/redemption_vault`, `claim_token`, `redemption_account` | batches, totals, busy accounts, claim tokens | `request_redeem`, `cancel`, `redeem_batch`, `settle`, `reopen`, `withdraw_batch`, `settle_manual`, `claim`, `add_accounts` | totals equal the sums they cache; an account serves one batch; claims never exceed proceeds |
| Shares, `crates/shares` | balances, supply, high-water mark, allowlist, frozen accounts | mint, burn, transfer, seize, accrue, conversions | rounding always favours the pool; a gain is charged for once |
| Vault, `contracts/vault` | share ledger, idle asset, venues in order, fee, cap | SEP-56 entry points, `allocate`, `deallocate`, `set_venue_order`, `disable_venue`, compliance, timelock | the share price falls only by a venue's loss; `max_withdraw` is honest |
| Facility, `contracts/facility` | oLP ledger, positions in its vaults, terms per RWA, open redemptions, locked gain | `deposit`, `withdraw`, `redeem`, `trade`, `book`, `settle`, `write_down`, `remove_rwa`, timelock, pause | a gain vests; exits stay open; what the queue is owed stays reserved |
| Withdrawal queue, `contracts/queue` | positions, head and tail, escrowed oLP | `request`, `process`, `cancel` | order, conservation, no head that blocks for ever |
| Router, `contracts/router` | registered sources, pause | `fill` over several legs | minimum out over the route, nothing left behind |
| DEX aggregator, `contracts/aggregators/dex` | fees owed and their total, allowlists, fees, pause | `swap`, `swap_calls`, `fill`, `claim` | its balance covers what is owed |
| Facility aggregator, `contracts/aggregators/facility` | active facilities, fee, pause; registry of deployments | `swap`, `fill`, `set_active`, `set_fee` | keeps nothing of a trade |
| Feed oracle, adapters, verifiers, faucet, test token, mocks, keeper service, SDK, scripts | thin or off-chain | | not modelled, see the end |

Interactions: `crosschain_settle` asks `rfq` for quotes, hot keys and cancelled
salts and a redemption vault for redemptions; a facility deposits in a base vault
and in one vault per RWA; the queue burns the facility's shares; the router calls
`rfq` and the two aggregators, which call facilities and DEX venues.

## Modules

| Module | Models |
|---|---|
| `CommonMath` | `mul_div`, `mul_div_ceil` |
| `Sums` | the sum of a function over a finite set |
| `ArithmeticTheorems` | what rounding, sums and loops do, proved |
| `Rfq` | the settlement contract: state, 9 entry points, clock |
| `RfqProofs` | its types, price bounds, cancellations, signatures and escrow, proved |
| `Pricing` | oracles, fallback prices, keepers and schedules of the settlement contract, and the push oracle |
| `PricingProofs` | its three properties, proved |
| `AtomicSwap` | abstract: what a cross-chain request promises its two parties |
| `CrossSettle` | two peer contracts, both transports, bridge, timelock; refines `AtomicSwap` |
| `CrossSettleProofs` | the swap's stages, its safety, the refinement and the balances, proved |
| `RedemptionVault` | the redemption vault with its batches' claim tokens and its accounts, and the issuer |
| `VaultProofs` | its books, accounts, batches and claims, proved |
| `Shares` | the share ledger as operators, used by the next two |
| `PoolVault` | the vault over its venues |
| `PoolVaultProofs` | its shares, price, mark and exits, proved |
| `Facility` | the facility over its vaults |
| `WithdrawalQueue` | the queue composed with its facility |
| `QueueProofs` | their types and ledger, the queue's backing and order, and the exits, proved |
| `DexAggregator` | the DEX aggregator's routes and fees, as operators on a call's books |
| `Routing` | the router composed with both aggregators |
| `RoutingProofs` | its two properties, proved |
| `MCRfq`, `MCPricing`, `MCCrossSettle`, `MCVault`, `MCPoolVault`, `MCFacility`, `MCRouting` | small instances |

Everywhere an entry point is one action and a panic is a step not taken. The
definitions that precede a definition under a similar name (`FreeForAll` before
`Free`) are faulty variants of it, kept to show that the properties notice them;
nothing uses them.

### Rfq

A storage table is a variable of the same name (`filled`, `request_filled`,
`salt_cancelled`, `signers`, `listings`); an entry point is an action of the same
name in CamelCase, its conjuncts in the code's order, and a panic is a step not
taken. A digest stands for the struct it hashes. `Request(o)` is the leading half
of an order, so two bids on one request share a counter as they do in storage.
Signing happens off chain: `Signatures` is the set of pairs a key has signed, and
`Verify` looks up hot keys when the fill happens. Tokens in `Skewed` credit any
amount from nothing to one more than was sent, in both legs. `deliver` clamps the
measured gain and `pay` does not, as in the code. The price, horizon and rate
ceiling are any member of `Markets`, chosen for every fill: nothing proved here
relies on the oracle. `paid`, `got` and `request_got` are histories.

### CrossSettle

`home` is the taker's chain and `away` the maker's; each runs the same contract.
FILL, FAIL, PAID and PAYOUT in flight are variables, delivered once each, in any
order, after any delay. A delivery that reverts leaves its message in place: both
transports let anyone retry. `Cctp` selects the transport: `lz_receive` answers a
FILL in the delivering call and pays the reply from the contract's own XLM,
CCTP parks it under its body's hash until `execute`. The contract's own tokens
are threaded through `SendOrHold`, which pays or records a debt exactly as
`send_or_hold` does. Settings change through `Submit`, `Accept` and `Revoke`,
and PAID reads them anew, as `route_rwa` does. The quote is any member of
`Quotes`. Of the redemption vault the calls that settlement makes are here: a
redemption (`CanRedeem`, `Redeem`) is refused while the vault is paused, removed or
closed to the contract by its claim token's gate, and PAID then reverts; a claim
(`Claimed`) yields what its settled batch has for it, chosen from `Redemptions`.
`denied` is what refuses a transfer at the moment, and a vault that is paused. The
tokens, the bridge and the maker's RFQ contract are external and modelled from their
use. One assumption about them matters: `fill` asks the OFT to quote a CROSS_DELIVER
send, and the quote is taken to refuse an amount with dust (`QuoteSend`).
`docs/CROSSCHAIN_SETTLEMENT.md:124-126` says that this is not yet verified on
Stellar's OFT; without it a dusty amount would be found at settlement, and PAID would
revert on every retry with the maker's money taken.

### RedemptionVault

`batch` and `ct` are sequences over batch ids, so `Key::Next` is their length
plus one; `open`, `totals`, `accounts` and `busy` are the storage keys of those
names. Holders call `RequestRedeem`, `Cancel`, `Claim` and trade or burn the claim
token (`TransferCt`, `BurnCt`: SEP-41 gives every holder `burn`). The settler calls
`RedeemBatch` (`Resend` when the batch is already sent), `Reopen` and `Settle`, the
operator `WithdrawBatch` and `SettleManual`. Verified calls move tokens between the
issuer and an account; the model lets the issuer do that at any time
(`IssuerSends`), early, late, in parts or to an account whose batch has settled, so
the calls inside `settle` and `reopen` are issuer steps before them. `redeem_batch`
refuses calls that take any amount but what is sent, so there they are a transfer
to the issuer. NAV is any member of `Navs`, 0 for no reading. Settings, skims and
the delay go through the timelock. `Governed` says which of its powers the admin
uses in an instance, `Recipients` whom holders may name beside themselves,
`Burners` who burns a claim token directly, in both runs one of the holders. Left
out: roles (fixed), a skim of a claim token, `min_proceeds` (the settler's own choice),
and the reads.

### Pricing

The prices that `Rfq` takes as given. A read is an operator (`PriceOf`,
`Horizon`), because other contracts read at any state. The admin, one keeper and
one updater push and configure, over a clock; a keeper's calls pass
`CheckPriceMove` and `CheckKeeperShift`, the admin's do not, as in the code. Pair
oracles are the push oracle's feeds. `against`, `opened` and `paced` are histories:
in which reference and when a fallback was stated, forgotten by any later
`set_reference`, also by one back to the same asset; what it was when the ledger
opened; and how many moves of a feed its updater has made. `NeverRetiredPrice`
compares a price in use with that history, not with the epoch and the time that the
code stores beside the price.

### Shares and PoolVault

`Shares` has no state: a ledger is a record, an operator returns the ledger after
a call, and a predicate `Can...` says when the call does not revert. A fee that is
due is part of every snapshot, minted or not, as in `snapshot`. `PoolVault` holds
the ledger, the idle asset and two adapters with what they hold and what they can
pay; `Drawn` is what `send` takes of each in order. Venues gain, lose and lock up
between calls, the asset may tax a transfer in, anyone may donate. A fee, a cap and
a venue go through the timelock without a clock: a pending change may be accepted
at any later step.

### Facility and WithdrawalQueue

`vault` is the facility's view of each of its vaults (assets, its shares, what can
be paid now), priced with the arithmetic of `Shares`; `lock` is the linear unlock
of `Key::Locked`. A trade in either direction or between two RWAs is one action,
`Trade`, that takes the input, checks the cap against the NAV before it, pays and
books the gain. Anyone may trade and name any recipient; all recipients but one are
alike for the facility. The one is the queue's address, for which `free` does not
keep back the reserve: base sent there has no way out, and `sunk` counts it. oLP, too,
may be transferred to the queue without a request, and stays there. The oracle's price
moves and goes stale, and the base vault gains, loses and runs out of liquidity, at any
time. `WithdrawalQueue` extends it with the
positions. `process` is one transaction of several redemptions, so `Served` turns
over the positions from the head, each against the facility the one before left.

### DexAggregator and Routing

A route is one transaction over several contracts: its operators work on books
(balances, fees owed, and whether anything reverted) and `Commit` makes them the
next state if nothing did. What the outside pays and takes along a route
(`MARKET`: venues, calldata routers, makers, facilities) is part of the route, so
that a venue that pays nothing, a router that takes less than it may and a maker
that takes more than the leg are all tried. A direct swap pays whom it names
(`desc.to`, `recipient`), which may be the router or an aggregator; `gifts` counts
that, and what is sent to a contract outside any call, for the properties. Calldata
may aim at a token contract if an admin has allowed it as a target. The token then
obeys the aggregator, which is its caller, without any auth entry, and may be told to
approve someone (`approved`), who takes from the aggregator at any later step
(`Transfer`). The code refuses the two tokens of the swap as targets and no other,
so a token that is allowed as a target is at the mercy of swaps between two others:
it is `Exposed`, and the properties leave the DEX aggregator's balance of it out. With
two tokens, as in the run, none is exposed: every call on a token is one the code
refuses, and what the refusal is for is checked in full. More tokens, and calls on a
third one that go through, are left to the proof. A split, a route of splits, a list of
calls and a route of legs are recursive functions of the turn they have come to, as
`for` loops are; the contracts' own addresses may be named as partners and then are
owed fees, but only who can authorise a claim makes one, which none of them does.

## Runs

| Run | Checks | Shows |
|---|---|---|
| `rfq_fills` | `NoOverfill`, `MakerProRata`, `TakerProRata`, `CancelledNeverFills`, `OfflineDebitsAreSigned` | two bids on one request and an open fixed order, every split and order of slices, an RWA that taxes or over-credits, moving prices, salts cancelled and a hot key coming and going |
| `rfq_dutch` | `EscrowCovered`, `SellerCanCancel`, `AskOnlyFalls`, `SellerMadeWhole` | two live listings at a time, in tokens that tax and over-credit, while the admin moves the decay window, the fees and the pause |
| `pricing` | `NeverRetiredPrice`, `PushersPaced`, `HorizonForGood` | pushes and feeds over four seconds, references changed and changed back, keepers' schedules at the edges of validity |
| `cross_lz` | `PaymentCoversQuote`, `ImplementsSwap`, `OrdersResolve`, `PaidSettles` | LayerZero: two requests, DELIVER and CROSS_DELIVER, refills after FAIL, a hot key, a cancelled salt, bids that expire, XLM swept and topped up; every escrow ends and every payment settles |
| `cross_cctp` | `SwapStages`, `Solvent`, `MakerLossBounded`, `TakerMadeWhole`, `OrdersResolve`, `PaidSettles` | CCTP: parked FILLs, refills, relayer tips, both redemptions, a request signed with a negative minimum, a vault paused, unpaused and replaced in flight, a taker that refuses its payout; the contract is short of its promises by no more than the negative minimum, and every escrow ends and every payment settles unless its redemption is refused for ever |
| `cross_loss` | `FullyBacked`, violated | a request signed with a negative minimum settles with fee and tip above its payment |
| `vault_auto` | `BooksBalance`, `AccountsExclusive`, `NothingStranded`, `ClaimsNeverDilute` | AUTO: two batches over two accounts, one added late; partial and full returns, resends, a fee, payments at any moment, a claim token burnt directly, skims between any two steps |
| `vault_modes` | `SettlesAsSent`, `HoldersCanLeave` | AUTO to MANUAL with and without a strike, a gate lifted, pauses, claim tokens traded and burnt, NAV missing or read late |
| `pool_vault` | `SharesAccountedFor`, `MaxWithdrawHonest`, `PriceNeverFalls`, `MarkNeverFalls` | deposits, mints and exits over two venues that gain, lose and lock up, fees raised after a gain, freezes and seizures, venues reordered and disabled |
| `facility` | `QueueBacked`, `ExitsOpen`, `FirstComeFirstServed`, `ReservedForQueue`, `GainsVest` | two providers and the queue over trades both ways, redemptions settled and written down, gains that vest, governance, pauses, prices and vaults that move, oLP and a trade's base sent to the queue itself |
| `queue_head` | `ProcessServes`, violated | a head position of dust makes `process` revert for everyone |
| `routing` | `OwedCovered`, `NothingLeftBehind` | routes of up to two legs over settlement, DEX aggregator and facility, direct swaps that pay the user, the router or the DEX aggregator, calldata aimed at a token of the swap, partners' fees, claims, tokens sent to a contract, and every admin change |

**Bounds.** Amounts are the smallest for which every division rounds: an order of 4
units at ceilings 10 and 9 and floor 5, discounts and fees in tenths, a home stable
of two units per wire unit and an away one of one, a request of three units whose
wire amount has dust. Two bids on a request are enough for a race and two requests
for one contract's shared balances. `MaxTries = 2` fills a request again after a
FAIL, with the same bid (the same body in the CCTP inbox) or another. `MaxTime`
passes every decay window and, in `cross_lz`, one of the bids' deadlines; of the two
requests there the later salt expires first, so that one expires and one is still open
at the end. `MaxListings = 2` gives an escrow that another could eat. `MaxXlm` and
`Sweeps` let each contract run dry and be topped up. The redemption vault has two
holders (one with more than the other), two batches, so that a reopened one is open
beside a newer one, and two accounts, so that one can be recycled while the other is
busy. Three units of RWA, fees and floors in halves and an issuer that pays two
units make shares, fees and floors round. `NothingStranded` is about the step that
ends a settled batch's claim token: a claim, or a direct burn, which the code allows
and which alone may leave proceeds behind (see Findings).

In `rfq_fills` the RWA is the token that credits short or over; the stable is exact,
so the missing clamp of `pay` (Findings) is not met there. The named taker of the two
bids is one of the submitters, so of `OfflineDebitsAreSigned` the maker's branch does
most of the work. In `rfq_dutch` the RWA is again the skewed token, and listings sell
and ask for either token. `cross_cctp` has one redemption of each kind, a vault that is
paused and resumed at will and may be replaced once, and a request with a minimum of
minus three units, for which a quote is also accepted whose fee and tip are above the
payment. Its clock stands still (`cross_lz` has the deadlines): a FILL fails there
because the maker has money for one of the two requests. A vault that is removed is
left to the proofs. `cross_loss` is that request alone.

In `pool_vault` the virtual shares (3) and the price scale (6) are of the size of the
assets (3), so that conversions, marks and fees round on nearly every step; two
venues are enough for an exit that draws on both and for an order that matters.
`facility` has one RWA worth three units of base, so that a trade, a settlement and
a write-down each move the NAV by more than rounding, two positions in the queue, so
that the head can be served in part while another waits, and one event (a change of
rules, price or yield): an accepted change needs its submission, a missing price may
always come back. Amounts of a token are 1 and 3, lots of oLP 1 and 2. `queue_head` is
the same instance with amounts of 2 as well and a second virtual share, which makes oLP
worth less than a unit from the start. `pricing` has four seconds against a longest horizon of three and cycles of two and three, so that a schedule
is read before, on and past its date and after a whole cycle; an interval of 0 shows
what the floor of one ledger is for. `routing` has fees in halves, two units of each
token and one change: it takes one to alter a fee between two swaps, to disallow a
venue or to leave a gift in a contract. A swap names as its recipient the user, the
router or the DEX aggregator; the facility aggregator is sent tokens by `Transfer`
only, and as a recipient it is left to the proof. Symmetry is used where accounts have
no roles: the two adapters of `pool_vault` and the two providers of `facility`.

**Deadlock** is not checked in the cross-chain runs: nobody has to fill, so the
system may stop. It is checked in the others.

**Fairness** (`LiveSpec`). Deliveries of FILL, `execute` and PAID are strongly
fair: a delivery that reverts, for example because XLM was swept in between, can
be retried by anyone, and both an executor and the party waiting for its money
will. Parking a FILL and FAIL's delivery cannot be disabled once enabled, so weak
fairness is enough. Someone tops up a contract whose XLM is short: README and
`docs/CROSSCHAIN_SETTLEMENT.md` make that the operator's job. No fairness is put
on fills, pushes, withdrawals, claims or governance, and none on a vault's pause:
`OrdersResolve` and `PaidSettles` claim nothing of a redemption that is refused from
some moment on for ever. They ask that the redemption be possible again and again
(`[]<>RedemptionOpen(id)`), not that it stays possible, and of deliveries that redeem
nothing they ask nothing.

## What is proved

All proofs are checked by TLAPS for every value of the constants that satisfies
the named assumptions, and so for any number of orders, holders, batches, venues
and steps. What the assumptions say:

* `Rfq`: amounts are integers, scales positive, addresses are addresses, and there
  are finitely many orders; the settlement contract signs nothing and submits
  nothing. Zero and negative amounts in signed orders are allowed, the code refuses
  them.
* `CrossSettle`: decimals at least the wire's; signed and quoted amounts not
  negative, but for a request's minimum, which may be any number; a request sells a
  token of its own chain and its taker is not the contract, which never authorises a
  `fill`, has no key and registers none; accounts, requests and bids are finitely many.
  A route names the token the bridge turns back
  into this one, which CCTP's `check_route` enforces and which is trusted to
  governance under LayerZero, and so is that a vault is one.
* `RedemptionVault`: the vault, its accounts and the parties are different
  addresses (an account is a contract of its own, deployed by the factory), holders
  are finitely many, the fee cap is at most the whole.
* `Pricing`: references are not RWAs; configurations and schedules have the
  unsigned fields of their structs.
* `Shares`, `PoolVault`: scales positive; finitely many holders and adapters; the
  fee cap is at most the whole.
* `Facility`, `WithdrawalQueue`: finitely many providers and RWAs; the curator, the
  queue and the providers are different addresses; prices, amounts, fees and terms
  have the unsigned fields of their structs.
* `DexAggregator`, `Routing`: the router, the two aggregators, the users and what is
  outside are different addresses, and the facility aggregator's fee does not go to
  one of the three contracts; fees are unsigned. Amounts in routes, legs and calls,
  and what the markets take and pay along them, are any integers: the code refuses
  the negative ones.

**`ArithmeticTheorems`** has the rounding lemmas (`SplittingNeverGains` among them:
two slices' `mul_div` never sum to more than the whole's), what a sum over a finite
set does when a term changes, joins or leaves, and that a loop which keeps to a set
of states runs to its end (`RunExists`). `SumOver` is a recursive function over
subsets; the lemmas about it take a smallest subset for which they fail, which the
library's well-foundedness of strict inclusion provides. A loop is a recursive
function of its turn, and `EveryTurn` does the same for turns: what holds at first and
is kept by a turn holds at the last.

**`RfqProofs`.**

* `TypeCorrect`: types, and no balance below zero. `FillsNeverExceed` and
  `RequestsNeverOverfilled`: no order past its size, and a request's counter is the
  sum of its bids'.
* `MakerNeverOverpays`, `TakerNeverUnderpaid`: over any number of slices, split as
  the submitter likes, at any prices, with tokens that credit less or more than
  sent, the maker has paid at most `cap * filled / size` and the taker has received
  at least `floor * filled / size`. Each is inductive with `TypeOK`: a slice adds at
  most `mul_div(cap, a, size)` to `paid`, so `paid * size` grows by at most
  `cap * a`, and `filled` by `a`; the floor likewise with `mul_div_ceil`.
* `CancellationIsFinal` and `OnlySignersPay` are about single steps in reachable
  states: a fill under a cancelled salt has no step, and an account whose balance a
  fill lowers is the submitter or has a signature that `Verify` accepts.
* `EscrowAlwaysCovered` needs more than itself. `EscrowInv` adds that a live
  listing's sizes, asks and times are those `create_dutch_order` admits
  (`ListingsSound`), that no hot key signs for the contract (else an offline order
  could spend the escrow) and that fees stay below the whole. From it:
  `EscrowAlwaysReleasable`, `AskNeverRises` and `SellerAlwaysMadeWhole`: the step that
  closes a listing credits its seller at least the ask of that moment less the fee, or
  sends back the whole escrow and moves nothing else. It holds of every token, taxed or
  not, because a fill measures what the seller was credited; of an escrow sent back it
  says what leaves the contract, not what a taxing token credits.

**`PricingProofs`.** `PricingInv`: a stored fallback is of the past, and one of the
current epoch was stated, when it says it was, in the current reference and after the
last `set_reference` (an epoch is never used twice); a
stored schedule was valid when it was set, which time cannot undo; within a ledger a
fallback is what the ledger opened with or was moved once; each second of source time
pays for one push of a feed. From it `PricesNeverRetired`, `PushersAlwaysPaced`,
`HorizonNeverRunsOut`.

**`CrossSettleProofs`.** None of the swap's properties is inductive alone:
`PaidOnce` needs to know that no second FILL is under way, which needs to know that
an order is open for each one. The inductive invariant `Inv` says that the storage of
both contracts and the messages in flight always fit one of six stages per request:
idle, FILL travelling, FILL parked, FAIL travelling, PAID travelling, settled
(`SwapStages`), and that each FILL and PAID covers its order's quote (`FillsCover`,
`PaidsCover`), with the swap's types and sound settings. From it: `OneLeg`,
`NeverPaidTwice`, `NeverUnderpaid`, and `SettlementIsAtomic`, that the two contracts
and the bridge implement `AtomicSwap` under the mapping `Phase`.

The balances have an invariant of their own, `MoneyInv`, on top of `Inv`. `Backed`:
what a contract holds beyond its debts, and what negative minimums have cost it
(`Losses`), cover what it started with, the escrows and the claims. A settlement adds
to the losses just what fee and tip may exceed the payment by; takers that sign no
negative minimum leave them at 0. `CapsCover`: nobody is down by more than the caps of
the bids paid in its name. Neither survives a step without knowing that what `fill`
checked of an order is still true of the order it stored (`OrdersSound`: the minimum
after fee and tip, a recipient, a bridged stable), that claims and payouts are of tokens
the bridge carries (`PushesSound`, `PayoutsSound`), that every route in force passed `check_route`
(`RoutesCarried`) and that no key speaks for the contract (`KeysSound`). A call
threads the books through several payments, each of which may be refused and become a
debt; every payment is a change of what is free (`Shifts`) that costs no other account
anything and does not overdraw the contract (`Spares`), and a call's effect is the sum
of those. From it: `PromisesBacked`, `MakersBounded`, and `TakersWhole`, which also
needs that only `on_funds` and `on_fail` close an order (`WhoCloses`).

**`VaultProofs`.** `VaultInv`: the totals are exact sums over the batches, the
vault's balances cover them, an account faces the issuer for one batch at most, and
every entry is sound: what its status says of its account, units, strike and
remainder, which settings it was sent under, and that its claim token adds up and
never promises more units than the batch has. Every operation is shown to be one of
three shapes (it rewrites one batch, adds one, or leaves all alone), so that the sums
are argued once per shape and not once per operation. From it `BooksAlwaysBalance`,
`AccountsAlwaysExclusive`, `BatchesSettleAsSent`, `ClaimsNeverDiluted`,
`HoldersNeverLockedIn`, and `LastClaimTakesAll`: the step that ends a settled batch's
claim token takes all that the batch has left, unless it is itself a holder's direct
burn, whatever was claimed, passed on or burnt before.

**`PoolVaultProofs`.** `PoolInv`: the supply is the sum of the balances; the list of
venues has no adapter twice; an adapter outside it holds nothing; none can return
more than it holds; what is queued is within its bounds. `SharesAlwaysAccountedFor`
and `MarkAlwaysKept` follow directly. `PriceAlwaysKept` is arithmetic about the fee:
the shares minted for it are worth no more than the fee after they are minted, so the
price stays at the mark or above it (`FeeKeepsMark`), and a step that first accrues
moves the mark to a price that no later fee can undercut. A step then keeps the price
if it keeps the ratio of assets to shares, which every conversion does, because it
rounds against the caller. `MaxWithdrawAlwaysHonest` shows that shares rounded up for
assets rounded down are no more than the holder has, and, by induction along the
list, that venues drawn on in order give what is asked or all they have
(`Waterfall`).

**`QueueProofs`.** `QueueInv`: all tables have their types, every oLP share is some
holder's (`LedgerOK`), no vault says it can pay more than it has (`VaultOK`), the
queue's own balance is at least the sum over the line (more, once oLP was sent to it
without a request), and nobody waits at or before the head (`LineOK`). The facility's
own operations are shown to keep the first three and not to lower the queue's balance,
so that only `request`, `process` and `cancel` are argued
about the line. `process` is a loop: `Good(k, w)` says of its books after k turns that
they still balance with the line as served so far, that the head has come no further
than the turn, and that whoever was touched has nobody waiting before it; `TurnGood`
is one turn of it, `ServedGood` the whole. From it `BackingHolds` and
`NobodyOvertakes`. `ExitsStayOpen` follows the guards of `withdraw` one by one: the
shares rounded up for what `max_withdraw` rounded down are no more than the holder
has, and what it promises is within what the base vault can pay after the reserve.

**`RoutingProofs`.** A route is made of transfers at several contracts, in loops within
loops, any of which may revert. The argument is one equation per part of a call.
`Own(w, c, u)` is what contract c holds of token u less the fees it owes, and
`At(a, t, n, c, u)` is n of token t at account a, seen from there; both are 0 where the
books are not kept (`Kept`: the DEX aggregator's balance of an exposed token). A
transfer moves `At` from one account to another (`SendFacts`), a fee owed takes it from
the DEX aggregator's own (`CreditFacts`), and so on up: a hop, a split and a route of splits
turn the input at the aggregator into the output at the aggregator (`HopFacts`,
`FollowFacts`, `ExecuteFacts`); calldata does so up to what is given back
(`ExecuteCallsFacts`); settling moves the output to fees owed and to the recipient,
and nothing else (`SettleFacts`). A leg of any kind, and so a route of any length,
takes what the router was given and leaves it some of the input and some of the
output (`LegFacts`, `RouteFacts`), which are exactly what the two forwards send home
(`FillNeutral`). So every call is neutral for every contract, and the invariant
`BooksInv`, that each contract's own is what it was sent or paid as a named recipient,
that the total owed is the recipients' and that only exposed tokens are approved, is
kept (`RoutingInvariant`). `TradesLeaveNothing` and
`FeesAreCovered` follow.

A direct swap is neutral but for what it pays the recipient it names, which `gifts`
takes up when that is one of the three contracts.

Only model-checked:

* liveness (`OrdersResolve`, `PaidSettles`) and `ENABLED` (`SellerCanCancel`,
  `HoldersCanLeave`), which TLAPS cannot prove; for the last two the guards of the
  actions are proved to hold (`EscrowAlwaysReleasable`, `HoldersNeverLockedIn`);
* `ReservedForQueue` and `GainsVest`, which allow one unit of rounding. In the run a
  vault share is worth about a unit; a vault whose shares have become worth several
  units rounds by that much, so with other constants the bound is not one unit, and
  there is no theorem for every value of them.

## Findings

* A negative minimum (`cross_loss`): `quote` keeps fee and tip within the payment only
  through the taker's `min_received_amount`, which nothing in cross-chain settlement
  bounds from below (the settlement contract's own fills do). With a negative one
  `on_funds` skips the taker's share and still pays, or owes, fee and tip in full, out
  of what the contract holds for others. `Solvent` says by how much at most.
* A head of dust (`queue_head`): `process` "serves up to `max` positions from the
  head with what the facility can pay now", but a head position worth less than one
  unit of base makes the facility refuse the redemption and the whole call revert,
  until its owner cancels.

Four more differences between the documents and the code, of which no run is made:

* A trade to the queue: "The facility reserves the queue's claim against every other
  exit" (the repository's `README.md:401`, `docs/FACILITY_V2_STELLAR.md:61`), but
  `trade` is open to anyone and hands the recipient it names to `free`, which lets the
  queue's address take the reserve (`contracts/facility/src/lib.rs:230,526-536`). The
  base ends at the queue, which cannot pass it on, and those who wait can be paid less.
  The model has such trades; `ReservedForQueue` says that they are the only way the
  reserve is touched, and that it shrinks by no more than they send.
* A vault replaced in flight: the rule of `check_bid`'s comment that a REDEEM_PUSH
  vault "must pay out in the fill's stable, the one `push` bridges"
  (`contracts/crosschain_settle/src/lib.rs:428-429`) is checked at `fill` and not when
  PAID reads the vault again (line 618). `push` then measures the fill's stable only,
  bridges 0 to the maker and leaves the vault's payout in the contract. `cross_cctp`
  replaces the vault so, and what is escrowed, claimed and owed stays covered.
* `pay` does not clamp: the repository's `README.md` (lines 640-643) has both legs
  "clamped to the amount sent"; only `deliver` is. With a token that credits more
  than was sent the taker's floor is met with money its maker did not send. The
  maker's bound holds all the same (`MakerNeverOverpays`).
* A claim token can be burnt by its holder, while `docs/REDEMPTION_VAULT.md:17` has
  only the vault mint and burn it. Once a batch's claim tokens are all burnt that
  way, what it holds can be neither claimed nor skimmed; the other holders can
  still leave (`vault_modes`).

## Not modelled

* Peers, the rest of the cross-chain configuration and the guardian's identity are
  fixed: a message from anyone but the peer is refused by the code before it
  changes anything.
* An OFT mints before it composes; the model mints in the settling step.
* Balances change through transfers only. A rebasing token is outside what the
  repository promises.
* The delay of the timelock in `PoolVault` and `Facility` (any later step may accept),
  share allowances (a holder acts for itself), and changes of role.
* In the facility the curator only collects its fee: it does not deposit, transfer or
  queue its oLP.
* The facility's vaults appear without fees, allowlists and caps of their own;
  `PoolVault` models those.
* What the facility aggregator deploys (vaults, facilities, queues, adapters), the
  quotes of the router and the aggregators, which are reads, and tokens that tax a
  transfer inside a route.
* Storage TTLs, events, upgrades, byte layouts (`wire.rs`, `hash.rs`) and
  signature arithmetic; a digest is taken to be injective.
* i128 overflow: `mul_div` computes in 256 bits and panics if the result does not
  fit, which is a call not made; sums of balances are bounded by token supplies.
* The feed oracle (a read of a third-party feed), venue adapters (thin calls into
  third-party protocols), the signature verifier (one host call), the faucet, the
  test token, mocks, the keeper service, the SDK and the scripts.
* The call verifier (`contracts/call_verifier`), which has state of its own: rules that
  count only after a delay and that the guardian may disable or remove at once.
  `RedemptionVault` lets the issuer do whatever any verified call could, so nothing
  checked here rests on a rule, but that a rule is not used before its delay or after
  its revocation is not checked.

## Plan

The contracts that hold and move the protocol's assets are modelled, most of them in
part (`PROJECT.json` says of each what is left out), and of the properties the passing
runs check all are proved but those listed above. What is left:

1. `ReservedForQueue` and `GainsVest` with a bound in terms of the worth of a vault's
   share, and the arithmetic of two layers of rounding that it takes.
2. `Timelock` as an abstract specification that the settings of `CrossSettle` and the
   redemption vault implement.
3. The call verifier's rules: granting delayed, revoking immediate.
