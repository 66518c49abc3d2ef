-------------------------- MODULE RedemptionVault --------------------------
(***************************************************************************)
(* Batched redemption of one RWA with its issuer                           *)
(* (contracts/redemption_vault), with the batches' claim tokens            *)
(* (contracts/claim_token) and the accounts that face the issuer           *)
(* (contracts/redemption_account).                                         *)
(*                                                                         *)
(* Each entry point is one action.  A settler's verified calls move tokens *)
(* between the issuer and an account; the issuer does so at any time here, *)
(* so the calls of `settle` and `reopen` are the steps of the issuer that  *)
(* precede them, and those of `redeem_batch` take exactly what is sent:    *)
(* the code refuses any other amount, and any that moves the vault's RWA.  *)
(* The roles are fixed, each entry point is its role's, and NAV is any     *)
(* reading of the oracle, 0 when there is none.                            *)
(***************************************************************************)
EXTENDS CommonMath, Sums, Sequences, FiniteSets

CONSTANTS
    Holders,         \* accounts that redeem, hold claim tokens and claim
    Burners,         \* the holders that burn a claim token directly
    VAULT,           \* the vault's own address
    Operator,        \* who settles MANUAL batches, and where they go
    Issuer,          \* the RWA's issuer
    Pool,            \* the redemption accounts' addresses, in order
    Fees,            \* the fee recipient
    None,            \* Option::None
    Recipients,      \* whom a holder may name beside itself
    Gated,           \* who may hold a claim token once there is a gate
    AllSettings,     \* the settings an admin may queue
    InitialSettings, \* the settings at deployment
    Delays,          \* the timelock delays an admin may queue
    Navs,            \* the oracle's readings
    InitialBalances, \* [{"rwa", "stable"} -> [Addresses -> Nat]]
    Amounts,         \* the amounts a request, an issuer or an operator moves
    BPS, ONE,        \* the scales of fees and of NAV
    MAX_FEE_BPS,     \* a fifth in the code
    Governed,        \* what the admin does: "Account", "Pause" and Kinds
    MaxBatches,      \* bound on the number of batches
    MaxTime          \* bound on the ledger clock

VARIABLES
    now,             \* env.ledger().timestamp()
    paused,          \* Key::Paused
    settings,        \* Key::Settings
    delay,           \* TimelockKey::Delay
    pending,         \* TimelockKey::Pending, by kind
    batch,           \* Key::Batch; Key::Next is Len(batch) + 1
    ct,              \* each batch's claim token
    open,            \* Key::Open, None or an index into batch
    totals,          \* Key::Totals
    accounts,        \* Key::Accounts
    busy,            \* Key::Busy, [account -> batch or None]
    bal              \* balances of the RWA and the stable

vars == <<now, paused, settings, delay, pending, batch, ct, open, totals,
          accounts, busy, bal>>
govVars == <<paused, settings, delay, pending>>

Tokens == {"rwa", "stable"}
Accounts == {Pool[i] : i \in DOMAIN Pool}
Addresses == Holders \cup Accounts \cup {VAULT, Operator, Issuer, Fees}
CtHolders == Holders \cup {VAULT}
Kinds == {"Settings", "Skim", "Delay"}

Settings ==
    [mode : {"Auto", "Manual"}, strike_at_send : BOOLEAN, verifier : BOOLEAN,
     gate : BOOLEAN, fee_bps : 0 .. BPS, fee_recipient : {Fees, None},
     floor_bps : 0 .. BPS, destinations : SUBSET {Operator}]

Batches ==
    [status : {"Open", "Sent", "Settled"}, account : Accounts \cup {None},
     units : Nat, unsent : Int, remaining : Int, strike : Nat]

ClaimTokens == [bal : [CtHolders -> Nat], supply : Int, gate : BOOLEAN]

(* The vault deploys its accounts, so nobody else's address is one.        *)
ASSUME VaultAssumption ==
    /\ BPS \in Nat \ {0} /\ ONE \in Nat \ {0} /\ MAX_FEE_BPS \in 0 .. BPS
    /\ MaxBatches \in Nat /\ MaxTime \in Nat
    /\ VAULT \notin Holders \cup Accounts \cup {Operator, Issuer, Fees}
    /\ Accounts \cap (Holders \cup {Operator, Issuer, Fees}) = {}
    /\ IsFiniteSet(Holders)
    /\ None \notin Addresses \cup Nat
    /\ Burners \subseteq Holders /\ Recipients \subseteq CtHolders
    /\ Pool \in Seq(Accounts) /\ Len(Pool) > 0
    /\ \A i, j \in DOMAIN Pool : Pool[i] = Pool[j] => i = j
    /\ AllSettings \subseteq Settings /\ InitialSettings \in Settings
    /\ Delays \subseteq Nat /\ Navs \subseteq Nat /\ Amounts \subseteq Nat
    /\ InitialBalances \in [Tokens -> [Addresses -> Nat]]

-----------------------------------------------------------------------------
(* Tokens                                                                  *)

(* A transfer of a plain token, and `send`, which skips an empty one.      *)
Transfer(b, token, from, to, amount) ==
    LET debited == [b EXCEPT ![token][from] = @ - amount]
    IN  [debited EXCEPT ![token][to] = @ + amount]
Send(b, token, to, amount) ==
    IF amount > 0 THEN Transfer(b, token, VAULT, to, amount) ELSE b
CanSend(b, token, amount) == amount <= 0 \/ b[token][VAULT] >= amount

(* The claim token: mint, burn, transfer, and who may receive it.          *)
CheckHolder(c, to) == c.gate /\ to # VAULT => to \in Gated
CtMint(c, to, n) == [c EXCEPT !.bal[to] = @ + n, !.supply = @ + n]
CtBurn(c, from, n) == [c EXCEPT !.bal[from] = @ - n, !.supply = @ - n]
CtMove(c, from, to, n) ==
    LET debited == [c EXCEPT !.bal[from] = @ - n]
    IN  [debited EXCEPT !.bal[to] = @ + n]
CtCanBurn(c, from, n) == c.bal[from] >= n

-----------------------------------------------------------------------------
(* Holders                                                                 *)

NewBatch ==
    [status |-> "Open", account |-> None, units |-> 0, unsent |-> 0,
     remaining |-> 0, strike |-> 0]
NewCt == [bal |-> [h \in CtHolders |-> 0], supply |-> 0, gate |-> settings.gate]

(* The open batch, opening one with its claim token if there is none.      *)
RequestRedeem(owner, units, controller) ==
    /\ ~paused
    /\ units > 0
    /\ bal["rwa"][owner] >= units
    /\ bal' = Transfer(bal, "rwa", owner, VAULT, units)
    /\ LET fresh == open = None
           id == IF fresh THEN Len(batch) + 1 ELSE open
           b  == IF fresh THEN NewBatch ELSE batch[id]
           c  == IF fresh THEN NewCt ELSE ct[id]
           joined == [b EXCEPT !.units = @ + units]
           minted == CtMint(c, controller, units)
       IN  /\ id <= MaxBatches
           /\ CheckHolder(c, controller)
           /\ open' = id
           /\ batch' = IF fresh THEN Append(batch, joined)
                                ELSE [batch EXCEPT ![id] = joined]
           /\ ct' = IF fresh THEN Append(ct, minted)
                             ELSE [ct EXCEPT ![id] = minted]
    /\ totals' = [totals EXCEPT !.pooled = @ + units]
    /\ UNCHANGED <<now, govVars, accounts, busy>>

CancelUnlessPaused(owner, id, amount, receiver) ==
    /\ ~paused
    /\ batch[id].status = "Open"
    /\ 0 < amount /\ amount <= batch[id].units
    /\ CtCanBurn(ct[id], owner, amount)
    /\ ct' = [ct EXCEPT ![id] = CtBurn(@, owner, amount)]
    /\ batch' = [batch EXCEPT ![id].units = @ - amount]
    /\ totals' = [totals EXCEPT !.pooled = @ - amount]
    /\ CanSend(bal, "rwa", amount)
    /\ bal' = Send(bal, "rwa", receiver, amount)
    /\ UNCHANGED <<now, govVars, open, accounts, busy>>

Cancel(owner, id, amount, receiver) ==
    /\ batch[id].status = "Open"
    /\ 0 < amount /\ amount <= batch[id].units
    /\ CtCanBurn(ct[id], owner, amount)
    /\ ct' = [ct EXCEPT ![id] = CtBurn(@, owner, amount)]
    /\ batch' = [batch EXCEPT ![id].units = @ - amount]
    /\ totals' = [totals EXCEPT !.pooled = @ - amount]
    /\ CanSend(bal, "rwa", amount)
    /\ bal' = Send(bal, "rwa", receiver, amount)
    /\ UNCHANGED <<now, govVars, open, accounts, busy>>

(* A claimant's part of what its batch has left, rounded down.             *)
ShareUp(id, shares, left) == MulDivCeil(shares, left, ct[id].supply)
ShareOfBatch(id, shares, left) == MulDiv(shares, left, batch[id].units)
Share(id, shares, left) == MulDiv(shares, left, ct[id].supply)

Claim(owner, id, shares, receiver) ==
    LET b == batch[id]
        assets == Share(id, shares, b.remaining)
        units  == Share(id, shares, b.unsent)
        b1 == Send(bal, "stable", receiver, assets)
    IN  /\ b.status = "Settled"
        /\ shares > 0 /\ ct[id].supply > 0
        /\ b.remaining >= 0 /\ b.unsent >= 0
        /\ CtCanBurn(ct[id], owner, shares)
        /\ ct' = [ct EXCEPT ![id] = CtBurn(@, owner, shares)]
        /\ batch' = [batch EXCEPT ![id].remaining = @ - assets,
                                  ![id].unsent = @ - units]
        /\ totals' = [totals EXCEPT !.proceeds = @ - assets, !.rwa = @ - units]
        /\ CanSend(bal, "stable", assets) /\ CanSend(b1, "rwa", units)
        /\ bal' = Send(b1, "rwa", receiver, units)
        /\ UNCHANGED <<now, govVars, open, accounts, busy>>

(* The claim token trades, and SEP-41 lets its holder burn it.             *)
TransferCt(id, from, to, amount) ==
    /\ CheckHolder(ct[id], to)
    /\ amount > 0 /\ ct[id].bal[from] >= amount
    /\ ct' = [ct EXCEPT ![id] = CtMove(@, from, to, amount)]
    /\ UNCHANGED <<now, govVars, batch, open, totals, accounts, busy, bal>>

BurnCt(id, from, amount) ==
    /\ amount > 0 /\ CtCanBurn(ct[id], from, amount)
    /\ ct' = [ct EXCEPT ![id] = CtBurn(@, from, amount)]
    /\ UNCHANGED <<now, govVars, batch, open, totals, accounts, busy, bal>>

-----------------------------------------------------------------------------
(* A batch leaves and comes back                                           *)

(* mark_sent: struck at NAV if strikes are at send.                        *)
MarkSent(id, account, nav) ==
    /\ batch[id].units > 0
    /\ settings.strike_at_send => nav # 0
    /\ open' = IF open = id THEN None ELSE open
    /\ batch' = [batch EXCEPT ![id].status = "Sent", ![id].account = account,
                    ![id].strike = IF settings.strike_at_send THEN nav ELSE @]
    /\ totals' = [totals EXCEPT !.pooled = @ - batch[id].units, !.sent = @ + 1]

(* The first account with no batch.                                        *)
FreeAccount(a) ==
    \E i \in DOMAIN accounts :
        /\ a = accounts[i] /\ busy[a] = None
        /\ \A j \in 1 .. i - 1 : busy[accounts[j]] # None

(* redeem_batch of an open batch.                                          *)
RedeemBatch(id, nav) ==
    /\ batch[id].status = "Open"
    /\ settings.mode = "Auto" /\ settings.verifier
    /\ bal["rwa"][VAULT] >= batch[id].units
    /\ \E a \in Accounts :
          /\ FreeAccount(a)
          /\ busy' = [busy EXCEPT ![a] = id]
          /\ MarkSent(id, a, nav)
    /\ bal' = Transfer(bal, "rwa", VAULT, Issuer, batch[id].units)
    /\ bal'["rwa"][VAULT] >= totals'.pooled + totals'.rwa
    /\ UNCHANGED <<now, govVars, ct, accounts>>

ResendKeepsRecord(id) ==
    LET b == batch[id]
    IN  /\ b.status = "Sent" /\ b.account # None
        /\ b.unsent # 0
        /\ settings.verifier
        /\ bal["rwa"][b.account] >= b.unsent
        /\ bal' = Transfer(bal, "rwa", b.account, Issuer, b.unsent)
        /\ UNCHANGED <<now, govVars, batch, ct, open, totals, accounts, busy>>

(* redeem_batch of a sent one: what the issuer handed back goes again.     *)
Resend(id) ==
    LET b == batch[id]
    IN  /\ b.status = "Sent" /\ b.account # None
        /\ b.unsent # 0
        /\ settings.verifier
        /\ bal["rwa"][b.account] >= b.unsent
        /\ bal' = Transfer(bal, "rwa", b.account, Issuer, b.unsent)
        /\ batch' = [batch EXCEPT ![id].unsent = 0]
        /\ UNCHANGED <<now, govVars, ct, open, totals, accounts, busy>>

ReopenedStruck(b) ==
    [b EXCEPT !.status = "Open", !.account = None, !.unsent = 0]
Reopened(b) ==
    [b EXCEPT !.status = "Open", !.account = None, !.unsent = 0, !.strike = 0]

PooledAgain(b) == [totals EXCEPT !.pooled = @ + b.units, !.sent = @ - 1]

(* `reopen`: part of the batch is back, and waits in its account, or all   *)
(* of it, and the batch is open again beside any that opened meanwhile.    *)
Reopen(id, returned) ==
    LET b == batch[id]
        unsent == b.unsent + returned
    IN  /\ b.status = "Sent" /\ b.account # None
        /\ returned > 0 /\ unsent <= b.units
        /\ settings.verifier
        /\ bal["rwa"][b.account] >= unsent
        /\ \/ /\ unsent < b.units
              /\ batch' = [batch EXCEPT ![id].unsent = unsent]
              /\ UNCHANGED <<bal, busy, totals>>
           \/ /\ unsent = b.units
              /\ bal' = Transfer(bal, "rwa", b.account, VAULT,
                                 bal["rwa"][b.account])
              /\ busy' = [busy EXCEPT ![b.account] = None]
              /\ totals' = PooledAgain(b)
              /\ batch' = [batch EXCEPT ![id] = Reopened(b)]
        /\ UNCHANGED <<now, govVars, ct, open, accounts>>

(* `finish`: the fee leaves, and the rest is the holders'.  b1 is the      *)
(* ledger with the proceeds and the returned RWA in the vault.             *)
Finish(id, b1, proceeds, unsent) ==
    LET fee == MulDiv(proceeds, settings.fee_bps, BPS)
    IN  /\ totals' = [totals EXCEPT !.proceeds = @ + proceeds - fee,
                                    !.rwa = @ + unsent, !.sent = @ - 1]
        /\ batch' = [batch EXCEPT ![id].status = "Settled",
                        ![id].unsent = unsent,
                        ![id].remaining = proceeds - fee]
        /\ bal' = IF settings.fee_recipient = None THEN b1
                  ELSE Send(b1, "stable", settings.fee_recipient, fee)

(* `settle`: the proceeds are all the stable in the batch's account; RWA   *)
(* recorded as handed back comes along, and no other.  The settler's       *)
(* minimum is its own choice.                                              *)
Settle(id) ==
    LET b == batch[id]
        proceeds == bal["stable"][b.account]
        b1 == Transfer(bal, "stable", b.account, VAULT, proceeds)
    IN  /\ b.status = "Sent" /\ b.account # None
        /\ settings.verifier
        /\ bal["rwa"][b.account] >= b.unsent
        /\ busy' = [busy EXCEPT ![b.account] = None]
        /\ Finish(id, Transfer(b1, "rwa", b.account, VAULT, b.unsent),
                  proceeds, b.unsent)
        /\ UNCHANGED <<now, govVars, ct, open, accounts>>

WithdrawBatch(id, to, nav) ==
    /\ settings.mode = "Manual"
    /\ to \in settings.destinations
    /\ batch[id].status = "Open"
    /\ CanSend(bal, "rwa", batch[id].units)
    /\ bal' = Send(bal, "rwa", to, batch[id].units)
    /\ MarkSent(id, None, nav)
    /\ UNCHANGED <<now, govVars, ct, accounts, busy>>

(* The least a MANUAL settlement may bring: NAV on the units redeemed less *)
(* the tolerance, rounded up twice.                                        *)
NavFloor(b, returned, price) ==
    MulDivCeil(MulDivCeil(b.units - returned, price, ONE),
               BPS - settings.floor_bps, BPS)

SettleManual(id, proceeds, returned, nav) ==
    LET b == batch[id]
        price == IF b.strike # 0 THEN b.strike ELSE nav
        b1 == Transfer(bal, "stable", Operator, VAULT, proceeds)
    IN  /\ b.status = "Sent" /\ b.account = None
        /\ proceeds >= 0 /\ returned >= 0 /\ returned <= b.units
        /\ price # 0
        /\ proceeds >= NavFloor(b, returned, price)
        /\ bal["stable"][Operator] >= proceeds
        /\ bal["rwa"][Operator] >= returned
        /\ Finish(id, Transfer(b1, "rwa", Operator, VAULT, returned),
                  proceeds, returned)
        /\ UNCHANGED <<now, govVars, ct, open, accounts, busy>>

-----------------------------------------------------------------------------
(* Governance                                                              *)

AddAccount ==
    /\ Len(accounts) < Len(Pool)
    /\ accounts' = Append(accounts, Pool[Len(accounts) + 1])
    /\ UNCHANGED <<now, govVars, batch, ct, open, totals, busy, bal>>

SetPaused(p) ==
    /\ paused' = p
    /\ UNCHANGED <<now, settings, delay, pending, batch, ct, open, totals,
                   accounts, busy, bal>>

CheckSettings(s) ==
    /\ s.fee_bps <= MAX_FEE_BPS
    /\ s.fee_bps > 0 => s.fee_recipient # None
    /\ s.floor_bps <= BPS

Proposals(kind) ==
    CASE kind = "Settings" -> AllSettings
      [] kind = "Skim" -> Tokens
      [] kind = "Delay" -> Delays

Submit(kind, to) ==
    /\ kind = "Settings" => CheckSettings(to)
    /\ pending' = [pending EXCEPT ![kind] = [to |-> to, at |-> now + delay]]
    /\ UNCHANGED <<now, paused, settings, delay, batch, ct, open, totals,
                   accounts, busy, bal>>

Revoke(kind) ==
    /\ pending[kind] # None
    /\ pending' = [pending EXCEPT ![kind] = None]
    /\ UNCHANGED <<now, paused, settings, delay, batch, ct, open, totals,
                   accounts, busy, bal>>

Take(kind) ==
    /\ pending[kind] # None
    /\ now >= pending[kind].at
    /\ pending' = [pending EXCEPT ![kind] = None]

(* Mode and strike change only while no batch is with the issuer.          *)
MaySwitch(s) ==
    totals.sent # 0 => /\ s.mode = settings.mode
                       /\ s.strike_at_send = settings.strike_at_send

(* The claim tokens under new settings: the open batch's follows the gate. *)
Regate(s) ==
    IF open # None /\ s.gate # settings.gate
    THEN [ct EXCEPT ![open].gate = s.gate] ELSE ct

AcceptSettings ==
    LET s == pending["Settings"].to
    IN  /\ Take("Settings")
        /\ MaySwitch(s)
        /\ ct' = Regate(s)
        /\ settings' = s
        /\ UNCHANGED <<now, paused, delay, batch, open, totals, accounts, busy,
                       bal>>

(* What the vault holds of a token beyond what it owes.                    *)
SurplusPooledOnly(token) ==
    bal[token][VAULT] -
        (IF token = "stable" THEN totals.proceeds ELSE totals.pooled)
Surplus(token) ==
    bal[token][VAULT] -
        (IF token = "stable" THEN totals.proceeds
                             ELSE totals.pooled + totals.rwa)

AcceptSkim ==
    LET token == pending["Skim"].to
    IN  /\ Take("Skim")
        /\ bal' = Send(bal, token, Fees, Surplus(token))
        /\ UNCHANGED <<now, paused, settings, delay, batch, ct, open, totals,
                       accounts, busy>>

AcceptDelay ==
    /\ Take("Delay")
    /\ delay' = pending["Delay"].to
    /\ UNCHANGED <<now, paused, settings, batch, ct, open, totals, accounts,
                   busy, bal>>

-----------------------------------------------------------------------------
(* The issuer, and time                                                    *)

(* The issuer pays, or hands RWA back, whenever it likes: early, late, in  *)
(* parts, or to an account whose batch has settled.                        *)
IssuerSends(token, a, amount) ==
    /\ amount > 0 /\ bal[token][Issuer] >= amount
    /\ bal' = Transfer(bal, token, Issuer, a, amount)
    /\ UNCHANGED <<now, govVars, batch, ct, open, totals, accounts, busy>>

Tick ==
    /\ now < MaxTime
    /\ now' = now + 1
    /\ UNCHANGED <<govVars, batch, ct, open, totals, accounts, busy, bal>>

Init ==
    /\ now = 0
    /\ paused = FALSE
    /\ settings = InitialSettings
    /\ delay \in Delays
    /\ pending = [k \in Kinds |-> None]
    /\ batch = << >>
    /\ ct = << >>
    /\ open = None
    /\ totals = [pooled |-> 0, proceeds |-> 0, rwa |-> 0, sent |-> 0]
    /\ accounts = <<Pool[1]>>
    /\ busy = [a \in Accounts |-> None]
    /\ bal = InitialBalances

Holder ==
    \E h \in Holders, n \in Amounts :
        \/ \E c \in ({h} \cup Recipients) \ {VAULT} : RequestRedeem(h, n, c)
        \/ \E id \in DOMAIN batch :
              \/ \E r \in {h} \cup Recipients :
                    Cancel(h, id, n, r) \/ Claim(h, id, n, r)
              \/ \E to \in Recipients : TransferCt(id, h, to, n)
              \/ h \in Burners /\ BurnCt(id, h, n)

Redemption ==
    \E id \in DOMAIN batch :
        \/ \E nav \in Navs : RedeemBatch(id, nav)
        \/ Resend(id)
        \/ \E n \in Amounts : Reopen(id, n)
        \/ Settle(id)
        \/ \E to \in {Operator}, nav \in Navs : WithdrawBatch(id, to, nav)
        \/ \E n \in Amounts \cup {0}, r \in Amounts \cup {0}, nav \in Navs :
              SettleManual(id, n, r, nav)

Governance ==
    \/ "Account" \in Governed /\ AddAccount
    \/ "Pause" \in Governed /\ \E p \in BOOLEAN : SetPaused(p)
    \/ \E k \in Kinds \cap Governed :
          \/ \E to \in Proposals(k) : Submit(k, to)
          \/ Revoke(k)
    \/ AcceptSettings \/ AcceptSkim \/ AcceptDelay

Next ==
    \/ Holder
    \/ Redemption
    \/ Governance
    \/ \E t \in Tokens, i \in DOMAIN accounts, n \in Amounts :
          IssuerSends(t, accounts[i], n)
    \/ Tick

Spec == Init /\ [][Next]_vars

-----------------------------------------------------------------------------
(* Properties                                                              *)

(* Every table keeps its shape, and no balance of any token goes negative. *)
TypeOK ==
    /\ now \in 0 .. MaxTime
    /\ paused \in BOOLEAN
    /\ settings \in Settings
    /\ delay \in Nat
    /\ DOMAIN pending = Kinds
    /\ pending["Settings"] # None =>
          pending["Settings"] \in [to : Settings, at : Nat]
    /\ pending["Skim"] # None => pending["Skim"] \in [to : Tokens, at : Nat]
    /\ pending["Delay"] # None => pending["Delay"] \in [to : Nat, at : Nat]
    /\ batch \in Seq(Batches)
    /\ ct \in Seq(ClaimTokens) /\ Len(ct) = Len(batch)
    /\ open \in (1 .. Len(batch)) \cup {None}
    /\ totals \in [pooled : Int, proceeds : Int, rwa : Int, sent : Int]
    /\ accounts \in Seq(Accounts)
    /\ busy \in [Accounts -> (1 .. Len(batch)) \cup {None}]
    /\ bal \in [Tokens -> [Addresses -> Nat]]

With(status) == {id \in DOMAIN batch : batch[id].status = status}

(* What a batch adds to each of the totals.                                *)
Pooled(b) == IF b.status = "Open" THEN b.units ELSE 0
Unclaimed(b) == IF b.status = "Settled" THEN b.remaining ELSE 0
InKind(b) == IF b.status = "Settled" THEN b.unsent ELSE 0
Out(b) == IF b.status = "Sent" THEN 1 ELSE 0

(* The cached totals are the sums they stand for, through every partial    *)
(* return, reopening, settlement and claim.                                *)
TotalsExact ==
    LET ids == DOMAIN batch
    IN  /\ totals.pooled = SumOver([id \in ids |-> Pooled(batch[id])], ids)
        /\ totals.proceeds = SumOver([id \in ids |-> Unclaimed(batch[id])], ids)
        /\ totals.rwa = SumOver([id \in ids |-> InKind(batch[id])], ids)
        /\ totals.sent = SumOver([id \in ids |-> Out(batch[id])], ids)

(* The vault holds all it owes: pooled RWA, RWA to return in kind and      *)
(* unclaimed proceeds, whatever is skimmed and whoever claims first.       *)
Covered ==
    /\ bal["stable"][VAULT] >= totals.proceeds
    /\ bal["rwa"][VAULT] >= totals.pooled + totals.rwa

(* The vault's books balance after every step: types, totals, coverage.    *)
BooksBalance == TypeOK /\ TotalsExact /\ Covered

(* An account faces the issuer for one batch at a time: it is busy exactly *)
(* while a sent batch names it, and it then holds at least the RWA         *)
(* recorded as handed back, to be sent again or settled in kind.           *)
AccountsExclusive ==
    /\ \A a \in Accounts : busy[a] # None =>
          batch[busy[a]].status = "Sent" /\ batch[busy[a]].account = a
    /\ \A id \in DOMAIN batch :
          batch[id].status = "Sent" /\ batch[id].account # None =>
             /\ busy[batch[id].account] = id
             /\ bal["rwa"][batch[id].account] >= batch[id].unsent

(* A batch settles the way it was sent: mode and strike cannot change      *)
(* under it, and a strike does not survive a reopening.                    *)
SettlesAsSent ==
    \A id \in With("Sent") :
        /\ batch[id].account # None <=> settings.mode = "Auto"
        /\ batch[id].strike # 0 <=> settings.strike_at_send

(* Nobody's claim loses by another's: while a batch is settled, what a     *)
(* claim token is backed by never falls.                                   *)
ClaimsNeverDilute ==
    [][\A id \in DOMAIN batch :
          batch[id].status = "Settled" =>
             /\ batch'[id].remaining * ct[id].supply
                   >= batch[id].remaining * ct'[id].supply
             /\ batch'[id].unsent * ct[id].supply
                   >= batch[id].unsent * ct'[id].supply]_vars

(* The last holder takes the rounding dust: when the last of a settled     *)
(* batch's claim token goes, nothing is left behind, unless a holder burns *)
(* it directly, for nothing, instead of claiming.                          *)
NothingStranded ==
    [][\A id \in With("Settled") :
          ct[id].supply > 0 /\ ct'[id].supply = 0 =>
             \/ \E h \in Burners : BurnCt(id, h, ct[id].supply)
             \/ batch'[id].remaining = 0 /\ batch'[id].unsent = 0]_vars

(* Pausing, gating, skimming and other holders' moves never lock a holder  *)
(* in: an open batch can be cancelled and a settled one claimed.           *)
HoldersCanLeave ==
    \A id \in DOMAIN batch, h \in Holders :
        LET n == ct[id].bal[h]
        IN  n > 0 => /\ batch[id].status = "Open" => ENABLED Cancel(h, id, n, h)
                     /\ batch[id].status = "Settled" => ENABLED Claim(h, id, n, h)
=============================================================================
