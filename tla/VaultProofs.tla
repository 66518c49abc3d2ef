----------------------------- MODULE VaultProofs -----------------------------
(***************************************************************************)
(* Theorems about the redemption vault, for every set of holders, accounts *)
(* and settings, every number of batches and every behaviour of the issuer.*)
(***************************************************************************)
EXTENDS RedemptionVault, ArithmeticTheorems

Ledger == [Tokens -> [Addresses -> Nat]]
Totals == [pooled : Int, proceeds : Int, rwa : Int, sent : Int]

(* Who is who: the parties' addresses, and None is none of them.           *)
LEMMA Parties ==
    /\ VAULT \in Addresses /\ Operator \in Addresses /\ Issuer \in Addresses
    /\ Fees \in Addresses /\ Holders \subseteq Addresses
    /\ Accounts \subseteq Addresses /\ CtHolders \subseteq Addresses
    /\ VAULT \notin Accounts /\ VAULT \notin Holders
    /\ VAULT # Operator /\ VAULT # Issuer /\ VAULT # Fees
    /\ Operator \notin Accounts /\ Issuer \notin Accounts /\ Fees \notin Accounts
    /\ None \notin Accounts /\ None \notin Nat
    /\ \A h \in Holders : h \notin Accounts
  BY VaultAssumption DEF Addresses, CtHolders

-----------------------------------------------------------------------------
(* Ledgers                                                                 *)

(* A covered transfer moves the amount from its sender to its receiver.    *)
LEMMA TransferEffect ==
    ASSUME NEW b \in Ledger, NEW token \in Tokens, NEW from \in Addresses,
           NEW to \in Addresses, NEW amount \in Nat, b[token][from] >= amount
    PROVE  /\ Transfer(b, token, from, to, amount) \in Ledger
           /\ \A t \in Tokens, a \in Addresses :
                 Transfer(b, token, from, to, amount)[t][a]
                    = b[t][a] - (IF t = token /\ a = from THEN amount ELSE 0)
                              + (IF t = token /\ a = to THEN amount ELSE 0)
  <1> DEFINE debited == [b EXCEPT ![token][from] = @ - amount]
             after == [debited EXCEPT ![token][to] = @ + amount]
  <1>1. debited \in Ledger
    BY DEF Ledger
  <1>2. ASSUME NEW t \in Tokens, NEW a \in Addresses
        PROVE  debited[t][a]
                 = b[t][a] - (IF t = token /\ a = from THEN amount ELSE 0)
    BY DEF Ledger
  <1> HIDE DEF debited
  <1>3. after \in Ledger
    BY <1>1 DEF Ledger
  <1>4. ASSUME NEW t \in Tokens, NEW a \in Addresses
        PROVE  after[t][a] = debited[t][a]
                               + (IF t = token /\ a = to THEN amount ELSE 0)
    BY <1>1 DEF Ledger
  <1>5. Transfer(b, token, from, to, amount) = after
    BY DEF Transfer, debited
  <1> HIDE DEF after
  <1>6. QED
    BY <1>2, <1>3, <1>4, <1>5

(* `send` takes only from the vault, no more than the amount, and nothing  *)
(* when the amount is not positive.                                        *)
LEMMA SendEffect ==
    ASSUME NEW b \in Ledger, NEW token \in Tokens, NEW to \in Addresses,
           NEW amount \in Int, CanSend(b, token, amount)
    PROVE  /\ Send(b, token, to, amount) \in Ledger
           /\ \A t \in Tokens, a \in Addresses \ {VAULT} :
                 Send(b, token, to, amount)[t][a] >= b[t][a]
           /\ \A t \in Tokens : t # token =>
                 Send(b, token, to, amount)[t][VAULT] = b[t][VAULT]
           /\ Send(b, token, to, amount)[token][VAULT]
                 >= b[token][VAULT] - (IF amount > 0 THEN amount ELSE 0)
  <1>0. VAULT \in Addresses
    BY Parties
  <1>1. CASE amount > 0
    <2> DEFINE c == Transfer(b, token, VAULT, to, amount)
    <2>1. amount \in Nat /\ b[token][VAULT] >= amount
      BY <1>1 DEF CanSend
    <2>2. /\ c \in Ledger
          /\ \A t \in Tokens, a \in Addresses :
                c[t][a] = b[t][a] - (IF t = token /\ a = VAULT THEN amount ELSE 0)
                                  + (IF t = token /\ a = to THEN amount ELSE 0)
      BY <1>0, <2>1, TransferEffect
    <2>3. Send(b, token, to, amount) = c
      BY <1>1 DEF Send
    <2> HIDE DEF c
    <2>4. \A t \in Tokens, a \in Addresses : b[t][a] \in Nat
      BY DEF Ledger
    <2>5. QED
      BY <1>0, <1>1, <2>1, <2>2, <2>3, <2>4
  <1>2. CASE ~(amount > 0)
    <2>1. Send(b, token, to, amount) = b
      BY <1>2 DEF Send
    <2>2. \A t \in Tokens, a \in Addresses : b[t][a] \in Nat
      BY DEF Ledger
    <2>3. QED
      BY <1>0, <1>2, <2>1, <2>2
  <1>3. QED
    BY <1>1, <1>2

-----------------------------------------------------------------------------
(* Claim tokens                                                            *)

(* A claim token's supply is what its holders have between them.           *)
SupplyExact(c) == c.supply = SumOver(c.bal, CtHolders)

(* A claim token has finitely many holders.                                *)
LEMMA CtHoldersFinite == IsFiniteSet(CtHolders)
  BY VaultAssumption, FS_AddElement DEF CtHolders

(* No holder has more than the supply.                                     *)
LEMMA SupplyNat ==
    ASSUME NEW c \in ClaimTokens, SupplyExact(c)
    PROVE  c.supply \in Nat /\ \A h \in CtHolders : c.bal[h] <= c.supply
  <1>1. \A h \in CtHolders : c.bal[h] \in Nat
    BY DEF ClaimTokens
  <1>2. QED
    BY <1>1, CtHoldersFinite, SumNat DEF SupplyExact

(* A claim token with other balances is one.                               *)
LEMMA TokenRewritten ==
    ASSUME NEW c \in ClaimTokens, NEW f \in [CtHolders -> Nat], NEW s \in Int
    PROVE  [c EXCEPT !.bal = f, !.supply = s] \in ClaimTokens
  BY DEF ClaimTokens

(* A mint adds to the supply what it adds to its holder.                   *)
LEMMA MintEffect ==
    ASSUME NEW c \in ClaimTokens, SupplyExact(c), NEW to \in CtHolders,
           NEW n \in Nat
    PROVE  /\ CtMint(c, to, n) \in ClaimTokens
           /\ SupplyExact(CtMint(c, to, n))
           /\ CtMint(c, to, n).supply = c.supply + n
  <1> DEFINE m == CtMint(c, to, n)
  <1>1. c.bal \in [CtHolders -> Nat] /\ c.supply \in Int
    BY DEF ClaimTokens
  <1>2. m.bal = [c.bal EXCEPT ![to] = @ + n] /\ m.supply = c.supply + n
    BY DEF CtMint, ClaimTokens
  <1>3. m \in ClaimTokens
    <2> DEFINE f == [c.bal EXCEPT ![to] = c.bal[to] + n]
               s == c.supply + n
    <2>1. m = [c EXCEPT !.bal = f, !.supply = s]
      BY DEF CtMint
    <2>2. f \in [CtHolders -> Nat] /\ s \in Int
      BY <1>1
    <2> HIDE DEF m, f, s
    <2>3. QED
      BY <2>1, <2>2, TokenRewritten
  <1> HIDE DEF m
  <1>4. /\ \A h \in CtHolders : c.bal[h] \in Int /\ m.bal[h] \in Int
        /\ \A h \in CtHolders \ {to} : m.bal[h] = c.bal[h]
        /\ m.bal[to] - c.bal[to] = n
    BY <1>1, <1>2
  <1>5. SumOver(m.bal, CtHolders)
           = SumOver(c.bal, CtHolders) + (m.bal[to] - c.bal[to])
    BY <1>4, CtHoldersFinite, SumChange
  <1>6. SupplyExact(m)
    BY <1>2, <1>4, <1>5 DEF SupplyExact
  <1>7. QED
    BY <1>2, <1>3, <1>6 DEF m

(* A covered burn takes from the supply what it takes from its holder.     *)
LEMMA BurnEffect ==
    ASSUME NEW c \in ClaimTokens, SupplyExact(c), NEW from \in CtHolders,
           NEW n \in Nat, CtCanBurn(c, from, n)
    PROVE  /\ CtBurn(c, from, n) \in ClaimTokens
           /\ SupplyExact(CtBurn(c, from, n))
           /\ CtBurn(c, from, n).supply = c.supply - n
  <1> DEFINE m == CtBurn(c, from, n)
  <1>1. c.bal \in [CtHolders -> Nat] /\ c.supply \in Int /\ c.bal[from] >= n
    BY DEF ClaimTokens, CtCanBurn
  <1>2. m.bal = [c.bal EXCEPT ![from] = @ - n] /\ m.supply = c.supply - n
    BY DEF CtBurn, ClaimTokens
  <1>3. m \in ClaimTokens
    <2> DEFINE f == [c.bal EXCEPT ![from] = c.bal[from] - n]
               s == c.supply - n
    <2>1. m = [c EXCEPT !.bal = f, !.supply = s]
      BY DEF CtBurn
    <2>2. f \in [CtHolders -> Nat] /\ s \in Int
      BY <1>1
    <2> HIDE DEF m, f, s
    <2>3. QED
      BY <2>1, <2>2, TokenRewritten
  <1> HIDE DEF m
  <1>4. /\ \A h \in CtHolders : c.bal[h] \in Int /\ m.bal[h] \in Int
        /\ \A h \in CtHolders \ {from} : m.bal[h] = c.bal[h]
        /\ m.bal[from] - c.bal[from] = -n
    BY <1>1, <1>2
  <1>5. SumOver(m.bal, CtHolders)
           = SumOver(c.bal, CtHolders) + (m.bal[from] - c.bal[from])
    BY <1>4, CtHoldersFinite, SumChange
  <1>6. SupplyExact(m)
    BY <1>1, <1>2, <1>4, <1>5 DEF SupplyExact
  <1>7. QED
    BY <1>2, <1>3, <1>6 DEF m

-----------------------------------------------------------------------------
(* The inductive invariant                                                 *)

(* A batch by its status: an open one carries nothing of an earlier trip   *)
(* to the issuer, a sent one no more back than it has units, and none at   *)
(* all without an account to hold it; a settled one owes no less than 0.   *)
BatchSound(b) ==
    /\ b.status = "Open" => b.account = None /\ b.unsent = 0 /\ b.strike = 0
    /\ b.status = "Sent" => /\ b.units > 0 /\ 0 <= b.unsent /\ b.unsent <= b.units
                            /\ b.account = None => b.unsent = 0
    /\ b.status = "Settled" => b.remaining >= 0 /\ b.unsent >= 0

(* A sent batch was sent under settings with this mode and strike.         *)
SentUnder(b, s) ==
    b.status = "Sent" =>
       /\ b.account # None <=> s.mode = "Auto"
       /\ b.strike # 0 <=> s.strike_at_send

(* A batch's claim token: it adds up, and never promises more units than   *)
(* an unsettled batch has.                                                 *)
TokenSound(b, c) ==
    /\ SupplyExact(c)
    /\ b.status # "Settled" => c.supply <= b.units

EntrySound(b, c, s) ==
    BatchSound(b) /\ SentUnder(b, s) /\ TokenSound(b, c)

OpenIsOpen == open # None => batch[open].status = "Open"
EntriesSound == \A id \in DOMAIN batch : EntrySound(batch[id], ct[id], settings)

VaultInv ==
    /\ TypeOK /\ TotalsExact /\ Covered /\ AccountsExclusive
    /\ OpenIsOpen /\ EntriesSound

(* The account that faces the issuer for a batch, if any.                  *)
Facing(b) == IF b.status = "Sent" THEN b.account ELSE None

(* A step that rewrites one batch and its claim token to b and c, keeping  *)
(* the books: each total moves by what the batch's part of it moves by,    *)
(* and only an account facing the issuer for it may lose RWA.              *)
Reenters(id, b, c) ==
    /\ b \in Batches /\ c \in ClaimTokens /\ EntrySound(b, c, settings)
    /\ batch' = [batch EXCEPT ![id] = b] /\ ct' = [ct EXCEPT ![id] = c]
    /\ UNCHANGED <<now, govVars, accounts>>
    /\ open' \in {open, None} /\ (open' = id => b.status = "Open")
Rebooks(id, b) ==
    /\ totals' \in Totals
    /\ totals'.pooled = totals.pooled + (Pooled(b) - Pooled(batch[id]))
    /\ totals'.proceeds = totals.proceeds + (Unclaimed(b) - Unclaimed(batch[id]))
    /\ totals'.rwa = totals.rwa + (InKind(b) - InKind(batch[id]))
    /\ totals'.sent = totals.sent + (Out(b) - Out(batch[id]))
    /\ bal' \in Ledger
    /\ bal'["stable"][VAULT] - bal["stable"][VAULT]
          >= totals'.proceeds - totals.proceeds
    /\ bal'["rwa"][VAULT] - bal["rwa"][VAULT]
          >= totals'.pooled + totals'.rwa - (totals.pooled + totals.rwa)
Refaces(id, b) ==
    LET old == Facing(batch[id])
        new == Facing(b)
    IN  /\ busy' \in [Accounts -> DOMAIN batch \cup {None}]
        /\ \A a \in Accounts :
              busy'[a] = IF a = new THEN id
                         ELSE IF a = old THEN None ELSE busy[a]
        /\ new # None /\ new # old => busy[new] = None
        /\ \A a \in Accounts \ {old, new} : bal'["rwa"][a] >= bal["rwa"][a]
        /\ new # None => bal'["rwa"][new] >= b.unsent
Rewrites(id, b, c) == Reenters(id, b, c) /\ Rebooks(id, b) /\ Refaces(id, b)

(* The batches' parts of the totals are integers.                          *)
LEMMA PartsInt ==
    ASSUME NEW b \in Batches
    PROVE  Pooled(b) \in Nat /\ Unclaimed(b) \in Int /\ InKind(b) \in Int
           /\ Out(b) \in Nat
  BY DEF Batches, Pooled, Unclaimed, InKind, Out

(* Rewriting one batch moves a total by what its part of it moves by.      *)
LEMMA RewriteTypes ==
    ASSUME TypeOK, NEW id \in DOMAIN batch, NEW b \in Batches, NEW c \in ClaimTokens
    PROVE  /\ [batch EXCEPT ![id] = b] \in Seq(Batches)
           /\ [ct EXCEPT ![id] = c] \in Seq(ClaimTokens)
           /\ Len([batch EXCEPT ![id] = b]) = Len(batch)
           /\ Len([ct EXCEPT ![id] = c]) = Len(ct)
           /\ DOMAIN batch = 1 .. Len(batch) /\ DOMAIN ct = 1 .. Len(batch)
           /\ IsFiniteSet(DOMAIN batch)
  <1>1. /\ batch \in Seq(Batches) /\ ct \in Seq(ClaimTokens)
        /\ Len(ct) = Len(batch)
    BY DEF TypeOK
  <1>2. Len(batch) \in Nat
    BY <1>1
  <1>3. DOMAIN batch = 1 .. Len(batch) /\ DOMAIN ct = 1 .. Len(batch)
    BY <1>1
  <1>4. IsFiniteSet(1 .. Len(batch))
    BY <1>2, FS_Interval
  <1>5. QED
    BY <1>1, <1>3, <1>4

(* A rewrite keeps the types.                                              *)
LEMMA RewriteTypeOK ==
    ASSUME TypeOK, NEW id \in DOMAIN batch, NEW b, NEW c, Rewrites(id, b, c)
    PROVE  TypeOK'
  <1>1. /\ b \in Batches /\ c \in ClaimTokens
        /\ batch' = [batch EXCEPT ![id] = b] /\ ct' = [ct EXCEPT ![id] = c]
        /\ UNCHANGED <<now, govVars, accounts>>
        /\ open' \in {open, None} /\ totals' \in Totals /\ bal' \in Ledger
        /\ busy' \in [Accounts -> DOMAIN batch \cup {None}]
    BY DEF Rewrites, Reenters, Rebooks, Refaces
  <1>2. /\ batch' \in Seq(Batches) /\ ct' \in Seq(ClaimTokens)
        /\ Len(batch') = Len(batch) /\ Len(ct') = Len(batch')
        /\ DOMAIN batch = 1 .. Len(batch)
    BY <1>1, RewriteTypes DEF TypeOK
  <1>3. busy' \in [Accounts -> (1 .. Len(batch')) \cup {None}]
    BY <1>1, <1>2
  <1>4. QED
    BY <1>1, <1>2, <1>3 DEF TypeOK, govVars, Ledger, Totals

(* A rewrite keeps the totals exact.                                       *)
LEMMA RewriteTotals ==
    ASSUME TypeOK, TotalsExact, NEW id \in DOMAIN batch, NEW b, NEW c,
           Rewrites(id, b, c)
    PROVE  TotalsExact'
  <1> DEFINE ids == DOMAIN batch
             pooled == [i \in ids |-> Pooled(batch[i])]
             unclaimed == [i \in ids |-> Unclaimed(batch[i])]
             inKind == [i \in ids |-> InKind(batch[i])]
             out == [i \in ids |-> Out(batch[i])]
  <1>1. /\ b \in Batches
        /\ batch' = [batch EXCEPT ![id] = b]
        /\ totals'.pooled = totals.pooled + (Pooled(b) - Pooled(batch[id]))
        /\ totals'.proceeds = totals.proceeds + (Unclaimed(b) - Unclaimed(batch[id]))
        /\ totals'.rwa = totals.rwa + (InKind(b) - InKind(batch[id]))
        /\ totals'.sent = totals.sent + (Out(b) - Out(batch[id]))
    BY DEF Rewrites, Reenters, Rebooks, Refaces
  <1>2. DOMAIN batch' = ids /\ IsFiniteSet(ids)
    <2>1. c \in ClaimTokens
      BY DEF Rewrites, Reenters, Rebooks, Refaces
    <2>2. QED
      BY <1>1, <2>1, RewriteTypes
  <1>3. /\ \A i \in ids : batch[i] \in Batches /\ batch'[i] \in Batches
        /\ \A i \in ids \ {id} : batch'[i] = batch[i]
        /\ batch'[id] = b
    BY <1>1 DEF TypeOK
  <1>4. /\ \A i \in ids : pooled[i] \in Int /\ unclaimed[i] \in Int
                          /\ inKind[i] \in Int /\ out[i] \in Int
        /\ \A i \in ids : pooled'[i] \in Int /\ unclaimed'[i] \in Int
                          /\ inKind'[i] \in Int /\ out'[i] \in Int
    BY <1>2, <1>3, PartsInt
  <1>5. /\ \A i \in ids \ {id} : pooled'[i] = pooled[i] /\ unclaimed'[i] = unclaimed[i]
                          /\ inKind'[i] = inKind[i] /\ out'[i] = out[i]
        /\ pooled[id] = Pooled(batch[id]) /\ pooled'[id] = Pooled(b)
        /\ unclaimed[id] = Unclaimed(batch[id]) /\ unclaimed'[id] = Unclaimed(b)
        /\ inKind[id] = InKind(batch[id]) /\ inKind'[id] = InKind(b)
        /\ out[id] = Out(batch[id]) /\ out'[id] = Out(b)
    BY <1>2, <1>3 DEF Pooled, Unclaimed, InKind, Out
  <1>6. /\ totals.pooled = SumOver(pooled, ids)
        /\ totals.proceeds = SumOver(unclaimed, ids)
        /\ totals.rwa = SumOver(inKind, ids)
        /\ totals.sent = SumOver(out, ids)
    BY DEF TotalsExact
  <1>7. TotalsExact' <=> /\ totals'.pooled = SumOver(pooled', DOMAIN batch')
                         /\ totals'.proceeds = SumOver(unclaimed', DOMAIN batch')
                         /\ totals'.rwa = SumOver(inKind', DOMAIN batch')
                         /\ totals'.sent = SumOver(out', DOMAIN batch')
    BY DEF TotalsExact
  <1> HIDE DEF ids, pooled, unclaimed, inKind, out
  <1>8. SumOver(pooled', ids) = SumOver(pooled, ids) + (pooled'[id] - pooled[id])
    BY <1>2, <1>4, <1>5, SumChange DEF ids
  <1>9. SumOver(unclaimed', ids)
           = SumOver(unclaimed, ids) + (unclaimed'[id] - unclaimed[id])
    BY <1>2, <1>4, <1>5, SumChange DEF ids
  <1>10. SumOver(inKind', ids) = SumOver(inKind, ids) + (inKind'[id] - inKind[id])
    BY <1>2, <1>4, <1>5, SumChange DEF ids
  <1>11. SumOver(out', ids) = SumOver(out, ids) + (out'[id] - out[id])
    BY <1>2, <1>4, <1>5, SumChange DEF ids
  <1>12. QED
    BY <1>1, <1>2, <1>5, <1>6, <1>7, <1>8, <1>9, <1>10, <1>11

(* A rewrite keeps each account to one batch, with what it got back.       *)
LEMMA RewriteAccounts ==
    ASSUME TypeOK, AccountsExclusive, NEW id \in DOMAIN batch, NEW b, NEW c,
           Rewrites(id, b, c)
    PROVE  AccountsExclusive'
  <1> DEFINE old == Facing(batch[id])
             new == Facing(b)
  <1>1. /\ b \in Batches
        /\ batch' = [batch EXCEPT ![id] = b] /\ bal' \in Ledger
        /\ \A a \in Accounts :
              busy'[a] = IF a = new THEN id
                         ELSE IF a = old THEN None ELSE busy[a]
        /\ new # None /\ new # old => busy[new] = None
        /\ \A a \in Accounts \ {old, new} : bal'["rwa"][a] >= bal["rwa"][a]
        /\ new # None => bal'["rwa"][new] >= b.unsent
    BY DEF Rewrites, Reenters, Rebooks, Refaces
  <1>2. /\ \A i \in DOMAIN batch : batch[i] \in Batches
        /\ DOMAIN batch' = DOMAIN batch /\ batch'[id] = b
        /\ \A i \in DOMAIN batch \ {id} : batch'[i] = batch[i]
        /\ DOMAIN batch = 1 .. Len(batch)
    BY <1>1 DEF TypeOK
  <1>3. /\ \A i \in DOMAIN batch : Facing(batch[i]) \in Accounts \cup {None}
        /\ new \in Accounts \cup {None} /\ old \in Accounts \cup {None}
    BY <1>1, <1>2 DEF Batches, Facing
  <1>4. /\ \A a \in Accounts : busy[a] # None => Facing(batch[busy[a]]) = a
        /\ \A i \in DOMAIN batch : Facing(batch[i]) # None =>
              /\ busy[Facing(batch[i])] = i
              /\ bal["rwa"][Facing(batch[i])] >= batch[i].unsent
    BY DEF AccountsExclusive, Facing
  <1>5. \A a \in Accounts : busy[a] \in DOMAIN batch \cup {None}
    BY <1>2 DEF TypeOK
  <1> HIDE DEF old, new
  <1>6. ASSUME NEW a \in Accounts, busy'[a] # None
        PROVE  Facing(batch'[busy'[a]]) = a
    BY <1>1, <1>2, <1>3, <1>4, <1>5, <1>6 DEF old, new
  <1>7. ASSUME NEW i \in DOMAIN batch, Facing(batch'[i]) # None
        PROVE  /\ busy'[Facing(batch'[i])] = i
               /\ bal'["rwa"][Facing(batch'[i])] >= batch'[i].unsent
    <2>1. CASE i = id
      BY <1>1, <1>2, <1>3, <1>7, <2>1 DEF old, new
    <2>2. CASE i # id
      <3> DEFINE f == Facing(batch[i])
      <3>1. f \in Accounts /\ busy[f] = i /\ f # old /\ f # new
        BY <1>1, <1>2, <1>3, <1>4, <1>7, <2>2, Parties DEF old, new
      <3>2. /\ bal'["rwa"][f] >= bal["rwa"][f] /\ bal["rwa"][f] >= batch[i].unsent
            /\ batch[i].unsent \in Int
        BY <1>1, <1>2, <1>4, <1>7, <2>2, <3>1 DEF Batches
      <3>3. bal["rwa"][f] \in Int /\ bal'["rwa"][f] \in Int
        BY <1>1, <3>1, Parties DEF TypeOK, Ledger, Tokens
      <3>4. QED
        BY <1>1, <1>2, <2>2, <3>1, <3>2, <3>3
    <2>3. QED
      BY <2>1, <2>2
  <1>8. \A i \in DOMAIN batch : batch'[i] \in Batches
    BY <1>1, <1>2
  <1>9. QED
    BY <1>2, <1>6, <1>7, Parties DEF AccountsExclusive, Facing

(* A rewrite that keeps the books keeps the invariant.                     *)
LEMMA RewriteKeeps ==
    ASSUME VaultInv, NEW id \in DOMAIN batch, NEW b, NEW c, Rewrites(id, b, c)
    PROVE  VaultInv'
  <1>1. /\ TypeOK /\ TotalsExact /\ Covered /\ AccountsExclusive
        /\ OpenIsOpen /\ EntriesSound
    BY DEF VaultInv
  <1>2. TypeOK' /\ TotalsExact' /\ AccountsExclusive'
    BY <1>1, RewriteTypeOK, RewriteTotals, RewriteAccounts
  <1>3. Covered'
    <2>1. /\ bal'["stable"][VAULT] - bal["stable"][VAULT]
                >= totals'.proceeds - totals.proceeds
          /\ bal'["rwa"][VAULT] - bal["rwa"][VAULT]
                >= totals'.pooled + totals'.rwa - (totals.pooled + totals.rwa)
      BY DEF Rewrites, Reenters, Rebooks, Refaces
    <2>2. bal \in Ledger /\ bal' \in Ledger /\ totals \in Totals /\ totals' \in Totals
      BY <1>1, <1>2 DEF TypeOK, Ledger, Totals
    <2>3. /\ \A t \in Tokens : bal[t][VAULT] \in Int /\ bal'[t][VAULT] \in Int
          /\ totals.pooled \in Int /\ totals.proceeds \in Int /\ totals.rwa \in Int
          /\ totals'.pooled \in Int /\ totals'.proceeds \in Int /\ totals'.rwa \in Int
      BY <2>2, Parties DEF Ledger, Totals
    <2>4. QED
      BY <1>1, <2>1, <2>3 DEF Covered, Tokens
  <1>4. /\ EntrySound(b, c, settings) /\ settings' = settings
        /\ batch' = [batch EXCEPT ![id] = b] /\ ct' = [ct EXCEPT ![id] = c]
        /\ open' \in {open, None} /\ (open' = id => b.status = "Open")
    BY DEF Rewrites, Reenters, Rebooks, Refaces, govVars
  <1>5. /\ batch \in Seq(Batches) /\ ct \in Seq(ClaimTokens) /\ Len(ct) = Len(batch)
        /\ open \in (1 .. Len(batch)) \cup {None}
    BY <1>1 DEF TypeOK
  <1>6. /\ DOMAIN batch' = DOMAIN batch /\ DOMAIN ct = DOMAIN batch
        /\ batch'[id] = b /\ ct'[id] = c
        /\ \A i \in DOMAIN batch \ {id} : batch'[i] = batch[i] /\ ct'[i] = ct[i]
    BY <1>4, <1>5
  <1>7. OpenIsOpen'
    BY <1>1, <1>4, <1>5, <1>6 DEF OpenIsOpen
  <1>8. EntriesSound'
    BY <1>1, <1>4, <1>6 DEF EntriesSound
  <1>9. QED
    BY <1>2, <1>3, <1>7, <1>8 DEF VaultInv

(* So does a step that leaves the batches, their accounts and the totals   *)
(* alone, and takes no more from the vault than its surplus and nothing    *)
(* from its accounts.                                                      *)
LEMMA UntouchedKeeps ==
    ASSUME VaultInv, TypeOK', Covered',
           UNCHANGED <<settings, batch, ct, open, totals, busy>>,
           \A a \in Accounts : bal'["rwa"][a] >= bal["rwa"][a]
    PROVE  VaultInv'
  <1>1. /\ TypeOK /\ TotalsExact /\ AccountsExclusive /\ OpenIsOpen /\ EntriesSound
    BY DEF VaultInv
  <1>2. TotalsExact'
    BY <1>1 DEF TotalsExact
  <1>3. OpenIsOpen' /\ EntriesSound'
    BY <1>1 DEF OpenIsOpen, EntriesSound
  <1>4. AccountsExclusive'
    <2>1. bal \in Ledger /\ bal' \in Ledger /\ batch \in Seq(Batches)
      BY <1>1 DEF TypeOK, Ledger
    <2>2. \A a \in Accounts : bal["rwa"][a] \in Int /\ bal'["rwa"][a] \in Int
      BY <2>1, Parties DEF Ledger, Tokens
    <2>3. \A i \in DOMAIN batch : batch[i] \in Batches
      BY <2>1
    <2>4. \A i \in DOMAIN batch : /\ batch[i].unsent \in Int
                                  /\ batch[i].account \in Accounts \cup {None}
      BY <2>3 DEF Batches
    <2>5. QED
      BY <1>1, <2>2, <2>4 DEF AccountsExclusive
  <1>5. QED
    BY <1>2, <1>3, <1>4 DEF VaultInv

(* What the invariant says of one batch and of the tables.                 *)
LEMMA Entry ==
    ASSUME VaultInv, NEW id \in DOMAIN batch
    PROVE  /\ batch[id] \in Batches /\ ct[id] \in ClaimTokens
           /\ EntrySound(batch[id], ct[id], settings)
           /\ bal \in Ledger /\ totals \in Totals /\ settings \in Settings
           /\ busy \in [Accounts -> DOMAIN batch \cup {None}]
           /\ id # None
  <1>1. TypeOK /\ EntriesSound
    BY DEF VaultInv
  <1>2. /\ batch \in Seq(Batches) /\ ct \in Seq(ClaimTokens) /\ Len(ct) = Len(batch)
        /\ busy \in [Accounts -> (1 .. Len(batch)) \cup {None}]
    BY <1>1 DEF TypeOK
  <1>3. DOMAIN batch = 1 .. Len(batch) /\ DOMAIN ct = DOMAIN batch
    BY <1>2
  <1>4. id # None
    BY <1>3, Parties
  <1>5. QED
    BY <1>1, <1>2, <1>3, <1>4 DEF TypeOK, EntriesSound, Ledger, Totals

-----------------------------------------------------------------------------
(* Each operation keeps the invariant                                      *)

(* `cancel`.                                                               *)
LEMMA CancelKeeps ==
    ASSUME VaultInv, NEW id \in DOMAIN batch, NEW owner \in Holders,
           NEW amount \in Nat, NEW receiver \in CtHolders,
           Cancel(owner, id, amount, receiver)
    PROVE  VaultInv'
  <1> DEFINE o == batch[id]
             b == [o EXCEPT !.units = o.units - amount]
             c == CtBurn(ct[id], owner, amount)
  <1>1. /\ o \in Batches /\ ct[id] \in ClaimTokens
        /\ EntrySound(o, ct[id], settings)
        /\ bal \in Ledger /\ totals \in Totals
        /\ busy \in [Accounts -> DOMAIN batch \cup {None}] /\ id # None
    BY Entry
  <1>2. /\ o.status = "Open" /\ 0 < amount /\ amount <= o.units
        /\ CtCanBurn(ct[id], owner, amount)
        /\ ct' = [ct EXCEPT ![id] = c]
        /\ batch' = [batch EXCEPT ![id] = b]
        /\ totals' = [totals EXCEPT !.pooled = totals.pooled - amount]
        /\ CanSend(bal, "rwa", amount)
        /\ bal' = Send(bal, "rwa", receiver, amount)
        /\ UNCHANGED <<now, govVars, open, accounts, busy>>
    BY DEF Cancel
  <1>3. /\ b \in Batches /\ b.status = "Open" /\ b.units = o.units - amount
        /\ b.account = o.account /\ b.unsent = o.unsent /\ b.strike = o.strike
    BY <1>1, <1>2 DEF Batches
  <1>4. c \in ClaimTokens /\ SupplyExact(c) /\ c.supply = ct[id].supply - amount
    BY <1>1, <1>2, BurnEffect DEF EntrySound, TokenSound, CtHolders
  <1>5. bal' \in Ledger /\ bal'["stable"][VAULT] = bal["stable"][VAULT]
        /\ bal'["rwa"][VAULT] >= bal["rwa"][VAULT] - amount
        /\ \A a \in Accounts : bal'["rwa"][a] >= bal["rwa"][a]
    BY <1>1, <1>2, SendEffect, Parties DEF Tokens
  <1>6. /\ totals' \in Totals /\ totals'.pooled = totals.pooled - amount
        /\ totals'.proceeds = totals.proceeds /\ totals'.rwa = totals.rwa
        /\ totals'.sent = totals.sent
    BY <1>1, <1>2 DEF Totals
  <1> HIDE DEF b, c
  <1>7. EntrySound(b, c, settings)
    <2>1. o.units \in Int /\ ct[id].supply \in Int
      BY <1>1 DEF Batches, ClaimTokens
    <2>2. QED
      BY <1>1, <1>2, <1>3, <1>4, <2>1
      DEF EntrySound, BatchSound, SentUnder, TokenSound
  <1>8. Rewrites(id, b, c)
    <2>1. Facing(o) = None /\ Facing(b) = None
      BY <1>2, <1>3 DEF Facing
    <2>2. /\ Pooled(o) = o.units /\ Pooled(b) = o.units - amount
          /\ Unclaimed(b) = 0 /\ Unclaimed(o) = 0 /\ InKind(b) = 0 /\ InKind(o) = 0
          /\ Out(b) = 0 /\ Out(o) = 0 /\ o.units \in Int
      BY <1>1, <1>2, <1>3 DEF Pooled, Unclaimed, InKind, Out, Batches
    <2>3. /\ bal["rwa"][VAULT] \in Int /\ bal'["rwa"][VAULT] \in Int
          /\ bal["stable"][VAULT] \in Int
      BY <1>1, <1>5, Parties DEF Ledger, Tokens
    <2>4. /\ totals.pooled \in Int /\ totals.rwa \in Int /\ totals.sent \in Int
          /\ totals.proceeds \in Int
      BY <1>1 DEF Totals
    <2> HIDE DEF o
    <2>5. QED
      BY <1>1, <1>2, <1>3, <1>4, <1>5, <1>6, <1>7, <2>1, <2>2, <2>3, <2>4, Parties
      DEF Rewrites, Reenters, Rebooks, Refaces, o
  <1>9. QED
    BY <1>8, RewriteKeeps

(* A claimant's part is no more than what is left, all of it for the whole *)
(* supply, and never more than its share.                                  *)
LEMMA ShareFacts ==
    ASSUME NEW id, NEW shares \in Nat, NEW left \in Nat,
           ct[id].supply \in Nat \ {0}, shares <= ct[id].supply
    PROVE  /\ Share(id, shares, left) \in Nat
           /\ Share(id, shares, left) <= left
           /\ shares = ct[id].supply => Share(id, shares, left) = left
           /\ Share(id, shares, left) * ct[id].supply <= shares * left
  <1> DEFINE d == ct[id].supply
  <1>1. Share(id, shares, left) = MulDiv(shares, left, d)
    BY DEF Share
  <1> HIDE DEF d
  <1>2. d \in Nat \ {0} /\ shares <= d
    BY DEF d
  <1>3. /\ MulDiv(shares, left, d) \in Nat
        /\ MulDiv(shares, left, d) * d <= shares * left
    BY <1>2, MulDivBelow
  <1>4. MulDiv(shares, left, d) <= left
    BY <1>2, MulDivPart, MulDivCommutes
  <1>5. shares = d => MulDiv(shares, left, d) = left
    BY <1>2, MulDivWhole
  <1>6. QED
    BY <1>1, <1>3, <1>4, <1>5 DEF d

(* What a claim takes out of its batch, and what it leaves.                *)
LEMMA ClaimEffect ==
    ASSUME VaultInv, NEW id \in DOMAIN batch, NEW owner \in Holders,
           NEW shares \in Nat, NEW receiver,
           Claim(owner, id, shares, receiver)
    PROVE  LET assets == Share(id, shares, batch[id].remaining)
               units == Share(id, shares, batch[id].unsent)
           IN  /\ ct[id].supply \in Nat \ {0} /\ shares <= ct[id].supply
               /\ batch[id].remaining \in Nat /\ batch[id].unsent \in Nat
               /\ assets \in Nat /\ assets <= batch[id].remaining
               /\ units \in Nat /\ units <= batch[id].unsent
               /\ shares = ct[id].supply =>
                     assets = batch[id].remaining /\ units = batch[id].unsent
               /\ assets * ct[id].supply <= shares * batch[id].remaining
               /\ units * ct[id].supply <= shares * batch[id].unsent
  <1>1. /\ batch[id] \in Batches /\ ct[id] \in ClaimTokens
        /\ EntrySound(batch[id], ct[id], settings)
    BY Entry
  <1>2. /\ shares > 0 /\ ct[id].supply > 0
        /\ batch[id].remaining >= 0 /\ batch[id].unsent >= 0
        /\ ct[id].bal[owner] >= shares
    BY DEF Claim, CtCanBurn
  <1>3. batch[id].remaining \in Nat /\ batch[id].unsent \in Nat
    BY <1>1, <1>2 DEF Batches
  <1>4. ct[id].supply \in Nat /\ ct[id].bal[owner] <= ct[id].supply
        /\ ct[id].bal[owner] \in Nat
    BY <1>1, SupplyNat DEF EntrySound, TokenSound, CtHolders, ClaimTokens
  <1>5. ct[id].supply \in Nat \ {0} /\ shares <= ct[id].supply
    BY <1>2, <1>4
  <1>6. QED
    BY <1>3, <1>5, ShareFacts

(* `claim`.                                                                *)
LEMMA ClaimKeeps ==
    ASSUME VaultInv, NEW id \in DOMAIN batch, NEW owner \in Holders,
           NEW shares \in Nat, NEW receiver \in CtHolders,
           Claim(owner, id, shares, receiver)
    PROVE  VaultInv'
  <1> DEFINE o == batch[id]
             assets == Share(id, shares, o.remaining)
             units == Share(id, shares, o.unsent)
             b == [o EXCEPT !.remaining = o.remaining - assets,
                            !.unsent = o.unsent - units]
             c == CtBurn(ct[id], owner, shares)
  <1>1. /\ o \in Batches /\ ct[id] \in ClaimTokens
        /\ EntrySound(o, ct[id], settings)
        /\ bal \in Ledger /\ totals \in Totals
        /\ busy \in [Accounts -> DOMAIN batch \cup {None}] /\ id # None
    BY Entry
  <1>2. /\ ct[id].supply \in Nat \ {0} /\ shares <= ct[id].supply
        /\ o.remaining \in Nat /\ o.unsent \in Nat
        /\ assets \in Nat /\ assets <= o.remaining
        /\ units \in Nat /\ units <= o.unsent
        /\ shares = ct[id].supply => assets = o.remaining /\ units = o.unsent
    BY ClaimEffect
  <1>3. /\ totals' = [totals EXCEPT !.proceeds = totals.proceeds - assets,
                                    !.rwa = totals.rwa - units]
        /\ CanSend(bal, "stable", assets)
        /\ CanSend(Send(bal, "stable", receiver, assets), "rwa", units)
        /\ bal' = Send(Send(bal, "stable", receiver, assets), "rwa", receiver, units)
        /\ CtCanBurn(ct[id], owner, shares)
    BY DEF Claim
  <1>4. /\ o.status = "Settled" /\ shares > 0
        /\ ct' = [ct EXCEPT ![id] = c] /\ batch' = [batch EXCEPT ![id] = b]
        /\ UNCHANGED <<now, govVars, open, accounts, busy>>
    BY DEF Claim
  <1> HIDE DEF assets, units
  <1>5. /\ b \in Batches /\ b.status = "Settled"
        /\ b.remaining = o.remaining - assets /\ b.unsent = o.unsent - units
    <2> DEFINE r == o.remaining - assets
               u == o.unsent - units
    <2>1. r \in Int /\ u \in Int /\ o \in Batches /\ o.status = "Settled"
      BY <1>1, <1>2, <1>4
    <2>2. b = [o EXCEPT !.remaining = r, !.unsent = u]
      OBVIOUS
    <2> HIDE DEF b, o, r, u
    <2>3. b \in Batches /\ b.status = "Settled" /\ b.remaining = r /\ b.unsent = u
      BY <2>1, <2>2 DEF Batches
    <2>4. QED
      BY <2>3 DEF r, u
  <1>6. c \in ClaimTokens /\ SupplyExact(c) /\ c.supply = ct[id].supply - shares
    BY <1>1, <1>2, <1>3, BurnEffect DEF EntrySound, TokenSound, CtHolders
  <1>7. /\ bal' \in Ledger
        /\ bal'["stable"][VAULT] >= bal["stable"][VAULT] - assets
        /\ bal'["rwa"][VAULT] >= bal["rwa"][VAULT] - units
        /\ \A a \in Accounts : bal'["rwa"][a] >= bal["rwa"][a]
    <2> DEFINE m == Send(bal, "stable", receiver, assets)
    <2>1. assets \in Nat /\ units \in Nat
      BY <1>2
    <2>2. /\ m \in Ledger
          /\ m["stable"][VAULT] >= bal["stable"][VAULT] - assets
          /\ m["rwa"][VAULT] = bal["rwa"][VAULT]
          /\ \A a \in Accounts : m["rwa"][a] >= bal["rwa"][a]
      BY <1>1, <1>3, <2>1, SendEffect, Parties, SMTT(40) DEF Tokens
    <2>3. bal' = Send(m, "rwa", receiver, units) /\ CanSend(m, "rwa", units)
      BY <1>3
    <2> HIDE DEF m
    <2>4. /\ bal' \in Ledger /\ bal'["stable"][VAULT] = m["stable"][VAULT]
          /\ bal'["rwa"][VAULT] >= m["rwa"][VAULT] - units
          /\ \A a \in Accounts : bal'["rwa"][a] >= m["rwa"][a]
      BY <2>1, <2>2, <2>3, SendEffect, Parties DEF Tokens
    <2>5. \A a \in Accounts : /\ bal["rwa"][a] \in Int /\ m["rwa"][a] \in Int
                              /\ bal'["rwa"][a] \in Int
      BY <1>1, <2>2, <2>4, Parties DEF Ledger, Tokens
    <2>6. QED
      BY <2>2, <2>4, <2>5
  <1>8. /\ totals' \in Totals /\ totals'.pooled = totals.pooled
        /\ totals'.proceeds = totals.proceeds - assets
        /\ totals'.rwa = totals.rwa - units /\ totals'.sent = totals.sent
    <2> DEFINE p == totals.proceeds - assets
               r == totals.rwa - units
    <2>1. totals \in Totals /\ p \in Int /\ r \in Int
      BY <1>1, <1>2 DEF Totals
    <2>2. totals' = [totals EXCEPT !.proceeds = p, !.rwa = r]
      BY <1>3
    <2> HIDE DEF p, r
    <2>3. /\ totals' \in Totals /\ totals'.pooled = totals.pooled
          /\ totals'.proceeds = p /\ totals'.rwa = r /\ totals'.sent = totals.sent
      BY <2>1, <2>2 DEF Totals
    <2>4. QED
      BY <2>3 DEF p, r
  <1> HIDE DEF b, c
  <1>9. EntrySound(b, c, settings)
      BY <1>2, <1>5, <1>6
      DEF EntrySound, BatchSound, SentUnder, TokenSound
  <1>10. Rewrites(id, b, c)
    <2>1. Facing(o) = None /\ Facing(b) = None
      BY <1>4, <1>5 DEF Facing
    <2>2. /\ Pooled(o) = 0 /\ Pooled(b) = 0
          /\ Unclaimed(o) = o.remaining /\ Unclaimed(b) = o.remaining - assets
          /\ InKind(o) = o.unsent /\ InKind(b) = o.unsent - units
          /\ Out(b) = 0 /\ Out(o) = 0
      BY <1>4, <1>5 DEF Pooled, Unclaimed, InKind, Out
    <2>3. /\ bal["rwa"][VAULT] \in Int /\ bal'["rwa"][VAULT] \in Int
          /\ bal["stable"][VAULT] \in Int /\ bal'["stable"][VAULT] \in Int
      BY <1>1, <1>7, Parties DEF Ledger, Tokens
    <2>4. /\ totals.pooled \in Int /\ totals.rwa \in Int /\ totals.sent \in Int
          /\ totals.proceeds \in Int
      BY <1>1 DEF Totals
    <2>5. open' = id => b.status = "Open"
      <3>1. open' = open /\ OpenIsOpen
        BY <1>4 DEF VaultInv
      <3>2. QED
        BY <1>1, <1>4, <3>1 DEF OpenIsOpen
    <2> HIDE DEF o
    <2>6. QED
      BY <1>1, <1>2, <1>4, <1>5, <1>6, <1>7, <1>8, <1>9, <2>1, <2>2, <2>3, <2>4,
         <2>5, Parties
      DEF Rewrites, Reenters, Rebooks, Refaces, o
  <1>11. QED
    BY <1>10, RewriteKeeps

(* The account a batch is facing the issuer through is its own.            *)
LEMMA FacingOwn ==
    ASSUME VaultInv, NEW id \in DOMAIN batch
    PROVE  LET old == Facing(batch[id])
           IN  /\ old \in Accounts \cup {None}
               /\ old # None => /\ busy[old] = id
                                /\ bal["rwa"][old] >= batch[id].unsent
  <1>1. batch[id] \in Batches
    BY Entry
  <1>2. AccountsExclusive
    BY DEF VaultInv
  <1>3. QED
    BY <1>1, <1>2 DEF AccountsExclusive, Facing, Batches

(* A batch's claim token may change alone.                                 *)
LEMMA TokenKeeps ==
    ASSUME VaultInv, NEW id \in DOMAIN batch, NEW c \in ClaimTokens,
           TokenSound(batch[id], c),
           ct' = [ct EXCEPT ![id] = c],
           UNCHANGED <<now, govVars, batch, open, totals, accounts, busy, bal>>
    PROVE  VaultInv'
  <1>1. /\ TypeOK /\ TotalsExact /\ Covered /\ AccountsExclusive
        /\ OpenIsOpen /\ EntriesSound
    BY DEF VaultInv
  <1>2. TypeOK'
    BY <1>1 DEF TypeOK, govVars
  <1>3. TotalsExact' /\ Covered' /\ AccountsExclusive' /\ OpenIsOpen'
    BY <1>1 DEF TotalsExact, Covered, AccountsExclusive, OpenIsOpen
  <1>4. EntriesSound'
    <2>1. /\ ct'[id] = c /\ \A i \in DOMAIN batch \ {id} : ct'[i] = ct[i]
      BY <1>1 DEF TypeOK
    <2>2. settings' = settings
      BY DEF govVars
    <2>3. EntrySound(batch[id], c, settings)
      BY <1>1 DEF EntriesSound, EntrySound
    <2>4. QED
      BY <1>1, <2>1, <2>2, <2>3 DEF EntriesSound
  <1>5. QED
    BY <1>2, <1>3, <1>4 DEF VaultInv

(* A covered transfer of a claim token leaves its supply alone.            *)
LEMMA MoveEffect ==
    ASSUME NEW c \in ClaimTokens, SupplyExact(c), NEW from \in CtHolders,
           NEW to \in CtHolders, NEW n \in Nat, c.bal[from] >= n
    PROVE  /\ CtMove(c, from, to, n) \in ClaimTokens
           /\ SupplyExact(CtMove(c, from, to, n))
           /\ CtMove(c, from, to, n).supply = c.supply
  <1> DEFINE f == [c.bal EXCEPT ![from] = c.bal[from] - n]
             g == [f EXCEPT ![to] = f[to] + n]
             d == [c EXCEPT !.bal = f]
             m == [d EXCEPT !.bal = g]
  <1>1. c.bal \in [CtHolders -> Nat] /\ c.supply \in Int
    BY DEF ClaimTokens
  <1>2. f \in [CtHolders -> Nat] /\ f[from] - c.bal[from] = -n
        /\ \A h \in CtHolders \ {from} : f[h] = c.bal[h]
    BY <1>1
  <1> HIDE DEF f
  <1>3. g \in [CtHolders -> Nat] /\ g[to] - f[to] = n
        /\ \A h \in CtHolders \ {to} : g[h] = f[h]
    BY <1>2
  <1> HIDE DEF g
  <1>4. d \in ClaimTokens /\ d.bal = f /\ d.supply = c.supply
    BY <1>2 DEF ClaimTokens
  <1>5. CtMove(c, from, to, n) = m
    BY <1>4 DEF CtMove, f, g, ClaimTokens
  <1> HIDE DEF d
  <1>6. m \in ClaimTokens /\ m.bal = g /\ m.supply = c.supply
    BY <1>3, <1>4 DEF ClaimTokens
  <1>7. \A h \in CtHolders : c.bal[h] \in Int /\ f[h] \in Int /\ g[h] \in Int
    BY <1>1, <1>2, <1>3
  <1>8. /\ SumOver(f, CtHolders) = SumOver(c.bal, CtHolders) + (f[from] - c.bal[from])
        /\ SumOver(g, CtHolders) = SumOver(f, CtHolders) + (g[to] - f[to])
    BY <1>2, <1>3, <1>7, CtHoldersFinite, SumChange
  <1>9. SumOver(g, CtHolders) = c.supply
    BY <1>1, <1>2, <1>3, <1>8 DEF SupplyExact
  <1> HIDE DEF m
  <1>10. QED
    BY <1>5, <1>6, <1>9 DEF SupplyExact

(* Trading a claim token moves its balances and no supply.                 *)
LEMMA TransferCtKeeps ==
    ASSUME VaultInv, NEW id \in DOMAIN batch, NEW from \in Holders,
           NEW to \in CtHolders, NEW amount \in Nat,
           TransferCt(id, from, to, amount)
    PROVE  VaultInv'
  <1> DEFINE c == CtMove(ct[id], from, to, amount)
  <1>1. ct[id] \in ClaimTokens /\ EntrySound(batch[id], ct[id], settings)
    BY Entry
  <1>2. /\ ct[id].bal[from] >= amount /\ ct' = [ct EXCEPT ![id] = c]
        /\ UNCHANGED <<now, govVars, batch, open, totals, accounts, busy, bal>>
    BY DEF TransferCt
  <1>3. c \in ClaimTokens /\ SupplyExact(c) /\ c.supply = ct[id].supply
    BY <1>1, <1>2, MoveEffect DEF EntrySound, TokenSound, CtHolders
  <1> HIDE DEF c
  <1>4. TokenSound(batch[id], c)
    BY <1>1, <1>3 DEF EntrySound, TokenSound
  <1>5. QED
    BY <1>2, <1>3, <1>4, TokenKeeps

(* So does a holder that burns its claim token directly.                   *)
LEMMA BurnCtKeeps ==
    ASSUME VaultInv, NEW id \in DOMAIN batch, NEW from \in Burners,
           NEW amount \in Nat, BurnCt(id, from, amount)
    PROVE  VaultInv'
  <1> DEFINE c == CtBurn(ct[id], from, amount)
  <1>1. /\ ct[id] \in ClaimTokens /\ EntrySound(batch[id], ct[id], settings)
        /\ batch[id] \in Batches
    BY Entry
  <1>2. /\ CtCanBurn(ct[id], from, amount) /\ ct' = [ct EXCEPT ![id] = c]
        /\ UNCHANGED <<now, govVars, batch, open, totals, accounts, busy, bal>>
    BY DEF BurnCt
  <1>3. from \in CtHolders
    BY VaultAssumption DEF CtHolders
  <1>4. c \in ClaimTokens /\ SupplyExact(c) /\ c.supply = ct[id].supply - amount
    BY <1>1, <1>2, <1>3, BurnEffect DEF EntrySound, TokenSound
  <1> HIDE DEF c
  <1>5. ct[id].supply \in Int /\ batch[id].units \in Int
    BY <1>1 DEF ClaimTokens, Batches
  <1>6. TokenSound(batch[id], c)
    BY <1>1, <1>3, <1>4, <1>5 DEF EntrySound, TokenSound
  <1>7. QED
    BY <1>2, <1>4, <1>6, TokenKeeps

(* A batch that leaves, to an account or to the operator.                  *)
LEMMA MarkSentKeeps ==
    ASSUME VaultInv, NEW id \in DOMAIN batch, NEW a \in Accounts \cup {None},
           NEW nav \in Nat, batch[id].status = "Open", MarkSent(id, a, nav),
           a # None <=> settings.mode = "Auto",
           UNCHANGED <<now, govVars, ct, accounts>>,
           bal' \in Ledger, bal'["stable"][VAULT] = bal["stable"][VAULT],
           bal'["rwa"][VAULT] >= bal["rwa"][VAULT] - batch[id].units,
           \A x \in Accounts : bal'["rwa"][x] >= bal["rwa"][x],
           busy' \in [Accounts -> DOMAIN batch \cup {None}],
           \A x \in Accounts : busy'[x] = IF x = a THEN id ELSE busy[x],
           a # None => busy[a] = None
    PROVE  VaultInv'
  <1> DEFINE o == batch[id]
             strike == IF settings.strike_at_send THEN nav ELSE o.strike
             b == [o EXCEPT !.status = "Sent", !.account = a, !.strike = strike]
             c == ct[id]
  <1>1. /\ o \in Batches /\ c \in ClaimTokens /\ EntrySound(o, c, settings)
        /\ bal \in Ledger /\ totals \in Totals /\ settings \in Settings /\ id # None
    BY Entry
  <1>2. /\ o.units > 0 /\ (settings.strike_at_send => nav # 0)
        /\ open' = IF open = id THEN None ELSE open
        /\ batch' = [batch EXCEPT ![id] = b]
        /\ totals' = [totals EXCEPT !.pooled = totals.pooled - o.units,
                                    !.sent = totals.sent + 1]
    BY DEF MarkSent
  <1>3. /\ o.status = "Open" /\ o.account = None /\ o.unsent = 0 /\ o.strike = 0
        /\ o.units \in Nat /\ c.supply <= o.units /\ SupplyExact(c)
    BY <1>1 DEF EntrySound, BatchSound, TokenSound, Batches
  <1>4. strike \in Nat /\ (strike # 0 <=> settings.strike_at_send)
    BY <1>2, <1>3
  <1> HIDE DEF strike
  <1>5. /\ b \in Batches /\ b.status = "Sent" /\ b.account = a /\ b.strike = strike
        /\ b.units = o.units /\ b.unsent = o.unsent /\ b.remaining = o.remaining
    BY <1>1, <1>4 DEF Batches
  <1>6. /\ totals' \in Totals /\ totals'.pooled = totals.pooled - o.units
        /\ totals'.proceeds = totals.proceeds /\ totals'.rwa = totals.rwa
        /\ totals'.sent = totals.sent + 1
    <2> DEFINE p == totals.pooled - o.units
               n == totals.sent + 1
    <2>1. p \in Int /\ n \in Int
      BY <1>1, <1>3 DEF Totals
    <2> HIDE DEF p, n
    <2>2. totals' = [totals EXCEPT !.pooled = p, !.sent = n]
      BY <1>2 DEF p, n
    <2>3. QED
      BY <1>1, <2>1, <2>2 DEF Totals, p, n
  <1>7. ct' = [ct EXCEPT ![id] = c]
    <2>1. ct \in Seq(ClaimTokens) /\ ct' = ct
      BY DEF VaultInv, TypeOK
    <2>2. QED
      BY <2>1
  <1> HIDE DEF b
  <1>8. EntrySound(b, c, settings)
    BY <1>2, <1>3, <1>4, <1>5
    DEF EntrySound, BatchSound, SentUnder, TokenSound
  <1>9. Rewrites(id, b, c)
    <2>1. Facing(o) = None /\ Facing(b) = a
      BY <1>3, <1>5 DEF Facing
    <2>2. /\ Pooled(o) = o.units /\ Pooled(b) = 0
          /\ Unclaimed(b) = 0 /\ Unclaimed(o) = 0 /\ InKind(b) = 0 /\ InKind(o) = 0
          /\ Out(b) = 1 /\ Out(o) = 0
      BY <1>3, <1>5 DEF Pooled, Unclaimed, InKind, Out
    <2>3. /\ bal["rwa"][VAULT] \in Int /\ bal'["rwa"][VAULT] \in Int
          /\ bal["stable"][VAULT] \in Int
      BY <1>1, Parties DEF Ledger, Tokens
    <2>4. \A x \in Accounts : bal["rwa"][x] \in Nat /\ bal'["rwa"][x] \in Nat
      BY <1>1, Parties DEF Ledger, Tokens
    <2>5. /\ totals.pooled \in Int /\ totals.rwa \in Int /\ totals.sent \in Int
          /\ totals.proceeds \in Int
      BY <1>1 DEF Totals
    <2>6. /\ open' \in {open, None} /\ (open' = id => b.status = "Open")
      BY <1>1, <1>2
    <2>7. a # None => bal'["rwa"][a] >= b.unsent
      BY <1>3, <1>5, <2>4
    <2>8. Reenters(id, b, c)
      BY <1>1, <1>2, <1>5, <1>7, <1>8, <2>6 DEF Reenters
    <2> HIDE DEF o, c
    <2>9. Rebooks(id, b)
      BY <1>3, <1>6, <2>2, <2>3, <2>5 DEF Rebooks, o
    <2>10. Refaces(id, b)
      BY <1>1, <2>1, <2>7, Parties DEF Refaces, o
    <2>11. QED
      BY <2>8, <2>9, <2>10 DEF Rewrites
  <1>10. QED
    BY <1>9, RewriteKeeps

(* `redeem_batch` of an open batch.                                        *)
LEMMA RedeemBatchKeeps ==
    ASSUME VaultInv, NEW id \in DOMAIN batch, NEW nav \in Nat, RedeemBatch(id, nav)
    PROVE  VaultInv'
  <1>1. PICK a \in Accounts : /\ FreeAccount(a)
                              /\ busy' = [busy EXCEPT ![a] = id]
                              /\ MarkSent(id, a, nav)
    BY DEF RedeemBatch
  <1>2. /\ batch[id].status = "Open" /\ settings.mode = "Auto"
        /\ bal["rwa"][VAULT] >= batch[id].units
        /\ bal' = Transfer(bal, "rwa", VAULT, Issuer, batch[id].units)
        /\ UNCHANGED <<now, govVars, ct, accounts>>
    BY DEF RedeemBatch
  <1>3. /\ batch[id] \in Batches /\ bal \in Ledger
        /\ busy \in [Accounts -> DOMAIN batch \cup {None}]
    BY Entry
  <1>4. batch[id].units \in Nat
    BY <1>3 DEF Batches
  <1>5. busy[a] = None /\ a # None
    BY <1>1, Parties DEF FreeAccount
  <1>6. /\ busy' \in [Accounts -> DOMAIN batch \cup {None}]
        /\ \A x \in Accounts : busy'[x] = IF x = a THEN id ELSE busy[x]
    BY <1>1, <1>3
  <1>7. /\ bal' \in Ledger
        /\ \A t \in Tokens, x \in Addresses :
              bal'[t][x] = bal[t][x]
                 - (IF t = "rwa" /\ x = VAULT THEN batch[id].units ELSE 0)
                 + (IF t = "rwa" /\ x = Issuer THEN batch[id].units ELSE 0)
    BY <1>2, <1>3, <1>4, TransferEffect, Parties DEF Tokens
  <1>8. \A t \in Tokens, x \in Addresses : bal[t][x] \in Nat
    BY <1>3 DEF Ledger
  <1>9. /\ bal'["stable"][VAULT] = bal["stable"][VAULT]
        /\ bal'["rwa"][VAULT] >= bal["rwa"][VAULT] - batch[id].units
        /\ \A x \in Accounts : bal'["rwa"][x] >= bal["rwa"][x]
    BY <1>4, <1>7, <1>8, Parties DEF Tokens
  <1>10. QED
    BY <1>1, <1>2, <1>5, <1>6, <1>7, <1>9, MarkSentKeeps

(* `withdraw_batch`.                                                       *)
LEMMA WithdrawBatchKeeps ==
    ASSUME VaultInv, NEW id \in DOMAIN batch, NEW nav \in Nat,
           WithdrawBatch(id, Operator, nav)
    PROVE  VaultInv'
  <1>1. /\ batch[id].status = "Open" /\ settings.mode = "Manual"
        /\ CanSend(bal, "rwa", batch[id].units)
        /\ bal' = Send(bal, "rwa", Operator, batch[id].units)
        /\ MarkSent(id, None, nav)
        /\ UNCHANGED <<now, govVars, ct, accounts, busy>>
    BY DEF WithdrawBatch
  <1>2. /\ batch[id] \in Batches /\ bal \in Ledger
        /\ busy \in [Accounts -> DOMAIN batch \cup {None}]
    BY Entry
  <1>3. batch[id].units \in Nat
    BY <1>2 DEF Batches
  <1>4. /\ bal' \in Ledger /\ bal'["stable"][VAULT] = bal["stable"][VAULT]
        /\ bal'["rwa"][VAULT] >= bal["rwa"][VAULT] - batch[id].units
        /\ \A x \in Accounts : bal'["rwa"][x] >= bal["rwa"][x]
    BY <1>1, <1>2, <1>3, SendEffect, Parties DEF Tokens
  <1>5. /\ busy' \in [Accounts -> DOMAIN batch \cup {None}]
        /\ \A x \in Accounts : busy'[x] = IF x = None THEN id ELSE busy[x]
    BY <1>1, <1>2, Parties
  <1>6. QED
    BY <1>1, <1>4, <1>5, MarkSentKeeps

(* What is handed back, or goes again, moves only in its batch's account.  *)
LEMMA ReturnKeeps ==
    ASSUME VaultInv, NEW id \in DOMAIN batch, NEW u \in Nat,
           batch[id].status = "Sent", batch[id].account # None, u <= batch[id].units,
           batch' = [batch EXCEPT ![id] = [batch[id] EXCEPT !.unsent = u]],
           UNCHANGED <<now, govVars, ct, open, totals, accounts, busy>>,
           bal' \in Ledger, \A t \in Tokens : bal'[t][VAULT] = bal[t][VAULT],
           \A x \in Accounts \ {batch[id].account} : bal'["rwa"][x] = bal["rwa"][x],
           bal'["rwa"][batch[id].account] >= u
    PROVE  VaultInv'
  <1> DEFINE o == batch[id]
             b == [o EXCEPT !.unsent = u]
             c == ct[id]
             f == o.account
  <1>1. /\ o \in Batches /\ c \in ClaimTokens /\ EntrySound(o, c, settings)
        /\ bal \in Ledger /\ totals \in Totals /\ id # None
        /\ busy \in [Accounts -> DOMAIN batch \cup {None}]
    BY Entry
  <1>2. /\ b \in Batches /\ b.status = o.status /\ b.account = o.account
        /\ b.strike = o.strike /\ b.units = o.units /\ b.unsent = u
    BY <1>1 DEF Batches
  <1>3. ct' = [ct EXCEPT ![id] = c]
    <2>1. ct \in Seq(ClaimTokens) /\ ct' = ct
      BY DEF VaultInv, TypeOK
    <2>2. QED
      BY <2>1
  <1>4. Facing(o) = f /\ f \in Accounts /\ busy[f] = id
    BY <1>1, FacingOwn DEF Facing, Batches
  <1>5. open = id => FALSE
    BY <1>1 DEF VaultInv, OpenIsOpen
  <1> HIDE DEF b
  <1>6. Facing(b) = f
    BY <1>2 DEF Facing
  <1>7. EntrySound(b, c, settings)
    BY <1>1, <1>2 DEF EntrySound, BatchSound, SentUnder, TokenSound
  <1>8. Reenters(id, b, c)
    BY <1>1, <1>2, <1>3, <1>5, <1>7 DEF Reenters, b
  <1>9. Rebooks(id, b)
    <2>1. /\ Pooled(b) = 0 /\ Pooled(o) = 0 /\ Unclaimed(b) = 0 /\ Unclaimed(o) = 0
          /\ InKind(b) = 0 /\ InKind(o) = 0 /\ Out(b) = 1 /\ Out(o) = 1
      BY <1>2 DEF Pooled, Unclaimed, InKind, Out
    <2>2. /\ bal["rwa"][VAULT] \in Int /\ bal["stable"][VAULT] \in Int
          /\ bal'["rwa"][VAULT] = bal["rwa"][VAULT]
          /\ bal'["stable"][VAULT] = bal["stable"][VAULT]
      BY <1>1, Parties DEF Ledger, Tokens
    <2>3. /\ totals.pooled \in Int /\ totals.rwa \in Int /\ totals.sent \in Int
          /\ totals.proceeds \in Int
      BY <1>1 DEF Totals
    <2>4. QED
      BY <1>1, <2>1, <2>2, <2>3 DEF Rebooks
  <1>10. Refaces(id, b)
    <2>1. \A x \in Accounts : bal["rwa"][x] \in Int
      BY <1>1, Parties DEF Ledger, Tokens
    <2>2. QED
      BY <1>1, <1>2, <1>4, <1>6, <2>1, Parties DEF Refaces
  <1>11. QED
    BY <1>8, <1>9, <1>10, RewriteKeeps DEF Rewrites

(* `redeem_batch` of a batch that came back in part.                       *)
LEMMA ResendKeeps ==
    ASSUME VaultInv, NEW id \in DOMAIN batch, Resend(id)
    PROVE  VaultInv'
  <1> DEFINE o == batch[id]
             f == o.account
  <1>1. /\ o \in Batches /\ EntrySound(o, ct[id], settings) /\ bal \in Ledger
    BY Entry
  <1>2. /\ o.status = "Sent" /\ f # None /\ bal["rwa"][f] >= o.unsent
        /\ bal' = Transfer(bal, "rwa", f, Issuer, o.unsent)
        /\ batch' = [batch EXCEPT ![id] = [o EXCEPT !.unsent = 0]]
        /\ UNCHANGED <<now, govVars, ct, open, totals, accounts, busy>>
    BY DEF Resend
  <1>3. o.unsent \in Nat /\ o.units \in Nat /\ f \in Accounts
    BY <1>1, <1>2 DEF EntrySound, BatchSound, Batches
  <1>4. /\ bal' \in Ledger
        /\ \A t \in Tokens, x \in Addresses :
              bal'[t][x] = bal[t][x] - (IF t = "rwa" /\ x = f THEN o.unsent ELSE 0)
                                     + (IF t = "rwa" /\ x = Issuer THEN o.unsent ELSE 0)
    BY <1>1, <1>2, <1>3, TransferEffect, Parties, SMTT(40) DEF Tokens
  <1>5. \A t \in Tokens, x \in Addresses : bal[t][x] \in Nat
    BY <1>1 DEF Ledger
  <1> HIDE DEF f, o
  <1>6. /\ \A t \in Tokens : bal'[t][VAULT] = bal[t][VAULT]
        /\ \A x \in Accounts \ {f} : bal'["rwa"][x] = bal["rwa"][x]
        /\ bal'["rwa"][f] >= 0
    BY <1>2, <1>3, <1>4, <1>5, Parties DEF Tokens
  <1>7. 0 \in Nat /\ 0 <= o.units
    BY <1>3
  <1>8. QED
    BY <1>2, <1>4, <1>6, <1>7, ReturnKeeps DEF f, o

(* A sent batch that leaves its account leaves it free.                    *)
LEMMA FreedAccount ==
    ASSUME VaultInv, NEW id \in DOMAIN batch, NEW b \in Batches,
           batch[id].status = "Sent", batch[id].account # None,
           b.status # "Sent", busy' = [busy EXCEPT ![batch[id].account] = None],
           \A x \in Accounts \ {batch[id].account} : bal'["rwa"][x] >= bal["rwa"][x]
    PROVE  Refaces(id, b)
  <1>1. /\ batch[id] \in Batches
        /\ busy \in [Accounts -> DOMAIN batch \cup {None}]
    BY Entry
  <1>2. Facing(batch[id]) = batch[id].account /\ batch[id].account \in Accounts
        /\ Facing(b) = None
    BY <1>1 DEF Facing, Batches
  <1>3. QED
    BY <1>1, <1>2, Parties DEF Refaces

(* A batch with another strike and another amount back is one.             *)
LEMMA BatchRewritten ==
    ASSUME NEW b \in Batches, NEW u \in Int, NEW s \in Nat
    PROVE  [b EXCEPT !.unsent = u, !.strike = s] \in Batches
  BY DEF Batches

(* A reopened batch has its units and nothing else.                        *)
LEMMA ReopenedEffect ==
    ASSUME NEW b \in Batches
    PROVE  /\ Reopened(b) \in Batches /\ Reopened(b).status = "Open"
           /\ Reopened(b).account = None /\ Reopened(b).strike = 0
           /\ Reopened(b).unsent = 0 /\ Reopened(b).units = b.units
           /\ b.units \in Nat
  <1>1. b.units \in Nat
    BY DEF Batches
  <1>2. Reopened(b) \in Batches
    <2> DEFINE m == [b EXCEPT !.status = "Open", !.account = None]
    <2>1. m \in Batches
      BY DEF Batches
    <2>2. Reopened(b) = [m EXCEPT !.unsent = 0, !.strike = 0]
      BY DEF Reopened
    <2>3. 0 \in Int /\ 0 \in Nat
      OBVIOUS
    <2> HIDE DEF m
    <2>4. [m EXCEPT !.unsent = 0, !.strike = 0] \in Batches
      BY <2>1, <2>3, BatchRewritten, Zenon
    <2>5. QED
      BY <2>2, <2>4
  <1>3. /\ Reopened(b).status = "Open" /\ Reopened(b).account = None
        /\ Reopened(b).strike = 0 /\ Reopened(b).unsent = 0
        /\ Reopened(b).units = b.units
    BY DEF Batches, Reopened
  <1>4. QED
    BY <1>1, <1>2, <1>3

(* All of a batch is back: it is open again, beside any other.             *)
LEMMA ReopenedKeeps ==
    ASSUME VaultInv, NEW id \in DOMAIN batch,
           batch[id].status = "Sent", batch[id].account # None,
           bal["rwa"][batch[id].account] >= batch[id].units,
           bal' = Transfer(bal, "rwa", batch[id].account, VAULT,
                           bal["rwa"][batch[id].account]),
           busy' = [busy EXCEPT ![batch[id].account] = None],
           totals' = PooledAgain(batch[id]),
           batch' = [batch EXCEPT ![id] = Reopened(batch[id])],
           UNCHANGED <<now, govVars, ct, open, accounts>>
    PROVE  VaultInv'
  <1> DEFINE o == batch[id]
             b == Reopened(o)
             c == ct[id]
             f == o.account
             back == bal["rwa"][f]
  <1>1. /\ o \in Batches /\ c \in ClaimTokens /\ EntrySound(o, c, settings)
        /\ bal \in Ledger /\ totals \in Totals /\ id # None
    BY Entry
  <1>2. /\ b \in Batches /\ b.status = "Open" /\ b.account = None
        /\ b.strike = 0 /\ b.units = o.units /\ b.unsent = 0 /\ o.units \in Nat
    BY <1>1, ReopenedEffect
  <1>3. ct' = [ct EXCEPT ![id] = c]
    <2>1. ct \in Seq(ClaimTokens) /\ ct' = ct
      BY DEF VaultInv, TypeOK
    <2>2. QED
      BY <2>1
  <1>4. f \in Accounts
    BY <1>1 DEF Batches
  <1>5. \A t \in Tokens, x \in Addresses : bal[t][x] \in Nat
    BY <1>1 DEF Ledger
  <1>6. back \in Nat /\ back >= o.units
    BY <1>4, <1>5, Parties DEF Tokens
  <1>7. /\ bal' \in Ledger
        /\ \A t \in Tokens, x \in Addresses :
              bal'[t][x] = bal[t][x] - (IF t = "rwa" /\ x = f THEN back ELSE 0)
                                     + (IF t = "rwa" /\ x = VAULT THEN back ELSE 0)
    BY <1>1, <1>4, <1>6, TransferEffect, Parties DEF Tokens
  <1>8. EntrySound(b, c, settings)
    <2> HIDE DEF b
    <2>1. QED
      BY <1>1, <1>2 DEF EntrySound, BatchSound, SentUnder, TokenSound
  <1>9. Reenters(id, b, c)
    BY <1>1, <1>2, <1>3, <1>8 DEF Reenters
  <1>10. Rebooks(id, b)
    <2>1. /\ Pooled(b) = o.units /\ Pooled(o) = 0 /\ Unclaimed(b) = 0
          /\ Unclaimed(o) = 0 /\ InKind(b) = 0 /\ InKind(o) = 0
          /\ Out(b) = 0 /\ Out(o) = 1
      BY <1>2 DEF Pooled, Unclaimed, InKind, Out
    <2>2. /\ totals.pooled \in Int /\ totals.rwa \in Int /\ totals.sent \in Int
          /\ totals.proceeds \in Int
      BY <1>1 DEF Totals
    <2>3. /\ totals' \in Totals /\ totals'.pooled = totals.pooled + o.units
          /\ totals'.proceeds = totals.proceeds /\ totals'.rwa = totals.rwa
          /\ totals'.sent = totals.sent - 1
      <3> DEFINE p == totals.pooled + o.units
                 n == totals.sent - 1
      <3>1. p \in Int /\ n \in Int
        BY <1>2, <2>2
      <3>2. totals' = [totals EXCEPT !.pooled = p, !.sent = n]
        BY DEF PooledAgain
      <3> HIDE DEF p, n
      <3>3. QED
        BY <1>1, <3>1, <3>2 DEF Totals, p, n
    <2> HIDE DEF back, f
    <2>4. /\ bal'["rwa"][VAULT] = bal["rwa"][VAULT] + back
          /\ bal'["stable"][VAULT] = bal["stable"][VAULT]
          /\ bal["rwa"][VAULT] \in Int /\ bal["stable"][VAULT] \in Int
      BY <1>4, <1>5, <1>6, <1>7, Parties DEF Tokens
    <2> HIDE DEF b, o
    <2>5. QED
      BY <1>2, <1>6, <1>7, <2>1, <2>2, <2>3, <2>4 DEF Rebooks, o
  <1>11. \A x \in Accounts \ {f} : bal'["rwa"][x] >= bal["rwa"][x]
    <2> HIDE DEF back, f
    <2>1. QED
      BY <1>4, <1>5, <1>6, <1>7, Parties DEF Tokens
  <1>12. Refaces(id, b)
    BY <1>2, <1>11, FreedAccount
  <1>13. QED
    BY <1>9, <1>10, <1>12, RewriteKeeps DEF Rewrites

(* `reopen`.                                                               *)
LEMMA ReopenKeeps ==
    ASSUME VaultInv, NEW id \in DOMAIN batch, NEW returned \in Nat,
           Reopen(id, returned)
    PROVE  VaultInv'
  <1> DEFINE o == batch[id]
             unsent == o.unsent + returned
  <1>1. /\ o \in Batches /\ EntrySound(o, ct[id], settings) /\ bal \in Ledger
    BY Entry
  <1>2. /\ o.status = "Sent" /\ o.account # None /\ unsent <= o.units
        /\ bal["rwa"][o.account] >= unsent
        /\ UNCHANGED <<now, govVars, ct, open, accounts>>
    BY DEF Reopen
  <1>3. unsent \in Nat /\ o.account \in Accounts
    BY <1>1, <1>2 DEF EntrySound, BatchSound, Batches
  <1>4. CASE /\ unsent < o.units
             /\ batch' = [batch EXCEPT ![id] = [o EXCEPT !.unsent = unsent]]
             /\ UNCHANGED <<bal, busy, totals>>
    <2> HIDE DEF unsent, o
    <2>1. QED
      BY <1>1, <1>2, <1>3, <1>4, ReturnKeeps DEF o
  <1>5. CASE /\ unsent = o.units
             /\ bal' = Transfer(bal, "rwa", o.account, VAULT, bal["rwa"][o.account])
             /\ busy' = [busy EXCEPT ![o.account] = None]
             /\ totals' = PooledAgain(o)
             /\ batch' = [batch EXCEPT ![id] = Reopened(o)]
    BY <1>2, <1>5, ReopenedKeeps
  <1>6. QED
    BY <1>4, <1>5 DEF Reopen

(* A settled batch has what it was given.                                  *)
SettledAs(o, u, r) ==
    [o EXCEPT !.status = "Settled", !.unsent = u, !.remaining = r]
(* What settling writes into a batch, field by field.                      *)
LEMMA SettledEffect ==
    ASSUME NEW o \in Batches, NEW u \in Int, NEW r \in Int
    PROVE  /\ SettledAs(o, u, r) \in Batches /\ SettledAs(o, u, r).status = "Settled"
           /\ SettledAs(o, u, r).unsent = u /\ SettledAs(o, u, r).remaining = r
  <1> DEFINE k == [o EXCEPT !.status = "Settled"]
  <1>1. k \in Batches /\ k.status = "Settled"
    BY DEF Batches
  <1>2. SettledAs(o, u, r) = [k EXCEPT !.unsent = u, !.remaining = r]
    BY DEF SettledAs
  <1> HIDE DEF k
  <1>3. QED
    BY <1>1, <1>2 DEF Batches

(* `finish`, once the proceeds and the returned RWA are in the vault.      *)
LEMMA FinishKeeps ==
    ASSUME VaultInv, NEW id \in DOMAIN batch, NEW m \in Ledger,
           NEW proceeds \in Nat, NEW unsent \in Nat,
           batch[id].status = "Sent", Finish(id, m, proceeds, unsent),
           m["stable"][VAULT] >= bal["stable"][VAULT] + proceeds,
           m["rwa"][VAULT] >= bal["rwa"][VAULT] + unsent,
           UNCHANGED <<now, govVars, ct, open, accounts>>,
           \A b \in Batches : b.status = "Settled" /\ bal' \in Ledger
              /\ (\A x \in Accounts : bal'["rwa"][x] >= m["rwa"][x])
              => Refaces(id, b)
    PROVE  VaultInv'
  <1> DEFINE o == batch[id]
             c == ct[id]
             fee == MulDiv(proceeds, settings.fee_bps, BPS)
             net == proceeds - fee
             b == SettledAs(o, unsent, net)
  <1>1. /\ o \in Batches /\ c \in ClaimTokens /\ EntrySound(o, c, settings)
        /\ bal \in Ledger /\ totals \in Totals /\ settings \in Settings /\ id # None
    BY Entry
  <1>2. fee \in Nat /\ fee <= proceeds
    <2>1. settings.fee_bps \in Nat /\ settings.fee_bps <= BPS /\ BPS \in Nat \ {0}
      BY <1>1, VaultAssumption DEF Settings
    <2>2. QED
      BY <2>1, MulDivPart
  <1> HIDE DEF fee
  <1>3. net \in Nat /\ net = proceeds - fee
    BY <1>2
  <1>4. /\ totals' = [totals EXCEPT !.proceeds = totals.proceeds + proceeds - fee,
                                    !.rwa = totals.rwa + unsent,
                                    !.sent = totals.sent - 1]
        /\ batch' = [batch EXCEPT ![id] = b]
        /\ bal' = IF settings.fee_recipient = None THEN m
                  ELSE Send(m, "stable", settings.fee_recipient, fee)
    BY DEF Finish, SettledAs, fee
  <1> HIDE DEF net
  <1>5. /\ b \in Batches /\ b.status = "Settled" /\ b.unsent = unsent
        /\ b.remaining = net
    BY <1>1, <1>3, SettledEffect
  <1>6. ct' = [ct EXCEPT ![id] = c]
    <2>1. ct \in Seq(ClaimTokens) /\ ct' = ct
      BY DEF VaultInv, TypeOK
    <2>2. QED
      BY <2>1
  <1>7. open # id
    BY <1>1 DEF VaultInv, OpenIsOpen
  <1> HIDE DEF b
  <1>8. EntrySound(b, c, settings)
    <2>1. o.units > 0 /\ o.units \in Nat
      BY <1>1 DEF EntrySound, BatchSound, Batches
    <2>2. QED
      BY <1>1, <1>3, <1>5, <2>1
      DEF EntrySound, BatchSound, SentUnder, TokenSound
  <1>9. \A t \in Tokens, x \in Addresses : m[t][x] \in Nat /\ bal[t][x] \in Nat
    BY <1>1 DEF Ledger
  <1>10. /\ bal' \in Ledger
         /\ bal'["stable"][VAULT] >= m["stable"][VAULT] - fee
         /\ bal'["rwa"][VAULT] = m["rwa"][VAULT]
         /\ \A x \in Accounts : bal'["rwa"][x] >= m["rwa"][x]
    <2>1. CASE settings.fee_recipient = None
      BY <1>2, <1>4, <1>9, <2>1, Parties DEF Tokens
    <2>2. CASE settings.fee_recipient # None
      <3>1. settings.fee_recipient \in Addresses
        BY <1>1, <2>2, Parties DEF Settings
      <3>2. CanSend(m, "stable", fee)
        BY <1>2, <1>9, Parties DEF CanSend, Tokens
      <3>3. QED
        BY <1>2, <1>4, <2>2, <3>1, <3>2, SendEffect, Parties DEF Tokens
    <2>3. QED
      BY <2>1, <2>2
  <1>11. Reenters(id, b, c)
    BY <1>1, <1>4, <1>5, <1>6, <1>7, <1>8 DEF Reenters
  <1>12. Rebooks(id, b)
    <2>1. /\ Pooled(b) = 0 /\ Pooled(o) = 0 /\ Unclaimed(b) = net
          /\ Unclaimed(o) = 0 /\ InKind(b) = unsent /\ InKind(o) = 0
          /\ Out(b) = 0 /\ Out(o) = 1
      BY <1>5 DEF Pooled, Unclaimed, InKind, Out
    <2>2. /\ totals.pooled \in Int /\ totals.rwa \in Int /\ totals.sent \in Int
          /\ totals.proceeds \in Int
      BY <1>1 DEF Totals
    <2>3. /\ totals' \in Totals /\ totals'.pooled = totals.pooled
          /\ totals'.proceeds = totals.proceeds + net
          /\ totals'.rwa = totals.rwa + unsent
          /\ totals'.sent = totals.sent - 1
      <3> DEFINE p == totals.proceeds + proceeds - fee
                 r == totals.rwa + unsent
                 n == totals.sent - 1
      <3>1. p \in Int /\ r \in Int /\ n \in Int /\ p = totals.proceeds + net
        BY <1>2, <1>3, <2>2
      <3>2. totals' = [totals EXCEPT !.proceeds = p, !.rwa = r, !.sent = n]
        BY <1>4
      <3> HIDE DEF p, n, r
      <3>3. QED
        BY <1>1, <3>1, <3>2 DEF Totals, r, n
    <2>4. /\ bal["rwa"][VAULT] \in Int /\ bal["stable"][VAULT] \in Int
          /\ bal'["rwa"][VAULT] \in Int /\ bal'["stable"][VAULT] \in Int
          /\ m["rwa"][VAULT] \in Int /\ m["stable"][VAULT] \in Int
      BY <1>1, <1>10, Parties DEF Ledger, Tokens
    <2> HIDE DEF o
    <2>5. QED
      BY <1>2, <1>3, <1>10, <2>1, <2>2, <2>3, <2>4 DEF Rebooks, o
  <1>13. Refaces(id, b)
    BY <1>5, <1>10
  <1>14. QED
    BY <1>11, <1>12, <1>13, RewriteKeeps DEF Rewrites

(* Two transfers bring the proceeds and the returned RWA into the vault.   *)
LEMMA BroughtIn ==
    ASSUME NEW b \in Ledger, NEW from \in Addresses, from # VAULT,
           NEW proceeds \in Nat, NEW unsent \in Nat,
           b["stable"][from] >= proceeds, b["rwa"][from] >= unsent
    PROVE  LET m == Transfer(Transfer(b, "stable", from, VAULT, proceeds),
                             "rwa", from, VAULT, unsent)
           IN  /\ m \in Ledger
               /\ m["stable"][VAULT] >= b["stable"][VAULT] + proceeds
               /\ m["rwa"][VAULT] >= b["rwa"][VAULT] + unsent
               /\ \A x \in Addresses \ {from} : m["rwa"][x] >= b["rwa"][x]
  <1> DEFINE k == Transfer(b, "stable", from, VAULT, proceeds)
             m == Transfer(k, "rwa", from, VAULT, unsent)
  <1>0. \A t \in Tokens, x \in Addresses : b[t][x] \in Nat
    BY DEF Ledger
  <1>1. /\ k \in Ledger
        /\ \A t \in Tokens, x \in Addresses :
              k[t][x] = b[t][x] - (IF t = "stable" /\ x = from THEN proceeds ELSE 0)
                                + (IF t = "stable" /\ x = VAULT THEN proceeds ELSE 0)
    BY TransferEffect, Parties DEF Tokens
  <1> HIDE DEF k
  <1>2. k["rwa"][from] >= unsent
    BY <1>0, <1>1 DEF Tokens
  <1>3. /\ m \in Ledger
        /\ \A t \in Tokens, x \in Addresses :
              m[t][x] = k[t][x] - (IF t = "rwa" /\ x = from THEN unsent ELSE 0)
                                + (IF t = "rwa" /\ x = VAULT THEN unsent ELSE 0)
    BY <1>1, <1>2, TransferEffect, Parties DEF Tokens
  <1> HIDE DEF m
  <1>4. /\ m["stable"][VAULT] >= b["stable"][VAULT] + proceeds
        /\ m["rwa"][VAULT] >= b["rwa"][VAULT] + unsent
        /\ \A x \in Addresses \ {from} : m["rwa"][x] >= b["rwa"][x]
    BY <1>0, <1>1, <1>3, Parties DEF Tokens
  <1>5. QED
    BY <1>3, <1>4 DEF m, k

(* `settle`.                                                               *)
LEMMA SettleKeeps ==
    ASSUME VaultInv, NEW id \in DOMAIN batch, Settle(id)
    PROVE  VaultInv'
  <1> DEFINE o == batch[id]
             f == o.account
             proceeds == bal["stable"][f]
             m == Transfer(Transfer(bal, "stable", f, VAULT, proceeds),
                           "rwa", f, VAULT, o.unsent)
  <1>1. /\ o \in Batches /\ EntrySound(o, ct[id], settings) /\ bal \in Ledger
    BY Entry
  <1>2. /\ o.status = "Sent" /\ f # None /\ bal["rwa"][f] >= o.unsent
        /\ busy' = [busy EXCEPT ![f] = None]
        /\ Finish(id, m, proceeds, o.unsent)
        /\ UNCHANGED <<now, govVars, ct, open, accounts>>
    BY DEF Settle
  <1>3. o.unsent \in Nat /\ f \in Accounts
    BY <1>1, <1>2 DEF EntrySound, BatchSound, Batches
  <1>4. f \in Addresses /\ f # VAULT /\ proceeds \in Nat
    BY <1>1, <1>3, Parties DEF Ledger, Tokens
  <1>5. proceeds >= proceeds
    BY <1>4
  <1>6. /\ m \in Ledger
        /\ m["stable"][VAULT] >= bal["stable"][VAULT] + proceeds
        /\ m["rwa"][VAULT] >= bal["rwa"][VAULT] + o.unsent
        /\ \A x \in Addresses \ {f} : m["rwa"][x] >= bal["rwa"][x]
    BY <1>1, <1>2, <1>3, <1>4, <1>5, BroughtIn
  <1> HIDE DEF m, proceeds
  <1>7. ASSUME NEW b \in Batches, b.status = "Settled", bal' \in Ledger,
               \A x \in Accounts : bal'["rwa"][x] >= m["rwa"][x]
        PROVE  Refaces(id, b)
    <2>1. \A x \in Accounts : /\ bal["rwa"][x] \in Int /\ m["rwa"][x] \in Int
                              /\ bal'["rwa"][x] \in Int
      BY <1>1, <1>6, <1>7, Parties DEF Ledger, Tokens
    <2>2. \A x \in Accounts \ {f} : bal'["rwa"][x] >= bal["rwa"][x]
      BY <1>6, <1>7, <2>1, Parties
    <2>3. QED
      BY <1>2, <1>7, <2>2, FreedAccount
  <1>8. QED
    BY <1>2, <1>3, <1>4, <1>6, <1>7, FinishKeeps

(* `settle_manual`.                                                        *)
LEMMA SettleManualKeeps ==
    ASSUME VaultInv, NEW id \in DOMAIN batch, NEW proceeds \in Nat,
           NEW returned \in Nat, NEW nav, SettleManual(id, proceeds, returned, nav)
    PROVE  VaultInv'
  <1> DEFINE o == batch[id]
             m == Transfer(Transfer(bal, "stable", Operator, VAULT, proceeds),
                           "rwa", Operator, VAULT, returned)
  <1>1. /\ o \in Batches /\ EntrySound(o, ct[id], settings) /\ bal \in Ledger
        /\ busy \in [Accounts -> DOMAIN batch \cup {None}]
    BY Entry
  <1>2. /\ o.status = "Sent" /\ o.account = None
        /\ bal["stable"][Operator] >= proceeds /\ bal["rwa"][Operator] >= returned
        /\ Finish(id, m, proceeds, returned)
        /\ UNCHANGED <<now, govVars, ct, open, accounts, busy>>
    BY DEF SettleManual
  <1>3. Operator \in Addresses /\ Operator # VAULT /\ Operator \notin Accounts
    BY Parties
  <1>4. /\ m \in Ledger
        /\ m["stable"][VAULT] >= bal["stable"][VAULT] + proceeds
        /\ m["rwa"][VAULT] >= bal["rwa"][VAULT] + returned
        /\ \A x \in Addresses \ {Operator} : m["rwa"][x] >= bal["rwa"][x]
    BY <1>1, <1>2, <1>3, BroughtIn
  <1> HIDE DEF m
  <1>5. ASSUME NEW b \in Batches, b.status = "Settled", bal' \in Ledger,
               \A x \in Accounts : bal'["rwa"][x] >= m["rwa"][x]
        PROVE  Refaces(id, b)
    <2>1. \A x \in Accounts : /\ bal["rwa"][x] \in Int /\ m["rwa"][x] \in Int
                              /\ bal'["rwa"][x] \in Int
      BY <1>1, <1>4, <1>5, Parties DEF Ledger, Tokens
    <2>2. \A x \in Accounts : bal'["rwa"][x] >= bal["rwa"][x]
      BY <1>3, <1>4, <1>5, <2>1, Parties
    <2>3. Facing(o) = None /\ Facing(b) = None
      BY <1>2, <1>5 DEF Facing
    <2>4. QED
      BY <1>1, <1>2, <2>2, <2>3, Parties DEF Refaces
  <1>6. QED
    BY <1>2, <1>4, <1>5, FinishKeeps

(* A request takes its units from their owner, who is no account.          *)
LEMMA RequestTakes ==
    ASSUME VaultInv, NEW owner \in Holders, NEW units \in Nat,
           bal["rwa"][owner] >= units,
           bal' = Transfer(bal, "rwa", owner, VAULT, units)
    PROVE  /\ bal' \in Ledger
           /\ bal'["stable"][VAULT] = bal["stable"][VAULT]
           /\ bal'["rwa"][VAULT] = bal["rwa"][VAULT] + units
           /\ \A x \in Accounts : bal'["rwa"][x] = bal["rwa"][x]
  <1>1. bal \in Ledger
    BY DEF VaultInv, TypeOK, Ledger
  <1>2. \A t \in Tokens, x \in Addresses : bal[t][x] \in Nat
    BY <1>1 DEF Ledger
  <1>3. /\ bal' \in Ledger
        /\ \A t \in Tokens, x \in Addresses :
              bal'[t][x] = bal[t][x] - (IF t = "rwa" /\ x = owner THEN units ELSE 0)
                                     + (IF t = "rwa" /\ x = VAULT THEN units ELSE 0)
    BY <1>1, TransferEffect, Parties DEF Tokens
  <1>4. QED
    BY <1>2, <1>3, Parties DEF Tokens

(* `request_redeem` into the open batch.                                   *)
LEMMA JoinKeeps ==
    ASSUME VaultInv, NEW owner \in Holders, NEW units \in Nat,
           NEW controller \in CtHolders, open # None,
           RequestRedeem(owner, units, controller)
    PROVE  VaultInv'
  <1> DEFINE o == batch[open]
             b == [o EXCEPT !.units = o.units + units]
             c == CtMint(ct[open], controller, units)
  <1>0. open \in DOMAIN batch /\ o.status = "Open"
    BY DEF VaultInv, TypeOK, OpenIsOpen
  <1>1. /\ o \in Batches /\ ct[open] \in ClaimTokens
        /\ EntrySound(o, ct[open], settings)
        /\ bal \in Ledger /\ totals \in Totals
        /\ busy \in [Accounts -> DOMAIN batch \cup {None}]
    BY <1>0, Entry
  <1>2. /\ bal["rwa"][owner] >= units
        /\ bal' = Transfer(bal, "rwa", owner, VAULT, units)
        /\ open' = open /\ batch' = [batch EXCEPT ![open] = b]
        /\ ct' = [ct EXCEPT ![open] = c]
        /\ totals' = [totals EXCEPT !.pooled = totals.pooled + units]
        /\ UNCHANGED <<now, govVars, accounts, busy>>
    BY DEF RequestRedeem
  <1>3. /\ b \in Batches /\ b.status = "Open" /\ b.units = o.units + units
        /\ b.account = o.account /\ b.unsent = o.unsent /\ b.strike = o.strike
        /\ o.units \in Nat
    BY <1>0, <1>1 DEF Batches
  <1>4. c \in ClaimTokens /\ SupplyExact(c) /\ c.supply = ct[open].supply + units
    BY <1>1, MintEffect DEF EntrySound, TokenSound
  <1>5. /\ bal' \in Ledger
        /\ bal'["stable"][VAULT] = bal["stable"][VAULT]
        /\ bal'["rwa"][VAULT] = bal["rwa"][VAULT] + units
        /\ \A x \in Accounts : bal'["rwa"][x] = bal["rwa"][x]
    BY <1>2, RequestTakes
  <1>6. /\ totals' \in Totals /\ totals'.pooled = totals.pooled + units
        /\ totals'.proceeds = totals.proceeds /\ totals'.rwa = totals.rwa
        /\ totals'.sent = totals.sent
    BY <1>1, <1>2 DEF Totals
  <1> HIDE DEF b, c
  <1>7. EntrySound(b, c, settings)
    <2>1. ct[open].supply \in Int
      BY <1>1 DEF ClaimTokens
    <2>2. QED
      BY <1>0, <1>1, <1>3, <1>4, <2>1
      DEF EntrySound, BatchSound, SentUnder, TokenSound
  <1>8. Reenters(open, b, c)
    BY <1>2, <1>3, <1>4, <1>7 DEF Reenters
  <1>9. Rebooks(open, b)
    <2>1. /\ Pooled(o) = o.units /\ Pooled(b) = o.units + units
          /\ Unclaimed(b) = 0 /\ Unclaimed(o) = 0 /\ InKind(b) = 0 /\ InKind(o) = 0
          /\ Out(b) = 0 /\ Out(o) = 0
      BY <1>0, <1>3 DEF Pooled, Unclaimed, InKind, Out
    <2>2. /\ totals.pooled \in Int /\ totals.rwa \in Int /\ totals.sent \in Int
          /\ totals.proceeds \in Int
      BY <1>1 DEF Totals
    <2>3. bal["rwa"][VAULT] \in Int /\ bal["stable"][VAULT] \in Int
      BY <1>1, Parties DEF Ledger, Tokens
    <2> HIDE DEF o
    <2>4. QED
      BY <1>3, <1>5, <1>6, <2>1, <2>2, <2>3 DEF Rebooks, o
  <1>10. Refaces(open, b)
    <2>1. Facing(o) = None /\ Facing(b) = None
      BY <1>0, <1>3 DEF Facing
    <2>2. \A x \in Accounts : bal["rwa"][x] \in Int
      BY <1>1, Parties DEF Ledger, Tokens
    <2>3. QED
      BY <1>1, <1>2, <1>5, <2>1, <2>2, Parties DEF Refaces
  <1>11. QED
    BY <1>0, <1>8, <1>9, <1>10, RewriteKeeps DEF Rewrites

(* `request_redeem` into a batch of its own.                               *)
LEMMA OpenKeeps ==
    ASSUME VaultInv, NEW owner \in Holders, NEW units \in Nat,
           NEW controller \in CtHolders, open = None,
           RequestRedeem(owner, units, controller)
    PROVE  VaultInv'
  <1> DEFINE id == Len(batch) + 1
             b == [NewBatch EXCEPT !.units = @ + units]
             c == CtMint(NewCt, controller, units)
             ids == DOMAIN batch
  <1>1. /\ TypeOK /\ TotalsExact /\ Covered /\ AccountsExclusive /\ EntriesSound
    BY DEF VaultInv
  <1>2. /\ units > 0 /\ bal["rwa"][owner] >= units
        /\ bal' = Transfer(bal, "rwa", owner, VAULT, units)
        /\ open' = id /\ batch' = Append(batch, b) /\ ct' = Append(ct, c)
        /\ totals' = [totals EXCEPT !.pooled = totals.pooled + units]
        /\ UNCHANGED <<now, govVars, accounts, busy>>
    BY DEF RequestRedeem
  <1>3. /\ b \in Batches /\ b.status = "Open" /\ b.units = units
        /\ b.account = None /\ b.unsent = 0 /\ b.strike = 0
    BY DEF Batches, NewBatch
  <1>4. NewCt \in ClaimTokens /\ SupplyExact(NewCt) /\ NewCt.supply = 0
    <2> DEFINE none == [h \in CtHolders |-> 0]
    <2>1. settings.gate \in BOOLEAN
      BY <1>1 DEF TypeOK, Settings
    <2>2. none \in [CtHolders -> Nat] /\ \A h \in CtHolders : none[h] = 0
      OBVIOUS
    <2>3. NewCt = [bal |-> none, supply |-> 0, gate |-> settings.gate]
      BY DEF NewCt
    <2> HIDE DEF none
    <2>4. NewCt \in ClaimTokens /\ NewCt.bal = none /\ NewCt.supply = 0
      BY <2>1, <2>2, <2>3 DEF ClaimTokens
    <2>5. SumOver(none, CtHolders) = 0
      BY <2>2, CtHoldersFinite, SumZero
    <2>6. QED
      BY <2>4, <2>5 DEF SupplyExact
  <1>5. c \in ClaimTokens /\ SupplyExact(c) /\ c.supply = units
    BY <1>4, MintEffect
  <1>6. /\ bal' \in Ledger
        /\ bal'["stable"][VAULT] = bal["stable"][VAULT]
        /\ bal'["rwa"][VAULT] = bal["rwa"][VAULT] + units
        /\ \A x \in Accounts : bal'["rwa"][x] = bal["rwa"][x]
    BY <1>2, RequestTakes
  <1>7. totals \in Totals
    BY <1>1 DEF TypeOK, Totals
  <1>8. /\ totals' \in Totals /\ totals'.pooled = totals.pooled + units
        /\ totals'.proceeds = totals.proceeds /\ totals'.rwa = totals.rwa
        /\ totals'.sent = totals.sent
    BY <1>2, <1>7, SMTT(40) DEF Totals
  <1> HIDE DEF b, c
  <1>9. EntrySound(b, c, settings)
    BY <1>2, <1>3, <1>5
    DEF EntrySound, BatchSound, SentUnder, TokenSound
  <1>10. /\ batch \in Seq(Batches) /\ ct \in Seq(ClaimTokens) /\ Len(ct) = Len(batch)
         /\ busy \in [Accounts -> (1 .. Len(batch)) \cup {None}]
    BY <1>1 DEF TypeOK
  <1>11. /\ batch' \in Seq(Batches) /\ ct' \in Seq(ClaimTokens)
         /\ Len(batch') = id /\ Len(ct') = id
         /\ ids = 1 .. Len(batch) /\ DOMAIN batch' = ids \cup {id} /\ id \notin ids
         /\ \A i \in ids : batch'[i] = batch[i] /\ ct'[i] = ct[i]
         /\ batch'[id] = b /\ ct'[id] = c
    BY <1>2, <1>3, <1>5, <1>10
  <1>12. TypeOK'
    <2>1. busy' \in [Accounts -> (1 .. Len(batch')) \cup {None}]
      BY <1>2, <1>10, <1>11
    <2>2. open' \in 1 .. Len(batch')
      BY <1>2, <1>10, <1>11
    <2>3. QED
      BY <1>1, <1>2, <1>6, <1>8, <1>11, <2>1, <2>2 DEF TypeOK, govVars, Ledger, Totals
  <1>13. Covered'
    <2>1. bal["rwa"][VAULT] \in Int
      BY <1>1, Parties DEF TypeOK, Tokens
    <2>2. totals.pooled \in Int /\ totals.rwa \in Int
      BY <1>7 DEF Totals
    <2>3. QED
      BY <1>1, <1>6, <1>8, <2>1, <2>2 DEF Covered
  <1>14. AccountsExclusive'
    <2>1. \A a \in Accounts : busy[a] \in ids \cup {None}
      BY <1>10, <1>11
    <2>2. \A i \in ids : batch[i] \in Batches
      BY <1>10
    <2>3. \A i \in ids : batch[i].account \in Accounts \cup {None}
      BY <2>2 DEF Batches
    <2>4. QED
      BY <1>1, <1>2, <1>3, <1>6, <1>11, <2>1, <2>3, SMTT(40) DEF AccountsExclusive
  <1>15. OpenIsOpen'
    BY <1>2, <1>3, <1>11 DEF OpenIsOpen
  <1>16. EntriesSound'
    <2>1. settings' = settings
      BY <1>2 DEF govVars
    <2>2. QED
      BY <1>1, <1>9, <1>11, <2>1 DEF EntriesSound
  <1>17. TotalsExact'
    <2> DEFINE pooled == [i \in DOMAIN batch |-> Pooled(batch[i])]
               unclaimed == [i \in DOMAIN batch |-> Unclaimed(batch[i])]
               inKind == [i \in DOMAIN batch |-> InKind(batch[i])]
               out == [i \in DOMAIN batch |-> Out(batch[i])]
    <2>1. \A i \in ids : batch[i] \in Batches
      BY <1>10
    <2>2. \A i \in ids : /\ pooled[i] \in Int /\ pooled'[i] = pooled[i]
                         /\ unclaimed[i] \in Int /\ unclaimed'[i] = unclaimed[i]
                         /\ inKind[i] \in Int /\ inKind'[i] = inKind[i]
                         /\ out[i] \in Int /\ out'[i] = out[i]
      <3> SUFFICES ASSUME NEW i \in ids
                   PROVE  /\ pooled[i] \in Int /\ pooled'[i] = pooled[i]
                          /\ unclaimed[i] \in Int /\ unclaimed'[i] = unclaimed[i]
                          /\ inKind[i] \in Int /\ inKind'[i] = inKind[i]
                          /\ out[i] \in Int /\ out'[i] = out[i]
        OBVIOUS
      <3>1. batch[i] \in Batches /\ batch'[i] = batch[i] /\ i \in DOMAIN batch'
        BY <1>11, <2>1
      <3>2. /\ Pooled(batch[i]) \in Int /\ Unclaimed(batch[i]) \in Int
            /\ InKind(batch[i]) \in Int /\ Out(batch[i]) \in Int
        BY <3>1, PartsInt
      <3>3. QED
        BY <3>1, <3>2
    <2>3. /\ pooled'[id] = units /\ unclaimed'[id] = 0
          /\ inKind'[id] = 0 /\ out'[id] = 0
      BY <1>3, <1>11 DEF Pooled, Unclaimed, InKind, Out
    <2>4. /\ totals.pooled = SumOver(pooled, ids)
          /\ totals.proceeds = SumOver(unclaimed, ids)
          /\ totals.rwa = SumOver(inKind, ids)
          /\ totals.sent = SumOver(out, ids)
      BY <1>1 DEF TotalsExact
    <2>5. TotalsExact' <=> /\ totals'.pooled = SumOver(pooled', DOMAIN batch')
                           /\ totals'.proceeds = SumOver(unclaimed', DOMAIN batch')
                           /\ totals'.rwa = SumOver(inKind', DOMAIN batch')
                           /\ totals'.sent = SumOver(out', DOMAIN batch')
      BY DEF TotalsExact
    <2>6. IsFiniteSet(ids)
      <3>1. Len(batch) \in Nat
        BY <1>10
      <3>2. QED
        BY <1>11, <3>1, FS_Interval
    <2>7. /\ id \notin ids /\ pooled'[id] \in Int /\ unclaimed'[id] \in Int
           /\ inKind'[id] \in Int /\ out'[id] \in Int
      BY <1>11, <2>3
    <2> HIDE DEF ids, id, pooled, unclaimed, inKind, out
    <2>8. SumOver(pooled', ids \cup {id}) = SumOver(pooled, ids) + pooled'[id]
      BY <2>2, <2>6, <2>7, SumGrow
    <2>9. SumOver(unclaimed', ids \cup {id}) = SumOver(unclaimed, ids) + unclaimed'[id]
      BY <2>2, <2>6, <2>7, SumGrow
    <2>10. SumOver(inKind', ids \cup {id}) = SumOver(inKind, ids) + inKind'[id]
      BY <2>2, <2>6, <2>7, SumGrow
    <2>11. SumOver(out', ids \cup {id}) = SumOver(out, ids) + out'[id]
      BY <2>2, <2>6, <2>7, SumGrow
    <2>12. totals.proceeds \in Int /\ totals.rwa \in Int /\ totals.sent \in Int
      BY <1>7 DEF Totals
    <2>13. QED
      BY <1>8, <1>11, <2>3, <2>4, <2>5, <2>8, <2>9, <2>10, <2>11, <2>12
  <1>18. QED
    BY <1>12, <1>13, <1>14, <1>15, <1>16, <1>17 DEF VaultInv

(* The timelock and the pause touch no batch.                              *)
LEMMA GovernanceTypes ==
    ASSUME TypeOK
    PROVE  /\ AddAccount => TypeOK'
           /\ \A p \in BOOLEAN : SetPaused(p) => TypeOK'
           /\ \A k \in Kinds : \A to \in Proposals(k) : Submit(k, to) => TypeOK'
           /\ \A k \in Kinds : Revoke(k) => TypeOK'
           /\ AcceptDelay => TypeOK'
  <1>1. ASSUME AddAccount
        PROVE  TypeOK'
    <2>1. accounts \in Seq(Accounts) /\ Len(accounts) < Len(Pool)
      BY <1>1 DEF AddAccount, TypeOK
    <2>2. Pool \in Seq(Accounts)
      BY VaultAssumption
    <2>3. Pool[Len(accounts) + 1] \in Accounts
      BY <2>1, <2>2
    <2>4. accounts' \in Seq(Accounts)
      BY <1>1, <2>1, <2>3 DEF AddAccount
    <2>5. QED
      BY <1>1, <2>4 DEF AddAccount, TypeOK, govVars
  <1>2. ASSUME NEW p \in BOOLEAN, SetPaused(p)
        PROVE  TypeOK'
    BY <1>2 DEF SetPaused, TypeOK
  <1>3. ASSUME NEW k \in Kinds, NEW to \in Proposals(k), Submit(k, to)
        PROVE  TypeOK'
    <2> DEFINE p == [to |-> to, at |-> now + delay]
    <2>1. /\ pending' = [pending EXCEPT ![k] = p]
          /\ UNCHANGED <<now, paused, settings, delay, batch, ct, open, totals,
                         accounts, busy, bal>>
      BY <1>3 DEF Submit
    <2>2. now + delay \in Nat
      BY VaultAssumption DEF TypeOK
    <2>3. /\ k = "Settings" => p \in [to : Settings, at : Nat]
          /\ k = "Skim" => p \in [to : Tokens, at : Nat]
          /\ k = "Delay" => p \in [to : Nat, at : Nat]
      <3>1. /\ k = "Settings" => to \in Settings
            /\ k = "Skim" => to \in Tokens
            /\ k = "Delay" => to \in Nat
        BY VaultAssumption DEF Proposals, Kinds
      <3>2. QED
        BY <2>2, <3>1
    <2> HIDE DEF p
    <2>4. /\ DOMAIN pending' = Kinds /\ pending'[k] = p
          /\ \A j \in Kinds \ {k} : pending'[j] = pending[j]
      BY <2>1 DEF TypeOK
    <2>5. /\ pending'["Settings"] # None =>
                pending'["Settings"] \in [to : Settings, at : Nat]
          /\ pending'["Skim"] # None => pending'["Skim"] \in [to : Tokens, at : Nat]
          /\ pending'["Delay"] # None => pending'["Delay"] \in [to : Nat, at : Nat]
      BY <2>3, <2>4 DEF Kinds, TypeOK
    <2>6. QED
      BY <2>1, <2>4, <2>5 DEF TypeOK
  <1>4. ASSUME NEW k \in Kinds, Revoke(k)
        PROVE  TypeOK'
    <2>1. /\ DOMAIN pending' = Kinds
          /\ \A j \in Kinds : pending'[j] \in {pending[j], None}
      BY <1>4 DEF Revoke, TypeOK
    <2>2. QED
      BY <1>4, <2>1 DEF Revoke, TypeOK, Kinds
  <1>5. ASSUME AcceptDelay
        PROVE  TypeOK'
    <2>1. /\ DOMAIN pending' = Kinds
          /\ \A j \in Kinds : pending'[j] \in {pending[j], None}
          /\ delay' \in Nat
      BY <1>5 DEF AcceptDelay, Take, TypeOK, Kinds
    <2>2. QED
      BY <1>5, <2>1 DEF AcceptDelay, TypeOK, Kinds
  <1>6. QED
    BY <1>1, <1>2, <1>3, <1>4, <1>5

(* A queued skim or setting is taken out of the queue.                     *)
LEMMA TakeTypes ==
    ASSUME TypeOK, NEW k \in Kinds, Take(k)
    PROVE  /\ DOMAIN pending' = Kinds
           /\ \A j \in Kinds : pending'[j] \in {pending[j], None}
           /\ pending[k] # None
  BY DEF Take, TypeOK

(* The totals are no less than any batch's part of them.                   *)
LEMMA PartsCovered ==
    ASSUME VaultInv
    PROVE  /\ totals.pooled \in Nat /\ totals.proceeds \in Nat
           /\ totals.rwa \in Nat /\ totals.sent \in Nat
           /\ \A id \in DOMAIN batch :
                 /\ Pooled(batch[id]) <= totals.pooled
                 /\ Unclaimed(batch[id]) <= totals.proceeds
                 /\ InKind(batch[id]) <= totals.rwa
                 /\ Out(batch[id]) <= totals.sent
  <1> DEFINE ids == DOMAIN batch
             pooled == [i \in ids |-> Pooled(batch[i])]
             unclaimed == [i \in ids |-> Unclaimed(batch[i])]
             inKind == [i \in ids |-> InKind(batch[i])]
             out == [i \in ids |-> Out(batch[i])]
  <1>1. IsFiniteSet(ids)
    <2>1. batch \in Seq(Batches)
      BY DEF VaultInv, TypeOK
    <2>2. Len(batch) \in Nat /\ ids = 1 .. Len(batch)
      BY <2>1
    <2>3. QED
      BY <2>2, FS_Interval
  <1>2. \A i \in ids : /\ Pooled(batch[i]) \in Nat /\ Unclaimed(batch[i]) \in Nat
                       /\ InKind(batch[i]) \in Nat /\ Out(batch[i]) \in Nat
    <2> SUFFICES ASSUME NEW i \in ids
                 PROVE  /\ Pooled(batch[i]) \in Nat /\ Unclaimed(batch[i]) \in Nat
                        /\ InKind(batch[i]) \in Nat /\ Out(batch[i]) \in Nat
      OBVIOUS
    <2>1. batch[i] \in Batches /\ BatchSound(batch[i])
      BY Entry DEF EntrySound
    <2>2. QED
      BY <2>1 DEF Batches, BatchSound, Pooled, Unclaimed, InKind, Out
  <1>3. /\ totals.pooled = SumOver(pooled, ids)
        /\ totals.proceeds = SumOver(unclaimed, ids)
        /\ totals.rwa = SumOver(inKind, ids)
        /\ totals.sent = SumOver(out, ids)
    BY DEF VaultInv, TotalsExact
  <1>4. \A i \in ids : /\ pooled[i] = Pooled(batch[i])
                       /\ unclaimed[i] = Unclaimed(batch[i])
                       /\ inKind[i] = InKind(batch[i]) /\ out[i] = Out(batch[i])
    OBVIOUS
  <1> HIDE DEF pooled, unclaimed, inKind, out
  <1>5. \A i \in ids : /\ pooled[i] \in Nat /\ unclaimed[i] \in Nat
                       /\ inKind[i] \in Nat /\ out[i] \in Nat
    BY <1>2, <1>4
  <1>6. /\ totals.pooled \in Nat /\ \A i \in ids : pooled[i] <= totals.pooled
        /\ totals.proceeds \in Nat /\ \A i \in ids : unclaimed[i] <= totals.proceeds
        /\ totals.rwa \in Nat /\ \A i \in ids : inKind[i] <= totals.rwa
        /\ totals.sent \in Nat /\ \A i \in ids : out[i] <= totals.sent
    <2> HIDE DEF ids
    <2>1. QED
      BY <1>1, <1>3, <1>5, SumNat
  <1>7. QED
    BY <1>4, <1>6

(* A skim takes the surplus at most, and only the vault's.                 *)
LEMMA SkimKeeps ==
    ASSUME VaultInv, AcceptSkim
    PROVE  VaultInv'
  <1> DEFINE token == pending["Skim"].to
             surplus == Surplus(token)
  <1>1. TypeOK /\ Covered /\ bal \in Ledger /\ totals \in Totals
    BY DEF VaultInv, TypeOK, Ledger, Totals
  <1>2. /\ Take("Skim") /\ bal' = Send(bal, token, Fees, surplus)
        /\ UNCHANGED <<now, paused, settings, delay, batch, ct, open, totals,
                       accounts, busy>>
    BY DEF AcceptSkim
  <1>3. /\ DOMAIN pending' = Kinds
        /\ \A j \in Kinds : pending'[j] \in {pending[j], None}
        /\ pending["Skim"] # None
    BY <1>1, <1>2, TakeTypes DEF Kinds
  <1>4. token \in Tokens
    BY <1>1, <1>3 DEF TypeOK
  <1>5. /\ bal["rwa"][VAULT] \in Nat /\ bal["stable"][VAULT] \in Nat
    BY <1>1, Parties DEF Ledger, Tokens
  <1>6. totals.pooled \in Int /\ totals.rwa \in Int /\ totals.proceeds \in Int
    BY <1>1 DEF Totals
  <1>7. /\ token = "stable" => surplus = bal["stable"][VAULT] - totals.proceeds
        /\ token = "rwa" =>
              surplus = bal["rwa"][VAULT] - (totals.pooled + totals.rwa)
    BY DEF Surplus
  <1> HIDE DEF token, surplus
  <1>8. surplus \in Int
    BY <1>4, <1>5, <1>6, <1>7 DEF Tokens
  <1>9. CanSend(bal, token, surplus)
    <2>1. totals.pooled \in Nat /\ totals.proceeds \in Nat /\ totals.rwa \in Nat
      BY PartsCovered
    <2>2. QED
      BY <1>4, <1>5, <1>7, <2>1 DEF CanSend, Tokens
  <1>10. /\ bal' \in Ledger
         /\ \A a \in Accounts : bal'["rwa"][a] >= bal["rwa"][a]
         /\ \A t \in Tokens : t # token => bal'[t][VAULT] = bal[t][VAULT]
         /\ bal'[token][VAULT]
               >= bal[token][VAULT] - (IF surplus > 0 THEN surplus ELSE 0)
    BY <1>1, <1>2, <1>4, <1>8, <1>9, SendEffect, Parties DEF Tokens
  <1>11. bal'["rwa"][VAULT] \in Nat /\ bal'["stable"][VAULT] \in Nat
    BY <1>10, Parties DEF Ledger, Tokens
  <1>12. Covered'
    <2>1. CASE token = "stable"
      BY <1>1, <1>2, <1>5, <1>6, <1>7, <1>10, <1>11, <2>1 DEF Covered, Tokens
    <2>2. CASE token = "rwa"
      BY <1>1, <1>2, <1>5, <1>6, <1>7, <1>10, <1>11, <2>2 DEF Covered, Tokens
    <2>3. QED
      BY <1>4, <2>1, <2>2 DEF Tokens
  <1>13. TypeOK'
    BY <1>1, <1>2, <1>3, <1>10 DEF TypeOK, Kinds, Ledger
  <1>14. QED
    BY <1>2, <1>10, <1>12, <1>13, UntouchedKeeps

(* New settings: mode and strike change only when no batch is out.         *)
LEMMA SettingsKeep ==
    ASSUME VaultInv, AcceptSettings
    PROVE  VaultInv'
  <1> DEFINE s == pending["Settings"].to
  <1>1. /\ TypeOK /\ TotalsExact /\ Covered /\ AccountsExclusive
        /\ OpenIsOpen /\ EntriesSound
    BY DEF VaultInv
  <1>2. /\ Take("Settings") /\ MaySwitch(s) /\ ct' = Regate(s) /\ settings' = s
        /\ UNCHANGED <<now, paused, delay, batch, open, totals, accounts, busy, bal>>
    BY DEF AcceptSettings
  <1>3. /\ DOMAIN pending' = Kinds
        /\ \A j \in Kinds : pending'[j] \in {pending[j], None}
        /\ pending["Settings"] # None
    BY <1>1, <1>2, TakeTypes DEF Kinds
  <1>4. s \in Settings
    BY <1>1, <1>3 DEF TypeOK
  <1> HIDE DEF s
  <1>5. /\ ct' \in Seq(ClaimTokens) /\ Len(ct') = Len(ct)
        /\ \A i \in DOMAIN batch : ct'[i].bal = ct[i].bal /\ ct'[i].supply = ct[i].supply
    <2>1. /\ ct \in Seq(ClaimTokens) /\ Len(ct) = Len(batch) /\ batch \in Seq(Batches)
      BY <1>1 DEF TypeOK
    <2>2. CASE open # None /\ s.gate # settings.gate
      <3> DEFINE c == [ct[open] EXCEPT !.gate = s.gate]
      <3>1. open \in DOMAIN ct /\ DOMAIN ct = DOMAIN batch
        BY <1>1, <2>1, <2>2 DEF TypeOK
      <3>2. s.gate \in BOOLEAN /\ ct[open] \in ClaimTokens
        BY <1>4, <2>1, <3>1 DEF Settings
      <3>3. c \in ClaimTokens /\ c.bal = ct[open].bal /\ c.supply = ct[open].supply
        BY <3>2 DEF ClaimTokens
      <3>4. ct' = [ct EXCEPT ![open] = c]
        BY <1>2, <2>2 DEF Regate
      <3> HIDE DEF c
      <3>5. QED
        BY <2>1, <3>1, <3>3, <3>4
    <2>3. CASE ~(open # None /\ s.gate # settings.gate)
      BY <1>2, <2>1, <2>3 DEF Regate
    <2>4. QED
      BY <2>2, <2>3
  <1>6. TypeOK'
    BY <1>1, <1>2, <1>3, <1>4, <1>5 DEF TypeOK, Kinds
  <1>7. TotalsExact' /\ Covered' /\ AccountsExclusive' /\ OpenIsOpen'
    BY <1>1, <1>2 DEF TotalsExact, Covered, AccountsExclusive, OpenIsOpen
  <1>8. ASSUME NEW i \in DOMAIN batch
        PROVE  EntrySound(batch[i], ct'[i], s)
    <2>1. EntrySound(batch[i], ct[i], settings) /\ batch[i] \in Batches
      BY <1>8, Entry
    <2>2. batch[i].status = "Sent" => totals.sent # 0
      <3>1. Out(batch[i]) <= totals.sent /\ totals.sent \in Nat
        BY <1>8, PartsCovered
      <3>2. QED
        BY <3>1 DEF Out
    <2>3. SentUnder(batch[i], s)
      BY <1>2, <2>1, <2>2 DEF EntrySound, SentUnder, MaySwitch
    <2>4. TokenSound(batch[i], ct'[i])
      BY <1>5, <1>8, <2>1 DEF EntrySound, TokenSound, SupplyExact
    <2>5. QED
      BY <2>1, <2>3, <2>4 DEF EntrySound
  <1>9. EntriesSound'
    BY <1>2, <1>8 DEF EntriesSound
  <1>10. QED
    BY <1>6, <1>7, <1>9 DEF VaultInv

(* The issuer's payments take nothing from the vault or its accounts.      *)
LEMMA IssuerKeeps ==
    ASSUME VaultInv, NEW token \in Tokens, NEW a \in Accounts, NEW amount \in Nat,
           IssuerSends(token, a, amount)
    PROVE  VaultInv'
  <1>1. TypeOK /\ Covered /\ bal \in Ledger
    BY DEF VaultInv, TypeOK, Ledger
  <1>2. /\ bal[token][Issuer] >= amount
        /\ bal' = Transfer(bal, token, Issuer, a, amount)
        /\ UNCHANGED <<now, govVars, batch, ct, open, totals, accounts, busy>>
    BY DEF IssuerSends
  <1>3. /\ bal' \in Ledger
        /\ \A t \in Tokens, x \in Addresses :
              bal'[t][x] = bal[t][x] - (IF t = token /\ x = Issuer THEN amount ELSE 0)
                                     + (IF t = token /\ x = a THEN amount ELSE 0)
    BY <1>1, <1>2, TransferEffect, Parties
  <1>4. \A t \in Tokens, x \in Addresses : bal[t][x] \in Nat
    BY <1>1 DEF Ledger
  <1>5. /\ \A t \in Tokens : bal'[t][VAULT] = bal[t][VAULT]
        /\ \A x \in Accounts : bal'["rwa"][x] >= bal["rwa"][x]
    BY <1>3, <1>4, Parties DEF Tokens
  <1>6. TypeOK'
    BY <1>1, <1>2, <1>3 DEF TypeOK, Ledger, govVars
  <1>7. Covered'
    BY <1>1, <1>2, <1>5 DEF Covered, Tokens
  <1>8. QED
    BY <1>2, <1>5, <1>6, <1>7, UntouchedKeeps DEF govVars

-----------------------------------------------------------------------------
(* The theorems                                                            *)

(* The invariant holds at deployment.                                      *)
LEMMA VaultInit == Init => VaultInv
  <1> SUFFICES ASSUME Init
               PROVE  VaultInv
    OBVIOUS
  <1>1. DOMAIN batch = {} /\ batch = << >> /\ ct = << >>
    BY DEF Init
  <1>2. TypeOK
    <2>1. Pool[1] \in Accounts
      BY VaultAssumption
    <2>2. accounts \in Seq(Accounts)
      BY <2>1 DEF Init
    <2>3. /\ DOMAIN pending = Kinds /\ pending["Settings"] = None
          /\ pending["Skim"] = None /\ pending["Delay"] = None
      BY DEF Init, Kinds
    <2>4. /\ now \in 0 .. MaxTime /\ paused \in BOOLEAN /\ settings \in Settings
          /\ delay \in Nat /\ open = None
          /\ totals \in [pooled : Int, proceeds : Int, rwa : Int, sent : Int]
          /\ busy \in [Accounts -> (1 .. Len(batch)) \cup {None}]
          /\ bal \in [Tokens -> [Addresses -> Nat]]
      <3>1. now \in 0 .. MaxTime /\ paused \in BOOLEAN
        <4>1. now \in 0 .. MaxTime
          BY VaultAssumption DEF Init
        <4>2. paused \in BOOLEAN
          BY DEF Init
        <4>3. QED
          BY <4>1, <4>2
      <3>2. settings \in Settings /\ delay \in Nat /\ open = None
        BY VaultAssumption DEF Init
      <3>3. totals \in [pooled : Int, proceeds : Int, rwa : Int, sent : Int]
        BY DEF Init
      <3>4. busy \in [Accounts -> (1 .. Len(batch)) \cup {None}]
        BY DEF Init
      <3>5. bal \in [Tokens -> [Addresses -> Nat]]
        BY VaultAssumption DEF Init
      <3>6. QED
        BY <3>1, <3>2, <3>3, <3>4, <3>5
    <2>5. batch \in Seq(Batches) /\ ct \in Seq(ClaimTokens) /\ Len(ct) = Len(batch)
      BY <1>1
    <2>6. QED
      BY <2>2, <2>3, <2>4, <2>5 DEF TypeOK
  <1>3. TotalsExact
    <2>1. /\ totals.pooled = 0 /\ totals.proceeds = 0
          /\ totals.rwa = 0 /\ totals.sent = 0
      BY DEF Init
    <2>2. QED
      BY <1>1, <2>1, SumEmpty DEF TotalsExact
  <1>4. Covered
    <2>1. bal["rwa"][VAULT] \in Nat /\ bal["stable"][VAULT] \in Nat
      BY <1>2, Parties DEF TypeOK, Tokens
    <2>2. QED
      BY <2>1 DEF Covered, Init
  <1>5. AccountsExclusive /\ OpenIsOpen /\ EntriesSound
    BY <1>1 DEF Init, AccountsExclusive, OpenIsOpen, EntriesSound
  <1>6. QED
    BY <1>2, <1>3, <1>4, <1>5 DEF VaultInv

(* Every step of a holder keeps it.                                        *)
LEMMA HolderKeeps == VaultInv /\ Holder => VaultInv'
  <1> SUFFICES ASSUME VaultInv, Holder
               PROVE  VaultInv'
    OBVIOUS
  <1>1. PICK h \in Holders, n \in Amounts :
           \/ \E c \in ({h} \cup Recipients) \ {VAULT} : RequestRedeem(h, n, c)
           \/ \E id \in DOMAIN batch :
                 \/ \E r \in {h} \cup Recipients :
                       Cancel(h, id, n, r) \/ Claim(h, id, n, r)
                 \/ \E to \in Recipients : TransferCt(id, h, to, n)
                 \/ h \in Burners /\ BurnCt(id, h, n)
    BY DEF Holder
  <1>2. n \in Nat /\ {h} \cup Recipients \subseteq CtHolders
    BY VaultAssumption DEF CtHolders
  <1>3. CASE \E c \in ({h} \cup Recipients) \ {VAULT} : RequestRedeem(h, n, c)
    BY <1>2, <1>3, JoinKeeps, OpenKeeps
  <1>4. CASE \E id \in DOMAIN batch : \E r \in {h} \cup Recipients :
                Cancel(h, id, n, r) \/ Claim(h, id, n, r)
    BY <1>2, <1>4, CancelKeeps, ClaimKeeps
  <1>5. CASE \E id \in DOMAIN batch : \E to \in Recipients : TransferCt(id, h, to, n)
    BY <1>2, <1>5, TransferCtKeeps
  <1>6. CASE \E id \in DOMAIN batch : h \in Burners /\ BurnCt(id, h, n)
    BY <1>2, <1>6, BurnCtKeeps
  <1>7. QED
    BY <1>1, <1>3, <1>4, <1>5, <1>6

(* So does every step of a batch to the issuer and back.                   *)
LEMMA RedemptionKeeps == VaultInv /\ Redemption => VaultInv'
  <1> SUFFICES ASSUME VaultInv, Redemption
               PROVE  VaultInv'
    OBVIOUS
  <1>0. Amounts \cup {0} \subseteq Nat /\ Navs \subseteq Nat
    BY VaultAssumption
  <1>1. PICK id \in DOMAIN batch :
           \/ \E nav \in Navs : RedeemBatch(id, nav)
           \/ Resend(id)
           \/ \E n \in Amounts : Reopen(id, n)
           \/ Settle(id)
           \/ \E to \in {Operator}, nav \in Navs : WithdrawBatch(id, to, nav)
           \/ \E n \in Amounts \cup {0}, r \in Amounts \cup {0}, nav \in Navs :
                 SettleManual(id, n, r, nav)
    BY DEF Redemption
  <1>2. CASE \E nav \in Navs : RedeemBatch(id, nav)
    BY <1>0, <1>2, RedeemBatchKeeps
  <1>3. CASE Resend(id)
    BY <1>3, ResendKeeps
  <1>4. CASE \E n \in Amounts : Reopen(id, n)
    BY <1>0, <1>4, ReopenKeeps
  <1>5. CASE Settle(id)
    BY <1>5, SettleKeeps
  <1>6. CASE \E to \in {Operator}, nav \in Navs : WithdrawBatch(id, to, nav)
    BY <1>0, <1>6, WithdrawBatchKeeps
  <1>7. CASE \E n \in Amounts \cup {0}, r \in Amounts \cup {0}, nav \in Navs :
                SettleManual(id, n, r, nav)
    BY <1>0, <1>7, SettleManualKeeps
  <1>8. QED
    BY <1>1, <1>2, <1>3, <1>4, <1>5, <1>6, <1>7

(* And every step of the admin.                                            *)
LEMMA GovernanceKeeps == VaultInv /\ Governance => VaultInv'
  <1> SUFFICES ASSUME VaultInv, Governance
               PROVE  VaultInv'
    OBVIOUS
  <1>1. TypeOK /\ Covered
    BY DEF VaultInv
  <1>2. \A a \in Accounts : bal["rwa"][a] \in Nat
    BY <1>1, Parties DEF TypeOK, Tokens
  <1>3. ASSUME TypeOK',
               UNCHANGED <<settings, batch, ct, open, totals, busy, bal>>
        PROVE  VaultInv'
    BY <1>1, <1>2, <1>3, UntouchedKeeps DEF Covered
  <1>4. CASE AddAccount
    BY <1>1, <1>3, <1>4, GovernanceTypes DEF AddAccount, govVars
  <1>5. CASE \E p \in BOOLEAN : SetPaused(p)
    BY <1>1, <1>3, <1>5, GovernanceTypes DEF SetPaused
  <1>6. CASE \E k \in Kinds : \E to \in Proposals(k) : Submit(k, to)
    BY <1>1, <1>3, <1>6, GovernanceTypes DEF Submit
  <1>7. CASE \E k \in Kinds : Revoke(k)
    BY <1>1, <1>3, <1>7, GovernanceTypes DEF Revoke
  <1>8. CASE AcceptDelay
    BY <1>1, <1>3, <1>8, GovernanceTypes DEF AcceptDelay
  <1>9. CASE AcceptSettings
    BY <1>9, SettingsKeep
  <1>10. CASE AcceptSkim
    BY <1>10, SkimKeeps
  <1>11. QED
    BY <1>4, <1>5, <1>6, <1>7, <1>8, <1>9, <1>10 DEF Governance

(* The invariant is inductive.                                             *)
LEMMA VaultStep == VaultInv /\ [Next]_vars => VaultInv'
  <1> SUFFICES ASSUME VaultInv, [Next]_vars
               PROVE  VaultInv'
    OBVIOUS
  <1>1. TypeOK /\ Covered
    BY DEF VaultInv
  <1>2. \A a \in Accounts : bal["rwa"][a] \in Nat
    BY <1>1, Parties DEF TypeOK, Tokens
  <1>3. CASE Holder
    BY <1>3, HolderKeeps
  <1>4. CASE Redemption
    BY <1>4, RedemptionKeeps
  <1>5. CASE Governance
    BY <1>5, GovernanceKeeps
  <1>6. CASE \E t \in Tokens, i \in DOMAIN accounts, n \in Amounts :
                IssuerSends(t, accounts[i], n)
    <2>1. PICK t \in Tokens, i \in DOMAIN accounts, n \in Amounts :
             IssuerSends(t, accounts[i], n)
      BY <1>6
    <2>2. accounts[i] \in Accounts /\ n \in Nat
      BY <1>1, VaultAssumption DEF TypeOK
    <2>3. QED
      BY <2>1, <2>2, IssuerKeeps
  <1>7. CASE Tick
    <2>1. TypeOK'
      BY <1>1, <1>7, VaultAssumption DEF Tick, TypeOK, govVars
    <2>2. Covered' /\ UNCHANGED <<settings, batch, ct, open, totals, busy, bal>>
      BY <1>1, <1>7 DEF Tick, Covered, govVars
    <2>3. QED
      BY <1>2, <2>1, <2>2, UntouchedKeeps
  <1>8. CASE UNCHANGED vars
    <2>1. TypeOK'
      BY <1>1, <1>8 DEF vars, TypeOK
    <2>2. Covered' /\ UNCHANGED <<settings, batch, ct, open, totals, busy, bal>>
      BY <1>1, <1>8 DEF vars, Covered
    <2>3. QED
      BY <1>2, <2>1, <2>2, UntouchedKeeps
  <1>9. QED
    BY <1>3, <1>4, <1>5, <1>6, <1>7, <1>8 DEF Next

(* The vault's books balance in every reachable state: the cached totals   *)
(* of redemption_vault are exactly the sums of its batches, and it holds   *)
(* every token it owes.                                                    *)
THEOREM BooksAlwaysBalance == Spec => []BooksBalance
  <1>1. VaultInv => BooksBalance
    BY DEF VaultInv, BooksBalance
  <1>2. QED
    BY <1>1, VaultInit, VaultStep, PTL DEF Spec

(* A redemption account faces the issuer for one batch at a time, and      *)
(* holds at least what was recorded as handed back.                        *)
THEOREM AccountsAlwaysExclusive == Spec => []AccountsExclusive
  <1>1. VaultInv => AccountsExclusive
    BY DEF VaultInv
  <1>2. QED
    BY <1>1, VaultInit, VaultStep, PTL DEF Spec

(* No accepted setting changes the mode or the strike under a batch that   *)
(* is with the issuer.                                                     *)
THEOREM BatchesSettleAsSent == Spec => []SettlesAsSent
  <1>1. VaultInv => SettlesAsSent
    BY DEF VaultInv, EntriesSound, EntrySound, SentUnder, SettlesAsSent, With
  <1>2. QED
    BY <1>1, VaultInit, VaultStep, PTL DEF Spec

(* What backs a unit of batch i's claim token does not fall in this step.  *)
NotDiluted(i) ==
    /\ batch'[i].remaining * ct[i].supply >= batch[i].remaining * ct'[i].supply
    /\ batch'[i].unsent * ct[i].supply >= batch[i].unsent * ct'[i].supply

(* A step that leaves what is owed and the supply alone dilutes nobody.    *)
LEMMA UntouchedNotDiluted ==
    ASSUME VaultInv, NEW i \in DOMAIN batch,
           batch'[i] = batch[i], ct'[i].supply = ct[i].supply
    PROVE  NotDiluted(i)
  <1>1. batch[i] \in Batches /\ ct[i] \in ClaimTokens
    BY Entry
  <1>2. /\ batch[i].remaining \in Int /\ batch[i].unsent \in Int
        /\ ct[i].supply \in Int
    BY <1>1 DEF Batches, ClaimTokens
  <1>3. /\ batch[i].remaining * ct[i].supply \in Int
        /\ batch[i].unsent * ct[i].supply \in Int
    BY <1>2
  <1>4. QED
    BY <1>3 DEF NotDiluted

(* Backing, when n of s units leave with at most their part a of r.        *)
LEMMA BackingKept ==
    ASSUME NEW r \in Nat, NEW s \in Nat, NEW n \in Nat, NEW a \in Nat,
           a * s <= n * r
    PROVE  (r - a) * s >= r * (s - n)
  <1>1. (r - a) * s = r * s - a * s /\ r * (s - n) = r * s - n * r
    OBVIOUS
  <1>2. r * s \in Int /\ a * s \in Int /\ n * r \in Int
    OBVIOUS
  <1>3. QED
    BY <1>1, <1>2

(* A claim leaves the others' claim tokens backed as well as before.       *)
LEMMA ClaimNotDiluting ==
    ASSUME VaultInv, NEW id \in DOMAIN batch, NEW owner \in Holders,
           NEW shares \in Nat, NEW receiver, Claim(owner, id, shares, receiver),
           NEW i \in DOMAIN batch
    PROVE  NotDiluted(i)
  <1> DEFINE o == batch[id]
             assets == Share(id, shares, o.remaining)
             units == Share(id, shares, o.unsent)
             b == [o EXCEPT !.remaining = o.remaining - assets,
                            !.unsent = o.unsent - units]
             c == CtBurn(ct[id], owner, shares)
  <1>1. /\ batch \in Seq(Batches) /\ ct \in Seq(ClaimTokens) /\ Len(ct) = Len(batch)
    BY DEF VaultInv, TypeOK
  <1>2. ct' = [ct EXCEPT ![id] = c] /\ batch' = [batch EXCEPT ![id] = b]
    BY DEF Claim
  <1>3. CASE i # id
    <2>1. batch'[i] = batch[i] /\ ct'[i] = ct[i]
      BY <1>1, <1>2, <1>3
    <2>2. QED
      BY <2>1, UntouchedNotDiluted
  <1>4. CASE i = id
    <2>1. /\ ct[id].supply \in Nat \ {0} /\ shares <= ct[id].supply
          /\ o.remaining \in Nat /\ o.unsent \in Nat
          /\ assets \in Nat /\ units \in Nat
          /\ assets * ct[id].supply <= shares * o.remaining
          /\ units * ct[id].supply <= shares * o.unsent
      BY ClaimEffect
    <2>2. o \in Batches /\ ct[id] \in ClaimTokens
      BY Entry
    <2> HIDE DEF assets, units
    <2>3. b.remaining = o.remaining - assets /\ b.unsent = o.unsent - units
      <3> DEFINE r == o.remaining - assets
                 u == o.unsent - units
      <3>1. b = [o EXCEPT !.remaining = r, !.unsent = u]
        OBVIOUS
      <3> HIDE DEF b, r, u
      <3>2. b.remaining = r /\ b.unsent = u
        BY <2>2, <3>1 DEF Batches
      <3>3. QED
        BY <3>2 DEF r, u
    <2>4. c.supply = ct[id].supply - shares
      BY <2>2 DEF CtBurn, ClaimTokens
    <2>5. batch'[id] = b /\ ct'[id] = c
      BY <1>1, <1>2
    <2> HIDE DEF b, c
    <2>6. /\ (o.remaining - assets) * ct[id].supply
               >= o.remaining * (ct[id].supply - shares)
          /\ (o.unsent - units) * ct[id].supply
               >= o.unsent * (ct[id].supply - shares)
      BY <2>1, BackingKept
    <2>7. QED
      BY <1>4, <2>3, <2>4, <2>5, <2>6 DEF NotDiluted
  <1>5. QED
    BY <1>3, <1>4

(* So does a holder that burns its own, or passes it on.                   *)
LEMMA TokenNotDiluting ==
    ASSUME VaultInv, NEW id \in DOMAIN batch, NEW h \in Holders, NEW n \in Nat,
           \/ BurnCt(id, h, n)
           \/ \E to \in CtHolders : TransferCt(id, h, to, n),
           NEW i \in DOMAIN batch, batch[i].status = "Settled"
    PROVE  NotDiluted(i)
  <1>1. /\ ct \in Seq(ClaimTokens) /\ Len(ct) = Len(batch) /\ batch \in Seq(Batches)
    BY DEF VaultInv, TypeOK
  <1>2. /\ batch[i] \in Batches /\ ct[i] \in ClaimTokens
        /\ EntrySound(batch[i], ct[i], settings)
    BY Entry
  <1>3. /\ ct[id] \in ClaimTokens /\ EntrySound(batch[id], ct[id], settings)
    BY Entry
  <1>4. batch' = batch /\ h \in CtHolders
    BY DEF BurnCt, TransferCt, CtHolders
  <1>5. CASE i # id
    <2>1. ct'[i] = ct[i]
      BY <1>1, <1>5 DEF BurnCt, TransferCt
    <2>2. QED
      BY <1>4, <2>1, UntouchedNotDiluted
  <1>6. CASE i = id /\ \E to \in CtHolders : TransferCt(id, h, to, n)
    <2>1. PICK to \in CtHolders : TransferCt(id, h, to, n)
      BY <1>6
    <2>2. CtMove(ct[id], h, to, n).supply = ct[id].supply
      BY <1>3, <1>4, <2>1, MoveEffect DEF TransferCt, EntrySound, TokenSound
    <2>3. ct'[id] = CtMove(ct[id], h, to, n)
      BY <1>1, <2>1 DEF TransferCt
    <2>4. QED
      BY <1>4, <1>6, <2>2, <2>3, UntouchedNotDiluted
  <1>7. CASE i = id /\ BurnCt(id, h, n)
    <2>1. /\ CtBurn(ct[id], h, n).supply = ct[id].supply - n
          /\ ct[id].supply \in Nat
      BY <1>3, <1>4, <1>7, BurnEffect, SupplyNat DEF BurnCt, EntrySound, TokenSound
    <2>2. ct'[id] = CtBurn(ct[id], h, n)
      BY <1>1, <1>7 DEF BurnCt
    <2>3. batch[id].remaining \in Nat /\ batch[id].unsent \in Nat
      BY <1>2, <1>7 DEF EntrySound, BatchSound, Batches
    <2>4. /\ (batch[id].remaining - 0) * ct[id].supply
               >= batch[id].remaining * (ct[id].supply - n)
          /\ (batch[id].unsent - 0) * ct[id].supply
               >= batch[id].unsent * (ct[id].supply - n)
      <3>1. /\ 0 * ct[id].supply <= n * batch[id].remaining
            /\ 0 * ct[id].supply <= n * batch[id].unsent
        BY <2>1, <2>3
      <3>2. QED
        BY <2>1, <2>3, <3>1, BackingKept
    <2>5. batch[id].remaining - 0 = batch[id].remaining
          /\ batch[id].unsent - 0 = batch[id].unsent
      BY <2>3
    <2>6. QED
      BY <1>4, <1>7, <2>1, <2>2, <2>4, <2>5 DEF NotDiluted
  <1>8. QED
    BY <1>5, <1>6, <1>7

(* No other step touches a settled batch or its supply.                    *)
LEMMA SettledUntouched ==
    ASSUME VaultInv, NEW i \in DOMAIN batch, batch[i].status = "Settled",
           \/ \E h \in Holders, n \in Amounts, c \in CtHolders : RequestRedeem(h, n, c)
           \/ \E h \in Holders, n \in Amounts, id \in DOMAIN batch, r \in CtHolders :
                 Cancel(h, id, n, r)
           \/ Redemption
           \/ Governance
           \/ UNCHANGED <<batch, ct>>
    PROVE  batch'[i] = batch[i] /\ ct'[i].supply = ct[i].supply
  <1>1. /\ batch \in Seq(Batches) /\ ct \in Seq(ClaimTokens) /\ Len(ct) = Len(batch)
        /\ open \in (1 .. Len(batch)) \cup {None} /\ OpenIsOpen
    BY DEF VaultInv, TypeOK
  <1>2. /\ i \in DOMAIN ct /\ open # i
    BY <1>1, Entry DEF OpenIsOpen
  <1>3. CASE \E h \in Holders, n \in Amounts, c \in CtHolders : RequestRedeem(h, n, c)
    <2>1. PICK h \in Holders, n \in Amounts, c \in CtHolders : RequestRedeem(h, n, c)
      BY <1>3
    <2>2. CASE open = None
      BY <1>1, <1>2, <2>1, <2>2 DEF RequestRedeem
    <2>3. CASE open # None
      <3>1. PICK b, d : batch' = [batch EXCEPT ![open] = b] /\ ct' = [ct EXCEPT ![open] = d]
        BY <2>1, <2>3 DEF RequestRedeem
      <3>2. QED
        BY <1>1, <1>2, <3>1
    <2>4. QED
      BY <2>2, <2>3
  <1>4. CASE \E h \in Holders, n \in Amounts, id \in DOMAIN batch, r \in CtHolders :
                Cancel(h, id, n, r)
    BY <1>1, <1>2, <1>4 DEF Cancel
  <1>5. CASE Redemption
    <2>1. ASSUME NEW id \in DOMAIN batch, NEW nav,
                 RedeemBatch(id, nav) \/ \E to : WithdrawBatch(id, to, nav)
          PROVE  batch'[i] = batch[i] /\ ct' = ct
      BY <1>1, <2>1 DEF RedeemBatch, WithdrawBatch, MarkSent
    <2>2. ASSUME NEW id \in DOMAIN batch, Resend(id)
          PROVE  batch'[i] = batch[i] /\ ct' = ct
      BY <1>1, <2>2 DEF Resend
    <2>3. ASSUME NEW id \in DOMAIN batch, NEW n, Reopen(id, n)
          PROVE  batch'[i] = batch[i] /\ ct' = ct
      BY <1>1, <2>3 DEF Reopen
    <2>4. ASSUME NEW id \in DOMAIN batch, Settle(id)
          PROVE  batch'[i] = batch[i] /\ ct' = ct
      BY <1>1, <2>4 DEF Settle, Finish
    <2>5. ASSUME NEW id \in DOMAIN batch, NEW n, NEW r, NEW nav,
                 SettleManual(id, n, r, nav)
          PROVE  batch'[i] = batch[i] /\ ct' = ct
      BY <1>1, <2>5 DEF SettleManual, Finish
    <2>6. QED
      BY <1>5, <2>1, <2>2, <2>3, <2>4, <2>5 DEF Redemption
  <1>6. CASE Governance
    <2>1. batch' = batch
      BY <1>6 DEF Governance, AddAccount, SetPaused, Submit, Revoke,
                  AcceptSettings, AcceptSkim, AcceptDelay
    <2>2. ct' = ct \/ \E g : ct' = [ct EXCEPT ![open].gate = g]
      BY <1>6 DEF Governance, AddAccount, SetPaused, Submit, Revoke,
                  AcceptSettings, AcceptSkim, AcceptDelay, Regate
    <2>3. QED
      BY <1>1, <1>2, <2>1, <2>2
  <1>7. CASE UNCHANGED <<batch, ct>>
    BY <1>7
  <1>8. QED
    BY <1>3, <1>4, <1>5, <1>6, <1>7

(* A claim never takes more than its share, so what backs each remaining   *)
(* claim token of a settled batch never falls, in any step of anyone.      *)
THEOREM ClaimsNeverDiluted == Spec => ClaimsNeverDilute
  <1> DEFINE A == \A id \in DOMAIN batch :
                     batch[id].status = "Settled" =>
                        /\ batch'[id].remaining * ct[id].supply
                              >= batch[id].remaining * ct'[id].supply
                        /\ batch'[id].unsent * ct[id].supply
                              >= batch[id].unsent * ct'[id].supply
  <1>1. ASSUME VaultInv, [Next]_vars
        PROVE  A
    <2> SUFFICES ASSUME NEW i \in DOMAIN batch, batch[i].status = "Settled"
                 PROVE  NotDiluted(i)
      BY DEF NotDiluted
    <2>1. CASE \/ \E h \in Holders, n \in Amounts, c \in CtHolders :
                     RequestRedeem(h, n, c)
               \/ \E h \in Holders, n \in Amounts, id \in DOMAIN batch,
                     r \in CtHolders : Cancel(h, id, n, r)
               \/ Redemption
               \/ Governance
               \/ UNCHANGED <<batch, ct>>
      BY <1>1, <2>1, SettledUntouched, UntouchedNotDiluted
    <2>2. CASE \E h \in Holders, n \in Amounts, id \in DOMAIN batch,
                  r \in CtHolders : Claim(h, id, n, r)
      <3>1. Amounts \subseteq Nat
        BY VaultAssumption
      <3>2. QED
        BY <1>1, <2>2, <3>1, ClaimNotDiluting
    <2>3. CASE \E h \in Holders, n \in Amounts, id \in DOMAIN batch :
                  \/ BurnCt(id, h, n)
                  \/ \E to \in CtHolders : TransferCt(id, h, to, n)
      <3>1. Amounts \subseteq Nat
        BY VaultAssumption
      <3>2. QED
        BY <1>1, <2>3, <3>1, TokenNotDiluting
    <2>4. CASE Holder
      <3>1. \A h \in Holders : {h} \cup Recipients \subseteq CtHolders
        BY VaultAssumption DEF CtHolders
      <3>2. QED
        BY <2>1, <2>2, <2>3, <2>4, <3>1 DEF Holder
    <2>5. CASE \/ \E t \in Tokens, j \in DOMAIN accounts, n \in Amounts :
                     IssuerSends(t, accounts[j], n)
               \/ Tick \/ UNCHANGED vars
      <3>1. UNCHANGED <<batch, ct>>
        BY <2>5 DEF IssuerSends, Tick, vars
      <3>2. QED
        BY <2>1, <3>1
    <2>6. QED
      BY <1>1, <2>1, <2>4, <2>5 DEF Next
  <1>2. ClaimsNeverDilute <=> [][A]_vars
    BY DEF ClaimsNeverDilute
  <1> HIDE DEF A
  <1>3. QED
    BY <1>1, <1>2, VaultInit, VaultStep, PTL DEF Spec

(* The last of batch i's claim token does not go in this step without all  *)
(* that the batch owes, unless a holder burns it for nothing.              *)
NotStranding(i) ==
    ct[i].supply > 0 /\ ct'[i].supply = 0 =>
       \/ \E h \in Burners : BurnCt(i, h, ct[i].supply)
       \/ batch'[i].remaining = 0 /\ batch'[i].unsent = 0

(* A claim of the whole supply is paid all that is left.                   *)
LEMMA ClaimNotStranding ==
    ASSUME VaultInv, NEW id \in DOMAIN batch, NEW owner \in Holders,
           NEW shares \in Nat, NEW receiver, Claim(owner, id, shares, receiver),
           NEW i \in DOMAIN batch
    PROVE  NotStranding(i)
  <1> DEFINE o == batch[id]
             assets == Share(id, shares, o.remaining)
             units == Share(id, shares, o.unsent)
             r == o.remaining - assets
             u == o.unsent - units
             b == [o EXCEPT !.remaining = r, !.unsent = u]
             c == CtBurn(ct[id], owner, shares)
  <1>1. /\ batch \in Seq(Batches) /\ ct \in Seq(ClaimTokens) /\ Len(ct) = Len(batch)
        /\ o \in Batches /\ ct[id] \in ClaimTokens
    BY Entry DEF VaultInv, TypeOK
  <1>2. ct' = [ct EXCEPT ![id] = c] /\ batch' = [batch EXCEPT ![id] = b]
    BY DEF Claim
  <1>3. CASE i # id
    BY <1>1, <1>2, <1>3 DEF NotStranding
  <1>4. CASE i = id
    <2>1. /\ ct[id].supply \in Nat \ {0} /\ o.remaining \in Nat /\ o.unsent \in Nat
          /\ shares = ct[id].supply => assets = o.remaining /\ units = o.unsent
      BY ClaimEffect
    <2>2. c.supply = ct[id].supply - shares
      BY <1>1 DEF CtBurn, ClaimTokens
    <2>3. batch'[id] = b /\ ct'[id] = c
      BY <1>1, <1>2
    <2>4. shares = ct[id].supply => r = 0 /\ u = 0
      BY <2>1
    <2> HIDE DEF r, u, c
    <2>5. b.remaining = r /\ b.unsent = u
      BY <1>1 DEF Batches
    <2>6. QED
      BY <1>4, <2>1, <2>2, <2>3, <2>4, <2>5 DEF NotStranding
  <1>5. QED
    BY <1>3, <1>4

(* A burner that takes the supply to nothing burns all of it.              *)
LEMMA BurnNotStranding ==
    ASSUME VaultInv, NEW id \in DOMAIN batch, NEW h \in Burners, NEW n \in Nat,
           BurnCt(id, h, n), NEW i \in DOMAIN batch
    PROVE  NotStranding(i)
  <1>1. /\ ct \in Seq(ClaimTokens) /\ Len(ct) = Len(batch) /\ ct[id] \in ClaimTokens
        /\ id \in DOMAIN ct
    BY Entry DEF VaultInv, TypeOK
  <1>2. ct' = [ct EXCEPT ![id] = CtBurn(ct[id], h, n)]
    BY DEF BurnCt
  <1>3. CASE i # id
    BY <1>1, <1>2, <1>3 DEF NotStranding
  <1>4. CASE i = id
    <2>1. ct'[id].supply = ct[id].supply - n /\ ct[id].supply \in Int
      BY <1>1, <1>2 DEF CtBurn, ClaimTokens
    <2>2. ct'[id].supply = 0 => n = ct[id].supply
      BY <2>1
    <2>3. QED
      BY <1>4, <2>2 DEF NotStranding
  <1>5. QED
    BY <1>3, <1>4

(* Passing the claim token on leaves its supply alone.                     *)
LEMMA TransferNotStranding ==
    ASSUME VaultInv, NEW id \in DOMAIN batch, NEW h \in Holders, NEW n \in Nat,
           NEW to \in CtHolders, TransferCt(id, h, to, n), NEW i \in DOMAIN batch
    PROVE  NotStranding(i)
  <1>1. /\ ct \in Seq(ClaimTokens) /\ Len(ct) = Len(batch) /\ ct[id] \in ClaimTokens
        /\ EntrySound(batch[id], ct[id], settings) /\ h \in CtHolders
    BY Entry DEF VaultInv, TypeOK, CtHolders
  <1>2. CtMove(ct[id], h, to, n).supply = ct[id].supply
    BY <1>1, MoveEffect DEF TransferCt, EntrySound, TokenSound
  <1>3. ct' = [ct EXCEPT ![id] = CtMove(ct[id], h, to, n)]
    BY DEF TransferCt
  <1>4. ct'[i].supply = ct[i].supply
    BY <1>1, <1>2, <1>3
  <1>5. QED
    BY <1>4 DEF NotStranding

(* The last claim on a settled batch takes everything the batch has left,  *)
(* whatever was claimed, passed on or burnt before it: a batch is left     *)
(* with proceeds that nobody can claim only by a holder's direct burn.     *)
THEOREM LastClaimTakesAll == Spec => NothingStranded
  <1> DEFINE A == \A id \in With("Settled") :
                     ct[id].supply > 0 /\ ct'[id].supply = 0 =>
                        \/ \E h \in Burners : BurnCt(id, h, ct[id].supply)
                        \/ batch'[id].remaining = 0 /\ batch'[id].unsent = 0
  <1>1. ASSUME VaultInv, [Next]_vars
        PROVE  A
    <2> SUFFICES ASSUME NEW i \in DOMAIN batch, batch[i].status = "Settled"
                 PROVE  NotStranding(i)
      BY DEF NotStranding, With
    <2>0. Amounts \subseteq Nat /\ Burners \subseteq Holders
          /\ \A h \in Holders : {h} \cup Recipients \subseteq CtHolders
      BY VaultAssumption DEF CtHolders
    <2>1. CASE \/ \E h \in Holders, n \in Amounts, c \in CtHolders :
                     RequestRedeem(h, n, c)
               \/ \E h \in Holders, n \in Amounts, id \in DOMAIN batch,
                     r \in CtHolders : Cancel(h, id, n, r)
               \/ Redemption
               \/ Governance
               \/ UNCHANGED <<batch, ct>>
      <3>1. ct'[i].supply = ct[i].supply
        BY <1>1, <2>1, SettledUntouched
      <3>2. QED
        BY <3>1 DEF NotStranding
    <2>2. CASE \E h \in Holders, n \in Amounts, id \in DOMAIN batch,
                  r \in CtHolders : Claim(h, id, n, r)
      BY <1>1, <2>0, <2>2, ClaimNotStranding
    <2>3. CASE \E h \in Burners, n \in Amounts, id \in DOMAIN batch :
                  BurnCt(id, h, n)
      BY <1>1, <2>0, <2>3, BurnNotStranding
    <2>4. CASE \E h \in Holders, n \in Amounts, id \in DOMAIN batch,
                  to \in CtHolders : TransferCt(id, h, to, n)
      BY <1>1, <2>0, <2>4, TransferNotStranding
    <2>5. CASE Holder
      BY <2>0, <2>1, <2>2, <2>3, <2>4, <2>5 DEF Holder
    <2>6. CASE \/ \E t \in Tokens, j \in DOMAIN accounts, n \in Amounts :
                     IssuerSends(t, accounts[j], n)
               \/ Tick \/ UNCHANGED vars
      <3>1. UNCHANGED <<batch, ct>>
        BY <2>6 DEF IssuerSends, Tick, vars
      <3>2. QED
        BY <2>1, <3>1
    <2>7. QED
      BY <1>1, <2>1, <2>5, <2>6 DEF Next
  <1>2. NothingStranded <=> [][A]_vars
    BY DEF NothingStranded
  <1> HIDE DEF A
  <1>3. QED
    BY <1>1, <1>2, VaultInit, VaultStep, PTL DEF Spec

(* The guards of `cancel` and `claim` for all that a holder has.           *)
CancelAllowed(h, id, n) ==
    /\ 0 < n /\ n <= batch[id].units /\ CtCanBurn(ct[id], h, n)
    /\ CanSend(bal, "rwa", n)
ClaimAllowed(h, id, n) ==
    LET assets == Share(id, n, batch[id].remaining)
        units  == Share(id, n, batch[id].unsent)
    IN  /\ n > 0 /\ ct[id].supply > 0
        /\ batch[id].remaining >= 0 /\ batch[id].unsent >= 0
        /\ CtCanBurn(ct[id], h, n)
        /\ CanSend(bal, "stable", assets)
        /\ CanSend(Send(bal, "stable", h, assets), "rwa", units)

(* Nobody is locked in: in every reachable state, whoever paused, gated,   *)
(* skimmed or claimed before, every guard of `cancel` on an open batch and *)
(* of `claim` on a settled one holds for all of a holder's claim token.    *)
(* It is HoldersCanLeave with the actions' guards in place of ENABLED.     *)
THEOREM HoldersNeverLockedIn ==
    Spec => [](\A id \in DOMAIN batch, h \in Holders :
                  ct[id].bal[h] > 0 =>
                     /\ batch[id].status = "Open" =>
                           CancelAllowed(h, id, ct[id].bal[h])
                     /\ batch[id].status = "Settled" =>
                           ClaimAllowed(h, id, ct[id].bal[h]))
  <1> DEFINE L == \A id \in DOMAIN batch, h \in Holders :
                     ct[id].bal[h] > 0 =>
                        /\ batch[id].status = "Open" =>
                              CancelAllowed(h, id, ct[id].bal[h])
                        /\ batch[id].status = "Settled" =>
                              ClaimAllowed(h, id, ct[id].bal[h])
  <1>1. VaultInv => L
    <2> SUFFICES ASSUME VaultInv, NEW id \in DOMAIN batch, NEW h \in Holders,
                        ct[id].bal[h] > 0
                 PROVE  /\ batch[id].status = "Open" =>
                              CancelAllowed(h, id, ct[id].bal[h])
                        /\ batch[id].status = "Settled" =>
                              ClaimAllowed(h, id, ct[id].bal[h])
      OBVIOUS
    <2> DEFINE b == batch[id]
               n == ct[id].bal[h]
    <2>1. /\ b \in Batches /\ ct[id] \in ClaimTokens
          /\ EntrySound(b, ct[id], settings) /\ bal \in Ledger
      BY Entry
    <2>2. /\ ct[id].supply \in Nat /\ n <= ct[id].supply /\ n \in Nat
      BY <2>1, SupplyNat DEF EntrySound, TokenSound, CtHolders, ClaimTokens
    <2>3. CtCanBurn(ct[id], h, n)
      BY <2>2 DEF CtCanBurn
    <2>4. /\ totals.pooled \in Nat /\ totals.proceeds \in Nat /\ totals.rwa \in Nat
          /\ Pooled(b) <= totals.pooled /\ Unclaimed(b) <= totals.proceeds
          /\ InKind(b) <= totals.rwa
      BY PartsCovered
    <2>5. /\ bal["stable"][VAULT] >= totals.proceeds
          /\ bal["rwa"][VAULT] >= totals.pooled + totals.rwa
          /\ bal["stable"][VAULT] \in Nat /\ bal["rwa"][VAULT] \in Nat
      BY <2>1, Parties DEF VaultInv, Covered, Ledger, Tokens
    <2>6. ASSUME b.status = "Open"
          PROVE  CancelAllowed(h, id, n)
      <3>1. b.units \in Nat /\ n <= b.units /\ Pooled(b) = b.units
        BY <2>1, <2>2, <2>6 DEF EntrySound, TokenSound, Pooled, Batches
      <3>2. CanSend(bal, "rwa", n)
        BY <2>2, <2>4, <2>5, <3>1 DEF CanSend
      <3>3. QED
        BY <2>2, <2>3, <3>1, <3>2 DEF CancelAllowed
    <2>7. ASSUME b.status = "Settled"
          PROVE  ClaimAllowed(h, id, n)
      <3> DEFINE assets == Share(id, n, b.remaining)
                 units == Share(id, n, b.unsent)
      <3>1. /\ b.remaining \in Nat /\ b.unsent \in Nat
            /\ Unclaimed(b) = b.remaining /\ InKind(b) = b.unsent
        BY <2>1, <2>7 DEF EntrySound, BatchSound, Batches, Unclaimed, InKind
      <3>2. ct[id].supply \in Nat \ {0}
        BY <2>2
      <3>3. /\ assets \in Nat /\ assets <= b.remaining
            /\ units \in Nat /\ units <= b.unsent
        BY <2>2, <3>1, <3>2, ShareFacts
      <3> HIDE DEF assets, units
      <3>4. CanSend(bal, "stable", assets)
        BY <2>4, <2>5, <3>1, <3>3 DEF CanSend
      <3>5. Send(bal, "stable", h, assets)["rwa"][VAULT] = bal["rwa"][VAULT]
        BY <2>1, <3>3, <3>4, SendEffect, Parties DEF Tokens
      <3>6. CanSend(Send(bal, "stable", h, assets), "rwa", units)
        BY <2>4, <2>5, <3>1, <3>3, <3>5 DEF CanSend
      <3>7. QED
        BY <2>2, <2>3, <3>1, <3>2, <3>4, <3>6 DEF ClaimAllowed, assets, units
    <2>8. QED
      BY <2>6, <2>7
  <1> HIDE DEF L
  <1>2. Spec => []L
    BY <1>1, VaultInit, VaultStep, PTL DEF Spec
  <1>3. QED
    BY <1>2 DEF L
=============================================================================
