----------------------------- MODULE QueueProofs ----------------------------
(***************************************************************************)
(* Why the queue always holds the oLP of those who wait in it, why nobody  *)
(* overtakes, and why what max_withdraw promises a holder can be withdrawn *)
(* at once: for every set of holders and RWAs, all amounts, terms and      *)
(* prices, and positions without number.                                   *)
(***************************************************************************)
EXTENDS WithdrawalQueue, ArithmeticTheorems

-----------------------------------------------------------------------------
(* The oLP ledger                                                          *)

(* Every share of a ledger is some holder's, and nobody is frozen.         *)
LedgerOK(t) ==
    /\ t \in Ledgers(Holders) /\ t.supply = SumOver(t.bal, Holders)
    /\ t.frozen = {}

(* The parts of a ledger.                                                  *)
LEMMA LedgerTypes ==
    ASSUME NEW t \in Ledgers(Holders)
    PROVE  /\ t.bal \in [Holders -> Nat] /\ t.supply \in Nat /\ t.hwm \in Nat
           /\ t.allowlist \in BOOLEAN
           /\ t.member \in SUBSET Holders /\ t.frozen \in SUBSET Holders
  BY DEF Ledgers

(* The holders are finitely many.                                          *)
LEMMA HoldersFinite == IsFiniteSet(Holders)
  <1>1. IsFiniteSet(Lps) /\ IsFiniteSet({Curator, QUEUE})
    <2>1. IsFiniteSet({}) /\ IsFiniteSet({} \cup {Curator})
      BY FS_EmptySet, FS_AddElement
    <2>2. IsFiniteSet(({} \cup {Curator}) \cup {QUEUE})
      BY <2>1, FS_AddElement
    <2>3. ({} \cup {Curator}) \cup {QUEUE} = {Curator, QUEUE}
      OBVIOUS
    <2>4. QED
      BY <2>2, <2>3, FacilityAssumption
  <1>2. QED
    BY <1>1, FS_Union DEF Holders

(* A ledger with new balances and supply.                                  *)
With(t, b, s) == [t EXCEPT !.bal = b, !.supply = s]

(* A balance that moves moves the supply by as much.                       *)
LEMMA WithOK ==
    ASSUME NEW t, LedgerOK(t), NEW h \in Holders, NEW b \in [Holders -> Nat],
           \A x \in Holders \ {h} : b[x] = t.bal[x],
           NEW s, s = t.supply + (b[h] - t.bal[h])
    PROVE  /\ s \in Nat /\ LedgerOK(With(t, b, s))
           /\ With(t, b, s).bal = b /\ With(t, b, s).supply = s
           /\ With(t, b, s).hwm = t.hwm
  <1>1. /\ t \in Ledgers(Holders) /\ t.supply = SumOver(t.bal, Holders)
        /\ t.bal \in [Holders -> Nat] /\ t.supply \in Nat /\ t.frozen = {}
    BY LedgerTypes DEF LedgerOK
  <1>2. \A x \in Holders : t.bal[x] \in Int /\ b[x] \in Int
    BY <1>1
  <1>3. SumOver(b, Holders) = SumOver(t.bal, Holders) + (b[h] - t.bal[h])
    BY <1>2, HoldersFinite, SumChange
  <1>4. SumOver(b, Holders) \in Nat
    <2>1. \A x \in Holders : b[x] \in Nat
      OBVIOUS
    <2>2. QED
      BY <2>1, HoldersFinite, SumNat
  <1>5. s \in Nat /\ s = SumOver(b, Holders)
    BY <1>1, <1>3, <1>4
  <1> DEFINE w == With(t, b, s)
  <1>6. /\ w \in Ledgers(Holders) /\ w.bal = b /\ w.supply = s
        /\ w.hwm = t.hwm /\ w.frozen = t.frozen
    BY <1>1, <1>5 DEF With, Ledgers
  <1> HIDE DEF w
  <1>7. LedgerOK(w)
    BY <1>1, <1>5, <1>6 DEF LedgerOK
  <1>8. QED
    BY <1>5, <1>6, <1>7, Zenon DEF w

(* Minting credits the receiver and the supply alike.                      *)
LEMMA MintOK ==
    ASSUME NEW t, LedgerOK(t), NEW to \in Holders, NEW n \in Nat
    PROVE  /\ LedgerOK(Mint(t, to, n))
           /\ Mint(t, to, n).supply = t.supply + n
           /\ Mint(t, to, n).bal[to] = t.bal[to] + n
           /\ \A h \in Holders \ {to} : Mint(t, to, n).bal[h] = t.bal[h]
  <1> DEFINE b == [t.bal EXCEPT ![to] = t.bal[to] + n]
             s == t.supply + n
  <1>1. /\ t \in Ledgers(Holders) /\ t.bal \in [Holders -> Nat] /\ t.supply \in Nat
    BY LedgerTypes DEF LedgerOK
  <1>2. t.bal[to] \in Nat
    BY <1>1
  <1>3. /\ b \in [Holders -> Nat] /\ b[to] = t.bal[to] + n
        /\ \A h \in Holders \ {to} : b[h] = t.bal[h]
    BY <1>1, <1>2
  <1>4. Mint(t, to, n) = With(t, b, s)
    BY <1>1 DEF With, Mint, Ledgers
  <1> HIDE DEF b
  <1>5. s = t.supply + (b[to] - t.bal[to])
    BY <1>1, <1>2, <1>3
  <1> HIDE DEF s
  <1>6. LedgerOK(With(t, b, s)) /\ With(t, b, s).bal = b /\ With(t, b, s).supply = s
    BY <1>3, <1>5, WithOK
  <1>7. QED
    BY <1>3, <1>4, <1>6 DEF s

(* Burning what the holder has debits it and the supply alike.             *)
LEMMA BurnOK ==
    ASSUME NEW t, LedgerOK(t), NEW from \in Holders, NEW n \in Nat,
           n <= t.bal[from]
    PROVE  /\ LedgerOK(Burn(t, from, n))
           /\ Burn(t, from, n).bal[from] = t.bal[from] - n
           /\ \A h \in Holders \ {from} : Burn(t, from, n).bal[h] = t.bal[h]
  <1> DEFINE b == [t.bal EXCEPT ![from] = t.bal[from] - n]
             s == t.supply - n
  <1>1. /\ t \in Ledgers(Holders) /\ t.bal \in [Holders -> Nat] /\ t.supply \in Nat
    BY LedgerTypes DEF LedgerOK
  <1>2. t.bal[from] \in Nat
    BY <1>1
  <1>3. /\ b \in [Holders -> Nat] /\ b[from] = t.bal[from] - n
        /\ \A h \in Holders \ {from} : b[h] = t.bal[h]
    BY <1>1, <1>2
  <1>4. Burn(t, from, n) = With(t, b, s)
    BY <1>1 DEF With, Burn, Ledgers
  <1> HIDE DEF b
  <1>5. s = t.supply + (b[from] - t.bal[from])
    BY <1>1, <1>2, <1>3
  <1> HIDE DEF s
  <1>6. LedgerOK(With(t, b, s)) /\ With(t, b, s).bal = b
    BY <1>3, <1>5, WithOK
  <1>7. QED
    BY <1>3, <1>4, <1>6

(* A transfer, to another or to oneself, moves what the holder has and     *)
(* creates nothing.                                                        *)
LEMMA MovedOK ==
    ASSUME NEW t, LedgerOK(t), NEW from \in Holders, NEW to \in Holders,
           NEW n \in Nat, n <= t.bal[from]
    PROVE  /\ LedgerOK(Moved(t, from, to, n))
           /\ from # to => /\ Moved(t, from, to, n).bal[from] = t.bal[from] - n
                           /\ Moved(t, from, to, n).bal[to] = t.bal[to] + n
           /\ \A h \in Holders \ {from, to} :
                 Moved(t, from, to, n).bal[h] = t.bal[h]
  <1> DEFINE c == [t.bal EXCEPT ![from] = t.bal[from] - n]
             b == [c EXCEPT ![to] = c[to] + n]
             s == t.supply - n
             d == With(t, c, s)
  <1>1. /\ t \in Ledgers(Holders) /\ t.bal \in [Holders -> Nat] /\ t.supply \in Nat
    BY LedgerTypes DEF LedgerOK
  <1>2. t.bal[from] \in Nat /\ t.bal[to] \in Nat
    BY <1>1
  <1>3. /\ c \in [Holders -> Nat] /\ c[from] = t.bal[from] - n
        /\ \A h \in Holders \ {from} : c[h] = t.bal[h]
    BY <1>1, <1>2
  <1>4. Moved(t, from, to, n) = With(d, b, t.supply)
    BY <1>1 DEF With, Moved, Ledgers
  <1> HIDE DEF c
  <1>5. c[to] \in Nat
    BY <1>3
  <1>6. /\ b \in [Holders -> Nat] /\ b[to] = c[to] + n
        /\ \A h \in Holders \ {to} : b[h] = c[h]
    BY <1>3, <1>5
  <1> HIDE DEF b
  <1>7. s = t.supply + (c[from] - t.bal[from])
    BY <1>1, <1>2, <1>3
  <1>8. s \in Nat /\ LedgerOK(d) /\ d.bal = c /\ d.supply = s
    <2> HIDE DEF s
    <2>1. QED
      BY <1>3, <1>7, WithOK
  <1> HIDE DEF d
  <1>9. t.supply = d.supply + (b[to] - d.bal[to])
    BY <1>1, <1>2, <1>5, <1>6, <1>8
  <1>10. LedgerOK(With(d, b, t.supply)) /\ With(d, b, t.supply).bal = b
    <2>1. \A h \in Holders \ {to} : b[h] = d.bal[h]
      BY <1>6, <1>8
    <2>2. QED
      BY <1>6, <1>8, <1>9, <2>1, WithOK
  <1> HIDE DEF s
  <1>11. from # to => b[from] = t.bal[from] - n /\ b[to] = t.bal[to] + n
    BY <1>2, <1>3, <1>6
  <1>12. \A h \in Holders \ {from, to} : b[h] = t.bal[h]
    BY <1>3, <1>6
  <1>13. QED
    BY <1>4, <1>10, <1>11, <1>12

(* Before the first deposit nobody has anything.                           *)
LEMMA EmptyOK == LedgerOK(EmptyLedger(Holders)) /\ EmptyLedger(Holders).bal[QUEUE] = 0
  <1> DEFINE t == EmptyLedger(Holders)
             z == [h \in Holders |-> 0]
             p == SharePrice(0, 0)
  <1>1. p \in Nat
    BY SharesAssumption, MulDivBelow DEF SharePrice
  <1> HIDE DEF p
  <1>2. t \in Ledgers(Holders) /\ t.bal = z /\ t.supply = 0 /\ t.frozen = {}
    BY <1>1 DEF EmptyLedger, Ledgers, p
  <1>3. SumOver(z, Holders) = 0
    <2>1. \A h \in Holders : z[h] = 0
      OBVIOUS
    <2> HIDE DEF z
    <2>2. QED
      BY <2>1, HoldersFinite, SumZero
  <1>4. z[QUEUE] = 0
    BY DEF Holders
  <1>5. QED
    BY <1>2, <1>3, <1>4 DEF LedgerOK

-----------------------------------------------------------------------------
(* Prices and fees.  The NAV may be negative: what is locked is taken off  *)
(* what a vault's position is worth now.                                   *)

(* A floored quotient of an integer brackets it.                           *)
LEMMA IntQuotient ==
    ASSUME NEW a \in Int, NEW d \in Nat \ {0}
    PROVE  a \div d \in Int /\ d * (a \div d) <= a /\ (a \div d > 0 => a > 0)
  OBVIOUS

(* A price is positive only over a NAV that is not negative.               *)
LEMMA PriceFacts ==
    ASSUME NEW n \in Int, NEW s \in Nat
    PROVE  /\ SharePrice(n, s) \in Int
           /\ n \in Nat => SharePrice(n, s) \in Nat
           /\ SharePrice(n, s) > 0 => n \in Nat
  <1> DEFINE a == (n + 1) * ONE
             d == s + VIRTUAL
  <1>1. ONE \in Nat \ {0} /\ d \in Nat \ {0} /\ a \in Int
    BY SharesAssumption
  <1>2. SharePrice(n, s) = a \div d
    BY DEF SharePrice, MulDiv
  <1>3. n \notin Nat => a <= 0
    BY <1>1
  <1>4. n \in Nat => a \in Nat
    BY <1>1
  <1> HIDE DEF a, d
  <1>5. a \div d \in Int /\ (a \div d > 0 => a > 0)
    BY <1>1, IntQuotient
  <1>6. a \in Nat => a \div d \in Nat
    BY <1>1, DivBracket
  <1>7. QED
    BY <1>1, <1>2, <1>3, <1>4, <1>5, <1>6

(* What a snapshot says, whatever the NAV.                                 *)
LEMMA SnapshotFacts ==
    ASSUME NEW t \in Ledgers(Holders), NEW nav \in Int, NEW fee_bps \in 0 .. BPS,
           NEW s, s = Snapshot(t, nav, fee_bps)
    PROVE  /\ s.nav = nav /\ s.fee_shares \in Nat
           /\ s.supply = t.supply + s.fee_shares /\ s.supply \in Nat
           /\ s.hwm \in Nat
  <1> DEFINE n == nav + 1
             u == t.supply + VIRTUAL
             h == t.hwm
             p == SharePrice(nav, t.supply)
             g == MulDiv(p - h, u, ONE)
             f == MulDiv(g, fee_bps, BPS)
             e == MulDiv(f, u, nav + 1 - f)
             due == p > h /\ t.supply > 0 /\ f > 0 /\ f <= nav
             m == FeeShares(t, nav, fee_bps)
  <1>1. t.supply \in Nat /\ h \in Nat
    BY LedgerTypes
  <1>2. /\ u \in Nat \ {0} /\ ONE \in Nat \ {0} /\ BPS \in Nat \ {0} /\ fee_bps \in Nat
    BY <1>1, SharesAssumption
  <1>3. p \in Int /\ (p > 0 => nav \in Nat)
    BY <1>1, PriceFacts
  <1>4. m = IF due THEN e ELSE 0
    BY Zenon DEF FeeShares
  <1>5. m \in Nat
    <2>1. CASE ~due
      BY <1>4, <2>1
    <2>2. CASE due
      <3>1. p - h \in Nat /\ nav \in Nat
        BY <1>1, <1>3, <2>2
      <3>2. g \in Nat
        <4> HIDE DEF p, h, u
        <4>1. QED
          BY <1>2, <3>1, MulDivBelow
      <3>3. f \in Nat
        <4> HIDE DEF g
        <4>1. QED
          BY <1>2, <3>2, MulDivBelow
      <3>4. nav + 1 - f \in Nat \ {0}
        <4> HIDE DEF f
        <4>1. QED
          BY <2>2, <3>1, <3>3
      <3>5. e \in Nat
        <4> DEFINE d == nav + 1 - f
        <4>1. d \in Nat \ {0} /\ e = MulDiv(f, u, d)
          BY <3>4
        <4> HIDE DEF d, f, u, e
        <4>2. QED
          BY <1>2, <3>3, <4>1, MulDivBelow
      <3>6. QED
        BY <1>4, <2>2, <3>5
    <2>3. QED
      BY <2>1, <2>2
  <1> HIDE DEF m
  <1>6. /\ s.nav = nav /\ s.fee_shares = m /\ s.supply = t.supply + m
        /\ s.hwm = IF p > h THEN SharePrice(nav, t.supply + m) ELSE h
    BY DEF Snapshot, Mark, m
  <1>7. t.supply + m \in Nat
    BY <1>1, <1>5
  <1>8. p > h => SharePrice(nav, t.supply + m) \in Nat
    <2>1. p > h => nav \in Nat
      BY <1>1, <1>3
    <2>2. QED
      BY <1>7, <2>1, PriceFacts
  <1> HIDE DEF p, h
  <1>9. QED
    BY <1>1, <1>5, <1>6, <1>7, <1>8

(* Accruing mints the fee to the curator, and to nobody else.              *)
LEMMA AccrueOK ==
    ASSUME NEW t, LedgerOK(t), NEW s, s.fee_shares \in Nat, s.hwm \in Nat
    PROVE  /\ LedgerOK(Accrue(t, s, Curator))
           /\ \A h \in Lps \cup {QUEUE} : Accrue(t, s, Curator).bal[h] = t.bal[h]
  <1> DEFINE m == Mint(t, Curator, s.fee_shares)
             a == Accrue(t, s, Curator)
  <1>1. Curator \in Holders /\ \A h \in Lps \cup {QUEUE} : h \in Holders \ {Curator}
    BY FacilityAssumption DEF Holders
  <1>2. LedgerOK(m) /\ \A h \in Holders \ {Curator} : m.bal[h] = t.bal[h]
    BY <1>1, MintOK
  <1>3. a = [m EXCEPT !.hwm = s.hwm]
    BY DEF Accrue
  <1> HIDE DEF m, a
  <1>4. /\ a \in Ledgers(Holders) /\ a.bal = m.bal /\ a.supply = m.supply
        /\ a.frozen = m.frozen
    BY <1>2, <1>3 DEF LedgerOK, Ledgers
  <1>5. LedgerOK(a)
    BY <1>2, <1>4 DEF LedgerOK
  <1>6. QED
    BY <1>1, <1>2, <1>4, <1>5 DEF a

(* Assets for shares, at any NAV: a positive amount takes a NAV that is    *)
(* not negative.                                                           *)
LEMMA ToAssetsFacts ==
    ASSUME NEW s, s.nav \in Int, s.supply \in Nat, NEW n \in Nat
    PROVE  /\ ToAssets(s, n) \in Int
           /\ s.nav \in Nat => ToAssets(s, n) \in Nat
           /\ ToAssets(s, n) > 0 => s.nav \in Nat
  <1> DEFINE a == n * (s.nav + 1)
             d == s.supply + VIRTUAL
  <1>1. d \in Nat \ {0} /\ a \in Int
    BY SharesAssumption
  <1>2. ToAssets(s, n) = a \div d
    BY DEF ToAssets, MulDiv
  <1>3. s.nav \notin Nat => a <= 0
    OBVIOUS
  <1>4. s.nav \in Nat => a \in Nat
    OBVIOUS
  <1> HIDE DEF a, d
  <1>5. a \div d \in Int /\ (a \div d > 0 => a > 0)
    BY <1>1, IntQuotient
  <1>6. a \in Nat => a \div d \in Nat
    BY <1>1, DivBracket
  <1>7. QED
    BY <1>1, <1>2, <1>3, <1>4, <1>5, <1>6

(* What a holder's shares are worth can be had for no more than its        *)
(* shares, and not for nothing.                                            *)
LEMMA WorthCosts ==
    ASSUME NEW s, s.nav \in Nat, s.supply \in Nat, NEW n \in Nat, NEW a \in Nat,
           a <= ToAssets(s, n)
    PROVE  /\ ToSharesUp(s, a) \in Nat /\ ToSharesUp(s, a) <= n
           /\ a > 0 => ToSharesUp(s, a) > 0
  <1> DEFINE x == s.nav + 1
             d == s.supply + VIRTUAL
             q == ToAssets(s, n)
             u == ToSharesUp(s, a)
  <1>1. x \in Nat \ {0} /\ d \in Nat \ {0}
    BY SharesAssumption
  <1>2. q = MulDiv(n, x, d) /\ u = MulDivCeil(a, d, x)
    BY DEF ToAssets, ToSharesUp
  <1> HIDE DEF x, d, q, u
  <1>3. q \in Nat /\ q * d <= n * x
    BY <1>1, <1>2, MulDivBelow
  <1>4. a * d <= q * d
    <2>1. a <= q
      BY DEF q
    <2>2. QED
      BY <1>1, <1>3, <2>1
  <1>5. a * d <= n * x
    BY <1>1, <1>3, <1>4
  <1>6. u <= n
    BY <1>1, <1>2, <1>5, MulDivCeilAtMost
  <1>7. u \in Nat /\ u * x >= a * d
    BY <1>1, <1>2, MulDivCeilAbove
  <1>8. a > 0 => u > 0
    <2>1. SUFFICES ASSUME a > 0, u = 0 PROVE FALSE
      BY <1>7
    <2>2. u * x = 0 /\ a * d > 0 /\ a * d \in Nat
      BY <1>1, <2>1
    <2>3. QED
      BY <1>7, <2>2
  <1>9. QED
    BY <1>6, <1>7, <1>8 DEF u

-----------------------------------------------------------------------------
(* A vault, as the facility uses it                                        *)

(* What a vault can pay now it has.                                        *)
VaultOK(v) == v \in Vaults /\ v.liquid <= v.nav

(* The parts of a vault, and what a facility's shares of it are worth.     *)
LEMMA VaultFacts ==
    ASSUME NEW v, VaultOK(v)
    PROVE  /\ v.nav \in Nat /\ v.shares \in Nat /\ v.liquid \in Nat
           /\ v.liquid <= v.nav
           /\ VSnap(v).nav = v.nav /\ VSnap(v).supply = v.shares
           /\ Position(v) \in Nat /\ Payable(v) \in Nat
           /\ Payable(v) <= Position(v) /\ Payable(v) <= v.liquid
  <1>1. /\ v.nav \in Nat /\ v.shares \in Nat /\ v.liquid \in Nat
        /\ v.liquid <= v.nav
    BY DEF VaultOK, Vaults
  <1>2. VSnap(v).nav = v.nav /\ VSnap(v).supply = v.shares
    BY DEF VSnap
  <1>3. Position(v) \in Nat
    BY <1>1, <1>2, ToAssetsFacts DEF Position
  <1>4. QED
    BY <1>1, <1>2, <1>3 DEF Payable, Lesser

(* A deposit adds what is paid in.                                         *)
LEMMA PutOK ==
    ASSUME NEW v, VaultOK(v), NEW n \in Nat
    PROVE  VaultOK(Put(v, n))
  <1> DEFINE m == ToShares(VSnap(v), n)
  <1>1. /\ v.nav \in Nat /\ v.shares \in Nat /\ v.liquid \in Nat
        /\ v.liquid <= v.nav /\ VSnap(v).nav = v.nav /\ VSnap(v).supply = v.shares
    BY VaultFacts
  <1>2. m \in Nat
    <2>1. v.shares + VIRTUAL \in Nat /\ v.nav + 1 \in Nat \ {0}
      BY <1>1, SharesAssumption
    <2>2. m = MulDiv(n, v.shares + VIRTUAL, v.nav + 1)
      BY <1>1 DEF ToShares
    <2>3. QED
      BY <2>1, <2>2, MulDivBelow
  <1> HIDE DEF m
  <1>3. Put(v, n) = [nav |-> v.nav + n, shares |-> v.shares + m, liquid |-> v.liquid + n]
    BY DEF Put, m
  <1>4. QED
    BY <1>1, <1>2, <1>3 DEF VaultOK, Vaults

(* A withdrawal takes what the vault can pay.                              *)
LEMMA PullOK ==
    ASSUME NEW v, VaultOK(v), NEW n \in Nat, CanPull(v, n)
    PROVE  VaultOK(Pull(v, n))
  <1> DEFINE m == ToSharesUp(VSnap(v), n)
  <1>1. /\ v.nav \in Nat /\ v.shares \in Nat /\ v.liquid \in Nat
        /\ v.liquid <= v.nav /\ VSnap(v).nav = v.nav /\ VSnap(v).supply = v.shares
    BY VaultFacts
  <1>2. m \in Nat
    <2>1. v.shares + VIRTUAL \in Nat /\ v.nav + 1 \in Nat \ {0}
      BY <1>1, SharesAssumption
    <2>2. m = MulDivCeil(n, v.shares + VIRTUAL, v.nav + 1)
      BY <1>1 DEF ToSharesUp
    <2>3. QED
      BY <2>1, <2>2, MulDivCeilAbove
  <1>3. m <= v.shares /\ n <= v.liquid
    BY DEF CanPull
  <1> HIDE DEF m
  <1>4. Pull(v, n) = [nav |-> v.nav - n, shares |-> v.shares - m, liquid |-> v.liquid - n]
    BY DEF Pull, m
  <1>5. QED
    BY <1>1, <1>2, <1>3, <1>4 DEF VaultOK, Vaults

(* What a vault can pay the facility can have.                             *)
LEMMA PayableCanBePulled ==
    ASSUME NEW v, VaultOK(v), NEW n \in Nat, 0 < n, n <= Payable(v)
    PROVE  CanPull(v, n)
  <1>1. /\ v.nav \in Nat /\ v.shares \in Nat /\ v.liquid \in Nat
        /\ VSnap(v).nav = v.nav /\ VSnap(v).supply = v.shares
        /\ Position(v) \in Nat /\ Payable(v) \in Nat
        /\ Payable(v) <= Position(v) /\ Payable(v) <= v.liquid
    BY VaultFacts
  <1>2. n <= ToAssets(VSnap(v), v.shares)
    BY <1>1 DEF Position
  <1>3. ToSharesUp(VSnap(v), n) <= v.shares
    BY <1>1, <1>2, WorthCosts
  <1>4. QED
    BY <1>1, <1>3 DEF CanPull

-----------------------------------------------------------------------------
(* The inductive invariant, in the parts a step may disturb                *)

(* What is queued is what its acceptance will write.                       *)
GovOK ==
    /\ paused \in BOOLEAN /\ events \in 0 .. MaxEvents
    /\ config \in [fee : 0 .. MAX_FEE, vest : Nat, queue : {QUEUE, None}]
    /\ DOMAIN pending = Kinds
    /\ pending["Fee"] \in (0 .. MAX_FEE) \cup {None}
    /\ pending["Vest"] \in Nat \cup {None}
    /\ pending["Queue"] \in {QUEUE, None}
    /\ \A r \in Rwas : pending[r] \in Terms \cup {None}
    /\ terms \in [Rwas -> Terms \cup {None}]

WorldOK == now \in 0 .. MaxTime /\ price \in [Rwas -> Prices] /\ sunk \in Nat

Reds == [amount : Nat, carried : Nat]
Locks == [locked : Nat, last : Nat, end : Nat]

(* An unlock has begun.                                                    *)
AssetsOK ==
    /\ vault \in [Tokens -> Vaults] /\ \A t \in Tokens : VaultOK(vault[t])
    /\ red \in [Rwas -> Reds \cup {None}]
    /\ lock \in Locks /\ lock.last <= now

(* The shares that the positions of a line hold, each and in all.          *)
SharesAt(l) == [id \in DOMAIN l |-> IF l[id] = None THEN 0 ELSE l[id].shares]
Held(l) == SumOver(SharesAt(l), DOMAIN l)

LineOK ==
    /\ line \in Seq(Positions \cup {None}) /\ head \in 0 .. Len(line)
    /\ share.bal[QUEUE] >= Held(line)
    /\ \A id \in DOMAIN line : line[id] # None => id > head

QueueInv == GovOK /\ WorldOK /\ AssetsOK /\ LedgerOK(share) /\ LineOK

(* A part that a step leaves alone holds after it.                         *)
LEMMA PartsKept ==
    /\ GovOK /\ UNCHANGED <<govVars, events>> => GovOK'
    /\ WorldOK /\ UNCHANGED worldVars => WorldOK'
    /\ AssetsOK /\ UNCHANGED <<vault, red, lock, now>> => AssetsOK'
    /\ LedgerOK(share) /\ UNCHANGED share => LedgerOK(share)'
    /\ LineOK /\ UNCHANGED <<line, head>> /\ share'.bal[QUEUE] = share.bal[QUEUE]
          => LineOK'
  <1>1. GovOK /\ UNCHANGED <<govVars, events>> => GovOK'
    BY DEF GovOK, govVars
  <1>2. WorldOK /\ UNCHANGED worldVars => WorldOK'
    BY DEF WorldOK, worldVars
  <1>3. AssetsOK /\ UNCHANGED <<vault, red, lock, now>> => AssetsOK'
    BY DEF AssetsOK
  <1>4. LedgerOK(share) /\ UNCHANGED share => LedgerOK(share)'
    BY DEF LedgerOK
  <1>5. ASSUME LineOK, UNCHANGED <<line, head>>, share'.bal[QUEUE] = share.bal[QUEUE]
        PROVE  LineOK'
    BY <1>5 DEF LineOK, Held, SharesAt
  <1>6. QED
    BY <1>1, <1>2, <1>3, <1>4, <1>5

-----------------------------------------------------------------------------
(* What every call computes first                                          *)

(* What is still locked is an amount.                                      *)
LEMMA LockedFacts ==
    ASSUME WorldOK, AssetsOK
    PROVE  LockedNow \in Nat
  <1>1. /\ lock.locked \in Nat /\ lock.last \in Nat /\ lock.end \in Nat
        /\ lock.last <= now /\ now \in Nat
    BY DEF WorldOK, AssetsOK, Locks
  <1>2. CASE now >= lock.end \/ lock.locked = 0
    BY <1>2 DEF LockedNow
  <1>3. CASE ~(now >= lock.end \/ lock.locked = 0)
    <2>1. lock.end - now \in Nat /\ lock.end - lock.last \in Nat \ {0}
      BY <1>1, <1>3
    <2>2. LockedNow = MulDiv(lock.locked, lock.end - now, lock.end - lock.last)
      BY <1>3 DEF LockedNow
    <2>3. QED
      BY <1>1, <2>1, <2>2, MulDivBelow
  <1>4. QED
    BY <1>2, <1>3

(* The facility's books of one RWA.                                        *)
LEMMA RwaFacts ==
    ASSUME WorldOK, AssetsOK, NEW r \in Rwas
    PROVE  /\ VaultOK(vault[r]) /\ price[r] \in Nat
           /\ ValueOf(r) \in Nat /\ Carried(r) \in Nat
           /\ red[r] # None => red[r].carried \in Nat
  <1>1. VaultOK(vault[r]) /\ price[r] \in Nat
    BY FacilityAssumption DEF WorldOK, AssetsOK, Tokens
  <1>2. Position(vault[r]) \in Nat
    BY <1>1, VaultFacts
  <1>3. ValueOf(r) \in Nat
    BY <1>1, <1>2, SharesAssumption, MulDivBelow DEF ValueOf
  <1>4. red[r] \in Reds \cup {None}
    BY DEF AssetsOK
  <1>5. red[r] # None => red[r].carried \in Nat
    BY <1>4 DEF Reds
  <1>6. QED
    BY <1>1, <1>3, <1>5 DEF Carried

(* The NAV is an integer, whatever the base vault.                         *)
LEMMA GrossFacts ==
    ASSUME WorldOK, AssetsOK, NEW b, VaultOK(b)
    PROVE  GrossWith(b) \in Int
  <1> DEFINE f == [r \in Rwas |-> IF Listed(r) THEN ValueOf(r) + Carried(r) ELSE 0]
  <1>1. \A r \in Rwas : f[r] \in Nat
    <2>1. TAKE r \in Rwas
    <2>2. ValueOf(r) \in Nat /\ Carried(r) \in Nat
      BY RwaFacts
    <2>3. f[r] = IF Listed(r) THEN ValueOf(r) + Carried(r) ELSE 0
      OBVIOUS
    <2> HIDE DEF f
    <2>4. QED
      BY <2>2, <2>3
  <1>2. GrossWith(b) = Position(b) + SumOver(f, Rwas) - LockedNow
    BY DEF GrossWith
  <1> HIDE DEF f
  <1>3. SumOver(f, Rwas) \in Nat
    BY <1>1, FacilityAssumption, SumNat
  <1>4. Position(b) \in Nat /\ LockedNow \in Nat
    BY VaultFacts, LockedFacts
  <1>5. QED
    BY <1>2, <1>3, <1>4

(* A snapshot of any ledger over any base vault, and its accrual.          *)
LEMMA SnapOfFacts ==
    ASSUME GovOK, WorldOK, AssetsOK, NEW t, LedgerOK(t), NEW b, VaultOK(b),
           NEW s, s = SnapOf(t, b)
    PROVE  /\ s.nav = GrossWith(b) /\ s.nav \in Int /\ s.supply \in Nat
           /\ LedgerOK(Accrue(t, s, Curator))
           /\ \A h \in Lps \cup {QUEUE} : Accrue(t, s, Curator).bal[h] = t.bal[h]
  <1>1. GrossWith(b) \in Int /\ t \in Ledgers(Holders)
    BY GrossFacts DEF LedgerOK
  <1>2. config.fee \in 0 .. BPS
    BY FacilityAssumption, SharesAssumption DEF GovOK
  <1>3. s = Snapshot(t, GrossWith(b), config.fee)
    BY DEF SnapOf
  <1>4. /\ s.nav = GrossWith(b) /\ s.fee_shares \in Nat /\ s.supply \in Nat
        /\ s.hwm \in Nat
    BY <1>1, <1>2, <1>3, SnapshotFacts
  <1>5. QED
    BY <1>1, <1>4, AccrueOK

(* The base vault is one of the vaults.                                    *)
LEMMA BaseFacts ==
    ASSUME AssetsOK
    PROVE  Base \in Tokens /\ VaultOK(vault[Base])
  BY DEF AssetsOK, Tokens

(* The facility's own snapshot, and the ledger once the fee is accrued.    *)
LEMMA SnapFacts ==
    ASSUME GovOK, WorldOK, AssetsOK, LedgerOK(share)
    PROVE  /\ Snap.nav = Gross /\ Snap.nav \in Int /\ Snap.supply \in Nat
           /\ LedgerOK(Accrued) /\ LedgerOK(AccruedAt(Snap))
           /\ Accrued = AccruedAt(Snap)
           /\ \A h \in Lps \cup {QUEUE} : Accrued.bal[h] = share.bal[h]
  <1> DEFINE s == Snap
  <1>1. s = SnapOf(share, vault[Base]) /\ VaultOK(vault[Base])
    BY BaseFacts DEF Snap
  <1>2. Accrued = Accrue(share, s, Curator) /\ Accrued = AccruedAt(s)
    BY DEF Accrued, AccruedAt
  <1> HIDE DEF s
  <1>3. /\ s.nav = GrossWith(vault[Base]) /\ s.nav \in Int /\ s.supply \in Nat
        /\ LedgerOK(Accrue(share, s, Curator))
        /\ \A h \in Lps \cup {QUEUE} : Accrue(share, s, Curator).bal[h] = share.bal[h]
    BY <1>1, SnapOfFacts
  <1>4. Gross = GrossWith(vault[Base])
    BY DEF Gross
  <1>5. QED
    BY <1>2, <1>3, <1>4 DEF s

(* A gain or a loss leaves a lock that has just begun.                     *)
LEMMA BookGainOK ==
    ASSUME GovOK, WorldOK, AssetsOK, NEW gain \in Int
    PROVE  BookGain(gain) \in Locks /\ BookGain(gain).last = now
  <1> DEFINE l == LockedNow
             total == l + gain
             left == Floored(lock.end - now)
             top == l * left + gain * config.vest
             span == IF total > 0 THEN top \div total ELSE 0
  <1>1. /\ l \in Nat /\ now \in Nat /\ lock.end \in Nat /\ config.vest \in Nat
    BY LockedFacts DEF GovOK, WorldOK, AssetsOK, Locks
  <1>2. left \in Nat
    BY <1>1 DEF Floored
  <1>3. BookGain(gain) = IF gain >= 0
                         THEN [locked |-> total, last |-> now, end |-> now + span]
                         ELSE [locked |-> Floored(total), last |-> now, end |-> lock.end]
    BY DEF BookGain
  <1> HIDE DEF l, left
  <1>4. gain >= 0 => total \in Nat /\ top \in Nat
    BY <1>1, <1>2
  <1>5. gain >= 0 => span \in Nat
    <2>1. CASE total > 0 /\ gain >= 0
      <3>1. total \in Nat \ {0} /\ top \in Nat
        BY <1>4, <2>1
      <3> HIDE DEF total, top
      <3>2. top \div total \in Nat
        BY <3>1, DivBracket
      <3>3. QED
        BY <2>1, <3>2
    <2>2. CASE ~(total > 0)
      BY <2>2
    <2>3. QED
      BY <2>1, <2>2
  <1>6. Floored(total) \in Nat
    BY <1>1 DEF Floored
  <1> HIDE DEF total, span
  <1>7. CASE gain >= 0
    <2>1. BookGain(gain) = [locked |-> total, last |-> now, end |-> now + span]
      BY <1>3, <1>7
    <2>2. now + span \in Nat /\ total \in Nat
      BY <1>1, <1>4, <1>5, <1>7
    <2>3. QED
      BY <1>1, <2>1, <2>2 DEF Locks
  <1>8. CASE ~(gain >= 0)
    <2>1. BookGain(gain) = [locked |-> Floored(total), last |-> now, end |-> lock.end]
      BY <1>3, <1>8
    <2>2. QED
      BY <1>1, <1>6, <2>1 DEF Locks
  <1>9. QED
    BY <1>7, <1>8

-----------------------------------------------------------------------------
(* The facility's steps                                                    *)

FacilityOK == GovOK /\ WorldOK /\ AssetsOK /\ LedgerOK(share)

(* What every step of the facility keeps: its books, and what the queue    *)
(* holds or more.                                                          *)
Kept ==
    /\ FacilityOK'
    /\ share'.bal[QUEUE] = share.bal[QUEUE] \/ share'.bal[QUEUE] >= share.bal[QUEUE]

(* One vault changed, for another that can pay what it says.               *)
LEMMA VaultSet ==
    ASSUME AssetsOK, NEW t \in Tokens, NEW v, VaultOK(v), UNCHANGED <<red, lock, now>>,
           vault' = [vault EXCEPT ![t] = v]
    PROVE  AssetsOK'
  <1>1. v \in Vaults
    BY DEF VaultOK
  <1>2. vault \in [Tokens -> Vaults] /\ \A u \in Tokens : VaultOK(vault[u])
    BY DEF AssetsOK
  <1>3. vault' \in [Tokens -> Vaults]
    BY <1>1, <1>2
  <1>4. \A u \in Tokens : vault'[u] = IF u = t THEN v ELSE vault[u]
    BY <1>2
  <1>5. \A u \in Tokens : VaultOK(vault'[u])
    BY <1>2, <1>4
  <1>6. QED
    BY <1>3, <1>5 DEF AssetsOK

(* A deposit mints to its receiver.                                        *)
LEMMA DepositKept ==
    ASSUME FacilityOK, NEW h \in Lps, NEW n \in Nat, Deposit(h, n)
    PROVE  Kept
  <1> DEFINE b == vault[Base]
             got == Position(Put(b, n)) - Position(b)
             minted == ToShares(Snap, got)
  <1>1. /\ CanConvert(Snap) /\ 0 < minted
        /\ share' = Mint(AccruedAt(Snap), h, minted)
        /\ vault' = [vault EXCEPT ![Base] = Put(b, n)]
        /\ UNCHANGED <<govVars, worldVars, red, lock, events>>
    BY Zenon DEF Deposit
  <1>2. GovOK /\ WorldOK /\ AssetsOK /\ LedgerOK(share)
    BY DEF FacilityOK
  <1>3. /\ Snap.nav \in Int /\ Snap.supply \in Nat /\ LedgerOK(AccruedAt(Snap))
        /\ AccruedAt(Snap).bal[QUEUE] = share.bal[QUEUE]
    <2>1. /\ Snap.nav \in Int /\ Snap.supply \in Nat /\ LedgerOK(AccruedAt(Snap))
          /\ Accrued = AccruedAt(Snap)
          /\ \A x \in Lps \cup {QUEUE} : Accrued.bal[x] = share.bal[x]
      BY <1>2, SnapFacts
    <2>2. Accrued.bal[QUEUE] = share.bal[QUEUE]
      BY <2>1
    <2>3. QED
      BY <2>1, <2>2
  <1>4. Base \in Tokens /\ VaultOK(b) /\ VaultOK(Put(b, n))
    BY <1>2, BaseFacts, PutOK
  <1>5. got \in Int
    <2>1. Position(Put(b, n)) \in Nat /\ Position(b) \in Nat
      BY <1>4, VaultFacts
    <2>2. QED
      BY <2>1
  <1> HIDE DEF got, b
  <1>6. minted \in Nat
    <2> DEFINE a == got * (Snap.supply + VIRTUAL)
               d == Snap.nav + 1
    <2>1. a \in Int /\ d \in Nat \ {0}
      BY <1>1, <1>3, <1>5, SharesAssumption DEF CanConvert
    <2>2. minted = a \div d
      BY DEF ToShares, MulDiv
    <2> HIDE DEF a, d
    <2>3. a \div d \in Int
      BY <2>1, IntQuotient
    <2>4. QED
      BY <1>1, <2>2, <2>3
  <1> HIDE DEF minted
  <1>7. h \in Holders /\ QUEUE \in Holders \ {h}
    BY FacilityAssumption DEF Holders
  <1>8. LedgerOK(share') /\ share'.bal[QUEUE] = share.bal[QUEUE]
    BY <1>1, <1>3, <1>6, <1>7, MintOK
  <1>9. AssetsOK'
    BY <1>1, <1>2, <1>4, VaultSet DEF worldVars
  <1>10. GovOK' /\ WorldOK'
    BY <1>1, <1>2, PartsKept
  <1>11. QED
    BY <1>8, <1>9, <1>10 DEF Kept, FacilityOK

(* An exit burns what its owner has and draws on the base vault.           *)
LEMMA ExitKept ==
    ASSUME FacilityOK, NEW h \in Lps, NEW burned \in Int, NEW assets \in Int,
           CanExit(AccruedAt(Snap), vault[Base], Snap, h, burned, assets),
           Exit(Snap, h, burned, assets)
    PROVE  Kept
  <1>1. /\ burned \in Nat /\ assets \in Nat /\ burned <= AccruedAt(Snap).bal[h]
        /\ CanPull(vault[Base], assets)
    <2>1. /\ burned > 0 /\ assets > 0 /\ AccruedAt(Snap).bal[h] >= burned
          /\ CanPull(vault[Base], assets)
      BY Zenon DEF CanExit, CanDebit
    <2>2. QED
      BY <2>1
  <1>2. /\ share' = Burn(AccruedAt(Snap), h, burned)
        /\ vault' = [vault EXCEPT ![Base] = Pull(vault[Base], assets)]
        /\ UNCHANGED <<govVars, worldVars, red, lock, events>>
    BY DEF Exit
  <1>3. GovOK /\ WorldOK /\ AssetsOK /\ LedgerOK(share)
    BY DEF FacilityOK
  <1>4. LedgerOK(AccruedAt(Snap)) /\ AccruedAt(Snap).bal[QUEUE] = share.bal[QUEUE]
    <2>1. /\ LedgerOK(AccruedAt(Snap)) /\ Accrued = AccruedAt(Snap)
          /\ \A x \in Lps \cup {QUEUE} : Accrued.bal[x] = share.bal[x]
      BY <1>3, SnapFacts
    <2>2. Accrued.bal[QUEUE] = share.bal[QUEUE]
      BY <2>1
    <2>3. QED
      BY <2>1, <2>2
  <1>5. h \in Holders /\ QUEUE \in Holders \ {h}
    BY FacilityAssumption DEF Holders
  <1>6. LedgerOK(share') /\ share'.bal[QUEUE] = share.bal[QUEUE]
    BY <1>1, <1>2, <1>4, <1>5, BurnOK
  <1>7. Base \in Tokens /\ VaultOK(Pull(vault[Base], assets))
    BY <1>1, <1>3, BaseFacts, PullOK
  <1>8. AssetsOK'
    BY <1>2, <1>3, <1>7, VaultSet DEF worldVars
  <1>9. GovOK' /\ WorldOK'
    BY <1>2, <1>3, PartsKept
  <1>10. QED
    BY <1>6, <1>8, <1>9 DEF Kept, FacilityOK

(* A withdrawal names the assets.                                          *)
LEMMA WithdrawKept ==
    ASSUME FacilityOK, NEW h \in Lps, NEW n \in Nat, Withdraw(h, n)
    PROVE  Kept
  <1> DEFINE burned == ToSharesUp(Snap, n)
  <1>1. /\ CanConvert(Snap)
        /\ CanExit(AccruedAt(Snap), vault[Base], Snap, h, burned, n)
        /\ Exit(Snap, h, burned, n)
    BY Zenon DEF Withdraw, CanWithdraw
  <1>2. Snap.nav \in Int /\ Snap.supply \in Nat
    BY SnapFacts DEF FacilityOK
  <1>3. burned \in Nat
    <2> DEFINE d == Snap.nav + 1
               u == Snap.supply + VIRTUAL
    <2>1. d \in Nat \ {0} /\ u \in Nat /\ burned = MulDivCeil(n, u, d)
      BY <1>1, <1>2, SharesAssumption DEF CanConvert, ToSharesUp
    <2> HIDE DEF d, u, burned
    <2>2. QED
      BY <2>1, MulDivCeilAbove
  <1> HIDE DEF burned
  <1>4. burned \in Int /\ n \in Int
    BY <1>3
  <1>5. QED
    BY <1>1, <1>4, ExitKept

(* A redemption names the shares.                                          *)
LEMMA RedeemKept ==
    ASSUME FacilityOK, NEW h \in Lps, NEW n \in Nat, Redeem(h, n)
    PROVE  Kept
  <1> DEFINE assets == ToAssets(Snap, n)
  <1>1. /\ CanExit(AccruedAt(Snap), vault[Base], Snap, h, n, assets)
        /\ Exit(Snap, h, n, assets)
    BY Zenon DEF Redeem
  <1>2. Snap.nav \in Int /\ Snap.supply \in Nat
    BY SnapFacts DEF FacilityOK
  <1>3. assets \in Int /\ n \in Int
    BY <1>2, ToAssetsFacts
  <1> HIDE DEF assets
  <1>4. QED
    BY <1>1, <1>3, ExitKept

(* The steps of the holders' ledger alone.                                 *)
LEMMA LedgerStepsKept ==
    ASSUME FacilityOK, NEW h \in Lps, NEW n \in Nat,
           BurnShares(h, n) \/ (\E to \in Lps \cup {QUEUE} : TransferShares(h, to, n))
    PROVE  Kept
  <1>1. GovOK /\ WorldOK /\ AssetsOK /\ LedgerOK(share)
    BY DEF FacilityOK
  <1>3. h \in Holders /\ QUEUE \in Holders \ {h}
    BY FacilityAssumption DEF Holders
  <1>4. CASE BurnShares(h, n)
    <2>1. /\ Event /\ n <= share.bal[h] /\ share' = Burn(share, h, n)
          /\ UNCHANGED <<govVars, worldVars, vault, red, lock>>
      <3>1. /\ Event /\ share.bal[h] >= n /\ share' = Burn(share, h, n)
            /\ UNCHANGED <<govVars, worldVars, vault, red, lock>>
        BY <1>4, Zenon DEF BurnShares, CanDebit
      <3>2. share.bal[h] \in Nat
        BY <1>1, <1>3, LedgerTypes DEF LedgerOK
      <3>3. QED
        BY <3>1, <3>2
    <2>2. LedgerOK(share') /\ share'.bal[QUEUE] = share.bal[QUEUE]
      BY <1>1, <1>3, <2>1, BurnOK
    <2>3. WorldOK' /\ AssetsOK'
      BY <1>1, <2>1, PartsKept DEF worldVars
    <2>4. GovOK'
      BY <1>1, <2>1, FacilityAssumption DEF GovOK, govVars, Event
    <2>5. QED
      BY <2>2, <2>3, <2>4 DEF Kept, FacilityOK
  <1>5. ASSUME NEW to \in Lps \cup {QUEUE}, TransferShares(h, to, n)
        PROVE  Kept
    <2>1. /\ n <= share.bal[h] /\ share' = Moved(share, h, to, n)
          /\ UNCHANGED <<govVars, worldVars, vault, red, lock, events>>
      <3>1. /\ share.bal[h] >= n /\ share' = Moved(share, h, to, n)
            /\ UNCHANGED <<govVars, worldVars, vault, red, lock, events>>
        BY <1>5, Zenon DEF TransferShares, CanMove, CanDebit
      <3>2. share.bal[h] \in Nat
        BY <1>1, <1>3, LedgerTypes DEF LedgerOK
      <3>3. QED
        BY <3>1, <3>2
    <2>2. to \in Holders /\ (to = QUEUE \/ QUEUE \in Holders \ {h, to})
      BY <1>3, FacilityAssumption DEF Holders
    <2>3. /\ LedgerOK(share')
          /\ share'.bal[QUEUE] = share.bal[QUEUE] \/ share'.bal[QUEUE] >= share.bal[QUEUE]
      <3>1. CASE to = QUEUE
        <4>1. LedgerOK(share') /\ share'.bal[QUEUE] = share.bal[QUEUE] + n
          BY <1>1, <1>3, <2>1, <2>2, <3>1, MovedOK
        <4>2. share.bal[QUEUE] \in Nat
          BY <1>1, <1>3, LedgerTypes DEF LedgerOK
        <4>3. share'.bal[QUEUE] >= share.bal[QUEUE]
          BY <4>1, <4>2
        <4>4. QED
          BY <4>1, <4>3
      <3>2. CASE to # QUEUE
        BY <1>1, <1>3, <2>1, <2>2, <3>2, MovedOK
      <3>3. QED
        BY <3>1, <3>2
    <2>4. GovOK' /\ WorldOK' /\ AssetsOK'
      BY <1>1, <2>1, PartsKept DEF worldVars
    <2>5. QED
      BY <2>3, <2>4 DEF Kept, FacilityOK
  <1>6. QED
    BY <1>4, <1>5

(* A step that accrues the fee and leaves the rest of the ledger.          *)
LEMMA AccruedKept ==
    ASSUME FacilityOK, share' = Accrued
    PROVE  LedgerOK(share)' /\ share'.bal[QUEUE] = share.bal[QUEUE]
  <1>1. /\ LedgerOK(Accrued)
        /\ \A x \in Lps \cup {QUEUE} : Accrued.bal[x] = share.bal[x]
    BY SnapFacts DEF FacilityOK
  <1>2. QED
    BY <1>1

(* Anyone may have the fee accrued.                                        *)
LEMMA AccrueFeeKept ==
    ASSUME FacilityOK, AccrueFee
    PROVE  Kept
  <1>1. share' = Accrued /\ UNCHANGED <<govVars, worldVars, vault, red, lock, events>>
    BY DEF AccrueFee
  <1>2. GovOK' /\ WorldOK' /\ AssetsOK'
    BY <1>1, PartsKept DEF FacilityOK, worldVars
  <1>3. QED
    BY <1>1, <1>2, AccruedKept DEF Kept, FacilityOK

(* What a trade pays out, and what it gains, where its terms allow it.     *)
LEMMA TradeAmounts ==
    ASSUME FacilityOK, NEW tin \in Tokens, NEW tout \in Tokens, NEW q \in Nat,
           NEW h \in Nat, tin # tout, tin # Base => CanQuote(tin),
           tout # Base => CanQuote(tout) /\ AskFactor(tout, h) > 0
    PROVE  Out(tin, tout, q, h) \in Nat /\ GainOf(tin, tout, q, h) \in Int
  <1>1. DENOM \in Nat \ {0} /\ ONE \in Nat \ {0}
    BY FacilityAssumption, SharesAssumption
  <1>2. ASSUME NEW r \in Tokens, r # Base, CanQuote(r)
        PROVE  /\ r \in Rwas /\ price[r] \in Nat \ {0} /\ terms[r].bid_rate \in Nat
               /\ terms[r].ask_rate \in Nat
    <2>1. r \in Rwas
      BY <1>2 DEF Tokens
    <2>2. price[r] \in Nat /\ price[r] > 0 /\ terms[r] # None
      BY <1>2, <2>1, RwaFacts DEF FacilityOK, CanQuote, Priced, Listed
    <2>3. terms[r] \in Terms \cup {None}
      BY <2>1 DEF FacilityOK, GovOK
    <2>4. terms[r] \in Terms
      BY <2>2, <2>3
    <2>5. terms[r].bid_rate \in Nat /\ terms[r].ask_rate \in Nat
      BY <2>4 DEF Terms
    <2>6. QED
      BY <2>1, <2>2, <2>5
  <1> DEFINE v == Value(tin, q, h)
             o == Out(tin, tout, q, h)
  <1>3. v \in Nat
    <2>1. CASE tin = Base
      BY <2>1 DEF Value
    <2>2. CASE tin # Base
      <3> DEFINE m == MulDiv(q, price[tin], ONE)
                 f == Floored(DENOM - terms[tin].bid_rate * h)
      <3>1. price[tin] \in Nat /\ terms[tin].bid_rate \in Nat
        BY <1>2, <2>2
      <3>2. m \in Nat
        BY <1>1, <3>1, MulDivBelow
      <3>3. f \in Nat
        <4> DEFINE x == terms[tin].bid_rate * h
        <4>1. x \in Nat
          BY <3>1
        <4> HIDE DEF x
        <4>2. Floored(DENOM - x) \in Nat
          BY <1>1, <4>1 DEF Floored
        <4>3. QED
          BY <4>2 DEF x
      <3>4. v = MulDiv(m, f, DENOM)
        BY <2>2 DEF Value, Bid
      <3> HIDE DEF m, f, v
      <3>5. QED
        BY <1>1, <3>2, <3>3, <3>4, MulDivBelow
    <2>3. QED
      BY <2>1, <2>2
  <1>4. o \in Nat
    <2>1. CASE tout = Base
      BY <1>3, <2>1 DEF Out
    <2>2. CASE tout # Base
      <3> DEFINE m == MulDiv(v, ONE, price[tout])
                 d == AskFactor(tout, h)
      <3>1. price[tout] \in Nat \ {0} /\ terms[tout].ask_rate \in Nat /\ d > 0
        BY <1>2, <2>2
      <3>2. d \in Nat \ {0}
        <4> DEFINE x == terms[tout].ask_rate * h
        <4>1. x \in Nat
          BY <3>1
        <4>2. d = DENOM - x
          BY DEF AskFactor
        <4> HIDE DEF x, d
        <4>3. QED
          BY <1>1, <3>1, <4>1, <4>2
      <3>3. o = MulDiv(m, DENOM, d)
        BY <2>2 DEF Out, Ask
      <3> HIDE DEF v
      <3>4. m \in Nat
        BY <1>1, <1>3, <3>1, MulDivBelow
      <3> HIDE DEF m, d, o
      <3>5. QED
        BY <1>1, <3>2, <3>3, <3>4, MulDivBelow
    <2>3. QED
      BY <2>1, <2>2
  <1> HIDE DEF v, o
  <1>5. ASSUME NEW t \in Tokens, NEW n \in Nat, t # Base => CanQuote(t)
        PROVE  MarkOf(t, n) \in Nat
    <2>1. CASE t = Base
      BY <2>1 DEF MarkOf
    <2>2. CASE t # Base
      <3>1. price[t] \in Nat
        BY <1>2, <1>5, <2>2
      <3>2. MarkOf(t, n) = MulDiv(n, price[t], ONE)
        BY <2>2 DEF MarkOf
      <3>3. QED
        BY <1>1, <3>1, <3>2, MulDivBelow
    <2>3. QED
      BY <2>1, <2>2
  <1>6. MarkOf(tin, q) \in Nat /\ MarkOf(tout, o) \in Nat
    BY <1>4, <1>5
  <1>7. GainOf(tin, tout, q, h) = MarkOf(tin, q) - MarkOf(tout, o)
    BY DEF GainOf, o
  <1>8. QED
    BY <1>4, <1>6, <1>7 DEF o

(* A trade pays one token in and another out, and books its gain.          *)
LEMMA TradeKept ==
    ASSUME FacilityOK, NEW to, NEW tin \in Tokens, NEW tout \in Tokens,
           NEW q \in Nat, NEW h \in Nat, Trade(to, tin, tout, q, h)
    PROVE  Kept
  <1> DEFINE out == Out(tin, tout, q, h)
             gain == GainOf(tin, tout, q, h)
             taken == Put(vault[tin], q)
             paid == Pull(vault[tout], out)
  <1>1. /\ tin # tout /\ (tin # Base => CanQuote(tin))
        /\ (tout # Base => CanQuote(tout) /\ AskFactor(tout, h) > 0)
    BY DEF Trade
  <1>2. CanPull(vault[tout], out)
    BY DEF Trade
  <1>3. /\ vault' = [vault EXCEPT ![tin] = taken, ![tout] = paid]
        /\ share' = Accrued /\ lock' = BookGain(gain)
        /\ (Event /\ sunk' = sunk + out) \/ UNCHANGED <<sunk, events>>
        /\ UNCHANGED <<now, price, govVars, red>>
    BY <1>1 DEF Trade
  <1>4. out \in Nat /\ gain \in Int
    BY <1>1, TradeAmounts
  <1>5. /\ vault \in [Tokens -> Vaults] /\ \A u \in Tokens : VaultOK(vault[u])
        /\ red \in [Rwas -> Reds \cup {None}]
    BY DEF FacilityOK, AssetsOK
  <1> HIDE DEF out, gain
  <1>6. VaultOK(taken) /\ VaultOK(paid)
    BY <1>2, <1>4, <1>5, PutOK, PullOK
  <1>7. taken \in Vaults /\ paid \in Vaults
    BY <1>6 DEF VaultOK
  <1> HIDE DEF taken, paid
  <1>8. vault' \in [Tokens -> Vaults]
    BY <1>3, <1>5, <1>7
  <1>9. \A u \in Tokens :
           vault'[u] = IF u = tout THEN paid ELSE IF u = tin THEN taken ELSE vault[u]
    BY <1>3, <1>5
  <1>10. \A u \in Tokens : VaultOK(vault'[u])
    BY <1>5, <1>6, <1>9
  <1>11. lock' \in Locks /\ lock'.last = now /\ now \in Nat
    BY <1>3, <1>4, BookGainOK DEF FacilityOK, WorldOK
  <1>12. AssetsOK'
    <2>1. now' = now /\ red' = red
      BY <1>3
    <2>2. lock'.last <= now'
      BY <1>11, <2>1
    <2>3. QED
      BY <1>5, <1>8, <1>10, <1>11, <2>1, <2>2 DEF AssetsOK
  <1>13. GovOK'
    <2>1. GovOK /\ MaxEvents \in Nat /\ (events' = events \/ Event)
      BY <1>3, FacilityAssumption DEF FacilityOK
    <2>2. QED
      BY <1>3, <2>1 DEF GovOK, govVars, Event
  <1>14. WorldOK'
    <2>1. sunk \in Nat /\ now \in 0 .. MaxTime /\ price \in [Rwas -> Prices]
      BY DEF FacilityOK, WorldOK
    <2>2. sunk' \in Nat
      BY <1>3, <1>4, <2>1
    <2>3. QED
      BY <1>3, <2>1, <2>2 DEF WorldOK
  <1>15. QED
    BY <1>3, <1>12, <1>13, <1>14, AccruedKept DEF Kept, FacilityOK

(* A redemption with an issuer leaves the RWA's vault and is carried.      *)
LEMMA BookKept ==
    ASSUME FacilityOK, NEW r \in Rwas, NEW n \in Nat, Book(r, n)
    PROVE  Kept
  <1> DEFINE paid == Pull(vault[r], n)
             c == MulDiv(n, price[r], ONE)
             x == [amount |-> n, carried |-> c]
  <1>1. /\ CanPull(vault[r], n)
        /\ vault' = [vault EXCEPT ![r] = paid]
        /\ red' = [red EXCEPT ![r] = x]
        /\ share' = Accrued
        /\ UNCHANGED <<govVars, worldVars, lock, events>>
    BY DEF Book
  <1>2. r \in Tokens /\ VaultOK(vault[r]) /\ price[r] \in Nat
    BY RwaFacts DEF FacilityOK, Tokens
  <1>3. c \in Nat
    BY <1>2, SharesAssumption, MulDivBelow
  <1> HIDE DEF c
  <1>4. x \in Reds
    BY <1>3 DEF Reds
  <1>5. VaultOK(paid)
    BY <1>1, <1>2, PullOK
  <1>6. /\ vault \in [Tokens -> Vaults] /\ \A u \in Tokens : VaultOK(vault[u])
        /\ red \in [Rwas -> Reds \cup {None}] /\ lock \in Locks /\ lock.last <= now
    BY DEF FacilityOK, AssetsOK
  <1> HIDE DEF x, paid
  <1>7. paid \in Vaults
    BY <1>5 DEF VaultOK
  <1>8. vault' \in [Tokens -> Vaults] /\ red' \in [Rwas -> Reds \cup {None}]
    BY <1>1, <1>4, <1>6, <1>7
  <1>9. \A u \in Tokens : vault'[u] = IF u = r THEN paid ELSE vault[u]
    BY <1>1, <1>6
  <1>10. \A u \in Tokens : VaultOK(vault'[u])
    BY <1>5, <1>6, <1>9
  <1>11. AssetsOK'
    <2>1. now' = now /\ lock' = lock
      BY <1>1 DEF worldVars
    <2>2. QED
      BY <1>6, <1>8, <1>10, <2>1 DEF AssetsOK
  <1>12. GovOK' /\ WorldOK'
    BY <1>1, PartsKept DEF FacilityOK
  <1>13. QED
    BY <1>1, <1>11, <1>12, AccruedKept DEF Kept, FacilityOK

(* What an issuer pays, or does not, closes the redemption and is booked.  *)
LEMMA ClosedKept ==
    ASSUME FacilityOK, NEW r \in Rwas, NEW v, VaultOK(v), NEW gain \in Int,
           vault' = [vault EXCEPT ![Base] = v],
           red' = [red EXCEPT ![r] = None], lock' = BookGain(gain),
           share' = Accrued, UNCHANGED <<govVars, worldVars, events>>
    PROVE  Kept
  <1>1. /\ vault \in [Tokens -> Vaults] /\ \A u \in Tokens : VaultOK(vault[u])
        /\ red \in [Rwas -> Reds \cup {None}]
    BY DEF FacilityOK, AssetsOK
  <1>2. v \in Vaults /\ Base \in Tokens
    BY DEF VaultOK, Tokens
  <1>3. vault' \in [Tokens -> Vaults] /\ red' \in [Rwas -> Reds \cup {None}]
    BY <1>1, <1>2
  <1>4. \A u \in Tokens : vault'[u] = IF u = Base THEN v ELSE vault[u]
    BY <1>1
  <1>5. \A u \in Tokens : VaultOK(vault'[u])
    BY <1>1, <1>4
  <1>6. lock' \in Locks /\ lock'.last = now /\ now \in Nat
    BY BookGainOK DEF FacilityOK, WorldOK
  <1>7. AssetsOK'
    <2>1. now' = now
      BY DEF worldVars
    <2>2. lock'.last <= now'
      BY <1>6, <2>1
    <2>3. QED
      BY <1>3, <1>5, <1>6, <2>2 DEF AssetsOK
  <1>8. GovOK' /\ WorldOK'
    BY PartsKept DEF FacilityOK
  <1>9. QED
    BY <1>7, <1>8, AccruedKept DEF Kept, FacilityOK

(* Proceeds at the mark or above it go into the base vault.                *)
LEMMA SettleKept ==
    ASSUME FacilityOK, NEW r \in Rwas, NEW n \in Nat, Settle(r, n)
    PROVE  Kept
  <1> DEFINE gain == n - red[r].carried
             v == Put(vault[Base], n)
  <1>1. /\ red[r] # None /\ vault' = [vault EXCEPT ![Base] = v]
        /\ red' = [red EXCEPT ![r] = None] /\ lock' = BookGain(gain)
        /\ share' = Accrued /\ UNCHANGED <<govVars, worldVars, events>>
    BY DEF Settle
  <1>2. red[r].carried \in Nat
    BY <1>1, RwaFacts DEF FacilityOK
  <1>3. gain \in Int /\ VaultOK(v)
    BY <1>2, BaseFacts, PutOK DEF FacilityOK
  <1> HIDE DEF gain, v
  <1>4. QED
    BY <1>1, <1>3, ClosedKept

(* Less than the mark, or nothing, is a loss.                              *)
LEMMA WriteDownKept ==
    ASSUME FacilityOK, NEW r \in Rwas, NEW n \in Nat, WriteDown(r, n)
    PROVE  Kept
  <1> DEFINE gain == n - red[r].carried
             v == IF n > 0 THEN Put(vault[Base], n) ELSE vault[Base]
  <1>1. /\ red[r] # None
        /\ vault' = IF n > 0 THEN [vault EXCEPT ![Base] = Put(vault[Base], n)]
                    ELSE vault
        /\ red' = [red EXCEPT ![r] = None] /\ lock' = BookGain(gain)
        /\ share' = Accrued /\ UNCHANGED <<govVars, worldVars, events>>
    BY DEF WriteDown
  <1>2. vault \in [Tokens -> Vaults] /\ Base \in Tokens /\ VaultOK(vault[Base])
    BY BaseFacts DEF FacilityOK, AssetsOK
  <1>3. vault' = [vault EXCEPT ![Base] = v]
    <2>1. [vault EXCEPT ![Base] = vault[Base]] = vault
      BY <1>2
    <2>2. QED
      BY <1>1, <2>1
  <1>4. red[r].carried \in Nat
    BY <1>1, RwaFacts DEF FacilityOK
  <1>5. gain \in Int
    BY <1>4
  <1>6. VaultOK(v)
    BY <1>2, PutOK
  <1> HIDE DEF gain, v
  <1>7. QED
    BY <1>1, <1>3, <1>5, <1>6, ClosedKept

(* What a curator may queue is what an acceptance may write.               *)
LEMMA ProposalFacts ==
    /\ Proposals("Fee") \subseteq 0 .. MAX_FEE
    /\ Proposals("Vest") \subseteq Nat
    /\ Proposals("Queue") = {QUEUE}
    /\ \A r \in Rwas : Proposals(r) \subseteq Terms
    /\ \A r \in Rwas : r # "Fee" /\ r # "Vest" /\ r # "Queue"
    /\ {"Fee", "Vest", "Queue"} \subseteq Kinds /\ Rwas \subseteq Kinds
  <1>1. \A r \in Rwas : r # "Fee" /\ r # "Vest" /\ r # "Queue"
    BY FacilityAssumption
  <1>2. Proposals("Fee") = {f \in Fees : f <= MAX_FEE}
    BY DEF Proposals
  <1>3. Proposals("Vest") = Vests /\ Proposals("Queue") = {QUEUE}
    BY DEF Proposals
  <1>4. \A r \in Rwas : Proposals(r) = {t \in AllTerms : t.ask_rate <= t.bid_rate}
    BY <1>1 DEF Proposals
  <1>5. MAX_FEE \in Nat
    BY FacilityAssumption, SharesAssumption
  <1>6. Proposals("Fee") \subseteq 0 .. MAX_FEE /\ Proposals("Vest") \subseteq Nat
    <2>1. Fees \subseteq Nat /\ Vests \subseteq Nat
      BY FacilityAssumption
    <2>2. \A f \in Fees : f <= MAX_FEE => f \in 0 .. MAX_FEE
      BY <1>5, <2>1
    <2>3. QED
      BY <1>2, <1>3, <2>1, <2>2
  <1>7. \A r \in Rwas : Proposals(r) \subseteq Terms
    BY <1>4, FacilityAssumption
  <1>8. QED
    BY <1>1, <1>3, <1>6, <1>7 DEF Kinds

(* The kinds of change are these.                                          *)
LEMMA KindCases ==
    ASSUME NEW k \in Kinds
    PROVE  k = "Fee" \/ k = "Vest" \/ k = "Queue" \/ k \in Rwas
  BY DEF Kinds

(* A change of governance alone leaves the books.                          *)
LEMMA GovOnly ==
    ASSUME FacilityOK, GovOK', UNCHANGED <<worldVars, vault, red, lock, share>>
    PROVE  Kept
  <1>1. WorldOK' /\ AssetsOK' /\ LedgerOK(share)'
    BY PartsKept DEF FacilityOK, worldVars
  <1>2. QED
    BY <1>1 DEF Kept, FacilityOK

(* Queuing a change.                                                       *)
LEMMA SubmitKept ==
    ASSUME FacilityOK, NEW k \in Kinds, NEW to \in Proposals(k), Submit(k, to)
    PROVE  Kept
  <1>1. /\ Event /\ pending' = [pending EXCEPT ![k] = to]
        /\ UNCHANGED <<paused, config, terms, share, vault, red, lock, worldVars>>
    BY DEF Submit
  <1>2. GovOK
    BY DEF FacilityOK
  <1>3. DOMAIN pending' = Kinds
    BY <1>1, <1>2 DEF GovOK
  <1>4. \A x \in Kinds : pending'[x] = IF x = k THEN to ELSE pending[x]
    BY <1>1, <1>2 DEF GovOK
  <1>5. /\ pending'["Fee"] \in (0 .. MAX_FEE) \cup {None}
        /\ pending'["Vest"] \in Nat \cup {None}
        /\ pending'["Queue"] \in {QUEUE, None}
        /\ \A r \in Rwas : pending'[r] \in Terms \cup {None}
    <2>1. "Fee" \in Kinds /\ "Vest" \in Kinds /\ "Queue" \in Kinds
      BY ProposalFacts
    <2>2. pending'["Fee"] \in (0 .. MAX_FEE) \cup {None}
      BY <1>2, <1>4, <2>1, ProposalFacts DEF GovOK
    <2>3. pending'["Vest"] \in Nat \cup {None}
      BY <1>2, <1>4, <2>1, ProposalFacts DEF GovOK
    <2>4. pending'["Queue"] \in {QUEUE, None}
      BY <1>2, <1>4, <2>1, ProposalFacts DEF GovOK
    <2>5. \A r \in Rwas : pending'[r] \in Terms \cup {None}
      BY <1>2, <1>4, ProposalFacts DEF GovOK
    <2>6. QED
      BY <2>2, <2>3, <2>4, <2>5
  <1>6. events' \in 0 .. MaxEvents
    BY <1>1, <1>2, FacilityAssumption DEF GovOK, Event
  <1>7. GovOK'
    BY <1>1, <1>2, <1>3, <1>5, <1>6 DEF GovOK
  <1>8. QED
    BY <1>1, <1>7, GovOnly

(* A change that was queued is gone, revoked or taken.                     *)
LEMMA PendingCleared ==
    ASSUME GovOK, NEW k \in Kinds, pending' = [pending EXCEPT ![k] = None]
    PROVE  /\ DOMAIN pending' = Kinds
           /\ pending'["Fee"] \in (0 .. MAX_FEE) \cup {None}
           /\ pending'["Vest"] \in Nat \cup {None}
           /\ pending'["Queue"] \in {QUEUE, None}
           /\ \A r \in Rwas : pending'[r] \in Terms \cup {None}
  <1>1. DOMAIN pending' = Kinds
    BY DEF GovOK
  <1>2. \A x \in Kinds : pending'[x] = IF x = k THEN None ELSE pending[x]
    BY DEF GovOK
  <1>3. "Fee" \in Kinds /\ "Vest" \in Kinds /\ "Queue" \in Kinds /\ Rwas \subseteq Kinds
    BY ProposalFacts
  <1>4. pending'["Fee"] \in (0 .. MAX_FEE) \cup {None}
    BY <1>2, <1>3 DEF GovOK
  <1>5. pending'["Vest"] \in Nat \cup {None}
    BY <1>2, <1>3 DEF GovOK
  <1>6. pending'["Queue"] \in {QUEUE, None}
    BY <1>2, <1>3 DEF GovOK
  <1>7. \A r \in Rwas : pending'[r] \in Terms \cup {None}
    BY <1>2, <1>3 DEF GovOK
  <1>8. QED
    BY <1>1, <1>4, <1>5, <1>6, <1>7

(* Revoking a change.                                                      *)
LEMMA RevokeKept ==
    ASSUME FacilityOK, NEW k \in Kinds, Revoke(k)
    PROVE  Kept
  <1>1. /\ pending' = [pending EXCEPT ![k] = None]
        /\ UNCHANGED <<paused, config, terms, share, vault, red, lock, worldVars,
                       events>>
    BY DEF Revoke
  <1>2. GovOK
    BY DEF FacilityOK
  <1>3. GovOK'
    BY <1>1, <1>2, PendingCleared DEF GovOK
  <1>4. QED
    BY <1>1, <1>3, GovOnly

(* Accepting a fee accrues at the old one first.                           *)
LEMMA AcceptFeeKept ==
    ASSUME FacilityOK, AcceptFee
    PROVE  Kept
  <1>1. /\ pending["Fee"] # None /\ pending' = [pending EXCEPT !["Fee"] = None]
        /\ share' = Accrued /\ config' = [config EXCEPT !.fee = pending["Fee"]]
        /\ UNCHANGED <<paused, terms, vault, red, lock, worldVars, events>>
    BY DEF AcceptFee, Take
  <1>2. GovOK /\ WorldOK /\ AssetsOK
    BY DEF FacilityOK
  <1>3. pending["Fee"] \in 0 .. MAX_FEE /\ "Fee" \in Kinds
    BY <1>1, <1>2, ProposalFacts DEF GovOK
  <1>4. config' \in [fee : 0 .. MAX_FEE, vest : Nat, queue : {QUEUE, None}]
    BY <1>1, <1>2, <1>3 DEF GovOK
  <1>5. GovOK'
    BY <1>1, <1>2, <1>3, <1>4, PendingCleared DEF GovOK
  <1>6. WorldOK' /\ AssetsOK'
    BY <1>1, <1>2, PartsKept DEF worldVars
  <1>7. QED
    BY <1>1, <1>5, <1>6, AccruedKept DEF Kept, FacilityOK

(* The other acceptances touch governance alone.                           *)
LEMMA AcceptKept ==
    ASSUME FacilityOK, AcceptVest \/ AcceptQueue \/ \E r \in Rwas : AcceptRwa(r)
    PROVE  Kept
  <1>1. GovOK
    BY DEF FacilityOK
  <1>2. CASE AcceptVest
    <2>1. /\ pending["Vest"] # None /\ pending' = [pending EXCEPT !["Vest"] = None]
          /\ config' = [config EXCEPT !.vest = pending["Vest"]]
          /\ UNCHANGED <<paused, terms, share, vault, red, lock, worldVars, events>>
      BY <1>2 DEF AcceptVest, Take
    <2>2. pending["Vest"] \in Nat /\ "Vest" \in Kinds
      BY <1>1, <2>1, ProposalFacts DEF GovOK
    <2>3. config' \in [fee : 0 .. MAX_FEE, vest : Nat, queue : {QUEUE, None}]
      BY <1>1, <2>1, <2>2 DEF GovOK
    <2>4. GovOK'
      BY <1>1, <2>1, <2>2, <2>3, PendingCleared DEF GovOK
    <2>5. QED
      BY <2>1, <2>4, GovOnly
  <1>3. CASE AcceptQueue
    <2>1. /\ pending["Queue"] # None /\ pending' = [pending EXCEPT !["Queue"] = None]
          /\ config' = [config EXCEPT !.queue = pending["Queue"]]
          /\ UNCHANGED <<paused, terms, share, vault, red, lock, worldVars, events>>
      BY <1>3 DEF AcceptQueue, Take
    <2>2. pending["Queue"] = QUEUE /\ "Queue" \in Kinds
      BY <1>1, <2>1, ProposalFacts DEF GovOK
    <2>3. config' \in [fee : 0 .. MAX_FEE, vest : Nat, queue : {QUEUE, None}]
      BY <1>1, <2>1, <2>2 DEF GovOK
    <2>4. GovOK'
      BY <1>1, <2>1, <2>2, <2>3, PendingCleared DEF GovOK
    <2>5. QED
      BY <2>1, <2>4, GovOnly
  <1>4. ASSUME NEW r \in Rwas, AcceptRwa(r)
        PROVE  Kept
    <2>1. /\ pending[r] # None /\ pending' = [pending EXCEPT ![r] = None]
          /\ terms' = [terms EXCEPT ![r] = pending[r]]
          /\ UNCHANGED <<paused, config, share, vault, red, lock, worldVars, events>>
      BY <1>4 DEF AcceptRwa, Take
    <2>2. pending[r] \in Terms \cup {None} /\ r \in Kinds
      BY <1>1, ProposalFacts DEF GovOK
    <2>3. terms' \in [Rwas -> Terms \cup {None}]
      BY <1>1, <2>1, <2>2 DEF GovOK
    <2>4. GovOK'
      BY <1>1, <2>1, <2>2, <2>3, PendingCleared DEF GovOK
    <2>5. QED
      BY <2>1, <2>4, GovOnly
  <1>5. QED
    BY <1>2, <1>3, <1>4

(* The curator's immediate changes.                                        *)
LEMMA SwitchKept ==
    ASSUME FacilityOK, NEW on \in BOOLEAN,
           \/ \E r \in Rwas : RemoveRwa(r)
           \/ SetPaused(on) \/ SetAllowlist(on) \/ \E h \in Lps : SetMember(h, on)
    PROVE  Kept
  <1>1. GovOK /\ WorldOK /\ AssetsOK /\ LedgerOK(share) /\ MaxEvents \in Nat
    BY FacilityAssumption DEF FacilityOK
  <1>2. ASSUME NEW r \in Rwas, RemoveRwa(r)
        PROVE  Kept
    <2>1. /\ Event /\ terms' = [terms EXCEPT ![r] = None]
          /\ UNCHANGED <<paused, config, pending, share, vault, red, lock, worldVars>>
      BY <1>2 DEF RemoveRwa
    <2>2. GovOK'
      BY <1>1, <2>1 DEF GovOK, Event
    <2>3. QED
      BY <2>1, <2>2, GovOnly
  <1>3. CASE SetPaused(on)
    <2>1. /\ Event /\ paused' = on
          /\ UNCHANGED <<config, pending, terms, share, vault, red, lock, worldVars>>
      BY <1>3 DEF SetPaused
    <2>2. GovOK'
      BY <1>1, <2>1 DEF GovOK, Event
    <2>3. QED
      BY <2>1, <2>2, GovOnly
  <1>4. CASE SetAllowlist(on) \/ \E h \in Lps : SetMember(h, on)
    <2>1. /\ Event /\ UNCHANGED <<govVars, vault, red, lock, worldVars>>
      BY <1>4 DEF SetAllowlist, SetMember
    <2>2. share \in Ledgers(Holders)
      BY <1>1 DEF LedgerOK
    <2>3. /\ share' \in Ledgers(Holders) /\ share'.bal = share.bal
          /\ share'.supply = share.supply /\ share'.frozen = share.frozen
      <3>1. CASE SetAllowlist(on)
        BY <2>2, <3>1 DEF SetAllowlist, Ledgers
      <3>2. ASSUME NEW h \in Lps, SetMember(h, on)
            PROVE  /\ share' \in Ledgers(Holders) /\ share'.bal = share.bal
                   /\ share'.supply = share.supply /\ share'.frozen = share.frozen
        <4> DEFINE m == IF on THEN share.member \cup {h} ELSE share.member \ {h}
        <4>1. share' = [share EXCEPT !.member = m]
          BY <3>2 DEF SetMember
        <4>2. m \in SUBSET Holders
          BY <2>2, LedgerTypes DEF Holders
        <4> HIDE DEF m
        <4>3. QED
          BY <2>2, <4>1, <4>2 DEF Ledgers
      <3>3. QED
        BY <1>4, <3>1, <3>2
    <2>4. LedgerOK(share)' /\ share'.bal[QUEUE] = share.bal[QUEUE]
      BY <1>1, <2>3 DEF LedgerOK
    <2>5. GovOK'
      BY <1>1, <2>1 DEF GovOK, govVars, Event
    <2>6. WorldOK' /\ AssetsOK'
      BY <1>1, <2>1, PartsKept DEF worldVars
    <2>7. QED
      BY <2>4, <2>5, <2>6 DEF Kept, FacilityOK
  <1>5. QED
    BY <1>2, <1>3, <1>4

(* Prices, yields and time.                                                *)
LEMMA WorldKept ==
    ASSUME FacilityOK, World
    PROVE  Kept
  <1>1. GovOK /\ WorldOK /\ AssetsOK /\ LedgerOK(share)
    BY DEF FacilityOK
  <1>2. MaxEvents \in Nat /\ MaxAssets \in Nat /\ MaxTime \in Nat
    BY FacilityAssumption
  <1>3. ASSUME NEW r \in Rwas, NEW p \in Prices, PriceMoves(r, p)
        PROVE  Kept
    <2>1. /\ events' = events \/ Event
          /\ price' = [price EXCEPT ![r] = p]
          /\ UNCHANGED <<now, sunk, govVars, share, vault, red, lock>>
      BY <1>3 DEF PriceMoves
    <2>2. GovOK'
      BY <1>1, <1>2, <2>1 DEF GovOK, govVars, Event
    <2>3. WorldOK'
      BY <1>1, <2>1 DEF WorldOK
    <2>4. AssetsOK' /\ LedgerOK(share)'
      BY <1>1, <2>1, PartsKept
    <2>5. QED
      BY <2>1, <2>2, <2>3, <2>4 DEF Kept, FacilityOK
  <1>4. ASSUME NEW nav \in 0 .. MaxAssets, NEW liquid \in 0 .. MaxAssets,
               VaultMoves(nav, liquid)
        PROVE  Kept
    <2> DEFINE b == vault[Base]
               v == [b EXCEPT !.nav = nav, !.liquid = liquid]
    <2>1. /\ Event
          /\ liquid = Lesser(nav, b.liquid) \/ liquid \in {0, nav}
          /\ vault' = [vault EXCEPT ![Base] = v]
          /\ UNCHANGED <<worldVars, govVars, share, red, lock>>
      BY <1>4 DEF VaultMoves
    <2>2. b.shares \in Nat /\ b.liquid \in Nat /\ Base \in Tokens
      BY <1>1, BaseFacts, VaultFacts
    <2>3. b \in Vaults
      BY <1>1, BaseFacts DEF VaultOK
    <2>4. v \in Vaults /\ v.nav = nav /\ v.liquid = liquid
      <3>1. nav \in Nat /\ liquid \in Nat
        BY <1>2
      <3> HIDE DEF b
      <3>2. QED
        BY <2>3, <3>1 DEF Vaults
    <2>5. liquid <= nav
      BY <1>2, <2>1, <2>2 DEF Lesser
    <2> HIDE DEF v
    <2>6. VaultOK(v)
      BY <2>4, <2>5 DEF VaultOK
    <2>7. AssetsOK'
      BY <1>1, <2>1, <2>2, <2>6, VaultSet DEF worldVars
    <2>8. GovOK'
      BY <1>1, <1>2, <2>1 DEF GovOK, govVars, Event
    <2>9. WorldOK' /\ LedgerOK(share)'
      BY <1>1, <2>1, PartsKept
    <2>10. QED
      BY <2>1, <2>7, <2>8, <2>9 DEF Kept, FacilityOK
  <1>5. CASE Tick
    <2>1. /\ now < MaxTime /\ now' = now + 1
          /\ UNCHANGED <<price, sunk, govVars, share, vault, red, lock, events>>
      BY <1>5 DEF Tick
    <2>2. GovOK' /\ LedgerOK(share)'
      BY <1>1, <2>1, PartsKept
    <2>3. WorldOK' /\ now' \in Nat /\ now \in Nat /\ now <= now'
      BY <1>1, <1>2, <2>1 DEF WorldOK
    <2>4. lock' \in Locks /\ lock'.last <= now'
      <3>1. lock \in Locks /\ lock.last <= now /\ lock.last \in Nat
        BY <1>1 DEF AssetsOK, Locks
      <3>2. lock' = lock
        BY <2>1
      <3> HIDE <1>5
      <3>3. QED
        BY <2>3, <3>1, <3>2
    <2>5. AssetsOK'
      BY <1>1, <2>1, <2>4 DEF AssetsOK
    <2>6. QED
      BY <2>1, <2>2, <2>3, <2>5 DEF Kept, FacilityOK
  <1>6. QED
    BY <1>3, <1>4, <1>5, Zenon DEF World

(* Every step of the facility keeps its books and what the queue holds.    *)
LEMMA FacilityStep ==
    ASSUME FacilityOK, Next
    PROVE  Kept
  <1>1. Amounts \subseteq Nat /\ Lots \subseteq Nat /\ Horizons \subseteq Nat
    BY FacilityAssumption
  <1>2. CASE Provider
    <2>1. ASSUME NEW h \in Lps, NEW n \in Amounts, Deposit(h, n) \/ Withdraw(h, n)
          PROVE  Kept
      <3>1. n \in Nat
        BY <1>1
      <3>2. QED
        BY <2>1, <3>1, DepositKept, WithdrawKept, Zenon
    <2>2. ASSUME NEW h \in Lps, NEW n \in Lots,
                 \/ Redeem(h, n) \/ BurnShares(h, n)
                 \/ \E to \in Lps \cup {QUEUE} : TransferShares(h, to, n)
          PROVE  Kept
      <3>1. n \in Nat
        BY <1>1
      <3>2. QED
        BY <2>2, <3>1, RedeemKept, LedgerStepsKept, Zenon
    <2>3. QED
      BY <1>2, <2>1, <2>2, AccrueFeeKept, Zenon DEF Provider
  <1>3. CASE Trading
    <2>1. ASSUME NEW to \in {Curator, QUEUE}, NEW tin \in Tokens, NEW tout \in Tokens,
                 NEW n \in Amounts, NEW h \in Horizons, Trade(to, tin, tout, n, h)
          PROVE  Kept
      <3>1. n \in Nat /\ h \in Nat
        BY <1>1
      <3>2. QED
        BY <2>1, <3>1, TradeKept, Zenon
    <2>2. ASSUME NEW r \in Rwas, NEW n \in Amounts \cup {0},
                 Book(r, n) \/ Settle(r, n) \/ WriteDown(r, n)
          PROVE  Kept
      <3>1. n \in Nat
        BY <1>1
      <3>2. QED
        BY <2>2, <3>1, BookKept, SettleKept, WriteDownKept, Zenon
    <2>3. QED
      BY <1>3, <2>1, <2>2, Zenon DEF Trading
  <1>4. CASE Governance
    <2>1. TRUE \in BOOLEAN
      OBVIOUS
    <2>2. QED
      BY <1>4, <2>1, SubmitKept, RevokeKept, AcceptFeeKept, AcceptKept, SwitchKept,
         Zenon DEF Governance
  <1>5. CASE World
    BY <1>5, WorldKept
  <1>6. QED
    BY <1>2, <1>3, <1>4, <1>5, Zenon DEF Next

-----------------------------------------------------------------------------
(* The line                                                                *)

Lines == Seq(Positions \cup {None})

(* The shares a line holds, position by position.                          *)
LEMMA LineFacts ==
    ASSUME NEW l \in Lines
    PROVE  /\ Len(l) \in Nat /\ DOMAIN l = 1 .. Len(l) /\ IsFiniteSet(DOMAIN l)
           /\ \A id \in DOMAIN l : l[id] \in Positions \cup {None}
           /\ \A id \in DOMAIN l : SharesAt(l)[id] \in Nat
           /\ \A id \in DOMAIN l :
                 l[id] # None => l[id].shares \in Nat /\ SharesAt(l)[id] = l[id].shares
           /\ \A id \in DOMAIN l : l[id] = None => SharesAt(l)[id] = 0
  <1>1. /\ Len(l) \in Nat /\ DOMAIN l = 1 .. Len(l)
        /\ \A id \in DOMAIN l : l[id] \in Positions \cup {None}
    BY DEF Lines
  <1>2. IsFiniteSet(DOMAIN l)
    <2>1. 1 \in Int /\ Len(l) \in Int
      BY <1>1
    <2>2. QED
      BY <1>1, <2>1, FS_Interval
  <1>3. \A id \in DOMAIN l : l[id] # None => l[id].shares \in Nat
    BY <1>1 DEF Positions
  <1>4. \A id \in DOMAIN l :
           SharesAt(l)[id] = IF l[id] = None THEN 0 ELSE l[id].shares
    BY DEF SharesAt
  <1>5. QED
    BY <1>1, <1>2, <1>3, <1>4

(* One position changed.                                                   *)
LEMMA HeldSet ==
    ASSUME NEW l \in Lines, NEW m \in Lines, DOMAIN m = DOMAIN l,
           NEW id \in DOMAIN l, \A j \in DOMAIN l \ {id} : m[j] = l[j]
    PROVE  Held(m) = Held(l) + (SharesAt(m)[id] - SharesAt(l)[id])
  <1> DEFINE f == SharesAt(l)
             g == SharesAt(m)
             S == DOMAIN l
  <1>1. /\ IsFiniteSet(S) /\ \A j \in S : f[j] \in Int /\ g[j] \in Int
    <2>1. IsFiniteSet(S) /\ \A j \in S : f[j] \in Nat
      BY LineFacts
    <2>2. \A j \in S : g[j] \in Nat
      BY LineFacts
    <2> HIDE DEF f, g, S
    <2>3. QED
      BY <2>1, <2>2
  <1>2. \A j \in S \ {id} : g[j] = f[j]
    BY DEF SharesAt
  <1>3. Held(l) = SumOver(f, S) /\ Held(m) = SumOver(g, S)
    BY DEF Held
  <1> HIDE DEF f, g
  <1>4. SumOver(g, S) = SumOver(f, S) + (g[id] - f[id])
    BY <1>1, <1>2, SumChange
  <1>5. QED
    BY <1>3, <1>4 DEF f, g

(* A line holds a number of shares.                                        *)
LEMMA HeldNat ==
    ASSUME NEW l \in Lines
    PROVE  Held(l) \in Nat
  <1> DEFINE f == SharesAt(l)
             S == DOMAIN l
  <1>1. IsFiniteSet(S) /\ \A j \in S : f[j] \in Nat
    BY LineFacts
  <1> HIDE DEF f, S
  <1>2. SumOver(f, S) \in Nat
    BY <1>1, SumNat
  <1>3. QED
    BY <1>2 DEF Held, f, S

(* A line and the position that joins it.                                  *)
Joined(l, p) == Append(l, p)

(* A position added at the end.                                            *)
LEMMA HeldAppend ==
    ASSUME NEW l \in Lines, NEW p \in Positions, NEW m, m = Joined(l, p)
    PROVE  /\ m \in Lines /\ Len(m) = Len(l) + 1 /\ m[Len(l) + 1] = p
           /\ \A j \in 1 .. Len(l) : m[j] = l[j]
           /\ Held(m) = Held(l) + p.shares
  <1> DEFINE n == Len(l)
             f == SharesAt(l)
             g == SharesAt(m)
             S == 1 .. n
  <1>1. n \in Nat /\ DOMAIN l = S /\ IsFiniteSet(S) /\ \A j \in S : f[j] \in Nat
    BY LineFacts
  <1>2. /\ m \in Lines /\ Len(m) = n + 1 /\ m[n + 1] = p
        /\ \A j \in S : m[j] = l[j]
    BY <1>1 DEF Lines, Joined
  <1>3. p # None /\ p.shares \in Nat
    BY QueueAssumption DEF Positions
  <1>4. DOMAIN m = S \cup {n + 1} /\ n + 1 \notin S
    BY <1>1, <1>2, LineFacts
  <1>5. g[n + 1] = p.shares
    BY <1>2, <1>3, <1>4 DEF SharesAt
  <1>6. \A j \in S : f[j] \in Int /\ g[j] = f[j]
    <2>1. \A j \in S : g[j] = f[j]
      BY <1>1, <1>2, <1>4 DEF SharesAt
    <2> HIDE DEF f, g
    <2>2. QED
      BY <1>1, <2>1
  <1>7. Held(l) = SumOver(f, S) /\ Held(m) = SumOver(g, S \cup {n + 1})
    BY <1>1, <1>4 DEF Held
  <1> DEFINE x == n + 1
  <1>8. g[x] \in Int
    BY <1>3, <1>5
  <1> HIDE DEF f, g, S, n
  <1>9. x \notin S
    BY <1>4
  <1> HIDE DEF x
  <1>10. SumOver(g, S \cup {x}) = SumOver(f, S) + g[x]
    BY <1>1, <1>6, <1>8, <1>9, SumGrow
  <1>11. QED
    BY <1>2, <1>5, <1>7, <1>10 DEF x, n, S

(* What the line holds is what those who wait in it have given.            *)
LEMMA HeldWaiting ==
    ASSUME line \in Lines
    PROVE  SumOver([id \in Waiting |-> line[id].shares], Waiting) = Held(line)
  <1> DEFINE f == [id \in Waiting |-> line[id].shares]
             g == SharesAt(line)
             S == DOMAIN line
  <1>1. /\ IsFiniteSet(S) /\ (\A id \in S : g[id] \in Nat)
        /\ (\A id \in S : line[id] # None => g[id] = line[id].shares)
        /\ (\A id \in S : line[id] = None => g[id] = 0)
    BY LineFacts
  <1>2. Waiting \subseteq S /\ \A id \in S : id \in Waiting <=> line[id] # None
    BY DEF Waiting
  <1>3. IsFiniteSet(Waiting)
    BY <1>1, <1>2, FS_Subset
  <1>4. \A id \in Waiting : f[id] = g[id]
    BY <1>1, <1>2
  <1>5. Held(line) = SumOver(g, S)
    BY DEF Held
  <1> HIDE DEF f, g, S
  <1>6. SumOver(f, Waiting) = SumOver(g, Waiting)
    BY <1>3, <1>4, SumEqual
  <1>7. \A id \in S : g[id] \in Int
    BY <1>1
  <1>8. \A id \in S \ Waiting : g[id] = 0
    BY <1>1, <1>2
  <1>9. SumOver(g, S) = SumOver(g, Waiting)
    BY <1>1, <1>2, <1>7, <1>8, SumSupport
  <1>10. QED
    BY <1>5, <1>6, <1>9 DEF f

(* Joining the line gives the queue what the position is for.              *)
LEMMA RequestStep ==
    ASSUME QueueInv, NEW o \in Lps, NEW n \in Nat, Request(o, o, n)
    PROVE  QueueInv'
  <1> DEFINE p == [owner |-> o, receiver |-> o, shares |-> n]
  <1>1. /\ share.bal[o] >= n /\ share' = Moved(share, o, QUEUE, n)
        /\ line' = Append(line, p)
        /\ UNCHANGED <<govVars, worldVars, vault, red, lock, events, head>>
    BY DEF Request, CanMove, CanDebit
  <1>2. GovOK /\ WorldOK /\ AssetsOK /\ LedgerOK(share) /\ LineOK
    BY DEF QueueInv
  <1>3. o \in Holders /\ QUEUE \in Holders /\ o # QUEUE
    BY FacilityAssumption DEF Holders
  <1>4. share.bal[o] \in Nat /\ share.bal[QUEUE] \in Nat /\ n <= share.bal[o]
    <2>1. share.bal[o] \in Nat /\ share.bal[QUEUE] \in Nat
      BY <1>2, <1>3, LedgerTypes DEF LedgerOK
    <2>2. QED
      BY <1>1, <2>1
  <1>5. LedgerOK(share') /\ share'.bal[QUEUE] = share.bal[QUEUE] + n
    BY <1>1, <1>2, <1>3, <1>4, MovedOK
  <1>6. p \in Positions /\ p.shares = n
    BY DEF Positions
  <1>7. /\ line \in Lines /\ head \in 0 .. Len(line) /\ share.bal[QUEUE] >= Held(line)
        /\ (\A id \in DOMAIN line : line[id] # None => id > head)
        /\ Len(line) \in Nat /\ DOMAIN line = 1 .. Len(line)
    BY <1>2, LineFacts DEF LineOK, Lines
  <1> HIDE DEF p
  <1>8. /\ line' \in Lines /\ Len(line') = Len(line) + 1
        /\ (\A j \in 1 .. Len(line) : line'[j] = line[j])
        /\ Held(line') = Held(line) + n
    <2>1. line' = Append(line, p) /\ line \in Lines /\ p \in Positions
      BY <1>1, <1>6, <1>7
    <2> DEFINE m == line'
    <2>2. m = Joined(line, p)
      BY <2>1 DEF Joined
    <2> HIDE DEF m
    <2>3. /\ m \in Lines /\ Len(m) = Len(line) + 1 /\ m[Len(line) + 1] = p
          /\ \A j \in 1 .. Len(line) : m[j] = line[j]
          /\ Held(m) = Held(line) + p.shares
      BY <2>1, <2>2, HeldAppend
    <2>4. QED
      BY <1>6, <2>3 DEF m
  <1>9. DOMAIN line' = 1 .. Len(line) + 1
    BY <1>8 DEF Lines
  <1>10. head' \in 0 .. Len(line') /\ head' = head
    BY <1>1, <1>7, <1>8
  <1>11. \A id \in DOMAIN line' : line'[id] # None => id > head'
    BY <1>7, <1>8, <1>9, <1>10
  <1>12. share'.bal[QUEUE] >= Held(line')
    <2>1. Held(line) \in Nat
      BY <1>7, HeldNat
    <2>2. QED
      BY <1>4, <1>5, <1>7, <1>8, <2>1
  <1>13. LineOK'
    BY <1>8, <1>10, <1>11, <1>12 DEF LineOK, Lines
  <1>14. GovOK' /\ WorldOK' /\ AssetsOK'
    BY <1>1, <1>2, PartsKept DEF worldVars
  <1>15. QED
    BY <1>5, <1>13, <1>14 DEF QueueInv

(* Leaving it takes back what is left of the position.                     *)
LEMMA CancelStep ==
    ASSUME QueueInv, NEW id \in DOMAIN line, Cancel(id)
    PROVE  QueueInv'
  <1> DEFINE o == line[id].owner
             n == line[id].shares
  <1>1. /\ line[id] # None /\ share.bal[QUEUE] >= n
        /\ share' = Moved(share, QUEUE, o, n)
        /\ line' = [line EXCEPT ![id] = None]
        /\ UNCHANGED <<govVars, worldVars, vault, red, lock, events, head>>
    BY DEF Cancel, CanMove, CanDebit
  <1>2. GovOK /\ WorldOK /\ AssetsOK /\ LedgerOK(share) /\ LineOK
    BY DEF QueueInv
  <1>3. /\ line \in Lines /\ head \in 0 .. Len(line) /\ share.bal[QUEUE] >= Held(line)
        /\ (\A j \in DOMAIN line : line[j] # None => j > head)
        /\ Len(line) \in Nat /\ DOMAIN line = 1 .. Len(line)
        /\ line[id] \in Positions \cup {None}
    BY <1>2, LineFacts DEF LineOK, Lines
  <1>4. o \in Lps /\ n \in Nat
    <2>1. line[id] \in Positions
      BY <1>1, <1>3
    <2>2. QED
      BY <2>1 DEF Positions
  <1>5. SharesAt(line)[id] = n
    BY <1>1, <1>3, LineFacts
  <1> HIDE DEF o, n
  <1>6. o \in Holders /\ QUEUE \in Holders /\ o # QUEUE
    BY <1>4, FacilityAssumption DEF Holders
  <1>7. share.bal[QUEUE] \in Nat /\ n <= share.bal[QUEUE]
    <2>1. share.bal[QUEUE] \in Nat
      BY <1>2, <1>6, LedgerTypes DEF LedgerOK
    <2>2. QED
      BY <1>1, <1>4, <2>1
  <1>8. LedgerOK(share') /\ share'.bal[QUEUE] = share.bal[QUEUE] - n
    BY <1>1, <1>2, <1>4, <1>6, <1>7, MovedOK
  <1>9. /\ line' \in Lines /\ Len(line') = Len(line) /\ DOMAIN line' = DOMAIN line
        /\ line'[id] = None /\ \A j \in DOMAIN line \ {id} : line'[j] = line[j]
    BY <1>1, <1>3 DEF Lines
  <1>10. SharesAt(line')[id] = 0
    BY <1>9, LineFacts
  <1>11. Held(line') = Held(line) + (SharesAt(line')[id] - SharesAt(line)[id])
    BY <1>3, <1>9, HeldSet
  <1>12. share'.bal[QUEUE] >= Held(line')
    <2>1. Held(line) \in Nat
      BY <1>3, HeldNat
    <2>2. QED
      BY <1>3, <1>4, <1>5, <1>7, <1>8, <1>10, <1>11, <2>1
  <1>13. LineOK'
    BY <1>1, <1>3, <1>9, <1>12 DEF LineOK, Lines
  <1>14. GovOK' /\ WorldOK' /\ AssetsOK'
    BY <1>1, <1>2, PartsKept DEF worldVars
  <1>15. QED
    BY <1>8, <1>13, <1>14 DEF QueueInv

-----------------------------------------------------------------------------
(* The loop of process                                                     *)

WorkRecords ==
    [share : Ledgers(Holders), base : Vaults, line : Lines, head : Nat,
     available : Int, served : Nat, go : BOOLEAN, ok : BOOLEAN]

(* What the loop works on, whatever it has done.                           *)
Works == {w \in WorkRecords : LedgerOK(w.share) /\ VaultOK(w.base)
                              /\ Len(w.line) = Len(line)}

(* The parts of it.                                                        *)
LEMMA WorkTypes ==
    ASSUME NEW w \in Works
    PROVE  /\ w \in WorkRecords
           /\ LedgerOK(w.share) /\ VaultOK(w.base)
           /\ w.line \in Lines /\ Len(w.line) = Len(line) /\ w.head \in Nat
           /\ w.available \in Int /\ w.served \in Nat
           /\ w.go \in BOOLEAN /\ w.ok \in BOOLEAN
  BY DEF Works, WorkRecords

(* A turn that leaves the books.                                           *)
Idle(w, v) ==
    /\ v.share = w.share /\ v.base = w.base /\ v.line = w.line /\ v.ok = w.ok

(* A turn that redeems n shares of the position at id.                     *)
Redeemed(w, v, id, n) ==
    /\ n \in Nat /\ 0 < n /\ n <= line[id].shares
    /\ v.share.bal[QUEUE] = w.share.bal[QUEUE] - n
    /\ v.line[id] = Left(line[id], n)
    /\ \A j \in DOMAIN line \ {id} : v.line[j] = w.line[j]
    /\ n < line[id].shares => v.head = w.head /\ ~v.go
    /\ n = line[id].shares => v.head = id

(* A turn stops the loop, skips a position that is gone, reverts, or       *)
(* redeems what it can of the position.                                    *)
TurnOK(w, v, id) ==
    \/ Idle(w, v) /\ v.head = w.head /\ ~v.go
    \/ w.go /\ line[id] = None /\ Idle(w, v) /\ v.head = id
    \/ ~v.ok
    \/ w.ok /\ w.go /\ line[id] # None /\ \E n : Redeemed(w, v, id, n)

(* What the money left redeems is a part of the position.                  *)
LEMMA ServesFacts ==
    ASSUME NEW p \in Positions, NEW s, s.nav \in Int, s.supply \in Nat,
           NEW a \in Int, ~(a <= 0)
    PROVE  /\ Serves(p, s, a) \in Nat /\ Serves(p, s, a) <= p.shares
           /\ ToAssets(s, Serves(p, s, a)) \in Int
  <1>1. p.shares \in Nat /\ a \in Nat
    BY DEF Positions
  <1>2. /\ ToAssets(s, p.shares) \in Int
        /\ ToAssets(s, p.shares) > 0 => s.nav \in Nat
    BY <1>1, ToAssetsFacts
  <1>3. Serves(p, s, a) \in Nat /\ Serves(p, s, a) <= p.shares
    <2>1. CASE ToAssets(s, p.shares) <= a
      BY <1>1, <2>1 DEF Serves
    <2>2. CASE ~(ToAssets(s, p.shares) <= a)
      <3>1. s.nav \in Nat
        BY <1>1, <1>2, <2>2
      <3> DEFINE u == s.supply + VIRTUAL
                 d == s.nav + 1
                 q == ToShares(s, a)
      <3>2. u \in Nat /\ d \in Nat \ {0} /\ q = MulDiv(a, u, d)
        BY <3>1, SharesAssumption DEF ToShares
      <3>3. Serves(p, s, a) = Lesser(q, p.shares)
        BY <2>2 DEF Serves
      <3> HIDE DEF u, d, q
      <3>4. q \in Nat
        BY <1>1, <3>2, MulDivBelow
      <3>5. QED
        BY <1>1, <3>3, <3>4 DEF Lesser
    <2>3. QED
      BY <2>1, <2>2
  <1>4. QED
    BY <1>3, ToAssetsFacts

(* What is left of a position is a position, or nothing.                   *)
LEMMA LeftFacts ==
    ASSUME NEW p \in Positions, NEW n \in Nat, n <= p.shares
    PROVE  /\ Left(p, n) \in Positions \cup {None}
           /\ n < p.shares => /\ Left(p, n) # None
                              /\ Left(p, n).shares = p.shares - n
           /\ n = p.shares => Left(p, n) = None
  <1>1. p.shares \in Nat
    BY DEF Positions
  <1>2. CASE n < p.shares
    <2> DEFINE m == p.shares - n
               q == [p EXCEPT !.shares = m]
    <2>1. m \in Nat
      BY <1>1, <1>2
    <2>2. Left(p, n) = q
      BY <1>2 DEF Left
    <2> HIDE DEF m
    <2>3. q \in Positions /\ q.shares = m
      BY <2>1 DEF Positions
    <2>4. q # None
      BY <2>3, QueueAssumption
    <2>5. QED
      BY <1>1, <1>2, <2>2, <2>3, <2>4 DEF m
  <1>3. CASE ~(n < p.shares)
    BY <1>1, <1>3 DEF Left
  <1>4. QED
    BY <1>2, <1>3



(* One turn of the loop.                                                   *)
LEMMA ServeFacts ==
    ASSUME QueueInv, NEW w \in Works, NEW id \in DOMAIN line, NEW max \in Nat,
           NEW v, v = Serve(w, id, max)
    PROVE  v \in Works /\ TurnOK(w, v, id) /\ (v.ok => w.ok)
  <1> DEFINE p == line[id]
             s == SnapOf(w.share, w.base)
             n == Serves(p, s, w.available)
             a == ToAssets(s, n)
             t == Accrue(w.share, s, Curator)
             stop == ~w.ok \/ ~w.go \/ w.served = max
             dry == w.available <= 0 \/ n = 0
             can == CanExit(t, w.base, s, QUEUE, n, a)
             full == [w EXCEPT !.share = Burn(t, QUEUE, n), !.base = Pull(w.base, a),
                       !.available = w.available - a, !.served = w.served + 1,
                       !.line[id] = Left(p, n),
                       !.head = IF n < p.shares THEN w.head ELSE id,
                       !.go = n = p.shares]
  <1>1. v = IF stop THEN [w EXCEPT !.go = FALSE]
            ELSE IF p = None THEN [w EXCEPT !.head = id]
            ELSE IF dry THEN [w EXCEPT !.go = FALSE]
            ELSE IF ~can THEN [w EXCEPT !.ok = FALSE]
            ELSE full
    BY Zenon DEF Serve
  <1>2. /\ w \in WorkRecords /\ LedgerOK(w.share) /\ VaultOK(w.base)
        /\ w.line \in Lines /\ Len(w.line) = Len(line) /\ w.head \in Nat
        /\ w.available \in Int /\ w.served \in Nat
        /\ w.go \in BOOLEAN /\ w.ok \in BOOLEAN
    BY WorkTypes
  <1>3. /\ line \in Lines /\ DOMAIN line = 1 .. Len(line) /\ id \in Nat
        /\ p \in Positions \cup {None} /\ Len(line) \in Nat
        /\ DOMAIN w.line = DOMAIN line
    <2>1. line \in Lines
      BY DEF QueueInv, LineOK, Lines
    <2>2. /\ DOMAIN line = 1 .. Len(line) /\ p \in Positions \cup {None}
          /\ Len(line) \in Nat
      BY <2>1, LineFacts
    <2>3. DOMAIN w.line = 1 .. Len(w.line)
      BY <1>2, LineFacts
    <2>4. id \in Nat
      BY <2>2
    <2>5. QED
      BY <1>2, <2>1, <2>2, <2>3, <2>4
  <1> HIDE DEF stop, dry, can, full, p
  <1>4. CASE stop
    <2>1. v = [w EXCEPT !.go = FALSE]
      BY <1>1, <1>4
    <2>2. v \in Works /\ Idle(w, v) /\ v.head = w.head /\ ~v.go
      BY <1>2, <2>1 DEF Works, WorkRecords, Idle
    <2>3. QED
      BY <2>2 DEF TurnOK, Idle
  <1>5. CASE ~stop /\ p = None
    <2>1. v = [w EXCEPT !.head = id]
      BY <1>1, <1>5
    <2>2. v \in Works /\ Idle(w, v) /\ v.head = id
      BY <1>2, <1>3, <2>1 DEF Works, WorkRecords, Idle
    <2>3. w.go
      BY <1>5 DEF stop
    <2>4. QED
      BY <1>5, <2>2, <2>3 DEF TurnOK, Idle, p
  <1>6. CASE ~stop /\ p # None /\ dry
    <2>1. v = [w EXCEPT !.go = FALSE]
      BY <1>1, <1>6
    <2>2. v \in Works /\ Idle(w, v) /\ v.head = w.head /\ ~v.go
      BY <1>2, <2>1 DEF Works, WorkRecords, Idle
    <2>3. QED
      BY <2>2 DEF TurnOK, Idle
  <1>7. CASE ~stop /\ p # None /\ ~dry /\ ~can
    <2>1. v = [w EXCEPT !.ok = FALSE]
      BY <1>1, <1>7
    <2>2. v \in Works /\ ~v.ok
      BY <1>2, <2>1 DEF Works, WorkRecords
    <2>3. QED
      BY <2>2 DEF TurnOK
  <1>8. CASE ~stop /\ p # None /\ ~dry /\ can
    <2>1. v = full
      BY <1>1, <1>8
    <2>2. w.ok /\ w.go
      BY <1>8 DEF stop
    <2>3. p \in Positions /\ p.shares \in Nat
      BY <1>3, <1>8 DEF Positions
    <2>4. /\ s.nav \in Int /\ s.supply \in Nat /\ LedgerOK(t)
          /\ t.bal[QUEUE] = w.share.bal[QUEUE]
      <3>1. s = SnapOf(w.share, w.base) /\ GovOK /\ WorldOK /\ AssetsOK
        BY DEF QueueInv
      <3> HIDE DEF s
      <3>2. /\ s.nav \in Int /\ s.supply \in Nat /\ LedgerOK(t)
            /\ \A h \in Lps \cup {QUEUE} : t.bal[h] = w.share.bal[h]
        BY <1>2, <3>1, SnapOfFacts
      <3>3. QED
        BY <3>2
    <2> HIDE DEF s, t
    <2>5. n \in Nat /\ n <= p.shares /\ a \in Int
      <3>1. ~(w.available <= 0)
        BY <1>8 DEF dry
      <3>2. QED
        BY <1>2, <2>3, <2>4, <3>1, ServesFacts
    <2>6. 0 < n
      BY <1>8, <2>5 DEF dry
    <2> HIDE DEF n, a
    <2>7. a \in Nat /\ t.bal[QUEUE] >= n /\ CanPull(w.base, a)
      <3>1. a > 0 /\ t.bal[QUEUE] >= n /\ CanPull(w.base, a)
        BY <1>8 DEF can, CanExit, CanDebit
      <3>2. QED
        BY <2>5, <3>1
    <2>8. VaultOK(Pull(w.base, a))
      BY <1>2, <2>7, PullOK
    <2>9. QUEUE \in Holders
      BY DEF Holders
    <2>10. w.share.bal[QUEUE] \in Nat /\ n <= t.bal[QUEUE]
      <3>1. t.bal[QUEUE] \in Nat
        BY <2>4, <2>9, LedgerTypes DEF LedgerOK
      <3>2. QED
        BY <2>4, <2>5, <2>7, <3>1
    <2> DEFINE u == Burn(t, QUEUE, n)
               b == Pull(w.base, a)
               q == Left(p, n)
               l == [w.line EXCEPT ![id] = q]
               h == IF n < p.shares THEN w.head ELSE id
               c == w.available - a
               e == w.served + 1
               g == n = p.shares
    <2>11. LedgerOK(u) /\ u.bal[QUEUE] = w.share.bal[QUEUE] - n
      BY <2>4, <2>5, <2>9, <2>10, BurnOK
    <2>12. /\ q \in Positions \cup {None}
      BY <2>3, <2>5, LeftFacts
    <2>13. /\ v = [w EXCEPT !.share = u, !.base = b, !.available = c, !.served = e,
                            !.line[id] = q, !.head = h, !.go = g]
      BY <2>1 DEF full
    <2> HIDE DEF u, b, q
    <2>14. /\ l \in Lines /\ Len(l) = Len(line) /\ l[id] = q
           /\ \A j \in DOMAIN line \ {id} : l[j] = w.line[j]
      BY <1>2, <1>3, <2>12 DEF Lines
    <2>15. h \in Nat /\ c \in Int /\ e \in Nat /\ g \in BOOLEAN
      BY <1>2, <1>3, <2>5
    <2>16. /\ v.share = u /\ v.base = b /\ v.line = l /\ v.head = h
           /\ v.available = c /\ v.served = e /\ v.go = g /\ v.ok = w.ok
           /\ v = [share |-> u, base |-> b, line |-> l, head |-> h, available |-> c,
                   served |-> e, go |-> g, ok |-> w.ok]
      <3> HIDE DEF h, c, e, g
      <3>1. QED
        BY <1>2, <2>13 DEF WorkRecords
    <2>17. v \in Works
      <3> HIDE DEF l, h, c, e, g
      <3>1. u \in Ledgers(Holders) /\ b \in Vaults /\ VaultOK(b)
        BY <2>8, <2>11 DEF LedgerOK, VaultOK, b
      <3>2. v \in WorkRecords
        BY <1>2, <2>14, <2>15, <2>16, <3>1 DEF WorkRecords
      <3>3. QED
        BY <2>11, <2>14, <2>16, <3>1, <3>2 DEF Works
    <2>18. Redeemed(w, v, id, n)
      <3>1. v.share.bal[QUEUE] = w.share.bal[QUEUE] - n
        BY <2>11, <2>16
      <3>2. v.line[id] = Left(line[id], n)
        BY <2>14, <2>16 DEF q, p
      <3>3. \A j \in DOMAIN line \ {id} : v.line[j] = w.line[j]
        BY <2>14, <2>16
      <3>4. n < p.shares => v.head = w.head /\ ~v.go
        <4>1. n < p.shares => h = w.head
          OBVIOUS
        <4>2. n < p.shares => ~g
          BY <2>3, <2>5
        <4> HIDE DEF h, g
        <4>3. QED
          BY <2>16, <4>1, <4>2
      <3>5. n = p.shares => v.head = id
        BY <2>3, <2>5, <2>16
      <3>6. QED
        BY <2>5, <2>6, <3>1, <3>2, <3>3, <3>4, <3>5 DEF Redeemed, p
    <2>19. line[id] # None
      BY <1>8 DEF p
    <2>20. QED
      BY <2>2, <2>17, <2>18, <2>19 DEF TurnOK
  <1>9. QED
    BY <1>4, <1>5, <1>6, <1>7, <1>8

(* What holds of the loop's state after k turns, unless one has reverted:  *)
(* what was redeemed came off the line, the head is the last position that *)
(* is gone, no position beyond the turn has been touched, and none has     *)
(* been touched before all ahead of it were gone.                          *)
Good(k, w) ==
    /\ w \in Works
    /\ w.ok =>
        /\ w.share.bal[QUEUE] >= Held(w.line)
        /\ w.head \in head .. head + k /\ (w.go => w.head = head + k)
        /\ \A j \in DOMAIN line : w.line[j] # None => j > w.head
        /\ \A j \in DOMAIN line : j > head + k => w.line[j] = line[j]
        /\ \A i, j \in DOMAIN line : i < j /\ w.line[j] # line[j] => w.line[i] = None

(* What the loop starts from.                                              *)
LEMMA StartGood ==
    ASSUME QueueInv
    PROVE  Good(0, Start)
  <1>1. GovOK /\ WorldOK /\ AssetsOK /\ LedgerOK(share) /\ LineOK
    BY DEF QueueInv
  <1>2. /\ line \in Lines /\ DOMAIN line = 1 .. Len(line) /\ Len(line) \in Nat
        /\ head \in 0 .. Len(line) /\ share.bal[QUEUE] >= Held(line)
        /\ (\A id \in DOMAIN line : line[id] # None => id > head)
    BY <1>1, LineFacts DEF LineOK, Lines
  <1> DEFINE m == MaxWithdraw(QUEUE)
  <1>3. m \in Int
    <2> DEFINE s == Snap
               a == ToAssets(s, share.bal[QUEUE])
               b == Payable(vault[Base])
    <2>1. s.nav \in Int /\ s.supply \in Nat
      BY <1>1, SnapFacts
    <2>2. share.bal[QUEUE] \in Nat
      BY <1>1, LedgerTypes DEF LedgerOK, Holders
    <2>3. a \in Int
      <3> HIDE DEF s
      <3>1. QED
        BY <2>1, <2>2, ToAssetsFacts
    <2>4. b \in Int
      <3>1. Payable(vault[Base]) \in Nat
        BY <1>1, BaseFacts, VaultFacts
      <3>2. QED
        BY <3>1
    <2>5. config.queue \in {QUEUE, None}
      BY <1>1 DEF GovOK
    <2>6. Free(share, vault[Base], s, QUEUE) = b
      BY <2>5 DEF Free
    <2>7. m = Lesser(a, b)
      BY <2>6 DEF MaxWithdraw, MaxWithdrawAt
    <2> HIDE DEF a, b, m
    <2>8. QED
      BY <2>3, <2>4, <2>7 DEF Lesser
  <1>4. VaultOK(vault[Base]) /\ vault[Base] \in Vaults /\ share \in Ledgers(Holders)
    BY <1>1, BaseFacts DEF VaultOK, LedgerOK
  <1> DEFINE w == Start
  <1>5. /\ w = [share |-> share, base |-> vault[Base], line |-> line, head |-> head,
               available |-> m, served |-> 0, go |-> TRUE, ok |-> TRUE]
    BY DEF Start
  <1> HIDE DEF w, m
  <1>6. w \in WorkRecords
    BY <1>2, <1>3, <1>4, <1>5 DEF WorkRecords
  <1>7. /\ w.share = share /\ w.base = vault[Base] /\ w.line = line /\ w.head = head
    BY <1>5
  <1>8. w \in Works
    BY <1>1, <1>4, <1>6, <1>7 DEF Works
  <1>9. QED
    BY <1>2, <1>7, <1>8 DEF Good, w

(* One more turn.                                                          *)
LEMMA TurnGood ==
    ASSUME QueueInv, NEW max \in Nat, NEW k \in 1 .. Len(line) - head,
           NEW w, Good(k - 1, w), NEW v, v = Serve(w, head + k, max)
    PROVE  Good(k, v)
  <1> DEFINE id == head + k
  <1>1. /\ line \in Lines /\ DOMAIN line = 1 .. Len(line) /\ Len(line) \in Nat
        /\ head \in 0 .. Len(line) /\ k \in Nat
        /\ \A j \in DOMAIN line : line[j] # None => line[j] \in Positions
    BY LineFacts DEF QueueInv, LineOK, Lines
  <1>2. id \in DOMAIN line /\ id \in Nat /\ w \in Works /\ head + (k - 1) = id - 1
    BY <1>1 DEF Good
  <1> HIDE DEF id
  <1>3. v \in Works /\ TurnOK(w, v, id) /\ (v.ok => w.ok)
    BY <1>2, ServeFacts DEF id
  <1> SUFFICES ASSUME v.ok
               PROVE  /\ v.share.bal[QUEUE] >= Held(v.line)
                      /\ v.head \in head .. id /\ (v.go => v.head = id)
                      /\ \A j \in DOMAIN line : v.line[j] # None => j > v.head
                      /\ \A j \in DOMAIN line : j > id => v.line[j] = line[j]
                      /\ \A i, j \in DOMAIN line :
                            i < j /\ v.line[j] # line[j] => v.line[i] = None
    BY <1>3 DEF Good, id
  <1>4. /\ w.share.bal[QUEUE] >= Held(w.line)
        /\ w.head \in head .. id - 1 /\ (w.go => w.head = id - 1)
        /\ \A j \in DOMAIN line : w.line[j] # None => j > w.head
        /\ \A j \in DOMAIN line : j > id - 1 => w.line[j] = line[j]
        /\ \A i, j \in DOMAIN line : i < j /\ w.line[j] # line[j] => w.line[i] = None
    BY <1>2, <1>3 DEF Good
  <1>5. CASE Idle(w, v) /\ v.head = w.head /\ ~v.go
    <2>1. v.line = w.line /\ v.share = w.share
      BY <1>5 DEF Idle
    <2>2. v.head \in head .. id
      BY <1>1, <1>2, <1>4, <1>5
    <2>3. \A j \in DOMAIN line : j > id => v.line[j] = line[j]
      BY <1>1, <1>2, <1>4, <2>1
    <2>4. QED
      BY <1>4, <1>5, <2>1, <2>2, <2>3
  <1>6. CASE w.go /\ line[id] = None /\ Idle(w, v) /\ v.head = id
    <2>1. w.line[id] = None /\ w.head = id - 1
      BY <1>2, <1>4, <1>6
    <2>2. \A j \in DOMAIN line : v.line[j] # None => j > v.head
      BY <1>1, <1>2, <1>4, <1>6, <2>1 DEF Idle
    <2>3. QED
      BY <1>1, <1>2, <1>4, <1>6, <2>2 DEF Idle
  <1>7. ASSUME w.go, line[id] # None, NEW n, Redeemed(w, v, id, n)
        PROVE  /\ v.share.bal[QUEUE] >= Held(v.line)
               /\ v.head \in head .. id /\ (v.go => v.head = id)
               /\ \A j \in DOMAIN line : v.line[j] # None => j > v.head
               /\ \A j \in DOMAIN line : j > id => v.line[j] = line[j]
               /\ \A i, j \in DOMAIN line :
                     i < j /\ v.line[j] # line[j] => v.line[i] = None
    <2> DEFINE p == line[id]
    <2>1. /\ n \in Nat /\ 0 < n /\ n <= p.shares
          /\ v.share.bal[QUEUE] = w.share.bal[QUEUE] - n
          /\ v.line[id] = Left(p, n)
          /\ \A j \in DOMAIN line \ {id} : v.line[j] = w.line[j]
          /\ n < p.shares => v.head = w.head /\ ~v.go
          /\ n = p.shares => v.head = id
      BY <1>7 DEF Redeemed
    <2>2. p \in Positions /\ p.shares \in Nat
      BY <1>1, <1>2, <1>7 DEF Positions
    <2>3. w.line[id] = p /\ w.head = id - 1
      BY <1>2, <1>4, <1>7
    <2>4. /\ n < p.shares => v.line[id] # None /\ v.line[id].shares = p.shares - n
          /\ n = p.shares => v.line[id] = None
      BY <2>1, <2>2, LeftFacts
    <2>5. /\ v.line \in Lines /\ w.line \in Lines
          /\ DOMAIN v.line = DOMAIN line /\ DOMAIN w.line = DOMAIN line
      <3>1. /\ v.line \in Lines /\ Len(v.line) = Len(line)
            /\ w.line \in Lines /\ Len(w.line) = Len(line)
        BY <1>2, <1>3, WorkTypes
      <3>2. QED
        BY <1>1, <3>1, LineFacts
    <2>6. SharesAt(w.line)[id] = p.shares /\ SharesAt(v.line)[id] = p.shares - n
      <3>1. SharesAt(w.line)[id] = p.shares
        BY <1>2, <1>7, <2>3, <2>5, LineFacts
      <3>2. CASE n < p.shares
        BY <1>2, <2>4, <2>5, <3>1, <3>2, LineFacts
      <3>3. CASE n = p.shares
        <4>1. SharesAt(v.line)[id] = 0
          BY <1>2, <2>4, <2>5, <3>3, LineFacts
        <4>2. QED
          BY <2>2, <3>1, <3>3, <4>1
      <3>4. QED
        BY <2>1, <2>2, <3>1, <3>2, <3>3
    <2>7. Held(v.line) = Held(w.line) + (SharesAt(v.line)[id] - SharesAt(w.line)[id])
      BY <1>2, <2>1, <2>5, HeldSet
    <2>8. v.share.bal[QUEUE] >= Held(v.line)
      <3>1. w.share.bal[QUEUE] \in Nat
        BY <1>2, WorkTypes, LedgerTypes DEF LedgerOK, Holders
      <3>2. Held(w.line) \in Nat
        BY <2>5, HeldNat
      <3>3. /\ w.share.bal[QUEUE] >= Held(w.line) /\ n \in Nat
            /\ v.share.bal[QUEUE] = w.share.bal[QUEUE] - n
        BY <1>4, <2>1
      <3>4. Held(v.line) = Held(w.line) - n
        <4> HIDE DEF p
        <4>1. QED
          BY <2>2, <2>6, <2>7, <3>2, <3>3
      <3>5. QED
        BY <3>1, <3>2, <3>3, <3>4
    <2>9. \A j \in DOMAIN line : j < id => v.line[j] = None
      BY <1>1, <1>2, <1>4, <2>1, <2>3
    <2>10. v.head \in head .. id /\ (v.go => v.head = id)
      BY <1>1, <1>2, <1>4, <2>1, <2>2, <2>3
    <2>11. \A j \in DOMAIN line : v.line[j] # None => j > v.head
      <3>1. CASE n < p.shares
        BY <1>1, <1>2, <2>1, <2>3, <2>9, <3>1
      <3>2. CASE n = p.shares
        BY <1>1, <1>2, <2>1, <2>4, <2>9, <3>2
      <3>3. QED
        BY <2>1, <2>2, <3>1, <3>2
    <2>12. \A j \in DOMAIN line : j > id => v.line[j] = line[j]
      BY <1>1, <1>2, <1>4, <2>1
    <2>13. \A i, j \in DOMAIN line : i < j /\ v.line[j] # line[j] => v.line[i] = None
      BY <1>1, <1>2, <2>9, <2>12
    <2>14. QED
      BY <2>8, <2>10, <2>11, <2>12, <2>13
  <1>8. QED
    BY <1>3, <1>5, <1>6, <1>7 DEF TurnOK

(* The loop's states, turn by turn.                                        *)
IsRun(r, max) ==
    r = [k \in 0 .. Len(line) - head |->
            IF k = 0 THEN Start ELSE Serve(r[k - 1], head + k, max)]

(* The loop runs to its end.                                               *)
LEMMA ServedRuns ==
    ASSUME QueueInv, NEW max \in Nat
    PROVE  \E r : IsRun(r, max) /\ Served(max) = r[Len(line) - head]
  <1> DEFINE n == Len(line) - head
             step == [k \in 1 .. n |-> [w \in Works |-> Serve(w, head + k, max)]]
  <1>1. /\ n \in Nat /\ head \in Nat /\ DOMAIN line = 1 .. Len(line)
        /\ \A k \in 1 .. n : head + k \in DOMAIN line
    BY LineFacts DEF QueueInv, LineOK, Lines
  <1>2. Start \in Works
    BY StartGood DEF Good
  <1>3. \A k \in 1 .. n, w \in Works : Serve(w, head + k, max) \in Works
    <2>1. TAKE k \in 1 .. n, w \in Works
    <2> DEFINE v == Serve(w, head + k, max)
               id == head + k
    <2>2. v = Serve(w, id, max) /\ id \in DOMAIN line
      BY <1>1
    <2> HIDE DEF v, id
    <2>3. v \in Works
      BY <2>2, ServeFacts
    <2>4. QED
      BY <2>3 DEF v
  <1>4. /\ step \in [1 .. n -> [Works -> Works]]
        /\ \A k \in 1 .. n, w \in Works : step[k][w] = Serve(w, head + k, max)
    <2> HIDE DEF n
    <2>1. \A k \in 1 .. n :
             [w \in Works |-> Serve(w, head + k, max)] \in [Works -> Works]
      BY <1>3
    <2>2. QED
      BY <2>1
  <1> DEFINE start == Start
  <1> HIDE DEF step, n, start
  <1>5. PICK r : Runs(r, n, Works, start, step)
    <2>1. start \in Works
      BY <1>2 DEF start
    <2>2. n \in Nat /\ step \in [1 .. n -> [Works -> Works]]
      BY <1>1, <1>4
    <2>3. QED
      BY <2>1, <2>2, RunExists, Zenon
  <1> USE DEF Runs
  <1>6. \A k \in 1 .. n : r[k] = Serve(r[k - 1], head + k, max)
    <2>1. TAKE k \in 1 .. n
    <2>2. k - 1 \in 0 .. n
      BY <1>1
    <2>3. r[k - 1] \in Works
      BY <1>5, <2>2
    <2>4. QED
      BY <1>4, <1>5, <2>3
  <1>7. IsRun(r, max)
    <2>1. r = [k \in 0 .. n |-> r[k]]
      BY <1>5
    <2>2. \A k \in 0 .. n : r[k] = IF k = 0 THEN start
                                   ELSE Serve(r[k - 1], head + k, max)
      BY <1>1, <1>5, <1>6
    <2>3. r = [k \in 0 .. n |-> IF k = 0 THEN start
                                ELSE Serve(r[k - 1], head + k, max)]
      BY <2>1, <2>2, Zenon
    <2>4. QED
      BY <2>3 DEF IsRun, n, start
  <1> DEFINE g == CHOOSE x : IsRun(x, max)
  <1>8. IsRun(g, max)
    BY <1>7
  <1>9. Served(max) = g[Len(line) - head]
    BY Zenon DEF Served, IsRun
  <1>10. QED
    BY <1>8, <1>9

(* Where it ends.                                                          *)
LEMMA ServedGood ==
    ASSUME QueueInv, NEW max \in Nat
    PROVE  Good(Len(line) - head, Served(max))
  <1> DEFINE n == Len(line) - head
  <1>1. n \in Nat /\ n = Len(line) - head
    BY LineFacts DEF QueueInv, LineOK, Lines
  <1>2. PICK r : IsRun(r, max) /\ Served(max) = r[n]
    BY ServedRuns
  <1> HIDE DEF n
  <1>3. /\ r[0] = Start
        /\ \A k \in 1 .. n : r[k] = Serve(r[k - 1], head + k, max)
    <2> DEFINE body(k) == IF k = 0 THEN Start ELSE Serve(r[k - 1], head + k, max)
    <2>1. r = [k \in 0 .. n |-> body(k)]
      BY <1>2 DEF IsRun, n
    <2>2. body(0) = Start
      OBVIOUS
    <2>3. \A k \in 1 .. n : body(k) = Serve(r[k - 1], head + k, max)
      <3>1. TAKE k \in 1 .. n
      <3>2. k # 0
        BY <1>1
      <3>3. QED
        BY <3>2
    <2> HIDE DEF body
    <2>4. \A k \in 0 .. n : r[k] = body(k)
      BY <2>1
    <2>5. 0 \in 0 .. n /\ \A k \in 1 .. n : k \in 0 .. n
      BY <1>1
    <2>6. r[0] = Start
      BY <2>2, <2>4, <2>5, Zenon
    <2>7. QED
      BY <2>3, <2>4, <2>5, <2>6, Zenon
  <1> DEFINE G == {k \in 0 .. n : Good(k, r[k])}
  <1>4. 0 \in G
    BY <1>1, <1>3, StartGood
  <1>5. ASSUME NEW k \in 1 .. n, k - 1 \in G
        PROVE  k \in G
    <2>1. Good(k - 1, r[k - 1]) /\ r[k] = Serve(r[k - 1], head + k, max)
      BY <1>3, <1>5
    <2>2. k \in 1 .. Len(line) - head
      BY DEF n
    <2> DEFINE w == r[k - 1]
               v == r[k]
    <2>3. Good(k - 1, w) /\ v = Serve(w, head + k, max)
      BY <2>1
    <2> HIDE DEF w, v
    <2>4. Good(k, v)
      BY <2>2, <2>3, TurnGood
    <2>5. QED
      BY <1>1, <2>4 DEF v
  <1> HIDE DEF G
  <1>6. \A k \in 0 .. n : k \in G
    BY <1>1, <1>4, <1>5, EveryTurn
  <1>7. n \in G
    BY <1>1, <1>6
  <1>8. QED
    BY <1>2, <1>7 DEF G, n

(* The whole of process.                                                   *)
LEMMA ProcessStep ==
    ASSUME QueueInv, NEW max \in Nat, Process(max)
    PROVE  /\ QueueInv'
           /\ \A i, j \in DOMAIN line : i < j /\ line'[j] # line[j] => line'[i] = None
  <1> DEFINE w == Served(max)
             n == Len(line) - head
  <1>1. /\ w.ok /\ share' = w.share /\ vault' = [vault EXCEPT ![Base] = w.base]
        /\ line' = w.line /\ head' = w.head
        /\ UNCHANGED <<govVars, worldVars, red, lock, events>>
    BY DEF Process
  <1>2. Good(n, w)
    BY ServedGood
  <1> HIDE DEF w
  <1>3. GovOK /\ WorldOK /\ AssetsOK /\ LineOK
    BY DEF QueueInv
  <1>4. /\ Len(line) \in Nat /\ head \in 0 .. Len(line) /\ head + n = Len(line)
        /\ DOMAIN line = 1 .. Len(line)
    BY <1>3, LineFacts DEF LineOK, Lines
  <1> HIDE DEF n
  <1>5. /\ LedgerOK(w.share) /\ VaultOK(w.base) /\ w.line \in Lines
        /\ Len(w.line) = Len(line) /\ DOMAIN w.line = DOMAIN line
    <2>1. w \in Works
      BY <1>2 DEF Good
    <2>2. /\ LedgerOK(w.share) /\ VaultOK(w.base) /\ w.line \in Lines
          /\ Len(w.line) = Len(line)
      BY <2>1, WorkTypes
    <2>3. QED
      BY <1>4, <2>2, LineFacts
  <1>6. /\ w.share.bal[QUEUE] >= Held(w.line) /\ w.head \in head .. Len(line)
        /\ \A j \in DOMAIN line : w.line[j] # None => j > w.head
        /\ \A i, j \in DOMAIN line : i < j /\ w.line[j] # line[j] => w.line[i] = None
    BY <1>1, <1>2, <1>4 DEF Good
  <1>7. GovOK' /\ WorldOK'
    BY <1>1, <1>3, PartsKept
  <1>8. AssetsOK'
    BY <1>1, <1>3, <1>5, BaseFacts, VaultSet DEF worldVars
  <1>9. LedgerOK(share')
    BY <1>1, <1>5
  <1>10. LineOK'
    <2>1. /\ line' \in Lines /\ Len(line') = Len(line) /\ DOMAIN line' = DOMAIN line
          /\ head' \in 0 .. Len(line)
      BY <1>1, <1>4, <1>5, <1>6
    <2>2. share'.bal[QUEUE] >= Held(line')
      BY <1>1, <1>6
    <2>3. \A id \in DOMAIN line' : line'[id] # None => id > head'
      BY <1>1, <1>6, <2>1
    <2>4. QED
      BY <2>1, <2>2, <2>3 DEF LineOK, Lines
  <1>11. QED
    BY <1>1, <1>6, <1>7, <1>8, <1>9, <1>10 DEF QueueInv

-----------------------------------------------------------------------------
(* The invariant of the specification                                      *)

(* Where the facility and its queue start.                                 *)
LEMMA QueueInvInit == QueueInit => QueueInv
  <1> SUFFICES ASSUME QueueInit PROVE QueueInv
    OBVIOUS
  <1>1. Init /\ line = << >> /\ head = 0
    BY DEF QueueInit
  <1>2. GovOK
    <2>1. /\ paused = FALSE /\ events = 0 /\ terms = InitialTerms
          /\ config = [fee |-> 0, vest |-> InitialVest, queue |-> InitialQueue]
          /\ pending = [k \in Kinds |-> None]
      BY <1>1 DEF Init
    <2>2. config \in [fee : 0 .. MAX_FEE, vest : Nat, queue : {QUEUE, None}]
      BY <2>1, FacilityAssumption, SharesAssumption
    <2>3. DOMAIN pending = Kinds /\ \A k \in Kinds : pending[k] = None
      BY <2>1
    <2>4. terms \in [Rwas -> Terms \cup {None}]
      BY <2>1, FacilityAssumption
    <2>5. paused \in BOOLEAN /\ events \in 0 .. MaxEvents
      <3>1. events \in 0 .. MaxEvents
        BY <2>1, FacilityAssumption
      <3>2. paused \in BOOLEAN
        BY <2>1
      <3>3. QED
        BY <3>1, <3>2
    <2>6. QED
      BY <2>2, <2>3, <2>4, <2>5 DEF GovOK, Kinds
  <1>3. WorldOK
    BY <1>1, FacilityAssumption DEF Init, WorldOK
  <1>4. AssetsOK
    <2> DEFINE e == [nav |-> 0, shares |-> 0, liquid |-> 0]
    <2>1. VaultOK(e)
      BY DEF VaultOK, Vaults
    <2>2. vault = [t \in Tokens |-> e] /\ red = [r \in Rwas |-> None] /\ now = 0
          /\ lock = [locked |-> 0, last |-> 0, end |-> 0]
      BY <1>1 DEF Init
    <2>3. lock \in Locks /\ lock.last <= now
      BY <2>2 DEF Locks
    <2> HIDE DEF e
    <2>4. e \in Vaults
      BY <2>1 DEF VaultOK
    <2>5. vault \in [Tokens -> Vaults] /\ \A t \in Tokens : VaultOK(vault[t])
      BY <2>1, <2>2, <2>4
    <2>6. red \in [Rwas -> Reds \cup {None}]
      BY <2>2
    <2>7. QED
      BY <2>3, <2>5, <2>6 DEF AssetsOK
  <1>5. LedgerOK(share) /\ share.bal[QUEUE] = 0
    BY <1>1, EmptyOK DEF Init
  <1>6. line \in Lines /\ Len(line) = 0 /\ DOMAIN line = {}
    BY <1>1 DEF Lines
  <1>7. Held(line) = 0
    BY <1>6, SumEmpty DEF Held
  <1>8. LineOK
    BY <1>1, <1>5, <1>6, <1>7 DEF LineOK, Lines
  <1>9. QED
    BY <1>2, <1>3, <1>4, <1>5, <1>8 DEF QueueInv

(* No step of the facility touches the line, or takes of the queue's oLP.  *)
LEMMA FacilityKeepsLine ==
    ASSUME QueueInv, Next, UNCHANGED queueVars
    PROVE  QueueInv'
  <1>1. FacilityOK /\ LineOK
    BY DEF QueueInv, FacilityOK
  <1>2. /\ FacilityOK'
        /\ share'.bal[QUEUE] = share.bal[QUEUE] \/ share'.bal[QUEUE] >= share.bal[QUEUE]
    BY <1>1, FacilityStep DEF Kept
  <1>3. LineOK'
    <2>1. /\ line \in Lines /\ share.bal[QUEUE] >= Held(line) /\ line' = line
          /\ Held(line') = Held(line)
      BY <1>1 DEF LineOK, Lines, queueVars, Held, SharesAt
    <2>2. share.bal[QUEUE] \in Nat /\ share'.bal[QUEUE] \in Nat /\ Held(line) \in Nat
      <3>1. LedgerOK(share) /\ LedgerOK(share') /\ QUEUE \in Holders
        BY <1>1, <1>2 DEF FacilityOK, Holders
      <3>2. QED
        BY <2>1, <3>1, LedgerTypes, HeldNat DEF LedgerOK
    <2>3. share'.bal[QUEUE] >= Held(line')
      BY <1>2, <2>1, <2>2
    <2>4. QED
      BY <1>1, <2>1, <2>3 DEF LineOK, queueVars
  <1>4. QED
    BY <1>2, <1>3 DEF QueueInv, FacilityOK

(* Every step keeps the invariant.                                         *)
LEMMA QueueInvStep == QueueInv /\ [QueueNext]_allVars => QueueInv'
  <1> SUFFICES ASSUME QueueInv, [QueueNext]_allVars PROVE QueueInv'
    OBVIOUS
  <1>1. CASE UNCHANGED allVars
    <2>1. UNCHANGED <<govVars, worldVars, events, share, vault, red, lock, now, line, head>>
      BY <1>1 DEF allVars, vars, queueVars, govVars, worldVars
    <2>2. QED
      BY <2>1, PartsKept DEF QueueInv
  <1>2. ASSUME NEW o \in Lps, NEW n \in Lots, Request(o, o, n)
        PROVE  QueueInv'
    <2>1. n \in Nat
      BY FacilityAssumption
    <2>2. QED
      BY <1>2, <2>1, RequestStep
  <1>3. ASSUME NEW max \in 1 .. MaxServed, Process(max)
        PROVE  QueueInv'
    <2>1. max \in Nat
      OBVIOUS
    <2>2. QED
      BY <1>3, <2>1, ProcessStep
  <1>4. ASSUME NEW id \in DOMAIN line, Cancel(id)
        PROVE  QueueInv'
    BY <1>4, CancelStep
  <1>5. CASE Next /\ UNCHANGED queueVars
    BY <1>5, FacilityKeepsLine
  <1>6. QED
    BY <1>1, <1>2, <1>3, <1>4, <1>5, Zenon DEF QueueNext, QueueStep

(* The inductive invariant of the facility and its queue: every table has  *)
(* its shape, every oLP share is some holder's and nobody is frozen, no    *)
(* vault says it can pay more than it has, and the queue holds at least    *)
(* what its line is for, with nobody waiting behind the head.              *)
THEOREM QueueInvariant == QueueSpec => []QueueInv
  BY QueueInvInit, QueueInvStep, PTL DEF QueueSpec

(* The queue holds at least the oLP of those who wait (contracts/queue:    *)
(* request, process and cancel), whatever the facility does around it and  *)
(* whatever is sent to the queue without a request.                        *)
THEOREM BackingHolds == QueueSpec => []QueueBacked
  <1>1. QueueInv => QueueBacked
    <2> SUFFICES ASSUME QueueInv PROVE QueueBacked
      OBVIOUS
    <2>1. GovOK /\ WorldOK /\ AssetsOK /\ LedgerOK(share) /\ LineOK
      BY DEF QueueInv
    <2>2. line \in Lines
      BY <2>1 DEF LineOK, Lines
    <2>3. TypeOK
      <3>1. /\ now \in 0 .. MaxTime /\ price \in [Rwas -> Prices] /\ sunk \in Nat
            /\ paused \in BOOLEAN /\ events \in 0 .. MaxEvents
            /\ config \in [fee : 0 .. MAX_FEE, vest : Nat, queue : {QUEUE, None}]
            /\ DOMAIN pending = Kinds
        BY <2>1 DEF GovOK, WorldOK
      <3>2. \A r \in Rwas : terms[r] = None \/ terms[r] \in Terms
        <4>1. terms \in [Rwas -> Terms \cup {None}]
          BY <2>1 DEF GovOK
        <4>2. QED
          BY <4>1
      <3>3. \A r \in Rwas : red[r] = None \/ red[r] \in [amount : Nat, carried : Nat]
        <4>1. red \in [Rwas -> Reds \cup {None}]
          BY <2>1 DEF AssetsOK
        <4>2. QED
          BY <4>1 DEF Reds
      <3>4. /\ share \in Ledgers(Holders) /\ vault \in [Tokens -> Vaults]
            /\ lock \in [locked : Nat, last : Nat, end : Nat]
        BY <2>1 DEF LedgerOK, AssetsOK, Locks
      <3>5. /\ (\A id \in DOMAIN line : line[id] = None \/ line[id] \in Positions)
            /\ head \in 0 .. Len(line)
        BY <2>1, <2>2, LineFacts DEF LineOK
      <3>6. QED
        BY <3>1, <3>2, <3>3, <3>4, <3>5 DEF TypeOK
    <2>4. share.bal[QUEUE] >= SumOver([id \in Waiting |-> line[id].shares], Waiting)
      BY <2>1, <2>2, HeldWaiting DEF LineOK
    <2>5. \A id \in Waiting : id > head
      BY <2>1 DEF LineOK, Waiting
    <2>6. QED
      BY <2>3, <2>4, <2>5 DEF QueueBacked
  <1>2. QED
    BY <1>1, QueueInvariant, PTL

(* What max_withdraw promises a holder, withdraw gives at once: no pause,  *)
(* allowlist, change of terms or fee that is due locks anyone in.          *)
THEOREM ExitsStayOpen == QueueSpec => []ExitsOpen
  <1>1. QueueInv => ExitsOpen
    <2> SUFFICES ASSUME QueueInv, CanSnap, NEW h \in Lps,
                        MaxWithdrawAt(Snap, h) > 0
                 PROVE  CanWithdraw(Snap, h, MaxWithdrawAt(Snap, h))
      BY Zenon DEF ExitsOpen
    <2> DEFINE s == Snap
               most == MaxWithdrawAt(s, h)
               worth == ToAssets(s, share.bal[h])
               b == vault[Base]
               t == AccruedAt(s)
    <2>1. GovOK /\ WorldOK /\ AssetsOK /\ LedgerOK(share)
      BY DEF QueueInv
    <2>2. /\ s.nav \in Int /\ s.supply \in Nat /\ LedgerOK(t)
          /\ \A x \in Lps \cup {QUEUE} : t.bal[x] = share.bal[x]
      BY <2>1, SnapFacts
    <2>3. VaultOK(b)
      BY <2>1, BaseFacts
    <2>4. share.bal[h] \in Nat /\ t.bal[h] = share.bal[h] /\ t.frozen = {}
      <3>1. share.bal[h] \in Nat
        BY <2>1, LedgerTypes DEF LedgerOK, Holders
      <3>2. QED
        BY <2>2, <3>1 DEF LedgerOK
    <2> DEFINE free == Free(share, b, s, h)
    <2>5. most = Lesser(worth, free)
      BY DEF MaxWithdrawAt
    <2>6. Free(t, b, s, h) = free
      <3>1. config.queue \in {QUEUE, None}
        BY <2>1 DEF GovOK
      <3>2. config.queue # None => t.bal[config.queue] = share.bal[config.queue]
        BY <2>2, <3>1
      <3> HIDE DEF s, t, b
      <3>3. QED
        BY <3>2 DEF Free
    <2> HIDE DEF s, t, b
    <2>7. worth \in Int /\ (worth > 0 => s.nav \in Nat)
      BY <2>2, <2>4, ToAssetsFacts
    <2>8. free \in Int /\ free <= Payable(b) /\ Payable(b) \in Nat
      <3>1. Payable(b) \in Nat
        BY <2>3, VaultFacts
      <3>2. CASE config.queue # None /\ h # config.queue
        <4> DEFINE u == ToAssetsUp(s, share.bal[config.queue])
        <4>1. config.queue = QUEUE /\ share.bal[QUEUE] \in Nat
          BY <2>1, <3>2, LedgerTypes DEF GovOK, LedgerOK, Holders
        <4>2. free = Floored(Payable(b) - u)
          BY <3>2 DEF Free
        <4>3. u = MulDivCeil(share.bal[QUEUE], s.nav + 1, s.supply + VIRTUAL)
          BY <4>1 DEF ToAssetsUp
        <4>4. s.nav + 1 \in Nat /\ s.supply + VIRTUAL \in Nat \ {0}
          <5>1. s.nav = Gross /\ Gross + 1 >= 0
            BY <2>1, SnapFacts DEF CanSnap, CanPrice, s
          <5>2. QED
            BY <2>2, <5>1, SharesAssumption
        <4>5. u \in Nat
          BY <4>1, <4>3, <4>4, MulDivCeilAbove
        <4> HIDE DEF u
        <4>6. QED
          BY <3>1, <4>2, <4>5 DEF Floored
      <3>3. CASE ~(config.queue # None /\ h # config.queue)
        BY <3>1, <3>3 DEF Free
      <3>4. QED
        BY <3>2, <3>3
    <2> HIDE DEF worth, free
    <2>9. /\ most \in Nat /\ most > 0 /\ most <= worth /\ most <= free
          /\ most <= Payable(b)
      <3>1. Lesser(worth, free) > 0
        BY <2>5 DEF s
      <3>2. QED
        BY <2>5, <2>7, <2>8, <3>1 DEF Lesser
    <2>10. s.nav \in Nat
      BY <2>7, <2>9
    <2> HIDE DEF most
    <2> DEFINE burned == ToSharesUp(s, most)
    <2>11. burned \in Nat /\ burned <= share.bal[h] /\ burned > 0
      BY <2>2, <2>4, <2>9, <2>10, WorthCosts DEF worth
    <2> HIDE DEF burned
    <2>12. CanPull(b, most)
      BY <2>3, <2>9, PayableCanBePulled
    <2>13. CanExit(t, b, s, h, burned, most)
      BY <2>4, <2>6, <2>9, <2>11, <2>12 DEF CanExit, CanDebit
    <2>14. CanConvert(s)
      BY <2>10 DEF CanConvert
    <2>15. QED
      BY <2>13, <2>14 DEF CanWithdraw, most, s, t, b, burned
  <1>2. QED
    BY <1>1, QueueInvariant, PTL

(* Nobody is served before those ahead of them: process (contracts/queue)  *)
(* redeems a part of a position only once every earlier one is gone, and   *)
(* nothing else both pays out and changes the line.                        *)
THEOREM NobodyOvertakes == QueueSpec => FirstComeFirstServed
  <1> DEFINE A == line' # line /\ vault' # vault =>
                    \A i, j \in Waiting :
                       i < j /\ line'[j] # line[j] => line'[i] = None
  <1>1. QueueInv /\ [QueueNext]_allVars => [A]_allVars
    <2> SUFFICES ASSUME QueueInv, QueueNext PROVE A
      OBVIOUS
    <2>1. ASSUME NEW o \in Lps, NEW n \in Lots, Request(o, o, n)
          PROVE  A
      BY <2>1 DEF Request
    <2>2. ASSUME NEW max \in 1 .. MaxServed, Process(max)
          PROVE  A
      <3>1. max \in Nat
        OBVIOUS
      <3>2. \A i, j \in DOMAIN line :
               i < j /\ line'[j] # line[j] => line'[i] = None
        BY <2>2, <3>1, ProcessStep
      <3>3. Waiting \subseteq DOMAIN line
        BY DEF Waiting
      <3>4. QED
        BY <3>2, <3>3
    <2>3. ASSUME NEW id \in DOMAIN line, Cancel(id)
          PROVE  A
      BY <2>3 DEF Cancel
    <2>4. CASE Next /\ UNCHANGED queueVars
      BY <2>4 DEF queueVars
    <2> HIDE DEF A
    <2>5. QED
      BY <2>1, <2>2, <2>3, <2>4, Zenon DEF QueueNext, QueueStep
  <1>2. FirstComeFirstServed <=> [][A]_allVars
    BY DEF FirstComeFirstServed
  <1> HIDE DEF A
  <1>3. QED
    BY <1>1, <1>2, QueueInvInit, QueueInvStep, PTL DEF QueueSpec
=============================================================================
