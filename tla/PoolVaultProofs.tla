--------------------------- MODULE PoolVaultProofs --------------------------
(***************************************************************************)
(* Why the vault's shares and positions are all accounted for, why no call *)
(* costs the holders anything and why max_withdraw keeps its word: for     *)
(* every set of holders and adapters and every amount.                     *)
(***************************************************************************)
EXTENDS PoolVault, ArithmeticTheorems, SequenceTheorems

-----------------------------------------------------------------------------
(* The share ledger                                                        *)

(* Every share of a ledger is some holder's.                               *)
LedgerOK(t) == t \in Ledgers(Holders) /\ t.supply = SumOver(t.bal, Holders)

(* The parts of a ledger.                                                  *)
LEMMA LedgerTypes ==
    ASSUME NEW t \in Ledgers(Holders)
    PROVE  /\ t.bal \in [Holders -> Nat] /\ t.supply \in Nat /\ t.hwm \in Nat
           /\ t.allowlist \in BOOLEAN
           /\ t.member \in SUBSET Holders /\ t.frozen \in SUBSET Holders
  BY DEF Ledgers

(* A ledger with new balances and supply.                                  *)
With(t, b, s) == [t EXCEPT !.bal = b, !.supply = s]

(* Minting credits the receiver and the supply alike.                      *)
LEMMA MintOK ==
    ASSUME NEW t, LedgerOK(t), NEW to \in Holders, NEW n \in Nat
    PROVE  /\ LedgerOK(Mint(t, to, n))
           /\ Mint(t, to, n).supply = t.supply + n
           /\ \A h \in Holders : t.bal[h] <= Mint(t, to, n).bal[h]
           /\ Mint(t, to, n).hwm = t.hwm /\ Mint(t, to, n).frozen = t.frozen
  <1> DEFINE b == [t.bal EXCEPT ![to] = t.bal[to] + n]
             s == t.supply + n
  <1>1. /\ t \in Ledgers(Holders) /\ t.supply = SumOver(t.bal, Holders)
        /\ t.bal \in [Holders -> Nat] /\ t.supply \in Nat
    BY LedgerTypes DEF LedgerOK
  <1>2. t.bal[to] \in Nat
    BY <1>1
  <1>3. b \in [Holders -> Nat] /\ s \in Nat /\ b[to] = t.bal[to] + n
    BY <1>1, <1>2
  <1>4. Mint(t, to, n) = With(t, b, s)
    BY <1>1 DEF With, Mint, Ledgers
  <1>5. \A h \in Holders \ {to} : b[h] = t.bal[h]
    BY <1>1
  <1> HIDE DEF b, s
  <1>6. SumOver(b, Holders) = SumOver(t.bal, Holders) + (b[to] - t.bal[to])
    <2>1. IsFiniteSet(Holders)
      BY PoolVaultAssumption
    <2>2. \A h \in Holders : t.bal[h] \in Int /\ b[h] \in Int
      BY <1>1, <1>3
    <2>3. QED
      BY <1>5, <2>1, <2>2, SumChange
  <1>7. SumOver(b, Holders) = s
    BY <1>1, <1>2, <1>3, <1>6 DEF s
  <1> DEFINE m == Mint(t, to, n)
  <1>8. /\ m \in Ledgers(Holders) /\ m.bal = b /\ m.supply = s
        /\ m.hwm = t.hwm /\ m.frozen = t.frozen
    <2> DEFINE w == With(t, b, s)
    <2>1. /\ w \in Ledgers(Holders) /\ w.bal = b /\ w.supply = s
          /\ w.hwm = t.hwm /\ w.frozen = t.frozen
      BY <1>1, <1>3 DEF With, Ledgers
    <2>2. QED
      BY <1>4, <2>1, Zenon
  <1> HIDE DEF m
  <1>9. LedgerOK(m)
    BY <1>7, <1>8 DEF LedgerOK
  <1>10. \A h \in Holders : t.bal[h] <= m.bal[h]
    <2>1. TAKE h \in Holders
    <2>2. CASE h = to
      BY <1>2, <1>3, <1>8, <2>2
    <2>3. CASE h # to
      BY <1>1, <1>5, <1>8, <2>3
    <2>4. QED
      BY <2>2, <2>3
  <1>11. QED
    BY <1>8, <1>9, <1>10, Zenon DEF m, s

(* Burning what the holder has debits it and the supply alike.             *)
LEMMA BurnOK ==
    ASSUME NEW t, LedgerOK(t), NEW from \in Holders, NEW n \in Nat,
           n <= t.bal[from]
    PROVE  /\ LedgerOK(Burn(t, from, n))
           /\ Burn(t, from, n).supply = t.supply - n /\ t.supply - n \in Nat
           /\ Burn(t, from, n).hwm = t.hwm
  <1> DEFINE b == [t.bal EXCEPT ![from] = t.bal[from] - n]
             s == t.supply - n
  <1>1. /\ t \in Ledgers(Holders) /\ t.supply = SumOver(t.bal, Holders)
        /\ t.bal \in [Holders -> Nat] /\ t.supply \in Nat
    BY LedgerTypes DEF LedgerOK
  <1>2. t.bal[from] \in Nat
    BY <1>1
  <1>3. IsFiniteSet(Holders)
    BY PoolVaultAssumption
  <1>4. t.bal[from] <= t.supply
    BY <1>1, <1>3, SumNat
  <1>5. b \in [Holders -> Nat] /\ s \in Nat /\ b[from] = t.bal[from] - n
    BY <1>1, <1>2, <1>4
  <1>6. Burn(t, from, n) = With(t, b, s)
    BY <1>1 DEF With, Burn, Ledgers
  <1>7. \A h \in Holders \ {from} : b[h] = t.bal[h]
    BY <1>1
  <1> HIDE DEF b, s
  <1>8. SumOver(b, Holders) = SumOver(t.bal, Holders) + (b[from] - t.bal[from])
    <2>1. \A h \in Holders : t.bal[h] \in Int /\ b[h] \in Int
      BY <1>1, <1>5
    <2>2. QED
      BY <1>3, <1>7, <2>1, SumChange
  <1>9. SumOver(b, Holders) = s
    BY <1>1, <1>2, <1>5, <1>8 DEF s
  <1> DEFINE m == Burn(t, from, n)
  <1>10. m \in Ledgers(Holders) /\ m.bal = b /\ m.supply = s /\ m.hwm = t.hwm
    <2> DEFINE w == With(t, b, s)
    <2>1. w \in Ledgers(Holders) /\ w.bal = b /\ w.supply = s /\ w.hwm = t.hwm
      BY <1>1, <1>5 DEF With, Ledgers
    <2>2. QED
      BY <1>6, <2>1, Zenon
  <1> HIDE DEF m
  <1>11. LedgerOK(m)
    BY <1>9, <1>10 DEF LedgerOK
  <1>12. QED
    BY <1>5, <1>10, <1>11, Zenon DEF m, s

(* A transfer or a seizure, to another or to oneself, moves what the       *)
(* holder has and creates nothing.                                         *)
LEMMA MovedOK ==
    ASSUME NEW t, LedgerOK(t), NEW from \in Holders, NEW to \in Holders,
           NEW n \in Nat, n <= t.bal[from]
    PROVE  /\ LedgerOK(Moved(t, from, to, n))
           /\ Moved(t, from, to, n).supply = t.supply
           /\ Moved(t, from, to, n).hwm = t.hwm
  <1> DEFINE c == [t.bal EXCEPT ![from] = t.bal[from] - n]
             b == [c EXCEPT ![to] = c[to] + n]
             s == t.supply
  <1>1. /\ t \in Ledgers(Holders) /\ t.supply = SumOver(t.bal, Holders)
        /\ t.bal \in [Holders -> Nat] /\ t.supply \in Nat
    BY LedgerTypes DEF LedgerOK
  <1>2. t.bal[from] \in Nat /\ IsFiniteSet(Holders)
    BY <1>1, PoolVaultAssumption
  <1>3. /\ c \in [Holders -> Nat] /\ c[from] = t.bal[from] - n
        /\ \A h \in Holders \ {from} : c[h] = t.bal[h]
    BY <1>1, <1>2
  <1>4. Moved(t, from, to, n) = With(t, b, s)
    BY <1>1 DEF With, Moved, Ledgers
  <1> HIDE DEF c
  <1>5. c[to] \in Nat
    BY <1>3
  <1>6. /\ b \in [Holders -> Nat] /\ b[to] = c[to] + n
        /\ \A h \in Holders \ {to} : b[h] = c[h]
    BY <1>3, <1>5
  <1> HIDE DEF b
  <1>7. SumOver(c, Holders) = SumOver(t.bal, Holders) + (c[from] - t.bal[from])
    <2>1. \A h \in Holders : t.bal[h] \in Int /\ c[h] \in Int
      BY <1>1, <1>3
    <2>2. QED
      BY <1>2, <1>3, <2>1, SumChange
  <1>8. SumOver(b, Holders) = SumOver(c, Holders) + (b[to] - c[to])
    <2>1. \A h \in Holders : c[h] \in Int /\ b[h] \in Int
      BY <1>3, <1>6
    <2>2. QED
      BY <1>2, <1>6, <2>1, SumChange
  <1>9. SumOver(b, Holders) = s
    BY <1>1, <1>2, <1>3, <1>5, <1>6, <1>7, <1>8
  <1> DEFINE m == Moved(t, from, to, n)
  <1>10. m \in Ledgers(Holders) /\ m.bal = b /\ m.supply = s /\ m.hwm = t.hwm
    <2> DEFINE w == With(t, b, s)
    <2>1. w \in Ledgers(Holders) /\ w.bal = b /\ w.supply = s /\ w.hwm = t.hwm
      BY <1>1, <1>6 DEF With, Ledgers
    <2>2. QED
      BY <1>4, <2>1, Zenon
  <1> HIDE DEF m
  <1>11. LedgerOK(m)
    BY <1>9, <1>10 DEF LedgerOK
  <1>12. QED
    BY <1>10, <1>11, Zenon DEF m

(* Before the first deposit nobody has anything.                           *)
LEMMA EmptyOK == LedgerOK(EmptyLedger(Holders))
  <1> DEFINE t == EmptyLedger(Holders)
             z == [h \in Holders |-> 0]
             p == SharePrice(0, 0)
  <1>1. p \in Nat
    BY SharesAssumption, MulDivBelow DEF SharePrice
  <1> HIDE DEF p
  <1>2. t \in Ledgers(Holders) /\ t.bal = z /\ t.supply = 0
    BY <1>1 DEF EmptyLedger, Ledgers, p
  <1>3. SumOver(z, Holders) = 0
    <2>1. IsFiniteSet(Holders) /\ \A h \in Holders : z[h] = 0
      BY PoolVaultAssumption
    <2> HIDE DEF z
    <2>2. QED
      BY <2>1, SumZero
  <1>4. QED
    BY <1>2, <1>3 DEF LedgerOK

-----------------------------------------------------------------------------
(* The performance fee                                                     *)

(* A price is an amount.                                                   *)
LEMMA PriceNat ==
    ASSUME NEW n \in Nat, NEW s \in Nat
    PROVE  SharePrice(n, s) \in Nat
  <1>1. n + 1 \in Nat /\ s + VIRTUAL \in Nat \ {0} /\ ONE \in Nat
    BY SharesAssumption
  <1>2. QED
    BY <1>1, MulDivBelow DEF SharePrice

(* The price falls with neither more behind the shares nor fewer of them.  *)
LEMMA PriceOrder ==
    ASSUME NEW n \in Nat, NEW s \in Nat, NEW m \in Nat, NEW t \in Nat,
           (n + 1) * (t + VIRTUAL) <= (m + 1) * (s + VIRTUAL)
    PROVE  SharePrice(n, s) <= SharePrice(m, t)
  <1> DEFINE a == n + 1
             b == s + VIRTUAL
             c == m + 1
             d == t + VIRTUAL
  <1>1. /\ a \in Nat /\ b \in Nat \ {0} /\ c \in Nat /\ d \in Nat \ {0}
        /\ ONE \in Nat /\ a * d <= c * b
    BY SharesAssumption
  <1>2. SharePrice(n, s) = MulDiv(a, ONE, b) /\ SharePrice(m, t) = MulDiv(c, ONE, d)
    BY DEF SharePrice
  <1> HIDE DEF a, b, c, d
  <1>3. MulDiv(a, ONE, b) <= MulDiv(c, ONE, d)
    BY <1>1, RatioOrder
  <1>4. QED
    BY <1>2, <1>3

(* No fee is due at or below the mark, and the one that is due leaves the  *)
(* price at the mark or above it.                                          *)
LEMMA FeeFacts ==
    ASSUME NEW t \in Ledgers(Holders), NEW nav \in Nat, NEW fee_bps \in 0 .. BPS
    PROVE  /\ FeeShares(t, nav, fee_bps) \in Nat
           /\ SharePrice(nav, t.supply) <= t.hwm => FeeShares(t, nav, fee_bps) = 0
           /\ SharePrice(nav, t.supply) > t.hwm =>
                 t.hwm <= SharePrice(nav, t.supply + FeeShares(t, nav, fee_bps))
  <1> DEFINE n == nav + 1
             s == t.supply + VIRTUAL
             h == t.hwm
             p == SharePrice(nav, t.supply)
             g == MulDiv(p - h, s, ONE)
             f == MulDiv(g, fee_bps, BPS)
             m == MulDiv(f, s, nav + 1 - f)
             due == p > h /\ t.supply > 0 /\ f > 0 /\ f <= nav
  <1>1. t.supply \in Nat /\ h \in Nat
    BY LedgerTypes
  <1>2. /\ n \in Nat \ {0} /\ s \in Nat \ {0} /\ ONE \in Nat \ {0}
        /\ BPS \in Nat \ {0} /\ fee_bps \in Nat /\ fee_bps <= BPS
    BY <1>1, SharesAssumption
  <1>3. p \in Nat /\ p * s <= n * ONE
    BY <1>1, <1>2, MulDivBelow DEF SharePrice
  <1>4. FeeShares(t, nav, fee_bps) = IF due THEN m ELSE 0
    BY Zenon DEF FeeShares
  <1>5. CASE ~due
    <2>1. FeeShares(t, nav, fee_bps) = 0
      BY <1>4, <1>5
    <2>2. t.supply + 0 = t.supply
      BY <1>1
    <2>3. p > h => h <= p
      BY <1>1, <1>3
    <2>4. QED
      BY <2>1, <2>2, <2>3
  <1>6. CASE due
    <2>1. p - h \in Nat /\ h <= p
      BY <1>1, <1>3, <1>6
    <2>2. g \in Nat /\ g * ONE <= (p - h) * s
      BY <1>2, <2>1, MulDivBelow
    <2>3. f \in Nat /\ f <= g
      <3> HIDE DEF g
      <3>1. QED
        BY <1>2, <2>2, MulDivPart
    <2>4. f < n /\ n - f \in Nat \ {0}
      BY <1>2, <1>6, <2>3
    <2>5. m \in Nat /\ m * (n - f) <= f * s
      <3>1. nav + 1 - f = n - f
        <4> HIDE DEF f
        <4>1. QED
          BY <2>3
      <3>2. m = MulDiv(f, s, n - f)
        BY <3>1, Zenon
      <3> HIDE DEF f, n, s, m
      <3>3. QED
        BY <1>2, <2>3, <2>4, <3>2, MulDivBelow
    <2> HIDE DEF n, s, h, p, g, f, m
    <2>6. h * (s + m) <= n * ONE
      BY <1>1, <1>2, <1>3, <2>1, <2>2, <2>3, <2>4, <2>5, FeeKeepsMark
    <2>7. s + m \in Nat \ {0}
      BY <1>2, <2>5
    <2>8. h <= MulDiv(n, ONE, s + m)
      BY <1>1, <1>2, <2>6, <2>7, MulDivAtLeast
    <2>9. FeeShares(t, nav, fee_bps) = m
      BY <1>4, <1>6
    <2>10. (t.supply + m) + VIRTUAL = s + m
      BY <1>1, <2>5, SharesAssumption DEF s
    <2>11. SharePrice(nav, t.supply + m) = MulDiv(n, ONE, s + m)
      BY <2>10 DEF SharePrice, n
    <2>12. ~(p <= h)
      BY <1>1, <1>3, <1>6
    <2>13. QED
      BY <2>5, <2>8, <2>9, <2>11, <2>12 DEF p, h
  <1>7. QED
    BY <1>5, <1>6

(* A snapshot counts the fee as minted: the mark it would leave is neither *)
(* below the old one nor below the price.                                  *)
LEMMA SnapshotFacts ==
    ASSUME NEW t \in Ledgers(Holders), NEW nav \in Nat, NEW fee_bps \in 0 .. BPS,
           NEW s, s = Snapshot(t, nav, fee_bps)
    PROVE  /\ s.nav = nav /\ s.fee_shares \in Nat
           /\ s.supply = t.supply + s.fee_shares /\ s.supply \in Nat
           /\ s.hwm \in Nat /\ t.hwm <= s.hwm
           /\ SharePrice(nav, s.supply) \in Nat
           /\ SharePrice(nav, s.supply) <= s.hwm
           /\ SharePrice(nav, t.supply) <= t.hwm \/ t.hwm <= SharePrice(nav, s.supply)
           /\ SharePrice(nav, t.supply) <= t.hwm => s.supply = t.supply
  <1> DEFINE m == FeeShares(t, nav, fee_bps)
             p == SharePrice(nav, t.supply)
             q == SharePrice(nav, t.supply + m)
  <1>1. t.supply \in Nat /\ t.hwm \in Nat
    BY LedgerTypes
  <1>2. /\ m \in Nat /\ (p <= t.hwm => m = 0) /\ (p > t.hwm => t.hwm <= q)
    BY FeeFacts
  <1>3. /\ s.nav = nav /\ s.fee_shares = m /\ s.supply = t.supply + m
        /\ s.hwm = IF p > t.hwm THEN q ELSE t.hwm
    BY DEF Snapshot, Mark
  <1> HIDE DEF m
  <1>4. t.supply + m \in Nat
    BY <1>1, <1>2
  <1>5. p \in Nat /\ q \in Nat
    BY <1>1, <1>4, PriceNat
  <1>6. q = SharePrice(nav, s.supply)
    BY <1>3
  <1>7. m = 0 => p = q /\ t.supply + m = t.supply
    BY <1>1
  <1> HIDE DEF p, q
  <1>8. QED
    BY <1>1, <1>2, <1>3, <1>4, <1>5, <1>6, <1>7 DEF p

(* Accruing mints the fee to the curator and moves the mark.               *)
LEMMA AccrueOK ==
    ASSUME NEW t, LedgerOK(t), NEW s, s.fee_shares \in Nat, s.hwm \in Nat
    PROVE  /\ LedgerOK(Accrue(t, s, Curator))
           /\ Accrue(t, s, Curator).supply = t.supply + s.fee_shares
           /\ Accrue(t, s, Curator).hwm = s.hwm
           /\ Accrue(t, s, Curator).frozen = t.frozen
           /\ \A h \in Holders : t.bal[h] <= Accrue(t, s, Curator).bal[h]
  <1> DEFINE m == Mint(t, Curator, s.fee_shares)
             a == Accrue(t, s, Curator)
  <1>1. Curator \in Holders
    BY PoolVaultAssumption
  <1>2. /\ LedgerOK(m) /\ m.supply = t.supply + s.fee_shares
        /\ \A h \in Holders : t.bal[h] <= m.bal[h]
        /\ m.frozen = t.frozen
    BY <1>1, MintOK
  <1>3. a = [m EXCEPT !.hwm = s.hwm]
    BY DEF Accrue
  <1> HIDE DEF m, a
  <1>4. /\ a \in Ledgers(Holders) /\ a.bal = m.bal /\ a.supply = m.supply
        /\ a.hwm = s.hwm /\ a.frozen = m.frozen
    BY <1>2, <1>3 DEF LedgerOK, Ledgers
  <1>5. LedgerOK(a)
    BY <1>2, <1>4 DEF LedgerOK
  <1>6. \A h \in Holders : t.bal[h] <= a.bal[h]
    BY <1>2, <1>4
  <1>7. QED
    BY <1>2, <1>4, <1>5, <1>6 DEF a

-----------------------------------------------------------------------------
(* The list of venues                                                      *)

(* A list of venues: adapters, none of them twice.                         *)
IsList(s) == s \in Seq(Adapters) /\ IsInjective(s)

(* Dropping an entry drops that adapter and no other.                      *)
LEMMA ListWithout ==
    ASSUME NEW s, IsList(s), NEW i \in DOMAIN s, NEW r, r = RemoveAt(s, i)
    PROVE  IsList(r) /\ ToSet(r) = ToSet(s) \ {s[i]}
  <1> DEFINE n == Len(s)
             a == SubSeq(s, 1, i - 1)
             b == SubSeq(s, i + 1, n)
  <1>1. s \in Seq(Adapters) /\ n \in Nat /\ DOMAIN s = 1 .. n /\ i \in 1 .. n
    BY DEF IsList
  <1>2. /\ a \in Seq(Adapters) /\ Len(a) = i - 1
        /\ \A j \in 1 .. i - 1 : a[j] = s[j]
    BY <1>1
  <1>3. /\ b \in Seq(Adapters) /\ Len(b) = n - i
        /\ \A j \in 1 .. n - i : b[j] = s[i + j]
    BY <1>1
  <1>4. r = a \o b
    BY DEF RemoveAt
  <1> HIDE DEF a, b, n
  <1> DEFINE at(j) == IF j < i THEN j ELSE j + 1
  <1>0. /\ r \in Seq(Adapters) /\ Len(r) = Len(a) + Len(b)
        /\ \A j \in 1 .. Len(a) + Len(b) :
              r[j] = IF j <= Len(a) THEN a[j] ELSE b[j - Len(a)]
    BY <1>2, <1>3, <1>4, ConcatProperties
  <1>5. r \in Seq(Adapters) /\ Len(r) = n - 1 /\ DOMAIN r = 1 .. n - 1
    BY <1>0, <1>1, <1>2, <1>3
  <1>6. \A j \in 1 .. n - 1 : r[j] = s[at(j)] /\ at(j) \in (1 .. n) \ {i}
    <2>1. TAKE j \in 1 .. n - 1
    <2>2. r[j] = IF j <= Len(a) THEN a[j] ELSE b[j - Len(a)]
      BY <1>0, <1>1, <1>2, <1>3, <2>1
    <2>3. CASE j < i
      BY <1>1, <1>2, <2>1, <2>2, <2>3
    <2>4. CASE j >= i
      <3>1. j - Len(a) \in 1 .. n - i /\ i + (j - Len(a)) = j + 1
        BY <1>1, <1>2, <2>1, <2>4
      <3>2. r[j] = s[j + 1]
        <4>1. ~(j <= Len(a))
          BY <1>1, <1>2, <2>1, <2>4
        <4>2. r[j] = b[j - Len(a)]
          BY <2>2, <4>1
        <4>3. b[j - Len(a)] = s[i + (j - Len(a))]
          BY <1>3, <3>1
        <4>4. QED
          BY <3>1, <4>2, <4>3
      <3>3. QED
        BY <1>1, <2>1, <2>4, <3>2
    <2>5. QED
      BY <1>1, <2>1, <2>3, <2>4
  <1>7. \A j, k \in 1 .. n - 1 : at(j) = at(k) => j = k
    BY <1>1
  <1>8. \A m \in (1 .. n) \ {i} : \E j \in 1 .. n - 1 : at(j) = m
    <2>1. TAKE m \in (1 .. n) \ {i}
    <2>2. CASE m < i
      <3>1. m \in 1 .. n - 1 /\ at(m) = m
        BY <1>1, <2>2
      <3>2. QED
        BY <3>1
    <2>3. CASE m > i
      <3>1. m - 1 \in 1 .. n - 1 /\ at(m - 1) = m
        BY <1>1, <2>3
      <3>2. QED
        BY <3>1
    <2>4. QED
      BY <1>1, <2>2, <2>3
  <1> HIDE DEF at
  <1>9. \A j, k \in 1 .. n : s[j] = s[k] => j = k
    BY <1>1 DEF IsList, IsInjective
  <1>10. IsInjective(r)
    BY <1>5, <1>6, <1>7, <1>9 DEF IsInjective
  <1>11. ToSet(r) \subseteq ToSet(s) \ {s[i]}
    BY <1>1, <1>5, <1>6, <1>9 DEF ToSet
  <1>12. ToSet(s) \ {s[i]} \subseteq ToSet(r)
    <2>1. SUFFICES ASSUME NEW x \in ToSet(s), x # s[i] PROVE x \in ToSet(r)
      OBVIOUS
    <2>2. PICK m \in 1 .. n : s[m] = x
      BY <1>1 DEF ToSet
    <2>3. m \in (1 .. n) \ {i}
      BY <2>1, <2>2
    <2>4. PICK j \in 1 .. n - 1 : at(j) = m
      BY <2>3, <1>8
    <2>5. r[j] = x
      BY <1>6, <2>2, <2>4
    <2>6. QED
      BY <1>5, <2>5 DEF ToSet
  <1>13. QED
    BY <1>5, <1>10, <1>11, <1>12 DEF IsList

(* Adding an adapter that is not listed adds it and no other.              *)
LEMMA ListWith ==
    ASSUME NEW s, IsList(s), NEW v \in Adapters, v \notin ToSet(s),
           NEW r, r = Append(s, v)
    PROVE  IsList(r) /\ ToSet(r) = ToSet(s) \cup {v}
  <1> DEFINE n == Len(s)
  <1>1. s \in Seq(Adapters) /\ n \in Nat /\ DOMAIN s = 1 .. n
    BY DEF IsList
  <1> HIDE DEF n
  <1>2. /\ r \in Seq(Adapters) /\ DOMAIN r = 1 .. n + 1 /\ r[n + 1] = v
        /\ \A j \in 1 .. n : r[j] = s[j]
    BY <1>1 DEF n
  <1>3. \A j \in 1 .. n : s[j] # v
    BY <1>1 DEF ToSet
  <1>4. IsInjective(r)
    BY <1>1, <1>2, <1>3 DEF IsList, IsInjective
  <1>5. ToSet(r) = ToSet(s) \cup {v}
    BY <1>1, <1>2 DEF ToSet
  <1>6. QED
    BY <1>2, <1>4, <1>5 DEF IsList

(* A list of as many adapters, all of them listed, lists the same.         *)
LEMMA ListReordered ==
    ASSUME NEW s, IsList(s), NEW r, r \in Seq(Adapters), IsInjective(r),
           Len(r) = Len(s), \A j \in DOMAIN r : r[j] \in ToSet(s)
    PROVE  IsList(r) /\ ToSet(r) = ToSet(s)
  <1> DEFINE n == Len(s)
             S == ToSet(s)
  <1>1. n \in Nat /\ DOMAIN s = 1 .. n /\ DOMAIN r = 1 .. n /\ s \in Seq(Adapters)
    BY DEF IsList
  <1>2. IsFiniteSet(1 .. n) /\ Cardinality(1 .. n) = n
    <2>1. 1 \in Int /\ n \in Int
      BY <1>1
    <2>2. IsFiniteSet(1 .. n) /\ Cardinality(1 .. n) = IF 1 > n THEN 0 ELSE n - 1 + 1
      BY <2>1, FS_Interval
    <2>3. QED
      BY <1>1, <2>2
  <1>3. s \in Surjection(1 .. n, S) /\ s \in Injection(1 .. n, S)
    <2>1. s \in [1 .. n -> S]
      BY <1>1 DEF ToSet
    <2>2. QED
      BY <1>1, <2>1 DEF IsList, ToSet, Surjection, Injection
  <1>4. r \in Injection(1 .. n, S)
    <2>1. r \in [1 .. n -> S]
      BY <1>1
    <2>2. QED
      BY <2>1 DEF Injection
  <1> HIDE DEF n, S
  <1>5. IsFiniteSet(S) /\ Cardinality(S) = n
    BY <1>2, <1>3, FS_Surjection
  <1>6. r \in Surjection(1 .. n, S)
    BY <1>2, <1>4, <1>5, FS_Injection
  <1>7. ToSet(r) = S
    BY <1>1, <1>6 DEF Surjection, ToSet
  <1>8. QED
    BY <1>7 DEF IsList, S

-----------------------------------------------------------------------------
(* The inductive invariant, in the parts a step may disturb                *)

(* What is queued is what its acceptance will write.                       *)
GovOK ==
    /\ config \in [fee : 0 .. MAX_FEE, cap : Nat]
    /\ DOMAIN pending = Kinds
    /\ rules \in 0 .. MaxRules
    /\ pending["Fee"] \in (0 .. MAX_FEE) \cup {None}
    /\ pending["Cap"] \in Int \cup {None}
    /\ pending["Venue"] \in Adapters \cup {None}

(* An adapter outside the list holds nothing.                              *)
AssetsOK ==
    /\ idle \in Nat
    /\ IsList(venues)
    /\ pos \in [Adapters -> Nat] /\ liquid \in [Adapters -> Nat]
    /\ \A v \in Adapters : liquid[v] <= pos[v]
    /\ \A v \in Adapters \ ToSet(venues) : pos[v] = 0

PoolInv == GovOK /\ LedgerOK(share) /\ AssetsOK

(* A part that a step leaves alone holds after it.                         *)
LEMMA PartsKept ==
    /\ GovOK /\ UNCHANGED govVars => GovOK'
    /\ LedgerOK(share) /\ UNCHANGED share => LedgerOK(share)'
    /\ AssetsOK /\ UNCHANGED <<idle, venues, pos, liquid>> => AssetsOK'
  BY DEF GovOK, govVars, AssetsOK, IsList, IsInjective, ToSet, LedgerOK

(* The venues are a finite set of adapters.                                *)
LEMMA VenueSet ==
    ASSUME AssetsOK
    PROVE  /\ ToSet(venues) \subseteq Adapters /\ IsFiniteSet(ToSet(venues))
           /\ IsFiniteSet(Adapters)
  <1>1. ToSet(venues) \subseteq Adapters
    BY DEF AssetsOK, IsList, ToSet
  <1>2. IsFiniteSet(Adapters)
    BY PoolVaultAssumption
  <1>3. QED
    BY <1>1, <1>2, FS_Subset

(* Where nothing is held outside a set, the sum over it is the sum over    *)
(* all adapters.                                                           *)
LEMMA Positions ==
    ASSUME NEW p \in [Adapters -> Nat], NEW S \in SUBSET Adapters,
           \A v \in Adapters \ S : p[v] = 0
    PROVE  /\ SumOver(p, S) = SumOver(p, Adapters)
           /\ SumOver(p, Adapters) \in Nat
  <1>1. IsFiniteSet(Adapters)
    BY PoolVaultAssumption
  <1>2. \A v \in Adapters : p[v] \in Nat /\ p[v] \in Int
    OBVIOUS
  <1>3. QED
    BY <1>1, <1>2, SumSupport, SumNat

(* One position moved moves their sum by as much.                          *)
LEMMA PositionMoved ==
    ASSUME NEW p \in [Adapters -> Nat], NEW q \in [Adapters -> Nat],
           NEW v \in Adapters, \A u \in Adapters \ {v} : q[u] = p[u]
    PROVE  SumOver(q, Adapters) = SumOver(p, Adapters) + (q[v] - p[v])
  <1>1. IsFiniteSet(Adapters)
    BY PoolVaultAssumption
  <1>2. \A u \in Adapters : p[u] \in Int /\ q[u] \in Int
    OBVIOUS
  <1>3. QED
    BY <1>1, <1>2, SumChange

(* What the vault is worth counts every position.                          *)
LEMMA GrossFacts ==
    ASSUME AssetsOK
    PROVE  /\ Gross = idle + SumOver(pos, Adapters)
           /\ SumOver(pos, Adapters) \in Nat /\ Gross \in Nat
  <1>1. ToSet(venues) \in SUBSET Adapters
    BY VenueSet
  <1>2. /\ idle \in Nat /\ pos \in [Adapters -> Nat]
        /\ \A v \in Adapters \ ToSet(venues) : pos[v] = 0
    BY DEF AssetsOK
  <1>3. QED
    BY <1>1, <1>2, Positions DEF Gross

(* The same of the state a step leads to.                                  *)
LEMMA GrossFactsNext ==
    ASSUME AssetsOK'
    PROVE  /\ Gross' = idle' + SumOver(pos', Adapters)
           /\ SumOver(pos', Adapters) \in Nat /\ Gross' \in Nat
  <1>1. ToSet(venues') \in SUBSET Adapters
    BY DEF AssetsOK, IsList, ToSet
  <1>2. /\ idle' \in Nat /\ pos' \in [Adapters -> Nat]
        /\ \A v \in Adapters \ ToSet(venues') : pos'[v] = 0
    BY DEF AssetsOK, ToSet
  <1>3. Gross' = idle' + SumOver(pos', ToSet(venues'))
    BY DEF Gross, ToSet
  <1>4. QED
    BY <1>1, <1>2, <1>3, Positions

(* What every call computes first: the snapshot and the accrued ledger.    *)
LEMMA SnapFacts ==
    ASSUME PoolInv
    PROVE  /\ Snap.nav = Gross /\ Gross \in Nat
           /\ Snap.supply \in Nat /\ Snap.fee_shares \in Nat
           /\ Snap.supply = share.supply + Snap.fee_shares
           /\ Snap.hwm \in Nat /\ share.hwm <= Snap.hwm
           /\ Price \in Nat /\ Price <= Snap.hwm
           /\ SharePrice(Gross, share.supply) <= share.hwm \/ share.hwm <= Price
           /\ SharePrice(Gross, share.supply) <= share.hwm =>
                 Snap.supply = share.supply
  <1>1. share \in Ledgers(Holders) /\ Gross \in Nat
    BY GrossFacts DEF PoolInv, LedgerOK
  <1>2. config.fee \in 0 .. BPS
    BY PoolVaultAssumption, SharesAssumption DEF PoolInv, GovOK
  <1> DEFINE s == Snap
  <1>3. s = Snapshot(share, Gross, config.fee)
    BY DEF Snap
  <1>4. Price = SharePrice(Gross, s.supply)
    BY DEF Price
  <1> HIDE DEF s
  <1>5. /\ s.nav = Gross /\ s.fee_shares \in Nat
        /\ s.supply = share.supply + s.fee_shares /\ s.supply \in Nat
        /\ s.hwm \in Nat /\ share.hwm <= s.hwm
        /\ SharePrice(Gross, s.supply) \in Nat
        /\ SharePrice(Gross, s.supply) <= s.hwm
        /\ \/ SharePrice(Gross, share.supply) <= share.hwm
           \/ share.hwm <= SharePrice(Gross, s.supply)
        /\ SharePrice(Gross, share.supply) <= share.hwm => s.supply = share.supply
    BY <1>1, <1>2, <1>3, SnapshotFacts
  <1>6. QED
    BY <1>1, <1>4, <1>5, Zenon DEF s

(* The accrued ledger is sound, and its mark is no lower than the price.   *)
LEMMA AccruedFacts ==
    ASSUME PoolInv
    PROVE  /\ LedgerOK(Accrued) /\ Accrued.supply = Snap.supply
           /\ Accrued.hwm = Snap.hwm /\ Accrued.frozen = share.frozen
           /\ \A h \in Holders : share.bal[h] <= Accrued.bal[h]
  <1>1. /\ LedgerOK(share) /\ Snap.fee_shares \in Nat /\ Snap.hwm \in Nat
        /\ Snap.supply = share.supply + Snap.fee_shares
    BY SnapFacts DEF PoolInv
  <1>2. QED
    BY <1>1, AccrueOK DEF Accrued

-----------------------------------------------------------------------------
(* What an exit draws from the venues                                      *)

(* A venue is drawn on for what it can return at once, and no more.        *)
LEMMA DrawnFacts ==
    ASSUME AssetsOK, NEW a \in Nat, NEW i \in DOMAIN venues
    PROVE  /\ Short(a, i) \in Int /\ liquid[venues[i]] \in Nat
           /\ Drawn(a, i) \in Nat /\ Drawn(a, i) <= liquid[venues[i]]
  <1> DEFINE n == Len(venues)
             g == [j \in DOMAIN venues |-> liquid[venues[j]]]
  <1>1. /\ n \in Nat /\ DOMAIN venues = 1 .. n /\ idle \in Nat
        /\ \A j \in 1 .. n : venues[j] \in Adapters
        /\ liquid \in [Adapters -> Nat]
    BY DEF AssetsOK, IsList
  <1> HIDE DEF n
  <1>2. i \in 1 .. n /\ \A j \in 1 .. i - 1 : j \in 1 .. n
    BY <1>1
  <1>3. \A j \in 1 .. i - 1 : g[j] \in Int
    BY <1>1, <1>2
  <1>4. IsFiniteSet(1 .. i - 1)
    <2>1. 1 \in Int /\ i - 1 \in Int
      BY <1>1, <1>2
    <2>2. QED
      BY <2>1, FS_Interval
  <1>5. Short(a, i) = a - idle - SumOver(g, 1 .. i - 1)
    BY DEF Short
  <1> HIDE DEF g
  <1>6. SumOver(g, 1 .. i - 1) \in Int
    BY <1>3, <1>4, SumInt
  <1>7. Short(a, i) \in Int
    BY <1>1, <1>5, <1>6
  <1>8. liquid[venues[i]] \in Nat
    BY <1>1, <1>2
  <1>9. QED
    BY <1>7, <1>8 DEF Drawn, Floored, Lesser

(* Only listed venues are drawn on, each once.                             *)
LEMMA TakesFacts ==
    ASSUME AssetsOK, NEW a \in Nat
    PROVE  /\ Takes(a) \in [Adapters -> Nat]
           /\ \A v \in Adapters : Takes(a)[v] <= liquid[v]
           /\ \A v \in Adapters \ ToSet(venues) : Takes(a)[v] = 0
           /\ \A i \in DOMAIN venues : Takes(a)[venues[i]] = Drawn(a, i)
  <1> DEFINE at(v) == CHOOSE i \in DOMAIN venues : venues[i] = v
  <1>1. \A v \in ToSet(venues) : at(v) \in DOMAIN venues /\ venues[at(v)] = v
    BY DEF ToSet
  <1>2. \A v \in ToSet(venues) :
            Drawn(a, at(v)) \in Nat /\ Drawn(a, at(v)) <= liquid[v]
    BY <1>1, DrawnFacts
  <1>3. \A v \in Adapters :
            Takes(a)[v] = IF v \in ToSet(venues) THEN Drawn(a, at(v)) ELSE 0
    BY DEF Takes
  <1>4. Takes(a) = [v \in Adapters |-> Takes(a)[v]]
    BY DEF Takes
  <1>5. \A i \in DOMAIN venues :
            /\ venues[i] \in ToSet(venues) /\ venues[i] \in Adapters
            /\ at(venues[i]) = i
    <2>1. TAKE i \in DOMAIN venues
    <2>2. venues[i] \in ToSet(venues)
      BY DEF ToSet
    <2>3. venues[i] \in Adapters
      BY <2>2, VenueSet
    <2>4. at(venues[i]) \in DOMAIN venues /\ venues[at(venues[i])] = venues[i]
      BY <1>1, <2>2
    <2> HIDE DEF at
    <2>5. QED
      BY <2>2, <2>3, <2>4 DEF AssetsOK, IsList, IsInjective
  <1> HIDE DEF at
  <1>6. \A v \in Adapters : liquid[v] \in Nat
    BY DEF AssetsOK
  <1>7. \A v \in Adapters : Takes(a)[v] \in Nat /\ Takes(a)[v] <= liquid[v]
    BY <1>2, <1>3, <1>6
  <1>8. Takes(a) \in [Adapters -> Nat]
    BY <1>4, <1>7
  <1>9. \A i \in DOMAIN venues : Takes(a)[venues[i]] = Drawn(a, i)
    BY <1>3, <1>5
  <1>10. QED
    BY <1>3, <1>7, <1>8, <1>9

(* An exit pays what it draws and leaves every venue at least what it owes.*)
LEMMA ExitAssets ==
    ASSUME AssetsOK, NEW a \in Nat, Reached(a) >= a,
           idle' = Reached(a) - a,
           pos' = [v \in Adapters |-> pos[v] - Takes(a)[v]],
           liquid' = [v \in Adapters |-> liquid[v] - Takes(a)[v]],
           UNCHANGED venues
    PROVE  AssetsOK' /\ Gross' = Gross - a
  <1> DEFINE k == Takes(a)
  <1>1. /\ k \in [Adapters -> Nat] /\ \A v \in Adapters : k[v] <= liquid[v]
        /\ \A v \in Adapters \ ToSet(venues) : k[v] = 0
    BY TakesFacts
  <1>2. /\ idle \in Nat /\ IsList(venues)
        /\ pos \in [Adapters -> Nat] /\ liquid \in [Adapters -> Nat]
        /\ \A v \in Adapters : liquid[v] <= pos[v]
        /\ \A v \in Adapters \ ToSet(venues) : pos[v] = 0
    BY DEF AssetsOK
  <1> HIDE DEF k
  <1>3. /\ \A v \in Adapters : pos'[v] = pos[v] - k[v]
        /\ \A v \in Adapters : liquid'[v] = liquid[v] - k[v]
    BY DEF k
  <1>4. \A v \in Adapters :
            /\ pos[v] \in Nat /\ liquid[v] \in Nat /\ k[v] \in Nat
            /\ k[v] <= liquid[v] /\ liquid[v] <= pos[v]
    BY <1>1, <1>2
  <1>5. \A v \in Adapters :
            pos'[v] \in Nat /\ liquid'[v] \in Nat /\ liquid'[v] <= pos'[v]
    BY <1>3, <1>4
  <1>6. pos' \in [Adapters -> Nat] /\ liquid' \in [Adapters -> Nat]
    BY <1>5
  <1>7. SumOver(k, Adapters) \in Nat
    BY <1>1, Positions, VenueSet
  <1>8. Reached(a) = idle + SumOver(k, Adapters)
    BY DEF Reached, k
  <1>9. idle' \in Nat
    BY <1>2, <1>7, <1>8
  <1>10. IsList(venues') /\ ToSet(venues') = ToSet(venues)
    BY <1>2 DEF IsList
  <1>11. \A v \in Adapters \ ToSet(venues') : pos'[v] = 0
    <2>1. TAKE v \in Adapters \ ToSet(venues')
    <2>2. v \in Adapters \ ToSet(venues)
      BY <1>10, <2>1
    <2>3. pos[v] = 0 /\ k[v] = 0 /\ pos'[v] = pos[v] - k[v]
      BY <1>1, <1>2, <1>3, <2>2
    <2>4. QED
      BY <2>3
  <1>12. AssetsOK'
    BY <1>5, <1>6, <1>9, <1>10, <1>11 DEF AssetsOK, IsList, IsInjective, ToSet
  <1>13. SumOver(pos', Adapters) = SumOver(pos, Adapters) - SumOver(k, Adapters)
    <2>1. \A v \in Adapters :
              pos[v] \in Int /\ k[v] \in Int /\ pos'[v] = pos[v] - k[v]
      BY <1>3, <1>4
    <2>2. QED
      BY <2>1, VenueSet, SumMinus
  <1>14. QED
    BY <1>2, <1>7, <1>8, <1>12, <1>13, GrossFacts, GrossFactsNext

-----------------------------------------------------------------------------
(* The price of a share across a step                                      *)

(* Shares minted for no less than they are worth leave the ratio of assets *)
(* to shares where it was or higher.                                       *)
LEMMA RatioIn ==
    ASSUME NEW n \in Nat, NEW m \in Nat, NEW x \in Nat, NEW k \in Nat,
           k * n <= x * m
    PROVE  n * (m + k) <= (n + x) * m
  <1>1. n * (m + k) = n * m + k * n /\ (n + x) * m = n * m + x * m
    OBVIOUS
  <1>2. n * m \in Int /\ k * n \in Int /\ x * m \in Int
    OBVIOUS
  <1>3. QED
    BY <1>1, <1>2

(* And so do shares burned for no more than they are worth.                *)
LEMMA RatioOut ==
    ASSUME NEW n \in Int, NEW m \in Int, NEW x \in Int, NEW k \in Int,
           x * m <= k * n
    PROVE  n * (m - k) <= (n - x) * m
  <1>1. n * (m - k) = n * m - k * n /\ (n - x) * m = n * m - x * m
    OBVIOUS
  <1>2. n * m \in Int /\ k * n \in Int /\ x * m \in Int
    OBVIOUS
  <1>3. QED
    BY <1>1, <1>2

(* The snapshot of the state a step leads to.                              *)
LEMMA SnapFactsNext ==
    ASSUME PoolInv'
    PROVE  /\ Gross' \in Nat /\ Price' \in Nat /\ share'.supply \in Nat
           /\ share'.hwm \in Nat
           /\ \/ Price' = SharePrice(Gross', share'.supply)
              \/ share'.hwm <= Price'
  <1>1. share' \in Ledgers(Holders) /\ Gross' \in Nat
    BY GrossFactsNext DEF PoolInv, LedgerOK
  <1>2. config'.fee \in 0 .. BPS
    BY PoolVaultAssumption, SharesAssumption DEF PoolInv, GovOK
  <1> DEFINE s == Snap'
  <1>3. s = Snapshot(share', Gross', config'.fee)
    BY DEF Snap
  <1>4. Price' = SharePrice(Gross', s.supply)
    BY DEF Price
  <1> HIDE DEF s
  <1>5. /\ SharePrice(Gross', s.supply) \in Nat
        /\ \/ SharePrice(Gross', share'.supply) <= share'.hwm
           \/ share'.hwm <= SharePrice(Gross', s.supply)
        /\ SharePrice(Gross', share'.supply) <= share'.hwm => s.supply = share'.supply
    BY <1>1, <1>2, <1>3, SnapshotFacts
  <1>6. share'.supply \in Nat /\ share'.hwm \in Nat
    BY <1>1, LedgerTypes
  <1>7. QED
    BY <1>1, <1>4, <1>5, <1>6

(* After an accrual the mark is no lower than the price was, so a step     *)
(* that keeps the ratio of assets to shares keeps the price.               *)
LEMMA AccruedPrice ==
    ASSUME PoolInv, PoolInv', share'.hwm = Snap.hwm,
           (Gross + 1) * (share'.supply + VIRTUAL)
              <= (Gross' + 1) * (Snap.supply + VIRTUAL)
    PROVE  Price <= Price' /\ share.hwm <= share'.hwm
  <1>1. /\ Gross \in Nat /\ Snap.supply \in Nat /\ Price \in Nat
        /\ share.hwm <= Snap.hwm /\ Price <= Snap.hwm /\ Snap.hwm \in Nat
    BY SnapFacts
  <1>2. /\ Gross' \in Nat /\ Price' \in Nat /\ share'.supply \in Nat
        /\ \/ Price' = SharePrice(Gross', share'.supply)
           \/ share'.hwm <= Price'
    BY SnapFactsNext
  <1>3. Price = SharePrice(Gross, Snap.supply)
    BY DEF Price
  <1>4. SharePrice(Gross, Snap.supply) <= SharePrice(Gross', share'.supply)
    BY <1>1, <1>2, PriceOrder
  <1>5. Price <= Price'
    BY <1>1, <1>2, <1>3, <1>4
  <1>6. QED
    BY <1>1, <1>5

(* A step that touches neither what the shares are worth nor their number  *)
(* leaves the price alone.                                                 *)
LEMMA SamePrice ==
    ASSUME PoolInv, share'.supply = share.supply, share'.hwm = share.hwm,
           Gross' = Gross, config'.fee = config.fee
    PROVE  Price <= Price' /\ share.hwm <= share'.hwm
  <1>1. /\ Snap.supply = share.supply + FeeShares(share, Gross, config.fee)
        /\ Snap'.supply = share'.supply + FeeShares(share', Gross', config'.fee)
    BY DEF Snap, Snapshot
  <1>2. FeeShares(share', Gross', config'.fee) = FeeShares(share, Gross, config.fee)
    BY Zenon DEF FeeShares
  <1>3. Price' = Price
    BY <1>1, <1>2 DEF Price
  <1>4. Price \in Nat /\ share.hwm \in Nat
    BY SnapFacts, LedgerTypes DEF PoolInv, LedgerOK
  <1>5. QED
    BY <1>3, <1>4

-----------------------------------------------------------------------------
(* One lemma per kind of step                                              *)

(* What every call of the vault but a burn promises.                       *)
StepSound == PoolInv' /\ Price <= Price' /\ share.hwm <= share'.hwm

(* New shares against new assets, at no better than the price.             *)
LEMMA EntryStep ==
    ASSUME PoolInv, NEW h \in Holders, NEW k \in Nat, NEW x \in Nat,
           share' = Mint(Accrued, h, k), idle' = idle + x,
           UNCHANGED <<govVars, venueVars>>,
           k * (Gross + 1) <= x * (Snap.supply + VIRTUAL)
    PROVE  StepSound
  <1>1. /\ LedgerOK(share') /\ share'.supply = Accrued.supply + k
        /\ share'.hwm = Accrued.hwm
    <2> DEFINE t == Accrued
    <2>1. LedgerOK(t)
      BY AccruedFacts
    <2>2. share' = Mint(t, h, k)
      OBVIOUS
    <2> HIDE DEF t
    <2>3. /\ LedgerOK(Mint(t, h, k)) /\ Mint(t, h, k).supply = t.supply + k
          /\ Mint(t, h, k).hwm = t.hwm
      BY <2>1, MintOK
    <2>4. QED
      BY <2>2, <2>3 DEF t
  <1>2. share'.supply = Snap.supply + k /\ share'.hwm = Snap.hwm
    BY <1>1, AccruedFacts
  <1>3. idle \in Nat /\ idle' \in Nat
    BY DEF PoolInv, AssetsOK
  <1>4. AssetsOK'
    BY <1>3 DEF PoolInv, AssetsOK, venueVars, IsList, IsInjective, ToSet
  <1>5. GovOK'
    BY PartsKept DEF PoolInv
  <1>6. PoolInv'
    BY <1>1, <1>4, <1>5 DEF PoolInv, LedgerOK
  <1>7. Gross' = Gross + x
    <2>1. /\ Gross = idle + SumOver(pos, Adapters)
          /\ SumOver(pos, Adapters) \in Nat
          /\ Gross' = idle' + SumOver(pos', Adapters)
      BY <1>4, GrossFacts, GrossFactsNext DEF PoolInv
    <2>2. pos' = pos
      BY DEF venueVars
    <2>3. QED
      BY <1>3, <2>1, <2>2
  <1> DEFINE n == Gross + 1
             m == Snap.supply + VIRTUAL
  <1>8. n \in Nat /\ m \in Nat /\ Gross \in Nat /\ Snap.supply \in Nat
    BY SnapFacts, SharesAssumption
  <1>9. Gross' + 1 = n + x /\ share'.supply + VIRTUAL = m + k
    BY <1>2, <1>7, <1>8, SharesAssumption
  <1>10. k * n <= x * m
    OBVIOUS
  <1> HIDE DEF n, m
  <1>11. n * (m + k) <= (n + x) * m
    BY <1>8, <1>10, RatioIn
  <1>12. (Gross + 1) * (share'.supply + VIRTUAL)
            <= (Gross' + 1) * (Snap.supply + VIRTUAL)
    BY <1>9, <1>11 DEF n, m
  <1>13. QED
    BY <1>2, <1>6, <1>12, AccruedPrice DEF StepSound

(* A deposit is credited with what arrived, rounded down.                  *)
LEMMA DepositStep ==
    ASSUME PoolInv, NEW h \in Holders, NEW a \in Amounts, NEW tax \in Taxes,
           Deposit(h, a, tax)
    PROVE  StepSound
  <1> DEFINE x == a - tax
             k == ToShares(Snap, x)
             n == Gross + 1
             m == Snap.supply + VIRTUAL
  <1>1. a \in Nat /\ tax \in Nat /\ tax <= a
    BY PoolVaultAssumption DEF Deposit
  <1>2. x \in Nat /\ idle + a - tax = idle + x
    BY <1>1 DEF PoolInv, AssetsOK
  <1>3. /\ n \in Nat \ {0} /\ m \in Nat
        /\ Snap.nav = Gross
    BY SnapFacts, SharesAssumption
  <1>4. k = MulDiv(x, m, n)
    BY <1>3 DEF ToShares
  <1>5. /\ share' = Mint(Accrued, h, k) /\ idle' = idle + x
        /\ UNCHANGED <<govVars, venueVars>>
    BY <1>2 DEF Deposit
  <1> HIDE DEF n, m, x, k
  <1>6. k \in Nat /\ k * n <= x * m
    BY <1>2, <1>3, <1>4, MulDivBelow
  <1>7. k * (Gross + 1) <= x * (Snap.supply + VIRTUAL)
    BY <1>6 DEF n, m
  <1>8. QED
    BY <1>2, <1>5, <1>6, <1>7, EntryStep

(* A mint is charged its worth rounded up.                                 *)
LEMMA MintSharesStep ==
    ASSUME PoolInv, NEW h \in Holders, NEW k \in Lots, MintShares(h, k)
    PROVE  StepSound
  <1> DEFINE x == ToAssetsUp(Snap, k)
             n == Gross + 1
             m == Snap.supply + VIRTUAL
  <1>1. k \in Nat
    BY PoolVaultAssumption
  <1>2. n \in Nat /\ m \in Nat \ {0} /\ Snap.nav = Gross
    BY SnapFacts, SharesAssumption
  <1>3. x = MulDivCeil(k, n, m)
    BY <1>2 DEF ToAssetsUp
  <1>4. /\ share' = Mint(Accrued, h, k) /\ idle' = idle + x
        /\ UNCHANGED <<govVars, venueVars>>
    BY DEF MintShares
  <1> HIDE DEF n, m, x
  <1>5. x \in Nat /\ x * m >= k * n
    BY <1>1, <1>2, <1>3, MulDivCeilAbove
  <1>6. k * (Gross + 1) <= x * (Snap.supply + VIRTUAL)
    BY <1>1, <1>2, <1>5 DEF n, m
  <1>7. QED
    BY <1>1, <1>4, <1>5, <1>6, EntryStep

(* Shares burned against assets paid, at no better than the price.         *)
LEMMA ExitStep ==
    ASSUME PoolInv, NEW h \in Holders, NEW k \in Nat, NEW x \in Nat, Exit(h, k, x),
           x * (Snap.supply + VIRTUAL) <= k * (Gross + 1)
    PROVE  StepSound
  <1>1. k <= Accrued.bal[h] /\ Reached(x) >= x
    <2>1. Accrued.bal[h] \in Nat
      BY AccruedFacts, LedgerTypes DEF LedgerOK
    <2>2. QED
      BY <2>1 DEF Exit, CanExit, CanDebit
  <1>2. /\ LedgerOK(share') /\ share'.supply = Accrued.supply - k
        /\ share'.hwm = Accrued.hwm
    BY <1>1, AccruedFacts, BurnOK DEF Exit
  <1>3. share'.supply = Snap.supply - k /\ share'.hwm = Snap.hwm
    BY <1>2, AccruedFacts
  <1>4. AssetsOK' /\ Gross' = Gross - x
    BY <1>1, ExitAssets DEF Exit, PoolInv
  <1>5. GovOK'
    BY PartsKept DEF PoolInv, Exit
  <1>6. PoolInv'
    BY <1>2, <1>4, <1>5 DEF PoolInv, LedgerOK
  <1> DEFINE n == Gross + 1
             m == Snap.supply + VIRTUAL
  <1>7. n \in Int /\ m \in Int /\ Gross \in Nat /\ Snap.supply \in Nat
    BY SnapFacts, SharesAssumption
  <1>8. Gross' + 1 = n - x /\ share'.supply + VIRTUAL = m - k
    BY <1>3, <1>4, <1>7, SharesAssumption
  <1>9. x * m <= k * n
    OBVIOUS
  <1> HIDE DEF n, m
  <1>10. n * (m - k) <= (n - x) * m
    BY <1>7, <1>9, RatioOut
  <1>11. (Gross + 1) * (share'.supply + VIRTUAL)
            <= (Gross' + 1) * (Snap.supply + VIRTUAL)
    BY <1>8, <1>10 DEF n, m
  <1>12. QED
    BY <1>3, <1>6, <1>11, AccruedPrice DEF StepSound

(* A withdrawal burns its worth rounded up.                                *)
LEMMA WithdrawStep ==
    ASSUME PoolInv, NEW h \in Holders, NEW x \in Amounts, Withdraw(h, x)
    PROVE  StepSound
  <1> DEFINE k == ToSharesUp(Snap, x)
             n == Gross + 1
             m == Snap.supply + VIRTUAL
  <1>1. x \in Nat /\ n \in Nat \ {0} /\ m \in Nat /\ Snap.nav = Gross
    BY SnapFacts, SharesAssumption, PoolVaultAssumption
  <1>2. k = MulDivCeil(x, m, n)
    BY <1>1 DEF ToSharesUp
  <1>3. Exit(h, k, x)
    BY DEF Withdraw
  <1> HIDE DEF n, m, k
  <1>4. k \in Nat /\ k * n >= x * m
    BY <1>1, <1>2, MulDivCeilAbove
  <1>5. x * (Snap.supply + VIRTUAL) <= k * (Gross + 1)
    BY <1>1, <1>4 DEF n, m
  <1>6. QED
    BY <1>1, <1>3, <1>4, <1>5, ExitStep

(* A redemption pays its worth rounded down.                               *)
LEMMA RedeemStep ==
    ASSUME PoolInv, NEW h \in Holders, NEW k \in Lots, Redeem(h, k)
    PROVE  StepSound
  <1> DEFINE x == ToAssets(Snap, k)
             n == Gross + 1
             m == Snap.supply + VIRTUAL
  <1>1. k \in Nat /\ n \in Nat /\ m \in Nat \ {0} /\ Snap.nav = Gross
    BY SnapFacts, SharesAssumption, PoolVaultAssumption
  <1>2. x = MulDiv(k, n, m)
    BY <1>1 DEF ToAssets
  <1>3. Exit(h, k, x)
    BY DEF Redeem
  <1> HIDE DEF n, m, x
  <1>4. x \in Nat /\ x * m <= k * n
    BY <1>1, <1>2, MulDivBelow
  <1>5. x * (Snap.supply + VIRTUAL) <= k * (Gross + 1)
    BY <1>4 DEF n, m
  <1>6. QED
    BY <1>1, <1>3, <1>4, <1>5, ExitStep

(* An accrual that leaves what the vault is worth alone, whatever it does  *)
(* to the fee or to where the assets are.                                  *)
LEMMA AccrualStep ==
    ASSUME PoolInv, share' = Accrued, GovOK', AssetsOK', Gross' = Gross
    PROVE  StepSound
  <1>1. /\ LedgerOK(share') /\ share'.supply = Snap.supply
        /\ share'.hwm = Snap.hwm
    BY AccruedFacts
  <1>2. PoolInv'
    BY <1>1 DEF PoolInv, LedgerOK
  <1>3. (Gross + 1) * (share'.supply + VIRTUAL)
           <= (Gross' + 1) * (Snap.supply + VIRTUAL)
    <2> DEFINE n == (Gross + 1) * (Snap.supply + VIRTUAL)
    <2>1. n \in Int
      BY SnapFacts, SharesAssumption
    <2>2. (Gross + 1) * (share'.supply + VIRTUAL) = n
          /\ (Gross' + 1) * (Snap.supply + VIRTUAL) = n
      BY <1>1
    <2> HIDE DEF n
    <2>3. QED
      BY <2>1, <2>2
  <1>4. QED
    BY <1>1, <1>2, <1>3, AccruedPrice DEF StepSound

(* Anyone may accrue.                                                      *)
LEMMA AccrueFeeStep ==
    ASSUME PoolInv, AccrueFee
    PROVE  StepSound
  <1>1. GovOK' /\ AssetsOK'
    BY PartsKept DEF PoolInv, AccrueFee, venueVars
  <1>2. Gross' = Gross
    BY DEF AccrueFee, venueVars, Gross
  <1>3. QED
    BY <1>1, <1>2, AccrualStep DEF AccrueFee

(* Funds between idle and a venue are worth the same.                      *)
LEMMA AllocationStep ==
    ASSUME PoolInv, NEW v \in Adapters, NEW d \in Int, v \in ToSet(venues),
           0 <= idle - d, 0 <= liquid[v] + d,
           share' = Accrued, idle' = idle - d,
           pos' = [pos EXCEPT ![v] = pos[v] + d],
           liquid' = [liquid EXCEPT ![v] = liquid[v] + d],
           UNCHANGED <<govVars, venues>>
    PROVE  StepSound
  <1>1. /\ idle \in Nat /\ IsList(venues)
        /\ pos \in [Adapters -> Nat] /\ liquid \in [Adapters -> Nat]
        /\ \A u \in Adapters : liquid[u] <= pos[u]
        /\ \A u \in Adapters \ ToSet(venues) : pos[u] = 0
    BY DEF PoolInv, AssetsOK
  <1>2. pos[v] \in Nat /\ liquid[v] \in Nat /\ liquid[v] <= pos[v]
    BY <1>1
  <1>3. idle' \in Nat /\ pos[v] + d \in Nat /\ liquid[v] + d \in Nat
    BY <1>1, <1>2
  <1>4. pos' \in [Adapters -> Nat] /\ liquid' \in [Adapters -> Nat]
    BY <1>1, <1>3
  <1>5. /\ pos'[v] = pos[v] + d /\ liquid'[v] = liquid[v] + d
        /\ \A u \in Adapters \ {v} : pos'[u] = pos[u] /\ liquid'[u] = liquid[u]
    BY <1>1
  <1>6. \A u \in Adapters : liquid'[u] <= pos'[u]
    BY <1>1, <1>2, <1>3, <1>5
  <1>7. IsList(venues') /\ ToSet(venues') = ToSet(venues)
    BY <1>1
  <1>8. \A u \in Adapters \ ToSet(venues') : pos'[u] = 0
    BY <1>1, <1>5, <1>7
  <1>9. AssetsOK'
    BY <1>3, <1>4, <1>6, <1>7, <1>8 DEF AssetsOK, IsList, IsInjective, ToSet
  <1>10. SumOver(pos', Adapters) = SumOver(pos, Adapters) + (pos'[v] - pos[v])
    <2>1. \A u \in Adapters \ {v} : pos'[u] = pos[u]
      BY <1>5
    <2>2. QED
      BY <1>1, <1>4, <2>1, PositionMoved, ZenonT(40)
  <1>11. Gross' = Gross
    <2>1. /\ Gross = idle + SumOver(pos, Adapters)
          /\ SumOver(pos, Adapters) \in Nat
          /\ Gross' = idle' + SumOver(pos', Adapters)
      BY <1>9, GrossFacts, GrossFactsNext DEF PoolInv
    <2>2. QED
      BY <1>1, <1>2, <1>5, <1>10, <2>1
  <1>12. GovOK'
    BY PartsKept DEF PoolInv
  <1>13. QED
    BY <1>9, <1>11, <1>12, AccrualStep

(* The manager's two moves.                                                *)
LEMMA AllocateStep ==
    ASSUME PoolInv, NEW v \in Adapters, NEW n \in Amounts,
           Allocate(v, n) \/ Deallocate(v, n)
    PROVE  StepSound
  <1>0. n \in Nat /\ idle \in Nat /\ liquid[v] \in Nat /\ pos[v] \in Nat
    BY PoolVaultAssumption DEF PoolInv, AssetsOK
  <1>1. CASE Allocate(v, n)
    <2>1. 0 <= idle - n /\ 0 <= liquid[v] + n /\ v \in ToSet(venues)
      BY <1>0, <1>1 DEF Allocate
    <2>2. /\ share' = Accrued /\ idle' = idle - n
          /\ pos' = [pos EXCEPT ![v] = pos[v] + n]
          /\ liquid' = [liquid EXCEPT ![v] = liquid[v] + n]
          /\ UNCHANGED <<govVars, venues>>
      BY <1>1 DEF Allocate
    <2>3. n \in Int
      BY <1>0
    <2>4. QED
      BY <2>1, <2>2, <2>3, AllocationStep, Zenon
  <1>2. CASE Deallocate(v, n)
    <2> DEFINE d == -n
    <2>1. /\ d \in Int /\ 0 <= idle - d /\ 0 <= liquid[v] + d /\ v \in ToSet(venues)
          /\ idle + n = idle - d /\ pos[v] - n = pos[v] + d
          /\ liquid[v] - n = liquid[v] + d
      BY <1>0, <1>2 DEF Deallocate
    <2>2. /\ share' = Accrued /\ idle' = idle - d
          /\ pos' = [pos EXCEPT ![v] = pos[v] + d]
          /\ liquid' = [liquid EXCEPT ![v] = liquid[v] + d]
          /\ UNCHANGED <<govVars, venues>>
      BY <1>2, <2>1 DEF Deallocate
    <2> HIDE DEF d
    <2>3. QED
      BY <2>1, <2>2, AllocationStep
  <1>3. QED
    BY <1>1, <1>2

(* A step that keeps the shares, their mark, the fee and what it all is    *)
(* worth.                                                                  *)
LEMMA StillStep ==
    ASSUME PoolInv, GovOK', LedgerOK(share'), AssetsOK',
           share'.supply = share.supply, share'.hwm = share.hwm,
           Gross' = Gross, config'.fee = config.fee
    PROVE  StepSound
  <1>1. PoolInv'
    BY DEF PoolInv, LedgerOK
  <1>2. QED
    BY <1>1, SamePrice DEF StepSound

(* Shares changing hands, at the holder's or the manager's will.           *)
LEMMA MoveStep ==
    ASSUME PoolInv, NEW from \in Holders, NEW to \in Holders, NEW n \in Lots,
           TransferShares(from, to, n) \/ Seize(from, to, n)
    PROVE  StepSound
  <1>1. LedgerOK(share) /\ n \in Nat /\ share.bal[from] \in Nat
    <2>1. LedgerOK(share) /\ n \in Nat
      BY PoolVaultAssumption DEF PoolInv
    <2>2. share.bal \in [Holders -> Nat]
      BY <2>1, LedgerTypes DEF LedgerOK
    <2>3. QED
      BY <2>1, <2>2
  <1>2. /\ share' = Moved(share, from, to, n) /\ n <= share.bal[from]
        /\ UNCHANGED <<govVars, idle, venueVars>>
    BY <1>1 DEF TransferShares, CanMove, CanDebit, Seize, CanSeize
  <1>3. /\ LedgerOK(share') /\ share'.supply = share.supply
        /\ share'.hwm = share.hwm
    BY <1>1, <1>2, MovedOK
  <1>4. GovOK' /\ AssetsOK'
    BY <1>2, PartsKept DEF PoolInv, venueVars
  <1>5. Gross' = Gross /\ config'.fee = config.fee
    BY <1>2 DEF Gross, venueVars, govVars
  <1>6. QED
    BY <1>3, <1>4, <1>5, StillStep

(* The compliance rules move no shares.                                    *)
LEMMA ComplianceStep ==
    ASSUME PoolInv, NEW on \in BOOLEAN,
           SetAllowlist(on) \/ \E h \in Subjects : SetMember(h, on) \/ Freeze(h, on)
    PROVE  StepSound
  <1>1. share \in Ledgers(Holders) /\ share.supply = SumOver(share.bal, Holders)
    BY DEF PoolInv, LedgerOK
  <1> DEFINE Kept == /\ share' \in Ledgers(Holders) /\ share'.bal = share.bal
                     /\ share'.supply = share.supply /\ share'.hwm = share.hwm
  <1>2. Kept
    <2>1. CASE SetAllowlist(on)
      BY <1>1, <2>1 DEF SetAllowlist, Ledgers
    <2>2. ASSUME NEW h \in Subjects, SetMember(h, on)
          PROVE  Kept
      <3> DEFINE m == IF on THEN share.member \cup {h} ELSE share.member \ {h}
      <3>1. m \in SUBSET Holders
        BY <1>1, LedgerTypes, PoolVaultAssumption
      <3>2. share' = [share EXCEPT !.member = m]
        BY <2>2 DEF SetMember
      <3> HIDE DEF m
      <3>3. QED
        BY <1>1, <3>1, <3>2 DEF Ledgers
    <2>3. ASSUME NEW h \in Subjects, Freeze(h, on)
          PROVE  Kept
      <3> DEFINE m == IF on THEN share.frozen \cup {h} ELSE share.frozen \ {h}
      <3>1. m \in SUBSET Holders
        BY <1>1, LedgerTypes, PoolVaultAssumption
      <3>2. share' = [share EXCEPT !.frozen = m]
        BY <2>3 DEF Freeze
      <3> HIDE DEF m
      <3>3. QED
        BY <1>1, <3>1, <3>2 DEF Ledgers
    <2>4. QED
      BY <2>1, <2>2, <2>3
  <1>3. LedgerOK(share')
    BY <1>1, <1>2 DEF LedgerOK
  <1>4. Rule /\ UNCHANGED <<config, pending, idle, venueVars>>
    BY DEF SetAllowlist, SetMember, Freeze
  <1>5. rules' \in 0 .. MaxRules
    BY <1>4, PoolVaultAssumption DEF Rule, PoolInv, GovOK
  <1>6. GovOK'
    BY <1>4, <1>5 DEF PoolInv, GovOK
  <1>7. AssetsOK'
    BY <1>4, PartsKept DEF PoolInv, venueVars
  <1>8. Gross' = Gross /\ config'.fee = config.fee
    BY <1>4 DEF Gross, venueVars
  <1>9. QED
    BY <1>2, <1>3, <1>6, <1>7, <1>8, StillStep

(* A change of the list that neither drops nor doubles a held position.    *)
LEMMA ListStep ==
    ASSUME PoolInv, GovOK', config' = config, IsList(venues'),
           \A v \in Adapters \ ToSet(venues') : pos[v] = 0,
           UNCHANGED <<share, idle, pos, liquid>>
    PROVE  StepSound
  <1>1. AssetsOK'
    BY DEF PoolInv, AssetsOK, IsList, IsInjective, ToSet
  <1>2. LedgerOK(share')
    BY DEF PoolInv, LedgerOK
  <1>3. Gross' = Gross
    BY <1>1, GrossFacts, GrossFactsNext DEF PoolInv
  <1>4. QED
    BY <1>1, <1>2, <1>3, StillStep

(* Only an empty venue is dropped.                                         *)
LEMMA DisableVenueStep ==
    ASSUME PoolInv, NEW v \in Adapters, DisableVenue(v)
    PROVE  StepSound
  <1>1. PICK i \in DOMAIN venues : venues[i] = v /\ venues' = RemoveAt(venues, i)
    BY DEF DisableVenue
  <1>2. IsList(venues) /\ \A u \in Adapters \ ToSet(venues) : pos[u] = 0
    BY DEF PoolInv, AssetsOK
  <1>3. IsList(venues') /\ ToSet(venues') = ToSet(venues) \ {v}
    BY <1>1, <1>2, ListWithout
  <1>4. \A u \in Adapters \ ToSet(venues') : pos[u] = 0
    BY <1>2, <1>3 DEF DisableVenue
  <1>5. GovOK' /\ config' = config
    BY PartsKept DEF PoolInv, DisableVenue, govVars
  <1>6. QED
    BY <1>3, <1>4, <1>5, ListStep DEF DisableVenue

(* An order names exactly the venues: as many, all listed, none twice.     *)
LEMMA SetVenueOrderStep ==
    ASSUME PoolInv, NEW order \in BoundedSeq(Adapters, MAX_VENUES),
           SetVenueOrder(order)
    PROVE  StepSound
  <1>1. order \in Seq(Adapters)
    BY DEF BoundedSeq, SeqOf
  <1>2. IsList(venues) /\ \A u \in Adapters \ ToSet(venues) : pos[u] = 0
    BY DEF PoolInv, AssetsOK
  <1>3. IsList(order) /\ ToSet(order) = ToSet(venues)
    BY <1>1, <1>2, ListReordered DEF SetVenueOrder
  <1>4. venues' = order /\ UNCHANGED <<govVars, share, idle, pos, liquid>>
    BY DEF SetVenueOrder
  <1>5. GovOK' /\ config' = config
    BY <1>4, PartsKept DEF PoolInv, govVars
  <1>6. QED
    BY <1>2, <1>3, <1>4, <1>5, ListStep

(* A new venue starts empty.                                               *)
LEMMA AcceptVenueStep ==
    ASSUME PoolInv, AcceptVenue
    PROVE  StepSound
  <1> DEFINE v == pending["Venue"]
  <1>1. /\ v # None /\ v \notin ToSet(venues) /\ venues' = Append(venues, v)
        /\ pending' = [pending EXCEPT !["Venue"] = None]
        /\ UNCHANGED <<config, rules, share, idle, pos, liquid>>
    BY DEF AcceptVenue, Take
  <1>2. v \in Adapters
    BY <1>1 DEF PoolInv, GovOK
  <1>3. IsList(venues) /\ \A u \in Adapters \ ToSet(venues) : pos[u] = 0
    BY DEF PoolInv, AssetsOK
  <1>4. GovOK'
    BY <1>1 DEF PoolInv, GovOK, Kinds
  <1> HIDE DEF v
  <1>5. IsList(venues') /\ ToSet(venues') = ToSet(venues) \cup {v}
    BY <1>1, <1>2, <1>3, ListWith
  <1>6. \A u \in Adapters \ ToSet(venues') : pos[u] = 0
    BY <1>3, <1>5
  <1>7. QED
    BY <1>1, <1>4, <1>5, <1>6, ListStep

(* A curator queues only what may be accepted.                             *)
LEMMA SubmitStep ==
    ASSUME PoolInv, NEW k \in Kinds, NEW to \in Proposals(k), Submit(k, to)
    PROVE  StepSound
  <1>1. /\ k = "Fee" => to \in 0 .. MAX_FEE
        /\ k = "Cap" => to \in Int
        /\ k = "Venue" => to \in Adapters
    <2>1. k = "Fee" => to \in Fees /\ to <= MAX_FEE
      BY DEF Proposals, Submit
    <2>2. k = "Cap" => to \in Caps
      BY DEF Proposals
    <2>3. k = "Venue" => to \in Adapters
      BY DEF Proposals
    <2>4. Fees \subseteq Nat /\ Caps \subseteq Int /\ MAX_FEE \in Int
      BY PoolVaultAssumption, SharesAssumption
    <2>5. ASSUME k = "Fee"
          PROVE  to \in 0 .. MAX_FEE
      <3>1. to \in Nat /\ to <= MAX_FEE
        BY <2>1, <2>4, <2>5
      <3>2. QED
        BY <2>4, <3>1
    <2>6. QED
      BY <2>2, <2>3, <2>4, <2>5
  <1>2. /\ pending' = [pending EXCEPT ![k] = to]
        /\ UNCHANGED <<config, share, idle, venueVars>>
    BY DEF Submit
  <1>3. rules' \in 0 .. MaxRules
    BY PoolVaultAssumption DEF Submit, Rule, PoolInv, GovOK
  <1>4. GovOK'
    BY <1>1, <1>2, <1>3 DEF PoolInv, GovOK, Kinds
  <1>5. LedgerOK(share') /\ AssetsOK' /\ share' = share
    BY <1>2, PartsKept DEF PoolInv, venueVars
  <1>6. Gross' = Gross /\ config'.fee = config.fee
    BY <1>2 DEF Gross, venueVars
  <1>7. QED
    BY <1>4, <1>5, <1>6, StillStep

(* What is queued may be withdrawn.                                        *)
LEMMA RevokeStep ==
    ASSUME PoolInv, NEW k \in Kinds, Revoke(k)
    PROVE  StepSound
  <1>1. /\ pending' = [pending EXCEPT ![k] = None]
        /\ UNCHANGED <<config, rules, share, idle, venueVars>>
    BY DEF Revoke
  <1>2. GovOK'
    BY <1>1 DEF PoolInv, GovOK, Kinds
  <1>3. LedgerOK(share') /\ AssetsOK' /\ share' = share
    BY <1>1, PartsKept DEF PoolInv, venueVars
  <1>4. Gross' = Gross /\ config'.fee = config.fee
    BY <1>1 DEF Gross, venueVars
  <1>5. QED
    BY <1>2, <1>3, <1>4, StillStep

(* The new cap concerns later deposits only.                               *)
LEMMA AcceptCapStep ==
    ASSUME PoolInv, AcceptCap
    PROVE  StepSound
  <1> DEFINE c == pending["Cap"]
  <1>1. /\ c # None /\ c >= 0
        /\ config' = [config EXCEPT !.cap = c]
        /\ pending' = [pending EXCEPT !["Cap"] = None]
        /\ UNCHANGED <<rules, share, idle, venueVars>>
    BY DEF AcceptCap, Take
  <1>2. c \in Nat
    <2>1. c \in Int
      BY <1>1 DEF PoolInv, GovOK
    <2>2. QED
      BY <1>1, <2>1
  <1> HIDE DEF c
  <1>3. GovOK'
    BY <1>1, <1>2 DEF PoolInv, GovOK, Kinds
  <1>4. LedgerOK(share') /\ AssetsOK' /\ share' = share
    BY <1>1, PartsKept DEF PoolInv, venueVars
  <1>5. config'.fee = config.fee
    BY <1>1 DEF PoolInv, GovOK
  <1>6. Gross' = Gross
    BY <1>1 DEF Gross, venueVars
  <1>7. QED
    BY <1>3, <1>4, <1>5, <1>6, StillStep

(* The old fee is charged before the new one applies.                      *)
LEMMA AcceptFeeStep ==
    ASSUME PoolInv, AcceptFee
    PROVE  StepSound
  <1> DEFINE f == pending["Fee"]
  <1>1. /\ f # None /\ share' = Accrued
        /\ config' = [config EXCEPT !.fee = f]
        /\ pending' = [pending EXCEPT !["Fee"] = None]
        /\ UNCHANGED <<rules, idle, venueVars>>
    BY DEF AcceptFee, Take
  <1>2. f \in 0 .. MAX_FEE
    BY <1>1 DEF PoolInv, GovOK
  <1> HIDE DEF f
  <1>3. GovOK'
    BY <1>1, <1>2 DEF PoolInv, GovOK, Kinds
  <1>4. AssetsOK'
    BY <1>1, PartsKept DEF PoolInv, venueVars
  <1>5. Gross' = Gross
    BY <1>1 DEF Gross, venueVars
  <1>6. QED
    BY <1>1, <1>3, <1>4, <1>5, AccrualStep

-----------------------------------------------------------------------------
(* The steps that may move the price                                       *)

(* A holder may burn what it holds.                                        *)
LEMMA BurnSharesStep ==
    ASSUME PoolInv, NEW h \in Holders, NEW n \in Lots, BurnShares(h, n)
    PROVE  PoolInv' /\ share.hwm <= share'.hwm
  <1>1. LedgerOK(share) /\ n \in Nat
    BY PoolVaultAssumption DEF PoolInv
  <1>2. share.bal \in [Holders -> Nat] /\ share.hwm \in Nat
    BY <1>1, LedgerTypes DEF LedgerOK
  <1>3. n <= share.bal[h]
    BY <1>1, <1>2 DEF BurnShares, CanDebit
  <1>4. LedgerOK(share') /\ share'.hwm = share.hwm
    BY <1>1, <1>3, BurnOK DEF BurnShares
  <1>5. GovOK' /\ AssetsOK'
    BY PartsKept DEF PoolInv, BurnShares, venueVars
  <1>6. QED
    BY <1>2, <1>4, <1>5 DEF PoolInv, LedgerOK

(* A venue gains, loses, or changes what it can return at once.            *)
LEMMA VenueMovesStep ==
    ASSUME PoolInv, NEW v \in Adapters, NEW p \in 0 .. MaxNav, NEW l \in {0, p},
           VenueMoves(v, p, l)
    PROVE  PoolInv' /\ share.hwm <= share'.hwm
  <1>1. p \in Nat /\ l \in Nat /\ l <= p /\ v \in ToSet(venues)
    BY PoolVaultAssumption DEF VenueMoves
  <1>2. /\ pos' = [pos EXCEPT ![v] = p] /\ liquid' = [liquid EXCEPT ![v] = l]
        /\ UNCHANGED <<govVars, share, idle, venues>>
    BY DEF VenueMoves
  <1>3. AssetsOK'
    BY <1>1, <1>2 DEF PoolInv, AssetsOK, IsList, IsInjective, ToSet
  <1>4. GovOK' /\ LedgerOK(share)'
    BY <1>2, PartsKept DEF PoolInv
  <1>5. share.hwm \in Nat
    BY LedgerTypes DEF PoolInv, LedgerOK
  <1>6. QED
    BY <1>2, <1>3, <1>4, <1>5 DEF PoolInv

(* Anyone may give the vault its asset.                                    *)
LEMMA DonateStep ==
    ASSUME PoolInv, Donate(1)
    PROVE  PoolInv' /\ share.hwm <= share'.hwm
  <1>1. idle' = idle + 1 /\ UNCHANGED <<govVars, share, venues, pos, liquid>>
    BY DEF Donate, venueVars
  <1>2. AssetsOK'
    BY <1>1 DEF PoolInv, AssetsOK, IsList, IsInjective, ToSet
  <1>3. GovOK' /\ LedgerOK(share)'
    BY <1>1, PartsKept DEF PoolInv
  <1>4. share.hwm \in Nat
    BY LedgerTypes DEF PoolInv, LedgerOK
  <1>5. QED
    BY <1>1, <1>2, <1>3, <1>4 DEF PoolInv

-----------------------------------------------------------------------------
(* The invariant                                                           *)

(* The vault is deployed empty.                                            *)
LEMMA PoolInit == Init => PoolInv
  <1> SUFFICES ASSUME Init
               PROVE  PoolInv
    OBVIOUS
  <1>1. GovOK
    BY PoolVaultAssumption DEF Init, GovOK, Kinds
  <1>2. LedgerOK(share)
    BY EmptyOK DEF Init
  <1>3. IsList(venues)
    BY DEF Init, IsList, IsInjective
  <1>4. AssetsOK
    BY <1>3 DEF Init, AssetsOK
  <1>5. QED
    BY <1>1, <1>2, <1>4 DEF PoolInv

(* Every step but a burn and the venues' own keeps the price.              *)
LEMMA PriceStep ==
    ASSUME PoolInv, Next
    PROVE  World \/ (\E h \in Holders, n \in Lots : BurnShares(h, n)) \/ StepSound
  <1>1. CASE HolderStep
    <2>1. ASSUME NEW h \in Holders, NEW n \in Amounts, NEW tax \in Taxes,
                 Deposit(h, n, tax)
          PROVE  StepSound
      BY <2>1, DepositStep
    <2>2. ASSUME NEW h \in Holders, NEW n \in Amounts, Withdraw(h, n)
          PROVE  StepSound
      BY <2>2, WithdrawStep
    <2>3. ASSUME NEW h \in Holders, NEW n \in Lots, MintShares(h, n)
          PROVE  StepSound
      BY <2>3, MintSharesStep
    <2>4. ASSUME NEW h \in Holders, NEW to \in Holders, NEW n \in Lots,
                 TransferShares(h, to, n)
          PROVE  StepSound
      BY <2>4, MoveStep
    <2>5. ASSUME NEW h \in Holders, NEW n \in Lots, Redeem(h, n)
          PROVE  StepSound
      BY <2>5, RedeemStep
    <2>6. CASE AccrueFee
      BY <2>6, AccrueFeeStep
    <2>7. QED
      BY <1>1, <2>1, <2>2, <2>3, <2>4, <2>5, <2>6 DEF HolderStep
  <1>2. CASE ManagerStep
    <2>1. ASSUME NEW on \in BOOLEAN,
                 SetAllowlist(on) \/ \E h \in Subjects : SetMember(h, on) \/ Freeze(h, on)
          PROVE  StepSound
      BY <2>1, ComplianceStep
    <2>2. ASSUME NEW from \in Holders, NEW to \in Holders, NEW n \in Lots,
                 Seize(from, to, n)
          PROVE  StepSound
      BY <2>2, MoveStep
    <2>3. ASSUME NEW v \in Adapters, NEW n \in Amounts,
                 Allocate(v, n) \/ Deallocate(v, n)
          PROVE  StepSound
      BY <2>3, AllocateStep
    <2>4. ASSUME NEW v \in Adapters, DisableVenue(v)
          PROVE  StepSound
      BY <2>4, DisableVenueStep
    <2>5. ASSUME NEW order \in BoundedSeq(Adapters, MAX_VENUES), SetVenueOrder(order)
          PROVE  StepSound
      BY <2>5, SetVenueOrderStep
    <2>6. ASSUME NEW k \in Kinds, NEW to \in Proposals(k), Submit(k, to)
          PROVE  StepSound
      BY <2>6, SubmitStep
    <2>7. ASSUME NEW k \in Kinds, Revoke(k)
          PROVE  StepSound
      BY <2>7, RevokeStep
    <2>8. CASE AcceptFee \/ AcceptCap \/ AcceptVenue
      BY <2>8, AcceptFeeStep, AcceptCapStep, AcceptVenueStep
    <2>9. QED
      BY <1>2, <2>1, <2>2, <2>3, <2>4, <2>5, <2>6, <2>7, <2>8 DEF ManagerStep
  <1>3. QED
    BY <1>1, <1>2 DEF Next

(* A step keeps the invariant and never lowers the mark.                   *)
LEMMA PoolStep ==
    ASSUME PoolInv, [Next]_vars
    PROVE  PoolInv' /\ share.hwm <= share'.hwm
  <1>1. CASE World
    <2>1. ASSUME NEW v \in Adapters, NEW p \in 0 .. MaxNav, NEW l \in {0, p},
                 VenueMoves(v, p, l)
          PROVE  PoolInv' /\ share.hwm <= share'.hwm
      BY <2>1, VenueMovesStep
    <2>2. QED
      BY <1>1, <2>1, DonateStep DEF World
  <1>2. CASE \E h \in Holders, n \in Lots : BurnShares(h, n)
    BY <1>2, BurnSharesStep
  <1>3. CASE StepSound
    BY <1>3 DEF StepSound
  <1>4. CASE UNCHANGED vars
    <2>1. GovOK' /\ LedgerOK(share)' /\ AssetsOK' /\ share' = share
      BY <1>4, PartsKept DEF PoolInv, vars, govVars
    <2>2. share.hwm \in Nat
      BY LedgerTypes DEF PoolInv, LedgerOK
    <2>3. QED
      BY <2>1, <2>2 DEF PoolInv
  <1>5. QED
    BY <1>1, <1>2, <1>3, <1>4, PriceStep

(* Every share is some holder's and every position counts: minting,        *)
(* burning, transfers and fees keep the supply the sum of the balances,    *)
(* and the list of venues drops no adapter that holds anything.            *)
THEOREM SharesAlwaysAccountedFor == Spec => []SharesAccountedFor
  <1>1. PoolInv => SharesAccountedFor
    <2> SUFFICES ASSUME PoolInv
                 PROVE  SharesAccountedFor
      OBVIOUS
    <2>1. TypeOK
      BY DEF PoolInv, GovOK, LedgerOK, AssetsOK, IsList, TypeOK
    <2>2. QED
      BY <2>1, GrossFacts DEF SharesAccountedFor, PoolInv, LedgerOK
  <1>2. QED
    BY <1>1, PoolInit, PoolStep, PTL DEF Spec

(* No call of the vault costs the holders anything, whatever the amounts,  *)
(* the roundings, the tax of the asset or the fee.                         *)
THEOREM PriceAlwaysKept == Spec => PriceNeverFalls
  <1> DEFINE A == World \/ (\E h \in Holders, n \in Lots : BurnShares(h, n))
                     \/ Price' >= Price
  <1>1. ASSUME PoolInv, [Next]_vars
        PROVE  [A]_vars
    <2>1. CASE UNCHANGED vars
      BY <2>1
    <2>2. CASE Next
      <3>1. PoolInv'
        BY <2>2, <1>1, PoolStep
      <3>2. Price \in Nat /\ Price' \in Nat
        BY <1>1, <3>1, SnapFacts, SnapFactsNext
      <3>3. StepSound => Price' >= Price
        BY <3>2 DEF StepSound
      <3>4. QED
        BY <1>1, <2>2, <3>3, PriceStep
    <2>3. QED
      BY <1>1, <2>1, <2>2
  <1>2. PriceNeverFalls <=> [][A]_vars
    BY DEF PriceNeverFalls
  <1> HIDE DEF A
  <1>3. QED
    BY <1>1, <1>2, PoolInit, PoolStep, PTL DEF Spec

(* The mark only rises, so no gain is charged for twice.                   *)
THEOREM MarkAlwaysKept == Spec => MarkNeverFalls
  <1> DEFINE A == share'.hwm >= share.hwm
  <1>1. ASSUME PoolInv, [Next]_vars
        PROVE  [A]_vars
    <2>1. PoolInv' /\ share.hwm <= share'.hwm
      BY <1>1, PoolStep
    <2>2. share.hwm \in Nat /\ share'.hwm \in Nat
      BY <1>1, <2>1, LedgerTypes DEF PoolInv, LedgerOK
    <2>3. QED
      BY <2>1, <2>2
  <1>2. MarkNeverFalls <=> [][A]_vars
    BY DEF MarkNeverFalls
  <1> HIDE DEF A
  <1>3. QED
    BY <1>1, <1>2, PoolInit, PoolStep, PTL DEF Spec

-----------------------------------------------------------------------------
(* What max_withdraw promises                                              *)

(* A sum along an interval, its last term apart.                           *)
LEMMA SumLast ==
    ASSUME NEW n \in Nat \ {0}, NEW f, \A j \in 1 .. n : f[j] \in Int
    PROVE  /\ SumOver(f, 1 .. n) = f[n] + SumOver(f, 1 .. n - 1)
           /\ SumOver(f, 1 .. n - 1) \in Int
  <1> DEFINE S == 1 .. n - 1
  <1>1. IsFiniteSet(S)
    <2>1. 1 \in Int /\ n - 1 \in Int
      OBVIOUS
    <2>2. QED
      BY <2>1, FS_Interval
  <1>2. /\ n \notin S /\ S \cup {n} = 1 .. n
        /\ \A j \in S \cup {n} : f[j] \in Int
    OBVIOUS
  <1> HIDE DEF S
  <1>3. SumOver(f, S \cup {n}) = f[n] + SumOver(f, S)
    BY <1>1, <1>2, SumAdd
  <1>4. SumOver(f, S) \in Int
    BY <1>1, <1>2, SumInt
  <1>5. QED
    BY <1>2, <1>3, <1>4 DEF S

(* Sources drawn on in order, each for what the ones before it cannot      *)
(* give, give what is wanted or all they have.                             *)
LEMMA Waterfall ==
    ASSUME NEW n \in Nat, NEW want \in Int, NEW g, NEW d,
           \A j \in 1 .. n : /\ g[j] \in Nat /\ d[j] \in Nat
                             /\ \/ d[j] >= g[j]
                                \/ d[j] >= want - SumOver(g, 1 .. j - 1)
    PROVE  \/ SumOver(d, 1 .. n) >= want
           \/ SumOver(d, 1 .. n) >= SumOver(g, 1 .. n)
  <1> DEFINE D(i) == SumOver(d, 1 .. i)
             G(i) == SumOver(g, 1 .. i)
             Good(i) == D(i) >= want \/ D(i) >= G(i)
             B == {i \in 0 .. n : ~Good(i)}
  <1> SUFFICES ASSUME B # {}
               PROVE  FALSE
    <2>1. n \in 0 .. n
      OBVIOUS
    <2>2. QED
      BY <2>1
  <1>1. PICK i \in B : \A k \in B : i <= k
    <2>1. B \subseteq Nat
      OBVIOUS
    <2> HIDE DEF B
    <2>2. QED
      BY <2>1, LeastNat
  <1>2. i \in 0 .. n /\ ~Good(i)
    BY <1>1
  <1>3. CASE i = 0
    <2>1. 1 .. i = {}
      BY <1>3
    <2>2. D(i) = 0 /\ G(i) = 0
      BY <2>1, SumEmpty
    <2>3. QED
      BY <1>2, <2>2
  <1>4. CASE i # 0
    <2>1. i \in Nat \ {0} /\ i \in 1 .. n /\ i - 1 \in 0 .. n /\ ~(i <= i - 1)
      BY <1>2, <1>4
    <2>2. Good(i - 1)
      <3>1. i - 1 \notin B
        BY <1>1, <2>1
      <3>2. QED
        BY <2>1, <3>1
    <2>3. \A j \in 1 .. i : j \in 1 .. n
      BY <2>1
    <2>4. /\ \A j \in 1 .. i : d[j] \in Int
          /\ \A j \in 1 .. i : g[j] \in Int
      BY <2>3
    <2>5. D(i) = d[i] + D(i - 1) /\ D(i - 1) \in Int
      BY <2>1, <2>4, SumLast
    <2>6. G(i) = g[i] + G(i - 1) /\ G(i - 1) \in Int
      BY <2>1, <2>4, SumLast
    <2>7. /\ g[i] \in Nat /\ d[i] \in Nat
          /\ d[i] >= g[i] \/ d[i] >= want - G(i - 1)
      BY <2>1
    <2> HIDE DEF D, G
    <2>8. QED
      BY <1>2, <2>2, <2>5, <2>6, <2>7
  <1>5. QED
    BY <1>3, <1>4

(* The venues together give what is asked for as long as they have it.     *)
LEMMA ReachesLiquidity ==
    ASSUME AssetsOK, NEW a \in Nat, a <= Liquidity
    PROVE  Reached(a) >= a
  <1> DEFINE n == Len(venues)
             k == Takes(a)
             g == [j \in 1 .. n |-> liquid[venues[j]]]
             d == [j \in 1 .. n |-> k[venues[j]]]
             want == a - idle
  <1>1. /\ n \in Nat /\ DOMAIN venues = 1 .. n /\ idle \in Nat
        /\ liquid \in [Adapters -> Nat]
        /\ \A j \in 1 .. n : venues[j] \in Adapters
        /\ \A i, j \in 1 .. n : venues[i] = venues[j] => i = j
    BY DEF AssetsOK, IsList, IsInjective
  <1>2. /\ k \in [Adapters -> Nat]
        /\ \A v \in Adapters \ ToSet(venues) : k[v] = 0
        /\ \A i \in DOMAIN venues : k[venues[i]] = Drawn(a, i)
    BY TakesFacts
  <1> HIDE DEF n, k
  <1>3. \A i \in 1 .. n : liquid[venues[i]] \in Nat /\ k[venues[i]] \in Nat
    BY <1>1, <1>2
  <1>4. \A i \in 1 .. n :
            /\ g[i] = liquid[venues[i]] /\ d[i] = k[venues[i]]
            /\ Short(a, i) = want - SumOver(g, 1 .. i - 1)
    BY <1>1 DEF Short
  <1>5. Enumerates(venues, n, ToSet(venues))
    BY <1>1 DEF ToSet, Enumerates
  <1>6. SumOver(g, 1 .. n) = SumOver(liquid, ToSet(venues))
    <2>1. \A i \in 1 .. n : liquid[venues[i]] \in Int /\ g[i] = liquid[venues[i]]
      BY <1>3, <1>4
    <2> HIDE DEF g
    <2>2. QED
      BY <1>1, <1>5, <2>1, SumAlong
  <1>7. SumOver(d, 1 .. n) = SumOver(k, ToSet(venues))
    <2>1. \A i \in 1 .. n : k[venues[i]] \in Int /\ d[i] = k[venues[i]]
      BY <1>3, <1>4
    <2> HIDE DEF d
    <2>2. QED
      BY <1>1, <1>5, <2>1, SumAlong, SMTT(40)
  <1>8. SumOver(k, ToSet(venues)) = SumOver(k, Adapters) /\ SumOver(k, Adapters) \in Nat
    BY <1>2, VenueSet, Positions
  <1>9. SumOver(liquid, ToSet(venues)) \in Nat
    <2>1. \A v \in ToSet(venues) : liquid[v] \in Nat
      BY <1>1, VenueSet
    <2>2. QED
      BY <2>1, VenueSet, SumNat
  <1> HIDE DEF g, d, want
  <1>10. \A i \in 1 .. n : /\ g[i] \in Nat /\ d[i] \in Nat
                           /\ \/ d[i] >= g[i]
                              \/ d[i] >= want - SumOver(g, 1 .. i - 1)
    <2>1. TAKE i \in 1 .. n
    <2>2. d[i] = Drawn(a, i) /\ g[i] = liquid[venues[i]] /\ i \in DOMAIN venues
      BY <1>1, <1>2, <1>4
    <2>3. Short(a, i) \in Int /\ g[i] \in Nat /\ d[i] \in Nat
      BY <2>2, DrawnFacts
    <2>4. d[i] = Floored(Lesser(Short(a, i), g[i]))
      BY <2>2 DEF Drawn
    <2>5. d[i] >= g[i] \/ d[i] >= Short(a, i)
      BY <2>3, <2>4 DEF Floored, Lesser
    <2>6. QED
      BY <1>4, <2>3, <2>5
  <1>11. want \in Int
    BY <1>1 DEF want
  <1>12. SumOver(d, 1 .. n) >= want \/ SumOver(d, 1 .. n) >= SumOver(g, 1 .. n)
    BY <1>1, <1>10, <1>11, Waterfall
  <1>13. SumOver(k, Adapters) >= want
         \/ SumOver(k, Adapters) >= SumOver(liquid, ToSet(venues))
    BY <1>6, <1>7, <1>8, <1>12
  <1>14. Reached(a) = idle + SumOver(k, Adapters)
    BY DEF Reached, k
  <1>15. QED
    BY <1>1, <1>8, <1>9, <1>13, <1>14 DEF Liquidity, want

(* What max_withdraw answers to a holder who is not frozen, it can         *)
(* withdraw at once: the shares it costs are no more than the holder has,  *)
(* and the venues, drawn on in any order, give the assets.                 *)
THEOREM MaxWithdrawAlwaysHonest == Spec => []MaxWithdrawHonest
  <1>1. PoolInv => MaxWithdrawHonest
    <2> SUFFICES ASSUME PoolInv, NEW h \in Holders \ share.frozen,
                        MaxWithdraw(h) > 0
                 PROVE  CanExit(h, ToSharesUp(Snap, MaxWithdraw(h)), MaxWithdraw(h))
      BY DEF MaxWithdrawHonest
    <2> DEFINE b == share.bal[h]
               n == Gross + 1
               s == Snap.supply + VIRTUAL
               m == MaxWithdraw(h)
               k == ToSharesUp(Snap, m)
    <2>1. b \in Nat /\ b <= Accrued.bal[h] /\ Accrued.bal[h] \in Nat
      <3>1. share.bal \in [Holders -> Nat]
        BY LedgerTypes DEF PoolInv, LedgerOK
      <3>2. Accrued.bal \in [Holders -> Nat]
        BY AccruedFacts, LedgerTypes DEF LedgerOK
      <3>3. QED
        BY <3>1, <3>2, AccruedFacts
    <2>2. n \in Nat \ {0} /\ s \in Nat \ {0} /\ Snap.nav = Gross
      BY SnapFacts, SharesAssumption
    <2>3. Liquidity \in Nat
      <3>1. AssetsOK /\ idle \in Nat /\ liquid \in [Adapters -> Nat]
        BY DEF PoolInv, AssetsOK
      <3>2. ToSet(venues) \subseteq Adapters /\ IsFiniteSet(ToSet(venues))
        BY <3>1, VenueSet
      <3>3. SumOver(liquid, ToSet(venues)) \in Nat
        BY <3>1, <3>2, SumNat
      <3>4. QED
        BY <3>1, <3>3 DEF Liquidity
    <2>4. ToAssets(Snap, b) = MulDiv(b, n, s) /\ k = MulDivCeil(m, s, n)
      BY <2>2 DEF ToAssets, ToSharesUp
    <2>5. MulDiv(b, n, s) \in Nat /\ MulDiv(b, n, s) * s <= b * n
      BY <2>1, <2>2, MulDivBelow
    <2>6. /\ m \in Nat \ {0} /\ m <= MulDiv(b, n, s) /\ m <= Liquidity
      BY <2>3, <2>4, <2>5 DEF MaxWithdraw, Lesser
    <2>7. Reached(m) >= m
      BY <2>6, ReachesLiquidity DEF PoolInv
    <2> HIDE DEF b, n, s, m
    <2>8. m * s <= b * n
      <3> DEFINE q == MulDiv(b, n, s)
      <3>1. q \in Nat /\ q * s <= b * n /\ m <= q
        BY <2>5, <2>6
      <3> HIDE DEF q
      <3>2. m * s <= q * s
        BY <2>2, <2>6, <3>1
      <3>3. m * s \in Int /\ q * s \in Int /\ b * n \in Int
        BY <2>1, <2>2, <2>6, <3>1
      <3>4. QED
        BY <3>1, <3>2, <3>3
    <2>9. MulDivCeil(m, s, n) <= b
      BY <2>1, <2>2, <2>6, <2>8, MulDivCeilAtMost
    <2>10. MulDivCeil(m, s, n) \in Nat /\ MulDivCeil(m, s, n) * n >= m * s
      BY <2>2, <2>6, MulDivCeilAbove
    <2> HIDE DEF k
    <2>11. k \in Nat /\ k <= b /\ k * n >= m * s
      BY <2>4, <2>9, <2>10
    <2>12. m * s > 0 /\ m * s \in Int
      BY <2>2, <2>6
    <2>13. k # 0
      <3>1. CASE k = 0
        <4>1. k * n = 0
          BY <2>2, <3>1
        <4>2. QED
          BY <2>11, <2>12, <4>1
      <3>2. QED
        BY <3>1
    <2>14. CanDebit(Accrued, h, k)
      <3>1. k >= 0 /\ Accrued.bal[h] >= k
        BY <2>1, <2>11
      <3>2. h \notin Accrued.frozen
        BY AccruedFacts
      <3>3. QED
        BY <3>1, <3>2 DEF CanDebit
    <2>15. CanExit(h, k, m)
      <3>1. k > 0 /\ m > 0
        BY <2>6, <2>11, <2>13
      <3>2. QED
        BY <2>7, <2>14, <3>1 DEF CanExit
    <2>16. QED
      BY <2>15 DEF k, m
  <1>2. QED
    BY <1>1, PoolInit, PoolStep, PTL DEF Spec
=============================================================================
