------------------------- MODULE ArithmeticTheorems -------------------------
(***************************************************************************)
(* What the contracts' arithmetic comes to, whatever the amounts: how the  *)
(* rounded products bound the exact ones, what a sum over a finite set     *)
(* comes to, and what holds at the end of a loop.  Each induction is a     *)
(* search for a smallest counterexample: strict inclusion is well founded  *)
(* on a finite set, and so is the order of the naturals.                   *)
(***************************************************************************)
EXTENDS CommonMath, Sums, FiniteSets, FiniteSetTheorems, WellFoundedInduction, TLAPS

-----------------------------------------------------------------------------
(* Rounding                                                                *)

(* Division with a positive divisor brackets the dividend.                 *)
LEMMA DivBracket ==
    ASSUME NEW n \in Nat, NEW d \in Nat \ {0}
    PROVE  /\ n \div d \in Nat
           /\ d * (n \div d) <= n
           /\ n < d * (n \div d) + d
  OBVIOUS

(* mul_div never yields more than the exact share.                         *)
LEMMA MulDivBelow ==
    ASSUME NEW a \in Nat, NEW b \in Nat, NEW d \in Nat \ {0}
    PROVE  MulDiv(a, b, d) \in Nat /\ MulDiv(a, b, d) * d <= a * b
  <1>1. a * b \in Nat
    OBVIOUS
  <1>2. QED
    BY <1>1, DivBracket DEF MulDiv

(* mul_div_ceil never yields less than the exact share.                    *)
LEMMA MulDivCeilAbove ==
    ASSUME NEW a \in Nat, NEW b \in Nat, NEW d \in Nat \ {0}
    PROVE  MulDivCeil(a, b, d) \in Nat /\ MulDivCeil(a, b, d) * d >= a * b
  <1> DEFINE n == a * b + d - 1
  <1>1. a * b \in Nat /\ n \in Nat
    OBVIOUS
  <1>2. n \div d \in Nat /\ n < d * (n \div d) + d
    BY <1>1, DivBracket
  <1>3. QED
    BY <1>1, <1>2 DEF MulDivCeil

(* mul_div rounds within one unit of the exact share.                      *)
LEMMA MulDivWithinOne ==
    ASSUME NEW a \in Nat, NEW b \in Nat, NEW d \in Nat \ {0}
    PROVE  a * b < (MulDiv(a, b, d) + 1) * d
  <1>1. a * b \in Nat
    OBVIOUS
  <1>2. QED
    BY <1>1, DivBracket DEF MulDiv

(* A quotient is bounded by every bound on its dividend.                   *)
LEMMA QuotientOrder ==
    ASSUME NEW p \in Nat, NEW q \in Nat, NEW d \in Nat \ {0}, p * d < (q + 1) * d
    PROVE  p <= q
  <1>1. CASE p > q
    <2>1. p >= q + 1
      BY <1>1
    <2>2. p * d >= (q + 1) * d
      BY <2>1
    <2>3. QED
      BY <2>2
  <1>2. QED
    BY <1>1

(* mul_div grows with either factor.                                       *)
LEMMA MulDivMonotone ==
    ASSUME NEW a \in Nat, NEW b \in Nat, NEW c \in Nat, NEW d \in Nat \ {0},
           b <= c
    PROVE  MulDiv(a, b, d) <= MulDiv(a, c, d)
  <1>1. /\ MulDiv(a, b, d) \in Nat /\ MulDiv(a, b, d) * d <= a * b
        /\ MulDiv(a, c, d) \in Nat /\ a * c < (MulDiv(a, c, d) + 1) * d
    BY MulDivBelow, MulDivWithinOne
  <1>2. a * b <= a * c
    OBVIOUS
  <1>3. MulDiv(a, b, d) * d < (MulDiv(a, c, d) + 1) * d
    BY <1>1, <1>2
  <1>4. QED
    BY <1>1, <1>3, QuotientOrder

(* Rounding down keeps the order of the first factor too.                  *)
LEMMA MulDivMonotoneLeft ==
    ASSUME NEW a \in Nat, NEW b \in Nat, NEW c \in Nat, NEW d \in Nat \ {0},
           a <= c
    PROVE  MulDiv(a, b, d) <= MulDiv(c, b, d)
  <1>1. MulDiv(b, a, d) <= MulDiv(b, c, d)
    BY MulDivMonotone
  <1>2. a * b = b * a /\ c * b = b * c
    OBVIOUS
  <1>3. QED
    BY <1>1, <1>2 DEF MulDiv

(* A part of an amount is at most the amount.                              *)
LEMMA MulDivPart ==
    ASSUME NEW a \in Nat, NEW b \in Nat, NEW d \in Nat \ {0}, b <= d
    PROVE  MulDiv(a, b, d) \in Nat /\ MulDiv(a, b, d) <= a
  <1>1. MulDiv(a, b, d) \in Nat /\ MulDiv(a, b, d) * d <= a * b
    BY MulDivBelow
  <1>2. a * b <= a * d /\ a * d < (a + 1) * d
    OBVIOUS
  <1> DEFINE p == MulDiv(a, b, d)
  <1> HIDE DEF p
  <1>3. p * d < (a + 1) * d
    <2>1. p * d \in Int /\ a * b \in Int /\ a * d \in Int /\ (a + 1) * d \in Int
      BY <1>1 DEF p
    <2>2. QED
      BY <1>1, <1>2, <2>1 DEF p
  <1>4. p <= a
    BY <1>1, <1>3, QuotientOrder DEF p
  <1>5. QED
    BY <1>1, <1>4 DEF p

(* The factors of a rounded product commute.                               *)
LEMMA MulDivCommutes ==
    ASSUME NEW a \in Nat, NEW b \in Nat, NEW d \in Nat \ {0}
    PROVE  MulDiv(a, b, d) = MulDiv(b, a, d)
  <1>1. a * b = b * a
    OBVIOUS
  <1>2. QED
    BY <1>1 DEF MulDiv

(* The whole of an amount is the amount.                                   *)
LEMMA MulDivWhole ==
    ASSUME NEW b \in Nat, NEW d \in Nat \ {0}
    PROVE  MulDiv(d, b, d) = b
  <1> DEFINE q == MulDiv(d, b, d)
  <1>1. q \in Nat /\ q * d <= d * b /\ d * b < (q + 1) * d
    BY MulDivBelow, MulDivWithinOne
  <1> HIDE DEF q
  <1>2. d * b = b * d /\ b * d < (b + 1) * d
    OBVIOUS
  <1>3. q * d < (b + 1) * d /\ b * d < (q + 1) * d
    <2>1. /\ q * d \in Int /\ b * d \in Int /\ (b + 1) * d \in Int
          /\ (q + 1) * d \in Int
      BY <1>1
    <2>2. QED
      BY <1>1, <1>2, <2>1
  <1>4. q <= b /\ b <= q
    BY <1>1, <1>3, QuotientOrder
  <1>5. QED
    BY <1>1, <1>4 DEF q

(* Splitting an amount never gains by rounding: the slices' shares sum to  *)
(* at most the whole's.                                                    *)
THEOREM SplittingNeverGains ==
    ASSUME NEW a \in Nat, NEW b \in Nat, NEW c \in Nat, NEW d \in Nat \ {0}
    PROVE  MulDiv(a, b, d) + MulDiv(a, c, d) <= MulDiv(a, b + c, d)
  <1>1. /\ MulDiv(a, b, d) \in Nat /\ MulDiv(a, b, d) * d <= a * b
        /\ MulDiv(a, c, d) \in Nat /\ MulDiv(a, c, d) * d <= a * c
    BY MulDivBelow
  <1> DEFINE e == b + c
  <1>0. /\ e \in Nat /\ MulDiv(a, e, d) \in Nat
        /\ a * e < (MulDiv(a, e, d) + 1) * d
    <2>1. e \in Nat
      OBVIOUS
    <2> HIDE DEF e
    <2>2. QED
      BY <2>1, MulDivBelow, MulDivWithinOne
  <1>2. a * (b + c) = a * b + a * c
    OBVIOUS
  <1>3. (MulDiv(a, b, d) + MulDiv(a, c, d)) * d
           = MulDiv(a, b, d) * d + MulDiv(a, c, d) * d
    BY <1>1
  <1>4. (MulDiv(a, b, d) + MulDiv(a, c, d)) * d
           < (MulDiv(a, b + c, d) + 1) * d
    BY <1>0, <1>1, <1>2, <1>3
  <1>5. MulDiv(a, b, d) + MulDiv(a, c, d) \in Nat
    BY <1>1
  <1>6. QED
    BY <1>0, <1>4, <1>5, QuotientOrder

(* Two slices within their pro-rata bounds are together within the bound   *)
(* of the sum; with every amount's product named, the step is linear.      *)
LEMMA ShareAdds ==
    ASSUME NEW p \in Int, NEW q \in Int, NEW f \in Int, NEW x \in Int,
           NEW t \in Int, NEW c \in Int
    PROVE  /\ p * t <= c * f /\ q * t <= c * x => (p + q) * t <= c * (f + x)
           /\ p * t >= c * f /\ q * t >= c * x => (p + q) * t >= c * (f + x)
  <1>1. (p + q) * t = p * t + q * t /\ c * (f + x) = c * f + c * x
    OBVIOUS
  <1>2. p * t \in Int /\ q * t \in Int /\ c * f \in Int /\ c * x \in Int
    OBVIOUS
  <1>3. QED
    BY <1>1, <1>2

(* A positive factor cancels.                                              *)
LEMMA CancelFactor ==
    ASSUME NEW x \in Nat, NEW y \in Nat, NEW d \in Nat \ {0}, x * d <= y * d
    PROVE  x <= y
  <1>1. y * d < (y + 1) * d
    OBVIOUS
  <1>2. x * d < (y + 1) * d
    <2>1. x * d \in Int /\ y * d \in Int /\ (y + 1) * d \in Int
      OBVIOUS
    <2>2. QED
      BY <1>1, <2>1
  <1>3. QED
    BY <1>2, QuotientOrder

(* What is at most the exact share is at most the rounded one.             *)
LEMMA MulDivAtLeast ==
    ASSUME NEW h \in Nat, NEW a \in Nat, NEW b \in Nat, NEW d \in Nat \ {0},
           h * d <= a * b
    PROVE  h <= MulDiv(a, b, d)
  <1> DEFINE q == MulDiv(a, b, d)
  <1>1. q \in Nat /\ a * b < (q + 1) * d
    BY MulDivBelow, MulDivWithinOne
  <1> HIDE DEF q
  <1>2. h * d < (q + 1) * d
    <2>1. h * d \in Int /\ a * b \in Int /\ (q + 1) * d \in Int
      BY <1>1
    <2>2. QED
      BY <1>1, <2>1
  <1>3. QED
    BY <1>1, <1>2, QuotientOrder DEF q

(* mul_div_ceil is the least bound: what covers the exact share covers the *)
(* rounded one.                                                            *)
LEMMA MulDivCeilAtMost ==
    ASSUME NEW a \in Nat, NEW b \in Nat, NEW d \in Nat \ {0}, NEW h \in Nat,
           a * b <= h * d
    PROVE  MulDivCeil(a, b, d) <= h
  <1> DEFINE n == a * b + d - 1
             q == n \div d
  <1>1. n \in Nat /\ a * b \in Nat /\ h * d \in Nat
    OBVIOUS
  <1>2. q \in Nat /\ d * q <= n
    BY <1>1, DivBracket
  <1>3. n < h * d + d
    BY <1>1
  <1>4. MulDivCeil(a, b, d) = q
    BY DEF MulDivCeil
  <1> HIDE DEF q, n
  <1>5. q * d < (h + 1) * d
    <2>1. d * q = q * d /\ (h + 1) * d = h * d + d
      BY <1>2
    <2>2. q * d \in Int /\ (h + 1) * d \in Int
      BY <1>2
    <2>3. QED
      BY <1>1, <1>2, <1>3, <2>1, <2>2
  <1>6. QED
    BY <1>2, <1>4, <1>5, QuotientOrder

(* The order of two ratios is kept by rounding them at one scale.          *)
LEMMA RatioOrder ==
    ASSUME NEW n \in Nat, NEW t \in Nat \ {0}, NEW m \in Nat, NEW s \in Nat \ {0},
           NEW one \in Nat, n * s <= m * t
    PROVE  MulDiv(n, one, t) <= MulDiv(m, one, s)
  <1> DEFINE q == MulDiv(n, one, t)
  <1>1. q \in Nat /\ q * t <= n * one
    BY MulDivBelow
  <1> HIDE DEF q
  <1>2. (q * t) * s <= (n * one) * s
    <2>1. q * t \in Nat /\ n * one \in Nat
      BY <1>1
    <2>2. QED
      BY <1>1, <2>1
  <1>3. (n * s) * one <= (m * t) * one
    <2>1. n * s \in Nat /\ m * t \in Nat
      OBVIOUS
    <2>2. QED
      BY <2>1
  <1>4. /\ (q * t) * s = (q * s) * t /\ (n * one) * s = (n * s) * one
        /\ (m * t) * one = (m * one) * t
    BY <1>1
  <1>5. (q * s) * t <= (m * one) * t
    <2>1. /\ (q * s) * t \in Int /\ (m * one) * t \in Int
          /\ (n * one) * s \in Int
      BY <1>1
    <2>2. QED
      BY <1>2, <1>3, <1>4, <2>1
  <1>6. q * s \in Nat /\ m * one \in Nat
    BY <1>1
  <1>7. q * s <= m * one
    BY <1>5, <1>6, CancelFactor
  <1>8. QED
    BY <1>1, <1>7, MulDivAtLeast DEF q

(* A fee taken in new shares out of the gain above a mark leaves the price *)
(* at the mark or above it: n is what s shares are worth, p their rounded  *)
(* price, h the mark, g the gain, fee at most that, m the shares minted.   *)
LEMMA FeeKeepsMark ==
    ASSUME NEW n \in Nat, NEW s \in Nat \ {0}, NEW one \in Nat, NEW p \in Nat,
           NEW h \in Nat, NEW g \in Nat, NEW fee \in Nat, NEW m \in Nat,
           p * s <= n * one, h <= p, g * one <= (p - h) * s, fee <= g, fee < n,
           m * (n - fee) <= fee * s
    PROVE  h * (s + m) <= n * one
  <1> DEFINE k == n - fee
  <1>1. k \in Nat \ {0} /\ n = k + fee
    OBVIOUS
  <1>2. m * k <= fee * s
    OBVIOUS
  <1> HIDE DEF k
  <1>3. h * s <= k * one
    <2>1. fee * one <= g * one
      OBVIOUS
    <2>2. (p - h) * s = p * s - h * s /\ n * one = k * one + fee * one
      BY <1>1
    <2>3. /\ fee * one \in Int /\ g * one \in Int /\ p * s \in Int /\ h * s \in Int
          /\ k * one \in Int /\ n * one \in Int
      BY <1>1
    <2>4. QED
      BY <2>1, <2>2, <2>3
  <1>4. (s + m) * k <= s * n
    <2>1. (s + m) * k = s * k + m * k /\ s * n = s * k + fee * s
      BY <1>1
    <2>2. s * k \in Int /\ m * k \in Int /\ fee * s \in Int
      BY <1>1
    <2>3. QED
      BY <1>2, <2>1, <2>2
  <1>5. h * ((s + m) * k) <= h * (s * n)
    <2>1. (s + m) * k \in Nat /\ s * n \in Nat
      BY <1>1
    <2>2. QED
      BY <1>4, <2>1
  <1>6. (h * s) * n <= (k * one) * n
    <2>1. h * s \in Nat /\ k * one \in Nat
      BY <1>1
    <2>2. QED
      BY <1>3, <2>1
  <1>7. /\ h * ((s + m) * k) = (h * (s + m)) * k
        /\ h * (s * n) = (h * s) * n
        /\ (k * one) * n = (n * one) * k
    BY <1>1
  <1>8. (h * (s + m)) * k <= (n * one) * k
    <2>1. /\ (h * (s + m)) * k \in Int /\ (n * one) * k \in Int
          /\ (h * s) * n \in Int
      BY <1>1
    <2>2. QED
      BY <1>5, <1>6, <1>7, <2>1
  <1>9. h * (s + m) \in Nat /\ n * one \in Nat
    OBVIOUS
  <1>10. QED
    BY <1>1, <1>8, <1>9, CancelFactor

-----------------------------------------------------------------------------
(* Sums                                                                    *)

(* The element the sum takes from a set first.                             *)
Pick(T) == CHOOSE x \in T : TRUE

(* g is the table of the sums of f over the subsets of S.                  *)
IsTable(g, f, S) ==
    g = [T \in SUBSET S |->
            IF T = {} THEN 0 ELSE f[Pick(T)] + g[T \ {Pick(T)}]]

(* Among the subsets of a finite set with some property one is smallest.   *)
LEMMA SmallestSubset ==
    ASSUME NEW S, IsFiniteSet(S), NEW B, B \subseteq SUBSET S, B # {}
    PROVE  \E U \in B : \A V \in B : ~(V \subseteq U /\ V # U)
  <1>1. FiniteSubsetsOf(S) = SUBSET S
    BY FS_FiniteSubsetsOfFinite
  <1>2. IsWellFoundedOn(StrictSubsetOrdering(S), SUBSET S)
    BY <1>1, FS_StrictSubsetOrderingWellFounded
  <1>3. PICK U \in B : \A V \in B : ~(<<V, U>> \in StrictSubsetOrdering(S))
    BY <1>2, WFMin
  <1>4. QED
    BY <1>3 DEF StrictSubsetOrdering

(* Pick takes a member of a set that has one.                              *)
LEMMA PickIn ==
    ASSUME NEW T, T # {}
    PROVE  Pick(T) \in T
  BY DEF Pick

(* Two tables of the same function agree wherever both are defined.        *)
LEMMA TablesAgree ==
    ASSUME NEW f, NEW S, NEW R, IsFiniteSet(S), NEW g, NEW h,
           IsTable(g, f, S), IsTable(h, f, R), NEW T, T \subseteq S, T \subseteq R
    PROVE  g[T] = h[T]
  <1> DEFINE B == {U \in SUBSET S : U \subseteq R /\ g[U] # h[U]}
  <1> SUFFICES ASSUME B # {}
               PROVE  FALSE
    OBVIOUS
  <1>1. PICK U \in B : \A V \in B : ~(V \subseteq U /\ V # U)
    <2>1. B \subseteq SUBSET S
      OBVIOUS
    <2> HIDE DEF B
    <2>2. QED
      BY <2>1, SmallestSubset
  <1>2. U \subseteq S /\ U \subseteq R /\ g[U] # h[U]
    BY <1>1
  <1>3. CASE U = {}
    <2>1. g[U] = 0 /\ h[U] = 0
      BY <1>3, <1>2 DEF IsTable
    <2>2. QED
      BY <2>1, <1>2
  <1>4. CASE U # {}
    <2>1. Pick(U) \in U
      BY <1>4, PickIn
    <2> DEFINE V == U \ {Pick(U)}
    <2>2. V \subseteq U /\ V # U /\ V \subseteq S /\ V \subseteq R
      BY <2>1, <1>2
    <2>3. g[V] = h[V]
      BY <1>1, <2>2
    <2>4. g[U] = f[Pick(U)] + g[V] /\ h[U] = f[Pick(U)] + h[V]
      BY <1>4, <1>2 DEF IsTable
    <2>5. QED
      BY <2>3, <2>4, <1>2
  <1>5. QED
    BY <1>3, <1>4

(* Every finite set has one.                                               *)
LEMMA TableExists ==
    ASSUME NEW f, NEW S, IsFiniteSet(S)
    PROVE  \E g : IsTable(g, f, S)
  <1> DEFINE B == {U \in SUBSET S : ~\E g : IsTable(g, f, U)}
  <1> SUFFICES ASSUME B # {}
               PROVE  FALSE
    OBVIOUS
  <1>1. PICK U \in B : \A V \in B : ~(V \subseteq U /\ V # U)
    <2>1. B \subseteq SUBSET S
      OBVIOUS
    <2> HIDE DEF B
    <2>2. QED
      BY <2>1, SmallestSubset
  <1>2. U \subseteq S /\ ~\E g : IsTable(g, f, U)
    BY <1>1
  <1> DEFINE table(V) == CHOOSE g : IsTable(g, f, V)
             G == [T \in SUBSET U |->
                     IF T = {} THEN 0
                     ELSE f[Pick(T)] + table(T \ {Pick(T)})[T \ {Pick(T)}]]
  <1>3. ASSUME NEW V, V \subseteq U, V # U
        PROVE  IsTable(table(V), f, V)
    <2>1. V \subseteq S
      BY <1>2, <1>3
    <2>2. V \notin B
      BY <1>1, <1>3
    <2>3. \E g : IsTable(g, f, V)
      BY <2>1, <2>2
    <2>4. QED
      BY <2>3
  <1> HIDE DEF table
  <1>4. ASSUME NEW T, T \subseteq U, T # {}
        PROVE  G[T \ {Pick(T)}] = table(T \ {Pick(T)})[T \ {Pick(T)}]
    <2> DEFINE V == T \ {Pick(T)}
               W == V \ {Pick(V)}
    <2>1. V \subseteq U /\ V # U
      BY <1>4, PickIn
    <2>2. IsTable(table(V), f, V)
      BY <1>3, <2>1
    <2>3. CASE V = {}
      <3>1. table(V)[V] = 0
        BY <2>2, <2>3 DEF IsTable
      <3>2. G[V] = 0
        BY <2>1, <2>3
      <3>3. QED
        BY <3>1, <3>2
    <2>4. CASE V # {}
      <3>1. Pick(V) \in V
        BY <2>4, PickIn
      <3>2. W \subseteq U /\ W # U /\ W \subseteq V
        BY <2>1, <3>1
      <3>3. IsTable(table(W), f, W)
        BY <1>3, <3>2
      <3>4. IsFiniteSet(W)
        BY <1>2, <3>2, FS_Subset
      <3> HIDE DEF W
      <3>5. table(W)[W] = table(V)[W]
        BY <2>2, <3>2, <3>3, <3>4, TablesAgree
      <3>6. table(V)[V] = f[Pick(V)] + table(V)[W]
        BY <2>2, <2>4 DEF IsTable, W
      <3>7. G[V] = f[Pick(V)] + table(W)[W]
        BY <2>1, <2>4 DEF W
      <3>8. QED
        BY <3>5, <3>6, <3>7
    <2>5. QED
      BY <2>3, <2>4
  <1>5. G = [T \in SUBSET U |->
                IF T = {} THEN 0 ELSE f[Pick(T)] + G[T \ {Pick(T)}]]
    BY <1>4
  <1>6. IsTable(G, f, U)
    BY <1>5 DEF IsTable
  <1>7. QED
    BY <1>2, <1>6

(* The recursive function of SumOver is that table.                        *)
LEMMA SumTable ==
    ASSUME NEW f, NEW S, IsFiniteSet(S)
    PROVE  \E g : IsTable(g, f, S) /\ SumOver(f, S) = g[S]
  <1> DEFINE g == CHOOSE g : IsTable(g, f, S)
  <1>1. IsTable(g, f, S)
    BY TableExists
  <1>2. SumOver(f, S) = g[S]
    BY DEF SumOver, IsTable, Pick
  <1>3. QED
    BY <1>1, <1>2

(* The table of a set holds the sum over each of its subsets.              *)
LEMMA SumInTable ==
    ASSUME NEW f, NEW S, IsFiniteSet(S), NEW g, IsTable(g, f, S),
           NEW T, T \subseteq S
    PROVE  SumOver(f, T) = g[T]
  <1>1. IsFiniteSet(T)
    BY FS_Subset
  <1>2. PICK h : IsTable(h, f, T) /\ SumOver(f, T) = h[T]
    BY <1>1, SumTable
  <1>3. QED
    BY <1>1, <1>2, TablesAgree

(* The sum over nothing is 0.                                              *)
LEMMA SumEmpty ==
    ASSUME NEW f
    PROVE  SumOver(f, {}) = 0
  <1>1. IsFiniteSet({})
    BY FS_EmptySet
  <1>2. PICK g : IsTable(g, f, {}) /\ SumOver(f, {}) = g[{}]
    BY <1>1, SumTable
  <1>3. g[{}] = 0
    BY <1>2 DEF IsTable
  <1>4. QED
    BY <1>2, <1>3

(* The sum unfolds at the element it takes first.                          *)
LEMMA SumPick ==
    ASSUME NEW f, NEW S, IsFiniteSet(S), S # {}
    PROVE  /\ Pick(S) \in S
           /\ SumOver(f, S) = f[Pick(S)] + SumOver(f, S \ {Pick(S)})
  <1> DEFINE T == S \ {Pick(S)}
  <1>1. PICK g : IsTable(g, f, S) /\ SumOver(f, S) = g[S]
    BY SumTable
  <1>2. g[S] = f[Pick(S)] + g[T]
    BY <1>1 DEF IsTable
  <1>3. T \subseteq S
    OBVIOUS
  <1> HIDE DEF T
  <1>4. SumOver(f, T) = g[T]
    BY <1>1, <1>3, SumInTable
  <1>5. QED
    BY <1>1, <1>2, <1>4, PickIn DEF T

(* A sum of integers is an integer.                                        *)
LEMMA SumInt ==
    ASSUME NEW f, NEW S, IsFiniteSet(S), \A x \in S : f[x] \in Int
    PROVE  SumOver(f, S) \in Int
  <1> DEFINE B == {U \in SUBSET S : SumOver(f, U) \notin Int}
  <1> SUFFICES ASSUME B # {}
               PROVE  FALSE
    OBVIOUS
  <1>1. PICK U \in B : \A V \in B : ~(V \subseteq U /\ V # U)
    <2>1. B \subseteq SUBSET S
      OBVIOUS
    <2> HIDE DEF B
    <2>2. QED
      BY <2>1, SmallestSubset
  <1>2. U \subseteq S /\ SumOver(f, U) \notin Int /\ IsFiniteSet(U)
    BY <1>1, FS_Subset
  <1>3. U # {}
    BY <1>2, SumEmpty
  <1> DEFINE V == U \ {Pick(U)}
  <1>4. Pick(U) \in U /\ SumOver(f, U) = f[Pick(U)] + SumOver(f, V)
    BY <1>2, <1>3, SumPick
  <1>5. SumOver(f, V) \in Int
    BY <1>1, <1>2, <1>4
  <1>6. f[Pick(U)] \in Int
    BY <1>2, <1>4
  <1>7. QED
    BY <1>2, <1>4, <1>5, <1>6

(* Any element may be taken out first.                                     *)
LEMMA SumRemove ==
    ASSUME NEW f, NEW S, IsFiniteSet(S), \A y \in S : f[y] \in Int,
           NEW x \in S
    PROVE  SumOver(f, S) = f[x] + SumOver(f, S \ {x})
  <1> DEFINE Good(U) ==
                \A y \in U : SumOver(f, U) = f[y] + SumOver(f, U \ {y})
             B == {U \in SUBSET S : ~Good(U)}
  <1> SUFFICES ASSUME B # {}
               PROVE  FALSE
    OBVIOUS
  <1>1. PICK U \in B : \A V \in B : ~(V \subseteq U /\ V # U)
    <2>1. B \subseteq SUBSET S
      OBVIOUS
    <2> HIDE DEF B
    <2>2. QED
      BY <2>1, SmallestSubset
  <1>2. U \subseteq S /\ ~Good(U) /\ IsFiniteSet(U)
    BY <1>1, FS_Subset
  <1>3. PICK y \in U : SumOver(f, U) # f[y] + SumOver(f, U \ {y})
    BY <1>2
  <1> DEFINE c == Pick(U)
             V == U \ {c}
             W == U \ {y}
             X == U \ {c, y}
  <1>4. c \in U /\ SumOver(f, U) = f[c] + SumOver(f, V)
    BY <1>2, <1>3, SumPick
  <1>5. c # y
    BY <1>3, <1>4
  <1>6. /\ y \in V /\ V \ {y} = X /\ V \subseteq U /\ V # U
        /\ c \in W /\ W \ {c} = X /\ W \subseteq U /\ W # U
        /\ X \subseteq S
    BY <1>2, <1>3, <1>4, <1>5
  <1>7. Good(V) /\ Good(W)
    <2>1. V \subseteq S /\ W \subseteq S /\ V \notin B /\ W \notin B
      BY <1>1, <1>2, <1>6
    <2>2. QED
      BY <2>1
  <1> HIDE DEF V, W, X, c
  <1>8. SumOver(f, V) = f[y] + SumOver(f, X) /\ SumOver(f, W) = f[c] + SumOver(f, X)
    BY <1>6, <1>7
  <1>9. f[c] \in Int /\ f[y] \in Int
    BY <1>2, <1>3, <1>4
  <1>10. SumOver(f, X) \in Int
    <2>1. IsFiniteSet(X)
      BY <1>6, FS_Subset
    <2>2. \A z \in X : f[z] \in Int
      BY <1>6
    <2>3. QED
      BY <2>1, <2>2, SumInt
  <1>11. SumOver(f, U) = f[y] + SumOver(f, W)
    BY <1>4, <1>8, <1>9, <1>10
  <1>12. QED
    BY <1>3, <1>11 DEF W

(* A new element adds its summand.                                         *)
LEMMA SumAdd ==
    ASSUME NEW f, NEW S, IsFiniteSet(S), NEW x, x \notin S,
           \A y \in S \cup {x} : f[y] \in Int
    PROVE  SumOver(f, S \cup {x}) = f[x] + SumOver(f, S)
  <1> DEFINE R == S \cup {x}
  <1>1. IsFiniteSet(R)
    BY FS_AddElement
  <1>2. x \in R /\ R \ {x} = S /\ \A y \in R : f[y] \in Int
    OBVIOUS
  <1> HIDE DEF R
  <1>3. SumOver(f, R) = f[x] + SumOver(f, S)
    BY <1>1, <1>2, SumRemove
  <1>4. QED
    BY <1>3 DEF R

(* Functions that agree on a set have the same sum over it.                *)
LEMMA SumEqual ==
    ASSUME NEW f, NEW h, NEW S, IsFiniteSet(S), \A x \in S : f[x] = h[x]
    PROVE  SumOver(f, S) = SumOver(h, S)
  <1> DEFINE B == {U \in SUBSET S : SumOver(f, U) # SumOver(h, U)}
  <1> SUFFICES ASSUME B # {}
               PROVE  FALSE
    OBVIOUS
  <1>1. PICK U \in B : \A V \in B : ~(V \subseteq U /\ V # U)
    <2>1. B \subseteq SUBSET S
      OBVIOUS
    <2> HIDE DEF B
    <2>2. QED
      BY <2>1, SmallestSubset
  <1>2. U \subseteq S /\ SumOver(f, U) # SumOver(h, U) /\ IsFiniteSet(U)
    BY <1>1, FS_Subset
  <1>3. U # {}
    BY <1>2, SumEmpty
  <1> DEFINE V == U \ {Pick(U)}
  <1>4. /\ Pick(U) \in U /\ SumOver(f, U) = f[Pick(U)] + SumOver(f, V)
        /\ SumOver(h, U) = h[Pick(U)] + SumOver(h, V)
    BY <1>2, <1>3, SumPick
  <1>5. SumOver(f, V) = SumOver(h, V)
    BY <1>1, <1>2, <1>4
  <1>6. f[Pick(U)] = h[Pick(U)]
    BY <1>2, <1>4
  <1>7. QED
    BY <1>2, <1>4, <1>5, <1>6

(* A sum of zeros is zero.                                                 *)
LEMMA SumZero ==
    ASSUME NEW f, NEW S, IsFiniteSet(S), \A x \in S : f[x] = 0
    PROVE  SumOver(f, S) = 0
  <1> DEFINE B == {U \in SUBSET S : SumOver(f, U) # 0}
  <1> SUFFICES ASSUME B # {}
               PROVE  FALSE
    OBVIOUS
  <1>1. PICK U \in B : \A V \in B : ~(V \subseteq U /\ V # U)
    <2>1. B \subseteq SUBSET S
      OBVIOUS
    <2> HIDE DEF B
    <2>2. QED
      BY <2>1, SmallestSubset
  <1>2. U \subseteq S /\ SumOver(f, U) # 0 /\ IsFiniteSet(U)
    BY <1>1, FS_Subset
  <1>3. U # {}
    BY <1>2, SumEmpty
  <1> DEFINE V == U \ {Pick(U)}
  <1>4. Pick(U) \in U /\ SumOver(f, U) = f[Pick(U)] + SumOver(f, V)
    BY <1>2, <1>3, SumPick
  <1>5. SumOver(f, V) = 0 /\ f[Pick(U)] = 0
    BY <1>1, <1>2, <1>4
  <1>6. QED
    BY <1>2, <1>4, <1>5

(* A sum of naturals is a natural, and no summand exceeds it.              *)
LEMMA SumNat ==
    ASSUME NEW f, NEW S, IsFiniteSet(S), \A x \in S : f[x] \in Nat
    PROVE  SumOver(f, S) \in Nat /\ \A x \in S : f[x] <= SumOver(f, S)
  <1> DEFINE B == {U \in SUBSET S : SumOver(f, U) \notin Nat}
  <1>1. B = {}
    <2> SUFFICES ASSUME B # {}
                 PROVE  FALSE
      OBVIOUS
    <2>1. PICK U \in B : \A V \in B : ~(V \subseteq U /\ V # U)
      <3>1. B \subseteq SUBSET S
        OBVIOUS
      <3> HIDE DEF B
      <3>2. QED
        BY <3>1, SmallestSubset
    <2>2. U \subseteq S /\ SumOver(f, U) \notin Nat /\ IsFiniteSet(U)
      BY <2>1, FS_Subset
    <2>3. U # {}
      BY <2>2, SumEmpty
    <2> DEFINE V == U \ {Pick(U)}
    <2>4. Pick(U) \in U /\ SumOver(f, U) = f[Pick(U)] + SumOver(f, V)
      BY <2>2, <2>3, SumPick
    <2>5. SumOver(f, V) \in Nat
      BY <2>1, <2>2, <2>4
    <2>6. f[Pick(U)] \in Nat
      BY <2>2, <2>4
    <2>7. QED
      BY <2>2, <2>4, <2>5, <2>6
  <1>2. ASSUME NEW x \in S
        PROVE  f[x] <= SumOver(f, S)
    <2>1. SumOver(f, S) = f[x] + SumOver(f, S \ {x})
      BY SumRemove
    <2>2. SumOver(f, S \ {x}) \in Nat
      BY <1>1
    <2>3. QED
      BY <2>1, <2>2
  <1>3. QED
    BY <1>1, <1>2

(* One summand changed changes the sum by as much.                         *)
LEMMA SumChange ==
    ASSUME NEW f, NEW h, NEW S, IsFiniteSet(S), NEW x \in S,
           \A y \in S : f[y] \in Int /\ h[y] \in Int,
           \A y \in S \ {x} : h[y] = f[y]
    PROVE  SumOver(h, S) = SumOver(f, S) + (h[x] - f[x])
  <1> DEFINE T == S \ {x}
  <1>1. SumOver(f, S) = f[x] + SumOver(f, T) /\ SumOver(h, S) = h[x] + SumOver(h, T)
    BY SumRemove
  <1>2. IsFiniteSet(T) /\ \A y \in T : f[y] \in Int /\ h[y] = f[y]
    BY FS_Subset
  <1> HIDE DEF T
  <1>3. SumOver(h, T) = SumOver(f, T) /\ SumOver(f, T) \in Int
    BY <1>2, SumEqual, SumInt
  <1>4. QED
    BY <1>1, <1>3

(* A set that gains an element gains its summand.                          *)
LEMMA SumGrow ==
    ASSUME NEW f, NEW h, NEW S, IsFiniteSet(S), NEW x, x \notin S,
           \A y \in S : f[y] \in Int /\ h[y] = f[y], h[x] \in Int
    PROVE  SumOver(h, S \cup {x}) = SumOver(f, S) + h[x]
  <1>1. SumOver(h, S \cup {x}) = h[x] + SumOver(h, S)
    BY SumAdd
  <1>2. SumOver(h, S) = SumOver(f, S)
    BY SumEqual
  <1>3. SumOver(f, S) \in Int
    BY SumInt
  <1>4. QED
    BY <1>1, <1>2, <1>3

(* The sum of differences is the difference of the sums.                   *)
LEMMA SumMinus ==
    ASSUME NEW f, NEW g, NEW h, NEW S, IsFiniteSet(S),
           \A x \in S : f[x] \in Int /\ g[x] \in Int /\ h[x] = f[x] - g[x]
    PROVE  SumOver(h, S) = SumOver(f, S) - SumOver(g, S)
  <1> DEFINE B == {U \in SUBSET S :
                      SumOver(h, U) # SumOver(f, U) - SumOver(g, U)}
  <1> SUFFICES ASSUME B # {}
               PROVE  FALSE
    OBVIOUS
  <1>1. PICK U \in B : \A V \in B : ~(V \subseteq U /\ V # U)
    <2>1. B \subseteq SUBSET S
      OBVIOUS
    <2> HIDE DEF B
    <2>2. QED
      BY <2>1, SmallestSubset
  <1>2. /\ U \subseteq S /\ IsFiniteSet(U)
        /\ SumOver(h, U) # SumOver(f, U) - SumOver(g, U)
    BY <1>1, FS_Subset
  <1>3. U # {}
    BY <1>2, SumEmpty
  <1> DEFINE x == Pick(U)
             V == U \ {x}
  <1>4. /\ x \in U
        /\ SumOver(h, U) = h[x] + SumOver(h, V)
        /\ SumOver(f, U) = f[x] + SumOver(f, V)
        /\ SumOver(g, U) = g[x] + SumOver(g, V)
    BY <1>2, <1>3, SumPick
  <1>5. SumOver(h, V) = SumOver(f, V) - SumOver(g, V)
    BY <1>1, <1>2, <1>4
  <1>6. IsFiniteSet(V) /\ V \subseteq S
    BY <1>2, FS_Subset
  <1>7. SumOver(f, V) \in Int /\ SumOver(g, V) \in Int
    <2>1. \A y \in V : f[y] \in Int /\ g[y] \in Int
      BY <1>6
    <2> HIDE DEF V
    <2>2. QED
      BY <1>6, <2>1, SumInt
  <1>8. f[x] \in Int /\ g[x] \in Int /\ h[x] = f[x] - g[x]
    BY <1>2, <1>4
  <1> HIDE DEF V, x
  <1>9. QED
    BY <1>2, <1>4, <1>5, <1>7, <1>8

(* Only where the summands are not zero does a sum take them.              *)
LEMMA SumSupport ==
    ASSUME NEW f, NEW S, IsFiniteSet(S), NEW T, T \subseteq S,
           \A x \in S : f[x] \in Int, \A x \in S \ T : f[x] = 0
    PROVE  SumOver(f, S) = SumOver(f, T)
  <1> DEFINE R == S \ T
             B == {U \in SUBSET R : SumOver(f, T \cup U) # SumOver(f, T)}
  <1>0. IsFiniteSet(T) /\ IsFiniteSet(R)
    BY FS_Subset
  <1>1. ASSUME B # {}
        PROVE  FALSE
    <2>1. PICK U \in B : \A V \in B : ~(V \subseteq U /\ V # U)
      <3>1. B \subseteq SUBSET R
        OBVIOUS
      <3> HIDE DEF B, R
      <3>2. QED
        BY <1>0, <1>1, <3>1, SmallestSubset
    <2>2. U \subseteq R /\ SumOver(f, T \cup U) # SumOver(f, T)
      BY <2>1
    <2>3. PICK x \in U : TRUE
      <3>1. CASE U = {}
        <4>1. T \cup U = T
          BY <3>1
        <4>2. QED
          BY <2>2, <4>1
      <3>2. QED
        BY <3>1
    <2> DEFINE V == U \ {x}
               W == T \cup V
    <2>4. V \subseteq R /\ V \subseteq U /\ V # U
      BY <2>2, <2>3
    <2>5. SumOver(f, W) = SumOver(f, T)
      BY <2>1, <2>4
    <2>6. W \subseteq S /\ x \notin W /\ x \in R /\ W \cup {x} = T \cup U
      BY <2>2, <2>3
    <2>7. IsFiniteSet(W)
      BY <2>6, FS_Subset
    <2>8. f[x] = 0 /\ \A y \in W \cup {x} : f[y] \in Int
      BY <2>6
    <2> HIDE DEF W
    <2>9. SumOver(f, W \cup {x}) = f[x] + SumOver(f, W)
      BY <2>6, <2>7, <2>8, SumAdd
    <2>10. SumOver(f, W) \in Int
      BY <2>7, <2>8, SumInt
    <2>11. f[x] + SumOver(f, W) = SumOver(f, W)
      BY <2>8, <2>10
    <2>12. SumOver(f, T \cup U) = SumOver(f, W)
      BY <2>6, <2>9, <2>11, Zenon
    <2>13. QED
      BY <2>2, <2>5, <2>12, Zenon
  <1>2. R \notin B
    BY <1>1
  <1>3. T \cup R = S
    OBVIOUS
  <1>4. QED
    BY <1>2, <1>3

(* A set of naturals with an element has a least one.                      *)
LEMMA LeastNat ==
    ASSUME NEW B, B \subseteq Nat, B # {}
    PROVE  \E n \in B : \A m \in B : n <= m
  <1>1. PICK n \in B : \A m \in B : ~(<<m, n>> \in OpToRel(<, Nat))
    BY NatLessThanWellFounded, WFMin
  <1>2. \A m \in B : ~(m < n)
    BY <1>1 DEF OpToRel
  <1>3. \A m \in B : m \in Nat /\ n \in Nat
    BY <1>1
  <1>4. \A m \in B : n <= m
    BY <1>2, <1>3
  <1>5. QED
    BY <1>1, <1>4, Zenon

(* s lists the elements of S in its first n places, each once.            *)
Enumerates(s, n, S) ==
    /\ \A x : x \in S <=> \E i \in 1 .. n : x = s[i]
    /\ \A i, j \in 1 .. n : s[i] = s[j] => i = j

(* Summing along a sequence without repetition is summing over its         *)
(* elements.                                                               *)
LEMMA SumAlong ==
    ASSUME NEW n \in Nat, NEW s, NEW S, Enumerates(s, n, S), NEW f, NEW g,
           \A i \in 1 .. n : f[s[i]] \in Int /\ g[i] = f[s[i]]
    PROVE  SumOver(g, 1 .. n) = SumOver(f, S)
  <1> DEFINE T(i) == {s[j] : j \in 1 .. i}
             B == {i \in 0 .. n : SumOver(g, 1 .. i) # SumOver(f, T(i))}
  <1> SUFFICES ASSUME B # {} PROVE FALSE
    <2>1. n \in 0 .. n /\ S = T(n)
      BY DEF Enumerates
    <2>2. QED
      BY <2>1
  <1>1. PICK k \in B : \A m \in B : k <= m
    <2>1. B \subseteq Nat
      OBVIOUS
    <2> HIDE DEF B
    <2>2. QED
      BY <2>1, LeastNat
  <1>2. k \in 0 .. n /\ SumOver(g, 1 .. k) # SumOver(f, T(k))
    BY <1>1
  <1>3. k # 0
    <2>1. SUFFICES ASSUME k = 0 PROVE FALSE
      OBVIOUS
    <2>2. 1 .. k = {} /\ T(k) = {}
      BY <2>1
    <2>3. QED
      BY <1>2, <2>2, SumEmpty
  <1> DEFINE i == k - 1
  <1>4. i \in 0 .. n /\ k \in 1 .. n /\ k = i + 1 /\ i < k
    BY <1>2, <1>3
  <1>5. SumOver(g, 1 .. i) = SumOver(f, T(i))
    BY <1>1, <1>4
  <1> HIDE DEF B, i
  <1>6. 1 .. k = (1 .. i) \cup {k} /\ k \notin 1 .. i /\ IsFiniteSet(1 .. i)
    <2>1. 1 .. k = (1 .. i) \cup {k} /\ k \notin 1 .. i
      BY <1>4
    <2>2. 1 \in Int /\ i \in Int
      BY <1>4
    <2>3. QED
      BY <2>1, <2>2, FS_Interval
  <1>7. T(k) = T(i) \cup {s[k]}
    BY <1>6
  <1>8. s[k] \notin T(i)
    BY <1>4 DEF Enumerates
  <1>9. IsFiniteSet(T(i))
    <2> DEFINE F == [j \in 1 .. i |-> s[j]]
    <2>1. F \in Surjection(1 .. i, T(i))
      BY DEF Surjection
    <2> HIDE DEF F
    <2>2. QED
      BY <1>6, <2>1, FS_Surjection
  <1>10. \A y \in T(i) \cup {s[k]} : f[y] \in Int
    BY <1>4
  <1>11. \A y \in (1 .. i) \cup {k} : g[y] \in Int
    BY <1>4
  <1>12. g[k] = f[s[k]]
    BY <1>4
  <1> HIDE DEF T
  <1>13. SumOver(g, (1 .. i) \cup {k}) = g[k] + SumOver(g, 1 .. i)
    BY <1>6, <1>11, SumAdd
  <1>14. SumOver(f, T(i) \cup {s[k]}) = f[s[k]] + SumOver(f, T(i))
    BY <1>8, <1>9, <1>10, SumAdd
  <1>15. QED
    BY <1>2, <1>5, <1>6, <1>7, <1>12, <1>13, <1>14

-----------------------------------------------------------------------------
(* Loops                                                                   *)

(* What holds before a loop of n turns, and after a turn if before it,     *)
(* holds after each of them: G is the set of turns after which it does.    *)
LEMMA EveryTurn ==
    ASSUME NEW n \in Nat, NEW G, 0 \in G,
           \A k \in 1 .. n : k - 1 \in G => k \in G
    PROVE  \A k \in 0 .. n : k \in G
  <1> DEFINE B == {k \in 0 .. n : k \notin G}
  <1> SUFFICES ASSUME B # {}
               PROVE  FALSE
    OBVIOUS
  <1>1. PICK k \in B : \A m \in B : k <= m
    <2>1. B \subseteq Nat
      OBVIOUS
    <2> HIDE DEF B
    <2>2. QED
      BY <2>1, LeastNat
  <1>2. k \in 1 .. n
    BY <1>1
  <1>3. k - 1 \in G
    BY <1>1, <1>2
  <1>4. QED
    BY <1>1, <1>2, <1>3

(* The states of X that a loop goes through in n turns.                    *)
Runs(r, n, X, start, step) ==
    /\ r \in [0 .. n -> X] /\ r[0] = start
    /\ \A k \in 1 .. n : r[k] = step[k][r[k - 1]]

(* A loop that takes a state of X and its turn to a state of X runs to its *)
(* end.                                                                    *)
LEMMA RunExists ==
    ASSUME NEW n \in Nat, NEW X, NEW start \in X, NEW step \in [1 .. n -> [X -> X]]
    PROVE  \E r : Runs(r, n, X, start, step)
  <1> DEFINE G == {m \in 0 .. n : \E r : Runs(r, m, X, start, step)}
  <1>1. 0 \in G
    <2> DEFINE r == [k \in 0 .. 0 |-> start]
    <2>1. Runs(r, 0, X, start, step)
      BY DEF Runs
    <2> HIDE DEF r
    <2>2. QED
      BY <2>1
  <1>2. ASSUME NEW m \in 1 .. n, m - 1 \in G
        PROVE  m \in G
    <2>1. PICK r : Runs(r, m - 1, X, start, step)
      BY <1>2
    <2> DEFINE x == step[m][r[m - 1]]
               q == [k \in 0 .. m |-> IF k = m THEN x ELSE r[k]]
    <2>2. r[m - 1] \in X
      BY <2>1 DEF Runs
    <2>3. x \in X
      BY <2>2
    <2>4. q \in [0 .. m -> X] /\ q[0] = start
      <3> HIDE DEF x
      <3>1. \A k \in 0 .. m : k # m => k \in 0 .. m - 1
        OBVIOUS
      <3>2. QED
        BY <2>1, <2>3, <3>1 DEF Runs
    <2>5. \A k \in 1 .. m : q[k] = step[k][q[k - 1]]
      <3>1. TAKE k \in 1 .. m
      <3>2. k - 1 \in 0 .. m /\ k - 1 # m /\ q[k - 1] = r[k - 1]
        OBVIOUS
      <3>3. CASE k = m
        BY <3>2, <3>3
      <3>4. CASE k # m
        <4>1. k \in 1 .. m - 1
          BY <3>4
        <4>2. q[k] = r[k] /\ r[k] = step[k][r[k - 1]]
          BY <2>1, <3>4, <4>1 DEF Runs
        <4>3. QED
          BY <3>2, <4>2
      <3>5. QED
        BY <3>3, <3>4
    <2>6. Runs(q, m, X, start, step)
      BY <2>4, <2>5 DEF Runs
    <2> HIDE DEF q
    <2>7. QED
      BY <2>6
  <1> HIDE DEF G
  <1>3. \A k \in 0 .. n : k \in G
    BY <1>1, <1>2, EveryTurn
  <1>4. n \in G
    BY <1>3
  <1>5. QED
    BY <1>4 DEF G
=============================================================================
