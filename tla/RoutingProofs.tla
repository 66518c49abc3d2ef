---------------------------- MODULE RoutingProofs ---------------------------
(***************************************************************************)
(* Why nothing of a trade stays behind at the router or an aggregator, and *)
(* why the fees the DEX aggregator owes are always covered: for every set  *)
(* of tokens, accounts and fees, routes of any length, and whatever the    *)
(* markets take and pay along them.                                        *)
(*                                                                         *)
(* A contract's own is what it holds less the fees it owes.  Every step of *)
(* a call moves what is the contracts' own in a way that one equation      *)
(* tells, in terms of n of a token at an account; the equations of a call  *)
(* add up to what it pays a contract that it names.  The aggregator's own  *)
(* of a token that is exposed to calls counts as nothing throughout.       *)
(***************************************************************************)
EXTENDS Routing, ArithmeticTheorems

-----------------------------------------------------------------------------
(* Books                                                                   *)

Tables(A) == [A -> [Tokens -> Int]]

Works == [bal : Tables(Accounts), owed : Tables(Recipients),
          total : [Tokens -> Int], approved : SUBSET Tokens, ok : BOOLEAN]

(* Where the books are kept: not what a call may take from the aggregator. *)
Kept(c, u) == c # DEX \/ u \notin Exposed

(* What contract c holds of token u, less what it owes of it.              *)
Own(w, c, u) ==
    IF ~Kept(c, u) THEN 0
    ELSE IF c = DEX THEN w.bal[c][u] - w.total[u] ELSE w.bal[c][u]

(* n of token t at account a, as it shows at contract c and token u.       *)
At(a, t, n, c, u) == IF c = a /\ u = t /\ Kept(c, u) THEN n ELSE 0

(* What is owed in token t, by recipient, and whether the total is theirs. *)
OwedIn(o, t) == [r \in Recipients |-> o[r][t]]
Even(w) == \A t \in Tokens : w.total[t] = SumOver(OwedIn(w.owed, t), Recipients)

(* r is what a part of a call has made of w: if it did not revert, nothing *)
(* before it did, the total owed is still the recipients', and no token is *)
(* approved but those exposed to calls.                                    *)
After(w, r) ==
    /\ r \in Works
    /\ r.ok => w.ok
    /\ r.ok /\ Even(w) => Even(r)
    /\ r.ok /\ w.approved \subseteq Exposed => r.approved \subseteq Exposed

(* The parts of the books.                                                 *)
LEMMA WorkTypes ==
    ASSUME NEW w \in Works
    PROVE  /\ w.bal \in Tables(Accounts) /\ w.owed \in Tables(Recipients)
           /\ w.total \in [Tokens -> Int] /\ w.approved \in SUBSET Tokens
           /\ w.ok \in BOOLEAN
  BY DEF Works

(* The contracts are accounts, and no user's nor the market's.             *)
LEMMA AccountFacts ==
    /\ Contracts \subseteq Accounts /\ Users \subseteq Accounts
    /\ Recipients \subseteq Accounts /\ MARKET \in Accounts
    /\ ROUTER \in Contracts /\ DEX \in Contracts /\ FACILITIES \in Contracts
    /\ MARKET \notin Contracts /\ \A a \in Users : a \notin Contracts
  BY DexAssumption DEF Contracts, Accounts

(* What is a contract's own is a number.                                   *)
LEMMA OwnInt ==
    ASSUME NEW w \in Works, NEW c \in Contracts, NEW u \in Tokens
    PROVE  Own(w, c, u) \in Int
  <1>1. w.bal \in Tables(Accounts) /\ w.total \in [Tokens -> Int] /\ c \in Accounts
    BY WorkTypes, AccountFacts
  <1>2. w.bal[c] \in [Tokens -> Int]
    BY <1>1 DEF Tables
  <1>3. w.bal[c][u] \in Int /\ w.total[u] \in Int
    BY <1>1, <1>2
  <1>4. QED
    BY <1>3 DEF Own

(* A number at an account, seen from anywhere.                             *)
LEMMA AtInt ==
    ASSUME NEW a, NEW t, NEW n \in Int, NEW c, NEW u
    PROVE  At(a, t, n, c, u) \in Int
  BY DEF At

(* One part of a call after another.                                       *)
LEMMA AfterTrans ==
    ASSUME NEW w, NEW v, NEW r, After(w, v), After(v, r)
    PROVE  After(w, r)
  BY DEF After

(* Nothing done.                                                           *)
LEMMA AfterSelf ==
    ASSUME NEW w \in Works
    PROVE  After(w, w)
  BY DEF After

(* g is table f of A with n more of t at a.                                *)
Added(A, f, a, t, n, g) ==
    /\ g \in Tables(A) /\ g[a][t] = f[a][t] + n
    /\ \A c \in A, u \in Tokens : f[c][u] \in Int /\ g[c][u] \in Int
    /\ \A c \in A, u \in Tokens : c # a \/ u # t => g[c][u] = f[c][u]

(* An amount added to a table.                                             *)
LEMMA AddFacts ==
    ASSUME NEW A, NEW f \in Tables(A), NEW a \in A, NEW t \in Tokens, NEW n \in Int,
           NEW g, g = Add(f, a, t, n)
    PROVE  Added(A, f, a, t, n, g)
  <1> DEFINE row == f[a]
             x == f[a][t] + n
             new == [row EXCEPT ![t] = x]
  <1>1. g = [f EXCEPT ![a] = new]
    BY DEF Add
  <1>2. row \in [Tokens -> Int] /\ f \in [A -> [Tokens -> Int]]
    BY DEF Tables
  <1>3. f[a][t] \in Int /\ x \in Int
    BY <1>2
  <1> HIDE DEF x
  <1>4. new \in [Tokens -> Int] /\ new[t] = x /\ \A u \in Tokens \ {t} : new[u] = f[a][u]
    BY <1>2, <1>3
  <1> HIDE DEF new
  <1>5. g \in [A -> [Tokens -> Int]] /\ g[a] = new /\ \A c \in A \ {a} : g[c] = f[c]
    BY <1>1, <1>2, <1>4
  <1>6. \A c \in A : f[c] \in [Tokens -> Int] /\ g[c] \in [Tokens -> Int]
    BY <1>2, <1>5
  <1>7. \A c \in A, u \in Tokens : f[c][u] \in Int /\ g[c][u] \in Int
    BY <1>6
  <1>8. QED
    BY <1>4, <1>5, <1>7 DEF x, Tables, Added

(* r is what a transfer, a condition, a fee owed has made of w.            *)
Sent(w, t, from, to, n, r) ==
    /\ After(w, r) /\ r.total = w.total
    /\ r.ok => n >= 0
    /\ r.ok => \A c \in Contracts, u \in Tokens :
                  Own(r, c, u) = Own(w, c, u)
                                 + (At(to, t, n, c, u) - At(from, t, n, c, u))
Required(w, p, r) ==
    /\ After(w, r) /\ r.total = w.total /\ r.bal = w.bal
    /\ r.ok => p
    /\ \A c \in Contracts, u \in Tokens : Own(r, c, u) = Own(w, c, u)
Credited(w, t, n, r) ==
    /\ After(w, r) /\ r.bal = w.bal
    /\ \A c \in Contracts, u \in Tokens :
          Own(r, c, u) = Own(w, c, u) - At(DEX, t, n, c, u)

(* A transfer.                                                             *)
LEMMA SendFacts ==
    ASSUME NEW w \in Works, NEW t \in Tokens, NEW from \in Accounts, NEW to \in Accounts,
           NEW n \in Int, NEW r, r = Send(w, t, from, to, n)
    PROVE  Sent(w, t, from, to, n, r)
  <1> DEFINE fails == ~w.ok \/ n < 0 \/ w.bal[from][t] < n
             f == Add(w.bal, from, t, -n)
             g == Add(f, to, t, n)
  <1>1. /\ w.bal \in Tables(Accounts) /\ w.owed \in Tables(Recipients)
        /\ w.total \in [Tokens -> Int] /\ w.ok \in BOOLEAN
    BY WorkTypes
  <1>2. r = IF fails THEN [w EXCEPT !.ok = FALSE] ELSE [w EXCEPT !.bal = g]
    BY DEF Send
  <1>3. -n \in Int
    OBVIOUS
  <1>4. /\ f \in Tables(Accounts) /\ f[from][t] = w.bal[from][t] + (-n)
        /\ \A c \in Accounts, u \in Tokens : w.bal[c][u] \in Int /\ f[c][u] \in Int
        /\ \A c \in Accounts, u \in Tokens :
              c # from \/ u # t => f[c][u] = w.bal[c][u]
    <2> DEFINE m == -n
               b == w.bal
    <2>1. b \in Tables(Accounts) /\ m \in Int /\ f = Add(b, from, t, m)
      BY <1>1, <1>3
    <2> HIDE DEF m, f, b
    <2>2. Added(Accounts, b, from, t, m, f)
      BY <2>1, AddFacts, Zenon
    <2>3. QED
      BY <2>2 DEF m, b, Added
  <1> HIDE DEF f
  <1>5. /\ g \in Tables(Accounts) /\ g[to][t] = f[to][t] + n
        /\ \A c \in Accounts, u \in Tokens : g[c][u] \in Int
        /\ \A c \in Accounts, u \in Tokens : c # to \/ u # t => g[c][u] = f[c][u]
    <2> HIDE DEF g
    <2>1. f \in Tables(Accounts) /\ g = Add(f, to, t, n)
      BY <1>4 DEF g
    <2>2. Added(Accounts, f, to, t, n, g)
      BY <2>1, AddFacts, Zenon
    <2>3. QED
      BY <2>2 DEF Added
  <1> HIDE DEF g, fails
  <1>6. CASE fails
    <2>1. r = [w EXCEPT !.ok = FALSE]
      BY <1>2, <1>6
    <2>2. r \in Works /\ ~r.ok /\ r.total = w.total
      BY <2>1 DEF Works
    <2>3. QED
      BY <2>2 DEF After, Sent
  <1>7. CASE ~fails
    <2>1. r = [w EXCEPT !.bal = g]
      BY <1>2, <1>7
    <2>2. /\ r \in Works /\ r.bal = g /\ r.owed = w.owed /\ r.total = w.total
          /\ r.approved = w.approved /\ r.ok = w.ok
      BY <1>5, <2>1 DEF Works
    <2>3. After(w, r)
      BY <2>2 DEF After, Even
    <2>4. w.ok /\ n >= 0
      BY <1>7 DEF fails
    <2>5. ASSUME NEW c \in Contracts, NEW u \in Tokens
          PROVE  Own(r, c, u) = Own(w, c, u)
                                + (At(to, t, n, c, u) - At(from, t, n, c, u))
      <3>1. c \in Accounts
        BY AccountFacts
      <3>2. ASSUME Kept(c, u)
            PROVE  g[c][u] = w.bal[c][u] + (At(to, t, n, c, u) - At(from, t, n, c, u))
        <4>1. w.bal[c][u] \in Int /\ f[c][u] \in Int /\ g[c][u] \in Int
          BY <1>4, <1>5, <3>1
        <4>2. f[c][u] = w.bal[c][u] - At(from, t, n, c, u)
          BY <1>4, <3>1, <3>2, <4>1 DEF At
        <4>3. g[c][u] = f[c][u] + At(to, t, n, c, u)
          BY <1>5, <3>1, <3>2, <4>1 DEF At
        <4>4. At(from, t, n, c, u) \in Int /\ At(to, t, n, c, u) \in Int
          BY AtInt
        <4>5. QED
          BY <4>1, <4>2, <4>3, <4>4
      <3>3. w.bal[c][u] \in Int /\ w.total[u] \in Int
        BY <1>1, <1>4, <3>1
      <3>4. At(from, t, n, c, u) \in Int /\ At(to, t, n, c, u) \in Int
        BY AtInt
      <3>5. CASE Kept(c, u)
        BY <2>2, <3>2, <3>3, <3>4, <3>5 DEF Own
      <3>6. CASE ~Kept(c, u)
        BY <3>6 DEF Own, At
      <3>7. QED
        BY <3>5, <3>6
    <2>6. QED
      BY <2>2, <2>3, <2>4, <2>5 DEF Sent
  <1>8. QED
    BY <1>6, <1>7

(* A condition.                                                            *)
LEMMA RequireFacts ==
    ASSUME NEW w \in Works, NEW p \in BOOLEAN, NEW r, r = Require(w, p)
    PROVE  Required(w, p, r)
  <1>1. w.ok \in BOOLEAN /\ r = [w EXCEPT !.ok = w.ok /\ p]
    BY WorkTypes DEF Require
  <1> DEFINE q == w.ok /\ p
  <1>2. q \in BOOLEAN /\ (q => p) /\ (q => w.ok)
    BY <1>1
  <1>3. r = [w EXCEPT !.ok = q]
    BY <1>1
  <1> HIDE DEF q
  <1>4. /\ r \in Works /\ r.bal = w.bal /\ r.owed = w.owed /\ r.total = w.total
        /\ r.approved = w.approved /\ r.ok = q
    BY <1>2, <1>3 DEF Works
  <1>5. QED
    BY <1>2, <1>4 DEF After, Even, Own, Required

(* A fee owed.                                                             *)
LEMMA CreditFacts ==
    ASSUME NEW w \in Works, NEW who \in Recipients, NEW t \in Tokens, NEW n \in Int,
           NEW r, r = Credit(w, who, t, n)
    PROVE  Credited(w, t, n, r)
  <1> DEFINE f == Add(w.owed, who, t, n)
             x == w.total[t] + n
             g == [w.total EXCEPT ![t] = x]
  <1>1. /\ w.bal \in Tables(Accounts) /\ w.owed \in Tables(Recipients)
        /\ w.total \in [Tokens -> Int] /\ w.ok \in BOOLEAN
    BY WorkTypes
  <1>2. r = [w EXCEPT !.owed = f, !.total = g]
    BY DEF Credit
  <1>3. /\ f \in Tables(Recipients) /\ f[who][t] = w.owed[who][t] + n
        /\ \A c \in Recipients, u \in Tokens : w.owed[c][u] \in Int /\ f[c][u] \in Int
        /\ \A c \in Recipients, u \in Tokens :
              c # who \/ u # t => f[c][u] = w.owed[c][u]
    <2> DEFINE o == w.owed
    <2>1. o \in Tables(Recipients) /\ f = Add(o, who, t, n)
      BY <1>1
    <2> HIDE DEF o, f
    <2>2. Added(Recipients, o, who, t, n, f)
      BY <2>1, AddFacts, Zenon
    <2>3. QED
      BY <2>2 DEF o, Added
  <1>4. x \in Int /\ x = w.total[t] + n
    BY <1>1
  <1> HIDE DEF f, x
  <1>5. g \in [Tokens -> Int] /\ g[t] = x /\ \A u \in Tokens \ {t} : g[u] = w.total[u]
    BY <1>1, <1>4
  <1> HIDE DEF g
  <1>6. /\ r \in Works /\ r.bal = w.bal /\ r.owed = f /\ r.total = g
        /\ r.approved = w.approved /\ r.ok = w.ok
    BY <1>2, <1>3, <1>5 DEF Works
  <1>7. ASSUME Even(w), NEW u \in Tokens
        PROVE  g[u] = SumOver(OwedIn(f, u), Recipients)
    <2> DEFINE a == OwedIn(w.owed, u)
               b == OwedIn(f, u)
    <2>1. \A y \in Recipients : /\ a[y] \in Int /\ b[y] \in Int
                                /\ a[y] = w.owed[y][u] /\ b[y] = f[y][u]
      BY <1>3 DEF OwedIn
    <2>2. w.total[u] = SumOver(a, Recipients)
      BY <1>7 DEF Even
    <2> HIDE DEF a, b
    <2>3. CASE u = t
      <3>1. \A y \in Recipients \ {who} : b[y] = a[y]
        BY <1>3, <2>1
      <3>2. SumOver(b, Recipients) = SumOver(a, Recipients) + (b[who] - a[who])
        BY <2>1, <3>1, DexAssumption, SumChange
      <3>3. b[who] = a[who] + n /\ a[who] \in Int
        BY <1>3, <2>1, <2>3
      <3>4. g[u] = w.total[u] + n /\ w.total[u] \in Int
        BY <1>1, <1>4, <1>5, <2>3
      <3>5. QED
        BY <2>2, <3>2, <3>3, <3>4 DEF b
    <2>4. CASE u # t
      <3>1. \A y \in Recipients : b[y] = a[y]
        BY <1>3, <2>1, <2>4
      <3>2. SumOver(b, Recipients) = SumOver(a, Recipients)
        BY <3>1, DexAssumption, SumEqual
      <3>3. g[u] = w.total[u]
        BY <1>5, <2>4
      <3>4. QED
        BY <2>2, <3>2, <3>3 DEF b
    <2>5. QED
      BY <2>3, <2>4
  <1>8. After(w, r)
    BY <1>6, <1>7 DEF After, Even
  <1>9. ASSUME NEW c \in Contracts, NEW u \in Tokens
        PROVE  Own(r, c, u) = Own(w, c, u) - At(DEX, t, n, c, u)
    <2>1. w.total[u] \in Int /\ w.total[t] \in Int /\ g[u] \in Int
      BY <1>1, <1>5
    <2>2. w.bal[c][u] \in Int
      <3>1. c \in Accounts
        BY AccountFacts
      <3>2. w.bal[c] \in [Tokens -> Int]
        BY <1>1, <3>1 DEF Tables
      <3>3. QED
        BY <3>2
    <2>3. Kept(DEX, u) => g[u] = w.total[u] + At(DEX, t, n, DEX, u)
      BY <1>4, <1>5, <2>1 DEF At
    <2>4. CASE c = DEX /\ Kept(c, u)
      <3>1. At(DEX, t, n, c, u) \in Int
        BY AtInt
      <3>2. QED
        BY <1>6, <2>1, <2>2, <2>3, <2>4, <3>1 DEF Own
    <2>5. CASE c # DEX /\ Kept(c, u)
      BY <1>6, <2>2, <2>5 DEF Own, At
    <2>6. CASE ~Kept(c, u)
      BY <2>6 DEF Own, At
    <2>7. QED
      BY <2>4, <2>5, <2>6
  <1>10. QED
    BY <1>6, <1>8, <1>9 DEF Credited

(* What is at an account outside shows at no contract.                     *)
LEMMA AtOutside ==
    ASSUME NEW a, a \notin Contracts, NEW t, NEW n, NEW c \in Contracts, NEW u
    PROVE  At(a, t, n, c, u) = 0
  BY DEF At

-----------------------------------------------------------------------------
(* A split, hop by hop                                                     *)

HopStates == [w : Works, tok : Tokens, amount : Int]

(* What the aggregator had in hand it has paid for what it has now.        *)
Swapped(w, tok, n, x) ==
    /\ x \in HopStates /\ After(w, x.w)
    /\ x.w.ok => \A c \in Contracts, u \in Tokens :
                    Own(x.w, c, u) = Own(w, c, u)
                                     + (At(DEX, x.tok, x.amount, c, u)
                                        - At(DEX, tok, n, c, u))

(* One hop.                                                                *)
LEMMA HopFacts ==
    ASSUME NEW x \in HopStates, NEW hop \in Hops, NEW r, r = Hop(x, hop)
    PROVE  Swapped(x.w, x.tok, x.amount, r) /\ r.tok = hop.out
  <1> DEFINE w == x.w
             sent == Send(w, x.tok, DEX, MARKET, x.amount)
             got == Send(sent, hop.out, MARKET, DEX, hop.pays)
             m == Gained(got, sent, DEX, hop.out)
  <1>1. w \in Works /\ x.tok \in Tokens /\ x.amount \in Int
    BY DEF HopStates
  <1>2. hop.out \in Tokens /\ hop.pays \in Int
    BY DEF Hops
  <1>3. DEX \in Accounts /\ MARKET \in Accounts /\ DEX \in Contracts
        /\ MARKET \notin Contracts
    BY AccountFacts
  <1>4. r = [w |-> got, tok |-> hop.out, amount |-> m]
    BY DEF Hop
  <1> HIDE DEF w, sent, got, m
  <1>5. Sent(w, x.tok, DEX, MARKET, x.amount, sent)
    BY <1>1, <1>3, SendFacts DEF sent
  <1>6. sent \in Works
    BY <1>5 DEF Sent, After
  <1>7. Sent(sent, hop.out, MARKET, DEX, hop.pays, got)
    BY <1>2, <1>3, <1>6, SendFacts DEF got
  <1>8. got \in Works
    BY <1>7 DEF Sent, After
  <1>9. m \in Int /\ m = got.bal[DEX][hop.out] - sent.bal[DEX][hop.out]
    <2>1. got.bal[DEX] \in [Tokens -> Int] /\ sent.bal[DEX] \in [Tokens -> Int]
      BY <1>3, <1>6, <1>8, WorkTypes DEF Tables
    <2>2. QED
      BY <1>2, <2>1 DEF m, Gained
  <1>10. After(w, got)
    BY <1>5, <1>7, AfterTrans DEF Sent
  <1>11. r \in HopStates /\ r.w = got /\ r.tok = hop.out /\ r.amount = m
    BY <1>2, <1>4, <1>8, <1>9 DEF HopStates
  <1>12. ASSUME got.ok, Kept(DEX, hop.out)
         PROVE  m = hop.pays
    <2>1. Own(got, DEX, hop.out)
             = Own(sent, DEX, hop.out) + (At(DEX, hop.out, hop.pays, DEX, hop.out)
                                          - At(MARKET, hop.out, hop.pays, DEX, hop.out))
      BY <1>2, <1>3, <1>7, <1>12 DEF Sent
    <2>2. /\ At(DEX, hop.out, hop.pays, DEX, hop.out) = hop.pays
          /\ At(MARKET, hop.out, hop.pays, DEX, hop.out) = 0
      BY <1>3, <1>12 DEF At
    <2>3. Own(got, DEX, hop.out) - Own(sent, DEX, hop.out) = m
      <3>1. got.total = sent.total /\ got.total[hop.out] \in Int
        BY <1>2, <1>7, <1>8, WorkTypes DEF Sent
      <3>2. got.bal[DEX][hop.out] \in Int /\ sent.bal[DEX][hop.out] \in Int
        <4>1. got.bal[DEX] \in [Tokens -> Int] /\ sent.bal[DEX] \in [Tokens -> Int]
          BY <1>3, <1>6, <1>8, WorkTypes DEF Tables
        <4>2. QED
          BY <1>2, <4>1
      <3>3. QED
        BY <1>9, <1>12, <3>1, <3>2 DEF Own
    <2>4. Own(sent, DEX, hop.out) \in Int
      BY <1>2, <1>3, <1>6, OwnInt
    <2>5. QED
      BY <1>2, <2>1, <2>2, <2>3, <2>4
  <1>13. ASSUME got.ok, NEW c \in Contracts, NEW u \in Tokens
         PROVE  Own(got, c, u) = Own(w, c, u) + (At(DEX, hop.out, m, c, u)
                                                 - At(DEX, x.tok, x.amount, c, u))
    <2>1. sent.ok
      BY <1>7, <1>13 DEF Sent, After
    <2>2. Own(sent, c, u) = Own(w, c, u) + (At(MARKET, x.tok, x.amount, c, u)
                                            - At(DEX, x.tok, x.amount, c, u))
      BY <1>5, <2>1 DEF Sent
    <2>3. Own(got, c, u) = Own(sent, c, u) + (At(DEX, hop.out, hop.pays, c, u)
                                              - At(MARKET, hop.out, hop.pays, c, u))
      BY <1>7, <1>13 DEF Sent
    <2>4. /\ At(MARKET, x.tok, x.amount, c, u) = 0
          /\ At(MARKET, hop.out, hop.pays, c, u) = 0
      BY <1>3, AtOutside
    <2>5. /\ At(DEX, x.tok, x.amount, c, u) \in Int
          /\ At(DEX, hop.out, hop.pays, c, u) \in Int /\ Own(w, c, u) \in Int
      BY <1>1, <1>2, AtInt, OwnInt
    <2>6. At(DEX, hop.out, m, c, u) = At(DEX, hop.out, hop.pays, c, u)
      BY <1>12, <1>13 DEF At
    <2>7. QED
      BY <2>2, <2>3, <2>4, <2>5, <2>6
  <1>14. QED
    BY <1>10, <1>11, <1>13 DEF Swapped, w

(* Hop after hop: what one delivers the next one spends.                   *)
LEMMA SwappedTrans ==
    ASSUME NEW w \in Works, NEW tok \in Tokens, NEW n \in Int, NEW x, NEW r,
           Swapped(w, tok, n, x), Swapped(x.w, x.tok, x.amount, r)
    PROVE  Swapped(w, tok, n, r)
  <1>1. /\ x \in HopStates /\ r \in HopStates /\ After(w, x.w) /\ After(x.w, r.w)
    BY DEF Swapped
  <1>2. /\ x.w \in Works /\ x.tok \in Tokens /\ x.amount \in Int
        /\ r.w \in Works /\ r.tok \in Tokens /\ r.amount \in Int
    BY <1>1 DEF HopStates
  <1>3. After(w, r.w) /\ (r.w.ok => x.w.ok)
    BY <1>1, AfterTrans DEF After
  <1>4. ASSUME r.w.ok, NEW c \in Contracts, NEW u \in Tokens
        PROVE  Own(r.w, c, u) = Own(w, c, u) + (At(DEX, r.tok, r.amount, c, u)
                                                - At(DEX, tok, n, c, u))
    <2>1. Own(x.w, c, u) = Own(w, c, u) + (At(DEX, x.tok, x.amount, c, u)
                                           - At(DEX, tok, n, c, u))
      BY <1>3, <1>4 DEF Swapped
    <2>2. Own(r.w, c, u) = Own(x.w, c, u) + (At(DEX, r.tok, r.amount, c, u)
                                             - At(DEX, x.tok, x.amount, c, u))
      BY <1>4 DEF Swapped
    <2>3. /\ At(DEX, x.tok, x.amount, c, u) \in Int /\ At(DEX, tok, n, c, u) \in Int
          /\ At(DEX, r.tok, r.amount, c, u) \in Int /\ Own(w, c, u) \in Int
      BY <1>2, AtInt, OwnInt
    <2>4. QED
      BY <2>1, <2>2, <2>3
  <1>5. QED
    BY <1>1, <1>3, <1>4 DEF Swapped

(* The states of a split along its hops.                                   *)
IsFollowed(x, w, tin, split) ==
    x = [i \in 0 .. Len(split.hops) |->
            IF i = 0 THEN [w |-> w, tok |-> tin, amount |-> split.amount]
            ELSE Hop(x[i - 1], split.hops[i])]

(* A split goes through its hops.                                          *)
LEMMA FollowRuns ==
    ASSUME NEW w \in Works, NEW tin \in Tokens, NEW split \in Splits
    PROVE  \E x : /\ IsFollowed(x, w, tin, split)
                  /\ Follow(w, tin, split) = x[Len(split.hops)]
  <1> DEFINE hops == split.hops
             n == Len(hops)
             start == [w |-> w, tok |-> tin, amount |-> split.amount]
             step == [i \in 1 .. n |-> [x \in HopStates |-> Hop(x, hops[i])]]
  <1>1. n \in Nat /\ start \in HopStates /\ \A i \in 1 .. n : hops[i] \in Hops
    BY DEF Splits, HopStates
  <1> HIDE DEF hops, n, start
  <1>2. \A i \in 1 .. n, x \in HopStates : Hop(x, hops[i]) \in HopStates
    <2>1. TAKE i \in 1 .. n, x \in HopStates
    <2> DEFINE r == Hop(x, hops[i])
    <2>2. Swapped(x.w, x.tok, x.amount, r)
      BY <1>1, HopFacts
    <2> HIDE DEF r
    <2>3. r \in HopStates
      BY <2>2 DEF Swapped
    <2>4. QED
      BY <2>3 DEF r
  <1>3. /\ step \in [1 .. n -> [HopStates -> HopStates]]
        /\ \A i \in 1 .. n, x \in HopStates : step[i][x] = Hop(x, hops[i])
    <2>1. \A i \in 1 .. n :
             [x \in HopStates |-> Hop(x, hops[i])] \in [HopStates -> HopStates]
      BY <1>2
    <2>2. QED
      BY <2>1
  <1> HIDE DEF step
  <1>4. PICK r : Runs(r, n, HopStates, start, step)
    BY <1>1, <1>3, RunExists, Zenon
  <1>5. r \in [0 .. n -> HopStates] /\ r[0] = start
        /\ \A i \in 1 .. n : r[i] = step[i][r[i - 1]]
    BY <1>4 DEF Runs
  <1>6. \A i \in 1 .. n : r[i] = Hop(r[i - 1], hops[i])
    <2>1. TAKE i \in 1 .. n
    <2>2. i - 1 \in 0 .. n
      BY <1>1
    <2>3. r[i - 1] \in HopStates
      BY <1>5, <2>2
    <2>4. QED
      BY <1>3, <1>5, <2>3
  <1>7. IsFollowed(r, w, tin, split)
    <2>1. r = [i \in 0 .. n |-> r[i]]
      BY <1>5
    <2>2. \A i \in 0 .. n : r[i] = IF i = 0 THEN start ELSE Hop(r[i - 1], hops[i])
      BY <1>1, <1>5, <1>6
    <2>3. r = [i \in 0 .. n |-> IF i = 0 THEN start ELSE Hop(r[i - 1], hops[i])]
      BY <2>1, <2>2, Zenon
    <2>4. QED
      BY <2>3 DEF IsFollowed, n, hops, start
  <1> DEFINE g == CHOOSE x : IsFollowed(x, w, tin, split)
  <1>8. IsFollowed(g, w, tin, split)
    BY <1>7
  <1>9. Follow(w, tin, split) = g[Len(split.hops)]
    BY Zenon DEF Follow, IsFollowed
  <1>10. QED
    BY <1>8, <1>9

(* A split in whole: its amount for what the last hop pays.                *)
LEMMA FollowFacts ==
    ASSUME NEW w \in Works, NEW tin \in Tokens, NEW split \in Splits,
           NEW x, x = Follow(w, tin, split)
    PROVE  /\ Swapped(w, tin, split.amount, x)
           /\ Len(split.hops) > 0 => x.tok = split.hops[Len(split.hops)].out
  <1> DEFINE hops == split.hops
             n == Len(hops)
             a == split.amount
             start == [w |-> w, tok |-> tin, amount |-> a]
  <1>1. /\ n \in Nat /\ a \in Int /\ start \in HopStates
        /\ \A i \in 1 .. n : hops[i] \in Hops
    BY DEF Splits, HopStates
  <1>2. PICK r : IsFollowed(r, w, tin, split) /\ x = r[n]
    BY FollowRuns
  <1>3. start.w = w /\ start.tok = tin /\ start.amount = a
    OBVIOUS
  <1> DEFINE body(i) == IF i = 0 THEN start ELSE Hop(r[i - 1], hops[i])
  <1>4. r = [i \in 0 .. n |-> body(i)]
    BY <1>2 DEF IsFollowed
  <1>5. body(0) = start /\ \A i \in 1 .. n : body(i) = Hop(r[i - 1], hops[i])
    <2>1. ASSUME NEW i \in 1 .. n PROVE i # 0
      BY <1>1
    <2>2. QED
      BY <2>1
  <1> HIDE DEF body, start, hops, n, a
  <1>6. r[0] = start /\ \A i \in 1 .. n : r[i] = Hop(r[i - 1], hops[i])
    <2>1. \A i \in 0 .. n : r[i] = body(i)
      BY <1>4
    <2>2. 0 \in 0 .. n /\ \A i \in 1 .. n : i \in 0 .. n
      BY <1>1
    <2>3. QED
      BY <1>5, <2>1, <2>2, Zenon
  <1> DEFINE Good(i) == /\ Swapped(w, tin, a, r[i])
                        /\ i > 0 => r[i].tok = hops[i].out
             G == {i \in 0 .. n : Good(i)}
  <1>7. 0 \in G
    <2>1. After(w, w) /\ start \in HopStates
      BY <1>1, AfterSelf
    <2>2. ASSUME NEW c \in Contracts, NEW u \in Tokens
          PROVE  Own(w, c, u) = Own(w, c, u) + (At(DEX, tin, a, c, u)
                                                - At(DEX, tin, a, c, u))
      <3>1. Own(w, c, u) \in Int /\ At(DEX, tin, a, c, u) \in Int
        BY <1>1, OwnInt, AtInt
      <3>2. QED
        BY <3>1
    <2>3. Swapped(w, tin, a, start)
      BY <1>3, <2>1, <2>2 DEF Swapped
    <2>4. QED
      BY <1>1, <1>6, <2>3
  <1>8. ASSUME NEW i \in 1 .. n, i - 1 \in G
        PROVE  i \in G
    <2> DEFINE p == r[i - 1]
               q == r[i]
               h == hops[i]
    <2>1. Swapped(w, tin, a, p) /\ q = Hop(p, h) /\ h \in Hops
      BY <1>1, <1>6, <1>8
    <2> HIDE DEF p, q, h
    <2>2. p \in HopStates
      BY <2>1 DEF Swapped
    <2>3. Swapped(p.w, p.tok, p.amount, q) /\ q.tok = h.out
      BY <2>1, <2>2, HopFacts
    <2>4. Swapped(w, tin, a, q)
      BY <1>1, <2>1, <2>3, SwappedTrans
    <2>5. QED
      BY <1>1, <2>3, <2>4 DEF q, h
  <1> HIDE DEF G
  <1>9. \A i \in 0 .. n : i \in G
    BY <1>1, <1>7, <1>8, EveryTurn
  <1>10. n \in G
    BY <1>1, <1>9
  <1>11. Swapped(w, tin, a, x) /\ (n > 0 => x.tok = hops[n].out)
    BY <1>2, <1>10 DEF G, n, hops
  <1>12. QED
    BY <1>11 DEF a, n, hops

-----------------------------------------------------------------------------
(* A route, split by split                                                 *)

SplitStates == [w : Works, gross : Int]

(* What the splits take and what they deliver, so far.                     *)
Delivered(w, tin, tout, n, y) ==
    /\ y \in SplitStates /\ After(w, y.w)
    /\ y.w.ok => \A c \in Contracts, u \in Tokens :
                    Own(y.w, c, u) = Own(w, c, u)
                                     + (At(DEX, tout, y.gross, c, u)
                                        - At(DEX, tin, n, c, u))

(* One split, whatever its hops.                                           *)
LEMMA SplitTypes ==
    ASSUME NEW y \in SplitStates, NEW tin \in Tokens, NEW split \in Splits
    PROVE  /\ OneSplit(y, tin, split) \in SplitStates
           /\ After(y.w, OneSplit(y, tin, split).w)
  <1> DEFINE x == Follow(y.w, tin, split)
  <1>1. y.w \in Works /\ y.gross \in Int
    BY DEF SplitStates
  <1>2. Swapped(y.w, tin, split.amount, x)
    BY <1>1, FollowFacts
  <1>3. OneSplit(y, tin, split) = [w |-> x.w, gross |-> y.gross + x.amount]
    BY DEF OneSplit
  <1> HIDE DEF x
  <1>4. x.w \in Works /\ x.amount \in Int /\ After(y.w, x.w)
    BY <1>2 DEF Swapped, HopStates
  <1>5. QED
    BY <1>1, <1>3, <1>4 DEF SplitStates

(* One more split, to the token the route is for.                          *)
LEMMA SplitFacts ==
    ASSUME NEW w \in Works, NEW tin \in Tokens, NEW tout \in Tokens, NEW n \in Int,
           NEW y, Delivered(w, tin, tout, n, y), NEW split \in Splits,
           Len(split.hops) > 0, split.hops[Len(split.hops)].out = tout,
           NEW r, r = OneSplit(y, tin, split)
    PROVE  Delivered(w, tin, tout, n + split.amount, r)
  <1> DEFINE x == Follow(y.w, tin, split)
             a == split.amount
  <1>1. y \in SplitStates /\ y.w \in Works /\ y.gross \in Int /\ After(w, y.w) /\ a \in Int
    BY DEF Delivered, SplitStates, Splits
  <1>2. Swapped(y.w, tin, a, x) /\ x.tok = tout
    BY <1>1, FollowFacts
  <1>3. r = [w |-> x.w, gross |-> y.gross + x.amount]
    BY DEF OneSplit
  <1> HIDE DEF x, a
  <1>4. x.w \in Works /\ x.amount \in Int /\ After(y.w, x.w)
    BY <1>2 DEF Swapped, HopStates
  <1>5. /\ r \in SplitStates /\ r.w = x.w /\ r.gross = y.gross + x.amount
    BY <1>1, <1>3, <1>4 DEF SplitStates
  <1>6. After(w, x.w)
    BY <1>1, <1>4, AfterTrans
  <1>7. ASSUME x.w.ok, NEW c \in Contracts, NEW u \in Tokens
        PROVE  Own(x.w, c, u) = Own(w, c, u)
                   + (At(DEX, tout, y.gross + x.amount, c, u) - At(DEX, tin, n + a, c, u))
    <2>1. y.w.ok
      BY <1>4, <1>7 DEF After
    <2>2. Own(y.w, c, u) = Own(w, c, u) + (At(DEX, tout, y.gross, c, u)
                                           - At(DEX, tin, n, c, u))
      BY <2>1 DEF Delivered
    <2>3. Own(x.w, c, u) = Own(y.w, c, u) + (At(DEX, tout, x.amount, c, u)
                                             - At(DEX, tin, a, c, u))
      BY <1>2, <1>7 DEF Swapped
    <2>4. At(DEX, tout, y.gross + x.amount, c, u)
             = At(DEX, tout, y.gross, c, u) + At(DEX, tout, x.amount, c, u)
      BY <1>1, <1>4 DEF At
    <2>5. At(DEX, tin, n + a, c, u) = At(DEX, tin, n, c, u) + At(DEX, tin, a, c, u)
      BY <1>1 DEF At
    <2>6. /\ At(DEX, tout, y.gross, c, u) \in Int /\ At(DEX, tout, x.amount, c, u) \in Int
          /\ At(DEX, tin, n, c, u) \in Int /\ At(DEX, tin, a, c, u) \in Int
          /\ Own(w, c, u) \in Int
      BY <1>1, <1>4, AtInt, OwnInt
    <2>7. QED
      BY <2>2, <2>3, <2>4, <2>5, <2>6
  <1>8. QED
    BY <1>5, <1>6, <1>7 DEF Delivered, a

(* The states of a route along its splits.                                 *)
IsExecuted(y, w, tin, route) ==
    y = [i \in 0 .. Len(route) |->
            IF i = 0 THEN [w |-> w, gross |-> 0]
            ELSE OneSplit(y[i - 1], tin, route[i])]

(* A route goes through its splits.                                        *)
LEMMA ExecuteRuns ==
    ASSUME NEW w \in Works, NEW tin \in Tokens, NEW route \in Seq(Splits)
    PROVE  \E y : IsExecuted(y, w, tin, route) /\ Execute(w, tin, route) = y[Len(route)]
  <1> DEFINE n == Len(route)
             start == [w |-> w, gross |-> 0]
             step == [i \in 1 .. n |-> [y \in SplitStates |-> OneSplit(y, tin, route[i])]]
  <1>1. n \in Nat /\ start \in SplitStates /\ \A i \in 1 .. n : route[i] \in Splits
    BY DEF SplitStates
  <1> HIDE DEF n, start
  <1>2. \A i \in 1 .. n, y \in SplitStates : OneSplit(y, tin, route[i]) \in SplitStates
    BY <1>1, SplitTypes
  <1>3. /\ step \in [1 .. n -> [SplitStates -> SplitStates]]
        /\ \A i \in 1 .. n, y \in SplitStates : step[i][y] = OneSplit(y, tin, route[i])
    <2>1. \A i \in 1 .. n :
             [y \in SplitStates |-> OneSplit(y, tin, route[i])]
                \in [SplitStates -> SplitStates]
      BY <1>2
    <2>2. QED
      BY <2>1
  <1> HIDE DEF step
  <1>4. PICK r : Runs(r, n, SplitStates, start, step)
    BY <1>1, <1>3, RunExists, Zenon
  <1>5. r \in [0 .. n -> SplitStates] /\ r[0] = start
        /\ \A i \in 1 .. n : r[i] = step[i][r[i - 1]]
    BY <1>4 DEF Runs
  <1>6. \A i \in 1 .. n : r[i] = OneSplit(r[i - 1], tin, route[i])
    <2>1. TAKE i \in 1 .. n
    <2>2. i - 1 \in 0 .. n
      BY <1>1
    <2>3. r[i - 1] \in SplitStates
      BY <1>5, <2>2
    <2>4. QED
      BY <1>3, <1>5, <2>3
  <1>7. IsExecuted(r, w, tin, route)
    <2>1. r = [i \in 0 .. n |-> r[i]]
      BY <1>5
    <2>2. \A i \in 0 .. n : r[i] = IF i = 0 THEN start
                                   ELSE OneSplit(r[i - 1], tin, route[i])
      BY <1>1, <1>5, <1>6
    <2>3. r = [i \in 0 .. n |-> IF i = 0 THEN start
                                ELSE OneSplit(r[i - 1], tin, route[i])]
      BY <2>1, <2>2, Zenon
    <2>4. QED
      BY <2>3 DEF IsExecuted, n, start
  <1> DEFINE g == CHOOSE y : IsExecuted(y, w, tin, route)
  <1>8. IsExecuted(g, w, tin, route)
    BY <1>7
  <1>9. Execute(w, tin, route) = g[Len(route)]
    BY Zenon DEF Execute, IsExecuted
  <1>10. QED
    BY <1>8, <1>9

(* Every split of a route ends in the token the route is for.              *)
EndsIn(route, tout) ==
    \A i \in DOMAIN route :
        Len(route[i].hops) > 0 /\ route[i].hops[Len(route[i].hops)].out = tout

AmountsOf(route) == [i \in DOMAIN route |-> route[i].amount]

(* A route that is valid takes the sum of its splits' amounts.             *)
LEMMA ExecuteFacts ==
    ASSUME NEW w \in Works, NEW tin \in Tokens, NEW tout \in Tokens,
           NEW route \in Seq(Splits), NEW y, y = Execute(w, tin, route)
    PROVE  /\ y \in SplitStates /\ After(w, y.w)
           /\ EndsIn(route, tout) =>
                 Delivered(w, tin, tout, SumOf(AmountsOf(route)), y)
  <1> DEFINE n == Len(route)
             start == [w |-> w, gross |-> 0]
             f == AmountsOf(route)
             ends == EndsIn(route, tout)
  <1>1. /\ n \in Nat /\ start \in SplitStates /\ DOMAIN route = 1 .. n
        /\ \A i \in 1 .. n : route[i] \in Splits
    BY DEF SplitStates
  <1>2. \A i \in 1 .. n : f[i] = route[i].amount /\ f[i] \in Int
    BY <1>1 DEF AmountsOf, Splits
  <1>3. SumOf(f) = SumOver(f, 1 .. n)
    BY <1>1 DEF SumOf, AmountsOf
  <1>4. PICK r : IsExecuted(r, w, tin, route) /\ y = r[n]
    BY ExecuteRuns
  <1>5. start.w = w /\ start.gross = 0
    OBVIOUS
  <1> DEFINE body(i) == IF i = 0 THEN start ELSE OneSplit(r[i - 1], tin, route[i])
  <1>6. r = [i \in 0 .. n |-> body(i)]
    BY <1>4 DEF IsExecuted
  <1>7. body(0) = start /\ \A i \in 1 .. n : body(i) = OneSplit(r[i - 1], tin, route[i])
    <2>1. ASSUME NEW i \in 1 .. n PROVE i # 0
      BY <1>1
    <2>2. QED
      BY <2>1
  <1> HIDE DEF body, start, n, f, ends
  <1>8. r[0] = start /\ \A i \in 1 .. n : r[i] = OneSplit(r[i - 1], tin, route[i])
    <2>1. \A i \in 0 .. n : r[i] = body(i)
      BY <1>6
    <2>2. 0 \in 0 .. n /\ \A i \in 1 .. n : i \in 0 .. n
      BY <1>1
    <2>3. QED
      BY <1>7, <2>1, <2>2, Zenon
  <1> DEFINE Good(i) == /\ r[i] \in SplitStates /\ After(w, r[i].w)
                        /\ ends => Delivered(w, tin, tout, SumOver(f, 1 .. i), r[i])
             G == {i \in 0 .. n : Good(i)}
  <1>9. 0 \in G
    <2>1. After(w, w) /\ start \in SplitStates
      BY <1>1, AfterSelf
    <2>2. SumOver(f, 1 .. 0) = 0
      <3>1. 1 .. 0 = {}
        OBVIOUS
      <3>2. QED
        BY <3>1, SumEmpty
    <2>3. ASSUME NEW c \in Contracts, NEW u \in Tokens
          PROVE  Own(w, c, u) = Own(w, c, u) + (At(DEX, tout, 0, c, u)
                                                - At(DEX, tin, 0, c, u))
      <3>1. Own(w, c, u) \in Int
        BY OwnInt
      <3>2. QED
        BY <3>1 DEF At
    <2>4. Delivered(w, tin, tout, 0, start)
      BY <1>5, <2>1, <2>3 DEF Delivered
    <2>5. QED
      BY <1>1, <1>5, <1>8, <2>1, <2>2, <2>4
  <1>10. ASSUME NEW i \in 1 .. n, i - 1 \in G
         PROVE  i \in G
    <2> DEFINE p == r[i - 1]
               q == r[i]
               s == route[i]
               k == SumOver(f, 1 .. i - 1)
    <2>1. /\ p \in SplitStates /\ After(w, p.w) /\ q = OneSplit(p, tin, s)
          /\ (ends => Delivered(w, tin, tout, k, p)) /\ s \in Splits
      BY <1>1, <1>8, <1>10
    <2>2. IsFiniteSet(1 .. i - 1) /\ i \notin 1 .. i - 1
          /\ (1 .. i - 1) \cup {i} = 1 .. i
      <3>1. i \in Int /\ i - 1 \in Int /\ 1 \in Int
        BY <1>1
      <3>2. IsFiniteSet(1 .. i - 1)
        BY <3>1, FS_Interval
      <3>3. QED
        BY <1>1, <3>2
    <2>3. \A j \in 1 .. i - 1 : f[j] \in Int
      BY <1>1, <1>2
    <2>4. k \in Int
      BY <2>2, <2>3, SumInt
    <2>5. SumOver(f, 1 .. i) = k + f[i]
      <3> DEFINE S == 1 .. i - 1
      <3>1. f[i] \in Int
        BY <1>2
      <3>2. SumOver(f, S \cup {i}) = SumOver(f, S) + f[i]
        <4> HIDE DEF S
        <4>1. IsFiniteSet(S) /\ i \notin S /\ \A j \in S : f[j] \in Int /\ f[j] = f[j]
          BY <2>2, <2>3 DEF S
        <4>2. QED
          BY <3>1, <4>1, SumGrow
      <3>3. QED
        BY <2>2, <3>2
    <2>6. s.amount = f[i]
      BY <1>2
    <2>7. ends => Len(s.hops) > 0 /\ s.hops[Len(s.hops)].out = tout
      BY <1>1 DEF ends, EndsIn
    <2> HIDE DEF p, q, s, k
    <2>8. q \in SplitStates /\ After(p.w, q.w)
      BY <2>1, SplitTypes
    <2>9. After(w, q.w)
      BY <2>1, <2>8, AfterTrans
    <2>10. ASSUME ends
           PROVE  Delivered(w, tin, tout, SumOver(f, 1 .. i), q)
      <3>1. Delivered(w, tin, tout, k + s.amount, q)
        BY <2>1, <2>4, <2>7, <2>10, SplitFacts
      <3>2. QED
        BY <2>5, <2>6, <3>1
    <2>11. QED
      BY <1>1, <2>8, <2>9, <2>10 DEF q
  <1> HIDE DEF G
  <1>11. \A i \in 0 .. n : i \in G
    BY <1>1, <1>9, <1>10, EveryTurn
  <1>12. n \in G
    BY <1>1, <1>11
  <1>13. QED
    BY <1>3, <1>4, <1>12 DEF G, f, ends

-----------------------------------------------------------------------------
(* Calldata, call by call                                                  *)

CallStates == [w : Works, budget : Int]

(* The calls have moved the input and the output at the aggregator, and    *)
(* nothing else of the contracts'.                                         *)
Touched(w, tin, tout, x) ==
    /\ x \in CallStates /\ After(w, x.w) /\ x.w.total = w.total
    /\ x.w.ok => \A c \in Contracts, u \in Tokens :
                    c # DEX \/ (u # tin /\ u # tout) => Own(x.w, c, u) = Own(w, c, u)

(* One call.                                                               *)
LEMMA CallFacts ==
    ASSUME NEW x \in CallStates, NEW tin \in Tokens, NEW tout \in Tokens, tin # tout,
           NEW call \in Calls, NEW r, r = OneCall(x, tin, tout, call)
    PROVE  Touched(x.w, tin, tout, r)
  <1> DEFINE w == x.w
             budget == x.budget - call.spends
             onToken == call.target \in Tokens
             spent == IF onToken THEN call.target ELSE tin
             p == /\ call.target \in dex.targets \ {tin, tout} /\ budget >= 0
                  /\ ~onToken => call.takes <= call.spends
             ready == Require(w, p)
             taken == Send(ready, spent, DEX, MARKET, call.takes)
             more == IF onToken THEN taken.approved \cup {call.target} ELSE taken.approved
             left == [taken EXCEPT !.approved = more]
             paid == Send(left, tout, MARKET, DEX, call.pays)
  <1>1. w \in Works /\ x.budget \in Int
    BY DEF CallStates
  <1>2. call.spends \in Int /\ call.takes \in Int /\ call.pays \in Int
    BY DEF Calls
  <1>3. /\ DEX \in Accounts /\ MARKET \in Accounts /\ DEX \in Contracts
        /\ MARKET \notin Contracts
    BY AccountFacts
  <1>4. r = [w |-> paid, budget |-> budget]
    BY DEF OneCall, RunCall
  <1>5. budget \in Int /\ p \in BOOLEAN /\ spent \in Tokens
    BY <1>1, <1>2
  <1>a. p => (onToken => spent \in Exposed) /\ (spent = tin \/ ~Kept(DEX, spent))
    BY DEF Kept, Exposed, Calls
  <1>b. /\ taken \in Works => more \in SUBSET Tokens
        /\ p /\ taken.approved \subseteq Exposed => more \subseteq Exposed
    BY <1>a, WorkTypes
  <1> HIDE DEF w, budget, onToken, spent, p, ready, taken, more, left, paid
  <1>6. Required(w, p, ready)
    BY <1>1, <1>5, RequireFacts DEF ready
  <1>7. ready \in Works
    BY <1>6 DEF Required, After
  <1>8. Sent(ready, spent, DEX, MARKET, call.takes, taken)
    BY <1>2, <1>3, <1>5, <1>7, SendFacts DEF taken
  <1>9. taken \in Works /\ (taken.ok => p)
    BY <1>6, <1>8 DEF Sent, After, Required
  <1>c. /\ left \in Works /\ left.bal = taken.bal /\ left.owed = taken.owed
        /\ left.total = taken.total /\ left.approved = more /\ left.ok = taken.ok
    BY <1>9, <1>b DEF left, Works
  <1>d. /\ After(taken, left)
        /\ \A c \in Contracts, u \in Tokens : Own(left, c, u) = Own(taken, c, u)
    BY <1>9, <1>b, <1>c DEF After, Even, Own
  <1>10. Sent(left, tout, MARKET, DEX, call.pays, paid)
    BY <1>2, <1>3, <1>c, SendFacts DEF paid
  <1>11. paid \in Works /\ paid.total = w.total
    BY <1>6, <1>8, <1>10, <1>c DEF Sent, After, Required
  <1>12. After(w, paid)
    <2>1. After(w, ready) /\ After(ready, taken) /\ After(taken, left) /\ After(left, paid)
      BY <1>6, <1>8, <1>10, <1>d DEF Required, Sent
    <2>2. QED
      BY <2>1, AfterTrans
  <1>13. r \in CallStates /\ r.w = paid
    BY <1>4, <1>5, <1>11 DEF CallStates
  <1>14. ASSUME paid.ok, NEW c \in Contracts, NEW u \in Tokens,
                c # DEX \/ (u # tin /\ u # tout)
         PROVE  Own(paid, c, u) = Own(w, c, u)
    <2>1. taken.ok /\ p
      BY <1>9, <1>10, <1>14, <1>c DEF Sent, After
    <2>2. Own(taken, c, u) = Own(ready, c, u) + (At(MARKET, spent, call.takes, c, u)
                                                 - At(DEX, spent, call.takes, c, u))
      BY <1>8, <2>1 DEF Sent
    <2>3. Own(paid, c, u) = Own(taken, c, u) + (At(DEX, tout, call.pays, c, u)
                                                - At(MARKET, tout, call.pays, c, u))
      BY <1>10, <1>14, <1>d DEF Sent
    <2>4. /\ At(MARKET, spent, call.takes, c, u) = 0
          /\ At(DEX, spent, call.takes, c, u) = 0
          /\ At(MARKET, tout, call.pays, c, u) = 0 /\ At(DEX, tout, call.pays, c, u) = 0
      BY <1>3, <1>a, <1>14, <2>1 DEF At
    <2>5. Own(ready, c, u) = Own(w, c, u) /\ Own(w, c, u) \in Int
      BY <1>1, <1>6, OwnInt DEF Required
    <2>6. QED
      BY <2>2, <2>3, <2>4, <2>5
  <1>15. QED
    BY <1>11, <1>12, <1>13, <1>14 DEF Touched, w

(* Call after call.                                                        *)
LEMMA TouchedTrans ==
    ASSUME NEW w \in Works, NEW tin \in Tokens, NEW tout \in Tokens, NEW x, NEW r,
           Touched(w, tin, tout, x), Touched(x.w, tin, tout, r)
    PROVE  Touched(w, tin, tout, r)
  <1>1. After(w, x.w) /\ After(x.w, r.w) /\ r \in CallStates /\ r.w.total = w.total
    BY DEF Touched
  <1>2. After(w, r.w) /\ (r.w.ok => x.w.ok)
    BY <1>1, AfterTrans DEF After
  <1>3. QED
    BY <1>1, <1>2 DEF Touched

(* The states of calldata along its calls.                                 *)
IsCalled(x, w, tin, tout, n, calls) ==
    x = [i \in 0 .. Len(calls) |->
            IF i = 0 THEN [w |-> w, budget |-> n]
            ELSE OneCall(x[i - 1], tin, tout, calls[i])]

(* Calldata goes through its calls.                                        *)
LEMMA CalledRuns ==
    ASSUME NEW w \in Works, NEW tin \in Tokens, NEW tout \in Tokens, tin # tout,
           NEW n \in Int, NEW calls \in Seq(Calls)
    PROVE  \E x : /\ IsCalled(x, w, tin, tout, n, calls)
                  /\ Called(w, tin, tout, n, calls) = x[Len(calls)]
  <1> DEFINE m == Len(calls)
             start == [w |-> w, budget |-> n]
             step == [i \in 1 .. m |->
                         [x \in CallStates |-> OneCall(x, tin, tout, calls[i])]]
  <1>1. m \in Nat /\ start \in CallStates /\ \A i \in 1 .. m : calls[i] \in Calls
    BY DEF CallStates
  <1> HIDE DEF m, start
  <1>2. \A i \in 1 .. m, x \in CallStates : OneCall(x, tin, tout, calls[i]) \in CallStates
    <2>1. TAKE i \in 1 .. m, x \in CallStates
    <2> DEFINE r == OneCall(x, tin, tout, calls[i])
    <2>2. Touched(x.w, tin, tout, r)
      BY <1>1, CallFacts
    <2> HIDE DEF r
    <2>3. r \in CallStates
      BY <2>2 DEF Touched
    <2>4. QED
      BY <2>3 DEF r
  <1>3. /\ step \in [1 .. m -> [CallStates -> CallStates]]
        /\ \A i \in 1 .. m, x \in CallStates : step[i][x] = OneCall(x, tin, tout, calls[i])
    <2>1. \A i \in 1 .. m :
             [x \in CallStates |-> OneCall(x, tin, tout, calls[i])]
                \in [CallStates -> CallStates]
      BY <1>2
    <2>2. QED
      BY <2>1
  <1> HIDE DEF step
  <1>4. PICK r : Runs(r, m, CallStates, start, step)
    BY <1>1, <1>3, RunExists, Zenon
  <1>5. r \in [0 .. m -> CallStates] /\ r[0] = start
        /\ \A i \in 1 .. m : r[i] = step[i][r[i - 1]]
    BY <1>4 DEF Runs
  <1>6. \A i \in 1 .. m : r[i] = OneCall(r[i - 1], tin, tout, calls[i])
    <2>1. TAKE i \in 1 .. m
    <2>2. i - 1 \in 0 .. m
      BY <1>1
    <2>3. r[i - 1] \in CallStates
      BY <1>5, <2>2
    <2>4. QED
      BY <1>3, <1>5, <2>3
  <1>7. IsCalled(r, w, tin, tout, n, calls)
    <2>1. r = [i \in 0 .. m |-> r[i]]
      BY <1>5
    <2>2. \A i \in 0 .. m : r[i] = IF i = 0 THEN start
                                   ELSE OneCall(r[i - 1], tin, tout, calls[i])
      BY <1>1, <1>5, <1>6
    <2>3. r = [i \in 0 .. m |-> IF i = 0 THEN start
                                ELSE OneCall(r[i - 1], tin, tout, calls[i])]
      BY <2>1, <2>2, Zenon
    <2>4. QED
      BY <2>3 DEF IsCalled, m, start
  <1> DEFINE g == CHOOSE x : IsCalled(x, w, tin, tout, n, calls)
  <1>8. IsCalled(g, w, tin, tout, n, calls)
    BY <1>7
  <1>9. Called(w, tin, tout, n, calls) = g[Len(calls)]
    BY Zenon DEF Called, IsCalled
  <1>10. QED
    BY <1>8, <1>9

(* Calldata in whole.                                                      *)
LEMMA CalledFacts ==
    ASSUME NEW w \in Works, NEW tin \in Tokens, NEW tout \in Tokens, tin # tout,
           NEW n \in Int, NEW calls \in Seq(Calls),
           NEW x, x = Called(w, tin, tout, n, calls)
    PROVE  Touched(w, tin, tout, x)
  <1> DEFINE m == Len(calls)
             start == [w |-> w, budget |-> n]
  <1>1. m \in Nat /\ start \in CallStates /\ \A i \in 1 .. m : calls[i] \in Calls
    BY DEF CallStates
  <1>2. PICK r : IsCalled(r, w, tin, tout, n, calls) /\ x = r[m]
    BY CalledRuns
  <1>3. start.w = w
    OBVIOUS
  <1> DEFINE body(i) == IF i = 0 THEN start ELSE OneCall(r[i - 1], tin, tout, calls[i])
  <1>4. r = [i \in 0 .. m |-> body(i)]
    BY <1>2 DEF IsCalled
  <1>5. body(0) = start
        /\ \A i \in 1 .. m : body(i) = OneCall(r[i - 1], tin, tout, calls[i])
    <2>1. ASSUME NEW i \in 1 .. m PROVE i # 0
      BY <1>1
    <2>2. QED
      BY <2>1
  <1> HIDE DEF body, start, m
  <1>6. r[0] = start /\ \A i \in 1 .. m : r[i] = OneCall(r[i - 1], tin, tout, calls[i])
    <2>1. \A i \in 0 .. m : r[i] = body(i)
      BY <1>4
    <2>2. 0 \in 0 .. m /\ \A i \in 1 .. m : i \in 0 .. m
      BY <1>1
    <2>3. QED
      BY <1>5, <2>1, <2>2, Zenon
  <1> DEFINE G == {i \in 0 .. m : Touched(w, tin, tout, r[i])}
  <1>7. 0 \in G
    <2>1. After(w, w)
      BY AfterSelf
    <2>2. Touched(w, tin, tout, start)
      BY <1>1, <1>3, <2>1 DEF Touched
    <2>3. QED
      BY <1>1, <1>6, <2>2
  <1>8. ASSUME NEW i \in 1 .. m, i - 1 \in G
        PROVE  i \in G
    <2> DEFINE p == r[i - 1]
               q == r[i]
    <2>1. Touched(w, tin, tout, p) /\ q = OneCall(p, tin, tout, calls[i])
          /\ calls[i] \in Calls
      BY <1>1, <1>6, <1>8
    <2> HIDE DEF p, q
    <2>2. p \in CallStates
      BY <2>1 DEF Touched
    <2>3. Touched(p.w, tin, tout, q)
      BY <2>1, <2>2, CallFacts
    <2>4. Touched(w, tin, tout, q)
      BY <2>1, <2>3, TouchedTrans
    <2>5. QED
      BY <1>1, <2>4 DEF q
  <1> HIDE DEF G
  <1>9. \A i \in 0 .. m : i \in G
    BY <1>1, <1>7, <1>8, EveryTurn
  <1>10. QED
    BY <1>1, <1>2, <1>9 DEF G, m

(* A route, or calldata, has spent n of the input but for k that it gave   *)
(* back, and brought what it delivered.                                    *)
Filled(w, tin, tout, n, refund, k, y) ==
    \A c \in Contracts, u \in Tokens :
        Own(y.w, c, u) = Own(w, c, u)
            + (At(DEX, tout, y.gross, c, u) - At(DEX, tin, n, c, u))
            + At(refund, tin, k, c, u)

(* What a contract gained is what its own grew by, if no fee was accrued.  *)
LEMMA GainedOwn ==
    ASSUME NEW w \in Works, NEW v \in Works, v.total = w.total, NEW c \in Contracts,
           NEW u \in Tokens
    PROVE  /\ Gained(v, w, c, u) \in Int
           /\ Own(v, c, u) = Own(w, c, u) + At(c, u, Gained(v, w, c, u), c, u)
  <1>1. c \in Accounts
    BY AccountFacts
  <1>2. w.bal[c] \in [Tokens -> Int] /\ v.bal[c] \in [Tokens -> Int]
    BY <1>1, WorkTypes DEF Tables
  <1>3. w.bal[c][u] \in Int /\ v.bal[c][u] \in Int /\ w.total[u] \in Int
    BY <1>2, WorkTypes
  <1>4. QED
    BY <1>3 DEF Own, At, Gained

(* Calldata takes no more than the input, and what it leaves of it is      *)
(* given back.                                                             *)
LEMMA ExecuteCallsFacts ==
    ASSUME NEW w \in Works, NEW tin \in Tokens, NEW tout \in Tokens, tin # tout,
           NEW n \in Int, NEW calls \in Seq(Calls), NEW refund \in Accounts, refund # DEX,
           NEW y, y = ExecuteCalls(w, tin, tout, n, calls, refund)
    PROVE  /\ y \in SplitStates /\ After(w, y.w)
           /\ y.w.ok => \E k \in Nat : Filled(w, tin, tout, n, refund, k, y)
  <1> DEFINE after == Called(w, tin, tout, n, calls).w
             gained == Gained(after, w, DEX, tin)
             gross == Gained(after, w, DEX, tout)
             spent == -gained
             p == spent <= n
             kept == Require(after, p)
             k == n - spent
             back == Send(kept, tin, DEX, refund, k)
             v == IF spent < n THEN back ELSE kept
  <1>1. y = [w |-> v, gross |-> gross]
    BY DEF ExecuteCalls
  <1>2. after \in Works /\ Touched(w, tin, tout, Called(w, tin, tout, n, calls))
    <2> DEFINE x == Called(w, tin, tout, n, calls)
    <2>1. Touched(w, tin, tout, x)
      BY CalledFacts
    <2> HIDE DEF x
    <2>2. x.w \in Works
      BY <2>1 DEF Touched, After
    <2>3. QED
      BY <2>1, <2>2 DEF x
  <1>3. /\ After(w, after) /\ after.total = w.total
        /\ after.ok => \A c \in Contracts, u \in Tokens :
                   c # DEX \/ (u # tin /\ u # tout) => Own(after, c, u) = Own(w, c, u)
    BY <1>2 DEF Touched
  <1>4. DEX \in Accounts /\ DEX \in Contracts
    BY AccountFacts
  <1> HIDE DEF after, gained, gross
  <1>5. /\ gained \in Int /\ gross \in Int
        /\ Own(after, DEX, tin) = Own(w, DEX, tin) + At(DEX, tin, gained, DEX, tin)
        /\ Own(after, DEX, tout) = Own(w, DEX, tout) + At(DEX, tout, gross, DEX, tout)
    BY <1>2, <1>3, <1>4, GainedOwn DEF gained, gross
  <1>6. spent \in Int /\ p \in BOOLEAN /\ k \in Int /\ spent = -gained
    BY <1>5
  <1>7. ASSUME after.ok, NEW c \in Contracts, NEW u \in Tokens
        PROVE  Own(after, c, u) = Own(w, c, u) + (At(DEX, tout, gross, c, u)
                                                  - At(DEX, tin, spent, c, u))
    <2> HIDE DEF spent
    <2>1. Own(w, c, u) \in Int
      BY OwnInt
    <2>2. CASE c # DEX \/ (u # tin /\ u # tout)
      <3>1. At(DEX, tout, gross, c, u) = 0 /\ At(DEX, tin, spent, c, u) = 0
        BY <2>2 DEF At
      <3>2. Own(after, c, u) = Own(w, c, u)
        BY <1>3, <1>7, <2>2
      <3>3. QED
        BY <2>1, <3>1, <3>2
    <2>3. CASE c = DEX /\ u = tin
      <3>1. /\ At(DEX, tout, gross, c, u) = 0
            /\ At(DEX, tin, spent, c, u) = -At(DEX, tin, gained, c, u)
            /\ At(DEX, tin, gained, c, u) \in Int
        BY <1>5, <1>6, <2>3 DEF At
      <3>2. QED
        BY <1>5, <1>6, <2>1, <2>3, <3>1
    <2>4. CASE c = DEX /\ u = tout
      <3>1. At(DEX, tin, spent, c, u) = 0 /\ At(DEX, tout, gross, c, u) \in Int
        BY <1>5, <2>4 DEF At
      <3>2. QED
        BY <1>5, <2>1, <2>4, <3>1
    <2>5. QED
      BY <2>2, <2>3, <2>4
  <1> HIDE DEF p, kept, back
  <1>8. Required(after, p, kept)
    BY <1>2, <1>6, RequireFacts DEF kept
  <1>9. kept \in Works /\ After(after, kept)
    BY <1>8 DEF Required, After
  <1>10. Sent(kept, tin, DEX, refund, k, back)
    <2> HIDE DEF k, spent
    <2>1. QED
      BY <1>4, <1>6, <1>9, SendFacts DEF back
  <1>11. back \in Works /\ After(kept, back)
    BY <1>10 DEF Sent, After
  <1>12. v \in Works /\ After(after, v)
    <2>1. After(after, back)
      BY <1>9, <1>11, AfterTrans
    <2>2. QED
      BY <1>9, <1>11, <2>1
  <1>13. y \in SplitStates /\ y.w = v /\ y.gross = gross
    <2> HIDE DEF v
    <2>1. QED
      BY <1>1, <1>5, <1>12 DEF SplitStates
  <1>14. After(w, v)
    BY <1>3, <1>12, AfterTrans
  <1>15. ASSUME v.ok
         PROVE  k \in Nat /\ \A c \in Contracts, u \in Tokens :
                   Own(v, c, u) = Own(w, c, u)
                      + (At(DEX, tout, gross, c, u) - At(DEX, tin, n, c, u))
                      + At(refund, tin, k, c, u)
    <2>1. after.ok
      BY <1>12, <1>15 DEF After
    <2>2. CASE spent < n
      <3>1. v = back /\ back.ok /\ k \in Nat
        BY <1>6, <1>15, <2>2
      <3>2. ASSUME NEW c \in Contracts, NEW u \in Tokens
            PROVE  Own(back, c, u) = Own(w, c, u)
                      + (At(DEX, tout, gross, c, u) - At(DEX, tin, n, c, u))
                      + At(refund, tin, k, c, u)
        <4>1. At(DEX, tin, n, c, u) = At(DEX, tin, spent, c, u) + At(DEX, tin, k, c, u)
          <5>1. n = spent + k
            BY <1>6
          <5> HIDE DEF spent, k
          <5>2. QED
            BY <1>6, <5>1 DEF At
        <4> HIDE DEF spent, k
        <4>2. Own(back, c, u) = Own(kept, c, u) + (At(refund, tin, k, c, u)
                                                   - At(DEX, tin, k, c, u))
          BY <1>10, <3>1 DEF Sent
        <4>3. Own(kept, c, u) = Own(after, c, u)
          BY <1>8 DEF Required
        <4>4. Own(after, c, u) = Own(w, c, u) + (At(DEX, tout, gross, c, u)
                                                 - At(DEX, tin, spent, c, u))
          BY <1>7, <2>1
        <4>5. /\ At(DEX, tout, gross, c, u) \in Int /\ At(DEX, tin, spent, c, u) \in Int
              /\ At(DEX, tin, k, c, u) \in Int /\ At(refund, tin, k, c, u) \in Int
              /\ Own(w, c, u) \in Int
          BY <1>5, <1>6, AtInt, OwnInt
        <4>6. QED
          BY <4>1, <4>2, <4>3, <4>4, <4>5
      <3>3. QED
        BY <3>1, <3>2
    <2>3. CASE ~(spent < n)
      <3>1. v = kept /\ kept.ok
        BY <1>15, <2>3
      <3>2. p
        BY <1>8, <3>1 DEF Required
      <3>3. spent = n /\ k = 0
        BY <1>6, <2>3, <3>2 DEF p
      <3>4. ASSUME NEW c \in Contracts, NEW u \in Tokens
            PROVE  Own(kept, c, u) = Own(w, c, u)
                      + (At(DEX, tout, gross, c, u) - At(DEX, tin, n, c, u))
                      + At(refund, tin, k, c, u)
        <4>1. At(refund, tin, k, c, u) = 0
          BY <3>3 DEF At
        <4> HIDE DEF spent, k
        <4>2. Own(kept, c, u) = Own(after, c, u)
          BY <1>8 DEF Required
        <4>3. Own(after, c, u) = Own(w, c, u) + (At(DEX, tout, gross, c, u)
                                                 - At(DEX, tin, n, c, u))
          BY <1>7, <2>1, <3>3
        <4>4. /\ At(DEX, tout, gross, c, u) \in Int /\ At(DEX, tin, n, c, u) \in Int
              /\ Own(w, c, u) \in Int
          BY <1>5, AtInt, OwnInt
        <4>5. QED
          BY <4>1, <4>2, <4>3, <4>4
      <3>5. QED
        BY <3>1, <3>3, <3>4
    <2>4. QED
      BY <2>2, <2>3
  <1> HIDE DEF k, v
  <1>16. ASSUME v.ok
         PROVE  \E j \in Nat : Filled(w, tin, tout, n, refund, j, y)
    <2>1. Filled(w, tin, tout, n, refund, k, y) /\ k \in Nat
      BY <1>13, <1>15, <1>16 DEF Filled
    <2>2. QED
      BY <2>1
  <1>17. QED
    BY <1>13, <1>14, <1>16

-----------------------------------------------------------------------------
(* Fees                                                                    *)

(* A fee is a number.                                                      *)
LEMMA BpsInt ==
    ASSUME NEW n \in Int, NEW bps \in Int
    PROVE  Bps(n, bps) \in Int
  <1> DEFINE a == n * bps
  <1>1. a \in Int /\ BPS \in Nat \ {0}
    BY DexAssumption
  <1>2. Bps(n, bps) = a \div BPS
    BY DEF Bps, MulDiv
  <1> HIDE DEF a
  <1>3. QED
    BY <1>1, <1>2

(* Whoever the fees are credited to, they are owed in full.                *)
LEMMA AccrueFacts ==
    ASSUME fees \in FeeTerms, NEW w \in Works, NEW t \in Tokens, NEW protocol \in Int,
           NEW theirs \in Int, NEW partner, partner = None \/ partner \in PartnerTerms,
           partner = None => theirs = 0,
           NEW r, r = AccrueFees(w, t, protocol, theirs, partner)
    PROVE  Credited(w, t, protocol + theirs, r)
  <1> DEFINE cut == Bps(theirs, fees.share)
             first == Credit(w, partner.who, t, theirs - cut)
             both == protocol + cut
  <1>1. fees.share \in Int /\ fees.recipient \in Recipients
    BY DEF FeeTerms
  <1>2. cut \in Int
    BY <1>1, BpsInt
  <1>3. CASE partner = None
    <2>1. r = Credit(w, fees.recipient, t, protocol)
      BY <1>3 DEF AccrueFees
    <2>2. protocol + theirs = protocol
      BY <1>3
    <2>3. Credited(w, t, protocol, r)
      BY <1>1, <2>1, CreditFacts
    <2>4. QED
      BY <2>2, <2>3
  <1>4. CASE partner # None
    <2>1. r = Credit(first, fees.recipient, t, both)
      BY <1>4 DEF AccrueFees
    <2>2. partner.who \in Recipients /\ theirs - cut \in Int /\ both \in Int
      <3>1. partner.who \in Recipients
        BY <1>4 DEF PartnerTerms
      <3> HIDE DEF cut
      <3>2. QED
        BY <1>2, <3>1
    <2> DEFINE rest == theirs - cut
    <2>3. protocol + theirs = rest + both /\ rest \in Int
      <3> HIDE DEF cut
      <3>1. QED
        BY <1>2
    <2>4. first = Credit(w, partner.who, t, rest)
      OBVIOUS
    <2> HIDE DEF cut, first, both, rest
    <2>5. Credited(w, t, rest, first)
      BY <2>2, <2>3, <2>4, CreditFacts
    <2>6. first \in Works
      BY <2>5 DEF Credited, After
    <2>7. Credited(first, t, both, r)
      BY <1>1, <2>1, <2>2, <2>6, CreditFacts
    <2>8. After(w, r) /\ r.bal = w.bal
      BY <2>5, <2>7, AfterTrans DEF Credited
    <2>9. ASSUME NEW c \in Contracts, NEW u \in Tokens
          PROVE  Own(r, c, u) = Own(w, c, u) - At(DEX, t, rest + both, c, u)
      <3>1. At(DEX, t, rest + both, c, u) = At(DEX, t, rest, c, u) + At(DEX, t, both, c, u)
        BY <2>2, <2>3 DEF At
      <3>2. /\ Own(first, c, u) = Own(w, c, u) - At(DEX, t, rest, c, u)
            /\ Own(r, c, u) = Own(first, c, u) - At(DEX, t, both, c, u)
        BY <2>5, <2>7 DEF Credited
      <3>3. /\ At(DEX, t, rest, c, u) \in Int /\ At(DEX, t, both, c, u) \in Int
            /\ Own(w, c, u) \in Int
        BY <2>2, <2>3, AtInt, OwnInt
      <3>4. QED
        BY <3>1, <3>2, <3>3
    <2>10. QED
      BY <2>3, <2>8, <2>9 DEF Credited
  <1>5. QED
    BY <1>3, <1>4

(* What was delivered has gone to the one who is paid, but for the fees.   *)
Paid(w, t, gross, to, out, r) ==
    \A c \in Contracts, u \in Tokens :
        Own(r, c, u) = Own(w, c, u) + (At(to, t, out, c, u) - At(DEX, t, gross, c, u))

(* The fees and the payout are what was delivered.                         *)
LEMMA SettleFacts ==
    ASSUME fees \in FeeTerms, NEW x \in SplitStates, NEW t \in Tokens, NEW min,
           NEW partner, partner = None \/ partner \in PartnerTerms,
           NEW to \in Accounts, NEW r, r = Settle(x, t, partner, min, to)
    PROVE  /\ After(x.w, r)
           /\ r.ok => /\ AmountOut(x.gross, partner) \in Nat
                     /\ Paid(x.w, t, x.gross, to, AmountOut(x.gross, partner), r)
  <1> DEFINE w == x.w
             gross == x.gross
             protocol == ProtocolFee(gross)
             theirs == PartnerFee(gross, partner)
             out == AmountOut(gross, partner)
             p == (partner # None => partner.bps <= fees.max_partner) /\ out >= min
             priced == Require(w, p)
             acc == AccrueFees(priced, t, protocol, theirs, partner)
  <1>1. w \in Works /\ gross \in Int
    BY DEF SplitStates
  <1>2. r = Send(acc, t, DEX, to, out)
    BY DEF Settle
  <1>a. out = gross - protocol - theirs
    BY DEF AmountOut
  <1> HIDE DEF w, gross
  <1>3. protocol \in Int
    <2>1. fees.protocol \in Int
      BY DEF FeeTerms
    <2>2. QED
      BY <1>1, <2>1, BpsInt DEF ProtocolFee
  <1>4. theirs \in Int /\ (partner = None => theirs = 0)
    <2>1. CASE partner = None
      BY <2>1 DEF PartnerFee
    <2>2. CASE partner # None
      <3>1. partner.bps \in Int
        BY <2>2 DEF PartnerTerms
      <3>2. theirs = Bps(gross, partner.bps)
        BY <2>2 DEF PartnerFee
      <3>3. Bps(gross, partner.bps) \in Int
        BY <1>1, <3>1, BpsInt
      <3>4. QED
        BY <2>2, <3>2, <3>3
    <2>3. QED
      BY <2>1, <2>2
  <1> HIDE DEF protocol, theirs
  <1> DEFINE f == protocol + theirs
  <1> HIDE DEF out
  <1>5. out \in Int /\ gross = out + f /\ f \in Int /\ p \in BOOLEAN
    BY <1>1, <1>3, <1>4, <1>a
  <1> HIDE DEF p, priced, acc
  <1>6. Required(w, p, priced)
    BY <1>1, <1>5, RequireFacts DEF priced
  <1>7. priced \in Works
    BY <1>6 DEF Required, After
  <1>8. Credited(priced, t, f, acc)
    BY <1>3, <1>4, <1>7, AccrueFacts DEF acc
  <1> HIDE DEF f
  <1>9. acc \in Works /\ DEX \in Accounts
    BY <1>8, AccountFacts DEF Credited, After
  <1>10. Sent(acc, t, DEX, to, out, r)
    BY <1>2, <1>5, <1>9, SendFacts
  <1>11. After(w, r)
    <2>1. After(w, priced) /\ After(priced, acc) /\ After(acc, r)
      BY <1>6, <1>8, <1>10 DEF Required, Credited, Sent
    <2>2. QED
      BY <2>1, AfterTrans
  <1>12. ASSUME r.ok
         PROVE  out \in Nat /\ Paid(w, t, gross, to, out, r)
    <2>1. out \in Nat
      BY <1>5, <1>10, <1>12 DEF Sent
    <2>2. ASSUME NEW c \in Contracts, NEW u \in Tokens
          PROVE  Own(r, c, u) = Own(w, c, u)
                                + (At(to, t, out, c, u) - At(DEX, t, gross, c, u))
      <3>1. At(DEX, t, gross, c, u) = At(DEX, t, out, c, u) + At(DEX, t, f, c, u)
        BY <1>1, <1>5 DEF At
      <3>2. Own(r, c, u) = Own(acc, c, u)
                           + (At(to, t, out, c, u) - At(DEX, t, out, c, u))
        BY <1>10, <1>12 DEF Sent
      <3>3. Own(acc, c, u) = Own(priced, c, u) - At(DEX, t, f, c, u)
        BY <1>8 DEF Credited
      <3>4. Own(priced, c, u) = Own(w, c, u)
        BY <1>6 DEF Required
      <3>5. /\ At(DEX, t, out, c, u) \in Int /\ At(DEX, t, f, c, u) \in Int
            /\ At(to, t, out, c, u) \in Int /\ Own(w, c, u) \in Int
        BY <1>1, <1>5, AtInt, OwnInt
      <3>6. QED
        BY <3>1, <3>2, <3>3, <3>4, <3>5
    <2>3. QED
      BY <2>1, <2>2 DEF Paid
  <1>13. QED
    BY <1>11, <1>12 DEF w, gross, out

-----------------------------------------------------------------------------
(* The DEX aggregator's entry points                                       *)

(* n of the input is spent at `at`, but for k given back to `to`, who is   *)
(* also paid m of the output.                                              *)
Traded(w, at, tin, n, to, k, tout, m, r) ==
    \A c \in Contracts, u \in Tokens :
        Own(r, c, u) = Own(w, c, u) - At(at, tin, n, c, u)
                       + (At(to, tin, k, c, u) + At(to, tout, m, c, u))

(* A fill and its settlement.                                              *)
LEMMA FilledPaid ==
    ASSUME NEW w \in Works, NEW tin \in Tokens, NEW tout \in Tokens, NEW n \in Int,
           NEW to, NEW k \in Nat, NEW m \in Nat, NEW y \in SplitStates, NEW r,
           Filled(w, tin, tout, n, to, k, y), Paid(y.w, tout, y.gross, to, m, r)
    PROVE  Traded(w, DEX, tin, n, to, k, tout, m, r)
  <1>1. y.w \in Works /\ y.gross \in Int
    BY DEF SplitStates
  <1>2. ASSUME NEW c \in Contracts, NEW u \in Tokens
        PROVE  Own(r, c, u) = Own(w, c, u) - At(DEX, tin, n, c, u)
                              + (At(to, tin, k, c, u) + At(to, tout, m, c, u))
    <2>1. Own(y.w, c, u) = Own(w, c, u)
             + (At(DEX, tout, y.gross, c, u) - At(DEX, tin, n, c, u))
             + At(to, tin, k, c, u)
      BY DEF Filled
    <2>2. Own(r, c, u) = Own(y.w, c, u)
             + (At(to, tout, m, c, u) - At(DEX, tout, y.gross, c, u))
      BY DEF Paid
    <2>3. /\ At(DEX, tout, y.gross, c, u) \in Int /\ At(DEX, tin, n, c, u) \in Int
          /\ At(to, tin, k, c, u) \in Int /\ At(to, tout, m, c, u) \in Int
          /\ Own(w, c, u) \in Int
      BY <1>1, AtInt, OwnInt
    <2>4. QED
      BY <2>1, <2>2, <2>3
  <1>3. QED
    BY <1>2 DEF Traded

(* A valid route delivers its output for the whole of its input.           *)
LEMMA ValidFacts ==
    ASSUME NEW tin, NEW tout \in Tokens, NEW n, NEW route \in Seq(Splits),
           Validate(tin, tout, n, route)
    PROVE  EndsIn(route, tout) /\ SumOf(AmountsOf(route)) = n /\ tin # tout
  <1>1. /\ tin # tout /\ (\A i \in DOMAIN route : ValidSplit(tout, route[i]))
        /\ SumOf(AmountsOf(route)) = n
    BY DEF Validate, AmountsOf
  <1>2. EndsIn(route, tout)
    BY <1>1 DEF ValidSplit, EndsIn, Last
  <1>3. QED
    BY <1>1, <1>2

(* Splits: for a valid route, which leaves nothing of its input.           *)
LEMMA SplitsFilled ==
    ASSUME NEW w \in Works, NEW tin \in Tokens, NEW tout \in Tokens, NEW n \in Int,
           NEW route \in Seq(Splits), NEW back, NEW y, y = Execute(w, tin, route)
    PROVE  /\ y \in SplitStates /\ After(w, y.w)
           /\ y.w.ok /\ Validate(tin, tout, n, route) =>
                 Filled(w, tin, tout, n, back, 0, y)
  <1>1. /\ y \in SplitStates /\ After(w, y.w)
        /\ EndsIn(route, tout) =>
              Delivered(w, tin, tout, SumOf(AmountsOf(route)), y)
    BY ExecuteFacts
  <1>2. ASSUME y.w.ok, Validate(tin, tout, n, route), NEW c \in Contracts, NEW u \in Tokens
        PROVE  Own(y.w, c, u) = Own(w, c, u)
                  + (At(DEX, tout, y.gross, c, u) - At(DEX, tin, n, c, u))
                  + At(back, tin, 0, c, u)
    <2>1. Delivered(w, tin, tout, n, y)
      BY <1>1, <1>2, ValidFacts
    <2>2. Own(y.w, c, u) = Own(w, c, u)
             + (At(DEX, tout, y.gross, c, u) - At(DEX, tin, n, c, u))
      BY <1>2, <2>1 DEF Delivered
    <2>3. At(back, tin, 0, c, u) = 0 /\ Own(w, c, u) \in Int
          /\ At(DEX, tout, y.gross, c, u) \in Int /\ At(DEX, tin, n, c, u) \in Int
      BY <1>1, OwnInt, AtInt DEF At, SplitStates
    <2>4. QED
      BY <2>2, <2>3
  <1>3. QED
    BY <1>1, <1>2 DEF Filled

(* Splits, settled.                                                        *)
LEMMA SplitsSettled ==
    ASSUME fees \in FeeTerms, NEW w \in Works, NEW tin \in Tokens, NEW tout \in Tokens,
           NEW n \in Int, NEW min, NEW route \in Seq(Splits),
           NEW partner, partner = None \/ partner \in PartnerTerms, NEW to \in Accounts,
           NEW r, r = Settle(Execute(w, tin, route), tout, partner, min, to)
    PROVE  /\ After(w, r)
           /\ r.ok /\ Validate(tin, tout, n, route) =>
                 \E k, m \in Nat : Traded(w, DEX, tin, n, to, k, tout, m, r)
  <1> DEFINE y == Execute(w, tin, route)
  <1>1. /\ y \in SplitStates /\ After(w, y.w)
        /\ y.w.ok /\ Validate(tin, tout, n, route) => Filled(w, tin, tout, n, to, 0, y)
    BY SplitsFilled
  <1> HIDE DEF y
  <1>2. /\ After(y.w, r)
        /\ r.ok => \E m \in Nat : Paid(y.w, tout, y.gross, to, m, r)
    BY <1>1, SettleFacts DEF y
  <1>3. After(w, r)
    BY <1>1, <1>2, AfterTrans
  <1>4. ASSUME r.ok, Validate(tin, tout, n, route)
        PROVE  \E k, m \in Nat : Traded(w, DEX, tin, n, to, k, tout, m, r)
    <2>1. y.w.ok
      BY <1>2, <1>4 DEF After
    <2>2. Filled(w, tin, tout, n, to, 0, y)
      BY <1>1, <1>4, <2>1
    <2>3. PICK m \in Nat : Paid(y.w, tout, y.gross, to, m, r)
      BY <1>2, <1>4
    <2>4. Traded(w, DEX, tin, n, to, 0, tout, m, r)
      BY <1>1, <2>2, <2>3, FilledPaid
    <2>5. QED
      BY <2>4
  <1>5. QED
    BY <1>3, <1>4

(* Calldata, settled.                                                      *)
LEMMA CallsSettled ==
    ASSUME fees \in FeeTerms, NEW w \in Works, NEW tin \in Tokens, NEW tout \in Tokens,
           tin # tout, NEW n \in Int, NEW min, NEW calls \in Seq(Calls),
           NEW partner, partner = None \/ partner \in PartnerTerms,
           NEW to \in Accounts, to # DEX,
           NEW r, r = Settle(ExecuteCalls(w, tin, tout, n, calls, to), tout, partner,
                             min, to)
    PROVE  /\ After(w, r)
           /\ r.ok => \E k, m \in Nat : Traded(w, DEX, tin, n, to, k, tout, m, r)
  <1> DEFINE y == ExecuteCalls(w, tin, tout, n, calls, to)
  <1>1. /\ y \in SplitStates /\ After(w, y.w)
        /\ y.w.ok => \E k \in Nat : Filled(w, tin, tout, n, to, k, y)
    BY ExecuteCallsFacts
  <1> HIDE DEF y
  <1>2. /\ After(y.w, r)
        /\ r.ok => \E m \in Nat : Paid(y.w, tout, y.gross, to, m, r)
    BY <1>1, SettleFacts DEF y
  <1>3. After(w, r)
    BY <1>1, <1>2, AfterTrans
  <1>4. ASSUME r.ok
        PROVE  \E k, m \in Nat : Traded(w, DEX, tin, n, to, k, tout, m, r)
    <2>1. y.w.ok
      BY <1>2, <1>4 DEF After
    <2>2. PICK k \in Nat : Filled(w, tin, tout, n, to, k, y)
      BY <1>1, <2>1
    <2>3. PICK m \in Nat : Paid(y.w, tout, y.gross, to, m, r)
      BY <1>2, <1>4
    <2>4. Traded(w, DEX, tin, n, to, k, tout, m, r)
      BY <1>1, <2>2, <2>3, FilledPaid
    <2>5. QED
      BY <2>4
  <1>5. QED
    BY <1>3, <1>4

(* A call that leaves every contract's own as it was.                      *)
Neutral(w, r) ==
    /\ After(w, r)
    /\ r.ok => \A c \in Contracts, u \in Tokens : Own(r, c, u) = Own(w, c, u)

(* Someone is paid m of t, and that is all.                                *)
Receives(w, to, t, m, r) ==
    \A c \in Contracts, u \in Tokens :
        Own(r, c, u) = Own(w, c, u) + At(to, t, m, c, u)

(* What a user sends the aggregator and has traded is none of the          *)
(* contracts', unless the swap names one as the payee.                     *)
LEMMA SwapPays ==
    ASSUME NEW w \in Works, NEW user \in Users, NEW tin \in Tokens, NEW tout \in Tokens,
           NEW n \in Int, NEW paid, Sent(w, tin, user, DEX, n, paid),
           NEW y \in SplitStates, After(paid, y.w),
           y.w.ok => \E k \in Nat : Filled(paid, tin, tout, n, user, k, y),
           NEW to, NEW m \in Int, NEW r, After(y.w, r), r.ok,
           Paid(y.w, tout, y.gross, to, m, r)
    PROVE  After(w, r) /\ Receives(w, to, tout, m, r)
  <1>1. After(w, paid) /\ paid \in Works /\ y.gross \in Int
    BY DEF Sent, After, SplitStates
  <1>2. After(w, r) /\ y.w.ok /\ paid.ok
    <2>1. After(w, y.w)
      BY <1>1, AfterTrans
    <2>2. After(w, r)
      BY <2>1, AfterTrans
    <2>3. QED
      BY <2>2 DEF After
  <1>3. user \notin Contracts
    BY AccountFacts
  <1>4. PICK k \in Nat : Filled(paid, tin, tout, n, user, k, y)
    BY <1>2
  <1>5. ASSUME NEW c \in Contracts, NEW u \in Tokens
        PROVE  Own(r, c, u) = Own(w, c, u) + At(to, tout, m, c, u)
    <2>1. Own(paid, c, u) = Own(w, c, u)
                            + (At(DEX, tin, n, c, u) - At(user, tin, n, c, u))
      BY <1>2 DEF Sent
    <2>2. Own(y.w, c, u) = Own(paid, c, u)
             + (At(DEX, tout, y.gross, c, u) - At(DEX, tin, n, c, u))
             + At(user, tin, k, c, u)
      BY <1>4 DEF Filled
    <2>3. Own(r, c, u) = Own(y.w, c, u)
             + (At(to, tout, m, c, u) - At(DEX, tout, y.gross, c, u))
      BY DEF Paid
    <2>4. At(user, tin, n, c, u) = 0 /\ At(user, tin, k, c, u) = 0
      BY <1>3, AtOutside
    <2>5. /\ Own(w, c, u) \in Int /\ At(DEX, tin, n, c, u) \in Int
          /\ At(DEX, tout, y.gross, c, u) \in Int /\ At(to, tout, m, c, u) \in Int
      BY <1>1, OwnInt, AtInt
    <2>6. QED
      BY <2>1, <2>2, <2>3, <2>4, <2>5
  <1>6. QED
    BY <1>2, <1>5 DEF Receives

(* A trade of the aggregator for the router, which has sent the input.     *)
DexData == [kind : {"Splits"}, route : Seq(Splits)]
           \cup [kind : {"Calls"}, route : Seq(Calls)]

(* It spends the input, but for what it gives back.                        *)
LEMMA DexFillFacts ==
    ASSUME fees \in FeeTerms, NEW w \in Works, NEW tin \in Tokens, NEW tout \in Tokens,
           tin # tout, NEW n \in Int, NEW min, NEW data \in DexData,
           NEW r, r = DexFill(w, tin, tout, n, min, data)
    PROVE  /\ After(w, r)
           /\ r.ok => \E k, m \in Nat : Traded(w, DEX, tin, n, ROUTER, k, tout, m, r)
  <1> DEFINE p == ~dex.paused /\ FreeBalance(w, tin) >= n
             open == Require(w, p)
  <1>1. p \in BOOLEAN
    OBVIOUS
  <1>2. ROUTER \in Accounts /\ ROUTER # DEX
    BY AccountFacts, DexAssumption
  <1>3. None = None \/ None \in PartnerTerms
    OBVIOUS
  <1>4. CASE data.kind = "Splits"
    <2> DEFINE q == Validate(tin, tout, n, data.route)
               valid == Require(open, q)
    <2>1. r = Settle(Execute(valid, tin, data.route), tout, None, min, ROUTER)
      BY <1>4 DEF DexFill
    <2>2. data.route \in Seq(Splits)
      BY <1>4 DEF DexData
    <2>3. q \in BOOLEAN
      BY DEF Validate
    <2> HIDE DEF p, open, q, valid
    <2>4. Required(w, p, open)
      BY <1>1, RequireFacts DEF open
    <2>5. open \in Works
      BY <2>4 DEF Required, After
    <2>6. Required(open, q, valid)
      BY <2>3, <2>5, RequireFacts DEF valid
    <2>7. valid \in Works
      BY <2>6 DEF Required, After
    <2>8. /\ After(valid, r)
          /\ r.ok /\ Validate(tin, tout, n, data.route) =>
               \E k, m \in Nat : Traded(valid, DEX, tin, n, ROUTER, k, tout, m, r)
      BY <1>2, <1>3, <2>1, <2>2, <2>7, SplitsSettled
    <2>9. After(w, r)
      <3>1. After(w, open) /\ After(open, valid)
        BY <2>4, <2>6 DEF Required
      <3>2. QED
        BY <2>8, <3>1, AfterTrans
    <2>10. ASSUME r.ok
           PROVE  \E k, m \in Nat : Traded(w, DEX, tin, n, ROUTER, k, tout, m, r)
      <3>1. q
        BY <2>6, <2>8, <2>10 DEF Required, After
      <3>2. PICK k \in Nat, m \in Nat : Traded(valid, DEX, tin, n, ROUTER, k, tout, m, r)
        BY <2>8, <2>10, <3>1 DEF q
      <3>3. \A c \in Contracts, u \in Tokens : Own(valid, c, u) = Own(w, c, u)
        BY <2>4, <2>6 DEF Required
      <3>4. Traded(w, DEX, tin, n, ROUTER, k, tout, m, r)
        BY <3>2, <3>3 DEF Traded
      <3>5. QED
        BY <3>4
    <2>11. QED
      BY <2>9, <2>10
  <1>5. CASE data.kind # "Splits"
    <2>1. r = Settle(ExecuteCalls(open, tin, tout, n, data.route, ROUTER), tout, None,
                     min, ROUTER)
      BY <1>5 DEF DexFill
    <2>2. data.route \in Seq(Calls)
      BY <1>5 DEF DexData
    <2> HIDE DEF p, open
    <2>3. Required(w, p, open)
      BY <1>1, RequireFacts DEF open
    <2>4. open \in Works
      BY <2>3 DEF Required, After
    <2>5. /\ After(open, r)
          /\ r.ok => \E k, m \in Nat : Traded(open, DEX, tin, n, ROUTER, k, tout, m, r)
      BY <1>2, <1>3, <2>1, <2>2, <2>4, CallsSettled
    <2>6. After(w, r)
      BY <2>3, <2>5, AfterTrans DEF Required
    <2>7. ASSUME r.ok
          PROVE  \E k, m \in Nat : Traded(w, DEX, tin, n, ROUTER, k, tout, m, r)
      <3>1. PICK k \in Nat, m \in Nat : Traded(open, DEX, tin, n, ROUTER, k, tout, m, r)
        BY <2>5, <2>7
      <3>2. Traded(w, DEX, tin, n, ROUTER, k, tout, m, r)
        BY <2>3, <3>1 DEF Traded, Required
      <3>3. QED
        BY <3>2
    <2>8. QED
      BY <2>6, <2>7
  <1>6. QED
    BY <1>4, <1>5

-----------------------------------------------------------------------------
(* The facility aggregator                                                 *)

(* A facility takes the input from the payer, who is a user, and pays.     *)
LEMMA FacilityTradeFacts ==
    ASSUME NEW w \in Works, NEW payer \in Users, NEW to \in Accounts, NEW tin \in Tokens,
           NEW tout \in Tokens, NEW n \in Int, NEW min, NEW pays \in Int,
           NEW r, r = FacilityTrade(w, payer, to, tin, tout, n, min, pays)
    PROVE  /\ After(w, r)
           /\ r.ok => pays >= 0
           /\ r.ok => \A c \in Contracts, u \in Tokens :
                         Own(r, c, u) = Own(w, c, u) + At(to, tout, pays, c, u)
  <1> DEFINE p == n > 0 /\ pays > 0 /\ pays >= min
             priced == Require(w, p)
             pulled == Send(priced, tin, payer, MARKET, n)
  <1>1. r = Send(pulled, tout, MARKET, to, pays)
    BY DEF FacilityTrade
  <1>2. p \in BOOLEAN /\ payer \in Accounts /\ MARKET \in Accounts
        /\ payer \notin Contracts /\ MARKET \notin Contracts
    BY AccountFacts
  <1> HIDE DEF p, priced, pulled
  <1>3. Required(w, p, priced)
    BY <1>2, RequireFacts DEF priced
  <1>4. priced \in Works
    BY <1>3 DEF Required, After
  <1>5. Sent(priced, tin, payer, MARKET, n, pulled)
    BY <1>2, <1>4, SendFacts DEF pulled
  <1>6. pulled \in Works
    BY <1>5 DEF Sent, After
  <1>7. Sent(pulled, tout, MARKET, to, pays, r)
    BY <1>1, <1>2, <1>6, SendFacts
  <1>8. After(w, r)
    <2>1. After(w, priced) /\ After(priced, pulled) /\ After(pulled, r)
      BY <1>3, <1>5, <1>7 DEF Required, Sent
    <2>2. QED
      BY <2>1, AfterTrans
  <1>9. ASSUME r.ok, NEW c \in Contracts, NEW u \in Tokens
        PROVE  Own(r, c, u) = Own(w, c, u) + At(to, tout, pays, c, u)
    <2>1. pulled.ok
      BY <1>7, <1>9 DEF Sent, After
    <2>2. Own(pulled, c, u) = Own(priced, c, u) + (At(MARKET, tin, n, c, u)
                                                   - At(payer, tin, n, c, u))
      BY <1>5, <2>1 DEF Sent
    <2>3. Own(r, c, u) = Own(pulled, c, u) + (At(to, tout, pays, c, u)
                                              - At(MARKET, tout, pays, c, u))
      BY <1>7, <1>9 DEF Sent
    <2>4. /\ At(MARKET, tin, n, c, u) = 0 /\ At(payer, tin, n, c, u) = 0
          /\ At(MARKET, tout, pays, c, u) = 0
      BY <1>2, AtOutside
    <2>5. Own(priced, c, u) = Own(w, c, u) /\ Own(w, c, u) \in Int
          /\ At(to, tout, pays, c, u) \in Int
      BY <1>3, OwnInt, AtInt DEF Required
    <2>6. QED
      BY <2>2, <2>3, <2>4, <2>5
  <1>10. QED
    BY <1>7, <1>8, <1>9 DEF Sent

(* The aggregator keeps nothing of what passes through it.                 *)
LEMMA FacilityExecuteFacts ==
    ASSUME agg.fee \in Int, NEW w \in Works, NEW payer \in Users, NEW to \in Accounts,
           NEW tin \in Tokens, NEW tout \in Tokens, NEW n \in Int, NEW min,
           NEW x, x.pays \in Int,
           NEW r, r = FacilityExecute(w, payer, to, tin, tout, n, min, x)
    PROVE  /\ After(w, r)
           /\ r.ok => /\ Payout(tout, x.pays) \in Nat
                     /\ Receives(w, to, tout, Payout(tout, x.pays), r)
  <1> DEFINE p == ~agg.paused /\ x.facility \in agg.active
             open == Require(w, p)
             pays == x.pays
             fee == FeeOn(pays)
             net == pays - fee
             out == Payout(tout, pays)
             q == out >= min
  <1>1. /\ p \in BOOLEAN /\ q \in BOOLEAN
        /\ payer \in Accounts /\ Protocol \in Accounts /\ FACILITIES \in Accounts
        /\ payer \notin Contracts /\ Protocol \notin Contracts
        /\ Base \in Tokens
    BY AccountFacts, RoutingAssumption
  <1>a. (tout = Base => out = net) /\ (tout # Base => out = pays)
    BY DEF Payout
  <1>2. pays \in Int
    OBVIOUS
  <1>3. fee \in Int /\ FeeOn(n) \in Int
    <2>1. FeeOn(pays) = Bps(pays, agg.fee) /\ FeeOn(n) = Bps(n, agg.fee)
      BY DEF FeeOn, Bps
    <2>2. QED
      BY <1>2, <2>1, BpsInt
  <1>4. net \in Int
    <2> HIDE DEF fee, pays
    <2>1. QED
      BY <1>2, <1>3
  <1> HIDE DEF p, open
  <1>5. Required(w, p, open)
    BY <1>1, RequireFacts DEF open
  <1>6. open \in Works /\ After(w, open)
        /\ \A c \in Contracts, u \in Tokens : Own(open, c, u) = Own(w, c, u)
    BY <1>5 DEF Required, After
  <1>7. ASSUME NEW v, r = Require(v, q), After(open, v),
               v.ok => out \in Nat /\ Receives(open, to, tout, out, v)
        PROVE  /\ After(w, r)
               /\ r.ok => out \in Nat /\ Receives(w, to, tout, out, r)
    <2>1. v \in Works
      BY <1>7 DEF After
    <2> HIDE DEF q, out
    <2>2. Required(v, q, r)
      BY <1>1, <1>7, <2>1, RequireFacts
    <2>3. After(v, r)
      BY <2>2 DEF Required
    <2>4. After(w, r)
      BY <1>6, <1>7, <2>3, AfterTrans
    <2>5. ASSUME r.ok
          PROVE  out \in Nat /\ Receives(w, to, tout, out, r)
      <3>1. v.ok
        BY <2>3, <2>5 DEF After
      <3>2. out \in Nat /\ Receives(open, to, tout, out, v)
        BY <1>7, <3>1
      <3>3. Receives(w, to, tout, out, r)
        BY <1>6, <2>2, <3>2 DEF Receives, Required
      <3>4. QED
        BY <3>2, <3>3
    <2>6. QED
      BY <2>4, <2>5
  <1>8. CASE tout = Base
    <2> DEFINE got == FacilityTrade(open, payer, FACILITIES, tin, tout, n, min, pays)
               taxed == Send(got, Base, FACILITIES, Protocol, fee)
               v == Send(taxed, Base, FACILITIES, to, net)
    <2>1. r = Require(v, q)
      BY <1>8 DEF FacilityExecute, Payout, open, p
    <2>a. out = net
      BY <1>8, <1>a
    <2> HIDE DEF got, taxed, v, fee, net, pays, out, q
    <2>2. /\ After(open, got)
          /\ got.ok => \A c \in Contracts, u \in Tokens :
                          Own(got, c, u) = Own(open, c, u) + At(FACILITIES, tout, pays, c, u)
      BY <1>1, <1>2, <1>6, FacilityTradeFacts DEF got
    <2>3. got \in Works
      BY <2>2 DEF After
    <2>4. Sent(got, Base, FACILITIES, Protocol, fee, taxed)
      BY <1>1, <1>3, <2>3, SendFacts DEF taxed
    <2>5. taxed \in Works
      BY <2>4 DEF Sent, After
    <2>6. Sent(taxed, Base, FACILITIES, to, net, v)
      BY <1>1, <1>4, <2>5, SendFacts DEF v
    <2>7. After(open, v)
      <3>1. After(got, taxed) /\ After(taxed, v)
        BY <2>4, <2>6 DEF Sent
      <3>2. QED
        BY <2>2, <3>1, AfterTrans
    <2>8. ASSUME v.ok
          PROVE  net \in Nat /\ Receives(open, to, tout, net, v)
      <3>1. net \in Nat /\ taxed.ok /\ got.ok
        BY <1>4, <2>4, <2>6, <2>8 DEF Sent, After
      <3>2. ASSUME NEW c \in Contracts, NEW u \in Tokens
            PROVE  Own(v, c, u) = Own(open, c, u) + At(to, tout, net, c, u)
        <4>1. Own(got, c, u) = Own(open, c, u) + At(FACILITIES, tout, pays, c, u)
          BY <2>2, <3>1
        <4>2. Own(taxed, c, u) = Own(got, c, u) + (At(Protocol, Base, fee, c, u)
                                                   - At(FACILITIES, Base, fee, c, u))
          BY <2>4, <3>1 DEF Sent
        <4>3. Own(v, c, u) = Own(taxed, c, u) + (At(to, Base, net, c, u)
                                                 - At(FACILITIES, Base, net, c, u))
          BY <2>6, <2>8 DEF Sent
        <4>4. At(Protocol, Base, fee, c, u) = 0
          BY <1>1, AtOutside
        <4>5. At(FACILITIES, tout, pays, c, u)
                 = At(FACILITIES, Base, fee, c, u) + At(FACILITIES, Base, net, c, u)
          <5>1. pays = fee + net
            BY <1>2, <1>3 DEF net
          <5>2. QED
            BY <1>2, <1>3, <1>4, <1>8, <5>1 DEF At
        <4>6. /\ At(FACILITIES, Base, fee, c, u) \in Int /\ Own(open, c, u) \in Int
              /\ At(FACILITIES, Base, net, c, u) \in Int /\ At(to, Base, net, c, u) \in Int
          BY <1>3, <1>4, <1>6, AtInt, OwnInt
        <4>7. QED
          BY <1>8, <4>1, <4>2, <4>3, <4>4, <4>5, <4>6
      <3>3. QED
        BY <3>1, <3>2 DEF Receives
    <2>9. v.ok => out \in Nat /\ Receives(open, to, tout, out, v)
      BY <2>8, <2>a
    <2>10. QED
      BY <1>7, <2>1, <2>7, <2>9 DEF out, pays
  <1>9. CASE tout # Base /\ tin = Base
    <2> DEFINE cut == FeeOn(n)
               taxed == Send(open, Base, payer, Protocol, cut)
               v == FacilityTrade(taxed, payer, to, tin, tout, n - cut, min, pays)
    <2>1. r = Require(v, q)
      BY <1>9 DEF FacilityExecute, open, p
    <2>2. cut \in Int
      BY <1>3
    <2>a. out = pays
      BY <1>9, <1>a
    <2> HIDE DEF cut, taxed, v, pays, out, q
    <2>3. n - cut \in Int
      BY <2>2
    <2>4. Sent(open, Base, payer, Protocol, cut, taxed)
      BY <1>1, <1>6, <2>2, SendFacts DEF taxed
    <2>5. taxed \in Works
      BY <2>4 DEF Sent, After
    <2>6. /\ After(taxed, v) /\ (v.ok => pays >= 0)
          /\ v.ok => \A c \in Contracts, u \in Tokens :
                        Own(v, c, u) = Own(taxed, c, u) + At(to, tout, pays, c, u)
      BY <1>2, <2>3, <2>5, FacilityTradeFacts DEF v
    <2>7. After(open, v)
      BY <2>4, <2>6, AfterTrans DEF Sent
    <2>8. ASSUME v.ok
          PROVE  pays \in Nat /\ Receives(open, to, tout, pays, v)
      <3>1. pays \in Nat /\ taxed.ok
        BY <1>2, <2>6, <2>8 DEF After
      <3>2. ASSUME NEW c \in Contracts, NEW u \in Tokens
            PROVE  Own(v, c, u) = Own(open, c, u) + At(to, tout, pays, c, u)
        <4>1. Own(taxed, c, u) = Own(open, c, u) + (At(Protocol, Base, cut, c, u)
                                                    - At(payer, Base, cut, c, u))
          BY <2>4, <3>1 DEF Sent
        <4>2. At(Protocol, Base, cut, c, u) = 0 /\ At(payer, Base, cut, c, u) = 0
          BY <1>1, AtOutside
        <4>3. Own(open, c, u) \in Int
          BY <1>6, OwnInt
        <4>4. QED
          BY <2>6, <2>8, <4>1, <4>2, <4>3
      <3>3. QED
        BY <3>1, <3>2 DEF Receives
    <2>9. v.ok => out \in Nat /\ Receives(open, to, tout, out, v)
      BY <2>8, <2>a
    <2>10. QED
      BY <1>7, <2>1, <2>7, <2>9 DEF out, pays
  <1>10. CASE tout # Base /\ tin # Base
    <2> DEFINE v == FacilityTrade(open, payer, to, tin, tout, n, min, pays)
    <2>1. r = Require(v, q)
      BY <1>10 DEF FacilityExecute, open, p
    <2>a. out = pays
      BY <1>10, <1>a
    <2> HIDE DEF v, pays, out, q
    <2>2. /\ After(open, v) /\ (v.ok => pays >= 0)
          /\ v.ok => \A c \in Contracts, u \in Tokens :
                        Own(v, c, u) = Own(open, c, u) + At(to, tout, pays, c, u)
      BY <1>2, <1>6, FacilityTradeFacts DEF v
    <2>3. ASSUME v.ok
          PROVE  pays \in Nat /\ Receives(open, to, tout, pays, v)
      BY <1>2, <2>2, <2>3 DEF Receives
    <2>4. v.ok => out \in Nat /\ Receives(open, to, tout, out, v)
      BY <2>3, <2>a
    <2>5. QED
      BY <1>7, <2>1, <2>2, <2>4 DEF out, pays
  <1>11. QED
    BY <1>8, <1>9, <1>10

-----------------------------------------------------------------------------
(* The legs of a route                                                     *)

(* Of n of the input in the router's hands a part of a route has given     *)
(* back some, and paid the router for the rest.                            *)
Handled(w, tin, n, tout, r) ==
    /\ After(w, r)
    /\ r.ok => \E k, m \in Nat : Traded(w, ROUTER, tin, n, ROUTER, k, tout, m, r)

(* What a leg is given by the router.                                      *)
Share(leg) == IF Routed(leg) THEN leg.amount ELSE 0

(* A signed bid that is open: what the settlement contract does not take   *)
(* is still the router's.                                                  *)
LEMMA OpenBidFacts ==
    ASSUME NEW w \in Works, NEW taker \in Users, NEW tin \in Tokens, NEW tout \in Tokens,
           NEW leg \in RfqLegs, ~leg.named, NEW r, r = Submit(w, taker, tin, tout, leg)
    PROVE  Handled(w, tin, leg.amount, tout, r)
  <1> DEFINE n == leg.amount
             takes == leg.takes
             pays == leg.pays
             p == takes <= n
             ready == Require(w, p)
             pulled == Send(ready, tin, ROUTER, MARKET, takes)
             k == n - takes
  <1>1. n \in Int /\ takes \in Int /\ pays \in Int
    BY DEF RfqLegs
  <1>2. r = Send(pulled, tout, MARKET, ROUTER, pays)
    BY DEF Submit
  <1>3. p \in BOOLEAN /\ k \in Int
    BY <1>1
  <1>4. ROUTER \in Accounts /\ MARKET \in Accounts /\ MARKET \notin Contracts
    BY AccountFacts
  <1> HIDE DEF n, takes, pays, p, ready, pulled
  <1>5. Required(w, p, ready)
    BY <1>3, RequireFacts DEF ready
  <1>6. ready \in Works
    BY <1>5 DEF Required, After
  <1>7. Sent(ready, tin, ROUTER, MARKET, takes, pulled)
    BY <1>1, <1>4, <1>6, SendFacts DEF pulled
  <1>8. pulled \in Works
    BY <1>7 DEF Sent, After
  <1>9. Sent(pulled, tout, MARKET, ROUTER, pays, r)
    BY <1>1, <1>2, <1>4, <1>8, SendFacts
  <1>10. After(w, r)
    <2>1. After(w, ready) /\ After(ready, pulled) /\ After(pulled, r)
      BY <1>5, <1>7, <1>9 DEF Required, Sent
    <2>2. QED
      BY <2>1, AfterTrans
  <1>11. ASSUME r.ok
         PROVE  k \in Nat /\ pays \in Nat /\ Traded(w, ROUTER, tin, n, ROUTER, k, tout, pays, r)
    <2>1. pulled.ok /\ ready.ok
      BY <1>7, <1>9, <1>11 DEF Sent, After
    <2>2. p /\ takes >= 0 /\ pays >= 0
      BY <1>5, <1>7, <1>9, <1>11, <2>1 DEF Required, Sent
    <2>3. k \in Nat /\ pays \in Nat
      BY <1>1, <2>2 DEF p
    <2>4. ASSUME NEW c \in Contracts, NEW u \in Tokens
          PROVE  Own(r, c, u) = Own(w, c, u) - At(ROUTER, tin, n, c, u)
                     + (At(ROUTER, tin, k, c, u) + At(ROUTER, tout, pays, c, u))
      <3>1. Own(pulled, c, u) = Own(ready, c, u) + (At(MARKET, tin, takes, c, u)
                                                    - At(ROUTER, tin, takes, c, u))
        BY <1>7, <2>1 DEF Sent
      <3>2. Own(r, c, u) = Own(pulled, c, u) + (At(ROUTER, tout, pays, c, u)
                                                - At(MARKET, tout, pays, c, u))
        BY <1>9, <1>11 DEF Sent
      <3>3. At(MARKET, tin, takes, c, u) = 0 /\ At(MARKET, tout, pays, c, u) = 0
        BY <1>4, AtOutside
      <3>4. At(ROUTER, tin, n, c, u) = At(ROUTER, tin, takes, c, u) + At(ROUTER, tin, k, c, u)
        BY <1>1 DEF At
      <3>5. /\ At(ROUTER, tin, takes, c, u) \in Int /\ At(ROUTER, tin, k, c, u) \in Int
            /\ At(ROUTER, tout, pays, c, u) \in Int /\ Own(w, c, u) \in Int
            /\ Own(ready, c, u) = Own(w, c, u)
        BY <1>1, <1>3, <1>5, AtInt, OwnInt DEF Required
      <3> HIDE DEF k
      <3>6. QED
        BY <3>1, <3>2, <3>3, <3>4, <3>5
    <2>5. QED
      BY <2>3, <2>4 DEF Traded
  <1> HIDE DEF k
  <1>12. QED
    BY <1>10, <1>11 DEF Handled, n

(* A signed bid that names its taker passes the router by.                 *)
LEMMA NamedBidFacts ==
    ASSUME NEW w \in Works, NEW taker \in Users, NEW tin \in Tokens, NEW tout \in Tokens,
           NEW leg \in RfqLegs, leg.named, NEW r, r = Submit(w, taker, tin, tout, leg)
    PROVE  Handled(w, tin, 0, tout, r)
  <1> DEFINE n == leg.amount
             takes == leg.takes
             pays == leg.pays
             p == takes <= n
             ready == Require(w, p)
             pulled == Send(ready, tin, taker, MARKET, takes)
  <1>1. n \in Int /\ takes \in Int /\ pays \in Int
    BY DEF RfqLegs
  <1>2. r = Send(pulled, tout, MARKET, taker, pays)
    BY DEF Submit
  <1>3. p \in BOOLEAN
    BY <1>1
  <1>4. taker \in Accounts /\ MARKET \in Accounts /\ MARKET \notin Contracts
        /\ taker \notin Contracts
    BY AccountFacts
  <1> HIDE DEF n, takes, pays, p, ready, pulled
  <1>5. Required(w, p, ready)
    BY <1>3, RequireFacts DEF ready
  <1>6. ready \in Works
    BY <1>5 DEF Required, After
  <1>7. Sent(ready, tin, taker, MARKET, takes, pulled)
    BY <1>1, <1>4, <1>6, SendFacts DEF pulled
  <1>8. pulled \in Works
    BY <1>7 DEF Sent, After
  <1>9. Sent(pulled, tout, MARKET, taker, pays, r)
    BY <1>1, <1>2, <1>4, <1>8, SendFacts
  <1>10. After(w, r)
    <2>1. After(w, ready) /\ After(ready, pulled) /\ After(pulled, r)
      BY <1>5, <1>7, <1>9 DEF Required, Sent
    <2>2. QED
      BY <2>1, AfterTrans
  <1>11. ASSUME r.ok
         PROVE  Traded(w, ROUTER, tin, 0, ROUTER, 0, tout, 0, r)
    <2>1. pulled.ok
      BY <1>9, <1>11 DEF Sent, After
    <2>2. ASSUME NEW c \in Contracts, NEW u \in Tokens
          PROVE  Own(r, c, u) = Own(w, c, u) - At(ROUTER, tin, 0, c, u)
                     + (At(ROUTER, tin, 0, c, u) + At(ROUTER, tout, 0, c, u))
      <3>1. Own(pulled, c, u) = Own(ready, c, u) + (At(MARKET, tin, takes, c, u)
                                                    - At(taker, tin, takes, c, u))
        BY <1>7, <2>1 DEF Sent
      <3>2. Own(r, c, u) = Own(pulled, c, u) + (At(taker, tout, pays, c, u)
                                                - At(MARKET, tout, pays, c, u))
        BY <1>9, <1>11 DEF Sent
      <3>3. /\ At(MARKET, tin, takes, c, u) = 0 /\ At(MARKET, tout, pays, c, u) = 0
            /\ At(taker, tin, takes, c, u) = 0 /\ At(taker, tout, pays, c, u) = 0
        BY <1>4, AtOutside
      <3>4. At(ROUTER, tin, 0, c, u) = 0 /\ At(ROUTER, tout, 0, c, u) = 0
        BY DEF At
      <3>5. Own(w, c, u) \in Int /\ Own(ready, c, u) = Own(w, c, u)
        BY <1>5, OwnInt DEF Required
      <3>6. QED
        BY <3>1, <3>2, <3>3, <3>4, <3>5
    <2>3. QED
      BY <2>2 DEF Traded
  <1>12. QED
    BY <1>10, <1>11 DEF Handled

(* A condition on what has been handled.                                   *)
LEMMA HandledRequired ==
    ASSUME NEW w, NEW tin, NEW n, NEW tout, NEW v, NEW p, NEW r,
           Handled(w, tin, n, tout, v), Required(v, p, r)
    PROVE  Handled(w, tin, n, tout, r)
  <1>1. After(w, r) /\ (r.ok => v.ok)
    BY AfterTrans DEF Handled, Required, After
  <1>2. ASSUME r.ok
        PROVE  \E k, m \in Nat : Traded(w, ROUTER, tin, n, ROUTER, k, tout, m, r)
    <2>1. PICK k \in Nat, m \in Nat : Traded(w, ROUTER, tin, n, ROUTER, k, tout, m, v)
      BY <1>1, <1>2 DEF Handled
    <2>2. Traded(w, ROUTER, tin, n, ROUTER, k, tout, m, r)
      BY <2>1 DEF Traded, Required
    <2>3. QED
      BY <2>2
  <1>3. QED
    BY <1>1, <1>2 DEF Handled

(* A leg to the DEX aggregator: the router sends it the input.             *)
LEMMA DexLegFacts ==
    ASSUME fees \in FeeTerms, NEW w \in Works, NEW taker, NEW tin \in Tokens,
           NEW tout \in Tokens, tin # tout, NEW leg \in DexLegs,
           NEW r, r = ExecuteLeg(w, taker, tin, tout, leg)
    PROVE  Handled(w, tin, leg.amount, tout, r)
  <1> DEFINE n == leg.amount
             sent == Send(w, tin, ROUTER, DEX, n)
             v == DexFill(sent, tin, tout, n, leg.min, leg.data)
             p == Gained(v, sent, ROUTER, tout) >= leg.min
  <1>1. leg.kind = "Dex" /\ n \in Int /\ leg.data \in DexData
    BY DEF DexLegs, DexData
  <1>2. r = Require(v, p)
    BY <1>1 DEF ExecuteLeg, Draw
  <1>3. p \in BOOLEAN /\ ROUTER \in Accounts /\ DEX \in Accounts
    BY AccountFacts
  <1> HIDE DEF n, sent, v, p
  <1>4. Sent(w, tin, ROUTER, DEX, n, sent)
    BY <1>1, <1>3, SendFacts DEF sent
  <1>5. sent \in Works
    BY <1>4 DEF Sent, After
  <1>6. /\ After(sent, v)
        /\ v.ok => \E k, m \in Nat : Traded(sent, DEX, tin, n, ROUTER, k, tout, m, v)
    BY <1>1, <1>5, DexFillFacts DEF v
  <1>7. After(w, v)
    BY <1>4, <1>6, AfterTrans DEF Sent
  <1>8. ASSUME v.ok
        PROVE  \E k, m \in Nat : Traded(w, ROUTER, tin, n, ROUTER, k, tout, m, v)
    <2>1. PICK k \in Nat, m \in Nat : Traded(sent, DEX, tin, n, ROUTER, k, tout, m, v)
      BY <1>6, <1>8
    <2>2. sent.ok
      BY <1>6, <1>8 DEF After
    <2>3. ASSUME NEW c \in Contracts, NEW u \in Tokens
          PROVE  Own(v, c, u) = Own(w, c, u) - At(ROUTER, tin, n, c, u)
                     + (At(ROUTER, tin, k, c, u) + At(ROUTER, tout, m, c, u))
      <3>1. Own(sent, c, u) = Own(w, c, u) + (At(DEX, tin, n, c, u)
                                              - At(ROUTER, tin, n, c, u))
        BY <1>4, <2>2 DEF Sent
      <3>2. Own(v, c, u) = Own(sent, c, u) - At(DEX, tin, n, c, u)
                     + (At(ROUTER, tin, k, c, u) + At(ROUTER, tout, m, c, u))
        BY <2>1 DEF Traded
      <3>3. /\ Own(w, c, u) \in Int /\ At(DEX, tin, n, c, u) \in Int
            /\ At(ROUTER, tin, n, c, u) \in Int /\ At(ROUTER, tin, k, c, u) \in Int
            /\ At(ROUTER, tout, m, c, u) \in Int
        BY <1>1, OwnInt, AtInt
      <3>4. QED
        BY <3>1, <3>2, <3>3
    <2>4. Traded(w, ROUTER, tin, n, ROUTER, k, tout, m, v)
      BY <2>3 DEF Traded
    <2>5. QED
      BY <2>4
  <1>9. Handled(w, tin, n, tout, v)
    BY <1>7, <1>8 DEF Handled
  <1>10. v \in Works
    BY <1>7 DEF After
  <1>11. Required(v, p, r)
    BY <1>2, <1>3, <1>10, RequireFacts
  <1>12. QED
    BY <1>9, <1>11, HandledRequired DEF n

(* A leg to the facility aggregator, which the taker pays and the router   *)
(* is paid for.                                                            *)
LEMMA FacilityLegFacts ==
    ASSUME agg.fee \in Int, NEW w \in Works, NEW taker \in Users, NEW tin \in Tokens,
           NEW tout \in Tokens, NEW leg \in FacilityLegs,
           NEW r, r = ExecuteLeg(w, taker, tin, tout, leg)
    PROVE  Handled(w, tin, 0, tout, r)
  <1> DEFINE v == FacilityExecute(w, taker, ROUTER, tin, tout, leg.amount, leg.min, leg.data)
             p == Gained(v, w, ROUTER, tout) >= leg.min
             x == leg.data
  <1>1. leg.kind = "Facility" /\ leg.amount \in Int /\ x.pays \in Int
    BY DEF FacilityLegs
  <1>2. r = Require(v, p)
    BY <1>1 DEF ExecuteLeg, Draw
  <1>3. p \in BOOLEAN /\ ROUTER \in Accounts
    BY AccountFacts
  <1>4. /\ After(w, v)
        /\ v.ok => \E m \in Nat : Receives(w, ROUTER, tout, m, v)
    <2> HIDE DEF x, v
    <2>1. QED
      BY <1>1, <1>3, FacilityExecuteFacts DEF v, x
  <1> HIDE DEF v, p, x
  <1>5. ASSUME v.ok
        PROVE  \E k, m \in Nat : Traded(w, ROUTER, tin, 0, ROUTER, k, tout, m, v)
    <2>1. PICK m \in Nat : Receives(w, ROUTER, tout, m, v)
      BY <1>4, <1>5
    <2>2. ASSUME NEW c \in Contracts, NEW u \in Tokens
          PROVE  Own(v, c, u) = Own(w, c, u) - At(ROUTER, tin, 0, c, u)
                     + (At(ROUTER, tin, 0, c, u) + At(ROUTER, tout, m, c, u))
      <3>1. Own(v, c, u) = Own(w, c, u) + At(ROUTER, tout, m, c, u)
        BY <2>1 DEF Receives
      <3>2. At(ROUTER, tin, 0, c, u) = 0
        BY DEF At
      <3>3. Own(w, c, u) \in Int /\ At(ROUTER, tout, m, c, u) \in Int
        BY OwnInt, AtInt
      <3>4. QED
        BY <3>1, <3>2, <3>3
    <2>3. Traded(w, ROUTER, tin, 0, ROUTER, 0, tout, m, v)
      BY <2>2 DEF Traded
    <2>4. QED
      BY <2>3
  <1>6. Handled(w, tin, 0, tout, v)
    BY <1>4, <1>5 DEF Handled
  <1>7. v \in Works
    BY <1>4 DEF After
  <1>8. Required(v, p, r)
    BY <1>2, <1>3, <1>7, RequireFacts
  <1>9. QED
    BY <1>6, <1>8, HandledRequired

(* A leg of any kind.                                                      *)
LEMMA LegFacts ==
    ASSUME fees \in FeeTerms, agg.fee \in Int, NEW w \in Works, NEW taker \in Users,
           NEW tin \in Tokens, NEW tout \in Tokens, tin # tout,
           NEW leg \in RfqLegs \cup DexLegs \cup FacilityLegs,
           NEW r, r = ExecuteLeg(w, taker, tin, tout, leg)
    PROVE  Handled(w, tin, Share(leg), tout, r) /\ Share(leg) \in Int
  <1>1. CASE leg \in RfqLegs
    <2>1. leg.kind = "Rfq" /\ leg.named \in BOOLEAN /\ leg.amount \in Int
      BY <1>1 DEF RfqLegs
    <2>2. r = Submit(w, taker, tin, tout, leg)
      BY <2>1 DEF ExecuteLeg
    <2>3. CASE leg.named
      <3>1. Share(leg) = 0
        BY <2>1, <2>3 DEF Share, Routed
      <3>2. QED
        BY <1>1, <2>2, <2>3, <3>1, NamedBidFacts
    <2>4. CASE ~leg.named
      <3>1. Share(leg) = leg.amount
        BY <2>1, <2>4 DEF Share, Routed
      <3>2. QED
        BY <1>1, <2>1, <2>2, <2>4, <3>1, OpenBidFacts
    <2>5. QED
      BY <2>3, <2>4
  <1>2. CASE leg \in DexLegs
    <2>1. leg.kind = "Dex" /\ leg.amount \in Int
      BY <1>2 DEF DexLegs
    <2>2. Share(leg) = leg.amount
      BY <2>1 DEF Share, Routed
    <2>3. QED
      BY <1>2, <2>1, <2>2, DexLegFacts
  <1>3. CASE leg \in FacilityLegs
    <2>1. leg.kind = "Facility"
      BY <1>3 DEF FacilityLegs
    <2>2. Share(leg) = 0
      BY <2>1 DEF Share, Routed
    <2>3. QED
      BY <1>3, <2>2, FacilityLegFacts
  <1>4. QED
    BY <1>1, <1>2, <1>3

(* One part of a route after another.                                      *)
LEMMA HandledTrans ==
    ASSUME NEW w \in Works, NEW tin \in Tokens, NEW tout \in Tokens, NEW n \in Int,
           NEW s \in Int, NEW v, NEW r,
           Handled(w, tin, n, tout, v), Handled(v, tin, s, tout, r)
    PROVE  Handled(w, tin, n + s, tout, r)
  <1>1. After(w, v) /\ After(v, r) /\ v \in Works
    BY DEF Handled, After
  <1>2. After(w, r) /\ (r.ok => v.ok)
    BY <1>1, AfterTrans DEF After
  <1> DEFINE a == n + s
  <1>3. ASSUME r.ok
        PROVE  \E k, m \in Nat : Traded(w, ROUTER, tin, a, ROUTER, k, tout, m, r)
    <2>1. PICK k1 \in Nat, m1 \in Nat : Traded(w, ROUTER, tin, n, ROUTER, k1, tout, m1, v)
      BY <1>2, <1>3 DEF Handled
    <2>2. PICK k2 \in Nat, m2 \in Nat : Traded(v, ROUTER, tin, s, ROUTER, k2, tout, m2, r)
      BY <1>3 DEF Handled
    <2> DEFINE k == k1 + k2
               m == m1 + m2
    <2>3. k \in Nat /\ m \in Nat /\ a \in Int
      OBVIOUS
    <2>4. ASSUME NEW c \in Contracts, NEW u \in Tokens
          PROVE  Own(r, c, u) = Own(w, c, u) - At(ROUTER, tin, a, c, u)
                     + (At(ROUTER, tin, k, c, u) + At(ROUTER, tout, m, c, u))
      <3>1. Own(v, c, u) = Own(w, c, u) - At(ROUTER, tin, n, c, u)
                     + (At(ROUTER, tin, k1, c, u) + At(ROUTER, tout, m1, c, u))
        BY <2>1 DEF Traded
      <3>2. Own(r, c, u) = Own(v, c, u) - At(ROUTER, tin, s, c, u)
                     + (At(ROUTER, tin, k2, c, u) + At(ROUTER, tout, m2, c, u))
        BY <2>2 DEF Traded
      <3>3. /\ At(ROUTER, tin, a, c, u)
                  = At(ROUTER, tin, n, c, u) + At(ROUTER, tin, s, c, u)
            /\ At(ROUTER, tin, k, c, u)
                  = At(ROUTER, tin, k1, c, u) + At(ROUTER, tin, k2, c, u)
            /\ At(ROUTER, tout, m, c, u)
                  = At(ROUTER, tout, m1, c, u) + At(ROUTER, tout, m2, c, u)
        BY DEF At
      <3>4. /\ Own(w, c, u) \in Int
            /\ At(ROUTER, tin, n, c, u) \in Int /\ At(ROUTER, tin, s, c, u) \in Int
            /\ At(ROUTER, tin, k1, c, u) \in Int /\ At(ROUTER, tin, k2, c, u) \in Int
            /\ At(ROUTER, tout, m1, c, u) \in Int /\ At(ROUTER, tout, m2, c, u) \in Int
        BY OwnInt, AtInt
      <3> HIDE DEF a, k, m
      <3>5. QED
        BY <3>1, <3>2, <3>3, <3>4
    <2> HIDE DEF a, k, m
    <2>5. Traded(w, ROUTER, tin, a, ROUTER, k, tout, m, r)
      BY <2>4 DEF Traded
    <2>6. QED
      BY <2>3, <2>5
  <1> HIDE DEF a
  <1>4. Handled(w, tin, a, tout, r)
    BY <1>2, <1>3 DEF Handled
  <1>5. QED
    BY <1>4 DEF a

(* Legs of the three kinds.                                                *)
SomeLegs == RfqLegs \cup DexLegs \cup FacilityLegs

(* The states of a route along its legs.                                   *)
IsRouted(x, w, taker, tin, tout, route) ==
    x = [i \in 0 .. Len(route) |->
            IF i = 0 THEN w ELSE ExecuteLeg(x[i - 1], taker, tin, tout, route[i])]

(* A route goes through its legs.                                          *)
LEMMA RouteRuns ==
    ASSUME fees \in FeeTerms, agg.fee \in Int, NEW w \in Works, NEW taker \in Users,
           NEW tin \in Tokens, NEW tout \in Tokens, tin # tout,
           NEW route \in Seq(SomeLegs)
    PROVE  \E x : /\ IsRouted(x, w, taker, tin, tout, route)
                  /\ ExecuteRoute(w, taker, tin, tout, route) = x[Len(route)]
  <1> DEFINE n == Len(route)
             step == [i \in 1 .. n |->
                         [x \in Works |-> ExecuteLeg(x, taker, tin, tout, route[i])]]
  <1>1. n \in Nat /\ \A i \in 1 .. n : route[i] \in SomeLegs
    OBVIOUS
  <1> HIDE DEF n
  <1>2. \A i \in 1 .. n, x \in Works : ExecuteLeg(x, taker, tin, tout, route[i]) \in Works
    <2>1. TAKE i \in 1 .. n, x \in Works
    <2> DEFINE leg == route[i]
               r == ExecuteLeg(x, taker, tin, tout, leg)
    <2>2. leg \in RfqLegs \cup DexLegs \cup FacilityLegs
      BY <1>1 DEF SomeLegs
    <2> HIDE DEF leg
    <2>3. Handled(x, tin, Share(leg), tout, r)
      BY <2>2, LegFacts
    <2> HIDE DEF r
    <2>4. r \in Works
      BY <2>3 DEF Handled, After
    <2>5. QED
      BY <2>4 DEF r, leg
  <1>3. /\ step \in [1 .. n -> [Works -> Works]]
        /\ \A i \in 1 .. n, x \in Works :
              step[i][x] = ExecuteLeg(x, taker, tin, tout, route[i])
    <2>1. \A i \in 1 .. n :
             [x \in Works |-> ExecuteLeg(x, taker, tin, tout, route[i])] \in [Works -> Works]
      BY <1>2
    <2>2. QED
      BY <2>1
  <1> HIDE DEF step
  <1>4. PICK r : Runs(r, n, Works, w, step)
    BY <1>1, <1>3, RunExists, Zenon
  <1>5. r \in [0 .. n -> Works] /\ r[0] = w
        /\ \A i \in 1 .. n : r[i] = step[i][r[i - 1]]
    BY <1>4 DEF Runs
  <1>6. \A i \in 1 .. n : r[i] = ExecuteLeg(r[i - 1], taker, tin, tout, route[i])
    <2>1. TAKE i \in 1 .. n
    <2>2. i - 1 \in 0 .. n
      BY <1>1
    <2>3. r[i - 1] \in Works
      BY <1>5, <2>2
    <2>4. QED
      BY <1>3, <1>5, <2>3
  <1>7. IsRouted(r, w, taker, tin, tout, route)
    <2>1. r = [i \in 0 .. n |-> r[i]]
      BY <1>5
    <2>2. \A i \in 0 .. n :
             r[i] = IF i = 0 THEN w ELSE ExecuteLeg(r[i - 1], taker, tin, tout, route[i])
      BY <1>1, <1>5, <1>6
    <2>3. r = [i \in 0 .. n |-> IF i = 0 THEN w
                  ELSE ExecuteLeg(r[i - 1], taker, tin, tout, route[i])]
      BY <2>1, <2>2, Zenon
    <2>4. QED
      BY <2>3 DEF IsRouted, n
  <1> DEFINE g == CHOOSE x : IsRouted(x, w, taker, tin, tout, route)
  <1>8. IsRouted(g, w, taker, tin, tout, route)
    BY <1>7
  <1>9. ExecuteRoute(w, taker, tin, tout, route) = g[Len(route)]
    BY Zenon DEF ExecuteRoute, IsRouted
  <1>10. QED
    BY <1>8, <1>9

(* What each leg is given.                                                 *)
SharesOf(route) == [i \in DOMAIN route |-> Share(route[i])]

(* A route in whole: of what it was given, some is back, and the router    *)
(* has been paid for the rest.                                             *)
LEMMA RouteFacts ==
    ASSUME fees \in FeeTerms, agg.fee \in Int, NEW w \in Works, NEW taker \in Users,
           NEW tin \in Tokens, NEW tout \in Tokens, tin # tout,
           NEW route \in Seq(SomeLegs),
           NEW x, x = ExecuteRoute(w, taker, tin, tout, route)
    PROVE  Handled(w, tin, SumOf(SharesOf(route)), tout, x)
  <1> DEFINE n == Len(route)
             f == SharesOf(route)
  <1>1. /\ n \in Nat /\ DOMAIN route = 1 .. n
        /\ \A i \in 1 .. n : route[i] \in RfqLegs \cup DexLegs \cup FacilityLegs
    BY DEF SomeLegs
  <1>2. ASSUME NEW i \in 1 .. n
        PROVE  f[i] = Share(route[i]) /\ f[i] \in Int
    <2> DEFINE leg == route[i]
               r == ExecuteLeg(w, taker, tin, tout, leg)
    <2>1. leg \in RfqLegs \cup DexLegs \cup FacilityLegs
      BY <1>1
    <2>2. f[i] = Share(leg)
      BY <1>1 DEF SharesOf
    <2> HIDE DEF leg
    <2>3. Share(leg) \in Int
      BY <2>1, LegFacts
    <2>4. QED
      BY <2>2, <2>3 DEF leg
  <1>3. SumOf(f) = SumOver(f, 1 .. n)
    BY <1>1 DEF SumOf, SharesOf
  <1>4. PICK r : IsRouted(r, w, taker, tin, tout, route) /\ x = r[n]
    BY RouteRuns
  <1> DEFINE body(i) == IF i = 0 THEN w ELSE ExecuteLeg(r[i - 1], taker, tin, tout, route[i])
  <1>5. r = [i \in 0 .. n |-> body(i)]
    BY <1>4 DEF IsRouted
  <1>6. body(0) = w
        /\ \A i \in 1 .. n : body(i) = ExecuteLeg(r[i - 1], taker, tin, tout, route[i])
    <2>1. ASSUME NEW i \in 1 .. n PROVE i # 0
      BY <1>1
    <2>2. QED
      BY <2>1
  <1> HIDE DEF body, n, f
  <1>7. r[0] = w
        /\ \A i \in 1 .. n : r[i] = ExecuteLeg(r[i - 1], taker, tin, tout, route[i])
    <2>1. \A i \in 0 .. n : r[i] = body(i)
      BY <1>5
    <2>2. 0 \in 0 .. n /\ \A i \in 1 .. n : i \in 0 .. n
      BY <1>1
    <2>3. QED
      BY <1>6, <2>1, <2>2, Zenon
  <1> DEFINE G == {i \in 0 .. n : Handled(w, tin, SumOver(f, 1 .. i), tout, r[i])}
  <1>8. 0 \in G
    <2>1. After(w, w)
      BY AfterSelf
    <2>2. SumOver(f, 1 .. 0) = 0
      <3>1. 1 .. 0 = {}
        OBVIOUS
      <3>2. QED
        BY <3>1, SumEmpty
    <2>3. ASSUME NEW c \in Contracts, NEW u \in Tokens
          PROVE  Own(w, c, u) = Own(w, c, u) - At(ROUTER, tin, 0, c, u)
                     + (At(ROUTER, tin, 0, c, u) + At(ROUTER, tout, 0, c, u))
      <3>1. Own(w, c, u) \in Int
        BY OwnInt
      <3>2. QED
        BY <3>1 DEF At
    <2>4. Traded(w, ROUTER, tin, 0, ROUTER, 0, tout, 0, w)
      BY <2>3 DEF Traded
    <2>5. Handled(w, tin, 0, tout, w)
      BY <2>1, <2>4 DEF Handled
    <2>6. QED
      BY <1>1, <1>7, <2>2, <2>5
  <1>9. ASSUME NEW i \in 1 .. n, i - 1 \in G
        PROVE  i \in G
    <2> DEFINE p == r[i - 1]
               q == r[i]
               leg == route[i]
               s == Share(leg)
               k == SumOver(f, 1 .. i - 1)
    <2>1. Handled(w, tin, k, tout, p) /\ q = ExecuteLeg(p, taker, tin, tout, leg)
          /\ leg \in RfqLegs \cup DexLegs \cup FacilityLegs /\ f[i] = s
      BY <1>1, <1>2, <1>7, <1>9
    <2>2. IsFiniteSet(1 .. i - 1) /\ i \notin 1 .. i - 1
          /\ (1 .. i - 1) \cup {i} = 1 .. i
      <3>1. i \in Int /\ i - 1 \in Int /\ 1 \in Int
        BY <1>1
      <3>2. IsFiniteSet(1 .. i - 1)
        BY <3>1, FS_Interval
      <3>3. QED
        BY <1>1, <3>2
    <2>3. \A j \in 1 .. i - 1 : f[j] \in Int
      BY <1>1, <1>2
    <2>4. k \in Int
      BY <2>2, <2>3, SumInt
    <2>5. SumOver(f, 1 .. i) = k + f[i]
      <3> DEFINE S == 1 .. i - 1
      <3>1. f[i] \in Int
        BY <1>2
      <3>2. SumOver(f, S \cup {i}) = SumOver(f, S) + f[i]
        <4> HIDE DEF S
        <4>1. IsFiniteSet(S) /\ i \notin S /\ \A j \in S : f[j] \in Int /\ f[j] = f[j]
          BY <2>2, <2>3 DEF S
        <4>2. QED
          BY <3>1, <4>1, SumGrow
      <3>3. QED
        BY <2>2, <3>2
    <2> HIDE DEF p, q, leg, s, k
    <2>6. p \in Works
      BY <2>1 DEF Handled, After
    <2>7. Handled(p, tin, s, tout, q) /\ s \in Int
      BY <2>1, <2>6, LegFacts DEF s
    <2>8. Handled(w, tin, k + s, tout, q)
      BY <2>1, <2>4, <2>7, HandledTrans
    <2>9. QED
      BY <1>1, <2>1, <2>5, <2>8 DEF q
  <1> HIDE DEF G
  <1>10. \A i \in 0 .. n : i \in G
    BY <1>1, <1>8, <1>9, EveryTurn
  <1>11. n \in G
    BY <1>1, <1>10
  <1>12. Handled(w, tin, SumOf(f), tout, x)
    BY <1>3, <1>4, <1>11 DEF G, n
  <1>13. QED
    BY <1>12 DEF f

-----------------------------------------------------------------------------
(* A fill                                                                  *)

(* The router forwards what it has gained.                                 *)
LEMMA ForwardFacts ==
    ASSUME NEW w \in Works, NEW opening \in Works, NEW t \in Tokens, NEW to \in Users,
           NEW g \in Nat, NEW r, r = Forward(w, opening, t, to)
    PROVE  /\ After(w, r)
           /\ r.ok /\ Own(w, ROUTER, t) = Own(opening, ROUTER, t) + g =>
                 \A c \in Contracts, u \in Tokens :
                    Own(r, c, u) = Own(w, c, u) - At(ROUTER, t, g, c, u)
  <1> DEFINE x == Gained(w, opening, ROUTER, t)
  <1>1. /\ ROUTER \in Accounts /\ to \in Accounts /\ to \notin Contracts
        /\ ROUTER # DEX /\ ROUTER \in Contracts
    BY AccountFacts, DexAssumption
  <1>2. Own(w, ROUTER, t) \in Int /\ Own(opening, ROUTER, t) \in Int
    BY <1>1, OwnInt
  <1>3. x = Own(w, ROUTER, t) - Own(opening, ROUTER, t)
    BY <1>1 DEF Own, Kept, Gained
  <1>4. x \in Int
    BY <1>2, <1>3
  <1>5. r = IF x > 0 THEN Send(w, t, ROUTER, to, x) ELSE w
    BY DEF Forward
  <1> HIDE DEF x
  <1>6. CASE x > 0
    <2>1. r = Send(w, t, ROUTER, to, x)
      BY <1>5, <1>6
    <2>2. Sent(w, t, ROUTER, to, x, r)
      BY <1>1, <1>4, <2>1, SendFacts
    <2>3. ASSUME r.ok, Own(w, ROUTER, t) = Own(opening, ROUTER, t) + g,
                 NEW c \in Contracts, NEW u \in Tokens
          PROVE  Own(r, c, u) = Own(w, c, u) - At(ROUTER, t, g, c, u)
      <3>1. x = g
        BY <1>2, <1>3, <2>3
      <3>2. Own(r, c, u) = Own(w, c, u) + (At(to, t, g, c, u) - At(ROUTER, t, g, c, u))
        BY <2>2, <2>3, <3>1 DEF Sent
      <3>3. At(to, t, g, c, u) = 0 /\ At(ROUTER, t, g, c, u) \in Int /\ Own(w, c, u) \in Int
        BY <1>1, AtOutside, AtInt, OwnInt
      <3>4. QED
        BY <3>2, <3>3
    <2>4. QED
      BY <2>2, <2>3 DEF Sent
  <1>7. CASE ~(x > 0)
    <2>1. r = w /\ After(w, r)
      BY <1>5, <1>7, AfterSelf
    <2>2. ASSUME Own(w, ROUTER, t) = Own(opening, ROUTER, t) + g,
                 NEW c \in Contracts, NEW u \in Tokens
          PROVE  Own(r, c, u) = Own(w, c, u) - At(ROUTER, t, g, c, u)
      <3>1. g = 0
        BY <1>2, <1>3, <1>4, <1>7, <2>2
      <3>2. At(ROUTER, t, g, c, u) = 0 /\ Own(w, c, u) \in Int
        BY <3>1, OwnInt DEF At
      <3>3. QED
        BY <2>1, <3>2
    <2>3. QED
      BY <2>1, <2>2
  <1>8. QED
    BY <1>6, <1>7

(* What the legs of a route that is checked are given.                     *)
LEMMA SharesFacts ==
    ASSUME NEW route \in Seq(SomeLegs), \A i \in DOMAIN route : ValidLeg(route[i])
    PROVE  ToPull(route) = SumOf(SharesOf(route)) /\ ToPull(route) \in Nat
  <1> DEFINE f == SharesOf(route)
             n == Len(route)
  <1>1. ToPull(route) = SumOf(f)
    BY DEF ToPull, SharesOf, Share
  <1>2. n \in Nat /\ DOMAIN route = 1 .. n /\ DOMAIN f = 1 .. n
    BY DEF SharesOf
  <1>3. ASSUME NEW i \in 1 .. n
        PROVE  f[i] \in Nat
    <2> DEFINE leg == route[i]
    <2>1. leg \in SomeLegs /\ ValidLeg(leg) /\ f[i] = Share(leg)
      BY <1>2 DEF SharesOf
    <2> HIDE DEF leg
    <2>2. leg.amount \in Int
      BY <2>1 DEF SomeLegs, RfqLegs, DexLegs, FacilityLegs
    <2>3. leg.amount > 0
      BY <2>1 DEF ValidLeg
    <2>4. QED
      BY <2>1, <2>2, <2>3 DEF Share
  <1> DEFINE S == 1 .. n
  <1>4. IsFiniteSet(S)
    BY <1>2, FS_Interval
  <1>5. SumOf(f) = SumOver(f, S)
    BY <1>2 DEF SumOf
  <1> HIDE DEF f, S
  <1>6. SumOver(f, S) \in Nat
    BY <1>3, <1>4, SumNat DEF S
  <1>7. QED
    BY <1>1, <1>5, <1>6 DEF f

(* A fill leaves nothing at the contracts, and takes nothing of theirs.    *)
LEMMA FillNeutral ==
    ASSUME fees \in FeeTerms, agg.fee \in Int, Books \in Works, NEW taker \in Users,
           NEW tin \in Tokens, NEW tout \in Tokens, NEW route \in Seq(SomeLegs), NEW min,
           CheckRequest(tin, tout, route, min),
           NEW r, r = FillBooks(taker, tin, tout, route, min)
    PROVE  Neutral(Books, r)
  <1> DEFINE w == Books
             s == ToPull(route)
             pulled == IF s > 0 THEN Send(w, tin, taker, ROUTER, s) ELSE w
             legs == ExecuteRoute(pulled, taker, tin, tout, route)
             paid == Forward(legs, w, tout, taker)
             home == Forward(paid, w, tin, taker)
             p == /\ Gained(home, w, taker, tout) >= min
                  /\ -Gained(home, w, taker, tin) <= Declared(route)
  <1>1. r = Require(home, p) /\ p \in BOOLEAN
    BY DEF FillBooks
  <1>2. /\ tin # tout /\ taker \in Accounts /\ ROUTER \in Accounts /\ ROUTER \in Contracts
        /\ taker \notin Contracts /\ ROUTER # DEX
    BY AccountFacts, DexAssumption DEF CheckRequest
  <1>3. s = SumOf(SharesOf(route)) /\ s \in Nat
    BY SharesFacts DEF CheckRequest
  <1>4. w \in Works
    OBVIOUS
  <1> HIDE DEF w, s, pulled, legs, paid, home, p
  <1>5. /\ After(w, pulled)
        /\ pulled.ok => \A c \in Contracts, u \in Tokens :
                           Own(pulled, c, u) = Own(w, c, u) + At(ROUTER, tin, s, c, u)
    <2>1. CASE s > 0
      <3>1. pulled = Send(w, tin, taker, ROUTER, s)
        BY <2>1 DEF pulled
      <3>2. Sent(w, tin, taker, ROUTER, s, pulled)
        BY <1>2, <1>3, <1>4, <3>1, SendFacts
      <3>3. ASSUME pulled.ok, NEW c \in Contracts, NEW u \in Tokens
            PROVE  Own(pulled, c, u) = Own(w, c, u) + At(ROUTER, tin, s, c, u)
        <4>1. Own(pulled, c, u) = Own(w, c, u) + (At(ROUTER, tin, s, c, u)
                                                  - At(taker, tin, s, c, u))
          BY <3>2, <3>3 DEF Sent
        <4>2. At(taker, tin, s, c, u) = 0 /\ At(ROUTER, tin, s, c, u) \in Int
          BY <1>2, <1>3, AtOutside, AtInt
        <4>3. QED
          BY <4>1, <4>2
      <3>4. QED
        BY <3>2, <3>3 DEF Sent
    <2>2. CASE ~(s > 0)
      <3>1. pulled = w /\ s = 0
        BY <1>3, <2>2 DEF pulled
      <3>2. ASSUME NEW c \in Contracts, NEW u \in Tokens
            PROVE  Own(pulled, c, u) = Own(w, c, u) + At(ROUTER, tin, s, c, u)
        <4>1. At(ROUTER, tin, s, c, u) = 0 /\ Own(w, c, u) \in Int
          BY <1>4, <3>1, OwnInt DEF At
        <4>2. QED
          BY <3>1, <4>1
      <3>3. QED
        BY <1>4, <3>1, <3>2, AfterSelf
    <2>3. QED
      BY <2>1, <2>2
  <1>6. pulled \in Works
    BY <1>5 DEF After
  <1>7. Handled(pulled, tin, s, tout, legs)
    BY <1>2, <1>3, <1>6, RouteFacts DEF legs
  <1>8. legs \in Works /\ After(pulled, legs)
    BY <1>7 DEF Handled, After
  <1>9. 0 \in Nat /\ After(legs, paid)
    BY <1>4, <1>8, ForwardFacts DEF paid
  <1>10. paid \in Works
    BY <1>9 DEF After
  <1>11. After(paid, home)
    BY <1>4, <1>9, <1>10, ForwardFacts DEF home
  <1>12. home \in Works
    BY <1>11 DEF After
  <1>13. Required(home, p, r)
    BY <1>1, <1>12, RequireFacts
  <1>14. After(w, r)
    <2>1. After(home, r)
      BY <1>13 DEF Required
    <2>2. After(w, legs)
      BY <1>5, <1>8, AfterTrans
    <2>3. After(w, home)
      BY <1>9, <1>11, <2>2, AfterTrans
    <2>4. QED
      BY <2>1, <2>3, AfterTrans
  <1>15. ASSUME r.ok, NEW c \in Contracts, NEW u \in Tokens
         PROVE  Own(r, c, u) = Own(w, c, u)
    <2>1. home.ok /\ paid.ok /\ legs.ok /\ pulled.ok
      BY <1>8, <1>9, <1>11, <1>13, <1>15 DEF Required, After
    <2>2. PICK k \in Nat, m \in Nat :
             Traded(pulled, ROUTER, tin, s, ROUTER, k, tout, m, legs)
      BY <1>7, <2>1 DEF Handled
    <2>3. ASSUME NEW d \in Contracts, NEW v \in Tokens
          PROVE  Own(legs, d, v) = Own(w, d, v)
                                   + (At(ROUTER, tin, k, d, v) + At(ROUTER, tout, m, d, v))
      <3>1. Own(legs, d, v) = Own(pulled, d, v) - At(ROUTER, tin, s, d, v)
                              + (At(ROUTER, tin, k, d, v) + At(ROUTER, tout, m, d, v))
        BY <2>2 DEF Traded
      <3>2. Own(pulled, d, v) = Own(w, d, v) + At(ROUTER, tin, s, d, v)
        BY <1>5, <2>1
      <3>3. /\ Own(w, d, v) \in Int /\ At(ROUTER, tin, s, d, v) \in Int
            /\ At(ROUTER, tin, k, d, v) \in Int /\ At(ROUTER, tout, m, d, v) \in Int
        <4>1. s \in Int /\ k \in Int /\ m \in Int
          BY <1>3
        <4>2. QED
          BY <1>4, <4>1, OwnInt, AtInt
      <3>4. QED
        BY <3>1, <3>2, <3>3
    <2>4. Own(legs, ROUTER, tout) = Own(w, ROUTER, tout) + m
      <3>1. At(ROUTER, tin, k, ROUTER, tout) = 0 /\ At(ROUTER, tout, m, ROUTER, tout) = m
        BY <1>2 DEF At, Kept
      <3>2. QED
        BY <1>2, <2>3, <3>1
    <2>5. \A d \in Contracts, v \in Tokens :
             Own(paid, d, v) = Own(legs, d, v) - At(ROUTER, tout, m, d, v)
      BY <1>4, <1>8, <2>1, <2>4, ForwardFacts DEF paid
    <2>6. \A d \in Contracts, v \in Tokens :
             Own(paid, d, v) = Own(w, d, v) + At(ROUTER, tin, k, d, v)
      <3>1. TAKE d \in Contracts, v \in Tokens
      <3>2. /\ Own(w, d, v) \in Int /\ At(ROUTER, tin, k, d, v) \in Int
            /\ At(ROUTER, tout, m, d, v) \in Int
        <4>1. k \in Int /\ m \in Int
          OBVIOUS
        <4>2. QED
          BY <1>4, <4>1, OwnInt, AtInt
      <3>3. QED
        BY <2>3, <2>5, <3>2
    <2>7. Own(paid, ROUTER, tin) = Own(w, ROUTER, tin) + k
      <3>1. At(ROUTER, tin, k, ROUTER, tin) = k
        BY <1>2 DEF At, Kept
      <3>2. QED
        BY <1>2, <2>6, <3>1
    <2>8. Own(home, c, u) = Own(paid, c, u) - At(ROUTER, tin, k, c, u)
      BY <1>4, <1>10, <2>1, <2>7, ForwardFacts DEF home
    <2>9. Own(r, c, u) = Own(home, c, u)
      BY <1>13 DEF Required
    <2>10. Own(w, c, u) \in Int /\ At(ROUTER, tin, k, c, u) \in Int
      BY <1>4, OwnInt, AtInt
    <2>11. QED
      BY <2>6, <2>8, <2>9, <2>10
  <1>16. QED
    BY <1>14, <1>15 DEF Neutral, w

-----------------------------------------------------------------------------
(* The invariant                                                           *)

AggTerms == [active : SUBSET Facilities, fee : Nat, paused : BOOLEAN]

(* Between calls every contract's own is what it was given or paid.        *)
BooksInv ==
    /\ Books \in Works /\ Even(Books) /\ approved \subseteq Exposed
    /\ gifts \in Tables(Contracts)
    /\ \A c \in Contracts, u \in Tokens : gifts[c][u] >= 0
    /\ \A c \in Contracts, u \in Tokens :
          Kept(c, u) => Own(Books, c, u) = gifts[c][u]

RoutingInv == BooksInv /\ fees \in FeeTerms /\ agg \in AggTerms

(* Nothing is held and nothing is owed at first.                           *)
LEMMA RoutingInit ==
    ASSUME Init
    PROVE  RoutingInv
  <1>1. \A a \in Accounts : bal[a] \in [Tokens -> Int]
    <2>1. TAKE a \in Accounts
    <2>2. DOMAIN InitialBalances = Users \cup {MARKET}
      BY DexAssumption
    <2>3. CASE a \in Users \cup {MARKET}
      <3>1. bal[a] = InitialBalances[a]
        BY <2>2, <2>3 DEF Init
      <3>2. InitialBalances[a] \in [Tokens -> Nat]
        BY <2>3, DexAssumption
      <3>3. QED
        BY <3>1, <3>2
    <2>4. CASE a \notin Users \cup {MARKET}
      <3>1. bal[a] = [t \in Tokens |-> 0]
        BY <2>2, <2>4 DEF Init
      <3>2. QED
        BY <3>1
    <2>5. QED
      BY <2>3, <2>4
  <1>2. bal \in Tables(Accounts)
    BY <1>1 DEF Init, Tables
  <1>3. owed \in Tables(Recipients) /\ total \in [Tokens -> Int]
    BY DEF Init, Tables
  <1>4. Books \in Works /\ approved \subseteq Exposed
    BY <1>2, <1>3 DEF Init, Books, Works
  <1>5. Even(Books)
    <2>1. ASSUME NEW t \in Tokens
          PROVE  total[t] = SumOver(OwedIn(owed, t), Recipients)
      <3> DEFINE f == OwedIn(owed, t)
      <3>1. \A y \in Recipients : f[y] = 0
        BY DEF OwedIn, Init
      <3> HIDE DEF f
      <3>2. SumOver(f, Recipients) = 0
        BY <3>1, SumZero, DexAssumption
      <3>3. total[t] = 0
        BY DEF Init
      <3>4. QED
        BY <3>2, <3>3 DEF f
    <2>2. QED
      BY <2>1 DEF Even, Books
  <1>6. gifts \in Tables(Contracts) /\ \A c \in Contracts, u \in Tokens : gifts[c][u] = 0
    BY DEF Init, Tables
  <1>7. ASSUME NEW c \in Contracts, NEW u \in Tokens
        PROVE  Own(Books, c, u) = 0
    <2>1. c \in Accounts /\ c \notin Users \cup {MARKET}
      BY DexAssumption DEF Accounts
    <2>2. DOMAIN InitialBalances = Users \cup {MARKET}
      BY DexAssumption
    <2>3. bal[c] = [t \in Tokens |-> 0]
      BY <2>1, <2>2 DEF Init
    <2>4. bal[c][u] = 0 /\ total[u] = 0
      BY <2>3 DEF Init
    <2>5. QED
      BY <2>4 DEF Own, Books
  <1>8. fees \in FeeTerms /\ agg \in AggTerms
    BY DexAssumption, RoutingAssumption DEF Init, AggTerms
  <1>9. QED
    BY <1>4, <1>5, <1>6, <1>7, <1>8 DEF RoutingInv, BooksInv

(* A call whose books agree with what the contracts were given by now.     *)
LEMMA BooksStep ==
    ASSUME RoutingInv, NEW r, After(Books, r), Commit(r), gifts' \in Tables(Contracts),
           NEW g, g = gifts', \A c \in Contracts, u \in Tokens : g[c][u] >= 0,
           \A c \in Contracts, u \in Tokens : Kept(c, u) => Own(r, c, u) = g[c][u]
    PROVE  RoutingInv'
  <1>1. r \in Works /\ r.ok
    BY DEF After, Commit
  <1>2. /\ bal' = r.bal /\ owed' = r.owed /\ total' = r.total
        /\ approved' = r.approved /\ fees' = fees /\ agg' = agg
    BY DEF Commit, adminVars
  <1>3. Books' = r
    <2>1. r = [bal |-> r.bal, owed |-> r.owed, total |-> r.total,
               approved |-> r.approved, ok |-> r.ok]
      BY <1>1 DEF Works
    <2>2. r.ok = TRUE
      BY <1>1, WorkTypes
    <2>3. QED
      BY <1>2, <2>1, <2>2 DEF Books
  <1>4. Even(r) /\ r.approved \subseteq Exposed
    BY <1>1 DEF After, RoutingInv, BooksInv, Books
  <1>5. BooksInv'
    <2>1. Books' \in Works /\ Even(Books') /\ approved' \subseteq Exposed
      BY <1>1, <1>2, <1>3, <1>4
    <2>2. \A c \in Contracts, u \in Tokens :
             gifts'[c][u] >= 0 /\ (Kept(c, u) => Own(Books', c, u) = gifts'[c][u])
      BY <1>3
    <2>3. QED
      BY <2>1, <2>2 DEF BooksInv
  <1>6. QED
    BY <1>2, <1>5 DEF RoutingInv

(* A call that leaves the contracts' own as it was keeps the invariant.    *)
LEMMA CommitStep ==
    ASSUME RoutingInv, NEW r, Neutral(Books, r), Commit(r), UNCHANGED gifts
    PROVE  RoutingInv'
  <1> DEFINE g == gifts'
  <1>1. After(Books, r) /\ r.ok /\ g = gifts
    BY DEF Neutral, Commit
  <1>2. g \in Tables(Contracts) /\ \A c \in Contracts, u \in Tokens : g[c][u] >= 0
    BY <1>1 DEF RoutingInv, BooksInv
  <1>3. \A c \in Contracts, u \in Tokens : Kept(c, u) => Own(r, c, u) = g[c][u]
    BY <1>1 DEF Neutral, RoutingInv, BooksInv
  <1>4. QED
    BY <1>1, <1>2, <1>3, BooksStep

(* A call that pays someone is counted when that is a contract.            *)
LEMMA GivenStep ==
    ASSUME RoutingInv, NEW r, NEW to, NEW t \in Tokens, NEW n \in Nat,
           After(Books, r), Receives(Books, to, t, n, r), Commit(r), Given(to, t, n)
    PROVE  RoutingInv'
  <1> DEFINE g == gifts'
  <1>1. g = IF to \in Contracts THEN Add(gifts, to, t, n) ELSE gifts
    BY DEF Given
  <1>2. /\ gifts \in Tables(Contracts)
        /\ \A c \in Contracts, u \in Tokens : gifts[c][u] >= 0
        /\ \A c \in Contracts, u \in Tokens :
              Kept(c, u) => Own(Books, c, u) = gifts[c][u]
    BY DEF RoutingInv, BooksInv
  <1> HIDE DEF g
  <1>3. CASE to \in Contracts
    <2>1. Added(Contracts, gifts, to, t, n, g)
      BY <1>1, <1>2, <1>3, AddFacts
    <2>2. ASSUME NEW c \in Contracts, NEW u \in Tokens
          PROVE  g[c][u] >= 0 /\ (Kept(c, u) => Own(r, c, u) = g[c][u])
      <3>1. gifts[c][u] \in Int /\ g[c][u] \in Int
        BY <2>1 DEF Added
      <3>2. g[c][u] = gifts[c][u] + (IF c = to /\ u = t THEN n ELSE 0)
        BY <2>1, <3>1 DEF Added
      <3>3. Own(r, c, u) = Own(Books, c, u) + At(to, t, n, c, u)
        BY DEF Receives
      <3>4. QED
        BY <1>2, <3>1, <3>2, <3>3 DEF At
    <2>3. QED
      BY <2>1, <2>2, BooksStep DEF g, Added
  <1>4. CASE to \notin Contracts
    <2>1. g = gifts
      BY <1>1, <1>4
    <2>2. ASSUME NEW c \in Contracts, NEW u \in Tokens, Kept(c, u)
          PROVE  Own(r, c, u) = g[c][u]
      <3>1. Own(r, c, u) = Own(Books, c, u) + At(to, t, n, c, u)
        BY DEF Receives
      <3>2. At(to, t, n, c, u) = 0
        BY <1>4, AtOutside
      <3>3. Own(Books, c, u) \in Int
        BY OwnInt DEF RoutingInv, BooksInv
      <3>4. QED
        BY <1>2, <2>1, <2>2, <3>1, <3>2, <3>3
    <2>3. QED
      BY <1>2, <2>1, <2>2, BooksStep DEF g
  <1>5. QED
    BY <1>3, <1>4

(* A step of an admin leaves the books alone.                              *)
LEMMA AdminKeeps ==
    ASSUME RoutingInv, UNCHANGED <<bookVars, gifts>>, fees' \in FeeTerms, agg' \in AggTerms
    PROVE  RoutingInv'
  <1>1. /\ bal' = bal /\ owed' = owed /\ total' = total /\ approved' = approved
        /\ gifts' = gifts
    BY DEF bookVars
  <1>2. Books' = Books
    BY <1>1 DEF Books
  <1>3. BooksInv'
    BY <1>1, <1>2 DEF RoutingInv, BooksInv
  <1>4. QED
    BY <1>3 DEF RoutingInv

(* A token sent to a contract is counted, and only tokens that are exposed *)
(* leave the DEX aggregator on an allowance.                               *)
LEMMA TransferStep ==
    ASSUME RoutingInv, NEW from \in Users \cup {DEX}, NEW d \in Contracts \cup {MARKET},
           NEW t \in Tokens, Transfer(from, d, t)
    PROVE  RoutingInv'
  <1> DEFINE w == Books
             r == Send(w, t, from, d, 1)
             g == IF d \in Contracts THEN Add(gifts, d, t, 1) ELSE gifts
  <1>1. /\ bal' = r.bal /\ owed' = owed /\ total' = total /\ gifts' = g
        /\ approved' = approved /\ fees' = fees /\ agg' = agg /\ bal[from][t] > 0
        /\ from = DEX => t \in approved
    BY DEF Transfer, Given
  <1>2. w \in Works /\ from \in Accounts /\ d \in Accounts /\ 1 \in Int
    BY AccountFacts DEF RoutingInv, BooksInv
  <1>a. from \notin Contracts \/ (from = DEX /\ ~Kept(DEX, t))
    BY <1>1, AccountFacts DEF RoutingInv, BooksInv, Kept
  <1>3. /\ w.ok = TRUE /\ w.bal = bal /\ w.owed = owed /\ w.total = total
        /\ w.approved = approved
    BY DEF Books
  <1>4. r = [w EXCEPT !.bal = Add(Add(w.bal, from, t, -1), d, t, 1)]
    <2>1. bal[from][t] \in Int
      <3>1. bal \in Tables(Accounts)
        BY <1>2, <1>3, WorkTypes
      <3>2. bal[from] \in [Tokens -> Int]
        BY <1>2, <3>1 DEF Tables
      <3>3. QED
        BY <3>2
    <2>2. ~(~w.ok \/ 1 < 0 \/ w.bal[from][t] < 1)
      BY <1>1, <1>3, <2>1
    <2>3. QED
      BY <2>2 DEF Send
  <1>5. r.ok = TRUE /\ r.owed = owed /\ r.total = total /\ r.approved = approved
    BY <1>2, <1>3, <1>4 DEF Works
  <1> HIDE DEF r, g
  <1>6. Sent(w, t, from, d, 1, r)
    <2> HIDE DEF w
    <2>1. QED
      BY <1>2, SendFacts DEF r
  <1>7. r \in Works /\ (Even(w) => Even(r))
    BY <1>5, <1>6 DEF Sent, After
  <1>8. Books' = r
    <2>1. r = [bal |-> r.bal, owed |-> r.owed, total |-> r.total,
               approved |-> r.approved, ok |-> r.ok]
      BY <1>7 DEF Works
    <2>2. QED
      BY <1>1, <1>5, <2>1 DEF Books
  <1>9. /\ gifts \in Tables(Contracts) /\ g \in Tables(Contracts)
        /\ \A c \in Contracts, u \in Tokens :
              /\ gifts[c][u] \in Int
              /\ g[c][u] = gifts[c][u] + (IF c = d /\ u = t THEN 1 ELSE 0)
    <2>1. gifts \in Tables(Contracts)
      BY DEF RoutingInv, BooksInv
    <2>2. \A c \in Contracts, u \in Tokens : gifts[c][u] \in Int
      BY <2>1 DEF Tables
    <2>3. CASE d \in Contracts
      <3>1. Added(Contracts, gifts, d, t, 1, g)
        BY <1>2, <2>1, <2>3, AddFacts DEF g
      <3>2. QED
        BY <2>1, <2>2, <3>1 DEF Added
    <2>4. CASE d \notin Contracts
      BY <2>1, <2>2, <2>4 DEF g
    <2>5. QED
      BY <2>3, <2>4
  <1>10. ASSUME NEW c \in Contracts, NEW u \in Tokens
         PROVE  (Kept(c, u) => Own(r, c, u) = g[c][u]) /\ g[c][u] >= 0
    <2>1. Own(r, c, u) = Own(w, c, u) + (At(d, t, 1, c, u) - At(from, t, 1, c, u))
      BY <1>5, <1>6 DEF Sent
    <2>2. Kept(c, u) => At(from, t, 1, c, u) = 0
      BY <1>a DEF At
    <2>3. gifts[c][u] \in Int /\ g[c][u] = gifts[c][u] + (IF c = d /\ u = t THEN 1 ELSE 0)
      BY <1>9
    <2>4. (Kept(c, u) => Own(w, c, u) = gifts[c][u]) /\ gifts[c][u] >= 0
      BY DEF RoutingInv, BooksInv
    <2>5. QED
      BY <2>1, <2>2, <2>3, <2>4 DEF At
  <1>11. BooksInv'
    <2>1. Books' \in Works /\ Even(Books') /\ approved' \subseteq Exposed
      BY <1>1, <1>7, <1>8 DEF RoutingInv, BooksInv
    <2>2. gifts' \in Tables(Contracts)
      BY <1>1, <1>9
    <2>3. \A c \in Contracts, u \in Tokens :
             (Kept(c, u) => Own(Books', c, u) = gifts'[c][u]) /\ gifts'[c][u] >= 0
      BY <1>1, <1>8, <1>10
    <2>4. QED
      BY <2>1, <2>2, <2>3 DEF BooksInv
  <1>12. QED
    BY <1>1, <1>11 DEF RoutingInv

-----------------------------------------------------------------------------
(* The steps                                                               *)

(* The routes an action may name.                                          *)
LEMMA RouteTypes ==
    ASSUME NEW route \in SeqOf(Legs, MaxLegs)
    PROVE  route \in Seq(SomeLegs)
  <1>1. PICK m \in 0 .. MaxLegs : route \in [1 .. m -> Legs]
    BY DEF SeqOf
  <1>2. m \in Nat /\ Legs \subseteq SomeLegs
    BY RoutingAssumption DEF SomeLegs
  <1>3. route \in [1 .. m -> SomeLegs]
    BY <1>1, <1>2
  <1>4. QED
    BY <1>2, <1>3

(* A route filled.                                                         *)
LEMMA FillStep ==
    ASSUME RoutingInv, NEW taker \in Users, NEW tin \in Tokens, NEW tout \in Tokens,
           NEW route \in SeqOf(Legs, MaxLegs), NEW min, Fill(taker, tin, tout, route, min)
    PROVE  RoutingInv'
  <1> DEFINE r == FillBooks(taker, tin, tout, route, min)
  <1>1. CheckRequest(tin, tout, route, min) /\ Commit(r) /\ UNCHANGED gifts
    BY DEF Fill
  <1>2. fees \in FeeTerms /\ agg.fee \in Int /\ Books \in Works
    BY DEF RoutingInv, BooksInv, AggTerms
  <1>3. route \in Seq(SomeLegs)
    BY RouteTypes
  <1> HIDE DEF r
  <1>4. Neutral(Books, r)
    BY <1>1, <1>2, <1>3, FillNeutral DEF r
  <1>5. QED
    BY <1>1, <1>4, CommitStep

(* A swap, once it has been filled.                                        *)
LEMMA SettleStep ==
    ASSUME RoutingInv, NEW user \in Users, NEW to \in Payees, NEW tin \in Tokens,
           NEW tout \in Tokens, NEW n \in Int, NEW min, NEW partner \in Partners,
           NEW paid, Sent(Books, tin, user, DEX, n, paid),
           NEW y \in SplitStates, After(paid, y.w),
           y.w.ok => \E k \in Nat : Filled(paid, tin, tout, n, user, k, y),
           SwapSettles(y, tout, partner, min, to)
    PROVE  RoutingInv'
  <1> DEFINE w == Books
             r == Settle(y, tout, partner, min, to)
             m == AmountOut(y.gross, partner)
  <1>1. Commit(r) /\ Given(to, tout, m)
    BY DEF SwapSettles
  <1>2. fees \in FeeTerms /\ w \in Works
    BY DEF RoutingInv, BooksInv
  <1>3. to \in Accounts /\ (partner = None \/ partner \in PartnerTerms)
    BY RoutingAssumption
  <1> HIDE DEF w, r
  <1>4. After(y.w, r) /\ (r.ok => m \in Nat /\ Paid(y.w, tout, y.gross, to, m, r))
    BY <1>2, <1>3, SettleFacts DEF r
  <1> HIDE DEF m
  <1>5. r.ok
    BY <1>1 DEF Commit
  <1>6. m \in Nat /\ m \in Int /\ Paid(y.w, tout, y.gross, to, m, r)
    BY <1>4, <1>5
  <1>7. After(w, r) /\ Receives(w, to, tout, m, r)
    <2>1. Sent(w, tin, user, DEX, n, paid)
      BY DEF w
    <2>2. QED
      BY <1>2, <1>4, <1>5, <1>6, <2>1, SwapPays
  <1>8. QED
    BY <1>1, <1>6, <1>7, GivenStep DEF w

(* A swap along splits.                                                    *)
LEMMA SwapStep ==
    ASSUME RoutingInv, NEW user \in Users, NEW to \in Payees, NEW tin \in Tokens,
           NEW tout \in Tokens, NEW n \in Amounts, NEW min, NEW route \in SplitRoutes,
           NEW partner \in Partners, Swap(user, to, tin, tout, n, min, route, partner)
    PROVE  RoutingInv'
  <1> DEFINE w == Books
             paid == Send(w, tin, user, DEX, n)
             y == Execute(paid, tin, route)
  <1>1. Validate(tin, tout, n, route) /\ SwapSettles(y, tout, partner, min, to)
    BY DEF Swap, SwapFilled
  <1>2. w \in Works
    BY DEF RoutingInv, BooksInv
  <1>3. n \in Int /\ route \in Seq(Splits) /\ user \in Accounts /\ DEX \in Accounts
    BY RoutingAssumption, AccountFacts
  <1> HIDE DEF y, paid, w
  <1>4. Sent(w, tin, user, DEX, n, paid)
    BY <1>2, <1>3, SendFacts DEF paid
  <1>5. paid \in Works
    BY <1>4 DEF Sent, After
  <1>6. /\ y \in SplitStates /\ After(paid, y.w)
        /\ y.w.ok /\ Validate(tin, tout, n, route) =>
              Filled(paid, tin, tout, n, user, 0, y)
    BY <1>3, <1>5, SplitsFilled DEF y
  <1>7. 0 \in Nat /\ (y.w.ok => \E k \in Nat : Filled(paid, tin, tout, n, user, k, y))
    BY <1>1, <1>6
  <1>8. Sent(Books, tin, user, DEX, n, paid)
    BY <1>4 DEF w
  <1>9. QED
    BY <1>1, <1>3, <1>6, <1>7, <1>8, SettleStep

(* A swap by calldata.                                                     *)
LEMMA SwapCallsStep ==
    ASSUME RoutingInv, NEW user \in Users, NEW to \in Payees, NEW tin \in Tokens,
           NEW tout \in Tokens, NEW n \in Amounts, NEW min, NEW calls \in CallRoutes,
           NEW partner \in Partners, SwapCalls(user, to, tin, tout, n, min, calls, partner)
    PROVE  RoutingInv'
  <1> DEFINE w == Books
             paid == Send(w, tin, user, DEX, n)
             y == ExecuteCalls(paid, tin, tout, n, calls, user)
  <1>1. tin # tout /\ SwapSettles(y, tout, partner, min, to)
    BY DEF SwapCalls, SwapCallsFilled
  <1>2. w \in Works
    BY DEF RoutingInv, BooksInv
  <1>3. /\ n \in Int /\ calls \in Seq(Calls) /\ user \in Accounts /\ DEX \in Accounts
        /\ user # DEX
    BY RoutingAssumption, AccountFacts
  <1> HIDE DEF y, paid, w
  <1>4. Sent(w, tin, user, DEX, n, paid)
    BY <1>2, <1>3, SendFacts DEF paid
  <1>5. paid \in Works
    BY <1>4 DEF Sent, After
  <1>6. /\ y \in SplitStates /\ After(paid, y.w)
        /\ y.w.ok => \E k \in Nat : Filled(paid, tin, tout, n, user, k, y)
    BY <1>1, <1>3, <1>5, ExecuteCallsFacts DEF y
  <1>7. Sent(Books, tin, user, DEX, n, paid)
    BY <1>4 DEF w
  <1>8. QED
    BY <1>1, <1>3, <1>6, <1>7, SettleStep

(* A swap at the facility aggregator.                                      *)
LEMMA FacilitySwapStep ==
    ASSUME RoutingInv, NEW payer \in Users, NEW to \in Payees, NEW tin \in Tokens,
           NEW tout \in Tokens, NEW n \in Amounts, NEW min, NEW x, x.pays \in Int,
           FacilitySwap(payer, to, tin, tout, n, min, x)
    PROVE  RoutingInv'
  <1> DEFINE w == Books
             r == FacilityExecute(w, payer, to, tin, tout, n, min, x)
             m == Payout(tout, x.pays)
  <1>1. Commit(r) /\ Given(to, tout, m)
    BY DEF FacilitySwap
  <1>2. agg.fee \in Int /\ w \in Works
    BY DEF RoutingInv, BooksInv, AggTerms
  <1>3. n \in Int /\ to \in Accounts
    BY RoutingAssumption
  <1> HIDE DEF r, w
  <1>4. After(w, r) /\ (r.ok => m \in Nat /\ Receives(w, to, tout, m, r))
    BY <1>2, <1>3, FacilityExecuteFacts DEF r
  <1> HIDE DEF m
  <1>5. r.ok
    BY <1>1 DEF Commit
  <1>6. QED
    BY <1>1, <1>4, <1>5, GivenStep DEF w

(* A claim: what is owed no longer is, and what is paid is not held.       *)
LEMMA ClaimStep ==
    ASSUME RoutingInv, NEW who \in Recipients \ Contracts, NEW t \in Tokens, Claim(who, t)
    PROVE  RoutingInv'
  <1> DEFINE w == Books
             n == owed[who][t]
             r == ClaimBooks(who, t)
             m == -n
             cleared == Credit(w, who, t, m)
  <1>1. Commit(r) /\ UNCHANGED gifts
    BY DEF Claim
  <1>2. w \in Works /\ w.owed = owed
    BY DEF RoutingInv, BooksInv, Books
  <1>3. n \in Int
    <2>1. owed \in [Recipients -> [Tokens -> Int]]
      BY <1>2, WorkTypes DEF Tables
    <2>2. owed[who] \in [Tokens -> Int]
      BY <2>1
    <2>3. QED
      BY <2>2
  <1>4. m \in Int /\ who \in Accounts /\ DEX \in Accounts /\ who \notin Contracts
    BY <1>3, AccountFacts
  <1>5. r = IF n > 0 THEN Send(cleared, t, DEX, who, n) ELSE w
    BY DEF ClaimBooks
  <1>6. CASE n > 0
    <2>1. r = Send(cleared, t, DEX, who, n)
      BY <1>5, <1>6
    <2> HIDE DEF w, n, r, m, cleared
    <2>2. Credited(w, t, m, cleared)
      BY <1>2, <1>4, CreditFacts DEF cleared
    <2>3. cleared \in Works
      BY <2>2 DEF Credited, After
    <2>4. Sent(cleared, t, DEX, who, n, r)
      BY <1>3, <1>4, <2>1, <2>3, SendFacts
    <2>5. After(w, r)
      BY <2>2, <2>4, AfterTrans DEF Credited, Sent
    <2>6. ASSUME r.ok, NEW c \in Contracts, NEW u \in Tokens
          PROVE  Own(r, c, u) = Own(w, c, u)
      <3>1. Own(cleared, c, u) = Own(w, c, u) - At(DEX, t, m, c, u)
        BY <2>2 DEF Credited
      <3>2. Own(r, c, u) = Own(cleared, c, u)
                           + (At(who, t, n, c, u) - At(DEX, t, n, c, u))
        BY <2>4, <2>6 DEF Sent
      <3>3. At(who, t, n, c, u) = 0
        BY <1>4, AtOutside
      <3>4. At(DEX, t, m, c, u) = -At(DEX, t, n, c, u)
        BY <1>3 DEF At, m
      <3>5. At(DEX, t, n, c, u) \in Int /\ Own(w, c, u) \in Int
        BY <1>2, <1>3, AtInt, OwnInt
      <3>6. QED
        BY <3>1, <3>2, <3>3, <3>4, <3>5
    <2>7. Neutral(w, r)
      BY <2>5, <2>6 DEF Neutral
    <2>8. QED
      BY <1>1, <2>7, CommitStep DEF w
  <1>7. CASE ~(n > 0)
    <2>1. r = w
      BY <1>5, <1>7
    <2> HIDE DEF w, r
    <2>2. Neutral(w, r)
      BY <1>2, <2>1, AfterSelf DEF Neutral
    <2>3. QED
      BY <1>1, <2>2, CommitStep DEF w
  <1>8. QED
    BY <1>6, <1>7

(* A trade of any kind.                                                    *)
LEMMA TradeStep ==
    ASSUME RoutingInv, Trade
    PROVE  RoutingInv'
  <1>1. PICK u \in Users, tin \in Tokens, tout \in Tokens :
           \/ \E route \in SeqOf(Legs, MaxLegs) : Fill(u, tin, tout, route, 1)
           \/ \E to \in Payees, n \in Amounts, p \in Partners :
                 \/ \E route \in SplitRoutes : Swap(u, to, tin, tout, n, 0, route, p)
                 \/ \E calls \in CallRoutes : SwapCalls(u, to, tin, tout, n, 0, calls, p)
           \/ \E to \in Payees, n, pays \in Amounts, f \in Facilities :
                 FacilitySwap(u, to, tin, tout, n, 1, [facility |-> f, pays |-> pays])
    BY DEF Trade
  <1>2. CASE \E route \in SeqOf(Legs, MaxLegs) : Fill(u, tin, tout, route, 1)
    BY <1>2, FillStep
  <1>3. ASSUME NEW to \in Payees, NEW n \in Amounts, NEW p \in Partners,
               \E route \in SplitRoutes : Swap(u, to, tin, tout, n, 0, route, p)
        PROVE  RoutingInv'
    BY <1>3, SwapStep
  <1>4. ASSUME NEW to \in Payees, NEW n \in Amounts, NEW p \in Partners,
               \E calls \in CallRoutes : SwapCalls(u, to, tin, tout, n, 0, calls, p)
        PROVE  RoutingInv'
    BY <1>4, SwapCallsStep
  <1>5. ASSUME NEW to \in Payees, NEW n \in Amounts, NEW pays \in Amounts,
               NEW f \in Facilities,
               FacilitySwap(u, to, tin, tout, n, 1, [facility |-> f, pays |-> pays])
        PROVE  RoutingInv'
    <2> DEFINE x == [facility |-> f, pays |-> pays]
    <2>1. x.pays \in Int
      BY RoutingAssumption
    <2>2. FacilitySwap(u, to, tin, tout, n, 1, x)
      BY <1>5
    <2> HIDE DEF x
    <2>3. QED
      BY <2>1, <2>2, FacilitySwapStep
  <1>6. QED
    BY <1>1, <1>2, <1>3, <1>4, <1>5

(* A change of an admin.                                                   *)
LEMMA AdminStepKeeps ==
    ASSUME RoutingInv, AdminStep
    PROVE  RoutingInv'
  <1> USE DEF RoutingInv
  <1>1. PICK on \in BOOLEAN :
           \/ \E s \in {DEX, FACILITIES} : RegisterSource(s, on)
           \/ \E v \in Venues : AllowVenue(v, on)
           \/ \E v \in Targets : AllowTarget(v, on)
           \/ \E f \in Facilities : SetActive(f, on)
           \/ SetRouterPaused(on) \/ SetDexPaused(on) \/ SetAggPaused(on)
    BY DEF AdminStep
  <1>2. CASE \/ \E s \in {DEX, FACILITIES} : RegisterSource(s, on)
             \/ \E v \in Venues : AllowVenue(v, on)
             \/ \E v \in Targets : AllowTarget(v, on)
             \/ SetRouterPaused(on) \/ SetDexPaused(on)
    <2>1. UNCHANGED <<bookVars, gifts>> /\ fees' = fees /\ agg' = agg
      BY <1>2 DEF RegisterSource, AllowVenue, AllowTarget, SetRouterPaused, SetDexPaused
    <2>2. QED
      BY <2>1, AdminKeeps
  <1>3. ASSUME NEW f \in Facilities, SetActive(f, on)
        PROVE  RoutingInv'
    <2>1. UNCHANGED <<bookVars, gifts>> /\ fees' = fees
      BY <1>3 DEF SetActive
    <2>2. agg' \in AggTerms
      <3> DEFINE s == IF on THEN agg.active \cup {f} ELSE agg.active \ {f}
      <3>1. agg' = [agg EXCEPT !.active = s] /\ agg \in AggTerms
        BY <1>3 DEF SetActive
      <3>2. s \in SUBSET Facilities
        BY DEF AggTerms
      <3> HIDE DEF s
      <3>3. QED
        BY <3>1, <3>2 DEF AggTerms
    <2>3. QED
      BY <2>1, <2>2, AdminKeeps
  <1>4. CASE SetAggPaused(on)
    <2>1. UNCHANGED <<bookVars, gifts>> /\ fees' = fees
      BY <1>4 DEF SetAggPaused
    <2>2. agg' \in AggTerms
      BY <1>4 DEF SetAggPaused, AggTerms
    <2>3. QED
      BY <2>1, <2>2, AdminKeeps
  <1>5. QED
    BY <1>1, <1>2, <1>3, <1>4

(* Every step keeps the invariant.                                         *)
LEMMA RoutingStep ==
    ASSUME RoutingInv, [Next]_vars
    PROVE  RoutingInv'
  <1>1. CASE Trade
    BY <1>1, TradeStep
  <1>2. CASE \E r \in Recipients \ Contracts, t \in Tokens : Claim(r, t)
    BY <1>2, ClaimStep
  <1>3. CASE AdminStep
    BY <1>3, AdminStepKeeps
  <1>4. ASSUME NEW f \in FeeConfigs, SetFees(f)
        PROVE  RoutingInv'
    <2>1. UNCHANGED <<bookVars, gifts>> /\ agg' = agg /\ fees' = f
      BY <1>4 DEF SetFees
    <2>2. fees' \in FeeTerms /\ agg' \in AggTerms
      BY <2>1, DexAssumption DEF RoutingInv
    <2>3. QED
      BY <2>1, <2>2, AdminKeeps
  <1>5. ASSUME NEW bps \in AggregatorFees, SetFee(bps)
        PROVE  RoutingInv'
    <2>1. UNCHANGED <<bookVars, gifts>> /\ fees' = fees /\ agg' = [agg EXCEPT !.fee = bps]
      BY <1>5 DEF SetFee
    <2>2. bps \in Nat
      BY RoutingAssumption
    <2>3. fees' \in FeeTerms /\ agg' \in AggTerms
      BY <2>1, <2>2 DEF RoutingInv, AggTerms
    <2>4. QED
      BY <2>1, <2>3, AdminKeeps
  <1>6. CASE \E from \in Users \cup {DEX}, to \in Contracts \cup {MARKET}, t \in Tokens :
                Transfer(from, to, t)
    BY <1>6, TransferStep
  <1>7. CASE UNCHANGED vars
    <2>1. UNCHANGED <<bookVars, gifts>> /\ fees' = fees /\ agg' = agg
      BY <1>7 DEF vars, adminVars
    <2>2. fees' \in FeeTerms /\ agg' \in AggTerms
      BY <2>1 DEF RoutingInv
    <2>3. QED
      BY <2>1, <2>2, AdminKeeps
  <1>8. QED
    BY <1>1, <1>2, <1>3, <1>4, <1>5, <1>6, <1>7 DEF Next

-----------------------------------------------------------------------------
(* The theorems                                                            *)

(* Whatever the routes, the fees and the markets, between calls what each  *)
(* of the router and the aggregators holds, less the fees it owes, is what *)
(* it was given, or paid as the recipient a swap named, and the total owed *)
(* is the recipients' (the settlement of fees in the DEX aggregator, the   *)
(* router's forwarding and refunds).                                       *)
THEOREM RoutingInvariant == Spec => []RoutingInv
  <1>1. Init => RoutingInv
    BY RoutingInit
  <1>2. RoutingInv /\ [Next]_vars => RoutingInv'
    BY RoutingStep
  <1>3. QED
    BY <1>1, <1>2, PTL DEF Spec

(* Nothing of a trade stays behind at the router or at an aggregator but   *)
(* what a swap pays one that it names (`desc.to`, `recipient`), and no     *)
(* trade is paid out of what they hold: the route loop and the two         *)
(* forwards of `fill` in the router, `settle` and the refunds of the DEX   *)
(* aggregator, the pass-through of the facility aggregator.                *)
THEOREM TradesLeaveNothing == Spec => []NothingLeftBehind
  <1>1. RoutingInv => NothingLeftBehind
    <2>1. ASSUME RoutingInv, NEW c \in Contracts, NEW t \in Tokens, Kept(c, t)
          PROVE  bal[c][t] = gifts[c][t] + (IF c = DEX THEN total[t] ELSE 0)
      <3>1. Own(Books, c, t) = gifts[c][t] /\ Books \in Works
        BY <2>1 DEF RoutingInv, BooksInv
      <3>2. Books.bal = bal /\ Books.total = total
        BY DEF Books
      <3>3. total[t] \in Int
        BY <3>1, <3>2, WorkTypes
      <3>4. bal[c][t] \in Int
        <4>1. bal \in Tables(Accounts) /\ c \in Accounts
          BY <3>1, <3>2, WorkTypes, AccountFacts
        <4>2. bal[c] \in [Tokens -> Int]
          BY <4>1 DEF Tables
        <4>3. QED
          BY <4>2
      <3>5. QED
        BY <2>1, <3>1, <3>2, <3>3, <3>4 DEF Own
    <2>2. QED
      BY <2>1 DEF NothingLeftBehind, Kept
  <1>2. QED
    BY <1>1, RoutingInvariant, PTL

(* The fees owed are covered by what the DEX aggregator holds, and their   *)
(* total is what the recipients can claim (`credit`, `accrue_fees` and     *)
(* `claim` in the DEX aggregator).                                         *)
THEOREM FeesAreCovered == Spec => []OwedCovered
  <1>1. RoutingInv => OwedCovered
    <2>1. ASSUME RoutingInv, NEW t \in Tokens
          PROVE  /\ Kept(DEX, t) => bal[DEX][t] >= total[t]
                 /\ total[t] = SumOver([r \in Recipients |-> owed[r][t]], Recipients)
      <3>1. /\ Kept(DEX, t) => Own(Books, DEX, t) >= 0
            /\ Books \in Works /\ Even(Books)
        BY <2>1, AccountFacts DEF RoutingInv, BooksInv
      <3>2. Books.bal = bal /\ Books.total = total /\ Books.owed = owed
        BY DEF Books
      <3>3. total[t] \in Int
        BY <3>1, <3>2, WorkTypes
      <3>4. bal[DEX][t] \in Int
        <4>1. bal \in Tables(Accounts) /\ DEX \in Accounts
          BY <3>1, <3>2, WorkTypes, AccountFacts
        <4>2. bal[DEX] \in [Tokens -> Int]
          BY <4>1 DEF Tables
        <4>3. QED
          BY <4>2
      <3>5. Kept(DEX, t) => bal[DEX][t] >= total[t]
        BY <3>1, <3>2, <3>3, <3>4 DEF Own
      <3>6. total[t] = SumOver(OwedIn(owed, t), Recipients)
        BY <3>1, <3>2 DEF Even
      <3>7. QED
        BY <3>5, <3>6 DEF OwedIn
    <2>2. QED
      BY <2>1 DEF OwedCovered, Kept
  <1>2. QED
    BY <1>1, RoutingInvariant, PTL
=============================================================================
