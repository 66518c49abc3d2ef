---------------------------- MODULE PricingProofs ---------------------------
(***************************************************************************)
(* Why a price is never a retired one, a pusher never outruns its pace and *)
(* a schedule never runs out of horizon, for every set of assets, prices,  *)
(* configurations and schedules.                                           *)
(***************************************************************************)
EXTENDS Pricing, ArithmeticTheorems

Fallbacks == [price : Nat \ {0}, updated_at : Nat, epoch : Nat]
Feeds == [price : Nat \ {0}, timestamp : Nat]
ConfigType == [dev : Nat, interval : Nat, age : Nat, shift : Nat]
ScheduleType == [mode : {"Rolling", "Cyclical"}, rolling : Nat, next : Nat,
                 cycle : Nat, rate : Nat]

(* The types the storage keys decode to.                                   *)
Types ==
    /\ now \in Nat
    /\ config \in ConfigType
    /\ ref \in [asset : References, epoch : Nat]
    /\ fallback \in [Rwas -> Fallbacks \cup {None}]
    /\ feed \in [Pairs -> Feeds \cup {None}]
    /\ sched \in [Rwas -> ScheduleType \cup {None}]
    /\ opened \in [Rwas -> Fallbacks \cup {None}]
    /\ against \in [Rwas -> [in : References \cup {None}, at : Nat]]
    /\ paced \in [Pairs -> [count : Nat, since : Int]]

(* A stored fallback is of the past, and one of the current epoch was      *)
(* stated, when it says it was, in the current reference and since the     *)
(* reference was last set.                                                 *)
FallbackSound(a) ==
    fallback[a] # None =>
        /\ fallback[a].updated_at <= now
        /\ fallback[a].epoch <= ref.epoch
        /\ fallback[a].epoch = ref.epoch =>
              against[a] = [in |-> ref.asset, at |-> fallback[a].updated_at]

(* The feed is of the past, and every second of the source's time between  *)
(* its first price and its last pays for one push.                         *)
FeedSound(p) ==
    /\ feed[p] # None =>
          /\ feed[p].timestamp <= now
          /\ paced[p].count <= feed[p].timestamp - paced[p].since
    /\ feed[p] = None => paced[p].count = 0

(* A stored schedule was valid when it was set, which time cannot undo.    *)
ScheduleSound(a) == sched[a] # None => IsValid(sched[a])

(* Where the admin keeps out, a fallback is what the ledger opened with or *)
(* was moved once, within the deviation, and the interval's floor of one   *)
(* ledger shuts out a second move.                                         *)
Within(a) ==
    config.dev > 0 /\ fallback[a].epoch = opened[a].epoch =>
        MulDiv(Distance(fallback[a].price, opened[a].price), BPS,
               opened[a].price) <= config.dev
PushSound(a) ==
    opened[a] # None =>
        /\ fallback[a] \in Fallbacks
        /\ \/ fallback[a] = opened[a]
           \/ /\ fallback[a].updated_at = now
              /\ fallback[a].epoch = ref.epoch
              /\ Within(a)

(* The inductive invariant.                                                *)
PricingInv ==
    /\ Types
    /\ \A a \in Rwas : FallbackSound(a) /\ ScheduleSound(a) /\ PushSound(a)
    /\ \A p \in Pairs : FeedSound(p)

(* Every variable but the bookkeeping of the admin's changes.              *)
priceVars == <<now, config, ref, fallback, feed, sched, opened, against, paced>>

-----------------------------------------------------------------------------

(* Option::None is told apart from a stored price.                         *)
LEMMA NoneIsNoPrice == None \notin Fallbacks /\ None \notin Feeds
  <1>1. /\ Fallbacks \subseteq [price : Nat, updated_at : Nat, epoch : Nat]
        /\ Feeds \subseteq [price : Nat, timestamp : Nat]
    BY DEF Fallbacks, Feeds
  <1>2. QED
    BY <1>1, PricingAssumption

(* The contract starts with no price and no schedule.                      *)
LEMMA PricingInit == Init => PricingInv
  <1> SUFFICES ASSUME Init PROVE PricingInv
    OBVIOUS
  <1> USE DEF Init
  <1>1. /\ config \in ConfigType
        /\ against \in [Rwas -> [in : References \cup {None}, at : Nat]]
    BY PricingAssumption DEF ConfigType, Unstated
  <1>2. paced \in [Pairs -> [count : Nat, since : Int]]
    OBVIOUS
  <1>3. Types
    BY <1>1, <1>2 DEF Types
  <1>4. \A a \in Rwas : FallbackSound(a) /\ ScheduleSound(a) /\ PushSound(a)
    BY DEF FallbackSound, ScheduleSound, PushSound
  <1>5. \A p \in Pairs : FeedSound(p)
    BY DEF FeedSound
  <1>6. QED
    BY <1>3, <1>4, <1>5 DEF PricingInv

(* A valid schedule stays valid as the clock moves on.                     *)
LEMMA ScheduleKept ==
    ASSUME Types, now' \in Nat, now <= now', NEW a \in Rwas, ScheduleSound(a),
           UNCHANGED sched
    PROVE  ScheduleSound(a)'
  <1>1. sched[a] \in ScheduleType \cup {None} /\ now \in Nat
    BY DEF Types
  <1>2. QED
    BY <1>1, PricingAssumption
    DEF ScheduleSound, IsValid, InHorizon, ScheduleType

(* What leaves the prices and schedules alone keeps the invariant.         *)
LEMMA PricingKept ==
    ASSUME PricingInv, UNCHANGED priceVars
    PROVE  PricingInv'
  <1> USE DEF priceVars, PricingInv
  <1>1. Types'
    BY DEF Types
  <1>2. \A a \in Rwas : FallbackSound(a)' /\ ScheduleSound(a)' /\ PushSound(a)'
    BY DEF FallbackSound, ScheduleSound, IsValid, PushSound, Within
  <1>3. \A p \in Pairs : FeedSound(p)'
    BY DEF FeedSound
  <1>4. QED
    BY <1>1, <1>2, <1>3

-----------------------------------------------------------------------------
(* One lemma per kind of step                                              *)

(* A schedule is stored only once it is valid.                             *)
LEMMA SetScheduleStep ==
    ASSUME PricingInv, NEW caller, NEW a \in Rwas, NEW s \in AllSchedules,
           SetSchedule(caller, a, s)
    PROVE  PricingInv'
  <1> USE DEF PricingInv, SetSchedule, pastVars, oracleVars
  <1>1. s \in ScheduleType
    BY PricingAssumption DEF ScheduleType
  <1>2. Types'
    BY <1>1 DEF Types
  <1>3. \A x \in Rwas : FallbackSound(x)' /\ PushSound(x)'
    BY DEF FallbackSound, PushSound, Within
  <1>4. \A x \in Rwas : ScheduleSound(x)'
    <2>1. TAKE x \in Rwas
    <2>2. CASE x = a
      <3>1. sched'[x] = s
        BY <2>2 DEF Types
      <3>2. QED
        BY <3>1 DEF ScheduleSound, IsValid
    <2>3. CASE x # a
      <3>1. sched'[x] = sched[x]
        BY <2>3 DEF Types
      <3>2. QED
        BY <3>1 DEF ScheduleSound, IsValid
    <2>4. QED
      BY <2>2, <2>3
  <1>5. \A p \in Pairs : FeedSound(p)'
    BY DEF FeedSound
  <1>6. QED
    BY <1>2, <1>3, <1>4, <1>5

(* A keeper's second move in a ledger is refused, and its first is bounded *)
(* from where the ledger opened.                                           *)
LEMMA PushPriceStep ==
    ASSUME PricingInv, NEW caller, NEW a \in Rwas, NEW price \in Prices,
           PushPrice(caller, a, price)
    PROVE  PricingInv'
  <1> DEFINE f == [price |-> price, updated_at |-> now, epoch |-> ref.epoch]
  <1> USE DEF PricingInv, oracleVars
  <1>0. /\ price > 0 /\ price \in Nat \ {0}
        /\ fallback' = [fallback EXCEPT ![a] = f]
        /\ against' = [against EXCEPT ![a] = [in |-> ref.asset, at |-> now]]
        /\ opened' = IF caller = Admin THEN [opened EXCEPT ![a] = None] ELSE opened
        /\ UNCHANGED <<now, config, ref, sched, feed, paced>>
    BY PricingAssumption DEF PushPrice
  <1>1. /\ f \in Fallbacks /\ f.price = price /\ f.updated_at = now
        /\ f.epoch = ref.epoch /\ ref.epoch \in Nat /\ now \in Nat
    BY <1>0 DEF Types, Fallbacks
  <1>2. fallback[a] # None /\ fallback[a].epoch = ref.epoch =>
            CheckPriceMove(fallback[a], price, caller)
    BY DEF PushPrice
  <1> HIDE DEF f
  <1>3. Types'
    BY <1>0, <1>1 DEF Types
  <1>4. \A x \in Rwas : FallbackSound(x)'
    <2>1. TAKE x \in Rwas
    <2>2. CASE x = a
      <3>1. fallback'[x] = f /\ against'[x] = [in |-> ref.asset, at |-> now]
        BY <1>0, <2>2 DEF Types
      <3>2. QED
        BY <1>0, <1>1, <3>1 DEF FallbackSound
    <2>3. CASE x # a
      <3>1. fallback'[x] = fallback[x] /\ against'[x] = against[x]
        BY <1>0, <2>3 DEF Types
      <3>2. QED
        BY <1>0, <3>1 DEF FallbackSound
    <2>4. QED
      BY <2>2, <2>3
  <1>5. \A x \in Rwas : ScheduleSound(x)'
    BY <1>0 DEF ScheduleSound, IsValid
  <1>6. \A x \in Rwas : PushSound(x)'
    <2>1. TAKE x \in Rwas
    <2>2. CASE x # a
      <3>1. fallback'[x] = fallback[x] /\ opened'[x] = opened[x]
        BY <1>0, <2>2 DEF Types
      <3>2. QED
        BY <1>0, <3>1 DEF PushSound, Within
    <2>3. CASE x = a /\ caller = Admin
      <3>1. opened'[x] = None
        BY <1>0, <2>3 DEF Types
      <3>2. QED
        BY <3>1 DEF PushSound
    <2>4. CASE x = a /\ caller # Admin /\ opened[a] # None
      <3>1. fallback'[x] = f /\ opened'[x] = opened[a]
        BY <1>0, <2>4 DEF Types
      <3>2. fallback[a] \in Fallbacks /\ fallback[a].updated_at \in Nat
        BY <2>4 DEF Types, PushSound, Fallbacks
      <3>4. config.interval \in Nat
        BY DEF Types, ConfigType
      <3>5. CASE fallback[a].epoch = ref.epoch
        <4>1. fallback[a].updated_at # now
          <5>1. fallback[a] # None
            BY <3>2, NoneIsNoPrice
          <5>2. QED
            BY <1>1, <1>2, <2>4, <3>2, <3>4, <3>5, <5>1 DEF CheckPriceMove
        <4>2. fallback[a] = opened[a]
          BY <2>4, <4>1 DEF PushSound
        <4>3. config.dev > 0 =>
                MulDiv(Distance(price, opened[a].price), BPS, opened[a].price)
                   <= config.dev
          BY <1>2, <2>4, <3>5, <4>2 DEF CheckPriceMove
        <4>4. Within(x)'
          BY <1>0, <1>1, <3>1, <4>3 DEF Within
        <4>5. QED
          BY <1>0, <1>1, <3>1, <4>4 DEF PushSound
      <3>6. CASE fallback[a].epoch # ref.epoch
        <4>1. fallback[a] = opened[a]
          BY <2>4, <3>6 DEF PushSound
        <4>2. Within(x)'
          BY <1>0, <1>1, <3>1, <3>6, <4>1 DEF Within
        <4>3. QED
          BY <1>0, <1>1, <3>1, <4>2 DEF PushSound
      <3>7. QED
        BY <3>5, <3>6
    <2>5. CASE x = a /\ caller # Admin /\ opened[a] = None
      BY <1>0, <2>5 DEF PushSound
    <2>6. QED
      BY <2>2, <2>3, <2>4, <2>5
  <1>7. \A p \in Pairs : FeedSound(p)'
    BY <1>0 DEF FeedSound
  <1>8. QED
    BY <1>3, <1>4, <1>5, <1>6, <1>7

(* The admin's changes forget what the ledger opened with, and a new epoch *)
(* retires every fallback.                                                 *)
LEMMA AdminMoves ==
    ASSUME PricingInv, config' \in ConfigType,
           ref' \in [asset : References, epoch : Nat],
           \/ UNCHANGED <<ref, against>>
           \/ ref'.epoch = ref.epoch + 1 /\ against' = Unstated,
           AdminSteppedIn, UNCHANGED <<now, fallback, feed, sched, paced>>
    PROVE  PricingInv'
  <1> USE DEF PricingInv, AdminSteppedIn
  <1>0. against' \in [Rwas -> [in : References \cup {None}, at : Nat]]
    BY DEF Types, Unstated
  <1>1. Types'
    BY <1>0 DEF Types
  <1>2. \A x \in Rwas : FallbackSound(x)'
    <2>1. TAKE x \in Rwas
    <2>2. ASSUME fallback[x] # None PROVE fallback[x].epoch \in Nat
      BY <2>2 DEF Types, Fallbacks
    <2>3. ref.epoch \in Nat
      BY DEF Types
    <2>0. FallbackSound(x) /\ UNCHANGED <<now, fallback>>
      OBVIOUS
    <2>4. CASE UNCHANGED <<ref, against>>
      BY <2>0, <2>4 DEF FallbackSound
    <2>5. CASE ref'.epoch = ref.epoch + 1
      <3>1. fallback[x] # None =>
              /\ fallback[x].updated_at <= now
              /\ fallback[x].epoch <= ref'.epoch /\ fallback[x].epoch # ref'.epoch
        BY <2>0, <2>2, <2>3, <2>5 DEF FallbackSound
      <3>2. QED
        BY <2>0, <3>1 DEF FallbackSound
    <2>6. QED
      BY <2>4, <2>5
  <1>3. \A x \in Rwas : PushSound(x)'
    BY DEF PushSound
  <1>4. \A x \in Rwas : ScheduleSound(x)'
    BY DEF ScheduleSound, IsValid
  <1>5. \A p \in Pairs : FeedSound(p)'
    BY DEF FeedSound
  <1>6. QED
    BY <1>1, <1>2, <1>3, <1>4, <1>5

(* No change of the admin's breaks the invariant.                          *)
LEMMA AdminStepKeeps ==
    ASSUME PricingInv, AdminStep
    PROVE  PricingInv'
  <1> USE DEF pastVars, oracleVars, rfqVars, Change
  <1>0. config \in ConfigType /\ ref \in [asset : References, epoch : Nat]
    BY DEF PricingInv, Types
  <1>1. ASSUME NEW c \in Configs, SetConfig(c) PROVE PricingInv'
    <2>1. c \in ConfigType
      BY PricingAssumption DEF ConfigType
    <2>2. QED
      BY <1>0, <1>1, <2>1, AdminMoves DEF SetConfig
  <1>2. ASSUME NEW r \in References, SetReference(r) PROVE PricingInv'
    <2>1. ref' \in [asset : References, epoch : Nat] /\ ref'.epoch = ref.epoch + 1
      BY <1>0, <1>2 DEF SetReference
    <2>2. QED
      BY <1>0, <1>2, <2>1, AdminMoves DEF SetReference
  <1>3. ASSUME NEW on \in BOOLEAN, SetKeeper(on) \/ SetUpdater(on)
        PROVE  PricingInv'
    BY <1>3, PricingKept DEF SetKeeper, SetUpdater, priceVars
  <1>4. ASSUME NEW pair \in Pairs, NEW age \in Ages \cup {None},
               SetOracle(pair, age)
        PROVE  PricingInv'
    BY <1>4, PricingKept DEF SetOracle, priceVars
  <1>5. ASSUME NEW bps \in Deviations, SetMaxDeviation(bps) PROVE PricingInv'
    BY <1>5, PricingKept DEF SetMaxDeviation, priceVars
  <1>6. QED
    BY <1>1, <1>2, <1>3, <1>4, <1>5 DEF AdminStep

(* A feed's price is newer than its last, so the push is paid for.         *)
LEMMA PushStep ==
    ASSUME PricingInv, NEW caller, NEW pair \in Pairs, NEW price \in Prices,
           NEW t \in 1 .. MaxTime, Push(caller, pair, price, t)
    PROVE  PricingInv'
  <1> DEFINE f == [price |-> price, timestamp |-> t]
             g == IF caller = Admin THEN [count |-> 0, since |-> t]
                  ELSE [count |-> paced[pair].count + 1,
                        since |-> IF feed[pair] = None THEN t - 1
                                  ELSE paced[pair].since]
  <1> USE DEF PricingInv, oracleVars, rfqVars
  <1>0. /\ price > 0 /\ price \in Nat \ {0} /\ t \in Nat
        /\ t <= now /\ (feed[pair] # None => t > feed[pair].timestamp)
        /\ UNCHANGED <<now, config, ref, fallback, sched, against, opened>>
    BY PricingAssumption DEF Push, Newer
  <1>1. feed' = [feed EXCEPT ![pair] = f] /\ paced' = [paced EXCEPT ![pair] = g]
    BY DEF Push, Types
  <1>2. f \in Feeds /\ f.timestamp = t
    BY <1>0 DEF Feeds
  <1>3. paced[pair] \in [count : Nat, since : Int]
    BY DEF Types
  <1>4. g \in [count : Nat, since : Int]
    <2>1. CASE caller = Admin
      BY <2>1, <1>0
    <2>2. CASE caller # Admin
      <3> DEFINE n == paced[pair].count + 1
                 s == IF feed[pair] = None THEN t - 1 ELSE paced[pair].since
      <3>1. n \in Nat /\ s \in Int
        BY <1>0, <1>3
      <3>2. g = [count |-> n, since |-> s]
        BY <2>2
      <3> HIDE DEF n, s, g
      <3>3. QED
        BY <3>1, <3>2
    <2>3. QED
      BY <2>1, <2>2
  <1>5. g.count <= t - g.since
    <2>1. CASE caller = Admin
      BY <2>1, <1>0
    <2>2. CASE caller # Admin /\ feed[pair] = None
      <3>1. paced[pair].count = 0
        BY <2>2 DEF FeedSound
      <3>2. g.count = 1 /\ g.since = t - 1
        BY <2>2, <3>1
      <3>3. QED
        BY <3>2, <1>0
    <2>3. CASE caller # Admin /\ feed[pair] # None
      <3>1. /\ paced[pair].count <= feed[pair].timestamp - paced[pair].since
            /\ feed[pair] \in Feeds
        BY <2>3 DEF FeedSound, Types
      <3>2. g.count = paced[pair].count + 1 /\ g.since = paced[pair].since
        BY <2>3
      <3>3. feed[pair].timestamp \in Nat
        BY <3>1 DEF Feeds
      <3>4. paced[pair].count \in Nat /\ paced[pair].since \in Int
        BY <1>3
      <3> HIDE DEF g
      <3>5. QED
        BY <1>0, <2>3, <3>1, <3>2, <3>3, <3>4
    <2>4. QED
      BY <2>1, <2>2, <2>3
  <1>6. f # None
    BY <1>2, NoneIsNoPrice
  <1> HIDE DEF f, g
  <1>7. Types'
    BY <1>0, <1>1, <1>2, <1>4 DEF Types
  <1>8. \A x \in Rwas : FallbackSound(x)' /\ ScheduleSound(x)' /\ PushSound(x)'
    BY <1>0 DEF FallbackSound, ScheduleSound, IsValid, PushSound, Within
  <1>9. \A p \in Pairs : FeedSound(p)'
    <2>1. TAKE p \in Pairs
    <2>2. CASE p = pair
      <3>1. feed'[p] = f /\ paced'[p] = g
        BY <1>1, <2>2 DEF Types
      <3>2. QED
        BY <1>0, <1>2, <1>5, <1>6, <3>1 DEF FeedSound
    <2>3. CASE p # pair
      <3>1. feed'[p] = feed[p] /\ paced'[p] = paced[p]
        BY <1>1, <2>3 DEF Types
      <3>2. QED
        BY <1>0, <3>1 DEF FeedSound
    <2>4. QED
      BY <2>2, <2>3
  <1>10. QED
    BY <1>7, <1>8, <1>9

(* A new ledger opens with the fallbacks as they are.                      *)
LEMMA TickStep ==
    ASSUME PricingInv, Tick
    PROVE  PricingInv'
  <1> USE DEF PricingInv, oracleVars, rfqVars, Tick
  <1>0. now \in Nat /\ now' \in Nat /\ now <= now'
    BY DEF Types
  <1>1. Types'
    BY <1>0 DEF Types
  <1>2. \A x \in Rwas : FallbackSound(x)'
    <2>1. TAKE x \in Rwas
    <2>2. ASSUME fallback[x] # None PROVE fallback[x].updated_at \in Nat
      BY <2>2 DEF Types, Fallbacks
    <2>3. QED
      BY <1>0, <2>2 DEF FallbackSound
  <1>3. \A x \in Rwas : ScheduleSound(x)'
    BY <1>0, ScheduleKept
  <1>4. \A x \in Rwas : PushSound(x)'
    BY <1>1 DEF PushSound, Types
  <1>5. \A p \in Pairs : FeedSound(p)'
    <2>1. TAKE p \in Pairs
    <2>2. ASSUME feed[p] # None PROVE feed[p].timestamp \in Nat
      BY <2>2 DEF Types, Feeds
    <2>3. QED
      BY <1>0, <2>2 DEF FeedSound
  <1>6. QED
    BY <1>1, <1>2, <1>3, <1>4, <1>5

(* Every step keeps the invariant.                                         *)
LEMMA PricingStep == PricingInv /\ [Next]_vars => PricingInv'
  <1> SUFFICES ASSUME PricingInv, [Next]_vars PROVE PricingInv'
    OBVIOUS
  <1>1. CASE KeeperStep
    BY <1>1, SetScheduleStep, PushPriceStep DEF KeeperStep
  <1>2. CASE AdminStep
    BY <1>2, AdminStepKeeps
  <1>3. CASE Tick
    BY <1>3, TickStep
  <1>4. CASE \E caller \in {Admin, Updater}, pair \in Pairs, p \in Prices,
                t \in 1 .. MaxTime : Push(caller, pair, p, t)
    BY <1>4, PushStep
  <1>5. CASE UNCHANGED vars
    BY <1>5, PricingKept DEF vars, rfqVars, oracleVars, pastVars, priceVars
  <1>6. QED
    BY <1>1, <1>2, <1>3, <1>4, <1>5 DEF Next

-----------------------------------------------------------------------------
(* What the invariant gives                                                *)

(* A unit price is positive, stated in the reference, and not yet stale.   *)
LEMMA UnitSound ==
    ASSUME PricingInv, NEW a \in Assets, HasUnit(a)
    PROVE  /\ UnitPrice(a) \in Nat \ {0}
           /\ Stated(a).in = ref.asset
           /\ Stated(a).at <= now /\ now <= Stated(a).until
  <1>0. now \in Nat
    BY DEF PricingInv, Types
  <1>1. CASE a = ref.asset
    BY <1>0, <1>1, PricingAssumption DEF UnitPrice, Stated
  <1>2. CASE a # ref.asset /\ HasOracle(a, ref.asset)
    <2> DEFINE p == <<a, ref.asset>>
    <2>1. p \in Pairs /\ feed[p] # None /\ now <= feed[p].timestamp + oracle[p]
      BY <1>2 DEF HasOracle
    <2>2. feed[p] \in Feeds /\ feed[p].timestamp <= now
      BY <2>1 DEF PricingInv, Types, FeedSound
    <2>3. feed[p].price \in Nat \ {0}
      BY <2>2 DEF Feeds
    <2>4. QED
      BY <1>2, <2>1, <2>2, <2>3 DEF UnitPrice, Stated
  <1>3. CASE a # ref.asset /\ ~HasOracle(a, ref.asset)
    <2>1. /\ a \in Rwas /\ fallback[a] # None
          /\ fallback[a].epoch = ref.epoch
          /\ now <= fallback[a].updated_at + config.age
      BY <1>3 DEF HasUnit, LiveFallback
    <2>2. /\ fallback[a] \in Fallbacks /\ fallback[a].updated_at <= now
          /\ against[a] = [in |-> ref.asset, at |-> fallback[a].updated_at]
      BY <2>1 DEF PricingInv, Types, FallbackSound
    <2>3. fallback[a].price \in Nat \ {0}
      BY <2>2 DEF Fallbacks
    <2>4. QED
      BY <1>3, <2>1, <2>2, <2>3 DEF UnitPrice, Stated
  <1>4. QED
    BY <1>1, <1>2, <1>3

(* `price_of` only ever crosses prices stated in the reference of the      *)
(* moment and since it was last set, none of them of the future or past    *)
(* its age, and rounds the cross down: for every set of assets, pairs,     *)
(* prices and references, and for any changes of reference, back and forth.*)
THEOREM PricesNeverRetired == Spec => []NeverRetiredPrice
  <1>1. PricingInv => NeverRetiredPrice
    <2> SUFFICES ASSUME PricingInv, NEW b \in Assets, NEW q \in Assets,
                        HasPrice(b, q), b # q, ~HasOracle(b, q)
                 PROVE  /\ \A a \in {b, q} :
                              /\ Stated(a).in = ref.asset
                              /\ Stated(a).at <= now /\ now <= Stated(a).until
                        /\ PriceOf(b, q) * UnitPrice(q) <= UnitPrice(b) * ONE
      BY DEF NeverRetiredPrice
    <2>1. HasUnit(b) /\ HasUnit(q)
      BY DEF HasPrice
    <2>2. \A a \in {b, q} : /\ Stated(a).in = ref.asset
                            /\ Stated(a).at <= now /\ now <= Stated(a).until
      BY <2>1, UnitSound
    <2>3. UnitPrice(b) \in Nat /\ UnitPrice(q) \in Nat \ {0} /\ ONE \in Nat
      BY <2>1, UnitSound, PricingAssumption
    <2>4. PriceOf(b, q) = MulDiv(UnitPrice(b), ONE, UnitPrice(q))
      BY DEF PriceOf
    <2>5. PriceOf(b, q) * UnitPrice(q) <= UnitPrice(b) * ONE
      BY <2>3, <2>4, MulDivBelow
    <2>6. QED
      BY <2>2, <2>5
  <1>2. QED
    BY <1>1, PricingInit, PricingStep, PTL DEF Spec

(* Whatever a keeper pushes in a ledger, the fallback stays within the     *)
(* deviation of where the ledger opened, and every move of a feed by an    *)
(* updater uses up a second of the source's time: for every configuration  *)
(* and every number of pushes.                                             *)
THEOREM PushersAlwaysPaced == Spec => []PushersPaced
  <1>1. PricingInv => PushersPaced
    <2> SUFFICES ASSUME PricingInv PROVE PushersPaced
      OBVIOUS
    <2>1. ASSUME NEW a \in Rwas, opened[a] # None, config.dev > 0,
                 fallback[a].epoch = opened[a].epoch
          PROVE  MulDiv(Distance(fallback[a].price, opened[a].price), BPS,
                        opened[a].price) <= config.dev
      <3>1. CASE fallback[a] = opened[a]
        <4>1. opened[a] \in Fallbacks
          BY <2>1 DEF PricingInv, Types
        <4> DEFINE p == opened[a].price
        <4>2. p \in Nat \ {0}
          BY <4>1 DEF Fallbacks
        <4>3. config.dev \in Nat /\ BPS \in Nat \ {0}
          BY PricingAssumption DEF PricingInv, Types, ConfigType
        <4> HIDE DEF p
        <4>4. Distance(p, p) = 0
          BY <4>2 DEF Distance
        <4>5. MulDiv(0, BPS, p) = 0
          BY <4>2, <4>3 DEF MulDiv
        <4>6. QED
          BY <3>1, <4>3, <4>4, <4>5 DEF p
      <3>2. CASE fallback[a] # opened[a]
        BY <2>1, <3>2 DEF PricingInv, PushSound, Within
      <3>3. QED
        BY <3>1, <3>2
    <2>2. ASSUME NEW pair \in Pairs, feed[pair] # None
          PROVE  paced[pair].count <= feed[pair].timestamp - paced[pair].since
      BY <2>2 DEF PricingInv, FeedSound
    <2>3. QED
      BY <2>1, <2>2 DEF PushersPaced
  <1>2. QED
    BY <1>1, PricingInit, PricingStep, PTL DEF Spec

(* Rolling a date forward whole cycles lands within one cycle from now.    *)
LEMMA RollsWithinCycle ==
    ASSUME NEW t \in Nat, NEW n \in Nat, NEW c \in Nat \ {0}, t >= n
    PROVE  /\ n + ((t - n) \div c + 1) * c - t \in Nat
           /\ n + ((t - n) \div c + 1) * c - t >= 1
           /\ n + ((t - n) \div c + 1) * c - t <= c
  <1> DEFINE k == t - n
             d == k \div c
  <1>1. k \in Nat /\ t = n + k
    OBVIOUS
  <1>2. d \in Nat /\ c * d <= k /\ k < c * d + c
    BY <1>1, DivBracket
  <1> HIDE DEF d, k
  <1>3. (d + 1) * c = c * d + c
    BY <1>2
  <1>4. c * d \in Nat
    BY <1>2
  <1>5. n + (d + 1) * c - t \in Nat /\ n + (d + 1) * c - t >= 1
        /\ n + (d + 1) * c - t <= c
    BY <1>1, <1>2, <1>3, <1>4
  <1>6. QED
    BY <1>5 DEF d, k

(* A valid schedule's horizon is within bounds at every later time.        *)
LEMMA HorizonSound ==
    ASSUME NEW s \in ScheduleType, now \in Nat, IsValid(s)
    PROVE  SecondsFor(s) \in Nat /\ InHorizon(SecondsFor(s)) /\ HasHorizon(s)
  <1>1. CASE s.mode = "Rolling"
    BY <1>1 DEF IsValid, InHorizon, SecondsFor, HasHorizon, ScheduleType
  <1>2. CASE s.mode # "Rolling"
    <2>1. /\ s.next \in Nat /\ s.cycle \in Nat /\ s.cycle >= 1
          /\ s.cycle <= MAX_SECONDS /\ s.next <= now + MAX_SECONDS
          /\ MAX_SECONDS \in Nat
      BY <1>2, PricingAssumption DEF IsValid, InHorizon, ScheduleType
    <2>2. CASE now >= s.next
      <3> DEFINE n == s.next
                 c == s.cycle
                 h == n + ((now - n) \div c + 1) * c - now
      <3>1. SecondsFor(s) = h
        BY <1>2, <2>2 DEF SecondsFor
      <3>2. n \in Nat /\ c \in Nat \ {0} /\ now >= n /\ c <= MAX_SECONDS
        BY <2>1, <2>2
      <3> HIDE DEF n, c
      <3>3. h \in Nat /\ h >= 1 /\ h <= c
        BY <3>2, RollsWithinCycle
      <3> HIDE DEF h
      <3>4. QED
        BY <2>1, <3>1, <3>2, <3>3 DEF InHorizon, HasHorizon
    <2>3. CASE now < s.next
      <3>1. SecondsFor(s) = s.next - now
        BY <1>2, <2>1, <2>3 DEF SecondsFor
      <3>2. QED
        BY <2>1, <2>3, <3>1 DEF InHorizon, HasHorizon
    <2>4. QED
      BY <2>1, <2>2, <2>3
  <1>3. QED
    BY <1>1, <1>2

(* A schedule once set gives a horizon of at least a second and at most    *)
(* MAX_SECONDS at every later time, alone and against any other asset's:   *)
(* for every schedule, not only the ones a bounded clock reaches.          *)
THEOREM HorizonNeverRunsOut == Spec => []HorizonForGood
  <1>1. PricingInv => HorizonForGood
    <2> SUFFICES ASSUME PricingInv, NEW a \in Rwas, sched[a] # None
                 PROVE  /\ HasHorizon(sched[a])
                        /\ InHorizon(SecondsFor(sched[a]))
                        /\ \A b \in Assets : InHorizon(Horizon(a, b))
      BY DEF HorizonForGood
    <2>0. \A x \in Rwas : sched[x] # None =>
              /\ HasHorizon(sched[x]) /\ SecondsFor(sched[x]) \in Nat
              /\ InHorizon(SecondsFor(sched[x]))
      <3>1. TAKE x \in Rwas
      <3>2. HAVE sched[x] # None
      <3>3. sched[x] \in ScheduleType /\ now \in Nat /\ IsValid(sched[x])
        BY <3>2 DEF PricingInv, Types, ScheduleSound
      <3>4. QED
        BY <3>3, HorizonSound
    <2>1. ASSUME NEW b \in Assets PROVE InHorizon(Horizon(a, b))
      <3> DEFINE m == IF b \in Rwas /\ sched[b] # None
                      THEN SecondsFor(sched[b]) ELSE 0
                 t == SecondsFor(sched[a])
      <3>1. m \in Nat /\ t \in Nat /\ InHorizon(t) /\ MAX_SECONDS \in Nat
        BY <2>0, PricingAssumption
      <3>2. Horizon(a, b) = IF t > m THEN t - m ELSE 1
        BY DEF Horizon
      <3> HIDE DEF m, t
      <3>3. QED
        BY <3>1, <3>2 DEF InHorizon
    <2>2. QED
      BY <2>0, <2>1
  <1>2. QED
    BY <1>1, PricingInit, PricingStep, PTL DEF Spec
=============================================================================
