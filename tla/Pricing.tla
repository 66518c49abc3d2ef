------------------------------ MODULE Pricing -------------------------------
(***************************************************************************)
(* Where the settlement contract's prices and horizons come from: the      *)
(* oracle of a pair, the keeper's fallback prices against one reference    *)
(* asset, the redemption schedules (rfq/src/price.rs, rfq/src/lib.rs,      *)
(* common/src/schedule.rs), and the push oracle that serves the pairs      *)
(* (oracles/push_oracle).                                                  *)
(*                                                                         *)
(* Each entry point is one action, with one admin, one keeper and one      *)
(* updater.  A price is read by other contracts at any state, so reads are *)
(* operators.  `against`, `opened` and `paced` record the past for the     *)
(* properties only.                                                        *)
(***************************************************************************)
EXTENDS CommonMath

CONSTANTS
    Rwas,         \* assets with a fallback price and a schedule
    References,   \* assets the admin may make the reference
    Pairs,        \* the pairs the push oracle serves
    Prices,       \* prices a pusher may name
    Configs,      \* the configurations an admin may set
    InitialConfig,
    AllSchedules, \* the schedules a caller may name
    Ages,         \* the max_age of an oracle a pair may be given
    Deviations,   \* the push oracle's max_deviation_bps
    Admin, Keeper, Updater,
    ONE, BPS,     \* the scales of a price and of a deviation
    MAX_SECONDS,  \* the longest horizon
    None,         \* Option::None
    MaxChanges,   \* bound on the admin's changes
    MaxPushes,    \* bound on the updater's pushes
    MaxTime       \* bound on the ledger clock

VARIABLES
    now,          \* env.ledger().timestamp()
    config,       \* dev, interval, age and shift of Key::Config
    ref,          \* DataKey::Ref: the reference asset and its epoch
    keeper,       \* DataKey::Keeper: is Keeper one
    fallback,     \* DataKey::Fallback
    oracle,       \* DataKey::Oracle: the max_age of a pair's oracle, or None
    sched,        \* DataKey::Sched
    feed,         \* the push oracle's Key::Price, by pair
    deviation,    \* the push oracle's Key::MaxDeviation
    updater,      \* the push oracle's Key::Updater: is Updater one
    changes,      \* the admin's changes so far
    against,      \* the reference a fallback price was stated in and when, None
                  \* once set_reference has been called since
    opened,       \* the fallback prices this ledger opened with, None where the
                  \* admin has had a hand since
    paced         \* the updater's pushes of a pair, and the source's time
                  \* before the first of them

rfqVars == <<config, ref, keeper, fallback, oracle, sched>>
oracleVars == <<feed, deviation, updater>>
pastVars == <<against, opened, paced>>
vars == <<now, rfqVars, oracleVars, changes, pastVars>>

Assets == Rwas \cup References

ASSUME PricingAssumption ==
    /\ None \notin Assets /\ Rwas \cap References = {}
    /\ Pairs \subseteq Assets \X Assets
    /\ Prices \subseteq Int /\ Ages \subseteq Nat /\ Deviations \subseteq Nat
    /\ ONE \in Nat \ {0} /\ BPS \in Nat \ {0} /\ MAX_SECONDS \in Nat
    /\ MaxChanges \in Nat /\ MaxPushes \in Nat /\ MaxTime \in Nat
    /\ Configs \cup {InitialConfig} \subseteq
          [dev : Nat, interval : Nat, age : Nat, shift : Nat]
    /\ AllSchedules \subseteq [mode : {"Rolling", "Cyclical"}, rolling : Nat,
                              next : Nat, cycle : Nat, rate : Nat]
    /\ None \notin [price : Nat, timestamp : Nat]
    /\ None \notin [price : Nat, updated_at : Nat, epoch : Nat]

Distance(m, n) == IF m <= n THEN n - m ELSE m - n

-----------------------------------------------------------------------------
(* Prices                                                                  *)

(* The push oracle serves the last price; a pair with none reverts, which  *)
(* the caller takes for no price, as it does one that is too old.          *)
HasOracle(b, q) ==
    /\ <<b, q>> \in Pairs
    /\ oracle[<<b, q>>] # None /\ feed[<<b, q>>] # None
    /\ feed[<<b, q>>].price > 0
    /\ now <= feed[<<b, q>>].timestamp + oracle[<<b, q>>]

LiveFallback(a) ==
    /\ a \in Rwas /\ fallback[a] # None
    /\ fallback[a].price > 0 /\ fallback[a].epoch = ref.epoch
    /\ config.age > 0 /\ now <= fallback[a].updated_at + config.age

HasUnit(a) == a = ref.asset \/ HasOracle(a, ref.asset) \/ LiveFallback(a)
UnitPrice(a) ==
    IF a = ref.asset THEN ONE
    ELSE IF HasOracle(a, ref.asset) THEN feed[<<a, ref.asset>>].price
    ELSE fallback[a].price

HasPrice(b, q) == b = q \/ HasOracle(b, q) \/ (HasUnit(b) /\ HasUnit(q))
PriceOf(b, q) ==
    IF b = q THEN ONE
    ELSE IF HasOracle(b, q) THEN feed[<<b, q>>].price
    ELSE MulDiv(UnitPrice(b), ONE, UnitPrice(q))

-----------------------------------------------------------------------------
(* Schedules                                                               *)

InHorizon(seconds) == 1 <= seconds /\ seconds <= MAX_SECONDS

IsValidUnanchored(s) ==
    /\ s.rate # 0
    /\ IF s.mode = "Rolling" THEN InHorizon(s.rolling)
       ELSE InHorizon(s.cycle) /\ s.next > 0
IsValid(s) ==
    /\ s.rate # 0
    /\ IF s.mode = "Rolling" THEN InHorizon(s.rolling)
       ELSE InHorizon(s.cycle) /\ s.next > 0 /\ s.next <= now + MAX_SECONDS

(* A date that has passed rolls forward whole cycles.                      *)
SecondsFor(s) ==
    IF s.mode = "Rolling" THEN s.rolling
    ELSE IF now >= s.next
    THEN s.next + ((now - s.next) \div s.cycle + 1) * s.cycle - now
    ELSE s.next - now
HasHorizon(s) == s.mode = "Rolling" \/ SecondsFor(s) <= MAX_SECONDS

Amplitude(s) == IF s.mode = "Rolling" THEN s.rolling ELSE s.cycle

CheckKeeperShift(a, s) ==
    /\ sched[a] # None
    /\ s.rate <= sched[a].rate
    /\ config.shift > 0 =>
          /\ HasHorizon(sched[a]) /\ HasHorizon(s)
          /\ Distance(SecondsFor(sched[a]), SecondsFor(s)) <= config.shift
          /\ Distance(Amplitude(sched[a]), Amplitude(s)) <= config.shift

(* The taker's horizon over the maker's, at least a second.                *)
Horizon(taker, maker) ==
    LET m == IF maker \in Rwas /\ sched[maker] # None
             THEN SecondsFor(sched[maker]) ELSE 0
        t == SecondsFor(sched[taker])
    IN  IF t > m THEN t - m ELSE 1

-----------------------------------------------------------------------------
(* The settlement contract's keepers                                       *)

(* The admin passes as itself, a keeper while it is one.                   *)
KeeperAuth(caller) == caller = Admin \/ (caller = Keeper /\ keeper)

SetSchedule(caller, a, s) ==
    /\ KeeperAuth(caller)
    /\ IsValid(s)
    /\ caller # Admin => CheckKeeperShift(a, s)
    /\ sched' = [sched EXCEPT ![a] = s]
    /\ UNCHANGED <<now, config, ref, keeper, fallback, oracle, oracleVars,
                   changes, pastVars>>

(* The interval floors at one ledger.                                      *)
CheckPriceMoveUnfloored(prev, price, caller) ==
    /\ caller # Admin => now >= prev.updated_at + config.interval
    /\ config.dev > 0 =>
          MulDiv(Distance(price, prev.price), BPS, prev.price) <= config.dev
CheckPriceMove(prev, price, caller) ==
    /\ caller # Admin =>
          now >= prev.updated_at + (IF config.interval > 1 THEN config.interval ELSE 1)
    /\ config.dev > 0 =>
          MulDiv(Distance(price, prev.price), BPS, prev.price) <= config.dev

PushPrice(caller, a, price) ==
    /\ KeeperAuth(caller)
    /\ price > 0
    /\ fallback[a] # None /\ fallback[a].epoch = ref.epoch =>
          CheckPriceMove(fallback[a], price, caller)
    /\ fallback' = [fallback EXCEPT ![a] =
                       [price |-> price, updated_at |-> now, epoch |-> ref.epoch]]
    /\ against' = [against EXCEPT ![a] = [in |-> ref.asset, at |-> now]]
    /\ opened' = IF caller = Admin THEN [opened EXCEPT ![a] = None] ELSE opened
    /\ UNCHANGED <<now, config, ref, keeper, oracle, sched, oracleVars, changes,
                   paced>>

-----------------------------------------------------------------------------
(* The admin                                                               *)

Change == changes < MaxChanges /\ changes' = changes + 1
AdminSteppedIn == opened' = [a \in Rwas |-> None]
Unstated == [a \in Rwas |-> [in |-> None, at |-> 0]]

SetConfig(c) ==
    /\ Change
    /\ c.dev <= BPS
    /\ config' = c
    /\ AdminSteppedIn
    /\ UNCHANGED <<now, ref, keeper, fallback, oracle, sched, oracleVars,
                   against, paced>>

SetReferenceSameEpoch(asset) ==
    /\ Change
    /\ ref' = [ref EXCEPT !.asset = asset]
    /\ against' = Unstated
    /\ AdminSteppedIn
    /\ UNCHANGED <<now, config, keeper, fallback, oracle, sched, oracleVars, paced>>
SetReference(asset) ==
    /\ Change
    /\ ref' = [asset |-> asset, epoch |-> ref.epoch + 1]
    /\ against' = Unstated
    /\ AdminSteppedIn
    /\ UNCHANGED <<now, config, keeper, fallback, oracle, sched, oracleVars, paced>>

SetKeeper(allowed) ==
    /\ Change
    /\ keeper' = allowed
    /\ UNCHANGED <<now, config, ref, fallback, oracle, sched, oracleVars, pastVars>>

SetOracle(pair, max_age) ==
    /\ Change
    /\ max_age # 0
    /\ oracle' = [oracle EXCEPT ![pair] = max_age]
    /\ UNCHANGED <<now, config, ref, keeper, fallback, sched, oracleVars, pastVars>>

-----------------------------------------------------------------------------
(* The push oracle                                                         *)

SetMaxDeviation(bps) ==
    /\ Change
    /\ deviation' = bps
    /\ UNCHANGED <<now, rfqVars, feed, updater, pastVars>>

SetUpdater(allowed) ==
    /\ Change
    /\ updater' = allowed
    /\ UNCHANGED <<now, rfqVars, feed, deviation, pastVars>>

(* A price is as of the source's time, which must move on.                 *)
Newer(pair, timestamp) ==
    timestamp <= now /\ (feed[pair] # None => timestamp > feed[pair].timestamp)

Push(caller, pair, price, timestamp) ==
    LET last == feed[pair]
    IN  /\ caller = Admin \/ updater
        /\ price > 0
        /\ Newer(pair, timestamp)
        /\ last # None /\ caller # Admin /\ deviation > 0 =>
              Distance(price, last.price) * BPS <= last.price * deviation
        /\ caller = Admin => changes < MaxChanges
        /\ paced[pair].count < MaxPushes
        /\ feed' = [feed EXCEPT ![pair] = [price |-> price, timestamp |-> timestamp]]
        /\ changes' = IF caller = Admin THEN changes + 1 ELSE changes
        /\ paced' = [paced EXCEPT ![pair] =
                        IF caller = Admin THEN [count |-> 0, since |-> timestamp]
                        ELSE [count |-> @.count + 1,
                              since |-> IF last = None THEN timestamp - 1 ELSE @.since]]
        /\ UNCHANGED <<now, rfqVars, deviation, updater, against, opened>>

-----------------------------------------------------------------------------
Tick ==
    /\ now < MaxTime
    /\ now' = now + 1
    /\ opened' = fallback
    /\ UNCHANGED <<rfqVars, oracleVars, changes, against, paced>>

Init ==
    /\ now = 1
    /\ config = InitialConfig
    /\ ref \in [asset : References, epoch : {0}]
    /\ keeper = TRUE /\ updater = TRUE
    /\ fallback = [a \in Rwas |-> None]
    /\ oracle = [p \in Pairs |-> None]
    /\ sched = [a \in Rwas |-> None]
    /\ feed = [p \in Pairs |-> None]
    /\ deviation \in Deviations
    /\ changes = 0
    /\ against = Unstated
    /\ opened = [a \in Rwas |-> None]
    /\ paced = [p \in Pairs |-> [count |-> 0, since |-> 0]]

KeeperStep ==
    \E caller \in {Admin, Keeper}, a \in Rwas :
        \/ \E s \in AllSchedules : SetSchedule(caller, a, s)
        \/ \E p \in Prices : PushPrice(caller, a, p)

AdminStep ==
    \/ \E c \in Configs : SetConfig(c)
    \/ \E r \in References : SetReference(r)
    \/ \E on \in BOOLEAN : SetKeeper(on) \/ SetUpdater(on)
    \/ \E pair \in Pairs, age \in Ages \cup {None} : SetOracle(pair, age)
    \/ \E bps \in Deviations : SetMaxDeviation(bps)

Next ==
    \/ KeeperStep \/ AdminStep \/ Tick
    \/ \E caller \in {Admin, Updater}, pair \in Pairs, p \in Prices, t \in 1 .. MaxTime :
          Push(caller, pair, p, t)

Spec == Init /\ [][Next]_vars

-----------------------------------------------------------------------------
(* Properties                                                              *)

(* What an asset's unit price was stated in, when, and for how long it is  *)
(* good: a fallback's by the history of pushes and of set_reference, not   *)
(* by the epoch and the time stored beside it.                             *)
Stated(a) ==
    IF a = ref.asset THEN [in |-> ref.asset, at |-> now, until |-> now]
    ELSE IF HasOracle(a, ref.asset)
    THEN LET t == feed[<<a, ref.asset>>].timestamp
         IN  [in |-> ref.asset, at |-> t, until |-> t + oracle[<<a, ref.asset>>]]
    ELSE [in |-> against[a].in, at |-> against[a].at,
          until |-> against[a].at + config.age]

(* `price_of` crosses two unit prices only when both were stated in the    *)
(* reference of the moment, neither is of the future and neither has       *)
(* outlived its age.  A fallback pushed before set_reference was last      *)
(* called is never used again, also when the reference has been changed    *)
(* and changed back since.  And the cross is rounded down.                 *)
NeverRetiredPrice ==
    \A b, q \in Assets :
        HasPrice(b, q) /\ b # q /\ ~HasOracle(b, q) =>
            /\ \A a \in {b, q} : /\ Stated(a).in = ref.asset
                                 /\ Stated(a).at <= now /\ now <= Stated(a).until
            /\ PriceOf(b, q) * UnitPrice(q) <= UnitPrice(b) * ONE

(* The deviation bounds a ledger and not just a call: whatever a keeper    *)
(* pushes in one ledger, the fallback stays within the deviation of where  *)
(* the ledger opened, as long as the admin keeps out of it.  And each of   *)
(* an updater's moves of a feed uses up a second of the source's time.     *)
PushersPaced ==
    /\ \A a \in Rwas :
          /\ opened[a] # None /\ config.dev > 0
          /\ fallback[a].epoch = opened[a].epoch
          => MulDiv(Distance(fallback[a].price, opened[a].price), BPS,
                    opened[a].price) <= config.dev
    /\ \A pair \in Pairs :
          feed[pair] # None =>
              paced[pair].count <= feed[pair].timestamp - paced[pair].since

(* A schedule once set gives a horizon of at least a second and at most    *)
(* MAX_SECONDS for good, on the redemption date, past it and after any     *)
(* number of cycles: no fill or keeper's update reverts for want of one.   *)
HorizonForGood ==
    \A a \in Rwas :
        sched[a] # None =>
            /\ HasHorizon(sched[a]) /\ InHorizon(SecondsFor(sched[a]))
            /\ \A b \in Assets : InHorizon(Horizon(a, b))
=============================================================================
