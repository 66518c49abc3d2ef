----------------------------- MODULE MCPricing ------------------------------
(***************************************************************************)
(* A small instance of Pricing: one RWA, two references, a deviation of a  *)
(* half, a push interval of 0, and schedules at the edges of validity.     *)
(***************************************************************************)
EXTENDS Pricing

CONSTANTS rwa, usd, eur

Config(dev, age) == [dev |-> dev, interval |-> 0, age |-> age, shift |-> 2]
Start == Config(1, 2)
NewConfigs == {[Config(0, 0) EXCEPT !.interval = 2, !.shift = 0], Config(3, 1)}

Sched(mode, rolling, next, cycle, rate) ==
    [mode |-> mode, rolling |-> rolling, next |-> next, cycle |-> cycle,
     rate |-> rate]
EdgeSchedules ==
    {Sched("Rolling", r, 0, 0, 1) : r \in {0, 2}}
    \cup {Sched("Cyclical", 0, 2, 2, rate) : rate \in {1, 2}}
    \cup {Sched("Cyclical", 0, 5, 3, 1)}
InUsd == {<<rwa, usd>>}
=============================================================================
