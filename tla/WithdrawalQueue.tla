-------------------------- MODULE WithdrawalQueue --------------------------
(***************************************************************************)
(* The withdrawal queue (contracts/queue) composed with its facility: oLP  *)
(* that cannot be paid out now waits here and is redeemed, first come      *)
(* first served, at the NAV when served.                                   *)
(*                                                                         *)
(* `process` is one transaction of several redemptions: it turns over the  *)
(* positions from the head, each against the facility the one before left, *)
(* and reverts as a whole when one of them does.                           *)
(***************************************************************************)
EXTENDS Facility

CONSTANTS
    MaxPositions, \* bound on the positions handed out
    MaxServed     \* bound on the `max` of process

VARIABLES
    line,         \* Key::Pos by id, None once removed; Key::Tail is its length
    head          \* Key::Head

queueVars == <<line, head>>
allVars == <<vars, queueVars>>

Positions == [owner : Lps, receiver : Lps, shares : Nat]

ASSUME QueueAssumption ==
    MaxPositions \in Nat /\ MaxServed \in Nat /\ None \notin Positions

Request(owner, receiver, shares) ==
    /\ shares > 0
    /\ Len(line) < MaxPositions
    /\ CanMove(share, owner, QUEUE, shares)
    /\ share' = Moved(share, owner, QUEUE, shares)
    /\ line' = Append(line, [owner |-> owner, receiver |-> receiver,
                             shares |-> shares])
    /\ UNCHANGED <<govVars, worldVars, vault, red, lock, events, head>>

(* The shares of a position that the money left can redeem.                *)
Serves(p, s, available) ==
    IF ToAssets(s, p.shares) <= available THEN p.shares
    ELSE Lesser(ToShares(s, available), p.shares)

(* What is left of a position once n of its shares are redeemed.           *)
Left(p, n) == IF n < p.shares THEN [p EXCEPT !.shares = p.shares - n] ELSE None

(* One turn of the loop over state w, at position id.  w.go is whether the *)
(* loop still runs, w.ok whether no redemption has reverted.               *)
ServePastPartial(w, id, max) ==
    LET p == line[id]
        s == SnapOf(w.share, w.base)
        n == Serves(p, s, w.available)
        assets == ToAssets(s, n)
        t == Accrue(w.share, s, Curator)
    IN  IF ~w.ok \/ ~w.go \/ w.served = max THEN [w EXCEPT !.go = FALSE]
        ELSE IF p = None THEN [w EXCEPT !.head = id]
        ELSE IF w.available <= 0 \/ n = 0 THEN [w EXCEPT !.go = FALSE]
        ELSE IF ~CanExit(t, w.base, s, QUEUE, n, assets)
        THEN [w EXCEPT !.ok = FALSE]
        ELSE [w EXCEPT !.share = Burn(t, QUEUE, n), !.base = Pull(@, assets),
                       !.available = @ - assets, !.served = @ + 1,
                       !.line[id] = Left(p, n),
                       !.head = id,
                       !.go = n = p.shares]

Serve(w, id, max) ==
    LET p == line[id]
        s == SnapOf(w.share, w.base)
        n == Serves(p, s, w.available)
        assets == ToAssets(s, n)
        t == Accrue(w.share, s, Curator)
    IN  IF ~w.ok \/ ~w.go \/ w.served = max THEN [w EXCEPT !.go = FALSE]
        ELSE IF p = None THEN [w EXCEPT !.head = id]
        ELSE IF w.available <= 0 \/ n = 0 THEN [w EXCEPT !.go = FALSE]
        ELSE IF ~CanExit(t, w.base, s, QUEUE, n, assets)
        THEN [w EXCEPT !.ok = FALSE]
        ELSE [w EXCEPT !.share = Burn(t, QUEUE, n), !.base = Pull(@, assets),
                       !.available = @ - assets, !.served = @ + 1,
                       !.line[id] = Left(p, n),
                       !.head = IF n < p.shares THEN @ ELSE id,
                       !.go = n = p.shares]

Start == [share |-> share, base |-> vault[Base], line |-> line, head |-> head,
          available |-> MaxWithdraw(QUEUE), served |-> 0, go |-> TRUE, ok |-> TRUE]

Served(max) ==
    LET turn[k \in 0 .. Len(line) - head] ==
            IF k = 0 THEN Start ELSE Serve(turn[k - 1], head + k, max)
    IN  turn[Len(line) - head]

Process(max) ==
    LET w == Served(max)
    IN  /\ CanSnap
        /\ w.ok
        /\ share' = w.share
        /\ vault' = [vault EXCEPT ![Base] = w.base]
        /\ line' = w.line
        /\ head' = w.head
        /\ UNCHANGED <<govVars, worldVars, red, lock, events>>

CancelKeepsPlace(id) ==
    /\ line[id] # None
    /\ CanMove(share, QUEUE, line[id].owner, line[id].shares)
    /\ share' = Moved(share, QUEUE, line[id].owner, line[id].shares)
    /\ UNCHANGED <<govVars, worldVars, vault, red, lock, events, head, line>>
Cancel(id) ==
    /\ line[id] # None
    /\ CanMove(share, QUEUE, line[id].owner, line[id].shares)
    /\ share' = Moved(share, QUEUE, line[id].owner, line[id].shares)
    /\ line' = [line EXCEPT ![id] = None]
    /\ UNCHANGED <<govVars, worldVars, vault, red, lock, events, head>>

QueueInit == Init /\ line = << >> /\ head = 0

QueueStep ==
    \/ \E o \in Lps, n \in Lots : Request(o, o, n)
    \/ \E max \in 1 .. MaxServed : Process(max)
    \/ \E id \in DOMAIN line : Cancel(id)

QueueNext == QueueStep \/ (Next /\ UNCHANGED queueVars)

QueueSpec == QueueInit /\ [][QueueNext]_allVars

-----------------------------------------------------------------------------
(* Properties                                                              *)

(* Every table keeps its shape and no balance goes negative.               *)
TypeOK ==
    /\ now \in 0 .. MaxTime /\ paused \in BOOLEAN /\ events \in 0 .. MaxEvents
    /\ config \in [fee : 0 .. MAX_FEE, vest : Nat, queue : {QUEUE, None}]
    /\ DOMAIN pending = Kinds
    /\ \A r \in Rwas : terms[r] = None \/ terms[r] \in Terms
    /\ share \in Ledgers(Holders)
    /\ vault \in [Tokens -> Vaults]
    /\ \A r \in Rwas : red[r] = None \/ red[r] \in [amount : Nat, carried : Nat]
    /\ lock \in [locked : Nat, last : Nat, end : Nat]
    /\ price \in [Rwas -> Prices] /\ sunk \in Nat
    /\ \A id \in DOMAIN line : line[id] = None \/ line[id] \in Positions
    /\ head \in 0 .. Len(line)

Waiting == {id \in DOMAIN line : line[id] # None}

(* The queue holds at least the oLP of those who wait, whatever is sent to *)
(* it without a request, and nobody waits behind the head.                 *)
QueueBacked ==
    /\ TypeOK
    /\ share.bal[QUEUE] >= SumOver([id \in Waiting |-> line[id].shares], Waiting)
    /\ \A id \in Waiting : id > head

(* Nobody is served before those ahead of them have been served in full,   *)
(* however the vaults are paying when `process` is called.                 *)
FirstComeFirstServed ==
    [][line' # line /\ vault' # vault =>
          \A i, j \in Waiting : i < j /\ line'[j] # line[j] => line'[i] = None]_allVars

(* The money the queue can be paid goes to nobody else: an exit or a trade *)
(* that draws on the base vault leaves what the queue could withdraw       *)
(* before it, to a unit of rounding, but for what a trade that names the   *)
(* queue as its recipient sends to the queue's own address.                *)
ReservedForQueue ==
    [][/\ config.queue = QUEUE /\ UNCHANGED line
       /\ vault'[Base].shares < vault[Base].shares
       => MaxWithdraw(QUEUE)' + (sunk' - sunk) >= MaxWithdraw(QUEUE) - 1]_allVars

(* No trade, redemption or settlement moves the NAV at once by more than   *)
(* rounding: a gain is locked when it is booked, so that who deposits just *)
(* before one and leaves just after it takes nothing from the others, and  *)
(* a loss comes out of what is locked first.                               *)
GainsVest ==
    [][/\ config.vest > 0 /\ UNCHANGED now
       /\ red' # red \/ \E r \in Rwas : vault'[r] # vault[r]
       => LET gain == (Gross' + LockedNow') - (Gross + LockedNow)
          IN  /\ Gross' <= Gross + 1
              /\ Gross' >= Gross - 1 + Lesser(0, gain + LockedNow)]_allVars

(* What max_withdraw promises a holder can be withdrawn at once, trading   *)
(* paused or not: no pause, allowlist or change of terms locks anyone in.  *)
ExitsOpen ==
    CanSnap => LET s == Snap IN
        \A h \in Lps : LET most == MaxWithdrawAt(s, h)
                       IN  most > 0 => CanWithdraw(s, h, most)

(* The queue's own comment has `process` serve from the head with what the *)
(* facility can pay now; a waiting position and money for it are enough.   *)
ProcessServes ==
    CanSnap /\ Waiting # {} /\ MaxWithdraw(QUEUE) > 0 =>
        Served(1).ok /\ Served(1).served = 1
=============================================================================
