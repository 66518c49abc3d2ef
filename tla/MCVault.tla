------------------------------ MODULE MCVault ------------------------------
(***************************************************************************)
(* Small instances of RedemptionVault: two holders, two batches, up to two *)
(* redemption accounts.  A fee or a floor is in halves and prices are      *)
(* whole (ONE = 1), so that shares, fees and floors all round.             *)
(***************************************************************************)
EXTENDS RedemptionVault

CONSTANTS ann, bob, vault, oper, issuer, p1, p2, fees

OneAccount == <<p1>>
TwoAccounts == <<p1, p2>>

Auto(fee, gate) ==
    [mode |-> "Auto", strike_at_send |-> FALSE, verifier |-> TRUE,
     gate |-> gate, fee_bps |-> fee,
     fee_recipient |-> IF fee = 0 THEN None ELSE fees, floor_bps |-> 0,
     destinations |-> {}]
Manual(strike) ==
    [mode |-> "Manual", strike_at_send |-> strike, verifier |-> TRUE,
     gate |-> FALSE, fee_bps |-> 0, fee_recipient |-> None, floor_bps |-> 1,
     destinations |-> {oper}]

AutoFee == Auto(1, FALSE)
AutoGated == [Auto(0, TRUE) EXCEPT !.strike_at_send = TRUE]
ManualStruck == Manual(TRUE)
ManualUnstruck == Manual(FALSE)

NoSettings == {}
ModeChanges == {ManualStruck, ManualUnstruck}

Start(annRwa, bobRwa, money, cash) ==
    [t \in {"rwa", "stable"} |-> [a \in Addresses |->
        CASE t = "rwa" /\ a = ann -> annRwa
          [] t = "rwa" /\ a = bob -> bobRwa
          [] t = "stable" /\ a = issuer -> money
          [] t = "stable" /\ a = oper -> cash
          [] OTHER -> 0]]

AutoStart == Start(1, 2, 2, 0)
ModesStart == Start(2, 1, 1, 3)
=============================================================================
