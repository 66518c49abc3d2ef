----------------------------- MODULE CommonMath -----------------------------
(***************************************************************************)
(* The fixed-point arithmetic every contract prices with                   *)
(* (crates/common/src/math.rs).  The code multiplies in 256 bits and fails *)
(* when an operand is negative, the divisor is not positive or the         *)
(* quotient leaves i128; a failure reverts the whole transaction.          *)
(* Integers here are unbounded, so the quotient's overflow, which only     *)
(* ever disables a call, has no counterpart; a caller's guard says where   *)
(* an operand could be out of the domain.                                  *)
(***************************************************************************)
EXTENDS Integers

(* a x b / d rounded down.                                                 *)
MulDiv(a, b, d) == (a * b) \div d

(* a x b / d rounded up: the divisor less one is added before the divide.  *)
MulDivCeil(a, b, d) == (a * b + d - 1) \div d
=============================================================================
