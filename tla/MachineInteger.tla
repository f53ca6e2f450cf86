---------------------------- MODULE MachineInteger ----------------------------
(***************************************************************************)
(* The int64 of amounts and durations, with Word bits in place of 64: its  *)
(* ends are then within the reach of a check.                              *)
(***************************************************************************)
EXTENDS Integers

CONSTANT Word

ASSUME WordAssumption == Word \in Nat /\ Word > 8

MaxInt == 2 ^ (Word - 1) - 1
MinInt == -(2 ^ (Word - 1))

MachineIntegers == MinInt .. MaxInt

\* The machine integer an integer overflows to.
Signed(n) == ((n - MinInt) % (MaxInt - MinInt + 1)) + MinInt
=============================================================================
