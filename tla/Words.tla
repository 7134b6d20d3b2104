------------------------------- MODULE Words -------------------------------
(***************************************************************************)
(* Signed machine words.  The code works on the 32-bit int of C and of the *)
(* 'l' forms of the x86 instructions, and on the 8-bit registers that      *)
(* setcc writes; how many values they have are constants here.             *)
(***************************************************************************)
EXTENDS Integers

CONSTANTS WordHalf,  (* half the number of the values of an int: 2^31        *)
          ByteSize   (* the number of the values of setcc's byte: 2^8        *)

ASSUME WidthAssumption ==
  /\ WordHalf \in Nat /\ ByteSize \in Nat
  /\ 1 < ByteSize /\ ByteSize <= WordHalf

Modulus == 2 * WordHalf
MinInt  == -WordHalf
MaxInt  == WordHalf - 1
Word    == MinInt .. MaxInt

(* The word that is congruent to n. *)
Wrap(n) == ((n - MinInt) % Modulus) + MinInt

Bool(b) == IF b THEN 1 ELSE 0

Abs(n) == IF n < 0 THEN -n ELSE n

(* Division that truncates towards zero, as in C and in idiv. *)
Quotient(n, d) ==
  IF (n < 0) = (d < 0) THEN Abs(n) \div Abs(d) ELSE -(Abs(n) \div Abs(d))
Remainder(n, d) == n - d * Quotient(n, d)
=============================================================================
