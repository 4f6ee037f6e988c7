----------------------------- MODULE TypedWords -----------------------------
(***************************************************************************)
(* The words that values of each type are kept in, and the arithmetic the  *)
(* parser and the evaluator do on them (compiler/frontend/frontend.c,      *)
(* compiler/ir/ir.c).                                                      *)
(*                                                                         *)
(* A word has Width bits (32 in the code); i16 and u16 use its Half low    *)
(* bits, i8 and u8 its Byte low bits.                                      *)
(***************************************************************************)
EXTENDS Integers, Sequences

CONSTANTS Width, Half, Byte

ASSUME SizesAssumption == /\ {Width, Half, Byte} \subseteq Nat \ {0}
                          /\ Byte < Half /\ Half < Width

Modulus == 2 ^ Width
Word == 0 .. Modulus - 1
SignBit == 2 ^ (Width - 1)

SignedTypes   == {"i32", "i16", "i8"}
UnsignedTypes == {"u16", "u8"}
IntegerTypes  == SignedTypes \cup UnsignedTypes
AddressTypes  == {"string"}
PoolTypes     == {"string", "symbol"}
Types         == IntegerTypes \cup {"bool"} \cup PoolTypes

BitsOf(type) == CASE type \in {"i8", "u8"}   -> Byte
                  [] type \in {"i16", "u16"} -> Half
                  [] OTHER                   -> Width

Wrap(n) == n % Modulus
Negated(w) == Wrap(0 - w)
Truth(test) == IF test THEN 1 ELSE 0

(* The number a word stands for, read as signed.                           *)
Signed(w) == IF w >= SignBit THEN w - Modulus ELSE w
-----------------------------------------------------------------------------
(* Mutant: the sign of an i16 is taken from the byte.                      *)
MutantNormalize(type, w) ==
    LET low  == w % 2 ^ BitsOf(type)
        sign == IF type = "i16" THEN 2 ^ (Byte - 1)
                ELSE 2 ^ (BitsOf(type) - 1)
    IN  IF type \in SignedTypes /\ low \div sign % 2 = 1
        THEN low + (Modulus - 2 ^ BitsOf(type)) ELSE low

(* miga80_normalize_integer: the low bits, sign-extended for signed types. *)
Normalize(type, w) ==
    LET low == w % 2 ^ BitsOf(type)
    IN  IF type \in SignedTypes /\ low >= 2 ^ (BitsOf(type) - 1)
        THEN low + (Modulus - 2 ^ BitsOf(type)) ELSE low

Canonical(type, w) ==
    IF type = "bool" THEN w \in {0, 1} ELSE Normalize(type, w) = w

(* constant_fits_type                                                      *)
Fits(type, w) ==
    CASE type \in UnsignedTypes -> w < 2 ^ BitsOf(type)
      [] type \in SignedTypes   -> \/ w < 2 ^ (BitsOf(type) - 1)
                                   \/ w >= Modulus - 2 ^ (BitsOf(type) - 1)

(* miga80_divide_i32, on magnitudes: truncation toward zero, and the least *)
(* word divided by -1 is itself.                                           *)
Divide(a, b) ==
    LET magnitude(w) == IF w >= SignBit THEN Negated(w) ELSE w
        quotient == magnitude(a) \div magnitude(b)
    IN  IF (a >= SignBit) # (b >= SignBit) THEN Negated(quotient)
        ELSE quotient

(* The order of signed words is that of the words with the sign flipped.   *)
Flip(w) == Wrap(w + SignBit)
-----------------------------------------------------------------------------
Divisions   == {"div", "div_u"}
Arithmetic  == {"add", "sub", "mul"} \cup Divisions
Equalities  == {"eq", "ne"}
Comparisons == Equalities \cup {"lt", "le", "gt", "ge",
                                "lt_u", "le_u", "gt_u", "ge_u"}

Faults(op, b) == op \in Divisions /\ b = 0

(* A binary operation on operands of a type (miga80_evaluate_ir); results  *)
(* of arithmetic are brought back to the type.                             *)
Apply(op, type, a, b) ==
    CASE op = "add"   -> Normalize(type, Wrap(a + b))
      [] op = "sub"   -> Normalize(type, Wrap(a - b))
      [] op = "mul"   -> Normalize(type, Wrap(a * b))
      [] op = "div"   -> Normalize(type, Divide(a, b))
      [] op = "div_u" -> Normalize(type, a \div b)
      [] op = "eq"    -> Truth(a = b)
      [] op = "ne"    -> Truth(a # b)
      [] op = "lt"    -> Truth(Flip(a) < Flip(b))
      [] op = "le"    -> Truth(Flip(a) <= Flip(b))
      [] op = "gt"    -> Truth(Flip(a) > Flip(b))
      [] op = "ge"    -> Truth(Flip(a) >= Flip(b))
      [] op = "lt_u"  -> Truth(a < b)
      [] op = "le_u"  -> Truth(a <= b)
      [] op = "gt_u"  -> Truth(a > b)
      [] op = "ge_u"  -> Truth(a >= b)
=============================================================================
