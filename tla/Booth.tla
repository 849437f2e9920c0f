------------------------------- MODULE Booth -------------------------------
(***************************************************************************)
(* Boot_alg/boot.cpp: Booth's multiplication, one bit of b a step.  The    *)
(* product is built twice: in the string c_str of 2*BITSIZE bits, whose    *)
(* lower half is b at first, and in the number c, which follows the upper  *)
(* half.  A half of the string is the number its bits spell.               *)
(***************************************************************************)
EXTENDS Integers

CONSTANTS
  BITSIZE,
  RangeBits    (* the bits of the operands that CheckRange admits          *)

ASSUME BoothAssumption ==
  BITSIZE \in Nat \ {0} /\ RangeBits \in Nat \ {0}

VARIABLES
  a, b,             \* the operands
  c, upper, lower,  \* c and the halves of c_str
  bit,              \* main's b_str: the bit shifted out last
  step              \* main's i

boothVars == <<a, b, c, upper, lower, bit, step>>

Half == 2 ^ BITSIZE
CheckRange == -(2 ^ (RangeBits - 1)) .. 2 ^ (RangeBits - 1) - 1

(* The last BITSIZE bits of a number, in two's complement. *)
Int2Bin(number) == number % Half

GetBegin(bits) == bits \div 2 ^ (BITSIZE - 1)
GetEnd(bits)   == bits % 2

(* The bit that b is extended with: main takes the sign of a.              *)
FirstBit(operand) == GetBegin(Int2Bin(operand))

BoothInit ==
  /\ a \in CheckRange /\ b \in CheckRange
  /\ c = 0 /\ upper = Int2Bin(0) /\ lower = Int2Bin(b)
  /\ bit = FirstBit(a)
  /\ step = 0
-----------------------------------------------------------------------------
Shifted_Logical(up) == up \div 2

(* The first bit is repeated. *)
Shifted(up) == up \div 2 + GetBegin(up) * 2 ^ (BITSIZE - 1)

Pro_SHIFT(sum, up) ==
  /\ c' = sum \div 2
  /\ upper' = Shifted(up)
  /\ lower' = lower \div 2 + GetEnd(up) * 2 ^ (BITSIZE - 1)

Summand_Swapped(pair) == CASE pair = <<0, 1>> -> -a [] pair = <<1, 0>> -> a [] OTHER -> 0

(* What the last bit of c_str and the bit before it ask for: ADD_A, SUB_A  *)
(* or the shift alone.                                                     *)
Summand(pair) == CASE pair = <<0, 1>> -> a [] pair = <<1, 0>> -> -a [] OTHER -> 0

(* Adding writes the new c over the upper half.                            *)
BoothStep ==
  /\ step < BITSIZE
  /\ LET last == GetEnd(lower)
         s == Summand(<<last, bit>>)
     IN  /\ Pro_SHIFT(c + s, IF last = bit THEN upper ELSE Int2Bin(c + s))
         /\ bit' = last
  /\ step' = step + 1
  /\ UNCHANGED <<a, b>>

BoothNext == BoothStep

BoothSpec == BoothInit /\ [][BoothNext]_boothVars
-----------------------------------------------------------------------------
Fits(operand) == -(2 ^ (BITSIZE - 1)) <= operand /\ operand < 2 ^ (BITSIZE - 1)

(* a and its negation can be held in BITSIZE bits, and b can; CheckRange   *)
(* asks for less.                                                          *)
Representable == Fits(a) /\ Fits(-a) /\ Fits(b)

(* The upper half of c_str is c in BITSIZE bits after every step, so the   *)
(* two columns that main prints agree: adding overwrites one half with     *)
(* the other representation, shifting changes both on their own            *)
(* (boot.cpp:87-124, 185-189).                                             *)
UpperHalfIsC == Fits(a) /\ Fits(-a) => upper = Int2Bin(c)

Product == upper * Half + lower

(* The result is that of multiplying by b and the bit it was extended      *)
(* with: a*b for a >= 0, but a*(b + 1) for a < 0, because that bit should  *)
(* be 0 and is the sign of a (boot.cpp:157, 172-182).                      *)
ProductOfExtended ==
  step = BITSIZE /\ Representable =>
    Product = (a * (IF a < 0 THEN b + 1 ELSE b)) % (Half * Half)

(* "Bin::... Dec::...": what main prints at the end are two notations of   *)
(* one number, the product, at least for operands that the strings can     *)
(* hold (boot.cpp:196).                                                    *)
BinIsDec == step = BITSIZE /\ Representable => Product = (a * b) % (Half * Half)
=============================================================================
