------------------------------ MODULE DefiDec ------------------------------
(***************************************************************************)
(* The fixed-point decimals the defi keeper computes with (sdk.Dec and     *)
(* sdk.DecCoins of the cosmos-sdk).  A Dec x is the integer x * DecOne,    *)
(* DecOne = 10^Precision; the chain uses Precision 18, the models use a    *)
(* small one so that every rounding step of the keeper is visible.  Only   *)
(* non-negative operands reach these operators in the keeper, so Go's      *)
(* truncating division and TLA+'s \div agree.                              *)
(* A DecCoins value of the keeper holds one denomination here and is a     *)
(* single Dec; the empty DecCoins is 0.                                    *)
(***************************************************************************)
EXTENDS Integers

CONSTANT Precision

ASSUME Precision \in Nat

DecOne == 10 ^ Precision

\* The smallest positive Dec, sdk.SmallestDec().
SmallestDec == 1

\* sdk.Int -> sdk.Dec.
ToDec(i) == i * DecOne

\* Dec.TruncateInt: drop the fractional digits.
TruncateInt(d) == d \div DecOne

\* chopPrecisionAndRound: drop Precision digits, rounding half to even.
ChopRound(x) ==
    LET q == x \div DecOne
        r == x % DecOne
    IN  CASE 2 * r < DecOne -> q
          [] 2 * r > DecOne -> q + 1
          [] OTHER          -> IF q % 2 = 0 THEN q ELSE q + 1

\* Dec.MulInt and Dec.QuoInt (big.Int multiply and truncating divide).
MulInt(d, i) == d * i
QuoInt(d, i) == d \div i

\* Dec.Mul rounds, Dec.MulTruncate truncates.
Mul(a, b)         == ChopRound(a * b)
MulTruncate(a, b) == (a * b) \div DecOne

\* Dec.Quo multiplies by the precision twice, truncates the quotient, then
\* chops one precision with rounding; Dec.QuoTruncate truncates throughout.
Quo(a, b)         == ChopRound((a * DecOne * DecOne) \div b)
QuoTruncate(a, b) == (a * DecOne) \div b

\* DecCoins.TruncateDecimal: the whole coins and the change left over.
TruncateDecimal(d) == [coins |-> TruncateInt(d), change |-> d - ToDec(TruncateInt(d))]

\* DecCoins.Intersect keeps the smaller amount of each denomination.
Intersect(a, b) == IF a <= b THEN a ELSE b

=============================================================================
