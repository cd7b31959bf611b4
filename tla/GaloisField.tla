---------------------------- MODULE GaloisField ----------------------------
(***************************************************************************)
(* Arithmetic of GF(2^Width).  An element is the set of its bits that are  *)
(* one, so that addition (^ in the code) is the symmetric difference.      *)
(***************************************************************************)
EXTENDS Integers, FiniteSetsExt

CONSTANTS
  Width,      \* 8 in the code
  Polynomial  \* the bits of PRIMITIVE_POLYNOMIAL, 0x11d = {0, 2, 3, 4, 8} in the code

Element == SUBSET (0 .. Width - 1)
ZeroElement == {}
One == {0}
Two == {1}

Plus(a, b) == SymDiff(a, b)

\* left ^= PRIMITIVE_POLYNOMIAL when it has grown a ninth bit.
Reduced(a) == IF Width \in a THEN Plus(a, Polynomial) ELSE a

Doubled(a) == Reduced({i + 1 : i \in a})

\* gf_mul adds a * 2^i for every bit i of b.
GfMul(a, b) ==
  LET shifted[i \in Nat] == IF i = 0 THEN a ELSE Doubled(shifted[i - 1])
  IN  FoldSet(LAMBDA i, sum : Plus(sum, shifted[i]), ZeroElement, b)

\* gf_pow squares and multiplies by the base where the exponent has a bit; the
\* product commutes, and with the square second TLC evaluates it first.
GfPow(base, exponent) ==
  LET power[n \in Nat] ==
        IF n = 0 THEN One
        ELSE LET root == power[n \div 2] square == GfMul(root, root)
             IN  IF n % 2 = 1 THEN GfMul(base, square) ELSE square
  IN  power[exponent]

\* gf_inv, for elements other than zero: 254 = 2^8 - 2.
GfInv(a) == GfPow(a, 2 ^ Width - 2)
=============================================================================
