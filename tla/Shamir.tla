------------------------------- MODULE Shamir -------------------------------
(***************************************************************************)
(* Secret sharing over GF(256): services/shamir_service.py.  The field is  *)
(* that of the polynomial 0x11D, which the code tabulates.  A secret is a  *)
(* sequence of bytes that are shared independently of one another, so one  *)
(* byte stands for all of them; the random coefficients of the polynomials *)
(* are an argument.                                                        *)
(***************************************************************************)
EXTENDS Integers, Sequences, FiniteSets, SequencesExt

Byte == 0..255
Irreducible == 285    \* 0x11D
NoSecret == -1        \* an exception instead of a secret

-----------------------------------------------------------------------------
(* The field *)

\* a ^ b: the bits in which the two bytes differ.
Bit(x, i) == (x \div 2^i) % 2

GfAdd(a, b) ==
  LET differ(i) == 2^i * ((Bit(a, i) + Bit(b, i)) % 2)
  IN  differ(0) + differ(1) + differ(2) + differ(3) + differ(4) + differ(5) + differ(6) + differ(7)

\* x <<= 1, reduced when it leaves the byte.
Doubled(x) == IF x >= 128 THEN GfAdd(2 * x - 256, Irreducible - 256) ELSE 2 * x

\* _GF_EXP: the powers of the generator 2, and _GF_LOG, their logarithms.
PowersOfTwo ==
  <<
     1, 2, 4, 8, 16, 32, 64, 128, 29, 58, 116, 232, 205, 135, 19, 38, 76, 152,
     45, 90, 180, 117, 234, 201, 143, 3, 6, 12, 24, 48, 96, 192, 157, 39, 78,
     156, 37, 74, 148, 53, 106, 212, 181, 119, 238, 193, 159, 35, 70, 140, 5,
     10, 20, 40, 80, 160, 93, 186, 105, 210, 185, 111, 222, 161, 95, 190, 97,
     194, 153, 47, 94, 188, 101, 202, 137, 15, 30, 60, 120, 240, 253, 231, 211,
     187, 107, 214, 177, 127, 254, 225, 223, 163, 91, 182, 113, 226, 217, 175,
     67, 134, 17, 34, 68, 136, 13, 26, 52, 104, 208, 189, 103, 206, 129, 31, 62,
     124, 248, 237, 199, 147, 59, 118, 236, 197, 151, 51, 102, 204, 133, 23, 46,
     92, 184, 109, 218, 169, 79, 158, 33, 66, 132, 21, 42, 84, 168, 77, 154, 41,
     82, 164, 85, 170, 73, 146, 57, 114, 228, 213, 183, 115, 230, 209, 191, 99,
     198, 145, 63, 126, 252, 229, 215, 179, 123, 246, 241, 255, 227, 219, 171,
     75, 150, 49, 98, 196, 149, 55, 110, 220, 165, 87, 174, 65, 130, 25, 50,
     100, 200, 141, 7, 14, 28, 56, 112, 224, 221, 167, 83, 166, 81, 162, 89,
     178, 121, 242, 249, 239, 195, 155, 43, 86, 172, 69, 138, 9, 18, 36, 72,
     144, 61, 122, 244, 245, 247, 243, 251, 235, 203, 139, 11, 22, 44, 88, 176,
     125, 250, 233, 207, 131, 27, 54, 108, 216, 173, 71, 142
  >>

GfExp == [i \in 0..254 |-> PowersOfTwo[i + 1]]
GfLog == [x \in 1..255 |-> CHOOSE i \in 0..254 : GfExp[i] = x]

\* The table is the one _build_tables computes, and every byte but 0 is in it once.
ASSUME PowersAssumption ==
  /\ PowersOfTwo[1] = 1
  /\ \A i \in 1..254 : PowersOfTwo[i + 1] = Doubled(PowersOfTwo[i])
  /\ {PowersOfTwo[i] : i \in 1..255} = 1..255

GfMul(a, b) == IF a = 0 \/ b = 0 THEN 0 ELSE GfExp[(GfLog[a] + GfLog[b]) % 255]

\* The inverse of a; 0 has none.
GfInv(a) == GfExp[(255 - GfLog[a]) % 255]

-----------------------------------------------------------------------------
(* Splitting *)

\* x to the power e.
GfPow(x, e) == IF e = 0 THEN 1 ELSE IF x = 0 THEN 0 ELSE GfExp[(GfLog[x] * e) % 255]

Sum256(s) == FoldLeft(GfAdd, 0, s)
Product256(s) == FoldLeft(GfMul, 1, s)

EvalPoly(coeffs, x) == Sum256([i \in DOMAIN coeffs |-> GfMul(coeffs[i], GfPow(x, i - 1))])

SplitAllowed(n, k) == k >= 2 /\ n >= k /\ n <= 10

\* The share with index i of a secret byte; coeffs are the k - 1 random ones.
ShareOf(secret, coeffs, i) == EvalPoly(<<secret>> \o coeffs, i)

-----------------------------------------------------------------------------
(* Reconstruction from a sequence of <<index, byte>> entries *)

\* The basis polynomial of points[i], the product of (x - points[j]) over the
\* other j divided by its value at points[i], evaluated at x.
LagrangeCoefficient(x, points, i) ==
  LET factors(y) == [j \in DOMAIN points |-> IF j = i THEN 1 ELSE GfAdd(y, points[j])]
  IN  GfMul(Product256(factors(x)), GfInv(Product256(factors(points[i]))))

\* An index that occurs twice makes a denominator 0, which has no inverse.
ReconstructSecret(shares) ==
  LET points == [j \in DOMAIN shares |-> shares[j][1]]
  IN  IF Len(shares) < 2 \/ ~IsInjective(points)
      THEN NoSecret
      ELSE Sum256([j \in DOMAIN shares |-> GfMul(shares[j][2], LagrangeCoefficient(0, points, j))])
=============================================================================
