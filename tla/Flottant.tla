------------------------------ MODULE Flottant ------------------------------
(***************************************************************************)
(* The C++ `float` arithmetic that the budgets go through.  A non-negative *)
(* float is a natural number of units of 1/Unite; the format is known only *)
(* by its spacing: Ulp(n) is the distance between two consecutive floats   *)
(* around n units (one unit where the format is exact, 2^-14 euro for a    *)
(* binary32 between 512 and 1024).  The operations round to nearest, ties  *)
(* to even, as IEEE 754 does.                                              *)
(***************************************************************************)
EXTENDS Integers

CONSTANTS
  Unite,     (* number of units in 1.0                                     *)
  Ulp(_)     (* spacing of the float format around a number of units       *)

(* Arrondi(d)[n] is the float nearest to the rational n/d (d > 0), in      *)
(* units.                                                                  *)
Arrondi(d) == [n \in Nat |->
  LET pas   == d * Ulp(n \div d)
      q     == n \div pas
      reste == n % pas
      haut  == 2 * reste > pas \/ (2 * reste = pas /\ q % 2 = 1)
  IN  (IF haut THEN q + 1 ELSE q) * Ulp(n \div d)]

Plus(a, b)  == Arrondi(1)[a + b]
Moins(a, b) == Arrondi(1)[a - b]

(* The numbers that the format holds, and what makes the spacing that of a *)
(* format: the two multiples of it around a number are held.               *)
EstFlottant(x) == x \in Nat /\ x % Ulp(x) = 0

Regulier(n) == LET u == Ulp(n)
                   q == n \div u
               IN  /\ u \in Nat \ {0}
                   /\ EstFlottant(q * u)
                   /\ EstFlottant((q + 1) * u)

FormatRegulier == \A n \in Nat : Regulier(n)

(* The spacing never decreases, and is the same at the multiple below.     *)
Croissant(n) == /\ Ulp(n) <= Ulp(n + 1)
                /\ Ulp((n \div Ulp(n)) * Ulp(n)) = Ulp(n)

FormatCroissant == \A n \in Nat : Croissant(n)

(* (int)x : the fractional part is dropped.                                *)
EnEntier(a) == a \div Unite
=============================================================================
