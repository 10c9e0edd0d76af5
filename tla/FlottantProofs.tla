--------------------------- MODULE FlottantProofs ---------------------------
(***************************************************************************)
(* What rounding to nearest preserves, whatever the spacing of the format: *)
(* the lemmas on floats that the proofs about the loader, the draw and the *)
(* comparison of ratios rest on.                                           *)
(***************************************************************************)
EXTENDS Flottant, TLAPS

(* Multiplication by a positive number reflects the order.                 *)
LEMMA ProduitOrdonne ==
  ASSUME NEW a \in Nat, NEW b \in Nat, NEW p \in Nat \ {0}
  PROVE  /\ a <= b => a * p <= b * p
         /\ a < b => a * p + p <= b * p
<1>1. ASSUME a <= b
      PROVE  a * p <= b * p
  <2>1. PICK k \in Nat : b = a + k
    BY <1>1
  <2>2. b * p = a * p + k * p /\ k * p \in Nat
    BY <2>1
  <2>3. QED
    BY <2>2
<1>2. ASSUME a < b
      PROVE  a * p + p <= b * p
  <2>1. PICK k \in Nat : b = a + 1 + k
    BY <1>2
  <2>2. b * p = a * p + p + k * p /\ k * p \in Nat
    BY <2>1
  <2>3. QED
    BY <2>2
<1>3. QED
  BY <1>1, <1>2

(* Rounding to nearest does not cross a float: if m spacings are a float,  *)
(* a number on one side of it is rounded to the same side.                 *)
LEMMA ArrondiMonotone ==
  ASSUME NEW d \in Nat \ {0}, NEW n \in Nat, Ulp(n \div d) \in Nat \ {0},
         NEW m \in Nat
  PROVE  LET u == Ulp(n \div d) IN
         /\ Arrondi(d)[n] \in Nat
         /\ n <= m * u * d => Arrondi(d)[n] <= m * u
         /\ m * u * d <= n => m * u <= Arrondi(d)[n]
<1> DEFINE u   == Ulp(n \div d)
           pas == d * u
           q   == n \div pas
           r   == n % pas
           h   == 2 * r > pas \/ (2 * r = pas /\ q % 2 = 1)
<1>1. u \in Nat \ {0}
  OBVIOUS
<1>2. Arrondi(d)[n] = (IF h THEN q + 1 ELSE q) * u
  BY DEF Arrondi
<1> HIDE DEF u
<1>3. pas \in Nat \ {0} /\ m * u * d = m * pas
  BY <1>1
<1> HIDE DEF pas
<1>4. q \in Nat /\ r \in 0 .. pas - 1 /\ n = q * pas + r
  BY <1>3
<1> HIDE DEF q, r
<1> DEFINE A == Arrondi(d)[n]
<1>5. (q + 1) * u = q * u + u /\ q * u \in Nat
  BY <1>1, <1>4
<1>6. A \in Nat /\ q * u <= A /\ A <= q * u + u /\ (~ h => A = q * u)
  BY <1>1, <1>2, <1>5
<1> HIDE DEF A
<1>7. ASSUME n <= m * pas
      PROVE  A <= m * u
  <2>1. CASE q < m
    <3>1. q * u + u <= m * u /\ m * u \in Nat
      BY <1>1, <1>4, <2>1, ProduitOrdonne
    <3>2. QED
      BY <1>1, <1>5, <1>6, <3>1
  <2>2. CASE q = m
    <3>1. n <= q * pas
      BY <1>7, <2>2
    <3>2. r = 0
      <4> DEFINE x == q * pas
      <4>1. x \in Nat /\ n <= x /\ n = x + r
        BY <1>3, <1>4, <3>1
      <4> HIDE DEF x
      <4>2. QED
        BY <1>3, <1>4, <4>1
    <3>3. ~ h
      BY <1>3, <3>2
    <3>4. QED
      BY <1>5, <1>6, <2>2, <3>3
  <2>3. CASE m < q
    <3> DEFINE x == m * pas
               y == q * pas
    <3>1. x \in Nat /\ y \in Nat /\ x + pas <= y /\ n <= x /\ n = y + r
      BY <1>3, <1>4, <1>7, <2>3, ProduitOrdonne
    <3> HIDE DEF x, y
    <3>2. QED
      BY <1>3, <1>4, <3>1
  <2>4. QED
    BY <1>4, <2>1, <2>2, <2>3
<1>8. ASSUME m * pas <= n
      PROVE  m * u <= A
  <2>1. CASE q < m
    <3> DEFINE x == m * pas
               y == q * pas
    <3>1. x \in Nat /\ y \in Nat /\ y + pas <= x /\ x <= n /\ n = y + r
      BY <1>3, <1>4, <1>8, <2>1, ProduitOrdonne
    <3> HIDE DEF x, y
    <3>2. QED
      BY <1>3, <1>4, <3>1
  <2>2. CASE m <= q
    <3>1. m * u <= q * u /\ m * u \in Nat
      BY <1>1, <1>4, <2>2, ProduitOrdonne
    <3> DEFINE x == m * u
               y == q * u
    <3>2. x \in Nat /\ y \in Nat /\ x <= y /\ y <= A
      BY <1>5, <1>6, <3>1
    <3> HIDE DEF x, y
    <3>3. x <= A
      BY <1>6, <3>2
    <3>4. QED
      BY <3>3 DEF x
  <2>3. QED
    BY <1>4, <2>1, <2>2
<1>9. /\ A \in Nat
      /\ n <= m * u * d => A <= m * u
      /\ m * u * d <= n => m * u <= A
  BY <1>3, <1>6, <1>7, <1>8
<1>10. QED
  BY <1>9 DEF A, u

(* Rounding moves a number by at most half the spacing around it.          *)
LEMMA ArrondiErreur ==
  ASSUME NEW d \in Nat \ {0}, NEW n \in Nat, Ulp(n \div d) \in Nat \ {0}
  PROVE  LET A == Arrondi(d)[n]
             u == Ulp(n \div d)
         IN  /\ A \in Nat
             /\ 2 * (A * d) <= 2 * n + d * u
             /\ 2 * n <= 2 * (A * d) + d * u
<1> DEFINE u   == Ulp(n \div d)
           pas == d * u
           q   == n \div pas
           r   == n % pas
           h   == 2 * r > pas \/ (2 * r = pas /\ q % 2 = 1)
           A   == Arrondi(d)[n]
<1>1. u \in Nat \ {0}
  OBVIOUS
<1>2. A = (IF h THEN q + 1 ELSE q) * u
  BY DEF Arrondi
<1> HIDE DEF u, A
<1>3. pas \in Nat \ {0}
  BY <1>1
<1> HIDE DEF pas
<1>4. q \in Nat /\ r \in 0 .. pas - 1 /\ n = q * pas + r
  BY <1>3
<1> HIDE DEF q, r
<1> DEFINE x == q * pas
<1>5. x \in Nat /\ (q * u) * d = x /\ ((q + 1) * u) * d = x + pas
  BY <1>1, <1>4 DEF pas
<1>6. A \in Nat /\ A * d = IF h THEN x + pas ELSE x
  BY <1>1, <1>2, <1>4, <1>5
<1>7. n = x + r
  BY <1>4
<1> HIDE DEF x
<1> DEFINE y == A * d
<1>8. /\ y \in Nat
      /\ 2 * r > pas \/ 2 * r = pas => y = x + pas \/ y = x
      /\ 2 * r > pas => y = x + pas
      /\ 2 * r < pas => y = x
  BY <1>3, <1>4, <1>5, <1>6
<1> HIDE DEF y
<1>9. 2 * y <= 2 * n + pas /\ 2 * n <= 2 * y + pas
  BY <1>3, <1>4, <1>5, <1>7, <1>8
<1>10. QED
  BY <1>6, <1>9 DEF y, pas, u, A

(* m/a and n/b are the same number.                                        *)
MemeFraction(m, a, n, b) == m * b = n * a

(* Two fractions that are equal have the same integer part.                *)
LEMMA DivisionProportionnelle ==
  ASSUME NEW m \in Nat, NEW n \in Nat, NEW a \in Nat \ {0},
         NEW b \in Nat \ {0}, MemeFraction(m, a, n, b)
  PROVE  m \div a = n \div b
<1> DEFINE q == m \div a
           r == m % a
           k == n \div b
           s == n % b
<1>1. q \in Nat /\ r \in 0 .. a - 1 /\ m = q * a + r
  OBVIOUS
<1>2. k \in Nat /\ s \in 0 .. b - 1 /\ n = k * b + s
  OBVIOUS
<1> HIDE DEF q, r, k, s
<1> DEFINE p == a * b
<1>3. p \in Nat \ {0} /\ r * b + b <= p /\ s * a + a <= p
      /\ r * b \in Nat /\ s * a \in Nat
  <2>1. r \in Nat /\ s \in Nat /\ r < a /\ s < b /\ a * b = b * a
    BY <1>1, <1>2
  <2>2. r * b + b <= a * b /\ s * a + a <= b * a
    BY <2>1, ProduitOrdonne
  <2>3. QED
    BY <2>1, <2>2
<1>4. q * p + r * b = k * p + s * a
  <2>1. m * b = q * p + r * b
    BY <1>1
  <2>2. n * a = k * p + s * a
    BY <1>2
  <2>3. QED
    BY <2>1, <2>2 DEF MemeFraction
<1> HIDE DEF p
<1>5. q = k
  <2> DEFINE x == q * p
             y == k * p
             v == r * b
             w == s * a
  <2>1. /\ x \in Nat /\ y \in Nat /\ v \in Nat /\ w \in Nat
        /\ v < p /\ w < p /\ x + v = y + w
    BY <1>1, <1>2, <1>3, <1>4
  <2>2. /\ q < k => x + p <= y
        /\ k < q => y + p <= x
    BY <1>1, <1>2, <1>3, ProduitOrdonne
  <2> HIDE DEF x, y, v, w
  <2>3. ~ (q < k) /\ ~ (k < q)
    BY <1>3, <2>1, <2>2
  <2>4. QED
    BY <1>1, <1>2, <2>3
<1>6. QED
  BY <1>5 DEF q, k

(* Rounding depends on the number alone, not on the fraction that gives it.*)
LEMMA ArrondiFraction ==
  ASSUME NEW m \in Nat, NEW n \in Nat, NEW a \in Nat \ {0},
         NEW b \in Nat \ {0}, MemeFraction(m, a, n, b),
         Ulp(n \div b) \in Nat \ {0}
  PROVE  Arrondi(a)[m] = Arrondi(b)[n]
<1> DEFINE u == Ulp(n \div b)
           P == a * u
           Q == b * u
           r == m % P
           s == n % Q
<1>1. m \div a = n \div b
  BY DivisionProportionnelle
<1>2. u \in Nat \ {0}
  OBVIOUS
<1>3. /\ Arrondi(a)[m] =
           (IF 2 * r > P \/ (2 * r = P /\ (m \div P) % 2 = 1)
            THEN m \div P + 1 ELSE m \div P) * u
      /\ Arrondi(b)[n] =
           (IF 2 * s > Q \/ (2 * s = Q /\ (n \div Q) % 2 = 1)
            THEN n \div Q + 1 ELSE n \div Q) * u
  BY <1>1 DEF Arrondi
<1> HIDE DEF u
<1>4. P \in Nat \ {0} /\ Q \in Nat \ {0} /\ m * Q = n * P
  <2>1. m * Q = (m * b) * u /\ n * P = (n * a) * u
    BY <1>2
  <2>2. QED
    BY <1>2, <2>1 DEF MemeFraction
<1> HIDE DEF P, Q
<1> DEFINE q == m \div P
<1>5. q = n \div Q
  <2>1. MemeFraction(m, P, n, Q)
    BY <1>4 DEF MemeFraction
  <2>2. QED
    BY <1>4, <2>1, DivisionProportionnelle
<1>6. /\ r \in Nat /\ s \in Nat /\ q \in Nat
      /\ m = q * P + r /\ n = q * Q + s
  BY <1>4, <1>5
<1> HIDE DEF q, r, s
<1>7. /\ 2 * r > P <=> 2 * s > Q
      /\ 2 * r = P <=> 2 * s = Q
  <2> DEFINE x == (2 * r) * Q
             y == P * Q
             z == (2 * s) * P
  <2>1. x \in Nat /\ y \in Nat /\ z \in Nat /\ y = Q * P
    BY <1>4, <1>6
  <2>2. x = z
    <3>1. x = 2 * (r * Q) /\ z = 2 * (s * P)
      BY <1>4, <1>6
    <3>2. m * Q = q * (P * Q) + r * Q /\ n * P = q * (P * Q) + s * P
      BY <1>4, <1>6
    <3>3. r * Q = s * P
      BY <1>4, <1>6, <3>2
    <3>4. QED
      BY <3>1, <3>3
  <2>3. /\ 2 * r < P => x + Q <= y
        /\ P < 2 * r => y + Q <= x
    BY <1>4, <1>6, ProduitOrdonne
  <2>4. /\ 2 * s < Q => z + P <= y
        /\ Q < 2 * s => y + P <= z
    BY <1>4, <1>6, <2>1, ProduitOrdonne
  <2>5. (2 * r = P => x = y) /\ (2 * s = Q => z = y)
    BY <2>1
  <2> HIDE DEF x, y, z
  <2>6. QED
    BY <1>4, <1>6, <2>1, <2>2, <2>3, <2>4, <2>5
<1>8. QED
  BY <1>3, <1>5, <1>7 DEF q

(* The quotient is the only number that leaves a remainder.                *)
LEMMA QuotientUnique ==
  ASSUME NEW n \in Nat, NEW p \in Nat \ {0}, NEW q \in Nat,
         NEW r \in 0 .. p - 1, n = q * p + r
  PROVE  n \div p = q /\ n % p = r
<1> DEFINE k == n \div p
           s == n % p
<1>1. k \in Nat /\ s \in 0 .. p - 1 /\ n = k * p + s
  OBVIOUS
<1> HIDE DEF k, s
<1> DEFINE x == q * p
           y == k * p
<1>2. x \in Nat /\ y \in Nat /\ x + r = y + s
  BY <1>1
<1>3. /\ q < k => x + p <= y
      /\ k < q => y + p <= x
  BY <1>1, ProduitOrdonne
<1> HIDE DEF x, y
<1>4. q = k
  BY <1>1, <1>2, <1>3
<1>5. r = s
  BY <1>1, <1>2, <1>4 DEF x, y
<1>6. QED
  BY <1>4, <1>5 DEF k, s

(* What rounding gives is a number of the format.                          *)
LEMMA ArrondiFlottant ==
  ASSUME FormatRegulier, NEW d \in Nat \ {0}, NEW n \in Nat
  PROVE  EstFlottant(Arrondi(d)[n])
<1> DEFINE k   == n \div d
           u   == Ulp(k)
           pas == d * u
           q   == k \div u
           h   == 2 * (n % pas) > pas
                  \/ (2 * (n % pas) = pas /\ (n \div pas) % 2 = 1)
<1>1. k \in Nat /\ n % d \in 0 .. d - 1 /\ n = k * d + (n % d)
  OBVIOUS
<1>2. /\ u \in Nat \ {0}
      /\ EstFlottant(q * u) /\ EstFlottant((q + 1) * u)
  BY <1>1 DEF FormatRegulier, Regulier
<1>3. Arrondi(d)[n] =
        (IF h THEN n \div pas + 1 ELSE n \div pas) * u
  BY DEF Arrondi
<1> HIDE DEF k, u
<1>4. q \in Nat /\ k % u \in 0 .. u - 1 /\ k = q * u + (k % u)
  BY <1>1, <1>2
<1> HIDE DEF q
<1>5. n \div pas = q
  <2> DEFINE r == n % d
             s == k % u
             z == s * d + r
  <2>1. r \in 0 .. d - 1 /\ s \in 0 .. u - 1
    BY <1>1, <1>4
  <2>2. n = k * d + r /\ k = q * u + s
    BY <1>1, <1>4
  <2> HIDE DEF r, s
  <2>3. n = q * pas + z
    BY <1>2, <1>4, <2>1, <2>2
  <2>4. s * d + d <= u * d /\ s * d \in Nat /\ pas = u * d
        /\ pas \in Nat \ {0}
    BY <1>2, <2>1, ProduitOrdonne
  <2>5. z \in 0 .. pas - 1
    BY <2>1, <2>4
  <2> HIDE DEF z, pas
  <2>6. QED
    BY <1>4, <2>3, <2>4, <2>5, QuotientUnique
<1> HIDE DEF h, pas
<1>6. QED
  BY <1>2, <1>3, <1>5

(* Rounding leaves the numbers of the format as they are.                  *)
LEMMA ArrondiExact ==
  ASSUME FormatRegulier, NEW x, EstFlottant(x)
  PROVE  Arrondi(1)[x] = x
<1> DEFINE u == Ulp(x)
<1>1. x \in Nat /\ u \in Nat \ {0} /\ x % u = 0
  BY DEF FormatRegulier, Regulier, EstFlottant
<1>2. x \div 1 = x /\ 1 * u = u
  BY <1>1
<1>3. Arrondi(1)[x] =
        (IF 2 * (x % u) > u \/ (2 * (x % u) = u /\ (x \div u) % 2 = 1)
         THEN x \div u + 1 ELSE x \div u) * u
  BY <1>1, <1>2 DEF Arrondi
<1> HIDE DEF u
<1>4. Arrondi(1)[x] = (x \div u) * u
  BY <1>1, <1>3
<1>5. QED
  BY <1>1, <1>4

(* A fraction that is not beyond p/q when it is rounded is not beyond it,  *)
(* if the spacing is finer than the difference the denominators allow.     *)
LEMMA ArrondiBornes ==
  ASSUME NEW n \in Nat, NEW d \in Nat \ {0}, Unite \in Nat \ {0},
         Ulp((n * Unite) \div d) \in Nat \ {0},
         NEW p \in Nat, NEW q \in Nat \ {0},
         q * (d * Ulp((n * Unite) \div d)) < 2 * Unite
  PROVE  LET A == Arrondi(d)[n * Unite] IN
         /\ p * Unite <= q * A => p * d <= n * q
         /\ q * A <= p * Unite => n * q <= p * d
<1> DEFINE m == n * Unite
           u == Ulp(m \div d)
           A == Arrondi(d)[m]
           e == d * u
           f == q * e
           X == (q * A) * d
           Y == (n * q) * Unite
           Z == (p * d) * Unite
<1>1. m \in Nat /\ u \in Nat \ {0} /\ e \in Nat /\ f \in Nat /\ f < 2 * Unite
  <2>1. m \in Nat /\ u \in Nat \ {0}
    OBVIOUS
  <2> HIDE DEF u
  <2>2. e \in Nat /\ f \in Nat
    BY <2>1
  <2>3. QED
    BY <2>1, <2>2 DEF u
<1>2. A \in Nat /\ 2 * (A * d) <= 2 * m + e /\ 2 * m <= 2 * (A * d) + e
  <2> HIDE DEF m
  <2>1. QED
    BY <1>1, ArrondiErreur
<1> HIDE DEF u, A, e
<1>3. /\ X \in Nat /\ Y \in Nat /\ Z \in Nat /\ q * A \in Nat /\ p * Unite \in Nat
      /\ (p * Unite) * d = Z /\ n * q \in Nat /\ p * d \in Nat
  BY <1>2
<1>4. 2 * X <= 2 * Y + f /\ 2 * Y <= 2 * X + f
  <2> DEFINE x == A * d
  <2>1. x \in Nat /\ 2 * x <= 2 * m + e /\ 2 * m <= 2 * x + e
    BY <1>2
  <2>2. (2 * x) * q = 2 * X /\ (2 * m) * q = 2 * Y
    BY <1>2
  <2> HIDE DEF x, m
  <2>3. /\ (2 * x) * q <= (2 * m + e) * q /\ (2 * m) * q <= (2 * x + e) * q
    BY <1>1, <2>1, ProduitOrdonne
  <2>4. /\ (2 * m + e) * q = (2 * m) * q + f
        /\ (2 * x + e) * q = (2 * x) * q + f
    BY <1>1, <2>1
  <2>5. QED
    BY <2>2, <2>3, <2>4
<1>5. ASSUME NEW a \in Nat, NEW b \in Nat, a * Unite < b * Unite + Unite
      PROVE  a <= b
  <2>1. SUFFICES ASSUME b < a PROVE FALSE
    BY <1>5
  <2>2. b * Unite + Unite <= a * Unite
    BY <2>1, ProduitOrdonne
  <2> DEFINE x == a * Unite
             y == b * Unite
  <2>3. x \in Nat /\ y \in Nat /\ y + Unite <= x /\ x < y + Unite
    BY <1>5, <2>2
  <2> HIDE DEF x, y
  <2>4. QED
    BY <2>3
<1>6. ASSUME p * Unite <= q * A PROVE p * d <= n * q
  <2>1. Z <= X
    BY <1>3, <1>6, ProduitOrdonne
  <2>2. Z < Y + Unite
    <3> HIDE DEF X, Y, Z, f
    <3>1. QED
      BY <1>1, <1>3, <1>4, <2>1
  <2>3. QED
    BY <1>3, <1>5, <2>2
<1>7. ASSUME q * A <= p * Unite PROVE n * q <= p * d
  <2>1. X <= Z
    BY <1>3, <1>7, ProduitOrdonne
  <2>2. Y < Z + Unite
    <3> HIDE DEF X, Y, Z, f
    <3>1. QED
      BY <1>1, <1>3, <1>4, <2>1
  <2>3. QED
    BY <1>3, <1>5, <2>2
<1>8. QED
  BY <1>6, <1>7 DEF A

(* a/b and c/d, of small denominators for the spacing, are rounded to the  *)
(* same float.                                                             *)
MemeArrondi(a, b, c, d) ==
  /\ Ulp((a * Unite) \div b) \in Nat \ {0}
  /\ Ulp((c * Unite) \div d) \in Nat \ {0}
  /\ b * d * (Ulp((a * Unite) \div b) + Ulp((c * Unite) \div d)) < 2 * Unite
  /\ Arrondi(b)[a * Unite] = Arrondi(d)[c * Unite]

(* Two such ratios are equal.                                              *)
LEMMA RatiosEgaux ==
  ASSUME NEW a \in Nat, NEW b \in Nat \ {0}, NEW c \in Nat, NEW d \in Nat \ {0},
         Unite \in Nat \ {0}, MemeArrondi(a, b, c, d)
  PROVE  MemeFraction(a, b, c, d)
<1> DEFINE m == a * Unite
           n == c * Unite
           u == Ulp(m \div b)
           v == Ulp(n \div d)
           A == Arrondi(b)[m]
<1>1. m \in Nat /\ n \in Nat /\ u \in Nat \ {0} /\ v \in Nat \ {0}
  BY DEF MemeArrondi
<1>2. /\ A \in Nat /\ 2 * (A * b) <= 2 * m + b * u /\ 2 * m <= 2 * (A * b) + b * u
      /\ 2 * (A * d) <= 2 * n + d * v /\ 2 * n <= 2 * (A * d) + d * v
  <2>1. A = Arrondi(d)[n]
    BY DEF MemeArrondi
  <2>2. 2 * (A * b) <= 2 * m + b * u /\ 2 * m <= 2 * (A * b) + b * u /\ A \in Nat
    <3> HIDE DEF m, n
    <3>1. QED
      BY <1>1, ArrondiErreur
  <2>3. /\ 2 * (Arrondi(d)[n] * d) <= 2 * n + d * v
        /\ 2 * n <= 2 * (Arrondi(d)[n] * d) + d * v
    <3> HIDE DEF m, n, A
    <3>1. QED
      BY <1>1, ArrondiErreur
  <2> HIDE DEF A, m, n, u, v
  <2>4. QED
    BY <2>1, <2>2, <2>3
<1>3. b * d * (u + v) < 2 * Unite
  BY DEF MemeArrondi
<1> HIDE DEF u, v, A
<1> DEFINE e == (b * u) * d
           f == (d * v) * b
           X == (A * b) * d
           Y == (a * d) * Unite
           Z == (c * b) * Unite
<1>4. /\ e \in Nat /\ f \in Nat /\ X \in Nat /\ Y \in Nat /\ Z \in Nat
      /\ b * d * (u + v) = e + f /\ a * d \in Nat /\ c * b \in Nat
  BY <1>1, <1>2
<1>5. 2 * X <= 2 * Y + e /\ 2 * Y <= 2 * X + e
  <2> DEFINE x == A * b
             g == b * u
  <2>1. x \in Nat /\ g \in Nat /\ 2 * x <= 2 * m + g /\ 2 * m <= 2 * x + g
    BY <1>1, <1>2
  <2>2. (2 * x) * d = 2 * X /\ (2 * m) * d = 2 * Y /\ g * d = e
    BY <1>2
  <2> HIDE DEF x, g, m
  <2>3. (2 * x) * d <= (2 * m + g) * d /\ (2 * m) * d <= (2 * x + g) * d
    BY <1>1, <2>1, ProduitOrdonne
  <2>4. /\ (2 * m + g) * d = (2 * m) * d + g * d
        /\ (2 * x + g) * d = (2 * x) * d + g * d
    BY <1>1, <2>1
  <2>5. QED
    BY <2>2, <2>3, <2>4
<1>6. 2 * X <= 2 * Z + f /\ 2 * Z <= 2 * X + f
  <2> DEFINE x == A * d
             g == d * v
  <2>1. x \in Nat /\ g \in Nat /\ 2 * x <= 2 * n + g /\ 2 * n <= 2 * x + g
    BY <1>1, <1>2
  <2>2. (2 * x) * b = 2 * X /\ (2 * n) * b = 2 * Z /\ g * b = f
    BY <1>2
  <2> HIDE DEF x, g, n
  <2>3. (2 * x) * b <= (2 * n + g) * b /\ (2 * n) * b <= (2 * x + g) * b
    BY <1>1, <2>1, ProduitOrdonne
  <2>4. /\ (2 * n + g) * b = (2 * n) * b + g * b
        /\ (2 * x + g) * b = (2 * x) * b + g * b
    BY <1>1, <2>1
  <2>5. QED
    BY <2>2, <2>3, <2>4
<1>7. Y < Z + Unite /\ Z < Y + Unite
  <2>1. e + f < 2 * Unite
    BY <1>3, <1>4
  <2> HIDE DEF e, f, X, Y, Z
  <2>2. QED
    BY <1>4, <1>5, <1>6, <2>1
<1>8. ASSUME NEW x \in Nat, NEW y \in Nat, x < y
      PROVE  x * Unite + Unite <= y * Unite
  BY <1>8, ProduitOrdonne
<1>9. ~ (a * d < c * b) /\ ~ (c * b < a * d)
  <2>1. ASSUME a * d < c * b PROVE FALSE
    <3>1. Y + Unite <= Z
      BY <1>4, <1>8, <2>1
    <3> HIDE DEF Y, Z
    <3>2. QED
      BY <1>4, <1>7, <3>1
  <2>2. ASSUME c * b < a * d PROVE FALSE
    <3>1. Z + Unite <= Y
      BY <1>4, <1>8, <2>2
    <3> HIDE DEF Y, Z
    <3>2. QED
      BY <1>4, <1>7, <3>1
  <2>3. QED
    BY <2>1, <2>2
<1> DEFINE x == a * d
           y == c * b
<1>10. x = y
  <2> HIDE DEF x, y
  <2>1. x \in Nat /\ y \in Nat /\ ~ (x < y) /\ ~ (y < x)
    BY <1>4, <1>9 DEF x, y
  <2>2. QED
    BY <2>1
<1>11. QED
  BY <1>10 DEF MemeFraction
=============================================================================
