---------------------------- MODULE TirageProofs ----------------------------
(***************************************************************************)
(* The draw, for vectors of any length and any regular float format: the   *)
(* loops of RandomSelectCampagne return what Tirage says, and never a      *)
(* campaign without money after the first place.                           *)
(*                                                                         *)
(* Tirage defines sums and probabilities by recursive functions.  That     *)
(* they exist is proved by the least-number principle (WFMin), since the   *)
(* induction theorems of the library have an operator parameter; what they *)
(* compute then follows the loops, by the invariant.                       *)
(***************************************************************************)
EXTENDS RandomSelectCampagne, FlottantProofs, WellFoundedInduction

LEMMA PlusPetit ==
  ASSUME NEW T \in SUBSET Nat, T # {}
  PROVE  \E x \in T : \A y \in T : x <= y
<1> DEFINE R == {ss \in Nat \X Nat : ss[1] < ss[2]}
<1>1. IsWellFoundedOn(R, Nat)
  BY NatLessThanWellFounded DEF OpToRel
<1>2. \A x, y \in Nat : << y, x >> \in R <=> y < x
  OBVIOUS
<1> HIDE DEF R
<1>3. PICK x \in T : \A y \in T : ~ (<< y, x >> \in R)
  BY <1>1, WFMin
<1>4. ASSUME NEW y \in T
      PROVE  x <= y
  <2>1. x \in Nat /\ y \in Nat /\ ~ (<< y, x >> \in R)
    BY <1>3
  <2>2. QED
    BY <1>2, <2>1
<1>5. QED
  BY <1>4

(* A recursion by one step over an interval has a solution.                *)
Suite(f, m, n, v, g) ==
  f = [j \in m .. n |-> IF j = m THEN v ELSE g[<< j, f[j - 1] >>]]

LEMMA SuiteExiste ==
  ASSUME NEW m \in Nat, NEW n \in Nat, NEW S, NEW v \in S,
         NEW g \in [(m .. n) \X S -> S], m <= n
  PROVE  \E f \in [m .. n -> S] : Suite(f, m, n, v, g)
<1> DEFINE T == {x \in m .. n : ~ \E f \in [m .. x -> S] : Suite(f, m, x, v, g)}
<1>1. SUFFICES T = {}
  OBVIOUS
<1>2. SUFFICES ASSUME T # {} PROVE FALSE
  OBVIOUS
<1>3. PICK x \in T : \A y \in T : x <= y
  <2>1. T \in SUBSET Nat
    OBVIOUS
  <2> HIDE DEF T
  <2>2. QED
    BY <1>2, <2>1, PlusPetit
<1>4. x \in m .. n /\ ~ \E f \in [m .. x -> S] : Suite(f, m, x, v, g)
  BY <1>3
<1>5. CASE x = m
  <2> DEFINE f == [j \in m .. x |-> v]
  <2>1. f \in [m .. x -> S] /\ Suite(f, m, x, v, g)
    BY <1>5 DEF Suite
  <2>2. QED
    BY <1>4, <2>1
<1>6. CASE x # m
  <2>1. x - 1 \in m .. n /\ x - 1 \notin T
    BY <1>3, <1>4, <1>6
  <2>2. PICK f \in [m .. x - 1 -> S] : Suite(f, m, x - 1, v, g)
    BY <2>1
  <2> DEFINE h == [j \in m .. x |-> IF j = x THEN g[<< x, f[x - 1] >>]
                                             ELSE f[j]]
  <2>3. h \in [m .. x -> S]
    <3>1. g[<< x, f[x - 1] >>] \in S
      BY <1>4, <1>6
    <3>2. \A j \in m .. x : j # x => f[j] \in S
      BY <1>4
    <3>3. QED
      BY <3>1, <3>2
  <2>4. ASSUME NEW j \in m .. x
        PROVE  h[j] = IF j = m THEN v ELSE g[<< j, h[j - 1] >>]
    <3>1. CASE j = x
      <4>1. h[j - 1] = f[x - 1]
        BY <1>4, <1>6, <3>1
      <4>2. QED
        BY <1>6, <3>1, <4>1
    <3>2. CASE j # x
      <4>1. j \in m .. x - 1 /\ h[j] = f[j]
        BY <1>4, <3>2
      <4>2. f[j] = IF j = m THEN v ELSE g[<< j, f[j - 1] >>]
        BY <2>2, <4>1 DEF Suite
      <4>3. j # m => h[j - 1] = f[j - 1]
        BY <1>4, <4>1
      <4>4. QED
        BY <4>1, <4>2, <4>3
    <3>3. QED
      BY <3>1, <3>2
  <2>5. Suite(h, m, x, v, g)
    BY <2>4 DEF Suite
  <2>6. QED
    BY <1>4, <2>3, <2>5
<1>7. QED
  BY <1>5, <1>6
-----------------------------------------------------------------------------
(* The operations of the loops on numbers give numbers of the format.      *)
LEMMA Operations ==
  ASSUME FormatRegulier
  PROVE  /\ \A a, b \in Nat : EstFlottant(Plus(a, b)) /\ Plus(a, b) \in Nat
         /\ \A a, b \in Nat : AjouterTronque(a, b) \in Nat
         /\ \A a \in Nat, s \in Nat \ {0} :
              Arrondi(s)[a] \in Nat /\ Pourcentage(a, s) \in Nat
<1>1. \A n \in Nat, d \in Nat \ {0} :
        EstFlottant(Arrondi(d)[n]) /\ Arrondi(d)[n] \in Nat
  BY ArrondiFlottant DEF EstFlottant
<1>2. 1 \in Nat \ {0} /\ Unite \in Nat \ {0}
  BY VecteursAssumption
<1>3. \A a, b \in Nat : EstFlottant(Plus(a, b)) /\ Plus(a, b) \in Nat
  BY <1>1, <1>2 DEF Plus
<1>4. ASSUME NEW a \in Nat, NEW b \in Nat
      PROVE  AjouterTronque(a, b) \in Nat
  <2>1. a * Unite \in Nat
    BY <1>2
  <2>2. Plus(a * Unite, b) \in Nat
    BY <1>3, <2>1
  <2>3. QED
    BY <1>2, <2>2 DEF AjouterTronque, EnEntier
<1>5. ASSUME NEW a \in Nat, NEW s \in Nat \ {0}
      PROVE  Arrondi(s)[a] \in Nat /\ Pourcentage(a, s) \in Nat
  <2>1. Arrondi(s)[a] \in Nat
    BY <1>1
  <2>2. 100 * Arrondi(s)[a] \in Nat
    BY <2>1
  <2>3. QED
    BY <1>1, <1>2, <2>1, <2>2 DEF Pourcentage
<1>6. QED
  BY <1>3, <1>4, <1>5

(* The recursive functions of Tirage satisfy their equations.              *)
LEMMA SommeParPas ==
  ASSUME FormatRegulier, NEW b \in Seq(Nat)
  PROVE  LET somme == SommesTronquees(b) IN
         /\ somme[0] = 0
         /\ \A n \in 1 .. Len(b) :
              somme[n] = AjouterTronque(somme[n - 1], b[n])
<1> DEFINE N == Len(b)
           g == [p \in (0 .. N) \X Nat |->
                   IF p[1] = 0 THEN 0 ELSE AjouterTronque(p[2], b[p[1]])]
<1>1. /\ N \in Nat /\ 0 \in Nat /\ 0 <= N
      /\ \A n \in 0 .. N : n # 0 => b[n] \in Nat
  OBVIOUS
<1> HIDE DEF N
<1>2. g \in [(0 .. N) \X Nat -> Nat]
  <2>1. ASSUME NEW q \in (0 .. N) \X Nat, q[1] # 0
        PROVE  AjouterTronque(q[2], b[q[1]]) \in Nat
    BY <1>1, <2>1, Operations
  <2>2. QED
    BY <1>1, <2>1
<1>3. PICK f \in [0 .. N -> Nat] : Suite(f, 0, N, 0, g)
  <2> HIDE DEF g
  <2>1. QED
    BY <1>1, <1>2, SuiteExiste
<1>4. f = [n \in 0 .. N |->
             IF n = 0 THEN 0 ELSE AjouterTronque(f[n - 1], b[n])]
  <2>1. ASSUME NEW n \in 0 .. N, n # 0
        PROVE  g[<< n, f[n - 1] >>] = AjouterTronque(f[n - 1], b[n])
    <3>1. << n, f[n - 1] >> \in (0 .. N) \X Nat
      BY <1>1, <2>1
    <3>2. QED
      BY <2>1, <3>1
  <2> HIDE DEF g
  <2>2. QED
    BY <1>3, <2>1 DEF Suite
<1> DEFINE F == SommesTronquees(b)
<1>5. F = [n \in 0 .. N |->
        IF n = 0 THEN 0 ELSE AjouterTronque(F[n - 1], b[n])]
  BY <1>4 DEF SommesTronquees, N
<1> HIDE DEF F
<1>6. \A n \in 1 .. N : n \in 0 .. N /\ n # 0
  BY <1>1
<1>7. /\ F[0] = 0
      /\ \A n \in 1 .. N : F[n] = AjouterTronque(F[n - 1], b[n])
  BY <1>1, <1>5, <1>6
<1>8. QED
  BY <1>7 DEF F, N

LEMMA ProbaParPas ==
  ASSUME FormatRegulier, NEW b \in Seq(Nat), NEW s \in Nat \ {0}
  PROVE  LET proba == ProbaPrecedente(b, s) IN
         /\ proba[1] = 0
         /\ \A n \in 1 .. Len(b) :
              proba[n + 1] = Plus(proba[n], Pourcentage(b[n], s))
<1> DEFINE N == Len(b) + 1
           g == [p \in (1 .. N) \X Nat |->
                   IF p[1] = 1 THEN 0
                   ELSE Plus(p[2], Pourcentage(b[p[1] - 1], s))]
           proba == ProbaPrecedente(b, s)
<1>1. N \in Nat /\ 1 <= N /\ \A n \in 1 .. N : n # 1 => b[n - 1] \in Nat
  OBVIOUS
<1> HIDE DEF N
<1>2. g \in [(1 .. N) \X Nat -> Nat]
  <2>1. ASSUME NEW q \in (1 .. N) \X Nat, q[1] # 1
        PROVE  Plus(q[2], Pourcentage(b[q[1] - 1], s)) \in Nat
    BY <1>1, <2>1, Operations
  <2>2. QED
    BY <1>1, <2>1
<1>3. PICK f \in [1 .. N -> Nat] : Suite(f, 1, N, 0, g)
  <2> HIDE DEF g
  <2>1. QED
    BY <1>1, <1>2, SuiteExiste
<1>4. f = [n \in 1 .. N |->
             IF n = 1 THEN 0 ELSE Plus(f[n - 1], Pourcentage(b[n - 1], s))]
  <2>1. ASSUME NEW n \in 1 .. N, n # 1
        PROVE  g[<< n, f[n - 1] >>] = Plus(f[n - 1], Pourcentage(b[n - 1], s))
    <3>1. << n, f[n - 1] >> \in (1 .. N) \X Nat
      BY <1>1, <2>1
    <3>2. QED
      BY <2>1, <3>1
  <2> HIDE DEF g
  <2>2. QED
    BY <1>3, <2>1 DEF Suite
<1>5. proba = [n \in 1 .. N |->
        IF n = 1 THEN 0 ELSE Plus(proba[n - 1], Pourcentage(b[n - 1], s))]
  BY <1>4 DEF ProbaPrecedente, N
<1> HIDE DEF proba
<1>6. \A n \in 1 .. Len(b) : /\ n + 1 \in 1 .. N /\ n + 1 # 1
                             /\ (n + 1) - 1 = n
  BY DEF N
<1>7. QED
  BY <1>1, <1>5, <1>6 DEF proba
-----------------------------------------------------------------------------
TypesLocaux ==
  /\ budgets \in Vecteurs
  /\ pc \in {"somme", "boucle", "fin", "bilan"}
  /\ lRandom \in Nat
  /\ k \in 0 .. Len(budgets)
  /\ lSommeBudget \in Nat
  /\ i \in 0 .. Len(budgets)
  /\ lIndexSelectionne \in 0 .. Len(budgets) - 1

IInv == TypesLocaux /\ BoucleInv /\ ResultatConforme /\ EpuiseeJamaisTiree

(* The vectors and the random number, in units.                            *)
LEMMA VecteurLu ==
  ASSUME TypesLocaux
  PROVE  /\ budgets \in Seq(Nat) /\ Len(budgets) \in Nat \ {0}
         /\ DOMAIN budgets = 1 .. Len(budgets)
         /\ \A n \in 1 .. Len(budgets) : budgets[n] \in Nat
         /\ lRandom * Unite \in Nat
         /\ Inf \notin Nat /\ NaN \notin Nat /\ Inf # NaN
<1>1. budgets \in Seq(Nat) /\ budgets # << >>
  BY VecteursAssumption DEF TypesLocaux
<1>2. Len(budgets) \in Nat \ {0}
  BY <1>1
<1>3. lRandom * Unite \in Nat
  BY VecteursAssumption DEF TypesLocaux
<1>4. QED
  BY <1>1, <1>2, <1>3, VecteursAssumption

(* With a positive sum, the test of the loop is that of Tirage, and the    *)
(* end of the interval the next value of the recursive function.           *)
LEMMA TestNombre ==
  ASSUME FormatRegulier, TypesLocaux, BoucleInv, pc = "boucle",
         i < Len(budgets), lSommeBudget # 0
  PROVE  LET proba == ProbaPrecedente(budgets, lSommeBudget)
             suivante == Ajouter(lProbaBrecedente, Ponderation)
         IN  /\ suivante = proba[i + 2] /\ EstFlottant(suivante)
             /\ suivante = Plus(lProbaBrecedente,
                                Pourcentage(budgets[i + 1], lSommeBudget))
             /\ DansIntervalleCourant <=>
                  DansIntervalle(budgets, lSommeBudget, proba, lRandom, i + 1)
             /\ ~ DansIntervalleCourant => suivante < lRandom * Unite
<1> DEFINE proba == ProbaPrecedente(budgets, lSommeBudget)
           p == lProbaBrecedente
           w == Pourcentage(budgets[i + 1], lSommeBudget)
           suivante == Ajouter(p, Ponderation)
           x == lRandom * Unite
<1>1. /\ i \in Nat /\ i + 1 \in 1 .. Len(budgets)
      /\ budgets[i + 1] \in Nat /\ lSommeBudget \in Nat \ {0}
      /\ x \in Nat /\ budgets \in Seq(Nat)
  BY VecteurLu DEF TypesLocaux
<1>2. Inf \notin Nat /\ NaN \notin Nat
  BY VecteurLu
<1>3. /\ p = proba[i + 1] /\ EstFlottant(p) /\ (i > 0 => p < x)
  BY DEF BoucleInv
<1>4. p \in Nat
  BY <1>3 DEF EstFlottant
<1>5. proba[1] = 0 /\ proba[i + 2] = Plus(proba[i + 1], w)
  <2>1. /\ proba[1] = 0
        /\ \A n \in 1 .. Len(budgets) :
             proba[n + 1] = Plus(proba[n], Pourcentage(budgets[n], lSommeBudget))
    BY <1>1, ProbaParPas
  <2>2. (i + 1) + 1 = i + 2
    BY <1>1
  <2> HIDE DEF proba
  <2>3. QED
    BY <1>1, <2>1, <2>2
<1>6. Ponderation = w /\ w \in Nat
  <2>1. Arrondi(lSommeBudget)[budgets[i + 1]] \in Nat /\ w \in Nat
    BY <1>1, Operations
  <2>2. QED
    BY <1>1, <1>2, <2>1 DEF Ponderation, Diviser, Centupler, Pourcentage
<1> HIDE DEF w, proba, x
<1>7. suivante = Plus(p, w)
  BY <1>2, <1>4, <1>6 DEF Ajouter
<1>8. EstFlottant(suivante) /\ suivante \in Nat
  BY <1>4, <1>6, <1>7, Operations
<1>9. DansIntervalleCourant <=> p <= x /\ x <= suivante
  <2>1. \A a, b \in Nat : InfEgal(a, b) <=> a <= b
    BY <1>2 DEF InfEgal
  <2>2. QED
    BY <1>1, <1>4, <1>8, <2>1 DEF DansIntervalleCourant, x
<1>10. p <= x
  BY <1>1, <1>3, <1>4, <1>5
<1>11. DansIntervalle(budgets, lSommeBudget, proba, lRandom, i + 1)
         <=> x >= proba[i + 1] /\ x <= proba[i + 2]
  <2>1. (i + 1) + 1 = i + 2
    BY <1>1
  <2>2. QED
    BY <1>1, <2>1 DEF DansIntervalle, x
<1> HIDE DEF suivante
<1>12. ~ DansIntervalleCourant => suivante < x
  BY <1>1, <1>8, <1>9, <1>10
<1>13. DansIntervalleCourant <=> x >= proba[i + 1] /\ x <= proba[i + 2]
  BY <1>1, <1>3, <1>4, <1>5, <1>7, <1>8, <1>9
<1>14. QED
  BY <1>3, <1>5, <1>7, <1>8, <1>11, <1>12, <1>13
     DEF suivante, proba, w, x

(* With a null sum, only the first position passes the test, if its budget *)
(* is positive; otherwise NaN is left behind.                              *)
LEMMA TestSommeNulle ==
  ASSUME TypesLocaux, BoucleInv, pc = "boucle",
         i < Len(budgets), lSommeBudget = 0
  PROVE  /\ DansIntervalleCourant <=> i = 0 /\ budgets[1] > 0
         /\ ~ DansIntervalleCourant =>
              /\ Ajouter(lProbaBrecedente, Ponderation) = NaN
              /\ budgets[1] = 0
<1> DEFINE x == lRandom * Unite
<1>1. /\ i \in Nat /\ budgets[1] \in Nat /\ x \in Nat
      /\ Inf \notin Nat /\ NaN \notin Nat /\ Inf # NaN
  BY VecteurLu DEF TypesLocaux
<1>2. CASE i # 0
  <2>1. lProbaBrecedente = NaN /\ budgets[1] = 0
    BY <1>2 DEF BoucleInv
  <2>2. ~ DansIntervalleCourant
    BY <2>1 DEF DansIntervalleCourant, InfEgal
  <2>3. Ajouter(lProbaBrecedente, Ponderation) = NaN
    BY <2>1 DEF Ajouter
  <2>4. QED
    BY <1>2, <2>1, <2>2, <2>3
<1>3. CASE i = 0 /\ budgets[1] > 0
  <2>1. lProbaBrecedente = 0
    BY <1>3 DEF BoucleInv
  <2>2. Ponderation = Inf
    BY <1>1, <1>3 DEF Ponderation, Diviser, Centupler
  <2>3. Ajouter(lProbaBrecedente, Ponderation) = Inf
    BY <1>1, <2>1, <2>2 DEF Ajouter
  <2>4. InfEgal(0, x) /\ InfEgal(x, Inf)
    BY <1>1 DEF InfEgal
  <2>5. DansIntervalleCourant
    BY <2>1, <2>3, <2>4 DEF DansIntervalleCourant
  <2>6. QED
    BY <1>3, <2>5
<1>4. CASE i = 0 /\ budgets[1] = 0
  <2>1. Ponderation = NaN
    BY <1>1, <1>4 DEF Ponderation, Diviser, Centupler
  <2>2. Ajouter(lProbaBrecedente, Ponderation) = NaN
    BY <2>1 DEF Ajouter
  <2>3. ~ DansIntervalleCourant
    BY <2>2 DEF DansIntervalleCourant, InfEgal
  <2>4. QED
    BY <1>1, <1>4, <2>2, <2>3
<1>5. QED
  BY <1>1, <1>2, <1>3, <1>4

(* A null budget has an empty interval: it ends where it begins.           *)
LEMMA PoidsNul ==
  ASSUME FormatRegulier, NEW s \in Nat \ {0}, NEW p, EstFlottant(p)
  PROVE  Plus(p, Pourcentage(0, s)) = p
<1>1. \A d \in Nat \ {0} : Arrondi(d)[0] = 0
  <2> SUFFICES ASSUME NEW d \in Nat \ {0} PROVE Arrondi(d)[0] = 0
    OBVIOUS
  <2> DEFINE u == Ulp(0 \div d)
  <2>1. 0 \div d = 0 /\ 0 \in Nat
    OBVIOUS
  <2>2. Ulp(0) \in Nat \ {0}
    BY <2>1 DEF FormatRegulier, Regulier
  <2>3. u \in Nat \ {0}
    BY <2>1, <2>2
  <2>4. /\ Arrondi(d)[0] \in Nat
        /\ 0 <= 0 * u * d => Arrondi(d)[0] <= 0 * u
    BY <2>1, <2>3, ArrondiMonotone
  <2> HIDE DEF u
  <2>5. 0 * u = 0 /\ 0 * u * d = 0
    BY <2>3
  <2>6. QED
    BY <2>4, <2>5
<1>2. Pourcentage(0, s) = 0
  BY <1>1 DEF Pourcentage
<1>3. p \in Nat /\ p + 0 = p
  BY DEF EstFlottant
<1>4. QED
  BY <1>2, <1>3, ArrondiExact DEF Plus

LEMMA SommerPreserve ==
  ASSUME FormatRegulier, IInv, Sommer
  PROVE  IInv'
<1>1. /\ pc = "somme" /\ k \in Nat /\ k < Len(budgets) /\ i = 0
      /\ lProbaBrecedente = 0 /\ lIndexSelectionne = 0
      /\ lSommeBudget = SommesTronquees(budgets)[k] /\ lSommeBudget \in Nat
      /\ budgets \in Seq(Nat) /\ Len(budgets) \in Nat \ {0}
      /\ budgets[k + 1] \in Nat /\ k + 1 \in 1 .. Len(budgets)
      /\ (k + 1) - 1 = k
  <2>1. TypesLocaux /\ BoucleInv /\ pc = "somme"
    BY DEF IInv, Sommer
  <2>2. /\ k < Len(budgets) /\ i = 0
        /\ lProbaBrecedente = 0 /\ lIndexSelectionne = 0
        /\ lSommeBudget = SommesTronquees(budgets)[k]
    BY <2>1 DEF BoucleInv
  <2>3. k \in Nat /\ lSommeBudget \in Nat
    BY <2>1 DEF TypesLocaux
  <2>4. /\ budgets \in Seq(Nat) /\ Len(budgets) \in Nat \ {0}
        /\ \A n \in 1 .. Len(budgets) : budgets[n] \in Nat
    BY <2>1, VecteurLu
  <2>5. k + 1 \in 1 .. Len(budgets) /\ (k + 1) - 1 = k
    BY <2>2, <2>3, <2>4
  <2>6. QED
    BY <2>1, <2>2, <2>3, <2>4, <2>5
<1>2. /\ UNCHANGED << budgets, lRandom, i, lProbaBrecedente,
                      lIndexSelectionne >>
      /\ k' = k + 1 /\ lSommeBudget' = AjouterTronque(lSommeBudget, budgets[k + 1])
      /\ pc' = IF k + 1 = Len(budgets) THEN "boucle" ELSE "somme"
  BY DEF Sommer
<1>3. lSommeBudget' = SommesTronquees(budgets)[k + 1] /\ lSommeBudget' \in Nat
  <2> DEFINE F == SommesTronquees(budgets)
  <2>1. \A n \in 1 .. Len(budgets) :
          F[n] = AjouterTronque(F[n - 1], budgets[n])
    BY <1>1, SommeParPas
  <2> HIDE DEF F
  <2>2. F[k + 1] = AjouterTronque(F[k], budgets[k + 1])
    BY <1>1, <2>1
  <2>3. QED
    BY <1>1, <1>2, <2>2, Operations DEF F
<1>4. TypesLocaux'
  BY <1>1, <1>2, <1>3 DEF IInv, TypesLocaux
<1>5. BoucleInv'
  <2>1. CASE k + 1 # Len(budgets)
    BY <1>1, <1>2, <1>3, <2>1 DEF BoucleInv
  <2>2. CASE k + 1 = Len(budgets)
    <3>1. lSommeBudget' = SommeTronquee(budgets)
      BY <1>3, <2>2 DEF SommeTronquee
    <3>2. lSommeBudget' # 0 => ProbaPrecedente(budgets, lSommeBudget')[1] = 0
      BY <1>1, <1>3, ProbaParPas
    <3>3. EstFlottant(0)
      <4>1. Ulp(0) \in Nat \ {0}
        BY DEF FormatRegulier, Regulier
      <4>2. QED
        BY <4>1 DEF EstFlottant
    <3>4. SommeTronquee(budgets') = SommeTronquee(budgets)
      BY <1>2
    <3>5. QED
      BY <1>1, <1>2, <2>2, <3>1, <3>2, <3>3, <3>4 DEF BoucleInv
  <2>3. QED
    BY <2>1, <2>2
<1>6. QED
  BY <1>2, <1>4, <1>5 DEF IInv, ResultatConforme, EpuiseeJamaisTiree

LEMMA RetenirPreserve ==
  ASSUME FormatRegulier, IInv, Retenir
  PROVE  IInv'
<1>1. /\ UNCHANGED << budgets, lRandom, k, lSommeBudget, i, lProbaBrecedente >>
      /\ pc = "boucle" /\ pc' = "fin" /\ lIndexSelectionne' = i
      /\ i < Len(budgets) /\ DansIntervalleCourant
  BY DEF Retenir
<1>2. /\ TypesLocaux /\ BoucleInv /\ i \in Nat /\ Len(budgets) \in Nat
      /\ i + 1 \in 1 .. Len(budgets) /\ budgets[i + 1] \in Nat
      /\ lSommeBudget \in Nat /\ lRandom * Unite \in Nat
  BY <1>1, VecteurLu DEF IInv, TypesLocaux
<1>3. TypesLocaux'
  BY <1>1, <1>2 DEF TypesLocaux
<1>4. BoucleInv'
  BY <1>1 DEF BoucleInv
<1> DEFINE Dans(j) == DansIntervalle(budgets, lSommeBudget,
                        ProbaPrecedente(budgets, lSommeBudget), lRandom, j)
<1>5. lSommeBudget = SommeTronquee(budgets) /\ \A j \in 1 .. i : ~ Dans(j)
  BY <1>1, <1>2 DEF BoucleInv
<1>6. Dans(i + 1)
  <2>1. CASE lSommeBudget = 0
    BY <1>1, <1>2, <2>1, TestSommeNulle DEF DansIntervalle
  <2>2. CASE lSommeBudget # 0
    BY <1>1, <1>2, <2>2, TestNombre
  <2>3. QED
    BY <2>1, <2>2
<1>7. ResultatConforme'
  <2>1. (i + 1) - 1 = i
    BY <1>2
  <2> HIDE DEF Dans
  <2>2. Dans(i + 1) /\ \A j \in 1 .. (i + 1) - 1 : ~ Dans(j)
    BY <1>5, <1>6, <2>1
  <2>3. Choisi(budgets, lRandom, i + 1)
    BY <1>5, <2>2 DEF Choisi, Dans
  <2>4. QED
    BY <1>1, <2>3 DEF ResultatConforme
<1>8. EpuiseeJamaisTiree'
  <2> SUFFICES ASSUME i > 0, budgets[i + 1] = 0 PROVE FALSE
    BY <1>1, <1>2 DEF EpuiseeJamaisTiree
  <2>1. lSommeBudget # 0
    BY <1>1, <1>2, TestSommeNulle
  <2> DEFINE p == lProbaBrecedente
             x == lRandom * Unite
  <2>2. EstFlottant(p) /\ p < x /\ p \in Nat
    BY <1>1, <1>2, <2>1 DEF BoucleInv, EstFlottant
  <2>3. Ajouter(p, Ponderation) = Plus(p, Pourcentage(0, lSommeBudget))
    BY <1>1, <1>2, <2>1, TestNombre
  <2>4. Ajouter(p, Ponderation) = p
    BY <1>2, <2>1, <2>2, <2>3, PoidsNul
  <2>5. InfEgal(x, p)
    BY <1>1, <2>4 DEF DansIntervalleCourant
  <2> HIDE DEF p, x
  <2>6. x \in Nat /\ Inf \notin Nat
    BY <1>2, VecteurLu DEF x
  <2>7. QED
    BY <2>2, <2>5, <2>6 DEF InfEgal
<1>9. QED
  BY <1>3, <1>4, <1>7, <1>8 DEF IInv

LEMMA PasserPreserve ==
  ASSUME FormatRegulier, IInv, Passer
  PROVE  IInv'
<1>1. /\ UNCHANGED << budgets, pc, lRandom, k, lSommeBudget,
                      lIndexSelectionne >>
      /\ pc = "boucle" /\ i < Len(budgets) /\ ~ DansIntervalleCourant
      /\ lProbaBrecedente' = Ajouter(lProbaBrecedente, Ponderation)
      /\ i' = i + 1
  BY DEF Passer
<1>2. /\ TypesLocaux /\ BoucleInv /\ i \in Nat /\ Len(budgets) \in Nat
      /\ i + 1 \in 0 .. Len(budgets) /\ i + 1 > 0
  BY <1>1, VecteurLu DEF IInv, TypesLocaux
<1>3. TypesLocaux'
  BY <1>1, <1>2 DEF TypesLocaux
<1> DEFINE Dans(j) == DansIntervalle(budgets, lSommeBudget,
                        ProbaPrecedente(budgets, lSommeBudget), lRandom, j)
<1>4. /\ lSommeBudget = SommeTronquee(budgets) /\ lIndexSelectionne = 0
      /\ \A j \in 1 .. i : ~ Dans(j)
  BY <1>1, <1>2 DEF BoucleInv
<1>5. ~ Dans(i + 1)
  <2>1. CASE lSommeBudget = 0
    <3>1. budgets[1] = 0
      BY <1>1, <1>2, <2>1, TestSommeNulle
    <3>2. QED
      BY <2>1, <3>1 DEF DansIntervalle
  <2>2. CASE lSommeBudget # 0
    BY <1>1, <1>2, <2>2, TestNombre
  <2>3. QED
    BY <2>1, <2>2
<1>6. \A j \in 1 .. i + 1 : ~ Dans(j)
  <2>1. \A j \in 1 .. i + 1 : j \in 1 .. i \/ j = i + 1
    BY <1>2
  <2> HIDE DEF Dans
  <2>2. QED
    BY <1>4, <1>5, <2>1
<1>7. CASE lSommeBudget = 0
  <2>1. lProbaBrecedente' = NaN /\ budgets[1] = 0
    BY <1>1, <1>2, <1>7, TestSommeNulle
  <2>2. BoucleInv'
    BY <1>1, <1>2, <1>4, <1>6, <1>7, <2>1 DEF BoucleInv
  <2>3. QED
    BY <1>1, <1>3, <2>2 DEF IInv, ResultatConforme, EpuiseeJamaisTiree
<1>8. CASE lSommeBudget # 0
  <2>1. /\ lProbaBrecedente' = ProbaPrecedente(budgets, lSommeBudget)[i + 2]
        /\ EstFlottant(lProbaBrecedente')
        /\ lProbaBrecedente' < lRandom * Unite
        /\ (i + 1) + 1 = i + 2
    BY <1>1, <1>2, <1>8, TestNombre
  <2>2. EstFlottant(lProbaBrecedente)'
    BY <2>1 DEF EstFlottant
  <2>3. BoucleInv'
    BY <1>1, <1>2, <1>4, <1>6, <1>8, <2>1, <2>2 DEF BoucleInv
  <2>4. QED
    BY <1>1, <1>3, <2>3 DEF IInv, ResultatConforme, EpuiseeJamaisTiree
<1>9. QED
  BY <1>7, <1>8

LEMMA PasPreserve ==
  ASSUME FormatRegulier, IInv, [Next]_vars
  PROVE  IInv'
<1>1. TypesLocaux /\ BoucleInv
  BY DEF IInv
<1>2. CASE Epuiser
  <2>1. /\ UNCHANGED << budgets, lRandom, k, lSommeBudget, i,
                        lProbaBrecedente, lIndexSelectionne >>
        /\ pc = "boucle" /\ pc' = "fin" /\ i = Len(budgets)
    BY <1>2 DEF Epuiser
  <2>2. lSommeBudget = SommeTronquee(budgets) /\ lIndexSelectionne = 0
        /\ \A j \in 1 .. Len(budgets) :
             ~ DansIntervalle(budgets, lSommeBudget,
                 ProbaPrecedente(budgets, lSommeBudget), lRandom, j)
    BY <1>1, <2>1 DEF BoucleInv
  <2>3. DOMAIN budgets = 1 .. Len(budgets) /\ 0 + 1 = 1
    BY <1>1, VecteurLu
  <2>4. Choisi(budgets, lRandom, 1)
    BY <2>2, <2>3 DEF Choisi
  <2>5. TypesLocaux' /\ BoucleInv'
    BY <1>1, <2>1 DEF TypesLocaux, BoucleInv
  <2>6. ResultatConforme' /\ EpuiseeJamaisTiree'
    BY <2>1, <2>2, <2>3, <2>4 DEF ResultatConforme, EpuiseeJamaisTiree
  <2>7. QED
    BY <2>5, <2>6 DEF IInv
<1>3. CASE Rendre
  <2>1. /\ budgets' = budgets /\ lRandom' = lRandom + 1
        /\ pc' \in {"somme", "bilan"} /\ k' = 0 /\ lSommeBudget' = 0
        /\ i' = 0 /\ lProbaBrecedente' = 0 /\ lIndexSelectionne' = 0
    BY <1>3 DEF Rendre
  <2>2. Len(budgets) \in Nat \ {0} /\ SommesTronquees(budgets)[0] = 0
    BY <1>1, VecteurLu, SommeParPas
  <2>3. TypesLocaux' /\ BoucleInv'
    BY <1>1, <2>1, <2>2 DEF TypesLocaux, BoucleInv
  <2>4. QED
    BY <2>1, <2>3 DEF IInv, ResultatConforme, EpuiseeJamaisTiree
<1>4. CASE UNCHANGED vars
  BY <1>4 DEF vars, IInv, TypesLocaux, BoucleInv, ResultatConforme,
     EpuiseeJamaisTiree, EstFlottant
<1>5. QED
  BY <1>2, <1>3, <1>4, SommerPreserve, RetenirPreserve, PasserPreserve
     DEF Next

LEMMA InitIInv ==
  ASSUME FormatRegulier, Init
  PROVE  IInv
<1>1. Len(budgets) \in Nat \ {0} /\ budgets \in Seq(Nat)
  BY VecteursAssumption DEF Init
<1>2. SommesTronquees(budgets)[0] = 0
  BY <1>1, SommeParPas
<1>3. QED
  BY <1>1, <1>2 DEF Init, IInv, TypesLocaux, BoucleInv, ResultatConforme,
     EpuiseeJamaisTiree

LEMMA InvariantInductif == FormatRegulier => (Spec => []IInv)
<1> SUFFICES ASSUME FormatRegulier PROVE Spec => []IInv
  OBVIOUS
<1>1. Init => IInv
  BY InitIInv
<1>2. IInv /\ [Next]_vars => IInv'
  BY PasPreserve
<1>3. QED
  BY <1>1, <1>2, PTL DEF Spec

(* For every regular float format, the loops have summed what the          *)
(* recursive definition sums and passed only intervals that the random     *)
(* number is beyond.                                                       *)
THEOREM BouclesCorrectes == FormatRegulier => (Spec => []BoucleInv)
<1>1. IInv => BoucleInv
  BY DEF IInv
<1>2. QED
  BY <1>1, InvariantInductif, PTL

(* The loops of RandomSelectCampagne return the position that Tirage gives *)
(* for their random number: CampagnesManager, which only uses Tirage, has  *)
(* the outcomes of the code and no other.                                  *)
THEOREM ResultatsConformes == FormatRegulier => (Spec => []ResultatConforme)
<1>1. IInv => ResultatConforme
  BY DEF IInv
<1>2. QED
  BY <1>1, InvariantInductif, PTL

(* A campaign without money is not drawn after the first place, whatever   *)
(* the roundings of the intervals before its own.                          *)
THEOREM EpuiseesJamaisTirees ==
  FormatRegulier => (Spec => []EpuiseeJamaisTiree)
<1>1. IInv => EpuiseeJamaisTiree
  BY DEF IInv
<1>2. QED
  BY <1>1, InvariantInductif, PTL
-----------------------------------------------------------------------------
(* What a suite does at each step it does over an interval.                *)
LEMMA SuiteCroissante ==
  ASSUME NEW m \in Nat, NEW n \in Nat, NEW f,
         \A x \in m .. n : f[x] \in Nat,
         \A x \in m .. n : x < n => f[x] <= f[x + 1]
  PROVE  \A a, b \in m .. n : a <= b => f[a] <= f[b]
<1> SUFFICES ASSUME NEW a \in m .. n
             PROVE  \A b \in m .. n : a <= b => f[a] <= f[b]
  OBVIOUS
<1> DEFINE T == {x \in m .. n : a <= x /\ ~ (f[a] <= f[x])}
<1>1. SUFFICES ASSUME T # {} PROVE FALSE
  OBVIOUS
<1>2. T \in SUBSET Nat
  OBVIOUS
<1>3. PICK x \in T : \A y \in T : x <= y
  <2> HIDE DEF T
  <2>1. QED
    BY <1>1, <1>2, PlusPetit
<1>4. x \in m .. n /\ a <= x /\ ~ (f[a] <= f[x])
  BY <1>3
<1>5. a # x
  BY <1>4
<1>6. x - 1 \in m .. n /\ a <= x - 1 /\ x - 1 < n /\ (x - 1) + 1 = x
  BY <1>4, <1>5
<1>7. f[a] <= f[x - 1]
  BY <1>3, <1>6
<1>8. f[x - 1] <= f[x]
  BY <1>6
<1>9. f[a] \in Nat /\ f[x - 1] \in Nat /\ f[x] \in Nat
  BY <1>4, <1>6
<1>10. QED
  BY <1>4, <1>7, <1>8, <1>9

LEMMA UlpCroissant ==
  ASSUME FormatRegulier, FormatCroissant, NEW m \in Nat, NEW n \in Nat, m <= n
  PROVE  Ulp(m) <= Ulp(n)
<1> DEFINE f == [x \in Nat |-> Ulp(x)]
<1>1. \A x \in Nat : Ulp(x) \in Nat /\ Ulp(x) <= Ulp(x + 1)
  BY DEF FormatRegulier, Regulier, FormatCroissant, Croissant
<1>2. \A x \in m .. n : x \in Nat /\ x + 1 \in Nat
  OBVIOUS
<1>3. /\ \A x \in m .. n : f[x] \in Nat
      /\ \A x \in m .. n : x < n => f[x] <= f[x + 1]
  BY <1>1, <1>2
<1>4. m \in m .. n /\ n \in m .. n
  OBVIOUS
<1> HIDE DEF f
<1>5. f[m] <= f[n]
  BY <1>3, <1>4, SuiteCroissante
<1>6. QED
  BY <1>5 DEF f

(* Adding a weight to the end of an interval does not move it back.        *)
LEMMA PlusCroissant ==
  ASSUME FormatRegulier, FormatCroissant, NEW p, EstFlottant(p), NEW w \in Nat
  PROVE  p <= Plus(p, w)
<1> DEFINE n == p + w
           u == Ulp(n)
           q == n \div u
           A == Arrondi(1)[n]
<1>1. p \in Nat /\ n \in Nat /\ p <= n /\ n \div 1 = n
  BY DEF EstFlottant
<1>2. u \in Nat \ {0} /\ Ulp(p) \in Nat \ {0} /\ Ulp(q * u) = u
      /\ p % Ulp(p) = 0
  BY <1>1 DEF FormatRegulier, Regulier, FormatCroissant, Croissant, EstFlottant
<1>3. q \in Nat /\ n % u \in 0 .. u - 1 /\ n = q * u + (n % u)
  <2> HIDE DEF n, u
  <2>1. QED
    BY <1>1, <1>2
<1>4. \A x \in Nat : x * u <= n => x * u <= A
  <2> SUFFICES ASSUME NEW x \in Nat, x * u <= n PROVE x * u <= A
    OBVIOUS
  <2>1. Ulp(n \div 1) \in Nat \ {0} /\ Ulp(n \div 1) = u
    BY <1>1, <1>2
  <2>2. x * Ulp(n \div 1) * 1 <= n => x * Ulp(n \div 1) <= A
    <3> HIDE DEF n, A
    <3>1. QED
      BY <1>1, <2>1, ArrondiMonotone DEF A
  <2>3. x * u * 1 = x * u
    <3> HIDE DEF u
    <3>1. QED
      BY <1>2
  <2> HIDE DEF n, u, A
  <2>4. QED
    BY <2>1, <2>2, <2>3
<1>5. A \in Nat /\ Plus(p, w) = A
  BY <1>1, ArrondiFlottant DEF EstFlottant, Plus
<1> HIDE DEF n, u, q, A
<1>6. q * u <= A /\ q * u \in Nat
  BY <1>2, <1>3, <1>4
<1>7. CASE p <= q * u
  BY <1>1, <1>5, <1>6, <1>7
<1>8. CASE q * u < p
  <2>1. Ulp(q * u) <= Ulp(p) /\ Ulp(p) <= u
    BY <1>1, <1>6, <1>8, UlpCroissant DEF u
  <2>2. Ulp(p) = u
    BY <1>2, <2>1
  <2>3. p \div u \in Nat /\ p = (p \div u) * u
    BY <1>1, <1>2, <2>2
  <2>4. p <= A
    BY <1>1, <1>4, <2>3
  <2>5. QED
    BY <1>5, <2>4
<1>9. QED
  BY <1>1, <1>6, <1>7, <1>8

(* The ends of the intervals are floats in increasing order.               *)
LEMMA ProbaCroissante ==
  ASSUME FormatRegulier, FormatCroissant, NEW b \in Seq(Nat),
         NEW s \in Nat \ {0}
  PROVE  LET proba == ProbaPrecedente(b, s)
             N == Len(b) + 1
         IN  /\ \A n \in 1 .. N : proba[n] \in Nat /\ EstFlottant(proba[n])
             /\ \A l, n \in 1 .. N : l <= n => proba[l] <= proba[n]
<1> DEFINE proba == ProbaPrecedente(b, s)
           N == Len(b) + 1
           w == [n \in 1 .. Len(b) |-> Pourcentage(b[n], s)]
<1>1. /\ proba[1] = 0
      /\ \A n \in 1 .. Len(b) :
           proba[n + 1] = Plus(proba[n], Pourcentage(b[n], s))
  BY ProbaParPas
<1>2. N \in Nat /\ 1 \in 1 .. N /\ Len(b) \in Nat /\ Len(b) = N - 1
  OBVIOUS
<1>3. \A n \in 1 .. Len(b) : w[n] \in Nat /\ proba[n + 1] = Plus(proba[n], w[n])
  <2>1. \A n \in 1 .. Len(b) : b[n] \in Nat
    OBVIOUS
  <2>2. QED
    BY <1>1, <2>1, Operations
<1> HIDE DEF proba, N, w
<1> DEFINE Bon(n) == proba[n] \in Nat /\ EstFlottant(proba[n])
           T == {n \in 1 .. N : ~ Bon(n)}
<1>4. Bon(1)
  <2>1. Ulp(0) \in Nat \ {0}
    BY DEF FormatRegulier, Regulier
  <2>2. QED
    BY <1>1, <2>1 DEF EstFlottant
<1>5. T = {}
  <2> SUFFICES ASSUME T # {} PROVE FALSE
    OBVIOUS
  <2>1. T \in SUBSET Nat
    BY <1>2
  <2>2. PICK x \in T : \A y \in T : x <= y
    <3> HIDE DEF T
    <3>1. QED
      BY <2>1, PlusPetit
  <2>3. x \in 1 .. N /\ ~ Bon(x)
    BY <2>2
  <2>4. x # 1
    BY <1>4, <2>3
  <2>5. x - 1 \in 1 .. N /\ x - 1 \in 1 .. Len(b) /\ (x - 1) + 1 = x
    BY <1>2, <2>3, <2>4
  <2>6. Bon(x - 1)
    BY <1>2, <2>2, <2>3, <2>5
  <2>7. proba[x] = Plus(proba[x - 1], w[x - 1]) /\ w[x - 1] \in Nat
    BY <1>3, <2>5
  <2>8. QED
    BY <2>3, <2>6, <2>7, Operations
<1>6. \A n \in 1 .. N : Bon(n)
  BY <1>5
<1>7. \A n \in 1 .. N : n < N => proba[n] <= proba[n + 1]
  <2> SUFFICES ASSUME NEW n \in 1 .. N, n < N PROVE proba[n] <= proba[n + 1]
    OBVIOUS
  <2>1. n \in 1 .. Len(b)
    BY <1>2
  <2>2. QED
    BY <1>3, <1>6, <2>1, PlusCroissant
<1>8. \A n \in 1 .. N : proba[n] \in Nat
  BY <1>6
<1>9. \A l, n \in 1 .. N : l <= n => proba[l] <= proba[n]
  BY <1>2, <1>7, <1>8, SuiteCroissante
<1>10. QED
  BY <1>6, <1>9 DEF proba, N

(* Where the random number is when a position is drawn.                    *)
LEMMA ChoisiBornes ==
  ASSUME FormatRegulier, FormatCroissant, NEW b \in Seq(Nat), NEW r \in Nat,
         NEW c \in 1 .. Len(b), SommeTronquee(b) \in Nat \ {0},
         Choisi(b, r, c)
  PROVE  LET proba == ProbaPrecedente(b, SommeTronquee(b)) IN
         IF c = 1
         THEN r * Unite <= proba[2] \/ proba[Len(b) + 1] < r * Unite
         ELSE proba[c] < r * Unite /\ r * Unite <= proba[c + 1]
<1> DEFINE s == SommeTronquee(b)
           proba == ProbaPrecedente(b, s)
           N == Len(b)
           x == r * Unite
           Dans(n) == x >= proba[n] /\ x <= proba[n + 1]
<1>1. N \in Nat /\ N + 1 \in Nat /\ x \in Nat /\ DOMAIN b = 1 .. N
  BY VecteursAssumption
<1>2. /\ \A n \in 1 .. N + 1 : proba[n] \in Nat
      /\ \A l, n \in 1 .. N + 1 : l <= n => proba[l] <= proba[n]
      /\ proba[1] = 0
  <2> HIDE DEF s
  <2>1. s \in Nat \ {0}
    BY DEF s
  <2>2. QED
    BY <2>1, ProbaCroissante, ProbaParPas
<1>3. \A n : DansIntervalle(b, s, proba, r, n) <=> Dans(n)
  <2> HIDE DEF proba, s
  <2>1. s # 0
    BY DEF s
  <2>2. QED
    BY <2>1 DEF DansIntervalle
<1>4. \/ Dans(c) /\ \A n \in 1 .. c - 1 : ~ Dans(n)
      \/ c = 1 /\ \A n \in 1 .. N : ~ Dans(n)
  <2>1. \/ /\ DansIntervalle(b, s, proba, r, c)
           /\ \A n \in 1 .. c - 1 : ~ DansIntervalle(b, s, proba, r, n)
        \/ c = 1 /\ \A n \in DOMAIN b : ~ DansIntervalle(b, s, proba, r, n)
    BY DEF Choisi
  <2> HIDE DEF Dans, proba, s
  <2>2. QED
    BY <1>1, <1>3, <2>1
<1> HIDE DEF proba, N, x
<1>5. c \in 1 .. N
  BY DEF N
<1>6. CASE c # 1
  <2>1. Dans(c) /\ ~ Dans(c - 1)
    BY <1>1, <1>4, <1>5, <1>6
  <2>2. /\ c - 1 \in 1 .. N + 1 /\ c \in 1 .. N + 1 /\ (c - 1) + 1 = c
        /\ c - 1 <= c
    BY <1>1, <1>5, <1>6
  <2>3. proba[c - 1] <= proba[c] /\ proba[c - 1] \in Nat /\ proba[c] \in Nat
    BY <1>2, <2>2
  <2>4. proba[c] < x /\ x <= proba[c + 1]
    BY <1>1, <2>1, <2>2, <2>3
  <2>5. QED
    BY <1>6, <2>4 DEF proba, x
<1>7. CASE c = 1 /\ Dans(1)
  <2>1. x <= proba[2]
    BY <1>7
  <2>2. QED
    BY <1>7, <2>1 DEF proba, x
<1>8. CASE c = 1 /\ \A n \in 1 .. N : ~ Dans(n)
  <2>1. SUFFICES ASSUME x <= proba[N + 1] PROVE FALSE
    <3>1. N + 1 \in 1 .. N + 1
      BY <1>1
    <3>2. proba[N + 1] \in Nat
      BY <1>2, <3>1
    <3>3. proba[N + 1] < x
      BY <1>1, <2>1, <3>2
    <3>4. QED
      BY <1>8, <3>3 DEF proba, x, N
  <2> DEFINE T == {n \in 1 .. N : x <= proba[n + 1]}
  <2>2. N \in T /\ T \in SUBSET Nat
    BY <1>1, <1>5, <2>1
  <2>3. PICK n \in T : \A l \in T : n <= l
    <3> HIDE DEF T
    <3>1. QED
      BY <2>2, PlusPetit
  <2>4. n \in 1 .. N /\ x <= proba[n + 1]
    BY <2>3
  <2>5. CASE n = 1
    BY <1>1, <1>2, <1>8, <2>4, <2>5
  <2>6. CASE n # 1
    <3>1. n - 1 \in 1 .. N /\ (n - 1) + 1 = n /\ n \in 1 .. N + 1
      BY <1>1, <2>4, <2>6
    <3>2. ~ (x <= proba[n])
      BY <2>3, <2>4, <3>1
    <3>3. proba[n] <= x
      BY <1>1, <1>2, <3>1, <3>2
    <3>4. QED
      BY <1>8, <2>4, <3>3
  <2>7. QED
    BY <2>5, <2>6
<1>9. QED
  BY <1>4, <1>6, <1>7, <1>8

(* One random number more is counted where it is not beyond the end.       *)
LEMMA JusquaPas ==
  ASSUME NEW n \in Nat, NEW x \in Nat
  PROVE  /\ Jusqua(n, x) \in Nat
         /\ Jusqua(n + 1, x) =
              Jusqua(n, x) + (IF n * Unite <= x THEN 1 ELSE 0)
<1> DEFINE q == x \div Unite
           r == x % Unite
<1>1. Unite \in Nat \ {0}
  BY VecteursAssumption
<1>2. q \in Nat /\ r \in 0 .. Unite - 1 /\ x = q * Unite + r
  BY <1>1
<1> HIDE DEF q, r
<1>3. n * Unite <= x <=> n <= q
  <2> DEFINE y == n * Unite
             z == q * Unite
  <2>1. y \in Nat /\ z \in Nat /\ (n <= q => y <= z)
        /\ (q < n => z + Unite <= y) /\ x = z + r
    BY <1>1, <1>2, ProduitOrdonne
  <2> HIDE DEF y, z
  <2>2. y <= x <=> n <= q
    BY <1>1, <1>2, <2>1
  <2>3. QED
    BY <2>2 DEF y
<1>4. /\ Jusqua(n, x) = IF q + 1 <= n THEN q + 1 ELSE n
      /\ Jusqua(n + 1, x) = IF q + 1 <= n + 1 THEN q + 1 ELSE n + 1
  BY DEF Jusqua, q
<1> DEFINE J == Jusqua(n, x)
           K == Jusqua(n + 1, x)
           B == n * Unite <= x
<1>5. B <=> n <= q
  BY <1>3
<1>6. /\ J = IF q + 1 <= n THEN q + 1 ELSE n
      /\ K = IF q + 1 <= n + 1 THEN q + 1 ELSE n + 1
  BY <1>4
<1> HIDE DEF J, K, B
<1>7. CASE n <= q
  <2>1. J = n /\ K = n + 1 /\ B
    BY <1>2, <1>5, <1>6, <1>7
  <2>2. QED
    BY <2>1 DEF J, K, B
<1>8. CASE q < n
  <2>1. J = q + 1 /\ K = q + 1 /\ ~ B
    BY <1>2, <1>5, <1>6, <1>8
  <2>2. QED
    BY <1>2, <2>1 DEF J, K, B
<1>9. QED
  BY <1>2, <1>7, <1>8

LEMMA SommeNaturelle ==
  ASSUME FormatRegulier, NEW b \in Seq(Nat)
  PROVE  /\ \A n \in 0 .. Len(b) : SommesTronquees(b)[n] \in Nat
         /\ SommeTronquee(b) \in Nat
<1> DEFINE F == SommesTronquees(b)
           N == Len(b)
           T == {n \in 0 .. N : F[n] \notin Nat}
<1>1. /\ F[0] = 0
      /\ \A n \in 1 .. N : F[n] = AjouterTronque(F[n - 1], b[n])
  BY SommeParPas
<1>2. N \in 0 .. N /\ T \in SUBSET Nat /\ \A n \in 1 .. N : b[n] \in Nat
  OBVIOUS
<1> HIDE DEF F
<1>3. ASSUME T # {} PROVE FALSE
  <2>1. PICK n \in T : \A y \in T : n <= y
    <3> HIDE DEF T
    <3>1. QED
      BY <1>2, <1>3, PlusPetit
  <2>2. n \in 0 .. N /\ F[n] \notin Nat /\ n # 0
    BY <1>1, <2>1
  <2>3. n - 1 \in 0 .. N /\ n \in 1 .. N /\ F[n - 1] \in Nat
    BY <2>1, <2>2
  <2>4. QED
    BY <1>1, <1>2, <2>2, <2>3, Operations
<1>4. \A n \in 0 .. N : F[n] \in Nat
  BY <1>3
<1>5. QED
  BY <1>2, <1>4 DEF F, SommeTronquee

CompteInv == /\ nbTirages \in [1 .. Len(budgets) -> Int]
             /\ TiragesComptes

(* The draw that a call returns is the one its random number counts for.   *)
LEMMA RendreCompte ==
  ASSUME FormatRegulier, FormatCroissant, IInv, CompteInv, Rendre
  PROVE  CompteInv'
<1> DEFINE b == budgets
           N == Len(budgets)
           s == SommeTronquee(budgets)
           proba == ProbaPrecedente(b, s)
           r == lRandom
           x == lRandom * Unite
           c == lIndexSelectionne + 1
           A(p) == Jusqua(r, proba[p])
           Un(p) == IF x <= proba[p] THEN 1 ELSE 0
<1>1. /\ b \in Seq(Nat) /\ N \in Nat \ {0} /\ DOMAIN b = 1 .. N
      /\ r \in Nat /\ x \in Nat /\ c \in 1 .. N
  BY VecteurLu DEF IInv, TypesLocaux
<1>2. /\ budgets' = budgets /\ lRandom' = r + 1 /\ pc = "fin"
      /\ nbTirages' = [nbTirages EXCEPT ![c] = @ + 1]
  BY DEF Rendre
<1>3. nbTirages' \in [1 .. N -> Int]
  BY <1>1, <1>2 DEF CompteInv
<1>4. /\ nbTirages'[c] = nbTirages[c] + 1
      /\ \A p \in 1 .. N : p # c => nbTirages'[p] = nbTirages[p]
      /\ \A p \in 1 .. N : nbTirages[p] \in Int
  BY <1>1, <1>2 DEF CompteInv
<1>5. SUFFICES ASSUME s # 0
               PROVE  \A p \in 1 .. N :
                        nbTirages'[p] =
                          IF p = 1
                          THEN Jusqua(r + 1, proba[2]) + (r + 1)
                                 - Jusqua(r + 1, proba[N + 1])
                          ELSE Jusqua(r + 1, proba[p + 1])
                                 - Jusqua(r + 1, proba[p])
  BY <1>1, <1>2, <1>3, <1>5 DEF CompteInv, TiragesComptes
<1>6. s \in Nat \ {0}
  BY <1>1, <1>5, SommeNaturelle
<1>7. \A p \in 1 .. N :
        nbTirages[p] = IF p = 1 THEN A(2) + r - A(N + 1) ELSE A(p + 1) - A(p)
  BY <1>1, <1>6 DEF CompteInv, TiragesComptes
<1>8. /\ \A p \in 1 .. N + 1 : proba[p] \in Nat
      /\ \A l, p \in 1 .. N + 1 : l <= p => proba[l] <= proba[p]
  <2> HIDE DEF s
  <2>1. QED
    BY <1>1, <1>6, ProbaCroissante
<1>9. IF c = 1 THEN x <= proba[2] \/ proba[N + 1] < x
               ELSE proba[c] < x /\ x <= proba[c + 1]
  <2>1. Choisi(b, r, c)
    BY <1>2 DEF IInv, ResultatConforme
  <2>2. QED
    BY <1>1, <1>6, <2>1, ChoisiBornes
<1> HIDE DEF proba, s, b, N, x, r, c
<1>10. \A p \in 1 .. N + 1 :
         A(p) \in Nat /\ Jusqua(r + 1, proba[p]) = A(p) + Un(p)
  BY <1>1, <1>8, JusquaPas DEF x, r
<1> HIDE DEF A
<1>11. \A p \in 1 .. N :
         nbTirages'[p] = IF p = 1
                         THEN A(2) + Un(2) + (r + 1) - (A(N + 1) + Un(N + 1))
                         ELSE (A(p + 1) + Un(p + 1)) - (A(p) + Un(p))
  <2> SUFFICES ASSUME NEW p \in 1 .. N
               PROVE  nbTirages'[p] =
                        IF p = 1
                        THEN A(2) + Un(2) + (r + 1) - (A(N + 1) + Un(N + 1))
                        ELSE (A(p + 1) + Un(p + 1)) - (A(p) + Un(p))
    OBVIOUS
  <2>1. /\ p \in 1 .. N + 1 /\ p + 1 \in 1 .. N + 1
        /\ 2 \in 1 .. N + 1 /\ N + 1 \in 1 .. N + 1
        /\ c \in 1 .. N + 1 /\ c + 1 \in 1 .. N + 1
    BY <1>1
  <2>2. /\ A(p) \in Nat /\ A(p + 1) \in Nat /\ A(2) \in Nat
        /\ A(N + 1) \in Nat
    BY <1>10, <2>1
  <2>3. proba[p] \in Nat /\ proba[p + 1] \in Nat /\ proba[2] \in Nat
        /\ proba[N + 1] \in Nat /\ proba[c] \in Nat /\ proba[c + 1] \in Nat
    BY <1>8, <2>1
  <2>4. CASE c = p /\ p = 1
    <3>1. proba[2] <= proba[N + 1]
      BY <1>1, <1>8, <2>1
    <3>2. Un(2) = Un(N + 1) /\ Un(2) \in Nat
      BY <1>1, <1>9, <2>3, <2>4, <3>1
    <3>3. nbTirages'[p] = A(2) + r - A(N + 1) + 1
      BY <1>1, <1>4, <1>7, <2>4
    <3> HIDE DEF Un
    <3> DEFINE u == Un(2)
    <3>4. u \in Nat /\ Un(N + 1) = u
      BY <3>2
    <3> HIDE DEF u
    <3>5. A(2) + r - A(N + 1) + 1 = A(2) + u + (r + 1) - (A(N + 1) + u)
      BY <1>1, <2>2, <3>4
    <3>6. QED
      BY <2>4, <3>3, <3>4, <3>5 DEF u
  <2>5. CASE c # p /\ p = 1
    <3>1. proba[2] <= proba[c] /\ proba[c + 1] <= proba[N + 1]
      BY <1>1, <1>8, <2>1, <2>5
    <3>2. Un(2) = 0 /\ Un(N + 1) = 1
      BY <1>1, <1>9, <2>3, <2>5, <3>1
    <3>3. nbTirages'[p] = A(2) + r - A(N + 1)
      BY <1>1, <1>4, <1>7, <2>5
    <3> HIDE DEF Un
    <3>4. QED
      BY <1>1, <2>2, <2>5, <3>2, <3>3
  <2>6. CASE c = p /\ p # 1
    <3>1. Un(p) = 0 /\ Un(p + 1) = 1
      BY <1>1, <1>9, <2>3, <2>6
    <3>2. nbTirages'[p] = A(p + 1) - A(p) + 1
      BY <1>1, <1>4, <1>7, <2>6
    <3> HIDE DEF Un
    <3>3. QED
      BY <1>1, <2>2, <2>6, <3>1, <3>2
  <2>7. CASE c # p /\ p # 1
    <3>1. Un(p) = Un(p + 1) /\ Un(p) \in Nat
      <4>1. proba[p] <= proba[p + 1] /\ proba[2] <= proba[p]
            /\ proba[p + 1] <= proba[N + 1]
        BY <1>1, <1>8, <2>1, <2>7
      <4>2. CASE c = 1
        BY <1>1, <1>9, <2>3, <4>1, <4>2
      <4>3. CASE c # 1 /\ c < p
        <5>1. proba[c + 1] <= proba[p]
          BY <1>1, <1>8, <2>1, <4>3
        <5>2. x <= proba[c + 1]
          BY <1>9, <4>3
        <5>3. x <= proba[p] /\ x <= proba[p + 1]
          BY <1>1, <2>3, <4>1, <5>1, <5>2
        <5>4. QED
          BY <5>3
      <4>4. CASE c # 1 /\ p < c
        <5>1. proba[p + 1] <= proba[c]
          BY <1>1, <1>8, <2>1, <4>4
        <5>2. proba[c] < x
          BY <1>9, <4>4
        <5>3. ~ (x <= proba[p]) /\ ~ (x <= proba[p + 1])
          BY <1>1, <2>3, <4>1, <5>1, <5>2
        <5>4. QED
          BY <5>3
      <4>5. QED
        BY <1>1, <2>7, <4>2, <4>3, <4>4
    <3>2. nbTirages'[p] = A(p + 1) - A(p)
      BY <1>1, <1>4, <1>7, <2>7
    <3> HIDE DEF Un
    <3>3. QED
      BY <1>1, <2>2, <2>7, <3>1, <3>2
  <2>8. QED
    BY <2>4, <2>5, <2>6, <2>7
<1>12. QED
  <2> SUFFICES ASSUME NEW p \in 1 .. N
               PROVE  nbTirages'[p] =
                          IF p = 1
                          THEN Jusqua(r + 1, proba[2]) + (r + 1)
                                 - Jusqua(r + 1, proba[N + 1])
                          ELSE Jusqua(r + 1, proba[p + 1])
                                 - Jusqua(r + 1, proba[p])
    OBVIOUS
  <2>1. /\ p \in 1 .. N + 1 /\ p + 1 \in 1 .. N + 1
        /\ 2 \in 1 .. N + 1 /\ N + 1 \in 1 .. N + 1
    BY <1>1
  <2> HIDE DEF Un
  <2>2. /\ Jusqua(r + 1, proba[2]) = A(2) + Un(2)
        /\ Jusqua(r + 1, proba[N + 1]) = A(N + 1) + Un(N + 1)
        /\ Jusqua(r + 1, proba[p + 1]) = A(p + 1) + Un(p + 1)
        /\ Jusqua(r + 1, proba[p]) = A(p) + Un(p)
    BY <1>10, <2>1
  <2>3. nbTirages'[p] = IF p = 1
                        THEN A(2) + Un(2) + (r + 1) - (A(N + 1) + Un(N + 1))
                        ELSE (A(p + 1) + Un(p + 1)) - (A(p) + Un(p))
    BY <1>11
  <2> HIDE DEF A
  <2>4. CASE p = 1
    BY <2>2, <2>3, <2>4, Zenon
  <2>5. CASE p # 1
    BY <2>2, <2>3, <2>5, Zenon
  <2>6. QED
    BY <2>4, <2>5

(* The counts, initially and after every step.                             *)
LEMMA CompteInductif ==
  FormatRegulier /\ FormatCroissant => (Spec => []CompteInv)
<1> SUFFICES ASSUME FormatRegulier, FormatCroissant
             PROVE  Spec => []CompteInv
  OBVIOUS
<1>1. Init /\ IInv => CompteInv
  <2> SUFFICES ASSUME Init, IInv PROVE CompteInv
    OBVIOUS
  <2>1. /\ nbTirages = [p \in 1 .. Len(budgets) |-> 0] /\ lRandom = 0
        /\ Len(budgets) \in Nat \ {0} /\ DOMAIN budgets = 1 .. Len(budgets)
    BY VecteurLu DEF Init, IInv
  <2> DEFINE s == SommeTronquee(budgets)
             proba == ProbaPrecedente(budgets, s)
             N == Len(budgets)
  <2>2. \A x \in Nat : Jusqua(0, x) = 0
    <3> SUFFICES ASSUME NEW x \in Nat PROVE Jusqua(0, x) = 0
      OBVIOUS
    <3>1. x \div Unite \in Nat
      BY VecteursAssumption
    <3>2. QED
      BY <3>1 DEF Jusqua
  <2>3. ASSUME s # 0
        PROVE  \A p \in 1 .. N + 1 : Jusqua(lRandom, proba[p]) = 0
    <3>1. budgets \in Seq(Nat) /\ s \in Nat \ {0}
      BY <2>3, SommeNaturelle, VecteurLu DEF IInv
    <3> HIDE DEF s
    <3>2. \A p \in 1 .. N + 1 : proba[p] \in Nat
      BY <3>1, ProbaCroissante
    <3>3. QED
      BY <2>1, <2>2, <3>2
  <2>4. ASSUME s # 0, NEW p \in 1 .. N
        PROVE  nbTirages[p] =
                 IF p = 1
                 THEN Jusqua(lRandom, proba[2]) + lRandom
                        - Jusqua(lRandom, proba[N + 1])
                 ELSE Jusqua(lRandom, proba[p + 1]) - Jusqua(lRandom, proba[p])
    <3>1. /\ p \in 1 .. N + 1 /\ p + 1 \in 1 .. N + 1
          /\ 2 \in 1 .. N + 1 /\ N + 1 \in 1 .. N + 1
      BY <2>1
    <3> HIDE DEF s, proba, N
    <3>2. /\ Jusqua(lRandom, proba[2]) = 0
          /\ Jusqua(lRandom, proba[N + 1]) = 0
          /\ Jusqua(lRandom, proba[p + 1]) = 0
          /\ Jusqua(lRandom, proba[p]) = 0
      BY <2>3, <2>4, <3>1
    <3>3. nbTirages[p] = 0 /\ lRandom = 0
      BY <2>1 DEF N
    <3>4. QED
      BY <3>2, <3>3
  <2>5. nbTirages \in [1 .. N -> Int]
    BY <2>1
  <2>6. QED
    BY <2>1, <2>4, <2>5 DEF CompteInv, TiragesComptes
<1>2. IInv /\ CompteInv /\ [Next]_vars => CompteInv'
  <2> SUFFICES ASSUME IInv, CompteInv, [Next]_vars PROVE CompteInv'
    OBVIOUS
  <2>1. CASE UNCHANGED << budgets, lRandom, nbTirages >>
    BY <2>1 DEF CompteInv, TiragesComptes
  <2>2. CASE Rendre
    BY <2>2, RendreCompte
  <2>3. QED
    BY <2>1, <2>2 DEF Next, Sommer, Retenir, Passer, Epuiser, vars
<1>3. QED
  BY <1>1, <1>2, InvariantInductif, PTL DEF Spec

(* The draws are counted exactly, in every format whose spacing grows with *)
(* the numbers: over the calls made so far, each position has been drawn   *)
(* by the random numbers of its interval and by no other.                  *)
THEOREM TiragesExacts ==
  FormatRegulier /\ FormatCroissant => (Spec => []TiragesComptes)
<1>1. CompteInv => TiragesComptes
  BY DEF CompteInv
<1>2. QED
  BY <1>1, CompteInductif, PTL
-----------------------------------------------------------------------------
(* The numbers that bound the errors of the second loop.                   *)
LEMMA ErreursNaturelles ==
  ASSUME FormatRegulier
  PROVE  /\ Unite \in Nat \ {0}
         /\ Ulp(Unite) \in Nat \ {0} /\ Ulp(101 * Unite) \in Nat \ {0}
         /\ ErreurDouble \in Nat
         /\ ErreurDouble = 100 * Ulp(Unite) + 2 * Ulp(101 * Unite)
<1>1. Unite \in Nat \ {0} /\ 101 * Unite \in Nat
  BY VecteursAssumption
<1>2. Ulp(Unite) \in Nat \ {0} /\ Ulp(101 * Unite) \in Nat \ {0}
  BY <1>1 DEF FormatRegulier, Regulier
<1>3. QED
  BY <1>1, <1>2 DEF ErreurDouble

(* The product by a positive number can be simplified.                     *)
LEMMA Simplifier ==
  ASSUME NEW a \in Nat, NEW b \in Nat, NEW p \in Nat \ {0}
  PROVE  /\ a * p <= b * p => a <= b
         /\ a * p < b * p => a < b
<1>1. /\ b < a => b * p + p <= a * p
      /\ b <= a => b * p <= a * p
  BY ProduitOrdonne
<1> DEFINE x == a * p
           y == b * p
<1>2. x \in Nat /\ y \in Nat /\ (b < a => y + p <= x) /\ (b <= a => y <= x)
  BY <1>1
<1> HIDE DEF x, y
<1>3. (x <= y => a <= b) /\ (x < y => a < b)
  BY <1>2
<1>4. QED
  BY <1>3 DEF x, y

(* (budget / somme) * 100, with the errors of its two operations.          *)
LEMMA PourcentageErreur ==
  ASSUME FormatRegulier, FormatCroissant, NEW b \in Nat, NEW s \in Nat \ {0},
         b <= s * Unite, 100 * Ulp(Unite) <= 2 * Unite
  PROVE  LET w == Pourcentage(b, s)
             e == s * (100 * Ulp(Unite) + Ulp(101 * Unite))
         IN  /\ w \in Nat
             /\ 2 * (w * s) <= 200 * b + e
             /\ 200 * b <= 2 * (w * s) + e
<1> DEFINE q == Arrondi(s)[b]
           u == Ulp(b \div s)
           V == Ulp(Unite)
           W == Ulp(101 * Unite)
           w == Pourcentage(b, s)
           v == Ulp(100 * q)
<1>1. /\ Unite \in Nat \ {0} /\ V \in Nat \ {0} /\ W \in Nat \ {0}
      /\ 101 * Unite \in Nat
  BY ErreursNaturelles
<1>2. b \div s \in Nat /\ b \div s <= Unite
  <2> DEFINE c == b \div s
  <2>1. c \in Nat /\ b % s \in 0 .. s - 1 /\ b = c * s + (b % s)
    OBVIOUS
  <2> HIDE DEF c
  <2>2. c * s \in Nat /\ c * s <= b /\ s * Unite = Unite * s
        /\ Unite * s \in Nat
    BY <1>1, <2>1
  <2>3. c * s <= Unite * s
    BY <2>2
  <2>4. c <= Unite
    BY <1>1, <2>1, <2>3, Simplifier
  <2>5. QED
    BY <2>1, <2>4 DEF c
<1>3. u \in Nat \ {0} /\ u <= V
  BY <1>1, <1>2, UlpCroissant DEF FormatRegulier, Regulier
<1>4. q \in Nat /\ 2 * (q * s) <= 2 * b + s * u /\ 2 * b <= 2 * (q * s) + s * u
  BY <1>3, ArrondiErreur
<1>5. s * u <= s * V /\ s * u \in Nat /\ s * V \in Nat
  <2> HIDE DEF u, V
  <2>1. u * s <= V * s
    BY <1>1, <1>3, ProduitOrdonne
  <2>2. u * s = s * u /\ V * s = s * V /\ s * u \in Nat /\ s * V \in Nat
    BY <1>1, <1>3
  <2>3. QED
    BY <2>1, <2>2
<1> HIDE DEF q, u, V, W
<1> DEFINE x == q * s
           y == s * V
           z == s * Unite
<1>6. /\ x \in Nat /\ y \in Nat /\ z \in Nat
      /\ 2 * x <= 2 * b + y /\ 2 * b <= 2 * x + y /\ b <= z
  <2>1. x \in Nat /\ z \in Nat
    BY <1>1, <1>4
  <2> HIDE DEF x, z
  <2>2. 2 * x <= 2 * b + s * u /\ 2 * b <= 2 * x + s * u /\ b <= z
    BY <1>4 DEF x, z
  <2>3. QED
    BY <1>5, <2>1, <2>2
<1>7. 100 * q \in Nat /\ 100 * q <= 101 * Unite
  <2>1. 100 * V <= 2 * Unite
    BY DEF V
  <2>2. 100 * y <= 2 * z
    <3>1. (100 * V) * s <= (2 * Unite) * s
      BY <1>1, <2>1, ProduitOrdonne
    <3>2. (100 * V) * s = 100 * y /\ (2 * Unite) * s = 2 * z
      BY <1>1
    <3>3. QED
      BY <3>1, <3>2
  <2>3. (100 * q) * s = 100 * x /\ (101 * Unite) * s = 101 * z
    BY <1>1, <1>4
  <2> HIDE DEF x, y, z
  <2>4. 100 * x <= 101 * z
    BY <1>6, <2>2
  <2>5. (100 * q) * s <= (101 * Unite) * s
    BY <2>3, <2>4
  <2>6. QED
    BY <1>1, <1>4, <2>5, Simplifier
<1>8. v \in Nat \ {0} /\ v <= W
  BY <1>1, <1>7, UlpCroissant DEF FormatRegulier, Regulier, W
<1>9. w \in Nat /\ 2 * w <= 200 * q + v /\ 200 * q <= 2 * w + v
  <2> DEFINE n == 100 * q
  <2>1. n \in Nat /\ n \div 1 = n /\ Ulp(n \div 1) \in Nat \ {0}
    BY <1>7, <1>8
  <2> DEFINE A == Arrondi(1)[n]
  <2>2. /\ A \in Nat /\ 2 * (A * 1) <= 2 * n + 1 * Ulp(n \div 1)
        /\ 2 * n <= 2 * (A * 1) + 1 * Ulp(n \div 1)
    <3> HIDE DEF n
    <3>1. QED
      BY <2>1, ArrondiErreur
  <2>3. w = A
    BY DEF Pourcentage, q
  <2> HIDE DEF A
  <2>4. 1 * Ulp(n \div 1) = v /\ A * 1 = A /\ 2 * n = 200 * q
    BY <1>4, <1>8, <2>1, <2>2
  <2>5. QED
    BY <2>2, <2>3, <2>4
<1> HIDE DEF v, w
<1> DEFINE X == w * s
           Y == s * W
           t == s * v
<1>10. X \in Nat /\ Y \in Nat /\ t \in Nat /\ t <= Y
  <2>1. v * s <= W * s
    BY <1>1, <1>8, ProduitOrdonne
  <2>2. v * s = t /\ W * s = Y /\ X \in Nat /\ Y \in Nat /\ t \in Nat
    BY <1>1, <1>8, <1>9
  <2>3. QED
    BY <2>1, <2>2
<1>11. 2 * X <= 200 * x + t /\ 200 * x <= 2 * X + t
  <2>1. (2 * w) * s <= (200 * q + v) * s /\ (200 * q) * s <= (2 * w + v) * s
    BY <1>4, <1>8, <1>9, ProduitOrdonne
  <2>2. /\ (2 * w) * s = 2 * X /\ (200 * q + v) * s = 200 * x + t
        /\ (200 * q) * s = 200 * x /\ (2 * w + v) * s = 2 * X + t
    BY <1>4, <1>8, <1>9
  <2>3. QED
    BY <2>1, <2>2
<1>12. s * (100 * V + W) = 100 * y + Y
  BY <1>1
<1> HIDE DEF x, y, z, X, Y, t
<1>13. 2 * X <= 200 * b + (100 * y + Y) /\ 200 * b <= 2 * X + (100 * y + Y)
  BY <1>6, <1>10, <1>11
<1>14. QED
  BY <1>9, <1>12, <1>13 DEF X, w, V, W

(* One step of the loop moves the end of the interval by the percentage of *)
(* the campaign, within the error.                                         *)
LEMMA EtapeErreur ==
  ASSUME FormatRegulier, FormatCroissant, NEW b \in Nat, NEW s \in Nat \ {0},
         b <= s * Unite, 100 * Ulp(Unite) <= 2 * Unite, NEW p \in Nat,
         2 * (p * s) + 200 * b + s * ErreurDouble <= 202 * (s * Unite)
  PROVE  LET suivante == Plus(p, Pourcentage(b, s))
             e == s * ErreurDouble
         IN  /\ suivante \in Nat
             /\ 2 * (suivante * s) <= 2 * (p * s) + 200 * b + e
             /\ 2 * (p * s) + 200 * b <= 2 * (suivante * s) + e
<1> DEFINE V == Ulp(Unite)
           W == Ulp(101 * Unite)
           w == Pourcentage(b, s)
           n == p + w
           A == Plus(p, w)
           v == Ulp(n)
<1>1. /\ Unite \in Nat \ {0} /\ V \in Nat \ {0} /\ W \in Nat \ {0}
      /\ 101 * Unite \in Nat /\ ErreurDouble = 100 * V + 2 * W
  BY ErreursNaturelles
<1>2. /\ w \in Nat /\ 2 * (w * s) <= 200 * b + s * (100 * V + W)
      /\ 200 * b <= 2 * (w * s) + s * (100 * V + W)
  BY PourcentageErreur
<1> HIDE DEF V, W, w
<1> DEFINE x == p * s
           y == w * s
           f == s * (100 * V + W)
           g == s * W
           z == s * Unite
<1>3. /\ x \in Nat /\ y \in Nat /\ f \in Nat /\ g \in Nat /\ z \in Nat
      /\ s * ErreurDouble = f + g /\ n \in Nat /\ n * s = x + y
      /\ (101 * Unite) * s = 101 * z
  BY <1>1, <1>2
<1>4. /\ 2 * y <= 200 * b + f /\ 200 * b <= 2 * y + f
      /\ 2 * x + 200 * b + (f + g) <= 202 * z
  BY <1>2, <1>3
<1>5. n <= 101 * Unite
  <2> HIDE DEF x, y, f, g, z, n
  <2>1. x + y <= 101 * z
    BY <1>3, <1>4
  <2>2. n * s <= (101 * Unite) * s
    BY <1>3, <2>1
  <2>3. QED
    BY <1>1, <1>3, <2>2, Simplifier
<1>6. v \in Nat \ {0} /\ v <= W
  BY <1>1, <1>3, <1>5, UlpCroissant DEF FormatRegulier, Regulier, W
<1>7. A \in Nat /\ 2 * A <= 2 * n + v /\ 2 * n <= 2 * A + v
  <2>1. n \div 1 = n /\ Ulp(n \div 1) \in Nat \ {0}
    BY <1>3, <1>6
  <2>2. /\ A \in Nat /\ 2 * (A * 1) <= 2 * n + 1 * Ulp(n \div 1)
        /\ 2 * n <= 2 * (A * 1) + 1 * Ulp(n \div 1)
    <3>1. A = Arrondi(1)[n]
      BY DEF Plus
    <3> HIDE DEF n, A
    <3>2. QED
      BY <1>3, <2>1, <3>1, ArrondiErreur
  <2> HIDE DEF A, n
  <2>3. 1 * Ulp(n \div 1) = v /\ A * 1 = A
    BY <1>6, <2>1, <2>2
  <2>4. QED
    BY <2>2, <2>3
<1> HIDE DEF A, n, v
<1> DEFINE X == A * s
           t == v * s
<1>8. X \in Nat /\ t \in Nat /\ t <= g
  <2>1. v * s <= W * s /\ W * s = g
    BY <1>1, <1>6, ProduitOrdonne
  <2>2. QED
    BY <1>1, <1>6, <1>7, <2>1
<1>9. 2 * X <= 2 * (x + y) + t /\ 2 * (x + y) <= 2 * X + t
  <2>1. (2 * A) * s <= (2 * n + v) * s /\ (2 * n) * s <= (2 * A + v) * s
    BY <1>3, <1>6, <1>7, ProduitOrdonne
  <2>2. /\ (2 * A) * s = 2 * X /\ (2 * n + v) * s = 2 * (n * s) + t
        /\ (2 * n) * s = 2 * (n * s) /\ (2 * A + v) * s = 2 * X + t
    BY <1>3, <1>6, <1>7
  <2> HIDE DEF X, t, x, y
  <2>3. QED
    BY <1>3, <2>1, <2>2
<1> HIDE DEF x, y, f, g, z, X, t
<1>10. 2 * X <= 2 * x + 200 * b + (f + g) /\ 2 * x + 200 * b <= 2 * X + (f + g)
  BY <1>3, <1>4, <1>8, <1>9
<1>11. QED
  BY <1>3, <1>7, <1>10 DEF X, x, A, w

(* The sums of the budgets, without truncation.                            *)
LEMMA TotalParPas ==
  ASSUME NEW v \in Seq(Nat)
  PROVE  LET total == Totaux(v) IN
         /\ total[0] = 0
         /\ \A n \in 1 .. Len(v) : total[n] = total[n - 1] + v[n]
         /\ \A n \in 0 .. Len(v) : total[n] \in Nat
         /\ \A l, n \in 0 .. Len(v) : l <= n => total[l] <= total[n]
<1> DEFINE N == Len(v)
           g == [p \in (0 .. N) \X Nat |->
                   IF p[1] = 0 THEN 0 ELSE p[2] + v[p[1]]]
           F == Totaux(v)
<1>1. /\ N \in Nat /\ 0 \in Nat /\ 0 <= N
      /\ \A n \in 0 .. N : n # 0 => v[n] \in Nat
  OBVIOUS
<1> HIDE DEF N
<1>2. g \in [(0 .. N) \X Nat -> Nat]
  <2>1. ASSUME NEW q \in (0 .. N) \X Nat, q[1] # 0
        PROVE  q[2] + v[q[1]] \in Nat
    BY <1>1, <2>1
  <2>2. QED
    BY <1>1, <2>1
<1>3. PICK f \in [0 .. N -> Nat] : Suite(f, 0, N, 0, g)
  <2> HIDE DEF g
  <2>1. QED
    BY <1>1, <1>2, SuiteExiste
<1>4. f = [n \in 0 .. N |-> IF n = 0 THEN 0 ELSE f[n - 1] + v[n]]
  <2>1. ASSUME NEW n \in 0 .. N, n # 0
        PROVE  g[<< n, f[n - 1] >>] = f[n - 1] + v[n]
    <3>1. << n, f[n - 1] >> \in (0 .. N) \X Nat
      BY <1>1, <2>1
    <3>2. QED
      BY <2>1, <3>1
  <2> HIDE DEF g
  <2>2. QED
    BY <1>3, <2>1 DEF Suite
<1>5. F = [n \in 0 .. N |-> IF n = 0 THEN 0 ELSE F[n - 1] + v[n]]
  BY <1>4 DEF Totaux, N
<1> HIDE DEF F
<1>6. \A n \in 1 .. N : n \in 0 .. N /\ n # 0 /\ v[n] \in Nat
  BY <1>1
<1>7. F[0] = 0 /\ \A n \in 1 .. N : F[n] = F[n - 1] + v[n]
  BY <1>1, <1>5, <1>6
<1> DEFINE T == {n \in 0 .. N : F[n] \notin Nat}
<1>8. ASSUME T # {} PROVE FALSE
  <2>1. T \in SUBSET Nat
    BY <1>1
  <2>2. PICK n \in T : \A y \in T : n <= y
    <3> HIDE DEF T
    <3>1. QED
      BY <1>8, <2>1, PlusPetit
  <2>3. n \in 0 .. N /\ F[n] \notin Nat /\ n # 0
    BY <1>7, <2>2
  <2>4. n - 1 \in 0 .. N /\ n \in 1 .. N /\ F[n - 1] \in Nat
    BY <1>1, <2>2, <2>3
  <2>5. QED
    BY <1>6, <1>7, <2>3, <2>4
<1>9. \A n \in 0 .. N : F[n] \in Nat
  BY <1>8
<1>10. \A n \in 0 .. N : n < N => F[n] <= F[n + 1]
  <2> SUFFICES ASSUME NEW n \in 0 .. N, n < N PROVE F[n] <= F[n + 1]
    OBVIOUS
  <2>1. n + 1 \in 1 .. N /\ (n + 1) - 1 = n
    BY <1>1
  <2>2. F[n + 1] = F[n] + v[n + 1] /\ v[n + 1] \in Nat /\ F[n] \in Nat
    BY <1>6, <1>7, <1>9, <2>1
  <2>3. QED
    BY <2>2
<1>11. \A l, n \in 0 .. N : l <= n => F[l] <= F[n]
  BY <1>1, <1>9, <1>10, SuiteCroissante
<1>12. QED
  BY <1>7, <1>9, <1>11 DEF F, N

(* What SMT needs to know of a quotient and of a product.                  *)
LEMMA Division ==
  ASSUME NEW n \in Nat, NEW p \in Nat \ {0}
  PROVE  /\ n \div p \in Nat
         /\ n % p \in 0 .. p - 1
         /\ n = (n \div p) * p + (n % p)
         /\ (n \div p) * p <= n
         /\ n < (n \div p) * p + p
<1> DEFINE q == n \div p
           r == n % p
           x == q * p
<1>1. q \in Nat /\ r \in 0 .. p - 1 /\ n = x + r
  OBVIOUS
<1> HIDE DEF q, r
<1>2. x \in Nat
  BY <1>1
<1> HIDE DEF x
<1>3. x <= n /\ n < x + p
  BY <1>1, <1>2
<1>4. QED
  BY <1>1, <1>3 DEF q, r, x

LEMMA Distribuer ==
  ASSUME NEW a \in Nat, NEW b \in Nat, NEW p \in Nat
  PROVE  /\ (a + b) * p = a * p + b * p
         /\ a * p \in Nat /\ b * p \in Nat /\ (a + b) * p \in Nat
OBVIOUS

(* With whole budgets that the format holds, nothing is truncated.         *)
LEMMA SommeEntiere ==
  ASSUME FormatRegulier, NEW v \in Seq(Nat), Entiers(v), VecteurPrecis(v)
  PROVE  \A n \in 0 .. Len(v) : Totaux(v)[n] = SommesTronquees(v)[n] * Unite
<1> DEFINE N == Len(v)
           F == Totaux(v)
           M == SommesTronquees(v)
           T == {n \in 0 .. N : F[n] # M[n] * Unite}
<1>1. /\ Unite \in Nat \ {0} /\ N \in Nat
      /\ \A n \in 1 .. N : v[n] \in Nat /\ v[n] % Unite = 0
  BY VecteursAssumption DEF Entiers
<1>2. /\ F[0] = 0 /\ \A n \in 1 .. N : F[n] = F[n - 1] + v[n]
      /\ \A n \in 0 .. N : F[n] \in Nat /\ F[n] <= F[N]
  BY TotalParPas
<1>3. /\ M[0] = 0 /\ \A n \in 1 .. N : M[n] = AjouterTronque(M[n - 1], v[n])
      /\ \A n \in 0 .. N : M[n] \in Nat
  BY SommeParPas, SommeNaturelle
<1>4. \A x \in 0 .. F[N] \div Unite : EstFlottant(x * Unite)
  BY DEF VecteurPrecis
<1> HIDE DEF F, M, N
<1>5. ASSUME T # {} PROVE FALSE
  <2>1. T \in SUBSET Nat
    BY <1>1
  <2>2. PICK n \in T : \A y \in T : n <= y
    <3> HIDE DEF T
    <3>1. QED
      BY <1>5, <2>1, PlusPetit
  <2>3. n \in 0 .. N /\ F[n] # M[n] * Unite /\ n # 0
    BY <1>1, <1>2, <1>3, <2>2
  <2>4. n - 1 \in 0 .. N /\ n \in 1 .. N /\ F[n - 1] = M[n - 1] * Unite
    BY <1>1, <2>2, <2>3
  <2> DEFINE m == v[n] \div Unite
             x == M[n - 1] + m
  <2>5. m \in Nat /\ v[n] = m * Unite
    <3>1. v[n] \in Nat /\ v[n] % Unite = 0 /\ Unite \in Nat \ {0}
      BY <1>1, <2>4
    <3>2. m \in Nat /\ v[n] = m * Unite + 0
      BY <3>1, Division
    <3> HIDE DEF m
    <3>3. m * Unite \in Nat
      BY <3>1, <3>2
    <3>4. QED
      BY <3>2, <3>3
  <2> HIDE DEF m
  <2>6. M[n - 1] \in Nat /\ F[n] \in Nat /\ F[N] \in Nat /\ F[n] <= F[N]
    BY <1>1, <1>2, <1>3, <2>4
  <2>7. x \in Nat /\ F[n] = x * Unite
    <3>1. F[n] = M[n - 1] * Unite + m * Unite
      BY <1>2, <2>4, <2>5
    <3>2. x * Unite = M[n - 1] * Unite + m * Unite
      BY <1>1, <2>5, <2>6, Distribuer
    <3>3. QED
      BY <2>5, <2>6, <3>1, <3>2
  <2>8. AjouterTronque(M[n - 1], v[n]) = EnEntier(Arrondi(1)[x * Unite])
    <3>1. M[n - 1] * Unite + v[n] = x * Unite
      BY <1>1, <2>5, <2>6, Distribuer
    <3>2. QED
      BY <3>1 DEF AjouterTronque, Plus
  <2> HIDE DEF x
  <2>9. x <= F[N] \div Unite
    <3> DEFINE q == F[N] \div Unite
    <3>1. q \in Nat /\ F[N] < q * Unite + Unite
      BY <1>1, <2>6, Division
    <3> HIDE DEF q
    <3>2. q + 1 \in Nat /\ (q + 1) * Unite = q * Unite + Unite
          /\ q * Unite \in Nat /\ x * Unite \in Nat
      BY <1>1, <2>7, <3>1
    <3> DEFINE y == x * Unite
               z == q * Unite
    <3>7. F[n] = y /\ y \in Nat /\ z \in Nat /\ F[N] < z + Unite
      BY <2>7, <3>1, <3>2
    <3>8. y < z + Unite
      <4> HIDE DEF y, z
      <4>1. QED
        BY <1>1, <2>6, <3>7
    <3>3. x * Unite < (q + 1) * Unite
      BY <3>2, <3>8
    <3>4. x < q + 1
      BY <1>1, <2>7, <3>2, <3>3, Simplifier
    <3>5. x <= q
      BY <2>7, <3>1, <3>4
    <3>6. QED
      BY <3>5 DEF q
  <2>10. EstFlottant(x * Unite)
    <3>1. F[N] \div Unite \in Nat
      BY <1>1, <2>6, Division
    <3>2. x \in 0 .. F[N] \div Unite
      BY <2>7, <2>9, <3>1
    <3>3. QED
      BY <1>4, <3>2
  <2>11. Arrondi(1)[x * Unite] = x * Unite
    BY <2>10, ArrondiExact
  <2>12. (x * Unite) \div Unite = x
    <3>1. 0 \in 0 .. Unite - 1 /\ x * Unite = x * Unite + 0
          /\ x * Unite \in Nat
      BY <1>1, <2>7
    <3>2. QED
      BY <1>1, <2>7, <3>1, QuotientUnique
  <2>13. M[n] = x
    BY <1>3, <2>4, <2>8, <2>11, <2>12 DEF EnEntier
  <2>14. QED
    BY <2>3, <2>7, <2>13
<1>6. QED
  BY <1>5 DEF F, M, N

(* The random numbers of an interval whose length is the percentage of b,  *)
(* within half of e: as many as the percentage says, within two.           *)
LEMMA PartSuivante ==
  ASSUME NEW s \in Nat \ {0}, NEW U \in Nat \ {0}, NEW b \in Nat, NEW e \in Nat,
         NEW x \in Nat, NEW y \in Nat, NEW a \in Nat, NEW c \in Nat,
         a * U <= y, y < a * U + U, c * U <= x, x < c * U + U,
         2 * (y * s) <= 2 * (x * s) + 200 * b + e,
         2 * (x * s) + 200 * b <= 2 * (y * s) + e,
         e <= 2 * (s * U)
  PROVE  /\ (a - c) * (s * U) <= 100 * b + 2 * (s * U)
         /\ (a - c) * (s * U) >= 100 * b - 2 * (s * U)
<1> DEFINE p == a * U
           q == c * U
           g == p * s
           h == q * s
           X == x * s
           Y == y * s
           z == s * U
<1>1. p \in Nat /\ q \in Nat /\ X \in Nat /\ Y \in Nat /\ z \in Nat
  OBVIOUS
<1>2. (a - c) * z = g - h
  OBVIOUS
<1>3. /\ 2 * Y <= 2 * X + 200 * b + e /\ 2 * X + 200 * b <= 2 * Y + e
      /\ e <= 2 * z
  OBVIOUS
<1>4. p <= y /\ y <= p + U /\ q <= x /\ x <= q + U
  <2>1. p <= y /\ y < p + U /\ q <= x /\ x < q + U
    OBVIOUS
  <2> HIDE DEF p, q
  <2>2. QED
    BY <1>1, <2>1
<1> HIDE DEF p, q
<1>5. g \in Nat /\ h \in Nat
  BY <1>1
<1>6. /\ g <= Y /\ Y <= (p + U) * s
      /\ h <= X /\ X <= (q + U) * s
  <2>1. p + U \in Nat /\ q + U \in Nat
    BY <1>1
  <2>2. QED
    BY <1>1, <1>4, <2>1, ProduitOrdonne
<1>7. (p + U) * s = g + z /\ (q + U) * s = h + z
  BY <1>1
<1> HIDE DEF g, h, X, Y, z
<1>8. Y <= g + z /\ X <= h + z /\ g <= Y /\ h <= X
  BY <1>6, <1>7
<1>9. g - h <= 100 * b + 2 * z /\ g - h >= 100 * b - 2 * z
  BY <1>1, <1>3, <1>5, <1>8
<1>10. (a - c) * z <= 100 * b + 2 * z /\ (a - c) * z >= 100 * b - 2 * z
  BY <1>2, <1>9
<1>11. QED
  BY <1>10 DEF z

(* The first interval also takes what the last one leaves, and it begins   *)
(* with the random number 0: a whole budget does not reach a random number *)
(* beyond its percentage.                                                  *)
LEMMA PartPremiere ==
  ASSUME NEW s \in Nat \ {0}, NEW U \in Nat \ {0}, NEW b \in Nat, NEW e \in Nat,
         NEW y \in Nat, NEW a \in Nat, NEW m \in Nat, NEW d \in {99, 100},
         b = m * U, a * U <= y, y < a * U + U,
         2 * (y * s) <= 200 * b + e, 200 * b <= 2 * (y * s) + e, e < 2 * U
  PROVE  /\ (a + 101 - d) * (s * U) <= 100 * b + 2 * (s * U)
         /\ (a + 101 - d) * (s * U) >= 100 * b - 2 * (s * U)
<1> DEFINE p == a * U
           f == a * s
           g == p * s
           Y == y * s
           z == s * U
           n == a + 101 - d
<1>1. /\ p \in Nat /\ Y \in Nat /\ z \in Nat /\ U <= z /\ f \in Nat
      /\ g = f * U /\ g = a * z
  <2>1. 1 * U <= s * U
    BY ProduitOrdonne
  <2>2. QED
    BY <2>1
<1>2. 2 * Y <= 200 * b + e /\ 200 * b <= 2 * Y + e
  OBVIOUS
<1>3. p <= y /\ y <= p + U
  <2>1. p <= y /\ y < p + U
    OBVIOUS
  <2> HIDE DEF p
  <2>2. QED
    BY <1>1, <2>1
<1> HIDE DEF p, z
<1>4. g \in Nat /\ g <= Y /\ Y <= g + z
  <2>1. g \in Nat /\ p + U \in Nat /\ (p + U) * s = g + z
    BY <1>1 DEF z
  <2>2. g <= Y /\ Y <= (p + U) * s
    BY <1>1, <1>3, <2>1, ProduitOrdonne
  <2>3. QED
    BY <2>1, <2>2
<1> HIDE DEF g, Y
<1>5. f <= 100 * m
  <2>1. 2 * g < 200 * b + 2 * U
    BY <1>1, <1>2, <1>4
  <2>2. (2 * f) * U = 2 * g /\ (200 * m + 2) * U = 200 * b + 2 * U
        /\ 2 * f \in Nat /\ 200 * m + 2 \in Nat
    BY <1>1
  <2>3. (2 * f) * U < (200 * m + 2) * U
    BY <2>1, <2>2
  <2>4. 2 * f < 200 * m + 2
    BY <2>2, <2>3, Simplifier
  <2> HIDE DEF f
  <2>5. QED
    BY <1>1, <2>4
<1>6. g <= 100 * b
  <2> HIDE DEF f
  <2>1. f * U <= (100 * m) * U /\ (100 * m) * U = 100 * b
    BY <1>1, <1>5, ProduitOrdonne
  <2>2. QED
    BY <1>1, <2>1
<1>7. n * z = g + z \/ n * z = g + 2 * z
  <2>1. n = a + 1 \/ n = a + 2
    OBVIOUS
  <2>2. (a + 1) * z = a * z + z /\ (a + 2) * z = a * z + 2 * z
    BY <1>1
  <2> HIDE DEF n
  <2>3. QED
    BY <1>1, <2>1, <2>2
<1> HIDE DEF n
<1>8. n * z <= 100 * b + 2 * z /\ n * z >= 100 * b - 2 * z
  BY <1>1, <1>2, <1>4, <1>6, <1>7
<1>9. QED
  BY <1>8 DEF n, z

(* The sum of the loop, and what the precision of a vector says of it.     *)
LEMMA SommePrecise ==
  ASSUME FormatRegulier, NEW v \in Seq(Nat), v # << >>, Entiers(v),
         VecteurPrecis(v), SommeTronquee(v) # 0
  PROVE  LET s == SommeTronquee(v)
             N == Len(v)
             e == s * ErreurDouble
         IN  /\ s \in Nat \ {0} /\ N \in Nat \ {0} /\ e \in Nat
             /\ Totaux(v)[N] = s * Unite
             /\ e < 2 * Unite
             /\ N * e < 2 * (s * Unite)
             /\ 100 * Ulp(Unite) <= 2 * Unite
<1> DEFINE s == SommeTronquee(v)
           N == Len(v)
           E == ErreurDouble
           V == Ulp(Unite)
           W == Ulp(101 * Unite)
<1>1. /\ Unite \in Nat \ {0} /\ E \in Nat /\ V \in Nat \ {0}
      /\ W \in Nat \ {0} /\ E = 100 * V + 2 * W
  BY ErreursNaturelles
<1>2. s \in Nat \ {0} /\ N \in Nat \ {0}
  BY SommeNaturelle
<1>3. Totaux(v)[N] = s * Unite
  BY <1>2, SommeEntiere DEF SommeTronquee
<1>4. (s * Unite) \div Unite = s
  <2> HIDE DEF s
  <2>1. 0 \in 0 .. Unite - 1 /\ s * Unite = s * Unite + 0 /\ s * Unite \in Nat
    BY <1>1, <1>2
  <2>2. QED
    BY <1>1, <1>2, <2>1, QuotientUnique
<1>5. s * E < 2 * Unite /\ N * E < 2 * Unite
  BY <1>3, <1>4 DEF VecteurPrecis
<1> HIDE DEF s, N, E, V, W
<1>6. N * (s * E) < 2 * (s * Unite)
  <2> DEFINE x == N * E
  <2>1. x \in Nat /\ 2 * Unite \in Nat /\ x < 2 * Unite
    BY <1>1, <1>2, <1>5
  <2>2. N * (s * E) = x * s /\ (2 * Unite) * s = 2 * (s * Unite)
    BY <1>1, <1>2
  <2> HIDE DEF x
  <2>3. x * s + s <= (2 * Unite) * s
    BY <1>2, <2>1, ProduitOrdonne
  <2>4. x * s \in Nat /\ (2 * Unite) * s \in Nat
    BY <1>1, <1>2, <2>1
  <2> DEFINE y == x * s
             z == (2 * Unite) * s
  <2>5. y < z
    <3> HIDE DEF y, z
    <3>1. y \in Nat /\ z \in Nat /\ y + s <= z
      BY <2>3, <2>4 DEF y, z
    <3>2. QED
      BY <1>2, <3>1
  <2>6. QED
    BY <2>2, <2>5
<1>7. 100 * V <= 2 * Unite
  <2>1. 1 * E <= N * E
    <3>1. E = 0 \/ E \in Nat \ {0}
      BY <1>1
    <3>2. CASE E = 0
      BY <1>2, <3>2
    <3>3. CASE E \in Nat \ {0}
      BY <1>2, <3>3, ProduitOrdonne
    <3>4. QED
      BY <3>1, <3>2, <3>3
  <2> DEFINE x == N * E
  <2>2. x \in Nat /\ E <= x /\ x < 2 * Unite
    BY <1>1, <1>2, <1>5, <2>1
  <2> HIDE DEF x
  <2>3. QED
    BY <1>1, <2>2
<1>8. s * E \in Nat
  BY <1>1, <1>2
<1>9. QED
  BY <1>2, <1>3, <1>5, <1>6, <1>7, <1>8 DEF s, N, E, V

(* One step of the loop on such a vector, given what the steps before it   *)
(* have added up to.                                                       *)
LEMMA PasErreur ==
  ASSUME FormatRegulier, FormatCroissant, NEW v \in Seq(Nat), v # << >>,
         Entiers(v), VecteurPrecis(v), SommeTronquee(v) # 0,
         NEW n \in 1 .. Len(v),
         ProbaPrecedente(v, SommeTronquee(v))[n] \in Nat,
         2 * (ProbaPrecedente(v, SommeTronquee(v))[n] * SommeTronquee(v))
           <= 200 * Totaux(v)[n - 1]
                + (n - 1) * (SommeTronquee(v) * ErreurDouble)
  PROVE  LET s == SommeTronquee(v)
             proba == ProbaPrecedente(v, s)
             e == s * ErreurDouble
         IN  /\ proba[n + 1] \in Nat /\ v[n] \in Nat
             /\ 2 * (proba[n + 1] * s) <= 2 * (proba[n] * s) + 200 * v[n] + e
             /\ 2 * (proba[n] * s) + 200 * v[n] <= 2 * (proba[n + 1] * s) + e
<1> DEFINE s == SommeTronquee(v)
           proba == ProbaPrecedente(v, s)
           p == proba[n]
           b == v[n]
           N == Len(v)
           e == s * ErreurDouble
           z == s * Unite
           F == Totaux(v)
<1>1. /\ s \in Nat \ {0} /\ N \in Nat \ {0} /\ e \in Nat
      /\ F[N] = z /\ N * e < 2 * z /\ 100 * Ulp(Unite) <= 2 * Unite
  BY SommePrecise
<1>2. proba[n + 1] = Plus(p, Pourcentage(b, s))
  <2> HIDE DEF s
  <2>1. QED
    BY <1>1, ProbaParPas
<1>3. F[n] = F[n - 1] + b /\ F[n] \in Nat /\ F[n - 1] \in Nat /\ F[n] <= F[N]
  <2>1. n - 1 \in 0 .. N /\ n \in 0 .. N /\ N \in 0 .. N /\ n <= N
    BY <1>1
  <2>2. QED
    BY <2>1, TotalParPas
<1>4. b \in Nat /\ p \in Nat
  OBVIOUS
<1>5. Unite \in Nat \ {0} /\ z \in Nat
  BY <1>1, VecteursAssumption
<1>6. 2 * (p * s) <= 200 * F[n - 1] + (n - 1) * e
  OBVIOUS
<1> HIDE DEF s, proba, p, b, N, e, z, F
<1>7. b <= z
  BY <1>1, <1>3, <1>4, <1>5
<1>8. (n - 1) * e + e <= N * e /\ (n - 1) * e \in Nat /\ N * e \in Nat
  <2>1. n - 1 \in Nat /\ n \in Nat /\ n <= N /\ (n - 1) * e + e = n * e
    BY <1>1 DEF N
  <2>2. n * e <= N * e
    <3>1. CASE e = 0
      BY <1>1, <2>1, <3>1
    <3>2. CASE e \in Nat \ {0}
      BY <1>1, <2>1, <3>2, ProduitOrdonne
    <3>3. QED
      BY <1>1, <3>1, <3>2
  <2>3. (n - 1) * e \in Nat /\ N * e \in Nat
    BY <1>1, <2>1
  <2>4. QED
    BY <2>1, <2>2, <2>3
<1> DEFINE x == p * s
           f == (n - 1) * e
           g == N * e
<1>9. 2 * x + 200 * b + e <= 202 * z
  <2>1. x \in Nat /\ f \in Nat /\ g \in Nat
    BY <1>1, <1>4, <1>8
  <2>2. 2 * x <= 200 * F[n - 1] + f /\ f + e <= g /\ g < 2 * z
    BY <1>1, <1>6, <1>8
  <2> DEFINE a == F[n - 1]
  <2>3. a \in Nat /\ a + b <= z /\ 2 * x <= 200 * a + f
    BY <1>1, <1>3, <2>2
  <2>4. e \in Nat
    BY <1>1
  <2> HIDE DEF x, f, g, a
  <2>5. QED
    BY <1>4, <1>5, <2>1, <2>2, <2>3, <2>4
<1>10. /\ Plus(p, Pourcentage(b, s)) \in Nat
       /\ 2 * (Plus(p, Pourcentage(b, s)) * s) <= 2 * (p * s) + 200 * b + e
       /\ 2 * (p * s) + 200 * b <= 2 * (Plus(p, Pourcentage(b, s)) * s) + e
  BY <1>1, <1>4, <1>7, <1>9, EtapeErreur DEF e, z
<1>11. QED
  BY <1>2, <1>4, <1>10 DEF s, proba, p, b, e

(* The end of every interval, after the errors of all the steps before.    *)
LEMMA ProbaErreur ==
  ASSUME FormatRegulier, FormatCroissant, NEW v \in Seq(Nat), v # << >>,
         Entiers(v), VecteurPrecis(v), SommeTronquee(v) # 0
  PROVE  LET s == SommeTronquee(v)
             proba == ProbaPrecedente(v, s)
             e == s * ErreurDouble
         IN  \A n \in 0 .. Len(v) :
               /\ proba[n + 1] \in Nat
               /\ 2 * (proba[n + 1] * s) <= 200 * Totaux(v)[n] + n * e
               /\ 200 * Totaux(v)[n] <= 2 * (proba[n + 1] * s) + n * e
<1> DEFINE s == SommeTronquee(v)
           proba == ProbaPrecedente(v, s)
           N == Len(v)
           e == s * ErreurDouble
           F == Totaux(v)
           Borne(n) == /\ proba[n + 1] \in Nat
                       /\ 2 * (proba[n + 1] * s) <= 200 * F[n] + n * e
                       /\ 200 * F[n] <= 2 * (proba[n + 1] * s) + n * e
           T == {n \in 0 .. N : ~ Borne(n)}
<1>1. s \in Nat \ {0} /\ N \in Nat \ {0} /\ e \in Nat
  BY SommePrecise
<1>2. /\ F[0] = 0 /\ \A n \in 1 .. N : F[n] = F[n - 1] + v[n]
      /\ \A n \in 0 .. N : F[n] \in Nat
  BY TotalParPas
<1>3. proba[1] = 0
  <2> HIDE DEF s
  <2>1. QED
    BY <1>1, ProbaParPas
<1>4. ASSUME NEW n \in 1 .. N, Borne(n - 1)
      PROVE  /\ proba[n + 1] \in Nat /\ v[n] \in Nat /\ proba[n] \in Nat
             /\ 2 * (proba[n + 1] * s) <= 2 * (proba[n] * s) + 200 * v[n] + e
             /\ 2 * (proba[n] * s) + 200 * v[n] <= 2 * (proba[n + 1] * s) + e
  <2>1. (n - 1) + 1 = n
    OBVIOUS
  <2>2. proba[n] \in Nat /\ 2 * (proba[n] * s) <= 200 * F[n - 1] + (n - 1) * e
    BY <1>4, <2>1
  <2>3. QED
    BY <2>2, PasErreur
<1> HIDE DEF s, proba, N, e, F
<1>5. ASSUME NEW n \in 1 .. N, Borne(n - 1) PROVE Borne(n)
  <2>1. (n - 1) + 1 = n /\ n - 1 \in 0 .. N /\ n \in 0 .. N /\ n - 1 \in Nat
    BY <1>1
  <2> DEFINE x == proba[n] * s
             y == proba[n + 1] * s
             f == (n - 1) * e
             a == F[n - 1]
             b == v[n]
  <2>2. /\ x \in Nat /\ y \in Nat /\ f \in Nat /\ f + e = n * e
        /\ a \in Nat /\ b \in Nat /\ F[n] = a + b
    <3>1. proba[n + 1] \in Nat /\ b \in Nat /\ proba[n] \in Nat
      <4> HIDE DEF Borne
      <4>1. QED
        BY <1>4, <1>5
    <3>2. x \in Nat /\ y \in Nat
      BY <1>1, <3>1
    <3>3. f \in Nat /\ f + e = n * e
      BY <1>1, <2>1
    <3>4. a \in Nat /\ F[n] = a + b
      BY <1>2, <2>1
    <3>5. QED
      BY <3>1, <3>2, <3>3, <3>4
  <2>3. 2 * x <= 200 * a + f /\ 200 * a <= 2 * x + f
    BY <1>5, <2>1
  <2>4. 2 * y <= 2 * x + 200 * b + e /\ 2 * x + 200 * b <= 2 * y + e
    BY <1>4, <1>5
  <2> HIDE DEF x, y, f, a, b
  <2>5. 2 * y <= 200 * (a + b) + (f + e) /\ 200 * (a + b) <= 2 * y + (f + e)
    BY <1>1, <2>2, <2>3, <2>4
  <2>6. proba[n + 1] \in Nat
    BY <1>4, <1>5
  <2>7. QED
    BY <2>2, <2>5, <2>6 DEF y
<1>6. ASSUME T # {} PROVE FALSE
  <2>1. T \in SUBSET Nat
    BY <1>1
  <2>2. PICK n \in T : \A y \in T : n <= y
    <3> HIDE DEF T
    <3>1. QED
      BY <1>6, <2>1, PlusPetit
  <2>3. Borne(0)
    BY <1>1, <1>2, <1>3
  <2>4. n \in 0 .. N /\ ~ Borne(n) /\ n # 0
    BY <2>2, <2>3
  <2> HIDE DEF Borne
  <2>5. n \in 1 .. N /\ n - 1 \in 0 .. N /\ n - 1 \notin T
    BY <1>1, <2>1, <2>2, <2>4
  <2>6. Borne(n - 1)
    BY <2>5
  <2>7. QED
    BY <1>5, <2>4, <2>5, <2>6
<1>7. \A n \in 0 .. N : Borne(n)
  <2> HIDE DEF Borne
  <2>1. QED
    BY <1>6
<1>8. QED
  BY <1>7 DEF s, proba, N, e, F

(* No interval reaches 101, and the last one ends beyond 99.               *)
LEMMA IntervallesBornes ==
  ASSUME FormatRegulier, FormatCroissant, NEW v \in Seq(Nat), v # << >>,
         Entiers(v), VecteurPrecis(v), SommeTronquee(v) # 0
  PROVE  LET proba == ProbaPrecedente(v, SommeTronquee(v)) IN
         /\ \A n \in 1 .. Len(v) + 1 :
              /\ proba[n] \in Nat
              /\ Jusqua(101, proba[n]) = (proba[n] \div Unite) + 1
         /\ proba[Len(v) + 1] \div Unite \in {99, 100}
<1> DEFINE s == SommeTronquee(v)
           proba == ProbaPrecedente(v, s)
           N == Len(v)
           e == s * ErreurDouble
           z == s * Unite
           F == Totaux(v)
<1>1. /\ s \in Nat \ {0} /\ N \in Nat \ {0} /\ e \in Nat
      /\ F[N] = z /\ N * e < 2 * z
  BY SommePrecise
<1>2. Unite \in Nat \ {0} /\ z \in Nat
  BY <1>1, VecteursAssumption
<1>3. \A n \in 0 .. N :
        /\ proba[n + 1] \in Nat
        /\ 2 * (proba[n + 1] * s) <= 200 * F[n] + n * e
        /\ 200 * F[n] <= 2 * (proba[n + 1] * s) + n * e
  BY ProbaErreur
<1>4. \A n \in 0 .. N : F[n] \in Nat /\ F[n] <= z
  <2>1. \A n \in 0 .. N : n <= N /\ n \in 0 .. N /\ N \in 0 .. N
    BY <1>1
  <2>2. QED
    BY <1>1, <2>1, TotalParPas
<1> HIDE DEF s, proba, N, e, z, F
<1>5. ASSUME NEW n \in 0 .. N
      PROVE  n * e \in Nat /\ n * e <= N * e /\ N * e \in Nat
  <2>1. n \in Nat /\ n <= N
    BY <1>1
  <2>2. n * e <= N * e
    <3>1. CASE e = 0
      BY <1>1, <2>1, <3>1
    <3>2. CASE e \in Nat \ {0}
      BY <1>1, <2>1, <3>2, ProduitOrdonne
    <3>3. QED
      BY <1>1, <3>1, <3>2
  <2>3. n * e \in Nat /\ N * e \in Nat
    BY <1>1, <2>1
  <2>4. QED
    BY <2>2, <2>3
<1>6. ASSUME NEW n \in 0 .. N PROVE proba[n + 1] < 101 * Unite
  <2> DEFINE x == proba[n + 1]
             y == x * s
             f == n * e
             g == N * e
             a == F[n]
  <2>1. /\ x \in Nat /\ y \in Nat /\ f \in Nat /\ f <= g /\ g \in Nat
        /\ a \in Nat /\ a <= z /\ g < 2 * z
    <3>1. x \in Nat /\ y \in Nat
      <4>1. x \in Nat
        BY <1>3
      <4> HIDE DEF x
      <4>2. QED
        BY <1>1, <4>1
    <3>2. f \in Nat /\ f <= g /\ g \in Nat
      BY <1>5
    <3>3. a \in Nat /\ a <= z
      BY <1>4
    <3>4. QED
      BY <1>1, <3>1, <3>2, <3>3
  <2>2. 2 * y <= 200 * a + f
    BY <1>3
  <2>3. (101 * Unite) * s = 101 * z /\ 101 * Unite \in Nat
    BY <1>1, <1>2 DEF z
  <2> HIDE DEF x, f, g, a
  <2>4. y < 101 * z
    <3> HIDE DEF y
    <3>1. QED
      BY <1>2, <2>1, <2>2
  <2>5. x * s < (101 * Unite) * s
    BY <2>3, <2>4
  <2>6. x < 101 * Unite
    BY <1>1, <2>1, <2>3, <2>5, Simplifier
  <2>7. QED
    BY <2>6 DEF x
<1>7. ASSUME NEW x \in Nat, x < 101 * Unite
      PROVE  x \div Unite \in Nat /\ x \div Unite <= 100
  <2> DEFINE q == x \div Unite
  <2>1. q \in Nat /\ q * Unite <= x
    BY <1>2, Division
  <2> HIDE DEF q
  <2>2. q * Unite < 101 * Unite
    <3>1. q * Unite \in Nat
      BY <1>2, <2>1
    <3> DEFINE y == q * Unite
    <3>2. y \in Nat /\ y <= x
      BY <2>1, <3>1
    <3>3. y < 101 * Unite
      <4> HIDE DEF y
      <4>1. QED
        BY <1>2, <1>7, <3>2
    <3>4. QED
      BY <3>3
  <2>3. q < 101
    BY <1>2, <2>1, <2>2, Simplifier
  <2>4. QED
    BY <2>1, <2>3 DEF q
<1>8. ASSUME NEW n \in 1 .. N + 1
      PROVE  /\ proba[n] \in Nat
             /\ Jusqua(101, proba[n]) = (proba[n] \div Unite) + 1
  <2>1. n - 1 \in 0 .. N /\ (n - 1) + 1 = n
    BY <1>1
  <2>2. proba[n] \in Nat /\ proba[n] < 101 * Unite
    BY <1>3, <1>6, <2>1
  <2> DEFINE q == proba[n] \div Unite
  <2>3. q \in Nat /\ q <= 100
    BY <1>7, <2>2
  <2>4. Jusqua(101, proba[n]) = IF q + 1 <= 101 THEN q + 1 ELSE 101
    BY DEF Jusqua
  <2> HIDE DEF q
  <2>5. q + 1 <= 101
    BY <2>3
  <2>6. QED
    BY <2>2, <2>4, <2>5 DEF q
<1>9. proba[N + 1] \div Unite \in {99, 100}
  <2> DEFINE x == proba[N + 1]
             q == x \div Unite
             y == x * s
             g == N * e
  <2>1. N \in 0 .. N
    BY <1>1
  <2>2. x \in Nat /\ x < 101 * Unite /\ y \in Nat
    BY <1>1, <1>3, <1>6, <2>1
  <2>3. 200 * z <= 2 * y + g /\ g < 2 * z /\ g \in Nat
    BY <1>1, <1>3, <1>5, <2>1
  <2> HIDE DEF x, g
  <2>4. q \in Nat /\ q <= 100 /\ x < q * Unite + Unite
    BY <1>2, <1>7, <2>2, Division
  <2> HIDE DEF q
  <2>5. (99 * Unite) * s = 99 * z /\ 99 * Unite \in Nat
    BY <1>1, <1>2 DEF z
  <2>6. 99 * z < y
    <3> HIDE DEF y
    <3>1. QED
      BY <1>2, <2>2, <2>3
  <2>7. 99 * Unite < x
    <3>1. (99 * Unite) * s < x * s
      BY <2>5, <2>6
    <3>2. QED
      BY <1>1, <2>2, <2>5, <3>1, Simplifier
  <2>8. 99 < q + 1
    <3> DEFINE h == q * Unite
    <3>1. h \in Nat /\ (q + 1) * Unite = h + Unite /\ q + 1 \in Nat
      BY <1>2, <2>4
    <3>2. 99 * Unite < h + Unite
      <4>1. x < h + Unite
        BY <2>4
      <4> HIDE DEF h
      <4>2. QED
        BY <1>2, <2>2, <2>7, <3>1, <4>1
    <3>3. 99 * Unite < (q + 1) * Unite
      BY <3>1, <3>2
    <3>4. QED
      BY <1>2, <3>1, <3>3, Simplifier
  <2>9. q \in {99, 100}
    BY <2>4, <2>8
  <2>10. QED
    BY <2>9 DEF q, x
<1>10. QED
  BY <1>8, <1>9 DEF s, proba, N

(* The count of one position once every random number has been drawn.      *)
LEMMA BilanProportionnel ==
  ASSUME FormatRegulier, FormatCroissant, TypesLocaux, CompteInv,
         lRandom = 101, Entiers(budgets), VecteurPrecis(budgets), Total > 0,
         NEW p \in DOMAIN budgets
  PROVE  /\ nbTirages[p] * Total <= 100 * budgets[p] + 2 * Total
         /\ nbTirages[p] * Total >= 100 * budgets[p] - 2 * Total
<1> DEFINE s == SommeTronquee(budgets)
           proba == ProbaPrecedente(budgets, s)
           N == Len(budgets)
           e == s * ErreurDouble
           z == s * Unite
           b == budgets[p]
           Q(n) == proba[n] \div Unite
<1>1. /\ budgets \in Seq(Nat) /\ N \in Nat \ {0} /\ budgets # << >>
      /\ DOMAIN budgets = 1 .. N /\ p \in 1 .. N /\ b \in Nat
      /\ Unite \in Nat \ {0}
  BY VecteurLu, VecteursAssumption DEF TypesLocaux
<1>2. s # 0
  <2>1. Total = SommesTronquees(budgets)[N] * Unite
    BY <1>1, SommeEntiere DEF Total
  <2>2. s = SommesTronquees(budgets)[N]
    BY DEF SommeTronquee
  <2>3. 0 * Unite = 0
    BY <1>1
  <2>4. QED
    BY <2>1, <2>2, <2>3
<1>3. /\ s \in Nat \ {0} /\ e \in Nat /\ Total = z
      /\ e < 2 * Unite /\ N * e < 2 * z
  BY <1>1, <1>2, SommePrecise DEF Total
<1>4. z \in Nat /\ e <= 2 * z
  <2>1. 1 * Unite <= s * Unite
    BY <1>1, <1>3, ProduitOrdonne
  <2>2. s * Unite \in Nat
    BY <1>1, <1>3
  <2>3. Unite <= z /\ z \in Nat
    BY <1>1, <2>1, <2>2
  <2> HIDE DEF z, e
  <2>4. QED
    BY <1>1, <1>3, <2>3
<1>5. /\ \A n \in 1 .. N + 1 :
           proba[n] \in Nat /\ Jusqua(101, proba[n]) = Q(n) + 1
      /\ Q(N + 1) \in {99, 100}
  BY <1>1, <1>2, IntervallesBornes
<1>6. /\ 2 * (proba[p + 1] * s) <= 2 * (proba[p] * s) + 200 * b + e
      /\ 2 * (proba[p] * s) + 200 * b <= 2 * (proba[p + 1] * s) + e
  <2>1. p - 1 \in 0 .. N /\ (p - 1) + 1 = p
    BY <1>1
  <2>2. /\ proba[p] \in Nat
        /\ 2 * (proba[p] * s) <= 200 * Totaux(budgets)[p - 1] + (p - 1) * e
    BY <1>1, <1>2, <2>1, ProbaErreur
  <2>3. QED
    BY <1>1, <1>2, <2>2, PasErreur
<1>7. nbTirages[p] = IF p = 1
                     THEN Jusqua(101, proba[2]) + 101 - Jusqua(101, proba[N + 1])
                     ELSE Jusqua(101, proba[p + 1]) - Jusqua(101, proba[p])
  BY <1>1, <1>2 DEF CompteInv, TiragesComptes
<1>8. proba[1] = 0
  <2> HIDE DEF s
  <2>1. QED
    BY <1>1, <1>3, ProbaParPas
<1>9. /\ p \in 1 .. N + 1 /\ p + 1 \in 1 .. N + 1
      /\ 2 \in 1 .. N + 1 /\ N + 1 \in 1 .. N + 1
  BY <1>1
<1> HIDE DEF s, proba, N, e, b
<1>10. \A n \in 1 .. N + 1 :
         /\ Q(n) \in Nat /\ Q(n) * Unite <= proba[n]
         /\ proba[n] < Q(n) * Unite + Unite
  BY <1>1, <1>5, Division
<1>11. CASE p = 1
  <2> DEFINE y == proba[2]
             a == Q(2)
             d == Q(N + 1)
             m == b \div Unite
  <2>1. nbTirages[p] = (a + 1) + 101 - (d + 1)
    BY <1>5, <1>7, <1>9, <1>11
  <2>2. a \in Nat /\ y \in Nat /\ a * Unite <= y /\ y < a * Unite + Unite
    BY <1>5, <1>9, <1>10
  <2>3. d \in {99, 100}
    BY <1>5
  <2>4. m \in Nat /\ b = m * Unite
    <3>1. b % Unite = 0
      BY DEF Entiers, b
    <3>2. m \in Nat /\ b = m * Unite + 0
      BY <1>1, <3>1, Division
    <3> HIDE DEF m
    <3>3. m * Unite \in Nat
      BY <1>1, <3>2
    <3>4. QED
      BY <3>2, <3>3
  <2>5. p + 1 = 2 /\ proba[p] * s = 0
    BY <1>3, <1>8, <1>11
  <2>6. 2 * (y * s) <= 200 * b + e /\ 200 * b <= 2 * (y * s) + e
    <3>1. 2 * (y * s) <= 2 * 0 + 200 * b + e /\ 2 * 0 + 200 * b <= 2 * (y * s) + e
      BY <1>6, <2>5
    <3> DEFINE w == y * s
    <3>2. w \in Nat
      BY <1>3, <2>2
    <3>3. 2 * w <= 200 * b + e /\ 200 * b <= 2 * w + e
      <4> HIDE DEF w
      <4>1. 2 * w <= 2 * 0 + 200 * b + e /\ 2 * 0 + 200 * b <= 2 * w + e
        BY <3>1 DEF w
      <4>2. QED
        BY <1>1, <1>3, <3>2, <4>1
    <3>4. QED
      BY <3>3
  <2> HIDE DEF y, a, d, m
  <2>7. nbTirages[p] = a + 101 - d
    BY <2>1, <2>2, <2>3
  <2>8. /\ (a + 101 - d) * (s * Unite) <= 100 * b + 2 * (s * Unite)
        /\ (a + 101 - d) * (s * Unite) >= 100 * b - 2 * (s * Unite)
    BY <1>1, <1>3, <2>2, <2>3, <2>4, <2>6, PartPremiere
  <2>9. QED
    BY <1>3, <2>7, <2>8 DEF b
<1>12. CASE p # 1
  <2> DEFINE x == proba[p]
             y == proba[p + 1]
             c == Q(p)
             a == Q(p + 1)
  <2>1. nbTirages[p] = (a + 1) - (c + 1)
    BY <1>5, <1>7, <1>9, <1>12
  <2>2. /\ a \in Nat /\ y \in Nat /\ a * Unite <= y /\ y < a * Unite + Unite
        /\ c \in Nat /\ x \in Nat /\ c * Unite <= x /\ x < c * Unite + Unite
    BY <1>5, <1>9, <1>10
  <2>3. /\ 2 * (y * s) <= 2 * (x * s) + 200 * b + e
        /\ 2 * (x * s) + 200 * b <= 2 * (y * s) + e
    BY <1>6
  <2> HIDE DEF x, y, a, c
  <2>4. nbTirages[p] = a - c
    BY <2>1, <2>2
  <2>5. /\ (a - c) * (s * Unite) <= 100 * b + 2 * (s * Unite)
        /\ (a - c) * (s * Unite) >= 100 * b - 2 * (s * Unite)
    BY <1>1, <1>3, <1>4, <2>2, <2>3, PartSuivante
  <2>6. QED
    BY <1>3, <2>4, <2>5 DEF b
<1>13. QED
  BY <1>11, <1>12

(* Every random number is drawn once, in order.                            *)
AleaInv == lRandom \in 0 .. 101 /\ (pc = "bilan" => lRandom = 101)

(* Weighted by the budgets: when the format is precise enough for the      *)
(* whole budgets of a vector, each campaign is drawn by a share of the     *)
(* random numbers that is its share of the money, within two hundredths,   *)
(* although the sum is truncated, each interval is rounded three times and *)
(* the errors of the intervals before its own displace it.                 *)
THEOREM PartsProportionnelles ==
  /\ FormatRegulier
  /\ FormatCroissant
  /\ \A v \in Vecteurs : Entiers(v) => VecteurPrecis(v)
  => (Spec => []PartProportionnelle)
<1> SUFFICES ASSUME FormatRegulier, FormatCroissant,
                    \A v \in Vecteurs : Entiers(v) => VecteurPrecis(v)
             PROVE  Spec => []PartProportionnelle
  OBVIOUS
<1>1. Init => AleaInv
  BY DEF Init, AleaInv
<1>2. AleaInv /\ [Next]_vars => AleaInv'
  <2> SUFFICES ASSUME AleaInv, [Next]_vars PROVE AleaInv'
    OBVIOUS
  <2>1. CASE Rendre
    BY <2>1 DEF AleaInv, Rendre, Alea
  <2>2. CASE ~ Rendre
    BY <2>2 DEF AleaInv, Next, Sommer, Retenir, Passer, Epuiser, vars
  <2>3. QED
    BY <2>1, <2>2
<1>3. IInv /\ CompteInv /\ AleaInv => PartProportionnelle
  <2> SUFFICES ASSUME IInv, CompteInv, AleaInv, pc = "bilan",
                      Entiers(budgets), Total > 0, NEW p \in DOMAIN budgets
               PROVE  /\ nbTirages[p] * Total <= 100 * budgets[p] + 2 * Total
                      /\ nbTirages[p] * Total >= 100 * budgets[p] - 2 * Total
    BY DEF PartProportionnelle
  <2>1. TypesLocaux /\ lRandom = 101 /\ VecteurPrecis(budgets)
    BY DEF IInv, AleaInv, TypesLocaux
  <2>2. QED
    BY <2>1, BilanProportionnel
<1>4. QED
  BY <1>1, <1>2, <1>3, InvariantInductif, CompteInductif, PTL DEF Spec
-----------------------------------------------------------------------------
(* The draw is a function of the random number, null sums, overlaps and    *)
(* gaps between the intervals included: every random number selects a      *)
(* position of a vector that is not empty, and only one, so that           *)
(* RandomSelectCampagne always returns a campaign of the vector.           *)
THEOREM TirageFonctionnel ==
  ASSUME NEW b \in Seq(Nat), b # << >>, NEW alea \in Alea
  PROVE  \E n \in DOMAIN b : \A p \in DOMAIN b : Choisi(b, alea, p) <=> p = n
<1> DEFINE s == SommeTronquee(b)
           proba == ProbaPrecedente(b, s)
           Dans(p) == DansIntervalle(b, s, proba, alea, p)
           T == {p \in DOMAIN b : Dans(p)}
           PremierDans(p) == Dans(p) /\ \A j \in 1 .. p - 1 : ~ Dans(j)
<1>1. Len(b) \in Nat \ {0} /\ DOMAIN b = 1 .. Len(b)
  OBVIOUS
<1>2. \A p : Choisi(b, alea, p) <=>
               PremierDans(p) \/ (p = 1 /\ \A j \in DOMAIN b : ~ Dans(j))
  BY DEF Choisi
<1> HIDE DEF Dans
<1>3. CASE T = {}
  <2>1. 1 \in DOMAIN b /\ \A p \in DOMAIN b : ~ Dans(p)
    BY <1>1, <1>3
  <2>2. \A p \in DOMAIN b : Choisi(b, alea, p) <=> p = 1
    BY <1>2, <2>1
  <2>3. QED
    BY <2>1, <2>2
<1>4. CASE T # {}
  <2>1. T \in SUBSET Nat
    BY <1>1
  <2>2. PICK n \in T : \A y \in T : n <= y
    <3> HIDE DEF T
    <3>1. QED
      BY <1>4, <2>1, PlusPetit
  <2>3. n \in DOMAIN b /\ n \in Nat /\ Dans(n)
    BY <2>1, <2>2
  <2>4. \A p \in DOMAIN b : p < n => ~ Dans(p)
    BY <1>1, <2>2, <2>3
  <2>5. ASSUME NEW p \in DOMAIN b PROVE Choisi(b, alea, p) <=> p = n
    <3>1. Choisi(b, alea, p) <=> PremierDans(p)
      BY <1>2, <2>3
    <3>2. p \in Nat /\ p >= 1
      BY <1>1
    <3>3. PremierDans(n)
      <4>1. \A j \in 1 .. n - 1 : j \in DOMAIN b /\ j < n
        BY <1>1, <2>3
      <4>2. QED
        BY <2>3, <2>4, <4>1
    <3>4. ASSUME PremierDans(p), p # n PROVE FALSE
      <4>1. CASE p < n
        BY <2>4, <3>4, <4>1
      <4>2. CASE n < p
        <5>1. n \in 1 .. p - 1
          BY <1>1, <2>3, <3>2, <4>2
        <5>2. QED
          BY <2>3, <3>4, <5>1
      <4>3. QED
        BY <2>3, <3>2, <3>4, <4>1, <4>2
    <3> HIDE DEF PremierDans
    <3>5. QED
      BY <3>1, <3>3, <3>4
  <2>6. QED
    BY <2>3, <2>5
<1>5. QED
  BY <1>3, <1>4
=============================================================================
