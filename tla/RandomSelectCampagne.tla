------------------------ MODULE RandomSelectCampagne ------------------------
(***************************************************************************)
(* The loops of CampagnesManager::RandomSelectCampagne, statement by       *)
(* statement, on a fixed vector of budgets.  The random number is uniform  *)
(* over 0..100, so calling the method once for each of its 101 values and  *)
(* counting the outcomes gives the probability of each campaign: nbTirages *)
(* is that count.                                                          *)
(***************************************************************************)
EXTENDS Tirage, FiniteSets

CONSTANTS
  Vecteurs,     (* the vectors of budgets to examine, in units             *)
  Inf, NaN      (* the float values that are not numbers of units          *)

ASSUME VecteursAssumption ==
  /\ Unite \in Nat \ {0}
  /\ Inf \notin Nat /\ NaN \notin Nat /\ Inf # NaN
  /\ \A v \in Vecteurs : v \in Seq(Nat) /\ v # << >>

VARIABLES
  budgets,              (* the budgets of pCampagnesSelectionnees          *)
  pc,                   (* "somme", "boucle" or "fin"                      *)
  lRandom,              (* the random number of this call                  *)
  k,                    (* campaigns the for_each has read                 *)
  lSommeBudget,
  i,                    (* index of the second loop, from 0                *)
  lProbaBrecedente,
  lIndexSelectionne,
  nbTirages             (* outcomes of the calls made so far, by position  *)

vars == << budgets, pc, lRandom, k, lSommeBudget, i, lProbaBrecedente,
           lIndexSelectionne, nbTirages >>

(* The float operations of the second loop, where a null sum produces the  *)
(* special values.                                                         *)
Diviser(a, s) == IF s # 0 THEN Arrondi(s)[a]
                 ELSE IF a > 0 THEN Inf ELSE NaN

Centupler(x) == IF x \in {Inf, NaN} THEN x ELSE Arrondi(1)[100 * x]

Ajouter(x, y) == CASE NaN \in {x, y} -> NaN
                   [] NaN \notin {x, y} /\ Inf \in {x, y} -> Inf
                   [] OTHER -> Plus(x, y)

InfEgal(x, y) == /\ NaN \notin {x, y}
                 /\ IF Inf \in {x, y} THEN y = Inf ELSE x <= y

(* Faulty variant: every campaign has the weight of the first.             *)
PonderationPremiere == Centupler(Diviser(budgets[1], lSommeBudget))

(* (lVecteurPonderation[i] / (float)lSommeBudget) * 100                    *)
Ponderation == Centupler(Diviser(budgets[i + 1], lSommeBudget))

(* Faulty variant: the upper end of the interval is left out.              *)
DansIntervalleOuvert ==
  /\ InfEgal(lProbaBrecedente, lRandom * Unite)
  /\ ~ InfEgal(Ajouter(lProbaBrecedente, Ponderation), lRandom * Unite)

(* The test of the second loop.                                            *)
DansIntervalleCourant ==
  /\ InfEgal(lProbaBrecedente, lRandom * Unite)
  /\ InfEgal(lRandom * Unite, Ajouter(lProbaBrecedente, Ponderation))

Init ==
  /\ budgets \in Vecteurs
  /\ pc = "somme"
  /\ lRandom = 0
  /\ k = 0
  /\ lSommeBudget = 0
  /\ i = 0
  /\ lProbaBrecedente = 0
  /\ lIndexSelectionne = 0
  /\ nbTirages = [p \in DOMAIN budgets |-> 0]

(* One step of the for_each over the candidates.                           *)
Sommer ==
  /\ pc = "somme"
  /\ k < Len(budgets)
  /\ k' = k + 1
  /\ lSommeBudget' = AjouterTronque(lSommeBudget, budgets[k + 1])
  /\ pc' = IF k + 1 = Len(budgets) THEN "boucle" ELSE "somme"
  /\ UNCHANGED << budgets, lRandom, i, lProbaBrecedente, lIndexSelectionne,
                  nbTirages >>

(* The random number falls in the interval of position i: break.           *)
Retenir ==
  /\ pc = "boucle"
  /\ i < Len(budgets)
  /\ DansIntervalleCourant
  /\ lIndexSelectionne' = i
  /\ pc' = "fin"
  /\ UNCHANGED << budgets, lRandom, k, lSommeBudget, i, lProbaBrecedente,
                  nbTirages >>

(* It does not: the next interval begins where this one ends.              *)
Passer ==
  /\ pc = "boucle"
  /\ i < Len(budgets)
  /\ ~ DansIntervalleCourant
  /\ lProbaBrecedente' = Ajouter(lProbaBrecedente, Ponderation)
  /\ i' = i + 1
  /\ UNCHANGED << budgets, pc, lRandom, k, lSommeBudget, lIndexSelectionne,
                  nbTirages >>

(* Faulty variant: the last campaign is the default one.                   *)
EpuiserDernier ==
  /\ pc = "boucle"
  /\ i = Len(budgets)
  /\ lIndexSelectionne' = i - 1
  /\ pc' = "fin"
  /\ UNCHANGED << budgets, lRandom, k, lSommeBudget, i, lProbaBrecedente,
                  nbTirages >>

(* No interval holds the random number: lIndexSelectionne is still 0.      *)
Epuiser ==
  /\ pc = "boucle"
  /\ i = Len(budgets)
  /\ pc' = "fin"
  /\ UNCHANGED << budgets, lRandom, k, lSommeBudget, i, lProbaBrecedente,
                  lIndexSelectionne, nbTirages >>

(* The call returns; the next one draws the next random number.            *)
Rendre ==
  /\ pc = "fin"
  /\ lRandom \in Alea
  /\ nbTirages' = [nbTirages EXCEPT ![lIndexSelectionne + 1] = @ + 1]
  /\ lRandom' = lRandom + 1
  /\ pc' = IF lRandom + 1 \in Alea THEN "somme" ELSE "bilan"
  /\ k' = 0
  /\ lSommeBudget' = 0
  /\ i' = 0
  /\ lProbaBrecedente' = 0
  /\ lIndexSelectionne' = 0
  /\ UNCHANGED budgets

Next == Sommer \/ Retenir \/ Passer \/ Epuiser \/ Rendre

Spec == Init /\ [][Next]_vars
-----------------------------------------------------------------------------
(* The loops return the position that Tirage!Choisi gives, which is what   *)
(* SelectCampagne's model uses: null sums, infinities and NaN included.    *)
ResultatConforme ==
  pc = "fin" => Choisi(budgets, lRandom, lIndexSelectionne + 1)

(* Although the intervals are closed and so overlap at their ends, a       *)
(* campaign that has no money left is never drawn after the first place:   *)
(* the interval before its own takes the common end.                       *)
EpuiseeJamaisTiree ==
  pc = "fin" /\ lIndexSelectionne > 0 => budgets[lIndexSelectionne + 1] > 0

(* What the loops have established on the way: the sum of the budgets read *)
(* so far, then the end of the last interval, a float that the random      *)
(* number is beyond, and that no interval passed held it.  With a null sum *)
(* the loop goes on only when the first budget is null, and then on NaN.   *)
BoucleInv ==
  /\ pc = "somme" =>
       /\ k < Len(budgets) /\ lSommeBudget = SommesTronquees(budgets)[k]
       /\ i = 0 /\ lProbaBrecedente = 0 /\ lIndexSelectionne = 0
  /\ pc = "boucle" =>
       LET proba == ProbaPrecedente(budgets, lSommeBudget) IN
       /\ lSommeBudget = SommeTronquee(budgets) /\ lIndexSelectionne = 0
       /\ \A j \in 1 .. i :
            ~ DansIntervalle(budgets, lSommeBudget, proba, lRandom, j)
       /\ IF lSommeBudget = 0
          THEN IF i = 0 THEN lProbaBrecedente = 0
                        ELSE lProbaBrecedente = NaN /\ budgets[1] = 0
          ELSE /\ lProbaBrecedente = proba[i + 1]
               /\ EstFlottant(lProbaBrecedente)
               /\ i > 0 => lProbaBrecedente < lRandom * Unite

(* The random numbers under n that are at most x units.                    *)
Jusqua(n, x) == IF x \div Unite + 1 <= n THEN x \div Unite + 1 ELSE n

(* Whatever the roundings, the calls made so far have drawn each position  *)
(* exactly as often as there are random numbers in its interval, the lower *)
(* end left to the interval before, and the first one also by those beyond *)
(* the last interval: no random number is lost or counted twice.           *)
TiragesComptes ==
  LET somme == SommeTronquee(budgets)
      proba == ProbaPrecedente(budgets, somme)
      Avant(p) == Jusqua(lRandom, proba[p])
  IN  somme # 0 =>
        \A p \in DOMAIN budgets :
          nbTirages[p] = IF p = 1
                         THEN Avant(2) + lRandom - Avant(Len(budgets) + 1)
                         ELSE Avant(p + 1) - Avant(p)

Entiers(v) == \A p \in DOMAIN v : v[p] % Unite = 0

Totaux(v) ==
  LET total[p \in 0 .. Len(v)] == IF p = 0 THEN 0 ELSE total[p - 1] + v[p]
  IN  total

Total == Totaux(budgets)[Len(budgets)]

(* Twice the error, in units, that one step of the loop adds to the end of *)
(* an interval, and the vectors it is negligible for: the format holds the *)
(* partial sums, and the error stays under a hundredth when it is added up *)
(* over the intervals or multiplied by the sum.                            *)
ErreurDouble == 100 * Ulp(Unite) + 2 * Ulp(101 * Unite)

VecteurPrecis(v) ==
  LET total == Totaux(v)[Len(v)] \div Unite IN
  /\ \A x \in 0 .. total : EstFlottant(x * Unite)
  /\ total * ErreurDouble < 2 * Unite
  /\ Len(v) * ErreurDouble < 2 * Unite

(* When every budget is a whole number of euros, the draw is weighted by   *)
(* the budgets: each campaign is drawn by a share of the random numbers    *)
(* that is its share of the money, within two hundredths.                  *)
PartProportionnelle ==
  pc = "bilan" /\ Entiers(budgets) /\ Total > 0 =>
    \A p \in DOMAIN budgets :
      /\ nbTirages[p] * Total <= 100 * budgets[p] + 2 * Total
      /\ nbTirages[p] * Total >= 100 * budgets[p] - 2 * Total

(* "Le tirage au sort est pondéré par le budget restant de la campagne"    *)
(* (CampagnesManager.h): whoever owns a quarter of the money is drawn by   *)
(* some random number.                                                     *)
ChancePourTous ==
  pc = "bilan" =>
    \A p \in DOMAIN budgets : 4 * budgets[p] >= Total => nbTirages[p] > 0
=============================================================================
