------------------------------- MODULE Tirage -------------------------------
(***************************************************************************)
(* CampagnesManager::RandomSelectCampagne once the budgets of the          *)
(* compatible campaigns have been read: which positions of the vector a    *)
(* random number selects.  The loop itself is in module                    *)
(* RandomSelectCampagne; here is its result, as a relation, for the        *)
(* modules that only need the outcome of the draw.                         *)
(***************************************************************************)
EXTENDS Flottant, Sequences

(* uniform_int_distribution<int>(0, 100)                                   *)
Alea == 0 .. 100

(* lSommeBudget += budget: the sum is an int, so each addition is made in  *)
(* float and truncated before the next one.                                *)
AjouterTronque(somme, budget) == EnEntier(Plus(somme * Unite, budget))

SommesTronquees(budgets) ==
  LET somme[k \in 0 .. Len(budgets)] ==
        IF k = 0 THEN 0 ELSE AjouterTronque(somme[k - 1], budgets[k])
  IN  somme

SommeTronquee(budgets) == SommesTronquees(budgets)[Len(budgets)]

(* (budget / (float)lSommeBudget) * 100, for a non-zero sum.               *)
Pourcentage(budget, somme) == Arrondi(1)[100 * Arrondi(somme)[budget]]

(* lProbaBrecedente when the loop reaches position i.                      *)
ProbaPrecedente(budgets, somme) ==
  LET proba[i \in 1 .. Len(budgets) + 1] ==
        IF i = 1 THEN 0
        ELSE Plus(proba[i - 1], Pourcentage(budgets[i - 1], somme))
  IN  proba

(* The test of the loop at position i for the random number alea.  With a  *)
(* null sum the quotient is +infinity (a positive budget) or NaN (a null   *)
(* budget): the first position passes the test when its budget is          *)
(* positive, otherwise the NaN it leaves in lProbaBrecedente makes every   *)
(* later comparison false.                                                 *)
DansIntervalle(budgets, somme, proba, alea, i) ==
  IF somme = 0
  THEN i = 1 /\ budgets[1] > 0
  ELSE /\ alea * Unite >= proba[i]
       /\ alea * Unite <= proba[i + 1]

(* Position i is drawn: the first one whose interval holds alea, or the    *)
(* first position (lIndexSelectionne = 0 in the code) when none does.      *)
Choisi(budgets, alea, i) ==
  LET somme  == SommeTronquee(budgets)
      proba  == ProbaPrecedente(budgets, somme)
      Dans(j) == DansIntervalle(budgets, somme, proba, alea, j)
  IN  \/ Dans(i) /\ \A j \in 1 .. i - 1 : ~ Dans(j)
      \/ i = 1 /\ \A j \in DOMAIN budgets : ~ Dans(j)

(* No random number draws position i.                                      *)
JamaisTiree(budgets, i) == \A alea \in Alea : ~ Choisi(budgets, alea, i)
=============================================================================
