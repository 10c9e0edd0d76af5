-------------------------- MODULE ChargementProofs --------------------------
(***************************************************************************)
(* The loader, for files of any length and content: what the vector holds  *)
(* at each point of the load, what main is told of it, which entries are   *)
(* refused and what may end the process.                                   *)
(***************************************************************************)
EXTENDS Chargement, FlottantProofs

(* What stof throws, and when.                                             *)
LEMMA StofLeve ==
  ASSUME NEW n
  PROVE  /\ LeveeStof(n) \subseteq {"LogicError", "invalid_argument",
                                    "out_of_range"}
         /\ "out_of_range" \in LeveeStof(n) => Lecture(n) = HorsPlage
         /\ LeveeStof(n) = {} => Lecture(n) \notin {HorsPlage, Illisible}
<1>1. HorsPlage # Illisible
  BY LecturesAssumption
<1>2. CASE n.type = "composite"
  <2>1. Lecture(n) = Illisible
    BY <1>2 DEF Lecture
  <2>2. LeveeStof(n) = {"LogicError"}
    BY <1>1, <1>2, <2>1 DEF LeveeStof
  <2>3. QED
    BY <2>2
<1>3. CASE n.type # "composite" /\ Lecture(n) = Illisible
  <2>1. LeveeStof(n) = {"invalid_argument"}
    BY <1>1, <1>3 DEF LeveeStof
  <2>2. QED
    BY <2>1
<1>4. CASE n.type # "composite" /\ Lecture(n) = HorsPlage
  <2>1. LeveeStof(n) = {"out_of_range"}
    BY <1>1, <1>4 DEF LeveeStof
  <2>2. QED
    BY <1>4, <2>1
<1>5. CASE /\ n.type # "composite"
           /\ Lecture(n) # Illisible /\ Lecture(n) # HorsPlage
  <2>1. LeveeStof(n) = {}
    BY <1>5 DEF LeveeStof
  <2>2. QED
    BY <1>5, <2>1
<1>6. QED
  BY <1>2, <1>3, <1>4, <1>5

(* The exceptions an entry can throw.                                      *)
LEMMA LeveesConnues ==
  ASSUME NEW e
  PROVE  /\ Levees(e) \subseteq {"LogicError", "invalid_argument",
                                 "out_of_range"}
         /\ "out_of_range" \in Levees(e) =>
              HorsPlage \in {Lecture(e.budget), Lecture(e.bidPrice)}
         /\ Levees(e) = {} =>
              /\ Lecture(e.budget) \notin {HorsPlage, Illisible}
              /\ Lecture(e.bidPrice) \notin {HorsPlage, Illisible}
<1>1. \A n : LeveeAsString(n) \cup LeveeAsInt(n) \cup LeveeAsBool(n)
              \subseteq {"LogicError"}
  BY DEF LeveeAsString, LeveeAsInt, LeveeAsBool
<1>2. CASE FiltresIllisibles(e)
  BY <1>2 DEF Levees
<1>3. CASE ~ FiltresIllisibles(e)
  <2>1. Levees(e) = ArgumentsLevent(e)
    BY <1>3 DEF Levees
  <2>2. /\ LeveeStof(e.budget) \subseteq Levees(e)
        /\ LeveeStof(e.bidPrice) \subseteq Levees(e)
        /\ \A x \in Levees(e) :
             \/ x = "LogicError"
             \/ x \in LeveeStof(e.budget) \cup LeveeStof(e.bidPrice)
    BY <1>1, <2>1 DEF ArgumentsLevent
  <2>3. QED
    BY <2>2, StofLeve
<1>4. QED
  BY <1>2, <1>3

(* stof gives a float, on the same side of 1, 10 and 1000 as the text.     *)
LEMMA StofArrondi ==
  ASSUME NEW n, LectureBienFormee(Lecture(n)),
         Lecture(n) \notin {HorsPlage, Illisible}
  PROVE  /\ Stof(n) \in Flottants
         /\ Entre(Lecture(n), << 1, 1 >>, << 1000, 1 >>) =>
              Unite <= Stof(n) /\ Stof(n) <= 1000 * Unite
         /\ Entre(Lecture(n), << 1, 100 >>, << 10, 1 >>) =>
              Stof(n) \in Nat /\ Stof(n) <= 10 * Unite
<1>1. CASE Lecture(n) = NaN
  BY <1>1 DEF Stof, Flottants, Entre
<1>2. CASE Lecture(n) # NaN
  <2> DEFINE x == Lecture(n)
             a == x[1]
             d == x[2]
             k == a * Unite
             u == Ulp(k \div d)
             w == Unite \div u
  <2>1. /\ a \in Nat /\ d \in Nat \ {0}
        /\ u \in Nat \ {0}
        /\ a <= 1000 * d => Unite % u = 0
    BY <1>2 DEF LectureBienFormee
  <2>2. Stof(n) = Arrondi(d)[k]
    BY <1>2 DEF Stof
  <2>3. Unite \in Nat \ {0} /\ k \in Nat
    BY <2>1, LecturesAssumption
  <2>4. /\ Entre(x, << 1, 1 >>, << 1000, 1 >>) => d <= a /\ a <= 1000 * d
        /\ Entre(x, << 1, 100 >>, << 10, 1 >>) => a <= 10 * d
    BY <2>1 DEF Entre
  <2> HIDE DEF x, a, d, k, u
  <2>5. ASSUME NEW m \in Nat
        PROVE  /\ Arrondi(d)[k] \in Nat
               /\ k <= m * u * d => Arrondi(d)[k] <= m * u
               /\ m * u * d <= k => m * u <= Arrondi(d)[k]
    BY <2>1, <2>3, ArrondiMonotone DEF u
  <2>6. Stof(n) \in Nat
    BY <2>2, <2>5
  <2>7. ASSUME a <= 1000 * d
        PROVE  w \in Nat /\ Unite = w * u
    BY <2>1, <2>3, <2>7
  <2>8. ASSUME a <= 1000 * d, NEW b \in Nat
        PROVE  /\ a <= b * d => Arrondi(d)[k] <= b * Unite
               /\ b * d <= a => b * Unite <= Arrondi(d)[k]
    <3>1. b * w \in Nat /\ b * Unite = (b * w) * u
      BY <2>1, <2>3, <2>7, <2>8
    <3>2. (b * w) * u * d = (b * d) * Unite
      BY <2>1, <2>3, <2>7, <2>8
    <3>3. b * d \in Nat /\ k = a * Unite
      BY <2>1 DEF k
    <3>4. /\ a <= b * d => k <= (b * w) * u * d
          /\ b * d <= a => (b * w) * u * d <= k
      BY <2>1, <2>3, <3>2, <3>3, ProduitOrdonne
    <3>5. QED
      BY <2>5, <3>1, <3>4
  <2>9. a <= 10 * d => a <= 1000 * d
    BY <2>1
  <2>10. d = 1 * d /\ Unite = 1 * Unite
    BY <2>1, <2>3
  <2>11. ASSUME Entre(x, << 1, 1 >>, << 1000, 1 >>)
         PROVE  Unite <= Stof(n) /\ Stof(n) <= 1000 * Unite
    BY <2>2, <2>4, <2>8, <2>10, <2>11
  <2>12. ASSUME Entre(x, << 1, 100 >>, << 10, 1 >>)
         PROVE  Stof(n) <= 10 * Unite
    BY <2>2, <2>4, <2>8, <2>9, <2>12
  <2>13. QED
    BY <2>6, <2>11, <2>12 DEF Flottants, x
<1>3. QED
  BY <1>1, <1>2

(* Lower case and the keys without element leave the sizes of the lists.   *)
LEMMA FiltreVerifie ==
  ASSUME NEW listes,
         \A cle \in DOMAIN listes : /\ DOMAIN listes[cle] = {"taille", "valeurs"}
                                    /\ listes[cle].taille \in Nat,
         lVerificationFiltre(listes)
  PROVE  /\ DOMAIN GetFilterFromItr(listes) \subseteq DOMAIN listes
         /\ lVerificationFiltre(GetFilterFromItr(listes))
<1> DEFINE f == GetFilterFromItr(listes)
<1>1. DOMAIN f \subseteq DOMAIN listes
  BY DEF GetFilterFromItr
<1>2. ASSUME NEW cle \in DOMAIN f
      PROVE  f[cle].taille = listes[cle].taille
  <2>1. "taille" \in DOMAIN listes[cle]
    BY <1>1
  <2>2. CASE cle \in {"language", "ifa"}
    <3>1. f[cle] = [listes[cle] EXCEPT
                      !.valeurs = {Minuscule(v) : v \in listes[cle].valeurs}]
      BY <2>2 DEF GetFilterFromItr
    <3>2. QED
      BY <2>1, <3>1
  <2>3. CASE cle \notin {"language", "ifa"}
    BY <2>3 DEF GetFilterFromItr
  <2>4. QED
    BY <2>2, <2>3
<1>3. QED
  BY <1>1, <1>2 DEF lVerificationFiltre

(* The controls of the constructor, written on floats and lower case maps, *)
(* accept what the messages of the program ask for, the price excepted.    *)
LEMMA ConformeAdmise ==
  ASSUME NEW e, EntreeBienFormee(e), Conforme(e),
         100 * Stof(e.bidPrice) >= Unite
  PROVE  Admise(e)
<1> DEFINE c == Construite(e)
           inc == e.filters.include.listes
           exc == e.filters.exclude.listes
<1>1. /\ Levees(e) = {}
      /\ Entre(Lecture(e.budget), << 1, 1 >>, << 1000, 1 >>)
      /\ Entre(Lecture(e.bidPrice), << 1, 100 >>, << 10, 1 >>)
  BY DEF Conforme, BornesDocumentees
<1>2. /\ LectureBienFormee(Lecture(e.budget))
      /\ LectureBienFormee(Lecture(e.bidPrice))
      /\ Lecture(e.budget) \notin {NaN, HorsPlage, Illisible}
      /\ Lecture(e.bidPrice) \notin {NaN, HorsPlage, Illisible}
  BY <1>1 DEF EntreeBienFormee, Entre
<1>3. /\ Stof(e.budget) \in Flottants
      /\ Unite <= Stof(e.budget) /\ Stof(e.budget) <= 1000 * Unite
      /\ Stof(e.bidPrice) \in Nat /\ Stof(e.bidPrice) <= 10 * Unite
  BY <1>1, <1>2, StofArrondi
<1>4. Unite \in Nat \ {0}
  BY LecturesAssumption
<1>5. ValeursBornees(c)
  <2>1. ~ Inferieur(c.mBudget, Unite) /\ ~ Inferieur(1000 * Unite, c.mBudget)
    BY <1>3, <1>4 DEF Construite, Inferieur, Flottants
  <2>2. ~ Inferieur(10 * Unite, c.mBidPrice)
    BY <1>3, <1>4 DEF Construite, Inferieur
  <2>3. QED
    BY <2>1, <2>2 DEF ValeursBornees, Construite
<1>6. DonneesPresentes(c)
  <2>1. c.mBudget # 0 /\ c.mBidPrice # 0
    BY <1>3, <1>4 DEF Construite, Flottants
  <2>2. QED
    BY <2>1 DEF DonneesPresentes, Construite, Conforme
<1>7. /\ DOMAIN c.mFilterInclude \subseteq DOMAIN inc
      /\ DOMAIN c.mFilterExlude \subseteq DOMAIN exc
      /\ lVerificationFiltre(c.mFilterInclude)
      /\ lVerificationFiltre(c.mFilterExlude)
  <2>1. /\ c.mFilterInclude = GetFilterFromItr(inc)
        /\ c.mFilterExlude = GetFilterFromItr(exc)
    BY DEF Construite
  <2>2. lVerificationFiltre(inc) /\ lVerificationFiltre(exc)
    BY DEF Conforme
  <2>3. \A f \in {inc, exc} : \A cle \in DOMAIN f :
          DOMAIN f[cle] = {"taille", "valeurs"} /\ f[cle].taille \in Nat
    BY DEF EntreeBienFormee
  <2> HIDE DEF c, inc, exc
  <2>4. QED
    BY <2>1, <2>2, <2>3, FiltreVerifie
<1>8. FiltresDisjoints(c)
  BY <1>7 DEF FiltresDisjoints, Conforme
<1>9. QED
  BY <1>1, <1>5, <1>6, <1>7, <1>8 DEF Admise, Valide

(* What the constructor lets through and can buy is in the ranges.         *)
LEMMA AdmiseSaine ==
  ASSUME NEW e, EntreeBienFormee(e), Admise(e)
  PROVE  LET c == Construite(e) IN
         /\ c.mBudget \in Flottants /\ c.mBidPrice \in Flottants
         /\ PeutPayer(c) =>
              /\ Unite <= c.mBudget /\ c.mBudget <= 1000 * Unite
              /\ Unite <= 100 * c.mBidPrice /\ c.mBidPrice <= 10 * Unite
              /\ c.mWidth # 0 /\ c.mHeight # 0
<1> DEFINE c == Construite(e)
<1>1. Stof(e.budget) \in Flottants /\ Stof(e.bidPrice) \in Flottants
  BY LeveesConnues, StofArrondi DEF Admise, EntreeBienFormee
<1>2. c.mBudget = Stof(e.budget) /\ c.mBidPrice = Stof(e.bidPrice)
  BY DEF Construite
<1>3. DonneesPresentes(c) /\ ValeursBornees(c)
  BY DEF Admise, Valide
<1>4. Unite \in Nat
  BY LecturesAssumption
<1> HIDE DEF c
<1>5. ASSUME PeutPayer(c)
      PROVE  /\ Unite <= c.mBudget /\ c.mBudget <= 1000 * Unite
             /\ Unite <= 100 * c.mBidPrice /\ c.mBidPrice <= 10 * Unite
  <2>1. /\ c.mBudget \in Nat /\ c.mBidPrice \in Nat
        /\ c.mBudget # NaN /\ c.mBidPrice # NaN
    BY <1>1, <1>2, <1>5 DEF PeutPayer, Flottants
  <2>2. \A a, b \in Nat : ~ Inferieur(a, b) => b <= a
    BY LecturesAssumption DEF Inferieur
  <2>3. QED
    BY <1>3, <1>4, <2>1, <2>2 DEF ValeursBornees
<1>6. c.mWidth # 0 /\ c.mHeight # 0
  BY <1>3 DEF DonneesPresentes
<1>7. QED
  BY <1>1, <1>2, <1>5, <1>6 DEF c
-----------------------------------------------------------------------------
(* The types but those of the campaigns, which follow from ChargementInv.  *)
TypesLocaux ==
  /\ phase \in Phases
  /\ itrJson \in 1 .. Len(fichier.entrees) + 1
  /\ exception \in {"aucune", "LogicError", "invalid_argument",
                    "out_of_range"}
  /\ lReturn \in BOOLEAN
  /\ origines \in Seq(1 .. Len(fichier.entrees))

(* The inductive invariant.                                                *)
IInv == TypesLocaux /\ ChargementInv

LEMMA FichierLu ==
  ASSUME fichier \in Fichiers
  PROVE  /\ fichier.lisible \in BOOLEAN
         /\ Len(fichier.entrees) \in Nat
         /\ DOMAIN fichier.entrees = 1 .. Len(fichier.entrees)
         /\ fichier.entrees = << >> <=> Len(fichier.entrees) = 0
         /\ \A k \in 1 .. Len(fichier.entrees) :
              EntreeBienFormee(fichier.entrees[k])
<1>1. \A f \in Fichiers :
        /\ f.lisible \in BOOLEAN
        /\ f.entrees \in Seq({f.entrees[k] : k \in DOMAIN f.entrees})
        /\ \A k \in DOMAIN f.entrees : EntreeBienFormee(f.entrees[k])
  BY FichiersAssumption DEF FichierBienForme
<1>2. \A S : \A s \in Seq(S) : /\ Len(s) \in Nat /\ DOMAIN s = 1 .. Len(s)
                               /\ s = << >> <=> Len(s) = 0
  OBVIOUS
<1>3. QED
  BY <1>1, <1>2

(* The copy constructors change nothing.                                   *)
LEMMA CopieFidele ==
  ASSUME NEW e
  PROVE  Copie(Construite(e)) = Construite(e)
BY DEF Copie, Construite

LEMMA InitIInv == Init => IInv
<1> SUFFICES ASSUME Init PROVE IInv
  OBVIOUS
<1>1. Len(fichier.entrees) \in Nat /\ fichier \in Fichiers
  BY FichierLu DEF Init
<1>2. TypesLocaux
  BY <1>1 DEF Init, TypesLocaux, Phases
<1>3. VecteurFidele
  <2>1. mListeCampagnes =
          [i \in DOMAIN origines |-> Construite(fichier.entrees[origines[i]])]
    BY DEF Init
  <2>2. Chargees = {}
    BY DEF Init, Chargees
  <2>3. QED
    BY <1>1, <2>1, <2>2 DEF Init, VecteurFidele
<1>4. RetourEnCours /\ PhaseJustifiee
  BY DEF Init, RetourEnCours, PhaseJustifiee
<1>5. QED
  BY <1>2, <1>3, <1>4 DEF IInv, ChargementInv

(* The entries in the vector precede the one at hand.                      *)
LEMMA VecteurBorne ==
  ASSUME IInv
  PROVE  /\ fichier \in Fichiers
         /\ itrJson \in Nat /\ itrJson >= 1
         /\ Len(origines) \in Nat /\ DOMAIN origines = 1 .. Len(origines)
         /\ DOMAIN mListeCampagnes = DOMAIN origines
         /\ \A i \in DOMAIN origines :
              /\ origines[i] \in 1 .. itrJson - 1
              /\ origines[i] \in 1 .. Len(fichier.entrees)
              /\ Admise(fichier.entrees[origines[i]])
              /\ mListeCampagnes[i] =
                   Construite(fichier.entrees[origines[i]])
<1>1. VecteurFidele /\ TypesLocaux /\ Len(fichier.entrees) \in Nat
  BY FichierLu DEF IInv, ChargementInv, VecteurFidele
<1>2. Len(origines) \in Nat /\ DOMAIN origines = 1 .. Len(origines)
      /\ \A i \in DOMAIN origines : origines[i] \in 1 .. Len(fichier.entrees)
  BY <1>1 DEF TypesLocaux
<1>3. \A i \in DOMAIN origines : origines[i] \in Chargees
  BY DEF Chargees
<1>4. QED
  BY <1>1, <1>2, <1>3 DEF VecteurFidele, TypesLocaux

LEMMA VecteurLen ==
  ASSUME IInv
  PROVE  /\ Len(mListeCampagnes) = Len(origines)
         /\ mListeCampagnes = << >> <=> Len(origines) = 0
<1> DEFINE S == {Construite(fichier.entrees[k]) :
                   k \in 1 .. Len(fichier.entrees)}
<1>1. /\ Len(origines) \in Nat
      /\ mListeCampagnes =
           [i \in 1 .. Len(origines) |->
              Construite(fichier.entrees[origines[i]])]
      /\ \A i \in 1 .. Len(origines) :
           Construite(fichier.entrees[origines[i]]) \in S
  BY VecteurBorne DEF IInv, ChargementInv, VecteurFidele
<1> HIDE DEF S
<1>2. mListeCampagnes \in Seq(S) /\ Len(mListeCampagnes) = Len(origines)
  BY <1>1
<1>3. QED
  BY <1>2

LEMMA AjouterPreserve ==
  ASSUME IInv, Ajouter
  PROVE  VecteurFidele' /\ origines' \in Seq(1 .. Len(fichier.entrees))
         /\ Len(origines') = Len(origines) + 1
<1> DEFINE n == Len(origines)
           S == {Construite(fichier.entrees[k]) :
                   k \in 1 .. Len(fichier.entrees)}
<1>1. /\ fichier' = fichier /\ itrJson' = itrJson + 1
      /\ origines' = Append(origines, itrJson)
      /\ phase = "ajout"
  BY DEF Ajouter, Aller
<1>2. /\ origines \in Seq(1 .. Len(fichier.entrees))
      /\ itrJson \in 1 .. Len(fichier.entrees)
      /\ Admise(Entree) /\ VecteurFidele /\ Len(fichier.entrees) \in Nat
  BY <1>1, VecteurBorne, FichierLu
     DEF IInv, TypesLocaux, ChargementInv, PhaseJustifiee
<1>3. /\ origines' \in Seq(1 .. Len(fichier.entrees))
      /\ Len(origines') = n + 1 /\ n \in Nat
      /\ DOMAIN origines = 1 .. n /\ DOMAIN origines' = 1 .. n + 1
      /\ origines'[n + 1] = itrJson
      /\ \A i \in 1 .. n : origines'[i] = origines[i]
  BY <1>1, <1>2
<1>4. /\ [i \in DOMAIN mListeCampagnes |-> Copie(mListeCampagnes[i])]
           = mListeCampagnes
      /\ mListeCampagnes \in Seq(S) /\ Len(mListeCampagnes) = n
  <2>1. mListeCampagnes =
          [i \in 1 .. n |-> Construite(fichier.entrees[origines[i]])]
    BY <1>2, <1>3 DEF VecteurFidele
  <2>2. \A i \in 1 .. n : Copie(mListeCampagnes[i]) = mListeCampagnes[i]
                          /\ mListeCampagnes[i] \in S
    BY <1>3, VecteurBorne, CopieFidele
  <2> HIDE DEF S
  <2>3. QED
    BY <1>3, <2>1, <2>2
<1>5. mListeCampagnes' = Append(mListeCampagnes, Construite(Entree))
  BY <1>4, CopieFidele DEF Ajouter
<1>6. mListeCampagnes' =
        [i \in DOMAIN origines' |-> Construite(fichier'.entrees[origines'[i]])]
  <2> DEFINE x == Construite(Entree)
             m == mListeCampagnes
  <2>1. x = Construite(fichier.entrees[itrJson])
    BY DEF Entree
  <2>2. \A i \in 1 .. n : m[i] = Construite(fichier.entrees[origines[i]])
    BY <1>3, VecteurBorne
  <2>3. x \in S /\ m \in Seq(S) /\ Len(m) = n
    BY <1>2, <1>4, <2>1
  <2> HIDE DEF x, m, S
  <2>4. Append(m, x) =
          [i \in 1 .. n + 1 |-> Construite(fichier.entrees[origines'[i]])]
    <3>1. /\ Append(m, x) \in Seq(S) /\ Len(Append(m, x)) = n + 1
          /\ \A i \in 1 .. n + 1 :
               Append(m, x)[i] = IF i = n + 1 THEN x ELSE m[i]
      BY <1>3, <2>3
    <3>2. \A s \in Seq(S) : s = [i \in 1 .. Len(s) |-> s[i]]
      OBVIOUS
    <3>3. Append(m, x) = [i \in 1 .. n + 1 |-> Append(m, x)[i]]
      BY <3>1, <3>2
    <3>4. \A i \in 1 .. n + 1 :
            Append(m, x)[i] = Construite(fichier.entrees[origines'[i]])
      BY <1>3, <2>1, <2>2, <3>1
    <3>5. QED
      BY <3>3, <3>4
  <2>5. QED
    BY <1>1, <1>3, <1>5, <2>4 DEF m, x
<1>7. \A i, j \in DOMAIN origines' : i < j => origines'[i] < origines'[j]
  <2>1. \A i \in 1 .. n : origines[i] \in 1 .. itrJson - 1
    BY <1>3, VecteurBorne
  <2>2. \A i, j \in 1 .. n : i < j => origines[i] < origines[j]
    BY <1>2, <1>3 DEF VecteurFidele
  <2> SUFFICES ASSUME NEW i \in 1 .. n + 1, NEW j \in 1 .. n + 1, i < j
               PROVE  origines'[i] < origines'[j]
    BY <1>3
  <2>3. i \in 1 .. n /\ origines'[i] = origines[i]
    BY <1>3
  <2>4. CASE j = n + 1
    BY <1>2, <1>3, <2>1, <2>3, <2>4
  <2>5. CASE j # n + 1
    <3>1. j \in 1 .. n /\ origines'[j] = origines[j]
      BY <1>3, <2>5
    <3>2. QED
      BY <2>2, <2>3, <3>1
  <2>6. QED
    BY <2>4, <2>5
<1>8. Chargees' = {k \in 1 .. itrJson' - 1 : Admise(fichier'.entrees[k])}
  <2>1. Chargees' = Chargees \cup {itrJson}
    BY <1>3 DEF Chargees
  <2>2. \A k : k \in 1 .. itrJson' - 1 <=> k \in 1 .. itrJson - 1 \/ k = itrJson
    BY <1>1, <1>2
  <2>3. QED
    BY <1>1, <1>2, <2>1, <2>2 DEF VecteurFidele, Entree
<1>9. QED
  BY <1>1, <1>2, <1>3, <1>6, <1>7, <1>8 DEF VecteurFidele

(* Chargees' is a set over primed variables; the steps that drop an entry  *)
(* or move no entry leave the vector faithful.                             *)
LEMMA VecteurInchange ==
  ASSUME IInv, UNCHANGED << fichier, mListeCampagnes, origines >>,
         \/ itrJson' = itrJson
         \/ itrJson' = itrJson + 1 /\ ~ Admise(Entree)
  PROVE  VecteurFidele'
<1>1. VecteurFidele /\ Chargees' = Chargees /\ itrJson \in Nat
      /\ itrJson >= 1
  BY VecteurBorne DEF IInv, ChargementInv, Chargees
<1>2. Chargees = {k \in 1 .. itrJson' - 1 : Admise(fichier.entrees[k])}
  <2>1. CASE itrJson' = itrJson
    BY <1>1, <2>1 DEF VecteurFidele
  <2>2. CASE itrJson' = itrJson + 1 /\ ~ Admise(Entree)
    <3>1. \A k : k \in 1 .. itrJson' - 1
                   <=> k \in 1 .. itrJson - 1 \/ k = itrJson
      BY <1>1, <2>2
    <3>2. QED
      BY <1>1, <2>2, <3>1 DEF VecteurFidele, Entree
  <2>3. QED
    BY <2>1, <2>2
<1>3. QED
  BY <1>1, <1>2 DEF VecteurFidele

LEMMA PasPreserve ==
  ASSUME IInv, Next
  PROVE  IInv'
<1>1. /\ TypesLocaux /\ RetourEnCours /\ PhaseJustifiee
      /\ fichier \in Fichiers /\ Len(fichier.entrees) \in Nat
      /\ fichier.lisible \in BOOLEAN
      /\ fichier.entrees = << >> <=> Len(fichier.entrees) = 0
      /\ itrJson \in Nat /\ itrJson >= 1 /\ Len(origines) \in Nat
  BY VecteurBorne, FichierLu DEF IInv, ChargementInv
<1>2. UNCHANGED fichier
  BY DEF Next, Ouvrir, OuvrirEnVain, LireEntree, LireEntreeLeve, Accepter,
     Refuser, Ajouter, Attraper, Avorter, FinirLaBoucle, Demarrer, Arreter
<1> USE <1>1, <1>2 DEF Aller
<1>3. CASE Ouvrir \/ FinirLaBoucle \/ Demarrer \/ Arreter \/ LireEntree
           \/ Accepter \/ Avorter
  <2>1. UNCHANGED << itrJson, exception, lReturn, mListeCampagnes, origines >>
    BY <1>3 DEF Ouvrir, FinirLaBoucle, Demarrer, Arreter, LireEntree,
       Accepter, Avorter, resultat
  <2>2. TypesLocaux'
    BY <1>3, <2>1 DEF Ouvrir, FinirLaBoucle, Demarrer, Arreter, LireEntree,
       Accepter, Avorter, TypesLocaux, Phases
  <2>3. VecteurFidele'
    BY <2>1, VecteurInchange
  <2>4. RetourEnCours'
    BY <1>3, <2>1 DEF Ouvrir, FinirLaBoucle, Demarrer, Arreter, LireEntree,
       Accepter, Avorter, RetourEnCours
  <2>5. PhaseJustifiee'
    <3>1. CASE Ouvrir
      BY <2>1, <3>1 DEF Ouvrir, PhaseJustifiee
    <3>2. CASE FinirLaBoucle
      BY <2>1, <3>2 DEF FinirLaBoucle, PhaseJustifiee, TypesLocaux
    <3>3. CASE Demarrer
      <4>1. lReturn \/ Len(origines) # 0
        <5>1. Len(mListeCampagnes) = Len(origines)
          BY VecteurLen
        <5>2. QED
          BY <3>3, <5>1 DEF Demarrer, GetCampagnesCount
      <4>2. QED
        BY <2>1, <3>3, <4>1 DEF Demarrer, PhaseJustifiee
    <3>4. CASE Arreter
      BY <2>1, <3>4 DEF Arreter, PhaseJustifiee
    <3>5. CASE LireEntree
      BY <2>1, <3>5 DEF LireEntree, PhaseJustifiee, Entree
    <3>6. CASE Accepter
      BY <2>1, <3>6 DEF Accepter, PhaseJustifiee, Admise, Entree
    <3>7. CASE Avorter
      BY <2>1, <3>7 DEF Avorter, PhaseJustifiee, Entree, Attrapee
    <3>8. QED
      BY <1>3, <3>1, <3>2, <3>3, <3>4, <3>5, <3>6, <3>7
  <2>6. QED
    BY <2>2, <2>3, <2>4, <2>5 DEF IInv, ChargementInv
<1>4. CASE OuvrirEnVain
  <2>1. VecteurFidele'
    BY <1>4, VecteurInchange DEF OuvrirEnVain
  <2>2. TypesLocaux' /\ RetourEnCours' /\ PhaseJustifiee'
    BY <1>4 DEF OuvrirEnVain, TypesLocaux, Phases, RetourEnCours,
       PhaseJustifiee
  <2>3. QED
    BY <2>1, <2>2 DEF IInv, ChargementInv
<1>5. CASE LireEntreeLeve \/ Refuser
  <2>1. /\ UNCHANGED << itrJson, lReturn, mListeCampagnes, origines >>
        /\ phase \in {"boucle", "constructeur"} /\ phase' = "catch"
        /\ itrJson <= Len(fichier.entrees)
    BY <1>5 DEF LireEntreeLeve, Refuser, resultat, PhaseJustifiee
  <2>2. ~ Admise(Entree)
        /\ exception' \in Levees(Entree) \cup {"invalid_argument"}
    BY <1>5 DEF LireEntreeLeve, Refuser, Admise
  <2>3. exception' \in {"LogicError", "invalid_argument", "out_of_range"}
    BY <2>2, LeveesConnues
  <2>4. TypesLocaux' /\ VecteurFidele' /\ RetourEnCours'
    BY <2>1, <2>3, VecteurInchange DEF TypesLocaux, Phases, RetourEnCours
  <2>5. PhaseJustifiee'
    BY <2>1, <2>2 DEF PhaseJustifiee, Entree
  <2>6. QED
    BY <2>4, <2>5 DEF IInv, ChargementInv
<1>6. CASE Ajouter
  <2>1. /\ phase = "ajout" /\ phase' = "boucle" /\ itrJson' = itrJson + 1
        /\ UNCHANGED << exception, lReturn >>
        /\ itrJson <= Len(fichier.entrees)
        /\ fichier.lisible /\ fichier.entrees # << >>
    BY <1>6 DEF Ajouter, PhaseJustifiee
  <2>2. VecteurFidele' /\ Len(origines') = Len(origines) + 1
        /\ origines' \in Seq(1 .. Len(fichier.entrees))
    BY <1>6, AjouterPreserve
  <2>3. TypesLocaux'
    BY <2>1, <2>2 DEF TypesLocaux, Phases
  <2>4. RetourEnCours' /\ PhaseJustifiee'
    BY <2>1, <2>2 DEF RetourEnCours, PhaseJustifiee
  <2>5. QED
    BY <2>2, <2>3, <2>4 DEF IInv, ChargementInv
<1>7. CASE Attraper
  <2>1. /\ phase = "catch" /\ phase' = "boucle" /\ itrJson' = itrJson + 1
        /\ exception' = "aucune" /\ lReturn' = FALSE
        /\ UNCHANGED << mListeCampagnes, origines >>
        /\ itrJson <= Len(fichier.entrees) /\ ~ Admise(Entree)
        /\ fichier.lisible /\ fichier.entrees # << >>
    BY <1>7 DEF Attraper, Signaler, EntreeSuivante, PhaseJustifiee
  <2>2. VecteurFidele'
    BY <2>1, VecteurInchange
  <2>3. TypesLocaux'
    <3>1. itrJson' \in 1 .. Len(fichier.entrees) + 1
      BY <2>1
    <3>2. lReturn' \in BOOLEAN
      BY <2>1
    <3>3. phase' \in Phases /\ origines' \in Seq(1 .. Len(fichier.entrees))
      BY <2>1 DEF TypesLocaux, Phases
    <3>4. QED
      BY <2>1, <3>1, <3>2, <3>3 DEF TypesLocaux
  <2>4. RetourEnCours' /\ PhaseJustifiee'
    BY <2>1 DEF RetourEnCours, PhaseJustifiee
  <2>5. QED
    BY <2>2, <2>3, <2>4 DEF IInv, ChargementInv
<1>8. QED
  BY <1>3, <1>4, <1>5, <1>6, <1>7 DEF Next

LEMMA InvariantInductif == Spec => []IInv
<1>1. IInv /\ UNCHANGED chargementVars => IInv'
  BY DEF IInv, TypesLocaux, ChargementInv, VecteurFidele, RetourEnCours,
     PhaseJustifiee, Chargees, Entree, Attrapee, chargementVars, resultat
<1>2. IInv /\ [Next]_chargementVars => IInv'
  BY <1>1, PasPreserve
<1>3. QED
  BY <1>2, InitIInv, PTL DEF Spec

(* At every point of the load the vector holds the admissible entries met  *)
(* so far, in order and unchanged, and lReturn says whether one is missing.*)
THEOREM VecteurCorrect == Spec => []ChargementInv
<1>1. IInv => ChargementInv
  BY DEF IInv
<1>2. QED
  BY <1>1, InvariantInductif, PTL

(* Every variable of the loader keeps its type, the budgets and prices of  *)
(* the campaigns in the vector included.                                   *)
THEOREM TypeCorrect == Spec => []TypeOK
<1>1. IInv => TypeOK
  <2> SUFFICES ASSUME IInv, NEW i \in DOMAIN mListeCampagnes
               PROVE  /\ mListeCampagnes[i].mBudget \in Flottants
                      /\ mListeCampagnes[i].mBidPrice \in Flottants
    BY DEF IInv, TypesLocaux, TypeOK
  <2>1. PICK e : /\ EntreeBienFormee(e) /\ Admise(e)
                 /\ mListeCampagnes[i] = Construite(e)
    BY VecteurBorne, FichierLu
  <2>2. QED
    BY <2>1, AdmiseSaine
<1>2. QED
  BY <1>1, InvariantInductif, PTL

(* Whatever the file holds, a loaded campaign able to buy has its budget,  *)
(* its price and its size in the ranges of the constructor.                *)
THEOREM VendeusesSaines == Spec => []VendeuseSaine
<1>1. IInv => VendeuseSaine
  <2> SUFFICES ASSUME IInv, NEW i \in DOMAIN mListeCampagnes,
                      PeutPayer(mListeCampagnes[i])
               PROVE  LET c == mListeCampagnes[i] IN
                      /\ Unite <= c.mBudget /\ c.mBudget <= 1000 * Unite
                      /\ Unite <= 100 * c.mBidPrice
                      /\ c.mBidPrice <= 10 * Unite
                      /\ c.mWidth # 0 /\ c.mHeight # 0
    BY DEF VendeuseSaine
  <2>1. PICK e : /\ EntreeBienFormee(e) /\ Admise(e)
                 /\ mListeCampagnes[i] = Construite(e)
    BY VecteurBorne, FichierLu
  <2>2. QED
    BY <2>1, AdmiseSaine
<1>2. QED
  BY <1>1, InvariantInductif, PTL

LEMMA RetourDocumente ==
  ASSUME IInv
  PROVE  RetourFidele
<1>1. /\ RetourEnCours /\ PhaseJustifiee
      /\ Len(fichier.entrees) \in Nat /\ Len(origines) \in Nat
      /\ fichier.entrees = << >> <=> Len(fichier.entrees) = 0
      /\ itrJson \in Nat /\ itrJson >= 1
      /\ Len(mListeCampagnes) = Len(origines)
      /\ mListeCampagnes = << >> <=> Len(origines) = 0
  BY VecteurBorne, VecteurLen, FichierLu DEF IInv, ChargementInv
<1>2. ASSUME Charge, fichier.lisible, fichier.entrees # << >>
      PROVE  RetourFidele
  BY <1>1, <1>2 DEF Charge, RetourFidele, RetourEnCours, PhaseJustifiee
<1>3. ASSUME Charge, ~ (fichier.lisible /\ fichier.entrees # << >>)
      PROVE  RetourFidele
  <2>1. itrJson = 1 /\ ~ lReturn
    BY <1>1, <1>3 DEF Charge, RetourEnCours
  <2>2. Len(origines) = 0
    BY <1>1, <2>1, VecteurBorne
  <2>3. QED
    BY <1>1, <2>1, <2>2 DEF RetourFidele
<1>4. QED
  BY <1>2, <1>3 DEF RetourFidele

(* The value ParseCampagnesFromJson returns is the one it documents: true  *)
(* exactly when every entry of the file has become a campaign.             *)
THEOREM RetoursFideles == Spec => []RetourFidele
<1>1. IInv => RetourFidele
  BY RetourDocumente
<1>2. QED
  BY <1>1, InvariantInductif, PTL

(* main starts the server only with a campaign to sell.                    *)
THEOREM DemarragesSains == Spec => []DemarrageSain
<1>1. IInv => DemarrageSain
  <2> SUFFICES ASSUME IInv, phase = "serveur"
               PROVE  mListeCampagnes # << >>
    BY DEF DemarrageSain
  <2>1. lReturn \/ Len(origines) # 0
    BY DEF IInv, ChargementInv, PhaseJustifiee
  <2>2. lReturn => mListeCampagnes # << >>
    BY RetourDocumente DEF RetourFidele, Charge
  <2>3. QED
    BY <2>1, <2>2, VecteurLen
<1>2. QED
  BY <1>1, InvariantInductif, PTL

(* A wrong entry costs no other: whatever their number and their errors,   *)
(* the entries that conform are loaded one after the other, in the order   *)
(* of the file.                                                            *)
THEOREM RefusJustifies == Spec => []RefusJustifie
<1>1. IInv => RefusJustifie
  <2> SUFFICES ASSUME IInv
               PROVE  RefusJustifie
    OBVIOUS
  <2>1. VecteurFidele /\ PhaseJustifiee
    BY DEF IInv, ChargementInv
  <2>2. ASSUME NEW k \in DOMAIN fichier.entrees,
               k < itrJson \/ (Charge /\ fichier.lisible),
               Conforme(fichier.entrees[k]),
               100 * Stof(fichier.entrees[k].bidPrice) >= Unite
        PROVE  k \in Chargees
    <3>1. /\ k \in 1 .. Len(fichier.entrees) /\ fichier.entrees # << >>
          /\ Len(fichier.entrees) \in Nat
          /\ EntreeBienFormee(fichier.entrees[k])
      BY <2>2, VecteurBorne, FichierLu
    <3>2. k < itrJson \/ itrJson = Len(fichier.entrees) + 1
      BY <2>1, <2>2, <3>1 DEF PhaseJustifiee, Charge
    <3>3. Admise(fichier.entrees[k])
      BY <2>2, <3>1, ConformeAdmise
    <3>4. k \in 1 .. itrJson - 1
      BY <3>1, <3>2, VecteurBorne
    <3>5. QED
      BY <2>1, <3>3, <3>4 DEF VecteurFidele
  <2>3. QED
    BY <2>1, <2>2 DEF VecteurFidele, RefusJustifie
<1>2. QED
  BY <1>1, InvariantInductif, PTL

(* The process survives an entry that is an object with a printable id and *)
(* floats that fit, whatever else is wrong with it and in whatever order   *)
(* its arguments are evaluated.                                            *)
THEOREM AvortementsDelimites == Spec => []AvortementDelimite
<1>1. IInv => AvortementDelimite
  <2> SUFFICES ASSUME IInv, phase = "avorte"
               PROVE  \/ HorsPlage \in {Lecture(Entree.budget),
                                        Lecture(Entree.bidPrice)}
                      \/ Entree.noeud = "autre"
                      \/ Entree.id.type = "composite"
    BY DEF AvortementDelimite
  <2>1. /\ exception \in Levees(Entree) \cup {"invalid_argument"}
        /\ ~ Attrapee /\ itrJson \in 1 .. Len(fichier.entrees)
    BY VecteurBorne, FichierLu
       DEF IInv, ChargementInv, PhaseJustifiee
  <2>2. EntreeBienFormee(Entree)
    BY <2>1, VecteurBorne, FichierLu DEF Entree
  <2>3. CASE exception = "out_of_range"
    BY <2>1, <2>3, LeveesConnues
  <2>4. CASE exception # "out_of_range"
    <3>1. exception \in {"LogicError", "invalid_argument"}
      BY <2>1, <2>4, LeveesConnues
    <3>2. Entree.noeud # "objet" \/ LeveeAsString(Entree.id) # {}
      BY <2>1, <3>1 DEF Attrapee
    <3>3. QED
      BY <2>2, <3>2 DEF EntreeBienFormee, LeveeAsString
  <2>5. QED
    BY <2>3, <2>4
<1>2. QED
  BY <1>1, InvariantInductif, PTL
=============================================================================
