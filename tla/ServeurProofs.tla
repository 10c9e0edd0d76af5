--------------------------- MODULE ServeurProofs ----------------------------
(***************************************************************************)
(* The whole program, for any file, any threads and any requests: the      *)
(* theorems about the loader and about SelectCampagne hold in it, the      *)
(* vector does not move under the calls, the campaigns sold are those of   *)
(* the file, and a null answer is right with respect to the file.          *)
(***************************************************************************)
EXTENDS Serveur, CampagnesManagerProofs, FlottantProofs

CP == INSTANCE ChargementProofs WITH Fichiers <- {Fichier}

(* The operators of the loader are those of the module it is proved in.    *)
LEMMA MemesLectures ==
  ASSUME NEW n
  PROVE  /\ Ch!LeveeAsString(n) = CP!LeveeAsString(n)
         /\ Ch!LeveeAsInt(n) = CP!LeveeAsInt(n)
         /\ Ch!LeveeAsBool(n) = CP!LeveeAsBool(n)
         /\ Ch!AsString(n) = CP!AsString(n)
         /\ Ch!AsInt(n) = CP!AsInt(n) /\ Ch!AsBool(n) = CP!AsBool(n)
         /\ Ch!Lecture(n) = CP!Lecture(n)
         /\ Ch!LeveeStof(n) = CP!LeveeStof(n)
         /\ Ch!Stof(n) = CP!Stof(n)
<1>1. /\ Ch!LeveeAsString(n) = CP!LeveeAsString(n)
      /\ Ch!LeveeAsInt(n) = CP!LeveeAsInt(n)
      /\ Ch!LeveeAsBool(n) = CP!LeveeAsBool(n)
      /\ Ch!AsString(n) = CP!AsString(n)
      /\ Ch!Lecture(n) = CP!Lecture(n)
  BY DEF Ch!LeveeAsString, CP!LeveeAsString, Ch!LeveeAsInt, CP!LeveeAsInt,
     Ch!LeveeAsBool, CP!LeveeAsBool, Ch!AsString, CP!AsString, Ch!Lecture,
     CP!Lecture
<1>2. Ch!AsInt(n) = CP!AsInt(n)
  BY DEF Ch!AsInt, CP!AsInt
<1>3. Ch!AsBool(n) = CP!AsBool(n)
  BY DEF Ch!AsBool, CP!AsBool
<1>4. Ch!LeveeStof(n) = CP!LeveeStof(n)
  BY <1>1 DEF Ch!LeveeStof, CP!LeveeStof
<1>5. \A d : Ch!Arrondi(d) = CP!Arrondi(d)
  BY DEF Ch!Arrondi, CP!Arrondi
<1>6. Ch!Stof(n) = CP!Stof(n)
  BY <1>1, <1>5 DEF Ch!Stof, CP!Stof
<1>7. QED
  BY <1>1, <1>2, <1>3, <1>4, <1>6

LEMMA MemesEntrees ==
  ASSUME NEW e
  PROVE  /\ Ch!EntreeBienFormee(e) <=> CP!EntreeBienFormee(e)
         /\ Ch!Levees(e) = CP!Levees(e)
         /\ Ch!Construite(e) = CP!Construite(e)
         /\ Ch!BornesDocumentees(e) <=> CP!BornesDocumentees(e)
<1>1. \A x : Ch!LectureBienFormee(x) <=> CP!LectureBienFormee(x)
  BY DEF Ch!LectureBienFormee, CP!LectureBienFormee
<1>2. \A w, h : Ch!DimensionsBienFormees(w, h)
                  <=> CP!DimensionsBienFormees(w, h)
  BY DEF Ch!DimensionsBienFormees, CP!DimensionsBienFormees
<1>3. Ch!EntreeBienFormee(e) <=> CP!EntreeBienFormee(e)
  BY <1>1, <1>2, MemesLectures DEF Ch!EntreeBienFormee, CP!EntreeBienFormee
<1>4. Ch!FiltresIllisibles(e) <=> CP!FiltresIllisibles(e)
  BY DEF Ch!FiltresIllisibles, CP!FiltresIllisibles
<1>5. Ch!ArgumentsLevent(e) = CP!ArgumentsLevent(e)
  BY MemesLectures DEF Ch!ArgumentsLevent, CP!ArgumentsLevent
<1>6. Ch!Levees(e) = CP!Levees(e)
  BY <1>4, <1>5 DEF Ch!Levees, CP!Levees
<1>7. \A l : Ch!GetFilterFromItr(l) = CP!GetFilterFromItr(l)
  BY DEF Ch!GetFilterFromItr, CP!GetFilterFromItr
<1>8. Ch!Construite(e) = CP!Construite(e)
  BY <1>7, MemesLectures DEF Ch!Construite, CP!Construite
<1>9. \A x, a, b : Ch!Entre(x, a, b) <=> CP!Entre(x, a, b)
  BY DEF Ch!Entre, CP!Entre
<1>10. Ch!BornesDocumentees(e) <=> CP!BornesDocumentees(e)
  BY <1>9, MemesLectures DEF Ch!BornesDocumentees, CP!BornesDocumentees
<1>11. QED
  BY <1>3, <1>6, <1>8, <1>10

LEMMA MemesControles ==
  /\ \A c : Ch!Valide(c) <=> CP!Valide(c)
  /\ \A c : Ch!PeutPayer(c) <=> CP!PeutPayer(c)
  /\ \A c : Ch!Copie(c) = CP!Copie(c)
  /\ \A e : Ch!Admise(e) <=> CP!Admise(e)
  /\ \A e : Ch!Conforme(e) <=> CP!Conforme(e)
<1>1. \A c : Ch!DonneesPresentes(c) <=> CP!DonneesPresentes(c)
  BY DEF Ch!DonneesPresentes, CP!DonneesPresentes
<1>2. \A c : Ch!FiltresDisjoints(c) <=> CP!FiltresDisjoints(c)
  BY DEF Ch!FiltresDisjoints, CP!FiltresDisjoints
<1>3. \A f : Ch!lVerificationFiltre(f) <=> CP!lVerificationFiltre(f)
  BY DEF Ch!lVerificationFiltre, CP!lVerificationFiltre, Ch!MaxElements,
     CP!MaxElements
<1>4. \A c : Ch!ValeursBornees(c) <=> CP!ValeursBornees(c)
  BY DEF Ch!ValeursBornees, CP!ValeursBornees, Ch!Inferieur, CP!Inferieur
<1>5. \A c : Ch!Valide(c) <=> CP!Valide(c)
  BY <1>1, <1>2, <1>3, <1>4 DEF Ch!Valide, CP!Valide
<1>6. \A c : Ch!PeutPayer(c) <=> CP!PeutPayer(c)
  BY DEF Ch!PeutPayer, CP!PeutPayer
<1>7. \A c : Ch!Copie(c) = CP!Copie(c)
  BY DEF Ch!Copie, CP!Copie
<1>8. \A e : Ch!Admise(e) <=> CP!Admise(e)
  BY <1>5, MemesEntrees DEF Ch!Admise, CP!Admise
<1>9. \A e : Ch!Conforme(e) <=> CP!Conforme(e)
  BY <1>3, MemesLectures, MemesEntrees DEF Ch!Conforme, CP!Conforme
<1>10. QED
  BY <1>5, <1>6, <1>7, <1>8, <1>9

LEMMA MemesPas == Ch!Next <=> CP!Next
<1>1. Ch!Entree = CP!Entree /\ \A d, v : Ch!Aller(d, v) <=> CP!Aller(d, v)
  BY DEF Ch!Entree, CP!Entree, Ch!Aller, CP!Aller
<1>2. Ch!resultat = CP!resultat
  BY DEF Ch!resultat, CP!resultat
<1>3. Ch!Attrapee <=> CP!Attrapee
  BY <1>1, MemesLectures DEF Ch!Attrapee, CP!Attrapee
<1>4. /\ Ch!Ouvrir <=> CP!Ouvrir
      /\ Ch!OuvrirEnVain <=> CP!OuvrirEnVain
      /\ Ch!FinirLaBoucle <=> CP!FinirLaBoucle
  BY <1>1 DEF Ch!Ouvrir, CP!Ouvrir, Ch!OuvrirEnVain,
     CP!OuvrirEnVain, Ch!FinirLaBoucle, CP!FinirLaBoucle, Ch!resultat,
     CP!resultat
<1>5. /\ Ch!LireEntree <=> CP!LireEntree
      /\ Ch!LireEntreeLeve <=> CP!LireEntreeLeve
  BY <1>1, MemesEntrees DEF Ch!LireEntree, CP!LireEntree,
     Ch!LireEntreeLeve, CP!LireEntreeLeve, Ch!resultat, CP!resultat
<1>6. /\ Ch!Accepter <=> CP!Accepter
      /\ Ch!Refuser <=> CP!Refuser
  BY <1>1, MemesEntrees, MemesControles DEF Ch!Accepter, CP!Accepter,
     Ch!Refuser, CP!Refuser, Ch!resultat, CP!resultat
<1>7. Ch!Ajouter <=> CP!Ajouter
  BY <1>1, MemesEntrees, MemesControles DEF Ch!Ajouter, CP!Ajouter
<1>8. /\ Ch!Attraper <=> CP!Attraper
      /\ Ch!Avorter <=> CP!Avorter
  BY <1>1, <1>3 DEF Ch!Attraper, CP!Attraper, Ch!Avorter, CP!Avorter,
     Ch!Signaler, CP!Signaler, Ch!EntreeSuivante, CP!EntreeSuivante,
     Ch!resultat, CP!resultat
<1>9. /\ Ch!Demarrer <=> CP!Demarrer
      /\ Ch!Arreter <=> CP!Arreter
  BY <1>1 DEF Ch!Demarrer, CP!Demarrer, Ch!Arreter, CP!Arreter,
     Ch!GetCampagnesCount, CP!GetCampagnesCount, Ch!resultat, CP!resultat
<1>10. QED
  BY <1>4, <1>5, <1>6, <1>7, <1>8, <1>9 DEF Ch!Next, CP!Next

(* The assumptions of the loader hold of the file.                         *)
LEMMA HypothesesChargement == CP!LecturesAssumption /\ CP!FichiersAssumption
<1>1. \A f : Ch!FichierBienForme(f) <=> CP!FichierBienForme(f)
  BY MemesEntrees DEF Ch!FichierBienForme, CP!FichierBienForme
<1>2. QED
  BY <1>1, FichierAssumption
     DEF CP!LecturesAssumption, CP!FichiersAssumption
-----------------------------------------------------------------------------
(* The handlers of the server see SelectCampagne as CampagnesManager       *)
(* specifies it: its theorems hold of the whole program.                   *)
THEOREM ServeurCampagnes == ServeurSpec => Spec
<1>1. ServeurInit => Init
  BY DEF ServeurInit
<1>2. [ServeurNext]_serveurVars => [Next]_vars
  BY DEF ServeurNext, Charger, Servir, serveurVars
<1>3. QED
  BY <1>1, <1>2, PTL DEF ServeurSpec, Spec

(* The program loads its file as Chargement specifies it.                  *)
THEOREM ServeurChargement == ServeurSpec => Ch!Spec
<1>1. ServeurInit => Ch!Init
  BY DEF ServeurInit
<1>2. [ServeurNext]_serveurVars => [Ch!Next]_(Ch!chargementVars)
  BY DEF ServeurNext, Charger, Servir, serveurVars, chargement,
     Ch!chargementVars, Ch!resultat
<1>3. QED
  BY <1>1, <1>2, PTL DEF ServeurSpec, Ch!Spec

LEMMA ChargementInvariant == ServeurSpec => []CP!IInv
<1>1. Ch!Init => CP!Init
  BY DEF Ch!Init, CP!Init
<1>2. [Ch!Next]_(Ch!chargementVars) => [CP!Next]_(CP!chargementVars)
  BY MemesPas DEF Ch!chargementVars, CP!chargementVars, Ch!resultat,
     CP!resultat
<1>3. Ch!Spec => CP!Spec
  BY <1>1, <1>2, PTL DEF Ch!Spec, CP!Spec
<1>4. CP!Spec => []CP!IInv
  BY CP!InvariantInductif, HypothesesChargement
<1>5. QED
  BY <1>3, <1>4, ServeurChargement, PTL
-----------------------------------------------------------------------------
(* No call is made before the server runs.                                 *)
AvantServeur == phase # "serveur" => \A t \in Threads : pc[t] = "repos"

LEMMA AucunAppelAvant == ServeurSpec => []AvantServeur
<1>1. ServeurInit => AvantServeur
  BY DEF ServeurInit, Init, AvantServeur
<1>2. AvantServeur /\ [ServeurNext]_serveurVars => AvantServeur'
  <2> SUFFICES ASSUME AvantServeur, [ServeurNext]_serveurVars
               PROVE  AvantServeur'
    OBVIOUS
  <2>1. CASE Charger
    <3>1. phase # "serveur" /\ pc' = pc
      BY <2>1 DEF Charger, vars, Ch!Next, Ch!Ouvrir, Ch!OuvrirEnVain,
         Ch!LireEntree, Ch!LireEntreeLeve, Ch!Accepter, Ch!Refuser,
         Ch!Ajouter, Ch!Attraper, Ch!Avorter, Ch!FinirLaBoucle,
         Ch!Demarrer, Ch!Arreter, Ch!Aller
    <3>2. QED
      BY <3>1 DEF AvantServeur
  <2>2. CASE Servir
    BY <2>2 DEF Servir, chargement, AvantServeur
  <2>3. CASE UNCHANGED serveurVars
    BY <2>3 DEF serveurVars, vars, chargement, AvantServeur
  <2>4. QED
    BY <2>1, <2>2, <2>3 DEF ServeurNext
<1>3. QED
  BY <1>1, <1>2, PTL DEF ServeurSpec

(* The vector is never modified while a call of SelectCampagne, which      *)
(* holds pointers into it and takes no mutex of it, is in progress.        *)
THEOREM VecteurJamaisDeplace == ServeurSpec => VecteurStable
<1>1. AvantServeur /\ [ServeurNext]_serveurVars =>
        [(\E t \in Threads : pc[t] # "repos" \/ pc'[t] # "repos")
           => UNCHANGED mListeCampagnes]_serveurVars
  <2> SUFFICES ASSUME AvantServeur, ServeurNext, NEW t \in Threads,
                      pc[t] # "repos" \/ pc'[t] # "repos"
               PROVE  UNCHANGED mListeCampagnes
    OBVIOUS
  <2>1. CASE Servir
    BY <2>1 DEF Servir, chargement
  <2>2. CASE Charger
    <3>1. phase = "serveur"
      BY <2>2 DEF AvantServeur, Charger, vars
    <3>2. ~ Ch!Next
      BY <3>1 DEF Ch!Next, Ch!Ouvrir, Ch!OuvrirEnVain,
         Ch!LireEntree, Ch!LireEntreeLeve, Ch!Accepter, Ch!Refuser,
         Ch!Ajouter, Ch!Attraper, Ch!Avorter, Ch!FinirLaBoucle,
         Ch!Demarrer, Ch!Arreter, Ch!Aller
    <3>3. QED
      BY <2>2, <3>2 DEF Charger
  <2>3. QED
    BY <2>1, <2>2 DEF ServeurNext
<1>2. QED
  BY <1>1, AucunAppelAvant, PTL DEF ServeurSpec, VecteurStable
-----------------------------------------------------------------------------
(* The campaigns are loaded in the order of their ranks.                   *)
Ordonnee == \A i \in DOMAIN origines : i \in Campagnes /\ origines[i] = Rang[i]

LEMMA RangAdmis ==
  /\ \A c \in Campagnes : /\ Rang[c] \in DOMAIN Fichier.entrees
                          /\ CP!Admise(Fichier.entrees[Rang[c]])
  /\ \A k \in DOMAIN Fichier.entrees :
       CP!Admise(Fichier.entrees[k]) => \E c \in Campagnes : Rang[c] = k
  /\ \A c, d \in Campagnes : c < d => Rang[c] < Rang[d]
<1>1. \A e : Ch!Admise(e) <=> CP!Admise(e)
  BY MemesControles
<1>2. \A c \in Campagnes : Rang[c] \in DOMAIN Fichier.entrees
                           /\ Ch!Admise(Fichier.entrees[Rang[c]])
  BY RangAssumption
<1>3. \A k \in DOMAIN Fichier.entrees :
        Ch!Admise(Fichier.entrees[k]) => \E c \in Campagnes : Rang[c] = k
  BY RangAssumption
<1>4. \A c, d \in Campagnes : c < d => Rang[c] < Rang[d]
  BY RangAssumption
<1>5. QED
  BY <1>1, <1>2, <1>3, <1>4

LEMMA VecteurDuFichier ==
  ASSUME CP!IInv
  PROVE  /\ fichier = Fichier
         /\ Len(Fichier.entrees) \in Nat
         /\ DOMAIN Fichier.entrees = 1 .. Len(Fichier.entrees)
         /\ \A k \in DOMAIN Fichier.entrees :
              CP!EntreeBienFormee(Fichier.entrees[k])
         /\ itrJson \in Nat /\ itrJson >= 1
         /\ Len(origines) \in Nat /\ DOMAIN origines = 1 .. Len(origines)
         /\ DOMAIN mListeCampagnes = DOMAIN origines
         /\ Len(mListeCampagnes) = Len(origines)
         /\ \A i \in DOMAIN origines :
              /\ origines[i] \in 1 .. itrJson - 1
              /\ mListeCampagnes[i] =
                   CP!Construite(Fichier.entrees[origines[i]])
         /\ \A k \in 1 .. itrJson - 1 :
              CP!Admise(Fichier.entrees[k]) =>
                \E i \in DOMAIN origines : origines[i] = k
<1>1. /\ fichier \in {Fichier}
      /\ itrJson \in Nat /\ itrJson >= 1
      /\ Len(origines) \in Nat /\ DOMAIN origines = 1 .. Len(origines)
      /\ DOMAIN mListeCampagnes = DOMAIN origines
      /\ \A i \in DOMAIN origines :
           /\ origines[i] \in 1 .. itrJson - 1
           /\ mListeCampagnes[i] = CP!Construite(fichier.entrees[origines[i]])
  BY CP!VecteurBorne, HypothesesChargement
<1>2. /\ Len(fichier.entrees) \in Nat
      /\ DOMAIN fichier.entrees = 1 .. Len(fichier.entrees)
      /\ \A k \in 1 .. Len(fichier.entrees) :
           CP!EntreeBienFormee(fichier.entrees[k])
  BY <1>1, CP!FichierLu, HypothesesChargement
<1>3. Len(mListeCampagnes) = Len(origines)
  BY CP!VecteurLen, HypothesesChargement
<1>4. \A k \in 1 .. itrJson - 1 :
        CP!Admise(fichier.entrees[k]) =>
          \E i \in DOMAIN origines : origines[i] = k
  BY DEF CP!IInv, CP!ChargementInv, CP!VecteurFidele, CP!Chargees
<1>5. QED
  BY <1>1, <1>2, <1>3, <1>4

(* No rank is skipped: the next one is not among the entries passed.       *)
LEMMA RangSuivant ==
  ASSUME CP!IInv, Ordonnee, Len(origines) + 1 \in Campagnes
  PROVE  Rang[Len(origines) + 1] >= itrJson
<1> DEFINE n == Len(origines)
<1>1. Rang[n + 1] \in Nat /\ itrJson \in Nat /\ n \in Nat
      /\ Rang[n + 1] >= 1
  BY RangAdmis, VecteurDuFichier
<1>2. SUFFICES ASSUME Rang[n + 1] < itrJson PROVE FALSE
  BY <1>1
<1>3. Rang[n + 1] \in 1 .. itrJson - 1
  BY <1>1, <1>2
<1>4. PICK i \in 1 .. n : origines[i] = Rang[n + 1]
  BY <1>3, RangAdmis, VecteurDuFichier
<1>5. i \in Campagnes /\ origines[i] = Rang[i] /\ i < n + 1
  BY <1>1, <1>4, VecteurDuFichier DEF Ordonnee
<1>6. Rang[i] < Rang[n + 1]
  BY <1>5, RangAdmis
<1>7. QED
  BY <1>1, <1>4, <1>5, <1>6

LEMMA OrdonneeAjouter ==
  ASSUME CP!IInv, Ordonnee, CP!Ajouter
  PROVE  Ordonnee'
<1> DEFINE n == Len(origines)
<1>1. /\ origines' = Append(origines, itrJson)
      /\ itrJson <= Len(fichier.entrees)
      /\ CP!Admise(fichier.entrees[itrJson])
      /\ origines \in Seq(1 .. Len(fichier.entrees))
  BY DEF CP!Ajouter, CP!Aller, CP!IInv, CP!TypesLocaux, CP!ChargementInv,
     CP!PhaseJustifiee, CP!Entree
<1>2. n \in Nat /\ DOMAIN origines = 1 .. n /\ itrJson \in Nat
      /\ itrJson \in DOMAIN Fichier.entrees /\ fichier = Fichier
      /\ NbCampagnes \in Nat
  BY <1>1, VecteurDuFichier, CampagnesAssumption
<1>3. PICK j \in Campagnes : Rang[j] = itrJson
  BY <1>1, <1>2, RangAdmis
<1>4. n < j
  <2>1. SUFFICES ASSUME j \in 1 .. n PROVE FALSE
    BY <1>2, <1>3 DEF Campagnes
  <2>2. origines[j] = itrJson /\ origines[j] \in 1 .. itrJson - 1
    BY <1>2, <1>3, <2>1, VecteurDuFichier DEF Ordonnee
  <2>3. QED
    BY <1>2, <2>2
<1>5. n + 1 \in Campagnes
  BY <1>2, <1>3, <1>4 DEF Campagnes
<1>6. Rang[n + 1] = itrJson
  <2>1. Rang[n + 1] >= itrJson /\ Rang[n + 1] \in Nat
    BY <1>5, RangSuivant, RangAdmis, VecteurDuFichier
  <2>2. n + 1 # j => Rang[n + 1] < Rang[j]
    <3>1. n + 1 # j => n + 1 < j
      BY <1>2, <1>3, <1>4 DEF Campagnes
    <3>2. QED
      BY <1>3, <1>5, <3>1, RangAdmis
  <2>3. QED
    BY <1>2, <1>3, <2>1, <2>2
<1>7. /\ DOMAIN origines' = 1 .. n + 1 /\ origines'[n + 1] = itrJson
      /\ \A i \in 1 .. n : origines'[i] = origines[i]
  BY <1>1, <1>2
<1>8. QED
  BY <1>2, <1>5, <1>6, <1>7 DEF Ordonnee

LEMMA OrdonneePreserve ==
  ASSUME CP!IInv, Ordonnee, [ServeurNext]_serveurVars
  PROVE  Ordonnee'
<1>1. CASE CP!Ajouter
  BY <1>1, OrdonneeAjouter
<1>2. ASSUME CP!Next, ~ CP!Ajouter
      PROVE  origines' = origines
  BY <1>2 DEF CP!Next, CP!Ouvrir, CP!OuvrirEnVain, CP!LireEntree,
     CP!LireEntreeLeve, CP!Accepter, CP!Refuser, CP!Attraper, CP!Avorter,
     CP!FinirLaBoucle, CP!Demarrer, CP!Arreter, CP!resultat
<1>3. CASE Servir \/ UNCHANGED serveurVars
  BY <1>3 DEF Servir, serveurVars, chargement, Ordonnee
<1>4. CASE Charger
  BY <1>1, <1>2, <1>4, MemesPas DEF Charger, Ordonnee
<1>5. QED
  BY <1>3, <1>4 DEF ServeurNext

(* The invariant of the whole program.                                     *)
ServeurInv == IInv /\ CP!IInv /\ AvantServeur /\ Ordonnee

LEMMA ServeurInductif == ServeurSpec => []ServeurInv
<1>1. ServeurInit => Ordonnee
  BY DEF ServeurInit, Ch!Init, Ordonnee
<1>2. ServeurSpec => []IInv
  BY ServeurCampagnes, InvariantInductif, PTL
<1>3. CP!IInv /\ Ordonnee /\ [ServeurNext]_serveurVars => Ordonnee'
  BY OrdonneePreserve
<1>4. ServeurSpec => []Ordonnee
  BY <1>1, <1>3, ChargementInvariant, PTL DEF ServeurSpec
<1>5. QED
  BY <1>2, <1>4, ChargementInvariant, AucunAppelAvant, PTL DEF ServeurInv

(* When the server runs, the vector holds the campaigns of the file.       *)
LEMMA VecteurRemis ==
  ASSUME ServeurInv, phase = "serveur"
  PROVE  /\ DOMAIN origines = Campagnes
         /\ Len(mListeCampagnes) = NbCampagnes
         /\ DOMAIN mListeCampagnes = Campagnes
         /\ \A c \in Campagnes :
              /\ origines[c] = Rang[c]
              /\ mListeCampagnes[c] = Ch!Construite(Fichier.entrees[Rang[c]])
<1> DEFINE n == Len(origines)
<1>1. CP!IInv /\ Ordonnee /\ NbCampagnes \in Nat /\ n \in Nat
      /\ DOMAIN origines = 1 .. n
  BY VecteurDuFichier, CampagnesAssumption DEF ServeurInv
<1>2. fichier.lisible /\ fichier.entrees # << >>
  <2>1. SUFFICES ASSUME ~ (fichier.lisible /\ fichier.entrees # << >>)
                 PROVE  FALSE
    OBVIOUS
  <2>2. itrJson = 1 /\ ~ lReturn /\ (lReturn \/ n # 0)
    BY <1>1, <2>1 DEF CP!IInv, CP!ChargementInv, CP!RetourEnCours,
       CP!PhaseJustifiee
  <2>3. 1 \in DOMAIN origines
    BY <1>1, <2>2
  <2>4. QED
    BY <1>1, <2>2, <2>3, VecteurDuFichier
<1>3. itrJson = Len(Fichier.entrees) + 1
  BY <1>1, <1>2, VecteurDuFichier
     DEF CP!IInv, CP!ChargementInv, CP!PhaseJustifiee
<1>4. n <= NbCampagnes
  BY <1>1 DEF Ordonnee, Campagnes
<1>5. n >= NbCampagnes
  <2>1. SUFFICES ASSUME n + 1 \in Campagnes PROVE FALSE
    BY <1>1 DEF Campagnes
  <2>2. Rang[n + 1] >= itrJson
    BY <1>1, <2>1, RangSuivant
  <2>3. Rang[n + 1] \in 1 .. Len(Fichier.entrees)
        /\ Len(Fichier.entrees) \in Nat
    BY <1>1, <2>1, RangAdmis, VecteurDuFichier
  <2>4. QED
    BY <1>3, <2>2, <2>3
<1>6. n = NbCampagnes /\ DOMAIN origines = Campagnes
  <2> HIDE DEF n
  <2>1. n = NbCampagnes
    BY <1>1, <1>4, <1>5
  <2>2. QED
    BY <1>1, <2>1 DEF Campagnes
<1>7. \A c \in Campagnes : origines[c] = Rang[c]
  BY <1>1, <1>6 DEF Ordonnee
<1>8. /\ Len(mListeCampagnes) = n
      /\ DOMAIN mListeCampagnes = DOMAIN origines
      /\ \A i \in DOMAIN origines :
           mListeCampagnes[i] = CP!Construite(Fichier.entrees[origines[i]])
  BY <1>1, VecteurDuFichier
<1>9. \A e : CP!Construite(e) = Ch!Construite(e)
  BY MemesEntrees
<1>10. \A c \in Campagnes :
         mListeCampagnes[c] = Ch!Construite(Fichier.entrees[Rang[c]])
  BY <1>6, <1>7, <1>8, <1>9
<1>11. QED
  BY <1>6, <1>7, <1>8, <1>10

(* The loader hands over to SelectCampagne the admissible entries of the   *)
(* file, all of them, in order and unchanged by the copies.                *)
THEOREM RemisesFideles == ServeurSpec => []RemiseFidele
<1>1. ServeurInv => RemiseFidele
  <2> SUFFICES ASSUME ServeurInv, phase = "serveur"
               PROVE  /\ Len(mListeCampagnes) = NbCampagnes
                      /\ \A c \in Campagnes :
                           Represente(c, mListeCampagnes[c])
    BY DEF RemiseFidele
  <2>1. \A c \in Campagnes :
          Represente(c, Ch!Construite(Fichier.entrees[Rang[c]]))
    BY RangAssumption
  <2>2. QED
    BY <2>1, VecteurRemis
<1>2. QED
  BY <1>1, ServeurInductif, PTL
-----------------------------------------------------------------------------
(* What a call has sold suited its request and could be paid for, also     *)
(* with the budget the campaign started with.                              *)
VendueDe(t) ==
  LET c == lJsonReturn[t] IN
  c # Null => Compatible(pBidRequest[t], c) /\ BudgetInitial[c] >= mBidPrice[c]

VenduesInv == /\ \A c \in Campagnes : mBudget[c] <= BudgetInitial[c]
              /\ \A t \in Threads : VendueDe(t)

LEMMA VenduesPreserve ==
  ASSUME IInv, VenduesInv, [Next]_vars
  PROVE  VenduesInv'
<1>1. CASE UNCHANGED vars
  BY <1>1 DEF vars, locales, VenduesInv, VendueDe
<1>2. ASSUME NEW t \in Threads,
             Avancer(t) \/ \E r \in BidRequests : Appeler(t, r)
      PROVE  VenduesInv'
  <2>1. ASSUME NEW c \in Campagnes
        PROVE  mBudget'[c] <= BudgetInitial[c]
    <3>1. TypeOK'
      BY <1>2, TypePreserve DEF Next
    <3>2. mBudget[c] \in Int /\ mBudget'[c] \in Int /\ BudgetInitial[c] \in Int
      BY <3>1, CampagnesAssumption DEF IInv, TypeOK
    <3>3. mBudget'[c] = mBudget[c] \/ mBudget'[c] < mBudget[c]
      BY <1>2, BudgetDecroit
    <3>4. QED
      BY <3>2, <3>3 DEF VenduesInv
  <2>2. ASSUME NEW u \in Threads
        PROVE  VendueDe(u)'
    <3>1. /\ lJsonReturn \in [Threads -> Campagnes \cup {Null}]
          /\ pBidRequest \in [Threads -> BidRequests]
          /\ LocalesDe(u) /\ ParcoursDe(u)
      BY DEF IInv, TypeOK, LocalesInv, ParcoursInv
    <3>2. CASE u = t /\ Debiter(t)
      <4>1. lJsonReturn'[u] = lCampagne[u] /\ pBidRequest' = pBidRequest
            /\ pc[u] = "debit" /\ BudgetSuffisant(lCampagne[u])
        BY <3>1, <3>2 DEF Debiter, Aller, DecrementeBudget,
           CreerJsonFromCampagne
      <4>2. /\ lCampagne[u] \in Campagnes
            /\ Compatible(pBidRequest[u], lCampagne[u])
        <5>1. TypeOK /\ LocalesInv
          BY DEF IInv
        <5>2. PICK i \in DOMAIN lCampagnesSelectionnees[u] :
                lCampagne[u] = lCampagnesSelectionnees[u][i]
          BY <3>1, <4>1 DEF LocalesDe
        <5>3. QED
          BY <3>1, <5>1, <5>2, CampagneEnSection DEF ParcoursDe
      <4>3. BudgetInitial[lCampagne[u]] >= mBidPrice[lCampagne[u]]
        <5> DEFINE c == lCampagne[u]
        <5>1. c \in Campagnes /\ BudgetSuffisant(c)
          BY <4>1, <4>2
        <5> HIDE DEF c
        <5>2. /\ BudgetInitial[c] \in Int /\ mBidPrice[c] \in Int
              /\ mBudget[c] \in Int
          BY <5>1, CampagnesAssumption DEF IInv, TypeOK
        <5>3. mBudget[c] <= BudgetInitial[c] /\ mBudget[c] >= mBidPrice[c]
          BY <5>1 DEF BudgetSuffisant, VenduesInv
        <5>4. BudgetInitial[c] >= mBidPrice[c]
          BY <5>2, <5>3
        <5>5. QED
          BY <5>4 DEF c
      <4>4. QED
        BY <4>1, <4>2, <4>3 DEF VendueDe
    <3>3. CASE ~ (u = t /\ Debiter(t))
      <4>1. \/ lJsonReturn'[u] = Null
            \/ /\ lJsonReturn'[u] = lJsonReturn[u]
               /\ pBidRequest'[u] = pBidRequest[u]
        <5>1. CASE u # t
          BY <1>2, <5>1, AutreThread DEF IInv
        <5>2. CASE u = t /\ \E r \in BidRequests : Appeler(t, r)
          BY <3>1, <5>2 DEF Appeler, Aller, LocalesDe
        <5>3. CASE u = t /\ (Rendre(t) \/ Attraper(t))
          BY <3>1, <5>3 DEF Rendre, Attraper, DetruireLocales
        <5>4. CASE /\ u = t /\ Avancer(t)
                   /\ ~ Debiter(t) /\ ~ Rendre(t) /\ ~ Attraper(t)
          BY <5>4 DEF Avancer, VerrouillerItr, Examiner, AucuneCompatible,
             UneSeule, PlusieursCompatibles, VerrouillerPonderation,
             Ponderer, Tirer, Journaliser, VerrouillerPaiement,
             BudgetInsuffisant, locales
        <5>5. QED
          BY <1>2, <3>3, <5>1, <5>2, <5>3, <5>4
      <4>2. VendueDe(u)
        BY DEF VenduesInv
      <4>3. QED
        BY <4>1, <4>2 DEF VendueDe
    <3>4. QED
      BY <3>2, <3>3
  <2>3. QED
    BY <2>1, <2>2 DEF VenduesInv
<1>3. QED
  BY <1>1, <1>2 DEF Next

LEMMA VenduesInductif == ServeurSpec => []VenduesInv
<1>1. Init => VenduesInv
  BY CampagnesAssumption DEF Init, VenduesInv, VendueDe
<1>2. IInv /\ VenduesInv /\ [Next]_vars => VenduesInv'
  BY VenduesPreserve
<1>3. Spec => []VenduesInv
  BY <1>1, <1>2, InvariantInductif, PTL DEF Spec
<1>4. QED
  BY <1>3, ServeurCampagnes, PTL

(* The entry of the file that a sold campaign comes from.                  *)
LEMMA EntreeVendue ==
  ASSUME ServeurInv, VenduesInv, NEW t \in Threads, lJsonReturn[t] # Null
  PROVE  LET i == lJsonReturn[t]
             e == Fichier.entrees[Rang[i]]
             c == CP!Construite(e)
         IN  /\ i \in Campagnes /\ pBidRequest[t] \in BidRequests
             /\ fichier = Fichier /\ origines[i] = Rang[i]
             /\ Rang[i] \in DOMAIN Fichier.entrees
             /\ i \in DOMAIN mListeCampagnes /\ mListeCampagnes[i] = c
             /\ CP!EntreeBienFormee(e) /\ CP!Admise(e) /\ CP!PeutPayer(c)
             /\ RequeteCompatible(pBidRequest[t], c)
<1> DEFINE i == lJsonReturn[t]
           e == Fichier.entrees[Rang[i]]
           c == Ch!Construite(e)
<1>1. i \in Campagnes /\ pBidRequest[t] \in BidRequests /\ pc[t] # "repos"
  BY DEF ServeurInv, IInv, TypeOK, LocalesInv, LocalesDe
<1>2. phase = "serveur"
  BY <1>1 DEF ServeurInv, AvantServeur
<1>3. /\ i \in DOMAIN mListeCampagnes /\ mListeCampagnes[i] = c
      /\ origines[i] = Rang[i]
  BY <1>1, <1>2, VecteurRemis
<1>4. Compatible(pBidRequest[t], i) /\ BudgetInitial[i] >= mBidPrice[i]
  BY DEF VenduesInv, VendueDe
<1>5. Represente(i, c)
  BY <1>1, RangAssumption
<1>6. RequeteCompatible(pBidRequest[t], c)
  BY <1>1, <1>4, <1>5 DEF Represente
<1>7. CP!PeutPayer(c)
  <2>1. BudgetInitial[i] \in Int /\ mBidPrice[i] \in Int
    BY <1>1, CampagnesAssumption
  <2>2. Ch!PeutPayer(c)
    BY <1>4, <1>5, <2>1 DEF Represente
  <2>3. QED
    BY <2>2, MemesControles
<1>8. /\ CP!EntreeBienFormee(e) /\ CP!Admise(e) /\ c = CP!Construite(e)
      /\ fichier = Fichier /\ Rang[i] \in DOMAIN Fichier.entrees
  BY <1>1, RangAdmis, VecteurDuFichier, MemesEntrees DEF ServeurInv
<1>9. QED
  BY <1>1, <1>3, <1>6, <1>7, <1>8

(* Through the loader, the copies and the concurrent calls, only a         *)
(* campaign with a budget and a price in their ranges is sold, to a        *)
(* request that its size, price and filters accept.                        *)
THEOREM VentesChargees == ServeurSpec => []VenteChargee
<1>1. ServeurInv /\ VenduesInv => VenteChargee
  BY EntreeVendue, CP!AdmiseSaine, HypothesesChargement DEF VenteChargee
<1>2. QED
  BY <1>1, VenduesInductif, ServeurInductif, PTL
-----------------------------------------------------------------------------
(* A size that suits as declared, ratios being compared as integers, suits *)
(* when they are compared as floats.                                       *)
LEMMA TailleAcceptee ==
  ASSUME NEW r \in BidRequests, NEW e, CP!EntreeBienFormee(e),
         CP!Admise(e), TailleDeclaree(r, e)
  PROVE  TailleCompatible(r, CP!Construite(e))
<1> DEFINE w == CP!AsInt(e.width)
           h == CP!AsInt(e.height)
           c == CP!Construite(e)
<1>1. /\ c.mWidth = w /\ c.mHeight = h
      /\ c.mResponsive = CP!AsBool(e.responsive)
  BY DEF CP!Construite
<1>2. w \in Nat \ {0} /\ h \in Nat /\ Ulp((h * Unite) \div w) \in Nat \ {0}
  <2>1. w # 0
    BY <1>1 DEF CP!Admise, CP!Valide, CP!DonneesPresentes
  <2>2. QED
    BY <2>1 DEF CP!EntreeBienFormee, CP!DimensionsBienFormees
<1>3. \/ r.mDeviceW = w /\ r.mDeviceH = h
      \/ CP!AsBool(e.responsive) /\ r.mDeviceH * w = h * r.mDeviceW
  <2>1. /\ Ch!AsInt(e.width) = w /\ Ch!AsInt(e.height) = h
        /\ Ch!AsBool(e.responsive) = CP!AsBool(e.responsive)
    BY MemesLectures
  <2>2. QED
    BY <2>1 DEF TailleDeclaree
<1> HIDE DEF w, h, c
<1>4. ASSUME r.mDeviceH * w = h * r.mDeviceW
      PROVE  Ratio(r.mDeviceH, r.mDeviceW) = Ratio(h, w)
  <2> DEFINE W == r.mDeviceW
             H == r.mDeviceH
  <2>1. W \in Nat \ {0} /\ H \in Nat /\ Unite \in Nat
    BY RequetesAssumption, FichierAssumption
  <2>2. H * w = h * W
    BY <1>4
  <2> HIDE DEF W, H
  <2> DEFINE m == H * Unite
             n == h * Unite
  <2>3. m \in Nat /\ n \in Nat /\ MemeFraction(m, W, n, w)
    <3>1. m * w = (H * w) * Unite /\ n * W = (h * W) * Unite
      BY <1>2, <2>1
    <3>2. QED
      BY <1>2, <2>1, <2>2, <3>1 DEF MemeFraction
  <2>4. Ulp(n \div w) \in Nat \ {0}
    BY <1>2
  <2> HIDE DEF m, n
  <2>5. Arrondi(W)[m] = Arrondi(w)[n]
    BY <1>2, <2>1, <2>3, <2>4, ArrondiFraction
  <2>6. QED
    BY <2>5 DEF Ratio, m, n, W, H
<1>5. QED
  BY <1>1, <1>3, <1>4 DEF TailleCompatible, c

(* The filters as they are stored accept what they accept as written.      *)
LEMMA FiltresAcceptes ==
  ASSUME NEW r, NEW e, CP!EntreeBienFormee(e), CP!Admise(e)
  PROVE  FiltresCompatibles(r, CP!Construite(e)) <=> FiltresDeclares(r, e)
<1> DEFINE inc == e.filters.include
           exc == e.filters.exclude
           cles == {"language", "ifa", "application"}
           Contenu(f, cle) ==
             IF cle \in {"language", "ifa"}
             THEN {Minuscule(v) : v \in f.listes[cle].valeurs}
             ELSE f.listes[cle].valeurs
<1>1. ASSUME NEW f \in {inc, exc},
             CP!lVerificationFiltre(CP!GetFilterFromItr(f.listes)),
             NEW cle \in DOMAIN CP!GetFilterFromItr(f.listes)
      PROVE  /\ cle \in cles /\ cle \in DOMAIN f.listes
             /\ f.listes[cle].taille > 0
             /\ CP!GetFilterFromItr(f.listes)[cle].valeurs = Contenu(f, cle)
  <2>1. cle \in DOMAIN f.listes /\ f.listes[cle].taille > 0
    BY DEF CP!GetFilterFromItr
  <2>2. cle \in cles
    BY <1>1 DEF CP!lVerificationFiltre, CP!MaxElements
  <2>3. "valeurs" \in DOMAIN f.listes[cle]
    BY <2>1 DEF CP!EntreeBienFormee
  <2>4. CP!GetFilterFromItr(f.listes)[cle].valeurs = Contenu(f, cle)
    BY <2>1, <2>3 DEF CP!GetFilterFromItr
  <2>5. QED
    BY <2>1, <2>2, <2>4
<1>2. ASSUME NEW f, NEW cle \in cles
      PROVE  Correspond(r, cle, Contenu(f, cle)) <=>
               CASE cle = "language" ->
                      \E v \in f.listes[cle].valeurs :
                        Minuscule(v) = Minuscule(r.mDeviceLang)
                 [] cle = "ifa" ->
                      \E v \in f.listes[cle].valeurs :
                        Minuscule(v) = Minuscule(r.mDeviceIfa)
                 [] cle = "application" ->
                      \E v \in f.listes[cle].valeurs : Contient(r.mAppName, v)
  <2>1. CASE cle = "language"
    BY <2>1 DEF Correspond
  <2>2. CASE cle = "ifa"
    BY <2>2 DEF Correspond
  <2>3. CASE cle = "application"
    BY <2>3 DEF Correspond
  <2>4. QED
    BY <2>1, <2>2, <2>3
<1>3. /\ CP!Construite(e).mFilterInclude = CP!GetFilterFromItr(inc.listes)
      /\ CP!Construite(e).mFilterExlude = CP!GetFilterFromItr(exc.listes)
  BY DEF CP!Construite
<1>4. /\ CP!lVerificationFiltre(CP!GetFilterFromItr(inc.listes))
      /\ CP!lVerificationFiltre(CP!GetFilterFromItr(exc.listes))
  BY <1>3 DEF CP!Admise, CP!Valide
<1> DEFINE Cite(f, cle) == cle \in DOMAIN f.listes /\ f.listes[cle].taille > 0
           Accepte(f, cle) == Correspond(r, cle, Contenu(f, cle))
<1>5. FiltresDeclares(r, e) <=>
        \A cle \in cles :
          /\ Cite(inc, cle) => Renseigne(r, cle) /\ Accepte(inc, cle)
          /\ Cite(exc, cle) => Renseigne(r, cle) /\ ~ Accepte(exc, cle)
  BY <1>2 DEF FiltresDeclares, Renseigne
<1>6. \A f \in {inc, exc}, cle \in cles :
        Cite(f, cle) => cle \in DOMAIN CP!GetFilterFromItr(f.listes)
  BY DEF CP!GetFilterFromItr
<1> HIDE DEF Contenu, inc, exc, cles
<1>7. QED
  BY <1>1, <1>3, <1>4, <1>5, <1>6 DEF FiltresCompatibles

(* A null answer is right with respect to the file: of the entries that    *)
(* must be loaded and accept the request, none has the money left.         *)
THEOREM NullesConformes == ServeurSpec => []NulleConforme
<1>1. ServeurInv /\ ListeVideJustifiee => NulleConforme
  <2> SUFFICES ASSUME ServeurInv, ListeVideJustifiee, NEW t \in Threads,
                      pc[t] = "retour", lJsonReturn[t] = Null,
                      NEW k \in DOMAIN fichier.entrees,
                      LET e == fichier.entrees[k] IN
                      /\ \/ Ch!Conforme(e) /\ 100 * Ch!Stof(e.bidPrice) >= Unite
                         \/ k \in Ch!Chargees /\ Ch!BornesDocumentees(e)
                      /\ Declaree(pBidRequest[t], e)
                      /\ Ch!Stof(e.bidPrice) >= pBidRequest[t].mBidFloor
               PROVE  \E c \in DOMAIN origines :
                        origines[c] = k /\ ~ BudgetSuffisant(c)
    BY DEF NulleConforme
  <2> DEFINE e == Fichier.entrees[k]
             r == pBidRequest[t]
  <2>1. CP!IInv /\ phase = "serveur" /\ r \in BidRequests
    BY DEF ServeurInv, AvantServeur, IInv, TypeOK
  <2>2. fichier = Fichier /\ CP!EntreeBienFormee(e)
        /\ k \in DOMAIN Fichier.entrees
    BY <2>1, VecteurDuFichier
  <2>3. /\ \/ CP!Conforme(e) /\ 100 * CP!Stof(e.bidPrice) >= Unite
           \/ k \in Ch!Chargees
        /\ Declaree(r, e)
        /\ CP!Stof(e.bidPrice) >= r.mBidFloor
    BY <2>2, MemesControles, MemesLectures
  <2>4. CP!Admise(e)
    <3>1. CASE CP!Conforme(e) /\ 100 * CP!Stof(e.bidPrice) >= Unite
      BY <2>2, <3>1, CP!ConformeAdmise, HypothesesChargement
    <3>2. CASE k \in Ch!Chargees
      BY <2>1, <2>2, <3>2, CP!VecteurBorne, HypothesesChargement
         DEF Ch!Chargees
    <3>3. QED
      BY <2>3, <3>1, <3>2
  <2> HIDE DEF e, r
  <2>5. PICK c \in Campagnes : Rang[c] = k
    BY <2>2, <2>4, RangAdmis DEF e
  <2>6. c \in DOMAIN origines /\ origines[c] = k
    BY <2>1, <2>5, VecteurRemis
  <2>7. RequeteCompatible(r, CP!Construite(e))
    <3>1. TailleCompatible(r, CP!Construite(e))
      BY <2>1, <2>2, <2>3, <2>4, TailleAcceptee DEF Declaree
    <3>2. FiltresCompatibles(r, CP!Construite(e))
      BY <2>2, <2>3, <2>4, FiltresAcceptes DEF Declaree
    <3>3. PrixCompatible(r, CP!Construite(e))
      BY <2>3 DEF PrixCompatible, CP!Construite
    <3>4. QED
      BY <3>1, <3>2, <3>3 DEF RequeteCompatible
  <2>8. Compatible(r, c)
    <3>1. Represente(c, Ch!Construite(e))
      BY <2>5, RangAssumption DEF e
    <3>2. Represente(c, CP!Construite(e))
      BY <3>1, MemesEntrees
    <3>3. QED
      BY <2>1, <2>7, <3>2 DEF Represente
  <2>9. ~ BudgetSuffisant(c)
    BY <2>5, <2>8 DEF ListeVideJustifiee, r
  <2>10. QED
    BY <2>6, <2>9
<1>2. ServeurSpec => []ListeVideJustifiee
  BY ServeurCampagnes, ReponseNulleJustifiee, PTL
<1>3. QED
  BY <1>1, <1>2, ServeurInductif, PTL
-----------------------------------------------------------------------------
(* A value that is not NaN is the rounding of a fraction.                  *)
LEMMA FractionLue ==
  ASSUME NEW n, CP!LectureBienFormee(CP!Lecture(n)),
         CP!Lecture(n) \notin {HorsPlage, Illisible}, CP!Stof(n) # NaN
  PROVE  LET x == CP!Lecture(n) IN
         /\ x # NaN /\ x \notin {NaN, HorsPlage, Illisible}
         /\ x[1] \in Nat /\ x[2] \in Nat \ {0}
         /\ Pas(x[1], x[2]) \in Nat \ {0}
         /\ CP!Stof(n) = Arrondi(x[2])[x[1] * Unite]
<1> DEFINE x == CP!Lecture(n)
<1>1. x # NaN
  BY DEF CP!Stof
<1>2. x \in Nat \X (Nat \ {0}) /\ Ulp((x[1] * Unite) \div x[2]) \in Nat \ {0}
  BY <1>1 DEF CP!LectureBienFormee
<1>3. CP!Stof(n) = Arrondi(x[2])[x[1] * Unite]
  BY <1>1 DEF CP!Stof, CP!Arrondi, Arrondi
<1>4. QED
  BY <1>1, <1>2, <1>3 DEF Pas

(* When the floats are precise, the constructor admits no campaign able to *)
(* buy whose file values are out of their ranges.                          *)
LEMMA BornesExactes ==
  ASSUME NEW e, CP!EntreeBienFormee(e), CP!Admise(e),
         CP!PeutPayer(CP!Construite(e)),
         LecturePrecise(CP!Lecture(e.budget)),
         LecturePrecise(CP!Lecture(e.bidPrice)),
         PrixPrecis(CP!Lecture(e.bidPrice))
  PROVE  CP!BornesDocumentees(e)
<1> DEFINE c == CP!Construite(e)
           x == CP!Lecture(e.budget)
           y == CP!Lecture(e.bidPrice)
<1>1. /\ Unite <= c.mBudget /\ c.mBudget <= 1000 * Unite
      /\ Unite <= 100 * c.mBidPrice /\ c.mBidPrice <= 10 * Unite
  BY CP!AdmiseSaine, HypothesesChargement
<1>2. /\ c.mBudget = CP!Stof(e.budget) /\ c.mBidPrice = CP!Stof(e.bidPrice)
      /\ CP!Stof(e.budget) # NaN /\ CP!Stof(e.bidPrice) # NaN
  BY DEF CP!Construite, CP!PeutPayer
<1>3. /\ x \notin {HorsPlage, Illisible} /\ y \notin {HorsPlage, Illisible}
      /\ CP!LectureBienFormee(x) /\ CP!LectureBienFormee(y)
  BY CP!LeveesConnues, HypothesesChargement
     DEF CP!Admise, CP!EntreeBienFormee
<1>4. /\ x \notin {NaN, HorsPlage, Illisible} /\ x # NaN
      /\ x[1] \in Nat /\ x[2] \in Nat \ {0} /\ Pas(x[1], x[2]) \in Nat \ {0}
      /\ c.mBudget = Arrondi(x[2])[x[1] * Unite]
  BY <1>2, <1>3, FractionLue
<1>5. /\ y \notin {NaN, HorsPlage, Illisible} /\ y # NaN
      /\ y[1] \in Nat /\ y[2] \in Nat \ {0} /\ Pas(y[1], y[2]) \in Nat \ {0}
      /\ c.mBidPrice = Arrondi(y[2])[y[1] * Unite]
  BY <1>2, <1>3, FractionLue
<1>6. Unite \in Nat \ {0}
  BY FichierAssumption
<1>7. ASSUME NEW n \in Nat, NEW d \in Nat \ {0}, NEW p \in Nat,
             Pas(n, d) \in Nat \ {0}, d * Pas(n, d) < 2 * Unite,
             NEW A \in Nat, A = Arrondi(d)[n * Unite]
      PROVE  /\ p * Unite <= A => p * d <= n * 1
             /\ A <= p * Unite => n * 1 <= p * d
  <2>1. 1 * (d * Pas(n, d)) = d * Pas(n, d) /\ 1 * A = A
    BY <1>7
  <2>2. Ulp((n * Unite) \div d) \in Nat \ {0}
        /\ 1 * (d * Ulp((n * Unite) \div d)) < 2 * Unite
    BY <1>7, <2>1 DEF Pas
  <2>3. /\ p * Unite <= 1 * A => p * d <= n * 1
        /\ 1 * A <= p * Unite => n * 1 <= p * d
    <3>1. 1 \in Nat \ {0}
      OBVIOUS
    <3>2. QED
      BY <1>6, <1>7, <2>2, <3>1, ArrondiBornes, Zenon
  <2>4. QED
    BY <2>1, <2>3
<1>8. /\ c.mBudget \in Nat /\ c.mBidPrice \in Nat
      /\ x[2] * Pas(x[1], x[2]) < 2 * Unite
      /\ y[2] * Pas(y[1], y[2]) < 2 * Unite
  <2>1. c.mBudget \in CP!Flottants /\ c.mBidPrice \in CP!Flottants
    BY CP!AdmiseSaine, HypothesesChargement
  <2>2. QED
    BY <1>2, <1>4, <1>5, <2>1 DEF LecturePrecise, CP!Flottants
<1>9. y[2] <= 100 * y[1]
  <2> DEFINE n == y[1]
             d == y[2]
             A == c.mBidPrice
             u == Pas(n, d)
  <2>1. n \in Nat /\ d \in Nat \ {0} /\ u \in Nat \ {0}
        /\ A = Arrondi(d)[n * Unite] /\ Unite <= 100 * A
    BY <1>1, <1>5
  <2>2. SUFFICES ASSUME 100 * n < d PROVE FALSE
    BY <2>1
  <2>3. 50 * d * u < Unite
    BY <1>5, <2>2 DEF PrixPrecis
  <2> HIDE DEF n, d, A, u
  <2>4. 100 * (d * u) < 2 * Unite
    <3> DEFINE z == d * u
    <3>1. z \in Nat /\ 50 * z = 50 * d * u
      BY <2>1
    <3>2. 50 * z < Unite
      BY <2>3, <3>1
    <3> HIDE DEF z
    <3>3. 100 * z < 2 * Unite
      BY <1>6, <3>1, <3>2
    <3>4. QED
      BY <3>3 DEF z
  <2>5. 1 * Unite <= 100 * Arrondi(d)[n * Unite]
    BY <1>6, <2>1
  <2>6. Ulp((n * Unite) \div d) = u
    BY DEF u, Pas
  <2>7. 1 * d <= n * 100
    <3>1. 1 \in Nat /\ 100 \in Nat \ {0}
      OBVIOUS
    <3>2. QED
      BY <1>6, <2>1, <2>4, <2>5, <2>6, <3>1, ArrondiBornes, Zenon
  <2>8. QED
    BY <2>1, <2>2, <2>7
<1> HIDE DEF c, x, y
<1>10. /\ 1 * x[2] <= x[1] * 1 /\ x[1] * 1 <= 1000 * x[2]
       /\ y[1] * 1 <= 10 * y[2]
  <2>1. 1 * Unite <= c.mBudget
    BY <1>1, <1>6
  <2>2. QED
    BY <1>1, <1>4, <1>5, <1>7, <1>8, <2>1
<1>11. CP!Entre(x, << 1, 1 >>, << 1000, 1 >>)
  BY <1>4, <1>10 DEF CP!Entre
<1>12. CP!Entre(y, << 1, 100 >>, << 10, 1 >>)
  <2>1. 1 * y[2] <= y[1] * 100
    BY <1>5, <1>9
  <2>2. QED
    BY <1>5, <1>10, <2>1 DEF CP!Entre
<1>13. QED
  BY <1>11, <1>12 DEF CP!BornesDocumentees, x, y

(* Ratios that are equal as floats are equal as integers.                  *)
LEMMA TailleExacte ==
  ASSUME NEW r \in BidRequests, NEW e, CP!EntreeBienFormee(e), CP!Admise(e),
         TailleCompatible(r, CP!Construite(e)),
         Ch!AsBool(e.responsive) => RatioPrecis(r, e)
  PROVE  TailleDeclaree(r, e)
<1> DEFINE w == Ch!AsInt(e.width)
           h == Ch!AsInt(e.height)
           W == r.mDeviceW
           H == r.mDeviceH
           c == CP!Construite(e)
<1>1. /\ c.mWidth = w /\ c.mHeight = h /\ c.mResponsive = Ch!AsBool(e.responsive)
  BY MemesLectures DEF CP!Construite
<1>2. w \in Nat \ {0} /\ h \in Nat /\ Pas(h, w) \in Nat \ {0}
  <2>1. w # 0
    BY <1>1 DEF CP!Admise, CP!Valide, CP!DonneesPresentes
  <2>2. QED
    BY <2>1, MemesLectures DEF CP!EntreeBienFormee, CP!DimensionsBienFormees, Pas
<1>3. W \in Nat \ {0} /\ H \in Nat /\ Unite \in Nat \ {0}
  BY RequetesAssumption, FichierAssumption
<1>4. \/ H = h /\ W = w
      \/ Ch!AsBool(e.responsive) /\ Ratio(H, W) = Ratio(h, w)
  BY <1>1 DEF TailleCompatible
<1>5. ASSUME Ch!AsBool(e.responsive), Ratio(H, W) = Ratio(h, w)
      PROVE  H * w = h * W
  <2>1. /\ Pas(H, W) \in Nat \ {0}
        /\ W * w * (Pas(H, W) + Pas(h, w)) < 2 * Unite
    BY <1>5, RequetesAssumption DEF RatioPrecis, Pas
  <2>2. Arrondi(W)[H * Unite] = Arrondi(w)[h * Unite]
    BY <1>5 DEF Ratio
  <2> HIDE DEF W, H, w, h
  <2>3. MemeArrondi(H, W, h, w)
    BY <1>2, <2>1, <2>2 DEF MemeArrondi, Pas
  <2>4. MemeFraction(H, W, h, w)
    BY <1>2, <1>3, <2>3, RatiosEgaux
  <2>5. QED
    BY <2>4 DEF MemeFraction
<1>6. QED
  BY <1>4, <1>5 DEF TailleDeclaree

(* From the file to the answer, for every entry whose values the floats    *)
(* tell apart: what is sold conforms to it, its values are in their ranges *)
(* and its size and filters, as written, accept the request.               *)
THEOREM VentesConformes == ServeurSpec => []VenteConforme
<1>1. ServeurInv /\ VenduesInv => VenteConforme
  <2> SUFFICES ASSUME ServeurInv, VenduesInv, NEW t \in Threads,
                      lJsonReturn[t] # Null,
                      FormatPrecis(pBidRequest[t],
                        fichier.entrees[origines[lJsonReturn[t]]])
               PROVE  LET e == fichier.entrees[origines[lJsonReturn[t]]] IN
                      Ch!BornesDocumentees(e) /\ Declaree(pBidRequest[t], e)
    BY DEF VenteConforme
  <2> DEFINE i == lJsonReturn[t]
             e == Fichier.entrees[Rang[i]]
             c == CP!Construite(e)
             r == pBidRequest[t]
  <2>1. /\ r \in BidRequests /\ fichier = Fichier /\ origines[i] = Rang[i]
        /\ Rang[i] \in DOMAIN Fichier.entrees
        /\ CP!EntreeBienFormee(e) /\ CP!Admise(e) /\ CP!PeutPayer(c)
        /\ RequeteCompatible(r, c)
    BY EntreeVendue
  <2>2. FormatPrecis(r, e)
    BY <2>1
  <2>3. /\ LecturePrecise(Ch!Lecture(e.budget))
        /\ LecturePrecise(Ch!Lecture(e.bidPrice))
        /\ PrixPrecis(Ch!Lecture(e.bidPrice))
        /\ Ch!AsBool(e.responsive) => RatioPrecis(r, e)
    BY <2>2 DEF FormatPrecis
  <2> HIDE DEF e, r
  <2>4. CP!BornesDocumentees(e)
    BY <2>1, <2>3, BornesExactes, MemesLectures
  <2>5. TailleDeclaree(r, e)
    BY <2>1, <2>3, TailleExacte DEF RequeteCompatible
  <2>6. FiltresDeclares(r, e)
    BY <2>1, FiltresAcceptes DEF RequeteCompatible
  <2>7. Ch!BornesDocumentees(e)
    BY <2>4, MemesEntrees
  <2>8. QED
    BY <2>1, <2>5, <2>6, <2>7 DEF Declaree, e, r
<1>2. QED
  BY <1>1, VenduesInductif, ServeurInductif, PTL

(* What is within bounds as a float is so as a fraction, up to half a      *)
(* spacing.                                                                *)
LEMMA BorneProche ==
  ASSUME NEW n \in Nat, NEW d \in Nat \ {0}, Unite \in Nat \ {0},
         Pas(n, d) \in Nat \ {0}, NEW p \in Nat, NEW q \in Nat \ {0}
  PROVE  LET A == Arrondi(d)[n * Unite]
             e == d * Pas(n, d)
         IN  /\ p * Unite <= q * A => 2 * p * d * Unite <= q * (2 * n * Unite + e)
             /\ q * A <= p * Unite => q * (2 * n * Unite - e) <= 2 * p * d * Unite
<1> DEFINE A == Arrondi(d)[n * Unite]
           e == d * Pas(n, d)
           m == n * Unite
           x == 2 * (A * d)
           y == p * Unite
           z == q * A
<1>1. m \in Nat /\ Ulp(m \div d) \in Nat \ {0} /\ e \in Nat
  BY DEF Pas
<1>2. /\ A \in Nat /\ x <= 2 * m + e /\ 2 * m <= x + e
  BY <1>1, ArrondiErreur DEF Pas
<1>3. /\ x \in Nat /\ y \in Nat /\ z \in Nat
      /\ z * (2 * d) = x * q /\ y * (2 * d) = 2 * p * d * Unite
  BY <1>2
<1> HIDE DEF A, e, x, y, z
<1>4. x * q <= (2 * m + e) * q
  BY <1>1, <1>2, <1>3, ProduitOrdonne
<1>5. (2 * m) * q <= x * q + e * q
  <2>1. (2 * m) * q <= (x + e) * q
    BY <1>1, <1>2, <1>3, ProduitOrdonne
  <2>2. (x + e) * q = x * q + e * q
    BY <1>1, <1>3
  <2>3. QED
    BY <2>1, <2>2
<1>6. /\ (2 * m + e) * q = q * (2 * n * Unite + e)
      /\ q * (2 * n * Unite - e) = (2 * m) * q - e * q
  BY <1>1
<1>7. /\ x * q \in Nat /\ (2 * m) * q \in Nat /\ e * q \in Nat
      /\ (2 * m + e) * q \in Nat
  BY <1>1, <1>3
<1>8. ASSUME y <= z
      PROVE  2 * p * d * Unite <= q * (2 * n * Unite + e)
  <2>1. y * (2 * d) <= z * (2 * d)
    BY <1>3, <1>8, ProduitOrdonne
  <2>2. QED
    BY <1>3, <1>4, <1>6, <1>7, <2>1
<1>9. ASSUME z <= y
      PROVE  q * (2 * n * Unite - e) <= 2 * p * d * Unite
  <2>1. z * (2 * d) <= y * (2 * d)
    BY <1>3, <1>9, ProduitOrdonne
  <2>2. y * (2 * d) \in Nat
    BY <1>3
  <2>3. QED
    BY <1>3, <1>5, <1>6, <1>7, <2>1, <2>2
<1>10. QED
  BY <1>8, <1>9 DEF A, e, y, z

(* Ratios that are equal as floats differ by a spacing at most.            *)
LEMMA RatiosProches ==
  ASSUME NEW H \in Nat, NEW W \in Nat \ {0}, NEW h \in Nat,
         NEW w \in Nat \ {0}, Unite \in Nat \ {0},
         Pas(H, W) \in Nat \ {0}, Pas(h, w) \in Nat \ {0},
         Ratio(H, W) = Ratio(h, w)
  PROVE  LET ecart == 2 * Unite * (H * w - h * W)
             marge == W * w * (Pas(H, W) + Pas(h, w))
         IN  - marge <= ecart /\ ecart <= marge
<1> DEFINE u == Pas(H, W)
           v == Pas(h, w)
           R == Ratio(H, W)
           x == 2 * (R * W)
           y == 2 * (R * w)
           m == 2 * (H * Unite)
           n == 2 * (h * Unite)
           a == W * u
           b == w * v
<1>1. /\ R \in Nat /\ x <= m + a /\ m <= x + a
  <2>1. H * Unite \in Nat /\ Ulp((H * Unite) \div W) = u
    BY DEF Pas
  <2>2. QED
    BY <2>1, ArrondiErreur DEF Ratio
<1>2. y <= n + b /\ n <= y + b
  <2>1. h * Unite \in Nat /\ Ulp((h * Unite) \div w) = v
    BY DEF Pas
  <2>2. QED
    BY <2>1, ArrondiErreur DEF Ratio
<1>3. /\ x \in Nat /\ y \in Nat /\ m \in Nat /\ n \in Nat
      /\ a \in Nat /\ b \in Nat /\ x * w = y * W
  BY <1>1
<1>4. /\ 2 * Unite * (H * w - h * W) = m * w - n * W
      /\ W * w * (u + v) = a * w + b * W
  OBVIOUS
<1> HIDE DEF u, v, R, x, y, m, n, a, b
<1>5. ASSUME NEW i \in Nat, NEW j \in Nat, NEW k \in Nat, NEW l \in Nat \ {0},
             i <= j + k
      PROVE  i * l <= j * l + k * l
  <2>1. i * l <= (j + k) * l
    BY <1>5, ProduitOrdonne
  <2>2. (j + k) * l = j * l + k * l
    OBVIOUS
  <2>3. QED
    BY <2>1, <2>2
<1>6. /\ x * w <= m * w + a * w /\ m * w <= x * w + a * w
      /\ y * W <= n * W + b * W /\ n * W <= y * W + b * W
  BY <1>1, <1>2, <1>3, <1>5
<1>7. /\ m * w \in Nat /\ n * W \in Nat /\ a * w \in Nat /\ b * W \in Nat
      /\ x * w \in Nat
  BY <1>3
<1>8. QED
  BY <1>3, <1>4, <1>6, <1>7 DEF u, v

(* The numbers of a campaign able to buy are in their ranges in the file,  *)
(* up to their rounding.                                                   *)
LEMMA BornesProches ==
  ASSUME NEW e, CP!EntreeBienFormee(e), CP!Admise(e),
         CP!PeutPayer(CP!Construite(e))
  PROVE  /\ EntreProche(CP!Lecture(e.budget), << 1, 1 >>, << 1000, 1 >>)
         /\ EntreProche(CP!Lecture(e.bidPrice), << 1, 100 >>, << 10, 1 >>)
<1> DEFINE c == CP!Construite(e)
<1>1. /\ Unite <= c.mBudget /\ c.mBudget <= 1000 * Unite
      /\ Unite <= 100 * c.mBidPrice /\ c.mBidPrice <= 10 * Unite
      /\ c.mBudget \in CP!Flottants /\ c.mBidPrice \in CP!Flottants
  BY CP!AdmiseSaine, HypothesesChargement
<1>2. /\ c.mBudget = CP!Stof(e.budget) /\ c.mBidPrice = CP!Stof(e.bidPrice)
      /\ CP!Stof(e.budget) # NaN /\ CP!Stof(e.bidPrice) # NaN
  BY DEF CP!Construite, CP!PeutPayer
<1>3. /\ CP!Lecture(e.budget) \notin {HorsPlage, Illisible}
      /\ CP!Lecture(e.bidPrice) \notin {HorsPlage, Illisible}
      /\ CP!LectureBienFormee(CP!Lecture(e.budget))
      /\ CP!LectureBienFormee(CP!Lecture(e.bidPrice))
  BY CP!LeveesConnues, HypothesesChargement
     DEF CP!Admise, CP!EntreeBienFormee
<1>4. c.mBudget \in Nat /\ c.mBidPrice \in Nat /\ Unite \in Nat \ {0}
  BY <1>1, <1>2, FichierAssumption DEF CP!Flottants
<1> HIDE DEF c
<1>5. ASSUME NEW k, NEW A \in Nat, A = CP!Stof(k), A # NaN,
             CP!Lecture(k) \notin {HorsPlage, Illisible},
             CP!LectureBienFormee(CP!Lecture(k)),
             NEW p \in Nat, NEW q \in Nat \ {0}, NEW s \in Nat,
             p * Unite <= q * A, A <= s * Unite
      PROVE  EntreProche(CP!Lecture(k), << p, q >>, << s, 1 >>)
  <2> DEFINE x == CP!Lecture(k)
  <2>1. /\ x \notin {NaN, HorsPlage, Illisible}
        /\ x[1] \in Nat /\ x[2] \in Nat \ {0} /\ Pas(x[1], x[2]) \in Nat \ {0}
        /\ A = Arrondi(x[2])[x[1] * Unite]
    BY <1>5, FractionLue
  <2>2. 1 * A <= s * Unite /\ 1 \in Nat \ {0}
    BY <1>5
  <2> HIDE DEF x
  <2>3. 2 * p * x[2] * Unite
          <= q * (2 * x[1] * Unite + x[2] * Pas(x[1], x[2]))
    BY <1>4, <1>5, <2>1, BorneProche, Zenon
  <2>4. 1 * (2 * x[1] * Unite - x[2] * Pas(x[1], x[2]))
          <= 2 * s * x[2] * Unite
    BY <1>4, <1>5, <2>1, <2>2, BorneProche, Zenon
  <2>5. QED
    BY <2>1, <2>3, <2>4, Zenon DEF EntreProche, x
<1>6. EntreProche(CP!Lecture(e.budget), << 1, 1 >>, << 1000, 1 >>)
  <2>1. 1 * Unite <= 1 * c.mBudget /\ 1 \in Nat \ {0} /\ 1000 \in Nat
    BY <1>1, <1>4
  <2>2. QED
    BY <1>1, <1>2, <1>3, <1>4, <1>5, <2>1
<1>7. EntreProche(CP!Lecture(e.bidPrice), << 1, 100 >>, << 10, 1 >>)
  <2>1. 1 * Unite <= 100 * c.mBidPrice /\ 100 \in Nat \ {0} /\ 10 \in Nat
    BY <1>1, <1>4
  <2>2. QED
    BY <1>1, <1>2, <1>3, <1>4, <1>5, <2>1
<1>8. QED
  BY <1>6, <1>7

(* A size that the call accepts is declared, up to the rounding of the     *)
(* ratios.                                                                 *)
LEMMA TailleVoisine ==
  ASSUME NEW r \in BidRequests, NEW e, CP!EntreeBienFormee(e), CP!Admise(e),
         TailleCompatible(r, CP!Construite(e))
  PROVE  TailleProche(r, e)
<1> DEFINE w == Ch!AsInt(e.width)
           h == Ch!AsInt(e.height)
           W == r.mDeviceW
           H == r.mDeviceH
           c == CP!Construite(e)
<1>1. /\ c.mWidth = w /\ c.mHeight = h /\ c.mResponsive = Ch!AsBool(e.responsive)
  BY MemesLectures DEF CP!Construite
<1>2. w \in Nat \ {0} /\ h \in Nat /\ Pas(h, w) \in Nat \ {0}
  <2>1. w # 0
    BY <1>1 DEF CP!Admise, CP!Valide, CP!DonneesPresentes
  <2>2. QED
    BY <2>1, MemesLectures DEF CP!EntreeBienFormee, CP!DimensionsBienFormees, Pas
<1>3. W \in Nat \ {0} /\ H \in Nat /\ Unite \in Nat \ {0}
      /\ Pas(H, W) \in Nat \ {0}
  BY RequetesAssumption, FichierAssumption DEF Pas
<1>4. \/ H = h /\ W = w
      \/ Ch!AsBool(e.responsive) /\ Ratio(H, W) = Ratio(h, w)
  BY <1>1 DEF TailleCompatible
<1>5. CASE H = h /\ W = w
  BY <1>5 DEF TailleProche
<1>6. CASE Ch!AsBool(e.responsive) /\ Ratio(H, W) = Ratio(h, w)
  <2> HIDE DEF W, H, w, h
  <2>1. LET ecart == 2 * Unite * (H * w - h * W)
            marge == W * w * (Pas(H, W) + Pas(h, w))
        IN  - marge <= ecart /\ ecart <= marge
    BY <1>2, <1>3, <1>6, RatiosProches
  <2>2. QED
    BY <1>6, <2>1, Zenon DEF TailleProche, W, H, w, h
<1>7. QED
  BY <1>4, <1>5, <1>6

(* From the file to the answer, for every file and however coarse the      *)
(* floats are: what is sold conforms to its own entry up to the rounding   *)
(* of the numbers that are read and of the ratios that are compared.       *)
THEOREM VentesProches == ServeurSpec => []VenteProche
<1>1. ServeurInv /\ VenduesInv => VenteProche
  <2> SUFFICES ASSUME ServeurInv, VenduesInv, NEW t \in Threads,
                      lJsonReturn[t] # Null
               PROVE  LET e == fichier.entrees[origines[lJsonReturn[t]]] IN
                      /\ EntreProche(Ch!Lecture(e.budget),
                                     << 1, 1 >>, << 1000, 1 >>)
                      /\ EntreProche(Ch!Lecture(e.bidPrice),
                                     << 1, 100 >>, << 10, 1 >>)
                      /\ TailleProche(pBidRequest[t], e)
                      /\ FiltresDeclares(pBidRequest[t], e)
    BY DEF VenteProche
  <2> DEFINE i == lJsonReturn[t]
             e == Fichier.entrees[Rang[i]]
             c == CP!Construite(e)
             r == pBidRequest[t]
  <2>1. /\ r \in BidRequests /\ fichier = Fichier /\ origines[i] = Rang[i]
        /\ CP!EntreeBienFormee(e) /\ CP!Admise(e) /\ CP!PeutPayer(c)
        /\ RequeteCompatible(r, c)
    BY EntreeVendue
  <2> HIDE DEF e, r
  <2>2. /\ EntreProche(Ch!Lecture(e.budget), << 1, 1 >>, << 1000, 1 >>)
        /\ EntreProche(Ch!Lecture(e.bidPrice), << 1, 100 >>, << 10, 1 >>)
    BY <2>1, BornesProches, MemesLectures
  <2>3. TailleProche(r, e)
    BY <2>1, TailleVoisine DEF RequeteCompatible
  <2>4. FiltresDeclares(r, e)
    BY <2>1, FiltresAcceptes DEF RequeteCompatible
  <2>5. QED
    BY <2>1, <2>2, <2>3, <2>4 DEF e, r
<1>2. QED
  BY <1>1, VenduesInductif, ServeurInductif, PTL
=============================================================================
