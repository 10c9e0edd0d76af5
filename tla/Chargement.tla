----------------------------- MODULE Chargement -----------------------------
(***************************************************************************)
(* The start of the program: main calls ParseCampagnesFromJson, which      *)
(* builds one Campagne per entry of the file and keeps those that its      *)
(* constructor accepts, then stops or runs the server.                     *)
(*                                                                         *)
(* A file is lisible (or the parser rejects it) and has entrees.  An entry *)
(* says what kind of node is at each place the loader reads:               *)
(*   noeud          "objet" (or null) or "autre": operator[] throws on it  *)
(*   id, url, budget, bidPrice, width, height, responsive                  *)
(*                  [type, val], of type "null" (or missing), "texte",     *)
(*                  "nombre", "bool" or "composite" (object or array).     *)
(*                  The val of a budget or of a price is what stof makes   *)
(*                  of it: a fraction <<n, d>>, NaN, HorsPlage (overflow   *)
(*                  or underflow of a float) or Illisible; the val of a    *)
(*                  width or of a height is HorsEntier when the number     *)
(*                  does not fit in an int                                 *)
(*   filters        [type, include, exclude], type as noeud                *)
(*   include, exclude  [type, listes], the lists as in Compatibilite; a    *)
(*                  scalar in place of a list has no element, Composite is *)
(*                  an object or an array in a list                        *)
(* Negative numbers and infinities, which stof also gives, are refused by  *)
(* the same tests as numbers under and over the bounds.                    *)
(***************************************************************************)
EXTENDS Compatibilite, Sequences

CONSTANTS
  Fichiers,             (* the files to examine                            *)
  NaN, HorsPlage, Illisible, Composite, HorsEntier

VARIABLES
  fichier,
  phase,                (* where the program is, see Phases                *)
  itrJson,              (* the entry the loop is at                        *)
  exception,            (* the exception thrown by this iteration          *)
  lReturn,
  mListeCampagnes,
  origines              (* history: the entry each campaign comes from     *)

resultat == << lReturn, mListeCampagnes, origines >>
chargementVars == << fichier, phase, itrJson, exception, resultat >>

Phases == { "ouverture", "boucle", "constructeur", "ajout", "catch",
            "retour",    (* ParseCampagnesFromJson has returned            *)
            "serveur",   (* drogon::app().run()                            *)
            "arret",     (* exit(1)                                        *)
            "avorte" }   (* an exception left main                         *)

Entree == fichier.entrees[itrJson]
-----------------------------------------------------------------------------
(* Conversions of JSON nodes: the exceptions they throw, their values.     *)
LeveeAsString(n) == IF n.type = "composite" THEN {"LogicError"} ELSE {}

LeveeAsBool(n) == IF n.type \in {"texte", "composite"}
                  THEN {"LogicError"} ELSE {}

LeveeAsInt(n) == IF n.type \in {"texte", "composite"} \/ n.val = HorsEntier
                 THEN {"LogicError"} ELSE {}

AsString(n) == IF n.type = "null" THEN "" ELSE n.val
AsInt(n)    == CASE n.type = "nombre" /\ n.val # HorsEntier -> n.val
                 [] n.type = "bool" -> IF n.val THEN 1 ELSE 0
                 [] OTHER           -> 0
AsBool(n)   == CASE n.type = "bool"   -> n.val
                 [] n.type = "nombre" -> n.val # 0
                 [] OTHER             -> FALSE

(* stof(node.asString()): null is "", a boolean is "true" or "false".      *)
Lecture(n) == IF n.type \in {"texte", "nombre"} THEN n.val ELSE Illisible

LeveeStof(n) ==
  CASE n.type = "composite"                           -> {"LogicError"}
    [] n.type # "composite" /\ Lecture(n) = Illisible -> {"invalid_argument"}
    [] Lecture(n) = HorsPlage                         -> {"out_of_range"}
    [] OTHER                                          -> {}

Stof(n) == LET x == Lecture(n) IN
           IF x = NaN THEN NaN ELSE Arrondi(x[2])[x[1] * Unite]

(* What the entries of a file may be: a number is a fraction, around which *)
(* the floats of at most 1000 are spaced by a divisor of 1.                *)
LectureBienFormee(x) ==
  \/ x \in {NaN, HorsPlage, Illisible}
  \/ /\ x \in Nat \X (Nat \ {0})
     /\ LET pas == Ulp((x[1] * Unite) \div x[2]) IN
        /\ pas \in Nat \ {0}
        /\ x[1] <= 1000 * x[2] => Unite % pas = 0

DimensionsBienFormees(w, h) ==
  /\ w \in Nat /\ h \in Nat
  /\ w # 0 => Ulp((h * Unite) \div w) \in Nat \ {0}

EntreeBienFormee(e) ==
  /\ e.noeud \in {"objet", "autre"}
  /\ DimensionsBienFormees(AsInt(e.width), AsInt(e.height))
  /\ LectureBienFormee(Lecture(e.budget))
  /\ LectureBienFormee(Lecture(e.bidPrice))
  /\ \A f \in {e.filters.include, e.filters.exclude} :
       \A cle \in DOMAIN f.listes :
         /\ DOMAIN f.listes[cle] = {"taille", "valeurs"}
         /\ f.listes[cle].taille \in Nat

FichierBienForme(f) ==
  /\ f.lisible \in BOOLEAN
  /\ f.entrees \in Seq({f.entrees[k] : k \in DOMAIN f.entrees})
  /\ \A k \in DOMAIN f.entrees : EntreeBienFormee(f.entrees[k])

ASSUME LecturesAssumption ==
  /\ Unite \in Nat \ {0}
  /\ NaN \notin Nat
  /\ NaN # HorsPlage /\ NaN # Illisible /\ HorsPlage # Illisible

ASSUME FichiersAssumption == \A f \in Fichiers : FichierBienForme(f)

(* operator[], getMemberNames or asString throws while the filters are     *)
(* read, before the arguments of the constructor are.                      *)
FiltresIllisibles(e) ==
  \/ e.noeud = "autre"
  \/ e.filters.type = "autre"
  \/ \E f \in {e.filters.include, e.filters.exclude} :
       \/ f.type = "autre"
       \/ \E cle \in DOMAIN f.listes : Composite \in f.listes[cle].valeurs

(* C++ does not order the evaluation of the arguments: any of those that   *)
(* throw may be the first.                                                 *)
ArgumentsLevent(e) ==
  LeveeAsString(e.id) \cup LeveeAsString(e.url)
    \cup LeveeStof(e.budget) \cup LeveeStof(e.bidPrice)
    \cup LeveeAsInt(e.width) \cup LeveeAsInt(e.height)
    \cup LeveeAsBool(e.responsive)

Levees(e) == IF FiltresIllisibles(e) THEN {"LogicError"}
                                     ELSE ArgumentsLevent(e)

(* The object that the constructor initialises.                            *)
Construite(e) ==
  [mId |-> AsString(e.id), mUrl |-> AsString(e.url),
   mBudget |-> Stof(e.budget), mBidPrice |-> Stof(e.bidPrice),
   mWidth |-> AsInt(e.width), mHeight |-> AsInt(e.height),
   mResponsive |-> AsBool(e.responsive),
   mFilterInclude |-> GetFilterFromItr(e.filters.include.listes),
   mFilterExlude |-> GetFilterFromItr(e.filters.exclude.listes)]
-----------------------------------------------------------------------------
(* The controls of Campagne::Campagne.                                     *)
DonneesPresentes(c) ==
  /\ c.mId # "" /\ c.mUrl # ""
  /\ 0 \notin {c.mBudget, c.mBidPrice, c.mWidth, c.mHeight}

FiltresDisjoints(c) ==
  DOMAIN c.mFilterInclude \cap DOMAIN c.mFilterExlude = {}

MaxElements == [language |-> 10, application |-> 100, ifa |-> 100000]

lVerificationFiltre(filtre) ==
  \A cle \in DOMAIN filtre :
    cle \in DOMAIN MaxElements /\ filtre[cle].taille \in 1 .. MaxElements[cle]

(* a < b between floats: false when one of them is NaN.                    *)
Inferieur(a, b) == NaN \notin {a, b} /\ a < b

(* Faulty variant: the bounds of the price are not controlled.             *)
ValeursSansPrix(c) ==
  ~ (Inferieur(c.mBudget, Unite) \/ Inferieur(1000 * Unite, c.mBudget))

(* The float price is compared with the double 0.01, hundredths of the     *)
(* unit being finer than any float.                                        *)
ValeursBornees(c) ==
  /\ ~ (Inferieur(c.mBudget, Unite) \/ Inferieur(1000 * Unite, c.mBudget))
  /\ c.mBidPrice # NaN => 100 * c.mBidPrice >= Unite
  /\ ~ Inferieur(10 * Unite, c.mBidPrice)

Valide(c) ==
  /\ DonneesPresentes(c)
  /\ FiltresDisjoints(c)
  /\ lVerificationFiltre(c.mFilterInclude)
  /\ lVerificationFiltre(c.mFilterExlude)
  /\ ValeursBornees(c)
-----------------------------------------------------------------------------
Init ==
  /\ fichier \in Fichiers
  /\ phase = "ouverture"
  /\ itrJson = 1
  /\ exception = "aucune"
  /\ lReturn = TRUE
  /\ mListeCampagnes = << >>
  /\ origines = << >>

Aller(de, vers) == phase = de /\ phase' = vers

(* The file parses and has entries.                                        *)
Ouvrir ==
  /\ Aller("ouverture", "boucle")
  /\ fichier.lisible /\ fichier.entrees # << >>
  /\ UNCHANGED << fichier, itrJson, exception, resultat >>

(* The parser rejects the file, or the root has no element.                *)
OuvrirEnVain ==
  /\ Aller("ouverture", "retour")
  /\ ~ fichier.lisible \/ fichier.entrees = << >>
  /\ lReturn' = FALSE
  /\ UNCHANGED << fichier, itrJson, exception, mListeCampagnes, origines >>

LireEntree ==
  /\ Aller("boucle", "constructeur")
  /\ itrJson <= Len(fichier.entrees)
  /\ Levees(Entree) = {}
  /\ UNCHANGED << fichier, itrJson, exception, resultat >>

LireEntreeLeve ==
  /\ Aller("boucle", "catch")
  /\ itrJson <= Len(fichier.entrees)
  /\ exception' \in Levees(Entree)
  /\ UNCHANGED << fichier, itrJson, resultat >>

Accepter ==
  /\ Aller("constructeur", "ajout")
  /\ Valide(Construite(Entree))
  /\ UNCHANGED << fichier, itrJson, exception, resultat >>

Refuser ==
  /\ Aller("constructeur", "catch")
  /\ ~ Valide(Construite(Entree))
  /\ exception' = "invalid_argument"
  /\ UNCHANGED << fichier, itrJson, resultat >>

(* Faulty variant: the copy constructor forgets an attribute.              *)
CopieIncomplete(c) == [c EXCEPT !.mFilterExlude = << >>]

(* The copy constructor, both mutexes held: attribute by attribute.        *)
Copie(c) == [a \in DOMAIN c |-> c[a]]

(* push_back of a copy, under mAccesCampagnes.  The vector that grows      *)
(* copies its elements too: the move constructor is not noexcept.          *)
Ajouter ==
  /\ Aller("ajout", "boucle")
  /\ mListeCampagnes' =
       Append([i \in DOMAIN mListeCampagnes |-> Copie(mListeCampagnes[i])],
              Copie(Construite(Entree)))
  /\ origines' = Append(origines, itrJson)
  /\ itrJson' = itrJson + 1
  /\ UNCHANGED << fichier, exception, lReturn >>

(* The message of both handlers reads the id of the entry.                 *)
Attrapee == /\ exception \in {"LogicError", "invalid_argument"}
            /\ Entree.noeud = "objet"
            /\ LeveeAsString(Entree.id) = {}

(* Faulty variants: the first error ends the loop; the iterator does not   *)
(* advance, or skips an entry; a JSON error is not reported.               *)
SortirDeLaBoucle == itrJson' = Len(fichier.entrees) + 1
ResterSurEntree  == UNCHANGED itrJson
SauterUneEntree  == itrJson' = itrJson + 2
SignalerSaufJson == lReturn' = (lReturn /\ exception = "LogicError")

EntreeSuivante == itrJson' = itrJson + 1
Signaler       == lReturn' = FALSE

Attraper ==
  /\ Aller("catch", "boucle")
  /\ Attrapee
  /\ Signaler
  /\ EntreeSuivante
  /\ exception' = "aucune"
  /\ UNCHANGED << fichier, mListeCampagnes, origines >>

(* No handler takes the exception, or the handler throws in its turn:      *)
(* nothing catches it in main.                                             *)
Avorter ==
  /\ Aller("catch", "avorte")
  /\ ~ Attrapee
  /\ UNCHANGED << fichier, itrJson, exception, resultat >>

FinirLaBoucle ==
  /\ Aller("boucle", "retour")
  /\ itrJson > Len(fichier.entrees)
  /\ UNCHANGED << fichier, itrJson, exception, resultat >>

(* Faulty variant: the entries of the file are counted.                    *)
CompterLesEntrees == Len(fichier.entrees)

GetCampagnesCount == Len(mListeCampagnes)

(* main                                                                    *)
Demarrer ==
  /\ Aller("retour", "serveur")
  /\ lReturn \/ GetCampagnesCount # 0
  /\ UNCHANGED << fichier, itrJson, exception, resultat >>

Arreter ==
  /\ Aller("retour", "arret")
  /\ ~ lReturn /\ GetCampagnesCount = 0
  /\ UNCHANGED << fichier, itrJson, exception, resultat >>

Next ==
  \/ Ouvrir \/ OuvrirEnVain
  \/ LireEntree \/ LireEntreeLeve
  \/ Accepter \/ Refuser
  \/ Ajouter \/ Attraper \/ Avorter
  \/ FinirLaBoucle
  \/ Demarrer \/ Arreter

Spec == Init /\ [][Next]_chargementVars

(* The main thread runs; it waits for nobody.                              *)
FairSpec == Spec /\ WF_chargementVars(Next)
-----------------------------------------------------------------------------
Flottants == Nat \cup {NaN}

TypeOK ==
  /\ phase \in Phases
  /\ itrJson \in 1 .. Len(fichier.entrees) + 1
  /\ exception \in {"aucune", "LogicError", "invalid_argument",
                    "out_of_range"}
  /\ lReturn \in BOOLEAN
  /\ origines \in Seq(1 .. Len(fichier.entrees))
  /\ \A i \in DOMAIN mListeCampagnes :
       /\ mListeCampagnes[i].mBudget \in Flottants
       /\ mListeCampagnes[i].mBidPrice \in Flottants

(* The entries that become campaigns.                                      *)
Admise(e) == Levees(e) = {} /\ Valide(Construite(e))

Chargees == {origines[i] : i \in DOMAIN origines}

(* At every point of the load, the vector holds the admissible entries met *)
(* so far, all of them, in the order of the file and with the values the   *)
(* copies started from; lReturn says whether one has been dropped, and the *)
(* exception that is being handled comes from the entry at hand.           *)
VecteurFidele ==
  /\ fichier \in Fichiers
  /\ mListeCampagnes =
       [i \in DOMAIN origines |-> Construite(fichier.entrees[origines[i]])]
  /\ \A i, j \in DOMAIN origines : i < j => origines[i] < origines[j]
  /\ Chargees = {k \in 1 .. itrJson - 1 : Admise(fichier.entrees[k])}

RetourEnCours ==
  IF phase = "ouverture" \/ (fichier.lisible /\ fichier.entrees # << >>)
  THEN IF lReturn THEN Len(origines) = itrJson - 1
                  ELSE Len(origines) < itrJson - 1
  ELSE itrJson = 1 /\ ~ lReturn

PhaseJustifiee ==
  /\ phase = "ouverture" => itrJson = 1 /\ lReturn
  /\ phase \in {"boucle", "constructeur", "ajout", "catch", "avorte"} =>
       fichier.lisible /\ fichier.entrees # << >>
  /\ phase \in {"constructeur", "ajout", "catch", "avorte"} =>
       itrJson <= Len(fichier.entrees)
  /\ phase = "constructeur" => Levees(Entree) = {}
  /\ phase = "ajout" => Admise(Entree)
  /\ phase \in {"catch", "avorte"} =>
       /\ ~ Admise(Entree)
       /\ exception \in Levees(Entree) \cup {"invalid_argument"}
  /\ phase = "avorte" => ~ Attrapee
  /\ phase \in {"retour", "serveur", "arret"}
       /\ fichier.lisible /\ fichier.entrees # << >> =>
       itrJson = Len(fichier.entrees) + 1
  /\ phase = "serveur" => lReturn \/ Len(origines) # 0

ChargementInv == VecteurFidele /\ RetourEnCours /\ PhaseJustifiee

(* ParseCampagnesFromJson has returned.                                    *)
Charge == phase \in {"retour", "serveur", "arret"}

(* The comparison of SelectCampagne and of DecrementeBudget.               *)
PeutPayer(c) == NaN \notin {c.mBudget, c.mBidPrice} /\ c.mBudget >= c.mBidPrice

(* Whatever the file holds, NaN included, a campaign able to buy a bid     *)
(* request has a budget between 1 and 1000, a price between 0.01 and 10    *)
(* and a size that ratios can be taken of: what SelectCampagne assumes.    *)
VendeuseSaine ==
  \A i \in DOMAIN mListeCampagnes :
    LET c == mListeCampagnes[i] IN
    PeutPayer(c) =>
      /\ Unite <= c.mBudget /\ c.mBudget <= 1000 * Unite
      /\ Unite <= 100 * c.mBidPrice /\ c.mBidPrice <= 10 * Unite
      /\ c.mWidth # 0 /\ c.mHeight # 0

(* The server never runs without a campaign, although main only counts     *)
(* them when ParseCampagnesFromJson reports an error.                      *)
DemarrageSain == phase = "serveur" => mListeCampagnes # << >>

(* ParseCampagnesFromJson, "@return True si le parsing a eu lieu sans      *)
(* erreur, false sinon": true exactly when every entry became a campaign.  *)
RetourFidele ==
  Charge => (lReturn <=> /\ Len(mListeCampagnes) = Len(fichier.entrees)
                         /\ mListeCampagnes # << >>)

(* What the messages and the comments of the constructor ask of an entry:  *)
(* data that are present, values in their ranges, known filters of 1 to n  *)
(* elements, none in both include and exclude.                             *)
Entre(x, a, b) == /\ x \notin {NaN, HorsPlage, Illisible}
                  /\ a[1] * x[2] <= x[1] * a[2]
                  /\ x[1] * b[2] <= b[1] * x[2]

BornesDocumentees(e) ==
  /\ Entre(Lecture(e.budget), << 1, 1 >>, << 1000, 1 >>)
  /\ Entre(Lecture(e.bidPrice), << 1, 100 >>, << 10, 1 >>)

Conforme(e) ==
  LET f == e.filters IN
  /\ Levees(e) = {}
  /\ AsString(e.id) # "" /\ AsString(e.url) # ""
  /\ AsInt(e.width) # 0 /\ AsInt(e.height) # 0
  /\ BornesDocumentees(e)
  /\ DOMAIN f.include.listes \cap DOMAIN f.exclude.listes = {}
  /\ lVerificationFiltre(f.include.listes)
  /\ lVerificationFiltre(f.exclude.listes)

(* A wrong entry costs no other: each one that conforms and that the loop  *)
(* has passed is loaded, in the order of the file, wherever the errors of  *)
(* the others are and even if one of them ends the process later, unless   *)
(* the rounding of its price takes it under 0.01.                          *)
RefusJustifie ==
  /\ \A i, j \in DOMAIN origines : i < j => origines[i] < origines[j]
  /\ \A k \in DOMAIN fichier.entrees :
       LET e == fichier.entrees[k] IN
       /\ k < itrJson \/ (Charge /\ fichier.lisible)
       /\ Conforme(e) /\ 100 * Stof(e.bidPrice) >= Unite
       => k \in Chargees

(* The start ends: the server runs or the process does not.                *)
DemarrageTermine == <>(phase \in {"serveur", "arret", "avorte"})

-----------------------------------------------------------------------------
(* What the comments and the messages of the loader say of it and the code *)
(* does not do.                                                            *)

(* "Cas ou une mauvaise valeur a été entrée dans le JSON" and "dans l'un   *)
(* des floats": the catch clauses take both (CampagnesManager.cpp:79, 86), *)
(* so that a wrong entry never ends the process.                           *)
ErreursAttrapees == phase # "avorte"

(* A filter holds "1 à 10 éléments" (or 1 to 100, or to 100 000), a budget *)
(* is refused when it "n'est pas compris entre 1 et 1000", a price when it *)
(* "n'est pas compris entre 0.01 et 10" (Campagne.cpp:63, 95 and 100): the *)
(* entries that are loaded are those that conform, no less and no more.    *)
ChargementConforme ==
  Charge /\ fichier.lisible =>
    Chargees = {k \in DOMAIN fichier.entrees : Conforme(fichier.entrees[k])}

(* How far ErreursAttrapees is from the code: the process survives an      *)
(* entry that is an object with a printable id and floats that fit,        *)
(* whatever else is wrong with it, whatever the others are and in whatever *)
(* order the arguments are evaluated.                                      *)
AvortementDelimite ==
  phase = "avorte" =>
    \/ HorsPlage \in {Lecture(Entree.budget), Lecture(Entree.bidPrice)}
    \/ Entree.noeud = "autre"
    \/ Entree.id.type = "composite"
=============================================================================
