------------------------------ MODULE Serveur -------------------------------
(***************************************************************************)
(* The whole program from the file to the answers: main loads the          *)
(* campaigns (module Chargement), then the event loop threads call         *)
(* SelectCampagne on them (module CampagnesManager), which iterates over   *)
(* mListeCampagnes without taking mAccesCampagnes.                         *)
(*                                                                         *)
(* The constants of CampagnesManager are those of the entries of the file  *)
(* that the constructor admits, in their order; RemiseFidele says that the *)
(* loader hands over these.  A campaign with a NaN, which passes no        *)
(* comparison with its price, is a campaign without money.                 *)
(***************************************************************************)
EXTENDS CampagnesManager, Compatibilite

CONSTANTS Fichier, NaN, HorsPlage, Illisible, Composite, HorsEntier,
          Rang    (* the entry of the file that each campaign comes from   *)

VARIABLES fichier, phase, itrJson, exception, lReturn, mListeCampagnes,
          origines

Ch == INSTANCE Chargement WITH Fichiers <- {Fichier}

(* A campaign of CampagnesManager and the object it stands for.            *)
Represente(c, x) ==
  /\ \A r \in BidRequests : Compatible(r, c) = RequeteCompatible(r, x)
  /\ IF Ch!PeutPayer(x)
     THEN BudgetInitial[c] = x.mBudget /\ mBidPrice[c] = x.mBidPrice
     ELSE BudgetInitial[c] < mBidPrice[c]

ASSUME FichierAssumption ==
  /\ Unite \in Nat \ {0}
  /\ NaN \notin Nat
  /\ NaN # HorsPlage /\ NaN # Illisible /\ HorsPlage # Illisible
  /\ Ch!FichierBienForme(Fichier)

ASSUME RequetesAssumption ==
  \A r \in BidRequests :
    /\ r.mDeviceW \in Nat \ {0} /\ r.mDeviceH \in Nat \ {0}
    /\ Ulp((r.mDeviceH * Unite) \div r.mDeviceW) \in Nat \ {0}

ASSUME RangAssumption ==
  LET entrees == Fichier.entrees IN
  /\ Rang \in [Campagnes -> DOMAIN entrees]
  /\ \A c, d \in Campagnes : c < d => Rang[c] < Rang[d]
  /\ {Rang[c] : c \in Campagnes} =
       {k \in DOMAIN entrees : Ch!Admise(entrees[k])}
  /\ \A c \in Campagnes : Represente(c, Ch!Construite(entrees[Rang[c]]))

chargement == << fichier, phase, itrJson, exception, lReturn,
                 mListeCampagnes, origines >>
serveurVars == << vars, chargement >>

ServeurInit == Init /\ Ch!Init

Charger == Ch!Next /\ UNCHANGED vars

(* Faulty variant: the server is started before the loader.                *)
ServirTot == Next /\ UNCHANGED chargement

(* drogon::app().run() is called once ParseCampagnesFromJson has returned. *)
Servir ==
  /\ phase = "serveur"
  /\ Next
  /\ UNCHANGED chargement

ServeurNext == Charger \/ Servir

ServeurSpec == ServeurInit /\ [][ServeurNext]_serveurVars
-----------------------------------------------------------------------------
(* The campaigns SelectCampagne works on are the ones the loader leaves,   *)
(* in the same order without the entries it has refused, with the same     *)
(* money and compatible with the same requests once copied in the vector.  *)
RemiseFidele ==
  phase = "serveur" =>
    /\ Len(mListeCampagnes) = NbCampagnes
    /\ \A c \in Campagnes : Represente(c, mListeCampagnes[c])

(* The loop of SelectCampagne, its pointers to campaigns and its calls of  *)
(* GetPointeur are safe without mAccesCampagnes: no campaign is added, so  *)
(* the vector is not reallocated, while a call is in progress.             *)
VecteurStable ==
  [][(\E t \in Threads : pc[t] # "repos" \/ pc'[t] # "repos")
       => UNCHANGED mListeCampagnes]_serveurVars

(* What an entry of the file declares, compared with a request: the ratios *)
(* as integers, languages and ifa whatever their case, and only the        *)
(* filters that list something; a name or an ifa that the request does not *)
(* give satisfies no filter, excluding ones included.                      *)
TailleDeclaree(r, e) ==
  LET w == Ch!AsInt(e.width)
      h == Ch!AsInt(e.height)
  IN  \/ r.mDeviceW = w /\ r.mDeviceH = h
      \/ Ch!AsBool(e.responsive) /\ r.mDeviceH * w = h * r.mDeviceW

FiltresDeclares(r, e) ==
  LET Cite(f, cle) == cle \in DOMAIN f.listes /\ f.listes[cle].taille > 0
      Donne(cle) == CASE cle = "language"    -> TRUE
                      [] cle = "ifa"         -> r.mDeviceIfa # ChaineVide
                      [] cle = "application" -> r.mAppName # ChaineVide
      MemeCasse(x, f, cle) ==
        \E v \in f.listes[cle].valeurs : Minuscule(v) = Minuscule(x)
      Trouve(f, cle) ==
        CASE cle = "language"    -> MemeCasse(r.mDeviceLang, f, cle)
          [] cle = "ifa"         -> MemeCasse(r.mDeviceIfa, f, cle)
          [] cle = "application" ->
               \E v \in f.listes[cle].valeurs : Contient(r.mAppName, v)
  IN  \A cle \in {"language", "ifa", "application"} :
        /\ Cite(e.filters.include, cle) =>
             Donne(cle) /\ Trouve(e.filters.include, cle)
        /\ Cite(e.filters.exclude, cle) =>
             Donne(cle) /\ ~ Trouve(e.filters.exclude, cle)

Declaree(r, e) == TailleDeclaree(r, e) /\ FiltresDeclares(r, e)

(* Only what the controls of the constructor let through is sold, and to   *)
(* whom it suits: the campaign of an answer is in the vector, its price,   *)
(* size and filters accept the request, and it was loaded with a budget    *)
(* and a price in their ranges.                                            *)
VenteChargee ==
  \A t \in Threads :
    lJsonReturn[t] # Null =>
      /\ lJsonReturn[t] \in DOMAIN mListeCampagnes
      /\ LET c == mListeCampagnes[lJsonReturn[t]] IN
         /\ RequeteCompatible(pBidRequest[t], c)
         /\ Unite <= c.mBudget /\ c.mBudget <= 1000 * Unite
         /\ Unite <= 100 * c.mBidPrice /\ c.mBidPrice <= 10 * Unite

(* From the file to the null answer: no entry that conforms and whose      *)
(* price is not rounded under 0.01, or that is loaded with its values in   *)
(* their ranges, accepts the request by its price, size and filters and    *)
(* still has the money, wherever the refused entries are and whatever the  *)
(* other threads have debited meanwhile.                                   *)
NulleConforme ==
  \A t \in Threads :
    pc[t] = "retour" /\ lJsonReturn[t] = Null =>
      \A k \in DOMAIN fichier.entrees :
        LET e == fichier.entrees[k] IN
        /\ \/ Ch!Conforme(e) /\ 100 * Ch!Stof(e.bidPrice) >= Unite
           \/ k \in Ch!Chargees /\ Ch!BornesDocumentees(e)
        /\ Declaree(pBidRequest[t], e)
        /\ Ch!Stof(e.bidPrice) >= pBidRequest[t].mBidFloor
        => \E c \in DOMAIN origines : origines[c] = k /\ ~ BudgetSuffisant(c)

(* The spacing of the floats around a fraction.                            *)
Pas(n, d) == Ulp((n * Unite) \div d)

(* A fraction is between a and b up to half a spacing, and the ratios of a *)
(* request and of an entry are the same up to a spacing.                   *)
EntreProche(x, a, b) ==
  /\ x \notin {NaN, HorsPlage, Illisible}
  /\ LET d == x[2] * Pas(x[1], x[2]) IN
     /\ 2 * a[1] * x[2] * Unite <= a[2] * (2 * x[1] * Unite + d)
     /\ b[2] * (2 * x[1] * Unite - d) <= 2 * b[1] * x[2] * Unite

TailleProche(r, e) ==
  LET w     == Ch!AsInt(e.width)
      h     == Ch!AsInt(e.height)
      ecart == 2 * Unite * (r.mDeviceH * w - h * r.mDeviceW)
      marge == r.mDeviceW * w * (Pas(r.mDeviceH, r.mDeviceW) + Pas(h, w))
  IN  \/ r.mDeviceW = w /\ r.mDeviceH = h
      \/ Ch!AsBool(e.responsive) /\ - marge <= ecart /\ ecart <= marge

(* However coarse the floats are, a request is sold to a campaign whose    *)
(* entry has a budget and a price in their ranges up to the rounding of    *)
(* stof, filters that accept it, and its size or, if responsive, its ratio *)
(* up to the rounding of the two divisions that are compared.              *)
VenteProche ==
  \A t \in Threads :
    lJsonReturn[t] # Null =>
      LET e == fichier.entrees[origines[lJsonReturn[t]]] IN
      /\ EntreProche(Ch!Lecture(e.budget), << 1, 1 >>, << 1000, 1 >>)
      /\ EntreProche(Ch!Lecture(e.bidPrice), << 1, 100 >>, << 10, 1 >>)
      /\ TailleProche(pBidRequest[t], e)
      /\ FiltresDeclares(pBidRequest[t], e)

(* The floats are precise enough for what an entry declares: a value out   *)
(* of its range is not rounded to an end of it, and the ratios of the      *)
(* entry and of a request, when they differ, are not rounded to the same.  *)
LecturePrecise(x) == x # NaN => x[2] * Pas(x[1], x[2]) < 2 * Unite

PrixPrecis(x) ==
  x # NaN /\ 100 * x[1] < x[2] => 50 * x[2] * Pas(x[1], x[2]) < Unite

RatioPrecis(r, e) ==
  LET w == Ch!AsInt(e.width)
      h == Ch!AsInt(e.height)
  IN  r.mDeviceW * w * (Pas(r.mDeviceH, r.mDeviceW) + Pas(h, w)) < 2 * Unite

FormatPrecis(r, e) ==
  /\ LecturePrecise(Ch!Lecture(e.budget))
  /\ LecturePrecise(Ch!Lecture(e.bidPrice))
  /\ PrixPrecis(Ch!Lecture(e.bidPrice))
  /\ Ch!AsBool(e.responsive) => RatioPrecis(r, e)

(* From the file to the answer: a request is sold to a campaign whose own  *)
(* entry in the file, errors before it notwithstanding, declares values in *)
(* their documented ranges and a size and filters that accept the request, *)
(* exactly, as soon as the floats tell these values apart.                 *)
VenteConforme ==
  \A t \in Threads :
    lJsonReturn[t] # Null =>
      LET r == pBidRequest[t]
          e == fichier.entrees[origines[lJsonReturn[t]]]
      IN  FormatPrecis(r, e) => Ch!BornesDocumentees(e) /\ Declaree(r, e)
=============================================================================
