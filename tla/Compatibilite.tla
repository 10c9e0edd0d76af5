--------------------------- MODULE Compatibilite ----------------------------
(***************************************************************************)
(* The tests of the first loop of SelectCampagne that do not depend on the *)
(* remaining budget: size, floor price and filters.                        *)
(*                                                                         *)
(* A campaign and a bid request are records with the names of the C++      *)
(* attributes; a filter map is a function from its keys to lists, a list   *)
(* the number of its elements (taille) and the set of them (valeurs).      *)
(* Prices are floats in units (module Flottant), dimensions are positive   *)
(* integers, strings whatever the string operations below are defined on.  *)
(***************************************************************************)
EXTENDS Flottant

CONSTANTS
  Minuscule(_),      (* a string with every character through tolower      *)
  Contient(_, _),    (* string::find of the second in the first succeeds   *)
  ChaineVide

(* Faulty variant: the values are stored as they are written.              *)
GetFilterSansMinuscule(listes) ==
  [cle \in {k \in DOMAIN listes : listes[k].taille > 0} |-> listes[cle]]

(* GetFilterFromItr: the language and ifa values are stored in lower case; *)
(* a key whose list has no element is never inserted in the map.           *)
GetFilterFromItr(listes) ==
  [cle \in {k \in DOMAIN listes : listes[k].taille > 0} |->
     IF cle \in {"language", "ifa"}
     THEN [listes[cle] EXCEPT !.valeurs = {Minuscule(v) : v \in @}]
     ELSE listes[cle]]

(* Faulty variant: the quotient of the integers, without the casts.        *)
RatioEntier(h, w) == (h \div w) * Unite

(* (float)h / (float)w                                                     *)
Ratio(h, w) == Arrondi(w)[h * Unite]

TailleCompatible(r, c) ==
  \/ r.mDeviceH = c.mHeight /\ r.mDeviceW = c.mWidth
  \/ /\ c.mResponsive
     /\ Ratio(r.mDeviceH, r.mDeviceW) = Ratio(c.mHeight, c.mWidth)

PrixCompatible(r, c) == c.mBidPrice >= r.mBidFloor

(* The lambdas of the filters: some value of the filter matches.           *)
Correspond(r, cle, valeurs) ==
  CASE cle = "language"    -> Minuscule(r.mDeviceLang) \in valeurs
    [] cle = "application" -> \E v \in valeurs : Contient(r.mAppName, v)
    [] cle = "ifa"         -> Minuscule(r.mDeviceIfa) \in valeurs

(* A filter on a field the request does not give rejects it, whether the   *)
(* filter includes or excludes; the language is always given.              *)
Renseigne(r, cle) ==
  CASE cle = "language"    -> TRUE
    [] cle = "application" -> r.mAppName # ChaineVide
    [] cle = "ifa"         -> r.mDeviceIfa # ChaineVide

FiltresCompatibles(r, c) ==
  /\ \A cle \in DOMAIN c.mFilterInclude :
       Renseigne(r, cle) /\ Correspond(r, cle, c.mFilterInclude[cle].valeurs)
  /\ \A cle \in DOMAIN c.mFilterExlude :
       Renseigne(r, cle) /\ ~ Correspond(r, cle, c.mFilterExlude[cle].valeurs)

RequeteCompatible(r, c) ==
  TailleCompatible(r, c) /\ PrixCompatible(r, c) /\ FiltresCompatibles(r, c)
=============================================================================
