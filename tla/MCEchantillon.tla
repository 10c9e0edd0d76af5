--------------------------- MODULE MCEchantillon ----------------------------
(***************************************************************************)
(* SelectCampagne on the campaigns and the bid requests shipped in res/    *)
(* (campaigns.json and bid-requests/*.json), against what the companion    *)
(* file bid-requests/3.md says of the third request.                       *)
(*                                                                         *)
(* Money is in thousandths of a euro, the precision of the data.  The      *)
(* budgets are those left after a first series of sales (831, 37, 73 and   *)
(* 105 of them), so that the exhaustion of each campaign is within reach.  *)
(***************************************************************************)
EXTENDS CampagnesManager, TLC

CONSTANTS t1, t2

(* A word is its letters and its case; the name of an application is the   *)
(* set of the filter values found in it.                                   *)
Mot(lettres, majuscule) == [lettres |-> lettres, majuscule |-> majuscule]
MCMinuscule(m) == [m EXCEPT !.majuscule = FALSE]
MCContient(nom, valeur) == valeur \in nom.contenus
MCVide == Mot("", FALSE)

C == INSTANCE Compatibilite WITH Minuscule <- MCMinuscule,
                                 Contient <- MCContient, ChaineVide <- MCVide

Liste(valeurs) == [taille |-> Cardinality(valeurs), valeurs |-> valeurs]

Nom(contenus) == [contenus |-> contenus, lettres |-> "nom"]

Ifa(n) == Mot(n, FALSE)
IFA(n) == Mot(n, TRUE)

(* res/campaigns.json, with the ifa list of the fourth campaign reduced to *)
(* the value the requests use and another one.                             *)
MCCampagnes == <<
  [mWidth |-> 320, mHeight |-> 250, mResponsive |-> TRUE, mBidPrice |-> 120,
   mFilterInclude |-> C!GetFilterFromItr(
     [cle \in {"language", "application"} |->
        Liste(IF cle = "language" THEN {Mot("en", TRUE)} ELSE {"Puzzle"})]),
   mFilterExlude |-> C!GetFilterFromItr(
     [cle \in {"ifa"} |-> Liste({IFA("553144ea"), IFA("23c42e63")})])],
  [mWidth |-> 640, mHeight |-> 500, mResponsive |-> TRUE, mBidPrice |-> 1300,
   mFilterInclude |-> << >>, mFilterExlude |-> << >>],
  [mWidth |-> 320, mHeight |-> 250, mResponsive |-> FALSE, mBidPrice |-> 1000,
   mFilterInclude |-> << >>,
   mFilterExlude |-> C!GetFilterFromItr(
     [cle \in {"language", "application"} |->
        Liste(IF cle = "language" THEN {Mot("es", TRUE), Mot("uk", TRUE)}
              ELSE {"Number", "Kart", "Color", "Game", "Shoot"})])],
  [mWidth |-> 320, mHeight |-> 250, mResponsive |-> FALSE, mBidPrice |-> 123,
   mFilterInclude |-> C!GetFilterFromItr(
     [cle \in {"ifa"} |-> Liste({Ifa("4af44cdf"), Ifa("9be7478f")})]),
   mFilterExlude |-> << >>] >>

Requete(langue, nom, h, floor) ==
  [mDeviceLang |-> langue, mAppName |-> nom, mDeviceIfa |-> Ifa("4af44cdf"),
   mDeviceW |-> 320, mDeviceH |-> h, mBidFloor |-> floor]

requete1 == Requete(Mot("en", TRUE), Nom({"Puzzle"}), 250, 10)
requete2 == Requete(Mot("fr", TRUE), Nom({"Shoot"}), 300, 500)
requete3 == Requete(Mot("fr", TRUE), Nom({}), 250, 1200)

MCBidRequests == {requete1, requete2, requete3}
MCCompatible(r, c) == C!RequeteCompatible(r, MCCampagnes[c])
MCPrix == [c \in 1 .. 4 |-> MCCampagnes[c].mBidPrice]
MCBudget == << 280, 1900, 2000, 285 >>
MCUlp(n) == 1

Symetrie == Permutations(Threads)
-----------------------------------------------------------------------------
(* bid-requests/3.md, "Bid-request compatible uniquement avec la campagne  *)
(* 3".                                                                     *)
Requete3PourLaTroisieme ==
  \A t \in Threads : pBidRequest[t] = requete3 => lJsonReturn[t] \in {Null, 3}
=============================================================================
