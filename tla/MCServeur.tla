----------------------------- MODULE MCServeur ------------------------------
(***************************************************************************)
(* The program on a file of seven entries, three of which are not loaded,  *)
(* in a binary float format of ten significant bits and a unit of 2^-10.   *)
(* The format tells apart the values of the entries Puzzle and Libres, but *)
(* it rounds a price of 10.004 to 10 and the ratio 626/1002 to 10/16.      *)
(***************************************************************************)
EXTENDS Serveur, TLC

CONSTANTS t1, t2

Mot(lettres, majuscule) == [lettres |-> lettres, majuscule |-> majuscule]
MCMinuscule(m) == [m EXCEPT !.majuscule = FALSE]
MCContient(nom, valeur) == valeur \in nom.contenus
MCVide == Mot("", FALSE)
Nom(contenus) == [contenus |-> contenus, lettres |-> "nom"]

Precision == 10
MCUlp(n) == 2 ^ Cardinality({j \in 0 .. 4 : n >= 2 ^ (Precision + j)})

Texte(v)  == [type |-> "texte", val |-> v]
Nombre(v) == [type |-> "nombre", val |-> v]
Listes(f) == [type |-> "objet",
              listes |-> [cle \in DOMAIN f |->
                [taille |-> Cardinality(f[cle]), valeurs |-> f[cle]]]]

Entree(budget, prix, w, h, responsive, include, exclude) ==
  [noeud |-> "objet", id |-> Texte("c"), url |-> Texte("u"),
   budget |-> Texte(budget), bidPrice |-> Texte(prix),
   width |-> Nombre(w), height |-> Nombre(h),
   responsive |-> [type |-> "bool", val |-> responsive],
   filters |-> [type |-> "objet", include |-> Listes(include),
                exclude |-> Listes(exclude)]]

(* Budgets that pay for one sale and for two.                              *)
Puzzle == Entree(<< 12, 1 >>, << 7, 1 >>, 16, 10, TRUE,
                 [language |-> {Mot("en", TRUE)}, application |-> {"Puzzle"}],
                 << >>)
Libres == Entree(<< 9, 1 >>, << 45, 10 >>, 24, 15, FALSE, << >>,
                 [ifa |-> {Mot("553144ea", TRUE)}, language |-> {}])

MCFichier ==
  [lisible |-> TRUE,
   entrees |-> << [Puzzle EXCEPT !.width = Texte("16")],
                  Puzzle,
                  [Libres EXCEPT !.bidPrice = Texte(<< 12, 1 >>)],
                  [Libres EXCEPT !.budget = Texte(NaN)],
                  Libres,
                  [Puzzle EXCEPT !.budget = Texte(Illisible)],
                  [Libres EXCEPT !.budget = Texte(<< 12, 1 >>),
                                 !.bidPrice = Texte(<< 2501, 250 >>)] >>]

MCAdmises == {k \in DOMAIN Fichier.entrees : Ch!Admise(Fichier.entrees[k])}
MCRang == CHOOSE s \in [1 .. Cardinality(MCAdmises) -> MCAdmises] :
            \A i, j \in DOMAIN s : i < j => s[i] < s[j]
MCListe == [c \in DOMAIN MCRang |-> Ch!Construite(Fichier.entrees[MCRang[c]])]

MCNb     == Len(MCListe)
MCPrix   == [c \in 1 .. MCNb |-> MCListe[c].mBidPrice]
MCBudget == [c \in 1 .. MCNb |->
               IF Ch!PeutPayer(MCListe[c]) THEN MCListe[c].mBudget ELSE 0]
MCCompatible(r, c) == RequeteCompatible(r, MCListe[c])

Requete(langue, nom, w, h, ifa) ==
  [mDeviceLang |-> langue, mAppName |-> nom, mDeviceIfa |-> ifa,
   mDeviceW |-> w, mDeviceH |-> h, mBidFloor |-> 4 * Unite]

(* For Puzzle and Libres; for Libres only, as the language differs; for    *)
(* Puzzle only, as Libres excludes the ifa, in another case, or the ifa is *)
(* missing; for none; for Puzzle once the ratio is rounded.                *)
MCBidRequests ==
  {Requete(Mot("en", FALSE), Nom({"Puzzle"}), 24, 15, Mot("4af4", FALSE)),
   Requete(Mot("fr", TRUE), Nom({"Puzzle"}), 24, 15, Mot("4af4", FALSE)),
   Requete(Mot("en", TRUE), Nom({"Puzzle"}), 24, 15, Mot("553144ea", FALSE)),
   Requete(Mot("en", TRUE), Nom({"Puzzle"}), 24, 15, MCVide),
   Requete(Mot("en", TRUE), Nom({"Puzzle"}), 24, 16, Mot("4af4", FALSE)),
   Requete(Mot("en", TRUE), Nom({"Puzzle"}), 1002, 626, Mot("4af4", FALSE))}

(* What the format tells apart and what it does not.                       *)
ASSUME PrecisionAssumption ==
  \A r \in MCBidRequests :
    /\ FormatPrecis(r, Puzzle) <=> r.mDeviceW = 24
    /\ FormatPrecis(r, Libres)
    /\ ~ FormatPrecis(r, MCFichier.entrees[7])

Symetrie == Permutations(Threads)
=============================================================================
