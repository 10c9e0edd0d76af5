---------------------------- MODULE MCChargement ----------------------------
(***************************************************************************)
(* The loader on a binary float format with ten significant bits and a     *)
(* unit of 2^-16, where 0.01 is rounded down as it is by a binary32, and   *)
(* on two families of files: one entry with at most two abnormal nodes,    *)
(* and two or three entries with at most one each.                         *)
(***************************************************************************)
EXTENDS Chargement, SequencesExt

Precision == 10

MCUlp(n) == 2 ^ Cardinality({j \in 0 .. 15 : n >= 2 ^ (Precision + j)})

MCMinuscule(v) == IF v = "EN" THEN "en" ELSE v
MCContient(a, b) == a = b

Nul == [type |-> "null", val |-> ""]
Texte(v) == [type |-> "texte", val |-> v]
Nombre(v) == [type |-> "nombre", val |-> v]
Bool(v) == [type |-> "bool", val |-> v]
Objet == [type |-> "composite", val |-> ""]

(* A list of n values, an object of one list, and the whole node.          *)
Liste(n) == [taille |-> n, valeurs |-> IF n = 0 THEN {} ELSE {"EN", "x"}]
ListeComposite == [taille |-> 1, valeurs |-> {Composite}]
Listes(cle, liste) == [type |-> "objet", listes |-> [k \in {cle} |-> liste]]
Vide == [type |-> "objet", listes |-> << >>]
Filtres(inc, exc) == [type |-> "objet", include |-> inc, exclude |-> exc]

Modele ==
  [noeud |-> "objet", id |-> Texte("a"), url |-> Texte("u"),
   budget |-> Texte(<< 132, 10 >>), bidPrice |-> Texte(<< 123, 1000 >>),
   width |-> Nombre(320), height |-> Nombre(250), responsive |-> Bool(TRUE),
   filters |-> Filtres(Listes("language", Liste(10)),
                       Listes("ifa", Liste(100000)))]

Reels == {Nul, Objet, Bool(TRUE), Texte(Illisible), Texte(HorsPlage),
          Texte(NaN), Nombre(<< 0, 1 >>), Nombre(<< 10, 1 >>)}

Champs ==
  [noeud |-> {"autre"},
   id |-> {Nul, Texte(""), Objet}, url |-> {Nul, Objet},
   budget |-> Reels \cup {Texte(<< 99, 100 >>), Texte(<< 1, 1 >>),
                          Texte(<< 1000, 1 >>), Texte(<< 1002, 1 >>)},
   bidPrice |-> Reels \cup {Texte(<< 1, 100 >>), Texte(<< 11, 1000 >>),
                            Texte(<< 1002, 100 >>)},
   width |-> {Nul, Texte("320"), Bool(TRUE), Nombre(HorsEntier)},
   height |-> {Nul, Objet, Nombre(HorsEntier)},
   responsive |-> {Nul, Nombre(1), Texte("oui")},
   filters |->
     {[Modele.filters EXCEPT !.type = "autre"],
      Filtres(Vide, Vide),
      Filtres([Vide EXCEPT !.type = "autre"], Vide),
      Filtres(Listes("application", Liste(100)), Vide),
      Filtres(Listes("application", Liste(101)), Vide),
      Filtres(Vide, Listes("language", Liste(11))),
      Filtres(Vide, Listes("language", Liste(0))),
      Filtres(Listes("ifa", Liste(100001)), Vide),
      Filtres(Vide, Listes("ifa", ListeComposite)),
      Filtres(Vide, Listes("pays", Liste(1))),
      Filtres(Listes("language", Liste(1)), Listes("language", Liste(1)))}]

Ecarts == UNION {{<< n, x >> : x \in Champs[n]} : n \in DOMAIN Champs}

Entrees1 == {Modele} \cup {[Modele EXCEPT ![d[1]] = d[2]] : d \in Ecarts}
Entrees2 == {[Modele EXCEPT ![d[1]] = d[2], ![g[1]] = g[2]] :
               d \in Ecarts, g \in Ecarts}

(* One entry of each outcome: loaded, refused, JSON error, out of range.   *)
Entrees0 == {Modele, [Modele EXCEPT !.url = Nul],
             [Modele EXCEPT !.width = Texte("320")],
             [Modele EXCEPT !.budget = Texte(HorsPlage)]}

MCFichiers ==
  [lisible : BOOLEAN, entrees : {<< >>}]
    \cup [lisible : {TRUE}, entrees : TupleOf(Entrees2, 1)
                                        \cup TupleOf(Entrees1, 2)
                                        \cup TupleOf(Entrees0, 3)]

(* For the runs that end on a disagreement: one entry whose id and whose   *)
(* budget both throw; a price at the bound of its range, then a budget     *)
(* that is not a number, then an exclusion by no language.                 *)
FichiersLevee ==
  {[lisible |-> TRUE,
    entrees |-> << [Modele EXCEPT !.id = Objet,
                                  !.budget = Texte(HorsPlage)] >>]}

FichiersBornes ==
  {[lisible |-> TRUE,
    entrees |-> << [Modele EXCEPT !.bidPrice = Texte(<< 1, 100 >>)],
                   [Modele EXCEPT !.budget = Texte(NaN)],
                   [Modele EXCEPT !.filters =
                      Filtres(Vide, Listes("language", Liste(0)))] >>]}
=============================================================================
