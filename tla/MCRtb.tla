------------------------------- MODULE MCRtb --------------------------------
(***************************************************************************)
(* Two handlers at once, on payloads where any one node may be abnormal.   *)
(***************************************************************************)
EXTENDS RtbCtrl

CONSTANTS t1, t2, tous, premiere

Modele == [racine |-> "objet", device |-> "objet", app |-> "objet",
           id |-> "texte", lang |-> "texte", name |-> "texte",
           ifa |-> "texte", w |-> "nombre", h |-> "nombre",
           floor |-> "nombre"]

Champs == [racine |-> {"absente", "autre"}, device |-> {"autre"},
           app |-> {"autre"},
           id |-> {"vide", "composite"}, lang |-> {"vide", "composite"},
           name |-> {"vide", "composite"}, ifa |-> {"vide", "composite"},
           w |-> {"nul", "inconvertible"}, h |-> {"nul", "inconvertible"},
           floor |-> {"nul", "inconvertible"}]

(* Every payload with at most one abnormal node, and two where a number    *)
(* that is not converted comes with data that are missing.                 *)
MCPayloads ==
  {Modele}
    \cup UNION {{[Modele EXCEPT ![n] = x] : x \in Champs[n]} :
                   n \in DOMAIN Champs}
    \cup {[Modele EXCEPT !.w = "nul", !.h = "inconvertible"],
          [Modele EXCEPT !.lang = "vide", !.floor = "inconvertible"]}

MCBidRequests == {tous, premiere}
MCContenu(p) == IF p.name = "vide" THEN premiere ELSE tous
MCCompatible(r, c) == r = tous \/ c = 1
MCMoins(a, b) == a - b
MCPrix == << 2, 3 >>
MCBudget == << 5, 4 >>
=============================================================================
