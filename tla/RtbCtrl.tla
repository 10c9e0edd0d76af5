------------------------------ MODULE RtbCtrl -------------------------------
(***************************************************************************)
(* RtbCtrl::asyncHandleHttpRequest, the handler of GET /rtb, run by the    *)
(* event loop threads: it converts the JSON payload into a BidRequest,     *)
(* checks it, calls CampagnesManager::SelectCampagne and answers.          *)
(*                                                                         *)
(* SelectCampagne is the auction of module Enchere, which CampagnesManager *)
(* is shown to implement; its variables are those of this module.          *)
(*                                                                         *)
(* A payload is a record that says, for each node the handler reads, what  *)
(* the JSON library will make of it:                                       *)
(*   racine       "absente" (getJsonObject gives null), "objet", "autre"   *)
(*   device, app  "objet" (or missing) or "autre" (a scalar or an array)   *)
(*   id, lang, name, ifa  "vide" (missing, null or ""), "texte",           *)
(*                "composite" (an object or an array)                      *)
(*   w, h, floor  "nul", "nombre" or "inconvertible"                       *)
(***************************************************************************)
EXTENDS Integers, FiniteSets

CONSTANTS Threads, Payloads, BidRequests, NbCampagnes, mBidPrice,
          BudgetInitial, Compatible(_, _), Moins(_, _),
          Contenu(_)    (* the bid request a well-formed payload describes *)

Chaines == {"vide", "texte", "composite"}
Valeurs == {"nul", "nombre", "inconvertible"}

(* What the control is meant to let through.                               *)
PayloadValide(p) ==
  /\ p.racine = "objet" /\ p.id = "texte" /\ p.lang = "texte"
  /\ p.w = "nombre" /\ p.h = "nombre" /\ p.floor = "nombre"

ASSUME DomainesAssumption ==
  /\ IsFiniteSet(Threads)
  /\ NbCampagnes \in Nat

ASSUME PayloadsAssumption ==
  /\ Payloads \subseteq
       [racine : {"absente", "objet", "autre"},
        device : {"objet", "autre"}, app : {"objet", "autre"},
        id : Chaines, lang : Chaines, name : Chaines, ifa : Chaines,
        w : Valeurs, h : Valeurs, floor : Valeurs]
  /\ \A p \in Payloads : PayloadValide(p) => Contenu(p) \in BidRequests

VARIABLES
  mBudget, etat, demande, reponse,   (* SelectCampagne, module Enchere     *)
  processus,       (* "vivant", or "avorte" after an uncaught exception    *)
  pc,              (* where each thread is in the handler                  *)
  payload,         (* the payload each thread handles                      *)
  lBidRequest,     (* the numbers of the BidRequest of each thread         *)
  lErreurParsing,
  lResult,         (* the campaign of the answer, 0 for the null value     *)
  lectureIndefinie,(* has an uninitialised number been read?               *)
  (* history variables *)
  nbVentes,        (* debits of each campaign                              *)
  nb200            (* 200 answers naming each campaign                     *)

encheres == << mBudget, etat, demande, reponse >>
locales  == << payload, lBidRequest, lErreurParsing, lResult >>
histoire == << lectureIndefinie, nbVentes, nb200 >>
vars == << encheres, processus, pc, locales, histoire >>

E == INSTANCE Enchere

Campagnes == 1 .. NbCampagnes
Nombres == {"mDeviceW", "mDeviceH", "mBidFloor"}

(* BidRequest has no constructor: its numbers are uninitialised.           *)
Indefinis == [n \in Nombres |-> "indefini"]

Init ==
  /\ E!Init
  /\ processus = "vivant"
  /\ pc = [t \in Threads |-> "repos"]
  /\ payload \in [Threads -> Payloads]
  /\ lBidRequest = [t \in Threads |-> Indefinis]
  /\ lErreurParsing = [t \in Threads |-> FALSE]
  /\ lResult = [t \in Threads |-> 0]
  /\ lectureIndefinie = FALSE
  /\ nbVentes = [c \in Campagnes |-> 0]
  /\ nb200 = [c \in Campagnes |-> 0]
-----------------------------------------------------------------------------
Aller(t, de, vers) ==
  /\ processus = "vivant"
  /\ pc[t] = de
  /\ pc' = [pc EXCEPT ![t] = vers]

(* Json::Value::operator[] on a scalar or an array, and asString on an     *)
(* object or an array, throw Json::LogicError.                             *)
ChainesLisibles(p) ==
  /\ p.racine = "objet" /\ p.device = "objet" /\ p.app = "objet"
  /\ "composite" \notin {p.id, p.lang, p.name, p.ifa}

(* Faulty variant: a conversion that fails assigns all the same.           *)
ConversionsSansControle(p) ==
  [n \in Nombres |->
     CASE n = "mDeviceW" -> p.w [] n = "mDeviceH" -> p.h [] OTHER -> p.floor]

(* The assignments of the try block, in order: the first conversion that   *)
(* throws leaves its number and the following ones uninitialised.          *)
Conversions(p) ==
  [n \in Nombres |->
     CASE n = "mDeviceW" /\ p.w # "inconvertible" -> p.w
       [] n = "mDeviceH" /\ "inconvertible" \notin {p.w, p.h} -> p.h
       [] n = "mBidFloor"
          /\ "inconvertible" \notin {p.w, p.h, p.floor} -> p.floor
       [] OTHER -> "indefini"]

(* Faulty variant: the exceptions of stof are swallowed.                   *)
ConversionLeveSaufStof(p) == "inconvertible" \in {p.w, p.h}

(* One of the conversions throws and the catch clauses record it.          *)
ConversionLeve(p) == "inconvertible" \in {p.w, p.h, p.floor}

(* Faulty variant: the language is not checked.                            *)
ChainesSansLangue(p) == p.id # "vide"

(* The control of the mandatory data, with the short circuit of &&.  The   *)
(* result of comparing an uninitialised number may be either.              *)
ChainesPresentes(p) == p.id # "vide" /\ p.lang # "vide"

LitIndefini(t) ==
  /\ ~ lErreurParsing[t]
  /\ ChainesPresentes(payload[t])
  /\ \E n \in Nombres : lBidRequest[t][n] = "indefini"

Valide(t) ==
  /\ ~ lErreurParsing[t]
  /\ ChainesPresentes(payload[t])
  /\ \A n \in Nombres : lBidRequest[t][n] # "nul"

(* A request arrives; getJsonObject gives null when the body is not JSON.  *)
Recevoir(t, p) ==
  /\ Aller(t, "repos", IF p.racine = "absente" THEN "reponse" ELSE "chaines")
  /\ payload' = [payload EXCEPT ![t] = p]
  /\ UNCHANGED << encheres, processus, lBidRequest, lErreurParsing, lResult,
                  histoire >>

LireChaines(t) ==
  /\ Aller(t, "chaines", "nombres")
  /\ ChainesLisibles(payload[t])
  /\ UNCHANGED << encheres, processus, locales, histoire >>

(* The exception of an unreadable string has no handler, here or in the    *)
(* server: std::terminate.                                                 *)
Avorter(t) ==
  /\ Aller(t, "chaines", "avorte")
  /\ ~ ChainesLisibles(payload[t])
  /\ processus' = "avorte"
  /\ UNCHANGED << encheres, locales, histoire >>

LireNombres(t) ==
  /\ Aller(t, "nombres", "controle")
  /\ lBidRequest' = [lBidRequest EXCEPT ![t] = Conversions(payload[t])]
  /\ lErreurParsing' = [lErreurParsing EXCEPT ![t] = ConversionLeve(payload[t])]
  /\ UNCHANGED << encheres, processus, payload, lResult, histoire >>

(* The data are valid: SelectCampagne is called.                           *)
Selectionner(t) ==
  /\ Aller(t, "controle", "selection")
  /\ Valide(t)
  /\ lectureIndefinie' = (lectureIndefinie \/ LitIndefini(t))
  /\ E!Demander(t, Contenu(payload[t]))
  /\ UNCHANGED << processus, locales, nbVentes, nb200 >>

(* Faulty variant: rejected data are converted again.                      *)
IgnorerEtReprendre(t) ==
  /\ Aller(t, "controle", "nombres")
  /\ ~ Valide(t) \/ LitIndefini(t)
  /\ UNCHANGED << encheres, processus, locales, histoire >>

Ignorer(t) ==
  /\ Aller(t, "controle", "reponse")
  /\ ~ Valide(t) \/ LitIndefini(t)
  /\ lectureIndefinie' = (lectureIndefinie \/ LitIndefini(t))
  /\ UNCHANGED << encheres, processus, locales, nbVentes, nb200 >>

(* SelectCampagne decides.                                                 *)
Decider(t) ==
  /\ processus = "vivant"
  /\ \/ /\ \E c \in Campagnes :
             /\ E!Vendre(t, c)
             /\ nbVentes' = [nbVentes EXCEPT ![c] = @ + 1]
     \/ /\ E!SansCampagne(t) \/ E!Renoncer(t)
        /\ UNCHANGED nbVentes
  /\ UNCHANGED << processus, pc, locales, lectureIndefinie, nb200 >>

(* Faulty variant: the value goes to another variable.                     *)
ObtenirAilleurs(t) ==
  /\ Aller(t, "selection", "reponse")
  /\ E!Terminer(t)
  /\ UNCHANGED << processus, locales, histoire >>

(* Its value is assigned to lResult, or its logic_error is caught, which   *)
(* leaves lResult null.                                                    *)
Obtenir(t) ==
  /\ Aller(t, "selection", "reponse")
  /\ lResult' = [lResult EXCEPT ![t] = IF etat[t] = "retour" THEN reponse[t]
                                                            ELSE 0]
  /\ E!Terminer(t)
  /\ UNCHANGED << processus, payload, lBidRequest, lErreurParsing, histoire >>

(* Faulty variant: lErreurParsing outlives the request.                    *)
RepondreSansReinitialiser(t) ==
  /\ Aller(t, "reponse", "repos")
  /\ nb200' = IF lResult[t] = 0 THEN nb200
              ELSE [nb200 EXCEPT ![lResult[t]] = @ + 1]
  /\ lBidRequest' = [lBidRequest EXCEPT ![t] = Indefinis]
  /\ lResult' = [lResult EXCEPT ![t] = 0]
  /\ UNCHANGED << encheres, processus, payload, lErreurParsing,
                  lectureIndefinie, nbVentes >>

(* 200 when lResult has members, 204 otherwise; then callback(resp).       *)
Repondre(t) ==
  /\ Aller(t, "reponse", "repos")
  /\ nb200' = IF lResult[t] = 0 THEN nb200
              ELSE [nb200 EXCEPT ![lResult[t]] = @ + 1]
  /\ lBidRequest' = [lBidRequest EXCEPT ![t] = Indefinis]
  /\ lErreurParsing' = [lErreurParsing EXCEPT ![t] = FALSE]
  /\ lResult' = [lResult EXCEPT ![t] = 0]
  /\ UNCHANGED << encheres, processus, payload, lectureIndefinie,
                  nbVentes >>

Traiter(t) ==
  \/ LireChaines(t)
  \/ Avorter(t)
  \/ LireNombres(t)
  \/ Selectionner(t)
  \/ Ignorer(t)
  \/ Decider(t)
  \/ Obtenir(t)
  \/ Repondre(t)

Next == \E t \in Threads : Traiter(t) \/ \E p \in Payloads : Recevoir(t, p)

Spec == Init /\ [][Next]_vars

(* A thread that handles a request keeps running.                          *)
FairSpec == Spec /\ \A t \in Threads : WF_vars(Traiter(t))
-----------------------------------------------------------------------------
TypeOK ==
  /\ etat \in [Threads -> {"repos", "attente", "retour", "exception"}]
  /\ reponse \in [Threads -> Campagnes \cup {0}]
  /\ processus \in {"vivant", "avorte"}
  /\ pc \in [Threads -> {"repos", "chaines", "nombres", "controle",
                         "selection", "reponse", "avorte"}]
  /\ payload \in [Threads -> Payloads]
  /\ lBidRequest \in
       [Threads -> [Nombres -> {"indefini", "nul", "nombre"}]]
  /\ lErreurParsing \in [Threads -> BOOLEAN]
  /\ lResult \in [Threads -> Campagnes \cup {0}]
  /\ lectureIndefinie \in BOOLEAN
  /\ nbVentes \in [Campagnes -> Nat]
  /\ nb200 \in [Campagnes -> Nat]

(* The numbers that a failed conversion leaves uninitialised are never     *)
(* read by the control: lErreurParsing is tested first.                    *)
PasDeLectureIndefinie == ~ lectureIndefinie

(* SelectCampagne is only called, and a campaign only answered, for a      *)
(* payload whose mandatory data are all there: the steps of the conversion *)
(* and of the control add up to that.                                      *)
AchatSurPayloadValide ==
  \A t \in Threads :
    etat[t] # "repos" \/ lResult[t] # 0 => PayloadValide(payload[t])

(* Where a handler is says what it holds: the request is initialised by    *)
(* the conversions of its own payload and by nothing older, a call of      *)
(* SelectCampagne is under way exactly between the control and the answer, *)
(* and nothing survives the callback into the next request of the thread.  *)
HandlerDe(t) ==
  /\ pc[t] = "selection" <=> etat[t] # "repos"
  /\ etat[t] # "retour" => reponse[t] = 0
  /\ pc[t] # "reponse" => lResult[t] = 0
  /\ pc[t] \in {"repos", "chaines", "nombres"} =>
       lBidRequest[t] = Indefinis /\ ~ lErreurParsing[t]
  /\ pc[t] \in {"nombres", "controle", "selection"} =>
       ChainesLisibles(payload[t])
  /\ pc[t] \in {"controle", "selection"} =>
       /\ lBidRequest[t] = Conversions(payload[t])
       /\ lErreurParsing[t] = ConversionLeve(payload[t])
  /\ pc[t] = "selection" \/ lResult[t] # 0 => PayloadValide(payload[t])

HandlerInv == \A t \in Threads : HandlerDe(t)

(* Each debit is answered by one 200 that names the campaign, neither lost *)
(* nor doubled by the exception path or by another thread: it has been     *)
(* sent, or the handler that owes it is on its way to callback.            *)
VenteAnnoncee ==
  \A c \in Campagnes :
    nbVentes[c] = nb200[c] + Cardinality({t \in Threads : reponse[t] = c})
                           + Cardinality({t \in Threads : lResult[t] = c})

(* If the requests stop arriving, every handler reaches its callback, or   *)
(* the process has been terminated.                                        *)
ToutRepondu ==
  <>[][\A t \in Threads : pc[t] = "repos" => pc'[t] = "repos"]_vars =>
    \A t \in Threads :
      pc[t] # "repos" ~> (pc[t] = "repos" \/ processus = "avorte")

(* "Récupération des éléments de type string (Pas d'exeption à catch)"     *)
(* (RtbCtrl.cpp): no payload terminates the process.                       *)
PasDException == processus = "vivant"
=============================================================================
