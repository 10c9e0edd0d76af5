---------------------------- MODULE RtbCtrlProofs ---------------------------
(***************************************************************************)
(* The handler of GET /rtb, for any set of payloads and any number of      *)
(* threads: what it holds at each point, that it never reads a number a    *)
(* failed conversion left uninitialised, that it only buys for complete    *)
(* payloads, and that each debit is answered by one 200.                   *)
(***************************************************************************)
EXTENDS RtbCtrl, TLAPS, FiniteSetTheorems

(* The inductive invariant.                                                *)
IInv == TypeOK /\ HandlerInv /\ PasDeLectureIndefinie

LEMMA ConversionsType ==
  ASSUME NEW p \in Payloads
  PROVE  /\ Conversions(p) \in [Nombres -> {"indefini", "nul", "nombre"}]
         /\ ConversionLeve(p) \in BOOLEAN
<1>1. p.w \in Valeurs /\ p.h \in Valeurs /\ p.floor \in Valeurs
  BY PayloadsAssumption
<1>2. QED
  BY <1>1 DEF Conversions, ConversionLeve, Nombres, Valeurs

(* The three conversions leave no number uninitialised unless one of them  *)
(* throws.                                                                 *)
LEMMA ConversionsCompletes ==
  ASSUME NEW p \in Payloads, ~ ConversionLeve(p)
  PROVE  /\ Conversions(p)["mDeviceW"] = p.w
         /\ Conversions(p)["mDeviceH"] = p.h
         /\ Conversions(p)["mBidFloor"] = p.floor
BY DEF Conversions, ConversionLeve, Nombres

(* The control never reads an uninitialised number, and what it lets       *)
(* through is complete.                                                    *)
LEMMA ControleSain ==
  ASSUME IInv, NEW t \in Threads, pc[t] = "controle"
  PROVE  /\ ~ LitIndefini(t)
         /\ Valide(t) => PayloadValide(payload[t])
<1> DEFINE p == payload[t]
<1>1. /\ p \in Payloads
      /\ lBidRequest[t] = Conversions(p)
      /\ lErreurParsing[t] = ConversionLeve(p)
      /\ ChainesLisibles(p)
  BY DEF IInv, TypeOK, HandlerInv, HandlerDe
<1>2. /\ p.id \in Chaines /\ p.lang \in Chaines
      /\ p.w \in Valeurs /\ p.h \in Valeurs /\ p.floor \in Valeurs
  BY <1>1, PayloadsAssumption
<1>3. CASE ConversionLeve(p)
  BY <1>1, <1>3 DEF LitIndefini, Valide
<1>4. CASE ~ ConversionLeve(p)
  <2>1. /\ lBidRequest[t]["mDeviceW"] = p.w
        /\ lBidRequest[t]["mDeviceH"] = p.h
        /\ lBidRequest[t]["mBidFloor"] = p.floor
    BY <1>1, <1>4, ConversionsCompletes
  <2>2. p.w # "inconvertible" /\ p.h # "inconvertible"
        /\ p.floor # "inconvertible"
    BY <1>4 DEF ConversionLeve
  <2>3. ~ LitIndefini(t)
    BY <1>2, <2>1 DEF LitIndefini, Nombres, Valeurs
  <2>4. Valide(t) => PayloadValide(p)
    BY <1>1, <1>2, <2>1, <2>2 DEF Valide, PayloadValide, Nombres, Valeurs,
       Chaines, ChainesPresentes, ChainesLisibles
  <2>5. QED
    BY <2>3, <2>4
<1>5. QED
  BY <1>3, <1>4

LEMMA InitIInv == Init => IInv
<1> SUFFICES ASSUME Init PROVE IInv
  OBVIOUS
<1>1. TypeOK
  BY DEF Init, E!Init, TypeOK, Indefinis
<1>2. HandlerInv
  BY DEF Init, E!Init, HandlerInv, HandlerDe
<1>3. QED
  BY <1>1, <1>2 DEF IInv, Init, PasDeLectureIndefinie

LEMMA TypePreserve ==
  ASSUME IInv, [Next]_vars
  PROVE  TypeOK'
<1>1. TypeOK /\ 0 \in Campagnes \cup {0}
  BY DEF IInv
<1> USE <1>1
<1>2. ASSUME NEW t \in Threads, NEW p \in Payloads, Recevoir(t, p)
      PROVE  TypeOK'
  BY <1>2 DEF Recevoir, Aller, TypeOK, encheres, histoire
<1>3. ASSUME NEW t \in Threads, LireChaines(t)
      PROVE  TypeOK'
  BY <1>3 DEF LireChaines, Aller, TypeOK, encheres, locales, histoire
<1>4. ASSUME NEW t \in Threads, Avorter(t)
      PROVE  TypeOK'
  BY <1>4 DEF Avorter, Aller, TypeOK, encheres, locales, histoire
<1>5. ASSUME NEW t \in Threads, LireNombres(t)
      PROVE  TypeOK'
  <2>1. payload[t] \in Payloads
    BY DEF TypeOK
  <2>2. QED
    BY <1>5, <2>1, ConversionsType
       DEF LireNombres, Aller, TypeOK, encheres, histoire
<1>6. ASSUME NEW t \in Threads, Selectionner(t)
      PROVE  TypeOK'
  BY <1>6 DEF Selectionner, Aller, TypeOK, locales, E!Demander, E!Passer,
     LitIndefini
<1>7. ASSUME NEW t \in Threads, Ignorer(t)
      PROVE  TypeOK'
  BY <1>7 DEF Ignorer, Aller, TypeOK, encheres, locales, LitIndefini
<1>8. ASSUME NEW t \in Threads, Decider(t)
      PROVE  TypeOK'
  <2>1. UNCHANGED << processus, pc, locales, lectureIndefinie, nb200 >>
    BY <1>8 DEF Decider
  <2>2. ASSUME NEW c \in Campagnes, E!Vendre(t, c),
               nbVentes' = [nbVentes EXCEPT ![c] = @ + 1]
        PROVE  TypeOK'
    BY <2>1, <2>2 DEF TypeOK, locales, E!Vendre, E!Passer
  <2>3. CASE (E!SansCampagne(t) \/ E!Renoncer(t)) /\ UNCHANGED nbVentes
    BY <2>1, <2>3 DEF TypeOK, locales, E!SansCampagne, E!Renoncer, E!Passer
  <2>4. QED
    BY <1>8, <2>2, <2>3 DEF Decider
<1>9. ASSUME NEW t \in Threads, Obtenir(t)
      PROVE  TypeOK'
  BY <1>9 DEF Obtenir, Aller, TypeOK, histoire, E!Terminer
<1>10. ASSUME NEW t \in Threads, Repondre(t)
       PROVE  TypeOK'
  <2>1. Indefinis \in [Nombres -> {"indefini", "nul", "nombre"}]
    BY DEF Indefinis
  <2>2. nb200' \in [Campagnes -> Nat]
    BY <1>10 DEF Repondre, TypeOK
  <2>3. QED
    BY <1>10, <2>1, <2>2 DEF Repondre, Aller, TypeOK, encheres
<1>11. CASE UNCHANGED vars
  BY <1>11 DEF vars, encheres, locales, histoire, TypeOK
<1>12. QED
  BY <1>2, <1>3, <1>4, <1>5, <1>6, <1>7, <1>8, <1>9, <1>10, <1>11
     DEF Next, Traiter

Pas(t) == Traiter(t) \/ \E p \in Payloads : Recevoir(t, p)

(* A handler leaves the state of the other handlers alone.                 *)
LEMMA AutreHandler ==
  ASSUME TypeOK, NEW t \in Threads, Pas(t), NEW u \in Threads, u # t
  PROVE  /\ pc'[u] = pc[u] /\ etat'[u] = etat[u] /\ reponse'[u] = reponse[u]
         /\ payload'[u] = payload[u] /\ lBidRequest'[u] = lBidRequest[u]
         /\ lErreurParsing'[u] = lErreurParsing[u]
         /\ lResult'[u] = lResult[u]
<1> USE DEF TypeOK, Aller, encheres, locales
<1>1. CASE \E p \in Payloads : Recevoir(t, p)
  BY <1>1 DEF Recevoir
<1>2. CASE LireChaines(t) \/ Avorter(t) \/ LireNombres(t) \/ Ignorer(t)
  BY <1>2 DEF LireChaines, Avorter, LireNombres, Ignorer
<1>3. CASE Selectionner(t)
  BY <1>3 DEF Selectionner, E!Demander, E!Passer
<1>4. CASE Decider(t)
  BY <1>4 DEF Decider, E!Vendre, E!SansCampagne, E!Renoncer, E!Passer
<1>5. CASE Obtenir(t)
  BY <1>5 DEF Obtenir, E!Terminer
<1>6. CASE Repondre(t)
  BY <1>6 DEF Repondre
<1>7. QED
  BY <1>1, <1>2, <1>3, <1>4, <1>5, <1>6 DEF Pas, Traiter

(* A handler keeps its own state in order.                                 *)
LEMMA MemeHandler ==
  ASSUME IInv, NEW t \in Threads, Pas(t)
  PROVE  HandlerDe(t)'
<1>1. TypeOK /\ HandlerDe(t)
  BY DEF IInv, HandlerInv
<1> USE <1>1 DEF TypeOK, HandlerDe, Aller
<1>2. ASSUME NEW p \in Payloads, Recevoir(t, p)
      PROVE  HandlerDe(t)'
  BY <1>2 DEF Recevoir, encheres
<1>3. CASE LireChaines(t)
  BY <1>3 DEF LireChaines, encheres, locales
<1>4. CASE Avorter(t)
  BY <1>4 DEF Avorter, encheres, locales
<1>5. CASE LireNombres(t)
  BY <1>5 DEF LireNombres, encheres
<1>6. CASE Selectionner(t)
  <2>1. PayloadValide(payload[t])
    BY <1>6, ControleSain DEF Selectionner
  <2>2. QED
    BY <1>6, <2>1 DEF Selectionner, locales, E!Demander, E!Passer
<1>7. CASE Ignorer(t)
  BY <1>7 DEF Ignorer, encheres, locales
<1>8. CASE Decider(t)
  BY <1>8 DEF Decider, locales, E!Vendre, E!SansCampagne, E!Renoncer,
     E!Passer
<1>9. CASE Obtenir(t)
  BY <1>9 DEF Obtenir, E!Terminer
<1>10. CASE Repondre(t)
  BY <1>10 DEF Repondre, encheres
<1>11. QED
  BY <1>2, <1>3, <1>4, <1>5, <1>6, <1>7, <1>8, <1>9, <1>10
     DEF Pas, Traiter

LEMMA HandlerPreserve ==
  ASSUME IInv, [Next]_vars
  PROVE  HandlerInv'
<1>1. CASE UNCHANGED vars
  BY <1>1 DEF vars, encheres, locales, histoire, IInv, HandlerInv, HandlerDe
<1>2. ASSUME NEW t \in Threads, Pas(t)
      PROVE  HandlerInv'
  <2> SUFFICES ASSUME NEW u \in Threads
               PROVE  HandlerDe(u)'
    BY DEF HandlerInv
  <2>1. CASE u = t
    BY <1>2, <2>1, MemeHandler
  <2>2. CASE u # t
    <3>1. HandlerDe(u) /\ TypeOK
      BY DEF IInv, HandlerInv
    <3>2. QED
      BY <1>2, <2>2, <3>1, AutreHandler DEF HandlerDe
  <2>3. QED
    BY <2>1, <2>2
<1>3. QED
  BY <1>1, <1>2 DEF Next, Pas

(* The control is reached with lErreurParsing up to date, so reads of      *)
(* uninitialised numbers never happen.                                     *)
LEMMA LecturePreserve ==
  ASSUME IInv, [Next]_vars
  PROVE  PasDeLectureIndefinie'
<1>1. lectureIndefinie = FALSE
  BY DEF IInv, TypeOK, PasDeLectureIndefinie
<1>2. ASSUME NEW t \in Threads, Selectionner(t) \/ Ignorer(t)
      PROVE  lectureIndefinie' = FALSE
  <2>1. ~ LitIndefini(t)
    BY <1>2, ControleSain DEF Selectionner, Ignorer, Aller
  <2>2. QED
    BY <1>1, <1>2, <2>1 DEF Selectionner, Ignorer
<1>3. ASSUME NEW t \in Threads, Pas(t), ~ Selectionner(t), ~ Ignorer(t)
      PROVE  lectureIndefinie' = lectureIndefinie
  BY <1>3 DEF Pas, Traiter, Recevoir, LireChaines, Avorter, LireNombres,
     Decider, Obtenir, Repondre, histoire
<1>4. CASE UNCHANGED vars
  BY <1>1, <1>4 DEF vars, histoire, PasDeLectureIndefinie
<1>5. QED
  BY <1>1, <1>2, <1>3, <1>4 DEF Next, Pas, PasDeLectureIndefinie

LEMMA InvariantInductif == Spec => []IInv
<1>1. IInv /\ [Next]_vars => IInv'
  BY TypePreserve, HandlerPreserve, LecturePreserve DEF IInv
<1>2. QED
  BY <1>1, InitIInv, PTL DEF Spec

(* Every variable of the handlers and of their calls keeps its type.       *)
THEOREM TypeCorrect == Spec => []TypeOK
<1>1. IInv => TypeOK
  BY DEF IInv
<1>2. QED
  BY <1>1, InvariantInductif, PTL

(* What a handler holds at each of its points, whatever the payloads and   *)
(* the other handlers do.                                                  *)
THEOREM HandlerCorrect == Spec => []HandlerInv
<1>1. IInv => HandlerInv
  BY DEF IInv
<1>2. QED
  BY <1>1, InvariantInductif, PTL

(* No payload makes the control compare a number that a failed conversion  *)
(* left uninitialised.                                                     *)
THEOREM LectureSure == Spec => []PasDeLectureIndefinie
<1>1. IInv => PasDeLectureIndefinie
  BY DEF IInv
<1>2. QED
  BY <1>1, InvariantInductif, PTL

(* The handler buys, and answers with a campaign, only for a payload with  *)
(* all its mandatory data.                                                 *)
THEOREM AchatComplet == Spec => []AchatSurPayloadValide
<1>1. IInv => AchatSurPayloadValide
  BY DEF IInv, HandlerInv, HandlerDe, AchatSurPayloadValide
<1>2. QED
  BY <1>1, InvariantInductif, PTL

(* Handlers use SelectCampagne as its specification allows: each thread    *)
(* has one call at a time, for a request of the domain, and collects its   *)
(* outcome before the next.  What holds of every behaviour of the auction  *)
(* therefore holds under the handlers.                                     *)
THEOREM HandlersEnchere == Spec => E!Spec
<1>1. Init => E!Init
  BY DEF Init
<1>2. IInv /\ [Next]_vars => [E!Next]_(E!vars)
  <2> SUFFICES ASSUME IInv, [Next]_vars PROVE [E!Next]_(E!vars)
    OBVIOUS
  <2>1. ASSUME NEW t \in Threads, Selectionner(t)
        PROVE  E!Next
    <3>1. payload[t] \in Payloads /\ PayloadValide(payload[t])
      BY <2>1, ControleSain DEF Selectionner, Aller, IInv, TypeOK
    <3>2. Contenu(payload[t]) \in BidRequests
      BY <3>1, PayloadsAssumption
    <3>3. QED
      BY <2>1, <3>2 DEF Selectionner, E!Next
  <2>2. ASSUME NEW t \in Threads, Decider(t)
        PROVE  E!Next
    BY <2>2 DEF Decider, E!Next, E!Repondre, Campagnes, E!Campagnes
  <2>3. ASSUME NEW t \in Threads, Obtenir(t)
        PROVE  E!Next
    BY <2>3 DEF Obtenir, E!Next, E!Repondre
  <2>4. ASSUME NEW t \in Threads, Pas(t),
               ~ Selectionner(t), ~ Decider(t), ~ Obtenir(t)
        PROVE  UNCHANGED E!vars
    BY <2>4 DEF Pas, Traiter, Recevoir, LireChaines, Avorter, LireNombres,
       Ignorer, Repondre, encheres, E!vars
  <2>5. CASE UNCHANGED vars
    BY <2>5 DEF vars, encheres, E!vars
  <2>6. QED
    BY <2>1, <2>2, <2>3, <2>4, <2>5 DEF Next, Pas
<1>3. QED
  BY <1>1, <1>2, InvariantInductif, PTL DEF Spec, E!Spec
-----------------------------------------------------------------------------
(* The calls that have sold campaign c and not returned, and the handlers  *)
(* that are about to answer with it.                                       *)
Vendues(c) == {t \in Threads : reponse[t] = c}
Promises(c) == {t \in Threads : lResult[t] = c}

LEMMA DuesFinies ==
  ASSUME NEW c
  PROVE  /\ IsFiniteSet(Vendues(c)) /\ Cardinality(Vendues(c)) \in Nat
         /\ IsFiniteSet(Promises(c)) /\ Cardinality(Promises(c)) \in Nat
<1>1. Vendues(c) \in SUBSET Threads /\ Promises(c) \in SUBSET Threads
  BY DEF Vendues, Promises
<1>2. IsFiniteSet(Vendues(c)) /\ IsFiniteSet(Promises(c))
  BY <1>1, FS_Subset, DomainesAssumption
<1>3. QED
  BY <1>2, FS_CardinalityType

(* VenteAnnoncee for one campaign.                                         *)
Solde(c) ==
  nbVentes[c] = nb200[c] + Cardinality(Vendues(c)) + Cardinality(Promises(c))

(* A thread joins, or leaves, the handlers that owe something for c.       *)
LEMMA UnDePlus ==
  ASSUME NEW S, IsFiniteSet(S), NEW t, t \notin S
  PROVE  Cardinality(S \cup {t}) = Cardinality(S) + 1
BY FS_AddElement

LEMMA UnDeMoins ==
  ASSUME NEW S, IsFiniteSet(S), NEW t \in S
  PROVE  Cardinality(S \ {t}) = Cardinality(S) - 1
BY FS_RemoveElement

LEMMA SoldeVendre ==
  ASSUME IInv, NEW c \in Campagnes, Solde(c), NEW t \in Threads,
         NEW d \in Campagnes, E!Vendre(t, d),
         nbVentes' = [nbVentes EXCEPT ![d] = @ + 1],
         UNCHANGED << lResult, nb200 >>
  PROVE  Solde(c)'
<1>1. /\ nbVentes \in [Campagnes -> Nat] /\ nb200 \in [Campagnes -> Nat]
      /\ reponse \in [Threads -> Campagnes \cup {0}]
      /\ reponse[t] = 0 /\ c # 0
  BY DomainesAssumption DEF IInv, TypeOK, HandlerInv, HandlerDe, E!Vendre,
     E!Passer, Campagnes
<1>2. reponse' = [reponse EXCEPT ![t] = d] /\ Promises(c)' = Promises(c)
  BY DEF E!Vendre, Promises
<1>3. CASE c = d
  <2>1. t \notin Vendues(c) /\ Vendues(c)' = Vendues(c) \cup {t}
    BY <1>1, <1>2, <1>3 DEF Vendues
  <2>2. Cardinality(Vendues(c)') = Cardinality(Vendues(c)) + 1
    BY <2>1, DuesFinies, UnDePlus
  <2>3. nbVentes'[c] = nbVentes[c] + 1
    BY <1>1, <1>3
  <2>4. QED
    BY <1>1, <1>2, <2>2, <2>3, DuesFinies DEF Solde
<1>4. CASE c # d
  <2>1. Vendues(c)' = Vendues(c) /\ nbVentes'[c] = nbVentes[c]
    BY <1>1, <1>2, <1>4 DEF Vendues
  <2>2. QED
    BY <1>2, <2>1 DEF Solde
<1>5. QED
  BY <1>3, <1>4

LEMMA SoldeObtenir ==
  ASSUME IInv, NEW c \in Campagnes, Solde(c), NEW t \in Threads, Obtenir(t)
  PROVE  Solde(c)'
<1>1. /\ reponse \in [Threads -> Campagnes \cup {0}]
      /\ lResult \in [Threads -> Campagnes \cup {0}]
      /\ nbVentes \in [Campagnes -> Nat] /\ nb200 \in [Campagnes -> Nat]
      /\ lResult[t] = 0 /\ c # 0
      /\ etat[t] # "retour" => reponse[t] = 0
  BY DomainesAssumption DEF IInv, TypeOK, HandlerInv, HandlerDe, Obtenir,
     Aller, Campagnes
<1>2. /\ lResult' = [lResult EXCEPT ![t] = reponse[t]]
      /\ reponse' = [reponse EXCEPT ![t] = 0]
      /\ UNCHANGED << nbVentes, nb200 >>
  BY <1>1 DEF Obtenir, E!Terminer, histoire
<1>3. CASE reponse[t] = c
  <2>1. /\ t \in Vendues(c) /\ Vendues(c)' = Vendues(c) \ {t}
        /\ t \notin Promises(c) /\ Promises(c)' = Promises(c) \cup {t}
    BY <1>1, <1>2, <1>3 DEF Vendues, Promises
  <2>2. /\ Cardinality(Vendues(c)') = Cardinality(Vendues(c)) - 1
        /\ Cardinality(Promises(c)') = Cardinality(Promises(c)) + 1
    BY <2>1, DuesFinies, UnDePlus, UnDeMoins
  <2>3. QED
    BY <1>1, <1>2, <2>2, DuesFinies DEF Solde
<1>4. CASE reponse[t] # c
  <2>1. Vendues(c)' = Vendues(c) /\ Promises(c)' = Promises(c)
    BY <1>1, <1>2, <1>4 DEF Vendues, Promises
  <2>2. QED
    BY <1>2, <2>1 DEF Solde
<1>5. QED
  BY <1>3, <1>4

LEMMA SoldeRepondre ==
  ASSUME IInv, NEW c \in Campagnes, Solde(c), NEW t \in Threads, Repondre(t)
  PROVE  Solde(c)'
<1>1. /\ lResult \in [Threads -> Campagnes \cup {0}]
      /\ nbVentes \in [Campagnes -> Nat] /\ nb200 \in [Campagnes -> Nat]
      /\ c # 0
  BY DomainesAssumption DEF IInv, TypeOK, Campagnes
<1>2. /\ lResult' = [lResult EXCEPT ![t] = 0]
      /\ nb200' = IF lResult[t] = 0 THEN nb200
                  ELSE [nb200 EXCEPT ![lResult[t]] = @ + 1]
      /\ nbVentes' = nbVentes /\ Vendues(c)' = Vendues(c)
  BY DEF Repondre, encheres, Vendues
<1>3. CASE lResult[t] = c
  <2>1. t \in Promises(c) /\ Promises(c)' = Promises(c) \ {t}
    BY <1>1, <1>2, <1>3 DEF Promises
  <2>2. Cardinality(Promises(c)') = Cardinality(Promises(c)) - 1
    BY <2>1, DuesFinies, UnDeMoins
  <2>3. nb200'[c] = nb200[c] + 1
    BY <1>1, <1>2, <1>3
  <2>4. QED
    BY <1>1, <1>2, <2>2, <2>3, DuesFinies DEF Solde
<1>4. CASE lResult[t] # c
  <2>1. Promises(c)' = Promises(c) /\ nb200'[c] = nb200[c]
    BY <1>1, <1>2, <1>4 DEF Promises
  <2>2. QED
    BY <1>2, <2>1 DEF Solde
<1>5. QED
  BY <1>3, <1>4

(* Each debit is answered by exactly one 200 naming its campaign, already  *)
(* sent or owed by a handler on its way to callback, however many handlers *)
(* run and whichever of them fail.                                         *)
THEOREM VentesAnnoncees == Spec => []VenteAnnoncee
<1>1. VenteAnnoncee <=> \A c \in Campagnes : Solde(c)
  BY DEF VenteAnnoncee, Solde, Vendues, Promises
<1>2. Init => VenteAnnoncee
  <2> SUFFICES ASSUME Init, NEW c \in Campagnes PROVE Solde(c)
    BY <1>1
  <2>1. Vendues(c) = {} /\ Promises(c) = {}
    BY DomainesAssumption DEF Init, E!Init, Vendues, Promises, Campagnes
  <2>2. QED
    BY <2>1, FS_EmptySet DEF Init, Solde
<1>3. IInv /\ VenteAnnoncee /\ [Next]_vars => VenteAnnoncee'
  <2> SUFFICES ASSUME IInv, \A c \in Campagnes : Solde(c), [Next]_vars,
                      NEW c \in Campagnes
               PROVE  Solde(c)'
    BY <1>1 DEF VenteAnnoncee, Solde, Vendues, Promises
  <2>1. ASSUME UNCHANGED << nbVentes, nb200, reponse, lResult >>
        PROVE  Solde(c)'
    BY <2>1 DEF Solde, Vendues, Promises
  <2>2. ASSUME NEW t \in Threads, Decider(t)
        PROVE  Solde(c)'
    <3>1. UNCHANGED << lResult, nb200 >>
      BY <2>2 DEF Decider, locales
    <3>2. CASE (E!SansCampagne(t) \/ E!Renoncer(t)) /\ UNCHANGED nbVentes
      BY <2>1, <3>1, <3>2 DEF E!SansCampagne, E!Renoncer
    <3>3. QED
      BY <2>2, <3>1, <3>2, SoldeVendre DEF Decider
  <2>3. ASSUME NEW t \in Threads, Obtenir(t) \/ Repondre(t)
        PROVE  Solde(c)'
    BY <2>3, SoldeObtenir, SoldeRepondre
  <2>4. ASSUME NEW t \in Threads, Pas(t),
               ~ Decider(t), ~ Obtenir(t), ~ Repondre(t)
        PROVE  UNCHANGED << nbVentes, nb200, reponse, lResult >>
    BY <2>4 DEF Pas, Traiter, Recevoir, LireChaines, Avorter, LireNombres,
       Selectionner, Ignorer, E!Demander, encheres, locales, histoire
  <2>5. CASE UNCHANGED vars
    BY <2>1, <2>5 DEF vars, encheres, locales, histoire
  <2>6. QED
    BY <2>1, <2>2, <2>3, <2>4, <2>5 DEF Next, Pas
<1>4. QED
  BY <1>2, <1>3, InvariantInductif, PTL DEF Spec
=============================================================================
