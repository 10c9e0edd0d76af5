---------------------------- MODULE VentesProofs ----------------------------
(***************************************************************************)
(* Two more theorems about SelectCampagne, on its inductive invariant:     *)
(* every debit is answered once, and the budgets that RandomSelectCampagne *)
(* has read go stale in one way only.                                      *)
(***************************************************************************)
EXTENDS CampagnesManagerProofs, FiniteSetTheorems

(* The threads about to hand campaign c to their caller.                   *)
ARendre(c) == {t \in Threads : pc[t] = "retour" /\ lJsonReturn[t] = c}

LEMMA ARendreFini ==
  ASSUME NEW c
  PROVE  IsFiniteSet(ARendre(c)) /\ Cardinality(ARendre(c)) \in Nat
<1>1. ARendre(c) \in SUBSET Threads
  BY DEF ARendre
<1>2. IsFiniteSet(ARendre(c))
  BY <1>1, FS_Subset, DomainesAssumption
<1>3. QED
  BY <1>2, FS_CardinalityType

(* The debit adds the thread to those that owe an answer for the campaign. *)
LEMMA ARendreDebiter ==
  ASSUME IInv, NEW t \in Threads, Debiter(t), NEW c \in Campagnes
  PROVE  /\ lCampagne[t] = c =>
              t \notin ARendre(c) /\ ARendre(c)' = ARendre(c) \cup {t}
         /\ lCampagne[t] # c => ARendre(c)' = ARendre(c)
<1>1. TypeOK /\ LocalesDe(t) /\ pc \in [Threads -> Etapes]
      /\ lJsonReturn \in [Threads -> Campagnes \cup {Null}]
  BY DEF IInv, LocalesInv, TypeOK
<1>2. /\ pc[t] = "debit" /\ pc'[t] = "retour"
      /\ lJsonReturn'[t] = lCampagne[t]
      /\ \A u \in Threads : u # t => pc'[u] = pc[u]
                                     /\ lJsonReturn'[u] = lJsonReturn[u]
  BY <1>1 DEF Debiter, Aller, CreerJsonFromCampagne
<1>3. QED
  BY <1>2 DEF ARendre

(* The return removes it.                                                  *)
LEMMA ARendreRendre ==
  ASSUME IInv, NEW t \in Threads, Rendre(t), NEW c \in Campagnes
  PROVE  /\ lJsonReturn[t] = c =>
              t \in ARendre(c) /\ ARendre(c)' = ARendre(c) \ {t}
         /\ lJsonReturn[t] # c => ARendre(c)' = ARendre(c)
<1>1. pc \in [Threads -> Etapes]
      /\ lJsonReturn \in [Threads -> Campagnes \cup {Null}]
  BY DEF IInv, TypeOK
<1>2. /\ pc[t] = "retour" /\ pc'[t] = "repos"
      /\ \A u \in Threads : u # t => pc'[u] = pc[u]
                                     /\ lJsonReturn'[u] = lJsonReturn[u]
  BY <1>1 DEF Rendre, Aller, DetruireLocales
<1>3. QED
  BY <1>2 DEF ARendre

(* No other step changes who owes an answer; AucuneCompatible returns the  *)
(* null value.                                                             *)
LEMMA ARendreAutrePas ==
  ASSUME IInv, NEW t \in Threads, NEW c \in Campagnes,
         Avancer(t) \/ \E r \in BidRequests : Appeler(t, r),
         ~ Debiter(t), ~ Rendre(t)
  PROVE  ARendre(c)' = ARendre(c) /\ UNCHANGED << nbVentes, nbReponses >>
<1>1. TypeOK /\ LocalesDe(t) /\ pc \in [Threads -> Etapes]
      /\ lJsonReturn \in [Threads -> Campagnes \cup {Null}]
  BY DEF IInv, LocalesInv, TypeOK
<1>2. /\ pc[t] # "retour"
      /\ pc'[t] = "retour" => lJsonReturn'[t] = Null
  BY <1>1 DEF Avancer, Appeler, VerrouillerItr, Examiner, AucuneCompatible,
     UneSeule, PlusieursCompatibles, VerrouillerPonderation, Ponderer, Tirer,
     Journaliser, VerrouillerPaiement, BudgetInsuffisant, Attraper, Aller,
     ApresChoix, locales, LocalesDe
<1>3. UNCHANGED << nbVentes, nbReponses >>
  BY DEF Avancer, Appeler, VerrouillerItr, Examiner, AucuneCompatible,
     UneSeule, PlusieursCompatibles, VerrouillerPonderation, Ponderer, Tirer,
     Journaliser, VerrouillerPaiement, BudgetInsuffisant, Attraper, histoire
<1>4. \A u \in Threads : u # t => pc'[u] = pc[u]
                                  /\ lJsonReturn'[u] = lJsonReturn[u]
  BY <1>1, AutreThread
<1>5. c # Null
  BY DEF Campagnes, Null
<1>6. QED
  BY <1>2, <1>3, <1>4, <1>5 DEF ARendre

(* Every debit of SelectCampagne is answered once: it has been handed to a *)
(* caller or some thread is about to, and no answer is given without one.  *)
THEOREM VentesRepondues == Spec => []VenteRepondue
<1> DEFINE Solde(c) == nbVentes[c] = nbReponses[c] + Cardinality(ARendre(c))
<1>1. VenteRepondue <=> \A c \in Campagnes : Solde(c)
  BY DEF VenteRepondue, ARendre
<1>2. Init => VenteRepondue
  <2> SUFFICES ASSUME Init, NEW c \in Campagnes PROVE Solde(c)
    BY <1>1
  <2>1. ARendre(c) = {}
    BY DEF Init, ARendre
  <2>2. QED
    BY <2>1, FS_EmptySet DEF Init
<1>3. IInv /\ VenteRepondue /\ [Next]_vars => VenteRepondue'
  <2> SUFFICES ASSUME IInv, VenteRepondue, [Next]_vars, NEW c \in Campagnes
               PROVE  Solde(c)'
    BY <1>1 DEF VenteRepondue, ARendre
  <2>1. Solde(c) /\ nbVentes \in [Campagnes -> Nat]
        /\ nbReponses \in [Campagnes -> Nat]
    BY <1>1 DEF IInv, TypeOK
  <2>2. IsFiniteSet(ARendre(c)) /\ Cardinality(ARendre(c)) \in Nat
    BY ARendreFini
  <2>3. CASE UNCHANGED vars
    BY <2>1, <2>3 DEF vars, locales, histoire, ARendre
  <2>4. ASSUME NEW t \in Threads, Debiter(t)
        PROVE  Solde(c)'
    <3>1. lCampagne[t] \in Campagnes /\ nbReponses' = nbReponses
          /\ nbVentes' = [nbVentes EXCEPT ![lCampagne[t]] = @ + 1]
      BY <2>4, CampagneEnSection DEF Debiter, Aller, IInv
    <3>2. CASE lCampagne[t] = c
      <4>1. Cardinality(ARendre(c)') = Cardinality(ARendre(c)) + 1
        BY <2>2, <2>4, <3>2, ARendreDebiter, FS_AddElement
      <4>2. nbVentes'[c] = nbVentes[c] + 1
        BY <2>1, <3>1, <3>2
      <4>3. QED
        BY <2>1, <2>2, <3>1, <4>1, <4>2
    <3>3. CASE lCampagne[t] # c
      <4>1. ARendre(c)' = ARendre(c)
        BY <2>4, <3>3, ARendreDebiter
      <4>2. nbVentes'[c] = nbVentes[c]
        BY <2>1, <3>1, <3>3
      <4>3. QED
        BY <2>1, <3>1, <4>1, <4>2
    <3>4. QED
      BY <3>2, <3>3
  <2>5. ASSUME NEW t \in Threads, Rendre(t)
        PROVE  Solde(c)'
    <3>1. nbVentes' = nbVentes
      BY <2>5 DEF Rendre
    <3>2. CASE lJsonReturn[t] = c
      <4>1. Cardinality(ARendre(c)') = Cardinality(ARendre(c)) - 1
        BY <2>2, <2>5, <3>2, ARendreRendre, FS_RemoveElement
      <4>2. nbReponses'[c] = nbReponses[c] + 1
        BY <2>1, <2>5, <3>2 DEF Rendre, Null, Campagnes
      <4>3. QED
        BY <2>1, <2>2, <3>1, <4>1, <4>2
    <3>3. CASE lJsonReturn[t] # c
      <4>1. ARendre(c)' = ARendre(c)
        BY <2>5, <3>3, ARendreRendre
      <4>2. nbReponses'[c] = nbReponses[c]
        BY <2>1, <2>5, <3>3 DEF Rendre
      <4>3. QED
        BY <2>1, <3>1, <4>1, <4>2
    <3>4. QED
      BY <3>2, <3>3
  <2>6. ASSUME NEW t \in Threads, ~ Debiter(t), ~ Rendre(t),
               Avancer(t) \/ \E r \in BidRequests : Appeler(t, r)
        PROVE  Solde(c)'
    BY <2>1, <2>6, ARendreAutrePas
  <2>7. QED
    BY <2>3, <2>4, <2>5, <2>6 DEF Next
<1>4. QED
  BY <1>2, <1>3, InvariantInductif, PTL DEF Spec
-----------------------------------------------------------------------------
(* PonderationPerimee for one thread.                                      *)
PerimeeDe(t) ==
  \A k \in DOMAIN lVecteurPonderation[t] :
    LET c == lCampagnesSelectionnees[t][k] IN
    \/ lVecteurPonderation[t][k] = mBudget[c]
    \/ /\ lVecteurPonderation[t][k] > mBudget[c]
       /\ c \in venduesDepuis[t] \cup {lJsonReturn[t]}

(* The positions of the weights are positions of candidates.               *)
LEMMA PoidsSelectionne ==
  ASSUME IInv, NEW t \in Threads, NEW k \in DOMAIN lVecteurPonderation[t]
  PROVE  /\ k \in DOMAIN lCampagnesSelectionnees[t]
         /\ lCampagnesSelectionnees[t][k] \in Campagnes
         /\ lVecteurPonderation[t][k] \in 0 .. BudgetMax
<1>1. TypeOK /\ LocalesInv
      /\ Len(lVecteurPonderation[t]) <= Len(lCampagnesSelectionnees[t])
  BY DEF IInv, LocalesInv, LocalesDe
<1>2. /\ lCampagnesSelectionnees[t] \in Seq(Campagnes)
      /\ lVecteurPonderation[t] \in Seq(0 .. BudgetMax)
  BY <1>1, CampagneEnSection
<1>3. k \in DOMAIN lCampagnesSelectionnees[t]
  BY <1>1, <1>2
<1>4. lCampagnesSelectionnees[t][k] \in Campagnes
  BY <1>2, <1>3
<1>5. lVecteurPonderation[t][k] \in 0 .. BudgetMax
  <2>1. ASSUME NEW S, NEW s \in Seq(S), NEW i \in DOMAIN s
        PROVE  s[i] \in S
    OBVIOUS
  <2>2. QED
    BY <1>2, <2>1, Zenon
<1>6. QED
  BY <1>3, <1>4, <1>5

(* A weight stays explained when the budget it was read from is debited,   *)
(* provided that debit is recorded.                                        *)
LEMMA PoidsApresPas ==
  ASSUME IInv, NEW t \in Threads,
         Avancer(t) \/ \E r \in BidRequests : Appeler(t, r),
         NEW u \in Threads, PerimeeDe(u),
         lVecteurPonderation'[u] = lVecteurPonderation[u],
         lCampagnesSelectionnees'[u] = lCampagnesSelectionnees[u],
         venduesDepuis[u] \cup {lJsonReturn[u]}
           \subseteq venduesDepuis'[u] \cup {lJsonReturn'[u], Null},
         Debiter(t) /\ Retenue(u, lCampagne[t])
           => lCampagne[t] \in venduesDepuis'[u] \cup {lJsonReturn'[u]}
  PROVE  PerimeeDe(u)'
<1> SUFFICES ASSUME NEW k \in DOMAIN lVecteurPonderation[u]
             PROVE  LET c == lCampagnesSelectionnees[u][k] IN
                    \/ lVecteurPonderation[u][k] = mBudget'[c]
                    \/ /\ lVecteurPonderation[u][k] > mBudget'[c]
                       /\ c \in venduesDepuis'[u] \cup {lJsonReturn'[u]}
  BY DEF PerimeeDe
<1> DEFINE c == lCampagnesSelectionnees[u][k]
           p == lVecteurPonderation[u][k]
<1>1. c \in Campagnes /\ p \in 0 .. BudgetMax
  BY PoidsSelectionne
<1>2. mBudget[c] \in Int /\ mBudget'[c] \in Int /\ p \in Int
  <2>1. TypeOK'
    BY TypePreserve DEF Next
  <2>2. QED
    BY <1>1, <2>1, CampagnesAssumption DEF IInv, TypeOK
<1>3. \/ mBudget'[c] = mBudget[c]
      \/ Debiter(t) /\ c = lCampagne[t] /\ mBudget'[c] < mBudget[c]
  BY <1>1, BudgetDecroit
<1>4. \/ p = mBudget[c]
      \/ p > mBudget[c] /\ c \in venduesDepuis[u] \cup {lJsonReturn[u]}
  BY DEF PerimeeDe
<1>5. c # Null
  BY <1>1 DEF Campagnes, Null
<1>6. Retenue(u, c)
  BY PoidsSelectionne DEF Retenue
<1> HIDE DEF c, p
<1>7. \/ p = mBudget'[c]
      \/ p > mBudget'[c] /\ c \in venduesDepuis'[u] \cup {lJsonReturn'[u]}
  BY <1>2, <1>3, <1>4, <1>5, <1>6
<1>8. QED
  BY <1>7 DEF c, p

(* RandomSelectCampagne works on budgets it has read one by one: whatever  *)
(* the other threads do, each of them is still current or larger than the  *)
(* current one, because of a sale made since the loop kept the campaign.   *)
THEOREM PonderationExpliquee == Spec => []PonderationPerimee
<1>1. PonderationPerimee <=> \A t \in Threads : PerimeeDe(t)
  BY DEF PonderationPerimee, PerimeeDe
<1>2. Init => PonderationPerimee
  BY DEF Init, PonderationPerimee
<1>3. IInv /\ PonderationPerimee /\ [Next]_vars => PonderationPerimee'
  <2> SUFFICES ASSUME IInv, PonderationPerimee, [Next]_vars, NEW u \in Threads
               PROVE  PerimeeDe(u)'
    BY DEF PonderationPerimee, PerimeeDe
  <2>1. PerimeeDe(u) /\ TypeOK /\ LocalesInv /\ LocalesDe(u)
    BY <1>1 DEF IInv, LocalesInv
  <2>2. /\ pc \in [Threads -> Etapes]
        /\ lCampagnesSelectionnees \in [Threads -> Seq(Campagnes)]
        /\ lVecteurPonderation \in [Threads -> Seq(0 .. BudgetMax)]
        /\ lCampagne \in [Threads -> Campagnes \cup {Null}]
        /\ lJsonReturn \in [Threads -> Campagnes \cup {Null}]
        /\ venduesDepuis \in [Threads -> SUBSET Campagnes]
    BY DEF IInv, TypeOK
  <2>3. CASE UNCHANGED vars
    BY <2>1, <2>3 DEF vars, locales, histoire, PerimeeDe
  <2>4. ASSUME NEW t \in Threads, u # t,
               Avancer(t) \/ \E r \in BidRequests : Appeler(t, r)
        PROVE  PerimeeDe(u)'
    <3>1. /\ lVecteurPonderation'[u] = lVecteurPonderation[u]
          /\ lCampagnesSelectionnees'[u] = lCampagnesSelectionnees[u]
          /\ lJsonReturn'[u] = lJsonReturn[u]
          /\ venduesDepuis[u] \subseteq venduesDepuis'[u]
      BY <2>1, <2>4, AutreThread
    <3>2. Debiter(t) /\ Retenue(u, lCampagne[t])
            => lCampagne[t] \in venduesDepuis'[u]
      BY <2>4 DEF Debiter
    <3>3. QED
      BY <2>1, <2>4, <3>1, <3>2, PoidsApresPas
  <2>5. CASE \/ Rendre(u) \/ Attraper(u) \/ Examiner(u)
             \/ \E r \in BidRequests : Appeler(u, r)
    <3>1. lVecteurPonderation'[u] = << >>
      BY <2>1, <2>2, <2>5 DEF Rendre, Attraper, DetruireLocales, Examiner,
         Appeler, Aller, LocalesDe
    <3>2. QED
      BY <3>1 DEF PerimeeDe
  <2>6. CASE Ponderer(u)
    <3> DEFINE v == lVecteurPonderation[u]
               n == Len(v) + 1
    <3>1. /\ lVecteurPonderation'[u] = Append(v, mBudget[APonderer(u)])
          /\ UNCHANGED << mBudget, lCampagnesSelectionnees, lJsonReturn,
                          venduesDepuis >>
      BY <2>2, <2>6 DEF Ponderer, histoire
    <3>2. v \in Seq(0 .. BudgetMax) /\ mBudget[APonderer(u)] \in 0 .. BudgetMax
      BY <2>1, <2>6, CampagneEnSection DEF Ponderer, Aller, TypeOK
    <3>3. /\ DOMAIN lVecteurPonderation'[u] = DOMAIN v \cup {n}
          /\ \A k \in DOMAIN v : lVecteurPonderation'[u][k] = v[k]
          /\ lVecteurPonderation'[u][n] = mBudget[APonderer(u)]
      BY <3>1, <3>2
    <3>4. APonderer(u) = lCampagnesSelectionnees[u][n]
      BY DEF APonderer
    <3> HIDE DEF n
    <3>5. QED
      BY <2>1, <3>1, <3>3, <3>4 DEF PerimeeDe
  <2>7. CASE Debiter(u)
    <3>1. /\ lVecteurPonderation'[u] = lVecteurPonderation[u]
          /\ lCampagnesSelectionnees'[u] = lCampagnesSelectionnees[u]
          /\ lJsonReturn[u] = Null /\ lJsonReturn'[u] = lCampagne[u]
          /\ venduesDepuis'[u] = venduesDepuis[u]
      BY <2>1, <2>2, <2>7 DEF Debiter, CreerJsonFromCampagne, Aller, LocalesDe
    <3>2. Avancer(u)
      BY <2>7 DEF Avancer
    <3>3. QED
      BY <2>1, <3>1, <3>2, PoidsApresPas
  <2>8. CASE UNCHANGED << mBudget, lCampagnesSelectionnees,
                          lVecteurPonderation, lJsonReturn, venduesDepuis >>
    BY <2>1, <2>8 DEF PerimeeDe
  <2>9. QED
    BY <2>3, <2>4, <2>5, <2>6, <2>7, <2>8 DEF Next, Avancer, VerrouillerItr,
       AucuneCompatible, UneSeule, PlusieursCompatibles,
       VerrouillerPonderation, Tirer, Journaliser, VerrouillerPaiement,
       BudgetInsuffisant, locales, histoire
<1>4. QED
  BY <1>2, <1>3, InvariantInductif, PTL DEF Spec
=============================================================================
