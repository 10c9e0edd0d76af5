----------------------- MODULE CampagnesManagerProofs -----------------------
(***************************************************************************)
(* Theorems about SelectCampagne for any number of threads, campaigns and  *)
(* requests, any prices and budgets, any compatibility predicate and any   *)
(* float format whose spacing is small against the prices.                 *)
(***************************************************************************)
EXTENDS CampagnesManager, TLAPS

(* Rounding moves a number of at most BudgetMax units by at most Eps.      *)
LEMMA ArrondiProche ==
  ASSUME NEW n \in 0 .. BudgetMax
  PROVE  /\ Arrondi(1)[n] \in Nat
         /\ n - Eps <= Arrondi(1)[n]
         /\ Arrondi(1)[n] <= n + Eps
<1> DEFINE u == Ulp(n)
           q == n \div u
           r == n % u
<1>1. n \in Nat /\ Eps \in Nat /\ u \in 1 .. 2 * Eps + 1
  BY CampagnesAssumption, UlpAssumption
<1>2. n \div 1 = n /\ 1 * u = u
  BY <1>1
<1>3. q \in Nat /\ r \in 0 .. u - 1 /\ n = u * q + r
  BY <1>1
<1>4. Arrondi(1)[n] =
        (IF 2 * r > u \/ (2 * r = u /\ q % 2 = 1) THEN q + 1 ELSE q) * u
  BY <1>1, <1>2 DEF Arrondi
<1> HIDE DEF u, q, r
<1>5. q * u = n - r /\ (q + 1) * u = n - r + u
  BY <1>1, <1>3
<1>6. CASE 2 * r > u \/ (2 * r = u /\ q % 2 = 1)
  BY <1>1, <1>3, <1>4, <1>5, <1>6
<1>7. CASE ~ (2 * r > u \/ (2 * r = u /\ q % 2 = 1))
  BY <1>1, <1>3, <1>4, <1>5, <1>7
<1>8. QED
  BY <1>6, <1>7

(* A debit that the budget covers leaves a smaller budget, equal to the    *)
(* exact difference up to Eps (Campagne::DecrementeBudget).                *)
LEMMA DebitBorne ==
  ASSUME NEW c \in Campagnes, NEW b \in 0 .. BudgetMax, b >= mBidPrice[c]
  PROVE  /\ Moins(b, mBidPrice[c]) \in 0 .. BudgetMax
         /\ Moins(b, mBidPrice[c]) < b
         /\ b - mBidPrice[c] - Eps <= Moins(b, mBidPrice[c])
         /\ Moins(b, mBidPrice[c]) <= b - mBidPrice[c] + Eps
<1>1. mBidPrice[c] \in Nat /\ mBidPrice[c] > Eps /\ Eps \in Nat
      /\ BudgetMax \in Nat
  BY CampagnesAssumption
<1>2. b - mBidPrice[c] \in 0 .. BudgetMax
  BY <1>1
<1>3. QED
  BY <1>1, <1>2, ArrondiProche DEF Moins

-----------------------------------------------------------------------------
LEMMA InitIInv == Init => IInv
<1> SUFFICES ASSUME Init PROVE IInv
  OBVIOUS
<1> USE CampagnesAssumption, DomainesAssumption DEF Init
<1>1. TypeOK
  BY DEF TypeOK, Etapes, Null, Campagnes
<1>2. VerrousInv
  BY DEF VerrousInv, EnSection
<1>3. LocalesInv
  BY DEF LocalesInv, LocalesDe, Null
<1>4. ParcoursInv
  BY DEF ParcoursInv, ParcoursDe, Campagnes
<1>5. QED
  BY <1>1, <1>2, <1>3, <1>4 DEF IInv

(* What the invariant says of the campaign each critical section is about. *)
LEMMA CampagneEnSection ==
  ASSUME TypeOK, LocalesInv, NEW t \in Threads
  PROVE  /\ pc[t] = "examen" => itr[t] \in Campagnes
         /\ lCampagnesSelectionnees[t] \in Seq(Campagnes)
         /\ lVecteurPonderation[t] \in Seq(0 .. BudgetMax)
         /\ \A i \in DOMAIN lCampagnesSelectionnees[t] :
              lCampagnesSelectionnees[t][i] \in Campagnes
         /\ pc[t] = "lecture" => APonderer(t) \in Campagnes
         /\ pc[t] \in {"journal", "paiement", "debit", "exception"} =>
              lCampagne[t] \in Campagnes
<1>1. /\ itr[t] \in 1 .. NbCampagnes + 1
      /\ lCampagnesSelectionnees[t] \in Seq(Campagnes)
      /\ lVecteurPonderation[t] \in Seq(0 .. BudgetMax)
  BY DEF TypeOK
<1>2. pc[t] = "examen" => itr[t] \in Campagnes
  BY <1>1, CampagnesAssumption DEF LocalesInv, LocalesDe, Campagnes
<1>3. \A i \in DOMAIN lCampagnesSelectionnees[t] :
        lCampagnesSelectionnees[t][i] \in Campagnes
  BY <1>1
<1>4. ASSUME pc[t] = "lecture"
      PROVE  APonderer(t) \in Campagnes
  <2>1. Len(lVecteurPonderation[t]) < Len(lCampagnesSelectionnees[t])
    BY <1>4 DEF LocalesInv, LocalesDe
  <2>2. Len(lVecteurPonderation[t]) + 1 \in DOMAIN lCampagnesSelectionnees[t]
    BY <1>1, <2>1
  <2>3. QED
    BY <1>3, <2>2 DEF APonderer
<1>5. pc[t] \in {"journal", "paiement", "debit", "exception"} =>
        lCampagne[t] \in Campagnes
  BY <1>3 DEF LocalesInv, LocalesDe
<1>6. QED
  BY <1>1, <1>2, <1>3, <1>4, <1>5

(* The draw picks one of the selected campaigns.                           *)
LEMMA TirableSelectionnee ==
  ASSUME TypeOK, LocalesInv, NEW t \in Threads, Tirer(t),
         NEW i \in DOMAIN lVecteurPonderation[t]
  PROVE  /\ i \in DOMAIN lCampagnesSelectionnees[t]
         /\ lCampagnesSelectionnees[t][i] \in Campagnes
<1>1. Len(lVecteurPonderation[t]) = Len(lCampagnesSelectionnees[t])
  BY DEF Tirer
<1>2. i \in DOMAIN lCampagnesSelectionnees[t]
  BY <1>1, CampagneEnSection
<1>3. QED
  BY <1>2, CampagneEnSection

(* The locals that a returning call leaves behind are well typed.          *)
LEMMA DetruireType ==
  ASSUME TypeOK, NEW t \in Threads, DetruireLocales(t)
  PROVE  /\ itr' \in [Threads -> 1 .. NbCampagnes + 1]
         /\ lCampagnesSelectionnees' \in [Threads -> Seq(Campagnes)]
         /\ lVecteurPonderation' \in [Threads -> Seq(0 .. BudgetMax)]
         /\ lCampagne' \in [Threads -> Campagnes \cup {Null}]
         /\ lJsonReturn' \in [Threads -> Campagnes \cup {Null}]
         /\ venduesDepuis' \in [Threads -> SUBSET Campagnes]
<1>1. 1 \in 1 .. NbCampagnes + 1
  BY CampagnesAssumption
<1>2. itr' \in [Threads -> 1 .. NbCampagnes + 1]
  BY <1>1 DEF TypeOK, DetruireLocales
<1>3. lCampagnesSelectionnees' \in [Threads -> Seq(Campagnes)]
  BY DEF TypeOK, DetruireLocales
<1>4. lVecteurPonderation' \in [Threads -> Seq(0 .. BudgetMax)]
  BY DEF TypeOK, DetruireLocales
<1>5. QED
  BY <1>2, <1>3, <1>4 DEF TypeOK, DetruireLocales

(* Every step of a thread preserves the types; the debit does because a    *)
(* rounded budget stays between zero and the former one.                   *)
LEMMA TypePreserve ==
  ASSUME IInv, [Next]_vars
  PROVE  TypeOK'
<1> USE DEF IInv, Etapes, Aller, locales, histoire
<1>1. ASSUME NEW t \in Threads, NEW r \in BidRequests, Appeler(t, r)
      PROVE  TypeOK'
  BY <1>1 DEF Appeler, TypeOK
<1>2. ASSUME NEW t \in Threads, VerrouillerItr(t)
      PROVE  TypeOK'
  BY <1>2 DEF VerrouillerItr, TypeOK, Verrouiller
<1>3. ASSUME NEW t \in Threads, Examiner(t)
      PROVE  TypeOK'
  <2>1. itr[t] \in Campagnes /\ itr[t] + 1 \in 1 .. NbCampagnes + 1
    BY <1>3, CampagneEnSection, CampagnesAssumption DEF Examiner, Campagnes
  <2>2. Append(lCampagnesSelectionnees[t], itr[t]) \in Seq(Campagnes)
    BY <2>1, CampagneEnSection
  <2>3. lCampagnesSelectionnees' \in [Threads -> Seq(Campagnes)]
    BY <1>3, <2>2 DEF Examiner, TypeOK
  <2>4. itr' \in [Threads -> 1 .. NbCampagnes + 1]
    BY <1>3, <2>1 DEF Examiner, Suivante, TypeOK
  <2>5. QED
    BY <1>3, <2>1, <2>3, <2>4 DEF Examiner, TypeOK, Deverrouiller
<1>4. ASSUME NEW t \in Threads, AucuneCompatible(t)
      PROVE  TypeOK'
  BY <1>4 DEF AucuneCompatible, TypeOK
<1>5. ASSUME NEW t \in Threads, UneSeule(t)
      PROVE  TypeOK'
  <2>1. lCampagnesSelectionnees[t][1] \in Campagnes
    BY <1>5, CampagneEnSection DEF UneSeule
  <2>2. QED
    BY <1>5, <2>1 DEF UneSeule, ApresChoix, TypeOK
<1>6. ASSUME NEW t \in Threads, PlusieursCompatibles(t)
      PROVE  TypeOK'
  BY <1>6 DEF PlusieursCompatibles, TypeOK
<1>7. ASSUME NEW t \in Threads, VerrouillerPonderation(t)
      PROVE  TypeOK'
  BY <1>7 DEF VerrouillerPonderation, TypeOK, Verrouiller
<1>8. ASSUME NEW t \in Threads, Ponderer(t)
      PROVE  TypeOK'
  <2>1. mBudget[APonderer(t)] \in 0 .. BudgetMax
    BY <1>8, CampagneEnSection DEF Ponderer, TypeOK
  <2>2. Append(lVecteurPonderation[t], mBudget[APonderer(t)])
          \in Seq(0 .. BudgetMax)
    BY <2>1, CampagneEnSection
  <2>3. lVecteurPonderation' \in [Threads -> Seq(0 .. BudgetMax)]
    BY <1>8, <2>2 DEF Ponderer, TypeOK
  <2>4. QED
    BY <1>8, <2>3 DEF Ponderer, TypeOK, Deverrouiller
<1>9. ASSUME NEW t \in Threads, Tirer(t)
      PROVE  TypeOK'
  <2>1. PICK i \in DOMAIN lVecteurPonderation[t] :
          lCampagne' =
            [lCampagne EXCEPT ![t] = lCampagnesSelectionnees[t][i]]
    BY <1>9 DEF Tirer
  <2>2. lCampagnesSelectionnees[t][i] \in Campagnes
    BY <1>9, TirableSelectionnee
  <2>3. lCampagne' \in [Threads -> Campagnes \cup {Null}]
    BY <2>1, <2>2 DEF TypeOK
  <2>4. QED
    BY <1>9, <2>3 DEF Tirer, ApresChoix, TypeOK
<1>10. ASSUME NEW t \in Threads, Journaliser(t)
       PROVE  TypeOK'
  BY <1>10 DEF Journaliser, TypeOK
<1>11. ASSUME NEW t \in Threads, VerrouillerPaiement(t)
       PROVE  TypeOK'
  BY <1>11 DEF VerrouillerPaiement, TypeOK, Verrouiller
<1>12. ASSUME NEW t \in Threads, Debiter(t)
       PROVE  TypeOK'
  <2>1. lCampagne[t] \in Campagnes /\ mBudget[lCampagne[t]] \in 0 .. BudgetMax
    BY <1>12, CampagneEnSection DEF Debiter, TypeOK
  <2>2. Moins(mBudget[lCampagne[t]], mBidPrice[lCampagne[t]])
          \in 0 .. BudgetMax
    BY <1>12, <2>1, DebitBorne DEF Debiter, DecrementeBudget, BudgetSuffisant
  <2>3. mBudget' \in [Campagnes -> 0 .. BudgetMax]
    BY <1>12, <2>1, <2>2 DEF Debiter, DecrementeBudget, TypeOK
  <2>4. venduesDepuis' \in [Threads -> SUBSET Campagnes]
    BY <1>12, <2>1 DEF Debiter, TypeOK
  <2>5. nbVentes' \in [Campagnes -> Nat]
    BY <1>12, <2>1 DEF Debiter, TypeOK
  <2>6. QED
    BY <1>12, <2>1, <2>3, <2>4, <2>5
       DEF Debiter, CreerJsonFromCampagne, TypeOK, Deverrouiller
<1>13. ASSUME NEW t \in Threads, BudgetInsuffisant(t)
       PROVE  TypeOK'
  BY <1>13 DEF BudgetInsuffisant, TypeOK, Deverrouiller
<1>14. ASSUME NEW t \in Threads, Rendre(t)
       PROVE  TypeOK'
  <2>1. nbReponses' \in [Campagnes -> Nat]
    BY <1>14 DEF Rendre, TypeOK
  <2>2. QED
    BY <1>14, <2>1, DetruireType DEF Rendre, TypeOK
<1>15. ASSUME NEW t \in Threads, Attraper(t)
       PROVE  TypeOK'
  BY <1>15, DetruireType DEF Attraper, TypeOK
<1>16. CASE UNCHANGED vars
  BY <1>16 DEF vars, TypeOK
<1>17. QED
  BY <1>1, <1>2, <1>3, <1>4, <1>5, <1>6, <1>7, <1>8, <1>9, <1>10, <1>11,
     <1>12, <1>13, <1>14, <1>15, <1>16 DEF Next, Avancer
-----------------------------------------------------------------------------
(* A step of a thread changes the locals of no other thread, and only adds *)
(* to the sales they may have missed.                                      *)
LEMMA AutreThread ==
  ASSUME TypeOK, NEW t \in Threads, NEW u \in Threads, u # t,
         Avancer(t) \/ \E r \in BidRequests : Appeler(t, r)
  PROVE  /\ pc'[u] = pc[u]
         /\ pBidRequest'[u] = pBidRequest[u]
         /\ itr'[u] = itr[u]
         /\ lCampagnesSelectionnees'[u] = lCampagnesSelectionnees[u]
         /\ lVecteurPonderation'[u] = lVecteurPonderation[u]
         /\ lCampagne'[u] = lCampagne[u]
         /\ lJsonReturn'[u] = lJsonReturn[u]
         /\ venduesDepuis[u] \subseteq venduesDepuis'[u]
<1> USE DEF Aller, locales, histoire, TypeOK
<1>1. CASE \E r \in BidRequests : Appeler(t, r)
  BY <1>1 DEF Appeler
<1>2. CASE VerrouillerItr(t) \/ VerrouillerPonderation(t)
           \/ VerrouillerPaiement(t)
  BY <1>2 DEF VerrouillerItr, VerrouillerPonderation, VerrouillerPaiement
<1>3. CASE Examiner(t)
  BY <1>3 DEF Examiner, Suivante
<1>4. CASE AucuneCompatible(t) \/ PlusieursCompatibles(t) \/ Journaliser(t)
           \/ BudgetInsuffisant(t)
  BY <1>4 DEF AucuneCompatible, PlusieursCompatibles, Journaliser,
              BudgetInsuffisant
<1>5. CASE UneSeule(t) \/ Tirer(t)
  BY <1>5 DEF UneSeule, Tirer
<1>6. CASE Ponderer(t)
  BY <1>6 DEF Ponderer
<1>7. CASE Debiter(t)
  BY <1>7 DEF Debiter, CreerJsonFromCampagne
<1>8. CASE Rendre(t) \/ Attraper(t)
  BY <1>8 DEF Rendre, Attraper, DetruireLocales
<1>9. QED
  BY <1>1, <1>2, <1>3, <1>4, <1>5, <1>6, <1>7, <1>8 DEF Avancer

(* Locking a free mutex, and unlocking a mutex one holds, change who holds *)
(* it and nothing else.                                                    *)
LEMMA Verrouille ==
  ASSUME TypeOK, NEW t \in Threads, NEW d \in Campagnes, Verrouiller(t, d)
  PROVE  \A c \in Campagnes, u \in Threads :
           (mMutex[c] = u)' <=> mMutex[c] = u \/ (u = t /\ c = d)
BY DomainesAssumption DEF TypeOK, Verrouiller

LEMMA Deverrouille ==
  ASSUME TypeOK, NEW t \in Threads, NEW d \in Campagnes, mMutex[d] = t,
         Deverrouiller(d)
  PROVE  \A c \in Campagnes, u \in Threads :
           (mMutex[c] = u)' <=> mMutex[c] = u /\ c # d
BY DomainesAssumption DEF TypeOK, Deverrouiller

(* A step takes a free mutex, releases one of the thread's own, or leaves  *)
(* every mutex alone; either way the thread holds afterwards exactly the   *)
(* mutex of the section it is in.                                          *)
LEMMA VerrousThread ==
  ASSUME IInv, NEW t \in Threads,
         Avancer(t) \/ \E r \in BidRequests : Appeler(t, r)
  PROVE  \A c \in Campagnes :
           /\ (mMutex[c] = t)' <=> EnSection(t, c)'
           /\ \A u \in Threads \ {t} : (mMutex[c] = u)' <=> mMutex[c] = u
<1> DEFINE HorsSection ==
             \A c \in Campagnes : ~ EnSection(t, c) /\ ~ EnSection(t, c)'
           Entre(d) ==
             \A c \in Campagnes : ~ EnSection(t, c)
                                  /\ (EnSection(t, c)' <=> c = d)
           Sort(d) ==
             \A c \in Campagnes : (EnSection(t, c) <=> c = d)
                                  /\ ~ EnSection(t, c)'
           But ==
             \A c \in Campagnes :
               /\ (mMutex[c] = t)' <=> EnSection(t, c)'
               /\ \A u \in Threads \ {t} : (mMutex[c] = u)' <=> mMutex[c] = u
<1>1. /\ TypeOK /\ LocalesInv /\ pc \in [Threads -> Etapes]
      /\ itr \in [Threads -> 1 .. NbCampagnes + 1]
      /\ lVecteurPonderation \in [Threads -> Seq(0 .. BudgetMax)]
      /\ lCampagne \in [Threads -> Campagnes \cup {Null}]
  BY DEF IInv, TypeOK
<1>2. \A c \in Campagnes : mMutex[c] = t <=> EnSection(t, c)
  BY DEF IInv, VerrousInv
<1>3. ASSUME UNCHANGED mMutex, HorsSection
      PROVE  But
  BY <1>2, <1>3
<1>4. ASSUME NEW d \in Campagnes, Verrouiller(t, d), Entre(d)
      PROVE  But
  BY <1>1, <1>2, <1>4, Verrouille
<1>5. ASSUME NEW d \in Campagnes, Deverrouiller(d), Sort(d)
      PROVE  But
  BY <1>1, <1>2, <1>5, Deverrouille
<1> SUFFICES But
  OBVIOUS
<1> HIDE DEF But
<1> USE <1>1 DEF Aller, locales, EnSection
<1>6. CASE \E r \in BidRequests : Appeler(t, r)
  <2>1. UNCHANGED mMutex /\ HorsSection
    BY <1>6 DEF Appeler
  <2>2. QED
    BY <2>1, <1>3
<1>7. CASE VerrouillerItr(t)
  <2>1. itr[t] \in Campagnes /\ Verrouiller(t, itr[t]) /\ Entre(itr[t])
    BY <1>7 DEF VerrouillerItr, Campagnes
  <2>2. QED
    BY <2>1, <1>4
<1>8. CASE Examiner(t)
  <2>1. itr[t] \in Campagnes /\ Deverrouiller(itr[t])
    BY <1>8, CampagneEnSection DEF Examiner
  <2>2. Sort(itr[t])
    BY <1>8 DEF Examiner
  <2>3. QED
    BY <2>1, <2>2, <1>5
<1>9. CASE AucuneCompatible(t) \/ PlusieursCompatibles(t) \/ Journaliser(t)
  <2>1. UNCHANGED mMutex /\ HorsSection
    BY <1>9 DEF AucuneCompatible, PlusieursCompatibles, Journaliser
  <2>2. QED
    BY <2>1, <1>3
<1>10. CASE UneSeule(t) \/ Tirer(t)
  <2>1. UNCHANGED mMutex /\ HorsSection
    BY <1>10 DEF UneSeule, Tirer, ApresChoix
  <2>2. QED
    BY <2>1, <1>3
<1>11. CASE VerrouillerPonderation(t)
  <2>1. APonderer(t) \in Campagnes
    <3>1. Len(lVecteurPonderation[t]) + 1
            \in DOMAIN lCampagnesSelectionnees[t]
      BY <1>11, CampagneEnSection DEF VerrouillerPonderation
    <3>2. QED
      BY <3>1, CampagneEnSection DEF APonderer
  <2>2. Verrouiller(t, APonderer(t)) /\ APonderer(t)' = APonderer(t)
    BY <1>11 DEF VerrouillerPonderation, APonderer
  <2>3. Entre(APonderer(t))
    BY <1>11, <2>2 DEF VerrouillerPonderation
  <2>4. QED
    BY <2>1, <2>2, <2>3, <1>4
<1>12. CASE Ponderer(t)
  <2>1. APonderer(t) \in Campagnes /\ Deverrouiller(APonderer(t))
    BY <1>12, CampagneEnSection DEF Ponderer
  <2>2. Sort(APonderer(t))
    BY <1>12 DEF Ponderer
  <2>3. QED
    BY <2>1, <2>2, <1>5
<1>13. CASE VerrouillerPaiement(t)
  <2>1. lCampagne[t] \in Campagnes /\ Verrouiller(t, lCampagne[t])
    BY <1>13, CampagneEnSection DEF VerrouillerPaiement
  <2>2. Entre(lCampagne[t])
    BY <1>13 DEF VerrouillerPaiement
  <2>3. QED
    BY <2>1, <2>2, <1>4
<1>14. CASE Debiter(t)
  <2>1. lCampagne[t] \in Campagnes /\ Deverrouiller(lCampagne[t])
    BY <1>14, CampagneEnSection DEF Debiter
  <2>2. Sort(lCampagne[t])
    BY <1>14 DEF Debiter
  <2>3. QED
    BY <2>1, <2>2, <1>5
<1>15. CASE BudgetInsuffisant(t)
  <2>1. lCampagne[t] \in Campagnes /\ Deverrouiller(lCampagne[t])
    BY <1>15, CampagneEnSection DEF BudgetInsuffisant
  <2>2. Sort(lCampagne[t])
    BY <1>15 DEF BudgetInsuffisant
  <2>3. QED
    BY <2>1, <2>2, <1>5
<1>16. CASE Rendre(t) \/ Attraper(t)
  <2>1. UNCHANGED mMutex /\ HorsSection
    BY <1>16 DEF Rendre, Attraper
  <2>2. QED
    BY <2>1, <1>3
<1>17. QED
  BY <1>6, <1>7, <1>8, <1>9, <1>10, <1>11, <1>12, <1>13, <1>14, <1>15, <1>16
     DEF Avancer

LEMMA VerrousPreserve ==
  ASSUME IInv, [Next]_vars
  PROVE  VerrousInv'
<1>1. CASE UNCHANGED vars
  BY <1>1 DEF IInv, VerrousInv, EnSection, APonderer, vars, locales
<1>2. ASSUME NEW t \in Threads,
             Avancer(t) \/ \E r \in BidRequests : Appeler(t, r)
      PROVE  VerrousInv'
  <2>1. \A c \in Campagnes, u \in Threads \ {t} :
          EnSection(u, c)' <=> EnSection(u, c)
    BY <1>2, AutreThread DEF EnSection, APonderer, IInv
  <2>2. QED
    BY <1>2, <2>1, VerrousThread DEF VerrousInv, IInv
<1>3. QED
  BY <1>1, <1>2 DEF Next
-----------------------------------------------------------------------------
(* A step of a thread keeps its own locals consistent with its position.   *)
LEMMA LocalesThread ==
  ASSUME IInv, NEW t \in Threads,
         Avancer(t) \/ \E r \in BidRequests : Appeler(t, r)
  PROVE  LocalesDe(t)'
<1>1. TypeOK /\ LocalesInv /\ LocalesDe(t) /\ pc \in [Threads -> Etapes]
  BY DEF IInv, LocalesInv, TypeOK
<1>2. /\ itr \in [Threads -> 1 .. NbCampagnes + 1]
      /\ itr[t] \in 1 .. NbCampagnes + 1
      /\ NbCampagnes \in Nat
  BY CampagnesAssumption DEF IInv, TypeOK
<1>3. /\ lCampagnesSelectionnees \in [Threads -> Seq(Campagnes)]
      /\ lVecteurPonderation \in [Threads -> Seq(0 .. BudgetMax)]
      /\ lCampagne \in [Threads -> Campagnes \cup {Null}]
      /\ lJsonReturn \in [Threads -> Campagnes \cup {Null}]
  BY DEF IInv, TypeOK
<1> USE <1>1, <1>2, <1>3 DEF Aller, locales
<1>4. CASE \E r \in BidRequests : Appeler(t, r)
  BY <1>4 DEF Appeler, LocalesDe
<1>5. CASE VerrouillerItr(t)
  BY <1>5 DEF VerrouillerItr, LocalesDe
<1>6. CASE Examiner(t)
  <2>1. Len(<< >>) <= Len(lCampagnesSelectionnees'[t])
    BY <1>6, CampagneEnSection DEF Examiner
  <2>2. QED
    BY <1>6, <2>1 DEF Examiner, LocalesDe
<1>7. CASE AucuneCompatible(t)
  BY <1>7 DEF AucuneCompatible, ParcoursFini, LocalesDe
<1>8. CASE UneSeule(t)
  <2>1. 1 \in DOMAIN lCampagnesSelectionnees[t]
    BY <1>8, CampagneEnSection DEF UneSeule
  <2>2. QED
    BY <1>8, <2>1 DEF UneSeule, ParcoursFini, ApresChoix, LocalesDe
<1>9. CASE PlusieursCompatibles(t)
  <2>1. itr[t] = NbCampagnes + 1
    BY <1>9 DEF PlusieursCompatibles, ParcoursFini
  <2>2. QED
    BY <1>9, <2>1 DEF PlusieursCompatibles, LocalesDe
<1>10. CASE VerrouillerPonderation(t)
  BY <1>10 DEF VerrouillerPonderation, LocalesDe
<1>11. CASE Ponderer(t)
  <2>1. Len(lVecteurPonderation[t]) < Len(lCampagnesSelectionnees[t])
    BY <1>11 DEF Ponderer, LocalesDe
  <2>2. Len(lVecteurPonderation'[t]) = Len(lVecteurPonderation[t]) + 1
    BY <1>11, CampagneEnSection DEF Ponderer
  <2>3. Len(lVecteurPonderation'[t]) <= Len(lCampagnesSelectionnees[t])
    BY <2>1, <2>2, CampagneEnSection
  <2>4. QED
    BY <1>11, <2>3 DEF Ponderer, LocalesDe
<1>12. CASE Tirer(t)
  <2>1. PICK i \in DOMAIN lVecteurPonderation[t] :
          lCampagne' =
            [lCampagne EXCEPT ![t] = lCampagnesSelectionnees[t][i]]
    BY <1>12 DEF Tirer
  <2>2. i \in DOMAIN lCampagnesSelectionnees[t]
    BY <1>12, TirableSelectionnee
  <2>3. QED
    BY <1>12, <2>1, <2>2 DEF Tirer, ApresChoix, LocalesDe
<1>13. CASE Journaliser(t)
  BY <1>13 DEF Journaliser, LocalesDe
<1>14. CASE VerrouillerPaiement(t)
  BY <1>14 DEF VerrouillerPaiement, LocalesDe
<1>15. CASE Debiter(t)
  <2>1. lCampagne[t] \in Campagnes
    BY <1>15, CampagneEnSection DEF Debiter
  <2>2. QED
    BY <1>15, <2>1 DEF Debiter, CreerJsonFromCampagne, LocalesDe
<1>16. CASE BudgetInsuffisant(t)
  BY <1>16 DEF BudgetInsuffisant, LocalesDe
<1>17. CASE Rendre(t) \/ Attraper(t)
  BY <1>17 DEF Rendre, Attraper, DetruireLocales, LocalesDe
<1>18. QED
  BY <1>4, <1>5, <1>6, <1>7, <1>8, <1>9, <1>10, <1>11, <1>12, <1>13, <1>14,
     <1>15, <1>16, <1>17 DEF Avancer

LEMMA LocalesPreserve ==
  ASSUME IInv, [Next]_vars
  PROVE  LocalesInv'
<1>1. CASE UNCHANGED vars
  BY <1>1 DEF IInv, LocalesInv, LocalesDe, vars, locales
<1>2. ASSUME NEW t \in Threads,
             Avancer(t) \/ \E r \in BidRequests : Appeler(t, r)
      PROVE  LocalesInv'
  <2>1. ASSUME NEW u \in Threads, u # t PROVE LocalesDe(u)'
    <3>1. LocalesDe(u) /\ TypeOK
      BY DEF IInv, LocalesInv
    <3>2. QED
      BY <1>2, <2>1, <3>1, AutreThread DEF LocalesDe
  <2>2. QED
    BY <1>2, <2>1, LocalesThread DEF LocalesInv
<1>3. QED
  BY <1>1, <1>2 DEF Next
-----------------------------------------------------------------------------
(* Budgets only go down, and only by a debit.                              *)
LEMMA BudgetDecroit ==
  ASSUME IInv, NEW t \in Threads,
         Avancer(t) \/ \E r \in BidRequests : Appeler(t, r)
  PROVE  \A c \in Campagnes :
           \/ mBudget'[c] = mBudget[c]
           \/ Debiter(t) /\ c = lCampagne[t] /\ mBudget'[c] < mBudget[c]
<1>1. CASE UNCHANGED mBudget
  BY <1>1
<1>2. CASE Debiter(t)
  <2>1. /\ mBudget \in [Campagnes -> 0 .. BudgetMax]
        /\ lCampagne[t] \in Campagnes
    BY <1>2, CampagneEnSection DEF Debiter, IInv, TypeOK, Aller
  <2>2. Moins(mBudget[lCampagne[t]], mBidPrice[lCampagne[t]])
          < mBudget[lCampagne[t]]
    BY <1>2, <2>1, DebitBorne DEF Debiter, DecrementeBudget, BudgetSuffisant
  <2>3. QED
    BY <1>2, <2>1, <2>2 DEF Debiter, DecrementeBudget
<1>3. QED
  BY <1>1, <1>2 DEF Avancer, Appeler, VerrouillerItr, Examiner,
     AucuneCompatible, UneSeule, PlusieursCompatibles, VerrouillerPonderation,
     Ponderer, Tirer, Journaliser, VerrouillerPaiement, BudgetInsuffisant,
     Rendre, Attraper

(* Whoever could pay after a step could pay before it.                     *)
LEMMA SuffisantAvant ==
  ASSUME IInv, NEW t \in Threads,
         Avancer(t) \/ \E r \in BidRequests : Appeler(t, r),
         NEW c \in Campagnes
  PROVE  /\ BudgetSuffisant(c)' => BudgetSuffisant(c)
         /\ BudgetSuffisant(c) /\ ~ (Debiter(t) /\ c = lCampagne[t])
              => BudgetSuffisant(c)'
<1>1. mBudget[c] \in Int /\ mBudget'[c] \in Int /\ mBidPrice[c] \in Int
  <2>1. TypeOK'
    BY TypePreserve DEF Next
  <2>2. QED
    BY <2>1, CampagnesAssumption DEF IInv, TypeOK
<1>2. QED
  BY <1>1, BudgetDecroit DEF BudgetSuffisant

(* The loop's conclusions survive a step of the thread itself.             *)
LEMMA ParcoursThread ==
  ASSUME IInv, NEW t \in Threads,
         Avancer(t) \/ \E r \in BidRequests : Appeler(t, r)
  PROVE  ParcoursDe(t)'
<1>1. TypeOK /\ LocalesInv /\ LocalesDe(t) /\ ParcoursDe(t)
  BY DEF IInv, LocalesInv, ParcoursInv
<1>2. /\ itr \in [Threads -> 1 .. NbCampagnes + 1]
      /\ NbCampagnes \in Nat
      /\ lCampagnesSelectionnees \in [Threads -> Seq(Campagnes)]
      /\ lCampagne \in [Threads -> Campagnes \cup {Null}]
      /\ lJsonReturn \in [Threads -> Campagnes \cup {Null}]
      /\ pBidRequest \in [Threads -> BidRequests]
      /\ venduesDepuis \in [Threads -> SUBSET Campagnes]
  BY CampagnesAssumption DEF IInv, TypeOK
<1>3. /\ lCampagnesSelectionnees[t] \in Seq(Campagnes)
      /\ \A i \in DOMAIN lCampagnesSelectionnees[t] :
           lCampagnesSelectionnees[t][i] \in Campagnes
  BY <1>1, CampagneEnSection
<1>4. \A c \in Campagnes :
        /\ BudgetSuffisant(c)' => BudgetSuffisant(c)
        /\ BudgetSuffisant(c) /\ ~ (Debiter(t) /\ c = lCampagne[t])
             => BudgetSuffisant(c)'
  BY SuffisantAvant
<1>5. CASE \E r \in BidRequests : Appeler(t, r)
  <2>1. itr'[t] = 1 /\ lCampagnesSelectionnees'[t] = << >>
    BY <1>1, <1>5 DEF Appeler, Aller, LocalesDe
  <2>2. QED
    BY <2>1 DEF ParcoursDe, Campagnes
<1>6. CASE Examiner(t)
  <2>1. pc[t] = "examen" /\ itr[t] \in Campagnes /\ ~ Debiter(t)
    BY <1>1, <1>6, CampagneEnSection DEF Examiner, Debiter, Aller
  <2>2. /\ itr'[t] = itr[t] + 1
        /\ pBidRequest'[t] = pBidRequest[t]
        /\ lJsonReturn'[t] = lJsonReturn[t]
        /\ venduesDepuis'[t] = venduesDepuis[t]
    BY <1>2, <1>6 DEF Examiner, Suivante, histoire
  <2>3. CASE Compatible(pBidRequest[t], itr[t]) /\ BudgetSuffisant(itr[t])
    <3> DEFINE s == lCampagnesSelectionnees[t]
               n == Len(s) + 1
    <3>1. lCampagnesSelectionnees'[t] = Append(s, itr[t])
      BY <1>2, <1>6, <2>3 DEF Examiner, lFiltreCompatible
    <3>2. /\ DOMAIN Append(s, itr[t]) = DOMAIN s \cup {n}
          /\ \A i \in DOMAIN s : Append(s, itr[t])[i] = s[i]
          /\ Append(s, itr[t])[n] = itr[t]
      BY <1>3, <2>1
    <3>3. \A c \in Campagnes : c < itr'[t] => c < itr[t] \/ c = itr[t]
      BY <1>2, <2>1, <2>2 DEF Campagnes
    <3> HIDE DEF s, n
    <3>4. QED
      BY <1>1, <1>3, <1>4, <2>1, <2>2, <2>3, <3>1, <3>2, <3>3
         DEF ParcoursDe, s
  <2>4. CASE ~ (Compatible(pBidRequest[t], itr[t])
                /\ BudgetSuffisant(itr[t]))
    <3>1. lCampagnesSelectionnees'[t] = lCampagnesSelectionnees[t]
      BY <1>6, <2>4 DEF Examiner, lFiltreCompatible
    <3>2. \A c \in Campagnes : c < itr'[t] => c < itr[t] \/ c = itr[t]
      BY <1>2, <2>1, <2>2 DEF Campagnes
    <3>3. QED
      BY <1>1, <1>3, <1>4, <2>1, <2>2, <2>4, <3>1, <3>2 DEF ParcoursDe
  <2>5. QED
    BY <2>3, <2>4
<1>7. CASE Debiter(t)
  <2>1. lJsonReturn[t] = Null /\ lJsonReturn'[t] = lCampagne[t]
    BY <1>1, <1>2, <1>7 DEF Debiter, CreerJsonFromCampagne, Aller, LocalesDe
  <2>2. /\ itr'[t] = itr[t]
        /\ pBidRequest'[t] = pBidRequest[t]
        /\ lCampagnesSelectionnees'[t] = lCampagnesSelectionnees[t]
        /\ venduesDepuis'[t] = venduesDepuis[t]
    BY <1>2, <1>7 DEF Debiter
  <2>3. Null \notin Campagnes
    BY DEF Null, Campagnes
  <2>4. QED
    BY <1>1, <1>3, <1>4, <2>1, <2>2, <2>3 DEF ParcoursDe
<1>8. CASE Rendre(t) \/ Attraper(t)
  <2>1. itr'[t] = 1 /\ lCampagnesSelectionnees'[t] = << >>
    BY <1>2, <1>8 DEF Rendre, Attraper, DetruireLocales
  <2>2. QED
    BY <2>1 DEF ParcoursDe, Campagnes
<1>9. CASE /\ UNCHANGED << mBudget, pBidRequest, itr,
                           lCampagnesSelectionnees, lJsonReturn, histoire >>
           /\ ~ Debiter(t)
  BY <1>1, <1>9 DEF ParcoursDe, BudgetSuffisant, histoire
<1>10. QED
  BY <1>5, <1>6, <1>7, <1>8, <1>9 DEF Avancer, VerrouillerItr,
     AucuneCompatible, UneSeule, PlusieursCompatibles, VerrouillerPonderation,
     Ponderer, Tirer, Journaliser, VerrouillerPaiement, BudgetInsuffisant,
     locales

(* They survive a step of another thread: a debit there is recorded in     *)
(* venduesDepuis if this thread has kept the campaign.                     *)
LEMMA ParcoursAutre ==
  ASSUME IInv, NEW t \in Threads, NEW u \in Threads, u # t,
         Avancer(t) \/ \E r \in BidRequests : Appeler(t, r)
  PROVE  ParcoursDe(u)'
<1>1. TypeOK /\ LocalesInv /\ LocalesDe(u) /\ ParcoursDe(u)
  BY DEF IInv, LocalesInv, ParcoursInv
<1>2. /\ pBidRequest'[u] = pBidRequest[u]
      /\ itr'[u] = itr[u]
      /\ lCampagnesSelectionnees'[u] = lCampagnesSelectionnees[u]
      /\ lJsonReturn'[u] = lJsonReturn[u]
      /\ venduesDepuis[u] \subseteq venduesDepuis'[u]
  BY <1>1, AutreThread
<1>3. \A i \in DOMAIN lCampagnesSelectionnees[u] :
        lCampagnesSelectionnees[u][i] \in Campagnes
  BY <1>1, CampagneEnSection
<1>4. \A c \in Campagnes :
        /\ BudgetSuffisant(c)' => BudgetSuffisant(c)
        /\ BudgetSuffisant(c) /\ ~ (Debiter(t) /\ c = lCampagne[t])
             => BudgetSuffisant(c)'
  BY SuffisantAvant
<1>5. ASSUME NEW i \in DOMAIN lCampagnesSelectionnees[u], Debiter(t),
             lCampagnesSelectionnees[u][i] = lCampagne[t]
      PROVE  lCampagne[t] \in venduesDepuis'[u]
  BY <1>5 DEF Debiter, Retenue
<1>6. QED
  BY <1>1, <1>2, <1>3, <1>4, <1>5 DEF ParcoursDe

LEMMA ParcoursPreserve ==
  ASSUME IInv, [Next]_vars
  PROVE  ParcoursInv'
<1>1. CASE UNCHANGED vars
  BY <1>1 DEF IInv, ParcoursInv, ParcoursDe, BudgetSuffisant, vars, locales,
              histoire
<1>2. ASSUME NEW t \in Threads,
             Avancer(t) \/ \E r \in BidRequests : Appeler(t, r)
      PROVE  ParcoursInv'
  BY <1>2, ParcoursThread, ParcoursAutre DEF ParcoursInv
<1>3. QED
  BY <1>1, <1>2 DEF Next
-----------------------------------------------------------------------------
(* The inductive invariant of SelectCampagne: types, mutex discipline, the *)
(* locals of each call, and what the first loop has learnt.                *)
THEOREM InvariantInductif == Spec => []IInv
<1>1. IInv /\ [Next]_vars => IInv'
  BY TypePreserve, VerrousPreserve, LocalesPreserve, ParcoursPreserve DEF IInv
<1>2. QED
  BY <1>1, InitIInv, PTL DEF Spec

(* Every variable keeps its type: in particular no sequence of debits      *)
(* makes a budget negative (Campagne::DecrementeBudget).                   *)
THEOREM TypeCorrect == Spec => []TypeOK
<1>1. IInv => TypeOK
  BY DEF IInv
<1>2. QED
  BY <1>1, InvariantInductif, PTL

(* At the INFO level of the shipped configuration no budget is read or     *)
(* written by two threads at once: every access of SelectCampagne and      *)
(* RandomSelectCampagne is made under the mutex of the campaign.           *)
THEOREM AbsenceDeCourse == LogDebug = FALSE => (Spec => []SansCourse)
<1>1. ASSUME LogDebug = FALSE
      PROVE  Spec => []SansCourse
  <2> DEFINE PasDeJournal == \A t \in Threads : pc[t] # "journal"
  <2>1. Init => PasDeJournal
    BY DEF Init
  <2>2. IInv /\ PasDeJournal /\ [Next]_vars => PasDeJournal'
    <3> SUFFICES ASSUME IInv, PasDeJournal, [Next]_vars, NEW u \in Threads
                 PROVE  pc'[u] # "journal"
      OBVIOUS
    <3>1. pc \in [Threads -> Etapes] /\ ApresChoix = "paiement"
      BY <1>1 DEF IInv, TypeOK, ApresChoix
    <3>2. QED
      BY <3>1 DEF Next, Avancer, Appeler, VerrouillerItr, Examiner,
         AucuneCompatible, UneSeule, PlusieursCompatibles,
         VerrouillerPonderation, Ponderer, Tirer, Journaliser,
         VerrouillerPaiement, Debiter, BudgetInsuffisant, Rendre, Attraper,
         Aller, vars
  <2>3. IInv /\ PasDeJournal => SansCourse
    BY DEF IInv, VerrousInv, SansCourse, LitBudget, EcritBudget, EnSection
  <2> HIDE DEF PasDeJournal
  <2>4. QED
    BY <2>1, <2>2, <2>3, InvariantInductif, PTL DEF Spec
<1>2. QED
  BY <1>1

(* SelectCampagne answers null only when no compatible campaign can pay at *)
(* that moment, whatever the other threads did during its loop.            *)
THEOREM ReponseNulleJustifiee == Spec => []ListeVideJustifiee
<1>1. IInv => ListeVideJustifiee
  <2> SUFFICES ASSUME IInv, NEW t \in Threads, pc[t] = "retour",
                      lJsonReturn[t] = Null, NEW c \in Campagnes,
                      Compatible(pBidRequest[t], c), BudgetSuffisant(c)
               PROVE  FALSE
    BY DEF ListeVideJustifiee
  <2>1. LocalesDe(t) /\ ParcoursDe(t)
    BY DEF IInv, LocalesInv, ParcoursInv
  <2>2. itr[t] = NbCampagnes + 1 /\ lCampagnesSelectionnees[t] = << >>
    BY <2>1 DEF LocalesDe, Null, Campagnes
  <2>3. c < itr[t]
    BY <2>2, CampagnesAssumption DEF Campagnes
  <2>4. QED
    BY <2>1, <2>2, <2>3 DEF ParcoursDe
<1>2. QED
  BY <1>1, InvariantInductif, PTL

(* SelectCampagne throws only when another thread debited the campaign     *)
(* after this call examined and kept it: the campaign could pay then, and  *)
(* cannot now.                                                             *)
THEOREM ExceptionJustifiee == Spec => []EchecJustifie
<1> DEFINE Epuisee ==
             \A t \in Threads :
               pc[t] = "exception" => ~ BudgetSuffisant(lCampagne[t])
<1>1. Init => Epuisee
  BY DEF Init
<1>2. IInv /\ Epuisee /\ [Next]_vars => Epuisee'
  <2> SUFFICES ASSUME IInv, Epuisee, [Next]_vars
               PROVE  Epuisee'
    OBVIOUS
  <2>1. CASE UNCHANGED vars
    BY <2>1 DEF vars, locales, BudgetSuffisant
  <2>2. ASSUME NEW t \in Threads,
               Avancer(t) \/ \E r \in BidRequests : Appeler(t, r),
               NEW u \in Threads, pc'[u] = "exception"
        PROVE  ~ BudgetSuffisant(lCampagne[u])'
    <3>1. TypeOK /\ LocalesInv /\ pc \in [Threads -> Etapes]
      BY DEF IInv, TypeOK
    <3>2. CASE u # t
      <4>1. pc[u] = "exception" /\ lCampagne'[u] = lCampagne[u]
            /\ lCampagne[u] \in Campagnes
        BY <2>2, <3>1, <3>2, AutreThread, CampagneEnSection
      <4>2. QED
        BY <2>2, <4>1, SuffisantAvant DEF BudgetSuffisant
    <3>3. CASE u = t
      <4>1. BudgetInsuffisant(t)
        BY <2>2, <3>1, <3>3 DEF Next, Avancer, Appeler, VerrouillerItr,
           Examiner, AucuneCompatible, UneSeule, PlusieursCompatibles,
           VerrouillerPonderation, Ponderer, Tirer, Journaliser,
           VerrouillerPaiement, Debiter, Rendre, Attraper, Aller, ApresChoix
      <4>2. QED
        BY <3>3, <4>1 DEF BudgetInsuffisant, BudgetSuffisant, locales
    <3>4. QED
      BY <3>2, <3>3
  <2>3. QED
    BY <2>1, <2>2 DEF Next
<1>3. IInv /\ Epuisee => EchecJustifie
  <2> SUFFICES ASSUME IInv, Epuisee, NEW t \in Threads, pc[t] = "exception"
               PROVE  lCampagne[t] \in venduesDepuis[t]
    BY DEF EchecJustifie
  <2>1. TypeOK /\ LocalesInv /\ LocalesDe(t) /\ ParcoursDe(t)
    BY DEF IInv, LocalesInv, ParcoursInv
  <2>2. lCampagne[t] \in Campagnes /\ lJsonReturn[t] = Null
    BY <2>1, CampagneEnSection DEF LocalesDe
  <2>3. PICK i \in DOMAIN lCampagnesSelectionnees[t] :
          lCampagne[t] = lCampagnesSelectionnees[t][i]
    BY <2>1 DEF LocalesDe
  <2>4. lCampagne[t] \in venduesDepuis[t] \cup {Null}
    BY <2>1, <2>2, <2>3 DEF ParcoursDe
  <2>5. QED
    BY <2>2, <2>4 DEF Null, Campagnes
<1> HIDE DEF Epuisee
<1>4. QED
  BY <1>1, <1>2, <1>3, InvariantInductif, PTL DEF Spec

(* Multiplication by a number of sales, for the accounting of the debits.  *)
LEMMA UneVenteDePlus ==
  ASSUME NEW n \in Nat, NEW k \in Int
  PROVE  (n + 1) * k = n * k + k
OBVIOUS

(* The accounting of the debits: the sales of a campaign cost its price    *)
(* each, up to the rounding of the float subtraction, so the campaign      *)
(* never sells more than its initial budget pays for.                      *)
THEOREM ComptesExacts == Spec => []DepenseBornee
<1>1. Init => DepenseBornee
  <2> SUFFICES ASSUME Init, NEW c \in Campagnes
               PROVE  /\ 0 * (mBidPrice[c] - Eps) + BudgetInitial[c]
                           <= BudgetInitial[c]
                      /\ 0 * (mBidPrice[c] + Eps) + BudgetInitial[c]
                           >= BudgetInitial[c]
    BY DEF Init, DepenseBornee
  <2>1. /\ mBidPrice[c] \in Nat /\ Eps \in Nat /\ BudgetInitial[c] \in Nat
    BY CampagnesAssumption
  <2>2. QED
    BY <2>1
<1>2. IInv /\ DepenseBornee /\ [Next]_vars => DepenseBornee'
  <2> SUFFICES ASSUME IInv, DepenseBornee, [Next]_vars, NEW c \in Campagnes
               PROVE  /\ nbVentes'[c] * (mBidPrice[c] - Eps) + mBudget'[c]
                           <= BudgetInitial[c]
                      /\ nbVentes'[c] * (mBidPrice[c] + Eps) + mBudget'[c]
                           >= BudgetInitial[c]
    BY DEF DepenseBornee
  <2>1. CASE nbVentes'[c] = nbVentes[c] /\ mBudget'[c] = mBudget[c]
    BY <2>1 DEF DepenseBornee
  <2>2. ASSUME NEW t \in Threads, Debiter(t), c = lCampagne[t]
        PROVE  /\ nbVentes'[c] * (mBidPrice[c] - Eps) + mBudget'[c]
                    <= BudgetInitial[c]
               /\ nbVentes'[c] * (mBidPrice[c] + Eps) + mBudget'[c]
                    >= BudgetInitial[c]
    <3> DEFINE n  == nbVentes[c]
               p  == mBidPrice[c]
               b  == mBudget[c]
               bb == mBudget'[c]
               bi == BudgetInitial[c]
    <3>1. /\ n \in Nat /\ b \in 0 .. BudgetMax /\ p \in Nat /\ Eps \in Nat
          /\ bi \in Nat /\ BudgetMax \in Nat
      BY CampagnesAssumption DEF IInv, TypeOK
    <3>2. nbVentes'[c] = n + 1 /\ bb = Moins(b, p) /\ b >= p
      BY <2>2 DEF Debiter, DecrementeBudget, BudgetSuffisant, IInv, TypeOK
    <3>3. bb \in 0 .. BudgetMax /\ b - p - Eps <= bb /\ bb <= b - p + Eps
      BY <3>1, <3>2, DebitBorne
    <3>4. n * (p - Eps) + b <= bi /\ n * (p + Eps) + b >= bi
      BY DEF DepenseBornee
    <3> DEFINE bas  == p - Eps
               haut == p + Eps
    <3>5. bas \in Int /\ haut \in Int
      BY <3>1
    <3> HIDE DEF n, p, b, bb, bi, bas, haut
    <3>6. /\ (n + 1) * bas = n * bas + bas
          /\ (n + 1) * haut = n * haut + haut
      BY <3>1, <3>5, UneVenteDePlus
    <3> DEFINE x == n * bas
               y == n * haut
    <3>7. x \in Int /\ y \in Int /\ x + b <= bi /\ y + b >= bi
      BY <3>1, <3>4, <3>5 DEF bas, haut
    <3> HIDE DEF x, y
    <3>8. x + bas + bb <= bi /\ y + haut + bb >= bi
      BY <3>1, <3>3, <3>7 DEF bas, haut
    <3>9. (n + 1) * bas + bb <= bi /\ (n + 1) * haut + bb >= bi
      BY <3>6, <3>8 DEF x, y
    <3>10. QED
      BY <3>2, <3>9 DEF n, p, b, bb, bi, bas, haut
  <2>3. ASSUME NEW t \in Threads, Debiter(t), c # lCampagne[t]
        PROVE  nbVentes'[c] = nbVentes[c] /\ mBudget'[c] = mBudget[c]
    BY <2>3 DEF Debiter, DecrementeBudget, IInv, TypeOK
  <2>4. ASSUME UNCHANGED << nbVentes, mBudget >>
        PROVE  nbVentes'[c] = nbVentes[c] /\ mBudget'[c] = mBudget[c]
    BY <2>4
  <2>5. QED
    BY <2>1, <2>2, <2>3, <2>4 DEF Next, Avancer, Appeler, VerrouillerItr,
       Examiner, AucuneCompatible, UneSeule, PlusieursCompatibles,
       VerrouillerPonderation, Ponderer, Tirer, Journaliser,
       VerrouillerPaiement, BudgetInsuffisant, Rendre, Attraper, vars,
       histoire
<1>3. QED
  BY <1>1, <1>2, InvariantInductif, PTL DEF Spec
=============================================================================
