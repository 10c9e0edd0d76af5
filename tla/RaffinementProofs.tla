-------------------------- MODULE RaffinementProofs -------------------------
(***************************************************************************)
(* SelectCampagne implements the auction of module Enchere: however the    *)
(* critical sections of the calls interleave, each call behaves as if it   *)
(* had been answered at one instant.                                       *)
(***************************************************************************)
EXTENDS CampagnesManagerProofs

(* A call that stays inside SelectCampagne is still waiting for Enchere.   *)
LEMMA EtatApres ==
  ASSUME TypeOK, NEW t \in Threads, NEW e, pc' = [pc EXCEPT ![t] = e]
  PROVE  etatAppel' =
           [etatAppel EXCEPT ![t] =
              IF e \in {"repos", "retour", "exception"} THEN e ELSE "attente"]
BY DEF TypeOK, etatAppel

LEMMA InitEnchere == Init => E!Init
BY DEF Init, E!Init, etatAppel, Null

(* A step between two points of the call that Enchere does not tell apart. *)
LEMMA Invisible ==
  ASSUME TypeOK, NEW t \in Threads, NEW e, pc' = [pc EXCEPT ![t] = e],
         pc[t] \notin {"repos", "retour", "exception"},
         e \notin {"repos", "retour", "exception"},
         UNCHANGED << mBudget, pBidRequest, lJsonReturn >>
  PROVE  UNCHANGED E!vars
<1>1. etatAppel' = [etatAppel EXCEPT ![t] = "attente"]
  BY EtatApres
<1>2. etatAppel[t] = "attente" /\ DOMAIN etatAppel = Threads
  BY DEF etatAppel
<1>3. etatAppel' = etatAppel
  BY <1>1, <1>2 DEF etatAppel
<1>4. QED
  BY <1>3 DEF E!vars

LEMMA PasEnchere ==
  ASSUME IInv, [Next]_vars
  PROVE  [E!Next]_(E!vars)
<1>1. TypeOK /\ LocalesInv /\ NbCampagnes \in Nat
  BY CampagnesAssumption DEF IInv
<1> USE <1>1 DEF Aller
<1>2. ASSUME NEW t \in Threads, NEW r \in BidRequests, Appeler(t, r)
      PROVE  E!Next
  <2>1. etatAppel' = [etatAppel EXCEPT ![t] = "attente"]
    <3>1. "parcours" \notin {"repos", "retour", "exception"}
      OBVIOUS
    <3>2. QED
      BY <1>2, <3>1, EtatApres DEF Appeler
  <2>2. E!Demander(t, r)
    BY <1>2, <2>1 DEF Appeler, E!Demander, E!Passer, etatAppel
  <2>3. QED
    BY <2>2 DEF E!Next
<1>3. ASSUME NEW t \in Threads,
             \/ VerrouillerItr(t)
             \/ Examiner(t)
             \/ UneSeule(t)
             \/ PlusieursCompatibles(t)
             \/ VerrouillerPonderation(t)
             \/ Ponderer(t)
             \/ Tirer(t)
             \/ Journaliser(t)
             \/ VerrouillerPaiement(t)
      PROVE  UNCHANGED E!vars
  BY <1>3, Invisible DEF VerrouillerItr, Examiner, UneSeule,
     PlusieursCompatibles, VerrouillerPonderation, Ponderer, Tirer,
     Journaliser, VerrouillerPaiement, locales, ApresChoix
<1>4. ASSUME NEW t \in Threads, AucuneCompatible(t)
      PROVE  E!Next
  <2>1. etatAppel' = [etatAppel EXCEPT ![t] = "retour"]
    BY <1>4, EtatApres DEF AucuneCompatible
  <2>2. \A c \in Campagnes : c < itr[t]
    BY <1>4 DEF AucuneCompatible, ParcoursFini, TypeOK, Campagnes
  <2>3. \A c \in Campagnes : ~ (Compatible(pBidRequest[t], c)
                                /\ BudgetSuffisant(c))
    BY <1>4, <2>2 DEF AucuneCompatible, IInv, ParcoursInv, ParcoursDe
  <2>4. E!SansCampagne(t)
    BY <1>4, <2>1, <2>3 DEF AucuneCompatible, E!SansCampagne, E!PeutPayer,
       E!Passer, E!Campagnes, Campagnes, BudgetSuffisant, etatAppel, locales
  <2>5. QED
    BY <2>4 DEF E!Next, E!Repondre
<1>5. ASSUME NEW t \in Threads, pc[t] = "debit"
      PROVE  lCampagne[t] \in Campagnes
             /\ Compatible(pBidRequest[t], lCampagne[t])
  BY <1>5, CampagneEnSection
     DEF IInv, LocalesInv, LocalesDe, ParcoursInv, ParcoursDe
<1>6. ASSUME NEW t \in Threads, Debiter(t)
      PROVE  E!Next
  <2>1. etatAppel' = [etatAppel EXCEPT ![t] = "retour"]
    BY <1>6, EtatApres DEF Debiter
  <2>2. E!Vendre(t, lCampagne[t]) /\ lCampagne[t] \in E!Campagnes
    BY <1>5, <1>6, <2>1 DEF Debiter, DecrementeBudget, CreerJsonFromCampagne,
       E!Vendre, E!PeutPayer, E!Passer,
       E!Campagnes, Campagnes, BudgetSuffisant, etatAppel
  <2>3. QED
    BY <2>2 DEF E!Next, E!Repondre
<1>7. ASSUME NEW t \in Threads, BudgetInsuffisant(t)
      PROVE  E!Next
  <2>1. etatAppel' = [etatAppel EXCEPT ![t] = "exception"]
    BY <1>7, EtatApres DEF BudgetInsuffisant
  <2>2. E!Renoncer(t)
    BY <1>5, <1>7, <2>1 DEF BudgetInsuffisant, E!Renoncer, E!PeutPayer,
       E!Passer, E!Campagnes, Campagnes, BudgetSuffisant, etatAppel, locales
  <2>3. QED
    BY <2>2 DEF E!Next, E!Repondre
<1>8. ASSUME NEW t \in Threads, Rendre(t) \/ Attraper(t)
      PROVE  E!Next
  <2>1. etatAppel' = [etatAppel EXCEPT ![t] = "repos"]
    BY <1>8, EtatApres DEF Rendre, Attraper
  <2>2. E!Terminer(t)
    BY <1>8, <2>1 DEF Rendre, Attraper, DetruireLocales, E!Terminer,
       etatAppel, Null
  <2>3. QED
    BY <2>2 DEF E!Next, E!Repondre
<1>9. CASE UNCHANGED vars
  BY <1>9 DEF vars, locales, E!vars, etatAppel
<1>10. QED
  BY <1>2, <1>3, <1>4, <1>6, <1>7, <1>8, <1>9 DEF Next, Avancer

(* The concurrent SelectCampagne is linearisable: every behaviour of it is *)
(* one of the auction, a sale being made at the debit, a null answer at    *)
(* the end of the first loop and a refusal at the failed debit.            *)
THEOREM SelectCampagneLinearisable == Spec => EnchereSpec
<1>1. Init => E!Init
  BY InitEnchere
<1>2. IInv /\ [Next]_vars => [E!Next]_(E!vars)
  BY PasEnchere
<1>3. QED
  BY <1>1, <1>2, InvariantInductif, PTL DEF Spec, EnchereSpec, E!Spec
=============================================================================
