-------------------------- MODULE CampagnesManager --------------------------
(***************************************************************************)
(* CampagnesManager::SelectCampagne, called at the same time by the event  *)
(* loop threads of the HTTP server on the shared vector of campaigns.      *)
(*                                                                         *)
(* A call examines the campaigns one by one, each under its own mutex, and *)
(* keeps pointers to the compatible ones; draws one of them, weighted by   *)
(* budgets it re-reads one by one; locks the drawn campaign again and      *)
(* debits it.  Nothing is held between these critical sections, so every   *)
(* value read in one may be stale in the next.                             *)
(*                                                                         *)
(* A campaign is its position in mListeCampagnes, which nothing modifies   *)
(* once the server runs; position 0 stands for the null pointer and for    *)
(* the null Json::Value.  Everything about a campaign is constant but its  *)
(* budget.                                                                 *)
(***************************************************************************)
EXTENDS Tirage, FiniteSets

CONSTANTS
  Threads,            (* the event loop threads ("threads_num")            *)
  BidRequests,        (* the valid bid requests                            *)
  NbCampagnes,        (* mListeCampagnes.size()                            *)
  mBidPrice,          (* price of each campaign, in units                  *)
  BudgetInitial,      (* budget of each campaign before the first call     *)
  BudgetMax,          (* a bound on the budgets (1000 euros in the code)   *)
  Eps,                (* half the spacing of the floats at BudgetMax       *)
  Compatible(_, _),   (* size, floor and filters of a campaign accept a    *)
                      (* request: every test of the loop but the budget's  *)
  LogDebug,           (* is the log level at DEBUG or below?               *)
  Libre               (* a mutex that nobody holds                         *)

Campagnes == 1 .. NbCampagnes
Null      == 0

(* Campagne::Campagne accepts 1 <= budget <= 1000 and 0.01 <= bidPrice; a  *)
(* binary32 of at most 1000 is within 2^-15 of the value it rounds, far    *)
(* less than the smallest price.                                           *)
ASSUME CampagnesAssumption ==
  /\ NbCampagnes \in Nat
  /\ BudgetMax \in Nat
  /\ Eps \in Nat
  /\ mBidPrice \in [Campagnes -> Nat]
  /\ \A c \in Campagnes : mBidPrice[c] > Eps
  /\ BudgetInitial \in [Campagnes -> 0 .. BudgetMax]

ASSUME UlpAssumption == \A n \in 0 .. BudgetMax : Ulp(n) \in 1 .. 2 * Eps + 1

ASSUME DomainesAssumption ==
  /\ IsFiniteSet(Threads)
  /\ Libre \notin Threads
  /\ LogDebug \in BOOLEAN
  /\ \A r \in BidRequests, c \in Campagnes : Compatible(r, c) \in BOOLEAN

VARIABLES
  mBudget,                  (* remaining budget of each campaign           *)
  mMutex,                   (* holder of each campaign's mutex             *)
  pc,                       (* where each thread is in SelectCampagne      *)
  pBidRequest,              (* the request of the call                     *)
  itr,                      (* the campaign the first loop is at           *)
  lCampagnesSelectionnees,  (* pointers to the compatible campaigns        *)
  lVecteurPonderation,      (* the budgets read by RandomSelectCampagne    *)
  lCampagne,                (* the drawn campaign                          *)
  lJsonReturn,              (* the campaign of the answer                  *)
  (* history variables *)
  nbVentes,                 (* successful debits of each campaign          *)
  nbReponses,               (* answers handed to a caller, per campaign    *)
  venduesDepuis             (* campaigns other threads debited since the   *)
                            (* call of a thread examined and kept them     *)

locales == << pBidRequest, itr, lCampagnesSelectionnees,
              lVecteurPonderation, lCampagne, lJsonReturn >>
histoire == << nbVentes, nbReponses, venduesDepuis >>
vars == << mBudget, mMutex, pc, locales, histoire >>

Etapes == { "repos",        (* not in SelectCampagne                       *)
            "parcours",     (* first loop, about to lock campaign itr      *)
            "examen",       (* holds itr's mutex                           *)
            "ponderation",  (* about to lock the next selected campaign    *)
            "lecture",      (* holds its mutex                             *)
            "journal",      (* LOG_DEBUG of the drawn campaign, no mutex   *)
            "paiement",     (* about to lock the drawn campaign            *)
            "debit",        (* holds its mutex                             *)
            "retour",       (* the call has a value to return              *)
            "exception" }   (* the call has thrown logic_error             *)

Init ==
  /\ mBudget = BudgetInitial
  /\ mMutex = [c \in Campagnes |-> Libre]
  /\ pc = [t \in Threads |-> "repos"]
  /\ pBidRequest \in [Threads -> BidRequests]
  /\ itr = [t \in Threads |-> 1]
  /\ lCampagnesSelectionnees = [t \in Threads |-> << >>]
  /\ lVecteurPonderation = [t \in Threads |-> << >>]
  /\ lCampagne = [t \in Threads |-> Null]
  /\ lJsonReturn = [t \in Threads |-> Null]
  /\ nbVentes = [c \in Campagnes |-> 0]
  /\ nbReponses = [c \in Campagnes |-> 0]
  /\ venduesDepuis = [t \in Threads |-> {}]
-----------------------------------------------------------------------------
Aller(t, de, vers) == pc[t] = de /\ pc' = [pc EXCEPT ![t] = vers]

(* Faulty variant: the mutex is taken from its holder.                     *)
VerrouillerSansAttendre(t, c) == mMutex' = [mMutex EXCEPT ![c] = t]

Verrouiller(t, c) ==
  /\ mMutex[c] = Libre
  /\ mMutex' = [mMutex EXCEPT ![c] = t]

(* Faulty variant: the mutex is never released.                            *)
DeverrouillerOublie(c) == UNCHANGED mMutex

(* End of the scope of a lock_guard, by return or by exception.            *)
Deverrouiller(c) == mMutex' = [mMutex EXCEPT ![c] = Libre]

BudgetSuffisant(c) == mBudget[c] >= mBidPrice[c]

(* Faulty variant: the first candidate is read every time.                 *)
PremiereAPonderer(t) == lCampagnesSelectionnees[t][1]

(* The campaign whose budget RandomSelectCampagne reads next.              *)
APonderer(t) == lCampagnesSelectionnees[t][Len(lVecteurPonderation[t]) + 1]

(* LOG_DEBUG evaluates its operands only at the DEBUG level.               *)
ApresChoix == IF LogDebug THEN "journal" ELSE "paiement"

(* Faulty variants of the tests of the loop: without the budget, without   *)
(* the size, the floor and the filters.                                    *)
SansBudget(t) == Compatible(pBidRequest[t], itr[t])
SansFiltre(t) == BudgetSuffisant(itr[t])

(* The value of lFiltreCompatible at the end of an iteration.              *)
lFiltreCompatible(t) ==
  Compatible(pBidRequest[t], itr[t]) /\ BudgetSuffisant(itr[t])

(* Faulty variant: the iterator does not advance.                          *)
SuivanteOubliee(t) == UNCHANGED itr

(* Faulty variant: the last campaign is left out.                          *)
ParcoursEcourte(t) == itr[t] >= NbCampagnes

(* itr == mListeCampagnes.end()                                            *)
ParcoursFini(t) == itr[t] > NbCampagnes

Suivante(t) == itr' = [itr EXCEPT ![t] = @ + 1]

(* Faulty variants of the debit: the price is added; it is taken twice     *)
(* when the budget allows.                                                 *)
DecrementeBudgetAjoute(c) ==
  /\ BudgetSuffisant(c)
  /\ mBudget' = [mBudget EXCEPT ![c] = Plus(@, mBidPrice[c])]

DecrementeBudgetDouble(c) ==
  /\ BudgetSuffisant(c)
  /\ LET b == Moins(mBudget[c], mBidPrice[c]) IN
     mBudget' = [mBudget EXCEPT ![c] =
                   IF b >= mBidPrice[c] THEN Moins(b, mBidPrice[c]) ELSE b]

(* Campagne::DecrementeBudget, when it returns true.                       *)
DecrementeBudget(c) ==
  /\ BudgetSuffisant(c)
  /\ mBudget' = [mBudget EXCEPT ![c] = Moins(@, mBidPrice[c])]

(* Faulty variant: the answer is built and dropped.                        *)
CreerJsonPerdu(t, c) == UNCHANGED lJsonReturn

(* lJsonReturn = CreerJsonFromCampagne(...): an answer is the campaign it  *)
(* names.                                                                  *)
CreerJsonFromCampagne(t, c) == lJsonReturn' = [lJsonReturn EXCEPT ![t] = c]
-----------------------------------------------------------------------------
(* SelectCampagne is entered.                                              *)
Appeler(t, r) ==
  /\ Aller(t, "repos", "parcours")
  /\ pBidRequest' = [pBidRequest EXCEPT ![t] = r]
  /\ UNCHANGED << mBudget, mMutex, itr, lCampagnesSelectionnees,
                  lVecteurPonderation, lCampagne, lJsonReturn, histoire >>

VerrouillerItr(t) ==
  /\ Aller(t, "parcours", "examen")
  /\ itr[t] <= NbCampagnes
  /\ Verrouiller(t, itr[t])
  /\ UNCHANGED << mBudget, locales, histoire >>

(* One iteration of the first loop, under the mutex of the campaign: it is *)
(* kept if it is compatible and can pay.                                   *)
Examiner(t) ==
  /\ Aller(t, "examen", "parcours")
  /\ lCampagnesSelectionnees' =
       IF lFiltreCompatible(t)
       THEN [lCampagnesSelectionnees EXCEPT ![t] = Append(@, itr[t])]
       ELSE lCampagnesSelectionnees
  /\ Deverrouiller(itr[t])
  /\ Suivante(t)
  /\ UNCHANGED << mBudget, pBidRequest, lVecteurPonderation, lCampagne,
                  lJsonReturn, histoire >>

(* No campaign was kept: the null Json::Value is returned.                 *)
AucuneCompatible(t) ==
  /\ Aller(t, "parcours", "retour")
  /\ ParcoursFini(t)
  /\ lCampagnesSelectionnees[t] = << >>
  /\ UNCHANGED << mBudget, mMutex, locales, histoire >>

(* RandomSelectCampagne does not draw when there is one candidate.         *)
UneSeule(t) ==
  /\ Aller(t, "parcours", ApresChoix)
  /\ ParcoursFini(t)
  /\ Len(lCampagnesSelectionnees[t]) = 1
  /\ lCampagne' = [lCampagne EXCEPT ![t] = lCampagnesSelectionnees[t][1]]
  /\ UNCHANGED << mBudget, mMutex, pBidRequest, itr, lCampagnesSelectionnees,
                  lVecteurPonderation, lJsonReturn, histoire >>

PlusieursCompatibles(t) ==
  /\ Aller(t, "parcours", "ponderation")
  /\ ParcoursFini(t)
  /\ Len(lCampagnesSelectionnees[t]) > 1
  /\ UNCHANGED << mBudget, mMutex, locales, histoire >>

VerrouillerPonderation(t) ==
  /\ Aller(t, "ponderation", "lecture")
  /\ Len(lVecteurPonderation[t]) < Len(lCampagnesSelectionnees[t])
  /\ Verrouiller(t, APonderer(t))
  /\ UNCHANGED << mBudget, locales, histoire >>

(* One step of the for_each: the budget is read under the mutex.           *)
Ponderer(t) ==
  /\ Aller(t, "lecture", "ponderation")
  /\ lVecteurPonderation' =
       [lVecteurPonderation EXCEPT ![t] = Append(@, mBudget[APonderer(t)])]
  /\ Deverrouiller(APonderer(t))
  /\ UNCHANGED << mBudget, pBidRequest, itr, lCampagnesSelectionnees,
                  lCampagne, lJsonReturn, histoire >>

(* The random number is drawn before the budgets are read; it depends on   *)
(* nothing, so the model chooses it where it is used.                      *)
Tirer(t) ==
  /\ Aller(t, "ponderation", ApresChoix)
  /\ Len(lVecteurPonderation[t]) = Len(lCampagnesSelectionnees[t])
  /\ \E i \in DOMAIN lVecteurPonderation[t] :
       /\ ~ JamaisTiree(lVecteurPonderation[t], i)
       /\ lCampagne' = [lCampagne EXCEPT ![t] = lCampagnesSelectionnees[t][i]]
  /\ UNCHANGED << mBudget, mMutex, pBidRequest, itr, lCampagnesSelectionnees,
                  lVecteurPonderation, lJsonReturn, histoire >>

(* LOG_DEBUG << lCampagne->ToString() reads the budget without the mutex.  *)
Journaliser(t) ==
  /\ Aller(t, "journal", "paiement")
  /\ UNCHANGED << mBudget, mMutex, locales, histoire >>

VerrouillerPaiement(t) ==
  /\ Aller(t, "paiement", "debit")
  /\ Verrouiller(t, lCampagne[t])
  /\ UNCHANGED << mBudget, locales, histoire >>

(* The call of a thread has examined a campaign and kept it.               *)
Retenue(t, c) == \E i \in DOMAIN lCampagnesSelectionnees[t] :
                   lCampagnesSelectionnees[t][i] = c

(* DecrementeBudget succeeds and the answer is built under the mutex.      *)
Debiter(t) ==
  LET c == lCampagne[t] IN
  /\ Aller(t, "debit", "retour")
  /\ DecrementeBudget(c)
  /\ CreerJsonFromCampagne(t, c)
  /\ Deverrouiller(c)
  /\ nbVentes' = [nbVentes EXCEPT ![c] = @ + 1]
  /\ venduesDepuis' = [u \in Threads |->
       IF u # t /\ Retenue(u, c) THEN venduesDepuis[u] \cup {c}
                                ELSE venduesDepuis[u]]
  /\ UNCHANGED << pBidRequest, itr, lCampagnesSelectionnees,
                  lVecteurPonderation, lCampagne, nbReponses >>

(* DecrementeBudget returns false: logic_error, the lock_guard unlocks.    *)
BudgetInsuffisant(t) ==
  /\ Aller(t, "debit", "exception")
  /\ ~ BudgetSuffisant(lCampagne[t])
  /\ Deverrouiller(lCampagne[t])
  /\ UNCHANGED << mBudget, locales, histoire >>

(* The call is over: its locals are destroyed.                             *)
DetruireLocales(t) ==
  /\ itr' = [itr EXCEPT ![t] = 1]
  /\ lCampagnesSelectionnees' = [lCampagnesSelectionnees EXCEPT ![t] = << >>]
  /\ lVecteurPonderation' = [lVecteurPonderation EXCEPT ![t] = << >>]
  /\ lCampagne' = [lCampagne EXCEPT ![t] = Null]
  /\ lJsonReturn' = [lJsonReturn EXCEPT ![t] = Null]
  /\ venduesDepuis' = [venduesDepuis EXCEPT ![t] = {}]

(* The caller gets the value.                                              *)
Rendre(t) ==
  /\ Aller(t, "retour", "repos")
  /\ nbReponses' = IF lJsonReturn[t] = Null
                   THEN nbReponses
                   ELSE [nbReponses EXCEPT ![lJsonReturn[t]] = @ + 1]
  /\ DetruireLocales(t)
  /\ UNCHANGED << mBudget, mMutex, pBidRequest, nbVentes >>

(* The caller catches logic_error and answers without a campaign.          *)
Attraper(t) ==
  /\ Aller(t, "exception", "repos")
  /\ DetruireLocales(t)
  /\ UNCHANGED << mBudget, mMutex, pBidRequest, nbVentes, nbReponses >>

(* The steps of a thread inside SelectCampagne.                            *)
Avancer(t) ==
  \/ VerrouillerItr(t)
  \/ Examiner(t)
  \/ AucuneCompatible(t)
  \/ UneSeule(t)
  \/ PlusieursCompatibles(t)
  \/ VerrouillerPonderation(t)
  \/ Ponderer(t)
  \/ Tirer(t)
  \/ Journaliser(t)
  \/ VerrouillerPaiement(t)
  \/ Debiter(t)
  \/ BudgetInsuffisant(t)
  \/ Rendre(t)
  \/ Attraper(t)

Next == \E t \in Threads : Avancer(t) \/ \E r \in BidRequests : Appeler(t, r)

Spec == Init /\ [][Next]_vars

(* A thread inside a call keeps running: nothing in it waits for anything  *)
(* but a mutex.  Nothing obliges a client to send a request.               *)
FairSpec == Spec /\ \A t \in Threads : WF_vars(Avancer(t))
-----------------------------------------------------------------------------
TypeOK ==
  /\ mBudget \in [Campagnes -> 0 .. BudgetMax]
  /\ mMutex \in [Campagnes -> Threads \cup {Libre}]
  /\ pc \in [Threads -> Etapes]
  /\ pBidRequest \in [Threads -> BidRequests]
  /\ itr \in [Threads -> 1 .. NbCampagnes + 1]
  /\ lCampagnesSelectionnees \in [Threads -> Seq(Campagnes)]
  /\ lVecteurPonderation \in [Threads -> Seq(0 .. BudgetMax)]
  /\ lCampagne \in [Threads -> Campagnes \cup {Null}]
  /\ lJsonReturn \in [Threads -> Campagnes \cup {Null}]
  /\ nbVentes \in [Campagnes -> Nat]
  /\ nbReponses \in [Campagnes -> Nat]
  /\ venduesDepuis \in [Threads -> SUBSET Campagnes]

(* Thread t is in a critical section of campaign c.                        *)
EnSection(t, c) ==
  \/ pc[t] = "examen" /\ itr[t] = c
  \/ pc[t] = "lecture" /\ APonderer(t) = c
  \/ pc[t] = "debit" /\ lCampagne[t] = c

LitBudget(t, c) ==
  EnSection(t, c) \/ (pc[t] = "journal" /\ lCampagne[t] = c)

EcritBudget(t, c) == pc[t] = "debit" /\ lCampagne[t] = c

(* A thread that may write the budget of a campaign (DecrementeBudget) is  *)
(* alone: no other thread is at a point where it reads or writes it.       *)
SansCourse ==
  \A t, u \in Threads, c \in Campagnes :
    t # u /\ EcritBudget(t, c) => ~ LitBudget(u, c)

(* A null answer is never caused by a stale read: although the campaigns   *)
(* were examined one after the other while other calls were debiting them, *)
(* when SelectCampagne is about to return null no compatible campaign can  *)
(* pay.                                                                    *)
ListeVideJustifiee ==
  \A t \in Threads :
    pc[t] = "retour" /\ lJsonReturn[t] = Null =>
      \A c \in Campagnes :
        Compatible(pBidRequest[t], c) => ~ BudgetSuffisant(c)

(* The "erreur critique" of SelectCampagne (logic_error) has one cause:    *)
(* after this call examined the campaign and kept it, another thread       *)
(* debited it.                                                             *)
EchecJustifie ==
  \A t \in Threads :
    pc[t] = "exception" => lCampagne[t] \in venduesDepuis[t]

(* Each debit costs the price of the campaign, up to half a spacing of the *)
(* float format, so a campaign never sells more than its budget pays for,  *)
(* and never loses money without a sale.                                   *)
DepenseBornee ==
  \A c \in Campagnes :
    /\ nbVentes[c] * (mBidPrice[c] - Eps) + mBudget[c] <= BudgetInitial[c]
    /\ nbVentes[c] * (mBidPrice[c] + Eps) + mBudget[c] >= BudgetInitial[c]

(* Every debit is answered once: the campaigns debited are those already   *)
(* handed to a caller and those about to be.                               *)
VenteRepondue ==
  \A c \in Campagnes :
    nbVentes[c] = nbReponses[c]
                  + Cardinality({t \in Threads :
                                   pc[t] = "retour" /\ lJsonReturn[t] = c})

(* The weights of the draw go stale in one way only: a budget read by      *)
(* RandomSelectCampagne is still the campaign's budget, or it was larger   *)
(* and a sale made since the loop kept the campaign explains the           *)
(* difference.                                                             *)
PonderationPerimee ==
  \A t \in Threads : \A k \in DOMAIN lVecteurPonderation[t] :
    LET c == lCampagnesSelectionnees[t][k] IN
    \/ lVecteurPonderation[t][k] = mBudget[c]
    \/ /\ lVecteurPonderation[t][k] > mBudget[c]
       /\ c \in venduesDepuis[t] \cup {lJsonReturn[t]}

(* The inductive invariant behind the four properties above.  First the    *)
(* discipline of the mutexes: a mutex is held exactly inside a critical    *)
(* section of its campaign.                                                *)
VerrousInv ==
  \A t \in Threads, c \in Campagnes : mMutex[c] = t <=> EnSection(t, c)

(* Then the locals of a call, by the point it has reached.                 *)
LocalesDe(t) ==
  /\ pc[t] = "repos" =>
       itr[t] = 1 /\ lCampagnesSelectionnees[t] = << >>
  /\ pc[t] \in {"repos", "parcours", "examen"} =>
       lVecteurPonderation[t] = << >>
  /\ pc[t] \in {"repos", "parcours", "examen", "ponderation", "lecture"} =>
       lCampagne[t] = Null
  /\ pc[t] # "retour" => lJsonReturn[t] = Null
  /\ pc[t] = "examen" => itr[t] <= NbCampagnes
  /\ pc[t] \notin {"repos", "parcours", "examen"} => itr[t] = NbCampagnes + 1
  /\ Len(lVecteurPonderation[t]) <= Len(lCampagnesSelectionnees[t])
  /\ pc[t] = "lecture" =>
       Len(lVecteurPonderation[t]) < Len(lCampagnesSelectionnees[t])
  /\ pc[t] \in {"journal", "paiement", "debit", "exception"} =>
       \E i \in DOMAIN lCampagnesSelectionnees[t] :
         lCampagne[t] = lCampagnesSelectionnees[t][i]
  /\ pc[t] = "retour" =>
       \/ lJsonReturn[t] \in Campagnes
       \/ lJsonReturn[t] = Null /\ lCampagnesSelectionnees[t] = << >>

LocalesInv == \A t \in Threads : LocalesDe(t)

(* What the first loop has established about the campaigns it has passed,  *)
(* stated of the budgets as they are now: those left out still cannot pay, *)
(* those kept still can unless a sale intervened.                          *)
ParcoursDe(t) ==
  /\ \A c \in Campagnes :
       c < itr[t] /\ Compatible(pBidRequest[t], c) /\ BudgetSuffisant(c) =>
         \E i \in DOMAIN lCampagnesSelectionnees[t] :
           lCampagnesSelectionnees[t][i] = c
  /\ \A i \in DOMAIN lCampagnesSelectionnees[t] :
       LET c == lCampagnesSelectionnees[t][i] IN
       /\ Compatible(pBidRequest[t], c)
       /\ \/ BudgetSuffisant(c)
          \/ c \in venduesDepuis[t] \cup {lJsonReturn[t]}

ParcoursInv == \A t \in Threads : ParcoursDe(t)

IInv == TypeOK /\ VerrousInv /\ LocalesInv /\ ParcoursInv

(* If the requests stop arriving, every call of SelectCampagne returns or  *)
(* throws: no iteration is repeated, no mutex is kept.                     *)
AppelsTermines ==
  <>[][\A t \in Threads : pc[t] = "repos" => pc'[t] = "repos"]_vars =>
    \A t \in Threads : pc[t] # "repos" ~> pc[t] = "repos"

(* SelectCampagne implements Enchere: the instant of a sale is the debit,  *)
(* the instant of a null answer the end of the loop, and the instant of a  *)
(* refusal the failed debit.                                               *)
etatAppel == [t \in Threads |->
  IF pc[t] \in {"repos", "retour", "exception"} THEN pc[t] ELSE "attente"]

E == INSTANCE Enchere WITH etat <- etatAppel, demande <- pBidRequest,
                           reponse <- lJsonReturn

EnchereSpec == E!Spec
=============================================================================
