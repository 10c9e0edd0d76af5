------------------------------ MODULE Enchere -------------------------------
(***************************************************************************)
(* What SelectCampagne promises to its callers, whatever the interleaving  *)
(* of their calls: each call is answered at one instant, by the sale of    *)
(* one compatible campaign that can pay at that instant, or by no campaign *)
(* because none can, or gives up because a compatible campaign ran out of  *)
(* money.                                                                  *)
(***************************************************************************)
EXTENDS Integers

CONSTANTS Threads, BidRequests, NbCampagnes, mBidPrice, BudgetInitial,
          Compatible(_, _), Moins(_, _)

VARIABLES
  mBudget,      (* remaining budget of each campaign                       *)
  etat,         (* state of each caller's call                             *)
  demande,      (* the request of each call                                *)
  reponse       (* the campaign sold to each call, 0 for none              *)

vars == << mBudget, etat, demande, reponse >>

Campagnes == 1 .. NbCampagnes

PeutPayer(t, c) == Compatible(demande[t], c) /\ mBudget[c] >= mBidPrice[c]

Init ==
  /\ mBudget = BudgetInitial
  /\ etat = [t \in Threads |-> "repos"]
  /\ demande \in [Threads -> BidRequests]
  /\ reponse = [t \in Threads |-> 0]

Passer(t, de, vers) == etat[t] = de /\ etat' = [etat EXCEPT ![t] = vers]

Demander(t, r) ==
  /\ Passer(t, "repos", "attente")
  /\ demande' = [demande EXCEPT ![t] = r]
  /\ UNCHANGED << mBudget, reponse >>

Vendre(t, c) ==
  /\ PeutPayer(t, c)
  /\ Passer(t, "attente", "retour")
  /\ mBudget' = [mBudget EXCEPT ![c] = Moins(@, mBidPrice[c])]
  /\ reponse' = [reponse EXCEPT ![t] = c]
  /\ UNCHANGED demande

SansCampagne(t) ==
  /\ \A c \in Campagnes : ~ PeutPayer(t, c)
  /\ Passer(t, "attente", "retour")
  /\ UNCHANGED << mBudget, demande, reponse >>

Renoncer(t) ==
  /\ \E c \in Campagnes : Compatible(demande[t], c) /\ ~ PeutPayer(t, c)
  /\ Passer(t, "attente", "exception")
  /\ UNCHANGED << mBudget, demande, reponse >>

Terminer(t) ==
  /\ etat[t] \in {"retour", "exception"}
  /\ etat' = [etat EXCEPT ![t] = "repos"]
  /\ reponse' = [reponse EXCEPT ![t] = 0]
  /\ UNCHANGED << mBudget, demande >>

Repondre(t) ==
  \/ \E c \in Campagnes : Vendre(t, c)
  \/ SansCampagne(t)
  \/ Renoncer(t)
  \/ Terminer(t)

Next == \E t \in Threads : Repondre(t) \/ \E r \in BidRequests : Demander(t, r)

Spec == Init /\ [][Next]_vars
=============================================================================
