SPECIFICATION Spec
CONSTANTS
  t1 = t1
  t2 = t2
  Libre = Libre
  Threads = {t1, t2}
  BidRequests <- MCBidRequests
  NbCampagnes = 4
  mBidPrice <- MCPrix
  BudgetInitial <- MCBudget
  BudgetMax = 2000
  Eps = 0
  Unite = 1000
  Ulp <- MCUlp
  Compatible <- MCCompatible
  LogDebug = FALSE
SYMMETRY Symetrie
INVARIANTS
  Requete3PourLaTroisieme
