SPECIFICATION Spec
CONSTANTS
  t1 = t1
  t2 = t2
  t3 = t3
  tous = tous
  premiere = premiere
  aucune = aucune
  Libre = Libre
  Threads = {t1, t2, t3}
  BidRequests <- MCBidRequests2
  NbCampagnes = 2
  mBidPrice <- MCPrix
  BudgetInitial <- MCBudget
  BudgetMax = 409600
  Eps = 2048
  Unite = 8192
  Ulp <- MCUlp
  Compatible <- MCCompatible
  LogDebug = FALSE
SYMMETRY Symetrie
INVARIANTS
  TypeOK
  SansCourse
  ListeVideJustifiee
  EchecJustifie
  DepenseBornee
  VenteRepondue
  PonderationPerimee
  IInv
