SPECIFICATION FairSpec
CONSTANTS
  t1 = t1
  t2 = t2
  tous = tous
  premiere = premiere
  Threads = {t1, t2}
  Payloads <- MCPayloads
  BidRequests <- MCBidRequests
  NbCampagnes = 2
  mBidPrice <- MCPrix
  BudgetInitial <- MCBudget
  Compatible <- MCCompatible
  Moins <- MCMoins
  Contenu <- MCContenu
CHECK_DEADLOCK FALSE
INVARIANTS
  TypeOK
  PasDeLectureIndefinie
  AchatSurPayloadValide
  VenteAnnoncee
  HandlerInv
PROPERTIES
  ToutRepondu
