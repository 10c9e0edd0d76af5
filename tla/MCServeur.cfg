SPECIFICATION ServeurSpec
CONSTANTS
  t1 = t1
  t2 = t2
  Libre = Libre
  NaN = NaN
  HorsPlage = HorsPlage
  Illisible = Illisible
  Composite = Composite
  HorsEntier = HorsEntier
  Threads = {t1, t2}
  Fichier <- MCFichier
  Rang <- MCRang
  BidRequests <- MCBidRequests
  NbCampagnes <- MCNb
  mBidPrice <- MCPrix
  BudgetInitial <- MCBudget
  BudgetMax = 12288
  Eps = 8
  Unite = 1024
  Ulp <- MCUlp
  Minuscule <- MCMinuscule
  Contient <- MCContient
  ChaineVide <- MCVide
  Compatible <- MCCompatible
  LogDebug = FALSE
SYMMETRY Symetrie
INVARIANTS
  RemiseFidele
  VenteConforme
  VenteProche
  VenteChargee
  NulleConforme
PROPERTIES
  VecteurStable
