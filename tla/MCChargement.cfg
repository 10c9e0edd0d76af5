SPECIFICATION FairSpec
CONSTANTS
  NaN = NaN
  HorsPlage = HorsPlage
  Illisible = Illisible
  Composite = Composite
  HorsEntier = HorsEntier
  Unite = 65536
  Ulp <- MCUlp
  Minuscule <- MCMinuscule
  Contient <- MCContient
  ChaineVide = ""
  Fichiers <- MCFichiers
CHECK_DEADLOCK FALSE
INVARIANTS
  TypeOK
  ChargementInv
  VendeuseSaine
  DemarrageSain
  RetourFidele
  RefusJustifie
PROPERTIES
  DemarrageTermine
