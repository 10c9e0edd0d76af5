SPECIFICATION Spec
CONSTANTS
  NaN = NaN
  HorsPlage = HorsPlage
  Illisible = Illisible
  Composite = Composite
  HorsEntier = HorsEntier
  Unite = 65536
  Ulp <- MCUlp
  Minuscule <- MCMinuscule
  Contient <- MCContient
  ChaineVide = ""
  Fichiers <- FichiersBornes
CHECK_DEADLOCK FALSE
INVARIANTS
  ChargementConforme
