SPECIFICATION Spec
CONSTANTS
  Inf = Inf
  NaN = NaN
  Unite = 65536
  Ulp <- MCUlp
  Vecteurs <- MCVecteurs
CHECK_DEADLOCK FALSE
INVARIANTS
  ResultatConforme
  BoucleInv
  TiragesComptes
  EpuiseeJamaisTiree
  PartProportionnelle
