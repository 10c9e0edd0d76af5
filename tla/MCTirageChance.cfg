SPECIFICATION Spec
CONSTANTS
  Inf = Inf
  NaN = NaN
  Unite = 65536
  Ulp <- MCUlp
  Vecteurs <- MCVecteursTronques
CHECK_DEADLOCK FALSE
INVARIANTS
  ChancePourTous
