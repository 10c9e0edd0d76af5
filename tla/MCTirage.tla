------------------------------ MODULE MCTirage ------------------------------
(***************************************************************************)
(* RandomSelectCampagne on a binary float format with sixteen significant  *)
(* bits, unit 2^-16, for every vector of two or three of a few budgets.    *)
(***************************************************************************)
EXTENDS RandomSelectCampagne, SequencesExt

Precision == 16

MCUlp(n) == 2 ^ Cardinality({j \in 0 .. 14 : n >= 2 ^ (Precision + j)})

(* A regular format, as far as it can be enumerated.                       *)
ASSUME FormatAssumption ==
  \A n \in 0 .. 2 ^ 18 : Regulier(n) /\ Croissant(n)

(* 0, 0.25, 0.625, 1.5, 1, 2, 7 and 60 euros.                              *)
Budgets == {0, 16384, 40960, 98304, 65536, 131072, 458752, 3932160}

MCVecteurs == TupleOf(Budgets, 2) \cup TupleOf(Budgets, 3)

(* The first campaign has 62 hundredths of the money.                      *)
MCVecteursTronques == {<< 65536, 40960 >>}

(* It is precise enough for the whole budgets.                             *)
ASSUME PrecisionAssumption ==
  \A v \in Vecteurs : Entiers(v) => VecteurPrecis(v)
=============================================================================
