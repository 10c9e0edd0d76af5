--------------------------- MODULE MCConcurrence ----------------------------
(***************************************************************************)
(* SelectCampagne under concurrent calls, on a small binary float format:  *)
(* seven significant bits, enough for the integers 0 to 100 of the draw,   *)
(* and a unit of 2^-13, fine enough for a quotient of budgets to keep its  *)
(* seven bits.  Above 32 euros two floats are half a euro apart, so the    *)
(* debits of the first campaign are rounded as those of a binary32 are.    *)
(***************************************************************************)
EXTENDS CampagnesManager, TLC

CONSTANTS t1, t2, t3, tous, premiere, aucune

Precision == 7

MCUlp(n) == 2 ^ Cardinality({k \in 0 .. 13 : n >= 2 ^ (Precision + k)})

MCBidRequests2 == {tous, premiere}
MCBidRequests3 == {tous, premiere, aucune}

(* `tous` suits every campaign, `premiere` the first only.                 *)
MCCompatible(r, c) == r = tous \/ (r = premiere /\ c = 1)

(* 50 euros at 16.75: 50, 33.25 rounded to 33, 16.25, which cannot pay.    *)
(* 7.5 euros at 4: 7.5, 3.5, which cannot pay.                             *)
MCPrix   == << 137216, 32768 >>
MCBudget == << 409600, 61440 >>

Symetrie == Permutations(Threads)
=============================================================================
