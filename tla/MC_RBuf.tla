------------------------------ MODULE MC_RBuf ------------------------------
(* Two threads (a feeder and a reader), bytes of two kinds, capacities one,
   three and four: writes of up to four bytes wrap, fill and are refused. *)
EXTENDS RBuf

CONSTANTS w, r, a, b

MCThreads == {w, r}
MCValues == {a, b}
MCCapacities == {1, 3, 4}
MCMaxAsk == 4
=============================================================================
