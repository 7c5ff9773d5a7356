------------------------------ MODULE MC_Psip ------------------------------
(***************************************************************************)
(* Small multiplexes for Psip.  Programs are 1 and 2, their PMTs come on   *)
(* pids 16 and 17, their streams on 32 to 35.                              *)
(***************************************************************************)
EXTENDS Psip, TLC

Pmt(v, s, a) == [version |-> v, streams |-> s, av |-> a]
Mux(ts, v, programs, pmt, guide) ==
  [ts |-> ts, version |-> v, programs |-> programs, pmt |-> pmt, guide |-> guide]

\* Stream 1: one program; a stream is added to it; a second program appears.
One == Mux(1, 0, 1 :> 16, 1 :> Pmt(0, {32}, {32}), "vct")
OneMore == Mux(1, 0, 1 :> 16, 1 :> Pmt(1, {32, 33}, {32}), "vct")
Two == Mux(1, 1, 1 :> 16 @@ 2 :> 17, 1 :> Pmt(1, {32, 33}, {32}) @@ 2 :> Pmt(0, {34}, {34}), "vct")
\* Program 1 is gone, program 2 has taken its pid.
Moved == Mux(1, 2, 2 :> 16, 2 :> Pmt(1, {33, 35}, {35}), "vct")
\* Stream 2 uses the same pids for something else; stream 3 has no VCT.
Dvb == Mux(2, 0, 1 :> 17, 1 :> Pmt(0, {34}, {34}), "dvb")
NoVct == Mux(3, 0, 2 :> 16, 2 :> Pmt(0, {33}, {}), "mgt")

AllMuxes == {One, OneMore, Two, Moved, Dvb, NoVct}
=============================================================================
