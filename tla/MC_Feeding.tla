---------------------------- MODULE MC_Feeding -----------------------------
(* How a stream comes in: the threads of a feed, and the loop of           *)
(* parse::feed that each of them calls with a buffer.  A behaviour is about *)
(* one of the two: the loop runs within one step of the thread, "feeding",  *)
(* and the two share no variable.                                          *)
EXTENDS Feed, FeedLoop

VARIABLE part  \* what this behaviour is about

FeedingInit ==
  /\ FeedInit
  /\ \/ part = "threads" /\ buf = [q \in 1 .. Count |-> "0"] /\ stale = "0" /\ eit_pid = "collecting"
     \/ part = "loop"
  /\ Init

Loop == part = "loop" /\ Next /\ UNCHANGED <<feedVars, part>>

FeedingNext ==
  \/ part = "threads" /\ FeedNext /\ UNCHANGED <<vars, part>>
  \/ Loop

FeedingSpec ==
  /\ FeedingInit /\ [][FeedingNext]_<<vars, feedVars, part>>
  /\ FeedFairness /\ WF_<<vars, feedVars, part>>(Loop)

\* parse::feed returns from every buffer, also from one without a packet.
LoopReturns == part = "loop" => FeedReturns
=============================================================================
