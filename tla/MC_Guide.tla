------------------------------ MODULE MC_Guide ------------------------------
(* DVB: three services, of which the second SDT replaces one.  ATSC: two   *)
(* channels and a guide that moves on by one slice.                         *)
EXTENDS Guide

TwoSdts == <<[pf |-> {"news", "film"}, sched |-> {"film"}],
             [pf |-> {"news", "sport"}, sched |-> {"sport"}]>>

OneGuide == <<{1, 2}>>
TwoGuides == <<{1, 2}, {1, 2}>>

Event(s, n, i, t) == [source |-> s, slice |-> n, id |-> i, etm |-> t]

FourShows == {Event(1, 0, 7, TRUE), Event(2, 0, 8, TRUE), Event(1, 1, 9, TRUE),
              Event(2, 1, 8, FALSE), Event(2, 2, 5, TRUE)}

SameNumber == {Event(1, 0, 7, TRUE), Event(2, 0, 7, TRUE)}

Options(l, c, s) == [limit |-> l, collect |-> c, scan |-> s]
AllOptions == {Options(-1, FALSE, FALSE), Options(0, TRUE, FALSE), Options(-1, FALSE, TRUE)}
WithTexts == {Options(-1, TRUE, FALSE)}
=============================================================================
