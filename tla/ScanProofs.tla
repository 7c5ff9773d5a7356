------------------------------ MODULE ScanProofs ------------------------------
(***************************************************************************)
(* For any number of tuners, channels and methods: on a tuner one scan     *)
(* works at a time, on an open frontend, and when it tunes nothing is left *)
(* of the feed of the channel before; what it notes for a channel is that  *)
(* channel's; and when all is done every channel was tuned to and every    *)
(* tuner is closed.                                                        *)
(***************************************************************************)
EXTENDS Scan, TLAPS

\* What EXCEPT changes is there.
Shapes ==
  /\ main.i \in Tuners /\ DOMAIN main = {"at", "pass", "i"}
  /\ DOMAIN scanner = Threads
  /\ \A k \in Threads : DOMAIN scanner[k] = {"at", "of", "left"} /\ scanner[k].of \in Tuners
  /\ fe_fd \in [Tuners -> BOOLEAN] /\ demux_fd \in [Tuners -> BOOLEAN]
  /\ DOMAIN feed = Tuners
  /\ \A t \in Tuners : DOMAIN feed[t] = {"at", "kill", "fd", "held"}

\* A scan uses the frontend from start_scan() to close_fe(), the feed while it
\* watches a channel.
Active(k) == scanner[k].at \in {"created", "next", "watch", "stopping"}
Feeds(k) == scanner[k].at \in {"watch", "stopping"}

\* The frontend of an active scan is open and it is the only one there.
Alone ==
  \A k \in Threads : Active(k) =>
    /\ fe_fd[scanner[k].of]
    /\ \A l \in Threads : Active(l) /\ scanner[l].of = scanner[k].of => l = k

\* While start_scan() is about to create its thread the tuner has no other.
Opening ==
  main.at \in {"opened", "spawn"} =>
    /\ fe_fd[main.i]
    /\ \A k \in Threads : scanner[k].of = main.i => ~Active(k)

\* A feed belongs to a scan, and its descriptor is open while it is read.
Fed ==
  \A t \in Tuners :
    /\ feed[t].at # "none" => feed[t].fd
    /\ feed[t].at # "none" \/ demux_fd[t] =>
         \E k \in Threads : scanner[k].of = t /\ Feeds(k)

IInv == Shapes /\ Alone /\ Opening /\ Fed

-----------------------------------------------------------------------------
LEMMA InitIInv == Init => IInv
<1> SUFFICES ASSUME Init PROVE IInv
  OBVIOUS
<1>1. 0 \in Tuners
  BY ScanAssumption DEF Tuners
<1>2. Shapes
  BY <1>1 DEF Init, Shapes
<1>3. Alone /\ Opening /\ Fed
  BY DEF Init, Alone, Opening, Fed, Active
<1> QED
  BY <1>2, <1>3 DEF IInv

LEMMA Implies == IInv => OneScan
<1> SUFFICES ASSUME IInv, NEW k \in Threads, Works(k)
             PROVE  /\ fe_fd[Of(k)]
                    /\ \A l \in Threads : Works(l) /\ Of(l) = Of(k) => l = k
                    /\ scanner[k].at = "next" => feed[Of(k)].at = "none" /\ ~demux_fd[Of(k)]
  BY DEF OneScan
<1>1. Active(k) /\ Of(k) = scanner[k].of /\ Of(k) \in Tuners
  BY DEF Works, Active, Of, IInv, Shapes
<1>2. \A l \in Threads : Works(l) => Active(l)
  BY DEF Works, Active
<1>3. ASSUME scanner[k].at = "next" PROVE \A l \in Threads : Feeds(l) => scanner[l].of # Of(k)
  BY <1>1, <1>3 DEF IInv, Alone, Active, Feeds
<1> QED
  BY <1>1, <1>2, <1>3 DEF IInv, Alone, Fed, Of

\* The next tuner is one of them, and start_scan() is over.
LEMMA NextTunerIs ==
  ASSUME IInv, NextTuner
  PROVE  main'.i \in Tuners /\ DOMAIN main' = {"at", "pass", "i"} /\ main'.at \in {"wait", "final"}
BY ScanAssumption DEF NextTuner, IInv, Shapes, Tuners

\* The thread of a scan goes on: nothing of the others changes.
LEMMA Moves ==
  ASSUME IInv, NEW k \in Threads, NEW at, To(k, at) \/ (at = "next" /\ Done(k))
  PROVE  /\ DOMAIN scanner' = Threads
         /\ \A l \in Threads : /\ DOMAIN scanner'[l] = {"at", "of", "left"}
                               /\ scanner'[l].of = scanner[l].of
                               /\ scanner'[l].at = IF l = k THEN at ELSE scanner[l].at
<1>1. CASE To(k, at)
  BY <1>1 DEF To, IInv, Shapes
<1>2. CASE at = "next" /\ Done(k)
  BY <1>2 DEF Done, IInv, Shapes
<1> QED
  BY <1>1, <1>2

-----------------------------------------------------------------------------
(* The main thread.                                                        *)

LEMMA MainKeeps == IInv /\ Main => IInv'
<1> SUFFICES ASSUME IInv, Main PROVE IInv'
  OBVIOUS
<1>1. CASE Wait
  <2>1. main'.i = main.i /\ DOMAIN main' = {"at", "pass", "i"} /\ main'.at = "open"
    BY <1>1 DEF Wait, MainTo, IInv, Shapes
  <2> QED
    BY <1>1, <2>1 DEF Wait, tunerVars, feedVars, IInv, Shapes, Alone, Opening, Fed, Active, Feeds
<1>2. CASE OpenFails
  <2>1. main'.i \in Tuners /\ DOMAIN main' = {"at", "pass", "i"} /\ main'.at \in {"wait", "final"}
    BY <1>2, NextTunerIs DEF OpenFails
  <2> QED
    BY <1>2, <2>1 DEF OpenFails, tunerVars, feedVars, IInv, Shapes, Alone, Opening, Fed, Active, Feeds
<1>3. CASE Open
  <2>1. /\ main'.i = main.i /\ DOMAIN main' = {"at", "pass", "i"} /\ main'.at = "opened"
        /\ ~fe_fd[main.i] /\ main.i \in Tuners
        /\ fe_fd' = [fe_fd EXCEPT ![main.i] = TRUE]
        /\ UNCHANGED <<scanner, demux_fd, feed>>
    BY <1>3 DEF Open, MainTo, feedVars, IInv, Shapes
  <2>2. \A k \in Threads : Active(k) => scanner[k].of # main.i
    BY <2>1 DEF IInv, Alone
  <2>3. fe_fd' \in [Tuners -> BOOLEAN] /\ fe_fd'[main.i] /\ \A t \in Tuners : fe_fd[t] => fe_fd'[t]
    BY <2>1 DEF IInv, Shapes
  <2>4. Shapes' /\ Fed'
    BY <2>1, <2>3 DEF IInv, Shapes, Fed, Feeds
  <2>5. Alone'
    BY <2>1, <2>3 DEF IInv, Shapes, Alone, Active
  <2>6. Opening'
    BY <2>1, <2>2, <2>3 DEF Opening, Active
  <2> QED
    BY <2>4, <2>5, <2>6 DEF IInv
<1>4. CASE Opened
  <2>1. main'.i = main.i /\ DOMAIN main' = {"at", "pass", "i"} /\ main.at = "opened"
    BY <1>4 DEF Opened, MainTo, IInv, Shapes
  <2> QED
    BY <1>4, <2>1 DEF Opened, feedVars, IInv, Shapes, Alone, Opening, Fed, Active, Feeds
<1>5. CASE StartScan
  <2>1. PICK k \in Unborn :
          scanner' = [scanner EXCEPT ![k] =
                       [at |-> "created", of |-> main.i, left |-> List(main.i, main.pass)]]
    BY <1>5 DEF StartScan, Spawn
  <2>2. k \in Threads /\ scanner[k].at = "none"
    BY <2>1 DEF Unborn
  <2>3. /\ main'.i \in Tuners /\ DOMAIN main' = {"at", "pass", "i"}
        /\ main'.at \in {"wait", "final"}
    BY <1>5, NextTunerIs DEF StartScan
  <2>4. /\ main.at = "spawn" /\ UNCHANGED <<fe_fd, demux_fd, feed>>
    BY <1>5 DEF StartScan, tunerVars, feedVars
  <2>5. /\ DOMAIN scanner' = Threads
        /\ scanner'[k].at = "created" /\ scanner'[k].of = main.i
        /\ DOMAIN scanner'[k] = {"at", "of", "left"}
        /\ \A l \in Threads : l # k => scanner'[l] = scanner[l]
    BY <2>1, <2>2 DEF IInv, Shapes
  <2>6. Shapes'
    BY <2>3, <2>4, <2>5 DEF IInv, Shapes
  <2>7. /\ fe_fd[main.i]
        /\ \A l \in Threads : scanner[l].of = main.i => ~Active(l)
    BY <2>4 DEF IInv, Opening
  <2>8. Alone'
    BY <2>2, <2>4, <2>5, <2>7 DEF IInv, Alone, Active
  <2>9. Opening'
    BY <2>3 DEF Opening
  <2>10. Fed'
    <3> SUFFICES ASSUME NEW t \in Tuners, feed[t].at # "none" \/ demux_fd[t]
                 PROVE  \E l \in Threads : scanner'[l].of = t /\ Feeds(l)'
      BY <2>4 DEF IInv, Fed
    <3>1. PICK l \in Threads : scanner[l].of = t /\ Feeds(l)
      BY DEF IInv, Fed
    <3> QED
      BY <2>2, <2>5, <3>1 DEF Feeds
  <2> QED
    BY <2>6, <2>8, <2>9, <2>10 DEF IInv
<1>6. CASE FinalWait
  <2>1. /\ main'.i \in Tuners /\ DOMAIN main' = {"at", "pass", "i"}
        /\ main'.at \in {"final", "done"}
    BY <1>6, ScanAssumption DEF FinalWait, IInv, Shapes, Tuners
  <2> QED
    BY <1>6, <2>1 DEF FinalWait, tunerVars, feedVars, IInv, Shapes, Alone, Opening, Fed, Active, Feeds
<1> QED
  BY <1>1, <1>2, <1>3, <1>4, <1>5, <1>6 DEF Main

-----------------------------------------------------------------------------
(* The scanning threads.                                                   *)

\* A step that changes neither the frontends, the feeds nor multiscan, and that
\* leaves its thread as active, and as much with its feed, as it was.
LEMMA QuietKeeps ==
  ASSUME IInv, NEW k \in Threads, NEW at, To(k, at) \/ (at = "next" /\ Done(k)),
         at \in {"created", "next", "watch", "stopping"} => Active(k),
         Feeds(k) => at \in {"watch", "stopping"},
         UNCHANGED <<fe_fd, demux_fd, main>>,
         DOMAIN feed' = Tuners,
         \A t \in Tuners : /\ DOMAIN feed'[t] = {"at", "kill", "fd", "held"}
                           /\ feed'[t].at = feed[t].at /\ feed'[t].fd = feed[t].fd
  PROVE  IInv'
<1>1. /\ DOMAIN scanner' = Threads
      /\ \A l \in Threads : /\ DOMAIN scanner'[l] = {"at", "of", "left"}
                            /\ scanner'[l].of = scanner[l].of
                            /\ scanner'[l].at = IF l = k THEN at ELSE scanner[l].at
  BY Moves
<1>2. \A l \in Threads : (Active(l)' => Active(l)) /\ (Feeds(l) => Feeds(l)')
  BY <1>1 DEF Active, Feeds
<1>3. Shapes'
  BY <1>1 DEF IInv, Shapes
<1>4. Alone'
  BY <1>1, <1>2 DEF IInv, Alone
<1>5. Opening'
  BY <1>1, <1>2 DEF IInv, Opening
<1>6. Fed'
  <2> SUFFICES ASSUME NEW t \in Tuners, feed[t].at # "none" \/ demux_fd[t]
               PROVE  \E l \in Threads : scanner'[l].of = t /\ Feeds(l)'
    BY DEF IInv, Fed
  <2>1. PICK l \in Threads : scanner[l].of = t /\ Feeds(l)
    BY DEF IInv, Fed
  <2> QED
    BY <1>1, <1>2, <2>1
<1> QED
  BY <1>3, <1>4, <1>5, <1>6 DEF IInv

\* A channel is tuned to: the thread has a feed now.
LEMMA TuneKeeps ==
  ASSUME IInv, NEW k \in Threads, Tune(k)
  PROVE  IInv'
<1> DEFINE t == Of(k)
<1>1. /\ scanner[k].at = "next" /\ To(k, "watch") /\ t = scanner[k].of /\ t \in Tuners
      /\ demux_fd' = [demux_fd EXCEPT ![t] = TRUE]
      /\ feed' = [feed EXCEPT ![t] = [at |-> "loop", kill |-> FALSE, fd |-> TRUE, held |-> None]]
      /\ UNCHANGED <<fe_fd, main>>
  BY DEF Tune, Scanning, Of, IInv, Shapes
<1> HIDE DEF t
<1>2. /\ DOMAIN scanner' = Threads
      /\ \A l \in Threads : /\ DOMAIN scanner'[l] = {"at", "of", "left"}
                            /\ scanner'[l].of = scanner[l].of
                            /\ scanner'[l].at = IF l = k THEN "watch" ELSE scanner[l].at
  BY <1>1, Moves
<1>3. \A l \in Threads : (Active(l)' <=> Active(l)) /\ (Feeds(l)' <=> Feeds(l) \/ l = k)
  BY <1>1, <1>2 DEF Active, Feeds
<1>4. /\ DOMAIN feed' = Tuners /\ demux_fd' \in [Tuners -> BOOLEAN]
      /\ DOMAIN feed'[t] = {"at", "kill", "fd", "held"} /\ feed'[t].fd
      /\ \A u \in Tuners : u # t => feed'[u] = feed[u] /\ demux_fd'[u] = demux_fd[u]
  BY <1>1 DEF IInv, Shapes
<1>5. Shapes'
  BY <1>1, <1>2, <1>4 DEF IInv, Shapes
<1>6. Alone' /\ Opening'
  BY <1>1, <1>2, <1>3 DEF IInv, Alone, Opening
<1>7. Fed'
  <2> SUFFICES ASSUME NEW u \in Tuners
               PROVE  /\ feed'[u].at # "none" => feed'[u].fd
                      /\ feed'[u].at # "none" \/ demux_fd'[u] =>
                           \E l \in Threads : scanner'[l].of = u /\ Feeds(l)'
    BY DEF Fed
  <2>1. CASE u = t
    BY <1>1, <1>2, <1>3, <1>4, <2>1
  <2>2. CASE u # t
    BY <1>2, <1>3, <1>4, <2>2 DEF IInv, Fed
  <2> QED
    BY <2>1, <2>2
<1> QED
  BY <1>5, <1>6, <1>7 DEF IInv

\* stop_feed() found the reading thread's descriptor closed: the thread is gone.
LEMMA FeedStoppedKeeps ==
  ASSUME IInv, NEW k \in Threads, FeedStopped(k)
  PROVE  IInv'
<1> DEFINE t == Of(k)
<1>1. /\ scanner[k].at = "stopping" /\ Done(k) /\ t = scanner[k].of /\ t \in Tuners
      /\ ~feed[t].fd
      /\ demux_fd' = [demux_fd EXCEPT ![t] = FALSE]
      /\ UNCHANGED <<fe_fd, feed, main>>
  BY DEF FeedStopped, CloseAndNote, Scanning, Of, IInv, Shapes
<1> HIDE DEF t
<1>2. /\ DOMAIN scanner' = Threads
      /\ \A l \in Threads : /\ DOMAIN scanner'[l] = {"at", "of", "left"}
                            /\ scanner'[l].of = scanner[l].of
                            /\ scanner'[l].at = IF l = k THEN "next" ELSE scanner[l].at
  BY <1>1, Moves
<1>3. \A l \in Threads : (Active(l)' <=> Active(l)) /\ (Feeds(l) /\ l # k => Feeds(l)')
  BY <1>1, <1>2 DEF Active, Feeds
<1>4. /\ demux_fd' \in [Tuners -> BOOLEAN] /\ ~demux_fd'[t]
      /\ \A u \in Tuners : u # t => demux_fd'[u] = demux_fd[u]
  BY <1>1 DEF IInv, Shapes
<1>5. Shapes'
  BY <1>1, <1>2, <1>4 DEF IInv, Shapes
<1>6. Alone' /\ Opening'
  BY <1>1, <1>2, <1>3 DEF IInv, Alone, Opening
<1>7. Fed'
  <2> SUFFICES ASSUME NEW u \in Tuners
               PROVE  /\ feed[u].at # "none" => feed[u].fd
                      /\ feed[u].at # "none" \/ demux_fd'[u] =>
                           \E l \in Threads : scanner'[l].of = u /\ Feeds(l)'
    BY <1>1 DEF Fed
  <2>1. CASE u = t
    BY <1>1, <1>4, <2>1 DEF IInv, Fed
  <2>2. CASE u # t
    BY <1>1, <1>2, <1>3, <1>4, <2>2 DEF IInv, Fed
  <2> QED
    BY <2>1, <2>2
<1> QED
  BY <1>5, <1>6, <1>7 DEF IInv

\* The scan gives the frontend back: it was the only one to use it, and
\* start_scan() is not about to.
LEMMA CloseFeKeeps ==
  ASSUME IInv, NEW k \in Threads, CloseFe(k)
  PROVE  IInv'
<1> DEFINE t == Of(k)
<1>1. /\ scanner[k].at = "next" /\ To(k, "complete") /\ t = scanner[k].of /\ t \in Tuners
      /\ fe_fd' = [fe_fd EXCEPT ![t] = FALSE]
      /\ demux_fd' = [demux_fd EXCEPT ![t] = FALSE]
      /\ UNCHANGED <<feed, main>>
  BY DEF CloseFe, Scanning, Of, IInv, Shapes
<1> HIDE DEF t
<1>2. /\ DOMAIN scanner' = Threads
      /\ \A l \in Threads : /\ DOMAIN scanner'[l] = {"at", "of", "left"}
                            /\ scanner'[l].of = scanner[l].of
                            /\ scanner'[l].at = IF l = k THEN "complete" ELSE scanner[l].at
  BY <1>1, Moves
<1>3. \A l \in Threads : /\ Active(l)' => Active(l) /\ l # k
                         /\ Feeds(l) => Feeds(l)' /\ l # k
  BY <1>1, <1>2 DEF Active, Feeds
<1>4. /\ fe_fd' \in [Tuners -> BOOLEAN] /\ demux_fd' \in [Tuners -> BOOLEAN]
      /\ ~demux_fd'[t]
      /\ \A u \in Tuners : u # t => fe_fd'[u] = fe_fd[u] /\ demux_fd'[u] = demux_fd[u]
  BY <1>1 DEF IInv, Shapes
<1>5. Active(k) /\ \A l \in Threads : Active(l) /\ l # k => scanner[l].of # t
  BY <1>1 DEF IInv, Alone, Active
<1>6. Shapes'
  BY <1>1, <1>2, <1>4 DEF IInv, Shapes
<1>7. Alone'
  BY <1>2, <1>3, <1>4, <1>5 DEF IInv, Alone, Shapes
<1>8. main.at \in {"opened", "spawn"} => main.i # t
  BY <1>1, <1>5 DEF IInv, Opening
<1>9. Opening'
  BY <1>1, <1>2, <1>3, <1>4, <1>8 DEF IInv, Opening, Shapes
<1>10. Fed'
  <2> SUFFICES ASSUME NEW u \in Tuners, feed[u].at # "none" \/ demux_fd'[u]
               PROVE  \E l \in Threads : scanner'[l].of = u /\ Feeds(l)'
    BY <1>1 DEF IInv, Fed
  <2>1. feed[u].at # "none" \/ demux_fd[u]
    BY <1>4
  <2>2. PICK l \in Threads : scanner[l].of = u /\ Feeds(l)
    BY <2>1 DEF IInv, Fed
  <2> QED
    BY <1>2, <1>3, <2>2
<1> QED
  BY <1>6, <1>7, <1>9, <1>10 DEF IInv

LEMMA ScanKeeps ==
  ASSUME IInv, NEW k \in Threads, Scan(k)
  PROVE  IInv'
<1>1. CASE ScanRunsAlready(k)
  BY <1>1, QuietKeeps
     DEF ScanRunsAlready, Scanning, Active, Feeds, tunerVars, feedVars, IInv, Shapes
<1>2. CASE ScanBegins(k)
  BY <1>2, QuietKeeps DEF ScanBegins, Scanning, Active, Feeds, feedVars, IInv, Shapes
<1>3. CASE Skip(k)
  BY <1>3, QuietKeeps DEF Skip, Scanning, Active, Feeds, tunerVars, feedVars, IInv, Shapes
<1>4. CASE Miss(k)
  BY <1>4, QuietKeeps DEF Miss, Scanning, Active, Feeds, IInv, Shapes
<1>5. CASE StopFeed(k)
  <2>1. /\ scanner[k].at = "watch" /\ To(k, "stopping") /\ Of(k) \in Tuners
        /\ feed' = [feed EXCEPT ![Of(k)].kill = TRUE]
        /\ UNCHANGED <<fe_fd, demux_fd, main>>
    BY <1>5 DEF StopFeed, Scanning, tunerVars, Of, IInv, Shapes
  <2>2. /\ DOMAIN feed' = Tuners
        /\ \A t \in Tuners : /\ DOMAIN feed'[t] = {"at", "kill", "fd", "held"}
                             /\ feed'[t].at = feed[t].at /\ feed'[t].fd = feed[t].fd
    BY <2>1 DEF IInv, Shapes
  <2> QED
    BY <2>1, <2>2, QuietKeeps DEF Active
<1>6. CASE Complete(k)
  BY <1>6, QuietKeeps DEF Complete, Scanning, Active, Feeds, tunerVars, feedVars, IInv, Shapes
<1>7. CASE Load(k)
  BY <1>7, QuietKeeps DEF Load, Scanning, Active, Feeds, tunerVars, feedVars, IInv, Shapes
<1>8. CASE Store(k)
  BY <1>8, QuietKeeps DEF Store, Scanning, Active, Feeds, feedVars, IInv, Shapes
<1> QED
  BY <1>1, <1>2, <1>3, <1>4, <1>5, <1>6, <1>7, <1>8, TuneKeeps, FeedStoppedKeeps, CloseFeKeeps
     DEF Scan

-----------------------------------------------------------------------------
(* The reading threads.                                                    *)

LEMMA ReaderKeeps ==
  ASSUME IInv, NEW t \in Tuners, Read(t) \/ Reader(t)
  PROVE  IInv'
<1>1. /\ feed[t].at # "none"
      /\ DOMAIN feed' = Tuners
      /\ DOMAIN feed'[t] = {"at", "kill", "fd", "held"}
      /\ feed'[t].at # "none" => feed'[t].fd = feed[t].fd
      /\ \A u \in Tuners : u # t => feed'[u] = feed[u]
  BY DEF Read, Reader, Push, ReaderEnds, IInv, Shapes
<1>2. UNCHANGED <<fe_fd, demux_fd, main, scanner>>
  BY DEF Read, Reader, Push, ReaderEnds, tunerVars
<1>3. Shapes'
  BY <1>1, <1>2 DEF IInv, Shapes
<1>4. Alone' /\ Opening'
  BY <1>2 DEF IInv, Alone, Opening, Active
<1>5. Fed'
  BY <1>1, <1>2 DEF IInv, Fed, Feeds
<1> QED
  BY <1>3, <1>4, <1>5 DEF IInv

-----------------------------------------------------------------------------
LEMMA StepIInv == IInv /\ [Next]_vars => IInv'
<1> SUFFICES ASSUME IInv, [Next]_vars PROVE IInv'
  OBVIOUS
<1>1. CASE UNCHANGED vars
  BY <1>1 DEF vars, tunerVars, feedVars, IInv, Shapes, Alone, Opening, Fed, Active, Feeds
<1> QED
  BY <1>1, MainKeeps, ScanKeeps, ReaderKeeps DEF Next

\* However the passes of multiscan, the ends of scans and the reading threads
\* interleave, a tuner has one working scan, which finds the frontend open, and
\* which tunes only when the feed of the channel before is gone.
THEOREM ScansKeepApart == Spec => []OneScan
<1> QED
  BY InitIInv, StepIInv, Implies, PTL DEF Spec

-----------------------------------------------------------------------------
(* What is noted.  This needs OneScan: the tuner, the parser and the feed  *)
(* of a scan are those of its channel because nobody else touches them.    *)

\* While a scan watches a channel the tuner is at it, and neither the parser nor
\* the reading thread holds anything of another one.
Current ==
  \A k \in Threads : Feeds(k) =>
    /\ cur_chan[scanner[k].of] = Channel(k)
    /\ ts_id[scanner[k].of] \in {Channel(k), None}
    /\ feed[scanner[k].of].held \in {Channel(k), None}

Noted ==
  /\ DOMAIN ts_id = Tuners /\ DOMAIN cur_chan = Tuners
  /\ Current
  /\ NotedRight

LEMMA InitNoted == Init => Noted
BY DEF Init, Noted, Current, Feeds, NotedRight

\* A step of thread k on its tuner t when it does not watch anything after it:
\* the other scans that watch are on other tuners.
LEMMA OthersKeep ==
  ASSUME IInv, Noted, NEW k \in Threads, Active(k), NEW at,
         To(k, at) \/ (at = "next" /\ Done(k)), at \notin {"watch", "stopping"},
         DOMAIN ts_id' = Tuners, DOMAIN cur_chan' = Tuners, NotedRight', UNCHANGED feed,
         \A u \in Tuners \ {scanner[k].of} : ts_id'[u] = ts_id[u] /\ cur_chan'[u] = cur_chan[u]
  PROVE  Noted'
<1>1. \A l \in Threads : /\ scanner'[l].of = scanner[l].of
                         /\ scanner'[l].at = IF l = k THEN at ELSE scanner[l].at
  BY Moves
<1>2. \A l \in Threads : l # k => scanner'[l] = scanner[l]
  BY DEF To, Done, IInv, Shapes
<1>3. ASSUME NEW l \in Threads, Feeds(l)'
      PROVE  /\ l # k /\ Feeds(l) /\ Channel(l)' = Channel(l)
             /\ scanner[l].of \in Tuners \ {scanner[k].of}
  BY <1>1, <1>2, <1>3 DEF IInv, Shapes, Alone, Active, Feeds, Channel
<1>4. Current'
  BY <1>1, <1>3 DEF Noted, Current
<1> QED
  BY <1>4 DEF Noted

\* A step that touches nothing of a scan that watches.
LEMMA UntouchedKeeps ==
  ASSUME Noted, UNCHANGED <<ts_id, cur_chan, channels>>,
         \A l \in Threads : Feeds(l)' => /\ Feeds(l)
                                         /\ scanner'[l].of = scanner[l].of
                                         /\ scanner'[l].left = scanner[l].left
                                         /\ feed'[scanner[l].of].held = feed[scanner[l].of].held
  PROVE  Noted'
<1>1. \A l \in Threads : Feeds(l)' => Channel(l)' = Channel(l)
  BY DEF Channel
<1>2. Current'
  BY <1>1 DEF Noted, Current
<1> QED
  BY <1>2 DEF Noted, NotedRight

LEMMA MainNotes ==
  ASSUME IInv, Noted, Main
  PROVE  Noted'
<1>1. UNCHANGED <<ts_id, cur_chan, channels, feed>>
  BY DEF Main, Wait, OpenFails, Open, Opened, StartScan, FinalWait, tunerVars, feedVars
<1>2. \A l \in Threads : Feeds(l)' => scanner'[l] = scanner[l]
  <2>1. CASE StartScan
    <3>1. PICK k \in Unborn :
            scanner' = [scanner EXCEPT ![k] =
                         [at |-> "created", of |-> main.i, left |-> List(main.i, main.pass)]]
      BY <2>1 DEF StartScan, Spawn
    <3> QED
      BY <3>1 DEF Unborn, Feeds, IInv, Shapes
  <2>2. CASE ~StartScan
    BY <2>2 DEF Main, Wait, OpenFails, Open, Opened, FinalWait
  <2> QED
    BY <2>1, <2>2
<1> QED
  BY <1>1, <1>2, UntouchedKeeps DEF Feeds

LEMMA ScanNotes ==
  ASSUME IInv, Noted, NEW k \in Threads, Scan(k)
  PROVE  Noted'
<1> DEFINE t == Of(k)
<1>1. t = scanner[k].of /\ t \in Tuners
  BY DEF Of, IInv, Shapes
<1> HIDE DEF t
<1>2. CASE ScanRunsAlready(k) \/ Complete(k) \/ Load(k) \/ Store(k) \/ ScanBegins(k)
  <2>1. /\ UNCHANGED <<ts_id, cur_chan, channels, feed>>
        /\ \E at \in {"gone", "load", "store", "next"} : To(k, at)
    BY <1>2 DEF ScanRunsAlready, Complete, Load, Store, ScanBegins, tunerVars, feedVars
  <2>2. \A l \in Threads : Feeds(l)' => scanner'[l] = scanner[l]
    BY <2>1 DEF To, Feeds, IInv, Shapes
  <2> QED
    BY <2>1, <2>2, UntouchedKeeps DEF Feeds
<1>3. CASE Skip(k)
  BY <1>3, OthersKeep DEF Skip, Scanning, Active, tunerVars, feedVars, Noted, NotedRight
<1>4. CASE Miss(k)
  <2>1. /\ scanner[k].at = "next" /\ Done(k) /\ UNCHANGED <<feed, channels>>
        /\ cur_chan' = [cur_chan EXCEPT ![t] = Channel(k)]
        /\ ts_id' = [ts_id EXCEPT ![t] = None]
    BY <1>4 DEF Miss, Scanning, t
  <2>2. /\ DOMAIN ts_id' = Tuners /\ DOMAIN cur_chan' = Tuners /\ NotedRight'
        /\ \A u \in Tuners \ {t} : ts_id'[u] = ts_id[u] /\ cur_chan'[u] = cur_chan[u]
    BY <2>1 DEF Noted, NotedRight
  <2> QED
    BY <1>1, <2>1, <2>2, OthersKeep DEF Active
<1>5. CASE Tune(k)
  <2>1. /\ scanner[k].at = "next" /\ To(k, "watch") /\ UNCHANGED channels
        /\ cur_chan' = [cur_chan EXCEPT ![t] = Channel(k)]
        /\ ts_id' = [ts_id EXCEPT ![t] = None]
        /\ feed' = [feed EXCEPT ![t] = [at |-> "loop", kill |-> FALSE, fd |-> TRUE, held |-> None]]
    BY <1>5 DEF Tune, Scanning, t
  <2>2. \A l \in Threads : /\ scanner'[l].of = scanner[l].of
                           /\ scanner'[l].left = scanner[l].left
                           /\ l # k => scanner'[l] = scanner[l]
    BY <2>1 DEF To, IInv, Shapes
  <2>3. ASSUME NEW l \in Threads
        PROVE  Channel(l)' = Channel(l)
    <3>1. scanner'[l].left = scanner[l].left
      BY <2>2
    <3> QED
      BY <3>1 DEF Channel
  <2>4. ASSUME NEW l \in Threads, Feeds(l)', l # k
        PROVE  Feeds(l) /\ scanner[l].of \in Tuners \ {t}
    <3>1. Feeds(l) /\ Active(l) /\ Active(k)
      BY <2>1, <2>2, <2>4 DEF Active, Feeds
    <3>2. scanner[l].of # scanner[k].of
      BY <2>4, <3>1 DEF IInv, Alone
    <3> QED
      BY <1>1, <3>1, <3>2 DEF IInv, Shapes
  <2>5. /\ cur_chan'[t] = Channel(k) /\ ts_id'[t] = None /\ feed'[t].held = None
        /\ DOMAIN ts_id' = Tuners /\ DOMAIN cur_chan' = Tuners
        /\ \A u \in Tuners \ {t} :
             ts_id'[u] = ts_id[u] /\ cur_chan'[u] = cur_chan[u] /\ feed'[u] = feed[u]
    BY <1>1, <2>1 DEF IInv, Shapes, Noted
  <2>6. Current'
    <3> SUFFICES ASSUME NEW l \in Threads, Feeds(l)'
                 PROVE  /\ cur_chan'[scanner[l].of] = Channel(l)
                        /\ ts_id'[scanner[l].of] \in {Channel(l), None}
                        /\ feed'[scanner[l].of].held \in {Channel(l), None}
      BY <2>2, <2>3 DEF Current
    <3>1. CASE l = k
      BY <1>1, <2>5, <3>1
    <3>2. CASE l # k
      BY <2>4, <2>5, <3>2 DEF Noted, Current
    <3> QED
      BY <3>1, <3>2
  <2> QED
    BY <2>1, <2>5, <2>6 DEF Noted, NotedRight
<1>6. CASE StopFeed(k)
  <2>1. /\ scanner[k].at = "watch" /\ To(k, "stopping")
        /\ feed' = [feed EXCEPT ![t].kill = TRUE]
        /\ UNCHANGED <<ts_id, cur_chan, channels>>
    BY <1>6 DEF StopFeed, Scanning, tunerVars, t
  <2>2. \A l \in Threads : /\ scanner'[l].of = scanner[l].of
                           /\ scanner'[l].left = scanner[l].left
                           /\ Feeds(l)' => Feeds(l)
    BY <2>1 DEF To, Feeds, IInv, Shapes
  <2>3. \A u \in Tuners : feed'[u].held = feed[u].held
    BY <1>1, <2>1 DEF IInv, Shapes
  <2> QED
    BY <2>1, <2>2, <2>3, UntouchedKeeps DEF IInv, Shapes
<1>7. CASE FeedStopped(k)
  <2>1. /\ scanner[k].at = "stopping" /\ Done(k) /\ UNCHANGED <<feed, ts_id>>
        /\ cur_chan' = [cur_chan EXCEPT ![t] = None]
        /\ channels' = [c \in DOMAIN channels \cup {Channel(k)} |->
                          IF c = Channel(k) THEN ts_id[t] ELSE channels[c]]
    BY <1>7 DEF FeedStopped, CloseAndNote, Scanning, t
  <2>2. ts_id[t] \in {Channel(k), None}
    BY <1>1, <2>1 DEF Noted, Current, Feeds
  <2>3. NotedRight'
    BY <2>1, <2>2 DEF Noted, NotedRight
  <2>4. /\ DOMAIN ts_id' = Tuners /\ DOMAIN cur_chan' = Tuners
        /\ \A u \in Tuners \ {t} : ts_id'[u] = ts_id[u] /\ cur_chan'[u] = cur_chan[u]
    BY <2>1 DEF Noted
  <2> QED
    BY <1>1, <2>1, <2>3, <2>4, OthersKeep DEF Active
<1>8. CASE CloseFe(k)
  <2>1. /\ scanner[k].at = "next" /\ To(k, "complete") /\ UNCHANGED <<feed, ts_id, channels>>
        /\ cur_chan' = [cur_chan EXCEPT ![t] = None]
    BY <1>8 DEF CloseFe, Scanning, t
  <2>2. /\ DOMAIN ts_id' = Tuners /\ DOMAIN cur_chan' = Tuners /\ NotedRight'
        /\ \A u \in Tuners \ {t} : ts_id'[u] = ts_id[u] /\ cur_chan'[u] = cur_chan[u]
    BY <2>1 DEF Noted, NotedRight
  <2> QED
    BY <1>1, <2>1, <2>2, OthersKeep DEF Active
<1> QED
  BY <1>2, <1>3, <1>4, <1>5, <1>6, <1>7, <1>8 DEF Scan

LEMMA ReaderNotes ==
  ASSUME IInv, Noted, NEW t \in Tuners, Read(t) \/ Reader(t)
  PROVE  Noted'
<1>1. UNCHANGED <<scanner, cur_chan, channels>>
  BY DEF Read, Reader, Push, ReaderEnds, tunerVars
<1>2. /\ DOMAIN ts_id' = Tuners
      /\ ts_id'[t] = ts_id[t] \/ ts_id'[t] = feed[t].held
      /\ feed'[t].held = None \/ feed'[t].held = cur_chan[t]
      /\ \A u \in Tuners : u # t => ts_id'[u] = ts_id[u] /\ feed'[u] = feed[u]
  BY DEF Read, Reader, Push, ReaderEnds, Noted, IInv, Shapes
<1>3. \A l \in Threads : Channel(l)' = Channel(l) /\ (Feeds(l)' <=> Feeds(l))
  BY <1>1 DEF Channel, Feeds
<1>4. Current'
  <2> SUFFICES ASSUME NEW l \in Threads, Feeds(l)
               PROVE  /\ cur_chan[scanner[l].of] = Channel(l)
                      /\ ts_id'[scanner[l].of] \in {Channel(l), None}
                      /\ feed'[scanner[l].of].held \in {Channel(l), None}
    BY <1>1, <1>3 DEF Current
  <2>1. /\ cur_chan[scanner[l].of] = Channel(l)
        /\ ts_id[scanner[l].of] \in {Channel(l), None}
        /\ feed[scanner[l].of].held \in {Channel(l), None}
        /\ scanner[l].of \in Tuners
    BY DEF Noted, Current, IInv, Shapes
  <2>2. CASE scanner[l].of = t
    BY <1>2, <2>1, <2>2
  <2>3. CASE scanner[l].of # t
    BY <1>2, <2>1, <2>3
  <2> QED
    BY <2>2, <2>3
<1> QED
  BY <1>1, <1>2, <1>4 DEF Noted, NotedRight

LEMMA StepNoted == IInv /\ Noted /\ [Next]_vars => Noted'
<1> SUFFICES ASSUME IInv, Noted, [Next]_vars PROVE Noted'
  OBVIOUS
<1>1. CASE UNCHANGED vars
  BY <1>1, UntouchedKeeps DEF vars, tunerVars, feedVars, Feeds
<1> QED
  BY <1>1, MainNotes, ScanNotes, ReaderNotes DEF Next

\* A channel is noted with its own stream or with none, never with that of the
\* channel before, for any number of tuners that share the notes.
THEOREM ScansNoteRight == Spec => []NotedRight
<1>1. Noted => NotedRight
  BY DEF Noted
<1> QED
  BY <1>1, InitIInv, StepIInv, InitNoted, StepNoted, PTL DEF Spec

-----------------------------------------------------------------------------
(* What is left when multiscan is done.                                    *)

\* The tuners whose first scan was started.
Started(t) == main.pass > 0 \/ t < main.i \/ main.at \in {"final", "done"}
Unfinished(k) == scanner[k].at \in {"created", "next", "watch", "stopping", "complete"}
Begun(k) == scanner[k].at \in {"next", "watch", "stopping", "complete", "load", "store"}

Stores ==
  /\ main.pass \in Nat
  /\ scan_complete \in [Tuners -> BOOLEAN]
  /\ DOMAIN state = Tuners
  /\ DOMAIN reg = Threads \cup {0}

\* multiscan has waited for a scan before it starts the next one on a tuner.
InTurn ==
  /\ \A k \in Threads, t \in Tuners : scanner[k].at # "none" /\ scanner[k].of = t => Started(t)
  /\ \A k, l \in Threads :
       Unfinished(k) /\ Unfinished(l) /\ scanner[k].of = scanner[l].of => k = l
  /\ \A k \in Threads : Unfinished(k) =>
       /\ ~scan_complete[scanner[k].of]
       /\ main.at \in {"open", "opened", "spawn"} => scanner[k].of # main.i
  /\ main.at = "final" => \A t \in Tuners : t < main.i => scan_complete[t]
  /\ main.at = "done" => \A t \in Tuners : scan_complete[t]

\* The frontend is open for a scan that is about to start or not over, and so is
\* the descriptor of the reading thread for a scan that watches a channel.
Watched(t) == \E k \in Threads : scanner[k].of = t /\ Feeds(k)
OpenFor(t) ==
  \/ main.at = "spawn" /\ main.i = t
  \/ \E k \in Threads : scanner[k].of = t /\ Active(k)
Held ==
  \A t \in Tuners :
    /\ fe_fd[t] => OpenFor(t) \/ (main.at = "opened" /\ main.i = t)
    /\ feed[t].fd => Watched(t)

\* The bits of state follow, although two threads load and store them: the bit of
\* a scan keeps the next one of the tuner from its first tune.
Awaited(t) ==
  \/ main.at = "spawn" /\ main.i = t
  \/ \E k \in Threads : scanner[k].of = t /\ scanner[k].at = "created"
BitsFollow ==
  /\ \A t \in Tuners : /\ state[t] \subseteq Bits
                       /\ "open" \in state[t] => OpenFor(t)
                       /\ "feed" \in state[t] => Watched(t)
  /\ \A k, l \in Threads : Begun(k) /\ Begun(l) /\ scanner[k].of = scanner[l].of => k = l
  /\ \A k \in Threads : Begun(k) => /\ "scan" \in state[scanner[k].of]
                                    /\ main.at = "opened" /\ scanner[k].of = main.i => "scan" \in reg[0]
  /\ \A k \in Threads, t \in Tuners : scanner[k].at = "store" /\ scanner[k].of = t =>
       /\ reg[k] \subseteq {"scan", "open"}
       /\ "open" \in reg[k] => Awaited(t)
  /\ main.at = "opened" => reg[0] \subseteq {"scan"}

\* A channel of a list that was begun is tuned to or still on the list.
Covered ==
  /\ DOMAIN channels \subseteq tried
  /\ \A k \in Threads : Feeds(k) => Channel(k) \in tried
  /\ \A t \in Tuners : Started(t) => \A c \in List(t, 0) :
       c \in tried \/ \E k \in Threads : scanner[k].of = t /\ Active(k) /\ c \in scanner[k].left

Leaves == Stores /\ InTurn /\ (~spoilt => Held /\ BitsFollow /\ Covered)

-----------------------------------------------------------------------------
LEMMA InitLeaves == Init => Leaves
<1> SUFFICES ASSUME Init PROVE Leaves
  OBVIOUS
<1>1. main.pass = 0 /\ main.i = 0 /\ main.at = "wait" /\ \A k \in Threads : scanner[k].at = "none"
  BY DEF Init
<1>2. Stores
  BY <1>1 DEF Init, Stores
<1>3. InTurn
  BY <1>1 DEF InTurn, Unfinished
<1>4. Held /\ BitsFollow
  BY <1>1 DEF Init, Held, BitsFollow, Begun, Bits
<1>5. Covered
  <2>1. \A t \in Tuners : ~Started(t)
    BY <1>1, ScanAssumption DEF Started, Tuners
  <2> QED
    BY <1>1, <2>1 DEF Init, Covered, Feeds
<1> QED
  BY <1>2, <1>3, <1>4, <1>5 DEF Leaves

\* One thread takes a step: nothing of the others changes.
LEMMA OthersStay ==
  ASSUME IInv, NEW k \in Threads, NEW at, To(k, at) \/ (at = "next" /\ Done(k))
  PROVE  /\ \A l \in Threads : scanner'[l].of = scanner[l].of
         /\ \A l \in Threads : l # k => scanner'[l] = scanner[l]
         /\ scanner'[k].at = at
         /\ scanner'[k].left = IF To(k, at) THEN scanner[k].left
                               ELSE scanner[k].left \ {Channel(k)}
<1>1. CASE To(k, at)
  BY <1>1 DEF To, IInv, Shapes
<1>2. CASE at = "next" /\ Done(k) /\ ~To(k, at)
  BY <1>2 DEF Done, IInv, Shapes
<1> QED
  BY <1>1, <1>2

LEMMA StepStores == IInv /\ Stores /\ [Next]_vars => Stores'
<1> SUFFICES ASSUME IInv, Stores, [Next]_vars PROVE Stores'
  OBVIOUS
<1>1. main'.pass \in Nat
  <2>1. CASE Main
    <3>1. CASE NextTuner
      BY <3>1 DEF NextTuner, Stores, IInv, Shapes
    <3>2. CASE \E at \in {"open", "opened", "spawn"} : MainTo(at)
      BY <3>2 DEF MainTo, Stores, IInv, Shapes
    <3>3. CASE FinalWait
      BY <3>3 DEF FinalWait, Stores, IInv, Shapes
    <3> QED
      BY <2>1, <3>1, <3>2, <3>3 DEF Main, Wait, OpenFails, Open, Opened, StartScan
  <2>2. CASE UNCHANGED main
    BY <2>2 DEF Stores
  <2>3. ASSUME NEW k \in Threads, Scan(k) PROVE UNCHANGED main
    BY <2>3 DEF Scan, ScanRunsAlready, ScanBegins, Skip, Miss, Tune, StopFeed, FeedStopped,
                CloseAndNote, CloseFe, Complete, Load, Store
  <2>4. ASSUME NEW t \in Tuners, Read(t) \/ Reader(t) PROVE UNCHANGED main
    BY <2>4 DEF Read, Reader, Push, ReaderEnds
  <2>5. UNCHANGED vars => UNCHANGED main
    BY DEF vars
  <2> QED
    BY <2>1, <2>2, <2>3, <2>4, <2>5 DEF Next
<1>2. /\ scan_complete' \in [Tuners -> BOOLEAN]
      /\ DOMAIN state' = Tuners
      /\ DOMAIN reg' = Threads \cup {0}
  <2>1. CASE Main
    BY <2>1 DEF Stores, Main, Wait, OpenFails, Open, Opened, StartScan, FinalWait, tunerVars
  <2>2. ASSUME NEW k \in Threads, Scan(k)
        PROVE  /\ scan_complete' \in [Tuners -> BOOLEAN]
               /\ DOMAIN state' = Tuners
               /\ DOMAIN reg' = Threads \cup {0}
    BY <2>2 DEF Stores, Scan, ScanRunsAlready, ScanBegins, Skip, Miss, Tune, StopFeed, FeedStopped,
                CloseAndNote, CloseFe, Complete, Load, Store, tunerVars
  <2>3. ASSUME NEW t \in Tuners, Read(t) \/ Reader(t) PROVE UNCHANGED <<scan_complete, state, reg>>
    BY <2>3 DEF Read, Reader, Push, ReaderEnds, tunerVars
  <2>4. UNCHANGED vars => UNCHANGED <<scan_complete, state, reg>>
    BY DEF vars, tunerVars
  <2> QED
    BY <2>1, <2>2, <2>3, <2>4 DEF Next, Stores
<1> QED
  BY <1>1, <1>2 DEF Stores

-----------------------------------------------------------------------------
(* multiscan waits for its scans.                                          *)

\* The next tuner, and the tuners that are started with it.
LEMMA NextTunerStarts ==
  ASSUME IInv, Stores, NextTuner, main.at \notin {"final", "done"}
  PROVE  /\ main'.at \in {"wait", "final"}
         /\ main'.at = "final" => main'.i = 0
         /\ \A t \in Tuners : Started(t) \/ t = main.i => Started(t)'
         /\ \A t \in Tuners : Started(t)' => Started(t) \/ t = main.i
<1>1. /\ main.i \in Nat /\ main.i < NumTuners /\ main.pass \in Nat /\ NumTuners \in Nat
      /\ DOMAIN main = {"at", "pass", "i"}
  BY ScanAssumption DEF IInv, Shapes, Stores, Tuners
<1>2. \A t \in Tuners : t \in Nat /\ t < NumTuners
  BY <1>1 DEF Tuners
<1>3. CASE main.i + 1 < NumTuners
  <2>1. main'.at = "wait" /\ main'.i = main.i + 1 /\ main'.pass = main.pass
    BY <1>1, <1>3 DEF NextTuner
  <2> QED
    BY <1>1, <1>2, <2>1 DEF Started
<1>4. CASE ~(main.i + 1 < NumTuners) /\ main.pass + 1 < Passes
  <2>1. main'.at = "wait" /\ main'.i = 0 /\ main'.pass = main.pass + 1
    BY <1>1, <1>4 DEF NextTuner
  <2>2. \A t \in Tuners : t < main.i \/ t = main.i
    BY <1>1, <1>2, <1>4
  <2> QED
    BY <1>1, <2>1, <2>2 DEF Started
<1>5. CASE ~(main.i + 1 < NumTuners) /\ ~(main.pass + 1 < Passes)
  <2>1. main'.at = "final" /\ main'.i = 0 /\ main'.pass = main.pass
    BY <1>1, <1>5 DEF NextTuner
  <2>2. \A t \in Tuners : t < main.i \/ t = main.i
    BY <1>1, <1>2, <1>5
  <2> QED
    BY <1>1, <2>1, <2>2 DEF Started
<1> QED
  BY <1>3, <1>4, <1>5

\* The thread that start_scan() creates.
LEMMA Spawned ==
  ASSUME IInv, Spawn
  PROVE  \E k \in Threads :
           /\ scanner[k].at = "none"
           /\ scanner'[k].at = "created" /\ scanner'[k].of = main.i
           /\ scanner'[k].left = List(main.i, main.pass)
           /\ \A l \in Threads : l # k => scanner'[l] = scanner[l]
<1>1. PICK k \in Unborn :
        scanner' = [scanner EXCEPT ![k] =
                     [at |-> "created", of |-> main.i, left |-> List(main.i, main.pass)]]
  BY DEF Spawn
<1>2. k \in Threads /\ scanner[k].at = "none"
  BY <1>1 DEF Unborn
<1> QED
  BY <1>1, <1>2 DEF IInv, Shapes

LEMMA MainInTurn ==
  ASSUME IInv, Stores, InTurn, Main
  PROVE  InTurn'
<1>0. /\ main.i \in Tuners /\ main.i \in Nat /\ main.i < NumTuners
      /\ main.pass \in Nat /\ NumTuners \in Nat /\ DOMAIN main = {"at", "pass", "i"}
      /\ \A t \in Tuners : t \in Nat
      /\ \A k \in Threads : scanner[k].of \in Tuners
  BY ScanAssumption DEF IInv, Shapes, Stores, Tuners
<1>1. CASE Wait
  <2>1. /\ main.at = "wait" /\ main'.at = "open" /\ main'.i = main.i /\ main'.pass = main.pass
        /\ main.pass > 0 => scan_complete[main.i]
        /\ UNCHANGED <<scanner, scan_complete>>
    BY <1>0, <1>1 DEF Wait, MainTo
  <2>2. \A k \in Threads : Unfinished(k) => scanner[k].of # main.i
    <3> SUFFICES ASSUME NEW k \in Threads, Unfinished(k), scanner[k].of = main.i PROVE FALSE
      OBVIOUS
    <3>1. ~scan_complete[main.i] /\ Started(main.i)
      BY <1>0 DEF InTurn, Unfinished
    <3> QED
      BY <1>0, <2>1, <3>1 DEF Started
  <2>3. \A t \in Tuners : Started(t) => Started(t)'
    BY <2>1 DEF Started
  <2> QED
    BY <1>0, <2>1, <2>2, <2>3 DEF InTurn, Unfinished
<1>2. CASE OpenFails
  <2>1. main.at = "open" /\ NextTuner /\ UNCHANGED <<scanner, scan_complete>>
    BY <1>2 DEF OpenFails
  <2>2. /\ main'.at \in {"wait", "final"}
        /\ main'.at = "final" => main'.i = 0
        /\ \A t \in Tuners : Started(t) => Started(t)'
    BY <2>1, NextTunerStarts
  <2> QED
    BY <1>0, <2>1, <2>2 DEF InTurn, Unfinished
<1>3. CASE Open \/ Opened
  <2>1. /\ main.at \in {"open", "opened"} /\ main'.at \in {"opened", "spawn"}
        /\ main'.i = main.i /\ main'.pass = main.pass
        /\ UNCHANGED <<scanner, scan_complete>>
    BY <1>0, <1>3 DEF Open, Opened, MainTo
  <2>2. \A t \in Tuners : Started(t) => Started(t)'
    BY <2>1 DEF Started
  <2> QED
    BY <1>0, <2>1, <2>2 DEF InTurn, Unfinished
<1>4. CASE StartScan
  <2>1. /\ main.at = "spawn" /\ NextTuner /\ Spawn
        /\ scan_complete' = [scan_complete EXCEPT ![main.i] = FALSE]
    BY <1>4 DEF StartScan
  <2>2. /\ main'.at \in {"wait", "final"}
        /\ main'.at = "final" => main'.i = 0
        /\ \A t \in Tuners : Started(t) \/ t = main.i => Started(t)'
    BY <2>1, NextTunerStarts
  <2>3. PICK k \in Threads :
           /\ scanner[k].at = "none"
           /\ scanner'[k].at = "created" /\ scanner'[k].of = main.i
           /\ \A l \in Threads : l # k => scanner'[l] = scanner[l]
    BY <2>1, Spawned
  <2>4. main.i \in Tuners /\ ~scan_complete'[main.i]
        /\ \A t \in Tuners : ~scan_complete[t] => ~scan_complete'[t]
    BY <2>1 DEF IInv, Shapes, Stores
  <2>5. \A l \in Threads : l # k => (Unfinished(l)' <=> Unfinished(l)) /\ scanner'[l].of = scanner[l].of
    BY <2>3 DEF Unfinished
  <2>6. \A l \in Threads : Unfinished(l) => scanner[l].of # main.i
    BY <2>1 DEF InTurn
  <2>7. \A l \in Threads, t \in Tuners : scanner'[l].at # "none" /\ scanner'[l].of = t => Started(t)'
    BY <1>0, <2>2, <2>3, <2>4 DEF InTurn
  <2>8. \A l, m \in Threads :
          Unfinished(l)' /\ Unfinished(m)' /\ scanner'[l].of = scanner'[m].of => l = m
    BY <2>3, <2>5, <2>6 DEF InTurn
  <2>9. \A l \in Threads : Unfinished(l)' => ~scan_complete'[scanner'[l].of]
    BY <1>0, <2>3, <2>4, <2>5 DEF InTurn
  <2> QED
    BY <1>0, <2>2, <2>7, <2>8, <2>9 DEF InTurn
<1>5. CASE FinalWait
  <2>1. /\ main.at = "final" /\ scan_complete[main.i]
        /\ main'.at \in {"final", "done"}
        /\ main'.at = "final" => main'.i = main.i + 1
        /\ main'.at = "done" => main.i + 1 >= NumTuners
        /\ UNCHANGED <<scanner, scan_complete>>
    BY <1>0, <1>5 DEF FinalWait
  <2>2. \A t \in Tuners : t < main.i + 1 => scan_complete[t]
    <3> SUFFICES ASSUME NEW t \in Tuners, t < main.i + 1 PROVE scan_complete[t]
      OBVIOUS
    <3>1. t = main.i \/ t < main.i
      BY <1>0
    <3> QED
      BY <2>1, <3>1 DEF InTurn
  <2>3. \A t \in Tuners : Started(t)'
    BY <2>1 DEF Started
  <2>4. main'.at = "done" => \A t \in Tuners : t < main.i + 1
    BY <1>0, <2>1 DEF Tuners
  <2> QED
    BY <1>0, <2>1, <2>2, <2>3, <2>4 DEF InTurn, Unfinished
<1> QED
  BY <1>1, <1>2, <1>3, <1>4, <1>5 DEF Main

LEMMA ScanInTurn ==
  ASSUME IInv, Stores, InTurn, NEW k \in Threads, Scan(k)
  PROVE  InTurn'
<1>1. UNCHANGED main
  BY DEF Scan, ScanRunsAlready, ScanBegins, Skip, Miss, Tune, StopFeed, FeedStopped,
         CloseAndNote, CloseFe, Complete, Load, Store
<1>2. PICK at \in {"next", "watch", "stopping", "complete", "load", "store", "gone"} :
        /\ To(k, at) \/ (at = "next" /\ Done(k))
        /\ scanner[k].at # "none"
        /\ at \in {"next", "watch", "stopping", "complete"} => Unfinished(k)
  BY DEF Scan, ScanRunsAlready, ScanBegins, Skip, Miss, Tune, StopFeed, FeedStopped,
         CloseAndNote, CloseFe, Complete, Load, Store, Scanning, Unfinished
<1>3. /\ \A l \in Threads : scanner'[l].of = scanner[l].of
      /\ \A l \in Threads : l # k => scanner'[l] = scanner[l]
      /\ scanner'[k].at = at
  BY <1>2, OthersStay
<1>4. \A l \in Threads : Unfinished(l)' => Unfinished(l)
  BY <1>2, <1>3 DEF Unfinished
<1>5. /\ \A t \in Tuners : scan_complete[t] => scan_complete'[t]
      /\ \A l \in Threads : Unfinished(l)' => ~scan_complete'[scanner[l].of]
  <2>1. CASE Complete(k)
    <3>1. /\ scanner[k].at = "complete" /\ To(k, "load") /\ Of(k) = scanner[k].of
          /\ scan_complete' = [scan_complete EXCEPT ![Of(k)] = TRUE]
      BY <2>1 DEF Complete, Scanning, Of
    <3>2. scanner'[k].at = "load"
      BY <3>1, OthersStay
    <3>3. ASSUME NEW l \in Threads, Unfinished(l)'
          PROVE  ~scan_complete'[scanner[l].of]
      <4>1. Unfinished(l) /\ l # k /\ Unfinished(k)
        BY <1>4, <3>1, <3>2, <3>3 DEF Unfinished
      <4>2. scanner[l].of # scanner[k].of /\ ~scan_complete[scanner[l].of]
        BY <4>1 DEF InTurn
      <4> QED
        BY <3>1, <4>2 DEF IInv, Shapes, Stores
    <3> QED
      BY <3>1, <3>3 DEF Stores
  <2>2. CASE ~Complete(k)
    <3>1. UNCHANGED scan_complete
      BY <2>2 DEF Scan, ScanRunsAlready, ScanBegins, Skip, Miss, Tune, StopFeed, FeedStopped,
                  CloseAndNote, CloseFe, Load, Store
    <3> QED
      BY <1>4, <3>1 DEF InTurn
  <2> QED
    BY <2>1, <2>2
<1>6. \A t \in Tuners : Started(t)' <=> Started(t)
  BY <1>1 DEF Started
<1>7. \A l \in Threads, t \in Tuners : scanner'[l].at # "none" /\ scanner'[l].of = t => Started(t)'
  BY <1>2, <1>3, <1>6 DEF InTurn
<1> QED
  BY <1>1, <1>3, <1>4, <1>5, <1>7 DEF InTurn

LEMMA StepInTurn == IInv /\ Stores /\ InTurn /\ [Next]_vars => InTurn'
<1> SUFFICES ASSUME IInv, Stores, InTurn, [Next]_vars PROVE InTurn'
  OBVIOUS
<1>1. CASE UNCHANGED <<main, scanner, scan_complete>>
  BY <1>1 DEF InTurn, Started, Unfinished
<1>2. ASSUME NEW t \in Tuners, Read(t) \/ Reader(t) PROVE UNCHANGED <<main, scanner, scan_complete>>
  BY <1>2 DEF Read, Reader, Push, ReaderEnds
<1> QED
  BY <1>1, <1>2, MainInTurn, ScanInTurn DEF Next, vars

-----------------------------------------------------------------------------
(* What a tuner is open for, fed for and awaited by goes on.               *)

LEMMA MainGoesOn ==
  ASSUME IInv, Main
  PROVE  /\ \A l \in Threads : scanner[l].at # "none" => scanner'[l] = scanner[l]
         /\ \A t \in Tuners : /\ Watched(t) => Watched(t)'
                              /\ OpenFor(t) => OpenFor(t)'
                              /\ Awaited(t) => Awaited(t)'
<1>1. \A l \in Threads : scanner[l].at # "none" => scanner'[l] = scanner[l]
  <2>1. CASE StartScan
    BY <2>1, Spawned DEF StartScan
  <2>2. CASE ~StartScan
    BY <2>2 DEF Main, Wait, OpenFails, Open, Opened, FinalWait
  <2> QED
    BY <2>1, <2>2
<1>2. \A l \in Threads : /\ Active(l) => Active(l)' /\ scanner'[l].of = scanner[l].of
                         /\ Feeds(l) => Feeds(l)' /\ scanner'[l].of = scanner[l].of
                         /\ scanner[l].at = "created" => scanner'[l] = scanner[l]
  BY <1>1 DEF Active, Feeds
<1>3. main.at = "spawn" =>
        \E k \in Threads : scanner'[k].of = main.i /\ scanner'[k].at = "created"
  <2> SUFFICES ASSUME main.at = "spawn"
               PROVE  \E k \in Threads : scanner'[k].of = main.i /\ scanner'[k].at = "created"
    OBVIOUS
  <2>1. StartScan
    BY DEF Main, Wait, OpenFails, Open, Opened, FinalWait
  <2> QED
    BY <2>1, Spawned DEF StartScan
<1>4. \A t \in Tuners : Watched(t) => Watched(t)'
  BY <1>2 DEF Watched
<1>5. \A t \in Tuners : OpenFor(t) => OpenFor(t)'
  BY <1>2, <1>3 DEF OpenFor, Active
<1>6. \A t \in Tuners : Awaited(t) => Awaited(t)'
  BY <1>2, <1>3 DEF Awaited
<1> QED
  BY <1>1, <1>4, <1>5, <1>6

\* What a step of thread k, from one point to another, makes of its tuner; the
\* other tuners stay as they are.
LEMMA ScanGoesOn ==
  ASSUME IInv, NEW k \in Threads, NEW at, To(k, at) \/ (at = "next" /\ Done(k)), UNCHANGED main
  PROVE  /\ \A t \in Tuners : Watched(t) => \/ Watched(t)'
                                            \/ scanner[k].of = t /\ Feeds(k) /\ at \notin {"watch", "stopping"}
         /\ \A t \in Tuners : OpenFor(t) => \/ OpenFor(t)'
                                            \/ /\ scanner[k].of = t /\ Active(k)
                                               /\ at \notin {"created", "next", "watch", "stopping"}
         /\ \A t \in Tuners : Awaited(t) => \/ Awaited(t)'
                                            \/ scanner[k].of = t /\ scanner[k].at = "created" /\ at # "created"
<1>1. /\ \A l \in Threads : scanner'[l].of = scanner[l].of
      /\ \A l \in Threads : l # k => scanner'[l] = scanner[l]
      /\ scanner'[k].at = at
  BY OthersStay
<1>2. \A l \in Threads : l # k => /\ Active(l) => Active(l)'
                                  /\ Feeds(l) => Feeds(l)'
                                  /\ scanner'[l].at = scanner[l].at
  BY <1>1 DEF Active, Feeds
<1>3. /\ Feeds(k)' <=> at \in {"watch", "stopping"}
      /\ Active(k)' <=> at \in {"created", "next", "watch", "stopping"}
  BY <1>1 DEF Feeds, Active
<1>4. \A t \in Tuners : Watched(t) => \/ Watched(t)'
                                      \/ scanner[k].of = t /\ Feeds(k) /\ at \notin {"watch", "stopping"}
  BY <1>1, <1>2, <1>3 DEF Watched
<1>5. \A t \in Tuners : OpenFor(t) => \/ OpenFor(t)'
                                      \/ /\ scanner[k].of = t /\ Active(k)
                                         /\ at \notin {"created", "next", "watch", "stopping"}
  BY <1>1, <1>2, <1>3 DEF OpenFor
<1>6. \A t \in Tuners : Awaited(t) => \/ Awaited(t)'
                                      \/ scanner[k].of = t /\ scanner[k].at = "created" /\ at # "created"
  BY <1>1, <1>2 DEF Awaited
<1> QED
  BY <1>4, <1>5, <1>6

-----------------------------------------------------------------------------
(* Frontends and descriptors.                                              *)

LEMMA MainHeld ==
  ASSUME IInv, Held, Main
  PROVE  Held'
<1>1. /\ \A t \in Tuners : Watched(t) => Watched(t)'
      /\ \A t \in Tuners : OpenFor(t) => OpenFor(t)'
  BY MainGoesOn
<1>2. UNCHANGED feed
  BY DEF Main, Wait, OpenFails, Open, Opened, StartScan, FinalWait, feedVars
<1>3. main.i \in Tuners /\ DOMAIN main = {"at", "pass", "i"}
  BY DEF IInv, Shapes
<1>4. ASSUME NEW t \in Tuners, fe_fd'[t]
      PROVE  OpenFor(t)' \/ (main'.at = "opened" /\ main'.i = t)
  <2>1. CASE Open
    <3>1. /\ main'.at = "opened" /\ main'.i = main.i /\ main.at = "open"
          /\ fe_fd' = [fe_fd EXCEPT ![main.i] = TRUE]
      BY <1>3, <2>1 DEF Open, MainTo
    <3>2. CASE t = main.i
      BY <3>1, <3>2
    <3>3. CASE t # main.i
      BY <1>1, <1>4, <3>1, <3>3 DEF Held
    <3> QED
      BY <3>2, <3>3
  <2>2. CASE ~Open
    <3>1. UNCHANGED fe_fd
      BY <2>2 DEF Main, Wait, OpenFails, Opened, StartScan, FinalWait, tunerVars
    <3>2. OpenFor(t) \/ (main.at = "opened" /\ main.i = t)
      BY <1>4, <3>1 DEF Held
    <3>3. CASE OpenFor(t)
      BY <1>1, <3>3
    <3>4. CASE main.at = "opened" /\ main.i = t
      <4>1. Opened
        BY <2>2, <3>4 DEF Main, Wait, OpenFails, StartScan, FinalWait
      <4>2. main'.at = "spawn" /\ main'.i = main.i
        BY <1>3, <4>1 DEF Opened, MainTo
      <4> QED
        BY <3>4, <4>2 DEF OpenFor
    <3> QED
      BY <3>2, <3>3, <3>4
  <2> QED
    BY <2>1, <2>2
<1> QED
  BY <1>1, <1>2, <1>4 DEF Held

LEMMA ScanHeld ==
  ASSUME IInv, Held, NEW k \in Threads, Scan(k), ~ScanRunsAlready(k)
  PROVE  Held'
<1>0. Of(k) = scanner[k].of /\ scanner[k].of \in Tuners
  BY DEF Of, IInv, Shapes
<1>1. CASE ScanBegins(k) \/ Skip(k) \/ Miss(k)
  <2>1. /\ \E at \in {"next"} : To(k, at) \/ (at = "next" /\ Done(k))
        /\ scanner[k].at \in {"created", "next"}
        /\ UNCHANGED <<fe_fd, feed, main>>
    BY <1>1 DEF ScanBegins, Skip, Miss, Scanning, tunerVars, feedVars
  <2>2. ~Feeds(k)
    BY <2>1 DEF Feeds
  <2>3. \A t \in Tuners : (Watched(t) => Watched(t)') /\ (OpenFor(t) => OpenFor(t)')
    BY <2>1, <2>2, ScanGoesOn
  <2> QED
    BY <2>1, <2>3 DEF Held
<1>2. CASE Tune(k)
  <2>1. /\ scanner[k].at = "next" /\ To(k, "watch") /\ UNCHANGED <<fe_fd, main>>
        /\ \A u \in Tuners : u # scanner[k].of => feed'[u] = feed[u]
    BY <1>0, <1>2 DEF Tune, Scanning, IInv, Shapes
  <2>2. \A t \in Tuners : (Watched(t) => Watched(t)') /\ (OpenFor(t) => OpenFor(t)')
    BY <2>1, ScanGoesOn
  <2>3. \A t \in Tuners : feed'[t].fd => Watched(t)'
    <3> SUFFICES ASSUME NEW t \in Tuners, feed'[t].fd PROVE Watched(t)'
      OBVIOUS
    <3>1. CASE t = scanner[k].of
      BY <2>1, <3>1, OthersStay DEF Watched, Feeds
    <3>2. CASE t # scanner[k].of
      BY <2>1, <2>2, <3>2 DEF Held
    <3> QED
      BY <3>1, <3>2
  <2> QED
    BY <2>1, <2>2, <2>3 DEF Held
<1>3. CASE StopFeed(k)
  <2>1. /\ To(k, "stopping") /\ UNCHANGED <<fe_fd, main>>
        /\ \A u \in Tuners : feed'[u].fd = feed[u].fd
    BY <1>0, <1>3 DEF StopFeed, Scanning, tunerVars, IInv, Shapes
  <2>2. \A t \in Tuners : (Watched(t) => Watched(t)') /\ (OpenFor(t) => OpenFor(t)')
    BY <2>1, ScanGoesOn
  <2> QED
    BY <2>1, <2>2 DEF Held
<1>4. CASE FeedStopped(k)
  <2>1. Done(k) /\ ~feed[scanner[k].of].fd /\ UNCHANGED <<fe_fd, feed, main>>
    BY <1>0, <1>4 DEF FeedStopped, CloseAndNote
  <2>2. \A t \in Tuners : (Watched(t) => Watched(t)' \/ t = scanner[k].of) /\ (OpenFor(t) => OpenFor(t)')
    BY <2>1, ScanGoesOn
  <2> QED
    BY <2>1, <2>2 DEF Held
<1>5. CASE CloseFe(k)
  <2>1. /\ scanner[k].at = "next" /\ To(k, "complete") /\ UNCHANGED <<feed, main>>
        /\ \A t \in Tuners : fe_fd'[t] => fe_fd[t] /\ t # scanner[k].of
    BY <1>0, <1>5 DEF CloseFe, Scanning, IInv, Shapes
  <2>2. ~Feeds(k)
    BY <2>1 DEF Feeds
  <2>3. \A t \in Tuners : (Watched(t) => Watched(t)') /\ (OpenFor(t) => OpenFor(t)' \/ t = scanner[k].of)
    BY <2>1, <2>2, ScanGoesOn
  <2> QED
    BY <2>1, <2>3 DEF Held
<1>6. CASE Complete(k) \/ Load(k) \/ Store(k)
  <2>1. /\ \E at \in {"load", "store", "gone"} : To(k, at)
        /\ scanner[k].at \in {"complete", "load", "store"}
        /\ UNCHANGED <<fe_fd, feed, main>>
    BY <1>6 DEF Complete, Load, Store, Scanning, tunerVars, feedVars
  <2>2. ~Feeds(k) /\ ~Active(k)
    BY <2>1 DEF Feeds, Active
  <2>3. \A t \in Tuners : (Watched(t) => Watched(t)') /\ (OpenFor(t) => OpenFor(t)')
    BY <2>1, <2>2, ScanGoesOn
  <2> QED
    BY <2>1, <2>3 DEF Held
<1> QED
  BY <1>1, <1>2, <1>3, <1>4, <1>5, <1>6 DEF Scan

LEMMA ReaderHeld ==
  ASSUME IInv, Held, NEW t \in Tuners, Read(t) \/ Reader(t)
  PROVE  Held'
<1>1. /\ \A u \in Tuners : feed'[u].fd => feed[u].fd
      /\ UNCHANGED <<fe_fd, main, scanner>>
  BY DEF Read, Reader, Push, ReaderEnds, tunerVars, IInv, Shapes
<1>2. \A u \in Tuners : (Watched(u)' <=> Watched(u)) /\ (OpenFor(u)' <=> OpenFor(u))
  BY <1>1 DEF Watched, OpenFor, Feeds, Active
<1> QED
  BY <1>1, <1>2 DEF Held

-----------------------------------------------------------------------------
(* The bits.                                                               *)

LEMMA MainBits ==
  ASSUME IInv, Stores, BitsFollow, Main, ~OpenFails
  PROVE  BitsFollow'
<1>0. /\ main.i \in Tuners /\ DOMAIN main = {"at", "pass", "i"} /\ 0 \notin Threads
      /\ \A l \in Threads : scanner[l].of \in Tuners
  BY DEF IInv, Shapes, Threads
<1>1. /\ \A l \in Threads : scanner[l].at # "none" => scanner'[l] = scanner[l]
      /\ \A t \in Tuners : Watched(t) => Watched(t)'
      /\ \A t \in Tuners : OpenFor(t) => OpenFor(t)'
      /\ \A t \in Tuners : Awaited(t) => Awaited(t)'
  BY MainGoesOn
<1>2. \A l \in Threads : /\ Begun(l)' => Begun(l) /\ scanner'[l] = scanner[l]
                         /\ scanner'[l].at = "store" => scanner'[l] = scanner[l]
  <2>1. CASE StartScan
    BY <2>1, Spawned DEF StartScan, Begun
  <2>2. CASE ~StartScan
    BY <2>2 DEF Main, Wait, OpenFails, Open, Opened, FinalWait, Begun
  <2> QED
    BY <2>1, <2>2
<1>3. \A l, m \in Threads : Begun(l)' /\ Begun(m)' /\ scanner'[l].of = scanner'[m].of => l = m
  BY <1>2 DEF BitsFollow
<1>4. CASE Open
  <2>1. /\ main'.at = "opened" /\ main'.i = main.i /\ main.at = "open"
        /\ ~fe_fd[main.i] /\ "open" \notin state[main.i]
        /\ reg' = [reg EXCEPT ![0] = state[main.i]]
        /\ UNCHANGED <<state, scanner>>
    BY <1>0, <1>4 DEF Open, MainTo
  <2>2. "feed" \notin state[main.i]
    <3> SUFFICES ASSUME "feed" \in state[main.i] PROVE FALSE
      OBVIOUS
    <3>1. PICK l \in Threads : scanner[l].of = main.i /\ Feeds(l)
      BY <1>0 DEF BitsFollow, Watched
    <3> QED
      BY <2>1, <3>1 DEF IInv, Alone, Active, Feeds
  <2>3. /\ reg'[0] = state[main.i] /\ reg'[0] \subseteq {"scan"}
        /\ \A l \in Threads : reg'[l] = reg[l]
    BY <1>0, <2>1, <2>2 DEF BitsFollow, Bits, Stores
  <2>4. \A t \in Tuners : /\ state'[t] \subseteq Bits
                          /\ "open" \in state'[t] => OpenFor(t)'
                          /\ "feed" \in state'[t] => Watched(t)'
    BY <1>1, <2>1 DEF BitsFollow
  <2>5. \A l \in Threads : Begun(l)' =>
          /\ "scan" \in state'[scanner'[l].of]
          /\ main'.at = "opened" /\ scanner'[l].of = main'.i => "scan" \in reg'[0]
    BY <1>2, <2>1, <2>3 DEF BitsFollow
  <2>6. \A l \in Threads, t \in Tuners : scanner'[l].at = "store" /\ scanner'[l].of = t =>
          /\ reg'[l] \subseteq {"scan", "open"}
          /\ "open" \in reg'[l] => Awaited(t)'
    BY <1>1, <2>1, <2>3 DEF BitsFollow
  <2> QED
    BY <1>3, <2>3, <2>4, <2>5, <2>6 DEF BitsFollow
<1>5. CASE Opened
  <2>1. /\ main'.at = "spawn" /\ main'.i = main.i /\ main.at = "opened"
        /\ state' = [state EXCEPT ![main.i] = reg[0] \cup {"open"}]
        /\ reg' = [reg EXCEPT ![0] = {}]
        /\ UNCHANGED scanner
    BY <1>0, <1>5 DEF Opened, MainTo
  <2>2. /\ reg[0] \subseteq {"scan"} /\ \A l \in Threads : reg'[l] = reg[l]
        /\ state'[main.i] = reg[0] \cup {"open"}
        /\ \A t \in Tuners : t # main.i => state'[t] = state[t]
    BY <1>0, <2>1 DEF BitsFollow, Stores
  <2>3. OpenFor(main.i)'
    BY <2>1 DEF OpenFor
  <2>4. \A t \in Tuners : /\ state'[t] \subseteq Bits
                          /\ "open" \in state'[t] => OpenFor(t)'
                          /\ "feed" \in state'[t] => Watched(t)'
    <3> SUFFICES ASSUME NEW t \in Tuners
                 PROVE  /\ state'[t] \subseteq Bits
                        /\ "open" \in state'[t] => OpenFor(t)'
                        /\ "feed" \in state'[t] => Watched(t)'
      OBVIOUS
    <3>1. CASE t = main.i
      BY <2>1, <2>2, <3>1 DEF Bits, OpenFor
    <3>2. CASE t # main.i
      BY <1>1, <2>2, <3>2 DEF BitsFollow
    <3> QED
      BY <3>1, <3>2
  <2>5. \A l \in Threads : Begun(l)' => "scan" \in state'[scanner'[l].of]
    BY <1>0, <1>2, <2>1, <2>2 DEF BitsFollow
  <2>6. \A l \in Threads, t \in Tuners : scanner'[l].at = "store" /\ scanner'[l].of = t =>
          /\ reg'[l] \subseteq {"scan", "open"}
          /\ "open" \in reg'[l] => Awaited(t)'
    BY <1>1, <2>1, <2>2 DEF BitsFollow
  <2> QED
    BY <1>3, <2>1, <2>4, <2>5, <2>6 DEF BitsFollow
<1>6. CASE Wait \/ StartScan \/ FinalWait
  <2>1. UNCHANGED <<state, reg>> /\ main'.at # "opened"
    <3>1. NextTuner => main'.at # "opened"
      BY NextTunerIs
    <3>2. Wait => main'.at # "opened"
      BY <1>0 DEF Wait, MainTo
    <3>3. FinalWait => main'.at # "opened"
      BY <1>0 DEF FinalWait
    <3> QED
      BY <1>6, <3>1, <3>2, <3>3 DEF Wait, StartScan, FinalWait, tunerVars
  <2>2. \A t \in Tuners : /\ state'[t] \subseteq Bits
                          /\ "open" \in state'[t] => OpenFor(t)'
                          /\ "feed" \in state'[t] => Watched(t)'
    BY <1>1, <2>1 DEF BitsFollow
  <2>3. \A l \in Threads : Begun(l)' => "scan" \in state'[scanner'[l].of]
    BY <1>2, <2>1 DEF BitsFollow
  <2>4. \A l \in Threads, t \in Tuners : scanner'[l].at = "store" /\ scanner'[l].of = t =>
          /\ reg'[l] \subseteq {"scan", "open"}
          /\ "open" \in reg'[l] => Awaited(t)'
    BY <1>1, <1>2, <2>1 DEF BitsFollow
  <2> QED
    BY <1>3, <2>1, <2>2, <2>3, <2>4 DEF BitsFollow
<1> QED
  BY <1>4, <1>5, <1>6 DEF Main

\* A step on tuner t of a thread whose bit is set, and which neither loads nor
\* stores.
LEMMA WorkBits ==
  ASSUME IInv, BitsFollow, NEW k \in Threads, NEW t \in Tuners, scanner[k].of = t,
         NEW at, To(k, at) \/ (at = "next" /\ Done(k)),
         Begun(k), at # "store", UNCHANGED <<main, reg>>,
         \A u \in Tuners : u # t => state'[u] = state[u],
         state'[t] \subseteq Bits,
         "scan" \in state[t] => "scan" \in state'[t],
         "open" \in state'[t] => OpenFor(t)',
         "feed" \in state'[t] => Watched(t)'
  PROVE  BitsFollow'
<1>0. \A l \in Threads : scanner[l].of \in Tuners
  BY DEF IInv, Shapes
<1>1. /\ \A l \in Threads : scanner'[l].of = scanner[l].of
      /\ \A l \in Threads : l # k => scanner'[l] = scanner[l]
      /\ scanner'[k].at = at
  BY OthersStay
<1>2. \A l \in Threads : /\ Begun(l)' => Begun(l)
                         /\ scanner'[l].at = "store" => scanner[l].at = "store"
  BY <1>1 DEF Begun
<1>3. \A u \in Tuners : u # t => (Watched(u) => Watched(u)') /\ (OpenFor(u) => OpenFor(u)')
  BY ScanGoesOn
<1>4. \A u \in Tuners : Awaited(u) => Awaited(u)'
  BY ScanGoesOn DEF Begun
<1>5. \A u \in Tuners : /\ state'[u] \subseteq Bits
                        /\ "open" \in state'[u] => OpenFor(u)'
                        /\ "feed" \in state'[u] => Watched(u)'
  <2> SUFFICES ASSUME NEW u \in Tuners
               PROVE  /\ state'[u] \subseteq Bits
                      /\ "open" \in state'[u] => OpenFor(u)'
                      /\ "feed" \in state'[u] => Watched(u)'
    OBVIOUS
  <2>1. CASE u = t
    BY <2>1
  <2>2. CASE u # t
    BY <1>3, <2>2 DEF BitsFollow
  <2> QED
    BY <2>1, <2>2
<1>6. \A u \in Tuners : "scan" \in state[u] => "scan" \in state'[u]
  OBVIOUS
<1>7. \A l \in Threads : Begun(l)' =>
        /\ "scan" \in state'[scanner'[l].of]
        /\ main'.at = "opened" /\ scanner'[l].of = main'.i => "scan" \in reg'[0]
  BY <1>0, <1>1, <1>2, <1>6 DEF BitsFollow
<1>8. \A l \in Threads, u \in Tuners : scanner'[l].at = "store" /\ scanner'[l].of = u =>
        /\ reg'[l] \subseteq {"scan", "open"}
        /\ "open" \in reg'[l] => Awaited(u)'
  BY <1>1, <1>2, <1>4 DEF BitsFollow
<1>9. \A l, m \in Threads : Begun(l)' /\ Begun(m)' /\ scanner'[l].of = scanner'[m].of => l = m
  BY <1>1, <1>2 DEF BitsFollow
<1> QED
  BY <1>5, <1>7, <1>8, <1>9 DEF BitsFollow

\* A scan sets its bit: no other one of the tuner is begun.
LEMMA BeginBits ==
  ASSUME IInv, Stores, BitsFollow, NEW k \in Threads, ScanBegins(k)
  PROVE  BitsFollow'
<1> PICK t \in Tuners : t = scanner[k].of
  BY DEF IInv, Shapes
<1>0. \A l \in Threads : scanner[l].of \in Tuners
  BY DEF IInv, Shapes
<1>1. /\ scanner[k].at = "created" /\ "scan" \notin state[t] /\ To(k, "next")
      /\ state' = [state EXCEPT ![t] = @ \cup {"scan"}]
      /\ UNCHANGED <<main, reg>>
  BY DEF ScanBegins, Scanning, Of
<1>2. /\ \A l \in Threads : scanner'[l].of = scanner[l].of
      /\ \A l \in Threads : l # k => scanner'[l] = scanner[l]
      /\ scanner'[k].at = "next"
  BY <1>1, OthersStay
<1>3. \A l \in Threads : Begun(l) => scanner[l].of # t
  BY <1>1 DEF BitsFollow
<1>4. \A l \in Threads : /\ l # k => (Begun(l)' <=> Begun(l))
                         /\ scanner'[l].at = "store" => l # k /\ scanner[l].at = "store" /\ Begun(l)
  BY <1>2 DEF Begun
<1>5. /\ \A u \in Tuners : (Watched(u) => Watched(u)') /\ (OpenFor(u) => OpenFor(u)')
      /\ \A u \in Tuners : u # t => (Awaited(u) => Awaited(u)')
  <2>1. ~Feeds(k)
    BY <1>1 DEF Feeds
  <2> QED
    BY <1>1, <2>1, ScanGoesOn
<1>6. /\ state'[t] = state[t] \cup {"scan"}
      /\ \A u \in Tuners : u # t => state'[u] = state[u]
  BY <1>1 DEF Stores
<1>7. \A u \in Tuners : /\ state'[u] \subseteq Bits
                        /\ "open" \in state'[u] => "open" \in state[u]
                        /\ "feed" \in state'[u] => "feed" \in state[u]
                        /\ "scan" \in state[u] => "scan" \in state'[u]
  BY <1>6 DEF BitsFollow, Bits
<1>8. \A u \in Tuners : /\ state'[u] \subseteq Bits
                        /\ "open" \in state'[u] => OpenFor(u)'
                        /\ "feed" \in state'[u] => Watched(u)'
  BY <1>5, <1>7 DEF BitsFollow
<1>9. main.at = "opened" => main.i # t
  BY <1>1 DEF IInv, Opening, Active
<1>10. \A l \in Threads : Begun(l)' =>
         /\ "scan" \in state'[scanner'[l].of]
         /\ main'.at = "opened" /\ scanner'[l].of = main'.i => "scan" \in reg'[0]
  <2> SUFFICES ASSUME NEW l \in Threads, Begun(l)'
               PROVE  /\ "scan" \in state'[scanner[l].of]
                      /\ main.at = "opened" /\ scanner[l].of = main.i => "scan" \in reg[0]
    BY <1>1, <1>2
  <2>1. CASE l = k
    BY <1>6, <1>9, <2>1
  <2>2. CASE l # k
    BY <1>0, <1>4, <1>7, <2>2 DEF BitsFollow
  <2> QED
    BY <2>1, <2>2
<1>11. \A l \in Threads, u \in Tuners : scanner'[l].at = "store" /\ scanner'[l].of = u =>
         /\ reg'[l] \subseteq {"scan", "open"}
         /\ "open" \in reg'[l] => Awaited(u)'
  BY <1>1, <1>2, <1>3, <1>4, <1>5 DEF BitsFollow
<1>12. \A l, m \in Threads : Begun(l)' /\ Begun(m)' /\ scanner'[l].of = scanner'[m].of => l = m
  BY <1>2, <1>3, <1>4 DEF BitsFollow
<1> QED
  BY <1>1, <1>8, <1>10, <1>11, <1>12 DEF BitsFollow

\* The bits that the end of a scan loads: there is no feed, and a frontend that is
\* open is that of the next scan.
LEMMA LoadBits ==
  ASSUME IInv, Stores, BitsFollow, NEW k \in Threads, Load(k)
  PROVE  BitsFollow'
<1> PICK t \in Tuners : t = scanner[k].of
  BY DEF IInv, Shapes
<1>1. /\ scanner[k].at = "load" /\ To(k, "store")
      /\ reg' = [reg EXCEPT ![k] = state[t]]
      /\ UNCHANGED <<main, state>>
  BY DEF Load, Scanning, Of, tunerVars
<1>2. /\ \A l \in Threads : scanner'[l].of = scanner[l].of
      /\ \A l \in Threads : l # k => scanner'[l] = scanner[l]
      /\ scanner'[k].at = "store"
  BY <1>1, OthersStay
<1>3. \A l \in Threads : Begun(l)' <=> Begun(l)
  BY <1>1, <1>2 DEF Begun
<1>4. ~Feeds(k) /\ ~Active(k) /\ Begun(k)
  BY <1>1 DEF Feeds, Active, Begun
<1>5. /\ \A u \in Tuners : (Watched(u) => Watched(u)') /\ (OpenFor(u) => OpenFor(u)')
      /\ \A u \in Tuners : Awaited(u) => Awaited(u)'
  BY <1>1, <1>4, ScanGoesOn
<1>6. k # 0 /\ 0 \notin Threads
  BY DEF Threads
<1>7. /\ reg'[k] = state[t] /\ reg'[0] = reg[0]
      /\ \A l \in Threads : l # k => reg'[l] = reg[l]
  BY <1>1, <1>6 DEF Stores
<1>8. "feed" \notin state[t]
  <2> SUFFICES ASSUME "feed" \in state[t] PROVE FALSE
    OBVIOUS
  <2>1. PICK l \in Threads : scanner[l].of = t /\ Feeds(l)
    BY DEF BitsFollow, Watched
  <2>2. Begun(l) /\ l # k
    BY <1>4, <2>1 DEF Begun, Feeds
  <2> QED
    BY <1>4, <2>1, <2>2 DEF BitsFollow
<1>9. "open" \in state[t] => Awaited(t)
  <2> SUFFICES ASSUME "open" \in state[t], ~Awaited(t) PROVE FALSE
    OBVIOUS
  <2>1. PICK l \in Threads : scanner[l].of = t /\ Active(l) /\ scanner[l].at # "created"
    BY DEF BitsFollow, OpenFor, Awaited
  <2>2. Begun(l) /\ l # k
    BY <1>4, <2>1 DEF Begun, Active
  <2> QED
    BY <1>4, <2>1, <2>2 DEF BitsFollow
<1>10. reg'[k] \subseteq {"scan", "open"}
  BY <1>7, <1>8 DEF BitsFollow, Bits
<1>11. \A u \in Tuners : /\ state'[u] \subseteq Bits
                         /\ "open" \in state'[u] => OpenFor(u)'
                         /\ "feed" \in state'[u] => Watched(u)'
  BY <1>1, <1>5 DEF BitsFollow
<1>12. \A l \in Threads : Begun(l)' =>
         /\ "scan" \in state'[scanner'[l].of]
         /\ main'.at = "opened" /\ scanner'[l].of = main'.i => "scan" \in reg'[0]
  BY <1>1, <1>2, <1>3, <1>7 DEF BitsFollow
<1>13. \A l \in Threads, u \in Tuners : scanner'[l].at = "store" /\ scanner'[l].of = u =>
         /\ reg'[l] \subseteq {"scan", "open"}
         /\ "open" \in reg'[l] => Awaited(u)'
  <2> SUFFICES ASSUME NEW l \in Threads, NEW u \in Tuners, scanner'[l].at = "store", scanner[l].of = u
               PROVE  /\ reg'[l] \subseteq {"scan", "open"}
                      /\ "open" \in reg'[l] => Awaited(u)'
    BY <1>2
  <2>1. CASE l = k
    BY <1>5, <1>7, <1>9, <1>10, <2>1
  <2>2. CASE l # k
    BY <1>2, <1>5, <1>7, <2>2 DEF BitsFollow
  <2> QED
    BY <2>1, <2>2
<1>14. \A l, m \in Threads : Begun(l)' /\ Begun(m)' /\ scanner'[l].of = scanner'[m].of => l = m
  BY <1>2, <1>3 DEF BitsFollow
<1> QED
  BY <1>1, <1>7, <1>11, <1>12, <1>13, <1>14 DEF BitsFollow

\* What it stores: nobody else of the tuner has changed the bits but start_scan().
LEMMA StoreBits ==
  ASSUME IInv, Stores, BitsFollow, NEW k \in Threads, Store(k)
  PROVE  BitsFollow'
<1> PICK t \in Tuners : t = scanner[k].of
  BY DEF IInv, Shapes
<1>0. \A l \in Threads : scanner[l].of \in Tuners
  BY DEF IInv, Shapes
<1>1. /\ scanner[k].at = "store" /\ To(k, "gone")
      /\ reg' = [reg EXCEPT ![k] = {}]
      /\ state' = [state EXCEPT ![t] = reg[k] \ {"scan"}]
      /\ UNCHANGED main
  BY DEF Store, Scanning, Of
<1>2. /\ \A l \in Threads : scanner'[l].of = scanner[l].of
      /\ \A l \in Threads : l # k => scanner'[l] = scanner[l]
      /\ scanner'[k].at = "gone"
  BY <1>1, OthersStay
<1>3. \A l \in Threads : /\ Begun(l)' => Begun(l) /\ l # k
                         /\ scanner'[l].at = "store" => scanner[l].at = "store" /\ l # k
  BY <1>2 DEF Begun
<1>4. ~Feeds(k) /\ ~Active(k) /\ Begun(k)
  BY <1>1 DEF Feeds, Active, Begun
<1>5. /\ \A u \in Tuners : (Watched(u) => Watched(u)') /\ (OpenFor(u) => OpenFor(u)')
      /\ \A u \in Tuners : Awaited(u) => Awaited(u)'
  BY <1>1, <1>4, ScanGoesOn
<1>6. k # 0 /\ 0 \notin Threads
  BY DEF Threads
<1>7. /\ reg'[0] = reg[0]
      /\ \A l \in Threads : l # k => reg'[l] = reg[l]
      /\ state'[t] = reg[k] \ {"scan"}
      /\ \A u \in Tuners : u # t => state'[u] = state[u]
  BY <1>1, <1>6 DEF Stores
<1>8. /\ reg[k] \subseteq {"scan", "open"}
      /\ "open" \in reg[k] => Awaited(t)
  BY <1>1 DEF BitsFollow
<1>9. Awaited(t) => OpenFor(t)
  BY DEF Awaited, OpenFor, Active
<1>10. \A u \in Tuners : /\ state'[u] \subseteq Bits
                         /\ "open" \in state'[u] => OpenFor(u)'
                         /\ "feed" \in state'[u] => Watched(u)'
  <2> SUFFICES ASSUME NEW u \in Tuners
               PROVE  /\ state'[u] \subseteq Bits
                      /\ "open" \in state'[u] => OpenFor(u)'
                      /\ "feed" \in state'[u] => Watched(u)'
    OBVIOUS
  <2>1. CASE u = t
    BY <1>5, <1>7, <1>8, <1>9, <2>1 DEF Bits
  <2>2. CASE u # t
    BY <1>5, <1>7, <2>2 DEF BitsFollow
  <2> QED
    BY <2>1, <2>2
<1>11. \A l \in Threads : Begun(l)' => scanner[l].of # t /\ Begun(l)
  BY <1>3, <1>4 DEF BitsFollow
<1>12. \A l \in Threads : Begun(l)' =>
         /\ "scan" \in state'[scanner'[l].of]
         /\ main'.at = "opened" /\ scanner'[l].of = main'.i => "scan" \in reg'[0]
  BY <1>0, <1>1, <1>2, <1>7, <1>11 DEF BitsFollow
<1>13. \A l \in Threads, u \in Tuners : scanner'[l].at = "store" /\ scanner'[l].of = u =>
         /\ reg'[l] \subseteq {"scan", "open"}
         /\ "open" \in reg'[l] => Awaited(u)'
  BY <1>2, <1>3, <1>5, <1>7 DEF BitsFollow
<1>14. \A l, m \in Threads : Begun(l)' /\ Begun(m)' /\ scanner'[l].of = scanner'[m].of => l = m
  BY <1>2, <1>3 DEF BitsFollow
<1> QED
  BY <1>1, <1>7, <1>10, <1>12, <1>13, <1>14 DEF BitsFollow

LEMMA ScanBits ==
  ASSUME IInv, Stores, BitsFollow, NEW k \in Threads, Scan(k), ~ScanRunsAlready(k)
  PROVE  BitsFollow'
<1> PICK t \in Tuners : t = scanner[k].of
  BY DEF IInv, Shapes
<1>0. /\ Of(k) = t /\ state[t] \subseteq Bits
      /\ "open" \in state[t] => OpenFor(t)
      /\ "feed" \in state[t] => Watched(t)
  BY DEF Of, BitsFollow
<1>1. CASE Skip(k) \/ Miss(k) \/ StopFeed(k) \/ Complete(k)
  <2>1. PICK at \in {"next", "stopping", "load"} :
          /\ To(k, at) \/ (at = "next" /\ Done(k))
          /\ Begun(k) /\ Feeds(k) => at = "stopping"
          /\ Active(k) => at # "load"
    BY <1>1 DEF Skip, Miss, StopFeed, Complete, Scanning, Begun, Feeds, Active
  <2>2. UNCHANGED <<main, reg, state>> /\ Begun(k)
    BY <1>1 DEF Skip, Miss, StopFeed, Complete, tunerVars, Scanning, Begun
  <2>3. (Watched(t) => Watched(t)') /\ (OpenFor(t) => OpenFor(t)')
    BY <2>1, <2>2, ScanGoesOn
  <2> QED
    BY <1>0, <2>1, <2>2, <2>3, WorkBits
<1>2. CASE Tune(k)
  <2>1. /\ To(k, "watch") /\ Begun(k) /\ UNCHANGED <<main, reg>>
        /\ state' = [state EXCEPT ![t] = @ \cup {"feed"}]
    BY <1>0, <1>2 DEF Tune, Scanning, Begun
  <2>2. /\ state'[t] = state[t] \cup {"feed"}
        /\ \A u \in Tuners : u # t => state'[u] = state[u]
    BY <2>1 DEF Stores
  <2>3. (OpenFor(t) => OpenFor(t)') /\ Watched(t)'
    <3>1. scanner'[k].of = t /\ scanner'[k].at = "watch"
      BY <2>1, OthersStay
    <3>2. Watched(t)'
      BY <3>1 DEF Watched, Feeds
    <3> QED
      BY <2>1, <3>2, ScanGoesOn
  <2>4. state'[t] \subseteq Bits /\ ("open" \in state'[t] => OpenFor(t)')
    BY <1>0, <2>2, <2>3 DEF Bits
  <2> QED
    BY <2>1, <2>2, <2>3, <2>4, WorkBits
<1>3. CASE FeedStopped(k)
  <2>1. /\ Done(k) /\ Begun(k) /\ UNCHANGED <<main, reg>>
        /\ state' = [state EXCEPT ![t] = @ \ {"feed"}]
    BY <1>0, <1>3 DEF FeedStopped, CloseAndNote, Scanning, Begun
  <2>2. /\ state'[t] = state[t] \ {"feed"}
        /\ \A u \in Tuners : u # t => state'[u] = state[u]
    BY <2>1 DEF Stores
  <2>3. OpenFor(t) => OpenFor(t)'
    BY <2>1, ScanGoesOn
  <2>4. state'[t] \subseteq Bits /\ ("open" \in state'[t] => OpenFor(t)')
    BY <1>0, <2>2, <2>3
  <2> QED
    BY <2>1, <2>2, <2>4, WorkBits
<1>4. CASE CloseFe(k)
  <2>1. /\ To(k, "complete") /\ scanner[k].at = "next" /\ UNCHANGED <<main, reg>>
        /\ state' = [state EXCEPT ![t] = @ \ {"open"}]
    BY <1>0, <1>4 DEF CloseFe, Scanning
  <2>2. /\ state'[t] = state[t] \ {"open"}
        /\ \A u \in Tuners : u # t => state'[u] = state[u]
    BY <2>1 DEF Stores
  <2>3. Begun(k) /\ ~Feeds(k)
    BY <2>1 DEF Begun, Feeds
  <2>4. Watched(t) => Watched(t)'
    BY <2>1, <2>3, ScanGoesOn
  <2>5. state'[t] \subseteq Bits /\ ("feed" \in state'[t] => Watched(t)')
    BY <1>0, <2>2, <2>4
  <2> QED
    BY <2>1, <2>2, <2>3, <2>5, WorkBits
<1> QED
  BY <1>1, <1>2, <1>3, <1>4, BeginBits, LoadBits, StoreBits DEF Scan

LEMMA ReaderBits ==
  ASSUME BitsFollow, NEW t \in Tuners, Read(t) \/ Reader(t)
  PROVE  BitsFollow'
<1>1. UNCHANGED <<main, scanner, state, reg>>
  BY DEF Read, Reader, Push, ReaderEnds, tunerVars
<1> QED
  BY <1>1 DEF BitsFollow, Watched, OpenFor, Awaited, Begun, Feeds, Active

-----------------------------------------------------------------------------
(* The channels.                                                           *)

\* A list begins with the thread that start_scan() creates in the first pass.
LEMMA MainCovers ==
  ASSUME IInv, Stores, Covered, Main, ~OpenFails
  PROVE  Covered'
<1>0. main.i \in Tuners /\ DOMAIN main = {"at", "pass", "i"} /\ main.pass \in Nat
  BY DEF IInv, Shapes, Stores
<1>1. UNCHANGED <<channels, tried, method>>
  BY DEF Main, Wait, OpenFails, Open, Opened, StartScan, FinalWait
<1>2. \A l \in Threads : scanner[l].at # "none" => scanner'[l] = scanner[l]
  BY MainGoesOn
<1>3. \A l \in Threads : Feeds(l)' => scanner[l].at # "none"
  <2>1. CASE StartScan
    BY <2>1, Spawned DEF StartScan, Feeds
  <2>2. CASE ~StartScan
    BY <2>2 DEF Main, Wait, OpenFails, Open, Opened, FinalWait, Feeds
  <2> QED
    BY <2>1, <2>2
<1>4. \A l \in Threads : Feeds(l)' => Channel(l)' \in tried
  <2> SUFFICES ASSUME NEW l \in Threads, Feeds(l)' PROVE Channel(l)' \in tried
    OBVIOUS
  <2>1. Feeds(l) /\ scanner'[l] = scanner[l]
    BY <1>2, <1>3 DEF Feeds
  <2>2. Channel(l)' = Channel(l)
    BY <2>1 DEF Channel
  <2> QED
    BY <2>1, <2>2 DEF Covered
<1>5. \A t \in Tuners : List(t, 0)' = List(t, 0)
  BY <1>1 DEF List
<1>6. ASSUME NEW t \in Tuners, Started(t)', NEW c \in List(t, 0), c \notin tried
      PROVE  \E k \in Threads : scanner'[k].of = t /\ Active(k)' /\ c \in scanner'[k].left
  <2>1. CASE Started(t)
    <3>1. PICK k \in Threads : scanner[k].of = t /\ Active(k) /\ c \in scanner[k].left
      BY <1>6, <2>1 DEF Covered
    <3>2. scanner'[k] = scanner[k] /\ Active(k)'
      BY <1>2, <3>1 DEF Active
    <3> QED
      BY <3>1, <3>2
  <2>2. CASE ~Started(t)
    <3>1. StartScan /\ t = main.i
      <4>1. CASE Wait \/ Open \/ Opened
        <5>1. main'.at \in {"open", "opened", "spawn"} /\ main'.i = main.i /\ main'.pass = main.pass
          BY <1>0, <4>1 DEF Wait, Open, Opened, MainTo
        <5> QED
          BY <1>6, <2>2, <5>1 DEF Started
      <4>2. CASE FinalWait
        BY <2>2, <4>2 DEF FinalWait, Started
      <4>3. CASE StartScan
        <5>1. main.at = "spawn" /\ NextTuner
          BY <4>3 DEF StartScan
        <5> QED
          BY <1>6, <2>2, <4>3, <5>1, NextTunerStarts
      <4> QED
        BY <4>1, <4>2, <4>3 DEF Main
    <3>2. main.pass = 0
      BY <1>0, <2>2 DEF Started
    <3>3. PICK k \in Threads : /\ scanner'[k].at = "created" /\ scanner'[k].of = main.i
                               /\ scanner'[k].left = List(main.i, main.pass)
      BY <3>1, Spawned DEF StartScan
    <3> QED
      BY <1>6, <3>1, <3>2, <3>3 DEF Active
  <2> QED
    BY <2>1, <2>2
<1> QED
  BY <1>1, <1>4, <1>5, <1>6 DEF Covered

LEMMA ScanCovers ==
  ASSUME IInv, Stores, Covered, NEW k \in Threads, Scan(k), ~ScanRunsAlready(k)
  PROVE  Covered'
<1>0. UNCHANGED <<main, method>>
  BY DEF Scan, ScanBegins, Skip, Miss, Tune, StopFeed, FeedStopped,
         CloseAndNote, CloseFe, Complete, Load, Store
<1>1. PICK at \in {"next", "watch", "stopping", "complete", "load", "store", "gone"} :
        /\ To(k, at) \/ (at = "next" /\ Done(k))
        /\ ~To(k, at) => Channel(k) \in tried'
        /\ at \in {"watch", "stopping"} => To(k, at) /\ Channel(k) \in tried'
        /\ Active(k) => at \in {"next", "watch", "stopping"} \/ scanner[k].left = {}
  <2>1. Feeds(k) => Channel(k) \in tried
    BY DEF Covered
  <2> QED
    BY <2>1 DEF Covered, Scan, ScanBegins, Skip, Miss, Tune, StopFeed, FeedStopped,
         CloseAndNote, CloseFe, Complete, Load, Store, Scanning, Active, Feeds
<1>2. /\ tried \subseteq tried'
      /\ DOMAIN channels' \subseteq tried'
  <2>1. Feeds(k) => Channel(k) \in tried
    BY DEF Covered
  <2> QED
    BY <2>1 DEF Covered, Scan, ScanBegins, Skip, Miss, Tune, StopFeed, FeedStopped,
         CloseAndNote, CloseFe, Complete, Load, Store, Scanning, Feeds
<1>3. /\ \A l \in Threads : scanner'[l].of = scanner[l].of
      /\ \A l \in Threads : l # k => scanner'[l] = scanner[l]
      /\ scanner'[k].at = at
      /\ scanner'[k].left = IF To(k, at) THEN scanner[k].left
                            ELSE scanner[k].left \ {Channel(k)}
  BY <1>1, OthersStay
<1>4. ASSUME NEW l \in Threads, Feeds(l)' PROVE Channel(l)' \in tried'
  <2>1. CASE l = k
    <3>1. scanner'[l].left = scanner[l].left /\ Channel(k) \in tried'
      BY <1>1, <1>3, <1>4, <2>1 DEF Feeds
    <3>2. Channel(l)' = Channel(l)
      BY <3>1 DEF Channel
    <3> QED
      BY <2>1, <3>1, <3>2
  <2>2. CASE l # k
    <3>1. scanner'[l] = scanner[l] /\ Feeds(l)
      BY <1>3, <1>4, <2>2 DEF Feeds
    <3>2. Channel(l)' = Channel(l)
      BY <3>1 DEF Channel
    <3> QED
      BY <1>2, <3>1, <3>2 DEF Covered
  <2> QED
    BY <2>1, <2>2
<1>5. \A t \in Tuners : (Started(t)' <=> Started(t)) /\ List(t, 0)' = List(t, 0)
  BY <1>0 DEF Started, List
<1>6. ASSUME NEW t \in Tuners, Started(t), NEW c \in List(t, 0), c \notin tried'
      PROVE  \E l \in Threads : scanner'[l].of = t /\ Active(l)' /\ c \in scanner'[l].left
  <2>1. PICK l \in Threads : scanner[l].of = t /\ Active(l) /\ c \in scanner[l].left
    BY <1>2, <1>6 DEF Covered
  <2>2. CASE l = k
    <3>1. at \in {"next", "watch", "stopping"}
      BY <1>1, <2>1, <2>2
    <3>2. c \in scanner'[k].left
      BY <1>1, <1>3, <1>6, <2>1, <2>2
    <3> QED
      BY <1>3, <2>1, <2>2, <3>1, <3>2 DEF Active
  <2>3. CASE l # k
    BY <1>3, <2>1, <2>3 DEF Active
  <2> QED
    BY <2>2, <2>3
<1> QED
  BY <1>2, <1>4, <1>5, <1>6 DEF Covered

LEMMA ReaderCovers ==
  ASSUME Covered, NEW t \in Tuners, Read(t) \/ Reader(t)
  PROVE  Covered'
<1>1. UNCHANGED <<main, scanner, channels, tried, method>>
  BY DEF Read, Reader, Push, ReaderEnds
<1>2. DOMAIN channels' \subseteq tried'
  BY <1>1 DEF Covered
<1>3. \A k \in Threads : Feeds(k)' => Channel(k)' \in tried'
  BY <1>1 DEF Covered, Feeds, Channel
<1>4. \A u \in Tuners : Started(u)' => \A c \in List(u, 0)' :
        c \in tried' \/ \E k \in Threads : scanner'[k].of = u /\ Active(k)' /\ c \in scanner'[k].left
  <2>1. \A u \in Tuners : List(u, 0)' = List(u, 0) /\ (Started(u)' => Started(u))
    BY <1>1 DEF List, Started
  <2>2. \A k \in Threads : Active(k) => Active(k)'
    BY <1>1 DEF Active
  <2> HIDE DEF List, Started, Active
  <2> QED
    BY <1>1, <2>1, <2>2 DEF Covered
<1> QED
  BY <1>2, <1>3, <1>4 DEF Covered

-----------------------------------------------------------------------------
\* A quotient is the greatest number that the divisor takes that often.
LEMMA Quotient ==
  ASSUME NEW a \in Nat, NEW b \in Nat \ {0}
  PROVE  /\ a \div b \in Nat
         /\ b * (a \div b) <= a
         /\ a < b * (a \div b) + b
OBVIOUS

LEMMA QuotientBelow ==
  ASSUME NEW a \in Nat, NEW b \in Nat \ {0}, NEW d \in Nat
  PROVE  /\ a <= b * d => a \div b <= d
         /\ b * d <= a => d <= a \div b
OBVIOUS

\* The parts that a method divides the channels into leave out none of them.
LEMMA PartsCover ==
  ASSUME NEW c \in ScanMin .. ScanMax
  PROVE  \E t \in Tuners : c \in List(t, 0)
<1>0. NumTuners \in Nat \ {0} /\ ScanMin \in Nat /\ ScanMax \in Nat /\ ScanMin <= ScanMax
  BY ScanAssumption
<1> DEFINE n == NumTuners
           d == c - ScanMin
           t == (n * d) \div Count
<1>1. Count \in Nat \ {0} /\ d \in Nat /\ d < Count
  BY <1>0 DEF Count
<1>2. n * d \in Nat /\ t \in Nat /\ Count * t <= n * d /\ n * d < Count * t + Count
  BY <1>0, <1>1, Quotient
<1> HIDE DEF t, d, Count
<1>3. t < n
  <2> SUFFICES ASSUME n <= t PROVE FALSE
    BY <1>0, <1>2
  <2>1. Count * n <= Count * t
    BY <1>0, <1>1, <1>2
  <2>2. n * d < n * Count
    BY <1>0, <1>1
  <2> QED
    BY <1>0, <1>1, <1>2, <2>1, <2>2
<1>4. t \in Tuners /\ (t + 0) % NumTuners = t
  BY <1>0, <1>2, <1>3 DEF Tuners
<1>5. (t * Count) \div n <= d
  BY <1>0, <1>1, <1>2, QuotientBelow
<1>6. d <= ((1 + t) * Count) \div n
  <2>1. (1 + t) * Count \in Nat /\ n * d <= (1 + t) * Count
    BY <1>0, <1>1, <1>2
  <2> QED
    BY <1>0, <1>1, <2>1, QuotientBelow
<1>7. /\ (t * Count) \div n \in Int /\ ((1 + t) * Count) \div n \in Int
  BY <1>0, <1>1, <1>2
<1>8. c \in Part(t)
  BY <1>0, <1>5, <1>6, <1>7 DEF Part, d
<1> QED
  BY <1>4, <1>8 DEF List

-----------------------------------------------------------------------------
LEMMA StepLeaves == IInv /\ Leaves /\ [Next]_vars => Leaves'
<1> SUFFICES ASSUME IInv, Leaves, [Next]_vars PROVE Leaves'
  OBVIOUS
<1>1. Stores' /\ InTurn'
  BY StepStores, StepInTurn DEF Leaves
<1>2. ASSUME ~spoilt' PROVE Held' /\ BitsFollow' /\ Covered'
  <2>1. CASE Main
    <3>1. ~OpenFails /\ ~spoilt
      BY <1>2, <2>1 DEF Main, Wait, OpenFails, Open, Opened, StartScan, FinalWait
    <3> QED
      BY <2>1, <3>1, MainHeld, MainBits, MainCovers DEF Leaves
  <2>2. ASSUME NEW k \in Threads, Scan(k) PROVE Held' /\ BitsFollow' /\ Covered'
    <3>1. ~ScanRunsAlready(k) /\ ~spoilt
      BY <1>2, <2>2 DEF Scan, ScanRunsAlready, ScanBegins, Skip, Miss, Tune, StopFeed, FeedStopped,
           CloseAndNote, CloseFe, Complete, Load, Store
    <3> QED
      BY <2>2, <3>1, ScanHeld, ScanBits, ScanCovers DEF Leaves
  <2>3. ASSUME NEW t \in Tuners, Read(t) \/ Reader(t) PROVE Held' /\ BitsFollow' /\ Covered'
    <3>1. ~spoilt
      BY <1>2, <2>3 DEF Read, Reader, Push, ReaderEnds
    <3> QED
      BY <2>3, <3>1, ReaderHeld, ReaderBits, ReaderCovers DEF Leaves
  <2>4. CASE UNCHANGED vars
    <3>1. ~spoilt /\ UNCHANGED vars
      BY <1>2, <2>4 DEF vars
    <3>2. UNCHANGED <<fe_fd, state, scan_complete, feed, channels, scanner, main, method, reg, tried>>
      BY <2>4 DEF vars, tunerVars, feedVars
    <3>3. Held'
      BY <3>1, <3>2 DEF Leaves, Held, Watched, OpenFor, Feeds, Active
    <3>4. BitsFollow'
      BY <3>1, <3>2 DEF Leaves, BitsFollow, Watched, OpenFor, Awaited, Begun, Feeds, Active
    <3>5. Covered'
      BY <3>1, <3>2 DEF Leaves, Covered, Feeds, Active, Channel, Started, List
    <3> QED
      BY <3>3, <3>4, <3>5
  <2> QED
    BY <2>1, <2>2, <2>3, <2>4 DEF Next
<1> QED
  BY <1>1, <1>2 DEF Leaves

LEMMA LeavesNothing == IInv /\ Leaves => ScanLeavesNothing
<1> SUFFICES ASSUME IInv, Leaves, main.at = "done", ~spoilt
             PROVE  /\ ScanMin .. ScanMax \subseteq tried
                    /\ \A t \in Tuners : ~fe_fd[t] /\ ~demux_fd[t] /\ ~feed[t].fd /\ state[t] \subseteq {"scan"}
  BY DEF ScanLeavesNothing
<1>1. \A k \in Threads : ~Active(k) /\ ~Feeds(k)
  <2>1. \A k \in Threads : ~Unfinished(k)
    BY DEF Leaves, InTurn, IInv, Shapes
  <2> QED
    BY <2>1 DEF Unfinished, Active, Feeds
<1>2. \A t \in Tuners : Started(t) /\ ~OpenFor(t) /\ ~Watched(t)
  BY <1>1 DEF Started, OpenFor, Watched
<1>3. ScanMin .. ScanMax \subseteq tried
  <2> SUFFICES ASSUME NEW c \in ScanMin .. ScanMax PROVE c \in tried
    OBVIOUS
  <2>1. PICK t \in Tuners : c \in List(t, 0)
    BY PartsCover
  <2> QED
    BY <1>1, <1>2, <2>1 DEF Leaves, Covered
<1>4. ASSUME NEW t \in Tuners
      PROVE  ~fe_fd[t] /\ ~demux_fd[t] /\ ~feed[t].fd /\ state[t] \subseteq {"scan"}
  <2>1. ~fe_fd[t] /\ ~feed[t].fd
    BY <1>2 DEF Leaves, Held
  <2>2. ~demux_fd[t]
    BY <1>1 DEF IInv, Fed
  <2>3. state[t] \subseteq {"scan"}
    BY <1>2 DEF Leaves, BitsFollow, Bits
  <2> QED
    BY <2>1, <2>2, <2>3
<1> QED
  BY <1>3, <1>4

\* When multiscan is done, and each of its scans started, every channel was tuned
\* to and every tuner is closed, however many tuners divide the channels and in
\* whatever order their threads end; the bit of its scan is all that a tuner may
\* have left.
THEOREM ScansLeaveNothing == Spec => []ScanLeavesNothing
<1> QED
  BY InitIInv, StepIInv, InitLeaves, StepLeaves, LeavesNothing, PTL DEF Spec
=============================================================================
