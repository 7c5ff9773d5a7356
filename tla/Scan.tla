-------------------------------- MODULE Scan --------------------------------
(***************************************************************************)
(* The scan for services: class tune (src/libdvbtee/tune.cpp), what it     *)
(* uses of linuxtv_tuner (src/libdvbtee/linuxtv_tuner.cpp), and multiscan  *)
(* (src/dvbtee/dvbtee.cpp), which scans with all tuners.                   *)
(*                                                                         *)
(* The main thread starts a scan on each tuner, in one or more passes, and *)
(* waits.  A scan is a thread that tunes to the channels of its list one   *)
(* by one, lets the feed run for a while and notes which transport stream  *)
(* the parser found there, in a map that all tuners share.  The bits of a  *)
(* tuner's state are read, changed and written back by both threads.       *)
(*                                                                         *)
(* External: the device may refuse, there may be no signal and no PAT.  A  *)
(* feed is reduced to the thread that reads the dvr device (Feed has the   *)
(* rest).  The stream of a channel has the channel's number.  stop_scan(), *)
(* which nothing in the repository calls, is left out, and so is the bit   *)
(* TUNE_STATE_LOCK, which is only displayed.                               *)
(***************************************************************************)
EXTENDS Integers, FiniteSets

CONSTANTS
  NumTuners,
  ScanMin, ScanMax,  \* the channels asked for
  Methods            \* the methods that are tried, among AllMethods

AllMethods == {"speed", "redundancy", "both", "partial"}

ASSUME ScanAssumption ==
  /\ NumTuners \in Nat \ {0}
  /\ ScanMin \in Nat \ {0} /\ ScanMax \in Nat /\ ScanMin <= ScanMax
  /\ Methods \subseteq AllMethods

VARIABLES
  fe_fd, state, scan_complete,  \* of each tuner
  cur_chan,    \* the channel the frontend is tuned to
  demux_fd,    \* the demux, open while there is a feed
  feed,        \* the reading thread of each tuner
  ts_id,       \* the stream the parser of each tuner has a PAT of
  channels,    \* what was found on each channel that was scanned
  scanner,     \* the scanning threads: tuner, where, channels left
  main,        \* where multiscan is
  method,      \* its scan_method
  reg,         \* state as loaded by the main thread, and by each scanner
  tried,       \* history: the channels tuned to
  spoilt       \* history: a scan did not start, or its thread ended at once

tunerVars == <<fe_fd, state, cur_chan>>
feedVars == <<demux_fd, feed, ts_id>>
vars == <<tunerVars, scan_complete, feedVars, channels, scanner, main, method, reg, tried, spoilt>>

Tuners == 0 .. NumTuners - 1
None == 0

\* The passes of a method and the channels of tuner i in pass j.
Passes ==
  CASE method = "both" -> NumTuners
    [] method = "partial" -> IF NumTuners > 2 THEN 2 ELSE NumTuners
    [] OTHER -> 1
Count == ScanMax - ScanMin + 1
\* Each part ends at the channel the next one begins with.
Part(i) == ScanMin + (i * Count) \div NumTuners .. ScanMin + ((1 + i) * Count) \div NumTuners
List(i, j) == IF method = "redundancy" THEN ScanMin .. ScanMax ELSE Part((i + j) % NumTuners)

AllChannels == ScanMin .. ScanMax + 1
Threads == 1 .. NumTuners * NumTuners
Unborn == {k \in Threads : scanner[k].at = "none"}

-----------------------------------------------------------------------------
Init ==
  /\ fe_fd = [t \in Tuners |-> FALSE]
  /\ state = [t \in Tuners |-> {}]
  /\ scan_complete = [t \in Tuners |-> FALSE]
  /\ cur_chan = [t \in Tuners |-> None]
  /\ demux_fd = [t \in Tuners |-> FALSE]
  /\ feed = [t \in Tuners |-> [at |-> "none", kill |-> FALSE, fd |-> FALSE, held |-> None]]
  /\ ts_id = [t \in Tuners |-> None]
  /\ channels = <<>>
  /\ scanner = [k \in Threads |-> [at |-> "none", of |-> 0, left |-> {}]]
  /\ method \in Methods
  /\ main = [at |-> "wait", pass |-> 0, i |-> 0]
  /\ reg = [k \in Threads \cup {0} |-> {}]
  /\ tried = {}
  /\ spoilt = FALSE

-----------------------------------------------------------------------------
(* multiscan and start_scan, on tuner main.i                               *)

MainTo(at) == main' = [main EXCEPT !.at = at]

\* The next tuner, the next pass, or the wait for all.
NextTuner ==
  main' = IF main.i + 1 < NumTuners THEN [main EXCEPT !.at = "wait", !.i = @ + 1]
          ELSE IF main.pass + 1 < Passes THEN [at |-> "wait", pass |-> main.pass + 1, i |-> 0]
          ELSE [main EXCEPT !.at = "final", !.i = 0]

\* wait_for_scan_complete(), not in the first pass
Wait ==
  /\ main.at = "wait"
  /\ main.pass > 0 => scan_complete[main.i]
  /\ MainTo("open")
  /\ UNCHANGED <<tunerVars, scan_complete, feedVars, channels, scanner, method, reg, tried, spoilt>>

\* open_fe(): the frontend is open already or refuses; multiscan does not look
\* at what start_scan() returns.
OpenFails ==
  /\ main.at = "open"
  /\ spoilt' = TRUE
  /\ NextTuner
  /\ UNCHANGED <<tunerVars, scan_complete, feedVars, channels, scanner, method, reg, tried>>

\* open_fe() opens the device and loads state ...
Open ==
  /\ main.at = "open"
  /\ ~fe_fd[main.i] /\ "open" \notin state[main.i]
  /\ fe_fd' = [fe_fd EXCEPT ![main.i] = TRUE]
  /\ reg' = [reg EXCEPT ![0] = state[main.i]]
  /\ MainTo("opened")
  /\ UNCHANGED <<state, cur_chan, scan_complete, feedVars, channels, scanner, method, tried, spoilt>>

\* ... and stores it with TUNE_STATE_OPEN.
Opened ==
  /\ main.at = "opened"
  /\ state' = [state EXCEPT ![main.i] = reg[0] \cup {"open"}]
  /\ reg' = [reg EXCEPT ![0] = {}]
  /\ MainTo("spawn")
  /\ UNCHANGED <<fe_fd, cur_chan, scan_complete, feedVars, channels, scanner, method, tried, spoilt>>

\* A thread for the channels of main.i in this pass; there is always one left.
Spawn ==
  \E k \in Unborn :
    /\ \A l \in Unborn : k <= l
    /\ scanner' = [scanner EXCEPT ![k] =
                     [at |-> "created", of |-> main.i, left |-> List(main.i, main.pass)]]

\* Mutant: scan_complete stays as the last scan left it.
StartScan_KeepsComplete ==
  /\ main.at = "spawn"
  /\ Spawn
  /\ NextTuner
  /\ UNCHANGED <<tunerVars, scan_complete, feedVars, channels, method, reg, tried, spoilt>>

StartScan ==
  /\ main.at = "spawn"
  /\ scan_complete' = [scan_complete EXCEPT ![main.i] = FALSE]
  /\ Spawn
  /\ NextTuner
  /\ UNCHANGED <<tunerVars, feedVars, channels, method, reg, tried, spoilt>>

FinalWait ==
  /\ main.at = "final"
  /\ scan_complete[main.i]
  /\ main' = IF main.i + 1 < NumTuners THEN [main EXCEPT !.i = @ + 1] ELSE [main EXCEPT !.at = "done"]
  /\ UNCHANGED <<tunerVars, scan_complete, feedVars, channels, scanner, method, reg, tried, spoilt>>

-----------------------------------------------------------------------------
(* scan_thread k on its tuner                                              *)

Of(k) == scanner[k].of
Scanning(k, at) == scanner[k].at = at
To(k, at) == scanner' = [scanner EXCEPT ![k].at = at]

\* The channel it is at: the lowest that is left.
Channel(k) == CHOOSE c \in scanner[k].left : \A e \in scanner[k].left : c <= e
Done(k) == scanner' = [scanner EXCEPT ![k].at = "next", ![k].left = @ \ {Channel(k)}]

\* Another scan has not cleared its bit: the thread ends and has scanned
\* nothing.
ScanRunsAlready(k) ==
  /\ Scanning(k, "created") /\ "scan" \in state[Of(k)]
  /\ spoilt' = TRUE
  /\ To(k, "gone")
  /\ UNCHANGED <<tunerVars, scan_complete, feedVars, channels, main, method, reg, tried>>

ScanBegins(k) ==
  /\ Scanning(k, "created") /\ "scan" \notin state[Of(k)]
  /\ state' = [state EXCEPT ![Of(k)] = @ \cup {"scan"}]
  /\ To(k, "next")
  /\ UNCHANGED <<fe_fd, cur_chan, scan_complete, feedVars, channels, main, method, reg, tried, spoilt>>

\* "ALREADY SCANNED CHANNEL"
Skip(k) ==
  /\ Scanning(k, "next") /\ scanner[k].left # {}
  /\ Channel(k) \in DOMAIN channels
  /\ Done(k)
  /\ UNCHANGED <<tunerVars, scan_complete, feedVars, channels, main, method, reg, tried, spoilt>>

\* tune_channel() tunes the frontend and resets the parser; then there is no
\* lock in time or start_feed() fails: the next channel.
Miss(k) ==
  LET t == Of(k)
  IN  /\ Scanning(k, "next") /\ scanner[k].left # {}
      /\ Channel(k) \notin DOMAIN channels
      /\ cur_chan' = [cur_chan EXCEPT ![t] = Channel(k)]
      /\ ts_id' = [ts_id EXCEPT ![t] = None]
      /\ tried' = tried \cup {Channel(k)}
      /\ Done(k)
      /\ UNCHANGED <<fe_fd, state, scan_complete, demux_fd, feed, channels, main, method, reg, spoilt>>

\* Mutant: tune_channel() does not reset the parser.
Tune_NoReset(k) ==
  LET t == Of(k)
  IN  /\ Scanning(k, "next") /\ scanner[k].left # {}
      /\ Channel(k) \notin DOMAIN channels
      /\ ~demux_fd[t]
      /\ cur_chan' = [cur_chan EXCEPT ![t] = Channel(k)]
      /\ tried' = tried \cup {Channel(k)}
      /\ demux_fd' = [demux_fd EXCEPT ![t] = TRUE]
      /\ feed' = [feed EXCEPT ![t] = [at |-> "loop", kill |-> FALSE, fd |-> TRUE, held |-> None]]
      /\ state' = [state EXCEPT ![t] = @ \cup {"feed"}]
      /\ To(k, "watch")
      /\ UNCHANGED <<fe_fd, scan_complete, ts_id, channels, main, method, reg, spoilt>>

\* tune_channel(), a lock, and start_feed(): the reading thread begins.
Tune(k) ==
  LET t == Of(k)
  IN  /\ Scanning(k, "next") /\ scanner[k].left # {}
      /\ Channel(k) \notin DOMAIN channels
      /\ ~demux_fd[t]
      /\ cur_chan' = [cur_chan EXCEPT ![t] = Channel(k)]
      /\ ts_id' = [ts_id EXCEPT ![t] = None]
      /\ tried' = tried \cup {Channel(k)}
      /\ demux_fd' = [demux_fd EXCEPT ![t] = TRUE]
      /\ feed' = [feed EXCEPT ![t] = [at |-> "loop", kill |-> FALSE, fd |-> TRUE, held |-> None]]
      /\ state' = [state EXCEPT ![t] = @ \cup {"feed"}]
      /\ To(k, "watch")
      /\ UNCHANGED <<fe_fd, scan_complete, channels, main, method, reg, spoilt>>

\* The time is over, or psip is ready each time: feeder.stop() ...
StopFeed(k) ==
  /\ Scanning(k, "watch")
  /\ feed' = [feed EXCEPT ![Of(k)].kill = TRUE]
  /\ To(k, "stopping")
  /\ UNCHANGED <<tunerVars, scan_complete, demux_fd, ts_id, channels, main, method, reg, tried, spoilt>>

\* close_demux(), and the stream that was found is noted.
CloseAndNote(k) ==
  LET t == Of(k)
  IN  /\ state' = [state EXCEPT ![t] = @ \ {"feed"}]
      /\ demux_fd' = [demux_fd EXCEPT ![t] = FALSE]
      /\ cur_chan' = [cur_chan EXCEPT ![t] = None]
      /\ channels' = [c \in DOMAIN channels \cup {Channel(k)} |->
                        IF c = Channel(k) THEN ts_id[t] ELSE channels[c]]
      /\ Done(k)
      /\ UNCHANGED <<fe_fd, scan_complete, feed, ts_id, main, method, reg, tried, spoilt>>

\* Mutant: stop_feed() does not wait for the reading thread.
FeedStopped_NoWait(k) == Scanning(k, "stopping") /\ CloseAndNote(k)

\* ... waits until the reading thread has closed its descriptor.
FeedStopped(k) == Scanning(k, "stopping") /\ ~feed[Of(k)].fd /\ CloseAndNote(k)

\* The list is done: close_fe().
CloseFe(k) ==
  /\ Scanning(k, "next")
  /\ scanner[k].left = {}
  /\ fe_fd' = [fe_fd EXCEPT ![Of(k)] = FALSE]
  /\ state' = [state EXCEPT ![Of(k)] = @ \ {"open"}]
  /\ cur_chan' = [cur_chan EXCEPT ![Of(k)] = None]
  /\ demux_fd' = [demux_fd EXCEPT ![Of(k)] = FALSE]
  /\ To(k, "complete")
  /\ UNCHANGED <<scan_complete, feed, ts_id, channels, main, method, reg, tried, spoilt>>

\* scan_complete = true; then state is loaded ...
Complete(k) ==
  /\ Scanning(k, "complete")
  /\ scan_complete' = [scan_complete EXCEPT ![Of(k)] = TRUE]
  /\ To(k, "load")
  /\ UNCHANGED <<tunerVars, feedVars, channels, main, method, reg, tried, spoilt>>

Load(k) ==
  /\ Scanning(k, "load")
  /\ reg' = [reg EXCEPT ![k] = state[Of(k)]]
  /\ To(k, "store")
  /\ UNCHANGED <<tunerVars, scan_complete, feedVars, channels, main, method, tried, spoilt>>

\* ... and stored without TUNE_STATE_SCAN.
Store(k) ==
  /\ Scanning(k, "store")
  /\ state' = [state EXCEPT ![Of(k)] = reg[k] \ {"scan"}]
  /\ To(k, "gone")
  /\ reg' = [reg EXCEPT ![k] = {}]
  /\ UNCHANGED <<fe_fd, cur_chan, scan_complete, feedVars, channels, main, method, tried, spoilt>>

-----------------------------------------------------------------------------
(* The reading thread of tuner t, and the parser it feeds                  *)

\* Data of the channel comes, with a PAT ...
Read(t) ==
  /\ feed[t].at = "loop" /\ ~feed[t].kill /\ cur_chan[t] # None
  /\ feed' = [feed EXCEPT ![t].at = "push", ![t].held = cur_chan[t]]
  /\ UNCHANGED <<tunerVars, scan_complete, demux_fd, ts_id, channels, scanner, main, method, reg, tried, spoilt>>

\* ... and the parser takes the stream's id from it.
Push(t) ==
  /\ feed[t].at = "push"
  /\ feed' = [feed EXCEPT ![t].at = "loop", ![t].held = None]
  /\ ts_id' = [ts_id EXCEPT ![t] = feed[t].held]
  /\ UNCHANGED <<tunerVars, scan_complete, demux_fd, channels, scanner, main, method, reg, tried, spoilt>>

\* Mutant: the descriptor stays open.
ReaderEnds_KeepsFd(t) ==
  /\ feed[t].at = "loop" /\ feed[t].kill
  /\ feed' = [feed EXCEPT ![t].at = "none", ![t].held = None]
  /\ UNCHANGED <<tunerVars, scan_complete, demux_fd, ts_id, channels, scanner, main, method, reg, tried, spoilt>>

\* close_file()
ReaderEnds(t) ==
  /\ feed[t].at = "loop" /\ feed[t].kill
  /\ feed' = [feed EXCEPT ![t].at = "none", ![t].fd = FALSE, ![t].held = None]
  /\ UNCHANGED <<tunerVars, scan_complete, demux_fd, ts_id, channels, scanner, main, method, reg, tried, spoilt>>

-----------------------------------------------------------------------------
Main == Wait \/ OpenFails \/ Open \/ Opened \/ StartScan \/ FinalWait

Scan(k) ==
  \/ ScanRunsAlready(k) \/ ScanBegins(k) \/ Skip(k) \/ Miss(k) \/ Tune(k) \/ StopFeed(k)
  \/ FeedStopped(k) \/ CloseFe(k) \/ Complete(k) \/ Load(k) \/ Store(k)

Reader(t) == Push(t) \/ ReaderEnds(t)

Next ==
  \/ Main
  \/ \E k \in Threads : Scan(k)
  \/ \E t \in Tuners : Read(t) \/ Reader(t)

Spec == Init /\ [][Next]_vars

\* Threads run, and every wait in a scan has a time limit.  Data need not come.
FairSpec ==
  /\ Spec
  /\ WF_vars(Main)
  /\ \A k \in Threads : WF_vars(Scan(k))
  /\ \A t \in Tuners : WF_vars(Reader(t))

-----------------------------------------------------------------------------
(* Properties.                                                             *)

Bits == {"open", "scan", "feed"}

TypeOK ==
  /\ \A t \in Tuners :
       /\ state[t] \subseteq Bits
       /\ {fe_fd[t], scan_complete[t], demux_fd[t], feed[t].fd, feed[t].kill} \subseteq BOOLEAN
       /\ {cur_chan[t], ts_id[t], feed[t].held} \subseteq AllChannels \cup {None}
       /\ feed[t].at \in {"none", "loop", "push"}
  /\ DOMAIN channels \subseteq AllChannels
  /\ \A k \in Threads : scanner[k].of \in Tuners /\ scanner[k].left \subseteq AllChannels
  /\ main.at \in {"wait", "open", "opened", "spawn", "final", "done"}

\* A scan works on a frontend that is open, alone, and with it no older feed
\* passes anything on: of the threads of one tuner one is between its first
\* tune and its close_fe (tune.cpp:scan_thread).
Works(k) == scanner[k].at \in {"next", "watch", "stopping"}
OneScan ==
  \A k \in Threads : Works(k) =>
    /\ fe_fd[Of(k)]
    /\ \A l \in Threads : Works(l) /\ Of(l) = Of(k) => l = k
    /\ scanner[k].at = "next" => feed[Of(k)].at = "none" /\ ~demux_fd[Of(k)]

\* What is noted for a channel is the stream of that channel or nothing, never
\* that of the channel before: stop() has waited for the reading thread, and
\* the parser is reset after every tune (tune.cpp:140, 225-226).
NotedRight ==
  \A c \in DOMAIN channels : channels[c] \in {c, None}

\* When multiscan is done every channel that was asked for has been tuned to,
\* however the channels are divided among tuners and passes, and no tuner is left
\* open or fed: other programs and the server can use it (tune.cpp:237) - unless
\* a scan did not start.
ScanLeavesNothing ==
  main.at = "done" /\ ~spoilt =>
    /\ ScanMin .. ScanMax \subseteq tried
    /\ \A t \in Tuners : ~fe_fd[t] /\ ~demux_fd[t] /\ ~feed[t].fd /\ state[t] \subseteq {"scan"}

\* The usage text has a "scan maximum channel" (README.md:115): multiscan tunes
\* to no channel above it.
WithinRange == tried \subseteq ScanMin .. ScanMax

\* multiscan comes to its end, unless a scan did not start.
ScanEnds == <>(main.at = "done" \/ spoilt)
=============================================================================
