---------------------------- MODULE OutputStream ----------------------------
(***************************************************************************)
(* One output target: class output_stream of src/libdvbtee/output.cpp.     *)
(*                                                                         *)
(* Three kinds of thread meet in it.  The feeding thread push()es packets  *)
(* into the target's ring buffer; the target's own thread moves batches of *)
(* packets from the ring to a socket, a file or a callback; the thread of  *)
(* the command interpreter or of the server add()s, start()s, stop()s and  *)
(* destroys the target.  They share the flags f_kill_thread and            *)
(* f_streaming, which no lock protects, and the ring, which is the queue   *)
(* OverrunFifo specifies (RBuf implements it).  The target's thread keeps  *)
(* the ring's mutex while it stream()s.                                    *)
(*                                                                         *)
(* The unit of length is the 188-byte packet.                              *)
(***************************************************************************)
EXTENDS Integers, Sequences, FiniteSets

CONSTANTS
  Methods,     \* the kinds of target that are tried, among AllMethods
  Limit,       \* OUTPUT_STREAM_BUF_SIZE
  Batch,       \* OUTPUT_STREAM_PACKET_SIZE
  MaxPush,     \* longest buffer pushed
  MaxPackets,  \* bound: packets the feeder has to offer
  MaxStarts,   \* bound: threads that start() creates
  NoOne        \* the holder of a free ring mutex

\* How stream() treats its target: a datagram that cannot be sent is skipped;
\* any other error ends the target; an HTTP target sends a header first; a
\* callback target has no descriptor.
AllMethods == {"udp", "sock", "http", "func"}

ASSUME OutputStreamAssumption ==
  /\ Methods \subseteq AllMethods
  /\ Limit \in Nat \ {0} /\ Batch \in Nat \ {0}
  /\ MaxPush \in Nat \ {0} /\ MaxPackets \in Nat /\ MaxStarts \in Nat
  /\ NoOne \notin 1 .. MaxStarts

VARIABLES
  method,         \* stream_method
  sock,           \* is the descriptor open, as the object believes?
  f_kill_thread, f_streaming,
  queue, limit,   \* the ring buffer
  lock,           \* the ring's mutex, as far as it is kept during stream()
  th,             \* where each thread that start() created is
  window,         \* what get_read_ptr gave the thread
  ctl,            \* where the controlling thread is
  feeder,         \* where push() is
  left,           \* packets push() has still to store
  nextpkt,        \* the number of the feeder's next packet
  count_in, count_out,
  sent            \* history: the packets the target received

ringVars == <<queue, limit, lock>>
ctlVars == <<method, ctl>>
feedVars == <<feeder, left, nextpkt, count_in>>
vars == <<method, sock, f_kill_thread, f_streaming, queue, limit, lock, th, window,
          ctl, feeder, left, nextpkt, count_in, count_out, sent>>

Ring == INSTANCE OverrunFifo
          WITH Values <- 1 .. MaxPackets, Capacities <- {Limit}, MaxAsk <- MaxPush,
               asked <- <<>>  \* a push is one step here

StreamThreads == 1 .. MaxStarts
Least(a, b) == IF a <= b THEN a ELSE b
Numbers(first, n) == [i \in 1 .. n |-> first + i - 1]

is_streaming == ~f_kill_thread /\ f_streaming

-----------------------------------------------------------------------------
Init ==
  /\ method = "udp" /\ sock = FALSE
  /\ f_kill_thread = FALSE /\ f_streaming = FALSE
  /\ queue = <<>> /\ limit = 0 /\ lock = NoOne
  /\ th = [i \in StreamThreads |-> "none"]
  /\ window = [i \in StreamThreads |-> 0]
  /\ ctl = "new"
  /\ feeder = "idle" /\ left = 0 /\ nextpkt = 1
  /\ count_in = 0 /\ count_out = 0
  /\ sent = <<>>

-----------------------------------------------------------------------------
(* The controlling thread.                                                 *)

\* add(): the successful return of any of its forms.
AddTarget(m) ==
  /\ ctl = "new"
  /\ ctl' = "idle"
  /\ method' = m
  /\ sock' = (m # "func")
  /\ Ring!Clear
  /\ UNCHANGED <<f_kill_thread, f_streaming, lock, th, window, feedVars, count_out, sent>>

\* start() up to set_capacity(): it returns at once when the target streams
\* already or has no descriptor.
StartCheck ==
  /\ ctl = "idle"
  /\ ~f_streaming
  /\ sock \/ method = "func"
  /\ \E i \in StreamThreads : th[i] = "none"  \* bound
  /\ ctl' = "starting"
  /\ UNCHANGED <<method, sock, f_kill_thread, f_streaming, ringVars, th, window,
                 feedVars, count_out, sent>>

\* set_capacity() waits for the ring's mutex; then pthread_create().
StartSpawn ==
  LET i == CHOOSE j \in StreamThreads : th[j] = "none" /\ \A k \in 1 .. j - 1 : th[k] # "none"
  IN  /\ ctl = "starting"
      /\ lock = NoOne
      /\ Ring!Resize(Limit)
      /\ th' = [th EXCEPT ![i] = "created"]
      /\ ctl' = "idle"
      /\ UNCHANGED <<method, sock, f_kill_thread, f_streaming, lock, window, feedVars,
                     count_out, sent>>

\* stop(), and the destructor, which calls it: stop_without_wait(), then wait.
StopCall(caller) ==
  /\ ctl = "idle"
  /\ f_kill_thread' = TRUE
  /\ ctl' = caller
  /\ UNCHANGED <<method, sock, f_streaming, ringVars, th, window, feedVars, count_out, sent>>

\* Mutant: stop() does not wait.
StopReturn_NoWait ==
  /\ ctl \in {"stopping", "deleting"}
  /\ ctl' = IF ctl = "stopping" THEN "stopped" ELSE "deleted"
  /\ UNCHANGED <<method, sock, f_kill_thread, f_streaming, ringVars, th, window, feedVars,
                 count_out, sent>>

\* The wait in stop() ends; after the destructor the object is gone.
StopReturn ==
  /\ ctl \in {"stopping", "deleting"}
  /\ ~f_streaming
  /\ ctl' = IF ctl = "stopping" THEN "stopped" ELSE "deleted"
  /\ UNCHANGED <<method, sock, f_kill_thread, f_streaming, ringVars, th, window, feedVars,
                 count_out, sent>>

\* The caller of stop() goes on to other calls.
GoOn ==
  /\ ctl = "stopped"
  /\ ctl' = "idle"
  /\ UNCHANGED <<method, sock, f_kill_thread, f_streaming, ringVars, th, window, feedVars,
                 count_out, sent>>

\* stop_after_drain(): nothing happens to a target that is not streaming.
DrainCall ==
  /\ ctl = "idle"
  /\ f_streaming
  /\ ctl' = "draining"
  /\ UNCHANGED <<method, sock, f_kill_thread, f_streaming, ringVars, th, window, feedVars,
                 count_out, sent>>

\* drain() waits for the end of the streaming or of the ring's allocation (it
\* asks for the capacity, not for the size); stop() follows if it was the former.
DrainReturn ==
  /\ ctl = "draining"
  /\ ~f_streaming \/ limit = 0
  /\ f_kill_thread' = (f_kill_thread \/ ~f_streaming)
  /\ ctl' = IF f_streaming THEN "idle" ELSE "stopping"
  /\ UNCHANGED <<method, sock, f_streaming, ringVars, th, window, feedVars, count_out, sent>>

-----------------------------------------------------------------------------
(* output_stream_thread                                                    *)

\* Thread i moves from one point of its function to another.
Goto(i, from, to) == th[i] = from /\ th' = [th EXCEPT ![i] = to]

\* The header of an HTTP target fails to go out.
HeaderFails(i) ==
  /\ method = "http"
  /\ Goto(i, "created", "closing")
  /\ UNCHANGED <<ctlVars, sock, f_kill_thread, f_streaming, ringVars, window, feedVars,
                 count_out, sent>>

BeginStreaming(i) ==
  /\ Goto(i, "created", "loop")
  /\ f_streaming' = TRUE
  /\ UNCHANGED <<ctlVars, sock, f_kill_thread, ringVars, window, feedVars, count_out, sent>>

\* Mutant: the loop looks at f_kill_thread only when the ring is empty.
EndStreaming_WhenDry(i) ==
  /\ f_kill_thread
  /\ queue = <<>>
  /\ Goto(i, "loop", "closing")
  /\ f_streaming' = FALSE
  /\ UNCHANGED <<ctlVars, sock, f_kill_thread, ringVars, window, feedVars, count_out, sent>>

EndStreaming(i) ==
  /\ f_kill_thread
  /\ Goto(i, "loop", "closing")
  /\ f_streaming' = FALSE
  /\ UNCHANGED <<ctlVars, sock, f_kill_thread, ringVars, window, feedVars, count_out, sent>>

\* get_size() finds a batch; with less the thread sleeps.
SeeBatch(i) ==
  /\ ~f_kill_thread
  /\ Len(queue) >= Batch
  /\ lock = NoOne
  /\ Goto(i, "loop", "sized")
  /\ UNCHANGED <<ctlVars, sock, f_kill_thread, f_streaming, ringVars, window, feedVars,
                 count_out, sent>>

\* Mutant: the mutex is not kept during stream().
GetBatch_Unlocks(i) ==
  /\ lock = NoOne
  /\ Goto(i, "sized", "sending")
  /\ \E n \in 0 .. Least(Batch, Len(queue)) :
       /\ n = 0 => queue = <<>>
       /\ window' = [window EXCEPT ![i] = n]
  /\ UNCHANGED <<ctlVars, sock, f_kill_thread, f_streaming, queue, limit, lock, feedVars,
                 count_out, sent>>

\* get_read_ptr() takes the mutex again and gives the batch, or the part of
\* it up to the end of the ring, or nothing if the ring was emptied meanwhile.
GetBatch(i) ==
  /\ lock = NoOne
  /\ Goto(i, "sized", "sending")
  /\ lock' = i
  /\ \E n \in 0 .. Least(Batch, Len(queue)) :
       /\ n = 0 => queue = <<>>
       /\ window' = [window EXCEPT ![i] = n]
  /\ UNCHANGED <<ctlVars, sock, f_kill_thread, f_streaming, queue, limit, feedVars,
                 count_out, sent>>

\* The packets of the window that can have arrived when stream() returns with
\* or without an error: a write to a descriptor may be short and is not
\* repeated.
Arrived(n, ok) ==
  CASE ~ok -> 0 .. (IF method = "http" THEN n ELSE 0)
    [] ok /\ method \in {"sock", "http"} -> 0 .. n
    [] OTHER -> {n}

\* Mutant: put_read_ptr is given one packet less than was streamed.
Streamed_PutsLess(i) ==
  \E ok \in BOOLEAN, k \in 0 .. window[i] :
    /\ Goto(i, "sending", "loop")
    /\ k \in Arrived(window[i], ok)
    /\ sent' = sent \o SubSeq(queue, 1, k)
    /\ f_kill_thread' = (f_kill_thread \/ (~ok /\ window[i] > 0 /\ method # "udp"))
    /\ Ring!Take(IF window[i] > 0 THEN window[i] - 1 ELSE 0)
    /\ lock' = NoOne
    /\ window' = [window EXCEPT ![i] = 0]
    /\ count_out' = count_out + window[i]
    /\ UNCHANGED <<ctlVars, sock, f_streaming, feedVars>>

\* stream() returns, put_read_ptr() releases the window, count_out advances
\* whatever stream() returned.
Streamed(i) ==
  \E ok \in BOOLEAN, k \in 0 .. window[i] :
    /\ Goto(i, "sending", "loop")
    /\ k \in Arrived(window[i], ok)
    /\ sent' = sent \o SubSeq(queue, 1, k)
    /\ f_kill_thread' = (f_kill_thread \/ (~ok /\ window[i] > 0 /\ method # "udp"))
    /\ Ring!Take(window[i])
    /\ lock' = NoOne
    /\ window' = [window EXCEPT ![i] = 0]
    /\ count_out' = count_out + window[i]
    /\ UNCHANGED <<ctlVars, sock, f_streaming, feedVars>>

\* close_file() and pthread_exit()
CloseFile(i) ==
  /\ Goto(i, "closing", "gone")
  /\ sock' = FALSE
  /\ UNCHANGED <<ctlVars, f_kill_thread, f_streaming, ringVars, window, feedVars, count_out, sent>>

-----------------------------------------------------------------------------
(* push(), called by output::push for a target that is_streaming().        *)

PushCall(k) ==
  /\ feeder = "idle"
  /\ is_streaming
  /\ ctl # "deleted"
  /\ nextpkt + k - 1 <= MaxPackets  \* bound
  /\ feeder' = "whole"
  /\ left' = k
  /\ UNCHANGED <<ctlVars, sock, f_kill_thread, f_streaming, ringVars, th, window, nextpkt,
                 count_in, count_out, sent>>

\* The feeder's next n packets go into the ring.
Store(n) ==
  /\ Ring!Put(Numbers(nextpkt, n))
  /\ nextpkt' = nextpkt + n
  /\ count_in' = count_in + n
  /\ left' = left - n
  /\ feeder' = IF left = n THEN "idle" ELSE "pieces"

\* The ring takes the whole buffer.
PushWhole ==
  /\ feeder = "whole"
  /\ lock = NoOne
  /\ Store(left)
  /\ UNCHANGED <<ctlVars, sock, f_kill_thread, f_streaming, lock, th, window, count_out, sent>>

\* It does not: push() tries packet by packet.
PushSplit ==
  /\ feeder = "whole"
  /\ lock = NoOne
  /\ Len(queue) + left > limit
  /\ feeder' = "pieces"
  /\ UNCHANGED <<ctlVars, sock, f_kill_thread, f_streaming, ringVars, th, window, left,
                 nextpkt, count_in, count_out, sent>>

\* A packet always fits, since the one that fills the ring empties it: the branch
\* that drops the rest of the buffer (output.cpp:512) is never taken.
PushPiece ==
  /\ feeder = "pieces"
  /\ lock = NoOne
  /\ Store(1)
  /\ UNCHANGED <<ctlVars, sock, f_kill_thread, f_streaming, lock, th, window, count_out, sent>>

-----------------------------------------------------------------------------
Control ==
  \/ \E m \in Methods : AddTarget(m)
  \/ StartCheck \/ StartSpawn
  \/ \E c \in {"stopping", "deleting"} : StopCall(c)
  \/ StopReturn \/ GoOn
  \/ DrainCall \/ DrainReturn

\* The steps of a thread that wait for nobody outside the program.
Run(i) ==
  \/ HeaderFails(i) \/ BeginStreaming(i) \/ EndStreaming(i)
  \/ SeeBatch(i) \/ GetBatch(i)
  \/ CloseFile(i)

Feed ==
  \/ \E k \in 1 .. MaxPush : PushCall(k)
  \/ PushWhole \/ PushSplit \/ PushPiece

Next ==
  \/ Control
  \/ Feed
  \/ \E i \in StreamThreads : Run(i) \/ Streamed(i)

Spec == Init /\ [][Next]_vars

\* A thread is scheduled again and again, and so is the one that polls in
\* stop().  stream() is left out: socket_send waits, without a limit, until the
\* peer makes room.
Fairness == /\ \A i \in StreamThreads : WF_vars(Run(i))
            /\ WF_vars(StopReturn)
            /\ WF_vars(DrainReturn)

FairSpec == Spec /\ Fairness

-----------------------------------------------------------------------------
(* Properties.                                                             *)

TypeOK ==
  /\ method \in AllMethods /\ sock \in BOOLEAN
  /\ f_kill_thread \in BOOLEAN /\ f_streaming \in BOOLEAN
  /\ queue \in Seq(1 .. MaxPackets) /\ Len(queue) <= limit /\ limit \in {0, Limit}
  /\ lock \in StreamThreads \cup {NoOne}
  /\ th \in [StreamThreads -> {"none", "created", "loop", "sized", "sending", "closing", "gone"}]
  /\ window \in [StreamThreads -> 0 .. Batch]
  /\ ctl \in {"new", "idle", "starting", "stopping", "deleting", "stopped", "deleted",
             "draining"}
  /\ feeder \in {"idle", "whole", "pieces"}
  /\ left \in 0 .. MaxPush
  /\ nextpkt \in 1 .. MaxPackets + 1
  /\ count_in \in Nat /\ count_out \in Nat
  /\ sent \in Seq(1 .. MaxPackets)

Streaming(i) == th[i] \in {"loop", "sized", "sending"}

\* The target receives packets in the order they were pushed and no packet
\* twice, across refused and split pushes, overruns, restarts and concurrent
\* threads of one target (output.cpp:output_stream_thread keeps the ring's
\* mutex while it streams).
SentInOrder == \A i, j \in 1 .. Len(sent) : i < j => sent[i] < sent[j]

\* The batch being streamed stays in the ring until put_read_ptr: no push,
\* start() or second thread takes it away under the thread that reads it.
BatchStaysPut == \A i \in StreamThreads : th[i] = "sending" => window[i] <= Len(queue)

\* check() in its code form; false makes output::reclaim_resources erase the
\* target.
check == f_streaming \/ count_in + count_out = 0

\* A second start() before the first thread runs makes two threads that share
\* f_streaming (output.cpp:406), so what follows is stated of a target that was
\* started once.
StartedOnce == Cardinality({i \in StreamThreads : th[i] # "none"}) <= 1

\* A target that check() gives up is not streaming any more (output.cpp:check).
OnlyDeadIsReclaimed == StartedOnce /\ ~check => \A i \in StreamThreads : ~Streaming(i)

\* Between the return of stop() and the next call on the target nothing is
\* sent, so the caller may reuse what the target was given.
SilentAfterStop ==
  [][StartedOnce /\ ctl \in {"stopped", "deleted"} => sent' = sent]_vars

\* stop() returns, unless the peer lets the thread hang in stream().
StopReturns ==
  (ctl = "stopping") ~> (ctl = "stopped" \/ \E i \in StreamThreads : th[i] = "sending")
=============================================================================
