------------------------------- MODULE Output -------------------------------
(***************************************************************************)
(* The targets of one feed: class output of src/libdvbtee/output.cpp, a    *)
(* std::map of output_stream objects that no lock protects.                *)
(*                                                                         *)
(* The command interpreter add()s, start()s and stop()s targets by number; *)
(* the feeding thread walks through the map to push() each packet; the     *)
(* server's monitor check()s the targets and erases the dead ones; each    *)
(* target has a thread of its own.  OutputStream says what happens inside  *)
(* a target; here a target is reduced to its flags.                        *)
(***************************************************************************)
EXTENDS Integers, FiniteSets

CONSTANTS
  Urls, Sockets, Callbacks,  \* what can be add()ed, by the form of add()
  MaxTargets,                \* bound: targets in the life of the map
  MaxThreads                 \* bound: threads that start() creates

ASSUME OutputAssumption ==
  /\ Urls \cap Sockets = {} /\ Urls \cap Callbacks = {} /\ Sockets \cap Callbacks = {}
  /\ MaxTargets \in Nat \ {0} /\ MaxThreads \in Nat \ {0}

Keys == Urls \cup Sockets \cup Callbacks
Ids == 0 .. MaxTargets - 1
Threads == 1 .. MaxThreads
None == -1

VARIABLES
  output_streams,  \* id -> target
  num_targets,
  th,              \* each thread: the target it works for and where it is
  cmd,             \* the interpreter: where it is in its call
  feed,            \* push(): where it is, and at which target
  monitor,         \* where check() is
  added            \* history: number and key of each add() that succeeded

vars == <<output_streams, num_targets, th, cmd, feed, monitor, added>>

-----------------------------------------------------------------------------
(* A target.                                                               *)

\* output_stream's constructor; operator[] makes such a target.
NewTarget(k) == [key |-> k, sock |-> FALSE, f_kill_thread |-> FALSE,
                 f_streaming |-> FALSE, counted |-> FALSE]

is_streaming(t) == ~t.f_kill_thread /\ t.f_streaming

\* output_stream::check()
alive(t) == t.f_streaming \/ ~t.counted

\* verify(): an url and a callback are known by their name, a socket by its
\* descriptor, which close_file() forgets.
verify(t, k) == t.key = k /\ (k \in Sockets => t.sock)

Live == DOMAIN output_streams
search(k) == {id \in Live : verify(output_streams[id], k)}

\* The target id with the fields that change.
Store(id, t) == output_streams' = [i \in Live \cup {id} |-> IF i = id THEN t ELSE output_streams[i]]
Erase(id) == output_streams' = [i \in Live \ {id} |-> output_streams[i]]

\* The first target of the map from id n on, or None.
From(n) == IF \A id \in Live : id < n THEN None
           ELSE CHOOSE id \in Live : id >= n /\ \A j \in Live : j >= n => id <= j

Idle == [at |-> "idle", key |-> None, id |-> None, next |-> 0, wait |-> {}]

Init ==
  /\ output_streams = [id \in {} |-> NewTarget(None)]
  /\ num_targets = 0
  /\ th = [i \in Threads |-> [of |-> None, at |-> "none"]]
  /\ cmd = Idle
  /\ feed = [at |-> "idle", id |-> None]
  /\ monitor = "idle"
  /\ added = {}

-----------------------------------------------------------------------------
(* The command interpreter: parse::add_output, parse::stop.                *)

\* The target id when add() works on it: operator[] makes it, unless an add()
\* that failed left one.
Slot(id, k) == IF id \in Live THEN [output_streams[id] EXCEPT !.key = k] ELSE NewTarget(k)

\* The call to start() that ends an add_output() with result id.
Starting(k, id) == [at |-> "starting", key |-> k, id |-> id, next |-> 0, wait |-> {}]

\* Mutant: a key is searched among the targets that stream only.
AddCall_Streaming(k) ==
  /\ cmd.at = "idle"
  /\ IF \E id \in search(k) : is_streaming(output_streams[id])
     THEN cmd' = Starting(k, CHOOSE id \in search(k) : is_streaming(output_streams[id]))
     ELSE /\ num_targets < MaxTargets
          /\ cmd' = [Idle EXCEPT !.at = "adding", !.key = k, !.id = num_targets]
  /\ UNCHANGED <<output_streams, num_targets, th, feed, monitor, added>>

\* add() searches the key: a target that is found is the result.
AddCall(k) ==
  /\ cmd.at = "idle"
  /\ IF search(k) # {}
     THEN cmd' = Starting(k, CHOOSE id \in search(k) : \A j \in search(k) : id <= j)
     ELSE /\ num_targets < MaxTargets  \* bound
          /\ cmd' = [Idle EXCEPT !.at = "adding", !.key = k, !.id = num_targets]
  /\ UNCHANGED <<output_streams, num_targets, th, feed, monitor, added>>

\* The add() of the target succeeds.
AddDone ==
  /\ cmd.at = "adding"
  /\ Store(cmd.id, [Slot(cmd.id, cmd.key) EXCEPT !.sock = @ \/ cmd.key \notin Callbacks])
  /\ num_targets' = num_targets + 1
  /\ cmd' = Starting(cmd.key, cmd.id)
  /\ added' = added \cup {<<cmd.id, cmd.key>>}
  /\ UNCHANGED <<th, feed, monitor>>

\* It fails, as only an url can: the name is set by then, the descriptor may
\* be open, and the target stays in the map.
AddFails ==
  /\ cmd.at = "adding" /\ cmd.key \in Urls
  /\ \E open \in BOOLEAN : Store(cmd.id, [Slot(cmd.id, cmd.key) EXCEPT !.sock = open])
  /\ cmd' = Idle
  /\ UNCHANGED <<num_targets, th, feed, monitor, added>>

\* output::start() calls start() of every target, which begins a thread if
\* the target does not stream and has somewhere to stream to.
Start ==
  LET id == From(cmd.next)
  IN  /\ cmd.at = "starting" /\ id # None
      /\ IF ~output_streams[id].f_streaming
             /\ (output_streams[id].sock \/ output_streams[id].key \in Callbacks)
         THEN \E i \in Threads :
                /\ th[i].at = "none" /\ \A j \in 1 .. i - 1 : th[j].at # "none"  \* bound
                /\ th' = [th EXCEPT ![i] = [of |-> id, at |-> "created"]]
         ELSE UNCHANGED th
      /\ cmd' = [cmd EXCEPT !.next = id + 1]
      /\ UNCHANGED <<output_streams, num_targets, feed, monitor, added>>

\* The number goes back to the caller.
AddReturn ==
  /\ cmd.at = "starting" /\ From(cmd.next) = None
  /\ cmd' = Idle
  /\ UNCHANGED <<output_streams, num_targets, th, feed, monitor, added>>

\* stop() and stop(id): stop_without_wait() of the targets, then the wait.
StopCall(S) ==
  /\ cmd.at = "idle"
  /\ S # {}
  /\ output_streams' = [id \in Live |-> [output_streams[id] EXCEPT !.f_kill_thread = @ \/ id \in S]]
  /\ cmd' = [Idle EXCEPT !.at = "stopping", !.wait = S]
  /\ UNCHANGED <<num_targets, th, feed, monitor, added>>

StopReturn ==
  /\ cmd.at = "stopping"
  /\ \A id \in cmd.wait \cap Live : ~output_streams[id].f_streaming
  /\ cmd' = Idle
  /\ UNCHANGED <<output_streams, num_targets, th, feed, monitor, added>>

-----------------------------------------------------------------------------
(* The targets' threads.                                                   *)

\* Thread i of target id goes on.
Goto(i, id, from, to) ==
  /\ th[i] = [of |-> id, at |-> from] /\ id \in Live
  /\ th' = [th EXCEPT ![i].at = to]

\* The header of an HTTP target fails to go out.
HeaderFails(i, id) ==
  /\ Goto(i, id, "created", "closing")
  /\ output_streams[id].key \in Sockets
  /\ UNCHANGED <<output_streams, num_targets, cmd, feed, monitor, added>>

\* The header of an HTTP target does not go out without a descriptor.
BeginStreaming(i, id) ==
  /\ Goto(i, id, "created", "loop")
  /\ output_streams[id].key \in Sockets => output_streams[id].sock
  /\ Store(id, [output_streams[id] EXCEPT !.f_streaming = TRUE])
  /\ UNCHANGED <<num_targets, cmd, feed, monitor, added>>

\* stream() fails.
StreamFails(i, id) ==
  /\ Goto(i, id, "loop", "loop")
  /\ ~output_streams[id].f_kill_thread
  /\ output_streams[id].counted
  /\ Store(id, [output_streams[id] EXCEPT !.f_kill_thread = TRUE])
  /\ UNCHANGED <<num_targets, cmd, feed, monitor, added>>

EndStreaming(i, id) ==
  /\ Goto(i, id, "loop", "closing")
  /\ output_streams[id].f_kill_thread
  /\ Store(id, [output_streams[id] EXCEPT !.f_streaming = FALSE])
  /\ UNCHANGED <<num_targets, cmd, feed, monitor, added>>

\* close_file()
CloseFile(i, id) ==
  /\ Goto(i, id, "closing", "gone")
  /\ Store(id, [output_streams[id] EXCEPT !.sock = FALSE])
  /\ UNCHANGED <<num_targets, cmd, feed, monitor, added>>

-----------------------------------------------------------------------------
(* push() and check()                                                      *)

At(n) == IF n = None THEN [at |-> "idle", id |-> None] ELSE [at |-> "next", id |-> n]

PushCall ==
  /\ feed.at = "idle"
  /\ feed' = At(From(0))
  /\ UNCHANGED <<output_streams, num_targets, th, cmd, monitor, added>>

\* The walk passes over a target that is not streaming.
PushVisit ==
  /\ feed.at = "next"
  /\ feed' = IF feed.id \in Live /\ is_streaming(output_streams[feed.id])
             THEN [feed EXCEPT !.at = "in"] ELSE At(From(feed.id + 1))
  /\ UNCHANGED <<output_streams, num_targets, th, cmd, monitor, added>>

\* The target's push() returns; it counts the packet.
PushInto ==
  /\ feed.at = "in"
  /\ feed' = At(From(feed.id + 1))
  /\ IF feed.id \in Live
     THEN Store(feed.id, [output_streams[feed.id] EXCEPT !.counted = TRUE])
     ELSE UNCHANGED output_streams
  /\ UNCHANGED <<num_targets, th, cmd, monitor, added>>

\* check() finds dead targets.
Check ==
  /\ monitor = "idle"
  /\ \E id \in Live : ~alive(output_streams[id])
  /\ monitor' = "reclaiming"
  /\ UNCHANGED <<output_streams, num_targets, th, cmd, feed, added>>

\* Mutant: num_targets is the number of targets in the map.
Reclaim_Counts ==
  /\ monitor = "reclaiming"
  /\ \E id \in Live : ~alive(output_streams[id]) /\ Erase(id)
  /\ num_targets' = Cardinality(Live) - 1
  /\ UNCHANGED <<th, cmd, feed, monitor, added>>

\* Mutant: reclaim_resources asks the first dead target only.
CheckDone_Once ==
  /\ monitor = "reclaiming"
  /\ monitor' = "idle"
  /\ UNCHANGED <<output_streams, num_targets, th, cmd, feed, added>>

\* reclaim_resources erases one of them.
Reclaim ==
  /\ monitor = "reclaiming"
  /\ \E id \in Live : ~alive(output_streams[id]) /\ Erase(id)
  /\ UNCHANGED <<num_targets, th, cmd, feed, monitor, added>>

CheckDone ==
  /\ monitor = "reclaiming"
  /\ \A id \in Live : alive(output_streams[id])
  /\ monitor' = "idle"
  /\ UNCHANGED <<output_streams, num_targets, th, cmd, feed, added>>

-----------------------------------------------------------------------------
Command ==
  \/ \E k \in Keys : AddCall(k)
  \/ AddDone \/ AddFails \/ Start \/ AddReturn
  \/ \E id \in Live : StopCall({id})
  \/ StopCall(Live)
  \/ StopReturn

Run(i, id) ==
  \/ HeaderFails(i, id) \/ BeginStreaming(i, id)
  \/ EndStreaming(i, id) \/ CloseFile(i, id)

Push == PushCall \/ PushVisit \/ PushInto
Monitor == Check \/ Reclaim \/ CheckDone

Next ==
  \/ Command \/ Push \/ Monitor
  \/ \E i \in Threads, id \in Ids : Run(i, id) \/ StreamFails(i, id)

Spec == Init /\ [][Next]_vars

\* The threads run; the monitor looks every 15 seconds.  No stream has to fail.
FairSpec ==
  /\ Spec
  /\ WF_vars(Monitor)
  /\ \A i \in Threads, id \in Ids : WF_vars(Run(i, id))

-----------------------------------------------------------------------------
(* Properties.                                                             *)

\* A packet is given once to a destination: of two targets with the same key
\* one at most reaches it (search() of the key in every add()), even if a target
\* has ended and its destination is added again.
reaches(t) == is_streaming(t) /\ (t.sock \/ t.key \in Callbacks)
StreamsOnce ==
  \A a, b \in Live :
    /\ output_streams[a].key = output_streams[b].key
    /\ reaches(output_streams[a]) /\ reaches(output_streams[b])
    => a = b

\* The number of an add() that succeeded means the same destination for good:
\* neither the failure of another add() nor the erasure of a target gives it
\* away (num_targets), so that stop(id) stops what the caller added.
NumberIsForever ==
  \A a \in added :
    /\ a[1] \in Live => output_streams[a[1]].key = a[2]
    /\ \A b \in added : a[1] = b[1] => a = b

\* A target that streamed and ended leaves the map (check, reclaim_resources).
DeadIsReclaimed ==
  \A id \in Ids : (id \in Live /\ output_streams[id].counted /\ ~output_streams[id].f_streaming)
                  ~> (id \notin Live \/ output_streams[id].f_streaming)
=============================================================================
