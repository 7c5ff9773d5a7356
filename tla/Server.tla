------------------------------- MODULE Server -------------------------------
(***************************************************************************)
(* The command server: classes serve and serve_client                      *)
(* (src/libdvbtee_server/serve.cpp).                                       *)
(*                                                                         *)
(* The listener accepts connections and keeps one client object for each   *)
(* in a map whose key is the descriptor's number.  A client's thread       *)
(* executes requests until the connection ends; then it closes the         *)
(* descriptor and forgets it.  The object leaves the map when somebody     *)
(* looks for idle clients: the listener before it adds one, the monitor    *)
(* every 15 seconds, and who asks for "check".  The monitor also stops the *)
(* tuner when nobody uses it.                                              *)
(*                                                                         *)
(* External: descriptors, connections, the device, and the output that     *)
(* takes over the connection of a client who asks for a stream.  A request *)
(* is one command.  Scans, and the commands that only report, are left     *)
(* out, and so is what a data race on the map's own nodes may do.          *)
(***************************************************************************)
EXTENDS Integers, FiniteSets

CONSTANT Conns

ASSUME ServerAssumption == IsFiniteSet(Conns)

VARIABLES
  peer,      \* of each connection: "here", "gone"
  number,    \* the open descriptor of each connection, or None
  accepted,  \* the connections that have been accepted
  listener,  \* its thread: where, the connection at hand, f_kill_thread
  client,    \* client_map: of each number sock_fd, f_kill_thread, data_fmt
  thread,    \* the client thread of each connection: where, its key in the map
  job,       \* the clean-up every process may be in, and the client to erase
  any_cli,
  tuner,     \* frontend open, feed running, touched in the last 15 seconds
  out,       \* the connections that outputs stream to
  refused,   \* history: connections given away to no output
  spoilt     \* history: a connection found an object under its number, or was
             \* streamed to in a request for text, or two erased the same client

vars == <<peer, number, accepted, listener, client, thread, job, any_cli, tuner, out, refused, spoilt>>
socketVars == <<peer, number, accepted>>
historyVars == <<refused, spoilt>>

None == 0
Numbers == 1 .. Cardinality(Conns)
Procs == Conns \cup {"listener", "monitor"}
NoConn == "none"
Requests == {"text", "bin", "cli"}

LowestFree == CHOOSE n \in Numbers :
  /\ \A c \in Conns : number[c] # n
  /\ \A m \in 1 .. n - 1 : \E c \in Conns : number[c] = m

NoTuner == [fe |-> FALSE, feed |-> FALSE, touched |-> FALSE]
NewClient == [sock |-> None, kill |-> FALSE, fmt |-> "none"]
Idle == {n \in DOMAIN client : client[n].sock = None}
LowestIdle == CHOOSE n \in Idle : \A m \in Idle : n <= m

Init ==
  /\ peer = [c \in Conns |-> "here"]
  /\ number = [c \in Conns |-> None]
  /\ accepted = {}
  /\ listener = [at |-> "accept", conn |-> NoConn, kill |-> FALSE]
  /\ client = <<>>
  /\ thread = [c \in Conns |-> [at |-> "none", key |-> None]]
  /\ job = [p \in Procs |-> [at |-> "none", victim |-> None]]
  /\ any_cli = FALSE
  /\ tuner = NoTuner
  /\ out = {}
  /\ refused = {}
  /\ spoilt = FALSE

-----------------------------------------------------------------------------
(* Peers and time                                                          *)

HangUp(c) ==
  /\ ~spoilt /\ peer[c] = "here" /\ (c \in accepted => number[c] # None)
  /\ peer' = [peer EXCEPT ![c] = "gone"]
  /\ UNCHANGED <<number, accepted, listener, client, thread, job, any_cli, tuner, out, historyVars>>

FifteenSeconds ==
  /\ ~spoilt /\ tuner.touched
  /\ tuner' = [tuner EXCEPT !.touched = FALSE]
  /\ UNCHANGED <<socketVars, listener, client, thread, job, any_cli, out, historyVars>>

\* An output finds its peer gone, or is stopped: it closes the connection.
OutputEnds(c) ==
  /\ ~spoilt /\ c \in out
  /\ out' = out \ {c}
  /\ number' = [number EXCEPT ![c] = None]
  /\ UNCHANGED <<peer, accepted, listener, client, thread, job, any_cli, tuner, historyVars>>

-----------------------------------------------------------------------------
(* Idle clients and the idle tuner, process p.  "find" is a turn of the    *)
(* loop of reclaim_server_resources(), "tuner" reclaim_tuner_resources().  *)

\* The model does not go on when two connections are mixed up (spoilt).
JobAt(p, at) == ~spoilt /\ job[p].at = at
JobTo(p, at) == job' = [job EXCEPT ![p].at = at]

\* Clients before the first idle one have been looked at: check() notes CLIs.
AnyCli(ns) == any_cli \/ \E n \in ns : client[n].sock # None /\ client[n].fmt = "cli"

FindIdle(p) ==
  /\ JobAt(p, "find") /\ Idle # {}
  /\ any_cli' = AnyCli({n \in DOMAIN client : n < LowestIdle})
  /\ job' = [job EXCEPT ![p] = [at |-> "erase", victim |-> LowestIdle]]
  /\ UNCHANGED <<socketVars, listener, client, thread, tuner, out, historyVars>>

\* The listener goes on with the new connection, the others with the tuner.
FindNone(p) ==
  /\ JobAt(p, "find") /\ Idle = {}
  /\ any_cli' = AnyCli(DOMAIN client)
  /\ JobTo(p, IF p = "listener" THEN "none" ELSE "tuner")
  /\ UNCHANGED <<socketVars, listener, client, thread, tuner, out, historyVars>>

\* Mutant: the client stays in the map.
Erase_Keeps(p) ==
  LET n == job[p].victim
  IN  /\ JobAt(p, "erase")
      /\ job' = [job EXCEPT ![p] = [at |-> "find", victim |-> None]]
      /\ spoilt' = (spoilt \/ n \notin Idle)
      /\ UNCHANGED <<socketVars, listener, client, thread, any_cli, tuner, out, refused>>

\* ~serve_client() finds sock_fd at -1 and waits for nobody.  When somebody else
\* has erased the client meanwhile the iterator is of no use any more.
Erase(p) ==
  LET n == job[p].victim
  IN  /\ JobAt(p, "erase")
      /\ client' = [m \in DOMAIN client \ {n} |-> client[m]]
      /\ job' = [job EXCEPT ![p] = [at |-> "find", victim |-> None]]
      /\ spoilt' = (spoilt \/ n \notin Idle)
      /\ UNCHANGED <<socketVars, listener, thread, any_cli, tuner, out, refused>>

Decide(p) ==
  /\ JobAt(p, "tuner")
  /\ JobTo(p, IF tuner.feed /\ ~tuner.touched /\ ~any_cli /\ out = {} THEN "stop" ELSE "none")
  /\ UNCHANGED <<socketVars, listener, client, thread, any_cli, tuner, out, historyVars>>

\* stop_feed() and close_fe(), which are one step here
StopTuner(p) ==
  /\ JobAt(p, "stop")
  /\ tuner' = NoTuner
  /\ JobTo(p, "none")
  /\ UNCHANGED <<socketVars, listener, client, thread, any_cli, out, historyVars>>

Job(p) == FindIdle(p) \/ FindNone(p) \/ Erase(p) \/ Decide(p) \/ StopTuner(p)

\* Mutant: what the last check found stays.
MonitorChecks_KeepsAnyCli ==
  /\ JobAt("monitor", "none")
  /\ JobTo("monitor", "find")
  /\ UNCHANGED <<socketVars, listener, client, thread, any_cli, tuner, out, historyVars>>

\* The monitor wakes up.
MonitorChecks ==
  /\ JobAt("monitor", "none")
  /\ any_cli' = FALSE
  /\ JobTo("monitor", "find")
  /\ UNCHANGED <<socketVars, listener, client, thread, tuner, out, historyVars>>

-----------------------------------------------------------------------------
(* The listener                                                            *)

\* accept(), and accept_socket() begins with a look for idle clients.
Accept(c) ==
  /\ ~spoilt /\ listener.at = "accept" /\ ~listener.kill
  /\ c \notin accepted
  /\ accepted' = accepted \cup {c}
  /\ number' = [number EXCEPT ![c] = LowestFree]
  /\ listener' = [listener EXCEPT !.at = "setup", !.conn = c]
  /\ JobTo("listener", "find")
  /\ UNCHANGED <<peer, client, thread, any_cli, tuner, out, historyVars>>

\* setup() and start() of client_map[socket], normally a new object
SetupAndStart ==
  LET c == listener.conn
      n == number[c]
  IN  /\ listener.at = "setup" /\ JobAt("listener", "none")
      /\ client' = [m \in DOMAIN client \cup {n} |->
                      IF m = n THEN [NewClient EXCEPT !.sock = n] ELSE client[m]]
      /\ thread' = [thread EXCEPT ![c] = [at |-> "loop", key |-> n]]
      /\ listener' = [listener EXCEPT !.at = "accept", !.conn = NoConn]
      /\ spoilt' = (spoilt \/ n \in DOMAIN client)
      /\ UNCHANGED <<socketVars, job, any_cli, tuner, out, refused>>

\* socket_listen::stop() was called: the thread closes its socket.
ListenerEnds ==
  /\ ~spoilt /\ listener.at = "accept" /\ listener.kill
  /\ listener' = [listener EXCEPT !.at = "gone"]
  /\ UNCHANGED <<socketVars, client, thread, job, any_cli, tuner, out, historyVars>>

-----------------------------------------------------------------------------
(* The client thread of connection c                                       *)

Gone == [at |-> "gone", key |-> None]
Key(c) == thread[c].key
At(c, at) == ~spoilt /\ thread[c].at = at
To(c, at) == thread' = [thread EXCEPT ![c].at = at]
Killed(c) == client[Key(c)].kill

\* recv() on the descriptor in the object: whose connection that is
Peers(c) == {d \in Conns : number[d] # None /\ number[d] = client[Key(c)].sock}

\* Mutant: only an error ends the connection, its end does not.
RecvEnds_IgnoresEnd(c) ==
  /\ At(c, "loop") /\ ~Killed(c)
  /\ Peers(c) = {}
  /\ client' = [client EXCEPT ![Key(c)].kill = TRUE]
  /\ UNCHANGED <<socketVars, listener, thread, job, any_cli, tuner, out, historyVars>>

\* The peer is gone, or the descriptor is bad.
RecvEnds(c) ==
  /\ At(c, "loop") /\ ~Killed(c)
  /\ \A d \in Peers(c) : peer[d] = "gone"
  /\ client' = [client EXCEPT ![Key(c)].kill = TRUE]
  /\ UNCHANGED <<socketVars, listener, thread, job, any_cli, tuner, out, historyVars>>

\* A request arrives: HTTP for text or a stream, or a line of a CLI, on which no
\* HTTP follows.
Request(c, fmt) ==
  /\ At(c, "loop") /\ ~Killed(c)
  /\ \E d \in Peers(c) : peer[d] = "here"
  /\ client[Key(c)].fmt \in {"none", fmt}
  /\ client' = [client EXCEPT ![Key(c)].fmt = fmt]

\* A command that changes nothing here, as "tune" to the channel it is at
Report(c, fmt) ==
  /\ Request(c, fmt)
  /\ To(c, "answered")
  /\ UNCHANGED <<socketVars, listener, job, any_cli, tuner, out, historyVars>>

\* "stop"
Stop(c, fmt) ==
  /\ Request(c, fmt)
  /\ JobTo(c, "stop")
  /\ To(c, "answered")
  /\ UNCHANGED <<socketVars, listener, any_cli, tuner, out, historyVars>>

\* "tune" to another channel: if the tuner is tuned the feed stops first.
Tune(c, fmt) ==
  /\ Request(c, fmt)
  /\ IF tuner.feed THEN JobTo(c, "stop") ELSE UNCHANGED job
  /\ To(c, "tune")
  /\ UNCHANGED <<socketVars, listener, any_cli, tuner, out, historyVars>>

\* open_fe() fails, or there is no lock ...
TuneFails(c) ==
  /\ At(c, "tune") /\ job[c].at = "none"
  /\ To(c, "answered")
  /\ UNCHANGED <<socketVars, listener, client, job, any_cli, tuner, out, historyVars>>

\* ... or the tuner is tuned and start_feed() tried.
Tuned(c) ==
  /\ At(c, "tune") /\ job[c].at = "none" /\ ~tuner.fe
  /\ \E feed \in BOOLEAN : tuner' = [fe |-> TRUE, feed |-> feed, touched |-> feed]
  /\ To(c, "answered")
  /\ UNCHANGED <<socketVars, listener, client, job, any_cli, out, historyVars>>

\* "check"
Check(c, fmt) ==
  /\ Request(c, fmt)
  /\ any_cli' = FALSE
  /\ JobTo(c, "find")
  /\ To(c, "answered")
  /\ UNCHANGED <<socketVars, listener, tuner, out, historyVars>>

\* "stream" to the connection itself: an output takes it over.  When there is
\* no feed or the output cannot begin the command is a Report.
Stream(c, fmt) ==
  /\ Request(c, fmt) /\ fmt # "cli"
  /\ out' = out \cup Peers(c)
  /\ spoilt' = (spoilt \/ fmt # "bin")
  /\ To(c, "answered")
  /\ UNCHANGED <<socketVars, listener, job, any_cli, tuner, refused>>

\* "quit": listener.stop() ...
Quit(c, fmt) ==
  /\ Request(c, fmt)
  /\ listener' = [listener EXCEPT !.kill = TRUE]
  /\ To(c, "quit")
  /\ UNCHANGED <<socketVars, job, any_cli, tuner, out, historyVars>>

\* ... waits for its thread, and there is no prompt any more.
QuitDone(c) ==
  /\ At(c, "quit") /\ listener.at = "gone"
  /\ client' = [client EXCEPT ![Key(c)].fmt = IF @ = "cli" THEN "none" ELSE @]
  /\ To(c, IF client[Key(c)].fmt = "cli" THEN "loop" ELSE "answered")
  /\ UNCHANGED <<socketVars, listener, job, any_cli, tuner, out, historyVars>>

\* Mutant: the client keeps the connection that the output has got.
Answered_Keeps(c) ==
  /\ At(c, "answered") /\ job[c].at = "none"
  /\ client' = [client EXCEPT ![Key(c)].kill = @ \/ client[Key(c)].fmt # "cli"]
  /\ To(c, "loop")
  /\ UNCHANGED <<socketVars, listener, job, any_cli, tuner, out, historyVars>>

\* The thread of an HTTP request ends with it.  After a request for a stream
\* the socket is disconnected from the server process.
Answered(c) ==
  LET fmt == client[Key(c)].fmt
  IN  /\ At(c, "answered") /\ job[c].at = "none"
      /\ client' = [client EXCEPT ![Key(c)].kill = @ \/ fmt # "cli",
                                  ![Key(c)].sock = IF fmt = "bin" THEN None ELSE @]
      /\ refused' = IF fmt = "bin" THEN refused \cup (Peers(c) \ out) ELSE refused
      /\ thread' = [thread EXCEPT ![c] = IF fmt = "bin" THEN Gone ELSE [@ EXCEPT !.at = "loop"]]
      /\ UNCHANGED <<socketVars, listener, job, any_cli, tuner, out, spoilt>>

\* close_socket() closes the descriptor ...
Close(c) ==
  /\ At(c, "loop") /\ Killed(c)
  /\ number' = [d \in Conns |-> IF d \in Peers(c) THEN None ELSE number[d]]
  /\ To(c, "closed")
  /\ UNCHANGED <<peer, accepted, listener, client, job, any_cli, tuner, out, historyVars>>

\* ... and forgets it.
Forget(c) ==
  /\ At(c, "closed")
  /\ client' = [client EXCEPT ![Key(c)].sock = None]
  /\ thread' = [thread EXCEPT ![c] = Gone]
  /\ UNCHANGED <<socketVars, listener, job, any_cli, tuner, out, historyVars>>

-----------------------------------------------------------------------------
Command(c, fmt) ==
  \/ Report(c, fmt) \/ Stream(c, fmt)
  \/ fmt # "bin" /\ (Stop(c, fmt) \/ Tune(c, fmt) \/ Check(c, fmt) \/ Quit(c, fmt))

Works(c) ==
  RecvEnds(c) \/ TuneFails(c) \/ Tuned(c) \/ QuitDone(c) \/ Answered(c) \/ Close(c) \/ Forget(c)

Listener == (\E c \in Conns : Accept(c)) \/ SetupAndStart \/ ListenerEnds

Next ==
  \/ \E c \in Conns : HangUp(c) \/ OutputEnds(c)
  \/ FifteenSeconds
  \/ \E p \in Procs : Job(p)
  \/ MonitorChecks
  \/ Listener
  \/ \E c \in Conns : Works(c) \/ \E fmt \in Requests : Command(c, fmt)

Spec == Init /\ [][Next]_vars

\* Threads run, time passes and the monitor wakes up.  Peers need not ask or
\* hang up, and an output may stay.
FairSpec ==
  /\ Spec
  /\ WF_vars(FifteenSeconds)
  /\ WF_vars(Listener \/ Job("listener"))
  /\ WF_vars(MonitorChecks \/ Job("monitor"))
  /\ \A c \in Conns : WF_vars(Works(c) \/ Job(c))

-----------------------------------------------------------------------------
(* Properties.                                                             *)

\* The thread of connection c is between start() and the end of its loop, and
\* its connection is not handed over to an output.
HandsOver(c) == At(c, "answered") /\ client[Key(c)].fmt = "bin"
Serves(c) == thread[c].at \in {"loop", "tune", "quit", "answered"} /\ ~HandsOver(c)

\* Who will close connection c: the listener, its client or an output.
Owned(c) ==
  \/ listener.conn = c
  \/ (Serves(c) \/ HandsOver(c)) /\ Key(c) \in DOMAIN client /\ client[Key(c)].sock = number[c]
  \/ c \in out

\* A client serves its own connection with an object of its own, which is in the
\* map as long as the thread uses it, and no open connection is without an
\* owner: the clean-ups of three kinds of threads, the reuse of numbers and the
\* hand-over to an output neither erase a client at work nor mix up two
\* (serve.cpp:accept_socket, reclaim_server_resources, client_thread).
OwnSocket ==
  ~spoilt => \A c \in Conns :
    /\ number[c] # None => Owned(c) \/ c \in refused
    /\ Serves(c) =>
         /\ Key(c) \in DOMAIN client
         /\ client[Key(c)].sock = number[c] /\ number[c] # None /\ c \notin out
         /\ \A d \in Conns \ {c} : Serves(d) => Key(d) # Key(c)

\* "It is the responsibility of the interface class to close the socket accepted
\* by accept_socket()" (listen.h:35): no open connection is without an owner.
AcceptedIsOwned == \A c \in Conns : number[c] # None => Owned(c)

\* A connection whose peer has gone is closed, unless an output has it.
HungUpIsClosed ==
  \A c \in Conns :
    (c \in accepted /\ peer[c] = "gone") ~> (number[c] = None \/ c \in out \cup refused \/ spoilt)

\* A tuner that nobody streams from stops, unless a CLI stays connected
\* (serve.cpp:784): whatever tunes it at whatever moment of the monitor's round.
CliThere == \E n \in DOMAIN client : client[n].sock # None /\ client[n].fmt = "cli"
IdleTunerStops == []<>(~tuner.feed \/ out # {} \/ CliThere \/ spoilt)

\* The objects of clients that have ended leave the map, whoever looks for them
\* (reclaim_server_resources): their numbers can be used again.
IdleIsErased == []<>(Idle = {} \/ spoilt)

\* What is idle goes, a tuner nobody streams from and the clients that have ended,
\* whichever of the monitor, the listener and "check" cleans up and whatever
\* begins meanwhile (reclaim_server_resources, reclaim_tuner_resources).
IdleGoes == IdleTunerStops /\ IdleIsErased
=============================================================================
