-------------------------------- MODULE Feed --------------------------------
(***************************************************************************)
(* A feed and its listener: class feed (src/libdvbtee/feed.cpp) with the   *)
(* socket_listen in it (src/libdvbtee/listen.cpp).                         *)
(*                                                                         *)
(* The owner starts the feed on a file, a UDP port, a TCP port or a        *)
(* callback and stops it.  A thread reads and hands what it reads to the   *)
(* parser; on a TCP port a second thread listens and starts a reader for   *)
(* each connection the feed can take.  They share fd and f_kill_thread,    *)
(* and the listener's sock_fd and f_kill_thread, without a lock.           *)
(*                                                                         *)
(* External: the kernel gives the lowest free descriptor number and frees  *)
(* a number when close() is called; peers connect, send and hang up as     *)
(* they like.  The feed buffer is compiled out (FEED_BUFFER is 0).         *)
(***************************************************************************)
EXTENDS Integers, FiniteSets

CONSTANTS
  Kinds,      \* the sources that are tried, among AllKinds
  Fds,        \* bound: descriptor numbers of the process
  MaxReaders, \* bound: reading threads that are created
  MaxStarts   \* bound: calls of start by the owner

AllKinds == {"file", "udp", "tcp", "pull"}

ASSUME FeedAssumption ==
  /\ Kinds \subseteq AllKinds
  /\ Fds \subseteq Nat
  /\ MaxReaders \in Nat \ {0} /\ MaxStarts \in Nat

VARIABLES
  open,      \* kernel: the descriptors that are open
  fd, f_kill_thread,  \* the feed
  sock_fd, l_kill,    \* the listener's sock_fd and f_kill_thread
  listener,  \* where the listening thread is
  accepted,  \* the descriptor accept() gave it
  reader,    \* where each reading thread is, and the descriptor it blocks on
  owner,     \* where the owner is
  starts,    \* bound: number of starts so far
  botched    \* history: a start failed after it had opened a socket

feedVars == <<open, fd, f_kill_thread, sock_fd, l_kill, listener, accepted, reader, owner,
          starts, botched>>

None == -1
Readers == 1 .. MaxReaders

\* The lowest descriptor the kernel can give.
Free == Fds \ open
Lowest == CHOOSE d \in Free : \A e \in Free : d <= e

InLoop == {"loop", "reading", "feeding"}
Reading(r) == reader[r].at \in InLoop
Unborn == {r \in Readers : reader[r].at = "none"}

\* pthread_create() of a reader of kind k.
Spawn(k) ==
  reader' = [reader EXCEPT ![CHOOSE r \in Unborn : \A s \in Unborn : r <= s] =
               [at |-> "loop", kind |-> k, on |-> None]]

Move(r, from, to) == reader[r].at = from /\ reader' = [reader EXCEPT ![r].at = to]

-----------------------------------------------------------------------------
FeedInit ==
  /\ open = {} /\ fd = None /\ f_kill_thread = FALSE
  /\ sock_fd = None /\ l_kill = FALSE
  /\ listener = "none" /\ accepted = None
  /\ reader = [r \in Readers |-> [at |-> "none", kind |-> "pull", on |-> None]]
  /\ owner = "stopped" /\ starts = 0 /\ botched = FALSE

-----------------------------------------------------------------------------
(* The owner.                                                              *)

StartAny ==
  /\ owner = "stopped"
  /\ starts < MaxStarts /\ Unborn # {}  \* bounds
  /\ starts' = starts + 1
  /\ owner' = "running"
  /\ f_kill_thread' = FALSE

\* A reader of kind k is started on a new descriptor; what fails after that is
\* open leaves fd as it is.
OpenAndSpawn(k) ==
  /\ StartAny /\ Free # {}
  /\ open' = open \cup {Lowest} /\ fd' = Lowest
  /\ \/ Spawn(k) /\ UNCHANGED botched
     \/ botched' = TRUE /\ UNCHANGED reader
  /\ UNCHANGED <<sock_fd, l_kill, listener, accepted>>

\* open_file() and start()
StartFile == OpenAndSpawn("file")

\* start_udp_unbound_listener, start_udp_listener
StartUdp == OpenAndSpawn("udp")

\* socket_listen::start; again a failure after socket() leaves sock_fd.
ListenerStarts ==
  /\ Free # {}
  /\ l_kill' = FALSE
  /\ open' = open \cup {Lowest} /\ sock_fd' = Lowest
  /\ \/ listener' = "loop" /\ UNCHANGED botched
     \/ botched' = TRUE /\ UNCHANGED listener

\* start_tcp_listener
StartTcp ==
  /\ StartAny
  /\ fd' = None
  /\ ListenerStarts
  /\ UNCHANGED <<accepted, reader>>

\* pull(); start_stdin() is the same with another loop: no descriptor.
StartPull ==
  /\ StartAny
  /\ Spawn("pull")
  /\ UNCHANGED <<open, fd, sock_fd, l_kill, listener, accepted, botched>>

Start(k) ==
  CASE k = "file" -> StartFile
    [] k = "udp" -> StartUdp
    [] k = "tcp" -> StartTcp
    [] k = "pull" -> StartPull

\* stop(): stop_without_wait() here and in the listener, ...
StopCall ==
  /\ owner = "running"
  /\ owner' = "stopping"
  /\ f_kill_thread' = TRUE
  /\ l_kill' = TRUE
  /\ UNCHANGED <<open, fd, sock_fd, listener, accepted, reader, starts, botched>>

\* Mutant: stop() does not wait for the listener.
ListenerStopped_NoWait ==
  /\ owner = "stopping"
  /\ owner' = "waiting"
  /\ UNCHANGED <<open, fd, f_kill_thread, sock_fd, l_kill, listener, accepted, reader, starts,
                 botched>>

\* ... then wait for the listening thread, ...
ListenerStopped ==
  /\ owner = "stopping"
  /\ sock_fd = None
  /\ owner' = "waiting"
  /\ UNCHANGED <<open, fd, f_kill_thread, sock_fd, l_kill, listener, accepted, reader, starts,
                 botched>>

\* ... then for the reading thread.
StopReturn ==
  /\ owner = "waiting"
  /\ fd = None
  /\ owner' = "stopped"
  /\ UNCHANGED <<open, fd, f_kill_thread, sock_fd, l_kill, listener, accepted, reader, starts,
                 botched>>

-----------------------------------------------------------------------------
(* listen_thread                                                           *)

\* accept() of a connection; without one it fails, as the socket is
\* non-blocking, and the loop goes on.
Accept ==
  /\ listener = "loop" /\ ~l_kill
  /\ Free # {} /\ Unborn # {}  \* bounds
  /\ open' = open \cup {Lowest}
  /\ accepted' = Lowest
  /\ listener' = "accepted"
  /\ UNCHANGED <<fd, f_kill_thread, sock_fd, l_kill, reader, owner, starts, botched>>

\* Mutant: a connection that is refused is not closed.
Refuse_KeepsOpen ==
  /\ listener = "accepted" /\ fd # None
  /\ listener' = "loop" /\ accepted' = None
  /\ UNCHANGED <<open, fd, f_kill_thread, sock_fd, l_kill, reader, owner, starts, botched>>

\* add_tcp_feed(): the feed has a connection already.
Refuse ==
  /\ listener = "accepted" /\ fd # None
  /\ open' = open \ {accepted}
  /\ listener' = "loop" /\ accepted' = None
  /\ UNCHANGED <<fd, f_kill_thread, sock_fd, l_kill, reader, owner, starts, botched>>

\* Mutant: the feed takes every connection.
Adopt_Always ==
  /\ listener = "accepted"
  /\ fd' = accepted
  /\ f_kill_thread' = FALSE
  /\ Spawn("tcp")
  /\ listener' = "loop" /\ accepted' = None
  /\ UNCHANGED <<open, sock_fd, l_kill, owner, starts, botched>>

\* add_tcp_feed() takes the connection and starts its reader; this clears
\* f_kill_thread, whoever set it.
Adopt ==
  /\ listener = "accepted" /\ fd = None
  /\ fd' = accepted
  /\ f_kill_thread' = FALSE
  /\ Spawn("tcp")
  /\ listener' = "loop" /\ accepted' = None
  /\ UNCHANGED <<open, sock_fd, l_kill, owner, starts, botched>>

\* The peer is gone by the time of getpeername(): close_file().
AdoptFails ==
  /\ listener = "accepted" /\ fd = None
  /\ open' = open \ {accepted}
  /\ f_kill_thread' = FALSE
  /\ listener' = "loop" /\ accepted' = None
  /\ UNCHANGED <<fd, sock_fd, l_kill, reader, owner, starts, botched>>

\* close_socket() and pthread_exit()
ListenEnds ==
  /\ listener = "loop" /\ l_kill
  /\ open' = open \ {sock_fd}
  /\ sock_fd' = None
  /\ listener' = "none"
  /\ UNCHANGED <<fd, f_kill_thread, l_kill, accepted, reader, owner, starts, botched>>

-----------------------------------------------------------------------------
(* file_feed_thread, tcp_client_feed_thread, udp_listen_feed_thread and    *)
(* pull_thread                                                             *)

\* The thread calls poll() and read(), recv() or recvfrom() on fd, or the
\* callback.
Read(r) ==
  /\ reader[r].at = "loop" /\ ~f_kill_thread
  /\ reader' = [reader EXCEPT ![r].at = "reading",
                              ![r].on = IF reader[r].kind = "pull" THEN None ELSE fd]
  /\ UNCHANGED <<open, fd, f_kill_thread, sock_fd, l_kill, listener, accepted, owner, starts,
                 botched>>

\* External: data arrives ...
DataComes(r) ==
  /\ Move(r, "reading", "feeding")
  /\ UNCHANGED <<open, fd, f_kill_thread, sock_fd, l_kill, listener, accepted, owner, starts,
                 botched>>

\* ... or the end of the input or an error, after which the thread stops the
\* feed, or nothing yet (EAGAIN, a callback that returns nothing).
NothingComes(r) ==
  /\ Move(r, "reading", "loop")
  /\ f_kill_thread' \in {f_kill_thread, TRUE}
  /\ UNCHANGED <<open, fd, sock_fd, l_kill, listener, accepted, owner, starts, botched>>

\* parser.feed() returns.
Fed(r) ==
  /\ Move(r, "feeding", "loop")
  /\ UNCHANGED <<open, fd, f_kill_thread, sock_fd, l_kill, listener, accepted, owner, starts,
                 botched>>

\* close_file(): close(fd) ...
ReaderCloses(r) ==
  /\ reader[r].kind # "pull" /\ f_kill_thread
  /\ Move(r, "loop", "closing")
  /\ open' = open \ {fd}
  /\ UNCHANGED <<fd, f_kill_thread, sock_fd, l_kill, listener, accepted, owner, starts, botched>>

\* Mutant: the descriptor is closed and kept.
ReaderForgets_Keeps(r) ==
  /\ Move(r, "closing", "gone")
  /\ UNCHANGED <<open, fd, f_kill_thread, sock_fd, l_kill, listener, accepted, owner, starts, botched>>

\* ... and fd = -1.
ReaderForgets(r) ==
  /\ Move(r, "closing", "gone")
  /\ fd' = None
  /\ UNCHANGED <<open, f_kill_thread, sock_fd, l_kill, listener, accepted, owner, starts, botched>>

\* The other threads leave fd alone.
PullEnds(r) ==
  /\ reader[r].kind = "pull" /\ f_kill_thread
  /\ Move(r, "loop", "gone")
  /\ UNCHANGED <<open, fd, f_kill_thread, sock_fd, l_kill, listener, accepted, owner, starts, botched>>

-----------------------------------------------------------------------------
Stop == StopCall \/ ListenerStopped \/ StopReturn
Listen == Accept \/ Refuse \/ Adopt \/ AdoptFails \/ ListenEnds
Run(r) == Read(r) \/ Fed(r) \/ ReaderCloses(r) \/ ReaderForgets(r) \/ PullEnds(r)

FeedNext ==
  \/ \E k \in Kinds : Start(k)
  \/ Stop \/ Listen
  \/ \E r \in Readers : Run(r) \/ DataComes(r) \/ NothingComes(r)

FeedSpec == FeedInit /\ [][FeedNext]_feedVars

\* The threads run and stop() looks again every 20 ms.  Nobody has to call
\* start or stop, to connect, to send or to hang up.
FeedFairness ==
  /\ WF_feedVars(ListenerStopped) /\ WF_feedVars(StopReturn)
  /\ WF_feedVars(Refuse \/ Adopt \/ AdoptFails) /\ WF_feedVars(ListenEnds)
  /\ \A r \in Readers : WF_feedVars(Run(r))

-----------------------------------------------------------------------------
(* Properties.                                                             *)

FeedTypeOK ==
  /\ open \subseteq Fds
  /\ {fd, sock_fd, accepted} \subseteq Fds \cup {None}
  /\ f_kill_thread \in BOOLEAN /\ l_kill \in BOOLEAN /\ botched \in BOOLEAN
  /\ listener \in {"none", "loop", "accepted"}
  /\ reader \in [Readers -> [at : InLoop \cup {"none", "closing", "gone"},
                             kind : AllKinds, on : Fds \cup {None}]]
  /\ owner \in {"stopped", "running", "stopping", "waiting"}
  /\ starts \in 0 .. MaxStarts

\* "this build only supports one tcp input feed connection at a time"
\* (feed.cpp:743): of the threads that read a descriptor one at most is alive,
\* and what it blocks on is the feed's own, open descriptor, however
\* connections, ends of connections, stop and start interleave.
OneReader ==
  LET alive == {r \in Readers : reader[r].kind # "pull" /\ (Reading(r) \/ reader[r].at = "closing")}
  IN  /\ Cardinality(alive) <= 1
      /\ \A r \in alive : /\ fd # None
                          /\ Reading(r) => fd \in open
                          /\ reader[r].at = "reading" => reader[r].on = fd

\* "It is the responsibility of the interface class to close the socket
\* accepted by accept_socket() when it is no longer needed" (listen.h:35-38):
\* what is open is known to the feed or the listener, unless a start failed.
NothingLeaks == ~botched => open \subseteq {fd, sock_fd, accepted}

\* After stop() no thread that reads a descriptor hands anything to the parser
\* (feed.cpp:stop waits for them), until the next start.
QuietAfterStop ==
  owner = "stopped" => \A r \in Readers : reader[r].kind # "pull" => ~Reading(r)

\* stop() returns, unless a peer keeps the thread in its system call, or a
\* connection that was accepted meanwhile has cleared f_kill_thread, or a start
\* had failed.
StopReturns ==
  owner \in {"stopping", "waiting"} ~>
    \/ owner = "stopped"
    \/ \E r \in Readers : reader[r].at = "reading"
    \/ owner = "waiting" /\ ~f_kill_thread
    \/ botched
=============================================================================
