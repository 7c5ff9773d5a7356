----------------------------- MODULE FeedProofs -----------------------------
(***************************************************************************)
(* How a stream comes in, for any sources, descriptor numbers, readers and *)
(* starts: one thread reads for a feed, on the feed's own open descriptor, *)
(* none after stop(), and nothing that was opened stays open.              *)
(*                                                                         *)
(* And for every size of packet and buffer and every content of it: the    *)
(* loop of parse::feed passes no byte on twice, it stays in the buffer as  *)
(* long as it did not lose sync, and it passes on every packet of a buffer *)
(* full of packets that are asked for.                                     *)
(*                                                                         *)
(* And of the guide, for any services, tables and events: an EIT is filed  *)
(* under its own table, and a dump is whole when the count says so.        *)
(***************************************************************************)
EXTENDS Feed, FeedLoop, Guide, FiniteSetTheorems, WellFoundedInduction, TLAPS

\* A thread that uses fd: from its creation until it has forgotten fd.
Uses(r) == reader[r].kind # "pull" /\ (Reading(r) \/ reader[r].at = "closing")

\* What EXCEPT changes is there, descriptors are numbers or -1, and who closes one
\* had one.
Shapes ==
  /\ DOMAIN reader = Readers
  /\ \A r \in Readers : DOMAIN reader[r] = {"at", "kind", "on"}
  /\ \A r \in Readers : reader[r].at = "closing" => reader[r].kind # "pull"
  /\ {fd, sock_fd, accepted} \subseteq Fds \cup {None}
  /\ open \subseteq Fds

\* One thread at most uses fd, and while it reads, fd is open and neither the
\* listener nor a new connection has the number.
Alone ==
  /\ \A r, s \in Readers : Uses(r) /\ Uses(s) => r = s
  /\ \A r \in Readers : Uses(r) =>
       /\ fd # None
       /\ Reading(r) => /\ fd \in open
                        /\ listener # "none" => fd # sock_fd
                        /\ listener = "accepted" => fd # accepted
       /\ reader[r].at = "reading" => reader[r].on = fd

\* The listener has an open socket, and so has the connection it just accepted;
\* there is room for a reader, as nobody else starts one meanwhile.
Listening ==
  /\ listener # "none" => sock_fd \in open /\ sock_fd # None
  /\ listener = "accepted" => accepted \in open \ {sock_fd} /\ accepted # None /\ Unborn # {}
  /\ listener # "accepted" => accepted = None

\* When stop() waits for the reader the listener has gone, and in the end both have.
Stopped ==
  /\ owner \in {"stopped", "waiting"} => sock_fd = None /\ listener = "none"
  /\ owner = "stopped" => fd = None

IInv == Shapes /\ Alone /\ Listening /\ Stopped

\* A set of natural numbers that is not empty has a least element.
LEMMA HasLeast ==
  ASSUME NEW T \in SUBSET Nat, T # {}
  PROVE  \E d \in T : \A e \in T : d <= e
<1>1. PICK d \in T : \A e \in T : <<e, d>> \notin OpToRel(<, Nat)
  BY NatLessThanWellFounded, WFMin
<1>2. \A e \in T : ~(e < d) /\ e \in Nat /\ d \in Nat
  BY <1>1 DEF OpToRel
<1>3. \A e \in T : d <= e
  BY <1>2
<1> QED
  BY <1>1, <1>3

\* The kernel gives a number that is not open.
LEMMA LowestIsFree ==
  ASSUME Free # {}
  PROVE  Lowest \in Fds /\ Lowest \notin open /\ Lowest # None
<1>1. \E d \in Free : \A e \in Free : d <= e
  BY HasLeast, FeedAssumption DEF Free
<1>2. Lowest \in Free
  BY <1>1 DEF Lowest
<1> QED
  BY <1>2, FeedAssumption DEF Free, None

\* pthread_create() makes a thread of one that is not yet born.
LEMMA SpawnsOne ==
  ASSUME Shapes, Unborn # {}, NEW k, Spawn(k)
  PROVE  \E n \in Unborn :
           reader' = [reader EXCEPT ![n] = [at |-> "loop", kind |-> k, on |-> None]]
<1> DEFINE n == CHOOSE r \in Unborn : \A s \in Unborn : r <= s
<1>1. Unborn \in SUBSET Nat
  BY FeedAssumption DEF Unborn, Readers
<1>2. n \in Unborn
  BY <1>1, HasLeast
<1> QED
  BY <1>2 DEF Spawn

-----------------------------------------------------------------------------
LEMMA StartsOne ==
  ASSUME FeedAssumption, FeedInit
  PROVE  IInv
BY DEF FeedInit, IInv, Shapes, Alone, Listening, Stopped, Uses, Reading, InLoop

\* start() on a file or a UDP port, when nobody reads and nobody listens.
LEMMA OpenKeeps ==
  ASSUME IInv, NEW k \in {"file", "udp"}, OpenAndSpawn(k)
  PROVE  IInv'
<1> USE DEF IInv
<1>1. /\ owner = "stopped" /\ owner' = "running" /\ Unborn # {} /\ Free # {}
      /\ open' = open \cup {Lowest} /\ fd' = Lowest
      /\ UNCHANGED <<sock_fd, listener, accepted>>
  BY DEF OpenAndSpawn, StartAny
<1>2. Lowest \in Fds /\ Lowest \notin open /\ Lowest # None
  BY <1>1, LowestIsFree
<1>3. listener = "none" /\ \A r \in Readers : ~Uses(r)
  BY <1>1 DEF Stopped, Alone
<1>4. CASE UNCHANGED reader
  BY <1>1, <1>2, <1>3, <1>4 DEF Shapes, Alone, Listening, Stopped, Uses, Reading
<1>5. CASE Spawn(k)
  <2>1. PICK n \in Unborn :
           reader' = [reader EXCEPT ![n] = [at |-> "loop", kind |-> k, on |-> None]]
    BY <1>1, <1>5, SpawnsOne
  <2>2. n \in Readers /\ \A r \in Readers : r # n => reader'[r] = reader[r]
    BY <2>1 DEF Unborn, Shapes
  <2>3. reader'[n] = [at |-> "loop", kind |-> k, on |-> None]
    BY <2>1, <2>2 DEF Shapes
  <2>4. Shapes'
    BY <1>1, <1>2, <2>1, <2>2, <2>3 DEF Shapes
  <2>5. \A r \in Readers : Uses(r)' => r = n
    BY <1>3, <2>2 DEF Uses, Reading
  <2>6. Alone'
    BY <1>1, <1>2, <1>3, <2>2, <2>3, <2>5 DEF Alone, Reading
  <2> QED
    BY <1>1, <1>3, <2>4, <2>6 DEF Listening, Stopped
<1> QED
  BY <1>4, <1>5 DEF OpenAndSpawn

\* start_tcp_listener() gives fd up, which nobody uses, and opens a socket.
LEMMA TcpKeeps ==
  ASSUME IInv, StartTcp
  PROVE  IInv'
<1> USE DEF IInv
<1>1. /\ owner = "stopped" /\ owner' = "running" /\ Free # {}
      /\ fd' = None /\ open' = open \cup {Lowest} /\ sock_fd' = Lowest
      /\ listener' = "loop" \/ listener' = listener
      /\ UNCHANGED <<accepted, reader>>
  BY DEF StartTcp, StartAny, ListenerStarts
<1>2. Lowest \in Fds /\ Lowest \notin open /\ Lowest # None
  BY <1>1, LowestIsFree
<1>3. listener = "none" /\ \A r \in Readers : ~Uses(r)
  BY <1>1 DEF Stopped, Alone
<1> QED
  BY <1>1, <1>2, <1>3 DEF Shapes, Alone, Listening, Stopped, Uses, Reading

\* A reader of a callback uses no descriptor.
LEMMA PullKeeps ==
  ASSUME IInv, StartPull
  PROVE  IInv'
<1> USE DEF IInv
<1>1. /\ owner = "stopped" /\ owner' = "running" /\ Unborn # {}
      /\ Spawn("pull")
      /\ UNCHANGED <<open, fd, sock_fd, listener, accepted>>
  BY DEF StartPull, StartAny
<1>2. PICK n \in Unborn :
         reader' = [reader EXCEPT ![n] = [at |-> "loop", kind |-> "pull", on |-> None]]
  BY <1>1, SpawnsOne
<1>3. n \in Readers /\ \A r \in Readers : r # n => reader'[r] = reader[r]
  BY <1>2 DEF Unborn, Shapes
<1>4. reader'[n] = [at |-> "loop", kind |-> "pull", on |-> None]
  BY <1>2, <1>3 DEF Shapes
<1>5. Shapes'
  BY <1>1, <1>2, <1>3, <1>4 DEF Shapes
<1>6. listener = "none" /\ \A r \in Readers : ~Uses(r)
  BY <1>1 DEF Stopped, Alone
<1>7. \A r \in Readers : ~Uses(r)'
  BY <1>3, <1>4, <1>6 DEF Uses, Reading
<1> QED
  BY <1>1, <1>5, <1>6, <1>7 DEF Alone, Listening, Stopped

\* stop() only waits.
LEMMA StopKeeps ==
  ASSUME IInv, Stop
  PROVE  IInv'
<1> USE DEF IInv
<1>1. UNCHANGED <<open, fd, sock_fd, listener, accepted, reader>>
  BY DEF Stop, StopCall, ListenerStopped, StopReturn
<1>2. Shapes' /\ Alone' /\ Listening'
  BY <1>1 DEF Shapes, Alone, Listening, Uses, Reading, Unborn
<1>3. Stopped'
  <2>1. CASE StopCall
    BY <1>1, <2>1 DEF StopCall, Stopped
  <2>2. CASE ListenerStopped
    BY <1>1, <2>2 DEF ListenerStopped, Stopped, Listening
  <2>3. CASE StopReturn
    BY <1>1, <2>3 DEF StopReturn, Stopped
  <2> QED
    BY <2>1, <2>2, <2>3 DEF Stop
<1> QED
  BY <1>2, <1>3

\* accept() gives the connection a number that neither the reader nor the
\* listener has; to refuse a connection frees its number alone; to take one is
\* done when nobody uses fd.
LEMMA ListenKeeps ==
  ASSUME IInv, Listen
  PROVE  IInv'
<1> USE DEF IInv
<1>1. CASE Accept
  <2>1. /\ listener = "loop" /\ listener' = "accepted" /\ Free # {} /\ Unborn # {}
        /\ open' = open \cup {Lowest} /\ accepted' = Lowest
        /\ UNCHANGED <<fd, sock_fd, reader, owner>>
    BY <1>1 DEF Accept
  <2>2. Lowest \in Fds /\ Lowest \notin open /\ Lowest # None
    BY <2>1, LowestIsFree
  <2>3. Shapes' /\ Stopped'
    BY <2>1, <2>2 DEF Shapes, Stopped
  <2>4. Listening'
    BY <2>1, <2>2 DEF Listening, Unborn
  <2>5. Alone'
    BY <2>1, <2>2 DEF Alone, Uses, Reading
  <2> QED
    BY <2>3, <2>4, <2>5
<1>2. CASE Refuse \/ AdoptFails
  <2>1. /\ listener = "accepted" /\ listener' = "loop" /\ accepted' = None
        /\ open' = open \ {accepted}
        /\ UNCHANGED <<fd, sock_fd, reader, owner>>
    BY <1>2 DEF Refuse, AdoptFails
  <2> QED
    BY <2>1 DEF Shapes, Alone, Listening, Stopped, Uses, Reading
<1>3. CASE Adopt
  <2>1. /\ listener = "accepted" /\ listener' = "loop" /\ fd = None
        /\ fd' = accepted /\ accepted' = None /\ Spawn("tcp")
        /\ UNCHANGED <<open, sock_fd, owner>>
    BY <1>3 DEF Adopt
  <2>2. PICK n \in Unborn :
           reader' = [reader EXCEPT ![n] = [at |-> "loop", kind |-> "tcp", on |-> None]]
    BY <2>1, SpawnsOne DEF Listening
  <2>3. n \in Readers /\ \A r \in Readers : r # n => reader'[r] = reader[r]
    BY <2>2 DEF Unborn, Shapes
  <2>4. reader'[n] = [at |-> "loop", kind |-> "tcp", on |-> None]
    BY <2>2, <2>3 DEF Shapes
  <2>5. Shapes'
    BY <2>1, <2>2, <2>3, <2>4 DEF Shapes
  <2>6. \A r \in Readers : Uses(r)' => r = n
    BY <2>1, <2>3 DEF Alone, Uses, Reading
  <2>7. accepted \in open /\ accepted # sock_fd /\ accepted # None
    BY <2>1 DEF Listening
  <2>8. Alone'
    BY <2>1, <2>3, <2>4, <2>6, <2>7 DEF Alone, Reading
  <2> QED
    BY <2>1, <2>5, <2>8 DEF Listening, Stopped
<1>4. CASE ListenEnds
  <2>1. /\ listener = "loop" /\ listener' = "none"
        /\ open' = open \ {sock_fd} /\ sock_fd' = None
        /\ UNCHANGED <<fd, accepted, reader, owner>>
    BY <1>4 DEF ListenEnds
  <2> QED
    BY <2>1 DEF Shapes, Alone, Listening, Stopped, Uses, Reading
<1> QED
  BY <1>1, <1>2, <1>3, <1>4 DEF Listen

-----------------------------------------------------------------------------
\* A thread that moves on leaves the others and what is its own.
LEMMA Moves ==
  ASSUME Shapes, NEW r \in Readers, NEW from, NEW to, Move(r, from, to)
  PROVE  /\ reader[r].at = from /\ reader'[r].at = to
         /\ reader'[r].kind = reader[r].kind /\ reader'[r].on = reader[r].on
         /\ \A s \in Readers \ {r} : reader'[s] = reader[s]
         /\ DOMAIN reader' = Readers
         /\ \A s \in Readers : DOMAIN reader'[s] = {"at", "kind", "on"}
BY DEF Move, Shapes

\* A thread reads, feeds the parser and looks at f_kill_thread again.
LEMMA LoopKeeps ==
  ASSUME IInv, NEW r \in Readers, Read(r) \/ DataComes(r) \/ NothingComes(r) \/ Fed(r)
  PROVE  IInv'
<1> USE DEF IInv
<1>1. UNCHANGED <<open, fd, sock_fd, listener, accepted, owner>>
  BY DEF Read, DataComes, NothingComes, Fed
<1>2. /\ Reading(r) /\ Reading(r)' /\ reader'[r].kind = reader[r].kind
      /\ \A s \in Readers \ {r} : reader'[s] = reader[s]
      /\ reader[r].kind # "pull" /\ reader'[r].at = "reading" => reader'[r].on = fd
      /\ DOMAIN reader' = Readers
      /\ \A s \in Readers : DOMAIN reader'[s] = {"at", "kind", "on"}
  <2>1. CASE Read(r)
    BY <2>1 DEF Read, Shapes, Reading, InLoop
  <2>2. CASE DataComes(r)
    BY <2>2, Moves DEF DataComes, Reading, InLoop
  <2>3. CASE NothingComes(r)
    BY <2>3, Moves DEF NothingComes, Reading, InLoop
  <2>4. CASE Fed(r)
    BY <2>4, Moves DEF Fed, Reading, InLoop
  <2> QED
    BY <2>1, <2>2, <2>3, <2>4
<1>3. \A s \in Readers : (Reading(s)' <=> Reading(s)) /\ (Uses(s)' <=> Uses(s))
  BY <1>2 DEF Reading, Uses, InLoop
<1>4. Unborn' = Unborn
  BY <1>2 DEF Unborn, Reading, InLoop
<1>5. Shapes' /\ Stopped' /\ Listening'
  BY <1>1, <1>2, <1>4 DEF Shapes, Stopped, Listening, Reading, InLoop
<1>6. Alone'
  BY <1>1, <1>2, <1>3 DEF Alone, Uses
<1> QED
  BY <1>5, <1>6

\* A thread that ends closes what is its own, and only then forgets it: nobody
\* else uses fd until then.
LEMMA EndKeeps ==
  ASSUME IInv, NEW r \in Readers, ReaderCloses(r) \/ ReaderForgets(r) \/ PullEnds(r)
  PROVE  IInv'
<1> USE DEF IInv
<1>1. CASE ReaderCloses(r)
  <2>1. /\ reader[r].kind # "pull" /\ Move(r, "loop", "closing") /\ open' = open \ {fd}
        /\ UNCHANGED <<fd, sock_fd, listener, accepted, owner>>
    BY <1>1 DEF ReaderCloses
  <2>2. /\ reader[r].at = "loop" /\ reader'[r].at = "closing"
        /\ reader'[r].kind = reader[r].kind
        /\ \A s \in Readers \ {r} : reader'[s] = reader[s]
        /\ DOMAIN reader' = Readers
        /\ \A s \in Readers : DOMAIN reader'[s] = {"at", "kind", "on"}
    BY <2>1, Moves
  <2>3. Uses(r) /\ Reading(r)
    BY <2>1, <2>2 DEF Uses, Reading, InLoop
  <2>4. Unborn' = Unborn
    BY <2>2 DEF Unborn
  <2>5. Shapes' /\ Stopped'
    BY <2>1, <2>2 DEF Shapes, Stopped
  <2>6. Listening'
    BY <2>1, <2>3, <2>4 DEF Listening, Alone
  <2>7. Alone'
    BY <2>1, <2>2, <2>3 DEF Alone, Uses, Reading, InLoop
  <2> QED
    BY <2>5, <2>6, <2>7
<1>2. CASE ReaderForgets(r) \/ PullEnds(r)
  <2>1. /\ UNCHANGED <<open, sock_fd, listener, accepted, owner>>
        /\ reader[r].at # "none" /\ reader'[r].at = "gone"
        /\ reader'[r].kind = reader[r].kind
        /\ \A s \in Readers \ {r} : reader'[s] = reader[s]
        /\ DOMAIN reader' = Readers
        /\ \A s \in Readers : DOMAIN reader'[s] = {"at", "kind", "on"}
    BY <1>2, Moves DEF ReaderForgets, PullEnds
  <2>2. ~Uses(r)' /\ \A s \in Readers \ {r} : (Uses(s)' <=> Uses(s)) /\ (Reading(s)' <=> Reading(s))
    BY <2>1 DEF Uses, Reading, InLoop
  <2>3. Unborn' = Unborn
    BY <2>1 DEF Unborn
  <2>4. fd' = fd \/ fd' = None
    BY <1>2 DEF ReaderForgets, PullEnds
  <2>5. Shapes' /\ Stopped' /\ Listening'
    BY <2>1, <2>3, <2>4 DEF Shapes, Stopped, Listening
  <2>6. CASE fd' = fd
    BY <2>1, <2>2, <2>5, <2>6 DEF Alone
  <2>7. CASE ReaderForgets(r) /\ reader[r].kind # "pull"
    <3>1. Uses(r)
      BY <2>7, Moves DEF ReaderForgets, Uses
    <3>2. \A s \in Readers : ~Uses(s)'
      BY <2>2, <3>1 DEF Alone
    <3> QED
      BY <2>5, <3>2 DEF Alone
  <2>8. ReaderForgets(r) => reader[r].kind # "pull"
    BY Moves DEF ReaderForgets, Shapes
  <2> QED
    BY <1>2, <2>6, <2>7, <2>8 DEF PullEnds
<1> QED
  BY <1>1, <1>2

-----------------------------------------------------------------------------
LEMMA IInvHolds == FeedSpec => []IInv
<1>1. FeedInit => IInv
  BY StartsOne, FeedAssumption
<1>2. ASSUME IInv, [FeedNext]_feedVars
      PROVE  IInv'
  <2>1. ASSUME NEW k \in Kinds, Start(k)
        PROVE  IInv'
    <3>1. k \in {"file", "udp", "tcp", "pull"}
      BY FeedAssumption DEF AllKinds
    <3>2. OpenAndSpawn("file") \/ OpenAndSpawn("udp") \/ StartTcp \/ StartPull
      BY <2>1, <3>1 DEF Start, StartFile, StartUdp
    <3> QED
      BY <1>2, <3>2, OpenKeeps, TcpKeeps, PullKeeps
  <2>2. CASE Stop
    BY <1>2, <2>2, StopKeeps
  <2>3. CASE Listen
    BY <1>2, <2>3, ListenKeeps
  <2>4. ASSUME NEW r \in Readers, Run(r) \/ DataComes(r) \/ NothingComes(r)
        PROVE  IInv'
    BY <1>2, <2>4, LoopKeeps, EndKeeps DEF Run
  <2>5. CASE UNCHANGED feedVars
    BY <1>2, <2>5 DEF feedVars, IInv, Shapes, Alone, Listening, Stopped, Uses, Reading, Unborn
  <2> QED
    BY <1>2, <2>1, <2>2, <2>3, <2>4, <2>5 DEF FeedNext
<1> QED
  BY <1>1, <1>2, PTL DEF FeedSpec

\* However connections, ends of connections, stop and start interleave, one thread
\* at most reads for the feed, on the feed's own, open descriptor
\* (feed.cpp:add_tcp_feed, close_file).
THEOREM OneReads == FeedSpec => []OneReader
<1>1. IInv => OneReader
  <2> SUFFICES ASSUME IInv PROVE OneReader
    OBVIOUS
  <2> DEFINE alive == {r \in Readers : reader[r].kind # "pull" /\ (Reading(r) \/ reader[r].at = "closing")}
  <2>1. \A r \in alive : Uses(r)
    BY DEF Uses
  <2>2. Cardinality(alive) <= 1
    <3>1. CASE alive = {}
      BY <3>1, FS_EmptySet
    <3>2. CASE alive # {}
      <4>1. PICK r : r \in alive
        BY <3>2
      <4>2. alive = {r}
        BY <2>1, <4>1 DEF IInv, Alone
      <4> QED
        BY <4>2, FS_Singleton
    <3> QED
      BY <3>1, <3>2
  <2>3. \A r \in alive : /\ fd # None
                         /\ Reading(r) => fd \in open
                         /\ reader[r].at = "reading" => reader[r].on = fd
    BY <2>1 DEF IInv, Alone
  <2> QED
    BY <2>2, <2>3 DEF OneReader
<1> QED
  BY <1>1, IInvHolds, PTL

\* After stop() has returned no thread of a descriptor hands anything to the
\* parser, because it waited until fd was forgotten (feed.cpp:stop).
THEOREM StopSilences == FeedSpec => []QuietAfterStop
<1>1. IInv => QuietAfterStop
  BY DEF IInv, Stopped, Alone, QuietAfterStop, Uses
<1> QED
  BY <1>1, IInvHolds, PTL

-----------------------------------------------------------------------------
\* What is open is known, and a reader that has closed fd has left nothing behind
\* under that number but what the listener has got since.
Closing == \E r \in Readers : reader[r].at = "closing"
Kept ==
  ~botched => /\ open \subseteq {fd, sock_fd, accepted}
              /\ Closing => open \subseteq {sock_fd, accepted}

\* No step loses a descriptor, unless a start fails after it had opened one.
LEMMA KeptKeeps ==
  ASSUME IInv, Kept, [FeedNext]_feedVars
  PROVE  Kept'
<1>1. ASSUME NEW k, OpenAndSpawn(k)
      PROVE  Kept'
  <2>1. fd = None /\ ~Closing
    BY <1>1 DEF OpenAndSpawn, StartAny, IInv, Shapes, Stopped, Alone, Closing, Uses
  <2>2. Unborn # {} /\ Shapes
    BY <1>1 DEF OpenAndSpawn, StartAny, IInv
  <2>3. CASE Spawn(k)
    <3>1. PICK n \in Unborn :
             reader' = [reader EXCEPT ![n] = [at |-> "loop", kind |-> k, on |-> None]]
      BY <2>2, <2>3, SpawnsOne
    <3>2. ~Closing'
      BY <2>1, <2>2, <3>1 DEF Shapes, Closing, Unborn
    <3>3. UNCHANGED botched \/ botched'
      BY <1>1 DEF OpenAndSpawn
    <3> QED
      BY <1>1, <2>1, <3>2, <3>3 DEF OpenAndSpawn, Kept, IInv, Stopped, StartAny, Listening
  <2> QED
    BY <1>1, <2>3 DEF OpenAndSpawn, Kept
<1>2. CASE StartTcp
  <2>1. fd = None /\ sock_fd = None /\ UNCHANGED <<reader, accepted>> /\ fd' = None
    BY <1>2 DEF StartTcp, StartAny, IInv, Stopped
  <2>2. ~Closing /\ ~Closing'
    BY <2>1 DEF IInv, Shapes, Alone, Closing, Uses
  <2> QED
    BY <1>2, <2>1, <2>2 DEF StartTcp, ListenerStarts, Kept
<1>3. CASE StartPull
  <2>1. /\ Unborn # {} /\ Shapes /\ Spawn("pull")
        /\ UNCHANGED <<open, fd, sock_fd, accepted, botched>>
    BY <1>3 DEF StartPull, StartAny, IInv
  <2>2. PICK n \in Unborn :
           reader' = [reader EXCEPT ![n] = [at |-> "loop", kind |-> "pull", on |-> None]]
    BY <2>1, SpawnsOne
  <2>3. Closing' => Closing
    BY <2>1, <2>2 DEF Shapes, Closing, Unborn
  <2> QED
    BY <2>1, <2>3 DEF Kept
<1>4. CASE Stop \/ UNCHANGED feedVars
  BY <1>4 DEF Stop, StopCall, ListenerStopped, StopReturn, feedVars, Kept, Closing
<1>5. CASE Accept
  <2>1. /\ Free # {} /\ accepted = None /\ None \notin open
        /\ open' = open \cup {Lowest} /\ accepted' = Lowest
        /\ UNCHANGED <<fd, sock_fd, reader, botched>>
    BY <1>5, FeedAssumption DEF Accept, IInv, Shapes, Listening, None
  <2> QED
    BY <2>1 DEF Kept, Closing
<1>6. CASE Refuse \/ AdoptFails
  BY <1>6 DEF Refuse, AdoptFails, Kept, Closing
<1>7. CASE Adopt
  <2>1. /\ Unborn # {} /\ Shapes /\ Spawn("tcp") /\ fd = None /\ None \notin open
        /\ fd' = accepted /\ accepted' = None /\ UNCHANGED <<open, sock_fd, botched>>
    BY <1>7, FeedAssumption DEF Adopt, IInv, Shapes, Listening, None
  <2>2. PICK n \in Unborn :
           reader' = [reader EXCEPT ![n] = [at |-> "loop", kind |-> "tcp", on |-> None]]
    BY <2>1, SpawnsOne
  <2>3. ~Closing
    BY <2>1 DEF IInv, Shapes, Alone, Closing, Uses
  <2>4. ~Closing'
    BY <2>1, <2>2, <2>3 DEF Shapes, Closing, Unborn
  <2> QED
    BY <2>1, <2>4 DEF Kept
<1>8. CASE ListenEnds
  BY <1>8 DEF ListenEnds, Kept, Closing
<1>9. ASSUME NEW r \in Readers, Run(r) \/ DataComes(r) \/ NothingComes(r)
      PROVE  Kept'
  <2>1. /\ Shapes
        /\ UNCHANGED <<sock_fd, accepted, botched>>
    BY <1>9 DEF IInv, Run, Read, Fed, ReaderCloses, ReaderForgets, PullEnds, DataComes, NothingComes
  <2>2. CASE ReaderCloses(r)
    BY <2>1, <2>2 DEF ReaderCloses, Kept
  <2>3. CASE ReaderForgets(r)
    <3>1. Closing
      BY <2>1, <2>3, Moves DEF ReaderForgets, Closing
    <3> QED
      BY <2>1, <2>3, <3>1 DEF ReaderForgets, Kept
  <2>4. CASE Read(r) \/ Fed(r) \/ PullEnds(r) \/ DataComes(r) \/ NothingComes(r)
    <3>1. UNCHANGED <<open, fd>>
      BY <2>4 DEF Read, Fed, PullEnds, DataComes, NothingComes
    <3>2. CASE Read(r)
      <4>1. Closing' => Closing
        BY <2>1, <3>2 DEF Read, Shapes, Closing
      <4> QED
        BY <2>1, <3>1, <4>1 DEF Kept
    <3>3. CASE Fed(r) \/ PullEnds(r) \/ DataComes(r) \/ NothingComes(r)
      <4>1. PICK from \in {"feeding", "loop", "reading"}, to \in {"feeding", "loop", "gone"} :
              Move(r, from, to)
        BY <3>3 DEF Fed, PullEnds, DataComes, NothingComes
      <4>2. Closing' => Closing
        BY <2>1, <4>1, Moves DEF Closing
      <4> QED
        BY <2>1, <3>1, <4>2 DEF Kept
    <3> QED
      BY <2>4, <3>2, <3>3
  <2> QED
    BY <1>9, <2>2, <2>3, <2>4 DEF Run
<1> QED
  BY <1>1, <1>2, <1>3, <1>4, <1>5, <1>6, <1>7, <1>8, <1>9, FeedAssumption
     DEF FeedNext, Start, StartFile, StartUdp, Listen, AllKinds

\* Every descriptor that is open is the feed's, the listener's or the one of a
\* connection that is just being taken, so that stop() closes all (feed.cpp:
\* add_tcp_feed, close_file; listen.h:35), unless a start failed half way.
THEOREM FeedOwnsAll == FeedSpec => []NothingLeaks
<1>1. FeedInit => Kept
  BY DEF FeedInit, Kept
<1>2. IInv /\ Kept /\ [FeedNext]_feedVars => Kept'
  BY KeptKeeps
<1>3. Kept => NothingLeaks
  BY DEF Kept, NothingLeaks
<1>4. FeedSpec => []IInv
  BY IInvHolds
<1> QED
  BY <1>1, <1>2, <1>3, <1>4, PTL DEF FeedSpec

-----------------------------------------------------------------------------
(* The loop of parse::feed: what was passed on lies in order.              *)

\* The variables that count have their types.
Counts ==
  /\ i \in Int /\ p \in Nat /\ sync_offset \in 0 .. Size - 1 /\ skipped \in Nat
  /\ at \in {"top", "sync", "packet", "done"}
  /\ out \in Seq(Nat)

\* What was passed on lies in front of p.
Behind ==
  /\ \A a, b \in 1 .. Len(out) : a < b => out[a] + Size <= out[b]
  /\ \A a \in 1 .. Len(out) : out[a] + Size <= p
  /\ \A a \in 1 .. Len(out) : ~NoPacket(out[a])

\* In sync p is never ahead of the packets that were counted, and a packet is
\* looked at only if one is left.
InStep ==
  skipped = 0 =>
    /\ p + Size * i <= Count
    /\ at \in {"sync", "packet"} => i > 0
    /\ \A a \in 1 .. Len(out) : out[a] + Size <= Count

LoopInv == Counts /\ Behind /\ InStep

\* The inductive invariant holds in the beginning: nothing was counted,
\* skipped or passed on.
LEMMA InitLoopInv == Init => LoopInv
<1> USE FeedLoopAssumption
<1>1. ASSUME Init PROVE Counts
  BY <1>1 DEF Init, Counts
<1>2. ASSUME Init PROVE Len(out) = 0 /\ skipped = 0 /\ p + Size * i <= Count /\ at = "top"
  BY <1>2 DEF Init, Count
<1> QED
  BY <1>1, <1>2 DEF LoopInv, Behind, InStep

\* The step that passes a packet on: the new element lies behind the others and
\* p goes past it.
LEMMA PassOnKeepsLoop == LoopInv /\ PassOn => LoopInv'
<1> USE FeedLoopAssumption
<1> SUFFICES ASSUME LoopInv, PassOn PROVE LoopInv'
  OBVIOUS
<1>1. /\ out' = Append(out, p) /\ p' = p + Size /\ i' = i - 1 /\ at' = "top"
      /\ buf' = buf /\ stale' = stale /\ sync_offset' = sync_offset /\ skipped' = skipped
      /\ at = "packet" /\ ~NoPacket(p)
  BY DEF PassOn, NoPacket
<1>2. /\ out' \in Seq(Nat) /\ Len(out') = Len(out) + 1
      /\ \A a \in 1 .. Len(out) : out'[a] = out[a]
      /\ out'[Len(out) + 1] = p
  BY <1>1 DEF LoopInv, Counts
<1>3. Counts'
  BY <1>1, <1>2 DEF LoopInv, Counts
<1>4. \A a \in 1 .. Len(out') : a \in 1 .. Len(out) \/ a = Len(out) + 1
  BY <1>2 DEF LoopInv, Counts
<1>5. \A a \in 1 .. Len(out') : out'[a] \in Nat
  BY <1>2
<1>6. \A q : NoPacket(q)' <=> NoPacket(q)
  BY <1>1 DEF NoPacket, Byte, Count
<1>7. Behind'
  <2>1. ASSUME NEW a \in 1 .. Len(out'), NEW b \in 1 .. Len(out'), a < b
        PROVE  out'[a] + Size <= out'[b]
    <3>1. a \in 1 .. Len(out)
      BY <1>2, <2>1 DEF LoopInv, Counts
    <3>2. CASE b \in 1 .. Len(out)
      BY <1>2, <2>1, <3>1, <3>2 DEF LoopInv, Behind
    <3>3. CASE b = Len(out) + 1
      BY <1>2, <3>1, <3>3 DEF LoopInv, Behind
    <3> QED
      BY <1>4, <3>2, <3>3
  <2>2. ASSUME NEW a \in 1 .. Len(out') PROVE out'[a] + Size <= p'
    <3>1. CASE a \in 1 .. Len(out)
      <4>1. out'[a] = out[a] /\ out[a] + Size <= p /\ out[a] \in Nat
        BY <1>2, <3>1, SMTT(40) DEF LoopInv, Behind, Counts
      <4> QED
        BY <1>1, <4>1 DEF LoopInv, Counts
    <3>2. CASE a = Len(out) + 1
      BY <1>1, <1>2, <3>2 DEF LoopInv, Counts
    <3> QED
      BY <1>4, <3>1, <3>2
  <2>3. ASSUME NEW a \in 1 .. Len(out') PROVE ~NoPacket(out'[a])
    BY <1>1, <1>2, <1>4 DEF LoopInv, Behind
  <2>4. ASSUME NEW a \in 1 .. Len(out') PROVE ~NoPacket(out[a])'
    BY <2>3, <1>6, <1>1 DEF NoPacket, Byte, Count
  <2> QED
    BY <2>1, <2>2, <2>4 DEF Behind
<1>8. InStep'
  <2> SUFFICES ASSUME skipped' = 0 PROVE InStep'
    BY DEF InStep
  <2>1. p + Size * i <= Count /\ i > 0
    BY <1>1 DEF LoopInv, InStep
  <2>2. Size * i' = Size * i - Size /\ Size * (i - 1) >= 0
    BY <1>1, <2>1 DEF LoopInv, Counts
  <2>3. p + Size <= Count
    <3>1. Size * (i - 1) = Size * i - Size /\ Size * i \in Int /\ Count \in Int
      BY DEF LoopInv, Counts, Count
    <3> QED
      BY <2>1, <2>2, <3>1 DEF LoopInv, Counts
  <2>4. p' + Size * i' <= Count'
    <3>1. Count' = Count /\ Size * i \in Int /\ Count \in Int
      BY DEF LoopInv, Counts, Count
    <3> QED
      BY <1>1, <2>1, <2>2, <3>1 DEF LoopInv, Counts
  <2>5. \A a \in 1 .. Len(out') : out'[a] + Size <= Count
    BY <1>1, <1>2, <1>4, <2>3 DEF LoopInv, InStep
  <2> QED
    BY <1>1, <2>4, <2>5 DEF InStep, Count
<1> QED
  BY <1>3, <1>7, <1>8 DEF LoopInv

\* The other steps leave out alone and p where it is or take it further.
LEMMA StepLoopInv == LoopInv /\ [Next]_vars => LoopInv'
<1> USE FeedLoopAssumption
<1> SUFFICES ASSUME LoopInv, [Next]_vars PROVE LoopInv'
  OBVIOUS
<1> DEFINE Rest == Return \/ Parse \/ Skip \/ Found \/ TransportError \/ EitComplete \/ PassOver
<1>1. CASE PassOn
  BY <1>1, PassOnKeepsLoop
<1>2. CASE Rest
  <2>1. out' = out /\ buf' = buf /\ stale' = stale
    BY <1>2 DEF Return, Parse, Skip, Found, TransportError, EitComplete, PassOver
  <2>2. Counts'
    BY <1>2 DEF LoopInv, Counts, Return, Parse, Skip, Found, TransportError, EitComplete, PassOver
  <2>3. p' >= p
    BY <1>2 DEF LoopInv, Counts, Return, Parse, Skip, Found, TransportError, EitComplete, PassOver
  <2>4. \A a \in 1 .. Len(out) : out[a] \in Nat
    BY DEF LoopInv, Counts
  <2>5. Behind'
    <3>1. ASSUME NEW a \in 1 .. Len(out) PROVE out[a] + Size <= p'
      BY <2>2, <2>3, <2>4, SMTT(40) DEF LoopInv, Behind, Counts
    <3>2. ASSUME NEW a \in 1 .. Len(out) PROVE ~NoPacket(out[a])'
      BY <2>1 DEF LoopInv, Behind, NoPacket, Byte, Count
    <3> QED
      BY <2>1, <3>1, <3>2 DEF LoopInv, Behind
  <2>6. skipped' = 0 => p' + Size * i' <= Count
    <3>1. CASE Return \/ Parse \/ Found
      BY <3>1 DEF LoopInv, Counts, InStep, Return, Parse, Found
    <3>2. CASE Skip
      BY <3>2 DEF LoopInv, Counts, Skip
    <3>3. CASE TransportError \/ EitComplete
      <4>1. p' = p /\ i' = i - 1 /\ skipped' = skipped
        BY <3>3 DEF TransportError, EitComplete
      <4>2. Size * i' = Size * i - Size /\ Size * i \in Int
        BY <4>1 DEF LoopInv, Counts
      <4> QED
        BY <4>1, <4>2 DEF LoopInv, Counts, InStep, Count
    <3>4. CASE PassOver
      <4>1. p' = p + Size /\ i' = i - 1 /\ skipped' = skipped
        BY <3>4 DEF PassOver
      <4>2. Size * i' = Size * i - Size /\ Size * i \in Int
        BY <4>1 DEF LoopInv, Counts
      <4> QED
        BY <4>1, <4>2 DEF LoopInv, Counts, InStep, Count
    <3> QED
      BY <1>2, <3>1, <3>2, <3>3, <3>4
  <2>7. skipped' = 0 => (at' \in {"sync", "packet"} => i' > 0)
    BY <1>2 DEF LoopInv, Counts, InStep, Return, Parse, Skip, Found, TransportError, EitComplete, PassOver
  <2>8. skipped' = 0 => skipped = 0
    BY <1>2 DEF LoopInv, Counts, Return, Parse, Skip, Found, TransportError, EitComplete, PassOver
  <2>9. InStep'
    BY <2>1, <2>6, <2>7, <2>8 DEF LoopInv, InStep, Count
  <2> QED
    BY <2>2, <2>5, <2>9 DEF LoopInv
<1>3. CASE UNCHANGED vars
  BY <1>3 DEF vars, LoopInv, Counts, Behind, InStep, NoPacket, Byte, Count
<1> QED
  BY <1>1, <1>2, <1>3 DEF Next

\* The loop of feed() (parse.cpp:1602-1790): no byte goes out twice, what goes
\* out begins like a packet, and in sync it lies in the buffer.
THEOREM FeedSafe == Spec => [](NoByteTwice /\ InBuffer)
<1>1. LoopInv => NoByteTwice /\ InBuffer
  <2> SUFFICES ASSUME LoopInv PROVE NoByteTwice /\ InBuffer
    OBVIOUS
  <2>1. DOMAIN out = 1 .. Len(out)
    BY DEF LoopInv, Counts
  <2> QED
    BY <2>1 DEF LoopInv, Behind, InStep, NoByteTwice, InBuffer
<1> QED
  BY InitLoopInv, StepLoopInv, <1>1, PTL DEF Spec

-----------------------------------------------------------------------------
(* A buffer full of packets that are asked for.                            *)

AllData == \A q \in Starts : Byte(q) = "data"

\* Such a buffer is passed on packet by packet: p and i count the same.
Straight ==
  /\ i \in 0 .. Packets /\ p = Size * (Packets - i)
  /\ at \in {"sync", "packet"} => i > 0
  /\ at = "done" => i = 0
  /\ out \in Seq(Nat) /\ Len(out) = Packets - i
  /\ \A a \in 1 .. Len(out) : out[a] = Size * (a - 1)

\* Where the next packet begins, and the one behind it.
LEMMA Ahead ==
  ASSUME AllData, Straight
  PROVE  /\ i > 0 => Byte(p) = "data"
         /\ i > 1 => Byte(p + Size) = "data"
         /\ InSync
<1> USE FeedLoopAssumption
<1>1. i \in 0 .. Packets /\ p = Size * (Packets - i)
  BY DEF Straight
<1>2. ASSUME i > 0 PROVE Byte(p) = "data"
  <2>1. Packets - i \in 0 .. Packets - 1
    BY <1>1, <1>2
  <2> QED
    BY <1>1, <2>1 DEF AllData, Starts
<1>3. ASSUME i > 1 PROVE Byte(p + Size) = "data"
  <2>1. Packets - i + 1 \in 0 .. Packets - 1
    BY <1>1, <1>3
  <2>2. p + Size = Size * (Packets - i + 1)
    BY <1>1
  <2> QED
    BY <2>1, <2>2 DEF AllData, Starts
<1> QED
  BY <1>2, <1>3 DEF InSync, NoPacket

LEMMA InitStraight == Init => Straight
<1> SUFFICES ASSUME Init PROVE Straight
  OBVIOUS
<1>1. i = Packets /\ p = 0 /\ at = "top" /\ out = <<>> /\ Packets \in Nat /\ Size \in Nat
  BY FeedLoopAssumption DEF Init
<1>2. Packets - i = 0 /\ Size * (Packets - i) = 0
  BY <1>1
<1> QED
  BY <1>1, <1>2 DEF Straight

LEMMA StepStraight == (AllData => Straight) /\ [Next]_vars => (AllData => Straight)'
<1> USE FeedLoopAssumption
<1> SUFFICES ASSUME AllData => Straight, [Next]_vars, AllData' PROVE Straight'
  OBVIOUS
<1>1. buf' = buf /\ stale' = stale
  BY DEF Next, vars, Return, Parse, Skip, Found, TransportError, EitComplete, PassOn, PassOver
<1>2. AllData /\ Straight
  BY <1>1 DEF AllData, Byte
<1>3. /\ i > 0 => Byte(p) = "data"
      /\ InSync
  BY <1>2, Ahead
<1>4. CASE Return \/ Parse \/ Found \/ UNCHANGED vars
  BY <1>2, <1>4, SMTT(40) DEF Return, Parse, Found, vars, Straight
<1>5. ~Skip
  BY <1>3 DEF Skip
<1>6. at = "packet" => Byte(p) = "data"
  BY <1>2, <1>3 DEF Straight
<1>7. ~(TransportError \/ EitComplete \/ PassOver)
  BY <1>6 DEF TransportError, EitComplete, PassOver
<1>8. CASE PassOn
  <2>1. /\ at' = "top" /\ i' = i - 1 /\ p' = p + Size /\ out' = Append(out, p) /\ i > 0
        /\ i \in 0 .. Packets /\ p = Size * (Packets - i)
        /\ out \in Seq(Nat) /\ Len(out) = Packets - i
    BY <1>2, <1>8 DEF PassOn, Straight
  <2>2. p' = Size * (Packets - i') /\ p \in Nat
    BY <2>1
  <2>3. /\ out' \in Seq(Nat) /\ Len(out') = Packets - i'
        /\ \A a \in 1 .. Len(out) : out'[a] = out[a]
        /\ out'[Len(out) + 1] = p
    BY <2>1, <2>2, SMTT(40)
  <2>4. ASSUME NEW a \in 1 .. Len(out') PROVE out'[a] = Size * (a - 1)
    <3>1. CASE a \in 1 .. Len(out)
      BY <1>2, <2>3, <3>1 DEF Straight
    <3>2. CASE a = Len(out) + 1
      BY <2>1, <2>3, <3>2
    <3> QED
      BY <2>1, <2>3, <3>1, <3>2
  <2> QED
    BY <2>1, <2>2, <2>3, <2>4 DEF Straight
<1> QED
  BY <1>4, <1>5, <1>7, <1>8 DEF Next

LEMMA StraightPassesAll == (AllData => Straight) => AllPassedOn
<1> USE FeedLoopAssumption
<1> SUFFICES ASSUME Straight, at = "done" PROVE Passed = Starts
  BY DEF AllPassedOn, AllData
<1>1. DOMAIN out = 1 .. Packets /\ \A a \in 1 .. Packets : out[a] = Size * (a - 1)
  BY DEF Straight
<1>2. \A n \in 0 .. Packets - 1 : n + 1 \in 1 .. Packets /\ out[n + 1] = Size * n
  BY <1>1
<1>3. \A a \in 1 .. Packets : a - 1 \in 0 .. Packets - 1
  OBVIOUS
<1>4. Passed \subseteq Starts
  BY <1>1, <1>3 DEF Passed, Starts
<1>5. Starts \subseteq Passed
  BY <1>1, <1>2 DEF Passed, Starts
<1> QED
  BY <1>4, <1>5

\* A buffer full of packets that are asked for is passed on whole, whatever its
\* bytes look like between the headers (parse.cpp: parse::feed).
THEOREM FeedPassesAll == Spec => []AllPassedOn
<1>1. Init => (AllData => Straight)
  BY InitStraight
<1>2. (AllData => Straight) /\ [Next]_vars => (AllData => Straight)'
  BY StepStraight
<1>3. (AllData => Straight) => AllPassedOn
  BY StraightPassesAll
<1> QED
  BY <1>1, <1>2, <1>3, PTL DEF Spec

-----------------------------------------------------------------------------
(* The guide of a DVB stream.                                              *)

DvbTypes ==
  /\ onair \in Nat \ {0}
  /\ sdt \in 0 .. onair
  /\ dumped \in Nat
  /\ version \in [Tables -> [Services -> Nat]]
  /\ onair <= Len(Sdts) /\ sdt \in Nat
  /\ DOMAIN eit = Tables
  /\ \A x \in Tables : \A s \in DOMAIN eit[x] : s \in Services /\ eit[x][s] \in Int

\* With the first SDT a table holds only EITs that the SDT promises, or it holds
\* all of them: the empty entries that a dump adds come late.
DvbCounted ==
  onair = 1 => \A x \in Tables :
    \/ \A s \in DOMAIN eit[x] : eit[x][s] # NoVersion /\ s \in WithEit(1, x)
    \/ \A s \in WithEit(1, x) : s \in DOMAIN eit[x] /\ eit[x][s] # NoVersion

DvbInv == DvbTypes /\ FiledRight /\ DvbCounted

LEMMA InitDvbInv == DvbInit => DvbInv
<1> SUFFICES ASSUME DvbInit PROVE DvbInv
  OBVIOUS
<1>1. \A x \in Tables : DOMAIN eit[x] = {}
  BY DEF DvbInit
<1>2. DvbTypes
  BY <1>1, EpgDvbAssumption DEF DvbInit, DvbTypes
<1> QED
  BY <1>1, <1>2 DEF DvbInv, FiledRight, DvbCounted

LEMMA ServicesWithEit ==
  ASSUME NEW n \in 1 .. Len(Sdts), NEW x
  PROVE  WithEit(n, x) \subseteq Services
BY EpgDvbAssumption DEF WithEit, Services

\* The number of the services decides when they are among those that count.
LEMMA CompleteIsWhole ==
  ASSUME DvbInv, onair = 1, NEW x \in Tables, eit_x_complete(x)
  PROVE  \A s \in WithEit(1, x) : s \in DOMAIN eit[x] /\ eit[x][s] # NoVersion
<1>1. sdt = 1 /\ Cardinality(DOMAIN eit[x]) = Cardinality(WithEit(1, x))
  BY DEF DvbInv, DvbTypes, eit_x_complete
<1>2. IsFiniteSet(WithEit(1, x))
  BY EpgDvbAssumption DEF WithEit
<1> SUFFICES ASSUME \A s \in DOMAIN eit[x] : eit[x][s] # NoVersion /\ s \in WithEit(1, x)
             PROVE  \A s \in WithEit(1, x) : s \in DOMAIN eit[x] /\ eit[x][s] # NoVersion
  BY DEF DvbInv, DvbCounted
<1>3. DOMAIN eit[x] \in SUBSET WithEit(1, x)
  OBVIOUS
<1>4. DOMAIN eit[x] = WithEit(1, x)
  BY <1>1, <1>2, <1>3, FS_Subset
<1> QED
  BY <1>4

LEMMA TakeEitKeeps ==
  ASSUME DvbInv, NEW x \in Tables, NEW s \in Services, TakeEit(x, s)
  PROVE  DvbInv'
<1>1. /\ s \in WithEit(onair, x) /\ UNCHANGED <<onair, version, sdt, dumped>>
      /\ eit' = eit \/ eit' = [eit EXCEPT ![x] = Put(@, {s}, version[x][s])]
  BY DEF TakeEit, updateEIT, airVars
<1>2. CASE eit' = eit
  BY <1>1, <1>2, ZenonT(60) DEF DvbInv, DvbTypes, FiledRight, DvbCounted
<1>3. CASE eit' = [eit EXCEPT ![x] = Put(@, {s}, version[x][s])]
  <2>1. /\ DOMAIN eit' = Tables
        /\ eit'[x] = Put(eit[x], {s}, version[x][s])
        /\ \A y \in Tables : y # x => eit'[y] = eit[y]
    BY <1>3 DEF DvbInv, DvbTypes
  <2>2. /\ DOMAIN eit'[x] = DOMAIN eit[x] \cup {s}
        /\ eit'[x][s] = version[x][s]
        /\ \A u \in DOMAIN eit[x] : u # s => eit'[x][u] = eit[x][u]
    BY <2>1 DEF Put
  <2>3. version[x][s] \in Nat /\ version[x][s] # NoVersion
    BY DEF DvbInv, DvbTypes, NoVersion
  <2>4. DvbTypes'
    <3>1. \A y \in Tables : \A u \in DOMAIN eit'[y] : u \in Services /\ eit'[y][u] \in Int
      <4> SUFFICES ASSUME NEW y \in Tables, NEW u \in DOMAIN eit'[y]
                   PROVE  u \in Services /\ eit'[y][u] \in Int
        OBVIOUS
      <4>1. CASE y = x /\ u = s
        BY <2>2, <2>3, <4>1
      <4>2. CASE ~(y = x /\ u = s)
        <5>1. u \in DOMAIN eit[y] /\ eit'[y][u] = eit[y][u]
          BY <2>1, <2>2, <4>2
        <5> QED
          BY <5>1 DEF DvbInv, DvbTypes
      <4> QED
        BY <4>1, <4>2
    <3> QED
      BY <1>1, <2>1, <3>1 DEF DvbInv, DvbTypes
  <2>5. FiledRight'
    <3> SUFFICES ASSUME NEW y \in Tables, NEW u \in DOMAIN eit'[y], eit'[y][u] # NoVersion
                 PROVE  eit'[y][u] <= version[y][u] /\ \E n \in 1 .. onair : u \in WithEit(n, y)
      BY <1>1 DEF FiledRight
    <3>1. CASE y = x /\ u = s
      BY <1>1, <2>2, <2>3, <3>1 DEF DvbInv, DvbTypes
    <3>2. CASE ~(y = x /\ u = s)
      BY <1>1, <2>1, <2>2, <3>2 DEF DvbInv, FiledRight
    <3> QED
      BY <3>1, <3>2
  <2>6. DvbCounted'
    <3> SUFFICES ASSUME onair = 1, NEW y \in Tables
                 PROVE  \/ \A u \in DOMAIN eit'[y] : eit'[y][u] # NoVersion /\ u \in WithEit(1, y)
                        \/ \A u \in WithEit(1, y) : u \in DOMAIN eit'[y] /\ eit'[y][u] # NoVersion
      BY <1>1 DEF DvbCounted
    <3>1. CASE y = x
      BY <1>1, <2>2, <2>3, <3>1 DEF DvbInv, DvbCounted
    <3>2. CASE y # x
      BY <2>1, <3>2 DEF DvbInv, DvbCounted
    <3> QED
      BY <3>1, <3>2
  <2> QED
    BY <2>4, <2>5, <2>6 DEF DvbInv
<1> QED
  BY <1>1, <1>2, <1>3

LEMMA DumpKeeps ==
  ASSUME DvbInv, Dump
  PROVE  DvbInv'
<1> DEFINE x == dumped
<1>1. /\ x \in Tables /\ eit_x_complete(x) /\ dumped' = x + 1
      /\ eit' = [eit EXCEPT ![x] = Put(@, WithEit(sdt, 0) \ DOMAIN @, NoVersion)]
      /\ UNCHANGED <<onair, version, sdt>>
  BY DEF Dump, airVars
<1> DEFINE K == WithEit(sdt, 0) \ DOMAIN eit[x]
<1>2. /\ DOMAIN eit' = Tables
      /\ eit'[x] = Put(eit[x], K, NoVersion)
      /\ \A y \in Tables : y # x => eit'[y] = eit[y]
  BY <1>1 DEF DvbInv, DvbTypes
<1>3. K \subseteq Services
  <2>1. sdt \in 1 .. Len(Sdts)
    BY <1>1, EpgDvbAssumption DEF eit_x_complete, DvbInv, DvbTypes
  <2> QED
    BY <2>1, ServicesWithEit
<1>4. /\ DOMAIN eit'[x] = DOMAIN eit[x] \cup K
      /\ DOMAIN eit[x] \subseteq DOMAIN eit'[x]
      /\ \A s \in DOMAIN eit[x] : eit'[x][s] = eit[x][s]
      /\ \A s \in DOMAIN eit'[x] : s \notin DOMAIN eit[x] => eit'[x][s] = NoVersion
      /\ \A y \in Tables : y # x => eit'[y] = eit[y]
  <2> HIDE DEF K
  <2>1. /\ DOMAIN eit'[x] = DOMAIN eit[x] \cup K
        /\ \A s \in DOMAIN eit[x] \cup K : eit'[x][s] = IF s \in K THEN NoVersion ELSE eit[x][s]
    BY <1>2 DEF Put
  <2>2. K \cap DOMAIN eit[x] = {}
    BY DEF K
  <2> QED
    BY <1>2, <2>1, <2>2
<1> HIDE DEF K
<1>5. DvbTypes'
  BY <1>2, <1>1, <1>4, <1>3 DEF NoVersion, DvbInv, DvbTypes
<1>6. ASSUME onair = 1 PROVE \A s \in WithEit(1, x) : s \in DOMAIN eit[x] /\ eit[x][s] # NoVersion
  BY <1>1, <1>6, CompleteIsWhole
<1> HIDE DEF x
<1>7. FiledRight'
  <2> SUFFICES ASSUME NEW y \in Tables, NEW s \in DOMAIN eit'[y], eit'[y][s] # NoVersion
               PROVE  eit'[y][s] <= version[y][s] /\ \E n \in 1 .. onair : s \in WithEit(n, y)
    BY <1>1 DEF FiledRight
  <2>1. s \in DOMAIN eit[y] /\ eit'[y][s] = eit[y][s]
    BY <1>4
  <2> QED
    BY <2>1 DEF DvbInv, FiledRight
<1>8. DvbCounted'
  <2> SUFFICES ASSUME onair = 1, NEW y \in Tables
               PROVE  \/ \A u \in DOMAIN eit'[y] : eit'[y][u] # NoVersion /\ u \in WithEit(1, y)
                      \/ \A u \in WithEit(1, y) : u \in DOMAIN eit'[y] /\ eit'[y][u] # NoVersion
    BY <1>1 DEF DvbCounted
  <2>1. CASE y = x
    BY <1>4, <1>6, <2>1
  <2>2. CASE y # x
    BY <1>4, <2>2 DEF DvbInv, DvbCounted
  <2> QED
    BY <2>1, <2>2
<1> QED
  BY <1>5, <1>7, <1>8 DEF DvbInv

LEMMA DvbStepKeeps == DvbInv /\ [DvbNext]_dvbVars => DvbInv'
<1> SUFFICES ASSUME DvbInv, [DvbNext]_dvbVars PROVE DvbInv'
  OBVIOUS
<1>1. ASSUME NEW x \in Tables, NEW s \in Services, NewEit(x, s) PROVE DvbInv'
  <2>1. /\ version' = [version EXCEPT ![x][s] = @ + 1]
        /\ UNCHANGED <<onair, sdt, dumped, eit>>
    BY <1>1 DEF NewEit
  <2>2. /\ version' \in [Tables -> [Services -> Nat]]
        /\ \A y \in Tables, u \in Services : version[y][u] <= version'[y][u]
    BY <2>1 DEF DvbInv, DvbTypes
  <2>3. FiledRight'
    <3> SUFFICES ASSUME NEW y \in Tables, NEW u \in DOMAIN eit[y], eit[y][u] # NoVersion
                 PROVE  eit[y][u] <= version'[y][u] /\ \E n \in 1 .. onair : u \in WithEit(n, y)
      BY <2>1 DEF FiledRight
    <3>1. eit[y][u] <= version[y][u] /\ \E n \in 1 .. onair : u \in WithEit(n, y)
      BY DEF DvbInv, FiledRight
    <3>2. u \in Services /\ eit[y][u] \in Int /\ version[y][u] \in Nat /\ version'[y][u] \in Nat
      BY <2>2 DEF DvbInv, DvbTypes
    <3>3. version[y][u] <= version'[y][u]
      BY <2>2, <3>2
    <3> QED
      BY <3>1, <3>2, <3>3
  <2> QED
    BY <2>1, <2>2, <2>3 DEF DvbInv, DvbTypes, DvbCounted
<1>2. CASE NewSdt
  BY <1>2 DEF NewSdt, DvbInv, DvbTypes, FiledRight, DvbCounted
<1>3. CASE TakeSdt \/ EndOfBuffer \/ NextBuffer \/ reset \/ UNCHANGED dvbVars
  BY <1>3 DEF TakeSdt, EndOfBuffer, NextBuffer, reset, dvbVars, airVars, DvbInv, DvbTypes, FiledRight, DvbCounted
<1> QED
  BY <1>1, <1>2, <1>3, TakeEitKeeps, DumpKeeps DEF DvbNext

LEMMA DvbStepWhole ==
  DvbInv /\ [DvbNext]_dvbVars =>
    [\A x \in Tables : dumped = x /\ dumped' = x + 1 /\ onair = 1 =>
       \A s \in WithEit(sdt, x) : s \in DOMAIN eit[x] /\ eit[x][s] # NoVersion]_dvbVars
<1> SUFFICES ASSUME DvbInv, DvbNext, NEW x \in Tables, dumped = x, dumped' = x + 1, onair = 1
             PROVE  \A s \in WithEit(sdt, x) : s \in DOMAIN eit[x] /\ eit[x][s] # NoVersion
  OBVIOUS
<1>1. x \in Nat /\ x + 1 # x /\ x + 1 # 0
  BY DEF DvbInv, DvbTypes
<1>2. Dump
  BY <1>1 DEF DvbNext, NewEit, TakeEit, NewSdt, TakeSdt, EndOfBuffer, NextBuffer, reset
<1>3. eit_x_complete(x) /\ sdt = 1
  BY <1>2 DEF Dump, eit_x_complete, DvbInv, DvbTypes
<1> QED
  BY <1>3, CompleteIsWhole

-----------------------------------------------------------------------------
(* The guide of an ATSC stream.                                            *)

AtscTypes ==
  /\ guide \in 1 .. Len(Guides)
  /\ decoded_mgt \in 0 .. guide /\ decoded_vct \in 0 .. guide
  /\ dumped_eit \in Nat
  /\ options \in Settings
  /\ DOMAIN decoded_atsc_eit = Numbers

\* A pid has the number under which the MGT that was processed last lists it.
PidsListed ==
  \A pid \in DOMAIN eit_pids :
    /\ ~options.scan /\ Wanted(eit_pids[pid]) /\ eit_pids[pid] \in Numbers
    /\ decoded_mgt # 0 /\ pid = EitPid(SliceOf(decoded_mgt, eit_pids[pid]))

\* A demux that outlived its number is on a pid of a slice that is over, on which
\* nothing comes any more.
ListedKept ==
  \A n \in Int : n >= decoded_mgt - 1 /\ EitPid(n) \in DOMAIN h_demux => EitPid(n) \in DOMAIN eit_pids

AtscKept ==
  SameChannels => \A k \in Numbers : \A s \in DOMAIN decoded_atsc_eit[k] :
    s \in Guides[1] /\ decoded_atsc_eit[k][s] # NoEit

AtscInv == AtscTypes /\ PidsListed /\ ListedKept /\ FiledAsListed /\ AtscKept

LEMMA AtscConstants ==
  /\ LastEit \in Nat /\ Numbers = 0 .. LastEit
  /\ Len(Guides) \in Nat \ {0} /\ DOMAIN Guides = 1 .. Len(Guides)
  /\ \A o \in Settings : o.limit \in Int
<1>1. Guides \in Seq(SUBSET Nat) /\ Guides # <<>>
  BY GuidesAssumption
<1>2. Len(Guides) \in Nat \ {0} /\ DOMAIN Guides = 1 .. Len(Guides)
  BY <1>1
<1>3. LastEit \in Nat
  BY EpgAtscAssumption
<1>4. ASSUME NEW o \in Settings PROVE o.limit \in Int
  BY SettingsAssumption
<1> QED
  BY <1>2, <1>3, <1>4 DEF Numbers

LEMMA InitAtscInv == AtscInit => AtscInv
<1> SUFFICES ASSUME AtscInit PROVE AtscInv
  OBVIOUS
<1>1. AtscTypes
  <2>1. guide \in 1 .. Len(Guides)
    BY AtscConstants DEF AtscInit
  <2> QED
    BY <2>1, AtscConstants DEF AtscInit, AtscTypes
<1>2. DOMAIN eit_pids = {} /\ DOMAIN h_demux = {}
  BY DEF AtscInit
<1>3. \A k \in Numbers : DOMAIN decoded_atsc_eit[k] = {}
  BY DEF AtscInit
<1> QED
  BY <1>1, <1>2, <1>3 DEF AtscInv, PidsListed, ListedKept, FiledAsListed, AtscKept

\* What process_mgt lists.
LEMMA EitPidsOfIs ==
  ASSUME NEW n \in Nat \ {0}
  PROVE  /\ \A pid \in DOMAIN EitPidsOf(n) :
              EitPidsOf(n)[pid] \in EitsOf(n) /\ pid = EitPid(SliceOf(n, EitPidsOf(n)[pid]))
         /\ \A k \in EitsOf(n) : EitPid(SliceOf(n, k)) \in DOMAIN EitPidsOf(n)
<1>1. EitsOf(n) \subseteq Numbers /\ \A k \in Numbers : k \in Int /\ ListedBy(n)[k] = SliceOf(n, k)
  BY AtscConstants DEF EitsOf, ListedBy
<1>2. DOMAIN EitPidsOf(n) = {EitPid(SliceOf(n, k)) : k \in EitsOf(n)}
  BY <1>1 DEF EitPidsOf
<1>3. ASSUME NEW k \in EitsOf(n) PROVE EitPidsOf(n)[EitPid(SliceOf(n, k))] = k
  <2>1. EitPid(SliceOf(n, k))[2] - n + 1 = k
    BY <1>1 DEF EitPid, SliceOf
  <2>2. EitPid(SliceOf(n, k)) \in {EitPid(ListedBy(n)[j]) : j \in EitsOf(n)}
    BY <1>1
  <2> QED
    BY <2>1, <2>2 DEF EitPidsOf
<1> QED
  BY <1>2, <1>3

\* A slice that was listed with a number is listed with a lower one, or is over.
LEMMA TakeMgtKeeps ==
  ASSUME AtscInv, TakeMgt
  PROVE  AtscInv'
<1>1. /\ decoded_mgt' = guide /\ eit_pids' = EitPidsOf(guide)
      /\ DOMAIN h_demux' = DOMAIN h_demux \cup AttachedBy(guide)
      /\ UNCHANGED <<options, guide, decoded_vct, decoded_atsc_eit, dumped_eit>>
  BY DEF TakeMgt, process_mgt, broadcast, collected
<1>2. guide \in Nat \ {0} /\ decoded_mgt \in Nat /\ decoded_mgt <= guide
  BY AtscConstants DEF AtscInv, AtscTypes
<1>3. \A k \in EitsOf(guide) : ~options.scan /\ Wanted(k) /\ k \in Numbers
  BY DEF EitsOf
<1>4. AtscTypes'
  BY <1>1, <1>2 DEF AtscInv, AtscTypes
<1>5. PidsListed'
  BY <1>1, <1>2, <1>3, EitPidsOfIs DEF PidsListed, Wanted
<1>6. ListedKept'
  <2> SUFFICES ASSUME NEW n \in Int, n >= guide - 1, EitPid(n) \in DOMAIN h_demux'
               PROVE  EitPid(n) \in DOMAIN EitPidsOf(guide)
    BY <1>1 DEF ListedKept
  <2>1. \A m : EitPid(n) # EttPid(m)
    BY DEF EitPid, EttPid
  <2>2. EitPid(n) \in AttachedBy(guide) => EitPid(n) \in DOMAIN EitPidsOf(guide)
    BY <2>1 DEF AttachedBy
  <2>3. ASSUME EitPid(n) \in DOMAIN h_demux PROVE EitPid(n) \in DOMAIN EitPidsOf(guide)
    <3>1. n >= decoded_mgt - 1
      BY <1>2
    <3>2. EitPid(n) \in DOMAIN eit_pids
      BY <2>3, <3>1 DEF AtscInv, ListedKept
    <3> DEFINE k == eit_pids[EitPid(n)]
               j == n - guide + 1
    <3>3. ~options.scan /\ Wanted(k) /\ k \in Numbers /\ EitPid(n) = EitPid(SliceOf(decoded_mgt, k))
      BY <3>2 DEF AtscInv, PidsListed
    <3> HIDE DEF k
    <3>4. n = SliceOf(decoded_mgt, k)
      BY <3>3 DEF EitPid
    <3>5. j \in Numbers /\ j <= k /\ SliceOf(guide, j) = n
      BY <1>2, <3>3, <3>4, AtscConstants DEF SliceOf
    <3>6. Wanted(j)
      BY <3>3, <3>5, AtscConstants DEF Wanted, AtscInv, AtscTypes
    <3>7. j \in EitsOf(guide)
      BY <3>3, <3>5, <3>6 DEF EitsOf
    <3> QED
      BY <1>2, <3>5, <3>7, EitPidsOfIs
  <2> QED
    BY <1>1, <2>2, <2>3
<1>7. FiledAsListed'
  BY <1>1, <1>2 DEF AtscInv, FiledAsListed, NoEit
<1>8. AtscKept'
  BY <1>1 DEF AtscInv, AtscKept, SameChannels, NoEit
<1> QED
  BY <1>4, <1>5, <1>6, <1>7, <1>8 DEF AtscInv

LEMMA EraseIs ==
  ASSUME NEW f, NEW x
  PROVE  /\ DOMAIN Erase(f, x) = DOMAIN f \ {x}
         /\ \A y \in DOMAIN f \ {x} : Erase(f, x)[y] = f[y]
BY DEF Erase, Restrict

LEMMA DropEitKeeps ==
  ASSUME AtscInv, NEW n \in Slices, DropEit(EitPid(n))
  PROVE  AtscInv'
<1> DEFINE pid == EitPid(n)
<1>1. /\ h_demux' = Erase(h_demux, pid) /\ eit_pids' = Erase(eit_pids, pid)
      /\ UNCHANGED <<options, guide, decoded_mgt, decoded_vct, decoded_atsc_eit, dumped_eit>>
  BY DEF DropEit, broadcast, collected
<1> HIDE DEF pid
<1>2. /\ DOMAIN h_demux' = DOMAIN h_demux \ {pid}
      /\ DOMAIN eit_pids' = DOMAIN eit_pids \ {pid}
      /\ \A y \in DOMAIN eit_pids \ {pid} : eit_pids'[y] = eit_pids[y]
  BY <1>1, EraseIs
<1>3. PidsListed'
  BY <1>1, <1>2 DEF AtscInv, PidsListed, Wanted
<1>4. ListedKept'
  BY <1>1, <1>2 DEF AtscInv, ListedKept
<1> QED
  BY <1>1, <1>3, <1>4 DEF AtscInv, AtscTypes, FiledAsListed, AtscKept, SameChannels

\* Every slice that is on the air is listed by the MGT that was decoded last.
LEMMA TakeAtscEitKeeps ==
  ASSUME AtscInv, NEW n \in Slices, NEW s \in Sources, TakeAtscEit(n, s)
  PROVE  AtscInv'
<1> DEFINE pid == EitPid(n)
           k == eit_pids[pid]
<1>1. OnAir(n) /\ s \in Guides[guide] /\ pid \in DOMAIN h_demux
  BY DEF TakeAtscEit
<1>2. n \in Nat /\ n >= decoded_mgt - 1
  BY <1>1, AtscConstants DEF Slices, OnAir, SliceOf, AtscInv, AtscTypes
<1>3. pid \in DOMAIN eit_pids
  BY <1>1, <1>2 DEF AtscInv, ListedKept
<1>4. /\ k \in Numbers /\ decoded_mgt # 0 /\ pid = EitPid(SliceOf(decoded_mgt, k))
  BY <1>3 DEF AtscInv, PidsListed
<1>5. n = SliceOf(decoded_mgt, k)
  BY <1>4 DEF EitPid
<1>6. /\ decoded_atsc_eit' = decoded_atsc_eit \/ decoded_atsc_eit' = updateAtscEIT(k, s, n)
      /\ DOMAIN h_demux' = DOMAIN h_demux
      /\ UNCHANGED <<options, guide, decoded_mgt, decoded_vct, eit_pids, dumped_eit>>
  BY <1>3 DEF TakeAtscEit, Current, broadcast
<1> HIDE DEF k
<1>7. CASE decoded_atsc_eit' = decoded_atsc_eit
  BY <1>6, <1>7 DEF AtscInv, AtscTypes, PidsListed, ListedKept, FiledAsListed, AtscKept,
                    Wanted, SameChannels
<1>8. CASE decoded_atsc_eit' = updateAtscEIT(k, s, n)
  <2>1. /\ DOMAIN decoded_atsc_eit' = Numbers
        /\ decoded_atsc_eit'[k] = Store(decoded_atsc_eit[k], s, AtscEit(n))
        /\ \A j \in Numbers : j # k => decoded_atsc_eit'[j] = decoded_atsc_eit[j]
    BY <1>4, <1>8 DEF updateAtscEIT, AtscInv, AtscTypes
  <2>2. /\ DOMAIN decoded_atsc_eit'[k] = DOMAIN decoded_atsc_eit[k] \cup {s}
        /\ decoded_atsc_eit'[k][s] = AtscEit(n)
        /\ \A c \in DOMAIN decoded_atsc_eit[k] :
             c # s => decoded_atsc_eit'[k][c] = decoded_atsc_eit[k][c]
    BY <2>1 DEF Store
  <2>3. AtscEit(n).slice = n /\ AtscEit(n) # NoEit
    <3>1. AtscEit(n).slice = n /\ NoEit.slice = -1 /\ n # -1
      BY <1>2 DEF AtscEit, NoEit
    <3> QED
      BY <3>1
  <2>4. \A j \in Numbers : \A c \in DOMAIN decoded_atsc_eit'[j] :
          \/ j = k /\ c = s
          \/ c \in DOMAIN decoded_atsc_eit[j] /\ decoded_atsc_eit'[j][c] = decoded_atsc_eit[j][c]
    BY <2>1, <2>2
  <2>5. FiledAsListed'
    <3> SUFFICES ASSUME NEW j \in Numbers, NEW c \in DOMAIN decoded_atsc_eit'[j],
                        decoded_atsc_eit'[j][c] # NoEit
                 PROVE  \E m \in 1 .. decoded_mgt : decoded_atsc_eit'[j][c].slice = SliceOf(m, j)
      BY <1>6 DEF FiledAsListed, NoEit
    <3>1. CASE j = k /\ c = s
      <4>1. decoded_mgt \in 1 .. decoded_mgt
        BY <1>4 DEF AtscInv, AtscTypes
      <4> QED
        BY <1>5, <2>2, <2>3, <3>1, <4>1
    <3>2. CASE ~(j = k /\ c = s)
      BY <2>4, <3>2 DEF AtscInv, FiledAsListed
    <3> QED
      BY <3>1, <3>2
  <2>6. AtscKept'
    <3> SUFFICES ASSUME SameChannels, NEW j \in Numbers, NEW c \in DOMAIN decoded_atsc_eit'[j]
                 PROVE  c \in Guides[1] /\ decoded_atsc_eit'[j][c] # NoEit
      BY <1>6 DEF AtscKept, SameChannels, NoEit
    <3>1. CASE j = k /\ c = s
      <4>1. Guides[guide] = Guides[1]
        BY DEF SameChannels, AtscInv, AtscTypes
      <4> QED
        BY <1>1, <2>2, <2>3, <3>1, <4>1
    <3>2. CASE ~(j = k /\ c = s)
      BY <2>4, <3>2 DEF AtscInv, AtscKept
    <3> QED
      BY <3>1, <3>2
  <2> QED
    BY <1>6, <2>1, <2>5, <2>6 DEF AtscInv, AtscTypes, PidsListed, ListedKept, Wanted
<1> QED
  BY <1>6, <1>7, <1>8

\* As in a DVB guide, the number of the channels decides when they are among
\* those of the VCT.
LEMMA CompleteIsChannels ==
  ASSUME AtscInv, SameChannels, NEW k \in Numbers, eit_x_complete_atsc(k)
  PROVE  /\ VctChannels = Guides[1]
         /\ DOMAIN decoded_atsc_eit[k] = Guides[1]
         /\ \A s \in Guides[1] : decoded_atsc_eit[k][s] # NoEit
<1>1. decoded_vct \in 1 .. guide
  BY DEF eit_x_complete_atsc, VctChannels, AtscInv, AtscTypes
<1>2. VctChannels = Guides[1]
  BY <1>1 DEF VctChannels, SameChannels, AtscInv, AtscTypes
<1>3. 1 \in DOMAIN Guides
  BY <1>1, AtscConstants DEF AtscInv, AtscTypes
<1>4. IsFiniteSet(Guides[1])
  BY <1>3, GuidesAssumption
<1>5. DOMAIN decoded_atsc_eit[k] \in SUBSET Guides[1]
  BY DEF AtscInv, AtscKept
<1>6. Cardinality(DOMAIN decoded_atsc_eit[k]) = Cardinality(Guides[1])
  BY <1>2 DEF eit_x_complete_atsc
<1>7. DOMAIN decoded_atsc_eit[k] = Guides[1]
  BY <1>4, <1>5, <1>6, FS_Subset
<1> QED
  BY <1>2, <1>7 DEF AtscInv, AtscKept

LEMMA EndAtscBufferKeeps ==
  ASSUME AtscInv, EndAtscBuffer
  PROVE  AtscInv'
<1>1. PICK to \in dumped_eit + 1 .. LastEit + 1 :
        /\ \A k \in dumped_eit .. to - 1 : MayDump(k)
        /\ dumped_eit' = to
        /\ decoded_atsc_eit' = [k \in Numbers |->
             IF k \in dumped_eit .. to - 1 THEN dump_eit_x_atsc(decoded_atsc_eit[k])
             ELSE decoded_atsc_eit[k]]
        /\ UNCHANGED <<options, guide, decoded_mgt, decoded_vct, eit_pids, h_demux>>
  BY DEF EndAtscBuffer, broadcast, demuxed
<1>2. dumped_eit \in Nat /\ to \in Nat
  BY <1>1, AtscConstants DEF AtscInv, AtscTypes
<1>3. \A k \in Numbers : \A s \in DOMAIN decoded_atsc_eit'[k] :
        IF s \in DOMAIN decoded_atsc_eit[k]
        THEN decoded_atsc_eit'[k][s] = decoded_atsc_eit[k][s]
        ELSE decoded_atsc_eit'[k][s] = NoEit /\ MayDump(k) /\ s \in VctChannels
  <2> SUFFICES ASSUME NEW k \in Numbers
               PROVE  \A s \in DOMAIN decoded_atsc_eit'[k] :
                 IF s \in DOMAIN decoded_atsc_eit[k]
                 THEN decoded_atsc_eit'[k][s] = decoded_atsc_eit[k][s]
                 ELSE decoded_atsc_eit'[k][s] = NoEit /\ MayDump(k) /\ s \in VctChannels
    OBVIOUS
  <2>1. CASE k \in dumped_eit .. to - 1
    <3>1. MayDump(k) /\ decoded_atsc_eit'[k] = dump_eit_x_atsc(decoded_atsc_eit[k])
      BY <1>1, <2>1
    <3> QED
      BY <3>1 DEF dump_eit_x_atsc
  <2>2. CASE k \notin dumped_eit .. to - 1
    BY <1>1, <2>2
  <2> QED
    BY <2>1, <2>2
<1>4. AtscTypes'
  BY <1>1, <1>2 DEF AtscInv, AtscTypes
<1>5. FiledAsListed'
  BY <1>1, <1>3 DEF AtscInv, FiledAsListed, NoEit
<1>6. AtscKept'
  <2> SUFFICES ASSUME SameChannels, NEW k \in Numbers, NEW s \in DOMAIN decoded_atsc_eit'[k]
               PROVE  s \in Guides[1] /\ decoded_atsc_eit'[k][s] # NoEit
    BY <1>1 DEF AtscKept, SameChannels, NoEit
  <2>1. s \in DOMAIN decoded_atsc_eit[k]
    <3> SUFFICES ASSUME s \notin DOMAIN decoded_atsc_eit[k] PROVE FALSE
      OBVIOUS
    <3>1. eit_x_complete_atsc(k) /\ s \in VctChannels
      BY <1>3 DEF MayDump
    <3> QED
      BY <3>1, CompleteIsChannels
  <2> QED
    BY <1>3, <2>1 DEF AtscInv, AtscKept
<1> QED
  BY <1>1, <1>4, <1>5, <1>6 DEF AtscInv, PidsListed, ListedKept, Wanted

LEMMA AtscStepKeeps == AtscInv /\ [AtscNext]_atscVars => AtscInv'
<1> SUFFICES ASSUME AtscInv, [AtscNext]_atscVars PROVE AtscInv'
  OBVIOUS
<1>1. CASE NextGuide
  <2>1. /\ guide < Len(Guides) /\ guide' = guide + 1
        /\ UNCHANGED <<options, decoded_mgt, decoded_vct, eit_pids, h_demux, decoded_atsc_eit, dumped_eit>>
    BY <1>1 DEF NextGuide, demuxed, collected
  <2>2. AtscTypes'
    BY <2>1, AtscConstants DEF AtscInv, AtscTypes
  <2>3. SameChannels' => SameChannels
    BY <2>1 DEF SameChannels, AtscInv, AtscTypes
  <2> QED
    BY <2>1, <2>2, <2>3 DEF AtscInv, PidsListed, ListedKept, FiledAsListed, AtscKept, Wanted, NoEit
<1>2. ASSUME NEW e \in Shows, TakeEtt(e) PROVE AtscInv'
  <2>1. /\ DOMAIN h_demux' = DOMAIN h_demux
        /\ UNCHANGED <<options, guide, decoded_mgt, decoded_vct, eit_pids, decoded_atsc_eit, dumped_eit>>
    BY <1>2 DEF TakeEtt, broadcast
  <2> QED
    BY <2>1 DEF AtscInv, AtscTypes, PidsListed, ListedKept, FiledAsListed, AtscKept,
                SameChannels, Wanted, NoEit
<1>3. ASSUME NEW n \in Slices, DropEtt(EttPid(n)) PROVE AtscInv'
  <2>1. /\ DOMAIN h_demux' = DOMAIN h_demux \ {EttPid(n)}
        /\ UNCHANGED <<options, guide, decoded_mgt, decoded_vct, eit_pids, decoded_atsc_eit, dumped_eit>>
    BY <1>3, EraseIs DEF DropEtt, broadcast, collected
  <2> QED
    BY <2>1 DEF AtscInv, AtscTypes, PidsListed, ListedKept, FiledAsListed, AtscKept,
                SameChannels, Wanted, NoEit
<1>4. CASE resetAtsc
  <2>1. /\ DOMAIN h_demux' = {} /\ dumped_eit' = 0
        /\ UNCHANGED <<options, guide, decoded_mgt, decoded_vct, eit_pids, decoded_atsc_eit>>
    BY <1>4 DEF resetAtsc, broadcast, collected
  <2> QED
    BY <2>1 DEF AtscInv, AtscTypes, PidsListed, ListedKept, FiledAsListed, AtscKept,
                SameChannels, Wanted, NoEit
<1>5. CASE TakeVct
  <2>1. /\ decoded_vct' = guide
        /\ UNCHANGED <<options, guide, decoded_mgt, eit_pids, h_demux, decoded_atsc_eit, dumped_eit>>
    BY <1>5 DEF TakeVct, broadcast, demuxed, collected
  <2>2. AtscTypes'
    BY <2>1 DEF AtscInv, AtscTypes
  <2> QED
    BY <2>1, <2>2 DEF AtscInv, PidsListed, ListedKept, FiledAsListed, AtscKept,
                SameChannels, Wanted, NoEit
<1>6. CASE UNCHANGED atscVars \/ \E n \in Slices : NewAtscEit(n)
  <2>1. UNCHANGED <<options, guide, decoded_mgt, decoded_vct, eit_pids, h_demux, decoded_atsc_eit, dumped_eit>>
    BY <1>6 DEF NewAtscEit, atscVars, demuxed, collected
  <2> QED
    BY <2>1 DEF AtscInv, AtscTypes, PidsListed, ListedKept, FiledAsListed, AtscKept,
                SameChannels, Wanted, NoEit
<1> QED
  BY <1>1, <1>2, <1>3, <1>4, <1>5, <1>6, TakeMgtKeeps, TakeAtscEitKeeps, DropEitKeeps,
     EndAtscBufferKeeps DEF AtscNext, TakeAny

LEMMA AtscStepWhole ==
  AtscInv /\ [AtscNext]_atscVars =>
    [\A k \in dumped_eit .. dumped_eit' - 1 : SameChannels =>
       /\ \A s \in VctChannels : s \in DOMAIN decoded_atsc_eit[k] /\ decoded_atsc_eit[k][s] # NoEit
       /\ options.collect =>
            \A e \in EventsOf(k) : e.etm => EttKey(EtmId(e)) \in DOMAIN decoded_ett[k]]_atscVars
<1> SUFFICES ASSUME AtscInv, AtscNext, NEW k \in dumped_eit .. dumped_eit' - 1, SameChannels
             PROVE  /\ \A s \in VctChannels :
                         s \in DOMAIN decoded_atsc_eit[k] /\ decoded_atsc_eit[k][s] # NoEit
                    /\ options.collect =>
                         \A e \in EventsOf(k) : e.etm => EttKey(EtmId(e)) \in DOMAIN decoded_ett[k]
  OBVIOUS
<1>1. dumped_eit \in Nat
  BY DEF AtscInv, AtscTypes
<1>2. dumped_eit' # dumped_eit /\ dumped_eit' # 0
  <2>1. dumped_eit <= k /\ (dumped_eit' \in Int => k <= dumped_eit' - 1)
    BY <1>1
  <2> QED
    BY <1>1, <2>1
<1>3. EndAtscBuffer
  BY <1>2 DEF AtscNext, TakeAny, NextGuide, NewAtscEit, TakeMgt, TakeVct, TakeAtscEit, TakeEtt,
              DropEit, DropEtt, resetAtsc
<1>4. PICK to \in dumped_eit + 1 .. LastEit + 1 :
        (\A j \in dumped_eit .. to - 1 : MayDump(j)) /\ dumped_eit' = to
  BY <1>3 DEF EndAtscBuffer
<1>5. k \in Numbers /\ MayDump(k)
  BY <1>1, <1>4, AtscConstants
<1> QED
  BY <1>5, CompleteIsChannels DEF MayDump, ett_x_complete

-----------------------------------------------------------------------------
(* The guide of a stream of either standard.                               *)

GuideInv == DvbInv /\ AtscInv

LEMMA GuideInvariant == GuideSpec => []GuideInv
<1>1. GuideInit => GuideInv
  BY InitDvbInv, InitAtscInv DEF GuideInit, GuideInv
<1>2. GuideInv /\ [GuideNext]_guideVars => GuideInv'
  <2> SUFFICES ASSUME GuideInv, [GuideNext]_guideVars PROVE GuideInv'
    OBVIOUS
  <2>1. [DvbNext]_dvbVars /\ [AtscNext]_atscVars
    BY DEF GuideNext, guideVars
  <2> QED
    BY <2>1, DvbStepKeeps, AtscStepKeeps DEF GuideInv
<1> QED
  BY <1>1, <1>2, PTL DEF GuideSpec

\* An EIT is filed under its own service and table in a DVB guide, and under a
\* number that an MGT gave its slice in an ATSC guide (decode.cpp, m_eit_x;
\* parse.cpp, set_current_eit_x), whatever is on the air and whenever the parser
\* is reset.
THEOREM EitsFiled == GuideSpec => []Filed
<1>1. GuideInv => Filed
  BY DEF GuideInv, DvbInv, AtscInv, Filed
<1> QED
  BY <1>1, GuideInvariant, PTL

\* A part of a DVB guide that feed() dumps has each EIT that its SDT promises, as
\* long as that SDT is the only one (parse.cpp:feed, eit_x_complete_dvb_pf).
THEOREM DvbDumpsAreWhole == GuideSpec => DumpedWhole
<1>1. GuideInv /\ [GuideNext]_guideVars =>
        [\A x \in Tables : dumped = x /\ dumped' = x + 1 /\ onair = 1 =>
           \A s \in WithEit(sdt, x) : s \in DOMAIN eit[x] /\ eit[x][s] # NoVersion]_dvbVars
  BY DvbStepWhole DEF GuideInv, GuideNext, guideVars
<1> QED
  BY <1>1, GuideInvariant, PTL DEF GuideSpec, DumpedWhole

\* A part of an ATSC guide that feed() dumps has the EIT of each channel and the
\* texts that are waited for, as long as the channels are the same
\* (parse.cpp:feed, eit_x_complete_atsc, ett_x_complete).
THEOREM AtscDumpsAreWhole == GuideSpec => AtscDumpedWhole
<1>1. GuideInv /\ [GuideNext]_guideVars =>
        [\A k \in dumped_eit .. dumped_eit' - 1 : SameChannels =>
           /\ \A s \in VctChannels : s \in DOMAIN decoded_atsc_eit[k] /\ decoded_atsc_eit[k][s] # NoEit
           /\ options.collect =>
                \A e \in EventsOf(k) : e.etm => EttKey(EtmId(e)) \in DOMAIN decoded_ett[k]]_atscVars
  BY AtscStepWhole DEF GuideInv, GuideNext, guideVars
<1> QED
  BY <1>1, GuideInvariant, PTL DEF GuideSpec, AtscDumpedWhole
=============================================================================
