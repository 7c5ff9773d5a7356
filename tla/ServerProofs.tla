---------------------------- MODULE ServerProofs ----------------------------
(***************************************************************************)
(* Who owns a connection of the command server, for any number of          *)
(* connections, every interleaving of their threads with the listener, the *)
(* monitor and the outputs, and every order of requests.                   *)
(***************************************************************************)
EXTENDS Server, FiniteSetTheorems, WellFoundedInduction, TLAPS

ClientType == [sock : Numbers \cup {None}, kill : BOOLEAN, fmt : Requests \cup {"none"}]
Working == {"loop", "tune", "quit", "answered"}

\* The types of what decides over connections.
Shapes ==
  /\ number \in [Conns -> Numbers \cup {None}]
  /\ accepted \subseteq Conns
  /\ listener \in [at : {"accept", "setup", "gone"}, conn : Conns \cup {NoConn}, kill : BOOLEAN]
  /\ DOMAIN client \subseteq Numbers
  /\ client \in [DOMAIN client -> ClientType]
  /\ thread \in [Conns -> [at : Working \cup {"none", "closed", "gone"},
                           key : Numbers \cup {None}]]
  /\ spoilt \in BOOLEAN

\* A connection has nothing before it is accepted, and an open descriptor that
\* nobody else has while the listener makes its client.
Arriving ==
  /\ \A c \in Conns \ accepted : number[c] = None /\ thread[c].at = "none" /\ c \notin out
  /\ \A c \in Conns, d \in Conns : number[c] = number[d] /\ number[c] # None => c = d
  /\ listener.at = "setup" =>
       /\ listener.conn \in accepted
       /\ thread[listener.conn].at = "none"
       /\ number[listener.conn] # None
       /\ listener.conn \notin out

Live(c) == thread[c].at \in Working \cup {"closed"}
Leaving(c) == thread[c].at = "answered" /\ client[Key(c)].fmt = "bin"

\* The object of a client thread is in the map, under a key of its own, with the
\* number of the descriptor that is or was its own.
Objects ==
  \A c \in Conns : Live(c) =>
    /\ Key(c) \in DOMAIN client
    /\ client[Key(c)].sock = Key(c)
    /\ \A d \in Conns : Live(d) /\ Key(d) = Key(c) => d = c

\* Where its connection is, by the point at which the thread is.
Places ==
  \A c \in Conns :
    /\ thread[c].at = "closed" => number[c] = None
    /\ thread[c].at \in Working /\ ~Leaving(c) => number[c] = Key(c) /\ c \notin out
    /\ Leaving(c) => number[c] \in {None, Key(c)}
    /\ thread[c].at \in {"none", "gone"} /\ number[c] # None =>
         (listener.at = "setup" /\ listener.conn = c) \/ c \in out \cup refused

\* The inductive invariant.
IInv == Shapes /\ (~spoilt => Arriving /\ Objects /\ Places)

-----------------------------------------------------------------------------
LEMMA InitIInv == Init => IInv
<1> SUFFICES ASSUME Init PROVE IInv
  OBVIOUS
<1>1. Shapes
  <2>1. DOMAIN client = {} /\ client \in [DOMAIN client -> ClientType]
    BY DEF Init
  <2>2. /\ number \in [Conns -> Numbers \cup {None}]
        /\ thread \in [Conns -> [at : Working \cup {"none", "closed", "gone"},
                                 key : Numbers \cup {None}]]
    BY DEF Init
  <2> QED
    BY <2>1, <2>2 DEF Init, Shapes
<1>2. Arriving /\ Objects /\ Places
  BY DEF Init, Arriving, Objects, Places, Live, Leaving, Working
<1> QED
  BY <1>1, <1>2 DEF IInv

\* A set of natural numbers that is not empty has a least element.
LEMMA HasLeast ==
  ASSUME NEW T \in SUBSET Nat, T # {}
  PROVE  \E d \in T : \A e \in T : d <= e
<1>1. PICK d \in T : \A e \in T : <<e, d>> \notin OpToRel(<, Nat)
  BY NatLessThanWellFounded, WFMin
<1>2. \A e \in T : ~(e < d) /\ e \in Nat /\ d \in Nat
  BY <1>1 DEF OpToRel
<1>3. \A e \in T : d <= e
  BY <1>2
<1> QED
  BY <1>1, <1>3

\* There are as many numbers as connections, so one is free for a connection
\* that has none: accept() gives a number that nobody has.
LEMMA FreeNumber ==
  ASSUME Shapes, NEW c \in Conns, number[c] = None
  PROVE  LowestFree \in Numbers /\ \A d \in Conns : number[d] # LowestFree
<1> DEFINE Free == {n \in Numbers : \A d \in Conns : number[d] # n}
<1>1. Cardinality(Conns) \in Nat
  BY ServerAssumption, FS_CardinalityType
<1>2. IsFiniteSet(Numbers) /\ Cardinality(Numbers) = Cardinality(Conns)
  BY <1>1, FS_Interval DEF Numbers
<1>3. /\ IsFiniteSet(Conns \ {c})
      /\ Cardinality(Conns \ {c}) < Cardinality(Numbers)
  <2>1. IsFiniteSet(Conns \ {c}) /\ Cardinality(Conns \ {c}) = Cardinality(Conns) - 1
    BY ServerAssumption, FS_RemoveElement
  <2> QED
    BY <1>1, <1>2, <2>1
<1>4. Free # {}
  <2> SUFFICES ASSUME Free = {} PROVE FALSE
    OBVIOUS
  <2> DEFINE f == [n \in Numbers |-> CHOOSE d \in Conns : number[d] = n]
  <2>1. \A n \in Numbers : \E d \in Conns : number[d] = n
    OBVIOUS
  <2>2. \A n \in Numbers : f[n] \in Conns /\ number[f[n]] = n
    BY <2>1
  <2>3. \A n \in Numbers : n # None
    BY <1>1 DEF Numbers, None
  <2>4. f \in [Numbers -> Conns \ {c}]
    BY <2>2, <2>3
  <2> HIDE DEF f
  <2>5. \E m, n \in Numbers : m # n /\ f[m] = f[n]
    BY <1>2, <1>3, <2>4, FS_PigeonHole
  <2> QED
    BY <2>2, <2>5
<1>5. PICK n \in Free : \A m \in Free : n <= m
  <2>1. Free \in SUBSET Nat
    BY <1>1 DEF Numbers
  <2> QED
    BY <1>4, <2>1, HasLeast
<1>6. \A m \in 1 .. n - 1 : \E d \in Conns : number[d] = m
  <2> SUFFICES ASSUME NEW m \in 1 .. n - 1, \A d \in Conns : number[d] # m PROVE FALSE
    OBVIOUS
  <2>1. m \in Free /\ m < n /\ m \in Nat /\ n \in Nat
    BY <1>1, <1>5 DEF Numbers
  <2> QED
    BY <1>5, <2>1
<1>7. \E k \in Numbers : /\ \A d \in Conns : number[d] # k
                         /\ \A m \in 1 .. k - 1 : \E d \in Conns : number[d] = m
  BY <1>5, <1>6
<1> QED
  BY <1>7 DEF LowestFree

\* What recv(), close() and a stream reach through the object of a client at
\* work is its own connection.
LEMMA OwnPeer ==
  ASSUME IInv, ~spoilt, NEW c \in Conns, thread[c].at \in Working, ~Leaving(c)
  PROVE  /\ Key(c) \in DOMAIN client /\ Key(c) \in Numbers /\ Key(c) # None
         /\ client[Key(c)].sock = Key(c) /\ number[c] = Key(c) /\ c \notin out
         /\ Peers(c) = {c}
<1>1. Key(c) \in DOMAIN client /\ Key(c) \in Numbers /\ client[Key(c)].sock = Key(c)
      /\ number[c] = Key(c) /\ c \notin out
  BY DEF IInv, Objects, Places, Shapes, Live
<1>2. Key(c) # None
  BY <1>1, ServerAssumption, FS_CardinalityType DEF Numbers, None
<1>3. \A d \in Conns : number[d] = Key(c) => d = c
  BY <1>1, <1>2 DEF IInv, Arriving
<1> QED
  BY <1>1, <1>2, <1>3 DEF Peers

\* A thread at work goes on to another point, and may have changed the flag and
\* the format in its own object.
LEMMA GoesOn ==
  ASSUME IInv, ~spoilt, NEW c \in Conns, thread[c].at \in Working, ~Leaving(c),
         NEW r \in ClientType, r.sock = client[Key(c)].sock,
         client' = [client EXCEPT ![Key(c)] = r],
         NEW to \in Working, thread' = [thread EXCEPT ![c].at = to],
         UNCHANGED <<number, accepted, out, refused, spoilt>>,
         listener' = listener \/ listener' = [listener EXCEPT !.kill = TRUE]
  PROVE  IInv'
<1>1. Shapes /\ Arriving /\ Objects /\ Places
  BY DEF IInv
<1>2. Key(c) \in DOMAIN client /\ client[Key(c)].sock = Key(c) /\ number[c] = Key(c) /\ c \notin out
  BY OwnPeer
<1>3. DOMAIN client' = DOMAIN client /\ \A n \in DOMAIN client :
         client'[n] = IF n = Key(c) THEN r ELSE client[n]
  BY <1>1, <1>2 DEF Shapes
<1>4. \A d \in Conns : /\ thread'[d].key = thread[d].key
                       /\ thread'[d].at = IF d = c THEN to ELSE thread[d].at
  BY <1>1 DEF Shapes
<1>5. listener'.at = listener.at /\ listener'.conn = listener.conn
  BY <1>1 DEF Shapes
<1>6. Shapes'
  <2>1. thread' \in [Conns -> [at : Working \cup {"none", "closed", "gone"},
                               key : Numbers \cup {None}]]
    BY <1>1 DEF Shapes
  <2>2. client' \in [DOMAIN client' -> ClientType]
    BY <1>1, <1>3 DEF Shapes
  <2>3. listener' \in [at : {"accept", "setup", "gone"}, conn : Conns \cup {NoConn}, kill : BOOLEAN]
    BY <1>1 DEF Shapes
  <2> QED
    BY <1>1, <1>3, <2>1, <2>2, <2>3 DEF Shapes
<1>7. Arriving'
  <2>1. c \in accepted /\ ~(listener.at = "setup" /\ listener.conn = c)
    BY <1>1 DEF Arriving, Working
  <2> QED
    BY <1>1, <1>4, <1>5, <2>1 DEF Arriving, Shapes
<1>8. Objects'
  BY <1>1, <1>2, <1>3, <1>4 DEF Objects, Live, Key
<1>9. Places'
  <2>1. ASSUME NEW d \in Conns, d # c, Live(d)
        PROVE  Leaving(d)' = Leaving(d) /\ Key(d)' = Key(d)
    BY <1>1, <1>3, <1>4, <2>1 DEF Leaving, Objects, Live, Key
  <2>2. \A d \in Conns : Leaving(d)' => Live(d)' /\ (d # c => Live(d))
    BY <1>4 DEF Leaving, Live, Working
  <2> QED
    BY <1>1, <1>2, <1>4, <1>5, <2>1, <2>2 DEF Places, Live, Key, Working
<1> QED
  BY <1>6, <1>7, <1>8, <1>9 DEF IInv

\* A request changes the format of the object and sends the thread on.
LEMMA Requested ==
  ASSUME IInv, NEW c \in Conns, NEW fmt \in Requests, Request(c, fmt),
         NEW to \in Working, To(c, to),
         UNCHANGED <<number, accepted, out, refused, spoilt>>,
         listener' = listener \/ listener' = [listener EXCEPT !.kill = TRUE]
  PROVE  IInv'
<1> DEFINE r == [client[Key(c)] EXCEPT !.fmt = fmt]
<1>1. ~spoilt /\ thread[c].at \in Working /\ ~Leaving(c)
  BY DEF Request, At, Working, Leaving
<1>2. client[Key(c)] \in ClientType
  BY <1>1, OwnPeer DEF IInv, Shapes
<1>3. r \in ClientType /\ r.sock = client[Key(c)].sock
  BY <1>2 DEF ClientType
<1>4. client' = [client EXCEPT ![Key(c)] = r]
  BY DEF Request
<1> HIDE DEF r
<1> QED
  BY <1>1, <1>3, <1>4, GoesOn DEF To

\* What touches neither connections nor clients.
LEMMA Elsewhere ==
  ASSUME IInv,
         UNCHANGED <<number, accepted, listener, client, thread, out, refused, spoilt>>
  PROVE  IInv'
  BY DEF IInv, Shapes, Arriving, Objects, Places, Live, Leaving, Key

\* An output takes over the connection of its client, which leaves the server.
LEMMA StreamStep ==
  ASSUME IInv, NEW c \in Conns, NEW fmt \in Requests, Stream(c, fmt)
  PROVE  IInv'
<1> DEFINE r == [client[Key(c)] EXCEPT !.fmt = fmt]
<1>1. ~spoilt /\ thread[c].at \in Working /\ ~Leaving(c)
  BY DEF Stream, Request, At, Working, Leaving
<1>2. Shapes /\ Arriving /\ Objects /\ Places
  BY <1>1 DEF IInv
<1>3. /\ Key(c) \in DOMAIN client /\ client[Key(c)].sock = Key(c)
      /\ number[c] = Key(c) /\ Peers(c) = {c} /\ Key(c) # None
  BY <1>1, OwnPeer
<1>4. client[Key(c)] \in ClientType
  BY <1>2, <1>3 DEF Shapes
<1>5. r \in ClientType /\ r.sock = Key(c) /\ r.fmt = fmt
  BY <1>3, <1>4 DEF ClientType
<1>6. client' = [client EXCEPT ![Key(c)] = r]
  BY DEF Stream, Request
<1> HIDE DEF r
<1>7. DOMAIN client' = DOMAIN client /\ \A n \in DOMAIN client :
         client'[n] = IF n = Key(c) THEN r ELSE client[n]
  BY <1>2, <1>3, <1>6 DEF Shapes
<1>8. \A d \in Conns : /\ thread'[d].key = thread[d].key
                       /\ thread'[d].at = IF d = c THEN "answered" ELSE thread[d].at
  BY <1>2 DEF Shapes, Stream, To
<1>9. out' = out \cup {c} /\ UNCHANGED <<number, accepted, listener, refused>>
  BY <1>3 DEF Stream, socketVars
<1>10. Shapes'
  <2>1. thread' \in [Conns -> [at : Working \cup {"none", "closed", "gone"},
                               key : Numbers \cup {None}]]
    BY <1>2 DEF Shapes, Stream, To, Working
  <2>2. client' \in [DOMAIN client' -> ClientType]
    BY <1>2, <1>5, <1>6, <1>7 DEF Shapes
  <2>3. spoilt' \in BOOLEAN
    BY <1>2 DEF Stream, Shapes
  <2> QED
    BY <1>2, <1>7, <1>9, <2>1, <2>2, <2>3 DEF Shapes
<1>11. Arriving'
  <2>1. c \in accepted /\ ~(listener.at = "setup" /\ listener.conn = c)
    BY <1>1, <1>2 DEF Arriving, Working
  <2> QED
    BY <1>2, <1>8, <1>9, <2>1 DEF Arriving, Shapes
<1>12. Objects'
  BY <1>1, <1>2, <1>3, <1>5, <1>7, <1>8 DEF Objects, Live, Key
<1>13. ~spoilt' => Places'
  <2> SUFFICES ASSUME ~spoilt' PROVE Places'
    OBVIOUS
  <2>1. ASSUME NEW d \in Conns, d # c, Live(d)
        PROVE  Leaving(d)' = Leaving(d) /\ Key(d)' = Key(d)
    BY <1>1, <1>2, <1>7, <1>8, <2>1 DEF Leaving, Objects, Live, Key
  <2>2. \A d \in Conns : Leaving(d)' => Live(d)' /\ (d # c => Live(d))
    BY <1>8 DEF Leaving, Live, Working
  <2>3. Leaving(c)' /\ Key(c)' = Key(c)
    BY <1>3, <1>5, <1>7, <1>8 DEF Stream, Leaving, Key
  <2> QED
    BY <1>2, <1>3, <1>8, <1>9, <2>1, <2>2, <2>3 DEF Places, Live, Working
<1> QED
  BY <1>10, <1>11, <1>12, <1>13 DEF IInv

\* The thread has handed its connection over and leaves; without an output
\* for it, the connection counts as refused.
LEMMA LeaveStep ==
  ASSUME IInv, NEW c \in Conns, Answered(c), Leaving(c)
  PROVE  IInv'
<1> DEFINE r == [client[Key(c)] EXCEPT !.kill = @ \/ TRUE, !.sock = None]
<1>1. ~spoilt /\ spoilt' = spoilt /\ Live(c) /\ UNCHANGED <<number, accepted, listener, out>>
  BY DEF Answered, At, Live, Working, socketVars
<1>2. Shapes /\ Arriving /\ Objects /\ Places
  BY <1>1 DEF IInv
<1>3. /\ Key(c) \in DOMAIN client /\ client[Key(c)].sock = Key(c)
      /\ number[c] \in {None, Key(c)} /\ client[Key(c)].fmt = "bin"
  BY <1>1, <1>2 DEF Objects, Places, Leaving
<1>4. DOMAIN client' = DOMAIN client /\ \A n \in DOMAIN client :
         IF n = Key(c) THEN client'[n] \in ClientType ELSE client'[n] = client[n]
  <2>1. client[Key(c)] \in ClientType
    BY <1>2, <1>3 DEF Shapes
  <2>2. r \in ClientType
    BY <2>1 DEF ClientType, None
  <2>3. client' = [client EXCEPT ![Key(c)] = r]
    <3>1. client' = [client EXCEPT ![Key(c)].kill = @ \/ TRUE, ![Key(c)].sock = None]
      BY <1>3 DEF Answered
    <3> QED
      BY <1>2, <1>3, <2>1, <3>1 DEF Shapes, ClientType
  <2> HIDE DEF r
  <2> QED
    BY <1>2, <1>3, <2>2, <2>3 DEF Shapes
<1>5. thread' = [thread EXCEPT ![c] = Gone]
  BY <1>3 DEF Answered
<1>6. \A d \in Conns : thread'[d] = IF d = c THEN Gone ELSE thread[d]
  BY <1>2, <1>5 DEF Shapes
<1>7. refused' = refused \cup (Peers(c) \ out)
  BY <1>3 DEF Answered
<1>8. number[c] # None => c \in out \cup refused'
  BY <1>3, <1>7 DEF Peers
<1>9. Shapes'
  <2>1. thread' \in [Conns -> [at : Working \cup {"none", "closed", "gone"},
                               key : Numbers \cup {None}]]
    BY <1>2, <1>5 DEF Shapes, Gone
  <2>2. client' \in [DOMAIN client' -> ClientType]
    <3>1. client' = [n \in DOMAIN client' |-> client'[n]]
      BY <1>2, <1>3 DEF Shapes, Answered
    <3> QED
      BY <1>2, <1>4, <3>1 DEF Shapes
  <2> QED
    BY <1>1, <1>2, <1>4, <2>1, <2>2 DEF Shapes
<1>10. Arriving'
  <2>1. ~(listener.at = "setup" /\ listener.conn = c) /\ c \in accepted
    BY <1>1, <1>2 DEF Arriving, Live, Working
  <2> QED
    BY <1>1, <1>2, <1>6, <2>1 DEF Arriving, Shapes
<1>11. Objects'
  BY <1>1, <1>2, <1>4, <1>6 DEF Objects, Live, Key, Gone, Working
<1>12. Places'
  <2>1. ASSUME NEW d \in Conns, d # c, Live(d)
        PROVE  Leaving(d)' = Leaving(d) /\ Key(d)' = Key(d)
    BY <1>1, <1>2, <1>4, <1>6, <2>1 DEF Leaving, Objects, Live, Key
  <2>2. \A d \in Conns : Leaving(d)' => d # c /\ Live(d)
    BY <1>6 DEF Leaving, Live, Working, Gone
  <2> QED
    BY <1>1, <1>2, <1>6, <1>7, <1>8, <2>1, <2>2 DEF Places, Live, Working, Gone
<1> QED
  BY <1>9, <1>10, <1>11, <1>12 DEF IInv

\* Nothing changes in the threads and the objects that are not c's: whether they
\* live, which object they use and whether they leave stays.
LEMMA OthersStay ==
  ASSUME Objects, NEW c \in Conns, Live(c), NEW d \in Conns, d # c, Live(d),
         thread'[d] = thread[d],
         \A n \in DOMAIN client : n # Key(c) => n \in DOMAIN client' /\ client'[n] = client[n]
  PROVE  /\ Live(d)' /\ Key(d)' = Key(d) /\ Leaving(d)' = Leaving(d)
         /\ Key(d) \in DOMAIN client' /\ client'[Key(d)] = client[Key(d)]
<1>1. Key(d) \in DOMAIN client /\ Key(d) # Key(c)
  BY DEF Objects
<1>2. Key(d)' = Key(d)
  BY DEF Key
<1>3. client'[Key(d)] = client[Key(d)] /\ Key(d) \in DOMAIN client'
  BY <1>1
<1> QED
  BY <1>2, <1>3 DEF Live, Leaving

LEMMA CloseStep ==
  ASSUME IInv, NEW c \in Conns, Close(c)
  PROVE  IInv'
<1>1. ~spoilt /\ thread[c].at = "loop" /\ ~Leaving(c) /\ Live(c)
  BY DEF Close, At, Live, Working, Leaving
<1>2. Shapes /\ Arriving /\ Objects /\ Places
  BY <1>1 DEF IInv
<1>3. Peers(c) = {c} /\ number[c] = Key(c) /\ c \notin out
  BY <1>1, OwnPeer DEF Working
<1>4. number' = [d \in Conns |-> IF d = c THEN None ELSE number[d]]
  BY <1>3 DEF Close
<1>5. UNCHANGED <<accepted, listener, client, out, refused, spoilt>>
  BY DEF Close, historyVars
<1>6. thread' = [thread EXCEPT ![c].at = "closed"]
  BY DEF Close, To
<1>7. \A d \in Conns : /\ thread'[d].key = thread[d].key
                       /\ thread'[d].at = IF d = c THEN "closed" ELSE thread[d].at
  BY <1>2, <1>6 DEF Shapes
<1>8. Shapes'
  <2>1. number' \in [Conns -> Numbers \cup {None}]
    BY <1>2, <1>4 DEF Shapes
  <2>2. thread' \in [Conns -> [at : Working \cup {"none", "closed", "gone"},
                               key : Numbers \cup {None}]]
    BY <1>2, <1>6 DEF Shapes
  <2> QED
    BY <1>2, <1>5, <2>1, <2>2 DEF Shapes
<1>9. Arriving'
  <2>1. c \in accepted /\ ~(listener.at = "setup" /\ listener.conn = c)
    BY <1>1, <1>2 DEF Arriving
  <2> QED
    BY <1>2, <1>4, <1>5, <1>7, <2>1 DEF Arriving, Shapes
<1>10. Objects'
  BY <1>1, <1>2, <1>5, <1>7 DEF Objects, Live, Key
<1>11. Places'
  <2>1. \A d \in Conns : Key(d)' = Key(d) /\ (d # c => Leaving(d)' = Leaving(d))
    BY <1>5, <1>7 DEF Key, Leaving
  <2>2. ~Leaving(c)'
    BY <1>7 DEF Leaving
  <2> QED
    BY <1>2, <1>3, <1>4, <1>5, <1>7, <2>1, <2>2 DEF Places, Working
<1> QED
  BY <1>8, <1>9, <1>10, <1>11 DEF IInv

LEMMA ForgetStep ==
  ASSUME IInv, NEW c \in Conns, Forget(c)
  PROVE  IInv'
<1> DEFINE r == [client[Key(c)] EXCEPT !.sock = None]
<1>1. ~spoilt /\ thread[c].at = "closed" /\ Live(c)
  BY DEF Forget, At, Live
<1>2. Shapes /\ Arriving /\ Objects /\ Places
  BY <1>1 DEF IInv
<1>3. Key(c) \in DOMAIN client /\ number[c] = None
  BY <1>1, <1>2 DEF Objects, Places
<1>4. client[Key(c)] \in ClientType
  BY <1>2, <1>3 DEF Shapes
<1>5. r \in ClientType
  BY <1>4 DEF ClientType, None
<1>6. client' = [client EXCEPT ![Key(c)] = r]
  BY DEF Forget
<1> HIDE DEF r
<1>7. DOMAIN client' = DOMAIN client /\ \A n \in DOMAIN client :
         client'[n] = IF n = Key(c) THEN r ELSE client[n]
  BY <1>2, <1>3, <1>6 DEF Shapes
<1>8. thread' = [thread EXCEPT ![c] = Gone]
      /\ UNCHANGED <<number, accepted, listener, out, refused, spoilt>>
  BY DEF Forget, socketVars, historyVars
<1>9. \A d \in Conns : thread'[d] = IF d = c THEN Gone ELSE thread[d]
  BY <1>2, <1>8 DEF Shapes
<1>10. Shapes'
  <2>1. thread' \in [Conns -> [at : Working \cup {"none", "closed", "gone"},
                               key : Numbers \cup {None}]]
    BY <1>2, <1>8 DEF Shapes, Gone
  <2>2. client' \in [DOMAIN client' -> ClientType]
    BY <1>2, <1>5, <1>6, <1>7 DEF Shapes
  <2> QED
    BY <1>2, <1>7, <1>8, <2>1, <2>2 DEF Shapes
<1>11. Arriving'
  BY <1>1, <1>2, <1>8, <1>9 DEF Arriving, Gone, Shapes
<1>12. \A d \in Conns : Live(d)' => d # c /\ Live(d)
  BY <1>9 DEF Live, Working, Gone
<1>13. \A d \in Conns : d # c /\ Live(d) =>
          /\ Live(d)' /\ Key(d)' = Key(d) /\ Leaving(d)' = Leaving(d)
          /\ Key(d) \in DOMAIN client' /\ client'[Key(d)] = client[Key(d)]
  BY <1>1, <1>2, <1>7, <1>9, OthersStay
<1>14. Objects'
  BY <1>2, <1>12, <1>13 DEF Objects
<1>15. Places'
  <2>1. \A d \in Conns : Leaving(d)' => Live(d)'
    BY DEF Leaving, Live, Working
  <2> QED
    BY <1>2, <1>3, <1>8, <1>9, <1>12, <1>13, <2>1 DEF Places, Live, Working, Gone
<1> QED
  BY <1>10, <1>11, <1>14, <1>15 DEF IInv

\* The number of the new connection is nobody's.
LEMMA AcceptStep ==
  ASSUME IInv, NEW c \in Conns, Accept(c)
  PROVE  IInv'
<1>1. ~spoilt /\ listener.at = "accept" /\ c \notin accepted
  BY DEF Accept
<1>2. Shapes /\ Arriving /\ Objects /\ Places
  BY <1>1 DEF IInv
<1>3. number[c] = None /\ thread[c].at = "none" /\ c \notin out
  BY <1>1, <1>2 DEF Arriving
<1>4. LowestFree \in Numbers /\ \A d \in Conns : number[d] # LowestFree
  BY <1>2, <1>3, FreeNumber
<1>5. LowestFree # None
  BY <1>4, ServerAssumption, FS_CardinalityType DEF Numbers, None
<1>6. \A d \in Conns : number'[d] = IF d = c THEN LowestFree ELSE number[d]
  BY <1>2 DEF Accept, Shapes
<1>7. accepted' = accepted \cup {c} /\ listener'.at = "setup" /\ listener'.conn = c
  BY <1>2 DEF Accept, Shapes
<1>8. UNCHANGED <<client, thread, out, refused, spoilt>>
  BY DEF Accept, historyVars
<1>9. Shapes'
  <2>1. number' \in [Conns -> Numbers \cup {None}]
    BY <1>2, <1>4 DEF Accept, Shapes
  <2>2. listener' \in [at : {"accept", "setup", "gone"}, conn : Conns \cup {NoConn}, kill : BOOLEAN]
    BY <1>2 DEF Accept, Shapes
  <2> QED
    BY <1>2, <1>7, <1>8, <2>1, <2>2 DEF Shapes
<1>10. Arriving'
  BY <1>2, <1>3, <1>4, <1>5, <1>6, <1>7, <1>8 DEF Arriving
<1>11. Objects'
  BY <1>2, <1>8 DEF Objects, Live, Key
<1>12. Places'
  <2>1. \A d \in Conns : Key(d)' = Key(d) /\ Leaving(d)' = Leaving(d)
    BY <1>8 DEF Key, Leaving
  <2> QED
    BY <1>1, <1>2, <1>3, <1>6, <1>7, <1>8, <2>1 DEF Places, Working, Leaving
<1> QED
  BY <1>9, <1>10, <1>11, <1>12 DEF IInv

\* The new client has an object of its own, unless an old one has the number.
LEMMA SetupStep ==
  ASSUME IInv, SetupAndStart
  PROVE  IInv'
<1>1. ~spoilt /\ listener.at = "setup"
  BY DEF SetupAndStart, JobAt
<1>2. Shapes /\ Arriving /\ Objects /\ Places
  BY <1>1 DEF IInv
<1>3. PICK c \in Conns, n \in Numbers :
        /\ c = listener.conn /\ c \in accepted /\ thread[c].at = "none" /\ c \notin out
        /\ n = number[c] /\ n # None
  BY <1>1, <1>2 DEF Arriving, Shapes
<1> DEFINE r == [NewClient EXCEPT !.sock = n]
<1>4. r \in ClientType /\ r.sock = n /\ r.fmt = "none"
  BY <1>3 DEF ClientType, NewClient, Requests
<1>5. UNCHANGED <<number, accepted, out, refused>>
  BY DEF SetupAndStart, socketVars
<1>6. /\ client' = [m \in DOMAIN client \cup {n} |-> IF m = n THEN r ELSE client[m]]
      /\ thread' = [thread EXCEPT ![c] = [at |-> "loop", key |-> n]]
      /\ listener' = [listener EXCEPT !.at = "accept", !.conn = NoConn]
      /\ spoilt' = (spoilt \/ n \in DOMAIN client)
  BY <1>3 DEF SetupAndStart
<1> HIDE DEF r
<1>7. \A d \in Conns : thread'[d] = IF d = c THEN [at |-> "loop", key |-> n] ELSE thread[d]
  BY <1>2, <1>3, <1>6 DEF Shapes
<1>8. listener'.at = "accept"
  BY <1>2, <1>6 DEF Shapes
<1>9. Shapes'
  <2>1. thread' \in [Conns -> [at : Working \cup {"none", "closed", "gone"},
                               key : Numbers \cup {None}]]
    BY <1>2, <1>4, <1>6 DEF Shapes, Working
  <2>2. listener' \in [at : {"accept", "setup", "gone"}, conn : Conns \cup {NoConn}, kill : BOOLEAN]
    BY <1>2, <1>6 DEF Shapes
  <2>3. DOMAIN client' \subseteq Numbers /\ client' \in [DOMAIN client' -> ClientType]
    BY <1>2, <1>4, <1>6 DEF Shapes
  <2>4. spoilt' \in BOOLEAN
    BY <1>6
  <2> QED
    BY <1>2, <1>5, <2>1, <2>2, <2>3, <2>4 DEF Shapes
<1>10. Arriving'
  BY <1>2, <1>3, <1>5, <1>7, <1>8 DEF Arriving, Shapes
<1>11. SUFFICES ASSUME ~spoilt' PROVE Objects' /\ Places'
  BY <1>9, <1>10 DEF IInv
<1>12. n \notin DOMAIN client
  BY <1>6, <1>11
<1>13. DOMAIN client' = DOMAIN client \cup {n} /\ client'[n] = r
       /\ \A m \in DOMAIN client : client'[m] = client[m]
  BY <1>6, <1>12
<1>14. Key(c)' = n /\ Live(c)' /\ ~Leaving(c)'
  BY <1>3, <1>4, <1>7, <1>13 DEF Key, Live, Working, Leaving
<1>15. ASSUME NEW d \in Conns, d # c
       PROVE  Key(d)' = Key(d) /\ Live(d)' = Live(d) /\ (Live(d) => Leaving(d)' = Leaving(d))
  BY <1>2, <1>7, <1>13, <1>15 DEF Key, Live, Leaving, Objects
<1>16. Objects'
  BY <1>2, <1>4, <1>12, <1>13, <1>14, <1>15 DEF Objects
<1>17. Places'
  <2>1. \A d \in Conns : Leaving(d)' => Live(d)'
    BY DEF Leaving, Live, Working
  <2>2. ASSUME NEW d \in Conns, d # c
        PROVE  /\ thread'[d] = thread[d] /\ Key(d)' = Key(d)
               /\ thread[d].at \in Working \cup {"closed"} => Leaving(d)' = Leaving(d)
    BY <1>7, <1>15, <2>2 DEF Live
  <2>3. thread[c].at = "none" /\ thread'[c].at = "loop"
    BY <1>3, <1>7
  <2> QED
    BY <1>1, <1>2, <1>3, <1>5, <1>8, <1>14, <2>1, <2>2, <2>3 DEF Places, Live, Working
<1> QED
  BY <1>16, <1>17

\* A step that leaves threads and objects alone, and may close a connection that
\* an output has.
LEMMA OutputEndsStep ==
  ASSUME IInv, NEW c \in Conns, OutputEnds(c)
  PROVE  IInv'
<1>1. ~spoilt /\ c \in out
  BY DEF OutputEnds
<1>2. Shapes /\ Arriving /\ Objects /\ Places
  BY <1>1 DEF IInv
<1>3. UNCHANGED <<accepted, listener, client, thread, refused, spoilt>> /\ out' = out \ {c}
  BY DEF OutputEnds, historyVars
<1>4. \A d \in Conns : number'[d] = IF d = c THEN None ELSE number[d]
  BY <1>2 DEF OutputEnds, Shapes
<1>5. Shapes'
  <2>1. number' \in [Conns -> Numbers \cup {None}]
    BY <1>2 DEF OutputEnds, Shapes
  <2> QED
    BY <1>2, <1>3, <2>1 DEF Shapes
<1>6. Arriving'
  BY <1>1, <1>2, <1>3, <1>4 DEF Arriving, Shapes
<1>7. \A d \in Conns : Live(d)' = Live(d) /\ Leaving(d)' = Leaving(d) /\ Key(d)' = Key(d)
  BY <1>3 DEF Live, Leaving, Key
<1>8. Objects'
  BY <1>2, <1>3, <1>7 DEF Objects
<1>9. Places'
  BY <1>1, <1>2, <1>3, <1>4, <1>7 DEF Places
<1> QED
  BY <1>5, <1>6, <1>8, <1>9 DEF IInv

LEMMA ListenerEndsStep ==
  ASSUME IInv, ListenerEnds
  PROVE  IInv'
<1>1. ~spoilt /\ listener.at = "accept"
  BY DEF ListenerEnds
<1>2. Shapes /\ Arriving /\ Objects /\ Places
  BY <1>1 DEF IInv
<1>3. UNCHANGED <<number, accepted, client, thread, out, refused, spoilt>>
  BY DEF ListenerEnds, socketVars, historyVars
<1>4. listener'.at = "gone"
      /\ listener' \in [at : {"accept", "setup", "gone"}, conn : Conns \cup {NoConn}, kill : BOOLEAN]
  BY <1>2 DEF ListenerEnds, Shapes
<1>5. Shapes' /\ Arriving'
  BY <1>2, <1>3, <1>4 DEF Shapes, Arriving
<1>6. \A d \in Conns : Live(d)' = Live(d) /\ Leaving(d)' = Leaving(d) /\ Key(d)' = Key(d)
  BY <1>3 DEF Live, Leaving, Key
<1>7. Objects' /\ Places'
  BY <1>1, <1>2, <1>3, <1>4, <1>6 DEF Objects, Places
<1> QED
  BY <1>5, <1>7 DEF IInv

\* What is erased has no descriptor any more, so it is nobody's object.
LEMMA EraseStep ==
  ASSUME IInv, NEW p \in Procs, Erase(p)
  PROVE  IInv'
<1>1. PICK n : n = job[p].victim
  OBVIOUS
<1>2. /\ ~spoilt /\ spoilt' = (spoilt \/ n \notin Idle)
      /\ client' = [m \in DOMAIN client \ {n} |-> client[m]]
      /\ UNCHANGED <<number, accepted, listener, thread, out, refused>>
  BY <1>1 DEF Erase, JobAt, socketVars
<1>3. Shapes /\ Arriving /\ Objects /\ Places
  BY <1>2 DEF IInv
<1>4. Shapes' /\ Arriving'
  BY <1>2, <1>3 DEF Shapes, Arriving
<1>5. SUFFICES ASSUME ~spoilt' PROVE Objects' /\ Places'
  BY <1>4 DEF IInv
<1>6. n \in DOMAIN client /\ client[n].sock = None
  BY <1>2, <1>5 DEF Idle
<1>7. ASSUME NEW c \in Conns, Live(c)
      PROVE  /\ Key(c) # n /\ Key(c) \in DOMAIN client'
             /\ client'[Key(c)] = client[Key(c)]
  <2>1. Key(c) \in DOMAIN client /\ client[Key(c)].sock = Key(c) /\ Key(c) # None
    BY <1>3, <1>7, ServerAssumption, FS_CardinalityType
       DEF Objects, Shapes, Numbers, None
  <2> QED
    BY <1>2, <1>6, <2>1
<1>8. \A c \in Conns : Live(c)' = Live(c) /\ Key(c)' = Key(c)
  BY <1>2 DEF Live, Key
<1>9. \A c \in Conns : Live(c) => Leaving(c)' = Leaving(c)
  BY <1>2, <1>7, <1>8 DEF Leaving
<1>10. Objects'
  BY <1>3, <1>7, <1>8 DEF Objects
<1>11. Places'
  <2>1. \A c \in Conns : (Leaving(c)' => Live(c)') /\ (Leaving(c) => Live(c))
    BY DEF Leaving, Live, Working
  <2> QED
    BY <1>2, <1>3, <1>8, <1>9, <2>1 DEF Places, Live
<1> QED
  BY <1>10, <1>11

\* The steps of a client thread between its requests.
LEMMA WorksStep ==
  ASSUME IInv, NEW c \in Conns, Works(c)
  PROVE  IInv'
<1> DEFINE own == client[Key(c)]
<1>1. ASSUME ~spoilt, thread[c].at \in Working, ~Leaving(c)
      PROVE  /\ own \in ClientType
             /\ [own EXCEPT !.kill = TRUE] \in ClientType
             /\ [own EXCEPT !.kill = TRUE].sock = own.sock
             /\ client = [client EXCEPT ![Key(c)] = own]
             /\ thread = [thread EXCEPT ![c].at = thread[c].at]
             /\ [client EXCEPT ![Key(c)].kill = TRUE]
                  = [client EXCEPT ![Key(c)] = [own EXCEPT !.kill = TRUE]]
  <2>1. Shapes /\ Key(c) \in DOMAIN client
    BY <1>1, OwnPeer DEF IInv
  <2>2. own \in ClientType
    BY <2>1 DEF Shapes
  <2>3. thread = [thread EXCEPT ![c].at = thread[c].at]
    BY <2>1 DEF Shapes
  <2>4. client = [client EXCEPT ![Key(c)] = own]
    BY <2>1 DEF Shapes
  <2> QED
    BY <2>2, <2>3, <2>4 DEF ClientType
<1>2. CASE RecvEnds(c)
  <2>1. ~spoilt /\ thread[c].at = "loop" /\ ~Leaving(c)
    BY <1>2 DEF RecvEnds, At, Leaving
  <2>2. UNCHANGED <<number, accepted, listener, thread, out, refused, spoilt>>
    BY <1>2 DEF RecvEnds, socketVars, historyVars
  <2>3. client' = [client EXCEPT ![Key(c)] = [own EXCEPT !.kill = TRUE]]
    BY <1>1, <1>2, <2>1 DEF RecvEnds, Working
  <2> QED
    BY <1>1, <2>1, <2>2, <2>3, GoesOn DEF Working
<1>3. CASE TuneFails(c) \/ Tuned(c)
  <2>1. ~spoilt /\ thread[c].at = "tune" /\ ~Leaving(c)
    BY <1>3 DEF TuneFails, Tuned, At, Leaving
  <2>2. /\ UNCHANGED <<number, accepted, listener, client, out, refused, spoilt>>
        /\ thread' = [thread EXCEPT ![c].at = "answered"]
    BY <1>3 DEF TuneFails, Tuned, To, socketVars, historyVars
  <2> QED
    BY <1>1, <2>1, <2>2, GoesOn DEF Working
<1>4. CASE QuitDone(c)
  <2> DEFINE r == [own EXCEPT !.fmt = IF own.fmt = "cli" THEN "none" ELSE own.fmt]
  <2>1. ~spoilt /\ thread[c].at = "quit" /\ ~Leaving(c)
    BY <1>4 DEF QuitDone, At, Leaving
  <2>2. UNCHANGED <<number, accepted, listener, out, refused, spoilt>>
    BY <1>4 DEF QuitDone, socketVars, historyVars
  <2>3. /\ client' = [client EXCEPT ![Key(c)] = r]
        /\ thread' = [thread EXCEPT ![c].at = IF own.fmt = "cli" THEN "loop" ELSE "answered"]
    BY <1>4 DEF QuitDone, To
  <2>4. r \in ClientType /\ r.sock = own.sock
    BY <1>1, <2>1 DEF ClientType, Working
  <2> HIDE DEF r
  <2> QED
    BY <2>1, <2>2, <2>3, <2>4, GoesOn DEF Working
<1>5. CASE Answered(c) /\ ~Leaving(c)
  <2> DEFINE r == [own EXCEPT !.kill = own.kill \/ own.fmt # "cli"]
  <2>1. ~spoilt /\ thread[c].at = "answered" /\ own.fmt # "bin"
    BY <1>5 DEF Answered, At, Leaving
  <2>2. own \in ClientType /\ Key(c) \in DOMAIN client
    BY <1>1, <1>5, <2>1, OwnPeer DEF Working
  <2>3. r \in ClientType /\ r.sock = own.sock
    BY <2>2 DEF ClientType
  <2>4. client' = [client EXCEPT ![Key(c)] = r]
    <3>1. client' = [client EXCEPT ![Key(c)].kill = own.kill \/ own.fmt # "cli",
                                   ![Key(c)].sock = own.sock]
      BY <1>5, <2>1, <2>2 DEF Answered, IInv, Shapes, ClientType
    <3>2. [r EXCEPT !.sock = own.sock] = r
      BY <2>3 DEF ClientType
    <3> QED
      BY <2>2, <3>1, <3>2 DEF IInv, Shapes, ClientType
  <2>5. /\ UNCHANGED <<number, accepted, listener, out, refused, spoilt>>
        /\ thread' = [thread EXCEPT ![c].at = "loop"]
    BY <1>5, <2>1 DEF Answered, socketVars, IInv, Shapes
  <2> HIDE DEF r
  <2> QED
    BY <1>5, <2>1, <2>3, <2>4, <2>5, GoesOn DEF Working
<1>6. CASE Answered(c) /\ Leaving(c)
  BY <1>6, LeaveStep
<1>7. CASE Close(c)
  BY <1>7, CloseStep
<1>8. CASE Forget(c)
  BY <1>8, ForgetStep
<1> QED
  BY <1>2, <1>3, <1>4, <1>5, <1>6, <1>7, <1>8 DEF Works

LEMMA CommandStep ==
  ASSUME IInv, NEW c \in Conns, NEW fmt \in Requests, Command(c, fmt)
  PROVE  IInv'
<1>1. CASE Report(c, fmt)
  BY <1>1, Requested DEF Report, Working, socketVars, historyVars
<1>2. CASE Stream(c, fmt)
  BY <1>2, StreamStep
<1>3. CASE Stop(c, fmt)
  BY <1>3, Requested DEF Stop, Working, socketVars, historyVars
<1>4. CASE Tune(c, fmt)
  BY <1>4, Requested DEF Tune, Working, socketVars, historyVars
<1>5. CASE Check(c, fmt)
  BY <1>5, Requested DEF Check, Working, socketVars, historyVars
<1>6. CASE Quit(c, fmt)
  BY <1>6, Requested DEF Quit, Working, socketVars, historyVars
<1> QED
  BY <1>1, <1>2, <1>3, <1>4, <1>5, <1>6 DEF Command

LEMMA StepIInv == IInv /\ [Next]_vars => IInv'
<1> SUFFICES ASSUME IInv, [Next]_vars PROVE IInv'
  OBVIOUS
<1> USE DEF socketVars, historyVars
<1>1. CASE \E c \in Conns : HangUp(c)
  BY <1>1, Elsewhere DEF HangUp
<1>2. CASE \E c \in Conns : OutputEnds(c)
  BY <1>2, OutputEndsStep
<1>3. CASE FifteenSeconds
  BY <1>3, Elsewhere DEF FifteenSeconds
<1>4. ASSUME NEW p \in Procs, Job(p) PROVE IInv'
  <2>1. CASE FindIdle(p) \/ FindNone(p)
    BY <2>1, Elsewhere DEF FindIdle, FindNone
  <2>2. CASE Erase(p)
    BY <2>2, EraseStep
  <2>3. CASE Decide(p) \/ StopTuner(p)
    BY <2>3, Elsewhere DEF Decide, StopTuner
  <2> QED
    BY <1>4, <2>1, <2>2, <2>3 DEF Job
<1>5. CASE MonitorChecks
  BY <1>5, Elsewhere DEF MonitorChecks
<1>6. CASE Listener
  BY <1>6, AcceptStep, SetupStep, ListenerEndsStep DEF Listener
<1>7. CASE \E c \in Conns : Works(c)
  BY <1>7, WorksStep
<1>8. CASE \E c \in Conns, fmt \in Requests : Command(c, fmt)
  BY <1>8, CommandStep
<1>9. CASE UNCHANGED vars
  BY <1>9, Elsewhere DEF vars
<1> QED
  BY <1>1, <1>2, <1>3, <1>4, <1>5, <1>6, <1>7, <1>8, <1>9 DEF Next

LEMMA IInvImpliesOwnSocket == IInv => OwnSocket
<1> SUFFICES ASSUME IInv, ~spoilt, NEW c \in Conns
             PROVE  /\ number[c] # None => Owned(c) \/ c \in refused
                    /\ Serves(c) =>
                         /\ Key(c) \in DOMAIN client
                         /\ client[Key(c)].sock = number[c] /\ number[c] # None /\ c \notin out
                         /\ \A d \in Conns \ {c} : Serves(d) => Key(d) # Key(c)
  BY DEF OwnSocket
<1>1. Shapes /\ Objects /\ Places
  BY DEF IInv
<1>2. \A d \in Conns : HandsOver(d) = Leaving(d)
  BY DEF HandsOver, Leaving, At
<1>3. \A d \in Conns : Serves(d) => thread[d].at \in Working /\ ~Leaving(d) /\ Live(d)
  BY <1>2 DEF Serves, Working, Live
<1>4. ASSUME number[c] # None PROVE Owned(c) \/ c \in refused
  <2>1. CASE thread[c].at \in {"none", "gone"}
    BY <1>1, <1>4, <2>1 DEF Places, Owned
  <2>2. CASE thread[c].at \in Working
    <3>1. number[c] = Key(c) /\ Live(c)
      BY <1>1, <1>4, <2>2 DEF Places, Live
    <3>2. Serves(c) \/ HandsOver(c)
      BY <2>2 DEF Serves, Working
    <3> QED
      BY <1>1, <3>1, <3>2 DEF Objects, Owned
  <2>3. thread[c].at # "closed"
    BY <1>1, <1>4 DEF Places
  <2> QED
    BY <1>1, <2>1, <2>2, <2>3 DEF Shapes
<1>5. ASSUME Serves(c)
      PROVE  /\ Key(c) \in DOMAIN client
             /\ client[Key(c)].sock = number[c] /\ number[c] # None /\ c \notin out
             /\ \A d \in Conns \ {c} : Serves(d) => Key(d) # Key(c)
  BY <1>1, <1>3, <1>5, OwnPeer DEF Objects
<1> QED
  BY <1>4, <1>5

\* Every client at work has its own connection and an object of its own in the
\* map, and no open connection is without an owner: for any number of connections
\* and every order of accept(), requests, clean-ups and ends (serve.cpp:
\* accept_socket, reclaim_server_resources, client_thread).
THEOREM OwnSockets == Spec => []OwnSocket
<1>1. Init => IInv
  BY InitIInv
<1>2. IInv /\ [Next]_vars => IInv'
  BY StepIInv
<1>3. IInv => OwnSocket
  BY IInvImpliesOwnSocket
<1> QED
  BY <1>1, <1>2, <1>3, PTL DEF Spec
=============================================================================
