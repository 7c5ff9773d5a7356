------------------------- MODULE OutputStreamProofs -------------------------
(***************************************************************************)
(* What an output target sends, and when, for every size of ring, batch    *)
(* and push and any number of threads that start() creates.                *)
(***************************************************************************)
EXTENDS OutputStream, FiniteSetTheorems, SequenceTheorems, WellFoundedInduction, TLAPS

\* A target that nobody has added has no thread; start() has counted the
\* threads before it makes one.
Spawnable ==
  /\ ctl = "new" => \A i \in StreamThreads : th[i] = "none"
  /\ ctl = "starting" => \E i \in StreamThreads : th[i] = "none"

\* push() offers only packets the feeder has.
Offered == feeder # "idle" => left >= 1 /\ nextpkt + left - 1 <= MaxPackets

\* A thread that streams keeps the ring's mutex.
Locked == \A i \in StreamThreads : th[i] = "sending" => lock = i

\* The packets sent, the packets in the ring and the packets still to come
\* follow one another.
Ordered ==
  /\ \A i, j \in 1 .. Len(queue) : i < j => queue[i] < queue[j]
  /\ \A i \in 1 .. Len(queue) : queue[i] < nextpkt
  /\ \A i \in 1 .. Len(sent) : sent[i] < nextpkt
  /\ \A i \in 1 .. Len(sent), j \in 1 .. Len(queue) : sent[i] < queue[j]

\* The inductive invariant.  What is sent is in order because it is taken from
\* the ring, which is in order (Ordered); that it is taken from the ring at all
\* needs the batch to be there still (BatchStaysPut), and that needs the mutex
\* (Locked).
IInv == /\ TypeOK /\ Spawnable /\ Offered /\ Locked
        /\ BatchStaysPut /\ Ordered /\ SentInOrder

\* There is one thread at most.
Single == \A i, j \in StreamThreads : th[i] # "none" /\ th[j] # "none" => i = j

\* A target that was started once does not stream when its flag says so, is
\* told to stop before stop() waits, and has no batch left when stop() returns.
Quiet ==
  Single =>
    /\ ~f_streaming => \A i \in StreamThreads : ~Streaming(i)
    /\ ctl \in {"stopping", "deleting", "stopped", "deleted"} => f_kill_thread
    /\ ctl \in {"stopped", "deleted"} =>
         \A i \in StreamThreads : th[i] \notin {"sized", "sending"}

-----------------------------------------------------------------------------
LEMMA InitIInv == Init => IInv
<1> SUFFICES ASSUME Init PROVE IInv
  OBVIOUS
<1>1. Len(queue) = 0 /\ Len(sent) = 0 /\ queue = <<>> /\ sent = <<>>
  BY DEF Init
<1>2. \A i \in StreamThreads : th[i] = "none" /\ window[i] = 0
  BY DEF Init
<1>3. TypeOK
  <2>1. queue \in Seq(1 .. MaxPackets) /\ sent \in Seq(1 .. MaxPackets)
    BY <1>1, EmptySeq
  <2>2. limit \in {0, Limit} /\ Len(queue) <= limit /\ left \in 0 .. MaxPush
        /\ nextpkt \in 1 .. MaxPackets + 1 /\ count_in \in Nat /\ count_out \in Nat
    BY <1>1, OutputStreamAssumption DEF Init
  <2>3. /\ th \in [StreamThreads -> {"none", "created", "loop", "sized", "sending",
                                     "closing", "gone"}]
        /\ window \in [StreamThreads -> 0 .. Batch]
    BY OutputStreamAssumption DEF Init
  <2> QED
    BY <2>1, <2>2, <2>3 DEF Init, TypeOK, AllMethods
<1>4. Spawnable /\ Offered /\ Locked /\ BatchStaysPut
  BY <1>1, <1>2 DEF Init, Spawnable, Offered, Locked, BatchStaysPut
<1>5. Ordered /\ SentInOrder
  BY <1>1 DEF Ordered, SentInOrder
<1> QED
  BY <1>3, <1>4, <1>5 DEF IInv

\* A set of natural numbers that is not empty has a least element.
LEMMA HasLeast ==
  ASSUME NEW T \in SUBSET Nat, T # {}
  PROVE  \E d \in T : \A e \in T : d <= e
<1>1. PICK d \in T : \A e \in T : <<e, d>> \notin OpToRel(<, Nat)
  BY NatLessThanWellFounded, WFMin
<1>2. \A e \in T : ~(e < d) /\ e \in Nat /\ d \in Nat
  BY <1>1 DEF OpToRel
<1>3. \A e \in T : d <= e
  BY <1>2
<1> QED
  BY <1>1, <1>3

\* The thread that start() creates is one that was not there.
LEMMA Fresh ==
  ASSUME IInv, ctl = "starting"
  PROVE  LET i == CHOOSE j \in StreamThreads :
                    th[j] = "none" /\ \A k \in 1 .. j - 1 : th[k] # "none"
         IN  i \in StreamThreads /\ th[i] = "none"
<1> DEFINE Free == {j \in StreamThreads : th[j] = "none"}
<1>1. Free # {} /\ Free \in SUBSET Nat
  BY DEF IInv, Spawnable, StreamThreads
<1>2. PICK j \in Free : \A k \in Free : j <= k
  BY <1>1, HasLeast
<1>3. \A k \in 1 .. j - 1 : th[k] # "none"
  <2> SUFFICES ASSUME NEW k \in 1 .. j - 1, th[k] = "none" PROVE FALSE
    OBVIOUS
  <2>1. k \in Free /\ k < j /\ k \in Nat /\ j \in Nat
    BY <1>2, OutputStreamAssumption DEF StreamThreads
  <2> QED
    BY <1>2, <2>1
<1>4. \E i \in StreamThreads : th[i] = "none" /\ \A k \in 1 .. i - 1 : th[k] # "none"
  BY <1>2, <1>3
<1> QED
  BY <1>4

\* What push() stores goes behind everything the feeder has stored so far.
LEMMA Stored ==
  ASSUME IInv, NEW n \in 1 .. left, feeder # "idle", lock = NoOne, Store(n),
         UNCHANGED <<ctlVars, sock, f_kill_thread, f_streaming, lock, th, window, count_out, sent>>
  PROVE  IInv'
<1>1. /\ n \in Nat /\ 1 <= n /\ n <= left /\ left \in Nat /\ nextpkt \in Nat
      /\ nextpkt + left - 1 <= MaxPackets /\ left <= MaxPush /\ MaxPackets \in Nat
      /\ 1 <= nextpkt /\ MaxPush \in Nat
  BY OutputStreamAssumption DEF IInv, TypeOK, Offered
<1> DEFINE bs == Numbers(nextpkt, n)
<1>2. /\ bs \in Seq(1 .. MaxPackets) /\ Len(bs) = n
      /\ \A i \in 1 .. n : bs[i] = nextpkt + i - 1
  <2>1. \A i \in 1 .. n : nextpkt + i - 1 \in 1 .. MaxPackets
    BY <1>1
  <2> QED
    BY <1>1, <2>1 DEF Numbers
<1> HIDE DEF bs
<1>3. /\ queue \in Seq(1 .. MaxPackets) /\ Len(queue) \in Nat /\ limit \in Nat
      /\ limit' = limit /\ Len(queue) + n <= limit
      /\ queue' = IF Len(queue) + n = limit THEN <<>> ELSE queue \o bs
  BY <1>2, OutputStreamAssumption
     DEF IInv, TypeOK, Store, Ring!Put, Ring!Alone, Ring!Accept, bs
<1>4. /\ queue' \in Seq(1 .. MaxPackets) /\ Len(queue') <= limit'
      /\ \A i \in 1 .. Len(queue') :
           IF i <= Len(queue) THEN queue'[i] = queue[i]
                              ELSE queue'[i] = nextpkt + (i - Len(queue)) - 1
      /\ Len(queue') <= Len(queue) + n
  <2>1. CASE Len(queue) + n = limit
    BY <1>3, <2>1
  <2>2. CASE Len(queue) + n # limit
    <3>1. /\ queue \o bs \in Seq(1 .. MaxPackets) /\ Len(queue \o bs) = Len(queue) + n
          /\ \A i \in 1 .. Len(queue) + n :
               (queue \o bs)[i] = IF i <= Len(queue) THEN queue[i] ELSE bs[i - Len(queue)]
      BY <1>2, <1>3, SMTT(40)
    <3>2. \A i \in 1 .. Len(queue) + n :
            ~(i <= Len(queue)) => i - Len(queue) \in 1 .. n
      BY <1>1, <1>3
    <3>3. queue' = queue \o bs /\ limit' = limit
      BY <1>3, <2>2
    <3> QED
      <4>1. Len(queue') = Len(queue) + n /\ Len(queue') <= limit'
        BY <1>3, <3>1, <3>3
      <4>2. \A i \in 1 .. Len(queue) + n :
              IF i <= Len(queue) THEN queue'[i] = queue[i]
                                 ELSE queue'[i] = nextpkt + (i - Len(queue)) - 1
        BY <1>2, <3>1, <3>2, <3>3
      <4>3. queue' \in Seq(1 .. MaxPackets)
        BY <3>1, <3>3
      <4> QED
        BY <1>1, <1>3, <4>1, <4>2, <4>3
  <2> QED
    BY <2>1, <2>2
<1>5. /\ nextpkt' = nextpkt + n /\ left' = left - n
      /\ feeder' = IF left = n THEN "idle" ELSE "pieces"
      /\ count_in' = count_in + n
  BY DEF Store
<1>6. TypeOK'
  <2>1. left' \in 0 .. MaxPush /\ nextpkt' \in 1 .. MaxPackets + 1 /\ count_in' \in Nat
    BY <1>1, <1>5 DEF IInv, TypeOK
  <2>2. feeder' \in {"idle", "whole", "pieces"}
    BY <1>5
  <2>3. limit' \in {0, Limit}
    BY <1>3 DEF IInv, TypeOK
  <2> QED
    BY <1>4, <2>1, <2>2, <2>3 DEF IInv, TypeOK, ctlVars
<1>7. Spawnable' /\ Locked'
  BY DEF IInv, Spawnable, Locked, ctlVars
<1>8. Offered'
  BY <1>1, <1>5 DEF Offered
<1>9. BatchStaysPut'
  BY OutputStreamAssumption DEF IInv, Locked, BatchStaysPut, StreamThreads
<1>10. Ordered'
  <2>1. \A i \in 1 .. Len(queue) : queue[i] \in Nat /\ queue[i] < nextpkt
    <3>1. \A i \in 1 .. Len(queue) : queue[i] \in 1 .. MaxPackets
      BY <1>3, ElementOfSeq
    <3> QED
      BY <3>1 DEF IInv, Ordered
  <2>2. \A i \in 1 .. Len(sent) : sent[i] \in Nat /\ sent[i] < nextpkt
    <3>1. \A i \in 1 .. Len(sent) : sent[i] \in 1 .. MaxPackets
      BY ElementOfSeq DEF IInv, TypeOK
    <3> QED
      BY <3>1 DEF IInv, Ordered
  <2>3. Len(queue') \in Nat
    BY <1>4
  <2>4. ASSUME NEW i \in 1 .. Len(queue')
        PROVE  queue'[i] < nextpkt' /\ (i <= Len(queue) \/ nextpkt <= queue'[i])
    <3>1. CASE i <= Len(queue)
      <4>1. i \in 1 .. Len(queue) /\ queue'[i] = queue[i]
        BY <1>1, <1>3, <1>4, <2>3, <3>1
      <4> QED
        BY <1>1, <1>5, <2>1, <4>1
    <3>2. CASE Len(queue) < i
      <4>1. /\ i \in Nat /\ Len(queue) \in Nat /\ i <= Len(queue')
            /\ Len(queue') <= Len(queue) + n
        BY <1>3, <1>4, <2>3
      <4>2. queue'[i] = nextpkt + (i - Len(queue)) - 1
        BY <1>4, <3>2, <4>1
      <4>3. nextpkt \in Nat /\ n \in Nat /\ nextpkt' = nextpkt + n
        BY <1>1, <1>5
      <4>4. 1 <= i - Len(queue) /\ i - Len(queue) <= n
        BY <2>3, <3>2, <4>1, <4>3
      <4> QED
        BY <4>1, <4>2, <4>3, <4>4
    <3> QED
      BY <1>3, <2>3, <3>1, <3>2
  <2>5. ASSUME NEW i \in 1 .. Len(queue'), NEW j \in 1 .. Len(queue'), i < j
        PROVE  queue'[i] < queue'[j]
    <3>1. CASE j <= Len(queue)
      <4>1. i \in 1 .. Len(queue) /\ j \in 1 .. Len(queue)
        BY <1>3, <2>3, <2>5, <3>1
      <4> QED
        BY <1>3, <1>4, <2>5, <3>1, <4>1 DEF IInv, Ordered
    <3>2. CASE ~(j <= Len(queue))
      BY <1>1, <1>3, <1>4, <2>1, <2>3, <2>5, <3>2, SMTT(40)
    <3> QED
      BY <3>1, <3>2
  <2>6. ASSUME NEW i \in 1 .. Len(sent), NEW j \in 1 .. Len(queue')
        PROVE  sent[i] < queue'[j]
    <3>1. CASE j <= Len(queue)
      <4>1. j \in 1 .. Len(queue)
        BY <1>3, <2>3, <3>1
      <4> QED
        BY <1>4, <3>1, <4>1 DEF IInv, Ordered
    <3>2. CASE ~(j <= Len(queue))
      BY <1>1, <1>3, <1>4, <2>2, <2>3, <3>2, SMTT(40)
    <3> QED
      BY <3>1, <3>2
  <2>7. \A i \in 1 .. Len(sent) : sent[i] < nextpkt'
    BY <1>1, <1>5, <2>2
  <2> QED
    BY <2>4, <2>5, <2>6, <2>7 DEF Ordered
<1>11. SentInOrder'
  BY DEF IInv, SentInOrder
<1> QED
  BY <1>6, <1>7, <1>8, <1>9, <1>10, <1>11 DEF IInv

\* What a thread has sent comes from the front of the ring, before what stays.
LEMMA Delivered ==
  ASSUME IInv, NEW t \in StreamThreads, Streamed(t)
  PROVE  IInv'
<1> DEFINE w == window[t]
           len == Len(queue)
<1>1. PICK ok \in BOOLEAN, k \in 0 .. w :
        /\ Goto(t, "sending", "loop")
        /\ sent' = sent \o SubSeq(queue, 1, k)
        /\ f_kill_thread' = (f_kill_thread \/ (~ok /\ w > 0 /\ method # "udp"))
        /\ Ring!Take(w)
        /\ lock' = NoOne
        /\ window' = [window EXCEPT ![t] = 0]
        /\ count_out' = count_out + w
        /\ UNCHANGED <<ctlVars, sock, f_streaming, feedVars>>
  BY DEF Streamed
<1>2. /\ w \in 0 .. Batch /\ w \in Nat /\ w <= len /\ len \in Nat /\ k \in Nat /\ k <= w
      /\ queue \in Seq(1 .. MaxPackets) /\ sent \in Seq(1 .. MaxPackets) /\ Len(sent) \in Nat
      /\ count_out \in Nat /\ \A i \in 1 .. len : queue[i] \in 1 .. MaxPackets
  <2>1. th[t] = "sending"
    BY <1>1 DEF Goto
  <2>2. w \in 0 .. Batch /\ Batch \in Nat /\ w <= len
    BY <2>1, OutputStreamAssumption DEF IInv, TypeOK, BatchStaysPut
  <2>3. \A i \in 1 .. len : queue[i] \in 1 .. MaxPackets
    BY ElementOfSeq DEF IInv, TypeOK
  <2> HIDE DEF w
  <2>4. k \in Nat /\ k <= w
    BY <1>1, <2>2
  <2> QED
    BY <2>2, <2>3, <2>4 DEF IInv, TypeOK
<1> HIDE DEF w, len
<1> DEFINE taken == SubSeq(queue, 1, k)
           rest == SubSeq(queue, w + 1, len)
<1>3. /\ taken \in Seq(1 .. MaxPackets) /\ Len(taken) = k
      /\ \A i \in 1 .. k : taken[i] = queue[i]
  <2>1. \A i \in 1 .. k : queue[i] \in 1 .. MaxPackets
    BY <1>2
  <2>2. /\ taken \in Seq(1 .. MaxPackets)
        /\ Len(taken) = IF 1 <= k THEN k - 1 + 1 ELSE 0
        /\ \A i \in 1 .. k - 1 + 1 : taken[i] = queue[1 + i - 1]
    BY <1>2, <2>1, SubSeqProperties
  <2> HIDE DEF taken
  <2>3. \A i \in 1 .. k : i \in 1 .. k - 1 + 1 /\ 1 + i - 1 = i
    BY <1>2
  <2> QED
    BY <1>2, <2>2, <2>3
<1>4. /\ rest \in Seq(1 .. MaxPackets) /\ Len(rest) = len - w
      /\ \A i \in 1 .. len - w : rest[i] = queue[w + i]
  <2>1. \A i \in w + 1 .. len : queue[i] \in 1 .. MaxPackets
    BY <1>2
  <2>2. /\ rest \in Seq(1 .. MaxPackets)
        /\ Len(rest) = IF w + 1 <= len THEN len - (w + 1) + 1 ELSE 0
        /\ \A i \in 1 .. len - (w + 1) + 1 : rest[i] = queue[w + 1 + i - 1]
    BY <1>2, <2>1, SubSeqProperties
  <2> HIDE DEF rest
  <2>3. \A i \in 1 .. len - w : i \in 1 .. len - (w + 1) + 1 /\ w + 1 + i - 1 = w + i
    BY <1>2
  <2> QED
    BY <1>2, <2>2, <2>3
<1>5. /\ queue' = rest /\ sent' = sent \o taken /\ limit' = limit
  BY <1>1 DEF Ring!Take, Ring!Alone, len
<1> HIDE DEF taken, rest
<1>6. /\ sent' \in Seq(1 .. MaxPackets) /\ Len(sent') = Len(sent) + k
      /\ \A i \in 1 .. Len(sent) + k :
           IF i <= Len(sent) THEN sent'[i] = sent[i]
           ELSE i - Len(sent) \in 1 .. len /\ sent'[i] = queue[i - Len(sent)]
  <2>1. /\ sent' \in Seq(1 .. MaxPackets) /\ Len(sent') = Len(sent) + k
        /\ \A i \in 1 .. Len(sent) + k :
             sent'[i] = IF i <= Len(sent) THEN sent[i] ELSE taken[i - Len(sent)]
    BY <1>2, <1>3, <1>5, ConcatProperties
  <2>2. \A i \in 1 .. Len(sent) + k :
          ~(i <= Len(sent)) => i - Len(sent) \in 1 .. k /\ i - Len(sent) \in 1 .. len
    BY <1>2
  <2> QED
    BY <1>3, <2>1, <2>2
<1>7. /\ nextpkt' = nextpkt /\ UNCHANGED <<left, feeder, count_in, ctl, method>>
      /\ th' = [th EXCEPT ![t] = "loop"]
  BY <1>1 DEF Goto, feedVars, ctlVars
<1>8. TypeOK'
  <2>1. count_out' \in Nat
    BY <1>1, <1>2
  <2>2. window' \in [StreamThreads -> 0 .. Batch]
    <3>1. 0 \in 0 .. Batch
      BY OutputStreamAssumption
    <3> QED
      BY <1>1, <3>1 DEF IInv, TypeOK
  <2>3. Len(queue') <= limit'
    <3>1. len <= limit /\ limit \in Nat
      BY OutputStreamAssumption DEF IInv, TypeOK, len
    <3> QED
      BY <1>2, <1>4, <1>5, <3>1
  <2>4. f_kill_thread' \in BOOLEAN
    BY <1>1 DEF IInv, TypeOK
  <2> QED
    <3>1. /\ UNCHANGED <<method, sock, ctl, feeder, left, nextpkt, count_in, f_streaming>>
          /\ limit' = limit /\ lock' = NoOne
      BY <1>1, <1>5, <1>7
    <3>2. th' \in [StreamThreads -> {"none", "created", "loop", "sized", "sending",
                                     "closing", "gone"}]
      BY <1>7 DEF IInv, TypeOK
    <3>3. queue' \in Seq(1 .. MaxPackets) /\ sent' \in Seq(1 .. MaxPackets)
      BY <1>4, <1>5, <1>6
    <3> QED
      BY <2>1, <2>2, <2>3, <2>4, <3>1, <3>2, <3>3 DEF IInv, TypeOK
<1>9. Spawnable' /\ Offered'
  <2>1. th[t] = "sending" /\ th' = [th EXCEPT ![t] = "loop"] /\ UNCHANGED <<ctl, feeder, left, nextpkt>>
    BY <1>1, <1>7 DEF Goto
  <2>2. Spawnable'
    BY <2>1 DEF IInv, TypeOK, Spawnable
  <2>3. Offered'
    BY <2>1 DEF IInv, Offered
  <2> QED
    BY <2>2, <2>3
<1>10. Locked' /\ BatchStaysPut'
  <2>1. \A i \in StreamThreads : i # t => th[i] # "sending"
    BY <1>1 DEF IInv, Locked, Goto
  <2> QED
    BY <1>7, <2>1 DEF IInv, TypeOK, Locked, BatchStaysPut
<1>11. Ordered' /\ SentInOrder'
  <2>1. /\ \A i, j \in 1 .. len : i < j => queue[i] < queue[j]
        /\ \A i \in 1 .. len : queue[i] < nextpkt
        /\ \A i \in 1 .. Len(sent) : sent[i] < nextpkt
        /\ \A i \in 1 .. Len(sent), j \in 1 .. len : sent[i] < queue[j]
        /\ \A i, j \in 1 .. Len(sent) : i < j => sent[i] < sent[j]
    BY DEF IInv, Ordered, SentInOrder, len
  <2>2. \A i \in 1 .. Len(queue') : w + i \in 1 .. len /\ queue'[i] = queue[w + i]
    BY <1>2, <1>4, <1>5
  <2>3. \A i, j \in 1 .. Len(queue') : i < j => queue'[i] < queue'[j]
    <3> SUFFICES ASSUME NEW i \in 1 .. Len(queue'), NEW j \in 1 .. Len(queue'), i < j
                 PROVE  queue'[i] < queue'[j]
      OBVIOUS
    <3>1. w + i < w + j
      BY <1>2, <1>4, <1>5
    <3> QED
      BY <2>1, <2>2, <3>1
  <2>4. \A i \in 1 .. Len(queue') : queue'[i] < nextpkt'
    BY <1>7, <2>1, <2>2
  <2>5. \A i \in 1 .. Len(sent') : sent'[i] < nextpkt'
    <3> SUFFICES ASSUME NEW i \in 1 .. Len(sent') PROVE sent'[i] < nextpkt
      BY <1>7
    <3>1. i \in 1 .. Len(sent) + k /\ (i <= Len(sent) => i \in 1 .. Len(sent))
      BY <1>2, <1>6
    <3> QED
      BY <1>6, <2>1, <3>1
  <2>6. ASSUME NEW i \in 1 .. Len(sent'), NEW j \in 1 .. Len(queue')
        PROVE  sent'[i] < queue'[j]
    <3>1. CASE i <= Len(sent)
      <4>1. i \in 1 .. Len(sent)
        BY <1>2, <1>6, <3>1
      <4> QED
        BY <1>6, <2>1, <2>2, <3>1, <4>1
    <3>2. CASE ~(i <= Len(sent))
      <4>1. i - Len(sent) < w + j
        BY <1>2, <1>4, <1>5, <1>6
      <4> QED
        BY <1>6, <2>1, <2>2, <3>2, <4>1
    <3> QED
      BY <3>1, <3>2
  <2>7. ASSUME NEW i \in 1 .. Len(sent'), NEW j \in 1 .. Len(sent'), i < j
        PROVE  sent'[i] < sent'[j]
    <3>1. CASE j <= Len(sent)
      <4>1. i \in 1 .. Len(sent) /\ j \in 1 .. Len(sent) /\ i <= Len(sent)
        BY <1>2, <1>6, <2>7, <3>1
      <4> QED
        BY <1>6, <2>1, <2>7, <3>1, <4>1
    <3>2. CASE i <= Len(sent) /\ ~(j <= Len(sent))
      <4>1. i \in 1 .. Len(sent)
        BY <1>2, <1>6, <3>2
      <4> QED
        BY <1>6, <2>1, <3>2, <4>1
    <3>3. CASE ~(i <= Len(sent)) /\ ~(j <= Len(sent))
      <4>1. i - Len(sent) < j - Len(sent)
        BY <1>2, <1>6, <2>7
      <4> QED
        BY <1>6, <2>1, <3>3, <4>1
    <3> QED
      BY <1>2, <1>6, <2>7, <3>1, <3>2, <3>3
  <2> QED
    BY <2>3, <2>4, <2>5, <2>6, <2>7 DEF Ordered, SentInOrder
<1> QED
  BY <1>8, <1>9, <1>10, <1>11 DEF IInv

LEMMA StepIInv == IInv /\ [Next]_vars => IInv'
<1> SUFFICES ASSUME IInv, [Next]_vars PROVE IInv'
  OBVIOUS
<1>1. TypeOK /\ Spawnable /\ Offered /\ Locked /\ BatchStaysPut /\ Ordered /\ SentInOrder
  BY DEF IInv
\* The steps that leave the packets where they are, and of threads and windows
\* all that streaming threads have.
<1>2. ASSUME TypeOK', Spawnable', Offered', UNCHANGED <<queue, nextpkt, sent>>,
             \A i \in StreamThreads : th'[i] = "sending" =>
               /\ lock' = i
               /\ window'[i] <= Len(queue)
      PROVE  IInv'
  BY <1>1, <1>2 DEF IInv, Locked, BatchStaysPut, Ordered, SentInOrder
<1>3. ASSUME NEW m \in Methods, AddTarget(m)
      PROVE  IInv'
  <2>1. \A i \in StreamThreads : th[i] = "none"
    BY <1>1, <1>3 DEF AddTarget, Spawnable
  <2>2. /\ queue' = <<>> /\ limit' = limit /\ sock' \in BOOLEAN /\ method' \in AllMethods
        /\ ctl' = "idle"
        /\ UNCHANGED <<f_kill_thread, f_streaming, lock, th, window, feeder, left, nextpkt,
                       count_in, count_out, sent>>
    BY <1>3, OutputStreamAssumption DEF AddTarget, Ring!Clear, Ring!Alone, feedVars
  <2>3. TypeOK'
    <3>1. queue' \in Seq(1 .. MaxPackets) /\ Len(queue') = 0
      BY <2>2, EmptySeq
    <3>2. 0 <= limit' /\ limit' \in {0, Limit}
      BY <1>1, <2>2, OutputStreamAssumption DEF TypeOK
    <3> QED
      BY <1>1, <2>2, <3>1, <3>2 DEF TypeOK
  <2>4. Len(queue') = 0
    BY <2>2
  <2> QED
    BY <1>1, <2>1, <2>2, <2>3, <2>4
       DEF IInv, Spawnable, Offered, Locked, BatchStaysPut, Ordered, SentInOrder
<1>4. ASSUME StartSpawn
      PROVE  IInv'
  <2>1. PICK i \in StreamThreads :
          th[i] = "none" /\ th' = [th EXCEPT ![i] = "created"]
    BY <1>4, Fresh DEF StartSpawn
  <2>2. /\ queue' = <<>> /\ limit' = Limit /\ lock = NoOne /\ ctl' = "idle"
        /\ UNCHANGED <<method, sock, f_kill_thread, f_streaming, lock, window, feeder, left,
                       nextpkt, count_in, count_out, sent>>
    BY <1>4 DEF StartSpawn, Ring!Resize, Ring!Alone, feedVars
  <2>3. TypeOK'
    <3>1. queue' \in Seq(1 .. MaxPackets) /\ Len(queue') = 0
      BY <2>2, EmptySeq
    <3>2. 0 <= limit' /\ limit' \in {0, Limit}
      BY <2>2, OutputStreamAssumption
    <3>3. th' \in [StreamThreads -> {"none", "created", "loop", "sized", "sending",
                                     "closing", "gone"}]
      BY <1>1, <2>1 DEF TypeOK
    <3> QED
      BY <1>1, <2>2, <3>1, <3>2, <3>3 DEF TypeOK
  <2>4. \A j \in StreamThreads : th[j] # "sending" /\ th'[j] # "sending"
    BY <1>1, <2>1, <2>2, OutputStreamAssumption DEF TypeOK, Locked, StreamThreads
  <2>5. Len(queue') = 0
    BY <2>2
  <2> QED
    BY <1>1, <2>2, <2>3, <2>4, <2>5
       DEF IInv, Spawnable, Offered, Locked, BatchStaysPut, Ordered, SentInOrder
<1>5. ASSUME StartCheck \/ (\E c \in {"stopping", "deleting"} : StopCall(c)) \/ StopReturn
               \/ GoOn \/ DrainCall \/ DrainReturn
      PROVE  IInv'
  <2>1. UNCHANGED <<method, sock, f_streaming, queue, limit, lock, th, window, feeder, left,
                    nextpkt, count_in, count_out, sent>>
    BY <1>5 DEF StartCheck, StopCall, StopReturn, GoOn, DrainCall, DrainReturn, ringVars, feedVars
  <2>2. /\ ctl' \in {"idle", "starting", "stopping", "deleting", "stopped", "deleted", "draining"}
        /\ f_kill_thread' \in BOOLEAN
        /\ ctl' = "starting" => \E i \in StreamThreads : th[i] = "none"
    BY <1>1, <1>5 DEF StartCheck, StopCall, StopReturn, GoOn, DrainCall, DrainReturn, TypeOK
  <2>3. TypeOK'
    BY <1>1, <2>1, <2>2 DEF TypeOK
  <2>4. Spawnable' /\ Offered'
    BY <1>1, <2>1, <2>2 DEF Spawnable, Offered
  <2> QED
    BY <1>1, <1>2, <2>1, <2>3, <2>4 DEF Locked, BatchStaysPut
<1>6. ASSUME NEW i \in StreamThreads,
             HeaderFails(i) \/ BeginStreaming(i) \/ EndStreaming(i) \/ SeeBatch(i) \/ CloseFile(i)
      PROVE  IInv'
  <2>1. /\ UNCHANGED <<method, ctl, f_kill_thread, queue, limit, lock, window, feeder, left,
                       nextpkt, count_in, count_out, sent>>
        /\ sock' \in BOOLEAN /\ f_streaming' \in BOOLEAN /\ th[i] # "none"
    BY <1>1, <1>6 DEF HeaderFails, BeginStreaming, EndStreaming, SeeBatch, CloseFile, Goto,
                      ctlVars, ringVars, feedVars, TypeOK
  <2>2. PICK to \in {"loop", "closing", "sized", "gone"} : th' = [th EXCEPT ![i] = to]
    BY <1>6 DEF HeaderFails, BeginStreaming, EndStreaming, SeeBatch, CloseFile, Goto
  <2>3. TypeOK'
    <3>1. th' \in [StreamThreads -> {"none", "created", "loop", "sized", "sending",
                                     "closing", "gone"}]
      BY <1>1, <2>2 DEF TypeOK
    <3> QED
      BY <1>1, <2>1, <3>1 DEF TypeOK
  <2>4. Spawnable' /\ Offered'
    BY <1>1, <2>1, <2>2 DEF Spawnable, Offered, TypeOK
  <2>5. \A j \in StreamThreads : th'[j] = "sending" => th[j] = "sending"
    BY <1>1, <2>2 DEF TypeOK
  <2> QED
    BY <1>1, <1>2, <2>1, <2>3, <2>4, <2>5 DEF Locked, BatchStaysPut
<1>7. ASSUME NEW i \in StreamThreads, GetBatch(i)
      PROVE  IInv'
  <2>1. PICK n \in 0 .. Least(Batch, Len(queue)) : window' = [window EXCEPT ![i] = n]
    BY <1>7 DEF GetBatch
  <2>2. n \in 0 .. Batch /\ n <= Len(queue)
    BY <1>1, <2>1, OutputStreamAssumption DEF Least, TypeOK
  <2>3. /\ lock = NoOne /\ lock' = i /\ th[i] = "sized" /\ th' = [th EXCEPT ![i] = "sending"]
        /\ UNCHANGED <<method, sock, ctl, f_kill_thread, f_streaming, queue, limit, feeder, left,
                       nextpkt, count_in, count_out, sent>>
    BY <1>7 DEF GetBatch, Goto, ctlVars, feedVars
  <2>4. \A j \in StreamThreads : th[j] # "sending"
    BY <1>1, <2>3, OutputStreamAssumption DEF Locked, StreamThreads
  <2>5. TypeOK'
    <3>1. th' \in [StreamThreads -> {"none", "created", "loop", "sized", "sending",
                                     "closing", "gone"}]
      BY <1>1, <2>3 DEF TypeOK
    <3>2. window' \in [StreamThreads -> 0 .. Batch]
      BY <1>1, <2>1, <2>2 DEF TypeOK
    <3> QED
      BY <1>1, <2>3, <3>1, <3>2 DEF TypeOK
  <2>6. Spawnable' /\ Offered'
    BY <1>1, <2>3 DEF Spawnable, Offered, TypeOK
  <2>7. \A j \in StreamThreads : th'[j] = "sending" => j = i /\ window'[j] = n
    BY <1>1, <2>1, <2>3, <2>4 DEF TypeOK
  <2> QED
    BY <1>1, <1>2, <2>2, <2>3, <2>5, <2>6, <2>7
<1>8. ASSUME NEW k \in 1 .. MaxPush, PushCall(k)
      PROVE  IInv'
  <2>1. /\ feeder' = "whole" /\ left' = k /\ nextpkt + k - 1 <= MaxPackets
        /\ UNCHANGED <<method, ctl, sock, f_kill_thread, f_streaming, queue, limit, lock, th,
                       window, nextpkt, count_in, count_out, sent>>
    BY <1>8 DEF PushCall, ctlVars, ringVars
  <2>2. k \in 0 .. MaxPush /\ k >= 1
    BY OutputStreamAssumption
  <2>3. TypeOK'
    BY <1>1, <2>1, <2>2 DEF TypeOK
  <2>4. Spawnable' /\ Offered'
    BY <1>1, <2>1, <2>2 DEF Spawnable, Offered
  <2> QED
    BY <1>1, <1>2, <2>1, <2>3, <2>4 DEF Locked, BatchStaysPut
<1>9. ASSUME PushSplit
      PROVE  IInv'
  <2>1. /\ feeder = "whole" /\ feeder' = "pieces"
        /\ UNCHANGED <<method, ctl, sock, f_kill_thread, f_streaming, queue, limit, lock, th,
                       window, left, nextpkt, count_in, count_out, sent>>
    BY <1>9 DEF PushSplit, ctlVars, ringVars
  <2>2. TypeOK'
    BY <1>1, <2>1 DEF TypeOK
  <2>3. Spawnable' /\ Offered'
    BY <1>1, <2>1 DEF Spawnable, Offered
  <2> QED
    BY <1>1, <1>2, <2>1, <2>2, <2>3 DEF Locked, BatchStaysPut
<1>10. ASSUME PushWhole \/ PushPiece
       PROVE  IInv'
  <2>1. feeder # "idle" /\ lock = NoOne
    BY <1>10 DEF PushWhole, PushPiece
  <2>2. left \in 1 .. left /\ 1 \in 1 .. left
    BY <1>1, <2>1, OutputStreamAssumption DEF Offered, TypeOK
  <2>3. CASE PushWhole
    BY <2>1, <2>2, <2>3, Stored DEF PushWhole
  <2>4. CASE PushPiece
    BY <2>1, <2>2, <2>4, Stored DEF PushPiece
  <2> QED
    BY <1>10, <2>3, <2>4
<1>11. CASE UNCHANGED vars
  <2>1. UNCHANGED <<method, sock, f_kill_thread, f_streaming, queue, limit, lock, th, window,
                    ctl, feeder, left, nextpkt, count_in, count_out, sent>>
    BY <1>11 DEF vars
  <2>2. TypeOK' /\ Spawnable' /\ Offered'
    BY <1>1, <2>1 DEF TypeOK, Spawnable, Offered
  <2> QED
    BY <1>1, <1>2, <2>1, <2>2 DEF Locked, BatchStaysPut
<1> QED
  BY <1>3, <1>4, <1>5, <1>6, <1>7, <1>8, <1>9, <1>10, <1>11, Delivered
     DEF Next, Control, Feed, Run

LEMMA Invariance == Spec => []IInv
  BY InitIInv, StepIInv, PTL DEF Spec

\* No push, start() or second thread takes packets out of the ring under a
\* thread that is streaming them: put_read_ptr() releases what get_read_ptr()
\* lent (output.cpp:output_stream_thread).
THEOREM BatchesStay == Spec => []BatchStaysPut
<1>1. IInv => BatchStaysPut
  BY DEF IInv
<1> QED
  BY <1>1, Invariance, PTL

\* The target receives packets in the order of the pushes and none twice,
\* however many threads stream, and whatever is refused, overrun or restarted.
THEOREM InOrder == Spec => []SentInOrder
<1>1. IInv => SentInOrder
  BY DEF IInv
<1> QED
  BY <1>1, Invariance, PTL

-----------------------------------------------------------------------------
(* A target that is started once.                                          *)

\* One thread at most was created.
LEMMA OnceIsSingle == StartedOnce <=> Single
<1> DEFINE T == {i \in StreamThreads : th[i] # "none"}
<1>1. T \in SUBSET (1 .. MaxStarts) /\ IsFiniteSet(1 .. MaxStarts)
  BY FS_Interval, OutputStreamAssumption DEF StreamThreads
<1>2. IsFiniteSet(T) /\ Cardinality(T) \in Nat
  BY <1>1, FS_Subset, FS_CardinalityType
<1>3. Cardinality(T) <= 1 <=> T = {} \/ \E x : T = {x}
  <2> HIDE DEF T
  <2>1. Cardinality(T) = 0 <=> T = {}
    BY <1>2, FS_EmptySet
  <2>2. Cardinality(T) = 1 <=> \E x : T = {x}
    BY <1>2, FS_Singleton
  <2>3. Cardinality(T) <= 1 <=> Cardinality(T) = 0 \/ Cardinality(T) = 1
    BY <1>2
  <2> QED
    BY <2>1, <2>2, <2>3
<1>4. Single <=> T = {} \/ \E x : T = {x}
  <2>1. ASSUME Single, T # {}
        PROVE  \E x : T = {x}
    <3>1. PICK x \in T : TRUE
      BY <2>1
    <3>2. T = {x}
      BY <2>1, <3>1 DEF Single
    <3> QED
      BY <3>2
  <2>2. T = {} => Single
    BY DEF Single
  <2>3. ASSUME NEW x, T = {x}
        PROVE  Single
    <3> SUFFICES ASSUME NEW i \in StreamThreads, NEW j \in StreamThreads,
                        th[i] # "none", th[j] # "none"
                 PROVE  i = j
      BY DEF Single
    <3>1. i \in T /\ j \in T
      OBVIOUS
    <3> QED
      BY <2>3, <3>1
  <2> QED
    BY <2>1, <2>2, <2>3
<1> QED
  BY <1>3, <1>4 DEF StartedOnce

LEMMA StepQuiet == IInv /\ IInv' /\ Quiet /\ [Next]_vars => Quiet'
<1> SUFFICES ASSUME IInv, IInv', Quiet, [Next]_vars, Single' PROVE
             /\ ~f_streaming' => \A i \in StreamThreads : ~Streaming(i)'
             /\ ctl' \in {"stopping", "deleting", "stopped", "deleted"} => f_kill_thread'
             /\ ctl' \in {"stopped", "deleted"} =>
                  \A i \in StreamThreads : th'[i] \notin {"sized", "sending"}
  BY DEF Quiet
<1> USE DEF Streaming
<1>1. TypeOK
  BY DEF IInv
<1>2. CASE StartSpawn
  <2>1. PICK i \in StreamThreads :
          th[i] = "none" /\ th' = [th EXCEPT ![i] = "created"]
    BY <1>2, Fresh DEF StartSpawn
  <2>2. /\ ctl' = "idle" /\ UNCHANGED <<f_kill_thread, f_streaming>>
    BY <1>2 DEF StartSpawn
  <2>3. \A j \in StreamThreads : j # i => th[j] = "none"
    BY <1>1, <2>1 DEF Single, TypeOK
  <2> QED
    BY <1>1, <2>1, <2>2, <2>3 DEF TypeOK
<1>3. ASSUME ~StartSpawn
      PROVE  Single
  <2>1. \A i \in StreamThreads : th[i] # "none" => th'[i] # "none"
    BY <1>1, <1>3
       DEF Next, Control, Feed, Run, AddTarget, StartCheck, StopCall, StopReturn, GoOn,
           DrainCall, DrainReturn, HeaderFails, BeginStreaming, EndStreaming, SeeBatch, GetBatch,
           Streamed, CloseFile, PushCall, PushWhole, PushSplit, PushPiece, Goto, vars, TypeOK
  <2> QED
    BY <2>1 DEF Single
<1>4. CASE ~StartSpawn
  <2>1. /\ ~f_streaming => \A i \in StreamThreads : ~Streaming(i)
        /\ ctl \in {"stopping", "deleting", "stopped", "deleted"} => f_kill_thread
        /\ ctl \in {"stopped", "deleted"} =>
             \A i \in StreamThreads : th[i] \notin {"sized", "sending"}
    BY <1>3, <1>4 DEF Quiet
  <2>2. CASE \/ \E m \in Methods : AddTarget(m)
             \/ StartCheck \/ (\E c \in {"stopping", "deleting"} : StopCall(c)) \/ StopReturn
             \/ GoOn \/ DrainCall \/ DrainReturn
    BY <1>1, <2>1, <2>2 DEF AddTarget, StartCheck, StopCall, StopReturn, GoOn, DrainCall,
                            DrainReturn, TypeOK
  <2>3. CASE Feed \/ UNCHANGED vars
    BY <2>1, <2>3 DEF Feed, PushCall, PushWhole, PushSplit, PushPiece, ctlVars, vars
  <2>4. ASSUME NEW i \in StreamThreads, Run(i) \/ Streamed(i)
        PROVE  /\ ~f_streaming' => \A j \in StreamThreads : ~Streaming(j)'
               /\ ctl' \in {"stopping", "deleting", "stopped", "deleted"} => f_kill_thread'
               /\ ctl' \in {"stopped", "deleted"} =>
                    \A j \in StreamThreads : th'[j] \notin {"sized", "sending"}
    <3>1. PICK to \in {"loop", "sized", "sending", "closing", "gone"} :
            th[i] # "none" /\ th' = [th EXCEPT ![i] = to]
      BY <2>4 DEF Run, HeaderFails, BeginStreaming, EndStreaming, SeeBatch, GetBatch,
                  Streamed, CloseFile, Goto
    <3>2. \A j \in StreamThreads : j # i => th[j] = "none" /\ th'[j] = "none"
      BY <1>1, <1>3, <1>4, <3>1 DEF Single, TypeOK
    <3>3. th'[i] = to
      BY <1>1, <3>1 DEF TypeOK
    <3>4. ctl' = ctl /\ (f_kill_thread => f_kill_thread')
      <4>1. CASE Streamed(i)
        BY <1>1, <4>1 DEF Streamed, ctlVars, TypeOK
      <4>2. CASE Run(i)
        BY <4>2 DEF Run, HeaderFails, BeginStreaming, EndStreaming, SeeBatch, GetBatch,
                    CloseFile, ctlVars
      <4> QED
        BY <2>4, <4>1, <4>2
    <3>5. ~f_streaming' => to \notin {"loop", "sized", "sending"}
      BY <1>1, <2>1, <2>4, <3>1, <3>3
         DEF Run, HeaderFails, BeginStreaming, EndStreaming, SeeBatch, GetBatch,
             Streamed, CloseFile, Goto, TypeOK
    <3>6. to \in {"sized", "sending"} =>
            \/ ~f_kill_thread
            \/ th[i] = "sized"
      BY <1>1, <2>4, <3>1, <3>3
         DEF Run, HeaderFails, BeginStreaming, EndStreaming, SeeBatch, GetBatch,
             Streamed, CloseFile, Goto, TypeOK
    <3> QED
      BY <2>1, <3>2, <3>3, <3>4, <3>5, <3>6
  <2> QED
    BY <1>4, <2>2, <2>3, <2>4 DEF Next, Control
<1> QED
  BY <1>2, <1>4

\* When stop() has returned on a target that was started once, nothing more is
\* sent before the next call: whoever called stop() may reuse the socket or the
\* callback it gave (output.cpp:stop, output_stream_thread).
THEOREM SilenceAfterStop == Spec => SilentAfterStop
<1>1. Init => Quiet
  BY DEF Init, Quiet, Streaming
<1>2. IInv /\ Quiet /\ [Next]_vars =>
        [StartedOnce /\ ctl \in {"stopped", "deleted"} => sent' = sent]_vars
  <2> SUFFICES ASSUME IInv, Quiet, [Next]_vars, Single, ctl \in {"stopped", "deleted"}
               PROVE  sent' = sent
    BY OnceIsSingle
  <2>1. \A i \in StreamThreads : th[i] # "sending"
    BY DEF Quiet
  <2>2. \A i \in StreamThreads : ~Streamed(i)
    BY <2>1 DEF Streamed, Goto
  <2> QED
    BY <2>2 DEF Next, Control, Feed, Run, AddTarget, StartCheck, StartSpawn, StopCall,
                StopReturn, GoOn, DrainCall, DrainReturn, HeaderFails, BeginStreaming,
                EndStreaming, SeeBatch, GetBatch, CloseFile, PushCall, PushWhole, PushSplit,
                PushPiece, vars
<1> QED
  BY <1>1, <1>2, InitIInv, StepIInv, StepQuiet, PTL DEF Spec, SilentAfterStop
=============================================================================
