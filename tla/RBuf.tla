-------------------------------- MODULE RBuf --------------------------------
(***************************************************************************)
(* The ring buffer of src/libdvbtee/rbuf.cpp, shared by the feeding thread *)
(* and the thread that empties it.                                         *)
(*                                                                         *)
(* Every operation takes the mutex.  write() keeps it over a copy loop;    *)
(* get_write_ptr/put_write_ptr and get_read_ptr/put_read_ptr keep it       *)
(* between two calls of the client, which meanwhile works on the window of *)
(* the ring it was given.  The loop and the windows are steps of their own *)
(* here; an operation that locks and unlocks around straight-line code is  *)
(* one step.  A call that returns false or 0 changes nothing, and is a     *)
(* stuttering step.                                                        *)
(***************************************************************************)
EXTENDS Integers, Sequences

CONSTANTS
  Threads,     \* the threads that call into one rbuf
  NoThread,    \* the holder of a free mutex
  Values,      \* the bytes, as far as they can be told apart
  Junk,        \* the content of memory that was never written
  Capacities,  \* the arguments of set_capacity
  MaxAsk       \* longest write, longest read

ASSUME RBufAssumption ==
  /\ NoThread \notin Threads
  /\ Junk \notin Values
  /\ Capacities \subseteq Nat \ {0}
  /\ MaxAsk \in Nat

VARIABLES
  mutex,       \* who holds it
  capacity, data, idx_read, idx_write,
  pc,          \* where each thread is: not in a call, in write()'s loop, or
               \* between get_write_ptr/put_write_ptr, get_read_ptr/put_read_ptr
  todo,        \* write(): what is still to be copied (r and size)
  span,        \* the length get_write_ptr or get_read_ptr returned
  arg          \* history: what the write() in progress was given

ring == <<capacity, data, idx_read, idx_write>>
vars == <<mutex, capacity, data, idx_read, idx_write, pc, todo, span, arg>>

Strings(n) == UNION {[1..k -> Values] : k \in 0..n}

Least(a, b) == IF a <= b THEN a ELSE b

-----------------------------------------------------------------------------
(* The private arithmetic.                                                 *)

Size ==  \* __get_size
  LET ret == idx_write - idx_read IN IF ret < 0 THEN ret + capacity ELSE ret

WriteAvail ==  \* __get_write_ptr
  IF idx_read <= idx_write THEN capacity - idx_write ELSE idx_read - idx_write

Advance(idx, n) ==  \* __put_write_ptr and __put_read_ptr
  IF idx + n >= capacity THEN 0 ELSE idx + n

ReadSpan(n) ==  \* __get_read_ptr
  LET size == Least(n, Size)
  IN  IF Size <= 0 THEN 0
      ELSE IF idx_read + size >= capacity THEN capacity - idx_read ELSE size

\* memcpy(p_data + idx_write, bs, Len(bs))
Copy(bs) ==
  [i \in DOMAIN data |->
     IF i \in idx_write .. idx_write + Len(bs) - 1
     THEN bs[i - idx_write + 1] ELSE data[i]]

-----------------------------------------------------------------------------
Init ==
  /\ mutex = NoThread
  /\ capacity = 0 /\ data = <<>> /\ idx_read = 0 /\ idx_write = 0
  /\ pc = [t \in Threads |-> "idle"]
  /\ todo = [t \in Threads |-> <<>>]
  /\ span = [t \in Threads |-> 0]
  /\ arg = [t \in Threads |-> <<>>]

\* t finds the mutex free and makes a call.
Enter(t) == pc[t] = "idle" /\ mutex = NoThread

\* The call keeps the mutex: t is at the point p.
Lock(t, p) == mutex' = t /\ pc' = [pc EXCEPT ![t] = p]

\* The call that kept the mutex returns.
Unlock(t) == mutex' = NoThread /\ pc' = [pc EXCEPT ![t] = "idle"]

Allocate(t, cap) ==
  /\ Enter(t)
  /\ capacity' = cap
  /\ data' = [i \in 0 .. cap - 1 |-> Junk]
  /\ idx_read' = 0 /\ idx_write' = 0
  /\ UNCHANGED <<mutex, pc, todo, span, arg>>

SetCapacity(t, cap) == Allocate(t, cap)

Dealloc(t) == Allocate(t, 0)

\* Mutant: reset() does not lock.
Reset_Unlocked(t) ==
  /\ pc[t] = "idle"
  /\ idx_read' = 0 /\ idx_write' = 0
  /\ UNCHANGED <<mutex, capacity, data, pc, todo, span, arg>>

Reset(t) ==
  /\ Enter(t)
  /\ idx_read' = 0 /\ idx_write' = 0
  /\ UNCHANGED <<mutex, capacity, data, pc, todo, span, arg>>

\* write() past its early return
WriteBegin(t, bs) ==
  /\ Enter(t)
  /\ Size + Len(bs) <= capacity
  /\ Lock(t, "write")
  /\ todo' = [todo EXCEPT ![t] = bs]
  /\ arg' = [arg EXCEPT ![t] = bs]
  /\ UNCHANGED <<capacity, data, idx_read, idx_write, span>>

\* Mutant: "size -= available" is missing.
WriteChunk_KeepsSize(t) ==
  LET n == Least(WriteAvail, Len(todo[t]))
  IN  /\ pc[t] = "write" /\ todo[t] # <<>>
      /\ n > 0
      /\ data' = Copy(SubSeq(todo[t], 1, n))
      /\ idx_write' = Advance(idx_write, n)
      /\ UNCHANGED <<mutex, capacity, idx_read, pc, todo, span, arg>>

\* Mutant: "r += available" is missing.
WriteChunk_RepeatsStart(t) ==
  LET n == Least(WriteAvail, Len(todo[t]))
  IN  /\ pc[t] = "write" /\ todo[t] # <<>>
      /\ n > 0
      /\ data' = Copy(SubSeq(todo[t], 1, n))
      /\ idx_write' = Advance(idx_write, n)
      /\ todo' = [todo EXCEPT ![t] = SubSeq(@, 1, Len(@) - n)]
      /\ UNCHANGED <<mutex, capacity, idx_read, pc, span, arg>>

\* One turn of write()'s loop.  There is no branch for a ring without room:
\* the loop would spin with the mutex held.
WriteChunk(t) ==
  LET n == Least(WriteAvail, Len(todo[t]))
  IN  /\ pc[t] = "write" /\ todo[t] # <<>>
      /\ n > 0
      /\ data' = Copy(SubSeq(todo[t], 1, n))
      /\ idx_write' = Advance(idx_write, n)
      /\ todo' = [todo EXCEPT ![t] = SubSeq(@, n + 1, Len(@))]
      /\ UNCHANGED <<mutex, capacity, idx_read, pc, span, arg>>

WriteReturn(t) ==
  /\ pc[t] = "write" /\ todo[t] = <<>>
  /\ Unlock(t)
  /\ arg' = [arg EXCEPT ![t] = <<>>]
  /\ UNCHANGED <<capacity, data, idx_read, idx_write, todo, span>>

GetWritePtr(t) ==
  /\ Enter(t)
  /\ Lock(t, "wptr")
  /\ span' = [span EXCEPT ![t] = WriteAvail]
  /\ UNCHANGED <<capacity, data, idx_read, idx_write, todo, arg>>

\* The client has stored bs in its window.
PutWritePtr(t, bs) ==
  /\ pc[t] = "wptr"
  /\ Len(bs) <= span[t]
  /\ data' = Copy(bs)
  /\ idx_write' = Advance(idx_write, Len(bs))
  /\ Unlock(t)
  /\ span' = [span EXCEPT ![t] = 0]
  /\ UNCHANGED <<capacity, idx_read, todo, arg>>

GetReadPtr(t, n) ==
  /\ Enter(t)
  /\ Lock(t, "rptr")
  /\ span' = [span EXCEPT ![t] = ReadSpan(n)]
  /\ UNCHANGED <<capacity, data, idx_read, idx_write, todo, arg>>

\* The client hands back n of the bytes of its window as consumed: all of
\* them, or what it rounded them down to.
PutReadPtr(t, n) ==
  /\ pc[t] = "rptr"
  /\ n <= span[t]
  /\ idx_read' = Advance(idx_read, n)
  /\ Unlock(t)
  /\ span' = [span EXCEPT ![t] = 0]
  /\ UNCHANGED <<capacity, data, idx_write, todo, arg>>

Read(t, n) ==
  /\ Enter(t)
  /\ idx_read' = Advance(idx_read, ReadSpan(n))
  /\ UNCHANGED <<mutex, capacity, data, idx_write, pc, todo, span, arg>>

\* The steps that finish a call which holds the mutex.
Finish(t) ==
  \/ WriteChunk(t)
  \/ WriteReturn(t)
  \/ \E bs \in Strings(MaxAsk) : PutWritePtr(t, bs)
  \/ \E n \in 0 .. MaxAsk : PutReadPtr(t, n)

Call(t) ==
  \/ \E cap \in Capacities : SetCapacity(t, cap)
  \/ Dealloc(t)
  \/ Reset(t)
  \/ \E bs \in Strings(MaxAsk) : WriteBegin(t, bs)
  \/ GetWritePtr(t)
  \/ \E n \in 1 .. MaxAsk : GetReadPtr(t, n) \/ Read(t, n)

Next == \E t \in Threads : Call(t) \/ Finish(t)

Spec == Init /\ [][Next]_vars

\* The turns of write()'s loop wait for nothing, so a running thread takes
\* them.  Nothing is assumed of the clients: one that holds a window may be in
\* a read() or a send() that never returns (feed.cpp:file_feed_thread,
\* output.cpp:output_stream_thread).
Fairness == \A t \in Threads : WF_vars(WriteChunk(t) \/ WriteReturn(t))

FairSpec == Spec /\ Fairness

-----------------------------------------------------------------------------
(* Properties.                                                             *)

TypeOK ==
  /\ mutex \in Threads \cup {NoThread}
  /\ capacity \in Nat
  /\ data \in [0 .. capacity - 1 -> Values \cup {Junk}]
  /\ idx_read \in Nat
  /\ idx_write \in Nat
  /\ pc \in [Threads -> {"idle", "write", "wptr", "rptr"}]
  /\ todo \in [Threads -> Seq(Values)]
  /\ span \in [Threads -> Nat]
  /\ arg \in [Threads -> Seq(Values)]

\* The indices address the allocation, or it is not there: no sequence of
\* wraps, resets and resizes by several threads leaves one behind it
\* (rbuf.cpp:283, "== should be enough").
IndexInv ==
  /\ idx_read < capacity \/ (capacity = 0 /\ idx_read = 0)
  /\ idx_write < capacity \/ (capacity = 0 /\ idx_write = 0)

\* Exactly the thread between lock and unlock is inside a call: no path
\* through the operations leaks the mutex or unlocks another thread's.
MutexInv == \A t \in Threads : pc[t] # "idle" <=> mutex = t

\* What is left of an accepted write still fits behind the unread bytes, so
\* the loop, which has no branch for a ring without room (rbuf.cpp:213), always
\* finds some and never runs over the reader's index.
WriteFits ==
  \A t \in Threads :
    pc[t] = "write" /\ todo[t] # <<>> =>
      /\ Len(todo[t]) <= capacity - Size
      /\ WriteAvail > 0

\* The window lent to a client stays valid while it works on it, whatever the
\* other threads call: it lies in the allocation; a write window holds no
\* unread byte; a read window holds only unread bytes.
WindowInv ==
  \A t \in Threads :
    /\ pc[t] = "wptr" =>
         /\ idx_write + span[t] <= capacity
         /\ Size + span[t] <= capacity
    /\ pc[t] = "rptr" =>
         /\ idx_read + span[t] <= capacity
         /\ span[t] <= Size

Safety == IndexInv /\ MutexInv /\ WriteFits /\ WindowInv

\* What a reader would get, oldest first.
Contents == [i \in 1 .. Size |-> data[(idx_read + i - 1) % capacity]]

\* A write() is in progress until its last byte is copied: till then the queue
\* is what was stored before, and what was given to it is asked for.
InProgress == \E t \in Threads : pc[t] = "write" /\ todo[t] # <<>>
Writer == CHOOSE t \in Threads : pc[t] = "write"
Asked == IF InProgress THEN arg[Writer] ELSE <<>>
Stored ==
  IF InProgress THEN SubSeq(Contents, 1, Size - Len(arg[Writer]) + Len(todo[Writer]))
                ELSE Contents

Abstract == INSTANCE OverrunFifo WITH queue <- Stored, limit <- capacity, asked <- Asked

\* The ring is a first-in first-out queue that empties itself when it is
\* filled (see OverrunFifo): the indices, the two-piece copy at the wrap and
\* the windows neither lose, repeat, reorder nor invent a byte.
ImplementsFifo == Abstract!FifoSpec

\* A write() that was accepted returns: its loop always finds room, copies
\* something on every turn and gives the mutex back.
WriteReturns == \A t \in Threads : (pc[t] = "write") ~> (pc[t] = "idle")
=============================================================================
