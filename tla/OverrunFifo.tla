----------------------------- MODULE OverrunFifo -----------------------------
(***************************************************************************)
(* What class rbuf (src/libdvbtee/rbuf.cpp) promises to its callers: a     *)
(* bounded first-in first-out queue of bytes with one peculiarity.  The    *)
(* code accepts a write that fills the buffer to the last byte, but a full *)
(* ring and an empty ring have the same two indices, so the write that     *)
(* fills the queue empties it.  Nothing else may lose, repeat, reorder or  *)
(* invent a byte.                                                          *)
(*                                                                         *)
(* RBuf implements this specification (RBuf!Abstract); OutputStream and    *)
(* the other clients are specified on top of it.                           *)
(***************************************************************************)
EXTENDS Naturals, Sequences

CONSTANTS
  Values,      \* what a cell of the queue can hold
  Capacities,  \* the capacities callers ask for
  MaxAsk       \* most cells one call hands over or asks for

VARIABLES
  queue,       \* the cells a reader can still obtain, oldest first
  limit,       \* the capacity
  asked        \* what write() was given and has not stored yet

fifoVars == <<queue, limit, asked>>

\* The strings of at most n cells.
Strings(n) == UNION {[1..k -> Values] : k \in 0..n}

FifoInit == queue = <<>> /\ limit = 0 /\ asked = <<>>

\* Nothing else happens while write() works.
Alone == asked = <<>> /\ UNCHANGED asked

\* set_capacity and dealloc: a new allocation starts empty.
Resize(cap) == Alone /\ limit' = cap /\ queue' = <<>>

\* reset: whatever was stored is forgotten.
Clear == Alone /\ queue' = <<>> /\ UNCHANGED limit

\* What the queue holds after accepting bs.
Accept(q, cap, bs) == IF Len(q) + Len(bs) = cap THEN <<>> ELSE q \o bs

\* write accepts what fits, the last free cell included, ...
Ask(bs) ==
  /\ asked = <<>>
  /\ Len(queue) + Len(bs) <= limit
  /\ asked' = bs
  /\ UNCHANGED <<queue, limit>>

\* ... and stores just that.
Store ==
  /\ asked # <<>>
  /\ queue' = Accept(queue, limit, asked)
  /\ asked' = <<>>
  /\ UNCHANGED limit

\* put_write_ptr: what the client has put in the window it was lent, or a
\* write() as a whole.
Put(bs) ==
  /\ Alone
  /\ Len(queue) + Len(bs) <= limit
  /\ queue' = Accept(queue, limit, bs)
  /\ UNCHANGED limit

\* read and put_read_ptr release the n oldest cells.
Take(n) ==
  /\ Alone
  /\ n <= Len(queue)
  /\ queue' = SubSeq(queue, n + 1, Len(queue))
  /\ UNCHANGED limit

FifoNext ==
  \/ \E cap \in Capacities \cup {0} : Resize(cap)
  \/ Clear
  \/ \E bs \in Strings(MaxAsk) : Ask(bs) \/ Put(bs)
  \/ Store
  \/ \E n \in 0..MaxAsk : Take(n)

FifoSpec == FifoInit /\ [][FifoNext]_fifoVars
=============================================================================
