----------------------------- MODULE LibraryProofs -----------------------------
(***************************************************************************)
(* What the library's stores promise, for every value of the constants.    *)
(*                                                                         *)
(* First the ring buffer: its safety for every set of threads, every       *)
(* capacity and every length of write and read, and that each of its steps *)
(* is one of the queue that OverrunFifo promises.  Then the tables: that   *)
(* the tree of the decoders, the maps and the stores agree on who lives,   *)
(* that a version of a table is kept once, and that its two forms agree,   *)
(* whatever is on air and whichever parsers come and go.  Then the values: *)
(* that they are counted right, and that containers which share them never *)
(* show in one another what is done to one of them.                        *)
(***************************************************************************)
EXTENDS RBuf, Tables, Values, FiniteSetTheorems, SequenceTheorems, WellFoundedInduction, TLAPS

\* The inductive invariant.  The pieces need each other: the windows and the
\* copy loop stay valid because no other thread enters (MutexInv), the new
\* indices are in range because windows and copies are (WindowInv, WriteFits).
IInv == TypeOK /\ Safety

\* Initially there is no allocation and no call in progress.
LEMMA InitIInv == Init => IInv
  BY RBufAssumption DEF Init, IInv, TypeOK, Safety, IndexInv, MutexInv, WriteFits, WindowInv

\* The three lengths the arithmetic of rbuf.cpp computes.
LEMMA Lengths ==
  ASSUME IInv
  PROVE  /\ Size \in Nat
         /\ Size <= capacity
         /\ capacity > 0 => Size < capacity
         /\ WriteAvail \in Nat
         /\ idx_write + WriteAvail <= capacity
         /\ Size + WriteAvail <= capacity
         /\ capacity > 0 => WriteAvail > 0
  BY DEF IInv, TypeOK, Safety, IndexInv, Size, WriteAvail

\* A read window is contiguous and holds only unread bytes.
LEMMA ReadSpans ==
  ASSUME IInv, NEW n \in Nat
  PROVE  /\ ReadSpan(n) \in Nat
         /\ ReadSpan(n) <= Size
         /\ idx_read + ReadSpan(n) <= capacity
  BY Lengths DEF IInv, TypeOK, Safety, IndexInv, Size, ReadSpan, Least

\* The range of the indices, spelt out.
LEMMA IndexRanges ==
  ASSUME IInv
  PROVE  /\ capacity \in Nat /\ idx_read \in Nat /\ idx_write \in Nat
         /\ idx_read < capacity \/ (capacity = 0 /\ idx_read = 0)
         /\ idx_write < capacity \/ (capacity = 0 /\ idx_write = 0)
  BY DEF IInv, TypeOK, Safety, IndexInv

\* Advancing an index keeps it in range.
LEMMA Advances ==
  ASSUME capacity \in Nat, NEW idx \in Nat, NEW n \in Nat,
         idx < capacity \/ (capacity = 0 /\ idx = 0)
  PROVE  /\ Advance(idx, n) \in Nat
         /\ Advance(idx, n) < capacity \/ (capacity = 0 /\ Advance(idx, n) = 0)
  BY DEF Advance

\* Strings of bytes are sequences with a natural length.
LEMMA StringsType ==
  ASSUME NEW n \in Nat, NEW bs \in Strings(n)
  PROVE  bs \in Seq(Values) /\ Len(bs) \in Nat
<1>1. PICK k \in 0 .. n : bs \in [1 .. k -> Values]
  BY DEF Strings
<1>2. bs \in Seq(Values)
  BY <1>1
<1> QED
  BY <1>2

\* Copying a string that fits keeps the ring's cells bytes.
LEMMA CopyType ==
  ASSUME TypeOK, NEW bs \in Seq(Values)
  PROVE  Copy(bs) \in [0 .. capacity - 1 -> Values \cup {Junk}]
<1>1. ASSUME NEW i \in 0 .. capacity - 1, i \in idx_write .. idx_write + Len(bs) - 1
      PROVE  bs[i - idx_write + 1] \in Values
  <2>1. i - idx_write + 1 \in 1 .. Len(bs)
    BY <1>1 DEF TypeOK
  <2> QED
    BY <2>1
<1>2. DOMAIN data = 0 .. capacity - 1
  BY DEF TypeOK
<1> QED
  BY <1>1, <1>2 DEF Copy, TypeOK

\* Every operation, by any thread, preserves the invariant.
LEMMA StepIInv == IInv /\ [Next]_vars => IInv'
<1> SUFFICES ASSUME IInv, [Next]_vars PROVE IInv'
  OBVIOUS
<1> USE RBufAssumption
<1>1. ASSUME NEW t \in Threads, NEW cap \in Capacities \cup {0}, Allocate(t, cap)
      PROVE  IInv'
  <2>1. cap \in Nat
    OBVIOUS
  <2>2. \A u \in Threads : pc[u] = "idle"
    BY <1>1 DEF IInv, Safety, MutexInv, Allocate, Enter
  <2>3. TypeOK'
    BY <1>1, <2>1 DEF IInv, TypeOK, Allocate
  <2>4. Safety'
    BY <1>1, <2>1, <2>2 DEF IInv, TypeOK, Safety, IndexInv, MutexInv, WriteFits, WindowInv,
                            Allocate
  <2> QED
    BY <2>3, <2>4 DEF IInv
<1>2. ASSUME NEW t \in Threads, Reset(t)
      PROVE  IInv'
  <2>1. \A u \in Threads : pc[u] = "idle"
    BY <1>2 DEF IInv, Safety, MutexInv, Reset, Enter
  <2> QED
    BY <1>2, <2>1 DEF IInv, TypeOK, Safety, IndexInv, MutexInv, WriteFits, WindowInv, Reset
<1>3. ASSUME NEW t \in Threads, NEW bs \in Strings(MaxAsk), WriteBegin(t, bs)
      PROVE  IInv'
  <2>1. bs \in Seq(Values) /\ Len(bs) \in Nat
    BY StringsType
  <2>2. \A u \in Threads : pc'[u] = IF u = t THEN "write" ELSE "idle"
    BY <1>3 DEF IInv, TypeOK, Safety, MutexInv, WriteBegin, Enter, Lock
  <2>3. TypeOK' /\ mutex' = t
    BY <1>3, <2>1 DEF IInv, TypeOK, WriteBegin, Lock
  <2>4. IndexInv' /\ MutexInv' /\ WindowInv'
    BY <1>3, <2>2, <2>3 DEF IInv, Safety, IndexInv, MutexInv, WindowInv, WriteBegin
  <2>5. WriteFits'
    <3>1. todo'[t] = bs /\ Size' = Size /\ WriteAvail' = WriteAvail /\ capacity' = capacity
      BY <1>3 DEF IInv, TypeOK, WriteBegin, Size, WriteAvail
    <3>2. bs # <<>> => Len(bs) > 0
      BY <2>1
    <3>3. Len(bs) <= capacity - Size /\ (bs # <<>> => WriteAvail > 0)
      BY <1>3, <2>1, <3>2, Lengths, SMTT(40) DEF IInv, TypeOK, WriteBegin
    <3> QED
      BY <2>2, <3>1, <3>3 DEF WriteFits
  <2> QED
    BY <2>3, <2>4, <2>5 DEF IInv, Safety
<1>4. ASSUME NEW t \in Threads, WriteChunk(t)
      PROVE  IInv'
  <2> DEFINE n == Least(WriteAvail, Len(todo[t]))
             chunk == SubSeq(todo[t], 1, n)
             rest == SubSeq(todo[t], n + 1, Len(todo[t]))
  <2>1. todo[t] \in Seq(Values) /\ Len(todo[t]) \in Nat
    BY DEF IInv, TypeOK
  <2>2. n \in Nat /\ n <= Len(todo[t]) /\ n <= WriteAvail /\ (n = WriteAvail \/ n = Len(todo[t]))
    BY <2>1, Lengths DEF Least
  <2>3. chunk \in Seq(Values) /\ rest \in Seq(Values) /\ Len(rest) = Len(todo[t]) - n
    BY <2>1, <2>2, SubSeqProperties
  <2>4. \A u \in Threads : pc[u] = IF u = t THEN "write" ELSE "idle"
    BY <1>4 DEF IInv, TypeOK, Safety, MutexInv, WriteChunk
  <2> HIDE DEF n, chunk, rest
  <2>5. /\ data' = Copy(chunk)
        /\ idx_write' = Advance(idx_write, n)
        /\ todo' = [todo EXCEPT ![t] = rest]
        /\ UNCHANGED <<mutex, capacity, idx_read, pc, span, arg>>
    BY <1>4 DEF WriteChunk, n, chunk, rest
  <2>6. idx_write' \in Nat /\ (idx_write' < capacity \/ (capacity = 0 /\ idx_write' = 0))
    BY <2>2, <2>5, IndexRanges, Advances
  <2>7. TypeOK'
    <3>1. TypeOK
      BY DEF IInv
    <3>2. data' \in [0 .. capacity - 1 -> Values \cup {Junk}]
      BY <2>3, <2>5, <3>1, CopyType
    <3>3. todo' \in [Threads -> Seq(Values)]
      BY <2>2, <2>3, <2>5, <3>1 DEF TypeOK
    <3> QED
      BY <2>5, <2>6, <3>1, <3>2, <3>3 DEF TypeOK
  <2>8. IndexInv' /\ MutexInv' /\ WindowInv'
    BY <2>4, <2>5, <2>6 DEF IInv, TypeOK, Safety, IndexInv, MutexInv, WindowInv
  <2>9. WriteFits'
    <3>1. todo'[t] = rest
      BY <2>5 DEF IInv, TypeOK
    <3>2. SUFFICES ASSUME rest # <<>>
                   PROVE  Len(rest) <= capacity - Size' /\ WriteAvail' > 0
      BY <2>4, <2>5, <3>1 DEF WriteFits
    <3>3. todo[t] # <<>> /\ pc[t] = "write"
      BY <1>4 DEF WriteChunk
    <3>4. Len(todo[t]) <= capacity - Size
      BY <3>3 DEF IInv, Safety, WriteFits
    <3>5. Len(rest) > 0
      BY <2>3, <3>2
    <3>6. n = WriteAvail /\ n < Len(todo[t])
      BY <2>1, <2>2, <2>3, <3>5
    <3>7. idx_write' = Advance(idx_write, n) /\ idx_read' = idx_read /\ capacity' = capacity
      BY <2>5
    <3>8. Len(rest) \in Nat /\ Len(rest) = Len(todo[t]) - WriteAvail
      BY <2>1, <2>3, <3>5, <3>6
    <3>9. idx_read <= idx_write /\ idx_write' = 0
      BY <2>1, <3>4, <3>5, <3>6, <3>7, <3>8, IndexRanges, SMTT(40) DEF Size, WriteAvail, Advance
    <3>10. 0 < idx_read
      BY <2>1, <3>4, <3>5, <3>8, <3>9, IndexRanges, SMTT(40) DEF Size, WriteAvail
    <3> QED
      BY <2>1, <3>4, <3>7, <3>8, <3>9, <3>10, IndexRanges, SMTT(40) DEF Size, WriteAvail
  <2> QED
    BY <2>7, <2>8, <2>9 DEF IInv, Safety
<1>5. ASSUME NEW t \in Threads, WriteReturn(t)
      PROVE  IInv'
  <2>1. \A u \in Threads : pc'[u] = "idle"
    BY <1>5 DEF IInv, TypeOK, Safety, MutexInv, WriteReturn, Unlock
  <2> QED
    BY <1>5, <2>1 DEF IInv, TypeOK, Safety, IndexInv, MutexInv, WriteFits, WindowInv,
                      WriteReturn, Unlock
<1>6. ASSUME NEW t \in Threads, GetWritePtr(t)
      PROVE  IInv'
  <2>1. \A u \in Threads : pc'[u] = IF u = t THEN "wptr" ELSE "idle"
    BY <1>6 DEF IInv, TypeOK, Safety, MutexInv, GetWritePtr, Enter, Lock
  <2>2. TypeOK' /\ mutex' = t /\ span'[t] = WriteAvail
    BY <1>6, Lengths DEF IInv, TypeOK, GetWritePtr, Lock
  <2>3. UNCHANGED <<capacity, idx_read, idx_write>> /\ Size' = Size
    BY <1>6 DEF GetWritePtr, Size
  <2> QED
    BY <2>1, <2>2, <2>3, Lengths
       DEF IInv, Safety, IndexInv, MutexInv, WriteFits, WindowInv
<1>7. ASSUME NEW t \in Threads, NEW bs \in Strings(MaxAsk), PutWritePtr(t, bs)
      PROVE  IInv'
  <2>1. bs \in Seq(Values) /\ Len(bs) \in Nat
    BY StringsType
  <2>2. \A u \in Threads : pc'[u] = "idle"
    BY <1>7 DEF IInv, TypeOK, Safety, MutexInv, PutWritePtr, Unlock
  <2>3. idx_write' \in Nat /\ (idx_write' < capacity \/ (capacity = 0 /\ idx_write' = 0))
    <3>1. idx_write' = Advance(idx_write, Len(bs))
      BY <1>7 DEF PutWritePtr
    <3> QED
      BY <2>1, <3>1, IndexRanges, Advances
  <2>4. TypeOK'
    BY <1>7, <2>1, <2>3, CopyType DEF IInv, TypeOK, PutWritePtr, Unlock
  <2>5. Safety'
    BY <1>7, <2>2, <2>3 DEF IInv, TypeOK, Safety, IndexInv, MutexInv, WriteFits, WindowInv,
                            PutWritePtr, Unlock
  <2> QED
    BY <2>4, <2>5 DEF IInv
<1>8. ASSUME NEW t \in Threads, NEW n \in 1 .. MaxAsk, GetReadPtr(t, n)
      PROVE  IInv'
  <2>1. \A u \in Threads : pc'[u] = IF u = t THEN "rptr" ELSE "idle"
    BY <1>8 DEF IInv, TypeOK, Safety, MutexInv, GetReadPtr, Enter, Lock
  <2>2. n \in Nat /\ ReadSpan(n) \in Nat
    BY ReadSpans
  <2>3. TypeOK' /\ mutex' = t /\ span'[t] = ReadSpan(n)
    BY <1>8, <2>2 DEF IInv, TypeOK, GetReadPtr, Lock
  <2>4. UNCHANGED <<capacity, idx_read, idx_write>> /\ Size' = Size
    BY <1>8 DEF GetReadPtr, Size
  <2> QED
    BY <2>1, <2>2, <2>3, <2>4, ReadSpans
       DEF IInv, Safety, IndexInv, MutexInv, WriteFits, WindowInv
<1>9. ASSUME NEW t \in Threads, NEW n \in 0 .. MaxAsk, PutReadPtr(t, n)
      PROVE  IInv'
  <2>1. \A u \in Threads : pc'[u] = "idle"
    BY <1>9 DEF IInv, TypeOK, Safety, MutexInv, PutReadPtr, Unlock
  <2>2. idx_read' \in Nat /\ (idx_read' < capacity \/ (capacity = 0 /\ idx_read' = 0))
    <3>1. n \in Nat /\ idx_read' = Advance(idx_read, n)
      BY <1>9 DEF PutReadPtr
    <3> QED
      BY <3>1, IndexRanges, Advances
  <2> QED
    BY <1>9, <2>1, <2>2 DEF IInv, TypeOK, Safety, IndexInv, MutexInv, WriteFits, WindowInv,
                            PutReadPtr, Unlock
<1>10. ASSUME NEW t \in Threads, NEW n \in 1 .. MaxAsk, Read(t, n)
       PROVE  IInv'
  <2>1. \A u \in Threads : pc[u] = "idle"
    BY <1>10 DEF IInv, Safety, MutexInv, Read, Enter
  <2>2. idx_read' \in Nat /\ (idx_read' < capacity \/ (capacity = 0 /\ idx_read' = 0))
    <3>1. ReadSpan(n) \in Nat /\ idx_read' = Advance(idx_read, ReadSpan(n))
      BY <1>10, ReadSpans DEF Read
    <3> QED
      BY <3>1, IndexRanges, Advances
  <2> QED
    BY <1>10, <2>1, <2>2 DEF IInv, TypeOK, Safety, IndexInv, MutexInv, WriteFits, WindowInv,
                             Read
<1>11. CASE UNCHANGED vars
  BY <1>11 DEF vars, IInv, TypeOK, Safety, IndexInv, MutexInv, WriteFits, WindowInv,
               Size, WriteAvail
<1> QED
  BY <1>1, <1>2, <1>3, <1>4, <1>5, <1>6, <1>7, <1>8, <1>9, <1>10, <1>11
     DEF Next, Call, Finish, SetCapacity, Dealloc

\* The invariant holds in every reachable state.
LEMMA Invariance == Spec => []IInv
  BY InitIInv, StepIInv, PTL DEF Spec

\* Types, and with them: the cells of the ring, the indices and the lengths
\* handed to clients are never negative or out of their ranges.
THEOREM TypeCorrect == Spec => []TypeOK
<1>1. IInv => TypeOK
  BY DEF IInv
<1> QED
  BY <1>1, Invariance, PTL

\* No interleaving of the operations of any number of threads takes an index
\* out of the allocation, leaks the mutex, starves the copy loop of room or
\* invalidates a window a client works on.
THEOREM RingSafe == Spec => [](IndexInv /\ MutexInv /\ WriteFits /\ WindowInv)
<1>1. IInv => IndexInv /\ MutexInv /\ WriteFits /\ WindowInv
  BY DEF IInv, Safety
<1> QED
  BY <1>1, Invariance, PTL
-----------------------------------------------------------------------------
(* The ring implements OverrunFifo.                                        *)

\* A write() under way has put the first part of its argument at the end of
\* the queue, and the rest of the argument is what is left to do: with it IInv
\* decides which queue a reader will find when the write is finished.
InFlight ==
  \A t \in Threads :
    pc[t] = "write" /\ todo[t] # <<>> =>
      LET k == Len(arg[t]) - Len(todo[t])
      IN  /\ k \in 0 .. Size
          /\ \A j \in 1 .. k : Contents[Size - k + j] = arg[t][j]
          /\ \A j \in 1 .. Len(todo[t]) : todo[t][j] = arg[t][k + j]

Bytes == Values \cup {Junk}

\* The remainder Contents takes of an index that has run over the end once.
LEMMA Modulo ==
  ASSUME NEW c \in Nat \ {0}, NEW x \in Nat, x < 2 * c
  PROVE  x % c = IF x < c THEN x ELSE x - c
<1>1. CASE x < c
  BY <1>1
<1>2. CASE ~(x < c)
  BY <1>2
<1> QED
  BY <1>1, <1>2

\* The i-th unread byte lies behind idx_read, or at the start of the
\* allocation when that runs over its end.
Place(i) == IF idx_read + i - 1 < capacity THEN idx_read + i - 1 ELSE idx_read + i - 1 - capacity

\* The places of the unread bytes, and the string a reader would get.
Layout ==
  /\ Size \in Nat
  /\ \A i \in 1 .. Size :
       /\ Place(i) \in 0 .. capacity - 1
       /\ IF idx_read <= idx_write THEN Place(i) \in idx_read .. idx_write - 1
          ELSE Place(i) \in (idx_read .. capacity - 1) \cup (0 .. idx_write - 1)
       /\ Contents[i] = data[Place(i)]
  /\ Contents \in Seq(Bytes)
  /\ Len(Contents) = Size

LEMMA Laid == IInv => Layout
<1> SUFFICES ASSUME IInv PROVE Layout
  OBVIOUS
<1>1. Size \in Nat
  BY Lengths
<1>2. ASSUME NEW i \in 1 .. Size
      PROVE  /\ (idx_read + i - 1) % capacity = Place(i)
             /\ Place(i) \in 0 .. capacity - 1
             /\ IF idx_read <= idx_write THEN Place(i) \in idx_read .. idx_write - 1
                ELSE Place(i) \in (idx_read .. capacity - 1) \cup (0 .. idx_write - 1)
  <2>1. capacity \in Nat \ {0} /\ idx_read < capacity /\ idx_write < capacity
    BY <1>1, IndexRanges, Lengths
  <2> DEFINE x == idx_read + i - 1
  <2>2. x \in Nat /\ x < 2 * capacity
    BY <1>1, <2>1, IndexRanges, Lengths
  <2> HIDE DEF x
  <2>3. x % capacity = IF x < capacity THEN x ELSE x - capacity
    BY <2>1, <2>2, Modulo
  <2>4. (idx_read + i - 1) % capacity = Place(i)
    BY <1>1, <2>1, <2>2, <2>3, IndexRanges DEF Place, x
  <2>5. i <= Size /\ Size = IF idx_write < idx_read THEN idx_write - idx_read + capacity
                            ELSE idx_write - idx_read
    BY <1>1, <2>1, IndexRanges DEF Size
  <2> QED
    BY <1>1, <2>1, <2>4, <2>5, IndexRanges DEF Place
<1>3. \A i \in 1 .. Size : /\ data[(idx_read + i - 1) % capacity] = data[Place(i)]
                           /\ data[Place(i)] \in Bytes
  BY <1>2 DEF IInv, TypeOK, Bytes
<1>4. Contents = [i \in 1 .. Size |-> data[(idx_read + i - 1) % capacity]]
  BY DEF Contents
<1>5. Contents \in [1 .. Size -> Bytes] /\ \A i \in 1 .. Size : Contents[i] = data[Place(i)]
  BY <1>3, <1>4
<1>6. Contents \in Seq(Bytes) /\ Len(Contents) = Size
  BY <1>1, <1>5
<1> QED
  BY <1>1, <1>2, <1>5, <1>6 DEF Layout

\* A string copied to the free cells behind idx_write becomes the end of the
\* queue, and the string that takes the last free cell empties it.
LEMMA Appended ==
  ASSUME IInv, IInv', NEW bs \in Seq(Values),
         idx_write + Len(bs) <= capacity, Size + Len(bs) <= capacity,
         data' = Copy(bs), idx_write' = Advance(idx_write, Len(bs)),
         UNCHANGED <<capacity, idx_read>>
  PROVE  /\ Size' = IF Size + Len(bs) = capacity THEN 0 ELSE Size + Len(bs)
         /\ Size + Len(bs) < capacity =>
              /\ \A i \in 1 .. Size : Contents'[i] = Contents[i]
              /\ \A j \in 1 .. Len(bs) : Contents'[Size + j] = bs[j]
<1> DEFINE n == Len(bs)
<1>1. n \in Nat
  OBVIOUS
<1>2. Size' = IF Size + n = capacity THEN 0 ELSE Size + n
  BY <1>1, IndexRanges, SMTT(40) DEF Size, Advance
<1> SUFFICES ASSUME Size + n < capacity
             PROVE  /\ \A i \in 1 .. Size : Contents'[i] = Contents[i]
                    /\ \A j \in 1 .. n : Contents'[Size + j] = bs[j]
  BY <1>2
<1>3. Layout /\ Layout'
  BY Laid, PTL
<1>4. Size \in Nat /\ Size' = Size + n
  BY <1>1, <1>2, Lengths
<1>5. DOMAIN data = 0 .. capacity - 1
  BY DEF IInv, TypeOK
<1>6. \A i \in 1 .. Size' : Place(i)' = Place(i) /\ Contents'[i] = data'[Place(i)]
  BY <1>3 DEF Layout, Place
<1>7. ASSUME NEW i \in 1 .. Size
      PROVE  Contents'[i] = Contents[i]
  <2>1. i \in 1 .. Size'
    BY <1>1, <1>4
  <2>2. /\ Place(i) \in 0 .. capacity - 1
        /\ IF idx_read <= idx_write THEN Place(i) \in idx_read .. idx_write - 1
           ELSE Place(i) \in (idx_read .. capacity - 1) \cup (0 .. idx_write - 1)
        /\ Contents[i] = data[Place(i)]
    BY <1>3 DEF Layout
  <2>3. ~(Place(i) \in idx_write .. idx_write + n - 1)
    BY <1>1, <2>2, IndexRanges DEF Size
  <2>4. data'[Place(i)] = data[Place(i)]
    BY <1>5, <2>2, <2>3 DEF Copy
  <2> QED
    BY <1>6, <2>1, <2>2, <2>4
<1>8. ASSUME NEW j \in 1 .. n
      PROVE  Contents'[Size + j] = bs[j]
  <2>1. Size + j \in 1 .. Size'
    BY <1>1, <1>4
  <2> DEFINE p == idx_write + j - 1
  <2>2. Place(Size + j) = p
    BY <1>1, <1>4, IndexRanges, SMTT(40) DEF Size, Place
  <2>3. p \in idx_write .. idx_write + Len(bs) - 1 /\ p \in DOMAIN data /\ p - idx_write + 1 = j
    BY <1>1, <1>5, IndexRanges
  <2> HIDE DEF p
  <2>4. data'[p] = bs[p - idx_write + 1]
    BY <2>3 DEF Copy
  <2> QED
    BY <1>6, <2>1, <2>2, <2>3, <2>4
<1> QED
  BY <1>7, <1>8

\* Advancing idx_read over n unread bytes that lie before the end of the
\* allocation takes just them from the front of the queue.
LEMMA Taken ==
  ASSUME IInv, IInv', NEW n \in Nat, n <= Size, idx_read + n <= capacity,
         idx_read' = Advance(idx_read, n),
         UNCHANGED <<capacity, data, idx_write>>
  PROVE  Contents' = SubSeq(Contents, n + 1, Size)
<1>1. Layout /\ Layout'
  BY Laid, PTL
<1>2. Size' = Size - n
  BY <1>1, IndexRanges, SMTT(40) DEF Layout, Size, Advance
<1>3. ASSUME NEW i \in 1 .. Size'
      PROVE  Contents'[i] = Contents[n + i]
  <2>1. n + i \in 1 .. Size
    BY <1>1, <1>2 DEF Layout
  <2>2. n + i <= (IF idx_write < idx_read THEN idx_write - idx_read + capacity
                  ELSE idx_write - idx_read)
    BY <2>1, IndexRanges DEF Size
  <2>3. Place(i)' = Place(n + i)
    BY <1>1, <1>2, <2>2, IndexRanges DEF Place, Advance
  <2> QED
    BY <1>1, <2>1, <2>3 DEF Layout
<1> DEFINE rest == SubSeq(Contents, n + 1, Size)
<1>4. /\ rest \in Seq(Bytes) /\ Len(rest) = Size'
      /\ \A i \in 1 .. Size' : rest[i] = Contents[n + i]
  <2>1. Size \in Nat /\ \A i \in n + 1 .. Size : Contents[i] \in Bytes
    BY <1>1 DEF Layout
  <2>2. /\ rest \in Seq(Bytes)
        /\ Len(rest) = IF n + 1 <= Size THEN Size - (n + 1) + 1 ELSE 0
        /\ \A i \in 1 .. Size - (n + 1) + 1 : rest[i] = Contents[n + 1 + i - 1]
    BY <2>1, SubSeqProperties
  <2> HIDE DEF rest
  <2>3. \A i \in 1 .. Size' : i \in 1 .. Size - (n + 1) + 1 /\ n + 1 + i - 1 = n + i
    BY <1>2, <2>1
  <2> QED
    BY <1>2, <2>1, <2>2, <2>3
<1>5. Contents' \in Seq(Bytes) /\ Len(Contents') = Size'
  BY <1>1 DEF Layout, Bytes
<1> HIDE DEF rest
<1>6. Contents' = rest
  BY <1>3, <1>4, <1>5, SeqEqual
<1> QED
  BY <1>6 DEF rest

\* What the refinement mapping shows while nobody is in write()'s loop, and
\* while somebody is.
View ==
  /\ ~InProgress => Stored = Contents /\ Asked = <<>>
  /\ \A t \in Threads :
       pc[t] = "write" /\ todo[t] # <<>> =>
         /\ Asked = arg[t]
         /\ Stored = SubSeq(Contents, 1, Size - Len(arg[t]) + Len(todo[t]))

LEMMA Viewed == IInv => View
<1> SUFFICES ASSUME IInv PROVE View
  OBVIOUS
<1>1. ~InProgress => Stored = Contents /\ Asked = <<>>
  BY DEF Stored, Asked
<1>2. ASSUME NEW t \in Threads, pc[t] = "write", todo[t] # <<>>
      PROVE  InProgress /\ Writer = t
  <2>1. \A u \in Threads : pc[u] = "write" => u = t
    BY <1>2 DEF IInv, Safety, MutexInv
  <2> QED
    BY <1>2, <2>1 DEF InProgress, Writer
<1> QED
  BY <1>1, <1>2 DEF View, Stored, Asked

\* One turn of the loop, in the terms of the queue.
LEMMA Turn ==
  ASSUME IInv, NEW t \in Threads, WriteChunk(t)
  PROVE  \E n \in 1 .. Len(todo[t]) :
           /\ idx_write + n <= capacity /\ Size + n <= capacity
           /\ n < Len(todo[t]) => Size + n < capacity
           /\ data' = Copy(SubSeq(todo[t], 1, n))
           /\ idx_write' = Advance(idx_write, n)
           /\ todo' = [todo EXCEPT ![t] = SubSeq(@, n + 1, Len(@))]
           /\ UNCHANGED <<capacity, idx_read, pc, arg>>
<1> DEFINE n == Least(WriteAvail, Len(todo[t]))
<1>1. Len(todo[t]) \in Nat /\ Len(todo[t]) <= capacity - Size
  BY DEF WriteChunk, IInv, TypeOK, Safety, WriteFits
<1>2. /\ n \in 1 .. Len(todo[t]) /\ n <= WriteAvail
      /\ idx_write + n <= capacity /\ Size + n <= capacity
  BY <1>1, Lengths, IndexRanges, SMTT(40) DEF WriteChunk, Least
<1>3. n < Len(todo[t]) => Size + n < capacity
  BY <1>1, <1>2, Lengths, IndexRanges
<1> QED
  BY <1>2, <1>3 DEF WriteChunk

LEMMA StepInFlight == IInv /\ InFlight /\ IInv' /\ [Next]_vars => InFlight'
<1> SUFFICES ASSUME IInv, InFlight, IInv', [Next]_vars PROVE InFlight'
  OBVIOUS
<1>1. ASSUME NEW t \in Threads, NEW bs \in Strings(MaxAsk), WriteBegin(t, bs)
      PROVE  InFlight'
  <2>1. bs \in Seq(Values) /\ Len(bs) \in Nat
    BY RBufAssumption, StringsType
  <2>2. \A u \in Threads : pc'[u] = IF u = t THEN "write" ELSE "idle"
    BY <1>1, RBufAssumption DEF IInv, TypeOK, Safety, MutexInv, WriteBegin, Enter, Lock
  <2>3. todo'[t] = bs /\ arg'[t] = bs /\ Size' \in Nat
    BY <1>1, Lengths DEF IInv, TypeOK, WriteBegin, Size
  <2> QED
    <3>1. ASSUME NEW u \in Threads, pc'[u] = "write"
          PROVE  u = t /\ Len(arg'[u]) - Len(todo'[u]) = 0 /\ todo'[u] = arg'[u]
      BY <2>1, <2>2, <2>3, <3>1
    <3>2. Len(arg'[t]) \in Nat
      BY <2>1, <2>3
    <3>3. ASSUME NEW u \in Threads, pc'[u] = "write"
          PROVE  LET k == Len(arg'[u]) - Len(todo'[u])
                 IN  /\ k \in 0 .. Size'
                     /\ \A j \in 1 .. k : Contents'[Size' - k + j] = arg'[u][j]
                     /\ \A j \in 1 .. Len(todo'[u]) : todo'[u][j] = arg'[u][k + j]
      <4> DEFINE k == Len(arg'[u]) - Len(todo'[u])
      <4>1. k = 0 /\ todo'[u] = arg'[u]
        BY <3>1, <3>3
      <4> HIDE DEF k
      <4>2. k \in 0 .. Size' /\ \A j \in 1 .. k : FALSE
        BY <2>3, <4>1
      <4>3. \A j \in 1 .. Len(todo'[u]) : k + j = j
        BY <4>1
      <4>4. /\ k \in 0 .. Size'
            /\ \A j \in 1 .. k : Contents'[Size' - k + j] = arg'[u][j]
            /\ \A j \in 1 .. Len(todo'[u]) : todo'[u][j] = arg'[u][k + j]
        BY <4>1, <4>2, <4>3
      <4> QED
        BY <4>4 DEF k
    <3> QED
      BY <3>3 DEF InFlight
<1>2. ASSUME NEW t \in Threads, WriteChunk(t)
      PROVE  InFlight'
  <2>1. PICK n \in 1 .. Len(todo[t]) :
          /\ idx_write + n <= capacity /\ Size + n <= capacity
          /\ n < Len(todo[t]) => Size + n < capacity
          /\ data' = Copy(SubSeq(todo[t], 1, n))
          /\ idx_write' = Advance(idx_write, n)
          /\ todo' = [todo EXCEPT ![t] = SubSeq(@, n + 1, Len(@))]
          /\ UNCHANGED <<capacity, idx_read, pc, arg>>
    BY <1>2, Turn
  <2> DEFINE chunk == SubSeq(todo[t], 1, n)
             rest == SubSeq(todo[t], n + 1, Len(todo[t]))
             k == Len(arg[t]) - Len(todo[t])
  <2>2. /\ todo[t] \in Seq(Values) /\ Len(todo[t]) \in Nat
        /\ arg[t] \in Seq(Values) /\ Len(arg[t]) \in Nat
        /\ Size \in Nat /\ n \in Nat /\ 1 <= n /\ n <= Len(todo[t])
    <3>1. todo[t] \in Seq(Values) /\ arg[t] \in Seq(Values)
      BY DEF IInv, TypeOK
    <3>2. Len(todo[t]) \in Nat /\ Len(arg[t]) \in Nat
      BY <3>1
    <3>3. Size \in Nat
      BY Lengths
    <3> QED
      BY <3>1, <3>2, <3>3
  <2>3. /\ chunk \in Seq(Values) /\ Len(chunk) = n
        /\ \A j \in 1 .. n : chunk[j] = todo[t][j]
    BY <2>2, SubSeqProperties
  <2>4. /\ rest \in Seq(Values) /\ Len(rest) = Len(todo[t]) - n
        /\ \A j \in 1 .. Len(rest) : rest[j] = todo[t][n + j]
    BY <2>2, SubSeqProperties
  <2>5. \A u \in Threads : pc[u] = IF u = t THEN "write" ELSE "idle"
    BY <1>2, RBufAssumption DEF IInv, TypeOK, Safety, MutexInv, WriteChunk
  <2>6. /\ k \in 0 .. Size
        /\ \A j \in 1 .. k : Contents[Size - k + j] = arg[t][j]
        /\ \A j \in 1 .. Len(todo[t]) : todo[t][j] = arg[t][k + j]
    BY <1>2 DEF InFlight, WriteChunk
  <2> HIDE DEF chunk, rest, k
  <2>7. todo'[t] = rest /\ pc' = pc /\ arg' = arg
    BY <2>1 DEF IInv, TypeOK, rest
  <2> SUFFICES ASSUME rest # <<>>
               PROVE  /\ Len(arg[t]) - Len(rest) \in 0 .. Size'
                      /\ \A j \in 1 .. Len(arg[t]) - Len(rest) :
                            Contents'[Size' - (Len(arg[t]) - Len(rest)) + j] = arg[t][j]
                      /\ \A j \in 1 .. Len(rest) :
                            rest[j] = arg[t][Len(arg[t]) - Len(rest) + j]
    BY <2>5, <2>7, ZenonT(60) DEF InFlight
  <2>8. Len(rest) > 0 /\ n < Len(todo[t])
    BY <2>1, <2>2, <2>4
  <2>9. /\ Size' = Size + n
        /\ \A i \in 1 .. Size : Contents'[i] = Contents[i]
        /\ \A j \in 1 .. n : Contents'[Size + j] = todo[t][j]
    <3>1. data' = Copy(chunk) /\ idx_write' = Advance(idx_write, Len(chunk))
      BY <2>1, <2>3 DEF chunk
    <3>2. /\ idx_write + Len(chunk) <= capacity /\ Size + Len(chunk) < capacity
          /\ UNCHANGED <<capacity, idx_read>>
      BY <2>1, <2>3, <2>8
    <3>3. /\ Size' = IF Size + Len(chunk) = capacity THEN 0 ELSE Size + Len(chunk)
          /\ \A i \in 1 .. Size : Contents'[i] = Contents[i]
          /\ \A j \in 1 .. Len(chunk) : Contents'[Size + j] = chunk[j]
      BY <2>1, <2>2, <2>3, <3>1, <3>2, IndexRanges, Appended
    <3>4. Size + Len(chunk) # capacity
      BY <3>2, IndexRanges
    <3> QED
      BY <2>2, <2>3, <3>3, <3>4
  <2>10. Len(arg[t]) - Len(rest) = k + n /\ k \in Nat /\ n \in Nat /\ n <= Len(todo[t])
    <3>1. Len(arg[t]) - Len(rest) = k + n
      BY <2>2, <2>4 DEF k
    <3> QED
      BY <2>2, <2>6, <3>1
  <2>11. k + n \in 0 .. Size'
    BY <2>2, <2>6, <2>9, <2>10
  <2>12. ASSUME NEW j \in 1 .. k + n
         PROVE  Contents'[Size' - (k + n) + j] = arg[t][j]
    <3>1. Size' - (k + n) + j = Size - k + j
      BY <2>2, <2>6, <2>9, <2>10
    <3>2. CASE j <= k
      <4>1. Size - k + j \in 1 .. Size /\ j \in 1 .. k
        BY <2>2, <2>6, <2>10, <3>2
      <4> QED
        BY <2>6, <2>9, <3>1, <4>1
    <3>3. CASE k < j
      <4>1. j - k \in 1 .. n /\ Size - k + j = Size + (j - k) /\ j = k + (j - k)
        BY <2>2, <2>6, <2>10, <3>3
      <4>2. j - k \in 1 .. Len(todo[t])
        BY <2>2, <2>10, <4>1
      <4> QED
        BY <2>6, <2>9, <3>1, <4>1, <4>2
    <3> QED
      BY <2>2, <2>10, <3>2, <3>3
  <2>13. ASSUME NEW j \in 1 .. Len(rest)
         PROVE  rest[j] = arg[t][k + n + j]
    <3>1. n + j \in 1 .. Len(todo[t]) /\ k + (n + j) = k + n + j
      BY <2>2, <2>4, <2>10, SMTT(40)
    <3> QED
      BY <2>4, <2>6, <3>1
  <2> QED
    BY <2>10, <2>11, <2>12, <2>13
<1>3. CASE UNCHANGED vars
  <2>1. Size' = Size /\ Contents' = Contents
    BY <1>3 DEF vars, Size, Contents
  <2>2. pc' = pc /\ todo' = todo /\ arg' = arg
    BY <1>3 DEF vars
  <2> QED
    BY <2>1, <2>2 DEF InFlight
<1>4. ASSUME \A t \in Threads : pc'[t] = "write" => todo'[t] = <<>>
      PROVE  InFlight'
  BY <1>4 DEF InFlight
<1>5. ASSUME NEW t \in Threads, Enter(t), UNCHANGED pc
      PROVE  InFlight'
  BY <1>4, <1>5, RBufAssumption DEF IInv, Safety, MutexInv, Enter
<1>6. ASSUME NEW t \in Threads, Unlock(t)
      PROVE  InFlight'
  <2>1. mutex' \notin Threads
    BY <1>6, RBufAssumption DEF Unlock
  <2> QED
    BY <1>4, <2>1 DEF IInv, Safety, MutexInv
<1>7. ASSUME NEW t \in Threads, NEW p \in {"wptr", "rptr"}, Lock(t, p)
      PROVE  InFlight'
  <2>1. \A u \in Threads : pc'[u] = "write" => u = t
    BY <1>7 DEF Lock, IInv, Safety, MutexInv
  <2> QED
    BY <1>4, <1>7, <2>1 DEF Lock, IInv, TypeOK
<1>8. ASSUME NEW t \in Threads, Call(t)
      PROVE  InFlight'
  <2>1. CASE (\E cap \in Capacities : SetCapacity(t, cap)) \/ Dealloc(t) \/ Reset(t)
              \/ \E n \in 1 .. MaxAsk : Read(t, n)
    BY <1>5, <2>1 DEF SetCapacity, Dealloc, Allocate, Reset, Read
  <2>2. CASE GetWritePtr(t) \/ \E n \in 1 .. MaxAsk : GetReadPtr(t, n)
    BY <1>7, <2>2 DEF GetWritePtr, GetReadPtr
  <2> QED
    BY <1>1, <1>8, <2>1, <2>2 DEF Call
<1>9. ASSUME NEW t \in Threads, Finish(t)
      PROVE  InFlight'
  <2>1. CASE WriteReturn(t) \/ (\E bs \in Strings(MaxAsk) : PutWritePtr(t, bs))
              \/ \E n \in 0 .. MaxAsk : PutReadPtr(t, n)
    BY <1>6, <2>1 DEF WriteReturn, PutWritePtr, PutReadPtr
  <2> QED
    BY <1>2, <1>9, <2>1 DEF Finish
<1> QED
  BY <1>3, <1>8, <1>9 DEF Next

\* A string at the end of the queue makes the queue that OverrunFifo describes.
LEMMA Accepted ==
  ASSUME IInv, IInv', NEW bs \in Seq(Values),
         Size' = IF Size + Len(bs) = capacity THEN 0 ELSE Size + Len(bs),
         Size + Len(bs) < capacity =>
              /\ \A i \in 1 .. Size : Contents'[i] = Contents[i]
              /\ \A j \in 1 .. Len(bs) : Contents'[Size + j] = bs[j],
         Size + Len(bs) <= capacity
  PROVE  Contents' = Abstract!Accept(Contents, capacity, bs)
<1>1. Layout /\ Layout' /\ Size \in Nat /\ Size' \in Nat /\ capacity \in Nat /\ Len(bs) \in Nat
  <2>1. Layout /\ Layout'
    BY Laid, PTL
  <2>2. Size \in Nat /\ Size' \in Nat
    BY <2>1 DEF Layout
  <2>3. capacity \in Nat
    BY IndexRanges
  <2>4. Len(bs) \in Nat
    BY LenProperties
  <2> QED
    BY <2>1, <2>2, <2>3, <2>4
<1>2. CASE Size + Len(bs) = capacity
  <2>1. Contents' \in Seq(Bytes)' /\ Len(Contents') = 0
    BY <1>1, <1>2 DEF Layout
  <2>2. Contents' = <<>>
    <3>1. PICK c, b : c = Contents' /\ b = Bytes'
      OBVIOUS
    <3>2. c \in Seq(b) /\ Len(c) = 0
      BY <2>1, <3>1
    <3>3. c = <<>>
      BY <3>2, EmptySeq
    <3> QED
      BY <3>1, <3>3
  <2> QED
    BY <1>1, <1>2, <2>2 DEF Layout, Abstract!Accept
<1>3. CASE Size + Len(bs) # capacity
  <2> DEFINE both == Contents \o bs
  <2>1. bs \in Seq(Bytes) /\ Contents \in Seq(Bytes) /\ Len(Contents) = Size
    BY <1>1, SeqMonotonic DEF Bytes, Layout
  <2>2. /\ both \in Seq(Bytes) /\ Len(both) = Size + Len(bs)
        /\ \A i \in 1 .. Size + Len(bs) :
              both[i] = IF i <= Size THEN Contents[i] ELSE bs[i - Size]
    BY <2>1, ConcatProperties, ZenonT(60)
  <2>3. Size + Len(bs) < capacity /\ Size' = Size + Len(bs)
    BY <1>1, <1>3
  <2>4. Contents' \in Seq(Bytes) /\ Len(Contents') = Size + Len(bs)
    BY <1>1, <2>3 DEF Layout, Bytes
  <2>5. ASSUME NEW i \in 1 .. Size + Len(bs)
        PROVE  Contents'[i] = both[i]
    <3>1. CASE i <= Size
      BY <1>1, <2>2, <2>3, <3>1
    <3>2. CASE ~(i <= Size)
      <4>1. i - Size \in 1 .. Len(bs) /\ Size + (i - Size) = i
        BY <1>1, <3>2
      <4> QED
        BY <2>2, <2>3, <3>2, <4>1
    <3> QED
      BY <3>1, <3>2
  <2> HIDE DEF both
  <2>6. Contents' = both
    BY <2>2, <2>4, <2>5, SeqEqual
  <2> QED
    BY <1>3, <2>1, <2>6 DEF both, Abstract!Accept
<1> QED
  BY <1>2, <1>3

\* The last turn of write()'s loop is the step that stores the argument; the
\* turns before it change nothing a reader could find.
LEMMA TurnRefines ==
  ASSUME IInv, InFlight, IInv', NEW t \in Threads, WriteChunk(t)
  PROVE  Abstract!Store \/ UNCHANGED Abstract!fifoVars
<1> DEFINE chunk(n) == SubSeq(todo[t], 1, n)
           k == Len(arg[t]) - Len(todo[t])
<1>1. PICK n \in 1 .. Len(todo[t]) :
        /\ idx_write + n <= capacity /\ Size + n <= capacity
        /\ n < Len(todo[t]) => Size + n < capacity
        /\ data' = Copy(chunk(n))
        /\ idx_write' = Advance(idx_write, n)
        /\ todo' = [todo EXCEPT ![t] = SubSeq(@, n + 1, Len(@))]
        /\ UNCHANGED <<capacity, idx_read, pc, arg>>
  BY Turn
<1>2. Layout /\ Layout' /\ View /\ View'
  BY Laid, Viewed, PTL
<1>3. /\ todo[t] \in Seq(Values) /\ Len(todo[t]) \in Nat
      /\ arg[t] \in Seq(Values) /\ Len(arg[t]) \in Nat
      /\ Size \in Nat /\ capacity \in Nat /\ n \in Nat /\ 1 <= n /\ n <= Len(todo[t])
  <2>1. todo[t] \in Seq(Values) /\ arg[t] \in Seq(Values)
    BY DEF IInv, TypeOK
  <2>2. Len(todo[t]) \in Nat /\ Len(arg[t]) \in Nat
    BY <2>1
  <2>3. n \in Nat /\ 1 <= n /\ n <= Len(todo[t])
    BY <1>1, <2>2
  <2> QED
    BY <2>1, <2>2, <2>3, Lengths, IndexRanges
<1>4. /\ chunk(n) \in Seq(Values) /\ Len(chunk(n)) = n
      /\ \A j \in 1 .. n : chunk(n)[j] = todo[t][j]
  BY <1>3, SubSeqProperties
<1>5. pc[t] = "write" /\ todo[t] # <<>> /\ mutex = t
  BY DEF WriteChunk, IInv, Safety, MutexInv
<1>6. /\ k \in 0 .. Size
      /\ \A j \in 1 .. k : Contents[Size - k + j] = arg[t][j]
      /\ \A j \in 1 .. Len(todo[t]) : todo[t][j] = arg[t][k + j]
  BY <1>5 DEF InFlight
<1>7. Asked = arg[t] /\ Stored = SubSeq(Contents, 1, Size - k)
  <2>1. Size \in Nat /\ Len(arg[t]) \in Nat /\ Len(todo[t]) \in Nat
    BY <1>3
  <2>2. Size - Len(arg[t]) + Len(todo[t]) = Size - k
    BY <2>1
  <2> QED
    BY <1>2, <1>5, <2>2 DEF View
<1> HIDE DEF chunk, k
<1>8. /\ Size' = IF Size + n = capacity THEN 0 ELSE Size + n
      /\ Size + n < capacity =>
           /\ \A i \in 1 .. Size : Contents'[i] = Contents[i]
           /\ \A j \in 1 .. n : Contents'[Size + j] = todo[t][j]
  <2>1. /\ Size' = IF Size + Len(chunk(n)) = capacity THEN 0 ELSE Size + Len(chunk(n))
        /\ Size + Len(chunk(n)) < capacity =>
             /\ \A i \in 1 .. Size : Contents'[i] = Contents[i]
             /\ \A j \in 1 .. Len(chunk(n)) : Contents'[Size + j] = chunk(n)[j]
    BY <1>1, <1>4, Appended
  <2> QED
    BY <1>4, <2>1
<1>9. /\ k \in Nat /\ Len(arg[t]) = k + Len(todo[t]) /\ Size - k \in Nat
      /\ Stored \in Seq(Bytes) /\ Len(Stored) = Size - k
      /\ \A i \in 1 .. Size - k : Stored[i] = Contents[i]
  <2>1. k \in Nat /\ k <= Size /\ Size - k \in Nat
    BY <1>3, <1>6
  <2>2. \A i \in 1 .. Size - k : Contents[i] \in Bytes
    BY <1>2, <1>3, <2>1 DEF Layout
  <2>3. /\ Stored \in Seq(Bytes)
        /\ Len(Stored) = IF 1 <= Size - k THEN Size - k - 1 + 1 ELSE 0
        /\ \A i \in 1 .. Size - k - 1 + 1 : Stored[i] = Contents[1 + i - 1]
    BY <1>7, <2>1, <2>2, SubSeqProperties
  <2>4. Len(arg[t]) = k + Len(todo[t])
    BY <1>3 DEF k
  <2>5. Len(Stored) = Size - k
    BY <2>1, <2>3
  <2>6. \A i \in 1 .. Size - k : i \in 1 .. Size - k - 1 + 1 /\ 1 + i - 1 = i
    BY <2>1
  <2> QED
    BY <2>1, <2>3, <2>4, <2>5, <2>6
<1>10. CASE n < Len(todo[t])
  <2>1. Size + n < capacity /\ Size' = Size + n
    BY <1>1, <1>3, <1>8, <1>10
  <2> DEFINE rest == SubSeq(todo[t], n + 1, Len(todo[t]))
  <2>2. rest \in Seq(Values) /\ Len(rest) = Len(todo[t]) - n
    BY <1>3, <1>10, SubSeqProperties
  <2> HIDE DEF rest
  <2>3. todo'[t] = rest /\ rest # <<>> /\ pc'[t] = "write" /\ arg'[t] = arg[t]
    <3>1. todo'[t] = rest
      BY <1>1 DEF IInv, TypeOK, rest
    <3>2. Len(rest) > 0
      BY <1>3, <1>10, <2>2
    <3>3. rest # <<>>
      BY <2>2, <3>2
    <3> QED
      BY <1>1, <1>5, <3>1, <3>3
  <2>4. Asked' = arg[t] /\ Stored' = SubSeq(Contents', 1, Size' - Len(arg[t]) + Len(rest))
    BY <1>2, <2>3 DEF View
  <2>5. Size' - Len(arg[t]) + Len(rest) = Size - k
    BY <1>3, <1>9, <2>1, <2>2
  <2>6. \A i \in 1 .. Size - k : Contents'[i] = Contents[i] /\ Contents'[i] \in Bytes
    <3>1. \A i \in 1 .. Size - k : i \in 1 .. Size
      BY <1>3, <1>9
    <3> QED
      BY <1>2, <1>8, <2>1, <3>1, SMTT(40) DEF Layout
  <2>7. /\ Stored' \in Seq(Bytes)
        /\ Len(Stored') = IF 1 <= Size - k THEN Size - k - 1 + 1 ELSE 0
        /\ \A i \in 1 .. Size - k - 1 + 1 : Stored'[i] = Contents'[1 + i - 1]
    BY <1>9, <2>4, <2>5, <2>6, SubSeqProperties
  <2>8. Len(Stored') = Len(Stored) /\ \A i \in 1 .. Size - k : i \in 1 .. Size - k - 1 + 1 /\ 1 + i - 1 = i
    BY <1>9, <2>7
  <2>9. Stored' = Stored
    BY <1>9, <2>6, <2>7, <2>8, SeqEqual, SMTT(40)
  <2> QED
    BY <1>1, <1>7, <2>4, <2>9 DEF Abstract!fifoVars
<1>11. CASE n = Len(todo[t])
  <2>1. todo'[t] = <<>>
    BY <1>1, <1>3, <1>11 DEF IInv, TypeOK
  <2>2. mutex' = t
    BY <1>5 DEF WriteChunk
  <2>3. (~InProgress)'
    BY <2>1, <2>2 DEF InProgress, IInv, Safety, MutexInv
  <2>4. Stored' = Contents' /\ Asked' = <<>>
    BY <1>2, <2>3 DEF View
  <2>5. Len(Stored) + Len(arg[t]) = Size + n /\ arg[t] # <<>>
    BY <1>3, <1>9, <1>11
  <2>6. Contents' = Abstract!Accept(Stored, capacity, arg[t])
    <3>1. CASE Size + n = capacity
      <4>1. Contents' \in Seq(Bytes)' /\ Len(Contents') = 0
        BY <1>2, <1>8, <3>1 DEF Layout
      <4>2. Contents' = <<>>
        BY <4>1 DEF Bytes
      <4> QED
        BY <2>5, <3>1, <4>2 DEF Abstract!Accept
    <3>2. CASE Size + n # capacity
      <4>1. Size + n < capacity /\ Size' = Size + n
        BY <1>1, <1>3, <1>8, <3>2
      <4> DEFINE both == Stored \o arg[t]
      <4>2. arg[t] \in Seq(Bytes)
        BY <1>3, SeqMonotonic DEF Bytes
      <4>3. /\ both \in Seq(Bytes) /\ Len(both) = Size + n
            /\ \A i \in 1 .. Size + n :
                 both[i] = IF i <= Size - k THEN Contents[i] ELSE arg[t][i - (Size - k)]
        <5>1. /\ both \in Seq(Bytes) /\ Len(both) = Len(Stored) + Len(arg[t])
              /\ \A i \in 1 .. Len(Stored) + Len(arg[t]) :
                   both[i] = IF i <= Len(Stored) THEN Stored[i] ELSE arg[t][i - Len(Stored)]
          BY <1>9, <4>2, ConcatProperties
        <5> HIDE DEF both
        <5>2. \A i \in 1 .. Size + n : i <= Size - k => i \in 1 .. Size - k
          BY <1>3, <1>9
        <5>3. \A i \in 1 .. Size + n :
                 both[i] = IF i <= Size - k THEN Stored[i] ELSE arg[t][i - (Size - k)]
          BY <1>9, <2>5, <5>1
        <5> QED
          BY <1>9, <2>5, <5>1, <5>2, <5>3
      <4>4. Contents' \in Seq(Bytes) /\ Len(Contents') = Size + n
        BY <1>2, <4>1 DEF Layout, Bytes
      <4>5. ASSUME NEW i \in 1 .. Size + n
            PROVE  Contents'[i] = both[i]
        <5>1. CASE i <= Size - k
          <6>1. i \in 1 .. Size
            BY <1>3, <1>9, <5>1
          <6> QED
            BY <1>8, <4>1, <4>3, <5>1, <6>1
        <5>2. CASE ~(i <= Size - k) /\ i <= Size
          <6>1. i - (Size - k) \in 1 .. k /\ Size - k + (i - (Size - k)) = i /\ i \in 1 .. Size
            BY <1>3, <1>9, <5>2
          <6>2. Contents[i] = arg[t][i - (Size - k)]
            BY <1>6, <6>1
          <6> QED
            BY <1>8, <4>1, <4>3, <5>2, <6>1, <6>2
        <5>3. CASE ~(i <= Size)
          <6>1. /\ i - Size \in 1 .. n /\ Size + (i - Size) = i /\ ~(i <= Size - k)
                /\ k + (i - Size) = i - (Size - k) /\ i - Size \in 1 .. Len(todo[t])
            BY <1>3, <1>9, <5>3
          <6>2. Contents'[i] = todo[t][i - Size] /\ todo[t][i - Size] = arg[t][k + (i - Size)]
            BY <1>6, <1>8, <4>1, <6>1
          <6> QED
            BY <4>3, <6>1, <6>2
        <5> QED
          BY <5>1, <5>2, <5>3
      <4> HIDE DEF both
      <4>6. Contents' = both
        BY <4>3, <4>4, <4>5, SeqEqual
      <4> QED
        BY <2>5, <3>2, <4>6 DEF both, Abstract!Accept
    <3> QED
      BY <3>1, <3>2
  <2> QED
    BY <1>1, <1>7, <2>4, <2>5, <2>6 DEF Abstract!Store
<1> QED
  BY <1>3, <1>10, <1>11

LEMMA StepRefines ==
  IInv /\ InFlight /\ IInv' /\ InFlight' /\ [Next]_vars => [Abstract!FifoNext]_(Abstract!fifoVars)
<1> SUFFICES ASSUME IInv, InFlight, IInv', InFlight', [Next]_vars
             PROVE  Abstract!FifoNext \/ UNCHANGED Abstract!fifoVars
  OBVIOUS
<1>1. Layout /\ Layout' /\ View /\ View'
  BY Laid, Viewed, PTL
\* A call of a thread that finds nobody in the loop and leaves nobody in it.
<1>2. ASSUME NEW t \in Threads, Enter(t), UNCHANGED pc
      PROVE  /\ Stored = Contents /\ Stored' = Contents'
             /\ Asked = <<>> /\ Asked' = <<>>
  BY <1>1, <1>2, RBufAssumption DEF View, InProgress, IInv, Safety, MutexInv, Enter
<1>3. ASSUME NEW t \in Threads, NEW p \in {"wptr", "rptr"}, Enter(t), Lock(t, p)
      PROVE  /\ Stored = Contents /\ Stored' = Contents'
             /\ Asked = <<>> /\ Asked' = <<>>
  <2>1. \A u \in Threads : pc[u] = "idle" /\ pc'[u] # "write"
    BY <1>3, RBufAssumption DEF IInv, TypeOK, Safety, MutexInv, Enter, Lock
  <2> QED
    BY <1>1, <2>1 DEF View, InProgress
<1>4. ASSUME NEW t \in Threads, pc[t] # "idle", pc[t] # "write" \/ todo[t] = <<>>, Unlock(t)
      PROVE  /\ Stored = Contents /\ Stored' = Contents'
             /\ Asked = <<>> /\ Asked' = <<>>
  <2>1. \A u \in Threads : pc'[u] = "idle" /\ ~(pc[u] = "write" /\ todo[u] # <<>>)
    BY <1>4, RBufAssumption DEF IInv, TypeOK, Safety, MutexInv, Unlock
  <2> QED
    BY <1>1, <2>1 DEF View, InProgress
<1>5. UNCHANGED ring => UNCHANGED <<Contents, capacity>>
  BY DEF ring, Contents, Size
<1>6. ASSUME NEW t \in Threads, NEW cap \in Capacities \cup {0}, Allocate(t, cap)
      PROVE  Abstract!Resize(cap)
  <2>1. Size' = 0
    BY <1>6 DEF Allocate, Size
  <2>2. Contents' = <<>>
    BY <1>1, <2>1 DEF Layout
  <2> QED
    BY <1>2, <1>6, <2>2 DEF Allocate, Abstract!Resize, Abstract!Alone
<1>7. ASSUME NEW t \in Threads, Reset(t)
      PROVE  Abstract!Clear
  <2>1. Size' = 0
    BY <1>7 DEF Reset, Size
  <2>2. Contents' = <<>>
    BY <1>1, <2>1 DEF Layout
  <2> QED
    BY <1>2, <1>7, <2>2 DEF Reset, Abstract!Clear, Abstract!Alone
<1>8. ASSUME NEW t \in Threads, NEW bs \in Strings(MaxAsk), WriteBegin(t, bs)
      PROVE  Abstract!Ask(bs) \/ UNCHANGED Abstract!fifoVars
  <2>1. bs \in Seq(Values) /\ Len(bs) \in Nat /\ Size \in Nat /\ Len(Contents) = Size
    BY <1>1, RBufAssumption, StringsType DEF Layout
  <2>2. UNCHANGED <<Contents, capacity, Size>>
    BY <1>5, <1>8 DEF WriteBegin, ring, Size
  <2>3. /\ \A u \in Threads : pc[u] = "idle"
        /\ \A u \in Threads : pc'[u] = IF u = t THEN "write" ELSE "idle"
        /\ todo'[t] = bs /\ arg'[t] = bs
    BY <1>8, RBufAssumption DEF IInv, TypeOK, Safety, MutexInv, WriteBegin, Enter, Lock
  <2>4. Stored = Contents /\ Asked = <<>>
    BY <1>1, <2>3 DEF View, InProgress
  <2>5. CASE bs = <<>>
    <3>1. Stored' = Contents' /\ Asked' = <<>>
      BY <1>1, <2>3, <2>5 DEF View, InProgress
    <3> QED
      BY <2>2, <2>4, <3>1 DEF Abstract!fifoVars
  <2>6. CASE bs # <<>>
    <3>1. Asked' = bs /\ Stored' = SubSeq(Contents', 1, Size' - Len(bs) + Len(bs))
      BY <1>1, <2>3, <2>6 DEF View
    <3>2. Size' - Len(bs) + Len(bs) = Len(Contents)
      BY <2>1, <2>2
    <3>3. Stored' = Contents
      BY <1>1, <2>2, <3>1, <3>2, SubSeqFull DEF Layout
    <3> QED
      BY <1>8, <2>1, <2>2, <2>4, <3>1, <3>3 DEF Abstract!Ask, WriteBegin
  <2> QED
    BY <2>5, <2>6
<1>9. ASSUME NEW t \in Threads, NEW bs \in Strings(MaxAsk), PutWritePtr(t, bs)
      PROVE  Abstract!Put(bs)
  <2>1. bs \in Seq(Values) /\ Len(bs) \in Nat /\ Size \in Nat /\ Len(Contents) = Size
    BY <1>1, RBufAssumption, StringsType DEF Layout
  <2>2. idx_write + Len(bs) <= capacity /\ Size + Len(bs) <= capacity
    <3>1. span[t] \in Nat /\ idx_write + span[t] <= capacity /\ Size + span[t] <= capacity
      BY <1>9 DEF PutWritePtr, IInv, TypeOK, Safety, WindowInv
    <3>2. Len(bs) <= span[t]
      BY <1>9 DEF PutWritePtr
    <3> QED
      BY <2>1, <3>1, <3>2, IndexRanges
  <2>3. /\ data' = Copy(bs) /\ idx_write' = Advance(idx_write, Len(bs))
        /\ UNCHANGED <<capacity, idx_read>>
    BY <1>9 DEF PutWritePtr
  <2>4. Contents' = Abstract!Accept(Contents, capacity, bs)
    BY <2>1, <2>2, <2>3, Appended, Accepted
  <2>5. /\ Stored = Contents /\ Stored' = Contents'
        /\ Asked = <<>> /\ Asked' = <<>>
    BY <1>4, <1>9 DEF PutWritePtr
  <2> QED
    BY <2>1, <2>2, <2>3, <2>4, <2>5 DEF Abstract!Put, Abstract!Alone
<1>10. ASSUME NEW t \in Threads, NEW n \in 0 .. MaxAsk, PutReadPtr(t, n)
       PROVE  Abstract!Take(n)
  <2>1. n \in Nat /\ span[t] \in Nat /\ idx_read + span[t] <= capacity /\ span[t] <= Size
    BY <1>10 DEF PutReadPtr, IInv, TypeOK, Safety, WindowInv
  <2>2. n <= Size /\ idx_read + n <= capacity /\ Len(Contents) = Size
    BY <1>1, <1>10, <2>1, IndexRanges DEF PutReadPtr, Layout
  <2>3. idx_read' = Advance(idx_read, n) /\ UNCHANGED <<capacity, data, idx_write>>
    BY <1>10 DEF PutReadPtr
  <2>4. Contents' = SubSeq(Contents, n + 1, Size)
    BY <2>1, <2>2, <2>3, Taken
  <2>5. /\ Stored = Contents /\ Stored' = Contents'
        /\ Asked = <<>> /\ Asked' = <<>>
    BY <1>4, <1>10 DEF PutReadPtr
  <2> QED
    BY <2>2, <2>3, <2>4, <2>5 DEF Abstract!Take, Abstract!Alone
<1>11. ASSUME NEW t \in Threads, NEW n \in 1 .. MaxAsk, Read(t, n)
       PROVE  ReadSpan(n) \in 0 .. MaxAsk /\ Abstract!Take(ReadSpan(n))
  <2>1. ReadSpan(n) \in Nat /\ ReadSpan(n) <= Size /\ idx_read + ReadSpan(n) <= capacity
    BY RBufAssumption, ReadSpans
  <2>2. ReadSpan(n) <= n /\ Len(Contents) = Size
    BY <1>1, RBufAssumption, IndexRanges DEF Layout, ReadSpan, Least
  <2>3. /\ idx_read' = Advance(idx_read, ReadSpan(n)) /\ UNCHANGED <<capacity, data, idx_write>>
        /\ Enter(t) /\ UNCHANGED pc
    BY <1>11 DEF Read
  <2>4. Contents' = SubSeq(Contents, ReadSpan(n) + 1, Size)
    BY <2>1, <2>3, Taken
  <2>5. ReadSpan(n) \in 0 .. MaxAsk
    BY <2>1, <2>2, RBufAssumption
  <2> QED
    BY <1>2, <2>1, <2>2, <2>3, <2>4, <2>5 DEF Abstract!Take, Abstract!Alone
<1>12. ASSUME NEW t \in Threads, GetWritePtr(t) \/ (\E n \in 1 .. MaxAsk : GetReadPtr(t, n))
       PROVE  UNCHANGED Abstract!fifoVars
  BY <1>3, <1>5, <1>12 DEF GetWritePtr, GetReadPtr, ring, Abstract!fifoVars
<1>13. ASSUME NEW t \in Threads, WriteReturn(t)
       PROVE  UNCHANGED Abstract!fifoVars
  BY <1>4, <1>5, <1>13 DEF WriteReturn, ring, Abstract!fifoVars
<1>14. CASE UNCHANGED vars
  <2>1. Contents' = Contents /\ capacity' = capacity /\ Size' = Size
    BY <1>5, <1>14 DEF vars, ring, Size
  <2>2. pc' = pc /\ todo' = todo /\ arg' = arg
    BY <1>14 DEF vars
  <2>3. Writer' = Writer /\ InProgress' = InProgress
    BY <2>2 DEF Writer, InProgress
  <2> QED
    BY <2>1, <2>2, <2>3 DEF Stored, Asked, Abstract!fifoVars
<1>15. ASSUME NEW t \in Threads, Call(t)
       PROVE  Abstract!FifoNext \/ UNCHANGED Abstract!fifoVars
  BY <1>6, <1>7, <1>8, <1>11, <1>12, <1>15
     DEF Call, SetCapacity, Dealloc, Abstract!FifoNext, Strings, Abstract!Strings
<1>16. ASSUME NEW t \in Threads, Finish(t)
       PROVE  Abstract!FifoNext \/ UNCHANGED Abstract!fifoVars
  BY <1>9, <1>10, <1>13, <1>16, TurnRefines
     DEF Finish, Abstract!FifoNext, Strings, Abstract!Strings
<1> QED
  BY <1>14, <1>15, <1>16 DEF Next

LEMMA InitRefines == Init => InFlight /\ Abstract!FifoInit
<1> SUFFICES ASSUME Init PROVE InFlight /\ Abstract!FifoInit
  OBVIOUS
<1>1. \A t \in Threads : pc[t] = "idle"
  BY DEF Init
<1>2. Size = 0 /\ capacity = 0
  BY DEF Init, Size
<1>3. Contents = <<>>
  BY <1>2, InitIInv, Laid DEF Layout
<1>4. ~InProgress
  BY <1>1 DEF InProgress
<1> QED
  BY <1>1, <1>2, <1>3, <1>4 DEF InFlight, Stored, Asked, Abstract!FifoInit

\* For any number of threads, whatever they write, read and resize and in
\* whatever order, the ring is the queue of OverrunFifo: the indices, the copy
\* in two pieces at the wrap (rbuf.cpp:213) and the lent windows lose, repeat,
\* reorder and invent nothing, but for the write that fills the ring.
THEOREM RingIsFifo == Spec => ImplementsFifo
<1>1. Init => IInv /\ InFlight /\ Abstract!FifoInit
  BY InitIInv, InitRefines
<1>2. IInv /\ InFlight /\ [Next]_vars => (IInv /\ InFlight)' /\ [Abstract!FifoNext]_(Abstract!fifoVars)
  BY StepIInv, StepInFlight, StepRefines
<1> QED
  BY <1>1, <1>2, PTL DEF Spec, ImplementsFifo, Abstract!FifoSpec

-----------------------------------------------------------------------------
(* A tree of decoders, and a new decoder in it.                            *)

\* Of some numbers one is the least.
LEMMA LeastIs ==
  ASSUME NEW T \in SUBSET Nat, T # {}
  PROVE  \E n \in T : \A m \in T : n <= m
<1>1. IsWellFoundedOn(OpToRel(<, Nat), Nat)
  BY NatLessThanWellFounded
<1>2. PICK n \in T : \A m \in T : ~(<<m, n>> \in OpToRel(<, Nat))
  BY <1>1, WFMin
<1>3. \A m \in T : ~(m < n)
  BY <1>2 DEF OpToRel
<1> QED
  BY <1>3

\* A set of numbers with 0 and the successor of each is all of them.
LEMMA Induct ==
  ASSUME NEW T \in SUBSET Nat, 0 \in T, \A k \in T : k + 1 \in T
  PROVE  T = Nat
<1> SUFFICES ASSUME Nat \ T # {} PROVE FALSE
  OBVIOUS
<1>1. PICK n \in Nat \ T : \A m \in Nat \ T : n <= m
  BY LeastIs
<1>2. n - 1 \in Nat /\ n - 1 \notin T
  BY <1>1
<1> QED
  BY <1>1, <1>2

\* The kinds of decoders: a child is of a higher level than its parent.
Level == [decode |-> 0, network |-> 1, service |-> 2, table |-> 3, part |-> 4, descriptor |-> 5]

\* What each kind has.
Fields ==
  [decode |-> {"m_parser", "store", "decoded"},
   network |-> {"store", "decoded", "services", "descriptors"},
   service |-> {"store", "decoded"},
   table |-> {"class", "from", "struct", "shown", "descriptors"},
   part |-> {"descriptors"},
   descriptor |-> {"tag"}]

\* What every decoder has.
NodeFields == {"is", "parent", "linkedIdx", "children", "genMapIdx", "data"}

\* A decoder has what its kind has, and its next slot is above those taken.
Shaped(f, i) ==
  /\ DOMAIN f[i] = NodeFields /\ f[i].is \in DOMAIN Level /\ DOMAIN f[i].data = Fields[f[i].is]
  /\ f[i].genMapIdx \in Nat
  /\ \A k \in DOMAIN f[i].children : k \in Nat /\ k < f[i].genMapIdx

\* Those in loose have no slot yet.
Up(f, loose, i) ==
  IF f[i].is = "decode" THEN f[i].parent = Null
  ELSE /\ f[i].parent \in DOMAIN f /\ Level[f[f[i].parent].is] < Level[f[i].is]
       /\ i \notin loose => /\ f[i].linkedIdx \in DOMAIN f[f[i].parent].children
                            /\ f[f[i].parent].children[f[i].linkedIdx] = i

\* c is a child of i that has a slot.
Mine(f, loose, i, c) == c \in DOMAIN f \ loose /\ f[c].parent = i

\* The children in the slots of a decoder know it and their slots.
Down(f, loose, i) ==
  \A k \in DOMAIN f[i].children :
    Mine(f, loose, i, f[i].children[k]) /\ f[f[i].children[k]].linkedIdx = k

\* What is kept of the children.
KeepsTables(f, loose, i, store) ==
  /\ store \in Seq(Nat)
  /\ \A j \in DOMAIN store : Mine(f, loose, i, store[j]) /\ f[store[j]].is = "table"
  /\ \A j, k \in DOMAIN store : store[j] = store[k] => j = k
KeepsServices(f, loose, i, services) ==
  \A ts \in DOMAIN services : Mine(f, loose, i, services[ts]) /\ f[services[ts]].is = "service"
KeepsDescriptors(f, loose, i, descriptors) ==
  /\ descriptors \in Seq(Nat)
  /\ \A j \in DOMAIN descriptors : Mine(f, loose, i, descriptors[j])

\* What a decoder keeps are children of it.
Keeps(f, loose, i, own) ==
  /\ "store" \in DOMAIN own => KeepsTables(f, loose, i, own.store)
  /\ "services" \in DOMAIN own => KeepsServices(f, loose, i, own.services)
  /\ "descriptors" \in DOMAIN own => KeepsDescriptors(f, loose, i, own.descriptors)

\* The decoders are a tree: linked both ways, levels rise, and what is kept are children.
Tree(f, loose) ==
  /\ IsFiniteSet(DOMAIN f) /\ DOMAIN f \subseteq Nat \ {0} /\ loose \subseteq DOMAIN f
  /\ \A i \in DOMAIN f : Shaped(f, i) /\ Up(f, loose, i) /\ Down(f, loose, i) /\ Keeps(f, loose, i, f[i].data)

\* A new decoder gets an address that no other one has.
LEMMA FreshIs ==
  ASSUME NEW f, IsFiniteSet(DOMAIN f), DOMAIN f \subseteq Nat \ {0}
  PROVE  Fresh(f) \in Nat \ {0} /\ Fresh(f) \notin DOMAIN f
<1>1. PICK n : n = Cardinality(DOMAIN f)
  OBVIOUS
<1>2. n \in Nat
  BY <1>1, FS_CardinalityType
<1> DEFINE T == {i \in 1 .. n + 1 : i \notin DOMAIN f}
<1>3. T # {}
  <2> SUFFICES ASSUME T = {} PROVE FALSE
    OBVIOUS
  <2>1. 1 .. n + 1 \in SUBSET DOMAIN f
    OBVIOUS
  <2>2. Cardinality(1 .. n + 1) <= Cardinality(DOMAIN f)
    BY <2>1, FS_Subset
  <2>3. Cardinality(1 .. n + 1) = n + 1
    <3>1. 1 \in Int /\ n + 1 \in Int /\ ~(1 > n + 1) /\ (n + 1) - 1 + 1 = n + 1
      BY <1>2
    <3> QED
      BY <3>1, FS_Interval
  <2> QED
    BY <1>1, <1>2, <2>2, <2>3
<1>4. PICK i \in T : \A m \in T : i <= m
  <2>1. T \in SUBSET Nat
    BY <1>2
  <2> HIDE DEF T
  <2> QED
    BY <1>3, <2>1, LeastIs
<1>5. i \in 1 .. n + 1 /\ i \notin DOMAIN f
  OBVIOUS
<1>6. \A j \in 1 .. i - 1 : j \in DOMAIN f
  <2> SUFFICES ASSUME NEW j \in 1 .. i - 1, j \notin DOMAIN f PROVE FALSE
    OBVIOUS
  <2>1. j \in 1 .. n + 1 /\ ~(i <= j)
    BY <1>2, <1>5
  <2>2. j \in T
    BY <2>1
  <2> QED
    BY <1>4, <2>1, <2>2
<1> HIDE DEF T
<1>7. Fresh(f) \in 1 .. n + 1 /\ Fresh(f) \notin DOMAIN f
  BY <1>1, <1>5, <1>6 DEF Fresh
<1> QED
  BY <1>2, <1>7

\* The next slot of a decoder is free: genMapIndex does not have to look for one.
LEMMA SlotIs ==
  ASSUME NEW f, NEW p, Shaped(f, p)
  PROVE  genMapIndex(f, p) = f[p].genMapIdx /\ f[p].genMapIdx \notin DOMAIN f[p].children
<1>1. PICK g : g = f[p].genMapIdx
  OBVIOUS
<1>2. PICK C : C = DOMAIN f[p].children
  OBVIOUS
<1>3. g \in Nat /\ \A k \in C : k \in Nat /\ k < g
  BY <1>1, <1>2 DEF Shaped
<1>4. g \notin C
  BY <1>3
<1>5. Cardinality(C) \in Nat
  <2>1. IsFiniteSet(0 .. g) /\ C \in SUBSET (0 .. g)
    <3>1. C \in SUBSET (0 .. g)
      BY <1>3
    <3>2. 0 \in Int /\ g \in Int
      BY <1>3
    <3> QED
      BY <3>1, <3>2, FS_Interval
  <2> QED
    BY <2>1, FS_Subset, FS_CardinalityType
<1>6. PICK n : n = Cardinality(C)
  OBVIOUS
<1>7. \A i \in g .. g + n : /\ i \notin C
                            /\ \A j \in g .. i - 1 : j \in C
                            => i = g
  <2> SUFFICES ASSUME NEW i \in g .. g + n, \A j \in g .. i - 1 : j \in C PROVE i = g
    OBVIOUS
  <2>1. i # g => g \in g .. i - 1
    BY <1>3, <1>5, <1>6
  <2> QED
    BY <1>4, <2>1
<1>8. g \in g .. g + n /\ \A j \in g .. g - 1 : j \in C
  BY <1>3, <1>5, <1>6
<1>9. (CHOOSE i \in g .. g + n : i \notin C /\ \A j \in g .. i - 1 : j \in C) = g
  BY <1>4, <1>7, <1>8
<1> QED
  BY <1>1, <1>2, <1>4, <1>6, <1>9 DEF genMapIndex

\* A node that keeps nothing yet.
Empty(own) ==
  /\ "store" \in DOMAIN own => own.store = <<>>
  /\ "services" \in DOMAIN own => own.services = <<>>
  /\ "descriptors" \in DOMAIN own => own.descriptors = <<>>

\* g is f with a new decoder c, a decode or one without a slot, that keeps nothing.
Puts(f, loose, c, is, p, own, new, g) ==
  /\ g = Put(f, c, Decoder(is, p, own))
  /\ is \in DOMAIN Level /\ DOMAIN own = Fields[is] /\ Empty(own)
  /\ IF is = "decode" THEN p = Null /\ new = loose
     ELSE p \in DOMAIN f /\ Level[f[p].is] < Level[is] /\ new = loose \cup {c}

\* All of f is in g as it was.
Includes(f, c, g) ==
  /\ c \notin DOMAIN f /\ DOMAIN g = DOMAIN f \cup {c}
  /\ \A i \in DOMAIN f : g[i] = f[i]

\* A new decoder leaves a tree, in which it is loose unless it is a decode.
LEMMA PutIs ==
  ASSUME NEW f, NEW loose, Tree(f, loose), NEW c \in Nat \ {0}, c \notin DOMAIN f,
         NEW is, NEW p, NEW own, NEW new, NEW g, Puts(f, loose, c, is, p, own, new, g)
  PROVE  /\ Tree(g, new) /\ Includes(f, c, g)
         /\ g[c].is = is /\ g[c].parent = p /\ g[c].data = own
<1>1. PICK d : d = Decoder(is, p, own)
  OBVIOUS
<1>2. /\ DOMAIN d = NodeFields /\ d.is = is /\ d.parent = p /\ d.data = own /\ d.linkedIdx = -1
      /\ d.children = <<>> /\ d.genMapIdx = 0
  BY <1>1 DEF Decoder, NodeFields
<1>3. Includes(f, c, g) /\ g[c] = d
  BY <1>1 DEF Puts, Put, Includes
<1>4. \A i \in DOMAIN f : i # c /\ i \in DOMAIN g /\ g[i] = f[i]
  BY <1>3 DEF Includes
<1>5. IsFiniteSet(DOMAIN g) /\ DOMAIN g \subseteq Nat \ {0}
  <2>1. DOMAIN g = DOMAIN f \cup {c}
    BY <1>3 DEF Includes
  <2>2. IsFiniteSet(DOMAIN f) /\ DOMAIN f \subseteq Nat \ {0}
    BY DEF Tree
  <2> QED
    BY <2>1, <2>2, FS_AddElement
<1>6. Shaped(g, c)
  BY <1>2, <1>3 DEF Shaped, Puts
<1>7. Up(g, new, c)
  <2>1. CASE is = "decode"
    BY <1>2, <1>3, <2>1 DEF Up, Puts
  <2>2. CASE is # "decode"
    <3>1. p \in DOMAIN f /\ Level[f[p].is] < Level[is] /\ c \in new
      BY <2>2 DEF Puts
    <3> QED
      BY <1>2, <1>3, <1>4, <2>2, <3>1 DEF Up
  <2> QED
    BY <2>1, <2>2
<1>8. Down(g, new, c)
  BY <1>2, <1>3 DEF Down
<1>9. Keeps(g, new, c, g[c].data)
  <2>1. KeepsTables(g, new, c, <<>>) /\ KeepsServices(g, new, c, <<>>) /\ KeepsDescriptors(g, new, c, <<>>)
    <3>1. PICK e : e = <<>>
      OBVIOUS
    <3>2. DOMAIN e = {} /\ e \in Seq(Nat)
      BY <3>1
    <3>3. KeepsTables(g, new, c, e) /\ KeepsServices(g, new, c, e) /\ KeepsDescriptors(g, new, c, e)
      BY <3>2 DEF KeepsTables, KeepsServices, KeepsDescriptors
    <3> QED
      BY <3>1, <3>3
  <2>2. g[c].data = own
    BY <1>2, <1>3
  <2>3. Empty(own)
    BY DEF Puts
  <2> QED
    BY <2>1, <2>2, <2>3 DEF Keeps, Empty
<1>10. \A i, k : Mine(f, loose, i, k) => Mine(g, new, i, k) /\ k \in DOMAIN f
  <2>1. \A k \in DOMAIN f : k \in new => k \in loose
    BY <1>4 DEF Puts
  <2> QED
    BY <1>4, <2>1 DEF Mine
<1>11. ASSUME NEW i \in DOMAIN f PROVE Shaped(g, i) /\ Up(g, new, i) /\ Down(g, new, i) /\ Keeps(g, new, i, g[i].data)
  <2>1. Shaped(f, i) /\ Up(f, loose, i) /\ Down(f, loose, i) /\ Keeps(f, loose, i, f[i].data)
    BY DEF Tree
  <2>2. Shaped(g, i)
    BY <1>4, <2>1 DEF Shaped
  <2>3. loose \subseteq new
    BY DEF Puts
  <2>4. Up(g, new, i)
    BY <1>4, <2>1, <2>3 DEF Up
  <2>5. Down(g, new, i)
    BY <1>4, <1>10, <2>1 DEF Down
  <2>6. Keeps(g, new, i, f[i].data)
    <3>1. \A store : KeepsTables(f, loose, i, store) => KeepsTables(g, new, i, store)
      BY <1>4, <1>10 DEF KeepsTables
    <3>2. \A services : KeepsServices(f, loose, i, services) => KeepsServices(g, new, i, services)
      BY <1>4, <1>10 DEF KeepsServices
    <3>3. \A descriptors : KeepsDescriptors(f, loose, i, descriptors) => KeepsDescriptors(g, new, i, descriptors)
      BY <1>10 DEF KeepsDescriptors
    <3> QED
      BY <2>1, <3>1, <3>2, <3>3 DEF Keeps
  <2> QED
    BY <1>4, <2>2, <2>4, <2>5, <2>6
<1>12. \A i \in DOMAIN g : i = c \/ i \in DOMAIN f
  BY <1>3 DEF Includes
<1>13. Tree(g, new)
  <2>1. new \subseteq DOMAIN g
    BY <1>3 DEF Puts, Includes, Tree
  <2> QED
    BY <1>5, <1>6, <1>7, <1>8, <1>9, <1>11, <1>12, <2>1 DEF Tree
<1> QED
  BY <1>2, <1>3, <1>13

-----------------------------------------------------------------------------
(* Links, and what is changed in one decoder.                              *)

\* The nodes of f are in g, of the same kind and below the same parents.
Within(f, loose, g, new) ==
  /\ DOMAIN f \subseteq DOMAIN g /\ new \cap DOMAIN f \subseteq loose
  /\ \A i \in DOMAIN f : g[i].is = f[i].is /\ g[i].parent = f[i].parent

\* What is kept stays kept where nothing is deleted.
LEMMA KeepsWithin ==
  ASSUME NEW f, NEW loose, NEW g, NEW new, Within(f, loose, g, new), NEW i, NEW own, Keeps(f, loose, i, own)
  PROVE  Keeps(g, new, i, own)
<1>1. \A k : Mine(f, loose, i, k) => Mine(g, new, i, k) /\ k \in DOMAIN f
  BY DEF Mine, Within
<1>2. \A k \in DOMAIN f : g[k].is = f[k].is
  BY DEF Within
<1>3. \A store : KeepsTables(f, loose, i, store) => KeepsTables(g, new, i, store)
  BY <1>1, <1>2 DEF KeepsTables
<1>4. \A services : KeepsServices(f, loose, i, services) => KeepsServices(g, new, i, services)
  BY <1>1, <1>2 DEF KeepsServices
<1>5. \A descriptors : KeepsDescriptors(f, loose, i, descriptors) => KeepsDescriptors(g, new, i, descriptors)
  BY <1>1 DEF KeepsDescriptors
<1> QED
  BY <1>3, <1>4, <1>5 DEF Keeps

\* What one node is, is there in another one but for the field x.
Edited(r, x, y, e) == DOMAIN e = DOMAIN r /\ e[x] = y /\ \A z \in DOMAIN r \ {x} : e[z] = r[z]

\* The same, as an assignment.
Edits(r, x, y, e) == e = [r EXCEPT ![x] = y]

\* An assignment to one field leaves the others.
LEMMA EditIs ==
  ASSUME NEW r, NEW x \in DOMAIN r, NEW y, NEW e, Edits(r, x, y, e)
  PROVE  Edited(r, x, y, e)
BY DEF Edits, Edited

\* g is f with c in the next slot of p.
Links(f, p, c, g) ==
  /\ DOMAIN g = DOMAIN f
  /\ \A i \in DOMAIN f : /\ DOMAIN g[i] = DOMAIN f[i] /\ g[i].is = f[i].is /\ g[i].parent = f[i].parent
                         /\ g[i].data = f[i].data
                         /\ i # c => g[i].linkedIdx = f[i].linkedIdx
                         /\ i # p => g[i].children = f[i].children /\ g[i].genMapIdx = f[i].genMapIdx
  /\ g[c].linkedIdx = f[p].genMapIdx
  /\ g[p].children = Put(f[p].children, f[p].genMapIdx, c)
  /\ g[p].genMapIdx = f[p].genMapIdx + 1

\* linkChild takes the next slot of the parent and tells the child.
LEMMA LinkEdits ==
  ASSUME NEW f, NEW p \in DOMAIN f, Shaped(f, p), NEW c \in DOMAIN f, Shaped(f, c), c # p
  PROVE  Links(f, p, c, linkChild(f, p, c))
<1>1. PICK idx : idx = f[p].genMapIdx
  OBVIOUS
<1>2. genMapIndex(f, p) = idx /\ idx \notin DOMAIN f[p].children
  BY <1>1, SlotIs
<1>3. PICK slots : slots = Put(f[p].children, idx, c)
  OBVIOUS
<1>4. PICK a : a = [f EXCEPT ![p].children = slots]
  OBVIOUS
<1>5. PICK b : b = [a EXCEPT ![p].genMapIdx = idx + 1]
  OBVIOUS
<1>6. PICK g : g = [b EXCEPT ![c].linkedIdx = idx]
  OBVIOUS
<1>7. linkChild(f, p, c) = g
  BY <1>2, <1>3, <1>4, <1>5, <1>6 DEF linkChild
<1>8. DOMAIN f[p] = NodeFields /\ DOMAIN f[c] = NodeFields
  BY DEF Shaped
<1>9. DOMAIN a = DOMAIN f /\ a[p] = [f[p] EXCEPT !["children"] = slots] /\ \A i \in DOMAIN f \ {p} : a[i] = f[i]
  BY <1>4
<1>10. Edited(f[p], "children", slots, a[p])
  <2>1. Edits(f[p], "children", slots, a[p])
    BY <1>9 DEF Edits
  <2>2. "children" \in DOMAIN f[p]
    BY <1>8 DEF NodeFields
  <2> QED
    BY <2>1, <2>2, EditIs
<1>11. DOMAIN a[p] = NodeFields
  BY <1>8, <1>10 DEF Edited
<1>12. DOMAIN b = DOMAIN f /\ b[p] = [a[p] EXCEPT !["genMapIdx"] = idx + 1] /\ \A i \in DOMAIN f \ {p} : b[i] = f[i]
  BY <1>5, <1>9
<1>13. Edited(a[p], "genMapIdx", idx + 1, b[p])
  <2>1. Edits(a[p], "genMapIdx", idx + 1, b[p])
    BY <1>12 DEF Edits
  <2>2. "genMapIdx" \in DOMAIN a[p]
    BY <1>11 DEF NodeFields
  <2> QED
    BY <2>1, <2>2, EditIs
<1>14. DOMAIN b[p] = NodeFields
  BY <1>11, <1>13 DEF Edited
<1>15. DOMAIN g = DOMAIN f /\ g[c] = [f[c] EXCEPT !["linkedIdx"] = idx] /\ \A i \in DOMAIN f \ {c} : g[i] = b[i]
  BY <1>6, <1>12
<1>16. Edited(f[c], "linkedIdx", idx, g[c])
  <2>1. Edits(f[c], "linkedIdx", idx, g[c])
    BY <1>15 DEF Edits
  <2>2. "linkedIdx" \in DOMAIN f[c]
    BY <1>8 DEF NodeFields
  <2> QED
    BY <2>1, <2>2, EditIs
<1>17. g[c].linkedIdx = idx /\ \A z \in NodeFields \ {"linkedIdx"} : g[c][z] = f[c][z]
  BY <1>8, <1>16 DEF Edited
<1>18. /\ g[p] = b[p] /\ b[p].genMapIdx = idx + 1 /\ b[p].children = slots
       /\ \A z \in NodeFields \ {"children", "genMapIdx"} : b[p][z] = f[p][z]
  BY <1>8, <1>10, <1>11, <1>13, <1>15 DEF Edited, NodeFields
<1>19. \A i \in DOMAIN f \ {p, c} : g[i] = f[i]
  BY <1>12, <1>15
<1>20. DOMAIN g[c] = DOMAIN f[c] /\ DOMAIN g[p] = DOMAIN f[p]
  BY <1>8, <1>14, <1>16, <1>18 DEF Edited
<1>21. ASSUME NEW i \in DOMAIN f
       PROVE  /\ DOMAIN g[i] = DOMAIN f[i] /\ g[i].is = f[i].is /\ g[i].parent = f[i].parent
              /\ g[i].data = f[i].data
              /\ i # c => g[i].linkedIdx = f[i].linkedIdx
              /\ i # p => g[i].children = f[i].children /\ g[i].genMapIdx = f[i].genMapIdx
  <2>1. CASE i = p
    BY <1>18, <1>20, <2>1 DEF NodeFields
  <2>2. CASE i = c
    BY <1>17, <1>20, <2>2 DEF NodeFields
  <2>3. CASE i # p /\ i # c
    BY <1>19, <2>3
  <2> QED
    BY <2>1, <2>2, <2>3
<1>22. Links(f, p, c, g)
  BY <1>1, <1>3, <1>15, <1>17, <1>18, <1>21 DEF Links
<1> QED
  BY <1>7, <1>22

\* A loose decoder that is linked leaves a tree.
LEMMA LinkIs ==
  ASSUME NEW f, NEW loose, Tree(f, loose), NEW c \in DOMAIN f, c \in loose, f[c].is # "decode",
         NEW g, Links(f, f[c].parent, c, g)
  PROVE  Tree(g, loose \ {c})
<1>1. PICK p : p = f[c].parent
  OBVIOUS
<1>2. PICK idx : idx = f[p].genMapIdx
  OBVIOUS
<1>3. PICK new : new = loose \ {c}
  OBVIOUS
<1>4. p \in DOMAIN f /\ p # c /\ Shaped(f, p) /\ idx \in Nat /\ idx \notin DOMAIN f[p].children
  <2>1. Up(f, loose, c) /\ Shaped(f, c)
    BY DEF Tree
  <2>2. p \in DOMAIN f /\ Level[f[p].is] < Level[f[c].is]
    BY <1>1, <2>1 DEF Up
  <2>3. Shaped(f, p)
    BY <2>2 DEF Tree
  <2>4. Level[f[c].is] \in Nat
    BY <2>1 DEF Shaped, Level
  <2> QED
    BY <1>2, <2>2, <2>3, <2>4, SlotIs DEF Shaped
<1>5. /\ DOMAIN g = DOMAIN f
      /\ \A i \in DOMAIN f : /\ DOMAIN g[i] = DOMAIN f[i] /\ g[i].is = f[i].is /\ g[i].parent = f[i].parent
                             /\ g[i].data = f[i].data
                             /\ i # c => g[i].linkedIdx = f[i].linkedIdx
                             /\ i # p => g[i].children = f[i].children /\ g[i].genMapIdx = f[i].genMapIdx
      /\ g[c].linkedIdx = idx
      /\ g[p].children = Put(f[p].children, idx, c)
      /\ g[p].genMapIdx = idx + 1
  BY <1>1, <1>2 DEF Links
<1>6. /\ DOMAIN g[p].children = DOMAIN f[p].children \cup {idx} /\ g[p].children[idx] = c
      /\ \A k \in DOMAIN f[p].children : g[p].children[k] = f[p].children[k] /\ k # idx
  BY <1>4, <1>5 DEF Put
<1>7. Within(f, loose, g, new)
  BY <1>3, <1>5 DEF Within
<1>8. \A i, k : Mine(f, loose, i, k) => Mine(g, new, i, k) /\ k \in DOMAIN f /\ k # c
  BY <1>3, <1>5 DEF Mine
<1>9. ASSUME NEW i \in DOMAIN f
      PROVE  Shaped(g, i) /\ Up(g, new, i) /\ Down(g, new, i) /\ Keeps(g, new, i, g[i].data)
  <2>1. Shaped(f, i) /\ Up(f, loose, i) /\ Down(f, loose, i) /\ Keeps(f, loose, i, f[i].data)
    BY DEF Tree
  <2>2. Shaped(g, i)
    <3>1. CASE i # p
      BY <1>5, <2>1, <3>1 DEF Shaped
    <3>2. CASE i = p
      <4>1. \A k \in DOMAIN g[p].children : k \in Nat /\ k < idx + 1
        BY <1>2, <1>4, <1>6 DEF Shaped
      <4>2. idx + 1 \in Nat
        BY <1>4
      <4> QED
        BY <1>5, <2>1, <3>2, <4>1, <4>2 DEF Shaped
    <3> QED
      BY <3>1, <3>2
  <2>3. Up(g, new, i)
    <3>1. CASE i = c
      BY <1>1, <1>4, <1>5, <1>6, <2>1, <3>1 DEF Up
    <3>2. CASE i # c
      <4>1. i \notin new => i \notin loose
        BY <1>3, <3>2
      <4>2. \A k \in DOMAIN f : \A l \in DOMAIN f[k].children :
              l \in DOMAIN g[k].children /\ g[k].children[l] = f[k].children[l]
        BY <1>5, <1>6
      <4> QED
        BY <1>5, <2>1, <3>2, <4>1, <4>2 DEF Up
    <3> QED
      BY <3>1, <3>2
  <2>4. Down(g, new, i)
    <3>1. ASSUME NEW k \in DOMAIN f[i].children
          PROVE  Mine(g, new, i, f[i].children[k]) /\ g[f[i].children[k]].linkedIdx = k
      BY <1>5, <1>8, <2>1 DEF Down
    <3>2. CASE i # p
      <4>1. g[i].children = f[i].children
        BY <1>5, <3>2
      <4> QED
        BY <3>1, <4>1 DEF Down
    <3>3. CASE i = p
      <4>1. Mine(g, new, p, c) /\ g[c].linkedIdx = idx
        BY <1>1, <1>3, <1>5 DEF Mine
      <4> QED
        BY <1>6, <3>1, <3>3, <4>1 DEF Down
    <3> QED
      BY <3>2, <3>3
  <2>5. Keeps(g, new, i, g[i].data)
    BY <1>5, <1>7, <2>1, KeepsWithin
  <2> QED
    BY <2>2, <2>3, <2>4, <2>5
<1>10. Tree(g, new)
  <2>1. new \subseteq DOMAIN g
    BY <1>3, <1>5 DEF Tree
  <2>2. IsFiniteSet(DOMAIN g) /\ DOMAIN g \subseteq Nat \ {0}
    BY <1>5 DEF Tree
  <2> QED
    BY <1>5, <1>9, <2>1, <2>2 DEF Tree
<1> QED
  BY <1>3, <1>10

\* Only the own of p is another one.
Changes(f, p, own, g) ==
  /\ DOMAIN g = DOMAIN f /\ \A i \in DOMAIN f \ {p} : g[i] = f[i]
  /\ DOMAIN g[p] = DOMAIN f[p] /\ g[p].data = own
  /\ \A z \in NodeFields \ {"data"} : g[p][z] = f[p][z]

\* An assignment to the data of a decoder leaves its links.
LEMMA ChangeEdits ==
  ASSUME NEW f, NEW p \in DOMAIN f, Shaped(f, p), NEW own
  PROVE  Changes(f, p, own, [f EXCEPT ![p].data = own])
<1>1. PICK g : g = [f EXCEPT ![p].data = own]
  OBVIOUS
<1>2. DOMAIN f[p] = NodeFields
  BY DEF Shaped
<1>3. DOMAIN g = DOMAIN f /\ g[p] = [f[p] EXCEPT !["data"] = own] /\ \A i \in DOMAIN f \ {p} : g[i] = f[i]
  BY <1>1
<1>4. Edited(f[p], "data", own, g[p])
  <2>1. Edits(f[p], "data", own, g[p])
    BY <1>3 DEF Edits
  <2>2. "data" \in DOMAIN f[p]
    BY <1>2 DEF NodeFields
  <2> QED
    BY <2>1, <2>2, EditIs
<1>5. Changes(f, p, own, g)
  BY <1>2, <1>3, <1>4 DEF Changes, Edited
<1> QED
  BY <1>1, <1>5

\* Other data that keep children of the decoder leave a tree.
LEMMA ChangeIs ==
  ASSUME NEW f, NEW loose, Tree(f, loose), NEW p \in DOMAIN f,
         NEW own, DOMAIN own = Fields[f[p].is], Keeps(f, loose, p, own),
         NEW g, Changes(f, p, own, g)
  PROVE  Tree(g, loose)
<1>1. /\ DOMAIN g = DOMAIN f
      /\ \A i \in DOMAIN f : /\ DOMAIN g[i] = DOMAIN f[i] /\ g[i].is = f[i].is /\ g[i].parent = f[i].parent
                             /\ g[i].linkedIdx = f[i].linkedIdx /\ g[i].children = f[i].children
                             /\ g[i].genMapIdx = f[i].genMapIdx
                             /\ i # p => g[i].data = f[i].data
      /\ g[p].data = own
  <2>1. ASSUME NEW i \in DOMAIN f
        PROVE  /\ DOMAIN g[i] = DOMAIN f[i] /\ g[i].is = f[i].is /\ g[i].parent = f[i].parent
               /\ g[i].linkedIdx = f[i].linkedIdx /\ g[i].children = f[i].children
               /\ g[i].genMapIdx = f[i].genMapIdx
               /\ i # p => g[i].data = f[i].data
    <3>1. CASE i = p
      BY <3>1 DEF Changes, NodeFields
    <3>2. CASE i # p
      BY <3>2 DEF Changes
    <3> QED
      BY <3>1, <3>2
  <2> QED
    BY <2>1 DEF Changes
<1>2. Within(f, loose, g, loose)
  BY <1>1 DEF Within
<1>3. ASSUME NEW i \in DOMAIN f
      PROVE  Shaped(g, i) /\ Up(g, loose, i) /\ Down(g, loose, i) /\ Keeps(g, loose, i, g[i].data)
  <2>1. Shaped(f, i) /\ Up(f, loose, i) /\ Down(f, loose, i) /\ Keeps(f, loose, i, f[i].data)
    BY DEF Tree
  <2>2. Shaped(g, i)
    <3>1. DOMAIN g[i].data = Fields[g[i].is]
      BY <1>1, <2>1 DEF Shaped
    <3> QED
      BY <1>1, <2>1, <3>1 DEF Shaped
  <2>3. Up(g, loose, i)
    BY <1>1, <2>1 DEF Up
  <2>4. Down(g, loose, i)
    BY <1>1, <2>1 DEF Down, Mine
  <2>5. Keeps(f, loose, i, g[i].data)
    BY <1>1, <2>1
  <2>6. Keeps(g, loose, i, g[i].data)
    BY <1>2, <2>5, KeepsWithin
  <2> QED
    BY <2>2, <2>3, <2>4, <2>6
<1> QED
  BY <1>1, <1>3 DEF Tree

-----------------------------------------------------------------------------
(* New decoders: nothing else changes.                                     *)

\* Node i is what it was, but for its descriptors.
Same(f, g, i) ==
  /\ g[i].is = f[i].is /\ g[i].parent = f[i].parent /\ DOMAIN g[i].data = DOMAIN f[i].data
  /\ \A x \in DOMAIN f[i].data \ {"descriptors"} : g[i].data[x] = f[i].data[x]

\* Parts and descriptors are new, and nothing else.
Grown(f, g) ==
  /\ DOMAIN f \subseteq DOMAIN g
  /\ \A i \in DOMAIN f : Same(f, g, i)
  /\ \A i \in DOMAIN g \ DOMAIN f : g[i].is \in {"part", "descriptor"}

\* Nothing new is a case of it.
LEMMA GrownSelf ==
  ASSUME NEW f
  PROVE  Grown(f, f)
BY DEF Grown, Same

\* And so are two steps of it.
LEMMA GrownMore ==
  ASSUME NEW f, NEW g, NEW h, Grown(f, g), Grown(g, h)
  PROVE  Grown(f, h)
<1>1. DOMAIN f \subseteq DOMAIN g /\ DOMAIN g \subseteq DOMAIN h
  BY DEF Grown
<1>2. ASSUME NEW i \in DOMAIN f PROVE Same(f, h, i)
  <2>1. Same(f, g, i) /\ Same(g, h, i)
    BY <1>1 DEF Grown
  <2> QED
    BY <2>1 DEF Same
<1>3. ASSUME NEW i \in DOMAIN h \ DOMAIN f PROVE h[i].is \in {"part", "descriptor"}
  <2>1. CASE i \in DOMAIN g
    BY <1>3, <2>1 DEF Grown, Same
  <2>2. CASE i \notin DOMAIN g
    BY <1>3, <2>2 DEF Grown
  <2> QED
    BY <2>1, <2>2
<1> QED
  BY <1>1, <1>2, <1>3 DEF Grown

\* g is f with a new node c below p.
Made(f, is, p, own, c, g) ==
  /\ c \in Nat \ {0} /\ c \notin DOMAIN f /\ DOMAIN g = DOMAIN f \cup {c}
  /\ g[c].is = is /\ g[c].parent = p /\ g[c].data = own
  /\ \A i \in DOMAIN f : g[i].is = f[i].is /\ g[i].parent = f[i].parent /\ g[i].data = f[i].data

\* The constructor of a linked decoder leaves a tree.
LEMMA NewNodeIs ==
  ASSUME NEW f, NEW loose, Tree(f, loose), NEW p \in DOMAIN f, NEW is \in DOMAIN Level, is # "decode",
         Level[f[p].is] < Level[is], NEW own, DOMAIN own = Fields[is], Empty(own)
  PROVE  Tree(New(f, is, p, own), loose) /\ Made(f, is, p, own, Fresh(f), New(f, is, p, own))
<1>1. PICK c : c = Fresh(f)
  OBVIOUS
<1>2. c \in Nat \ {0} /\ c \notin DOMAIN f
  BY <1>1, FreshIs DEF Tree
<1>3. PICK h : h = Put(f, c, Decoder(is, p, own))
  OBVIOUS
<1>4. PICK new : new = loose \cup {c}
  OBVIOUS
<1>5. Puts(f, loose, c, is, p, own, new, h)
  BY <1>3, <1>4 DEF Puts
<1>6. /\ Tree(h, new) /\ Includes(f, c, h)
      /\ h[c].is = is /\ h[c].parent = p /\ h[c].data = own
  BY <1>2, <1>5, PutIs
<1>7. DOMAIN h = DOMAIN f \cup {c} /\ \A i \in DOMAIN f : h[i] = f[i]
  BY <1>6 DEF Includes
<1>8. c \in DOMAIN h /\ p \in DOMAIN h /\ c # p /\ c \in new
  BY <1>2, <1>4, <1>7
<1>9. Shaped(h, c) /\ Shaped(h, p)
  BY <1>6, <1>8 DEF Tree
<1>10. PICK g : g = linkChild(h, p, c)
  OBVIOUS
<1>11. Links(h, p, c, g)
  BY <1>8, <1>9, <1>10, LinkEdits
<1>12. Tree(g, new \ {c})
  BY <1>6, <1>8, <1>11, LinkIs
<1>13. new \ {c} = loose
  BY <1>2, <1>4 DEF Tree
<1>14. Made(f, is, p, own, c, g)
  BY <1>2, <1>6, <1>7, <1>11 DEF Made, Links
<1>15. New(f, is, p, own) = g
  BY <1>1, <1>3, <1>10 DEF New
<1>16. Tree(g, loose)
  BY <1>12, <1>13
<1> QED
  BY <1>1, <1>14, <1>15, <1>16

\* A descriptor leaves a tree, and it is all that is new.
LEMMA AddDescriptorIs ==
  ASSUME NEW f, NEW loose, Tree(f, loose), NEW p \in DOMAIN f, "descriptors" \in Fields[f[p].is], NEW tag
  PROVE  Tree(AddDescriptor(f, p, tag), loose) /\ Grown(f, AddDescriptor(f, p, tag))
<1>1. CASE tag = "unknown"
  BY <1>1, GrownSelf DEF AddDescriptor
<1>2. CASE tag # "unknown"
  <2>1. PICK c : c = Fresh(f)
    OBVIOUS
  <2>2. PICK d : d = [tag |-> tag]
    OBVIOUS
  <2>3. PICK g : g = New(f, "descriptor", p, d)
    OBVIOUS
  <2>4. DOMAIN d = {"tag"}
    BY <2>2
  <2>5. Shaped(f, p)
    BY DEF Tree
  <2>6. f[p].is \in {"network", "table", "part"} /\ f[p].is \in DOMAIN Level
    BY <2>5 DEF Shaped, Fields, Level
  <2>7. DOMAIN d = Fields["descriptor"] /\ Empty(d)
    BY <2>4 DEF Fields, Empty
  <2>8. "descriptor" \in DOMAIN Level /\ Level[f[p].is] < Level["descriptor"]
    BY <2>6 DEF Level
  <2>9. Tree(g, loose) /\ Made(f, "descriptor", p, d, c, g)
    BY <2>1, <2>3, <2>7, <2>8, NewNodeIs
  <2>10. /\ c \in Nat /\ c \notin DOMAIN f /\ DOMAIN g = DOMAIN f \cup {c}
         /\ g[c].is = "descriptor" /\ g[c].parent = p
         /\ \A i \in DOMAIN f : g[i].is = f[i].is /\ g[i].parent = f[i].parent /\ g[i].data = f[i].data
    BY <2>9 DEF Made
  <2>11. Shaped(g, p) /\ p \in DOMAIN g /\ Keeps(g, loose, p, g[p].data)
    BY <2>9, <2>10 DEF Tree
  <2>12. DOMAIN g[p].data = Fields[f[p].is] /\ DOMAIN g[p] = NodeFields
    BY <2>10, <2>11 DEF Shaped
  <2>13. PICK descriptors : descriptors = Append(g[p].data.descriptors, c)
    OBVIOUS
  <2>14. PICK own : own = [g[p].data EXCEPT !["descriptors"] = descriptors]
    OBVIOUS
  <2>15. Edits(g[p].data, "descriptors", descriptors, own)
    BY <2>14 DEF Edits
  <2>16. Edited(g[p].data, "descriptors", descriptors, own)
    BY <2>12, <2>15, EditIs
  <2>17. /\ DOMAIN own = Fields[g[p].is] /\ own.descriptors = descriptors
         /\ \A x \in DOMAIN own \ {"descriptors"} : own[x] = g[p].data[x]
    BY <2>10, <2>12, <2>16 DEF Edited
  <2>18. KeepsDescriptors(g, loose, p, descriptors)
    <3>1. KeepsDescriptors(g, loose, p, g[p].data.descriptors)
      BY <2>11, <2>12 DEF Keeps
    <3>2. Mine(g, loose, p, c)
      BY <2>10 DEF Mine, Tree
    <3>3. PICK s : s = g[p].data.descriptors
      OBVIOUS
    <3>4. PICK n : n = Len(s)
      OBVIOUS
    <3>5. s \in Seq(Nat) /\ n \in Nat /\ DOMAIN s = 1 .. n
      BY <3>1, <3>3, <3>4 DEF KeepsDescriptors
    <3>6. descriptors = Append(s, c)
      BY <2>13, <3>3
    <3>7. /\ descriptors \in Seq(Nat) /\ DOMAIN descriptors = 1 .. n + 1
          /\ \A y \in 1 .. n : descriptors[y] = s[y]
          /\ descriptors[n + 1] = c
      BY <2>10, <3>4, <3>5, <3>6, AppendProperties
    <3>8. \A y \in 1 .. n : Mine(g, loose, p, s[y])
      BY <3>1, <3>3, <3>5 DEF KeepsDescriptors
    <3>9. \A y \in 1 .. n + 1 : y \in 1 .. n \/ y = n + 1
      BY <3>5
    <3> QED
      BY <3>2, <3>7, <3>8, <3>9 DEF KeepsDescriptors
  <2>19. Keeps(g, loose, p, own)
    <3>1. Keeps(g, loose, p, g[p].data)
      BY <2>11
    <3>2. /\ "store" \in DOMAIN own => "store" \in DOMAIN g[p].data /\ own.store = g[p].data.store
          /\ "services" \in DOMAIN own => "services" \in DOMAIN g[p].data /\ own.services = g[p].data.services
      BY <2>10, <2>12, <2>17
    <3> QED
      BY <2>17, <2>18, <3>1, <3>2 DEF Keeps
  <2>20. PICK r : r = [g EXCEPT ![p].data = own]
    OBVIOUS
  <2>21. Changes(g, p, own, r)
    BY <2>11, <2>20, ChangeEdits
  <2>22. Tree(r, loose)
    BY <2>9, <2>11, <2>17, <2>19, <2>21, ChangeIs
  <2>23. AddDescriptor(f, p, tag) = r
    BY <1>2, <2>1, <2>2, <2>3, <2>13, <2>14, <2>20 DEF AddDescriptor
  <2>24. Grown(f, r)
    <3>1. DOMAIN r = DOMAIN f \cup {c}
      BY <2>10, <2>21 DEF Changes
    <3>2. ASSUME NEW i \in DOMAIN f PROVE Same(f, r, i)
      <4>1. g[i].is = f[i].is /\ g[i].parent = f[i].parent /\ g[i].data = f[i].data /\ i \in DOMAIN g
        BY <2>10
      <4>2. CASE i = p
        <5>1. r[p].is = g[p].is /\ r[p].parent = g[p].parent /\ r[p].data = own
          BY <2>21 DEF Changes, NodeFields
        <5> QED
          BY <2>10, <2>12, <2>17, <4>1, <4>2, <5>1 DEF Same
      <4>3. CASE i # p
        <5>1. r[i] = g[i]
          BY <2>21, <4>1, <4>3 DEF Changes
        <5> QED
          BY <4>1, <5>1 DEF Same
      <4> QED
        BY <4>2, <4>3
    <3>3. r[c].is = "descriptor"
      <4>1. r[c] = g[c]
        BY <2>10, <2>21 DEF Changes
      <4> QED
        BY <2>10, <4>1
    <3> QED
      BY <3>1, <3>2, <3>3 DEF Grown
  <2> QED
    BY <2>22, <2>23, <2>24
<1> QED
  BY <1>1, <1>2

-----------------------------------------------------------------------------
(* The folds, step by step.                                                *)

\* The greatest of some of the first n numbers, which a fold takes off last.
LEMMA Largest ==
  ASSUME NEW n \in Nat \ {0}, NEW s \in SUBSET (1 .. n)
  PROVE  /\ n \in s => Max(s) = n
         /\ s # {} => s \ {Max(s)} \in SUBSET (1 .. n - 1)
<1>1. ASSUME n \in s PROVE Max(s) = n
  <2>1. \A y \in s : y \in Int /\ n >= y
    OBVIOUS
  <2>2. \A x \in s : (\A y \in s : x >= y) => x = n
    BY <1>1, <2>1
  <2> QED
    BY <1>1, <2>1, <2>2 DEF Max
<1>2. ASSUME NEW y \in s \ {Max(s)} PROVE y \in 1 .. n - 1
  <2>1. y \in 1 .. n /\ y # n
    BY <1>1
  <2> QED
    BY <2>1
<1> QED
  BY <1>1, <1>2

\* The prefixes of a sequence, by their indices.
LEMMA Initial ==
  ASSUME NEW n \in Nat \ {0}
  PROVE  Max(1 .. n) = n /\ (1 .. n) \ {n} = 1 .. n - 1
<1>1. Max(1 .. n) = n
  BY Largest
<1> QED
  BY <1>1

\* The folds of a table, named: its parts, and the descriptors of a network once for each part.
Parted(f, t, s, parts) == FoldLeft(LAMBDA h, part : AddPart(h, t, s), f, parts)
Repeated(f, n, tags, parts) == FoldLeft(LAMBDA g, part : DecodeDescriptors(g, n, tags), f, parts)

\* Every prefix of the descriptors leaves a tree.
LEMMA DescriptorSteps ==
  ASSUME NEW p, NEW b, NEW S, NEW seq \in Seq(S)
  PROVE  \E h : /\ h[0] = b /\ h[Len(seq)] = DecodeDescriptors(b, p, seq)
                /\ \A k \in 1 .. Len(seq) : h[k] = AddDescriptor(h[k - 1], p, seq[k])
<1> DEFINE n == Len(seq)
<1>1. n \in Nat /\ DOMAIN seq = 1 .. n
  OBVIOUS
<1> HIDE DEF n
<1> USE <1>1
<1> DEFINE F(g, s) == IF s = {} THEN b ELSE AddDescriptor(g[s \ {Max(s)}], p, seq[Max(s)])
           Ok(g, k) == g = [s \in SUBSET (1 .. k) |-> F(g, s)]
           T == {k \in Nat : \E g : Ok(g, k)}
<1>2. 0 \in T
  <2> DEFINE g == [s \in SUBSET (1 .. 0) |-> b]
  <2>1. SUBSET (1 .. 0) = {{}}
    OBVIOUS
  <2>2. Ok(g, 0)
    BY <2>1
  <2> QED
    BY <2>2
<1>3. ASSUME NEW k \in T PROVE k + 1 \in T
  <2>1. PICK g : Ok(g, k)
    OBVIOUS
  <2> DEFINE h == [s \in SUBSET (1 .. k + 1) |-> F(g, s)]
  <2>2. ASSUME NEW s \in SUBSET (1 .. k) PROVE h[s] = g[s]
    <3>1. s \in SUBSET (1 .. k + 1)
      OBVIOUS
    <3> QED
      BY <2>1, <3>1
  <2>3. ASSUME NEW s \in SUBSET (1 .. k + 1) PROVE F(g, s) = F(h, s)
    <3>1. k + 1 \in Nat \ {0} /\ (k + 1) - 1 = k
      OBVIOUS
    <3>2. s # {} => s \ {Max(s)} \in SUBSET (1 .. k)
      BY <3>1, Largest
    <3> HIDE DEF h
    <3> QED
      BY <2>2, <3>2
  <2>4. Ok(h, k + 1)
    BY <2>3
  <2>5. \E f : Ok(f, k + 1)
    <3> HIDE DEF h, Ok
    <3> QED
      BY <2>4
  <2> HIDE DEF h, Ok
  <2> QED
    BY <2>5
<1>4. T = Nat
  <2>1. T \in SUBSET Nat
    OBVIOUS
  <2> HIDE DEF T
  <2> QED
    BY <1>2, <1>3, <2>1, Induct
<1> DEFINE iter == CHOOSE g : g = [s \in SUBSET DOMAIN seq |-> F(g, s)]
<1>5. iter = [s \in SUBSET DOMAIN seq |-> F(iter, s)]
  <2>1. PICK g : Ok(g, n)
    BY <1>4
  <2>2. g = [s \in SUBSET DOMAIN seq |-> F(g, s)]
    BY <2>1
  <2> QED
    BY <2>2
<1>6. iter[DOMAIN seq] = DecodeDescriptors(b, p, seq)
  BY DEF DecodeDescriptors, FoldLeft, MapThenFoldSet
<1> DEFINE h == [k \in 0 .. n |-> iter[1 .. k]]
<1> HIDE DEF iter
<1>7. h[0] = b /\ h[n] = DecodeDescriptors(b, p, seq)
  <2>1. {} \in SUBSET DOMAIN seq /\ 1 .. 0 = {}
    OBVIOUS
  <2>2. iter[{}] = b
    BY <1>5, <2>1
  <2>3. h[0] = iter[1 .. 0] /\ h[n] = iter[1 .. n]
    OBVIOUS
  <2> HIDE DEF h
  <2> QED
    BY <1>6, <2>1, <2>2, <2>3
<1>8. ASSUME NEW k \in 1 .. n PROVE h[k] = AddDescriptor(h[k - 1], p, seq[k])
  <2>1. Max(1 .. k) = k /\ (1 .. k) \ {k} = 1 .. k - 1
    BY Initial
  <2>2. k \in 1 .. k /\ \A i \in 1 .. k : i \in DOMAIN seq
    OBVIOUS
  <2>3. iter[1 .. k] = F(iter, 1 .. k)
    BY <1>5, <2>2
  <2>4. iter[1 .. k] = AddDescriptor(iter[1 .. k - 1], p, seq[k])
    BY <2>1, <2>2, <2>3
  <2>5. k \in 0 .. n /\ k - 1 \in 0 .. n
    OBVIOUS
  <2>6. h[k] = iter[1 .. k] /\ h[k - 1] = iter[1 .. k - 1]
    BY <2>5
  <2> QED
    BY <2>4, <2>6
<1> QED
  BY <1>7, <1>8 DEF n

\* And every prefix of the parts.
LEMMA PartSteps ==
  ASSUME NEW t, NEW sec, NEW b, NEW S, NEW seq \in Seq(S)
  PROVE  \E h : /\ h[0] = b /\ h[Len(seq)] = Parted(b, t, sec, seq)
                /\ \A k \in 1 .. Len(seq) : h[k] = AddPart(h[k - 1], t, sec)
<1> DEFINE n == Len(seq)
<1>1. n \in Nat /\ DOMAIN seq = 1 .. n
  OBVIOUS
<1> HIDE DEF n
<1> USE <1>1
<1> DEFINE F(g, s) == IF s = {} THEN b ELSE AddPart(g[s \ {Max(s)}], t, sec)
           Ok(g, k) == g = [s \in SUBSET (1 .. k) |-> F(g, s)]
           T == {k \in Nat : \E g : Ok(g, k)}
<1>2. 0 \in T
  <2> DEFINE g == [s \in SUBSET (1 .. 0) |-> b]
  <2>1. SUBSET (1 .. 0) = {{}}
    OBVIOUS
  <2>2. Ok(g, 0)
    BY <2>1
  <2> QED
    BY <2>2
<1>3. ASSUME NEW k \in T PROVE k + 1 \in T
  <2>1. PICK g : Ok(g, k)
    OBVIOUS
  <2> DEFINE h == [s \in SUBSET (1 .. k + 1) |-> F(g, s)]
  <2>2. ASSUME NEW s \in SUBSET (1 .. k) PROVE h[s] = g[s]
    <3>1. s \in SUBSET (1 .. k + 1)
      OBVIOUS
    <3> QED
      BY <2>1, <3>1
  <2>3. ASSUME NEW s \in SUBSET (1 .. k + 1) PROVE F(g, s) = F(h, s)
    <3>1. k + 1 \in Nat \ {0} /\ (k + 1) - 1 = k
      OBVIOUS
    <3>2. s # {} => s \ {Max(s)} \in SUBSET (1 .. k)
      BY <3>1, Largest
    <3> HIDE DEF h
    <3> QED
      BY <2>2, <3>2
  <2>4. Ok(h, k + 1)
    BY <2>3
  <2>5. \E f : Ok(f, k + 1)
    <3> HIDE DEF h, Ok
    <3> QED
      BY <2>4
  <2> HIDE DEF h, Ok
  <2> QED
    BY <2>5
<1>4. T = Nat
  <2>1. T \in SUBSET Nat
    OBVIOUS
  <2> HIDE DEF T
  <2> QED
    BY <1>2, <1>3, <2>1, Induct
<1> DEFINE iter == CHOOSE g : g = [s \in SUBSET DOMAIN seq |-> F(g, s)]
<1>5. iter = [s \in SUBSET DOMAIN seq |-> F(iter, s)]
  <2>1. PICK g : Ok(g, n)
    BY <1>4
  <2>2. g = [s \in SUBSET DOMAIN seq |-> F(g, s)]
    BY <2>1
  <2> QED
    BY <2>2
<1>6. iter[DOMAIN seq] = Parted(b, t, sec, seq)
  BY DEF Parted, FoldLeft, MapThenFoldSet
<1> DEFINE h == [k \in 0 .. n |-> iter[1 .. k]]
<1> HIDE DEF iter
<1>7. h[0] = b /\ h[n] = Parted(b, t, sec, seq)
  <2>1. {} \in SUBSET DOMAIN seq /\ 1 .. 0 = {}
    OBVIOUS
  <2>2. iter[{}] = b
    BY <1>5, <2>1
  <2>3. h[0] = iter[1 .. 0] /\ h[n] = iter[1 .. n]
    OBVIOUS
  <2> HIDE DEF h
  <2> QED
    BY <1>6, <2>1, <2>2, <2>3
<1>8. ASSUME NEW k \in 1 .. n PROVE h[k] = AddPart(h[k - 1], t, sec)
  <2>1. Max(1 .. k) = k /\ (1 .. k) \ {k} = 1 .. k - 1
    BY Initial
  <2>2. k \in 1 .. k /\ \A i \in 1 .. k : i \in DOMAIN seq
    OBVIOUS
  <2>3. iter[1 .. k] = F(iter, 1 .. k)
    BY <1>5, <2>2
  <2>4. iter[1 .. k] = AddPart(iter[1 .. k - 1], t, sec)
    BY <2>1, <2>2, <2>3
  <2>5. k \in 0 .. n /\ k - 1 \in 0 .. n
    OBVIOUS
  <2>6. h[k] = iter[1 .. k] /\ h[k - 1] = iter[1 .. k - 1]
    BY <2>5
  <2> QED
    BY <2>4, <2>6
<1> QED
  BY <1>7, <1>8 DEF n

\* And every repetition.
LEMMA RepeatSteps ==
  ASSUME NEW w, NEW tags, NEW b, NEW S, NEW seq \in Seq(S)
  PROVE  \E h : /\ h[0] = b /\ h[Len(seq)] = Repeated(b, w, tags, seq)
                /\ \A k \in 1 .. Len(seq) : h[k] = DecodeDescriptors(h[k - 1], w, tags)
<1> DEFINE n == Len(seq)
<1>1. n \in Nat /\ DOMAIN seq = 1 .. n
  OBVIOUS
<1> HIDE DEF n
<1> USE <1>1
<1> DEFINE F(g, s) == IF s = {} THEN b ELSE DecodeDescriptors(g[s \ {Max(s)}], w, tags)
           Ok(g, k) == g = [s \in SUBSET (1 .. k) |-> F(g, s)]
           T == {k \in Nat : \E g : Ok(g, k)}
<1>2. 0 \in T
  <2> DEFINE g == [s \in SUBSET (1 .. 0) |-> b]
  <2>1. SUBSET (1 .. 0) = {{}}
    OBVIOUS
  <2>2. Ok(g, 0)
    BY <2>1
  <2> QED
    BY <2>2
<1>3. ASSUME NEW k \in T PROVE k + 1 \in T
  <2>1. PICK g : Ok(g, k)
    OBVIOUS
  <2> DEFINE h == [s \in SUBSET (1 .. k + 1) |-> F(g, s)]
  <2>2. ASSUME NEW s \in SUBSET (1 .. k) PROVE h[s] = g[s]
    <3>1. s \in SUBSET (1 .. k + 1)
      OBVIOUS
    <3> QED
      BY <2>1, <3>1
  <2>3. ASSUME NEW s \in SUBSET (1 .. k + 1) PROVE F(g, s) = F(h, s)
    <3>1. k + 1 \in Nat \ {0} /\ (k + 1) - 1 = k
      OBVIOUS
    <3>2. s # {} => s \ {Max(s)} \in SUBSET (1 .. k)
      BY <3>1, Largest
    <3> HIDE DEF h
    <3> QED
      BY <2>2, <3>2
  <2>4. Ok(h, k + 1)
    BY <2>3
  <2>5. \E f : Ok(f, k + 1)
    <3> HIDE DEF h, Ok
    <3> QED
      BY <2>4
  <2> HIDE DEF h, Ok
  <2> QED
    BY <2>5
<1>4. T = Nat
  <2>1. T \in SUBSET Nat
    OBVIOUS
  <2> HIDE DEF T
  <2> QED
    BY <1>2, <1>3, <2>1, Induct
<1> DEFINE iter == CHOOSE g : g = [s \in SUBSET DOMAIN seq |-> F(g, s)]
<1>5. iter = [s \in SUBSET DOMAIN seq |-> F(iter, s)]
  <2>1. PICK g : Ok(g, n)
    BY <1>4
  <2>2. g = [s \in SUBSET DOMAIN seq |-> F(g, s)]
    BY <2>1
  <2> QED
    BY <2>2
<1>6. iter[DOMAIN seq] = Repeated(b, w, tags, seq)
  BY DEF Repeated, FoldLeft, MapThenFoldSet
<1> DEFINE h == [k \in 0 .. n |-> iter[1 .. k]]
<1> HIDE DEF iter
<1>7. h[0] = b /\ h[n] = Repeated(b, w, tags, seq)
  <2>1. {} \in SUBSET DOMAIN seq /\ 1 .. 0 = {}
    OBVIOUS
  <2>2. iter[{}] = b
    BY <1>5, <2>1
  <2>3. h[0] = iter[1 .. 0] /\ h[n] = iter[1 .. n]
    OBVIOUS
  <2> HIDE DEF h
  <2> QED
    BY <1>6, <2>1, <2>2, <2>3
<1>8. ASSUME NEW k \in 1 .. n PROVE h[k] = DecodeDescriptors(h[k - 1], w, tags)
  <2>1. Max(1 .. k) = k /\ (1 .. k) \ {k} = 1 .. k - 1
    BY Initial
  <2>2. k \in 1 .. k /\ \A i \in 1 .. k : i \in DOMAIN seq
    OBVIOUS
  <2>3. iter[1 .. k] = F(iter, 1 .. k)
    BY <1>5, <2>2
  <2>4. iter[1 .. k] = DecodeDescriptors(iter[1 .. k - 1], w, tags)
    BY <2>1, <2>2, <2>3
  <2>5. k \in 0 .. n /\ k - 1 \in 0 .. n
    OBVIOUS
  <2>6. h[k] = iter[1 .. k] /\ h[k - 1] = iter[1 .. k - 1]
    BY <2>5
  <2> QED
    BY <2>4, <2>6
<1> QED
  BY <1>7, <1>8 DEF n

-----------------------------------------------------------------------------
(* Descriptors and parts, as many as there are.                            *)

\* A section, as the assumption has them.
Section(s) ==
  /\ DOMAIN s = SectionFields /\ s.class \in DOMAIN Classes /\ s.mux \in Nat \ {0}
  /\ s.parts \in Seq(Range(s.parts)) /\ s.tags \in Seq(Range(s.tags))

\* What a step of a fold keeps.
Stays(f, loose, g) == Tree(g, loose) /\ Grown(f, g)

\* Two such steps are one.
LEMMA StaysMore ==
  ASSUME NEW f, NEW loose, NEW g, NEW h, Stays(f, loose, g), Stays(g, loose, h)
  PROVE  Stays(f, loose, h)
BY GrownMore DEF Stays

\* Induction on the places of a sequence.
LEMMA Places ==
  ASSUME NEW n \in Nat, NEW T \in SUBSET Nat, 0 \in T, \A k \in 1 .. n : k - 1 \in T => k \in T
  PROVE  n \in T
<1> DEFINE U == {k \in Nat : k <= n => k \in T}
<1>1. 0 \in U
  OBVIOUS
<1>2. ASSUME NEW k \in U PROVE k + 1 \in U
  <2>1. k + 1 <= n => k + 1 \in 1 .. n /\ (k + 1) - 1 = k /\ k <= n
    OBVIOUS
  <2> QED
    BY <2>1
<1>3. U \in SUBSET Nat
  OBVIOUS
<1>4. U = Nat
  <2> HIDE DEF U
  <2> QED
    BY <1>1, <1>2, <1>3, Induct
<1> QED
  BY <1>4

\* Descriptors leave a tree.
LEMMA DecodeIs ==
  ASSUME NEW f, NEW loose, Tree(f, loose), NEW p \in DOMAIN f, "descriptors" \in Fields[f[p].is],
         NEW S, NEW tags \in Seq(S)
  PROVE  Stays(f, loose, DecodeDescriptors(f, p, tags))
<1>1. PICK n : n = Len(tags)
  OBVIOUS
<1>2. PICK h : /\ h[0] = f /\ h[n] = DecodeDescriptors(f, p, tags)
               /\ \A k \in 1 .. n : h[k] = AddDescriptor(h[k - 1], p, tags[k])
  BY <1>1, DescriptorSteps, SMTT(40)
<1> DEFINE T == {k \in Nat : Stays(f, loose, h[k])}
<1>3. 0 \in T
  BY <1>2, GrownSelf DEF Stays
<1>4. ASSUME NEW k \in 1 .. n, k - 1 \in T PROVE k \in T
  <2>1. PICK g : g = h[k - 1]
    OBVIOUS
  <2>2. Stays(f, loose, g)
    BY <1>4, <2>1
  <2>3. Tree(g, loose) /\ p \in DOMAIN g /\ g[p].is = f[p].is
    BY <2>2 DEF Stays, Grown, Same
  <2>4. Stays(g, loose, AddDescriptor(g, p, tags[k]))
    BY <2>3, AddDescriptorIs DEF Stays
  <2>5. Stays(f, loose, AddDescriptor(g, p, tags[k]))
    BY <2>2, <2>4, StaysMore
  <2>6. k \in Nat
    BY <1>1
  <2> QED
    BY <1>2, <2>1, <2>5, <2>6
<1>5. n \in Nat
  BY <1>1
<1>6. n \in T
  <2>1. T \in SUBSET Nat
    OBVIOUS
  <2> HIDE DEF T
  <2> QED
    BY <1>3, <1>4, <1>5, <2>1, Places
<1> QED
  BY <1>2, <1>6

\* What descriptors a table or a part has is a sequence.
LEMMA TagsType ==
  ASSUME NEW s, Section(s), NEW of
  PROVE  Tags(s, of) \in Seq(Range(s.tags))
<1>1. PICK S : S = Range(s.tags)
  OBVIOUS
<1>2. s.tags \in Seq(S)
  BY <1>1 DEF Section
<1>3. <<>> \in Seq(S)
  OBVIOUS
<1>4. Tags(s, of) \in Seq(S)
  BY <1>2, <1>3 DEF Tags
<1> QED
  BY <1>1, <1>4

\* A part with its descriptors leaves a tree.
LEMMA AddPartIs ==
  ASSUME NEW f, NEW loose, Tree(f, loose), NEW t \in DOMAIN f, f[t].is = "table", NEW s, Section(s)
  PROVE  Stays(f, loose, AddPart(f, t, s))
<1>1. PICK c : c = Fresh(f)
  OBVIOUS
<1>2. PICK d : d = [descriptors |-> <<>>]
  OBVIOUS
<1>3. PICK g : g = New(f, "part", t, d)
  OBVIOUS
<1>4. DOMAIN d = Fields["part"] /\ Empty(d)
  <2>1. DOMAIN d = {"descriptors"} /\ d.descriptors = <<>>
    BY <1>2
  <2> QED
    BY <2>1 DEF Fields, Empty
<1>5. "part" \in DOMAIN Level /\ Level[f[t].is] < Level["part"]
  BY DEF Level
<1>6. Tree(g, loose) /\ Made(f, "part", t, d, c, g)
  BY <1>1, <1>3, <1>4, <1>5, NewNodeIs
<1>7. c \in DOMAIN g /\ g[c].is = "part"
  BY <1>6 DEF Made
<1>8. Grown(f, g)
  BY <1>6 DEF Made, Grown, Same
<1>9. PICK tags : tags = Tags(s, "part")
  OBVIOUS
<1>10. PICK S : S = Range(s.tags)
  OBVIOUS
<1>11. tags \in Seq(S)
  BY <1>9, <1>10, TagsType
<1>12. "descriptors" \in Fields[g[c].is]
  BY <1>7 DEF Fields
<1>13. Stays(g, loose, DecodeDescriptors(g, c, tags))
  BY <1>6, <1>7, <1>11, <1>12, DecodeIs
<1>14. Stays(f, loose, g)
  BY <1>6, <1>8 DEF Stays
<1>15. Stays(f, loose, DecodeDescriptors(g, c, tags))
  BY <1>13, <1>14, StaysMore
<1>16. AddPart(f, t, s) = DecodeDescriptors(g, c, tags)
  BY <1>1, <1>2, <1>3, <1>9 DEF AddPart
<1> QED
  BY <1>15, <1>16

\* And so do all parts of a section.
LEMMA PartedIs ==
  ASSUME NEW f, NEW loose, Tree(f, loose), NEW t \in DOMAIN f, f[t].is = "table", NEW s, Section(s),
         NEW S, NEW parts \in Seq(S)
  PROVE  Stays(f, loose, Parted(f, t, s, parts))
<1>1. PICK n : n = Len(parts)
  OBVIOUS
<1>2. PICK h : /\ h[0] = f /\ h[n] = Parted(f, t, s, parts)
               /\ \A k \in 1 .. n : h[k] = AddPart(h[k - 1], t, s)
  BY <1>1, PartSteps
<1> DEFINE T == {k \in Nat : Stays(f, loose, h[k])}
<1>3. 0 \in T
  BY <1>2, GrownSelf DEF Stays
<1>4. ASSUME NEW k \in 1 .. n, k - 1 \in T PROVE k \in T
  <2>1. PICK g : g = h[k - 1]
    OBVIOUS
  <2>2. Stays(f, loose, g)
    BY <1>4, <2>1
  <2>3. Tree(g, loose) /\ t \in DOMAIN g /\ g[t].is = "table"
    BY <2>2 DEF Stays, Grown, Same
  <2>4. Stays(g, loose, AddPart(g, t, s))
    BY <2>3, AddPartIs
  <2>5. Stays(f, loose, AddPart(g, t, s))
    BY <2>2, <2>4, StaysMore
  <2>6. k \in Nat
    BY <1>1
  <2> QED
    BY <1>2, <2>1, <2>5, <2>6
<1>5. n \in Nat
  BY <1>1
<1>6. n \in T
  <2>1. T \in SUBSET Nat
    OBVIOUS
  <2> HIDE DEF T
  <2> QED
    BY <1>3, <1>4, <1>5, <2>1, Places
<1> QED
  BY <1>2, <1>6

\* And the descriptors that a network gets for every part.
LEMMA RepeatedIs ==
  ASSUME NEW f, NEW loose, Tree(f, loose), NEW w \in DOMAIN f, "descriptors" \in Fields[f[w].is],
         NEW R, NEW tags \in Seq(R), NEW S, NEW parts \in Seq(S)
  PROVE  Stays(f, loose, Repeated(f, w, tags, parts))
<1>1. PICK n : n = Len(parts)
  OBVIOUS
<1>2. PICK h : /\ h[0] = f /\ h[n] = Repeated(f, w, tags, parts)
               /\ \A k \in 1 .. n : h[k] = DecodeDescriptors(h[k - 1], w, tags)
  BY <1>1, RepeatSteps
<1> DEFINE T == {k \in Nat : Stays(f, loose, h[k])}
<1>3. 0 \in T
  BY <1>2, GrownSelf DEF Stays
<1>4. ASSUME NEW k \in 1 .. n, k - 1 \in T PROVE k \in T
  <2>1. PICK g : g = h[k - 1]
    OBVIOUS
  <2>2. Stays(f, loose, g)
    BY <1>4, <2>1
  <2>3. Tree(g, loose) /\ w \in DOMAIN g /\ g[w].is = f[w].is
    BY <2>2 DEF Stays, Grown, Same
  <2>4. Stays(g, loose, DecodeDescriptors(g, w, tags))
    BY <2>3, DecodeIs
  <2>5. Stays(f, loose, DecodeDescriptors(g, w, tags))
    BY <2>2, <2>4, StaysMore
  <2>6. k \in Nat
    BY <1>1
  <2> QED
    BY <1>2, <2>1, <2>5, <2>6
<1>5. n \in Nat
  BY <1>1
<1>6. n \in T
  <2>1. T \in SUBSET Nat
    OBVIOUS
  <2> HIDE DEF T
  <2> QED
    BY <1>3, <1>4, <1>5, <2>1, Places
<1> QED
  BY <1>2, <1>6

-----------------------------------------------------------------------------
(* Storing a section.                                                      *)

\* g is f with the field x of p another one.
FieldSet(f, p, x, y, g) ==
  /\ DOMAIN g = DOMAIN f
  /\ \A i \in DOMAIN f : g[i].is = f[i].is /\ g[i].parent = f[i].parent /\ DOMAIN g[i].data = DOMAIN f[i].data
  /\ \A i \in DOMAIN f \ {p} : g[i].data = f[i].data
  /\ Edited(f[p].data, x, y, g[p].data)

\* The same, as an assignment.
FieldEdits(f, p, x, y, g) == g = [f EXCEPT ![p].data = [f[p].data EXCEPT ![x] = y]]

\* Another value of one field leaves a tree, if it keeps children of the decoder.
LEMMA FieldIs ==
  ASSUME NEW f, NEW loose, Tree(f, loose), NEW p \in DOMAIN f, NEW x \in DOMAIN f[p].data, NEW y,
         x = "store" => KeepsTables(f, loose, p, y), x = "services" => KeepsServices(f, loose, p, y),
         x # "descriptors", NEW g, FieldEdits(f, p, x, y, g)
  PROVE  Tree(g, loose) /\ FieldSet(f, p, x, y, g)
<1>1. PICK own : own = [f[p].data EXCEPT ![x] = y]
  OBVIOUS
<1>2. Edits(f[p].data, x, y, own)
  BY <1>1 DEF Edits
<1>3. Edited(f[p].data, x, y, own)
  BY <1>2, EditIs
<1>4. Shaped(f, p) /\ Keeps(f, loose, p, f[p].data)
  BY DEF Tree
<1>5. g = [f EXCEPT ![p].data = own]
  BY <1>1 DEF FieldEdits
<1>6. Changes(f, p, own, g)
  BY <1>4, <1>5, ChangeEdits
<1>7. /\ DOMAIN own = DOMAIN f[p].data /\ own[x] = y
      /\ \A z \in DOMAIN f[p].data \ {x} : own[z] = f[p].data[z]
  BY <1>3 DEF Edited
<1>8. Keeps(f, loose, p, own)
  <2>1. "store" \in DOMAIN own => KeepsTables(f, loose, p, own.store)
    <3>1. CASE x = "store"
      BY <1>7, <3>1
    <3>2. CASE x # "store"
      BY <1>4, <1>7, <3>2 DEF Keeps
    <3> QED
      BY <3>1, <3>2
  <2>2. "services" \in DOMAIN own => KeepsServices(f, loose, p, own.services)
    <3>1. CASE x = "services"
      BY <1>7, <3>1
    <3>2. CASE x # "services"
      BY <1>4, <1>7, <3>2 DEF Keeps
    <3> QED
      BY <3>1, <3>2
  <2>3. "descriptors" \in DOMAIN own => KeepsDescriptors(f, loose, p, own.descriptors)
    BY <1>4, <1>7 DEF Keeps
  <2> QED
    BY <2>1, <2>2, <2>3 DEF Keeps
<1>9. DOMAIN own = Fields[f[p].is]
  BY <1>4, <1>7 DEF Shaped
<1>10. Tree(g, loose)
  BY <1>6, <1>8, <1>9, ChangeIs
<1>11. FieldSet(f, p, x, y, g)
  <2>1. DOMAIN g = DOMAIN f /\ g[p].data = own /\ \A i \in DOMAIN f \ {p} : g[i] = f[i]
    BY <1>6 DEF Changes
  <2>2. g[p].is = f[p].is /\ g[p].parent = f[p].parent
    BY <1>6 DEF Changes, NodeFields
  <2>3. ASSUME NEW i \in DOMAIN f
        PROVE  g[i].is = f[i].is /\ g[i].parent = f[i].parent /\ DOMAIN g[i].data = DOMAIN f[i].data
    <3>1. CASE i = p
      BY <1>7, <2>1, <2>2, <3>1
    <3>2. CASE i # p
      BY <2>1, <3>2
    <3> QED
      BY <3>1, <3>2
  <2> QED
    BY <1>3, <2>1, <2>3 DEF FieldSet
<1> QED
  BY <1>10, <1>11

\* What a keeper copies of a section.
Copied(s) == [version |-> s.version, key |-> s.key, parts |-> Range(s.parts)]

\* g is f with s stored in the table t.
StoredIn(f, g, t, s) ==
  LET p == f[t].parent
  IN  /\ DOMAIN f \subseteq DOMAIN g
      /\ \A i \in DOMAIN g \ DOMAIN f : g[i].is \in {"part", "descriptor"}
      /\ \A i \in DOMAIN f : g[i].is = f[i].is /\ g[i].parent = f[i].parent /\ DOMAIN g[i].data = DOMAIN f[i].data
      /\ \A i \in DOMAIN f \ {t, p} : \A x \in DOMAIN f[i].data \ {"descriptors"} : g[i].data[x] = f[i].data[x]
      /\ \A x \in DOMAIN f[t].data \ {"struct", "shown", "from", "descriptors"} : g[t].data[x] = f[t].data[x]
      /\ \A x \in DOMAIN f[p].data \ {"decoded", "descriptors"} : g[p].data[x] = f[p].data[x]
      /\ g[t].data.from = s /\ g[t].data.shown = Shown(s)
      /\ g[p].data.decoded = Put(f[p].data.decoded, CopyOf(s), Copied(s))

\* Storing a section leaves a tree, and the table and its keeper with the section.
LEMMA StoreIs ==
  ASSUME NEW f, NEW loose, Tree(f, loose), NEW t \in DOMAIN f, f[t].is = "table", NEW s, Section(s)
  PROVE  Tree(Store(f, t, s), loose) /\ StoredIn(f, Store(f, t, s), t, s)
<1>1. PICK p : p = f[t].parent
  OBVIOUS
<1>2. p \in DOMAIN f /\ f[p].is \in {"decode", "network", "service"} /\ p # t /\ Shaped(f, t) /\ Shaped(f, p)
  <2>1. Up(f, loose, t) /\ Shaped(f, t)
    BY DEF Tree
  <2>2. p \in DOMAIN f /\ Level[f[p].is] < Level["table"]
    BY <1>1, <2>1 DEF Up
  <2>3. Shaped(f, p)
    BY <2>2 DEF Tree
  <2>4. f[p].is \in {"decode", "network", "service"}
    BY <2>2, <2>3 DEF Shaped, Level
  <2> QED
    BY <2>1, <2>2, <2>3, <2>4
<1>3. PICK tags : tags = Tags(s, "table")
  OBVIOUS
<1>4. PICK S : S = Range(s.tags)
  OBVIOUS
<1>5. tags \in Seq(S)
  BY <1>3, <1>4, TagsType
<1>6. PICK a : a = DecodeDescriptors(f, t, tags)
  OBVIOUS
<1>7. "descriptors" \in Fields[f[t].is]
  BY DEF Fields
<1>8. Stays(f, loose, a)
  BY <1>5, <1>6, <1>7, DecodeIs
<1>9. Tree(a, loose) /\ t \in DOMAIN a /\ a[t].is = "table"
  BY <1>8 DEF Stays, Grown, Same
<1>10. PICK P : P = Range(s.parts)
  OBVIOUS
<1>11. s.parts \in Seq(P)
  BY <1>10 DEF Section
<1>12. PICK g : g = Parted(a, t, s, s.parts)
  OBVIOUS
<1>13. Stays(a, loose, g)
  BY <1>9, <1>11, <1>12, PartedIs
<1>14. Stays(f, loose, g)
  BY <1>8, <1>13, StaysMore
<1>15. Tree(g, loose) /\ Grown(f, g)
  BY <1>14 DEF Stays
<1>16. t \in DOMAIN g /\ p \in DOMAIN g /\ Same(f, g, t) /\ Same(f, g, p)
  BY <1>2, <1>15 DEF Grown
<1>17. DOMAIN g[t].data = {"class", "from", "struct", "shown", "descriptors"} /\ "decoded" \in DOMAIN g[p].data
  <2>1. DOMAIN f[t].data = Fields["table"] /\ DOMAIN f[p].data = Fields[f[p].is]
    BY <1>2 DEF Shaped
  <2>2. DOMAIN g[t].data = DOMAIN f[t].data /\ DOMAIN g[p].data = DOMAIN f[p].data
    BY <1>16 DEF Same
  <2> QED
    BY <1>2, <2>1, <2>2 DEF Fields
<1>18. PICK u : u = Copied(s)
  OBVIOUS
<1>19. PICK h1 : FieldEdits(g, t, "struct", u, h1)
  BY DEF FieldEdits
<1>20. Tree(h1, loose) /\ FieldSet(g, t, "struct", u, h1)
  BY <1>15, <1>16, <1>17, <1>19, FieldIs
<1>21. t \in DOMAIN h1 /\ DOMAIN h1[t].data = DOMAIN g[t].data
  BY <1>16, <1>20 DEF FieldSet
<1>22. PICK v : v = Shown(s)
  OBVIOUS
<1>23. PICK h2 : FieldEdits(h1, t, "shown", v, h2)
  BY DEF FieldEdits
<1>24. Tree(h2, loose) /\ FieldSet(h1, t, "shown", v, h2)
  BY <1>17, <1>20, <1>21, <1>23, FieldIs
<1>25. t \in DOMAIN h2 /\ DOMAIN h2[t].data = DOMAIN g[t].data
  BY <1>21, <1>24 DEF FieldSet
<1>26. PICK h3 : FieldEdits(h2, t, "from", s, h3)
  BY DEF FieldEdits
<1>27. Tree(h3, loose) /\ FieldSet(h2, t, "from", s, h3)
  BY <1>17, <1>24, <1>25, <1>26, FieldIs
<1>28. /\ DOMAIN h3 = DOMAIN g
       /\ \A i \in DOMAIN g : h3[i].is = g[i].is /\ h3[i].parent = g[i].parent /\ DOMAIN h3[i].data = DOMAIN g[i].data
       /\ \A i \in DOMAIN g \ {t} : h3[i].data = g[i].data
       /\ h3[t].data.from = s /\ h3[t].data.shown = v /\ h3[t].data.struct = u
       /\ \A x \in DOMAIN g[t].data \ {"struct", "shown", "from"} : h3[t].data[x] = g[t].data[x]
  BY <1>17, <1>20, <1>24, <1>27 DEF FieldSet, Edited
<1>29. h3 = [g EXCEPT ![t].data.struct = Struct(@, s), ![t].data.shown = Shown(s), ![t].data.from = s]
  <2>1. h1 = [g EXCEPT ![t].data.struct = Struct(g[t].data.struct, s)]
    BY <1>18, <1>19 DEF FieldEdits, Copied, Struct
  <2>2. h2 = [h1 EXCEPT ![t].data.shown = Shown(s)]
    BY <1>22, <1>23 DEF FieldEdits
  <2>3. h3 = [h2 EXCEPT ![t].data.from = s]
    BY <1>26 DEF FieldEdits
  <2> QED
    BY <2>1, <2>2, <2>3
<1>30. h3[t].parent = p /\ p \in DOMAIN h3 /\ h3[p].data = g[p].data
  BY <1>1, <1>2, <1>16, <1>28 DEF Same
<1>31. PICK w : w = Put(g[p].data.decoded, CopyOf(s), u)
  OBVIOUS
<1>32. PICK r : FieldEdits(h3, p, "decoded", w, r)
  BY DEF FieldEdits
<1>33. Tree(r, loose) /\ FieldSet(h3, p, "decoded", w, r)
  BY <1>17, <1>27, <1>30, <1>32, FieldIs
<1>34. updateTable(h3, t) = r
  <2>1. r = [h3 EXCEPT ![p].data.decoded = w]
    BY <1>32 DEF FieldEdits
  <2>2. w = Put(h3[p].data.decoded, CopyOf(h3[t].data.from), h3[t].data.struct)
    BY <1>28, <1>30, <1>31
  <2> QED
    BY <1>30, <2>1, <2>2 DEF updateTable
<1>35. Store(f, t, s) = r
  <2>1. g = FoldLeft(LAMBDA h, part : AddPart(h, t, s), DecodeDescriptors(f, t, Tags(s, "table")), s.parts)
    BY <1>3, <1>6, <1>12 DEF Parted
  <2> QED
    BY <1>29, <1>34, <2>1 DEF Store
<1>36. /\ DOMAIN r = DOMAIN g
       /\ \A i \in DOMAIN g : r[i].is = g[i].is /\ r[i].parent = g[i].parent /\ DOMAIN r[i].data = DOMAIN g[i].data
       /\ \A i \in DOMAIN g \ {t, p} : r[i].data = g[i].data
       /\ r[t].data.from = s /\ r[t].data.shown = v
       /\ \A x \in DOMAIN g[t].data \ {"struct", "shown", "from"} : r[t].data[x] = g[t].data[x]
       /\ r[p].data.decoded = w
       /\ \A x \in DOMAIN g[p].data \ {"decoded"} : r[p].data[x] = g[p].data[x]
  <2>1. /\ DOMAIN r = DOMAIN h3
        /\ \A i \in DOMAIN h3 : r[i].is = h3[i].is /\ r[i].parent = h3[i].parent /\ DOMAIN r[i].data = DOMAIN h3[i].data
        /\ \A i \in DOMAIN h3 \ {p} : r[i].data = h3[i].data
        /\ r[p].data.decoded = w
        /\ \A x \in DOMAIN h3[p].data \ {"decoded"} : r[p].data[x] = h3[p].data[x]
    BY <1>33 DEF FieldSet, Edited
  <2>2. r[t].data = h3[t].data
    BY <1>2, <1>16, <1>28, <2>1
  <2> QED
    BY <1>28, <1>30, <2>1, <2>2
<1>37. StoredIn(f, r, t, s)
  <2>1. /\ DOMAIN f \subseteq DOMAIN g
        /\ \A i \in DOMAIN g \ DOMAIN f : g[i].is \in {"part", "descriptor"}
        /\ \A i \in DOMAIN f : /\ g[i].is = f[i].is /\ g[i].parent = f[i].parent /\ DOMAIN g[i].data = DOMAIN f[i].data
                               /\ \A x \in DOMAIN f[i].data \ {"descriptors"} : g[i].data[x] = f[i].data[x]
    BY <1>15 DEF Grown, Same
  <2>2. DOMAIN f \subseteq DOMAIN r /\ \A i \in DOMAIN r \ DOMAIN f : r[i].is \in {"part", "descriptor"}
    BY <1>36, <2>1
  <2>3. \A i \in DOMAIN f : r[i].is = f[i].is /\ r[i].parent = f[i].parent /\ DOMAIN r[i].data = DOMAIN f[i].data
    BY <1>36, <2>1
  <2>4. \A i \in DOMAIN f \ {t, p} : \A x \in DOMAIN f[i].data \ {"descriptors"} : r[i].data[x] = f[i].data[x]
    BY <1>36, <2>1
  <2>5. \A x \in DOMAIN f[t].data \ {"struct", "shown", "from", "descriptors"} : r[t].data[x] = f[t].data[x]
    BY <1>36, <2>1
  <2>6. \A x \in DOMAIN f[p].data \ {"decoded", "descriptors"} : r[p].data[x] = f[p].data[x]
    BY <1>2, <1>36, <2>1
  <2>7. r[p].data.decoded = Put(f[p].data.decoded, CopyOf(s), Copied(s))
    <3>1. "decoded" \in DOMAIN f[p].data
      BY <1>2, <1>17, <2>1
    <3>2. g[p].data.decoded = f[p].data.decoded
      BY <1>2, <2>1, <3>1
    <3> QED
      BY <1>18, <1>31, <1>36, <3>2
  <2> QED
    BY <1>1, <1>22, <1>36, <2>2, <2>3, <2>4, <2>5, <2>6, <2>7 DEF StoredIn
<1> QED
  BY <1>33, <1>35, <1>37

-----------------------------------------------------------------------------
(* Sections filed by class and key, and the copies of them.                *)

\* One section of each key, but of those that are added always.
Single(q) ==
  \A j, k \in DOMAIN q : j # k /\ q[j].class = q[k].class /\ Classes[q[j].class].ingest # "add" =>
    Classes[q[j].class].ingest = "key" /\ q[j].key # q[k].key

\* The copies have the sections, each unless a later one has its place.
InCopy(n, q, d) ==
  \A j \in 1 .. n :
    \/ \E k \in j + 1 .. n : CopyOf(q[k]) = CopyOf(q[j])
    \/ CopyOf(q[j]) \in DOMAIN d /\ d[CopyOf(q[j])] = Copied(q[j])

\* A place tells the class, and the key of what is not the only one.
LEMMA CopyTells ==
  ASSUME NEW s, NEW u, CopyOf(s) = CopyOf(u)
  PROVE  s.class = u.class /\ (Classes[s.class].ingest # "setOnly" => s.key = u.key)
<1>1. PICK v : v = CopyOf(s)
  OBVIOUS
<1>2. v[1] = s.class
  <2>1. CASE Classes[s.class].ingest = "setOnly"
    BY <1>1, <2>1 DEF CopyOf
  <2>2. CASE Classes[s.class].ingest # "setOnly"
    BY <1>1, <2>2 DEF CopyOf
  <2> QED
    BY <2>1, <2>2
<1>3. v[1] = u.class
  <2>1. CASE Classes[u.class].ingest = "setOnly"
    BY <1>1, <2>1 DEF CopyOf
  <2>2. CASE Classes[u.class].ingest # "setOnly"
    BY <1>1, <2>2 DEF CopyOf
  <2> QED
    BY <2>1, <2>2
<1>4. ASSUME Classes[s.class].ingest # "setOnly" PROVE s.key = u.key
  <2>1. Classes[u.class].ingest # "setOnly"
    BY <1>2, <1>3, <1>4
  <2>2. v[2] = s.key
    BY <1>1, <1>4 DEF CopyOf
  <2>3. v[2] = u.key
    BY <1>1, <2>1 DEF CopyOf
  <2> QED
    BY <2>2, <2>3
<1> QED
  BY <1>2, <1>3, <1>4

\* s is the next after q.
Next1(n, q, s, r) == DOMAIN r = 1 .. n + 1 /\ (\A j \in 1 .. n : r[j] = q[j]) /\ r[n + 1] = s

\* One more section that none of the others rules out.
LEMMA AppendFiles ==
  ASSUME NEW n \in Nat, NEW q, DOMAIN q = 1 .. n, Single(q), NEW d, InCopy(n, q, d), NEW s, NEW r, Next1(n, q, s, r),
         \A j \in 1 .. n : q[j].class = s.class /\ Classes[s.class].ingest # "add" =>
           Classes[s.class].ingest = "key" /\ q[j].key # s.key,
         NEW e, e = Put(d, CopyOf(s), Copied(s))
  PROVE  Single(r) /\ InCopy(n + 1, r, e)
<1>1. DOMAIN r = 1 .. n + 1 /\ (\A j \in 1 .. n : r[j] = q[j]) /\ r[n + 1] = s
  BY DEF Next1
<1>2. \A j \in 1 .. n + 1 : j \in 1 .. n \/ j = n + 1
  OBVIOUS
<1>3. Single(r)
  <2> SUFFICES ASSUME NEW j \in 1 .. n + 1, NEW k \in 1 .. n + 1, j # k, r[j].class = r[k].class,
                      Classes[r[j].class].ingest # "add"
               PROVE  Classes[r[j].class].ingest = "key" /\ r[j].key # r[k].key
    BY <1>1 DEF Single
  <2>1. CASE j \in 1 .. n /\ k \in 1 .. n
    BY <1>1, <2>1 DEF Single
  <2>2. CASE j \in 1 .. n /\ k = n + 1
    BY <1>1, <2>2
  <2>3. CASE j = n + 1 /\ k \in 1 .. n
    BY <1>1, <2>3
  <2> QED
    BY <1>2, <2>1, <2>2, <2>3
<1>4. PICK x : x = CopyOf(s)
  OBVIOUS
<1>5. DOMAIN e = DOMAIN d \cup {x} /\ e[x] = Copied(s) /\ \A z \in DOMAIN d \ {x} : e[z] = d[z]
  BY <1>4 DEF Put
<1>6. InCopy(n + 1, r, e)
  <2> SUFFICES ASSUME NEW j \in 1 .. n + 1, ~(\E k \in j + 1 .. n + 1 : CopyOf(r[k]) = CopyOf(r[j]))
               PROVE  CopyOf(r[j]) \in DOMAIN e /\ e[CopyOf(r[j])] = Copied(r[j])
    BY DEF InCopy
  <2>1. CASE j = n + 1
    BY <1>1, <1>4, <1>5, <2>1
  <2>2. CASE j \in 1 .. n
    <3>1. r[j] = q[j]
      BY <1>1, <2>2
    <3>2. CopyOf(q[j]) # x
      <4>1. n + 1 \in j + 1 .. n + 1
        BY <2>2
      <4> QED
        BY <1>1, <1>4, <3>1, <4>1
    <3>3. ~(\E k \in j + 1 .. n : CopyOf(q[k]) = CopyOf(q[j]))
      <4> SUFFICES ASSUME NEW k \in j + 1 .. n, CopyOf(q[k]) = CopyOf(q[j]) PROVE FALSE
        OBVIOUS
      <4>1. k \in 1 .. n /\ k \in j + 1 .. n + 1
        BY <2>2
      <4> QED
        BY <1>1, <3>1, <4>1
    <3>4. CopyOf(q[j]) \in DOMAIN d /\ d[CopyOf(q[j])] = Copied(q[j])
      BY <2>2, <3>3 DEF InCopy
    <3> QED
      BY <1>5, <3>1, <3>2, <3>4
  <2> QED
    BY <1>2, <2>1, <2>2
<1> QED
  BY <1>3, <1>6

\* s in the place m of q.
Instead(n, q, m, s, r) == DOMAIN r = 1 .. n /\ (\A j \in 1 .. n : j # m => r[j] = q[j]) /\ r[m] = s

\* A section in the place of one of its class and key.
LEMMA ReplaceFiles ==
  ASSUME NEW n \in Nat, NEW q, DOMAIN q = 1 .. n, Single(q), NEW d, InCopy(n, q, d), NEW m \in 1 .. n,
         NEW s, NEW r, Instead(n, q, m, s, r),
         q[m].class = s.class, Classes[s.class].ingest # "add", Classes[s.class].ingest = "key" => q[m].key = s.key,
         NEW e, e = Put(d, CopyOf(s), Copied(s))
  PROVE  Single(r) /\ InCopy(n, r, e)
<1>1. DOMAIN r = 1 .. n /\ (\A j \in 1 .. n : j # m => r[j] = q[j]) /\ r[m] = s
  BY DEF Instead
<1>2. \A j \in 1 .. n : j # m /\ q[j].class = s.class => Classes[s.class].ingest = "key" /\ q[j].key # s.key
  <2> SUFFICES ASSUME NEW j \in 1 .. n, j # m, q[j].class = s.class
               PROVE  Classes[s.class].ingest = "key" /\ q[j].key # s.key
    OBVIOUS
  <2>1. Classes[q[j].class].ingest = "key" /\ q[j].key # q[m].key
    BY DEF Single
  <2> QED
    BY <2>1
<1>3. Single(r)
  <2> SUFFICES ASSUME NEW j \in 1 .. n, NEW k \in 1 .. n, j # k, r[j].class = r[k].class,
                      Classes[r[j].class].ingest # "add"
               PROVE  Classes[r[j].class].ingest = "key" /\ r[j].key # r[k].key
    BY <1>1 DEF Single
  <2>1. CASE j # m /\ k # m
    BY <1>1, <2>1 DEF Single
  <2>2. CASE k = m
    BY <1>1, <1>2, <2>2
  <2>3. CASE j = m
    BY <1>1, <1>2, <2>3
  <2> QED
    BY <2>1, <2>2, <2>3
<1>4. PICK x : x = CopyOf(s)
  OBVIOUS
<1>5. DOMAIN e = DOMAIN d \cup {x} /\ e[x] = Copied(s) /\ \A z \in DOMAIN d \ {x} : e[z] = d[z]
  BY <1>4 DEF Put
<1>6. \A j \in 1 .. n : j # m => CopyOf(q[j]) # x
  <2> SUFFICES ASSUME NEW j \in 1 .. n, j # m, CopyOf(q[j]) = CopyOf(s) PROVE FALSE
    BY <1>4
  <2>1. q[j].class = s.class /\ (Classes[q[j].class].ingest # "setOnly" => q[j].key = s.key)
    BY CopyTells
  <2> QED
    BY <1>2, <2>1
<1>7. \A j \in 1 .. n : j # m => CopyOf(q[j]) # CopyOf(q[m])
  <2> SUFFICES ASSUME NEW j \in 1 .. n, j # m, CopyOf(q[j]) = CopyOf(q[m]) PROVE FALSE
    OBVIOUS
  <2>1. q[j].class = q[m].class /\ (Classes[q[j].class].ingest # "setOnly" => q[j].key = q[m].key)
    BY CopyTells
  <2> QED
    BY <1>2, <2>1
<1>8. InCopy(n, r, e)
  <2> SUFFICES ASSUME NEW j \in 1 .. n, ~(\E k \in j + 1 .. n : CopyOf(r[k]) = CopyOf(r[j]))
               PROVE  CopyOf(r[j]) \in DOMAIN e /\ e[CopyOf(r[j])] = Copied(r[j])
    BY DEF InCopy
  <2>1. CASE j = m
    BY <1>1, <1>4, <1>5, <2>1
  <2>2. CASE j # m
    <3>1. r[j] = q[j]
      BY <1>1, <2>2
    <3>2. ~(\E k \in j + 1 .. n : CopyOf(q[k]) = CopyOf(q[j]))
      <4> SUFFICES ASSUME NEW k \in j + 1 .. n, CopyOf(q[k]) = CopyOf(q[j]) PROVE FALSE
        OBVIOUS
      <4>1. k \in 1 .. n
        OBVIOUS
      <4>2. k # m
        BY <1>7, <2>2
      <4> QED
        BY <1>1, <3>1, <4>1, <4>2
    <3>3. CopyOf(q[j]) \in DOMAIN d /\ d[CopyOf(q[j])] = Copied(q[j])
      BY <3>2 DEF InCopy
    <3> QED
      BY <1>5, <1>6, <2>2, <3>1, <3>3
  <2> QED
    BY <2>1, <2>2
<1> QED
  BY <1>3, <1>8

\* The sections that the tables of node i hold.
Tells(f, t, s) == f[t].data.class = s.class /\ f[t].data.from = s /\ f[t].data.shown = Shown(s)

\* The tables of keeper i are those of the sections q, and its copies are of them.
Filing(f, i, n, q) ==
  /\ n \in Nat /\ DOMAIN q = 1 .. n /\ DOMAIN f[i].data.store = 1 .. n
  /\ \A j \in 1 .. n : Section(q[j]) /\ Tells(f, f[i].data.store[j], q[j])
  /\ Single(q) /\ InCopy(n, q, f[i].data.decoded)

\* Of some sections they are.
FiledAt(f, i) == \E n, q : Filing(f, i, n, q)

\* Who keeps tables.
Keepers == {"decode", "network", "service"}
Filed(f) == \A i \in DOMAIN f : f[i].is \in Keepers => FiledAt(f, i)

\* What is filed stays filed where its tables stay.
LEMMA FiledSame ==
  ASSUME NEW f, NEW i, FiledAt(f, i), NEW g,
         g[i].data.store = f[i].data.store, g[i].data.decoded = f[i].data.decoded,
         \A j \in DOMAIN f[i].data.store : \A s : Tells(f, f[i].data.store[j], s) => Tells(g, f[i].data.store[j], s)
  PROVE  FiledAt(g, i)
<1>1. PICK n, q : Filing(f, i, n, q)
  BY DEF FiledAt
<1>2. DOMAIN f[i].data.store = 1 .. n
  BY <1>1 DEF Filing
<1>3. \A j \in 1 .. n : Section(q[j]) /\ Tells(g, g[i].data.store[j], q[j])
  BY <1>1, <1>2 DEF Filing
<1>4. Filing(g, i, n, q)
  BY <1>1, <1>2, <1>3 DEF Filing
<1> QED
  BY <1>4 DEF FiledAt

\* The properties, from how the tables are filed.
LEMMA FiledIs ==
  ASSUME Filed(node), NEW loose, Tree(node, loose)
  PROVE  OnePerKey /\ InStep
<1>1. ASSUME NEW i \in DOMAIN node, node[i].is \in Keepers
      PROVE  \A j, k \in DOMAIN node[i].data.store : j # k =>
               LET t == node[node[i].data.store[j]].data
                   u == node[node[i].data.store[k]].data
               IN  t.class = u.class /\ Classes[t.class].ingest # "add" =>
                     Classes[t.class].ingest = "key" /\ t.shown.key # u.shown.key
  <2>1. PICK n, q : Filing(node, i, n, q)
    BY <1>1 DEF Filed, FiledAt
  <2>2. PICK store : store = node[i].data.store
    OBVIOUS
  <2>3. \A j \in 1 .. n : node[store[j]].data.class = q[j].class /\ node[store[j]].data.shown.key = q[j].key
    <3>1. \A j \in 1 .. n : node[store[j]].data.class = q[j].class /\ node[store[j]].data.shown = Shown(q[j])
      BY <2>1, <2>2 DEF Filing, Tells
    <3>2. \A j \in 1 .. n : Shown(q[j]).key = q[j].key
      BY DEF Shown
    <3> QED
      BY <3>1, <3>2
  <2>4. DOMAIN store = 1 .. n /\ DOMAIN q = 1 .. n /\ Single(q)
    BY <2>1, <2>2 DEF Filing
  <2>5. \A j, k \in 1 .. n : j # k /\ q[j].class = q[k].class /\ Classes[q[j].class].ingest # "add" =>
                   Classes[q[j].class].ingest = "key" /\ q[j].key # q[k].key
    BY <2>4 DEF Single
  <2> SUFFICES ASSUME NEW j \in 1 .. n, NEW k \in 1 .. n, j # k,
                      node[store[j]].data.class = node[store[k]].data.class,
                      Classes[node[store[j]].data.class].ingest # "add"
               PROVE  /\ Classes[node[store[j]].data.class].ingest = "key"
                      /\ node[store[j]].data.shown.key # node[store[k]].data.shown.key
    BY <2>2, <2>4
  <2>6. /\ node[store[j]].data.class = q[j].class /\ node[store[j]].data.shown.key = q[j].key
        /\ node[store[k]].data.class = q[k].class /\ node[store[k]].data.shown.key = q[k].key
    BY <2>3
  <2>7. q[j].class = q[k].class /\ Classes[q[j].class].ingest # "add"
    BY <2>6
  <2>8. Classes[q[j].class].ingest = "key" /\ q[j].key # q[k].key
    BY <2>5, <2>7
  <2> QED
    BY <2>6, <2>8
<1>2. ASSUME NEW i \in DOMAIN node, node[i].is \in Keepers,
             NEW j \in DOMAIN node[i].data.store
      PROVE  LET store == node[i].data.store
                 t == node[store[j]].data
             IN  \/ \E k \in j + 1 .. Len(store) : CopyOf(node[store[k]].data.from) = CopyOf(t.from)
                 \/ /\ CopyOf(t.from) \in DOMAIN node[i].data.decoded
                    /\ node[i].data.decoded[CopyOf(t.from)] =
                         [version |-> t.shown.version, key |-> t.shown.key, parts |-> Range(t.shown.parts)]
  <2>1. PICK n, q : Filing(node, i, n, q)
    BY <1>2 DEF Filed, FiledAt
  <2>2. PICK store : store = node[i].data.store
    OBVIOUS
  <2>3. n \in Nat /\ DOMAIN store = 1 .. n /\ InCopy(n, q, node[i].data.decoded)
    BY <2>1, <2>2 DEF Filing
  <2>4. \A k \in 1 .. n : node[store[k]].data.from = q[k] /\ node[store[k]].data.shown = Shown(q[k])
    BY <2>1, <2>2 DEF Filing, Tells
  <2>5. j \in 1 .. n
    BY <2>2, <2>3
  <2>6. PICK d : d = node[i].data.decoded
    OBVIOUS
  <2>7. \/ \E k \in j + 1 .. n : CopyOf(q[k]) = CopyOf(q[j])
        \/ CopyOf(q[j]) \in DOMAIN d /\ d[CopyOf(q[j])] = Copied(q[j])
    BY <2>3, <2>5, <2>6 DEF InCopy
  <2>8. CASE \E k \in j + 1 .. n : CopyOf(q[k]) = CopyOf(q[j])
    <3>1. PICK k \in j + 1 .. n : CopyOf(q[k]) = CopyOf(q[j])
      BY <2>8
    <3>2. k \in 1 .. n
      BY <2>3, <2>5, <3>1
    <3>3. node[store[k]].data.from = q[k] /\ node[store[j]].data.from = q[j]
      BY <2>4, <2>5, <3>2
    <3>4. Len(store) = n
      <4>1. store \in Seq(Nat)
        BY <1>2, <2>2 DEF Tree, Keeps, KeepsTables, Shaped, Fields, Keepers
      <4> QED
        BY <2>3, <4>1
    <3> QED
      BY <2>2, <3>1, <3>3, <3>4
  <2>9. CASE CopyOf(q[j]) \in DOMAIN d /\ d[CopyOf(q[j])] = Copied(q[j])
    <3>1. PICK t : t = node[store[j]].data
      OBVIOUS
    <3>2. t.from = q[j] /\ t.shown = Shown(q[j])
      BY <2>4, <2>5, <3>1
    <3>3. t.shown.version = q[j].version /\ t.shown.key = q[j].key /\ t.shown.parts = q[j].parts
      BY <3>2 DEF Shown
    <3>4. d[CopyOf(t.from)] = [version |-> t.shown.version, key |-> t.shown.key, parts |-> Range(t.shown.parts)]
      BY <2>9, <3>2, <3>3 DEF Copied
    <3> QED
      BY <2>2, <2>6, <2>9, <3>1, <3>2, <3>4
  <2> QED
    BY <2>7, <2>8, <2>9
<1> QED
  BY <1>1, <1>2 DEF OnePerKey, InStep, Keepers

-----------------------------------------------------------------------------
(* Adding a table.                                                         *)

\* g is f with a new table t below p that has s.
Added(f, g, p, t, s) ==
  /\ t \notin DOMAIN f /\ t \in DOMAIN g /\ DOMAIN f \subseteq DOMAIN g
  /\ \A i \in DOMAIN g \ DOMAIN f : i # t => g[i].is \in {"part", "descriptor"}
  /\ \A i \in DOMAIN f : g[i].is = f[i].is /\ DOMAIN g[i].data = DOMAIN f[i].data
  /\ \A i \in DOMAIN f \ {p} : \A x \in DOMAIN f[i].data \ {"descriptors"} : g[i].data[x] = f[i].data[x]
  /\ \A x \in DOMAIN f[p].data \ {"store", "decoded", "descriptors"} : g[p].data[x] = f[p].data[x]
  /\ g[t].is = "table" /\ g[t].data.class = s.class /\ g[t].data.from = s /\ g[t].data.shown = Shown(s)
  /\ g[p].data.store = Append(f[p].data.store, t)
  /\ g[p].data.decoded = Put(f[p].data.decoded, CopyOf(s), Copied(s))

\* A new table leaves a tree, in which its keeper has it last.
LEMMA AddIs ==
  ASSUME NEW f, NEW loose, Tree(f, loose), NEW p \in DOMAIN f, f[p].is \in Keepers, NEW s, Section(s)
  PROVE  Tree(Add(f, p, s), loose) /\ Added(f, Add(f, p, s), p, Fresh(f), s)
<1>1. PICK t : t = Fresh(f)
  OBVIOUS
<1>2. t \in Nat \ {0} /\ t \notin DOMAIN f
  BY <1>1, FreshIs DEF Tree
<1>3. PICK own : own = NoTable(s)
  OBVIOUS
<1>4. PICK f1 : f1 = Put(f, t, Decoder("table", p, own))
  OBVIOUS
<1>5. PICK new : new = loose \cup {t}
  OBVIOUS
<1>6. Puts(f, loose, t, "table", p, own, new, f1)
  <2>1. DOMAIN own = Fields["table"] /\ Empty(own)
    BY <1>3 DEF NoTable, Fields, Empty
  <2>2. "table" \in DOMAIN Level /\ Level[f[p].is] < Level["table"]
    BY DEF Level, Keepers
  <2> QED
    BY <1>4, <1>5, <2>1, <2>2 DEF Puts
<1>7. /\ Tree(f1, new) /\ Includes(f, t, f1)
      /\ f1[t].is = "table" /\ f1[t].parent = p /\ f1[t].data = own
  BY <1>2, <1>6, PutIs
<1>8. DOMAIN f1 = DOMAIN f \cup {t} /\ \A i \in DOMAIN f : f1[i] = f[i]
  BY <1>7 DEF Includes
<1>9. PICK f2 : f2 = Store(f1, t, s)
  OBVIOUS
<1>10. Tree(f2, new) /\ StoredIn(f1, f2, t, s)
  BY <1>7, <1>8, <1>9, StoreIs
<1>11. /\ DOMAIN f1 \subseteq DOMAIN f2
       /\ \A i \in DOMAIN f2 \ DOMAIN f1 : f2[i].is \in {"part", "descriptor"}
       /\ \A i \in DOMAIN f1 : f2[i].is = f1[i].is /\ f2[i].parent = f1[i].parent /\ DOMAIN f2[i].data = DOMAIN f1[i].data
       /\ \A i \in DOMAIN f1 \ {t, p} : \A x \in DOMAIN f1[i].data \ {"descriptors"} : f2[i].data[x] = f1[i].data[x]
       /\ \A x \in DOMAIN f1[t].data \ {"struct", "shown", "from", "descriptors"} : f2[t].data[x] = f1[t].data[x]
       /\ \A x \in DOMAIN f1[p].data \ {"decoded", "descriptors"} : f2[p].data[x] = f1[p].data[x]
       /\ f2[t].data.from = s /\ f2[t].data.shown = Shown(s)
       /\ f2[p].data.decoded = Put(f1[p].data.decoded, CopyOf(s), Copied(s))
  BY <1>7, <1>10 DEF StoredIn
<1>12. p # t /\ p \in DOMAIN f2 /\ t \in DOMAIN f2 /\ f2[t].parent = p /\ f2[t].is = "table" /\ t \in new
  BY <1>2, <1>5, <1>7, <1>8, <1>11
<1>13. Shaped(f2, p) /\ Shaped(f2, t)
  BY <1>10, <1>12 DEF Tree
<1>14. PICK f3 : f3 = linkChild(f2, p, t)
  OBVIOUS
<1>15. Links(f2, p, t, f3)
  BY <1>12, <1>13, <1>14, LinkEdits
<1>16. Tree(f3, new \ {t})
  BY <1>10, <1>12, <1>15, LinkIs
<1>17. new \ {t} = loose
  BY <1>2, <1>5 DEF Tree
<1>18. Tree(f3, loose)
  BY <1>16, <1>17
<1>19. /\ DOMAIN f3 = DOMAIN f2
       /\ \A i \in DOMAIN f2 : f3[i].is = f2[i].is /\ f3[i].parent = f2[i].parent /\ f3[i].data = f2[i].data
  BY <1>15 DEF Links
<1>20. PICK old : old = f[p].data.store
  OBVIOUS
<1>21. PICK store : store = Append(old, t)
  OBVIOUS
<1>22. "store" \in DOMAIN f[p].data
  <2>1. Shaped(f, p)
    BY DEF Tree
  <2> QED
    BY <2>1 DEF Shaped, Fields, Keepers
<1>23. f3[p].data.store = old /\ "store" \in DOMAIN f3[p].data /\ p \in DOMAIN f3
  BY <1>8, <1>11, <1>12, <1>19, <1>20, <1>22
<1>24. KeepsTables(f3, loose, p, store)
  <2>1. KeepsTables(f3, loose, p, old)
    BY <1>18, <1>23 DEF Tree, Keeps
  <2>2. old \in Seq(Nat) /\ \A j \in DOMAIN old : old[j] \in DOMAIN f
    <3>1. KeepsTables(f, loose, p, old)
      BY <1>20, <1>22 DEF Tree, Keeps
    <3> QED
      BY <3>1 DEF KeepsTables, Mine
  <2>3. PICK n : n = Len(old)
    OBVIOUS
  <2>4. n \in Nat /\ DOMAIN old = 1 .. n
    BY <2>2, <2>3
  <2>5. /\ store \in Seq(Nat) /\ DOMAIN store = 1 .. n + 1
        /\ \A y \in 1 .. n : store[y] = old[y]
        /\ store[n + 1] = t
    BY <1>2, <1>21, <2>2, <2>3, <2>4, AppendProperties
  <2>6. Mine(f3, loose, p, t) /\ f3[t].is = "table"
    BY <1>2, <1>12, <1>19 DEF Mine, Tree
  <2>7. \A y \in 1 .. n : Mine(f3, loose, p, old[y]) /\ f3[old[y]].is = "table" /\ old[y] # t
    BY <1>2, <2>1, <2>2, <2>4 DEF KeepsTables
  <2>8. \A y \in 1 .. n + 1 : y \in 1 .. n \/ y = n + 1
    BY <2>4
  <2>9. \A j, k \in 1 .. n : old[j] = old[k] => j = k
    BY <2>1, <2>4 DEF KeepsTables
  <2>10. \A j, k \in DOMAIN store : store[j] = store[k] => j = k
    BY <2>5, <2>7, <2>8, <2>9
  <2>11. \A j \in DOMAIN store : Mine(f3, loose, p, store[j]) /\ f3[store[j]].is = "table"
    BY <2>5, <2>6, <2>7, <2>8
  <2> QED
    BY <2>5, <2>10, <2>11 DEF KeepsTables
<1>25. PICK g : FieldEdits(f3, p, "store", store, g)
  BY DEF FieldEdits
<1>26. Tree(g, loose) /\ FieldSet(f3, p, "store", store, g)
  BY <1>18, <1>23, <1>24, <1>25, FieldIs
<1>27. Add(f, p, s) = g
  <2>1. g = [f3 EXCEPT ![p].data.store = Append(@, t)]
    BY <1>21, <1>23, <1>25 DEF FieldEdits
  <2> QED
    BY <1>1, <1>3, <1>4, <1>9, <1>14, <2>1 DEF Add
<1>28. /\ DOMAIN g = DOMAIN f2
       /\ \A i \in DOMAIN f2 : g[i].is = f2[i].is /\ DOMAIN g[i].data = DOMAIN f2[i].data
       /\ \A i \in DOMAIN f2 \ {p} : g[i].data = f2[i].data
       /\ g[p].data.store = store /\ \A x \in DOMAIN f2[p].data \ {"store"} : g[p].data[x] = f2[p].data[x]
  BY <1>12, <1>19, <1>26 DEF FieldSet, Edited
<1>29. Added(f, g, p, t, s)
  <2>1. t \in DOMAIN g /\ DOMAIN f \subseteq DOMAIN g /\ \A i \in DOMAIN g \ DOMAIN f : i # t => g[i].is \in {"part", "descriptor"}
    BY <1>8, <1>11, <1>12, <1>28
  <2>2. \A i \in DOMAIN f : g[i].is = f[i].is /\ DOMAIN g[i].data = DOMAIN f[i].data
    BY <1>8, <1>11, <1>28
  <2>3. \A i \in DOMAIN f \ {p} : \A x \in DOMAIN f[i].data \ {"descriptors"} : g[i].data[x] = f[i].data[x]
    BY <1>2, <1>8, <1>11, <1>28
  <2>4. \A x \in DOMAIN f[p].data \ {"store", "decoded", "descriptors"} : g[p].data[x] = f[p].data[x]
    BY <1>8, <1>11, <1>28
  <2>5. g[t].data = f2[t].data /\ g[t].is = "table"
    BY <1>12, <1>28
  <2>6. f2[t].data.class = s.class
    <3>1. own.class = s.class /\ "class" \in DOMAIN own
      BY <1>3 DEF NoTable
    <3> QED
      BY <1>7, <1>11, <3>1
  <2>7. "decoded" \in DOMAIN f2[p].data
    BY <1>12, <1>13, <1>8, <1>11 DEF Shaped, Fields, Keepers
  <2>8. g[p].data.decoded = Put(f[p].data.decoded, CopyOf(s), Copied(s))
    BY <1>8, <1>11, <1>28, <2>7
  <2> QED
    BY <1>2, <1>11, <1>20, <1>21, <1>28, <2>1, <2>2, <2>3, <2>4, <2>5, <2>6, <2>8 DEF Added
<1> QED
  BY <1>1, <1>26, <1>27, <1>29

-----------------------------------------------------------------------------
(* All keepers stay filed.                                                 *)

\* What a keeper and a table are filed by.
KeeperSame(f, g, i) == g[i].data.store = f[i].data.store /\ g[i].data.decoded = f[i].data.decoded
TableSame(f, g, t) ==
  g[t].data.class = f[t].data.class /\ g[t].data.from = f[t].data.from /\ g[t].data.shown = f[t].data.shown

\* The tables of a keeper are below it.
LEMMA KeptAre ==
  ASSUME NEW f, NEW loose, Tree(f, loose), NEW i \in DOMAIN f, f[i].is \in Keepers
  PROVE  /\ "store" \in DOMAIN f[i].data /\ "decoded" \in DOMAIN f[i].data /\ f[i].data.store \in Seq(Nat)
         /\ \A j \in DOMAIN f[i].data.store :
              /\ f[i].data.store[j] \in DOMAIN f /\ f[f[i].data.store[j]].parent = i
              /\ f[f[i].data.store[j]].is = "table"
         /\ \A j, k \in DOMAIN f[i].data.store : f[i].data.store[j] = f[i].data.store[k] => j = k
<1>1. Shaped(f, i) /\ Keeps(f, loose, i, f[i].data)
  BY DEF Tree
<1>2. "store" \in DOMAIN f[i].data /\ "decoded" \in DOMAIN f[i].data
  BY <1>1 DEF Shaped, Fields, Keepers
<1>3. KeepsTables(f, loose, i, f[i].data.store)
  BY <1>1, <1>2 DEF Keeps
<1> QED
  BY <1>2, <1>3 DEF KeepsTables, Mine

\* What a table is filed by, it has.
LEMMA TableFields ==
  ASSUME NEW f, NEW loose, Tree(f, loose), NEW t \in DOMAIN f, f[t].is = "table"
  PROVE  "class" \in DOMAIN f[t].data /\ "from" \in DOMAIN f[t].data /\ "shown" \in DOMAIN f[t].data
<1>1. Shaped(f, t)
  BY DEF Tree
<1> QED
  BY <1>1 DEF Shaped, Fields

\* A keeper whose tables are as they were stays filed.
LEMMA FiledOther ==
  ASSUME NEW f, NEW loose, Tree(f, loose), NEW i \in DOMAIN f, f[i].is \in Keepers, FiledAt(f, i), NEW g, KeeperSame(f, g, i),
         \A t \in DOMAIN f : f[t].is = "table" /\ f[t].parent = i => TableSame(f, g, t)
  PROVE  FiledAt(g, i)
<1>1. PICK store : store = f[i].data.store
  OBVIOUS
<1>2. \A j \in DOMAIN store : TableSame(f, g, store[j])
  BY <1>1, KeptAre
<1>3. PICK n, q : Filing(f, i, n, q)
  BY DEF FiledAt
<1>4. \A j \in 1 .. n : Tells(f, store[j], q[j]) => Tells(g, store[j], q[j])
  <2>1. DOMAIN store = 1 .. n
    BY <1>1, <1>3 DEF Filing
  <2> QED
    BY <1>2, <2>1 DEF Tells, TableSame
<1>5. g[i].data.store = store /\ g[i].data.decoded = f[i].data.decoded
  BY <1>1 DEF KeeperSame
<1>6. Filing(g, i, n, q)
  BY <1>1, <1>3, <1>4, <1>5 DEF Filing
<1> QED
  BY <1>6 DEF FiledAt

\* Where all keepers and tables are as they were, and a new keeper has nothing.
Alike(f, g) ==
  /\ DOMAIN f \subseteq DOMAIN g
  /\ \A i \in DOMAIN f : /\ g[i].is = f[i].is
                         /\ f[i].is \in Keepers => KeeperSame(f, g, i)
                         /\ f[i].is = "table" => TableSame(f, g, i)
  /\ \A i \in DOMAIN g \ DOMAIN f : g[i].is \in Keepers => g[i].data.store = <<>>

\* If all are as they were, all stay filed.
LEMMA FiledAlike ==
  ASSUME NEW f, NEW loose, Tree(f, loose), Filed(f), NEW g, Alike(f, g)
  PROVE  Filed(g)
<1>1. ASSUME NEW i \in DOMAIN f, g[i].is \in Keepers PROVE FiledAt(g, i)
  <2>1. f[i].is \in Keepers /\ KeeperSame(f, g, i) /\ FiledAt(f, i)
    BY <1>1 DEF Alike, Filed
  <2>2. \A t \in DOMAIN f : f[t].is = "table" /\ f[t].parent = i => TableSame(f, g, t)
    BY DEF Alike
  <2> QED
    BY <2>1, <2>2, FiledOther
<1>2. ASSUME NEW i \in DOMAIN g \ DOMAIN f, g[i].is \in Keepers PROVE FiledAt(g, i)
  <2>1. PICK e : e = <<>>
    OBVIOUS
  <2>2. g[i].data.store = e /\ DOMAIN e = {} /\ 1 .. 0 = {}
    BY <1>2, <2>1 DEF Alike
  <2>3. Single(e) /\ InCopy(0, e, g[i].data.decoded)
    BY <2>2 DEF Single, InCopy
  <2>4. Filing(g, i, 0, e)
    BY <2>2, <2>3 DEF Filing
  <2> QED
    BY <2>4 DEF FiledAt
<1> QED
  BY <1>1, <1>2 DEF Filed

\* New parts and descriptors leave all filed.
LEMMA FiledGrown ==
  ASSUME NEW f, NEW loose, Tree(f, loose), Filed(f), NEW g, Grown(f, g)
  PROVE  Filed(g)
<1>1. ASSUME NEW i \in DOMAIN f
      PROVE  /\ g[i].is = f[i].is
             /\ f[i].is \in Keepers => KeeperSame(f, g, i)
             /\ f[i].is = "table" => TableSame(f, g, i)
  <2>1. Same(f, g, i)
    BY DEF Grown
  <2>2. f[i].is \in Keepers => "store" \in DOMAIN f[i].data /\ "decoded" \in DOMAIN f[i].data
    BY KeptAre
  <2>3. f[i].is = "table" => "class" \in DOMAIN f[i].data /\ "from" \in DOMAIN f[i].data /\ "shown" \in DOMAIN f[i].data
    BY TableFields
  <2> QED
    BY <2>1, <2>2, <2>3 DEF Same, KeeperSame, TableSame
<1>2. Alike(f, g)
  BY <1>1 DEF Alike, Grown, Keepers
<1> QED
  BY <1>2, FiledAlike

\* A new keeper leaves all filed.
LEMMA FiledMade ==
  ASSUME NEW f, NEW loose, Tree(f, loose), Filed(f), NEW is, NEW p, NEW own, own.store = <<>>, NEW c,
         NEW g, Made(f, is, p, own, c, g)
  PROVE  Filed(g)
<1>1. Alike(f, g)
  BY DEF Alike, Made, KeeperSame, TableSame
<1> QED
  BY <1>1, FiledAlike

\* No other table of the class has the key; if there is one only, there is none.
Admits(f, p, s) ==
  \A j \in DOMAIN f[p].data.store :
    LET t == f[p].data.store[j]
    IN  f[t].data.class = s.class /\ Classes[s.class].ingest # "add" =>
          Classes[s.class].ingest = "key" /\ f[t].data.shown.key # s.key

\* A new table that the others admit leaves all filed.
LEMMA FiledAdded ==
  ASSUME NEW f, NEW loose, Tree(f, loose), Filed(f), NEW p \in DOMAIN f, f[p].is \in Keepers, NEW s, Section(s), Admits(f, p, s),
         NEW t \in Nat, NEW g, Added(f, g, p, t, s)
  PROVE  Filed(g)
<1>1. /\ t \notin DOMAIN f /\ DOMAIN f \subseteq DOMAIN g
      /\ \A i \in DOMAIN g \ DOMAIN f : g[i].is \in {"table", "part", "descriptor"}
      /\ \A i \in DOMAIN f : g[i].is = f[i].is
      /\ \A i \in DOMAIN f \ {p} : \A x \in DOMAIN f[i].data \ {"descriptors"} : g[i].data[x] = f[i].data[x]
      /\ Tells(g, t, s)
      /\ g[p].data.store = Append(f[p].data.store, t)
      /\ g[p].data.decoded = Put(f[p].data.decoded, CopyOf(s), Copied(s))
  BY DEF Added, Tells
<1>2. \A c \in DOMAIN f : f[c].is = "table" => TableSame(f, g, c)
  BY <1>1, TableFields DEF TableSame, Keepers
<1>3. ASSUME NEW i \in DOMAIN f, i # p, f[i].is \in Keepers PROVE FiledAt(g, i)
  <2>1. KeeperSame(f, g, i)
    BY <1>1, <1>3, KeptAre DEF KeeperSame
  <2>2. FiledAt(f, i)
    BY <1>3 DEF Filed
  <2> QED
    BY <1>2, <1>3, <2>1, <2>2, FiledOther
<1>4. FiledAt(g, p)
  <2>1. PICK n, q : Filing(f, p, n, q)
    BY DEF Filed, FiledAt
  <2>2. PICK store : store = f[p].data.store
    OBVIOUS
  <2>3. n \in Nat /\ DOMAIN store = 1 .. n /\ DOMAIN q = 1 .. n
    BY <2>1, <2>2 DEF Filing
  <2>4. PICK d : d = f[p].data.decoded
    OBVIOUS
  <2>5. Single(q) /\ InCopy(n, q, d)
    BY <2>1, <2>4 DEF Filing
  <2>6. \A j \in 1 .. n : Section(q[j]) /\ Tells(f, store[j], q[j])
    BY <2>1, <2>2 DEF Filing
  <2>7. PICK r : r = [j \in 1 .. n + 1 |-> IF j = n + 1 THEN s ELSE q[j]]
    OBVIOUS
  <2>8. Next1(n, q, s, r)
    BY <2>3, <2>7 DEF Next1
  <2>9. \A j \in 1 .. n : q[j].class = s.class /\ Classes[s.class].ingest # "add" =>
           Classes[s.class].ingest = "key" /\ q[j].key # s.key
    <3>1. \A j \in 1 .. n : f[store[j]].data.class = q[j].class /\ f[store[j]].data.shown = Shown(q[j])
      BY <2>6 DEF Tells
    <3>2. \A j \in 1 .. n : Shown(q[j]).key = q[j].key
      BY DEF Shown
    <3>3. \A j \in 1 .. n : f[store[j]].data.class = s.class /\ Classes[s.class].ingest # "add" =>
            Classes[s.class].ingest = "key" /\ f[store[j]].data.shown.key # s.key
      BY <2>2, <2>3 DEF Admits
    <3> QED
      BY <3>1, <3>2, <3>3
  <2>10. PICK e : e = Put(d, CopyOf(s), Copied(s))
    OBVIOUS
  <2>11. Single(r) /\ InCopy(n + 1, r, e)
    BY <2>3, <2>5, <2>8, <2>9, <2>10, AppendFiles
  <2>12. store \in Seq(Nat) /\ Len(store) = n
    BY <2>2, <2>3, KeptAre
  <2>13. PICK store2 : store2 = Append(store, t)
    OBVIOUS
  <2>14. DOMAIN store2 = 1 .. n + 1 /\ (\A y \in 1 .. n : store2[y] = store[y]) /\ store2[n + 1] = t
    BY <2>12, <2>13, AppendProperties
  <2>15. g[p].data.store = store2 /\ g[p].data.decoded = e
    BY <1>1, <2>2, <2>4, <2>10, <2>13
  <2>16. \A j \in 1 .. n + 1 : Section(r[j]) /\ Tells(g, store2[j], r[j])
    <3>1. DOMAIN r = 1 .. n + 1 /\ (\A j \in 1 .. n : r[j] = q[j]) /\ r[n + 1] = s
      BY <2>8 DEF Next1
    <3>2. \A j \in 1 .. n : Tells(g, store[j], q[j])
      <4>1. \A j \in 1 .. n : TableSame(f, g, store[j])
        BY <1>2, <2>2, <2>3, KeptAre
      <4> QED
        BY <2>6, <4>1 DEF TableSame, Tells
    <3>3. \A j \in 1 .. n + 1 : j \in 1 .. n \/ j = n + 1
      BY <2>3
    <3>4. Tells(g, t, s)
      BY <1>1
    <3>5. ASSUME NEW j \in 1 .. n + 1 PROVE Section(r[j]) /\ Tells(g, store2[j], r[j])
      <4>1. CASE j = n + 1
        BY <2>14, <3>1, <3>4, <4>1
      <4>2. CASE j \in 1 .. n
        BY <2>6, <2>14, <3>1, <3>2, <4>2
      <4> QED
        BY <3>3, <4>1, <4>2
    <3> QED
      BY <3>5
  <2>17. n + 1 \in Nat /\ DOMAIN r = 1 .. n + 1
    BY <2>3, <2>7
  <2>18. Filing(g, p, n + 1, r)
    BY <2>11, <2>14, <2>15, <2>16, <2>17 DEF Filing
  <2> QED
    BY <2>18 DEF FiledAt
<1>5. \A i \in DOMAIN g \ DOMAIN f : g[i].is \notin Keepers
  BY <1>1 DEF Keepers
<1> QED
  BY <1>1, <1>3, <1>4, <1>5 DEF Filed

\* A table that is stored anew leaves all filed.
LEMMA FiledStored ==
  ASSUME NEW f, NEW loose, Tree(f, loose), Filed(f), NEW p \in DOMAIN f, f[p].is \in Keepers, NEW s, Section(s),
         NEW m \in DOMAIN f[p].data.store, NEW t, t = f[p].data.store[m],
         f[t].data.class = s.class, Classes[s.class].ingest # "add",
         Classes[s.class].ingest = "key" => f[t].data.shown.key = s.key,
         NEW g, StoredIn(f, g, t, s)
  PROVE  Filed(g)
<1>1. t \in DOMAIN f /\ f[t].is = "table" /\ f[t].parent = p
  BY KeptAre
<1>2. t # p
  BY <1>1 DEF Keepers
<1>3. /\ DOMAIN f \subseteq DOMAIN g
      /\ \A i \in DOMAIN g \ DOMAIN f : g[i].is \in {"part", "descriptor"}
      /\ \A i \in DOMAIN f : g[i].is = f[i].is
      /\ \A i \in DOMAIN f \ {t, p} : \A x \in DOMAIN f[i].data \ {"descriptors"} : g[i].data[x] = f[i].data[x]
      /\ \A x \in DOMAIN f[t].data \ {"struct", "shown", "from", "descriptors"} : g[t].data[x] = f[t].data[x]
      /\ \A x \in DOMAIN f[p].data \ {"decoded", "descriptors"} : g[p].data[x] = f[p].data[x]
      /\ g[t].data.from = s /\ g[t].data.shown = Shown(s)
      /\ g[p].data.decoded = Put(f[p].data.decoded, CopyOf(s), Copied(s))
  <2>1. /\ DOMAIN f \subseteq DOMAIN g
        /\ \A i \in DOMAIN g \ DOMAIN f : g[i].is \in {"part", "descriptor"}
        /\ \A x \in DOMAIN f[t].data \ {"struct", "shown", "from", "descriptors"} : g[t].data[x] = f[t].data[x]
        /\ g[t].data.from = s /\ g[t].data.shown = Shown(s)
    BY ZenonT(60) DEF StoredIn
  <2>2. \A i \in DOMAIN f : g[i].is = f[i].is
    BY ZenonT(60) DEF StoredIn
  <2>3. \A i \in DOMAIN f \ {t, p} : \A x \in DOMAIN f[i].data \ {"descriptors"} : g[i].data[x] = f[i].data[x]
    BY <1>1, SMTT(40) DEF StoredIn
  <2>4. \A x \in DOMAIN f[p].data \ {"decoded", "descriptors"} : g[p].data[x] = f[p].data[x]
    BY <1>1, SMTT(40) DEF StoredIn
  <2>5. g[p].data.decoded = Put(f[p].data.decoded, CopyOf(s), Copied(s))
    BY <1>1, ZenonT(60) DEF StoredIn
  <2> QED
    BY <2>1, <2>2, <2>3, <2>4, <2>5
<1>4. ASSUME NEW c \in DOMAIN f, f[c].is = "table", c # t PROVE TableSame(f, g, c)
  <2>1. c # p
    BY <1>4 DEF Keepers
  <2>2. \A x \in DOMAIN f[c].data \ {"descriptors"} : g[c].data[x] = f[c].data[x]
    BY <1>3, <1>4, <2>1
  <2>3. "class" \in DOMAIN f[c].data /\ "from" \in DOMAIN f[c].data /\ "shown" \in DOMAIN f[c].data
    BY <1>4, TableFields
  <2> QED
    BY <2>2, <2>3 DEF TableSame
<1>5. ASSUME NEW i \in DOMAIN f, i # p, f[i].is \in Keepers PROVE FiledAt(g, i)
  <2>1. KeeperSame(f, g, i)
    <3>1. i # t
      BY <1>1, <1>5 DEF Keepers
    <3>2. "store" \in DOMAIN f[i].data /\ "decoded" \in DOMAIN f[i].data
      BY <1>5, KeptAre
    <3>3. \A x \in DOMAIN f[i].data \ {"descriptors"} : g[i].data[x] = f[i].data[x]
      BY <1>3, <1>5, <3>1
    <3> QED
      BY <3>2, <3>3 DEF KeeperSame
  <2>2. FiledAt(f, i)
    BY <1>5 DEF Filed
  <2>3. \A c \in DOMAIN f : f[c].is = "table" /\ f[c].parent = i => TableSame(f, g, c)
    BY <1>1, <1>4, <1>5
  <2> QED
    BY <1>5, <2>1, <2>2, <2>3, FiledOther, SMTT(40)
<1>6. FiledAt(g, p)
  <2>1. PICK n, q : Filing(f, p, n, q)
    BY DEF Filed, FiledAt
  <2>2. PICK store : store = f[p].data.store
    OBVIOUS
  <2>3. n \in Nat /\ DOMAIN store = 1 .. n /\ DOMAIN q = 1 .. n
    BY <2>1, <2>2 DEF Filing
  <2>4. PICK d : d = f[p].data.decoded
    OBVIOUS
  <2>5. Single(q) /\ InCopy(n, q, d)
    BY <2>1, <2>4 DEF Filing
  <2>6. \A j \in 1 .. n : Section(q[j]) /\ Tells(f, store[j], q[j])
    BY <2>1, <2>2 DEF Filing
  <2>7. PICK r : r = [j \in 1 .. n |-> IF j = m THEN s ELSE q[j]]
    OBVIOUS
  <2>8. m \in 1 .. n /\ store[m] = t
    BY <2>2, <2>3
  <2>9. Instead(n, q, m, s, r)
    BY <2>3, <2>7, <2>8 DEF Instead
  <2>10. q[m].class = s.class /\ (Classes[s.class].ingest = "key" => q[m].key = s.key)
    <3>1. f[t].data.class = q[m].class /\ f[t].data.shown = Shown(q[m])
      BY <2>6, <2>8 DEF Tells
    <3>2. Shown(q[m]).key = q[m].key
      BY DEF Shown
    <3> QED
      BY <3>1, <3>2
  <2>11. PICK e : e = Put(d, CopyOf(s), Copied(s))
    OBVIOUS
  <2>12. Single(r) /\ InCopy(n, r, e)
    BY <2>3, <2>5, <2>8, <2>9, <2>10, <2>11, ReplaceFiles, SMTT(40)
  <2>13. g[p].data.store = store /\ g[p].data.decoded = e
    <3>1. "store" \in DOMAIN f[p].data
      BY KeptAre
    <3> QED
      BY <1>3, <2>2, <2>4, <2>11, <3>1
  <2>14. Tells(g, t, s)
    <3>1. "class" \in DOMAIN f[t].data
      BY <1>1, TableFields
    <3> QED
      BY <1>3, <3>1 DEF Tells
  <2>15. DOMAIN r = 1 .. n /\ (\A j \in 1 .. n : j # m => r[j] = q[j]) /\ r[m] = s
    BY <2>9 DEF Instead
  <2>16. ASSUME NEW j \in 1 .. n PROVE Section(r[j]) /\ Tells(g, store[j], r[j])
    <3>1. CASE j = m
      BY <2>8, <2>14, <2>15, <3>1
    <3>2. CASE j # m
      <4>1. store[j] \in DOMAIN f /\ f[store[j]].is = "table" /\ store[j] # t
        BY <2>2, <2>3, <2>8, <3>2, KeptAre
      <4>2. TableSame(f, g, store[j])
        BY <1>4, <4>1
      <4>3. Section(q[j]) /\ Tells(f, store[j], q[j]) /\ r[j] = q[j]
        BY <2>6, <2>15, <3>2
      <4> QED
        BY <4>2, <4>3 DEF TableSame, Tells
    <3> QED
      BY <3>1, <3>2
  <2>17. Filing(g, p, n, r)
    BY <2>3, <2>12, <2>13, <2>15, <2>16 DEF Filing
  <2> QED
    BY <2>17 DEF FiledAt
<1>7. \A i \in DOMAIN g \ DOMAIN f : g[i].is \notin Keepers
  BY <1>3 DEF Keepers
<1> QED
  BY <1>3, <1>5, <1>6, <1>7 DEF Filed

-----------------------------------------------------------------------------
(* Whatever a keeper ingests.                                              *)

\* The nodes of f are in g, the decodes with their parsers, and no decode or network is new.
Later(f, g) ==
  /\ DOMAIN f \subseteq DOMAIN g
  /\ \A i \in DOMAIN f : g[i].is = f[i].is /\ (f[i].is = "decode" => g[i].data.m_parser = f[i].data.m_parser)
  /\ \A i \in DOMAIN g \ DOMAIN f : g[i].is \notin {"decode", "network"}

\* Two such steps are one.
LEMMA LaterMore ==
  ASSUME NEW f, NEW g, NEW h, Later(f, g), Later(g, h)
  PROVE  Later(f, h)
BY DEF Later

\* What a step keeps of the tree.
Whole(f) == Tree(f, {}) /\ Filed(f)
Goes(f, g) == Whole(g) /\ Later(f, g)

\* Two such steps are one.
LEMMA GoesMore ==
  ASSUME NEW f, NEW g, NEW h, Goes(f, g), Goes(g, h)
  PROVE  Goes(f, h)
BY LaterMore DEF Goes

\* Nothing new is a case of it.
LEMMA GoesSelf ==
  ASSUME NEW f, Whole(f)
  PROVE  Goes(f, f)
BY DEF Goes, Later

\* A decode has a parser.
LEMMA ParserIs ==
  ASSUME NEW f, NEW loose, Tree(f, loose), NEW i \in DOMAIN f, f[i].is = "decode"
  PROVE  "m_parser" \in DOMAIN f[i].data
<1>1. Shaped(f, i)
  BY DEF Tree
<1> QED
  BY <1>1 DEF Shaped, Fields

\* Parts and descriptors are such a step.
LEMMA GrownGoes ==
  ASSUME NEW f, Whole(f), NEW g, Stays(f, {}, g)
  PROVE  Goes(f, g)
<1>1. Tree(f, {}) /\ Filed(f) /\ Tree(g, {}) /\ Grown(f, g)
  BY DEF Whole, Stays
<1>2. Filed(g)
  BY <1>1, FiledGrown
<1>3. Later(f, g)
  BY <1>1, ParserIs DEF Later, Grown, Same
<1> QED
  BY <1>1, <1>2, <1>3 DEF Goes, Whole

\* A table that is added is one.
LEMMA AddGoes ==
  ASSUME NEW f, Whole(f), NEW p \in DOMAIN f, f[p].is \in Keepers, NEW s, Section(s), Admits(f, p, s)
  PROVE  Goes(f, Add(f, p, s))
<1>1. PICK g : g = Add(f, p, s)
  OBVIOUS
<1>2. PICK t : t = Fresh(f)
  OBVIOUS
<1>3. Tree(f, {}) /\ Filed(f)
  BY DEF Whole
<1>4. Tree(g, {}) /\ Added(f, g, p, t, s)
  BY <1>1, <1>2, <1>3, AddIs
<1>5. t \in Nat
  BY <1>2, <1>3, FreshIs DEF Tree
<1>6. Filed(g)
  BY <1>3, <1>4, <1>5, FiledAdded
<1>7. Later(f, g)
  BY <1>3, <1>4, ParserIs DEF Later, Added
<1> QED
  BY <1>1, <1>4, <1>6, <1>7 DEF Goes, Whole

\* A table that is stored anew is one, if it is of the class and key of the section.
LEMMA StoreGoes ==
  ASSUME NEW f, Whole(f), NEW p \in DOMAIN f, f[p].is \in Keepers, NEW s, Section(s),
         NEW m \in DOMAIN f[p].data.store, f[f[p].data.store[m]].data.class = s.class, Classes[s.class].ingest # "add",
         Classes[s.class].ingest = "key" => f[f[p].data.store[m]].data.shown.key = s.key
  PROVE  Goes(f, Store(f, f[p].data.store[m], s))
<1>1. PICK t : t = f[p].data.store[m]
  OBVIOUS
<1>2. PICK g : g = Store(f, t, s)
  OBVIOUS
<1>3. Tree(f, {}) /\ Filed(f)
  BY DEF Whole
<1>4. t \in DOMAIN f /\ f[t].is = "table" /\ f[t].parent = p
  BY <1>1, <1>3, KeptAre
<1>5. Tree(g, {}) /\ StoredIn(f, g, t, s)
  BY <1>2, <1>3, <1>4, StoreIs
<1>6. f[t].data.class = s.class /\ (Classes[s.class].ingest = "key" => f[t].data.shown.key = s.key)
  BY <1>1
<1>7. Filed(g)
  BY <1>1, <1>3, <1>5, <1>6, FiledStored
<1>8. Later(f, g)
  BY <1>3, <1>4, <1>5, ParserIs DEF Later, StoredIn
<1> QED
  BY <1>1, <1>2, <1>5, <1>7, <1>8 DEF Goes, Whole

\* The greatest and the least of some of the places of a sequence.
LEMMA Extremes ==
  ASSUME NEW n \in Nat, NEW T \in SUBSET (1 .. n), T # {}
  PROVE  Max(T) \in T /\ Min(T) \in T
<1>1. \E x \in T : \A y \in T : x <= y
  <2>1. T \in SUBSET Nat
    OBVIOUS
  <2> QED
    BY <2>1, LeastIs
<1>2. \E x \in T : \A y \in T : x >= y
  <2> DEFINE U == {k \in Nat : \E j \in T : k = n - j}
  <2>1. \A j \in T : n - j \in Nat
    OBVIOUS
  <2>2. U \in SUBSET Nat /\ U # {}
    BY <2>1
  <2>3. PICK u \in U : \A w \in U : u <= w
    <3> HIDE DEF U
    <3> QED
      BY <2>2, LeastIs
  <2>4. PICK m \in T : u = n - m
    OBVIOUS
  <2>5. ASSUME NEW j \in T PROVE m >= j
    <3>1. n - j \in U
      BY <2>1
    <3>2. n - m <= n - j
      BY <2>3, <2>4, <3>1
    <3>3. j \in Nat /\ m \in Nat
      OBVIOUS
    <3> HIDE DEF U
    <3> QED
      BY <3>2, <3>3
  <2> QED
    BY <2>5
<1> QED
  BY <1>1, <1>2 DEF Max, Min

\* And so is whatever a keeper does with a section.
LEMMA IngestIs ==
  ASSUME NEW f, Whole(f), NEW p \in DOMAIN f, f[p].is \in Keepers, NEW s, Section(s)
  PROVE  Goes(f, Ingest(f, p, s))
<1>1. Tree(f, {})
  BY DEF Whole
<1>2. PICK store : store = f[p].data.store
  OBVIOUS
<1>3. PICK n : n = Len(store)
  OBVIOUS
<1>4. n \in Nat /\ DOMAIN store = 1 .. n
  BY <1>1, <1>2, <1>3, KeptAre
<1>5. PICK there : there = {j \in DOMAIN store : f[store[j]].data.class = s.class}
  OBVIOUS
<1>6. PICK same : same = {j \in there : f[store[j]].data.shown.key = s.key}
  OBVIOUS
<1>7. there = TablesIn(f, p, s.class) /\ same = {j \in there : Matches(f, store[j], s)}
  BY <1>2, <1>5, <1>6 DEF TablesIn, Matches
<1>8. there \in SUBSET (1 .. n) /\ same \in SUBSET (1 .. n)
  BY <1>4, <1>5, <1>6
<1>9. Classes[s.class].ingest \in {"setOnly", "key", "add"}
  <2>1. s.class \in DOMAIN Classes
    BY DEF Section
  <2> QED
    BY <2>1 DEF Classes, Class, pat, pmt, nit, sdt, eit, tot, mgt, vct, atsc_eit, atsc_ett, stt
<1>10. CASE Classes[s.class].ingest = "setOnly"
  <2>1. CASE there = {}
    <3>1. Admits(f, p, s)
      BY <1>2, <1>5, <2>1 DEF Admits
    <3>2. Ingest(f, p, s) = Add(f, p, s)
      BY <1>7, <1>10, <2>1 DEF Ingest
    <3> QED
      BY <3>1, <3>2, AddGoes
  <2>2. CASE there # {}
    <3>1. PICK m : m = Max(there)
      OBVIOUS
    <3>2. m \in there
      BY <1>4, <1>8, <2>2, <3>1, Extremes
    <3>3. m \in DOMAIN store /\ f[store[m]].data.class = s.class
      BY <1>5, <3>2
    <3>4. Ingest(f, p, s) = Store(f, f[p].data.store[m], s)
      BY <1>2, <1>7, <1>10, <2>2, <3>1 DEF Ingest
    <3>5. Goes(f, Store(f, f[p].data.store[m], s))
      BY <1>2, <1>10, <3>3, StoreGoes
    <3> QED
      BY <3>4, <3>5
  <2> QED
    BY <2>1, <2>2
<1>11. CASE Classes[s.class].ingest = "key"
  <2>1. CASE same = {}
    <3>1. Admits(f, p, s)
      BY <1>2, <1>5, <1>6, <1>11, <2>1, SMTT(40) DEF Admits
    <3>2. Ingest(f, p, s) = Add(f, p, s)
      BY <1>2, <1>7, <1>11, <2>1 DEF Ingest
    <3> QED
      BY <3>1, <3>2, AddGoes
  <2>2. CASE same # {}
    <3>1. PICK m : m = Min(same)
      OBVIOUS
    <3>2. m \in same
      BY <1>4, <1>8, <2>2, <3>1, Extremes
    <3>3. m \in DOMAIN store /\ f[store[m]].data.class = s.class /\ f[store[m]].data.shown.key = s.key
      BY <1>5, <1>6, <3>2
    <3>4. \/ Ingest(f, p, s) = f
          \/ Ingest(f, p, s) = Store(f, f[p].data.store[m], s)
      <4>1. same = {j \in TablesIn(f, p, s.class) : Matches(f, f[p].data.store[j], s)}
        BY <1>2, <1>7
      <4> QED
        BY <1>11, <2>2, <3>1, <4>1 DEF Ingest
    <3>5. Goes(f, Store(f, f[p].data.store[m], s))
      BY <1>2, <1>11, <3>3, StoreGoes
    <3> QED
      BY <3>4, <3>5, GoesSelf
  <2> QED
    BY <2>1, <2>2
<1>12. CASE Classes[s.class].ingest = "add"
  <2>1. Admits(f, p, s)
    BY <1>12 DEF Admits
  <2>2. Ingest(f, p, s) = Add(f, p, s)
    BY <1>12 DEF Ingest
  <2> QED
    BY <2>1, <2>2, AddGoes
<1> QED
  BY <1>9, <1>10, <1>11, <1>12

-----------------------------------------------------------------------------
(* Whatever a parser takes.                                                *)

\* A new decode is below nothing, and whole.
LEMMA NewDecodeIs ==
  ASSUME NEW f, Whole(f), NEW p, NEW c, c = Fresh(f), NEW d, d = [m_parser |-> p, store |-> <<>>, decoded |-> <<>>],
         NEW g, g = Put(f, c, Decoder("decode", Null, d))
  PROVE  Whole(g) /\ Made(f, "decode", Null, d, c, g)
<1>1. Tree(f, {}) /\ Filed(f)
  BY DEF Whole
<1>2. c \in Nat \ {0} /\ c \notin DOMAIN f
  BY <1>1, FreshIs DEF Tree
<1>3. DOMAIN d = {"m_parser", "store", "decoded"} /\ d.store = <<>>
  OBVIOUS
<1>4. DOMAIN d = Fields["decode"] /\ Empty(d) /\ "decode" \in DOMAIN Level
  BY <1>3 DEF Fields, Empty, Level
<1>5. Puts(f, {}, c, "decode", Null, d, {}, g)
  BY <1>4 DEF Puts
<1>6. /\ Tree(g, {}) /\ Includes(f, c, g)
      /\ g[c].is = "decode" /\ g[c].parent = Null /\ g[c].data = d
  BY <1>1, <1>2, <1>5, PutIs
<1>7. Made(f, "decode", Null, d, c, g)
  BY <1>2, <1>6 DEF Made, Includes
<1>8. Filed(g)
  BY <1>1, <1>3, <1>7, FiledMade
<1> QED
  BY <1>6, <1>7, <1>8 DEF Whole

\* A new network leaves the tree whole.
LEMMA NewNetworkIs ==
  ASSUME NEW f, Whole(f), NEW p \in DOMAIN f, f[p].is = "decode",
         NEW d, d = [store |-> <<>>, decoded |-> <<>>, services |-> <<>>, descriptors |-> <<>>],
         NEW c, c = Fresh(f), NEW g, g = New(f, "network", p, d)
  PROVE  Whole(g) /\ Made(f, "network", p, d, c, g)
<1>1. Tree(f, {}) /\ Filed(f)
  BY DEF Whole
<1>2. DOMAIN d = {"store", "decoded", "services", "descriptors"} /\ d.store = <<>> /\ d.services = <<>> /\ d.descriptors = <<>>
  OBVIOUS
<1>3. DOMAIN d = Fields["network"] /\ Empty(d)
  BY <1>2 DEF Fields, Empty
<1>4. "network" \in DOMAIN Level /\ Level[f[p].is] < Level["network"]
  BY DEF Level
<1>5. Tree(g, {}) /\ Made(f, "network", p, d, c, g)
  BY <1>1, <1>3, <1>4, NewNodeIs
<1>6. Filed(g)
  BY <1>1, <1>2, <1>5, FiledMade
<1> QED
  BY <1>5, <1>6 DEF Whole

\* Node c is a new one, and neither a decode nor a network.
LEMMA MadeLater ==
  ASSUME NEW f, NEW g, NEW is, is \notin {"decode", "network"}, NEW p, NEW d, NEW c, Made(f, is, p, d, c, g)
  PROVE  Later(f, g)
BY DEF Made, Later

\* A service is found, or made and entered.
Served(f, v) == Goes(f, v.node) /\ v.at \in DOMAIN v.node /\ v.node[v.at].is = "service"

\* fetch_network_service finds or makes a service of the network.
LEMMA ServiceIs ==
  ASSUME NEW f, Whole(f), NEW n \in DOMAIN f, f[n].is = "network", NEW ts
  PROVE  Served(f, fetch_network_service(f, n, ts))
<1>1. Tree(f, {}) /\ Filed(f)
  BY DEF Whole
<1>2. Shaped(f, n) /\ Keeps(f, {}, n, f[n].data)
  BY <1>1 DEF Tree
<1>3. DOMAIN f[n].data = {"store", "decoded", "services", "descriptors"}
  BY <1>2 DEF Shaped, Fields
<1>4. PICK services : services = f[n].data.services
  OBVIOUS
<1>5. KeepsServices(f, {}, n, services)
  BY <1>2, <1>3, <1>4 DEF Keeps
<1>6. CASE ts \in DOMAIN services
  <2>1. PICK v : v = fetch_network_service(f, n, ts)
    OBVIOUS
  <2>2. v.node = f /\ v.at = services[ts]
    BY <1>4, <1>6, <2>1 DEF fetch_network_service
  <2>3. services[ts] \in DOMAIN f /\ f[services[ts]].is = "service"
    BY <1>5, <1>6 DEF KeepsServices, Mine
  <2>4. Goes(f, f)
    BY GoesSelf
  <2> QED
    BY <2>1, <2>2, <2>3, <2>4 DEF Served
<1>7. CASE ts \notin DOMAIN services
  <2>1. PICK c : c = Fresh(f)
    OBVIOUS
  <2>2. PICK d : d = [store |-> <<>>, decoded |-> <<>>]
    OBVIOUS
  <2>3. PICK g : g = New(f, "service", n, d)
    OBVIOUS
  <2>4. DOMAIN d = {"store", "decoded"} /\ d.store = <<>>
    BY <2>2
  <2>5. DOMAIN d = Fields["service"] /\ Empty(d)
    BY <2>4 DEF Fields, Empty
  <2>6. "service" \in DOMAIN Level /\ Level[f[n].is] < Level["service"]
    BY DEF Level
  <2>7. Tree(g, {}) /\ Made(f, "service", n, d, c, g)
    BY <1>1, <2>1, <2>3, <2>5, <2>6, NewNodeIs
  <2>8. Filed(g)
    BY <1>1, <2>4, <2>7, FiledMade
  <2>9. /\ c \in DOMAIN g /\ g[c].is = "service" /\ g[c].parent = n
        /\ n \in DOMAIN g /\ g[n].data = f[n].data
        /\ \A i \in DOMAIN f : i \in DOMAIN g /\ g[i].is = f[i].is /\ g[i].parent = f[i].parent
    BY <2>7 DEF Made
  <2>10. PICK more : more = Put(services, ts, c)
    OBVIOUS
  <2>11. DOMAIN more = DOMAIN services \cup {ts} /\ more[ts] = c /\ \A x \in DOMAIN services \ {ts} : more[x] = services[x]
    BY <2>10 DEF Put
  <2>12. KeepsServices(g, {}, n, more)
    <3>1. \A x \in DOMAIN services : Mine(g, {}, n, services[x]) /\ g[services[x]].is = "service"
      BY <1>5, <2>9 DEF KeepsServices, Mine
    <3>2. Mine(g, {}, n, c)
      BY <2>9 DEF Mine
    <3> QED
      BY <2>9, <2>11, <3>1, <3>2 DEF KeepsServices
  <2>13. PICK h : FieldEdits(g, n, "services", more, h)
    BY DEF FieldEdits
  <2>14. Tree(h, {}) /\ FieldSet(g, n, "services", more, h)
    BY <1>3, <2>7, <2>9, <2>12, <2>13, FieldIs
  <2>15. Alike(g, h)
    <3>1. ASSUME NEW i \in DOMAIN g
          PROVE  /\ h[i].is = g[i].is
                 /\ g[i].is \in Keepers => KeeperSame(g, h, i)
                 /\ g[i].is = "table" => TableSame(g, h, i)
      <4>1. h[i].is = g[i].is
        BY <2>14 DEF FieldSet
      <4>2. CASE i # n
        <5>1. h[i].data = g[i].data
          BY <2>14, <4>2 DEF FieldSet
        <5> QED
          BY <4>1, <5>1 DEF KeeperSame, TableSame
      <4>3. CASE i = n
        <5>1. KeeperSame(g, h, n)
          BY <1>3, <2>9, <2>14 DEF FieldSet, Edited, KeeperSame
        <5>2. g[n].is # "table"
          BY <2>9
        <5> QED
          BY <4>1, <4>3, <5>1, <5>2
      <4> QED
        BY <4>2, <4>3
    <3> QED
      BY <2>14, <3>1 DEF Alike, FieldSet
  <2>16. Filed(h)
    BY <2>7, <2>8, <2>15, FiledAlike
  <2>17. Later(f, g)
    BY <2>7, MadeLater
  <2>18. Later(g, h)
    <3>1. ASSUME NEW i \in DOMAIN g, g[i].is = "decode" PROVE h[i].data = g[i].data
      <4>1. i # n
        BY <2>9, <3>1
      <4> QED
        BY <2>14, <4>1 DEF FieldSet
    <3> QED
      BY <2>14, <3>1 DEF Later, FieldSet
  <2>19. Goes(f, h)
    BY <2>14, <2>16, <2>17, <2>18, LaterMore DEF Goes, Whole
  <2>20. c \in DOMAIN h /\ h[c].is = "service"
    BY <2>9, <2>14 DEF FieldSet
  <2>21. PICK v : v = fetch_network_service(f, n, ts)
    OBVIOUS
  <2>22. v.node = h /\ v.at = c
    <3>1. h = [g EXCEPT ![n].data.services = Put(@, ts, c)]
      BY <1>4, <2>9, <2>10, <2>13 DEF FieldEdits
    <3>2. fetch_network_service(f, n, ts) = [node |-> h, at |-> c]
      BY <1>4, <1>7, <2>1, <2>2, <2>3, <3>1 DEF fetch_network_service
    <3> QED
      BY <2>21, <3>2
  <2> QED
    BY <2>19, <2>20, <2>21, <2>22 DEF Served
<1> QED
  BY <1>6, <1>7

\* A section that a decode takes,
LEMMA TakeHereIs ==
  ASSUME NEW f, Whole(f), NEW d \in DOMAIN f, f[d].is = "decode", NEW s, Section(s)
  PROVE  Goes(f, TakeHere(f, d, s))
<1>1. f[d].is \in Keepers
  BY DEF Keepers
<1>2. Goes(f, Ingest(f, d, s))
  BY <1>1, IngestIs
<1> QED
  BY <1>2, GoesSelf DEF TakeHere

\* one that a network takes,
LEMMA TakeNitIs ==
  ASSUME NEW f, Whole(f), NEW n \in DOMAIN f, f[n].is = "network", NEW s, Section(s)
  PROVE  Goes(f, TakeNit(f, n, s))
<1>1. Tree(f, {})
  BY DEF Whole
<1>2. PICK S : S = Range(s.tags)
  OBVIOUS
<1>3. PICK P : P = Range(s.parts)
  OBVIOUS
<1>4. s.tags \in Seq(S) /\ s.parts \in Seq(P)
  BY <1>2, <1>3 DEF Section
<1>5. "descriptors" \in Fields[f[n].is]
  BY DEF Fields
<1>6. PICK a : a = DecodeDescriptors(f, n, s.tags)
  OBVIOUS
<1>7. Stays(f, {}, a)
  BY <1>1, <1>4, <1>5, <1>6, DecodeIs
<1>8. Tree(a, {}) /\ n \in DOMAIN a /\ a[n].is = "network"
  BY <1>7 DEF Stays, Grown, Same
<1>9. "descriptors" \in Fields[a[n].is]
  BY <1>8 DEF Fields
<1>10. PICK b : b = Repeated(a, n, s.tags, s.parts)
  OBVIOUS
<1>11. Stays(a, {}, b)
  BY <1>4, <1>8, <1>9, <1>10, RepeatedIs
<1>12. Stays(f, {}, b)
  BY <1>7, <1>11, StaysMore
<1>13. Goes(f, b)
  BY <1>12, GrownGoes
<1>14. Whole(b) /\ n \in DOMAIN b /\ b[n].is \in Keepers
  BY <1>13 DEF Goes, Later, Keepers
<1>15. Goes(b, Ingest(b, n, s))
  BY <1>14, IngestIs
<1>16. Goes(f, Ingest(b, n, s))
  BY <1>13, <1>15, GoesMore
<1>17. TakeNit(f, n, s) = Ingest(b, n, s)
  BY <1>6, <1>10 DEF TakeNit, Repeated
<1> QED
  BY <1>16, <1>17

\* and one that a service takes leave the tree whole, with the decodes and networks it had.
LEMMA TakeServiceIs ==
  ASSUME NEW f, Whole(f), NEW n \in DOMAIN f, f[n].is = "network", NEW s, Section(s)
  PROVE  Goes(f, TakeService(f, n, s))
<1>1. PICK v : v = fetch_network_service(f, n, s.mux)
  OBVIOUS
<1>2. Served(f, v)
  BY <1>1, ServiceIs
<1>3. Goes(f, v.node) /\ v.at \in DOMAIN v.node /\ v.node[v.at].is \in Keepers
  BY <1>2 DEF Served, Keepers
<1>4. Whole(v.node)
  BY <1>3 DEF Goes
<1>5. Goes(v.node, Ingest(v.node, v.at, s))
  BY <1>3, <1>4, IngestIs
<1>6. Goes(f, Ingest(v.node, v.at, s))
  BY <1>3, <1>5, GoesMore
<1> QED
  BY <1>1, <1>6 DEF TakeService

-----------------------------------------------------------------------------
(* What is below a decoder.                                                *)

\* The nodes and the links of a tree, whatever is kept in them.
Bones(f) ==
  /\ IsFiniteSet(DOMAIN f) /\ DOMAIN f \subseteq Nat \ {0}
  /\ \A i \in DOMAIN f : Shaped(f, i) /\ Up(f, {}, i) /\ Down(f, {}, i)

\* The children of R too.
Wider(f, R) == R \cup UNION {Range(f[j].children) : j \in R \cap DOMAIN f}

\* The five steps of Below.
LEMMA BelowSteps ==
  ASSUME NEW f, NEW i
  PROVE  \E h : h[0] = {i} /\ h[5] = Below(f, i) /\ \A n \in 1 .. 5 : h[n] = Wider(f, h[n - 1])
<1> DEFINE F(g, n) == IF n = 0 THEN {i}
                      ELSE g[n - 1] \cup UNION {Range(f[j].children) : j \in g[n - 1] \cap DOMAIN f}
           reach == CHOOSE g : g = [n \in 0 .. Depth |-> F(g, n)]
<1>1. Depth = 5
  BY DEF Depth
<1>2. PICK a0 : a0 = {i}
  OBVIOUS
<1>3. PICK a1 : a1 = Wider(f, a0)
  OBVIOUS
<1>4. PICK a2 : a2 = Wider(f, a1)
  OBVIOUS
<1>5. PICK a3 : a3 = Wider(f, a2)
  OBVIOUS
<1>6. PICK a4 : a4 = Wider(f, a3)
  OBVIOUS
<1>7. PICK a5 : a5 = Wider(f, a4)
  OBVIOUS
<1>8. PICK h : h = [n \in 0 .. 5 |-> IF n = 0 THEN a0 ELSE IF n = 1 THEN a1 ELSE IF n = 2 THEN a2
                                     ELSE IF n = 3 THEN a3 ELSE IF n = 4 THEN a4 ELSE a5]
  OBVIOUS
<1>9. h[0] = a0 /\ h[1] = a1 /\ h[2] = a2 /\ h[3] = a3 /\ h[4] = a4 /\ h[5] = a5
  BY <1>8
<1>10. ASSUME NEW n \in 0 .. 5 PROVE h[n] = F(h, n)
  <2>1. n = 0 \/ n = 1 \/ n = 2 \/ n = 3 \/ n = 4 \/ n = 5
    OBVIOUS
  <2>2. CASE n = 0
    BY <1>2, <1>9, <2>2
  <2>3. CASE n = 1
    BY <1>3, <1>9, <2>3 DEF Wider
  <2>4. CASE n = 2
    BY <1>4, <1>9, <2>4 DEF Wider
  <2>5. CASE n = 3
    BY <1>5, <1>9, <2>5 DEF Wider
  <2>6. CASE n = 4
    BY <1>6, <1>9, <2>6 DEF Wider
  <2>7. CASE n = 5
    BY <1>7, <1>9, <2>7 DEF Wider
  <2> QED
    BY <2>1, <2>2, <2>3, <2>4, <2>5, <2>6, <2>7
<1>11. h = [n \in 0 .. 5 |-> F(h, n)]
  <2> HIDE DEF F
  <2> QED
    BY <1>8, <1>10
<1>12. reach = [n \in 0 .. Depth |-> F(reach, n)]
  <2>1. h = [n \in 0 .. Depth |-> F(h, n)]
    BY <1>1, <1>11
  <2> HIDE DEF F
  <2> QED
    BY <2>1
<1>13. reach[Depth] = Below(f, i)
  BY DEF Below
<1> HIDE DEF reach
<1>14. reach[0] = {i} /\ reach[5] = Below(f, i)
  BY <1>1, <1>12, <1>13
<1>15. ASSUME NEW n \in 1 .. 5 PROVE reach[n] = Wider(f, reach[n - 1])
  <2>1. n \in 0 .. Depth /\ n # 0
    BY <1>1
  <2>2. reach[n] = F(reach, n)
    BY <1>12, <2>1
  <2> QED
    BY <2>1, <2>2 DEF Wider
<1> QED
  BY <1>14, <1>15

\* B has i, and of each of its nodes the children too; all but i are below one of B.
Branch(f, i, B) ==
  /\ i \in B /\ B \subseteq DOMAIN f
  /\ \A j \in B : \A k \in DOMAIN f[j].children : f[j].children[k] \in B
  /\ \A j \in B \ {i} : f[j].is # "decode" /\ f[j].parent \in B /\ Level[f[j].is] > Level[f[i].is]

\* There are six levels.
LEMMA LevelsAre ==
  ASSUME NEW f, Bones(f), NEW i \in DOMAIN f
  PROVE  Level[f[i].is] \in 0 .. 5
<1>1. f[i].is \in DOMAIN Level
  BY DEF Bones, Shaped
<1> QED
  BY <1>1 DEF Level

\* A child is of a higher level.
LEMMA ChildIs ==
  ASSUME NEW f, Bones(f), NEW i \in DOMAIN f, NEW k \in DOMAIN f[i].children
  PROVE  /\ f[i].children[k] \in DOMAIN f /\ f[f[i].children[k]].parent = i /\ f[f[i].children[k]].linkedIdx = k
         /\ f[f[i].children[k]].is # "decode" /\ Level[f[f[i].children[k]].is] > Level[f[i].is]
<1>1. PICK c : c = f[i].children[k]
  OBVIOUS
<1>2. c \in DOMAIN f /\ f[c].parent = i /\ f[c].linkedIdx = k
  BY <1>1 DEF Bones, Down, Mine
<1>3. Up(f, {}, c)
  BY <1>2 DEF Bones
<1>4. i # Null
  BY DEF Bones, Null
<1>5. f[c].is # "decode" /\ Level[f[i].is] < Level[f[c].is]
  BY <1>2, <1>3, <1>4 DEF Up
<1>6. Level[f[i].is] \in 0 .. 5 /\ Level[f[c].is] \in 0 .. 5
  BY <1>2, LevelsAre
<1> QED
  BY <1>1, <1>2, <1>5, <1>6

\* What has been reached after n steps; what the last of them reached is n levels down.
Reached(f, i, R, last, n) ==
  /\ i \in R /\ R \subseteq DOMAIN f /\ last \subseteq R
  /\ \A j \in last : \A k \in DOMAIN f[j].children : f[j].children[k] \in R
  /\ \A j \in R \ last : Level[f[j].is] >= n
  /\ \A j \in R \ {i} : f[j].is # "decode" /\ f[j].parent \in R /\ Level[f[j].is] > Level[f[i].is]

\* One more step reaches the children of all, and lower levels.
LEMMA ReachedMore ==
  ASSUME NEW f, Bones(f), NEW i \in DOMAIN f, NEW R, NEW last, NEW n \in Nat, Reached(f, i, R, last, n),
         NEW W, W = Wider(f, R)
  PROVE  Reached(f, i, W, R, n + 1)
<1>1. R \subseteq DOMAIN f /\ i \in R
  BY DEF Reached
<1>2. \A c : c \in W <=> c \in R \/ \E j \in R : \E k \in DOMAIN f[j].children : c = f[j].children[k]
  BY <1>1 DEF Wider, Range
<1>3. \A j \in R : \A k \in DOMAIN f[j].children : f[j].children[k] \in W
  BY <1>2
<1>4. ASSUME NEW c \in W \ R
      PROVE  /\ c \in DOMAIN f /\ f[c].is # "decode" /\ f[c].parent \in R
             /\ Level[f[c].is] > Level[f[i].is] /\ Level[f[c].is] >= n + 1
  <2>1. PICK j \in R : \E k \in DOMAIN f[j].children : c = f[j].children[k]
    BY <1>2, <1>4
  <2>2. j \notin last
    BY <1>4, <2>1 DEF Reached
  <2>3. Level[f[j].is] >= n
    BY <2>1, <2>2, SMTT(40) DEF Reached
  <2>4. c \in DOMAIN f /\ f[c].parent = j /\ f[c].is # "decode" /\ Level[f[c].is] > Level[f[j].is]
    BY <1>1, <2>1, ChildIs
  <2>5. Level[f[c].is] \in 0 .. 5 /\ Level[f[j].is] \in 0 .. 5 /\ Level[f[i].is] \in 0 .. 5
    BY <1>1, <2>1, <2>4, LevelsAre
  <2>6. j = i \/ Level[f[j].is] > Level[f[i].is]
    BY <2>1 DEF Reached
  <2> QED
    BY <2>1, <2>3, <2>4, <2>5, <2>6
<1>5. \A j \in W \ {i} : f[j].is # "decode" /\ f[j].parent \in W /\ Level[f[j].is] > Level[f[i].is]
  <2>1. \A j \in R : j \in W
    BY <1>2
  <2> QED
    BY <1>4, <2>1 DEF Reached
<1>6. W \subseteq DOMAIN f /\ R \subseteq W /\ i \in W
  BY <1>1, <1>2, <1>4
<1>7. \A j \in W \ R : Level[f[j].is] >= n + 1
  BY <1>4
<1> QED
  BY <1>3, <1>5, <1>6, <1>7 DEF Reached

\* Below is closed under children: no path is longer than the levels.
LEMMA BelowIs ==
  ASSUME NEW f, Bones(f), NEW i \in DOMAIN f
  PROVE  Branch(f, i, Below(f, i))
<1>1. PICK h : h[0] = {i} /\ h[5] = Below(f, i) /\ \A n \in 1 .. 5 : h[n] = Wider(f, h[n - 1])
  BY BelowSteps
<1>2. Reached(f, i, h[0], {}, 0)
  <2>1. Level[f[i].is] >= 0
    BY LevelsAre
  <2> QED
    BY <1>1, <2>1 DEF Reached
<1>3. h[1] = Wider(f, h[0]) /\ h[2] = Wider(f, h[1]) /\ h[3] = Wider(f, h[2]) /\ h[4] = Wider(f, h[3]) /\ h[5] = Wider(f, h[4])
  <2>1. \A n \in {1, 2, 3, 4, 5} : h[n] = Wider(f, h[n - 1])
    BY <1>1
  <2>2. 1 - 1 = 0 /\ 2 - 1 = 1 /\ 3 - 1 = 2 /\ 4 - 1 = 3 /\ 5 - 1 = 4
    OBVIOUS
  <2> QED
    BY <2>1, <2>2
<1>4. Reached(f, i, h[1], h[0], 0 + 1)
  BY <1>2, <1>3, ReachedMore
<1>5. Reached(f, i, h[2], h[1], 1 + 1)
  BY <1>3, <1>4, ReachedMore
<1>6. Reached(f, i, h[3], h[2], 2 + 1)
  BY <1>3, <1>5, ReachedMore
<1>7. Reached(f, i, h[4], h[3], 3 + 1)
  BY <1>3, <1>6, ReachedMore
<1>8. Reached(f, i, h[5], h[4], 4 + 1)
  BY <1>3, <1>7, ReachedMore
<1>9. PICK B : B = h[5]
  OBVIOUS
<1>10. Reached(f, i, B, h[4], 5)
  BY <1>8, <1>9
<1>11. ASSUME NEW j \in B, NEW k \in DOMAIN f[j].children PROVE f[j].children[k] \in B
  <2>1. CASE j \in h[4]
    BY <1>10, <2>1 DEF Reached
  <2>2. CASE j \notin h[4]
    <3>1. j \in DOMAIN f /\ Level[f[j].is] >= 5
      BY <1>10, <2>2 DEF Reached
    <3>2. PICK c : c = f[j].children[k]
      OBVIOUS
    <3>3. c \in DOMAIN f /\ Level[f[c].is] > Level[f[j].is]
      BY <3>1, <3>2, ChildIs
    <3>4. Level[f[c].is] \in 0 .. 5 /\ Level[f[j].is] \in 0 .. 5
      BY <3>1, <3>3, LevelsAre
    <3> QED
      BY <3>1, <3>3, <3>4
  <2> QED
    BY <2>1, <2>2
<1>12. Branch(f, i, B)
  BY <1>10, <1>11 DEF Reached, Branch
<1> QED
  BY <1>1, <1>9, <1>12

-----------------------------------------------------------------------------
(* Deleting a decoder.                                                     *)

\* g is f without those gone, and of the higher levels some others.
Trimmed(f, gone, level, g) ==
  /\ Bones(g) /\ DOMAIN g \subseteq DOMAIN f \ gone
  /\ \A j \in DOMAIN g : g[j].is = f[j].is /\ g[j].parent = f[j].parent
  /\ \A j \in DOMAIN f \ DOMAIN g : j \in gone \/ Level[f[j].is] > level

\* g is f without the branch B of i, and i is in no slot of its parent.
Cuts(f, i, B, g) ==
  /\ DOMAIN g = DOMAIN f \ B
  /\ \A j \in DOMAIN g : /\ DOMAIN g[j] = DOMAIN f[j] /\ g[j].is = f[j].is /\ g[j].parent = f[j].parent
                         /\ g[j].linkedIdx = f[j].linkedIdx /\ g[j].genMapIdx = f[j].genMapIdx
                         /\ DOMAIN g[j].data = DOMAIN f[j].data
                         /\ j # f[i].parent => g[j].children = f[j].children
                         /\ j = f[i].parent => g[j].children = Without(f[j].children, {f[i].linkedIdx})

\* ~Decoder deletes a branch and clears the slot.
LEMMA DeleteCuts ==
  ASSUME NEW f, Bones(f), NEW i \in DOMAIN f, NEW B, B = Below(f, i)
  PROVE  Cuts(f, i, B, Delete(f, i))
<1>1. Branch(f, i, B)
  BY BelowIs
<1>2. B \subseteq DOMAIN f
  BY <1>1 DEF Branch
<1>3. PICK p : p = f[i].parent
  OBVIOUS
<1>4. PICK idx : idx = f[i].linkedIdx
  OBVIOUS
<1>5. Up(f, {}, i)
  BY DEF Bones
<1>6. PICK h : h = unlinkChild(f, p, idx)
  OBVIOUS
<1>7. PICK g : g = Without(h, B)
  OBVIOUS
<1>8. Delete(f, i) = g
  BY <1>2, <1>3, <1>4, <1>6, <1>7 DEF Delete
<1>9. CASE p = Null
  <2>1. h = f
    BY <1>6, <1>9 DEF unlinkChild
  <2>2. DOMAIN g = DOMAIN f \ B /\ \A j \in DOMAIN g : g[j] = f[j]
    BY <1>7, <2>1 DEF Without
  <2>3. \A j \in DOMAIN f : j # p
    BY <1>9 DEF Bones, Null
  <2>4. Cuts(f, i, B, g)
    BY <1>3, <2>2, <2>3 DEF Cuts
  <2> QED
    BY <1>8, <2>4
<1>10. CASE p # Null
  <2>1. p \in DOMAIN f
    BY <1>3, <1>5, <1>10 DEF Up
  <2>2. PICK slots : slots = Without(f[p].children, {idx})
    OBVIOUS
  <2>3. h = [f EXCEPT ![p].children = slots]
    BY <1>6, <1>10, <2>1, <2>2 DEF unlinkChild
  <2>4. DOMAIN f[p] = NodeFields
    BY <2>1 DEF Bones, Shaped
  <2>5. DOMAIN h = DOMAIN f /\ h[p] = [f[p] EXCEPT !["children"] = slots] /\ \A j \in DOMAIN f \ {p} : h[j] = f[j]
    BY <2>1, <2>3
  <2>6. Edited(f[p], "children", slots, h[p])
    <3>1. Edits(f[p], "children", slots, h[p])
      BY <2>5 DEF Edits
    <3>2. "children" \in DOMAIN f[p]
      BY <2>4 DEF NodeFields
    <3> QED
      BY <3>1, <3>2, EditIs
  <2>7. /\ DOMAIN h[p] = DOMAIN f[p] /\ h[p].children = slots /\ h[p].is = f[p].is /\ h[p].parent = f[p].parent
        /\ h[p].linkedIdx = f[p].linkedIdx /\ h[p].genMapIdx = f[p].genMapIdx /\ h[p].data = f[p].data
    BY <2>4, <2>6 DEF Edited, NodeFields
  <2>8. DOMAIN g = DOMAIN f \ B /\ \A j \in DOMAIN g : g[j] = h[j]
    BY <1>7, <2>5 DEF Without
  <2>9. ASSUME NEW j \in DOMAIN g
        PROVE  /\ DOMAIN g[j] = DOMAIN f[j] /\ g[j].is = f[j].is /\ g[j].parent = f[j].parent
               /\ g[j].linkedIdx = f[j].linkedIdx /\ g[j].genMapIdx = f[j].genMapIdx
               /\ DOMAIN g[j].data = DOMAIN f[j].data
               /\ j # p => g[j].children = f[j].children
               /\ j = p => g[j].children = slots
    <3>1. CASE j = p
      BY <2>7, <2>8, <3>1
    <3>2. CASE j # p
      BY <2>5, <2>8, <3>2
    <3> QED
      BY <3>1, <3>2
  <2>10. Cuts(f, i, B, g)
    BY <1>3, <1>4, <2>2, <2>8, <2>9 DEF Cuts
  <2> QED
    BY <1>8, <2>10
<1> QED
  BY <1>9, <1>10

\* What is left of a tree without a branch is a tree.
LEMMA CutIs ==
  ASSUME NEW f, Bones(f), NEW i \in DOMAIN f, NEW B, Branch(f, i, B), NEW g, Cuts(f, i, B, g)
  PROVE  Trimmed(f, {i}, Level[f[i].is], g)
<1>1. PICK p : p = f[i].parent
  OBVIOUS
<1>2. PICK idx : idx = f[i].linkedIdx
  OBVIOUS
<1>3. /\ DOMAIN g = DOMAIN f \ B
      /\ \A j \in DOMAIN g : /\ DOMAIN g[j] = DOMAIN f[j] /\ g[j].is = f[j].is /\ g[j].parent = f[j].parent
                             /\ g[j].linkedIdx = f[j].linkedIdx /\ g[j].genMapIdx = f[j].genMapIdx
                             /\ DOMAIN g[j].data = DOMAIN f[j].data
                             /\ j # p => g[j].children = f[j].children
                             /\ j = p => g[j].children = Without(f[j].children, {idx})
  BY <1>1, <1>2 DEF Cuts
<1>4. IsFiniteSet(DOMAIN g) /\ DOMAIN g \subseteq Nat \ {0}
  <2>1. IsFiniteSet(DOMAIN f) /\ DOMAIN f \subseteq Nat \ {0} /\ DOMAIN g \in SUBSET DOMAIN f
    BY <1>3 DEF Bones
  <2> QED
    BY <2>1, FS_Subset
\* The children that are left of a node, in their slots.
<1>5. ASSUME NEW j \in DOMAIN g, NEW k \in DOMAIN g[j].children
      PROVE  /\ k \in DOMAIN f[j].children /\ g[j].children[k] = f[j].children[k] /\ f[j].children[k] # i
  <2>1. CASE j # p
    <3>1. f[j].children[k] # i
      <4>1. k \in DOMAIN f[j].children /\ j \in DOMAIN f
        BY <1>3, <2>1
      <4> QED
        BY <1>1, <2>1, <4>1, ChildIs
    <3> QED
      BY <1>3, <2>1, <3>1
  <2>2. CASE j = p
    <3>1. PICK slots : slots = Without(f[j].children, {idx})
      OBVIOUS
    <3>2. DOMAIN slots = DOMAIN f[j].children \ {idx} /\ \A l \in DOMAIN slots : slots[l] = f[j].children[l]
      BY <3>1 DEF Without
    <3>3. g[j].children = slots
      BY <1>3, <2>2, <3>1
    <3>4. k \in DOMAIN f[j].children /\ k # idx /\ g[j].children[k] = f[j].children[k] /\ j \in DOMAIN f
      BY <1>3, <3>2, <3>3
    <3>5. f[j].children[k] # i
      BY <1>2, <3>4, ChildIs
    <3> QED
      BY <3>4, <3>5
  <2> QED
    BY <2>1, <2>2
<1>6. ASSUME NEW j \in DOMAIN g PROVE Shaped(g, j) /\ Up(g, {}, j) /\ Down(g, {}, j)
  <2>1. j \in DOMAIN f /\ j \notin B /\ Shaped(f, j) /\ Up(f, {}, j)
    BY <1>3 DEF Bones
  <2>2. Shaped(g, j)
    <3>1. \A k \in DOMAIN g[j].children : k \in Nat /\ k < f[j].genMapIdx
      BY <1>5, <2>1 DEF Shaped
    <3>2. g[j].genMapIdx = f[j].genMapIdx
      BY <1>3
    <3> QED
      BY <1>3, <2>1, <3>1, <3>2 DEF Shaped
  <2>3. Up(g, {}, j)
    <3>1. CASE f[j].is = "decode"
      BY <1>3, <2>1, <3>1 DEF Up
    <3>2. CASE f[j].is # "decode"
      <4>1. PICK q : q = f[j].parent
        OBVIOUS
      <4>2. PICK l : l = f[j].linkedIdx
        OBVIOUS
      <4>3. q \in DOMAIN f /\ Level[f[q].is] < Level[f[j].is] /\ l \in DOMAIN f[q].children /\ f[q].children[l] = j
        BY <2>1, <3>2, <4>1, <4>2 DEF Up
      <4>4. q \notin B
        BY <2>1, <4>3 DEF Branch
      <4>5. q \in DOMAIN g /\ g[q].is = f[q].is
        BY <1>3, <4>3, <4>4
      <4>6. j # i
        BY <2>1 DEF Branch
      <4>7. l \in DOMAIN g[q].children /\ g[q].children[l] = j
        <5>1. CASE q # p
          BY <1>3, <4>3, <4>5, <5>1
        <5>2. CASE q = p
          <6>1. l # idx
            <7>1. f[i].is = "decode" \/ f[p].children[idx] = i
              BY <1>1, <1>2 DEF Bones, Up
            <7>2. f[i].is = "decode" => p = Null
              BY <1>1 DEF Bones, Up
            <7>3. q # Null
              BY <4>3 DEF Bones, Null
            <7> QED
              BY <4>3, <4>6, <5>2, <7>1, <7>2, <7>3
          <6>2. PICK slots : slots = Without(f[q].children, {idx})
            OBVIOUS
          <6>3. DOMAIN slots = DOMAIN f[q].children \ {idx} /\ \A k \in DOMAIN slots : slots[k] = f[q].children[k]
            BY <6>2 DEF Without
          <6>4. g[q].children = slots
            BY <1>3, <4>5, <5>2, <6>2
          <6> QED
            BY <4>3, <6>1, <6>3, <6>4
        <5> QED
          BY <5>1, <5>2
      <4>8. g[j].is = f[j].is /\ g[j].parent = q /\ g[j].linkedIdx = l
        BY <1>3, <4>1, <4>2
      <4> QED
        BY <3>2, <4>3, <4>5, <4>7, <4>8 DEF Up
    <3> QED
      BY <3>1, <3>2
  <2>4. Down(g, {}, j)
    <3> SUFFICES ASSUME NEW k \in DOMAIN g[j].children
                 PROVE  Mine(g, {}, j, g[j].children[k]) /\ g[g[j].children[k]].linkedIdx = k
      BY DEF Down
    <3>1. PICK c : c = f[j].children[k]
      OBVIOUS
    <3>2. k \in DOMAIN f[j].children /\ g[j].children[k] = c /\ c # i
      BY <1>5, <3>1
    <3>3. c \in DOMAIN f /\ f[c].parent = j /\ f[c].linkedIdx = k
      BY <2>1, <3>1, <3>2, ChildIs
    <3>4. c \notin B
      BY <2>1, <3>2, <3>3 DEF Branch
    <3>5. c \in DOMAIN g /\ g[c].parent = j /\ g[c].linkedIdx = k
      BY <1>3, <3>3, <3>4
    <3> QED
      BY <3>2, <3>5 DEF Mine
  <2> QED
    BY <2>2, <2>3, <2>4
<1>7. Bones(g)
  BY <1>4, <1>6 DEF Bones
<1>8. \A j \in DOMAIN f \ DOMAIN g : j = i \/ Level[f[j].is] > Level[f[i].is]
  BY <1>3 DEF Branch
<1>9. i \notin DOMAIN g
  BY <1>3 DEF Branch
<1> QED
  BY <1>3, <1>7, <1>8, <1>9 DEF Trimmed

\* So deleting a decoder leaves a tree, without it and without others of higher levels only.
LEMMA DeleteIs ==
  ASSUME NEW f, Bones(f), NEW i \in DOMAIN f
  PROVE  Trimmed(f, {i}, Level[f[i].is], Delete(f, i))
<1>1. PICK B : B = Below(f, i)
  OBVIOUS
<1>2. Branch(f, i, B)
  BY <1>1, BelowIs
<1>3. PICK g : g = Delete(f, i)
  OBVIOUS
<1>4. Cuts(f, i, B, g)
  BY <1>1, <1>3, DeleteCuts
<1> QED
  BY <1>2, <1>3, <1>4, CutIs

-----------------------------------------------------------------------------
(* Deleting some, and all.                                                 *)

\* Induction on the finite subsets of S, by their numbers.
LEMMA Subsets ==
  ASSUME NEW S, IsFiniteSet(S), NEW T, \A r \in SUBSET S : (\A x \in r : r \ {x} \in T) => r \in T
  PROVE  S \in T
<1> DEFINE N == {n \in Nat : \A r \in SUBSET S : Cardinality(r) = n => r \in T}
<1>1. 0 \in N
  <2> SUFFICES ASSUME NEW r \in SUBSET S, Cardinality(r) = 0 PROVE r \in T
    OBVIOUS
  <2>1. r = {}
    BY FS_Subset, FS_EmptySet
  <2> QED
    BY <2>1
<1>2. ASSUME NEW n \in N PROVE n + 1 \in N
  <2> SUFFICES ASSUME NEW r \in SUBSET S, Cardinality(r) = n + 1 PROVE r \in T
    OBVIOUS
  <2>1. ASSUME NEW x \in r PROVE r \ {x} \in T
    <3>1. IsFiniteSet(r)
      BY FS_Subset
    <3>2. Cardinality(r \ {x}) = Cardinality(r) - 1
      BY <3>1, FS_RemoveElement
    <3>3. Cardinality(r \ {x}) = n /\ r \ {x} \in SUBSET S
      BY <3>2
    <3> QED
      BY <3>3
  <2> QED
    BY <2>1
<1>3. N = Nat
  <2>1. N \in SUBSET Nat
    OBVIOUS
  <2> HIDE DEF N
  <2> QED
    BY <1>1, <1>2, <2>1, Induct
<1>4. Cardinality(S) \in N
  BY <1>3, FS_CardinalityType
<1> QED
  BY <1>4

\* h tells what is left when those of a subset are deleted, one after the other.
Deletes(f, S, h) ==
  /\ h[{}] = f /\ h[S] = DeleteAll(f, S)
  /\ \A r \in SUBSET S : r # {} => \E x \in r : h[r] = Delete(h[r \ {x}], x)

\* Such a function is what the fold of DeleteAll is.
LEMMA DeleteSteps ==
  ASSUME NEW f, NEW S, IsFiniteSet(S)
  PROVE  \E h : Deletes(f, S, h)
<1> DEFINE F(g, r) == IF r = {} THEN f ELSE Delete(g[r \ {CHOOSE x \in r : TRUE}], CHOOSE x \in r : TRUE)
           Ok(g, n) == DOMAIN g = SUBSET S /\ \A r \in SUBSET S : Cardinality(r) <= n => g[r] = F(g, r)
           N == {n \in Nat : \E g : Ok(g, n)}
<1>1. \A r \in SUBSET S : IsFiniteSet(r) /\ Cardinality(r) \in Nat /\ Cardinality(r) <= Cardinality(S)
  BY FS_Subset, FS_CardinalityType
<1>2. \A r \in SUBSET S : r # {} => (CHOOSE x \in r : TRUE) \in r
  OBVIOUS
<1>3. \A r \in SUBSET S : r # {} => LET q == r \ {CHOOSE x \in r : TRUE}
                                    IN  q \in SUBSET S /\ Cardinality(q) = Cardinality(r) - 1
  BY <1>1, <1>2, FS_RemoveElement
<1>4. 0 \in N
  <2>1. PICK g : g = [r \in SUBSET S |-> f]
    OBVIOUS
  <2>2. ASSUME NEW r \in SUBSET S, Cardinality(r) <= 0 PROVE g[r] = F(g, r)
    <3>1. r = {}
      BY <1>1, <2>2, FS_EmptySet
    <3> QED
      BY <2>1, <3>1
  <2>3. Ok(g, 0)
    BY <2>1, <2>2
  <2> QED
    BY <2>3
<1>5. ASSUME NEW n \in N PROVE n + 1 \in N
  <2>1. PICK g : Ok(g, n)
    OBVIOUS
  <2>2. PICK h : h = [r \in SUBSET S |-> IF Cardinality(r) <= n THEN g[r] ELSE F(g, r)]
    OBVIOUS
  <2>3. n \in Nat
    OBVIOUS
  <2>4. \A r \in SUBSET S : Cardinality(r) <= n => h[r] = g[r]
    BY <2>2
  <2>5. ASSUME NEW r \in SUBSET S, Cardinality(r) <= n + 1 PROVE h[r] = F(h, r)
    <3>1. h[r] = F(g, r)
      BY <2>1, <2>2
    <3>2. F(g, r) = F(h, r)
      <4>1. CASE r = {}
        BY <4>1
      <4>2. CASE r # {}
        <5>1. PICK q : q = r \ {CHOOSE x \in r : TRUE}
          OBVIOUS
        <5>2. q \in SUBSET S /\ Cardinality(q) = Cardinality(r) - 1
          BY <1>3, <4>2, <5>1
        <5>3. Cardinality(q) <= n
          BY <1>1, <2>3, <2>5, <5>2
        <5>4. h[q] = g[q]
          BY <2>4, <5>2, <5>3
        <5> QED
          BY <4>2, <5>1, <5>4
      <4> QED
        BY <4>1, <4>2
    <3> QED
      BY <3>1, <3>2
  <2>6. Ok(h, n + 1)
    <3> HIDE DEF F
    <3> QED
      BY <2>2, <2>5
  <2>7. \E e : Ok(e, n + 1)
    <3> HIDE DEF Ok
    <3> QED
      BY <2>6
  <2> HIDE DEF Ok
  <2> QED
    BY <2>3, <2>7
<1>6. N = Nat
  <2>1. N \in SUBSET Nat
    OBVIOUS
  <2> HIDE DEF N
  <2> QED
    BY <1>4, <1>5, <2>1, Induct
<1> DEFINE iter == CHOOSE g : g = [r \in SUBSET S |-> F(g, r)]
<1>7. iter = [r \in SUBSET S |-> F(iter, r)]
  <2>1. PICK g : Ok(g, Cardinality(S))
    <3>1. Cardinality(S) \in N
      BY <1>6, FS_CardinalityType
    <3> HIDE DEF Ok
    <3> QED
      BY <3>1
  <2>2. DOMAIN g = SUBSET S /\ \A r \in SUBSET S : g[r] = F(g, r)
    <3> HIDE DEF F
    <3> QED
      BY <1>1, <2>1
  <2>3. PICK e : e = [r \in SUBSET S |-> g[r]]
    OBVIOUS
  <2>4. e = [r \in SUBSET S |-> F(e, r)]
    <3>1. ASSUME NEW r \in SUBSET S PROVE e[r] = F(e, r)
      <4>1. e[r] = F(g, r)
        BY <2>2, <2>3
      <4>2. CASE r = {}
        BY <4>1, <4>2
      <4>3. CASE r # {}
        <5>1. PICK q : q = r \ {CHOOSE x \in r : TRUE}
          OBVIOUS
        <5>2. e[q] = g[q]
          BY <2>3, <5>1
        <5> QED
          BY <4>1, <4>3, <5>1, <5>2
      <4> QED
        BY <4>2, <4>3
    <3> HIDE DEF F
    <3> QED
      BY <2>3, <3>1
  <2> HIDE DEF F
  <2> QED
    BY <2>4
<1>8. iter[S] = DeleteAll(f, S)
  BY DEF DeleteAll, FoldSet, MapThenFoldSet
<1> HIDE DEF iter
<1>9. iter[{}] = f
  BY <1>7
<1>10. ASSUME NEW r \in SUBSET S, r # {} PROVE \E x \in r : iter[r] = Delete(iter[r \ {x}], x)
  <2>1. PICK x : x = CHOOSE y \in r : TRUE
    OBVIOUS
  <2>2. x \in r
    BY <1>2, <1>10, <2>1
  <2>3. iter[r] = Delete(iter[r \ {x}], x)
    BY <1>7, <1>10, <2>1
  <2> QED
    BY <2>2, <2>3
<1> QED
  BY <1>8, <1>9, <1>10 DEF Deletes

\* Those of one level deleted, one after the other.
LEMMA DeleteAllIs ==
  ASSUME NEW f, Bones(f), NEW S \in SUBSET DOMAIN f, NEW level \in Nat, \A i \in S : Level[f[i].is] = level
  PROVE  Trimmed(f, S, level, DeleteAll(f, S))
<1>1. IsFiniteSet(S)
  BY FS_Subset DEF Bones
<1>20. PICK h : Deletes(f, S, h)
  BY <1>1, DeleteSteps
<1>2. /\ h[{}] = f /\ h[S] = DeleteAll(f, S)
      /\ \A r \in SUBSET S : r # {} => \E x \in r : h[r] = Delete(h[r \ {x}], x)
  BY <1>20 DEF Deletes
<1> DEFINE T == {r \in SUBSET S : Trimmed(f, r, level, h[r])}
<1>3. ASSUME NEW r \in SUBSET S, \A x \in r : r \ {x} \in T PROVE r \in T
  <2>1. CASE r = {}
    <3>1. Trimmed(f, {}, level, f)
      BY DEF Trimmed
    <3> QED
      BY <1>2, <2>1, <3>1
  <2>2. CASE r # {}
    <3>1. PICK x \in r : h[r] = Delete(h[r \ {x}], x)
      BY <1>2, <2>2
    <3>2. PICK q : q = r \ {x}
      OBVIOUS
    <3>3. PICK g : g = h[q]
      OBVIOUS
    <3>4. Trimmed(f, q, level, g)
      BY <1>3, <3>2, <3>3
    <3>5. x \in DOMAIN f /\ x \notin q /\ Level[f[x].is] = level /\ ~(level > level)
      BY <3>2
    <3>6. x \in DOMAIN g /\ Bones(g)
      BY <3>4, <3>5 DEF Trimmed
    <3>7. g[x].is = f[x].is
      BY <3>4, <3>6 DEF Trimmed
    <3>8. PICK e : e = Delete(g, x)
      OBVIOUS
    <3>9. Trimmed(g, {x}, level, e)
      BY <3>5, <3>6, <3>7, <3>8, DeleteIs
    <3>10. Bones(e) /\ DOMAIN e \subseteq DOMAIN f \ r
      BY <3>2, <3>4, <3>9 DEF Trimmed
    <3>11. \A j \in DOMAIN e : e[j].is = f[j].is /\ e[j].parent = f[j].parent
      BY <3>4, <3>9 DEF Trimmed
    <3>12. ASSUME NEW j \in DOMAIN f \ DOMAIN e PROVE j \in r \/ Level[f[j].is] > level
      <4>1. CASE j \in DOMAIN g
        <5>1. j = x \/ Level[g[j].is] > level
          BY <3>9, <3>12, <4>1 DEF Trimmed
        <5>2. g[j].is = f[j].is
          BY <3>4, <4>1 DEF Trimmed
        <5> QED
          BY <5>1, <5>2
      <4>2. CASE j \notin DOMAIN g
        BY <3>2, <3>4, <3>12, <4>2 DEF Trimmed
      <4> QED
        BY <4>1, <4>2
    <3>13. Trimmed(f, r, level, e)
      BY <3>10, <3>11, <3>12 DEF Trimmed
    <3>14. h[r] = e
      BY <3>1, <3>2, <3>3, <3>8
    <3> QED
      BY <3>13, <3>14
  <2> QED
    BY <2>1, <2>2
<1>4. S \in T
  <2> HIDE DEF T
  <2> QED
    BY <1>1, <1>3, Subsets
<1> QED
  BY <1>2, <1>4

\* Of any nodes one is of the least level.
LEMMA LowestIs ==
  ASSUME NEW f, Bones(f), NEW S \in SUBSET DOMAIN f, S # {}
  PROVE  \E i \in S : \A j \in S : Level[f[i].is] <= Level[f[j].is]
<1> DEFINE T == {l \in Nat : \E i \in S : l = Level[f[i].is]}
<1>1. \A i \in S : Level[f[i].is] \in Nat
  <2>1. \A i \in S : Level[f[i].is] \in 0 .. 5
    BY LevelsAre
  <2> QED
    BY <2>1
<1>2. T \in SUBSET Nat /\ T # {}
  BY <1>1
<1>3. PICK l \in T : \A m \in T : l <= m
  <2> HIDE DEF T
  <2> QED
    BY <1>2, LeastIs
<1>4. PICK i \in S : l = Level[f[i].is]
  OBVIOUS
<1>5. \A j \in S : Level[f[j].is] \in T
  BY <1>1
<1> QED
  BY <1>3, <1>4, <1>5

\* All networks deleted, and then all decodes: nothing is left.
LEMMA NoneLeft ==
  ASSUME NEW f, Bones(f), NEW N, N = {i \in DOMAIN f : f[i].is = "network"},
         NEW D, D = {i \in DOMAIN f : f[i].is = "decode"}
  PROVE  DOMAIN DeleteAll(DeleteAll(f, N), D) = {}
<1>1. Level["network"] = 1 /\ Level["decode"] = 0
  BY DEF Level
<1>2. PICK g : g = DeleteAll(f, N)
  OBVIOUS
<1>3. Trimmed(f, N, 1, g)
  BY <1>1, <1>2, DeleteAllIs
<1>4. ASSUME NEW i \in D PROVE i \in DOMAIN g /\ Level[g[i].is] = 0
  <2>1. i \in DOMAIN f /\ i \notin N /\ ~(Level[f[i].is] > 1)
    BY <1>1
  <2>2. i \in DOMAIN g
    BY <1>3, <2>1 DEF Trimmed
  <2>3. g[i].is = f[i].is
    BY <1>3, <2>2 DEF Trimmed
  <2> QED
    BY <1>1, <2>2, <2>3
<1>5. PICK h : h = DeleteAll(g, D)
  OBVIOUS
<1>6. Trimmed(g, D, 0, h)
  <2>1. Bones(g)
    BY <1>3 DEF Trimmed
  <2> QED
    BY <1>4, <1>5, <2>1, DeleteAllIs
<1>7. SUFFICES ASSUME DOMAIN h # {} PROVE FALSE
  BY <1>2, <1>5
<1>8. Bones(h)
  BY <1>6 DEF Trimmed
<1>9. PICK i \in DOMAIN h : \A j \in DOMAIN h : Level[h[i].is] <= Level[h[j].is]
  BY <1>7, <1>8, LowestIs
<1>10. i \in DOMAIN f /\ h[i].is = f[i].is /\ i \notin D
  BY <1>3, <1>6 DEF Trimmed
<1>11. h[i].is # "decode"
  BY <1>10
<1>12. h[i].parent \in DOMAIN h /\ Level[h[h[i].parent].is] < Level[h[i].is]
  BY <1>8, <1>11 DEF Bones, Up
<1>13. Level[h[i].is] \in 0 .. 5 /\ Level[h[h[i].parent].is] \in 0 .. 5
  BY <1>8, <1>12, LevelsAre
<1> QED
  BY <1>9, <1>12, <1>13

\* Every node is below a decode.
LEMMA AllBelow ==
  ASSUME NEW f, Bones(f), NEW D, D = {i \in DOMAIN f : f[i].is = "decode"}
  PROVE  DOMAIN f \subseteq UNION {Below(f, d) : d \in D}
<1> DEFINE owned == UNION {Below(f, d) : d \in D}
           S == DOMAIN f \ owned
<1>1. SUFFICES ASSUME S # {} PROVE FALSE
  OBVIOUS
<1>2. PICK i \in S : \A j \in S : Level[f[i].is] <= Level[f[j].is]
  <2>1. S \in SUBSET DOMAIN f
    OBVIOUS
  <2> HIDE DEF S
  <2> QED
    BY <1>1, <2>1, LowestIs
<1>3. i \in DOMAIN f /\ i \notin owned
  OBVIOUS
<1>4. \A d \in D : Branch(f, d, Below(f, d))
  BY BelowIs
<1>5. f[i].is # "decode"
  <2>1. i \in D => i \in Below(f, i)
    BY <1>4 DEF Branch
  <2> QED
    BY <1>3, <2>1
<1>6. PICK p : p = f[i].parent
  OBVIOUS
<1>7. PICK l : l = f[i].linkedIdx
  OBVIOUS
<1>8. p \in DOMAIN f /\ Level[f[p].is] < Level[f[i].is] /\ l \in DOMAIN f[p].children /\ f[p].children[l] = i
  BY <1>3, <1>5, <1>6, <1>7 DEF Bones, Up
<1>9. Level[f[i].is] \in 0 .. 5 /\ Level[f[p].is] \in 0 .. 5
  BY <1>3, <1>8, LevelsAre
<1>10. p \in owned
  <2>1. p \notin S
    BY <1>2, <1>8, <1>9
  <2> QED
    BY <1>8, <2>1
<1>11. PICK d \in D : p \in Below(f, d)
  BY <1>10
<1>12. i \in Below(f, d)
  BY <1>4, <1>8, <1>11 DEF Branch
<1> QED
  BY <1>3, <1>12

-----------------------------------------------------------------------------
(* The invariant of the tables, and its theorems.                          *)

\* The maps have the decodes and the networks of the tree, and the decodes have parsers of ps.
Mapped(f, ds, ns, ps) ==
  /\ \A ts \in DOMAIN ds : ds[ts] \in DOMAIN f /\ f[ds[ts]].is = "decode"
  /\ \A nw \in DOMAIN ns : ns[nw] \in DOMAIN f /\ f[ns[nw]].is = "network"
  /\ \A i \in DOMAIN f : f[i].is = "decode" => i \in Range(ds) /\ f[i].data.m_parser \in ps
  /\ \A i \in DOMAIN f : f[i].is = "network" => i \in Range(ns)

\* The inductive invariant: the tree is whole, and the maps are of its decodes and networks.
LibInv ==
  /\ Whole(node) /\ Mapped(node, decoders, networks, DOMAIN parsers)
  /\ air \in Streams

\* Of a tree without nodes nothing can be wrong.
LEMMA NoNodes ==
  ASSUME NEW f, DOMAIN f = {}
  PROVE  Whole(f)
<1>1. IsFiniteSet(DOMAIN f)
  BY FS_EmptySet
<1> QED
  BY <1>1 DEF Whole, Tree, Filed

\* An entry of a map, which may be a new one.
LEMMA EntryIs ==
  ASSUME NEW m, NEW x, NEW y, NEW e, e = Put(m, x, y), x \in DOMAIN m => m[x] = y
  PROVE  Range(e) = Range(m) \cup {y} /\ \A z \in DOMAIN e : e[z] = y \/ (z \in DOMAIN m /\ e[z] = m[z])
<1>1. DOMAIN e = DOMAIN m \cup {x} /\ e[x] = y /\ \A z \in DOMAIN m \ {x} : e[z] = m[z]
  BY DEF Put
<1>2. \A z \in DOMAIN m : e[z] = m[z]
  BY <1>1
<1> QED
  BY <1>1, <1>2 DEF Range

\* Where no decode or network is new, the maps stay.
LEMMA MappedLater ==
  ASSUME NEW f, NEW g, Later(f, g), NEW ds, NEW ns, NEW ps, Mapped(f, ds, ns, ps)
  PROVE  Mapped(g, ds, ns, ps)
<1>1. ASSUME NEW i \in DOMAIN g, g[i].is \in {"decode", "network"} PROVE i \in DOMAIN f /\ g[i].is = f[i].is
  BY <1>1 DEF Later
<1>2. \A i \in DOMAIN g : g[i].is = "decode" => i \in Range(ds) /\ g[i].data.m_parser \in ps
  BY <1>1 DEF Mapped, Later
<1>3. \A i \in DOMAIN g : g[i].is = "network" => i \in Range(ns)
  BY <1>1 DEF Mapped
<1>4. \A i \in DOMAIN f : i \in DOMAIN g /\ g[i].is = f[i].is
  BY DEF Later
<1> QED
  BY <1>2, <1>3, <1>4 DEF Mapped

\* The decode of a stream, found or new, with the map it is entered in.
Decoded(p, ts, v) ==
  /\ Whole(v.node) /\ v.at \in DOMAIN v.node /\ v.node[v.at].is = "decode"
  /\ Mapped(v.node, Put(decoders, ts, v.at), networks, DOMAIN parsers)

\* get_decoder finds the decode of a stream or makes it, and it is entered.
LEMMA DecoderIs ==
  ASSUME LibInv, NEW p \in DOMAIN parsers, NEW ts
  PROVE  Decoded(p, ts, get_decoder(p, ts))
<1>1. PICK v : v = get_decoder(p, ts)
  OBVIOUS
<1>2. PICK ds : ds = Put(decoders, ts, v.at)
  OBVIOUS
<1>3. Whole(node) /\ Mapped(node, decoders, networks, DOMAIN parsers)
  BY DEF LibInv
<1>4. CASE ts \in DOMAIN decoders
  <2>1. v.node = node /\ v.at = decoders[ts]
    BY <1>1, <1>4 DEF get_decoder
  <2>2. Range(ds) = Range(decoders) \cup {v.at} /\ \A z \in DOMAIN ds : ds[z] = v.at \/ (z \in DOMAIN decoders /\ ds[z] = decoders[z])
    BY <1>2, <1>4, <2>1, EntryIs
  <2>3. v.at \in DOMAIN node /\ node[v.at].is = "decode"
    BY <1>3, <1>4, <2>1 DEF Mapped
  <2>4. Mapped(node, ds, networks, DOMAIN parsers)
    BY <1>3, <2>2, <2>3 DEF Mapped
  <2> QED
    BY <1>1, <1>2, <1>3, <2>1, <2>3, <2>4 DEF Decoded
<1>5. CASE ts \notin DOMAIN decoders
  <2>1. PICK c : c = Fresh(node)
    OBVIOUS
  <2>2. PICK d : d = [m_parser |-> p, store |-> <<>>, decoded |-> <<>>]
    OBVIOUS
  <2>3. PICK g : g = Put(node, c, Decoder("decode", Null, d))
    OBVIOUS
  <2>4. Whole(g) /\ Made(node, "decode", Null, d, c, g)
    BY <1>3, <2>1, <2>2, <2>3, NewDecodeIs
  <2>5. get_decoder(p, ts) = [node |-> g, at |-> c]
    BY <1>5, <2>1, <2>2, <2>3 DEF get_decoder
  <2>6. v.node = g /\ v.at = c
    BY <1>1, <2>5
  <2>7. /\ DOMAIN g = DOMAIN node \cup {c} /\ g[c].is = "decode" /\ g[c].data.m_parser = p
        /\ \A i \in DOMAIN node : g[i].is = node[i].is /\ g[i].data = node[i].data
    BY <2>2, <2>4 DEF Made
  <2>8. Range(ds) = Range(decoders) \cup {c} /\ \A z \in DOMAIN ds : ds[z] = c \/ (z \in DOMAIN decoders /\ ds[z] = decoders[z])
    BY <1>2, <1>5, <2>6, EntryIs
  <2>9. Mapped(g, ds, networks, DOMAIN parsers)
    <3>1. \A z \in DOMAIN ds : ds[z] \in DOMAIN g /\ g[ds[z]].is = "decode"
      BY <1>3, <2>7, <2>8 DEF Mapped
    <3>2. \A nw \in DOMAIN networks : networks[nw] \in DOMAIN g /\ g[networks[nw]].is = "network"
      BY <1>3, <2>7 DEF Mapped
    <3>3. \A i \in DOMAIN g : g[i].is = "decode" => i \in Range(ds) /\ g[i].data.m_parser \in DOMAIN parsers
      BY <1>3, <2>7, <2>8 DEF Mapped
    <3>4. \A i \in DOMAIN g : g[i].is = "network" => i \in Range(networks)
      BY <1>3, <2>7 DEF Mapped
    <3> QED
      BY <3>1, <3>2, <3>3, <3>4 DEF Mapped
  <2> QED
    BY <1>1, <1>2, <2>4, <2>6, <2>7, <2>9 DEF Decoded
<1> QED
  BY <1>4, <1>5

\* The network of an id likewise, below the decode d if it is new.
Networked(ds, nw, v) ==
  /\ Whole(v.node) /\ v.at \in DOMAIN v.node /\ v.node[v.at].is = "network"
  /\ Mapped(v.node, ds, Put(networks, nw, v.at), DOMAIN parsers)

\* fetch_network finds the network or makes it, and it is entered.
LEMMA NetworkIs ==
  ASSUME NEW f, Whole(f), NEW d \in DOMAIN f, f[d].is = "decode", NEW nw,
         NEW ds, Mapped(f, ds, networks, DOMAIN parsers)
  PROVE  Networked(ds, nw, fetch_network(f, d, nw))
<1>1. PICK v : v = fetch_network(f, d, nw)
  OBVIOUS
<1>2. PICK ns : ns = Put(networks, nw, v.at)
  OBVIOUS
<1>3. CASE nw \in DOMAIN networks
  <2>1. v.node = f /\ v.at = networks[nw]
    BY <1>1, <1>3 DEF fetch_network
  <2>2. Range(ns) = Range(networks) \cup {v.at} /\ \A z \in DOMAIN ns : ns[z] = v.at \/ (z \in DOMAIN networks /\ ns[z] = networks[z])
    BY <1>2, <1>3, <2>1, EntryIs
  <2>3. v.at \in DOMAIN f /\ f[v.at].is = "network"
    BY <1>3, <2>1 DEF Mapped
  <2>4. Mapped(f, ds, ns, DOMAIN parsers)
    BY <2>2, <2>3 DEF Mapped
  <2> QED
    BY <1>1, <1>2, <2>1, <2>3, <2>4 DEF Networked
<1>4. CASE nw \notin DOMAIN networks
  <2>1. PICK c : c = Fresh(f)
    OBVIOUS
  <2>2. PICK e : e = [store |-> <<>>, decoded |-> <<>>, services |-> <<>>, descriptors |-> <<>>]
    OBVIOUS
  <2>3. PICK g : g = New(f, "network", d, e)
    OBVIOUS
  <2>4. Whole(g) /\ Made(f, "network", d, e, c, g)
    BY <2>1, <2>2, <2>3, NewNetworkIs
  <2>5. fetch_network(f, d, nw) = [node |-> g, at |-> c]
    BY <1>4, <2>1, <2>2, <2>3 DEF fetch_network
  <2>6. v.node = g /\ v.at = c
    BY <1>1, <2>5
  <2>7. /\ DOMAIN g = DOMAIN f \cup {c} /\ g[c].is = "network"
        /\ \A i \in DOMAIN f : g[i].is = f[i].is /\ g[i].data = f[i].data
    BY <2>4 DEF Made
  <2>8. Range(ns) = Range(networks) \cup {c} /\ \A z \in DOMAIN ns : ns[z] = c \/ (z \in DOMAIN networks /\ ns[z] = networks[z])
    BY <1>2, <1>4, <2>6, EntryIs
  <2>9. Mapped(g, ds, ns, DOMAIN parsers)
    <3>1. \A z \in DOMAIN ds : ds[z] \in DOMAIN g /\ g[ds[z]].is = "decode"
      BY <2>7 DEF Mapped
    <3>2. \A z \in DOMAIN ns : ns[z] \in DOMAIN g /\ g[ns[z]].is = "network"
      BY <2>7, <2>8 DEF Mapped
    <3>3. \A i \in DOMAIN g : g[i].is = "decode" => i \in Range(ds) /\ g[i].data.m_parser \in DOMAIN parsers
      BY <2>7 DEF Mapped
    <3>4. \A i \in DOMAIN g : g[i].is = "network" => i \in Range(ns)
      BY <2>7, <2>8 DEF Mapped
    <3> QED
      BY <3>1, <3>2, <3>3, <3>4 DEF Mapped
  <2> QED
    BY <1>1, <1>2, <2>4, <2>6, <2>7, <2>9 DEF Networked
<1> QED
  BY <1>3, <1>4

\* At first there is nothing.
LEMMA InitIs ==
  ASSUME TablesInit
  PROVE  LibInv
<1>1. PICK e : e = <<>>
  OBVIOUS
<1>2. DOMAIN e = {}
  BY <1>1
<1>3. Whole(e)
  BY <1>2, NoNodes
<1>4. Mapped(e, e, e, DOMAIN e)
  BY <1>2 DEF Mapped
<1> QED
  BY <1>1, <1>3, <1>4 DEF TablesInit, LibInv

\* A section that a parser takes keeps the invariant.
LEMMA TakeIs ==
  ASSUME LibInv, NEW p \in DOMAIN parsers, NEW s \in air, Take(p, s)
  PROVE  LibInv'
<1>1. Section(s)
  BY TablesAssumption DEF LibInv, Section
<1>2. PICK ts : ts = IF Sets(s) THEN s.mux ELSE parsers[p].ts_id
  OBVIOUS
<1>3. PICK d : d = get_decoder(p, ts)
  OBVIOUS
<1>4. PICK ds : ds = Put(decoders, ts, d.at)
  OBVIOUS
<1>5. Decoded(p, ts, d)
  BY <1>3, DecoderIs
<1>6. /\ Whole(d.node) /\ d.at \in DOMAIN d.node /\ d.node[d.at].is = "decode"
      /\ Mapped(d.node, ds, networks, DOMAIN parsers)
  BY <1>4, <1>5 DEF Decoded
<1>7. PICK n : n = fetch_network(d.node, d.at, s.nw)
  OBVIOUS
<1>8. PICK ns : ns = Put(networks, s.nw, n.at)
  OBVIOUS
<1>9. Networked(ds, s.nw, n)
  BY <1>6, <1>7, NetworkIs
<1>10. /\ Whole(n.node) /\ n.at \in DOMAIN n.node /\ n.node[n.at].is = "network"
       /\ Mapped(n.node, ds, ns, DOMAIN parsers)
  BY <1>8, <1>9 DEF Networked
<1>11. /\ decoders' = ds /\ DOMAIN parsers' = DOMAIN parsers /\ air' = air
       /\ networks' = IF Classes[s.class].keeper = "decode" THEN networks ELSE ns
       /\ node' = CASE Classes[s.class].keeper = "decode" -> TakeHere(d.node, d.at, s)
                    [] Classes[s.class].keeper = "network" -> TakeNit(n.node, n.at, s)
                    [] Classes[s.class].keeper = "service" -> TakeService(n.node, n.at, s)
  BY <1>2, <1>3, <1>4, <1>7, <1>8 DEF Take
<1>12. Classes[s.class].keeper \in {"decode", "network", "service"}
  <2>1. s.class \in DOMAIN Classes
    BY <1>1 DEF Section
  <2> QED
    BY <2>1 DEF Classes, Class, pat, pmt, nit, sdt, eit, tot, mgt, vct, atsc_eit, atsc_ett, stt
<1>13. Whole(node') /\ Mapped(node', ds, networks', DOMAIN parsers)
  <2>1. CASE Classes[s.class].keeper = "decode"
    <3>1. node' = TakeHere(d.node, d.at, s) /\ networks' = networks
      BY <1>11, <2>1
    <3>2. Goes(d.node, node')
      BY <1>1, <1>6, <3>1, TakeHereIs
    <3> QED
      BY <1>6, <3>1, <3>2, MappedLater DEF Goes
  <2>2. CASE Classes[s.class].keeper = "network"
    <3>1. node' = TakeNit(n.node, n.at, s) /\ networks' = ns
      BY <1>11, <2>2
    <3>2. Goes(n.node, node')
      BY <1>1, <1>10, <3>1, TakeNitIs
    <3> QED
      BY <1>10, <3>1, <3>2, MappedLater DEF Goes
  <2>3. CASE Classes[s.class].keeper = "service"
    <3>1. node' = TakeService(n.node, n.at, s) /\ networks' = ns
      BY <1>11, <2>3
    <3>2. Goes(n.node, node')
      BY <1>1, <1>10, <3>1, TakeServiceIs
    <3> QED
      BY <1>10, <3>1, <3>2, MappedLater DEF Goes
  <2> QED
    BY <1>12, <2>1, <2>2, <2>3
<1> QED
  BY <1>11, <1>13 DEF LibInv

\* A tree has the links of a tree.
LEMMA WholeBones ==
  ASSUME NEW f, Whole(f)
  PROVE  Bones(f)
BY DEF Whole, Tree, Bones

\* The parser that is deleted leaves nothing behind, and nothing that any map points at.
LEMMA DeleteParserIs ==
  ASSUME LibInv, NEW p, DeleteParser(p)
  PROVE  LibInv'
<1>1. Bones(node) /\ Mapped(node, decoders, networks, DOMAIN parsers)
  BY WholeBones DEF LibInv
<1>2. Range(networks) = {i \in DOMAIN node : node[i].is = "network"}
  BY <1>1 DEF Mapped, Range
<1>3. Range(decoders) = {i \in DOMAIN node : node[i].is = "decode"}
  BY <1>1 DEF Mapped, Range
<1>4. DOMAIN Emptied = {}
  BY <1>1, <1>2, <1>3, NoneLeft DEF Emptied
<1>5. DOMAIN node' = {} /\ networks' = <<>> /\ decoders' = <<>> /\ air' = air
  BY <1>4 DEF DeleteParser
<1>6. Whole(node')
  BY <1>5, NoNodes
<1>7. PICK e : e = <<>>
  OBVIOUS
<1>8. DOMAIN e = {}
  BY <1>7
<1>9. Mapped(node', e, e, DOMAIN parsers')
  BY <1>5, <1>8 DEF Mapped
<1> QED
  BY <1>5, <1>6, <1>7, <1>9 DEF LibInv

\* Every step keeps the invariant.
LEMMA StepIs ==
  ASSUME LibInv, [TablesNext]_tableVars
  PROVE  LibInv'
<1>1. ASSUME NEW p \in Parsers, NewParser(p) PROVE LibInv'
  <2>1. UNCHANGED <<air, node, decoders, networks>> /\ DOMAIN parsers \subseteq DOMAIN parsers'
    BY <1>1 DEF NewParser, Put
  <2>2. Mapped(node, decoders, networks, DOMAIN parsers')
    BY <2>1 DEF LibInv, Mapped
  <2> QED
    BY <2>1, <2>2 DEF LibInv
<1>2. ASSUME NEW p \in DOMAIN parsers, NEW s \in air, Tune(p, s.mux) PROVE LibInv'
  <2>1. UNCHANGED <<air, node, decoders, networks>> /\ DOMAIN parsers' = DOMAIN parsers
    BY <1>2 DEF Tune
  <2> QED
    BY <2>1 DEF LibInv
<1>3. ASSUME NEW p \in DOMAIN parsers, NEW s \in air, Take(p, s) PROVE LibInv'
  BY <1>3, TakeIs
<1>4. ASSUME NEW p \in DOMAIN parsers, DeleteParser(p) PROVE LibInv'
  BY <1>4, DeleteParserIs
<1>5. CASE UNCHANGED tableVars
  BY <1>5 DEF tableVars, LibInv
<1> QED
  BY <1>1, <1>2, <1>3, <1>4, <1>5 DEF TablesNext

\* The invariant always holds.
LEMMA AlwaysLib == TablesSpec => []LibInv
<1>1. TablesInit => LibInv
  BY InitIs
<1>2. LibInv /\ [TablesNext]_tableVars => LibInv'
  BY StepIs
<1> QED
  BY <1>1, <1>2, PTL DEF TablesSpec

\* With it nothing dangles and nothing leaks.
LEMMA WholeTree ==
  ASSUME LibInv
  PROVE  TreeIsWhole
<1>1. Tree(node, {}) /\ Bones(node) /\ Mapped(node, decoders, networks, DOMAIN parsers)
  BY WholeBones DEF LibInv, Whole
<1>2. Linked(node)
  <2>1. Corrupt \notin DOMAIN node
    BY <1>1 DEF Bones, Corrupt
  <2>2. ASSUME NEW i \in DOMAIN node, node[i].parent # Null
        PROVE  node[i].parent \in DOMAIN node /\ node[i].linkedIdx \in DOMAIN node[node[i].parent].children
    BY <1>1, <2>2 DEF Bones, Up
  <2>3. ASSUME NEW i \in DOMAIN node, NEW k \in DOMAIN node[i].children
        PROVE  /\ node[i].children[k] \in DOMAIN node /\ node[node[i].children[k]].parent = i
               /\ node[node[i].children[k]].linkedIdx = k
    BY <1>1, ChildIs
  <2> QED
    BY <2>1, <2>2, <2>3 DEF Linked
<1>3. ASSUME NEW i \in DOMAIN node, NEW c, Mine(node, {}, i, c) PROVE c \in Range(node[i].children)
  <2>1. c \in DOMAIN node /\ node[c].parent = i /\ i # Null
    BY <1>1, <1>3 DEF Mine, Bones, Null
  <2>2. node[c].linkedIdx \in DOMAIN node[i].children /\ node[i].children[node[c].linkedIdx] = c
    BY <1>1, <2>1 DEF Bones, Up
  <2> QED
    BY <2>2 DEF Range
<1>4. ASSUME NEW i \in DOMAIN node
      PROVE  LET own == node[i].data
                 kept == (IF "store" \in DOMAIN own THEN Range(own.store) ELSE {})
                           \cup (IF "services" \in DOMAIN own THEN Range(own.services) ELSE {})
                           \cup (IF "descriptors" \in DOMAIN own THEN Range(own.descriptors) ELSE {})
             IN  kept \subseteq Range(node[i].children)
  <2>1. PICK e : e = node[i].data
    OBVIOUS
  <2>2. Keeps(node, {}, i, e)
    BY <1>1, <2>1 DEF Tree
  <2>3. "store" \in DOMAIN e => Range(e.store) \subseteq Range(node[i].children)
    BY <1>3, <2>2 DEF Keeps, KeepsTables, Range
  <2>4. "services" \in DOMAIN e => Range(e.services) \subseteq Range(node[i].children)
    BY <1>3, <2>2 DEF Keeps, KeepsServices, Range
  <2>5. "descriptors" \in DOMAIN e => Range(e.descriptors) \subseteq Range(node[i].children)
    BY <1>3, <2>2 DEF Keeps, KeepsDescriptors, Range
  <2> QED
    BY <2>1, <2>3, <2>4, <2>5
<1>5. NothingDangles
  <2>1. \A ts \in DOMAIN decoders :
          /\ decoders[ts] \in DOMAIN node /\ node[decoders[ts]].is = "decode"
          /\ node[decoders[ts]].data.m_parser \in DOMAIN parsers
    BY <1>1 DEF Mapped
  <2>2. \A nw \in DOMAIN networks : networks[nw] \in DOMAIN node /\ node[networks[nw]].is = "network"
    BY <1>1 DEF Mapped
  <2> QED
    BY <1>2, <1>4, <2>1, <2>2 DEF NothingDangles
<1>6. NothingLeaks
  <2>1. Range(decoders) = {i \in DOMAIN node : node[i].is = "decode"}
    BY <1>1 DEF Mapped, Range
  <2>2. DOMAIN node \subseteq UNION {Below(node, d) : d \in Range(decoders)}
    BY <1>1, <2>1, AllBelow
  <2>3. {i \in DOMAIN node : node[i].is = "network"} = Range(networks)
    BY <1>1 DEF Mapped, Range
  <2> QED
    BY <2>2, <2>3 DEF NothingLeaks
<1> QED
  BY <1>5, <1>6 DEF TreeIsWhole

\* Nothing is used after it was deleted and nothing is lost, whichever parsers come and go.
THEOREM TreeStaysWhole == TablesSpec => []TreeIsWhole
<1>1. LibInv => TreeIsWhole
  BY WholeTree
<1> QED
  BY <1>1, AlwaysLib, PTL

\* No version of a table is kept beside another one of the same key.
THEOREM OneTablePerKey == TablesSpec => []OnePerKey
<1>1. LibInv => OnePerKey
  BY FiledIs DEF LibInv, Whole
<1> QED
  BY <1>1, AlwaysLib, PTL

\* What a table shows is what its keeper copied.
THEOREM FormsAgree == TablesSpec => []InStep
<1>1. LibInv => InStep
  BY FiledIs DEF LibInv, Whole
<1> QED
  BY <1>1, AlwaysLib, PTL

-----------------------------------------------------------------------------
(* Values.                                                                 *)

\* The sum of a function.
Total(f) == FoldFunction(+, 0, f)

\* k tells the sum on every subset of D, and each is one more of f than another.
Adds(f, D, k) ==
  /\ DOMAIN k = SUBSET D /\ k[{}] = 0
  /\ \A r \in SUBSET D : r # {} => k[r] = f[CHOOSE x \in r : TRUE] + k[r \ {CHOOSE x \in r : TRUE}]

\* Such a function is what the fold is.
LEMMA TotalSteps ==
  ASSUME NEW f, NEW D, D = DOMAIN f, IsFiniteSet(D)
  PROVE  \E k : Adds(f, D, k) /\ k[D] = Total(f)
<1> DEFINE F(g, r) == IF r = {} THEN 0 ELSE f[CHOOSE x \in r : TRUE] + g[r \ {CHOOSE x \in r : TRUE}]
           Ok(g, n) == DOMAIN g = SUBSET D /\ \A r \in SUBSET D : Cardinality(r) <= n => g[r] = F(g, r)
           N == {n \in Nat : \E g : Ok(g, n)}
<1>1. \A r \in SUBSET D : IsFiniteSet(r) /\ Cardinality(r) \in Nat /\ Cardinality(r) <= Cardinality(D)
  BY FS_Subset, FS_CardinalityType
<1>2. \A r \in SUBSET D : r # {} => (CHOOSE x \in r : TRUE) \in r
  OBVIOUS
<1>3. \A r \in SUBSET D : r # {} => LET q == r \ {CHOOSE x \in r : TRUE}
                                    IN  q \in SUBSET D /\ Cardinality(q) = Cardinality(r) - 1
  BY <1>1, <1>2, FS_RemoveElement
<1>4. 0 \in N
  <2>1. PICK g : g = [r \in SUBSET D |-> 0]
    OBVIOUS
  <2>2. ASSUME NEW r \in SUBSET D, Cardinality(r) <= 0 PROVE g[r] = F(g, r)
    <3>1. r = {}
      BY <1>1, <2>2, FS_EmptySet
    <3> QED
      BY <2>1, <3>1
  <2>3. Ok(g, 0)
    BY <2>1, <2>2
  <2> QED
    BY <2>3
<1>5. ASSUME NEW n \in N PROVE n + 1 \in N
  <2>1. PICK g : Ok(g, n)
    OBVIOUS
  <2>2. PICK h : h = [r \in SUBSET D |-> IF Cardinality(r) <= n THEN g[r] ELSE F(g, r)]
    OBVIOUS
  <2>3. n \in Nat
    OBVIOUS
  <2>4. \A r \in SUBSET D : Cardinality(r) <= n => h[r] = g[r]
    BY <2>2
  <2>5. ASSUME NEW r \in SUBSET D, Cardinality(r) <= n + 1 PROVE h[r] = F(h, r)
    <3>1. h[r] = F(g, r)
      BY <2>1, <2>2
    <3>2. F(g, r) = F(h, r)
      <4>1. CASE r = {}
        BY <4>1
      <4>2. CASE r # {}
        <5>1. PICK q : q = r \ {CHOOSE x \in r : TRUE}
          OBVIOUS
        <5>2. q \in SUBSET D /\ Cardinality(q) = Cardinality(r) - 1
          BY <1>3, <4>2, <5>1
        <5>3. Cardinality(q) <= n
          BY <1>1, <2>3, <2>5, <5>2
        <5>4. h[q] = g[q]
          BY <2>4, <5>2, <5>3
        <5> QED
          BY <4>2, <5>1, <5>4
      <4> QED
        BY <4>1, <4>2
    <3> QED
      BY <3>1, <3>2
  <2>6. Ok(h, n + 1)
    <3> HIDE DEF F
    <3> QED
      BY <2>2, <2>5
  <2>7. \E e : Ok(e, n + 1)
    <3> HIDE DEF Ok
    <3> QED
      BY <2>6
  <2> HIDE DEF Ok
  <2> QED
    BY <2>3, <2>7
<1>6. N = Nat
  <2>1. N \in SUBSET Nat
    OBVIOUS
  <2> HIDE DEF N
  <2> QED
    BY <1>4, <1>5, <2>1, Induct
<1> DEFINE iter == CHOOSE g : g = [r \in SUBSET D |-> F(g, r)]
<1>7. iter = [r \in SUBSET D |-> F(iter, r)]
  <2>1. PICK g : Ok(g, Cardinality(D))
    <3>1. Cardinality(D) \in N
      BY <1>6, FS_CardinalityType
    <3> HIDE DEF Ok
    <3> QED
      BY <3>1
  <2>2. DOMAIN g = SUBSET D /\ \A r \in SUBSET D : g[r] = F(g, r)
    <3> HIDE DEF F
    <3> QED
      BY <1>1, <2>1
  <2>3. PICK e : e = [r \in SUBSET D |-> g[r]]
    OBVIOUS
  <2>4. e = [r \in SUBSET D |-> F(e, r)]
    <3>1. ASSUME NEW r \in SUBSET D PROVE e[r] = F(e, r)
      <4>1. e[r] = F(g, r)
        BY <2>2, <2>3
      <4>2. CASE r = {}
        BY <4>1, <4>2
      <4>3. CASE r # {}
        <5>1. PICK q : q = r \ {CHOOSE x \in r : TRUE}
          OBVIOUS
        <5>2. e[q] = g[q]
          BY <2>3, <5>1
        <5> QED
          BY <4>1, <4>3, <5>1, <5>2
      <4> QED
        BY <4>2, <4>3
    <3> HIDE DEF F
    <3> QED
      BY <2>3, <3>1
  <2> HIDE DEF F
  <2> QED
    BY <2>4
<1>8. iter[D] = Total(f)
  BY DEF Total, FoldFunction, FoldFunctionOnSet, MapThenFoldSet
<1> HIDE DEF iter
<1>9. DOMAIN iter = SUBSET D /\ iter[{}] = 0
  BY <1>7
<1>10. ASSUME NEW r \in SUBSET D, r # {}
       PROVE  iter[r] = f[CHOOSE x \in r : TRUE] + iter[r \ {CHOOSE x \in r : TRUE}]
  BY <1>7, <1>10
<1>11. Adds(f, D, iter)
  <2> HIDE DEF F
  <2> QED
    BY <1>9, <1>10 DEF Adds
<1> HIDE DEF F
<1> QED
  BY <1>8, <1>11

\* A function to the numbers.
Sized(f) == IsFiniteSet(DOMAIN f) /\ \A x \in DOMAIN f : f[x] \in Nat

\* Whichever element is taken out of a subset, the sum is less by it.
LEMMA AddsAny ==
  ASSUME NEW f, NEW D, D = DOMAIN f, Sized(f), NEW k, Adds(f, D, k)
  PROVE  \A r \in SUBSET D : k[r] \in Nat /\ \A y \in r : k[r] = f[y] + k[r \ {y}]
<1> DEFINE T == {r \in SUBSET D : k[r] \in Nat /\ \A y \in r : k[r] = f[y] + k[r \ {y}]}
<1>1. ASSUME NEW r \in SUBSET D, \A q \in SUBSET r : q # r => q \in T PROVE r \in T
  <2>1. CASE r = {}
    BY <2>1 DEF Adds
  <2>2. CASE r # {}
    <3>1. PICK c \in r : k[r] = f[c] + k[r \ {c}]
      BY <2>2, ZenonT(60) DEF Adds
    <3>2. r \ {c} \in T /\ f[c] \in Nat
      BY <1>1 DEF Sized
    <3>3. k[r] \in Nat
      BY <3>1, <3>2
    <3>4. ASSUME NEW y \in r PROVE k[r] = f[y] + k[r \ {y}]
      <4>1. CASE y = c
        BY <3>1, <4>1
      <4>2. CASE y # c
        <5>1. PICK q : q = r \ {c, y}
          OBVIOUS
        <5>2. q = (r \ {c}) \ {y} /\ q = (r \ {y}) \ {c} /\ y \in r \ {c} /\ c \in r \ {y}
          BY <4>2, <5>1
        <5>3. k[r \ {c}] = f[y] + k[q]
          BY <3>2, <5>2
        <5>4. r \ {y} \in T
          BY <1>1
        <5>5. k[r \ {y}] = f[c] + k[q]
          BY <5>2, <5>4
        <5>6. q \in T
          BY <1>1, <5>1
        <5>7. f[y] \in Nat /\ k[q] \in Nat
          BY <5>6 DEF Sized
        <5> QED
          BY <3>1, <3>2, <5>3, <5>5, <5>7
      <4> QED
        BY <4>1, <4>2
    <3> QED
      BY <3>3, <3>4
  <2> QED
    BY <2>1, <2>2
\* All subsets of a set, by induction on it.
<1> DEFINE U == {r \in SUBSET D : \A q \in SUBSET r : q \in T}
<1>2. ASSUME NEW r \in SUBSET D, \A x \in r : r \ {x} \in U PROVE r \in U
  <2>1. ASSUME NEW q \in SUBSET r, q # r PROVE q \in T
    <3>1. PICK x \in r : x \notin q
      BY <2>1
    <3>2. q \in SUBSET (r \ {x}) /\ r \ {x} \in U
      BY <1>2, <3>1
    <3> HIDE DEF T
    <3> QED
      BY <3>2
  <2>2. r \in T
    <3> HIDE DEF T
    <3> QED
      BY <1>1, <2>1
  <2> HIDE DEF T
  <2> QED
    BY <2>1, <2>2
<1>3. D \in U
  <2>1. IsFiniteSet(D)
    BY DEF Sized
  <2> HIDE DEF U
  <2> QED
    BY <1>2, <2>1, Subsets
<1> QED
  BY <1>3

LEMMA AddsSame ==
  ASSUME NEW f, NEW D, D = DOMAIN f, Sized(f), NEW k, Adds(f, D, k), NEW D2 \in SUBSET D,
         NEW g, DOMAIN g = D2, \A x \in D2 : g[x] = f[x], NEW l, Adds(g, D2, l)
  PROVE  l[D2] = k[D2]
<1> DEFINE T == {r \in SUBSET D2 : l[r] = k[r]}
<1>1. ASSUME NEW r \in SUBSET D2, \A x \in r : r \ {x} \in T PROVE r \in T
  <2>1. CASE r = {}
    BY <2>1 DEF Adds
  <2>2. CASE r # {}
    <3>1. PICK c : c = CHOOSE x \in r : TRUE
      OBVIOUS
    <3>2. c \in r
      BY <2>2, <3>1
    <3>3. l[r] = g[c] + l[r \ {c}] /\ k[r] = f[c] + k[r \ {c}]
      BY <2>2, <3>1 DEF Adds
    <3>4. g[c] = f[c] /\ l[r \ {c}] = k[r \ {c}]
      BY <1>1, <3>2
    <3> QED
      BY <3>3, <3>4
  <2> QED
    BY <2>1, <2>2
<1>2. IsFiniteSet(D2)
  BY FS_Subset DEF Sized
<1>3. D2 \in T
  <2> HIDE DEF T
  <2> QED
    BY <1>1, <1>2, Subsets
<1> QED
  BY <1>3

LEMMA TotalNone ==
  ASSUME NEW f, DOMAIN f = {}
  PROVE  Total(f) = 0
<1>1. IsFiniteSet(DOMAIN f)
  BY FS_EmptySet
<1>2. PICK k : Adds(f, DOMAIN f, k) /\ k[DOMAIN f] = Total(f)
  BY <1>1, TotalSteps
<1> QED
  BY <1>2 DEF Adds

\* g is f without y.
Less(f, y, g) == DOMAIN g = DOMAIN f \ {y} /\ \A x \in DOMAIN g : g[x] = f[x]

LEMMA TotalLess ==
  ASSUME NEW f, Sized(f), NEW y \in DOMAIN f, NEW g, Less(f, y, g)
  PROVE  /\ Total(f) = f[y] + Total(g) /\ Total(f) \in Nat /\ Total(g) \in Nat /\ f[y] \in Nat
         /\ Sized(g)
<1>1. PICK D : D = DOMAIN f
  OBVIOUS
<1>2. IsFiniteSet(D)
  BY <1>1 DEF Sized
<1>3. PICK k : Adds(f, D, k) /\ k[D] = Total(f)
  BY <1>1, <1>2, TotalSteps
<1>4. \A r \in SUBSET D : k[r] \in Nat /\ \A z \in r : k[r] = f[z] + k[r \ {z}]
  BY <1>1, <1>3, AddsAny
<1>5. PICK D2 : D2 = D \ {y}
  OBVIOUS
<1>6. D2 \in SUBSET D /\ DOMAIN g = D2 /\ \A x \in D2 : g[x] = f[x]
  BY <1>1, <1>5 DEF Less
<1>7. IsFiniteSet(D2)
  BY <1>2, <1>6, FS_Subset
<1>8. PICK l : Adds(g, D2, l) /\ l[D2] = Total(g)
  BY <1>6, <1>7, TotalSteps
<1>9. l[D2] = k[D2]
  BY <1>1, <1>3, <1>6, <1>8, AddsSame
<1>10. k[D] = f[y] + k[D2]
  BY <1>1, <1>4, <1>5
<1>11. Sized(g)
  BY <1>1, <1>6, <1>7 DEF Sized
<1>12. k[D] \in Nat /\ k[D2] \in Nat /\ f[y] \in Nat
  BY <1>1, <1>4, <1>6 DEF Sized
<1> QED
  BY <1>3, <1>8, <1>9, <1>10, <1>11, <1>12

LEMMA TotalNat ==
  ASSUME NEW f, Sized(f)
  PROVE  Total(f) \in Nat
<1>1. CASE DOMAIN f = {}
  BY <1>1, TotalNone
<1>2. CASE DOMAIN f # {}
  <2>1. PICK y : y \in DOMAIN f
    BY <1>2
  <2>2. PICK g : g = [x \in DOMAIN f \ {y} |-> f[x]]
    OBVIOUS
  <2>3. Less(f, y, g)
    BY <2>2 DEF Less
  <2> QED
    BY <2>1, <2>3, TotalLess
<1> QED
  BY <1>1, <1>2

\* Two functions that differ in y only, or where only one of them has y.
LEMMA TotalOther ==
  ASSUME NEW f, Sized(f), NEW y \in DOMAIN f, NEW g, Sized(g), DOMAIN g = DOMAIN f,
         \A x \in DOMAIN f \ {y} : g[x] = f[x]
  PROVE  Total(g) + f[y] = Total(f) + g[y]
<1>1. PICK e : e = [x \in DOMAIN f \ {y} |-> f[x]]
  OBVIOUS
<1>2. Less(f, y, e) /\ Less(g, y, e)
  BY <1>1 DEF Less
<1>3. Total(f) = f[y] + Total(e) /\ f[y] \in Nat /\ Total(e) \in Nat
  BY <1>2, TotalLess
<1>4. Total(g) = g[y] + Total(e) /\ g[y] \in Nat
  BY <1>2, TotalLess
<1> QED
  BY <1>3, <1>4

\* All are 0 where the sum is.
LEMMA TotalZero ==
  ASSUME NEW f, Sized(f), Total(f) = 0, NEW y \in DOMAIN f
  PROVE  f[y] = 0
<1>1. PICK g : g = [x \in DOMAIN f \ {y} |-> f[x]]
  OBVIOUS
<1>2. Less(f, y, g)
  BY <1>1 DEF Less
<1> QED
  BY <1>2, TotalLess

LEMMA ZeroTotal ==
  ASSUME NEW f, IsFiniteSet(DOMAIN f), \A x \in DOMAIN f : f[x] = 0
  PROVE  Total(f) = 0
<1>1. PICK D : D = DOMAIN f
  OBVIOUS
<1>2. PICK k : Adds(f, D, k) /\ k[D] = Total(f)
  BY <1>1, TotalSteps
<1> DEFINE T == {r \in SUBSET D : k[r] = 0}
<1>3. ASSUME NEW r \in SUBSET D, \A x \in r : r \ {x} \in T PROVE r \in T
  <2>1. CASE r = {}
    BY <1>2, <2>1 DEF Adds
  <2>2. CASE r # {}
    <3>1. PICK c \in r : k[r] = f[c] + k[r \ {c}]
      BY <1>2, <2>2, ZenonT(60) DEF Adds
    <3> QED
      BY <1>1, <1>3, <3>1
  <2> QED
    BY <2>1, <2>2
<1>4. D \in T
  <2> HIDE DEF T
  <2> QED
    BY <1>1, <1>3, Subsets
<1> QED
  BY <1>2, <1>4

\* What a value or a container can hold.
StringLike(p) == \E s : p = String(s)
ObjectLike(p) == \E m : p = Object(m) /\ IsFiniteSet(DOMAIN m) /\ \A k \in DOMAIN m : m[k] \in Ids
ArrayLike(p) == \E q, f, x : p = Array(q, f, x) /\ q \in Seq(Ids)
Content(p) == StringLike(p) \/ ObjectLike(p) \/ ArrayLike(p)

LEMMA Types ==
  ASSUME NEW p, Content(p)
  PROVE  /\ p.type \in {"string", "object", "array"}
         /\ p.type = "string" <=> StringLike(p)
         /\ p.type = "object" <=> ObjectLike(p)
         /\ p.type = "array" <=> ArrayLike(p)
<1>1. StringLike(p) => p.type = "string"
  BY DEF StringLike, String
<1>2. ObjectLike(p) => p.type = "object"
  BY DEF ObjectLike, Object
<1>3. ArrayLike(p) => p.type = "array"
  BY DEF ArrayLike, Array
<1> QED
  BY <1>1, <1>2, <1>3 DEF Content

\* The places of an element are finitely many, and none of a string.
LEMMA PlacesAre ==
  ASSUME NEW p, Content(p), NEW v
  PROVE  /\ IsFiniteSet(PlacesOf(p, v)) /\ Count(p, v) \in Nat
         /\ Count(p, v) = 0 <=> PlacesOf(p, v) = {}
<1>1. IsFiniteSet(PlacesOf(p, v))
  <2>1. CASE StringLike(p)
    <3>1. PlacesOf(p, v) = {}
      BY <2>1, Types DEF PlacesOf
    <3> QED
      BY <3>1, FS_EmptySet
  <2>2. CASE ObjectLike(p)
    <3>1. PICK m : p = Object(m) /\ IsFiniteSet(DOMAIN m)
      BY <2>2 DEF ObjectLike
    <3>2. PlacesOf(p, v) \in SUBSET DOMAIN m
      BY <3>1 DEF PlacesOf, Object
    <3> QED
      BY <3>1, <3>2, FS_Subset
  <2>3. CASE ArrayLike(p)
    <3>1. PICK q, f, x : p = Array(q, f, x) /\ q \in Seq(Ids)
      BY <2>3 DEF ArrayLike
    <3>2. PICK n : n = Len(q)
      OBVIOUS
    <3>3. n \in Nat /\ DOMAIN q = 1 .. n
      BY <3>1, <3>2
    <3>4. PlacesOf(p, v) \in SUBSET (1 .. n)
      BY <3>1, <3>3 DEF PlacesOf, Array
    <3>5. IsFiniteSet(1 .. n)
      BY <3>3, FS_Interval
    <3> QED
      BY <3>4, <3>5, FS_Subset
  <2> QED
    BY <2>1, <2>2, <2>3 DEF Content
<1> QED
  BY <1>1, FS_CardinalityType, FS_EmptySet DEF Count

LEMMA CountString ==
  ASSUME NEW s, NEW v
  PROVE  Content(String(s)) /\ Count(String(s), v) = 0
<1>1. Content(String(s)) /\ PlacesOf(String(s), v) = {}
  BY DEF Content, StringLike, String, PlacesOf
<1> QED
  BY <1>1, PlacesAre

\* Whether u is v, as a number.
One(u, v) == IF u = v THEN 1 ELSE 0

\* A map with one key more.
LEMMA CountWith ==
  ASSUME NEW m, ObjectLike(Object(m)), NEW k, k \notin DOMAIN m, NEW v \in Ids, NEW e, e = With(m, k, v)
  PROVE  ObjectLike(Object(e)) /\ \A u : Count(Object(e), u) = Count(Object(m), u) + One(u, v)
<1>1. DOMAIN e = DOMAIN m \cup {k} /\ e[k] = v /\ \A z \in DOMAIN m : e[z] = m[z]
  BY DEF With
<1>2. IsFiniteSet(DOMAIN m) /\ \A z \in DOMAIN m : m[z] \in Ids
  BY DEF ObjectLike, Object
<1>3. IsFiniteSet(DOMAIN e)
  BY <1>1, <1>2, FS_AddElement
<1>4. ObjectLike(Object(e))
  BY <1>1, <1>2, <1>3 DEF ObjectLike
<1>5. ASSUME NEW u PROVE Count(Object(e), u) = Count(Object(m), u) + One(u, v)
  <2>1. PICK P : P = {z \in DOMAIN m : m[z] = u}
    OBVIOUS
  <2>2. PlacesOf(Object(m), u) = P /\ PlacesOf(Object(e), u) = {z \in DOMAIN e : e[z] = u}
    BY <2>1 DEF PlacesOf, Object
  <2>3. IsFiniteSet(P) /\ Cardinality(P) \in Nat
    BY <1>2, <2>1, FS_Subset, FS_CardinalityType
  <2>4. CASE u = v
    <3>1. PlacesOf(Object(e), u) = P \cup {k} /\ k \notin P
      BY <1>1, <2>1, <2>2, <2>4
    <3>2. Cardinality(P \cup {k}) = Cardinality(P) + 1
      BY <2>3, <3>1, FS_AddElement
    <3> QED
      BY <2>2, <2>4, <3>1, <3>2 DEF Count, One
  <2>5. CASE u # v
    <3>1. PlacesOf(Object(e), u) = P
      BY <1>1, <2>1, <2>2, <2>5
    <3> QED
      BY <2>2, <2>3, <2>5, <3>1 DEF Count, One
  <2> QED
    BY <2>4, <2>5
<1> QED
  BY <1>4, <1>5

\* A map without a key.
WithoutKey(m, k, e) ==
  /\ ObjectLike(Object(e)) /\ k \notin DOMAIN e
  /\ \A v : With(m, k, v) = With(e, k, v)
  /\ \A u : Count(Object(m), u) = Count(Object(e), u) + (IF k \in DOMAIN m /\ m[k] = u THEN 1 ELSE 0)

LEMMA CountRestrict ==
  ASSUME NEW m, ObjectLike(Object(m)), NEW k, NEW e, e = Restrict(m, DOMAIN m \ {k})
  PROVE  WithoutKey(m, k, e)
<1>1. DOMAIN e = DOMAIN m \ {k} /\ e = [z \in DOMAIN m \ {k} |-> m[z]]
  BY DEF Restrict
<1>2. IsFiniteSet(DOMAIN m) /\ \A z \in DOMAIN m : m[z] \in Ids
  BY DEF ObjectLike, Object
<1>3. IsFiniteSet(DOMAIN e)
  BY <1>1, <1>2, FS_Subset
<1>4. ObjectLike(Object(e))
  BY <1>1, <1>2, <1>3 DEF ObjectLike
<1>5. ASSUME NEW v PROVE With(m, k, v) = With(e, k, v)
  <2>1. DOMAIN m \cup {k} = DOMAIN e \cup {k}
    BY <1>1
  <2>2. \A z \in DOMAIN m \cup {k} : (IF z = k THEN v ELSE m[z]) = (IF z = k THEN v ELSE e[z])
    BY <1>1
  <2> QED
    BY <2>1, <2>2 DEF With
<1>6. ASSUME NEW u PROVE Count(Object(m), u) = Count(Object(e), u) + (IF k \in DOMAIN m /\ m[k] = u THEN 1 ELSE 0)
  <2>1. PICK P : P = {z \in DOMAIN m : m[z] = u}
    OBVIOUS
  <2>2. PlacesOf(Object(m), u) = P /\ PlacesOf(Object(e), u) = P \ {k}
    BY <1>1, <2>1 DEF PlacesOf, Object
  <2>3. IsFiniteSet(P) /\ Cardinality(P) \in Nat
    BY <1>2, <2>1, FS_Subset, FS_CardinalityType
  <2>4. CASE k \in P
    <3>1. Cardinality(P \ {k}) = Cardinality(P) - 1
      BY <2>3, <2>4, FS_RemoveElement
    <3>2. k \in DOMAIN m /\ m[k] = u
      BY <2>1, <2>4
    <3>3. (IF k \in DOMAIN m /\ m[k] = u THEN 1 ELSE 0) = 1
      BY <3>2
    <3>4. PICK a, b : a = Count(Object(m), u) /\ b = Count(Object(e), u)
      OBVIOUS
    <3>5. a = Cardinality(P) /\ b = Cardinality(P \ {k})
      BY <2>2, <3>4 DEF Count
    <3>6. a = b + 1
      BY <2>3, <3>1, <3>5
    <3> QED
      BY <3>3, <3>4, <3>6
  <2>5. CASE k \notin P
    <3>1. P \ {k} = P /\ ~(k \in DOMAIN m /\ m[k] = u)
      BY <2>1, <2>5
    <3>2. (IF k \in DOMAIN m /\ m[k] = u THEN 1 ELSE 0) = 0
      BY <3>1
    <3>3. PICK a, b : a = Count(Object(m), u) /\ b = Count(Object(e), u)
      OBVIOUS
    <3>4. a = Cardinality(P) /\ b = Cardinality(P)
      BY <2>2, <3>1, <3>3 DEF Count
    <3>5. a = b + 0
      BY <2>3, <3>4
    <3> QED
      BY <3>2, <3>3, <3>5
  <2> QED
    BY <2>4, <2>5
<1> QED
  BY <1>1, <1>4, <1>5, <1>6 DEF WithoutKey

\* A vector with one element more.
Longer(p, v, e) == ArrayLike(e) /\ \A u : Count(e, u) = Count(p, u) + One(u, v)

LEMMA CountAppend ==
  ASSUME NEW q \in Seq(Ids), NEW v \in Ids, NEW f, NEW x, NEW g, NEW y, NEW r, r = Append(q, v)
  PROVE  Longer(Array(q, f, x), v, Array(r, g, y))
<1>1. PICK n : n = Len(q)
  OBVIOUS
<1>2. n \in Nat /\ DOMAIN q = 1 .. n
  BY <1>1
<1>3. /\ r \in Seq(Ids) /\ DOMAIN r = 1 .. n + 1 /\ (\A i \in 1 .. n : r[i] = q[i]) /\ r[n + 1] = v
  BY <1>1, <1>2, AppendProperties
<1>4. ArrayLike(Array(r, g, y))
  BY <1>3 DEF ArrayLike
<1>5. ASSUME NEW u PROVE Count(Array(r, g, y), u) = Count(Array(q, f, x), u) + One(u, v)
  <2>1. PICK P : P = {i \in 1 .. n : q[i] = u}
    OBVIOUS
  <2>2. PlacesOf(Array(q, f, x), u) = P /\ PlacesOf(Array(r, g, y), u) = {i \in 1 .. n + 1 : r[i] = u}
    BY <1>2, <1>3, <2>1 DEF PlacesOf, Array
  <2>3. IsFiniteSet(P) /\ Cardinality(P) \in Nat
    <3>1. IsFiniteSet(1 .. n)
      BY <1>2, FS_Interval
    <3> QED
      BY <2>1, <3>1, FS_Subset, FS_CardinalityType
  <2>4. \A i \in 1 .. n + 1 : (i \in 1 .. n \/ i = n + 1) /\ n + 1 \notin 1 .. n /\ n + 1 \in 1 .. n + 1
    BY <1>2
  <2>5. 1 .. n + 1 = (1 .. n) \cup {n + 1} /\ n + 1 \notin 1 .. n
    BY <1>2
  <2>6. CASE u = v
    <3>1. PlacesOf(Array(r, g, y), u) = P \cup {n + 1} /\ n + 1 \notin P
      <4>1. \A i \in 1 .. n : r[i] = u <=> q[i] = u
        BY <1>3
      <4>2. r[n + 1] = u
        BY <1>3, <2>6
      <4> QED
        BY <2>1, <2>2, <2>5, <4>1, <4>2
    <3>2. Cardinality(P \cup {n + 1}) = Cardinality(P) + 1
      BY <2>3, <3>1, FS_AddElement
    <3>3. One(u, v) = 1
      BY <2>6 DEF One
    <3>4. PICK a, b : a = Count(Array(r, g, y), u) /\ b = Count(Array(q, f, x), u)
      OBVIOUS
    <3>5. a = Cardinality(P \cup {n + 1}) /\ b = Cardinality(P)
      BY <2>2, <3>1, <3>4 DEF Count
    <3>6. a = b + 1
      BY <3>2, <3>5
    <3> QED
      BY <3>3, <3>4, <3>6
  <2>7. CASE u # v
    <3>1. PlacesOf(Array(r, g, y), u) = P
      <4>1. \A i \in 1 .. n : r[i] = u <=> q[i] = u
        BY <1>3
      <4>2. r[n + 1] # u
        BY <1>3, <2>7
      <4> QED
        BY <2>1, <2>2, <2>5, <4>1, <4>2
    <3>2. One(u, v) = 0
      BY <2>7 DEF One
    <3>3. PICK a, b : a = Count(Array(r, g, y), u) /\ b = Count(Array(q, f, x), u)
      OBVIOUS
    <3>4. a = Cardinality(P) /\ b = Cardinality(P)
      BY <2>2, <3>1, <3>3 DEF Count
    <3>5. a = b + 0
      BY <2>3, <3>4
    <3> QED
      BY <3>2, <3>3, <3>5
  <2> QED
    BY <2>6, <2>7
<1> QED
  BY <1>4, <1>5 DEF Longer

\* Nothing is held by an empty container.
LEMMA CountNone ==
  ASSUME NEW x
  PROVE  /\ ObjectLike(Object(<<>>)) /\ ArrayLike(Array(<<>>, <<>>, x))
         /\ \A u : Count(Object(<<>>), u) = 0 /\ Count(Array(<<>>, <<>>, x), u) = 0
<1>1. PICK e : e = <<>>
  OBVIOUS
<1>2. DOMAIN e = {} /\ e \in Seq(Ids) /\ IsFiniteSet(DOMAIN e)
  BY <1>1, FS_EmptySet
<1>3. ObjectLike(Object(e)) /\ ArrayLike(Array(e, e, x))
  BY <1>2 DEF ObjectLike, ArrayLike
<1>4. \A u : PlacesOf(Object(e), u) = {} /\ PlacesOf(Array(e, e, x), u) = {}
  BY <1>2 DEF PlacesOf, Object, Array
<1>5. \A u : Count(Object(e), u) = 0 /\ Count(Array(e, e, x), u) = 0
  BY <1>4, FS_EmptySet DEF Count
<1> QED
  BY <1>1, <1>3, <1>5

\* A copy holds the same elements.
LEMMA CountCopy ==
  ASSUME NEW h, NEW p, Content(p), NEW c, c = CopyOfValues(h, p)
  PROVE  Content(c) /\ c.type = p.type /\ \A u : Count(c, u) = Count(p, u)
<1>1. CASE p.type # "array"
  BY <1>1 DEF CopyOfValues
<1>2. CASE p.type = "array"
  <2>1. PICK q, f, x : p = Array(q, f, x) /\ q \in Seq(Ids)
    BY <1>2, Types DEF ArrayLike
  <2>2. p.vector = q
    BY <2>1 DEF Array
  <2>3. PICK g : c = Array(q, g, Anonymous)
    BY <1>2, <2>2 DEF CopyOfValues
  <2>4. Content(c)
    BY <2>1, <2>3 DEF Content, ArrayLike
  <2>5. c.type = "array" /\ c.vector = q
    BY <2>3 DEF Array
  <2>6. \A u : PlacesOf(c, u) = PlacesOf(p, u)
    BY <1>2, <2>2, <2>5 DEF PlacesOf
  <2> QED
    BY <1>2, <2>4, <2>5, <2>6 DEF Count
<1> QED
  BY <1>1, <1>2

\* A heap: numbers of values, each of which is younger than what it refers to.
Cell(x) == \E n, r, w : x = [name |-> n, refcnt |-> r, what |-> w] /\ r \in Nat /\ Content(w)
Valued(h) ==
  /\ DOMAIN h \in SUBSET Ids
  /\ \A v \in DOMAIN h : Cell(h[v]) /\ \A u \in Ids : Count(h[v].what, u) > 0 => u < v

\* How often the values of a heap refer to one.
InsideOf(h, v) == [u \in DOMAIN h |-> Count(h[u].what, v)]
Inside(h, v) == Total(InsideOf(h, v))

\* The counts are those of the references inside and of some more.
Balanced(h, out) ==
  \A v \in Ids : IF v \in DOMAIN h THEN h[v].refcnt = out[v] + Inside(h, v) /\ h[v].refcnt > 0
                 ELSE out[v] + Inside(h, v) = 0

\* The same names and elements.
Unaltered(g, h) == \A v \in DOMAIN g : g[v].name = h[v].name /\ g[v].what = h[v].what

LEMMA CellIs ==
  ASSUME NEW x, Cell(x)
  PROVE  /\ x.refcnt \in Nat /\ Content(x.what)
         /\ \A r \in Nat : LET y == [x EXCEPT !.refcnt = r]
                           IN  Cell(y) /\ y.refcnt = r /\ y.name = x.name /\ y.what = x.what
<1>1. PICK n, r, w : x = [name |-> n, refcnt |-> r, what |-> w] /\ r \in Nat /\ Content(w)
  BY DEF Cell
<1>2. ASSUME NEW s \in Nat, NEW y, y = [x EXCEPT !.refcnt = s]
      PROVE  Cell(y) /\ y.refcnt = s /\ y.name = x.name /\ y.what = x.what
  <2>1. y = [name |-> n, refcnt |-> s, what |-> w]
    BY <1>1, <1>2
  <2>2. Cell(y)
    BY <1>1, <2>1 DEF Cell
  <2> QED
    BY <1>1, <2>1, <2>2
<1>3. x.refcnt = r /\ x.what = w
  BY <1>1
<1> QED
  BY <1>1, <1>2, <1>3

LEMMA IdsFinite == IsFiniteSet(Ids) /\ \A v \in Ids : v \in Nat
<1>1. MaxValues \in Nat
  BY ValuesAssumption
<1>2. IsFiniteSet(1 .. MaxValues)
  BY <1>1, FS_Interval
<1> QED
  BY <1>1, <1>2 DEF Ids

LEMMA InsideSized ==
  ASSUME NEW h, Valued(h), NEW v
  PROVE  Sized(InsideOf(h, v)) /\ Inside(h, v) \in Nat
<1>1. IsFiniteSet(DOMAIN h)
  BY IdsFinite, FS_Subset DEF Valued
<1>2. ASSUME NEW u \in DOMAIN h PROVE Count(h[u].what, v) \in Nat
  <2>1. Content(h[u].what)
    BY CellIs DEF Valued
  <2> QED
    BY <2>1, PlacesAre
<1>3. Sized(InsideOf(h, v))
  BY <1>1, <1>2 DEF Sized, InsideOf
<1> QED
  BY <1>3, TotalNat DEF Inside

\* What a value of the heap refers to has references inside.
LEMMA InsideSome ==
  ASSUME NEW h, Valued(h), NEW u \in DOMAIN h, NEW v, Count(h[u].what, v) > 0
  PROVE  Inside(h, v) > 0
<1>1. Sized(InsideOf(h, v)) /\ Inside(h, v) \in Nat
  BY InsideSized
<1>2. u \in DOMAIN InsideOf(h, v) /\ InsideOf(h, v)[u] = Count(h[u].what, v)
  BY DEF InsideOf
<1>3. Content(h[u].what)
  BY CellIs DEF Valued
<1>4. Count(h[u].what, v) \in Nat
  BY <1>3, PlacesAre
<1>5. ASSUME Inside(h, v) = 0 PROVE FALSE
  <2>1. InsideOf(h, v)[u] = 0
    BY <1>1, <1>2, <1>5, TotalZero DEF Inside
  <2> QED
    BY <1>2, <1>4, <2>1
<1> QED
  BY <1>1, <1>5

LEMMA InsideSame ==
  ASSUME NEW h, NEW g, DOMAIN g = DOMAIN h, \A u \in DOMAIN h : g[u].what = h[u].what, NEW v
  PROVE  Inside(g, v) = Inside(h, v)
<1>1. InsideOf(g, v) = InsideOf(h, v)
  BY DEF InsideOf
<1> QED
  BY <1>1 DEF Inside

\* g is h without w, but for the counts.
Fewer(h, w, g) == DOMAIN g = DOMAIN h \ {w} /\ \A u \in DOMAIN g : g[u].what = h[u].what

LEMMA InsideLess ==
  ASSUME NEW h, Valued(h), NEW w \in DOMAIN h, NEW g, Fewer(h, w, g), NEW v
  PROVE  Inside(h, v) = Count(h[w].what, v) + Inside(g, v)
<1>1. Sized(InsideOf(h, v))
  BY InsideSized
<1>2. w \in DOMAIN InsideOf(h, v) /\ InsideOf(h, v)[w] = Count(h[w].what, v)
  BY DEF InsideOf
<1>3. Less(InsideOf(h, v), w, InsideOf(g, v))
  BY DEF InsideOf, Less, Fewer
<1> QED
  BY <1>1, <1>2, <1>3, TotalLess DEF Inside

\* operator++ for the references of p.
LEMMA HoldIs ==
  ASSUME NEW h, Valued(h), NEW out \in [Ids -> Nat], Balanced(h, out), NEW p, Content(p),
         \A u \in Ids : Count(p, u) > 0 => u \in DOMAIN h,
         NEW g, g = Hold(h, p), NEW more \in [Ids -> Nat], \A u \in Ids : more[u] = out[u] + Count(p, u)
  PROVE  Valued(g) /\ Balanced(g, more) /\ DOMAIN g = DOMAIN h /\ Unaltered(g, h)
<1>1. DOMAIN g = DOMAIN h /\ \A v \in DOMAIN h : g[v] = [h[v] EXCEPT !.refcnt = h[v].refcnt + Count(p, v)]
  BY DEF Hold
<1>2. \A v : Count(p, v) \in Nat
  BY PlacesAre
<1>3. ASSUME NEW v \in DOMAIN h
      PROVE  /\ Cell(g[v]) /\ g[v].refcnt = h[v].refcnt + Count(p, v)
             /\ g[v].name = h[v].name /\ g[v].what = h[v].what /\ h[v].refcnt \in Nat
  <2>1. Cell(h[v])
    BY DEF Valued
  <2>2. h[v].refcnt \in Nat
    BY <2>1, CellIs
  <2>3. PICK r \in Nat : r = h[v].refcnt + Count(p, v)
    BY <1>2, <2>2
  <2>4. g[v] = [h[v] EXCEPT !.refcnt = r]
    BY <1>1, <2>3
  <2> QED
    BY <2>1, <2>2, <2>3, <2>4, CellIs
<1>4. Unaltered(g, h)
  BY <1>1, <1>3 DEF Unaltered
<1>5. Valued(g)
  BY <1>1, <1>3 DEF Valued
<1>6. ASSUME NEW v \in Ids
      PROVE  IF v \in DOMAIN g THEN g[v].refcnt = more[v] + Inside(g, v) /\ g[v].refcnt > 0
             ELSE more[v] + Inside(g, v) = 0
  <2>1. Inside(g, v) = Inside(h, v) /\ Inside(h, v) \in Nat
    BY <1>1, <1>3, InsideSame, InsideSized
  <2>2. out[v] \in Nat /\ more[v] = out[v] + Count(p, v) /\ Count(p, v) \in Nat
    BY <1>2
  <2>3. CASE v \in DOMAIN h
    <3>1. h[v].refcnt = out[v] + Inside(h, v) /\ h[v].refcnt > 0
      BY <2>3 DEF Balanced
    <3> QED
      BY <1>1, <1>3, <2>1, <2>2, <2>3, <3>1
  <2>4. CASE v \notin DOMAIN h
    <3>1. out[v] + Inside(h, v) = 0
      BY <2>4 DEF Balanced
    <3>2. Count(p, v) = 0
      BY <2>2, <2>4
    <3> QED
      BY <1>1, <2>1, <2>2, <2>4, <3>1, <3>2
  <2> QED
    BY <2>3, <2>4
<1>7. Balanced(g, more)
  BY <1>6 DEF Balanced
<1> QED
  BY <1>1, <1>4, <1>5, <1>7

\* g is h and one value more.
OneNewer(h, v, k, p, g) ==
  /\ v \in Ids \ DOMAIN h /\ DOMAIN g = DOMAIN h \cup {v} /\ g[v].name = k /\ g[v].what = p
  /\ \A u \in DOMAIN h : g[u].name = h[u].name /\ g[u].what = h[u].what
\* One reference more, to v.
OneMore(out, v, more) == \A u \in Ids : more[u] = out[u] + One(u, v)
\* What p refers to is there.
Refers(p, h) == \A u \in Ids : Count(p, u) > 0 => u \in DOMAIN h

\* A new value, to which one more refers.
LEMMA NewIs ==
  ASSUME NEW h, Valued(h), NEW out \in [Ids -> Nat], Balanced(h, out), NEW p, Content(p),
         Refers(p, h), NEW v \in FreshValue(h, p), NEW k, NEW g, g = NewValue(h, v, k, p),
         NEW more \in [Ids -> Nat], OneMore(out, v, more)
  PROVE  Valued(g) /\ Balanced(g, more) /\ OneNewer(h, v, k, p, g)
<1>1. v \in Ids \ DOMAIN h /\ \A u \in Ids : Count(p, u) > 0 => u < v
  BY DEF FreshValue
<1>2. PICK e : e = Hold(h, p)
  OBVIOUS
<1>3. g = With(e, v, [name |-> k, refcnt |-> 1, what |-> p])
  BY <1>2 DEF NewValue
<1>4. \A u : Count(p, u) \in Nat
  BY PlacesAre
<1>5. PICK mid \in [Ids -> Nat] : \A u \in Ids : mid[u] = out[u] + Count(p, u)
  <2>1. PICK mid : mid = [u \in Ids |-> out[u] + Count(p, u)]
    OBVIOUS
  <2>2. \A u \in Ids : out[u] + Count(p, u) \in Nat
    BY <1>4
  <2> QED
    BY <2>1, <2>2
<1>6. Valued(e) /\ Balanced(e, mid) /\ DOMAIN e = DOMAIN h /\ Unaltered(e, h)
  BY <1>2, <1>5, HoldIs DEF Refers
<1>7. /\ DOMAIN g = DOMAIN h \cup {v} /\ g[v] = [name |-> k, refcnt |-> 1, what |-> p]
      /\ \A u \in DOMAIN h : g[u] = e[u]
  BY <1>1, <1>3, <1>6 DEF With
<1>8. g[v].name = k /\ g[v].what = p /\ g[v].refcnt = 1 /\ Cell(g[v])
  <2>1. PICK y : y = g[v]
    OBVIOUS
  <2>2. y = [name |-> k, refcnt |-> 1, what |-> p]
    BY <1>7, <2>1
  <2>3. y.name = k /\ y.what = p /\ y.refcnt = 1
    BY <2>2
  <2>4. Cell(y)
    <3>1. 1 \in Nat /\ y = [name |-> k, refcnt |-> 1, what |-> p] /\ Content(p)
      BY <2>2
    <3> QED
      BY <3>1 DEF Cell
  <2> QED
    BY <2>1, <2>3, <2>4
<1>9. \A u \in DOMAIN h : g[u].name = h[u].name /\ g[u].what = h[u].what
  BY <1>6, <1>7 DEF Unaltered
<1>10. Valued(g)
  <2>1. DOMAIN g \in SUBSET Ids
    BY <1>1, <1>6, <1>7 DEF Valued
  <2>2. \A u \in DOMAIN h : Cell(g[u]) /\ \A w \in Ids : Count(g[u].what, w) > 0 => w < u
    BY <1>6, <1>7 DEF Valued
  <2> QED
    BY <1>1, <1>7, <1>8, <2>1, <2>2 DEF Valued
<1>11. ASSUME NEW u PROVE Inside(g, u) = Count(p, u) + Inside(e, u)
  <2>1. v \in DOMAIN g /\ Fewer(g, v, e)
    BY <1>1, <1>6, <1>7 DEF Fewer
  <2>2. Inside(g, u) = Count(g[v].what, u) + Inside(e, u)
    BY <1>10, <2>1, InsideLess
  <2> QED
    BY <1>8, <2>2
<1>12. ASSUME NEW u \in Ids
       PROVE  IF u \in DOMAIN g THEN g[u].refcnt = more[u] + Inside(g, u) /\ g[u].refcnt > 0
              ELSE more[u] + Inside(g, u) = 0
  <2>1. PICK a, b, c, d : a = Inside(g, u) /\ b = Inside(e, u) /\ c = Count(p, u) /\ d = out[u]
    OBVIOUS
  <2>2. a = c + b /\ b \in Nat /\ c \in Nat /\ d \in Nat
    BY <1>4, <1>6, <1>11, <2>1, InsideSized
  <2>3. mid[u] = d + c /\ more[u] = d + One(u, v)
    BY <1>5, <2>1 DEF OneMore
  <2>4. CASE u = v
    <3>1. One(u, v) = 1 /\ ~(c > 0)
      BY <1>1, <2>1, <2>2, <2>4, IdsFinite DEF One
    <3>2. mid[u] + b = 0
      BY <1>1, <1>6, <2>1, <2>4 DEF Balanced
    <3>3. u \in DOMAIN g /\ g[u].refcnt = 1
      BY <1>7, <1>8, <2>4
    <3>4. a = 0 /\ d = 0
      BY <2>2, <2>3, <3>1, <3>2
    <3>5. more[u] = 1 /\ Inside(g, u) = 0
      BY <2>1, <2>3, <3>1, <3>4
    <3> QED
      BY <3>3, <3>5
  <2>5. CASE u # v /\ u \in DOMAIN h
    <3>1. One(u, v) = 0 /\ g[u].refcnt = e[u].refcnt /\ u \in DOMAIN g
      BY <1>7, <2>5 DEF One
    <3>2. e[u].refcnt = mid[u] + b /\ e[u].refcnt > 0
      BY <1>6, <2>1, <2>5 DEF Balanced
    <3> QED
      BY <2>1, <2>2, <2>3, <3>1, <3>2
  <2>6. CASE u # v /\ u \notin DOMAIN h
    <3>1. One(u, v) = 0 /\ u \notin DOMAIN g
      BY <1>7, <2>6 DEF One
    <3>2. mid[u] + b = 0
      BY <1>6, <2>1, <2>6 DEF Balanced
    <3> QED
      BY <2>1, <2>2, <2>3, <3>1, <3>2
  <2> QED
    BY <2>4, <2>5, <2>6
<1>13. Balanced(g, more)
  BY <1>12 DEF Balanced
<1> QED
  BY <1>1, <1>7, <1>8, <1>9, <1>10, <1>13 DEF OneNewer

\* What Release does with one value: x is what it has after the younger ones.
Passed(x, w) ==
  LET left == x.heap[w].refcnt - x.refs[w]
  IN  IF x.refs[w] = 0 \/ w \notin DOMAIN x.heap THEN x
      ELSE IF left # 0
      THEN [x EXCEPT !.heap[w].refcnt = left]
      ELSE [heap |-> Restrict(x.heap, DOMAIN x.heap \ {w}),
            refs |-> [u \in Ids |-> x.refs[u] + Count(x.heap[w].what, u)]]

\* Release is a walk from the youngest value to the oldest.
Walk(h, refs, a) ==
  /\ a[MaxValues] = [heap |-> h, refs |-> refs]
  /\ \A v \in 0 .. MaxValues - 1 : a[v] = Passed(a[v + 1], v + 1)

LEMMA ReleaseWalks ==
  ASSUME NEW h, NEW refs
  PROVE  \E a : Walk(h, refs, a) /\ Release(h, refs) = a[0].heap
<1> DEFINE F(f, v) == IF v = MaxValues THEN [heap |-> h, refs |-> refs] ELSE Passed(f[v + 1], v + 1)
           Ok(f, n) == DOMAIN f = 0 .. MaxValues /\ \A v \in 0 .. MaxValues : MaxValues - v <= n => f[v] = F(f, v)
           N == {n \in Nat : \E f : Ok(f, n)}
<1>0. MaxValues \in Nat
  BY ValuesAssumption
<1>1. 0 \in N
  <2>1. PICK f : f = [v \in 0 .. MaxValues |-> [heap |-> h, refs |-> refs]]
    OBVIOUS
  <2>2. ASSUME NEW v \in 0 .. MaxValues, MaxValues - v <= 0 PROVE f[v] = F(f, v)
    <3>1. v = MaxValues
      BY <1>0, <2>2
    <3> QED
      BY <2>1, <3>1
  <2>3. Ok(f, 0)
    <3> HIDE DEF F
    <3> QED
      BY <2>1, <2>2
  <2> HIDE DEF Ok
  <2> QED
    BY <2>3
<1>2. ASSUME NEW n \in N PROVE n + 1 \in N
  <2>1. PICK f : Ok(f, n)
    OBVIOUS
  <2>2. PICK g : g = [v \in 0 .. MaxValues |-> IF MaxValues - v <= n THEN f[v] ELSE F(f, v)]
    OBVIOUS
  <2>3. n \in Nat
    OBVIOUS
  <2>4. \A v \in 0 .. MaxValues : MaxValues - v <= n => g[v] = f[v]
    BY <2>2
  <2>5. ASSUME NEW v \in 0 .. MaxValues, MaxValues - v <= n + 1 PROVE g[v] = F(g, v)
    <3>1. g[v] = F(f, v)
      <4> HIDE DEF F
      <4> QED
        BY <2>1, <2>2
    <3>2. F(f, v) = F(g, v)
      <4>1. CASE v = MaxValues
        BY <4>1
      <4>2. CASE v # MaxValues
        <5>1. v + 1 \in 0 .. MaxValues /\ MaxValues - (v + 1) <= n
          BY <1>0, <2>3, <2>5, <4>2
        <5>2. g[v + 1] = f[v + 1]
          BY <2>4, <5>1
        <5> QED
          BY <4>2, <5>2
      <4> QED
        BY <4>1, <4>2
    <3> HIDE DEF F
    <3> QED
      BY <3>1, <3>2
  <2>6. Ok(g, n + 1)
    <3> HIDE DEF F
    <3> QED
      BY <2>2, <2>5
  <2>7. \E e : Ok(e, n + 1)
    <3> HIDE DEF Ok
    <3> QED
      BY <2>6
  <2> HIDE DEF Ok
  <2> QED
    BY <2>3, <2>7
<1>3. N = Nat
  <2>1. N \in SUBSET Nat
    OBVIOUS
  <2> HIDE DEF N
  <2> QED
    BY <1>1, <1>2, <2>1, Induct
<1> DEFINE after == CHOOSE a : a = [v \in 0 .. MaxValues |-> F(a, v)]
<1>4. after = [v \in 0 .. MaxValues |-> F(after, v)]
  <2>1. PICK g : Ok(g, MaxValues)
    <3>1. MaxValues \in N
      BY <1>0, <1>3
    <3> HIDE DEF Ok
    <3> QED
      BY <3>1
  <2>2. \A v \in 0 .. MaxValues : MaxValues - v <= MaxValues
    BY <1>0
  <2>3. DOMAIN g = 0 .. MaxValues /\ \A v \in 0 .. MaxValues : g[v] = F(g, v)
    <3> HIDE DEF F
    <3> QED
      BY <2>1, <2>2
  <2>4. PICK e : e = [v \in 0 .. MaxValues |-> g[v]]
    OBVIOUS
  <2>5. e = [v \in 0 .. MaxValues |-> F(e, v)]
    <3>1. ASSUME NEW v \in 0 .. MaxValues PROVE e[v] = F(e, v)
      <4>1. e[v] = F(g, v)
        <5> HIDE DEF F
        <5> QED
          BY <2>3, <2>4
      <4>2. CASE v = MaxValues
        BY <4>1, <4>2
      <4>3. CASE v # MaxValues
        <5>1. v + 1 \in 0 .. MaxValues
          BY <1>0, <4>3
        <5>2. e[v + 1] = g[v + 1]
          BY <2>4, <5>1
        <5> QED
          BY <4>1, <4>3, <5>2
      <4> QED
        BY <4>2, <4>3
    <3> HIDE DEF F
    <3> QED
      BY <2>4, <3>1
  <2> HIDE DEF F
  <2> QED
    BY <2>5
<1>5. Release(h, refs) = after[0].heap
  BY DEF Release, Passed
<1> HIDE DEF after
<1>6. after[MaxValues] = [heap |-> h, refs |-> refs]
  <2>1. MaxValues \in 0 .. MaxValues
    BY <1>0
  <2> QED
    BY <1>4, <2>1
<1>7. ASSUME NEW v \in 0 .. MaxValues - 1 PROVE after[v] = Passed(after[v + 1], v + 1)
  <2>1. v \in 0 .. MaxValues /\ v # MaxValues
    BY <1>0
  <2> QED
    BY <1>4, <2>1
<1>8. Walk(h, refs, after)
  BY <1>6, <1>7 DEF Walk
<1> HIDE DEF F
<1> QED
  BY <1>5, <1>8

\* The count of v is n and the references inside, and 0 when it is gone.
Due(h, v, n) == IF v \in DOMAIN h THEN h[v].refcnt = n + Inside(h, v) /\ h[v].refcnt > 0
                ELSE n + Inside(h, v) = 0

\* In the middle of a release: of the values up to n the references to be given
\* back are still counted.
Midway(h, out, n, x) ==
  /\ x = [heap |-> x.heap, refs |-> x.refs]
  /\ Valued(x.heap) /\ DOMAIN x.heap \in SUBSET DOMAIN h /\ Unaltered(x.heap, h)
  /\ x.refs \in [Ids -> Nat]
  /\ \A v \in Ids : v <= n => Due(x.heap, v, out[v] + x.refs[v])
  /\ \A v \in Ids : v > n => Due(x.heap, v, out[v])

LEMMA PassedKeeps ==
  ASSUME NEW h, NEW out \in [Ids -> Nat], NEW w \in Ids, NEW x, Midway(h, out, w, x),
         (x.refs[w] = 0 \/ w \notin DOMAIN x.heap)
  PROVE  Midway(h, out, w - 1, x)
<1>1. \A v \in Ids : v \in Nat
  BY IdsFinite
<1>2. ASSUME NEW v \in Ids, v <= w - 1 PROVE Due(x.heap, v, out[v] + x.refs[v])
  <2>1. v <= w
    BY <1>1, <1>2
  <2> QED
    BY <2>1 DEF Midway
<1>3. ASSUME NEW v \in Ids, v > w - 1 PROVE Due(x.heap, v, out[v])
  <2>1. CASE v > w
    BY <2>1 DEF Midway
  <2>2. CASE ~(v > w)
    <3>1. v = w
      BY <1>1, <1>3, <2>2
    <3>2. Due(x.heap, w, out[w] + x.refs[w])
      BY <1>1 DEF Midway
    <3>3. Inside(x.heap, w) \in Nat /\ out[w] \in Nat /\ x.refs[w] \in Nat
      BY InsideSized DEF Midway
    <3>4. CASE x.refs[w] = 0
      <4>1. out[w] + x.refs[w] = out[w]
        BY <3>3, <3>4
      <4> QED
        BY <3>1, <3>2, <4>1
    <3>5. CASE w \notin DOMAIN x.heap
      <4>1. (out[w] + x.refs[w]) + Inside(x.heap, w) = 0
        BY <3>2, <3>5 DEF Due
      <4>2. out[w] + Inside(x.heap, w) = 0
        BY <3>3, <4>1
      <4> QED
        BY <3>1, <3>5, <4>2 DEF Due
    <3> QED
      BY <3>4, <3>5
  <2> QED
    BY <2>1, <2>2
<1> QED
  BY <1>2, <1>3 DEF Midway

LEMMA PassedLess ==
  ASSUME NEW h, NEW out \in [Ids -> Nat], NEW w \in Ids, NEW x, Midway(h, out, w, x),
         x.refs[w] # 0, w \in DOMAIN x.heap, NEW left, left = x.heap[w].refcnt - x.refs[w], left # 0,
         NEW y, y = [x EXCEPT !.heap[w].refcnt = left]
  PROVE  Midway(h, out, w - 1, y)
<1>1. \A v \in Ids : v \in Nat
  BY IdsFinite
<1>2. PICK g, r : g = x.heap /\ r = x.refs
  OBVIOUS
<1>3. x = [heap |-> g, refs |-> r] /\ Valued(g) /\ DOMAIN g \in SUBSET DOMAIN h /\ Unaltered(g, h) /\ r \in [Ids -> Nat]
  BY <1>2 DEF Midway
<1>4. Cell(g[w]) /\ w \in DOMAIN g
  BY <1>2, <1>3 DEF Valued
<1>5. left \in Nat /\ left = out[w] + Inside(g, w) /\ left > 0
  <2>1. Due(g, w, out[w] + r[w])
    BY <1>1, <1>2 DEF Midway
  <2>2. PICK a, b, c : a = Inside(g, w) /\ b = out[w] /\ c = r[w]
    OBVIOUS
  <2>3. a \in Nat /\ b \in Nat /\ c \in Nat
    BY <1>3, <2>2, InsideSized
  <2>4. g[w].refcnt = (b + c) + a
    BY <1>4, <2>1, <2>2 DEF Due
  <2>5. left = ((b + c) + a) - c
    BY <1>2, <2>2, <2>4
  <2>6. left = b + a
    BY <2>3, <2>5
  <2> QED
    BY <2>2, <2>3, <2>6
<1>6. PICK z : z = [g[w] EXCEPT !.refcnt = left]
  OBVIOUS
<1>7. Cell(z) /\ z.refcnt = left /\ z.name = g[w].name /\ z.what = g[w].what
  BY <1>4, <1>5, <1>6, CellIs
<1>8. PICK f : f = [g EXCEPT ![w] = z]
  OBVIOUS
<1>9. y = [heap |-> f, refs |-> r]
  <2>1. y = [x EXCEPT !.heap = [x.heap EXCEPT ![w] = [x.heap[w] EXCEPT !.refcnt = left]]]
    OBVIOUS
  <2>2. y = [x EXCEPT !.heap = f]
    BY <1>2, <1>6, <1>8, <2>1
  <2> QED
    BY <1>3, <2>2
<1>10. DOMAIN f = DOMAIN g /\ f[w] = z /\ \A u \in DOMAIN g \ {w} : f[u] = g[u]
  BY <1>4, <1>8
<1>11. \A u \in DOMAIN g : Cell(f[u]) /\ f[u].name = g[u].name /\ f[u].what = g[u].what
  BY <1>3, <1>7, <1>10 DEF Valued
<1>12. Valued(f) /\ Unaltered(f, h)
  BY <1>3, <1>10, <1>11 DEF Valued, Unaltered
<1>13. \A v : Inside(f, v) = Inside(g, v)
  BY <1>10, <1>11, InsideSame
<1>14. ASSUME NEW v \in Ids, v # w, NEW n, Due(g, v, n) PROVE Due(f, v, n)
  <2>1. v \in DOMAIN f <=> v \in DOMAIN g
    BY <1>10
  <2>2. v \in DOMAIN g => f[v] = g[v]
    BY <1>10, <1>14
  <2> QED
    BY <1>13, <1>14, <2>1, <2>2 DEF Due
<1>15. Due(f, w, out[w])
  BY <1>4, <1>5, <1>7, <1>10, <1>13 DEF Due
<1>16. ASSUME NEW v \in Ids, v <= w - 1 PROVE Due(f, v, out[v] + r[v])
  <2>1. v <= w /\ v # w
    BY <1>1, <1>16
  <2>2. Due(g, v, out[v] + r[v])
    BY <1>2, <2>1 DEF Midway
  <2> QED
    BY <1>14, <2>1, <2>2
<1>17. ASSUME NEW v \in Ids, v > w - 1 PROVE Due(f, v, out[v])
  <2>1. CASE v = w
    BY <1>15, <2>1
  <2>2. CASE v # w
    <3>1. v > w
      BY <1>1, <1>17, <2>2
    <3>2. Due(g, v, out[v])
      BY <1>2, <3>1 DEF Midway
    <3> QED
      BY <1>14, <2>2, <3>2
  <2> QED
    BY <2>1, <2>2
<1>18. y.heap = f /\ y.refs = r /\ y = [heap |-> y.heap, refs |-> y.refs]
  <2>1. PICK e : e = [heap |-> f, refs |-> r]
    OBVIOUS
  <2>2. e.heap = f /\ e.refs = r /\ e = [heap |-> e.heap, refs |-> e.refs]
    BY <2>1
  <2>3. y = e
    BY <1>9, <2>1
  <2> QED
    BY <2>2, <2>3
<1> QED
  BY <1>3, <1>10, <1>12, <1>16, <1>17, <1>18 DEF Midway

LEMMA PassedGone ==
  ASSUME NEW h, NEW out \in [Ids -> Nat], NEW w \in Ids, NEW x, Midway(h, out, w, x),
         x.refs[w] # 0, w \in DOMAIN x.heap, x.heap[w].refcnt - x.refs[w] = 0,
         NEW y, y = [heap |-> Restrict(x.heap, DOMAIN x.heap \ {w}),
                     refs |-> [u \in Ids |-> x.refs[u] + Count(x.heap[w].what, u)]]
  PROVE  Midway(h, out, w - 1, y)
<1>1. \A v \in Ids : v \in Nat
  BY IdsFinite
<1>2. PICK g, r, p : g = x.heap /\ r = x.refs /\ p = g[w].what
  OBVIOUS
<1>3. Valued(g) /\ DOMAIN g \in SUBSET DOMAIN h /\ Unaltered(g, h) /\ r \in [Ids -> Nat] /\ w \in DOMAIN g
  BY <1>2 DEF Midway
<1>4. Cell(g[w]) /\ Content(p) /\ \A u \in Ids : Count(p, u) > 0 => u < w
  BY <1>2, <1>3, CellIs DEF Valued
<1>5. \A u : Count(p, u) \in Nat
  BY <1>4, PlacesAre
<1>6. PICK f : f = Restrict(g, DOMAIN g \ {w})
  OBVIOUS
<1>7. DOMAIN f = DOMAIN g \ {w} /\ \A u \in DOMAIN f : f[u] = g[u]
  BY <1>6 DEF Restrict
<1>8. PICK s : s = [u \in Ids |-> r[u] + Count(p, u)]
  OBVIOUS
<1>9. s \in [Ids -> Nat] /\ \A u \in Ids : s[u] = r[u] + Count(p, u)
  <2>1. \A u \in Ids : r[u] + Count(p, u) \in Nat
    BY <1>3, <1>5
  <2> QED
    BY <1>8, <2>1
<1>10. y = [heap |-> f, refs |-> s]
  BY <1>2, <1>6, <1>8
<1>11. Valued(f) /\ Unaltered(f, h) /\ DOMAIN f \in SUBSET DOMAIN h
  BY <1>3, <1>7 DEF Valued, Unaltered
<1>12. ASSUME NEW v PROVE Inside(g, v) = Count(p, v) + Inside(f, v) /\ Inside(f, v) \in Nat
  <2>1. Fewer(g, w, f)
    BY <1>7 DEF Fewer
  <2>2. Inside(g, v) = Count(g[w].what, v) + Inside(f, v)
    BY <1>3, <2>1, InsideLess
  <2> QED
    BY <1>2, <1>11, <2>2, InsideSized
<1>13. ASSUME NEW v \in Ids, v <= w - 1 PROVE Due(f, v, out[v] + s[v])
  <2>1. v <= w /\ v # w
    BY <1>1, <1>13
  <2>2. Due(g, v, out[v] + r[v])
    BY <1>2, <2>1 DEF Midway
  <2>3. PICK a, b, c, d, e : a = Inside(g, v) /\ b = Inside(f, v) /\ c = Count(p, v) /\ d = r[v] /\ e = out[v]
    OBVIOUS
  <2>4. a = c + b /\ b \in Nat /\ c \in Nat /\ d \in Nat /\ e \in Nat /\ s[v] = d + c
    BY <1>3, <1>5, <1>9, <1>12, <2>3
  <2>5. (e + (d + c)) + b = (e + d) + a
    BY <2>4
  <2>6. (out[v] + s[v]) + Inside(f, v) = (out[v] + r[v]) + Inside(g, v)
    BY <2>3, <2>4, <2>5
  <2>7. v \in DOMAIN f <=> v \in DOMAIN g
    BY <1>7, <2>1
  <2>8. v \in DOMAIN f => f[v] = g[v]
    BY <1>7
  <2> QED
    BY <2>2, <2>6, <2>7, <2>8 DEF Due
<1>14. ASSUME NEW v \in Ids, v > w - 1 PROVE Due(f, v, out[v])
  <2>0. Count(p, v) = 0
    <3>1. ~(v < w)
      BY <1>1, <1>14
    <3> QED
      BY <1>4, <1>5, <3>1
  <2>1. Inside(f, v) = Inside(g, v)
    BY <1>12, <2>0
  <2>2. CASE v = w
    <3>1. Due(g, w, out[w] + r[w])
      BY <1>1, <1>2 DEF Midway
    <3>2. PICK a, b, c : a = Inside(g, w) /\ b = out[w] /\ c = r[w]
      OBVIOUS
    <3>3. a \in Nat /\ b \in Nat /\ c \in Nat
      BY <1>3, <3>2, InsideSized
    <3>4. g[w].refcnt = (b + c) + a
      BY <1>3, <3>1, <3>2 DEF Due
    <3>5. ((b + c) + a) - c = 0
      BY <1>2, <3>2, <3>4
    <3>6. b + a = 0
      BY <3>3, <3>5
    <3> QED
      BY <1>7, <2>1, <2>2, <3>2, <3>6 DEF Due
  <2>3. CASE v # w
    <3>1. v > w
      BY <1>1, <1>14, <2>3
    <3>2. Due(g, v, out[v])
      BY <1>2, <3>1 DEF Midway
    <3>3. v \in DOMAIN f <=> v \in DOMAIN g
      BY <1>7, <2>3
    <3>4. v \in DOMAIN f => f[v] = g[v]
      BY <1>7
    <3> QED
      BY <2>1, <3>2, <3>3, <3>4 DEF Due
  <2> QED
    BY <2>2, <2>3
<1>15. y.heap = f /\ y.refs = s /\ y = [heap |-> y.heap, refs |-> y.refs]
  BY <1>10
<1> QED
  BY <1>9, <1>11, <1>13, <1>14, <1>15 DEF Midway

LEMMA PassedIs ==
  ASSUME NEW h, NEW out \in [Ids -> Nat], NEW w \in Ids, NEW x, Midway(h, out, w, x)
  PROVE  Midway(h, out, w - 1, Passed(x, w))
<1>1. CASE x.refs[w] = 0 \/ w \notin DOMAIN x.heap
  <2>1. Passed(x, w) = x
    BY <1>1 DEF Passed
  <2> QED
    BY <1>1, <2>1, PassedKeeps
<1>2. CASE ~(x.refs[w] = 0 \/ w \notin DOMAIN x.heap)
  <2>1. PICK left : left = x.heap[w].refcnt - x.refs[w]
    OBVIOUS
  <2>2. CASE left # 0
    <3>1. Passed(x, w) = [x EXCEPT !.heap[w].refcnt = left]
      BY <1>2, <2>1, <2>2 DEF Passed
    <3>2. x.refs[w] # 0 /\ w \in DOMAIN x.heap
      BY <1>2
    <3> QED
      BY <2>1, <2>2, <3>1, <3>2, PassedLess
  <2>3. CASE left = 0
    <3>1. Passed(x, w) = [heap |-> Restrict(x.heap, DOMAIN x.heap \ {w}),
                          refs |-> [u \in Ids |-> x.refs[u] + Count(x.heap[w].what, u)]]
      BY <1>2, <2>1, <2>3 DEF Passed
    <3>2. x.refs[w] # 0 /\ w \in DOMAIN x.heap /\ x.heap[w].refcnt - x.refs[w] = 0
      BY <1>2, <2>1, <2>3
    <3> QED
      BY <3>1, <3>2, PassedGone
  <2> QED
    BY <2>2, <2>3
<1> QED
  BY <1>1, <1>2

\* operator-- for some references, and all that goes with them.
LEMMA ReleaseIs ==
  ASSUME NEW h, Valued(h), NEW out \in [Ids -> Nat], NEW refs \in [Ids -> Nat], NEW more,
         \A u \in Ids : more[u] = out[u] + refs[u], Balanced(h, more), NEW g, g = Release(h, refs)
  PROVE  Valued(g) /\ Balanced(g, out) /\ DOMAIN g \in SUBSET DOMAIN h /\ Unaltered(g, h)
<1>0. MaxValues \in Nat /\ \A v \in Ids : v \in Nat /\ v <= MaxValues /\ v > 0
  BY ValuesAssumption DEF Ids
<1>1. PICK a : Walk(h, refs, a) /\ Release(h, refs) = a[0].heap
  BY ReleaseWalks
<1>2. Midway(h, out, MaxValues, a[MaxValues])
  <2>1. PICK x : x = [heap |-> h, refs |-> refs]
    OBVIOUS
  <2>2. x.heap = h /\ x.refs = refs /\ x = [heap |-> x.heap, refs |-> x.refs]
    BY <2>1
  <2>3. a[MaxValues] = x
    BY <1>1, <2>1 DEF Walk
  <2>4. ASSUME NEW v \in Ids PROVE Due(h, v, out[v] + refs[v]) /\ ~(v > MaxValues)
    <3>1. more[v] = out[v] + refs[v]
      OBVIOUS
    <3>2. Due(h, v, more[v])
      BY DEF Balanced, Due
    <3> QED
      BY <1>0, <3>1, <3>2
  <2>5. Unaltered(h, h)
    BY DEF Unaltered
  <2> QED
    BY <2>2, <2>3, <2>4, <2>5 DEF Midway
<1> DEFINE T == {k \in Nat : k <= MaxValues => Midway(h, out, MaxValues - k, a[MaxValues - k])}
<1>3. T \in SUBSET Nat
  OBVIOUS
<1>4. 0 \in T
  <2>1. MaxValues - 0 = MaxValues
    BY <1>0
  <2> QED
    BY <1>2, <2>1
<1>5. ASSUME NEW k \in 1 .. MaxValues, k - 1 \in T PROVE k \in T
  <2>1. PICK w : w = MaxValues - (k - 1)
    OBVIOUS
  <2>2. w \in Ids /\ w - 1 = MaxValues - k /\ k - 1 <= MaxValues /\ MaxValues - k \in 0 .. MaxValues - 1
        /\ (MaxValues - k) + 1 = w /\ k \in Nat
    BY <1>0, <2>1 DEF Ids
  <2>3. Midway(h, out, w, a[w])
    BY <1>5, <2>1, <2>2
  <2>4. Midway(h, out, w - 1, Passed(a[w], w))
    BY <2>2, <2>3, PassedIs
  <2>5. a[MaxValues - k] = Passed(a[w], w)
    BY <1>1, <2>2 DEF Walk
  <2> QED
    BY <2>2, <2>4, <2>5
<1>6. MaxValues \in T
  <2> HIDE DEF T
  <2> QED
    BY <1>0, <1>3, <1>4, <1>5, Places
<1>7. Midway(h, out, 0, a[0])
  <2>1. MaxValues - MaxValues = 0 /\ MaxValues <= MaxValues
    BY <1>0
  <2> QED
    BY <1>6, <2>1
<1>8. g = a[0].heap
  BY <1>1
<1>9. Valued(g) /\ DOMAIN g \in SUBSET DOMAIN h /\ Unaltered(g, h) /\ \A v \in Ids : Due(g, v, out[v])
  BY <1>0, <1>7, <1>8 DEF Midway
<1> QED
  BY <1>9 DEF Balanced, Due

\* What the program's containers hold, and how often they refer to a value.
Contained(d) ==
  /\ DOMAIN d = Owners
  /\ \A c \in Owners : Content(d[c]) /\ d[c].type = IF c \in Objects THEN "object" ELSE "array"
FromOf(d, v) == [c \in Owners |-> Count(d[c], v)]
OutOf(d) == [v \in Ids |-> Total(FromOf(d, v))]

LEMMA FromSized ==
  ASSUME NEW d, Contained(d), NEW v
  PROVE  Sized(FromOf(d, v)) /\ Total(FromOf(d, v)) \in Nat
<1>1. IsFiniteSet(Owners)
  BY ValuesAssumption, FS_Union DEF Owners
<1>2. \A c \in Owners : Count(d[c], v) \in Nat
  BY PlacesAre DEF Contained
<1>3. Sized(FromOf(d, v))
  BY <1>1, <1>2 DEF Sized, FromOf
<1> QED
  BY <1>3, TotalNat

LEMMA OutIs ==
  ASSUME NEW d, Contained(d)
  PROVE  OutOf(d) \in [Ids -> Nat] /\ \A c \in Owners, v \in Ids : Count(d[c], v) > 0 => OutOf(d)[v] > 0
<1>1. OutOf(d) \in [Ids -> Nat]
  BY FromSized DEF OutOf
<1>2. ASSUME NEW c \in Owners, NEW v \in Ids, Count(d[c], v) > 0, OutOf(d)[v] = 0 PROVE FALSE
  <2>1. Total(FromOf(d, v)) = 0 /\ Sized(FromOf(d, v))
    BY <1>2, FromSized DEF OutOf
  <2>2. c \in DOMAIN FromOf(d, v) /\ FromOf(d, v)[c] = Count(d[c], v)
    BY DEF FromOf
  <2>3. FromOf(d, v)[c] = 0
    BY <2>1, <2>2, TotalZero
  <2> QED
    BY <1>2, <2>2, <2>3
<1>3. \A v \in Ids : OutOf(d)[v] \in Nat
  BY <1>1
<1> QED
  BY <1>1, <1>2, <1>3

\* Two states of the program that differ in one container.
LEMMA OutOther ==
  ASSUME NEW d, Contained(d), NEW e, Contained(e), NEW c \in Owners, \A x \in Owners \ {c} : e[x] = d[x]
  PROVE  \A v \in Ids : OutOf(e)[v] + Count(d[c], v) = OutOf(d)[v] + Count(e[c], v)
<1> SUFFICES ASSUME NEW v \in Ids PROVE OutOf(e)[v] + Count(d[c], v) = OutOf(d)[v] + Count(e[c], v)
  OBVIOUS
<1>1. PICK f, g : f = FromOf(d, v) /\ g = FromOf(e, v)
  OBVIOUS
<1>2. Sized(f) /\ Sized(g)
  BY <1>1, FromSized
<1>3. DOMAIN f = Owners /\ DOMAIN g = DOMAIN f /\ c \in DOMAIN f /\ \A x \in DOMAIN f \ {c} : g[x] = f[x]
  BY <1>1 DEF FromOf
<1>4. Total(g) + f[c] = Total(f) + g[c]
  BY <1>2, <1>3, TotalOther
<1>5. f[c] = Count(d[c], v) /\ g[c] = Count(e[c], v)
  BY <1>1 DEF FromOf
<1>6. OutOf(d)[v] = Total(f) /\ OutOf(e)[v] = Total(g)
  BY <1>1 DEF OutOf
<1> QED
  BY <1>4, <1>5, <1>6

\* All that holds elements.
Everything(h, d) == Range(d) \cup {h[v].what : v \in DOMAIN h}

LEMMA EverythingIs ==
  ASSUME NEW h, Valued(h), NEW d, Contained(d), NEW p \in Everything(h, d)
  PROVE  (\E c \in Owners : p = d[c]) \/ (\E v \in DOMAIN h : p = h[v].what)
  BY DEF Everything, Range, Contained

\* What somebody refers to is there.
LEMMA Alive ==
  ASSUME NEW h, Valued(h), NEW d, Contained(d), Balanced(h, OutOf(d)), NEW p \in Everything(h, d)
  PROVE  Content(p) /\ \A u \in Ids : Count(p, u) > 0 => u \in DOMAIN h
<1>1. CASE \E c \in Owners : p = d[c]
  <2>1. PICK c \in Owners : p = d[c]
    BY <1>1
  <2>2. Content(p)
    BY <2>1 DEF Contained
  <2>3. ASSUME NEW u \in Ids, Count(p, u) > 0, u \notin DOMAIN h PROVE FALSE
    <3>1. OutOf(d)[u] \in Nat /\ OutOf(d)[u] > 0 /\ Inside(h, u) \in Nat
      BY <2>1, <2>3, OutIs, InsideSized
    <3>2. OutOf(d)[u] + Inside(h, u) = 0
      BY <2>3 DEF Balanced
    <3> QED
      BY <3>1, <3>2
  <2> QED
    BY <2>2, <2>3
<1>2. CASE \E v \in DOMAIN h : p = h[v].what
  <2>1. PICK v \in DOMAIN h : p = h[v].what
    BY <1>2
  <2>2. Content(p)
    BY <2>1, CellIs DEF Valued
  <2>3. ASSUME NEW u \in Ids, Count(p, u) > 0, u \notin DOMAIN h PROVE FALSE
    <3>1. OutOf(d)[u] \in Nat /\ Inside(h, u) \in Nat /\ Inside(h, u) > 0
      BY <2>1, <2>3, OutIs, InsideSized, InsideSome
    <3>2. OutOf(d)[u] + Inside(h, u) = 0
      BY <2>3 DEF Balanced
    <3> QED
      BY <3>1, <3>2
  <2> QED
    BY <2>2, <2>3
<1> QED
  BY <1>1, <1>2, EverythingIs

\* Every name of an element leads to the last element that has it.
Named(h, p) ==
  p.type = "array" =>
    \A v \in Range(p.vector) : h[v].name # Anonymous =>
      \E i \in DOMAIN p.vector :
        /\ h[p.vector[i]].name = h[v].name
        /\ \A j \in i + 1 .. Len(p.vector) : h[p.vector[j]].name # h[v].name
        /\ h[v].name \in DOMAIN p.indices /\ p.indices[h[v].name] = p.vector[i]

\* The same, of a vector and its index.
LastNamed(h, q, f, i, k) ==
  /\ i \in 1 .. Len(q) /\ h[q[i]].name = k
  /\ \A j \in i + 1 .. Len(q) : h[q[j]].name # k
  /\ k \in DOMAIN f /\ f[k] = q[i]
Found(h, q, f) == \A l \in 1 .. Len(q) : h[q[l]].name # Anonymous => \E i : LastNamed(h, q, f, i, h[q[l]].name)

LEMMA NamedIsFound ==
  ASSUME NEW h, NEW q \in Seq(Ids), NEW f, NEW x
  PROVE  Named(h, Array(q, f, x)) <=> Found(h, q, f)
<1>1. PICK p : p = Array(q, f, x)
  OBVIOUS
<1>2. p.type = "array" /\ p.vector = q /\ p.indices = f
  BY <1>1 DEF Array
<1>3. DOMAIN q = 1 .. Len(q)
  OBVIOUS
<1>4. ASSUME Named(h, p) PROVE Found(h, q, f)
  <2> SUFFICES ASSUME NEW l \in 1 .. Len(q), h[q[l]].name # Anonymous
               PROVE  \E i : LastNamed(h, q, f, i, h[q[l]].name)
    BY DEF Found
  <2>1. PICK v : v = q[l]
    OBVIOUS
  <2>2. v \in Range(q)
    BY <1>3, <2>1 DEF Range
  <2>3. PICK i \in DOMAIN q : /\ h[q[i]].name = h[v].name
                              /\ \A j \in i + 1 .. Len(q) : h[q[j]].name # h[v].name
                              /\ h[v].name \in DOMAIN f /\ f[h[v].name] = q[i]
    BY <1>2, <1>4, <2>1, <2>2 DEF Named
  <2>4. LastNamed(h, q, f, i, h[q[l]].name)
    BY <1>3, <2>1, <2>3 DEF LastNamed
  <2> QED
    BY <2>4
<1>5. ASSUME Found(h, q, f) PROVE Named(h, p)
  <2>1. ASSUME NEW v \in Range(q), h[v].name # Anonymous
        PROVE  \E i \in DOMAIN q : /\ h[q[i]].name = h[v].name
                                   /\ \A j \in i + 1 .. Len(q) : h[q[j]].name # h[v].name
                                   /\ h[v].name \in DOMAIN f /\ f[h[v].name] = q[i]
    <3>1. PICK l \in 1 .. Len(q) : v = q[l]
      BY <1>3 DEF Range
    <3>2. PICK i : LastNamed(h, q, f, i, h[q[l]].name)
      BY <1>5, <2>1, <3>1 DEF Found
    <3> QED
      BY <1>3, <3>1, <3>2 DEF LastNamed
  <2> QED
    BY <1>2, <2>1 DEF Named
<1> QED
  BY <1>1, <1>4, <1>5

\* An element of an array is counted.
LEMMA ElementCounts ==
  ASSUME NEW q \in Seq(Ids), NEW f, NEW x, NEW l \in 1 .. Len(q)
  PROVE  q[l] \in Ids /\ Count(Array(q, f, x), q[l]) > 0
<1>1. PICK p : p = Array(q, f, x)
  OBVIOUS
<1>2. Content(p)
  BY <1>1 DEF Content, ArrayLike
<1>3. p.type = "array" /\ p.vector = q
  BY <1>1 DEF Array
<1>4. l \in PlacesOf(p, q[l])
  BY <1>3 DEF PlacesOf
<1>5. Count(p, q[l]) \in Nat /\ Count(p, q[l]) # 0
  BY <1>2, <1>4, PlacesAre
<1> QED
  BY <1>1, <1>5

\* The names of its elements are all that matters to an array.
LEMMA NamedStays ==
  ASSUME NEW p, Content(p), NEW h, Named(h, p), NEW g, \A u \in Ids : Count(p, u) > 0 => g[u].name = h[u].name
  PROVE  Named(g, p)
<1>1. CASE p.type # "array"
  BY <1>1 DEF Named
<1>2. CASE p.type = "array"
  <2>1. PICK q, f, x : p = Array(q, f, x) /\ q \in Seq(Ids)
    BY <1>2, Types DEF ArrayLike
  <2>2. \A l \in 1 .. Len(q) : g[q[l]].name = h[q[l]].name
    BY <2>1, ElementCounts
  <2>3. Found(h, q, f)
    BY <2>1, NamedIsFound
  <2>4. ASSUME NEW l \in 1 .. Len(q), g[q[l]].name # Anonymous PROVE \E i : LastNamed(g, q, f, i, g[q[l]].name)
    <3>1. PICK k : k = h[q[l]].name
      OBVIOUS
    <3>2. g[q[l]].name = k /\ k # Anonymous
      BY <2>2, <2>4, <3>1
    <3>3. PICK i : LastNamed(h, q, f, i, k)
      BY <2>3, <3>1, <3>2 DEF Found
    <3>4. i \in 1 .. Len(q) /\ \A j \in i + 1 .. Len(q) : j \in 1 .. Len(q)
      BY <3>3 DEF LastNamed
    <3>5. LastNamed(g, q, f, i, k)
      BY <2>2, <3>3, <3>4 DEF LastNamed
    <3> QED
      BY <3>2, <3>5
  <2>5. Found(g, q, f)
    BY <2>4 DEF Found
  <2> QED
    BY <2>1, <2>5, NamedIsFound
<1> QED
  BY <1>1, <1>2

\* The last of some places.
LEMMA GreatestIs ==
  ASSUME NEW n \in Nat, NEW T \in SUBSET (1 .. n), T # {}
  PROVE  \E m \in T : \A j \in T : j <= m
<1> DEFINE U == {k \in Nat : n - k \in T}
<1>1. U \in SUBSET Nat
  OBVIOUS
<1>2. U # {}
  <2>1. PICK j \in T : TRUE
    OBVIOUS
  <2>2. n - j \in Nat /\ n - (n - j) = j
    OBVIOUS
  <2>3. n - j \in U
    BY <2>2
  <2> QED
    BY <2>3
<1>3. PICK k \in U : \A l \in U : k <= l
  <2> HIDE DEF U
  <2> QED
    BY <1>1, <1>2, LeastIs
<1>4. ASSUME NEW j \in T PROVE j <= n - k
  <2>1. n - j \in Nat /\ n - (n - j) = j
    OBVIOUS
  <2>2. n - j \in U
    BY <2>1
  <2>3. k <= n - j /\ k \in Nat
    BY <1>3, <2>2
  <2> QED
    BY <2>1, <2>3
<1> QED
  BY <1>3, <1>4

\* A copy looks its names up afresh.
LEMMA CopyNamed ==
  ASSUME NEW h, NEW p, Content(p)
  PROVE  Named(h, CopyOfValues(h, p))
<1>1. CASE p.type # "array"
  BY <1>1 DEF CopyOfValues, Named
<1>2. CASE p.type = "array"
  <2>1. PICK q, f, x : p = Array(q, f, x) /\ q \in Seq(Ids)
    BY <1>2, Types DEF ArrayLike
  <2>2. p.vector = q /\ DOMAIN q = 1 .. Len(q) /\ Len(q) \in Nat
    BY <2>1 DEF Array
  <2> DEFINE named == {i \in DOMAIN q : h[q[i]].name # Anonymous}
             last(k) == CHOOSE i \in named : h[q[i]].name = k /\ \A j \in named : h[q[j]].name = k => j <= i
  <2>3. PICK ix : ix = [k \in {h[q[i]].name : i \in named} |-> q[last(k)]]
    OBVIOUS
  <2>4. CopyOfValues(h, p) = Array(q, ix, Anonymous)
    BY <1>2, <2>2, <2>3 DEF CopyOfValues
  <2>5. ASSUME NEW l \in 1 .. Len(q), NEW k, k = h[q[l]].name, k # Anonymous PROVE LastNamed(h, q, ix, last(k), k)
    <3>1. PICK T : T = {i \in 1 .. Len(q) : h[q[i]].name = k}
      OBVIOUS
    <3>2. T \in SUBSET (1 .. Len(q)) /\ T # {}
      BY <2>5, <3>1
    <3>3. PICK m \in T : \A j \in T : j <= m
      BY <2>2, <3>2, GreatestIs
    <3>4. m \in named /\ h[q[m]].name = k /\ \A j \in named : h[q[j]].name = k => j <= m
      BY <2>2, <2>5, <3>1, <3>3
    <3>5. last(k) \in named /\ h[q[last(k)]].name = k /\ \A j \in named : h[q[j]].name = k => j <= last(k)
      <4> HIDE DEF named
      <4> QED
        BY <3>4
    <3>6. PICK i : i = last(k)
      OBVIOUS
    <3>7. i \in 1 .. Len(q) /\ h[q[i]].name = k /\ \A j \in named : h[q[j]].name = k => j <= i
      <4> HIDE DEF last
      <4> QED
        BY <2>2, <3>5, <3>6
    <3>8. ASSUME NEW j \in i + 1 .. Len(q), h[q[j]].name = k PROVE FALSE
      <4>1. j \in 1 .. Len(q) /\ j > i
        BY <2>2, <3>7
      <4>2. j \in named
        BY <2>2, <2>5, <3>8, <4>1
      <4>3. j <= i
        BY <3>7, <3>8, <4>2
      <4> QED
        BY <2>2, <3>7, <4>1, <4>3
    <3>9. k \in DOMAIN ix /\ ix[k] = q[i]
      <4>1. k \in {h[q[j]].name : j \in named}
        <5> HIDE DEF named
        <5> QED
          BY <3>4
      <4> HIDE DEF named
      <4> QED
        BY <2>3, <3>6, <4>1
    <3>10. LastNamed(h, q, ix, i, k)
      BY <3>7, <3>8, <3>9 DEF LastNamed
    <3> HIDE DEF last
    <3> QED
      BY <3>6, <3>10
  <2>6. Found(h, q, ix)
    <3> HIDE DEF last
    <3> QED
      BY <2>5 DEF Found
  <2> QED
    BY <2>1, <2>4, <2>6, NamedIsFound
<1> QED
  BY <1>1, <1>2, SMTT(40)

\* updateIndex after a push.
LEMMA AppendNamed ==
  ASSUME NEW q \in Seq(Ids), NEW v \in Ids, NEW f, NEW x, NEW h, Named(h, Array(q, f, x)), NEW k,
         NEW g, \A l \in 1 .. Len(q) : g[q[l]].name = h[q[l]].name, g[v].name = k,
         NEW r, r = Append(q, v), NEW e, e = updateIndex(f, k, v)
  PROVE  Named(g, Array(r, e, x))
<1>1. PICK n : n = Len(q)
  OBVIOUS
<1>2. /\ n \in Nat /\ r \in Seq(Ids) /\ Len(r) = n + 1 /\ r[n + 1] = v
      /\ \A i \in 1 .. n : r[i] = q[i]
  BY <1>1, AppendProperties
<1>3. Found(h, q, f)
  BY NamedIsFound
<1>4. \A i \in 1 .. n + 1 : i \in 1 .. n \/ i = n + 1
  BY <1>2
<1>5. ASSUME NEW l \in 1 .. n + 1, NEW t, t = g[r[l]].name, t # Anonymous PROVE \E i : LastNamed(g, r, e, i, t)
  <2>1. CASE t = k
    <3>1. e = With(f, k, v)
      BY <1>5, <2>1 DEF updateIndex
    <3>2. k \in DOMAIN e /\ e[k] = v
      BY <3>1 DEF With
    <3>3. n + 1 \in 1 .. Len(r) /\ (n + 1) + 1 .. Len(r) = {}
      BY <1>2
    <3>4. LastNamed(g, r, e, n + 1, t)
      BY <1>2, <2>1, <3>2, <3>3 DEF LastNamed
    <3> QED
      BY <3>4
  <2>2. CASE t # k
    <3>1. l \in 1 .. n
      BY <1>2, <1>4, <1>5, <2>2
    <3>2. t = h[q[l]].name
      BY <1>1, <1>2, <1>5, <3>1
    <3>3. PICK i : LastNamed(h, q, f, i, t)
      BY <1>1, <1>3, <1>5, <3>1, <3>2 DEF Found
    <3>4. i \in 1 .. n /\ i \in 1 .. Len(r) /\ h[q[i]].name = t /\ \A j \in i + 1 .. n : j \in 1 .. n /\ h[q[j]].name # t
      BY <1>1, <1>2, <3>3 DEF LastNamed
    <3>5. g[r[i]].name = t
      BY <1>1, <1>2, <3>4
    <3>6. ASSUME NEW j \in i + 1 .. Len(r) PROVE g[r[j]].name # t
      <4>1. CASE j = n + 1
        BY <1>2, <2>2, <4>1
      <4>2. CASE j # n + 1
        <5>1. j \in i + 1 .. n
          BY <1>2, <3>4, <4>2
        <5>2. j \in 1 .. n /\ h[q[j]].name # t
          BY <3>4, <5>1
        <5> QED
          BY <1>1, <1>2, <5>2
      <4> QED
        BY <4>1, <4>2
    <3>7. t \in DOMAIN f /\ f[t] = q[i]
      BY <3>3 DEF LastNamed
    <3>8. t \in DOMAIN e /\ e[t] = f[t]
      BY <2>2, <3>7 DEF updateIndex, With
    <3>9. LastNamed(g, r, e, i, t)
      BY <1>2, <3>4, <3>5, <3>6, <3>7, <3>8 DEF LastNamed
    <3> QED
      BY <3>9
  <2> QED
    BY <2>1, <2>2
<1>6. Found(g, r, e)
  BY <1>2, <1>5 DEF Found
<1> QED
  BY <1>2, <1>6, NamedIsFound

\* A heap and what the program's containers hold.
Kept(h, d) ==
  /\ Valued(h) /\ Contained(d) /\ Balanced(h, OutOf(d))
  /\ \A p \in Everything(h, d) : Named(h, p)

\* e is d but for what c holds.
But(d, c, e) == DOMAIN e = Owners /\ \A x \in Owners \ {c} : e[x] = d[x]

LEMMA ButContained ==
  ASSUME NEW d, Contained(d), NEW c \in Owners, NEW e, But(d, c, e), Content(e[c]), e[c].type = d[c].type
  PROVE  /\ Contained(e)
         /\ \A v \in Ids : OutOf(e)[v] + Count(d[c], v) = OutOf(d)[v] + Count(e[c], v)
         /\ \A g : Everything(g, e) \in SUBSET (Everything(g, d) \cup {e[c]})
<1>1. Contained(e)
  BY DEF Contained, But
<1>2. \A x \in Owners \ {c} : e[x] = d[x]
  BY DEF But
<1>3. \A v \in Ids : OutOf(e)[v] + Count(d[c], v) = OutOf(d)[v] + Count(e[c], v)
  BY <1>1, <1>2, OutOther
<1>4. Range(e) \in SUBSET (Range(d) \cup {e[c]})
  BY DEF But, Contained, Range
<1>5. ASSUME NEW g PROVE Everything(g, e) \in SUBSET (Everything(g, d) \cup {e[c]})
  BY <1>4 DEF Everything
<1> QED
  BY <1>1, <1>3, <1>5

\* What was there is still named when names stay.
LEMMA NamedAfter ==
  ASSUME NEW h, NEW d, Kept(h, d), NEW g, Valued(g), NEW e, Contained(e), Balanced(g, OutOf(e)),
         \A u \in DOMAIN g : u \in DOMAIN h => g[u].name = h[u].name,
         NEW p \in Everything(g, e), p \in Everything(h, d)
  PROVE  Named(g, p)
<1>1. Named(h, p) /\ Valued(h) /\ Contained(d) /\ Balanced(h, OutOf(d))
  BY DEF Kept
<1>2. Content(p) /\ \A u \in Ids : Count(p, u) > 0 => u \in DOMAIN h
  BY <1>1, Alive
<1>3. \A u \in Ids : Count(p, u) > 0 => u \in DOMAIN g
  BY Alive
<1>4. \A u \in Ids : Count(p, u) > 0 => g[u].name = h[u].name
  BY <1>2, <1>3
<1> QED
  BY <1>1, <1>2, <1>4, NamedStays

\* Nothing to find.
Nameless(p) == \A h : Named(h, p)

LEMMA NamelessAre ==
  ASSUME NEW x, NEW m
  PROVE  Nameless(Object(m)) /\ Nameless(Array(<<>>, <<>>, x))
<1>1. Nameless(Object(m))
  BY DEF Nameless, Named, Object
<1>2. PICK q : q = <<>>
  OBVIOUS
<1>3. q \in Seq(Ids) /\ Len(q) = 0
  BY <1>2
<1>4. ASSUME NEW h PROVE Named(h, Array(q, q, x))
  <2>1. Found(h, q, q)
    BY <1>3 DEF Found
  <2> QED
    BY <1>3, <2>1, NamedIsFound
<1> QED
  BY <1>1, <1>2, <1>4 DEF Nameless

\* A container gives some references back.
LEMMA DropIs ==
  ASSUME NEW h, NEW d, Kept(h, d), NEW c \in Owners, NEW e, But(d, c, e), Content(e[c]), e[c].type = d[c].type,
         Nameless(e[c]), NEW refs \in [Ids -> Nat], \A u \in Ids : Count(d[c], u) = Count(e[c], u) + refs[u],
         NEW g, g = Release(h, refs)
  PROVE  Kept(g, e) /\ DOMAIN g \in SUBSET DOMAIN h /\ Unaltered(g, h)
<1>1. Valued(h) /\ Contained(d) /\ Balanced(h, OutOf(d))
  BY DEF Kept
<1>2. /\ Contained(e)
      /\ \A v \in Ids : OutOf(e)[v] + Count(d[c], v) = OutOf(d)[v] + Count(e[c], v)
      /\ Everything(g, e) \in SUBSET (Everything(g, d) \cup {e[c]})
  BY <1>1, ButContained
<1>3. OutOf(e) \in [Ids -> Nat] /\ OutOf(d) \in [Ids -> Nat]
  BY <1>1, <1>2, OutIs
<1>4. ASSUME NEW u \in Ids PROVE OutOf(d)[u] = OutOf(e)[u] + refs[u]
  <2>1. PICK a, b, i, j : a = OutOf(d)[u] /\ b = OutOf(e)[u] /\ i = Count(d[c], u) /\ j = Count(e[c], u)
    OBVIOUS
  <2>2. a \in Nat /\ b \in Nat /\ j \in Nat /\ refs[u] \in Nat
    BY <1>3, <2>1, PlacesAre
  <2>3. b + i = a + j /\ i = j + refs[u]
    BY <1>2, <2>1
  <2>4. a = b + refs[u]
    BY <2>2, <2>3
  <2> QED
    BY <2>1, <2>4
<1>5. Valued(g) /\ Balanced(g, OutOf(e)) /\ DOMAIN g \in SUBSET DOMAIN h /\ Unaltered(g, h)
  BY <1>1, <1>3, <1>4, ReleaseIs
<1>6. Everything(g, d) \in SUBSET Everything(h, d)
  BY <1>5 DEF Everything, Unaltered
<1>7. \A u \in DOMAIN g : u \in DOMAIN h => g[u].name = h[u].name
  BY <1>5 DEF Unaltered
<1>8. ASSUME NEW p \in Everything(g, e) PROVE Named(g, p)
  <2>1. CASE p = e[c]
    BY <2>1 DEF Nameless
  <2>2. CASE p # e[c]
    <3>1. p \in Everything(h, d)
      BY <1>2, <1>6, <2>2
    <3> QED
      BY <1>2, <1>5, <1>7, <3>1, NamedAfter
  <2> QED
    BY <2>1, <2>2
<1> QED
  BY <1>2, <1>5, <1>8 DEF Kept

\* What c holds is what it held and v.
Takes(d, c, v, e) == \A u \in Ids : Count(e[c], u) = Count(d[c], u) + One(u, v)

\* A container gets a reference to a new value that holds a copy.
LEMMA GiveIs ==
  ASSUME NEW h, NEW d, Kept(h, d), NEW x, Content(x), Refers(x, h),
         NEW p, p = CopyOfValues(h, x), NEW v \in FreshValue(h, p), NEW k, NEW g, g = NewValue(h, v, k, p),
         NEW c \in Owners, NEW e, But(d, c, e), Content(e[c]), e[c].type = d[c].type,
         Takes(d, c, v, e), Named(g, e[c])
  PROVE  Kept(g, e) /\ OneNewer(h, v, k, p, g)
<1>1. Valued(h) /\ Contained(d) /\ Balanced(h, OutOf(d))
  BY DEF Kept
<1>2. /\ Contained(e)
      /\ \A u \in Ids : OutOf(e)[u] + Count(d[c], u) = OutOf(d)[u] + Count(e[c], u)
      /\ Everything(g, e) \in SUBSET (Everything(g, d) \cup {e[c]})
  BY <1>1, ButContained
<1>3. OutOf(e) \in [Ids -> Nat] /\ OutOf(d) \in [Ids -> Nat]
  BY <1>1, <1>2, OutIs
<1>4. ASSUME NEW u \in Ids PROVE OutOf(e)[u] = OutOf(d)[u] + One(u, v)
  <2>1. PICK a, b, i, j, n : a = OutOf(d)[u] /\ b = OutOf(e)[u] /\ i = Count(d[c], u) /\ j = Count(e[c], u) /\ n = One(u, v)
    OBVIOUS
  <2>2. Content(d[c])
    BY <1>1 DEF Contained
  <2>3. n \in Nat
    BY <2>1 DEF One
  <2>4. a \in Nat /\ b \in Nat /\ i \in Nat
    BY <1>3, <2>1, <2>2, PlacesAre
  <2>5. b + i = a + j /\ j = i + n
    BY <1>2, <2>1 DEF Takes
  <2>6. b = a + n
    BY <2>3, <2>4, <2>5
  <2> QED
    BY <2>1, <2>6
<1>5. Content(p) /\ \A u : Count(p, u) = Count(x, u)
  BY CountCopy
<1>6. \A u \in Ids : Count(p, u) > 0 => u \in DOMAIN h
  BY <1>5 DEF Refers
<1>7. /\ Valued(g) /\ Balanced(g, OutOf(e)) /\ OneNewer(h, v, k, p, g) /\ v \in Ids \ DOMAIN h /\ DOMAIN g = DOMAIN h \cup {v}
      /\ g[v].name = k /\ g[v].what = p
      /\ \A u \in DOMAIN h : g[u].name = h[u].name /\ g[u].what = h[u].what
  <2>1. PICK out, more : out = OutOf(d) /\ more = OutOf(e)
    OBVIOUS
  <2>2. out \in [Ids -> Nat] /\ more \in [Ids -> Nat] /\ Balanced(h, out)
    BY <1>1, <1>3, <2>1
  <2>3. OneMore(out, v, more)
    BY <1>4, <2>1 DEF OneMore
  <2>4. Refers(p, h)
    BY <1>6 DEF Refers
  <2>5. Valued(g) /\ Balanced(g, more) /\ OneNewer(h, v, k, p, g)
    BY <1>1, <1>5, <2>2, <2>3, <2>4, NewIs
  <2> QED
    BY <2>1, <2>5 DEF OneNewer
<1>8. Everything(g, d) \in SUBSET (Everything(h, d) \cup {p})
  BY <1>7 DEF Everything
<1>9. \A u \in DOMAIN g : u \in DOMAIN h => g[u].name = h[u].name
  BY <1>7
<1>10. Named(g, p)
  <2>1. Named(h, p)
    BY CopyNamed
  <2>2. \A u \in Ids : Count(p, u) > 0 => g[u].name = h[u].name
    BY <1>6, <1>7
  <2> QED
    BY <1>5, <2>1, <2>2, NamedStays
<1>11. ASSUME NEW r \in Everything(g, e) PROVE Named(g, r)
  <2>1. CASE r = e[c]
    BY <2>1
  <2>2. CASE r = p
    BY <1>10, <2>2
  <2>3. CASE r # e[c] /\ r # p
    <3>1. r \in Everything(h, d)
      BY <1>2, <1>8, <2>3
    <3> QED
      BY <1>2, <1>7, <1>9, <3>1, NamedAfter
  <2> QED
    BY <2>1, <2>2, <2>3
<1> QED
  BY <1>2, <1>7, <1>11 DEF Kept

\* A container becomes a copy of something.
LEMMA ReplaceIs ==
  ASSUME NEW h, NEW d, Kept(h, d), NEW x \in Everything(h, d), NEW c \in Owners, x.type = d[c].type,
         NEW p, p = CopyOfValues(h, x), NEW e, But(d, c, e), e[c] = p, NEW g, g = Release(Hold(h, p), Refs(d[c]))
  PROVE  Kept(g, e) /\ Unaltered(g, h)
<1>1. Valued(h) /\ Contained(d) /\ Balanced(h, OutOf(d))
  BY DEF Kept
<1>2. Content(x) /\ \A u \in Ids : Count(x, u) > 0 => u \in DOMAIN h
  BY <1>1, Alive
<1>3. Content(p) /\ p.type = x.type /\ \A u : Count(p, u) = Count(x, u)
  BY <1>2, CountCopy
<1>4. \A u \in Ids : Count(p, u) > 0 => u \in DOMAIN h
  BY <1>2, <1>3
<1>5. /\ Contained(e)
      /\ \A u \in Ids : OutOf(e)[u] + Count(d[c], u) = OutOf(d)[u] + Count(p, u)
      /\ Everything(g, e) \in SUBSET (Everything(g, d) \cup {p})
  BY <1>1, <1>3, ButContained
<1>6. OutOf(e) \in [Ids -> Nat] /\ OutOf(d) \in [Ids -> Nat]
  BY <1>1, <1>5, OutIs
<1>7. PICK refs : refs = Refs(d[c])
  OBVIOUS
<1>8. refs \in [Ids -> Nat] /\ \A u \in Ids : refs[u] = Count(d[c], u)
  <2>1. Content(d[c])
    BY <1>1 DEF Contained
  <2>2. \A u : Count(d[c], u) \in Nat
    BY <2>1, PlacesAre
  <2> QED
    BY <1>7, <2>2 DEF Refs
<1>9. PICK more : more = [u \in Ids |-> OutOf(e)[u] + refs[u]]
  OBVIOUS
<1>10. more \in [Ids -> Nat] /\ \A u \in Ids : more[u] = OutOf(e)[u] + refs[u] /\ more[u] = OutOf(d)[u] + Count(p, u)
  <2>1. \A u \in Ids : OutOf(e)[u] + refs[u] \in Nat
    BY <1>6, <1>8
  <2> QED
    BY <1>5, <1>8, <1>9, <2>1
<1>11. PICK f : f = Hold(h, p)
  OBVIOUS
<1>12. Valued(f) /\ Balanced(f, more) /\ DOMAIN f = DOMAIN h /\ Unaltered(f, h)
  BY <1>1, <1>3, <1>4, <1>6, <1>10, <1>11, HoldIs
<1>13. g = Release(f, refs)
  BY <1>7, <1>11
<1>14. Valued(g) /\ Balanced(g, OutOf(e)) /\ DOMAIN g \in SUBSET DOMAIN f /\ Unaltered(g, f)
  BY <1>6, <1>8, <1>10, <1>12, <1>13, ReleaseIs
<1>15. DOMAIN g \in SUBSET DOMAIN h /\ Unaltered(g, h)
  BY <1>12, <1>14 DEF Unaltered
<1>16. Everything(g, d) \in SUBSET Everything(h, d)
  BY <1>15 DEF Everything, Unaltered
<1>17. \A u \in DOMAIN g : u \in DOMAIN h => g[u].name = h[u].name
  BY <1>15 DEF Unaltered
<1>18. Named(g, p) \/ p \notin Everything(g, e)
  <2>1. SUFFICES ASSUME p \in Everything(g, e) PROVE Named(g, p)
    OBVIOUS
  <2>2. Named(h, p)
    BY <1>2, CopyNamed
  <2>3. \A u \in Ids : Count(p, u) > 0 => u \in DOMAIN g
    BY <1>5, <1>14, <2>1, Alive
  <2>4. \A u \in Ids : Count(p, u) > 0 => g[u].name = h[u].name
    BY <1>15, <2>3 DEF Unaltered
  <2> QED
    BY <1>3, <2>2, <2>4, NamedStays
<1>19. ASSUME NEW r \in Everything(g, e) PROVE Named(g, r)
  <2>1. CASE r = p
    BY <1>18, <2>1
  <2>2. CASE r # p
    <3>1. r \in Everything(h, d)
      BY <1>5, <1>16, <2>2
    <3> QED
      BY <1>5, <1>14, <1>17, <3>1, NamedAfter
  <2> QED
    BY <2>1, <2>2
<1> QED
  BY <1>5, <1>14, <1>15, <1>19 DEF Kept

\* What a container with elements x shows, if f tells what the values show.
ShownOf(x, f) ==
  CASE x.type = "string" -> <<"string", x.is>>
    [] x.type = "object" -> <<"object", [k \in DOMAIN x.map |-> f[x.map[k]]]>>
    [] x.type = "array" -> <<"array", [i \in DOMAIN x.vector |-> f[x.vector[i]]]>>
ShownAt(h, f, v) == IF v \in DOMAIN h THEN ShownOf(h[v].what, f) ELSE <<"gone">>
Shows(h, f) == \A v \in Ids : f[v] = ShownAt(h, f, v)

\* It depends on the elements only.
LEMMA ShownOfSame ==
  ASSUME NEW x, Content(x), NEW f, NEW g, \A u \in Ids : Count(x, u) > 0 => g[u] = f[u]
  PROVE  ShownOf(x, g) = ShownOf(x, f)
<1>1. CASE StringLike(x)
  BY <1>1, Types DEF ShownOf
<1>2. CASE ObjectLike(x)
  <2>1. PICK m : x = Object(m) /\ \A k \in DOMAIN m : m[k] \in Ids
    BY <1>2 DEF ObjectLike
  <2>2. x.type = "object" /\ x.map = m
    BY <2>1 DEF Object
  <2>3. ASSUME NEW k \in DOMAIN m PROVE g[m[k]] = f[m[k]]
    <3>1. k \in PlacesOf(x, m[k])
      BY <2>2 DEF PlacesOf
    <3>2. Count(x, m[k]) \in Nat /\ Count(x, m[k]) # 0
      BY <3>1, PlacesAre
    <3> QED
      BY <2>1, <3>2
  <2>4. [k \in DOMAIN m |-> g[m[k]]] = [k \in DOMAIN m |-> f[m[k]]]
    BY <2>3
  <2>5. ShownOf(x, g) = <<"object", [k \in DOMAIN m |-> g[m[k]]]>>
    BY <2>2 DEF ShownOf
  <2>6. ShownOf(x, f) = <<"object", [k \in DOMAIN m |-> f[m[k]]]>>
    BY <2>2 DEF ShownOf
  <2> QED
    BY <2>4, <2>5, <2>6
<1>3. CASE ArrayLike(x)
  <2>1. PICK q, i, y : x = Array(q, i, y) /\ q \in Seq(Ids)
    BY <1>3 DEF ArrayLike
  <2>2. x.type = "array" /\ x.vector = q /\ DOMAIN q = 1 .. Len(q)
    BY <2>1 DEF Array
  <2>3. \A l \in DOMAIN q : g[q[l]] = f[q[l]]
    BY <2>1, <2>2, ElementCounts
  <2>4. [l \in DOMAIN q |-> g[q[l]]] = [l \in DOMAIN q |-> f[q[l]]]
    BY <2>3
  <2>5. ShownOf(x, g) = <<"array", [l \in DOMAIN q |-> g[q[l]]]>>
    BY <2>2 DEF ShownOf
  <2>6. ShownOf(x, f) = <<"array", [l \in DOMAIN q |-> f[q[l]]]>>
    BY <2>2 DEF ShownOf
  <2> QED
    BY <2>4, <2>5, <2>6
<1> QED
  BY <1>1, <1>2, <1>3 DEF Content

\* The recursion of ShownBy is one: a value shows older ones.
LEMMA ShownIs ==
  ASSUME NEW h, Valued(h)
  PROVE  \E f : Shows(h, f) /\ \A p : ShownBy(h, p) = ShownOf(p, f)
<1> DEFINE Ok(f, n) == DOMAIN f = Ids /\ \A v \in Ids : v <= n => f[v] = ShownAt(h, f, v)
           N == {n \in Nat : \E f : Ok(f, n)}
<1>0. MaxValues \in Nat /\ \A v \in Ids : v \in Nat /\ v <= MaxValues /\ v > 0
  BY ValuesAssumption DEF Ids
<1>1. 0 \in N
  <2>1. PICK f : f = [v \in Ids |-> 0]
    OBVIOUS
  <2>2. Ok(f, 0)
    BY <1>0, <2>1
  <2> HIDE DEF Ok
  <2> QED
    BY <2>2
<1>2. ASSUME NEW n \in N PROVE n + 1 \in N
  <2>1. PICK f : Ok(f, n)
    OBVIOUS
  <2>2. PICK g : g = [v \in Ids |-> IF v <= n THEN f[v] ELSE ShownAt(h, f, v)]
    OBVIOUS
  <2>3. n \in Nat
    OBVIOUS
  <2>4. \A v \in Ids : v <= n => g[v] = f[v]
    BY <2>2
  <2>5. ASSUME NEW v \in Ids, v <= n + 1 PROVE g[v] = ShownAt(h, g, v)
    <3>1. g[v] = ShownAt(h, f, v)
      BY <2>1, <2>2
    <3>2. CASE v \in DOMAIN h
      <4>1. PICK x : x = h[v].what
        OBVIOUS
      <4>2. Content(x) /\ \A u \in Ids : Count(x, u) > 0 => u < v
        BY <3>2, <4>1, CellIs DEF Valued
      <4>3. \A u \in Ids : u < v => u <= n
        BY <1>0, <2>3, <2>5
      <4>4. \A u \in Ids : Count(x, u) > 0 => g[u] = f[u]
        BY <2>4, <4>2, <4>3
      <4>5. ShownOf(x, g) = ShownOf(x, f)
        BY <4>2, <4>4, ShownOfSame
      <4> QED
        BY <3>1, <3>2, <4>1, <4>5 DEF ShownAt
    <3>3. CASE v \notin DOMAIN h
      BY <3>1, <3>3 DEF ShownAt
    <3> QED
      BY <3>2, <3>3
  <2>6. Ok(g, n + 1)
    BY <2>2, <2>5
  <2> HIDE DEF Ok
  <2> QED
    BY <2>3, <2>6
<1>3. N = Nat
  <2>1. N \in SUBSET Nat
    OBVIOUS
  <2> HIDE DEF N
  <2> QED
    BY <1>1, <1>2, <2>1, Induct
<1> DEFINE value == CHOOSE f : f = [v \in Ids |-> ShownAt(h, f, v)]
<1>4. value = [v \in Ids |-> ShownAt(h, value, v)]
  <2>1. PICK f : Ok(f, MaxValues)
    <3>1. MaxValues \in N
      BY <1>0, <1>3
    <3> HIDE DEF Ok
    <3> QED
      BY <3>1
  <2>2. \A v \in Ids : f[v] = ShownAt(h, f, v)
    BY <1>0, <2>1
  <2>3. PICK g : g = [v \in Ids |-> ShownAt(h, f, v)]
    OBVIOUS
  <2>4. ASSUME NEW v \in Ids PROVE ShownAt(h, g, v) = ShownAt(h, f, v)
    <3>1. CASE v \in DOMAIN h
      <4>1. Content(h[v].what)
        BY <3>1, CellIs DEF Valued
      <4>2. \A u \in Ids : Count(h[v].what, u) > 0 => g[u] = f[u]
        BY <2>2, <2>3
      <4>3. ShownOf(h[v].what, g) = ShownOf(h[v].what, f)
        BY <4>1, <4>2, ShownOfSame
      <4> QED
        BY <3>1, <4>3 DEF ShownAt
    <3>2. CASE v \notin DOMAIN h
      BY <3>2 DEF ShownAt
    <3> QED
      BY <3>1, <3>2
  <2>5. g = [v \in Ids |-> ShownAt(h, g, v)]
    BY <2>3, <2>4
  <2> QED
    BY <2>5
<1>5. \A p : ShownBy(h, p) = ShownOf(p, value)
  BY DEF ShownBy, ShownOf, ShownAt
<1> HIDE DEF value
<1>6. Shows(h, value)
  BY <1>4 DEF Shows
<1> QED
  BY <1>5, <1>6

\* Values that are in both heaps are the same.
SameElements(h, g) == \A v \in DOMAIN h : v \in DOMAIN g => g[v].what = h[v].what
\* All but c show what they showed.
Apart(h, d, c, g, e) == \A x \in Owners \ {c} : ShownBy(g, e[x]) = ShownBy(h, d[x])

\* What a container shows depends on values that somebody refers to.
LEMMA ShownApart ==
  ASSUME NEW h, NEW d, Kept(h, d), NEW g, NEW e, Kept(g, e), NEW c \in Owners, But(d, c, e), SameElements(h, g)
  PROVE  Apart(h, d, c, g, e)
<1>0. /\ Valued(h) /\ Contained(d) /\ Balanced(h, OutOf(d)) /\ Valued(g) /\ Contained(e) /\ Balanced(g, OutOf(e))
      /\ MaxValues \in Nat /\ \A v \in Ids : v \in 1 .. MaxValues
  BY ValuesAssumption DEF Kept, Ids
<1>1. PICK f : Shows(h, f) /\ \A p : ShownBy(h, p) = ShownOf(p, f)
  BY <1>0, ShownIs
<1>2. PICK k : Shows(g, k) /\ \A p : ShownBy(g, p) = ShownOf(p, k)
  BY <1>0, ShownIs
<1> DEFINE Both == DOMAIN h \cap DOMAIN g
           T == {n \in Nat : \A v \in Both : v <= n => k[v] = f[v]}
<1>3. ASSUME NEW p \in Everything(h, d), p \in Everything(g, e)
      PROVE  Content(p) /\ \A u \in Ids : Count(p, u) > 0 => u \in Both
  BY <1>0, <1>3, Alive
<1>4. 0 \in T
  BY <1>0 DEF Valued
<1>5. ASSUME NEW n \in T PROVE n + 1 \in T
  <2> SUFFICES ASSUME NEW v \in Both, v <= n + 1 PROVE k[v] = f[v]
    OBVIOUS
  <2>1. v \in Ids /\ v \in Nat
    BY <1>0 DEF Valued
  <2>2. PICK x : x = h[v].what
    OBVIOUS
  <2>3. x = g[v].what /\ x \in Everything(h, d) /\ x \in Everything(g, e)
    BY <2>2 DEF SameElements, Everything
  <2>4. Content(x) /\ \A u \in Ids : Count(x, u) > 0 => u \in Both
    <3> HIDE DEF Both
    <3> QED
      BY <1>3, <2>3
  <2>5. \A u \in Ids : Count(x, u) > 0 => u < v
    BY <1>0, <2>2 DEF Valued
  <2>6. \A u \in Ids : u < v => u <= n
    BY <1>0, <2>1
  <2>7. \A u \in Ids : Count(x, u) > 0 => k[u] = f[u]
    <3> HIDE DEF Both
    <3> QED
      BY <2>4, <2>5, <2>6
  <2>8. ShownOf(x, k) = ShownOf(x, f)
    BY <2>4, <2>7, ShownOfSame
  <2>9. f[v] = ShownOf(x, f) /\ k[v] = ShownOf(x, k)
    BY <1>1, <1>2, <2>1, <2>2, <2>3 DEF Shows, ShownAt
  <2> QED
    BY <2>8, <2>9
<1>6. T = Nat
  <2>1. T \in SUBSET Nat
    OBVIOUS
  <2> HIDE DEF T
  <2> QED
    BY <1>4, <1>5, <2>1, Induct
<1>7. \A v \in Both : k[v] = f[v]
  <2>1. MaxValues \in T
    BY <1>0, <1>6
  <2>2. \A v \in Both : v <= MaxValues
    BY <1>0 DEF Valued
  <2> HIDE DEF Both
  <2> QED
    BY <2>1, <2>2
<1>8. ASSUME NEW x \in Owners \ {c} PROVE ShownBy(g, e[x]) = ShownBy(h, d[x])
  <2>1. e[x] = d[x]
    BY DEF But
  <2>2. d[x] \in Everything(h, d) /\ d[x] \in Everything(g, e)
    BY <1>0, <2>1 DEF Everything, Range, Contained
  <2>3. Content(d[x]) /\ \A u \in Ids : Count(d[x], u) > 0 => u \in Both
    <3> HIDE DEF Both
    <3> QED
      BY <1>3, <2>2
  <2>4. \A u \in Ids : Count(d[x], u) > 0 => k[u] = f[u]
    <3> HIDE DEF Both
    <3> QED
      BY <1>7, <2>3
  <2>5. ShownOf(d[x], k) = ShownOf(d[x], f)
    BY <2>3, <2>4, ShownOfSame
  <2> QED
    BY <1>1, <1>2, <2>1, <2>5
<1> QED
  BY <1>8 DEF Apart

\* One container changes at most, for its owner.
Elsewhere(h, d, g, e) == \E c \in Owners : Apart(h, d, c, g, e)

LEMMA ObjectIs ==
  ASSUME NEW d, Contained(d), NEW o \in Objects
  PROVE  /\ o \in Owners /\ ObjectLike(d[o]) /\ d[o].type = "object" /\ Content(d[o])
         /\ \E m : d[o] = Object(m) /\ d[o].map = m /\ ObjectLike(Object(m))
<1>1. o \in Owners /\ d[o].type = "object" /\ Content(d[o])
  BY DEF Contained, Owners
<1>2. ObjectLike(d[o])
  BY <1>1, Types
<1>3. PICK m : d[o] = Object(m)
  BY <1>2 DEF ObjectLike
<1>4. d[o].map = m
  BY <1>3 DEF Object
<1>5. ObjectLike(Object(m))
  BY <1>2, <1>3
<1>6. \E n : d[o] = Object(n) /\ d[o].map = n /\ ObjectLike(Object(n))
  BY <1>3, <1>4, <1>5
<1> QED
  BY <1>1, <1>2, <1>6

LEMMA ArrayIs ==
  ASSUME NEW d, Contained(d), NEW a \in Arrays
  PROVE  /\ a \in Owners /\ d[a].type = "array" /\ Content(d[a])
         /\ \E q, f, x : d[a] = Array(q, f, x) /\ q \in Seq(Ids)
<1>1. a \in Owners /\ a \notin Objects
  BY ValuesAssumption DEF Owners
<1>2. d[a].type = "array" /\ Content(d[a])
  BY <1>1 DEF Contained
<1>3. ArrayLike(d[a])
  BY <1>2, Types
<1> QED
  BY <1>1, <1>2, <1>3 DEF ArrayLike

\* The value under a key is dropped.
LEMMA UnderIs ==
  ASSUME Kept(heap, held), NEW o \in Objects, NEW k, NEW m, held[o] = Object(m),
         NEW n, n = Restrict(m, DOMAIN m \ {k}), NEW e, But(held, o, e), e[o] = Object(n),
         NEW g, g = Release(heap, Under(o, k))
  PROVE  Kept(g, e) /\ Apart(heap, held, o, g, e)
<1>1. Contained(held)
  BY DEF Kept
<1>2. o \in Owners /\ held[o].type = "object" /\ held[o].map = m /\ ObjectLike(Object(m))
  BY <1>1, ObjectIs DEF Object
<1>3. /\ ObjectLike(Object(n))
      /\ \A u : Count(Object(m), u) = Count(Object(n), u) + (IF k \in DOMAIN m /\ m[k] = u THEN 1 ELSE 0)
  <2>1. WithoutKey(m, k, n)
    BY <1>2, CountRestrict
  <2> QED
    BY <2>1 DEF WithoutKey
<1>4. Content(e[o]) /\ e[o].type = held[o].type /\ Nameless(e[o])
  BY <1>2, <1>3, NamelessAre DEF Content, Object
<1>5. PICK refs : refs = Under(o, k)
  OBVIOUS
<1>6. refs = [u \in Ids |-> IF k \in DOMAIN m /\ m[k] = u THEN 1 ELSE 0]
  BY <1>2, <1>5 DEF Under
<1>7. refs \in [Ids -> Nat]
  BY <1>6
<1>8. \A u \in Ids : Count(held[o], u) = Count(e[o], u) + refs[u]
  BY <1>3, <1>6
<1>9. g = Release(heap, refs)
  BY <1>5
<1>10. Kept(g, e) /\ Unaltered(g, heap)
  BY <1>2, <1>4, <1>7, <1>8, <1>9, DropIs, ZenonT(60)
<1>11. SameElements(heap, g)
  BY <1>10 DEF SameElements, Unaltered
<1> QED
  BY <1>2, <1>10, <1>11, ShownApart

LEMMA SetKept ==
  ASSUME Kept(heap, held), NEW o \in Objects, NEW k, NEW x, setByRef(o, k, x),
         StringLike(x) \/ \E c \in Owners \ {o} : x = held[c]
  PROVE  Kept(heap', held') /\ Elsewhere(heap, held, heap', held')
<1>1. Contained(held)
  BY DEF Kept
<1>2. PICK m : held[o] = Object(m) /\ ObjectLike(Object(m)) /\ held[o].map = m
  BY <1>1, ObjectIs
<1>3. PICK n : n = Restrict(m, DOMAIN m \ {k})
  OBVIOUS
<1>4. PICK e : e = [held EXCEPT ![o] = Object(n)]
  OBVIOUS
<1>5. DOMAIN held = Owners /\ o \in Owners
  BY <1>1, ObjectIs DEF Contained
<1>6. But(held, o, e) /\ e[o] = Object(n)
  BY <1>4, <1>5 DEF But
<1>7. PICK h : h = Release(heap, Under(o, k))
  OBVIOUS
<1>8. Kept(h, e) /\ Apart(heap, held, o, h, e)
  BY <1>2, <1>3, <1>6, <1>7, UnderIs
<1>9. Valued(h) /\ Contained(e) /\ Balanced(h, OutOf(e))
  BY <1>8 DEF Kept
<1>10. Content(x) /\ Refers(x, h)
  <2>1. CASE StringLike(x)
    <3>1. PICK s : x = String(s)
      BY <2>1 DEF StringLike
    <3>2. Content(x) /\ \A u : Count(x, u) = 0
      BY <3>1, CountString
    <3> QED
      BY <3>2 DEF Refers
  <2>2. CASE \E c \in Owners \ {o} : x = held[c]
    <3>1. PICK c \in Owners \ {o} : x = held[c]
      BY <2>2
    <3>2. x = e[c]
      BY <1>6, <3>1 DEF But
    <3>3. x \in Everything(h, e)
      BY <1>9, <3>2 DEF Everything, Range, Contained
    <3> QED
      BY <1>9, <3>3, Alive DEF Refers
  <2> QED
    BY <2>1, <2>2
<1>11. PICK p : p = CopyOfValues(h, x)
  OBVIOUS
<1>12. PICK v \in FreshValue(h, p) :
         /\ heap' = NewValue(h, v, k, p)
         /\ held' = [held EXCEPT ![o].map = With(@, k, v)]
  BY <1>7, <1>11 DEF setByRef
<1>13. v \in Ids
  BY <1>12 DEF FreshValue
<1>14. PICK r : r = With(n, k, v)
  OBVIOUS
<1>15. With(m, k, v) = r /\ k \notin DOMAIN n /\ ObjectLike(Object(n))
  <2>1. WithoutKey(m, k, n)
    BY <1>2, <1>3, CountRestrict
  <2> QED
    BY <1>14, <2>1 DEF WithoutKey
<1>16. PICK d : d = [held EXCEPT ![o] = Object(r)]
  OBVIOUS
<1>17. held' = d
  <2>1. PICK z : z = [held[o] EXCEPT !.map = r]
    OBVIOUS
  <2>2. z = Object(r)
    BY <1>2, <2>1 DEF Object
  <2>3. held' = [held EXCEPT ![o].map = With(held[o].map, k, v)]
    BY <1>12
  <2>4. held' = [held EXCEPT ![o] = [held[o] EXCEPT !.map = r]]
    BY <1>2, <1>15, <2>3
  <2> QED
    BY <1>16, <2>1, <2>2, <2>4
<1>18. But(e, o, d) /\ d[o] = Object(r)
  BY <1>5, <1>6, <1>16 DEF But
<1>19. ObjectLike(Object(r)) /\ \A u : Count(Object(r), u) = Count(Object(n), u) + One(u, v)
  BY <1>13, <1>14, <1>15, CountWith
<1>20. Content(d[o]) /\ d[o].type = e[o].type /\ Takes(e, o, v, d)
  BY <1>6, <1>18, <1>19 DEF Content, Object, Takes
<1>21. PICK g : g = NewValue(h, v, k, p)
  OBVIOUS
<1>22. Named(g, d[o])
  BY <1>18, NamelessAre DEF Nameless
<1>23. Kept(g, d) /\ OneNewer(h, v, k, p, g)
  BY <1>5, <1>8, <1>10, <1>11, <1>12, <1>18, <1>20, <1>21, <1>22, GiveIs
<1>24. SameElements(h, g)
  BY <1>23 DEF SameElements, OneNewer
<1>25. Apart(h, e, o, g, d)
  BY <1>5, <1>8, <1>18, <1>23, <1>24, ShownApart
<1>26. Elsewhere(heap, held, g, d)
  BY <1>5, <1>8, <1>25 DEF Elsewhere, Apart
<1> QED
  BY <1>12, <1>17, <1>21, <1>23, <1>26

LEMMA UnsetKept ==
  ASSUME Kept(heap, held), NEW o \in Objects, NEW k, unSet(o, k)
  PROVE  Kept(heap', held') /\ Elsewhere(heap, held, heap', held')
<1>1. Contained(held)
  BY DEF Kept
<1>2. PICK m : held[o] = Object(m) /\ ObjectLike(Object(m)) /\ held[o].map = m
  BY <1>1, ObjectIs
<1>3. PICK n : n = Restrict(m, DOMAIN m \ {k})
  OBVIOUS
<1>4. PICK e : e = [held EXCEPT ![o] = Object(n)]
  OBVIOUS
<1>5. DOMAIN held = Owners /\ o \in Owners
  BY <1>1, ObjectIs DEF Contained
<1>6. But(held, o, e) /\ e[o] = Object(n)
  BY <1>4, <1>5 DEF But
<1>7. held' = e
  <2>1. PICK z : z = [held[o] EXCEPT !.map = n]
    OBVIOUS
  <2>2. z = Object(n)
    BY <1>2, <2>1 DEF Object
  <2>3. held' = [held EXCEPT ![o].map = Restrict(held[o].map, DOMAIN held[o].map \ {k})]
    BY DEF unSet
  <2>4. held' = [held EXCEPT ![o] = [held[o] EXCEPT !.map = n]]
    BY <1>2, <1>3, <2>3
  <2> QED
    BY <1>4, <2>1, <2>2, <2>4
<1>8. PICK g : g = Release(heap, Under(o, k))
  OBVIOUS
<1>9. heap' = g
  BY <1>8 DEF unSet
<1>10. Kept(g, e) /\ Apart(heap, held, o, g, e)
  BY <1>2, <1>3, <1>6, <1>8, UnderIs
<1> QED
  BY <1>5, <1>7, <1>9, <1>10 DEF Elsewhere

LEMMA PushKept ==
  ASSUME Kept(heap, held), NEW a \in Arrays, NEW k, NEW x, pushByRef(a, k, x),
         StringLike(x) \/ \E c \in Owners : x = held[c]
  PROVE  Kept(heap', held') /\ Elsewhere(heap, held, heap', held')
<1>1. Valued(heap) /\ Contained(held) /\ Balanced(heap, OutOf(held))
  BY DEF Kept
<1>2. PICK q, f, y : held[a] = Array(q, f, y) /\ q \in Seq(Ids)
  BY <1>1, ArrayIs
<1>3. held[a].vector = q /\ held[a].indices = f /\ held[a].type = "array"
  BY <1>2 DEF Array
<1>4. DOMAIN held = Owners /\ a \in Owners
  BY <1>1, ArrayIs DEF Contained
<1>5. Content(x) /\ Refers(x, heap)
  <2>1. CASE StringLike(x)
    <3>1. PICK s : x = String(s)
      BY <2>1 DEF StringLike
    <3>2. Content(x) /\ \A u : Count(x, u) = 0
      BY <3>1, CountString
    <3> QED
      BY <3>2 DEF Refers
  <2>2. CASE \E c \in Owners : x = held[c]
    <3>1. x \in Everything(heap, held)
      BY <1>4, <2>2 DEF Everything, Range
    <3> QED
      BY <1>1, <3>1, Alive DEF Refers
  <2> QED
    BY <2>1, <2>2
<1>6. PICK p : p = CopyOfValues(heap, x)
  OBVIOUS
<1>7. PICK v \in FreshValue(heap, p) :
        /\ heap' = NewValue(heap, v, k, p)
        /\ held' = [held EXCEPT ![a].vector = Append(@, v), ![a].indices = updateIndex(@, k, v)]
  BY <1>6 DEF pushByRef
<1>8. v \in Ids /\ v \notin DOMAIN heap
  BY <1>7 DEF FreshValue
<1>9. PICK r, e : r = Append(q, v) /\ e = updateIndex(f, k, v)
  OBVIOUS
<1>10. PICK d : d = [held EXCEPT ![a] = Array(r, e, y)]
  OBVIOUS
<1>11. held' = d
  <2>1. held' = [[held EXCEPT ![a].vector = Append(@, v)] EXCEPT ![a].indices = updateIndex(@, k, v)]
    BY <1>7
  <2>2. PICK i : i = [held EXCEPT ![a] = Array(r, f, y)]
    OBVIOUS
  <2>3. [held EXCEPT ![a].vector = Append(@, v)] = i
    <3>1. PICK z : z = [held[a] EXCEPT !.vector = r]
      OBVIOUS
    <3>2. z = Array(r, f, y)
      BY <1>2, <3>1 DEF Array
    <3>3. [held EXCEPT ![a].vector = Append(@, v)] = [held EXCEPT ![a] = [held[a] EXCEPT !.vector = r]]
      BY <1>3, <1>9
    <3> QED
      BY <2>2, <3>1, <3>2, <3>3
  <2>4. held' = [i EXCEPT ![a].indices = updateIndex(@, k, v)]
    BY <2>1, <2>3
  <2>5. i[a] = Array(r, f, y) /\ DOMAIN i = DOMAIN held /\ \A z \in DOMAIN held \ {a} : i[z] = held[z]
    BY <1>4, <2>2
  <2>6. i[a].indices = f
    BY <2>5 DEF Array
  <2>7. PICK z : z = [i[a] EXCEPT !.indices = e]
    OBVIOUS
  <2>8. z = Array(r, e, y)
    BY <2>5, <2>7 DEF Array
  <2>9. held' = [i EXCEPT ![a] = [i[a] EXCEPT !.indices = e]]
    BY <1>9, <2>4, <2>6
  <2>10. held' = [i EXCEPT ![a] = Array(r, e, y)]
    BY <2>7, <2>8, <2>9
  <2> QED
    BY <1>10, <2>2, <2>10
<1>12. But(held, a, d) /\ d[a] = Array(r, e, y)
  BY <1>4, <1>10 DEF But
<1>13. ArrayLike(d[a]) /\ \A u : Count(d[a], u) = Count(held[a], u) + One(u, v)
  <2>1. Longer(Array(q, f, y), v, Array(r, e, y))
    BY <1>2, <1>8, <1>9, CountAppend
  <2> QED
    BY <1>2, <1>12, <2>1 DEF Longer
<1>14. Content(d[a]) /\ d[a].type = held[a].type /\ Takes(held, a, v, d)
  BY <1>3, <1>12, <1>13 DEF Content, Array, Takes
<1>15. PICK g : g = NewValue(heap, v, k, p)
  OBVIOUS
<1>16. Named(g, d[a])
  <2>1. g = With(Hold(heap, p), v, [name |-> k, refcnt |-> 1, what |-> p])
    BY <1>15 DEF NewValue
  <2>2. g[v].name = k
    BY <2>1 DEF With
  <2>3. ASSUME NEW l \in 1 .. Len(q) PROVE g[q[l]].name = heap[q[l]].name
    <3>1. PICK w : w = q[l]
      OBVIOUS
    <3>2. w \in Ids /\ Count(held[a], w) > 0
      BY <1>2, <3>1, ElementCounts
    <3>3. held[a] \in Everything(heap, held)
      BY <1>4 DEF Everything, Range
    <3>4. w \in DOMAIN heap
      BY <1>1, <3>2, <3>3, Alive
    <3>5. w # v /\ w \in DOMAIN Hold(heap, p)
      BY <1>8, <3>4 DEF Hold
    <3>6. g[w] = Hold(heap, p)[w]
      BY <2>1, <3>5 DEF With
    <3>7. Cell(heap[w]) /\ heap[w].refcnt \in Nat
      BY <1>1, <3>4, CellIs DEF Valued
    <3>8. Count(p, w) \in Nat
      <4>1. Content(p)
        BY <1>5, <1>6, CountCopy
      <4> QED
        BY <4>1, PlacesAre
    <3>9. PICK n \in Nat : n = heap[w].refcnt + Count(p, w)
      BY <3>7, <3>8
    <3>10. Hold(heap, p)[w] = [heap[w] EXCEPT !.refcnt = n]
      BY <3>4, <3>9 DEF Hold
    <3>11. [heap[w] EXCEPT !.refcnt = n].name = heap[w].name
      BY <3>7, CellIs
    <3> QED
      BY <3>1, <3>6, <3>10, <3>11
  <2>4. Named(heap, Array(q, f, y))
    <3>1. held[a] \in Everything(heap, held)
      BY <1>4 DEF Everything, Range
    <3> QED
      BY <1>2, <3>1 DEF Kept
  <2>5. Named(g, Array(r, e, y))
    BY <1>2, <1>8, <1>9, <2>2, <2>3, <2>4, AppendNamed
  <2> QED
    BY <1>12, <2>5
<1>17. Kept(g, d) /\ OneNewer(heap, v, k, p, g)
  BY <1>4, <1>5, <1>6, <1>7, <1>12, <1>14, <1>15, <1>16, GiveIs
<1>18. SameElements(heap, g)
  BY <1>17 DEF SameElements, OneNewer
<1>19. Apart(heap, held, a, g, d)
  BY <1>4, <1>12, <1>17, <1>18, ShownApart
<1> QED
  BY <1>4, <1>7, <1>11, <1>15, <1>17, <1>19 DEF Elsewhere

LEMMA ClearKept ==
  ASSUME Kept(heap, held), NEW c \in Owners, Clear(c)
  PROVE  Kept(heap', held') /\ Elsewhere(heap, held, heap', held')
<1>1. Contained(held)
  BY DEF Kept
<1>2. PICK x : x = IF c \in Objects THEN Object(<<>>) ELSE Array(<<>>, <<>>, held[c].idxField)
  OBVIOUS
<1>3. PICK e : e = [held EXCEPT ![c] = x]
  OBVIOUS
<1>4. held' = e
  BY <1>2, <1>3 DEF Clear
<1>5. But(held, c, e) /\ e[c] = x
  BY <1>1, <1>3 DEF But, Contained
<1>6. x.type = held[c].type /\ Content(x) /\ Nameless(x) /\ \A u : Count(x, u) = 0
  <2>1. CASE c \in Objects
    <3>1. x = Object(<<>>) /\ held[c].type = "object"
      BY <1>1, <1>2, <2>1 DEF Contained
    <3>2. ObjectLike(x) /\ Nameless(x) /\ \A u : Count(x, u) = 0
      BY <3>1, CountNone, NamelessAre
    <3> QED
      BY <3>1, <3>2 DEF Content, Object
  <2>2. CASE c \notin Objects
    <3>1. PICK y : y = held[c].idxField
      OBVIOUS
    <3>2. x = Array(<<>>, <<>>, y) /\ held[c].type = "array"
      BY <1>1, <1>2, <2>2, <3>1 DEF Contained
    <3>3. ArrayLike(x) /\ Nameless(x) /\ \A u : Count(x, u) = 0
      BY <3>2, CountNone, NamelessAre
    <3> QED
      BY <3>2, <3>3 DEF Content, Array
  <2> QED
    BY <2>1, <2>2
<1>7. PICK refs : refs = Refs(held[c])
  OBVIOUS
<1>8. Content(held[c])
  BY <1>1 DEF Contained
<1>9. refs \in [Ids -> Nat] /\ \A u \in Ids : refs[u] = Count(held[c], u) /\ refs[u] \in Nat
  <2>1. \A u : Count(held[c], u) \in Nat
    BY <1>8, PlacesAre
  <2> QED
    BY <1>7, <2>1 DEF Refs
<1>10. \A u \in Ids : Count(held[c], u) = Count(e[c], u) + refs[u]
  BY <1>5, <1>6, <1>9
<1>11. PICK g : g = Release(heap, refs)
  OBVIOUS
<1>12. heap' = g
  BY <1>7, <1>11 DEF Clear
<1>13. Kept(g, e) /\ Unaltered(g, heap)
  BY <1>5, <1>6, <1>9, <1>10, <1>11, DropIs
<1>14. SameElements(heap, g)
  BY <1>13 DEF SameElements, Unaltered
<1>15. Apart(heap, held, c, g, e)
  BY <1>5, <1>13, <1>14, ShownApart
<1> QED
  BY <1>4, <1>12, <1>13, <1>15 DEF Elsewhere

LEMMA ReplaceKept ==
  ASSUME Kept(heap, held), NEW c \in Owners, NEW x \in Everything(heap, held), x.type = held[c].type, Replace(c, x)
  PROVE  Kept(heap', held') /\ Elsewhere(heap, held, heap', held')
<1>1. Contained(held)
  BY DEF Kept
<1>2. PICK p : p = CopyOfValues(heap, x)
  OBVIOUS
<1>3. PICK e : e = [held EXCEPT ![c] = p]
  OBVIOUS
<1>4. PICK g : g = Release(Hold(heap, p), Refs(held[c]))
  OBVIOUS
<1>5. heap' = g /\ held' = e
  BY <1>2, <1>3, <1>4 DEF Replace
<1>6. But(held, c, e) /\ e[c] = p
  BY <1>1, <1>3 DEF But, Contained
<1>7. Kept(g, e) /\ Unaltered(g, heap)
  BY <1>2, <1>4, <1>6, ReplaceIs
<1>8. SameElements(heap, g)
  BY <1>7 DEF SameElements, Unaltered
<1>9. Apart(heap, held, c, g, e)
  BY <1>6, <1>7, <1>8, ShownApart
<1> QED
  BY <1>5, <1>7, <1>9 DEF Elsewhere

LEMMA KeptInit == ValuesInit => Kept(heap, held)
<1> SUFFICES ASSUME ValuesInit PROVE Kept(heap, held)
  OBVIOUS
<1>1. PICK idx : held = [c \in Owners |-> IF c \in Objects THEN Object(<<>>) ELSE Array(<<>>, <<>>, idx)]
  BY DEF ValuesInit
<1>2. DOMAIN heap = {}
  BY DEF ValuesInit
<1>3. Valued(heap)
  BY <1>2 DEF Valued
<1>4. ASSUME NEW c \in Owners
      PROVE  /\ Content(held[c]) /\ held[c].type = IF c \in Objects THEN "object" ELSE "array"
             /\ Nameless(held[c]) /\ \A u : Count(held[c], u) = 0
  <2>1. CASE c \in Objects
    <3>1. held[c] = Object(<<>>)
      BY <1>1, <2>1
    <3>2. ObjectLike(held[c]) /\ Nameless(held[c]) /\ \A u : Count(held[c], u) = 0
      BY <3>1, CountNone, NamelessAre
    <3> QED
      BY <2>1, <3>1, <3>2 DEF Content, Object
  <2>2. CASE c \notin Objects
    <3>1. held[c] = Array(<<>>, <<>>, idx)
      BY <1>1, <2>2
    <3>2. ArrayLike(held[c]) /\ Nameless(held[c]) /\ \A u : Count(held[c], u) = 0
      BY <3>1, CountNone, NamelessAre
    <3> QED
      BY <2>2, <3>1, <3>2 DEF Content, Array
  <2> QED
    BY <2>1, <2>2
<1>5. Contained(held)
  BY <1>1, <1>4 DEF Contained
<1>6. ASSUME NEW v \in Ids PROVE OutOf(held)[v] + Inside(heap, v) = 0 /\ v \notin DOMAIN heap
  <2>1. DOMAIN InsideOf(heap, v) = {}
    BY <1>2 DEF InsideOf
  <2>2. Inside(heap, v) = 0
    BY <2>1, TotalNone DEF Inside
  <2>3. PICK f : f = FromOf(held, v)
    OBVIOUS
  <2>4. IsFiniteSet(DOMAIN f) /\ \A c \in DOMAIN f : f[c] = 0
    <3>1. Sized(f)
      BY <1>5, <2>3, FromSized
    <3> QED
      BY <1>4, <2>3, <3>1 DEF FromOf, Sized
  <2>5. Total(f) = 0
    BY <2>4, ZeroTotal
  <2>6. OutOf(held)[v] = 0
    BY <2>3, <2>5 DEF OutOf
  <2> QED
    BY <1>2, <2>2, <2>6
<1>7. Balanced(heap, OutOf(held))
  BY <1>6 DEF Balanced
<1>8. ASSUME NEW p \in Everything(heap, held) PROVE Named(heap, p)
  <2>1. PICK c \in Owners : p = held[c]
    BY <1>2, <1>3, <1>5, EverythingIs
  <2> QED
    BY <1>4, <2>1 DEF Nameless
<1> QED
  BY <1>3, <1>5, <1>7, <1>8 DEF Kept

LEMMA KeptNext ==
  ASSUME Kept(heap, held), ValuesNext
  PROVE  Kept(heap', held') /\ Elsewhere(heap, held, heap', held')
<1>1. Contained(held) /\ Valued(heap)
  BY DEF Kept
<1>2. CASE \E o \in Objects, k \in Keys : \/ \E s \in Keys : SetString(o, k, s)
                                          \/ \E c \in Owners : SetContainer(o, k, c)
                                          \/ unSet(o, k)
  <2>1. PICK o \in Objects, k \in Keys : \/ \E s \in Keys : SetString(o, k, s)
                                         \/ \E c \in Owners : SetContainer(o, k, c)
                                         \/ unSet(o, k)
    BY <1>2
  <2>2. CASE \E s \in Keys : SetString(o, k, s)
    <3>1. PICK s \in Keys : setByRef(o, k, String(s))
      BY <2>2 DEF SetString
    <3>2. StringLike(String(s))
      BY DEF StringLike
    <3> QED
      BY <3>1, <3>2, SetKept
  <2>3. CASE \E c \in Owners : SetContainer(o, k, c)
    <3>1. PICK c \in Owners : c # o /\ setByRef(o, k, held[c])
      BY <2>3 DEF SetContainer
    <3>2. \E d \in Owners \ {o} : held[c] = held[d]
      BY <3>1
    <3> QED
      BY <3>1, <3>2, SetKept
  <2>4. CASE unSet(o, k)
    BY <2>4, UnsetKept
  <2> QED
    BY <2>1, <2>2, <2>3, <2>4
<1>3. CASE \E a \in Arrays : \/ \E s \in Keys : Push(a, s) \/ \E k \in Keys : Set(a, k, s)
                             \/ \E b \in Arrays : PushArray(a, b)
                             \/ \E o \in Objects : PushObject(a, o)
  <2>1. PICK a \in Arrays : \/ \E s \in Keys : Push(a, s) \/ \E k \in Keys : Set(a, k, s)
                            \/ \E b \in Arrays : PushArray(a, b)
                            \/ \E o \in Objects : PushObject(a, o)
    BY <1>3
  <2>2. \A s : StringLike(String(s))
    BY DEF StringLike
  <2>3. CASE \E s \in Keys : Push(a, s) \/ \E k \in Keys : Set(a, k, s)
    <3>1. PICK s, k : pushByRef(a, k, String(s))
      BY <2>3 DEF Push, Set
    <3> QED
      BY <2>2, <3>1, PushKept
  <2>4. CASE \E b \in Arrays : PushArray(a, b)
    <3>1. PICK b \in Arrays : pushByRef(a, Anonymous, held[b])
      BY <2>4 DEF PushArray
    <3>2. \E c \in Owners : held[b] = held[c]
      BY DEF Owners
    <3> QED
      BY <3>1, <3>2, PushKept
  <2>5. CASE \E o \in Objects : PushObject(a, o)
    <3>1. PICK o \in Objects : pushByRef(a, NameOf(a, o), held[o])
      BY <2>5 DEF PushObject
    <3>2. \E c \in Owners : held[o] = held[c]
      BY DEF Owners
    <3> QED
      BY <3>1, <3>2, PushKept
  <2> QED
    BY <2>1, <2>3, <2>4, <2>5
<1>4. CASE \E c \in Owners : Clear(c) \/ (\E d \in Owners : CopyContainer(c, d)) \/ (\E v \in Ids : CopyElement(c, v))
  <2>1. PICK c \in Owners : Clear(c) \/ (\E d \in Owners : CopyContainer(c, d)) \/ (\E v \in Ids : CopyElement(c, v))
    BY <1>4
  <2>2. CASE Clear(c)
    BY <2>2, ClearKept
  <2>3. CASE \E d \in Owners : CopyContainer(c, d)
    <3>1. PICK d \in Owners : held[c].type = held[d].type /\ Replace(c, held[d])
      BY <2>3 DEF CopyContainer
    <3>2. held[d] \in Everything(heap, held)
      BY <1>1 DEF Everything, Range, Contained
    <3> QED
      BY <3>1, <3>2, ReplaceKept
  <2>4. CASE \E v \in Ids : CopyElement(c, v)
    <3>1. PICK v \in DOMAIN heap : held[c].type = heap[v].what.type /\ Replace(c, heap[v].what)
      BY <2>4 DEF CopyElement
    <3>2. heap[v].what \in Everything(heap, held)
      BY DEF Everything
    <3> QED
      BY <3>1, <3>2, ReplaceKept
  <2> QED
    BY <2>1, <2>2, <2>3, <2>4
<1> QED
  BY <1>2, <1>3, <1>4 DEF ValuesNext

LEMMA KeptIsSound == Kept(heap, held) => Sound
<1> SUFFICES ASSUME Kept(heap, held) PROVE Counted /\ NamedLast
  BY DEF Sound
<1>1. Valued(heap) /\ Contained(held) /\ Balanced(heap, OutOf(held))
  BY DEF Kept
<1>2. ASSUME NEW v \in Ids
      PROVE  LET n == FoldFunction(+, 0, [c \in Owners |-> Count(held[c], v)])
                        + FoldFunction(+, 0, [u \in DOMAIN heap |-> Count(heap[u].what, v)])
             IN  IF v \in DOMAIN heap THEN heap[v].refcnt = n /\ n > 0 ELSE n = 0
  <2>1. PICK n : n = FoldFunction(+, 0, [c \in Owners |-> Count(held[c], v)])
                       + FoldFunction(+, 0, [u \in DOMAIN heap |-> Count(heap[u].what, v)])
    OBVIOUS
  <2>2. n = OutOf(held)[v] + Inside(heap, v)
    BY <2>1 DEF OutOf, FromOf, Inside, InsideOf, Total
  <2>3. IF v \in DOMAIN heap THEN heap[v].refcnt = n /\ n > 0 ELSE n = 0
    BY <1>1, <2>2 DEF Balanced
  <2> QED
    BY <2>1, <2>3
<1>3. Counted
  BY <1>2 DEF Counted
<1>4. NamedLast
  BY DEF Kept, NamedLast, Named, Everything
<1> QED
  BY <1>3, <1>4

LEMMA KeptStays == Kept(heap, held) /\ [ValuesNext]_valueVars => Kept(heap, held)'
<1>1. CASE UNCHANGED valueVars
  BY <1>1 DEF valueVars
<1>2. Kept(heap, held) /\ ValuesNext => Kept(heap', held')
  BY KeptNext
<1> QED
  BY <1>1, <1>2

\* Every value is there as long as somebody refers to it, counted, and found by
\* the last of its names, for any containers and any sequence of calls
\* (operator++ and operator-- of ValueBase, setByRef, pushByRef, updateIndex).
THEOREM ValuesStaySound == ValuesSpec => []Sound
<1>1. ValuesInit => Kept(heap, held)
  BY KeptInit
<1>2. Kept(heap, held) /\ [ValuesNext]_valueVars => Kept(heap, held)'
  BY KeptStays
<1>3. Kept(heap, held) => Sound
  BY KeptIsSound
<1> QED
  BY <1>1, <1>2, <1>3, PTL DEF ValuesSpec

\* What is done to one container never shows in another, whatever they share,
\* for any containers and any depth (object.cpp:setByRef, clear; array.cpp).
THEOREM ValuesStayApart == ValuesSpec => CopiesApart
<1>1. ValuesInit => Kept(heap, held)
  BY KeptInit
<1>2. Kept(heap, held) /\ [ValuesNext]_valueVars => Kept(heap, held)'
  BY KeptStays
<1>3. Kept(heap, held) /\ [ValuesNext]_valueVars =>
        [\E c \in Owners : \A d \in Owners \ {c} :
           ShownBy(heap', held'[d]) = ShownBy(heap, held[d])]_valueVars
  <2>1. Kept(heap, held) /\ ValuesNext => Elsewhere(heap, held, heap', held')
    BY KeptNext
  <2> QED
    BY <2>1 DEF Elsewhere, Apart
<1> QED
  BY <1>1, <1>2, <1>3, PTL DEF ValuesSpec, CopiesApart
=============================================================================
