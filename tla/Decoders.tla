------------------------------ MODULE Decoders ------------------------------
(***************************************************************************)
(* The tree that everything decoded hangs in (libdvbtee/decode): a decode  *)
(* of a transport stream, its tables and networks, their parts, and the    *)
(* descriptors of each.  A decoder knows its parent and the slot it has    *)
(* there, and deletes its children when it is deleted itself; a child      *)
(* clears its slot on the way.                                             *)
(*                                                                         *)
(* A tree f is a function from the addresses of the decoders that live to  *)
(* what they are.  What C++ leaves undefined, deleting what was deleted or *)
(* calling a method of it, puts something at the address Corrupt.          *)
(***************************************************************************)
EXTENDS Integers, Sequences, FiniteSets, SequencesExt

Null == 0
Corrupt == -1

\* From a decode down to the descriptor of a part of a table of a service.
Depth == 5

Put(f, x, y) == [z \in DOMAIN f \cup {x} |-> IF z = x THEN y ELSE f[z]]
Without(f, xs) == [z \in DOMAIN f \ xs |-> f[z]]

Decoder(is, parent, data) ==
  [is |-> is, parent |-> parent, linkedIdx |-> -1, children |-> <<>>, genMapIdx |-> 0, data |-> data]

Broken(f) == Put(f, Corrupt, Decoder("corrupt", Null, <<>>))

\* The address of the next new decoder: the memory of a deleted one is used again.
Fresh(f) == CHOOSE i \in 1 .. Cardinality(DOMAIN f) + 1 :
              /\ i \notin DOMAIN f
              /\ \A j \in 1 .. i - 1 : j \in DOMAIN f

genMapIndex(f, p) ==
  CHOOSE i \in f[p].genMapIdx .. f[p].genMapIdx + Cardinality(DOMAIN f[p].children) :
    /\ i \notin DOMAIN f[p].children
    /\ \A j \in f[p].genMapIdx .. i - 1 : j \in DOMAIN f[p].children

\* A slot that is taken is not given again: the child has none then.
linkChild(f, p, c) ==
  LET idx == genMapIndex(f, p)
  IN  IF p \notin DOMAIN f THEN Broken(f)
      ELSE IF idx \in DOMAIN f[p].children THEN [f EXCEPT ![p].genMapIdx = idx + 1]
      ELSE [f EXCEPT ![p].children = Put(@, idx, c), ![p].genMapIdx = idx + 1, ![c].linkedIdx = idx]

\* Mutant: the destructor of a child leaves its slot alone.
unlinkChild_Not(f, p, idx) == f

unlinkChild(f, p, idx) ==
  IF p = Null THEN f
  ELSE IF p \notin DOMAIN f THEN Broken(f)
  ELSE [f EXCEPT ![p].children = Without(@, {idx})]

\* new LinkedDecoder(p): at Fresh(f).
New(f, is, p, data) == linkChild(Put(f, Fresh(f), Decoder(is, p, data)), p, Fresh(f))

\* What ~Decoder deletes along with the decoder at i.
Below(f, i) ==
  LET reach[n \in 0 .. Depth] ==
        IF n = 0 THEN {i}
        ELSE reach[n - 1] \cup UNION {Range(f[j].children) : j \in reach[n - 1] \cap DOMAIN f}
  IN  reach[Depth]

Delete(f, i) ==
  IF ~(Below(f, i) \subseteq DOMAIN f) THEN Broken(f)
  ELSE Without(unlinkChild(f, f[i].parent, f[i].linkedIdx), Below(f, i))

\* One after the other, in some order.
DeleteAll(f, is) == FoldSet(LAMBDA i, g : Delete(g, i), f, is)

\* Parent and child agree on one another, and both live.
Linked(f) ==
  /\ Corrupt \notin DOMAIN f
  /\ \A i \in DOMAIN f :
       /\ f[i].parent # Null =>
            /\ f[i].parent \in DOMAIN f
            /\ f[i].linkedIdx \in DOMAIN f[f[i].parent].children
       /\ \A k \in DOMAIN f[i].children :
            /\ f[i].children[k] \in DOMAIN f
            /\ f[f[i].children[k]].parent = i
            /\ f[f[i].children[k]].linkedIdx = k

-----------------------------------------------------------------------------
(* Descriptors: DescriptorStore.                                           *)

\* add: the decoder for a tag makes a descriptor that is linked to the owner of
\* the store, unless there is no decoder for the tag.
AddDescriptor(f, p, tag) ==
  IF tag = "unknown" THEN f
  ELSE LET g == New(f, "descriptor", p, [tag |-> tag])
       IN  [g EXCEPT ![p].data.descriptors = Append(@, Fresh(f))]

\* decode: what the store has already stays in it.
DecodeDescriptors(f, p, tags) ==
  FoldLeft(LAMBDA g, tag : AddDescriptor(g, p, tag), f, tags)
=============================================================================
