------------------------------- MODULE Values -------------------------------
(***************************************************************************)
(* The values that decoded tables are kept in (libdvbtee/value): objects   *)
(* and arrays whose elements are values on the heap, counted by reference. *)
(* A copy of an object or of an array shares the values of the original; a *)
(* value that holds an object or an array holds such a copy, and is never  *)
(* changed once it was made.  A program has some objects and arrays of its *)
(* own, and calls their methods, from one thread.                          *)
(*                                                                         *)
(* The classes have no assignment of their own: nobody assigns.  Nobody    *)
(* puts an object into itself (setByRef drops what is there first).        *)
(***************************************************************************)
EXTENDS Integers, Sequences, FiniteSets, Functions

CONSTANTS
  Objects,    \* the program's objects
  Arrays,     \* and arrays
  Keys,       \* names; also the strings that are stored
  MaxValues   \* bound: values on the heap

Anonymous == ""

ASSUME ValuesAssumption ==
  /\ IsFiniteSet(Objects) /\ IsFiniteSet(Arrays) /\ Objects \cap Arrays = {}
  /\ Anonymous \notin Keys /\ Cardinality(Keys) > 0
  /\ MaxValues \in Nat \ {0}

VARIABLES
  heap,  \* number of a value -> [name, refcnt, what]
  held   \* what each object and each array of the program holds

valueVars == <<heap, held>>

Owners == Objects \cup Arrays
Ids == 1 .. MaxValues

\* What a value or a container holds; the elements are numbers of values.
String(s) == [type |-> "string", is |-> s]
Object(map) == [type |-> "object", map |-> map]
Array(vector, indices, idx) ==
  [type |-> "array", vector |-> vector, indices |-> indices, idxField |-> idx]

With(f, x, y) == [z \in DOMAIN f \cup {x} |-> IF z = x THEN y ELSE f[z]]

\* The places where p refers to value v, and how often it does.
PlacesOf(p, v) ==
  CASE p.type = "string" -> {}
    [] p.type = "object" -> {k \in DOMAIN p.map : p.map[k] = v}
    [] p.type = "array" -> {i \in DOMAIN p.vector : p.vector[i] = v}
Count(p, v) == Cardinality(PlacesOf(p, v))

\* The references that p holds, by value.
Refs(p) == [v \in Ids |-> Count(p, v)]

\* Mutant: an array that is copied does not count the values it shares.
Hold_Objects(h, p) ==
  [v \in DOMAIN h |-> [h[v] EXCEPT !.refcnt = IF p.type = "array" THEN @ ELSE @ + Count(p, v)]]

\* operator++ for each reference that p holds.
Hold(h, p) == [v \in DOMAIN h |-> [h[v] EXCEPT !.refcnt = @ + Count(p, v)]]

\* operator-- for each of the references, and delete at 0: the destructor of a
\* value clears what it holds.  A value is younger than those it refers to, so
\* one pass from the youngest on finds all that go.
Release(h, refs) ==
  LET after[v \in 0 .. MaxValues] ==  \* heap and references left, older than v
        IF v = MaxValues THEN [heap |-> h, refs |-> refs]
        ELSE LET x == after[v + 1]
                 w == v + 1
                 left == x.heap[w].refcnt - x.refs[w]
             IN  IF x.refs[w] = 0 \/ w \notin DOMAIN x.heap THEN x
                 ELSE IF left # 0
                 THEN [x EXCEPT !.heap[w].refcnt = left]
                 ELSE [heap |-> Restrict(x.heap, DOMAIN x.heap \ {w}),
                       refs |-> [u \in Ids |-> x.refs[u] + Count(x.heap[w].what, u)]]
  IN  after[0].heap

\* Copy constructors: the elements are shared; an array looks its index up in
\* the names of its elements, and forgets its idxField.
CopyOfValues(h, p) ==
  IF p.type # "array" THEN p
  ELSE LET named == {i \in DOMAIN p.vector : h[p.vector[i]].name # Anonymous}
           last(k) == CHOOSE i \in named :
             h[p.vector[i]].name = k /\ \A j \in named : h[p.vector[j]].name = k => j <= i
       IN  Array(p.vector, [k \in {h[p.vector[i]].name : i \in named} |-> p.vector[last(k)]], Anonymous)

\* A number for a new value that holds p: the lowest above those p refers to.
FreshValue(h, p) ==
  {v \in Ids \ DOMAIN h :
     /\ \A u \in Ids : Count(p, u) > 0 => u < v
     /\ \A w \in 1 .. v - 1 : w \in DOMAIN h \/ \E u \in w .. v - 1 : Count(p, u) > 0}

\* new Value(name, x) where x is what p is a copy of, and ++.
NewValue(h, v, name, p) == With(Hold(h, p), v, [name |-> name, refcnt |-> 1, what |-> p])

ValuesInit ==
  /\ heap = <<>>
  /\ \E idx \in {Anonymous} \cup Keys :
       held = [c \in Owners |-> IF c \in Objects THEN Object(<<>>) ELSE Array(<<>>, <<>>, idx)]

-----------------------------------------------------------------------------
(* Objects.                                                                *)

\* The references of o under key k.
Under(o, k) == [v \in Ids |-> IF k \in DOMAIN held[o].map /\ held[o].map[k] = v THEN 1 ELSE 0]

\* Mutant: a string that is there already is overwritten.
setByRef_InPlace(o, k, x) ==
  IF x.type = "string" /\ k \in DOMAIN held[o].map
       /\ heap[held[o].map[k]].what.type = "string"
  THEN /\ heap' = [heap EXCEPT ![held[o].map[k]].what = x]
       /\ UNCHANGED held
  ELSE LET h == Release(heap, Under(o, k))
       IN  \E v \in FreshValue(h, CopyOfValues(h, x)) :
             /\ heap' = NewValue(h, v, k, CopyOfValues(h, x))
             /\ held' = [held EXCEPT ![o].map = With(@, k, v)]

\* setByRef: the value that was there is dropped before the new one is made.
setByRef(o, k, x) ==
  LET h == Release(heap, Under(o, k))
  IN  \E v \in FreshValue(h, CopyOfValues(h, x)) :
        /\ heap' = NewValue(h, v, k, CopyOfValues(h, x))
        /\ held' = [held EXCEPT ![o].map = With(@, k, v)]

SetString(o, k, s) == setByRef(o, k, String(s))

SetContainer(o, k, c) == c # o /\ setByRef(o, k, held[c])

unSet(o, k) ==
  /\ k \in DOMAIN held[o].map
  /\ heap' = Release(heap, Under(o, k))
  /\ held' = [held EXCEPT ![o].map = Restrict(@, DOMAIN @ \ {k})]

-----------------------------------------------------------------------------
(* Arrays.                                                                 *)

\* Mutant: a name that is in the index stays where it is.
updateIndex_First(f, k, v) == IF k = Anonymous \/ k \in DOMAIN f THEN f ELSE With(f, k, v)

updateIndex(f, k, v) == IF k = Anonymous THEN f ELSE With(f, k, v)

\* pushByRef, and updateIndex with the name of the new element.
pushByRef(a, k, x) ==
  \E v \in FreshValue(heap, CopyOfValues(heap, x)) :
    /\ heap' = NewValue(heap, v, k, CopyOfValues(heap, x))
    /\ held' = [held EXCEPT ![a].vector = Append(@, v), ![a].indices = updateIndex(@, k, v)]

Push(a, s) == pushByRef(a, Anonymous, String(s))

\* push(Array&) does not look for a name.
PushArray(a, b) == a # b /\ pushByRef(a, Anonymous, held[b])

\* set: an element with this name that is there already stays in the array.
Set(a, k, s) == pushByRef(a, k, String(s))

\* assignIndex: the name of an object is its field idxField, as JSON unless it
\* is a string; of an object without the field it is "undefined".
NameOf(a, o) ==
  LET idx == held[a].idxField
  IN  IF idx = Anonymous THEN Anonymous
      ELSE IF idx \notin DOMAIN held[o].map THEN "undefined"
      ELSE LET x == heap[held[o].map[idx]].what
           IN  IF x.type = "string" THEN x.is ELSE "json"

PushObject(a, o) == pushByRef(a, NameOf(a, o), held[o])

-----------------------------------------------------------------------------
(* Both.                                                                   *)

\* clear()
Clear(c) ==
  /\ heap' = Release(heap, Refs(held[c]))
  /\ held' = [held EXCEPT ![c] = IF c \in Objects THEN Object(<<>>)
                                 ELSE Array(<<>>, <<>>, @.idxField)]

\* A copy of x is made, and then c goes out of scope and the copy takes its name.
Replace(c, x) ==
  LET p == CopyOfValues(heap, x)
  IN  /\ heap' = Release(Hold(heap, p), Refs(held[c]))
      /\ held' = [held EXCEPT ![c] = p]

\* Copies of a container, or of what get<Array> or get<Object> returned.
CopyContainer(c, d) == c # d /\ held[c].type = held[d].type /\ Replace(c, held[d])
CopyElement(c, v) ==
  /\ v \in DOMAIN heap /\ held[c].type = heap[v].what.type
  /\ Replace(c, heap[v].what)

ValuesNext ==
  \/ \E o \in Objects, k \in Keys :
       \/ \E s \in Keys : SetString(o, k, s)
       \/ \E c \in Owners : SetContainer(o, k, c)
       \/ unSet(o, k)
  \/ \E a \in Arrays :
       \/ \E s \in Keys : Push(a, s) \/ \E k \in Keys : Set(a, k, s)
       \/ \E b \in Arrays : PushArray(a, b)
       \/ \E o \in Objects : PushObject(a, o)
  \/ \E c \in Owners :
       \/ Clear(c)
       \/ \E d \in Owners : CopyContainer(c, d)
       \/ \E v \in Ids : CopyElement(c, v)

ValuesSpec == ValuesInit /\ [][ValuesNext]_valueVars

-----------------------------------------------------------------------------
(* Properties.                                                             *)

\* Every value is there as long as somebody refers to it and no longer, and its
\* count is the number of references to it, from the program's containers and
\* from other values (m_refcnt, value.cpp; the deletes of object.cpp, array.cpp).
Counted ==
  LET referrers(v) ==
        FoldFunction(+, 0, [c \in Owners |-> Count(held[c], v)])
          + FoldFunction(+, 0, [u \in DOMAIN heap |-> Count(heap[u].what, v)])
  IN  \A v \in Ids :
        IF v \in DOMAIN heap THEN heap[v].refcnt = referrers(v) /\ referrers(v) > 0
        ELSE referrers(v) = 0

\* getByName finds the last element with a name, in an array and in its copies,
\* wherever they are (array.cpp:updateIndex and the copy constructor).
NamedLast ==
  \A p \in Range(held) \cup {heap[v].what : v \in DOMAIN heap} : p.type = "array" =>
    \A v \in Range(p.vector) : heap[v].name # Anonymous =>
      \E i \in DOMAIN p.vector :
        /\ heap[p.vector[i]].name = heap[v].name
        /\ \A j \in i + 1 .. Len(p.vector) : heap[p.vector[j]].name # heap[v].name
        /\ heap[v].name \in DOMAIN p.indices /\ p.indices[heap[v].name] = p.vector[i]

\* What the containers hold is alive, counted and found by its name, at any
\* depth and whoever shares it (operator++ and operator-- of ValueBase; the
\* plain pointers of Array::indices beside the counted vector).
Sound == Counted /\ NamedLast

\* What a container with elements p shows: the strings in it, at any depth.
ShownBy(h, p) ==
  LET of(x, f) ==
        CASE x.type = "string" -> <<"string", x.is>>
          [] x.type = "object" -> <<"object", [k \in DOMAIN x.map |-> f[x.map[k]]]>>
          [] x.type = "array" -> <<"array", [i \in DOMAIN x.vector |-> f[x.vector[i]]]>>
      value[v \in Ids] == IF v \in DOMAIN h THEN of(h[v].what, value) ELSE <<"gone">>
  IN  of(p, value)

\* Copies are independent although they share values: what is done to one
\* container never shows in another one (object.cpp:setByRef, clear).
CopiesApart ==
  [][\E c \in Owners : \A d \in Owners \ {c} :
       ShownBy(heap', held'[d]) = ShownBy(heap, held[d])]_valueVars
=============================================================================
