---------------------------- MODULE ReplyProofs -----------------------------
(***************************************************************************)
(* What is proved of a client of the command server, for any tuners and    *)
(* feeders, channels, guides and lines of commands:                        *)
(*                                                                         *)
(*   - the tuner and the feeder that it works on belong together;          *)
(*   - the list of channels names none twice (NamesInv);                   *)
(*   - its reply is well formed (TextInv): at each place of the thread the *)
(*     text so far leaves open just what the rest of the command will      *)
(*     shut, and every row in it is whole.  What the reports of text.cpp   *)
(*     write is proved by induction on their loops.                        *)
(***************************************************************************)
EXTENDS Reply, TLAPS, WellFoundedInduction, FiniteSetTheorems, SequenceTheorems

-----------------------------------------------------------------------------
(* The tuner and the feeder of a client.                                   *)

Coheres(c) ==
  /\ DOMAIN c = {"tuner", "feeder", "fmt", "started", "newchannel"}
  /\ c.tuner # NULL /\ c.feeder # NULL => c.feeder = c.tuner

\* A command that looks for a feeder takes the one of the tuner.
LEMMA DefaultCoheres ==
  ASSUME Coheres(client)
  PROVE  Coheres(Default)
<1> USE DEF Coheres
<1>1. CASE client.feeder # NULL
  BY <1>1 DEF Default
<1>2. CASE client.feeder = NULL /\ client.tuner # NULL
  BY <1>2 DEF Default
<1>3. CASE client.feeder = NULL /\ client.tuner = NULL /\ 0 \in config.tuners
  BY <1>3 DEF Default
<1>4. CASE client.feeder = NULL /\ client.tuner = NULL /\ config.tuners = {} /\ 0 \in config.feeders
  BY <1>4 DEF Default
<1>5. CASE client.feeder = NULL /\ client.tuner = NULL /\ 0 \notin config.tuners
             /\ ~(config.tuners = {} /\ 0 \in config.feeders)
  BY <1>5 DEF Default
<1> QED
  BY <1>1, <1>2, <1>3, <1>4, <1>5

\* "info" ends with a client that has not begun an answer.
LEMMA InfoRuns ==
  ASSUME NEW m, Info(m)
  PROVE  \E out, text : Run([Default EXCEPT !.started = FALSE, !.newchannel = out.newchannel], text, "command")
BY ZenonT(60) DEF Info

LEMMA ReplyStepKeeps == Coheres(client) /\ [Next]_vars => Coheres(client')
<1> SUFFICES ASSUME Coheres(client), [Next]_vars PROVE Coheres(client')
  OBVIOUS
<1>1. CASE Connection
  <2>1. \/ client' = NewClient \/ client' = client
        \/ \E f : client' = [client EXCEPT !.fmt = f, !.started = FALSE, !.newchannel = FALSE]
    BY <1>1 DEF Connection, Get, Line, HeadOnly, NoCli, HangsUp, Finish, Close, Request
  <2>2. Coheres(NewClient)
    BY DEF Coheres, NewClient
  <2> QED
    BY <2>1, <2>2 DEF Coheres
<1>2. ASSUME NEW i \in Ids, SelectTuner(i) PROVE Coheres(client')
  BY <1>2 DEF SelectTuner, Run, Coheres
<1>3. ASSUME NEW i \in Ids, SelectFeeder(i) PROVE Coheres(client')
  BY <1>3 DEF SelectFeeder, Run, Coheres
<1>4. CASE Fails \/ Works \/ Video \/ Scan \/ Save \/ (\E cmd \in {"channels", "xmltv"} : List(cmd))
  <2>1. client' = Default
    BY <1>4 DEF Fails, Works, Video, Scan, Save, List, Run
  <2> QED
    BY <2>1, DefaultCoheres
<1>5. CASE Load \/ XmltvGuide \/ Saved
  <2>1. client' = client \/ \E s, n : client' = [client EXCEPT !.started = s, !.newchannel = n]
    BY <1>5 DEF Load, XmltvGuide, Saved, Told
  <2> QED
    BY <2>1 DEF Coheres
<1>6. CASE Epg
  <2>1. client' = Told(Default, epg_dump(Out, Default.feeder))
    BY <1>6 DEF Epg, Run
  <2>2. \E s, n : client' = [Default EXCEPT !.started = s, !.newchannel = n]
    BY <2>1 DEF Told
  <2> QED
    BY <2>2, DefaultCoheres DEF Coheres
<1>7. ASSUME NEW m \in Muxes, Info(m) PROVE Coheres(client')
  <2>1. \E out, text : Run([Default EXCEPT !.started = FALSE, !.newchannel = out.newchannel], text, "command")
    BY <1>7, InfoRuns
  <2>2. \E n : client' = [Default EXCEPT !.started = FALSE, !.newchannel = n]
    BY <2>1 DEF Run
  <2> QED
    BY <2>2, DefaultCoheres DEF Coheres
<1>8. CASE Quit
  <2>1. \E f : client' = [Default EXCEPT !.fmt = f]
    BY <1>8 DEF Quit, Run
  <2> QED
    BY <2>1, DefaultCoheres DEF Coheres
<1>9. CASE Crash \/ (\E p \in Parsers, m \in Muxes : Learn(p, m)) \/ UNCHANGED vars
  <2>1. Coheres(NewClient)
    BY DEF Coheres, NewClient
  <2> QED
    BY <1>9, <2>1 DEF Crash, Learn, vars
<1> QED
  BY <1>1, <1>2, <1>3, <1>4, <1>5, <1>6, <1>7, <1>8, <1>9 DEF Next, Command

\* A client that has a tuner and a feeder has the feeder of that tuner, whatever
\* it selected before and wherever a command failed (serve.cpp:__command).
THEOREM ClientsCohere == Spec => []Coherent
<1>1. Init => Coheres(client)
  BY DEF Init, NewClient, Coheres
<1>2. Coheres(client) => Coherent
  BY DEF Coheres, Coherent
<1>3. Coheres(client) /\ [Next]_vars => Coheres(client)'
  BY ReplyStepKeeps DEF Coheres
<1> QED
  BY <1>1, <1>2, <1>3, PTL DEF Spec

-----------------------------------------------------------------------------
(* Induction on numbers, and the folds that the reports are written with.   *)
(* A fold over a sequence is a chain of its prefixes' results; an operator  *)
(* cannot be a parameter of a lemma here, so each fold has its own.         *)

\* A set of natural numbers has a least one ...
LEMMA Least ==
  ASSUME NEW T \in SUBSET Nat, T # {}
  PROVE  \E n \in T : \A m \in T : n <= m
<1>1. IsWellFoundedOn(OpToRel(<, Nat), Nat)
  BY NatLessThanWellFounded
<1>2. PICK n \in T : \A m \in T : ~(<<m, n>> \in OpToRel(<, Nat))
  BY <1>1, WFMin
<1>3. \A m \in T : ~(m < n)
  BY <1>2 DEF OpToRel
<1> QED
  BY <1>3

\* ... so that induction on them is a fact about sets.
LEMMA Induct ==
  ASSUME NEW T \in SUBSET Nat, 0 \in T, \A k \in T : k + 1 \in T
  PROVE  T = Nat
<1> SUFFICES ASSUME Nat \ T # {} PROVE FALSE
  OBVIOUS
<1>1. PICK n \in Nat \ T : \A m \in Nat \ T : n <= m
  BY Least
<1>2. n - 1 \in Nat /\ n - 1 \notin T
  BY <1>1
<1> QED
  BY <1>1, <1>2

\* The greatest of some of the first n numbers, which a fold takes off last.
LEMMA Greatest ==
  ASSUME NEW n \in Nat \ {0}, NEW s \in SUBSET (1 .. n)
  PROVE  /\ n \in s => Max(s) = n
         /\ s # {} => s \ {Max(s)} \in SUBSET (1 .. n - 1)
<1>1. ASSUME n \in s PROVE Max(s) = n
  <2>1. \A y \in s : y \in Int /\ n >= y
    OBVIOUS
  <2>2. \A x \in s : (\A y \in s : x >= y) => x = n
    BY <1>1, <2>1
  <2> QED
    BY <1>1, <2>1, <2>2 DEF Max
<1>2. ASSUME NEW y \in s \ {Max(s)} PROVE y \in 1 .. n - 1
  <2>1. y \in 1 .. n /\ y # n
    BY <1>1
  <2> QED
    BY <2>1
<1> QED
  BY <1>1, <1>2

\* The prefixes of a sequence, by their indices.
LEMMA Initial ==
  ASSUME NEW n \in Nat \ {0}
  PROVE  Max(1 .. n) = n /\ (1 .. n) \ {n} = 1 .. n - 1
<1>1. Max(1 .. n) = n
  BY Greatest
<1> QED
  BY <1>1

\* What the tokens of a reply say.
Words == {"", "nothing", "page", "row", "tv", "broken"} \cup DOMAIN Events \cup UNION {Range(Events[c]) : c \in DOMAIN Events}
Kinds == {"head", "last", "close_connection", "prompt", "open", "shut", "name", "channel", "event", "video"}
Tokens == [is : Kinds, of : Words]
\* The folds of Reply, named: the nesting of a text, the rows of a page, the pages.
Nested(open, text) == FoldLeft(Nest, open, text)
Rowed(out, names) == FoldLeft(DumpChannel, out, names)
Paged(out, muxes) == FoldLeft(dump_epg, out, muxes)

\* Every prefix of a text leaves something open.
LEMMA NestedSteps ==
  ASSUME NEW b, NEW S, NEW seq \in Seq(S)
  PROVE  \E h : /\ h[0] = b /\ h[Len(seq)] = Nested(b, seq)
                /\ \A k \in 1 .. Len(seq) : h[k] = Nest(h[k - 1], seq[k])
<1> DEFINE n == Len(seq)
<1>1. n \in Nat /\ DOMAIN seq = 1 .. n
  OBVIOUS
<1> HIDE DEF n
<1> USE <1>1
<1> DEFINE F(g, s) == IF s = {} THEN b ELSE Nest(g[s \ {Max(s)}], seq[Max(s)])
           Ok(g, k) == g = [s \in SUBSET (1 .. k) |-> F(g, s)]
           T == {k \in Nat : \E g : Ok(g, k)}
<1>2. 0 \in T
  <2> DEFINE g == [s \in SUBSET (1 .. 0) |-> b]
  <2>1. SUBSET (1 .. 0) = {{}}
    OBVIOUS
  <2>2. Ok(g, 0)
    BY <2>1
  <2> QED
    BY <2>2
<1>3. ASSUME NEW k \in T PROVE k + 1 \in T
  <2>1. PICK g : Ok(g, k)
    OBVIOUS
  <2> DEFINE h == [s \in SUBSET (1 .. k + 1) |-> F(g, s)]
  <2>2. ASSUME NEW s \in SUBSET (1 .. k) PROVE h[s] = g[s]
    <3>1. s \in SUBSET (1 .. k + 1)
      OBVIOUS
    <3> QED
      BY <2>1, <3>1
  <2>3. ASSUME NEW s \in SUBSET (1 .. k + 1) PROVE F(g, s) = F(h, s)
    <3>1. k + 1 \in Nat \ {0} /\ (k + 1) - 1 = k
      OBVIOUS
    <3>2. s # {} => s \ {Max(s)} \in SUBSET (1 .. k)
      BY <3>1, Greatest
    <3> HIDE DEF h
    <3> QED
      BY <2>2, <3>2
  <2>4. Ok(h, k + 1)
    BY <2>3
  <2>5. \E f : Ok(f, k + 1)
    <3> HIDE DEF h, Ok
    <3> QED
      BY <2>4
  <2> HIDE DEF h, Ok
  <2> QED
    BY <2>5
<1>4. T = Nat
  <2>1. T \in SUBSET Nat
    OBVIOUS
  <2> HIDE DEF T
  <2> QED
    BY <1>2, <1>3, <2>1, Induct
<1> DEFINE iter == CHOOSE g : g = [s \in SUBSET DOMAIN seq |-> F(g, s)]
<1>5. iter = [s \in SUBSET DOMAIN seq |-> F(iter, s)]
  <2>1. PICK g : Ok(g, n)
    BY <1>4
  <2>2. g = [s \in SUBSET DOMAIN seq |-> F(g, s)]
    BY <2>1
  <2> QED
    BY <2>2
<1>6. iter[DOMAIN seq] = Nested(b, seq)
  BY DEF Nested, FoldLeft, MapThenFoldSet
<1> DEFINE h == [k \in 0 .. n |-> iter[1 .. k]]
<1> HIDE DEF iter
<1>7. h[0] = b /\ h[n] = Nested(b, seq)
  <2>1. {} \in SUBSET DOMAIN seq /\ 1 .. 0 = {}
    OBVIOUS
  <2>2. iter[{}] = b
    BY <1>5, <2>1
  <2>3. h[0] = iter[1 .. 0] /\ h[n] = iter[1 .. n]
    OBVIOUS
  <2> HIDE DEF h
  <2> QED
    BY <1>6, <2>1, <2>2, <2>3
<1>8. ASSUME NEW k \in 1 .. n PROVE h[k] = Nest(h[k - 1], seq[k])
  <2>1. Max(1 .. k) = k /\ (1 .. k) \ {k} = 1 .. k - 1
    BY Initial
  <2>2. k \in 1 .. k /\ \A i \in 1 .. k : i \in DOMAIN seq
    OBVIOUS
  <2>3. iter[1 .. k] = F(iter, 1 .. k)
    BY <1>5, <2>2
  <2>4. iter[1 .. k] = Nest(iter[1 .. k - 1], seq[k])
    BY <2>1, <2>2, <2>3
  <2>5. k \in 0 .. n /\ k - 1 \in 0 .. n
    OBVIOUS
  <2>6. h[k] = iter[1 .. k] /\ h[k - 1] = iter[1 .. k - 1]
    BY <2>5
  <2> QED
    BY <2>4, <2>6
<1> QED
  BY <1>7, <1>8 DEF n

\* A page is written row by row ...
LEMMA RowSteps ==
  ASSUME NEW b, NEW S, NEW seq \in Seq(S)
  PROVE  \E h : /\ h[0] = b /\ h[Len(seq)] = Rowed(b, seq)
                /\ \A k \in 1 .. Len(seq) : h[k] = DumpChannel(h[k - 1], seq[k])
<1> DEFINE n == Len(seq)
<1>1. n \in Nat /\ DOMAIN seq = 1 .. n
  OBVIOUS
<1> HIDE DEF n
<1> USE <1>1
<1> DEFINE F(g, s) == IF s = {} THEN b ELSE DumpChannel(g[s \ {Max(s)}], seq[Max(s)])
           Ok(g, k) == g = [s \in SUBSET (1 .. k) |-> F(g, s)]
           T == {k \in Nat : \E g : Ok(g, k)}
<1>2. 0 \in T
  <2> DEFINE g == [s \in SUBSET (1 .. 0) |-> b]
  <2>1. SUBSET (1 .. 0) = {{}}
    OBVIOUS
  <2>2. Ok(g, 0)
    BY <2>1
  <2> QED
    BY <2>2
<1>3. ASSUME NEW k \in T PROVE k + 1 \in T
  <2>1. PICK g : Ok(g, k)
    OBVIOUS
  <2> DEFINE h == [s \in SUBSET (1 .. k + 1) |-> F(g, s)]
  <2>2. ASSUME NEW s \in SUBSET (1 .. k) PROVE h[s] = g[s]
    <3>1. s \in SUBSET (1 .. k + 1)
      OBVIOUS
    <3> QED
      BY <2>1, <3>1
  <2>3. ASSUME NEW s \in SUBSET (1 .. k + 1) PROVE F(g, s) = F(h, s)
    <3>1. k + 1 \in Nat \ {0} /\ (k + 1) - 1 = k
      OBVIOUS
    <3>2. s # {} => s \ {Max(s)} \in SUBSET (1 .. k)
      BY <3>1, Greatest
    <3> HIDE DEF h
    <3> QED
      BY <2>2, <3>2
  <2>4. Ok(h, k + 1)
    BY <2>3
  <2>5. \E f : Ok(f, k + 1)
    <3> HIDE DEF h, Ok
    <3> QED
      BY <2>4
  <2> HIDE DEF h, Ok
  <2> QED
    BY <2>5
<1>4. T = Nat
  <2>1. T \in SUBSET Nat
    OBVIOUS
  <2> HIDE DEF T
  <2> QED
    BY <1>2, <1>3, <2>1, Induct
<1> DEFINE iter == CHOOSE g : g = [s \in SUBSET DOMAIN seq |-> F(g, s)]
<1>5. iter = [s \in SUBSET DOMAIN seq |-> F(iter, s)]
  <2>1. PICK g : Ok(g, n)
    BY <1>4
  <2>2. g = [s \in SUBSET DOMAIN seq |-> F(g, s)]
    BY <2>1
  <2> QED
    BY <2>2
<1>6. iter[DOMAIN seq] = Rowed(b, seq)
  BY DEF Rowed, FoldLeft, MapThenFoldSet
<1> DEFINE h == [k \in 0 .. n |-> iter[1 .. k]]
<1> HIDE DEF iter
<1>7. h[0] = b /\ h[n] = Rowed(b, seq)
  <2>1. {} \in SUBSET DOMAIN seq /\ 1 .. 0 = {}
    OBVIOUS
  <2>2. iter[{}] = b
    BY <1>5, <2>1
  <2>3. h[0] = iter[1 .. 0] /\ h[n] = iter[1 .. n]
    OBVIOUS
  <2> HIDE DEF h
  <2> QED
    BY <1>6, <2>1, <2>2, <2>3
<1>8. ASSUME NEW k \in 1 .. n PROVE h[k] = DumpChannel(h[k - 1], seq[k])
  <2>1. Max(1 .. k) = k /\ (1 .. k) \ {k} = 1 .. k - 1
    BY Initial
  <2>2. k \in 1 .. k /\ \A i \in 1 .. k : i \in DOMAIN seq
    OBVIOUS
  <2>3. iter[1 .. k] = F(iter, 1 .. k)
    BY <1>5, <2>2
  <2>4. iter[1 .. k] = DumpChannel(iter[1 .. k - 1], seq[k])
    BY <2>1, <2>2, <2>3
  <2>5. k \in 0 .. n /\ k - 1 \in 0 .. n
    OBVIOUS
  <2>6. h[k] = iter[1 .. k] /\ h[k - 1] = iter[1 .. k - 1]
    BY <2>5
  <2> QED
    BY <2>4, <2>6
<1> QED
  BY <1>7, <1>8 DEF n

\* ... a guide page by page ...
LEMMA PageSteps ==
  ASSUME NEW b, NEW S, NEW seq \in Seq(S)
  PROVE  \E h : /\ h[0] = b /\ h[Len(seq)] = Paged(b, seq)
                /\ \A k \in 1 .. Len(seq) : h[k] = dump_epg(h[k - 1], seq[k])
<1> DEFINE n == Len(seq)
<1>1. n \in Nat /\ DOMAIN seq = 1 .. n
  OBVIOUS
<1> HIDE DEF n
<1> USE <1>1
<1> DEFINE F(g, s) == IF s = {} THEN b ELSE dump_epg(g[s \ {Max(s)}], seq[Max(s)])
           Ok(g, k) == g = [s \in SUBSET (1 .. k) |-> F(g, s)]
           T == {k \in Nat : \E g : Ok(g, k)}
<1>2. 0 \in T
  <2> DEFINE g == [s \in SUBSET (1 .. 0) |-> b]
  <2>1. SUBSET (1 .. 0) = {{}}
    OBVIOUS
  <2>2. Ok(g, 0)
    BY <2>1
  <2> QED
    BY <2>2
<1>3. ASSUME NEW k \in T PROVE k + 1 \in T
  <2>1. PICK g : Ok(g, k)
    OBVIOUS
  <2> DEFINE h == [s \in SUBSET (1 .. k + 1) |-> F(g, s)]
  <2>2. ASSUME NEW s \in SUBSET (1 .. k) PROVE h[s] = g[s]
    <3>1. s \in SUBSET (1 .. k + 1)
      OBVIOUS
    <3> QED
      BY <2>1, <3>1
  <2>3. ASSUME NEW s \in SUBSET (1 .. k + 1) PROVE F(g, s) = F(h, s)
    <3>1. k + 1 \in Nat \ {0} /\ (k + 1) - 1 = k
      OBVIOUS
    <3>2. s # {} => s \ {Max(s)} \in SUBSET (1 .. k)
      BY <3>1, Greatest
    <3> HIDE DEF h
    <3> QED
      BY <2>2, <3>2
  <2>4. Ok(h, k + 1)
    BY <2>3
  <2>5. \E f : Ok(f, k + 1)
    <3> HIDE DEF h, Ok
    <3> QED
      BY <2>4
  <2> HIDE DEF h, Ok
  <2> QED
    BY <2>5
<1>4. T = Nat
  <2>1. T \in SUBSET Nat
    OBVIOUS
  <2> HIDE DEF T
  <2> QED
    BY <1>2, <1>3, <2>1, Induct
<1> DEFINE iter == CHOOSE g : g = [s \in SUBSET DOMAIN seq |-> F(g, s)]
<1>5. iter = [s \in SUBSET DOMAIN seq |-> F(iter, s)]
  <2>1. PICK g : Ok(g, n)
    BY <1>4
  <2>2. g = [s \in SUBSET DOMAIN seq |-> F(g, s)]
    BY <2>1
  <2> QED
    BY <2>2
<1>6. iter[DOMAIN seq] = Paged(b, seq)
  BY DEF Paged, FoldLeft, MapThenFoldSet
<1> DEFINE h == [k \in 0 .. n |-> iter[1 .. k]]
<1> HIDE DEF iter
<1>7. h[0] = b /\ h[n] = Paged(b, seq)
  <2>1. {} \in SUBSET DOMAIN seq /\ 1 .. 0 = {}
    OBVIOUS
  <2>2. iter[{}] = b
    BY <1>5, <2>1
  <2>3. h[0] = iter[1 .. 0] /\ h[n] = iter[1 .. n]
    OBVIOUS
  <2> HIDE DEF h
  <2> QED
    BY <1>6, <2>1, <2>2, <2>3
<1>8. ASSUME NEW k \in 1 .. n PROVE h[k] = dump_epg(h[k - 1], seq[k])
  <2>1. Max(1 .. k) = k /\ (1 .. k) \ {k} = 1 .. k - 1
    BY Initial
  <2>2. k \in 1 .. k /\ \A i \in 1 .. k : i \in DOMAIN seq
    OBVIOUS
  <2>3. iter[1 .. k] = F(iter, 1 .. k)
    BY <1>5, <2>2
  <2>4. iter[1 .. k] = dump_epg(iter[1 .. k - 1], seq[k])
    BY <2>1, <2>2, <2>3
  <2>5. k \in 0 .. n /\ k - 1 \in 0 .. n
    OBVIOUS
  <2>6. h[k] = iter[1 .. k] /\ h[k - 1] = iter[1 .. k - 1]
    BY <2>5
  <2> QED
    BY <2>4, <2>6
<1> QED
  BY <1>7, <1>8 DEF n

\* ... and a row event by event, between its header and its footer.
LEMMA EventSteps ==
  ASSUME NEW c, NEW out, Events[c] \in Seq(Range(Events[c]))
  PROVE  \E h : /\ h[0] = epg_header_footer(out, TRUE, TRUE) /\ DumpChannel(out, c) = epg_header_footer(h[Len(Events[c])], FALSE, TRUE)
                /\ \A k \in 1 .. Len(Events[c]) : h[k] = epg_event(h[k - 1], c, Events[c][k])
<1> DEFINE n == Len(Events[c])
<1>1. n \in Nat /\ DOMAIN Events[c] = 1 .. n
  OBVIOUS
<1> HIDE DEF n
<1> USE <1>1
<1> DEFINE F(g, s) == IF s = {} THEN epg_header_footer(out, TRUE, TRUE) ELSE epg_event(g[s \ {Max(s)}], c, Events[c][Max(s)])
           Ok(g, k) == g = [s \in SUBSET (1 .. k) |-> F(g, s)]
           T == {k \in Nat : \E g : Ok(g, k)}
<1>2. 0 \in T
  <2> DEFINE g == [s \in SUBSET (1 .. 0) |-> epg_header_footer(out, TRUE, TRUE)]
  <2>1. SUBSET (1 .. 0) = {{}}
    OBVIOUS
  <2>2. Ok(g, 0)
    BY <2>1
  <2> QED
    BY <2>2
<1>3. ASSUME NEW k \in T PROVE k + 1 \in T
  <2>1. PICK g : Ok(g, k)
    OBVIOUS
  <2> DEFINE h == [s \in SUBSET (1 .. k + 1) |-> F(g, s)]
  <2>2. ASSUME NEW s \in SUBSET (1 .. k) PROVE h[s] = g[s]
    <3>1. s \in SUBSET (1 .. k + 1)
      OBVIOUS
    <3> QED
      BY <2>1, <3>1
  <2>3. ASSUME NEW s \in SUBSET (1 .. k + 1) PROVE F(g, s) = F(h, s)
    <3>1. k + 1 \in Nat \ {0} /\ (k + 1) - 1 = k
      OBVIOUS
    <3>2. s # {} => s \ {Max(s)} \in SUBSET (1 .. k)
      BY <3>1, Greatest
    <3> HIDE DEF h
    <3> QED
      BY <2>2, <3>2
  <2>4. Ok(h, k + 1)
    BY <2>3
  <2>5. \E f : Ok(f, k + 1)
    <3> HIDE DEF h, Ok
    <3> QED
      BY <2>4
  <2> HIDE DEF h, Ok
  <2> QED
    BY <2>5
<1>4. T = Nat
  <2>1. T \in SUBSET Nat
    OBVIOUS
  <2> HIDE DEF T
  <2> QED
    BY <1>2, <1>3, <2>1, Induct
<1> DEFINE iter == CHOOSE g : g = [s \in SUBSET DOMAIN Events[c] |-> F(g, s)]
<1>5. iter = [s \in SUBSET DOMAIN Events[c] |-> F(iter, s)]
  <2>1. PICK g : Ok(g, n)
    BY <1>4
  <2>2. g = [s \in SUBSET DOMAIN Events[c] |-> F(g, s)]
    BY <2>1
  <2> QED
    BY <2>2
<1>6. DumpChannel(out, c) = epg_header_footer(iter[DOMAIN Events[c]], FALSE, TRUE)
  BY DEF DumpChannel, FoldLeft, MapThenFoldSet
<1> DEFINE h == [k \in 0 .. n |-> iter[1 .. k]]
<1> HIDE DEF iter
<1>7. h[0] = epg_header_footer(out, TRUE, TRUE) /\ DumpChannel(out, c) = epg_header_footer(h[n], FALSE, TRUE)
  <2>1. {} \in SUBSET DOMAIN Events[c] /\ 1 .. 0 = {}
    OBVIOUS
  <2>2. iter[{}] = epg_header_footer(out, TRUE, TRUE)
    BY <1>5, <2>1
  <2>3. h[0] = iter[1 .. 0] /\ h[n] = iter[1 .. n]
    OBVIOUS
  <2> HIDE DEF h
  <2> QED
    BY <1>6, <2>1, <2>2, <2>3
<1>8. ASSUME NEW k \in 1 .. n PROVE h[k] = epg_event(h[k - 1], c, Events[c][k])
  <2>1. Max(1 .. k) = k /\ (1 .. k) \ {k} = 1 .. k - 1
    BY Initial
  <2>2. k \in 1 .. k /\ \A i \in 1 .. k : i \in DOMAIN Events[c]
    OBVIOUS
  <2>3. iter[1 .. k] = F(iter, 1 .. k)
    BY <1>5, <2>2
  <2>4. iter[1 .. k] = epg_event(iter[1 .. k - 1], c, Events[c][k])
    BY <2>1, <2>2, <2>3
  <2>5. k \in 0 .. n /\ k - 1 \in 0 .. n
    OBVIOUS
  <2>6. h[k] = iter[1 .. k] /\ h[k - 1] = iter[1 .. k - 1]
    BY <2>5
  <2> QED
    BY <2>4, <2>6
<1> QED
  BY <1>7, <1>8 DEF n

-----------------------------------------------------------------------------
(* The lists of channels: Ascending and FlattenSeq.                        *)

\* The numbers of a finite set have an order.
LEMMA Ascends ==
  ASSUME NEW S \in SUBSET Nat, IsFiniteSet(S)
  PROVE  /\ Ascending(S) \in [1 .. Cardinality(S) -> S]
         /\ \A i, j \in DOMAIN Ascending(S) : i < j => Ascending(S)[i] < Ascending(S)[j]
<1> DEFINE Sorted(s) == \A i, j \in DOMAIN s : i < j => s[i] < s[j]
           T == {n \in Nat : \A X \in SUBSET Nat : IsFiniteSet(X) /\ Cardinality(X) = n =>
                               \E s \in [1 .. n -> X] : Sorted(s)}
<1>1. 0 \in T
  <2> SUFFICES ASSUME NEW X \in SUBSET Nat PROVE \E s \in [1 .. 0 -> X] : Sorted(s)
    OBVIOUS
  <2>1. <<>> \in [1 .. 0 -> X] /\ Sorted(<<>>)
    OBVIOUS
  <2> QED
    BY <2>1
<1>2. ASSUME NEW n \in T PROVE n + 1 \in T
  <2> SUFFICES ASSUME NEW X \in SUBSET Nat, IsFiniteSet(X), Cardinality(X) = n + 1
               PROVE  \E s \in [1 .. n + 1 -> X] : Sorted(s)
    OBVIOUS
  <2>1. X # {}
    <3>1. n + 1 # 0
      OBVIOUS
    <3> QED
      BY <3>1, FS_EmptySet
  <2>2. PICK m \in X : \A y \in X : m <= y
    BY <2>1, Least
  <2>3. IsFiniteSet(X \ {m}) /\ Cardinality(X \ {m}) = n
    <3>1. IsFiniteSet(X \ {m}) /\ Cardinality(X \ {m}) = Cardinality(X) - 1
      BY FS_RemoveElement
    <3> QED
      BY <3>1
  <2>4. PICK t \in [1 .. n -> X \ {m}] : Sorted(t)
    <3>1. X \ {m} \in SUBSET Nat
      OBVIOUS
    <3> QED
      BY <2>3, <3>1
  <2> DEFINE s == [i \in 1 .. n + 1 |-> IF i = 1 THEN m ELSE t[i - 1]]
  <2>5. s \in [1 .. n + 1 -> X]
    BY <2>4
  <2>6. ASSUME NEW i \in 1 .. n + 1, NEW j \in 1 .. n + 1, i < j PROVE s[i] < s[j]
    <3>1. j - 1 \in 1 .. n /\ j # 1
      BY <2>6
    <3>2. s[j] = t[j - 1] /\ s[j] \in X \ {m}
      BY <2>4, <3>1
    <3>3. CASE i = 1
      <4>1. s[i] = m
        BY <3>3
      <4>2. m \in Nat /\ s[j] \in Nat /\ m <= s[j] /\ s[j] # m
        BY <2>2, <3>2
      <4> QED
        BY <4>1, <4>2
    <3>4. CASE i # 1
      <4>1. i - 1 \in 1 .. n /\ i - 1 < j - 1 /\ s[i] = t[i - 1]
        BY <2>6, <3>4
      <4> QED
        BY <2>4, <3>1, <3>2, <4>1
    <3> QED
      BY <3>3, <3>4
  <2> QED
    BY <2>5, <2>6
<1>3. T = Nat
  <2>1. T \in SUBSET Nat
    OBVIOUS
  <2> HIDE DEF T
  <2> QED
    BY <1>1, <1>2, <2>1, Induct
<1>4. \E s \in [1 .. Cardinality(S) -> S] : Sorted(s)
  <2>1. Cardinality(S) \in Nat
    BY FS_CardinalityType
  <2> QED
    BY <1>3, <2>1
<1> QED
  BY <1>4 DEF Ascending

\* Sequences, put together one by one.
LEMMA FlattenSteps ==
  ASSUME NEW S, NEW seqs \in Seq(Seq(S))
  PROVE  \E h : /\ h[0] = <<>> /\ h[Len(seqs)] = FlattenSeq(seqs)
                /\ \A k \in 1 .. Len(seqs) : h[k] = h[k - 1] \o seqs[k]
                /\ \A k \in 0 .. Len(seqs) : h[k] \in Seq(S)
<1> DEFINE n == Len(seqs)
<1>n. n \in Nat
  OBVIOUS
<1>0. DOMAIN seqs = 1 .. n /\ \A k \in 1 .. n : seqs[k] \in Seq(S)
  OBVIOUS
<1> HIDE DEF n
<1> USE <1>n
<1> DEFINE Ok(h, k) == h[0] = <<>> /\ \A j \in 1 .. k : h[j] = h[j - 1] \o seqs[j]
           T == {k \in Nat : k <= n => \E h \in [0 .. k -> Seq(S)] : Ok(h, k)}
<1>1. 0 \in T
  <2> DEFINE h == [j \in 0 .. 0 |-> <<>>]
  <2>1. h \in [0 .. 0 -> Seq(S)] /\ Ok(h, 0)
    OBVIOUS
  <2> QED
    BY <2>1
<1>2. ASSUME NEW k \in T PROVE k + 1 \in T
  <2> HIDE DEF Ok
  <2> SUFFICES ASSUME k + 1 <= n PROVE \E h \in [0 .. k + 1 -> Seq(S)] : Ok(h, k + 1)
    BY k + 1 \in Nat
  <2>1. PICK g \in [0 .. k -> Seq(S)] : Ok(g, k)
    <3>1. k \in Nat /\ k <= n
      OBVIOUS
    <3> QED
      BY <3>1
  <2> USE DEF Ok
  <2> DEFINE h == [j \in 0 .. k + 1 |-> IF j = k + 1 THEN g[k] \o seqs[j] ELSE g[j]]
  <2>2. k + 1 \in 1 .. n /\ k \in 0 .. k
    OBVIOUS
  <2>3. g[k] \o seqs[k + 1] \in Seq(S)
    BY <1>0, <2>2, ConcatProperties
  <2>4. h \in [0 .. k + 1 -> Seq(S)]
    BY <2>3, SMTT(40)
  <2>5. ASSUME NEW j \in 1 .. k + 1 PROVE h[j] = h[j - 1] \o seqs[j]
    <3>1. j \in 0 .. k + 1 /\ j - 1 \in 0 .. k /\ (j # k + 1 => j \in 1 .. k) /\ j - 1 \in 0 .. k + 1 /\ j - 1 # k + 1
      OBVIOUS
    <3>2. h[j - 1] = g[j - 1]
      BY <3>1
    <3>3. CASE j = k + 1
      BY <3>1, <3>2, <3>3
    <3>4. CASE j # k + 1
      <4>1. g[j] = g[j - 1] \o seqs[j]
        BY <2>1, <3>1, <3>4
      <4> QED
        BY <3>1, <3>2, <3>4, <4>1
    <3> QED
      BY <3>3, <3>4
  <2>6. h[0] = <<>>
    BY <2>1
  <2> HIDE DEF h
  <2> QED
    BY <2>4, <2>5, <2>6
<1>3. T = Nat
  <2>1. T \in SUBSET Nat
    OBVIOUS
  <2> HIDE DEF T
  <2> QED
    BY <1>1, <1>2, <2>1, Induct
<1>4. PICK h \in [0 .. n -> Seq(S)] : Ok(h, n)
  <2>1. n <= n
    OBVIOUS
  <2> HIDE DEF Ok
  <2> QED
    BY <1>3, <2>1
<1>5. h[n] = FlattenSeq(seqs)
  <2>1. Len(seqs) = n
    BY DEF n
  <2>2. CASE n = 0
    <3>1. seqs = <<>>
      BY <2>2 DEF n
    <3> QED
      BY <1>4, <2>1, <2>2, <3>1 DEF FlattenSeq
  <2>3. CASE n # 0
    <3> DEFINE F(f) == [i \in 1 .. n |-> IF i = 1 THEN seqs[i] ELSE f[i - 1] \o seqs[i]]
               fl == CHOOSE f : f = F(f)
               w == [i \in 1 .. n |-> h[i]]
    <3>1. FlattenSeq(seqs) = fl[n]
      BY <2>1, <2>3 DEF FlattenSeq
    <3>2. w = F(w)
      <4>1. ASSUME NEW i \in 1 .. n PROVE w[i] = F(w)[i]
        <5>0. i \in 0 .. n /\ (i # 1 => i - 1 \in 1 .. n) /\ 1 - 1 = 0
          OBVIOUS
        <5>1. h[i] = h[i - 1] \o seqs[i] /\ seqs[i] \in Seq(S)
          BY <1>0, <1>4
        <5>2. CASE i = 1
          <6>1. h[i - 1] = <<>>
            BY <1>4, <5>0, <5>2
          <6> QED
            BY <5>1, <5>2, <6>1, ConcatEmptySeq
        <5>3. CASE i # 1
          BY <5>0, <5>1, <5>3
        <5> QED
          BY <5>2, <5>3
      <4> QED
        BY <4>1
    <3>3. fl = F(fl)
      <4> HIDE DEF F, w
      <4> QED
        BY <3>2
    <3> HIDE DEF fl
    <3> DEFINE U == {k \in Nat : k + 1 <= n => fl[k + 1] = h[k + 1]}
    <3>4. 0 \in U
      <4>1. 1 \in 1 .. n
        BY <2>3
      <4>2. fl[1] = seqs[1] /\ seqs[1] \in Seq(S)
        BY <1>0, <3>3, <4>1
      <4>3. h[1] = h[0] \o seqs[1]
        <5>1. 1 - 1 = 0
          OBVIOUS
        <5> QED
          BY <1>4, <4>1, <5>1
      <4>4. h[1] = seqs[1]
        BY <1>4, <4>2, <4>3, ConcatEmptySeq
      <4> QED
        BY <4>2, <4>4
    <3>5. ASSUME NEW k \in U PROVE k + 1 \in U
      <4> SUFFICES ASSUME k + 2 <= n PROVE fl[k + 2] = h[k + 2]
        OBVIOUS
      <4>1. k + 2 \in 1 .. n /\ k + 2 # 1 /\ (k + 2) - 1 = k + 1 /\ k + 1 <= n
        OBVIOUS
      <4>2. fl[k + 1] = h[k + 1]
        BY <4>1
      <4>3. fl[k + 2] = fl[k + 1] \o seqs[k + 2]
        BY <3>3, <4>1
      <4>4. h[k + 2] = h[k + 1] \o seqs[k + 2]
        BY <1>4, <4>1
      <4> QED
        BY <4>2, <4>3, <4>4
    <3>6. U = Nat
      <4>1. U \in SUBSET Nat
        OBVIOUS
      <4> HIDE DEF U
      <4> QED
        BY <3>4, <3>5, <4>1, Induct
    <3>7. n - 1 \in Nat /\ (n - 1) + 1 = n /\ n <= n
      BY <2>3
    <3> QED
      BY <3>1, <3>6, <3>7
  <2> QED
    BY <2>2, <2>3
<1>6. \A k \in 0 .. n : h[k] \in Seq(S)
  OBVIOUS
<1> QED
  BY <1>4, <1>5, <1>6 DEF n

\* What is in s \o t is in s or in t.
LEMMA ConcatAt ==
  ASSUME NEW S, NEW s \in Seq(S), NEW t \in Seq(S)
  PROVE  \A i \in DOMAIN (s \o t) :
           \/ i \in DOMAIN s /\ (s \o t)[i] = s[i]
           \/ \E j \in DOMAIN t : i = Len(s) + j /\ (s \o t)[i] = t[j]
<1> SUFFICES ASSUME NEW i \in DOMAIN (s \o t), i \notin DOMAIN s
             PROVE  \E j \in DOMAIN t : i = Len(s) + j /\ (s \o t)[i] = t[j]
  BY ConcatProperties
<1>1. /\ i \in 1 .. Len(s) + Len(t) /\ ~(i <= Len(s))
      /\ (s \o t)[i] = t[i - Len(s)]
      /\ Len(s) \in Nat /\ Len(t) \in Nat /\ DOMAIN t = 1 .. Len(t)
  BY ConcatProperties
<1>2. i - Len(s) \in DOMAIN t /\ i = Len(s) + (i - Len(s))
  BY <1>1
<1> QED
  BY <1>1, <1>2

\* Two lists without doubles and with nothing in common.
LEMMA ConcatInjective ==
  ASSUME NEW S, NEW s \in Seq(S), NEW t \in Seq(S), IsInjective(s), IsInjective(t),
         \A i \in DOMAIN s, j \in DOMAIN t : s[i] # t[j]
  PROVE  IsInjective(s \o t)
<1> SUFFICES ASSUME NEW i \in DOMAIN (s \o t), NEW j \in DOMAIN (s \o t), (s \o t)[i] = (s \o t)[j]
             PROVE  i = j
  BY DEF IsInjective
<1>1. \A k \in DOMAIN (s \o t) :
        \/ k \in DOMAIN s /\ (s \o t)[k] = s[k]
        \/ \E l \in DOMAIN t : k = Len(s) + l /\ (s \o t)[k] = t[l]
  BY ConcatAt
<1>2. CASE i \in DOMAIN s /\ (s \o t)[i] = s[i]
  <2>1. j \in DOMAIN s /\ (s \o t)[j] = s[j]
    BY <1>1, <1>2
  <2> QED
    BY <1>2, <2>1 DEF IsInjective
<1>3. CASE \E l \in DOMAIN t : i = Len(s) + l /\ (s \o t)[i] = t[l]
  <2>1. PICK l \in DOMAIN t : i = Len(s) + l /\ (s \o t)[i] = t[l]
    BY <1>3
  <2>2. PICK k \in DOMAIN t : j = Len(s) + k /\ (s \o t)[j] = t[k]
    BY <1>1, <2>1
  <2> QED
    BY <2>1, <2>2 DEF IsInjective
<1> QED
  BY <1>1, <1>2, <1>3

\* Any number of them.
LEMMA FlattenNames ==
  ASSUME NEW S, NEW seqs \in Seq(Seq(S))
  PROVE  /\ FlattenSeq(seqs) \in Seq(S)
         /\ \A i \in DOMAIN FlattenSeq(seqs) :
              \E k \in 1 .. Len(seqs) : \E j \in DOMAIN seqs[k] : FlattenSeq(seqs)[i] = seqs[k][j]
         /\ /\ \A k \in 1 .. Len(seqs) : IsInjective(seqs[k])
            /\ \A k, l \in 1 .. Len(seqs) : k # l =>
                 \A i \in DOMAIN seqs[k], j \in DOMAIN seqs[l] : seqs[k][i] # seqs[l][j]
            => IsInjective(FlattenSeq(seqs))
<1> DEFINE n == Len(seqs)
           Apart == /\ \A k \in 1 .. n : IsInjective(seqs[k])
                    /\ \A k, l \in 1 .. n : k # l =>
                         \A i \in DOMAIN seqs[k], j \in DOMAIN seqs[l] : seqs[k][i] # seqs[l][j]
           From(h, k) == \A i \in DOMAIN h[k] :
                           \E l \in 1 .. k : \E j \in DOMAIN seqs[l] : h[k][i] = seqs[l][j]
<1>n. n \in Nat /\ DOMAIN seqs = 1 .. n /\ \A k \in 1 .. n : seqs[k] \in Seq(S)
  OBVIOUS
<1>1. PICK h : /\ h[0] = <<>> /\ h[n] = FlattenSeq(seqs)
               /\ \A k \in 1 .. n : h[k] = h[k - 1] \o seqs[k]
               /\ \A k \in 0 .. n : h[k] \in Seq(S)
  BY FlattenSteps
<1> HIDE DEF n
<1> USE <1>n
<1> DEFINE T == {k \in Nat : k <= n => From(h, k) /\ (Apart => IsInjective(h[k]))}
<1>2. 0 \in T
  <2>1. DOMAIN h[0] = {}
    BY <1>1
  <2>2. From(h, 0) /\ IsInjective(h[0])
    BY <2>1 DEF IsInjective
  <2> HIDE DEF From, Apart
  <2> QED
    BY <2>2
<1>3. ASSUME NEW k \in T PROVE k + 1 \in T
  <2> SUFFICES ASSUME k + 1 <= n
               PROVE  From(h, k + 1) /\ (Apart => IsInjective(h[k + 1]))
    <3> HIDE DEF From, Apart
    <3> QED
      OBVIOUS
  <2>1. k \in Nat /\ k \in 0 .. n /\ k + 1 \in 1 .. n /\ (k + 1) - 1 = k /\ k <= n
    OBVIOUS
  <2>2. h[k + 1] = h[k] \o seqs[k + 1] /\ h[k] \in Seq(S) /\ seqs[k + 1] \in Seq(S)
    BY <1>1, <2>1
  <2>3. From(h, k) /\ (Apart => IsInjective(h[k]))
    <3> HIDE DEF From, Apart
    <3> QED
      BY <2>1
  <2>4. From(h, k + 1)
    <3> SUFFICES ASSUME NEW i \in DOMAIN h[k + 1]
                 PROVE  \E l \in 1 .. k + 1 : \E j \in DOMAIN seqs[l] : h[k + 1][i] = seqs[l][j]
      OBVIOUS
    <3>1. \/ i \in DOMAIN h[k] /\ h[k + 1][i] = h[k][i]
          \/ \E j \in DOMAIN seqs[k + 1] : h[k + 1][i] = seqs[k + 1][j]
      <4>1. PICK s, t : s = h[k] /\ t = seqs[k + 1]
        OBVIOUS
      <4>2. s \in Seq(S) /\ t \in Seq(S) /\ h[k + 1] = s \o t
        BY <2>2, <4>1
      <4>3. i \in DOMAIN (s \o t)
        BY <4>2, Zenon
      <4>4. \/ i \in DOMAIN s /\ (s \o t)[i] = s[i]
            \/ \E j \in DOMAIN t : (s \o t)[i] = t[j]
        BY <4>2, <4>3, ConcatAt, SMTT(40)
      <4> QED
        BY <4>1, <4>2, <4>4
    <3>2. CASE i \in DOMAIN h[k] /\ h[k + 1][i] = h[k][i]
      <4>1. \E l \in 1 .. k : \E j \in DOMAIN seqs[l] : h[k][i] = seqs[l][j]
        BY <2>3, <3>2
      <4>2. 1 .. k \subseteq 1 .. k + 1
        BY <2>1
      <4> QED
        BY <3>2, <4>1, <4>2
    <3>3. CASE \E j \in DOMAIN seqs[k + 1] : h[k + 1][i] = seqs[k + 1][j]
      <4>1. k + 1 \in 1 .. k + 1
        BY <2>1
      <4> QED
        BY <3>3, <4>1
    <3> QED
      BY <3>1, <3>2, <3>3
  <2>5. ASSUME Apart PROVE IsInjective(h[k + 1])
    <3>1. \A i \in DOMAIN h[k], j \in DOMAIN seqs[k + 1] : h[k][i] # seqs[k + 1][j]
      <4> SUFFICES ASSUME NEW i \in DOMAIN h[k], NEW j \in DOMAIN seqs[k + 1]
                   PROVE  h[k][i] # seqs[k + 1][j]
        OBVIOUS
      <4>1. PICK l \in 1 .. k : \E x \in DOMAIN seqs[l] : h[k][i] = seqs[l][x]
        BY <2>3, Zenon
      <4>2. l \in 1 .. n /\ l # k + 1
        BY <2>1
      <4>3. \A x \in DOMAIN seqs[l] : seqs[l][x] # seqs[k + 1][j]
        BY <2>1, <2>5, <4>2
      <4> QED
        BY <4>1, <4>3
    <3>2. IsInjective(h[k]) /\ IsInjective(seqs[k + 1])
      BY <2>1, <2>3, <2>5
    <3> QED
      BY <2>2, <3>1, <3>2, ConcatInjective
  <2> QED
    BY <2>4, <2>5
<1>4. T = Nat
  <2>1. T \in SUBSET Nat
    OBVIOUS
  <2> HIDE DEF T
  <2> QED
    BY <1>2, <1>3, <2>1, Induct
<1>5. From(h, n) /\ (Apart => IsInjective(h[n]))
  <2>1. n \in T /\ n <= n
    BY <1>4
  <2> HIDE DEF From, Apart
  <2> QED
    BY <2>1
<1>6. FlattenSeq(seqs) = h[n] /\ h[n] \in Seq(S)
  <2>1. n \in 0 .. n
    OBVIOUS
  <2> QED
    BY <1>1, <2>1
<1> QED
  BY <1>5, <1>6 DEF n

\* The list of channels of a parser.
LEMMA DumpNames ==
  ASSUME NEW p, known[p] \in SUBSET Muxes
  PROVE  /\ xine_dump(p) \in Seq(DOMAIN Events) /\ IsInjective(xine_dump(p))
         /\ \A i \in DOMAIN xine_dump(p) : \E m \in known[p] : xine_dump(p)[i] \in Range(Channels[m])
<1> DEFINE n == Cardinality(known[p])
           seqs == [i \in DOMAIN InOrder(p) |-> Channels[InOrder(p)[i]]]
<1>1. n \in Nat /\ InOrder(p) \in [1 .. n -> known[p]]
      /\ \A i, j \in 1 .. n : i < j => InOrder(p)[i] < InOrder(p)[j]
  <2>1. known[p] \in SUBSET Nat /\ IsFiniteSet(known[p])
    BY ReplyAssumption, FS_Subset DEF ReplyAssumption
  <2>2. n \in Nat
    BY <2>1, FS_CardinalityType
  <2> QED
    BY <2>1, <2>2, Ascends DEF InOrder
<1> HIDE DEF n
<1>2. /\ Len(seqs) = n /\ seqs \in Seq(Seq(DOMAIN Events))
      /\ \A k \in 1 .. n : seqs[k] = Channels[InOrder(p)[k]] /\ InOrder(p)[k] \in known[p]
  <2>1. DOMAIN seqs = 1 .. n
    BY <1>1
  <2>2. ASSUME NEW k \in 1 .. n
        PROVE  seqs[k] = Channels[InOrder(p)[k]] /\ InOrder(p)[k] \in known[p] /\ seqs[k] \in Seq(DOMAIN Events)
    BY <1>1, <2>1, ReplyAssumption DEF ReplyAssumption
  <2>3. seqs = [k \in 1 .. n |-> seqs[k]]
    BY <2>1
  <2> HIDE DEF seqs
  <2>4. seqs \in [1 .. n -> Seq(DOMAIN Events)]
    BY <2>1, <2>2, <2>3
  <2> QED
    BY <1>1, <2>1, <2>2, <2>4
<1>3. \A k \in 1 .. n : IsInjective(seqs[k])
  BY <1>2, ReplyAssumption DEF ReplyAssumption
<1>4. ASSUME NEW k \in 1 .. n, NEW l \in 1 .. n, k # l,
             NEW i \in DOMAIN seqs[k], NEW j \in DOMAIN seqs[l]
      PROVE  seqs[k][i] # seqs[l][j]
  <2>1. InOrder(p)[k] # InOrder(p)[l]
    <3>1. k < l \/ l < k
      BY <1>1, <1>4
    <3>2. InOrder(p)[k] \in Nat /\ InOrder(p)[l] \in Nat
      BY <1>2, ReplyAssumption DEF ReplyAssumption
    <3> QED
      BY <1>1, <3>1, <3>2
  <2>2. Range(seqs[k]) \cap Range(seqs[l]) = {}
    BY <1>2, <2>1, ReplyAssumption DEF ReplyAssumption
  <2> QED
    BY <2>2 DEF Range
<1>5. xine_dump(p) = FlattenSeq(seqs)
  BY DEF xine_dump
<1> HIDE DEF seqs
<1>6. /\ FlattenSeq(seqs) \in Seq(DOMAIN Events) /\ IsInjective(FlattenSeq(seqs))
      /\ \A i \in DOMAIN FlattenSeq(seqs) :
           \E k \in 1 .. n : \E j \in DOMAIN seqs[k] : FlattenSeq(seqs)[i] = seqs[k][j]
  BY <1>1, <1>2, <1>3, <1>4, FlattenNames
<1>7. ASSUME NEW i \in DOMAIN FlattenSeq(seqs)
      PROVE  \E m \in known[p] : FlattenSeq(seqs)[i] \in Range(Channels[m])
  <2>1. PICK k \in 1 .. n : \E j \in DOMAIN seqs[k] : FlattenSeq(seqs)[i] = seqs[k][j]
    BY <1>6, Zenon
  <2>2. FlattenSeq(seqs)[i] \in Range(Channels[InOrder(p)[k]])
    BY <1>2, <2>1 DEF Range
  <2> QED
    BY <1>2, <2>2
<1> QED
  BY <1>5, <1>6, <1>7

-----------------------------------------------------------------------------
(* No list names a channel twice.                                          *)

\* The names are those of channels that parser p knows.
Named(names, p) == \A i \in DOMAIN names : \E m \in known[p] : names[i] \in Range(Channels[m])

\* A list that is begun names only channels of the tuner, and the thread that
\* goes on with it still has that tuner.
NamesInv ==
  /\ config \in Configs
  /\ known \in [Parsers -> SUBSET Muxes]
  /\ DOMAIN client = {"tuner", "feeder", "fmt", "started", "newchannel"}
  /\ client.tuner \in {NULL, Tuner(0)}
  /\ DOMAIN thread = {"at", "http"}
  /\ At("channels") \/ At("xmltv") \/ At("save") => client.tuner # NULL
  /\ file \in Seq(DOMAIN Events) /\ IsInjective(file)
  /\ listed \in Seq(DOMAIN Events) /\ IsInjective(listed)
  /\ At("channels") \/ At("xmltv") => Named(listed, client.tuner)

\* A channel that is loaded is none that was listed.
LEMMA RemainingNames ==
  ASSUME NamesInv, client.tuner # NULL
  PROVE  /\ Remaining \in Seq(DOMAIN Events) /\ IsInjective(Remaining)
         /\ \A i \in DOMAIN Remaining : \A m \in known[client.tuner] : Remaining[i] \notin Range(Channels[m])
<1> DEFINE n == Cardinality(Unseen)
<1>1. Unseen \in SUBSET (1 .. Len(file)) /\ Len(file) \in Nat /\ DOMAIN file = 1 .. Len(file)
  BY DEF NamesInv, Unseen
<1>2. Unseen \in SUBSET Nat
  BY <1>1
<1>3. IsFiniteSet(Unseen)
  <2>1. IsFiniteSet(1 .. Len(file))
    BY <1>1, FS_Interval
  <2> QED
    BY <1>1, <2>1, FS_Subset
<1>4. n \in Nat
  BY <1>3, FS_CardinalityType
<1>5. Ascending(Unseen) \in [1 .. n -> Unseen]
      /\ \A i, j \in DOMAIN Ascending(Unseen) : i < j => Ascending(Unseen)[i] < Ascending(Unseen)[j]
  BY <1>2, <1>3, Ascends
<1> HIDE DEF n
<1>6. DOMAIN Remaining = 1 .. n
  BY <1>5 DEF Remaining
<1>7. ASSUME NEW i \in 1 .. n
      PROVE  Remaining[i] = file[Ascending(Unseen)[i]] /\ Ascending(Unseen)[i] \in Unseen
  BY <1>5, <1>7 DEF Remaining
<1>8. ASSUME NEW i \in 1 .. n, NEW j \in 1 .. n, i < j PROVE Remaining[i] # Remaining[j]
  <2> DEFINE a == Ascending(Unseen)[i]
             b == Ascending(Unseen)[j]
  <2>1. a < b
    <3>1. i \in DOMAIN Ascending(Unseen) /\ j \in DOMAIN Ascending(Unseen)
      BY <1>5
    <3> QED
      BY <1>5, <1>8, <3>1
  <2>2. a \in DOMAIN file /\ b \in DOMAIN file /\ a # b
    <3>1. a \in Unseen /\ b \in Unseen
      BY <1>7
    <3> HIDE DEF a, b
    <3>2. a \in DOMAIN file /\ b \in DOMAIN file /\ a \in Int /\ b \in Int
      BY <1>1, <3>1
    <3> QED
      BY <2>1, <3>2
  <2>3. file[a] # file[b]
    BY <2>2 DEF NamesInv, IsInjective
  <2> QED
    BY <1>7, <2>3
<1>9. IsInjective(Remaining)
  <2>1. \A i, j \in 1 .. n : i # j => i < j \/ j < i
    BY <1>4
  <2> QED
    BY <1>6, <1>8, <2>1 DEF IsInjective
<1>10. ASSUME NEW i \in 1 .. n
       PROVE  /\ Remaining[i] \in DOMAIN Events
              /\ \A m \in known[client.tuner] : Remaining[i] \notin Range(Channels[m])
  <2>1. Ascending(Unseen)[i] \in DOMAIN file
    BY <1>1, <1>7
  <2>2. file[Ascending(Unseen)[i]] \in DOMAIN Events
    BY <2>1 DEF NamesInv
  <2> QED
    BY <1>7, <2>2 DEF Unseen
<1>11. Remaining \in Seq(DOMAIN Events)
  <2>1. Remaining = [i \in 1 .. n |-> Remaining[i]]
    BY <1>6 DEF Remaining
  <2>2. Remaining \in [1 .. n -> DOMAIN Events]
    BY <1>10, <2>1
  <2> QED
    BY <1>4, <2>2
<1> QED
  BY <1>6, <1>9, <1>10, <1>11

\* So a list and what is loaded after it have nothing in common.
LEMMA LoadNames ==
  ASSUME NamesInv, At("channels") \/ At("xmltv")
  PROVE  listed \o Remaining \in Seq(DOMAIN Events) /\ IsInjective(listed \o Remaining)
<1>1. client.tuner # NULL
  BY DEF NamesInv
<1>2. ASSUME NEW i \in DOMAIN listed, NEW j \in DOMAIN Remaining PROVE listed[i] # Remaining[j]
  <2>1. PICK m \in known[client.tuner] : listed[i] \in Range(Channels[m])
    BY DEF NamesInv, Named
  <2> QED
    BY <1>1, <2>1, RemainingNames
<1>3. /\ listed \in Seq(DOMAIN Events) /\ IsInjective(listed)
      /\ Remaining \in Seq(DOMAIN Events) /\ IsInjective(Remaining)
  BY <1>1, RemainingNames DEF NamesInv
<1> QED
  BY <1>2, <1>3, ConcatInjective, ConcatProperties

\* NamesInv is inductive.
LEMMA InitNames == Init => NamesInv
  BY DEF Init, NamesInv, NewClient, NewThread, At, IsInjective, Parsers

\* What a command finds.
LEMMA DefaultNames ==
  ASSUME NamesInv
  PROVE  /\ DOMAIN Default = {"tuner", "feeder", "fmt", "started", "newchannel"}
         /\ Default.tuner \in {NULL, Tuner(0)}
<1> USE DEF NamesInv
<1>1. CASE client.feeder # NULL
  BY <1>1 DEF Default
<1>2. CASE client.feeder = NULL /\ client.tuner # NULL
  BY <1>2 DEF Default
<1>3. CASE client.feeder = NULL /\ client.tuner = NULL /\ 0 \in config.tuners
  BY <1>3 DEF Default
<1>4. CASE client.feeder = NULL /\ client.tuner = NULL /\ config.tuners = {} /\ 0 \in config.feeders
  BY <1>4 DEF Default
<1>5. CASE client.feeder = NULL /\ client.tuner = NULL /\ 0 \notin config.tuners
             /\ ~(config.tuners = {} /\ 0 \in config.feeders)
  BY <1>5 DEF Default
<1> QED
  BY <1>1, <1>2, <1>3, <1>4, <1>5

\* A command that runs; its own duty is the lists and the tuner it leaves.
LEMMA RunKeepsNames ==
  ASSUME NamesInv, NEW c, NEW text, NEW next, Run(c, text, next),
         DOMAIN c = {"tuner", "feeder", "fmt", "started", "newchannel"}, c.tuner \in {NULL, Tuner(0)},
         next \in {"channels", "xmltv", "save"} => c.tuner # NULL,
         file' \in Seq(DOMAIN Events) /\ IsInjective(file'),
         listed' \in Seq(DOMAIN Events) /\ IsInjective(listed'),
         next \in {"channels", "xmltv"} => Named(listed', c.tuner)
  PROVE  NamesInv'
<1>1. /\ client' = c /\ thread' = [thread EXCEPT !.at = next]
      /\ UNCHANGED <<config, known>>
  BY DEF Run
<1>2. thread'.at = next /\ DOMAIN thread' = {"at", "http"}
  BY <1>1 DEF NamesInv
<1>3. At(next)' /\ \A at : At(at)' => at = next
  BY <1>2 DEF At
<1>4. next \in {"channels", "xmltv"} => Named(listed, client.tuner)'
  BY <1>1 DEF Named
<1> QED
  BY <1>1, <1>2, <1>3, <1>4 DEF NamesInv

\* One step for each action.
LEMMA StepKeepsNames == NamesInv /\ [Next]_vars => NamesInv'
<1> SUFFICES ASSUME NamesInv, [Next]_vars PROVE NamesInv'
  OBVIOUS
<1> DEFINE Fields == {"tuner", "feeder", "fmt", "started", "newchannel"}
<1>1. /\ config \in Configs /\ known \in [Parsers -> SUBSET Muxes]
      /\ DOMAIN client = Fields /\ client.tuner \in {NULL, Tuner(0)} /\ DOMAIN thread = {"at", "http"}
      /\ file \in Seq(DOMAIN Events) /\ IsInjective(file)
      /\ listed \in Seq(DOMAIN Events) /\ IsInjective(listed)
  BY DEF NamesInv
<1>2. <<>> \in Seq(DOMAIN Events) /\ IsInjective(<<>>)
  BY DEF IsInjective
<1>3. DOMAIN Default = Fields /\ Default.tuner \in {NULL, Tuner(0)}
  BY DefaultNames
<1>4. \A p \in Parsers :
        /\ xine_dump(p) \in Seq(DOMAIN Events) /\ IsInjective(xine_dump(p))
        /\ Named(xine_dump(p), p)
  <2> SUFFICES ASSUME NEW p \in Parsers
               PROVE  /\ xine_dump(p) \in Seq(DOMAIN Events) /\ IsInjective(xine_dump(p))
                      /\ Named(xine_dump(p), p)
    OBVIOUS
  <2>1. known[p] \in SUBSET Muxes
    BY <1>1
  <2> QED
    BY <2>1, DumpNames DEF Named
<1>5. Tuner(0) \in Parsers
  BY DEF Parsers
<1>6. CASE Connection
  <2>1. /\ UNCHANGED <<config, known, file>>
        /\ listed' = <<>> \/ listed' = listed
    BY <1>6 DEF Connection, Get, Line, HeadOnly, NoCli, HangsUp, Finish, Close, Request, historyVars
  <2>2. DOMAIN client' = Fields /\ client'.tuner \in {NULL, Tuner(0)}
    <3>1. \/ client' = NewClient \/ client' = client
          \/ \E f : client' = [client EXCEPT !.fmt = f, !.started = FALSE, !.newchannel = FALSE]
      BY <1>6 DEF Connection, Get, Line, HeadOnly, NoCli, HangsUp, Finish, Close, Request
    <3>2. CASE client' = NewClient
      BY <3>2 DEF NewClient
    <3>3. ASSUME NEW f, client' = [client EXCEPT !.fmt = f, !.started = FALSE, !.newchannel = FALSE]
          PROVE  DOMAIN client' = Fields /\ client'.tuner \in {NULL, Tuner(0)}
      BY <1>1, <3>3
    <3> QED
      BY <1>1, <3>1, <3>2, <3>3
  <2>3. DOMAIN thread' = {"at", "http"} /\ thread'.at \in {"recv", "command", "end"}
    <3>1. \/ thread' = NewThread
          \/ \E at \in {"recv", "command", "end"} :
               thread' = [thread EXCEPT !.at = at] \/ \E http : thread' = [at |-> at, http |-> http]
      BY <1>6 DEF Connection, Get, Line, HeadOnly, NoCli, HangsUp, Finish, Close, Request
    <3> QED
      BY <1>1, <3>1 DEF NewThread
  <2> QED
    BY <1>1, <1>2, <2>1, <2>2, <2>3 DEF NamesInv, At
<1>7. ASSUME NEW i \in Ids, SelectTuner(i) \/ SelectFeeder(i) PROVE NamesInv'
  <2> DEFINE found == i \in config.tuners
             t == [client EXCEPT !.tuner = IF found THEN Tuner(i) ELSE NULL, !.feeder = IF found THEN Tuner(i) ELSE @]
             f == [client EXCEPT !.feeder = IF i \in config.feeders THEN Feeder(i) ELSE NULL,
                                 !.tuner = IF i \in config.feeders THEN NULL ELSE @]
  <2>1. i \in config.tuners => i = 0
    BY <1>1, ReplyAssumption DEF ReplyAssumption
  <2>2. /\ DOMAIN t = Fields /\ t.tuner \in {NULL, Tuner(0)}
        /\ DOMAIN f = Fields /\ f.tuner \in {NULL, Tuner(0)}
    BY <1>1, <2>1
  <2>3. (Run(t, <<>>, "command") \/ Run(f, <<>>, "command")) /\ file' = file /\ listed' = listed
    BY <1>7 DEF SelectTuner, SelectFeeder, Keeps, historyVars
  <2> HIDE DEF t, f
  <2> QED
    BY <1>1, <2>2, <2>3, RunKeepsNames
<1>8. CASE Fails \/ Works \/ Video \/ Scan
  <2>1. \E text : \E next \in {"failed", "command"} : Run(Default, text, next)
    BY <1>8 DEF Fails, Works, Video, Scan
  <2>2. file' = file /\ listed' = listed
    BY <1>8 DEF Fails, Works, Video, Scan, Keeps, historyVars
  <2> QED
    BY <1>1, <1>3, <2>1, <2>2, RunKeepsNames
<1>9. ASSUME NEW cmd \in {"channels", "xmltv"}, List(cmd) PROVE NamesInv'
  <2>1. /\ \E text : Run(Default, text, cmd)
        /\ listed' = xine_dump(Default.tuner) /\ file' = file /\ Default.tuner # NULL
    BY <1>9 DEF List
  <2>2. Default.tuner \in Parsers
    BY <1>3, <1>5, <2>1
  <2>3. listed' \in Seq(DOMAIN Events) /\ IsInjective(listed') /\ Named(listed', Default.tuner)
    BY <1>4, <2>1, <2>2
  <2>4. file' \in Seq(DOMAIN Events) /\ IsInjective(file')
    BY <1>1, <2>1
  <2>5. PICK text : Run(Default, text, cmd)
    BY <2>1
  <2> QED
    BY <1>3, <2>1, <2>3, <2>4, <2>5, RunKeepsNames
<1>10. CASE Load
  <2>1. /\ listed' = listed \o Remaining /\ UNCHANGED <<config, known, file, client>>
        /\ At("channels") \/ At("xmltv")
        /\ thread' = [thread EXCEPT !.at = IF At("xmltv") THEN "epg" ELSE "command"]
    BY <1>10 DEF Load
  <2>2. listed' \in Seq(DOMAIN Events) /\ IsInjective(listed')
    BY <2>1, LoadNames
  <2>3. DOMAIN thread' = {"at", "http"} /\ thread'.at \in {"epg", "command"}
    BY <1>1, <2>1
  <2> QED
    BY <1>1, <2>1, <2>2, <2>3 DEF NamesInv, At
<1>11. CASE XmltvGuide
  <2>1. /\ UNCHANGED <<config, known, file, listed>>
        /\ thread' = [thread EXCEPT !.at = "command"]
        /\ client' = Told(client, epg_dump(Out, client.feeder))
    BY <1>11 DEF XmltvGuide, historyVars
  <2>2. DOMAIN thread' = {"at", "http"} /\ thread'.at = "command"
    BY <1>1, <2>1
  <2>3. DOMAIN client' = Fields /\ client'.tuner \in {NULL, Tuner(0)}
    BY <1>1, <2>1 DEF Told
  <2> QED
    BY <1>1, <2>1, <2>2, <2>3 DEF NamesInv, At
<1>12. CASE Epg
  <2>1. /\ file' = file /\ listed' = listed
        /\ \E text : Run(Told(Default, epg_dump(Out, Default.feeder)), text, "command")
    BY <1>12 DEF Epg, Keeps, historyVars
  <2> DEFINE c == Told(Default, epg_dump(Out, Default.feeder))
  <2>2. DOMAIN c = Fields /\ c.tuner \in {NULL, Tuner(0)}
    BY <1>3 DEF Told
  <2> HIDE DEF c
  <2>3. PICK text : Run(c, text, "command")
    BY <2>1 DEF c
  <2> QED
    BY <1>1, <2>1, <2>2, <2>3, RunKeepsNames
<1>13. ASSUME NEW m \in Muxes, Info(m) PROVE NamesInv'
  <2>1. \E out, text : Run([Default EXCEPT !.started = FALSE, !.newchannel = out.newchannel], text, "command")
    BY <1>13, InfoRuns
  <2>2. PICK n, text : Run([Default EXCEPT !.started = FALSE, !.newchannel = n], text, "command")
    BY <2>1
  <2> DEFINE c == [Default EXCEPT !.started = FALSE, !.newchannel = n]
  <2>3. DOMAIN c = Fields /\ c.tuner \in {NULL, Tuner(0)}
    BY <1>3
  <2> HIDE DEF c
  <2>4. Run(c, text, "command")
    BY <2>2 DEF c
  <2>5. file' = file /\ listed' = listed
    BY <1>13 DEF Info, Keeps, historyVars
  <2> QED
    BY <1>1, <2>3, <2>4, <2>5, RunKeepsNames
<1>14. CASE Save
  <2>1. /\ Default.tuner # NULL /\ Run(Default, <<>>, "save")
        /\ file' = <<>> /\ listed' = listed
    BY <1>14 DEF Save, historyVars
  <2> QED
    BY <1>1, <1>2, <1>3, <2>1, RunKeepsNames
<1>15. CASE Saved
  <2>1. /\ At("save") /\ file' = xine_dump(client.tuner)
        /\ thread' = [thread EXCEPT !.at = "command"]
        /\ UNCHANGED <<config, known, client, listed>>
    BY <1>15 DEF Saved, historyVars
  <2>2. client.tuner = Tuner(0)
    BY <2>1 DEF NamesInv
  <2>3. file' \in Seq(DOMAIN Events) /\ IsInjective(file')
    BY <1>4, <1>5, <2>1, <2>2
  <2>4. DOMAIN thread' = {"at", "http"} /\ thread'.at = "command"
    BY <1>1, <2>1
  <2> QED
    BY <1>1, <2>1, <2>3, <2>4 DEF NamesInv, At
<1>16. CASE Quit
  <2>1. /\ file' = file /\ listed' = listed
        /\ \E f : Run([Default EXCEPT !.fmt = f], <<>>, "command")
    BY <1>16 DEF Quit
  <2>2. PICK f : Run([Default EXCEPT !.fmt = f], <<>>, "command")
    BY <2>1
  <2> DEFINE c == [Default EXCEPT !.fmt = f]
  <2>3. DOMAIN c = Fields /\ c.tuner \in {NULL, Tuner(0)}
    BY <1>3
  <2> HIDE DEF c
  <2>4. Run(c, <<>>, "command")
    BY <2>2 DEF c
  <2> QED
    BY <1>1, <2>1, <2>3, <2>4, RunKeepsNames
<1>17. ASSUME NEW p \in Parsers, NEW m \in Muxes, Learn(p, m) PROVE NamesInv'
  <2>1. /\ known' = [known EXCEPT ![p] = @ \cup {m}]
        /\ UNCHANGED <<config, file, client, thread, listed>>
    BY <1>17 DEF Learn, historyVars
  <2>2. known' \in [Parsers -> SUBSET Muxes] /\ \A q \in Parsers : known[q] \subseteq known'[q]
    BY <1>1, <2>1
  <2>3. At("channels") \/ At("xmltv") => client.tuner \in Parsers
    BY <1>5 DEF NamesInv
  <2>4. (At("channels") \/ At("xmltv") => Named(listed, client.tuner))'
    BY <2>1, <2>2, <2>3 DEF NamesInv, Named, At
  <2> QED
    BY <2>1, <2>2, <2>4 DEF NamesInv, At
<1>18. CASE Crash
  <2>1. /\ UNCHANGED <<config, file>> /\ client' = NewClient /\ thread' = NewThread
        /\ known' = [p \in Parsers |-> {}] /\ listed' = <<>>
    BY <1>18 DEF Crash
  <2> QED
    BY <1>1, <1>2, <2>1 DEF NamesInv, NewClient, NewThread, At
<1>19. CASE UNCHANGED vars
  BY <1>19 DEF vars, NamesInv, Named, At
<1> QED
  BY <1>6, <1>7, <1>8, <1>9, <1>10, <1>11, <1>12, <1>13, <1>14, <1>15, <1>16, <1>17, <1>18, <1>19
     DEF Next, Command

\* And so it always holds.
LEMMA NamesInvariant == Spec => []NamesInv
  BY InitNames, StepKeepsNames, PTL DEF Spec

\* The list of channels names none twice, while a scan goes on and after a restart
\* (serve.cpp: cmd_tuner_channels, cmd_config_channels_conf_load, __command).
THEOREM NothingListedTwice == Spec => []NoneTwice
<1>1. NamesInv => NoneTwice
  BY DEF NamesInv, NoneTwice
<1> QED
  BY <1>1, NamesInvariant, PTL

-----------------------------------------------------------------------------
(* Nesting: what a text opens and shuts.                                   *)

\* Nothing, ...
LEMMA NestedEmpty ==
  ASSUME NEW o
  PROVE  Nested(o, <<>>) = o
<1>1. PICK s : s = <<>>
  OBVIOUS
<1>2. s \in Seq({})
  BY <1>1
<1>3. PICK h : /\ h[0] = o /\ h[Len(s)] = Nested(o, s)
               /\ \A k \in 1 .. Len(s) : h[k] = Nest(h[k - 1], s[k])
  BY <1>2, NestedSteps
<1> QED
  BY <1>1, <1>3

\* ... one token ...
LEMMA NestedOne ==
  ASSUME NEW o, NEW x
  PROVE  Nested(o, <<x>>) = Nest(o, x)
<1>1. PICK s : s = <<x>>
  OBVIOUS
<1>2. s \in Seq({x}) /\ Len(s) = 1 /\ s[1] = x
  BY <1>1
<1>3. PICK h : /\ h[0] = o /\ h[Len(s)] = Nested(o, s)
               /\ \A k \in 1 .. Len(s) : h[k] = Nest(h[k - 1], s[k])
  BY <1>2, NestedSteps
<1>4. 1 \in 1 .. Len(s) /\ 1 - 1 = 0
  BY <1>2
<1>5. h[1] = Nest(h[1 - 1], s[1])
  BY <1>3, <1>4
<1> QED
  BY <1>1, <1>2, <1>3, <1>4, <1>5

\* ... and two texts in turn.
LEMMA NestedConcat ==
  ASSUME NEW o, NEW S, NEW s \in Seq(S), NEW t \in Seq(S)
  PROVE  Nested(o, s \o t) = Nested(Nested(o, s), t)
<1> DEFINE m == Len(s)
           n == Len(t)
<1>0. PICK u : u = s \o t
  OBVIOUS
<1>1. /\ m \in Nat /\ n \in Nat /\ u \in Seq(S) /\ Len(u) = m + n
      /\ \A k \in 1 .. m : u[k] = s[k]
      /\ \A k \in 1 .. n : u[m + k] = t[k]
  <2>1. \A k \in 1 .. n : u[m + k] = t[k]
    <3> SUFFICES ASSUME NEW k \in 1 .. n PROVE u[m + k] = t[k]
      OBVIOUS
    <3>1. m + k \in 1 .. m + n /\ ~(m + k <= m) /\ (m + k) - m = k
      OBVIOUS
    <3> QED
      BY <1>0, <3>1, ConcatProperties
  <2> QED
    BY <1>0, <2>1, ConcatProperties
<1>2. PICK f : /\ f[0] = o /\ f[m] = Nested(o, s)
               /\ \A k \in 1 .. m : f[k] = Nest(f[k - 1], s[k])
  BY NestedSteps
<1>3. PICK g : /\ g[0] = Nested(o, s) /\ g[n] = Nested(Nested(o, s), t)
               /\ \A k \in 1 .. n : g[k] = Nest(g[k - 1], t[k])
  BY NestedSteps, SMTT(40)
<1>4. PICK h : /\ h[0] = o /\ h[Len(u)] = Nested(o, u)
               /\ \A k \in 1 .. Len(u) : h[k] = Nest(h[k - 1], u[k])
  <2>1. u \in Seq(S)
    BY <1>1
  <2> QED
    BY <2>1, NestedSteps
<1> HIDE DEF m, n
<1> DEFINE T == {k \in Nat : k <= m => h[k] = f[k]}
           U == {k \in Nat : k <= n => h[m + k] = g[k]}
<1>5. T = Nat
  <2>1. 0 \in T
    BY <1>2, <1>4
  <2>2. ASSUME NEW k \in T PROVE k + 1 \in T
    <3> SUFFICES ASSUME k + 1 <= m PROVE h[k + 1] = f[k + 1]
      OBVIOUS
    <3>1. k + 1 \in 1 .. m /\ k + 1 \in 1 .. Len(u) /\ (k + 1) - 1 = k /\ k <= m
      BY <1>1
    <3>2. h[k] = f[k]
      BY <3>1
    <3>3. h[k + 1] = Nest(h[k], u[k + 1])
      BY <1>4, <3>1
    <3>4. f[k + 1] = Nest(f[k], s[k + 1])
      BY <1>2, <3>1
    <3> QED
      BY <1>1, <3>1, <3>2, <3>3, <3>4
  <2>3. T \in SUBSET Nat
    OBVIOUS
  <2> HIDE DEF T
  <2> QED
    BY <2>1, <2>2, <2>3, Induct
<1>6. U = Nat
  <2>1. 0 \in U
    <3>1. h[m] = f[m]
      <4>1. m \in T /\ m <= m
        BY <1>1, <1>5, SMTT(40)
      <4> QED
        BY <4>1
    <3>2. m + 0 = m /\ h[m] = g[0]
      BY <1>1, <1>2, <1>3, <3>1
    <3> QED
      BY <3>2
  <2>2. ASSUME NEW k \in U PROVE k + 1 \in U
    <3> SUFFICES ASSUME k + 1 <= n PROVE h[m + (k + 1)] = g[k + 1]
      OBVIOUS
    <3>1. /\ k + 1 \in 1 .. n /\ (k + 1) - 1 = k /\ k <= n
          /\ m + (k + 1) \in 1 .. Len(u) /\ (m + (k + 1)) - 1 = m + k
      BY <1>1
    <3>2. h[m + k] = g[k]
      BY <3>1
    <3>3. h[m + (k + 1)] = Nest(h[m + k], u[m + (k + 1)])
      BY <1>4, <3>1
    <3>4. g[k + 1] = Nest(g[k], t[k + 1])
      BY <1>3, <3>1
    <3> QED
      BY <1>1, <3>1, <3>2, <3>3, <3>4
  <2>3. U \in SUBSET Nat
    OBVIOUS
  <2> HIDE DEF U
  <2> QED
    BY <2>1, <2>2, <2>3, Induct
<1>7. h[m + n] = g[n]
  <2>1. n \in Nat /\ n <= n
    BY <1>1
  <2>2. n \in U
    <3> HIDE DEF U
    <3> QED
      BY <1>6, <2>1
  <2> QED
    BY <2>1, <2>2
<1> QED
  BY <1>0, <1>1, <1>3, <1>4, <1>7

\* A text that leaves open what was, inside something or anywhere.
Inside(t) == \A o \in Seq(Words) \ {<<>>} : Nested(o, t) = o
Whole(t) == \A o \in Seq(Words) : Nested(o, t) = o

\* What was opened last is what is shut first.
LEMMA FrontOfAppend ==
  ASSUME NEW S, NEW s \in Seq(S), NEW x \in S
  PROVE  Last(Append(s, x)) = x /\ Front(Append(s, x)) = s
<1> DEFINE a == Append(s, x)
<1>1. /\ a \in Seq(S) /\ Len(a) = Len(s) + 1 /\ Len(s) \in Nat
      /\ \A i \in 1 .. Len(s) : a[i] = s[i]
      /\ a[Len(s) + 1] = x
  BY AppendProperties
<1> HIDE DEF a
<1>2. Front(a) = s
  <2>1. 1 \in 1 .. Len(a) + 1 /\ Len(s) \in 0 .. Len(a) /\ Len(a) - 1 = Len(s)
    BY <1>1
  <2>2. /\ SubSeq(a, 1, Len(s)) \in Seq(S)
        /\ Len(SubSeq(a, 1, Len(s))) = IF 1 <= Len(s) THEN Len(s) - 1 + 1 ELSE 0
        /\ \A i \in 1 .. Len(s) - 1 + 1 : SubSeq(a, 1, Len(s))[i] = a[1 + i - 1]
    BY <1>1, <2>1, SubSeqProperties
  <2>3. Len(SubSeq(a, 1, Len(s))) = Len(s)
    BY <1>1, <2>2
  <2>4. \A i \in 1 .. Len(s) : SubSeq(a, 1, Len(s))[i] = s[i]
    <3> SUFFICES ASSUME NEW i \in 1 .. Len(s) PROVE SubSeq(a, 1, Len(s))[i] = s[i]
      OBVIOUS
    <3>1. i \in 1 .. Len(s) - 1 + 1 /\ 1 + i - 1 = i
      BY <1>1
    <3> QED
      BY <1>1, <2>2, <3>1
  <2> QED
    BY <2>1, <2>2, <2>3, <2>4, SeqEqual DEF Front
<1> QED
  BY <1>1, <1>2 DEF Last, a

\* A text that opens and shuts nothing.
LEMMA QuietNested ==
  ASSUME NEW o, NEW S, NEW t \in Seq(S),
         \A i \in 1 .. Len(t) : \/ t[i].is \in {"name", "channel", "video"}
                                \/ t[i].is = "event" /\ o # <<>>
  PROVE  Nested(o, t) = o
<1>1. PICK h : /\ h[0] = o /\ h[Len(t)] = Nested(o, t)
               /\ \A k \in 1 .. Len(t) : h[k] = Nest(h[k - 1], t[k])
  BY NestedSteps
<1> DEFINE n == Len(t)
<1>2. n \in Nat
  OBVIOUS
<1>3. \A k \in 1 .. n : Nest(o, t[k]) = o
  <2> SUFFICES ASSUME NEW k \in 1 .. n PROVE Nest(o, t[k]) = o
    OBVIOUS
  <2>1. CASE t[k].is \in {"name", "channel", "video"}
    BY <2>1 DEF Nest
  <2>2. CASE t[k].is = "event" /\ o # <<>>
    BY <2>2 DEF Nest
  <2> QED
    BY <2>1, <2>2
<1>4. h[0] = o /\ h[n] = Nested(o, t) /\ \A k \in 1 .. n : h[k] = Nest(h[k - 1], t[k])
  BY <1>1
<1> HIDE DEF n
<1> DEFINE T == {k \in Nat : k <= n => h[k] = o}
<1>5. T = Nat
  <2>1. 0 \in T
    BY <1>4
  <2>2. ASSUME NEW k \in T PROVE k + 1 \in T
    <3> SUFFICES ASSUME k + 1 <= n PROVE h[k + 1] = o
      OBVIOUS
    <3>1. k + 1 \in 1 .. n /\ (k + 1) - 1 = k /\ k <= n
      BY <1>2
    <3>2. h[k] = o
      BY <3>1
    <3>3. h[k + 1] = Nest(h[k], t[k + 1])
      BY <1>4, <3>1
    <3> QED
      BY <1>3, <3>1, <3>2, <3>3
  <2>3. T \in SUBSET Nat
    OBVIOUS
  <2> HIDE DEF T
  <2> QED
    BY <2>1, <2>2, <2>3, Induct
<1>6. n \in T /\ n <= n
  BY <1>2, <1>5
<1> QED
  BY <1>4, <1>6

\* A token is what its two fields are.
LEMMA TokenType ==
  ASSUME NEW is \in Kinds, NEW of \in Words
  PROVE  Token(is, of) \in Tokens /\ Token(is, of).is = is /\ Token(is, of).of = of
  BY DEF Token, Tokens

\* What is between "open" and "shut" of the same kind.
LEMMA BracketWhole ==
  ASSUME NEW w \in Words, NEW t \in Seq(Tokens), Inside(t)
  PROVE  /\ <<Token("open", w)>> \o t \o <<Token("shut", w)>> \in Seq(Tokens)
         /\ Whole(<<Token("open", w)>> \o t \o <<Token("shut", w)>>)
<1>1. PICK open, shut : open = Token("open", w) /\ shut = Token("shut", w)
  OBVIOUS
<1>2. open \in Tokens /\ shut \in Tokens /\ open.is = "open" /\ shut.is = "shut" /\ open.of = w /\ shut.of = w
  BY <1>1, TokenType DEF Kinds
<1>3. PICK a, b : a = <<open>> /\ b = <<shut>>
  OBVIOUS
<1>4. a \in Seq(Tokens) /\ b \in Seq(Tokens)
  BY <1>2, <1>3
<1>5. PICK c : c = a \o t
  OBVIOUS
<1>6. c \in Seq(Tokens) /\ c \o b \in Seq(Tokens)
  BY <1>4, <1>5, ConcatProperties
<1>7. ASSUME NEW o \in Seq(Words)
      PROVE  Nested(o, c \o b) = o
  <2>1. Nested(o, c \o b) = Nested(Nested(Nested(o, a), t), b)
    <3>1. Nested(o, c) = Nested(Nested(o, a), t)
      BY <1>4, <1>5, NestedConcat
    <3>2. Nested(o, c \o b) = Nested(Nested(o, c), b)
      BY <1>4, <1>6, NestedConcat
    <3> QED
      BY <3>1, <3>2
  <2>2. Nested(o, a) = Append(o, w)
    BY <1>2, <1>3, NestedOne DEF Nest
  <2>3. Append(o, w) \in Seq(Words) /\ Append(o, w) # <<>>
    BY AppendProperties
  <2>4. Nested(Append(o, w), t) = Append(o, w)
    BY <2>3 DEF Inside
  <2>5. Nest(Append(o, w), shut) = o
    BY <1>2, <2>3, FrontOfAppend DEF Nest
  <2> QED
    BY <1>3, <2>1, <2>2, <2>4, <2>5, NestedOne
<1> QED
  BY <1>1, <1>3, <1>5, <1>6, <1>7 DEF Whole

-----------------------------------------------------------------------------
(* The rows of a text: from "open" to "shut", and what is between.         *)

\* A row from i to j: empty, or a name and all events of this name.
RowAt(t, i, j) ==
  /\ j \in DOMAIN t /\ i < j /\ t[j] = Token("shut", "row")
  /\ \A k \in i + 1 .. j - 1 : t[k].is \notin {"open", "shut"}
  /\ \/ j = i + 1
     \/ /\ t[i + 1].is = "name"
        /\ [k \in 1 .. j - i - 2 |-> t[i + 1 + k].of] = Events[t[i + 1].of]
Rows(t) == \A i \in DOMAIN t : t[i] = Token("open", "row") => \E j \in DOMAIN t : RowAt(t, i, j)

\* A row stays one where it is put.
LEMMA RowMoves ==
  ASSUME NEW S, NEW t \in Seq(S), NEW S2, NEW u \in Seq(S2), NEW m \in Nat,
         \A k \in DOMAIN t : m + k \in DOMAIN u /\ u[m + k] = t[k],
         NEW i \in DOMAIN t, NEW j \in DOMAIN t, RowAt(t, i, j)
  PROVE  RowAt(u, m + i, m + j)
<1>1. i \in 1 .. Len(t) /\ j \in 1 .. Len(t) /\ DOMAIN t = 1 .. Len(t) /\ Len(t) \in Nat
  OBVIOUS
<1>2. i < j /\ t[j] = Token("shut", "row")
  BY DEF RowAt
<1>3. m + j \in DOMAIN u /\ m + i < m + j /\ u[m + j] = Token("shut", "row")
  BY <1>1, <1>2
<1>4. ASSUME NEW k \in m + i + 1 .. m + j - 1 PROVE u[k].is \notin {"open", "shut"}
  <2>1. k - m \in i + 1 .. j - 1 /\ k - m \in 1 .. Len(t) /\ m + (k - m) = k
    BY <1>1, SMTT(40)
  <2>2. t[k - m].is \notin {"open", "shut"}
    BY <2>1 DEF RowAt
  <2> QED
    BY <1>1, <2>1, <2>2
<1>5. CASE j = i + 1
  <2>1. m + j = m + i + 1
    BY <1>1, <1>5
  <2> QED
    BY <1>3, <1>4, <2>1 DEF RowAt
<1>6. CASE j # i + 1
  <2>1. t[i + 1].is = "name" /\ [k \in 1 .. j - i - 2 |-> t[i + 1 + k].of] = Events[t[i + 1].of]
    BY <1>6 DEF RowAt
  <2>2. i + 1 \in DOMAIN t /\ m + i + 1 = m + (i + 1) /\ (m + j) - (m + i) - 2 = j - i - 2
    BY <1>1, <1>2, SMTT(40)
  <2>3. u[m + i + 1] = t[i + 1]
    BY <2>2
  <2>4. ASSUME NEW k \in 1 .. j - i - 2 PROVE u[m + i + 1 + k] = t[i + 1 + k]
    <3>1. i + 1 + k \in DOMAIN t /\ m + i + 1 + k = m + (i + 1 + k)
      BY <1>1, SMTT(40)
    <3> QED
      BY <3>1
  <2>5. [k \in 1 .. (m + j) - (m + i) - 2 |-> u[m + i + 1 + k].of] = [k \in 1 .. j - i - 2 |-> t[i + 1 + k].of]
    BY <2>2, <2>4
  <2>6. /\ u[m + i + 1].is = "name"
        /\ [k \in 1 .. (m + j) - (m + i) - 2 |-> u[m + i + 1 + k].of] = Events[u[m + i + 1].of]
    BY <2>1, <2>3, <2>5
  <2> QED
    BY <1>3, <1>4, <2>6 DEF RowAt
<1> QED
  BY <1>5, <1>6

\* Two texts of whole rows.
LEMMA RowsConcat ==
  ASSUME NEW S, NEW s \in Seq(S), NEW t \in Seq(S), Rows(s), Rows(t)
  PROVE  Rows(s \o t)
<1>1. PICK u : u = s \o t
  OBVIOUS
<1>2. /\ u \in Seq(S) /\ Len(s) \in Nat /\ Len(t) \in Nat /\ Len(u) = Len(s) + Len(t)
      /\ DOMAIN s = 1 .. Len(s) /\ DOMAIN t = 1 .. Len(t) /\ DOMAIN u = 1 .. Len(u)
  BY <1>1, ConcatProperties
<1>3. \A k \in DOMAIN s : 0 + k \in DOMAIN u /\ u[0 + k] = s[k]
  <2> SUFFICES ASSUME NEW k \in DOMAIN s PROVE 0 + k \in DOMAIN u /\ u[0 + k] = s[k]
    OBVIOUS
  <2>1. 0 + k = k /\ k \in 1 .. Len(s) + Len(t) /\ k <= Len(s)
    BY <1>2
  <2> QED
    BY <1>1, <1>2, <2>1, ConcatProperties
<1>4. \A k \in DOMAIN t : Len(s) + k \in DOMAIN u /\ u[Len(s) + k] = t[k]
  <2> SUFFICES ASSUME NEW k \in DOMAIN t PROVE Len(s) + k \in DOMAIN u /\ u[Len(s) + k] = t[k]
    OBVIOUS
  <2>1. Len(s) + k \in 1 .. Len(s) + Len(t) /\ ~(Len(s) + k <= Len(s)) /\ (Len(s) + k) - Len(s) = k
    BY <1>2
  <2> QED
    BY <1>1, <1>2, <2>1, ConcatProperties
<1>5. ASSUME NEW i \in DOMAIN u, u[i] = Token("open", "row")
      PROVE  \E j \in DOMAIN u : RowAt(u, i, j)
  <2>1. i \in 1 .. Len(s) + Len(t)
    BY <1>2
  <2>2. CASE i <= Len(s)
    <3>1. i \in DOMAIN s /\ 0 + i = i
      BY <1>2, <2>1, <2>2
    <3>2. s[i] = Token("open", "row")
      BY <1>3, <1>5, <3>1
    <3>3. PICK j \in DOMAIN s : RowAt(s, i, j)
      BY <3>1, <3>2 DEF Rows
    <3>4. 0 + j \in DOMAIN u
      BY <1>3
    <3>5. RowAt(u, 0 + i, 0 + j)
      BY <1>2, <1>3, <3>1, <3>3, RowMoves
    <3> QED
      BY <3>1, <3>4, <3>5
  <2>3. CASE ~(i <= Len(s))
    <3>1. i - Len(s) \in DOMAIN t /\ Len(s) + (i - Len(s)) = i
      BY <1>2, <2>1, <2>3
    <3>2. PICK a \in DOMAIN t : Len(s) + a = i
      BY <3>1
    <3>3. t[a] = Token("open", "row")
      BY <1>4, <1>5, <3>2
    <3>4. PICK j \in DOMAIN t : RowAt(t, a, j)
      BY <3>3 DEF Rows
    <3>5. Len(s) + j \in DOMAIN u
      BY <1>4
    <3>6. RowAt(u, Len(s) + a, Len(s) + j)
      BY <1>2, <1>4, <3>4, RowMoves
    <3> QED
      BY <3>2, <3>5, <3>6
  <2> QED
    BY <2>2, <2>3
<1> QED
  BY <1>1, <1>5 DEF Rows

\* What the guide adds to a reply in the format of the client.
Good(t) ==
  /\ t \in Seq(Tokens)
  /\ IF client.fmt = "xml" THEN Inside(t) ELSE Whole(t)
  /\ client.fmt = "html" => Rows(t)

\* Two texts that leave nothing open.
LEMMA InsideConcat ==
  ASSUME NEW s \in Seq(Tokens), NEW t \in Seq(Tokens)
  PROVE  /\ s \o t \in Seq(Tokens)
         /\ Inside(s) /\ Inside(t) => Inside(s \o t)
         /\ Whole(s) /\ Whole(t) => Whole(s \o t)
<1>1. \A o : Nested(o, s \o t) = Nested(Nested(o, s), t)
  BY NestedConcat
<1>2. s \o t \in Seq(Tokens)
  BY ConcatProperties
<1> QED
  BY <1>1, <1>2 DEF Inside, Whole

\* Two parts of a guide.
LEMMA GoodConcat ==
  ASSUME NEW s, Good(s), NEW t, Good(t)
  PROVE  Good(s \o t)
<1>1. s \in Seq(Tokens) /\ t \in Seq(Tokens)
  BY DEF Good
<1> QED
  BY <1>1, InsideConcat, RowsConcat DEF Good

\* A text without "open" and "shut"
LEMMA QuietGood ==
  ASSUME NEW t \in Seq(Tokens),
         \A i \in 1 .. Len(t) : \/ t[i].is \in {"name", "channel", "video"}
                                \/ t[i].is = "event" /\ client.fmt = "xml"
  PROVE  Good(t)
<1>1. Inside(t)
  BY QuietNested DEF Inside
<1>2. client.fmt # "xml" => Whole(t)
  BY QuietNested DEF Whole
<1>3. Rows(t)
  <2>1. Token("open", "row").is = "open"
    BY DEF Token
  <2> QED
    BY <2>1 DEF Rows
<1> QED
  BY <1>1, <1>2, <1>3 DEF Good

\* A guide of nothing.
LEMMA GoodEmpty == Good(<<>>)
<1>1. PICK t : t = <<>>
  OBVIOUS
<1>2. t \in Seq(Tokens) /\ Len(t) = 0
  BY <1>1
<1>3. \A i \in 1 .. Len(t) : t[i].is \in {"name", "channel", "video"} \/ (t[i].is = "event" /\ client.fmt = "xml")
  BY <1>2
<1>4. t \in Seq(Tokens)
  BY <1>2
<1>5. Good(t)
  BY <1>3, <1>4, QuietGood
<1> QED
  BY <1>1, <1>5

-----------------------------------------------------------------------------
(* A row.  Lists: the first k events of a channel.                         *)

Lists(t, c, k) ==
  IF client.fmt = "html" /\ k > 0
  THEN /\ Len(t) = k + 1 /\ t[1] = Token("name", c)
       /\ \A i \in 1 .. k : t[i + 1] = Token("event", Events[c][i])
  ELSE Len(t) = k /\ \A i \in 1 .. k : t[i] = Token("event", Events[c][i])

\* One event more: the first one brings the name in HTML.
LEMMA ListsMore ==
  ASSUME NEW c \in DOMAIN Events, NEW k \in Nat, k + 1 <= Len(Events[c]),
         NEW t \in Seq(Tokens), Lists(t, c, k),
         NEW name, name = IF k = 0 /\ client.fmt = "html" THEN <<Token("name", c)>> ELSE <<>>,
         NEW event, event = <<Token("event", Events[c][k + 1])>>
  PROVE  name \o event \in Seq(Tokens) /\ t \o (name \o event) \in Seq(Tokens)
         /\ Lists(t \o (name \o event), c, k + 1)
<1>1. Events[c] \in Seq(Range(Events[c]))
  BY ReplyAssumption DEF ReplyAssumption
<1>2. k + 1 \in 1 .. Len(Events[c])
  BY <1>1
<1>3. Events[c][k + 1] \in Words /\ c \in Words
  <2>1. Events[c][k + 1] \in Range(Events[c])
    BY <1>1, <1>2 DEF Range
  <2> QED
    BY <2>1 DEF Words
<1>4. PICK x, y : x = Token("name", c) /\ y = Token("event", Events[c][k + 1])
  OBVIOUS
<1>5. x \in Tokens /\ y \in Tokens
  BY <1>3, <1>4, TokenType DEF Kinds
<1>6. name \in Seq(Tokens) /\ event \in Seq(Tokens)
  BY <1>4, <1>5
<1>7. CASE k = 0 /\ client.fmt = "html"
  <2>1. Len(t) = 0
    BY <1>7 DEF Lists
  <2>2. t = <<>>
    BY <2>1
  <2>3. PICK u : u = name \o event
    OBVIOUS
  <2>4. Len(name) = 1 /\ name[1] = x
    BY <1>4, <1>7
  <2>5. u \in Seq(Tokens) /\ Len(u) = 2 /\ u[1] = x /\ u[2] = y
    <3>1. u = Append(name, y)
      BY <1>4, <1>5, <1>6, <2>3, AppendIsConcat
    <3>2. u \in Seq(Tokens) /\ Len(u) = Len(name) + 1 /\ u[Len(name) + 1] = y
          /\ \A i \in 1 .. Len(name) : u[i] = name[i]
      BY <1>5, <1>6, <3>1, AppendProperties
    <3> QED
      BY <2>4, <3>2
  <2>6. Lists(u, c, 1)
    <3>1. \A i \in 1 .. 1 : i = 1
      OBVIOUS
    <3> QED
      BY <1>4, <1>7, <2>5, <3>1 DEF Lists
  <2>7. k + 1 = 1
    BY <1>7
  <2>8. t \o u = u
    BY <2>2, <2>5, ConcatEmptySeq
  <2> QED
    BY <2>3, <2>5, <2>6, <2>7, <2>8
<1>8. CASE ~(k = 0 /\ client.fmt = "html")
  <2>1. name \o event = event
    BY <1>6, <1>8, ConcatEmptySeq
  <2>2. t \o event = Append(t, y)
    BY <1>4, <1>5, AppendIsConcat
  <2>3. PICK u : u = Append(t, y)
    OBVIOUS
  <2>4. /\ u \in Seq(Tokens) /\ Len(u) = Len(t) + 1 /\ Len(t) \in Nat
        /\ \A i \in 1 .. Len(t) : u[i] = t[i]
        /\ u[Len(t) + 1] = y
    BY <1>5, <2>3, AppendProperties
  <2>5. CASE client.fmt = "html"
    <3>1. /\ Len(t) = k + 1 /\ t[1] = Token("name", c) /\ k > 0 /\ k + 1 > 0
          /\ \A i \in 1 .. k : t[i + 1] = Token("event", Events[c][i])
      BY <1>8, <2>5 DEF Lists
    <3>2. Len(u) = (k + 1) + 1 /\ u[1] = Token("name", c)
      BY <2>4, <3>1
    <3>3. ASSUME NEW i \in 1 .. k + 1 PROVE u[i + 1] = Token("event", Events[c][i])
      <4>1. CASE i = k + 1
        BY <1>4, <2>4, <3>1, <4>1
      <4>2. CASE i # k + 1
        <5>1. i \in 1 .. k /\ i + 1 \in 1 .. Len(t)
          BY <3>1, <4>2
        <5> QED
          BY <2>4, <3>1, <5>1
      <4> QED
        BY <4>1, <4>2
    <3>4. Lists(u, c, k + 1)
      BY <2>5, <3>1, <3>2, <3>3 DEF Lists
    <3> QED
      BY <1>6, <2>1, <2>2, <2>3, <2>4, <3>4
  <2>6. CASE client.fmt # "html"
    <3>1. Len(t) = k /\ \A i \in 1 .. k : t[i] = Token("event", Events[c][i])
      BY <2>6 DEF Lists
    <3>2. ASSUME NEW i \in 1 .. k + 1 PROVE u[i] = Token("event", Events[c][i])
      <4>1. CASE i = k + 1
        BY <1>4, <2>4, <3>1, <4>1
      <4>2. CASE i # k + 1
        <5>1. i \in 1 .. k
          BY <4>2
        <5> QED
          BY <2>4, <3>1, <5>1
      <4> QED
        BY <4>1, <4>2
    <3>3. Lists(u, c, k + 1)
      BY <2>4, <2>6, <3>1, <3>2 DEF Lists
    <3> QED
      BY <1>6, <2>1, <2>2, <2>3, <2>4, <3>3
  <2> QED
    BY <2>5, <2>6
<1> QED
  BY <1>7, <1>8

\* They open and shut nothing.
LEMMA ListsQuiet ==
  ASSUME NEW c \in DOMAIN Events, NEW t \in Seq(Tokens), NEW k \in Nat, Lists(t, c, k)
  PROVE  \A i \in 1 .. Len(t) : t[i].is \in {"name", "event"} /\ (client.fmt # "html" => t[i].is = "event")
<1> SUFFICES ASSUME NEW i \in 1 .. Len(t)
             PROVE  t[i].is \in {"name", "event"} /\ (client.fmt # "html" => t[i].is = "event")
  OBVIOUS
<1>1. CASE client.fmt = "html" /\ k > 0
  <2>1. /\ Len(t) = k + 1 /\ t[1] = Token("name", c)
        /\ \A j \in 1 .. k : t[j + 1] = Token("event", Events[c][j])
    BY <1>1 DEF Lists
  <2>2. CASE i = 1
    BY <1>1, <2>1, <2>2 DEF Token
  <2>3. CASE i # 1
    <3>1. i - 1 \in 1 .. k /\ (i - 1) + 1 = i
      BY <2>1, <2>3
    <3>2. t[i] = Token("event", Events[c][i - 1])
      BY <2>1, <3>1
    <3> QED
      BY <1>1, <3>2 DEF Token
  <2> QED
    BY <2>2, <2>3
<1>2. CASE ~(client.fmt = "html" /\ k > 0)
  <2>1. Len(t) = k /\ \A j \in 1 .. k : t[j] = Token("event", Events[c][j])
    BY <1>2 DEF Lists
  <2>2. t[i] = Token("event", Events[c][i])
    BY <2>1
  <2> QED
    BY <2>2 DEF Token
<1> QED
  BY <1>1, <1>2

\* Show brackets around all events of a channel, they are a row.
LEMMA RowIs ==
  ASSUME NEW c \in DOMAIN Events, NEW t \in Seq(Tokens), client.fmt = "html",
         Lists(t, c, Len(Events[c])),
         NEW r, r = <<Token("open", "row")>> \o t \o <<Token("shut", "row")>>
  PROVE  Rows(r)
<1>1. PICK open, shut : open = Token("open", "row") /\ shut = Token("shut", "row")
  OBVIOUS
<1>2. open \in Tokens /\ shut \in Tokens /\ open.is = "open" /\ shut.is = "shut"
  BY <1>1, TokenType, ZenonT(60) DEF Kinds, Words
<1>3. PICK a : a = <<open>> \o t
  OBVIOUS
<1>4. /\ a \in Seq(Tokens) /\ Len(a) = 1 + Len(t) /\ Len(t) \in Nat /\ a[1] = open
      /\ \A i \in 1 .. Len(t) : a[i + 1] = t[i]
  <2>1. PICK b : b = <<open>>
    OBVIOUS
  <2>2. b \in Seq(Tokens) /\ Len(b) = 1 /\ b[1] = open
    BY <1>2, <2>1
  <2>3. /\ b \o t \in Seq(Tokens) /\ Len(b \o t) = Len(b) + Len(t)
        /\ \A i \in 1 .. Len(b) + Len(t) : (b \o t)[i] = IF i <= Len(b) THEN b[i] ELSE t[i - Len(b)]
    BY <2>2, ConcatProperties
  <2>4. a = b \o t /\ Len(t) \in Nat
    BY <1>3, <2>1
  <2>5. a[1] = open
    <3>1. 1 \in 1 .. Len(b) + Len(t) /\ 1 <= Len(b)
      BY <2>2, <2>4
    <3> QED
      BY <2>2, <2>3, <2>4, <3>1
  <2>6. ASSUME NEW i \in 1 .. Len(t) PROVE a[i + 1] = t[i]
    <3>1. i + 1 \in 1 .. Len(b) + Len(t) /\ ~(i + 1 <= Len(b)) /\ (i + 1) - Len(b) = i
      BY <2>2, <2>4
    <3> QED
      BY <2>3, <2>4, <3>1
  <2> QED
    BY <2>2, <2>3, <2>4, <2>5, <2>6
<1>5. /\ r \in Seq(Tokens) /\ Len(r) = Len(t) + 2 /\ r[1] = open /\ r[Len(t) + 2] = shut
      /\ \A i \in 1 .. Len(t) : r[i + 1] = t[i]
  <2>1. r = Append(a, shut)
    BY <1>1, <1>2, <1>3, <1>4, AppendIsConcat
  <2>2. /\ r \in Seq(Tokens) /\ Len(r) = Len(a) + 1 /\ r[Len(a) + 1] = shut
        /\ \A i \in 1 .. Len(a) : r[i] = a[i]
    <3>1. a \in Seq(Tokens)
      BY <1>4
    <3>2. shut \in Tokens
      BY <1>2
    <3>3. /\ Append(a, shut) \in Seq(Tokens)
          /\ Len(Append(a, shut)) = Len(a) + 1
          /\ \A i \in 1 .. Len(a) : Append(a, shut)[i] = a[i]
          /\ Append(a, shut)[Len(a) + 1] = shut
      BY <3>1, <3>2, AppendProperties
    <3> QED
      BY <2>1, <3>3
  <2>3. r[1] = open
    BY <1>4, <2>2
  <2>4. ASSUME NEW i \in 1 .. Len(t) PROVE r[i + 1] = t[i]
    <3>1. i + 1 \in 1 .. Len(a)
      BY <1>4
    <3> QED
      BY <1>4, <2>2, <3>1
  <2> QED
    BY <1>4, <2>2, <2>3, <2>4
<1>6. \A i \in 1 .. Len(t) : t[i].is \in {"name", "event"}
  <2>1. Len(Events[c]) \in Nat
    BY ReplyAssumption DEF ReplyAssumption
  <2> QED
    BY <2>1, ListsQuiet
<1>7. \A i \in 2 .. Len(t) + 1 : r[i].is \in {"name", "event"}
  <2> SUFFICES ASSUME NEW i \in 2 .. Len(t) + 1 PROVE r[i].is \in {"name", "event"}
    OBVIOUS
  <2>1. i - 1 \in 1 .. Len(t) /\ (i - 1) + 1 = i
    BY <1>4
  <2> QED
    BY <1>5, <1>6, <2>1
<1>8. \A i \in DOMAIN r : r[i] = open => i = 1
  <2> SUFFICES ASSUME NEW i \in DOMAIN r, r[i] = open, i # 1 PROVE FALSE
    OBVIOUS
  <2>1. i \in 2 .. Len(t) + 1 \/ i = Len(t) + 2
    BY <1>4, <1>5
  <2> QED
    BY <1>2, <1>5, <1>7, <2>1
<1>9. RowAt(r, 1, Len(t) + 2)
  <2>1. Len(t) + 2 \in DOMAIN r /\ 1 < Len(t) + 2 /\ r[Len(t) + 2] = Token("shut", "row")
    BY <1>1, <1>4, <1>5
  <2>2. \A k \in 1 + 1 .. (Len(t) + 2) - 1 : r[k].is \notin {"open", "shut"}
    <3>1. 1 + 1 = 2 /\ (Len(t) + 2) - 1 = Len(t) + 1
      BY <1>4
    <3> QED
      BY <1>7, <3>1
  <2>3. CASE Len(Events[c]) = 0
    <3>1. Len(t) = 0
      BY <2>3 DEF Lists
    <3>2. Len(t) + 2 = 1 + 1
      BY <3>1
    <3> QED
      BY <2>1, <2>2, <3>2 DEF RowAt
  <2>4. CASE Len(Events[c]) # 0
    <3> DEFINE n == Len(Events[c])
    <3>1. n \in Nat /\ DOMAIN Events[c] = 1 .. n /\ Events[c] = [k \in 1 .. n |-> Events[c][k]]
      BY ReplyAssumption DEF ReplyAssumption
    <3>2. /\ Len(t) = n + 1 /\ t[1] = Token("name", c)
          /\ \A i \in 1 .. n : t[i + 1] = Token("event", Events[c][i])
      BY <2>4, <3>1 DEF Lists
    <3> HIDE DEF n
    <3>3. r[1 + 1] = Token("name", c)
      <4>1. 1 \in 1 .. Len(t)
        BY <3>1, <3>2
      <4> QED
        BY <1>5, <3>2, <4>1
    <3>4. r[1 + 1].is = "name" /\ r[1 + 1].of = c
      BY <3>3 DEF Token
    <3>5. (Len(t) + 2) - 1 - 2 = n
      BY <3>1, <3>2
    <3>6. ASSUME NEW k \in 1 .. n PROVE r[1 + 1 + k].of = Events[c][k]
      <4>1. k + 1 \in 1 .. Len(t) /\ (k + 1) + 1 = 1 + 1 + k
        BY <3>1, <3>2
      <4>2. r[1 + 1 + k] = Token("event", Events[c][k])
        BY <1>5, <3>2, <4>1
      <4>3. \A e : Token("event", e).of = e
        BY DEF Token
      <4> QED
        BY <4>2, <4>3, Zenon
    <3>7. [k \in 1 .. (Len(t) + 2) - 1 - 2 |-> r[1 + 1 + k].of] = Events[c]
      BY <3>1, <3>5, <3>6
    <3> QED
      BY <2>1, <2>2, <3>4, <3>7 DEF RowAt
  <2> QED
    BY <2>3, <2>4
<1>10. Len(t) + 2 \in DOMAIN r
  BY <1>4, <1>5
<1> QED
  BY <1>1, <1>8, <1>9, <1>10 DEF Rows

-----------------------------------------------------------------------------
(* The guide as text: rows, and pages of them.                             *)

\* The bracket of a row or of a page, which XML has not.
Bar(is, channel) == IF client.fmt \in {"html", "json"} THEN Bracket(is, channel) ELSE <<>>

\* Brackets are texts.
LEMMA BracketType ==
  ASSUME NEW is \in {"open", "shut"}, NEW channel \in BOOLEAN
  PROVE  Bracket(is, channel) \in Seq(Tokens) /\ Bar(is, channel) \in Seq(Tokens) /\ Tv(is) \in Seq(Tokens)
<1>1. is \in Kinds /\ "page" \in Words /\ "row" \in Words /\ "tv" \in Words
  BY DEF Kinds, Words
<1>2. /\ Token(is, "page") \in Tokens /\ Token(is, "row") \in Tokens /\ Token(is, "tv") \in Tokens
  BY <1>1, TokenType
<1>3. PICK x : x = Token(is, IF channel THEN "row" ELSE "page")
  OBVIOUS
<1>4. x \in Tokens
  BY <1>2, <1>3
<1>5. <<x>> \in Seq(Tokens)
  BY <1>4
<1>6. Bracket(is, channel) \in Seq(Tokens)
  BY <1>3, <1>5 DEF Bracket
<1>7. PICK y : y = Token(is, "tv")
  OBVIOUS
<1>8. <<y>> \in Seq(Tokens)
  BY <1>2, <1>7
<1>9. Tv(is) \in Seq(Tokens)
  BY <1>7, <1>8 DEF Tv
<1>10. <<>> \in Seq(Tokens)
  OBVIOUS
<1> QED
  BY <1>6, <1>9, <1>10 DEF Bar

\* Where no row is opened all rows are whole.
LEMMA NoRow ==
  ASSUME NEW t, \A i \in DOMAIN t : t[i].is # "open" \/ t[i].of # "row"
  PROVE  Rows(t)
<1>1. Token("open", "row").is = "open" /\ Token("open", "row").of = "row"
  BY DEF Token
<1> QED
  BY <1>1 DEF Rows

\* What a channel and its events come to is good in all formats ...
LEMMA RowGood ==
  ASSUME client.fmt \in Text, NEW c \in DOMAIN Events, NEW t \in Seq(Tokens), Lists(t, c, Len(Events[c]))
  PROVE  Good(Bar("open", TRUE) \o t \o Bar("shut", TRUE))
<1>1. Len(Events[c]) \in Nat
  BY ReplyAssumption DEF ReplyAssumption
<1>2. \A i \in 1 .. Len(t) : t[i].is \in {"name", "event"} /\ (client.fmt # "html" => t[i].is = "event")
  BY <1>1, ListsQuiet
<1>3. Inside(t)
  BY <1>2, QuietNested DEF Inside
<1>4. CASE client.fmt = "xml"
  <2>1. Bar("open", TRUE) = <<>> /\ Bar("shut", TRUE) = <<>>
    BY <1>4 DEF Bar
  <2>2. <<>> \o t = t /\ t \o <<>> = t
    BY ConcatEmptySeq
  <2> QED
    BY <1>3, <1>4, <2>1, <2>2 DEF Good
<1>5. CASE client.fmt \in {"html", "json"}
  <2>1. Bar("open", TRUE) = <<Token("open", "row")>> /\ Bar("shut", TRUE) = <<Token("shut", "row")>>
    BY <1>5 DEF Bar, Bracket
  <2>2. "row" \in Words
    BY DEF Words
  <2>3. PICK r : r = <<Token("open", "row")>> \o t \o <<Token("shut", "row")>>
    OBVIOUS
  <2>4. r \in Seq(Tokens) /\ Whole(r)
    BY <1>3, <2>2, <2>3, BracketWhole
  <2>5. client.fmt = "html" => Rows(r)
    BY <2>3, RowIs
  <2>6. Good(r)
    BY <1>5, <2>4, <2>5 DEF Good
  <2> QED
    BY <2>1, <2>3, <2>6
<1> QED
  BY <1>4, <1>5 DEF Text

\* The bracket of a page opens none.
LEMMA PageRows ==
  ASSUME NEW is, NEW w, is # "open" \/ w # "row"
  PROVE  Rows(<<Token(is, w)>>)
<1>1. Token(is, w).is = is /\ Token(is, w).of = w
  BY DEF Token
<1>2. PICK x : x = Token(is, w)
  OBVIOUS
<1>3. PICK s : s = <<x>>
  OBVIOUS
<1>4. \A i \in DOMAIN s : s[i] = x
  BY <1>3
<1>5. Rows(s)
  BY <1>1, <1>2, <1>4, NoRow
<1> QED
  BY <1>2, <1>3, <1>5

\* ... and so is a page of what is good.
LEMMA PageGood ==
  ASSUME client.fmt \in Text, NEW t, Good(t)
  PROVE  Good(Bar("open", FALSE) \o t \o Bar("shut", FALSE))
<1>1. t \in Seq(Tokens)
  BY DEF Good
<1>4. CASE client.fmt = "xml"
  <2>1. Bar("open", FALSE) = <<>> /\ Bar("shut", FALSE) = <<>>
    BY <1>4 DEF Bar
  <2>2. <<>> \o t = t /\ t \o <<>> = t
    BY <1>1, ConcatEmptySeq
  <2> QED
    BY <2>1, <2>2
<1>5. CASE client.fmt \in {"html", "json"}
  <2>1. PICK a, b : a = <<Token("open", "page")>> /\ b = <<Token("shut", "page")>>
    OBVIOUS
  <2>2. Bar("open", FALSE) = a /\ Bar("shut", FALSE) = b
    BY <1>5, <2>1 DEF Bar, Bracket
  <2>3. a \in Seq(Tokens) /\ b \in Seq(Tokens)
    BY <2>2, BracketType
  <2>4. Inside(t)
    BY <1>5 DEF Good, Inside, Whole
  <2>5. "page" \in Words
    BY DEF Words
  <2>6. a \o t \o b \in Seq(Tokens) /\ Whole(a \o t \o b)
    BY <1>1, <2>1, <2>4, <2>5, BracketWhole
  <2>7. ASSUME client.fmt = "html" PROVE Rows(a \o t \o b)
    <3>1. Rows(a) /\ Rows(b)
      BY <2>1, PageRows
    <3>2. Rows(t)
      BY <2>7 DEF Good
    <3>3. a \o t \in Seq(Tokens)
      BY <1>1, <2>3, ConcatProperties
    <3>4. Rows(a \o t)
      BY <1>1, <2>3, <3>1, <3>2, RowsConcat
    <3> QED
      BY <2>3, <3>1, <3>3, <3>4, RowsConcat
  <2>8. Good(a \o t \o b)
    BY <1>5, <2>6, <2>7 DEF Good
  <2> QED
    BY <2>2, <2>8
<1> QED
  BY <1>4, <1>5 DEF Text

\* What a report has come to.
Outs == [started : BOOLEAN, newchannel : BOOLEAN, text : Seq(Tokens)]

\* Three texts in turn.
LEMMA InTurn == \A s, t, u \in Seq(Tokens) : (s \o t) \o u = s \o (t \o u)
  BY ConcatAssociative

\* What is streamed goes behind the text.
Answers(out2, out, bar, new) == out2 = [Streamback(out, bar) EXCEPT !.started = TRUE, !.newchannel = new]

LEMMA Streamed ==
  ASSUME NEW out \in Outs, NEW bar \in Seq(Tokens), NEW new, new \in BOOLEAN,
         NEW out2, Answers(out2, out, bar, new)
  PROVE  out2 \in Outs /\ out2.started /\ out2.newchannel = new /\ out2.text = out.text \o bar
<1>1. out.text \in Seq(Tokens)
  BY DEF Outs
<1>2. PICK text : text = out.text \o bar
  OBVIOUS
<1>3. text \in Seq(Tokens)
  BY <1>1, <1>2, ConcatProperties
<1>4. out2 = [[out EXCEPT !.text = text] EXCEPT !.started = TRUE, !.newchannel = new]
  BY <1>2 DEF Answers, Streamback, Outs
<1>5. out2 = [started |-> TRUE, newchannel |-> new, text |-> text]
  BY <1>4 DEF Outs
<1>6. out2 \in Outs
  BY <1>3, <1>5 DEF Outs
<1>7. out2.started /\ out2.newchannel = new /\ out2.text = text
  BY <1>5
<1> QED
  BY <1>2, <1>6, <1>7

\* epg_header_footer adds the bracket that the format asks for: around a channel ...
LEMMA RowOpens ==
  ASSUME NEW out \in Outs, out.started
  PROVE  /\ epg_header_footer(out, TRUE, TRUE) \in Outs
         /\ epg_header_footer(out, TRUE, TRUE).started
         /\ epg_header_footer(out, TRUE, TRUE).newchannel
         /\ epg_header_footer(out, TRUE, TRUE).text = out.text \o Bar("open", TRUE)
<1>1. PICK bar : bar = Bar("open", TRUE)
  OBVIOUS
<1>2. PICK out2 : out2 = epg_header_footer(out, TRUE, TRUE)
  OBVIOUS
<1>3. PICK new : new = TRUE
  OBVIOUS
<1>4. bar \in Seq(Tokens) /\ new \in BOOLEAN
  BY <1>1, <1>3, BracketType DEF Outs
<1>5. Answers(out2, out, bar, new)
  BY <1>1, <1>2, <1>3 DEF Answers, epg_header_footer, Streamback, Bar, Outs
<1>6. out2 \in Outs /\ out2.started /\ out2.newchannel = new /\ out2.text = out.text \o bar
  BY <1>4, <1>5, Streamed
<1> QED
  BY <1>1, <1>2, <1>3, <1>6

LEMMA RowShuts ==
  ASSUME NEW out \in Outs, out.started
  PROVE  /\ epg_header_footer(out, FALSE, TRUE) \in Outs
         /\ epg_header_footer(out, FALSE, TRUE).started
         /\ epg_header_footer(out, FALSE, TRUE).text = out.text \o Bar("shut", TRUE)
<1>1. PICK bar : bar = Bar("shut", TRUE)
  OBVIOUS
<1>2. PICK out2 : out2 = epg_header_footer(out, FALSE, TRUE)
  OBVIOUS
<1>3. PICK new : new = out.newchannel
  OBVIOUS
<1>4. bar \in Seq(Tokens) /\ new \in BOOLEAN
  BY <1>1, <1>3, BracketType DEF Outs
<1>5. Answers(out2, out, bar, new)
  BY <1>1, <1>2, <1>3 DEF Answers, epg_header_footer, Streamback, Bar, Outs
<1>6. out2 \in Outs /\ out2.started /\ out2.newchannel = new /\ out2.text = out.text \o bar
  BY <1>4, <1>5, Streamed
<1> QED
  BY <1>1, <1>2, <1>3, <1>6

\* ... and around a page, whose header starts the answer.
LEMMA PageOpens ==
  ASSUME NEW out \in Outs
  PROVE  /\ epg_header_footer(out, TRUE, FALSE) \in Outs
         /\ epg_header_footer(out, TRUE, FALSE).started
         /\ epg_header_footer(out, TRUE, FALSE).text = out.text \o Bar("open", FALSE)
<1>1. PICK bar : bar = Bar("open", FALSE)
  OBVIOUS
<1>2. PICK out2 : out2 = epg_header_footer(out, TRUE, FALSE)
  OBVIOUS
<1>3. PICK new : new = out.newchannel
  OBVIOUS
<1>4. bar \in Seq(Tokens) /\ new \in BOOLEAN
  BY <1>1, <1>3, BracketType DEF Outs
<1>5. Answers(out2, out, bar, new)
  BY <1>1, <1>2, <1>3 DEF Answers, epg_header_footer, Streamback, Bar, Outs
<1>6. out2 \in Outs /\ out2.started /\ out2.newchannel = new /\ out2.text = out.text \o bar
  BY <1>4, <1>5, Streamed
<1> QED
  BY <1>1, <1>2, <1>3, <1>6

LEMMA PageShuts ==
  ASSUME NEW out \in Outs, out.started
  PROVE  /\ epg_header_footer(out, FALSE, FALSE) \in Outs
         /\ epg_header_footer(out, FALSE, FALSE).started
         /\ epg_header_footer(out, FALSE, FALSE).text = out.text \o Bar("shut", FALSE)
<1>1. PICK bar : bar = Bar("shut", FALSE)
  OBVIOUS
<1>2. PICK out2 : out2 = epg_header_footer(out, FALSE, FALSE)
  OBVIOUS
<1>3. PICK new : new = out.newchannel
  OBVIOUS
<1>4. bar \in Seq(Tokens) /\ new \in BOOLEAN
  BY <1>1, <1>3, BracketType DEF Outs
<1>5. Answers(out2, out, bar, new)
  BY <1>1, <1>2, <1>3 DEF Answers, epg_header_footer, Streamback, Bar, Outs
<1>6. out2 \in Outs /\ out2.started /\ out2.newchannel = new /\ out2.text = out.text \o bar
  BY <1>4, <1>5, Streamed
<1> QED
  BY <1>1, <1>2, <1>3, <1>6

\* ... and epg_event the name, if it is due, and the event.
EventText(out, c, e) ==
  (IF out.newchannel /\ client.fmt = "html" THEN <<Token("name", c)>> ELSE <<>>) \o <<Token("event", e)>>

\* It is not due again before the next header.
LEMMA EventIs ==
  ASSUME client.fmt \in Text, NEW out \in Outs, out.started, NEW c, NEW e,
         NEW text, text = out.text \o EventText(out, c, e), text \in Seq(Tokens)
  PROVE  /\ epg_event(out, c, e) \in Outs
         /\ epg_event(out, c, e).started /\ ~epg_event(out, c, e).newchannel
         /\ epg_event(out, c, e).text = text
<1>1. text = out.text \o ((IF out.newchannel /\ client.fmt = "html" THEN <<Token("name", c)>> ELSE <<>>) \o <<Token("event", e)>>)
  BY DEF EventText
<1>2. client.fmt # "cli"
  BY DEF Text
<1>3. epg_event(out, c, e) = [[out EXCEPT !.text = text] EXCEPT !.newchannel = FALSE]
  BY <1>1, <1>2 DEF epg_event, Streamback, Outs
<1>4. epg_event(out, c, e) = [started |-> TRUE, newchannel |-> FALSE, text |-> text]
  <2>1. out = [started |-> out.started, newchannel |-> out.newchannel, text |-> out.text]
    BY DEF Outs
  <2>2. out.started = TRUE
    BY DEF Outs
  <2> QED
    BY <1>3, <2>1, <2>2
<1>5. text \in Seq(Tokens)
  BY <1>1
<1> QED
  BY <1>1, <1>4, <1>5 DEF Outs

\* The report new is the report out and a good text after it.
Grows(out, new) ==
  new \in Outs /\ (out.started => new.started) /\ \E t : Good(t) /\ new.text = out.text \o t

\* DumpChannel writes a good text ...
LEMMA ChannelText ==
  ASSUME client.fmt \in Text, NEW out \in Outs, out.started, NEW c \in DOMAIN Events
  PROVE  Grows(out, DumpChannel(out, c))
<1>1. Events[c] \in Seq(Range(Events[c]))
  BY ReplyAssumption DEF ReplyAssumption
<1> DEFINE n == Len(Events[c])
<1>2. n \in Nat
  BY <1>1
<1>3. PICK h : /\ h[0] = epg_header_footer(out, TRUE, TRUE) /\ DumpChannel(out, c) = epg_header_footer(h[Len(Events[c])], FALSE, TRUE)
               /\ \A k \in 1 .. Len(Events[c]) : h[k] = epg_event(h[k - 1], c, Events[c][k])
  BY <1>1, EventSteps
<1>4. /\ h[0] = epg_header_footer(out, TRUE, TRUE) /\ DumpChannel(out, c) = epg_header_footer(h[n], FALSE, TRUE)
      /\ \A k \in 1 .. n : h[k] = epg_event(h[k - 1], c, Events[c][k])
  BY <1>3
<1>5. n = Len(Events[c])
  OBVIOUS
<1> HIDE DEF n
<1>6. PICK open, shut : open = Bar("open", TRUE) /\ shut = Bar("shut", TRUE)
  OBVIOUS
<1>7. open \in Seq(Tokens) /\ shut \in Seq(Tokens) /\ out.text \in Seq(Tokens)
  BY <1>6, BracketType DEF Outs
<1>8. PICK base : base = out.text \o open
  OBVIOUS
<1>9. base \in Seq(Tokens)
  BY <1>7, <1>8, ConcatProperties
<1> DEFINE Now(k, t) == /\ Lists(t, c, k) /\ h[k] \in Outs /\ h[k].started
                        /\ h[k].newchannel <=> (k = 0)
                        /\ h[k].text = base \o t
           T == {k \in Nat : k <= n => \E t \in Seq(Tokens) : Now(k, t)}
<1>10. T = Nat
  <2>1. 0 \in T
    <3>1. PICK t : t = <<>>
      OBVIOUS
    <3>2. t \in Seq(Tokens) /\ Len(t) = 0
      BY <3>1
    <3>3. /\ h[0] \in Outs /\ h[0].started /\ h[0].newchannel /\ h[0].text = out.text \o open
      <4>1. /\ epg_header_footer(out, TRUE, TRUE) \in Outs
            /\ epg_header_footer(out, TRUE, TRUE).started
            /\ epg_header_footer(out, TRUE, TRUE).newchannel
            /\ epg_header_footer(out, TRUE, TRUE).text = out.text \o Bar("open", TRUE)
        BY RowOpens
      <4> QED
        BY <1>4, <1>6, <4>1
    <3>4. base \o t = base
      BY <1>9, <3>1, ConcatEmptySeq
    <3>5. Lists(t, c, 0)
      BY <3>2 DEF Lists
    <3>6. Now(0, t)
      BY <1>8, <3>3, <3>4, <3>5
    <3> HIDE DEF Now
    <3> QED
      BY <3>2, <3>6
  <2>2. ASSUME NEW k \in T PROVE k + 1 \in T
    <3> SUFFICES ASSUME k + 1 <= n PROVE \E t \in Seq(Tokens) : Now(k + 1, t)
      <4> HIDE DEF Now
      <4> QED
        OBVIOUS
    <3>1. k + 1 \in 1 .. n /\ (k + 1) - 1 = k /\ k <= n /\ k \in Nat /\ k + 1 # 0
      BY <1>2
    <3>2. PICK t \in Seq(Tokens) : Now(k, t)
      BY <3>1
    <3>3. PICK e : e = Events[c][k + 1]
      OBVIOUS
    <3>4. h[k + 1] = epg_event(h[k], c, e)
      BY <1>4, <3>1, <3>3
    <3>5. PICK name : name = IF k = 0 /\ client.fmt = "html" THEN <<Token("name", c)>> ELSE <<>>
      OBVIOUS
    <3>6. PICK event : event = <<Token("event", e)>>
      OBVIOUS
    <3>7. /\ name \o event \in Seq(Tokens) /\ t \o (name \o event) \in Seq(Tokens)
          /\ Lists(t \o (name \o event), c, k + 1)
      <4>1. k + 1 <= Len(Events[c])
        BY <1>5, <3>1
      <4>2. Lists(t, c, k)
        BY <3>2
      <4>3. event = <<Token("event", Events[c][k + 1])>>
        BY <3>3, <3>6
      <4> QED
        BY <3>1, <3>5, <4>1, <4>2, <4>3, ListsMore
    <3>8. PICK o : o = h[k]
      OBVIOUS
    <3>9. o \in Outs /\ o.started /\ (o.newchannel <=> (k = 0)) /\ o.text = base \o t
      BY <3>2, <3>8
    <3>10. PICK s : s = name \o event
      OBVIOUS
    <3>11. o.text \o s = base \o (t \o s)
      <4>1. s \in Seq(Tokens)
        BY <3>7, <3>10
      <4>2. (base \o t) \o s = base \o (t \o s)
        BY <1>9, <4>1, InTurn, ZenonT(60)
      <4> QED
        BY <3>9, <4>2
    <3>12. t \o s \in Seq(Tokens) /\ base \o (t \o s) \in Seq(Tokens)
      BY <1>9, <3>7, <3>10, ConcatProperties
    <3>13. name = IF o.newchannel /\ client.fmt = "html" THEN <<Token("name", c)>> ELSE <<>>
      BY <3>5, <3>9
    <3>14. PICK u : u = base \o (t \o s)
      OBVIOUS
    <3>15. EventText(o, c, e) = s
      BY <3>6, <3>10, <3>13 DEF EventText
    <3>16. u = o.text \o EventText(o, c, e)
      BY <3>11, <3>14, <3>15
    <3>17. u \in Seq(Tokens)
      BY <3>12, <3>14
    <3>18. o \in Outs
      BY <3>9
    <3>19. o.started
      BY <3>9
    <3>20. /\ epg_event(o, c, e) \in Outs
           /\ epg_event(o, c, e).started /\ ~epg_event(o, c, e).newchannel
           /\ epg_event(o, c, e).text = u
      <4> HIDE DEF Now, T
      <4> QED
        BY <3>16, <3>17, <3>18, <3>19, EventIs
    <3>21. Now(k + 1, t \o s)
      BY <3>1, <3>4, <3>7, <3>8, <3>10, <3>14, <3>20
    <3> HIDE DEF Now
    <3> QED
      BY <3>12, <3>21
  <2>3. T \in SUBSET Nat
    OBVIOUS
  <2> HIDE DEF T
  <2> QED
    BY <2>1, <2>2, <2>3, Induct
<1>11. PICK t \in Seq(Tokens) : Now(n, t)
  <2>1. n \in T /\ n <= n
    <3> HIDE DEF T
    <3> QED
      BY <1>2, <1>10
  <2> HIDE DEF Now
  <2> QED
    BY <2>1
<1>12. Good(open \o t \o shut)
  BY <1>5, <1>6, <1>11, RowGood
<1>13. PICK o : o = h[n]
  OBVIOUS
<1>14. o \in Outs /\ o.started /\ o.text = base \o t
  BY <1>11, <1>13
<1>15. /\ DumpChannel(out, c) \in Outs /\ DumpChannel(out, c).started
       /\ DumpChannel(out, c).text = o.text \o shut
  <2>1. DumpChannel(out, c) = epg_header_footer(o, FALSE, TRUE)
    BY <1>4, <1>13
  <2>2. o \in Outs
    BY <1>14
  <2>3. o.started
    BY <1>14
  <2>4. /\ epg_header_footer(o, FALSE, TRUE) \in Outs
        /\ epg_header_footer(o, FALSE, TRUE).started
        /\ epg_header_footer(o, FALSE, TRUE).text = o.text \o Bar("shut", TRUE)
    BY <2>2, <2>3, RowShuts
  <2> QED
    BY <1>6, <2>1, <2>4
<1>16. PICK first : first = out.text
  OBVIOUS
<1>17. first \in Seq(Tokens) /\ base = first \o open
  BY <1>7, <1>8, <1>16
<1>18. (base \o t) \o shut = first \o (open \o t \o shut)
  <2>1. (first \o open) \o t = first \o (open \o t)
    BY <1>7, <1>17, InTurn, ZenonT(60)
  <2>2. open \o t \in Seq(Tokens)
    BY <1>7, ConcatProperties
  <2>3. (first \o (open \o t)) \o shut = first \o ((open \o t) \o shut)
    BY <1>7, <1>17, <2>2, InTurn, ZenonT(60)
  <2> QED
    BY <1>17, <2>1, <2>3
<1> QED
  BY <1>12, <1>14, <1>15, <1>16, <1>18 DEF Grows

\* Nothing added, or two things in turn.
LEMMA GrowsNot ==
  ASSUME NEW out \in Outs
  PROVE  Grows(out, out)
<1>1. PICK first : first = out.text
  OBVIOUS
<1>2. first \in Seq(Tokens)
  BY <1>1 DEF Outs
<1>3. first \o <<>> = first
  BY <1>2, ConcatEmptySeq
<1> QED
  BY <1>1, <1>3, GoodEmpty DEF Grows

LEMMA GrowsMore ==
  ASSUME NEW a \in Outs, NEW b, NEW c, Grows(a, b), Grows(b, c)
  PROVE  Grows(a, c)
<1>1. PICK s : Good(s) /\ b.text = a.text \o s
  BY DEF Grows
<1>2. PICK t : Good(t) /\ c.text = b.text \o t
  BY DEF Grows
<1>3. PICK first : first = a.text
  OBVIOUS
<1>4. first \in Seq(Tokens)
  BY <1>3 DEF Outs
<1>5. s \in Seq(Tokens) /\ t \in Seq(Tokens)
  BY <1>1, <1>2 DEF Good
<1>6. (first \o s) \o t = first \o (s \o t)
  BY <1>4, <1>5, InTurn, ZenonT(60)
<1>7. Good(s \o t)
  BY <1>1, <1>2, GoodConcat
<1>8. c.text = a.text \o (s \o t)
  BY <1>1, <1>2, <1>3, <1>6
<1> QED
  BY <1>7, <1>8 DEF Grows

\* ... and so does dump_epg ...
LEMMA PageText ==
  ASSUME client.fmt \in Text, NEW out \in Outs, NEW m \in Muxes
  PROVE  Grows(out, dump_epg(out, m))
<1>1. PICK seq : seq = Channels[m]
  OBVIOUS
<1>2. seq \in Seq(DOMAIN Events)
  BY <1>1, ReplyAssumption DEF ReplyAssumption
<1>3. PICK open, shut : open = Bar("open", FALSE) /\ shut = Bar("shut", FALSE)
  OBVIOUS
<1>4. open \in Seq(Tokens) /\ shut \in Seq(Tokens)
  BY <1>3, BracketType
<1>5. PICK b : b = epg_header_footer(out, TRUE, FALSE)
  OBVIOUS
<1>6. b \in Outs /\ b.started /\ b.text = out.text \o open
  <2>1. /\ epg_header_footer(out, TRUE, FALSE) \in Outs
        /\ epg_header_footer(out, TRUE, FALSE).started
        /\ epg_header_footer(out, TRUE, FALSE).text = out.text \o Bar("open", FALSE)
    BY PageOpens
  <2> QED
    BY <1>3, <1>5, <2>1
<1>7. PICK h : /\ h[0] = b /\ h[Len(seq)] = Rowed(b, seq)
               /\ \A k \in 1 .. Len(seq) : h[k] = DumpChannel(h[k - 1], seq[k])
  BY <1>2, RowSteps
<1>8. dump_epg(out, m) = epg_header_footer(h[Len(seq)], FALSE, FALSE)
  BY <1>1, <1>5, <1>7 DEF dump_epg, Rowed
<1> DEFINE n == Len(seq)
<1>9. n \in Nat /\ \A k \in 1 .. n : seq[k] \in DOMAIN Events
  BY <1>2
<1>10. h[0] = b /\ dump_epg(out, m) = epg_header_footer(h[n], FALSE, FALSE)
       /\ \A k \in 1 .. n : h[k] = DumpChannel(h[k - 1], seq[k])
  BY <1>7, <1>8
<1> HIDE DEF n
<1> DEFINE T == {k \in Nat : k <= n => Grows(b, h[k])}
<1>11. T = Nat
  <2>1. 0 \in T
    BY <1>6, <1>10, GrowsNot
  <2>2. ASSUME NEW k \in T PROVE k + 1 \in T
    <3> SUFFICES ASSUME k + 1 <= n PROVE Grows(b, h[k + 1])
      OBVIOUS
    <3>1. k + 1 \in 1 .. n /\ (k + 1) - 1 = k /\ k <= n
      BY <1>9
    <3>2. Grows(b, h[k])
      BY <3>1
    <3>3. PICK o : o = h[k]
      OBVIOUS
    <3>4. o \in Outs /\ o.started
      BY <1>6, <3>2, <3>3 DEF Grows
    <3>5. PICK c : c = seq[k + 1]
      OBVIOUS
    <3>6. c \in DOMAIN Events
      BY <1>9, <3>1, <3>5
    <3>7. Grows(o, DumpChannel(o, c))
      <4>1. o \in Outs
        BY <3>4
      <4>2. o.started
        BY <3>4
      <4> QED
        BY <3>6, <4>1, <4>2, ChannelText
    <3>8. h[k + 1] = DumpChannel(o, c)
      BY <1>10, <3>1, <3>3, <3>5
    <3>9. b \in Outs
      BY <1>6
    <3>10. Grows(b, DumpChannel(o, c))
      BY <3>2, <3>3, <3>7, <3>9, GrowsMore
    <3> QED
      BY <3>8, <3>10
  <2>3. T \in SUBSET Nat
    OBVIOUS
  <2> HIDE DEF T
  <2> QED
    BY <2>1, <2>2, <2>3, Induct
<1>12. Grows(b, h[n])
  <2>1. n \in T
    <3> HIDE DEF T
    <3> QED
      BY <1>9, <1>11
  <2> QED
    BY <1>9, <2>1
<1>13. PICK o : o = h[n]
  OBVIOUS
<1>14. PICK t : Good(t) /\ o.text = b.text \o t
  BY <1>12, <1>13 DEF Grows
<1>15. o \in Outs /\ o.started
  BY <1>6, <1>12, <1>13 DEF Grows
<1>16. /\ dump_epg(out, m) \in Outs /\ dump_epg(out, m).started
       /\ dump_epg(out, m).text = o.text \o shut
  <2>1. dump_epg(out, m) = epg_header_footer(o, FALSE, FALSE)
    BY <1>10, <1>13
  <2>2. o \in Outs
    BY <1>15
  <2>3. o.started
    BY <1>15
  <2>4. /\ epg_header_footer(o, FALSE, FALSE) \in Outs
        /\ epg_header_footer(o, FALSE, FALSE).started
        /\ epg_header_footer(o, FALSE, FALSE).text = o.text \o Bar("shut", FALSE)
    BY <2>2, <2>3, PageShuts
  <2> QED
    BY <1>3, <2>1, <2>4
<1>17. PICK first : first = out.text
  OBVIOUS
<1>18. first \in Seq(Tokens) /\ t \in Seq(Tokens)
  BY <1>14, <1>17 DEF Outs, Good
<1>19. (first \o open \o t) \o shut = first \o (open \o t \o shut)
  <2>1. (first \o open) \o t = first \o (open \o t)
    BY <1>4, <1>18, InTurn, ZenonT(60)
  <2>2. PICK mid : mid = open \o t
    OBVIOUS
  <2>3. mid \in Seq(Tokens)
    BY <1>4, <1>18, <2>2, ConcatProperties
  <2>4. (first \o mid) \o shut = first \o (mid \o shut)
    BY <1>4, <1>18, <2>3, InTurn, ZenonT(60)
  <2> QED
    BY <2>1, <2>2, <2>4
<1>20. Good(open \o t \o shut)
  BY <1>3, <1>14, PageGood
<1>21. dump_epg(out, m).text = out.text \o (open \o t \o shut)
  BY <1>6, <1>14, <1>16, <1>17, <1>19
<1> QED
  BY <1>16, <1>20, <1>21 DEF Grows

\* ... and epg_dump, whatever the parser knows.
LEMMA GuideText ==
  ASSUME client.fmt \in Text, NEW out \in Outs, NEW p, known[p] \in SUBSET Muxes
  PROVE  Grows(out, epg_dump(out, p))
<1>1. PICK seq : seq = InOrder(p)
  OBVIOUS
<1>2. seq \in Seq(Muxes)
  <2>1. known[p] \in SUBSET Nat /\ IsFiniteSet(known[p])
    BY ReplyAssumption, FS_Subset DEF ReplyAssumption
  <2>2. seq \in [1 .. Cardinality(known[p]) -> known[p]]
    BY <1>1, <2>1, Ascends DEF InOrder
  <2>3. Cardinality(known[p]) \in Nat
    BY <2>1, FS_CardinalityType
  <2> QED
    BY <2>2, <2>3
<1>3. PICK h : /\ h[0] = out /\ h[Len(seq)] = Paged(out, seq)
               /\ \A k \in 1 .. Len(seq) : h[k] = dump_epg(h[k - 1], seq[k])
  BY <1>2, PageSteps
<1>4. epg_dump(out, p) = h[Len(seq)]
  BY <1>1, <1>3 DEF epg_dump, Paged
<1> DEFINE n == Len(seq)
<1>5. n \in Nat /\ \A k \in 1 .. n : seq[k] \in Muxes
  BY <1>2
<1>6. h[0] = out /\ epg_dump(out, p) = h[n]
       /\ \A k \in 1 .. n : h[k] = dump_epg(h[k - 1], seq[k])
  BY <1>3, <1>4
<1> HIDE DEF n
<1> DEFINE T == {k \in Nat : k <= n => Grows(out, h[k])}
<1>7. T = Nat
  <2>1. 0 \in T
    BY <1>6, GrowsNot
  <2>2. ASSUME NEW k \in T PROVE k + 1 \in T
    <3> SUFFICES ASSUME k + 1 <= n PROVE Grows(out, h[k + 1])
      OBVIOUS
    <3>1. k + 1 \in 1 .. n /\ (k + 1) - 1 = k /\ k <= n
      BY <1>5
    <3>2. Grows(out, h[k])
      BY <3>1
    <3>3. PICK o, m : o = h[k] /\ m = seq[k + 1]
      OBVIOUS
    <3>4. o \in Outs
      BY <3>2, <3>3 DEF Grows
    <3>5. m \in Muxes
      BY <1>5, <3>1, <3>3
    <3>6. Grows(o, dump_epg(o, m))
      BY <3>4, <3>5, PageText
    <3>7. h[k + 1] = dump_epg(o, m)
      BY <1>6, <3>1, <3>3
    <3>8. Grows(out, dump_epg(o, m))
      BY <3>2, <3>3, <3>6, GrowsMore
    <3> QED
      BY <3>7, <3>8
  <2>3. T \in SUBSET Nat
    OBVIOUS
  <2> HIDE DEF T
  <2> QED
    BY <2>1, <2>2, <2>3, Induct
<1>8. n \in T
  <2> HIDE DEF T
  <2> QED
    BY <1>5, <1>7
<1> QED
  BY <1>5, <1>6, <1>8

-----------------------------------------------------------------------------
(* Texts that open nothing, and complete replies.                          *)

\* A list of channels
Listing(dump) == FlattenSeq([i \in DOMAIN dump |-> chandump(dump[i])])
\* A text that may go out anywhere.
Quiet(t) == t \in Seq(Tokens) /\ Whole(t) /\ Rows(t)

\* A list of channels is one.
LEMMA ListingQuiet ==
  ASSUME client.fmt \in Text, NEW dump \in Seq(DOMAIN Events)
  PROVE  Quiet(Listing(dump))
<1> DEFINE seqs == [i \in DOMAIN dump |-> chandump(dump[i])]
           Names == {Token("channel", c) : c \in DOMAIN Events}
<1>1. DOMAIN dump = 1 .. Len(dump) /\ Len(dump) \in Nat /\ \A i \in 1 .. Len(dump) : dump[i] \in DOMAIN Events
  OBVIOUS
<1>2. ASSUME NEW i \in DOMAIN dump
      PROVE  chandump(dump[i]) \in Seq(Names)
  <2>1. PICK x : x = Token("channel", dump[i])
    OBVIOUS
  <2>2. x \in Names
    BY <1>1, <2>1
  <2>3. <<x>> \in Seq(Names)
    BY <2>2
  <2> QED
    BY <2>1, <2>3 DEF chandump
<1>3. seqs \in [1 .. Len(dump) -> Seq(Names)]
  <2> HIDE DEF Names
  <2> QED
    BY <1>1, <1>2
<1>4. seqs \in Seq(Seq(Names))
  <2> HIDE DEF Names, seqs
  <2> QED
    BY <1>1, <1>3
<1>5. PICK t : t = Listing(dump)
  OBVIOUS
<1>6. t \in Seq(Names)
  <2>1. t = FlattenSeq(seqs)
    BY <1>5 DEF Listing
  <2> HIDE DEF Names, seqs
  <2>2. FlattenSeq(seqs) \in Seq(Names)
    BY <1>4, FlattenNames
  <2> QED
    BY <2>1, <2>2
<1>7. \A x \in Names : x \in Tokens /\ x.is = "channel"
  <2> SUFFICES ASSUME NEW c \in DOMAIN Events
               PROVE  Token("channel", c) \in Tokens /\ Token("channel", c).is = "channel"
    OBVIOUS
  <2>1. c \in Words /\ "channel" \in Kinds
    BY DEF Words, Kinds
  <2> QED
    BY <2>1, TokenType
<1> HIDE DEF Names
<1>8. t \in Seq(Tokens) /\ \A i \in 1 .. Len(t) : t[i].is = "channel"
  BY <1>6, <1>7
<1>9. t \in Seq(Tokens)
  BY <1>8
<1>10. \A i \in 1 .. Len(t) : t[i].is \in {"name", "channel", "video"}
  BY <1>8
<1>11. Whole(t)
  BY <1>9, <1>10, QuietNested DEF Whole
<1>12. Rows(t)
  <2>1. \A i \in DOMAIN t : t[i].is # "open" \/ t[i].of # "row"
    BY <1>8
  <2> QED
    BY <2>1, NoRow
<1> QED
  BY <1>5, <1>9, <1>11, <1>12 DEF Quiet

-----------------------------------------------------------------------------
(* What was sent: Body before the reply is complete, with what is open in  *)
(* it, and Complete after that.                                            *)

Body(s, open) == \E b \in Seq(Tokens) : s = <<Header>> \o b /\ Nested(<<>>, b) = open
Complete(s) == \E b \in Seq(Tokens) : s = (<<Header>> \o b) \o <<LastChunk, ConnClose>> /\ Nested(<<>>, b) = <<>>

\* What a reply begins and ends with.
LEMMA EndTokens ==
  /\ Header \in Tokens /\ LastChunk \in Tokens /\ ConnClose \in Tokens
  /\ <<Header>> \in Seq(Tokens) /\ <<LastChunk, ConnClose>> \in Seq(Tokens)
<1>1. "" \in Words /\ "head" \in Kinds /\ "last" \in Kinds /\ "close_connection" \in Kinds
  BY DEF Words, Kinds
<1>2. Header \in Tokens /\ LastChunk \in Tokens /\ ConnClose \in Tokens
  BY <1>1, TokenType DEF Header, LastChunk, ConnClose
<1>3. PICK x, y, z : x = Header /\ y = LastChunk /\ z = ConnClose
  OBVIOUS
<1>4. x \in Tokens /\ y \in Tokens /\ z \in Tokens
  BY <1>2, <1>3
<1>5. <<x>> \in Seq(Tokens) /\ <<y, z>> \in Seq(Tokens)
  BY <1>4
<1> QED
  BY <1>2, <1>3, <1>5

\* The header alone.
LEMMA BodyBegins == Body(<<Header>>, <<>>)
<1>1. PICK b : b = <<>>
  OBVIOUS
<1>2. b \in Seq(Tokens) /\ Nested(<<>>, b) = <<>>
  BY <1>1, NestedEmpty
<1>3. <<Header>> \o b = <<Header>>
  BY <1>1, EndTokens, ConcatEmptySeq
<1> QED
  BY <1>2, <1>3 DEF Body

\* A reply goes on.
LEMMA BodyMore ==
  ASSUME NEW s, NEW open, Body(s, open), NEW t \in Seq(Tokens)
  PROVE  Body(s \o t, Nested(open, t))
<1>1. PICK b \in Seq(Tokens) : s = <<Header>> \o b /\ Nested(<<>>, b) = open
  BY DEF Body
<1>2. PICK c : c = b \o t
  OBVIOUS
<1>3. c \in Seq(Tokens)
  BY <1>2, ConcatProperties
<1>4. PICK hd : hd = <<Header>>
  OBVIOUS
<1>5. hd \in Seq(Tokens)
  BY <1>4, EndTokens
<1>6. (hd \o b) \o t = hd \o (b \o t)
  BY <1>5, InTurn, ZenonT(60)
<1>7. Nested(<<>>, b \o t) = Nested(Nested(<<>>, b), t)
  BY NestedConcat
<1> QED
  BY <1>1, <1>2, <1>3, <1>4, <1>6, <1>7 DEF Body

\* A part of a sequence
LEMMA PartIs ==
  ASSUME NEW S, NEW s \in Seq(S), NEW a \in Int, NEW z \in Int, 1 <= a, z <= Len(s),
         NEW t \in Seq(S), Len(t) = z - a + 1, \A i \in 1 .. Len(t) : s[a + i - 1] = t[i]
  PROVE  SubSeq(s, a, z) = t
<1>1. \A i \in a .. z : s[i] \in S
  <2> SUFFICES ASSUME NEW i \in a .. z PROVE s[i] \in S
    OBVIOUS
  <2>1. i \in 1 .. Len(s)
    OBVIOUS
  <2> QED
    BY <2>1
<1>2. PICK u : u = SubSeq(s, a, z)
  OBVIOUS
<1>3. /\ SubSeq(s, a, z) \in Seq(S)
      /\ Len(SubSeq(s, a, z)) = IF a <= z THEN z - a + 1 ELSE 0
      /\ \A i \in 1 .. z - a + 1 : SubSeq(s, a, z)[i] = s[a + i - 1]
  BY <1>1, SubSeqProperties
<1>4. Len(t) \in Nat
  OBVIOUS
<1>5. u \in Seq(S) /\ Len(u) = Len(t) /\ \A i \in 1 .. Len(t) : u[i] = s[a + i - 1]
  <2>1. (IF a <= z THEN z - a + 1 ELSE 0) = Len(t)
    BY <1>4
  <2> QED
    BY <1>2, <1>3, <2>1
<1>6. u \in Seq(S)
  BY <1>5
<1>7. \A i \in 1 .. Len(u) : u[i] = t[i]
  BY <1>5
<1>8. Len(u) = Len(t)
  BY <1>5
<1> QED
  BY <1>2, <1>6, <1>7, <1>8, SeqEqual

\* A complete reply is framed ...
LEMMA CompleteFramed ==
  ASSUME NEW s, Complete(s)
  PROVE  /\ Len(s) >= 3 /\ s[1] = Header
         /\ SubSeq(s, Len(s) - 1, Len(s)) = <<LastChunk, ConnClose>>
         /\ FoldLeft(Nest, <<>>, SubSeq(s, 2, Len(s) - 2)) = <<>>
<1>1. PICK b \in Seq(Tokens) : s = (<<Header>> \o b) \o <<LastChunk, ConnClose>> /\ Nested(<<>>, b) = <<>>
  BY DEF Complete
<1>2. PICK hd, tl : hd = <<Header>> /\ tl = <<LastChunk, ConnClose>>
  OBVIOUS
<1>3. hd \in Seq(Tokens) /\ tl \in Seq(Tokens)
  BY <1>2, EndTokens
<1>4. Len(hd) = 1 /\ hd[1] = Header /\ Len(tl) = 2 /\ tl[1] = LastChunk /\ tl[2] = ConnClose
  BY <1>2
<1>5. PICK f : f = hd \o b
  OBVIOUS
<1> DEFINE m == Len(b)
<1>6. m \in Nat
  OBVIOUS
<1>7. f \in Seq(Tokens) /\ Len(f) = 1 + m
      /\ \A i \in 1 .. 1 + m : f[i] = IF i <= 1 THEN hd[i] ELSE b[i - 1]
  <2>1. /\ hd \o b \in Seq(Tokens) /\ Len(hd \o b) = Len(hd) + Len(b)
        /\ \A i \in 1 .. Len(hd) + Len(b) : (hd \o b)[i] = IF i <= Len(hd) THEN hd[i] ELSE b[i - Len(hd)]
    BY <1>3, ConcatProperties
  <2> QED
    BY <1>4, <1>5, <2>1
<1>8. s = f \o tl
  BY <1>1, <1>2, <1>5
<1> HIDE DEF m
<1>9. s \in Seq(Tokens) /\ Len(s) = m + 3
      /\ \A i \in 1 .. m + 3 : s[i] = IF i <= m + 1 THEN f[i] ELSE tl[i - (m + 1)]
  <2>1. f \in Seq(Tokens)
    BY <1>7
  <2>2. /\ f \o tl \in Seq(Tokens) /\ Len(f \o tl) = Len(f) + Len(tl)
        /\ \A i \in 1 .. Len(f) + Len(tl) : (f \o tl)[i] = IF i <= Len(f) THEN f[i] ELSE tl[i - Len(f)]
    BY <1>3, <2>1, ConcatProperties
  <2>3. Len(f) + Len(tl) = m + 3 /\ Len(f) = m + 1
    BY <1>4, <1>6, <1>7
  <2> QED
    BY <1>8, <2>2, <2>3
<1>10. s[1] = Header
  <2>1. 1 \in 1 .. m + 3 /\ 1 <= m + 1 /\ 1 \in 1 .. 1 + m /\ 1 <= 1
    BY <1>6
  <2> QED
    BY <1>4, <1>7, <1>9, <2>1
<1>11. SubSeq(s, m + 2, m + 3) = <<LastChunk, ConnClose>>
  <2>1. PICK a, z : a = m + 2 /\ z = m + 3
    OBVIOUS
  <2>2. a \in Int /\ z \in Int /\ 1 <= a /\ z <= Len(s) /\ Len(tl) = z - a + 1
    BY <1>4, <1>6, <1>9, <2>1
  <2>3. \A i \in 1 .. Len(tl) : s[a + i - 1] = tl[i]
    <3> SUFFICES ASSUME NEW i \in 1 .. Len(tl) PROVE s[a + i - 1] = tl[i]
      OBVIOUS
    <3>1. a + i - 1 \in 1 .. m + 3 /\ ~(a + i - 1 <= m + 1) /\ (a + i - 1) - (m + 1) = i
      BY <1>4, <1>6, <2>1
    <3> QED
      BY <1>9, <3>1
  <2>4. s \in Seq(Tokens)
    BY <1>9
  <2>5. SubSeq(s, a, z) = tl
    BY <1>3, <2>2, <2>3, <2>4, PartIs
  <2> QED
    BY <1>2, <2>1, <2>5
<1>12. SubSeq(s, 2, m + 1) = b
  <2>1. PICK a, z : a = 2 /\ z = m + 1
    OBVIOUS
  <2>2. a \in Int /\ z \in Int /\ 1 <= a /\ z <= Len(s) /\ Len(b) = z - a + 1
    BY <1>6, <1>9, <2>1 DEF m
  <2>3. \A i \in 1 .. Len(b) : s[a + i - 1] = b[i]
    <3> SUFFICES ASSUME NEW i \in 1 .. m PROVE s[a + i - 1] = b[i]
      BY DEF m
    <3>1. a + i - 1 \in 1 .. m + 3 /\ a + i - 1 <= m + 1 /\ a + i - 1 \in 1 .. 1 + m
          /\ ~(a + i - 1 <= 1) /\ (a + i - 1) - 1 = i
      BY <1>6, <2>1
    <3> QED
      BY <1>7, <1>9, <3>1
  <2>4. s \in Seq(Tokens)
    BY <1>9
  <2>5. SubSeq(s, a, z) = b
    BY <2>2, <2>3, <2>4, PartIs
  <2> QED
    BY <2>1, <2>5
<1>13. Len(s) >= 3 /\ Len(s) - 1 = m + 2 /\ Len(s) - 2 = m + 1 /\ Len(s) = m + 3
  BY <1>6, <1>9
<1>14. FoldLeft(Nest, <<>>, b) = <<>>
  BY <1>1 DEF Nested
<1> QED
  BY <1>10, <1>11, <1>12, <1>13, <1>14

\* ... and a whole row, wherever it is found, has the name of its events.
LEMMA RowsAreNamed ==
  ASSUME NEW s \in Seq(Tokens), Rows(s), NEW i \in DOMAIN s, NEW j \in DOMAIN s,
         i < j, s[i] = Token("open", "row"), s[j] = Token("shut", "row"),
         \A k \in i + 1 .. j - 1 : s[k].of # "row"
  PROVE  \/ j = i + 1
         \/ /\ s[i + 1].is = "name"
            /\ [k \in 1 .. j - i - 2 |-> s[i + 1 + k].of] = Events[s[i + 1].of]
<1>1. PICK l \in DOMAIN s : RowAt(s, i, l)
  BY DEF Rows
<1>2. i \in Nat /\ j \in Nat /\ l \in Nat
  OBVIOUS
<1>3. /\ i < l /\ s[l] = Token("shut", "row")
      /\ \A k \in i + 1 .. l - 1 : s[k].is \notin {"open", "shut"}
  BY <1>1 DEF RowAt
<1>4. Token("shut", "row").is = "shut" /\ Token("shut", "row").of = "row"
  BY DEF Token
<1>5. ~(l < j)
  BY <1>2, <1>3, <1>4
<1>6. ~(j < l)
  <2>1. ASSUME j < l PROVE FALSE
    <3>1. j \in i + 1 .. l - 1
      BY <1>2, <2>1
    <3>2. s[j].is = "shut"
      BY <1>4
    <3> QED
      BY <1>3, <3>1, <3>2
  <2> QED
    BY <2>1
<1>7. j = l
  BY <1>2, <1>5, <1>6
<1> QED
  BY <1>1, <1>7 DEF RowAt

-----------------------------------------------------------------------------
(* What each command may send where the thread is.                         *)

\* What is open in the reply when the thread is at a place
OpenIn(at, fmt) ==
  IF at \in {"xmltv", "epg"} \/ (at = "channels" /\ fmt = "xml") THEN <<"tv">>
  ELSE IF at = "channels" /\ fmt = "json" THEN <<"page">> ELSE <<>>

\* A text that may be sent on the way to the place next
Fits(text, next) ==
  /\ text \in Seq(Tokens)
  /\ Nested(OpenIn(thread.at, client.fmt), text) = OpenIn(next, client.fmt)
  /\ client.fmt = "html" => Rows(text)

\* What is opened in a reply with nothing open, and shut.
LEMMA OpenShut ==
  ASSUME NEW w \in Words
  PROVE  /\ Nested(<<>>, <<Token("open", w)>>) = <<w>> /\ Nested(<<w>>, <<Token("shut", w)>>) = <<>>
         /\ <<w>> \in Seq(Words) /\ <<w>> # <<>>
<1>1. PICK open, shut : open = Token("open", w) /\ shut = Token("shut", w)
  OBVIOUS
<1>2. open.is = "open" /\ shut.is = "shut" /\ open.of = w /\ shut.of = w
  BY <1>1 DEF Token
<1>3. PICK o : o = <<>>
  OBVIOUS
<1>4. o \in Seq(Words)
  BY <1>3
<1>5. Append(o, w) = <<w>>
  BY <1>3
<1>6. Nested(o, <<open>>) = Append(o, w)
  BY <1>2, NestedOne DEF Nest
<1>7. Last(Append(o, w)) = w /\ Front(Append(o, w)) = o
  BY <1>4, FrontOfAppend
<1>8. <<w>> \in Seq(Words) /\ <<w>> # <<>>
  OBVIOUS
<1>9. Nest(<<w>>, shut) = o
  BY <1>2, <1>5, <1>7, <1>8 DEF Nest
<1>10. Nested(<<w>>, <<shut>>) = o
  BY <1>9, NestedOne
<1> QED
  BY <1>1, <1>3, <1>5, <1>6, <1>8, <1>10

\* What can be open is a sequence of words.
LEMMA OpenType ==
  ASSUME NEW at, NEW fmt
  PROVE  OpenIn(at, fmt) \in Seq(Words)
<1>1. "tv" \in Words /\ "page" \in Words
  BY DEF Words
<1>2. <<"tv">> \in Seq(Words) /\ <<"page">> \in Seq(Words) /\ <<>> \in Seq(Words)
  BY <1>1
<1> QED
  BY <1>2 DEF OpenIn

\* Tv and Bracket of the places
LEMMA PlaceTokens ==
  /\ \A is \in {"open", "shut"} : Tv(is) = <<Token(is, "tv")>> /\ Bracket(is, FALSE) = <<Token(is, "page")>>
  /\ \A is \in {"open", "shut"} : Rows(Tv(is)) /\ Rows(Bracket(is, FALSE)) /\ Tv(is) \in Seq(Tokens) /\ Bracket(is, FALSE) \in Seq(Tokens)
  /\ Nested(<<>>, Tv("open")) = <<"tv">> /\ Nested(<<"tv">>, Tv("shut")) = <<>>
  /\ Nested(<<>>, Bracket("open", FALSE)) = <<"page">> /\ Nested(<<"page">>, Bracket("shut", FALSE)) = <<>>
<1>1. \A is \in {"open", "shut"} : Tv(is) = <<Token(is, "tv")>> /\ Bracket(is, FALSE) = <<Token(is, "page")>>
  BY DEF Tv, Bracket
<1>2. ASSUME NEW is \in {"open", "shut"}
      PROVE  Rows(<<Token(is, "tv")>>) /\ Rows(<<Token(is, "page")>>)
  BY PageRows
<1>3. ASSUME NEW is \in {"open", "shut"}
      PROVE  Tv(is) \in Seq(Tokens) /\ Bracket(is, FALSE) \in Seq(Tokens)
  BY BracketType
<1>4. "tv" \in Words /\ "page" \in Words
  BY DEF Words
<1>5. Nested(<<>>, <<Token("open", "tv")>>) = <<"tv">> /\ Nested(<<"tv">>, <<Token("shut", "tv")>>) = <<>>
  BY <1>4, OpenShut
<1>6. Nested(<<>>, <<Token("open", "page")>>) = <<"page">> /\ Nested(<<"page">>, <<Token("shut", "page")>>) = <<>>
  BY <1>4, OpenShut
<1> QED
  BY <1>1, <1>2, <1>3, <1>5, <1>6

\* A quiet text fits wherever as much is open before as after.
LEMMA QuietFits ==
  ASSUME NEW t, Quiet(t), NEW next, OpenIn(next, client.fmt) = OpenIn(thread.at, client.fmt)
  PROVE  Fits(t, next)
<1>1. OpenIn(thread.at, client.fmt) \in Seq(Words)
  BY OpenType
<1> QED
  BY <1>1 DEF Quiet, Whole, Fits

\* Silence.
LEMMA EmptyQuiet == Quiet(<<>>)
<1>1. Rows(<<>>)
  BY NoRow
<1>2. <<>> \in Seq(Tokens)
  OBVIOUS
<1>3. Whole(<<>>)
  BY NestedEmpty DEF Whole
<1> QED
  BY <1>1, <1>2, <1>3 DEF Quiet

\* Two texts, one after the other
LEMMA FitsTwo ==
  ASSUME NEW s \in Seq(Tokens), NEW t \in Seq(Tokens), NEW next, NEW mid,
         Nested(OpenIn(thread.at, client.fmt), s) = mid,
         Nested(mid, t) = OpenIn(next, client.fmt),
         client.fmt = "html" => Rows(s) /\ Rows(t)
  PROVE  Fits(s \o t, next)
<1>1. s \o t \in Seq(Tokens)
  BY ConcatProperties
<1>2. Nested(OpenIn(thread.at, client.fmt), s \o t) = Nested(Nested(OpenIn(thread.at, client.fmt), s), t)
  BY NestedConcat
<1>3. ASSUME client.fmt = "html" PROVE Rows(s \o t)
  <2>1. Rows(s)
    BY <1>3
  <2>2. Rows(t)
    BY <1>3
  <2> QED
    BY <2>1, <2>2, RowsConcat
<1> QED
  BY <1>1, <1>2, <1>3 DEF Fits

\* List, Load, XmltvGuide and Epg: each shuts what it, or the one before, opened.
LEMMA ListFits ==
  ASSUME client.fmt \in Text, At("command"), NEW names, Quiet(names), NEW cmd \in {"channels", "xmltv"},
         NEW open, open = CASE cmd = "xmltv" \/ client.fmt = "xml" -> Tv("open")
                            [] cmd = "channels" /\ client.fmt = "json" -> Bracket("open", FALSE)
                            [] OTHER -> <<>>
  PROVE  Fits(open \o names, cmd)
<1>1. thread.at = "command" /\ OpenIn(thread.at, client.fmt) = <<>>
  BY DEF At, OpenIn
<1>2. open \in Seq(Tokens) /\ Rows(open) /\ Nested(<<>>, open) = OpenIn(cmd, client.fmt)
  <2>1. CASE cmd = "xmltv" \/ client.fmt = "xml"
    <3>1. open = Tv("open") /\ OpenIn(cmd, client.fmt) = <<"tv">>
      BY <2>1 DEF OpenIn
    <3> QED
      BY <3>1, PlaceTokens
  <2>2. CASE ~(cmd = "xmltv" \/ client.fmt = "xml") /\ client.fmt = "json"
    <3>1. open = Bracket("open", FALSE) /\ OpenIn(cmd, client.fmt) = <<"page">>
      BY <2>2 DEF OpenIn
    <3> QED
      BY <3>1, PlaceTokens
  <2>3. CASE ~(cmd = "xmltv" \/ client.fmt = "xml") /\ client.fmt # "json"
    <3>1. open = <<>> /\ OpenIn(cmd, client.fmt) = <<>>
      BY <2>3 DEF OpenIn
    <3> QED
      BY <3>1, EmptyQuiet, NestedEmpty DEF Quiet
  <2> QED
    BY <2>1, <2>2, <2>3
<1>3. names \in Seq(Tokens) /\ Rows(names)
  BY DEF Quiet
<1>4. PICK mid : mid = OpenIn(cmd, client.fmt)
  OBVIOUS
<1>5. Nested(OpenIn(thread.at, client.fmt), open) = mid
  BY <1>1, <1>2, <1>4
<1>6. Nested(mid, names) = OpenIn(cmd, client.fmt)
  BY <1>4, OpenType DEF Quiet, Whole
<1>7. open \in Seq(Tokens)
  BY <1>2
<1>8. names \in Seq(Tokens)
  BY <1>3
<1>9. client.fmt = "html" => Rows(open) /\ Rows(names)
  BY <1>2, <1>3
<1> QED
  BY <1>5, <1>6, <1>7, <1>8, <1>9, FitsTwo

\* Load shuts what "channels" opened, and leaves what "xmltv" did.
LEMMA LoadFits ==
  ASSUME client.fmt \in Text, At("channels") \/ At("xmltv"), NEW names, Quiet(names),
         NEW shut, shut = CASE At("channels") /\ client.fmt = "xml" -> Tv("shut")
                            [] At("channels") /\ client.fmt = "json" -> Bracket("shut", FALSE)
                            [] OTHER -> <<>>
  PROVE  Fits(names \o shut, IF At("xmltv") THEN "epg" ELSE "command")
<1>1. PICK mid, next : mid = OpenIn(thread.at, client.fmt) /\ next = IF At("xmltv") THEN "epg" ELSE "command"
  OBVIOUS
<1>2. shut \in Seq(Tokens) /\ Rows(shut) /\ Nested(mid, shut) = OpenIn(next, client.fmt)
  <2>1. CASE At("channels") /\ client.fmt = "xml"
    <3>1. shut = Tv("shut") /\ mid = <<"tv">> /\ OpenIn(next, client.fmt) = <<>>
      BY <1>1, <2>1 DEF OpenIn, At
    <3> QED
      BY <3>1, PlaceTokens
  <2>2. CASE At("channels") /\ client.fmt = "json"
    <3>1. shut = Bracket("shut", FALSE) /\ mid = <<"page">> /\ OpenIn(next, client.fmt) = <<>>
      BY <1>1, <2>2 DEF OpenIn, At
    <3> QED
      BY <3>1, PlaceTokens
  <2>3. CASE ~(At("channels") /\ client.fmt \in {"xml", "json"})
    <3>1. shut = <<>> /\ OpenIn(next, client.fmt) = mid
      BY <1>1, <2>3 DEF OpenIn, At
    <3> QED
      BY <3>1, EmptyQuiet, NestedEmpty DEF Quiet
  <2> QED
    BY <2>1, <2>2, <2>3
<1>3. names \in Seq(Tokens)
  BY DEF Quiet
<1>4. Nested(OpenIn(thread.at, client.fmt), names) = mid
  BY <1>1, OpenType DEF Quiet, Whole
<1>5. shut \in Seq(Tokens)
  BY <1>2
<1>6. client.fmt = "html" => Rows(names) /\ Rows(shut)
  BY <1>2 DEF Quiet
<1>7. Nested(mid, shut) = OpenIn(next, client.fmt)
  BY <1>2
<1>8. Fits(names \o shut, next)
  BY <1>3, <1>4, <1>5, <1>6, <1>7, FitsTwo
<1> QED
  BY <1>1, <1>8

\* "xmltv" ends with the guide.
LEMMA GuideFits ==
  ASSUME client.fmt \in Text, At("epg"), NEW t, Good(t)
  PROVE  Fits(t \o Tv("shut"), "command")
<1>1. PICK mid, shut : mid = OpenIn(thread.at, client.fmt) /\ shut = Tv("shut")
  OBVIOUS
<1>2. mid = <<"tv">> /\ OpenIn("command", client.fmt) = <<>>
  BY <1>1 DEF At, OpenIn
<1>3. mid \in Seq(Words) /\ mid # <<>>
  <2>1. "tv" \in Words
    BY DEF Words
  <2>2. <<"tv">> \in Seq(Words) /\ <<"tv">> # <<>>
    BY <2>1, OpenShut
  <2> QED
    BY <1>2, <2>2
<1>4. Nested(OpenIn(thread.at, client.fmt), t) = mid
  BY <1>1, <1>3 DEF Good, Inside, Whole
<1>5. Nested(mid, shut) = OpenIn("command", client.fmt)
  BY <1>1, <1>2, PlaceTokens
<1>6. t \in Seq(Tokens)
  BY DEF Good
<1>7. shut \in Seq(Tokens)
  BY <1>1, PlaceTokens
<1>8. client.fmt = "html" => Rows(t) /\ Rows(shut)
  BY <1>1, PlaceTokens DEF Good
<1>9. Fits(t \o shut, "command")
  BY <1>4, <1>5, <1>6, <1>7, <1>8, FitsTwo
<1> QED
  BY <1>1, <1>9

\* "epg" has its own brackets.
LEMMA EpgFits ==
  ASSUME client.fmt \in Text, At("command"), NEW t, Good(t),
         NEW open, open = IF client.fmt = "xml" THEN Tv("open") ELSE <<>>,
         NEW shut, shut = IF client.fmt = "xml" THEN Tv("shut") ELSE <<>>
  PROVE  Fits((open \o t) \o shut, "command")
<1>1. OpenIn(thread.at, client.fmt) = <<>> /\ OpenIn("command", client.fmt) = <<>>
  BY DEF At, OpenIn
<1>2. t \in Seq(Tokens)
  BY DEF Good
<1>3. CASE client.fmt = "xml"
  <2>1. open = <<Token("open", "tv")>> /\ shut = <<Token("shut", "tv")>>
    BY <1>3 DEF Tv
  <2>2. Inside(t) /\ "tv" \in Words
    BY <1>3 DEF Good, Words
  <2>3. PICK r : r = <<Token("open", "tv")>> \o t \o <<Token("shut", "tv")>>
    OBVIOUS
  <2>4. r \in Seq(Tokens) /\ Whole(r)
    BY <1>2, <2>2, <2>3, BracketWhole
  <2>5. <<>> \in Seq(Words)
    OBVIOUS
  <2>6. Nested(<<>>, r) = <<>>
    BY <2>4, <2>5 DEF Whole
  <2>7. Fits(r, "command")
    BY <1>1, <1>3, <2>4, <2>6 DEF Fits
  <2> QED
    BY <2>1, <2>3, <2>7
<1>4. CASE client.fmt # "xml"
  <2>1. open = <<>> /\ shut = <<>>
    BY <1>4
  <2>2. (open \o t) \o shut = t
    <3>1. open \o t = t /\ t \o shut = t
      BY <1>2, <2>1, ConcatEmptySeq
    <3> QED
      BY <3>1
  <2>3. <<>> \in Seq(Words)
    OBVIOUS
  <2>4. Nested(<<>>, t) = <<>>
    BY <1>4, <2>3 DEF Good, Whole
  <2>5. Fits(t, "command")
    BY <1>1, <1>2, <2>4 DEF Fits, Good
  <2> QED
    BY <2>2, <2>5
<1> QED
  BY <1>3, <1>4

-----------------------------------------------------------------------------
(* "info": two events of a channel, between brackets of their own.         *)

\* What "info" puts between its brackets
Part(t) == t \in Seq(Tokens) /\ Inside(t) /\ (client.fmt = "html" => Whole(t)) /\ Rows(t)

\* Two such parts.
LEMMA PartConcat ==
  ASSUME NEW s, Part(s), NEW t, Part(t)
  PROVE  Part(s \o t)
<1>1. s \in Seq(Tokens)
  BY DEF Part
<1>2. t \in Seq(Tokens)
  BY DEF Part
<1>3. /\ s \o t \in Seq(Tokens)
      /\ Inside(s) /\ Inside(t) => Inside(s \o t)
      /\ Whole(s) /\ Whole(t) => Whole(s \o t)
  BY <1>1, <1>2, InsideConcat
<1>4. Rows(s \o t)
  <2>1. Rows(s) /\ Rows(t)
    BY DEF Part
  <2> QED
    BY <1>1, <1>2, <2>1, RowsConcat
<1> QED
  BY <1>3, <1>4 DEF Part

\* An event with or without its name.
LEMMA EventTextIs ==
  ASSUME NEW out, NEW c \in DOMAIN Events, NEW e \in Words
  PROVE  /\ EventText(out, c, e) \in Seq(Tokens)
         /\ \A i \in 1 .. Len(EventText(out, c, e)) : EventText(out, c, e)[i].is \in {"name", "event"}
<1>1. PICK x, y : x = Token("name", c) /\ y = Token("event", e)
  OBVIOUS
<1>2. c \in Words /\ "name" \in Kinds /\ "event" \in Kinds
  BY DEF Words, Kinds
<1>3. x \in Tokens /\ y \in Tokens /\ x.is = "name" /\ y.is = "event"
  BY <1>1, <1>2, TokenType
<1> DEFINE Named2 == {z \in Tokens : z.is \in {"name", "event"}}
<1>4. x \in Named2 /\ y \in Named2
  BY <1>3
<1>5. \A z \in Named2 : z \in Tokens /\ z.is \in {"name", "event"}
  OBVIOUS
<1> HIDE DEF Named2
<1>6. PICK name : name = IF out.newchannel /\ client.fmt = "html" THEN <<x>> ELSE <<>>
  OBVIOUS
<1>7. name \in Seq(Named2)
  BY <1>4, <1>6
<1>8. PICK event : event = <<y>>
  OBVIOUS
<1>9. event \in Seq(Named2)
  BY <1>4, <1>8
<1>10. PICK t : t = name \o event
  OBVIOUS
<1>11. t \in Seq(Named2)
  BY <1>7, <1>9, <1>10, ConcatProperties
<1>12. t \in Seq(Tokens) /\ \A i \in 1 .. Len(t) : t[i].is \in {"name", "event"}
  BY <1>5, <1>11
<1>13. EventText(out, c, e) = t
  BY <1>1, <1>6, <1>8, <1>10 DEF EventText
<1> QED
  BY <1>12, <1>13

\* One event, with the page around it that HTML has.
LEMMA EventPart ==
  ASSUME client.fmt \in Text, NEW t \in Seq(Tokens), \A i \in 1 .. Len(t) : t[i].is \in {"name", "event"},
         NEW open, open = IF client.fmt = "html" THEN Bracket("open", FALSE) ELSE <<>>,
         NEW shut, shut = IF client.fmt = "html" THEN Bracket("shut", FALSE) ELSE <<>>
  PROVE  Part((open \o t) \o shut)
<1>1. Inside(t)
  BY QuietNested DEF Inside
<1>2. Rows(t)
  <2>1. \A i \in DOMAIN t : t[i].is # "open" \/ t[i].of # "row"
    OBVIOUS
  <2> QED
    BY <2>1, NoRow
<1>3. CASE client.fmt = "html"
  <2>1. open = <<Token("open", "page")>> /\ shut = <<Token("shut", "page")>>
    BY <1>3 DEF Bracket
  <2>2. "page" \in Words
    BY DEF Words
  <2>3. PICK r : r = <<Token("open", "page")>> \o t \o <<Token("shut", "page")>>
    OBVIOUS
  <2>4. r \in Seq(Tokens) /\ Whole(r)
    BY <1>1, <2>2, <2>3, BracketWhole
  <2>5. open = Bracket("open", FALSE) /\ shut = Bracket("shut", FALSE)
    BY <1>3
  <2>6. open \in Seq(Tokens) /\ shut \in Seq(Tokens) /\ Rows(open) /\ Rows(shut)
    BY <2>5, PlaceTokens
  <2>7. PICK a : a = open \o t
    OBVIOUS
  <2>8. a \in Seq(Tokens)
    BY <2>6, <2>7, ConcatProperties
  <2>9. Rows(a)
    BY <1>2, <2>6, <2>7, RowsConcat
  <2>10. Rows(a \o shut)
    BY <2>6, <2>8, <2>9, RowsConcat
  <2>11. a \o shut = r
    BY <2>1, <2>3, <2>7
  <2>12. Inside(r)
    BY <2>4 DEF Inside, Whole
  <2>13. Part(r)
    BY <2>4, <2>10, <2>11, <2>12 DEF Part
  <2> QED
    BY <2>7, <2>11, <2>13
<1>4. CASE client.fmt # "html"
  <2>1. open = <<>> /\ shut = <<>>
    BY <1>4
  <2>2. open \o t = t /\ t \o shut = t
    BY <2>1, ConcatEmptySeq
  <2>3. Part(t)
    BY <1>1, <1>2, <1>4 DEF Part
  <2> QED
    BY <2>2, <2>3
<1> QED
  BY <1>3, <1>4

\* Text that is sent does not change the flags.
LEMMA StreambackIs ==
  ASSUME NEW out \in Outs, NEW t \in Seq(Tokens)
  PROVE  /\ Streamback(out, t) \in Outs /\ Streamback(out, t).started = out.started
         /\ Streamback(out, t).text = out.text \o t
<1>1. PICK first : first = out.text
  OBVIOUS
<1>2. first \in Seq(Tokens)
  BY <1>1 DEF Outs
<1>3. first \o t \in Seq(Tokens)
  BY <1>2, ConcatProperties
<1>4. PICK u : u = first \o t
  OBVIOUS
<1>5. Streamback(out, t) = [started |-> out.started, newchannel |-> out.newchannel, text |-> u]
  <2>1. Streamback(out, t) = [out EXCEPT !.text = u]
    BY <1>1, <1>4 DEF Streamback, Outs
  <2>2. out = [started |-> out.started, newchannel |-> out.newchannel, text |-> out.text]
    BY DEF Outs
  <2> QED
    BY <2>1, <2>2
<1>6. out.started \in BOOLEAN /\ out.newchannel \in BOOLEAN
  BY DEF Outs
<1> QED
  BY <1>1, <1>3, <1>4, <1>5, <1>6 DEF Outs

\* What "info" does for one of its events, in any format.
LEMMA OneEvent ==
  ASSUME client.fmt \in Text, NEW out \in Outs, out.started, NEW c \in DOMAIN Events, NEW e \in Words,
         NEW open \in Seq(Tokens), NEW shut \in Seq(Tokens)
  PROVE  \E new \in Outs : \E t \in Seq(Tokens) :
           /\ new = Streamback(epg_event(Streamback(out, open), c, e), shut) /\ new.started
           /\ \A i \in 1 .. Len(t) : t[i].is \in {"name", "event"}
           /\ new.text = out.text \o ((open \o t) \o shut)
<1>1. PICK new : new = Streamback(epg_event(Streamback(out, open), c, e), shut)
  OBVIOUS
<1>2. PICK o : o = Streamback(out, open)
  OBVIOUS
<1>3. o \in Outs /\ o.started = out.started /\ o.text = out.text \o open
  BY <1>2, StreambackIs
<1>4. PICK t : t = EventText(o, c, e)
  OBVIOUS
<1>5. t \in Seq(Tokens) /\ \A i \in 1 .. Len(t) : t[i].is \in {"name", "event"}
  BY <1>4, EventTextIs
<1>6. PICK first : first = o.text
  OBVIOUS
<1>7. first \in Seq(Tokens)
  BY <1>3, <1>6 DEF Outs
<1>8. PICK u : u = first \o t
  OBVIOUS
<1>9. u \in Seq(Tokens)
  BY <1>5, <1>7, <1>8, ConcatProperties
<1>10. PICK d : d = epg_event(o, c, e)
  OBVIOUS
<1>11. d \in Outs /\ d.started /\ d.text = u
  <2>1. o \in Outs
    BY <1>3
  <2>2. o.started
    BY <1>3
  <2>3. u = o.text \o EventText(o, c, e)
    BY <1>4, <1>6, <1>8
  <2>4. /\ epg_event(o, c, e) \in Outs
        /\ epg_event(o, c, e).started /\ ~epg_event(o, c, e).newchannel
        /\ epg_event(o, c, e).text = u
    BY <1>9, <2>1, <2>2, <2>3, EventIs
  <2> QED
    BY <1>10, <2>4
<1>12. new = Streamback(d, shut)
  BY <1>1, <1>2, <1>10
<1>13. new \in Outs /\ new.started = d.started /\ new.text = d.text \o shut
  <2>1. d \in Outs
    BY <1>11
  <2>2. Streamback(d, shut) \in Outs /\ Streamback(d, shut).started = d.started
        /\ Streamback(d, shut).text = d.text \o shut
    BY <2>1, StreambackIs
  <2> QED
    BY <1>12, <2>2
<1>14. PICK base : base = out.text
  OBVIOUS
<1>15. base \in Seq(Tokens)
  BY <1>14 DEF Outs
<1>20. t \in Seq(Tokens)
  BY <1>5
<1>21. ((base \o open) \o t) \o shut = base \o ((open \o t) \o shut)
  <2>1. (base \o open) \o t = base \o (open \o t)
    BY <1>15, <1>20, InTurn, ZenonT(60)
  <2>2. PICK mid : mid = open \o t
    OBVIOUS
  <2>3. mid \in Seq(Tokens)
    BY <1>20, <2>2, ConcatProperties
  <2>4. (base \o mid) \o shut = base \o (mid \o shut)
    BY <1>15, <2>3, InTurn, ZenonT(60)
  <2> QED
    BY <2>1, <2>2, <2>4
<1>17. new.text = base \o ((open \o t) \o shut)
  BY <1>3, <1>6, <1>8, <1>11, <1>13, <1>14, <1>21
<1> QED
  BY <1>1, <1>5, <1>11, <1>13, <1>14, <1>17

\* The brackets of "info" around an event and around the whole.
PageMark(is) == IF client.fmt = "html" THEN Bracket(is, FALSE) ELSE <<>>
Around(is) ==
  CASE client.fmt = "xml" -> Tv(is)
    [] client.fmt = "json" -> Bracket(is, FALSE)
    [] OTHER -> <<>>

Show(out, c, e) == Streamback(epg_event(Streamback(out, PageMark("open")), c, e), PageMark("shut"))

\* One event of "info".
LEMMA OnePart ==
  ASSUME client.fmt \in Text, NEW out \in Outs, out.started, NEW c \in DOMAIN Events, NEW e \in Words
  PROVE  /\ Show(out, c, e) \in Outs /\ Show(out, c, e).started
         /\ \E p : Part(p) /\ Show(out, c, e).text = out.text \o p
<1>1. Bracket("open", FALSE) \in Seq(Tokens) /\ Bracket("shut", FALSE) \in Seq(Tokens) /\ <<>> \in Seq(Tokens)
  <2>1. Bracket("open", FALSE) \in Seq(Tokens) /\ Bracket("shut", FALSE) \in Seq(Tokens)
    BY PlaceTokens
  <2>2. <<>> \in Seq(Tokens)
    OBVIOUS
  <2> QED
    BY <2>1, <2>2
<1>2. PageMark("open") \in Seq(Tokens)
  BY <1>1 DEF PageMark
<1>3. PageMark("shut") \in Seq(Tokens)
  BY <1>1 DEF PageMark
<1>4. PICK new \in Outs : \E t \in Seq(Tokens) :
           /\ new = Streamback(epg_event(Streamback(out, PageMark("open")), c, e), PageMark("shut")) /\ new.started
           /\ \A i \in 1 .. Len(t) : t[i].is \in {"name", "event"}
           /\ new.text = out.text \o ((PageMark("open") \o t) \o PageMark("shut"))
  BY <1>2, <1>3, OneEvent
<1>5. PICK t \in Seq(Tokens) :
           /\ new = Streamback(epg_event(Streamback(out, PageMark("open")), c, e), PageMark("shut")) /\ new.started
           /\ \A i \in 1 .. Len(t) : t[i].is \in {"name", "event"}
           /\ new.text = out.text \o ((PageMark("open") \o t) \o PageMark("shut"))
  BY <1>4
<1>6. \A i \in 1 .. Len(t) : t[i].is \in {"name", "event"}
  BY <1>5
<1>7. Part((PageMark("open") \o t) \o PageMark("shut"))
  BY <1>6, EventPart DEF PageMark
<1>8. Show(out, c, e) = new
  BY <1>5 DEF Show
<1> QED
  BY <1>5, <1>7, <1>8

\* What is on now and next, or nothing.
LEMMA ShownWords ==
  ASSUME NEW c \in DOMAIN Events
  PROVE  /\ (IF Events[c] = <<>> THEN "nothing" ELSE Events[c][1]) \in Words
         /\ (IF Len(Events[c]) < 2 THEN "nothing" ELSE Events[c][2]) \in Words
<1>1. Events[c] \in Seq(Range(Events[c]))
  BY ReplyAssumption DEF ReplyAssumption
<1>2. PICK s, R : s = Events[c] /\ R = Range(Events[c])
  OBVIOUS
<1>3. s \in Seq(R)
  BY <1>1, <1>2
<1>4. R \subseteq Words /\ "nothing" \in Words
  BY <1>2 DEF Words
<1>5. s # <<>> => s[1] \in R
  BY <1>3
<1>6. ~(Len(s) < 2) => s[2] \in R
  BY <1>3
<1> QED
  BY <1>2, <1>4, <1>5, <1>6

\* How "info" begins.
LEMMA BegunIs ==
  ASSUME client.fmt \in Text, Out \in Outs, NEW s \in Seq(Tokens)
  PROVE  /\ [Streamback(Out, s) EXCEPT !.started = TRUE] \in Outs
         /\ [Streamback(Out, s) EXCEPT !.started = TRUE].started
         /\ [Streamback(Out, s) EXCEPT !.started = TRUE].text = s
<1>1. /\ Streamback(Out, s) \in Outs /\ Streamback(Out, s).started = Out.started
      /\ Streamback(Out, s).text = Out.text \o s
  BY StreambackIs
<1>2. Out.text \o s = s
  <2>1. <<>> \o s = s
    BY ConcatEmptySeq
  <2> QED
    BY <2>1 DEF Out
<1>3. PICK d : d = Streamback(Out, s)
  OBVIOUS
<1>4. d \in Outs /\ d.text = s
  BY <1>1, <1>2, <1>3
<1> QED
  BY <1>3, <1>4 DEF Outs

\* Both events, and the bracket after them.
LEMMA InfoFits ==
  ASSUME client.fmt \in Text, At("command"), NEW c \in DOMAIN Events, NEW e1 \in Words, NEW e2 \in Words,
         NEW begun \in Outs, begun.started, begun.text = Around("open") \o chandump(c)
  PROVE  /\ Show(Show(begun, c, e1), c, e2) \in Outs
         /\ Fits(Show(Show(begun, c, e1), c, e2).text \o Around("shut"), "command")
<1>1. Around("open") \in Seq(Tokens) /\ Around("shut") \in Seq(Tokens)
  <2>1. <<>> \in Seq(Tokens)
    OBVIOUS
  <2> QED
    BY <2>1, PlaceTokens DEF Around, Text
<1>2. PICK a, z, ch : a = Around("open") /\ z = Around("shut") /\ ch = chandump(c)
  OBVIOUS
<1>3. Quiet(ch)
  <2>1. PICK x : x = Token("channel", c)
    OBVIOUS
  <2>2. c \in Words /\ "channel" \in Kinds
    BY DEF Words, Kinds
  <2>3. x \in Tokens /\ x.is = "channel"
    BY <2>1, <2>2, TokenType
  <2>4. ch = <<x>>
    BY <1>2, <2>1 DEF chandump
  <2>5. ch \in Seq(Tokens) /\ \A i \in 1 .. Len(ch) : ch[i].is = "channel"
    BY <2>3, <2>4
  <2>6. ch \in Seq(Tokens)
    BY <2>5
  <2>7. \A i \in 1 .. Len(ch) : ch[i].is \in {"name", "channel", "video"}
    BY <2>5
  <2>8. Whole(ch)
    BY <2>6, <2>7, QuietNested DEF Whole
  <2>9. Rows(ch)
    <3>1. \A i \in DOMAIN ch : ch[i].is # "open" \/ ch[i].of # "row"
      BY <2>5
    <3> QED
      BY <3>1, NoRow
  <2> QED
    BY <2>6, <2>8, <2>9 DEF Quiet
<1>4. Part(ch)
  BY <1>3 DEF Quiet, Part, Inside, Whole
<1>5. PICK s : s = a \o ch
  OBVIOUS
<1>6. a \in Seq(Tokens) /\ z \in Seq(Tokens) /\ ch \in Seq(Tokens) /\ s \in Seq(Tokens)
  <2>1. a \in Seq(Tokens)
    BY <1>1, <1>2
  <2>2. ch \in Seq(Tokens)
    BY <1>4 DEF Part
  <2>3. a \o ch \in Seq(Tokens)
    BY <2>1, <2>2, ConcatProperties
  <2> QED
    BY <1>1, <1>2, <1>5, <2>1, <2>2, <2>3
<1>7. PICK p1 : Part(p1) /\ Show(begun, c, e1).text = begun.text \o p1
  BY OnePart
<1>8. PICK mid : mid = Show(begun, c, e1)
  OBVIOUS
<1>9. mid \in Outs
  BY <1>8, OnePart
<1>15. mid.started
  BY <1>8, OnePart
<1>16. PICK p2 : Part(p2) /\ Show(mid, c, e2).text = mid.text \o p2
  BY <1>9, <1>15, OnePart
<1>17. PICK out : out = Show(mid, c, e2)
  OBVIOUS
<1>18. out \in Outs
  BY <1>9, <1>15, <1>17, OnePart
<1>10. PICK body : body = (ch \o p1) \o p2
  OBVIOUS
<1>11. Part(body)
  <2>1. Part(p1)
    BY <1>7
  <2>2. Part(p2)
    BY <1>16
  <2>3. Part(ch \o p1)
    BY <1>4, <2>1, PartConcat
  <2>4. Part((ch \o p1) \o p2)
    BY <2>2, <2>3, PartConcat
  <2> QED
    BY <1>10, <2>4
<1>12. out.text = a \o body
  <2>1. p1 \in Seq(Tokens)
    BY <1>7 DEF Part
  <2>2. p2 \in Seq(Tokens)
    BY <1>16 DEF Part
  <2>3. a \in Seq(Tokens)
    BY <1>6
  <2>4. ch \in Seq(Tokens)
    BY <1>6
  <2>5. (a \o ch) \o p1 = a \o (ch \o p1)
    BY <2>1, <2>3, <2>4, InTurn, ZenonT(60)
  <2>6. PICK q : q = ch \o p1
    OBVIOUS
  <2>7. q \in Seq(Tokens)
    BY <2>1, <2>4, <2>6, ConcatProperties
  <2>8. (a \o q) \o p2 = a \o (q \o p2)
    BY <2>2, <2>3, <2>7, InTurn, ZenonT(60)
  <2> QED
    BY <1>2, <1>5, <1>7, <1>8, <1>10, <1>16, <1>17, <2>5, <2>6, <2>8
<1>13. body \in Seq(Tokens) /\ Inside(body) /\ Rows(body)
  BY <1>11 DEF Part
<1>14. Fits((a \o body) \o z, "command")
  <2>0. OpenIn(thread.at, client.fmt) = <<>> /\ OpenIn("command", client.fmt) = <<>> /\ <<>> \in Seq(Words)
    BY DEF At, OpenIn
  <2>1. CASE client.fmt = "html"
    <3>1. a = <<>> /\ z = <<>>
      BY <1>2, <2>1 DEF Around
    <3>2. body \in Seq(Tokens)
      BY <1>13
    <3>3. a \o body = body /\ body \o z = body
      BY <3>1, <3>2, ConcatEmptySeq
    <3>4. Nested(<<>>, body) = <<>>
      BY <1>11, <2>0, <2>1 DEF Part, Whole
    <3>5. Fits(body, "command")
      BY <1>13, <2>0, <3>4 DEF Fits
    <3> QED
      BY <3>3, <3>5
  <2>2. ASSUME NEW w \in Words, a = <<Token("open", w)>>, z = <<Token("shut", w)>>, client.fmt # "html"
        PROVE  Fits((a \o body) \o z, "command")
    <3>1. PICK r : r = <<Token("open", w)>> \o body \o <<Token("shut", w)>>
      OBVIOUS
    <3>2. body \in Seq(Tokens)
      BY <1>13
    <3>3. Inside(body)
      BY <1>13
    <3>4. r \in Seq(Tokens) /\ Whole(r)
      BY <3>1, <3>2, <3>3, BracketWhole
    <3>5. Nested(<<>>, r) = <<>>
      BY <2>0, <3>4 DEF Whole
    <3>6. Fits(r, "command")
      BY <2>0, <2>2, <3>4, <3>5 DEF Fits
    <3> QED
      BY <2>2, <3>1, <3>6
  <2>3. CASE client.fmt = "xml"
    <3>1. "tv" \in Words /\ a = <<Token("open", "tv")>> /\ z = <<Token("shut", "tv")>>
      BY <1>2, <2>3, PlaceTokens DEF Around, Words
    <3>2. client.fmt # "html"
      BY <2>3
    <3> QED
      BY <2>2, <3>1, <3>2
  <2>4. CASE client.fmt = "json"
    <3>1. "page" \in Words /\ a = <<Token("open", "page")>> /\ z = <<Token("shut", "page")>>
      BY <1>2, <2>4, PlaceTokens DEF Around, Words
    <3>2. client.fmt # "html"
      BY <2>4
    <3> QED
      BY <2>2, <3>1, <3>2
  <2> QED
    BY <2>1, <2>3, <2>4 DEF Text
<1> QED
  BY <1>2, <1>8, <1>12, <1>14, <1>17, <1>18

-----------------------------------------------------------------------------
(* Every step of the thread keeps the reply well formed.                   *)

\* What a client has been sent, wherever the thread is
TextInv ==
  client.fmt \in Text =>
    /\ client.started \in BOOLEAN /\ client.newchannel \in BOOLEAN
    /\ thread.http = TRUE /\ ~At("recv")
    /\ sent \in Seq(Tokens)
    /\ At("end") => Complete(sent)
    /\ ~At("end") => Body(sent, OpenIn(thread.at, client.fmt))
    /\ client.fmt = "html" => Rows(sent)

\* Where the thread is between two commands or in one.
Places == {"command", "failed", "channels", "xmltv", "epg", "save"}

\* Whatever is sent on the way fits.
LEMMA SendKeepsText ==
  ASSUME NamesInv, TextInv, NEW next \in Places, thread' = [thread EXCEPT !.at = next],
         client'.fmt = client.fmt,
         client.fmt \in Text => /\ ~At("end")
                                /\ client'.started \in BOOLEAN /\ client'.newchannel \in BOOLEAN
                                /\ \E text : sent' = sent \o text /\ Fits(text, next)
  PROVE  TextInv'
<1> SUFFICES ASSUME client.fmt \in Text
             PROVE  TextInv'
  BY DEF TextInv
<1>1. PICK text : sent' = sent \o text /\ Fits(text, next)
  OBVIOUS
<1>2. sent \in Seq(Tokens)
  BY DEF TextInv
<1>3. text \in Seq(Tokens)
  BY <1>1 DEF Fits
<1>4. sent' \in Seq(Tokens)
  BY <1>1, <1>2, <1>3, ConcatProperties
<1>5. PICK open : open = OpenIn(thread.at, client.fmt)
  OBVIOUS
<1>6. Body(sent, open)
  BY <1>5 DEF TextInv
<1>7. Body(sent \o text, Nested(open, text))
  BY <1>3, <1>6, BodyMore
<1>8. Nested(open, text) = OpenIn(next, client.fmt)
  BY <1>1, <1>5 DEF Fits
<1>9. thread'.at = next /\ thread'.http = TRUE
  BY DEF NamesInv, TextInv
<1>10. Body(sent', OpenIn(thread'.at, client'.fmt))
  BY <1>1, <1>7, <1>8, <1>9
<1>11. ASSUME client.fmt = "html" PROVE Rows(sent')
  <2>1. Rows(sent) /\ Rows(text)
    BY <1>1, <1>11 DEF TextInv, Fits
  <2>2. Rows(sent \o text)
    BY <1>2, <1>3, <2>1, RowsConcat
  <2> QED
    BY <1>1, <2>2
<1>12. ~At("end")' /\ ~At("recv")'
  BY <1>9 DEF Places, At
<1> QED
  BY <1>4, <1>9, <1>10, <1>11, <1>12 DEF TextInv

\* Looking for a feeder changes no flags.
LEMMA DefaultText ==
  ASSUME NamesInv
  PROVE  Default.fmt = client.fmt /\ Default.started = client.started /\ Default.newchannel = client.newchannel
<1> USE DEF NamesInv
<1>1. CASE client.feeder # NULL
  BY <1>1 DEF Default
<1>2. CASE client.feeder = NULL /\ client.tuner # NULL
  BY <1>2 DEF Default
<1>3. CASE client.feeder = NULL /\ client.tuner = NULL /\ 0 \in config.tuners
  BY <1>3 DEF Default
<1>4. CASE client.feeder = NULL /\ client.tuner = NULL /\ 0 \notin config.tuners /\ config.tuners = {} /\ 0 \in config.feeders
  BY <1>4 DEF Default
<1>5. CASE client.feeder = NULL /\ client.tuner = NULL /\ 0 \notin config.tuners /\ ~(config.tuners = {} /\ 0 \in config.feeders)
  BY <1>5 DEF Default
<1> QED
  BY <1>1, <1>2, <1>3, <1>4, <1>5

\* A step that sends nothing.
LEMMA SayNothing ==
  ASSUME client.fmt \in Text, NEW next, OpenIn(next, client.fmt) = OpenIn(thread.at, client.fmt), sent \in Seq(Tokens)
  PROVE  Fits(<<>>, next) /\ sent \o <<>> = sent
  BY EmptyQuiet, QuietFits, ConcatEmptySeq

\* A command that runs
LEMMA RunKeepsText ==
  ASSUME NamesInv, TextInv, NEW c, NEW text, NEW next \in {"command", "failed", "channels", "xmltv", "save"},
         Run(c, text, next), c.fmt = client.fmt,
         client.fmt \in Text => c.started \in BOOLEAN /\ c.newchannel \in BOOLEAN /\ Fits(text, next)
  PROVE  TextInv'
<1>1. /\ At("command") /\ client' = c /\ thread' = [thread EXCEPT !.at = next] /\ sent' = sent \o text
  BY DEF Run
<1>2. next \in Places /\ ~At("end")
  BY <1>1 DEF Places, At
<1>3. client.fmt \in Text => /\ ~At("end")
                             /\ client'.started \in BOOLEAN /\ client'.newchannel \in BOOLEAN
                             /\ \E t : sent' = sent \o t /\ Fits(t, next)
  BY <1>1, <1>2
<1>4. client'.fmt = client.fmt
  BY <1>1
<1> QED
  BY <1>1, <1>2, <1>3, <1>4, SendKeepsText

\* A command that says nothing, as most do.
LEMMA QuietRun ==
  ASSUME NamesInv, TextInv, NEW c, NEW next \in {"command", "failed", "save"}, Run(c, <<>>, next),
         c.fmt = client.fmt /\ c.started = client.started /\ c.newchannel = client.newchannel
  PROVE  TextInv'
<1>1. ASSUME client.fmt \in Text PROVE c.started \in BOOLEAN /\ c.newchannel \in BOOLEAN /\ Fits(<<>>, next)
  <2>1. OpenIn(next, client.fmt) = OpenIn(thread.at, client.fmt)
    BY DEF Run, At, OpenIn
  <2>2. Fits(<<>>, next)
    BY <2>1, EmptyQuiet, QuietFits
  <2> QED
    BY <1>1, <2>2 DEF TextInv
<1> QED
  BY <1>1, RunKeepsText

\* Whose guide "xmltv" ends with
FeederInv ==
  /\ client.feeder \in {NULL} \cup Parsers
  /\ At("xmltv") \/ At("epg") => client.feeder # NULL

\* Whoever has a tuner has its feeder.
LEMMA DefaultFeeder ==
  ASSUME NamesInv, FeederInv
  PROVE  /\ Default.feeder \in {NULL} \cup Parsers
         /\ Default.tuner # NULL => Default.feeder # NULL
<1>0. DOMAIN client = {"tuner", "feeder", "fmt", "started", "newchannel"}
      /\ client.feeder \in {NULL} \cup Parsers /\ client.tuner \in {NULL, Tuner(0)}
      /\ Tuner(0) \in Parsers /\ Feeder(0) \in Parsers /\ Tuner(0) # NULL /\ Feeder(0) # NULL
  BY DEF NamesInv, FeederInv, Parsers, Tuner, Feeder, NULL
<1>1. CASE client.feeder # NULL
  BY <1>0, <1>1 DEF Default
<1>2. CASE client.feeder = NULL /\ client.tuner # NULL
  BY <1>0, <1>2 DEF Default
<1>3. CASE client.feeder = NULL /\ client.tuner = NULL /\ 0 \in config.tuners
  BY <1>0, <1>3 DEF Default
<1>4. CASE client.feeder = NULL /\ client.tuner = NULL /\ 0 \notin config.tuners /\ config.tuners = {} /\ 0 \in config.feeders
  BY <1>0, <1>4 DEF Default
<1>5. CASE client.feeder = NULL /\ client.tuner = NULL /\ 0 \notin config.tuners /\ ~(config.tuners = {} /\ 0 \in config.feeders)
  BY <1>0, <1>5 DEF Default
<1> QED
  BY <1>1, <1>2, <1>3, <1>4, <1>5

\* A command that runs.
LEMMA RunKeepsFeeder ==
  ASSUME NamesInv, FeederInv, NEW c, NEW text, NEW next, Run(c, text, next),
         c.feeder \in {NULL} \cup Parsers, next # "epg", next = "xmltv" => c.feeder # NULL
  PROVE  FeederInv'
<1>1. client' = c /\ thread' = [thread EXCEPT !.at = next]
  BY DEF Run
<1>2. thread'.at = next
  BY <1>1 DEF NamesInv
<1> QED
  BY <1>1, <1>2 DEF FeederInv, At

\* FeederInv is inductive beside NamesInv.
LEMMA StepKeepsFeeder == NamesInv /\ FeederInv /\ [Next]_vars => FeederInv'
<1> SUFFICES ASSUME NamesInv, FeederInv, [Next]_vars PROVE FeederInv'
  OBVIOUS
<1>1. /\ DOMAIN client = {"tuner", "feeder", "fmt", "started", "newchannel"}
      /\ DOMAIN thread = {"at", "http"} /\ client.feeder \in {NULL} \cup Parsers /\ config \in Configs
  BY DEF NamesInv, FeederInv
<1>2. Default.feeder \in {NULL} \cup Parsers /\ (Default.tuner # NULL => Default.feeder # NULL)
      /\ DOMAIN Default = {"tuner", "feeder", "fmt", "started", "newchannel"}
  BY DefaultFeeder, DefaultNames
<1>3. CASE Connection
  <2>1. \/ client' = NewClient \/ client' = client
        \/ \E f : client' = [client EXCEPT !.fmt = f, !.started = FALSE, !.newchannel = FALSE]
    BY <1>3 DEF Connection, Get, Line, HeadOnly, NoCli, HangsUp, Finish, Close, Request
  <2>2. client'.feeder \in {NULL} \cup Parsers
    <3>1. CASE client' = NewClient
      BY <3>1 DEF NewClient
    <3>2. ASSUME NEW f, client' = [client EXCEPT !.fmt = f, !.started = FALSE, !.newchannel = FALSE]
          PROVE  client'.feeder \in {NULL} \cup Parsers
      BY <1>1, <3>2
    <3> QED
      BY <1>1, <2>1, <3>1, <3>2
  <2>3. \/ thread' = NewThread
        \/ \E at \in {"recv", "command", "end"} :
             thread' = [thread EXCEPT !.at = at] \/ \E http : thread' = [at |-> at, http |-> http]
    BY <1>3 DEF Connection, Get, Line, HeadOnly, NoCli, HangsUp, Finish, Close, Request
  <2>4. thread'.at \in {"recv", "command", "end"}
    BY <1>1, <2>3 DEF NewThread
  <2> QED
    BY <2>2, <2>4 DEF FeederInv, At
<1>4. ASSUME NEW i \in Ids, SelectTuner(i) \/ SelectFeeder(i) PROVE FeederInv'
  <2> DEFINE found == i \in config.tuners
             t == [client EXCEPT !.tuner = IF found THEN Tuner(i) ELSE NULL, !.feeder = IF found THEN Tuner(i) ELSE @]
             f == [client EXCEPT !.feeder = IF i \in config.feeders THEN Feeder(i) ELSE NULL,
                                 !.tuner = IF i \in config.feeders THEN NULL ELSE @]
  <2>1. (i \in config.tuners => i = 0) /\ (i \in config.feeders => i = 0)
    BY <1>1, ReplyAssumption DEF ReplyAssumption
  <2>2. t.feeder \in {NULL} \cup Parsers /\ f.feeder \in {NULL} \cup Parsers
    BY <1>1, <2>1 DEF Parsers
  <2>3. Run(t, <<>>, "command") \/ Run(f, <<>>, "command")
    BY <1>4 DEF SelectTuner, SelectFeeder
  <2> HIDE DEF t, f
  <2> QED
    BY <2>2, <2>3, RunKeepsFeeder
<1>5. CASE Fails \/ Works \/ Video \/ Scan \/ Save
  <2>1. \E text : \E next \in {"failed", "command", "save"} : Run(Default, text, next)
    BY <1>5 DEF Fails, Works, Video, Scan, Save
  <2> QED
    BY <1>2, <2>1, RunKeepsFeeder
<1>6. ASSUME NEW cmd \in {"channels", "xmltv"}, List(cmd) PROVE FeederInv'
  <2>1. PICK text : Run(Default, text, cmd)
    BY <1>6 DEF List
  <2>2. Default.feeder # NULL
    BY <1>2, <1>6 DEF List
  <2> QED
    BY <1>2, <2>1, <2>2, RunKeepsFeeder
<1>7. CASE Load
  <2>1. /\ client' = client /\ (At("channels") \/ At("xmltv"))
        /\ thread' = [thread EXCEPT !.at = IF At("xmltv") THEN "epg" ELSE "command"]
    BY <1>7 DEF Load
  <2>2. thread'.at = IF At("xmltv") THEN "epg" ELSE "command"
    BY <1>1, <2>1
  <2> QED
    BY <1>7, <2>1, <2>2 DEF FeederInv, At, Load
<1>8. CASE XmltvGuide \/ Saved
  <2>1. thread' = [thread EXCEPT !.at = "command"] /\ (client' = client \/ \E s, n : client' = [client EXCEPT !.started = s, !.newchannel = n])
    BY <1>8 DEF XmltvGuide, Saved, Told
  <2>2. client'.feeder = client.feeder
    BY <1>1, <2>1
  <2>3. thread'.at = "command"
    BY <1>1, <2>1
  <2> QED
    BY <1>1, <2>2, <2>3 DEF FeederInv, At
<1>9. CASE Epg
  <2>1. PICK text, s, n : Run([Default EXCEPT !.started = s, !.newchannel = n], text, "command")
    BY <1>9 DEF Epg, Told
  <2> DEFINE c == [Default EXCEPT !.started = s, !.newchannel = n]
  <2>2. c.feeder \in {NULL} \cup Parsers
    BY <1>2
  <2> HIDE DEF c
  <2>3. Run(c, text, "command")
    BY <2>1 DEF c
  <2> QED
    BY <2>2, <2>3, RunKeepsFeeder
<1>10. ASSUME NEW m \in Muxes, Info(m) PROVE FeederInv'
  <2>1. \E out, text : Run([Default EXCEPT !.started = FALSE, !.newchannel = out.newchannel], text, "command")
    BY <1>10, InfoRuns
  <2>2. PICK n, text : Run([Default EXCEPT !.started = FALSE, !.newchannel = n], text, "command")
    BY <2>1
  <2> DEFINE c == [Default EXCEPT !.started = FALSE, !.newchannel = n]
  <2>3. c.feeder \in {NULL} \cup Parsers
    BY <1>2
  <2> HIDE DEF c
  <2>4. Run(c, text, "command")
    BY <2>2 DEF c
  <2> QED
    BY <2>3, <2>4, RunKeepsFeeder
<1>11. CASE Quit
  <2>1. PICK f : Run([Default EXCEPT !.fmt = f], <<>>, "command")
    BY <1>11 DEF Quit
  <2> DEFINE c == [Default EXCEPT !.fmt = f]
  <2>2. c.feeder \in {NULL} \cup Parsers
    BY <1>2
  <2> HIDE DEF c
  <2>3. Run(c, <<>>, "command")
    BY <2>1 DEF c
  <2> QED
    BY <2>2, <2>3, RunKeepsFeeder
<1>12. CASE (\E p \in Parsers, m \in Muxes : Learn(p, m)) \/ UNCHANGED vars
  <2>1. client' = client /\ thread' = thread
    BY <1>12 DEF Learn, vars
  <2> QED
    BY <2>1 DEF FeederInv, At
<1>13. CASE Crash
  BY <1>13 DEF Crash, FeederInv, At, NewClient, NewThread
<1> QED
  BY <1>3, <1>4, <1>5, <1>6, <1>7, <1>8, <1>9, <1>10, <1>11, <1>12, <1>13
     DEF Next, Command

\* A report begins with the flags of the client and no text.
LEMMA OutTyped ==
  ASSUME TextInv, client.fmt \in Text
  PROVE  Out \in Outs /\ Out.text = <<>>
<1>1. <<>> \in Seq(Tokens)
  OBVIOUS
<1> QED
  BY <1>1 DEF TextInv, Out, Outs

\* The guide of a parser, as text
LEMMA GuideIs ==
  ASSUME NamesInv, TextInv, client.fmt \in Text, NEW p \in Parsers
  PROVE  epg_dump(Out, p) \in Outs /\ Good(epg_dump(Out, p).text)
<1>1. Out \in Outs
  BY OutTyped
<1>2. known[p] \in SUBSET Muxes
  BY DEF NamesInv
<1>3. Grows(Out, epg_dump(Out, p))
  BY <1>1, <1>2, GuideText
<1>4. PICK t : Good(t) /\ epg_dump(Out, p).text = Out.text \o t
  BY <1>3 DEF Grows
<1>5. t \in Seq(Tokens)
  BY <1>4 DEF Good
<1>6. Out.text \o t = t
  <2>1. <<>> \o t = t
    BY <1>5, ConcatEmptySeq
  <2> QED
    BY <2>1, OutTyped
<1> QED
  BY <1>3, <1>4, <1>6 DEF Grows

\* The commands, one by one.  "scan" lists the channels ...
LEMMA ScanKeepsText ==
  ASSUME NamesInv, TextInv, FeederInv, Scan
  PROVE  TextInv'
<1>1. PICK dump : dump = xine_dump(Default.feeder) /\ Run(Default, Listing(dump), "command") /\ Default.feeder # NULL
  BY DEF Scan, Listing
<1>2. Default.fmt = client.fmt /\ Default.started = client.started /\ Default.newchannel = client.newchannel
  BY DefaultText
<1>3. dump \in Seq(DOMAIN Events)
  <2>1. Default.feeder \in Parsers
    BY <1>1, DefaultFeeder
  <2>2. known[Default.feeder] \in SUBSET Muxes
    BY <2>1 DEF NamesInv
  <2> QED
    BY <1>1, <2>2, DumpNames
<1>4. ASSUME client.fmt \in Text
      PROVE  Default.started \in BOOLEAN /\ Default.newchannel \in BOOLEAN /\ Fits(Listing(dump), "command")
  <2>1. Quiet(Listing(dump))
    BY <1>3, <1>4, ListingQuiet
  <2>2. OpenIn("command", client.fmt) = OpenIn(thread.at, client.fmt)
    BY <1>1 DEF Run, At, OpenIn
  <2>3. Fits(Listing(dump), "command")
    BY <2>1, <2>2, QuietFits
  <2> QED
    BY <1>2, <1>4, <2>3 DEF TextInv
<1>5. PICK c, text : c = Default /\ text = Listing(dump)
  OBVIOUS
<1>6. Run(c, text, "command") /\ c.fmt = client.fmt
  BY <1>1, <1>2, <1>5
<1>7. client.fmt \in Text => c.started \in BOOLEAN /\ c.newchannel \in BOOLEAN /\ Fits(text, "command")
  BY <1>4, <1>5
<1> QED
  BY <1>6, <1>7, RunKeepsText

\* ... "video" is one token ...
LEMMA VideoKeepsText ==
  ASSUME NamesInv, TextInv, Video
  PROVE  TextInv'
<1>1. PICK c, text : /\ c = Default /\ text = IF client.fmt = "html" THEN <<Token("video", "")>> ELSE <<>>
                     /\ Run(c, text, "command")
  BY DEF Video
<1>2. c.fmt = client.fmt /\ c.started = client.started /\ c.newchannel = client.newchannel
  BY <1>1, DefaultText
<1>3. Quiet(text)
  <2>1. PICK x : x = Token("video", "")
    OBVIOUS
  <2>2. "" \in Words /\ "video" \in Kinds
    BY DEF Words, Kinds
  <2>3. x \in Tokens /\ x.is = "video"
    BY <2>1, <2>2, TokenType
  <2>4. CASE client.fmt = "html"
    <3>1. text = <<x>>
      BY <1>1, <2>1, <2>4
    <3>2. text \in Seq(Tokens) /\ \A i \in 1 .. Len(text) : text[i].is = "video"
      BY <2>3, <3>1
    <3>3. text \in Seq(Tokens)
      BY <3>2
    <3>4. \A i \in 1 .. Len(text) : text[i].is \in {"name", "channel", "video"}
      BY <3>2
    <3>5. Whole(text)
      BY <3>3, <3>4, QuietNested DEF Whole
    <3>6. \A i \in DOMAIN text : text[i].is # "open" \/ text[i].of # "row"
      BY <3>2
    <3> QED
      BY <3>3, <3>5, <3>6, NoRow DEF Quiet
  <2>5. CASE client.fmt # "html"
    BY <1>1, <2>5, EmptyQuiet
  <2> QED
    BY <2>4, <2>5
<1>4. ASSUME client.fmt \in Text
      PROVE  c.started \in BOOLEAN /\ c.newchannel \in BOOLEAN /\ Fits(text, "command")
  <2>1. OpenIn("command", client.fmt) = OpenIn(thread.at, client.fmt)
    BY <1>1 DEF Run, At, OpenIn
  <2>2. Fits(text, "command")
    BY <1>3, <2>1, QuietFits
  <2> QED
    BY <1>2, <1>4, <2>2 DEF TextInv
<1> QED
  BY <1>1, <1>2, <1>4, RunKeepsText

\* ... "channels" and "xmltv" begin ...
LEMMA ListKeepsText ==
  ASSUME NamesInv, TextInv, NEW cmd \in {"channels", "xmltv"}, List(cmd)
  PROVE  TextInv'
<1>1. PICK dump : dump = xine_dump(Default.tuner)
  OBVIOUS
<1>2. PICK open : open = CASE cmd = "xmltv" \/ client.fmt = "xml" -> Tv("open")
                           [] cmd = "channels" /\ client.fmt = "json" -> Bracket("open", FALSE)
                           [] OTHER -> <<>>
  OBVIOUS
<1>3. Run(Default, open \o Listing(dump), cmd) /\ Default.tuner # NULL
  BY <1>1, <1>2, Zenon DEF List, Listing
<1>4. Default.fmt = client.fmt /\ Default.started = client.started /\ Default.newchannel = client.newchannel
  BY DefaultText
<1>5. dump \in Seq(DOMAIN Events)
  <2>1. Default.tuner \in Parsers
    BY <1>3, DefaultNames DEF Parsers
  <2>2. known[Default.tuner] \in SUBSET Muxes
    BY <2>1 DEF NamesInv
  <2> QED
    BY <1>1, <2>2, DumpNames
<1>6. ASSUME client.fmt \in Text
      PROVE  Default.started \in BOOLEAN /\ Default.newchannel \in BOOLEAN /\ Fits(open \o Listing(dump), cmd)
  <2>1. Quiet(Listing(dump))
    BY <1>5, <1>6, ListingQuiet
  <2>2. At("command")
    BY <1>3 DEF Run
  <2>3. PICK names : names = Listing(dump)
    OBVIOUS
  <2>4. Quiet(names)
    BY <2>1, <2>3
  <2>5. Fits(open \o names, cmd)
    BY <1>2, <1>6, <2>2, <2>4, ListFits
  <2> QED
    BY <1>4, <1>6, <2>3, <2>5 DEF TextInv
<1>7. PICK c, text : c = Default /\ text = open \o Listing(dump)
  OBVIOUS
<1>8. Run(c, text, cmd) /\ c.fmt = client.fmt
  BY <1>3, <1>4, <1>7
<1>9. client.fmt \in Text => c.started \in BOOLEAN /\ c.newchannel \in BOOLEAN /\ Fits(text, cmd)
  BY <1>6, <1>7
<1>10. cmd \in {"command", "failed", "channels", "xmltv", "save"}
  OBVIOUS
<1> QED
  BY <1>8, <1>9, <1>10, RunKeepsText

\* ... and go on with the file.
LEMMA LoadKeepsText ==
  ASSUME NamesInv, TextInv, Load
  PROVE  TextInv'
<1>1. PICK shut, names : /\ shut = CASE At("channels") /\ client.fmt = "xml" -> Tv("shut")
                                     [] At("channels") /\ client.fmt = "json" -> Bracket("shut", FALSE)
                                     [] OTHER -> <<>>
                         /\ names = Listing(Remaining)
  OBVIOUS
<1>2. PICK next : next = IF At("xmltv") THEN "epg" ELSE "command"
  OBVIOUS
<1>3. (At("channels") \/ At("xmltv")) /\ client' = client
      /\ thread' = [thread EXCEPT !.at = next]
  BY <1>2 DEF Load
<1>4. sent' = (sent \o names) \o shut
  BY <1>1, Zenon DEF Load, Listing
<1>5. ASSUME client.fmt \in Text
      PROVE  /\ ~At("end")
             /\ client'.started \in BOOLEAN /\ client'.newchannel \in BOOLEAN
             /\ \E text : sent' = sent \o text /\ Fits(text, next)
  <2>1. client.tuner # NULL
    BY <1>3 DEF NamesInv
  <2>2. Remaining \in Seq(DOMAIN Events)
    BY <2>1, RemainingNames
  <2>3. Quiet(names)
    BY <1>1, <1>5, <2>2, ListingQuiet
  <2>4. At("channels") \/ At("xmltv")
    BY <1>3
  <2>5. Fits(names \o shut, IF At("xmltv") THEN "epg" ELSE "command")
    BY <1>1, <1>5, <2>3, <2>4, LoadFits
  <2>6. sent' = sent \o (names \o shut)
    <3>1. sent \in Seq(Tokens)
      BY <1>5 DEF TextInv
    <3>2. names \in Seq(Tokens)
      BY <2>3 DEF Quiet
    <3>3. PICK z : z = shut
      OBVIOUS
    <3>4. z \in Seq(Tokens)
      <4>1. Tv("shut") \in Seq(Tokens) /\ Bracket("shut", FALSE) \in Seq(Tokens)
        BY PlaceTokens
      <4>2. <<>> \in Seq(Tokens)
        OBVIOUS
      <4> QED
        BY <1>1, <3>3, <4>1, <4>2
    <3>5. (sent \o names) \o z = sent \o (names \o z)
      BY <3>1, <3>2, <3>4, InTurn, ZenonT(60)
    <3> QED
      BY <1>4, <3>3, <3>5
  <2>7. ~At("end")
    BY <1>3 DEF At
  <2> QED
    BY <1>2, <1>3, <1>5, <2>5, <2>6, <2>7 DEF TextInv
<1>6. next \in Places
  BY <1>2 DEF Places
<1>7. client'.fmt = client.fmt
  BY <1>3
<1>8. thread' = [thread EXCEPT !.at = next]
  BY <1>3
<1> QED
  BY <1>5, <1>6, <1>7, <1>8, SendKeepsText

\* The client has the flags of the report.
LEMMA ToldIs ==
  ASSUME NEW c, DOMAIN c = {"tuner", "feeder", "fmt", "started", "newchannel"}, NEW out
  PROVE  /\ Told(c, out).fmt = c.fmt /\ Told(c, out).started = out.started
         /\ Told(c, out).newchannel = out.newchannel
  BY DEF Told

\* The guide at the end of "xmltv".
LEMMA XmltvGuideKeepsText ==
  ASSUME NamesInv, TextInv, FeederInv, XmltvGuide
  PROVE  TextInv'
<1>1. PICK out : out = epg_dump(Out, client.feeder)
  OBVIOUS
<1>2. /\ At("epg") /\ client' = Told(client, out) /\ sent' = (sent \o out.text) \o Tv("shut")
      /\ thread' = [thread EXCEPT !.at = "command"]
  BY <1>1 DEF XmltvGuide
<1>3. client'.fmt = client.fmt /\ client'.started = out.started /\ client'.newchannel = out.newchannel
  BY <1>2, ToldIs DEF NamesInv
<1>4. ASSUME client.fmt \in Text
      PROVE  /\ ~At("end")
             /\ client'.started \in BOOLEAN /\ client'.newchannel \in BOOLEAN
             /\ \E text : sent' = sent \o text /\ Fits(text, "command")
  <2>1. client.feeder \in Parsers
    BY <1>2 DEF FeederInv
  <2>2. out \in Outs /\ Good(out.text)
    BY <1>1, <1>4, <2>1, GuideIs
  <2>3. PICK t : t = out.text
    OBVIOUS
  <2>4. Good(t)
    BY <2>2, <2>3
  <2>5. Fits(t \o Tv("shut"), "command")
    BY <1>2, <1>4, <2>4, GuideFits
  <2>6. sent' = sent \o (t \o Tv("shut"))
    <3>1. sent \in Seq(Tokens)
      BY <1>4 DEF TextInv
    <3>2. t \in Seq(Tokens)
      BY <2>4 DEF Good
    <3>3. Tv("shut") \in Seq(Tokens)
      BY PlaceTokens
    <3>4. (sent \o t) \o Tv("shut") = sent \o (t \o Tv("shut"))
      BY <3>1, <3>2, <3>3, InTurn, ZenonT(60)
    <3> QED
      BY <1>2, <2>3, <3>4
  <2>7. ~At("end")
    BY <1>2 DEF At
  <2>8. out.started \in BOOLEAN /\ out.newchannel \in BOOLEAN
    BY <2>2 DEF Outs
  <2> QED
    BY <1>3, <2>5, <2>6, <2>7, <2>8
<1>5. "command" \in Places
  BY DEF Places
<1>6. client'.fmt = client.fmt
  BY <1>3
<1>7. thread' = [thread EXCEPT !.at = "command"]
  BY <1>2
<1> QED
  BY <1>4, <1>5, <1>6, <1>7, SendKeepsText

\* "epg"
LEMMA EpgKeepsText ==
  ASSUME NamesInv, TextInv, FeederInv, Epg
  PROVE  TextInv'
<1>1. PICK out, open, shut : /\ out = epg_dump(Out, Default.feeder)
                             /\ open = IF client.fmt = "xml" THEN Tv("open") ELSE <<>>
                             /\ shut = IF client.fmt = "xml" THEN Tv("shut") ELSE <<>>
  OBVIOUS
<1>2. Run(Told(Default, out), (open \o out.text) \o shut, "command") /\ Default.feeder # NULL
  BY <1>1 DEF Epg
<1>3. PICK c, text : c = Told(Default, out) /\ text = (open \o out.text) \o shut
  OBVIOUS
<1>4. Run(c, text, "command")
  BY <1>2, <1>3
<1>5. c.fmt = client.fmt /\ c.started = out.started /\ c.newchannel = out.newchannel
  BY <1>3, DefaultNames, DefaultText, ToldIs
<1>6. ASSUME client.fmt \in Text
      PROVE  c.started \in BOOLEAN /\ c.newchannel \in BOOLEAN /\ Fits(text, "command")
  <2>1. Default.feeder \in Parsers
    BY <1>2, DefaultFeeder
  <2>2. out \in Outs /\ Good(out.text)
    BY <1>1, <1>6, <2>1, GuideIs
  <2>3. PICK t : t = out.text
    OBVIOUS
  <2>4. Good(t)
    BY <2>2, <2>3
  <2>5. At("command")
    BY <1>2 DEF Run
  <2>6. Fits((open \o t) \o shut, "command")
    BY <1>1, <1>6, <2>4, <2>5, EpgFits
  <2>7. out.started \in BOOLEAN /\ out.newchannel \in BOOLEAN
    BY <2>2 DEF Outs
  <2> QED
    BY <1>3, <1>5, <2>3, <2>6, <2>7
<1> QED
  BY <1>4, <1>5, <1>6, RunKeepsText

\* "info"
LEMMA InfoKeepsText ==
  ASSUME NamesInv, TextInv, NEW m \in Muxes, Info(m)
  PROVE  TextInv'
<1>1. PICK i \in DOMAIN Channels[m] :
        LET c == Channels[m][i]
            begun == [Streamback(Out, Around("open") \o chandump(c)) EXCEPT !.started = TRUE]
            out == Show(Show(begun, c, IF Events[c] = <<>> THEN "nothing" ELSE Events[c][1]),
                        c, IF Len(Events[c]) < 2 THEN "nothing" ELSE Events[c][2])
        IN  Run([Default EXCEPT !.started = FALSE, !.newchannel = out.newchannel], out.text \o Around("shut"), "command")
  BY Zenon DEF Info, Around, Show, PageMark
<1>2. PICK c : c = Channels[m][i]
  OBVIOUS
<1>3. c \in DOMAIN Events
  BY <1>2, ReplyAssumption DEF ReplyAssumption
<1>4. PICK e1, e2 : /\ e1 = IF Events[c] = <<>> THEN "nothing" ELSE Events[c][1]
                    /\ e2 = IF Len(Events[c]) < 2 THEN "nothing" ELSE Events[c][2]
  OBVIOUS
<1>5. e1 \in Words /\ e2 \in Words
  BY <1>3, <1>4, ShownWords
<1>6. PICK begun : begun = [Streamback(Out, Around("open") \o chandump(c)) EXCEPT !.started = TRUE]
  OBVIOUS
<1>7. PICK out : out = Show(Show(begun, c, e1), c, e2)
  OBVIOUS
<1>8. Run([Default EXCEPT !.started = FALSE, !.newchannel = out.newchannel], out.text \o Around("shut"), "command")
  BY <1>1, <1>2, <1>4, <1>6, <1>7
<1>9. PICK d, text : /\ d = [Default EXCEPT !.started = FALSE, !.newchannel = out.newchannel]
                     /\ text = out.text \o Around("shut")
  OBVIOUS
<1>10. Run(d, text, "command")
  BY <1>8, <1>9
<1>11. d.fmt = client.fmt /\ d.started = FALSE /\ d.newchannel = out.newchannel
  BY <1>9, DefaultNames, DefaultText
<1>12. ASSUME client.fmt \in Text
       PROVE  d.started \in BOOLEAN /\ d.newchannel \in BOOLEAN /\ Fits(text, "command")
  <2>1. PICK s : s = Around("open") \o chandump(c)
    OBVIOUS
  <2>2. s \in Seq(Tokens)
    <3>1. Around("open") \in Seq(Tokens)
      <4>1. Tv("open") \in Seq(Tokens) /\ Bracket("open", FALSE) \in Seq(Tokens)
        BY PlaceTokens
      <4>2. <<>> \in Seq(Tokens)
        OBVIOUS
      <4> QED
        BY <1>12, <4>1, <4>2 DEF Around, Text
    <3>2. PICK x : x = Token("channel", c)
      OBVIOUS
    <3>3. c \in Words /\ "channel" \in Kinds
      BY <1>3 DEF Words, Kinds
    <3>4. x \in Tokens
      BY <3>2, <3>3, TokenType
    <3>5. PICK y : y = <<x>>
      OBVIOUS
    <3>6. y \in Seq(Tokens) /\ chandump(c) = y
      BY <1>12, <3>2, <3>4, <3>5 DEF chandump
    <3>7. PICK a : a = Around("open")
      OBVIOUS
    <3>8. a \in Seq(Tokens)
      BY <3>1, <3>7
    <3>9. a \o y \in Seq(Tokens)
      BY <3>6, <3>8, ConcatProperties
    <3> QED
      BY <2>1, <3>6, <3>7, <3>9
  <2>3. Out \in Outs
    BY <1>12, OutTyped
  <2>4. /\ [Streamback(Out, s) EXCEPT !.started = TRUE] \in Outs
        /\ [Streamback(Out, s) EXCEPT !.started = TRUE].started
        /\ [Streamback(Out, s) EXCEPT !.started = TRUE].text = s
    BY <1>12, <2>2, <2>3, BegunIs
  <2>5. PICK b : b = begun
    OBVIOUS
  <2>6. b \in Outs
    BY <1>6, <2>1, <2>4, <2>5
  <2>7. b.started
    BY <1>6, <2>1, <2>4, <2>5
  <2>8. b.text = Around("open") \o chandump(c)
    BY <1>6, <2>1, <2>4, <2>5
  <2>9. At("command")
    BY <1>8 DEF Run
  <2>10. e1 \in Words
    BY <1>5
  <2>11. e2 \in Words
    BY <1>5
  <2>12. /\ Show(Show(b, c, e1), c, e2) \in Outs
         /\ Fits(Show(Show(b, c, e1), c, e2).text \o Around("shut"), "command")
    BY <1>3, <1>12, <2>6, <2>7, <2>8, <2>9, <2>10, <2>11, InfoFits
  <2>13. out \in Outs /\ Fits(text, "command")
    BY <1>7, <1>9, <2>5, <2>12
  <2> QED
    BY <1>11, <2>13 DEF Outs
<1> QED
  BY <1>10, <1>11, <1>12, RunKeepsText

\* A request begins with the header, and ends with the last chunk.
LEMMA ConnectionKeepsText ==
  ASSUME NamesInv, TextInv, Connection
  PROVE  TextInv'
<1>0. /\ DOMAIN client = {"tuner", "feeder", "fmt", "started", "newchannel"}
      /\ DOMAIN thread = {"at", "http"}
  BY DEF NamesInv
<1>1. ASSUME NEW fmt \in Text \cup {"bin"}, Get(fmt) PROVE TextInv'
  <2>1. /\ client' = [client EXCEPT !.fmt = fmt, !.started = FALSE, !.newchannel = FALSE]
        /\ thread' = [at |-> "command", http |-> TRUE]
        /\ sent' = IF fmt \in Text THEN <<Header>> ELSE <<>>
    BY <1>1 DEF Get, Request
  <2>2. client'.fmt = fmt /\ client'.started = FALSE /\ client'.newchannel = FALSE
    BY <1>0, <2>1
  <2>3. CASE fmt \notin Text
    BY <2>2, <2>3 DEF TextInv
  <2>4. CASE fmt \in Text
    <3>1. sent' = <<Header>>
      BY <2>1, <2>4
    <3>2. sent' \in Seq(Tokens)
      BY <3>1, EndTokens
    <3>3. OpenIn("command", fmt) = <<>>
      BY DEF OpenIn
    <3>4. Body(sent', OpenIn(thread'.at, client'.fmt))
      BY <2>1, <2>2, <3>1, <3>3, BodyBegins
    <3>5. Rows(sent')
      <4>1. Header = Token("head", "")
        BY DEF Header
      <4> QED
        BY <3>1, <4>1, PageRows
    <3>6. thread'.at = "command" /\ thread'.http = TRUE
      BY <2>1
    <3> QED
      BY <2>2, <3>2, <3>4, <3>5, <3>6 DEF TextInv, At
  <2> QED
    BY <2>3, <2>4
<1>2. CASE (\E http \in BOOLEAN : Line(http)) \/ HeadOnly
  <2>1. client' = [client EXCEPT !.fmt = "cli", !.started = FALSE, !.newchannel = FALSE]
    BY <1>2 DEF Line, HeadOnly, Request
  <2>2. client'.fmt = "cli"
    BY <1>0, <2>1
  <2> QED
    BY <2>2 DEF TextInv, Text
<1>3. CASE NoCli \/ HangsUp
  <2>1. At("recv")
    BY <1>3 DEF NoCli, HangsUp, Request
  <2>2. client.fmt \notin Text
    BY <2>1 DEF TextInv
  <2>3. client' = client \/ client' = [client EXCEPT !.fmt = client.fmt, !.started = FALSE, !.newchannel = FALSE]
    BY <1>3 DEF NoCli, HangsUp, Request
  <2>4. client'.fmt = client.fmt
    BY <1>0, <2>3
  <2> QED
    BY <2>2, <2>4 DEF TextInv
<1>4. CASE Finish
  <2>1. /\ At("failed") \/ At("command")
        /\ thread' = [thread EXCEPT !.at = IF thread.http THEN "end" ELSE "recv"]
        /\ client' = client
        /\ client.fmt \in Text => sent' = sent \o <<LastChunk, ConnClose>>
    <3>1. PICK e : e = CASE client.fmt \in Text -> <<LastChunk, ConnClose>>
                         [] client.fmt = "cli" -> <<Prompt>>
                         [] OTHER -> <<>>
      OBVIOUS
    <3>2. sent' = sent \o e
      BY <1>4, <3>1, Zenon DEF Finish
    <3>3. client.fmt \in Text => e = <<LastChunk, ConnClose>>
      BY <3>1 DEF Text
    <3>4. At("failed") \/ At("command")
      BY <1>4 DEF Finish
    <3>5. /\ thread' = [thread EXCEPT !.at = IF thread.http THEN "end" ELSE "recv"]
          /\ client' = client
      BY <1>4 DEF Finish
    <3> QED
      BY <3>2, <3>3, <3>4, <3>5
  <2> SUFFICES ASSUME client.fmt \in Text PROVE TextInv'
    BY <2>1 DEF TextInv
  <2>2. thread.http = TRUE
    BY DEF TextInv
  <2>3. thread'.at = "end" /\ thread'.http = TRUE
    BY <1>0, <2>1, <2>2
  <2>4. OpenIn(thread.at, client.fmt) = <<>> /\ ~At("end")
    BY <2>1 DEF At, OpenIn
  <2>5. PICK b \in Seq(Tokens) : sent = <<Header>> \o b /\ Nested(<<>>, b) = <<>>
    BY <2>4 DEF TextInv, Body
  <2>6. Complete(sent')
    BY <2>1, <2>5 DEF Complete
  <2>7. sent' \in Seq(Tokens)
    <3>1. PICK tl : tl = <<LastChunk, ConnClose>>
      OBVIOUS
    <3>2. tl \in Seq(Tokens)
      BY <3>1, EndTokens
    <3>3. sent \in Seq(Tokens)
      BY DEF TextInv
    <3>4. sent \o tl \in Seq(Tokens)
      BY <3>2, <3>3, ConcatProperties
    <3> QED
      BY <2>1, <3>1, <3>4
  <2>8. ASSUME client.fmt = "html" PROVE Rows(sent')
    <3>1. PICK tl, x, y : tl = <<x, y>> /\ x = LastChunk /\ y = ConnClose
      OBVIOUS
    <3>2. tl \in Seq(Tokens)
      BY <3>1, EndTokens
    <3>3. sent \in Seq(Tokens) /\ Rows(sent)
      BY <2>8 DEF TextInv
    <3>4. x.is = "last" /\ y.is = "close_connection"
      BY <3>1 DEF LastChunk, ConnClose, Token
    <3>5. \A i \in DOMAIN tl : tl[i] = x \/ tl[i] = y
      BY <3>1
    <3>6. Rows(tl)
      BY <3>4, <3>5, NoRow
    <3>7. sent \in Seq(Tokens)
      BY <3>3
    <3>8. Rows(sent)
      BY <3>3
    <3>9. Rows(sent \o tl)
      BY <3>2, <3>6, <3>7, <3>8, RowsConcat
    <3> QED
      BY <2>1, <3>1, <3>9
  <2> QED
    BY <2>1, <2>3, <2>6, <2>7, <2>8 DEF TextInv, At
<1>5. CASE Close
  <2>1. client'.fmt = "none"
    BY <1>5 DEF Close, NewClient
  <2> QED
    BY <2>1 DEF TextInv, Text
<1> QED
  BY <1>1, <1>2, <1>3, <1>4, <1>5 DEF Connection

\* All steps.
LEMMA StepKeepsText == NamesInv /\ TextInv /\ FeederInv /\ [Next]_vars => TextInv'
<1> SUFFICES ASSUME NamesInv, TextInv, FeederInv, [Next]_vars PROVE TextInv'
  OBVIOUS
<1>1. /\ DOMAIN client = {"tuner", "feeder", "fmt", "started", "newchannel"}
      /\ DOMAIN thread = {"at", "http"}
  BY DEF NamesInv
<1>2. Default.fmt = client.fmt /\ Default.started = client.started /\ Default.newchannel = client.newchannel
  BY DefaultText
<1>3. CASE Connection
  BY <1>3, ConnectionKeepsText
<1>4. ASSUME NEW i \in Ids, SelectTuner(i) \/ SelectFeeder(i) PROVE TextInv'
  <2> DEFINE found == i \in config.tuners
             t == [client EXCEPT !.tuner = IF found THEN Tuner(i) ELSE NULL, !.feeder = IF found THEN Tuner(i) ELSE @]
             f == [client EXCEPT !.feeder = IF i \in config.feeders THEN Feeder(i) ELSE NULL,
                                 !.tuner = IF i \in config.feeders THEN NULL ELSE @]
  <2>1. /\ t.fmt = client.fmt /\ t.started = client.started /\ t.newchannel = client.newchannel
        /\ f.fmt = client.fmt /\ f.started = client.started /\ f.newchannel = client.newchannel
    BY <1>1
  <2>2. Run(t, <<>>, "command") \/ Run(f, <<>>, "command")
    BY <1>4 DEF SelectTuner, SelectFeeder
  <2> HIDE DEF t, f
  <2> QED
    BY <2>1, <2>2, QuietRun
<1>5. CASE Fails \/ Works \/ Save
  <2>1. \E next \in {"failed", "command", "save"} : Run(Default, <<>>, next)
    BY <1>5 DEF Fails, Works, Save
  <2> QED
    BY <1>2, <2>1, QuietRun
<1>6. CASE Video
  BY <1>6, VideoKeepsText
<1>7. CASE Scan
  BY <1>7, ScanKeepsText
<1>8. ASSUME NEW cmd \in {"channels", "xmltv"}, List(cmd) PROVE TextInv'
  BY <1>8, ListKeepsText
<1>9. CASE Load
  BY <1>9, LoadKeepsText
<1>10. CASE XmltvGuide
  BY <1>10, XmltvGuideKeepsText
<1>11. CASE Epg
  BY <1>11, EpgKeepsText
<1>12. ASSUME NEW m \in Muxes, Info(m) PROVE TextInv'
  BY <1>12, InfoKeepsText
<1>13. CASE Saved
  <2>1. At("save") /\ thread' = [thread EXCEPT !.at = "command"] /\ client' = client /\ sent' = sent
    BY <1>13 DEF Saved
  <2>2. ASSUME client.fmt \in Text
        PROVE  /\ ~At("end") /\ client'.started \in BOOLEAN /\ client'.newchannel \in BOOLEAN
               /\ \E text : sent' = sent \o text /\ Fits(text, "command")
    <3>1. sent \in Seq(Tokens)
      BY <2>2 DEF TextInv
    <3>2. OpenIn("command", client.fmt) = OpenIn(thread.at, client.fmt)
      BY <2>1 DEF At, OpenIn
    <3>3. Fits(<<>>, "command") /\ sent \o <<>> = sent
      BY <2>2, <3>1, <3>2, SayNothing
    <3>4. ~At("end")
      BY <2>1 DEF At
    <3> QED
      BY <2>1, <2>2, <3>3, <3>4 DEF TextInv
  <2>3. "command" \in Places
    BY DEF Places
  <2>4. client'.fmt = client.fmt
    BY <2>1
  <2>5. thread' = [thread EXCEPT !.at = "command"]
    BY <2>1
  <2> QED
    BY <2>2, <2>3, <2>4, <2>5, SendKeepsText
<1>14. CASE Quit
  <2> DEFINE c == [Default EXCEPT !.fmt = IF @ = "cli" THEN "none" ELSE @]
  <2>1. Run(c, <<>>, "command")
    BY <1>14 DEF Quit
  <2>2. DOMAIN Default = {"tuner", "feeder", "fmt", "started", "newchannel"}
    BY DefaultNames
  <2>3. /\ c.fmt = IF client.fmt = "cli" THEN "none" ELSE client.fmt
        /\ c.started = client.started /\ c.newchannel = client.newchannel
    BY <1>2, <2>2
  <2> HIDE DEF c
  <2>4. CASE client.fmt \in Text
    <3>1. c.fmt = client.fmt
      BY <2>3, <2>4 DEF Text
    <3> QED
      BY <2>1, <2>3, <3>1, QuietRun
  <2>5. CASE client.fmt \notin Text
    <3>1. client' = c
      BY <2>1 DEF Run
    <3>2. client'.fmt \notin Text
      BY <2>3, <2>5, <3>1 DEF Text
    <3> QED
      BY <3>2 DEF TextInv
  <2> QED
    BY <2>4, <2>5
<1>15. CASE (\E p \in Parsers, m \in Muxes : Learn(p, m)) \/ UNCHANGED vars
  <2>1. client' = client /\ thread' = thread /\ sent' = sent
    BY <1>15 DEF Learn, vars
  <2> QED
    BY <2>1 DEF TextInv, At
<1>16. CASE Crash
  <2>1. client'.fmt = "none"
    BY <1>16 DEF Crash, NewClient
  <2> QED
    BY <2>1 DEF TextInv, Text
<1> QED
  BY <1>3, <1>4, <1>5, <1>6, <1>7, <1>8, <1>9, <1>10, <1>11, <1>12, <1>13, <1>14, <1>15, <1>16
     DEF Next, Command

\* What was sent so far is then well formed.
LEMMA TextIsWellFormed == TextInv => WellFormed
<1> SUFFICES ASSUME TextInv PROVE WellFormed
  OBVIOUS
<1>1. Framed
  <2> SUFFICES ASSUME At("end"), client.fmt \in Text
               PROVE  /\ Len(sent) >= 3 /\ sent[1] = Header
                      /\ SubSeq(sent, Len(sent) - 1, Len(sent)) = <<LastChunk, ConnClose>>
                      /\ FoldLeft(Nest, <<>>, SubSeq(sent, 2, Len(sent) - 2)) = <<>>
    BY DEF Framed
  <2>1. Complete(sent)
    BY DEF TextInv
  <2> QED
    BY <2>1, CompleteFramed
<1>2. RowsNamed
  <2> SUFFICES ASSUME client.fmt = "html", NEW i \in DOMAIN sent, NEW j \in DOMAIN sent,
                      i < j, sent[i] = Token("open", "row"), sent[j] = Token("shut", "row"),
                      \A k \in i + 1 .. j - 1 : sent[k].of # "row"
               PROVE  \/ j = i + 1
                      \/ /\ sent[i + 1].is = "name"
                         /\ [k \in 1 .. j - i - 2 |-> sent[i + 1 + k].of] = Events[sent[i + 1].of]
    BY DEF RowsNamed
  <2>1. sent \in Seq(Tokens) /\ Rows(sent)
    BY DEF TextInv, Text
  <2>2. sent \in Seq(Tokens)
    BY <2>1
  <2>3. Rows(sent)
    BY <2>1
  <2> QED
    BY <2>2, <2>3, RowsAreNamed
<1> QED
  BY <1>1, <1>2 DEF WellFormed

\* A reply is well formed from the header to the last cell, whatever the line asks
\* for, in which order, and whichever of its commands fails (serve.cpp: command,
\* __command; text.cpp: epg_header_footer, epg_event).
THEOREM RepliesAreWellFormed == Spec => []WellFormed
<1>1. Init => TextInv /\ FeederInv
  BY DEF Init, TextInv, FeederInv, NewClient, NewThread, At, Text
<1>2. NamesInv /\ TextInv /\ FeederInv /\ [Next]_vars => TextInv' /\ FeederInv'
  BY StepKeepsText, StepKeepsFeeder
<1> QED
  BY <1>1, <1>2, NamesInvariant, TextIsWellFormed, PTL DEF Spec
=============================================================================
