------------------------------ MODULE PsipProofs ------------------------------
(***************************************************************************)
(* For any feeds, multiplexes, selections and number of changes: a pid     *)
(* that a parser decodes or passes on has its filter set at the tuner.     *)
(* For one feed, whose decoders no other feed touches: the streams of the  *)
(* selected services pass, and a stream that is said to be known is.       *)
(***************************************************************************)
EXTENDS Psip, TLAPS

\* The fields of a parser, so that EXCEPT changes a field that exists.
Fields == {"ts_id", "has", "expect_vct", "service_ids", "rcvd_pmt", "h_pmt", "h_atsc",
           "seen_pat", "seen", "payload_pids", "av_pids", "filters", "got"}

\* A parser that is whole and whose pids are filtered.
Good(q) ==
  /\ DOMAIN q = Fields
  /\ DOMAIN q.h_pmt \cup q.payload_pids \subseteq q.filters

IInv == DOMAIN parser = Parsers /\ \A i \in Parsers : Good(parser[i])

-----------------------------------------------------------------------------
(* What the handlers do to one parser.                                     *)

\* A new parser has no pid at all.
LEMMA NewIsGood == Good(NewParser)
BY DEF Good, NewParser, Fields

\* reset() keeps the audio and video pids, which are not filtered for.
LEMMA ResetIsGood ==
  ASSUME NEW q
  PROVE  Good(reset(q))
BY DEF Good, reset, NewParser, Fields

\* process_pat asks for the pid of every handle it attaches.
LEMMA ProcessPatKeeps ==
  ASSUME NEW q, Good(q), NEW programs
  PROVE  Good(process_pat(q, programs))
<1> DEFINE sel == Selected(q, programs)
           pids == {programs[p] : p \in sel}
           last(pid) == CHOOSE p \in sel : /\ programs[p] = pid
                                           /\ \A r \in sel : programs[r] = pid => r <= p
           handles == [pid \in pids |-> [program |-> last(pid), seen |-> None]]
           post == process_pat(q, programs)
<1>1. post = [q EXCEPT !.h_pmt = PutAll(@, handles),
                       !.filters = @ \cup pids,
                       !.rcvd_pmt = Put(@, sel, FALSE)]
  BY DEF process_pat
<1> HIDE DEF post, sel, handles
<1>2. /\ DOMAIN post = Fields
      /\ post.h_pmt = PutAll(q.h_pmt, handles)
      /\ post.payload_pids = q.payload_pids
      /\ post.filters = q.filters \cup pids
  BY <1>1 DEF Good, Fields
<1>3. DOMAIN handles = pids
  BY DEF handles
<1>4. DOMAIN post.h_pmt = DOMAIN q.h_pmt \cup pids
  BY <1>2, <1>3 DEF PutAll
<1> QED
  BY <1>2, <1>4 DEF Good, post

\* process_pmt asks for the pid of every stream it passes on.
LEMMA ProcessPmtKeeps ==
  ASSUME NEW q, Good(q), NEW pmt
  PROVE  Good(process_pmt(q, pmt))
<1>1. /\ DOMAIN process_pmt(q, pmt) = Fields
      /\ process_pmt(q, pmt).h_pmt = q.h_pmt
      /\ process_pmt(q, pmt).payload_pids = q.payload_pids \cup pmt.streams
      /\ process_pmt(q, pmt).filters = q.filters \cup pmt.streams
  BY DEF process_pmt, Good, Fields
<1> QED
  BY <1>1 DEF Good

\* A parser is replaced by one that is good.
LEMMA SameKeeps ==
  ASSUME IInv, NEW i \in Parsers, NEW q, Good(q), Same(i, q)
  PROVE  IInv'
BY DEF IInv, Same, Good

-----------------------------------------------------------------------------
(* The callbacks.                                                          *)

LEMMA TakePatKeeps ==
  ASSUME IInv, NEW i \in Parsers, TakePat(i)
  PROVE  IInv'
<1> DEFINE m == air[i]
           pre == [parser[i] EXCEPT !.seen_pat = <<m.ts, m.version>>,
                                    !.ts_id = m.ts,
                                    !.h_atsc = TRUE,
                                    !.seen = @ \ {"vct", "mgt"}]
           d == get_decoder(m.ts)
           known == d.version = m.version
           decoded == IF known THEN d
                      ELSE [d EXCEPT !.version = m.version, !.programs = m.programs]
           mid == process_pat(pre, decoded.programs)
           post == [mid EXCEPT !.has = @ \cup {"pat"}]
<1>1. Good(parser[i])
  BY DEF IInv
<1>2. Good(pre)
  BY <1>1 DEF Good, Fields
<1>3. Same(i, pre) \/ Same(i, post)
  BY DEF TakePat
<1> HIDE DEF pre, decoded
<1>4. Good(mid)
  BY <1>2, ProcessPatKeeps
<1> HIDE DEF mid
<1>5. Good(post)
  BY <1>4 DEF Good, Fields
<1> QED
  BY <1>2, <1>3, <1>5, SameKeeps

LEMMA TakePmtKeeps ==
  ASSUME IInv, NEW i \in Parsers, NEW pid, TakePmt(i, pid)
  PROVE  IInv'
<1> DEFINE p == parser[i].h_pmt[pid].program
           t == air[i].pmt[p]
           pre == [parser[i] EXCEPT !.h_pmt[pid].seen = t.version, !.got = Put(@, {p}, t)]
           d == get_decoder(pre.ts_id)
           known == p \in DOMAIN d.pmt /\ d.pmt[p].version = t.version
           decoded == IF known THEN d ELSE [d EXCEPT !.pmt = Put(@, {p}, t)]
           mid == process_pmt(pre, decoded.pmt[p])
           post == [mid EXCEPT !.rcvd_pmt = Put(@, {p}, TRUE)]
<1>1. Good(parser[i])
  BY DEF IInv
<1>2. Same(i, pre) \/ Same(i, post)
  BY DEF TakePmt
<1> HIDE DEF p, t
<1>3. /\ DOMAIN pre = Fields
      /\ DOMAIN pre.h_pmt = DOMAIN parser[i].h_pmt
      /\ pre.payload_pids = parser[i].payload_pids
      /\ pre.filters = parser[i].filters
  BY <1>1 DEF Good, Fields
<1>4. Good(pre)
  BY <1>1, <1>3 DEF Good
<1> HIDE DEF pre, decoded
<1>5. Good(mid)
  BY <1>4, ProcessPmtKeeps
<1> HIDE DEF mid
<1>6. Good(post)
  BY <1>5 DEF Good, Fields
<1> QED
  BY <1>2, <1>4, <1>6, SameKeeps

\* The guide tables touch neither pids nor filters.
LEMMA TakeTableKeeps ==
  ASSUME IInv, NEW i \in Parsers, NEW t, NEW pre, NEW learnt,
         Good(pre), Good(learnt), TakeTable(i, t, pre, learnt)
  PROVE  IInv'
<1>1. Good([learnt EXCEPT !.has = @ \cup {t}])
  BY DEF Good, Fields
<1>2. Same(i, [learnt EXCEPT !.has = @ \cup {t}]) \/ Same(i, pre)
  BY DEF TakeTable
<1> QED
  BY <1>1, <1>2, SameKeeps

LEMMA TakeGuideKeeps ==
  ASSUME IInv, NEW i \in Parsers, TakeVct(i) \/ TakeMgt(i) \/ TakeSdt(i) \/ TakeNit(i)
  PROVE  IInv'
<1>1. Good(parser[i])
  BY DEF IInv
<1>2. CASE TakeVct(i)
  <2> DEFINE pre == [parser[i] EXCEPT !.ts_id = air[i].ts, !.seen = @ \cup {"vct"}]
  <2>1. Good(pre)
    BY <1>1 DEF Good, Fields
  <2>2. TakeTable(i, "vct", pre, pre)
    BY <1>2 DEF TakeVct
  <2> HIDE DEF pre
  <2> QED
    BY <2>1, <2>2, TakeTableKeeps
<1>3. CASE TakeMgt(i)
  <2> DEFINE pre == [parser[i] EXCEPT !.seen = @ \cup {"mgt"}]
             learnt == [pre EXCEPT !.expect_vct = (air[i].guide = "vct")]
  <2>1. Good(pre)
    BY <1>1 DEF Good, Fields
  <2>2. TakeTable(i, "mgt", pre, learnt)
    BY <1>3 DEF TakeMgt
  <2> HIDE DEF pre
  <2>3. Good(learnt)
    BY <2>1 DEF Good, Fields
  <2> HIDE DEF learnt
  <2> QED
    BY <2>1, <2>2, <2>3, TakeTableKeeps
<1>4. CASE TakeSdt(i)
  <2> DEFINE pre == [parser[i] EXCEPT !.ts_id = air[i].ts, !.seen = @ \cup {"sdt"}]
  <2>1. Good(pre)
    BY <1>1 DEF Good, Fields
  <2>2. TakeTable(i, "sdt", pre, pre)
    BY <1>4 DEF TakeSdt
  <2> HIDE DEF pre
  <2> QED
    BY <2>1, <2>2, TakeTableKeeps
<1>5. CASE TakeNit(i)
  <2> DEFINE pre == [parser[i] EXCEPT !.seen = @ \cup {"nit"}, !.has = @ \cup {"nit"}]
  <2>1. Good(pre)
    BY <1>1 DEF Good, Fields
  <2>2. TakeTable(i, "nit", pre, pre)
    BY <1>5 DEF TakeNit
  <2> HIDE DEF pre
  <2> QED
    BY <2>1, <2>2, TakeTableKeeps
<1> QED
  BY <1>2, <1>3, <1>4, <1>5

-----------------------------------------------------------------------------
(* Lost packets, the air and the user.                                     *)

LEMMA DiscontinuityKeeps ==
  ASSUME IInv, NEW i \in Parsers, Discontinuity(i)
  PROVE  IInv'
<1> DEFINE handles == [pid \in DOMAIN parser[i].h_pmt |->
                         [parser[i].h_pmt[pid] EXCEPT !.seen = None]]
           post == [parser[i] EXCEPT !.seen_pat = <<None, None>>, !.seen = {}, !.h_pmt = handles]
<1>1. Good(parser[i])
  BY DEF IInv
<1>2. Same(i, post)
  BY <1>1 DEF Discontinuity, Good, Fields
<1>3. DOMAIN handles = DOMAIN parser[i].h_pmt
  OBVIOUS
<1> HIDE DEF handles
<1>4. Good(post)
  BY <1>1, <1>3 DEF Good, Fields
<1> QED
  BY <1>2, <1>4, SameKeeps

LEMMA SetServiceIdsKeeps ==
  ASSUME IInv, NEW i \in Parsers, NEW S, SetServiceIds(i, S)
  PROVE  IInv'
<1> DEFINE asked == [parser[i] EXCEPT !.service_ids = S, !.payload_pids = {}]
           d == rewrite_pat(asked, get_decoder(asked.ts_id))
           known == {p \in S : p \in DOMAIN d.pmt}
           all == [streams |-> UNION {d.pmt[p].streams : p \in known},
                   av |-> UNION {d.pmt[p].av : p \in known}]
           mid == process_pat(asked, d.programs)
<1>1. Good(parser[i])
  BY DEF IInv
<1>2. Good(asked)
  BY <1>1 DEF Good, Fields
<1>3. Same(i, asked) \/ Same(i, process_pmt(mid, all))
  BY DEF SetServiceIds
<1> HIDE DEF asked, d, all
<1>4. Good(mid)
  BY <1>2, ProcessPatKeeps
<1> HIDE DEF mid
<1>5. Good(process_pmt(mid, all))
  BY <1>4, ProcessPmtKeeps
<1> QED
  BY <1>2, <1>3, <1>5, SameKeeps

-----------------------------------------------------------------------------
(* The theorem.                                                            *)

LEMMA InitIInv == Init => IInv
BY NewIsGood DEF Init, IInv

LEMMA StepIInv == IInv /\ [Next]_vars => IInv'
<1> SUFFICES ASSUME IInv, [Next]_vars PROVE IInv'
  OBVIOUS
<1>1. CASE UNCHANGED vars
  BY <1>1 DEF IInv, Good, vars
<1>2. ASSUME NEW i \in Parsers, TakeAny(i) PROVE IInv'
  BY <1>2, TakePatKeeps, TakePmtKeeps, TakeGuideKeeps DEF TakeAny
<1>3. ASSUME NEW i \in Parsers, Discontinuity(i) PROVE IInv'
  BY <1>3, DiscontinuityKeeps
<1>4. ASSUME NEW i \in Parsers, AirUpdate(i) PROVE IInv'
  BY <1>4 DEF AirUpdate, IInv, Good
<1>5. ASSUME NEW i \in Parsers, NEW S, SetServiceIds(i, S) PROVE IInv'
  BY <1>5, SetServiceIdsKeeps
<1>6. ASSUME NEW i \in Parsers, Retune(i) PROVE IInv'
  BY <1>6, ResetIsGood, SameKeeps DEF Retune
<1>7. ASSUME NEW i \in Parsers, Cleanup(i) PROVE IInv'
  BY <1>7, NewIsGood, SameKeeps DEF Cleanup
<1> QED
  BY <1>1, <1>2, <1>3, <1>4, <1>5, <1>6, <1>7 DEF Next, UserOrAir

\* A hardware filter is set for every pid a parser decodes or passes on, through
\* every order of tables, selections, tunes and deletions (parse.cpp:add_filter).
THEOREM FiltersFollow == Spec => []AttachedIsFiltered
<1>1. IInv => AttachedIsFiltered
  BY DEF IInv, Good, AttachedIsFiltered
<1> QED
  BY <1>1, InitIInv, StepIInv, PTL DEF Spec

-----------------------------------------------------------------------------
(* One feed: what its parser and its decoder know of the stream.           *)

DecoderFields == {"version", "programs", "pmt", "tables"}

\* What a decoder has of a program is the PMT of some multiplex of its stream.
Whole(ts, d) ==
  /\ DOMAIN d = DecoderFields
  /\ \A p \in DOMAIN d.pmt :
       \E m \in Muxes : m.ts = ts /\ p \in DOMAIN m.programs /\ d.pmt[p] = m.pmt[p]

\* Parser q receives multiplex m, from its first PAT, SDT or VCT on under the
\* number of m's stream.
Tuned(q, m) ==
  /\ q.ts_id # m.ts => q.has \subseteq {"nit"} /\ ~q.h_atsc
  /\ "pat" \notin q.has => DOMAIN q.rcvd_pmt = {} /\ DOMAIN q.h_pmt = {} /\ DOMAIN q.got = {}
  /\ "sdt" \in q.has => m.guide = "dvb"
  /\ "mgt" \in q.has => m.guide # "dvb"

\* Program p is handled now, or would be if the decoded PAT had it.
Asked(q, d, p) == p \in q.service_ids \/ (q.service_ids = {} /\ p \in DOMAIN d.programs)

\* The decoder d has what parser q received last, and q passes on what it has
\* received for the programs that it handles.
Learnt(q, d) ==
  /\ \A p \in DOMAIN q.got : p \in DOMAIN d.pmt /\ d.pmt[p] = q.got[p]
  /\ \A p \in DOMAIN q.rcvd_pmt : q.rcvd_pmt[p] => p \in DOMAIN q.got
  /\ \A p \in DOMAIN q.got :
       is_pmt_ready_of(q, p) /\ Asked(q, d, p) => q.got[p].streams \subseteq q.payload_pids
  /\ "pat" \in q.has =>
       {p \in Selected(q, d.programs) : d.programs[p] # 0} \subseteq DOMAIN q.rcvd_pmt
  /\ q.has \cap {"sdt", "mgt", "vct"} \subseteq d.tables

Alone ==
  /\ air \in [Parsers -> Muxes]
  /\ \A ts \in DOMAIN decoders : Whole(ts, decoders[ts])
  /\ \A f \in Parsers : Tuned(parser[f], air[f]) /\ Learnt(parser[f], get_decoder(parser[f].ts_id))

-----------------------------------------------------------------------------
LEMMA NewKnowsNothing ==
  ASSUME NEW q, q = NewParser \/ \E r : q = reset(r), NEW m, NEW d
  PROVE  Tuned(q, m) /\ Learnt(q, d)
BY DEF Tuned, Learnt, NewParser, reset, is_pmt_ready_of

LEMMA DecoderIsWhole ==
  ASSUME Alone, NEW ts
  PROVE  Whole(ts, get_decoder(ts))
<1>1. Whole(ts, NewDecoder)
  BY DEF Whole, NewDecoder, DecoderFields
<1> QED
  BY <1>1 DEF Alone, get_decoder

\* A callback changes the parser to q and the decoder of its stream to d.
LEMMA Becomes ==
  ASSUME NEW f, Parsers = {f}, IInv, Alone, NEW q, NEW d, NEW ts,
         Same(f, q), Store(ts, d), ts = q.ts_id, Whole(ts, d), air' = air,
         Tuned(q, air[f]), Learnt(q, d)
  PROVE  Alone'
<1>1. parser'[f] = q /\ f \in Parsers
  BY DEF IInv, Same
<1>2. /\ DOMAIN decoders' = DOMAIN decoders \cup {ts}
      /\ \A x \in DOMAIN decoders' : decoders'[x] = IF x = ts THEN d ELSE decoders[x]
  BY DEF Store, Put
<1>3. \A x \in DOMAIN decoders' : Whole(x, decoders'[x])
  BY <1>2 DEF Alone
<1>4. get_decoder(parser[f].ts_id)' = d
  BY <1>1, <1>2 DEF get_decoder
<1>5. Tuned(parser[f], air[f])' /\ Learnt(parser[f], get_decoder(parser[f].ts_id))'
  BY <1>1, <1>4
<1>6. air' \in [Parsers -> Muxes]
  BY DEF Alone
<1> QED
  BY <1>1, <1>3, <1>5, <1>6 DEF Alone, Whole

\* The decoder of the stream on the air is the parser's, or the parser knows
\* nothing yet.
LEMMA OnAir ==
  ASSUME NEW f \in Parsers, Alone
  PROVE  /\ air[f] \in Muxes
         /\ Tuned(parser[f], air[f])
         /\ Learnt(parser[f], get_decoder(air[f].ts))
<1>1. air[f] \in Muxes /\ Tuned(parser[f], air[f])
      /\ Learnt(parser[f], get_decoder(parser[f].ts_id))
  BY DEF Alone
<1>2. CASE parser[f].ts_id = air[f].ts
  BY <1>1, <1>2
<1>3. CASE parser[f].ts_id # air[f].ts
  <2>1. /\ "pat" \notin parser[f].has /\ parser[f].has \cap {"sdt", "mgt", "vct"} = {}
        /\ DOMAIN parser[f].got = {} /\ DOMAIN parser[f].rcvd_pmt = {}
    BY <1>1, <1>3 DEF Tuned
  <2> QED
    BY <1>1, <2>1 DEF Learnt
<1> QED
  BY <1>1, <1>2, <1>3

\* process_pat waits for the PMT of every selected program.
LEMMA ProcessPatWaits ==
  ASSUME NEW q, Good(q), NEW programs
  PROVE  LET post == process_pat(q, programs)
         IN  /\ post.ts_id = q.ts_id /\ post.has = q.has /\ post.service_ids = q.service_ids
             /\ post.h_atsc = q.h_atsc /\ post.payload_pids = q.payload_pids /\ post.got = q.got
             /\ post.rcvd_pmt = Put(q.rcvd_pmt, Selected(q, programs), FALSE)
<1> DEFINE sel == Selected(q, programs)
           pids == {programs[p] : p \in sel}
           last(pid) == CHOOSE p \in sel : /\ programs[p] = pid
                                           /\ \A r \in sel : programs[r] = pid => r <= p
           handles == [pid \in pids |-> [program |-> last(pid), seen |-> None]]
           post == process_pat(q, programs)
<1>1. post = [q EXCEPT !.h_pmt = PutAll(@, handles),
                       !.filters = @ \cup pids,
                       !.rcvd_pmt = Put(@, sel, FALSE)]
  BY DEF process_pat
<1> HIDE DEF post, sel, handles, pids
<1>2. /\ post.ts_id = q.ts_id /\ post.has = q.has /\ post.service_ids = q.service_ids
      /\ post.h_atsc = q.h_atsc /\ post.payload_pids = q.payload_pids /\ post.got = q.got
      /\ post.rcvd_pmt = Put(q.rcvd_pmt, sel, FALSE)
  BY <1>1 DEF Good, Fields
<1> QED
  BY <1>2 DEF post, sel

LEMMA ProcessPmtPasses ==
  ASSUME NEW q, Good(q), NEW pmt
  PROVE  LET post == process_pmt(q, pmt)
         IN  /\ post.ts_id = q.ts_id /\ post.has = q.has /\ post.service_ids = q.service_ids
             /\ post.h_atsc = q.h_atsc /\ post.rcvd_pmt = q.rcvd_pmt /\ post.got = q.got
             /\ post.h_pmt = q.h_pmt
             /\ post.payload_pids = q.payload_pids \cup pmt.streams
BY DEF process_pmt, Good, Fields

\* What becomes of what is known of the stream when process_pat begins anew with
\* a PAT, and rewrite_pat adds the requested services to it.
LEMMA PatLearns ==
  ASSUME NEW q, NEW d, NEW programs, NEW post, NEW more, Learnt(q, d),
         "pat" \in q.has \/ (DOMAIN q.got = {} /\ DOMAIN q.rcvd_pmt = {}),
         post.got = q.got,
         post.service_ids = q.service_ids,
         post.payload_pids = q.payload_pids,
         post.rcvd_pmt = Put(q.rcvd_pmt, Selected(q, programs), FALSE),
         post.has = q.has \cup {"pat"},
         more.pmt = d.pmt, more.tables = d.tables,
         more.programs = Put(programs, q.service_ids \ DOMAIN programs, 0)
  PROVE  Learnt(post, more)
<1>1. /\ DOMAIN post.rcvd_pmt = DOMAIN q.rcvd_pmt \cup Selected(q, programs)
      /\ \A p \in DOMAIN post.rcvd_pmt :
           post.rcvd_pmt[p] = IF p \in Selected(q, programs) THEN FALSE ELSE q.rcvd_pmt[p]
  BY DEF Put
<1>2. /\ DOMAIN more.programs = DOMAIN programs \cup q.service_ids
      /\ \A p \in DOMAIN more.programs :
           more.programs[p] = IF p \in DOMAIN programs THEN programs[p] ELSE 0
  BY DEF Put
<1>3. ASSUME NEW p \in DOMAIN post.got, is_pmt_ready_of(post, p), Asked(post, more, p)
      PROVE  post.got[p].streams \subseteq post.payload_pids
  <2>1. p \notin Selected(q, programs) /\ p \in DOMAIN q.rcvd_pmt /\ q.rcvd_pmt[p]
    BY <1>1, <1>3 DEF is_pmt_ready_of
  <2>2. p \in q.service_ids
    BY <1>2, <1>3, <2>1 DEF Asked, Selected
  <2>3. is_pmt_ready_of(q, p) /\ Asked(q, d, p)
    BY <2>1, <2>2 DEF is_pmt_ready_of, Asked
  <2> QED
    BY <1>3, <2>3 DEF Learnt
<1>4. {p \in Selected(post, more.programs) : more.programs[p] # 0} \subseteq Selected(q, programs)
  BY <1>2 DEF Selected
<1> QED
  BY <1>1, <1>3, <1>4 DEF Learnt

LEMMA TakePatAlone ==
  ASSUME NEW f, Parsers = {f}, IInv, Alone, TakePat(f)
  PROVE  Alone'
<1> DEFINE m == air[f]
           pre == [parser[f] EXCEPT !.seen_pat = <<m.ts, m.version>>,
                                    !.ts_id = m.ts,
                                    !.h_atsc = TRUE,
                                    !.seen = @ \ {"vct", "mgt"}]
           d == get_decoder(m.ts)
           known == d.version = m.version
           decoded == IF known THEN d
                      ELSE [d EXCEPT !.version = m.version, !.programs = m.programs]
           mid == process_pat(pre, decoded.programs)
           post == [mid EXCEPT !.has = @ \cup {"pat"}]
           more == rewrite_pat(pre, decoded)
<1>1. /\ f \in Parsers /\ Good(parser[f]) /\ Tuned(parser[f], m) /\ Learnt(parser[f], d)
      /\ Whole(m.ts, d)
  BY OnAir, DecoderIsWhole DEF IInv
<1>2. /\ DOMAIN pre = Fields /\ pre.ts_id = m.ts /\ pre.h_atsc /\ pre.has = parser[f].has
      /\ pre.service_ids = parser[f].service_ids /\ pre.payload_pids = parser[f].payload_pids
      /\ pre.got = parser[f].got /\ pre.rcvd_pmt = parser[f].rcvd_pmt
      /\ pre.h_pmt = parser[f].h_pmt /\ pre.filters = parser[f].filters
  BY <1>1 DEF Good, Fields
<1>3. Good(pre) /\ Tuned(pre, m) /\ Learnt(pre, d)
  BY <1>1, <1>2 DEF Good, Tuned, Learnt, is_pmt_ready_of, Asked, Selected
<1>4. /\ DOMAIN decoded = DecoderFields /\ decoded.pmt = d.pmt /\ decoded.tables = d.tables
  BY <1>1 DEF Whole, DecoderFields
<1>5. /\ air' = air
      /\ \/ Same(f, pre) /\ Store(m.ts, d)
         \/ Same(f, post) /\ Store(m.ts, more)
  BY DEF TakePat
<1> HIDE DEF pre, decoded, d
<1>6. /\ DOMAIN more = DecoderFields /\ more.pmt = d.pmt /\ more.tables = d.tables
      /\ more.programs = Put(decoded.programs, pre.service_ids \ DOMAIN decoded.programs, 0)
  BY <1>4 DEF rewrite_pat, DecoderFields
<1>7. /\ mid.ts_id = pre.ts_id /\ mid.has = pre.has /\ mid.service_ids = pre.service_ids
      /\ mid.h_atsc = pre.h_atsc /\ mid.payload_pids = pre.payload_pids /\ mid.got = pre.got
      /\ mid.rcvd_pmt = Put(pre.rcvd_pmt, Selected(pre, decoded.programs), FALSE)
      /\ Good(mid)
  BY <1>3, ProcessPatWaits, ProcessPatKeeps
<1> HIDE DEF mid, more
<1>8. /\ post.ts_id = m.ts /\ post.has = pre.has \cup {"pat"} /\ post.service_ids = pre.service_ids
      /\ post.h_atsc /\ post.payload_pids = pre.payload_pids /\ post.got = pre.got
      /\ post.rcvd_pmt = Put(pre.rcvd_pmt, Selected(pre, decoded.programs), FALSE)
  BY <1>2, <1>7 DEF Good, Fields
<1> HIDE DEF post
<1>9. Learnt(post, more)
  <2>1. "pat" \in pre.has \/ (DOMAIN pre.got = {} /\ DOMAIN pre.rcvd_pmt = {})
    BY <1>3 DEF Tuned
  <2> QED
    BY <1>3, <1>6, <1>8, <2>1, PatLearns
<1>10. Tuned(post, m)
  BY <1>3, <1>8 DEF Tuned
<1>11. Whole(m.ts, more)
  BY <1>1, <1>6 DEF Whole
<1>12. CASE Same(f, pre) /\ Store(m.ts, d)
  BY <1>1, <1>2, <1>3, <1>5, <1>12, Becomes
<1>13. CASE Same(f, post) /\ Store(m.ts, more)
  BY <1>5, <1>8, <1>9, <1>10, <1>11, <1>13, Becomes
<1> QED
  BY <1>5, <1>12, <1>13

\* A PMT that the decoder had is the one that comes now, so what the parser
\* received last is what it passes on.
LEMMA TakePmtAlone ==
  ASSUME NEW f, Parsers = {f}, IInv, Alone, NEW pid, TakePmt(f, pid)
  PROVE  Alone'
<1> DEFINE m == air[f]
           p == parser[f].h_pmt[pid].program
           t == m.pmt[p]
           pre == [parser[f] EXCEPT !.h_pmt[pid].seen = t.version, !.got = Put(@, {p}, t)]
           d == get_decoder(pre.ts_id)
           known == p \in DOMAIN d.pmt /\ d.pmt[p].version = t.version
           decoded == IF known THEN d ELSE [d EXCEPT !.pmt = Put(@, {p}, t)]
           mid == process_pmt(pre, decoded.pmt[p])
           post == [mid EXCEPT !.rcvd_pmt = Put(@, {p}, TRUE)]
<1>1. /\ f \in Parsers /\ Good(parser[f]) /\ m \in Muxes /\ Tuned(parser[f], m)
      /\ Learnt(parser[f], get_decoder(m.ts))
  BY OnAir DEF IInv
<1>2. /\ pid \in DOMAIN parser[f].h_pmt /\ p \in DOMAIN m.programs
      /\ air' = air /\ Store(pre.ts_id, decoded)
      /\ \/ Same(f, post)
         \/ known /\ is_pmt_ready_of(pre, p) /\ Same(f, pre)
  BY ZenonT(60) DEF TakePmt
<1>3. "pat" \in parser[f].has /\ parser[f].ts_id = m.ts
  BY <1>1, <1>2 DEF Tuned
<1> HIDE DEF p, t
<1>4. /\ DOMAIN pre = Fields /\ pre.ts_id = m.ts /\ pre.h_atsc = parser[f].h_atsc
      /\ pre.has = parser[f].has
      /\ pre.service_ids = parser[f].service_ids /\ pre.payload_pids = parser[f].payload_pids
      /\ pre.got = Put(parser[f].got, {p}, t) /\ pre.rcvd_pmt = parser[f].rcvd_pmt
      /\ DOMAIN pre.h_pmt = DOMAIN parser[f].h_pmt /\ pre.filters = parser[f].filters
  BY <1>1, <1>3 DEF Good, Fields
<1> HIDE DEF pre
<1>5. Good(pre) /\ d = get_decoder(m.ts) /\ Whole(m.ts, d)
  BY <1>1, <1>4, DecoderIsWhole DEF Good
<1> HIDE DEF d
<1>6. known => d.pmt[p] = t
  <2> SUFFICES ASSUME known PROVE d.pmt[p] = t
    OBVIOUS
  <2>1. PICK n \in Muxes : n.ts = m.ts /\ p \in DOMAIN n.programs /\ d.pmt[p] = n.pmt[p]
    BY <1>5 DEF Whole
  <2>2. n.pmt[p].version = m.pmt[p].version
    BY <2>1 DEF t
  <2>3. n.pmt[p] = m.pmt[p]
    BY <1>1, <1>2, <2>1, <2>2, PsipAssumption
  <2> QED
    BY <2>1, <2>3 DEF t
<1>7. /\ DOMAIN decoded = DecoderFields /\ decoded.tables = d.tables
      /\ decoded.programs = d.programs
      /\ DOMAIN decoded.pmt = DOMAIN d.pmt \cup {p}
      /\ \A r \in DOMAIN decoded.pmt : decoded.pmt[r] = IF r = p THEN t ELSE d.pmt[r]
  <2>1. CASE known
    BY <1>5, <1>6, <2>1 DEF Whole
  <2>2. CASE ~known
    BY <1>5, <2>2 DEF Whole, DecoderFields, Put
  <2> QED
    BY <2>1, <2>2
<1> HIDE DEF decoded
<1>8. Whole(m.ts, decoded)
  BY <1>1, <1>2, <1>5, <1>7 DEF Whole, t
<1>9. /\ DOMAIN pre.got = DOMAIN parser[f].got \cup {p}
      /\ \A r \in DOMAIN pre.got : pre.got[r] = IF r = p THEN t ELSE parser[f].got[r]
  BY <1>4 DEF Put
<1>10. \A r \in DOMAIN pre.got : r \in DOMAIN decoded.pmt /\ decoded.pmt[r] = pre.got[r]
  BY <1>1, <1>5, <1>7, <1>9 DEF Learnt
<1>11. CASE Same(f, post)
  <2>1. /\ mid.ts_id = pre.ts_id /\ mid.has = pre.has /\ mid.service_ids = pre.service_ids
        /\ mid.h_atsc = pre.h_atsc /\ mid.rcvd_pmt = pre.rcvd_pmt /\ mid.got = pre.got
        /\ mid.h_pmt = pre.h_pmt
        /\ mid.payload_pids = pre.payload_pids \cup t.streams
        /\ Good(mid)
    <3>1. decoded.pmt[p] = t
      BY <1>7
    <3> QED
      BY <1>5, <3>1, ProcessPmtPasses, ProcessPmtKeeps, ZenonT(60)
  <2> HIDE DEF mid
  <2>2. /\ post.ts_id = pre.ts_id /\ post.has = pre.has /\ post.service_ids = pre.service_ids
        /\ post.h_atsc = pre.h_atsc /\ post.got = pre.got
        /\ post.rcvd_pmt = Put(pre.rcvd_pmt, {p}, TRUE)
        /\ post.payload_pids = pre.payload_pids \cup t.streams
    BY <2>1 DEF Good, Fields
  <2> HIDE DEF post
  <2>3. /\ DOMAIN post.rcvd_pmt = DOMAIN pre.rcvd_pmt \cup {p}
        /\ \A r \in DOMAIN post.rcvd_pmt : r # p => post.rcvd_pmt[r] = pre.rcvd_pmt[r]
    BY <2>2 DEF Put
  <2>4. Tuned(post, m)
    BY <1>1, <1>3, <1>4, <2>2 DEF Tuned
  <2>5. ASSUME NEW r \in DOMAIN post.got, is_pmt_ready_of(post, r), Asked(post, decoded, r)
        PROVE  post.got[r].streams \subseteq post.payload_pids
    <3>1. CASE r = p
      BY <1>9, <2>2, <3>1
    <3>2. CASE r # p
      <4>1. is_pmt_ready_of(parser[f], r) /\ Asked(parser[f], d, r) /\ r \in DOMAIN parser[f].got
        BY <1>4, <1>7, <1>9, <2>2, <2>3, <2>5, <3>2, ZenonT(60) DEF is_pmt_ready_of, Asked
      <4> QED
        BY <1>1, <1>4, <1>5, <1>9, <2>2, <3>2, <4>1, ZenonT(60) DEF Learnt
    <3> QED
      BY <3>1, <3>2
  <2>6. \A r \in DOMAIN post.rcvd_pmt : post.rcvd_pmt[r] => r \in DOMAIN post.got
    BY <1>1, <1>4, <1>9, <2>2, <2>3 DEF Learnt
  <2>7. {r \in Selected(post, decoded.programs) : decoded.programs[r] # 0} \subseteq DOMAIN post.rcvd_pmt
    BY <1>1, <1>3, <1>4, <1>5, <1>7, <2>2, <2>3 DEF Learnt, Selected
  <2>8. post.has \cap {"sdt", "mgt", "vct"} \subseteq decoded.tables
    BY <1>1, <1>4, <1>5, <1>7, <2>2 DEF Learnt
  <2>9. Learnt(post, decoded)
    BY <1>10, <2>2, <2>5, <2>6, <2>7, <2>8 DEF Learnt
  <2> QED
    BY <1>2, <1>4, <1>8, <1>11, <2>2, <2>4, <2>9, Becomes
<1>12. CASE known /\ is_pmt_ready_of(pre, p) /\ Same(f, pre)
  <2>1. p \in DOMAIN parser[f].got /\ parser[f].got[p] = t
    BY <1>1, <1>4, <1>5, <1>6, <1>12 DEF Learnt, is_pmt_ready_of
  <2>2. DOMAIN pre.got = DOMAIN parser[f].got
        /\ \A r \in DOMAIN pre.got : pre.got[r] = parser[f].got[r]
    BY <1>9, <2>1
  <2>3. ASSUME NEW r \in DOMAIN pre.got, is_pmt_ready_of(pre, r), Asked(pre, decoded, r)
        PROVE  pre.got[r].streams \subseteq pre.payload_pids
    <3>1. is_pmt_ready_of(parser[f], r) /\ Asked(parser[f], d, r)
      BY <1>4, <1>7, <2>3 DEF is_pmt_ready_of, Asked
    <3> QED
      BY <1>1, <1>4, <1>5, <2>2, <3>1 DEF Learnt
  <2>4. Tuned(pre, m)
    BY <1>1, <1>3, <1>4 DEF Tuned
  <2>5. Learnt(pre, decoded)
    BY <1>1, <1>3, <1>4, <1>5, <1>7, <1>10, <2>2, <2>3 DEF Learnt, Selected
  <2> QED
    BY <1>2, <1>4, <1>8, <1>12, <2>4, <2>5, Becomes
<1> QED
  BY <1>2, <1>11, <1>12

\* A parser that differs from r in what decides neither over pids nor, but for
\* the NIT, in its flags.
Like(q, r) ==
  /\ DOMAIN q = Fields
  /\ q.got = r.got /\ q.rcvd_pmt = r.rcvd_pmt /\ q.payload_pids = r.payload_pids
  /\ q.service_ids = r.service_ids /\ q.h_atsc = r.h_atsc /\ DOMAIN q.h_pmt = DOMAIN r.h_pmt
  /\ q.has \cup {"nit"} = r.has \cup {"nit"}

LEMMA TakeTableAlone ==
  ASSUME NEW f, Parsers = {f}, IInv, Alone, NEW t, NEW pre, NEW learnt,
         TakeTable(f, t, pre, learnt), Like(pre, parser[f]), Like(learnt, parser[f]),
         learnt.ts_id = pre.ts_id,
         pre.ts_id = air[f].ts \/ (pre.ts_id = parser[f].ts_id /\ t = "nit"),
         t = "sdt" => air[f].guide = "dvb", t = "mgt" => air[f].guide # "dvb", t # "pat"
  PROVE  Alone'
<1> DEFINE d == get_decoder(pre.ts_id)
           more == [d EXCEPT !.tables = @ \cup {t}]
           post == [learnt EXCEPT !.has = @ \cup {t}]
<1>1. /\ f \in Parsers /\ Tuned(parser[f], air[f]) /\ Learnt(parser[f], d)
      /\ Whole(pre.ts_id, d)
  BY OnAir, DecoderIsWhole DEF Alone
<1>2. /\ air' = air /\ Store(pre.ts_id, more)
      /\ Same(f, post) \/ (Same(f, pre) /\ t \in d.tables)
  BY DEF TakeTable
<1> HIDE DEF d
<1>3. /\ DOMAIN more = DecoderFields /\ more.pmt = d.pmt /\ more.programs = d.programs
      /\ more.tables = d.tables \cup {t}
  BY <1>1 DEF Whole, DecoderFields
<1>4. /\ DOMAIN post = Fields /\ post.got = learnt.got /\ post.rcvd_pmt = learnt.rcvd_pmt
      /\ post.payload_pids = learnt.payload_pids /\ post.service_ids = learnt.service_ids
      /\ post.h_atsc = learnt.h_atsc /\ post.h_pmt = learnt.h_pmt
      /\ post.has = learnt.has \cup {t} /\ post.ts_id = pre.ts_id
  BY DEF Like, Fields
<1>5. Whole(pre.ts_id, more)
  BY <1>1, <1>3 DEF Whole
<1> HIDE DEF more, post
<1>6. ASSUME NEW q, q.got = parser[f].got, q.rcvd_pmt = parser[f].rcvd_pmt,
             q.payload_pids = parser[f].payload_pids, q.service_ids = parser[f].service_ids,
             q.h_atsc = parser[f].h_atsc, DOMAIN q.h_pmt = DOMAIN parser[f].h_pmt,
             q.ts_id = pre.ts_id,
             q.has \subseteq parser[f].has \cup {"nit", t}, parser[f].has \subseteq q.has \cup {"nit"}
      PROVE  Tuned(q, air[f]) /\ Learnt(q, more)
  <2>1. "pat" \in q.has <=> "pat" \in parser[f].has
    BY <1>6
  <2>2. Tuned(q, air[f])
    BY <1>1, <1>6, <2>1 DEF Tuned
  <2>3. \A p : /\ is_pmt_ready_of(q, p) <=> is_pmt_ready_of(parser[f], p)
               /\ Asked(q, more, p) <=> Asked(parser[f], d, p)
    BY <1>3, <1>6, <2>1 DEF is_pmt_ready_of, Asked
  <2>4. Selected(q, more.programs) = Selected(parser[f], d.programs)
    BY <1>3, <1>6 DEF Selected
  <2>5. q.has \cap {"sdt", "mgt", "vct"} \subseteq more.tables
    BY <1>1, <1>3, <1>6 DEF Learnt
  <2> QED
    BY <1>1, <1>3, <1>6, <2>1, <2>2, <2>3, <2>4, <2>5 DEF Learnt
<1>7. CASE Same(f, pre)
  <2>1. Tuned(pre, air[f]) /\ Learnt(pre, more)
    BY <1>6 DEF Like
  <2> QED
    BY <1>2, <1>5, <1>7, <2>1, Becomes
<1>8. CASE Same(f, post)
  <2>1. /\ post.has \subseteq parser[f].has \cup {"nit", t}
        /\ parser[f].has \subseteq post.has \cup {"nit"}
    BY <1>4 DEF Like
  <2>2. Tuned(post, air[f]) /\ Learnt(post, more)
    BY <1>4, <1>6, <2>1 DEF Like
  <2> QED
    BY <1>2, <1>4, <1>5, <1>8, <2>2, Becomes
<1> QED
  BY <1>2, <1>7, <1>8

LEMMA TakeGuideAlone ==
  ASSUME NEW f, Parsers = {f}, IInv, Alone, TakeVct(f) \/ TakeMgt(f) \/ TakeSdt(f) \/ TakeNit(f)
  PROVE  Alone'
<1>1. Good(parser[f]) /\ Tuned(parser[f], air[f])
  BY DEF IInv, Alone
<1>2. CASE TakeVct(f)
  <2> DEFINE pre == [parser[f] EXCEPT !.ts_id = air[f].ts, !.seen = @ \cup {"vct"}]
  <2>1. Like(pre, parser[f]) /\ pre.ts_id = air[f].ts
    BY <1>1 DEF Good, Like, Fields
  <2>2. TakeTable(f, "vct", pre, pre)
    BY <1>2 DEF TakeVct
  <2> HIDE DEF pre
  <2> QED
    BY <2>1, <2>2, TakeTableAlone
<1>3. CASE TakeMgt(f)
  <2> DEFINE pre == [parser[f] EXCEPT !.seen = @ \cup {"mgt"}]
             learnt == [pre EXCEPT !.expect_vct = (air[f].guide = "vct")]
  <2>1. Like(pre, parser[f]) /\ pre.ts_id = parser[f].ts_id
    BY <1>1 DEF Good, Like, Fields
  <2>2. pre.ts_id = air[f].ts /\ air[f].guide # "dvb"
    BY <1>1, <1>3, <2>1 DEF TakeMgt, Tuned
  <2>3. TakeTable(f, "mgt", pre, learnt)
    BY <1>3 DEF TakeMgt
  <2> HIDE DEF pre
  <2>4. Like(learnt, parser[f]) /\ learnt.ts_id = pre.ts_id
    BY <2>1 DEF Like, Fields
  <2> HIDE DEF learnt
  <2> QED
    BY <2>1, <2>2, <2>3, <2>4, TakeTableAlone
<1>4. CASE TakeSdt(f)
  <2> DEFINE pre == [parser[f] EXCEPT !.ts_id = air[f].ts, !.seen = @ \cup {"sdt"}]
  <2>1. Like(pre, parser[f]) /\ pre.ts_id = air[f].ts
    BY <1>1 DEF Good, Like, Fields
  <2>2. TakeTable(f, "sdt", pre, pre) /\ air[f].guide = "dvb"
    BY <1>4 DEF TakeSdt
  <2> HIDE DEF pre
  <2> QED
    BY <2>1, <2>2, TakeTableAlone
<1>5. CASE TakeNit(f)
  <2> DEFINE pre == [parser[f] EXCEPT !.seen = @ \cup {"nit"}, !.has = @ \cup {"nit"}]
  <2>1. Like(pre, parser[f]) /\ pre.ts_id = parser[f].ts_id
    BY <1>1 DEF Good, Like, Fields
  <2>2. TakeTable(f, "nit", pre, pre)
    BY <1>5 DEF TakeNit
  <2> HIDE DEF pre
  <2> QED
    BY <2>1, <2>2, TakeTableAlone
<1> QED
  BY <1>2, <1>3, <1>4, <1>5

\* A new choice of services begins anew with what the decoder has of them.
LEMMA SetServiceIdsAlone ==
  ASSUME NEW f, Parsers = {f}, IInv, Alone, NEW S, SetServiceIds(f, S)
  PROVE  Alone'
<1> DEFINE asked == [parser[f] EXCEPT !.service_ids = S, !.payload_pids = {}]
           old == get_decoder(asked.ts_id)
           d == rewrite_pat(asked, old)
           known == {p \in S : p \in DOMAIN d.pmt}
           all == [streams |-> UNION {d.pmt[p].streams : p \in known},
                   av |-> UNION {d.pmt[p].av : p \in known}]
           mid == process_pat(asked, d.programs)
           post == process_pmt(mid, all)
<1>1. /\ Good(parser[f]) /\ Tuned(parser[f], air[f])
      /\ Learnt(parser[f], get_decoder(parser[f].ts_id))
  BY DEF IInv, Alone
<1>2. /\ Good(asked) /\ asked.ts_id = parser[f].ts_id /\ asked.has = parser[f].has
      /\ asked.service_ids = S /\ asked.payload_pids = {} /\ asked.got = parser[f].got
      /\ asked.rcvd_pmt = parser[f].rcvd_pmt /\ asked.h_pmt = parser[f].h_pmt
      /\ asked.h_atsc = parser[f].h_atsc
  BY <1>1 DEF Good, Fields
<1>3. /\ air' = air
      /\ IF "pat" \in asked.has THEN Same(f, post) /\ Store(asked.ts_id, d)
         ELSE Same(f, asked) /\ UNCHANGED decoders
  BY DEF SetServiceIds
<1>4. Whole(asked.ts_id, old) /\ Learnt(parser[f], old)
  BY <1>1, <1>2, DecoderIsWhole
<1> HIDE DEF asked, old
<1>5. /\ DOMAIN d = DecoderFields /\ d.pmt = old.pmt /\ d.tables = old.tables
      /\ d.programs = Put(old.programs, S \ DOMAIN old.programs, 0)
  BY <1>2, <1>4 DEF Whole, DecoderFields, rewrite_pat
<1> HIDE DEF d, all
<1>6. CASE "pat" \notin asked.has
  <2>1. Same(f, asked) /\ UNCHANGED decoders
    BY <1>3, <1>6
  <2>2. Tuned(asked, air[f]) /\ Learnt(asked, get_decoder(asked.ts_id))
    <3>1. DOMAIN asked.got = {} /\ DOMAIN asked.rcvd_pmt = {}
      BY <1>1, <1>2, <1>6 DEF Tuned
    <3> QED
      BY <1>1, <1>2, <1>6, <3>1 DEF Tuned, Learnt
  <2>3. parser'[f] = asked /\ f \in Parsers
    BY <2>1 DEF IInv, Same
  <2>4. get_decoder(parser[f].ts_id)' = get_decoder(asked.ts_id)
    BY <2>1, <2>3 DEF get_decoder
  <2>5. Tuned(parser[f], air[f])' /\ Learnt(parser[f], get_decoder(parser[f].ts_id))'
    BY <1>3, <2>2, <2>3, <2>4
  <2> QED
    BY <1>3, <2>1, <2>5 DEF Alone, Whole
<1>7. CASE "pat" \in asked.has
  <2>1. /\ mid.ts_id = asked.ts_id /\ mid.has = asked.has /\ mid.service_ids = asked.service_ids
        /\ mid.h_atsc = asked.h_atsc /\ mid.got = asked.got
        /\ mid.rcvd_pmt = Put(asked.rcvd_pmt, Selected(asked, d.programs), FALSE)
        /\ Good(mid)
    BY <1>2, ProcessPatWaits, ProcessPatKeeps
  <2> HIDE DEF mid
  <2>2. /\ post.ts_id = asked.ts_id /\ post.has = asked.has /\ post.service_ids = S
        /\ post.h_atsc = asked.h_atsc /\ post.got = parser[f].got
        /\ post.rcvd_pmt = Put(asked.rcvd_pmt, Selected(asked, d.programs), FALSE)
    <3>1. /\ post.ts_id = mid.ts_id /\ post.has = mid.has /\ post.service_ids = mid.service_ids
          /\ post.h_atsc = mid.h_atsc /\ post.rcvd_pmt = mid.rcvd_pmt /\ post.got = mid.got
      BY <2>1, ProcessPmtPasses
    <3> HIDE DEF post
    <3> QED
      BY <1>2, <2>1, <3>1
  <2> HIDE DEF post
  <2>3. /\ DOMAIN post.rcvd_pmt = DOMAIN parser[f].rcvd_pmt \cup Selected(asked, d.programs)
        /\ \A p \in DOMAIN post.rcvd_pmt : post.rcvd_pmt[p] =
             IF p \in Selected(asked, d.programs) THEN FALSE ELSE parser[f].rcvd_pmt[p]
    BY <1>2, <2>2 DEF Put
  <2>4. S \subseteq DOMAIN d.programs
    BY <1>5 DEF Put
  <2>5. \A p : Asked(post, d, p) => p \in Selected(asked, d.programs)
    BY <1>2, <2>2, <2>4 DEF Asked, Selected
  <2>6. \A p : is_pmt_ready_of(post, p) => ~Asked(post, d, p)
    BY <2>3, <2>5 DEF is_pmt_ready_of
  <2>7. Selected(post, d.programs) \subseteq DOMAIN post.rcvd_pmt
    BY <1>2, <2>2, <2>3 DEF Selected
  <2>8. Learnt(post, d)
    BY <1>2, <1>4, <1>5, <2>2, <2>3, <2>6, <2>7 DEF Learnt
  <2>9. Tuned(post, air[f])
    BY <1>1, <1>2, <1>7, <2>2 DEF Tuned
  <2>10. Whole(asked.ts_id, d)
    BY <1>4, <1>5 DEF Whole
  <2> QED
    BY <1>3, <1>7, <2>2, <2>8, <2>9, <2>10, Becomes
<1> QED
  BY <1>6, <1>7

LEMMA StepAlone ==
  ASSUME NEW f, Parsers = {f}
  PROVE  IInv /\ Alone /\ [Next]_vars => Alone'
<1> SUFFICES ASSUME IInv, Alone, [Next]_vars PROVE Alone'
  OBVIOUS
<1>1. f \in Parsers /\ Good(parser[f]) /\ Tuned(parser[f], air[f])
      /\ Learnt(parser[f], get_decoder(parser[f].ts_id))
  BY DEF IInv, Alone
<1>2. CASE UNCHANGED vars
  BY <1>2 DEF vars, Alone, Whole, Tuned, Learnt, get_decoder, is_pmt_ready_of, Asked, Selected
<1>3. CASE TakeAny(f)
  BY <1>3, TakePatAlone, TakePmtAlone, TakeGuideAlone DEF TakeAny
<1>4. CASE Discontinuity(f)
  <2> DEFINE handles == [pid \in DOMAIN parser[f].h_pmt |->
                           [parser[f].h_pmt[pid] EXCEPT !.seen = None]]
             post == [parser[f] EXCEPT !.seen_pat = <<None, None>>, !.seen = {}, !.h_pmt = handles]
  <2>1. parser'[f] = post /\ decoders' = decoders /\ air' = air
    BY <1>1, <1>4 DEF Discontinuity, Same, IInv, Good, Fields
  <2>2. DOMAIN handles = DOMAIN parser[f].h_pmt
    OBVIOUS
  <2> HIDE DEF handles
  <2>3. Like(post, parser[f]) /\ post.has = parser[f].has /\ post.ts_id = parser[f].ts_id
    BY <1>1, <2>2 DEF Like, Good, Fields
  <2> HIDE DEF post
  <2>4. Tuned(parser[f], air[f])'
    BY <1>1, <2>1, <2>3 DEF Tuned, Like
  <2>5. get_decoder(parser[f].ts_id)' = get_decoder(parser[f].ts_id)
    BY <2>1, <2>3 DEF get_decoder
  <2>6. Learnt(parser[f], get_decoder(parser[f].ts_id))'
    BY <1>1, <2>1, <2>3, <2>5 DEF Learnt, Like, is_pmt_ready_of, Asked, Selected
  <2> QED
    BY <2>1, <2>4, <2>6 DEF Alone, Whole
<1>5. CASE AirUpdate(f)
  <2>1. PICK m \in Muxes : Later(air[f], m) /\ air' = [air EXCEPT ![f] = m]
    BY <1>5 DEF AirUpdate
  <2>2. parser' = parser /\ decoders' = decoders
    BY <1>5 DEF AirUpdate
  <2>3. air'[f] = m /\ m.ts = air[f].ts /\ m.guide = air[f].guide
        /\ air' \in [Parsers -> Muxes]
    BY <1>1, <2>1, PsipAssumption DEF Later, Alone
  <2>4. Tuned(parser[f], air[f])'
    BY <1>1, <2>2, <2>3 DEF Tuned
  <2> QED
    BY <2>2, <2>3, <2>4
       DEF Alone, Whole, Learnt, get_decoder, is_pmt_ready_of, Asked, Selected
<1>6. ASSUME NEW S, SetServiceIds(f, S) PROVE Alone'
  BY <1>6, SetServiceIdsAlone
<1>7. CASE Retune(f) \/ Cleanup(f)
  <2>1. PICK q : /\ Same(f, q) /\ (q = NewParser \/ \E r : q = reset(r))
                 /\ decoders' = decoders \/ decoders' = <<>>
    BY <1>7 DEF Retune, Cleanup
  <2>2. parser'[f] = q
    BY <1>1, <2>1 DEF Same, IInv
  <2>3. Tuned(parser[f], air[f])' /\ Learnt(parser[f], get_decoder(parser[f].ts_id))'
    BY <2>1, <2>2, NewKnowsNothing
  <2>4. air' \in [Parsers -> Muxes]
    BY <1>7 DEF Retune, Cleanup, Alone
  <2>5. \A ts \in DOMAIN decoders' : Whole(ts, decoders'[ts])
    BY <2>1 DEF Alone
  <2> QED
    BY <2>3, <2>4, <2>5 DEF Alone, Whole
<1> QED
  BY <1>2, <1>3, <1>4, <1>5, <1>6, <1>7 DEF Next, UserOrAir

LEMMA InitAlone == Init => Alone
BY NewKnowsNothing DEF Init, Alone

LEMMA AloneImplies == Alone => StreamsPass /\ ReadyIsDecoded
<1> SUFFICES ASSUME Alone, NEW i \in Parsers
             PROVE  /\ \A p \in DOMAIN parser[i].got
                            \cap Selected(parser[i], get_decoder(parser[i].ts_id).programs) :
                         is_pmt_ready_of(parser[i], p)
                           => parser[i].got[p].streams \subseteq parser[i].payload_pids
                    /\ is_psip_ready(parser[i]) =>
                         LET d == decoders[parser[i].ts_id]
                         IN  /\ {p \in Selected(parser[i], d.programs) : d.programs[p] # 0}
                                  \subseteq DOMAIN d.pmt
                             /\ {"sdt", "mgt"} \cap d.tables # {}
                             /\ "mgt" \in parser[i].has /\ parser[i].expect_vct => "vct" \in d.tables
  BY DEF StreamsPass, ReadyIsDecoded
<1> DEFINE q == parser[i]
           d == get_decoder(q.ts_id)
<1>1. Tuned(q, air[i]) /\ Learnt(q, d)
  BY DEF Alone
<1>2. \A p : p \in Selected(q, d.programs) => Asked(q, d, p)
  BY DEF Selected, Asked
<1>3. ASSUME is_psip_ready(q)
      PROVE  /\ {p \in Selected(q, d.programs) : d.programs[p] # 0} \subseteq DOMAIN d.pmt
             /\ {"sdt", "mgt"} \cap d.tables # {}
             /\ "mgt" \in q.has /\ q.expect_vct => "vct" \in d.tables
             /\ d = decoders[q.ts_id]
  <2>1. /\ "pat" \in q.has /\ q.ts_id \in DOMAIN decoders
        /\ \A p \in DOMAIN q.rcvd_pmt : q.rcvd_pmt[p]
        /\ \/ "mgt" \in q.has /\ ("vct" \in q.has \/ ~q.expect_vct)
           \/ {"sdt", "nit"} \subseteq q.has
    BY <1>3 DEF is_psip_ready, is_pmt_ready, is_basic_psip_ready
  <2> QED
    BY <1>1, <2>1 DEF Learnt, Tuned, get_decoder
<1> QED
  BY <1>1, <1>2, <1>3 DEF Learnt

\* For one feed, the streams of the PMT that arrived last for a selected service
\* pass once the parser has it: for any multiplexes, through updates of tables,
\* selections and tunes (parse.cpp: process_pat, process_pmt, set_service_ids).
THEOREM SelectedStreamsPass ==
  ASSUME NEW f, Parsers = {f}
  PROVE  Spec => []StreamsPass
<1>1. Init => IInv /\ Alone
  BY InitIInv, InitAlone
<1>2. (IInv /\ Alone) /\ [Next]_vars => (IInv /\ Alone)'
  BY StepIInv, StepAlone
<1>3. IInv /\ Alone => StreamsPass
  BY AloneImplies
<1> QED
  BY <1>1, <1>2, <1>3, PTL DEF Spec

\* For one feed, when is_psip_ready() says that a stream is known its decoder has
\* the PMT of every selected program and the guide tables (parse.cpp).
THEOREM ReadyStreamIsDecoded ==
  ASSUME NEW f, Parsers = {f}
  PROVE  Spec => []ReadyIsDecoded
<1>1. Init => IInv /\ Alone
  BY InitIInv, InitAlone
<1>2. (IInv /\ Alone) /\ [Next]_vars => (IInv /\ Alone)'
  BY StepIInv, StepAlone
<1>3. IInv /\ Alone => ReadyIsDecoded
  BY AloneImplies
<1> QED
  BY <1>1, <1>2, <1>3, PTL DEF Spec
=============================================================================
