-------------------------------- MODULE Psip --------------------------------
(***************************************************************************)
(* How class parse (src/libdvbtee/parse.cpp) turns the tables of transport *)
(* streams into the list of packet ids it passes on, and when it says that *)
(* it knows a stream (is_pmt_ready, is_psip_ready).                        *)
(*                                                                         *)
(* Each feed has a parser of its own; all of them store what they decode   *)
(* in one map of decoders (src/libdvbtee/decode.cpp), by transport stream  *)
(* id.  libdvbpsi is external: it reassembles the sections that arrive on  *)
(* an attached handle and calls back once for each version of a table, and *)
(* once more when packets were lost.  What is on the air is the            *)
(* environment: it is updated, and the user tunes, selects services and    *)
(* deletes feeds, at any moment between two callbacks.                     *)
(***************************************************************************)
EXTENDS Integers, FiniteSets

CONSTANTS
  Parsers,     \* the feeds
  Muxes,       \* what can be on the air, see PsipAssumption
  Selections,  \* sets of services a user may ask for; {} is all of them
  MaxChanges   \* bound: updates of the air and calls of the user

PmtTypes == [version : Nat, streams : SUBSET Nat, av : SUBSET Nat]

\* A multiplex: the content of its tables with their versions.  A PMT lists
\* its elementary streams, "av" those that are audio or video; "guide" tells
\* ATSC tables (an MGT that lists a VCT or does not) from DVB tables.
ASSUME PsipAssumption ==
  /\ \A m \in Muxes :
       /\ m.ts \in Nat \ {0} /\ m.version \in Nat
       /\ DOMAIN m.programs \subseteq Nat \ {0}
       /\ \A p \in DOMAIN m.programs : m.programs[p] \in Nat \ {0}
       /\ m.pmt \in [DOMAIN m.programs -> PmtTypes]
       /\ \A p \in DOMAIN m.programs : m.pmt[p].av \subseteq m.pmt[p].streams
       /\ m.guide \in {"vct", "mgt", "dvb"}
  \* a table changes its version when it changes
  /\ \A m, n \in Muxes : m.ts = n.ts =>
       /\ m.version = n.version => m.programs = n.programs
       /\ m.guide = n.guide
       /\ \A p \in DOMAIN m.programs \cap DOMAIN n.programs :
            m.pmt[p].version = n.pmt[p].version => m.pmt[p] = n.pmt[p]
  /\ Selections \subseteq SUBSET (Nat \ {0})
  /\ MaxChanges \in Nat

VARIABLES
  parser,    \* the parsers
  decoders,  \* the decoders of all parsers: what was stored, by ts id
  air,       \* the multiplex each parser's feed receives
  changes    \* bound: number of changes so far

vars == <<parser, decoders, air, changes>>

None == -1
Guides == {"vct", "mgt", "sdt", "nit"}

\* A parser after its constructor.  "seen" and, in h_pmt, "seen" are
\* libdvbpsi's: the version a handle called back for last.  "got" is a
\* history: the PMT each program had when it last arrived.
NewParser ==
  [ts_id |-> 0, has |-> {}, expect_vct |-> TRUE, service_ids |-> {},
   rcvd_pmt |-> <<>>, h_pmt |-> <<>>, h_atsc |-> FALSE, seen_pat |-> <<None, None>>,
   seen |-> {}, payload_pids |-> {}, av_pids |-> {}, filters |-> {}, got |-> <<>>]

NewDecoder == [version |-> None, programs |-> <<>>, pmt |-> <<>>, tables |-> {}]

-----------------------------------------------------------------------------
(* Operators on maps, which the code changes with operator[].              *)

Put(f, K, v) == [x \in DOMAIN f \cup K |-> IF x \in K THEN v ELSE f[x]]
PutAll(f, g) == [x \in DOMAIN f \cup DOMAIN g |-> IF x \in DOMAIN g THEN g[x] ELSE f[x]]

\* get_decoder: the decoder of ts, a new one if there is none.
get_decoder(ts) == IF ts \in DOMAIN decoders THEN decoders[ts] ELSE NewDecoder

\* The services of a PAT that the parser is to handle.
Selected(q, programs) ==
  {p \in DOMAIN programs : q.service_ids = {} \/ p \in q.service_ids}

is_pmt_ready_of(q, p) == "pat" \in q.has /\ p \in DOMAIN q.rcvd_pmt /\ q.rcvd_pmt[p]

is_pmt_ready(q) ==
  "pat" \in q.has /\ q.rcvd_pmt # <<>> /\ \A p \in DOMAIN q.rcvd_pmt : q.rcvd_pmt[p]

is_basic_psip_ready(q) ==
  /\ "pat" \in q.has
  /\ \/ "mgt" \in q.has /\ ("vct" \in q.has \/ ~q.expect_vct)
     \/ {"sdt", "nit"} \subseteq q.has

is_psip_ready(q) ==
  is_basic_psip_ready(q) /\ q.ts_id \in DOMAIN decoders /\ is_pmt_ready(q)

\* Mutant: a PMT that was received stays received when its handle is new.
process_pat_KeepsReceived(q, programs) ==
  LET sel == Selected(q, programs)
      pids == {programs[p] : p \in sel}
      last(pid) == CHOOSE p \in sel : programs[p] = pid /\ \A r \in sel : programs[r] = pid => r <= p
  IN  [q EXCEPT !.h_pmt = PutAll(@, [pid \in pids |-> [program |-> last(pid), seen |-> None]]),
                !.filters = @ \cup pids,
                !.rcvd_pmt = Put(@, sel \ DOMAIN @, FALSE)]

\* process_pat: each selected program gets a new PMT handle and its filter; of
\* two programs on one pid the last keeps it.
process_pat(q, programs) ==
  LET sel == Selected(q, programs)
      pids == {programs[p] : p \in sel}
      last(pid) == CHOOSE p \in sel : programs[p] = pid /\ \A r \in sel : programs[r] = pid => r <= p
  IN  [q EXCEPT !.h_pmt = PutAll(@, [pid \in pids |-> [program |-> last(pid), seen |-> None]]),
                !.filters = @ \cup pids,
                !.rcvd_pmt = Put(@, sel, FALSE)]

\* Mutant: the filters of the streams are forgotten.
process_pmt_NoFilter(q, pmt) ==
  [q EXCEPT !.payload_pids = @ \cup pmt.streams,
            !.av_pids = @ \cup pmt.av]

\* process_pmt, for one PMT or for the union of several.
process_pmt(q, pmt) ==
  [q EXCEPT !.payload_pids = @ \cup pmt.streams,
            !.av_pids = @ \cup pmt.av,
            !.filters = @ \cup pmt.streams]

\* rewrite_pat looks every requested service up in the decoded PAT with
\* operator[], which stores pid 0 for one that is not there.
rewrite_pat(q, d) ==
  [d EXCEPT !.programs = Put(@, q.service_ids \ DOMAIN @, 0)]

-----------------------------------------------------------------------------
Init ==
  /\ parser = [i \in Parsers |-> NewParser]
  /\ decoders = <<>>
  /\ air \in [Parsers -> Muxes]
  /\ changes = 0

Same(i, q) == parser' = [parser EXCEPT ![i] = q]
Store(ts, d) == decoders' = Put(decoders, {ts}, d)

\* A PAT: set_ts_id and the handle for PSIP, which is attached anew; then the
\* decoder, unless it has this PAT; then process_pat and rewrite_pat, unless
\* the decoder had it and this parser had a PAT.
TakePat(i) ==
  LET m == air[i]
      pre == [parser[i] EXCEPT !.seen_pat = <<m.ts, m.version>>,
                               !.ts_id = m.ts,
                               !.h_atsc = TRUE,
                               !.seen = @ \ {"vct", "mgt"}]
      d == get_decoder(m.ts)
      known == d.version = m.version
      decoded == IF known THEN d ELSE [d EXCEPT !.version = m.version, !.programs = m.programs]
      post == [process_pat(pre, decoded.programs) EXCEPT !.has = @ \cup {"pat"}]
  IN  /\ parser[i].seen_pat # <<m.ts, m.version>>
      /\ IF known /\ "pat" \in pre.has
         THEN Same(i, pre) /\ Store(m.ts, d)
         ELSE Same(i, post) /\ Store(m.ts, rewrite_pat(pre, decoded))
      /\ UNCHANGED <<air, changes>>

\* A PMT on a pid that has a handle for its program.  Packets with pid 0 go to
\* the handle of the PAT.
TakePmt(i, pid) ==
  LET m == air[i]
      p == parser[i].h_pmt[pid].program
      t == m.pmt[p]
      pre == [parser[i] EXCEPT !.h_pmt[pid].seen = t.version, !.got = Put(@, {p}, t)]
      d == get_decoder(pre.ts_id)
      known == p \in DOMAIN d.pmt /\ d.pmt[p].version = t.version
      decoded == IF known THEN d ELSE [d EXCEPT !.pmt = Put(@, {p}, t)]
      post == [process_pmt(pre, decoded.pmt[p]) EXCEPT !.rcvd_pmt = Put(@, {p}, TRUE)]
  IN  /\ pid \in DOMAIN parser[i].h_pmt /\ pid # 0
      /\ p \in DOMAIN m.programs /\ m.programs[p] = pid
      /\ parser[i].h_pmt[pid].seen # t.version
      /\ Same(i, IF known /\ is_pmt_ready_of(pre, p) THEN pre ELSE post)
      /\ Store(pre.ts_id, decoded)
      /\ UNCHANGED <<air, changes>>

\* The callback for table t of the guide: "pre" is what the parser does first,
\* and "learnt" adds what it takes from the table when the decoder stored it or
\* the parser's flag was not set.
TakeTable(i, t, pre, learnt) ==
  LET d == get_decoder(pre.ts_id)
      first == t \notin d.tables \/ t \notin pre.has
  IN  /\ Same(i, IF first THEN [learnt EXCEPT !.has = @ \cup {t}] ELSE pre)
      /\ Store(pre.ts_id, [d EXCEPT !.tables = @ \cup {t}])
      /\ UNCHANGED <<air, changes>>

TakeVct(i) ==
  LET pre == [parser[i] EXCEPT !.ts_id = air[i].ts, !.seen = @ \cup {"vct"}]
  IN  /\ parser[i].h_atsc /\ "vct" \notin parser[i].seen /\ air[i].guide = "vct"
      /\ TakeTable(i, "vct", pre, pre)

\* process_mgt: a VCT is expected if the MGT lists one.
TakeMgt(i) ==
  LET pre == [parser[i] EXCEPT !.seen = @ \cup {"mgt"}]
  IN  /\ parser[i].h_atsc /\ "mgt" \notin parser[i].seen /\ air[i].guide \in {"vct", "mgt"}
      /\ TakeTable(i, "mgt", pre, [pre EXCEPT !.expect_vct = (air[i].guide = "vct")])

TakeSdt(i) ==
  LET pre == [parser[i] EXCEPT !.ts_id = air[i].ts, !.seen = @ \cup {"sdt"}]
  IN  /\ "sdt" \notin parser[i].seen /\ air[i].guide = "dvb"
      /\ TakeTable(i, "sdt", pre, pre)

\* take_nit_actual sets its flag before the table is decoded.
TakeNit(i) ==
  LET pre == [parser[i] EXCEPT !.seen = @ \cup {"nit"}, !.has = @ \cup {"nit"}]
  IN  /\ "nit" \notin parser[i].seen /\ air[i].guide = "dvb"
      /\ TakeTable(i, "nit", pre, pre)

\* External: packets are lost, libdvbpsi forgets which versions it delivered.
Discontinuity(i) ==
  /\ Same(i, [parser[i] EXCEPT
       !.seen_pat = <<None, None>>, !.seen = {},
       !.h_pmt = [pid \in DOMAIN @ |-> [@[pid] EXCEPT !.seen = None]]])
  /\ UNCHANGED <<decoders, air, changes>>

-----------------------------------------------------------------------------
Change == changes < MaxChanges /\ changes' = changes + 1  \* bound

\* A multiplex with newer tables.
Later(m, n) ==
  /\ m.ts = n.ts
  /\ \/ n.version > m.version
     \/ /\ n.version = m.version
        /\ \E p \in DOMAIN m.programs : n.pmt[p].version > m.pmt[p].version

\* External: the tables of the multiplex that is received are updated.
AirUpdate(i) ==
  /\ Change
  /\ \E m \in Muxes : Later(air[i], m) /\ air' = [air EXCEPT ![i] = m]
  /\ UNCHANGED <<parser, decoders>>

\* set_service_ids
SetServiceIds(i, S) ==
  LET asked == [parser[i] EXCEPT !.service_ids = S, !.payload_pids = {}]
      d == rewrite_pat(asked, get_decoder(asked.ts_id))
      known == {p \in S : p \in DOMAIN d.pmt}
      all == [streams |-> UNION {d.pmt[p].streams : p \in known},
              av |-> UNION {d.pmt[p].av : p \in known}]
  IN  /\ Change
      /\ IF "pat" \in asked.has
         THEN /\ Same(i, process_pmt(process_pat(asked, d.programs), all))
              /\ Store(asked.ts_id, d)
         ELSE Same(i, asked) /\ UNCHANGED decoders
      /\ UNCHANGED air

\* Mutant: reset() leaves the handle of the PAT as it is.
reset_KeepsPat(q) == [NewParser EXCEPT !.av_pids = q.av_pids, !.seen_pat = q.seen_pat]

\* Mutant: reset() does not forget that a PAT was taken.
reset_KeepsFlags(q) == [NewParser EXCEPT !.av_pids = q.av_pids, !.has = q.has]

\* reset(), detach_demux() included: everything but the audio and video pids
\* is as the constructor left it.
reset(q) == [NewParser EXCEPT !.av_pids = q.av_pids]

\* tune::tune_channel, which resets the parser.
Retune(i) ==
  /\ Change
  /\ \E m \in Muxes : air' = [air EXCEPT ![i] = m]
  /\ Same(i, reset(parser[i]))
  /\ UNCHANGED decoders

\* cleanup() in the destructor of a feed's parser empties the decoders of all
\* parsers; a new feed takes the place of the deleted one.
Cleanup(i) ==
  /\ Change
  /\ Same(i, NewParser)
  /\ decoders' = <<>>
  /\ \E m \in Muxes : air' = [air EXCEPT ![i] = m]

-----------------------------------------------------------------------------
PmtPids == UNION {{m.programs[p] : p \in DOMAIN m.programs} : m \in Muxes}

TakeAny(i) ==
  \/ TakePat(i) \/ TakeVct(i) \/ TakeMgt(i) \/ TakeSdt(i) \/ TakeNit(i)
  \/ \E pid \in PmtPids : TakePmt(i, pid)

UserOrAir(i) ==
  \/ Discontinuity(i)
  \/ AirUpdate(i)
  \/ \E S \in Selections : SetServiceIds(i, S)
  \/ Retune(i)
  \/ Cleanup(i)

Next == \E i \in Parsers : TakeAny(i) \/ UserOrAir(i)

Spec == Init /\ [][Next]_vars

\* Every table is broadcast again and again, so a callback that can happen does.
Fairness ==
  \A i \in Parsers :
    /\ WF_vars(TakePat(i)) /\ WF_vars(TakeVct(i)) /\ WF_vars(TakeMgt(i))
    /\ WF_vars(TakeSdt(i)) /\ WF_vars(TakeNit(i))
    /\ \A pid \in PmtPids : WF_vars(TakePmt(i, pid))

FairSpec == Spec /\ Fairness

-----------------------------------------------------------------------------
(* Properties.                                                             *)

TypeOK ==
  /\ changes \in 0 .. MaxChanges
  /\ air \in [Parsers -> Muxes]
  /\ DOMAIN parser = Parsers
  /\ \A i \in Parsers :
       /\ parser[i].has \subseteq Guides \cup {"pat"}
       /\ parser[i].seen \subseteq Guides
       /\ parser[i].expect_vct \in BOOLEAN /\ parser[i].h_atsc \in BOOLEAN
       /\ parser[i].ts_id \in {0} \cup {m.ts : m \in Muxes}
       /\ DOMAIN parser[i].h_pmt \subseteq {0} \cup PmtPids
       /\ \A p \in DOMAIN parser[i].rcvd_pmt : parser[i].rcvd_pmt[p] \in BOOLEAN
       /\ parser[i].payload_pids \cup parser[i].av_pids \cup parser[i].filters \subseteq Nat
  /\ DOMAIN decoders \subseteq {0} \cup {m.ts : m \in Muxes}

\* "request a service and its associated PES streams by its service id"
\* (README.md:128): the streams of the PMT that arrived last for a service pass,
\* as long as the parser says it has the PMT of that service of the PAT, through
\* updates of the tables, other selections and tuning.
StreamsPass ==
  \A i \in Parsers :
    \A p \in DOMAIN parser[i].got \cap Selected(parser[i], get_decoder(parser[i].ts_id).programs) :
    is_pmt_ready_of(parser[i], p)
      => parser[i].got[p].streams \subseteq parser[i].payload_pids

\* When is_psip_ready() says that a scan may read the results, the decoder of
\* the stream has the PMT of every selected program of its PAT, those apart that
\* only rewrite_pat put there, and the guide tables (parse.cpp:is_psip_ready).
ReadyIsDecoded ==
  \A i \in Parsers : is_psip_ready(parser[i]) =>
    LET d == decoders[parser[i].ts_id]
    IN  /\ {p \in Selected(parser[i], d.programs) : d.programs[p] # 0} \subseteq DOMAIN d.pmt
        /\ {"sdt", "mgt"} \cap d.tables # {}
        /\ "mgt" \in parser[i].has /\ parser[i].expect_vct => "vct" \in d.tables

\* A hardware filter is set for every pid the parser decodes or passes on;
\* without it nothing of that pid ever arrives (parse.cpp:add_filter).
AttachedIsFiltered ==
  \A i \in Parsers : DOMAIN parser[i].h_pmt \cup parser[i].payload_pids \subseteq parser[i].filters

\* What a parser waits for in vain, because process_pat never takes a program
\* out of rcvd_pmt: the PMT of a program that left the PAT, or the selection,
\* before its PMT came; and services asked for of which the stream has none.
Unobtainable(i) ==
  LET selected == Selected(parser[i], air[i].programs)
  IN  selected = {} \/ \E p \in DOMAIN parser[i].rcvd_pmt \ selected : ~parser[i].rcvd_pmt[p]

\* Once the air and the user leave a parser alone, it gets to know the stream:
\* no PAT, PMT or guide table waits for something that does not come again
\* (parse.cpp:is_psip_ready), but for what it can never get.
EventuallyReady == \A i \in Parsers : <>[](is_psip_ready(parser[i]) \/ Unobtainable(i))
=============================================================================
