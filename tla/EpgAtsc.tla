------------------------------- MODULE EpgAtsc -------------------------------
(***************************************************************************)
(* The programme guide of an ATSC stream: which EITs and ETTs of an MGT    *)
(* the parser collects and on which pids (parse.cpp:process_mgt and feed), *)
(* under which number they are stored (decode.cpp:take_eit and take_ett),  *)
(* when the guide counts as complete and is dumped.                        *)
(*                                                                         *)
(* Time is cut into slices.  While guide n is on the air, its MGT says that*)
(* the EIT and the ETT with number k carry slice n - 1 + k, each on the pid*)
(* that the slice keeps when the numbers move on; a VCT lists the channels.*)
(* Every channel has one event in each slice, with or without a text.      *)
(***************************************************************************)
EXTENDS Integers, FiniteSets, Sequences, Functions

CONSTANTS
  Guides,         \* the channels (source ids) of each guide, in their order
  Shows,          \* the events: [source, slice, id, etm]
  LastEit,        \* the number of the last EIT in an MGT
  MaxEitVersion,  \* bound: versions of the EITs of a slice
  MaxTunes,       \* bound: calls of parse::reset
  Settings        \* [limit, collect, scan]: limit_eit, enable_ett_collection,
                  \* and scan_mode without epg_mode

Numbers == 0 .. LastEit
Slices == 0 .. Len(Guides) - 1 + LastEit
Sources == UNION Range(Guides)

ASSUME GuidesAssumption ==
  /\ Guides \in Seq(SUBSET Nat) /\ Guides # <<>>
  /\ \A n \in DOMAIN Guides : Guides[n] # {} /\ IsFiniteSet(Guides[n])

ASSUME EpgAtscAssumption ==
  LastEit \in Nat /\ MaxEitVersion \in Nat /\ MaxTunes \in Nat

ASSUME ShowsAssumption ==
  \A e \in Shows : e.source \in Nat /\ e.id \in 0 .. 16383 /\ e.etm \in BOOLEAN

ASSUME SettingsAssumption ==
  \A o \in Settings : o.limit \in Int /\ o.collect \in BOOLEAN /\ o.scan \in BOOLEAN

VARIABLES
  options,           \* the settings of this parser
  guide,             \* the number of the guide on the air
  eit_version,       \* slice -> version of its EITs on the air
  decoded_mgt,       \* the number of the guide whose MGT was decoded, 0 before
  decoded_vct,       \* and of that whose VCT was
  has_mgt,           \* parse: was an MGT processed since reset()?
  eit_pids,          \* pid -> number of an EIT
  ett_pids,          \* pid -> number of an ETT
  h_demux,           \* pid -> what libdvbpsi called back for on it already
  eit_x,             \* set_current_eit_x
  ett_x,             \* set_current_ett_x
  decoded_atsc_eit,  \* number -> source -> [slice, version]
  ett_store,         \* the etm_ids of the ETT objects in the TableStore
  decoded_ett,       \* number -> key -> etm_id of the text
  dumped_eit,
  tunes

atscVars == <<options, guide, eit_version, decoded_mgt, decoded_vct, has_mgt, eit_pids,
  ett_pids, h_demux, eit_x, ett_x, decoded_atsc_eit, ett_store, decoded_ett, dumped_eit,
  tunes>>
broadcast == <<options, guide, eit_version>>
collected == <<decoded_atsc_eit, ett_store, decoded_ett>>
demuxed == <<has_mgt, eit_pids, ett_pids, h_demux, eit_x, ett_x>>

NoEit == [slice |-> -1, version |-> -1]
NoText == -1

EitPid(slice) == <<"eit", slice>>
EttPid(slice) == <<"ett", slice>>

\* The slice that table k of guide n carries.
SliceOf(n, k) == n - 1 + k

\* etm_id has 32 bits, the key of map_decoded_atsc_ett has 16.
EtmId(e) == e.source * 65536 + e.id * 4 + 2
EttKey(etm_id) == etm_id % 65536

Store(f, x, v) == [y \in DOMAIN f \cup {x} |-> IF y = x THEN v ELSE f[y]]
Erase(f, x) == Restrict(f, DOMAIN f \ {x})

\* vct::store: the source ids of the VCT that updateVCT kept.
VctChannels == IF decoded_vct = 0 THEN {} ELSE Guides[decoded_vct]

\* mgt::store: the slices of an MGT's EITs and ETTs by their number.
ListedBy(n) == [k \in Numbers |-> SliceOf(n, k)]

\* atsc_eit::store: what is kept of an EIT, whose events are those of its slice.
AtscEit(n) == [slice |-> n, version |-> eit_version[n]]

\* The events of the EITs stored under number k.
EventsOf(k) ==
  {e \in Shows : e.source \in DOMAIN decoded_atsc_eit[k]
                 /\ decoded_atsc_eit[k][e.source].slice = e.slice}

\* eit_x_complete_atsc compares numbers.
eit_x_complete_atsc(k) ==
  /\ VctChannels # {}
  /\ Cardinality(DOMAIN decoded_atsc_eit[k]) = Cardinality(VctChannels)

\* ett_x_complete looks for the text of each event that says it has one.
ett_x_complete(k) ==
  /\ eit_x_complete_atsc(k)
  /\ \A e \in EventsOf(k) : e.etm => EttKey(EtmId(e)) \in DOMAIN decoded_ett[k]

Wanted(k) == options.limit = -1 \/ k <= options.limit

\* got_all_eit and got_all_ett, for the tables the MGT lists.
got_all_eit == decoded_mgt # 0 /\ \A k \in Numbers : Wanted(k) => eit_x_complete_atsc(k)
got_all_ett == decoded_mgt = 0 \/ \A k \in Numbers : Wanted(k) => ett_x_complete(k)

\* is_epg_ready, for a stream whose tables PAT to VCT are there.
is_epg_ready == got_all_eit /\ (options.collect => got_all_ett)

AtscInit ==
  /\ options \in Settings
  /\ guide = 1
  /\ eit_version = [n \in Slices |-> 0]
  /\ decoded_mgt = 0 /\ decoded_vct = 0 /\ has_mgt = FALSE
  /\ eit_pids = <<>> /\ ett_pids = <<>> /\ h_demux = <<>>
  /\ eit_x = 0 /\ ett_x = 0
  /\ decoded_atsc_eit = [k \in Numbers |-> <<>>]
  /\ ett_store = {}
  /\ decoded_ett = [k \in Numbers |-> <<>>]
  /\ dumped_eit = 0
  /\ tunes = 0

-----------------------------------------------------------------------------
(* The broadcaster, which is external.                                     *)

\* The next slice begins, and with it a new MGT.
NextGuide ==
  /\ guide < Len(Guides)
  /\ guide' = guide + 1
  /\ UNCHANGED <<options, eit_version, decoded_mgt, decoded_vct, demuxed, collected, dumped_eit, tunes>>

\* The EITs of a slice change.
NewAtscEit(n) ==
  /\ eit_version[n] < MaxEitVersion  \* bound
  /\ eit_version' = [eit_version EXCEPT ![n] = @ + 1]
  /\ UNCHANGED <<options, guide, decoded_mgt, decoded_vct, demuxed, collected, dumped_eit, tunes>>

-----------------------------------------------------------------------------
(* Packets.                                                                *)

\* The pids of the EITs and ETTs that process_mgt collects for guide n.
EitsOf(n) == IF options.scan THEN {} ELSE {k \in Numbers : Wanted(k)}
EttsOf(n) == IF options.collect THEN {k \in Numbers : Wanted(k)} ELSE {}
EitPidsOf(n) == [p \in {EitPid(ListedBy(n)[k]) : k \in EitsOf(n)} |-> p[2] - n + 1]
EttPidsOf(n) == [p \in {EttPid(ListedBy(n)[k]) : k \in EttsOf(n)} |-> p[2] - n + 1]

\* The pids it attaches a new demux to: beyond the limit an ETT falls through
\* to where the demux of the channel ETT is attached.
AttachedBy(n) ==
  DOMAIN EitPidsOf(n)
    \cup (IF options.collect THEN {EttPid(ListedBy(n)[k]) : k \in Numbers} ELSE {})

\* process_mgt: the pids are collected anew, the demuxes of pids that are no
\* longer listed stay attached.
process_mgt(n) ==
  /\ eit_pids' = EitPidsOf(n)
  /\ ett_pids' = EttPidsOf(n)
  /\ h_demux' = [p \in DOMAIN h_demux \cup AttachedBy(n) |->
                   IF p \in AttachedBy(n) THEN {} ELSE h_demux[p]]

\* take_mgt: the parser processes an MGT that the decoder did not have, and the
\* first one after reset().
TakeMgt ==
  /\ decoded_mgt # guide \/ ~has_mgt
  /\ decoded_mgt' = guide
  /\ process_mgt(guide)
  /\ has_mgt' = TRUE
  /\ UNCHANGED <<broadcast, decoded_vct, eit_x, ett_x, collected, dumped_eit, tunes>>

TakeVct ==
  /\ decoded_vct # guide
  /\ decoded_vct' = guide
  /\ UNCHANGED <<broadcast, decoded_mgt, demuxed, collected, dumped_eit, tunes>>

\* A packet of an EIT that is complete: its pid is dropped.
DropEit(p) ==
  /\ p \in DOMAIN eit_pids /\ eit_x_complete_atsc(eit_pids[p])
  /\ h_demux' = Erase(h_demux, p)
  /\ eit_pids' = Erase(eit_pids, p)
  /\ UNCHANGED <<broadcast, decoded_mgt, decoded_vct, has_mgt, ett_pids, eit_x, ett_x,
       collected, dumped_eit, tunes>>

DropEtt(p) ==
  /\ p \in DOMAIN ett_pids /\ ett_x_complete(ett_pids[p])
  /\ h_demux' = Erase(h_demux, p)
  /\ ett_pids' = Erase(ett_pids, p)
  /\ UNCHANGED <<broadcast, decoded_mgt, decoded_vct, has_mgt, eit_pids, eit_x, ett_x,
       collected, dumped_eit, tunes>>

\* A slice is on the air as long as the MGT on the air lists it.
OnAir(n) == n \in {SliceOf(guide, k) : k \in Numbers}

\* Mutant: the number is not noted before the packet is pushed.
Current_Late(pids, p, last) == last

\* set_current_eit_x: feed() notes the number of the pid before it pushes a
\* packet; a pid that is not listed leaves the number of the last one.
Current(pids, p, last) == IF p \in DOMAIN pids THEN pids[p] ELSE last

\* updateEIT, which atsc_eit::store calls.
updateAtscEIT(k, s, n) == [decoded_atsc_eit EXCEPT ![k] = Store(@, s, AtscEit(n))]

\* take_eit, atsc_eit::ingest (which always adds) and updateEIT: an EIT with the
\* version that is stored for its channel under this number is not looked at.
TakeAtscEit(n, s) ==
  LET p == EitPid(n)
      k == Current(eit_pids, p, eit_x)
      known == s \in DOMAIN decoded_atsc_eit[k]
               /\ decoded_atsc_eit[k][s].version = eit_version[n]
  IN  /\ OnAir(n) /\ s \in Guides[guide]
      /\ p \in DOMAIN h_demux /\ <<s, eit_version[n]>> \notin h_demux[p]
      /\ p \in DOMAIN eit_pids => ~eit_x_complete_atsc(eit_pids[p])
      /\ h_demux' = [h_demux EXCEPT ![p] = @ \cup {<<s, eit_version[n]>>}]
      /\ eit_x' = k
      /\ decoded_atsc_eit' =
           IF known THEN decoded_atsc_eit ELSE updateAtscEIT(k, s, n)
      /\ UNCHANGED <<broadcast, decoded_mgt, decoded_vct, has_mgt, eit_pids, ett_pids, ett_x,
           ett_store, decoded_ett, dumped_eit, tunes>>

\* atsc_ett::ingest: a text with an id and version that any number has is not
\* stored, so the text found under the key stays.
Ingested(id, old) == IF id \in ett_store THEN old ELSE id

\* take_ett makes an empty text before it asks whether there is a text with this
\* id and version under any number.
TakeEtt(e) ==
  LET p == EttPid(e.slice)
      k == Current(ett_pids, p, ett_x)
      id == EtmId(e)
      key == EttKey(id)
      old == IF key \in DOMAIN decoded_ett[k] THEN decoded_ett[k][key] ELSE NoText
  IN  /\ e.etm /\ OnAir(e.slice) /\ e.source \in Guides[guide]
      /\ p \in DOMAIN h_demux /\ <<id, 0>> \notin h_demux[p]
      /\ p \in DOMAIN ett_pids => ~ett_x_complete(ett_pids[p])
      /\ h_demux' = [h_demux EXCEPT ![p] = @ \cup {<<id, 0>>}]
      /\ ett_x' = k
      /\ ett_store' = ett_store \cup {id}
      /\ decoded_ett' = [decoded_ett EXCEPT
           ![k] = Store(@, key, Ingested(id, old))]
      /\ UNCHANGED <<broadcast, decoded_mgt, decoded_vct, has_mgt, eit_pids, ett_pids, eit_x,
           decoded_atsc_eit, dumped_eit, tunes>>

-----------------------------------------------------------------------------
(* The end of a buffer, and a new channel.                                 *)

\* Mutant: texts are not waited for.
MayDump_AnyText(k) == eit_x_complete_atsc(k)

MayDump(k) == eit_x_complete_atsc(k) /\ (options.collect => ett_x_complete(k))

\* dump_eit_x_atsc stores an empty EIT for each channel that has none.
dump_eit_x_atsc(f) == [s \in DOMAIN f \cup VctChannels |-> IF s \in DOMAIN f THEN f[s] ELSE NoEit]

\* feed() at the end of its packets: one complete part after the other.
EndAtscBuffer ==
  \E to \in dumped_eit + 1 .. LastEit + 1 :
    /\ \A k \in dumped_eit .. to - 1 : MayDump(k)
    /\ to \in Numbers => ~MayDump(to)
    /\ dumped_eit' = to
    /\ decoded_atsc_eit' = [k \in Numbers |->
         IF k \in dumped_eit .. to - 1 THEN dump_eit_x_atsc(decoded_atsc_eit[k])
         ELSE decoded_atsc_eit[k]]
    /\ UNCHANGED <<broadcast, decoded_mgt, decoded_vct, demuxed, ett_store, decoded_ett, tunes>>

\* Mutant: reset() leaves it at the MGT it had.
resetAtsc_KeepsMgt ==
  /\ tunes < MaxTunes /\ tunes' = tunes + 1
  /\ h_demux' = <<>>
  /\ dumped_eit' = 0
  /\ UNCHANGED <<broadcast, decoded_mgt, decoded_vct, has_mgt, eit_pids, ett_pids, eit_x,
       ett_x, collected>>

\* parse::reset when the same channel is tuned to again: the demuxes go, the
\* pids and what is decoded stay.
resetAtsc ==
  /\ tunes < MaxTunes /\ tunes' = tunes + 1  \* bound
  /\ has_mgt' = FALSE
  /\ h_demux' = <<>>
  /\ dumped_eit' = 0
  /\ UNCHANGED <<broadcast, decoded_mgt, decoded_vct, eit_pids, ett_pids, eit_x, ett_x,
       collected>>

TakeAny ==
  \/ TakeMgt \/ TakeVct
  \/ \E n \in Slices, s \in Sources : TakeAtscEit(n, s)
  \/ \E e \in Shows : TakeEtt(e)

AtscNext ==
  \/ NextGuide \/ \E n \in Slices : NewAtscEit(n)
  \/ TakeAny
  \/ \E n \in Slices : DropEit(EitPid(n)) \/ DropEtt(EttPid(n))
  \/ EndAtscBuffer
  \/ resetAtsc

AtscSpec == AtscInit /\ [][AtscNext]_atscVars

\* The broadcaster repeats every table, and every buffer ends.
AtscFairness == WF_atscVars(TakeAny) /\ WF_atscVars(EndAtscBuffer)

-----------------------------------------------------------------------------
(* Properties.                                                             *)

\* An EIT is stored under a number that an MGT gave it: the number comes from
\* the pid of the last packet (parse.cpp:feed, decode.cpp:take_eit), and the
\* pids move on to other numbers with every MGT.
FiledAsListed ==
  \A k \in Numbers : \A s \in DOMAIN decoded_atsc_eit[k] :
    decoded_atsc_eit[k][s] = NoEit
      \/ \E n \in 1 .. decoded_mgt : decoded_atsc_eit[k][s].slice = SliceOf(n, k)

\* The channels are those they were from the beginning.
SameChannels == \A n \in 1 .. guide : Guides[n] = Guides[1]

\* What is dumped is whole: each channel of the VCT has its EIT and, if texts
\* are collected, a text for each event that says it has one, as long as the
\* channels do not change (parse.cpp:feed).
AtscDumpedWhole ==
  [][\A k \in dumped_eit .. dumped_eit' - 1 : SameChannels =>
       /\ \A s \in VctChannels : s \in DOMAIN decoded_atsc_eit[k] /\ decoded_atsc_eit[k][s] # NoEit
       /\ options.collect =>
            \A e \in EventsOf(k) : e.etm => EttKey(EtmId(e)) \in DOMAIN decoded_ett[k]]_atscVars

\* The guide gets complete and is dumped, whenever the channel is tuned to and
\* the guide moves on, as long as the channels stay the same; with texts, as
\* long as the guide does not move on while it is collected
\* (parse.cpp:is_epg_ready, on which "-E" waits).
EventuallyGathered ==
  <>[](\/ is_epg_ready /\ \A k \in Numbers : Wanted(k) => dumped_eit > k
       \/ options.scan
       \/ ~SameChannels
       \/ options.collect /\ guide > 1)

\* "etm_id, decoded_atsc_eit_t" (decode.h:255): the texts are stored by etm_id,
\* so the text of an event is its own once the texts of its part are complete.
TextsByEtmId ==
  \A k \in Numbers : ett_x_complete(k) =>
    \A e \in EventsOf(k) : e.etm => decoded_ett[k][EttKey(EtmId(e))] = EtmId(e)
=============================================================================
