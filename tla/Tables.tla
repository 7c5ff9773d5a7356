------------------------------- MODULE Tables -------------------------------
(***************************************************************************)
(* The tables as they are decoded and kept: parsers hand the sections of   *)
(* their stream to the decode of the stream's id (parse.cpp:               *)
(* define_table_wrapper), which passes those about networks and services   *)
(* on to the decode_network and decode_network_service that they name.     *)
(* Each of the three keeps tables in a TableStore, is the parent of them   *)
(* in the tree of Decoders, and copies what they decode to when they       *)
(* report that they were updated.                                          *)
(*                                                                         *)
(* The decodes and the networks are in two maps that all parsers share.  A *)
(* network is the child of the decode that met it first, and used by the   *)
(* others too; the parser that is deleted first empties both maps.  A call *)
(* is one step: the program has one thread while parsers come and go.      *)
(*                                                                         *)
(* Left out are the ids by which a decode finds its network and service    *)
(* again when it reports (EpgDvb), and entries without contents that a     *)
(* lookup makes (EpgAtsc).                                                 *)
(***************************************************************************)
EXTENDS Decoders

CONSTANTS
  Parsers,
  Streams,   \* what is on air: sets of sections
  MaxNodes   \* bound: decoders that live

VARIABLES
  air,       \* the sections on air
  node,      \* the tree of decoders
  decoders,  \* transport stream id -> its decode
  networks,  \* network id -> its decode_network
  parsers    \* parser -> the mux it is tuned to, its ts_id, has_pat

tableVars == <<air, node, decoders, networks, parsers>>

-----------------------------------------------------------------------------
(* The classes of tables.  How a class finds the table that a section is   *)
(* for: there is only one ("setOnly"), by its key ("key"), or it never     *)
(* does ("add"); what of it has descriptors; who keeps it; and whether the *)
(* keeper looks at its own copy first ("ALREADY DECODED").                 *)

Class(ingest, descriptors, keeper, looks) ==
  [ingest |-> ingest, descriptors |-> descriptors, keeper |-> keeper, looks |-> looks]

pat == Class("setOnly", {}, "decode", TRUE)
pmt == Class("key", {"table", "part"}, "decode", TRUE)
nit == Class("key", {"table", "part"}, "network", FALSE)
sdt == Class("key", {"part"}, "service", FALSE)
eit == Class("key", {"part"}, "service", FALSE)
tot == Class("setOnly", {"table"}, "decode", FALSE)
mgt == Class("setOnly", {"table", "part"}, "decode", TRUE)
vct == Class("setOnly", {"table", "part"}, "decode", TRUE)
atsc_eit == Class("add", {"table", "part"}, "decode", TRUE)
atsc_ett == Class("key", {"table"}, "decode", TRUE)
stt == Class("setOnly", {"table"}, "decode", FALSE)

Classes == [pat |-> pat, pmt |-> pmt, nit |-> nit, sdt |-> sdt, eit |-> eit, tot |-> tot, mgt |-> mgt,
            vct |-> vct, atsc_eit |-> atsc_eit, atsc_ett |-> atsc_ett, stt |-> stt]

\* A section: what it is and says; `parts' are the items of its loop, and each
\* has `tags' as its descriptors, as the table has.
SectionFields == {"class", "key", "x", "mux", "nw", "version", "parts", "tags"}

ASSUME TablesAssumption ==
  /\ MaxNodes \in Nat
  /\ \A stream \in Streams : \A s \in stream :
       /\ DOMAIN s = SectionFields /\ s.class \in DOMAIN Classes /\ s.mux \in Nat \ {0}
       /\ s.parts \in Seq(Range(s.parts)) /\ s.tags \in Seq(Range(s.tags))

\* The place of a keeper's copy: eit and ett also by their number, x.
CopyOf(s) == IF Classes[s.class].ingest = "setOnly" THEN <<s.class>> ELSE <<s.class, s.key, s.x>>

\* Mutant: what a table decoded to last time is not cleared.
Struct_Kept(was, s) == [version |-> s.version, key |-> s.key, parts |-> was.parts \cup Range(s.parts)]

\* The struct decoded_* that a table fills anew.
Struct(was, s) == [version |-> s.version, key |-> s.key, parts |-> Range(s.parts)]

\* What the program shows of a table: its fields, and the parts that are valid.
Shown(s) == [version |-> s.version, key |-> s.key, parts |-> s.parts]

Tags(s, of) == IF of \in Classes[s.class].descriptors THEN s.tags ELSE <<>>

\* A TableDataComponent: it stays a child of the table until the table dies.
AddPart(f, t, s) ==
  LET g == New(f, "part", t, [descriptors |-> <<>>])
  IN  DecodeDescriptors(g, Fresh(f), Tags(s, "part"))

\* The keeper copies what table t decoded to, as t tells it that it was updated.
updateTable(f, t) ==
  [f EXCEPT ![f[t].parent].data.decoded = Put(@, CopyOf(f[t].data.from), f[t].data.struct)]

\* store: the time of tot and stt counts as changed, for their fields are
\* cleared before (reset).
Store(f, t, s) ==
  LET g == FoldLeft(LAMBDA h, part : AddPart(h, t, s), DecodeDescriptors(f, t, Tags(s, "table")), s.parts)
  IN  updateTable([g EXCEPT ![t].data.struct = Struct(@, s), ![t].data.shown = Shown(s),
                            ![t].data.from = s], t)

NoTable(s) ==
  [class |-> s.class, from |-> s, struct |-> Struct([parts |-> {}], s), shown |-> Shown(s), descriptors |-> <<>>]

\* TableStore::add: the constructor of the table stores the section, and then
\* the table is linked and entered.
Add(f, p, s) ==
  LET t == Fresh(f)
      g == linkChild(Store(Put(f, t, Decoder("table", p, NoTable(s))), t, s), p, t)
  IN  [g EXCEPT ![p].data.store = Append(@, t)]

\* The places in the store of the tables of a class.
TablesIn(f, p, class) == {j \in DOMAIN f[p].data.store : f[f[p].data.store[j]].data.class = class}

\* Mutant: a table with another version is not the one the section is for.
Matches_Version(f, t, s) == f[t].data.shown.key = s.key /\ f[t].data.shown.version = s.version

Matches(f, t, s) == f[t].data.shown.key = s.key

\* ingest of each class.
Ingest(f, p, s) ==
  LET store == f[p].data.store
      there == TablesIn(f, p, s.class)
      same == {j \in there : Matches(f, store[j], s)}
  IN  CASE Classes[s.class].ingest = "setOnly" ->
             IF there = {} THEN Add(f, p, s) ELSE Store(f, store[Max(there)], s)
        [] Classes[s.class].ingest = "key" ->
             IF same = {} THEN Add(f, p, s)
             ELSE IF f[store[Min(same)]].data.shown.version = s.version THEN f
             ELSE Store(f, store[Min(same)], s)
        [] Classes[s.class].ingest = "add" -> Add(f, p, s)

\* A decode looks at the copy it has; an mgt without tables does not count.
Known(f, d, s) ==
  /\ Classes[s.class].looks
  /\ CopyOf(s) \in DOMAIN f[d].data.decoded
  /\ LET copy == f[d].data.decoded[CopyOf(s)]
     IN  copy.version = s.version /\ copy.key = s.key /\ (s.class = "mgt" => copy.parts # {})

-----------------------------------------------------------------------------

TablesInit ==
  /\ air \in Streams
  /\ node = <<>> /\ decoders = <<>> /\ networks = <<>> /\ parsers = <<>>

NewParser(p) ==
  /\ p \notin DOMAIN parsers
  /\ \E mux \in {s.mux : s \in air} :
       parsers' = Put(parsers, p, [mux |-> mux, ts_id |-> 0, has_pat |-> FALSE])
  /\ UNCHANGED <<air, node, decoders, networks>>

\* parse::reset, and the next channel.
Tune(p, mux) ==
  /\ mux # parsers[p].mux
  /\ parsers' = [parsers EXCEPT ![p] = [mux |-> mux, ts_id |-> 0, has_pat |-> FALSE]]
  /\ UNCHANGED <<air, node, decoders, networks>>

\* get_decoder: with the tree as it then is.
get_decoder(p, ts) ==
  IF ts \in DOMAIN decoders THEN [node |-> node, at |-> decoders[ts]]
  ELSE [node |-> Put(node, Fresh(node), Decoder("decode", Null, [m_parser |-> p, store |-> <<>>, decoded |-> <<>>])),
        at |-> Fresh(node)]

fetch_network(f, d, nw) ==
  IF nw \in DOMAIN networks THEN [node |-> f, at |-> networks[nw]]
  ELSE [node |-> New(f, "network", d, [store |-> <<>>, decoded |-> <<>>, services |-> <<>>, descriptors |-> <<>>]),
        at |-> Fresh(f)]

fetch_network_service(f, n, ts) ==
  IF ts \in DOMAIN f[n].data.services THEN [node |-> f, at |-> f[n].data.services[ts]]
  ELSE LET g == New(f, "service", n, [store |-> <<>>, decoded |-> <<>>])
       IN  [node |-> [g EXCEPT ![n].data.services = Put(@, ts, Fresh(f))], at |-> Fresh(f)]

\* take_pat, take_pmt, take_vct, take_mgt, take_eit and take_ett of ATSC,
\* take_tot, take_stt.
TakeHere(f, d, s) == IF Known(f, d, s) THEN f ELSE Ingest(f, d, s)

\* take_nit: the network has all descriptors of the section too, every time.
TakeNit(f, n, s) ==
  Ingest(FoldLeft(LAMBDA g, part : DecodeDescriptors(g, n, s.tags), DecodeDescriptors(f, n, s.tags), s.parts), n, s)

\* take_sdt and take_eit of a network.
TakeService(f, n, s) ==
  LET v == fetch_network_service(f, n, s.mux) IN Ingest(v.node, v.at, s)

\* pat, vct and the sdt of the stream set the id; the pids of the others are
\* looked at after the pat.
Sets(s) == s.class \in {"pat", "vct", "sdt"}
Attached(p, s) == s.class \in {"pat", "nit", "sdt", "eit", "tot"} \/ parsers[p].has_pat

\* parse::take_*.  The key of a pat and of a vct is the id of the stream.
Take(p, s) ==
  /\ Attached(p, s) /\ parsers[p].mux = s.mux
  /\ LET ts == IF Sets(s) THEN s.mux ELSE parsers[p].ts_id
         d == get_decoder(p, ts)
         n == fetch_network(d.node, d.at, s.nw)
         keeper == Classes[s.class].keeper
     IN  /\ node' = CASE keeper = "decode" -> TakeHere(d.node, d.at, s)
                      [] keeper = "network" -> TakeNit(n.node, n.at, s)
                      [] keeper = "service" -> TakeService(n.node, n.at, s)
         /\ decoders' = Put(decoders, ts, d.at)
         /\ networks' = IF keeper = "decode" THEN networks ELSE Put(networks, s.nw, n.at)
         /\ parsers' = [parsers EXCEPT ![p].ts_id = ts, ![p].has_pat = @ \/ s.class = "pat"]
  /\ Cardinality(DOMAIN node') <= MaxNodes
  /\ UNCHANGED air

\* Mutant: the decodes stay.
Emptied_Networks == DeleteAll(node, Range(networks))

\* cleanup: clear_decoded_networks, decoders.clear().
Emptied == DeleteAll(DeleteAll(node, Range(networks)), Range(decoders))

\* ~parse
DeleteParser(p) ==
  /\ node' = Emptied /\ networks' = <<>> /\ decoders' = <<>>
  /\ parsers' = Without(parsers, {p})
  /\ UNCHANGED air

TablesNext ==
  \/ \E p \in Parsers : NewParser(p)
  \/ \E p \in DOMAIN parsers :
       \/ \E s \in air : Tune(p, s.mux)
       \/ \E s \in air : Take(p, s)
       \/ DeleteParser(p)

TablesSpec == TablesInit /\ [][TablesNext]_tableVars

-----------------------------------------------------------------------------
(* Properties.                                                             *)

\* Nothing is used after it was deleted: whatever the maps, the stores and the
\* services point at lives and is where it should be in the tree, and the
\* parser that a decode asks for its settings (getParser) lives too.
NothingDangles ==
  /\ Linked(node)
  /\ \A ts \in DOMAIN decoders :
       /\ decoders[ts] \in DOMAIN node /\ node[decoders[ts]].is = "decode"
       /\ node[decoders[ts]].data.m_parser \in DOMAIN parsers
  /\ \A nw \in DOMAIN networks : networks[nw] \in DOMAIN node /\ node[networks[nw]].is = "network"
  /\ \A i \in DOMAIN node :
       LET data == node[i].data
           kept == (IF "store" \in DOMAIN data THEN Range(data.store) ELSE {})
                     \cup (IF "services" \in DOMAIN data THEN Range(data.services) ELSE {})
                     \cup (IF "descriptors" \in DOMAIN data THEN Range(data.descriptors) ELSE {})
       IN  kept \subseteq Range(node[i].children)

\* Nothing is lost: every decoder is below a decode that the map of the decodes
\* will delete, and every network is in the map of the networks.
NothingLeaks ==
  LET owned == UNION {Below(node, d) : d \in Range(decoders)}
  IN  /\ DOMAIN node \subseteq owned
      /\ {i \in DOMAIN node : node[i].is = "network"} = Range(networks)

\* The tree of the decoders, the maps of all parsers and the stores agree on who
\* lives: nothing is used after it was deleted or deleted twice, and nothing is
\* lost (parse::cleanup, ~Decoder, unlinkChild).
TreeIsWhole == NothingDangles /\ NothingLeaks

\* No version of a table is kept beside another one of the same key, whichever
\* parsers stored them ("ALREADY DECODED" and setOnly); the events of ATSC are,
\* which are added always.
OnePerKey ==
  \A i \in DOMAIN node : node[i].is \in {"decode", "network", "service"} =>
    LET store == node[i].data.store
    IN  \A j, k \in DOMAIN store : j # k =>
          LET t == node[store[j]].data
              u == node[store[k]].data
          IN  t.class = u.class /\ Classes[t.class].ingest # "add" =>
                Classes[t.class].ingest = "key" /\ t.shown.key # u.shown.key

\* The two forms of what was decoded agree: the fields that a table shows
\* (toJson) and the struct that the keeper copied, with which the parser works,
\* are of one version and have the same parts.
InStep ==
  \A i \in DOMAIN node : node[i].is \in {"decode", "network", "service"} =>
    LET store == node[i].data.store
    IN  \A j \in DOMAIN store :
          LET t == node[store[j]].data
              newer == \E k \in j + 1 .. Len(store) : CopyOf(node[store[k]].data.from) = CopyOf(t.from)
          IN  newer \/ /\ CopyOf(t.from) \in DOMAIN node[i].data.decoded
                       /\ node[i].data.decoded[CopyOf(t.from)] =
                            [version |-> t.shown.version, key |-> t.shown.key, parts |-> Range(t.shown.parts)]
=============================================================================
