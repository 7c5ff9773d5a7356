------------------------------- MODULE Reply -------------------------------
(***************************************************************************)
(* What a client of the command server gets: client_thread(), command()    *)
(* and __command() of class serve_client (src/libdvbtee_server/serve.cpp), *)
(* the reports that text.cpp writes, and the list of saved channels.       *)
(*                                                                         *)
(* One client at a time.  A request is a line of commands that are split   *)
(* by "&" or "/"; each takes a step, and those that read twice take two.   *)
(* Meanwhile a scan or a feed makes multiplexes known to the parsers.  The *)
(* program may crash: channels.conf is all that stays.                     *)
(*                                                                         *)
(* A reply is a sequence of tokens: every string that opens or closes      *)
(* something, every channel and every event.  How they are worded is left  *)
(* out, and so are the messages of cli_print() that hold none of these.    *)
(* Commands whose only effect is on the tuner, the outputs or the listener *)
(* are one action each here; their effects are in Server, Scan and Feed.   *)
(***************************************************************************)
EXTENDS Integers, Sequences, FiniteSets, SequencesExt

CONSTANTS
  Configs,      \* f_cli_enabled, and the numbers of the tuners and feeders
  Muxes,        \* the physical channels
  Channels,     \* the services of each, as the parser lists them
  Events,       \* the guide of a service
  MaxItems      \* bound: the commands of one client

ASSUME ReplyAssumption ==
  /\ Configs \subseteq [cli : BOOLEAN, tuners : {{}, {0}}, feeders : {{}, {0}}]
  /\ Muxes \subseteq Nat /\ IsFiniteSet(Muxes) /\ MaxItems \in Nat
  /\ DOMAIN Channels = Muxes
  /\ \A m \in Muxes : Channels[m] \in Seq(DOMAIN Events) /\ IsInjective(Channels[m])
  /\ \A c \in DOMAIN Events : Events[c] \in Seq(Range(Events[c]))
  \* a channel is a physical channel and the number of a program in its PAT
  /\ \A m, n \in Muxes : m # n => Range(Channels[m]) \cap Range(Channels[n]) = {}

VARIABLES
  config,    \* what the server was started with
  known,     \* channel_info: of each parser, the multiplexes it knows
  file,      \* channels.conf
  client,    \* tuner, feeder, data_fmt, streamback_started, streamback_newchannel
  thread,    \* where it is, and whether the request is HTTP
  ran,       \* commands of this client: n, and when the last request began
  sent,      \* what was sent since the request was received
  listed,    \* history: the channels that the last list has named so far
  quitAt     \* history: the command of this request that was "quit", or 0

vars == <<config, known, file, client, thread, ran, sent, listed, quitAt>>
historyVars == <<listed, quitAt>>

Text == {"html", "json", "xml"}
Ids == {0, 1}

\* Tuners and feeders; a tuner also stands for the feeder that is part of it.
NULL == <<"none", 0>>
Tuner(i) == <<"tuner", i>>
Feeder(i) == <<"feeder", i>>
Parsers == {Tuner(0), Feeder(0)}

\* The elements of a set of numbers, in their order.
Ascending(S) ==
  CHOOSE s \in [1 .. Cardinality(S) -> S] : \A i, j \in DOMAIN s : i < j => s[i] < s[j]

Token(is, of) == [is |-> is, of |-> of]
Header == Token("head", "")
LastChunk == Token("last", "")
ConnClose == Token("close_connection", "")
Prompt == Token("prompt", "")

NewClient == [tuner |-> NULL, feeder |-> NULL, fmt |-> "none", started |-> FALSE, newchannel |-> FALSE]
NewThread == [at |-> "recv", http |-> FALSE]

Init ==
  /\ config \in Configs
  /\ known = [p \in Parsers |-> {}]
  /\ file = <<>>
  /\ client = NewClient
  /\ thread = NewThread
  /\ ran = [n |-> 0, began |-> 0]
  /\ sent = <<>>
  /\ listed = <<>>
  /\ quitAt = 0

-----------------------------------------------------------------------------
(* The texts.  out is what a report has come to: the flags of the client   *)
(* and the tokens.                                                         *)

Out == [started |-> client.started, newchannel |-> client.newchannel, text |-> <<>>]
Streamback(out, text) == [out EXCEPT !.text = @ \o text]

\* html_ and json_dump_epg_header_footer_callback(): a page of rows, a list of lists
Bracket(is, channel) == <<Token(is, IF channel THEN "row" ELSE "page")>>

\* xml_dump_epg_header_footer_callback(), whose rows are nothing
Tv(is) == <<Token(is, "tv")>>

epg_header_footer(out, header, channel) ==
  LET started == out.started \/ (header /\ ~channel)
      text == IF client.fmt \in {"html", "json"} THEN Bracket(IF header THEN "open" ELSE "shut", channel) ELSE <<>>
  IN  IF ~started THEN out
      ELSE [Streamback(out, text) EXCEPT !.started = TRUE, !.newchannel = @ \/ (header /\ channel)]

\* Mutant: the first event of a channel does not clear the flag.
epg_event_Again(out, c, e) ==
  LET name == IF out.newchannel /\ client.fmt \in {"html", "cli"} THEN <<Token("name", c)>> ELSE <<>>
      event == IF client.fmt \in Text \cup {"cli"} THEN <<Token("event", e)>> ELSE <<>>
  IN  IF ~out.started THEN out ELSE Streamback(out, name \o event)

epg_event(out, c, e) ==
  LET name == IF out.newchannel /\ client.fmt \in {"html", "cli"} THEN <<Token("name", c)>> ELSE <<>>
      event == IF client.fmt \in Text \cup {"cli"} THEN <<Token("event", e)>> ELSE <<>>
  IN  IF ~out.started THEN out ELSE [Streamback(out, name \o event) EXCEPT !.newchannel = FALSE]

chandump(c) == IF client.fmt \in Text \cup {"cli"} THEN <<Token("channel", c)>> ELSE <<>>

\* dump_epg() of one multiplex: a page, with a row for each channel
DumpChannel(out, c) ==
  LET event(o, e) == epg_event(o, c, e)
  IN  epg_header_footer(FoldLeft(event, epg_header_footer(out, TRUE, TRUE), Events[c]), FALSE, TRUE)

dump_epg(out, m) ==
  epg_header_footer(FoldLeft(DumpChannel, epg_header_footer(out, TRUE, FALSE), Channels[m]), FALSE, FALSE)

\* What the parser of the feeder knows, in the order of the physical channels
InOrder(p) == Ascending(known[p])
epg_dump(out, p) == FoldLeft(dump_epg, out, InOrder(p))
xine_dump(p) == FlattenSeq([i \in DOMAIN InOrder(p) |-> Channels[InOrder(p)[i]]])

-----------------------------------------------------------------------------
(* The connection                                                          *)

At(at) == thread.at = at
Request(fmt, http, text, next) ==
  /\ At("recv") /\ ran.n < MaxItems
  /\ client' = [client EXCEPT !.fmt = fmt, !.started = FALSE, !.newchannel = FALSE]
  /\ thread' = [at |-> next, http |-> http]
  /\ ran' = [ran EXCEPT !.began = ran.n]
  /\ sent' = text
  /\ listed' = <<>> /\ quitAt' = 0
  /\ UNCHANGED <<config, known, file>>

\* The URL tells the format, "stream/" before all others.
Get(fmt) == Request(fmt, TRUE, IF fmt \in Text THEN <<Header>> ELSE <<>>, "command")

\* Everything else is for the command line, HTTP or not.
Line(http) == config.cli /\ Request("cli", http, <<>>, "command")

\* HEAD: commands are not processed.  The prompt does not ask for HTTP.
HeadOnly == config.cli /\ Request("cli", TRUE, <<Header, Prompt>>, "end")

\* Without a command line the thread ends and answers nothing.
NoCli == ~config.cli /\ Request(client.fmt, FALSE, <<>>, "end")

HangsUp ==
  /\ At("recv")
  /\ thread' = [thread EXCEPT !.at = "end"]
  /\ UNCHANGED <<config, known, file, client, ran, sent, historyVars>>

\* Mutant: a command that fails ends the reply as it is.
Finish_Bare ==
  /\ At("failed") \/ (At("command") /\ ran.n > ran.began)
  /\ thread' = [thread EXCEPT !.at = IF thread.http THEN "end" ELSE "recv"]
  /\ sent' = sent \o (IF client.fmt \in Text /\ At("command") THEN <<LastChunk, ConnClose>> ELSE <<>>)
  /\ UNCHANGED <<config, known, file, client, ran, historyVars>>

\* No more commands, or one has failed: the last chunk, of length zero.  The
\* thread of an HTTP request ends with it.
Finish ==
  /\ At("failed") \/ (At("command") /\ ran.n > ran.began)
  /\ thread' = [thread EXCEPT !.at = IF thread.http THEN "end" ELSE "recv"]
  /\ sent' = sent \o (CASE client.fmt \in Text -> <<LastChunk, ConnClose>>
                        [] client.fmt = "cli" -> <<Prompt>>
                        [] OTHER -> <<>>)
  /\ UNCHANGED <<config, known, file, client, ran, historyVars>>

\* close_socket(): the next connection has a client of its own.
Close ==
  /\ At("end")
  /\ client' = NewClient
  /\ thread' = NewThread
  /\ ran' = [n |-> 0, began |-> 0]
  /\ sent' = <<>>
  /\ listed' = <<>> /\ quitAt' = 0
  /\ UNCHANGED <<config, known, file>>

-----------------------------------------------------------------------------
(* The commands                                                            *)

\* A command runs: the client becomes c, text goes out, and the thread goes on.
Run(c, text, next) ==
  /\ At("command") /\ ran.n < MaxItems
  /\ client' = c
  /\ thread' = [thread EXCEPT !.at = next]
  /\ ran' = [ran EXCEPT !.n = @ + 1]
  /\ sent' = sent \o text
  /\ UNCHANGED <<config, known>>

Keeps == UNCHANGED <<file, historyVars>>

\* "tuner=i", "feeder=i"; a number that is not there is NULL.
SelectTuner(i) ==
  LET found == i \in config.tuners
  IN  /\ Run([client EXCEPT !.tuner = IF found THEN Tuner(i) ELSE NULL, !.feeder = IF found THEN Tuner(i) ELSE @], <<>>, "command")
      /\ Keeps

\* Mutant: the tuner stays.
SelectFeeder_Keeps(i) ==
  LET found == i \in config.feeders
  IN  /\ Run([client EXCEPT !.feeder = IF found THEN Feeder(i) ELSE NULL], <<>>, "command")
      /\ Keeps

SelectFeeder(i) ==
  LET found == i \in config.feeders
  IN  /\ Run([client EXCEPT !.feeder = IF found THEN Feeder(i) ELSE NULL, !.tuner = IF found THEN NULL ELSE @], <<>>, "command")
      /\ Keeps

\* Every other command first looks for a feeder: that of its tuner, that of
\* tuner 0, feeder 0.
Default ==
  CASE client.feeder # NULL -> client
    [] client.feeder = NULL /\ client.tuner # NULL -> [client EXCEPT !.feeder = client.tuner]
    [] client.feeder = NULL /\ client.tuner = NULL /\ 0 \in config.tuners -> [client EXCEPT !.tuner = Tuner(0), !.feeder = Tuner(0)]
    [] client.feeder = NULL /\ client.tuner = NULL /\ config.tuners = {} /\ 0 \in config.feeders -> [client EXCEPT !.feeder = Feeder(0)]
    [] OTHER -> client

\* "NO TUNER / FEEDER!" and "NO TUNER!", or a file that does not open, which may
\* be at any time: the line ends here.
Fails ==
  /\ Run(Default, <<>>, "failed")
  /\ Keeps

\* Commands that say nothing but a line of text
Works ==
  /\ Default.feeder # NULL
  /\ Run(Default, <<>>, "command")
  /\ Keeps

\* "video", which is a page of its own
Video ==
  /\ Default.feeder # NULL
  /\ Run(Default, IF client.fmt = "html" THEN <<Token("video", "")>> ELSE <<>>, "command")
  /\ Keeps

\* "scan", which waits: the channels of the parser, as they are then
Scan ==
  /\ Default.tuner # NULL /\ Default.feeder # NULL
  /\ LET dump == xine_dump(Default.feeder)
     IN  Run(Default, FlattenSeq([i \in DOMAIN dump |-> chandump(dump[i])]), "command")
  /\ Keeps

\* "channels" and "xmltv" name the channels of this session ...
List(cmd) ==
  /\ Default.tuner # NULL
  /\ LET dump == xine_dump(Default.tuner)
         open == CASE cmd = "xmltv" \/ client.fmt = "xml" -> Tv("open")
                   [] cmd = "channels" /\ client.fmt = "json" -> Bracket("open", FALSE)
                   [] OTHER -> <<>>
     IN  /\ Run(Default, open \o FlattenSeq([i \in DOMAIN dump |-> chandump(dump[i])]), cmd)
         /\ listed' = dump
  /\ UNCHANGED <<file, quitAt>>

\* Mutant: channels of multiplexes that the parser knows are loaded too.
Unseen_All == DOMAIN file

\* cmd_config_channels_conf_load(): "channels we already know about" are left out.
Unseen == {i \in DOMAIN file : \A m \in known[client.tuner] : file[i] \notin Range(Channels[m])}
Remaining == [i \in DOMAIN Ascending(Unseen) |-> file[Ascending(Unseen)[i]]]

\* ... and then those that were saved and not seen in this session.
Load ==
  /\ At("channels") \/ At("xmltv")
  /\ listed' = listed \o Remaining
  /\ LET text == FlattenSeq([i \in DOMAIN Remaining |-> chandump(Remaining[i])])
         shut == CASE At("channels") /\ client.fmt = "xml" -> Tv("shut")
                   [] At("channels") /\ client.fmt = "json" -> Bracket("shut", FALSE)
                   [] OTHER -> <<>>
     IN  sent' = sent \o text \o shut
  /\ thread' = [thread EXCEPT !.at = IF At("xmltv") THEN "epg" ELSE "command"]
  /\ UNCHANGED <<config, known, file, client, ran, quitAt>>

Told(c, out) == [c EXCEPT !.started = out.started, !.newchannel = out.newchannel]

\* "xmltv" ends with the guide; it is XML around it whatever the format is.
XmltvGuide ==
  /\ At("epg")
  /\ LET out == epg_dump(Out, client.feeder)
     IN  client' = Told(client, out) /\ sent' = sent \o out.text \o Tv("shut")
  /\ thread' = [thread EXCEPT !.at = "command"]
  /\ UNCHANGED <<config, known, file, ran, historyVars>>

\* "epg"
Epg ==
  /\ Default.feeder # NULL
  /\ LET out == epg_dump(Out, Default.feeder)
         xml(is) == IF client.fmt = "xml" THEN Tv(is) ELSE <<>>
     IN  Run(Told(Default, out), xml("open") \o out.text \o xml("shut"), "command")
  /\ Keeps

\* "info" of a channel and what is on now and next.  In HTML these are two pages.
Info(m) ==
  /\ Default.feeder # NULL /\ m \in known[Default.feeder]
  /\ \E i \in DOMAIN Channels[m] :
       LET c == Channels[m][i]
           page(is) == IF client.fmt = "html" THEN Bracket(is, FALSE) ELSE <<>>
           around(is) == CASE client.fmt = "xml" -> Tv(is)
                           [] client.fmt = "json" -> Bracket(is, FALSE)
                           [] OTHER -> <<>>
           Event(out, e) == Streamback(epg_event(Streamback(out, page("open")), c, e), page("shut"))
           begun == [Streamback(Out, around("open") \o chandump(c)) EXCEPT !.started = TRUE]
           out == Event(Event(begun, IF Events[c] = <<>> THEN "nothing" ELSE Events[c][1]),
                        IF Len(Events[c]) < 2 THEN "nothing" ELSE Events[c][2])
       IN  Run([Default EXCEPT !.started = FALSE, !.newchannel = out.newchannel], out.text \o around("shut"), "command")
  /\ Keeps

\* "save": creat() empties the file, or fails, ...
Save ==
  /\ Default.tuner # NULL /\ Default.feeder # NULL
  /\ Run(Default, <<>>, "save")
  /\ file' = <<>>
  /\ UNCHANGED historyVars

\* ... and when the scan is over the channels of this session are written.
Saved ==
  /\ At("save")
  /\ file' = xine_dump(client.tuner)
  /\ thread' = [thread EXCEPT !.at = "command"]
  /\ UNCHANGED <<config, known, client, ran, sent, historyVars>>

\* "quit" disables the prompt and returns true, as the others do.
Quit ==
  /\ Default.feeder # NULL
  /\ Run([Default EXCEPT !.fmt = IF @ = "cli" THEN "none" ELSE @], <<>>, "command")
  /\ quitAt' = IF quitAt = 0 THEN ran.n + 1 ELSE quitAt
  /\ UNCHANGED <<file, listed>>

-----------------------------------------------------------------------------
(* The rest of the program                                                 *)

Learn(p, m) ==
  /\ m \notin known[p]
  /\ p = Feeder(0) => 0 \in config.feeders
  /\ p = Tuner(0) => 0 \in config.tuners
  /\ known' = [known EXCEPT ![p] = @ \cup {m}]
  /\ UNCHANGED <<config, file, client, thread, ran, sent, historyVars>>

Crash ==
  /\ known' = [p \in Parsers |-> {}]
  /\ client' = NewClient
  /\ thread' = NewThread
  /\ ran' = [n |-> 0, began |-> 0]
  /\ sent' = <<>>
  /\ listed' = <<>> /\ quitAt' = 0
  /\ UNCHANGED <<config, file>>

Connection ==
  \/ \E fmt \in Text \cup {"bin"} : Get(fmt)
  \/ \E http \in BOOLEAN : Line(http)
  \/ HeadOnly \/ NoCli \/ HangsUp \/ Finish \/ Close

Command ==
  \/ \E i \in Ids : SelectTuner(i) \/ SelectFeeder(i)
  \/ Fails \/ Works \/ Video \/ Scan \/ Load \/ XmltvGuide \/ Epg \/ Save \/ Saved \/ Quit
  \/ \E cmd \in {"channels", "xmltv"} : List(cmd)
  \/ \E m \in Muxes : Info(m)

Next == Connection \/ Command \/ Crash \/ \E p \in Parsers, m \in Muxes : Learn(p, m)

Spec == Init /\ [][Next]_vars

-----------------------------------------------------------------------------
(* Properties                                                              *)

Nest(open, token) ==
  CASE token.is = "open" -> Append(open, token.of)
    [] token.is = "shut" -> IF open # <<>> /\ Last(open) = token.of THEN Front(open) ELSE <<"broken">>
    [] token.is = "event" -> IF open # <<>> THEN open ELSE <<"broken">>
    [] token.is \in {"name", "channel", "video"} -> open
    [] OTHER -> <<"broken">>

\* The reply to a GET, whichever commands it has and whichever of them fails, is
\* the header, chunks, the last chunk and the end of the connection; in the
\* chunks everything that is opened is closed, the last first, and no event is
\* outside of all.
Framed ==
  At("end") /\ client.fmt \in Text =>
    /\ Len(sent) >= 3 /\ sent[1] = Header
    /\ SubSeq(sent, Len(sent) - 1, Len(sent)) = <<LastChunk, ConnClose>>
    /\ FoldLeft(Nest, <<>>, SubSeq(sent, 2, Len(sent) - 2)) = <<>>

\* A row of the guide in HTML that has events names their channel first, and once,
\* however many commands the line had before.
RowsNamed ==
  client.fmt = "html" =>
    \A i, j \in DOMAIN sent :
      /\ i < j /\ sent[i] = Token("open", "row") /\ sent[j] = Token("shut", "row")
      /\ \A k \in i + 1 .. j - 1 : sent[k].of # "row"
      => \/ j = i + 1
         \/ /\ sent[i + 1].is = "name"
            /\ [k \in 1 .. j - i - 2 |-> sent[i + 1 + k].of] = Events[sent[i + 1].of]

\* A reply is well formed from the header to the last cell, whatever the line asks
\* for and whatever fails (command, epg_header_footer, epg_event).
WellFormed == Framed /\ RowsNamed

\* The list of channels names none twice, while a scan goes on and after a restart:
\* what this session knows and what the file has are read one after the other.
NoneTwice == IsInjective(listed)

\* A client that has a tuner works on that tuner's own feed, whichever tuners and
\* feeders it asked for, there or not.
Coherent == client.tuner # NULL /\ client.feeder # NULL => client.feeder = client.tuner

\* "prevent further command processing" (serve.cpp:1627): "quit" is the last
\* command of its line that runs.
QuitEnds == quitAt # 0 => ran.n = quitAt

=============================================================================
