------------------------------- MODULE EpgDvb -------------------------------
(***************************************************************************)
(* The programme guide of a DVB stream: how the EITs of the services listed*)
(* in an SDT are stored (decode/table/tabl_4e.cpp, decode.cpp), when the   *)
(* guide counts as complete (eit_x_complete), and the dump that            *)
(* parse::feed makes of each complete part at the end of a buffer.         *)
(*                                                                         *)
(* A service has an EIT in table 0 (present/following) and in the tables   *)
(* 1 .. LastX (schedule); each (table, service) pair has a version of its  *)
(* own.  libdvbpsi is external: it calls back once for each version.       *)
(***************************************************************************)
EXTENDS Integers, FiniteSets, Sequences

CONSTANTS
  Sdts,        \* the SDTs in the order in which they are broadcast
  LastX,       \* number of the last schedule table
  MaxVersion   \* bound: versions of an EIT

\* An SDT says of each service whether it has a present/following EIT
\* (f_eit_present) and schedule EITs (f_eit_sched).
ASSUME EpgDvbAssumption ==
  /\ Len(Sdts) \in Nat \ {0} /\ DOMAIN Sdts = 1 .. Len(Sdts)
  /\ \A n \in DOMAIN Sdts : IsFiniteSet(Sdts[n].pf) /\ IsFiniteSet(Sdts[n].sched)
  /\ LastX \in Nat \ {0} /\ MaxVersion \in Nat

Services == UNION {Sdts[n].pf \cup Sdts[n].sched : n \in DOMAIN Sdts}
Tables == 0 .. LastX
NoVersion == -1

VARIABLES
  onair,     \* the index of the SDT on the air
  version,   \* the version of each EIT on the air
  seen,      \* libdvbpsi: the version each EIT handle called back for last
  sdt,       \* index of the decoded SDT, 0 before
  store,     \* the EIT objects of the service's TableStore: service -> version
  eit,       \* decoded_eit: for each table a map from service to version
  dumped,    \* dumped_eit
  feeding,   \* is parse::feed among the packets of a buffer?
  said       \* history: the last EIT reported as decoded already

dvbVars == <<onair, version, seen, sdt, store, eit, dumped, feeding, said>>
airVars == <<onair, version>>

\* Maps that are changed with operator[].
Put(f, K, v) == [x \in DOMAIN f \cup K |-> IF x \in K THEN v ELSE f[x]]

\* The services that have an EIT in table x, as the SDT with index n tells.
WithEit(n, x) == IF x = 0 THEN Sdts[n].pf ELSE Sdts[n].sched

\* eit_x_complete_dvb_pf and eit_x_complete_dvb_sched compare numbers.
eit_x_complete(x) ==
  /\ sdt # 0
  /\ Sdts[sdt].pf \cup Sdts[sdt].sched # {}
  /\ eit[x] # <<>>
  /\ Cardinality(DOMAIN eit[x]) = Cardinality(WithEit(sdt, x))

DvbInit ==
  /\ onair = 1
  /\ version = [x \in Tables |-> [s \in Services |-> 0]]
  /\ seen = [x \in Tables |-> [s \in Services |-> NoVersion]]
  /\ sdt = 0
  /\ store = <<>>
  /\ eit = [x \in Tables |-> <<>>]
  /\ dumped = 0
  /\ feeding = TRUE
  /\ said = <<>>

\* External: an EIT, or the SDT, is replaced.
NewEit(x, s) ==
  /\ version[x][s] < MaxVersion  \* bound
  /\ version' = [version EXCEPT ![x][s] = @ + 1]
  /\ UNCHANGED <<onair, seen, sdt, store, eit, dumped, feeding, said>>

NewSdt ==
  /\ onair < Len(Sdts)
  /\ onair' = onair + 1
  /\ UNCHANGED <<version, seen, sdt, store, eit, dumped, feeding, said>>

TakeSdt ==
  /\ feeding
  /\ sdt # onair
  /\ sdt' = onair
  /\ said' = <<>>
  /\ UNCHANGED <<airVars, seen, store, eit, dumped, feeding>>

\* Mutant: every EIT is stored as present/following.
updateEIT_PfOnly(x, s) == eit' = [eit EXCEPT ![0] = Put(@, {s}, version[x][s])]

\* updateEIT, called by the table when it is stored.
updateEIT(x, s) == eit' = [eit EXCEPT ![x] = Put(@, {s}, version[x][s])]

\* take_eit and eit::ingest: the store is searched by service and version only.
TakeEit(x, s) ==
  /\ feeding
  /\ s \in WithEit(onair, x)
  /\ seen[x][s] # version[x][s]
  /\ seen' = [seen EXCEPT ![x][s] = version[x][s]]
  /\ IF s \in DOMAIN store /\ store[s] = version[x][s]
     THEN said' = <<x, s, version[x][s]>> /\ UNCHANGED <<store, eit>>
     ELSE /\ store' = Put(store, {s}, version[x][s])
          /\ updateEIT(x, s)
          /\ said' = <<>>
  /\ UNCHANGED <<airVars, sdt, dumped, feeding>>

\* The packets of the buffer are through.
EndOfBuffer ==
  /\ feeding
  /\ feeding' = FALSE
  /\ said' = <<>>
  /\ UNCHANGED <<airVars, seen, sdt, store, eit, dumped>>

\* Mutant: the next part is dumped whether it is complete or not.
Dump_Early ==
  /\ ~feeding /\ dumped \in Tables /\ sdt # 0
  /\ eit' = [eit EXCEPT ![dumped] = Put(@, WithEit(sdt, 0) \ DOMAIN @, NoVersion)]
  /\ dumped' = dumped + 1
  /\ UNCHANGED <<airVars, seen, sdt, store, feeding, said>>

\* dump_eit_x_dvb looks up every service with a present/following EIT, whatever
\* the number of the table, with operator[], which stores an empty entry for
\* one that is not there.
Dump ==
  /\ ~feeding /\ dumped \in Tables /\ eit_x_complete(dumped)
  /\ eit' = [eit EXCEPT ![dumped] = Put(@, WithEit(sdt, 0) \ DOMAIN @, NoVersion)]
  /\ dumped' = dumped + 1
  /\ UNCHANGED <<airVars, seen, sdt, store, feeding, said>>

\* feed() returns and is called again.
NextBuffer ==
  /\ ~feeding
  /\ dumped \in Tables => ~eit_x_complete(dumped)
  /\ feeding' = TRUE
  /\ UNCHANGED <<airVars, seen, sdt, store, eit, dumped, said>>

\* tune::tune_channel resets the parser and its handles; the decoder stays.
reset ==
  /\ dumped' = 0 /\ feeding' = TRUE
  /\ seen' = [x \in Tables |-> [s \in Services |-> NoVersion]]
  /\ said' = <<>>
  /\ UNCHANGED <<airVars, sdt, store, eit>>

DvbNext ==
  \/ \E x \in Tables, s \in Services : NewEit(x, s) \/ TakeEit(x, s)
  \/ NewSdt \/ TakeSdt
  \/ EndOfBuffer \/ Dump \/ NextBuffer
  \/ reset

DvbSpec == DvbInit /\ [][DvbNext]_dvbVars

-----------------------------------------------------------------------------
(* Properties.                                                             *)

\* The events stored for a service under a table are those of that table: an
\* EIT is never filed under another table's number, although the number is
\* kept beside the call in m_eit_x (decode.cpp:decode_network_service).
FiledRight ==
  \A x \in Tables : \A s \in DOMAIN eit[x] :
    eit[x][s] # NoVersion => eit[x][s] <= version[x][s] /\ \E n \in 1 .. onair : s \in WithEit(n, x)

\* A part of the guide is dumped only when each service that has an EIT in it
\* was stored, as long as the SDT was not replaced (parse.cpp:feed): complete
\* by count is complete by content.
DumpedWhole ==
  [][\A x \in Tables : dumped = x /\ dumped' = x + 1 /\ onair = 1 =>
       \A s \in WithEit(sdt, x) : s \in DOMAIN eit[x] /\ eit[x][s] # NoVersion]_dvbVars

\* "ALREADY DECODED" (decode/table/tabl_4e.cpp:167): an EIT that is rejected
\* with these words is stored.
AlreadyDecoded ==
  said # <<>> => said[2] \in DOMAIN eit[said[1]] /\ eit[said[1]][said[2]] = said[3]
=============================================================================
