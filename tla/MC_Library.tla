---------------------------- MODULE MC_Library -----------------------------
(* The value objects and the decoded tables.  A behaviour uses one of the   *)
(* two.  Values: two objects, two arrays and two names.  Tables: streams    *)
(* with two versions of what may change, one of programs, one of DVB with   *)
(* two transport streams of one network, and one of ATSC.                   *)
EXTENDS Values, Tables

Section(class, key, mux, version, parts, tags) ==
  [class |-> class, key |-> key, x |-> 0, mux |-> mux, nw |-> 1, version |-> version, parts |-> parts, tags |-> tags]

Numbered(s, n) == [s EXCEPT !.x = n]

Programs ==
  {Section("pat", m, m, 0, <<"a">>, <<>>) : m \in {1, 2}}
    \cup {Section("pmt", 1, 1, 0, <<"a", "v">>, <<>>), Section("pmt", 1, 1, 1, <<"v">>, <<"lang">>),
          Section("nit", 1, 2, 0, <<"a">>, <<"unknown">>)}

Dvb ==
  {Section("nit", 1, 1, 0, <<"a">>, <<"lcn">>), Section("nit", 1, 1, 1, <<"b">>, <<>>),
   Section("sdt", 1, 1, 0, <<"a">>, <<>>), Section("sdt", 1, 2, 0, <<"b">>, <<>>),
   Section("sdt", 1, 2, 1, <<"c">>, <<>>),
   Numbered(Section("eit", 1, 1, 0, <<"e">>, <<>>), 0), Numbered(Section("eit", 1, 1, 1, <<"f">>, <<>>), 1),
   Section("tot", 0, 1, 0, <<>>, <<"offset">>)}

Atsc ==
  {Section("pat", 1, 1, 0, <<"a">>, <<>>), Section("pat", 1, 1, 1, <<"b">>, <<>>),
   Section("mgt", 0, 1, 0, <<"e">>, <<>>), Section("mgt", 0, 1, 1, <<"f">>, <<>>),
   Section("vct", 1, 1, 0, <<"a">>, <<>>), Section("vct", 1, 1, 1, <<"b">>, <<>>),
   Section("atsc_eit", 1, 1, 0, <<"e">>, <<>>), Section("atsc_eit", 1, 1, 1, <<"f">>, <<>>),
   Section("atsc_ett", 1, 1, 0, <<>>, <<>>), Section("atsc_ett", 1, 1, 1, <<>>, <<>>),
   Section("stt", 0, 1, 0, <<>>, <<>>)}

CONSTANTS o1, o2, a1, a2, k1, k2, p1, p2

TwoObjects == {o1, o2}
TwoArrays == {a1, a2}
TwoKeys == {k1, k2}
TwoParsers == {p1, p2}
Symmetry ==
  Permutations(TwoObjects) \cup Permutations(TwoArrays) \cup Permutations(TwoKeys) \cup Permutations(TwoParsers)

ThreeStreams == {Programs, Dvb, Atsc}

VARIABLE part  \* what this behaviour is about

LibraryInit ==
  /\ ValuesInit /\ TablesInit
  /\ \/ part = "tables"
     \/ part = "values" /\ air = Programs

LibraryNext ==
  \/ part = "values" /\ ValuesNext /\ UNCHANGED <<tableVars, part>>
  \/ part = "tables" /\ TablesNext /\ UNCHANGED <<valueVars, part>>

LibrarySpec == LibraryInit /\ [][LibraryNext]_<<tableVars, valueVars, part>>
=============================================================================
