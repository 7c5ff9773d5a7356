-------------------------------- MODULE Guide --------------------------------
(***************************************************************************)
(* The guide of one stream, which is a DVB stream (EpgDvb) or an ATSC one  *)
(* (EpgAtsc): a stream has a VCT or an SDT, and eit_x_complete,            *)
(* got_all_eit and dump_eit_x (decode.cpp) ask which.                      *)
(***************************************************************************)
EXTENDS EpgDvb, EpgAtsc

VARIABLE standard

guideVars == <<standard, dvbVars, atscVars>>

\* The settings matter to an ATSC stream only.
GuideInit ==
  /\ standard \in {"atsc", "dvb"} /\ DvbInit /\ AtscInit
  /\ standard = "dvb" => options = CHOOSE o \in Settings : TRUE

GuideNext ==
  \/ standard = "dvb" /\ DvbNext /\ UNCHANGED <<standard, atscVars>>
  \/ standard = "atsc" /\ AtscNext /\ UNCHANGED <<standard, dvbVars>>

GuideSpec == GuideInit /\ [][GuideNext]_guideVars

FairGuideSpec == GuideSpec /\ AtscFairness

\* EventuallyGathered, of an ATSC stream.
GuideGathered == standard = "atsc" => EventuallyGathered

\* An EIT is filed where it belongs: under its own service and table in a DVB
\* guide (m_eit_x, decode.cpp:1334), under the number that the MGT gives the pid
\* it came on in an ATSC guide (grab_eit, parse.cpp:1692).
Filed == FiledRight /\ FiledAsListed
=============================================================================
