------------------------------ MODULE MC_Reply ------------------------------
(* Two physical channels; a service without a guide comes before one with. *)
EXTENDS Reply

SomeConfigs ==
  {[cli |-> TRUE, tuners |-> {0}, feeders |-> {0}], [cli |-> FALSE, tuners |-> {0}, feeders |-> {}],
   [cli |-> TRUE, tuners |-> {}, feeders |-> {0}], [cli |-> FALSE, tuners |-> {}, feeders |-> {}]}

TwoMuxes == {2, 5}
TheChannels == 2 :> <<"a", "b">> @@ 5 :> <<"c">>
TheEvents == "a" :> <<>> @@ "b" :> <<"e", "f">> @@ "c" :> <<"g">>
=============================================================================
