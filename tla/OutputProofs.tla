----------------------------- MODULE OutputProofs -----------------------------
(***************************************************************************)
(* For any destinations, numbers and threads: the number that add()        *)
(* returned for a destination means that destination for good, and no two  *)
(* targets stream to one destination.                                      *)
(***************************************************************************)
EXTENDS Output, TLAPS

\* The fields of a target and of a call, so that EXCEPT changes one that exists.
TargetFields == {"key", "sock", "f_kill_thread", "f_streaming", "counted"}
CallFields == {"at", "key", "id", "next", "wait"}

Shapes ==
  /\ \A id \in Live : DOMAIN output_streams[id] = TargetFields
  /\ DOMAIN cmd = CallFields

\* The numbers that were given away lie below num_targets, which an add() that
\* is under way works on.
Numbered ==
  /\ num_targets \in Nat
  /\ \A a \in added : a[1] \in Nat /\ a[1] < num_targets
  /\ cmd.at = "adding" => cmd.id = num_targets

IInv == Shapes /\ Numbered /\ NumberIsForever

-----------------------------------------------------------------------------
LEMMA InitIInv == Init => IInv
BY DEF Init, IInv, Shapes, Numbered, NumberIsForever, Idle, CallFields, Live

\* A target may change in everything but its key.
LEMMA StoreKeeps ==
  ASSUME IInv, NEW id \in Live, NEW t, DOMAIN t = TargetFields, t.key = output_streams[id].key,
         Store(id, t), UNCHANGED <<num_targets, cmd, added>>
  PROVE  IInv'
<1>1. /\ DOMAIN output_streams' = Live
      /\ \A j \in Live : output_streams'[j] = IF j = id THEN t ELSE output_streams[j]
  BY DEF Store, Live
<1>2. \A j \in Live : /\ output_streams'[j].key = output_streams[j].key
                      /\ DOMAIN output_streams'[j] = TargetFields
  BY <1>1 DEF IInv, Shapes
<1> QED
  BY <1>1, <1>2 DEF IInv, Shapes, Numbered, NumberIsForever, Live

\* The add() of num_targets changes that slot, which nobody was told of.
LEMMA SlotKeeps ==
  ASSUME IInv, cmd.at = "adding", NEW open,
         Store(cmd.id, [Slot(cmd.id, cmd.key) EXCEPT !.sock = open])
  PROVE  /\ Live' = Live \cup {cmd.id}
         /\ \A j \in Live' : DOMAIN output_streams'[j] = TargetFields
         /\ output_streams'[cmd.id].key = cmd.key
         /\ \A j \in Live : j # cmd.id => output_streams'[j] = output_streams[j]
<1> DEFINE slot == Slot(cmd.id, cmd.key)
           t == [slot EXCEPT !.sock = open]
<1>1. DOMAIN slot = TargetFields /\ slot.key = cmd.key
  BY DEF IInv, Shapes, Slot, NewTarget, TargetFields
<1> HIDE DEF slot
<1>2. DOMAIN t = TargetFields /\ t.key = cmd.key
  BY <1>1 DEF TargetFields
<1>3. Store(cmd.id, t)
  BY DEF slot
<1> HIDE DEF t
<1>4. /\ DOMAIN output_streams' = Live \cup {cmd.id}
      /\ \A j \in Live \cup {cmd.id} :
           output_streams'[j] = IF j = cmd.id THEN t ELSE output_streams[j]
  BY <1>3 DEF Store
<1> QED
  BY <1>2, <1>4 DEF IInv, Shapes, Live

-----------------------------------------------------------------------------
(* The steps.                                                              *)

LEMMA AddCallKeeps ==
  ASSUME IInv, NEW k \in Keys, AddCall(k)
  PROVE  IInv'
<1>1. \/ \E id : cmd' = Starting(k, id)
      \/ cmd' = [Idle EXCEPT !.at = "adding", !.key = k, !.id = num_targets]
  BY DEF AddCall
<1>2. ASSUME NEW id, cmd' = Starting(k, id)
      PROVE  DOMAIN cmd' = CallFields /\ cmd'.at # "adding"
  BY <1>2 DEF Starting, CallFields
<1>3. ASSUME cmd' = [Idle EXCEPT !.at = "adding", !.key = k, !.id = num_targets]
      PROVE  DOMAIN cmd' = CallFields /\ cmd'.id = num_targets
  BY <1>3 DEF Idle, CallFields
<1>4. DOMAIN cmd' = CallFields /\ (cmd'.at = "adding" => cmd'.id = num_targets)
  BY <1>1, <1>2, <1>3
<1> QED
  BY <1>4 DEF AddCall, IInv, Shapes, Numbered, NumberIsForever, Live

LEMMA AddDoneKeeps == IInv /\ AddDone => IInv'
<1> SUFFICES ASSUME IInv, AddDone PROVE IInv'
  OBVIOUS
<1> DEFINE slot == Slot(cmd.id, cmd.key)
           open == slot.sock \/ cmd.key \notin Callbacks
<1>1. cmd.at = "adding" /\ cmd.id = num_targets
  BY DEF AddDone, IInv, Numbered
<1>2. DOMAIN slot = TargetFields
  BY DEF IInv, Shapes, Slot, NewTarget, TargetFields
<1>3. Store(cmd.id, [slot EXCEPT !.sock = open])
  BY <1>2 DEF AddDone, TargetFields
<1> HIDE DEF open
<1>4. /\ Live' = Live \cup {cmd.id}
      /\ \A j \in Live' : DOMAIN output_streams'[j] = TargetFields
      /\ output_streams'[cmd.id].key = cmd.key
      /\ \A j \in Live : j # cmd.id => output_streams'[j] = output_streams[j]
  BY <1>1, <1>3, SlotKeeps
<1>5. /\ num_targets' = num_targets + 1
      /\ cmd' = Starting(cmd.key, cmd.id)
      /\ added' = added \cup {<<cmd.id, cmd.key>>}
  BY DEF AddDone
<1>6. Shapes'
  BY <1>4, <1>5 DEF Shapes, Starting, CallFields
<1>7. Numbered'
  BY <1>1, <1>5 DEF IInv, Numbered, Starting
<1>8. \A a \in added : a[1] # cmd.id
  BY <1>1 DEF IInv, Numbered
<1>9. \A a \in added : a[1] \in Live' => output_streams'[a[1]].key = a[2]
  BY <1>4, <1>8 DEF IInv, NumberIsForever
<1>10. NumberIsForever'
  BY <1>4, <1>5, <1>8, <1>9 DEF IInv, NumberIsForever
<1> QED
  BY <1>6, <1>7, <1>10 DEF IInv

LEMMA AddFailsKeeps == IInv /\ AddFails => IInv'
<1> SUFFICES ASSUME IInv, AddFails PROVE IInv'
  OBVIOUS
<1>1. cmd.at = "adding" /\ cmd.id = num_targets
  BY DEF AddFails, IInv, Numbered
<1>2. PICK open \in BOOLEAN : Store(cmd.id, [Slot(cmd.id, cmd.key) EXCEPT !.sock = open])
  BY DEF AddFails
<1>3. /\ Live' = Live \cup {cmd.id}
      /\ \A j \in Live' : DOMAIN output_streams'[j] = TargetFields
      /\ \A j \in Live : j # cmd.id => output_streams'[j] = output_streams[j]
  BY <1>1, <1>2, SlotKeeps
<1>4. cmd' = Idle /\ num_targets' = num_targets /\ added' = added
  BY DEF AddFails
<1>5. \A a \in added : a[1] # cmd.id
  BY <1>1 DEF IInv, Numbered
<1>6. \A a \in added : a[1] \in Live' => output_streams'[a[1]].key = a[2]
  BY <1>3, <1>5 DEF IInv, NumberIsForever
<1> QED
  BY <1>3, <1>4, <1>6 DEF IInv, Shapes, Numbered, NumberIsForever, Idle, CallFields

\* start(), the end of a call and stop(): no key and no number changes.
LEMMA CommandKeeps ==
  ASSUME IInv, \/ Start \/ AddReturn \/ StopReturn
               \/ \E S \in SUBSET Live : StopCall(S)
  PROVE  IInv'
<1>1. CASE Start
  <2>1. cmd' = [cmd EXCEPT !.next = From(cmd.next) + 1]
    BY <1>1 DEF Start
  <2>2. DOMAIN cmd' = CallFields /\ cmd'.at = cmd.at /\ cmd'.id = cmd.id
    BY <2>1 DEF IInv, Shapes, CallFields
  <2> QED
    BY <1>1, <2>2 DEF Start, IInv, Shapes, Numbered, NumberIsForever, Live
<1>2. CASE AddReturn
  BY <1>2 DEF AddReturn, IInv, Shapes, Numbered, NumberIsForever, Live, Idle, CallFields
<1>3. CASE StopReturn
  BY <1>3 DEF StopReturn, IInv, Shapes, Numbered, NumberIsForever, Live, Idle, CallFields
<1>4. ASSUME NEW S \in SUBSET Live, StopCall(S) PROVE IInv'
  <2>1. /\ DOMAIN output_streams' = Live
        /\ \A id \in Live : output_streams'[id] =
             [output_streams[id] EXCEPT !.f_kill_thread = @ \/ id \in S]
    BY <1>4 DEF StopCall
  <2>2. \A id \in Live : /\ DOMAIN output_streams'[id] = TargetFields
                         /\ output_streams'[id].key = output_streams[id].key
    BY <2>1 DEF IInv, Shapes, TargetFields
  <2>3. DOMAIN cmd' = CallFields /\ cmd'.at = "stopping"
    BY <1>4 DEF StopCall, Idle, CallFields
  <2>4. num_targets' = num_targets /\ added' = added /\ Live' = Live
    BY <1>4, <2>1 DEF StopCall, Live
  <2>5. Shapes'
    BY <2>2, <2>3, <2>4 DEF Shapes
  <2>6. Numbered'
    BY <2>3, <2>4 DEF IInv, Numbered
  <2>7. NumberIsForever'
    BY <2>2, <2>4 DEF IInv, NumberIsForever
  <2> QED
    BY <2>5, <2>6, <2>7 DEF IInv
<1> QED
  BY <1>1, <1>2, <1>3, <1>4

\* The threads of the targets.
LEMMA RunKeeps ==
  ASSUME IInv, NEW i, NEW id, Run(i, id) \/ StreamFails(i, id)
  PROVE  IInv'
<1>1. CASE HeaderFails(i, id)
  BY <1>1 DEF HeaderFails, IInv, Shapes, Numbered, NumberIsForever, Live
<1>2. CASE BeginStreaming(i, id)
  <2> DEFINE t == [output_streams[id] EXCEPT !.f_streaming = TRUE]
  <2>1. id \in Live /\ Store(id, t) /\ UNCHANGED <<num_targets, cmd, added>>
    BY <1>2 DEF BeginStreaming, Goto
  <2>2. DOMAIN t = TargetFields /\ t.key = output_streams[id].key
    BY <2>1 DEF IInv, Shapes, TargetFields
  <2> QED
    BY <2>1, <2>2, StoreKeeps
<1>3. CASE EndStreaming(i, id)
  <2> DEFINE t == [output_streams[id] EXCEPT !.f_streaming = FALSE]
  <2>1. id \in Live /\ Store(id, t) /\ UNCHANGED <<num_targets, cmd, added>>
    BY <1>3 DEF EndStreaming, Goto
  <2>2. DOMAIN t = TargetFields /\ t.key = output_streams[id].key
    BY <2>1 DEF IInv, Shapes, TargetFields
  <2> QED
    BY <2>1, <2>2, StoreKeeps
<1>4. CASE CloseFile(i, id)
  <2> DEFINE t == [output_streams[id] EXCEPT !.sock = FALSE]
  <2>1. id \in Live /\ Store(id, t) /\ UNCHANGED <<num_targets, cmd, added>>
    BY <1>4 DEF CloseFile, Goto
  <2>2. DOMAIN t = TargetFields /\ t.key = output_streams[id].key
    BY <2>1 DEF IInv, Shapes, TargetFields
  <2> QED
    BY <2>1, <2>2, StoreKeeps
<1>5. CASE StreamFails(i, id)
  <2> DEFINE t == [output_streams[id] EXCEPT !.f_kill_thread = TRUE]
  <2>1. id \in Live /\ Store(id, t) /\ UNCHANGED <<num_targets, cmd, added>>
    BY <1>5 DEF StreamFails, Goto
  <2>2. DOMAIN t = TargetFields /\ t.key = output_streams[id].key
    BY <2>1 DEF IInv, Shapes, TargetFields
  <2> QED
    BY <2>1, <2>2, StoreKeeps
<1> QED
  BY <1>1, <1>2, <1>3, <1>4, <1>5 DEF Run

LEMMA PushKeeps == IInv /\ Push => IInv'
<1> SUFFICES ASSUME IInv, Push PROVE IInv'
  OBVIOUS
<1>1. CASE PushCall \/ PushVisit
  BY <1>1 DEF PushCall, PushVisit, IInv, Shapes, Numbered, NumberIsForever, Live
<1>2. CASE PushInto
  <2>1. CASE feed.id \in Live
    <3> DEFINE t == [output_streams[feed.id] EXCEPT !.counted = TRUE]
    <3>1. Store(feed.id, t) /\ UNCHANGED <<num_targets, cmd, added>>
      BY <1>2, <2>1 DEF PushInto
    <3>2. DOMAIN t = TargetFields /\ t.key = output_streams[feed.id].key
      BY <2>1 DEF IInv, Shapes, TargetFields
    <3> QED
      BY <2>1, <3>1, <3>2, StoreKeeps
  <2>2. CASE feed.id \notin Live
    BY <1>2, <2>2 DEF PushInto, IInv, Shapes, Numbered, NumberIsForever, Live
  <2> QED
    BY <2>1, <2>2
<1> QED
  BY <1>1, <1>2 DEF Push

\* Erasing a target gives no number back.
LEMMA MonitorKeeps == IInv /\ Monitor => IInv'
<1> SUFFICES ASSUME IInv, Monitor PROVE IInv'
  OBVIOUS
<1>1. CASE Check \/ CheckDone
  BY <1>1 DEF Check, CheckDone, IInv, Shapes, Numbered, NumberIsForever, Live
<1>2. CASE Reclaim
  <2>1. PICK id \in Live : Erase(id)
    BY <1>2 DEF Reclaim
  <2>2. /\ DOMAIN output_streams' = Live \ {id}
        /\ \A j \in Live \ {id} : output_streams'[j] = output_streams[j]
    BY <2>1 DEF Erase
  <2> QED
    BY <1>2, <2>2 DEF Reclaim, IInv, Shapes, Numbered, NumberIsForever, Live
<1> QED
  BY <1>1, <1>2 DEF Monitor

-----------------------------------------------------------------------------
LEMMA StepIInv == IInv /\ [Next]_vars => IInv'
<1> SUFFICES ASSUME IInv, [Next]_vars PROVE IInv'
  OBVIOUS
<1>1. CASE UNCHANGED vars
  BY <1>1 DEF vars, IInv, Shapes, Numbered, NumberIsForever, Live
<1>2. CASE Command
  BY <1>2, AddCallKeeps, AddDoneKeeps, AddFailsKeeps, CommandKeeps DEF Command
<1>3. CASE Push \/ Monitor
  BY <1>3, PushKeeps, MonitorKeeps
<1>4. ASSUME NEW i \in Threads, NEW id \in Ids, Run(i, id) \/ StreamFails(i, id) PROVE IInv'
  BY <1>4, RunKeeps
<1> QED
  BY <1>1, <1>2, <1>3, <1>4 DEF Next

\* Neither an add() that fails nor the erasure of dead targets gives a number of
\* output::add() a second meaning, for any number of targets and threads.
THEOREM NumbersStay == Spec => []NumberIsForever
<1>1. IInv => NumberIsForever
  BY DEF IInv
<1> QED
  BY <1>1, InitIInv, StepIInv, PTL DEF Spec

-----------------------------------------------------------------------------
(* One target for a destination.                                           *)

\* search() would find a target at most for a key, and none for the key that an
\* add() is about to store.
Single ==
  /\ \A k \in Keys : \A a, b \in search(k) : a = b
  /\ \A id \in Live : output_streams[id].key \in Keys
  /\ cmd.at = "adding" => cmd.key \in Keys /\ search(cmd.key) = {}

\* No target begins to answer to a key, and no add() begins.
LEMMA Narrows ==
  ASSUME Single,
         \A id \in Live' : /\ id \in Live
                           /\ output_streams'[id].key = output_streams[id].key
                           /\ output_streams'[id].sock => output_streams[id].sock,
         cmd'.at = "adding" => cmd.at = "adding" /\ cmd'.key = cmd.key
  PROVE  Single'
<1>1. \A k : search(k)' \subseteq search(k)
  BY DEF search, verify
<1> QED
  BY <1>1 DEF Single

LEMMA StoreNarrows ==
  ASSUME Single, NEW id \in Live, NEW t, t.key = output_streams[id].key,
         t.sock => output_streams[id].sock, Store(id, t), cmd' = cmd
  PROVE  Single'
<1>1. /\ DOMAIN output_streams' = Live
      /\ \A j \in Live : output_streams'[j] = IF j = id THEN t ELSE output_streams[j]
  BY DEF Store, Live
<1> QED
  BY <1>1, Narrows DEF Live

\* add() has found that nobody answers to the key that it stores.
LEMMA SlotIsSingle ==
  ASSUME IInv, Single, cmd.at = "adding", cmd'.at # "adding", NEW open,
         Store(cmd.id, [Slot(cmd.id, cmd.key) EXCEPT !.sock = open])
  PROVE  Single'
<1>1. /\ Live' = Live \cup {cmd.id}
      /\ output_streams'[cmd.id].key = cmd.key
      /\ \A j \in Live : j # cmd.id => output_streams'[j] = output_streams[j]
  BY SlotKeeps
<1>2. \A j \in Live' : output_streams'[j].key \in Keys
  BY <1>1 DEF Single
<1>3. \A k : search(k)' \subseteq search(k) \cup {cmd.id}
  BY <1>1 DEF search, verify
<1>4. \A k : cmd.id \in search(k)' => k = cmd.key
  BY <1>1 DEF search, verify
<1>5. ASSUME NEW k \in Keys, NEW a \in search(k)', NEW b \in search(k)'
      PROVE  a = b
  <2>1. CASE k = cmd.key
    BY <1>3, <1>5, <2>1 DEF Single
  <2>2. CASE k # cmd.key
    BY <1>3, <1>4, <1>5, <2>2 DEF Single
  <2> QED
    BY <2>1, <2>2
<1> QED
  BY <1>2, <1>5 DEF Single

LEMMA CommandIsSingle ==
  ASSUME IInv, Single, Command
  PROVE  Single'
<1>1. ASSUME NEW k \in Keys, AddCall(k) PROVE Single'
  <2>1. UNCHANGED output_streams /\ cmd.at = "idle"
    BY <1>1 DEF AddCall
  <2>2. CASE search(k) # {}
    <3>1. cmd'.at # "adding"
      BY <1>1, <2>2 DEF AddCall, Starting
    <3> QED
      BY <2>1, <3>1, Narrows DEF Live
  <2>3. CASE search(k) = {}
    <3>1. cmd' = [Idle EXCEPT !.at = "adding", !.key = k, !.id = num_targets]
      BY <1>1, <2>3 DEF AddCall
    <3>2. cmd'.key = k
      BY <3>1 DEF Idle
    <3>3. \A j : search(j)' = search(j)
      BY <2>1 DEF search, verify, Live
    <3>4. \A id \in Live' : output_streams'[id].key \in Keys
      BY <2>1 DEF Single, Live
    <3>5. search(cmd.key)' = {}
      BY <2>3, <3>2, <3>3
    <3> QED
      BY <3>2, <3>3, <3>4, <3>5 DEF Single
  <2> QED
    BY <2>2, <2>3
<1>2. CASE AddDone
  <2> DEFINE slot == Slot(cmd.id, cmd.key)
             open == slot.sock \/ cmd.key \notin Callbacks
  <2>1. DOMAIN slot = TargetFields
    BY DEF IInv, Shapes, Slot, NewTarget, TargetFields
  <2>2. Store(cmd.id, [slot EXCEPT !.sock = open])
    BY <1>2, <2>1 DEF AddDone, TargetFields
  <2>3. cmd.at = "adding" /\ cmd'.at # "adding"
    BY <1>2 DEF AddDone, Starting
  <2> HIDE DEF open
  <2> QED
    BY <2>2, <2>3, SlotIsSingle
<1>3. CASE AddFails
  <2>1. PICK open \in BOOLEAN : Store(cmd.id, [Slot(cmd.id, cmd.key) EXCEPT !.sock = open])
    BY <1>3 DEF AddFails
  <2>2. cmd.at = "adding" /\ cmd'.at # "adding"
    BY <1>3 DEF AddFails, Idle
  <2> QED
    BY <2>1, <2>2, SlotIsSingle
<1>4. CASE Start
  <2>1. cmd' = [cmd EXCEPT !.next = From(cmd.next) + 1] /\ UNCHANGED output_streams
    BY <1>4 DEF Start
  <2>2. cmd'.at = cmd.at /\ cmd'.key = cmd.key
    BY <2>1 DEF IInv, Shapes, CallFields
  <2> QED
    BY <2>1, <2>2, Narrows DEF Live
<1>5. CASE AddReturn \/ StopReturn
  BY <1>5, Narrows DEF AddReturn, StopReturn, Idle, Live
<1>6. ASSUME NEW S, StopCall(S) PROVE Single'
  <2>1. /\ DOMAIN output_streams' = Live
        /\ \A id \in Live : output_streams'[id] =
             [output_streams[id] EXCEPT !.f_kill_thread = @ \/ id \in S]
    BY <1>6 DEF StopCall
  <2>2. \A id \in Live : /\ output_streams'[id].key = output_streams[id].key
                         /\ output_streams'[id].sock = output_streams[id].sock
    BY <2>1 DEF IInv, Shapes, TargetFields
  <2>3. cmd'.at # "adding"
    BY <1>6 DEF StopCall, Idle
  <2> QED
    BY <2>1, <2>2, <2>3, Narrows DEF Live
<1> QED
  BY <1>1, <1>2, <1>3, <1>4, <1>5, <1>6 DEF Command

LEMMA StepSingle == IInv /\ Single /\ [Next]_vars => Single'
<1> SUFFICES ASSUME IInv, Single, [Next]_vars PROVE Single'
  OBVIOUS
<1>1. CASE UNCHANGED vars \/ PushCall \/ PushVisit \/ Check \/ CheckDone
  BY <1>1, Narrows DEF vars, PushCall, PushVisit, Check, CheckDone, Live
<1>2. CASE Command
  BY <1>2, CommandIsSingle
<1>3. CASE PushInto
  <2>1. CASE feed.id \in Live
    <3> DEFINE t == [output_streams[feed.id] EXCEPT !.counted = TRUE]
    <3>1. Store(feed.id, t) /\ cmd' = cmd
      BY <1>3, <2>1 DEF PushInto
    <3>2. t.key = output_streams[feed.id].key /\ t.sock = output_streams[feed.id].sock
      BY <2>1 DEF IInv, Shapes, TargetFields
    <3> QED
      BY <2>1, <3>1, <3>2, StoreNarrows
  <2>2. CASE feed.id \notin Live
    BY <1>3, <2>2, Narrows DEF PushInto, Live
  <2> QED
    BY <2>1, <2>2
<1>4. CASE Reclaim
  <2>1. PICK id \in Live : Erase(id)
    BY <1>4 DEF Reclaim
  <2>2. cmd' = cmd /\ DOMAIN output_streams' = Live \ {id}
        /\ \A j \in Live \ {id} : output_streams'[j] = output_streams[j]
    BY <1>4, <2>1 DEF Reclaim, Erase
  <2> QED
    BY <2>2, Narrows DEF Live
<1>5. ASSUME NEW i \in Threads, NEW id \in Ids, Run(i, id) \/ StreamFails(i, id) PROVE Single'
  <2>1. CASE HeaderFails(i, id)
    BY <2>1, Narrows DEF HeaderFails, Live
  <2>2. ASSUME id \in Live, cmd' = cmd,
               \/ Store(id, [output_streams[id] EXCEPT !.f_streaming = TRUE])
               \/ Store(id, [output_streams[id] EXCEPT !.f_streaming = FALSE])
               \/ Store(id, [output_streams[id] EXCEPT !.f_kill_thread = TRUE])
        PROVE  Single'
    <3>1. PICK t : /\ Store(id, t)
                   /\ \/ t = [output_streams[id] EXCEPT !.f_streaming = TRUE]
                      \/ t = [output_streams[id] EXCEPT !.f_streaming = FALSE]
                      \/ t = [output_streams[id] EXCEPT !.f_kill_thread = TRUE]
      BY <2>2
    <3>2. t.key = output_streams[id].key /\ t.sock = output_streams[id].sock
      BY <2>2, <3>1 DEF IInv, Shapes, TargetFields
    <3> QED
      BY <2>2, <3>1, <3>2, StoreNarrows
  <2>3. CASE BeginStreaming(i, id) \/ EndStreaming(i, id) \/ StreamFails(i, id)
    BY <2>2, <2>3 DEF BeginStreaming, EndStreaming, StreamFails, Goto
  <2>4. CASE CloseFile(i, id)
    <3> DEFINE t == [output_streams[id] EXCEPT !.sock = FALSE]
    <3>1. id \in Live /\ Store(id, t) /\ cmd' = cmd
      BY <2>4 DEF CloseFile, Goto
    <3>2. t.key = output_streams[id].key /\ ~t.sock
      BY <3>1 DEF IInv, Shapes, TargetFields
    <3> QED
      BY <3>1, <3>2, StoreNarrows
  <2> QED
    BY <1>5, <2>1, <2>3, <2>4 DEF Run
<1> QED
  BY <1>1, <1>2, <1>3, <1>4, <1>5 DEF Next, Push, Monitor

\* A target that reaches its destination is one that search() finds.
LEMMA SingleIsOnce == Single => StreamsOnce
<1> SUFFICES ASSUME Single, NEW a \in Live, NEW b \in Live,
                    output_streams[a].key = output_streams[b].key,
                    reaches(output_streams[a]), reaches(output_streams[b])
             PROVE  a = b
  BY DEF StreamsOnce
<1>1. output_streams[a].key \in Keys
  BY DEF Single
<1>2. a \in search(output_streams[a].key) /\ b \in search(output_streams[a].key)
  BY OutputAssumption DEF search, verify, reaches
<1> QED
  BY <1>1, <1>2 DEF Single

\* A packet is given once to a destination: whatever is added again after it
\* ended, failed or was erased, two targets never stream to one destination
\* (output.cpp: output::search, add).
THEOREM OncePerDestination == Spec => []StreamsOnce
<1>1. Init => IInv /\ Single
  BY InitIInv DEF Init, Single, search, Live, Idle
<1>2. (IInv /\ Single) /\ [Next]_vars => (IInv /\ Single)'
  BY StepIInv, StepSingle
<1>3. IInv /\ Single => StreamsOnce
  BY SingleIsOnce
<1> QED
  BY <1>1, <1>2, <1>3, PTL DEF Spec
=============================================================================
