------------------------- MODULE HandleEventsProofs -------------------------
(***************************************************************************)
(* Theorems of HandleEvents: type correctness, that a suspended await_mode *)
(* neither panics nor misses a mode, and that the monitor task abandons    *)
(* nothing.  Each holds for any number of connections, waiters, modes and  *)
(* buffers, for channels of any capacity, and without the bound on modes.  *)
(***************************************************************************)
EXTENDS HandleEvents, SequenceTheorems, TLAPS

\* Moving one await_mode call to a state of its own.
LEMMA SetModePcType ==
  ASSUME TypeOK, NEW c \in Conns, NEW w \in Waiters,
         NEW pc \in {"idle", "checked", "waiting"} \cup AwaitResults,
         SetModePc(c, w, pc)
  PROVE  modePc' \in [Conns -> [Waiters -> {"idle", "checked", "waiting"} \cup AwaitResults]]
BY DEF TypeOK, SetModePc

\* Taking the first event off a connection's channel.
LEMMA TakeType ==
  ASSUME TypeOK, NEW c \in Conns, channel[c] # <<>>, Take(c)
  PROVE  /\ channel' \in [Conns -> Seq(Event)]
         /\ \A d \in Conns : Len(channel'[d]) <= EventCap
         /\ Head(channel[c]) \in Event
<1>1. channel[c] \in Seq(Event)
  BY DEF TypeOK
<1>2. /\ Tail(channel[c]) \in Seq(Event)
      /\ Head(channel[c]) \in Event
      /\ Len(Tail(channel[c])) = Len(channel[c]) - 1
      /\ Len(channel[c]) \in Nat
  BY <1>1, HeadTailProperties, LenProperties
<1>3. channel' = [channel EXCEPT ![c] = Tail(channel[c])]
  BY DEF Take
<1>4. channel' \in [Conns -> Seq(Event)]
  BY <1>2, <1>3 DEF TypeOK
<1>5. ASSUME NEW d \in Conns PROVE Len(channel'[d]) <= EventCap
  BY <1>2, <1>3, HandleEventsAssumption DEF TypeOK, HandleEventsAssumption
<1> QED
  BY <1>2, <1>4, <1>5

\* Broadcasting an id, to a receiver that may be full.
LEMMA BroadcastType ==
  ASSUME TypeOK, NEW c \in Conns, NEW id \in BufferIds, Broadcast(c, id)
  PROVE  /\ inbox' \in [Conns -> Seq(BufferIds)]
         /\ \A d \in Conns : Len(inbox'[d]) <= UpdateCap
         /\ lagged' \in [Conns -> BOOLEAN]
<1> DEFINE full == Len(inbox[c]) = UpdateCap
           kept == IF full THEN Tail(inbox[c]) ELSE inbox[c]
<1>1. inbox[c] \in Seq(BufferIds) /\ Len(inbox[c]) \in Nat /\ Len(inbox[c]) <= UpdateCap
  BY LenProperties DEF TypeOK
<1>2. UpdateCap \in Nat \ {0}
  BY HandleEventsAssumption DEF HandleEventsAssumption
<1>3. kept \in Seq(BufferIds) /\ Len(kept) \in Nat /\ Len(kept) < UpdateCap
  <2>1. CASE full
    <3>1. inbox[c] # <<>>
      BY <1>1, <1>2, <2>1, EmptySeq
    <3>2. Tail(inbox[c]) \in Seq(BufferIds) /\ Len(Tail(inbox[c])) = Len(inbox[c]) - 1
      BY <1>1, <3>1, HeadTailProperties
    <3> QED
      BY <1>1, <1>2, <2>1, <3>2
  <2>2. CASE ~full
    BY <1>1, <1>2, <2>2
  <2> QED
    BY <2>1, <2>2
<1>4. Append(kept, id) \in Seq(BufferIds) /\ Len(Append(kept, id)) <= UpdateCap
  BY <1>2, <1>3, AppendProperties
<1>5. inbox' = [inbox EXCEPT ![c] = Append(kept, id)]
  BY DEF Broadcast
<1>6. lagged' \in [Conns -> BOOLEAN]
  BY DEF Broadcast, TypeOK
<1> HIDE DEF kept
<1>7. inbox' \in [Conns -> Seq(BufferIds)]
  BY <1>4, <1>5 DEF TypeOK
<1>8. ASSUME NEW d \in Conns PROVE Len(inbox'[d]) <= UpdateCap
  BY <1>4, <1>5 DEF TypeOK
<1> QED
  BY <1>6, <1>7, <1>8

\* A call of await_buffer_update that ends leaves an empty receiver behind.
LEMMA EndUpdateType ==
  ASSUME TypeOK, NEW c \in Conns, NEW result \in {"idle"} \cup AwaitResults,
         EndUpdate(c, result), UNCHANGED eventTx
  PROVE  TypeOK'
<1>1. inbox' \in [Conns -> Seq(BufferIds)] /\ \A d \in Conns : Len(inbox'[d]) <= UpdateCap
  <2>1. <<>> \in Seq(BufferIds) /\ Len(<<>>) = 0 /\ UpdateCap \in Nat
    BY EmptySeq, HandleEventsAssumption DEF HandleEventsAssumption
  <2> QED
    BY <2>1 DEF EndUpdate, TypeOK
<1>2. /\ updatePc' \in [Conns -> {"idle", "waiting"} \cup AwaitResults]
      /\ target' \in [Conns -> BufferIds \cup {NoBuffer}]
      /\ lagged' \in [Conns -> BOOLEAN]
  BY DEF EndUpdate, TypeOK
<1> QED
  BY <1>1, <1>2 DEF EndUpdate, TypeOK, monitorVars, modeVars

LEMMA InitType == Init => TypeOK
<1> SUFFICES ASSUME Init PROVE TypeOK
  OBVIOUS
<1>1. <<>> \in Seq(Event) /\ <<>> \in Seq(BufferIds) /\ Len(<<>>) = 0
  BY EmptySeq
<1> QED
  BY <1>1, HandleEventsAssumption DEF Init, TypeOK, HandleEventsAssumption

\* The monitor task's steps.
LEMMA MonitorType ==
  ASSUME TypeOK, NEW c \in Conns, Monitor(c), UNCHANGED eventTx
  PROVE  TypeOK'
<1>1. CASE MonitorMode(c)
  <2>1. Head(channel[c]) \in Modes /\ channel[c] # <<>> /\ Take(c)
    BY <1>1 DEF MonitorMode, Receives
  <2>2. currentMode' \in [Conns -> Modes \cup {NoMode}] /\ modeVersion' \in [Conns -> Nat]
    <3>1. CASE held[c]
      <4>1. /\ currentMode' = [currentMode EXCEPT ![c] = Head(channel[c])]
            /\ modeVersion' = [modeVersion EXCEPT ![c] = modeVersion[c] + 1]
        BY <1>1, <3>1 DEF MonitorMode
      <4> QED
        BY <2>1, <4>1 DEF TypeOK
    <3>2. CASE ~held[c]
      BY <1>1, <3>2 DEF MonitorMode, TypeOK
    <3> QED
      BY <3>1, <3>2
  <2> QED
    BY <1>1, <2>1, <2>2, TakeType DEF MonitorMode, TypeOK, updateVars
<1>2. CASE MonitorUpdate(c)
  <2>1. Head(channel[c]) \in BufferIds /\ channel[c] # <<>> /\ Take(c)
    BY <1>2 DEF MonitorUpdate, Receives
  <2>2. /\ inbox' \in [Conns -> Seq(BufferIds)]
        /\ \A d \in Conns : Len(inbox'[d]) <= UpdateCap
        /\ lagged' \in [Conns -> BOOLEAN]
    <3>1. CASE updatePc[c] = "waiting"
      BY <1>2, <2>1, <3>1, BroadcastType DEF MonitorUpdate
    <3>2. CASE updatePc[c] # "waiting"
      BY <1>2, <3>2 DEF MonitorUpdate, TypeOK
    <3> QED
      BY <3>1, <3>2
  <2> QED
    BY <1>2, <2>1, <2>2, TakeType DEF MonitorUpdate, TypeOK, modeVars
<1>3. CASE MonitorOther(c)
  <2>1. channel[c] # <<>> /\ Take(c)
    BY <1>3 DEF MonitorOther, Receives
  <2> QED
    BY <1>3, <2>1, TakeType DEF MonitorOther, TypeOK, modeVars, updateVars
<1>4. CASE MonitorClosed(c)
  BY <1>4 DEF MonitorClosed, TypeOK, modeVars, updateVars
<1> QED
  BY <1>1, <1>2, <1>3, <1>4 DEF Monitor

\* The steps of one await_mode call.
LEMMA AwaitModeType ==
  ASSUME TypeOK, NEW c \in Conns, NEW w \in Waiters, UNCHANGED eventTx,
         \/ AwaitMode(c, w) \/ SubscribeMode(c, w) \/ ModeChanged(c, w)
         \/ ModeClosed(c, w) \/ ModeTimeout(c, w) \/ ModeCancel(c, w)
  PROVE  TypeOK'
<1>1. modePc' \in [Conns -> [Waiters -> {"idle", "checked", "waiting"} \cup AwaitResults]]
  BY SetModePcType DEF AwaitMode, SubscribeMode, ModeChanged, ModeClosed, ModeTimeout,
       ModeCancel, AwaitResults
<1>2. seen' \in [Conns -> [Waiters -> Nat]]
  <2>1. CASE SubscribeMode(c, w)
    BY <2>1 DEF SubscribeMode, TypeOK
  <2>2. CASE ModeChanged(c, w)
    BY <2>2 DEF ModeChanged, TypeOK
  <2>3. CASE ~SubscribeMode(c, w) /\ ~ModeChanged(c, w)
    BY <2>3 DEF AwaitMode, ModeClosed, ModeTimeout, ModeCancel, TypeOK
  <2> QED
    BY <2>1, <2>2, <2>3
<1>3. UNCHANGED <<monitorVars, held, currentMode, modeVersion, updateVars>>
  BY DEF AwaitMode, SubscribeMode, ModeChanged, ModeClosed, ModeTimeout, ModeCancel
<1> QED
  BY <1>1, <1>2, <1>3 DEF TypeOK, monitorVars, updateVars

\* The steps of one await_buffer_update call.
LEMMA AwaitUpdateType ==
  ASSUME TypeOK, NEW c \in Conns, UNCHANGED eventTx,
         \/ \E id \in BufferIds : SubscribeUpdate(c, id)
         \/ UpdateReturns(c) \/ UpdateSkips(c) \/ UpdateLagged(c)
         \/ UpdateTimeout(c) \/ UpdateCancel(c)
  PROVE  TypeOK'
<1>1. CASE \E id \in BufferIds : SubscribeUpdate(c, id)
  BY <1>1 DEF SubscribeUpdate, TypeOK, monitorVars, modeVars
<1>2. CASE UpdateReturns(c)
  BY <1>2, EndUpdateType DEF UpdateReturns, AwaitResults
<1>3. CASE UpdateSkips(c)
  <2>1. inbox[c] \in Seq(BufferIds) /\ inbox[c] # <<>> /\ Len(inbox[c]) \in Nat
    BY <1>3, LenProperties DEF UpdateSkips, TypeOK
  <2>2. Tail(inbox[c]) \in Seq(BufferIds) /\ Len(Tail(inbox[c])) = Len(inbox[c]) - 1
    BY <2>1, HeadTailProperties
  <2>3. inbox' = [inbox EXCEPT ![c] = Tail(inbox[c])]
    BY <1>3 DEF UpdateSkips
  <2>4. ASSUME NEW d \in Conns PROVE Len(inbox'[d]) <= UpdateCap
    BY <2>1, <2>2, <2>3, HandleEventsAssumption DEF TypeOK, HandleEventsAssumption
  <2>5. inbox' \in [Conns -> Seq(BufferIds)]
    BY <2>2, <2>3 DEF TypeOK
  <2> QED
    BY <1>3, <2>4, <2>5 DEF UpdateSkips, TypeOK, monitorVars, modeVars
<1>4. CASE UpdateLagged(c)
  BY <1>4 DEF UpdateLagged, TypeOK, monitorVars, modeVars
<1>5. CASE UpdateTimeout(c) \/ UpdateCancel(c)
  BY <1>5, EndUpdateType DEF UpdateTimeout, UpdateCancel, AwaitResults
<1> QED
  BY <1>1, <1>2, <1>3, <1>4, <1>5

\* The event loop's end of the channel.
LEMMA SendType ==
  ASSUME TypeOK, NEW c \in Conns, NEW e \in Event, Send(c, e)
  PROVE  TypeOK'
<1>1. channel[c] \in Seq(Event) /\ Len(channel[c]) \in Nat /\ Len(channel[c]) < EventCap
  BY LenProperties DEF Send, TypeOK
<1>2. EventCap \in Nat
  BY HandleEventsAssumption DEF HandleEventsAssumption
<1>3. Append(channel[c], e) \in Seq(Event) /\ Len(Append(channel[c], e)) <= EventCap
  BY <1>1, <1>2, AppendProperties
<1>4. channel' = [channel EXCEPT ![c] = Append(channel[c], e)]
  BY DEF Send
<1>5. channel' \in [Conns -> Seq(Event)] /\ \A d \in Conns : Len(channel'[d]) <= EventCap
  BY <1>3, <1>4 DEF TypeOK
<1> QED
  BY <1>5 DEF Send, TypeOK, modeVars, updateVars

\* The bound of the model only takes steps away.
LEMMA Bounded == Spec => OpenSpec
<1>1. [Next]_vars => [OpenNext]_vars
  BY DEF Next, OpenNext
<1> QED
  BY <1>1, PTL DEF Spec, OpenSpec

LEMMA NextType == TypeOK /\ [OpenNext]_vars => TypeOK'
<1> SUFFICES ASSUME TypeOK, [OpenNext]_vars PROVE TypeOK'
  OBVIOUS
<1>1. ASSUME NEW c \in Conns, Connect(c) PROVE TypeOK'
  BY <1>1 DEF Connect, New, TypeOK, modeVars, updateVars
<1>2. ASSUME NEW c \in Conns, NEW e \in Event, Send(c, e) PROVE TypeOK'
  BY <1>2, SendType
<1>3. ASSUME NEW c \in Conns, LoopEnds(c) PROVE TypeOK'
  BY <1>3 DEF LoopEnds, TypeOK, modeVars, updateVars
<1>4. ASSUME NEW c \in Conns, Step(c), UNCHANGED eventTx PROVE TypeOK'
  <2>1. CASE Drop(c)
    BY <1>4, <2>1 DEF Drop, TypeOK, monitorVars, modeVars, updateVars
  <2>2. CASE Monitor(c)
    BY <1>4, <2>2, MonitorType
  <2>3. ASSUME NEW w \in Waiters,
               \/ AwaitMode(c, w) \/ SubscribeMode(c, w) \/ ModeChanged(c, w)
               \/ ModeClosed(c, w) \/ ModeTimeout(c, w) \/ ModeCancel(c, w)
        PROVE  TypeOK'
    BY <1>4, <2>3, AwaitModeType
  <2>4. CASE \/ \E id \in BufferIds : SubscribeUpdate(c, id)
             \/ UpdateReturns(c) \/ UpdateSkips(c) \/ UpdateLagged(c)
             \/ UpdateTimeout(c) \/ UpdateCancel(c)
    BY <1>4, <2>4, AwaitUpdateType
  <2> QED
    BY <1>4, <2>1, <2>2, <2>3, <2>4 DEF Step
<1>5. CASE UNCHANGED vars
  BY <1>5 DEF vars, TypeOK
<1> QED
  BY <1>1, <1>2, <1>3, <1>4, <1>5 DEF OpenNext

\* Every variable keeps its type, and both channels their capacity: the mpsc
\* channel never holds more than EventCap events, a broadcast receiver never
\* more than UpdateCap ids.
THEOREM TypeCorrect == Spec => []TypeOK
BY InitType, NextType, Bounded, PTL DEF OpenSpec

-----------------------------------------------------------------------------
(* The watch cell.                                                         *)

\* The cell holds no mode exactly as long as nothing was published on it, and a
\* suspended await_mode has seen nothing of it.  The second part is the reason
\* why it need not matter when the receiver was cloned.
WatchInv ==
  /\ \A c \in Conns : modeVersion[c] = 0 <=> currentMode[c] = NoMode
  /\ \A c \in Conns, w \in Waiters : modePc[c][w] = "waiting" => seen[c][w] = 0

LEMMA WatchInvSuffices == TypeOK /\ WatchInv => WatchAgrees
BY DEF TypeOK, WatchInv, WatchAgrees

LEMMA WatchInvInit == Init => WatchInv
BY DEF Init, WatchInv

\* The only step that touches the cell is the publication of a mode.
LEMMA MonitorModeWatch ==
  ASSUME TypeOK, WatchInv, NEW c \in Conns, MonitorMode(c)
  PROVE  WatchInv'
<1>1. Head(channel[c]) \in Modes
  BY DEF MonitorMode, Receives
<1>2. NoMode \notin Modes
  BY HandleEventsAssumption DEF HandleEventsAssumption
<1>3. UNCHANGED <<modePc, seen>>
  BY DEF MonitorMode
<1>4. \A d \in Conns : modeVersion'[d] = 0 <=> currentMode'[d] = NoMode
  <2>1. CASE held[c]
    <3>1. /\ currentMode' = [currentMode EXCEPT ![c] = Head(channel[c])]
          /\ modeVersion' = [modeVersion EXCEPT ![c] = modeVersion[c] + 1]
      BY <2>1 DEF MonitorMode
    <3>2. modeVersion[c] \in Nat
      BY DEF TypeOK
    <3> QED
      BY <1>1, <1>2, <3>1, <3>2 DEF TypeOK, WatchInv
  <2>2. CASE ~held[c]
    BY <2>2 DEF MonitorMode, WatchInv
  <2> QED
    BY <2>1, <2>2
<1> QED
  BY <1>3, <1>4 DEF WatchInv

\* A receiver is cloned from one that stands at 0, and a waiter whose receiver
\* has moved on waits no more.
LEMMA AwaitModeWatch ==
  ASSUME TypeOK, WatchInv, NEW c \in Conns, NEW w \in Waiters,
         \/ AwaitMode(c, w) \/ SubscribeMode(c, w) \/ ModeChanged(c, w)
         \/ ModeClosed(c, w) \/ ModeTimeout(c, w) \/ ModeCancel(c, w)
  PROVE  WatchInv'
<1>1. UNCHANGED <<currentMode, modeVersion>>
  BY DEF AwaitMode, SubscribeMode, ModeChanged, ModeClosed, ModeTimeout, ModeCancel
<1>2. ASSUME NEW d \in Conns, NEW v \in Waiters, modePc'[d][v] = "waiting"
      PROVE  seen'[d][v] = 0
  <2>1. CASE SubscribeMode(c, w)
    <3>1. seen' = [seen EXCEPT ![c][w] = 0] /\ modePc' = [modePc EXCEPT ![c][w] = "waiting"]
      BY <2>1 DEF SubscribeMode, SetModePc
    <3>2. CASE d = c /\ v = w
      BY <3>1, <3>2 DEF TypeOK
    <3>3. CASE ~(d = c /\ v = w)
      BY <1>2, <3>1, <3>3 DEF TypeOK, WatchInv
    <3> QED
      BY <3>2, <3>3
  <2>2. CASE ModeChanged(c, w)
    <3>1. /\ seen' = [seen EXCEPT ![c][w] = modeVersion[c]]
          /\ modePc' = [modePc EXCEPT ![c][w] = "Ok"]
      BY <2>2 DEF ModeChanged, SetModePc
    <3>2. CASE d = c /\ v = w
      BY <1>2, <3>1, <3>2 DEF TypeOK
    <3>3. CASE ~(d = c /\ v = w)
      BY <1>2, <3>1, <3>3 DEF TypeOK, WatchInv
    <3> QED
      BY <3>2, <3>3
  <2>3. CASE ~SubscribeMode(c, w) /\ ~ModeChanged(c, w)
    <3>1. PICK pc \in {"idle", "checked"} \cup AwaitResults :
                 SetModePc(c, w, pc) /\ UNCHANGED seen
      BY <2>3 DEF AwaitMode, ModeClosed, ModeTimeout, ModeCancel, AwaitResults
    <3>2. pc # "waiting" /\ modePc' = [modePc EXCEPT ![c][w] = pc]
      BY <3>1 DEF AwaitResults, SetModePc
    <3>3. ~(d = c /\ v = w)
      BY <1>2, <3>2 DEF TypeOK
    <3>4. modePc[d][v] = "waiting"
      BY <1>2, <3>2, <3>3 DEF TypeOK
    <3> QED
      BY <3>1, <3>4 DEF WatchInv
  <2> QED
    BY <2>1, <2>2, <2>3
<1> QED
  BY <1>1, <1>2 DEF WatchInv

LEMMA WatchInvNext == TypeOK /\ WatchInv /\ [OpenNext]_vars => WatchInv'
<1> SUFFICES ASSUME TypeOK, WatchInv, [OpenNext]_vars PROVE WatchInv'
  OBVIOUS
<1>1. ASSUME NEW c \in Conns, Connect(c) PROVE WatchInv'
  BY <1>1 DEF Connect, New, WatchInv, modeVars
<1>2. ASSUME NEW c \in Conns, NEW e \in Event, Send(c, e) PROVE WatchInv'
  BY <1>2 DEF Send, WatchInv, modeVars
<1>3. ASSUME NEW c \in Conns, LoopEnds(c) PROVE WatchInv'
  BY <1>3 DEF LoopEnds, WatchInv, modeVars
<1>4. ASSUME NEW c \in Conns, Step(c) PROVE WatchInv'
  <2>1. CASE MonitorMode(c)
    BY <2>1, MonitorModeWatch
  <2>2. ASSUME NEW w \in Waiters,
               \/ AwaitMode(c, w) \/ SubscribeMode(c, w) \/ ModeChanged(c, w)
               \/ ModeClosed(c, w) \/ ModeTimeout(c, w) \/ ModeCancel(c, w)
        PROVE  WatchInv'
    BY <2>2, AwaitModeWatch
  <2>3. CASE \/ Drop(c) \/ MonitorUpdate(c) \/ MonitorOther(c) \/ MonitorClosed(c)
             \/ \E id \in BufferIds : SubscribeUpdate(c, id)
             \/ UpdateReturns(c) \/ UpdateSkips(c) \/ UpdateLagged(c)
             \/ UpdateTimeout(c) \/ UpdateCancel(c)
    <3>1. UNCHANGED modeVars
      BY <2>3 DEF Drop, MonitorUpdate, MonitorOther, MonitorClosed, SubscribeUpdate,
           UpdateReturns, UpdateSkips, UpdateLagged, UpdateTimeout, UpdateCancel, EndUpdate
    <3> QED
      BY <3>1 DEF WatchInv, modeVars
  <2> QED
    BY <1>4, <2>1, <2>2, <2>3 DEF Step, Monitor
<1>5. CASE UNCHANGED vars
  BY <1>5 DEF vars, WatchInv
<1> QED
  BY <1>1, <1>2, <1>3, <1>4, <1>5 DEF OpenNext

\* A suspended await_mode is woken if and only if a mode is there to return:
\* its expect("Can never be none after being changed") never panics, and no mode
\* is missed between the check of the cache and the clone of the receiver.
THEOREM WatchCorrect == Spec => []WatchAgrees
BY InitType, NextType, WatchInvInit, WatchInvNext, WatchInvSuffices, Bounded, PTL DEF OpenSpec

-----------------------------------------------------------------------------
(* The end of the monitor task.                                            *)

LEMMA NothingAbandonedNext == TypeOK /\ NothingAbandoned /\ [OpenNext]_vars => NothingAbandoned'
<1> SUFFICES ASSUME TypeOK, NothingAbandoned, [OpenNext]_vars,
                    NEW d \in Conns, monitor'[d] = "done"
             PROVE  channel'[d] = <<>> /\ eventTx'[d] = FALSE
  BY DEF NothingAbandoned
<1>1. ASSUME NEW c \in Conns, Connect(c) PROVE channel'[d] = <<>> /\ eventTx'[d] = FALSE
  BY <1>1 DEF Connect, New, TypeOK, NothingAbandoned
<1>2. ASSUME NEW c \in Conns, NEW e \in Event, Send(c, e)
      PROVE  channel'[d] = <<>> /\ eventTx'[d] = FALSE
  BY <1>2 DEF Send, TypeOK, NothingAbandoned
<1>3. ASSUME NEW c \in Conns, LoopEnds(c) PROVE channel'[d] = <<>> /\ eventTx'[d] = FALSE
  BY <1>3 DEF LoopEnds, TypeOK, NothingAbandoned
<1>4. ASSUME NEW c \in Conns, Step(c), UNCHANGED eventTx
      PROVE  channel'[d] = <<>> /\ eventTx'[d] = FALSE
  <2>1. CASE MonitorMode(c) \/ MonitorUpdate(c) \/ MonitorOther(c)
    BY <1>4, <2>1 DEF MonitorMode, MonitorUpdate, MonitorOther, Receives, Take, TypeOK,
         NothingAbandoned
  <2>2. CASE MonitorClosed(c)
    BY <1>4, <2>2 DEF MonitorClosed, TypeOK, NothingAbandoned
  <2>3. CASE UNCHANGED monitorVars
    BY <1>4, <2>3 DEF monitorVars, TypeOK, NothingAbandoned
  <2>4. ASSUME NEW w \in Waiters,
               \/ AwaitMode(c, w) \/ SubscribeMode(c, w) \/ ModeChanged(c, w)
               \/ ModeClosed(c, w) \/ ModeTimeout(c, w) \/ ModeCancel(c, w)
        PROVE  UNCHANGED monitorVars
    BY <2>4 DEF AwaitMode, SubscribeMode, ModeChanged, ModeClosed, ModeTimeout, ModeCancel
  <2>5. CASE \/ Drop(c)
             \/ \E id \in BufferIds : SubscribeUpdate(c, id)
             \/ UpdateReturns(c) \/ UpdateSkips(c) \/ UpdateLagged(c)
             \/ UpdateTimeout(c) \/ UpdateCancel(c)
    <3>1. UNCHANGED monitorVars
      BY <2>5 DEF Drop, SubscribeUpdate, UpdateReturns, UpdateSkips, UpdateLagged,
           UpdateTimeout, UpdateCancel, EndUpdate
    <3> QED
      BY <2>3, <3>1
  <2> QED
    BY <1>4, <2>1, <2>2, <2>3, <2>4, <2>5 DEF Step, Monitor
<1>5. CASE UNCHANGED vars
  BY <1>5 DEF vars, NothingAbandoned
<1> QED
  BY <1>1, <1>2, <1>3, <1>4, <1>5 DEF OpenNext

\* When the monitor task is done, every event that was sent has been dispatched
\* and none can come: the loop that owns the sender is over.
THEOREM MonitorAbandonsNothing == Spec => []NothingAbandoned
<1>1. Init => NothingAbandoned
  BY DEF Init, NothingAbandoned
<1> QED
  BY <1>1, InitType, NextType, NothingAbandonedNext, Bounded, PTL DEF OpenSpec

\* All of this holds in every composition that takes no steps but these: Handle
\* is one (HandleProofs, EventsCorrect).
THEOREM OpenCorrect == OpenSpec => [](TypeOK /\ WatchAgrees /\ NothingAbandoned)
<1>1. Init => NothingAbandoned
  BY DEF Init, NothingAbandoned
<1> QED
  BY <1>1, InitType, NextType, WatchInvInit, WatchInvNext, WatchInvSuffices,
     NothingAbandonedNext, PTL DEF OpenSpec
=============================================================================
