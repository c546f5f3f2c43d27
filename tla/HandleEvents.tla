---------------------------- MODULE HandleEvents ----------------------------
(***************************************************************************)
(* events.rs: what a connected handle does with the events its event loop  *)
(* sends.  A monitor task takes events off the mpsc channel and publishes  *)
(* modes on a `watch` cell and update notices on a `broadcast` channel;    *)
(* await_mode waits on the first, await_buffer_update on the second.       *)
(*                                                                         *)
(* Every variable is a function of the connection, because                 *)
(* Handle::disconnect leaks the old HandleEvents and a later connect makes *)
(* a new one beside it.  Actions are the finest steps a multi-threaded     *)
(* tokio runtime can interleave.                                           *)
(*                                                                         *)
(* Data kept: which mode, which buffer id.  The five event kinds that the  *)
(* monitor ignores are the single value Other.                             *)
(***************************************************************************)
EXTENDS Naturals, Sequences

CONSTANTS
  Conns,       \* connections: one per call of UnconnectedHandle::connect
  Waiters,     \* tasks that may call await_mode on the same handle at once
  Modes,       \* modes the kernel may announce
  BufferIds,   \* buffer ids
  Other,       \* any event the monitor ignores
  NoMode,      \* None, as a mode
  NoBuffer,    \* no buffer id
  EventCap,    \* capacity of the mpsc channel (16 in the code)
  UpdateCap,   \* capacity of the broadcast channel (16 in the code)
  MaxModes     \* bound of the model: modes one connection announces

ASSUME HandleEventsAssumption ==
  /\ EventCap \in Nat \ {0}
  /\ UpdateCap \in Nat \ {0}
  /\ MaxModes \in Nat
  /\ NoMode \notin Modes
  /\ NoBuffer \notin BufferIds
  /\ Modes \cap BufferIds = {}
  /\ Other \notin Modes \cup BufferIds

VARIABLES
  channel,      \* the mpsc channel: events sent and not yet taken
  eventTx,      \* its sender, owned by the event loop, still exists
  monitor,      \* the monitor task: "none" before it is spawned
  held,         \* the HandleEvents value has not been dropped
  currentMode,  \* the watch cell's value
  modeVersion,  \* the watch cell's version
  modePc,       \* each await_mode call: where it is, or what it returned
  seen,         \* the version its cloned receiver last saw
  updatePc,     \* the await_buffer_update call: where it is, or its result
  target,       \* the buffer that call waits for
  inbox,        \* its broadcast receiver's unread ids
  lagged        \* that receiver has been overrun since it last read

monitorVars == <<channel, monitor>>
modeVars    == <<currentMode, modeVersion, modePc, seen>>
updateVars  == <<updatePc, target, inbox, lagged>>
vars == <<channel, eventTx, monitor, held, currentMode, modeVersion,
          modePc, seen, updatePc, target, inbox, lagged>>

Event == Modes \cup BufferIds \cup {Other}

AwaitResults == {"Ok", "Timeout", "ChannelClosed"}

TypeOK ==
  /\ channel \in [Conns -> Seq(Event)]
  /\ \A c \in Conns : Len(channel[c]) <= EventCap
  /\ eventTx \in [Conns -> BOOLEAN]
  /\ monitor \in [Conns -> {"none", "running", "done"}]
  /\ held \in [Conns -> BOOLEAN]
  /\ currentMode \in [Conns -> Modes \cup {NoMode}]
  /\ modeVersion \in [Conns -> Nat]
  /\ modePc \in [Conns -> [Waiters -> {"idle", "checked", "waiting"} \cup AwaitResults]]
  /\ seen \in [Conns -> [Waiters -> Nat]]
  /\ updatePc \in [Conns -> {"idle", "waiting"} \cup AwaitResults]
  /\ target \in [Conns -> BufferIds \cup {NoBuffer}]
  /\ inbox \in [Conns -> Seq(BufferIds)]
  /\ \A c \in Conns : Len(inbox[c]) <= UpdateCap
  /\ lagged \in [Conns -> BOOLEAN]

Init ==
  /\ channel = [c \in Conns |-> <<>>]
  /\ eventTx = [c \in Conns |-> FALSE]
  /\ monitor = [c \in Conns |-> "none"]
  /\ held = [c \in Conns |-> FALSE]
  /\ currentMode = [c \in Conns |-> NoMode]
  /\ modeVersion = [c \in Conns |-> 0]
  /\ modePc = [c \in Conns |-> [w \in Waiters |-> "idle"]]
  /\ seen = [c \in Conns |-> [w \in Waiters |-> 0]]
  /\ updatePc = [c \in Conns |-> "idle"]
  /\ target = [c \in Conns |-> NoBuffer]
  /\ inbox = [c \in Conns |-> <<>>]
  /\ lagged = [c \in Conns |-> FALSE]

-----------------------------------------------------------------------------
(* Creation and destruction of the value.                                  *)

\* HandleEvents::new: the watch cell starts with None, the monitor is spawned.
New(c) ==
  /\ monitor[c] = "none"
  /\ monitor' = [monitor EXCEPT ![c] = "running"]
  /\ held' = [held EXCEPT ![c] = TRUE]
  /\ UNCHANGED <<channel, modeVars, updateVars>>

ModeCall(c, w) == modePc[c][w] \in {"checked", "waiting"}

\* No await borrows the value.
NotBorrowed(c) ==
  /\ updatePc[c] # "waiting"
  /\ \A w \in Waiters : ~ModeCall(c, w)

\* The owning Handle's fields are dropped: the only lasting watch receiver and
\* the HandleEvents' own broadcast sender go.
Drop(c) ==
  /\ held[c]
  /\ NotBorrowed(c)
  /\ held' = [held EXCEPT ![c] = FALSE]
  /\ UNCHANGED <<monitorVars, modeVars, updateVars>>

-----------------------------------------------------------------------------
(* The monitor task.                                                       *)

Take(c) == channel' = [channel EXCEPT ![c] = Tail(@)]

Receives(c, S) ==
  /\ monitor[c] = "running"
  /\ channel[c] # <<>>
  /\ Head(channel[c]) \in S

\* Event::ModeChanged: publish on the watch cell, which refuses the value when
\* no receiver is left.
MonitorMode(c) ==
  /\ Receives(c, Modes)
  /\ Take(c)
  /\ IF held[c]
     THEN /\ currentMode' = [currentMode EXCEPT ![c] = Head(channel[c])]
          /\ modeVersion' = [modeVersion EXCEPT ![c] = @ + 1]
     ELSE UNCHANGED <<currentMode, modeVersion>>
  /\ UNCHANGED <<monitor, held, modePc, seen, updateVars>>

\* Mutant: a receiver may fall behind without limit.
BroadcastKeepsAll(c, id) ==
  /\ inbox' = [inbox EXCEPT ![c] = Append(@, id)]
  /\ UNCHANGED lagged

\* A broadcast keeps the newest UpdateCap values and overruns a slow receiver.
Broadcast(c, id) ==
  LET full == Len(inbox[c]) = UpdateCap
  IN  /\ inbox' = [inbox EXCEPT ![c] = Append(IF full THEN Tail(@) ELSE @, id)]
      /\ lagged' = [lagged EXCEPT ![c] = @ \/ full]

\* Event::UpdateReady: broadcast the id, which is lost when nobody subscribed.
MonitorUpdate(c) ==
  /\ Receives(c, BufferIds)
  /\ Take(c)
  /\ IF updatePc[c] = "waiting"
     THEN Broadcast(c, Head(channel[c]))
     ELSE UNCHANGED <<inbox, lagged>>
  /\ UNCHANGED <<monitor, held, modeVars, updatePc, target>>

\* Every other event is dropped.
MonitorOther(c) ==
  /\ Receives(c, {Other})
  /\ Take(c)
  /\ UNCHANGED <<monitor, held, modeVars, updateVars>>

\* Mutant: the task stops as soon as the sender is gone, whatever is queued.
MonitorClosedEager(c) ==
  /\ monitor[c] = "running"
  /\ ~eventTx[c]
  /\ monitor' = [monitor EXCEPT ![c] = "done"]
  /\ UNCHANGED <<channel, held, modeVars, updateVars>>

\* recv() returns None: the channel is empty and its sender is gone.
MonitorClosed(c) ==
  /\ monitor[c] = "running"
  /\ channel[c] = <<>>
  /\ ~eventTx[c]
  /\ monitor' = [monitor EXCEPT ![c] = "done"]
  /\ UNCHANGED <<channel, held, modeVars, updateVars>>

Monitor(c) == MonitorMode(c) \/ MonitorUpdate(c) \/ MonitorOther(c) \/ MonitorClosed(c)

-----------------------------------------------------------------------------
(* await_mode.                                                             *)

SetModePc(c, w, pc) == modePc' = [modePc EXCEPT ![c][w] = pc]

\* The cached mode answers at once; otherwise go on to clone the receiver.
AwaitMode(c, w) ==
  /\ held[c]
  /\ ~ModeCall(c, w)
  /\ SetModePc(c, w, IF currentMode[c] # NoMode THEN "Ok" ELSE "checked")
  /\ UNCHANGED <<monitorVars, held, currentMode, modeVersion, seen, updateVars>>

\* Mutant: the waiter's receiver starts from the present version.
SubscribeModeAtPresent(c, w) ==
  /\ modePc[c][w] = "checked"
  /\ SetModePc(c, w, "waiting")
  /\ seen' = [seen EXCEPT ![c][w] = modeVersion[c]]
  /\ UNCHANGED <<monitorVars, held, currentMode, modeVersion, updateVars>>

\* self.current_mode.clone(): the clone has seen what the handle's own receiver
\* has seen, and that one is only ever borrowed, so it still stands at 0.
SubscribeMode(c, w) ==
  /\ modePc[c][w] = "checked"
  /\ SetModePc(c, w, "waiting")
  /\ seen' = [seen EXCEPT ![c][w] = 0]
  /\ UNCHANGED <<monitorVars, held, currentMode, modeVersion, updateVars>>

\* changed() resolves with Ok; the current mode is then unwrapped.
ModeChanged(c, w) ==
  /\ modePc[c][w] = "waiting"
  /\ modeVersion[c] # seen[c][w]
  /\ SetModePc(c, w, "Ok")
  /\ seen' = [seen EXCEPT ![c][w] = modeVersion[c]]
  /\ UNCHANGED <<monitorVars, held, currentMode, modeVersion, updateVars>>

\* Mutant: HandleEvents keeps a watch sender too, as it does a broadcast one.
ModeClosedOnDrop(c, w) ==
  /\ modePc[c][w] = "waiting"
  /\ modeVersion[c] = seen[c][w]
  /\ monitor[c] = "done" /\ ~held[c]
  /\ SetModePc(c, w, "ChannelClosed")
  /\ UNCHANGED <<monitorVars, held, currentMode, modeVersion, seen, updateVars>>

\* changed() resolves with Err: nothing unseen, and the watch sender went with
\* the monitor task.
ModeClosed(c, w) ==
  /\ modePc[c][w] = "waiting"
  /\ modeVersion[c] = seen[c][w]
  /\ monitor[c] = "done"
  /\ SetModePc(c, w, "ChannelClosed")
  /\ UNCHANGED <<monitorVars, held, currentMode, modeVersion, seen, updateVars>>

\* The timer branch of select! wins.
ModeTimeout(c, w) ==
  /\ modePc[c][w] = "waiting"
  /\ SetModePc(c, w, "Timeout")
  /\ UNCHANGED <<monitorVars, held, currentMode, modeVersion, seen, updateVars>>

\* The caller drops the future.
ModeCancel(c, w) ==
  /\ ModeCall(c, w)
  /\ SetModePc(c, w, "idle")
  /\ UNCHANGED <<monitorVars, held, currentMode, modeVersion, seen, updateVars>>

-----------------------------------------------------------------------------
(* await_buffer_update.                                                    *)

\* subscribe(): a receiver that sees only what is broadcast from now on.
SubscribeUpdate(c, id) ==
  /\ held[c]
  /\ updatePc[c] # "waiting"
  /\ updatePc' = [updatePc EXCEPT ![c] = "waiting"]
  /\ target' = [target EXCEPT ![c] = id]
  /\ UNCHANGED <<monitorVars, held, modeVars, inbox, lagged>>

\* The call returns (or its future is dropped) and its receiver goes with it.
EndUpdate(c, result) ==
  /\ updatePc[c] = "waiting"
  /\ updatePc' = [updatePc EXCEPT ![c] = result]
  /\ target' = [target EXCEPT ![c] = NoBuffer]
  /\ inbox' = [inbox EXCEPT ![c] = <<>>]
  /\ lagged' = [lagged EXCEPT ![c] = FALSE]
  /\ UNCHANGED <<monitorVars, held, modeVars>>

\* Someone can still broadcast: the HandleEvents itself keeps a sender.
UpdateSenders(c) == held[c] \/ monitor[c] = "running"

\* recv() yields the awaited id, or reports that every sender is gone.
UpdateReturns(c) ==
  /\ ~lagged[c]
  /\ IF inbox[c] # <<>> THEN Head(inbox[c]) = target[c] ELSE ~UpdateSenders(c)
  /\ EndUpdate(c, IF inbox[c] # <<>> THEN "Ok" ELSE "ChannelClosed")

\* recv() yields another buffer's id: keep waiting.
UpdateSkips(c) ==
  /\ updatePc[c] = "waiting"
  /\ ~lagged[c]
  /\ inbox[c] # <<>>
  /\ Head(inbox[c]) # target[c]
  /\ inbox' = [inbox EXCEPT ![c] = Tail(@)]
  /\ UNCHANGED <<monitorVars, held, modeVars, updatePc, target, lagged>>

\* Mutant: on being overrun, start over with a new receiver.
UpdateLaggedResubscribes(c) ==
  /\ updatePc[c] = "waiting"
  /\ lagged[c]
  /\ lagged' = [lagged EXCEPT ![c] = FALSE]
  /\ inbox' = [inbox EXCEPT ![c] = <<>>]
  /\ UNCHANGED <<monitorVars, held, modeVars, updatePc, target>>

\* recv() reports that values were overrun: warn and keep waiting.
UpdateLagged(c) ==
  /\ updatePc[c] = "waiting"
  /\ lagged[c]
  /\ lagged' = [lagged EXCEPT ![c] = FALSE]
  /\ UNCHANGED <<monitorVars, held, modeVars, updatePc, target, inbox>>

UpdateTimeout(c) == EndUpdate(c, "Timeout")

UpdateCancel(c) == EndUpdate(c, "idle")

-----------------------------------------------------------------------------
(* The component alone, with every event loop that could feed it.          *)

\* The event loop's end of the channel comes into being with the connection.
Connect(c) ==
  /\ New(c)
  /\ eventTx' = [eventTx EXCEPT ![c] = TRUE]

\* blocking_send of one event, in any order the kernel likes.
Send(c, e) ==
  /\ eventTx[c]
  /\ Len(channel[c]) < EventCap
  /\ channel' = [channel EXCEPT ![c] = Append(@, e)]
  /\ UNCHANGED <<eventTx, monitor, held, modeVars, updateVars>>

\* The event loop ends.
LoopEnds(c) ==
  /\ eventTx[c]
  /\ eventTx' = [eventTx EXCEPT ![c] = FALSE]
  /\ UNCHANGED <<channel, monitor, held, modeVars, updateVars>>

Step(c) ==
  \/ Drop(c)
  \/ Monitor(c)
  \/ \E w \in Waiters :
       \/ AwaitMode(c, w) \/ SubscribeMode(c, w) \/ ModeChanged(c, w)
       \/ ModeClosed(c, w) \/ ModeTimeout(c, w) \/ ModeCancel(c, w)
  \/ \E id \in BufferIds : SubscribeUpdate(c, id)
  \/ UpdateReturns(c) \/ UpdateSkips(c) \/ UpdateLagged(c)
  \/ UpdateTimeout(c) \/ UpdateCancel(c)

\* What may happen in any composition ...
OpenNext ==
  \E c \in Conns :
    \/ Connect(c)
    \/ \E e \in Event : Send(c, e)
    \/ LoopEnds(c)
    \/ Step(c) /\ UNCHANGED eventTx

OpenSpec == Init /\ [][OpenNext]_vars

\* ... and with the bound of the model on modes.
WithinBound(c, e) == e \in Modes => modeVersion[c] + Len(channel[c]) < MaxModes

Next ==
  \E c \in Conns :
    \/ Connect(c)
    \/ \E e \in Event : WithinBound(c, e) /\ Send(c, e)
    \/ LoopEnds(c)
    \/ Step(c) /\ UNCHANGED eventTx

Spec == Init /\ [][Next]_vars

\* The runtime polls every task that has been woken.  Timers are left out: what
\* is promised below must not depend on one going off.
Fairness ==
  \A c \in Conns :
    /\ WF_vars(Monitor(c) /\ UNCHANGED eventTx)
    /\ \A w \in Waiters :
         /\ WF_vars(SubscribeMode(c, w) /\ UNCHANGED eventTx)
         /\ WF_vars(ModeChanged(c, w) /\ UNCHANGED eventTx)
         /\ WF_vars(ModeClosed(c, w) /\ UNCHANGED eventTx)
    /\ WF_vars((UpdateReturns(c) \/ UpdateSkips(c) \/ UpdateLagged(c)) /\ UNCHANGED eventTx)

FairSpec == Spec /\ Fairness

-----------------------------------------------------------------------------
(* Properties.                                                             *)

\* A suspended await_mode is woken by exactly the modes it should return: its
\* receiver has something unseen if and only if the cell holds a mode.  Left to
\* right, the `expect("Can never be none after being changed")` cannot panic;
\* right to left, a mode published between the check of the cache and the clone
\* of the receiver is not missed.
WatchAgrees ==
  \A c \in Conns, w \in Waiters :
    modePc[c][w] = "waiting" =>
      (modeVersion[c] # seen[c][w] <=> currentMode[c] # NoMode)

\* The monitor ends only after every event that was sent has been dispatched.
NothingAbandoned ==
  \A c \in Conns : monitor[c] = "done" => channel[c] = <<>> /\ ~eventTx[c]

\* Without help from its timer, a suspended await_mode returns once a mode has
\* arrived, and also once the event loop is gone for good.
WaiterServed ==
  \A c \in Conns, w \in Waiters :
    (ModeCall(c, w) /\ (currentMode[c] # NoMode \/ ~eventTx[c])) ~> ~ModeCall(c, w)

(* The following does not hold; README.md says what that shows.            *)

\* Without help from its timer, await_buffer_update reports that the event
\* channel is closed (events.rs: AwaitEventError::ChannelClosed, "Event channel
\* closed") once the monitor has ended.
ClosedIsReported ==
  \A c \in Conns : (updatePc[c] = "waiting" /\ monitor[c] = "done") ~> updatePc[c] # "waiting"
=============================================================================
