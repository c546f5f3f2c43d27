------------------------------- MODULE Handle -------------------------------
(***************************************************************************)
(* handle.rs: UnconnectedHandle and Handle, composed with the event loop   *)
(* (EventLoop), the events (HandleEvents) and libevdi (LibEvdi).  One      *)
(* opened context and the user's task that owns it: connect, buffers,      *)
(* request_update, await_mode, disconnect, connect again, drop.            *)
(*                                                                         *)
(* On tokio's current-thread runtime the monitor task runs only while the  *)
(* user's task is suspended; on a multi-thread runtime it runs at any      *)
(* time.  The event loop is a thread of its own on both.                   *)
(***************************************************************************)
EXTENDS Naturals, Sequences, FiniteSets

CONSTANTS
  Conns, Waiters, Modes, BufferIds, Other, NoMode, NoBuffer, UpdateReady,
  NoConn,      \* not connected
  EventCap, UpdateCap, FdCap, MaxModes,
  MultiThread  \* which runtime

VARIABLES
  phase,       \* what the user's task is doing with the handle
  conn,        \* the connection of the Handle it owns
  request,     \* the buffer request_update was called for
  buffers,     \* keys of the Handle's map of buffers
  memory       \* each buffer's memory: "none", "owned", "leaked" or "freed"

VARIABLES
  loopPc, batch, closeMsg, closeTx, eventTx,
  channel, monitor, held, currentMode, modeVersion, modePc, seen,
  updatePc, target, inbox, lagged,
  context, connected, registered, bufferToUpdate, updatePending, fdEvents,
  hangup, modesEmitted

Loop == INSTANCE EventLoop
Ev   == INSTANCE HandleEvents
Lib  == INSTANCE LibEvdi

ASSUME HandleAssumption ==
  /\ MultiThread \in BOOLEAN
  /\ NoConn \notin Conns
  /\ FdCap \in Nat /\ FdCap > 1
  /\ Loop!EventLoopAssumption /\ Ev!HandleEventsAssumption

userVars == <<phase, conn, request, buffers, memory>>
loopVars == <<loopPc, batch, closeMsg, closeTx, eventTx>>
taskVars == <<channel, monitor, held, currentMode, modeVersion, modePc, seen,
              updatePc, target, inbox, lagged>>
libVars  == <<context, connected, registered, bufferToUpdate, updatePending,
              fdEvents, hangup, modesEmitted>>
vars == <<userVars, loopVars, taskVars, libVars>>

Phases == {"unconnected", "connected", "requested", "awaiting", "closing",
           "disconnected", "dropping", "closed"}

\* The types of this module's own variables; Loop!TypeOK and Ev!TypeOK are
\* those of the components'.
TypeOK ==
  /\ phase \in Phases
  /\ conn \in Conns \cup {NoConn}
  /\ request \in BufferIds \cup {NoBuffer}
  /\ buffers \subseteq BufferIds
  /\ memory \in [BufferIds -> {"none", "owned", "leaked", "freed"}]
  /\ Loop!TypeOK
  /\ Ev!TypeOK
  /\ registered \subseteq BufferIds
  /\ connected \in BOOLEAN /\ updatePending \in BOOLEAN
  /\ modesEmitted \in 0..MaxModes
  /\ Len(fdEvents) <= FdCap

Init ==
  /\ phase = "unconnected"
  /\ conn = NoConn
  /\ request = NoBuffer
  /\ buffers = {}
  /\ memory = [id \in BufferIds |-> "none"]
  /\ Loop!LoopInit
  /\ Ev!Init
  /\ Lib!LibInit

Remember(from, to) ==
  memory' = [id \in BufferIds |-> IF memory[id] = from THEN to ELSE memory[id]]

-----------------------------------------------------------------------------
(* Connecting and disconnecting.                                           *)

\* UnconnectedHandle::connect and Handle::new: connect the context, spawn the
\* event loop on it, make the HandleEvents.
Connect(c) ==
  /\ phase = "unconnected"
  /\ phase' = "connected"
  /\ conn' = c
  /\ Lib!evdi_connect
  /\ Loop!Spawn(c)
  /\ Ev!New(c)
  /\ UNCHANGED <<request, buffers, memory>>

\* A method that borrows the Handle mutably, or consumes it, may be called.
Exclusive == phase = "connected" /\ Ev!NotBorrowed(conn)

\* Mutant: without the forget, the Handle's fields are dropped.
DisconnectFreesBuffers ==
  /\ Exclusive
  /\ phase' = "unconnected"
  /\ conn' = NoConn
  /\ buffers' = {}
  /\ Remember("owned", "freed")
  /\ Lib!evdi_disconnect
  /\ UNCHANGED <<request, loopVars, taskVars>>

\* Handle::disconnect forgets the Handle with all its fields: the buffers stay
\* allocated and registered, the close sender and the HandleEvents stay alive
\* and the event loop is not told.
Disconnect ==
  /\ Exclusive
  /\ phase' = "unconnected"
  /\ conn' = NoConn
  /\ buffers' = {}
  /\ Remember("owned", "leaked")
  /\ Lib!evdi_disconnect
  /\ UNCHANGED <<request, loopVars, taskVars>>

\* Drop for UnconnectedHandle.
DropUnconnected ==
  /\ phase = "unconnected"
  /\ phase' = "closed"
  /\ Lib!evdi_close
  /\ UNCHANGED <<conn, request, buffers, memory, loopVars, taskVars>>

\* Mutant: it is told even if it has gone.
DropSendCloseAnyway ==
  /\ Exclusive
  /\ phase' = "closing"
  /\ closeMsg' = [closeMsg EXCEPT ![conn] = TRUE]
  /\ UNCHANGED <<conn, request, buffers, memory, loopPc, batch, closeTx, eventTx,
                 taskVars, libVars>>

\* Drop for Handle: tell the event loop, which may be gone already ...
DropSendClose ==
  /\ Exclusive
  /\ phase' = "closing"
  /\ closeMsg' = [closeMsg EXCEPT ![conn] = loopPc[conn] # "ended"]
  /\ UNCHANGED <<conn, request, buffers, memory, loopPc, batch, closeTx, eventTx,
                 taskVars, libVars>>

\* ... disconnect without waiting for it ...
DropDisconnect ==
  /\ phase = "closing"
  /\ phase' = "disconnected"
  /\ Lib!evdi_disconnect
  /\ UNCHANGED <<conn, request, buffers, memory, loopVars, taskVars>>

\* ... and close.
DropClose ==
  /\ phase = "disconnected"
  /\ phase' = "dropping"
  /\ Lib!evdi_close
  /\ UNCHANGED <<conn, request, buffers, memory, loopVars, taskVars>>

\* Then the fields go: the buffers, the events, the close sender.
DropFields ==
  /\ phase = "dropping"
  /\ phase' = "closed"
  /\ conn' = NoConn
  /\ buffers' = {}
  /\ Remember("owned", "freed")
  /\ Ev!Drop(conn)
  /\ closeTx' = [closeTx EXCEPT ![conn] = FALSE]
  /\ UNCHANGED <<request, loopPc, batch, closeMsg, eventTx, libVars>>

-----------------------------------------------------------------------------
(* Buffers.                                                                *)

\* new_buffer; the random id is taken to be one never used before.
NewBuffer(id) ==
  /\ Exclusive
  /\ memory[id] = "none"
  /\ memory' = [memory EXCEPT ![id] = "owned"]
  /\ buffers' = buffers \cup {id}
  /\ Lib!evdi_register_buffer(id)
  /\ UNCHANGED <<phase, conn, request, loopVars, taskVars>>

\* unregister_buffer, of an id in the map: nothing happens for any other.
UnregisterBuffer(id) ==
  /\ Exclusive
  /\ id \in buffers
  /\ memory' = [memory EXCEPT ![id] = "freed"]
  /\ buffers' = buffers \ {id}
  /\ Lib!evdi_unregister_buffer(id)
  /\ UNCHANGED <<phase, conn, request, loopVars, taskVars>>

-----------------------------------------------------------------------------
(* request_update.                                                         *)

\* Up to the boolean evdi_request_update returns.  An id that is not in the map
\* is an error before anything happens; a ready update is grabbed at once.
RequestUpdate(id) ==
  /\ Exclusive
  /\ id \in buffers
  /\ \E ready \in BOOLEAN :
       /\ Lib!evdi_request_update(id, ready)
       /\ phase' = IF ready THEN "connected" ELSE "requested"
       /\ request' = IF ready THEN NoBuffer ELSE id
  /\ UNCHANGED <<conn, buffers, memory, loopVars, taskVars>>

\* await_buffer_update subscribes only now.  (A timer that goes off before it
\* does is the same as one that goes off right after.)
SubscribeUpdate ==
  /\ phase = "requested"
  /\ phase' = "awaiting"
  /\ Ev!SubscribeUpdate(conn, request)
  /\ UNCHANGED <<conn, request, buffers, memory, loopVars, libVars>>

AwaitUpdate ==
  /\ phase = "awaiting"
  /\ \/ Ev!UpdateReturns(conn) \/ Ev!UpdateSkips(conn) \/ Ev!UpdateLagged(conn)
     \/ Ev!UpdateTimeout(conn)
  /\ UNCHANGED <<userVars, loopVars, libVars>>

\* An Ok is followed by evdi_grab_pixels and mark_updated, an error is returned.
FinishRequest ==
  /\ phase = "awaiting"
  /\ updatePc[conn] \in Ev!AwaitResults
  /\ phase' = "connected"
  /\ request' = NoBuffer
  /\ UNCHANGED <<conn, buffers, memory, loopVars, taskVars, libVars>>

\* The user drops the future.
CancelRequest ==
  /\ phase = "awaiting"
  /\ phase' = "connected"
  /\ request' = NoBuffer
  /\ Ev!UpdateCancel(conn)
  /\ UNCHANGED <<conn, buffers, memory, loopVars, libVars>>

-----------------------------------------------------------------------------
(* await_mode and the background.                                          *)

AwaitMode(w) ==
  /\ phase = "connected"
  /\ Ev!AwaitMode(conn, w) \/ Ev!SubscribeMode(conn, w) \/ Ev!ModeChanged(conn, w)
     \/ Ev!ModeClosed(conn, w) \/ Ev!ModeTimeout(conn, w) \/ Ev!ModeCancel(conn, w)
  /\ UNCHANGED <<userVars, loopVars, libVars>>

\* The user's task is suspended in an await, its own or the library's.
Suspended ==
  /\ phase \in {"unconnected", "connected", "closed"}
     \/ (phase = "awaiting" /\ updatePc[conn] = "waiting")
  /\ \A c \in Conns, w \in Waiters : modePc[c][w] # "checked"

EventLoop(c) ==
  /\ Loop!Turn(c)
  /\ UNCHANGED <<held, currentMode, modeVersion, modePc, seen,
                 updatePc, target, inbox, lagged,
                 connected, registered, updatePending, modesEmitted, userVars>>

Monitor(c) ==
  /\ MultiThread \/ Suspended
  /\ Ev!Monitor(c)
  /\ UNCHANGED <<userVars, loopVars, libVars>>

Kernel ==
  /\ \/ Lib!KernelUpdate \/ Lib!KernelOther \/ Lib!Unplug
     \/ \E m \in Modes : Lib!KernelMode(m)
  /\ UNCHANGED <<userVars, loopVars, taskVars>>

\* All is over.  (Of several threads on one fd, one may be blocked for good.)
Finished ==
  /\ phase = "closed"
  /\ \A c \in Conns :
       \/ loopPc[c] = "blocked"
       \/ loopPc[c] \in {"none", "ended"} /\ monitor[c] \in {"none", "done"}
  /\ UNCHANGED vars

Next ==
  \/ \E c \in Conns : Connect(c) \/ EventLoop(c) \/ Monitor(c)
  \/ Disconnect \/ DropUnconnected
  \/ DropSendClose \/ DropDisconnect \/ DropClose \/ DropFields
  \/ \E id \in BufferIds : NewBuffer(id) \/ UnregisterBuffer(id) \/ RequestUpdate(id)
  \/ SubscribeUpdate \/ AwaitUpdate \/ FinishRequest \/ CancelRequest
  \/ \E w \in Waiters : AwaitMode(w)
  \/ Kernel
  \/ Finished

Spec == Init /\ [][Next]_vars

\* An await_mode call goes on or returns, neither by its timer nor cancelled.
ModeProgress(w) ==
  /\ Ev!ModeCall(conn, w)
  /\ modePc'[conn][w] \in {"waiting", "Ok", "ChannelClosed"}

\* Threads are scheduled, woken tasks are polled, and the kernel sends an update
\* it owes.  What the user starts, its task carries on, but no timer is relied
\* on to go off and no new call is owed.
Fairness ==
  /\ \A c \in Conns : WF_vars(EventLoop(c)) /\ WF_vars(Monitor(c))
  /\ WF_vars(SubscribeUpdate) /\ WF_vars(FinishRequest)
  /\ WF_vars(AwaitUpdate /\ updatePc'[conn] # "Timeout")
  /\ \A w \in Waiters : WF_vars(AwaitMode(w) /\ ModeProgress(w))
  /\ WF_vars(DropDisconnect) /\ WF_vars(DropClose) /\ WF_vars(DropFields)
  /\ WF_vars(Lib!KernelUpdate /\ UNCHANGED <<userVars, loopVars, taskVars>>)

FairSpec == Spec /\ Fairness

-----------------------------------------------------------------------------
(* Properties.                                                             *)

Occurs(e, s) == \E i \in 1..Len(s) : s[i] = e

\* What libevdi relies on.  Every buffer of the map is registered; no memory
\* that is registered has been freed, although disconnect abandons buffers that
\* stay registered; and a grab, which writes to the buffer the context
\* remembers, writes to the one request_update holds, whatever came between.
LibEvdiContract ==
  /\ context = "open" => buffers \subseteq registered
  /\ \A id \in registered : memory[id] \in {"owned", "leaked"}
  /\ phase \in {"requested", "awaiting"} =>
       bufferToUpdate = request /\ request \in buffers

\* The composition is one of the systems its components were checked in.  Every
\* step of it is one HandleEvents allows on its own: above all, a callback sends
\* only while its loop's boxed sender exists, waits for room, and hands over the
\* id of a buffer, whatever the user does with the Handle meanwhile.
EventsImplemented == Ev!OpenSpec

\* And every step is one EventLoop allows: a loop is told to close at most once
\* and while it runs, its close sender goes only after that, the context is closed
\* once, and no update is announced before a request.
LoopImplemented == Loop!Spec

\* As long as the device works, a connected Handle has an event loop and a
\* monitor: nothing that happened to earlier connections of the context, and no
\* close message of theirs, ends them.
Serving ==
  phase \in {"connected", "requested", "awaiting"} /\ hangup = "no" =>
    /\ loopPc[conn] \notin {"none", "ended"}
    /\ monitor[conn] = "running"

\* A request that waits for its update will be told of it: the update is still
\* outstanding, or its notice is on its way through the fd, the event loop, the
\* mpsc channel or the broadcast channel.  request_update subscribes only after
\* the kernel may have finished, so on the current-thread runtime this hangs on
\* the monitor not running in between (handle.rs: "Blocks until the update is
\* complete").
NoLostWakeup ==
  phase = "awaiting" /\ updatePc[conn] = "waiting" /\ hangup = "no" =>
    \/ updatePending
    \/ Occurs(UpdateReady, fdEvents)
    \/ Occurs(UpdateReady, batch[conn])
    \/ Occurs(request, channel[conn])
    \/ Occurs(request, inbox[conn])

\* Without help from its timer, request_update returns while the device works.
RequestServed == phase = "awaiting" ~> (phase # "awaiting" \/ hangup # "no")

\* From the kernel to await_mode, on any runtime: once a mode was announced and
\* while the device works, a suspended await_mode returns without help from its
\* timer, whether the mode arrives before, during or after the call's check of
\* the cached mode.
ModeServed ==
  \A c \in Conns, w \in Waiters :
    (modesEmitted > 0 /\ Ev!ModeCall(c, w)) ~> (~Ev!ModeCall(c, w) \/ hangup # "no")

\* After the drop of a Handle that was the context's only connection, its thread
\* and its monitor task end.
LoopStops ==
  phase = "closed" ~>
    \A c \in Conns : loopPc[c] \in {"none", "ended"} /\ monitor[c] \in {"none", "done"}

(* The following do not hold; README.md says what that shows.              *)

\* The thread is not inside libevdi with a handle that has been closed
\* (handle.rs: "The intended usage seems to be to run this in another thread,
\* so I think this is ok").
NoUseAfterClose == context = "closed" => \A c \in Conns : ~Loop!UsesHandle(c)

\* What a Handle started is cleaned up after it is disconnected (handle.rs:
\* "Since we are stack-allocated we still get cleaned up").
DisconnectCleansUp ==
  \A c \in Conns : (loopPc[c] # "none" /\ conn # c) ~> (loopPc[c] = "ended" \/ hangup # "no")

\* An update that ends a wait is the one that was waited for: the kernel owes
\* none (events.rs: "To receive a buffer update you must have been waiting
\* before it was sent by the kernel").
UpdateIsFresh == phase = "awaiting" /\ updatePc[conn] = "Ok" => ~updatePending
=============================================================================
