---------------------------- MODULE HandleProofs ----------------------------
(* Theorems about Handle, the composition: what libevdi relies on, and that  *)
(* a connected Handle is served, for any number of connections and buffers   *)
(* and on both runtimes.                                                     *)
EXTENDS Handle, SequenceTheorems, TLAPS

-----------------------------------------------------------------------------
(* What libevdi relies on.                                                 *)

\* The loops and the monitors take no part in it: of what they change, only the
\* context and the buffer it remembers are looked at, and those they leave alone.
\* A Handle's memory is freed when its context has been closed, and with it all
\* that was registered.
ContractInv ==
  /\ buffers \subseteq BufferIds
  /\ registered \subseteq BufferIds
  /\ memory \in [BufferIds -> {"none", "owned", "leaked", "freed"}]
  /\ phase \in {"dropping", "closed"} => registered = {}
  /\ LibEvdiContract

LEMMA ContractInit == Init => ContractInv
BY DEF Init, ContractInv, LibEvdiContract, Lib!LibInit

\* What the contract is about; steps that leave it alone keep the contract.
contractVars == <<phase, request, buffers, memory, context, registered, bufferToUpdate>>

LEMMA ContractQuiet == ContractInv /\ UNCHANGED contractVars => ContractInv'
BY DEF contractVars, ContractInv, LibEvdiContract

\* No turn of an event loop closes the context or asks for another buffer.
LEMMA TurnKeepsContext ==
  ASSUME NEW c \in Conns, Loop!Turn(c)
  PROVE  UNCHANGED <<context, bufferToUpdate, hangup>>
BY DEF Loop!Turn, Loop!StopOnClose, Loop!KeepRunning, Loop!PollReady, Loop!PollBroken,
       Loop!PollIdle, Loop!ReadEvents, Loop!ReadBlocks, Loop!ReadClosed, Loop!SendEvent,
       Loop!SendToNobody, Loop!Leave, Loop!libVars

LEMMA ContractNext == ContractInv /\ [Next]_vars => ContractInv'
<1> SUFFICES ASSUME ContractInv, [Next]_vars PROVE ContractInv'
  OBVIOUS
<1>1. ASSUME NEW c \in Conns, Connect(c) PROVE ContractInv'
  BY <1>1 DEF Connect, ContractInv, LibEvdiContract, Lib!evdi_connect
<1>2. ASSUME NEW c \in Conns, EventLoop(c) PROVE ContractInv'
  BY <1>2, TurnKeepsContext, ContractQuiet DEF EventLoop, userVars, contractVars
<1>3. ASSUME NEW c \in Conns, Monitor(c) PROVE ContractInv'
  BY <1>3, ContractQuiet DEF Monitor, userVars, libVars, contractVars
<1>4. CASE Disconnect
  BY <1>4 DEF Disconnect, Exclusive, Remember, ContractInv, LibEvdiContract, Lib!evdi_disconnect
<1>5. CASE DropUnconnected
  BY <1>5 DEF DropUnconnected, ContractInv, LibEvdiContract, Lib!evdi_close
<1>6. CASE DropSendClose
  BY <1>6 DEF DropSendClose, libVars, ContractInv, LibEvdiContract
<1>7. CASE DropDisconnect
  BY <1>7 DEF DropDisconnect, ContractInv, LibEvdiContract, Lib!evdi_disconnect
<1>8. CASE DropClose
  BY <1>8 DEF DropClose, ContractInv, LibEvdiContract, Lib!evdi_close
<1>8a. CASE DropFields
  <2>1. /\ phase = "dropping" /\ phase' = "closed" /\ buffers' = {} /\ Remember("owned", "freed")
        /\ UNCHANGED <<context, registered, bufferToUpdate>>
    BY <1>8a DEF DropFields, libVars
  <2> QED
    BY <2>1 DEF Remember, ContractInv, LibEvdiContract
<1>9. ASSUME NEW id \in BufferIds, NewBuffer(id) PROVE ContractInv'
  BY <1>9 DEF NewBuffer, Exclusive, ContractInv, LibEvdiContract, Lib!evdi_register_buffer
<1>10. ASSUME NEW id \in BufferIds, UnregisterBuffer(id) PROVE ContractInv'
  BY <1>10 DEF UnregisterBuffer, Exclusive, ContractInv, LibEvdiContract,
               Lib!evdi_unregister_buffer
<1>11. ASSUME NEW id \in BufferIds, RequestUpdate(id) PROVE ContractInv'
  BY <1>11 DEF RequestUpdate, ContractInv, LibEvdiContract, Lib!evdi_request_update
<1>12. CASE SubscribeUpdate
  BY <1>12 DEF SubscribeUpdate, libVars, ContractInv, LibEvdiContract
<1>13. CASE AwaitUpdate
  BY <1>13, ContractQuiet DEF AwaitUpdate, userVars, libVars, contractVars
<1>14. CASE FinishRequest
  BY <1>14 DEF FinishRequest, libVars, ContractInv, LibEvdiContract
<1>15. CASE CancelRequest
  BY <1>15 DEF CancelRequest, libVars, ContractInv, LibEvdiContract
<1>16. ASSUME NEW w \in Waiters, AwaitMode(w) PROVE ContractInv'
  BY <1>16, ContractQuiet DEF AwaitMode, userVars, libVars, contractVars
<1>17. CASE Kernel
  BY <1>17, ContractQuiet DEF Kernel, userVars, contractVars, Lib!KernelUpdate,
     Lib!KernelOther, Lib!KernelMode, Lib!Unplug
<1>18. CASE UNCHANGED vars
  BY <1>18, ContractQuiet DEF vars, userVars, libVars, contractVars
<1> QED
  BY <1>1, <1>2, <1>3, <1>4, <1>5, <1>6, <1>7, <1>8, <1>9, <1>10, <1>11, <1>12, <1>13,
     <1>14, <1>15, <1>16, <1>17, <1>18, <1>8a DEF Next, Finished

\* Every buffer of the map is registered, nothing registered has been freed, and
\* a grab writes to the buffer request_update holds: in every order of connect,
\* disconnect, the two drops, the operations on buffers and requests that end in
\* any way, whatever event loops and monitors of earlier connections do.
THEOREM ContractCorrect == Spec => []LibEvdiContract
<1>1. ContractInv => LibEvdiContract
  BY DEF ContractInv
<1> QED
  BY <1>1, ContractInit, ContractNext, PTL DEF Spec

-----------------------------------------------------------------------------
(* A connected Handle is served.                                           *)

Connected == {"connected", "requested", "awaiting"}

Dropping == {"closing", "disconnected", "dropping"}

\* Before a connection there is neither a task nor a message for its loop; a
\* running loop has its event sender; only a Handle being dropped has sent a
\* close message, which its loop gets if it has not ended; the context stays open
\* until then.
ServingInv ==
  /\ phase \in Phases
  /\ loopPc \in [Conns -> {"none", "top", "poll", "read", "blocked", "callback", "ended"}]
  /\ closeMsg \in [Conns -> BOOLEAN]
  /\ closeTx \in [Conns -> BOOLEAN]
  /\ eventTx \in [Conns -> BOOLEAN]
  /\ monitor \in [Conns -> {"none", "running", "done"}]
  /\ phase \notin {"dropping", "closed"} \/ connected => context = "open"
  /\ phase \in Connected \cup Dropping => conn \in Conns
  /\ phase \in Connected => loopPc[conn] # "none" /\ ~closeMsg[conn] /\ closeTx[conn]
  /\ phase \in Dropping => /\ closeMsg[conn] \/ loopPc[conn] = "ended"
                           /\ closeTx[conn]
  /\ \A c \in Conns : /\ loopPc[c] = "none" => monitor[c] = "none" /\ ~closeMsg[c]
                      /\ loopPc[c] \notin {"none", "ended"} => eventTx[c]
  /\ Serving

LEMMA ServingInit == Init => ServingInv
BY DEF Init, ServingInv, Serving, Connected, Dropping, Phases, Loop!LoopInit, Ev!Init, Lib!LibInit

servingVars == <<phase, conn, loopPc, closeMsg, closeTx, eventTx, monitor, context, connected,
                 hangup>>

LEMMA ServingQuiet == ServingInv /\ UNCHANGED servingVars => ServingInv'
BY DEF servingVars, ServingInv, Serving

\* A turn of the loop of c ends it only if it was told to, or its fd is broken.
LEMMA TurnEnds ==
  ASSUME ServingInv, NEW c \in Conns, Loop!Turn(c)
  PROVE  /\ loopPc[c] \notin {"none", "ended"}
         /\ \/ /\ loopPc' = [loopPc EXCEPT ![c] = "ended"]
               /\ eventTx' = [eventTx EXCEPT ![c] = FALSE]
               /\ closeMsg' = [closeMsg EXCEPT ![c] = FALSE]
               /\ closeMsg[c] \/ ~closeTx[c] \/ context = "closed" \/ hangup # "no"
            \/ /\ \E pc \in {"top", "poll", "read", "blocked", "callback"} :
                    loopPc' = [loopPc EXCEPT ![c] = pc]
               /\ UNCHANGED <<eventTx, closeMsg>>
         /\ UNCHANGED <<closeTx, monitor>>
<1> USE DEF Loop!Turn, Loop!At, Loop!Goto
<1>1. CASE Loop!StopOnClose(c)
  BY <1>1 DEF Loop!StopOnClose, Loop!Leave
<1>2. CASE Loop!PollBroken(c)
  BY <1>2 DEF Loop!PollBroken, Loop!Leave, Loop!PollResults
<1>3. CASE Loop!KeepRunning(c) \/ Loop!PollReady(c) \/ Loop!PollIdle(c)
  BY <1>3 DEF Loop!KeepRunning, Loop!PollReady, Loop!PollIdle
<1>4. CASE Loop!ReadEvents(c) \/ Loop!ReadBlocks(c) \/ Loop!ReadClosed(c)
  BY <1>4 DEF Loop!ReadEvents, Loop!ReadBlocks, Loop!ReadClosed
<1>5. CASE Loop!SendEvent(c) \/ Loop!SendToNobody(c)
  BY <1>5 DEF Loop!SendEvent, Loop!SendToNobody, Loop!Called
<1> QED
  BY <1>1, <1>2, <1>3, <1>4, <1>5

LEMMA ServingTurn ==
  ASSUME ServingInv, NEW c \in Conns, EventLoop(c)
  PROVE  ServingInv'
<1>1. Loop!Turn(c) /\ UNCHANGED <<phase, conn, connected>>
  BY DEF EventLoop, userVars
<1>2. UNCHANGED <<context, hangup>>
  BY <1>1, TurnKeepsContext
<1>3. CASE /\ loopPc' = [loopPc EXCEPT ![c] = "ended"]
           /\ eventTx' = [eventTx EXCEPT ![c] = FALSE]
           /\ closeMsg' = [closeMsg EXCEPT ![c] = FALSE]
           /\ closeMsg[c] \/ ~closeTx[c] \/ context = "closed" \/ hangup # "no"
  BY <1>1, <1>2, <1>3, TurnEnds DEF ServingInv, Serving, Connected, Dropping, Phases
<1>4. ASSUME NEW pc \in {"top", "poll", "read", "blocked", "callback"},
             loopPc' = [loopPc EXCEPT ![c] = pc], UNCHANGED <<eventTx, closeMsg>>
      PROVE  ServingInv'
  BY <1>1, <1>2, <1>4, TurnEnds DEF ServingInv, Serving, Connected, Dropping, Phases
<1> QED
  BY <1>1, <1>3, <1>4, TurnEnds

\* A monitor ends only when the event sender of its loop has gone.
LEMMA ServingMonitor ==
  ASSUME ServingInv, NEW c \in Conns, Monitor(c)
  PROVE  ServingInv'
<1>1. /\ UNCHANGED <<phase, conn, loopPc, closeMsg, closeTx, eventTx, context, connected, hangup>>
      /\ Ev!Monitor(c)
  BY DEF Monitor, userVars, loopVars, libVars
<1>2. CASE Ev!MonitorClosed(c)
  <2>1. /\ monitor[c] = "running" /\ ~eventTx[c]
        /\ monitor' = [monitor EXCEPT ![c] = "done"]
    BY <1>2 DEF Ev!MonitorClosed
  <2> QED
    BY <1>1, <2>1 DEF ServingInv, Serving, Connected, Dropping, Phases
<1>3. CASE UNCHANGED monitor
  BY <1>1, <1>3, ServingQuiet DEF servingVars
<1> QED
  BY <1>1, <1>2, <1>3 DEF Ev!Monitor, Ev!MonitorMode, Ev!MonitorUpdate, Ev!MonitorOther,
     Ev!monitorVars

LEMMA ServingNext == ServingInv /\ [Next]_vars => ServingInv'
<1> SUFFICES ASSUME ServingInv, [Next]_vars PROVE ServingInv'
  OBVIOUS
<1>1. ASSUME NEW c \in Conns, Connect(c) PROVE ServingInv'
  BY <1>1 DEF Connect, ServingInv, Serving, Connected, Dropping, Phases, Lib!evdi_connect,
     Loop!Spawn, Loop!At, Loop!Goto, Ev!New
<1>2. CASE Disconnect
  BY <1>2 DEF Disconnect, Exclusive, loopVars, taskVars, ServingInv, Serving, Connected, Dropping,
     Phases, Lib!evdi_disconnect
<1>3. CASE DropUnconnected
  BY <1>3 DEF DropUnconnected, loopVars, taskVars, ServingInv, Serving, Connected, Dropping, Phases,
     Lib!evdi_close
<1>4. CASE DropSendClose
  BY <1>4 DEF DropSendClose, Exclusive, taskVars, libVars, ServingInv, Serving, Connected,
     Dropping, Phases
<1>5. CASE DropDisconnect
  BY <1>5 DEF DropDisconnect, loopVars, taskVars, ServingInv, Serving, Connected, Dropping, Phases,
     Lib!evdi_disconnect
<1>6. CASE DropClose
  BY <1>6 DEF DropClose, loopVars, taskVars, ServingInv, Serving, Connected, Dropping, Phases,
     Lib!evdi_close
<1>6a. CASE DropFields
  BY <1>6a DEF DropFields, libVars, ServingInv, Serving, Connected, Dropping, Phases, Ev!Drop,
     Ev!monitorVars
<1>7. ASSUME NEW id \in BufferIds, NewBuffer(id) \/ UnregisterBuffer(id) PROVE ServingInv'
  BY <1>7, ServingQuiet DEF NewBuffer, UnregisterBuffer, Lib!evdi_register_buffer,
     Lib!evdi_unregister_buffer, loopVars, taskVars, servingVars
<1>8. ASSUME NEW id \in BufferIds, RequestUpdate(id) PROVE ServingInv'
  BY <1>8 DEF RequestUpdate, Exclusive, Lib!evdi_request_update, loopVars, taskVars, ServingInv,
     Serving, Connected, Dropping, Phases
<1>9. CASE SubscribeUpdate
  BY <1>9 DEF SubscribeUpdate, Ev!SubscribeUpdate, Ev!monitorVars, loopVars, libVars, ServingInv,
     Serving, Connected, Dropping, Phases
<1>10. CASE AwaitUpdate
  BY <1>10, ServingQuiet DEF AwaitUpdate, Ev!UpdateReturns, Ev!UpdateSkips, Ev!UpdateLagged,
     Ev!UpdateTimeout, Ev!EndUpdate, Ev!monitorVars, userVars, loopVars, libVars, servingVars
<1>11. CASE FinishRequest
  BY <1>11 DEF FinishRequest, loopVars, taskVars, libVars, ServingInv, Serving, Connected, Dropping,
     Phases
<1>12. CASE CancelRequest
  BY <1>12 DEF CancelRequest, Ev!UpdateCancel, Ev!EndUpdate, Ev!monitorVars, loopVars, libVars,
     ServingInv, Serving, Connected, Dropping, Phases
<1>13. ASSUME NEW w \in Waiters, AwaitMode(w) PROVE ServingInv'
  BY <1>13, ServingQuiet DEF AwaitMode, Ev!AwaitMode, Ev!SubscribeMode, Ev!ModeChanged,
     Ev!ModeClosed, Ev!ModeTimeout, Ev!ModeCancel, Ev!monitorVars, userVars, loopVars, libVars,
     servingVars
<1>14. CASE Kernel
  <2>1. UNCHANGED <<phase, conn, loopPc, closeMsg, closeTx, eventTx, monitor, context, connected>>
    BY <1>14 DEF Kernel, userVars, loopVars, taskVars, Lib!KernelUpdate, Lib!KernelOther,
       Lib!KernelMode, Lib!Unplug
  <2>2. hangup' = hangup \/ hangup' # "no"
    BY <1>14 DEF Kernel, Lib!KernelUpdate, Lib!KernelOther, Lib!KernelMode, Lib!Unplug
  <2> QED
    BY <2>1, <2>2 DEF ServingInv, Serving
<1>15. CASE UNCHANGED vars
  BY <1>15, ServingQuiet DEF vars, userVars, loopVars, taskVars, libVars, servingVars
<1> QED
  BY <1>1, <1>2, <1>3, <1>4, <1>5, <1>6, <1>7, <1>8, <1>9, <1>10, <1>11, <1>12, <1>13, <1>14,
     <1>15, <1>6a, ServingTurn, ServingMonitor DEF Next, Finished

\* As long as the device works, a connected Handle has a running event loop and
\* monitor task: no disconnect, drop or broken turn of an earlier connection,
\* whose loop shares its fd, ends them.
THEOREM ServingCorrect == Spec => []Serving
<1>1. ServingInv => Serving
  BY DEF ServingInv
<1> QED
  BY <1>1, ServingInit, ServingNext, PTL DEF Spec

-----------------------------------------------------------------------------
(* Types, of the user's task, the threads, the monitors and libevdi.       *)

\* What the kernel may have emitted so far: no UpdateReady before a request.
Emittable ==
  IF bufferToUpdate = NoBuffer THEN Loop!KernelEvent \ {UpdateReady} ELSE Loop!KernelEvent

\* Only that is on its way to a callback, and only after a request is an update
\* outstanding.  Without it a callback's argument need not be any buffer's id.
Asked ==
  /\ fdEvents \in Seq(Emittable)
  /\ batch \in [Conns -> Seq(Emittable)]
  /\ updatePending => bufferToUpdate # NoBuffer

\* A loop holds a batch exactly during its callbacks.
BatchHeld == \A c \in Conns : loopPc[c] = "callback" <=> batch[c] # <<>>

OwnTypes ==
  /\ phase \in Phases
  /\ conn \in Conns \cup {NoConn}
  /\ request \in BufferIds \cup {NoBuffer}
  /\ buffers \subseteq BufferIds
  /\ memory \in [BufferIds -> {"none", "owned", "leaked", "freed"}]
  /\ registered \subseteq BufferIds
  /\ connected \in BOOLEAN /\ updatePending \in BOOLEAN
  /\ modesEmitted \in 0..MaxModes
  /\ Len(fdEvents) <= FdCap

FlowInv == OwnTypes /\ Loop!TypeOK /\ Ev!TypeOK /\ Asked /\ BatchHeld

HandleInv == ContractInv /\ ServingInv /\ FlowInv

\* The bounds, and that kernel events, buffer ids and the other values are kept
\* apart.
LEMMA Values ==
  /\ EventCap \in Nat \ {0} /\ UpdateCap \in Nat \ {0} /\ MaxModes \in Nat
  /\ FdCap \in Nat /\ FdCap > 1
  /\ UpdateReady \notin BufferIds \cup Modes \cup {Other}
  /\ Modes \cap BufferIds = {} /\ Other \notin BufferIds /\ NoBuffer \notin BufferIds
  /\ Loop!KernelEvent = Modes \cup {UpdateReady, Other}
  /\ Loop!Event = Modes \cup BufferIds \cup {Other} /\ Ev!Event = Loop!Event
BY HandleAssumption DEF HandleAssumption, Loop!EventLoopAssumption, Ev!HandleEventsAssumption,
   Loop!KernelEvent, Loop!Event, Ev!Event

LEMMA FlowInit == Init => FlowInv
<1> SUFFICES ASSUME Init PROVE FlowInv
  OBVIOUS
<1>1. /\ <<>> \in Seq(Loop!KernelEvent) /\ <<>> \in Seq(Emittable)
      /\ <<>> \in Seq(Loop!Event) /\ <<>> \in Seq(BufferIds) /\ Len(<<>>) = 0
  BY EmptySeq
<1>2. OwnTypes
  <2>1. 0 \in 0..MaxModes /\ Len(fdEvents) <= FdCap
    BY <1>1, Values DEF Init, Lib!LibInit
  <2> QED
    BY <2>1 DEF Init, Lib!LibInit, OwnTypes, Phases
<1>3. Loop!TypeOK
  BY <1>1, Values DEF Init, Loop!LoopInit, Ev!Init, Lib!LibInit, Loop!TypeOK
<1>4. Ev!TypeOK
  BY <1>1, Values DEF Init, Ev!Init, Ev!TypeOK
<1>5. Asked /\ BatchHeld
  BY <1>1 DEF Init, Loop!LoopInit, Lib!LibInit, Asked, BatchHeld
<1> QED
  BY <1>2, <1>3, <1>4, <1>5 DEF FlowInv

\* Steps that move no event between the kernel and the callbacks.
LEMMA FlowQuiet ==
  ASSUME FlowInv, OwnTypes', Loop!TypeOK', Ev!TypeOK',
         UNCHANGED <<batch, fdEvents, bufferToUpdate>>,
         updatePending' => updatePending,
         \A c \in Conns : loopPc'[c] = "callback" <=> loopPc[c] = "callback"
  PROVE  FlowInv'
<1>1. Emittable' = Emittable
  BY DEF Emittable, Loop!KernelEvent
<1> QED
  BY <1>1 DEF FlowInv, Asked, BatchHeld

\* What a step of the tasks may change of the threads' variables.
LEMMA LoopTypeKept ==
  ASSUME Loop!TypeOK, Ev!TypeOK', UNCHANGED <<loopPc, batch, closeMsg, closeTx>>,
         UNCHANGED <<fdEvents, context, hangup, bufferToUpdate>>
  PROVE  Loop!TypeOK'
BY Values DEF Loop!TypeOK, Ev!TypeOK

LEMMA EvTypeKept ==
  ASSUME Ev!TypeOK, Loop!TypeOK',
         UNCHANGED <<held, currentMode, modeVersion, modePc, seen, updatePc, target, inbox, lagged>>
  PROVE  Ev!TypeOK'
BY Values DEF Loop!TypeOK, Ev!TypeOK

-----------------------------------------------------------------------------
(* The event loop's steps.                                                 *)

LEMMA ReadFlow ==
  ASSUME FlowInv, NEW c \in Conns, Loop!ReadEvents(c), EventLoop(c)
  PROVE  FlowInv'
<1>1. PICK n \in 1..Len(fdEvents) :
        /\ batch' = [batch EXCEPT ![c] = SubSeq(fdEvents, 1, n)]
        /\ fdEvents' = SubSeq(fdEvents, n + 1, Len(fdEvents))
  BY DEF Loop!ReadEvents
<1>2. /\ loopPc' = [loopPc EXCEPT ![c] = "callback"]
      /\ UNCHANGED <<closeMsg, closeTx, eventTx, channel, monitor, context, hangup, bufferToUpdate>>
  BY DEF Loop!ReadEvents, Loop!Goto, EventLoop, Loop!Turn
<1>3. fdEvents \in Seq(Emittable) /\ Len(fdEvents) \in Nat
  BY LenProperties DEF FlowInv, Asked
<1>4. n \in Nat /\ 1 <= n /\ n <= Len(fdEvents)
  BY <1>3
<1>5. SubSeq(fdEvents, 1, n) \in Seq(Emittable) /\ Len(SubSeq(fdEvents, 1, n)) = n
  <2>1. \A i \in 1..n : fdEvents[i] \in Emittable
    BY <1>3, <1>4, ElementOfSeq
  <2> QED
    BY <1>4, <2>1, SubSeqProperties
<1>6. /\ SubSeq(fdEvents, n + 1, Len(fdEvents)) \in Seq(Emittable)
      /\ Len(SubSeq(fdEvents, n + 1, Len(fdEvents))) <= Len(fdEvents)
  <2>1. \A i \in n + 1..Len(fdEvents) : fdEvents[i] \in Emittable
    BY <1>3, <1>4, ElementOfSeq
  <2>2. n + 1 \in Int /\ Len(fdEvents) \in Int
    BY <1>3, <1>4
  <2>3. SubSeq(fdEvents, n + 1, Len(fdEvents)) \in Seq(Emittable)
    BY <2>1, <2>2, SubSeqProperties
  <2>4. Len(SubSeq(fdEvents, n + 1, Len(fdEvents))) =
          IF n + 1 <= Len(fdEvents) THEN Len(fdEvents) - (n + 1) + 1 ELSE 0
    BY <2>1, <2>2, SubSeqProperties
  <2> QED
    BY <1>3, <1>4, <2>3, <2>4
<1>7. SubSeq(fdEvents, 1, n) # <<>>
  BY <1>4, <1>5, EmptySeq
<1>8. Emittable' = Emittable /\ Emittable \subseteq Loop!KernelEvent
  BY <1>2 DEF Emittable, Loop!KernelEvent
<1>9. Asked'
  BY <1>1, <1>2, <1>5, <1>6, <1>8 DEF FlowInv, Asked, EventLoop
<1>10. BatchHeld'
  <2> SUFFICES ASSUME NEW d \in Conns PROVE loopPc'[d] = "callback" <=> batch'[d] # <<>>
    BY DEF BatchHeld
  <2>1. CASE d = c
    BY <1>1, <1>2, <1>7, <2>1 DEF FlowInv, Loop!TypeOK
  <2>2. CASE d # c
    BY <1>1, <1>2, <2>2 DEF FlowInv, Loop!TypeOK, BatchHeld
  <2> QED
    BY <2>1, <2>2
<1>11. Loop!TypeOK'
  <2>1. /\ SubSeq(fdEvents, 1, n) \in Seq(Loop!KernelEvent)
        /\ SubSeq(fdEvents, n + 1, Len(fdEvents)) \in Seq(Loop!KernelEvent)
    BY <1>5, <1>6, <1>8, SeqMonotonic
  <2>2. batch' \in [Conns -> Seq(Loop!KernelEvent)] /\ fdEvents' \in Seq(Loop!KernelEvent)
    BY <1>1, <2>1 DEF FlowInv, Loop!TypeOK
  <2> QED
    BY <1>2, <2>2 DEF FlowInv, Loop!TypeOK, Loop!KernelEvent, Loop!Event
<1>12. Ev!TypeOK'
  BY <1>11, EvTypeKept DEF FlowInv, EventLoop
<1>13. OwnTypes'
  <2>1. Len(fdEvents') <= FdCap
    BY <1>1, <1>3, <1>4, <1>6, Values, LenProperties DEF FlowInv, OwnTypes
  <2> QED
    BY <2>1 DEF FlowInv, OwnTypes, EventLoop, userVars
<1> QED
  BY <1>9, <1>10, <1>11, <1>12, <1>13 DEF FlowInv

\* A callback, whether or not its event reaches the channel.
LEMMA CallbackFlow ==
  ASSUME FlowInv, NEW c \in Conns, EventLoop(c), Loop!SendEvent(c) \/ Loop!SendToNobody(c)
  PROVE  FlowInv'
<1> DEFINE x == Loop!ToEvent(Head(batch[c]))
<1>1. /\ loopPc[c] = "callback"
      /\ batch' = [batch EXCEPT ![c] = Tail(batch[c])]
      /\ loopPc' = [loopPc EXCEPT ![c] = IF Len(batch[c]) = 1 THEN "top" ELSE "callback"]
      /\ \/ UNCHANGED channel
         \/ Len(channel[c]) < EventCap /\ channel' = [channel EXCEPT ![c] = Append(channel[c], x)]
      /\ UNCHANGED <<closeMsg, closeTx, eventTx, monitor, fdEvents, context, hangup, bufferToUpdate>>
  BY DEF Loop!SendEvent, Loop!SendToNobody, Loop!At, Loop!Called, Loop!Goto, Loop!libVars,
     EventLoop, Loop!Turn
<1>2. batch[c] \in Seq(Emittable) /\ batch[c] # <<>>
  BY <1>1 DEF FlowInv, Asked, BatchHeld
<1>3. /\ Len(batch[c]) \in Nat \ {0} /\ Head(batch[c]) \in Emittable
      /\ Tail(batch[c]) \in Seq(Emittable) /\ Len(Tail(batch[c])) = Len(batch[c]) - 1
  BY <1>2, EmptySeq, HeadTailProperties
<1>4. Tail(batch[c]) = <<>> <=> Len(batch[c]) = 1
  <2>1. Tail(batch[c]) = <<>> <=> Len(Tail(batch[c])) = 0
    BY <1>3, EmptySeq
  <2> QED
    BY <1>3, <2>1
<1>5. x \in Loop!Event
  BY <1>3, Values DEF Loop!ToEvent, Emittable, FlowInv, Loop!TypeOK
<1> HIDE DEF x
<1>6. /\ channel' \in [Conns -> Seq(Loop!Event)]
      /\ \A d \in Conns : Len(channel'[d]) <= EventCap
  <2>1. CASE UNCHANGED channel
    BY <2>1 DEF FlowInv, Loop!TypeOK
  <2>2. CASE Len(channel[c]) < EventCap /\ channel' = [channel EXCEPT ![c] = Append(channel[c], x)]
    <3>1. channel[c] \in Seq(Loop!Event) /\ Len(channel[c]) \in Nat
      BY LenProperties DEF FlowInv, Loop!TypeOK
    <3>2. /\ Append(channel[c], x) \in Seq(Loop!Event)
          /\ Len(Append(channel[c], x)) = Len(channel[c]) + 1
      BY <1>5, <3>1, AppendProperties
    <3>3. Len(Append(channel[c], x)) <= EventCap
      BY <2>2, <3>1, <3>2, Values
    <3> QED
      BY <2>2, <3>2, <3>3 DEF FlowInv, Loop!TypeOK
  <2> QED
    BY <1>1, <2>1, <2>2
<1>7. Emittable' = Emittable /\ Emittable \subseteq Loop!KernelEvent
  BY <1>1 DEF Emittable, Loop!KernelEvent
<1>8. Asked'
  BY <1>1, <1>3, <1>7 DEF FlowInv, Asked, EventLoop
<1>9. BatchHeld'
  <2> SUFFICES ASSUME NEW d \in Conns PROVE loopPc'[d] = "callback" <=> batch'[d] # <<>>
    BY DEF BatchHeld
  <2>1. CASE d = c
    BY <1>1, <1>4, <2>1 DEF FlowInv, Loop!TypeOK
  <2>2. CASE d # c
    BY <1>1, <2>2 DEF FlowInv, Loop!TypeOK, BatchHeld
  <2> QED
    BY <2>1, <2>2
<1>10. Loop!TypeOK'
  <2>1. Tail(batch[c]) \in Seq(Loop!KernelEvent)
    BY <1>3, <1>7, SeqMonotonic
  <2> QED
    BY <1>1, <1>6, <2>1 DEF FlowInv, Loop!TypeOK, Loop!KernelEvent, Loop!Event
<1>11. Ev!TypeOK'
  BY <1>10, EvTypeKept DEF FlowInv, EventLoop
<1>12. OwnTypes'
  BY <1>1 DEF FlowInv, OwnTypes, EventLoop, userVars
<1> QED
  BY <1>8, <1>9, <1>10, <1>11, <1>12 DEF FlowInv

LEMMA TurnFlow ==
  ASSUME FlowInv, NEW c \in Conns, EventLoop(c)
  PROVE  FlowInv'
<1>1. CASE \/ Loop!StopOnClose(c) \/ Loop!KeepRunning(c) \/ Loop!PollReady(c)
           \/ Loop!PollBroken(c) \/ Loop!PollIdle(c) \/ Loop!ReadBlocks(c) \/ Loop!ReadClosed(c)
  <2>1. /\ loopPc[c] # "callback"
        /\ \E pc \in {"top", "poll", "read", "blocked", "ended"} : loopPc' = [loopPc EXCEPT ![c] = pc]
        /\ \/ UNCHANGED <<closeMsg, eventTx>>
           \/ /\ eventTx' = [eventTx EXCEPT ![c] = FALSE]
              /\ closeMsg' = [closeMsg EXCEPT ![c] = FALSE]
        /\ UNCHANGED <<batch, closeTx, channel, fdEvents, context, hangup, bufferToUpdate>>
    BY <1>1 DEF Loop!StopOnClose, Loop!KeepRunning, Loop!PollReady, Loop!PollBroken,
       Loop!PollIdle, Loop!ReadBlocks, Loop!ReadClosed, Loop!Leave, Loop!Goto, Loop!At,
       Loop!libVars
  <2>2. UNCHANGED monitor
    BY DEF EventLoop, Loop!Turn
  <2>3. Loop!TypeOK'
    BY <2>1, <2>2 DEF FlowInv, Loop!TypeOK, Loop!KernelEvent, Loop!Event
  <2>4. Ev!TypeOK'
    BY <2>3, EvTypeKept DEF FlowInv, EventLoop
  <2>5. OwnTypes'
    BY <2>1 DEF FlowInv, OwnTypes, EventLoop, userVars
  <2>6. \A d \in Conns : loopPc'[d] = "callback" <=> loopPc[d] = "callback"
    BY <2>1 DEF FlowInv, Loop!TypeOK
  <2> QED
    BY <2>1, <2>3, <2>4, <2>5, <2>6, FlowQuiet DEF EventLoop
<1> QED
  BY <1>1, ReadFlow, CallbackFlow DEF EventLoop, Loop!Turn

-----------------------------------------------------------------------------
(* The tasks' steps.                                                       *)

\* They leave everything else alone.
LEMMA TaskFlow ==
  ASSUME FlowInv, Ev!TypeOK',
         UNCHANGED <<loopPc, batch, closeMsg, closeTx>>, UNCHANGED libVars, OwnTypes'
  PROVE  FlowInv'
<1>1. Loop!TypeOK'
  BY LoopTypeKept DEF FlowInv, libVars
<1> QED
  BY <1>1, FlowQuiet DEF FlowInv, libVars

\* Taking the first event off a channel.
LEMMA TakeType ==
  ASSUME Ev!TypeOK, NEW c \in Conns, channel[c] # <<>>, Ev!Take(c)
  PROVE  /\ channel' \in [Conns -> Seq(Ev!Event)]
         /\ \A d \in Conns : Len(channel'[d]) <= EventCap
<1>1. channel[c] \in Seq(Ev!Event) /\ Len(channel[c]) \in Nat /\ Len(channel[c]) <= EventCap
  BY LenProperties DEF Ev!TypeOK
<1>2. Tail(channel[c]) \in Seq(Ev!Event) /\ Len(Tail(channel[c])) = Len(channel[c]) - 1
  BY <1>1, HeadTailProperties
<1>3. Len(Tail(channel[c])) <= EventCap
  BY <1>1, <1>2, Values
<1> QED
  BY <1>2, <1>3 DEF Ev!Take, Ev!TypeOK

\* Broadcasting an id, to a receiver that may be full.
LEMMA BroadcastType ==
  ASSUME Ev!TypeOK, NEW c \in Conns, NEW id \in BufferIds, Ev!Broadcast(c, id)
  PROVE  /\ inbox' \in [Conns -> Seq(BufferIds)]
         /\ \A d \in Conns : Len(inbox'[d]) <= UpdateCap
         /\ lagged' \in [Conns -> BOOLEAN]
<1> DEFINE full == Len(inbox[c]) = UpdateCap
           kept == IF full THEN Tail(inbox[c]) ELSE inbox[c]
<1>1. inbox[c] \in Seq(BufferIds) /\ Len(inbox[c]) \in Nat /\ Len(inbox[c]) <= UpdateCap
  BY LenProperties DEF Ev!TypeOK
<1>2. kept \in Seq(BufferIds) /\ Len(kept) \in Nat /\ Len(kept) < UpdateCap
  <2>1. CASE full
    <3>1. inbox[c] # <<>>
      BY <1>1, <2>1, Values, EmptySeq
    <3>2. Tail(inbox[c]) \in Seq(BufferIds) /\ Len(Tail(inbox[c])) = Len(inbox[c]) - 1
      BY <1>1, <3>1, HeadTailProperties
    <3> QED
      BY <1>1, <2>1, <3>2, Values
  <2>2. CASE ~full
    BY <1>1, <2>2, Values
  <2> QED
    BY <2>1, <2>2
<1>3. Append(kept, id) \in Seq(BufferIds) /\ Len(Append(kept, id)) <= UpdateCap
  BY <1>2, Values, AppendProperties
<1>4. inbox' = [inbox EXCEPT ![c] = Append(kept, id)]
  BY DEF Ev!Broadcast
<1>5. lagged' \in [Conns -> BOOLEAN]
  BY DEF Ev!Broadcast, Ev!TypeOK
<1> HIDE DEF kept
<1> QED
  BY <1>3, <1>4, <1>5 DEF Ev!TypeOK

LEMMA MonitorType ==
  ASSUME Ev!TypeOK, NEW c \in Conns, Ev!Monitor(c), UNCHANGED eventTx
  PROVE  Ev!TypeOK'
<1> USE DEF Ev!Event
<1>1. CASE Ev!MonitorMode(c)
  <2>1. Head(channel[c]) \in Modes /\ channel[c] # <<>> /\ Ev!Take(c)
    BY <1>1 DEF Ev!MonitorMode, Ev!Receives
  <2>2. currentMode' \in [Conns -> Modes \cup {NoMode}] /\ modeVersion' \in [Conns -> Nat]
    <3>1. CASE held[c]
      <4>1. /\ currentMode' = [currentMode EXCEPT ![c] = Head(channel[c])]
            /\ modeVersion' = [modeVersion EXCEPT ![c] = modeVersion[c] + 1]
        BY <1>1, <3>1 DEF Ev!MonitorMode
      <4> QED
        BY <2>1, <4>1 DEF Ev!TypeOK
    <3>2. CASE ~held[c]
      BY <1>1, <3>2 DEF Ev!MonitorMode, Ev!TypeOK
    <3> QED
      BY <3>1, <3>2
  <2> QED
    BY <1>1, <2>1, <2>2, TakeType DEF Ev!MonitorMode, Ev!TypeOK, Ev!updateVars
<1>2. CASE Ev!MonitorUpdate(c)
  <2>1. Head(channel[c]) \in BufferIds /\ channel[c] # <<>> /\ Ev!Take(c)
    BY <1>2 DEF Ev!MonitorUpdate, Ev!Receives
  <2>2. /\ inbox' \in [Conns -> Seq(BufferIds)]
        /\ \A d \in Conns : Len(inbox'[d]) <= UpdateCap
        /\ lagged' \in [Conns -> BOOLEAN]
    <3>1. CASE updatePc[c] = "waiting"
      BY <1>2, <2>1, <3>1, BroadcastType DEF Ev!MonitorUpdate
    <3>2. CASE updatePc[c] # "waiting"
      BY <1>2, <3>2 DEF Ev!MonitorUpdate, Ev!TypeOK
    <3> QED
      BY <3>1, <3>2
  <2> QED
    BY <1>2, <2>1, <2>2, TakeType DEF Ev!MonitorUpdate, Ev!TypeOK, Ev!modeVars
<1>3. CASE Ev!MonitorOther(c)
  <2>1. channel[c] # <<>> /\ Ev!Take(c)
    BY <1>3 DEF Ev!MonitorOther, Ev!Receives
  <2> QED
    BY <1>3, <2>1, TakeType DEF Ev!MonitorOther, Ev!TypeOK, Ev!modeVars, Ev!updateVars
<1>4. CASE Ev!MonitorClosed(c)
  BY <1>4 DEF Ev!MonitorClosed, Ev!TypeOK, Ev!modeVars, Ev!updateVars
<1> QED
  BY <1>1, <1>2, <1>3, <1>4 DEF Ev!Monitor

LEMMA MonitorFlow ==
  ASSUME FlowInv, NEW c \in Conns, Monitor(c)
  PROVE  FlowInv'
<1>1. UNCHANGED <<userVars, loopVars, libVars>> /\ Ev!Monitor(c)
  BY DEF Monitor
<1>2. Ev!TypeOK'
  BY <1>1, MonitorType DEF FlowInv, loopVars
<1>3. OwnTypes'
  BY <1>1 DEF FlowInv, OwnTypes, userVars, libVars
<1> QED
  BY <1>1, <1>2, <1>3, TaskFlow DEF loopVars

LEMMA AwaitModeFlow ==
  ASSUME FlowInv, conn \in Conns, NEW w \in Waiters, AwaitMode(w)
  PROVE  FlowInv'
<1> DEFINE pcs == {"idle", "checked", "waiting"} \cup Ev!AwaitResults
<1>1. /\ UNCHANGED <<userVars, loopVars, libVars>>
      /\ UNCHANGED <<Ev!monitorVars, held, currentMode, modeVersion, Ev!updateVars>>
      /\ \E pc \in pcs : Ev!SetModePc(conn, w, pc)
      /\ \/ UNCHANGED seen
         \/ \E n \in {0, modeVersion[conn]} : seen' = [seen EXCEPT ![conn][w] = n]
  BY DEF AwaitMode, Ev!AwaitMode, Ev!SubscribeMode, Ev!ModeChanged, Ev!ModeClosed,
     Ev!ModeTimeout, Ev!ModeCancel, Ev!AwaitResults
<1>2. modePc' \in [Conns -> [Waiters -> pcs]]
  BY <1>1 DEF FlowInv, Ev!TypeOK, Ev!SetModePc
<1>3. seen' \in [Conns -> [Waiters -> Nat]]
  <2>1. 0 \in Nat /\ modeVersion[conn] \in Nat /\ seen \in [Conns -> [Waiters -> Nat]]
    BY DEF FlowInv, Ev!TypeOK
  <2>2. ASSUME NEW n \in Nat, seen' = [seen EXCEPT ![conn][w] = n]
        PROVE  seen' \in [Conns -> [Waiters -> Nat]]
    BY <2>1, <2>2
  <2> QED
    BY <1>1, <2>1, <2>2
<1>4. Ev!TypeOK'
  BY <1>1, <1>2, <1>3 DEF FlowInv, Ev!TypeOK, Ev!monitorVars, Ev!updateVars, loopVars, Ev!Event,
     Ev!AwaitResults
<1>5. OwnTypes'
  BY <1>1 DEF FlowInv, OwnTypes, userVars, libVars
<1> QED
  BY <1>1, <1>4, <1>5, TaskFlow DEF loopVars

\* A call of await_buffer_update that ends leaves an empty receiver behind.
LEMMA EndUpdateType ==
  ASSUME Ev!TypeOK, NEW c \in Conns, NEW result \in {"idle"} \cup Ev!AwaitResults,
         Ev!EndUpdate(c, result), UNCHANGED eventTx
  PROVE  Ev!TypeOK'
<1>1. inbox' \in [Conns -> Seq(BufferIds)] /\ \A d \in Conns : Len(inbox'[d]) <= UpdateCap
  <2>1. <<>> \in Seq(BufferIds) /\ Len(<<>>) = 0
    BY EmptySeq
  <2> QED
    BY <2>1, Values DEF Ev!EndUpdate, Ev!TypeOK
<1>2. /\ updatePc' \in [Conns -> {"idle", "waiting"} \cup Ev!AwaitResults]
      /\ target' \in [Conns -> BufferIds \cup {NoBuffer}]
      /\ lagged' \in [Conns -> BOOLEAN]
  BY DEF Ev!EndUpdate, Ev!TypeOK, Ev!AwaitResults
<1> QED
  BY <1>1, <1>2 DEF Ev!EndUpdate, Ev!TypeOK, Ev!monitorVars, Ev!modeVars, Ev!Event, Ev!AwaitResults

LEMMA AwaitUpdateFlow ==
  ASSUME FlowInv, conn \in Conns, AwaitUpdate
  PROVE  FlowInv'
<1>1. UNCHANGED <<userVars, loopVars, libVars>>
  BY DEF AwaitUpdate
<1>2. Ev!TypeOK'
  <2>1. CASE Ev!UpdateReturns(conn)
    BY <1>1, <2>1, EndUpdateType DEF Ev!UpdateReturns, Ev!AwaitResults, FlowInv, loopVars
  <2>2. CASE Ev!UpdateSkips(conn)
    <3>1. inbox[conn] \in Seq(BufferIds) /\ inbox[conn] # <<>> /\ Len(inbox[conn]) \in Nat
      BY <2>2, LenProperties DEF Ev!UpdateSkips, FlowInv, Ev!TypeOK
    <3>2. Tail(inbox[conn]) \in Seq(BufferIds) /\ Len(Tail(inbox[conn])) = Len(inbox[conn]) - 1
      BY <3>1, HeadTailProperties
    <3>3. inbox' = [inbox EXCEPT ![conn] = Tail(inbox[conn])]
      BY <2>2 DEF Ev!UpdateSkips
    <3>4. ASSUME NEW d \in Conns PROVE Len(inbox'[d]) <= UpdateCap
      BY <3>1, <3>2, <3>3, Values DEF FlowInv, Ev!TypeOK
    <3>5. inbox' \in [Conns -> Seq(BufferIds)]
      BY <3>2, <3>3 DEF FlowInv, Ev!TypeOK
    <3> QED
      BY <1>1, <2>2, <3>4, <3>5 DEF Ev!UpdateSkips, FlowInv, Ev!TypeOK, Ev!monitorVars,
         Ev!modeVars, loopVars, Ev!Event, Ev!AwaitResults
  <2>3. CASE Ev!UpdateLagged(conn)
    BY <1>1, <2>3 DEF Ev!UpdateLagged, FlowInv, Ev!TypeOK, Ev!monitorVars, Ev!modeVars, loopVars,
       Ev!Event, Ev!AwaitResults
  <2>4. CASE Ev!UpdateTimeout(conn)
    BY <1>1, <2>4, EndUpdateType DEF Ev!UpdateTimeout, Ev!AwaitResults, FlowInv, loopVars
  <2> QED
    BY <2>1, <2>2, <2>3, <2>4 DEF AwaitUpdate
<1>3. OwnTypes'
  BY <1>1 DEF FlowInv, OwnTypes, userVars, libVars
<1> QED
  BY <1>1, <1>2, <1>3, TaskFlow DEF loopVars

-----------------------------------------------------------------------------
(* The kernel's and the user's steps.                                      *)

\* The kernel queues an event it may emit; the bound on modes leaves room.
LEMMA EmitFlow ==
  ASSUME FlowInv, NEW e \in Emittable, fdEvents' = Append(fdEvents, e), Len(fdEvents) < FdCap,
         UNCHANGED <<batch, bufferToUpdate>>
  PROVE  /\ fdEvents' \in Seq(Emittable) /\ Emittable' = Emittable
         /\ fdEvents' \in Seq(Loop!KernelEvent) /\ Len(fdEvents') <= FdCap
<1>1. fdEvents \in Seq(Emittable) /\ Len(fdEvents) \in Nat
  BY LenProperties DEF FlowInv, Asked
<1>2. fdEvents' \in Seq(Emittable) /\ Len(fdEvents') = Len(fdEvents) + 1
  BY <1>1, AppendProperties
<1>3. Emittable' = Emittable /\ Emittable \subseteq Loop!KernelEvent
  BY DEF Emittable, Loop!KernelEvent
<1> QED
  BY <1>1, <1>2, <1>3, Values, SeqMonotonic

LEMMA KernelFlow ==
  ASSUME FlowInv, Kernel
  PROVE  FlowInv'
<1>1. UNCHANGED <<userVars, loopVars, taskVars>>
  BY DEF Kernel
<1>2. CASE Lib!Unplug
  <2>1. UNCHANGED <<context, connected, registered, bufferToUpdate, updatePending, fdEvents,
                    modesEmitted>>
    BY <1>2 DEF Lib!Unplug
  <2>2. OwnTypes'
    BY <1>1, <2>1 DEF FlowInv, OwnTypes, userVars
  <2>3. Ev!TypeOK'
    BY <1>1 DEF FlowInv, Ev!TypeOK, loopVars, taskVars, Ev!Event, Ev!AwaitResults
  <2>4. Loop!TypeOK'
    BY <1>1, <1>2, <2>1 DEF FlowInv, Loop!TypeOK, loopVars, taskVars, Loop!KernelEvent, Loop!Event,
       Lib!Unplug
  <2> QED
    BY <1>1, <2>1, <2>2, <2>3, <2>4, FlowQuiet DEF loopVars
<1>3. ASSUME NEW e \in Emittable, fdEvents' = Append(fdEvents, e), Len(fdEvents) < FdCap,
             modesEmitted' \in 0..MaxModes, updatePending' \in BOOLEAN,
             updatePending' => updatePending,
             UNCHANGED <<context, connected, registered, bufferToUpdate, hangup>>
      PROVE  FlowInv'
  <2>1. UNCHANGED <<batch, bufferToUpdate>>
    BY <1>1, <1>3 DEF loopVars
  <2>2. /\ fdEvents' \in Seq(Emittable) /\ Emittable' = Emittable
        /\ fdEvents' \in Seq(Loop!KernelEvent) /\ Len(fdEvents') <= FdCap
    BY <1>3, <2>1, EmitFlow
  <2>3. OwnTypes'
    BY <1>1, <1>3, <2>2 DEF FlowInv, OwnTypes, userVars
  <2>4. Ev!TypeOK'
    BY <1>1 DEF FlowInv, Ev!TypeOK, loopVars, taskVars, Ev!Event, Ev!AwaitResults
  <2>5. Loop!TypeOK'
    BY <1>1, <1>3, <2>2 DEF FlowInv, Loop!TypeOK, loopVars, taskVars, Loop!KernelEvent, Loop!Event
  <2>6. Asked' /\ BatchHeld'
    BY <1>1, <1>3, <2>2 DEF FlowInv, Asked, BatchHeld, loopVars
  <2> QED
    BY <2>3, <2>4, <2>5, <2>6 DEF FlowInv
<1>4. Modes \cup {Other} \subseteq Emittable /\ (updatePending => UpdateReady \in Emittable)
  BY Values DEF Emittable, FlowInv, Asked
<1>5. Len(fdEvents) \in Nat /\ modesEmitted \in 0..MaxModes
  BY LenProperties DEF FlowInv, Asked, OwnTypes
<1>6. updatePending \in BOOLEAN
  BY DEF FlowInv, OwnTypes
<1>7. CASE Lib!KernelUpdate
  BY <1>3, <1>4, <1>5, <1>7 DEF Lib!KernelUpdate
<1>8. ASSUME NEW m \in Modes, Lib!KernelMode(m) PROVE FlowInv'
  <2>1. /\ modesEmitted < MaxModes /\ modesEmitted' = modesEmitted + 1
        /\ Len(fdEvents) < FdCap - 1 /\ fdEvents' = Append(fdEvents, m)
        /\ UNCHANGED <<context, connected, registered, bufferToUpdate, updatePending, hangup>>
    BY <1>8 DEF Lib!KernelMode
  <2>2. modesEmitted' \in 0..MaxModes /\ Len(fdEvents) < FdCap
    BY <1>5, <2>1, Values
  <2> QED
    BY <1>3, <1>4, <1>6, <2>1, <2>2
<1>9. CASE Lib!KernelOther
  <2>1. /\ Len(fdEvents) < FdCap - 1 /\ fdEvents' = Append(fdEvents, Other)
        /\ UNCHANGED <<context, connected, registered, bufferToUpdate, updatePending, hangup,
                       modesEmitted>>
    BY <1>9 DEF Lib!KernelOther
  <2>2. Len(fdEvents) < FdCap
    BY <1>5, <2>1, Values
  <2> QED
    BY <1>3, <1>4, <1>5, <1>6, <2>1, <2>2
<1> QED
  BY <1>2, <1>7, <1>8, <1>9 DEF Kernel

\* A request is for a buffer: from here on an update may be announced.
LEMMA RequestFlow ==
  ASSUME FlowInv, NEW id \in BufferIds, RequestUpdate(id)
  PROVE  FlowInv'
<1>1. PICK ready \in BOOLEAN : /\ Lib!evdi_request_update(id, ready)
                               /\ phase' = IF ready THEN "connected" ELSE "requested"
                               /\ request' = IF ready THEN NoBuffer ELSE id
  BY DEF RequestUpdate
<1>2. UNCHANGED <<conn, buffers, memory, loopVars, taskVars>>
  BY DEF RequestUpdate
<1>3. /\ bufferToUpdate' = id /\ updatePending' = ~ready
      /\ UNCHANGED <<context, connected, registered, fdEvents, hangup, modesEmitted>>
  BY <1>1 DEF Lib!evdi_request_update
<1>4. Emittable' = Loop!KernelEvent /\ Emittable \subseteq Loop!KernelEvent
  BY <1>3, Values DEF Emittable
<1>5. Asked'
  <2>1. fdEvents \in Seq(Loop!KernelEvent) /\ batch \in [Conns -> Seq(Loop!KernelEvent)]
    BY DEF FlowInv, Loop!TypeOK
  <2> QED
    BY <1>2, <1>3, <1>4, <2>1, Values DEF Asked, loopVars
<1>6. OwnTypes'
  BY <1>1, <1>2, <1>3 DEF FlowInv, OwnTypes, Phases
<1>7. Ev!TypeOK'
  BY <1>2 DEF FlowInv, Ev!TypeOK, loopVars, taskVars, Ev!Event, Ev!AwaitResults
<1>8. Loop!TypeOK'
  BY <1>2, <1>3 DEF FlowInv, Loop!TypeOK, loopVars, taskVars, Loop!KernelEvent, Loop!Event
<1>9. BatchHeld'
  BY <1>2 DEF FlowInv, BatchHeld, loopVars
<1> QED
  BY <1>5, <1>6, <1>7, <1>8, <1>9 DEF FlowInv

\* Calls of libevdi that wait for nothing and add no event.
LEMMA CallFlow ==
  ASSUME FlowInv, OwnTypes',
         UNCHANGED <<loopVars, taskVars>>, UNCHANGED <<hangup, bufferToUpdate>>,
         context' \in {"open", "closed"}, fdEvents' \in {fdEvents, <<>>},
         updatePending' => updatePending
  PROVE  FlowInv'
<1>1. <<>> \in Seq(Emittable) /\ <<>> \in Seq(Loop!KernelEvent)
  BY EmptySeq
<1>2. Emittable' = Emittable
  BY DEF Emittable, Loop!KernelEvent
<1>3. Asked' /\ BatchHeld'
  BY <1>1, <1>2 DEF FlowInv, Asked, BatchHeld, loopVars
<1>4. Ev!TypeOK'
  BY DEF FlowInv, Ev!TypeOK, loopVars, taskVars, Ev!Event, Ev!AwaitResults
<1>5. Loop!TypeOK'
  BY <1>1 DEF FlowInv, Loop!TypeOK, loopVars, taskVars, Loop!KernelEvent, Loop!Event
<1> QED
  BY <1>3, <1>4, <1>5 DEF FlowInv

LEMMA ConnectFlow ==
  ASSUME FlowInv, NEW c \in Conns, Connect(c)
  PROVE  FlowInv'
<1>1. /\ loopPc[c] = "none" /\ loopPc' = [loopPc EXCEPT ![c] = "top"]
      /\ closeTx' = [closeTx EXCEPT ![c] = TRUE] /\ eventTx' = [eventTx EXCEPT ![c] = TRUE]
      /\ monitor' = [monitor EXCEPT ![c] = "running"] /\ held' = [held EXCEPT ![c] = TRUE]
      /\ UNCHANGED <<batch, closeMsg, channel, currentMode, modeVersion, modePc, seen, updatePc,
                     target, inbox, lagged>>
  BY DEF Connect, Loop!Spawn, Loop!At, Loop!Goto, Ev!New, Ev!modeVars, Ev!updateVars
<1>2. /\ phase' = "connected" /\ conn' = c /\ connected' = TRUE
      /\ UNCHANGED <<request, buffers, memory, context, registered, bufferToUpdate, updatePending,
                     fdEvents, hangup, modesEmitted>>
  BY DEF Connect, Lib!evdi_connect
<1>3. OwnTypes'
  BY <1>2 DEF FlowInv, OwnTypes, Phases
<1>4. Loop!TypeOK'
  BY <1>1, <1>2 DEF FlowInv, Loop!TypeOK, Loop!KernelEvent, Loop!Event
<1>5. Ev!TypeOK'
  BY <1>1 DEF FlowInv, Ev!TypeOK, Ev!Event, Ev!AwaitResults
<1>6. \A d \in Conns : loopPc'[d] = "callback" <=> loopPc[d] = "callback"
  BY <1>1 DEF FlowInv, Loop!TypeOK
<1> QED
  BY <1>1, <1>2, <1>3, <1>4, <1>5, <1>6, FlowQuiet

LEMMA DropFlow ==
  ASSUME FlowInv, DropSendClose \/ DropFields
  PROVE  FlowInv'
<1>1. CASE DropSendClose
  <2>1. /\ phase' = "closing"
        /\ closeMsg' = [closeMsg EXCEPT ![conn] = loopPc[conn] # "ended"]
        /\ UNCHANGED <<conn, request, buffers, memory, loopPc, batch, closeTx, eventTx>>
        /\ UNCHANGED <<taskVars, libVars>>
    BY <1>1 DEF DropSendClose
  <2>2. OwnTypes'
    BY <2>1 DEF FlowInv, OwnTypes, Phases, libVars
  <2>3. Loop!TypeOK'
    BY <2>1 DEF FlowInv, Loop!TypeOK, Loop!KernelEvent, Loop!Event, taskVars, libVars
  <2>4. Ev!TypeOK'
    BY <2>1 DEF FlowInv, Ev!TypeOK, Ev!Event, Ev!AwaitResults, taskVars
  <2> QED
    BY <2>1, <2>2, <2>3, <2>4, FlowQuiet DEF libVars
<1>2. CASE DropFields
  <2>1. /\ phase' = "closed" /\ conn' = NoConn /\ buffers' = {} /\ Remember("owned", "freed")
        /\ held' = [held EXCEPT ![conn] = FALSE]
        /\ closeTx' = [closeTx EXCEPT ![conn] = FALSE]
        /\ UNCHANGED <<request, loopPc, batch, closeMsg, eventTx, channel, monitor, currentMode,
                       modeVersion, modePc, seen, updatePc, target, inbox, lagged>>
        /\ UNCHANGED libVars
    BY <1>2 DEF DropFields, Ev!Drop, Ev!monitorVars, Ev!modeVars, Ev!updateVars
  <2>2. OwnTypes'
    <3>1. memory' \in [BufferIds -> {"none", "owned", "leaked", "freed"}]
      BY <2>1 DEF FlowInv, OwnTypes, Remember
    <3> QED
      BY <2>1, <3>1 DEF FlowInv, OwnTypes, Phases, libVars
  <2>3. Loop!TypeOK'
    BY <2>1 DEF FlowInv, Loop!TypeOK, Loop!KernelEvent, Loop!Event, libVars
  <2>4. Ev!TypeOK'
    BY <2>1 DEF FlowInv, Ev!TypeOK, Ev!Event, Ev!AwaitResults
  <2> QED
    BY <2>1, <2>2, <2>3, <2>4, FlowQuiet DEF libVars
<1> QED
  BY <1>1, <1>2

LEMMA SubscribeFlow ==
  ASSUME FlowInv, ContractInv, conn \in Conns, SubscribeUpdate
  PROVE  FlowInv'
<1>1. /\ phase' = "awaiting" /\ request \in BufferIds
      /\ UNCHANGED <<conn, request, buffers, memory, loopVars, libVars>>
      /\ Ev!SubscribeUpdate(conn, request)
  BY DEF SubscribeUpdate, ContractInv, LibEvdiContract
<1>2. Ev!TypeOK'
  BY <1>1 DEF FlowInv, Ev!SubscribeUpdate, Ev!TypeOK, Ev!monitorVars, Ev!modeVars, loopVars,
     Ev!Event, Ev!AwaitResults
<1>3. OwnTypes'
  BY <1>1 DEF FlowInv, OwnTypes, Phases, libVars
<1> QED
  BY <1>1, <1>2, <1>3, TaskFlow DEF loopVars

LEMMA FinishFlow ==
  ASSUME FlowInv, conn \in Conns, FinishRequest \/ CancelRequest
  PROVE  FlowInv'
<1>1. /\ phase' = "connected" /\ request' = NoBuffer
      /\ UNCHANGED <<conn, buffers, memory, loopVars, libVars>>
  BY DEF FinishRequest, CancelRequest
<1>2. OwnTypes'
  BY <1>1 DEF FlowInv, OwnTypes, Phases, libVars
<1>3. Ev!TypeOK'
  <2>1. CASE FinishRequest
    BY <1>1, <2>1 DEF FinishRequest, FlowInv, Ev!TypeOK, loopVars, taskVars, Ev!Event,
       Ev!AwaitResults
  <2>2. CASE CancelRequest
    BY <1>1, <2>2, EndUpdateType DEF CancelRequest, Ev!UpdateCancel, FlowInv, loopVars
  <2> QED
    BY <2>1, <2>2
<1> QED
  BY <1>1, <1>2, <1>3, TaskFlow DEF loopVars

LEMMA FlowNext == HandleInv /\ [Next]_vars => FlowInv'
<1> SUFFICES ASSUME HandleInv, [Next]_vars PROVE FlowInv'
  OBVIOUS
<1>1. FlowInv /\ ContractInv
  BY DEF HandleInv
<1>2. /\ phase \in {"connected", "requested", "awaiting"} => conn \in Conns
      /\ context \in {"open", "closed"} /\ OwnTypes
  BY DEF HandleInv, ServingInv, Connected, FlowInv, Loop!TypeOK
<1>3. CASE Disconnect
  <2>1. OwnTypes'
    BY <1>2, <1>3 DEF Disconnect, Remember, Lib!evdi_disconnect, OwnTypes, Phases
  <2> QED
    BY <1>1, <1>2, <1>3, <2>1, CallFlow DEF Disconnect, Lib!evdi_disconnect
<1>4. CASE DropUnconnected \/ DropClose
  <2>1. OwnTypes'
    <3>1. fdEvents' = <<>> /\ Len(<<>>) = 0 /\ 0 <= FdCap
      BY <1>4, Values DEF DropUnconnected, DropClose, Lib!evdi_close
    <3>2. Len(fdEvents') <= FdCap
      BY <3>1
    <3> QED
      BY <1>2, <1>4, <3>2 DEF DropUnconnected, DropClose, Lib!evdi_close, OwnTypes, Phases
  <2> QED
    BY <1>1, <1>2, <1>4, <2>1, CallFlow DEF DropUnconnected, DropClose, Lib!evdi_close
<1>5. CASE DropDisconnect
  <2>1. OwnTypes'
    BY <1>2, <1>5 DEF DropDisconnect, Lib!evdi_disconnect, OwnTypes, Phases
  <2> QED
    BY <1>1, <1>2, <1>5, <2>1, CallFlow DEF DropDisconnect, Lib!evdi_disconnect
<1>6. ASSUME NEW id \in BufferIds, NewBuffer(id) PROVE FlowInv'
  <2>1. OwnTypes'
    BY <1>2, <1>6 DEF NewBuffer, Lib!evdi_register_buffer, OwnTypes, Phases
  <2> QED
    BY <1>1, <1>2, <1>6, <2>1, CallFlow DEF NewBuffer, Lib!evdi_register_buffer
<1>7. ASSUME NEW id \in BufferIds, UnregisterBuffer(id) PROVE FlowInv'
  <2>1. OwnTypes'
    BY <1>2, <1>7 DEF UnregisterBuffer, Lib!evdi_unregister_buffer, OwnTypes, Phases
  <2> QED
    BY <1>1, <1>2, <1>7, <2>1, CallFlow DEF UnregisterBuffer, Lib!evdi_unregister_buffer
<1>8. CASE SubscribeUpdate
  BY <1>1, <1>2, <1>8, SubscribeFlow DEF SubscribeUpdate
<1>9. CASE AwaitUpdate
  BY <1>1, <1>2, <1>9, AwaitUpdateFlow DEF AwaitUpdate
<1>10. CASE FinishRequest \/ CancelRequest
  BY <1>1, <1>2, <1>10, FinishFlow DEF FinishRequest, CancelRequest
<1>11. ASSUME NEW w \in Waiters, AwaitMode(w) PROVE FlowInv'
  BY <1>1, <1>2, <1>11, AwaitModeFlow DEF AwaitMode
<1>12. CASE UNCHANGED vars
  <2>1. OwnTypes'
    BY <1>2, <1>12 DEF OwnTypes, Phases, vars, userVars, libVars
  <2> QED
    BY <1>1, <1>2, <1>12, <2>1, CallFlow DEF vars, libVars
<1> QED
  BY <1>1, <1>3, <1>4, <1>5, <1>6, <1>7, <1>8, <1>9, <1>10, <1>11, <1>12, ConnectFlow, TurnFlow,
     MonitorFlow, DropFlow, RequestFlow, KernelFlow DEF Next, Finished

LEMMA HandleInvariance == Spec => []HandleInv
<1>1. Init => HandleInv
  BY ContractInit, ServingInit, FlowInit DEF HandleInv
<1>2. HandleInv /\ [Next]_vars => HandleInv'
  BY ContractNext, ServingNext, FlowNext DEF HandleInv
<1> QED
  BY <1>1, <1>2, PTL DEF Spec

\* Every variable of the library on an opened context keeps its type, its threads,
\* tasks and libevdi's state included: no channel, inbox or fd outgrows its
\* capacity, and a callback for a ready update always has the id of a buffer,
\* on both runtimes and for any number of connections of the context.
THEOREM HandleTypeCorrect == Spec => []TypeOK
<1>1. HandleInv => TypeOK
  BY DEF HandleInv, FlowInv, OwnTypes, TypeOK
<1> QED
  BY <1>1, HandleInvariance, PTL

-----------------------------------------------------------------------------
(* The components' specifications are implemented.                         *)

\* A turn of a loop is a send, the end of the loop or nothing to the events.
LEMMA TurnOpen ==
  ASSUME HandleInv, NEW c \in Conns, EventLoop(c)
  PROVE  [Ev!OpenNext]_(Ev!vars)
<1>1. /\ Loop!Turn(c)
      /\ UNCHANGED <<held, currentMode, modeVersion, modePc, seen, updatePc, target, inbox, lagged>>
  BY DEF EventLoop
<1>2. loopPc[c] \notin {"none", "ended"} /\ eventTx[c] /\ UNCHANGED monitor
  BY <1>1, TurnEnds DEF HandleInv, ServingInv
<1>3. CASE Loop!StopOnClose(c) \/ Loop!PollBroken(c)
  <2>1. Ev!LoopEnds(c)
    BY <1>1, <1>2, <1>3 DEF Loop!StopOnClose, Loop!PollBroken, Loop!Leave, Ev!LoopEnds,
       Ev!modeVars, Ev!updateVars
  <2> QED
    BY <2>1 DEF Ev!OpenNext
<1>4. CASE Loop!SendEvent(c)
  <2>1. batch[c] \in Seq(Emittable) /\ batch[c] # <<>>
    BY <1>4 DEF Loop!SendEvent, Loop!At, HandleInv, FlowInv, Asked, BatchHeld
  <2>2. Head(batch[c]) \in Emittable
    BY <2>1, HeadTailProperties
  <2>3. Loop!ToEvent(Head(batch[c])) \in Ev!Event
    BY <2>2, Values DEF Emittable, Loop!ToEvent, HandleInv, FlowInv, Loop!TypeOK
  <2>4. Ev!Send(c, Loop!ToEvent(Head(batch[c])))
    BY <1>1, <1>2, <1>4 DEF Loop!SendEvent, Loop!libVars, Ev!Send, Ev!modeVars, Ev!updateVars
  <2> QED
    BY <2>3, <2>4 DEF Ev!OpenNext
<1>5. CASE UNCHANGED <<eventTx, channel>>
  BY <1>1, <1>2, <1>5 DEF Ev!vars
<1> QED
  BY <1>1, <1>3, <1>4, <1>5 DEF Loop!Turn, Loop!KeepRunning, Loop!PollReady, Loop!PollIdle,
     Loop!ReadEvents, Loop!ReadBlocks, Loop!ReadClosed, Loop!SendToNobody

LEMMA OpenStep == HandleInv /\ [Next]_vars => [Ev!OpenNext]_(Ev!vars)
<1> SUFFICES ASSUME HandleInv, [Next]_vars PROVE [Ev!OpenNext]_(Ev!vars)
  OBVIOUS
<1>1. phase \in Connected \cup Dropping => conn \in Conns
  BY DEF HandleInv, ServingInv
<1>2. ASSUME NEW c \in Conns, Connect(c) PROVE Ev!OpenNext
  <2>1. Ev!Connect(c)
    BY <1>2 DEF Connect, Loop!Spawn, Ev!Connect
  <2> QED
    BY <2>1 DEF Ev!OpenNext
<1>3. ASSUME NEW c \in Conns, Ev!Step(c), UNCHANGED eventTx PROVE Ev!OpenNext
  BY <1>3 DEF Ev!OpenNext
<1>4. ASSUME NEW c \in Conns, Monitor(c) PROVE Ev!OpenNext
  BY <1>3, <1>4 DEF Monitor, loopVars, Ev!Step
<1>5. CASE DropFields
  BY <1>1, <1>3, <1>5 DEF DropFields, Dropping, Ev!Step
<1>6. CASE SubscribeUpdate
  <2>1. request \in BufferIds
    BY <1>6 DEF SubscribeUpdate, HandleInv, ContractInv, LibEvdiContract
  <2> QED
    BY <1>1, <1>3, <1>6, <2>1 DEF SubscribeUpdate, Connected, loopVars, Ev!Step
<1>7. CASE AwaitUpdate
  BY <1>1, <1>3, <1>7 DEF AwaitUpdate, Connected, loopVars, Ev!Step
<1>8. CASE CancelRequest
  BY <1>1, <1>3, <1>8 DEF CancelRequest, Connected, loopVars, Ev!Step
<1>9. ASSUME NEW w \in Waiters, AwaitMode(w) PROVE Ev!OpenNext
  BY <1>1, <1>3, <1>9 DEF AwaitMode, Connected, loopVars, Ev!Step
<1>10. CASE UNCHANGED <<taskVars, eventTx>>
  BY <1>10 DEF taskVars, Ev!vars
<1>11. CASE Disconnect \/ DropUnconnected \/ DropSendClose \/ DropDisconnect \/ DropClose
  BY <1>10, <1>11 DEF Disconnect, DropUnconnected, DropSendClose, DropDisconnect, DropClose,
     loopVars
<1>12. ASSUME NEW id \in BufferIds, NewBuffer(id) \/ UnregisterBuffer(id) \/ RequestUpdate(id)
       PROVE  [Ev!OpenNext]_(Ev!vars)
  BY <1>10, <1>12 DEF NewBuffer, UnregisterBuffer, RequestUpdate, loopVars
<1>13. CASE FinishRequest \/ Kernel \/ UNCHANGED vars
  BY <1>10, <1>13 DEF FinishRequest, Kernel, vars, loopVars
<1> QED
  BY <1>2, <1>4, <1>5, <1>6, <1>7, <1>8, <1>9, <1>11, <1>12, <1>13, TurnOpen DEF Next, Finished

\* What HandleEvents was checked and proved for covers the composition: whatever
\* the user does with the Handle, each step of the library is one HandleEvents
\* allows on its own.  A callback sends only while its loop's boxed sender exists,
\* waits for room and hands over the id of a buffer, a loop ends once, and the
\* value is not dropped while one of its awaits borrows it.
THEOREM EventsCorrect == Spec => EventsImplemented
<1>1. Init => Ev!Init
  BY DEF Init
<1> QED
  BY <1>1, OpenStep, HandleInvariance, PTL DEF Spec, EventsImplemented, Ev!OpenSpec

LEMMA LoopStep == HandleInv /\ [Next]_vars => [Loop!Next]_(Loop!vars)
<1> SUFFICES ASSUME HandleInv, [Next]_vars PROVE [Loop!Next]_(Loop!vars)
  OBVIOUS
<1>1. /\ phase \in Connected \cup Dropping => conn \in Conns
      /\ phase \notin {"dropping", "closed"} \/ connected => context = "open"
  BY DEF HandleInv, ServingInv
<1>2. ASSUME NEW c \in Conns, Connect(c) PROVE Loop!Next
  <2>1. Loop!Connect(c)
    BY <1>1, <1>2 DEF Connect, Ev!New, Lib!evdi_connect, Loop!Connect, Loop!libVars
  <2> QED
    BY <2>1 DEF Loop!Next
<1>3. ASSUME NEW c \in Conns, EventLoop(c) PROVE Loop!Next
  BY <1>3 DEF EventLoop, Loop!Next
<1>4. ASSUME NEW c \in Conns, Monitor(c) PROVE Loop!Next
  <2>1. CASE Ev!MonitorClosed(c)
    <3>1. Loop!MonitorEnds(c)
      BY <1>4, <2>1 DEF Monitor, Ev!MonitorClosed, libVars, loopVars, Loop!MonitorEnds,
         Loop!loopVars, Loop!libVars
    <3> QED
      BY <3>1 DEF Loop!Next
  <2>2. CASE Ev!MonitorMode(c) \/ Ev!MonitorUpdate(c) \/ Ev!MonitorOther(c)
    <3>1. Loop!MonitorTakes(c)
      BY <1>4, <2>2 DEF Monitor, Ev!MonitorMode, Ev!MonitorUpdate, Ev!MonitorOther, Ev!Receives,
         Ev!Take, libVars, loopVars, Loop!MonitorTakes, Loop!loopVars, Loop!libVars
    <3> QED
      BY <3>1 DEF Loop!Next
  <2> QED
    BY <1>4, <2>1, <2>2 DEF Monitor, Ev!Monitor
<1>5. CASE DropSendClose
  <2>1. /\ conn \in Conns /\ closeTx[conn] /\ ~closeMsg[conn]
        /\ closeMsg' = [closeMsg EXCEPT ![conn] = loopPc[conn] # "ended"]
        /\ UNCHANGED <<loopPc, batch, closeTx, eventTx, taskVars, libVars>>
    BY <1>1, <1>5 DEF DropSendClose, Exclusive, HandleInv, ServingInv, Connected
  <2>2. CASE loopPc[conn] = "ended"
    <3>1. UNCHANGED closeMsg
      BY <2>1, <2>2 DEF HandleInv, ServingInv
    <3> QED
      BY <2>1, <3>1 DEF taskVars, libVars, Loop!vars
  <2>3. CASE loopPc[conn] # "ended"
    <3>1. Loop!SendClose(conn)
      BY <2>1, <2>3 DEF taskVars, libVars, Loop!SendClose, Loop!At, Loop!libVars
    <3> QED
      BY <2>1, <3>1 DEF Loop!Next
  <2> QED
    BY <2>2, <2>3
<1>6. CASE DropClose \/ DropUnconnected
  <2>1. Loop!CloseContext
    BY <1>1, <1>6 DEF DropClose, DropUnconnected, Lib!evdi_close, Loop!CloseContext, loopVars,
       taskVars, Loop!loopVars
  <2> QED
    BY <2>1 DEF Loop!Next
<1>7. CASE DropFields
  <2>1. conn \in Conns /\ closeTx[conn] /\ (closeMsg[conn] \/ loopPc[conn] = "ended")
    BY <1>1, <1>7 DEF DropFields, HandleInv, ServingInv, Dropping
  <2>2. Loop!DropCloseSender(conn)
    BY <1>7, <2>1 DEF DropFields, Ev!Drop, Ev!monitorVars, libVars, Loop!DropCloseSender, Loop!At,
       Loop!libVars
  <2> QED
    BY <2>1, <2>2 DEF Loop!Next
<1>8. ASSUME NEW id \in BufferIds, RequestUpdate(id) PROVE Loop!Next
  <2>1. Loop!Ask(id)
    BY <1>1, <1>8 DEF RequestUpdate, Exclusive, Lib!evdi_request_update, Loop!Ask, loopVars,
       taskVars, Loop!loopVars
  <2> QED
    BY <2>1 DEF Loop!Next
<1>9. CASE Kernel
  <2>1. UNCHANGED <<loopVars, channel, monitor>>
    BY <1>9 DEF Kernel, taskVars
  <2>2. ASSUME NEW e \in Loop!KernelEvent, e = UpdateReady => bufferToUpdate # NoBuffer,
               Lib!Working, Len(fdEvents) < FdCap, fdEvents' = Append(fdEvents, e),
               UNCHANGED <<context, hangup, bufferToUpdate>>
        PROVE  Loop!Next
    <3>1. Loop!Emit(e)
      BY <1>1, <2>1, <2>2 DEF Lib!Working, Loop!Emit, loopVars, Loop!loopVars
    <3> QED
      BY <3>1 DEF Loop!Next
  <2>3. CASE Lib!KernelUpdate
    <3>1. bufferToUpdate # NoBuffer
      BY <2>3 DEF Lib!KernelUpdate, HandleInv, FlowInv, Asked
    <3> QED
      BY <2>2, <2>3, <3>1, Values DEF Lib!KernelUpdate
  <2>4. Len(fdEvents) < FdCap - 1 => Len(fdEvents) < FdCap
    BY LenProperties, Values DEF HandleInv, FlowInv, Asked
  <2>5. CASE Lib!KernelOther
    BY <2>2, <2>4, <2>5, Values DEF Lib!KernelOther
  <2>6. ASSUME NEW m \in Modes, Lib!KernelMode(m) PROVE Loop!Next
    BY <2>2, <2>4, <2>6, Values DEF Lib!KernelMode
  <2>7. CASE Lib!Unplug
    <3>1. Loop!Unplug
      BY <2>1, <2>7 DEF Lib!Unplug, Loop!Unplug, loopVars, Loop!loopVars
    <3> QED
      BY <3>1 DEF Loop!Next
  <2> QED
    BY <1>9, <2>3, <2>5, <2>6, <2>7 DEF Kernel
<1>10. CASE UNCHANGED <<loopVars, channel, monitor, fdEvents, context, hangup, bufferToUpdate>>
  BY <1>10 DEF loopVars, Loop!vars
<1>11. CASE Disconnect \/ DropDisconnect
  BY <1>10, <1>11 DEF Disconnect, DropDisconnect, Lib!evdi_disconnect, taskVars
<1>12. ASSUME NEW id \in BufferIds, NewBuffer(id) \/ UnregisterBuffer(id)
       PROVE  [Loop!Next]_(Loop!vars)
  BY <1>10, <1>12 DEF NewBuffer, UnregisterBuffer, Lib!evdi_register_buffer,
     Lib!evdi_unregister_buffer, taskVars
<1>13. CASE SubscribeUpdate \/ AwaitUpdate \/ CancelRequest
  BY <1>10, <1>13 DEF SubscribeUpdate, AwaitUpdate, CancelRequest, Ev!SubscribeUpdate,
     Ev!UpdateReturns, Ev!UpdateSkips, Ev!UpdateLagged, Ev!UpdateTimeout, Ev!UpdateCancel,
     Ev!EndUpdate, Ev!monitorVars, libVars
<1>14. ASSUME NEW w \in Waiters, AwaitMode(w) PROVE [Loop!Next]_(Loop!vars)
  BY <1>10, <1>14 DEF AwaitMode, Ev!AwaitMode, Ev!SubscribeMode, Ev!ModeChanged, Ev!ModeClosed,
     Ev!ModeTimeout, Ev!ModeCancel, Ev!monitorVars, libVars
<1>15. CASE FinishRequest \/ UNCHANGED vars
  BY <1>10, <1>15 DEF FinishRequest, vars, taskVars, libVars
<1> QED
  BY <1>2, <1>3, <1>4, <1>5, <1>6, <1>7, <1>8, <1>9, <1>11, <1>12, <1>13, <1>14, <1>15
  DEF Next, Finished

\* What EventLoop was checked and proved for covers the composition, any number
\* of connections of one context included: a loop is sent one close message at
\* most and only while it runs, its close sender outlives that, the context is
\* closed once, and the kernel announces no update before a request.
THEOREM LoopCorrect == Spec => LoopImplemented
<1>1. Init => Loop!Init
  BY DEF Init, Ev!Init, Lib!LibInit, Loop!Init
<1> QED
  BY <1>1, LoopStep, HandleInvariance, PTL DEF Spec, LoopImplemented, Loop!Spec
=============================================================================
