------------------------- MODULE HandleWakeupProofs -------------------------
(***************************************************************************)
(* A theorem about Handle on the current-thread runtime with one           *)
(* connection: request_update does not miss its update, for any buffers,   *)
(* modes, number of await_mode calls and capacities of the channels, and   *)
(* whatever requests were abandoned before.                                *)
(***************************************************************************)
EXTENDS HandleProofs

-----------------------------------------------------------------------------
(* Occurrences in sequences.                                               *)

LEMMA OccursInAppend ==
  ASSUME NEW S, NEW s \in Seq(S), NEW x \in S, NEW e
  PROVE  /\ Occurs(x, Append(s, x))
         /\ Occurs(e, s) => Occurs(e, Append(s, x))
<1>1. /\ Len(s) \in Nat /\ Len(Append(s, x)) = Len(s) + 1
      /\ \A i \in 1..Len(s) : Append(s, x)[i] = s[i]
      /\ Append(s, x)[Len(s) + 1] = x
  BY LenProperties, AppendProperties
<1>2. Len(s) + 1 \in 1..Len(Append(s, x))
  BY <1>1
<1>3. \A i \in 1..Len(s) : i \in 1..Len(Append(s, x))
  BY <1>1
<1> QED
  BY <1>1, <1>2, <1>3 DEF Occurs

LEMMA OccursInTail ==
  ASSUME NEW S, NEW s \in Seq(S), s # <<>>, NEW e, Occurs(e, s), Head(s) # e
  PROVE  Occurs(e, Tail(s))
<1>1. PICK i \in 1..Len(s) : s[i] = e
  BY DEF Occurs
<1>2. /\ Len(s) \in Nat /\ Len(Tail(s)) = Len(s) - 1
      /\ \A j \in 1..Len(Tail(s)) : Tail(s)[j] = s[j + 1]
  BY LenProperties, HeadTailProperties
<1>3. i # 1
  BY <1>1
<1>4. i - 1 \in 1..Len(Tail(s)) /\ i - 1 + 1 = i
  BY <1>1, <1>2, <1>3
<1> QED
  BY <1>1, <1>2, <1>4 DEF Occurs

LEMMA OccursInPart ==
  ASSUME NEW S, NEW s \in Seq(S), NEW n \in 1..Len(s), NEW e, Occurs(e, s)
  PROVE  Occurs(e, SubSeq(s, 1, n)) \/ Occurs(e, SubSeq(s, n + 1, Len(s)))
<1>1. PICK i \in 1..Len(s) : s[i] = e
  BY DEF Occurs
<1>2. Len(s) \in Nat /\ n \in Int /\ i \in Int
  BY LenProperties
<1>3. \A k \in 1..Len(s) : s[k] \in S
  BY ElementOfSeq
<1>4. CASE i <= n
  <2>1. /\ Len(SubSeq(s, 1, n)) = n
        /\ \A k \in 1..n : SubSeq(s, 1, n)[k] = s[1 + k - 1]
    BY <1>2, <1>3, SubSeqProperties
  <2> QED
    BY <1>1, <1>2, <1>4, <2>1 DEF Occurs
<1>5. CASE n < i
  <2>1. /\ Len(SubSeq(s, n + 1, Len(s))) = Len(s) - n
        /\ \A k \in 1..Len(s) - n : SubSeq(s, n + 1, Len(s))[k] = s[n + 1 + k - 1]
    BY <1>2, <1>3, SubSeqProperties
  <2>2. i - n \in 1..Len(s) - n /\ n + 1 + (i - n) - 1 = i
    BY <1>1, <1>2, <1>5
  <2> QED
    BY <1>1, <2>1, <2>2 DEF Occurs
<1> QED
  BY <1>2, <1>4, <1>5

-----------------------------------------------------------------------------
(* The newest notice.                                                      *)

\* The newest notice in a channel or an inbox is for the request.
LastIsRequest(s) ==
  \E i \in 1..Len(s) : s[i] = request /\ \A j \in i + 1..Len(s) : s[j] \notin BufferIds

NoNotice(s) == \A j \in 1..Len(s) : s[j] \notin BufferIds

LEMMA LastOfAppend ==
  ASSUME NEW S, NEW s \in Seq(S), NEW x \in S
  PROVE  /\ x = request => LastIsRequest(Append(s, x))
         /\ x \notin BufferIds /\ LastIsRequest(s) => LastIsRequest(Append(s, x))
         /\ x \notin BufferIds /\ NoNotice(s) => NoNotice(Append(s, x))
<1>1. /\ Len(s) \in Nat /\ Len(Append(s, x)) = Len(s) + 1
      /\ \A i \in 1..Len(s) : Append(s, x)[i] = s[i]
      /\ Append(s, x)[Len(s) + 1] = x
  BY LenProperties, AppendProperties
<1> DEFINE a == Append(s, x)
<1> HIDE DEF a
<1>2. \A j \in 1..Len(a) : j \in 1..Len(s) \/ j = Len(s) + 1
  BY <1>1 DEF a
<1>3. ASSUME x = request PROVE LastIsRequest(a)
  <2>1. Len(s) + 1 \in 1..Len(a) /\ Len(s) + 1 + 1..Len(a) = {}
    BY <1>1 DEF a
  <2> QED
    BY <1>1, <1>3, <2>1 DEF LastIsRequest, a
<1>4. ASSUME x \notin BufferIds, LastIsRequest(s) PROVE LastIsRequest(a)
  <2>1. PICK i \in 1..Len(s) : s[i] = request /\ \A j \in i + 1..Len(s) : s[j] \notin BufferIds
    BY <1>4 DEF LastIsRequest
  <2>2. i \in 1..Len(a) /\ a[i] = request
    BY <1>1, <2>1 DEF a
  <2>3. ASSUME NEW j \in i + 1..Len(a) PROVE a[j] \notin BufferIds
    <3>1. j \in i + 1..Len(s) \/ j = Len(s) + 1
      BY <1>1, <2>1 DEF a
    <3>2. \A k \in i + 1..Len(s) : k \in 1..Len(s)
      BY <1>1, <2>1
    <3> QED
      BY <1>1, <1>4, <2>1, <3>1, <3>2 DEF a
  <2> QED
    BY <2>2, <2>3 DEF LastIsRequest
<1>5. ASSUME x \notin BufferIds, NoNotice(s) PROVE NoNotice(a)
  BY <1>1, <1>2, <1>5 DEF NoNotice, a
<1> QED
  BY <1>3, <1>4, <1>5 DEF a

LEMMA LastOfTail ==
  ASSUME NEW S, NEW s \in Seq(S), s # <<>>
  PROVE  /\ LastIsRequest(s) /\ Head(s) # request => LastIsRequest(Tail(s))
         /\ LastIsRequest(s) /\ Head(s) = request =>
              LastIsRequest(Tail(s)) \/ NoNotice(Tail(s))
         /\ NoNotice(s) => NoNotice(Tail(s)) /\ Head(s) \notin BufferIds
<1>1. /\ Len(s) \in Nat /\ Len(Tail(s)) = Len(s) - 1
      /\ \A j \in 1..Len(Tail(s)) : Tail(s)[j] = s[j + 1]
  BY LenProperties, HeadTailProperties
<1>2. Head(s) = s[1] /\ 1 \in 1..Len(s)
  <2>1. Len(s) # 0
    BY EmptySeq
  <2> QED
    BY <1>1, <2>1
<1> DEFINE t == Tail(s)
<1> HIDE DEF t
<1>3. ASSUME NEW i \in 1..Len(s), s[i] = request,
             \A j \in i + 1..Len(s) : s[j] \notin BufferIds
      PROVE  /\ i # 1 => LastIsRequest(t)
             /\ i = 1 => NoNotice(t)
  <2>1. \A j \in i..Len(t) : j \in 1..Len(t) /\ j + 1 \in i + 1..Len(s)
    BY <1>1 DEF t
  <2>2. \A j \in i..Len(t) : t[j] \notin BufferIds
    BY <1>1, <1>3, <2>1 DEF t
  <2>3. i # 1 => i - 1 \in 1..Len(t) /\ i - 1 + 1 = i
    BY <1>1 DEF t
  <2>4. i # 1 => t[i - 1] = request
    BY <1>1, <1>3, <2>3 DEF t
  <2> QED
    BY <2>2, <2>3, <2>4 DEF LastIsRequest, NoNotice
<1>4. NoNotice(s) => NoNotice(t)
  <2>1. \A j \in 1..Len(t) : j + 1 \in 1..Len(s)
    BY <1>1 DEF t
  <2> QED
    BY <1>1, <2>1 DEF NoNotice, t
<1> QED
  BY <1>2, <1>3, <1>4 DEF LastIsRequest, NoNotice, t

-----------------------------------------------------------------------------
(* The inductive invariant.                                                *)

\* The context has been connected once at most.
OneConnection == \A c, d \in Conns : c = d

\* request_update has asked for its update and has not returned.
Waiting == phase = "requested" \/ (phase = "awaiting" /\ updatePc[conn] = "waiting")

\* The update of such a request is outstanding, or its notice is on its way; and
\* behind it there is no notice of an abandoned request, which a full inbox would
\* keep in its place.
Underway ==
  \/ updatePending
  \/ Occurs(UpdateReady, fdEvents)
  \/ Occurs(UpdateReady, batch[conn])
  \/ LastIsRequest(channel[conn])
  \/ phase = "awaiting" /\ NoNotice(channel[conn]) /\ LastIsRequest(inbox[conn])

WakeInv ==
  /\ phase = "awaiting" /\ updatePc[conn] = "waiting" => target[conn] = request
  /\ Waiting /\ hangup = "no" => Underway

Inv == HandleInv /\ WakeInv

\* What is needed of the types.
Types ==
  /\ loopPc \in [Conns -> {"none", "top", "poll", "read", "blocked", "callback", "ended"}]
  /\ fdEvents \in Seq(Loop!KernelEvent)
  /\ batch \in [Conns -> Seq(Loop!KernelEvent)]
  /\ channel \in [Conns -> Seq(Loop!Event)]
  /\ inbox \in [Conns -> Seq(BufferIds)]
  /\ DOMAIN updatePc = Conns /\ DOMAIN target = Conns
  /\ bufferToUpdate \in BufferIds \cup {NoBuffer}
  /\ BatchHeld

LEMMA InvTypes == Inv => Types
BY DEF Inv, HandleInv, FlowInv, Loop!TypeOK, Ev!TypeOK, Types

LEMMA WakeInit == Init => WakeInv
BY DEF Init, WakeInv, Waiting

\* Steps that leave all of this alone.
wakeVars == <<phase, conn, request, updatePc, target, hangup, updatePending, fdEvents, batch,
              channel, inbox>>

LEMMA WakeQuiet == WakeInv /\ UNCHANGED wakeVars => WakeInv'
<1> SUFFICES ASSUME WakeInv, UNCHANGED wakeVars PROVE WakeInv'
  OBVIOUS
<1>1. Waiting' = Waiting
  BY DEF Waiting, wakeVars
<1>2. Underway => Underway'
  BY DEF Underway, Occurs, LastIsRequest, NoNotice, wakeVars
<1> QED
  BY <1>1, <1>2 DEF WakeInv, wakeVars

-----------------------------------------------------------------------------
(* The event loop.                                                         *)

LEMMA ReadWake ==
  ASSUME Inv, OneConnection, NEW c \in Conns, Loop!ReadEvents(c), EventLoop(c)
  PROVE  WakeInv'
<1>1. PICK n \in 1..Len(fdEvents) :
        /\ batch' = [batch EXCEPT ![c] = SubSeq(fdEvents, 1, n)]
        /\ fdEvents' = SubSeq(fdEvents, n + 1, Len(fdEvents))
  BY DEF Loop!ReadEvents
<1>2. /\ batch[c] = <<>> /\ Types
      /\ UNCHANGED <<channel, hangup, phase, conn, request, updatePc, target, updatePending, inbox>>
  BY InvTypes DEF Loop!ReadEvents, Loop!At, EventLoop, userVars, Types, BatchHeld
<1>3. ASSUME Waiting', hangup' = "no" PROVE Underway'
  <2>1. Waiting /\ hangup = "no" /\ Underway
    BY <1>2, <1>3 DEF Waiting, Inv, WakeInv
  <2>2. conn = c
    BY <2>1 DEF Waiting, Inv, HandleInv, ServingInv, Connected, OneConnection
  <2>3. ~Occurs(UpdateReady, batch[conn])
    BY <1>2, <2>2 DEF Occurs
  <2>4. Occurs(UpdateReady, fdEvents) => Occurs(UpdateReady, batch'[conn]) \/ Occurs(UpdateReady, fdEvents')
    <3>1. batch'[conn] = SubSeq(fdEvents, 1, n)
      BY <1>1, <1>2, <2>2 DEF Types
    <3> QED
      BY <1>1, <1>2, <3>1, OccursInPart DEF Types
  <2> QED
    BY <1>2, <2>1, <2>3, <2>4 DEF Underway, LastIsRequest, NoNotice, Occurs
<1> QED
  BY <1>2, <1>3 DEF Inv, WakeInv

\* A callback during a request turns UpdateReady into the id of its buffer.
LEMMA CallbackWake ==
  ASSUME Inv, OneConnection, NEW c \in Conns, EventLoop(c),
         Loop!SendEvent(c) \/ Loop!SendToNobody(c)
  PROVE  WakeInv'
<1> DEFINE e == Head(batch[c])
           x == Loop!ToEvent(e)
<1>1. /\ loopPc[c] = "callback" /\ Types
      /\ batch' = [batch EXCEPT ![c] = Tail(@)]
      /\ UNCHANGED <<hangup, fdEvents, phase, conn, request, updatePc, target, updatePending, inbox>>
  BY InvTypes DEF Loop!SendEvent, Loop!SendToNobody, Loop!At, Loop!Called, Loop!libVars,
     EventLoop, userVars
<1>2. /\ batch[c] \in Seq(Loop!KernelEvent) /\ batch[c] # <<>>
      /\ channel[c] \in Seq(Loop!Event)
  BY <1>1 DEF Types, BatchHeld
<1>3. e \in Loop!KernelEvent
  BY <1>2, HeadTailProperties
<1>4. \/ UNCHANGED channel /\ monitor[c] = "done"
      \/ channel' = [channel EXCEPT ![c] = Append(channel[c], x)]
  BY DEF Loop!SendEvent, Loop!SendToNobody
<1>5. ASSUME Waiting', hangup' = "no" PROVE Underway'
  <2>1. Waiting /\ hangup = "no" /\ Underway
    BY <1>1, <1>5 DEF Waiting, Inv, WakeInv
  <2>2. conn = c /\ monitor[c] = "running" /\ bufferToUpdate = request /\ request \in BufferIds
    BY <2>1 DEF Waiting, Inv, HandleInv, ServingInv, Serving, Connected, OneConnection,
       ContractInv, LibEvdiContract
  <2>3. /\ channel'[conn] = Append(channel[conn], x)
        /\ batch'[conn] = Tail(batch[conn])
    BY <1>1, <1>4, <2>2 DEF Types
  <2>4. CASE e = UpdateReady
    <3>1. x = request /\ request \in Loop!Event
      BY <2>2, <2>4, Values DEF Loop!ToEvent
    <3>2. LastIsRequest(channel'[conn])
      BY <1>2, <2>2, <2>3, <3>1, LastOfAppend
    <3> QED
      BY <1>1, <3>2 DEF Underway, LastIsRequest
  <2>5. CASE e # UpdateReady
    <3>1. x \notin BufferIds /\ x \in Loop!Event
      BY <1>3, <2>5, Values DEF Loop!ToEvent
    <3>2. Occurs(UpdateReady, batch[conn]) => Occurs(UpdateReady, batch'[conn])
      BY <1>2, <2>2, <2>3, <2>5, OccursInTail
    <3>3. /\ LastIsRequest(channel[conn]) => LastIsRequest(channel'[conn])
          /\ NoNotice(channel[conn]) => NoNotice(channel'[conn])
      BY <1>2, <2>2, <2>3, <3>1, LastOfAppend
    <3> QED
      BY <1>1, <2>1, <3>2, <3>3 DEF Underway, LastIsRequest, NoNotice, Occurs
  <2> QED
    BY <2>4, <2>5
<1> QED
  BY <1>1, <1>5 DEF Inv, WakeInv

LEMMA TurnWake ==
  ASSUME Inv, OneConnection, NEW c \in Conns, EventLoop(c)
  PROVE  WakeInv'
<1>1. CASE \/ Loop!StopOnClose(c) \/ Loop!KeepRunning(c) \/ Loop!PollReady(c)
           \/ Loop!PollBroken(c) \/ Loop!PollIdle(c) \/ Loop!ReadBlocks(c) \/ Loop!ReadClosed(c)
  BY <1>1, WakeQuiet DEF Inv, wakeVars, Loop!StopOnClose, Loop!KeepRunning, Loop!PollReady,
     Loop!PollBroken, Loop!PollIdle, Loop!ReadBlocks, Loop!ReadClosed, Loop!Leave, Loop!libVars,
     EventLoop, userVars
<1> QED
  BY <1>1, ReadWake, CallbackWake DEF EventLoop, Loop!Turn

-----------------------------------------------------------------------------
(* The monitor.                                                            *)

\* A notice goes to the end of the inbox, whatever has to go to make room.
LEMMA BroadcastWake ==
  ASSUME Types, NEW c \in Conns, request \in BufferIds, Ev!Broadcast(c, request)
  PROVE  LastIsRequest(inbox'[c])
<1> DEFINE s == IF Len(inbox[c]) = UpdateCap THEN Tail(inbox[c]) ELSE inbox[c]
<1>1. inbox[c] \in Seq(BufferIds) /\ Len(inbox[c]) \in Nat
  BY LenProperties DEF Types
<1>2. s \in Seq(BufferIds)
  <2>1. Len(inbox[c]) = UpdateCap => inbox[c] # <<>>
    BY <1>1, Values, EmptySeq
  <2> QED
    BY <1>1, <2>1, HeadTailProperties
<1>3. inbox'[c] = Append(s, request)
  BY DEF Ev!Broadcast, Types
<1> HIDE DEF s
<1> QED
  BY <1>2, <1>3, LastOfAppend

\* On the current-thread runtime the monitor runs only when the task is
\* suspended: not between the request and the subscription.
LEMMA MonitorWake ==
  ASSUME Inv, OneConnection, ~MultiThread, NEW c \in Conns, Monitor(c)
  PROVE  WakeInv'
<1>1. /\ UNCHANGED <<phase, conn, request, batch, hangup, fdEvents, updatePending>>
      /\ Suspended /\ Ev!Monitor(c) /\ Types
  BY InvTypes DEF Monitor, userVars, loopVars, libVars
<1>2. UNCHANGED <<updatePc, target>>
  BY <1>1 DEF Ev!Monitor, Ev!MonitorMode, Ev!MonitorUpdate, Ev!MonitorOther, Ev!MonitorClosed,
     Ev!updateVars
<1>3. CASE Ev!MonitorClosed(c)
  <2>1. UNCHANGED <<channel, inbox>>
    BY <1>3 DEF Ev!MonitorClosed, Ev!updateVars
  <2> QED
    BY <1>1, <1>2, <2>1, WakeQuiet DEF Inv, wakeVars
<1>4. ASSUME channel' = [channel EXCEPT ![c] = Tail(@)], channel[c] # <<>>,
             \/ UNCHANGED inbox /\ Head(channel[c]) \notin BufferIds
             \/ /\ Head(channel[c]) \in BufferIds
                /\ updatePc[c] = "waiting" => Ev!Broadcast(c, Head(channel[c]))
      PROVE  WakeInv'
  <2>1. channel[c] \in Seq(Loop!Event)
    BY <1>1 DEF Types
  <2>2. Waiting' = Waiting
    BY <1>1, <1>2 DEF Waiting
  <2>3. ASSUME Waiting, Underway PROVE Underway'
    <3>1. conn = c /\ phase = "awaiting" /\ updatePc[c] = "waiting" /\ request \in BufferIds
      BY <1>1, <2>3 DEF Suspended, Waiting, Inv, HandleInv, ServingInv, Connected, OneConnection,
         ContractInv, LibEvdiContract
    <3>2. channel'[conn] = Tail(channel[conn])
      BY <1>1, <1>4, <3>1 DEF Types
    <3>3. CASE LastIsRequest(channel[conn]) /\ Head(channel[conn]) # request
      <4>1. LastIsRequest(channel'[conn])
        BY <1>4, <2>1, <3>1, <3>2, <3>3, LastOfTail
      <4> QED
        BY <1>1, <4>1 DEF Underway, LastIsRequest
    <3>4. CASE LastIsRequest(channel[conn]) /\ Head(channel[conn]) = request
      <4>1. LastIsRequest(channel'[conn]) \/ NoNotice(channel'[conn])
        BY <1>4, <2>1, <3>1, <3>2, <3>4, LastOfTail
      <4>2. LastIsRequest(inbox'[conn])
        BY <1>1, <1>4, <3>1, <3>4, BroadcastWake
      <4> QED
        BY <1>1, <3>1, <4>1, <4>2 DEF Underway, LastIsRequest, NoNotice
    <3>5. CASE NoNotice(channel[conn]) /\ LastIsRequest(inbox[conn])
      <4>1. NoNotice(channel'[conn]) /\ Head(channel[conn]) \notin BufferIds
        BY <1>4, <2>1, <3>1, <3>2, <3>5, LastOfTail
      <4>2. UNCHANGED inbox
        BY <1>4, <3>1, <4>1
      <4> QED
        BY <1>1, <3>1, <3>5, <4>1, <4>2 DEF Underway, LastIsRequest, NoNotice
    <3>6. CASE \/ updatePending \/ Occurs(UpdateReady, fdEvents) \/ Occurs(UpdateReady, batch[conn])
      BY <1>1, <3>6 DEF Underway, Occurs
    <3> QED
      BY <2>3, <3>3, <3>4, <3>5, <3>6 DEF Underway
  <2> QED
    BY <1>1, <1>2, <2>2, <2>3 DEF Inv, WakeInv
<1>5. CASE Ev!MonitorMode(c) \/ Ev!MonitorOther(c)
  BY <1>4, <1>5, Values DEF Ev!MonitorMode, Ev!MonitorOther, Ev!Receives, Ev!Take, Ev!updateVars
<1>6. CASE Ev!MonitorUpdate(c)
  BY <1>4, <1>6 DEF Ev!MonitorUpdate, Ev!Receives, Ev!Take
<1> QED
  BY <1>1, <1>3, <1>5, <1>6 DEF Ev!Monitor

-----------------------------------------------------------------------------
(* The user's task and the kernel.                                         *)

\* Steps after which no request waits.
LEMMA NotWaitingWake == ~Waiting' => WakeInv'
BY DEF WakeInv, Waiting

\* An event goes to the end of the fd's.
LEMMA EmitWake ==
  ASSUME Inv, NEW e \in Loop!KernelEvent, fdEvents' = Append(fdEvents, e),
         UNCHANGED <<phase, conn, request, updatePc, target, hangup, batch, channel, inbox>>,
         updatePending' = updatePending \/ e = UpdateReady
  PROVE  WakeInv'
<1>1. /\ Occurs(e, fdEvents')
      /\ Occurs(UpdateReady, fdEvents) => Occurs(UpdateReady, fdEvents')
  BY InvTypes, OccursInAppend DEF Types
<1>2. Waiting' = Waiting
  BY DEF Waiting
<1>3. Underway => Underway'
  BY <1>1 DEF Underway, LastIsRequest, NoNotice, Occurs
<1> QED
  BY <1>2, <1>3 DEF Inv, WakeInv

LEMMA KernelWake == ASSUME Inv, Kernel PROVE WakeInv'
<1>1. UNCHANGED <<phase, conn, request, updatePc, target, batch, channel, inbox>>
  BY DEF Kernel, userVars, loopVars, taskVars
<1>2. CASE Lib!KernelUpdate
  BY <1>1, <1>2, EmitWake, Values DEF Lib!KernelUpdate
<1>3. CASE Lib!KernelOther
  BY <1>1, <1>3, EmitWake, Values DEF Lib!KernelOther
<1>4. ASSUME NEW m \in Modes, Lib!KernelMode(m) PROVE WakeInv'
  BY <1>1, <1>4, EmitWake, Values DEF Lib!KernelMode
<1>5. CASE Lib!Unplug
  BY <1>1, <1>5 DEF Lib!Unplug, Inv, WakeInv
<1> QED
  BY <1>2, <1>3, <1>4, <1>5 DEF Kernel

\* The request makes an update outstanding, and the subscription opens an inbox.
LEMMA RequestWake ==
  ASSUME NEW id \in BufferIds, RequestUpdate(id) PROVE WakeInv'
<1>1. phase' \in {"connected", "requested"} /\ (phase' = "requested" => updatePending')
  BY DEF RequestUpdate, Lib!evdi_request_update
<1> QED
  BY <1>1 DEF WakeInv, Waiting, Underway

LEMMA SubscribeWake == ASSUME Inv, SubscribeUpdate PROVE WakeInv'
<1>1. /\ phase = "requested" /\ phase' = "awaiting" /\ conn \in Conns
      /\ UNCHANGED <<conn, request, batch, channel, inbox, fdEvents, hangup, updatePending>>
      /\ target' = [target EXCEPT ![conn] = request]
  BY DEF SubscribeUpdate, Ev!SubscribeUpdate, Ev!monitorVars, loopVars, libVars, Inv, HandleInv,
     ServingInv, Connected
<1>2. hangup = "no" => Underway
  BY <1>1 DEF Inv, WakeInv, Waiting
<1>3. Underway => Underway'
  BY <1>1 DEF Underway, LastIsRequest, NoNotice, Occurs
<1> QED
  BY <1>1, <1>2, <1>3, InvTypes DEF WakeInv, Types

\* await_buffer_update goes on waiting or ends.
LEMMA AwaitWake == ASSUME Inv, AwaitUpdate PROVE WakeInv'
<1>1. /\ phase = "awaiting" /\ conn \in Conns /\ Types
      /\ UNCHANGED <<phase, conn, request, batch, fdEvents, hangup, updatePending, channel>>
  BY InvTypes DEF AwaitUpdate, userVars, loopVars, libVars, Inv, HandleInv, ServingInv, Connected,
     Ev!UpdateReturns, Ev!UpdateSkips, Ev!UpdateLagged, Ev!UpdateTimeout, Ev!EndUpdate,
     Ev!monitorVars
<1>2. inbox[conn] \in Seq(BufferIds)
  BY <1>1 DEF Types
<1>3. CASE Ev!UpdateReturns(conn) \/ Ev!UpdateTimeout(conn)
  <2>1. PICK result : updatePc' = [updatePc EXCEPT ![conn] = result] /\ result # "waiting"
    BY <1>3 DEF Ev!UpdateReturns, Ev!UpdateTimeout, Ev!EndUpdate
  <2>2. ~Waiting'
    BY <1>1, <2>1 DEF Types, Waiting
  <2> QED
    BY <2>2, NotWaitingWake
<1>4. CASE Ev!UpdateSkips(conn)
  <2>1. /\ inbox[conn] # <<>> /\ Head(inbox[conn]) # target[conn] /\ updatePc[conn] = "waiting"
        /\ inbox' = [inbox EXCEPT ![conn] = Tail(@)] /\ UNCHANGED <<updatePc, target>>
    BY <1>4 DEF Ev!UpdateSkips
  <2>2. LastIsRequest(inbox[conn]) => LastIsRequest(inbox'[conn])
    <3>1. target[conn] = request /\ inbox'[conn] = Tail(inbox[conn])
      BY <1>1, <2>1 DEF Inv, WakeInv, Types
    <3> QED
      BY <1>2, <2>1, <3>1, LastOfTail
  <2>3. Underway => Underway'
    BY <1>1, <2>2 DEF Underway, LastIsRequest, NoNotice, Occurs
  <2> QED
    BY <1>1, <2>1, <2>3 DEF Inv, WakeInv, Waiting
<1>5. CASE Ev!UpdateLagged(conn)
  BY <1>1, <1>5, WakeQuiet DEF Ev!UpdateLagged, Inv, wakeVars
<1> QED
  BY <1>3, <1>4, <1>5 DEF AwaitUpdate

\* connect, disconnect, the two drops and the end of a request: none is under way.
LEMMA LifeWake ==
  ASSUME \/ \E c \in Conns : Connect(c)
         \/ Disconnect \/ DropUnconnected \/ DropSendClose \/ DropDisconnect
         \/ DropClose \/ DropFields \/ FinishRequest \/ CancelRequest
  PROVE  WakeInv'
<1>1. phase' \in {"connected", "unconnected", "closing", "disconnected", "dropping",
            "closed"}
  BY DEF Connect, Disconnect, DropUnconnected, DropSendClose, DropDisconnect, DropClose,
     DropFields, FinishRequest, CancelRequest
<1> QED
  BY <1>1, NotWaitingWake DEF Waiting

LEMMA WakeNext ==
  ASSUME OneConnection, ~MultiThread
  PROVE  Inv /\ [Next]_vars => WakeInv'
<1> SUFFICES ASSUME Inv, [Next]_vars PROVE WakeInv'
  OBVIOUS
<1>1. ASSUME NEW id \in BufferIds, NewBuffer(id) \/ UnregisterBuffer(id) PROVE WakeInv'
  BY <1>1, WakeQuiet DEF NewBuffer, UnregisterBuffer, Lib!evdi_register_buffer,
     Lib!evdi_unregister_buffer, loopVars, taskVars, wakeVars, Inv
<1>2. ASSUME NEW w \in Waiters, AwaitMode(w) PROVE WakeInv'
  BY <1>2, WakeQuiet DEF AwaitMode, Ev!AwaitMode, Ev!SubscribeMode, Ev!ModeChanged, Ev!ModeClosed,
     Ev!ModeTimeout, Ev!ModeCancel, Ev!monitorVars, Ev!updateVars, userVars, loopVars, libVars,
     wakeVars, Inv
<1>3. CASE UNCHANGED vars
  BY <1>3, WakeQuiet DEF vars, userVars, loopVars, taskVars, libVars, wakeVars, Inv
<1> QED
  BY <1>1, <1>2, <1>3, TurnWake, MonitorWake, KernelWake, RequestWake, SubscribeWake, AwaitWake,
     LifeWake DEF Next, Finished, Inv

\* What is under way is one of the places NoLostWakeup names.
LEMMA WakeSuffices == Inv => NoLostWakeup
<1> SUFFICES ASSUME Inv, phase = "awaiting", updatePc[conn] = "waiting", hangup = "no"
             PROVE  \/ updatePending
                    \/ Occurs(UpdateReady, fdEvents)
                    \/ Occurs(UpdateReady, batch[conn])
                    \/ Occurs(request, channel[conn])
                    \/ Occurs(request, inbox[conn])
  BY DEF NoLostWakeup
<1>1. Underway
  BY DEF Inv, WakeInv, Waiting
<1> QED
  BY <1>1 DEF Underway, LastIsRequest, Occurs

-----------------------------------------------------------------------------
(* The theorem.                                                            *)

\* On the current-thread runtime a request that waits will be told of its
\* update, although it subscribes only after asking for it: the update is
\* outstanding or its notice on its way, for any capacities of the channels,
\* overrun inboxes and notices of abandoned requests included.  (A second
\* connection of the context takes notices away, and on a multi-thread runtime
\* the monitor may run too early: the run lost_wakeup.)
THEOREM WakeupCorrect ==
  ASSUME OneConnection, ~MultiThread
  PROVE  Spec => []NoLostWakeup
<1>1. Init => Inv
  BY ContractInit, ServingInit, FlowInit, WakeInit DEF HandleInv, Inv
<1>2. Inv /\ [Next]_vars => Inv'
  BY ContractNext, ServingNext, FlowNext, WakeNext DEF HandleInv, Inv
<1> QED
  BY <1>1, <1>2, WakeSuffices, PTL DEF Spec
=============================================================================
