-------------------------- MODULE EventLoopProofs ---------------------------
(***************************************************************************)
(* Theorems of EventLoop: type correctness, which needs that no update is  *)
(* announced before a buffer was asked for.  They hold for any number of   *)
(* connections, modes and buffers, and channels and fds of any capacity.   *)
(***************************************************************************)
EXTENDS EventLoop, SequenceTheorems, TLAPS

-----------------------------------------------------------------------------
(* Sequences.                                                              *)

\* The first part of a concatenation is a prefix of it.
LEMMA PrefixOfConcat ==
  ASSUME NEW S, NEW s \in Seq(S), NEW t \in Seq(S)
  PROVE  /\ SubSeq(s \o t, 1, Len(s)) = s
         /\ Len(s) \in 0..Len(s \o t)
<1>1. Len(s) \in Nat /\ Len(t) \in Nat /\ Len(s \o t) = Len(s) + Len(t)
  BY LenProperties, ConcatProperties
<1>2. CASE Len(s) = 0
  <2>1. s = <<>>
    BY <1>2, EmptySeq
  <2>2. SubSeq(s \o t, 1, 0) = <<>>
    BY SubSeqEmpty
  <2> QED
    BY <1>1, <1>2, <2>1, <2>2
<1>3. CASE Len(s) # 0
  <2>1. 1 \in 1..Len(s) /\ Len(s) \in 1..Len(s)
    BY <1>1, <1>3
  <2>2. SubSeq(s \o t, 1, Len(s)) = SubSeq(s, 1, Len(s))
    BY <2>1, SubSeqOfConcat1
  <2> QED
    BY <1>1, <2>2, SubSeqFull
<1> QED
  BY <1>2, <1>3

\* A concatenation loses its first element with its first part.
LEMMA TailOfConcat ==
  ASSUME NEW S, NEW s \in Seq(S), NEW t \in Seq(S), s # <<>>
  PROVE  s \o t # <<>> /\ Tail(s \o t) = Tail(s) \o t
<1>1. /\ s \o t \in Seq(S)
      /\ Len(s \o t) = Len(s) + Len(t)
      /\ \A i \in 1..Len(s) + Len(t) :
           (s \o t)[i] = IF i <= Len(s) THEN s[i] ELSE t[i - Len(s)]
  BY ConcatProperties
<1>2. Len(s) \in Nat \ {0} /\ Len(t) \in Nat
  BY EmptySeq, LenProperties
<1>3. s \o t # <<>>
  BY <1>1, <1>2, EmptySeq
<1>4. /\ Tail(s) \in Seq(S)
      /\ Len(Tail(s)) = Len(s) - 1
      /\ \A i \in 1..Len(Tail(s)) : Tail(s)[i] = s[i + 1]
  BY HeadTailProperties
<1>5. /\ Tail(s \o t) \in Seq(S)
      /\ Len(Tail(s \o t)) = Len(s \o t) - 1
      /\ \A i \in 1..Len(Tail(s \o t)) : Tail(s \o t)[i] = (s \o t)[i + 1]
  BY <1>1, <1>3, HeadTailProperties
<1>6. /\ Tail(s) \o t \in Seq(S)
      /\ Len(Tail(s) \o t) = Len(Tail(s)) + Len(t)
      /\ \A i \in 1..Len(Tail(s)) + Len(t) :
           (Tail(s) \o t)[i] = IF i <= Len(Tail(s)) THEN Tail(s)[i] ELSE t[i - Len(Tail(s))]
  BY <1>4, ConcatProperties
<1>7. Len(Tail(s \o t)) = Len(Tail(s) \o t)
  BY <1>1, <1>2, <1>4, <1>5, <1>6
<1>8. ASSUME NEW i \in 1..Len(Tail(s \o t)) PROVE Tail(s \o t)[i] = (Tail(s) \o t)[i]
  <2>1. i \in Int /\ 1 <= i /\ i <= Len(s) + Len(t) - 1
    BY <1>1, <1>2, <1>5
  <2>2. Tail(s \o t)[i] = IF i + 1 <= Len(s) THEN s[i + 1] ELSE t[i + 1 - Len(s)]
    BY <1>1, <1>2, <1>5, <2>1
  <2>3. (Tail(s) \o t)[i] = IF i <= Len(s) - 1 THEN Tail(s)[i] ELSE t[i - (Len(s) - 1)]
    BY <1>2, <1>4, <1>6, <2>1
  <2>4. i + 1 - Len(s) = i - (Len(s) - 1) /\ (i + 1 <= Len(s) <=> i <= Len(s) - 1)
    BY <1>2, <2>1
  <2>5. CASE i + 1 <= Len(s)
    BY <1>2, <1>4, <2>1, <2>2, <2>3, <2>4, <2>5
  <2>6. CASE ~(i + 1 <= Len(s))
    BY <2>2, <2>3, <2>4, <2>6
  <2> QED
    BY <2>5, <2>6
<1> QED
  BY <1>3, <1>5, <1>6, <1>7, <1>8, SeqEqual

\* What is appended to a concatenation is appended to its last part.
LEMMA AppendToConcat ==
  ASSUME NEW S, NEW s \in Seq(S), NEW t \in Seq(S), NEW e \in S
  PROVE  Append(s \o t, e) = s \o Append(t, e)
<1>1. s \o t \in Seq(S) /\ <<e>> \in Seq(S)
  BY ConcatProperties
<1>2. (s \o t) \o <<e>> = s \o (t \o <<e>>)
  BY <1>1, ConcatAssociative
<1> QED
  BY <1>1, <1>2, AppendIsConcat

\* A sequence is its head and its tail.
LEMMA HeadAndTail ==
  ASSUME NEW S, NEW s \in Seq(S), s # <<>>
  PROVE  s = <<Head(s)>> \o Tail(s)
<1>1. Len(s) \in Nat \ {0}
  BY EmptySeq
<1>2. SubSeq(s, 1, Len(s)) = <<s[1]>> \o SubSeq(s, 2, Len(s))
  <2>1. 1 \in 1..Len(s) /\ Len(s) \in 1..Len(s)
    BY <1>1
  <2> QED
    BY <2>1, SubSeqRecursiveFirst
<1>3. Head(s) = s[1]
  BY <1>1
<1> QED
  BY <1>2, <1>3, SubSeqFull, TailIsSubSeq

-----------------------------------------------------------------------------
(* The inductive invariant.                                                *)

\* What the kernel may have emitted so far: no UpdateReady before a request.
Emittable == IF bufferToUpdate = NoBuffer THEN KernelEvent \ {UpdateReady} ELSE KernelEvent

\* Only what the kernel may have emitted is on its way to a callback.  Without it
\* the argument of h_update_ready need not be the id of any buffer.
Asked ==
  /\ fdEvents \in Seq(Emittable)
  /\ batch \in [Conns -> Seq(Emittable)]

\* A batch is held exactly during its callbacks.
BatchHeld == \A c \in Conns : loopPc[c] = "callback" <=> batch[c] # <<>>

LoopInv == TypeOK /\ Asked /\ BatchHeld

LEMMA EmittableType == Emittable \subseteq KernelEvent
BY DEF Emittable

\* The callback's argument is an event.
LEMMA ToEventType ==
  ASSUME TypeOK, NEW e \in Emittable
  PROVE  ToEvent(e) \in Event
BY DEF TypeOK, Emittable, ToEvent, Event, KernelEvent

LEMMA InitInv == Init => LoopInv
<1> SUFFICES ASSUME Init PROVE LoopInv
  OBVIOUS
<1>1. /\ <<>> \in Seq(KernelEvent) /\ <<>> \in Seq(Event) /\ <<>> \in Seq(Emittable)
      /\ Len(<<>>) = 0
  BY EmptySeq
<1>2. EventCap \in Nat
  BY EventLoopAssumption DEF EventLoopAssumption
<1> QED
  BY <1>1, <1>2 DEF Init, LoopInit, LoopInv, TypeOK, Asked, BatchHeld

\* Steps that move neither events nor the buffer asked for, and do not enter or
\* leave the callbacks.
LEMMA QuietInv ==
  ASSUME LoopInv, TypeOK',
         UNCHANGED <<batch, fdEvents, bufferToUpdate>>,
         \A c \in Conns : loopPc'[c] = "callback" <=> loopPc[c] = "callback"
  PROVE  LoopInv'
<1>1. Emittable' = Emittable
  BY DEF Emittable, KernelEvent
<1> QED
  BY <1>1 DEF LoopInv, Asked, BatchHeld

\* One event read from the channel or written to it.
LEMMA ChannelTailType ==
  ASSUME TypeOK, NEW c \in Conns, channel[c] # <<>>,
         channel' = [channel EXCEPT ![c] = Tail(@)]
  PROVE  /\ channel' \in [Conns -> Seq(Event)]
         /\ \A d \in Conns : Len(channel'[d]) <= EventCap
<1>1. channel[c] \in Seq(Event) /\ Len(channel[c]) \in Nat /\ Len(channel[c]) <= EventCap
  BY LenProperties DEF TypeOK
<1>2. Tail(channel[c]) \in Seq(Event) /\ Len(Tail(channel[c])) = Len(channel[c]) - 1
  BY <1>1, HeadTailProperties
<1>3. EventCap \in Nat
  BY EventLoopAssumption DEF EventLoopAssumption
<1>4. Len(Tail(channel[c])) <= EventCap
  BY <1>1, <1>2, <1>3
<1> QED
  BY <1>2, <1>4 DEF TypeOK

LEMMA ChannelAppendType ==
  ASSUME TypeOK, NEW c \in Conns, NEW e \in Event, Len(channel[c]) < EventCap,
         channel' = [channel EXCEPT ![c] = Append(@, e)]
  PROVE  /\ channel' \in [Conns -> Seq(Event)]
         /\ \A d \in Conns : Len(channel'[d]) <= EventCap
<1>1. channel[c] \in Seq(Event) /\ Len(channel[c]) \in Nat
  BY LenProperties DEF TypeOK
<1>2. Append(channel[c], e) \in Seq(Event) /\ Len(Append(channel[c], e)) = Len(channel[c]) + 1
  BY <1>1, AppendProperties
<1>3. EventCap \in Nat
  BY EventLoopAssumption DEF EventLoopAssumption
<1>4. Len(Append(channel[c], e)) <= EventCap
  BY <1>1, <1>2, <1>3
<1> QED
  BY <1>2, <1>4 DEF TypeOK

\* After a callback the rest of the batch is left.
LEMMA CalledInv ==
  ASSUME LoopInv, NEW c \in Conns, At(c, "callback"), Called(c)
  PROVE  /\ batch[c] \in Seq(Emittable) /\ batch[c] # <<>>
         /\ batch' \in [Conns -> Seq(Emittable)]
         /\ batch' \in [Conns -> Seq(KernelEvent)]
         /\ loopPc' \in [Conns -> {"none", "top", "poll", "read", "blocked", "callback", "ended"}]
         /\ BatchHeld'
<1>1. batch[c] \in Seq(Emittable) /\ batch[c] # <<>>
  BY DEF LoopInv, Asked, BatchHeld, At
<1>2. Len(batch[c]) \in Nat \ {0}
  BY <1>1, EmptySeq
<1>3. Tail(batch[c]) \in Seq(Emittable) /\ Len(Tail(batch[c])) = Len(batch[c]) - 1
  BY <1>1, HeadTailProperties
<1>4. Tail(batch[c]) = <<>> <=> Len(batch[c]) = 1
  <2>1. Tail(batch[c]) = <<>> => Len(Tail(batch[c])) = 0
    BY EmptySeq
  <2>2. Tail(batch[c]) # <<>> => Len(Tail(batch[c])) \in Nat \ {0}
    BY <1>3, EmptySeq
  <2> QED
    BY <1>2, <1>3, <2>1, <2>2
<1>5. batch' = [batch EXCEPT ![c] = Tail(batch[c])]
  BY DEF Called
<1>6. loopPc' = [loopPc EXCEPT ![c] = IF Len(batch[c]) = 1 THEN "top" ELSE "callback"]
  BY DEF Called, Goto
<1>7. Tail(batch[c]) \in Seq(KernelEvent)
  BY <1>3, EmittableType, SeqMonotonic
<1>8. BatchHeld'
  <2> SUFFICES ASSUME NEW d \in Conns
               PROVE  loopPc'[d] = "callback" <=> batch'[d] # <<>>
    BY DEF BatchHeld
  <2>1. CASE d = c
    BY <1>4, <1>5, <1>6, <2>1 DEF LoopInv, TypeOK
  <2>2. CASE d # c
    BY <1>5, <1>6, <2>2 DEF LoopInv, TypeOK, BatchHeld
  <2> QED
    BY <2>1, <2>2
<1> QED
  BY <1>1, <1>3, <1>5, <1>6, <1>7, <1>8 DEF LoopInv, TypeOK, Asked

\* The end of the loop.
LEMMA LeaveInv ==
  ASSUME LoopInv, NEW c \in Conns, loopPc[c] # "callback", Leave(c), UNCHANGED monitor
  PROVE  LoopInv'
<1>1. loopPc' = [loopPc EXCEPT ![c] = "ended"]
  BY DEF Leave, Goto
<1>2. TypeOK'
  BY <1>1 DEF Leave, LoopInv, TypeOK, libVars
<1>3. \A d \in Conns : loopPc'[d] = "callback" <=> loopPc[d] = "callback"
  BY <1>1 DEF LoopInv, TypeOK
<1> QED
  BY <1>2, <1>3, QuietInv DEF Leave, libVars

\* Reading hands a part of the fd's events to the callbacks.
LEMMA ReadInv ==
  ASSUME LoopInv, NEW c \in Conns, ReadEvents(c), UNCHANGED monitor
  PROVE  LoopInv'
<1>1. PICK n \in 1..Len(fdEvents) :
        /\ batch' = [batch EXCEPT ![c] = SubSeq(fdEvents, 1, n)]
        /\ fdEvents' = SubSeq(fdEvents, n + 1, Len(fdEvents))
  BY DEF ReadEvents
<1>2. fdEvents \in Seq(Emittable) /\ Len(fdEvents) \in Nat
  BY LenProperties DEF LoopInv, Asked
<1>3. n \in Nat /\ 1 <= n /\ n <= Len(fdEvents)
  BY <1>2
<1>4. SubSeq(fdEvents, 1, n) \in Seq(Emittable) /\ Len(SubSeq(fdEvents, 1, n)) = n
  <2>1. \A i \in 1..n : fdEvents[i] \in Emittable
    BY <1>2, <1>3, ElementOfSeq
  <2> QED
    BY <1>3, <2>1, SubSeqProperties
<1>5. SubSeq(fdEvents, n + 1, Len(fdEvents)) \in Seq(Emittable)
  <2>1. \A i \in n + 1..Len(fdEvents) : fdEvents[i] \in Emittable
    BY <1>2, <1>3, ElementOfSeq
  <2>2. n + 1 \in Int /\ Len(fdEvents) \in Int
    BY <1>2, <1>3
  <2> QED
    BY <2>1, <2>2, SubSeqProperties
<1>6. SubSeq(fdEvents, 1, n) # <<>>
  BY <1>3, <1>4, EmptySeq
<1>7. Emittable' = Emittable
  BY DEF ReadEvents, Emittable, KernelEvent
<1>8. Asked'
  BY <1>1, <1>4, <1>5, <1>7 DEF LoopInv, Asked
<1>9. loopPc' = [loopPc EXCEPT ![c] = "callback"]
  BY DEF ReadEvents, Goto
<1>10. BatchHeld'
  <2> SUFFICES ASSUME NEW d \in Conns
               PROVE  loopPc'[d] = "callback" <=> batch'[d] # <<>>
    BY DEF BatchHeld
  <2>1. CASE d = c
    BY <1>1, <1>6, <1>9, <2>1 DEF LoopInv, TypeOK
  <2>2. CASE d # c
    BY <1>1, <1>9, <2>2 DEF LoopInv, TypeOK, BatchHeld
  <2> QED
    BY <2>1, <2>2
<1>11. TypeOK'
  <2>1. /\ SubSeq(fdEvents, 1, n) \in Seq(KernelEvent)
        /\ SubSeq(fdEvents, n + 1, Len(fdEvents)) \in Seq(KernelEvent)
    BY <1>4, <1>5, EmittableType, SeqMonotonic
  <2>2. batch' \in [Conns -> Seq(KernelEvent)] /\ fdEvents' \in Seq(KernelEvent)
    BY <1>1, <2>1 DEF LoopInv, TypeOK
  <2> QED
    BY <1>9, <2>2 DEF ReadEvents, LoopInv, TypeOK
<1> QED
  BY <1>8, <1>10, <1>11 DEF LoopInv

\* A callback, whether or not its event reaches the channel.
LEMMA CallbackInv ==
  ASSUME LoopInv, NEW c \in Conns, SendEvent(c) \/ SendToNobody(c), UNCHANGED monitor
  PROVE  LoopInv'
<1>1. At(c, "callback") /\ Called(c) /\ UNCHANGED <<closeMsg, closeTx, eventTx, libVars>>
  BY DEF SendEvent, SendToNobody
<1>2. /\ batch[c] \in Seq(Emittable) /\ batch[c] # <<>>
      /\ batch' \in [Conns -> Seq(Emittable)]
      /\ batch' \in [Conns -> Seq(KernelEvent)]
      /\ loopPc' \in [Conns -> {"none", "top", "poll", "read", "blocked", "callback", "ended"}]
      /\ BatchHeld'
  BY <1>1, CalledInv
<1>3. /\ channel' \in [Conns -> Seq(Event)]
      /\ \A d \in Conns : Len(channel'[d]) <= EventCap
  <2>1. CASE SendEvent(c)
    <3>1. ToEvent(Head(batch[c])) \in Event
      BY <1>2, HeadTailProperties, ToEventType DEF LoopInv
    <3> QED
      BY <2>1, <3>1, ChannelAppendType DEF SendEvent, LoopInv
  <2>2. CASE SendToNobody(c)
    BY <2>2 DEF SendToNobody, LoopInv, TypeOK
  <2> QED
    BY <2>1, <2>2
<1>4. Emittable' = Emittable
  BY <1>1 DEF libVars, Emittable, KernelEvent
<1>5. Asked'
  BY <1>1, <1>2, <1>4 DEF libVars, LoopInv, Asked
<1>6. TypeOK'
  BY <1>1, <1>2, <1>3 DEF libVars, LoopInv, TypeOK
<1> QED
  BY <1>2, <1>5, <1>6 DEF LoopInv

LEMMA TurnInv ==
  ASSUME LoopInv, NEW c \in Conns, Turn(c)
  PROVE  LoopInv'
<1>1. CASE StopOnClose(c) \/ PollBroken(c)
  BY <1>1, LeaveInv DEF StopOnClose, PollBroken, At, Turn
<1>2. CASE KeepRunning(c) \/ PollReady(c) \/ PollIdle(c) \/ ReadBlocks(c) \/ ReadClosed(c)
  <2>1. PICK pc \in {"top", "poll", "read", "blocked"} : loopPc' = [loopPc EXCEPT ![c] = pc]
    BY <1>2 DEF KeepRunning, PollReady, PollIdle, ReadBlocks, ReadClosed, Goto
  <2>2. loopPc[c] # "callback"
    BY <1>2 DEF KeepRunning, PollReady, PollIdle, ReadBlocks, ReadClosed, At
  <2>3. UNCHANGED <<batch, closeMsg, closeTx, eventTx, channel, monitor, libVars>>
    BY <1>2 DEF KeepRunning, PollReady, PollIdle, ReadBlocks, ReadClosed, Turn
  <2>4. TypeOK'
    BY <2>1, <2>3 DEF libVars, LoopInv, TypeOK
  <2>5. \A d \in Conns : loopPc'[d] = "callback" <=> loopPc[d] = "callback"
    BY <2>1, <2>2 DEF LoopInv, TypeOK
  <2> QED
    BY <2>3, <2>4, <2>5, QuietInv DEF libVars
<1>3. CASE ReadEvents(c)
  BY <1>3, ReadInv DEF Turn
<1>4. CASE SendEvent(c) \/ SendToNobody(c)
  BY <1>4, CallbackInv DEF Turn
<1> QED
  BY <1>1, <1>2, <1>3, <1>4 DEF Turn

\* Every step, of the thread and of those around it, keeps the invariant.
LEMMA NextInv == LoopInv /\ [Next]_vars => LoopInv'
<1> SUFFICES ASSUME LoopInv, [Next]_vars PROVE LoopInv'
  OBVIOUS
<1>0. TypeOK /\ EventCap \in Nat
  BY EventLoopAssumption DEF LoopInv, EventLoopAssumption
<1>1. ASSUME NEW c \in Conns, Connect(c) PROVE LoopInv'
  <2>1. loopPc' = [loopPc EXCEPT ![c] = "top"] /\ loopPc[c] = "none"
    BY <1>1 DEF Connect, Spawn, Goto, At
  <2>2. TypeOK'
    BY <1>0, <1>1, <2>1 DEF Connect, Spawn, libVars, TypeOK
  <2>3. \A d \in Conns : loopPc'[d] = "callback" <=> loopPc[d] = "callback"
    BY <1>0, <2>1 DEF TypeOK
  <2> QED
    BY <1>1, <2>2, <2>3, QuietInv DEF Connect, Spawn, libVars
<1>2. ASSUME NEW c \in Conns, Turn(c) PROVE LoopInv'
  BY <1>2, TurnInv
<1>3. ASSUME NEW c \in Conns, MonitorTakes(c) PROVE LoopInv'
  <2>1. TypeOK'
    BY <1>0, <1>3, ChannelTailType DEF MonitorTakes, loopVars, libVars, TypeOK
  <2> QED
    BY <1>3, <2>1, QuietInv DEF MonitorTakes, loopVars, libVars
<1>4. ASSUME NEW c \in Conns, MonitorEnds(c) PROVE LoopInv'
  <2>1. TypeOK'
    BY <1>0, <1>4 DEF MonitorEnds, loopVars, libVars, TypeOK
  <2> QED
    BY <1>4, <2>1, QuietInv DEF MonitorEnds, loopVars, libVars
<1>5. ASSUME NEW c \in Conns, RuntimeShutdown(c) PROVE LoopInv'
  <2>1. <<>> \in Seq(Event) /\ Len(<<>>) = 0
    BY EmptySeq
  <2>2. \A d \in Conns : Len(channel'[d]) <= EventCap
    BY <1>0, <1>5, <2>1 DEF RuntimeShutdown, TypeOK
  <2>3. TypeOK'
    BY <1>0, <1>5, <2>1, <2>2 DEF RuntimeShutdown, loopVars, libVars, TypeOK
  <2> QED
    BY <1>5, <2>3, QuietInv DEF RuntimeShutdown, loopVars, libVars
<1>6. ASSUME NEW c \in Conns, SendClose(c) \/ DropCloseSender(c) PROVE LoopInv'
  <2>1. TypeOK'
    BY <1>0, <1>6 DEF SendClose, DropCloseSender, libVars, TypeOK
  <2> QED
    BY <1>6, <2>1, QuietInv DEF SendClose, DropCloseSender, libVars
<1>7. CASE CloseContext
  <2>1. <<>> \in Seq(KernelEvent) /\ <<>> \in Seq(Emittable)
    BY EmptySeq
  <2>2. Emittable' = Emittable
    BY <1>7 DEF CloseContext, Emittable, KernelEvent
  <2>3. TypeOK'
    BY <1>0, <1>7, <2>1 DEF CloseContext, loopVars, TypeOK
  <2> QED
    BY <1>7, <2>1, <2>2, <2>3 DEF CloseContext, loopVars, LoopInv, Asked, BatchHeld
<1>8. ASSUME NEW id \in BufferIds, Ask(id) PROVE LoopInv'
  <2>1. Emittable' = KernelEvent
    BY <1>8, EventLoopAssumption DEF Ask, Emittable, KernelEvent, EventLoopAssumption
  <2>2. /\ fdEvents \in Seq(KernelEvent)
        /\ batch \in [Conns -> Seq(KernelEvent)]
    BY <1>0 DEF TypeOK
  <2>3. TypeOK'
    BY <1>0, <1>8 DEF Ask, loopVars, TypeOK
  <2> QED
    BY <1>8, <2>1, <2>2, <2>3 DEF Ask, loopVars, LoopInv, Asked, BatchHeld
<1>9. ASSUME NEW e \in KernelEvent, Emit(e) PROVE LoopInv'
  <2>1. e \in Emittable
    BY <1>9 DEF Emit, Emittable
  <2>2. Append(fdEvents, e) \in Seq(Emittable) /\ Append(fdEvents, e) \in Seq(KernelEvent)
    BY <1>0, <2>1, EmittableType, AppendProperties DEF LoopInv, Asked, TypeOK
  <2>3. Emittable' = Emittable
    BY <1>9 DEF Emit, Emittable, KernelEvent
  <2>4. TypeOK'
    BY <1>0, <1>9, <2>2 DEF Emit, loopVars, TypeOK
  <2> QED
    BY <1>9, <2>2, <2>3, <2>4 DEF Emit, loopVars, LoopInv, Asked, BatchHeld
<1>10. CASE Unplug
  <2>1. TypeOK'
    BY <1>0, <1>10 DEF Unplug, loopVars, TypeOK
  <2> QED
    BY <1>10, <2>1, QuietInv DEF Unplug, loopVars
<1>11. CASE UNCHANGED vars
  <2>1. TypeOK'
    BY <1>0, <1>11 DEF vars, TypeOK
  <2> QED
    BY <1>11, <2>1, QuietInv DEF vars
<1> QED
  BY <1>1, <1>2, <1>3, <1>4, <1>5, <1>6, <1>7, <1>8, <1>9, <1>10, <1>11 DEF Next

\* Types, and that neither the fd nor a batch announces an update before a buffer
\* was asked for, and a batch is held exactly during its callbacks
\* (spawn_event_handler, evdi_handle_events).
THEOREM LoopCorrect == Spec => []LoopInv
<1> QED
  BY InitInv, NextInv, PTL DEF Spec

\* Every value stays of its type (spawn_event_handler, its callbacks, libevdi and
\* the kernel): in particular no callback hands the monitor an update before a
\* buffer was asked for, and no channel exceeds its capacity.
THEOREM LoopTypeCorrect == Spec => []TypeOK
<1>1. LoopInv => TypeOK
  BY DEF LoopInv
<1> QED
  BY <1>1, LoopCorrect, PTL
=============================================================================
