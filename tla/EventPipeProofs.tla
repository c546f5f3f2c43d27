--------------------------- MODULE EventPipeProofs ---------------------------
(***************************************************************************)
(* The thread of a lone connection implements EventPipe, whatever the      *)
(* capacities, modes and buffers.                                          *)
(***************************************************************************)
EXTENDS EventLoopProofs

-----------------------------------------------------------------------------
(* The kernel's events behind those of a channel.                          *)

\* One event.
Source(e) == IF e \in BufferIds THEN UpdateReady ELSE e

\* Untranslated keeps the length and takes every event back to its source.
LEMMA UntranslatedType ==
  ASSUME NEW s \in Seq(Event)
  PROVE  /\ Untranslated(s) \in Seq(KernelEvent)
         /\ Len(Untranslated(s)) = Len(s)
         /\ \A i \in 1..Len(s) : Untranslated(s)[i] = Source(s[i])
<1>1. Len(s) \in Nat /\ \A i \in 1..Len(s) : s[i] \in Event
  BY LenProperties, ElementOfSeq
<1>2. Untranslated(s) = [i \in 1..Len(s) |-> Source(s[i])]
  BY DEF Untranslated, Source
<1>3. \A i \in 1..Len(s) : Source(s[i]) \in KernelEvent
  BY <1>1 DEF Source, Event, KernelEvent
<1>4. Untranslated(s) \in [1..Len(s) -> KernelEvent]
  BY <1>2, <1>3
<1>5. Untranslated(s) \in Seq(KernelEvent)
  BY <1>1, <1>4, SeqDef
<1>6. Len(Untranslated(s)) = Len(s)
  <2>1. /\ Len(Untranslated(s)) \in Nat
        /\ DOMAIN Untranslated(s) = 1..Len(Untranslated(s))
    BY <1>5, LenProperties
  <2>2. DOMAIN Untranslated(s) = 1..Len(s)
    BY <1>2
  <2>3. 1..Len(Untranslated(s)) = 1..Len(s)
    BY <2>1, <2>2
  <2> QED
    BY <1>1, <2>1, <2>3
<1> QED
  BY <1>2, <1>5, <1>6

LEMMA UntranslatedEmpty == Untranslated(<<>>) = <<>>
<1>1. /\ <<>> \in Seq(Event)
      /\ Len(<<>>) = 0
  BY EmptySeq
<1>2. Untranslated(<<>>) \in Seq(KernelEvent) /\ Len(Untranslated(<<>>)) = 0
  BY <1>1, UntranslatedType
<1> QED
  BY <1>2, EmptySeq

LEMMA UntranslatedAppend ==
  ASSUME NEW s \in Seq(Event), NEW e \in Event
  PROVE  Untranslated(Append(s, e)) = Append(Untranslated(s), Source(e))
<1>1. /\ Append(s, e) \in Seq(Event)
      /\ Len(Append(s, e)) = Len(s) + 1
      /\ \A i \in 1..Len(s) : Append(s, e)[i] = s[i]
      /\ Append(s, e)[Len(s) + 1] = e
  BY AppendProperties
<1>2. Len(s) \in Nat
  BY LenProperties
<1>3. Source(e) \in KernelEvent
  BY DEF Source, Event, KernelEvent
<1>4. /\ Untranslated(s) \in Seq(KernelEvent)
      /\ Len(Untranslated(s)) = Len(s)
      /\ \A i \in 1..Len(s) : Untranslated(s)[i] = Source(s[i])
  BY UntranslatedType
<1>5. /\ Untranslated(Append(s, e)) \in Seq(KernelEvent)
      /\ Len(Untranslated(Append(s, e))) = Len(s) + 1
      /\ \A i \in 1..Len(s) + 1 : Untranslated(Append(s, e))[i] = Source(Append(s, e)[i])
  BY <1>1, UntranslatedType
<1>6. /\ Append(Untranslated(s), Source(e)) \in Seq(KernelEvent)
      /\ Len(Append(Untranslated(s), Source(e))) = Len(s) + 1
      /\ \A i \in 1..Len(s) : Append(Untranslated(s), Source(e))[i] = Untranslated(s)[i]
      /\ Append(Untranslated(s), Source(e))[Len(s) + 1] = Source(e)
  BY <1>3, <1>4, AppendProperties
<1>7. ASSUME NEW i \in 1..Len(s) + 1
      PROVE  Untranslated(Append(s, e))[i] = Append(Untranslated(s), Source(e))[i]
  <2>1. i \in 1..Len(s) \/ i = Len(s) + 1
    BY <1>2
  <2> QED
    BY <1>1, <1>4, <1>5, <1>6, <2>1
<1> QED
  BY <1>5, <1>6, <1>7, SeqEqual

LEMMA UntranslatedTail ==
  ASSUME NEW s \in Seq(Event), s # <<>>
  PROVE  Untranslated(s) # <<>> /\ Untranslated(Tail(s)) = Tail(Untranslated(s))
<1>1. Len(s) \in Nat \ {0}
  BY EmptySeq
<1>2. /\ Tail(s) \in Seq(Event)
      /\ Len(Tail(s)) = Len(s) - 1
      /\ \A i \in 1..Len(Tail(s)) : Tail(s)[i] = s[i + 1]
  BY HeadTailProperties
<1>3. /\ Untranslated(s) \in Seq(KernelEvent)
      /\ Len(Untranslated(s)) = Len(s)
      /\ \A i \in 1..Len(s) : Untranslated(s)[i] = Source(s[i])
  BY UntranslatedType
<1>4. Untranslated(s) # <<>>
  BY <1>1, <1>3, EmptySeq
<1>5. /\ Tail(Untranslated(s)) \in Seq(KernelEvent)
      /\ Len(Tail(Untranslated(s))) = Len(s) - 1
      /\ \A i \in 1..Len(s) - 1 : Tail(Untranslated(s))[i] = Untranslated(s)[i + 1]
  BY <1>3, <1>4, HeadTailProperties
<1>6. /\ Untranslated(Tail(s)) \in Seq(KernelEvent)
      /\ Len(Untranslated(Tail(s))) = Len(s) - 1
      /\ \A i \in 1..Len(s) - 1 : Untranslated(Tail(s))[i] = Source(Tail(s)[i])
  BY <1>2, UntranslatedType
<1>7. ASSUME NEW i \in 1..Len(s) - 1
      PROVE  Untranslated(Tail(s))[i] = Tail(Untranslated(s))[i]
  <2>1. i + 1 \in 1..Len(s)
    BY <1>1
  <2> QED
    BY <1>2, <1>3, <1>5, <1>6, <2>1
<1> QED
  BY <1>4, <1>5, <1>6, <1>7, SeqEqual

\* The callback's translation is undone.
LEMMA SourceOfEvent ==
  ASSUME TypeOK, NEW e \in Emittable
  PROVE  Source(ToEvent(e)) = e
BY EventLoopAssumption
   DEF EventLoopAssumption, TypeOK, Emittable, KernelEvent, Source, ToEvent

-----------------------------------------------------------------------------
(* The steps.                                                              *)

\* The parts of the pipe: sent to the channel, held by the thread, unread.
Sent == Untranslated(channel[Only])
Held == batch[Only]
Unread == IF Feeding(Only) THEN fdEvents ELSE <<>>

Done == monitor[Only] = "done"

LEMMA PartsType ==
  ASSUME LoopInv, Conns = {Only}
  PROVE  /\ channel[Only] \in Seq(Event)
         /\ Sent \in Seq(KernelEvent)
         /\ Held \in Seq(KernelEvent)
         /\ Unread \in Seq(KernelEvent)
         /\ Sent \o Held \in Seq(KernelEvent)
         /\ (Sent \o Held) \o Unread \in Seq(KernelEvent)
<1>1. channel[Only] \in Seq(Event) /\ Held \in Seq(KernelEvent)
  BY DEF LoopInv, TypeOK, Held
<1>2. Sent \in Seq(KernelEvent)
  BY <1>1, UntranslatedType DEF Sent
<1>3. Unread \in Seq(KernelEvent)
  BY EmptySeq DEF LoopInv, TypeOK, Unread
<1>4. Sent \o Held \in Seq(KernelEvent)
  BY <1>1, <1>2, ConcatProperties
<1> QED
  BY <1>1, <1>2, <1>3, <1>4, ConcatProperties

\* The pipe is closed with a prefix of what is in it, or with nothing.
LEMMA PipeCloses ==
  ASSUME LoopInv, Conns = {Only},
         ~(Feeding(Only) /\ ~Done)',
         \/ PipeOf(Only)' = <<>>
         \/ ~Done /\ PipeOf(Only)' = Sent
         \/ ~Done /\ PipeOf(Only)' = Sent \o Held
  PROVE  Pipe!Close
<1> DEFINE p == PipeOf(Only)
<1>1. p \in Seq(KernelEvent)
  BY PartsType, EmptySeq DEF PipeOf, Sent, Held, Unread
<1>2. (Feeding(Only) /\ monitor[Only] # "done")' = FALSE
  BY DEF Done
<1>3. \E n \in 0..Len(p) : p' = SubSeq(p, 1, n)
  <2>1. CASE p' = <<>>
    <3>1. SubSeq(p, 1, 0) = <<>>
      BY SubSeqEmpty
    <3>2. 0 \in 0..Len(p)
      BY <1>1, LenProperties
    <3> QED
      BY <2>1, <3>1, <3>2
  <2>2. CASE ~Done /\ p' = Sent
    <3>1. p = (Sent \o Held) \o Unread
      BY <2>2 DEF Done, PipeOf, Sent, Held, Unread
    <3>2. Sent \in Seq(KernelEvent) /\ Held \in Seq(KernelEvent) /\ Unread \in Seq(KernelEvent)
      BY PartsType
    <3>3. Held \o Unread \in Seq(KernelEvent)
      BY <3>2, ConcatProperties
    <3>4. (Sent \o Held) \o Unread = Sent \o (Held \o Unread)
      BY <3>2, ConcatAssociative
    <3>5. SubSeq(p, 1, Len(Sent)) = Sent /\ Len(Sent) \in 0..Len(p)
      BY <3>1, <3>2, <3>3, <3>4, PrefixOfConcat
    <3> QED
      BY <2>2, <3>5
  <2>3. CASE ~Done /\ p' = Sent \o Held
    <3>1. p = (Sent \o Held) \o Unread
      BY <2>3 DEF Done, PipeOf, Sent, Held, Unread
    <3>2. SubSeq(p, 1, Len(Sent \o Held)) = Sent \o Held /\ Len(Sent \o Held) \in 0..Len(p)
      BY <3>1, PartsType, PrefixOfConcat
    <3> QED
      BY <2>3, <3>2
  <2> QED
    BY <2>1, <2>2, <2>3
<1> QED
  BY <1>2, <1>3 DEF Pipe!Close

\* A step that keeps what is on its way, and whether the pipe is open, is none of
\* the pipe's.
LEMMA PipeStutters ==
  ASSUME UNCHANGED <<Done, Feeding(Only)>>,
         Done \/ UNCHANGED ((Sent \o Held) \o Unread)
  PROVE  UNCHANGED Pipe!vars
BY DEF Pipe!vars, PipeOf, Done, Sent, Held, Unread

\* The thread.  Leaving closes the pipe, all else only moves events inside it.
LEMMA TurnPipes ==
  ASSUME LoopInv, Conns = {Only}, Turn(Only)
  PROVE  [Pipe!Next]_(Pipe!vars)
<1>1. CASE StopOnClose(Only) \/ PollBroken(Only)
  <2>1. loopPc[Only] # "callback" /\ Leave(Only)
    BY <1>1 DEF StopOnClose, PollBroken, At
  <2>2. Held = <<>>
    BY <2>1 DEF LoopInv, BatchHeld, Held
  <2>3. ~Feeding(Only)'
    BY <2>1 DEF Leave, Goto, LoopInv, TypeOK, Feeding, At
  <2>4. Sent' = Sent /\ Held' = <<>> /\ Unread' = <<>> /\ Done' = Done
    BY <2>1, <2>2, <2>3, <1>1 DEF Leave, Turn, Sent, Held, Unread, Done
  <2>5. (Sent \o <<>>) \o <<>> = Sent
    BY PartsType, ConcatEmptySeq
  <2>6. PipeOf(Only)' = IF Done' THEN <<>> ELSE (Sent' \o Held') \o Unread'
    BY DEF PipeOf, Done, Sent, Held, Unread
  <2>7. PipeOf(Only)' = IF Done THEN <<>> ELSE Sent
    BY <2>4, <2>5, <2>6
  <2>8. Pipe!Close
    BY <2>3, <2>7, PipeCloses
  <2> QED
    BY <2>8 DEF Pipe!Next
<1>2. CASE KeepRunning(Only) \/ PollReady(Only) \/ PollIdle(Only)
             \/ ReadBlocks(Only) \/ ReadClosed(Only)
  <2>1. UNCHANGED <<batch, channel, monitor, fdEvents, context>>
    BY <1>2 DEF KeepRunning, PollReady, PollIdle, ReadBlocks, ReadClosed, Turn, libVars
  <2>2. ~At(Only, "ended") /\ ~At(Only, "ended")'
    BY <1>2 DEF KeepRunning, PollReady, PollIdle, ReadBlocks, ReadClosed, At, Goto,
                LoopInv, TypeOK
  <2>3. UNCHANGED Feeding(Only)
    BY <2>1, <2>2 DEF Feeding
  <2>4. UNCHANGED ((Sent \o Held) \o Unread)
    BY <2>1, <2>3 DEF Sent, Held, Unread
  <2> QED
    BY <2>1, <2>3, <2>4, PipeStutters DEF Done
<1>3. CASE ReadEvents(Only)
  <2>1. PICK n \in 1..Len(fdEvents) :
          /\ batch' = [batch EXCEPT ![Only] = SubSeq(fdEvents, 1, n)]
          /\ fdEvents' = SubSeq(fdEvents, n + 1, Len(fdEvents))
    BY <1>3 DEF ReadEvents
  <2>2. UNCHANGED <<channel, monitor, context>>
    BY <1>3 DEF ReadEvents, Turn
  <2>3. /\ loopPc[Only] # "callback"
        /\ Feeding(Only) /\ Feeding(Only)'
    BY <1>3 DEF ReadEvents, At, Goto, Feeding, LoopInv, TypeOK
  <2>4. Held = <<>> /\ Held' = SubSeq(fdEvents, 1, n)
    BY <2>1, <2>3 DEF Held, LoopInv, BatchHeld, TypeOK
  <2>5. Unread = fdEvents /\ Unread' = SubSeq(fdEvents, n + 1, Len(fdEvents))
    BY <2>1, <2>3 DEF Unread
  <2>6. Sent' = Sent
    BY <2>2 DEF Sent
  <2>7. fdEvents \in Seq(KernelEvent) /\ Len(fdEvents) \in Nat
    BY LenProperties DEF LoopInv, TypeOK
  <2>8. Held' \o Unread' = fdEvents
    <3>1. /\ 1 \in 1..Len(fdEvents) + 1
          /\ n \in 1 - 1..Len(fdEvents)
          /\ Len(fdEvents) \in n..Len(fdEvents)
      BY <2>7
    <3>2. SubSeq(fdEvents, 1, n) \o SubSeq(fdEvents, n + 1, Len(fdEvents))
            = SubSeq(fdEvents, 1, Len(fdEvents))
      BY <2>7, <3>1, ConcatAdjacentSubSeq
    <3> QED
      BY <2>4, <2>5, <2>7, <3>2, SubSeqFull
  <2>9. Held' \in Seq(KernelEvent) /\ Unread' \in Seq(KernelEvent)
    <3>1. /\ \A i \in 1..n : fdEvents[i] \in KernelEvent
          /\ \A i \in n + 1..Len(fdEvents) : fdEvents[i] \in KernelEvent
      BY <2>7, ElementOfSeq
    <3>2. n \in Int /\ n + 1 \in Int /\ Len(fdEvents) \in Int
      BY <2>7
    <3> QED
      BY <2>4, <2>5, <3>1, <3>2, SubSeqProperties
  <2>10. (Sent \o Held) \o Unread = Sent \o fdEvents
    BY <2>4, <2>5, PartsType, ConcatEmptySeq
  <2>11. (Sent' \o Held') \o Unread' = Sent \o fdEvents
    <3>1. Sent \in Seq(KernelEvent)
      BY PartsType
    <3>2. (Sent \o Held') \o Unread' = Sent \o (Held' \o Unread')
      BY <2>9, <3>1, ConcatAssociative
    <3> QED
      BY <2>6, <2>8, <3>2
  <2> QED
    BY <2>2, <2>3, <2>10, <2>11, PipeStutters DEF Done
<1>4. CASE SendEvent(Only)
  <2> DEFINE e == Head(Held)
  <2>1. At(Only, "callback") /\ Called(Only) /\ UNCHANGED <<monitor, fdEvents, context>>
    BY <1>4 DEF SendEvent, Turn, libVars
  <2>2. batch[Only] \in Seq(Emittable) /\ batch[Only] # <<>>
    BY <2>1, CalledInv
  <2>3. e \in Emittable /\ e \in KernelEvent
    BY <2>2, HeadTailProperties, EmittableType DEF Held
  <2>4. Held' = Tail(Held)
    BY <2>1 DEF Called, Held, LoopInv, TypeOK
  <2>5. channel'[Only] = Append(channel[Only], ToEvent(e))
    BY <1>4 DEF SendEvent, Held, LoopInv, TypeOK
  <2>6. Sent' = Append(Sent, e)
    <3>1. ToEvent(e) \in Event /\ Source(ToEvent(e)) = e
      BY <2>3, ToEventType, SourceOfEvent DEF LoopInv
    <3> QED
      BY <2>5, <3>1, PartsType, UntranslatedAppend DEF Sent
  <2>7. Held = <<e>> \o Tail(Held) /\ Tail(Held) \in Seq(KernelEvent)
    BY <2>2, PartsType, HeadAndTail, HeadTailProperties DEF Held
  <2>8. Sent' \o Held' = Sent \o Held
    <3>1. <<e>> \in Seq(KernelEvent)
      BY <2>3
    <3>2. Append(Sent, e) = Sent \o <<e>>
      BY <2>3, PartsType, AppendIsConcat
    <3>3. (Sent \o <<e>>) \o Tail(Held) = Sent \o (<<e>> \o Tail(Held))
      BY <2>7, <3>1, PartsType, ConcatAssociative
    <3> QED
      BY <2>4, <2>6, <2>7, <3>2, <3>3
  <2>9. UNCHANGED Feeding(Only)
    BY <2>1 DEF Called, Goto, At, Feeding, LoopInv, TypeOK
  <2>10. UNCHANGED Unread
    BY <2>1, <2>9 DEF Unread
  <2> QED
    BY <2>1, <2>8, <2>9, <2>10, PipeStutters DEF Done
<1>5. CASE SendToNobody(Only)
  <2>1. At(Only, "callback") /\ Called(Only) /\ Done /\ UNCHANGED <<monitor, context>>
    BY <1>5 DEF SendToNobody, Turn, libVars, Done
  <2>2. UNCHANGED Feeding(Only)
    BY <2>1 DEF Called, Goto, At, Feeding, LoopInv, TypeOK
  <2> QED
    BY <2>1, <2>2, PipeStutters DEF Done
<1> QED
  BY <1>1, <1>2, <1>3, <1>4, <1>5 DEF Turn

\* The monitor task exists once its thread does.
Spawned == \A c \in Conns : loopPc[c] = "none" => monitor[c] = "none"

LEMMA SpawnedNext ==
  ASSUME LoopInv, Spawned, [Next]_vars
  PROVE  Spawned'
<1>1. ASSUME NEW c \in Conns, Turn(c) PROVE Spawned'
  <2>1. /\ loopPc[c] # "none" /\ UNCHANGED monitor
        /\ \E pc : pc # "none" /\ loopPc' = [loopPc EXCEPT ![c] = pc]
    BY <1>1 DEF Turn, StopOnClose, KeepRunning, PollReady, PollBroken, PollIdle,
                ReadEvents, ReadBlocks, ReadClosed, SendEvent, SendToNobody,
                Leave, Called, Goto, At
  <2> QED
    BY <2>1 DEF LoopInv, TypeOK, Spawned
<1>2. ASSUME NEW c \in Conns, Connect(c) PROVE Spawned'
  BY <1>2 DEF Connect, Spawn, Goto, LoopInv, TypeOK, Spawned
<1>3. ASSUME NEW c \in Conns, MonitorEnds(c) \/ RuntimeShutdown(c) PROVE Spawned'
  BY <1>3 DEF MonitorEnds, RuntimeShutdown, loopVars, LoopInv, TypeOK, Spawned
<1>4. ASSUME UNCHANGED <<loopPc, monitor>> PROVE Spawned'
  BY <1>4 DEF Spawned
<1> QED
  BY <1>1, <1>2, <1>3, <1>4
     DEF Next, MonitorTakes, SendClose, DropCloseSender, CloseContext, Unplug, Ask, Emit,
         loopVars, vars

\* Every step is one of the pipe's or none of it.
LEMMA NextPipes ==
  ASSUME LoopInv, Spawned, Conns = {Only}, [Next]_vars
  PROVE  [Pipe!Next]_(Pipe!vars)
<1>1. CASE Connect(Only)
  <2>1. monitor[Only] = "none" /\ UNCHANGED <<batch, channel, fdEvents, context>>
    BY <1>1 DEF Connect, Spawn, At, Spawned, libVars
  <2>2. UNCHANGED Feeding(Only)
    BY <1>1, <2>1 DEF Connect, Spawn, Goto, At, Feeding, LoopInv, TypeOK
  <2>3. UNCHANGED Done
    BY <1>1, <2>1 DEF Connect, Done, LoopInv, TypeOK
  <2>4. UNCHANGED ((Sent \o Held) \o Unread)
    BY <2>1, <2>2 DEF Sent, Held, Unread
  <2> QED
    BY <2>2, <2>3, <2>4, PipeStutters
<1>2. CASE Turn(Only)
  BY <1>2, TurnPipes
<1>3. CASE MonitorTakes(Only)
  <2>1. /\ ~Done /\ channel[Only] # <<>>
        /\ UNCHANGED <<monitor, Feeding(Only), Held, Unread>>
    BY <1>3 DEF MonitorTakes, loopVars, libVars, Done, Held, Unread, Feeding, At
  <2>2. Sent' = Untranslated(Tail(channel[Only]))
    BY <1>3 DEF MonitorTakes, Sent, LoopInv, TypeOK
  <2>3. /\ Sent \in Seq(KernelEvent) /\ Held \in Seq(KernelEvent)
        /\ Unread \in Seq(KernelEvent) /\ Sent \o Held \in Seq(KernelEvent)
    BY PartsType
  <2>4. Sent # <<>> /\ Sent' = Tail(Sent)
    BY <2>1, <2>2, PartsType, UntranslatedTail DEF Sent
  <2>5. Sent \o Held # <<>> /\ Tail(Sent \o Held) = Tail(Sent) \o Held
    BY <2>3, <2>4, TailOfConcat
  <2>6. /\ (Sent \o Held) \o Unread # <<>>
        /\ Tail((Sent \o Held) \o Unread) = (Tail(Sent) \o Held) \o Unread
    BY <2>3, <2>5, TailOfConcat
  <2>7. PipeOf(Only) = (Sent \o Held) \o Unread
    BY <2>1 DEF Done, PipeOf, Sent, Held, Unread
  <2>8. PipeOf(Only)' = (Sent' \o Held') \o Unread'
    BY <2>1 DEF Done, PipeOf, Sent, Held, Unread
  <2>9. Pipe!Get
    BY <2>1, <2>4, <2>6, <2>7, <2>8 DEF Pipe!Get
  <2> QED
    BY <2>9 DEF Pipe!Next
<1>4. CASE MonitorEnds(Only) \/ RuntimeShutdown(Only)
  <2>1. Done'
    BY <1>4 DEF MonitorEnds, RuntimeShutdown, Done, LoopInv, TypeOK
  <2>2. PipeOf(Only)' = <<>>
    BY <2>1 DEF Done, PipeOf
  <2>3. Pipe!Close
    BY <2>1, <2>2, PipeCloses
  <2> QED
    BY <2>3 DEF Pipe!Next
<1>5. CASE SendClose(Only) \/ DropCloseSender(Only) \/ (\E id \in BufferIds : Ask(id)) \/ Unplug
           \/ UNCHANGED vars
  <2>1. UNCHANGED <<loopPc, batch, channel, monitor, fdEvents, context>>
    BY <1>5 DEF SendClose, DropCloseSender, Ask, Unplug, libVars, loopVars, vars
  <2>2. UNCHANGED <<Done, Feeding(Only)>> /\ UNCHANGED ((Sent \o Held) \o Unread)
    BY <2>1 DEF Done, Feeding, At, Sent, Held, Unread
  <2> QED
    BY <2>2, PipeStutters
<1>6. CASE CloseContext
  <2>1. ~Feeding(Only)' /\ Unread' = <<>> /\ Sent' = Sent /\ Held' = Held /\ Done' = Done
    BY <1>6 DEF CloseContext, loopVars, Feeding, Unread, Sent, Held, Done
  <2>2. PipeOf(Only)' = IF Done' THEN <<>> ELSE (Sent' \o Held') \o Unread'
    BY DEF PipeOf, Done, Sent, Held, Unread
  <2>3. (Sent \o Held) \o <<>> = Sent \o Held
    BY PartsType, ConcatEmptySeq
  <2>4. PipeOf(Only)' = IF Done THEN <<>> ELSE Sent \o Held
    BY <2>1, <2>2, <2>3
  <2>5. Pipe!Close
    BY <2>1, <2>4, PipeCloses
  <2> QED
    BY <2>5 DEF Pipe!Next
<1>7. ASSUME NEW e \in KernelEvent, Emit(e) PROVE [Pipe!Next]_(Pipe!vars)
  <2>1. /\ context = "open" /\ fdEvents' = Append(fdEvents, e)
        /\ UNCHANGED <<Feeding(Only), Sent, Held, Done>>
    BY <1>7 DEF Emit, loopVars, Feeding, At, Sent, Held, Done
  <2>2. CASE Feeding(Only) /\ ~Done
    <3>1. Unread = fdEvents /\ Unread' = Append(Unread, e)
      BY <2>1, <2>2 DEF Unread
    <3>2. (Sent \o Held) \o Append(Unread, e) = Append((Sent \o Held) \o Unread, e)
      BY PartsType, AppendToConcat
    <3>3. /\ PipeOf(Only) = (Sent \o Held) \o Unread
          /\ PipeOf(Only)' = (Sent' \o Held') \o Unread'
      BY <2>1, <2>2 DEF Done, PipeOf, Sent, Held, Unread
    <3>4. PipeOf(Only)' = Append(PipeOf(Only), e)
      BY <2>1, <3>1, <3>2, <3>3
    <3>5. Pipe!Put(e)
      BY <2>1, <2>2, <3>4 DEF Pipe!Put, Done
    <3> QED
      BY <3>5 DEF Pipe!Next
  <2>3. CASE ~Feeding(Only) \/ Done
    <3>1. ~Feeding(Only) => UNCHANGED Unread
      BY <2>1 DEF Unread
    <3>2. Done \/ UNCHANGED ((Sent \o Held) \o Unread)
      BY <2>1, <2>3, <3>1
    <3> QED
      BY <2>1, <3>2, PipeStutters
  <2> QED
    BY <2>2, <2>3
<1> QED
  BY <1>1, <1>2, <1>3, <1>4, <1>5, <1>6, <1>7 DEF Next

LEMMA InitPipes ==
  ASSUME Init, Conns = {Only}
  PROVE  Pipe!Init /\ Spawned
<1>1. Sent = <<>> /\ Held = <<>> /\ Unread = <<>>
  BY UntranslatedEmpty DEF Init, LoopInit, Sent, Held, Unread
<1>2. (<<>> \o <<>>) \o <<>> = <<>>
  <2>1. <<>> \in Seq(KernelEvent)
    BY EmptySeq
  <2> QED
    BY <2>1, ConcatEmptySeq
<1>3. PipeOf(Only) = IF Done THEN <<>> ELSE (Sent \o Held) \o Unread
  BY DEF PipeOf, Done, Sent, Held, Unread
<1>4. PipeOf(Only) = <<>>
  BY <1>1, <1>2, <1>3
<1>5. Feeding(Only) /\ monitor[Only] # "done"
  BY DEF Init, LoopInit, Feeding, At
<1>6. Spawned
  BY DEF Init, LoopInit, Spawned
<1> QED
  BY <1>4, <1>5, <1>6 DEF Pipe!Init

\* The event thread of a lone connection (spawn_event_handler and its callbacks)
\* keeps the promise of EventPipe: no event of the kernel is lost, repeated or
\* overtaken between the fd and the monitor task until the thread, the context or
\* the monitor is gone.
THEOREM PipeImplemented ==
  ASSUME Conns = {Only}
  PROVE  Spec => InOrder
<1>1. Init => Pipe!Init /\ Spawned
  BY InitPipes
<1>2. LoopInv /\ Spawned /\ [Next]_vars => Spawned' /\ [Pipe!Next]_(Pipe!vars)
  BY SpawnedNext, NextPipes
<1> QED
  BY <1>1, <1>2, LoopCorrect, PTL DEF Spec, InOrder, Pipe!Spec
=============================================================================
