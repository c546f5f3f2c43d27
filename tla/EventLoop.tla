------------------------------ MODULE EventLoop -----------------------------
(***************************************************************************)
(* handle.rs, spawn_event_handler: the blocking thread that polls a        *)
(* handle's fd, lets libevdi read the events there, and forwards each one  *)
(* from a callback with a blocking send.  It looks for the close message   *)
(* at the top of every turn and drops its event sender when it ends.       *)
(*                                                                         *)
(* One thread per connection; all of them share the fd of the one libevdi  *)
(* context.  Kernel events are modes, UpdateReady and Other; the callback  *)
(* turns UpdateReady into the id of the buffer last asked for, which       *)
(* libevdi keeps in the context.                                           *)
(***************************************************************************)
EXTENDS Naturals, Sequences

CONSTANTS
  Conns, Modes, BufferIds, Other, NoBuffer,
  UpdateReady, \* the kernel's announcement that a requested update is ready
  EventCap,    \* capacity of the mpsc channel (16 in the code)
  FdCap        \* bound of the model: unread events the fd holds

ASSUME EventLoopAssumption ==
  /\ EventCap \in Nat \ {0}
  /\ FdCap \in Nat \ {0}
  /\ NoBuffer \notin BufferIds
  /\ Modes \cap BufferIds = {}
  /\ Other \notin Modes \cup BufferIds
  /\ UpdateReady \notin Modes \cup BufferIds \cup {Other}

VARIABLES
  loopPc,    \* where each thread is; "none" before it is spawned
  batch,     \* events libevdi has read for it and not yet called back with
  closeMsg,  \* a message waits in its close channel
  closeTx,   \* the close channel's sender exists
  eventTx,   \* the thread's event sender exists
  channel,   \* the mpsc channel to its monitor task
  monitor,   \* the monitor task, which owns the receiver
  fdEvents,  \* unread events of the fd
  context,   \* the evdi_handle: "open" or "closed"
  hangup,    \* revents the fd has besides POLLIN: "no" while the device works
  bufferToUpdate  \* the buffer id the context remembers

loopVars == <<loopPc, batch, closeMsg, closeTx, eventTx>>
libVars  == <<fdEvents, context, hangup, bufferToUpdate>>
vars == <<loopPc, batch, closeMsg, closeTx, eventTx, channel, monitor,
          fdEvents, context, hangup, bufferToUpdate>>

KernelEvent == Modes \cup {UpdateReady, Other}
Event == Modes \cup BufferIds \cup {Other}

TypeOK ==
  /\ loopPc \in [Conns -> {"none", "top", "poll", "read", "blocked", "callback", "ended"}]
  /\ batch \in [Conns -> Seq(KernelEvent)]
  /\ closeMsg \in [Conns -> BOOLEAN]
  /\ closeTx \in [Conns -> BOOLEAN]
  /\ eventTx \in [Conns -> BOOLEAN]
  /\ channel \in [Conns -> Seq(Event)]
  /\ \A c \in Conns : Len(channel[c]) <= EventCap
  /\ monitor \in [Conns -> {"none", "running", "done"}]
  /\ fdEvents \in Seq(KernelEvent)
  /\ context \in {"open", "closed"}
  /\ hangup \in {"no", "POLLHUP", "POLLERR", "mixed"}
  /\ bufferToUpdate \in BufferIds \cup {NoBuffer}

LoopInit ==
  /\ loopPc = [c \in Conns |-> "none"]
  /\ batch = [c \in Conns |-> <<>>]
  /\ closeMsg = [c \in Conns |-> FALSE]
  /\ closeTx = [c \in Conns |-> FALSE]
  /\ eventTx = [c \in Conns |-> FALSE]

-----------------------------------------------------------------------------
(* The thread.                                                             *)

Goto(c, pc) == loopPc' = [loopPc EXCEPT ![c] = pc]

At(c, pc) == loopPc[c] = pc

\* The thread is inside libevdi, using the handle it was given.
UsesHandle(c) == loopPc[c] \in {"read", "blocked", "callback"}

Spawn(c) ==
  /\ At(c, "none")
  /\ Goto(c, "top")
  /\ closeTx' = [closeTx EXCEPT ![c] = TRUE]
  /\ eventTx' = [eventTx EXCEPT ![c] = TRUE]
  /\ UNCHANGED <<batch, closeMsg>>

\* Mutant: the boxed event sender is not freed.
LeaveKeepsSender(c) ==
  /\ Goto(c, "ended")
  /\ closeMsg' = [closeMsg EXCEPT ![c] = FALSE]
  /\ UNCHANGED <<batch, closeTx, eventTx, channel, libVars>>

\* Leave the loop: free the boxed event sender and drop the close receiver.
Leave(c) ==
  /\ Goto(c, "ended")
  /\ eventTx' = [eventTx EXCEPT ![c] = FALSE]
  /\ closeMsg' = [closeMsg EXCEPT ![c] = FALSE]
  /\ UNCHANGED <<batch, closeTx, channel, libVars>>

\* try_recv on the close channel: Ok or Disconnected ends the loop ...
StopOnClose(c) ==
  /\ At(c, "top")
  /\ closeMsg[c] \/ ~closeTx[c]
  /\ Leave(c)

\* ... and Empty lets it go on.
KeepRunning(c) ==
  /\ At(c, "top")
  /\ ~closeMsg[c] /\ closeTx[c]
  /\ Goto(c, "poll")
  /\ UNCHANGED <<batch, closeMsg, closeTx, eventTx, channel, libVars>>

\* What poll(2) can report: a return value below 0 or revents.  It looks at its fd
\* before it looks for a signal (EINTR), and one fd leaves it no other error, so it
\* fails only where there is nothing to report.
PollResults ==
  IF context = "closed" THEN {"POLLNVAL"}
  ELSE IF hangup # "no" THEN {hangup}
  ELSE IF fdEvents # <<>> THEN {"POLLIN"}
  ELSE {"timeout", "error"}

\* POLLIN alone goes on to libevdi.
PollReady(c) ==
  /\ At(c, "poll")
  /\ "POLLIN" \in PollResults
  /\ Goto(c, "read")
  /\ UNCHANGED <<batch, closeMsg, closeTx, eventTx, channel, libVars>>

\* Mutant: POLLNVAL is treated like the unexpected values.
PollBrokenExceptNval(c) ==
  /\ At(c, "poll")
  /\ PollResults \cap {"POLLHUP", "POLLERR"} # {}
  /\ Leave(c)

\* POLLHUP, POLLNVAL or POLLERR alone ends the loop.
PollBroken(c) ==
  /\ At(c, "poll")
  /\ PollResults \cap {"POLLHUP", "POLLNVAL", "POLLERR"} # {}
  /\ Leave(c)

\* Mutant: a turn without events goes straight back to poll.
PollIdleNoCheck(c) ==
  /\ At(c, "poll")
  /\ PollResults \cap {"timeout", "error", "mixed"} # {}
  /\ UNCHANGED <<loopVars, channel, libVars>>

\* Mutant: an error of poll itself ends the loop.
PollIdleErrorBreaks(c) ==
  /\ At(c, "poll")
  /\ PollResults \cap {"timeout", "error", "mixed"} # {}
  /\ IF "error" \in PollResults
     THEN Leave(c)
     ELSE /\ Goto(c, "top")
          /\ UNCHANGED <<batch, closeMsg, closeTx, eventTx, channel, libVars>>

\* Mutant: an error of poll frees the boxed sender, and the loop goes on.
PollIdleErrorFrees(c) ==
  /\ At(c, "poll")
  /\ PollResults \cap {"timeout", "error", "mixed"} # {}
  /\ Goto(c, "top")
  /\ eventTx' = [eventTx EXCEPT ![c] = @ /\ "error" \notin PollResults]
  /\ UNCHANGED <<batch, closeMsg, closeTx, channel, libVars>>

\* A timeout, an error of poll itself and any other revents: next turn.
PollIdle(c) ==
  /\ At(c, "poll")
  /\ PollResults \cap {"timeout", "error", "mixed"} # {}
  /\ Goto(c, "top")
  /\ UNCHANGED <<batch, closeMsg, closeTx, eventTx, channel, libVars>>

\* evdi_handle_events reads as many whole events as it finds ...
ReadEvents(c) ==
  /\ At(c, "read") \/ At(c, "blocked")
  /\ context = "open"
  /\ \E n \in 1..Len(fdEvents) :
       /\ batch' = [batch EXCEPT ![c] = SubSeq(fdEvents, 1, n)]
       /\ fdEvents' = SubSeq(fdEvents, n + 1, Len(fdEvents))
  /\ Goto(c, "callback")
  /\ UNCHANGED <<closeMsg, closeTx, eventTx, channel, context, hangup, bufferToUpdate>>

\* ... and blocks in read(2) while there are none: another thread of the same
\* context took what poll saw.  A close of the fd does not wake it.
ReadBlocks(c) ==
  /\ At(c, "read")
  /\ context = "open"
  /\ fdEvents = <<>>
  /\ Goto(c, "blocked")
  /\ UNCHANGED <<batch, closeMsg, closeTx, eventTx, channel, libVars>>

\* The context was closed since poll: nothing is read.
ReadClosed(c) ==
  /\ At(c, "read")
  /\ context = "closed"
  /\ Goto(c, "top")
  /\ UNCHANGED <<batch, closeMsg, closeTx, eventTx, channel, libVars>>

\* After the callback for the first event of the batch.
Called(c) ==
  /\ batch' = [batch EXCEPT ![c] = Tail(@)]
  /\ Goto(c, IF Len(batch[c]) = 1 THEN "top" ELSE "callback")

\* The callback's argument as an Event.
ToEvent(e) == IF e = UpdateReady THEN bufferToUpdate ELSE e

\* Mutant: try_send, which drops the event when the channel is full.
SendEventLossy(c) ==
  /\ At(c, "callback")
  /\ monitor[c] = "running"
  /\ Called(c)
  /\ channel' = IF Len(channel[c]) < EventCap
                THEN [channel EXCEPT ![c] = Append(@, ToEvent(Head(batch[c])))]
                ELSE channel
  /\ UNCHANGED <<closeMsg, closeTx, eventTx, libVars>>

\* Mutant: the send does not wait for room.
SendEventUnbounded(c) ==
  /\ At(c, "callback")
  /\ monitor[c] = "running"
  /\ Called(c)
  /\ channel' = [channel EXCEPT ![c] = Append(@, ToEvent(Head(batch[c])))]
  /\ UNCHANGED <<closeMsg, closeTx, eventTx, libVars>>

\* blocking_send waits for room.
SendEvent(c) ==
  /\ At(c, "callback")
  /\ monitor[c] = "running"
  /\ Len(channel[c]) < EventCap
  /\ Called(c)
  /\ channel' = [channel EXCEPT ![c] = Append(@, ToEvent(Head(batch[c])))]
  /\ UNCHANGED <<closeMsg, closeTx, eventTx, libVars>>

\* Mutant: a send to nobody waits like a send to a full channel.
SendToNobodyBlocks(c) ==
  /\ At(c, "callback")
  /\ monitor[c] = "none"
  /\ Called(c)
  /\ UNCHANGED <<closeMsg, closeTx, eventTx, channel, libVars>>

\* blocking_send fails at once when the receiver is gone; a warning is all.
SendToNobody(c) ==
  /\ At(c, "callback")
  /\ monitor[c] = "done"
  /\ Called(c)
  /\ UNCHANGED <<closeMsg, closeTx, eventTx, channel, libVars>>

Turn(c) ==
  /\ \/ StopOnClose(c) \/ KeepRunning(c)
     \/ PollReady(c) \/ PollBroken(c) \/ PollIdle(c)
     \/ ReadEvents(c) \/ ReadBlocks(c) \/ ReadClosed(c)
     \/ SendEvent(c) \/ SendToNobody(c)
  /\ UNCHANGED monitor

-----------------------------------------------------------------------------
(* The thread alone: one with its monitor task, its user and the kernel.   *)

Init ==
  /\ LoopInit
  /\ channel = [c \in Conns |-> <<>>]
  /\ monitor = [c \in Conns |-> "none"]
  /\ fdEvents = <<>>
  /\ context = "open"
  /\ hangup = "no"
  /\ bufferToUpdate = NoBuffer

\* Handle::new spawns the thread, then the monitor task.
Connect(c) ==
  /\ context = "open"
  /\ Spawn(c)
  /\ monitor' = [monitor EXCEPT ![c] = "running"]
  /\ UNCHANGED <<channel, libVars>>

\* The monitor task takes an event ...
MonitorTakes(c) ==
  /\ monitor[c] = "running"
  /\ channel[c] # <<>>
  /\ channel' = [channel EXCEPT ![c] = Tail(@)]
  /\ UNCHANGED <<loopVars, monitor, libVars>>

\* ... ends when there can be no more ...
MonitorEnds(c) ==
  /\ monitor[c] = "running"
  /\ channel[c] = <<>> /\ ~eventTx[c]
  /\ monitor' = [monitor EXCEPT ![c] = "done"]
  /\ UNCHANGED <<loopVars, channel, libVars>>

\* ... or is dropped with its queue when the runtime shuts down, which does not
\* stop a blocking thread.
RuntimeShutdown(c) ==
  /\ monitor[c] = "running"
  /\ monitor' = [monitor EXCEPT ![c] = "done"]
  /\ channel' = [channel EXCEPT ![c] = <<>>]
  /\ UNCHANGED <<loopVars, libVars>>

\* Drop for Handle: the close message, then the sender itself.
SendClose(c) ==
  /\ closeTx[c] /\ ~closeMsg[c] /\ ~At(c, "ended")
  /\ closeMsg' = [closeMsg EXCEPT ![c] = TRUE]
  /\ UNCHANGED <<loopPc, batch, closeTx, eventTx, channel, monitor, libVars>>

DropCloseSender(c) ==
  /\ closeTx[c] /\ (closeMsg[c] \/ At(c, "ended"))
  /\ closeTx' = [closeTx EXCEPT ![c] = FALSE]
  /\ UNCHANGED <<loopPc, batch, closeMsg, eventTx, channel, monitor, libVars>>

\* evdi_close, whether or not the thread has been told.
CloseContext ==
  /\ context = "open"
  /\ context' = "closed"
  /\ fdEvents' = <<>>
  /\ UNCHANGED <<loopVars, channel, monitor, hangup, bufferToUpdate>>

\* evdi_request_update.
Ask(id) ==
  /\ context = "open"
  /\ bufferToUpdate' = id
  /\ UNCHANGED <<loopVars, channel, monitor, fdEvents, context, hangup>>

Emit(e) ==
  /\ context = "open" /\ hangup = "no"
  /\ e = UpdateReady => bufferToUpdate # NoBuffer
  /\ Len(fdEvents) < FdCap
  /\ fdEvents' = Append(fdEvents, e)
  /\ UNCHANGED <<loopVars, channel, monitor, context, hangup, bufferToUpdate>>

\* The device goes away.
Unplug ==
  /\ context = "open" /\ hangup = "no"
  /\ hangup' \in {"POLLHUP", "POLLERR", "mixed"}
  /\ UNCHANGED <<loopVars, channel, monitor, fdEvents, context, bufferToUpdate>>

Next ==
  \/ \E c \in Conns :
       \/ Connect(c) \/ Turn(c)
       \/ MonitorTakes(c) \/ MonitorEnds(c) \/ RuntimeShutdown(c)
       \/ SendClose(c) \/ DropCloseSender(c)
  \/ CloseContext \/ Unplug
  \/ \E id \in BufferIds : Ask(id)
  \/ \E e \in KernelEvent : Emit(e)

Spec == Init /\ [][Next]_vars

\* The thread is scheduled and the runtime polls the task while it lives.  The
\* kernel, the user and a shutdown owe nothing.
Fairness == \A c \in Conns : WF_vars(Turn(c)) /\ WF_vars(MonitorTakes(c))

FairSpec == Spec /\ Fairness

-----------------------------------------------------------------------------
(* Properties.                                                             *)

\* A close message ends the thread: whatever the kernel keeps sending, with the
\* channel full, with nobody receiving, with the fd broken in any way.
CloseStops == \A c \in Conns : closeMsg[c] ~> At(c, "ended")

\* A thread nobody told ends too once its fd is closed, or reports a hangup or
\* an error and nothing else.
BrokenFdStops ==
  \A c \in Conns :
    (~At(c, "none") /\ (context = "closed" \/ hangup \in {"POLLHUP", "POLLERR"}))
      ~> At(c, "ended")

\* What a thread's pipe still takes in: events of the fd.
Feeding(c) == ~At(c, "ended") /\ context = "open"

\* The kernel's events behind what the callbacks sent.
Untranslated(s) ==
  [i \in 1..Len(s) |-> IF s[i] \in BufferIds THEN UpdateReady ELSE s[i]]

PipeOf(c) ==
  IF monitor[c] = "done" THEN <<>>
  ELSE Untranslated(channel[c]) \o batch[c] \o (IF Feeding(c) THEN fdEvents ELSE <<>>)

\* With one connection there is one pipe; with more, the threads share the fd.
Only == CHOOSE c \in Conns : TRUE

Pipe == INSTANCE EventPipe WITH
  Tokens <- KernelEvent,
  pipe <- PipeOf(Only),
  open <- Feeding(Only) /\ monitor[Only] # "done"

\* The fd, the batch and the channel of a lone connection together are one
\* first-in first-out pipe from the kernel to the monitor task: no event is
\* lost, repeated or overtaken on the way until the thread, the context or the
\* monitor is gone.
InOrder == Pipe!Spec
=============================================================================
