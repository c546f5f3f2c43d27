------------------------------ MODULE LibEvdi -------------------------------
(***************************************************************************)
(* External: libevdi and the kernel module, as handle.rs uses them.  One   *)
(* opened context (evdi_handle), the events queued on its fd, and the one  *)
(* update the kernel can have outstanding.                                 *)
(*                                                                         *)
(* Taken from the way the code in src/ calls it: the context remembers the *)
(* buffer last asked for, and both the update notice and a grab use that   *)
(* one (handle.rs, the NOTE in request_update); a request either is ready  *)
(* at once or leaves an update outstanding (the boolean it returns); a     *)
(* registered buffer's memory may be written by a grab.                    *)
(***************************************************************************)
EXTENDS Naturals, Sequences

CONSTANTS
  Modes, BufferIds, Other, NoBuffer, UpdateReady,
  FdCap,       \* bound of the model: unread events the fd holds
  MaxModes     \* bound of the model: modes the kernel announces

VARIABLES
  context,         \* "open", then "closed" by evdi_close
  connected,       \* evdi_connect has been called and not undone
  registered,      \* ids of the registered buffers
  bufferToUpdate,  \* the buffer id last asked for
  updatePending,   \* the kernel owes an UpdateReady
  fdEvents,        \* events not yet read
  hangup,          \* revents of the fd besides POLLIN; "no" while it works
  modesEmitted     \* modes announced so far

libVars == <<context, connected, registered, bufferToUpdate, updatePending,
             fdEvents, hangup, modesEmitted>>

\* DeviceNode::open has just succeeded.
LibInit ==
  /\ context = "open"
  /\ connected = FALSE
  /\ registered = {}
  /\ bufferToUpdate = NoBuffer
  /\ updatePending = FALSE
  /\ fdEvents = <<>>
  /\ hangup = "no"
  /\ modesEmitted = 0

evdi_connect ==
  /\ connected' = TRUE
  /\ UNCHANGED <<context, registered, bufferToUpdate, updatePending, fdEvents,
                 hangup, modesEmitted>>

\* The kernel forgets the update it owes; what is queued stays readable.
evdi_disconnect ==
  /\ connected' = FALSE
  /\ updatePending' = FALSE
  /\ UNCHANGED <<context, registered, bufferToUpdate, fdEvents, hangup, modesEmitted>>

evdi_close ==
  /\ context' = "closed"
  /\ connected' = FALSE
  /\ registered' = {}
  /\ updatePending' = FALSE
  /\ fdEvents' = <<>>
  /\ UNCHANGED <<bufferToUpdate, hangup, modesEmitted>>

evdi_register_buffer(id) ==
  /\ registered' = registered \cup {id}
  /\ UNCHANGED <<context, connected, bufferToUpdate, updatePending, fdEvents,
                 hangup, modesEmitted>>

evdi_unregister_buffer(id) ==
  /\ registered' = registered \ {id}
  /\ UNCHANGED <<context, connected, bufferToUpdate, updatePending, fdEvents,
                 hangup, modesEmitted>>

\* ready is what the call returns; it is FALSE as long as an earlier request is
\* outstanding, and when the device is gone.
evdi_request_update(id, ready) ==
  /\ ready => ~updatePending /\ hangup = "no"
  /\ bufferToUpdate' = id
  /\ updatePending' = ~ready
  /\ UNCHANGED <<context, connected, registered, fdEvents, hangup, modesEmitted>>

-----------------------------------------------------------------------------
(* The kernel.                                                             *)

Working == connected /\ hangup = "no"

\* The update it owes is complete.
KernelUpdate ==
  /\ Working
  /\ updatePending
  /\ Len(fdEvents) < FdCap
  /\ updatePending' = FALSE
  /\ fdEvents' = Append(fdEvents, UpdateReady)
  /\ UNCHANGED <<context, connected, registered, bufferToUpdate, hangup, modesEmitted>>

\* The bound leaves room for an update.
KernelMode(m) ==
  /\ Working
  /\ modesEmitted < MaxModes
  /\ Len(fdEvents) < FdCap - 1
  /\ modesEmitted' = modesEmitted + 1
  /\ fdEvents' = Append(fdEvents, m)
  /\ UNCHANGED <<context, connected, registered, bufferToUpdate, updatePending, hangup>>

KernelOther ==
  /\ Working
  /\ Len(fdEvents) < FdCap - 1
  /\ fdEvents' = Append(fdEvents, Other)
  /\ UNCHANGED <<context, connected, registered, bufferToUpdate, updatePending,
                 hangup, modesEmitted>>

\* The device goes away: the fd is broken for good.
Unplug ==
  /\ context = "open" /\ hangup = "no"
  /\ hangup' \in {"POLLHUP", "POLLERR", "mixed"}
  /\ UNCHANGED <<context, connected, registered, bufferToUpdate, updatePending,
                 fdEvents, modesEmitted>>
=============================================================================
