# A verification project for evdi-rs

evdi-rs is a Rust library around libevdi, which manages virtual displays on
Linux. Its own logic is small and almost all concurrent: a thread that polls
the device and is called back by C, a tokio task that sorts what the thread
sends, futures that wait for a mode or a buffer update, and a `Handle` that
owns and abandons all of them. Around it, device nodes are found and opened
while they come and go, and buffers are lent to C with dimensions that were
converted more than once. This directory models that logic in TLA+, checks it
with TLC and proves its safety properties with TLAPS.

Source paths are relative to the repository (`src/handle.rs` is
`src/src/handle.rs` in `PROJECT.json`).

## Inventory

| Component | State | Operations | Interacts with |
|---|---|---|---|
| Event loop, `src/handle.rs` `spawn_event_handler` | position in its turn, the batch libevdi read, the boxed event sender, the close channel | poll, read and call back, blocking send, look for the close message | libevdi (fd, callbacks), monitor (mpsc channel), Handle (close channel) |
| Handle events, `src/events.rs` | mpsc receiver in the monitor task, watch cell for the mode, broadcast channel for updates, the suspended calls | monitor task, `await_mode`, `await_buffer_update`, `current_mode` | event loop, the user's task |
| Handle, UnconnectedHandle, `src/handle.rs` | the raw handle, the map of buffers, the events, the close sender | `connect`, `disconnect`, both drops, `new_buffer`, `unregister_buffer`, `request_update` | all of the others |
| libevdi and the kernel (external) | context, registrations, buffer last asked for, outstanding update, fd | `evdi_*`, kernel events, unplugging | event loop, Handle |
| Buffer, `src/buffer.rs`, `Mode` of `src/events.rs` | pixels, rects, version, id, dimensions | `new`, `sys`, `mark_updated`, `debug_write_to_ppm`; `Mode::stride` | Handle, libevdi |
| Device node, `src/device_node.rs` | none of its own; `/dev/dri`, the kernel module | `get`, `list_available`, `status`, `open`, `add`, `remove_all` | libevdi, the file system |
| Versions, logs, arrays, `src/lib.rs` | the log `Once`, the rect count C writes | `check_kernel_mod`, `is_compatible_with`, `ensure_logs_setup`, `PreallocatedArray`, `OwnedLibcArray` | Device node, Buffer, events |
| Device configuration, `src/device_config/` | EDID bytes, size | `sku_area_limit`, `bin_frac` | Handle |

What is hard: the update notice races the subscription to it; notices of
abandoned requests arrive later; the event loop blocks in a send, in a poll or
in a read while its Handle is being closed; closing is not synchronised with
the thread at all; `disconnect` abandons a running thread with the context it
polls; senders and receivers keep each other alive, and one too many hides that
a channel is closed. The nodes and the module change between the looks a call
takes at them, and several threads may be the first to need the log callback.
The kernel changes its mode under a buffer made for another, a grab brings only
what was drawn since the last one and may fail unnoticed, and a line length passes
through u32, usize and c_int on its way to C. `PROJECT.json` lists these hazards at their lines.

What makes each component correct:

- event loop: no event is lost, doubled or overtaken; it ends when told, whatever
  the kernel, the channel and the monitor do; it ends when its fd is broken;
- handle events: a waiting `await_mode` is woken exactly when there is a mode; it
  returns once a mode has come or the loop has gone; the monitor leaves nothing
  undispatched;
- Handle: a request that waits will be told of its update; libevdi never has
  freed memory registered; a grab writes to the buffer that was asked for; a
  connected Handle has a working loop; a dropped one leaves nothing running;
- device node: a list omits no node that was available all along and holds none
  that never was; an error of `open` names something that was so; libevdi is never
  entered before its log callback is set, and nobody waits for that for ever;
- buffer: whatever the kernel writes to is allocated; version and rects name every
  byte that changed; a buffer that alone is updated is the display; a picture
  written out is the one in the buffer.

## Modules

| Module | Models | Checked by |
|---|---|---|
| `HandleEvents` | `src/events.rs`: monitor task, `await_mode`, `await_buffer_update` | `MCHandleEvents` |
| `HandleEventsProofs` | theorems of `HandleEvents` | tlapm |
| `EventLoop` | the thread in `src/handle.rs` 207-325 | `MCEventLoop` |
| `EventPipe` | abstract: what the thread promises, a FIFO pipe | as a property of `EventLoop` |
| `EventLoopProofs` | theorems of `EventLoop` | tlapm |
| `EventPipeProofs` | `EventLoop` implements `EventPipe` | tlapm |
| `LibEvdi` | external: libevdi and the kernel as handle.rs uses them | in `Handle` |
| `Handle` | `src/handle.rs`, composed with `HandleEvents`, `EventLoop` and `LibEvdi` by `INSTANCE` | `MCHandle` |
| `HandleProofs` | theorems of `Handle`: libevdi's contract, a connected Handle is served, types, `Handle` implements `HandleEvents` and `EventLoop` | tlapm |
| `HandleWakeupProofs` | theorem of `Handle` on the current-thread runtime: no lost wake-up | tlapm |
| `DeviceNode` | `src/device_node.rs`, with `check_kernel_mod`, the versions and the log set-up of `src/lib.rs` | `MCDeviceNode` |
| `DeviceNodeProofs` | theorems of `DeviceNode`: the log callback, what `open` reports | tlapm |
| `DeviceListProofs` | theorems of `DeviceNode`, continued: types, what `list_available` and `get` return | tlapm |
| `Buffer` | `src/buffer.rs`, the buffer operations of `src/handle.rs`, `Mode` and its stride, the area limit, `PreallocatedArray` | `MCBuffer` |
| `BufferProofs` | theorems of `Buffer` | tlapm |

**Correspondence.** `HandleEvents` indexes its state by connection because
`disconnect` leaks one `HandleEvents` and `connect` makes another. `channel` is
the mpsc channel; `currentMode` and `modeVersion` are the watch cell, and `seen`
the version a cloned receiver last saw (the receiver inside `HandleEvents` is
only ever borrowed, so a clone starts at version 0); `inbox` and `lagged` are the
broadcast receiver of the one `await_buffer_update` call (`request_update` takes
`&mut self`). `held` says that the `HandleEvents` value exists, and with it its
watch receiver and its own broadcast sender. Each await is modelled at the
granularity of a multi-threaded runtime: the check of the cached mode, the clone
and the wake-up are separate steps.

`EventLoop` has one action per branch of the loop. `loopPc` is where the thread
is: `top` (try_recv on the close channel), `poll`, `read` (about to call
`evdi_handle_events`), `blocked` (in read(2)), `callback` (in a callback, about
to send). A batch is what one call read; each of its events is sent by a
blocking send. Modes and update notices are kept, all other kinds of event are
the one value `Other`. `h_update_ready` passes the id libevdi remembers, so an
`UpdateReady` becomes the id of the buffer last asked for at the time of the
callback.

`Handle` keeps the user's task (`phase`, `conn`, `request`), the keys of the map
of buffers, and who owns each buffer's memory. `request_update` is four actions:
the call of `evdi_request_update`, the subscription, the wait, and the grab with
`mark_updated`. Drop is four: the close message, `evdi_disconnect`,
`evdi_close`, and the drop of the fields. On tokio's current-thread runtime
(`MultiThread = FALSE`) the monitor task takes a step only while the user's task
is suspended; the event loop is a thread of its own on both kinds of runtime.

`DeviceNode` has threads that call the public functions and an environment that
plugs and unplugs cards and loads and unloads the module. A call is as many
steps as it has looks at this world: reading the directory entry by entry, the
status of each card, the version file, the call that opens. `ensure_logs_setup`
is two steps for the thread that runs the closure of the `Once`, and blocks the
others until it has ended. `during` is a history variable: the worlds there have
been since a call of `list`, `get` or `open` began, against which its result is
read.

`Buffer` follows one Handle's buffers from the mode they are made for to the bytes
a reader sees. It is separate from `Handle` because it asks about data: dimensions
keep their width (`Word` stands for 2^32) through `Mode`, `stride`, `new` and
`sys`; a byte is the picture, row, column and channel it came from. A buffer may be
made for a mode the kernel announces or for a `Mode` the user makes up, whose fields
are public. The kernel draws areas (`Draw`) and keeps them as its dirty rects.
`Grab` is the end of `request_update`: `evdi_grab_pixels` hands out the dirty rects,
copies the pixels in them and in nothing else, and forgets them; or it fails, and
`mark_updated` follows either way. The rects go into the array of the buffer, and
their number, an int, into one half of a `usize` (`WriteRects`, `WriteLen`). Three
history variables tell what the bytes are worth: `shown`, the picture each pixel of
a buffer was last copied from; `seen`, the versions a buffer has had, each with its
bytes; `takers`, the buffers whose updates took rects since the mode changed.

## Runs

| Run | Question | Bounds |
|---|---|---|
| `handle_events` | `WatchAgrees`, `NothingAbandoned`, `WaiterServed`: modes reach waiters, events reach the monitor | 1 connection, 2 waiters, 2 modes, 2 buffers, both channels of 2, 2 modes announced |
| `event_loop` | `InOrder` (refines `EventPipe`), `CloseStops`, `BrokenFdStops` | 1 thread, 2 buffers, fd and channel of 2, unlimited events |
| `handle_current_thread` | `NoLostWakeup`, `RequestServed`, `LoopStops` on the current-thread runtime | 1 connection, 2 buffers, mpsc and broadcast of 1, fd of 2 |
| `handle_modes` | `ModeServed`: from the kernel to `await_mode`; `EventsImplemented` (refines `HandleEvents`), multi-threaded | 1 waiter, 1 mode, 1 buffer |
| `handle_reconnect` | `LibEvdiContract`, `Serving` across a disconnect, `LoopImplemented` (refines `EventLoop`), multi-threaded | 2 connections, 1 buffer |
| `device_node` | `LogsFirst`, `ListFaithful`, `GetFaithful`, `OpenExplains`, `CallsReturn` in a world that changes | 2 threads, one that looks and one that adds and removes, 2 cards, 3 versions of the module or none, 2 changes |
| `buffer` | `WritesLand`, `VersionTellsChange`, `RectsTellChange`, `SoleBufferCurrent`, `PpmFaithful` under drawing, mode changes and failing grabs | 2 buffers (symmetric), words of 7 bits, 5 modes (one above the area limit), 2 modes made up by the user, 3 areas, lists of 2 rects, 3 pictures, 3 updates of a buffer |
| `lost_wakeup` | violation of `NoLostWakeup`, multi-threaded | 1 buffer |
| `stale_update` | violation of `UpdateIsFresh` | 1 buffer, current-thread |
| `use_after_close` | violation of `NoUseAfterClose` | 1 buffer |
| `disconnect_leak` | violation of `DisconnectCleansUp` | 1 connection |
| `closed_not_reported` | violation of `ClosedIsReported` | 1 waiter, 1 buffer |

**Why the bounds are enough.** Every channel is a FIFO with blocking or eviction
at its capacity, and capacities of 1 and 2 reach the full, the empty and the
evicting case, with an event of another kind in front of or behind the
interesting one. 16, the value in the code, only makes these states rarer. Two
buffers give a notice of the wrong buffer; two waiters give a waiter on each side
of a publication; two connections give one abandoned and one live loop. Event
kinds that are bounded (`MaxModes`) are bounded because the watch version grows;
updates and other events are unlimited in number, `FdCap` only bounds how many
lie unread. In `device_node` two changes put one on each side of any look of a
call, or take a node away and put another in its place; two cards give the
order of a list and the choice of `get`; the versions are one that is
compatible, one too old and one of another major version. Its second thread also
makes the two threads that race for the log callback. In `buffer` a word of 7
bits makes a c_int hold a line of 60 bytes and not one of 64, and both are among
the modes; of the modes the user makes up, one has a stride that wraps to that of a
shorter line, the other a height that a cast turns negative. Lists of two rects run
full and merge; three pictures put a drawing or a mode change between two requests;
ids are drawn from those not in use, and nothing tells one id from another
(`SYMMETRY`). `KernelMode` and `KernelOther` leave room for an update in the fd, so
that the bound does not make the kernel hold an update back for ever.

**Deadlock** is checked in the runs of `Handle`, whose `Finished` is the one state
in which everything may stop, and in those of `DeviceNode` and `Buffer`, which
need never stop. The two components alone may stop once their
environment has (`CHECK_DEADLOCK FALSE`).

**Fairness.** The event loop is an OS thread and is scheduled; tokio polls a task
that has been woken; the kernel sends an update it owes while the device works.
What the user starts its task carries on with. Nothing else is assumed: no timer
goes off, no call is made, no event other than an owed update is sent, no device
is unplugged. In `DeviceNode`, a thread inside a call is scheduled again
(`WF` on its next step); no call is owed and no change of the world. Leaving timers out makes the liveness properties say that a result
arrives because it was delivered and not because the caller gave up.

## What the checks show

On the current-thread runtime `request_update` is sound although it subscribes
after it has asked: the only task that could dispatch the notice early cannot run
before the future is suspended (`NoLostWakeup`, `RequestServed`). The monitor
and `await_mode` are sound on every runtime. The event loop is a reliable pipe
and stops on a close message in every situation, including a full channel. Both
components keep these promises in the library, because it never leaves what they
were checked for: above all, no callback sends through a sender that has been freed.

Looking twice does not hurt `list_available`, `get` and `open`: a list that is
stale when it is returned is still a list of what was there, `open` never blames
the version of the module or the node for something that was not so, and its Unknown
needs a change during the call. Its `KernelModuleNotInstalled` says less than its
name: there was no version file that could be read and parsed, which an installed
module does not rule out (`KernelModVersion::get` makes None of every error). A
`get` that finds nothing may hide a node behind one directory entry that could not be
read; `GetFaithful` exempts that case.

A version tells the contents of a buffer apart although it is raised for grabs that
failed: it then names unchanged bytes anew. The rects of a buffer name every pixel
that an update changed, so a reader may follow them (`RectsTellChange`). Whatever a
`Mode` says and however its stride wraps, the kernel finds no buffer of its shape
that is shorter than what it writes (`WritesLand`). Because the kernel hands out each
rect once, `request_update` updates "a buffer with the current display pixels"
(handle.rs:135) only if that buffer alone is updated: `SoleBufferCurrent` shows it
for one buffer, through requests given up, grabs that fail and lists that run full;
a second buffer misses what the first one took, until it is drawn again.

Five statements of the repository do not hold:

1. `lost_wakeup`: on a multi-threaded runtime the loop and the monitor can
   dispatch the notice between `evdi_request_update` (handle.rs:178) and the
   subscription (events.rs:52). `request_update` "Blocks until the update is
   complete" (handle.rs:137), but then waits for its timeout. Subscribing before
   asking would repair it.
2. `stale_update`: "To receive a buffer update you must have been waiting before
   it was sent by the kernel" (events.rs:34). A notice of an abandoned request for
   the same buffer, still queued, answers the next request; the grab happens while
   the kernel still owes the update.
3. `use_after_close`: neither drop waits for the event loop, so `evdi_close` may
   free the context the thread is using. The comment at handle.rs:214 takes the
   thread to be safe.
4. `disconnect_leak`: `forget(self)` in `disconnect` keeps the close sender, so
   the old loop polls the shared fd until the context is closed, and takes events
   from the next connection. The comment at handle.rs:337 says that we still get
   cleaned up.
5. `closed_not_reported`: `HandleEvents` owns a broadcast sender, so
   `RecvError::Closed` (events.rs:60) cannot occur while a call is waiting.

Two more comments differ from the code without a run of their own.
`debug_write_to_ppm` "Panics: If the pixel format isn't Xbgr8888" (buffer.rs:131),
but asserts Xrgb8888 (its message again says "Only xbgr8888") and reads the bytes in
that order; so `PpmFaithful` is about what it writes where it does not panic. The
version is "None if the buffer never been written to"
(buffer.rs:46), but a request whose grab wrote nothing leaves Some; so
`VersionTellsChange` claims the converse only.

After a reconnect two loops share the fd and one of them can block in read(2)
for good: `Finished` admits that state, and `LoopStops` is claimed for a single
connection only.

## Proofs

TLAPS proves every safety property that a passing run checks, for every number
of connections, waiters, threads, nodes, modes and buffers, for every capacity
and for words of any even size, from the named assumptions of the modules alone:
capacities are positive, values of different kinds differ, and what "Assumptions"
says of `Buffer`.

**`HandleEvents`**

- `TypeCorrect`: types, and that neither channel exceeds its capacity.
- `WatchCorrect`: `WatchAgrees` is not inductive, because nothing in it ties a
  waiter's `seen` to the cell. `WatchInv` adds what makes the code work: the
  version is 0 exactly as long as the cell holds None, and a waiter's receiver
  always starts at 0. The publication of a mode preserves the first part, the
  clone the second, and a waiter that moves its receiver on stops waiting.
- `MonitorAbandonsNothing`: `NothingAbandoned` is inductive on its own: the loop
  cannot send once its sender is gone, and the monitor ends only on an empty
  channel with no sender.
- `OpenCorrect`: all three for `OpenSpec`, which leaves out the bound on modes and
  says no more of the surroundings than that a loop sends while it has its sender
  and there is room.

**`EventLoop`**

- `LoopTypeCorrect`: `TypeOK` is not inductive, because the
  callback turns UpdateReady into the id the context remembers, which is none
  before the first request. `LoopInv` adds `Asked` (no UpdateReady is in the fd or
  a batch before a buffer was asked for) and `BatchHeld` (a batch is held exactly
  during its callbacks).
- `PipeImplemented`: with one connection (`Conns = {Only}`; more of them share the
  fd) every step of `EventLoop` is a step of `EventPipe` or a stutter. The pipe is
  the channel, translated back to what the kernel emitted, then the batch, then
  the fd. `BatchHeld` makes reading a move inside the pipe and leaving the loop a
  cut that keeps exactly what was sent; `Spawned` (a monitor task has its thread)
  makes a connection a stutter. The lemmas on sequences the argument needs are
  stated first in `EventLoopProofs`.

**`Handle`**, for any number of connections of one context and either runtime
unless said otherwise. The invariant is `HandleInv`, three parts that rest on
one another:

- `ContractCorrect`: `ContractInv` adds to `LibEvdiContract` the types of what it
  talks about, and why the drop of a Handle may free its buffers although they are
  never unregistered: once the context is closed nothing is registered. What the
  proof shows besides is that the event loop and the monitor cannot touch it,
  through three instances of other modules.
- `ServingCorrect`: as long as the device works, a connected Handle has a running
  loop and monitor. `ServingInv` adds why nothing ends them: only the Handle being
  dropped has sent a close message, a running loop holds the event sender the
  monitor needs, and the context is open until the drop closes it.
- `HandleTypeCorrect`: `TypeOK` includes the types of both components, and again
  is not inductive. `FlowInv` adds `Asked` and `BatchHeld`, as for the loop alone,
  and that an update is outstanding only after a request; that the subscription
  is for a buffer comes from `ContractInv`, and that the tasks' steps are about a
  connection from `ServingInv`. The component proofs are repeated for their
  instances here, because tlapm cannot use a theorem of a module through
  `INSTANCE`.
- `EventsCorrect` and `LoopCorrect`: every step of `Handle` is a step of
  `HandleEvents` (`OpenSpec`) and of `EventLoop`, or leaves its variables alone.
  This is what makes the checks and theorems of the components say something
  about the library: the surroundings each was checked in are at least as free as
  those it has. A send needs that a running loop has its sender (`ServingInv`) and
  that what a callback hands over is an event (`Asked`); a close message, that
  none is there already and that the loop has not ended; the drop of the close
  sender, that the message was sent before. With them, `OpenCorrect` says of
  `Handle` that no mode is missed and no event abandoned, and `PipeImplemented`
  that with one connection the events stay in order (each by instantiating the
  theorem, which is not a step tlapm can check).
- `WakeupCorrect` (in `HandleWakeupProofs`, under `OneConnection` and
  `~MultiThread`): a request that waits will be told. `NoLostWakeup` says that the
  request's notice is somewhere; this is not inductive, because a notice of an
  abandoned request behind it in a full inbox would push it out. `WakeInv` adds to
  `HandleInv` that behind the request's notice, in the channel and in the inbox,
  there is none of another request (`LastIsRequest`): the kernel takes up one
  request at a time, and the call resubscribes with an empty inbox. It also covers
  the stretch before the subscription, where the monitor cannot run on this
  runtime.

**`DeviceNode`**

- `LogsCorrect`: `LogsFirst` with the type of `pc`; a thread gets to
  a label of `Ffi` only through `EnsureLogsSetup`, whose `Once` never goes back.
- `OpenExplained`: `OpenInv` says of a call of open at each of its
  labels which of the worlds of the call its looks have seen (`Knows`), and that
  the present world is among them; so when `evdi_open` fails after the checks,
  some other world of the call let them pass.
- `DeviceTypeCorrect`: `TypeInv` adds `Flow`, where a thread may be in a call and
  what it has in hand there; the filter takes the head of a list only at a label
  where there is one.
- `ListCorrect`, `GetCorrect`: at each label of a list or a get, `Listed` says that
  every steady card is still in the directory to be read, or among the devices
  read, or among those found available, once in all, and that the others were
  in sight. A change of the world makes fewer cards steady and more sighted, and a
  card still steady was an evdi node before it and is one after it. At the end the
  list is sorted. `Sorted` is any sequence in order with the same entries, and
  `CanBeSorted` shows that there is one without an induction: the place of an
  entry is the number of entries up to it (its cardinality lemmas do the work).

**`Buffer`**

- `BufferTypeCorrect`, `WritesLandCorrect`, `VersionCorrect`: `BufferInv` adds
  `Held` (the buffer of a request stays in the map and is the one libevdi
  remembers), `Lent` (map, memory and registrations have the same ids, libevdi
  holds for each what `Sys` made of it, and the allocation is its height times its
  stride) and `Past` (no version in `seen` is above the present one, so the next
  one is new). Conversions on the way may lose something: `CastKeeps` shows that
  what is not negative after the cast to c_int is what it was, and `FitShape` that
  a buffer the kernel finds to fit its mode therefore has the shape of that mode,
  even if its stride is one that wrapped.
- `RectsCorrect`: `RectsWritten` and `RectsRead` show that `rects()` returns what C
  wrote through two pointers; `GrabEffect` sorts out what a grab changes, and
  `OthersKeepBytes` that nothing else touches the bytes.
- `SoleBufferCorrect`: inductive with `Fresh`, that before the first update in a
  mode all of the frame buffer is dirty. A drawing adds its area to the rects or
  makes them all of the frame buffer; a grab empties them into the one buffer that
  the claim is about.
- `PpmCorrect`: `PaintInv` says of each byte of a buffer which pixel and channel it
  is and that it comes from the picture `shown` has for that pixel, as a formula of
  its index. A grab preserves it where it copies, because the buffer has the frame
  buffer's shape and so its depth, and where it does not, because then `shown` stays
  too. The lemmas on `ChunksExact` (how many pieces, how long, which byte where)
  turn this index back into lines, pixels and channels; `PpmLines` and `PpmBytes`
  put them together.

Only model-checked: liveness under fairness, out of TLAPS's reach (`WaiterServed`,
`CloseStops`, `BrokenFdStops`, `RequestServed`, `LoopStops`, `ModeServed`,
`CallsReturn`).

## Assumptions and what is left out

- `LibEvdi` is external. That a request is not ready while another is
  outstanding, that the notice carries the id last asked for, and that queued
  events survive a disconnect describe libevdi as handle.rs uses it.
- `new_buffer` draws a random 32-bit id; the model takes it to be a new one.
- The number of a closed fd is not reused before the event loop polls again.
- tokio's channels are modelled by their documented behaviour: watch versions,
  broadcast that keeps the newest values, mpsc with blocking send.
- A shutdown of the runtime appears in `EventLoop` (`RuntimeShutdown`), not in
  `Handle`. The limit of the blocking pool is left out.
- `enable_cursor_events`, getters, tracing and Debug output change no state of
  the library.
- `EventLoop`: poll(2) fails only where its fd has nothing to report: it looks at the
  fd before it looks for a signal, and has no other error for one open fd.
- `DeviceNode`: a card that appears while the directory is read may or may not be
  returned, one that disappears is not; `evdi_open` succeeds on an evdi node under
  a compatible module, and may do either where the version file cannot be used. The
  file may be unusable although the module is installed and has nodes; the ways it
  may be so, patch levels and names in `/dev/dri` that are not cards are left out:
  the code does not tell them apart. libevdi returns one of the three statuses that
  `DeviceNodeStatus::from` knows (it panics on others), and fills in its own version
  (which `LibVersion::get` asserts).
- `Buffer`: `evdi_grab_pixels` writes only to a registered buffer whose width,
  height and stride are those of the frame buffer. It hands out the rects that were
  drawn since they were last handed out, to whichever buffer, copies the pixels in
  them and no others, and then has none left; a grab that fails copies nothing,
  reports no rects and leaves the rects for the next. A kernel whose list of rects is
  full makes one rect of all the frame buffer, and so does a change of mode. A mode
  the kernel announces has fields that are not negative; a `Mode` of the user may
  have any. Sums wrap, as in a release build; a debug build panics instead. The wrap
  of the version after 2^32 updates is beyond `MaxVersion`.

Not modelled:

- `src/device_config/edid.rs`: constants and private helpers that nothing outside
  the file calls, and a function of floating-point numbers; no state.
- DPMS, cursor and DDC/CI events: their payloads are copied field by field and the
  monitor drops them. The panic on an unknown DPMS value ends the process.
- `OwnedLibcArray`: no state after construction; it is sound if libevdi hands over
  what its safety comment asks for.
- the getters, `src/prelude.rs`, `src/test_common.rs`, the binaries and the
  examples: no behaviour of their own.

## Plan

1. Core: `HandleEvents`, `EventLoop` with `EventPipe`, `LibEvdi`, `Handle`, and
   the first theorems (done).
2. `DeviceNode`: a call's looks against a world that changes (done).
3. `Buffer`: dimensions at their widths, versions, rects and contents under mode
   changes, partial updates and failing grabs (done).
4. Proofs of every safety property the passing runs check (done).
5. Left: the blocking pool's limit and a shutdown of the runtime in `Handle`; a
   repaired `disconnect` and `request_update` as variants that satisfy what the
   code does not.
