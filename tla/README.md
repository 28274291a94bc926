# A verification of anowaW

anowaW shows the windows of host applications inside a nested Weston compositor. A Rust core
(`src/core`) is a Wayland client of that compositor; a platform shim (macOS or Android) captures
each application's frames, pushes them into the core through a C ABI, and polls the core for the
input the compositor sends back. This directory holds TLA+ models of the core and its peer, their
model-checking configurations, and machine-checked proofs.

## 1. Inventory

| Part | Source | State it keeps | Operations | Hard behaviour |
| --- | --- | --- | --- | --- |
| Windows, buffers, pump | `core/src/bridge.rs` | the apps, their shm pools and busy slots, the Wayland queue | `connect`, `bridge_app`, `ensure_slots`, `push_frame`, `close_requested`, `close_app`, `dispatch_pending`, the handlers of xdg and `wl_buffer` events | buffers shared with another process; a full socket; events for objects already destroyed; a compositor that dies; partial failures |
| Seat input | `core/src/bridge.rs:576-758`, `input.rs` | devices, one focus per device, the input queue | capabilities, keyboard, pointer and touch handlers, `poll_input` | focus that is stale when an event is decoded; several seats; bounded polls |
| Handles | `core/src/surface.rs` | `NEXT_HANDLE` of the process, `configured`, `close_requested` | `next_handle` | handles kept by the shim across bridges |
| C ABI | `core/src/ffi.rs`, `include/anowaw.h` | the bridge pointer | `anowaw_start` ... `anowaw_stop` | each entry point is several steps of which some are skipped on error |
| Frame description | `core/src/buffer.rs` | none | `dst_stride`, `required_len`, `pack_rows` | 32-bit arithmetic, strides that do not fit |
| macOS shim | `platform/macos` | the bridge thread, captures per handle | start, `bridgeApplication`, capture callbacks, close, stop | four kinds of threads around a thread-affine core |
| Android controller | `AnowawBridge.kt`, `AnowawNative.kt`, `anowaw_jni.c` | handler thread, image readers, virtual displays | start, `createDisplay`, `closeApp`, `stop` | latches and posts to a thread that quits |
| Android power mode | `AnowawPowerController.kt` | a cached binder, without a lock | trusted displays, launches and input through a service of Shizuku or root, `shutdown` | calls that overlap; a service that dies and comes back |
| Android projection | `AnowawProjectionService.kt` | the projection and its notification | start command, callbacks, `onDestroy` | replaced sessions, late and missing callbacks |
| Bridges of one process | `core/src/bridge.rs`, `surface.rs` | `WAYLAND_DISPLAY`, `NEXT_HANDLE`, the names of shm files | `connect`, `next_handle`, `anon_shm_file` | thread-affine bridges on several threads share these three |
| Build and ABI check | nix files, `verify-anowaw-abi.py` | none | none at run time | none |

The parts interact in one line: a shim thread calls the C ABI; each call runs one or more *pumps*
(flush, read, dispatch) around the *body* of an operation in the core; the core and the compositor
exchange requests and events over a socket; decoded input waits in a queue until the shim polls.
Nothing calls back into the shim. A bridge belongs to one thread, but a process may run several
bridges, which meet in an environment variable, a static counter and a directory. On Android the
application wires the power mode's `injectInput` as the controller's `inputSink`; the projection
service stands alone. What makes each part correct:

* *buffers*: a slot is written only while the compositor cannot read it, each release frees the
  buffer it is for, and no slot is lost;
* *protocol*: no frame before the first acknowledged configure, each serial acknowledged once,
  objects destroyed from the role inwards;
* *windows*: an app that was bridged becomes ready, a close is reported, a handle means one app for
  ever, and no app exists without a handle;
* *input*: each event reaches the app the compositor meant or nobody, once and in order;
* *the process*: a bridge connects to the compositor it was given, and has its handles and its
  storage for itself;
* *shims*: no call into the core after `stop`, every waiter is woken, and frames come from the
  thread that owns the bridge;
* *Android services*: nothing privileged and no capture goes on once its owner has let go of it.

## 2. Modules

```
Wire            the connection (requests, events, flush, read, loss)          external library
 +- SeatInput      devices, focus, decoding, the input queue
 |   +- Bridge        apps, pools, slots, the pump, handlers and bodies
 |       +- CAbi          the entry points, as scripts of pumps and bodies
 +- NestedWeston   the compositor: what the protocol lets it do               external program
BridgeSystem    CAbi and NestedWeston over one Wire: specification and properties
BufferLending   the abstract specification of a lent buffer
BridgeProofs    type correctness, and what is left between two bridges
 +- BufferProofs   buffers, and the refinement of BufferLending
     +- ProtocolProofs   handles and the protocol
     +- InputProofs      devices, focus and the order of input

FramePacking    sizes, casts and the row loop of one frame   (MCFramePacking, FrameProofs)
SharedProcess   what the bridges of one process share                       (ProcessProofs)

AndroidBridge      the Android controller: looper, callers, callbacks       (AndroidProofs)
PowerMode          the calls that borrow shell privileges
ProjectionService  the foreground service of a screen capture
MacBridge          the macOS shim, as far as it gets
 +- MCShims        the four of them, one per behaviour                      (ShimProofs)
```

**A call as a script.** The core runs on one thread, but the compositor acts between any two of its
steps. A call is therefore the sequence `todo` of the steps it has left, for instance
`<<"pump", "push_frame">>`; every step is one action and the compositor interleaves anywhere.
`"pump"` is a dispatch whose error the entry point ignores (`let _ = ...`), `"pump?"` one whose
error ends the call (`?`). A pump is `PumpFlush` (or `PumpFails`), `PumpRead`, then one `Deliver`
per queued event and `PumpDone`: the order flush, read, dispatch of `bridge.rs:434-446`.

**State.** `live` is the key set of `apps`; `pool`, `dims` and `busy` are an app's `ShmSlots`, with
pools numbered in the order in which they are created (the model's identity of a `wl_shm_pool`);
`configured`, `close_requested`, `devices`, `focus` and `input_queue` are the fields of those names.
`known` and `told` are what the shim has learnt: handles returned and closes reported.

**Messages.** One message stands for a group of requests or events that are always sent together
(`attach`, `damage_buffer`, `commit` are `frame`). A frame's size, format and contents are one
number in `1..MaxSize`, because `ensure_slots` only compares them; `size = None` is a buffer that is
too short for its frame. Of an input event the model keeps the handle, the kind, its position in
what the compositor sent, and the app the compositor meant. The last is not on the wire; it is a
ghost field that the handlers carry along and never read.

**Wire.** wayland-client is not part of this repository; what is modelled is what the core relies
on. Requests are buffered until a flush, a flush that cannot write everything leaves the rest
buffered and fails, and a failed flush ends the pump before anything is read. The core's read
result is discarded (`bridge.rs:440`), so the end of the stream shows only at a later flush. An
event for an object that the client has already destroyed is dropped *when it is read*; one that is
in the event queue is dispatched whatever has become of its object.

**NestedWeston.** It handles requests in order, may send configures, closes, pings, releases and
seat events whenever the protocol allows, treats a forbidden request as a protocol error, and may
die. A buffer may be released at any time after its commit. Seats are numbered as they appear,
before the client connects (it then binds those it finds) or later (it is told by a `global`); they
stay when a client goes. `Keyboards`, `Pointers` and `Touchscreens` say which seats have which
device, and what happens on a device of a seat goes to each object the client has for *that* device:
`bound`, `seat_focus` and `fingers` are kept per seat. A seat that has told its capabilities may
tell them again at any time (`SeatAnnounces`).

**SeatInput.** `devices` are the kinds with a `Some` in `State`: one keyboard, one pointer and one
touchscreen, each from the first seat whose capabilities event names one. `OnCapabilities` asks the
event's own seat, and asks it only for the kinds that are still `None`; a later seat's second
keyboard is never asked for, and nothing that happens on it reaches the bridge.

**FramePacking.** One frame, from `push_frame`'s length test through `pack_rows`, with the width of
`u32`/`i32` as the constant `Word`; `usize` is unbounded, as 64 bits hold every product. The wrapping
product in `dst_stride` is that of a release build (a debug build panics there). The steps are those
of the loop, and `copied` says which rows have been copied; `Bridge` treats the same handler as one
step and a frame as a number.

**AndroidBridge.** `queue` holds the looper's due messages and `timers` its delayed ones; `steps` is
what the bridge thread has left of the message it handles (a sync block and then its `countDown`; a
pump as polls, calls of the sink, closes and the repost), so that callers and the compositor's
events come in between. A caller is `waiting` on its latch; `stop` is three steps of its caller:
lower `running`, post, and after the latch `quitSafely`. `Callback` lets `inputSink` and
`onFrameReady` call the controller on its own thread, where blocks run in place. Of the core it
keeps whether it lives and which apps it has: what the core does inside a call is `BridgeSystem`'s
subject. A call that throws ends the process and is left out.

**MacBridge.** `performSelector:onThread:` is served by the target's run loop, and
`bridgeThreadMain` runs a `usleep` loop and no run loop. A request therefore ends in `hopping`
while that thread lives, and all code behind it is unreachable. A hop to a thread that has ended,
because `anowaw_start` failed or `stop` came first, raises an exception nobody catches (`Abort`,
`HopRaises`): the process is gone and so is every obligation.

**SharedProcess.** One thread per bridge, at the grain of what other threads can see: `SetDisplay`
and `ConnectToEnv` are the write and the read of the environment in `connect` (`bridge.rs:204`,
`207`), `BridgeApp` the atomic `fetch_add`, and `EnsureSlots` to `SetLen` the system calls of
`anon_shm_file`, whose names depend on the length modulo 977 and on up to 64 attempts (`Bases`,
`Attempts`). `Left` are names that killed processes with the same process id left behind; `litter`
adds to them the names whose `remove_file` has failed, an error the code ignores. `alone` is a
ghost: whether no other start has overlapped this one. How a bridge works with its compositor is
`BridgeSystem`'s subject, and all that is left of it here is that a start may fail.

**PowerMode.** `privileged()` reads `binder`, binds a service if there is none, assigns and reads
again; other threads come in between each two of these steps (`Read`, `Bind`, `Assign`, `Reread`),
as they do between `destroy` and the reset in `shutdown`. Backends come and go with or without the
services they run. A probe or factory may throw and end the call (`BindThrows`); what `destroy`
throws is swallowed, and its service may run on while `binder` is reset all the same (`Destroy`,
`Clear`). Three ghosts say what has become of a service: `dismissed` holds those that have been told
to go; `alone` is the thread that has found nothing cached while no other call was past that test;
`contested` holds those that a thread bound without being `alone`. Two such calls bind two services
of which one is forgotten (section 5), and only those two are excused: the ghosts forget an overlap
when it is over.

**ProjectionService.** The main thread of Android handles one message at a time, so an action is a
handler, but for `onStartCommand`, in whose middle the session begins to capture and may end
(`StartGranted`, `Store`). Which sessions run is the system's affair: it lets one capture at a
time and may end it whenever it likes. The ghost `early` holds the sessions that ended between
`getMediaProjection` and `registerCallback`.

## 3. What is checked

The runs of the core instantiate `BridgeSystem`. `Spec` is the system with no fairness, `FairSpec`
adds the fairness below. The shims never call each other, so that a behaviour of `MCShims` is one
of a single shim, chosen in the initial state, while the others keep still.

| Run | Shows | Properties |
| --- | --- | --- |
| `Present.cfg` | one app whose frames change size: pools replaced, allocation failing, a full socket, a compositor that dies | `TypeOK`, `ExclusiveUse`, `NoSlotLeak`, `NoProtocolError`, `NoStaleRelease`, `NeverStarved`, `LendsBuffers` |
| `Restart.cfg` | two apps over two successive bridges, one of which the user may close | `SlotSafety`, `HandlesNeverReused`, `ConfigureComes`, `CloseNotLost` |
| `SeatRouting.cfg` | two apps that open and close under the moving pointer and the touch session of a seat | `RoutedToTarget` |
| `Inputs.cfg` | one app, a seat with a pointer and a second with a keyboard and a pointer, either of them at any time and announced again, polls of one event | `InputInOrder`, `DevicesAsked`, `InputPolled`, `DevicesTaken` |
| `Live.cfg` | progress through a socket of one message, and the loss of a compositor that dies | `PingNotLost`, `GetsConfigured`, `SlotComesBack`, `PingAnswered`, `CloseReported`, `LossNoticed` |
| `Process.cfg` | two threads, three starts: environment, handles and shm files, with names left behind and unlinks that fail | `StorageApart`, `UnlinksItsOwn`, `AloneReachesNamed`, `HandlesGivenOnce` |
| `Frames.cfg` | frames at the boundaries of an 8-bit word: empty, pools at half a word, rows at a whole one, short strides and sources | `PackedWhole`, `BuffersInPool` |
| `Shims.cfg`, Android controller | two threads, callbacks, frames and a stop that races with all of them | `TypeOK`, `CoreAliveWhenUsed`, `DisplaysAreBridged`, `PumpGoesOn`, `OnePump`, `AcceptedCallsReturn` |
| `Shims.cfg`, power mode | two threads whose calls overlap and throw while backends come and go and services refuse to end | `NothingLeftBehind`, `ShutdownLetsGo` |
| `Shims.cfg`, projection | three sessions, refused starts, revoked consent, a killed process | `CaptureIsVisible`, `EndedSessionsLetGo` |
| `Shims.cfg`, macOS shim | two requests that may fail in each handler, and a stop at any time | `AnsweredOnce`, `StopDisconnects` |
| `Orphan.cfg`, `ProcessSocket.cfg`, `AndroidStuck.cfg`, `MacCompletion.cfg` | disagreements with the documentation (section 5) | `NoOrphan`, `ReachesNamed`, `CallsReturn`, `CompletionDelivers` (violated) |

`LendsBuffers` is a refinement: `BufferLending` says what may become of one buffer (`unborn`,
`mine`, `lent`, `dead`), and `BufferStatus` computes the status of each buffer from the slots, the
frames and releases on their way and what the compositor holds. A buffer that is busy and in use
twice, or free and in use, has a status `BufferLending` does not know.

A property stands in the run whose case is the hardest for it, and not in the others: `SlotSafety`
beside a second app and a restart, the protocol where two configures meet a replaced pool. The types
of `FramePacking` and `SharedProcess` are proved and have no run of their own.

**What can only go wrong together.** `NoStaleRelease` is the subtle one. `BufferData` carries a
handle and a slot but no pool, so a release is applied to whatever pool the app has when it is
dispatched (`bridge.rs:565-571`). It is right only because three things hold at once: a pool is
replaced between pumps and never during a dispatch; a pump always empties the event queue; and an
event of a buffer that is already destroyed is dropped when it is read. Ending a pump before the
queue is empty breaks it, which is how the property is exercised.

**What is owed.** Five invariants say what progress rests on: while the connection is up, what the
other side is due has happened, is on its way, or has not begun. They hold between any two steps,
so that a full socket, a failing call or a restart may delay an event or an answer but not lose it.

* `ConfigureComes`: an app that is not configured, whose frames `push_frame` therefore rejects, still
  has its window to be created, its first configure to be sent, or a configure on its way.
* `NeverStarved`: of an app whose slots are all busy, one buffer is in a frame on its way, replaced
  on the screen or being released. It says why there are two slots: with one, the compositor may
  keep the only buffer for as long as it shows it, while every frame is skipped (`bridge.rs:383`).
* `CloseNotLost`: the close of a live app's window is recorded for the shim or on its way.
* `PingNotLost`: the pings without an answer are exactly those on their way, either as ping or as
  pong and never as both.
* `DevicesAsked`: a seat that has appeared is being announced, bound or described, or for each kind
  of device it has there is an object, of this seat or of another that has one, or a request for one
  on its way. `devices` is never cleared while a bridge lives (`bridge.rs:588`), so that a kind
  marked as held without a request would be lost for good. It promises nothing to a second device of
  a kind, as the code does not (section 5).

**Bounds.** Two sizes and two pools are one replacement, after which a frame, a release and a
destroyed pool of the old generation can all be under way with frames of the new one. `SLOTS` is 2,
as in the code, except in `Restart.cfg`, whose question is about two apps and not two slots of one.
`SocketCap` is below the number of messages a run can buffer, so that a flush does block; in
`SeatRouting.cfg` it is high enough that it is the polls that are scarce. Two configures make a
second acknowledgement possible. Only one app of `Restart.cfg` may be closed by the user
(`Closable`), beside another that stays. Two apps let a focus or a handle go astray; four seat
events are two focus changes, or one with input before and after it. `Inputs.cfg` has two seats so
that one kind of device (the pointer) is on both and another only on the second; either may be the
first to be described, and with three events of seats one may be announced again between two inputs. Two starts are a restart. `MaxTouch`
is 2 because the focus of a touch session is set by each finger. `Process.cfg` has two threads
because what is shared is shared by two; with three starts one overlaps another and one follows
both. Two bases one apart and two attempts make the ranges of two lengths overlap, and the name left
behind lies in both. The bounds are guards of the actions that count (`CallBridgeApp`,
`CallPushFrame`, `SendConfigure`, `SendPing`, `SeatStep`, `SeatAppears`, `Start`), and a run ends
only in `Finished`, so deadlock is checked everywhere.

**Fairness** (`Fairness` in `BridgeSystem`), and what justifies it:

* weak fairness of the steps of a call: the calling thread is never blocked by the core;
* strong fairness of `CallPollInput` and of `CallCloseRequested(h)` for each known `h`: a shim's
  loop makes these calls again and again, among others, and a call is possible only when none is in
  progress. `AnowawBridge.kt` and `AnowawMacBridge.m` both run such a loop;
* weak fairness of the compositor's handling of requests, of the first configure of a window and of
  the release of a buffer that another commit has replaced, as xdg-shell and `wl_buffer` demand.
  Nothing makes the compositor release a buffer that is still shown, nor send anything else.

Every liveness property of the core but one ends in "or the connection is no longer up": after a
loss nothing is owed. The exception is `LossNoticed`, which says that the loss itself is found out. A
flush with something left to write fails, and what had arrived is then dropped unread; with
everything written no flush fails any more, so that it takes a pump that reads.
`AndroidBridge` assumes that the bridge thread runs, that a delayed message becomes due, and that a
caller goes on between the steps of `stop`; nobody has to call. `MacBridge` assumes that the bridge
thread runs and that the system calls the handlers it was given; `ProjectionService` that the main
thread handles what is posted to it and that the system destroys a service that has asked for it.
Sessions need not end, and no start need come.

`Shims.cfg` has two callers because a call must race with a stop, three calls because a second
stop or a late create must follow the first, and two apps so that one is closed beside another;
`MaxEvents` and `MaxFrames` of one put a callback into a pump and a late frame after a close. Two
services let one be forgotten for another or for one that would not end, and a third session replaces one that has itself
replaced another.
`Frames.cfg` takes `Word` = 256 and its frames from `MCFramePacking`, on both sides of every
comparison.

## 4. What is proved

The proofs hold for all values of the constants that satisfy the named assumptions
(`WireAssumption`, `BridgeAssumption`, `WestonAssumption`, `StartAssumption`):
any number of apps, pools, slots, sizes, events, seats, fingers and starts. Every safety property
that a passing run checks is a theorem, the type invariants and the refinement included.

* `BridgeProofs!TypeCorrect`: `Spec => []TypeOK`. The types are not inductive alone: that there is
  still a pool number or a handle when a body runs was tested by the entry point, several steps
  earlier. `ScriptInv` adds what a script looks like: one body per call (`OneBody`), the room the
  entry point saw is still there (`RoomLeft`, true because no pump makes pools), a handle to
  return (`HandleReady`), and an event queue that is empty outside a dispatch (`QueueDrained`).
* `BufferProofs!SlotsAreSafe`, `UseIsExclusive`, `ReleasesAreFresh`: `SlotSafety`, `ExclusiveUse`
  and `NoStaleRelease`. The invariant is `TokenInv`: every buffer in use belongs to a pool already
  made (`PoolsMade`); if its app still has that pool, its slot is busy (`Taken`); each buffer is in
  use in one place (`UsedOnce`); and what is in the event queue is of the current pool (`Fresh`).
  `Taken` and `UsedOnce` need each other: a release may clear a busy bit only because the buffer is
  in no other place, and a frame may set one only because a free slot is in no place. `Fresh`
  survives the bodies because of `QueueDrained`. The proof classifies each step as one that takes no
  buffer into use (`NoNewUse`), moves a use (`UseMoves`) or adds one (`NewUse`).
* `BufferProofs!SlotsAreKept` (`NoSlotLeak`) is the converse of `Taken`: while the connection is up,
  a busy slot is in use (`Kept`). It follows what each step does to buffers (`Moves`): only a buffer
  that was writable or is new comes into use, only one that was writable, in use or new is writable
  afterwards, and no busy slot falls out of use. `OwnInv` keeps a pool that is being destroyed apart
  from the one its app has now. What a loss of the connection leaves behind has no owner, hence
  `conn = "up"`; that a start finds nothing left of the former bridge is `Idle` (in `BridgeProofs`).
* `BufferProofs!BuffersAreLent`: `Spec => LendsBuffers`, the refinement. `Counted` turns the sets of
  `TokenInv` into the number of uses that `BufferStatus` counts, and `StatusOfStep` reads off
  `Moves` which status a step of the bridge, the compositor or the connection leads to: one of
  `BufferLending!After`.
* `BufferProofs!FramesNeverStall`: `Spec => []NeverStarved`, for `SLOTS > 1`, as the code has it
  (`SLOTS = 2`, `bridge.rs:102`); it is false for one slot, which is the mutant of the run. A busy
  slot is in use (`Kept`), two slots have two buffers, and a window shows at most one
  (`OneCurrent`): so the other one is on its way or due.
* `ProtocolProofs!HandlesAreUnique`: `Spec => HandlesNeverReused`, from the invariant that every
  handle in use or handed out is below the counter.
* `ProtocolProofs!ProtocolIsKept`: `Spec => []NoProtocolError`. The compositor judges a request when
  it takes it, many steps after the core has sent it, so that the invariant (`Polite`) speaks of the
  whole socket: for each window the requests come in the order of its life, each behind what it
  needs (`WindowInv`: `Ordered`, `Built`, `Unmade`); a frame has before it the creation of its pool
  and an acknowledgement, or the compositor has seen them (`PaintInv`: `Ready`, `Pooled`,
  `Greeted`); and configure serials rise from what is acknowledged through the acknowledgements on
  their way to the configures on theirs (`SerialInv`). Acknowledging an app that has been closed
  would break it: an event of a destroyed object is dropped when it is read, and what has been read
  is dispatched before the next body (`Addressed`).
* `ProtocolProofs!ConfiguresCome`, `ClosesAreKept`, `PingsAreAnswered`, and
  `InputProofs!DevicesAreAsked`: `ConfigureComes`, `CloseNotLost`, `PingNotLost` and `DevicesAsked`.
  They share the last section of `BufferProofs`: while the connection is up, requests leave the
  socket only when the compositor accepts them (`RequestsArrive`), events only when they are
  delivered or when their object is gone (`EventsArrive`), and a connection comes up with nothing on
  it (`ComesUp`). To that, `ConfiguresCome` adds that the window of a handle still to come has been
  configured never (`Unsent`) and, from `ProtocolInv`, that what is on its way to a live app's window
  does not destroy it; `ClosesAreKept`, that what is asked to close is an app that has been made
  (`ClosingThere`), so that no new app is born with a close forgotten; `DevicesAreAsked`, that for
  each kind that is held some seat that has it is asked (`DevicesHeld`) and that what the bridge asks
  of a seat reaches the compositor as that seat's. `PingsAreAnswered` needs order: pings on their way
  rise, pongs on their way rise, and each pong is older than each ping (`PingInv`), which makes the
  next pong the one that is due.
* `InputProofs!InputIsRouted` and `InputIsOrdered`: `RoutedToTarget` and `InputInOrder`. `DeviceInv`:
  of each kind one device is asked for, once and of one seat, however many seats have one and
  however often they say so; so the compositor has at most one object of a kind to send to. `OrderInv`:
  the stamps rise from the last poll through the queue and the events on their way to the last one
  sent. `FocusInv` says what makes a stale focus harmless: before each event that needs a focus, the
  last change of focus on its way has set it to that event's target, or the core's focus is already
  the target or nobody (`Leads`, `Routed`); and so it would be for the next event that the seat whose
  device is held may send, while what other seats do is sent to nobody (`Meant`). A focus change to an app that has been closed gives the focus to nobody
  (`surface_to_handle`); an app that is closed with the focus keeps it, and whatever is then decoded
  for it was meant for it.
* `FrameProofs!FramesTyped`, `SoundFramesWhole`, `PoolsFit`: `TypeOK`, `PackedWhole` and
  `BuffersInPool` for every word size, pixel size and set of frames. `LoopInv`
  relates the counter to the rows and bytes copied; the rest is monotonicity of products (`MulMono`,
  `SoundRowFits`) and that a cast keeps what is below half a word (`CastKeeps`).
* `AndroidProofs!CoreOutlivesUse`, `NoForgottenDisplay`: `CoreAliveWhenUsed` and
  `DisplaysAreBridged`, for any number of threads, apps, events, frames and calls. They rest on
  `PointerTells`: a nonzero `corePtr` means a living core, whatever `running` says. `AndroidTyped`,
  `PumpKeepsGoing` and `PumpIsSingle` are the types, `PumpGoesOn` and `OnePump`: `LooperInv` says
  which steps of which message the bridge thread has left and where its next pump is, so that
  a pump is reposted exactly by the one that ends. `NobodyAssumption` keeps the thread `Nobody`
  apart from the real ones.
* `ProcessProofs`, for any number of threads, starts, names and files (`ProcessAssumption`):
  `ProcessTypeCorrect`; `ProcessHandlesUnique`, since every handle given out is below the counter;
  `StorageIsApart`, since files are numbered as they are made and only the thread that has created
  one ever holds it (`Made`, `Apart`); `UnlinksAreSafe`, from `DirInv`: a name that is not litter
  belongs to the one thread that is about to unlink it, and names what that thread has opened. Two
  threads cannot be about to unlink one name because their storage is apart. `AloneIsServed` rests
  on `EnvInv`: of two threads in `connect` neither is alone, so that nobody sets the environment
  between the write and the read of one that is.
* `ShimProofs`, over `ShimsSpec`: `PrivilegesAreReturned` and `DismissedIsForgotten`, from
  `PowerInv`. A service that is neither contested nor told to go is cached or about to be, and once it
  is cached, nobody is about to bind or to clear, and whoever uses a service uses that one (`Kept`);
  for that, a call that is alone must be the only one past the test (`AloneInv`), and what it is
  about to cache must be known to nobody else (`Unshared`). A cached service that has been told to go
  has a thread that is about to clear the field (`Forgotten`). `CaptureStaysVisible`,
  from `Shown`: what captures is what is stored or about to be stored by a service in the
  foreground; `CompletionIsSingle`, from `Counted`.

Model-checked only: the liveness properties (`GetsConfigured`, `SlotComesBack`, `PingAnswered`,
`CloseReported`, `LossNoticed`, `InputPolled`, `DevicesTaken`, `AcceptedCallsReturn`,
`EndedSessionsLetGo`, `StopDisconnects`), since fairness and ENABLED are out of the prover's reach,
and of course the violations of section 5. Of `GetsConfigured`, `SlotComesBack`, `PingAnswered`,
`CloseReported` and `DevicesTaken` the safety part is proved (`ConfigureComes`, `NeverStarved`,
`PingNotLost`, `CloseNotLost`, `DevicesAsked`): what is awaited is never lost. That it moves on is
left to fairness, and so to the runs.

## 5. Disagreements found

* *`NoOrphan`*. `anowaw_bridge_app` is documented to return "a nonzero app handle, or 0 on failure"
  (`ffi.rs:56-57`, `anowaw.h:64-65`). `bridge_app` inserts the app and sends its toplevel, then calls
  `dispatch_pending()?` (`bridge.rs:291`). When that flush would block, the call returns 0 although
  the app is registered and its window appears: no caller has a handle to close it.
* *`CallsReturn`*. `runOnBridgeSync` (`AnowawBridge.kt:207-212`) ignores whether `handler.post`
  accepted the block. After another thread's `quitSafely` it did not, and the caller waits for ever;
  `createDisplay` "Returns the anowaW app handle" (`AnowawBridge.kt:119`).
* *`CompletionDelivers`*. On macOS the first request that finds a window blocks on the missing run loop
  of the bridge thread, which lives and sleeps in `usleep` (`AnowawMacBridge.m:397`); "Completion delivers the nonzero anowaW app handle, or
  0 on failure" (`AnowawMacBridge.h:45`).
* *`ReachesNamed`*. `anowaw_start` connects "to the nested Weston compositor on `socket_name`"
  (`ffi.rs:38`). `connect` passes the name through `WAYLAND_DISPLAY` (`bridge.rs:204`) and
  `connect_to_env` reads it again (`bridge.rs:207`); a start on another thread in between replaces
  it, and both bridges connect to the compositor of the second. `AloneReachesNamed` is what holds.

Two more in the macOS header need no run, as `MacBridge` shows them at a glance. "Returns nil if the
Wayland connection fails" (`AnowawMacBridge.h:41`): `InitWithSocketName` is over before
`ThreadStarts` connects. "Disconnect everything and join the bridge thread" (`AnowawMacBridge.h:52`):
`Stop` lowers a flag; the thread leaves later, which is `StopDisconnects`.

Others were met while modelling and have no run of their own, because a single line shows them or
because nothing in the code promises otherwise:

* An empty socket name means "ambient `WAYLAND_DISPLAY`" (`bridge.rs:198`): after an earlier start
  with a name, also one that failed, what is ambient is that name (no step of `SharedProcess` puts
  `env` back to `Ambient`).
* `required_len` is called the "Minimum number of source bytes required for this frame"
  (`buffer.rs:32`), but counts a whole stride for the last row; a source that ends with the last
  pixel has all that `pack_rows` reads, and is refused.
* `poll_input` returns the error of its pump before it drains the queue (`ffi.rs:138-140`): input that
  an earlier call has decoded is not handed over once the connection is lost. `InputPolled` is
  therefore checked without crashes.
* `isAvailable` is "True when a privileged backend [...] is available to service" requests
  (`AnowawPowerController.kt:39-40`); but the cached binder is never dropped when its service dies,
  and every call then goes to the dead one. Two threads that find nothing cached at once bind two
  services and forget one, which runs on, as does one that is bound while a shutdown is between
  `destroy` and the reset (`contested` in `NothingLeftBehind`); a service whose `destroy` throws
  (`AnowawPowerController.kt:103`) is forgotten too and may run on (`dismissed`); and `shutdown` with
  nothing cached binds a service in order to destroy it.
* Of each kind the bridge takes one device (`bridge.rs:588-595`): the keyboard of a second seat is
  never taken while there was one before, also when the first seat is removed. No line promises it,
  and `DevicesTaken` says what holds.
* A second consent replaces the session of the projection service, and the `onStop` of the first
  session then stops the service and the second session with it; a session that ends before
  `registerCallback` leaves the service in the foreground (`early` in `EndedSessionsLetGo`).

## 6. What is not modelled

Pixel contents, titles and app ids; the size in `xdg_toplevel.configure`, which the core stores and
never reads; key codes, coordinates, times; `dispatch_blocking`, which no entry point calls;
logging; the removal of a seat, which the bridge does not handle. A failing `connect` leaves nothing behind but the environment (`StartFails` in
`SharedProcess`). Calls of one bridge from a second thread are outside the C ABI's contract
(`ffi.rs`: thread-affine); the Android controller makes none, and the macOS shim would, from its
capture queue, if it got as far as a frame. In `SharedProcess` the environment is
read and written as a whole, since both go through the standard library, which locks it.
`WlKeyboard::keymap` and the other ignored events change no state.

`PixelFormat::wl_shm_format` (`surface.rs:32`) has no caller and is not modelled; its constant for
RGBA is the fourcc RA24, not the ABGR8888 of its comment, while `map_format` (`bridge.rs:61`), which
is used, agrees with the comment. Of `AnowawPowerController` the status text and what a service does
with a request are left out, of the macOS shim what lies behind the hop to the bridge thread and the
permission probes; the build recipes and the ABI check of continuous integration have no run-time
state.

## 7. Plan

1. *Done*: the core, its peer and their composition; type correctness, buffers, handles proved.
2. *Done*: `FramePacking` with its proofs; `AndroidBridge` with its safety proved; `MacBridge`.
3. *Done*: `PowerMode`, `ProjectionService` and `SharedProcess`, with their safety proved; the
   liveness of seats (`DevicesTaken`) and of a lost connection (`LossNoticed`).
4. `AndroidBridge` over `BridgeSystem`: the controller's natives as the scripts of `CAbi`.
5. *Done*: every safety property a passing run checks is proved, the refinement of `BufferLending`
   included.
6. *Done*: the invariants that liveness rests on (what is owed, section 3), checked and proved.
7. The same for the input queue: that a decoded event leaves it only into a poll (`InputPolled`).
