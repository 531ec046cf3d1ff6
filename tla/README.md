# anland: a verification project

anland shows a Linux desktop inside an Android window. A Wayland compositor
(KWin or Mutter, in a chroot or container) renders into buffers that belong to
an Android app; a small daemon introduces the two, and from then on they talk
over descriptors that the app created. This directory holds TLA+ modules that
model those programs, TLC configurations that check the models on small
instances, and proofs that TLAPS checks for every instance.

Everything here is translated from the code. References have the form
`file:line` in the repository. Names of variables and actions follow the source
where TLA+ allows it; `PROJECT.json` says for every definition which lines it
stands for.

    tlc -workers 2 -config MCDaemon.cfg MCDaemon     # a run
    tlapm DaemonProofs.tla                           # proofs

The files. Every `MC<X>.tla` with `MC<X>.cfg` is one *run*: an instance of `<X>.tla`
for TLC.

| module | models | run | proofs |
|---|---|---|---|
| `Daemon.tla` | the daemon and any client that speaks its protocol | `daemon` | `DaemonProofs.tla` |
| `Rendezvous.tla` | what the daemon promises, abstractly | `daemon` (`ImplementsRendezvous`) | `DaemonProofs.tla` |
| `Session.tla` | both libraries as clients of that daemon, and their channels | `session` | `DaemonProofs.tla` |
| `ConsumerLib.tla` | the threads inside the consumer library and the app's callbacks | `consumer_threads` | `ConsumerLibProofs.tla` |
| `FrameLoop.tla` | buffers, damage and the lockstep of frames | `frame_loop` | `FrameProofs.tla` |
| `GnomeBackend.tla` | Mutter's backend with its own ways to lose a consumer | `gnome_backend` | `FrameProofs.tla` |
| `CameraSlots.tla` | the app's camera service and its clients | `camera_frames` | `CameraProofs.tla` |
| `CameraNode.tla` | the webcams KWin shows to Linux applications | `camera_node` | `CameraProofs.tla` |
| `AudioBridge.tla` | sound, its formats and presets | `audio_bridge` | |
| `Sideband.tla` | windows, pointer capture and scheduling told to the phone | `sideband` | `SidebandProofs.tla` |
| `InputStream.tla` | immersive mode: the stream of grabbed input | `input_stream` | `InputStreamProofs.tla` |
| `RootHelpers.tla` | composes the next four: what the app runs as root | `root_helpers` | `RootHelpersProofs.tla` |
| `AppProcess.tla` | the app's process and its main thread | | |
| `GrabSession.tla` | immersive mode: the life of a session | | |
| `Gamepad.tla` | the gamepad on the screen, its bridge and its helper | | |
| `TopApp.tla` | settopapp, which moves processes to Android's top-app groups | | |
| `PhoneInput.tla` | composes the next five: what a user does on the phone | `phone_input` | `PhoneProofs.tla` |
| `Seat.tla` | the desktop's seat as the phone moves it | | |
| `TouchInput.tla` | fingers, touchpad, mouse buttons, pointer capture | | |
| `SoftKeys.tla` | floating keyboard, bar of extra keys, soft keyboard | | |
| `HardKeys.tla` | a hardware keyboard and its interception | | |
| `Clipboard.tla` | one text on two clipboards | | |

## 1. The system

### 1.1 Components

**Display daemon** (`libdisplay_daemon/display_daemon.c`, `daemon/daemon.c`,
`common/`). One thread around `epoll_wait`.
*State*: the consumer and the producer (at most one of each, pointers to heap
structs), the last `screen_info`, the deposited descriptors, two flags for a
producer that waits. *Operations*: accept and read the first message, replace
the client of that role, store descriptors, deliver them, store and forward the
screen, hang up, stop. *Hard*: a batch of events is handled while its own
handlers free the clients the rest of the batch points to; request and deposit
come in either order; either side dies at any point; the daemon is killed and
restarted by init. *Correct when* no event reaches a client it is not about, no
struct and no descriptor of a deposit leaks, the deposit belongs to the consumer of the moment,
each set goes to one producer, and nobody waits for what is there.

**Consumer library** (`libdisplay_consumer/display_consumer.c`, linked into the
app). *State*: `display_ctx` with a fallback flag, the descriptors of its three
channels (shared memory page, eventfd, sockets), `buffer_pending`, two locks
and a gate for writers. *Operations*: connect, select a buffer, wait for the
frame, push buffers, push input events, answer resource requests, enter and
leave fallback. *Hard*: called from a render thread, an event thread and any
number of JNI threads; any of them may find the peer gone. *Correct when* the
connection is torn down once, the set deposited is the one a notice is about,
no thread is lost in it, writes on the stream stay whole.

**Android app, native side** (`native_consumer.c` under `consumers/anland_v5/`).
*State*: the window and its dequeued buffer, the render, event and audio
threads, callbacks. *Operations*: the render loop, `on_fallback` and
`on_exit_fallback`, the `nativeSend...` entries, start, stop, destroy. *Hard*:
callbacks run on whichever thread noticed; surfaces are destroyed by Android
under running threads.

**Producer library** (`libdisplay_producer/display_producer.c`). *State*: a
connection, a fallback flag, the descriptors picked up, the buffers received.
*Operations*: connect, pick descriptors up, receive buffers, send `refresh_done`,
poll for events, enter fallback. *Hard*: timeouts of 100 ms that race with
answers; eviction by another compositor. *Correct when* it never renders for a
consumer that believes there is none, and a session comes up in the end.

**KWin backend** (`producers/kde/anland_backend_v5/src/backends/anland/`, and
near copies for three distributions). *State*: `m_inFallback`, the imported
buffers, per-buffer damage and flags, the pending frame, render inhibition.
*Operations*: the reconnect timer, buffer-ready, begin and end of a frame,
present, stop and resume. *Hard*: the loop only runs because each side answers
the other; buffers rotate, so what one lacks depends on when it was used last.
*Correct when* only the selected buffer is painted, each frame is answered
once, what is handed over is up to date, and the loop never stops.

**GNOME backend** (`producers/gnome/*/mutter/src/backends/anland/`). The same for
Mutter, on a transport of its own. *Hard*: it has three ways to lose a consumer
(the transport falls back, it is thrown away with the daemon's connection, the
consumer is deactivated while the monitor changes its mode), and each must leave
the stage's view usable. *Correct when* no frame clock waits for a frame that
nobody completes, and frames flow again whatever was lost.

**Camera service** (`camera_service.c`, `camera_service.h`) and **producer
camera engine** (`anland_camera.c`). *State*: two frame slots in shared memory
with the number of DONEs each waits for, the list of recording clients, the
capture pipeline, the registry of clients with their busy counts; on the other
side one PipeWire node a camera, with its format, sockets, shared memory and
whether the phone was told to record. *Hard*: four kinds of threads, three
locks, sockets that outlive the producer that used them, a PipeWire that
restarts. *Correct when* no slot is overwritten while somebody copies it, no
client is freed under a thread, the camera runs while somebody records, nobody
waits for good for a producer that does not answer, and an application that
keeps a camera open gets its frames.

**Audio bridge** (`native_audio.c`, `anland_audio.c`). *State*: the phone's
streams, the announced format and preset, KWin's nodes. *Hard*: speakers die,
presets change, PipeWire restarts, sessions follow each other, and nobody
acknowledges an announcement. *Correct when* both ends come to the same format
and the streams come to what the user asks for.

**Window bridge, scheduling, consumer variables** (`anland_backend.cpp`,
`native_consumer.c`, `MainActivity.java`, `LinuxWindowRegistry.java`). What the
desktop tells the phone beside frames. *Hard*: reports are lost with a session
that any of three threads may end while `on_fallback` still runs. *Correct when*
the phone has the windows, captures and boosts of the desktop as it is now.

**Promotion of processes** (`settopapp.c`). A program run as root that walks a
process tree which forks and exits meanwhile. *Correct when* what it says it
moved is what was there.

**Immersive mode** (`input_grab.c`, `InputGrab.java`, `ImmersiveMode.java`). A root
helper grabs every input device exclusively and streams its events to the app.
*Hard*: launch, stop, timeouts, kills and the process's death at any point, and
a stream that drops records rather than block. *Correct when* the input always
comes back to Android, and no key or contact is held that nobody holds.

**Virtual gamepad** (`VirtualGamepadView.java`, `GamepadBridge.java`,
`gamepad_helper.c`). An overlay, a bridge and a root helper that owns a uinput
device. *Hard*: bridges replaced while their threads run. *Correct when* the
device does as the overlay says and no helper stays behind.

**Phone input** (`MainActivity.java`, `Touchpad.java`, `VirtualKeyboardView.java`,
`ExtraKeysBar.java`, `SystemIME.java`, `KeyInterceptor.java`, and on the desktop
`anland_backend.cpp`, `meta-anland-input.c`) and the **clipboard** (`Clipboard.java`,
`anland_backend.cpp`, `meta-anland-clipboard.c`). *Hard*: a gesture begun one way
and ended another, a capture, a focus or a session lost in between; a text that
comes back to where it came from. *Correct when* nothing stays pressed, contacts
are the user's, and both sides end with one text.

**Data channel framing, KWin variants, build scripts, Magisk module, documents.**
Not modelled, see section 5.

### 1.2 How they interact

```
 app (consumer) --CONSUMER_HELLO + 5 fds, SCREEN_INFO-->  daemon  <--PRODUCER_HELLO, PICKUP_FDS-- compositor
      ^                                                     |                                      ^
      +--------------------- FDS_READY ---------------------+---- SCREEN_INFO, FDS_READY + 5 fds ---+
      |                                                                                            |
      +==== data channel: BUFS_READY, input and output events, resources; index page; buffer-ready =+
            eventfd; fence channel: one message a frame
```

The consumer creates a set of channels, keeps one end and deposits the other.
FDS_READY to the consumer is the only notice that somebody took it. Then the
consumer pushes its buffers over the data channel, and both leave fallback.
Neither is told when the other one goes: each sees a hangup, a failed send or a
timeout by itself, and goes back to fallback; the consumer deposits a new set.

### 1.3 What is hard

`PROJECT.json`, `hazards`, lists what a test would hardly reach, each at the
line where it bites, with the properties that would catch it. Briefly: events
in a batch that point to freed clients; deposits that outlive their owner;
request and deposit in both orders; answers to requests already given up; a
session published before its buffers are sent; descriptors used after another
thread has replaced them; a callback that is slower than the reconnection;
counts written off for answers that still come; list and camera under different
locks; buffers that owe damage from frames ago; a lockstep that one lost
message would stop.

## 2. Models

### 2.1 `Daemon.tla`

*State.* The fields of `daemon_ctx` under their names. `ctrl_fd` maps heap
addresses to the connection of the struct allocated there: addresses are a
constant set and may be reused as soon as they are free, which is what the guard
of the event loop is about. A stored set of descriptors is a record that says
who sent it, how many it holds and the how-manyeth it was; `open_fds` are the
sets the daemon has received and neither closed nor handed on. *Stray* descriptors
(`StrayFds`) come with a message that has no use for any: `recv_fds` takes them in
with every header, and nothing closes them. `batch` are the
events fetched by `epoll_wait` and not handled. The clients keep a state and two
message queues per connection. `handed` is a history of what was delivered.

*Actions.* `EpollWait` fetches a batch. Events are handled in any order (epoll
promises none): `SkipStaleEvent`, `HandleHangup`, `HandleClientData` with one
disjunct per message type, `HandleNewConnection`. `TryDeliver`, `StoreFds` and
`DropClient` are the helpers of the same names, and their order in the code
(store, clear, free) is kept where it can be seen. `Stop`, `Destroy`, `Kill`,
`Restart` are the life of the process. The client actions are those of any
program that speaks the protocol: it sends in any order, reads when it likes
and closes at any point. A client that does not keep to the protocol, or to this
version of it, sends `FOREIGN` (a size, or a type in a first message, that the daemon
does not take: the connection ends) and `MISPLACED` (right in form, not this
client's to send: `ReadMisplaced` ignores it, `Refuse` closes an unaccepted
connection), either of them with stray descriptors or without. As in the code these
stay open. `StrayFds` are the sets there are of them; each is one set, so that it is
sent again only when the daemon that held it open has ended.

*Left out.* Failed allocations, and headers that arrive in part (the daemon
closes such a connection). The blocking read of a first message is kept: between
accept and that message nobody else is served, so `HandleNewConnection` waits
until the connection's queue is non-empty or its client has gone.

### 2.2 `Rendezvous.tla`

An offer and a request that meet as soon as both stand; the offer is gone then.
No connections, no events, no queues. `Daemon.tla` defines the offer as the
complete deposit and the asker as the waiting producer whose connection is
still open, and `ImplementsRendezvous` says that every step of the daemon is a
step of this or none.

### 2.3 `Session.tla`

Extends `Daemon.tla` and replaces its clients by the two libraries. A process is
a connection; a restarted process is another. Per consumer: phase (`none`,
`connecting`, `fallback`, `active`) and the set it created last. Per producer:
phase (`hello`, `fallback`, `pickup`, `receive`, `active`; the two middle ones
are the two steps of README.md:484-493) and the set it holds. `pushed` are the
sets whose channel holds unread buffers. A set's channel is open at one end as
long as the consumer keeps that set, and at the other as long as the daemon, a
message or a producer carries it: hangups are computed from that, not chosen.
A timeout when the answer is on its way counts against `MaxLate`; one when
nothing is under way does not. In this module a library call is one action; the
steps between its locks are `ConsumerLib.tla`'s.

### 2.4 `ConsumerLib.tla`

One consumer, its threads step by step. Each thread has a stack of labels, the
head of which is where it is: calls push, returns pop, so the same code
(`Library`) runs on whichever thread called it. The steps are the accesses to
shared state: reading the gate, taking `data_lock`, reading `data_fd`, each
`send` of a message of several parts, `enter_fallback` with its locks, its
teardown and its rebuild (which may fail), then `on_fallback` outside the
locks. The render thread's steps are `select_dmabuf`, `try_exit_fallback`, both
parts of `push_dmabufs_internal`, `on_exit_fallback` and `refresh_done`. The
event thread polls, answers resource requests and drops the gate. A descriptor
is a number that the next `open` may return again. A store through an unmapped
page ends the process (`SIGSEGV`). The producer and the daemon are reduced to
the state of the channel's other end and whether a notice is unread.

### 2.5 `FrameLoop.tla`

The render loop of the app, one buffer dequeued at a time, against KWin's main
thread. Data are regions of the output: `stale[b]` are those in which buffer `b`
differs from the scene (a ghost variable, nothing reads it), `m_accumDamage[b]`
those the backend believes it must repaint. The eventfd is a counter, the fence
channel a number of messages. A frame takes two steps, `DoBeginFrame` (which
reads the index) and `DoEndFrame` (which paints, hands over and asks for more);
what KWin does when nothing is damaged is `PresentUnpainted`. KWin's render loop
is external: it composites when a repaint is scheduled, rendering is not
inhibited and no frame is pending, and the layer is painted when it is marked or
damaged. A session comes and goes by `PickupFds`, `Reconnect`,
`ProducerFallback`, `ProducerRestart` and the consumer's `EnterFallback`.

### 2.6 `CameraSlots.tla`

One camera and its clients. The reader's callback is five steps (wait for the
slot, pack, snapshot of the clients, send READYs under `slot_lock`, set the
count); the I/O thread polls a snapshot of the clients, then serves each; the
client's own thread frees its resource or releases it. `StartRecord` and
`StopRecord` act under `clients_lock` and leave the rest (`reset`, `lock_cap`,
`open` or `close`) as further labels, as the code does. A producer reads a READY,
copies and sends a DONE; the sockets stay when it is replaced. `written_off` is
a history variable that counts DONEs that a reset or the timeout has forgotten
and that may still arrive. `AImageReader_delete` is external: it returns when no
callback runs.

### 2.7 `CameraNode.tla`

The engine of `anland_camera.c`. One record a camera (node, format, sockets, shared
memory, streaming, recording); handlers are functions of it that return the camera
and the messages sent, because the code ends every handler in `update_recording` and
`request_shm`. PipeWire (negotiation, buffers, restarts) is external. KWin's main
thread hands sockets over and takes them away, under the loop's lock but for one
blocking question, which the loop's callbacks may come before or after. `rec` is
the phone's recording list, read from the control socket when its thread gets to it.

### 2.8 `AudioBridge.tla`

The phone's play and capture threads and KWin's PipeWire callbacks, with the audio
socket between them. The play thread looks at the socket only between writes, so a
session may end and another begin between two looks; announcements are sent without
blocking and can be lost. Samples are not told apart.

### 2.9 `GnomeBackend.tla`

The backend is one record `b`, and every helper of `meta-backend-anland.c` a function
of it, in the order in which the code calls them; a handler applies several. The
sources of Mutter's main loop (timer, channel, fence, frame clock) are the actions. A
consumer and a daemon are reduced to what the backend sees of them.

### 2.10 `Sideband.tla`

The desktop (`desk`), KWin's record of it, the output events on the wire, and three
threads of the phone: render, event and UI. `on_fallback` and `on_exit_fallback` are
sequences of labels on the stack of whichever thread runs them. The helper that
moves processes is an action of its own, so that another thread may be in between.
`carried` remembers who was boosted when the session's event thread started.

### 2.11 `InputStream.tla`

The helper's records, dropped rather than sent when the socket is full, with a marker
once there is room; a partial record is completed first. Device ids are used again,
with a generation. The worker posts to the main thread, which keeps the keys and
contacts it holds down on the desktop.

### 2.12 `RootHelpers.tla`: `AppProcess`, `GrabSession`, `Gamepad`, `TopApp`

`AppProcess` has the app's process, which may die, and its main thread, which may
stall. `GrabSession` is the life of an immersive session: the main thread starts and
stops it, a worker launches the helper, accepts and reads it, the helper grabs the
nodes and lets go when its socket closes or its watchdog fires. `Gamepad` has the
overlay, the bridge with its generations and lock, and the helper's whole life.
`TopApp` is one program at a time: the climb to the session's root, the walk in
steps, the writes, while processes fork and exit. The walk looks at a process's first
thread and then at its others, as the code reads one `children` file after another, and
gives up when there are more than `MaxPids`, as the code does at `MAX_PIDS`. The kernel
may refuse any write (`WriteRefused`). The climb's limit of 32 steps only ends a loop
that a tree of processes cannot have. The three share nothing but
`AppProcess`; `RootHelpers` composes them, and a run plans how much of each.

### 2.13 `PhoneInput.tla`: `Seat`, `TouchInput`, `SoftKeys`, `HardKeys`, `Clipboard`

`Seat` is what the compositor holds: contacts, buttons, keys, text; an event is taken
where it is sent. `TouchInput` routes fingers and makes a touchpad's gestures; positions
and durations are choices among the answers the code tells apart. A swipe or pinch of a
touchpad that is not captured reaches the window as contacts (`swipe`), whatever the
fingers of the screen are for; Android gives the window one device's gesture at a time.
`SoftKeys` has the three ways to type on the screen; what the soft keyboard may do
(compose, commit, delete, take back, tap Backspace or Enter) it may do at any time.
`HardKeys` is a hardware keyboard with and without the accessibility service.
`Clipboard` has the memory of the last text at each end, the phone's three threads and
the compositors' readers.

## 3. Runs

All twelve runs finish without error. `CHECK_DEADLOCK FALSE` is set where a system
may rest: clients that have closed or used up their bounds (daemon, session), a
consumer in fallback whose loop has nothing to do (in the code it idles; here that
is no step), a camera nobody records, a user who does nothing more. The frame loop
and Mutter's main loop must never rest, and there deadlock is checked.

### 3.1 What each run checks

Every property has a mutant in `PROJECT.json`: a plausible bug put into one
definition of the model (marked *Mutant* there), with which TLC finds that property
violated under the same configuration.

**daemon** (1.02 million states): two consumers, one producer, three addresses, deposits
of four and of five descriptors, foreign and misplaced messages with and without
descriptors (one set of them at a time, from any client), a daemon that stops, is
killed, comes back. Three addresses are one more than the roles, so that a newcomer is
allocated before the one it evicts is freed, and the freed address is the only one left
for the next: the reuse the event loop must survive. `RolesOwnStructs` (no leak, no use
after free), `EventsReachTheirClient` (an event that is not skipped is about the client
it is handled for), `FdsAccounted` (of the sets in consumers' HELLOs exactly the deposit
is open; stray descriptors are set apart, since the code leaks them),
`NoMissedHandOver`, `ScreenToldOnce` (the producer is sent SCREEN_INFO in the step after
which both it and a screen are there, and in no other), `NoStaleHandOver` (what goes out
is complete, belongs to the consumer of the moment, and goes to the producer of the
moment), `ConsumerToldOnce` (FDS_READY exactly when the set went out),
`ImplementsRendezvous`, `TypeOK`. A consumer deposits once here (`MaxHello = 1`): a
second HELLO on the same connection is in the run of the session and in the proofs.

**session** (123 thousand): one consumer, two compositors, one of each may die, the
daemon may be killed, one timeout may come too early. `ChannelsExclusive` (no two
processes hold the same ends), `ProducerActiveLast`, `SessionForms` (liveness: in the
end a session is up for good, if both sides are left that can have one). Five HELLOs
of the consumer are enough: one at the start, one after each loss the bounds allow,
with one to spare, so that the bound never keeps a consumer from depositing again.

**consumer_threads** (138 thousand): render, event and one input thread; one fault (a
producer lost or a frame late), one input event, one service, one descriptor number
that is used again. `DepositAnswered` (the connection is torn down once a session, so
that no notice is ever about an older set), `ResourcesWhole` (the gate keeps an
announcement and its descriptors together), `ThreadsReturn` (liveness: whoever is in
the library comes out). One fault lets all three threads notice the same loss; what a
second fault adds is a second session, which the single one ends in already
(fallback, rebuild, hand-out, exit are all in it).

**camera_frames** (339 thousand): two windows, one of them mortal, three frames, two
requests to start or stop, one loss, one failed open. Three frames use both slots and
come back to the first. `NoOverwrite`, `NoUseAfterFree`, `CameraReturns` (liveness: all
threads come home, whatever producers fail to do).

**frame_loop** (121 thousand): three buffers, two regions, two changes of the scene,
two faults (a compositor killed, a frame or buffers too late). Three buffers are the
least with which one that is on display, one dequeued and one that lacks older damage
are different. `Lockstep` (KWin paints the selected buffer, `PaintsSelected`, and what
it answers is the frame the render thread waits for, `AnswersSelected`), `HandedFresh`
(whatever buffer is picked shows the scene as it is), `LoopLives` (liveness: frames are
answered forever, `LockstepRuns`, and the last change reaches the display and stays,
`ScreenFresh`).

**gnome_backend** (318 thousand): three sets, two screens that differ in size and
rate, one mishap. `ViewsUsable` (no frame clock waits for a frame that nobody completes, and
none that the backend lets go of stays inhibited), `FramesFlow` (liveness: whatever was lost,
frames flow again).

**camera_node** (218 thousand): one camera, two sessions, a restart of PipeWire, a
mapping that fails. `RecordingHeard` (a camera the engine takes for recording is one the
present consumer records, once it has read the messages under way), `CamerasReturn`
(liveness: an application that keeps the camera open gets frames again, `LiveFeed`, and
nodes come back with PipeWire, `NodesReturn`).

**audio_bridge** (315 thousand): two sessions, two events (a dead speaker, a preset
changed, PipeWire gone), one message of room. `FormatsAgree` and `StreamsFollow`
(liveness: `PlaybackRecovers` and `MicObeys`).

**input_stream** (650 thousand): one keyboard and one panel on two ids, one record
may be dropped before the helper must resync, a socket of two records, two acts and
two plugs: enough to unplug a device, give its id to another, and lose records of
both. `NoStuckKey` (when all has arrived, a key that is down on the desktop is held),
`DevsMatch` (a contact belongs to the `Dev` that can lift it, `ContactsOwned`, and an
event is handled by the `Dev` of the device it came from, `EventsMatchDevice`),
`LossReported` (liveness: a drop is followed by a marker).

**root_helpers** (387 thousand): two input nodes and two immersive sessions with one
stall of the main thread; two bridges and two windows; six processes, three runs of
`settopapp`, two forks, one exit, one refused write. Four settings; each gives most of its bounds to one
program, since the programs share only the app's process. `NobodyLeft` (no node stays
grabbed with nobody to release it, `NoOrphanGrab`, and helpers end, `HelpersEnd`),
`EndsForBoth` (liveness: `InputComesBack`, and the end of a session reaches both sides,
`SessionEnds`), `PadObeys` (when nothing is under way the device shows what the overlay
said last, and no button is down that no finger is on), `TreeMoved` (a program that has
moved a tree has moved its processes, but for those that fork or are orphaned during the
walk, those that the kernel refused to move, and what these fork).

**sideband** (1.58 million): two windows of nested processes, two acts of the desktop,
one fault. `OverridesApplied` (when nothing is under way the phone's capture and boosts are
as the desktop has them, whatever changed while nobody listened), `WindowsMirrored` (every
window of KWin is known to the app with its present title, and the focused one as such).

**phone_input** (863 thousand): eighteen budgets, each giving one kind of input most of
the steps (contacts with up to three touches, swipes of the touchpad among them, keys on
the screen, hardware keys, clipboards), for KWin and for Mutter, with one loss of the
session. `ContactsTrue` (a contact on the desktop is a finger on the glass,
`NoStuckContact`, and DOWN, MOVE, UP come in order, `TouchWellFormed`), `SeatQuiet`
(what nobody holds is up, but for three cases the code leaves, named in the property),
`ImeText` (the field holds what the soft keyboard takes it to hold, unless it has taken
back an Enter or deleted while it composed), `ClipboardsAgree` (when both are quiet they
have one text).

### 3.2 Statements the code does not keep

No run expects a violation. The modules state, beside the properties the runs check,
some that a reader of the comments would expect and that do not hold; each says so at
its definition. Put one into the `.cfg` and TLC prints the steps.

- `EventThreadRuns` (`ConsumerLib`). `on_fallback` stops the event thread last, after
  two calls into Java and outside the locks (`native_consumer.c:389`). If the next
  session is up by then, `on_exit_fallback` has found the thread running and has not
  started one: the session goes on without reading the producer's events, against the
  comment at `display_consumer.c:249`.
- `NoNullWrite` (`ConsumerLib`). `select_dmabuf` tests `fallback` and then writes the
  index through `shm_ptr`, without the lock (`display_consumer.c:416`). An input thread
  whose send has failed may unmap the page in between. The comment at `:280` says a
  racing writer "fails benignly (EBADF)", which is so for descriptors and not for the
  pointer.
- `AudioAttached` (`ConsumerLib`). `on_fallback` detaches the context of the audio
  bridge, and only `do_connect` attaches one (`native_consumer.c:853`).
- `CaptureRuns` (`CameraSlots`). `client_stop_record` takes the last client off the list
  under one lock and stops the camera under another (`camera_service.c:533`). A start in
  between opens the camera, then the late stop closes it.
- `NeverForsaken` (`GnomeBackend`). A consumer that dies while it is being activated:
  the request for cameras, the last thing `activate_consumer` does
  (`meta-backend-anland.c:835`), fails, the transport falls back, `schedule_reconnect`
  finds the timer still there (`:856`), and then the timer's callback, told that all
  went well, removes itself (`:918`). Nobody asks the daemon again, against
  `src/README.md:529`.
- `NoStuckContact` (`InputStream`). The comment in `handleEvent` promises of keys and
  contacts what `NoStuckKey` has of keys; a contact can stay down
  (`ImmersiveMode.java:948` against `:533`).
- `LensFollowsApp`, `NoTruncation`, `NeedsNoPipeWire` (`CameraNode`):
  `anland_camera.h:22`, `anland_camera.c:57`, and a core that is NULL while PipeWire is
  not there.
- `FormatsAnnounced` (`AudioBridge`). An announcement that finds the socket full is not
  repeated (`native_audio.c:201`).
- `PadExposed` (`Gamepad`). The helper "exposes only that event node"
  (`GamepadBridge.java:17`); it takes the first device of the name, its predecessor's
  too (`gamepad_helper.c:219`).
- `MirrorAccurate` (`PhoneInput`). The comment at `SystemIME.java:110` says that the
  mirror of what was typed is accurate whichever call drove the change. Enter drops it
  (`SystemIME.java:312`), a Backspace takes the Enter back, and a word of the line
  before it that the keyboard then composes again is not in the mirror:
  `setComposingRegion` ignores the call (`:287`), and what should replace the word is
  appended to it. `ImeText` excepts what an Enter taken back has joined (`tangled`).
- `NoGhostWindows`, `VarsRegress`, `NoBoostCarried`, `TreePromoted` (`Sideband`):
  `LinuxWindowRegistry.java:8`, `MainActivity.java:275`, `native_consumer.c:751`; the
  last needs mode 2 (`Modes = {1, 2}`).

### 3.3 Fairness

`Daemon`: weak fairness of fetching a batch, of handling an event of it and of
accepting: the loop is one thread that runs. A client that has connected sends
its HELLO or dies: nothing in the libraries waits between the two.

`Session`: the above, and weak fairness of each library's step: the render loop
and the reconnect timer call it again and again. Timeouts are fair only when
nothing is under way for them (`Stranded`, `~PickupUnderWay`), which is when they
must fire.

`ConsumerLib`: each thread goes on when it can. Locks are not assumed to be
fair; no liveness depends on more than weak fairness.

`FrameLoop`: weak fairness of both loops; strong fairness of `OnBufferReady` and
`ProducerFallback`, because KWin's event loop serves every readable descriptor in
each round, however often it composites in between.

`GnomeBackend`: weak fairness of the timer, the daemon and a consumer that is there;
strong fairness of the sources of Mutter's main loop (`BufferReady`, `Present`,
`InputDispatch`, `UpdateStage`), because each round of the loop dispatches those that are
ready. Nobody has to start or to come back.

`CameraSlots`: the reader, the I/O thread and the owners' threads run, and a
second passes for one who waits with a timeout. Producers are owed nothing:
`CameraReturns` holds for those that never answer.

`CameraNode`: threads run, PipeWire negotiates while it is there, a camera that records
delivers frames. PipeWire may stay away, and no application has to open a camera.

`AudioBridge`: threads run, and strong fairness of `Reopen`: a device that is tried
again and again opens in the end. PipeWire may stay away.

`InputStream`: the pumps, the worker and the main thread run (weak), and `Recover` makes
progress (strong): the helper's loop comes round every 250 ms, and a socket that keeps
getting room takes a whole record in the end.

`GrabSession`: everything but the user, the death of the process and the main thread's
stall: posted work runs, timeouts pass, the worker and the helper go on. `Gamepad` and
`TopApp` need none; `Gamepad`'s *settled* means that none of its own steps is possible. It
is written out (`Waits`) rather than with ENABLED, so that it can be reasoned about; TLC has
compared the two in every state of the run.

`Sideband`, `PhoneInput`: safety only, stated of the moments in which nothing is under way.

### 3.4 Seen on the way

Found while the models were written. `PROJECT.json` lists as hazards those that matter;
what a property has to except because of one of these is named at the property.

*Daemon and session*

- The display-mode lock of README.md:546 and `CTRL_MSG_REJECT` (README.md:112)
  are not in the daemon: the last screen wins (`display_daemon.c:198`). Five
  descriptors are deposited where documents speak of four.
- Descriptors that come with a message which is ignored (`display_daemon.c:163-216`), ends
  its client (`:154-159`) or opens no connection (`:230-239`, `:258-276`) are never closed.
  `FdsAccounted` sets them apart, and `NoFdLeak` (§4) is about clients that send none.
- A re-deposit that fails is final: nobody tries again (`display_consumer.c:293`).

*Consumer library*

- The buffers are pushed after the session is published and without `data_lock`
  (`display_consumer.c:254`, `:261`), so an input event can come before or
  between the two parts of BUFS_READY.
- A descriptor number read before a teardown can be written to after it, when it
  names the next session's channel (`:493`; the comment at `:280-282` expects
  EBADF), and an `enter_fallback` that comes late (`:499`) tears down a healthy session.
- A thread that has answered the last service of a session may open the gate of
  the next one (`:120-127`; comment at `:47`).
- With the gate open, the two parts of long clipboard text can mix with other
  events (`:522`; comment at `:42`).
- `buffer_pending` can be set after a teardown has cleared it (`:419`): the next
  `refresh_done` then waits 5 s for nothing, and recovers.
- If pushing buffers fails while fallback is being left, the exit callback still
  runs and starts an event thread in fallback, which spins (`:261-262`; comment
  at `:249`), and the next session's scheduling events may be dropped. This is why
  `OverridesApplied` speaks of boosts only under `carried # NULL`.
- `nativeSend*` use the context without the lock that `nativeDestroy` takes
  (`native_consumer.c:1442`).

*Frames, GNOME*

- Before the first buffer-ready of a session KWin paints buffer 0, whatever the
  consumer has on display. `PaintsSelected` therefore speaks of the time after it.
- While the daemon knows no screen, each tick of Mutter's timer blocks its main loop for
  up to 5 s.
- Text that cannot be injected ends the session; RESOURCE_INVALID and WINDOW_COMMAND
  are ignored.

*Cameras*

- A camera slot can be overwritten while it is copied without any producer
  having been slow: through a stop and start, or a producer that is replaced
  while READYs are in its socket. `NoOverwrite` therefore speaks of DONEs that
  were written off.
- A START_RECORD that the I/O thread handles from an old snapshot, after
  `client_stop_all` has run for its client, leaves a freed client on the
  recording list (`camera_service.c:828`) and `rec_count` never goes back to 0.
- A stop that runs on the I/O thread and waits for the frame callback, which
  waits for DONEs that only the I/O thread reads, is ended by the 1 s timeout
  alone.
- KWin may show the last frame of the session before; a mapping that fails leaves
  `shm_requested` set, and no other is asked for (`anland_camera.c:289`).

*Audio*

- A preset with quantum 0 never resets `node.latency` (`anland_audio.c:238`, `:343`).
- A FORMAT is lost when one session ends and the next begins between two looks of the
  play thread.

*Window bridge*

- A KWin that restarts counts window ids from 1 again, while the app still has the windows
  of the one before (`NoGhostWindows`); a compositor that comes back to a phone in
  fallback finds the old overrides in force (`VarsRegress`, `NoBoostCarried`).

*Immersive mode*

- Of two touchpads that deliver the same, one is marked `dup` in the middle of a gesture,
  which then never ends (`ImmersiveMode.java:738`).
- A second press of the toggle within 2 s is swallowed (`:482`); a start while the old
  helper still grabs the nodes ends in HELPER_ERR.
- BYE after a partial record that timed out leaves the reader in the middle of a record.
- The helper would take the virtual gamepad for a keyboard and grab it. Nothing in the
  app constructs an `ImmersiveMode` at present.

*Gamepad*

- A write that fails drops the client, and nothing restarts the bridge until the next
  resume; a write can block the UI thread. Of two resumed windows, the one that is not
  `activeDisplay` keeps sending to the other's bridge, and pausing the other stops it for both.
- Two fingers on one control: lifting one releases it until the other moves.
- A helper that was started with `su` and is killed leaves its node in the container.

*Promotion of processes*

- The comments at `settopapp.c:158` and `:490` ("forked after the snapshot … nothing left
  to sweep") are not true: a child forked between the walk's look at its parent and the
  parent's move, and an orphan whose parent exits before the walk reaches it, stay where
  they were. `TreeMoved` excepts them.
- A write that the kernel refuses leaves its process behind, and the program still reports
  success when another was moved (`settopapp.c:480-494`). `TreeMoved` excepts it too.
- A tree of 512 processes or more is not moved at all, so one that has grown since its
  promotion is never restored.

*Clipboard*

- `anland_backend.cpp:991`, "An empty text clears the remote clipboard": the phone's event
  thread ignores size 0.
- A drain that times out in KWin yields an empty text and forgets what the phone has;
  drains may finish out of order; texts that cross leave the two sides swapped.
- KWin ignores selections made without a session and presumes the phone has a text that
  was lost with one; the phone marks a text as sent although the send was dropped.

*Keys, fingers and text*

- With interception on, a key that is held while the window loses the focus and let go
  elsewhere stays down on the desktop (`KeyInterceptor.java:110`).
- `surfaceChanged` and `surfaceDestroyed` stop the session without clearing
  `activeTouchPointers`: a finger held across them sends MOVE without DOWN, against the
  comment at `MainActivity.java:2294`.
- KWin's fallback cancels touches only, so buttons and keys held at a session's end stay
  down; Mutter releases all of them.
- Caps or the right Shift pressed between a letter's DOWN and UP leaves SHIFT_LEFT held
  (`sendKeyWithCaps`).
- The bar of extra keys: ACTION_CANCEL does not dismiss an open popup, and a second finger
  resets the first one's long hold.
- `deleteSurroundingText` and a Backspace while a word is being composed erase the end of the
  word and leave the tracker as it was (`SystemIME.java:246`, `:311`): the next
  `setComposingText` erases too much. `ImeText` excepts it (`tangled`).
- The soft keyboard: text, arrows or keys from elsewhere, and a session lost, make the
  mirror differ from the field; with a modifier of the bar active only the first
  character of a composition is sent.
- Mutter: a frame later than 100 ms cancels every contact, and fingers still down are
  passed over until they are lifted.

## 4. Proofs

Eight modules of proofs, which TLAPS checks for every value of the constants: any
numbers of clients, addresses, threads, buffers, devices, keys, windows and texts, any
bounds on what may go wrong. The theorems are about `Spec` (of `Session`, `SessionSpec`; of
`CameraNode`, `NodeSpec`; of `FrameLoop`, `LoopSpec`), without
fairness. Where a theorem's property is one that a run checks, the run shows it on a
small instance and the theorem everywhere.

| module | theorem | property |
|---|---|---|
| `DaemonProofs` | `TypeCorrect` | `TypeOK` |
| | `StructsOwned` | `RolesOwnStructs` |
| | `EventsSafe` | `EventsReachTheirClient` |
| | `DepositOwned` | `DepositIsConsumers` (in no run) |
| | `HelloFdsAccounted` | `FdsAccounted` |
| | `NoFdLeak` | no descriptor but the deposit is open, if no client sends strays (in no run) |
| | `HandOverComplete` | `NoMissedHandOver` |
| | `ScreenComplete` | `ScreenRendezvous` (in no run) |
| | `ScreensTold` | `ScreenToldOnce` |
| | `HandOversFresh` | `NoStaleHandOver` |
| | `RendezvousImplemented` | `ImplementsRendezvous` |
| | `OfferedOnce` | `EveryOfferOnce` (in no run) |
| | `ConsumerTold` | `ConsumerToldOnce` |
| | `OneHolder` | `ChannelsExclusive` |
| | `ConsumerActiveFirst` | `ProducerActiveLast` |
| | `SessionRendezvous` | `ImplementsRendezvous` under `SessionSpec` |
| `ConsumerLibProofs` | `LibTypeCorrect` | `TypeOK`, `StackInv` (in no run) |
| | `DepositAnsweredHolds` | `DepositAnswered` |
| | `ResourcesStayWhole` | `ResourcesWhole` |
| `FrameProofs` | `FrameTypeCorrect` | `LoopTypeOK` (in no run) |
| | `LockstepHolds` | `Lockstep` |
| | `FramesAreFresh` | `HandedFresh` |
| | `GnomeTypeCorrect` | `TypeOK` (in no run) |
| | `ViewsStayUsable` | `ViewsUsable` |
| | `ActiveOnMatchingView` | `BuffersFitView` (in no run) |
| `CameraProofs` | `NobodyUsesFreed` | `NoUseAfterFree` |
| | `NoFrameOverwritten` | `NoOverwrite` |
| | `NodesInOrder` | `NodeTypeOK`, `NodeInv` (in no run) |
| | `RecordingIsHeard` | `RecordingHeard` |
| `InputStreamProofs` | `StreamTypeCorrect` | `TypeOK` (in no run) |
| | `KeysComeUp` | `NoStuckKey` |
| | `DevicesMatch` | `DevsMatch` |
| `SidebandProofs` | `SidebandInOrder` | `TypeOK`, `StackInv`, `LinkInv`, `KWinInv` (in no run) |
| | `MirrorHolds` | `WindowsMirrored` |
| | `OverridesHold` | `OverridesApplied` |
| `PhoneProofs` | `OneTextPrevails` | `ClipInv` (in no run) |
| | `ClipboardsOne` | `ClipboardsAgree` |
| | `PhoneContacts` | `ContactsTrue` |
| | `TextIsTyped` | `ImeText` |
| `RootHelpersProofs` | `TopAlways` | `TopTypeOK`, `TopInv` (in no run) |
| | `TreeIsMoved` | `TreeMoved` |
| | `GrabAlways` | `GrabTypeOK`, `GrabInv` (in no run) |
| | `PadAlways` | `PadTypeOK`, `Shown`, `Wired` (in no run) |
| | `NobodyIsLeft` | `NobodyLeft` |
| | `PadIsObeyed` | `PadObeys` |

Every safety property of the runs `daemon`, `session`, `consumer_threads`,
`camera_frames`, `camera_node`, `frame_loop`, `gnome_backend`, `input_stream`,
`root_helpers` and `sideband` is a theorem; of `phone_input` `ContactsTrue`,
`ImeText` and `ClipboardsAgree` are.

*Assumptions.* Each module assumes the assumption named in the module it is about
(`DaemonAssumption`, `SessionAssumption`, `ConsumerLibAssumption`, `CameraAssumption`,
`CameraNodeAssumption`, `FrameLoopAssumption`, `GnomeBackendAssumption`,
`StreamAssumption`, `SidebandAssumption`, `SeatAssumption`, `TouchAssumption`,
`SoftKeysAssumption`, `ClipboardAssumption`, `GrabAssumption`, `GamepadAssumption`,
`TopAppAssumption`, `PlansAssumption`) and nothing else:
bounds are natural numbers, there are at least two buffers (`BufCount > 1`, of which one
is on display), sets that stand for different kinds of things do not meet, `NULL` is
none of the values it stands beside. `CameraAssumption` has a finite set of clients,
`StreamAssumption` no more devices at a time than `MaxDevices` ids, as in the helper,
which stops looking for more. `TopAppAssumption` has a finite set of processes, and
`PlansAssumption` says only what a plan is. Nothing is assumed about how large anything is.

None of the invariants is inductive by itself. Each proof strengthens it, in layers
where possible, each layer inductive given those below; TLC has checked every
strengthening on the run's instance. Each layer has a lemma per handler or action, and
one that combines them over `Next`.

### 4.1 The daemon

1. `BaseInv`: types, `RolesOwnStructs`, and `InboxInv`. The last is what the
   others lack: a HELLO in a connection's inbox names that connection, and only a
   producer's carries PRODUCER_HELLO. Without it a handler could put a consumer's
   connection into the producer's role.
2. `BatchInv`: the events of a batch. They are about different addresses, and
   while the batch's one accept is unhandled, each is about a client that holds
   its role through the connection the event was fetched for: until then a hangup
   frees only the client of the event being handled. The accept may evict one, and
   its event is stale from then on; but the newcomer's address was free while the
   evicted struct was still allocated (`calloc` comes first), so no unhandled
   event points to it, and no later step of the batch installs another client.
3. `HandInv`: deposits, descriptors and flags together. The delivery either sends
   and clears, or keeps and marks the producer waiting, and the two facts
   (`NoMissedHandOver`, `FdsAccounted`) need each other's half, and `KnownConns`:
   a connection the daemon holds was made, hence a closed one never opens again
   and a deposit kept for a dead producer stays undeliverable to it.
4. `GenInv`: along a connection the numbers of its HELLOs increase, from the sets
   already offered over those in its inbox to the count of HELLOs sent. So a set
   that a handler reads was never handed over, which `Rendezvous!Offer` demands.

`HandOversFresh` follows from `HandInv`: a request sends the deposit, whose owner
`DepositIsConsumers` gives, and a deposit sends what its own HELLO brought.
`RendezvousImplemented` takes layers 1, 3 and 4. A HELLO with a complete set is
`Offer`, with an incomplete one, or when the consumer goes, `Withdraw`; PICKUP_FDS
is `Ask`, or `Leave` if the producer died before the reply; a producer that is
accepted, dropped or closes while it waits is `Leave`; the end of the process is
`Forget`; every other step changes nothing of it. `KnownConns` is needed here too:
a connection that opens cannot be a dead producer's coming back to life.
`OfferedOnce` is then an invariant of the abstract steps alone. `ConsumerTold` takes
`HandInv` and one fact of each handler: what is queued for a consumer grows in
`try_deliver_fds` alone. `ScreensTold` takes `ScreenComplete` (the flag says whether
anybody waits) and `FreshConns` (a connection in the backlog is in no struct, and there
once, so that accepting it makes one producer known that was not): a handler either sends
the screen to the one producer that comes to know it in that step, or sends none.

### 4.2 The session

`Session` replaces the daemon's clients by the libraries. A session is a behaviour of the
daemon, but for one step: a consumer that reads FDS_READY and cannot push its buffers
answers at once with its next HELLO, which is two steps of a client. So `DaemonInv`
(layers 1, 3 and 4 above, and `EveryOfferOnce`) holds in every session, and
`SessionRendezvous` needs no more than that. `LibInv` adds what the libraries' own
variables say about sets: every FDS_READY in a producer's mail, and every set a producer
holds, is of a pair in `handed`; a consumer holds the ends of a set it has announced
itself; buffers wait in the channel of the set their consumer is active with. `OneHolder`
follows, because a set is handed to one producer; `ConsumerActiveFirst` is a part of the
invariant.

### 4.3 The threads of the consumer library

`StackInv` says which labels a thread's stack may hold and in which order: no call
returns into the middle of a teardown or of a write. `LockInv` says who holds each lock,
from the labels. `DepositInv` ties the teardown to the other end of the channel: a
session that is up has a live peer and no unread notice, a thread that is about to close
finds the old peer, one that is about to rebuild finds none; `DepositAnswered` follows.
`FirstSession` is about the time until the first fault, in four parts: nothing is torn
down and descriptors stay what they are (`Whole`), what may have been sent before the
session (`Coming`), the gate is dropped when every service has been answered and not
before (`Gate`), and only the event thread answers (`Answer`); `ResourcesWhole` follows.

### 4.4 The frame loop

`ConsumerInv`: the buffer the render thread has dequeued is the one in the index page
while it waits. `LinkInv`: a frame it waits for is in exactly one place, the eventfd, the
compositor or the fence channel. `FrameInv`: between the first request of a session and
the next answer the compositor has the request or waits for another, and paints only with
one. Together they give `Lockstep`. `DamageInv` is about data: what a buffer lacks is in
its accumulated damage or in that of the frame to come, and a buffer that owes damage is
flagged; it gives `HandedFresh`.

### 4.5 Mutter's backend

The backend's record goes through many helpers in one step, so the invariant is about the
record: `Fit(b)` has a part `Paintable` (a clock that waits, waits for a frame of the
stage that the backend knows of; one that is halted is inhibited) and a part `Served` (an
active consumer has its transport, its buffers the view's size and rate, and the timer
has stopped), with a lemma per helper that says what the helper keeps. `MainLoopInv` ties the
place of the main loop to the transport. `World` is what the other variables are.

### 4.6 The camera service

`NobodyUsesFreed`: `HoldInv` says that a client's busy count is the number of its
holders, which are the reader's snapshot, the I/O thread's, and the client's own thread
while it puts one back; `StackInv` which labels the threads' stacks hold. A client is
freed when the count is zero and it is off the list.

`NoFrameOverwritten`: `OweInv` says that what is out of a slot (READYs in a socket, copies
under way, DONEs in a socket) is at most what the slot waits for, what was written off,
and what a callback is about to count. Cardinalities are compared through injections
between the cells in which a READY, a copy or a DONE can be.

`RecordingIsHeard` is about the webcam engine (`CameraNode`). Whatever a handler did to
a camera, the camera then goes through `update_recording`, and one lemma (`Reconciled`)
is about that: a camera that records afterwards has both sockets, and either START is
the last of what was sent about it, or it recorded before and nothing was sent about it.
The handlers that end otherwise (`on_reconnect_timer`, `anland_camera_clear`) only stop
cameras. What is not inductive is the change of consumer: a new one records nothing, so
no camera may be taken for recording when it comes. That is `NodeInv`: the fallback
before it cleared every camera there is, because those above `num` have no socket, an
engine that was never started has none at all, and a call of `set_resources` that waits
for its answer keeps KWin's main thread from the fallback.

### 4.7 The input stream

All records between the helper and the app's main thread make one sequence: what is
posted, what is in the socket, and the record that went out in part. The helper adds to
its end, the main thread takes its first, every other step leaves it as it is (a BYE
that times out cuts the last). The invariant is about that sequence:

- `RecordsInv`: every record fits the state the app will have after the records before
  it. An event is for the `Dev` that will be there, and a DEVICE comes for an id whose
  contacts are up or after a marker, which clears everything.
- `HelperInv`: the same for whatever the helper adds next, unless a marker is due.
- `KeysInv`: a key that will be down after the whole sequence is held by the user, or its
  release is coming, or the keyboard is gone, or a marker is due.
- `EndInv`: the end of the stream is last, and comes only after the helper is gone.

`KeysComeUp` is `KeysInv` with an empty sequence; `DevicesMatch` is `RecordsInv` of its
first record, with `ContactsOwned`, which is inductive with it.

### 4.8 The sideband

All that the phone has still to do is one list of events, `Coming`: an `onFallback` the UI
thread is about to run, its tasks, an `onFallback` the event thread is about to post, the
events it has not read. The invariant says how that list ends. For the capture, for each
window's title and for the focus, either the last event about it says what the desktop has
(`Settles`), or there is none about it (`Silent`) and the phone has it already: this is
`MirrorInv`, and with an empty list it is `WindowsMirrored`. A step that appends, takes or
applies an event keeps it by what it does to the end of the list; a new session starts it
with KWin's snapshot.

Scheduling is not done by events alone: `on_fallback` restores everybody, on whichever
thread meets the fault. `BoostInv` says the same as `MirrorInv` of the processes in front,
over `Orders` (the order being carried out, and those not read), but only of a session that
is `Clean`, that is, which no thread's `on_fallback` disturbs; before the event thread has
begun, it says so of the unread events. `CleanInv` says what a clean session's threads are
doing, and rests on `StackInv` and `LinkInv` (which labels a stack may hold, and in which
state the channel then is) and on `KWinInv` (ids are unique, and the backend's record is
what it reported last). `OverridesHold` takes all of them.

### 4.9 The clipboards

`ClipInv`: unless a text was lost or met another, one text prevails. While texts are on
their way to the desktop (`Outgoing`: those on the channel, and one the render thread has
read and not sent) nothing comes back, the phone has the last of them, and the desktop has
not overtaken them. Otherwise the selection's text is being asked for, or the desktop knows
it and the phone gets it: what is on the channel ends in it, or the event thread has taken
it down, or the phone has it, or has newer text that a listener, the next focus, the next
session or the render thread is about to send (`Newer`). The last needs `ListenInv`: the
listener is registered in every session that has got as far as that. `ClipboardsOne` is
`ClipInv` in a state where nothing is under way. The theorem is about all of `PhoneInput`;
of the rest of the phone's input it needs how a step changes the session and the focus.

### 4.10 The contacts

One call of the UI thread sends a list of events, and a session that fails, or a frame that
is late, takes effect at any end of that list. `Makes(e, D, M, U)` says what a list does to
contacts: it puts down `D`, then moves contacts of `M`, then lifts `U`, each as it has to be
for a desktop that has the contacts the code takes it to have, and so does every end of
it. What a list does is computed by a recursive function (`Trace`); the lemmas about it go by
the least end of a list for which they would fail. Each operator that builds a list
(forwarding a finger, a gesture handed over, `Cancel`, what a pause sends) has a lemma that
says which `D`, `M` and `U` it makes, and `SendHolds` says what a call with such a list does
to the desktop, in each of its four outcomes.

`PhoneInv` has four parts. `SeatInv`: the desktop's contacts are among those the code
takes it to have (`Believed`), and are these unless the fingers are `straddled`; no call
has sent a contact that was not as it had to be, with the same exception. `TouchInv`: no
finger is forwarded both as the pad's and as the window's (`padMode`, `swipe`); what is
`Believed` is under the fingers, each by one of the three ways a finger's events can
take, and a gesture's own fingers are where the state of the gesture says. `SoftInv` and
`HardInv` are only about types: that what the keys and the text of the rest of the phone
send is a list without contacts. The first two give `NoStuckContact` and
`TouchWellFormed`.

### 4.11 The text

`Typed(d, k, c, h, m)` is what holds of the field `d`, the mirror `k` and what is
composed, `c`: the field is some `h` and then the mirror, the mirror is some `m` and
then `c`, and `h` is empty or ends with an Enter. It is this last that makes
`setComposingRegion` right: a word that is taken back to compose does not reach behind
the last Enter, so the mirror is never too short for it (`SinceEnterIs`). `TextInv`: as
long as nobody else has typed, nothing sent went unheard, no Enter was taken back and
nothing deleted out of a word that is being composed, the desktop's text is the field
the keyboard believes in, no key that edits is down (Mutter would drop its next press),
and the field is `Typed`.

`Fits(n, s, c, b)` says of an edit that it is the right one: erasing `n` characters and
sending `s` makes the field the believed one, and leaves it `Typed`. Each of the
keyboard's calls makes one that fits; of `replaceComposing` this is that two words are
alike up to their longest common beginning. `EditTypes` says what the desktop makes of
the events of an edit, by the same induction over the list as the contacts. All the rest
of the phone sends events that change no text (`Mute`), which for fingers and buttons
needs that only buttons are pressed (`ButtonInv`), or keys that are not the soft
keyboard's, which it is told of (`Foreign`). Of a call that is not heard to its end
nothing is claimed, as the property does not. The attempt to prove `ImeText` without its
exception for an Enter taken back failed, and is `MirrorAccurate` in §3.2.

`Chars`, what a text consists of, is `STRING \cup {"ENTER"}`, which is `STRING`: no
prover here knows that `"ENTER"` is one.

### 4.12 The programs run as root

The three programs share `AppProcess` alone, so each has an invariant of its own, and a step
of one leaves the variables of the others alone.

*settopapp.* `Below(p)` is the least set with `p` in it that is closed under children; its
lemmas say what a fork and an exit do to it, the latter when the children of a process that
exits go to the nearest reaper above it, which was above them before. `TopInv` is the
invariant of the walk: while it goes on, the children of those visited are visited or on the
stack, unless they were passed by (`missed`, and what is below them). When the stack is
empty, what is below the root therefore is visited or passed by. From then on each such
process is where it belongs, or a write that puts it there is still to come, controller by
controller (`Right`). A child forked between two writes into its parent's groups is right
if its parent is done; otherwise it is one that was passed by. With no writes left this is
`TreeMoved`.

*Immersive mode.* `Grabbing`: a helper grabs only after it has connected. `Attached`: a
connection in the backlog is at the listener of the session that runs, an open one is held by
the session's `client` or by a worker that is about to check whose it is, and no worker but
that of the session that runs is under way. `Reported`: the end of a session is the last that
its worker posts. A helper that holds a node thus has a connection that is closed, or belongs
to the session that runs, which is `NoOrphanGrab`.

*The gamepad.* `Wired(b)` is the same of a bridge and its generation, with what was said on
the connection: the last state sent, or the one played if all are (`Said`), is the overlay's
state of now. `Shown`: a control that is held has a finger on it, and the state of now is
some overlay's. In a settled state nothing is unread, so that the device plays what was said
last; a bridge whose connection is not closed is the one of the present generation. So
`PadObeys` and `HelpersEnd` follow, the latter being the other half of `NobodyLeft`.

### 4.13 Model-checked only

- Liveness, wherever a run has it: `SessionForms`, `ThreadsReturn`, `CameraReturns`,
  `LoopLives`, `FramesFlow`, `CamerasReturn`, `FormatsAgree`, `StreamsFollow`,
  `LossReported`, `EndsForBoth`. The prover has no rules for fairness and ENABLED here.
- `SeatQuiet`: its invariant has a part for each source of keys and buttons, and the release
  of each has to be found in a list of events.

No module declares a RECURSIVE operator.

## 5. Not modelled, and the plan

Not modelled for a reason that will not change: failed allocations, formats and
pixels, GPU fences as such, Java layout code, scripts, documents. The KWin variants and
the second GNOME copy are near copies of what is modelled; Mutter's own copies of the
audio and camera engines follow KWin's.

Not modelled so far: the framing of the data channel (a reader that skips, times out
or cannot allocate loses its place in the stream), the app's `nativeDestroy` under
running threads, the rest of the app's user interface. Of what is modelled, the
following is cut away: in `CameraNode` a frame's way through the slots (which is in
`CameraSlots`) and `anland_camera_stop`; in `AudioBridge` the capture format, the ring and
the samples; in `GnomeBackend` protocol errors; in `Sideband` geometry and flags of
windows, and commands to windows; in the phone's input motion, coordinates, the drag
handle and the symbol layer of the floating keyboard.

Next: the framing of the data channel, with a reader that times out; `SeatQuiet` as a
theorem, from what each source of keys says it holds; the `nativeDestroy` of the app.
