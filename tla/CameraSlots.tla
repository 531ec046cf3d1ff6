----------------------------- MODULE CameraSlots -----------------------------
(***************************************************************************)
(* camera_service.c: one physical camera, its two shared frame slots and    *)
(* the consumer windows ("clients") that record it.  The NDK reader thread  *)
(* packs frames, the I/O thread serves the control and stream sockets of    *)
(* all clients, and each client's own threads drop it from the recording    *)
(* list when its producer goes (camera_free_resource) and destroy it with   *)
(* its window (camera_release_client).  anland_camera.c is the other end.   *)
(***************************************************************************)
EXTENDS Integers, FiniteSets, SequencesExt

CONSTANTS
  Client,
  Mortal,      \* clients whose producer may be lost or window closed
  NULL,        \* no lock holder
  MaxFrames,   \* bound: images the camera delivers
  MaxSwitches, \* bound: START_RECORDs and STOP_RECORDs producers send
  MaxLosses,   \* bound: producers lost, windows closed
  MaxFailures, \* bound: camera pipelines that do not start
  Room         \* READYs a stream socket holds

Thread == {"io"} \cup Client
Slot   == {"slot0", "slot1"}

ASSUME CameraAssumption ==
  /\ IsFiniteSet(Client) /\ Mortal \subseteq Client /\ NULL \notin Thread \cup {"reader"}
  /\ {"io", "reader"} \cap Client = {}
  /\ {MaxFrames, MaxSwitches, MaxLosses, MaxFailures, Room} \subseteq Nat

VARIABLES
  \* struct camera_hw
  clients, rec_count, cur_slot, slot_pending, slot_lock, cap_lock,
  capture,    \* whether a repeating request runs
  \* struct camera_client
  recording, busy,
  freed,      \* clients destroyed
  ctrl,       \* control messages sent and not read
  ready,      \* READYs in each client's stream socket, which outlive the producer
  done,       \* DONEs there
  \* threads
  reader,     \* on_frame_available: where it is, slot, snapshot, READYs counted
  stack,      \* the labels of the I/O thread and of each client's own
  io_client,  \* the client whose message the I/O thread handles
  io_snap,    \* its snapshot, and the sockets poll reported
  io_todo,
  \* producers
  producer,   \* "none", "idle", or the slot it copies out of
  told,       \* update_recording: the consumer was told to record
  \* history: DONEs still to come that the slot no longer waits for
  written_off,
  frames, switches, losses, failures

list    == <<clients, recording, rec_count, busy, freed>>
slots   == <<cur_slot, slot_pending, slot_lock, written_off>>
hw      == <<capture, cap_lock>>
sockets == <<ctrl, ready, done>>
threads == <<reader, stack, io_client, io_snap, io_todo>>
prod    == <<producer, told>>
cnt     == <<frames, switches, losses, failures>>
vars    == <<list, slots, hw, sockets, threads, prod, cnt>>

Init ==
  /\ clients = Client /\ recording = {} /\ rec_count = 0
  /\ busy = [c \in Client |-> 0] /\ freed = {}
  /\ cur_slot = "slot0" /\ slot_pending = [s \in Slot |-> 0] /\ slot_lock = NULL
  /\ capture = FALSE /\ cap_lock = NULL
  /\ ctrl = [c \in Client |-> <<>>] /\ ready = ctrl /\ done = ctrl
  /\ reader = [pc |-> "idle", slot |-> "slot0", snap |-> {}, sent |-> 0]
  /\ stack = [t \in Thread |-> IF t = "io" THEN <<"loop">> ELSE <<>>]
  /\ io_client = NULL /\ io_snap = {} /\ io_todo = {}
  /\ producer = [c \in Client |-> "idle"] /\ told = [c \in Client |-> FALSE]
  /\ written_off = [s \in Slot |-> 0]
  /\ frames = 0 /\ switches = 0 /\ losses = 0 /\ failures = 0

-----------------------------------------------------------------------------
At(t, l)    == stack[t] # <<>> /\ Head(stack[t]) = l
Goto(t, ls) == stack' = [stack EXCEPT ![t] = ls \o Tail(@)]
Me(t)       == IF t = "io" THEN io_client ELSE t

Hold(cs) == busy' = [c \in Client |-> IF c \in cs THEN busy[c] + 1 ELSE busy[c]]
Drop(cs) == busy' = [c \in Client |-> IF c \in cs THEN busy[c] - 1 ELSE busy[c]]

\* A slot's count is set to 0 whether or not its DONEs have come.
WriteOff(ss) ==
  /\ slot_pending' = [s \in Slot |-> IF s \in ss THEN 0 ELSE slot_pending[s]]
  /\ written_off'  = [s \in Slot |-> IF s \in ss THEN written_off[s] + slot_pending[s]
                                     ELSE written_off[s]]

-----------------------------------------------------------------------------
(* on_frame_available, on the reader's own thread                          *)

Reader(pc) == reader.pc = pc

Frame ==
  /\ Reader("idle") /\ capture /\ frames < MaxFrames
  /\ frames' = frames + 1
  /\ reader' = [reader EXCEPT !.pc = "wait", !.slot = cur_slot]
  /\ UNCHANGED <<list, slots, hw, sockets, stack, io_client, io_snap, io_todo, prod,
                 switches, losses, failures>>

\* Mutant: the slot is packed as soon as one of its readers is done.
SlotBusyLast == slot_pending[reader.slot] > 1
SlotBusy == slot_pending[reader.slot] > 0

WaitSlot ==
  /\ Reader("wait") /\ slot_lock = NULL
  /\ reader' = [reader EXCEPT !.pc = IF SlotBusy THEN "sleep" ELSE "pack"]
  /\ UNCHANGED <<list, slots, hw, sockets, stack, io_client, io_snap, io_todo, prod, cnt>>

\* pthread_cond_timedwait: one second.
\* Mutant: pthread_cond_wait.
ReclaimNever == FALSE /\ UNCHANGED vars
Reclaim ==
  /\ Reader("sleep") /\ slot_lock = NULL
  /\ WriteOff({reader.slot})
  /\ reader' = [reader EXCEPT !.pc = "pack"]
  /\ UNCHANGED <<list, cur_slot, slot_lock, hw, sockets, stack, io_client, io_snap, io_todo,
                 prod, cnt>>

\* cam_pack_frame writes the slot for as long as the reader is at "pack".
Snapshot ==
  /\ Reader("pack")
  /\ reader' = [reader EXCEPT !.pc = "fanout", !.snap = clients]
  /\ Hold(clients)
  /\ UNCHANGED <<clients, recording, rec_count, freed, slots, hw, sockets, stack, io_client,
                 io_snap, io_todo, prod, cnt>>

Counted(to) == Cardinality(to)

\* READY is sent without blocking and counted whether or not it went out.
FanOut ==
  LET to == reader.snap \cap recording IN
  /\ Reader("fanout") /\ slot_lock = NULL /\ slot_lock' = "reader"
  /\ ready' = [c \in Client |-> IF c \in to /\ Len(ready[c]) < Room
                                THEN Append(ready[c], reader.slot) ELSE ready[c]]
  /\ reader' = [reader EXCEPT !.pc = "count", !.sent = Counted(to)]
  /\ UNCHANGED <<list, cur_slot, slot_pending, written_off, hw, ctrl, done, stack, io_client,
                 io_snap, io_todo, prod, cnt>>

Count ==
  /\ Reader("count")
  /\ slot_pending' = [slot_pending EXCEPT ![reader.slot] = reader.sent]
  /\ cur_slot' \in Slot \ {reader.slot}
  /\ slot_lock' = NULL
  /\ reader' = [reader EXCEPT !.pc = "drop"]
  /\ UNCHANGED <<list, written_off, hw, sockets, stack, io_client, io_snap, io_todo, prod, cnt>>

ReleaseSnapshot ==
  /\ Reader("drop")
  /\ Drop(reader.snap)
  /\ reader' = [pc |-> "idle", slot |-> "slot0", snap |-> {}, sent |-> 0]
  /\ UNCHANGED <<clients, recording, rec_count, freed, slots, hw, sockets, stack, io_client,
                 io_snap, io_todo, prod, cnt>>

ReaderStep == WaitSlot \/ Snapshot \/ FanOut \/ Count \/ ReleaseSnapshot

-----------------------------------------------------------------------------
(* client_start_record, client_stop_record                                 *)

\* Under clients_lock.
StartRecord(t) ==
  /\ At(t, "start")
  /\ IF Me(t) \in recording
     THEN Goto(t, <<>>) /\ UNCHANGED list
     ELSE /\ recording' = recording \cup {Me(t)}
          /\ rec_count' = rec_count + 1
          /\ Goto(t, IF rec_count = 0 THEN <<"reset", "lock_cap", "open">> ELSE <<>>)
          /\ UNCHANGED <<clients, busy, freed>>
  /\ UNCHANGED <<slots, hw, sockets, reader, io_client, io_snap, io_todo, prod, cnt>>

ResetSlots(t) ==
  /\ At(t, "reset") /\ slot_lock = NULL
  /\ cur_slot' = "slot0"
  /\ WriteOff(Slot)
  /\ Goto(t, <<>>)
  /\ UNCHANGED <<list, slot_lock, hw, sockets, reader, io_client, io_snap, io_todo, prod, cnt>>

OnList(c) == c \in recording

StopRecord(t) ==
  /\ At(t, "stop")
  /\ IF ~ OnList(Me(t))
     THEN Goto(t, <<>>) /\ UNCHANGED list
     ELSE /\ recording' = recording \ {Me(t)}
          /\ rec_count' = rec_count - 1
          /\ Goto(t, IF rec_count = 1 THEN <<"lock_cap", "close">> ELSE <<>>)
          /\ UNCHANGED <<clients, busy, freed>>
  /\ UNCHANGED <<slots, hw, sockets, reader, io_client, io_snap, io_todo, prod, cnt>>

\* cam_start_recording and cam_stop_recording: cam_stop_locked ends the
\* session first, then AImageReader_delete waits for the callback under way.
LockCap(t) ==
  /\ At(t, "lock_cap") /\ cap_lock = NULL
  /\ cap_lock' = t
  /\ capture' = FALSE
  /\ Goto(t, <<>>)
  /\ UNCHANGED <<list, slots, sockets, reader, io_client, io_snap, io_todo, prod, cnt>>

OpenCamera(t) ==
  /\ At(t, "open") /\ Reader("idle")
  /\ \/ capture' = TRUE /\ UNCHANGED failures
     \/ failures < MaxFailures /\ failures' = failures + 1 /\ UNCHANGED capture
  /\ cap_lock' = NULL
  /\ Goto(t, <<>>)
  /\ UNCHANGED <<list, slots, sockets, reader, io_client, io_snap, io_todo, prod, frames,
                 switches, losses>>

CloseCamera(t) ==
  /\ At(t, "close") /\ Reader("idle")
  /\ cap_lock' = NULL
  /\ Goto(t, <<>>)
  /\ UNCHANGED <<list, slots, capture, sockets, reader, io_client, io_snap, io_todo, prod, cnt>>

RecordStep(t) ==
  StartRecord(t) \/ ResetSlots(t) \/ StopRecord(t) \/ LockCap(t) \/ OpenCamera(t) \/ CloseCamera(t)

-----------------------------------------------------------------------------
(* io_thread_func                                                          *)

Readable(cs) == {<<c, "ctrl">> : c \in {d \in cs : ctrl[d] # <<>>}}
                  \cup {<<c, "stream">> : c \in {d \in cs : done[d] # <<>>}}

\* snapshot_clients and poll.  A round in which nothing is readable lets the
\* clients go after 500 ms and is left out.
IoPoll ==
  /\ At("io", "loop") /\ Readable(clients) # {}
  /\ io_snap' = clients /\ io_todo' = Readable(clients)
  /\ Hold(clients)
  /\ Goto("io", <<"dispatch">>)
  /\ UNCHANGED <<clients, recording, rec_count, freed, slots, hw, sockets, reader, io_client,
                 prod, cnt>>

IoRelease ==
  /\ At("io", "dispatch") /\ io_todo = {}
  /\ Drop(io_snap)
  /\ io_snap' = {} /\ io_client' = NULL
  /\ Goto("io", <<"loop">>)
  /\ UNCHANGED <<clients, recording, rec_count, freed, slots, hw, sockets, reader, io_todo,
                 prod, cnt>>

\* A client's control message is read before its stream message.
IoCtrl(c) ==
  /\ At("io", "dispatch") /\ <<c, "ctrl">> \in io_todo
  /\ io_todo' = io_todo \ {<<c, "ctrl">>}
  /\ io_client' = c
  /\ ctrl' = [ctrl EXCEPT ![c] = Tail(@)]
  /\ Goto("io", <<IF Head(ctrl[c]) = "START_RECORD" THEN "start" ELSE "stop", "dispatch">>)
  /\ UNCHANGED <<list, slots, hw, ready, done, reader, io_snap, prod, cnt>>

\* CAM_STREAM_DONE: a count of 0 is left alone, the last one wakes the reader.
IoDone(c) ==
  /\ At("io", "dispatch") /\ slot_lock = NULL
  /\ <<c, "stream">> \in io_todo /\ <<c, "ctrl">> \notin io_todo
  /\ io_todo' = io_todo \ {<<c, "stream">>}
  /\ done' = [done EXCEPT ![c] = Tail(@)]
  /\ LET s == Head(done[c]) IN
       IF slot_pending[s] > 0
       THEN /\ slot_pending' = [slot_pending EXCEPT ![s] = @ - 1]
            /\ reader' = IF Reader("sleep") /\ slot_pending[s] = 1
                         THEN [reader EXCEPT !.pc = "wait"] ELSE reader
            /\ UNCHANGED written_off
       ELSE /\ written_off' = [written_off EXCEPT ![s] = IF @ > 0 THEN @ - 1 ELSE 0]
            /\ UNCHANGED <<slot_pending, reader>>
  /\ UNCHANGED <<list, cur_slot, slot_lock, hw, ctrl, ready, stack, io_client, io_snap, prod, cnt>>

IoStep == IoPoll \/ IoRelease \/ RecordStep("io")
            \/ \E c \in Client : IoCtrl(c) \/ IoDone(c)

-----------------------------------------------------------------------------
(* camera_free_resource, camera_release_client: the client's own threads   *)

FreeResource(c) ==
  /\ At(c, "free")
  /\ IF c \in clients THEN Hold({c}) /\ Goto(c, <<"stop", "put">>)
                      ELSE UNCHANGED busy /\ Goto(c, <<>>)
  /\ UNCHANGED <<clients, recording, rec_count, freed, slots, hw, sockets, reader, io_client,
                 io_snap, io_todo, prod, cnt>>

PutClient(c) ==
  /\ At(c, "put")
  /\ Drop({c})
  /\ Goto(c, <<>>)
  /\ UNCHANGED <<clients, recording, rec_count, freed, slots, hw, sockets, reader, io_client,
                 io_snap, io_todo, prod, cnt>>

\* nativeDestroy, after the client's threads have been joined.
ReleaseClient(c) ==
  /\ c \in clients \cap Mortal /\ stack[c] = <<>> /\ losses < MaxLosses
  /\ losses' = losses + 1
  /\ clients' = clients \ {c}
  /\ stack' = [stack EXCEPT ![c] = <<"stop", "destroy">>]
  /\ producer' = [producer EXCEPT ![c] = "none"] /\ told' = [told EXCEPT ![c] = FALSE]
  /\ UNCHANGED <<recording, rec_count, busy, freed, slots, hw, sockets, reader, io_client,
                 io_snap, io_todo, frames, switches, failures>>

\* Mutant: the client is destroyed at once.
NoneBusyUnasked(c) == TRUE
NoneBusy(c) == busy[c] = 0

DestroyClient(c) ==
  /\ At(c, "destroy") /\ NoneBusy(c)
  /\ freed' = freed \cup {c}
  /\ ctrl' = [ctrl EXCEPT ![c] = <<>>]
  /\ ready' = [ready EXCEPT ![c] = <<>>]
  /\ done' = [done EXCEPT ![c] = <<>>]
  /\ Goto(c, <<>>)
  /\ UNCHANGED <<clients, recording, rec_count, busy, slots, hw, reader, io_client, io_snap,
                 io_todo, prod, cnt>>

OwnerStep(c) == FreeResource(c) \/ PutClient(c) \/ DestroyClient(c) \/ RecordStep(c)

-----------------------------------------------------------------------------
(* anland_camera.c                                                         *)

\* update_recording: an application opens or closes the node.
UpdateRecording(c) ==
  /\ producer[c] = "idle" /\ switches < MaxSwitches
  /\ switches' = switches + 1
  /\ told' = [told EXCEPT ![c] = ~ @]
  /\ ctrl' = [ctrl EXCEPT ![c] = Append(@, IF told[c] THEN "STOP_RECORD" ELSE "START_RECORD")]
  /\ UNCHANGED <<list, slots, hw, ready, done, threads, producer, frames, losses, failures>>

\* handle_stream_msg, CAM_STREAM_READY: the slot is copied out, recording or
\* not, and then given back.
TakeReady(c) ==
  /\ producer[c] = "idle" /\ ready[c] # <<>>
  /\ producer' = [producer EXCEPT ![c] = Head(ready[c])]
  /\ ready' = [ready EXCEPT ![c] = Tail(@)]
  /\ UNCHANGED <<list, slots, hw, ctrl, done, threads, told, cnt>>

SendDone(c) ==
  /\ producer[c] \in Slot
  /\ done' = [done EXCEPT ![c] = Append(@, producer[c])]
  /\ producer' = [producer EXCEPT ![c] = "idle"]
  /\ UNCHANGED <<list, slots, hw, ctrl, ready, threads, told, cnt>>

\* The consumer tears the connection down; the sockets stay.
LoseProducer(c) ==
  /\ c \in Mortal /\ producer[c] # "none" /\ stack[c] = <<>> /\ losses < MaxLosses
  /\ losses' = losses + 1
  /\ producer' = [producer EXCEPT ![c] = "none"] /\ told' = [told EXCEPT ![c] = FALSE]
  /\ stack' = [stack EXCEPT ![c] = <<"free">>]
  /\ UNCHANGED <<list, slots, hw, sockets, reader, io_client, io_snap, io_todo, frames,
                 switches, failures>>

\* The next producer is handed the same sockets (camera_allocate_resource).
NewProducer(c) ==
  /\ producer[c] = "none" /\ c \in clients /\ stack[c] = <<>>
  /\ producer' = [producer EXCEPT ![c] = "idle"]
  /\ UNCHANGED <<list, slots, hw, sockets, threads, told, cnt>>

-----------------------------------------------------------------------------
Next ==
  \/ Frame \/ ReaderStep \/ Reclaim
  \/ IoStep
  \/ \E c \in Client :
       \/ OwnerStep(c) \/ ReleaseClient(c)
       \/ UpdateRecording(c) \/ TakeReady(c) \/ SendDone(c) \/ LoseProducer(c) \/ NewProducer(c)

Spec == Init /\ [][Next]_vars

\* Threads run, and a second passes.  Nothing obliges a producer.
FairSpec == Spec /\ WF_vars(ReaderStep \/ Reclaim) /\ WF_vars(IoStep)
                 /\ \A c \in Client : WF_vars(OwnerStep(c))

-----------------------------------------------------------------------------
(* Properties                                                              *)

\* camera_service.c:57-60, "concurrent reads are safe, overwrites are not":
\* a frame is packed over one that a producer copies out only if a reset or
\* the 1 s timeout has written off a DONE of that slot which is still to come.
NoOverwrite ==
  \A c \in Client : Reader("pack") /\ producer[c] = reader.slot => written_off[reader.slot] > 0

\* camera_release_client waits for busy = 0: no thread keeps a client that
\* was destroyed, whether the reader, the I/O thread or the client's own.
NoUseAfterFree ==
  freed \cap (reader.snap \cup io_snap \cup {c \in Client : At(c, "stop") \/ At(c, "put")}) = {}

\* No thread of the camera is anywhere but where it waits for work.
ThreadsHome ==
  Reader("idle") /\ At("io", "loop") /\ (\A c \in Client : stack[c] = <<>>)

\* A producer that never gives its slot back delays the reader, whoever waits
\* for the reader under cap_lock, and whoever waits for cap_lock or for the
\* I/O thread's hold on a client: once no more work comes in, all are home.
CameraReturns == []<>ThreadsHome

-----------------------------------------------------------------------------
(* What the comments say, and the code does not do.  Not among the runs. *)

\* camera_service.c:72 and 84, "guard start/stop races", "capture runs while
\* >0": when nobody starts or stops the camera and none failed to open, it
\* captures for whoever is on the recording list.
CaptureRuns == rec_count > 0 /\ failures = 0 /\ ThreadsHome => capture
=============================================================================
