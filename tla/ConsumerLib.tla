----------------------------- MODULE ConsumerLib -----------------------------
(***************************************************************************)
(* The threads inside one Android consumer: libdisplay_consumer and its     *)
(* callbacks in native_consumer.c.  The render thread selects buffers and   *)
(* leaves fallback; the event thread serves the producer's requests; input  *)
(* threads push events.  Any of them may find the producer gone and tear    *)
(* the connection down while the others are inside the library.             *)
(*                                                                         *)
(* A thread's program counter is a stack of labels, its head the code it    *)
(* runs next; calls push labels and returns pop them.                       *)
(***************************************************************************)
EXTENDS Naturals, Sequences

CONSTANTS
  Input,      \* input threads (JNI)
  Service,    \* services registered with allocate_services
  Fd,         \* descriptor numbers the data channel may get
  NULL,       \* no descriptor, no lock holder
  MaxFaults,  \* bound: producers lost, frames late by 5 s
  MaxEvents   \* bound: events pushed by input threads

Thread == {"render", "event"} \cup Input

ASSUME ConsumerLibAssumption ==
  /\ Fd # {} /\ NULL \notin Fd \cup Thread
  /\ {"render", "event"} \cap Input = {}
  /\ MaxFaults \in Nat /\ MaxEvents \in Nat

VARIABLES
  \* struct display_ctx
  fallback, buffer_pending, state_lock, data_lock, data_needs_lock, services_sent_mask,
  data_fd,        \* the number of the channel's descriptor, or NULL
  shm_ptr,        \* whether the index page is mapped
  \* struct consumer_state, struct audio_bridge
  event_running,
  audio_ctx,      \* whether the audio threads have the context
  \* threads
  stack,
  op,             \* the send under way: parts left, descriptor number, lock taken, service
  \* the other side
  peer,           \* the set's other ends: "none", "deposited", "active", "rendering", "gone"
  notice,         \* an unread FDS_READY
  requests,       \* RESOURCES_REQUEST of each service: "none", "sent", "read", "answered"
  wire,           \* the last two parts written to the data channel
  faults, events

gate  == <<data_needs_lock, services_sent_mask>>
locks == <<state_lock, data_lock>>
conn  == <<fallback, buffer_pending, data_fd, shm_ptr>>
app   == <<event_running, audio_ctx>>
other == <<peer, notice, requests>>
cnt   == <<faults, events>>
vars  == <<gate, locks, conn, app, stack, op, other, wire, cnt>>

-----------------------------------------------------------------------------
At(t, l)      == stack[t] # <<>> /\ Head(stack[t]) = l
Becomes(t, ls) == stack' = [stack EXCEPT ![t] = ls]
Goto(t, ls)   == Becomes(t, ls \o Tail(stack[t]))
Return(t)     == Goto(t, <<>>)
Call(t, ls)   == Becomes(t, ls \o stack[t])

\* Writes to the data channel: an event is one part; clipboard text that
\* exceeds the socket buffer, buffers and descriptors take a second one.
Event     == <<"EVENT">>
Clipboard == <<"CLIP", "TEXT">>
Resource(n) == IF n = 0 THEN <<"NO_RES">> ELSE <<"RES", "FDS">>

Writes(t, parts) == op' = [op EXCEPT ![t].parts = parts]
Done(t) == op' = [op EXCEPT ![t].parts = <<>>, ![t].fd = NULL, ![t].locked = FALSE]

\* After do_connect: deposited, in fallback, no event thread yet.
Init ==
  /\ fallback = TRUE /\ buffer_pending = FALSE
  /\ state_lock = NULL /\ data_lock = NULL
  /\ data_needs_lock = (Service # {}) /\ services_sent_mask = {}
  /\ data_fd \in Fd /\ shm_ptr = TRUE
  /\ event_running = FALSE /\ audio_ctx = TRUE
  /\ stack = [t \in Thread |-> IF t = "render" THEN <<"loop">> ELSE <<>>]
  /\ op = [t \in Thread |-> [parts |-> <<>>, fd |-> NULL, locked |-> FALSE, service |-> NULL]]
  /\ peer = "deposited" /\ notice = FALSE
  /\ requests = [s \in Service |-> "none"]
  /\ wire = <<>>
  /\ faults = 0 /\ events = 0

Fault == faults < MaxFaults /\ faults' = faults + 1 /\ UNCHANGED events

-----------------------------------------------------------------------------
(* push_input_event, push_input_event_with_length, push_input_event_with_fds *)

Push(t) ==
  /\ At(t, "push")
  /\ IF fallback THEN Return(t) /\ Done(t) ELSE Goto(t, <<"gate">>) /\ UNCHANGED op
  /\ UNCHANGED <<gate, locks, conn, app, other, wire, cnt>>

\* The copy of the gate decides, whatever becomes of the gate.
\* Mutant: input events never lock.
NeedsLockNever == FALSE
NeedsLock == data_needs_lock

ReadGate(t) ==
  /\ At(t, "gate")
  /\ op' = [op EXCEPT ![t].locked = NeedsLock]
  /\ Goto(t, IF NeedsLock THEN <<"lock">> ELSE <<"read_fd">>)
  /\ UNCHANGED <<gate, locks, conn, app, other, wire, cnt>>

PushWithFds(t) ==
  /\ At(t, "push_with_fds")
  /\ IF fallback THEN Return(t) /\ Done(t)
                 ELSE Goto(t, <<"lock">>) /\ op' = [op EXCEPT ![t].locked = TRUE]
  /\ UNCHANGED <<gate, locks, conn, app, other, wire, cnt>>

LockData(t) ==
  /\ At(t, "lock")
  /\ data_lock = NULL /\ data_lock' = t
  /\ Goto(t, <<"read_fd">>)
  /\ UNCHANGED <<gate, state_lock, conn, app, op, other, wire, cnt>>

\* The end of a push: the lock is given back before enter_fallback.
EndPush(t, ok) ==
  /\ data_lock' = IF op[t].locked THEN NULL ELSE data_lock
  /\ Goto(t, IF ok THEN <<>> ELSE <<"enter_fallback">>)
  /\ Done(t)

ReadFd(t) ==
  /\ At(t, "read_fd")
  /\ IF data_fd = NULL
     THEN EndPush(t, FALSE)
     ELSE op' = [op EXCEPT ![t].fd = data_fd] /\ Goto(t, <<"send">>) /\ UNCHANGED data_lock
  /\ UNCHANGED <<gate, state_lock, conn, app, other, wire, cnt>>

\* A descriptor number is all the kernel looks at: it may be the channel's
\* again, or no longer.
Reaches(fd) == fd # NULL /\ fd = data_fd /\ peer \notin {"none", "gone"}

Append2(w, part) == IF Len(w) < 2 THEN Append(w, part) ELSE <<w[2], part>>

Send(t) ==
  /\ At(t, "send")
  /\ Reaches(op[t].fd)
  /\ wire' = Append2(wire, Head(op[t].parts))
  /\ requests' = IF Head(op[t].parts) \in {"FDS", "NO_RES"}
                 THEN [requests EXCEPT ![op[t].service] = "answered"] ELSE requests
  /\ IF Len(op[t].parts) = 1
     THEN EndPush(t, TRUE)
     ELSE Writes(t, Tail(op[t].parts)) /\ UNCHANGED <<data_lock, stack>>
  /\ UNCHANGED <<gate, state_lock, conn, app, peer, notice, cnt>>

SendFails(t) ==
  /\ At(t, "send")
  /\ ~Reaches(op[t].fd)
  /\ EndPush(t, FALSE)
  /\ UNCHANGED <<gate, state_lock, conn, app, other, wire, cnt>>

-----------------------------------------------------------------------------
(* enter_fallback and on_fallback, by whichever thread noticed.            *)

\* Mutant: whoever comes tears down.
AlreadyInNever == FALSE
AlreadyIn == fallback

EnterFallback(t) ==
  /\ At(t, "enter_fallback")
  /\ state_lock = NULL
  /\ IF AlreadyIn
     THEN Return(t) /\ UNCHANGED <<fallback, buffer_pending, state_lock>>
     ELSE /\ state_lock' = t
          /\ fallback' = TRUE
          /\ buffer_pending' = FALSE
          /\ Goto(t, <<"close">>)
  /\ UNCHANGED <<gate, data_lock, data_fd, shm_ptr, app, op, other, wire, cnt>>

Close(t) ==
  /\ At(t, "close")
  /\ data_lock = NULL /\ data_lock' = t
  /\ data_fd' = NULL /\ shm_ptr' = FALSE
  /\ peer' = "none"
  /\ Goto(t, <<"rebuild">>)
  /\ UNCHANGED <<gate, state_lock, fallback, buffer_pending, app, op, notice, requests, wire, cnt>>

Arm == data_needs_lock' = (Service # {}) /\ services_sent_mask' = {}

\* The new channel may get the old one's number.
Rebuild(t) ==
  /\ At(t, "rebuild")
  /\ \/ data_fd' \in Fd /\ shm_ptr' = TRUE /\ peer' = "deposited"
     \/ UNCHANGED <<data_fd, shm_ptr, peer>>      \* create_shm failed: no HELLO
  /\ wire' = <<>> /\ requests' = [s \in Service |-> "none"]
  /\ Arm
  /\ data_lock' = NULL /\ state_lock' = NULL
  /\ Goto(t, <<"on_fallback">>)
  /\ UNCHANGED <<fallback, buffer_pending, app, op, notice, cnt>>

\* stop_event_thread only signals: this may be the event thread.
\* Mutant: waits for its end.
StopAndJoin(t) ==
  /\ event_running' = FALSE
  /\ IF stack["event"] = <<>> THEN Return(t) ELSE UNCHANGED stack
StopEventThread(t) ==
  /\ event_running' = FALSE
  /\ Return(t)

\* on_fallback, outside the locks: audio is detached and Java told, then the
\* event thread is stopped.
OnFallback(t) ==
  /\ At(t, "on_fallback")
  /\ audio_ctx' = FALSE
  /\ StopEventThread(t)
  /\ UNCHANGED <<gate, locks, conn, op, other, wire, cnt>>

Library(t) ==
  \/ Push(t) \/ ReadGate(t) \/ PushWithFds(t) \/ LockData(t) \/ ReadFd(t)
  \/ Send(t) \/ SendFails(t)
  \/ EnterFallback(t) \/ Close(t) \/ Rebuild(t) \/ OnFallback(t)

-----------------------------------------------------------------------------
(* Render thread: select_dmabuf, try_exit_fallback, refresh_done.          *)

\* The head of the loop.  In fallback, without a notice, nothing happens
\* unless an earlier select left buffer_pending behind.
Select ==
  /\ At("render", "loop")
  /\ \/ ~fallback /\ Call("render", <<"write_index", "refresh_done">>) /\ UNCHANGED notice
     \/ fallback /\ notice /\ notice' = FALSE /\ Call("render", <<"publish", "selected">>)
     \/ fallback /\ ~notice /\ buffer_pending
          /\ Call("render", <<"refresh_done">>) /\ UNCHANGED notice
  /\ UNCHANGED <<gate, locks, conn, app, op, peer, requests, wire, cnt>>

\* Only this thread clears fallback, so it always wins.
Publish ==
  /\ At("render", "publish")
  /\ state_lock = NULL
  /\ fallback' = FALSE
  /\ Arm
  /\ Goto("render", <<"BUFS", "on_exit_fallback">>)
  /\ UNCHANGED <<locks, buffer_pending, data_fd, shm_ptr, app, op, other, wire, cnt>>

\* push_dmabufs_internal: header with the descriptors, then the infos, on
\* whatever channel there is.  on_exit_fallback runs either way.
PushDmabufs(part) ==
  /\ At("render", part)
  /\ IF Reaches(data_fd)
     THEN /\ wire' = Append2(wire, part)
          /\ Goto("render", IF part = "BUFS" THEN <<"INFOS">> ELSE <<>>)
          /\ peer' = IF part = "INFOS" /\ peer = "active" THEN "rendering" ELSE peer
     ELSE Goto("render", <<"enter_fallback">>) /\ UNCHANGED <<wire, peer>>
  /\ UNCHANGED <<gate, locks, conn, app, op, notice, requests, cnt>>

\* on_exit_fallback: refresh rate, event thread, clipboard (if it has text).
OnExitFallback ==
  /\ At("render", "on_exit_fallback")
  /\ Writes("render", Event)
  /\ Goto("render", <<"push", "start_event_thread", "clipboard_sync">>)
  /\ UNCHANGED <<gate, locks, conn, app, other, wire, cnt>>

StartEventThread ==
  /\ At("render", "start_event_thread")
  /\ \/ event_running /\ Return("render") /\ UNCHANGED event_running
     \/ /\ ~event_running /\ stack["event"] = <<>>       \* join_event_thread
        /\ event_running' = TRUE
        /\ stack' = [stack EXCEPT !["render"] = Tail(@), !["event"] = <<"poll">>]
  /\ UNCHANGED <<gate, locks, conn, audio_ctx, op, other, wire, cnt>>

ClipboardSync ==
  /\ At("render", "clipboard_sync")
  /\ \/ Writes("render", Clipboard) /\ Goto("render", <<"push">>)
     \/ Return("render") /\ UNCHANGED op
  /\ UNCHANGED <<gate, locks, conn, app, other, wire, cnt>>

\* select_dmabuf goes on if the exit succeeded.
Selected ==
  /\ At("render", "selected")
  /\ Goto("render", IF fallback THEN <<"refresh_done">> ELSE <<"write_index", "refresh_done">>)
  /\ UNCHANGED <<gate, locks, conn, app, op, other, wire, cnt>>

\* Unmapped meanwhile, the page faults and the process dies.
WriteIndex ==
  /\ At("render", "write_index")
  /\ IF shm_ptr THEN Goto("render", <<"pend">>) ELSE Becomes("render", <<"SIGSEGV">>)
  /\ UNCHANGED <<gate, locks, conn, app, op, other, wire, cnt>>

SetPending ==
  /\ At("render", "pend")
  /\ buffer_pending' = TRUE
  /\ Return("render")
  /\ UNCHANGED <<gate, locks, fallback, data_fd, shm_ptr, app, op, other, wire, cnt>>

\* refresh_done: the producer's message, nothing for 5 s, or a hangup.
RefreshDone ==
  /\ At("render", "refresh_done")
  /\ \/ ~buffer_pending /\ Return("render") /\ UNCHANGED <<buffer_pending, cnt>>
     \/ buffer_pending /\ peer = "rendering"
          /\ buffer_pending' = FALSE /\ Return("render") /\ UNCHANGED cnt
     \/ buffer_pending /\ (IF peer = "rendering" THEN Fault ELSE UNCHANGED cnt)
          /\ Goto("render", <<"enter_fallback">>) /\ UNCHANGED buffer_pending
     \/ buffer_pending /\ peer = "gone"
          /\ buffer_pending' = FALSE /\ Goto("render", <<"enter_fallback">>) /\ UNCHANGED cnt
  /\ UNCHANGED <<gate, locks, fallback, data_fd, shm_ptr, app, op, other, wire>>

RenderStep ==
  \/ Select \/ Publish \/ PushDmabufs("BUFS") \/ PushDmabufs("INFOS") \/ OnExitFallback
  \/ StartEventThread \/ ClipboardSync \/ Selected \/ WriteIndex \/ SetPending \/ RefreshDone
  \/ Library("render")

-----------------------------------------------------------------------------
(* Event thread.  Output events the library does not act on are left out.  *)

EventEnds ==
  /\ At("event", "poll")
  /\ ~event_running
  /\ Becomes("event", <<>>)
  /\ UNCHANGED <<gate, locks, conn, app, op, other, wire, cnt>>

PollHangup ==
  /\ At("event", "poll")
  /\ event_running /\ ~fallback /\ peer = "gone"
  /\ Call("event", <<"enter_fallback">>)
  /\ UNCHANGED <<gate, locks, conn, app, op, other, wire, cnt>>

\* handle_resource_request; an allocation that fails answers without
\* descriptors.
HandleResourceRequest(s) ==
  /\ At("event", "poll")
  /\ event_running /\ ~fallback
  /\ requests[s] = "sent" /\ requests' = [requests EXCEPT ![s] = "read"]
  /\ \E n \in 0..1 :
       op' = [op EXCEPT !["event"].parts = Resource(n), !["event"].service = s]
  /\ Call("event", <<"push_with_fds", "sent">>)
  /\ UNCHANGED <<gate, locks, conn, app, peer, notice, wire, cnt>>

ResourceSent ==
  /\ At("event", "sent")
  /\ Goto("event", IF fallback THEN <<>> ELSE <<"drop_gate">>)
  /\ UNCHANGED <<gate, locks, conn, app, op, other, wire, cnt>>

DropGate ==
  /\ At("event", "drop_gate")
  /\ data_lock = NULL
  /\ services_sent_mask' = services_sent_mask \cup {op["event"].service}
  /\ data_needs_lock' = (data_needs_lock /\ services_sent_mask' # Service)
  /\ Return("event")
  /\ UNCHANGED <<locks, conn, app, op, other, wire, cnt>>

EventStep ==
  \/ EventEnds \/ PollHangup \/ (\E s \in Service : HandleResourceRequest(s))
  \/ ResourceSent \/ DropGate \/ Library("event")

-----------------------------------------------------------------------------
\* nativeSend*, from a UI or input thread.
InputEvent(i) ==
  /\ stack[i] = <<>>
  /\ events < MaxEvents /\ events' = events + 1 /\ UNCHANGED faults
  /\ \E m \in {Event, Clipboard} : Writes(i, m)
  /\ Call(i, <<"push">>)
  /\ UNCHANGED <<gate, locks, conn, app, other, wire>>

\* The daemon hands the set to a producer and says so (Session.tla).
HandedOut ==
  /\ peer = "deposited"
  /\ peer' = "active" /\ notice' = TRUE
  /\ UNCHANGED <<gate, locks, conn, app, stack, op, requests, wire, cnt>>

\* The producer asks for a service once it has the buffers.
ProducerRequests(s) ==
  /\ peer = "rendering" /\ requests[s] = "none"
  /\ requests' = [requests EXCEPT ![s] = "sent"]
  /\ UNCHANGED <<gate, locks, conn, app, stack, op, peer, notice, wire, cnt>>

ProducerGone ==
  /\ peer \in {"active", "rendering"} /\ peer' = "gone" /\ Fault
  /\ UNCHANGED <<gate, locks, conn, app, stack, op, notice, requests, wire>>

Crashed == At("render", "SIGSEGV")

Next ==
  /\ ~Crashed
  /\ \/ RenderStep \/ EventStep
     \/ \E i \in Input : InputEvent(i) \/ Library(i)
     \/ HandedOut \/ ProducerGone
     \/ \E s \in Service : ProducerRequests(s)

Spec == Init /\ [][Next]_vars

\* Every thread that can go on does.
FairSpec ==
  /\ Spec
  /\ WF_vars(~Crashed /\ RenderStep)
  /\ WF_vars(~Crashed /\ EventStep)
  /\ \A i \in Input : WF_vars(~Crashed /\ Library(i))

-----------------------------------------------------------------------------
(* Properties.                                                             *)

\* The connection is torn down once per session: a set whose FDS_READY has
\* not been read is never thrown away, so no notice is about an older set.
DepositAnswered ==
  \A t \in Thread : At(t, "close") => peer \in {"active", "rendering", "gone"} /\ ~notice

\* No thread is lost in the library: the locks, the joined event thread and
\* the waits for the producer all come to an end.
ThreadsReturn == \A t \in Thread : []<>(Len(stack[t]) < 2 \/ Crashed)

Pairs(a, b) == Len(wire) = 2 /\ wire[1] = a => wire[2] = b

\* The write gate: as long as nothing failed, a service's descriptors follow
\* the event that announces them, whoever else writes.  (After a teardown a
\* thread may act on the gate of the session before.)
ResourcesWhole == faults = 0 => Pairs("RES", "FDS")

-----------------------------------------------------------------------------
(* What the comments say, and the code does not do.                        *)

\* A writer that races the teardown finds NULL and fails benignly.
NoNullWrite == ~Crashed

\* Between calls.
Quiet == \A t \in Thread : Len(stack[t]) < 2

\* on_exit_fallback starts the event thread, README.md:520: it runs in a session.
EventThreadRuns == Quiet /\ ~fallback /\ ~Crashed => event_running

\* In a session the audio threads have the context.
AudioAttached == Quiet /\ ~fallback /\ ~Crashed => audio_ctx
=============================================================================
