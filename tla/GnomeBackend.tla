---------------------------- MODULE GnomeBackend ----------------------------
(***************************************************************************)
(* The GNOME backend: meta-backend-anland.c and its transport, in Mutter's   *)
(* main loop.  Where KWin's backend has one way to lose a consumer, this     *)
(* one has three: the transport falls back, the transport is thrown away     *)
(* with the daemon's connection, or the consumer is only deactivated while   *)
(* the virtual monitor takes another mode, with its channels kept open.      *)
(* Each must leave the view of the stage usable and the way back open.       *)
(*                                                                         *)
(* The daemon and the consumer are reduced to what the backend sees of them; *)
(* Session.tla has them in full.  Mutter's monitor manager and frame clock   *)
(* are external.                                                           *)
(***************************************************************************)
EXTENDS Naturals, SequencesExt

CONSTANTS
  Sets,        \* names of sets of channels, used again when nobody holds one
  Sizes,       \* sizes of the consumer's buffers
  Rates,       \* refresh rates of its display
  Screens,     \* [size, rate] that apps announce when they connect
  MaxMishaps,  \* bound: events that change or end a session, buffers that are
               \* not imported, losses of the daemon, timeouts with an answer on its way
  NULL

ASSUME GnomeBackendAssumption ==
  /\ MaxMishaps \in Nat
  /\ Screens \subseteq [size : Sizes, rate : Rates] /\ Screens # {}
  /\ NULL \notin Sets \cup Sizes \cup Rates

Bufs == 1..2   \* buffers of a set; 0 is the placeholder framebuffer

VARIABLES
  b,       \* struct _MetaBackendAnland, its transport and the stage's view
  pc,      \* what the main loop is blocked in: "loop", "pickup", "receive", "activate"
  daemon,  \* is it up, the screen it knows, the deposit, a request that waits
  control, \* control_fd: "none", "up" or "hup"
  ctlq,    \* sets in FDS_READYs not read
  c,       \* the consumer: its set, what it is doing, its buffers
  told,    \* FDS_READY for the consumer's set not read
  chan,    \* [Sets -> what is unread in the set's channels]
  snag,    \* history: asking for the camera found the consumer gone
  mishaps  \* of the bound

vars == <<b, pc, daemon, control, ctlq, c, told, chan, snag, mishaps>>

Empty == [bufs |-> FALSE, ready |-> 0, fence |-> 0, input |-> <<>>]

\* A set's producer end is open while somebody carries it, its consumer end
\* while the consumer keeps it.
ProducerEnd(s) == s = b.set \/ s = daemon.offer \/ s \in Range(ctlq)
ConsumerEnd(s) == s # NULL /\ s = c.set
Linked == ConsumerEnd(b.set)

Mishap == mishaps < MaxMishaps /\ mishaps' = mishaps + 1

\* After init_post and setup: the daemon has told the screen, the timer runs.
Init ==
  /\ \E m \in Screens, s \in Sets :
       /\ b = [transport |-> "fallback", set |-> NULL, size |-> NULL, active |-> FALSE,
               timer |-> TRUE, info |-> m, mode |-> m, view |-> NULL, stage |-> FALSE,
               inhibited |-> FALSE, pending |-> FALSE, current |-> NULL,
               onscreen |-> 0, clock |-> "idle", halted |-> FALSE]
       /\ daemon = [up |-> TRUE, screen |-> m, offer |-> s, asked |-> FALSE]
       /\ c = [set |-> s, st |-> "offered", size |-> m.size, idx |-> 1, waits |-> FALSE]
  /\ pc = "loop" /\ control = "up" /\ ctlq = <<>> /\ told = FALSE
  /\ chan = [s \in Sets |-> Empty]
  /\ snag = FALSE /\ mishaps = 0

-----------------------------------------------------------------------------
(* The helpers of meta-backend-anland.c: functions of the backend.           *)

Inhibit(x) ==
  IF x.stage /\ ~x.inhibited THEN [x EXCEPT !.inhibited = TRUE, !.halted = TRUE] ELSE x
Uninhibit(x) ==
  IF x.stage /\ x.inhibited THEN [x EXCEPT !.inhibited = FALSE, !.halted = FALSE] ELSE x

\* release_stage_view.
ReleaseView(x) ==
  IF x.stage /\ ~x.active /\ ~x.pending THEN [Uninhibit(x) EXCEPT !.stage = FALSE] ELSE x

\* deactivate_consumer: the placeholder comes back, a frame that waits is let
\* go, the clock is held.
\* Mutant: the frame is not let go.
DeactivatePending(x) ==
  Inhibit([x EXCEPT
    !.onscreen = IF x.stage /\ x.current # NULL /\ @ = x.current THEN 0 ELSE @,
    !.active = FALSE, !.current = NULL, !.pending = FALSE])
Deactivate(x) ==
  Inhibit([x EXCEPT
    !.onscreen = IF x.stage /\ x.current # NULL /\ @ = x.current THEN 0 ELSE @,
    !.clock    = IF x.stage /\ x.pending THEN "idle" ELSE @,
    !.active = FALSE, !.current = NULL, !.pending = FALSE])

\* The transport's enter_fallback with on_transport_fallback; clear_transport.
Fallback(x) ==
  IF x.transport # "active" THEN x
  ELSE [Deactivate(x) EXCEPT !.transport = "fallback", !.timer = TRUE, !.set = NULL]
Cleared(x) == [Deactivate(x) EXCEPT !.transport = "none", !.set = NULL]

\* update_virtual_monitor: Mutter takes the mode up later.
SetMode(x) == [ReleaseView(x) EXCEPT !.mode = x.info]

-----------------------------------------------------------------------------
(* reconnect_cb.  It blocks in poll(), so it is cut where others may move.   *)

\* meta_anland_transport_connect
Connected == SetMode([b EXCEPT !.transport = "fallback", !.info = daemon.screen])

\* The start of a tick: connect again if need be, ask for descriptors.
Tick ==
  /\ pc = "loop" /\ b.timer
  /\ \/ /\ b.transport = "active" /\ pc' = "activate"
        /\ UNCHANGED <<b, daemon, control, ctlq>>
     \/ /\ b.transport = "fallback" /\ control = "hup"
        /\ b' = Cleared(b) /\ control' = "none" /\ ctlq' = <<>>
        /\ UNCHANGED <<pc, daemon>>
     \/ /\ b.transport = "fallback" /\ control = "up"
        /\ pc' = "pickup" /\ daemon' = [daemon EXCEPT !.asked = TRUE]
        /\ UNCHANGED <<b, control, ctlq>>
     \/ /\ b.transport = "none" /\ daemon.up /\ daemon.screen # NULL
        /\ b' = Connected
        /\ control' = "up" /\ pc' = "pickup"
        /\ daemon' = [daemon EXCEPT !.asked = TRUE]
        /\ UNCHANGED ctlq
  /\ UNCHANGED <<c, told, chan, snag, mishaps>>

\* pickup_fds after the request.
PickupReady ==
  /\ pc = "pickup" /\ control = "up" /\ ctlq # <<>>
  /\ b' = [b EXCEPT !.set = Head(ctlq)] /\ ctlq' = Tail(ctlq)
  /\ pc' = "receive"
  /\ UNCHANGED <<daemon, control, c, told, chan, snag, mishaps>>

PickupNoConsumer ==
  /\ pc = "pickup" /\ control = "up" /\ ctlq = <<>>
  /\ pc' = "loop"
  /\ UNCHANGED <<b, daemon, control, ctlq, c, told, chan, snag, mishaps>>

PickupDaemonLost ==
  /\ pc = "pickup" /\ control = "hup"
  /\ b' = Cleared(b) /\ control' = "none" /\ ctlq' = <<>> /\ pc' = "loop"
  /\ UNCHANGED <<daemon, c, told, chan, snag, mishaps>>

\* receive_buffers.
ReceiveBuffers ==
  /\ pc = "receive" /\ Linked /\ chan[b.set].bufs
  /\ b' = [b EXCEPT !.transport = "active", !.size = c.size]
  /\ chan' = [chan EXCEPT ![b.set].bufs = FALSE]
  /\ pc' = "activate"
  /\ UNCHANGED <<daemon, control, ctlq, c, told, snag, mishaps>>

ReceiveFails ==
  /\ pc = "receive"
  /\ IF Linked
     THEN ~chan[b.set].bufs /\ Mishap
     ELSE UNCHANGED mishaps
  /\ b' = [b EXCEPT !.set = NULL] /\ pc' = "loop"
  /\ UNCHANGED <<daemon, control, ctlq, c, told, chan, snag>>

\* activate_consumer.  The view must have the buffers' size and the display's
\* rate; until then the next tick tries again.
Matches == b.view # NULL /\ b.view = [size |-> b.size, rate |-> b.info.rate]
Held    == [b EXCEPT !.stage = @ \/ b.view # NULL]
Activated ==
  [Inhibit(Held) EXCEPT !.active = TRUE, !.current = NULL, !.timer = FALSE]

ActivateAnotherSize ==
  /\ pc = "activate" /\ b.size # b.info.size
  /\ b' = SetMode([b EXCEPT !.info.size = b.size]) /\ pc' = "loop"
  /\ UNCHANGED <<daemon, control, ctlq, c, told, chan, snag, mishaps>>

ActivateNotYet ==
  /\ pc = "activate" /\ b.size = b.info.size /\ ~Matches
  /\ b' = Held /\ pc' = "loop"
  /\ UNCHANGED <<daemon, control, ctlq, c, told, chan, snag, mishaps>>

\* Buffers that cannot be imported.
ActivateFails ==
  /\ pc = "activate" /\ b.size = b.info.size /\ Matches
  /\ Mishap
  /\ b' = Fallback(Held) /\ pc' = "loop"
  /\ UNCHANGED <<daemon, control, ctlq, c, told, chan, snag>>

\* The last thing it does is to ask for the camera.  If that finds the consumer
\* gone, the fallback comes before the source of this tick is given up.
Activate ==
  /\ pc = "activate" /\ b.size = b.info.size /\ Matches
  /\ b' = IF Linked THEN Activated ELSE [Fallback(Activated) EXCEPT !.timer = FALSE]
  /\ snag' = (snag \/ ~Linked) /\ pc' = "loop"
  /\ UNCHANGED <<daemon, control, ctlq, c, told, chan, mishaps>>

-----------------------------------------------------------------------------
(* Sources of an active consumer.                                           *)

\* The framebuffer of the selected buffer comes onto the view.
Selected(x) ==
  [x EXCEPT !.onscreen = IF x.current # c.idx THEN c.idx ELSE @, !.current = c.idx]

\* buffer_ready_source_dispatch; complete_pending_frame is part of it.
BufferReady ==
  /\ pc = "loop" /\ b.active /\ chan[b.set].ready > 0
  /\ chan' = [chan EXCEPT ![b.set].ready = 0]
  /\ b' = IF chan[b.set].ready # 1 THEN Fallback(b)
          ELSE Uninhibit(Selected([b EXCEPT !.pending = FALSE, !.clock = "scheduled"]))
  /\ UNCHANGED <<pc, daemon, control, ctlq, c, told, snag, mishaps>>

\* meta_anland_transport_notify_frame_done
Answered == [chan EXCEPT ![b.set].fence = @ + 1]

\* The frame clock's turn: the stage paints, on_stage_view_present answers.
Present ==
  /\ pc = "loop" /\ b.active /\ b.clock = "scheduled" /\ ~b.halted
  /\ IF Linked
     THEN /\ b' = Inhibit([b EXCEPT !.pending = TRUE, !.clock = "pending"])
          /\ chan' = Answered
     ELSE b' = Fallback([b EXCEPT !.clock = "idle"]) /\ UNCHANGED chan
  /\ UNCHANGED <<pc, daemon, control, ctlq, c, told, snag, mishaps>>

\* The same turn with nobody to present to.
PaintPlaceholder ==
  /\ pc = "loop" /\ ~b.active /\ b.clock = "scheduled" /\ ~b.halted
  /\ b' = [b EXCEPT !.clock = "idle"]
  /\ UNCHANGED <<pc, daemon, control, ctlq, c, told, chan, snag, mishaps>>

\* on_input_display_refresh: the consumer is deactivated, its channels stay.
DisplayRefresh(r) ==
  IF b.info.rate = r THEN b
  ELSE [SetMode([Deactivate(b) EXCEPT !.info.rate = r]) EXCEPT !.timer = TRUE]

\* input_source_dispatch.
InputDispatch ==
  /\ pc = "loop" /\ b.active
  /\ \/ ~Linked /\ b' = Fallback(b) /\ UNCHANGED chan
     \/ /\ Linked /\ chan[b.set].input # <<>>
        /\ LET ev == Head(chan[b.set].input)
           IN b' = IF ev = "bad" THEN Fallback(b) ELSE DisplayRefresh(ev)
        /\ chan' = [chan EXCEPT ![b.set].input = Tail(@)]
  /\ UNCHANGED <<pc, daemon, control, ctlq, c, told, snag, mishaps>>

\* update_stage: Mutter has another view for the monitor.  Whoever lost the
\* view has to look for a consumer again.
\* Mutant: only without a transport that works.
ResumesFallback == b.stage /\ b.transport = "fallback"
Resumes == b.stage /\ b.transport # "none"
UpdateStage ==
  /\ pc = "loop" /\ b.view # b.mode
  /\ LET d == IF b.active THEN Deactivate(b) ELSE b
     IN b' = [ReleaseView(d) EXCEPT !.view = b.mode, !.onscreen = 0, !.clock = "idle",
                !.timer = @ \/ Resumes]
  /\ UNCHANGED <<pc, daemon, control, ctlq, c, told, chan, snag, mishaps>>

\* The monitors change for a reason of their own; the view is built again.
MonitorsChanged ==
  /\ Mishap
  /\ pc = "loop" /\ b.view # NULL
  /\ LET d == IF b.active THEN Deactivate(b) ELSE b
     IN b' = [ReleaseView(d) EXCEPT !.onscreen = 0, !.clock = "idle",
                !.timer = @ \/ Resumes]
  /\ UNCHANGED <<pc, daemon, control, ctlq, c, told, chan, snag>>

-----------------------------------------------------------------------------
(* The daemon.                                                             *)

Deliver ==
  /\ daemon.up /\ daemon.asked /\ daemon.offer # NULL /\ control = "up"
  /\ ctlq' = Append(ctlq, daemon.offer)
  /\ told' = (told \/ daemon.offer = c.set)
  /\ daemon' = [daemon EXCEPT !.offer = NULL, !.asked = FALSE]
  /\ UNCHANGED <<b, pc, control, c, chan, snag, mishaps>>

DaemonDies ==
  /\ daemon.up /\ Mishap
  /\ daemon' = [up |-> FALSE, screen |-> NULL, offer |-> NULL, asked |-> FALSE]
  /\ control' = IF control = "up" THEN "hup" ELSE control
  /\ UNCHANGED <<b, pc, ctlq, c, told, chan, snag>>

DaemonReturns ==
  /\ ~daemon.up /\ daemon' = [daemon EXCEPT !.up = TRUE]
  /\ UNCHANGED <<b, pc, control, ctlq, c, told, chan, snag, mishaps>>

\* Another producer takes the role.
Evicted ==
  /\ daemon.up /\ control = "up" /\ Mishap
  /\ control' = "hup" /\ daemon' = [daemon EXCEPT !.asked = FALSE]
  /\ UNCHANGED <<b, pc, ctlq, c, told, chan, snag>>

-----------------------------------------------------------------------------
(* The consumer.                                                           *)

\* What outlives the consumer's ends: a count the backend has not read.
Left(ch) ==
  [s \in Sets |-> IF s = c.set THEN [Empty EXCEPT !.ready = IF s = b.set THEN ch[s].ready ELSE 0]
                  ELSE ch[s]]

\* create_shm and send_hello_fds: a new set; the old one's ends are closed.
Deposit(size) ==
  \E s \in Sets :
    /\ s = CHOOSE t \in Sets : ~ProducerEnd(t) /\ t # c.set
    /\ c' = [set |-> s, st |-> "offered", size |-> size, idx |-> 1, waits |-> FALSE]
    /\ daemon' = [daemon EXCEPT !.offer = s]
    /\ chan' = [Left(chan) EXCEPT ![s] = Empty]
    /\ told' = FALSE

Gone ==
  /\ c' = [c EXCEPT !.set = NULL, !.st = "gone", !.waits = FALSE]
  /\ chan' = Left(chan) /\ told' = FALSE

\* enter_fallback: with the daemon gone nothing can be deposited.
FallsBack ==
  /\ IF daemon.up /\ daemon.screen # NULL THEN Deposit(c.size)
     ELSE Gone /\ UNCHANGED daemon
  /\ UNCHANGED <<b, pc, control, ctlq, snag>>

ConsumerConnects ==
  /\ c.st = "gone" /\ daemon.up
  /\ \E m \in Screens, s \in Sets :
       /\ s = CHOOSE t \in Sets : ~ProducerEnd(t)
       /\ c' = [set |-> s, st |-> "offered", size |-> m.size, idx |-> 1, waits |-> FALSE]
       /\ daemon' = [daemon EXCEPT !.offer = s, !.screen = m]
       /\ chan' = [chan EXCEPT ![s] = Empty]
  /\ told' = FALSE
  /\ UNCHANGED <<b, pc, control, ctlq, snag, mishaps>>

ConsumerDies ==
  /\ c.st # "gone" /\ Gone
  /\ daemon' = [daemon EXCEPT !.offer = NULL]
  /\ UNCHANGED <<b, pc, control, ctlq, snag, mishaps>>

\* try_exit_fallback and its callback, which tells the rate of the display.
PushesBuffers ==
  /\ c.st = "offered" /\ told /\ ProducerEnd(c.set)
  /\ told' = FALSE
  /\ c' = [c EXCEPT !.st = "active"]
  /\ chan' = [chan EXCEPT ![c.set].bufs = TRUE]
  /\ UNCHANGED <<b, pc, daemon, control, ctlq, snag, mishaps>>

SendsEvent ==
  /\ c.st = "active" /\ Mishap
  /\ \E ev \in Rates \cup {"bad"} : chan' = [chan EXCEPT ![c.set].input = Append(@, ev)]
  /\ UNCHANGED <<b, pc, daemon, control, ctlq, c, told, snag>>

\* select_dmabuf; refresh_done.
SelectsBuffer ==
  /\ c.st = "active" /\ ~c.waits
  /\ c' = [c EXCEPT !.waits = TRUE, !.idx = 3 - @]
  /\ chan' = [chan EXCEPT ![c.set].ready = @ + 1]
  /\ UNCHANGED <<b, pc, daemon, control, ctlq, told, snag, mishaps>>

RefreshDone ==
  /\ c.st = "active" /\ c.waits /\ chan[c.set].fence > 0
  /\ c' = [c EXCEPT !.waits = FALSE]
  /\ chan' = [chan EXCEPT ![c.set].fence = @ - 1]
  /\ UNCHANGED <<b, pc, daemon, control, ctlq, told, snag, mishaps>>

\* A hangup, or a notice that comes when the set is gone again.
LosesProducer ==
  /\ \/ c.st = "active" /\ ~ProducerEnd(c.set)
     \/ c.st = "offered" /\ told /\ ~ProducerEnd(c.set)
  /\ FallsBack /\ UNCHANGED mishaps

\* Five seconds without an answer.
Stranded ==
  /\ chan[c.set].ready = 0 /\ chan[c.set].fence = 0
  /\ ~(b.set = c.set /\ b.active /\ b.clock = "scheduled" /\ ~b.halted)
RefreshTimeout ==
  /\ c.st = "active" /\ c.waits /\ ProducerEnd(c.set)
  /\ IF Stranded THEN UNCHANGED mishaps
     ELSE Mishap
  /\ FallsBack

-----------------------------------------------------------------------------
Loop ==
  \/ Tick \/ PickupReady \/ PickupNoConsumer \/ PickupDaemonLost
  \/ ReceiveBuffers \/ ActivateAnotherSize \/ ActivateNotYet \/ Activate
  \/ BufferReady \/ Present \/ PaintPlaceholder \/ InputDispatch \/ UpdateStage

Next ==
  \/ Loop \/ ReceiveFails \/ ActivateFails \/ MonitorsChanged
  \/ Deliver \/ DaemonDies \/ DaemonReturns \/ Evicted
  \/ ConsumerConnects \/ ConsumerDies \/ PushesBuffers \/ SendsEvent
  \/ SelectsBuffer \/ RefreshDone \/ LosesProducer \/ RefreshTimeout

Spec == Init /\ [][Next]_vars

\* Mutter's sources are dispatched, each of them; the daemon and a consumer
\* that is there do their part.  Nobody has to start or to come back.
Fairness ==
  /\ WF_vars(Tick) /\ WF_vars(PickupReady) /\ WF_vars(PickupNoConsumer) /\ WF_vars(PickupDaemonLost)
  /\ WF_vars(ReceiveBuffers) /\ WF_vars(ReceiveFails /\ ~Linked)
  /\ WF_vars(ActivateAnotherSize \/ ActivateNotYet \/ Activate)
  /\ SF_vars(BufferReady) /\ SF_vars(Present) /\ SF_vars(InputDispatch) /\ SF_vars(UpdateStage)
  /\ WF_vars(Deliver) /\ WF_vars(PushesBuffers) /\ WF_vars(SelectsBuffer) /\ WF_vars(RefreshDone)
  /\ WF_vars(LosesProducer) /\ WF_vars(RefreshTimeout /\ Stranded)

FairSpec == Spec /\ Fairness

-----------------------------------------------------------------------------
(* Properties.                                                             *)

\* A view the backend lets go of can be painted: its clock neither waits for a
\* frame nobody will complete nor stays held; and the view it keeps waits only
\* for a frame the backend knows of.
ViewsUsable ==
  /\ b.clock = "pending" => b.stage /\ b.pending
  /\ b.halted => b.stage /\ b.inhibited

\* Whatever was lost on the way (consumer, daemon, monitor, mode): if it ends
\* with a daemon and a consumer that stay, frames flow again and again; but for
\* the snag that NeverForsaken, below, is about.
\* (A consumer whose deposit ended with the daemon connects to no other.)
Offered == told \/ ProducerEnd(c.set)
Frame   == c.st = "active" /\ c.waits /\ chan[c.set].fence > 0
FramesFlow ==
  <>[](daemon.up /\ c.st # "gone" /\ (c.st = "offered" => Offered)) /\ []~snag => []<>Frame

-----------------------------------------------------------------------------
(* What the README says, and the code does not do.  Not among the runs.    *)

\* README.md:529, for the loss of a consumer: "release consumer resources, fire
\* callback, resume 200 ms reconnect timer".
NeverForsaken == pc = "loop" => b.active \/ b.timer
=============================================================================
