------------------------------ MODULE Sideband ------------------------------
(***************************************************************************)
(* What the desktop tells the phone beside the frames: its window tree, the  *)
(* pointer capture a game asks for, and the processes to be scheduled in     *)
(* front.  KWin (anland_backend.cpp) reports changes while a consumer is      *)
(* there and everything again when one comes back; the phone's event thread  *)
(* (native_consumer.c) hands windows and captures to the UI thread           *)
(* (MainActivity.java) and scheduling to a helper run as root (settopapp.c). *)
(*                                                                         *)
(* A session is given up by whichever thread notices; on_fallback then runs  *)
(* in that thread, beside the others.  The channel itself, its locks and     *)
(* buffers are ConsumerLib.tla's, the hand-over Session.tla's.               *)
(***************************************************************************)
EXTENDS Naturals, Sequences, SequencesExt

CONSTANTS
  Win, Proc,  \* windows; processes that own windows
  Pid,        \* Window::pid
  Tree,       \* a process and its descendants
  Modes,      \* settings of the user: topapp_run_mode, 0 for not enabled
  NULL,
  MaxActs,    \* bound: changes on the desktop
  MaxFaults,  \* bound: sessions lost, by a timeout or with KWin itself, or stopped
  Room        \* bound: events and tasks under way when the desktop changes

ASSUME SidebandAssumption ==
  /\ Pid \in [Win -> Proc] /\ Tree \in [Proc -> SUBSET Proc]
  /\ \A p \in Proc : p \in Tree[p]
  /\ Modes \subseteq 0..2 /\ NULL \notin Win \cup Proc /\ "kwin" \notin Proc
  /\ MaxActs \in Nat /\ MaxFaults \in Nat /\ Room \in Nat

VARIABLES
  desk,     \* the workspace: [active, locked: its pointer is, title: of each open window]
  kwin,     \* AnlandBackend: [fallback, ids, nextId, capture, pid]
  link,     \* the present channel: "none", "deposited", "held", "bufs", "up" or "hup"
  wire,     \* output events not read yet
  notice,   \* FDS_READY not read yet
  con,      \* consumer_state: [running, fallback, event_running, anchor: topapp_root_pid # 0]
  mode,     \* topapp_run_mode, topapp_run_enable
  stack,    \* [thread -> what it runs next]
  hand,     \* the scheduling event its helper runs for, or NULL
  ui,       \* runOnUiThread: tasks posted
  app,      \* MainActivity: [forced: captureMouseForced, windows, active: LinuxWindowRegistry]
  boosted,  \* processes in the top-app groups
  carried,  \* those that were when the session's event thread started; NULL if the
            \* session began while on_fallback was still to end or one still ran
  acts, faults

phone == <<con, mode, stack, hand, ui, app, boosted, carried>>
cnt   == <<acts, faults>>
vars  == <<desk, kwin, link, wire, notice, phone, cnt>>

Thread == {"render", "event", "ui"}
At(t, l)     == stack[t] # <<>> /\ Head(stack[t]) = l
Goto(t, ls)  == stack' = [stack EXCEPT ![t] = ls \o Tail(@)]
Call(t, ls)  == stack' = [stack EXCEPT ![t] = ls \o @]
Return(t)    == Goto(t, <<>>)

\* A backend that has just started, in its first fallback.
NewBackend == [fallback |-> TRUE, ids |-> <<>>, nextId |-> 1, capture |-> FALSE, pid |-> NULL]
EmptyDesk  == [active |-> NULL, locked |-> FALSE, title |-> <<>>]

Init ==
  /\ desk = EmptyDesk /\ kwin = NewBackend
  /\ link = "none" /\ wire = <<>> /\ notice = FALSE
  /\ con = [running |-> TRUE, fallback |-> TRUE, event_running |-> FALSE, anchor |-> FALSE]
  /\ mode \in Modes
  /\ stack = [render |-> <<"connect">>, event |-> <<>>, ui |-> <<>>]
  /\ hand = NULL /\ ui = <<>>
  /\ app = [forced |-> FALSE, windows |-> <<>>, active |-> 0]
  /\ boosted = {} /\ carried = NULL
  /\ acts = 0 /\ faults = 0

Fault == faults < MaxFaults /\ faults' = faults + 1 /\ UNCHANGED acts

With(f, x, v)  == [y \in DOMAIN f \cup {x} |-> IF y = x THEN v ELSE f[y]]
Without(f, x)  == [y \in DOMAIN f \ {x} |-> f[y]]

-----------------------------------------------------------------------------
(* KWin's reports.                                                         *)

Var(b)         == [type |-> "VAR", value |-> b]
Sched(p, on)   == [type |-> "SCHED", pid |-> p, on |-> on]
Window(i, a, t, f) == [type |-> "WINDOW", id |-> i, action |-> a, title |-> t, focus |-> f]

\* sendWindowEvent, sendWindowFocus
Told(k, d, w, a) == Window(k.ids[w], a, d.title[w], d.active = w)
Focus(k, w) == IF w \in DOMAIN k.ids THEN <<Window(k.ids[w], "FOCUS", 0, TRUE)>> ELSE <<>>

Client(d) == IF d.active = NULL THEN NULL ELSE Pid[d.active]

\* Mutant: on for the next, then off for the client before.
SwitchOnFirst(p, q) ==
  (IF q = NULL THEN <<>> ELSE <<Sched(q, TRUE)>>) \o (IF p = NULL THEN <<>> ELSE <<Sched(p, FALSE)>>)
\* updateActiveScheduling: off for the client before, on for the next.
Switch(p, q) ==
  (IF p = NULL THEN <<>> ELSE <<Sched(p, FALSE)>>) \o (IF q = NULL THEN <<>> ELSE <<Sched(q, TRUE)>>)

\* The slots of windowActivated and of the lock's signals, in their order.
Activated(k, d) ==
  (IF d.locked = k.capture THEN <<>> ELSE <<Var(d.locked)>>)
  \o (IF Client(d) = k.pid THEN <<>> ELSE Switch(k.pid, Client(d)))
  \o (IF d.active = desk.active THEN <<>> ELSE Focus(k, d.active))

Follow(k, d) == [k EXCEPT !.capture = d.locked, !.pid = Client(d)]

\* push_output_event: nothing in fallback; the first that fails ends the session.
Report(k, evs) ==
  \/ (k.fallback \/ evs = <<>>) /\ kwin' = k /\ UNCHANGED wire
  \/ ~k.fallback /\ evs # <<>> /\ link = "up" /\ kwin' = k /\ wire' = wire \o evs
  \/ ~k.fallback /\ evs # <<>> /\ link # "up" /\ kwin' = [k EXCEPT !.fallback = TRUE] /\ UNCHANGED wire

Change(d, k, evs) ==
  /\ acts < MaxActs /\ acts' = acts + 1 /\ UNCHANGED faults
  /\ Len(wire) + Len(ui) <= Room
  /\ desk' = d /\ Report(k, evs)
  /\ UNCHANGED <<link, notice, phone>>

\* A window gets the focus, its pointer locked or not; or none has it.
Activate ==
  \E w \in DOMAIN desk.title \cup {NULL}, l \in BOOLEAN :
    LET d == [desk EXCEPT !.active = w, !.locked = l]
    IN  /\ w = NULL => ~l
        /\ d # desk
        /\ Change(d, Follow(kwin, d), Activated(kwin, d))

\* trackWindow; the window is activated once it is there.
TrackWindow(w) ==
  /\ w \notin DOMAIN desk.title
  /\ LET d0 == [desk EXCEPT !.title = With(@, w, 0)]
         d  == [d0 EXCEPT !.active = w, !.locked = FALSE]
         k  == [kwin EXCEPT !.ids = With(@, w, kwin.nextId), !.nextId = @ + 1]
     IN  Change(d, Follow(k, d), <<Told(k, d0, w, "CREATE")>> \o Activated(k, d))

\* untrackWindow, after the focus went elsewhere.
UntrackWindow(w) ==
  /\ w \in DOMAIN desk.title
  /\ \E v \in (DOMAIN desk.title \ {w}) \cup {NULL} :
       LET d == [active |-> IF desk.active = w THEN v ELSE desk.active,
                 locked |-> desk.locked /\ desk.active # w, title |-> Without(desk.title, w)]
       IN  Change(d, [Follow(kwin, d) EXCEPT !.ids = Without(@, w)],
                  Activated(kwin, d) \o <<Window(kwin.ids[w], "DESTROY", 0, FALSE)>>)

Retitle(w) ==
  /\ w \in DOMAIN desk.title
  /\ LET d == [desk EXCEPT !.title[w] = 1 - @]
     IN  Change(d, kwin, <<Told(kwin, d, w, "UPDATE")>>)

-----------------------------------------------------------------------------
(* KWin's sessions.                                                        *)

\* pickup_fds; receive_dmabufs then waits for the consumer.
PickUp ==
  /\ kwin.fallback /\ link = "deposited"
  /\ link' = "held" /\ notice' = TRUE
  /\ UNCHANGED <<desk, kwin, wire, phone, cnt>>

\* Mutant: tells the focus only.
SnapshotFocus(k, d) == Focus(k, d.active)
\* resendWindowSnapshot, in the order of the hash.
Snapshot(k, d) ==
  LET ws == SetToSeq(DOMAIN k.ids)
  IN  [i \in DOMAIN ws |-> Told(k, d, ws[i], "CREATE")] \o Focus(k, d.active)

\* The end of onReconnectTimer: all that the consumer forgot.
Reassert(k, d) ==
  <<Var(k.capture), Sched("kwin", TRUE)>> \o Switch(k.pid, Client(d)) \o Snapshot(k, d)

ConsumerReconnected ==
  /\ kwin.fallback /\ link = "bufs"
  /\ link' = "up"
  /\ kwin' = [kwin EXCEPT !.fallback = FALSE, !.pid = Client(desk)]
  /\ wire' = wire \o Reassert(kwin, desk)
  /\ UNCHANGED <<desk, notice, phone, cnt>>

\* enterFallback: the channel failed, or a wait on it was too long.
KWinLost ==
  /\ \/ ~kwin.fallback /\ link # "up" /\ UNCHANGED <<link, cnt>>
     \/ /\ IF kwin.fallback THEN link \in {"held", "bufs"} ELSE link = "up"
        /\ link' = "hup" /\ Fault
  /\ kwin' = [kwin EXCEPT !.fallback = TRUE]
  /\ UNCHANGED <<desk, wire, notice, phone>>

\* KWin dies with its clients and is started again.  The helper finds a dead
\* anchor for what is under way.
KWinRestarts ==
  /\ Fault
  /\ desk' = EmptyDesk /\ kwin' = NewBackend
  /\ link' = IF link \in {"held", "bufs", "up"} THEN "hup" ELSE link
  /\ boosted' = {} /\ carried' = NULL
  /\ IF At("event", "set") THEN hand' = NULL /\ Return("event") ELSE UNCHANGED <<hand, stack>>
  /\ UNCHANGED <<wire, notice, con, mode, ui, app>>

KWin ==
  \/ Activate \/ (\E w \in Win : TrackWindow(w) \/ UntrackWindow(w) \/ Retitle(w))
  \/ PickUp \/ ConsumerReconnected \/ KWinLost \/ KWinRestarts

-----------------------------------------------------------------------------
(* enter_fallback and on_fallback, in the thread that noticed.             *)

EnterFallback(t) ==
  /\ At(t, "fallback")
  /\ IF con.fallback
     THEN Return(t) /\ UNCHANGED <<con, link, wire>>
     ELSE /\ con' = [con EXCEPT !.fallback = TRUE]
          /\ link' = "deposited" /\ wire' = <<>>
          /\ Goto(t, <<"restore", "java">>)
  /\ UNCHANGED <<desk, kwin, notice, mode, hand, ui, app, boosted, carried, cnt>>

\* topapp_restore_tree: the anchor under the lock, the helper after it.
RestoreTree(t) ==
  /\ At(t, "restore")
  /\ con' = [con EXCEPT !.anchor = FALSE]
  /\ Goto(t, IF con.anchor THEN <<"su_restore">> ELSE <<>>)
  /\ UNCHANGED <<desk, kwin, link, wire, notice, mode, hand, ui, app, boosted, carried, cnt>>

HelperRestores(t) ==
  /\ At(t, "su_restore")
  /\ boosted' = {}
  /\ Return(t)
  /\ UNCHANGED <<desk, kwin, link, wire, notice, con, mode, hand, ui, app, carried, cnt>>

\* onFallback: runOnUiThread posts, except in the UI thread itself.  Then the
\* event thread is told to stop: not joined, it may be this one.
TellJavaAndStop(t) ==
  /\ At(t, "java")
  /\ IF t = "ui" THEN app' = [app EXCEPT !.forced = FALSE] /\ UNCHANGED ui
                 ELSE ui' = Append(ui, [type |-> "RESET"]) /\ UNCHANGED app
  /\ con' = [con EXCEPT !.event_running = FALSE]
  /\ Return(t)
  /\ UNCHANGED <<desk, kwin, link, wire, notice, mode, hand, boosted, carried, cnt>>

Library(t) ==
  EnterFallback(t) \/ RestoreTree(t) \/ HelperRestores(t) \/ TellJavaAndStop(t)

-----------------------------------------------------------------------------
(* Render thread.                                                          *)

\* do_connect, which the loop repeats until it succeeds.
Connect ==
  /\ At("render", "connect")
  /\ IF con.running
     THEN link' = "deposited" /\ con' = [con EXCEPT !.fallback = TRUE] /\ Goto("render", <<"loop">>)
     ELSE Return("render") /\ UNCHANGED <<link, con>>
  /\ UNCHANGED <<desk, kwin, wire, notice, mode, hand, ui, app, boosted, carried, cnt>>

\* Another thread is in enter_fallback or on_fallback.
InFallbackCb ==
  \E t \in {"event", "ui"}, l \in {"restore", "su_restore", "java"} : At(t, l)

\* The head of the loop: the end, FDS_READY, or a frame that never comes.
Loop ==
  /\ At("render", "loop")
  /\ \/ ~con.running /\ Return("render") /\ UNCHANGED <<con, notice, carried, cnt>>
     \/ con.running /\ con.fallback /\ notice /\ notice' = FALSE
          /\ con' = [con EXCEPT !.fallback = FALSE]
          /\ carried' = (IF con.event_running \/ InFallbackCb THEN NULL ELSE boosted)
          /\ Call("render", <<"push_dmabufs", "discover", "start">>) /\ UNCHANGED cnt
     \/ con.running /\ ~con.fallback /\ (IF link = "hup" THEN UNCHANGED cnt ELSE Fault)
          /\ Call("render", <<"fallback">>) /\ UNCHANGED <<con, notice, carried>>
  /\ UNCHANGED <<desk, kwin, link, wire, mode, hand, ui, app, boosted>>

PushDmabufs ==
  /\ At("render", "push_dmabufs")
  /\ Goto("render", IF link = "hup" THEN <<"fallback">> ELSE <<>>)
  /\ link' = IF link = "held" THEN "bufs" ELSE link
  /\ UNCHANGED <<desk, kwin, wire, notice, con, mode, hand, ui, app, boosted, carried, cnt>>

\* on_exit_fallback: topapp_discover_root finds the holder of the other end,
\* if there is one and su lets it; in mode 2 it moves the whole tree.
DiscoverRoot ==
  /\ At("render", "discover")
  /\ \/ UNCHANGED <<con, boosted>>
     \/ /\ mode # 0 /\ link \in {"bufs", "up"}
        /\ con' = [con EXCEPT !.anchor = TRUE]
        /\ boosted' = IF mode = 2 THEN Proc \cup {"kwin"} ELSE boosted
  /\ Return("render")
  /\ UNCHANGED <<desk, kwin, link, wire, notice, mode, hand, ui, app, carried, cnt>>

StartEventThread ==
  /\ At("render", "start")
  /\ carried' = IF carried = NULL THEN NULL ELSE boosted
  /\ \/ con.event_running /\ Return("render") /\ UNCHANGED con
     \/ /\ ~con.event_running /\ stack["event"] = <<>>      \* join_event_thread
        /\ con' = [con EXCEPT !.event_running = TRUE]
        /\ stack' = [stack EXCEPT !["render"] = Tail(@), !["event"] = <<"poll">>]
  /\ UNCHANGED <<desk, kwin, link, wire, notice, mode, hand, ui, app, boosted, cnt>>

RenderStep ==
  Connect \/ Loop \/ PushDmabufs \/ DiscoverRoot \/ StartEventThread \/ Library("render")

-----------------------------------------------------------------------------
(* Event thread.                                                           *)

EventEnds ==
  /\ At("event", "poll") /\ ~con.event_running
  /\ Return("event")
  /\ UNCHANGED <<desk, kwin, link, wire, notice, con, mode, hand, ui, app, boosted, carried, cnt>>

\* A hangup comes before what was written earlier.
PollHangup ==
  /\ At("event", "poll") /\ con.event_running /\ ~con.fallback /\ link = "hup"
  /\ Call("event", <<"fallback">>)
  /\ UNCHANGED <<desk, kwin, link, wire, notice, con, mode, hand, ui, app, boosted, carried, cnt>>

\* topapp_handle_scheduling_event copies the anchor and runs the helper.
Scheduling(e) ==
  IF mode = 1 /\ con.anchor
  THEN hand' = e /\ Goto("event", <<"set", "poll">>) ELSE UNCHANGED <<hand, stack>>

\* nativeSetConsumerVar and nativeLinuxWindowEvent post to the UI thread.
HandleEvent ==
  /\ At("event", "poll") /\ con.event_running /\ ~con.fallback /\ link = "up" /\ wire # <<>>
  /\ wire' = Tail(wire)
  /\ LET e == Head(wire) IN
     IF e.type = "SCHED" THEN Scheduling(e) /\ UNCHANGED ui
     ELSE /\ Len(ui) <= Room \/ stack["ui"] # <<>>
          /\ ui' = Append(ui, e)
          /\ UNCHANGED <<hand, stack>>
  /\ UNCHANGED <<desk, kwin, link, notice, con, mode, app, boosted, carried, cnt>>

Subtree(p) == IF p = "kwin" THEN {p} ELSE Tree[p]

HelperSets ==
  /\ At("event", "set")
  /\ boosted' = IF hand.on THEN boosted \cup Subtree(hand.pid) ELSE boosted \ Subtree(hand.pid)
  /\ hand' = NULL /\ Return("event")
  /\ UNCHANGED <<desk, kwin, link, wire, notice, con, mode, ui, app, carried, cnt>>

EventStep == EventEnds \/ PollHangup \/ HandleEvent \/ HelperSets \/ Library("event")

-----------------------------------------------------------------------------
(* UI thread.                                                              *)

\* LinuxWindowRegistry.apply
Apply(e) ==
  IF e.action = "DESTROY"
  THEN [app EXCEPT !.windows = Without(@, e.id), !.active = IF @ = e.id THEN 0 ELSE @]
  ELSE [app EXCEPT !.windows = IF e.action # "FOCUS" THEN With(@, e.id, e.title)
                               ELSE IF e.id \in DOMAIN @ THEN @ ELSE With(@, e.id, NULL),
                   !.active = IF e.focus THEN e.id ELSE @]

\* onFallback and nativeSetConsumerVar, once they run.
Regressed == [app EXCEPT !.forced = FALSE]
Forced(v) == [app EXCEPT !.forced = v]

RunTask ==
  /\ stack["ui"] = <<>> /\ ui # <<>> /\ ui' = Tail(ui)
  /\ app' = CASE Head(ui).type = "RESET"  -> Regressed
              [] Head(ui).type = "VAR"    -> Forced(Head(ui).value)
              [] Head(ui).type = "WINDOW" -> Apply(Head(ui))
  /\ UNCHANGED <<desk, kwin, link, wire, notice, con, mode, stack, hand, boosted, carried, cnt>>

\* nativeSend*: an input event finds the channel gone.
SendFails ==
  /\ stack["ui"] = <<>> /\ ~con.fallback /\ link = "hup"
  /\ Call("ui", <<"fallback">>)
  /\ UNCHANGED <<desk, kwin, link, wire, notice, con, mode, hand, ui, app, boosted, carried, cnt>>

\* nativeStop: the render thread is joined, then the event thread, and only
\* then are boosts undone and the context freed.
NativeStop ==
  /\ stack["ui"] = <<>> /\ con.running
  /\ Fault
  /\ con' = [con EXCEPT !.running = FALSE]
  /\ Call("ui", <<"join_render", "join_event", "restore", "disconnect">>)
  /\ UNCHANGED <<desk, kwin, link, wire, notice, mode, hand, ui, app, boosted, carried>>

JoinRender ==
  /\ At("ui", "join_render") /\ stack["render"] = <<>>
  /\ con' = [con EXCEPT !.event_running = FALSE]
  /\ Return("ui")
  /\ UNCHANGED <<desk, kwin, link, wire, notice, mode, hand, ui, app, boosted, carried, cnt>>

JoinEvent ==
  /\ At("ui", "join_event") /\ stack["event"] = <<>>
  /\ Return("ui")
  /\ UNCHANGED <<desk, kwin, link, wire, notice, con, mode, hand, ui, app, boosted, carried, cnt>>

Disconnect ==
  /\ At("ui", "disconnect")
  /\ link' = "none" /\ wire' = <<>> /\ notice' = FALSE
  /\ con' = [con EXCEPT !.fallback = TRUE]
  /\ Return("ui")
  /\ UNCHANGED <<desk, kwin, mode, hand, ui, app, boosted, carried, cnt>>

\* nativeConfigure and nativeStart, with the settings as they are now.
NativeStart ==
  /\ stack["ui"] = <<>> /\ ~con.running
  /\ con' = [con EXCEPT !.running = TRUE]
  /\ mode' \in Modes
  /\ stack' = [stack EXCEPT !["render"] = <<"connect">>]
  /\ UNCHANGED <<desk, kwin, link, wire, notice, hand, ui, app, boosted, carried, cnt>>

UiStep ==
  \/ RunTask \/ SendFails \/ NativeStop \/ NativeStart \/ Disconnect
  \/ JoinRender \/ JoinEvent \/ Library("ui")

-----------------------------------------------------------------------------
Next == KWin \/ RenderStep \/ EventStep \/ UiStep

Spec == Init /\ [][Next]_vars

-----------------------------------------------------------------------------
(* Properties.                                                             *)

\* A session with its event thread, all reports read and acted upon.
Settled ==
  /\ ~kwin.fallback /\ ~con.fallback /\ link = "up" /\ wire = <<>>
  /\ con.event_running /\ stack = [render |-> <<"loop">>, event |-> <<"poll">>, ui |-> <<>>]
  /\ ui = <<>>

\* The capture and the boosts end as the desktop has them now, whatever
\* changed while nobody listened and whoever was tearing the session before
\* down: KWin and the focused client are in front, and nobody else is who was
\* not before.  (Boosts: of a session that did not overlap with
\* the end of the one before.)
OverridesApplied ==
  Settled =>
    /\ app.forced = desk.locked
    /\ mode = 1 /\ con.anchor /\ carried # NULL =>
         /\ {"kwin", Client(desk)} \ {NULL} \subseteq boosted
         /\ boosted \subseteq carried \cup {"kwin"} \cup (IF desk.active = NULL THEN {} ELSE Tree[Client(desk)])

\* Every window KWin has is known by its id with its present title, and the
\* focused one as the active one, after sessions and KWins that came and went.
WindowsMirrored ==
  Settled =>
    /\ \A w \in DOMAIN desk.title :
         kwin.ids[w] \in DOMAIN app.windows /\ app.windows[kwin.ids[w]] = desk.title[w]
    /\ desk.active # NULL => app.active = kwin.ids[desk.active]

-----------------------------------------------------------------------------
(* What the comments say, and the code does not do.  Not among the runs.   *)

\* LinuxWindowRegistry.java:8, "In-process mirror of the KWin top-level tree".
NoGhostWindows ==
  Settled => DOMAIN app.windows = {kwin.ids[w] : w \in DOMAIN desk.title}

\* MainActivity.java:275, "every consumer var regresses to 0".
Idle == ui = <<>> /\ stack["event"] = <<>> /\ stack["ui"] = <<>> /\ stack["render"] = <<"loop">>
VarsRegress == Idle /\ con.fallback => ~app.forced

\* native_consumer.c:751, "Never carry a previous connection's foreground
\* boost into a reconnect".
NoBoostCarried == Idle /\ con.fallback => boosted = {}

\* Mode 2: the tree that was promoted stays so for the session.
TreePromoted == Settled /\ mode = 2 /\ con.anchor => boosted = Proc \cup {"kwin"}
=============================================================================
