------------------------------- MODULE Gamepad -------------------------------
(***************************************************************************)
(* The gamepad on the screen.  A window that is resumed gets an overlay        *)
(* (AnlandApplication.java) whose controls make a state (VirtualGamepadView    *)
(* .java); a bridge (GamepadBridge.java) starts a root helper for the window's *)
(* container and writes it the state; the helper (gamepad_helper.c) owns a     *)
(* uinput device, shows its node in the container, and plays the state on it.  *)
(*                                                                         *)
(* A state is the set of controls that are not at rest.  A bridge is known by  *)
(* its generation; what runs for one compares it under a lock, at each step    *)
(* that publishes something.                                                  *)
(***************************************************************************)
EXTENDS AppProcess, Sequences, FiniteSets, SequencesExt

CONSTANTS
  Window,      \* windows; each has a container of its own
  Boxed,       \* those whose container gets the node
  Control,     \* controls of the overlay
  Finger,      \* fingers on an overlay
  MaxBridges,  \* bound: bridges started
  NoOne

Bridge == 1 .. MaxBridges

ASSUME GamepadAssumption ==
  Boxed \subseteq Window /\ MaxBridges \in Nat /\ NoOne \notin Bridge \cup Window

VARIABLES
  screen,   \* [enabled: the preference, resumed: windows, display: activeDisplay]
  view,     \* [window -> its overlay: [on, at: pointerControls, held: controls not at rest]]
  gen,      \* the bridge of `generation', or NoOne after stop()
  started,  \* bridges started so far
  target,   \* [bridge -> window]
  fields,   \* [server, client, helper: the bridge whose it is; state: statePacket]
  runner,   \* [bridge -> where its thread is]
  watched,  \* bridges with a thread that waits for the helper's process
  doomed,   \* bridges whose su was destroyed: the helper may go with it
  listening,\* bridges whose server socket is open
  wire,     \* [bridge -> [link: "none", "backlog", "open", "closed", sent: states not read]]
  pad,      \* [bridge -> where the helper's main() is]
  event,    \* [bridge -> number of its device's node, or 0]
  found,    \* [bridge -> the number it takes for its own]
  plays,    \* [bridge -> the state of its device]
  box       \* [window -> numbers of the nodes in its container]

onScreen == <<screen, view>>
threads  == <<runner, watched, doomed>>
helpers  == <<pad, event, found, plays, box>>
padVars  == <<onScreen, gen, started, target, fields, threads, listening, wire, helpers>>

NoView == [on |-> FALSE, at |-> <<>>, held |-> {}]

PadInit ==
  /\ screen = [enabled |-> TRUE, resumed |-> {}, display |-> NoOne]
  /\ view = [w \in Window |-> NoView]
  /\ gen = NoOne /\ started = 0 /\ target = [b \in Bridge |-> NoOne]
  /\ fields = [server |-> NoOne, client |-> NoOne, helper |-> NoOne, state |-> {}]
  /\ runner = [b \in Bridge |-> "none"] /\ watched = {} /\ doomed = {} /\ listening = {}
  /\ wire = [b \in Bridge |-> [link |-> "none", sent |-> <<>>]]
  /\ pad = [b \in Bridge |-> "none"] /\ event = [b \in Bridge |-> 0]
  /\ found = [b \in Bridge |-> 0] /\ plays = [b \in Bridge |-> {}]
  /\ box = [w \in Window |-> {}]

-----------------------------------------------------------------------------
(* GamepadBridge.java, under its lock.                                       *)

Alive(b)  == pad[b] \notin {"none", "dead"}

\* A server socket that closes resets what it has not accepted.
ClosedServer(b, w) == IF b = NoOne \/ w[b].link # "backlog" THEN w ELSE [w EXCEPT ![b].link = "closed"]
ClosedClient(b, w) == IF b = NoOne THEN w ELSE [w EXCEPT ![b].link = "closed"]

\* writePacketLocked: the write fails, and the client is gone, once the helper has.
Reached(b) == b # NoOne /\ wire[b].link = "open" /\ Alive(b)
WritePacket(f, packet) ==
  IF Reached(f.client)
  THEN fields' = f /\ wire' = [wire EXCEPT ![f.client].sent = Append(@, packet)]
  ELSE fields' = [f EXCEPT !.client = NoOne] /\ wire' = ClosedClient(f.client, wire)

\* sendState: only what has changed is written.
SendState(s) ==
  IF s = fields.state THEN UNCHANGED <<fields, wire>> ELSE WritePacket([fields EXCEPT !.state = s], s)

\* stopLocked: the state at rest is the last that is written.  With s the state that the
\* view has sent just before.
StopLocked(s) ==
  LET c == fields.client
      said == (IF s = fields.state THEN <<>> ELSE <<s>>) \o <<{}>>
      w == IF Reached(c) THEN [wire EXCEPT ![c].sent = @ \o said] ELSE wire
  IN /\ wire' = ClosedServer(fields.server, ClosedClient(c, w))
     /\ listening' = listening \ {fields.server}
     /\ doomed' = doomed \cup ({fields.helper} \ {NoOne})
     /\ fields' = [server |-> NoOne, client |-> NoOne, helper |-> NoOne, state |-> {}]

Stop(s) ==
  /\ StopLocked(s) /\ gen' = NoOne
  /\ UNCHANGED <<started, target, runner, watched, helpers>>

Start(w) ==
  IF gen # NoOne /\ runner[gen] # "done" /\ target[gen] = w
  THEN UNCHANGED <<gen, started, target, fields, threads, listening, wire, helpers>>
  ELSE /\ started < MaxBridges /\ started' = started + 1 /\ gen' = started'
       /\ StopLocked(fields.state)
       /\ target' = [target EXCEPT ![started'] = w]
       /\ runner' = [runner EXCEPT ![started'] = "bind"]
       /\ UNCHANGED <<watched, helpers>>

-----------------------------------------------------------------------------
(* Main thread: AnlandApplication.java and GamepadSettingsActivity.java.     *)

PadIdle == UNCHANGED <<gen, started, target, fields, threads, listening, wire, helpers>>

\* onActivityResumed, applyGamepadOverlay; split screen has two windows resumed.
WindowResumed(w) ==
  /\ Main /\ w \notin screen.resumed /\ UNCHANGED app
  /\ screen' = [screen EXCEPT !.resumed = @ \cup {w}, !.display = w]
  /\ IF screen.enabled
     THEN view' = [view EXCEPT ![w].on = TRUE] /\ Start(w)
     ELSE view' = [view EXCEPT ![w] = NoView] /\ Stop(IF view[w].on THEN {} ELSE fields.state)

\* onActivityPaused; detachGamepadOverlay, with the view's neutralize.
WindowPaused(w) ==
  /\ Main /\ w \in screen.resumed /\ UNCHANGED app
  /\ IF w = screen.display
     THEN /\ screen' = [screen EXCEPT !.resumed = @ \ {w}, !.display = NoOne]
          /\ view' = [view EXCEPT ![w] = NoView]
          /\ Stop(IF view[w].on THEN {} ELSE fields.state)
     ELSE /\ screen' = [screen EXCEPT !.resumed = @ \ {w}]
          /\ UNCHANGED view /\ PadIdle

\* onActivityDestroyed; an overlay that is still there is detached.
WindowDestroyed(w) ==
  /\ Main /\ w \notin screen.resumed /\ view[w].on
  /\ view' = [view EXCEPT ![w] = NoView] /\ SendState({})
  /\ UNCHANGED <<app, screen, gen, started, target, threads, listening, helpers>>

PadEnabled ==
  /\ Main /\ UNCHANGED <<app, view>>
  /\ screen' = [screen EXCEPT !.enabled = ~@]
  /\ IF screen.enabled THEN Stop(fields.state) ELSE PadIdle

-----------------------------------------------------------------------------
(* VirtualGamepadView.java: onTouchEvent and updateControl.                  *)

Views(w, v) ==
  /\ Main /\ view[w].on /\ view' = [view EXCEPT ![w] = v] /\ SendState(v.held)
  /\ UNCHANGED <<app, screen, gen, started, target, threads, listening, helpers>>

OverlayDown(w) ==
  \E f \in Finger \ DOMAIN view[w].at, c \in Control :
    Views(w, [view[w] EXCEPT !.at = [g \in DOMAIN @ \cup {f} |-> IF g = f THEN c ELSE @[g]],
                             !.held = @ \cup {c}])
\* A control that another finger let go of is pressed again by a motion on it.
OverlayMove(w) ==
  /\ DOMAIN view[w].at # {}
  /\ Views(w, [view[w] EXCEPT !.held = @ \cup {view[w].at[f] : f \in DOMAIN view[w].at}])
OverlayUp(w) ==
  \E f \in DOMAIN view[w].at :
    Views(w, [view[w] EXCEPT !.at = [g \in DOMAIN @ \ {f} |-> @[g]], !.held = @ \ {view[w].at[f]}])
\* Mutant: the fingers are forgotten, the controls are not.
ForgetsFingers(w) == [view[w] EXCEPT !.at = <<>>]
Neutralized(w) == [view[w] EXCEPT !.at = <<>>, !.held = {}]
OverlayCancel(w) == DOMAIN view[w].at # {} /\ Views(w, Neutralized(w))

-----------------------------------------------------------------------------
(* GamepadBridge.java: runBridge and its watcher.                            *)

Runs(b, from, to) == app.up /\ runner[b] = from /\ runner' = [runner EXCEPT ![b] = to]
RunnerRest == <<app, onScreen, gen, started, target>>

\* A name of its own, which may fail; a bridge that is stopped by now closes it again.
ClaimServer(b) ==
  /\ IF gen = b
     THEN \/ /\ Runs(b, "bind", "exec") /\ fields' = [fields EXCEPT !.server = b]
             /\ listening' = listening \cup {b}
          \/ Runs(b, "bind", "finally") /\ UNCHANGED <<fields, listening>>
     ELSE Runs(b, "bind", "finally") /\ UNCHANGED <<fields, listening>>
  /\ UNCHANGED <<RunnerRest, watched, doomed, wire, helpers>>

ExecHelper(b) ==
  /\ \/ Runs(b, "exec", "own") /\ pad' = [pad EXCEPT ![b] = "create"]
     \/ Runs(b, "exec", "finally") /\ UNCHANGED pad
  /\ UNCHANGED <<RunnerRest, fields, watched, doomed, listening, wire, event, found, plays, box>>

OwnHelper(b) ==
  /\ IF gen = b THEN Runs(b, "own", "accept") /\ fields' = [fields EXCEPT !.helper = b]
                     /\ watched' = watched \cup {b}
                ELSE Runs(b, "own", "finally") /\ UNCHANGED <<fields, watched>>
  /\ UNCHANGED <<RunnerRest, doomed, listening, wire, helpers>>

AcceptPad(b) ==
  /\ \/ /\ wire[b].link = "backlog" /\ Runs(b, "accept", "join")
        /\ wire' = [wire EXCEPT ![b].link = "open"]
     \/ b \notin listening /\ Runs(b, "accept", "finally") /\ UNCHANGED wire
  /\ UNCHANGED <<RunnerRest, fields, watched, doomed, listening, helpers>>

\* Mutant: the generation is not looked at again.
StillMine(b) == TRUE
Mine(b) == gen = b

\* The state of now is what the helper hears first.
JoinPad(b) ==
  /\ Runs(b, "join", "finally")
  /\ IF Mine(b) THEN WritePacket([fields EXCEPT !.client = b], fields.state)
                ELSE wire' = ClosedClient(b, wire) /\ UNCHANGED fields
  /\ UNCHANGED <<RunnerRest, watched, doomed, listening, helpers>>

RunFinally(b) ==
  /\ Runs(b, "finally", "done")
  /\ IF gen = b THEN UNCHANGED <<listening, wire, doomed>>
     ELSE /\ listening' = listening \ {b} /\ wire' = ClosedServer(b, wire)
          /\ doomed' = IF pad[b] = "none" THEN doomed ELSE doomed \cup {b}
  /\ UNCHANGED <<RunnerRest, fields, watched, helpers>>

\* Its process has ended, whatever came of the helper.
Watcher(b) ==
  /\ app.up /\ b \in watched /\ (pad[b] = "dead" \/ b \in doomed) /\ watched' = watched \ {b}
  /\ IF gen = b /\ fields.client = NoOne
     THEN listening' = listening \ {b} /\ wire' = ClosedServer(b, wire)
     ELSE UNCHANGED <<listening, wire>>
  /\ UNCHANGED <<RunnerRest, fields, runner, doomed, helpers>>

BridgeStep(b) ==
  ClaimServer(b) \/ ExecHelper(b) \/ OwnHelper(b) \/ AcceptPad(b) \/ JoinPad(b)
  \/ RunFinally(b) \/ Watcher(b)

-----------------------------------------------------------------------------
(* gamepad_helper.c.                                                        *)

HelperRest == <<app, onScreen, gen, started, target, fields, threads, listening>>
Ends(b, to) == pad' = [pad EXCEPT ![b] = to]
\* UI_DEV_DESTROY, or the end of the process
Destroyed(b) == event' = [event EXCEPT ![b] = 0] /\ plays' = [plays EXCEPT ![b] = {}]

Numbers == {event[b] : b \in Bridge} \ {0}

CreateDevice(b) ==
  /\ pad[b] = "create"
  /\ \/ /\ Ends(b, "find")
        /\ event' = [event EXCEPT ![b] = CHOOSE n \in Bridge \ Numbers : \A m \in Bridge \ Numbers : n <= m]
     \/ Ends(b, "dead") /\ UNCHANGED event
  /\ UNCHANGED <<HelperRest, wire, found, plays, box>>

\* The first node whose device has the name; or none appears.
FindNode(b) ==
  /\ pad[b] = "find"
  /\ \/ /\ Ends(b, IF target[b] \in Boxed THEN "inject" ELSE "connect") /\ UNCHANGED <<event, plays>>
        /\ \E n \in Numbers : found' = [found EXCEPT ![b] = n]
     \/ Ends(b, "dead") /\ Destroyed(b) /\ UNCHANGED found
  /\ UNCHANGED <<HelperRest, wire, box>>

\* The container may not run; a node of that number that is there is as good.
InjectNode(b) ==
  /\ pad[b] = "inject"
  /\ \/ /\ found[b] \in Numbers /\ Ends(b, "connect") /\ UNCHANGED <<event, plays>>
        /\ box' = [box EXCEPT ![target[b]] = @ \cup {found[b]}]
     \/ Ends(b, "dead") /\ Destroyed(b) /\ UNCHANGED box
  /\ UNCHANGED <<HelperRest, wire, found>>

ConnectPad(b) ==
  /\ pad[b] = "connect"
  /\ IF app.up /\ b \in listening
     THEN Ends(b, "loop") /\ wire' = [wire EXCEPT ![b].link = "backlog"]
     ELSE Ends(b, "remove") /\ UNCHANGED wire
  /\ UNCHANGED <<HelperRest, event, found, plays, box>>

EmitState(b) ==
  /\ pad[b] = "loop" /\ wire[b].sent # <<>>
  /\ plays' = [plays EXCEPT ![b] = Head(wire[b].sent)]
  /\ wire' = [wire EXCEPT ![b].sent = Tail(@)]
  /\ UNCHANGED <<HelperRest, pad, event, found, box>>

\* The state at rest, and the end.
ReadEnds(b) ==
  /\ pad[b] = "loop" /\ wire[b].sent = <<>> /\ (wire[b].link = "closed" \/ ~app.up)
  /\ plays' = [plays EXCEPT ![b] = {}] /\ Ends(b, "remove")
  /\ UNCHANGED <<HelperRest, wire, event, found, box>>

RemoveNode(b) ==
  /\ pad[b] = "remove" /\ Ends(b, "destroy")
  /\ box' = IF target[b] \in Boxed THEN [box EXCEPT ![target[b]] = @ \ {found[b]}] ELSE box
  /\ UNCHANGED <<HelperRest, wire, event, found, plays>>

DestroyDevice(b) ==
  /\ pad[b] = "destroy" /\ Ends(b, "dead") /\ Destroyed(b)
  /\ UNCHANGED <<HelperRest, wire, found, box>>

\* With su's end, before it could clean up.
PadKilled(b) ==
  /\ b \in doomed /\ Alive(b) /\ Ends(b, "dead") /\ Destroyed(b)
  /\ UNCHANGED <<HelperRest, wire, found, box>>

PadHelperStep(b) ==
  CreateDevice(b) \/ FindNode(b) \/ InjectNode(b) \/ ConnectPad(b) \/ EmitState(b) \/ ReadEnds(b)
  \/ RemoveNode(b) \/ DestroyDevice(b)
-----------------------------------------------------------------------------
(* Properties.                                                              *)

\* Nothing runs on its own any more, until the user or the app's end sets it going again:
\* no BridgeStep and no PadHelperStep is possible.
Waits(b) ==
  /\ app.up => runner[b] \in {"none", "done"}
               \/ (runner[b] = "accept" /\ b \in listening /\ wire[b].link # "backlog")
  /\ app.up /\ b \in watched => pad[b] # "dead" /\ b \notin doomed
  /\ Alive(b) => pad[b] = "loop" /\ wire[b].sent = <<>> /\ wire[b].link # "closed" /\ app.up
Settled == \A b \in Bridge : Waits(b)

\* The device of the overlay does as its user does: it comes to show what the overlay last
\* said, and no button stays down on any device once no finger is on the overlay, or
\* another bridge, or none, has taken over (VirtualGamepadView.java, onTouchEvent;
\* GamepadBridge.java, writePacketLocked; gamepad_helper.c, main).
Untouched(b) == ~app.up \/ gen # b \/ \A w \in Window : DOMAIN view[w].at = {}
PadObeys ==
  Settled => \A b \in Bridge :
    /\ gen = b /\ fields.client = b /\ pad[b] = "loop" /\ app.up => plays[b] = fields.state
    /\ plays[b] # {} => ~Untouched(b)

\* Whatever the worker had launched or accepted when its bridge was stopped or replaced,
\* or the app died, the helper ends (GamepadBridge.java, runBridge).
HelpersEnd == Settled => \A b \in Bridge : Alive(b) => gen = b /\ app.up

-----------------------------------------------------------------------------
(* What a comment says, and the code does not do.  Not among the runs.        *)

\* GamepadBridge.java:17, the helper "exposes only that event node inside the selected
\* Droidspaces container": it takes the first device of the name, its predecessor's too.
PadExposed ==
  \A b \in Bridge : pad[b] = "loop" /\ target[b] \in Boxed => event[b] \in box[target[b]]
=============================================================================
