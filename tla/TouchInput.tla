----------------------------- MODULE TouchInput -----------------------------
(***************************************************************************)
(* Fingers and buttons, from the screen, a touchpad under pointer capture    *)
(* and a mouse, to the desktop: MainActivity.java routes them, Touchpad.java *)
(* makes a cursor's motion, clicks and scrolling out of contacts, and sends  *)
(* as touch what it does not take for one of its gestures.                   *)
(*                                                                         *)
(* Where a finger is, and how long, is a choice among the answers the code   *)
(* tells apart.  Nothing calls setMultiFingerGesturesDisabled, so what it    *)
(* would switch on is not here.  An uncaptured touchpad is a mouse, but for a *)
(* swipe or a pinch, of which Android makes contacts on the window; it gives  *)
(* the window the gesture of one device at a time.                           *)
(***************************************************************************)
EXTENDS Seat, FiniteSets

CONSTANTS
  Ids,        \* pointer ids, given out from the lowest for each device
  MaxFingers  \* bound: fingers on the devices together

ASSUME TouchAssumption == Ids \subseteq Nat /\ MaxFingers \in Nat

VARIABLES
  fingers,   \* [device -> ids of the contacts on it]
  swipe,     \* those of the screen are made of a swipe or a pinch
  hw,        \* [device -> buttons pressed]
  active,    \* activeTouchPointers
  tp,        \* screenTouchpad and capturedTouchpad
  saved,     \* savedBS
  latch,     \* lastTouchpadBtnPressed, or "none"
  padMode,   \* isTouchpadMode
  captured   \* the root view has the pointer capture

touch == <<fingers, swipe, hw, active, tp, saved, latch, padMode, captured>>

\* resetTouchpadState
Rest == [state |-> "idle", mayDrag |-> FALSE, multi |-> FALSE, mode |-> "undecided",
         declined |-> FALSE, fwd |-> {}]

TouchInit ==
  /\ fingers = [screen |-> {}, pad |-> {}] /\ hw = [mouse |-> {}, pad |-> {}] /\ swipe = FALSE
  /\ active = {} /\ tp = [screen |-> Rest, pad |-> Rest]
  /\ saved = {} /\ latch = "none" /\ padMode \in BOOLEAN /\ captured = FALSE

Each(Event(_), S) == LET s == SetToSeq(S) IN [i \in 1 .. Len(s) |-> Event(s[i])]
Touches(a, S)     == Each(LAMBDA id : Touch(a, id), S)
Framed(evs)       == IF evs = <<>> THEN evs ELSE Append(evs, Frame)

-----------------------------------------------------------------------------
(* Touchpad.java.  An event: its action, the contacts in it, the one it is    *)
(* about.  A result: the state after it, what was sent, whether it was taken. *)

Event(a, ids, id) == [act |-> a, ids |-> ids, id |-> id]
Result(p, out, handled) == [p |-> p, out |-> out, handled |-> handled]

Reset(p)    == [Rest EXCEPT !.fwd = p.fwd]
Undrag(p)   == IF p.state = "drag" THEN <<Release("left")>> ELSE <<>>

Decline(p) ==
  Result([p EXCEPT !.mayDrag = FALSE, !.declined = TRUE], Undrag(p), FALSE)

OnDown(p) ==
  {Result([Reset(p) EXCEPT !.state = "one", !.mayDrag = TRUE], <<>>, TRUE)}

OnPointerDown(p, n) ==
  LET q == [p EXCEPT !.multi = TRUE, !.mayDrag = FALSE] IN
  {IF n = 2 THEN Result([q EXCEPT !.state = "two", !.mode = "undecided"], Undrag(p), TRUE)
            ELSE Decline(q)}

\* It stays near, long enough for a drag or not, or is off.
OnOneMoves(p) ==
  {Result(p, <<>>, TRUE), Result([p EXCEPT !.mayDrag = FALSE], <<>>, TRUE)}
  \cup (IF p.mayDrag THEN {Result([p EXCEPT !.state = "drag", !.mayDrag = FALSE], <<Press("left")>>, TRUE)}
                     ELSE {})

\* classifyTwoFinger: still open, neither, or a scroll.
OnTwoMove(p) ==
  (IF p.mode = "undecided" THEN {Result(p, <<>>, TRUE), Decline(p)} ELSE {})
  \cup {Result([p EXCEPT !.mode = "scroll"], <<>>, TRUE)}

OnMove(p, n) ==
  IF n = 1 /\ ~p.multi THEN OnOneMoves(p)
  ELSE IF n = 2 /\ p.state = "two" THEN OnTwoMove(p) ELSE {Result(p, <<>>, TRUE)}

OnPointerUp(p, n) ==
  {Result(IF n # 2 THEN p
          ELSE [p EXCEPT !.multi = FALSE, !.mayDrag = FALSE, !.state = "one of two"], <<>>, TRUE)}

\* A drag ends; or a tap of one finger (the screen's second is sent as two) or of two; or
\* it was no tap.
OnUp(p) ==
  LET clicks == CASE p.state = "one"        -> {Tap("left")}
                  [] p.state = "one of two" -> {Tap("right")}
                  [] OTHER                  -> {}
  IN {Result(Reset(p), out, TRUE) : out \in {Undrag(p)} \cup clicks}

Recognize(p, e) ==
  LET n == Cardinality(e.ids) IN
  IF p.declined THEN {Result(IF e.act \in {"up", "cancel"} THEN Reset(p) ELSE p, <<>>, FALSE)}
  ELSE CASE e.act = "down"         -> OnDown(p)
         [] e.act = "pointer_down" -> OnPointerDown(p, n)
         [] e.act = "move"         -> OnMove(p, n)
         [] e.act = "pointer_up"   -> OnPointerUp(p, n)
         [] e.act = "up"           -> OnUp(p)
         [] OTHER                  -> {Result(Reset(p), Undrag(p), TRUE)}

\* Mutant: the fingers that were down already are never sent down.
ForwardNew(r, e) ==
  LET gone == IF e.act \in {"up", "pointer_up"} THEN {e.id} ELSE {}
      stay == e.ids \ gone
  IN [r EXCEPT !.p.fwd = (@ \cup stay) \ gone,
               !.out = @ \o Framed((IF e.act = "move" THEN Touches("move", stay) ELSE <<>>)
                                  \o (IF e.act = "pointer_down" THEN <<Touch("down", e.id)>> ELSE <<>>)
                                  \o Touches("up", gone \cap r.p.fwd))]
\* forwardAsTouch: down for those the desktop has not seen, motion, up.
Forward(r, e) ==
  LET gone == IF e.act \in {"up", "pointer_up"} THEN {e.id} ELSE {}
      stay == e.ids \ gone
  IN IF e.act = "cancel"
     THEN [r EXCEPT !.p.fwd = {}, !.out = @ \o Framed(Touches("up", r.p.fwd))]
     ELSE [r EXCEPT !.p.fwd = (@ \cup stay) \ gone,
                    !.out = @ \o Framed(Touches("down", stay \ r.p.fwd)
                              \o (IF e.act = "move" THEN Touches("move", stay \cap r.p.fwd) ELSE <<>>)
                              \o Touches("up", gone \cap r.p.fwd))]

\* onTouch
Pad(d, e) == {IF r.handled THEN r ELSE Forward(r, e) : r \in Recognize(tp[d], e)}

\* cancel
Cancel(p) == Result(Rest, Framed(Touches("up", p.fwd)) \o Undrag(p), TRUE)

-----------------------------------------------------------------------------
(* MainActivity.java: the screen.                                          *)

\* handleTouchEvent
TouchEvent(e) ==
  CASE e.act \in {"down", "pointer_down"} ->
         [active |-> active \cup {e.id}, out |-> <<Touch("down", e.id), Frame>>]
    [] e.act \in {"up", "pointer_up"} ->
         [active |-> active \ {e.id},
          out |-> Touches("down", {e.id} \ active) \o <<Touch("up", e.id), Frame>>]
    [] e.act = "move" ->
         [active |-> active \cup e.ids,
          out |-> Touches("down", e.ids \ active) \o Touches("move", e.ids \cap active) \o <<Frame>>]
    [] OTHER -> [active |-> {}, out |-> Touches("up", e.ids \cap active) \o <<Frame>>]

\* onTouchEvent, of the screen's gesture or, with w, of a swipe
Screen(e, w) ==
  /\ IF padMode /\ ~w
     THEN \E r \in Pad("screen", e) :
            tp' = [tp EXCEPT !.screen = r.p] /\ Send(r.out) /\ UNCHANGED active
     ELSE active' = TouchEvent(e).active /\ Send(TouchEvent(e).out) /\ UNCHANGED tp
  /\ swipe' = (w /\ fingers'.screen # {})
  /\ UNCHANGED <<hw, saved, latch, padMode, captured>>

Room(d)  == Cardinality(fingers.screen) + Cardinality(fingers.pad) < MaxFingers
           /\ fingers[d] # Ids
FreeId(d) == CHOOSE i \in Ids \ fingers[d] : \A j \in Ids \ fingers[d] : i <= j
WithNew(d) == fingers[d] \cup {FreeId(d)}
Downs(d) == Event(IF fingers[d] = {} THEN "down" ELSE "pointer_down", WithNew(d), FreeId(d))
Ups(d, id) == Event(IF fingers[d] = {id} THEN "up" ELSE "pointer_up", fingers[d], id)

ScreenDown ==
  /\ shown /\ Room("screen") /\ Act("touch")
  /\ fingers' = [fingers EXCEPT !.screen = WithNew("screen")]
  /\ \E w \in IF fingers.screen # {} THEN {swipe} ELSE {FALSE, padMode /\ ~captured} :
       Screen(Downs("screen"), w)

ScreenMoves ==
  /\ fingers.screen # {} /\ UNCHANGED <<fingers, left>>
  /\ Screen(Event("move", fingers.screen, 0), swipe)

ScreenUp ==
  /\ UNCHANGED left
  /\ \E id \in fingers.screen :
       fingers' = [fingers EXCEPT !.screen = @ \ {id}] /\ Screen(Ups("screen", id), swipe)

\* Android takes the gesture for itself.
ScreenCancel ==
  /\ fingers.screen # {} /\ UNCHANGED left
  /\ fingers' = [fingers EXCEPT !.screen = {}]
  /\ Screen(Event("cancel", fingers.screen, 0), swipe)

-----------------------------------------------------------------------------
(* MainActivity.java: buttons, and the touchpad under pointer capture.       *)

\* updateMouseButtonState
Change(bs) == Each(Release, saved \ bs) \o Each(Press, bs \ saved)

\* updateTouchpadButtonStateFromEvent: [latch, bs] after a press, a release or another event.
Buttons(a, pressed) ==
  IF a = "button_press" THEN {[latch |-> b, bs |-> {b}] : b \in {"left", "right"}}
  ELSE IF a = "button_release" THEN {[latch |-> "none", bs |-> {}]}
  ELSE {[latch |-> latch, bs |-> IF latch = "none" THEN pressed ELSE {latch}]}

\* handleCapturedTouchpadEvent; "plain" has neither scroll axes nor FLAG_CANCELED.
CapturedPad(e, how, pressed) ==
  \E r \in IF how # "plain" \/ e.act \in {"cancel", "button_press", "button_release"} \/ pressed # {}
           THEN {Cancel(tp.pad)} ELSE Pad("pad", e) :
  \E b \in IF e.act = "cancel" THEN {[latch |-> "none", bs |-> {}]} ELSE Buttons(e.act, pressed) :
    /\ tp' = [tp EXCEPT !.pad = r.p] /\ latch' = b.latch /\ saved' = b.bs
    /\ Send(r.out \o Change(b.bs))

\* The contacts or the button of the pad change; without the capture nobody is told.
PadEvent(e, how, ids, pressed) ==
  /\ fingers' = [fingers EXCEPT !.pad = ids] /\ hw' = [hw EXCEPT !.pad = pressed]
  /\ IF captured THEN CapturedPad(e, how, pressed) ELSE UNCHANGED <<tp, latch, saved, seat>>
  /\ UNCHANGED <<swipe, active, padMode, captured>>

PadDown  == Room("pad") /\ Act("touch") /\ PadEvent(Downs("pad"), "plain", WithNew("pad"), hw.pad)
PadMoves ==
  /\ fingers.pad # {} /\ UNCHANGED left
  /\ \E how \in {"plain", "scroll"} : PadEvent(Event("move", fingers.pad, 0), how, fingers.pad, hw.pad)
\* A lift, or a palm: the event of one that is not the last says so too.
PadUp ==
  /\ UNCHANGED left
  /\ \E id \in fingers.pad, how \in {"plain", "canceled"} :
       PadEvent(Ups("pad", id), how, fingers.pad \ {id}, hw.pad)
PadCancel ==
  /\ fingers.pad # {} /\ UNCHANGED left
  /\ PadEvent(Event("cancel", fingers.pad, 0), "plain", {}, hw.pad)
PadPress ==
  /\ hw.pad = {} /\ Act("touch")
  /\ PadEvent(Event("button_press", fingers.pad, 0), "plain", fingers.pad, {"left"})
PadRelease ==
  /\ hw.pad # {} /\ UNCHANGED left
  /\ PadEvent(Event("button_release", fingers.pad, 0), "plain", fingers.pad, {})

\* handleMouseEvent, handleCapturedPointerEvent and onGenericMotionEvent: any event but
\* hovering tells the buttons; a window that is not shown sees none.
MouseEvent(bs) ==
  /\ hw' = [hw EXCEPT !.mouse = bs]
  /\ IF shown THEN saved' = bs /\ Send(Change(bs)) ELSE UNCHANGED <<saved, seat>>
  /\ UNCHANGED <<fingers, swipe, active, tp, latch, padMode, captured>>

MousePress   == Act("touch") /\ \E b \in {"left", "right"} \ hw.mouse : MouseEvent(hw.mouse \cup {b})
MouseRelease == UNCHANGED left /\ \E b \in hw.mouse : MouseEvent(hw.mouse \ {b})
MouseMoves   == UNCHANGED left /\ shown /\ (captured \/ hw.mouse # {}) /\ MouseEvent(hw.mouse)
MouseCancel  ==
  /\ captured /\ UNCHANGED left
  /\ saved' = {} /\ Send(Change({}))
  /\ UNCHANGED <<fingers, swipe, hw, active, tp, latch, padMode, captured>>

-----------------------------------------------------------------------------
(* MainActivity.java: capture, and the activity.                            *)

\* releasePointerCapture, or dispatchPointerCaptureChanged: releaseAllMouseButtons and
\* resetCapturedTouchpadGesture.
LetGo == tp' = [tp EXCEPT !.pad = Cancel(@).p] /\ saved' = {} /\ latch' = "none"
LetGoSends == Change({}) \o Cancel(tp.pad).out

CaptureGained ==
  /\ shown /\ focused /\ ~captured /\ captured' = TRUE /\ UNCHANGED left
  /\ UNCHANGED <<fingers, swipe, hw, active, tp, saved, latch, padMode, seat>>

\* It is given up, by the Back key for one, and it is gone.
CaptureReleased ==
  /\ captured /\ UNCHANGED left /\ LetGo /\ Send(LetGoSends)
  /\ UNCHANGED <<fingers, swipe, hw, active, padMode, captured>>
CaptureLost ==
  /\ captured /\ captured' = FALSE /\ UNCHANGED left /\ LetGo /\ Send(LetGoSends)
  /\ UNCHANGED <<fingers, swipe, hw, active, padMode>>

\* onPause, or surfaceDestroyed, which leaves the contacts.
TouchPause ==
  /\ captured' = FALSE /\ LetGo /\ SendAndStop(LetGoSends) /\ active' \in {{}, active}
  /\ UNCHANGED <<fingers, swipe, hw, padMode>>

\* onResume; the setting is changed in an activity that covers this one.
TouchResume ==
  /\ padMode' \in IF fingers.screen = {} THEN BOOLEAN ELSE {padMode}
  /\ UNCHANGED <<fingers, swipe, hw, active, tp, saved, latch, captured>>

TouchStep ==
  \/ ScreenDown \/ ScreenMoves \/ ScreenUp \/ ScreenCancel
  \/ PadDown \/ PadMoves \/ PadUp \/ PadCancel \/ PadPress \/ PadRelease
  \/ MousePress \/ MouseRelease \/ MouseMoves \/ MouseCancel
  \/ CaptureGained \/ CaptureReleased \/ CaptureLost
=============================================================================
