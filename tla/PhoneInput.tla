----------------------------- MODULE PhoneInput -----------------------------
(***************************************************************************)
(* Everything a user does to the desktop through the phone's own window, in   *)
(* one activity that is paused and resumed, over a session that is lost and   *)
(* found: TouchInput.tla, SoftKeys.tla and HardKeys.tla on the seat of Seat.tla, and *)
(* Clipboard.tla, in runs of its own.                                       *)
(***************************************************************************)
EXTENDS HardKeys, Clipboard

VARIABLES
  straddled,  \* fingers that are down were shared by two devices, or were down without a session
              \* or over a frame that was late
  muddled     \* Caps or the right Shift changed under a letter that is down

vars == <<shown, focused, up, desk, left, losses, touch, soft, hard, clipVars, straddled, muddled>>

\* The contacts that the code takes the desktop to know.
Believed == active \cup tp.screen.fwd \cup tp.pad.fwd

AnyFinger == fingers.screen \cup fingers.pad # {}

Watch ==
  /\ straddled' = (\/ straddled /\ (AnyFinger \/ desk'.torn)
                   \/ fingers'.screen # {} /\ fingers'.pad # {}
                   \/ ~up' /\ Believed' # {}
                   \/ losses' # losses /\ (desk'.torn \/ Believed' # {}))
  /\ muddled' = (muddled \/ \E f \in DOMAIN vk.at \cap DOMAIN vk'.at :
                              vk.at[f] = "A" /\ (vk'.caps # vk.caps \/ vk'.shiftR # vk.shiftR))

-----------------------------------------------------------------------------
\* onPause or surfaceDestroyed: the capture is given up, the native side stops.
Pause ==
  /\ shown /\ shown' = FALSE /\ TouchPause /\ hard' \in {hard, [hard EXCEPT !.backUp = FALSE]}
  /\ UNCHANGED <<focused, left, soft>>

\* onResume or surfaceChanged: it starts, without a session.
Resume ==
  /\ ~shown /\ Act("window") /\ shown' = TRUE /\ TouchResume
  /\ up' = FALSE /\ UNCHANGED <<focused, desk, losses, soft, hard>>

\* surfaceChanged: the native side stops and starts, under the user's fingers.
SurfaceChanged ==
  /\ shown /\ Act("window") /\ SendAndStop(<<>>) /\ UNCHANGED <<shown, focused, touch, soft, hard>>

\* Bound: what the user does nothing to in a run is off.
Init ==
  /\ SeatInit /\ TouchInit /\ SoftInit /\ HardInit /\ ClipInit /\ straddled = FALSE /\ muddled = FALSE
  /\ padMode => left.touch > 0
  /\ vk.on => left.keys + left.bar > 0
  /\ hard.set \/ hard.opens => left.hard > 0

Next ==
  \/ ~phone.service /\ TouchStep /\ UNCHANGED <<focused, soft, hard>> /\ ClipFollows /\ Watch
  \/ ~phone.service /\ SoftStep /\ UNCHANGED <<focused, touch, hard>> /\ ClipFollows /\ Watch
  \/ HardStep /\ ClipFollows /\ Watch
  \/ UNCHANGED focused /\ ClipStep /\ UNCHANGED <<touch, soft, hard, straddled, muddled>>
  \/ FocusGained /\ UNCHANGED <<touch, soft, hard, straddled, muddled>>
  \/ (SessionOpens \/ SessionLost) /\ UNCHANGED <<focused, left, touch, soft, hard>> /\ ClipFollows /\ Watch
  \/ Resume /\ UNCHANGED clipVars /\ Watch
  \/ (Pause \/ SurfaceChanged) /\ ClipStops /\ Watch

Spec == Init /\ [][Next]_vars

-----------------------------------------------------------------------------
\* No contact stays on the desktop that no finger makes: through gestures begun as cursor
\* and handed over as touch, a capture that is lost, a pause, a session that is replaced
\* (Touchpad.java, forwardAsTouch and cancel; anland_backend.cpp, enterFallback;
\* meta-anland-input.c, flush_touch_batch).
NoStuckContact == desk.touch \subseteq fingers.screen \cup fingers.pad

\* A contact goes down once, then moves, then is lifted, whatever way its finger's events
\* took; except for fingers that were down while there was no session, when a frame was
\* late, or on both devices at once, which share their ids (MainActivity.java,
\* handleTouchEvent; Touchpad.java; meta-anland-input.c, cancel_touches).
TouchWellFormed == desk.torn => straddled

\* The contacts of the desktop are those of the user's fingers, and whole ones
\* (Touchpad.java, forwardAsTouch).
ContactsTrue == NoStuckContact /\ TouchWellFormed

\* What a finger, a gesture's button or a key presses is released when nothing is touched
\* any more; but for what a lost session left, for the Shift of a letter under which Caps
\* or the right Shift changed (sendKeyWithCaps looks at both again at the release), and for
\* keys the interceptor sent down and was not asked about when they were let go, in another
\* window or when it was off (KeyInterceptor.java, onKeyEvent).
Untouched == ~AnyFinger /\ hw.mouse \cup hw.pad = {} /\ DOMAIN vk.at = {} /\ hard.keys = {}
SeatQuiet ==
  Untouched => desk.held \subseteq desk.stale \cup hard.strayed \cup (IF muddled THEN {"ShiftL"} ELSE {})

\* As long as only the soft keyboard types and nothing is lost, the field holds what the
\* soft keyboard takes it to hold, whichever way it composes, commits, deletes and takes
\* words back (SystemIME.java, replaceComposing, setComposingRegion); but for lines that it
\* joins, as MirrorAccurate says, and for what it deletes while it composes: the code then
\* erases the end of the composed part, and still has that part as it was
\* (deleteSurroundingText, sendKeyEvent).
ImeText == ime.alone /\ ~desk.deaf /\ ~ime.tangled => desk.text = ime.doc

\* The mirror "stays accurate no matter which InputConnection method drove the change"
\* (SystemIME.java).  It does not hold: Enter drops the mirror, a Backspace takes the Enter
\* back, and a word of the line before it that the keyboard then composes again is not in
\* the mirror.  What replaces the word is appended to it.
MirrorAccurate == ime.alone /\ ~desk.deaf => desk.text = ime.doc
=============================================================================
