-------------------------------- MODULE Seat --------------------------------
(***************************************************************************)
(* The desktop's seat as the phone's own input moves it: the contacts, the   *)
(* buttons and the keys that are down, the text typed.  The UI thread sends  *)
(* one event after another (native_consumer.c, nativeSend...) and nothing    *)
(* answers, so an event is taken where it is sent, and a channel that fails  *)
(* with events on it is one that failed before them.  KWin's fallback lifts  *)
(* the contacts (anland_backend.cpp, enterFallback), and nothing else;       *)
(* Mutter, which passes contacts on a frame at a time, releases everything   *)
(* (meta-anland-input.c).                                                    *)
(***************************************************************************)
EXTENDS Integers, Sequences, SequencesExt

CONSTANTS
  Doings,     \* bound: in one run or another, [does: how much of each kind the user does,
              \* on: the compositor]
  MaxLosses   \* bound: sessions that end on their own and frames that are late

\* Contacts and buttons; keys of the floating keyboard, of the bar, of a hardware keyboard;
\* what the soft keyboard does; what is copied; and what becomes of the window.
Kinds == {"touch", "keys", "bar", "hard", "text", "copy", "window"}

ASSUME SeatAssumption ==
  Doings \subseteq [does: [Kinds -> Nat], on: {"kwin", "gnome"}] /\ MaxLosses \in Nat

VARIABLES
  shown,  \* the activity is resumed, its surface there: native code runs
  focused,  \* its window has the focus
  up,     \* a session carries input
  desk,   \* [on: the compositor; touch, held, text: what the desktop has; lifting, open: what the
          \*  frame not passed on yet lifts, and whether there is one (Mutter); torn: the last
          \*  call sent a contact down twice, or moved or lifted one that was not there; stale:
          \*  keys and buttons down since an earlier session; deaf: something sent was never taken]
  left,   \* of each kind, what the user may still do
  losses

seat == <<shown, up, desk, losses>>

Desk(on) == [on |-> on, touch |-> {}, lifting |-> {}, open |-> FALSE, held |-> {}, text |-> <<>>,
             torn |-> FALSE, stale |-> {}, deaf |-> FALSE]

SeatInit ==
  /\ shown = TRUE /\ focused = TRUE /\ up = FALSE /\ losses = 0
  /\ \E d \in Doings : left = d.does /\ desk = Desk(d.on)

Act(kind) == left[kind] > 0 /\ left' = [left EXCEPT ![kind] = @ - 1]

-----------------------------------------------------------------------------
(* Events, and what the desktop makes of one (processInputEvent; the text    *)
(* field that has the focus appends, and loses a character to a backspace;   *)
(* what letters and arrows do to it is no part of this).                     *)
(* Motion and scrolling change nothing.                                     *)

Touch(a, id)  == [type |-> "TOUCH", action |-> a, what |-> id]
Frame         == [type |-> "FRAME", action |-> "down", what |-> 0]
Press(k)      == [type |-> "PRESS", action |-> "down", what |-> k]
Release(k)    == [type |-> "PRESS", action |-> "up", what |-> k]
Tap(k)        == <<Press(k), Release(k)>>
Text(s)       == IF s = <<>> THEN <<>> ELSE <<[type |-> "TEXT", action |-> "down", what |-> s]>>

\* handle_touch; KWin's events count as they come.
TakeTouch(d, ev) ==
  LET odd == (ev.what \in d.touch) = (ev.action = "down")
  IN [d EXCEPT !.torn    = @ \/ odd,
               !.touch   = IF ev.action = "down" THEN @ \cup {ev.what}
                           ELSE IF ev.action = "up" /\ d.on = "kwin" THEN @ \ {ev.what} ELSE @,
               !.lifting = @ \cup {id \in {ev.what} \cap d.touch : ev.action = "up" /\ d.on = "gnome"},
               !.open    = @ \/ (d.on = "gnome" /\ ~odd)]

\* flush_touch_batch
TakeFrame(d) == [d EXCEPT !.touch = @ \ d.lifting, !.lifting = {}, !.open = FALSE]

\* handle_key and handle_pointer_button pass on what changes something.
TakePress(d, ev) ==
  IF d.on = "gnome" /\ (ev.what \in d.held) = (ev.action = "down") THEN d
  ELSE [d EXCEPT !.held  = IF ev.action = "down" THEN @ \cup {ev.what} ELSE @ \ {ev.what},
                 !.stale = @ \ {ev.what},
                 !.text  = CASE ev = Press("BACKSPACE") /\ @ # <<>> -> Front(@)
                             [] ev = Press("ENTER")               -> Append(@, "ENTER")
                             [] OTHER                             -> @]

\* handle_extended_input, sendTextInputToKWin
TakeText(d, ev) == [d EXCEPT !.text = @ \o ev.what]

Take(d, ev) ==
  CASE ev.type = "TOUCH" -> TakeTouch(d, ev)
    [] ev.type = "FRAME" -> TakeFrame(d)
    [] ev.type = "PRESS" -> TakePress(d, ev)
    [] OTHER             -> TakeText(d, ev)

\* What it has after each of these, and after all.
Trace(d, evs) ==
  LET t[n \in 0 .. Len(evs)] == IF n = 0 THEN d ELSE Take(t[n - 1], evs[n]) IN t
TakenBy(d, evs) == Trace(d, evs)[Len(evs)]
Taken(evs)      == TakenBy([desk EXCEPT !.torn = FALSE], evs)

\* cancel_touches
AllLifted(d) == [d EXCEPT !.touch = {}, !.lifting = {}, !.open = FALSE]

\* enterFallback; meta_anland_input_reset
Fallen(d) == [AllLifted(d) EXCEPT !.stale = IF d.on = "kwin" THEN d.held ELSE {},
                                  !.held  = IF d.on = "kwin" THEN @ ELSE {}]

\* touch_batch_timeout_cb fires after n of these: the frame is late.
TakenLate(evs, n) ==
  TakenBy([AllLifted(Taken(SubSeq(evs, 1, n))) EXCEPT !.deaf = TRUE], SubSeq(evs, n + 1, Len(evs)))

\* A call of the UI thread that sends these: all are taken or, without a session, none;
\* or the channel fails among them; or the call, or Mutter, takes too long over them.
Send(evs) ==
  /\ UNCHANGED shown
  /\ \/ /\ up /\ desk' = Taken(evs)
        /\ UNCHANGED <<up, losses>>
     \/ /\ ~up /\ desk' = [desk EXCEPT !.torn = FALSE, !.deaf = @ \/ evs # <<>>]
        /\ UNCHANGED <<up, losses>>
     \/ /\ up /\ losses < MaxLosses /\ losses' = losses + 1 /\ up' = FALSE
        /\ \E n \in 0 .. Len(evs) - 1 :
             desk' = Fallen([Taken(SubSeq(evs, 1, n)) EXCEPT !.deaf = TRUE])
     \/ /\ up /\ losses < MaxLosses /\ losses' = losses + 1 /\ UNCHANGED up
        /\ \E n \in {m \in 1 .. Len(evs) - 1 : Taken(SubSeq(evs, 1, m)).open} :
             desk' = TakenLate(evs, n)

\* nativeStop after these were sent: KWin reads them to the end, or meets the closed
\* channel from its own side first.
SendAndStop(evs) ==
  /\ up' = FALSE /\ UNCHANGED losses
  /\ desk' \in IF up THEN {Fallen([Taken(SubSeq(evs, 1, n)) EXCEPT !.deaf = @ \/ n < Len(evs)]) :
                             n \in 0 .. Len(evs)}
               ELSE {[desk EXCEPT !.torn = FALSE, !.deaf = @ \/ evs # <<>>]}

-----------------------------------------------------------------------------
\* The reconnect of Session.tla succeeds.
SessionOpens ==
  /\ shown /\ ~up /\ up' = TRUE /\ desk' = [desk EXCEPT !.torn = FALSE]
  /\ UNCHANGED <<shown, losses>>

\* The channel fails with nothing on it.
SessionLost ==
  /\ up /\ losses < MaxLosses /\ losses' = losses + 1
  /\ up' = FALSE /\ desk' = Fallen([desk EXCEPT !.torn = FALSE])
  /\ UNCHANGED shown
=============================================================================
