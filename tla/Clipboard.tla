------------------------------ MODULE Clipboard ------------------------------
(***************************************************************************)
(* One text on two clipboards.  Clipboard.java sends what the user copies on  *)
(* the phone and sets what the desktop sends; KWin (anland_backend.cpp) and    *)
(* Mutter (meta-anland-clipboard.c) do the same at the other end.  Each side   *)
(* remembers the text it dealt with last, so that nothing goes round.  On the  *)
(* phone the main, the event and the render thread take part.                *)
(***************************************************************************)
EXTENDS Seat, FiniteSets

CONSTANTS
  Copies,  \* texts
  NoText   \* an empty clipboard, and an empty text

ASSUME ClipboardAssumption ==
  NoText \notin Copies /\ Copies \cap {"none", "listen", "start", "sync"} = {}

VARIABLES
  phone,    \* [text: of Android's clipboard, or NoText; last: mLastSentClip; listening:
            \*  mClipListening; heard: the listener is to be called; service: there is one]
  events,   \* the event thread: [on: event_running; hand: what it is setting, or NoText]
  render,   \* on_exit_fallback: "none", "listen", "start", "sync", or the text it sends
  wire,     \* [in, out: texts on the data channel]
  board,    \* the desktop: [on: the compositor; text: of its selection; known:
            \*  m_clipboardText or cached_contents; pulls: transfers from the owner of the
            \*  selection under way]
  apart     \* a text was lost, or passed another on its way, and none has come through since

clipVars == <<phone, events, render, wire, board, apart>>

ClipInit ==
  /\ phone = [text |-> NoText, last |-> NoText, listening |-> FALSE, heard |-> FALSE,
              service |-> left.copy > 0]
  /\ events = [on |-> FALSE, hand |-> NoText] /\ render = "none"
  /\ wire = [in |-> <<>>, out |-> <<>>]
  /\ board = [on |-> desk.on, text |-> NoText, known |-> NoText, pulls |-> {}] /\ apart = FALSE

OnKWin == board.on = "kwin"

\* Under way to the phone, and to the desktop.
Inbound  == events.hand # NoText \/ wire.out # <<>> \/ board.pulls # {}
Outbound == wire.in # <<>> \/ render \in Copies

-----------------------------------------------------------------------------
(* The phone.                                                              *)

\* sendClipboard; nothing without a session.
SendClipboard(t) == wire' = IF up THEN [wire EXCEPT !.in = Append(@, t)] ELSE wire

\* What becomes of `apart` when the phone sends a text.  One thread may send between
\* another's reading and sending; on KWin, a second text on the way is enough; and one that
\* the desktop takes to have does nothing.
Sent(t) ==
  apart' = (\/ ~up \/ Inbound \/ render \in Copies \/ (OnKWin /\ wire.in # <<>>)
            \/ (apart /\ t = board.known))

\* pushClipboard: what is new is sent; Android hides the clipboard without the focus.
Push(p) ==
  IF focused' /\ p.text \notin {NoText, p.last}
  THEN /\ phone' = [p EXCEPT !.last = p.text] /\ SendClipboard(p.text) /\ Sent(p.text)
  ELSE phone' = p /\ UNCHANGED <<wire, apart>>

\* The user copies, here or in another window.
PhoneCopy ==
  /\ phone.service /\ Act("copy") /\ UNCHANGED <<seat, events, render, wire, board, apart>>
  /\ \E t \in Copies : phone' = [phone EXCEPT !.text = t, !.heard = @ \/ phone.listening]

\* clipListener
ListenerRuns ==
  /\ phone.heard /\ Push([phone EXCEPT !.heard = FALSE])
  /\ UNCHANGED <<seat, left, events, render, board>>

\* onWindowFocusChanged
\* Mutant: only the listener sends.
FocusOnly ==
  /\ shown /\ ~focused /\ focused' = TRUE
  /\ UNCHANGED <<seat, left, phone, events, render, wire, board, apart>>
FocusGained ==
  /\ shown /\ ~focused /\ focused' = TRUE /\ Push(phone)
  /\ UNCHANGED <<seat, left, events, render, board>>

\* nativeClipListening
RenderListens ==
  /\ render = "listen" /\ render' = "start" /\ phone' = [phone EXCEPT !.listening = TRUE]
  /\ UNCHANGED <<seat, left, events, wire, board, apart>>

\* start_event_thread: the earlier one is waited for.
RenderStarts ==
  /\ render = "start" /\ (events.on \/ events.hand = NoText)
  /\ render' = "sync" /\ events' = [events EXCEPT !.on = TRUE]
  /\ UNCHANGED <<seat, left, phone, wire, board, apart>>

\* nativeClipboardSync: whatever there is; it is read here and sent in a later step.
RenderReads ==
  /\ render = "sync"
  /\ IF focused /\ phone.text # NoText
     THEN render' = phone.text /\ phone' = [phone EXCEPT !.last = phone.text] /\ Sent(phone.text)
     ELSE render' = "none" /\ UNCHANGED <<phone, apart>>
  /\ UNCHANGED <<seat, left, events, wire, board>>
RenderSends ==
  /\ render \in Copies /\ SendClipboard(render) /\ render' = "none" /\ apart' = (apart \/ ~up)
  /\ UNCHANGED <<seat, left, phone, events, board>>

\* poll_output_event, by the event thread
Comes == up /\ events.on /\ events.hand = NoText /\ wire.out # <<>>

\* A text comes, is taken down, then set.  An empty one is passed over.
EventTakes ==
  LET t == Head(wire.out) IN
  /\ Comes
  /\ wire' = [wire EXCEPT !.out = Tail(@)] /\ events' = [events EXCEPT !.hand = t]
  /\ phone' = IF t = NoText THEN phone ELSE [phone EXCEPT !.last = t]
  /\ UNCHANGED <<seat, left, render, board, apart>>
EventSets ==
  /\ events.hand # NoText /\ events' = [events EXCEPT !.hand = NoText]
  /\ phone' = [phone EXCEPT !.text = events.hand, !.heard = @ \/ phone.listening]
  /\ UNCHANGED <<seat, left, render, wire, board, apart>>

-----------------------------------------------------------------------------
(* The desktop.                                                            *)

\* requestClipboardData, for one more reader
Drained(t) == IF up THEN board.pulls \cup {t} ELSE board.pulls

\* on_selection_owner_changed: Mutter waits for the latest only.
Asked(t) == IF OnKWin THEN Drained(t) ELSE {t}

\* Something on the desktop copies, and its owner is asked for the text.
DesktopCopy ==
  /\ phone.service /\ Act("copy") /\ UNCHANGED <<seat, phone, events, render, wire>>
  /\ \E t \in Copies :
       /\ board' = [board EXCEPT !.text = t, !.pulls = Asked(t)]
       /\ apart' = (\/ ~up \/ Outbound \/ (OnKWin /\ board.pulls # {})
                    \/ (apart /\ OnKWin /\ t = board.known))

\* sendClipboardToConsumer, send_contents
SendToConsumer(t) == wire' = IF up THEN [wire EXCEPT !.out = Append(@, t)] ELSE wire

\* The owner has answered; KWin has several readers at work, and passes over what it has.
PullEnds ==
  /\ apart' = (apart \/ ~up) /\ UNCHANGED <<seat, left, phone, events, render>>
  /\ \E t \in board.pulls :
       IF OnKWin /\ (~up \/ t = board.known)
       THEN board' = [board EXCEPT !.pulls = @ \ {t}] /\ UNCHANGED wire
       ELSE board' = [board EXCEPT !.pulls = @ \ {t}, !.known = t] /\ SendToConsumer(t)

\* It has not, in time: for KWin the text is empty.
PullFails ==
  /\ losses < MaxLosses /\ losses' = losses + 1 /\ apart' = TRUE
  /\ UNCHANGED <<shown, up, desk, left, phone, events, render>>
  /\ \E t \in board.pulls :
       IF OnKWin /\ up /\ board.known # NoText
       THEN board' = [board EXCEPT !.pulls = @ \ {t}, !.known = NoText] /\ SendToConsumer(NoText)
       ELSE board' = [board EXCEPT !.pulls = @ \ {t}] /\ UNCHANGED wire

\* poll_input_event
Arrives == up /\ wire.in # <<>>

\* meta_anland_clipboard_set_from_consumer
Owned(t) == [board EXCEPT !.text = t, !.known = t, !.pulls = IF OnKWin THEN Drained(t) ELSE {}]

\* sendClipboardToKWin.  KWin hears of its own selection as of any other.
DesktopTakes ==
  LET t == Head(wire.in) IN
  /\ Arrives /\ wire' = [wire EXCEPT !.in = Tail(@)]
  /\ board' = IF t = board.known THEN board ELSE Owned(t)
  /\ UNCHANGED <<seat, left, phone, events, render, apart>>

\* FocusGained is the window's.
ClipStep ==
  \/ PhoneCopy \/ ListenerRuns
  \/ RenderListens \/ RenderStarts \/ RenderReads \/ RenderSends \/ EventTakes \/ EventSets
  \/ DesktopCopy \/ PullEnds \/ PullFails \/ DesktopTakes

-----------------------------------------------------------------------------
(* Sessions.                                                               *)

\* meta_anland_clipboard_set_transport; what is on the channel goes with it.
Transport ==
  /\ board' = IF OnKWin THEN board ELSE [board EXCEPT !.pulls = {}]
  /\ wire' = [in |-> <<>>, out |-> <<>>]
  /\ apart' = (apart \/ wire.in # <<>> \/ wire.out # <<>> \/ board'.pulls # board.pulls)

\* The render thread makes the session, and is in on_exit_fallback then.
ClipOpens ==
  /\ render = "none" /\ render' = IF phone.service THEN "listen" ELSE "none"
  /\ Transport /\ UNCHANGED <<phone, events>>

\* on_fallback, on whichever thread.
ClipLoses ==
  /\ events' = [events EXCEPT !.on = FALSE] /\ phone' = [phone EXCEPT !.listening = FALSE]
  /\ Transport /\ UNCHANGED render

\* nativeStop, which waits for the threads.
ClipStops ==
  /\ render = "none" /\ events.hand = NoText /\ UNCHANGED render
  /\ events' = [events EXCEPT !.on = FALSE]
  /\ phone' = [phone EXCEPT !.listening = FALSE]
  /\ IF up THEN Transport ELSE UNCHANGED <<wire, board, apart>>

\* With any step of the others.
ClipFollows ==
  IF up' = up THEN UNCHANGED clipVars ELSE IF up' THEN ClipOpens ELSE ClipLoses

-----------------------------------------------------------------------------
\* When all is said, the two clipboards hold one text, whoever copied last: a text that
\* goes out and one that comes back to its own side are told apart, over sessions that come
\* and go, however threads interleave; unless a text was lost, or met another on its way,
\* and none has come through since (Clipboard.java; anland_backend.cpp, onClipboardChanged;
\* meta-anland-clipboard.c, on_selection_owner_changed).
Settled ==
  /\ up /\ render = "none" /\ focused /\ ~phone.heard /\ ~Inbound /\ ~Outbound
ClipboardsAgree == Settled /\ ~apart => phone.text = board.text
=============================================================================
