------------------------------ MODULE SoftKeys ------------------------------
(***************************************************************************)
(* Keys and text from the screen: the floating keyboard                      *)
(* (VirtualKeyboardView.java), the bar of extra keys (ExtraKeysBar.java) and *)
(* the system's soft keyboard, whose edits SystemIME.java turns into text    *)
(* and backspaces.  All three run on the UI thread.                          *)
(*                                                                         *)
(* One key of each kind stands for its kind.  The symbols that Shift shows   *)
(* are labels of the same keys, and the keyboard's drag handle sends nothing. *)
(***************************************************************************)
EXTENDS Seat, FiniteSets

CONSTANTS
  Fingers,   \* fingers on the floating keyboard
  Words,     \* bound: what the soft keyboard composes or commits at once
  Mappable,  \* the characters that a key stands for (charToEvdev)
  MaxText    \* bound: characters in the text field

ASSUME SoftKeysAssumption == MaxText \in Nat /\ \A w \in Words : w \in Seq(STRING)

VARIABLES
  vk,   \* the floating keyboard: [on, at: finger -> key (activePointers), shiftL (leftShiftOn),
        \*  shiftR (rightShiftPressed), caps (capsLockOn)]
  bar,  \* [on, at: buttons under a finger, active and locked: CTRL's ModState, timer,
        \*  repeated (mRepeatActive), longHeld (mLongHoldFired), popup (mPopupWindow)]
  ime   \* [mirror (mMirror), composing, and of the soft keyboard itself: doc, the text it
        \*  takes the field to have, comp, how much of its end it composes;
        \*  alone: nothing else has typed;
        \*  tangled: it has taken back an Enter, or deleted while it composed]

soft == <<vk, bar, ime>>

SoftInit ==
  /\ \E on \in BOOLEAN : vk = [on |-> on, at |-> <<>>, shiftL |-> FALSE, shiftR |-> FALSE, caps |-> FALSE]
  /\ bar = [on |-> TRUE, at |-> {}, active |-> FALSE, locked |-> FALSE, timer |-> "none",
            repeated |-> FALSE, longHeld |-> FALSE, popup |-> FALSE]
  /\ ime = [mirror |-> <<>>, composing |-> <<>>, doc |-> <<>>, comp |-> 0,
            alone |-> TRUE, tangled |-> FALSE]

\* Keys that are not the soft keyboard's own.
Disturbs(evs) == ime' = [ime EXCEPT !.alone = @ /\ \A i \in DOMAIN evs : evs[i].action = "up"]

-----------------------------------------------------------------------------
(* VirtualKeyboardView.java.                                               *)

VkKeys == {"A", "LEFT", "ShiftL", "ShiftR", "Caps"}

\* sendKeyWithCaps; what is not a letter is sent as it is (sendKey).
Shifted(v, k) == k = "A" /\ v.caps /\ ~v.shiftR
KeyDown(v, k) == IF Shifted(v, k) THEN <<Press("ShiftL"), Press(k)>> ELSE <<Press(k)>>
KeyUp(v, k)   == IF Shifted(v, k) THEN <<Release(k), Release("ShiftL")>> ELSE <<Release(k)>>

\* executeCombination
Combination(v, k) == <<Press("ShiftL")>> \o KeyDown(v, k) \o KeyUp(v, k) \o <<Release("ShiftL")>>

Tracked(f, k) == [vk EXCEPT !.at = [g \in DOMAIN @ \cup {f} |-> IF g = f THEN k ELSE @[g]]]

\* onTouchEvent, DOWN and POINTER_DOWN
VkDown ==
  \E f \in Fingers \ DOMAIN vk.at, k \in VkKeys :
    LET sends == CASE k \in {"ShiftL", "Caps"}  -> <<>>
                   [] k = "A" /\ vk.shiftL      -> Combination(vk, k)
                   [] OTHER                     -> KeyDown(vk, k)
    IN /\ shown /\ vk.on /\ Act("keys")
       /\ vk' = CASE k = "ShiftL"           -> [vk EXCEPT !.shiftL = ~@]
                  [] k = "Caps"             -> [vk EXCEPT !.caps = ~@]
                  [] k = "A" /\ vk.shiftL   -> [vk EXCEPT !.shiftL = FALSE]
                  [] k = "ShiftR"           -> [Tracked(f, k) EXCEPT !.shiftR = TRUE]
                  [] OTHER                  -> Tracked(f, k)
       /\ Send(sends) /\ Disturbs(sends) /\ UNCHANGED bar

Untracked(v, f) == [v EXCEPT !.at = [g \in DOMAIN @ \ {f} |-> @[g]],
                             !.shiftR = @ /\ v.at[f] # "ShiftR"]

\* UP and POINTER_UP, or a MOVE off the key.
VkUp ==
  \E f \in DOMAIN vk.at :
    /\ vk' = Untracked(vk, f) /\ Send(KeyUp(vk, vk.at[f])) /\ Disturbs(KeyUp(vk, vk.at[f]))
    /\ UNCHANGED <<bar, left>>

\* The keys of a cancelled gesture, in the order of the fingers: the first of them, and all.
LiftFirst(r) ==
  LET f == Min(DOMAIN r.v.at)
  IN [v |-> Untracked(r.v, f), out |-> r.out \o KeyUp(r.v, r.v.at[f])]
\* Mutant: they are found after the fingers were forgotten.
LiftedAfter(v) == [v |-> [v EXCEPT !.at = <<>>], out |-> <<>>]
Lifted(v) ==
  LET n == Cardinality(DOMAIN v.at)
      r[i \in 0 .. n] == IF i = 0 THEN [v |-> v, out |-> <<>>] ELSE LiftFirst(r[i - 1])
  IN r[n]
VkCancel ==
  /\ DOMAIN vk.at # {} \/ vk.shiftL
  /\ vk' = [Lifted(vk).v EXCEPT !.shiftL = FALSE, !.shiftR = FALSE]
  /\ Send(Lifted(vk).out) /\ Disturbs(Lifted(vk).out) /\ UNCHANGED <<bar, left>>

\* toggleVirtualKeyboard and setVisibility: [v, out]
VkToggled ==
  IF vk.on THEN [v |-> [vk EXCEPT !.on = FALSE, !.shiftL = FALSE, !.shiftR = FALSE],
                 out |-> <<Release("ShiftR")>>]
           ELSE [v |-> [vk EXCEPT !.on = TRUE], out |-> <<>>]

-----------------------------------------------------------------------------
(* ExtraKeysBar.java.  CTRL is a modifier, LEFT repeats, a swipe up from "-"  *)
(* types "|", and one from KBD shows or hides the floating keyboard.          *)

BarKeys == {"CTRL", "LEFT", "-", "KBD"}

\* sendWithModifiers
WithModifiers(evs) ==
  IF bar.active THEN <<Press("CTRL")>> \o evs \o <<Release("CTRL")>> ELSE evs
Consumed(b) == [b EXCEPT !.active = @ /\ b.locked]

\* onKeyClick, with b the bar after the touch itself.
Click(k, b) ==
  LET evs == IF k = "LEFT" THEN WithModifiers(Tap(k)) ELSE WithModifiers(Text(<<k>>)) IN
  CASE k \in {"LEFT", "-", "|"} ->
         bar' = Consumed(b) /\ Send(evs) /\ Disturbs(evs) /\ UNCHANGED vk
    [] k = "CTRL" ->
         /\ bar' = [b EXCEPT !.active = ~@, !.locked = FALSE]
         /\ Send(<<>>) /\ UNCHANGED <<vk, ime>>
    [] k = "VK" ->
         bar' = b /\ vk' = VkToggled.v /\ Send(VkToggled.out) /\ Disturbs(VkToggled.out)
    [] OTHER -> bar' = b /\ Send(<<>>) /\ UNCHANGED <<vk, ime>>

\* attachListeners: DOWN, with startScheduled
BarDown ==
  \E k \in BarKeys \ bar.at :
    /\ shown /\ bar.on /\ Act("bar")
    /\ bar' = [bar EXCEPT !.at = @ \cup {k}, !.repeated = FALSE, !.longHeld = FALSE,
                          !.timer = CASE k = "LEFT" -> "repeat" [] k = "CTRL" -> "hold"
                                      [] OTHER -> "none"]
    /\ Send(<<>>) /\ UNCHANGED <<vk, ime>>

\* MOVE: above the button, and back
BarSwipe ==
  /\ bar.at \cap {"-", "KBD"} # {} /\ Send(<<>>) /\ UNCHANGED <<left, vk, ime>>
  /\ bar' = [bar EXCEPT !.popup = ~@, !.timer = IF bar.popup THEN @ ELSE "none"]

BarUp ==
  \E k \in bar.at :
    LET b == [bar EXCEPT !.at = @ \ {k}, !.timer = "none", !.popup = FALSE] IN
    /\ UNCHANGED left
    /\ IF bar.popup /\ k \in {"-", "KBD"} THEN Click(IF k = "-" THEN "|" ELSE "VK", b)
       ELSE IF ~bar.popup /\ ~bar.repeated /\ ~bar.longHeld THEN Click(k, b)
       ELSE bar' = b /\ Send(<<>>) /\ UNCHANGED <<vk, ime>>

Cancelled(k) == [bar EXCEPT !.at = @ \ {k}, !.timer = "none"]
BarCancel ==
  \E k \in bar.at :
    bar' = Cancelled(k) /\ Send(<<>>) /\ UNCHANGED <<left, vk, ime>>

\* mRepeatRunnable, and mLongHoldRunnable
BarRepeats ==
  bar.timer = "repeat" /\ Click("LEFT", [bar EXCEPT !.repeated = TRUE]) /\ UNCHANGED left
BarLocks ==
  /\ bar.timer = "hold" /\ UNCHANGED <<left, vk, ime>> /\ Send(<<>>)
  /\ bar' = [bar EXCEPT !.timer = "none", !.longHeld = TRUE, !.active = ~@, !.locked = ~bar.active]

\* toggleExtraKeysBar, setExtraKeysBarVisible; a bar that hides is reset.
BarToggled ==
  IF bar.on THEN [bar EXCEPT !.on = FALSE, !.timer = "none", !.popup = FALSE,
                             !.active = FALSE, !.locked = FALSE]
            ELSE [bar EXCEPT !.on = TRUE]
BarShows == shown /\ ~bar.on /\ Act("window") /\ bar' = BarToggled /\ Send(<<>>) /\ UNCHANGED <<vk, ime>>
BarHides ==
  /\ shown /\ bar.on /\ Act("window") /\ Send(<<>>) /\ UNCHANGED <<vk, ime>>
  /\ bar' = BarToggled

-----------------------------------------------------------------------------
(* SystemIME.java.  The soft keyboard edits the end of what it takes the      *)
(* field to have; a word it takes back to compose begins after the last Enter. *)

DropLast(s, n)    == SubSeq(s, 1, Len(s) - n)
LastOf(s, n)      == SubSeq(s, Len(s) - n + 1, Len(s))
Popped(s, n)      == DropLast(s, IF n < Len(s) THEN n ELSE Len(s))
Backspaces(n)     == [i \in 1 .. 2 * n |-> IF i % 2 = 1 THEN Press("BACKSPACE") ELSE Release("BACKSPACE")]
SinceEnter(s)     == Len(s) - (CHOOSE n \in 0 .. Len(s) : /\ n = 0 \/ s[n] = "ENTER"
                                                         /\ \A i \in n + 1 .. Len(s) : s[i] # "ENTER")
Mapped(s)         == SelectSeq(s, LAMBDA c : c \in Mappable)

\* The field as the keyboard takes it to be after the composed part became s.
Believes(s, n) == [doc |-> DropLast(ime.doc, ime.comp) \o s, comp |-> n, tangled |-> ime.tangled]
Still(n)       == [doc |-> ime.doc, comp |-> n, tangled |-> ime.tangled]

\* After it took back the character before the last k, with n composed now.
Without(k, n) ==
  [doc |-> DropLast(ime.doc, k + 1) \o LastOf(ime.doc, k), comp |-> n,
   tangled |-> ime.tangled \/ ime.comp > 0 \/ ime.doc[Len(ime.doc)] = "ENTER"]

\* An edit: erase n characters of what was sent, send s, keep c as composing.
Edit(n, s, c, believed) ==
  /\ ime' = [ime EXCEPT !.mirror = Popped(@, n) \o s, !.composing = c,
                        !.doc = believed.doc, !.comp = believed.comp, !.tangled = believed.tangled]
  /\ Send(Backspaces(n) \o Text(s)) /\ UNCHANGED <<vk, bar>>

\* maybeSendModifierCombo
Combo(s, believed) ==
  LET evs == WithModifiers(Tap(Head(Mapped(s)))) IN
  /\ Send(evs) /\ bar' = Consumed(bar) /\ UNCHANGED vk
  /\ ime' = [ime EXCEPT !.composing = <<>>, !.alone = FALSE,
                        !.doc = believed.doc, !.comp = believed.comp]
IsCombo(s) == bar.active /\ Mapped(s) # <<>>

\* replaceComposing: only what differs is erased and sent.
Replacing(s) ==
  LET p == Len(LongestCommonPrefix({ime.composing, s}))
  IN Edit(Len(ime.composing) - p, LastOf(s, Len(s) - p), s, Believes(s, Len(s)))

ImeComposes ==
  \E s \in Words :
    /\ shown /\ Act("text") /\ Len(ime.doc) - ime.comp + Len(s) <= MaxText
    /\ IF IsCombo(s) THEN Combo(s, Believes(s, Len(s))) ELSE Replacing(s)

ImeCommits ==
  \E s \in Words :
    /\ shown /\ Act("text") /\ Len(ime.doc) - ime.comp + Len(s) <= MaxText
    /\ IF IsCombo(s) THEN Combo(s, Believes(s, 0))
       ELSE IF ime.composing = s THEN Edit(0, <<>>, <<>>, Believes(s, 0))
       ELSE Edit(Len(ime.composing), s, <<>>, Believes(s, 0))

\* finishComposingText
ImeFinishes == ime.comp > 0 /\ UNCHANGED left /\ Edit(0, <<>>, <<>>, Still(0))

\* deleteSurroundingText: the keyboard means what is before the part it composes.
ImeDeletes ==
  /\ shown /\ Len(ime.doc) > ime.comp /\ Act("text")
  /\ Edit(1, <<>>, ime.composing, Without(ime.comp, ime.comp))

\* Mutant: the region is not looked up, and what follows it is appended.
RegionIgnored(n) == ime.composing
\* setComposingRegion
Region(n) == IF n <= Len(ime.mirror) THEN LastOf(ime.mirror, n) ELSE ime.composing
ImeReclaims ==
  \E n \in 1 .. SinceEnter(ime.doc) :
    shown /\ Act("text") /\ Edit(0, <<>>, Region(n), Still(n))

\* sendKeyEvent, the down and the up of it.  A Backspace means the last character; with an
\* Enter the keyboard's composition is over.
ImeBackspace ==
  /\ shown /\ ime.doc # <<>> /\ Act("text")
  /\ Edit(1, <<>>, ime.composing, Without(0, IF ime.comp = 0 THEN 0 ELSE ime.comp - 1))
ImeEnter ==
  /\ shown /\ Len(ime.doc) < MaxText /\ Act("text")
  /\ ime' = [ime EXCEPT !.mirror = <<>>, !.composing = <<>>, !.doc = Append(@, "ENTER"), !.comp = 0]
  /\ Send(Tap("ENTER")) /\ UNCHANGED <<vk, bar>>

-----------------------------------------------------------------------------
SoftStep ==
  \/ VkDown \/ VkUp \/ VkCancel
  \/ BarDown \/ BarSwipe \/ BarUp \/ BarCancel \/ BarRepeats \/ BarLocks \/ BarShows \/ BarHides
  \/ ImeComposes \/ ImeCommits \/ ImeFinishes \/ ImeDeletes \/ ImeReclaims \/ ImeBackspace \/ ImeEnter
=============================================================================
