------------------------------ MODULE HardKeys ------------------------------
(***************************************************************************)
(* The keys of a hardware keyboard.  Android gives them to the window that    *)
(* has the focus, and tells a window that loses it that its keys are up; the  *)
(* accessibility service KeyInterceptor.java, if it is set, sees them first    *)
(* and hides from Android what it takes.  MainActivity.java sends on what it   *)
(* does not keep for itself.                                                 *)
(*                                                                         *)
(* E is any key.  Tablets have their Esc as Back, which the interceptor turns *)
(* to Esc again.  A repeat changes nothing; pressedKeys matters only to a     *)
(* service that runs on when its setting is off, and it is shut down then.    *)
(***************************************************************************)
EXTENDS TouchInput, SoftKeys

VARIABLE
  hard  \* [keys: down; given: of these, those the window was given; via: those the
        \*  interceptor took; set: KEY_ACCESSIBILITY_ENABLED; filters: the service does;
        \*  opens: KEY_BACK_OPENS_EXTRA_KEYS; backUp: pointerCaptureBackUpPending;
        \*  strayed: what the interceptor sent down and did not send up]

HwKeys == {"E", "BACK", "BOUND"}

HardInit ==
  /\ hard \in [keys : {{}}, given : {{}}, via : {{}}, set : BOOLEAN, filters : BOOLEAN,
               opens : BOOLEAN, backUp : {FALSE}, strayed : {{}}]
  /\ hard.filters = hard.set

\* onKeyEvent: whom a key's event goes to.
Way == IF ~focused THEN "elsewhere" ELSE IF hard.filters THEN "service" ELSE "window"

\* forwardKeyToLinux
Code(k, way) == IF k = "BACK" /\ way = "service" THEN "ESC" ELSE k

Keep(evs) == Send(evs) /\ Disturbs(evs) /\ UNCHANGED <<touch, vk, bar>>

\* handlePointerCaptureBackKey: Back gives up the capture, and both its events are kept.
BackDown(h) ==
  /\ hard' = [h EXCEPT !.backUp = TRUE, !.via = hard.via, !.strayed = hard.strayed] /\ LetGo /\ Send(LetGoSends)
  /\ UNCHANGED <<fingers, swipe, hw, active, padMode, captured, soft>>

\* onKeyDown, handleAccessibilityKey
Down(k, h) ==
  /\ hard' = [h EXCEPT !.backUp = @ /\ k # "BACK"]
  /\ IF Way = "window" /\ k = "BOUND" THEN Keep(<<>>)
     ELSE IF Way = "window" /\ k = "BACK" /\ hard.opens
     THEN bar' = BarToggled /\ Send(<<>>) /\ UNCHANGED <<touch, vk, ime>>
     ELSE Keep(<<Press(Code(k, Way))>>)

HwDown ==
  \E k \in HwKeys \ hard.keys :
    LET h == [hard EXCEPT !.keys = @ \cup {k},
                          !.given = IF Way = "window" THEN @ \cup {k} ELSE @,
                          !.via = IF Way = "service" THEN @ \cup {k} ELSE @,
                          !.strayed = @ \ {Code(k, Way)}]
    IN /\ shown /\ Act("hard") /\ UNCHANGED focused
       /\ IF Way = "elsewhere" THEN hard' = [hard EXCEPT !.keys = @ \cup {k}] /\ UNCHANGED <<seat, touch, soft>>
          ELSE IF k = "BACK" /\ captured THEN BackDown(h) ELSE Down(k, h)

\* onKeyUp, handleAccessibilityKey
HwUp ==
  \E k \in hard.keys :
    LET kept == k = "BACK" /\ hard.backUp
        h == [hard EXCEPT !.keys = @ \ {k}, !.given = @ \ {k}, !.via = @ \ {k}]
    IN /\ UNCHANGED <<left, focused>>
       /\ IF Way = "elsewhere"
          THEN /\ hard' = [h EXCEPT !.strayed = @ \cup {Code(i, "service") : i \in {k} \cap hard.via}]
               /\ UNCHANGED <<seat, touch, soft>>
          ELSE /\ hard' = [h EXCEPT !.backUp = @ /\ ~kept,
                             !.strayed = @ \cup ({Code(i, "service") : i \in {k} \cap hard.via} \ {Code(k, Way)})]
               /\ Keep(IF kept THEN <<>> ELSE <<Release(Code(k, Way))>>)

\* onWindowFocusChanged, after Android has told the window that its keys are up.
FocusLost ==
  LET gone == {k \in hard.given : k = "BACK" => ~hard.backUp} IN
  /\ focused /\ focused' = FALSE /\ Act("window")
  /\ hard' = [hard EXCEPT !.given = {}, !.backUp = FALSE] /\ LetGo
  /\ Send(Each(Release, gone) \o LetGoSends)
  /\ UNCHANGED <<fingers, swipe, hw, active, padMode, captured, soft>>

\* In the settings, a window of their own: the service is asked for, or shut down.
SettingChanges ==
  /\ ~focused /\ Act("hard") /\ hard' = [hard EXCEPT !.set = ~@, !.filters = FALSE]
  /\ UNCHANGED <<seat, focused, touch, soft>>

\* onServiceConnected, recheck; Android takes all that is down for let go first.
ServiceConnects ==
  /\ hard.set /\ ~hard.filters /\ hard' = [hard EXCEPT !.filters = TRUE]
  /\ fingers.screen \cup fingers.pad = {} /\ hard.keys \cup hw.mouse \cup hw.pad = {}
  /\ UNCHANGED <<left, seat, focused, touch, soft>>

HardStep == HwDown \/ HwUp \/ FocusLost \/ SettingChanges \/ ServiceConnects
=============================================================================
