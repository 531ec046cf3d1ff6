----------------------------- MODULE RootHelpers -----------------------------
(***************************************************************************)
(* The programs that the app runs as root: the grab helper of immersive mode  *)
(* (GrabSession.tla) and the gamepad's (Gamepad.tla), each for a session of its *)
(* own, which share the app's process and its main thread; and the one that    *)
(* moves the desktop's processes into Android's top-app groups (TopApp.tla).  *)
(***************************************************************************)
EXTENDS GrabSession, Gamepad, TopApp

CONSTANT Plans  \* bound, for one run or another: [grabs, pads: sessions of each kind,
                \*  uses: windows that there are, windows: what becomes of them and of the
                \*  preference, touches: of the overlay, stalls: of the main thread,
                \*  deaths: of the app, tops: runs of settopapp, conf: its settings, reports: the processes
                \*  that KWin reports, forks, exits: in the container, while settopapp runs,
                \*  refusals: of its writes]

ASSUME PlansAssumption ==
  Plans \subseteq [grabs : Nat, pads : Nat, uses : SUBSET Window, windows : Nat, touches : Nat,
                  stalls : Nat, deaths : Nat, tops : Nat, conf : Confs, reports : SUBSET Proc,
                  forks : Nat, exits : Nat, refusals : Nat]

VARIABLE plan

vars == <<app, grabVars, padVars, topVars, plan>>

Init == AppInit /\ GrabInit /\ PadInit /\ TopInit /\ plan \in Plans /\ conf = plan.conf

Spend(kind) == plan[kind] > 0 /\ plan' = [plan EXCEPT ![kind] = @ - 1]

GrabNext ==
  \/ token < plan.grabs /\ GrabStart
  \/ GrabStop \/ MainPost
  \/ \E s \in Session :
       DelayedKill(s) \/ AcceptTimeout(s) \/ Worker(s) \/ HelperStep(s) \/ LeaveLoop(s, EndLoop) \/ Pkill(s)

OverlayStep(w) == OverlayDown(w) \/ OverlayMove(w) \/ OverlayUp(w) \/ OverlayCancel(w)
PadUser ==
  \/ \E w \in plan.uses :
       \/ Spend("windows") /\ ((WindowResumed(w) /\ started' <= plan.pads) \/ WindowPaused(w))
       \/ WindowDestroyed(w) /\ UNCHANGED plan
       \/ Spend("touches") /\ OverlayStep(w)
  \/ Spend("windows") /\ PadEnabled

PadNext == \E b \in Bridge : BridgeStep(b) \/ PadHelperStep(b) \/ PadKilled(b)

TopNext ==
  \/ Spend("tops") /\ (Discover \/ RestoreTop)
  \/ Spend("tops") /\ \E p \in plan.reports : \E on, tree \in BOOLEAN : SetTop(p, on, tree)
  \/ TopHelper /\ UNCHANGED plan
  \/ Spend("refusals") /\ WriteRefused
  \/ /\ prog.pc # "idle"
     /\ \/ Spend("forks") /\ \E p, q \in Proc : \E apart \in BOOLEAN : Fork(p, q, apart)
        \/ Spend("exits") /\ \E p \in Proc : Exit(p)

Next ==
  \/ GrabNext /\ UNCHANGED <<padVars, topVars, plan>>
  \/ PadUser /\ UNCHANGED <<grabVars, topVars>>
  \/ PadNext /\ UNCHANGED <<grabVars, topVars, plan>>
  \/ TopNext /\ UNCHANGED <<app, grabVars, padVars>>
  \/ Wake /\ UNCHANGED <<grabVars, padVars, topVars, plan>>
  \/ Spend("deaths") /\ AppDies /\ UNCHANGED <<grabVars, padVars, topVars>>
  \/ Spend("stalls") /\ Stall /\ UNCHANGED <<grabVars, padVars, topVars>>

Spec == Init /\ [][Next]_vars

\* Processes and threads run, and time passes for those who wait.  The user
\* owes nothing, and a stalled main thread may stay so.  What the gamepad owes is said of
\* the states in which nothing of it is left to run.
Fairness ==
  /\ WF_grabVars(MainPost)
  /\ \A s \in Session : /\ WF_grabVars(DelayedKill(s)) /\ WF_grabVars(AcceptTimeout(s))
                        /\ WF_grabVars(Worker(s)) /\ WF_grabVars(HelperStep(s))

FairSpec == Spec /\ Fairness

-----------------------------------------------------------------------------
\* No program that holds the input or a device is left behind by those who started it:
\* by a session of immersive mode that was stopped between any two steps of its worker,
\* nor by a bridge of the gamepad (InputGrab.java, closeAllQuietly; GamepadBridge.java,
\* runBridge).
NobodyLeft == NoOrphanGrab /\ HelpersEnd
=============================================================================
