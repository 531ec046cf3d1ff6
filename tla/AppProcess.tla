----------------------------- MODULE AppProcess -----------------------------
(***************************************************************************)
(* The app's process, from which both root helpers are started: it may die    *)
(* with everything it has open, and its main thread may stand still.          *)
(***************************************************************************)
EXTENDS Naturals

VARIABLE app  \* [up: the process lives, stalled: its main thread does not run]

AppInit == app = [up |-> TRUE, stalled |-> FALSE]

Main == app.up /\ ~app.stalled

Stall   == Main /\ app' = [app EXCEPT !.stalled = TRUE]
Wake    == app.up /\ app.stalled /\ app' = [app EXCEPT !.stalled = FALSE]
\* The kernel closes its sockets.
AppDies == app.up /\ app' = [app EXCEPT !.up = FALSE]
=============================================================================
