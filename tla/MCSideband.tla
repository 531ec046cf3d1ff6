----------------------------- MODULE MCSideband -----------------------------
EXTENDS Sideband, TLC
CONSTANTS w1, w2, p1, p2
MCPid == (w1 :> p1) @@ (w2 :> p2)
MCTree == (p1 :> {p1, p2}) @@ (p2 :> {p2})   \* w2's process was started from w1's
=============================================================================
