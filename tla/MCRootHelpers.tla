---------------------------- MODULE MCRootHelpers ----------------------------
(* An instance of RootHelpers: each program on its own. *)
EXTENDS RootHelpers

CONSTANTS init, systemd, kwin, konsole, p1, p2

MCFamily == init :> Host @@ systemd :> init @@ kwin :> systemd @@ konsole :> systemd
MCConfs == {[mode |-> 1, stops |-> {systemd}], [mode |-> 1, stops |-> {kwin}],
            [mode |-> 2, stops |-> {systemd}], [mode |-> 2, stops |-> {}]}

Nothing == [grabs |-> 0, stalls |-> 0, deaths |-> 0, pads |-> 0, uses |-> {}, windows |-> 0, touches |-> 0,
            tops |-> 0, conf |-> [mode |-> 2, stops |-> {}], reports |-> {}, forks |-> 0, exits |-> 0,
            refusals |-> 0]
Grabs(n) == [Nothing EXCEPT !.grabs = n, !.stalls = 1, !.deaths = 1]
Pads(n, ws, w, t, d) ==
  [Nothing EXCEPT !.pads = n, !.uses = ws, !.windows = w, !.touches = t, !.deaths = d]
Tops(n, f, e, r) ==
  {[Nothing EXCEPT !.tops = n, !.conf = c, !.reports = {konsole, p1}, !.forks = f, !.exits = e,
                   !.refusals = r] : c \in MCConfs}
MCPlans ==
  {Grabs(2), Pads(2, Boxed, 3, 1, 0), Pads(2, Window, 2, 0, 0),
   Pads(1, Window, 4, 0, 0), Pads(1, Boxed, 2, 3, 1)}
  \cup Tops(3, 1, 0, 0) \cup Tops(2, 1, 1, 0) \cup Tops(1, 2, 0, 0) \cup Tops(1, 1, 0, 1)
=============================================================================
