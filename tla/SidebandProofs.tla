---------------------------- MODULE SidebandProofs ----------------------------
(***************************************************************************)
(* What Sideband.tla promises once a session has settled, for any windows,   *)
(* processes and bounds.                                                   *)
(*                                                                         *)
(* All that the phone is still to be told and to do makes one list of events *)
(* (Coming): an onFallback about to run, the UI thread's tasks, an onFallback *)
(* about to be posted, the events not read.  The invariant says how that     *)
(* list ends: for the capture, each window and the focus either the last     *)
(* event about it says what the desktop has (Settles), or there is none      *)
(* (Silent) and the phone has it already.  The same for the processes in     *)
(* front, with the order the helper is running (Orders).                     *)
(***************************************************************************)
EXTENDS Sideband, FiniteSetTheorems, SequenceTheorems, TLAPS

-----------------------------------------------------------------------------
(* Events under way, and how a list of them ends.                          *)

VarEvent    == [type : {"VAR"}, value : BOOLEAN]
ResetEvent  == [type : {"RESET"}]
SchedEvent  == [type : {"SCHED"}, pid : Proc \cup {"kwin"}, on : BOOLEAN]
WindowEvent == [type : {"WINDOW"}, id : Nat, action : {"CREATE", "UPDATE", "DESTROY", "FOCUS"},
                title : {0, 1}, focus : BOOLEAN]

\* T are the events that decide something.  In s the last of them is one of G;
\* there is none in s.
Settles(s, T, G) == \E n \in 1..Len(s) : s[n] \in T \cap G /\ \A m \in 1..Len(s) : m > n => s[m] \notin T
Silent(s, T)     == \A n \in 1..Len(s) : s[n] \notin T

\* What decides the capture, the title of a window, the active window, and
\* whether a process is in front; and those that make it so.
Captures      == VarEvent \cup ResetEvent
CaptureIs(v)  == {e \in VarEvent : e.value = v} \cup (IF v THEN {} ELSE ResetEvent)
Titles(i)     == {e \in WindowEvent : e.id = i /\ e.action # "FOCUS"}
TitleIs(i, t) == {e \in WindowEvent : e.id = i /\ e.action \in {"CREATE", "UPDATE"} /\ e.title = t}
Focuses(i)    == {e \in WindowEvent : IF e.action = "DESTROY" THEN e.id = i ELSE e.focus}
FocusIs(i)    == {e \in WindowEvent : e.id = i /\ e.action # "DESTROY" /\ e.focus}
Boosts(p)     == {e \in SchedEvent : p \in Subtree(e.pid)}
BoostOn       == {e \in SchedEvent : e.on}

-----------------------------------------------------------------------------
(* Threads.                                                                *)

\* In on_fallback, onFallback still to come.
EventCb  == {<<"restore", "java", "poll">>, <<"su_restore", "java", "poll">>, <<"java", "poll">>}
UiCb     == {<<"restore", "java">>, <<"su_restore", "java">>, <<"java">>}
RenderCb == {<<"restore", "java", "discover", "start", "loop">>, <<"su_restore", "java", "discover", "start", "loop">>,
             <<"java", "discover", "start", "loop">>, <<"restore", "java", "loop">>,
             <<"su_restore", "java", "loop">>, <<"java", "loop">>}

Cb(t) == IF t = "render" THEN RenderCb ELSE IF t = "event" THEN EventCb ELSE UiCb

\* On the way into a session, before its event thread is there.
Starting == {<<"push_dmabufs", "discover", "start", "loop">>, <<"fallback", "discover", "start", "loop">>,
             <<"restore", "java", "discover", "start", "loop">>, <<"su_restore", "java", "discover", "start", "loop">>,
             <<"java", "discover", "start", "loop">>, <<"discover", "start", "loop">>, <<"start", "loop">>}
RenderStacks == Starting \cup RenderCb \cup {<<>>, <<"connect">>, <<"loop">>, <<"fallback", "loop">>}
EventStacks  == EventCb \cup {<<>>, <<"poll">>, <<"fallback", "poll">>, <<"set", "poll">>}
\* nativeStop, its threads joined.
Joined       == {<<"restore", "disconnect">>, <<"su_restore", "disconnect">>, <<"disconnect">>}
Stopping     == Joined \cup {<<"join_render", "join_event", "restore", "disconnect">>,
                             <<"join_event", "restore", "disconnect">>}
UiStacks     == UiCb \cup Stopping \cup {<<>>, <<"fallback">>}

StackInv ==
  /\ stack = [render |-> stack["render"], event |-> stack["event"], ui |-> stack["ui"]]
  /\ stack["render"] \in RenderStacks /\ stack["event"] \in EventStacks /\ stack["ui"] \in UiStacks
  /\ stack["ui"] \in Joined \cup {<<"join_event", "restore", "disconnect">>} => stack["render"] = <<>>
  /\ stack["ui"] \in Joined => stack["event"] = <<>>
  /\ stack["ui"] \in Stopping => ~con.running
  /\ ~con.running => stack["ui"] \in Stopping \/ (stack["render"] = <<>> /\ stack["event"] = <<>> /\ link = "none")
  /\ stack["render"] = <<"connect">> => link = "none"

TypeOK ==
  /\ desk = [active |-> desk.active, locked |-> desk.locked, title |-> desk.title]
  /\ desk.locked \in BOOLEAN /\ desk.title \in [DOMAIN desk.title -> {0, 1}] /\ DOMAIN desk.title \subseteq Win
  /\ desk.active \in DOMAIN desk.title \cup {NULL}
  /\ kwin = [fallback |-> kwin.fallback, ids |-> kwin.ids, nextId |-> kwin.nextId, capture |-> kwin.capture, pid |-> kwin.pid]
  /\ kwin.fallback \in BOOLEAN /\ kwin.nextId \in Nat /\ kwin.ids \in [DOMAIN kwin.ids -> Nat]
  /\ link \in {"none", "deposited", "held", "bufs", "up", "hup"} /\ notice \in BOOLEAN
  /\ con \in [running : BOOLEAN, fallback : BOOLEAN, event_running : BOOLEAN, anchor : BOOLEAN]
  /\ wire \in Seq(VarEvent \cup SchedEvent \cup WindowEvent)
  /\ ui \in Seq(VarEvent \cup ResetEvent \cup WindowEvent)
  /\ stack["event"] = <<"set", "poll">> => hand \in SchedEvent
  /\ app = [forced |-> app.forced, windows |-> app.windows, active |-> app.active]
  /\ app.windows = [i \in DOMAIN app.windows |-> app.windows[i]]

\* What the backend keeps is what it was told last.
KWinInv ==
  /\ kwin.capture = desk.locked /\ kwin.pid = Client(desk)
  /\ DOMAIN kwin.ids = DOMAIN desk.title /\ IsFiniteSet(DOMAIN kwin.ids)
  /\ \A w \in DOMAIN kwin.ids : kwin.ids[w] < kwin.nextId
  /\ \A v, w \in DOMAIN kwin.ids : kwin.ids[v] = kwin.ids[w] => v = w

LinkInv ==
  /\ link = "up" => ~kwin.fallback
  /\ link \notin {"up", "hup"} => wire = <<>>
  /\ link \in {"none", "deposited"} => con.fallback /\ ~notice
  /\ notice => con.fallback
  /\ ~con.fallback /\ link = "held" => At("render", "push_dmabufs")
  /\ stack["render"] \in RenderCb => con.fallback /\ link \notin {"bufs", "up"}

-----------------------------------------------------------------------------
(* What the phone will have, once it has read and done everything.         *)

Reset         == [type |-> "RESET"]
Pending(x, C) == IF x \in C THEN <<Reset>> ELSE <<>>

\* onFallback that the UI thread is about to run, its tasks, onFallback that
\* the event thread is about to post, the events it has not read.
Come(x, u, y, s) == Pending(x, UiCb) \o u \o Pending(y, EventCb) \o s
Coming           == Come(stack["ui"], ui, stack["event"], wire)

HasTitle(a, i, t) == i \in DOMAIN a.windows /\ a.windows[i] = t

\* The events s bring the phone a to what the desktop and the backend have.
Mirrors(s, a, d, k) ==
  /\ \/ Settles(s, Captures, CaptureIs(k.capture))
     \/ Silent(s, Captures) /\ a.forced = k.capture
  /\ \A w \in DOMAIN d.title :
       \/ Settles(s, Titles(k.ids[w]), TitleIs(k.ids[w], d.title[w]))
       \/ Silent(s, Titles(k.ids[w])) /\ HasTitle(a, k.ids[w], d.title[w])
  /\ d.active # NULL =>
       \/ Settles(s, Focuses(k.ids[d.active]), FocusIs(k.ids[d.active]))
       \/ Silent(s, Focuses(k.ids[d.active])) /\ a.active = k.ids[d.active]

MirrorInv == link = "up" => Mirrors(Coming, app, desk, kwin)

-----------------------------------------------------------------------------
(* Who will be in front.                                                   *)

InFront == {"kwin", Client(desk)} \ {NULL}
MayBe   == {"kwin"} \cup (IF desk.active = NULL THEN {} ELSE Tree[Client(desk)])

\* Nobody runs an on_fallback in this session.
Clean == carried # NULL /\ ~con.fallback /\ stack["render"] # <<>>

CleanInv ==
  Clean =>
    /\ stack["event"] \notin EventCb /\ stack["ui"] \notin UiCb
    /\ stack["render"] \in Starting => ~con.event_running
    /\ stack["render"] \notin Starting =>
         /\ con.event_running /\ stack["event"] # <<>>
         /\ link = "bufs" => stack["event"] # <<"set", "poll">> /\ boosted = carried

\* The scheduling events the session's event thread has not carried out.
Orders == (IF stack["event"] = <<"set", "poll">> THEN <<hand>> ELSE <<>>) \o wire

Unread == con.fallback \/ (Clean /\ stack["render"] \in Starting)

BoostInv ==
  link = "up" =>
    /\ Unread =>
         /\ \A p \in InFront : Settles(wire, Boosts(p), BoostOn)
         /\ \A p \in (Proc \cup {"kwin"}) \ MayBe : ~Settles(wire, Boosts(p), BoostOn)
    /\ ~Unread /\ Clean /\ mode = 1 /\ con.anchor =>
         /\ \A p \in InFront : 
              Settles(Orders, Boosts(p), BoostOn) \/ (Silent(Orders, Boosts(p)) /\ p \in boosted)
         /\ \A p \in (Proc \cup {"kwin"}) \ (MayBe \cup carried) : 
              ~Settles(Orders, Boosts(p), BoostOn) /\ (Silent(Orders, Boosts(p)) => p \notin boosted)

BoostTypes == boosted \subseteq Proc \cup {"kwin"} /\ (carried # NULL => carried \subseteq Proc \cup {"kwin"})
-----------------------------------------------------------------------------
(* Lists of events.                                                        *)

\* The library says it with indices from 1 to Len(s) + Len(u).
LEMMA ConcatAt ==
  ASSUME NEW S, NEW s \in Seq(S), NEW u \in Seq(S)
  PROVE  /\ s \o u \in Seq(S) /\ Len(s) \in Nat /\ Len(u) \in Nat
         /\ Len(s \o u) = Len(s) + Len(u)
         /\ \A i \in 1..Len(s) : (s \o u)[i] = s[i]
         /\ \A i \in 1..Len(u) : (s \o u)[Len(s) + i] = u[i]
<1>1. Len(s) \in Nat /\ Len(u) \in Nat
  OBVIOUS
<1>2. s \o u \in Seq(S) /\ Len(s \o u) = Len(s) + Len(u)
  BY ConcatProperties
<1>3. \A i \in 1..Len(s) + Len(u) : (s \o u)[i] = IF i <= Len(s) THEN s[i] ELSE u[i - Len(s)]
  BY ConcatProperties
<1>4. \A i \in 1..Len(s) : i \in 1..Len(s) + Len(u) /\ i <= Len(s)
  BY <1>1
<1>5. \A i \in 1..Len(u) : /\ Len(s) + i \in 1..Len(s) + Len(u) /\ ~(Len(s) + i <= Len(s))
                           /\ Len(s) + i - Len(s) = i
  BY <1>1
<1>6. QED
  BY <1>1, <1>2, <1>3, <1>4, <1>5

LEMMA NoEvents ==
  ASSUME NEW T, NEW G
  PROVE  Silent(<<>>, T) /\ ~Settles(<<>>, T, G)
BY DEF Silent, Settles

LEMMA OneEvent ==
  ASSUME NEW e, NEW T, NEW G
  PROVE  (Silent(<<e>>, T) <=> e \notin T) /\ (Settles(<<e>>, T, G) <=> e \in T \cap G)
<1>1. Len(<<e>>) = 1 /\ <<e>>[1] = e
  OBVIOUS
<1>2. QED
  BY <1>1 DEF Silent, Settles

\* What comes later prevails.
LEMMA ConcatEnds ==
  ASSUME NEW S, NEW s \in Seq(S), NEW u \in Seq(S), NEW T, NEW G
  PROVE  /\ Silent(s \o u, T) <=> Silent(s, T) /\ Silent(u, T)
         /\ Settles(s \o u, T, G) <=> Settles(u, T, G) \/ (Silent(u, T) /\ Settles(s, T, G))
<1> DEFINE w == s \o u
           a == Len(s)
           b == Len(u)
<1>1. /\ a \in Nat /\ b \in Nat /\ Len(w) = a + b
      /\ \A i \in 1..a : w[i] = s[i]
      /\ \A i \in 1..b : w[a + i] = u[i]
  BY ConcatAt
<1> HIDE DEF w
<1>2. ASSUME NEW i \in 1..Len(w) PROVE i \in 1..a \/ (i - a \in 1..b /\ i = a + (i - a) /\ i > a)
  BY <1>1
<1>3. \A i \in 1..a : i \in 1..Len(w)
  BY <1>1
<1>4. \A i \in 1..b : a + i \in 1..Len(w) /\ a + i > a
  BY <1>1
<1>5. Silent(w, T) <=> Silent(s, T) /\ Silent(u, T)
  <2>1. ASSUME Silent(w, T) PROVE Silent(s, T) /\ Silent(u, T)
    BY <2>1, <1>1, <1>3, <1>4 DEF Silent
  <2>2. ASSUME Silent(s, T), Silent(u, T), NEW i \in 1..Len(w) PROVE w[i] \notin T
    BY <2>2, <1>1, <1>2 DEF Silent
  <2>3. QED
    BY <2>1, <2>2 DEF Silent
<1>6. ASSUME Settles(w, T, G) PROVE Settles(u, T, G) \/ (Silent(u, T) /\ Settles(s, T, G))
  <2>1. PICK n \in 1..Len(w) : w[n] \in T \cap G /\ \A m \in 1..Len(w) : m > n => w[m] \notin T
    BY <1>6 DEF Settles
  <2>2. CASE n \in 1..a
    <3>1. \A i \in 1..b : a + i > n
      BY <2>2, <1>1
    <3>2. Silent(u, T)
      BY <3>1, <2>1, <1>1, <1>4 DEF Silent
    <3>3. Settles(s, T, G)
      BY <2>2, <2>1, <1>1, <1>3 DEF Settles
    <3>4. QED
      BY <3>2, <3>3
  <2>3. CASE n - a \in 1..b /\ n = a + (n - a)
    <3>1. u[n - a] \in T \cap G
      BY <2>3, <2>1, <1>1
    <3>2. ASSUME NEW m \in 1..b, m > n - a PROVE u[m] \notin T
      <4>1. a + m > n
        BY <3>2, <2>3, <1>1
      <4>2. QED
        BY <4>1, <2>1, <1>1, <1>4
    <3>3. QED
      BY <3>1, <3>2, <2>3 DEF Settles
  <2>4. QED
    BY <2>2, <2>3, <1>2
<1>7. ASSUME Settles(u, T, G) PROVE Settles(w, T, G)
  <2>1. PICK n \in 1..b : u[n] \in T \cap G /\ \A m \in 1..b : m > n => u[m] \notin T
    BY <1>7 DEF Settles
  <2>2. a + n \in 1..Len(w) /\ w[a + n] \in T \cap G
    BY <2>1, <1>1, <1>4
  <2>3. ASSUME NEW m \in 1..Len(w), m > a + n PROVE w[m] \notin T
    <3>1. m - a \in 1..b /\ m = a + (m - a) /\ m - a > n
      BY <2>3, <1>1, <1>2
    <3>2. QED
      BY <3>1, <2>1, <1>1
  <2>4. QED
    BY <2>2, <2>3 DEF Settles
<1>8. ASSUME Silent(u, T), Settles(s, T, G) PROVE Settles(w, T, G)
  <2>1. PICK n \in 1..a : s[n] \in T \cap G /\ \A m \in 1..a : m > n => s[m] \notin T
    BY <1>8 DEF Settles
  <2>2. n \in 1..Len(w) /\ w[n] \in T \cap G
    BY <2>1, <1>1, <1>3
  <2>3. ASSUME NEW m \in 1..Len(w), m > n PROVE w[m] \notin T
    BY <2>3, <2>1, <1>1, <1>2, <1>8 DEF Silent
  <2>4. QED
    BY <2>2, <2>3 DEF Settles
<1>9. QED
  BY <1>5, <1>6, <1>7, <1>8 DEF w

LEMMA AppendEnds ==
  ASSUME NEW S, NEW s \in Seq(S), NEW e \in S, NEW T, NEW G
  PROVE  /\ Append(s, e) \in Seq(S)
         /\ Silent(Append(s, e), T) <=> Silent(s, T) /\ e \notin T
         /\ Settles(Append(s, e), T, G) <=> e \in T \cap G \/ (e \notin T /\ Settles(s, T, G))
<1>1. Append(s, e) = s \o <<e>> /\ <<e>> \in Seq(S)
  BY AppendIsConcat
<1>2. Append(s, e) \in Seq(S)
  OBVIOUS
<1>3. /\ Silent(s \o <<e>>, T) <=> Silent(s, T) /\ Silent(<<e>>, T)
      /\ Settles(s \o <<e>>, T, G) <=> Settles(<<e>>, T, G) \/ (Silent(<<e>>, T) /\ Settles(s, T, G))
  BY <1>1, ConcatEnds
<1>4. (Silent(<<e>>, T) <=> e \notin T) /\ (Settles(<<e>>, T, G) <=> e \in T \cap G)
  BY OneEvent
<1>5. QED
  BY <1>1, <1>2, <1>3, <1>4

\* What is left of a list when its first event is taken.
LEMMA HeadEnds ==
  ASSUME NEW S, NEW s \in Seq(S), s # <<>>, NEW T, NEW G
  PROVE  /\ Head(s) \in S /\ Tail(s) \in Seq(S)
         /\ Silent(s, T) <=> Head(s) \notin T /\ Silent(Tail(s), T)
         /\ Settles(s, T, G) <=> Settles(Tail(s), T, G) \/ (Silent(Tail(s), T) /\ Head(s) \in T \cap G)
<1>1. Head(s) \in S /\ Tail(s) \in Seq(S) /\ <<Head(s)>> \in Seq(S)
  BY HeadTailProperties
<1>2. s = <<Head(s)>> \o Tail(s)
  <2>1. /\ <<Head(s)>> \o Tail(s) \in Seq(S)
        /\ Len(<<Head(s)>> \o Tail(s)) = 1 + Len(Tail(s))
        /\ (<<Head(s)>> \o Tail(s))[1] = Head(s)
        /\ \A i \in 1..Len(Tail(s)) : (<<Head(s)>> \o Tail(s))[1 + i] = Tail(s)[i]
    <3>1. Len(<<Head(s)>>) = 1 /\ <<Head(s)>>[1] = Head(s) /\ 1 \in 1..1
      OBVIOUS
    <3>2. QED
      BY <3>1, <1>1, ConcatAt
  <2>2. /\ Len(s) \in Nat \ {0} /\ Len(Tail(s)) = Len(s) - 1 /\ s[1] = Head(s)
        /\ \A i \in 1..Len(Tail(s)) : Tail(s)[i] = s[i + 1]
    BY HeadTailProperties
  <2>3. ASSUME NEW i \in 1..Len(s) PROVE s[i] = (<<Head(s)>> \o Tail(s))[i]
    <3>1. i = 1 \/ (i - 1 \in 1..Len(Tail(s)) /\ i = 1 + (i - 1) /\ i = (i - 1) + 1)
      BY <2>2
    <3>2. QED
      BY <3>1, <2>1, <2>2
  <2>4. Len(<<Head(s)>> \o Tail(s)) = Len(s)
    BY <2>1, <2>2
  <2>5. QED
    BY <2>1, <2>3, <2>4, SeqEqual
<1> DEFINE h == <<Head(s)>>
<1>3. /\ Silent(h \o Tail(s), T) <=> Silent(h, T) /\ Silent(Tail(s), T)
      /\ Settles(h \o Tail(s), T, G) <=> Settles(Tail(s), T, G) \/ (Silent(Tail(s), T) /\ Settles(h, T, G))
  BY <1>1, ConcatEnds
<1>4. (Silent(h, T) <=> Head(s) \notin T) /\ (Settles(h, T, G) <=> Head(s) \in T \cap G)
  BY OneEvent
<1>5. QED
  BY <1>1, <1>2, <1>3, <1>4

-----------------------------------------------------------------------------
(* Stacks.                                                                 *)

\* Two lists of labels, one after the other, element by element.
LEMMA ByElements ==
  ASSUME NEW X, NEW s \in Seq(X), NEW u \in Seq(X), NEW w \in Seq(X),
         Len(w) = Len(s) + Len(u),
         \A i \in 1..Len(s) : s[i] = w[i], \A i \in 1..Len(u) : u[i] = w[Len(s) + i]
  PROVE  s \o u = w
<1> DEFINE v == s \o u
<1>1. /\ v \in Seq(X) /\ Len(s) \in Nat /\ Len(u) \in Nat /\ Len(v) = Len(s) + Len(u)
      /\ \A i \in 1..Len(s) : v[i] = s[i]
      /\ \A i \in 1..Len(u) : v[Len(s) + i] = u[i]
  BY ConcatAt
<1> HIDE DEF v
<1>2. ASSUME NEW i \in 1..Len(v) PROVE v[i] = w[i]
  <2>1. i \in 1..Len(s) \/ (i - Len(s) \in 1..Len(u) /\ i = Len(s) + (i - Len(s)))
    BY <1>1
  <2>2. QED
    BY <2>1, <1>1
<1>3. v = w
  BY <1>1, <1>2, SeqEqual
<1>4. QED
  BY <1>3 DEF v

LEMMA Concat11 ==
  ASSUME NEW a, NEW b
  PROVE  <<a>> \o <<b>> = <<a, b>>
<1> DEFINE X == {a, b}
           s == <<a>>
           u == <<b>>
           w == <<a, b>>
<1>1. a \in X /\ b \in X
  OBVIOUS
<1> HIDE DEF X
<1>2. s \in Seq(X) /\ u \in Seq(X) /\ w \in Seq(X) /\ Len(s) = 1 /\ Len(u) = 1 /\ Len(w) = 2
  BY <1>1
<1>3. s[1] = w[1] /\ u[1] = w[1 + 1]
  OBVIOUS
<1> HIDE DEF s, u, w
<1>4. \A i \in 1..Len(s) : s[i] = w[i]
  BY <1>2, <1>3
<1>5. \A i \in 1..Len(u) : u[i] = w[Len(s) + i]
  <2>1. \A i \in 1..1 : i = 1
    OBVIOUS
  <2>2. QED
    BY <2>1, <1>2, <1>3
<1>6. s \o u = w
  <2>1. Len(w) = Len(s) + Len(u)
    BY <1>2
  <2>2. QED
    BY <2>1, <1>2, <1>4, <1>5, ByElements
<1>7. QED
  BY <1>6 DEF s, u, w

LEMMA Concat12 ==
  ASSUME NEW a, NEW b, NEW c
  PROVE  <<a>> \o <<b, c>> = <<a, b, c>>
<1> DEFINE X == {a, b, c}
           s == <<a>>
           u == <<b, c>>
           w == <<a, b, c>>
<1>1. a \in X /\ b \in X /\ c \in X
  OBVIOUS
<1> HIDE DEF X
<1>2. s \in Seq(X) /\ u \in Seq(X) /\ w \in Seq(X) /\ Len(s) = 1 /\ Len(u) = 2 /\ Len(w) = 3
  BY <1>1
<1>3. s[1] = w[1] /\ u[1] = w[1 + 1] /\ u[2] = w[1 + 2]
  OBVIOUS
<1> HIDE DEF s, u, w
<1>4. \A i \in 1..Len(s) : s[i] = w[i]
  BY <1>2, <1>3
<1>5. \A i \in 1..Len(u) : u[i] = w[Len(s) + i]
  <2>1. \A i \in 1..2 : i = 1 \/ i = 2
    OBVIOUS
  <2>2. QED
    BY <2>1, <1>2, <1>3
<1>6. s \o u = w
  <2>1. Len(w) = Len(s) + Len(u)
    BY <1>2
  <2>2. QED
    BY <2>1, <1>2, <1>4, <1>5, ByElements
<1>7. QED
  BY <1>6 DEF s, u, w

LEMMA Concat13 ==
  ASSUME NEW a, NEW b, NEW c, NEW d
  PROVE  <<a>> \o <<b, c, d>> = <<a, b, c, d>>
<1> DEFINE X == {a, b, c, d}
           s == <<a>>
           u == <<b, c, d>>
           w == <<a, b, c, d>>
<1>1. a \in X /\ b \in X /\ c \in X /\ d \in X
  OBVIOUS
<1> HIDE DEF X
<1>2. s \in Seq(X) /\ u \in Seq(X) /\ w \in Seq(X) /\ Len(s) = 1 /\ Len(u) = 3 /\ Len(w) = 4
  BY <1>1
<1>3. s[1] = w[1] /\ u[1] = w[1 + 1] /\ u[2] = w[1 + 2] /\ u[3] = w[1 + 3]
  OBVIOUS
<1> HIDE DEF s, u, w
<1>4. \A i \in 1..Len(s) : s[i] = w[i]
  BY <1>2, <1>3
<1>5. \A i \in 1..Len(u) : u[i] = w[Len(s) + i]
  <2>1. \A i \in 1..3 : i = 1 \/ i = 2 \/ i = 3
    OBVIOUS
  <2>2. QED
    BY <2>1, <1>2, <1>3
<1>6. s \o u = w
  <2>1. Len(w) = Len(s) + Len(u)
    BY <1>2
  <2>2. QED
    BY <2>1, <1>2, <1>4, <1>5, ByElements
<1>7. QED
  BY <1>6 DEF s, u, w

LEMMA Concat14 ==
  ASSUME NEW a, NEW b, NEW c, NEW d, NEW e
  PROVE  <<a>> \o <<b, c, d, e>> = <<a, b, c, d, e>>
<1> DEFINE X == {a, b, c, d, e}
           s == <<a>>
           u == <<b, c, d, e>>
           w == <<a, b, c, d, e>>
<1>1. a \in X /\ b \in X /\ c \in X /\ d \in X /\ e \in X
  OBVIOUS
<1> HIDE DEF X
<1>2. s \in Seq(X) /\ u \in Seq(X) /\ w \in Seq(X) /\ Len(s) = 1 /\ Len(u) = 4 /\ Len(w) = 5
  BY <1>1
<1>3. s[1] = w[1] /\ u[1] = w[1 + 1] /\ u[2] = w[1 + 2] /\ u[3] = w[1 + 3] /\ u[4] = w[1 + 4]
  OBVIOUS
<1> HIDE DEF s, u, w
<1>4. \A i \in 1..Len(s) : s[i] = w[i]
  BY <1>2, <1>3
<1>5. \A i \in 1..Len(u) : u[i] = w[Len(s) + i]
  <2>1. \A i \in 1..4 : i = 1 \/ i = 2 \/ i = 3 \/ i = 4
    OBVIOUS
  <2>2. QED
    BY <2>1, <1>2, <1>3
<1>6. s \o u = w
  <2>1. Len(w) = Len(s) + Len(u)
    BY <1>2
  <2>2. QED
    BY <2>1, <1>2, <1>4, <1>5, ByElements
<1>7. QED
  BY <1>6 DEF s, u, w

LEMMA Concat21 ==
  ASSUME NEW a, NEW b, NEW c
  PROVE  <<a, b>> \o <<c>> = <<a, b, c>>
<1> DEFINE X == {a, b, c}
           s == <<a, b>>
           u == <<c>>
           w == <<a, b, c>>
<1>1. a \in X /\ b \in X /\ c \in X
  OBVIOUS
<1> HIDE DEF X
<1>2. s \in Seq(X) /\ u \in Seq(X) /\ w \in Seq(X) /\ Len(s) = 2 /\ Len(u) = 1 /\ Len(w) = 3
  BY <1>1
<1>3. s[1] = w[1] /\ s[2] = w[2] /\ u[1] = w[2 + 1]
  OBVIOUS
<1> HIDE DEF s, u, w
<1>4. \A i \in 1..Len(s) : s[i] = w[i]
  BY <1>2, <1>3
<1>5. \A i \in 1..Len(u) : u[i] = w[Len(s) + i]
  <2>1. \A i \in 1..1 : i = 1
    OBVIOUS
  <2>2. QED
    BY <2>1, <1>2, <1>3
<1>6. s \o u = w
  <2>1. Len(w) = Len(s) + Len(u)
    BY <1>2
  <2>2. QED
    BY <2>1, <1>2, <1>4, <1>5, ByElements
<1>7. QED
  BY <1>6 DEF s, u, w

LEMMA Concat23 ==
  ASSUME NEW a, NEW b, NEW c, NEW d, NEW e
  PROVE  <<a, b>> \o <<c, d, e>> = <<a, b, c, d, e>>
<1> DEFINE X == {a, b, c, d, e}
           s == <<a, b>>
           u == <<c, d, e>>
           w == <<a, b, c, d, e>>
<1>1. a \in X /\ b \in X /\ c \in X /\ d \in X /\ e \in X
  OBVIOUS
<1> HIDE DEF X
<1>2. s \in Seq(X) /\ u \in Seq(X) /\ w \in Seq(X) /\ Len(s) = 2 /\ Len(u) = 3 /\ Len(w) = 5
  BY <1>1
<1>3. s[1] = w[1] /\ s[2] = w[2] /\ u[1] = w[2 + 1] /\ u[2] = w[2 + 2] /\ u[3] = w[2 + 3]
  OBVIOUS
<1> HIDE DEF s, u, w
<1>4. \A i \in 1..Len(s) : s[i] = w[i]
  BY <1>2, <1>3
<1>5. \A i \in 1..Len(u) : u[i] = w[Len(s) + i]
  <2>1. \A i \in 1..3 : i = 1 \/ i = 2 \/ i = 3
    OBVIOUS
  <2>2. QED
    BY <2>1, <1>2, <1>3
<1>6. s \o u = w
  <2>1. Len(w) = Len(s) + Len(u)
    BY <1>2
  <2>2. QED
    BY <2>1, <1>2, <1>4, <1>5, ByElements
<1>7. QED
  BY <1>6 DEF s, u, w

LEMMA Concat31 ==
  ASSUME NEW a, NEW b, NEW c, NEW d
  PROVE  <<a, b, c>> \o <<d>> = <<a, b, c, d>>
<1> DEFINE X == {a, b, c, d}
           s == <<a, b, c>>
           u == <<d>>
           w == <<a, b, c, d>>
<1>1. a \in X /\ b \in X /\ c \in X /\ d \in X
  OBVIOUS
<1> HIDE DEF X
<1>2. s \in Seq(X) /\ u \in Seq(X) /\ w \in Seq(X) /\ Len(s) = 3 /\ Len(u) = 1 /\ Len(w) = 4
  BY <1>1
<1>3. s[1] = w[1] /\ s[2] = w[2] /\ s[3] = w[3] /\ u[1] = w[3 + 1]
  OBVIOUS
<1> HIDE DEF s, u, w
<1>4. \A i \in 1..Len(s) : s[i] = w[i]
  BY <1>2, <1>3
<1>5. \A i \in 1..Len(u) : u[i] = w[Len(s) + i]
  <2>1. \A i \in 1..1 : i = 1
    OBVIOUS
  <2>2. QED
    BY <2>1, <1>2, <1>3
<1>6. s \o u = w
  <2>1. Len(w) = Len(s) + Len(u)
    BY <1>2
  <2>2. QED
    BY <2>1, <1>2, <1>4, <1>5, ByElements
<1>7. QED
  BY <1>6 DEF s, u, w

-----------------------------------------------------------------------------
(* What each step does to the stacks.                                      *)

OnlyMoves(t) ==
  /\ stack' = [render |-> stack'["render"], event |-> stack'["event"], ui |-> stack'["ui"]]
  /\ \A u \in Thread \ {t} : stack'[u] = stack[u]

LEMMA Updates ==
  ASSUME StackInv, NEW t \in Thread, NEW v, stack' = [stack EXCEPT ![t] = v]
  PROVE  OnlyMoves(t) /\ stack'[t] = v
BY DEF StackInv, OnlyMoves, Thread

\* enter_fallback returns at once, or on_fallback is next.
LEMMA EnterStack ==
  ASSUME StackInv, NEW t \in Thread, EnterFallback(t)
  PROVE  /\ OnlyMoves(t) /\ stack[t] \notin Cb(t)
         /\ t = "render" => /\ stack[t] \in {<<"fallback", "discover", "start", "loop">>, <<"fallback", "loop">>}
                            /\ IF con.fallback THEN stack'[t] \in {<<"discover", "start", "loop">>, <<"loop">>}
                               ELSE stack'[t] \in {<<"restore", "java", "discover", "start", "loop">>, <<"restore", "java", "loop">>}
                            /\ stack'[t] \in Starting <=> stack[t] \in Starting
         /\ t = "event" => /\ stack[t] = <<"fallback", "poll">>
                           /\ stack'[t] = IF con.fallback THEN <<"poll">> ELSE <<"restore", "java", "poll">>
         /\ t = "ui" => stack[t] = <<"fallback">> /\ stack'[t] = IF con.fallback THEN <<>> ELSE <<"restore", "java">>
<1> DEFINE v == IF con.fallback THEN <<>> \o Tail(stack[t]) ELSE <<"restore", "java">> \o Tail(stack[t])
<1>1. stack' = [stack EXCEPT ![t] = v]
  BY DEF EnterFallback, Return, Goto, StackInv, Thread
<1> HIDE DEF v
<1>2. OnlyMoves(t) /\ stack'[t] = v
  BY <1>1, Updates
<1>3. stack[t] # <<>> /\ Head(stack[t]) = "fallback"
  BY DEF EnterFallback, At
<1>4. CASE t = "render"
  <2>1. stack[t] \in {<<"fallback", "discover", "start", "loop">>, <<"fallback", "loop">>}
    BY <1>3, <1>4 DEF StackInv, RenderStacks, Starting, RenderCb
  <2>2. CASE stack[t] = <<"fallback", "discover", "start", "loop">>
    <3>1. v = IF con.fallback THEN <<"discover", "start", "loop">> ELSE <<"restore", "java", "discover", "start", "loop">>
      <4>1. Tail(stack[t]) = <<"discover", "start", "loop">>
        BY <2>2
      <4>2. <<>> \o <<"discover", "start", "loop">> = <<"discover", "start", "loop">>
        OBVIOUS
      <4>3. <<"restore", "java">> \o <<"discover", "start", "loop">> = <<"restore", "java", "discover", "start", "loop">>
        BY Concat23
      <4>4. QED
        BY <4>1, <4>2, <4>3 DEF v
    <3>2. QED
      BY <3>1, <2>2, <1>2, <1>4 DEF Starting, Cb, RenderCb
  <2>3. CASE stack[t] = <<"fallback", "loop">>
    <3>1. v = IF con.fallback THEN <<"loop">> ELSE <<"restore", "java", "loop">>
      <4>1. Tail(stack[t]) = <<"loop">>
        BY <2>3
      <4>2. <<>> \o <<"loop">> = <<"loop">>
        OBVIOUS
      <4>3. <<"restore", "java">> \o <<"loop">> = <<"restore", "java", "loop">>
        BY Concat21
      <4>4. QED
        BY <4>1, <4>2, <4>3 DEF v
    <3>2. QED
      BY <3>1, <2>3, <1>2, <1>4 DEF Starting, Cb, RenderCb
  <2>4. QED
    BY <2>1, <2>2, <2>3
<1>5. CASE t = "event"
  <2>1. stack[t] = <<"fallback", "poll">>
    BY <1>3, <1>5 DEF StackInv, EventStacks, EventCb
  <2>2. v = IF con.fallback THEN <<"poll">> ELSE <<"restore", "java", "poll">>
    <3>1. Tail(stack[t]) = <<"poll">>
      BY <2>1
    <3>2. <<>> \o <<"poll">> = <<"poll">>
      OBVIOUS
    <3>3. <<"restore", "java">> \o <<"poll">> = <<"restore", "java", "poll">>
      BY Concat21
    <3>4. QED
      BY <3>1, <3>2, <3>3 DEF v
  <2>3. QED
    BY <2>1, <2>2, <1>2, <1>5 DEF Cb, EventCb
<1>6. CASE t = "ui"
  <2>1. stack[t] = <<"fallback">>
    BY <1>3, <1>6 DEF StackInv, UiStacks, UiCb, Stopping, Joined
  <2>2. v = IF con.fallback THEN <<>> ELSE <<"restore", "java">>
    BY <2>1 DEF v
  <2>3. QED
    BY <2>1, <2>2, <1>2, <1>6 DEF Cb, UiCb
<1>7. QED
  BY <1>4, <1>5, <1>6 DEF Thread

\* topapp_restore_tree, with or without a helper to run.
LEMMA PopRestore ==
  ASSUME StackInv, NEW t \in Thread, At(t, "restore"), NEW v,
         v = <<>> \o Tail(stack[t]) \/ v = <<"su_restore">> \o Tail(stack[t])
  PROVE  \/ stack[t] \in Cb(t) /\ v \in Cb(t) /\ (t = "render" => (v \in Starting <=> stack[t] \in Starting))
         \/ t = "ui" /\ stack[t] \in Joined /\ v \in Joined
<1>1. stack[t] # <<>> /\ Head(stack[t]) = "restore"
  BY DEF At
<1>2. CASE t = "render"
  <2>1. stack[t] \in {<<"restore", "java", "discover", "start", "loop">>, <<"restore", "java", "loop">>}
    BY <1>1, <1>2 DEF StackInv, RenderStacks, Starting, RenderCb
  <2>2. CASE stack[t] = <<"restore", "java", "discover", "start", "loop">>
    <3>1. Tail(stack[t]) = <<"java", "discover", "start", "loop">>
      BY <2>2
    <3>2. <<>> \o <<"java", "discover", "start", "loop">> = <<"java", "discover", "start", "loop">>
      OBVIOUS
    <3>3. <<"su_restore">> \o <<"java", "discover", "start", "loop">> = <<"su_restore", "java", "discover", "start", "loop">>
      BY Concat14
    <3>4. v = <<"java", "discover", "start", "loop">> \/ v = <<"su_restore", "java", "discover", "start", "loop">>
      BY <3>1, <3>2, <3>3
    <3>5. QED
      BY <3>4, <2>2, <1>2 DEF Cb, RenderCb, Starting
  <2>3. CASE stack[t] = <<"restore", "java", "loop">>
    <3>1. Tail(stack[t]) = <<"java", "loop">>
      BY <2>3
    <3>2. <<>> \o <<"java", "loop">> = <<"java", "loop">>
      OBVIOUS
    <3>3. <<"su_restore">> \o <<"java", "loop">> = <<"su_restore", "java", "loop">>
      BY Concat12
    <3>4. v = <<"java", "loop">> \/ v = <<"su_restore", "java", "loop">>
      BY <3>1, <3>2, <3>3
    <3>5. QED
      BY <3>4, <2>3, <1>2 DEF Cb, RenderCb, Starting
  <2>4. QED
    BY <2>1, <2>2, <2>3
<1>3. CASE t = "event"
  <2>1. stack[t] = <<"restore", "java", "poll">>
    BY <1>1, <1>3 DEF StackInv, EventStacks, EventCb
  <2>2. CASE stack[t] = <<"restore", "java", "poll">>
    <3>1. Tail(stack[t]) = <<"java", "poll">>
      BY <2>2
    <3>2. <<>> \o <<"java", "poll">> = <<"java", "poll">>
      OBVIOUS
    <3>3. <<"su_restore">> \o <<"java", "poll">> = <<"su_restore", "java", "poll">>
      BY Concat12
    <3>4. v = <<"java", "poll">> \/ v = <<"su_restore", "java", "poll">>
      BY <3>1, <3>2, <3>3
    <3>5. QED
      BY <3>4, <2>2, <1>3 DEF Cb, EventCb
  <2>3. QED
    BY <2>1, <2>2
<1>4. CASE t = "ui"
  <2>1. stack[t] \in {<<"restore", "java">>, <<"restore", "disconnect">>}
    BY <1>1, <1>4 DEF StackInv, UiStacks, UiCb, Stopping, Joined
  <2>2. CASE stack[t] = <<"restore", "java">>
    <3>1. Tail(stack[t]) = <<"java">>
      BY <2>2
    <3>2. <<>> \o <<"java">> = <<"java">>
      OBVIOUS
    <3>3. <<"su_restore">> \o <<"java">> = <<"su_restore", "java">>
      BY Concat11
    <3>4. v = <<"java">> \/ v = <<"su_restore", "java">>
      BY <3>1, <3>2, <3>3
    <3>5. QED
      BY <3>4, <2>2, <1>4 DEF Cb, UiCb, Joined
  <2>3. CASE stack[t] = <<"restore", "disconnect">>
    <3>1. Tail(stack[t]) = <<"disconnect">>
      BY <2>3
    <3>2. <<>> \o <<"disconnect">> = <<"disconnect">>
      OBVIOUS
    <3>3. <<"su_restore">> \o <<"disconnect">> = <<"su_restore", "disconnect">>
      BY Concat11
    <3>4. v = <<"disconnect">> \/ v = <<"su_restore", "disconnect">>
      BY <3>1, <3>2, <3>3
    <3>5. QED
      BY <3>4, <2>3, <1>4 DEF Cb, UiCb, Joined
  <2>4. QED
    BY <2>1, <2>2, <2>3
<1>5. QED
  BY <1>2, <1>3, <1>4 DEF Thread

\* The helper has run.
LEMMA PopHelper ==
  ASSUME StackInv, NEW t \in Thread, At(t, "su_restore"), NEW v,
         v = <<>> \o Tail(stack[t])
  PROVE  \/ stack[t] \in Cb(t) /\ v \in Cb(t) /\ (t = "render" => (v \in Starting <=> stack[t] \in Starting))
         \/ t = "ui" /\ stack[t] \in Joined /\ v \in Joined
<1>1. stack[t] # <<>> /\ Head(stack[t]) = "su_restore"
  BY DEF At
<1>2. CASE t = "render"
  <2>1. stack[t] \in {<<"su_restore", "java", "discover", "start", "loop">>, <<"su_restore", "java", "loop">>}
    BY <1>1, <1>2 DEF StackInv, RenderStacks, Starting, RenderCb
  <2>2. CASE stack[t] = <<"su_restore", "java", "discover", "start", "loop">>
    <3>1. Tail(stack[t]) = <<"java", "discover", "start", "loop">>
      BY <2>2
    <3>2. <<>> \o <<"java", "discover", "start", "loop">> = <<"java", "discover", "start", "loop">>
      OBVIOUS
    <3>3. v = <<"java", "discover", "start", "loop">>
      BY <3>1, <3>2
    <3>4. QED
      BY <3>3, <2>2, <1>2 DEF Cb, RenderCb, Starting
  <2>3. CASE stack[t] = <<"su_restore", "java", "loop">>
    <3>1. Tail(stack[t]) = <<"java", "loop">>
      BY <2>3
    <3>2. <<>> \o <<"java", "loop">> = <<"java", "loop">>
      OBVIOUS
    <3>3. v = <<"java", "loop">>
      BY <3>1, <3>2
    <3>4. QED
      BY <3>3, <2>3, <1>2 DEF Cb, RenderCb, Starting
  <2>4. QED
    BY <2>1, <2>2, <2>3
<1>3. CASE t = "event"
  <2>1. stack[t] = <<"su_restore", "java", "poll">>
    BY <1>1, <1>3 DEF StackInv, EventStacks, EventCb
  <2>2. CASE stack[t] = <<"su_restore", "java", "poll">>
    <3>1. Tail(stack[t]) = <<"java", "poll">>
      BY <2>2
    <3>2. <<>> \o <<"java", "poll">> = <<"java", "poll">>
      OBVIOUS
    <3>3. v = <<"java", "poll">>
      BY <3>1, <3>2
    <3>4. QED
      BY <3>3, <2>2, <1>3 DEF Cb, EventCb
  <2>3. QED
    BY <2>1, <2>2
<1>4. CASE t = "ui"
  <2>1. stack[t] \in {<<"su_restore", "java">>, <<"su_restore", "disconnect">>}
    BY <1>1, <1>4 DEF StackInv, UiStacks, UiCb, Stopping, Joined
  <2>2. CASE stack[t] = <<"su_restore", "java">>
    <3>1. Tail(stack[t]) = <<"java">>
      BY <2>2
    <3>2. <<>> \o <<"java">> = <<"java">>
      OBVIOUS
    <3>3. v = <<"java">>
      BY <3>1, <3>2
    <3>4. QED
      BY <3>3, <2>2, <1>4 DEF Cb, UiCb, Joined
  <2>3. CASE stack[t] = <<"su_restore", "disconnect">>
    <3>1. Tail(stack[t]) = <<"disconnect">>
      BY <2>3
    <3>2. <<>> \o <<"disconnect">> = <<"disconnect">>
      OBVIOUS
    <3>3. v = <<"disconnect">>
      BY <3>1, <3>2
    <3>4. QED
      BY <3>3, <2>3, <1>4 DEF Cb, UiCb, Joined
  <2>4. QED
    BY <2>1, <2>2, <2>3
<1>5. QED
  BY <1>2, <1>3, <1>4 DEF Thread

LEMMA RestoreStack ==
  ASSUME StackInv, NEW t \in Thread, RestoreTree(t) \/ HelperRestores(t)
  PROVE  /\ OnlyMoves(t)
         /\ \/ stack[t] \in Cb(t) /\ stack'[t] \in Cb(t) /\ (t = "render" => (stack'[t] \in Starting <=> stack[t] \in Starting))
            \/ t = "ui" /\ stack[t] \in Joined /\ stack'[t] \in Joined
<1>1. CASE RestoreTree(t)
  <2> DEFINE v == (IF con.anchor THEN <<"su_restore">> ELSE <<>>) \o Tail(stack[t])
  <2>1. stack' = [stack EXCEPT ![t] = v] /\ At(t, "restore")
    BY <1>1 DEF RestoreTree, Goto, StackInv, Thread
  <2>2. v = <<>> \o Tail(stack[t]) \/ v = <<"su_restore">> \o Tail(stack[t])
    OBVIOUS
  <2> HIDE DEF v
  <2>3. OnlyMoves(t) /\ stack'[t] = v
    BY <2>1, Updates
  <2>4. QED
    BY <2>1, <2>2, <2>3, PopRestore
<1>2. CASE HelperRestores(t)
  <2> DEFINE v == <<>> \o Tail(stack[t])
  <2>1. stack' = [stack EXCEPT ![t] = v] /\ At(t, "su_restore")
    BY <1>2 DEF HelperRestores, Return, Goto, StackInv, Thread
  <2>2. v = <<>> \o Tail(stack[t])
    OBVIOUS
  <2> HIDE DEF v
  <2>3. OnlyMoves(t) /\ stack'[t] = v
    BY <2>1, Updates
  <2>4. QED
    BY <2>1, <2>2, <2>3, PopHelper
<1>3. QED
  BY <1>1, <1>2

LEMMA TellStack ==
  ASSUME StackInv, NEW t \in Thread, TellJavaAndStop(t)
  PROVE  /\ OnlyMoves(t) /\ stack[t] \in Cb(t) /\ stack'[t] \notin Cb(t)
         /\ t = "render" => /\ stack'[t] \in {<<"discover", "start", "loop">>, <<"loop">>}
                            /\ stack'[t] \in Starting <=> stack[t] \in Starting
         /\ t = "event" => stack'[t] = <<"poll">>
         /\ t = "ui" => stack'[t] = <<>>
<1> DEFINE v == <<>> \o Tail(stack[t])
<1>1. stack' = [stack EXCEPT ![t] = v] /\ At(t, "java")
  BY DEF TellJavaAndStop, Return, Goto, StackInv, Thread
<1>2. stack[t] # <<>> /\ Head(stack[t]) = "java"
  BY <1>1 DEF At
<1>3. CASE t = "render"
  <2>1. stack[t] \in {<<"java", "discover", "start", "loop">>, <<"java", "loop">>}
    BY <1>2, <1>3 DEF StackInv, RenderStacks, Starting, RenderCb
  <2>2. CASE stack[t] = <<"java", "discover", "start", "loop">>
    <3>1. Tail(stack[t]) = <<"discover", "start", "loop">>
      BY <2>2
    <3>2. <<>> \o <<"discover", "start", "loop">> = <<"discover", "start", "loop">>
      OBVIOUS
    <3>3. v = <<"discover", "start", "loop">>
      BY <3>1, <3>2
    <3> HIDE DEF v
    <3>4. OnlyMoves(t) /\ stack'[t] = v
      BY <1>1, Updates
    <3>5. QED
      BY <3>3, <3>4, <2>2, <1>3 DEF Starting, Cb, RenderCb
  <2>3. CASE stack[t] = <<"java", "loop">>
    <3>1. Tail(stack[t]) = <<"loop">>
      BY <2>3
    <3>2. <<>> \o <<"loop">> = <<"loop">>
      OBVIOUS
    <3>3. v = <<"loop">>
      BY <3>1, <3>2
    <3> HIDE DEF v
    <3>4. OnlyMoves(t) /\ stack'[t] = v
      BY <1>1, Updates
    <3>5. QED
      BY <3>3, <3>4, <2>3, <1>3 DEF Starting, Cb, RenderCb
  <2>4. QED
    BY <2>1, <2>2, <2>3
<1>4. CASE t = "event"
  <2>1. stack[t] = <<"java", "poll">>
    BY <1>2, <1>4 DEF StackInv, EventStacks, EventCb
  <2>2. Tail(stack[t]) = <<"poll">>
    BY <2>1
  <2>3. <<>> \o <<"poll">> = <<"poll">>
    OBVIOUS
  <2>4. v = <<"poll">>
    BY <2>2, <2>3
  <2> HIDE DEF v
  <2>5. OnlyMoves(t) /\ stack'[t] = v
    BY <1>1, Updates
  <2>6. QED
    BY <2>1, <2>4, <2>5, <1>4 DEF Cb, EventCb
<1>5. CASE t = "ui"
  <2>1. stack[t] = <<"java">>
    BY <1>2, <1>5 DEF StackInv, UiStacks, UiCb, Stopping, Joined
  <2>2. v = <<>>
    BY <2>1
  <2> HIDE DEF v
  <2>3. OnlyMoves(t) /\ stack'[t] = v
    BY <1>1, Updates
  <2>4. QED
    BY <2>1, <2>2, <2>3, <1>5 DEF Cb, UiCb
<1>6. QED
  BY <1>3, <1>4, <1>5 DEF Thread

LEMMA RenderStack ==
  ASSUME StackInv
  PROVE  /\ Connect => /\ OnlyMoves("render") /\ stack["render"] = <<"connect">>
                       /\ stack'["render"] = IF con.running THEN <<"loop">> ELSE <<>>
         /\ Loop => /\ OnlyMoves("render") /\ stack["render"] = <<"loop">>
                    /\ stack'["render"] = IF ~con.running THEN <<>>
                                          ELSE IF con.fallback THEN <<"push_dmabufs", "discover", "start", "loop">>
                                          ELSE <<"fallback", "loop">>
         /\ PushDmabufs => /\ OnlyMoves("render") /\ stack["render"] = <<"push_dmabufs", "discover", "start", "loop">>
                           /\ stack'["render"] = IF link = "hup" THEN <<"fallback", "discover", "start", "loop">>
                                                 ELSE <<"discover", "start", "loop">>
         /\ DiscoverRoot => /\ OnlyMoves("render") /\ stack["render"] = <<"discover", "start", "loop">>
                            /\ stack'["render"] = <<"start", "loop">>
         /\ StartEventThread =>
              /\ stack["render"] = <<"start", "loop">> /\ stack'["render"] = <<"loop">> /\ stack'["ui"] = stack["ui"]
              /\ stack' = [render |-> stack'["render"], event |-> stack'["event"], ui |-> stack'["ui"]]
              /\ IF con.event_running THEN stack'["event"] = stack["event"]
                 ELSE stack["event"] = <<>> /\ stack'["event"] = <<"poll">>
<1> DEFINE s == stack["render"]
           v == stack'["render"]
<1>1. "render" \in Thread /\ "render" \in DOMAIN stack
  BY DEF Thread, StackInv
<1>2. ASSUME NEW l, At("render", l) PROVE s # <<>> /\ Head(s) = l
  BY <1>2 DEF At
<1>3. ASSUME NEW ls, Goto("render", ls) PROVE OnlyMoves("render") /\ v = ls \o Tail(s)
  <2>1. stack' = [stack EXCEPT !["render"] = ls \o Tail(s)]
    BY <1>3, <1>1 DEF Goto
  <2>2. QED
    BY <2>1, <1>1, Updates
<1>4. ASSUME NEW ls, Call("render", ls) PROVE OnlyMoves("render") /\ v = ls \o s
  <2>1. stack' = [stack EXCEPT !["render"] = ls \o s]
    BY <1>4, <1>1 DEF Call
  <2>2. QED
    BY <2>1, <1>1, Updates
<1>5. ASSUME Connect PROVE /\ OnlyMoves("render") /\ s = <<"connect">>
                           /\ v = IF con.running THEN <<"loop">> ELSE <<>>
  <2>1. s = <<"connect">>
    BY <1>5, <1>2 DEF Connect, StackInv, RenderStacks, Starting, RenderCb
  <2>2. Tail(s) = <<>> /\ <<>> \o <<>> = <<>> /\ <<"loop">> \o <<>> = <<"loop">>
    BY <2>1
  <2>3. QED
    BY <1>5, <1>3, <2>1, <2>2 DEF Connect, Return
<1>6. ASSUME Loop PROVE /\ OnlyMoves("render") /\ s = <<"loop">>
                        /\ v = IF ~con.running THEN <<>>
                               ELSE IF con.fallback THEN <<"push_dmabufs", "discover", "start", "loop">>
                               ELSE <<"fallback", "loop">>
  <2>1. s = <<"loop">>
    BY <1>6, <1>2 DEF Loop, StackInv, RenderStacks, Starting, RenderCb
  <2>2. Tail(s) = <<>> /\ <<>> \o <<>> = <<>>
    BY <2>1
  <2>3. /\ <<"push_dmabufs", "discover", "start">> \o <<"loop">> = <<"push_dmabufs", "discover", "start", "loop">>
        /\ <<"fallback">> \o <<"loop">> = <<"fallback", "loop">>
    BY Concat31, Concat11
  <2>4. QED
    BY <1>6, <1>3, <1>4, <2>1, <2>2, <2>3 DEF Loop, Return
<1>7. ASSUME PushDmabufs
      PROVE  /\ OnlyMoves("render") /\ s = <<"push_dmabufs", "discover", "start", "loop">>
             /\ v = IF link = "hup" THEN <<"fallback", "discover", "start", "loop">> ELSE <<"discover", "start", "loop">>
  <2>1. s = <<"push_dmabufs", "discover", "start", "loop">>
    BY <1>7, <1>2 DEF PushDmabufs, StackInv, RenderStacks, Starting, RenderCb
  <2>2. Tail(s) = <<"discover", "start", "loop">>
    BY <2>1
  <2>3. <<>> \o <<"discover", "start", "loop">> = <<"discover", "start", "loop">>
    OBVIOUS
  <2>4. <<"fallback">> \o <<"discover", "start", "loop">> = <<"fallback", "discover", "start", "loop">>
    BY Concat13
  <2>5. QED
    BY <1>7, <1>3, <2>1, <2>2, <2>3, <2>4 DEF PushDmabufs
<1>8. ASSUME DiscoverRoot PROVE OnlyMoves("render") /\ s = <<"discover", "start", "loop">> /\ v = <<"start", "loop">>
  <2>1. s = <<"discover", "start", "loop">>
    BY <1>8, <1>2 DEF DiscoverRoot, StackInv, RenderStacks, Starting, RenderCb
  <2>2. Tail(s) = <<"start", "loop">>
    BY <2>1
  <2>3. <<>> \o <<"start", "loop">> = <<"start", "loop">>
    OBVIOUS
  <2>4. QED
    BY <1>8, <1>3, <2>1, <2>2, <2>3 DEF DiscoverRoot, Return
<1>9. ASSUME StartEventThread
      PROVE  /\ s = <<"start", "loop">> /\ v = <<"loop">> /\ stack'["ui"] = stack["ui"]
             /\ stack' = [render |-> v, event |-> stack'["event"], ui |-> stack'["ui"]]
             /\ IF con.event_running THEN stack'["event"] = stack["event"]
                ELSE stack["event"] = <<>> /\ stack'["event"] = <<"poll">>
  <2>1. s = <<"start", "loop">>
    BY <1>9, <1>2 DEF StartEventThread, StackInv, RenderStacks, Starting, RenderCb
  <2>2. Tail(s) = <<"loop">>
    BY <2>1
  <2>3. <<>> \o <<"loop">> = <<"loop">>
    OBVIOUS
  <2>4. CASE con.event_running
    <3>1. OnlyMoves("render") /\ v = <<"loop">>
      BY <1>9, <1>3, <2>2, <2>3, <2>4 DEF StartEventThread, Return
    <3>2. QED
      BY <3>1, <2>1, <2>4 DEF OnlyMoves, Thread
  <2>5. CASE ~con.event_running
    <3>1. stack["event"] = <<>> /\ stack' = [stack EXCEPT !["render"] = <<"loop">>, !["event"] = <<"poll">>]
      BY <1>9, <2>2, <2>5, <1>1 DEF StartEventThread
    <3>2. QED
      BY <3>1, <2>1, <2>5 DEF StackInv
  <2>6. QED
    BY <2>4, <2>5
<1>10. QED
  BY <1>5, <1>6, <1>7, <1>8, <1>9

LEMMA EventStack ==
  ASSUME StackInv
  PROVE  /\ EventEnds => OnlyMoves("event") /\ stack["event"] = <<"poll">> /\ stack'["event"] = <<>>
         /\ PollHangup => OnlyMoves("event") /\ stack["event"] = <<"poll">> /\ stack'["event"] = <<"fallback", "poll">>
         /\ HandleEvent =>
              /\ OnlyMoves("event") /\ stack["event"] = <<"poll">>
              /\ stack'["event"] = IF Head(wire).type = "SCHED" /\ mode = 1 /\ con.anchor
                                   THEN <<"set", "poll">> ELSE <<"poll">>
         /\ HelperSets => OnlyMoves("event") /\ stack["event"] = <<"set", "poll">> /\ stack'["event"] = <<"poll">>
<1> DEFINE s == stack["event"]
           v == stack'["event"]
<1>1. "event" \in Thread /\ "event" \in DOMAIN stack
  BY DEF Thread, StackInv
<1>2. ASSUME NEW l, At("event", l) PROVE s # <<>> /\ Head(s) = l
  BY <1>2 DEF At
<1>3. ASSUME NEW ls, Goto("event", ls) PROVE OnlyMoves("event") /\ v = ls \o Tail(s)
  <2>1. stack' = [stack EXCEPT !["event"] = ls \o Tail(s)]
    BY <1>3, <1>1 DEF Goto
  <2>2. QED
    BY <2>1, <1>1, Updates
<1>4. ASSUME At("event", "poll") PROVE s = <<"poll">> /\ Tail(s) = <<>>
  <2>1. s = <<"poll">>
    BY <1>2, <1>4 DEF StackInv, EventStacks, EventCb
  <2>2. QED
    BY <2>1
<1>5. ASSUME EventEnds PROVE OnlyMoves("event") /\ s = <<"poll">> /\ v = <<>>
  <2>1. <<>> \o <<>> = <<>>
    OBVIOUS
  <2>2. QED
    BY <1>5, <1>3, <1>4, <2>1 DEF EventEnds, Return
<1>6. ASSUME PollHangup PROVE OnlyMoves("event") /\ s = <<"poll">> /\ v = <<"fallback", "poll">>
  <2>1. s = <<"poll">>
    BY <1>6, <1>4 DEF PollHangup
  <2>2. stack' = [stack EXCEPT !["event"] = <<"fallback">> \o s]
    BY <1>6, <1>1 DEF PollHangup, Call
  <2>3. OnlyMoves("event") /\ v = <<"fallback">> \o s
    BY <2>2, <1>1, Updates
  <2>4. QED
    BY <2>1, <2>3, Concat11
<1>7. ASSUME HandleEvent
      PROVE  /\ OnlyMoves("event") /\ s = <<"poll">>
             /\ v = IF Head(wire).type = "SCHED" /\ mode = 1 /\ con.anchor THEN <<"set", "poll">> ELSE <<"poll">>
  <2>1. s = <<"poll">> /\ Tail(s) = <<>>
    BY <1>7, <1>4 DEF HandleEvent
  <2>2. CASE Head(wire).type = "SCHED" /\ mode = 1 /\ con.anchor
    <3>1. Goto("event", <<"set", "poll">>)
      BY <1>7, <2>2 DEF HandleEvent, Scheduling
    <3>2. <<"set", "poll">> \o <<>> = <<"set", "poll">>
      OBVIOUS
    <3>3. QED
      BY <3>1, <3>2, <2>1, <2>2, <1>3
  <2>3. CASE ~(Head(wire).type = "SCHED" /\ mode = 1 /\ con.anchor)
    <3>1. stack' = stack
      BY <1>7, <2>3 DEF HandleEvent, Scheduling
    <3>2. QED
      BY <3>1, <2>1, <2>3 DEF OnlyMoves, StackInv
  <2>4. QED
    BY <2>2, <2>3
<1>8. ASSUME HelperSets PROVE OnlyMoves("event") /\ s = <<"set", "poll">> /\ v = <<"poll">>
  <2>1. s = <<"set", "poll">>
    BY <1>8, <1>2 DEF HelperSets, StackInv, EventStacks, EventCb
  <2>2. Tail(s) = <<"poll">>
    BY <2>1
  <2>3. <<>> \o <<"poll">> = <<"poll">>
    OBVIOUS
  <2>4. QED
    BY <1>8, <1>3, <2>1, <2>2, <2>3 DEF HelperSets, Return
<1>9. QED
  BY <1>5, <1>6, <1>7, <1>8

LEMMA UiStack ==
  ASSUME StackInv
  PROVE  /\ SendFails => OnlyMoves("ui") /\ stack["ui"] = <<>> /\ stack'["ui"] = <<"fallback">>
         /\ NativeStop => /\ OnlyMoves("ui") /\ stack["ui"] = <<>>
                          /\ stack'["ui"] = <<"join_render", "join_event", "restore", "disconnect">>
         /\ JoinRender => /\ OnlyMoves("ui") /\ stack["ui"] = <<"join_render", "join_event", "restore", "disconnect">>
                          /\ stack'["ui"] = <<"join_event", "restore", "disconnect">>
         /\ JoinEvent => /\ OnlyMoves("ui") /\ stack["ui"] = <<"join_event", "restore", "disconnect">>
                         /\ stack'["ui"] = <<"restore", "disconnect">>
         /\ Disconnect => OnlyMoves("ui") /\ stack["ui"] = <<"disconnect">> /\ stack'["ui"] = <<>>
         /\ NativeStart => OnlyMoves("render") /\ stack["ui"] = <<>> /\ stack'["render"] = <<"connect">>
<1> DEFINE s == stack["ui"]
           v == stack'["ui"]
<1>1. "ui" \in Thread /\ "render" \in Thread /\ "ui" \in DOMAIN stack
  BY DEF Thread, StackInv
<1>2. ASSUME NEW l, At("ui", l) PROVE s # <<>> /\ Head(s) = l
  BY <1>2 DEF At
<1>3. ASSUME Return("ui") PROVE OnlyMoves("ui") /\ v = <<>> \o Tail(s)
  <2>1. stack' = [stack EXCEPT !["ui"] = <<>> \o Tail(s)]
    BY <1>3, <1>1 DEF Return, Goto
  <2>2. QED
    BY <2>1, <1>1, Updates
<1>4. ASSUME NEW ls, Call("ui", ls) PROVE OnlyMoves("ui") /\ v = ls \o s
  <2>1. stack' = [stack EXCEPT !["ui"] = ls \o s]
    BY <1>4, <1>1 DEF Call
  <2>2. QED
    BY <2>1, <1>1, Updates
<1>5. ASSUME SendFails PROVE OnlyMoves("ui") /\ s = <<>> /\ v = <<"fallback">>
  <2>1. <<"fallback">> \o <<>> = <<"fallback">>
    OBVIOUS
  <2>2. QED
    BY <1>5, <1>4, <2>1 DEF SendFails
<1>6. ASSUME NativeStop
      PROVE OnlyMoves("ui") /\ s = <<>> /\ v = <<"join_render", "join_event", "restore", "disconnect">>
  <2>1. <<"join_render", "join_event", "restore", "disconnect">> \o <<>> = <<"join_render", "join_event", "restore", "disconnect">>
    OBVIOUS
  <2>2. QED
    BY <1>6, <1>4, <2>1 DEF NativeStop
<1>7. ASSUME JoinRender
      PROVE  /\ OnlyMoves("ui") /\ s = <<"join_render", "join_event", "restore", "disconnect">>
             /\ v = <<"join_event", "restore", "disconnect">>
  <2>1. s = <<"join_render", "join_event", "restore", "disconnect">>
    BY <1>7, <1>2 DEF JoinRender, StackInv, UiStacks, UiCb, Stopping, Joined
  <2>2. Tail(s) = <<"join_event", "restore", "disconnect">>
    BY <2>1
  <2>3. <<>> \o <<"join_event", "restore", "disconnect">> = <<"join_event", "restore", "disconnect">>
    OBVIOUS
  <2>4. QED
    BY <1>7, <1>3, <2>1, <2>2, <2>3 DEF JoinRender
<1>8. ASSUME JoinEvent
      PROVE  OnlyMoves("ui") /\ s = <<"join_event", "restore", "disconnect">> /\ v = <<"restore", "disconnect">>
  <2>1. s = <<"join_event", "restore", "disconnect">>
    BY <1>8, <1>2 DEF JoinEvent, StackInv, UiStacks, UiCb, Stopping, Joined
  <2>2. Tail(s) = <<"restore", "disconnect">>
    BY <2>1
  <2>3. <<>> \o <<"restore", "disconnect">> = <<"restore", "disconnect">>
    OBVIOUS
  <2>4. QED
    BY <1>8, <1>3, <2>1, <2>2, <2>3 DEF JoinEvent
<1>9. ASSUME Disconnect PROVE OnlyMoves("ui") /\ s = <<"disconnect">> /\ v = <<>>
  <2>1. s = <<"disconnect">>
    BY <1>9, <1>2 DEF Disconnect, StackInv, UiStacks, UiCb, Stopping, Joined
  <2>2. Tail(s) = <<>> /\ <<>> \o <<>> = <<>>
    BY <2>1
  <2>3. QED
    BY <1>9, <1>3, <2>1, <2>2 DEF Disconnect
<1>10. ASSUME NativeStart PROVE OnlyMoves("render") /\ s = <<>> /\ stack'["render"] = <<"connect">>
  <2>1. stack' = [stack EXCEPT !["render"] = <<"connect">>] /\ s = <<>>
    BY <1>10 DEF NativeStart
  <2>2. QED
    BY <2>1, <1>1, Updates
<1>11. QED
  BY <1>5, <1>6, <1>7, <1>8, <1>9, <1>10

\* The helper that was under way when KWin died ends.
LEMMA RestartStack ==
  ASSUME StackInv, KWinRestarts
  PROVE  /\ OnlyMoves("event")
         /\ stack'["event"] = IF stack["event"] = <<"set", "poll">> THEN <<"poll">> ELSE stack["event"]
<1>1. "event" \in Thread /\ "event" \in DOMAIN stack
  BY DEF Thread, StackInv
<1>2. At("event", "set") <=> stack["event"] = <<"set", "poll">>
  BY DEF At, StackInv, EventStacks, EventCb
<1>3. CASE At("event", "set")
  <2>1. stack' = [stack EXCEPT !["event"] = <<>> \o Tail(stack["event"])]
    BY <1>3, <1>1 DEF KWinRestarts, Return, Goto
  <2>2. OnlyMoves("event") /\ stack'["event"] = <<>> \o Tail(stack["event"])
    BY <2>1, <1>1, Updates
  <2>3. Tail(stack["event"]) = <<"poll">>
    <3>1. stack["event"] = <<"set", "poll">>
      BY <1>2, <1>3
    <3>2. QED
      BY <3>1
  <2>4. <<>> \o <<"poll">> = <<"poll">>
    OBVIOUS
  <2>5. QED
    BY <2>2, <2>3, <2>4, <1>2, <1>3
<1>4. CASE ~At("event", "set")
  <2>1. stack' = stack
    BY <1>4 DEF KWinRestarts
  <2>2. QED
    BY <2>1, <1>2, <1>4 DEF OnlyMoves, StackInv
<1>5. QED
  BY <1>3, <1>4

-----------------------------------------------------------------------------
(* Events have their types.                                                *)

WireEvent == VarEvent \cup SchedEvent \cup WindowEvent
Event     == WireEvent \cup ResetEvent

\* The desktop and the backend as a change leaves them.
DeskType(d) ==
  /\ d = [active |-> d.active, locked |-> d.locked, title |-> d.title]
  /\ d.locked \in BOOLEAN /\ d.title \in [DOMAIN d.title -> {0, 1}] /\ DOMAIN d.title \subseteq Win
  /\ d.active \in DOMAIN d.title \cup {NULL}
KWinType(k) ==
  /\ k = [fallback |-> k.fallback, ids |-> k.ids, nextId |-> k.nextId, capture |-> k.capture, pid |-> k.pid]
  /\ k.fallback \in BOOLEAN /\ k.nextId \in Nat /\ k.ids \in [DOMAIN k.ids -> Nat]

LEMMA ClientType ==
  ASSUME NEW d, DeskType(d)
  PROVE  Client(d) \in Proc \cup {NULL} /\ (Client(d) = NULL <=> d.active = NULL)
BY SidebandAssumption DEF Client, DeskType

LEMMA SwitchType ==
  ASSUME NEW p \in Proc \cup {NULL}, NEW q \in Proc \cup {NULL}
  PROVE  Switch(p, q) \in Seq(SchedEvent)
<1>1. ASSUME NEW r \in Proc, NEW on \in BOOLEAN PROVE <<Sched(r, on)>> \in Seq(SchedEvent)
  BY DEF Sched, SchedEvent
<1>2. <<>> \in Seq(SchedEvent)
  OBVIOUS
<1>3. /\ (IF p = NULL THEN <<>> ELSE <<Sched(p, FALSE)>>) \in Seq(SchedEvent)
      /\ (IF q = NULL THEN <<>> ELSE <<Sched(q, TRUE)>>) \in Seq(SchedEvent)
  BY <1>1, <1>2
<1>4. QED
  BY <1>3, ConcatProperties DEF Switch

LEMMA FocusType ==
  ASSUME NEW k, k.ids \in [DOMAIN k.ids -> Nat], NEW w
  PROVE  Focus(k, w) \in Seq(WindowEvent)
<1>1. CASE w \in DOMAIN k.ids
  <2> DEFINE e == Window(k.ids[w], "FOCUS", 0, TRUE)
  <2>1. e \in WindowEvent
    BY <1>1 DEF Window, WindowEvent
  <2>2. Focus(k, w) = <<e>>
    BY <1>1 DEF Focus
  <2> HIDE DEF e
  <2>3. <<e>> \in Seq(WindowEvent)
    BY <2>1
  <2>4. QED
    BY <2>2, <2>3
<1>2. CASE w \notin DOMAIN k.ids
  BY <1>2 DEF Focus
<1>3. QED
  BY <1>1, <1>2

LEMMA ToldType ==
  ASSUME NEW k, k.ids \in [DOMAIN k.ids -> Nat], NEW d, NEW w \in DOMAIN k.ids, d.title[w] \in {0, 1},
         NEW a \in {"CREATE", "UPDATE"}
  PROVE  Told(k, d, w, a) \in WindowEvent
BY DEF Told, Window, WindowEvent

LEMMA ActivatedType ==
  ASSUME NEW k, k.ids \in [DOMAIN k.ids -> Nat], k.pid \in Proc \cup {NULL}, NEW d, DeskType(d)
  PROVE  /\ (IF d.locked = k.capture THEN <<>> ELSE <<Var(d.locked)>>) \in Seq(WireEvent)
         /\ (IF Client(d) = k.pid THEN <<>> ELSE Switch(k.pid, Client(d))) \in Seq(WireEvent)
         /\ (IF d.active = desk.active THEN <<>> ELSE Focus(k, d.active)) \in Seq(WireEvent)
         /\ Activated(k, d) \in Seq(WireEvent)
<1> DEFINE x == IF d.locked = k.capture THEN <<>> ELSE <<Var(d.locked)>>
           y == IF Client(d) = k.pid THEN <<>> ELSE Switch(k.pid, Client(d))
           z == IF d.active = desk.active THEN <<>> ELSE Focus(k, d.active)
<1>1. x \in Seq(WireEvent)
  <2>1. Var(d.locked) \in WireEvent
    BY DEF Var, VarEvent, WireEvent, DeskType
  <2>2. QED
    BY <2>1
<1>2. y \in Seq(WireEvent)
  <2>1. Switch(k.pid, Client(d)) \in Seq(SchedEvent)
    BY ClientType, SwitchType
  <2>2. Seq(SchedEvent) \subseteq Seq(WireEvent)
    BY DEF WireEvent
  <2>3. QED
    BY <2>1, <2>2
<1>3. z \in Seq(WireEvent)
  <2>1. Focus(k, d.active) \in Seq(WindowEvent)
    BY FocusType
  <2>2. Seq(WindowEvent) \subseteq Seq(WireEvent)
    BY DEF WireEvent
  <2>3. QED
    BY <2>1, <2>2
<1>4. Activated(k, d) = x \o y \o z
  BY DEF Activated
<1> HIDE DEF x, y, z
<1>5. x \o y \in Seq(WireEvent)
  BY <1>1, <1>2, ConcatProperties
<1>6. x \o y \o z \in Seq(WireEvent)
  BY <1>3, <1>5, ConcatProperties
<1>7. QED
  BY <1>1, <1>2, <1>3, <1>4, <1>6 DEF x, y, z

-----------------------------------------------------------------------------
(* What the backend's reports settle.                                      *)

\* Each event decides about one thing only.
LEMMA Kinds ==
  ASSUME NEW i, NEW p
  PROVE  /\ \A e \in SchedEvent : e \notin Captures /\ e \notin Titles(i) /\ e \notin Focuses(i)
         /\ \A e \in WindowEvent : e \notin Captures /\ e \notin Boosts(p)
         /\ \A e \in VarEvent : e \notin Titles(i) /\ e \notin Focuses(i) /\ e \notin Boosts(p)
         /\ \A e \in ResetEvent : e \notin Titles(i) /\ e \notin Focuses(i)
BY DEF SchedEvent, WindowEvent, VarEvent, ResetEvent, Captures, Titles, Focuses, Boosts

LEMMA OtherKinds ==
  ASSUME NEW i, NEW p
  PROVE  /\ \A s \in Seq(SchedEvent) : Silent(s, Captures) /\ Silent(s, Titles(i)) /\ Silent(s, Focuses(i))
         /\ \A s \in Seq(WindowEvent) : Silent(s, Captures) /\ Silent(s, Boosts(p))
<1>1. ASSUME NEW s \in Seq(SchedEvent), NEW n \in 1..Len(s) PROVE s[n] \in SchedEvent
  OBVIOUS
<1>2. ASSUME NEW s \in Seq(WindowEvent), NEW n \in 1..Len(s) PROVE s[n] \in WindowEvent
  OBVIOUS
<1>3. QED
  BY <1>1, <1>2, Kinds DEF Silent

\* A list that settles something is not silent about it, and G only narrows.
LEMMA NotBoth ==
  ASSUME NEW s, NEW T, NEW G, Settles(s, T, G)
  PROVE  ~Silent(s, T)
BY DEF Settles, Silent

LEMMA SwitchBoosts ==
  ASSUME NEW q \in Proc \cup {NULL}, NEW r \in Proc \cup {NULL}, NEW p
  PROVE  /\ r # NULL /\ p \in Tree[r] => Settles(Switch(q, r), Boosts(p), BoostOn)
         /\ r = NULL \/ p \notin Tree[r] =>
              /\ ~Settles(Switch(q, r), Boosts(p), BoostOn)
              /\ Silent(Switch(q, r), Boosts(p)) <=> q = NULL \/ p \notin Tree[q]
<1> DEFINE x == IF q = NULL THEN <<>> ELSE <<Sched(q, FALSE)>>
           y == IF r = NULL THEN <<>> ELSE <<Sched(r, TRUE)>>
<1>1. Switch(q, r) = x \o y
  BY DEF Switch
<1>2. ASSUME NEW c \in Proc, NEW on \in BOOLEAN
      PROVE  /\ Sched(c, on) \in SchedEvent /\ <<Sched(c, on)>> \in Seq(SchedEvent)
             /\ Sched(c, on) \in Boosts(p) <=> p \in Tree[c]
             /\ Sched(c, on) \in BoostOn <=> on
  BY SidebandAssumption DEF Sched, SchedEvent, Boosts, BoostOn, Subtree
<1>3. x \in Seq(SchedEvent) /\ y \in Seq(SchedEvent)
  <2>1. <<>> \in Seq(SchedEvent)
    OBVIOUS
  <2>2. QED
    BY <1>2, <2>1
<1>4. /\ Silent(x, Boosts(p)) <=> q = NULL \/ p \notin Tree[q]
      /\ ~Settles(x, Boosts(p), BoostOn)
  <2>1. CASE q = NULL
    BY <2>1, NoEvents
  <2>2. CASE q # NULL
    <3>1. /\ Silent(<<Sched(q, FALSE)>>, Boosts(p)) <=> Sched(q, FALSE) \notin Boosts(p)
          /\ Settles(<<Sched(q, FALSE)>>, Boosts(p), BoostOn) <=> Sched(q, FALSE) \in Boosts(p) \cap BoostOn
      BY OneEvent
    <3>2. QED
      BY <2>2, <3>1, <1>2
  <2>3. QED
    BY <2>1, <2>2
<1>5. /\ Silent(y, Boosts(p)) <=> r = NULL \/ p \notin Tree[r]
      /\ Settles(y, Boosts(p), BoostOn) <=> r # NULL /\ p \in Tree[r]
  <2>1. CASE r = NULL
    BY <2>1, NoEvents
  <2>2. CASE r # NULL
    <3>1. /\ Silent(<<Sched(r, TRUE)>>, Boosts(p)) <=> Sched(r, TRUE) \notin Boosts(p)
          /\ Settles(<<Sched(r, TRUE)>>, Boosts(p), BoostOn) <=> Sched(r, TRUE) \in Boosts(p) \cap BoostOn
      BY OneEvent
    <3>2. QED
      BY <2>2, <3>1, <1>2
  <2>3. QED
    BY <2>1, <2>2
<1> HIDE DEF x, y
<1>6. /\ Silent(x \o y, Boosts(p)) <=> Silent(x, Boosts(p)) /\ Silent(y, Boosts(p))
      /\ Settles(x \o y, Boosts(p), BoostOn)
           <=> Settles(y, Boosts(p), BoostOn) \/ (Silent(y, Boosts(p)) /\ Settles(x, Boosts(p), BoostOn))
  BY <1>3, ConcatEnds
<1>7. QED
  BY <1>1, <1>4, <1>5, <1>6

LEMMA FocusEnds ==
  ASSUME NEW k, k.ids \in [DOMAIN k.ids -> Nat], NEW w, NEW i
  PROVE  /\ Silent(Focus(k, w), Titles(i))
         /\ w \in DOMAIN k.ids => Settles(Focus(k, w), Focuses(k.ids[w]), FocusIs(k.ids[w]))
<1>1. CASE w \in DOMAIN k.ids
  <2> DEFINE e == Window(k.ids[w], "FOCUS", 0, TRUE)
  <2>1. e \notin Titles(i) /\ e \in Focuses(k.ids[w]) \cap FocusIs(k.ids[w])
    BY <1>1 DEF Window, WindowEvent, Titles, Focuses, FocusIs
  <2>2. Focus(k, w) = <<e>>
    BY <1>1 DEF Focus
  <2> HIDE DEF e
  <2>3. QED
    BY <2>1, <2>2, OneEvent
<1>2. CASE w \notin DOMAIN k.ids
  BY <1>2, NoEvents DEF Focus
<1>3. QED
  BY <1>1, <1>2

\* The windows in the order of the hash: each once.
LEMMA InOrder ==
  ASSUME NEW S, IsFiniteSet(S)
  PROVE  /\ SetToSeq(S) \in [1..Cardinality(S) -> S] /\ Cardinality(S) \in Nat
         /\ \A i, j \in 1..Cardinality(S) : SetToSeq(S)[i] = SetToSeq(S)[j] => i = j
         /\ \A x \in S : \E i \in 1..Cardinality(S) : SetToSeq(S)[i] = x
<1> DEFINE n == Cardinality(S)
           ws == SetToSeq(S)
<1>1. n \in Nat /\ ExistsBijection(1..n, S)
  BY FS_CardinalityType
<1>2. PICK f \in [1..n -> S] : IsInjective(f)
  BY <1>1 DEF ExistsBijection, Bijection, Injection, IsInjective
<1>3. ws \in [1..n -> S] /\ IsInjective(ws)
  BY <1>2 DEF SetToSeq
<1>4. ws \in Injection(1..n, S)
  BY <1>3 DEF Injection, IsInjective
<1>5. Cardinality(1..n) = n /\ IsFiniteSet(1..n)
  BY <1>1, FS_Interval
<1>6. ws \in Surjection(1..n, S)
  BY <1>4, <1>5, FS_Injection
<1>7. QED
  BY <1>1, <1>3, <1>6 DEF Surjection, IsInjective

\* The backend knows the windows by ids of their own.
Numbered(k, d) ==
  /\ k.ids \in [DOMAIN k.ids -> Nat] /\ IsFiniteSet(DOMAIN k.ids) /\ DOMAIN k.ids = DOMAIN d.title
  /\ \A v, w \in DOMAIN k.ids : k.ids[v] = k.ids[w] => v = w

\* resendWindowSnapshot tells every title and the focus.
LEMMA SnapshotEnds ==
  ASSUME NEW k, NEW d, DeskType(d), Numbered(k, d)
  PROVE  /\ Snapshot(k, d) \in Seq(WindowEvent)
         /\ \A w \in DOMAIN k.ids : Settles(Snapshot(k, d), Titles(k.ids[w]), TitleIs(k.ids[w], d.title[w]))
         /\ d.active # NULL => Settles(Snapshot(k, d), Focuses(k.ids[d.active]), FocusIs(k.ids[d.active]))
<1> DEFINE ws == SetToSeq(DOMAIN k.ids)
           n  == Cardinality(DOMAIN k.ids)
           s  == [i \in DOMAIN ws |-> Told(k, d, ws[i], "CREATE")]
           f  == Focus(k, d.active)
<1>1. /\ ws \in [1..n -> DOMAIN k.ids] /\ n \in Nat
      /\ \A i, j \in 1..n : ws[i] = ws[j] => i = j
      /\ \A x \in DOMAIN k.ids : \E i \in 1..n : ws[i] = x
  BY InOrder DEF Numbered
<1> HIDE DEF ws, n
<1>2. \A i \in 1..n : /\ ws[i] \in DOMAIN k.ids /\ s[i] = Told(k, d, ws[i], "CREATE")
                      /\ s[i] \in WindowEvent /\ s[i].id = k.ids[ws[i]]
                      /\ s[i].action = "CREATE" /\ s[i].title = d.title[ws[i]]
  <2> SUFFICES ASSUME NEW i \in 1..n
               PROVE  /\ ws[i] \in DOMAIN k.ids /\ s[i] = Told(k, d, ws[i], "CREATE")
                      /\ s[i] \in WindowEvent /\ s[i].id = k.ids[ws[i]]
                      /\ s[i].action = "CREATE" /\ s[i].title = d.title[ws[i]]
    OBVIOUS
  <2>1. ws[i] \in DOMAIN k.ids /\ s[i] = Told(k, d, ws[i], "CREATE")
    BY <1>1
  <2>2. d.title[ws[i]] \in {0, 1}
    BY <2>1 DEF DeskType, Numbered
  <2>3. Told(k, d, ws[i], "CREATE") \in WindowEvent
    BY <2>1, <2>2, ToldType DEF Numbered
  <2> HIDE DEF s
  <2>4. QED
    BY <2>1, <2>3 DEF Told, Window
<1>3. s \in Seq(WindowEvent) /\ Len(s) = n
  <2>1. s \in [1..n -> WindowEvent]
    BY <1>1, <1>2
  <2> HIDE DEF s
  <2>2. QED
    BY <2>1, <1>1
<1>4. f \in Seq(WindowEvent)
  BY FocusType DEF Numbered
<1>5. Snapshot(k, d) = s \o f
  BY DEF Snapshot, ws
<1> HIDE DEF s, f
<1>6. s \o f \in Seq(WindowEvent)
  BY <1>3, <1>4, ConcatProperties
<1>7. ASSUME NEW w \in DOMAIN k.ids
      PROVE  Settles(s \o f, Titles(k.ids[w]), TitleIs(k.ids[w], d.title[w]))
  <2>1. PICK i \in 1..n : ws[i] = w
    BY <1>1
  <2>2. s[i] \in Titles(k.ids[w]) \cap TitleIs(k.ids[w], d.title[w])
    BY <2>1, <1>2 DEF Titles, TitleIs
  <2>3. ASSUME NEW m \in 1..n, m > i PROVE s[m] \notin Titles(k.ids[w])
    <3>1. ws[m] # w /\ ws[m] \in DOMAIN k.ids
      BY <2>1, <2>3, <1>1
    <3>2. k.ids[ws[m]] # k.ids[w]
      BY <3>1 DEF Numbered
    <3>3. QED
      BY <3>2, <1>2 DEF Titles
  <2>4. Settles(s, Titles(k.ids[w]), TitleIs(k.ids[w], d.title[w]))
    BY <2>1, <2>2, <2>3, <1>3 DEF Settles
  <2>5. Silent(f, Titles(k.ids[w]))
    BY FocusEnds DEF f, Numbered
  <2>6. QED
    BY <1>3, <1>4, <2>4, <2>5, ConcatEnds
<1>8. ASSUME d.active # NULL
      PROVE  Settles(s \o f, Focuses(k.ids[d.active]), FocusIs(k.ids[d.active]))
  <2>1. d.active \in DOMAIN k.ids
    BY <1>8 DEF DeskType, Numbered
  <2>2. Settles(f, Focuses(k.ids[d.active]), FocusIs(k.ids[d.active]))
    BY <2>1, FocusEnds DEF f, Numbered
  <2>3. QED
    BY <1>3, <1>4, <2>2, ConcatEnds
<1>9. QED
  BY <1>5, <1>6, <1>7, <1>8

\* onReconnectTimer tells everything, and boosts nobody else.
LEMMA ReassertEnds ==
  ASSUME NEW k, NEW d, DeskType(d), Numbered(k, d), k.capture \in BOOLEAN, k.pid = Client(d)
  PROVE  /\ Reassert(k, d) \in Seq(WireEvent)
         /\ Settles(Reassert(k, d), Captures, CaptureIs(k.capture))
         /\ \A w \in DOMAIN k.ids : Settles(Reassert(k, d), Titles(k.ids[w]), TitleIs(k.ids[w], d.title[w]))
         /\ d.active # NULL => Settles(Reassert(k, d), Focuses(k.ids[d.active]), FocusIs(k.ids[d.active]))
         /\ \A p \in {"kwin", Client(d)} \ {NULL} : Settles(Reassert(k, d), Boosts(p), BoostOn)
         /\ \A p \in Proc : (d.active = NULL \/ p \notin Tree[Client(d)]) => ~Settles(Reassert(k, d), Boosts(p), BoostOn)
<1> DEFINE q == Client(d)
           a == Var(k.capture)
           b == Sched("kwin", TRUE)
           s == Switch(k.pid, q)
           f == Snapshot(k, d)
<1>1. /\ a \in VarEvent /\ a \in WireEvent /\ a \in Captures \cap CaptureIs(k.capture)
      /\ b \in SchedEvent /\ b \in WireEvent
      /\ \A p : b \in Boosts(p) <=> p = "kwin"
      /\ b \in BoostOn
  BY DEF Var, Sched, VarEvent, SchedEvent, WireEvent, Captures, CaptureIs, Boosts, BoostOn, Subtree
<1>2. s \in Seq(SchedEvent) /\ q \in Proc \cup {NULL} /\ (q = NULL <=> d.active = NULL) /\ k.pid = q
  BY ClientType, SwitchType
<1>3. /\ f \in Seq(WindowEvent)
      /\ \A w \in DOMAIN k.ids : Settles(f, Titles(k.ids[w]), TitleIs(k.ids[w], d.title[w]))
      /\ d.active # NULL => Settles(f, Focuses(k.ids[d.active]), FocusIs(k.ids[d.active]))
  BY SnapshotEnds
<1>4. \A p : /\ q # NULL /\ p \in Tree[q] => Settles(s, Boosts(p), BoostOn)
             /\ q = NULL \/ p \notin Tree[q] => ~Settles(s, Boosts(p), BoostOn) /\ Silent(s, Boosts(p))
  BY <1>2, SwitchBoosts
<1>5. Reassert(k, d) = <<a, b>> \o s \o f
  BY DEF Reassert
<1>6. <<a, b>> = <<a>> \o <<b>>
  BY Concat11
<1> HIDE DEF q, a, b, s, f
<1>7. <<a>> \in Seq(WireEvent) /\ <<b>> \in Seq(WireEvent) /\ s \in Seq(WireEvent) /\ f \in Seq(WireEvent)
  <2>1. Seq(SchedEvent) \subseteq Seq(WireEvent) /\ Seq(WindowEvent) \subseteq Seq(WireEvent)
    BY DEF WireEvent
  <2>2. <<a>> \in Seq(WireEvent) /\ <<b>> \in Seq(WireEvent)
    BY <1>1
  <2>3. QED
    BY <2>1, <2>2, <1>2, <1>3
<1>8. <<a>> \o <<b>> \in Seq(WireEvent)
  BY <1>7, ConcatProperties
<1>9. <<a>> \o <<b>> \o s \in Seq(WireEvent)
  BY <1>7, <1>8, ConcatProperties
<1>10. <<a>> \o <<b>> \o s \o f \in Seq(WireEvent)
  BY <1>7, <1>9, ConcatProperties
<1>11. ASSUME NEW T, NEW G
       PROVE  /\ Settles(f, T, G) => Settles(Reassert(k, d), T, G)
              /\ Silent(f, T) =>
                   /\ Settles(s, T, G) => Settles(Reassert(k, d), T, G)
                   /\ Silent(s, T) =>
                        Settles(Reassert(k, d), T, G) <=> b \in T \cap G \/ (b \notin T /\ a \in T \cap G)
  <2>1. /\ Silent(<<b>>, T) <=> b \notin T
        /\ Settles(<<b>>, T, G) <=> b \in T \cap G
        /\ Settles(<<a>>, T, G) <=> a \in T \cap G
    BY OneEvent
  <2>2. Settles(<<a>> \o <<b>>, T, G) <=> Settles(<<b>>, T, G) \/ (Silent(<<b>>, T) /\ Settles(<<a>>, T, G))
    BY <1>7, ConcatEnds
  <2>3. Settles(<<a>> \o <<b>> \o s, T, G) <=> Settles(s, T, G) \/ (Silent(s, T) /\ Settles(<<a>> \o <<b>>, T, G))
    BY <1>7, <1>8, ConcatEnds
  <2>4. Settles(<<a>> \o <<b>> \o s \o f, T, G)
          <=> Settles(f, T, G) \/ (Silent(f, T) /\ Settles(<<a>> \o <<b>> \o s, T, G))
    <3> DEFINE u == <<a>> \o <<b>> \o s
    <3>1. u \in Seq(WireEvent)
      BY <1>9
    <3> HIDE DEF u
    <3>2. Settles(u \o f, T, G) <=> Settles(f, T, G) \/ (Silent(f, T) /\ Settles(u, T, G))
      BY <3>1, <1>7, ConcatEnds
    <3>3. QED
      BY <3>2 DEF u
  <2>5. Settles(s, T, G) => ~Silent(s, T)
    BY NotBoth
  <2>6. Settles(f, T, G) => ~Silent(f, T)
    BY NotBoth
  <2>7. QED
    BY <2>1, <2>2, <2>3, <2>4, <2>5, <2>6, <1>5, <1>6
<1>12. Settles(Reassert(k, d), Captures, CaptureIs(k.capture))
  <2>1. Silent(f, Captures) /\ Silent(s, Captures) /\ b \notin Captures
    BY <1>1, <1>2, <1>3, OtherKinds, Kinds
  <2>2. QED
    BY <2>1, <1>1, <1>11
<1>13. ASSUME NEW p \in Proc \cup {"kwin"}
       PROVE  Silent(f, Boosts(p)) /\ a \notin Boosts(p)
  BY <1>1, <1>3, OtherKinds, Kinds
<1>14. ASSUME NEW p \in {"kwin", Client(d)} \ {NULL} PROVE Settles(Reassert(k, d), Boosts(p), BoostOn)
  <2>1. CASE p = "kwin"
    <3>1. q = NULL \/ p \notin Tree[q]
      BY <1>2, <2>1, SidebandAssumption
    <3>2. QED
      BY <3>1, <2>1, <1>1, <1>4, <1>11, <1>13
  <2>2. CASE p = q /\ q # NULL
    <3>1. p \in Tree[q] /\ p \in Proc
      BY <1>2, <2>2, SidebandAssumption
    <3>2. QED
      BY <3>1, <2>2, <1>4, <1>11, <1>13
  <2>3. QED
    BY <2>1, <2>2, <1>14 DEF q
<1>15. ASSUME NEW p \in Proc, d.active = NULL \/ p \notin Tree[Client(d)]
       PROVE  ~Settles(Reassert(k, d), Boosts(p), BoostOn)
  <2>1. q = NULL \/ p \notin Tree[q]
    BY <1>15, <1>2 DEF q
  <2>2. p # "kwin"
    BY SidebandAssumption
  <2>3. QED
    BY <2>1, <2>2, <1>1, <1>4, <1>11, <1>13
<1>16. QED
  BY <1>3, <1>5, <1>6, <1>10, <1>11, <1>12, <1>14, <1>15

\* What a change of the focus and of the lock reports.
LEMMA ActivatedEnds ==
  ASSUME NEW k, k.ids \in [DOMAIN k.ids -> Nat], k.pid \in Proc \cup {NULL}, NEW d, DeskType(d)
  PROVE  /\ Activated(k, d) \in Seq(WireEvent)
         /\ d.locked = k.capture => Silent(Activated(k, d), Captures)
         /\ d.locked # k.capture => Settles(Activated(k, d), Captures, CaptureIs(d.locked))
         /\ \A i : Silent(Activated(k, d), Titles(i))
         /\ d.active = desk.active => \A i : Silent(Activated(k, d), Focuses(i))
         /\ d.active # desk.active /\ d.active \in DOMAIN k.ids =>
              Settles(Activated(k, d), Focuses(k.ids[d.active]), FocusIs(k.ids[d.active]))
         /\ \A p : 
              /\ Client(d) = k.pid => Silent(Activated(k, d), Boosts(p))
              /\ Client(d) # k.pid /\ Client(d) # NULL /\ p \in Tree[Client(d)] =>
                   Settles(Activated(k, d), Boosts(p), BoostOn)
              /\ Client(d) # k.pid /\ (Client(d) = NULL \/ p \notin Tree[Client(d)]) =>
                   /\ ~Settles(Activated(k, d), Boosts(p), BoostOn)
                   /\ Silent(Activated(k, d), Boosts(p)) <=> k.pid = NULL \/ p \notin Tree[k.pid]
<1> DEFINE x == IF d.locked = k.capture THEN <<>> ELSE <<Var(d.locked)>>
           y == IF Client(d) = k.pid THEN <<>> ELSE Switch(k.pid, Client(d))
           z == IF d.active = desk.active THEN <<>> ELSE Focus(k, d.active)
<1>1. /\ x \in Seq(WireEvent) /\ y \in Seq(WireEvent) /\ z \in Seq(WireEvent)
      /\ Activated(k, d) \in Seq(WireEvent) /\ Activated(k, d) = x \o y \o z
  BY ActivatedType DEF Activated
<1>2. /\ d.locked = k.capture => Silent(x, Captures)
      /\ d.locked # k.capture => Settles(x, Captures, CaptureIs(d.locked))
      /\ \A i : Silent(x, Titles(i)) /\ Silent(x, Focuses(i))
      /\ \A p : Silent(x, Boosts(p))
  <2>1. CASE d.locked = k.capture
    BY <2>1, NoEvents
  <2>2. CASE d.locked # k.capture
    <3> DEFINE e == Var(d.locked)
    <3>1. e \in VarEvent /\ e \in Captures \cap CaptureIs(d.locked)
      BY DEF Var, VarEvent, Captures, CaptureIs, DeskType
    <3>2. x = <<e>>
      BY <2>2
    <3> HIDE DEF e, x
    <3>3. \A i, p : e \notin Titles(i) /\ e \notin Focuses(i) /\ e \notin Boosts(p)
      BY <3>1, Kinds
    <3>4. \A i, p : Silent(<<e>>, Titles(i)) /\ Silent(<<e>>, Focuses(i)) /\ Silent(<<e>>, Boosts(p))
      BY <3>3, OneEvent
    <3>5. Settles(<<e>>, Captures, CaptureIs(d.locked))
      BY <3>1, OneEvent
    <3>6. QED
      BY <2>2, <3>2, <3>4, <3>5
  <2>3. QED
    BY <2>1, <2>2
<1>3. /\ Silent(y, Captures)
      /\ \A i : Silent(y, Titles(i)) /\ Silent(y, Focuses(i))
      /\ \A p : 
           /\ Client(d) = k.pid => Silent(y, Boosts(p))
           /\ Client(d) # k.pid /\ Client(d) # NULL /\ p \in Tree[Client(d)] => Settles(y, Boosts(p), BoostOn)
           /\ Client(d) # k.pid /\ (Client(d) = NULL \/ p \notin Tree[Client(d)]) =>
                /\ ~Settles(y, Boosts(p), BoostOn)
                /\ Silent(y, Boosts(p)) <=> k.pid = NULL \/ p \notin Tree[k.pid]
  <2>1. CASE Client(d) = k.pid
    BY <2>1, NoEvents
  <2>2. CASE Client(d) # k.pid
    <3>1. Client(d) \in Proc \cup {NULL}
      BY ClientType
    <3>2. Switch(k.pid, Client(d)) \in Seq(SchedEvent) /\ y = Switch(k.pid, Client(d))
      BY <2>2, <3>1, SwitchType
    <3> HIDE DEF y
    <3>3. Silent(y, Captures) /\ \A i : Silent(y, Titles(i)) /\ Silent(y, Focuses(i))
      BY <3>2, OtherKinds
    <3>4. QED
      BY <2>2, <3>1, <3>2, <3>3, SwitchBoosts
  <2>3. QED
    BY <2>1, <2>2
<1>4. /\ Silent(z, Captures)
      /\ \A i : Silent(z, Titles(i))
      /\ \A p : Silent(z, Boosts(p))
      /\ d.active = desk.active => \A i : Silent(z, Focuses(i))
      /\ d.active # desk.active /\ d.active \in DOMAIN k.ids =>
           Settles(z, Focuses(k.ids[d.active]), FocusIs(k.ids[d.active]))
  <2>1. CASE d.active = desk.active
    BY <2>1, NoEvents
  <2>2. CASE d.active # desk.active
    <3>1. Focus(k, d.active) \in Seq(WindowEvent) /\ z = Focus(k, d.active)
      BY <2>2, FocusType
    <3> HIDE DEF z
    <3>2. Silent(z, Captures) /\ \A p : Silent(z, Boosts(p))
      BY <3>1, OtherKinds
    <3>3. QED
      BY <2>2, <3>1, <3>2, FocusEnds
  <2>3. QED
    BY <2>1, <2>2
<1> HIDE DEF x, y, z
<1>5. x \o y \in Seq(WireEvent)
  BY <1>1, ConcatProperties
<1>6. ASSUME NEW T, NEW G
      PROVE  /\ Silent(Activated(k, d), T) <=> Silent(x, T) /\ Silent(y, T) /\ Silent(z, T)
             /\ Settles(Activated(k, d), T, G)
                  <=> Settles(z, T, G) \/ (Silent(z, T) /\ (Settles(y, T, G) \/ (Silent(y, T) /\ Settles(x, T, G))))
  <2>1. /\ Silent(x \o y, T) <=> Silent(x, T) /\ Silent(y, T)
        /\ Settles(x \o y, T, G) <=> Settles(y, T, G) \/ (Silent(y, T) /\ Settles(x, T, G))
    BY <1>1, ConcatEnds
  <2>2. /\ Silent(x \o y \o z, T) <=> Silent(x \o y, T) /\ Silent(z, T)
        /\ Settles(x \o y \o z, T, G) <=> Settles(z, T, G) \/ (Silent(z, T) /\ Settles(x \o y, T, G))
    <3> DEFINE u == x \o y
    <3>1. u \in Seq(WireEvent)
      BY <1>5
    <3> HIDE DEF u
    <3>2. /\ Silent(u \o z, T) <=> Silent(u, T) /\ Silent(z, T)
          /\ Settles(u \o z, T, G) <=> Settles(z, T, G) \/ (Silent(z, T) /\ Settles(u, T, G))
      BY <3>1, <1>1, ConcatEnds
    <3>3. QED
      BY <3>2 DEF u
  <2>3. QED
    BY <2>1, <2>2, <1>1
<1>7. /\ d.locked = k.capture => Silent(Activated(k, d), Captures)
      /\ d.locked # k.capture => Settles(Activated(k, d), Captures, CaptureIs(d.locked))
  BY <1>2, <1>3, <1>4, <1>6
<1>8. \A i : Silent(Activated(k, d), Titles(i))
  BY <1>2, <1>3, <1>4, <1>6
<1>9. /\ d.active = desk.active => \A i : Silent(Activated(k, d), Focuses(i))
      /\ d.active # desk.active /\ d.active \in DOMAIN k.ids =>
           Settles(Activated(k, d), Focuses(k.ids[d.active]), FocusIs(k.ids[d.active]))
  BY <1>2, <1>3, <1>4, <1>6
<1>10. ASSUME NEW p
       PROVE  /\ Silent(Activated(k, d), Boosts(p)) <=> Silent(y, Boosts(p))
              /\ Settles(Activated(k, d), Boosts(p), BoostOn) <=> Settles(y, Boosts(p), BoostOn)
  <2>1. Silent(x, Boosts(p)) /\ Silent(z, Boosts(p))
    BY <1>2, <1>4
  <2>2. ~Settles(x, Boosts(p), BoostOn) /\ ~Settles(z, Boosts(p), BoostOn)
    BY <2>1, NotBoth
  <2>3. QED
    BY <2>1, <2>2, <1>6
<1>11. QED
  BY <1>1, <1>3, <1>7, <1>8, <1>9, <1>10

-----------------------------------------------------------------------------
(* A change on the desktop, and what the backend makes of it.              *)

\* The desktop becomes d and the backend, which reports evs, k.
KeepsUp(d, k, evs) ==
  /\ DeskType(d) /\ KWinType(k) /\ k.fallback = kwin.fallback
  /\ k.capture = d.locked /\ k.pid = Client(d)
  /\ Numbered(k, d) /\ \A w \in DOMAIN k.ids : k.ids[w] < k.nextId
  /\ evs \in Seq(WireEvent)

\* What the reports do not settle is as it was.
Reports(d, k, evs) ==
  /\ \/ Settles(evs, Captures, CaptureIs(d.locked))
     \/ Silent(evs, Captures) /\ d.locked = desk.locked
  /\ \A w \in DOMAIN d.title :
       \/ Settles(evs, Titles(k.ids[w]), TitleIs(k.ids[w], d.title[w]))
       \/ /\ Silent(evs, Titles(k.ids[w]))
          /\ w \in DOMAIN desk.title /\ kwin.ids[w] = k.ids[w] /\ desk.title[w] = d.title[w]
  /\ d.active # NULL =>
       \/ Settles(evs, Focuses(k.ids[d.active]), FocusIs(k.ids[d.active]))
       \/ Silent(evs, Focuses(k.ids[d.active])) /\ d.active = desk.active /\ kwin.ids[d.active] = k.ids[d.active]
  /\ \A p : 
       /\ Client(d) = Client(desk) => Silent(evs, Boosts(p))
       /\ Client(d) # Client(desk) /\ Client(d) # NULL /\ p \in Tree[Client(d)] =>
            Settles(evs, Boosts(p), BoostOn)
       /\ Client(d) # Client(desk) /\ (Client(d) = NULL \/ p \notin Tree[Client(d)]) =>
            /\ ~Settles(evs, Boosts(p), BoostOn)
            /\ Silent(evs, Boosts(p)) <=> Client(desk) = NULL \/ p \notin Tree[Client(desk)]

LEMMA DeskTypes ==
  ASSUME TypeOK, KWinInv
  PROVE  /\ DeskType(desk) /\ KWinType(kwin) /\ Numbered(kwin, desk)
         /\ kwin.pid = Client(desk) /\ kwin.pid \in Proc \cup {NULL} /\ kwin.capture = desk.locked
         /\ \A w \in DOMAIN kwin.ids : kwin.ids[w] < kwin.nextId
<1>1. DeskType(desk) /\ KWinType(kwin) /\ Numbered(kwin, desk)
  BY DEF TypeOK, KWinInv, DeskType, KWinType, Numbered
<1>2. Client(desk) \in Proc \cup {NULL}
  BY <1>1, ClientType
<1>3. QED
  BY <1>1, <1>2 DEF KWinInv

LEMMA FollowFields ==
  ASSUME NEW k, NEW x, NEW y,
         k = [fallback |-> k.fallback, ids |-> k.ids, nextId |-> k.nextId, capture |-> k.capture, pid |-> k.pid]
  PROVE  [k EXCEPT !.capture = x, !.pid = y]
           = [fallback |-> k.fallback, ids |-> k.ids, nextId |-> k.nextId,
             capture |-> x, pid |-> y]
<1> DEFINE e == [k EXCEPT !.capture = x]
           f == [k EXCEPT !.capture = x, !.pid = y]
<1>1. f = [e EXCEPT !.pid = y]
  OBVIOUS
<1>2. e = [fallback |-> k.fallback, ids |-> k.ids, nextId |-> k.nextId,
             capture |-> x, pid |-> k.pid]
  OBVIOUS
<1> HIDE DEF e, f
<1>3. f = [fallback |-> k.fallback, ids |-> k.ids, nextId |-> k.nextId,
             capture |-> x, pid |-> y]
  BY <1>1, <1>2
<1>4. QED
  BY <1>3 DEF f

LEMMA FollowType ==
  ASSUME NEW k, KWinType(k), NEW d, DeskType(d)
  PROVE  /\ KWinType(Follow(k, d)) /\ Follow(k, d).fallback = k.fallback
         /\ Follow(k, d).ids = k.ids /\ Follow(k, d).nextId = k.nextId
         /\ Follow(k, d).capture = d.locked /\ Follow(k, d).pid = Client(d)
<1>1. Follow(k, d) = [fallback |-> k.fallback, ids |-> k.ids, nextId |-> k.nextId, capture |-> d.locked, pid |-> Client(d)]
  BY FollowFields DEF Follow, KWinType
<1>2. QED
  BY <1>1 DEF KWinType

LEMMA ActivateReports ==
  ASSUME TypeOK, KWinInv, Activate
  PROVE  \E d, k, evs : Change(d, k, evs) /\ KeepsUp(d, k, evs) /\ Reports(d, k, evs)
<1>1. PICK w \in DOMAIN desk.title \cup {NULL}, l \in BOOLEAN :
        Change([desk EXCEPT !.active = w, !.locked = l], Follow(kwin, [desk EXCEPT !.active = w, !.locked = l]),
               Activated(kwin, [desk EXCEPT !.active = w, !.locked = l]))
  BY DEF Activate
<1> DEFINE d == [desk EXCEPT !.active = w, !.locked = l]
           k == Follow(kwin, d)
           evs == Activated(kwin, d)
<1>2. /\ DeskType(desk) /\ KWinType(kwin) /\ Numbered(kwin, desk)
      /\ kwin.pid = Client(desk) /\ kwin.pid \in Proc \cup {NULL} /\ kwin.capture = desk.locked
      /\ \A x \in DOMAIN kwin.ids : kwin.ids[x] < kwin.nextId
  BY DeskTypes
<1>3. d = [active |-> w, locked |-> l, title |-> desk.title]
  <2> DEFINE f == [desk EXCEPT !.active = w]
  <2>1. d = [f EXCEPT !.locked = l]
    OBVIOUS
  <2>2. f = [active |-> w, locked |-> desk.locked, title |-> desk.title]
    BY <1>2 DEF DeskType
  <2> HIDE DEF d, f
  <2>3. QED
    BY <2>1, <2>2
<1>4. DeskType(d) /\ d.title = desk.title
  BY <1>2, <1>3 DEF DeskType
<1>5. Change(d, k, evs)
  BY <1>1
<1> HIDE DEF d
<1>6. /\ KWinType(k) /\ k.fallback = kwin.fallback /\ k.ids = kwin.ids /\ k.nextId = kwin.nextId
      /\ k.capture = d.locked /\ k.pid = Client(d)
  BY <1>2, <1>4, FollowType
<1>7. kwin.ids \in [DOMAIN kwin.ids -> Nat] /\ DOMAIN kwin.ids = DOMAIN desk.title
  BY <1>2 DEF Numbered
<1> HIDE DEF k
<1>8. /\ evs \in Seq(WireEvent)
      /\ d.locked = kwin.capture => Silent(evs, Captures)
      /\ d.locked # kwin.capture => Settles(evs, Captures, CaptureIs(d.locked))
      /\ \A i : Silent(evs, Titles(i))
      /\ d.active = desk.active => \A i : Silent(evs, Focuses(i))
      /\ d.active # desk.active /\ d.active \in DOMAIN kwin.ids =>
           Settles(evs, Focuses(kwin.ids[d.active]), FocusIs(kwin.ids[d.active]))
  BY <1>2, <1>4, <1>7, ActivatedEnds
<1>9. \A p : 
        /\ Client(d) = kwin.pid => Silent(evs, Boosts(p))
        /\ Client(d) # kwin.pid /\ Client(d) # NULL /\ p \in Tree[Client(d)] =>
             Settles(evs, Boosts(p), BoostOn)
        /\ Client(d) # kwin.pid /\ (Client(d) = NULL \/ p \notin Tree[Client(d)]) =>
             /\ ~Settles(evs, Boosts(p), BoostOn)
             /\ Silent(evs, Boosts(p)) <=> kwin.pid = NULL \/ p \notin Tree[kwin.pid]
  BY <1>2, <1>4, <1>7, ActivatedEnds
<1> HIDE DEF evs
<1>10. KeepsUp(d, k, evs)
  BY <1>2, <1>4, <1>6, <1>8 DEF KeepsUp, Numbered
<1>11. d.active # NULL => d.active \in DOMAIN kwin.ids
  BY <1>4, <1>7 DEF DeskType
<1>12. Reports(d, k, evs)
  BY <1>2, <1>4, <1>6, <1>7, <1>8, <1>9, <1>11 DEF Reports
<1>13. QED
  BY <1>5, <1>10, <1>12

LEMMA RetitleReports ==
  ASSUME TypeOK, KWinInv, NEW w \in Win, Retitle(w)
  PROVE  \E d, k, evs : Change(d, k, evs) /\ KeepsUp(d, k, evs) /\ Reports(d, k, evs)
<1> DEFINE d == [desk EXCEPT !.title[w] = 1 - @]
           e == Told(kwin, d, w, "UPDATE")
           i == kwin.ids[w]
<1>1. w \in DOMAIN desk.title /\ Change(d, kwin, <<e>>)
  BY DEF Retitle
<1>2. /\ DeskType(desk) /\ KWinType(kwin) /\ Numbered(kwin, desk)
      /\ kwin.pid = Client(desk) /\ kwin.pid \in Proc \cup {NULL} /\ kwin.capture = desk.locked
      /\ \A x \in DOMAIN kwin.ids : kwin.ids[x] < kwin.nextId
  BY DeskTypes
<1>3. d = [active |-> desk.active, locked |-> desk.locked, title |-> [desk.title EXCEPT ![w] = 1 - desk.title[w]]]
  BY <1>2 DEF DeskType
<1>4. desk.title \in [DOMAIN desk.title -> {0, 1}]
  BY <1>2 DEF DeskType
<1>5. /\ d.active = desk.active /\ d.locked = desk.locked /\ Client(d) = Client(desk)
      /\ DOMAIN d.title = DOMAIN desk.title /\ d.title \in [DOMAIN desk.title -> {0, 1}]
      /\ \A v \in DOMAIN desk.title \ {w} : d.title[v] = desk.title[v]
  BY <1>1, <1>3, <1>4 DEF Client
<1>6. DeskType(d)
  BY <1>2, <1>3, <1>5 DEF DeskType
<1> HIDE DEF d
<1>7. kwin.ids \in [DOMAIN kwin.ids -> Nat] /\ DOMAIN kwin.ids = DOMAIN desk.title
  BY <1>2 DEF Numbered
<1>8. e \in WindowEvent
  BY <1>1, <1>5, <1>7, ToldType
<1>9. e.id = i /\ e.action = "UPDATE" /\ e.title = d.title[w] /\ e.focus = (d.active = w)
  BY DEF Told, Window
<1>10. e \in WireEvent
  BY <1>8 DEF WireEvent
<1> HIDE DEF e
<1>11. <<e>> \in Seq(WireEvent)
  BY <1>10
<1>12. KeepsUp(d, kwin, <<e>>)
  BY <1>2, <1>5, <1>6, <1>11 DEF KeepsUp, Numbered
<1>13. Silent(<<e>>, Captures) /\ \A p : Silent(<<e>>, Boosts(p))
  <2>1. e \notin Captures /\ \A p : e \notin Boosts(p)
    BY <1>8, Kinds
  <2>2. QED
    BY <2>1, OneEvent
<1>14. ASSUME NEW v \in DOMAIN d.title
       PROVE  \/ Settles(<<e>>, Titles(kwin.ids[v]), TitleIs(kwin.ids[v], d.title[v]))
              \/ Silent(<<e>>, Titles(kwin.ids[v])) /\ desk.title[v] = d.title[v]
  <2>1. CASE v = w
    <3>1. e \in Titles(kwin.ids[v]) \cap TitleIs(kwin.ids[v], d.title[v])
      BY <2>1, <1>8, <1>9 DEF Titles, TitleIs
    <3>2. QED
      BY <3>1, OneEvent
  <2>2. CASE v # w
    <3>1. kwin.ids[v] # i
      BY <2>2, <1>1, <1>2, <1>5 DEF Numbered
    <3>2. e \notin Titles(kwin.ids[v])
      BY <3>1, <1>9 DEF Titles
    <3>3. QED
      BY <2>2, <3>2, <1>5, OneEvent
  <2>3. QED
    BY <2>1, <2>2
<1>15. ASSUME d.active # NULL
       PROVE  \/ Settles(<<e>>, Focuses(kwin.ids[d.active]), FocusIs(kwin.ids[d.active]))
              \/ Silent(<<e>>, Focuses(kwin.ids[d.active]))
  <2>1. CASE d.active = w
    <3>1. e \in Focuses(kwin.ids[d.active]) \cap FocusIs(kwin.ids[d.active])
      BY <2>1, <1>8, <1>9 DEF Focuses, FocusIs
    <3>2. QED
      BY <3>1, OneEvent
  <2>2. CASE d.active # w
    <3>1. e \notin Focuses(kwin.ids[d.active])
      BY <2>2, <1>9 DEF Focuses
    <3>2. QED
      BY <3>1, OneEvent
  <2>3. QED
    BY <2>1, <2>2
<1>16. Reports(d, kwin, <<e>>)
  BY <1>5, <1>13, <1>14, <1>15 DEF Reports
<1>17. QED
  BY <1>1, <1>12, <1>16

LEMMA TrackReports ==
  ASSUME TypeOK, KWinInv, NEW w \in Win, TrackWindow(w)
  PROVE  \E d, k, evs : Change(d, k, evs) /\ KeepsUp(d, k, evs) /\ Reports(d, k, evs)
<1> DEFINE d0 == [desk EXCEPT !.title = With(@, w, 0)]
           d  == [d0 EXCEPT !.active = w, !.locked = FALSE]
           k  == [kwin EXCEPT !.ids = With(@, w, kwin.nextId), !.nextId = @ + 1]
           e  == Told(k, d0, w, "CREATE")
           s  == Activated(k, d)
           g  == Follow(k, d)
<1>1. w \notin DOMAIN desk.title /\ Change(d, g, <<e>> \o s)
  BY DEF TrackWindow
<1>2. /\ DeskType(desk) /\ KWinType(kwin) /\ Numbered(kwin, desk)
      /\ kwin.pid = Client(desk) /\ kwin.pid \in Proc \cup {NULL} /\ kwin.capture = desk.locked
      /\ \A x \in DOMAIN kwin.ids : kwin.ids[x] < kwin.nextId
  BY DeskTypes
<1>3. /\ kwin.ids \in [DOMAIN kwin.ids -> Nat] /\ DOMAIN kwin.ids = DOMAIN desk.title /\ IsFiniteSet(DOMAIN kwin.ids)
      /\ \A u, v \in DOMAIN kwin.ids : kwin.ids[u] = kwin.ids[v] => u = v
      /\ kwin.nextId \in Nat /\ desk.title \in [DOMAIN desk.title -> {0, 1}] /\ DOMAIN desk.title \subseteq Win
      /\ w # NULL /\ desk.active # w
  BY <1>1, <1>2, SidebandAssumption DEF Numbered, DeskType, KWinType
<1>4. d0 = [active |-> desk.active, locked |-> desk.locked, title |-> With(desk.title, w, 0)]
  BY <1>2 DEF DeskType
<1>5. d = [active |-> w, locked |-> FALSE, title |-> With(desk.title, w, 0)]
  <2>1. d0 = [active |-> d0.active, locked |-> d0.locked, title |-> d0.title] /\ d0.title = With(desk.title, w, 0)
    BY <1>4
  <2> DEFINE f == [d0 EXCEPT !.active = w]
  <2>2. d = [f EXCEPT !.locked = FALSE]
    OBVIOUS
  <2> HIDE DEF d, d0
  <2>3. f = [active |-> w, locked |-> d0.locked, title |-> d0.title]
    BY <2>1
  <2> HIDE DEF f
  <2>4. QED
    BY <2>1, <2>2, <2>3
<1>6. k = [fallback |-> kwin.fallback, ids |-> With(kwin.ids, w, kwin.nextId), nextId |-> kwin.nextId + 1,
           capture |-> kwin.capture, pid |-> kwin.pid]
  <2> DEFINE f == [kwin EXCEPT !.ids = With(@, w, kwin.nextId)]
  <2>1. k = [f EXCEPT !.nextId = @ + 1]
    OBVIOUS
  <2>2. f = [fallback |-> kwin.fallback, ids |-> With(kwin.ids, w, kwin.nextId), nextId |-> kwin.nextId,
             capture |-> kwin.capture, pid |-> kwin.pid]
    BY <1>2 DEF KWinType
  <2> HIDE DEF f, k
  <2>3. QED
    BY <2>1, <2>2
<1> DEFINE ts == With(desk.title, w, 0)
           is == With(kwin.ids, w, kwin.nextId)
<1>7. /\ ts \in [DOMAIN desk.title \cup {w} -> {0, 1}] /\ ts[w] = 0
      /\ \A v \in DOMAIN desk.title : ts[v] = desk.title[v]
  BY <1>1, <1>3 DEF With
<1>8. /\ is \in [DOMAIN kwin.ids \cup {w} -> Nat] /\ is[w] = kwin.nextId
      /\ \A v \in DOMAIN kwin.ids : is[v] = kwin.ids[v]
  BY <1>1, <1>3 DEF With
<1> HIDE DEF ts, is
<1>9. DeskType(d) /\ d.active = w /\ d.title = ts /\ d.locked = FALSE /\ d.title[w] = 0
  BY <1>3, <1>5, <1>7 DEF DeskType, ts
<1>10. d0.active = desk.active /\ d0.title = ts
  BY <1>4 DEF ts
<1>11. KWinType(k) /\ k.ids = is /\ k.pid = kwin.pid /\ k.capture = kwin.capture /\ k.nextId = kwin.nextId + 1
       /\ k.fallback = kwin.fallback
  BY <1>2, <1>3, <1>6, <1>8 DEF KWinType, is
<1> HIDE DEF d0, d, k
<1>12. /\ KWinType(g) /\ g.fallback = kwin.fallback /\ g.ids = is /\ g.nextId = kwin.nextId + 1
       /\ g.capture = d.locked /\ g.pid = Client(d)
  BY <1>9, <1>11, FollowType
<1> HIDE DEF g
<1>13. /\ IsFiniteSet(DOMAIN is)
       /\ \A v \in DOMAIN is : is[v] < kwin.nextId + 1
       /\ \A u, v \in DOMAIN is : is[u] = is[v] => u = v
  <2>1. IsFiniteSet(DOMAIN is)
    BY <1>3, <1>8, FS_AddElement
  <2>2. \A v \in DOMAIN is : v = w \/ (v \in DOMAIN kwin.ids /\ kwin.ids[v] < kwin.nextId /\ kwin.ids[v] \in Nat)
    BY <1>2, <1>3, <1>8
  <2>3. QED
    BY <2>1, <2>2, <1>3, <1>8
<1>14. Numbered(g, d)
  BY <1>3, <1>7, <1>8, <1>9, <1>12, <1>13 DEF Numbered
<1>15. e \in WindowEvent
  <2>1. k.ids \in [DOMAIN k.ids -> Nat] /\ w \in DOMAIN k.ids /\ d0.title[w] \in {0, 1}
    BY <1>7, <1>8, <1>10, <1>11
  <2>2. QED
    BY <2>1, ToldType
<1>16. e.id = is[w] /\ e.action = "CREATE" /\ e.title = 0 /\ e.focus = FALSE
  BY <1>3, <1>7, <1>10, <1>11 DEF Told, Window
<1>17. /\ s \in Seq(WireEvent)
       /\ d.locked = kwin.capture => Silent(s, Captures)
       /\ d.locked # kwin.capture => Settles(s, Captures, CaptureIs(d.locked))
       /\ \A i : Silent(s, Titles(i))
       /\ Settles(s, Focuses(is[w]), FocusIs(is[w]))
  BY <1>2, <1>3, <1>8, <1>9, <1>11, ActivatedEnds
<1>18. \A p : 
         /\ Client(d) = kwin.pid => Silent(s, Boosts(p))
         /\ Client(d) # kwin.pid /\ Client(d) # NULL /\ p \in Tree[Client(d)] => Settles(s, Boosts(p), BoostOn)
         /\ Client(d) # kwin.pid /\ (Client(d) = NULL \/ p \notin Tree[Client(d)]) =>
              /\ ~Settles(s, Boosts(p), BoostOn)
              /\ Silent(s, Boosts(p)) <=> kwin.pid = NULL \/ p \notin Tree[kwin.pid]
  BY <1>2, <1>8, <1>9, <1>11, ActivatedEnds
<1>19. e \in WireEvent /\ e \notin Captures /\ \A p : e \notin Boosts(p)
  BY <1>15, Kinds DEF WireEvent
<1> HIDE DEF e, s
<1>20. <<e>> \in Seq(WireEvent)
  BY <1>19
<1>21. <<e>> \o s \in Seq(WireEvent)
  BY <1>17, <1>20, ConcatProperties
<1>22. ASSUME NEW T, NEW G
       PROVE  /\ Silent(<<e>> \o s, T) <=> e \notin T /\ Silent(s, T)
              /\ Settles(<<e>> \o s, T, G) <=> Settles(s, T, G) \/ (Silent(s, T) /\ e \in T \cap G)
  <2>1. (Silent(<<e>>, T) <=> e \notin T) /\ (Settles(<<e>>, T, G) <=> e \in T \cap G)
    BY OneEvent
  <2>2. /\ Silent(<<e>> \o s, T) <=> Silent(<<e>>, T) /\ Silent(s, T)
        /\ Settles(<<e>> \o s, T, G) <=> Settles(s, T, G) \/ (Silent(s, T) /\ Settles(<<e>>, T, G))
    BY <1>17, <1>20, ConcatEnds
  <2>3. QED
    BY <2>1, <2>2
<1>23. KeepsUp(d, g, <<e>> \o s)
  BY <1>9, <1>12, <1>13, <1>14, <1>21 DEF KeepsUp
<1>24. \/ Settles(<<e>> \o s, Captures, CaptureIs(d.locked))
       \/ Silent(<<e>> \o s, Captures) /\ d.locked = desk.locked
  BY <1>2, <1>17, <1>19, <1>22
<1>25. ASSUME NEW v \in DOMAIN d.title
       PROVE  \/ Settles(<<e>> \o s, Titles(is[v]), TitleIs(is[v], d.title[v]))
              \/ /\ Silent(<<e>> \o s, Titles(is[v]))
                 /\ v \in DOMAIN desk.title /\ kwin.ids[v] = is[v] /\ desk.title[v] = d.title[v]
  <2>1. CASE v = w
    <3>1. e \in Titles(is[v]) \cap TitleIs(is[v], d.title[v])
      BY <2>1, <1>9, <1>15, <1>16 DEF Titles, TitleIs
    <3>2. QED
      BY <3>1, <1>17, <1>22
  <2>2. CASE v # w
    <3>1. v \in DOMAIN desk.title /\ kwin.ids[v] = is[v] /\ desk.title[v] = d.title[v]
      BY <2>2, <1>3, <1>7, <1>8, <1>9
    <3>2. is[v] # is[w]
      BY <2>2, <3>1, <1>3, <1>8, <1>13
    <3>3. e \notin Titles(is[v])
      BY <3>2, <1>16 DEF Titles
    <3>4. QED
      BY <3>1, <3>3, <1>17, <1>22
  <2>3. QED
    BY <2>1, <2>2
<1>26. Settles(<<e>> \o s, Focuses(is[w]), FocusIs(is[w]))
  BY <1>17, <1>22
<1>27. ASSUME NEW p
       PROVE  /\ Silent(<<e>> \o s, Boosts(p)) <=> Silent(s, Boosts(p))
              /\ Settles(<<e>> \o s, Boosts(p), BoostOn) <=> Settles(s, Boosts(p), BoostOn)
  BY <1>19, <1>22
<1>28. Reports(d, g, <<e>> \o s)
  BY <1>2, <1>9, <1>12, <1>18, <1>24, <1>25, <1>26, <1>27 DEF Reports
<1>29. QED
  BY <1>1, <1>23, <1>28

LEMMA UntrackReports ==
  ASSUME TypeOK, KWinInv, NEW w \in Win, UntrackWindow(w)
  PROVE  \E d, k, evs : Change(d, k, evs) /\ KeepsUp(d, k, evs) /\ Reports(d, k, evs)
<1> DEFINE D(v) == [active |-> IF desk.active = w THEN v ELSE desk.active,
                    locked |-> desk.locked /\ desk.active # w, title |-> Without(desk.title, w)]
<1>1. PICK v \in (DOMAIN desk.title \ {w}) \cup {NULL} :
        Change(D(v), [Follow(kwin, D(v)) EXCEPT !.ids = Without(@, w)],
               Activated(kwin, D(v)) \o <<Window(kwin.ids[w], "DESTROY", 0, FALSE)>>)
  BY DEF UntrackWindow
<1>2. w \in DOMAIN desk.title
  BY DEF UntrackWindow
<1> DEFINE d == D(v)
           k == [Follow(kwin, d) EXCEPT !.ids = Without(@, w)]
           e == Window(kwin.ids[w], "DESTROY", 0, FALSE)
           s == Activated(kwin, d)
<1>3. Change(d, k, s \o <<e>>)
  BY <1>1
<1>4. /\ DeskType(desk) /\ KWinType(kwin) /\ Numbered(kwin, desk)
      /\ kwin.pid = Client(desk) /\ kwin.pid \in Proc \cup {NULL} /\ kwin.capture = desk.locked
      /\ \A x \in DOMAIN kwin.ids : kwin.ids[x] < kwin.nextId
  BY DeskTypes
<1>5. /\ kwin.ids \in [DOMAIN kwin.ids -> Nat] /\ DOMAIN kwin.ids = DOMAIN desk.title /\ IsFiniteSet(DOMAIN kwin.ids)
      /\ \A x, y \in DOMAIN kwin.ids : kwin.ids[x] = kwin.ids[y] => x = y
      /\ desk.title \in [DOMAIN desk.title -> {0, 1}] /\ DOMAIN desk.title \subseteq Win
      /\ desk.active \in DOMAIN desk.title \cup {NULL} /\ desk.locked \in BOOLEAN
  BY <1>4 DEF Numbered, DeskType
<1> DEFINE ts == Without(desk.title, w)
           is == Without(kwin.ids, w)
<1>6. ts \in [DOMAIN desk.title \ {w} -> {0, 1}] /\ \A x \in DOMAIN desk.title \ {w} : ts[x] = desk.title[x]
  BY <1>5 DEF Without
<1>7. is \in [DOMAIN kwin.ids \ {w} -> Nat] /\ \A x \in DOMAIN kwin.ids \ {w} : is[x] = kwin.ids[x]
  BY <1>5 DEF Without
<1>8. d.title = ts /\ d.active \in (DOMAIN desk.title \ {w}) \cup {NULL} /\ d.locked \in BOOLEAN
      /\ d = [active |-> d.active, locked |-> d.locked, title |-> d.title]
      /\ (d.active # desk.active \/ d.locked # desk.locked => desk.active = w)
  BY <1>1, <1>5
<1> HIDE DEF d, ts, is
<1>9. DeskType(d)
  BY <1>5, <1>6, <1>8 DEF DeskType
<1>10. /\ KWinType(Follow(kwin, d)) /\ Follow(kwin, d).fallback = kwin.fallback
       /\ Follow(kwin, d).ids = kwin.ids /\ Follow(kwin, d).nextId = kwin.nextId
       /\ Follow(kwin, d).capture = d.locked /\ Follow(kwin, d).pid = Client(d)
  BY <1>4, <1>9, FollowType
<1>11. /\ KWinType(k) /\ k.fallback = kwin.fallback /\ k.ids = is /\ k.nextId = kwin.nextId
       /\ k.capture = d.locked /\ k.pid = Client(d)
  BY <1>10, <1>7 DEF KWinType, is
<1> HIDE DEF k
<1>12. /\ IsFiniteSet(DOMAIN is)
       /\ \A x \in DOMAIN is : is[x] < kwin.nextId
       /\ \A x, y \in DOMAIN is : is[x] = is[y] => x = y
  <2>1. IsFiniteSet(DOMAIN is)
    BY <1>5, <1>7, FS_RemoveElement
  <2>2. QED
    BY <2>1, <1>4, <1>5, <1>7
<1>13. Numbered(k, d)
  BY <1>5, <1>6, <1>7, <1>8, <1>11, <1>12 DEF Numbered
<1>14. /\ s \in Seq(WireEvent)
       /\ d.locked = kwin.capture => Silent(s, Captures)
       /\ d.locked # kwin.capture => Settles(s, Captures, CaptureIs(d.locked))
       /\ \A i : Silent(s, Titles(i))
       /\ d.active = desk.active => \A i : Silent(s, Focuses(i))
       /\ d.active # desk.active /\ d.active \in DOMAIN kwin.ids =>
            Settles(s, Focuses(kwin.ids[d.active]), FocusIs(kwin.ids[d.active]))
  BY <1>4, <1>5, <1>9, ActivatedEnds
<1>15. \A p : 
         /\ Client(d) = kwin.pid => Silent(s, Boosts(p))
         /\ Client(d) # kwin.pid /\ Client(d) # NULL /\ p \in Tree[Client(d)] => Settles(s, Boosts(p), BoostOn)
         /\ Client(d) # kwin.pid /\ (Client(d) = NULL \/ p \notin Tree[Client(d)]) =>
              /\ ~Settles(s, Boosts(p), BoostOn)
              /\ Silent(s, Boosts(p)) <=> kwin.pid = NULL \/ p \notin Tree[kwin.pid]
  BY <1>4, <1>5, <1>9, ActivatedEnds
<1>16. e \in WindowEvent /\ e.id = kwin.ids[w] /\ e.action = "DESTROY"
  BY <1>2, <1>5 DEF Window, WindowEvent
<1>17. e \in WireEvent /\ e \notin Captures /\ \A p : e \notin Boosts(p)
  BY <1>16, Kinds DEF WireEvent
<1> HIDE DEF e, s
<1>18. <<e>> \in Seq(WireEvent)
  BY <1>17
<1>19. s \o <<e>> \in Seq(WireEvent)
  BY <1>14, <1>18, ConcatProperties
<1>20. ASSUME NEW T, NEW G, e \notin T
       PROVE  /\ Silent(s \o <<e>>, T) <=> Silent(s, T)
              /\ Settles(s \o <<e>>, T, G) <=> Settles(s, T, G)
  <2>1. (Silent(<<e>>, T) <=> e \notin T) /\ (Settles(<<e>>, T, G) <=> e \in T \cap G)
    BY OneEvent
  <2>2. /\ Silent(s \o <<e>>, T) <=> Silent(s, T) /\ Silent(<<e>>, T)
        /\ Settles(s \o <<e>>, T, G) <=> Settles(<<e>>, T, G) \/ (Silent(<<e>>, T) /\ Settles(s, T, G))
    BY <1>14, <1>18, ConcatEnds
  <2>3. QED
    BY <2>1, <2>2, <1>20
<1>21. ASSUME NEW x \in DOMAIN d.title
       PROVE  /\ e \notin Titles(is[x]) /\ e \notin Focuses(is[x])
              /\ x \in DOMAIN desk.title /\ kwin.ids[x] = is[x] /\ desk.title[x] = d.title[x]
  <2>1. x \in DOMAIN desk.title \ {w} /\ kwin.ids[x] = is[x] /\ desk.title[x] = d.title[x]
    BY <1>5, <1>6, <1>7, <1>8
  <2>2. kwin.ids[x] # kwin.ids[w]
    BY <2>1, <1>2, <1>5
  <2>3. QED
    BY <2>1, <2>2, <1>16 DEF Titles, Focuses
<1>22. KeepsUp(d, k, s \o <<e>>)
  BY <1>9, <1>11, <1>12, <1>13, <1>19 DEF KeepsUp
<1>23. \/ Settles(s \o <<e>>, Captures, CaptureIs(d.locked))
       \/ Silent(s \o <<e>>, Captures) /\ d.locked = desk.locked
  BY <1>4, <1>14, <1>17, <1>20
<1>24. ASSUME NEW x \in DOMAIN d.title
       PROVE  /\ Silent(s \o <<e>>, Titles(is[x]))
              /\ x \in DOMAIN desk.title /\ kwin.ids[x] = is[x] /\ desk.title[x] = d.title[x]
  BY <1>14, <1>20, <1>21
<1>25. ASSUME d.active # NULL
       PROVE  \/ Settles(s \o <<e>>, Focuses(is[d.active]), FocusIs(is[d.active]))
              \/ /\ Silent(s \o <<e>>, Focuses(is[d.active])) /\ d.active = desk.active
                 /\ kwin.ids[d.active] = is[d.active]
  <2>1. d.active \in DOMAIN d.title
    BY <1>9, <1>25 DEF DeskType
  <2>2. d.active \in DOMAIN kwin.ids /\ kwin.ids[d.active] = is[d.active] /\ e \notin Focuses(is[d.active])
    BY <2>1, <1>5, <1>21
  <2>3. CASE d.active = desk.active
    BY <2>2, <2>3, <1>14, <1>20
  <2>4. CASE d.active # desk.active
    <3>1. Settles(s, Focuses(is[d.active]), FocusIs(is[d.active]))
      BY <2>2, <2>4, <1>14
    <3>2. QED
      BY <3>1, <2>2, <1>20
  <2>5. QED
    BY <2>3, <2>4
<1>26. ASSUME NEW p
       PROVE  /\ Silent(s \o <<e>>, Boosts(p)) <=> Silent(s, Boosts(p))
              /\ Settles(s \o <<e>>, Boosts(p), BoostOn) <=> Settles(s, Boosts(p), BoostOn)
  BY <1>17, <1>20
<1>27. Reports(d, k, s \o <<e>>)
  BY <1>4, <1>11, <1>15, <1>23, <1>24, <1>25, <1>26 DEF Reports
<1>28. QED
  BY <1>3, <1>22, <1>27

\* Whatever changes, the backend reports it: it is a Change that keeps up.
LEMMA Changed ==
  ASSUME TypeOK, KWinInv, Activate \/ \E w \in Win : TrackWindow(w) \/ UntrackWindow(w) \/ Retitle(w)
  PROVE  \E d, k, evs : Change(d, k, evs) /\ KeepsUp(d, k, evs) /\ Reports(d, k, evs)
BY ActivateReports, TrackReports, UntrackReports, RetitleReports

-----------------------------------------------------------------------------
(* Every step keeps the types, the stacks and what goes with the channel.  *)

Base == TypeOK /\ StackInv /\ LinkInv /\ KWinInv /\ BoostTypes

LEMMA NoEntries ==
  ASSUME NEW f, f = <<>>, NEW S
  PROVE  DOMAIN f = {} /\ f \in [DOMAIN f -> S] /\ f = [x \in DOMAIN f |-> f[x]]
<1>1. DOMAIN <<>> = {} /\ <<>> = [x \in {} |-> 0]
  OBVIOUS
<1>2. f = [x \in {} |-> 0]
  BY <1>1
<1>3. QED
  BY <1>2

LEMMA InitBase ==
  ASSUME Init
  PROVE  Base
<1>1. TypeOK
  <2>1. /\ desk = EmptyDesk /\ kwin = NewBackend /\ link = "none" /\ notice = FALSE
        /\ con = [running |-> TRUE, fallback |-> TRUE, event_running |-> FALSE, anchor |-> FALSE]
        /\ stack = [render |-> <<"connect">>, event |-> <<>>, ui |-> <<>>]
        /\ app = [forced |-> FALSE, windows |-> <<>>, active |-> 0]
        /\ wire = <<>> /\ ui = <<>>
    BY DEF Init
  <2>3. wire \in Seq(VarEvent \cup SchedEvent \cup WindowEvent) /\ ui \in Seq(VarEvent \cup ResetEvent \cup WindowEvent)
    BY <2>1
  <2>4. stack["event"] # <<"set", "poll">>
    BY <2>1
  <2>5. /\ desk = [active |-> desk.active, locked |-> desk.locked, title |-> desk.title]
        /\ desk.locked \in BOOLEAN /\ desk.title = <<>> /\ desk.active = NULL
    BY <2>1 DEF EmptyDesk
  <2>6. /\ kwin = [fallback |-> kwin.fallback, ids |-> kwin.ids, nextId |-> kwin.nextId, capture |-> kwin.capture, pid |-> kwin.pid]
        /\ kwin.fallback \in BOOLEAN /\ kwin.ids = <<>> /\ kwin.nextId = 1
    BY <2>1 DEF NewBackend
  <2>8. DeskType(desk) /\ KWinType(kwin)
    <3>1. DOMAIN desk.title = {} /\ desk.title \in [DOMAIN desk.title -> {0, 1}]
      BY <2>5, NoEntries
    <3>2. kwin.ids \in [DOMAIN kwin.ids -> Nat]
      BY <2>6, NoEntries
    <3>3. QED
      BY <2>5, <2>6, <3>1, <3>2 DEF DeskType, KWinType
  <2>9. app.windows = [i \in DOMAIN app.windows |-> app.windows[i]]
    <3>1. app.windows = <<>>
      BY <2>1
    <3>2. QED
      BY <3>1, NoEntries
  <2>10. /\ con \in [running : BOOLEAN, fallback : BOOLEAN, event_running : BOOLEAN, anchor : BOOLEAN]
         /\ app = [forced |-> app.forced, windows |-> app.windows, active |-> app.active]
    BY <2>1
  <2>11. QED
    BY <2>1, <2>3, <2>4, <2>8, <2>9, <2>10 DEF TypeOK, DeskType, KWinType
<1>2. StackInv
  BY DEF Init, StackInv, RenderStacks, EventStacks, UiStacks, Joined, Stopping
<1>3. LinkInv
  BY DEF Init, LinkInv, RenderCb
<1>4. KWinInv
  <2>1. DOMAIN <<>> = {}
    OBVIOUS
  <2>2. kwin.ids = <<>> /\ desk.title = <<>> /\ kwin.capture = desk.locked /\ kwin.pid = Client(desk)
    BY DEF Init, EmptyDesk, NewBackend, Client
  <2>3. QED
    BY <2>1, <2>2, FS_EmptySet DEF KWinInv
<1>5. BoostTypes
  BY DEF Init, BoostTypes
<1>6. QED
  BY <1>1, <1>2, <1>3, <1>4, <1>5 DEF Base

LEMMA ChangeBase ==
  ASSUME Base, NEW d, NEW k, NEW evs, Change(d, k, evs), KeepsUp(d, k, evs)
  PROVE  Base'
<1>1. /\ desk' = d /\ UNCHANGED <<link, notice, con, mode, stack, hand, ui, app, boosted, carried>>
      /\ k.fallback = kwin.fallback /\ Report(k, evs)
  BY DEF Change, phone, KeepsUp
<1>2. /\ kwin' = k \/ (link # "up" /\ kwin' = [k EXCEPT !.fallback = TRUE])
      /\ wire' = wire \/ (link = "up" /\ wire' = wire \o evs)
  BY <1>1 DEF Report
<1>3. /\ KWinType(kwin') /\ kwin'.ids = k.ids /\ kwin'.nextId = k.nextId /\ kwin'.capture = k.capture
      /\ kwin'.pid = k.pid /\ (link = "up" => kwin'.fallback = k.fallback)
  BY <1>2 DEF KeepsUp, KWinType
<1>4. wire' \in Seq(WireEvent)
  <2>1. wire \in Seq(WireEvent) /\ evs \in Seq(WireEvent)
    BY DEF Base, TypeOK, KeepsUp, WireEvent
  <2>2. wire \o evs \in Seq(WireEvent)
    BY <2>1, ConcatProperties
  <2>3. QED
    BY <2>1, <2>2, <1>2
<1>5. TypeOK'
  BY <1>1, <1>3, <1>4 DEF Base, TypeOK, KeepsUp, DeskType, KWinType, WireEvent
<1>6. StackInv'
  BY <1>1 DEF Base, StackInv
<1>7. LinkInv'
  BY <1>1, <1>2, <1>3 DEF Base, LinkInv, At
<1>8. KWinInv'
  BY <1>1, <1>3 DEF KeepsUp, KWinInv, Numbered, Client
<1>9. BoostTypes'
  BY <1>1 DEF Base, BoostTypes
<1>10. QED
  BY <1>5, <1>6, <1>7, <1>8, <1>9 DEF Base

LEMMA PickUpBase ==
  ASSUME Base, PickUp
  PROVE  Base'
<1>1. TypeOK'
  BY DEF PickUp, Base, TypeOK, phone
<1>2. StackInv'
  BY DEF PickUp, Base, StackInv, phone
<1>3. LinkInv'
  BY DEF PickUp, Base, LinkInv, phone, At
<1>4. KWinInv' /\ BoostTypes'
  BY DEF PickUp, Base, KWinInv, BoostTypes, phone, Client
<1>5. QED
  BY <1>1, <1>2, <1>3, <1>4 DEF Base

LEMMA ReconnectedTells ==
  ASSUME Base, ConsumerReconnected
  PROVE  /\ Reassert(kwin, desk) \in Seq(WireEvent) /\ wire = <<>> /\ wire' = Reassert(kwin, desk)
         /\ link = "bufs" /\ link' = "up" /\ UNCHANGED <<desk, notice, phone>>
         /\ KWinType(kwin') /\ kwin'.ids = kwin.ids /\ kwin'.nextId = kwin.nextId /\ kwin'.capture = kwin.capture
         /\ kwin'.pid = kwin.pid /\ ~kwin'.fallback
         /\ DeskType(desk) /\ Numbered(kwin, desk) /\ kwin.capture \in BOOLEAN /\ kwin.pid = Client(desk)
<1>1. DeskType(desk) /\ KWinType(kwin) /\ Numbered(kwin, desk) /\ kwin.capture \in BOOLEAN /\ kwin.pid = Client(desk)
  BY DeskTypes DEF Base, DeskType
<1>2. Reassert(kwin, desk) \in Seq(WireEvent)
  BY <1>1, ReassertEnds
<1>3. /\ link = "bufs" /\ link' = "up" /\ UNCHANGED <<desk, notice, phone>>
      /\ kwin' = [kwin EXCEPT !.fallback = FALSE, !.pid = Client(desk)] /\ wire' = wire \o Reassert(kwin, desk)
  BY DEF ConsumerReconnected
<1>4. wire = <<>>
  BY <1>3 DEF Base, LinkInv
<1>5. wire' = Reassert(kwin, desk)
  <2>1. <<>> \o Reassert(kwin, desk) = Reassert(kwin, desk)
    BY <1>2, ConcatEmptySeq
  <2>2. QED
    BY <2>1, <1>3, <1>4
<1>6. KWinType(kwin') /\ kwin'.ids = kwin.ids /\ kwin'.nextId = kwin.nextId /\ kwin'.capture = kwin.capture
      /\ kwin'.pid = kwin.pid /\ ~kwin'.fallback
  <2> DEFINE f == [kwin EXCEPT !.fallback = FALSE]
  <2>1. kwin' = [f EXCEPT !.pid = Client(desk)] /\ f = [kwin EXCEPT !.fallback = FALSE]
    BY <1>3
  <2> HIDE DEF f
  <2>2. KWinType(f) /\ f.ids = kwin.ids /\ f.nextId = kwin.nextId /\ f.capture = kwin.capture /\ ~f.fallback
    BY <2>1, <1>1 DEF KWinType
  <2>3. QED
    BY <2>1, <2>2, <1>1 DEF KWinType
<1>7. QED
  BY <1>1, <1>2, <1>3, <1>4, <1>5, <1>6

LEMMA ReconnectedBase ==
  ASSUME Base, ConsumerReconnected
  PROVE  Base'
<1>1. /\ Reassert(kwin, desk) \in Seq(WireEvent) /\ wire' = Reassert(kwin, desk)
      /\ link = "bufs" /\ link' = "up" /\ UNCHANGED <<desk, notice, phone>>
      /\ KWinType(kwin') /\ kwin'.ids = kwin.ids /\ kwin'.nextId = kwin.nextId /\ kwin'.capture = kwin.capture
      /\ kwin'.pid = kwin.pid /\ ~kwin'.fallback
  BY ReconnectedTells
<1>2. UNCHANGED <<con, mode, stack, hand, ui, app, boosted, carried>>
  BY <1>1 DEF phone
<1>3. TypeOK'
  BY <1>1, <1>2 DEF Base, TypeOK, KWinType, WireEvent
<1>4. StackInv'
  BY <1>1, <1>2 DEF Base, StackInv
<1>5. LinkInv'
  BY <1>1, <1>2 DEF Base, LinkInv, At
<1>6. KWinInv' /\ BoostTypes'
  BY <1>1, <1>2 DEF Base, KWinInv, BoostTypes, Client
<1>7. QED
  BY <1>3, <1>4, <1>5, <1>6 DEF Base

LEMMA LostBase ==
  ASSUME Base, KWinLost
  PROVE  Base'
<1>1. /\ kwin' = [kwin EXCEPT !.fallback = TRUE] /\ UNCHANGED <<desk, wire, notice, phone>>
      /\ (link' = link /\ link # "up") \/ (link' = "hup" /\ link \in {"held", "bufs", "up"})
  BY DEF KWinLost
<1>2. UNCHANGED <<con, mode, stack, hand, ui, app, boosted, carried>>
  BY <1>1 DEF phone
<1>3. /\ KWinType(kwin') /\ kwin'.ids = kwin.ids /\ kwin'.nextId = kwin.nextId /\ kwin'.capture = kwin.capture
      /\ kwin'.pid = kwin.pid
  BY <1>1 DEF Base, TypeOK, KWinType
<1>4. TypeOK'
  BY <1>1, <1>2, <1>3 DEF Base, TypeOK, KWinType
<1>5. StackInv'
  BY <1>1, <1>2 DEF Base, StackInv
<1>6. LinkInv'
  BY <1>1, <1>2 DEF Base, LinkInv, At
<1>7. KWinInv' /\ BoostTypes'
  BY <1>1, <1>2, <1>3 DEF Base, KWinInv, BoostTypes, Client
<1>8. QED
  BY <1>4, <1>5, <1>6, <1>7 DEF Base

LEMMA RestartsBase ==
  ASSUME Base, KWinRestarts
  PROVE  Base'
<1>1. /\ desk' = EmptyDesk /\ kwin' = NewBackend /\ boosted' = {} /\ carried' = NULL
      /\ link' = IF link \in {"held", "bufs", "up"} THEN "hup" ELSE link
      /\ UNCHANGED <<wire, notice, con, mode, ui, app>>
  BY DEF KWinRestarts
<1>2. /\ OnlyMoves("event")
      /\ stack'["event"] = IF stack["event"] = <<"set", "poll">> THEN <<"poll">> ELSE stack["event"]
  BY RestartStack DEF Base
<1>3. stack'["render"] = stack["render"] /\ stack'["ui"] = stack["ui"]
      /\ stack' = [render |-> stack'["render"], event |-> stack'["event"], ui |-> stack'["ui"]]
  BY <1>2 DEF OnlyMoves, Thread
<1>4. TypeOK'
  <2>2. stack'["event"] # <<"set", "poll">>
    BY <1>2
  <2>3. /\ desk' = [active |-> desk'.active, locked |-> desk'.locked, title |-> desk'.title]
        /\ desk'.locked \in BOOLEAN /\ desk'.title = <<>> /\ desk'.active = NULL
    BY <1>1 DEF EmptyDesk
  <2>4. /\ kwin' = [fallback |-> kwin'.fallback, ids |-> kwin'.ids, nextId |-> kwin'.nextId, capture |-> kwin'.capture, pid |-> kwin'.pid]
        /\ kwin'.fallback \in BOOLEAN /\ kwin'.ids = <<>> /\ kwin'.nextId = 1
    BY <1>1 DEF NewBackend
  <2>5. DeskType(desk') /\ KWinType(kwin')
    <3>1. DOMAIN desk'.title = {} /\ desk'.title \in [DOMAIN desk'.title -> {0, 1}]
      BY <2>3, NoEntries
    <3>2. kwin'.ids \in [DOMAIN kwin'.ids -> Nat]
      BY <2>4, NoEntries
    <3>3. QED
      BY <2>3, <2>4, <3>1, <3>2 DEF DeskType, KWinType
  <2>6. link' \in {"none", "deposited", "held", "bufs", "up", "hup"}
    BY <1>1 DEF Base, TypeOK
  <2>7. QED
    BY <2>2, <2>5, <2>6, <1>1 DEF Base, TypeOK, DeskType, KWinType
<1>5. StackInv'
  BY <1>1, <1>2, <1>3 DEF Base, StackInv, EventStacks
<1>6. LinkInv'
  BY <1>1, <1>3 DEF Base, LinkInv, At
<1>7. KWinInv'
  <2>1. DOMAIN <<>> = {}
    OBVIOUS
  <2>2. kwin'.ids = <<>> /\ desk'.title = <<>> /\ kwin'.capture = desk'.locked /\ kwin'.pid = Client(desk')
    BY <1>1 DEF EmptyDesk, NewBackend, Client
  <2>3. QED
    BY <2>1, <2>2, FS_EmptySet DEF KWinInv, Client
<1>8. BoostTypes'
  BY <1>1 DEF BoostTypes
<1>9. QED
  BY <1>4, <1>5, <1>6, <1>7, <1>8 DEF Base

\* The backend's part of the types is untouched.
LEMMA SameKWin ==
  ASSUME Base, UNCHANGED <<desk, kwin>>
  PROVE  KWinInv' /\ DeskType(desk)' /\ KWinType(kwin)'
BY DEF Base, KWinInv, TypeOK, DeskType, KWinType, Client

LEMMA EnterBase ==
  ASSUME Base, NEW t \in Thread, EnterFallback(t)
  PROVE  Base'
<1>1. UNCHANGED <<desk, kwin, notice, mode, hand, ui, app, boosted, carried>>
  BY DEF EnterFallback
<1>2. /\ con.fallback => UNCHANGED <<con, link, wire>>
      /\ ~con.fallback => con' = [con EXCEPT !.fallback = TRUE] /\ link' = "deposited" /\ wire' = <<>>
  BY DEF EnterFallback
<1>3. /\ OnlyMoves(t) /\ stack[t] \notin Cb(t)
      /\ t = "render" => /\ stack[t] \in {<<"fallback", "discover", "start", "loop">>, <<"fallback", "loop">>}
                         /\ IF con.fallback THEN stack'[t] \in {<<"discover", "start", "loop">>, <<"loop">>}
                            ELSE stack'[t] \in {<<"restore", "java", "discover", "start", "loop">>, <<"restore", "java", "loop">>}
      /\ t = "event" => /\ stack[t] = <<"fallback", "poll">>
                        /\ stack'[t] = IF con.fallback THEN <<"poll">> ELSE <<"restore", "java", "poll">>
      /\ t = "ui" => stack[t] = <<"fallback">> /\ stack'[t] = IF con.fallback THEN <<>> ELSE <<"restore", "java">>
  BY EnterStack DEF Base
<1>4. /\ con' \in [running : BOOLEAN, fallback : BOOLEAN, event_running : BOOLEAN, anchor : BOOLEAN]
      /\ con'.running = con.running /\ con'.fallback = TRUE
  BY <1>2 DEF Base, TypeOK
<1>5. KWinInv' /\ DeskType(desk)' /\ KWinType(kwin)' /\ BoostTypes'
  BY <1>1, SameKWin DEF Base, BoostTypes
<1>6. TypeOK'
  <2>1. wire' \in Seq(VarEvent \cup SchedEvent \cup WindowEvent)
    <3>1. <<>> \in Seq(VarEvent \cup SchedEvent \cup WindowEvent)
      OBVIOUS
    <3>2. QED
      BY <3>1, <1>2 DEF Base, TypeOK
  <2>2. stack'["event"] = <<"set", "poll">> => stack["event"] = <<"set", "poll">>
    BY <1>3 DEF OnlyMoves, Thread
  <2>3. link' \in {"none", "deposited", "held", "bufs", "up", "hup"}
    BY <1>2 DEF Base, TypeOK
  <2>4. QED
    BY <2>1, <2>2, <2>3, <1>1, <1>4, <1>5 DEF Base, TypeOK, DeskType, KWinType
<1>7. /\ stack' = [render |-> stack'["render"], event |-> stack'["event"], ui |-> stack'["ui"]]
      /\ t # "render" => stack'["render"] = stack["render"]
      /\ t # "event" => stack'["event"] = stack["event"]
      /\ t # "ui" => stack'["ui"] = stack["ui"]
  BY <1>3 DEF OnlyMoves, Thread
<1>8. StackInv'
  <2>1. CASE t = "render"
    <3>1. stack'["render"] \in RenderStacks /\ stack'["render"] # <<"connect">>
      BY <1>3, <2>1 DEF RenderStacks, Starting, RenderCb
    <3>2. stack["render"] # <<>>
      BY <1>3, <2>1
    <3>3. con.running \/ stack["ui"] \in Stopping
      BY <3>2 DEF Base, StackInv
    <3>4. QED
      BY <3>1, <3>2, <3>3, <1>4, <1>7, <2>1 DEF Base, StackInv
  <2>2. CASE t = "event"
    <3>1. stack'["event"] \in EventStacks
      BY <1>3, <2>2 DEF EventStacks, EventCb
    <3>2. stack["event"] # <<>>
      BY <1>3, <2>2
    <3>3. con.running \/ stack["ui"] \in Stopping
      BY <3>2 DEF Base, StackInv
    <3>4. stack["render"] = <<"connect">> => link' = "none"
      <4>1. stack["render"] = <<"connect">> => con.fallback
        BY DEF Base, StackInv, LinkInv
      <4>2. QED
        BY <4>1, <1>2 DEF Base, StackInv
    <3>5. QED
      BY <3>1, <3>2, <3>3, <3>4, <1>4, <1>7, <2>2 DEF Base, StackInv
  <2>3. CASE t = "ui"
    <3>1. stack'["ui"] \in {<<>>, <<"restore", "java">>} /\ stack'["ui"] \in UiStacks
      BY <1>3, <2>3 DEF UiStacks, UiCb
    <3>2. stack'["ui"] \notin Stopping /\ stack["ui"] \notin Stopping /\ Joined \subseteq Stopping
          /\ <<"join_event", "restore", "disconnect">> \in Stopping
      BY <3>1, <1>3, <2>3 DEF Stopping, Joined
    <3>3. ~con.running => con.fallback
      BY <3>2 DEF Base, StackInv, LinkInv
    <3>4. stack["render"] = <<"connect">> => con.fallback
      BY DEF Base, StackInv, LinkInv
    <3>5. QED
      BY <3>1, <3>2, <3>3, <3>4, <1>2, <1>4, <1>7, <2>3 DEF Base, StackInv
  <2>4. QED
    BY <2>1, <2>2, <2>3 DEF Thread
<1>9. LinkInv'
  <2>1. CASE con.fallback
    <3>1. stack'["render"] \in RenderCb => stack["render"] \in RenderCb
      BY <1>3, <1>7, <2>1 DEF RenderCb
    <3>2. UNCHANGED <<link, con, wire, kwin, notice>>
      BY <1>1, <1>2, <2>1
    <3>3. QED
      BY <3>1, <3>2, <2>1 DEF Base, LinkInv
  <2>2. CASE ~con.fallback
    <3>1. ~notice
      BY <2>2 DEF Base, LinkInv
    <3>2. link' = "deposited" /\ wire' = <<>> /\ con'.fallback /\ ~notice'
      BY <3>1, <1>1, <1>2, <1>4, <2>2
    <3>3. QED
      BY <3>2 DEF LinkInv
  <2>3. QED
    BY <2>1, <2>2
<1>10. QED
  BY <1>5, <1>6, <1>8, <1>9 DEF Base

LEMMA RestoreBase ==
  ASSUME Base, NEW t \in Thread, RestoreTree(t) \/ HelperRestores(t)
  PROVE  Base'
<1>1. UNCHANGED <<desk, kwin, link, wire, notice, mode, hand, ui, app, carried>>
  BY DEF RestoreTree, HelperRestores
<1>2. /\ con' \in [running : BOOLEAN, fallback : BOOLEAN, event_running : BOOLEAN, anchor : BOOLEAN]
      /\ con'.running = con.running /\ con'.fallback = con.fallback
      /\ boosted' = boosted \/ boosted' = {}
  BY DEF RestoreTree, HelperRestores, Base, TypeOK
<1>3. /\ OnlyMoves(t)
      /\ \/ stack[t] \in Cb(t) /\ stack'[t] \in Cb(t) /\ (t = "render" => (stack'[t] \in Starting <=> stack[t] \in Starting))
         \/ t = "ui" /\ stack[t] \in Joined /\ stack'[t] \in Joined
  BY RestoreStack DEF Base
<1>4. KWinInv' /\ DeskType(desk)' /\ KWinType(kwin)' /\ BoostTypes'
  BY <1>1, <1>2, SameKWin DEF Base, BoostTypes
<1>5. /\ stack' = [render |-> stack'["render"], event |-> stack'["event"], ui |-> stack'["ui"]]
      /\ t # "render" => stack'["render"] = stack["render"]
      /\ t # "event" => stack'["event"] = stack["event"]
      /\ t # "ui" => stack'["ui"] = stack["ui"]
  BY <1>3 DEF OnlyMoves, Thread
<1>6. TypeOK'
  <2>1. stack'["event"] = <<"set", "poll">> => stack["event"] = <<"set", "poll">>
    BY <1>3, <1>5 DEF Cb, EventCb
  <2>2. QED
    BY <2>1, <1>1, <1>2, <1>4 DEF Base, TypeOK, DeskType, KWinType
<1>7. StackInv'
  <2>1. CASE t = "render"
    <3>1. stack[t] \in RenderCb /\ stack'[t] \in RenderCb /\ stack[t] # <<>> /\ stack'[t] # <<"connect">>
      BY <1>3, <2>1 DEF Cb, RenderCb
    <3>2. QED
      BY <3>1, <1>1, <1>2, <1>5, <2>1 DEF Base, StackInv, RenderStacks
  <2>2. CASE t = "event"
    <3>1. stack[t] \in EventCb /\ stack'[t] \in EventCb /\ stack[t] # <<>>
      BY <1>3, <2>2 DEF Cb, EventCb
    <3>2. QED
      BY <3>1, <1>1, <1>2, <1>5, <2>2 DEF Base, StackInv, EventStacks
  <2>3. CASE t = "ui" /\ stack[t] \in UiCb /\ stack'[t] \in UiCb
    <3>1. stack'[t] \notin Stopping /\ stack[t] \notin Stopping /\ Joined \subseteq Stopping
          /\ <<"join_event", "restore", "disconnect">> \in Stopping
      BY <2>3 DEF Stopping, Joined, UiCb
    <3>2. QED
      BY <3>1, <1>1, <1>2, <1>5, <2>3 DEF Base, StackInv, UiStacks
  <2>4. CASE t = "ui" /\ stack[t] \in Joined /\ stack'[t] \in Joined
    BY <1>1, <1>2, <1>5, <2>4 DEF Base, StackInv, UiStacks, Stopping
  <2>5. QED
    BY <2>1, <2>2, <2>3, <2>4, <1>3 DEF Thread, Cb
<1>8. LinkInv'
  <2>1. stack'["render"] \in RenderCb => stack["render"] \in RenderCb
    BY <1>3, <1>5 DEF Cb
  <2>2. At("render", "push_dmabufs") => At("render", "push_dmabufs")'
    <3>1. CASE t = "render"
      BY <1>3, <3>1 DEF Cb, RenderCb, At
    <3>2. CASE t # "render"
      BY <1>5, <3>2 DEF At
    <3>3. QED
      BY <3>1, <3>2
  <2>3. QED
    BY <2>1, <2>2, <1>1, <1>2 DEF Base, LinkInv
<1>9. QED
  BY <1>4, <1>6, <1>7, <1>8 DEF Base

LEMMA TellBase ==
  ASSUME Base, NEW t \in Thread, TellJavaAndStop(t)
  PROVE  Base'
<1>1. UNCHANGED <<desk, kwin, link, wire, notice, mode, hand, boosted, carried>>
  BY DEF TellJavaAndStop
<1>2. /\ con' \in [running : BOOLEAN, fallback : BOOLEAN, event_running : BOOLEAN, anchor : BOOLEAN]
      /\ con'.running = con.running /\ con'.fallback = con.fallback
      /\ con' = [con EXCEPT !.event_running = FALSE]
  BY DEF TellJavaAndStop, Base, TypeOK
<1>3. /\ OnlyMoves(t) /\ stack[t] \in Cb(t) /\ stack'[t] \notin Cb(t)
      /\ t = "render" => stack'[t] \in {<<"discover", "start", "loop">>, <<"loop">>}
      /\ t = "event" => stack'[t] = <<"poll">>
      /\ t = "ui" => stack'[t] = <<>>
  BY TellStack DEF Base
<1>4. KWinInv' /\ DeskType(desk)' /\ KWinType(kwin)' /\ BoostTypes'
  BY <1>1, SameKWin DEF Base, BoostTypes
<1>5. /\ stack' = [render |-> stack'["render"], event |-> stack'["event"], ui |-> stack'["ui"]]
      /\ t # "render" => stack'["render"] = stack["render"]
      /\ t # "event" => stack'["event"] = stack["event"]
      /\ t # "ui" => stack'["ui"] = stack["ui"]
  BY <1>3 DEF OnlyMoves, Thread
<1>6. TypeOK'
  <2>1. stack'["event"] = <<"set", "poll">> => stack["event"] = <<"set", "poll">>
    BY <1>3, <1>5
  <2>2. ui' \in Seq(VarEvent \cup ResetEvent \cup WindowEvent)
    <3>1. [type |-> "RESET"] \in ResetEvent
      BY DEF ResetEvent
    <3>2. ui' = ui \/ ui' = Append(ui, [type |-> "RESET"])
      BY DEF TellJavaAndStop
    <3> DEFINE e == [type |-> "RESET"]
               S == VarEvent \cup ResetEvent \cup WindowEvent
    <3>3. e \in S /\ (ui' = ui \/ ui' = Append(ui, e)) /\ ui \in Seq(S)
      BY <3>1, <3>2 DEF Base, TypeOK
    <3> HIDE DEF e, S
    <3>4. ui' \in Seq(S)
      BY <3>3, AppendProperties
    <3>5. QED
      BY <3>4 DEF S
  <2>3. app' = [forced |-> app'.forced, windows |-> app'.windows, active |-> app'.active] /\ app'.windows = app.windows
    BY DEF TellJavaAndStop, Base, TypeOK
  <2>4. QED
    BY <2>1, <2>2, <2>3, <1>1, <1>2, <1>4 DEF Base, TypeOK, DeskType, KWinType
<1>7. StackInv'
  <2>1. CASE t = "render"
    <3>1. stack[t] # <<>> /\ stack'[t] # <<"connect">> /\ stack'[t] \in RenderStacks
      BY <1>3, <2>1 DEF Cb, RenderCb, RenderStacks, Starting
    <3>2. QED
      BY <3>1, <1>1, <1>2, <1>5, <2>1 DEF Base, StackInv
  <2>2. CASE t = "event"
    <3>1. stack[t] # <<>> /\ stack'[t] \in EventStacks
      <4>1. stack[t] \in EventCb /\ stack'[t] = <<"poll">>
        BY <1>3, <2>2 DEF Cb
      <4>2. QED
        BY <4>1 DEF EventCb, EventStacks
    <3>2. QED
      BY <3>1, <1>1, <1>2, <1>5, <2>2 DEF Base, StackInv
  <2>3. CASE t = "ui"
    <3>1. stack[t] \in UiCb /\ stack'[t] = <<>> /\ stack'[t] \in UiStacks
      BY <1>3, <2>3 DEF Cb, UiStacks
    <3>2. stack'[t] \notin Stopping /\ stack[t] \notin Stopping /\ Joined \subseteq Stopping
          /\ <<"join_event", "restore", "disconnect">> \in Stopping
      BY <3>1 DEF Stopping, Joined, UiCb
    <3>3. QED
      BY <3>1, <3>2, <1>1, <1>2, <1>5, <2>3 DEF Base, StackInv
  <2>4. QED
    BY <2>1, <2>2, <2>3 DEF Thread
<1>8. LinkInv'
  <2>1. stack'["render"] \in RenderCb => stack["render"] \in RenderCb
    BY <1>3, <1>5 DEF Cb
  <2>2. At("render", "push_dmabufs") => At("render", "push_dmabufs")'
    <3>1. CASE t = "render"
      BY <1>3, <3>1 DEF Cb, RenderCb, At
    <3>2. CASE t # "render"
      BY <1>5, <3>2 DEF At
    <3>3. QED
      BY <3>1, <3>2
  <2>3. QED
    BY <2>1, <2>2, <1>1, <1>2 DEF Base, LinkInv
<1>9. QED
  BY <1>4, <1>6, <1>7, <1>8 DEF Base

LEMMA LibraryBase ==
  ASSUME Base, NEW t \in Thread, Library(t)
  PROVE  Base'
BY EnterBase, RestoreBase, TellBase DEF Library

LEMMA RenderBase ==
  ASSUME Base, Connect \/ Loop \/ PushDmabufs \/ DiscoverRoot \/ StartEventThread
  PROVE  Base'
<1>1. UNCHANGED <<desk, kwin, wire, mode, hand, ui, app>>
  BY DEF Connect, Loop, PushDmabufs, DiscoverRoot, StartEventThread
<1>2. KWinInv' /\ DeskType(desk)' /\ KWinType(kwin)'
  BY <1>1, SameKWin
<1>3. /\ con' \in [running : BOOLEAN, fallback : BOOLEAN, event_running : BOOLEAN, anchor : BOOLEAN]
      /\ con'.running = con.running
  BY DEF Connect, Loop, PushDmabufs, DiscoverRoot, StartEventThread, Base, TypeOK
<1>4. link' \in {"none", "deposited", "held", "bufs", "up", "hup"} /\ notice' \in BOOLEAN
  BY DEF Connect, Loop, PushDmabufs, DiscoverRoot, StartEventThread, Base, TypeOK
<1>5. BoostTypes'
  <2>1. CASE Connect \/ PushDmabufs
    BY <2>1 DEF Connect, PushDmabufs, Base, BoostTypes
  <2>2. CASE Loop
    BY <2>2 DEF Loop, Base, BoostTypes
  <2>3. CASE DiscoverRoot
    BY <2>3 DEF DiscoverRoot, Base, BoostTypes
  <2>4. CASE StartEventThread
    BY <2>4 DEF StartEventThread, Base, BoostTypes
  <2>5. QED
    BY <2>1, <2>2, <2>3, <2>4
<1>6. stack'["event"] = stack["event"] \/ stack'["event"] = <<"poll">>
  BY RenderStack DEF Base, OnlyMoves, Thread
<1>7. TypeOK'
  <2>1. stack'["event"] = <<"set", "poll">> => stack["event"] = <<"set", "poll">>
    BY <1>6
  <2>2. QED
    BY <2>1, <1>1, <1>2, <1>3, <1>4 DEF Base, TypeOK, DeskType, KWinType
<1>8. /\ stack' = [render |-> stack'["render"], event |-> stack'["event"], ui |-> stack'["ui"]]
      /\ stack'["ui"] = stack["ui"] /\ stack["render"] # <<>>
  BY RenderStack DEF Base, OnlyMoves, Thread
<1>9. con.running \/ stack["ui"] \in Stopping
  BY <1>8 DEF Base, StackInv
<1>10. stack["ui"] \notin Joined \cup {<<"join_event", "restore", "disconnect">>}
  BY <1>8 DEF Base, StackInv
<1>11. Joined \subseteq Stopping
  BY DEF Stopping
<1>12. stack'["render"] \in RenderStacks /\ stack'["render"] # <<"connect">> /\ stack'["render"] \notin RenderCb
  <2>1. stack'["render"] \in {<<>>, <<"loop">>, <<"push_dmabufs", "discover", "start", "loop">>, <<"fallback", "loop">>,
                              <<"fallback", "discover", "start", "loop">>, <<"discover", "start", "loop">>,
                              <<"start", "loop">>}
    BY RenderStack DEF Base
  <2>2. QED
    BY <2>1 DEF RenderStacks, Starting, RenderCb
<1>13. StackInv'
  <2>1. stack'["event"] \in EventStacks
    BY <1>6 DEF Base, StackInv, EventStacks
  <2>2. QED
    BY <2>1, <1>3, <1>8, <1>9, <1>10, <1>11, <1>12 DEF Base, StackInv
<1>14. LinkInv'
  <2>1. CASE Connect
    <3>1. stack["render"] = <<"connect">> /\ link = "none"
      BY <2>1, RenderStack DEF Base, StackInv
    <3>2. UNCHANGED <<kwin, wire, notice>> /\ (UNCHANGED <<link, con>> \/ (link' = "deposited" /\ con' = [con EXCEPT !.fallback = TRUE]))
      BY <2>1 DEF Connect
    <3>3. con'.fallback = TRUE
      BY <3>1, <3>2 DEF Base, LinkInv, TypeOK
    <3>4. QED
      BY <3>1, <3>2, <3>3, <1>12 DEF Base, LinkInv
  <2>2. CASE Loop
    <3>1. UNCHANGED <<kwin, wire, link>> /\ stack["render"] = <<"loop">>
      BY <2>2, RenderStack DEF Loop, Base
    <3>2. CASE UNCHANGED <<con, notice>>
      <4>1. ~At("render", "push_dmabufs")
        BY <3>1 DEF At
      <4>2. QED
        BY <3>1, <3>2, <4>1, <1>12 DEF Base, LinkInv
    <3>3. CASE con.running /\ con.fallback /\ notice /\ notice' = FALSE /\ con' = [con EXCEPT !.fallback = FALSE]
      <4>1. stack'["render"] = <<"push_dmabufs", "discover", "start", "loop">>
        BY <2>2, <3>3, RenderStack DEF Base
      <4>2. At("render", "push_dmabufs")'
        BY <4>1 DEF At
      <4>3. con'.fallback = FALSE
        BY <3>3 DEF Base, TypeOK
      <4>4. QED
        BY <3>1, <3>3, <4>2, <4>3, <1>12 DEF Base, LinkInv
    <3>4. QED
      BY <2>2, <3>2, <3>3 DEF Loop
  <2>3. CASE PushDmabufs
    <3>1. UNCHANGED <<kwin, wire, notice, con>> /\ link' = IF link = "held" THEN "bufs" ELSE link
      BY <2>3 DEF PushDmabufs
    <3>2. QED
      BY <3>1, <1>12 DEF Base, LinkInv
  <2>4. CASE DiscoverRoot \/ StartEventThread
    <3>1. UNCHANGED <<kwin, wire, notice, link>> /\ con'.fallback = con.fallback
      BY <2>4 DEF DiscoverRoot, StartEventThread, Base, TypeOK
    <3>2. ~At("render", "push_dmabufs")
      BY <2>4 DEF DiscoverRoot, StartEventThread, At
    <3>3. QED
      BY <3>1, <3>2, <1>12 DEF Base, LinkInv
  <2>5. QED
    BY <2>1, <2>2, <2>3, <2>4
<1>15. QED
  BY <1>2, <1>5, <1>7, <1>13, <1>14 DEF Base

LEMMA SubtreeType ==
  ASSUME NEW p \in Proc \cup {"kwin"}
  PROVE  Subtree(p) \subseteq Proc \cup {"kwin"} /\ p \in Subtree(p)
BY SidebandAssumption DEF Subtree

\* The event the event thread reads.
LEMMA ReadsEvent ==
  ASSUME Base, HandleEvent
  PROVE  /\ wire # <<>> /\ Head(wire) \in WireEvent /\ wire' = Tail(wire) /\ Tail(wire) \in Seq(WireEvent)
         /\ UNCHANGED <<desk, kwin, link, notice, con, mode, app, boosted, carried>>
         /\ link = "up" /\ ~con.fallback /\ con.event_running
         /\ Head(wire).type = "SCHED" => /\ Head(wire) \in SchedEvent /\ UNCHANGED ui
                                         /\ mode = 1 /\ con.anchor => hand' = Head(wire)
         /\ Head(wire).type # "SCHED" => Head(wire) \in VarEvent \cup WindowEvent /\ ui' = Append(ui, Head(wire))
<1>1. wire \in Seq(WireEvent) /\ wire # <<>>
  BY DEF HandleEvent, Base, TypeOK, WireEvent
<1>2. Head(wire) \in WireEvent /\ Tail(wire) \in Seq(WireEvent)
  BY <1>1, HeadTailProperties
<1>3. (Head(wire).type = "SCHED" => Head(wire) \in SchedEvent) /\ (Head(wire).type # "SCHED" => Head(wire) \in VarEvent \cup WindowEvent)
  BY <1>2 DEF WireEvent, SchedEvent, VarEvent, WindowEvent
<1>4. QED
  BY <1>1, <1>2, <1>3 DEF HandleEvent, Scheduling

LEMMA EventBase ==
  ASSUME Base, EventEnds \/ PollHangup \/ HandleEvent \/ HelperSets
  PROVE  Base'
<1>1. UNCHANGED <<desk, kwin, link, notice, con, mode, app, carried>>
  BY DEF EventEnds, PollHangup, HandleEvent, HelperSets
<1>2. KWinInv' /\ DeskType(desk)' /\ KWinType(kwin)'
  BY <1>1, SameKWin
<1>3. /\ stack' = [render |-> stack'["render"], event |-> stack'["event"], ui |-> stack'["ui"]]
      /\ stack'["render"] = stack["render"] /\ stack'["ui"] = stack["ui"] /\ stack["event"] # <<>>
      /\ stack'["event"] \in {<<>>, <<"poll">>, <<"fallback", "poll">>, <<"set", "poll">>}
  BY EventStack DEF Base, OnlyMoves, Thread
<1>4. StackInv'
  <2>1. con.running \/ stack["ui"] \in Stopping
    BY <1>3 DEF Base, StackInv
  <2>2. stack'["event"] \in EventStacks
    BY <1>3 DEF EventStacks
  <2>3. QED
    BY <2>1, <2>2, <1>1, <1>3 DEF Base, StackInv
<1>5. /\ wire' \in Seq(WireEvent) /\ ui' \in Seq(VarEvent \cup ResetEvent \cup WindowEvent)
      /\ link \notin {"up", "hup"} => wire' = <<>>
  <2>1. CASE HandleEvent
    <3> DEFINE S == VarEvent \cup ResetEvent \cup WindowEvent
    <3>1. /\ wire' \in Seq(WireEvent) /\ ui \in Seq(S) /\ link = "up"
          /\ ui' = ui \/ (Head(wire) \in S /\ ui' = Append(ui, Head(wire)))
      BY <2>1, ReadsEvent DEF Base, TypeOK
    <3> HIDE DEF S
    <3>2. ui' \in Seq(S)
      BY <3>1, AppendProperties
    <3>3. QED
      BY <3>1, <3>2 DEF S
  <2>2. CASE EventEnds \/ PollHangup \/ HelperSets
    <3>1. UNCHANGED <<wire, ui>>
      BY <2>2 DEF EventEnds, PollHangup, HelperSets
    <3>2. QED
      BY <3>1 DEF Base, TypeOK, LinkInv, WireEvent
  <2>3. QED
    BY <2>1, <2>2
<1>6. LinkInv'
  BY <1>1, <1>3, <1>5 DEF Base, LinkInv, At
<1>7. BoostTypes' /\ (stack'["event"] = <<"set", "poll">> => hand' \in SchedEvent)
  <2>1. CASE HandleEvent
    <3>1. stack'["event"] = <<"set", "poll">> => Head(wire).type = "SCHED" /\ mode = 1 /\ con.anchor
      BY <2>1, EventStack DEF Base
    <3>2. QED
      BY <2>1, <3>1, ReadsEvent DEF Base, BoostTypes
  <2>2. CASE EventEnds \/ PollHangup
    <3>1. stack'["event"] # <<"set", "poll">>
      BY <2>2, EventStack DEF Base
    <3>2. UNCHANGED <<boosted, carried>>
      BY <2>2 DEF EventEnds, PollHangup
    <3>3. QED
      BY <3>1, <3>2 DEF Base, BoostTypes
  <2>3. CASE HelperSets
    <3>1. stack'["event"] = <<"poll">> /\ stack["event"] = <<"set", "poll">>
      BY <2>3, EventStack DEF Base
    <3>2. hand.pid \in Proc \cup {"kwin"}
      BY <3>1 DEF Base, TypeOK, SchedEvent
    <3>3. Subtree(hand.pid) \subseteq Proc \cup {"kwin"}
      BY <3>2, SubtreeType
    <3>4. carried' = carried /\ (boosted' = boosted \cup Subtree(hand.pid) \/ boosted' = boosted \ Subtree(hand.pid))
      BY <2>3 DEF HelperSets
    <3>5. QED
      BY <3>1, <3>3, <3>4 DEF Base, BoostTypes
  <2>4. QED
    BY <2>1, <2>2, <2>3
<1>8. TypeOK'
  BY <1>1, <1>2, <1>5, <1>7 DEF Base, TypeOK, DeskType, KWinType, WireEvent
<1>9. QED
  BY <1>2, <1>4, <1>6, <1>7, <1>8 DEF Base

\* The task the UI thread runs.
LEMMA RunsTask ==
  ASSUME Base, RunTask
  PROVE  /\ ui \in Seq(VarEvent \cup ResetEvent \cup WindowEvent) /\ ui # <<>> /\ ui' = Tail(ui)
         /\ Head(ui) \in VarEvent \cup ResetEvent \cup WindowEvent
         /\ Tail(ui) \in Seq(VarEvent \cup ResetEvent \cup WindowEvent)
         /\ Head(ui) \in ResetEvent => app' = Regressed
         /\ Head(ui) \in VarEvent => app' = Forced(Head(ui).value)
         /\ Head(ui) \in WindowEvent => app' = Apply(Head(ui))
         /\ stack["ui"] = <<>>
         /\ UNCHANGED <<desk, kwin, link, wire, notice, con, mode, stack, hand, boosted, carried>>
<1> DEFINE S == VarEvent \cup ResetEvent \cup WindowEvent
<1>1. ui \in Seq(S) /\ ui # <<>>
  BY DEF RunTask, Base, TypeOK
<1> HIDE DEF S
<1>2. Head(ui) \in S /\ Tail(ui) \in Seq(S)
  BY <1>1, HeadTailProperties
<1>3. /\ Head(ui) \in ResetEvent => Head(ui).type = "RESET"
      /\ Head(ui) \in VarEvent => Head(ui).type = "VAR"
      /\ Head(ui) \in WindowEvent => Head(ui).type = "WINDOW"
  BY DEF VarEvent, ResetEvent, WindowEvent
<1>4. /\ Head(ui).type = "RESET" => app' = Regressed
      /\ Head(ui).type = "VAR" => app' = Forced(Head(ui).value)
      /\ Head(ui).type = "WINDOW" => app' = Apply(Head(ui))
  BY DEF RunTask
<1>5. /\ ui' = Tail(ui) /\ stack["ui"] = <<>>
      /\ UNCHANGED <<desk, kwin, link, wire, notice, con, mode, stack, hand, boosted, carried>>
  BY DEF RunTask
<1>6. QED
  BY <1>1, <1>2, <1>3, <1>4, <1>5 DEF S

LEMMA AppType ==
  ASSUME app = [forced |-> app.forced, windows |-> app.windows, active |-> app.active],
         app.windows = [i \in DOMAIN app.windows |-> app.windows[i]],
         NEW e, app' \in {Regressed, Forced(e.value), Apply(e)}
  PROVE  /\ app' = [forced |-> app'.forced, windows |-> app'.windows, active |-> app'.active]
         /\ app'.windows = [i \in DOMAIN app'.windows |-> app'.windows[i]]
<1> DEFINE a == app'
<1>1. CASE a = Regressed
  BY <1>1 DEF Regressed
<1>2. CASE a = Forced(e.value)
  BY <1>2 DEF Forced
<1>3. CASE a = Apply(e) /\ e.action = "DESTROY"
  <2> DEFINE v == IF app.active = e.id THEN 0 ELSE app.active
  <2>1. a = [app EXCEPT !.windows = Without(@, e.id), !.active = v]
    BY <1>3 DEF Apply
  <2> DEFINE f == [app EXCEPT !.windows = Without(@, e.id)]
  <2>2. a = [f EXCEPT !.active = v]
    BY <2>1
  <2>3. f = [forced |-> app.forced, windows |-> Without(app.windows, e.id), active |-> app.active]
    OBVIOUS
  <2> HIDE DEF f, v
  <2>4. a = [forced |-> app.forced, windows |-> Without(app.windows, e.id), active |-> v]
    BY <2>2, <2>3
  <2>5. QED
    BY <2>4 DEF Without
<1>4. CASE a = Apply(e) /\ e.action # "DESTROY"
  <2> DEFINE v == IF e.focus THEN e.id ELSE app.active
             w == IF e.action # "FOCUS" THEN With(app.windows, e.id, e.title)
                  ELSE IF e.id \in DOMAIN app.windows THEN app.windows ELSE With(app.windows, e.id, NULL)
  <2>1. a = [app EXCEPT !.windows = w, !.active = v]
    BY <1>4 DEF Apply
  <2>2. w = [i \in DOMAIN w |-> w[i]]
    BY DEF With
  <2> DEFINE f == [app EXCEPT !.windows = w]
  <2>3. a = [f EXCEPT !.active = v]
    BY <2>1
  <2> HIDE DEF v, w
  <2>4. f = [forced |-> app.forced, windows |-> w, active |-> app.active]
    OBVIOUS
  <2> HIDE DEF f
  <2>5. a = [forced |-> app.forced, windows |-> w, active |-> v]
    BY <2>3, <2>4
  <2>6. QED
    BY <2>2, <2>5
<1>5. QED
  BY <1>1, <1>2, <1>3, <1>4

LEMMA TaskBase ==
  ASSUME Base, RunTask
  PROVE  Base'
<1>1. UNCHANGED <<desk, kwin, link, wire, notice, con, mode, stack, hand, boosted, carried>>
  BY RunsTask
<1>2. KWinInv' /\ DeskType(desk)' /\ KWinType(kwin)' /\ BoostTypes'
  BY <1>1, SameKWin DEF Base, BoostTypes
<1>3. ui' \in Seq(VarEvent \cup ResetEvent \cup WindowEvent)
  BY RunsTask
<1>4. app' \in {Regressed, Forced(Head(ui).value), Apply(Head(ui))}
  BY RunsTask
<1>5. /\ app' = [forced |-> app'.forced, windows |-> app'.windows, active |-> app'.active]
      /\ app'.windows = [i \in DOMAIN app'.windows |-> app'.windows[i]]
  <2> DEFINE e == Head(ui)
  <2>1. app' \in {Regressed, Forced(e.value), Apply(e)}
    BY <1>4
  <2>2. /\ app = [forced |-> app.forced, windows |-> app.windows, active |-> app.active]
        /\ app.windows = [i \in DOMAIN app.windows |-> app.windows[i]]
    BY DEF Base, TypeOK
  <2> HIDE DEF e
  <2>3. QED
    BY <2>1, <2>2, AppType
<1>6. TypeOK'
  BY <1>1, <1>2, <1>3, <1>5 DEF Base, TypeOK, DeskType, KWinType
<1>7. StackInv' /\ LinkInv'
  BY <1>1 DEF Base, StackInv, LinkInv, At
<1>8. QED
  BY <1>2, <1>6, <1>7 DEF Base

LEMMA UiBase ==
  ASSUME Base, SendFails \/ NativeStop \/ NativeStart \/ Disconnect \/ JoinRender \/ JoinEvent
  PROVE  Base'
<1>1. UNCHANGED <<desk, kwin, hand, ui, app, boosted, carried>>
  BY DEF SendFails, NativeStop, NativeStart, Disconnect, JoinRender, JoinEvent
<1>2. KWinInv' /\ DeskType(desk)' /\ KWinType(kwin)' /\ BoostTypes'
  BY <1>1, SameKWin DEF Base, BoostTypes
<1>3. con' \in [running : BOOLEAN, fallback : BOOLEAN, event_running : BOOLEAN, anchor : BOOLEAN]
  BY DEF SendFails, NativeStop, NativeStart, Disconnect, JoinRender, JoinEvent, Base, TypeOK
<1>4. /\ Disconnect => link' = "none" /\ wire' = <<>> /\ notice' = FALSE /\ con' = [con EXCEPT !.fallback = TRUE]
      /\ ~Disconnect => UNCHANGED <<link, wire, notice>>
  BY DEF SendFails, NativeStop, NativeStart, Disconnect, JoinRender, JoinEvent
<1>5. stack'["event"] = stack["event"]
      /\ stack' = [render |-> stack'["render"], event |-> stack'["event"], ui |-> stack'["ui"]]
  BY UiStack DEF Base, OnlyMoves, Thread
<1>6. TypeOK'
  <2>1. wire' \in Seq(VarEvent \cup SchedEvent \cup WindowEvent)
    <3>1. <<>> \in Seq(VarEvent \cup SchedEvent \cup WindowEvent)
      OBVIOUS
    <3>2. QED
      BY <3>1, <1>4 DEF Base, TypeOK
  <2>2. link' \in {"none", "deposited", "held", "bufs", "up", "hup"} /\ notice' \in BOOLEAN
    BY <1>4 DEF Base, TypeOK
  <2>3. QED
    BY <2>1, <2>2, <1>1, <1>2, <1>3, <1>5 DEF Base, TypeOK, DeskType, KWinType
<1>7. StackInv' /\ LinkInv'
  <2>1. CASE SendFails
    <3>1. stack'["render"] = stack["render"] /\ stack["ui"] = <<>> /\ stack'["ui"] = <<"fallback">>
      BY <2>1, UiStack DEF Base, OnlyMoves, Thread
    <3>2. UNCHANGED <<link, con, kwin, wire, notice>> /\ ~con.fallback
      BY <2>1 DEF SendFails
    <3>3. stack["ui"] \notin Stopping /\ stack'["ui"] \notin Stopping /\ Joined \subseteq Stopping /\ stack'["ui"] \in UiStacks
          /\ stack'["ui"] \notin Joined \cup {<<"join_event", "restore", "disconnect">>}
      BY <3>1 DEF Stopping, Joined, UiStacks
    <3>4. con.running
      BY <3>2, <3>3 DEF Base, StackInv, LinkInv
    <3>5. StackInv'
      BY <3>1, <3>2, <3>3, <3>4, <1>5 DEF Base, StackInv
    <3>6. LinkInv'
      BY <3>1, <3>2 DEF Base, LinkInv, At
    <3>7. QED
      BY <3>5, <3>6
  <2>2. CASE NativeStop
    <3>1. stack'["render"] = stack["render"] /\ stack["ui"] = <<>>
          /\ stack'["ui"] = <<"join_render", "join_event", "restore", "disconnect">>
      BY <2>2, UiStack DEF Base, OnlyMoves, Thread
    <3>2. UNCHANGED <<link, kwin, wire, notice>> /\ con'.running = FALSE /\ con'.fallback = con.fallback
      BY <2>2 DEF NativeStop, Base, TypeOK
    <3>3. stack'["ui"] \in Stopping /\ stack'["ui"] \in UiStacks
          /\ stack'["ui"] \notin Joined \cup {<<"join_event", "restore", "disconnect">>}
      BY <3>1 DEF Stopping, Joined, UiStacks
    <3>4. StackInv'
      BY <3>1, <3>2, <3>3, <1>5 DEF Base, StackInv
    <3>5. LinkInv'
      BY <3>1, <3>2 DEF Base, LinkInv, At
    <3>6. QED
      BY <3>4, <3>5
  <2>3. CASE NativeStart
    <3>1. stack'["ui"] = stack["ui"] /\ stack["ui"] = <<>> /\ stack'["render"] = <<"connect">>
      BY <2>3, UiStack DEF Base, OnlyMoves, Thread
    <3>2. UNCHANGED <<link, kwin, wire, notice>> /\ ~con.running /\ con'.running = TRUE /\ con'.fallback = con.fallback
      BY <2>3 DEF NativeStart, Base, TypeOK
    <3>3. stack["ui"] \notin Stopping /\ stack["ui"] \notin Joined \cup {<<"join_event", "restore", "disconnect">>}
      BY <3>1 DEF Stopping, Joined
    <3>4. link = "none"
      BY <3>2, <3>3 DEF Base, StackInv
    <3>5. stack'["render"] \in RenderStacks /\ stack'["render"] \notin RenderCb
      BY <3>1 DEF RenderStacks, RenderCb
    <3>6. StackInv'
      BY <3>1, <3>2, <3>3, <3>4, <3>5, <1>5 DEF Base, StackInv
    <3>7. LinkInv'
      BY <3>2, <3>4, <3>5 DEF Base, LinkInv
    <3>8. QED
      BY <3>6, <3>7
  <2>4. CASE Disconnect
    <3>1. stack'["render"] = stack["render"] /\ stack["ui"] = <<"disconnect">> /\ stack'["ui"] = <<>>
      BY <2>4, UiStack DEF Base, OnlyMoves, Thread
    <3>2. UNCHANGED kwin /\ con'.running = con.running /\ con'.fallback = TRUE
          /\ link' = "none" /\ wire' = <<>> /\ notice' = FALSE
      BY <2>4 DEF Disconnect, Base, TypeOK
    <3>3. stack["ui"] \in Joined /\ stack["ui"] \in Stopping
      BY <3>1 DEF Joined, Stopping
    <3>4. stack["render"] = <<>> /\ stack["event"] = <<>> /\ ~con.running
      BY <3>3 DEF Base, StackInv
    <3>5. stack'["ui"] \in UiStacks
      BY <3>1 DEF UiStacks
    <3>6. stack'["ui"] \notin Stopping /\ stack'["ui"] \notin Joined \cup {<<"join_event", "restore", "disconnect">>}
      BY <3>1 DEF Stopping, Joined
    <3>7. <<>> \notin RenderCb
      BY DEF RenderCb
    <3>8. StackInv'
      BY <3>1, <3>2, <3>4, <3>5, <3>6, <1>5 DEF Base, StackInv
    <3>9. LinkInv'
      BY <3>1, <3>2, <3>4, <3>7 DEF LinkInv
    <3>10. QED
      BY <3>8, <3>9
  <2>5. CASE JoinRender
    <3>1. /\ stack'["render"] = stack["render"] /\ stack["ui"] = <<"join_render", "join_event", "restore", "disconnect">>
          /\ stack'["ui"] = <<"join_event", "restore", "disconnect">>
      BY <2>5, UiStack DEF Base, OnlyMoves, Thread
    <3>2. UNCHANGED <<link, kwin, wire, notice>> /\ con'.running = con.running /\ con'.fallback = con.fallback
          /\ stack["render"] = <<>>
      BY <2>5 DEF JoinRender, Base, TypeOK
    <3>3. stack["ui"] \in Stopping /\ stack'["ui"] \in Stopping /\ stack'["ui"] \in UiStacks /\ stack'["ui"] \notin Joined
      BY <3>1 DEF Stopping, Joined, UiStacks
    <3>4. StackInv'
      BY <3>1, <3>2, <3>3, <1>5 DEF Base, StackInv
    <3>5. LinkInv'
      BY <3>1, <3>2 DEF Base, LinkInv, At
    <3>6. QED
      BY <3>4, <3>5
  <2>6. CASE JoinEvent
    <3>1. /\ stack'["render"] = stack["render"] /\ stack["ui"] = <<"join_event", "restore", "disconnect">>
          /\ stack'["ui"] = <<"restore", "disconnect">>
      BY <2>6, UiStack DEF Base, OnlyMoves, Thread
    <3>2. UNCHANGED <<link, kwin, wire, notice, con>> /\ stack["event"] = <<>>
      BY <2>6 DEF JoinEvent
    <3>3. stack["ui"] \in Stopping /\ stack'["ui"] \in Stopping /\ stack'["ui"] \in UiStacks
      BY <3>1 DEF Stopping, Joined, UiStacks
    <3>4. StackInv'
      BY <3>1, <3>2, <3>3, <1>5 DEF Base, StackInv
    <3>5. LinkInv'
      BY <3>1, <3>2 DEF Base, LinkInv, At
    <3>6. QED
      BY <3>4, <3>5
  <2>7. QED
    BY <2>1, <2>2, <2>3, <2>4, <2>5, <2>6
<1>8. QED
  BY <1>2, <1>6, <1>7 DEF Base

\* Base is inductive.
LEMMA NextBase ==
  ASSUME Base, [Next]_vars
  PROVE  Base'
<1>1. CASE KWin
  BY <1>1, Changed, ChangeBase, PickUpBase, ReconnectedBase, LostBase, RestartsBase DEF KWin, Base
<1>2. CASE RenderStep
  BY <1>2, RenderBase, LibraryBase DEF RenderStep, Thread
<1>3. CASE EventStep
  BY <1>3, EventBase, LibraryBase DEF EventStep, Thread
<1>4. CASE UiStep
  BY <1>4, TaskBase, UiBase, LibraryBase DEF UiStep, Thread
<1>5. CASE UNCHANGED vars
  <2>1. UNCHANGED <<desk, kwin, link, wire, notice, con, mode, stack, hand, ui, app, boosted, carried>>
    BY <1>5 DEF vars, phone
  <2>2. QED
    BY <2>1 DEF Base, TypeOK, StackInv, LinkInv, KWinInv, BoostTypes, At, Client
<1>6. QED
  BY <1>1, <1>2, <1>3, <1>4, <1>5 DEF Next

-----------------------------------------------------------------------------
(* The phone will have what the desktop has.                               *)

LEMMA PendingEnds ==
  ASSUME NEW x, NEW C, NEW T, NEW G
  PROVE  /\ Pending(x, C) \in Seq(Event)
         /\ Silent(Pending(x, C), T) <=> x \notin C \/ Reset \notin T
         /\ Settles(Pending(x, C), T, G) <=> x \in C /\ Reset \in T \cap G
<1>1. Reset \in Event
  BY DEF Reset, Event, ResetEvent
<1>2. <<Reset>> \in Seq(Event) /\ <<>> \in Seq(Event)
  BY <1>1
<1>3. (Silent(<<Reset>>, T) <=> Reset \notin T) /\ (Settles(<<Reset>>, T, G) <=> Reset \in T \cap G)
  BY OneEvent
<1>4. Silent(<<>>, T) /\ ~Settles(<<>>, T, G)
  BY NoEvents
<1>5. QED
  BY <1>2, <1>3, <1>4 DEF Pending

LEMMA ComeEnds ==
  ASSUME NEW x, NEW u \in Seq(Event), NEW y, NEW s \in Seq(Event), NEW T, NEW G
  PROVE  /\ Silent(Come(x, u, y, s), T)
              <=> /\ Silent(s, T) /\ Silent(u, T)
                  /\ y \notin EventCb \/ Reset \notin T
                  /\ x \notin UiCb \/ Reset \notin T
         /\ Settles(Come(x, u, y, s), T, G)
              <=> \/ Settles(s, T, G)
                  \/ /\ Silent(s, T)
                     /\ \/ y \in EventCb /\ Reset \in T \cap G
                        \/ /\ y \notin EventCb \/ Reset \notin T
                           /\ Settles(u, T, G) \/ (Silent(u, T) /\ x \in UiCb /\ Reset \in T \cap G)
<1> DEFINE a == Pending(x, UiCb)
           c == Pending(y, EventCb)
           p == a \o u
           q == p \o c
<1>1. /\ a \in Seq(Event) /\ (Silent(a, T) <=> x \notin UiCb \/ Reset \notin T)
      /\ Settles(a, T, G) <=> x \in UiCb /\ Reset \in T \cap G
  BY PendingEnds
<1>2. /\ c \in Seq(Event) /\ (Silent(c, T) <=> y \notin EventCb \/ Reset \notin T)
      /\ Settles(c, T, G) <=> y \in EventCb /\ Reset \in T \cap G
  BY PendingEnds
<1>3. Come(x, u, y, s) = q \o s
  BY DEF Come
<1> HIDE DEF a, c
<1>4. /\ p \in Seq(Event) /\ (Silent(p, T) <=> Silent(a, T) /\ Silent(u, T))
      /\ Settles(p, T, G) <=> Settles(u, T, G) \/ (Silent(u, T) /\ Settles(a, T, G))
  BY <1>1, ConcatProperties, ConcatEnds
<1> HIDE DEF p
<1>5. /\ q \in Seq(Event) /\ (Silent(q, T) <=> Silent(p, T) /\ Silent(c, T))
      /\ Settles(q, T, G) <=> Settles(c, T, G) \/ (Silent(c, T) /\ Settles(p, T, G))
  BY <1>2, <1>4, ConcatProperties, ConcatEnds
<1> HIDE DEF q
<1>6. /\ Silent(q \o s, T) <=> Silent(q, T) /\ Silent(s, T)
      /\ Settles(q \o s, T, G) <=> Settles(s, T, G) \/ (Silent(s, T) /\ Settles(q, T, G))
  BY <1>5, ConcatEnds
<1>7. QED
  BY <1>1, <1>2, <1>3, <1>4, <1>5, <1>6

LEMMA ComeSilent ==
  ASSUME NEW x, NEW u \in Seq(Event), NEW y, NEW s \in Seq(Event), NEW T
  PROVE  Silent(Come(x, u, y, s), T)
           <=> /\ Silent(s, T) /\ Silent(u, T)
               /\ y \notin EventCb \/ Reset \notin T
               /\ x \notin UiCb \/ Reset \notin T
BY ComeEnds, Zenon

\* A list that ends as another one serves as well as it.
LEMMA SameEnds ==
  ASSUME NEW s, NEW r, NEW a, NEW d, NEW k, Mirrors(s, a, d, k),
         \A T, G : (Silent(r, T) <=> Silent(s, T)) /\ (Settles(r, T, G) <=> Settles(s, T, G))
  PROVE  Mirrors(r, a, d, k)
BY DEF Mirrors

\* The change is reported at the end of what is under way.
LEMMA ChangeMirror ==
  ASSUME Base, MirrorInv, NEW d, NEW k, NEW evs, Change(d, k, evs), KeepsUp(d, k, evs), Reports(d, k, evs)
  PROVE  MirrorInv'
<1> SUFFICES ASSUME link' = "up" PROVE Mirrors(Coming', app', desk', kwin')
  BY DEF MirrorInv
<1>1. /\ desk' = d /\ UNCHANGED <<link, notice, con, mode, stack, hand, ui, app, boosted, carried>>
      /\ k.fallback = kwin.fallback /\ Report(k, evs)
  BY DEF Change, phone, KeepsUp
<1>2. link = "up" /\ ~k.fallback
  BY <1>1 DEF Base, LinkInv
<1>3. wire \in Seq(Event) /\ ui \in Seq(Event) /\ evs \in Seq(Event)
  BY DEF Base, TypeOK, KeepsUp, WireEvent, Event
<1>4. kwin' = k /\ wire' = wire \o evs
  <2>1. CASE evs = <<>>
    <3>1. wire \o <<>> = wire
      BY <1>3, ConcatEmptySeq
    <3>2. QED
      BY <2>1, <3>1, <1>1, <1>2 DEF Report
  <2>2. CASE evs # <<>>
    BY <2>2, <1>1, <1>2 DEF Report
  <2>3. QED
    BY <2>1, <2>2
<1>5. wire \o evs \in Seq(Event)
  BY <1>3, ConcatProperties
<1>6. Coming' = Come(stack["ui"], ui, stack["event"], wire \o evs) /\ Coming = Come(stack["ui"], ui, stack["event"], wire)
  BY <1>1, <1>4 DEF Coming
<1>7. ASSUME NEW T, NEW G
      PROVE  /\ Settles(evs, T, G) => Settles(Coming', T, G)
             /\ Silent(evs, T) => /\ Silent(Coming', T) <=> Silent(Coming, T)
                                  /\ Settles(Coming, T, G) => Settles(Coming', T, G)
  <2>1. /\ Silent(wire \o evs, T) <=> Silent(wire, T) /\ Silent(evs, T)
        /\ Settles(wire \o evs, T, G) <=> Settles(evs, T, G) \/ (Silent(evs, T) /\ Settles(wire, T, G))
    BY <1>3, ConcatEnds
  <2> DEFINE v == wire \o evs
  <2>2. v \in Seq(Event) /\ (Silent(v, T) <=> Silent(wire, T) /\ Silent(evs, T))
        /\ (Settles(v, T, G) <=> Settles(evs, T, G) \/ (Silent(evs, T) /\ Settles(wire, T, G)))
        /\ Coming' = Come(stack["ui"], ui, stack["event"], v)
    BY <2>1, <1>5, <1>6
  <2> HIDE DEF v
  <2>3. Settles(v, T, G) => Settles(Come(stack["ui"], ui, stack["event"], v), T, G)
    BY <2>2, <1>3, ComeEnds
  <2>4. Silent(Come(stack["ui"], ui, stack["event"], v), T)
          <=> /\ Silent(v, T) /\ Silent(ui, T)
              /\ stack["event"] \notin EventCb \/ Reset \notin T
              /\ stack["ui"] \notin UiCb \/ Reset \notin T
    BY <2>2, <1>3, ComeSilent
  <2>5. Silent(Come(stack["ui"], ui, stack["event"], wire), T)
          <=> /\ Silent(wire, T) /\ Silent(ui, T)
              /\ stack["event"] \notin EventCb \/ Reset \notin T
              /\ stack["ui"] \notin UiCb \/ Reset \notin T
    BY <1>3, ComeSilent
  <2>6. ASSUME Silent(evs, T), Settles(Come(stack["ui"], ui, stack["event"], wire), T, G)
        PROVE  Settles(Come(stack["ui"], ui, stack["event"], v), T, G)
    <3>1. (Silent(v, T) <=> Silent(wire, T)) /\ (Settles(wire, T, G) => Settles(v, T, G))
      BY <2>2, <2>6
    <3>2. QED
      BY <2>2, <2>6, <3>1, <1>3, ComeEnds
  <2>7. QED
    BY <2>2, <2>3, <2>4, <2>5, <2>6, <1>6
<1>8. Mirrors(Coming, app, desk, kwin)
  BY <1>2 DEF MirrorInv
<1> HIDE DEF Coming
<1>9. kwin.capture = desk.locked /\ k.capture = d.locked
  BY DEF Base, KWinInv, KeepsUp
<1>10. \/ Settles(Coming', Captures, CaptureIs(k.capture))
       \/ Silent(Coming', Captures) /\ app.forced = k.capture
  <2>1. CASE Settles(evs, Captures, CaptureIs(d.locked))
    BY <2>1, <1>7, <1>9
  <2>2. CASE Silent(evs, Captures) /\ d.locked = desk.locked
    BY <2>2, <1>7, <1>8, <1>9 DEF Mirrors
  <2>3. QED
    BY <2>1, <2>2 DEF Reports
<1>11. ASSUME NEW w \in DOMAIN d.title
       PROVE  \/ Settles(Coming', Titles(k.ids[w]), TitleIs(k.ids[w], d.title[w]))
              \/ Silent(Coming', Titles(k.ids[w])) /\ HasTitle(app, k.ids[w], d.title[w])
  <2>1. CASE Settles(evs, Titles(k.ids[w]), TitleIs(k.ids[w], d.title[w]))
    BY <2>1, <1>7
  <2>2. CASE /\ Silent(evs, Titles(k.ids[w])) /\ w \in DOMAIN desk.title
             /\ kwin.ids[w] = k.ids[w] /\ desk.title[w] = d.title[w]
    <3>1. \/ Settles(Coming, Titles(k.ids[w]), TitleIs(k.ids[w], d.title[w]))
          \/ Silent(Coming, Titles(k.ids[w])) /\ HasTitle(app, k.ids[w], d.title[w])
      BY <2>2, <1>8 DEF Mirrors
    <3>2. QED
      BY <2>2, <3>1, <1>7
  <2>3. QED
    BY <2>1, <2>2 DEF Reports
<1>12. ASSUME d.active # NULL
       PROVE  \/ Settles(Coming', Focuses(k.ids[d.active]), FocusIs(k.ids[d.active]))
              \/ Silent(Coming', Focuses(k.ids[d.active])) /\ app.active = k.ids[d.active]
  <2>1. CASE Settles(evs, Focuses(k.ids[d.active]), FocusIs(k.ids[d.active]))
    BY <2>1, <1>7
  <2>2. CASE Silent(evs, Focuses(k.ids[d.active])) /\ d.active = desk.active /\ kwin.ids[d.active] = k.ids[d.active]
    <3>1. \/ Settles(Coming, Focuses(k.ids[d.active]), FocusIs(k.ids[d.active]))
          \/ Silent(Coming, Focuses(k.ids[d.active])) /\ app.active = k.ids[d.active]
      BY <2>2, <1>8, <1>12 DEF Mirrors
    <3>2. QED
      BY <2>2, <3>1, <1>7
  <2>3. QED
    BY <2>1, <2>2, <1>12 DEF Reports
<1>13. QED
  BY <1>1, <1>4, <1>10, <1>11, <1>12 DEF Mirrors

\* When the consumer is back it is told everything.
LEMMA ReconnectedMirror ==
  ASSUME Base, ConsumerReconnected
  PROVE  MirrorInv'
<1> DEFINE r == Reassert(kwin, desk)
<1>1. /\ r \in Seq(WireEvent) /\ wire' = r
      /\ UNCHANGED <<desk, notice, phone>> /\ kwin'.ids = kwin.ids /\ kwin'.capture = kwin.capture
      /\ DeskType(desk) /\ Numbered(kwin, desk) /\ kwin.capture \in BOOLEAN /\ kwin.pid = Client(desk)
  BY ReconnectedTells
<1>2. /\ Settles(r, Captures, CaptureIs(kwin.capture))
      /\ \A w \in DOMAIN kwin.ids : Settles(r, Titles(kwin.ids[w]), TitleIs(kwin.ids[w], desk.title[w]))
      /\ desk.active # NULL => Settles(r, Focuses(kwin.ids[desk.active]), FocusIs(kwin.ids[desk.active]))
  BY <1>1, ReassertEnds
<1>3. DOMAIN kwin.ids = DOMAIN desk.title
  BY <1>1 DEF Numbered
<1>4. UNCHANGED <<stack, ui, app, desk>>
  BY <1>1 DEF phone
<1> HIDE DEF r
<1>5. r \in Seq(Event) /\ ui \in Seq(Event)
  BY <1>1 DEF Base, TypeOK, WireEvent, Event
<1>6. \A T, G : Settles(r, T, G) => Settles(Come(stack["ui"], ui, stack["event"], r), T, G)
  BY <1>5, ComeEnds
<1>7. Coming' = Come(stack["ui"], ui, stack["event"], r)
  BY <1>1, <1>4 DEF Coming
<1>8. Mirrors(Coming', app', desk', kwin')
  BY <1>1, <1>2, <1>3, <1>4, <1>6, <1>7 DEF Mirrors
<1>9. QED
  BY <1>8 DEF MirrorInv

\* An event read moves from the channel to the UI thread's queue, if it is
\* not about scheduling.
LEMMA ReadMirror ==
  ASSUME Base, MirrorInv, HandleEvent
  PROVE  MirrorInv'
<1> DEFINE e == Head(wire)
           t == Tail(wire)
<1>1. /\ wire # <<>> /\ e \in WireEvent /\ wire' = t /\ t \in Seq(WireEvent)
      /\ UNCHANGED <<desk, kwin, link, app>> /\ link = "up"
      /\ e.type = "SCHED" => e \in SchedEvent /\ UNCHANGED ui
      /\ e.type # "SCHED" => ui' = Append(ui, e)
  BY ReadsEvent
<1>2. wire \in Seq(Event) /\ ui \in Seq(Event) /\ t \in Seq(Event) /\ e \in Event
  BY <1>1 DEF Base, TypeOK, WireEvent, Event
<1>3. ASSUME NEW T, NEW G
      PROVE  /\ Silent(wire, T) <=> e \notin T /\ Silent(t, T)
             /\ Settles(wire, T, G) <=> Settles(t, T, G) \/ (Silent(t, T) /\ e \in T \cap G)
  BY <1>1, <1>2, HeadEnds
<1>4. /\ stack["event"] \notin EventCb /\ stack'["event"] \notin EventCb /\ stack'["ui"] = stack["ui"]
  <2>1. stack["event"] = <<"poll">> /\ stack'["event"] \in {<<"poll">>, <<"set", "poll">>} /\ stack'["ui"] = stack["ui"]
    BY EventStack DEF Base, OnlyMoves, Thread
  <2>2. QED
    BY <2>1 DEF EventCb
<1>5. Mirrors(Coming, app, desk, kwin)
  BY <1>1 DEF MirrorInv
<1> HIDE DEF e, t
<1>6. ASSUME NEW T, NEW G
      PROVE  /\ Silent(Coming, T) <=> /\ e \notin T /\ Silent(t, T) /\ Silent(ui, T)
                                      /\ stack["ui"] \notin UiCb \/ Reset \notin T
             /\ Settles(Coming, T, G)
                  <=> \/ Settles(t, T, G) \/ (Silent(t, T) /\ e \in T \cap G)
                      \/ /\ Silent(t, T) /\ e \notin T
                         /\ Settles(ui, T, G) \/ (Silent(ui, T) /\ stack["ui"] \in UiCb /\ Reset \in T \cap G)
  <2>1. /\ Silent(Coming, T)
             <=> /\ Silent(wire, T) /\ Silent(ui, T)
                 /\ stack["event"] \notin EventCb \/ Reset \notin T
                 /\ stack["ui"] \notin UiCb \/ Reset \notin T
        /\ Settles(Coming, T, G)
             <=> \/ Settles(wire, T, G)
                 \/ /\ Silent(wire, T)
                    /\ \/ stack["event"] \in EventCb /\ Reset \in T \cap G
                       \/ /\ stack["event"] \notin EventCb \/ Reset \notin T
                          /\ Settles(ui, T, G) \/ (Silent(ui, T) /\ stack["ui"] \in UiCb /\ Reset \in T \cap G)
    BY <1>2, ComeEnds DEF Coming
  <2> HIDE DEF Coming
  <2>2. QED
    BY <2>1, <1>3, <1>4
<1>7. ASSUME NEW T, NEW G, ui' \in Seq(Event)
      PROVE  /\ Silent(Coming', T) <=> /\ Silent(t, T) /\ Silent(ui', T)
                                       /\ stack["ui"] \notin UiCb \/ Reset \notin T
             /\ Settles(Coming', T, G)
                  <=> \/ Settles(t, T, G)
                      \/ /\ Silent(t, T)
                         /\ Settles(ui', T, G) \/ (Silent(ui', T) /\ stack["ui"] \in UiCb /\ Reset \in T \cap G)
  <2>1. Coming' = Come(stack["ui"], ui', stack'["event"], t)
    BY <1>1, <1>4 DEF Coming
  <2>2. /\ Silent(Come(stack["ui"], ui', stack'["event"], t), T)
             <=> /\ Silent(t, T) /\ Silent(ui', T)
                 /\ stack'["event"] \notin EventCb \/ Reset \notin T
                 /\ stack["ui"] \notin UiCb \/ Reset \notin T
        /\ Settles(Come(stack["ui"], ui', stack'["event"], t), T, G)
             <=> \/ Settles(t, T, G)
                 \/ /\ Silent(t, T)
                    /\ \/ stack'["event"] \in EventCb /\ Reset \in T \cap G
                       \/ /\ stack'["event"] \notin EventCb \/ Reset \notin T
                          /\ Settles(ui', T, G) \/ (Silent(ui', T) /\ stack["ui"] \in UiCb /\ Reset \in T \cap G)
    BY <1>2, <1>7, ComeEnds
  <2> HIDE DEF Coming
  <2>3. QED
    BY <2>1, <2>2, <1>4
<1> HIDE DEF Coming
<1>8. CASE e.type = "SCHED"
  <2>1. ui' = ui /\ ui' \in Seq(Event)
    BY <1>1, <1>2, <1>8
  <2>2. \A i : e \notin Captures /\ e \notin Titles(i) /\ e \notin Focuses(i)
    BY <1>1, <1>8, Kinds
  <2>3. ASSUME NEW T, e \notin T, NEW G
        PROVE  (Silent(Coming', T) <=> Silent(Coming, T)) /\ (Settles(Coming', T, G) <=> Settles(Coming, T, G))
    BY <2>1, <2>3, <1>6, <1>7
  <2>4. Mirrors(Coming', app, desk, kwin)
    BY <2>2, <2>3, <1>5 DEF Mirrors
  <2>5. QED
    BY <2>4, <1>1 DEF MirrorInv
<1>9. CASE e.type # "SCHED"
  <2>1. ui' = Append(ui, e)
    BY <1>1, <1>9
  <2>2. ASSUME NEW T, NEW G
        PROVE  /\ ui' \in Seq(Event) /\ (Silent(ui', T) <=> Silent(ui, T) /\ e \notin T)
               /\ Settles(ui', T, G) <=> e \in T \cap G \/ (e \notin T /\ Settles(ui, T, G))
    BY <2>1, <1>2, AppendEnds
  <2>3. \A T, G : (Silent(Coming', T) <=> Silent(Coming, T)) /\ (Settles(Coming', T, G) <=> Settles(Coming, T, G))
    BY <2>2, <1>6, <1>7
  <2>4. Mirrors(Coming', app, desk, kwin)
    BY <2>3, <1>5, SameEnds
  <2>5. QED
    BY <2>4, <1>1 DEF MirrorInv
<1>10. QED
  BY <1>8, <1>9

\* What a task does to what nothing behind it decides.
LEMMA TaskApplies ==
  ASSUME app = [forced |-> app.forced, windows |-> app.windows, active |-> app.active],
         NEW e \in VarEvent \cup ResetEvent \cup WindowEvent,
         e \in ResetEvent => app' = Regressed,
         e \in VarEvent => app' = Forced(e.value),
         e \in WindowEvent => app' = Apply(e)
  PROVE  /\ \A v \in BOOLEAN : e \in Captures \cap CaptureIs(v) => app'.forced = v
         /\ e \notin Captures => app'.forced = app.forced
         /\ \A i, t : /\ e \in Titles(i) \cap TitleIs(i, t) => HasTitle(app', i, t)
                      /\ e \notin Titles(i) /\ HasTitle(app, i, t) => HasTitle(app', i, t)
         /\ \A i : /\ e \in Focuses(i) \cap FocusIs(i) => app'.active = i
                   /\ e \notin Focuses(i) /\ app.active = i => app'.active = i
<1>1. CASE e \in ResetEvent
  <2>1. app' = [app EXCEPT !.forced = FALSE]
    BY <1>1 DEF Regressed
  <2>2. app'.forced = FALSE /\ app'.windows = app.windows /\ app'.active = app.active
    BY <2>1
  <2>3. /\ e \in Captures /\ \A v \in BOOLEAN : e \in CaptureIs(v) => ~v
        /\ \A i : e \notin Titles(i) /\ e \notin Focuses(i)
    BY <1>1 DEF ResetEvent, VarEvent, WindowEvent, Captures, CaptureIs, Titles, Focuses
  <2>4. QED
    BY <2>2, <2>3 DEF HasTitle
<1>2. CASE e \in VarEvent
  <2>1. app' = [app EXCEPT !.forced = e.value]
    BY <1>2 DEF Forced
  <2>2. app'.forced = e.value /\ app'.windows = app.windows /\ app'.active = app.active
    BY <2>1
  <2>3. /\ e \in Captures /\ \A v \in BOOLEAN : e \in CaptureIs(v) => e.value = v
        /\ \A i : e \notin Titles(i) /\ e \notin Focuses(i)
    BY <1>2 DEF ResetEvent, VarEvent, WindowEvent, Captures, CaptureIs, Titles, Focuses
  <2>4. QED
    BY <2>2, <2>3 DEF HasTitle
<1>3. CASE e \in WindowEvent /\ e.action = "DESTROY"
  <2> DEFINE v == IF app.active = e.id THEN 0 ELSE app.active
             f == [app EXCEPT !.windows = Without(@, e.id)]
  <2>1. app' = [f EXCEPT !.active = v]
    BY <1>3 DEF Apply
  <2>2. f = [forced |-> app.forced, windows |-> Without(app.windows, e.id), active |-> app.active]
    OBVIOUS
  <2> HIDE DEF f, v
  <2>3. app'.forced = app.forced /\ app'.windows = Without(app.windows, e.id) /\ app'.active = v
    BY <2>1, <2>2
  <2>4. /\ e \notin Captures
        /\ \A i, t : e \notin TitleIs(i, t) /\ (e \notin Titles(i) => i # e.id)
        /\ \A i : e \notin FocusIs(i) /\ (e \notin Focuses(i) => i # e.id)
    BY <1>3, Kinds DEF TitleIs, FocusIs, Titles, Focuses
  <2>5. ASSUME NEW i, NEW t, e \notin Titles(i), HasTitle(app, i, t) PROVE HasTitle(app', i, t)
    BY <2>3, <2>4, <2>5 DEF HasTitle, Without
  <2>6. ASSUME NEW i, e \notin Focuses(i), app.active = i PROVE app'.active = i
    BY <2>3, <2>4, <2>6 DEF v
  <2>7. QED
    BY <2>3, <2>4, <2>5, <2>6
<1>4. CASE e \in WindowEvent /\ e.action # "DESTROY"
  <2> DEFINE v == IF e.focus THEN e.id ELSE app.active
             w == IF e.action # "FOCUS" THEN With(app.windows, e.id, e.title)
                  ELSE IF e.id \in DOMAIN app.windows THEN app.windows ELSE With(app.windows, e.id, NULL)
             f == [app EXCEPT !.windows = w]
  <2>1. app' = [f EXCEPT !.active = v]
    BY <1>4 DEF Apply
  <2>2. /\ \A i, t : i # e.id /\ i \in DOMAIN app.windows /\ app.windows[i] = t => i \in DOMAIN w /\ w[i] = t
        /\ e.action # "FOCUS" => e.id \in DOMAIN w /\ w[e.id] = e.title
        /\ e.action = "FOCUS" => \A t : e.id \in DOMAIN app.windows /\ app.windows[e.id] = t
                                          => e.id \in DOMAIN w /\ w[e.id] = t
    BY DEF With
  <2>3. (e.focus => v = e.id) /\ (~e.focus => v = app.active)
    OBVIOUS
  <2> HIDE DEF v, w
  <2>4. f = [forced |-> app.forced, windows |-> w, active |-> app.active]
    OBVIOUS
  <2> HIDE DEF f
  <2>5. app'.forced = app.forced /\ app'.windows = w /\ app'.active = v
    BY <2>1, <2>4
  <2>6. /\ e \notin Captures
        /\ \A i, t : e \in TitleIs(i, t) => e.id = i /\ e.title = t /\ e.action # "FOCUS"
        /\ \A i : /\ e \notin Titles(i) => i # e.id \/ e.action = "FOCUS"
                  /\ e \in FocusIs(i) => e.focus /\ e.id = i
                  /\ e \notin Focuses(i) => ~e.focus
    BY <1>4, Kinds DEF TitleIs, FocusIs, Titles, Focuses
  <2>7. ASSUME NEW i, NEW t, e \in TitleIs(i, t) PROVE HasTitle(app', i, t)
    BY <2>2, <2>5, <2>6, <2>7 DEF HasTitle
  <2>8. ASSUME NEW i, NEW t, e \notin Titles(i), HasTitle(app, i, t) PROVE HasTitle(app', i, t)
    BY <2>2, <2>5, <2>6, <2>8 DEF HasTitle
  <2>9. ASSUME NEW i PROVE /\ e \in FocusIs(i) => app'.active = i
                           /\ e \notin Focuses(i) /\ app.active = i => app'.active = i
    BY <2>3, <2>5, <2>6
  <2>10. QED
    BY <2>5, <2>6, <2>7, <2>8, <2>9
<1>5. QED
  BY <1>1, <1>2, <1>3, <1>4

LEMMA TaskMirror ==
  ASSUME Base, MirrorInv, RunTask
  PROVE  MirrorInv'
<1> SUFFICES ASSUME link' = "up" PROVE Mirrors(Coming', app', desk', kwin')
  BY DEF MirrorInv
<1> DEFINE e == Head(ui)
           t == Tail(ui)
           E == VarEvent \cup ResetEvent \cup WindowEvent
<1>1. /\ ui \in Seq(E) /\ ui # <<>> /\ ui' = t /\ e \in E /\ t \in Seq(E) /\ stack["ui"] = <<>>
      /\ UNCHANGED <<desk, kwin, link, wire, stack>>
      /\ e \in ResetEvent => app' = Regressed
      /\ e \in VarEvent => app' = Forced(e.value)
      /\ e \in WindowEvent => app' = Apply(e)
  BY RunsTask
<1>2. app = [forced |-> app.forced, windows |-> app.windows, active |-> app.active]
  BY DEF Base, TypeOK
<1>3. /\ \A v \in BOOLEAN : e \in Captures \cap CaptureIs(v) => app'.forced = v
      /\ e \notin Captures => app'.forced = app.forced
      /\ \A i, x : /\ e \in Titles(i) \cap TitleIs(i, x) => HasTitle(app', i, x)
                   /\ e \notin Titles(i) /\ HasTitle(app, i, x) => HasTitle(app', i, x)
      /\ \A i : /\ e \in Focuses(i) \cap FocusIs(i) => app'.active = i
                /\ e \notin Focuses(i) /\ app.active = i => app'.active = i
  BY <1>1, <1>2, TaskApplies
<1>4. wire \in Seq(Event) /\ ui \in Seq(Event) /\ t \in Seq(Event)
  BY <1>1 DEF Base, TypeOK, WireEvent, Event
<1> HIDE DEF e, t
<1>5. stack["ui"] \notin UiCb
  BY <1>1 DEF UiCb
<1>6. Coming = Come(stack["ui"], ui, stack["event"], wire) /\ Coming' = Come(stack["ui"], t, stack["event"], wire)
  BY <1>1 DEF Coming
<1> HIDE DEF Coming
<1>7. ASSUME NEW T, NEW G
      PROVE  /\ Silent(ui, T) <=> e \notin T /\ Silent(t, T)
             /\ Settles(ui, T, G) <=> Settles(t, T, G) \/ (Silent(t, T) /\ e \in T \cap G)
  BY <1>1, <1>4, HeadEnds DEF e, t
<1>8. ASSUME NEW T, NEW G
      PROVE  /\ Silent(Coming, T) => Silent(Coming', T) /\ e \notin T
             /\ Settles(Coming, T, G) => Settles(Coming', T, G) \/ (Silent(Coming', T) /\ e \in T \cap G)
  <2>1. /\ Silent(Coming, T) <=> /\ Silent(wire, T) /\ Silent(ui, T)
                                 /\ stack["event"] \notin EventCb \/ Reset \notin T
        /\ Silent(Coming', T) <=> /\ Silent(wire, T) /\ Silent(t, T)
                                  /\ stack["event"] \notin EventCb \/ Reset \notin T
    BY <1>4, <1>5, <1>6, ComeSilent
  <2>2. Settles(Coming, T, G)
          <=> \/ Settles(wire, T, G)
              \/ /\ Silent(wire, T)
                 /\ \/ stack["event"] \in EventCb /\ Reset \in T \cap G
                    \/ (stack["event"] \notin EventCb \/ Reset \notin T) /\ Settles(ui, T, G)
    BY <1>4, <1>5, <1>6, ComeEnds
  <2>3. Settles(Coming', T, G)
          <=> \/ Settles(wire, T, G)
              \/ /\ Silent(wire, T)
                 /\ \/ stack["event"] \in EventCb /\ Reset \in T \cap G
                    \/ (stack["event"] \notin EventCb \/ Reset \notin T) /\ Settles(t, T, G)
    BY <1>4, <1>5, <1>6, ComeEnds
  <2>4. QED
    BY <2>1, <2>2, <2>3, <1>7
<1>9. Mirrors(Coming, app, desk, kwin) /\ kwin.capture \in BOOLEAN
  BY <1>1 DEF MirrorInv, Base, KWinInv, TypeOK
<1>10. \/ Settles(Coming', Captures, CaptureIs(kwin.capture))
       \/ Silent(Coming', Captures) /\ app'.forced = kwin.capture
  BY <1>3, <1>8, <1>9 DEF Mirrors
<1>11. ASSUME NEW w \in DOMAIN desk.title
       PROVE  \/ Settles(Coming', Titles(kwin.ids[w]), TitleIs(kwin.ids[w], desk.title[w]))
              \/ Silent(Coming', Titles(kwin.ids[w])) /\ HasTitle(app', kwin.ids[w], desk.title[w])
  BY <1>3, <1>8, <1>9 DEF Mirrors
<1>12. ASSUME desk.active # NULL
       PROVE  \/ Settles(Coming', Focuses(kwin.ids[desk.active]), FocusIs(kwin.ids[desk.active]))
              \/ Silent(Coming', Focuses(kwin.ids[desk.active])) /\ app'.active = kwin.ids[desk.active]
  BY <1>3, <1>8, <1>9, <1>12 DEF Mirrors
<1>13. QED
  BY <1>1, <1>10, <1>11, <1>12 DEF Mirrors

\* onFallback: posted behind the tasks, or run at once by the UI thread.
LEMMA TellMirror ==
  ASSUME Base, MirrorInv, NEW t \in Thread, TellJavaAndStop(t)
  PROVE  MirrorInv'
<1> SUFFICES ASSUME link' = "up" PROVE Mirrors(Coming', app', desk', kwin')
  BY DEF MirrorInv
<1>1. UNCHANGED <<desk, kwin, link, wire>>
  BY DEF TellJavaAndStop
<1>2. Mirrors(Coming, app, desk, kwin) /\ kwin.capture \in BOOLEAN
  BY <1>1 DEF MirrorInv, Base, KWinInv, TypeOK
<1>3. wire \in Seq(Event) /\ ui \in Seq(Event)
  BY DEF Base, TypeOK, WireEvent, Event
<1>4. OnlyMoves(t) /\ stack[t] \in Cb(t) /\ stack'[t] \notin Cb(t)
  BY TellStack DEF Base
<1>5. t # "render"
  BY <1>1, <1>4 DEF Base, LinkInv, Cb
<1>6. Reset \in ResetEvent /\ Reset \in Event
  BY DEF Reset, ResetEvent, Event
<1>7. CASE t = "event"
  <2>1. stack["event"] \in EventCb /\ stack'["event"] \notin EventCb /\ stack'["ui"] = stack["ui"]
    BY <1>4, <1>7 DEF Cb, OnlyMoves, Thread
  <2>2. ui' = Append(ui, Reset) /\ app' = app
    BY <1>7 DEF TellJavaAndStop, Reset
  <2>3. Coming = Come(stack["ui"], ui, stack["event"], wire) /\ Coming' = Come(stack["ui"], ui', stack'["event"], wire)
    BY <2>1, <1>1 DEF Coming
  <2> HIDE DEF Coming
  <2>4. ASSUME NEW T, NEW G
        PROVE  (Silent(Coming', T) <=> Silent(Coming, T)) /\ (Settles(Coming', T, G) <=> Settles(Coming, T, G))
    <3>1. /\ ui' \in Seq(Event) /\ (Silent(ui', T) <=> Silent(ui, T) /\ Reset \notin T)
          /\ Settles(ui', T, G) <=> Reset \in T \cap G \/ (Reset \notin T /\ Settles(ui, T, G))
      BY <2>2, <1>3, <1>6, AppendEnds
    <3>2. /\ Silent(Coming, T) <=> /\ Silent(wire, T) /\ Silent(ui, T) /\ Reset \notin T
                                   /\ stack["ui"] \notin UiCb \/ Reset \notin T
          /\ Silent(Coming', T) <=> /\ Silent(wire, T) /\ Silent(ui', T)
                                    /\ stack["ui"] \notin UiCb \/ Reset \notin T
      BY <2>1, <2>3, <3>1, <1>3, ComeSilent
    <3>3. Settles(Coming, T, G)
            <=> \/ Settles(wire, T, G)
                \/ /\ Silent(wire, T)
                   /\ \/ Reset \in T \cap G
                      \/ /\ Reset \notin T
                         /\ Settles(ui, T, G) \/ (Silent(ui, T) /\ stack["ui"] \in UiCb /\ Reset \in T \cap G)
      <4>1. Settles(Coming, T, G)
              <=> \/ Settles(wire, T, G)
                  \/ /\ Silent(wire, T)
                     /\ \/ stack["event"] \in EventCb /\ Reset \in T \cap G
                        \/ /\ stack["event"] \notin EventCb \/ Reset \notin T
                           /\ Settles(ui, T, G) \/ (Silent(ui, T) /\ stack["ui"] \in UiCb /\ Reset \in T \cap G)
        BY <2>3, <1>3, ComeEnds
      <4>2. QED
        BY <4>1, <2>1
    <3>4. Settles(Coming', T, G)
            <=> \/ Settles(wire, T, G)
                \/ /\ Silent(wire, T)
                   /\ Settles(ui', T, G) \/ (Silent(ui', T) /\ stack["ui"] \in UiCb /\ Reset \in T \cap G)
      <4>1. Settles(Coming', T, G)
              <=> \/ Settles(wire, T, G)
                  \/ /\ Silent(wire, T)
                     /\ \/ stack'["event"] \in EventCb /\ Reset \in T \cap G
                        \/ /\ stack'["event"] \notin EventCb \/ Reset \notin T
                           /\ Settles(ui', T, G) \/ (Silent(ui', T) /\ stack["ui"] \in UiCb /\ Reset \in T \cap G)
        BY <2>3, <3>1, <1>3, ComeEnds
      <4>2. QED
        BY <4>1, <2>1
    <3>5. QED
      BY <3>1, <3>2, <3>3, <3>4
  <2>5. Mirrors(Coming', app, desk, kwin)
    BY <2>4, <1>2, SameEnds
  <2>6. QED
    BY <2>2, <2>5, <1>1
<1>8. CASE t = "ui"
  <2>1. stack["ui"] \in UiCb /\ stack'["ui"] \notin UiCb /\ stack'["event"] = stack["event"]
    BY <1>4, <1>8 DEF Cb, OnlyMoves, Thread
  <2>2. /\ ui' = ui /\ app' = [app EXCEPT !.forced = FALSE]
        /\ app = [forced |-> app.forced, windows |-> app.windows, active |-> app.active]
    BY <1>8 DEF TellJavaAndStop, Base, TypeOK
  <2>3. Coming = Come(stack["ui"], ui, stack["event"], wire) /\ Coming' = Come(stack'["ui"], ui, stack["event"], wire)
    BY <2>1, <2>2, <1>1 DEF Coming
  <2> HIDE DEF Coming
  <2>4. ~app'.forced /\ app'.forced \in BOOLEAN /\ app'.windows = app.windows /\ app'.active = app.active
    BY <2>2
  <2>5. ASSUME NEW T, NEW G
        PROVE  /\ Silent(Coming, T) => Silent(Coming', T) /\ Reset \notin T
               /\ Settles(Coming, T, G) => Settles(Coming', T, G) \/ (Silent(Coming', T) /\ Reset \in T \cap G)
    <3>1. /\ Silent(Coming, T) <=> /\ Silent(wire, T) /\ Silent(ui, T) /\ Reset \notin T
                                   /\ stack["event"] \notin EventCb \/ Reset \notin T
          /\ Silent(Coming', T) <=> /\ Silent(wire, T) /\ Silent(ui, T)
                                    /\ stack["event"] \notin EventCb \/ Reset \notin T
      BY <2>1, <2>3, <1>3, ComeSilent
    <3>2. Settles(Coming, T, G)
            <=> \/ Settles(wire, T, G)
                \/ /\ Silent(wire, T)
                   /\ \/ stack["event"] \in EventCb /\ Reset \in T \cap G
                      \/ /\ stack["event"] \notin EventCb \/ Reset \notin T
                         /\ Settles(ui, T, G) \/ (Silent(ui, T) /\ Reset \in T \cap G)
      BY <2>1, <2>3, <1>3, ComeEnds
    <3>3. Settles(Coming', T, G)
            <=> \/ Settles(wire, T, G)
                \/ /\ Silent(wire, T)
                   /\ \/ stack["event"] \in EventCb /\ Reset \in T \cap G
                      \/ (stack["event"] \notin EventCb \/ Reset \notin T) /\ Settles(ui, T, G)
      BY <2>1, <2>3, <1>3, ComeEnds
    <3>4. QED
      BY <3>1, <3>2, <3>3
  <2>6. /\ Reset \in Captures /\ \A i : Reset \notin Titles(i) /\ Reset \notin Focuses(i)
        /\ Reset \in CaptureIs(kwin.capture) => ~kwin.capture
    <3>1. Reset.type = "RESET"
      BY DEF Reset
    <3>2. QED
      BY <3>1, <1>6, Kinds DEF Captures, CaptureIs, VarEvent
  <2>7. \/ Settles(Coming', Captures, CaptureIs(kwin.capture))
        \/ Silent(Coming', Captures) /\ app'.forced = kwin.capture
    BY <2>4, <2>5, <2>6, <1>2 DEF Mirrors
  <2>8. \A w \in DOMAIN desk.title :
          \/ Settles(Coming', Titles(kwin.ids[w]), TitleIs(kwin.ids[w], desk.title[w]))
          \/ Silent(Coming', Titles(kwin.ids[w])) /\ HasTitle(app', kwin.ids[w], desk.title[w])
    BY <2>4, <2>5, <2>6, <1>2 DEF Mirrors, HasTitle
  <2>9. desk.active # NULL =>
          \/ Settles(Coming', Focuses(kwin.ids[desk.active]), FocusIs(kwin.ids[desk.active]))
          \/ Silent(Coming', Focuses(kwin.ids[desk.active])) /\ app'.active = kwin.ids[desk.active]
    BY <2>4, <2>5, <2>6, <1>2 DEF Mirrors
  <2>10. QED
    BY <2>7, <2>8, <2>9, <1>1 DEF Mirrors
<1>9. QED
  BY <1>5, <1>7, <1>8 DEF Thread

\* The rest neither brings an event nor delivers one, or ends the session.
LEMMA QuietMirror ==
  ASSUME Base, MirrorInv, link' = link, UNCHANGED <<desk, kwin, wire, ui, app>>,
         stack'["ui"] \in UiCb <=> stack["ui"] \in UiCb, stack'["event"] \in EventCb <=> stack["event"] \in EventCb
  PROVE  MirrorInv'
<1>1. Coming' = Coming
  BY DEF Coming, Come, Pending
<1>2. QED
  BY <1>1 DEF MirrorInv

LEMMA RenderMirror ==
  ASSUME Base, MirrorInv, Connect \/ Loop \/ PushDmabufs \/ DiscoverRoot \/ StartEventThread
  PROVE  MirrorInv'
<1>1. /\ UNCHANGED <<desk, kwin, wire, ui, app>>
      /\ link' = link \/ link' # "up"
  BY DEF Connect, Loop, PushDmabufs, DiscoverRoot, StartEventThread
<1>2. /\ stack'["ui"] = stack["ui"]
      /\ stack'["event"] = stack["event"] \/ (stack["event"] = <<>> /\ stack'["event"] = <<"poll">>)
  BY RenderStack DEF Base, OnlyMoves, Thread
<1>3. stack'["event"] \in EventCb <=> stack["event"] \in EventCb
  BY <1>2 DEF EventCb
<1>4. CASE link' = link
  BY <1>1, <1>2, <1>3, <1>4, QuietMirror
<1>5. CASE link' # "up"
  BY <1>5 DEF MirrorInv
<1>6. QED
  BY <1>1, <1>4, <1>5

LEMMA EventMirror ==
  ASSUME Base, MirrorInv, EventEnds \/ PollHangup \/ HelperSets
  PROVE  MirrorInv'
<1>1. UNCHANGED <<desk, kwin, wire, ui, app, link>>
  BY DEF EventEnds, PollHangup, HelperSets
<1>2. /\ stack'["ui"] = stack["ui"] /\ stack["event"] \in {<<"poll">>, <<"set", "poll">>}
      /\ stack'["event"] \in {<<>>, <<"poll">>, <<"fallback", "poll">>}
  BY EventStack DEF Base, OnlyMoves, Thread
<1>3. stack["event"] \notin EventCb /\ stack'["event"] \notin EventCb
  BY <1>2 DEF EventCb
<1>4. QED
  BY <1>1, <1>2, <1>3, QuietMirror

LEMMA UiMirror ==
  ASSUME Base, MirrorInv, SendFails \/ NativeStop \/ NativeStart \/ Disconnect \/ JoinRender \/ JoinEvent
  PROVE  MirrorInv'
<1>1. CASE Disconnect
  BY <1>1 DEF Disconnect, MirrorInv
<1>2. CASE SendFails \/ NativeStop \/ NativeStart \/ JoinRender \/ JoinEvent
  <2>1. UNCHANGED <<desk, kwin, wire, ui, app, link>>
    BY <1>2 DEF SendFails, NativeStop, NativeStart, JoinRender, JoinEvent
  <2>2. /\ stack'["event"] = stack["event"]
        /\ stack["ui"] \in {<<>>} \cup Stopping /\ stack'["ui"] \in {<<>>, <<"fallback">>} \cup Stopping
    BY <1>2, UiStack DEF Base, OnlyMoves, Thread, Stopping, Joined
  <2>3. stack["ui"] \notin UiCb /\ stack'["ui"] \notin UiCb
    BY <2>2 DEF UiCb, Stopping, Joined
  <2>4. QED
    BY <2>1, <2>2, <2>3, QuietMirror
<1>3. QED
  BY <1>1, <1>2

LEMMA LibraryMirror ==
  ASSUME Base, MirrorInv, NEW t \in Thread, Library(t)
  PROVE  MirrorInv'
<1>1. CASE EnterFallback(t)
  <2>1. CASE con.fallback
    <3>1. UNCHANGED <<desk, kwin, wire, ui, app, link>>
      BY <1>1, <2>1 DEF EnterFallback
    <3>2. OnlyMoves(t) /\ stack[t] \notin Cb(t) /\ (t # "render" => stack'[t] \in {<<>>, <<"poll">>})
      BY <1>1, <2>1, EnterStack DEF Base, Thread
    <3>3. /\ stack'["ui"] \in UiCb <=> stack["ui"] \in UiCb
          /\ stack'["event"] \in EventCb <=> stack["event"] \in EventCb
      <4>1. t # "ui" => stack'["ui"] = stack["ui"]
        BY <3>2 DEF OnlyMoves, Thread
      <4>2. t # "event" => stack'["event"] = stack["event"]
        BY <3>2 DEF OnlyMoves, Thread
      <4>3. t = "ui" => stack["ui"] \notin UiCb /\ stack'["ui"] \notin UiCb
        BY <3>2 DEF Cb, UiCb
      <4>4. t = "event" => stack["event"] \notin EventCb /\ stack'["event"] \notin EventCb
        BY <3>2 DEF Cb, EventCb
      <4>5. QED
        BY <4>1, <4>2, <4>3, <4>4
    <3>4. QED
      BY <3>1, <3>3, QuietMirror
  <2>2. CASE ~con.fallback
    <3>1. link' # "up"
      BY <1>1, <2>2 DEF EnterFallback
    <3>2. QED
      BY <3>1 DEF MirrorInv
  <2>3. QED
    BY <2>1, <2>2
<1>2. CASE RestoreTree(t) \/ HelperRestores(t)
  <2>1. UNCHANGED <<desk, kwin, wire, ui, app, link>>
    BY <1>2 DEF RestoreTree, HelperRestores
  <2>2. /\ OnlyMoves(t)
        /\ \/ stack[t] \in Cb(t) /\ stack'[t] \in Cb(t)
           \/ t = "ui" /\ stack[t] \in Joined /\ stack'[t] \in Joined
    BY <1>2, RestoreStack DEF Base
  <2>3. \A u \in Joined : u \notin UiCb
    BY DEF Joined, UiCb
  <2>4. /\ stack'["ui"] \in UiCb <=> stack["ui"] \in UiCb
        /\ stack'["event"] \in EventCb <=> stack["event"] \in EventCb
    <3>1. t # "ui" => stack'["ui"] = stack["ui"]
      BY <2>2 DEF OnlyMoves, Thread
    <3>2. t # "event" => stack'["event"] = stack["event"]
      BY <2>2 DEF OnlyMoves, Thread
    <3>3. t = "ui" => (stack'["ui"] \in UiCb <=> stack["ui"] \in UiCb)
      BY <2>2, <2>3 DEF Cb
    <3>4. t = "event" => stack["event"] \in EventCb /\ stack'["event"] \in EventCb
      BY <2>2 DEF Cb
    <3>5. QED
      BY <3>1, <3>2, <3>3, <3>4
  <2>5. QED
    BY <2>1, <2>4, QuietMirror
<1>3. CASE TellJavaAndStop(t)
  BY <1>3, TellMirror
<1>4. QED
  BY <1>1, <1>2, <1>3 DEF Library

\* MirrorInv is inductive, given Base.
LEMMA NextMirror ==
  ASSUME Base, MirrorInv, [Next]_vars
  PROVE  MirrorInv'
<1>1. CASE KWin
  <2>1. CASE Activate \/ \E w \in Win : TrackWindow(w) \/ UntrackWindow(w) \/ Retitle(w)
    <3>1. \E d, k, evs : Change(d, k, evs) /\ KeepsUp(d, k, evs) /\ Reports(d, k, evs)
      BY <2>1, Changed DEF Base
    <3>2. QED
      BY <3>1, ChangeMirror
  <2>2. CASE PickUp
    <3>1. link' # "up"
      BY <2>2 DEF PickUp
    <3>2. QED
      BY <3>1 DEF MirrorInv
  <2>3. CASE KWinLost
    <3>1. link' # "up"
      BY <2>3 DEF KWinLost
    <3>2. QED
      BY <3>1 DEF MirrorInv
  <2>4. CASE KWinRestarts
    <3>1. link' # "up"
      BY <2>4 DEF KWinRestarts
    <3>2. QED
      BY <3>1 DEF MirrorInv
  <2>5. QED
    BY <1>1, <2>1, <2>2, <2>3, <2>4, ReconnectedMirror DEF KWin
<1>2. CASE RenderStep
  BY <1>2, RenderMirror, LibraryMirror DEF RenderStep, Thread
<1>3. CASE EventStep
  BY <1>3, EventMirror, ReadMirror, LibraryMirror DEF EventStep, Thread
<1>4. CASE UiStep
  BY <1>4, TaskMirror, UiMirror, LibraryMirror DEF UiStep, Thread
<1>5. CASE UNCHANGED vars
  <2>1. UNCHANGED <<desk, kwin, link, wire, stack, ui, app>>
    BY <1>5 DEF vars, phone
  <2>2. QED
    BY <2>1, QuietMirror
<1>6. QED
  BY <1>1, <1>2, <1>3, <1>4, <1>5 DEF Next

-----------------------------------------------------------------------------
(* A session that nobody's on_fallback disturbs.                           *)

\* A step that neither ends the session nor has an on_fallback begin.
LEMMA SameClean ==
  ASSUME CleanInv, UNCHANGED <<carried, boosted>>, con'.fallback = con.fallback,
         con'.event_running = con.event_running,
         stack'["render"] = stack["render"], stack'["event"] = stack["event"],
         stack'["ui"] \notin UiCb \/ stack'["ui"] = stack["ui"],
         link' = link \/ link' # "bufs"
  PROVE  CleanInv'
BY DEF CleanInv, Clean

LEMMA KWinClean ==
  ASSUME Base, CleanInv, KWin
  PROVE  CleanInv'
<1>1. CASE KWinRestarts
  <2>1. carried' = NULL
    BY <1>1 DEF KWinRestarts
  <2>2. QED
    BY <2>1 DEF CleanInv, Clean
<1>2. CASE ~KWinRestarts
  <2>1. UNCHANGED phone /\ (link' = link \/ link' # "bufs")
    <3>1. CASE Activate \/ \E w \in Win : TrackWindow(w) \/ UntrackWindow(w) \/ Retitle(w)
      BY <3>1, Changed DEF Base, Change
    <3>2. CASE PickUp \/ ConsumerReconnected \/ KWinLost
      BY <3>2 DEF PickUp, ConsumerReconnected, KWinLost
    <3>3. QED
      BY <3>1, <3>2, <1>2 DEF KWin
  <2>2. UNCHANGED <<carried, boosted, con, stack>>
    BY <2>1 DEF phone
  <2>3. QED
    BY <2>1, <2>2, SameClean
<1>3. QED
  BY <1>1, <1>2

LEMMA RenderClean ==
  ASSUME Base, CleanInv, Connect \/ Loop \/ PushDmabufs \/ DiscoverRoot \/ StartEventThread
  PROVE  CleanInv'
<1>1. stack'["ui"] = stack["ui"]
  BY RenderStack DEF Base, OnlyMoves, Thread
<1>2. CASE Connect
  <2>1. stack["render"] = <<"connect">> /\ stack'["render"] = IF con.running THEN <<"loop">> ELSE <<>>
    BY <1>2, RenderStack DEF Base
  <2>2. con.running => con'.fallback
    BY <1>2 DEF Connect, Base, TypeOK
  <2>3. QED
    BY <2>1, <2>2 DEF CleanInv, Clean
<1>3. CASE Loop
  <2>1. /\ stack["render"] = <<"loop">> /\ stack'["event"] = stack["event"]
        /\ stack'["render"] = IF ~con.running THEN <<>>
                              ELSE IF con.fallback THEN <<"push_dmabufs", "discover", "start", "loop">>
                              ELSE <<"fallback", "loop">>
    BY <1>3, RenderStack DEF Base, OnlyMoves, Thread
  <2>2. UNCHANGED <<link, boosted>>
    BY <1>3 DEF Loop
  <2>3. CASE ~con.running
    BY <2>1, <2>3 DEF CleanInv, Clean
  <2>4. CASE con.running /\ con.fallback
    <3>1. con' = [con EXCEPT !.fallback = FALSE] /\ carried' = (IF con.event_running \/ InFallbackCb THEN NULL ELSE boosted)
      BY <1>3, <2>4 DEF Loop
    <3>2. stack'["render"] \in Starting
      BY <2>1, <2>4 DEF Starting
    <3>3. CASE con.event_running \/ InFallbackCb
      BY <3>1, <3>3 DEF CleanInv, Clean
    <3>4. CASE ~con.event_running /\ ~InFallbackCb
      <4>1. stack["event"] \notin EventCb /\ stack["ui"] \notin UiCb
        BY <3>4 DEF InFallbackCb, At, EventCb, UiCb
      <4>2. ~con'.event_running
        BY <3>1, <3>4 DEF Base, TypeOK
      <4>3. QED
        BY <2>1, <3>2, <4>1, <4>2, <1>1 DEF CleanInv
    <3>5. QED
      BY <3>3, <3>4
  <2>5. CASE con.running /\ ~con.fallback
    <3>1. UNCHANGED <<con, carried>>
      BY <1>3, <2>5 DEF Loop
    <3>2. stack["render"] \notin Starting /\ stack'["render"] \notin Starting /\ stack["render"] # <<>>
      BY <2>1, <2>5 DEF Starting
    <3>3. QED
      BY <2>1, <2>2, <3>1, <3>2, <1>1 DEF CleanInv, Clean
  <2>6. QED
    BY <2>3, <2>4, <2>5
<1>4. CASE PushDmabufs \/ DiscoverRoot
  <2>1. stack["render"] \in Starting /\ stack'["render"] \in Starting /\ stack'["event"] = stack["event"]
        /\ stack["render"] # <<>>
    BY <1>4, RenderStack DEF Base, OnlyMoves, Thread, Starting
  <2>2. carried' = carried /\ con'.fallback = con.fallback /\ con'.event_running = con.event_running
    BY <1>4 DEF PushDmabufs, DiscoverRoot, Base, TypeOK
  <2>3. QED
    BY <2>1, <2>2, <1>1 DEF CleanInv, Clean
<1>5. CASE StartEventThread
  <2>1. /\ stack["render"] = <<"start", "loop">> /\ stack'["render"] = <<"loop">>
        /\ IF con.event_running THEN stack'["event"] = stack["event"]
           ELSE stack["event"] = <<>> /\ stack'["event"] = <<"poll">>
    BY <1>5, RenderStack DEF Base
  <2>2. stack["render"] \in Starting /\ stack'["render"] \notin Starting /\ stack["render"] # <<>>
    BY <2>1 DEF Starting
  <2>3. /\ carried' = IF carried = NULL THEN NULL ELSE boosted
        /\ boosted' = boosted /\ con'.fallback = con.fallback /\ con'.event_running
    BY <1>5 DEF StartEventThread, Base, TypeOK
  <2>4. ASSUME Clean' PROVE Clean
    BY <2>2, <2>3, <2>4 DEF Clean
  <2>5. ASSUME Clean'
        PROVE  /\ stack'["event"] = <<"poll">> /\ stack'["ui"] \notin UiCb /\ con'.event_running
               /\ boosted' = carried'
    BY <2>1, <2>2, <2>3, <2>4, <2>5, <1>1 DEF CleanInv, Clean
  <2>6. <<"poll">> \notin EventCb
    BY DEF EventCb
  <2>7. QED
    BY <2>2, <2>5, <2>6 DEF CleanInv
<1>6. QED
  BY <1>2, <1>3, <1>4, <1>5

LEMMA EventClean ==
  ASSUME Base, CleanInv, EventEnds \/ PollHangup \/ HandleEvent \/ HelperSets
  PROVE  CleanInv'
<1>1. UNCHANGED <<link, con, carried>> /\ stack'["render"] = stack["render"] /\ stack'["ui"] = stack["ui"]
  BY EventStack DEF EventEnds, PollHangup, HandleEvent, HelperSets, Base, OnlyMoves, Thread
<1>2. /\ EventEnds => ~con.event_running /\ stack'["event"] = <<>> /\ stack["event"] = <<"poll">> /\ boosted' = boosted
      /\ PollHangup => link = "hup" /\ stack'["event"] = <<"fallback", "poll">> /\ stack["event"] = <<"poll">>
      /\ HandleEvent => link = "up" /\ stack'["event"] \in {<<"set", "poll">>, <<"poll">>} /\ stack["event"] = <<"poll">>
      /\ HelperSets => stack'["event"] = <<"poll">> /\ stack["event"] = <<"set", "poll">>
  <2>1. /\ EventEnds => ~con.event_running /\ boosted' = boosted
        /\ PollHangup => link = "hup"
        /\ HandleEvent => link = "up"
    BY DEF EventEnds, PollHangup, HandleEvent
  <2>2. QED
    BY <2>1, EventStack DEF Base
<1>3. stack'["event"] \notin EventCb
  BY <1>2 DEF EventCb
<1>4. ASSUME Clean'
      PROVE  /\ Clean /\ stack["ui"] \notin UiCb
             /\ stack["render"] \in Starting => ~con.event_running
             /\ stack["render"] \notin Starting => EventEnds \/ (con.event_running /\ stack'["event"] # <<>> /\ link # "bufs")
             /\ EventEnds => stack["render"] \in Starting
  <2>1. Clean
    BY <1>1, <1>4 DEF Clean
  <2>2. QED
    BY <2>1, <1>2 DEF CleanInv
<1>5. QED
  BY <1>1, <1>3, <1>4 DEF CleanInv

LEMMA UiClean ==
  ASSUME Base, CleanInv, RunTask \/ SendFails \/ NativeStop \/ NativeStart \/ Disconnect \/ JoinRender \/ JoinEvent
  PROVE  CleanInv'
<1>1. CASE RunTask \/ SendFails \/ NativeStop \/ JoinEvent
  <2>1. UNCHANGED <<carried, boosted, link>> /\ con'.fallback = con.fallback /\ con'.event_running = con.event_running
    BY <1>1 DEF RunTask, SendFails, NativeStop, JoinEvent, Base, TypeOK
  <2>2. stack'["render"] = stack["render"] /\ stack'["event"] = stack["event"]
        /\ (stack' = stack \/ stack'["ui"] \in {<<"fallback">>} \cup Stopping)
    <3>1. RunTask => stack' = stack
      BY DEF RunTask
    <3>2. QED
      BY <3>1, <1>1, UiStack DEF Base, OnlyMoves, Thread, Stopping, Joined
  <2>3. stack' = stack \/ stack'["ui"] \notin UiCb
    BY <2>2 DEF UiCb, Stopping, Joined
  <2>4. QED
    BY <2>1, <2>2, <2>3, SameClean
<1>2. CASE NativeStart
  <2>1. stack["ui"] = <<>> /\ ~con.running /\ con'.fallback = con.fallback
    BY <1>2 DEF NativeStart, Base, TypeOK
  <2>2. stack["ui"] \notin Stopping
    BY <2>1 DEF Stopping, Joined
  <2>3. con'.fallback
    BY <2>1, <2>2 DEF Base, StackInv, LinkInv
  <2>4. QED
    BY <2>3 DEF CleanInv, Clean
<1>3. CASE Disconnect
  <2>1. con'.fallback
    BY <1>3 DEF Disconnect, Base, TypeOK
  <2>2. QED
    BY <2>1 DEF CleanInv, Clean
<1>4. CASE JoinRender
  <2>1. stack["render"] = <<>> /\ stack'["render"] = stack["render"]
    BY <1>4, UiStack DEF JoinRender, Base, OnlyMoves, Thread
  <2>2. QED
    BY <2>1 DEF CleanInv, Clean
<1>5. QED
  BY <1>1, <1>2, <1>3, <1>4

\* on_fallback runs in no clean session.
LEMMA CleanUndisturbed ==
  ASSUME Base, CleanInv, Clean, NEW t \in Thread
  PROVE  stack[t] \notin Cb(t) /\ (t = "ui" => stack[t] \notin Joined)
<1>1. stack["render"] \notin RenderCb
  BY DEF Base, LinkInv, Clean
<1>2. stack["ui"] \notin Joined
  BY DEF Base, StackInv, Clean
<1>3. QED
  BY <1>1, <1>2 DEF CleanInv, Cb, Thread

LEMMA LibraryClean ==
  ASSUME Base, CleanInv, NEW t \in Thread, Library(t)
  PROVE  CleanInv' /\ ~Clean'
<1>1. CASE EnterFallback(t)
  <2>1. con'.fallback
    BY <1>1 DEF EnterFallback, Base, TypeOK
  <2>2. QED
    BY <2>1 DEF CleanInv, Clean
<1>2. CASE RestoreTree(t) \/ HelperRestores(t)
  <2>1. /\ OnlyMoves(t)
        /\ \/ stack[t] \in Cb(t) /\ stack'[t] \in Cb(t)
           \/ t = "ui" /\ stack[t] \in Joined /\ stack'[t] \in Joined
    BY <1>2, RestoreStack DEF Base
  <2>2. carried' = carried /\ con'.fallback = con.fallback
    BY <1>2 DEF RestoreTree, HelperRestores, Base, TypeOK
  <2>3. stack'["render"] # <<>> => stack["render"] # <<>>
    BY <2>1 DEF OnlyMoves, Thread, Cb, RenderCb
  <2>4. ~Clean
    BY <2>1, CleanUndisturbed
  <2>5. ~Clean'
    BY <2>2, <2>3, <2>4 DEF Clean
  <2>6. QED
    BY <2>5 DEF CleanInv
<1>3. CASE TellJavaAndStop(t)
  <2>1. OnlyMoves(t) /\ stack[t] \in Cb(t)
    BY <1>3, TellStack DEF Base
  <2>2. carried' = carried /\ con'.fallback = con.fallback
    BY <1>3 DEF TellJavaAndStop, Base, TypeOK
  <2>3. stack'["render"] # <<>> => stack["render"] # <<>>
    BY <2>1 DEF OnlyMoves, Thread, Cb, RenderCb
  <2>4. ~Clean
    BY <2>1, CleanUndisturbed
  <2>5. ~Clean'
    BY <2>2, <2>3, <2>4 DEF Clean
  <2>6. QED
    BY <2>5 DEF CleanInv
<1>4. QED
  BY <1>1, <1>2, <1>3 DEF Library

\* CleanInv is inductive, given Base.
LEMMA NextClean ==
  ASSUME Base, CleanInv, [Next]_vars
  PROVE  CleanInv'
<1>1. CASE RenderStep
  BY <1>1, RenderClean, LibraryClean DEF RenderStep, Thread
<1>2. CASE EventStep
  BY <1>2, EventClean, LibraryClean DEF EventStep, Thread
<1>3. CASE UiStep
  BY <1>3, UiClean, LibraryClean DEF UiStep, Thread
<1>4. CASE UNCHANGED vars
  <2>1. UNCHANGED <<link, con, stack, boosted, carried>>
    BY <1>4 DEF vars, phone
  <2>2. QED
    BY <2>1, SameClean
<1>5. QED
  BY <1>1, <1>2, <1>3, <1>4, KWinClean DEF Next

-----------------------------------------------------------------------------
(* Who is to be in front will be.                                          *)

\* A step that gives no order and takes none.
LEMMA SameBoosts ==
  ASSUME BoostInv, UNCHANGED <<desk, wire, boosted, carried, mode>>, link' = link, Orders' = Orders,
         Unread' <=> Unread, Clean' => Clean, con'.anchor => con.anchor
  PROVE  BoostInv'
BY DEF BoostInv, InFront, MayBe, Client

LEMMA InFrontIs ==
  ASSUME Base
  PROVE  /\ InFront = {"kwin", Client(desk)} \ {NULL} /\ Client(desk) \in Proc \cup {NULL}
         /\ \A p \in Proc \cup {"kwin"} : p \notin MayBe <=> p # "kwin" /\ (Client(desk) = NULL \/ p \notin Tree[Client(desk)])
<1>1. DeskType(desk)
  BY DeskTypes DEF Base
<1>2. Client(desk) \in Proc \cup {NULL} /\ (Client(desk) = NULL <=> desk.active = NULL)
  BY <1>1, ClientType
<1>3. QED
  BY <1>2 DEF InFront, MayBe

OrdersOf(y, h, s) == (IF y = <<"set", "poll">> THEN <<h>> ELSE <<>>) \o s

LEMMA OrdersEnds ==
  ASSUME NEW y, NEW h, y = <<"set", "poll">> => h \in SchedEvent, NEW s \in Seq(WireEvent), NEW T, NEW G
  PROVE  /\ y # <<"set", "poll">> => OrdersOf(y, h, s) = s
         /\ OrdersOf(y, h, s) \in Seq(WireEvent)
         /\ y = <<"set", "poll">> =>
              /\ Silent(OrdersOf(y, h, s), T) <=> h \notin T /\ Silent(s, T)
              /\ Settles(OrdersOf(y, h, s), T, G) <=> Settles(s, T, G) \/ (Silent(s, T) /\ h \in T \cap G)
<1>1. CASE y # <<"set", "poll">>
  <2>1. <<>> \o s = s
    BY ConcatEmptySeq
  <2>2. QED
    BY <2>1, <1>1 DEF OrdersOf
<1>2. CASE y = <<"set", "poll">>
  <2>1. h \in WireEvent
    BY <1>2 DEF WireEvent
  <2>2. <<h>> \in Seq(WireEvent)
    BY <2>1
  <2>3. OrdersOf(y, h, s) = <<h>> \o s
    BY <1>2 DEF OrdersOf
  <2>4. /\ <<h>> \o s \in Seq(WireEvent)
        /\ Silent(<<h>> \o s, T) <=> Silent(<<h>>, T) /\ Silent(s, T)
        /\ Settles(<<h>> \o s, T, G) <=> Settles(s, T, G) \/ (Silent(s, T) /\ Settles(<<h>>, T, G))
    BY <2>2, ConcatProperties, ConcatEnds
  <2>5. (Silent(<<h>>, T) <=> h \notin T) /\ (Settles(<<h>>, T, G) <=> h \in T \cap G)
    BY OneEvent
  <2>6. QED
    BY <2>3, <2>4, <2>5, <1>2
<1>3. QED
  BY <1>1, <1>2

\* What a change adds to a list of orders.
LEMMA ChangeOrders ==
  ASSUME Base, NEW d, NEW k, NEW evs, KeepsUp(d, k, evs), Reports(d, k, evs),
         NEW s \in Seq(WireEvent)
  PROVE  /\ \A p \in {"kwin", Client(d)} \ {NULL} :
              /\ Settles(evs, Boosts(p), BoostOn) => Settles(s \o evs, Boosts(p), BoostOn)
              /\ ~Settles(evs, Boosts(p), BoostOn) =>
                   /\ p \in InFront /\ (Silent(s \o evs, Boosts(p)) <=> Silent(s, Boosts(p)))
                   /\ Settles(s \o evs, Boosts(p), BoostOn) <=> Settles(s, Boosts(p), BoostOn)
         /\ \A p \in Proc : 
              Client(d) = NULL \/ p \notin Tree[Client(d)] =>
                /\ Settles(s \o evs, Boosts(p), BoostOn) => p \notin MayBe /\ Settles(s, Boosts(p), BoostOn)
                /\ Silent(s \o evs, Boosts(p)) => p \notin MayBe /\ Silent(s, Boosts(p))
<1>1. /\ InFront = {"kwin", Client(desk)} \ {NULL} /\ Client(desk) \in Proc \cup {NULL}
      /\ \A p \in Proc \cup {"kwin"} : p \notin MayBe <=> p # "kwin" /\ (Client(desk) = NULL \/ p \notin Tree[Client(desk)])
  BY InFrontIs
<1>2. Client(d) \in Proc \cup {NULL}
  BY ClientType DEF KeepsUp
<1>3. \A p : 
        /\ Client(d) = Client(desk) => Silent(evs, Boosts(p))
        /\ Client(d) # Client(desk) /\ Client(d) # NULL /\ p \in Tree[Client(d)] =>
             Settles(evs, Boosts(p), BoostOn)
        /\ Client(d) # Client(desk) /\ (Client(d) = NULL \/ p \notin Tree[Client(d)]) =>
             /\ ~Settles(evs, Boosts(p), BoostOn)
             /\ Silent(evs, Boosts(p)) <=> Client(desk) = NULL \/ p \notin Tree[Client(desk)]
  BY DEF Reports
<1>4. ASSUME NEW p
      PROVE  /\ Silent(s \o evs, Boosts(p)) <=> Silent(s, Boosts(p)) /\ Silent(evs, Boosts(p))
             /\ Settles(s \o evs, Boosts(p), BoostOn)
                  <=> Settles(evs, Boosts(p), BoostOn) \/ (Silent(evs, Boosts(p)) /\ Settles(s, Boosts(p), BoostOn))
             /\ Settles(evs, Boosts(p), BoostOn) => ~Silent(evs, Boosts(p))
  BY ConcatEnds, NotBoth DEF KeepsUp
<1>5. \A p \in Proc : p \in Tree[p] /\ p # "kwin"
  BY SidebandAssumption
<1>6. \A p \in Proc : "kwin" \notin Tree[p]
  BY SidebandAssumption
<1>7. ASSUME NEW p \in {"kwin", Client(d)} \ {NULL}, ~Settles(evs, Boosts(p), BoostOn)
      PROVE  p \in InFront /\ Silent(evs, Boosts(p))
  <2>1. CASE p = "kwin"
    BY <2>1, <1>1, <1>2, <1>3, <1>6, <1>7
  <2>2. CASE p # "kwin"
    BY <2>2, <1>1, <1>2, <1>3, <1>5, <1>7
  <2>3. QED
    BY <2>1, <2>2
<1>8. ASSUME NEW p \in Proc, Client(d) = NULL \/ p \notin Tree[Client(d)]
      PROVE  ~Settles(evs, Boosts(p), BoostOn) /\ (Silent(evs, Boosts(p)) => p \notin MayBe)
  <2>1. CASE Client(d) = Client(desk)
    BY <2>1, <1>1, <1>3, <1>4, <1>5, <1>8
  <2>2. CASE Client(d) # Client(desk)
    BY <2>2, <1>1, <1>3, <1>5, <1>8
  <2>3. QED
    BY <2>1, <2>2
<1>9. QED
  BY <1>4, <1>7, <1>8

LEMMA ChangeBoosts ==
  ASSUME Base, BoostInv, NEW d, NEW k, NEW evs, Change(d, k, evs), KeepsUp(d, k, evs), Reports(d, k, evs)
  PROVE  BoostInv'
<1> SUFFICES ASSUME link' = "up" PROVE BoostInv'
  BY DEF BoostInv
<1>1. /\ desk' = d /\ UNCHANGED <<link, notice, con, mode, stack, hand, ui, app, boosted, carried>>
      /\ k.fallback = kwin.fallback /\ Report(k, evs)
  BY DEF Change, phone, KeepsUp
<1>2. link = "up" /\ ~k.fallback
  BY <1>1 DEF Base, LinkInv
<1>3. wire \in Seq(WireEvent) /\ evs \in Seq(WireEvent)
  BY DEF Base, TypeOK, KeepsUp, WireEvent
<1>4. wire' = wire \o evs
  <2>1. CASE evs = <<>>
    <3>1. wire \o <<>> = wire
      BY <1>3, ConcatEmptySeq
    <3>2. QED
      BY <2>1, <3>1, <1>1, <1>2 DEF Report
  <2>2. CASE evs # <<>>
    BY <2>2, <1>1, <1>2 DEF Report
  <2>3. QED
    BY <2>1, <2>2
<1>5. stack["event"] = <<"set", "poll">> => hand \in SchedEvent
  BY DEF Base, TypeOK
<1>6. Orders = OrdersOf(stack["event"], hand, wire) /\ Orders \in Seq(WireEvent)
  BY <1>3, <1>5, OrdersEnds DEF Orders, OrdersOf
<1>7. Orders' = Orders \o evs
  <2> DEFINE h == IF stack["event"] = <<"set", "poll">> THEN <<hand>> ELSE <<>>
  <2>1. h \in Seq(WireEvent)
    <3>1. hand \in SchedEvent => <<hand>> \in Seq(WireEvent)
      BY DEF WireEvent
    <3>2. <<>> \in Seq(WireEvent)
      OBVIOUS
    <3>3. QED
      BY <3>1, <3>2, <1>5
  <2>2. Orders = h \o wire /\ Orders' = h \o (wire \o evs)
    BY <1>1, <1>4 DEF Orders
  <2> HIDE DEF h
  <2>3. h \o (wire \o evs) = (h \o wire) \o evs
    BY <2>1, <1>3, ConcatAssociative
  <2>4. QED
    BY <2>2, <2>3
<1>8. (Unread' <=> Unread) /\ (Clean' <=> Clean) /\ mode' = mode /\ con' = con /\ boosted' = boosted /\ carried' = carried
  BY <1>1 DEF Unread, Clean
<1>9. /\ InFront' = {"kwin", Client(d)} \ {NULL} /\ Client(d) \in Proc \cup {NULL}
      /\ \A p \in Proc \cup {"kwin"} : p \notin MayBe' <=> p # "kwin" /\ (Client(d) = NULL \/ p \notin Tree[Client(d)])
  <2>1. DeskType(d)
    BY DEF KeepsUp
  <2>2. Client(d) \in Proc \cup {NULL} /\ (Client(d) = NULL <=> d.active = NULL)
    BY <2>1, ClientType
  <2>3. InFront' = {"kwin", Client(d)} \ {NULL} /\ MayBe' = {"kwin"} \cup (IF d.active = NULL THEN {} ELSE Tree[Client(d)])
    BY <1>1 DEF InFront, MayBe, Client
  <2>4. QED
    BY <2>2, <2>3
<1>10. ASSUME Unread
       PROVE  /\ \A p \in InFront' : Settles(wire', Boosts(p), BoostOn)
              /\ \A p \in (Proc \cup {"kwin"}) \ MayBe' : ~Settles(wire', Boosts(p), BoostOn)
  <2>1. /\ \A p \in InFront : Settles(wire, Boosts(p), BoostOn)
        /\ \A p \in (Proc \cup {"kwin"}) \ MayBe : ~Settles(wire, Boosts(p), BoostOn)
    BY <1>2, <1>10 DEF BoostInv
  <2>2. /\ \A p \in {"kwin", Client(d)} \ {NULL} :
              /\ Settles(evs, Boosts(p), BoostOn) => Settles(wire \o evs, Boosts(p), BoostOn)
              /\ ~Settles(evs, Boosts(p), BoostOn) =>
                   /\ p \in InFront /\ (Silent(wire \o evs, Boosts(p)) <=> Silent(wire, Boosts(p)))
                   /\ Settles(wire \o evs, Boosts(p), BoostOn) <=> Settles(wire, Boosts(p), BoostOn)
        /\ \A p \in Proc : 
              Client(d) = NULL \/ p \notin Tree[Client(d)] =>
                /\ Settles(wire \o evs, Boosts(p), BoostOn) => p \notin MayBe /\ Settles(wire, Boosts(p), BoostOn)
                /\ Silent(wire \o evs, Boosts(p)) => p \notin MayBe /\ Silent(wire, Boosts(p))
    BY <1>3, ChangeOrders
  <2>3. QED
    BY <2>1, <2>2, <1>4, <1>9
<1>11. ASSUME ~Unread, Clean, mode = 1, con.anchor
       PROVE  /\ \A p \in InFront' :
                   Settles(Orders', Boosts(p), BoostOn) \/ (Silent(Orders', Boosts(p)) /\ p \in boosted)
              /\ \A p \in (Proc \cup {"kwin"}) \ (MayBe' \cup carried) :
                   ~Settles(Orders', Boosts(p), BoostOn) /\ (Silent(Orders', Boosts(p)) => p \notin boosted)
  <2>1. /\ \A p \in InFront :
             Settles(Orders, Boosts(p), BoostOn) \/ (Silent(Orders, Boosts(p)) /\ p \in boosted)
        /\ \A p \in (Proc \cup {"kwin"}) \ (MayBe \cup carried) :
             ~Settles(Orders, Boosts(p), BoostOn) /\ (Silent(Orders, Boosts(p)) => p \notin boosted)
    BY <1>2, <1>11 DEF BoostInv
  <2> HIDE DEF Orders
  <2>2. /\ \A p \in {"kwin", Client(d)} \ {NULL} :
              /\ Settles(evs, Boosts(p), BoostOn) => Settles(Orders \o evs, Boosts(p), BoostOn)
              /\ ~Settles(evs, Boosts(p), BoostOn) =>
                   /\ p \in InFront /\ (Silent(Orders \o evs, Boosts(p)) <=> Silent(Orders, Boosts(p)))
                   /\ Settles(Orders \o evs, Boosts(p), BoostOn) <=> Settles(Orders, Boosts(p), BoostOn)
        /\ \A p \in Proc : 
              Client(d) = NULL \/ p \notin Tree[Client(d)] =>
                /\ Settles(Orders \o evs, Boosts(p), BoostOn) => p \notin MayBe /\ Settles(Orders, Boosts(p), BoostOn)
                /\ Silent(Orders \o evs, Boosts(p)) => p \notin MayBe /\ Silent(Orders, Boosts(p))
    BY <1>6, ChangeOrders
  <2>3. QED
    BY <2>1, <2>2, <1>7, <1>9
<1>12. QED
  BY <1>8, <1>10, <1>11 DEF BoostInv

\* Events that the session's event thread is still to find.
LEMMA StillUnread ==
  ASSUME BoostInv, UNCHANGED <<desk, wire>>, link' = "up" => link = "up", Unread' => Unread, ~Unread' => ~Clean'
  PROVE  BoostInv'
BY DEF BoostInv, InFront, MayBe, Client

LEMMA ReconnectedBoosts ==
  ASSUME Base, CleanInv, ConsumerReconnected
  PROVE  BoostInv'
<1>1. /\ Reassert(kwin, desk) \in Seq(WireEvent) /\ wire' = Reassert(kwin, desk)
      /\ link = "bufs" /\ UNCHANGED <<desk, notice, phone>>
      /\ DeskType(desk) /\ Numbered(kwin, desk) /\ kwin.capture \in BOOLEAN /\ kwin.pid = Client(desk)
  BY ReconnectedTells
<1>2. UNCHANGED <<con, mode, stack, hand, ui, app, boosted, carried>>
  BY <1>1 DEF phone
<1>3. /\ \A p \in {"kwin", Client(desk)} \ {NULL} : Settles(wire', Boosts(p), BoostOn)
      /\ \A p \in Proc : (desk.active = NULL \/ p \notin Tree[Client(desk)]) => ~Settles(wire', Boosts(p), BoostOn)
  BY <1>1, ReassertEnds
<1>4. InFront' = InFront /\ MayBe' = MayBe /\ (Unread' <=> Unread) /\ (Clean' <=> Clean)
  BY <1>1, <1>2 DEF InFront, MayBe, Client, Unread, Clean
<1>5. /\ InFront = {"kwin", Client(desk)} \ {NULL}
      /\ \A p \in Proc \cup {"kwin"} : p \notin MayBe => p \in Proc /\ (desk.active = NULL \/ p \notin Tree[Client(desk)])
  <2>1. Client(desk) = NULL <=> desk.active = NULL
    BY <1>1, ClientType
  <2>2. QED
    BY <2>1, InFrontIs
<1>6. /\ \A p \in InFront : Settles(wire', Boosts(p), BoostOn)
      /\ \A p \in (Proc \cup {"kwin"}) \ MayBe : ~Settles(wire', Boosts(p), BoostOn)
  BY <1>3, <1>5
<1>7. ASSUME ~Unread, Clean
      PROVE  Orders' = wire' /\ boosted = carried
  <2>1. stack["event"] # <<"set", "poll">> /\ boosted = carried
    BY <1>1, <1>7 DEF CleanInv, Unread
  <2>2. <<>> \o wire' = wire'
    BY <1>1, ConcatEmptySeq
  <2>3. QED
    BY <2>1, <2>2, <1>2 DEF Orders
<1>8. ASSUME NEW p, Settles(wire', Boosts(p), BoostOn)
      PROVE  ~Silent(wire', Boosts(p))
  BY <1>8, NotBoth
<1>9. ASSUME ~Unread, Clean
      PROVE  /\ \A p \in InFront : Settles(Orders', Boosts(p), BoostOn)
             /\ \A p \in (Proc \cup {"kwin"}) \ (MayBe \cup carried) :
                  ~Settles(Orders', Boosts(p), BoostOn) /\ p \notin boosted
  BY <1>6, <1>7, <1>9
<1>10. boosted' = boosted /\ carried' = carried
  BY <1>2
<1>11. QED
  BY <1>4, <1>6, <1>9, <1>10 DEF BoostInv

LEMMA KWinBoosts ==
  ASSUME Base, CleanInv, BoostInv, KWin
  PROVE  BoostInv'
<1>1. CASE Activate \/ \E w \in Win : TrackWindow(w) \/ UntrackWindow(w) \/ Retitle(w)
  <2>1. \E d, k, evs : Change(d, k, evs) /\ KeepsUp(d, k, evs) /\ Reports(d, k, evs)
    BY <1>1, Changed DEF Base
  <2>2. QED
    BY <2>1, ChangeBoosts
<1>2. CASE PickUp \/ KWinRestarts
  <2>1. link' # "up"
    BY <1>2 DEF PickUp, KWinRestarts
  <2>2. QED
    BY <2>1 DEF BoostInv
<1>3. CASE KWinLost
  <2>1. link' # "up"
    BY <1>3 DEF KWinLost
  <2>2. QED
    BY <2>1 DEF BoostInv
<1>4. QED
  BY <1>1, <1>2, <1>3, ReconnectedBoosts DEF KWin

\* The event thread that starts has all that was reported before it; what it
\* finds in front is what was carried over.
LEMMA StartBoosts ==
  ASSUME Base, CleanInv, BoostInv, StartEventThread
  PROVE  BoostInv'
<1>1. UNCHANGED <<desk, wire, link, boosted, hand, mode>> /\ con'.fallback = con.fallback
  BY DEF StartEventThread, Base, TypeOK
<1>2. /\ stack["render"] = <<"start", "loop">> /\ stack'["render"] = <<"loop">>
      /\ ~con.event_running => stack'["event"] = <<"poll">>
  BY RenderStack DEF Base
<1>3. stack["render"] \in Starting /\ stack'["render"] \notin Starting /\ stack["render"] # <<>>
  BY <1>2 DEF Starting
<1>4. carried' = IF carried = NULL THEN NULL ELSE boosted
  BY DEF StartEventThread
<1>5. CASE con.fallback \/ carried = NULL
  <2>1. (Unread' => Unread) /\ ~Clean'
    BY <1>1, <1>3, <1>4, <1>5 DEF Unread, Clean
  <2>2. QED
    BY <1>1, <2>1, StillUnread
<1>6. CASE ~con.fallback /\ carried # NULL
  <2>1. Clean /\ Unread /\ ~Unread'
    BY <1>1, <1>3, <1>6 DEF Clean, Unread
  <2>2. stack'["event"] = <<"poll">>
    BY <2>1, <1>2, <1>3 DEF CleanInv
  <2>3. Orders' = wire
    <3>1. <<>> \o wire = wire
      BY ConcatEmptySeq DEF Base, TypeOK
    <3>2. QED
      BY <3>1, <2>2, <1>1 DEF Orders
  <2>4. InFront' = InFront /\ MayBe' = MayBe
    BY <1>1 DEF InFront, MayBe, Client
  <2>5. link = "up" =>
          /\ \A p \in InFront : Settles(wire, Boosts(p), BoostOn)
          /\ \A p \in (Proc \cup {"kwin"}) \ MayBe : ~Settles(wire, Boosts(p), BoostOn)
    BY <2>1 DEF BoostInv
  <2>6. boosted' = boosted /\ carried' = boosted
    BY <1>1, <1>4, <1>6
  <2>7. QED
    BY <1>1, <2>1, <2>3, <2>4, <2>5, <2>6 DEF BoostInv
<1>7. QED
  BY <1>5, <1>6

LEMMA LoopBoosts ==
  ASSUME Base, CleanInv, BoostInv, Loop
  PROVE  BoostInv'
<1>1. UNCHANGED <<desk, wire, link, boosted, hand, mode>>
  BY DEF Loop
<1>2. /\ stack["render"] = <<"loop">> /\ stack'["event"] = stack["event"]
      /\ stack'["render"] = IF ~con.running THEN <<>>
                            ELSE IF con.fallback THEN <<"push_dmabufs", "discover", "start", "loop">>
                            ELSE <<"fallback", "loop">>
  BY RenderStack DEF Base, OnlyMoves, Thread
<1>3. CASE con.running /\ con.fallback
  <2>1. Unread
    BY <1>3 DEF Unread
  <2>2. stack'["render"] \in Starting
    BY <1>2, <1>3 DEF Starting
  <2>3. QED
    BY <1>1, <2>1, <2>2, StillUnread DEF Unread
<1>4. CASE ~con.running \/ ~con.fallback
  <2>1. UNCHANGED <<con, carried>>
    BY <1>4 DEF Loop
  <2>2. stack["render"] # <<>> /\ stack["render"] \notin Starting /\ stack'["render"] \notin Starting
    BY <1>2, <1>4 DEF Starting
  <2>3. Orders' = Orders
    BY <1>1, <1>2 DEF Orders
  <2>4. (Unread' <=> Unread) /\ (Clean' => Clean)
    BY <2>1, <2>2 DEF Unread, Clean
  <2>5. QED
    BY <1>1, <2>1, <2>3, <2>4, SameBoosts
<1>5. QED
  BY <1>3, <1>4

LEMMA RenderBoosts ==
  ASSUME Base, CleanInv, BoostInv, Connect \/ PushDmabufs \/ DiscoverRoot
  PROVE  BoostInv'
<1>1. CASE Connect
  <2>1. link = "none"
    BY <1>1, RenderStack DEF Base, StackInv
  <2>2. link' # "up"
    BY <1>1, <2>1 DEF Connect
  <2>3. QED
    BY <2>2 DEF BoostInv
<1>2. CASE PushDmabufs \/ DiscoverRoot
  <2>1. stack["render"] \in Starting /\ stack'["render"] \in Starting /\ stack["render"] # <<>>
    BY <1>2, RenderStack DEF Base, Starting
  <2>2. UNCHANGED <<desk, wire, carried>> /\ con'.fallback = con.fallback /\ (link' = "up" => link = "up")
    BY <1>2 DEF PushDmabufs, DiscoverRoot, Base, TypeOK
  <2>3. (Unread' => Unread) /\ (~Unread' => ~Clean')
    BY <2>1, <2>2 DEF Unread, Clean
  <2>4. QED
    BY <2>2, <2>3, StillUnread
<1>3. QED
  BY <1>1, <1>2

\* An order that is read is carried out; one that is not wanted is dropped with
\* the whole session's.
LEMMA ReadBoosts ==
  ASSUME Base, CleanInv, BoostInv, HandleEvent
  PROVE  BoostInv'
<1>1. /\ wire # <<>> /\ Head(wire) \in WireEvent /\ wire' = Tail(wire) /\ Tail(wire) \in Seq(WireEvent)
      /\ UNCHANGED <<desk, kwin, link, notice, con, mode, app, boosted, carried>>
      /\ link = "up" /\ ~con.fallback /\ con.event_running
      /\ Head(wire).type = "SCHED" => Head(wire) \in SchedEvent /\ (mode = 1 /\ con.anchor => hand' = Head(wire))
      /\ Head(wire).type # "SCHED" => Head(wire) \in VarEvent \cup WindowEvent
  BY ReadsEvent
<1>2. /\ stack["event"] = <<"poll">> /\ stack'["render"] = stack["render"]
      /\ stack'["event"] = IF Head(wire).type = "SCHED" /\ mode = 1 /\ con.anchor THEN <<"set", "poll">> ELSE <<"poll">>
  BY EventStack DEF Base, OnlyMoves, Thread
<1>3. ~Unread /\ (Unread' <=> Unread) /\ (Clean' <=> Clean)
  BY <1>1, <1>2 DEF Unread, Clean, CleanInv
<1>4. wire \in Seq(WireEvent)
  BY DEF Base, TypeOK, WireEvent
<1>5. Orders = wire
  <2>1. <<>> \o wire = wire
    BY <1>4, ConcatEmptySeq
  <2>2. QED
    BY <2>1, <1>2 DEF Orders
<1>6. ASSUME mode = 1, con.anchor, NEW p
      PROVE  /\ Silent(Orders', Boosts(p)) <=> Silent(wire, Boosts(p))
             /\ Settles(Orders', Boosts(p), BoostOn) <=> Settles(wire, Boosts(p), BoostOn)
  <2>1. /\ Silent(wire, Boosts(p)) <=> Head(wire) \notin Boosts(p) /\ Silent(wire', Boosts(p))
        /\ Settles(wire, Boosts(p), BoostOn)
             <=> Settles(wire', Boosts(p), BoostOn) \/ (Silent(wire', Boosts(p)) /\ Head(wire) \in Boosts(p) \cap BoostOn)
    BY <1>1, <1>4, HeadEnds
  <2>2. Orders' = OrdersOf(stack'["event"], hand', wire')
    BY DEF Orders, OrdersOf
  <2>3. CASE Head(wire).type = "SCHED"
    <3>1. stack'["event"] = <<"set", "poll">> /\ hand' = Head(wire) /\ Head(wire) \in SchedEvent
      BY <1>1, <1>2, <1>6, <2>3
    <3>2. /\ Silent(Orders', Boosts(p)) <=> hand' \notin Boosts(p) /\ Silent(wire', Boosts(p))
          /\ Settles(Orders', Boosts(p), BoostOn)
               <=> Settles(wire', Boosts(p), BoostOn) \/ (Silent(wire', Boosts(p)) /\ hand' \in Boosts(p) \cap BoostOn)
      BY <3>1, <2>2, <1>1, OrdersEnds
    <3>3. QED
      BY <2>1, <3>1, <3>2
  <2>4. CASE Head(wire).type # "SCHED"
    <3>1. stack'["event"] # <<"set", "poll">>
      BY <1>2, <2>4
    <3>2. Orders' = wire'
      <4>1. <<>> \o wire' = wire'
        BY <1>1, ConcatEmptySeq
      <4>2. QED
        BY <3>1, <4>1 DEF Orders
    <3>3. Head(wire) \notin Boosts(p)
      BY <1>1, <2>4, Kinds
    <3>4. QED
      BY <2>1, <3>2, <3>3
  <2>5. QED
    BY <2>3, <2>4
<1>7. InFront' = InFront /\ MayBe' = MayBe
  BY <1>1 DEF InFront, MayBe, Client
<1>8. ASSUME Clean, mode = 1, con.anchor
      PROVE  /\ \A p \in InFront :
                   Settles(Orders', Boosts(p), BoostOn) \/ (Silent(Orders', Boosts(p)) /\ p \in boosted)
             /\ \A p \in (Proc \cup {"kwin"}) \ (MayBe \cup carried) :
                   ~Settles(Orders', Boosts(p), BoostOn) /\ (Silent(Orders', Boosts(p)) => p \notin boosted)
  <2>1. /\ \A p \in InFront :
             Settles(wire, Boosts(p), BoostOn) \/ (Silent(wire, Boosts(p)) /\ p \in boosted)
        /\ \A p \in (Proc \cup {"kwin"}) \ (MayBe \cup carried) :
             ~Settles(wire, Boosts(p), BoostOn) /\ (Silent(wire, Boosts(p)) => p \notin boosted)
    BY <1>1, <1>3, <1>5, <1>8 DEF BoostInv
  <2> HIDE DEF Orders
  <2>2. QED
    BY <2>1, <1>6, <1>8
<1>9. mode' = mode /\ con' = con /\ boosted' = boosted /\ carried' = carried
  BY <1>1
<1>10. QED
  BY <1>3, <1>7, <1>8, <1>9 DEF BoostInv

LEMMA HelperBoosts ==
  ASSUME Base, CleanInv, BoostInv, HelperSets
  PROVE  BoostInv'
<1>1. /\ UNCHANGED <<desk, link, wire, con, mode, carried>>
      /\ boosted' = IF hand.on THEN boosted \cup Subtree(hand.pid) ELSE boosted \ Subtree(hand.pid)
  BY DEF HelperSets
<1>2. stack["event"] = <<"set", "poll">> /\ stack'["event"] = <<"poll">> /\ stack'["render"] = stack["render"]
  BY EventStack DEF Base, OnlyMoves, Thread
<1>3. hand \in SchedEvent
  BY <1>2 DEF Base, TypeOK
<1>4. (Unread' <=> Unread) /\ (Clean' <=> Clean) /\ InFront' = InFront /\ MayBe' = MayBe
  BY <1>1, <1>2 DEF Unread, Clean, InFront, MayBe, Client
<1>5. wire \in Seq(WireEvent)
  BY DEF Base, TypeOK, WireEvent
<1>6. Orders' = wire
  <2>1. <<>> \o wire = wire
    BY <1>5, ConcatEmptySeq
  <2>2. QED
    BY <2>1, <1>1, <1>2 DEF Orders
<1>7. ASSUME NEW p
      PROVE  /\ Silent(Orders, Boosts(p)) <=> hand \notin Boosts(p) /\ Silent(wire, Boosts(p))
             /\ Settles(Orders, Boosts(p), BoostOn)
                  <=> Settles(wire, Boosts(p), BoostOn) \/ (Silent(wire, Boosts(p)) /\ hand \in Boosts(p) \cap BoostOn)
  <2>1. Orders = OrdersOf(stack["event"], hand, wire)
    BY DEF Orders, OrdersOf
  <2>2. QED
    BY <2>1, <1>2, <1>3, <1>5, OrdersEnds
<1>8. ASSUME NEW p
      PROVE  /\ hand \in Boosts(p) => (p \in boosted' <=> hand \in BoostOn)
             /\ hand \notin Boosts(p) => (p \in boosted' <=> p \in boosted)
  <2>1. (hand \in Boosts(p) <=> p \in Subtree(hand.pid)) /\ (hand \in BoostOn <=> hand.on)
    BY <1>3 DEF Boosts, BoostOn, SchedEvent
  <2>2. QED
    BY <2>1, <1>1
<1>9. ASSUME link = "up", ~Unread, Clean, mode = 1, con.anchor
      PROVE  /\ \A p \in InFront : Settles(wire, Boosts(p), BoostOn) \/ (Silent(wire, Boosts(p)) /\ p \in boosted')
             /\ \A p \in (Proc \cup {"kwin"}) \ (MayBe \cup carried) :
                   ~Settles(wire, Boosts(p), BoostOn) /\ (Silent(wire, Boosts(p)) => p \notin boosted')
  <2>1. /\ \A p \in InFront :
             Settles(Orders, Boosts(p), BoostOn) \/ (Silent(Orders, Boosts(p)) /\ p \in boosted)
        /\ \A p \in (Proc \cup {"kwin"}) \ (MayBe \cup carried) :
             ~Settles(Orders, Boosts(p), BoostOn) /\ (Silent(Orders, Boosts(p)) => p \notin boosted)
    BY <1>9 DEF BoostInv
  <2> HIDE DEF Orders
  <2>2. QED
    BY <2>1, <1>7, <1>8
<1>10. ASSUME link = "up", Unread
       PROVE  /\ \A p \in InFront : Settles(wire, Boosts(p), BoostOn)
              /\ \A p \in (Proc \cup {"kwin"}) \ MayBe : ~Settles(wire, Boosts(p), BoostOn)
  BY <1>10 DEF BoostInv
<1>11. QED
  BY <1>1, <1>4, <1>6, <1>9, <1>10 DEF BoostInv

LEMMA EventBoosts ==
  ASSUME Base, BoostInv, EventEnds \/ PollHangup
  PROVE  BoostInv'
<1>1. CASE EventEnds
  <2>1. UNCHANGED <<desk, wire, link, boosted, carried, mode, con, hand>>
    BY <1>1 DEF EventEnds
  <2>2. stack["event"] = <<"poll">> /\ stack'["event"] = <<>> /\ stack'["render"] = stack["render"]
    BY <1>1, EventStack DEF Base, OnlyMoves, Thread
  <2>3. Orders' = Orders /\ (Unread' <=> Unread) /\ (Clean' <=> Clean)
    BY <2>1, <2>2 DEF Orders, Unread, Clean
  <2>4. QED
    BY <2>1, <2>3, SameBoosts
<1>2. CASE PollHangup
  <2>1. link' # "up"
    BY <1>2 DEF PollHangup
  <2>2. QED
    BY <2>1 DEF BoostInv
<1>3. QED
  BY <1>1, <1>2

LEMMA UiBoosts ==
  ASSUME Base, BoostInv, RunTask \/ SendFails \/ NativeStop \/ NativeStart \/ Disconnect \/ JoinRender \/ JoinEvent
  PROVE  BoostInv'
<1>1. CASE RunTask \/ SendFails \/ NativeStop \/ JoinRender \/ JoinEvent
  <2>1. UNCHANGED <<desk, wire, link, boosted, carried, mode, hand>> /\ con'.fallback = con.fallback /\ con'.anchor = con.anchor
    BY <1>1 DEF RunTask, SendFails, NativeStop, JoinRender, JoinEvent, Base, TypeOK
  <2>2. stack'["render"] = stack["render"] /\ stack'["event"] = stack["event"]
    <3>1. RunTask => stack' = stack
      BY DEF RunTask
    <3>2. QED
      BY <3>1, <1>1, UiStack DEF Base, OnlyMoves, Thread
  <2>3. Orders' = Orders /\ (Unread' <=> Unread) /\ (Clean' <=> Clean)
    BY <2>1, <2>2 DEF Orders, Unread, Clean
  <2>4. QED
    BY <2>1, <2>3, SameBoosts
<1>2. CASE NativeStart
  <2>1. stack["ui"] = <<>> /\ ~con.running /\ link' = link
    BY <1>2 DEF NativeStart
  <2>2. stack["ui"] \notin Stopping
    BY <2>1 DEF Stopping, Joined
  <2>3. link' = "none"
    BY <2>1, <2>2 DEF Base, StackInv
  <2>4. QED
    BY <2>3 DEF BoostInv
<1>3. CASE Disconnect
  <2>1. link' # "up"
    BY <1>3 DEF Disconnect
  <2>2. QED
    BY <2>1 DEF BoostInv
<1>4. QED
  BY <1>1, <1>2, <1>3

LEMMA LibraryBoosts ==
  ASSUME Base, CleanInv, BoostInv, NEW t \in Thread, Library(t)
  PROVE  BoostInv'
<1>1. ~Clean'
  BY LibraryClean
<1>2. CASE EnterFallback(t) /\ ~con.fallback
  <2>1. link' # "up"
    BY <1>2 DEF EnterFallback
  <2>2. QED
    BY <2>1 DEF BoostInv
<1>3. CASE (EnterFallback(t) /\ con.fallback) \/ RestoreTree(t) \/ HelperRestores(t) \/ TellJavaAndStop(t)
  <2>1. UNCHANGED <<desk, wire, link>> /\ con'.fallback = con.fallback
    BY <1>3 DEF EnterFallback, RestoreTree, HelperRestores, TellJavaAndStop, Base, TypeOK
  <2>2. Unread' => Unread
    BY <2>1, <1>1 DEF Unread
  <2>3. QED
    BY <2>1, <2>2, <1>1, StillUnread
<1>4. QED
  BY <1>2, <1>3 DEF Library

\* BoostInv is inductive, given Base and CleanInv.
LEMMA NextBoosts ==
  ASSUME Base, CleanInv, BoostInv, [Next]_vars
  PROVE  BoostInv'
<1>1. CASE RenderStep
  BY <1>1, RenderBoosts, LoopBoosts, StartBoosts, LibraryBoosts DEF RenderStep, Thread
<1>2. CASE EventStep
  BY <1>2, EventBoosts, ReadBoosts, HelperBoosts, LibraryBoosts DEF EventStep, Thread
<1>3. CASE UiStep
  BY <1>3, UiBoosts, LibraryBoosts DEF UiStep, Thread
<1>4. CASE UNCHANGED vars
  <2>1. UNCHANGED <<desk, wire, link, boosted, carried, mode, con, hand, stack>>
    BY <1>4 DEF vars, phone
  <2>2. Orders' = Orders /\ (Unread' <=> Unread) /\ (Clean' <=> Clean)
    BY <2>1 DEF Orders, Unread, Clean
  <2>3. QED
    BY <2>1, <2>2, SameBoosts
<1>5. QED
  BY <1>1, <1>2, <1>3, <1>4, KWinBoosts DEF Next

-----------------------------------------------------------------------------
(* The theorems.                                                           *)

IInv == Base /\ MirrorInv /\ CleanInv /\ BoostInv

LEMMA Inductive == Spec => []IInv
<1>1. ASSUME Init PROVE IInv
  <2>1. Base
    BY <1>1, InitBase
  <2>2. link # "up" /\ carried = NULL
    BY <1>1 DEF Init
  <2>3. QED
    BY <2>1, <2>2 DEF IInv, MirrorInv, CleanInv, Clean, BoostInv
<1>2. ASSUME IInv, [Next]_vars PROVE IInv'
  BY <1>2, NextBase, NextMirror, NextClean, NextBoosts DEF IInv
<1>3. QED
  BY <1>1, <1>2, PTL DEF Spec

\* Nothing is under way any more.
LEMMA NothingComes ==
  ASSUME Base, Settled, NEW T, NEW G
  PROVE  Silent(Coming, T) /\ ~Settles(Coming, T, G)
<1>1. stack["ui"] = <<>> /\ stack["event"] = <<"poll">> /\ ui = <<>> /\ wire = <<>>
  BY DEF Settled
<1>2. stack["ui"] \notin UiCb /\ stack["event"] \notin EventCb
  BY <1>1 DEF UiCb, EventCb
<1>3. Coming = Come(stack["ui"], ui, stack["event"], wire)
  BY DEF Coming
<1>4. wire \in Seq(Event) /\ ui \in Seq(Event)
  BY <1>1
<1>5. Silent(wire, T) /\ Silent(ui, T)
  BY <1>1, NoEvents
<1>6. Silent(Coming, T)
  BY <1>2, <1>3, <1>4, <1>5, ComeSilent
<1>7. QED
  BY <1>6, NotBoth

\* MirrorInv with nothing under way.
LEMMA SettledMirrors ==
  ASSUME IInv, Settled
  PROVE  app.forced = desk.locked /\ WindowsMirrored
<1>1. Base /\ Mirrors(Coming, app, desk, kwin)
  BY DEF IInv, MirrorInv, Settled
<1>2. kwin.capture = desk.locked
  BY <1>1 DEF Base, KWinInv
<1>3. \A T, G : Silent(Coming, T) /\ ~Settles(Coming, T, G)
  BY <1>1, NothingComes
<1> HIDE DEF Coming
<1>4. QED
  BY <1>1, <1>2, <1>3 DEF Mirrors, HasTitle, WindowsMirrored

\* BoostInv with nothing under way.
LEMMA SettledBoosts ==
  ASSUME IInv, Settled, mode = 1, con.anchor, carried # NULL
  PROVE  /\ InFront \subseteq boosted
         /\ boosted \subseteq carried \cup MayBe
<1>1. /\ stack["render"] = <<"loop">> /\ stack["event"] = <<"poll">> /\ wire = <<>> /\ link = "up" /\ ~con.fallback
  BY DEF Settled
<1>2. Clean /\ ~Unread
  BY <1>1 DEF Clean, Unread, Starting
<1>3. Orders = <<>>
  <2>1. <<>> \o <<>> = <<>>
    OBVIOUS
  <2>2. QED
    BY <2>1, <1>1 DEF Orders
<1>4. \A T, G : Silent(Orders, T) /\ ~Settles(Orders, T, G)
  BY <1>3, NoEvents
<1>5. boosted \subseteq Proc \cup {"kwin"}
  BY DEF IInv, Base, BoostTypes
<1> HIDE DEF Orders
<1>6. QED
  BY <1>1, <1>2, <1>4, <1>5 DEF IInv, BoostInv

\* Nobody returns into the middle of a teardown, the channel is in the state
\* the threads take it to be in, and the backend's ids are unique and its record
\* of the capture and of the client in front is what it has reported last.
THEOREM SidebandInOrder == Spec => [](TypeOK /\ StackInv /\ LinkInv /\ KWinInv)
BY Inductive, PTL DEF IInv, Base

\* Every window KWin has is known to the app by its id with its present title,
\* and the focused one as the active one, once a session has settled: the
\* snapshot of a reconnect and what is reported after it make up for what went
\* by, whichever sessions, or KWins, came and went.
THEOREM MirrorHolds == Spec => []WindowsMirrored
<1>1. IInv => WindowsMirrored
  BY SettledMirrors DEF WindowsMirrored
<1>2. QED
  BY <1>1, Inductive, PTL

\* The pointer's capture and the boosts end as the desktop has them, once a
\* session has settled, whatever changed while nobody listened and whoever was
\* tearing the session before down.
THEOREM OverridesHold == Spec => []OverridesApplied
<1>1. ASSUME IInv, Settled, mode = 1, con.anchor, carried # NULL
      PROVE  /\ {"kwin", Client(desk)} \ {NULL} \subseteq boosted
             /\ boosted \subseteq carried \cup {"kwin"} \cup (IF desk.active = NULL THEN {} ELSE Tree[Client(desk)])
  BY <1>1, SettledBoosts DEF InFront, MayBe
<1>2. IInv => OverridesApplied
  BY <1>1, SettledMirrors DEF OverridesApplied
<1>3. QED
  BY <1>2, Inductive, PTL
=============================================================================
