-------------------------- MODULE ConsumerLibProofs --------------------------
(***************************************************************************)
(* Theorems about ConsumerLib.tla, for any number of input threads,         *)
(* services and descriptor numbers, and any bound on faults and events.     *)
(*                                                                         *)
(* What a thread does next is the head of its stack.  The labels below it   *)
(* are few and harmless (StackInv), so that a return never lands a thread   *)
(* in the middle of a teardown or of a write, and the rest is said of the   *)
(* heads alone.                                                            *)
(***************************************************************************)
EXTENDS ConsumerLib, TLAPS

-----------------------------------------------------------------------------
(* Where threads are.                                                      *)

Pc(t) == IF stack[t] = <<>> THEN "none" ELSE Head(stack[t])

Inside == {"lock", "read_fd", "send", "enter_fallback", "close", "rebuild", "on_fallback"}

\* Labels a return may come back to.
Below(t) ==
  IF t = "render" THEN {"loop", "selected", "refresh_done", "on_exit_fallback",
                        "start_event_thread", "clipboard_sync"}
  ELSE IF t = "event" THEN {"poll", "sent"}
  ELSE {}

Above(t) ==
  IF t = "render" THEN {"push", "gate", "publish", "BUFS", "INFOS", "write_index", "pend", "SIGSEGV"}
  ELSE IF t = "event" THEN {"push_with_fds", "drop_gate"}
  ELSE {"push", "gate"}

Label(t) == Inside \cup Below(t) \cup Above(t)

Shape(t, s) ==
  /\ s \in Seq(Label(t))
  /\ s # <<>> => Tail(s) \in Seq(Below(t))

StackInv ==
  /\ DOMAIN stack = Thread
  /\ \A t \in Thread : Shape(t, stack[t])

-----------------------------------------------------------------------------
(* Types.                                                                  *)

Part  == {"EVENT", "CLIP", "TEXT", "NO_RES", "RES", "FDS", "BUFS", "INFOS"}
Parts == {<<>>, <<"EVENT">>, <<"CLIP", "TEXT">>, <<"TEXT">>, <<"NO_RES">>, <<"RES", "FDS">>, <<"FDS">>}
Op    == [parts : Parts, fd : Fd \cup {NULL}, locked : BOOLEAN, service : Service \cup {NULL}]

TypeOK ==
  /\ fallback \in BOOLEAN /\ buffer_pending \in BOOLEAN
  /\ state_lock \in Thread \cup {NULL} /\ data_lock \in Thread \cup {NULL}
  /\ data_needs_lock \in BOOLEAN /\ services_sent_mask \subseteq Service \cup {NULL}
  /\ data_fd \in Fd \cup {NULL} /\ shm_ptr \in BOOLEAN
  /\ event_running \in BOOLEAN /\ audio_ctx \in BOOLEAN
  /\ op \in [Thread -> Op]
  /\ peer \in {"none", "deposited", "active", "rendering", "gone"}
  /\ notice \in BOOLEAN
  /\ requests \in [Service -> {"none", "sent", "read", "answered"}]
  /\ wire \in Seq(Part) /\ Len(wire) \in 0..2
  /\ faults \in Nat /\ events \in Nat

-----------------------------------------------------------------------------
(* The locks.                                                              *)

Writing == {"read_fd", "send"}

LockInv ==
  \A t \in Thread :
    /\ Pc(t) \in {"close", "rebuild"} => state_lock = t
    /\ Pc(t) = "rebuild" \/ (Pc(t) \in Writing /\ op[t].locked) => data_lock = t
    /\ Pc(t) \in {"push", "gate", "push_with_fds", "lock", "read_fd", "send"} => op[t].parts # <<>>
    /\ Pc(t) = "lock" => op[t].locked
    /\ t = "event" /\ Pc(t) \in Writing => op[t].locked

-----------------------------------------------------------------------------
(* The teardown and the notice.                                            *)

Live == {"active", "rendering", "gone"}

Apart == \A t \in Thread : Pc(t) \notin {"close", "rebuild"}

DepositInv ==
  /\ ~fallback => peer \in Live /\ ~notice
  /\ notice => peer \in Live
  /\ Pc("render") = "publish" => fallback /\ peer \in Live /\ ~notice /\ Apart
  /\ \A t \in Thread :
       /\ Pc(t) = "close" => fallback /\ peer \in Live /\ ~notice
       /\ Pc(t) = "rebuild" => fallback /\ peer = "none" /\ ~notice

-----------------------------------------------------------------------------
(* The first session, until something fails.                               *)

\* Events and clipboard texts; answers to requests.
Inputs  == {<<>>, <<"EVENT">>, <<"CLIP", "TEXT">>, <<"TEXT">>}
Answers == {<<"NO_RES">>, <<"RES", "FDS">>, <<"FDS">>}

Failing == {"enter_fallback", "close", "rebuild", "on_fallback", "SIGSEGV"}

\* Nothing is torn down, and descriptors stay what they are.
Whole ==
  /\ data_fd # NULL /\ shm_ptr
  /\ peer \in {"deposited", "active", "rendering"}
  /\ \A t \in Thread : Pc(t) \notin Failing /\ (Pc(t) = "send" => op[t].fd = data_fd)

\* Before the session, and while its buffers are pushed.
Coming ==
  /\ fallback =>
       /\ peer # "rendering" /\ wire = <<>>
       /\ data_needs_lock = (Service # {}) /\ services_sent_mask = {}
       /\ Pc("render") \in {"loop", "publish"} /\ Pc("event") = "none"
       /\ \A i \in Input : Pc(i) \in {"none", "push"}
  /\ ~fallback => peer = "rendering" \/ (peer = "active" /\ Pc("render") \in {"BUFS", "INFOS"})
  /\ peer = "rendering" => Pc("render") \notin {"publish", "BUFS", "INFOS"}
  /\ buffer_pending => peer = "rendering"
  /\ \A s \in Service : requests[s] # "none" => peer = "rendering"

\* The gate is dropped once every service has been answered; a thread that
\* found it dropped finds it dropped for good.
Gate ==
  /\ services_sent_mask \subseteq Service
  /\ \A s \in services_sent_mask : requests[s] = "answered"
  /\ data_needs_lock \/ services_sent_mask = Service
  /\ \A t \in Thread : Pc(t) \in Writing /\ ~op[t].locked => ~data_needs_lock

\* The event thread's answer, and nobody else's.
Answer ==
  /\ Pc("event") \in {"push_with_fds", "lock", "read_fd", "send"} =>
       /\ op["event"].service \in Service /\ requests[op["event"].service] = "read"
       /\ op["event"].parts \in Answers
  /\ Pc("event") \in {"sent", "drop_gate"} =>
       op["event"].service \in Service /\ requests[op["event"].service] = "answered"
  /\ \A t \in Thread \ {"event"} :
       op[t].parts \in Inputs
  /\ wire # <<>> /\ wire[Len(wire)] = "RES" => Pc("event") = "send" /\ op["event"].parts = <<"FDS">>
  /\ Pairs("RES", "FDS")

FirstSession == faults = 0 => Whole /\ Coming /\ Gate /\ Answer

Inv == StackInv /\ TypeOK /\ LockInv /\ DepositInv /\ FirstSession

-----------------------------------------------------------------------------
(* Calls and returns.                                                      *)

LEMMA ThreadFacts ==
  /\ "render" \in Thread /\ "event" \in Thread
  /\ \A i \in Input : i \in Thread /\ i # "render" /\ i # "event" /\ i # NULL
  /\ \A t \in Thread : t # NULL /\ (t = "render" \/ t = "event" \/ t \in Input)
  /\ NULL \notin Fd
BY ConsumerLibAssumption DEF Thread

LEMMA LabelFacts ==
  ASSUME NEW t
  PROVE  /\ Below(t) \subseteq Label(t) /\ "none" \notin Label(t)
         /\ Below(t) \cap Inside = {}
BY DEF Label, Below, Above, Inside

\* A label on top of harmless ones.
LEMMA OnTop ==
  ASSUME NEW t, NEW r \in Seq(Below(t)), NEW l \in Label(t)
  PROVE  /\ Shape(t, <<l>> \o r)
         /\ <<l>> \o r # <<>> /\ Head(<<l>> \o r) = l
<1> DEFINE s == <<l>> \o r
           B == Below(t)
           L == Label(t)
<1>1. B \subseteq L /\ r \in Seq(B) /\ l \in L
  BY LabelFacts
<1> HIDE DEF B, L
<1>2. s \in Seq(L) /\ Len(s) = Len(r) + 1 /\ s[1] = l /\ \A i \in 1..Len(r) : s[i + 1] = r[i]
  BY <1>1
<1>3. s # <<>> /\ Head(s) = l
  BY <1>2, <1>1
<1>4. Tail(s) \in Seq(B)
  <2>1. Tail(s) = r
    BY <1>1
  <2>2. QED
    BY <1>1, <2>1
<1>5. QED
  BY <1>2, <1>3, <1>4 DEF Shape, B, L

\* What is left after a return.
LEMMA OnReturn ==
  ASSUME NEW t, NEW r \in Seq(Below(t))
  PROVE  Shape(t, r) /\ (r # <<>> => Head(r) \in Below(t))
<1> DEFINE B == Below(t)
           L == Label(t)
<1>1. B \subseteq L /\ r \in Seq(B)
  BY LabelFacts
<1> HIDE DEF B, L
<1>2. r \in Seq(L)
  BY <1>1
<1>3. r # <<>> => Tail(r) \in Seq(B) /\ Head(r) \in B
  BY <1>1
<1>4. QED
  BY <1>2, <1>3 DEF Shape, B, L

\* Three labels at once.
LEMMA ThreeOnTop ==
  ASSUME NEW t, NEW r \in Seq(Below(t)), NEW l \in Label(t), NEW m \in Below(t), NEW n \in Below(t)
  PROVE  /\ Shape(t, <<l, m, n>> \o r)
         /\ <<l, m, n>> \o r # <<>> /\ Head(<<l, m, n>> \o r) = l
<1> DEFINE w == <<l, m, n>> \o r
           B == Below(t)
           L == Label(t)
<1>1. B \subseteq L /\ r \in Seq(B) /\ l \in L /\ m \in B /\ n \in B
  BY LabelFacts
<1> HIDE DEF B, L
<1>2. w \in Seq(L) /\ Len(w) = Len(r) + 3 /\ w[1] = l /\ w[2] = m /\ w[3] = n
  BY <1>1
<1>3. \A i \in 1..Len(r) : w[i + 3] = r[i]
  BY <1>1
<1> HIDE DEF w
<1>4. \A i \in 2..Len(w) : w[i] \in B
  <2>1. \A i \in 2..Len(w) : i = 2 \/ i = 3 \/ (i - 3 \in 1..Len(r) /\ i = (i - 3) + 3)
    BY <1>1, <1>2
  <2>2. \A i \in 1..Len(r) : r[i] \in B
    BY <1>1
  <2>3. QED
    BY <1>1, <1>2, <1>3, <2>1, <2>2
<1>5. Tail(w) \in Seq(B)
  <2> DEFINE v == Tail(w)
  <2>1. v \in Seq(L) /\ Len(v) = Len(w) - 1 /\ \A i \in 1..Len(v) : v[i] = w[i + 1]
    BY <1>1, <1>2
  <2>2. \A i \in 1..Len(v) : i + 1 \in 2..Len(w)
    BY <1>1, <1>2, <2>1
  <2> HIDE DEF v
  <2>3. v \in Seq(B)
    BY <1>4, <2>1, <2>2
  <2>4. QED
    BY <2>3 DEF v
<1>6. w # <<>> /\ Head(w) = l
  BY <1>1, <1>2
<1>7. QED
  BY <1>2, <1>5, <1>6 DEF Shape, B, L, w

LEMMA OneMore ==
  ASSUME NEW B, NEW r \in Seq(B), NEW m \in B
  PROVE  <<m>> \o r \in Seq(B)
OBVIOUS

\* Thread t is now at one of S, the others are where they were.
Moves(t, S) ==
  /\ StackInv'
  /\ Pc(t)' \in S
  /\ \A u \in Thread \ {t} : Pc(u)' = Pc(u)

Stays == StackInv' /\ \A u \in Thread : Pc(u)' = Pc(u)

LEMMA BecomesMoves ==
  ASSUME StackInv, NEW t \in Thread, NEW s, Becomes(t, s), Shape(t, s)
  PROVE  Moves(t, {IF s = <<>> THEN "none" ELSE Head(s)})
BY DEF Becomes, StackInv, Moves, Pc

LEMMA Rest ==
  ASSUME StackInv, NEW t \in Thread
  PROVE  /\ Pc(t) # "none" => stack[t] # <<>> /\ Tail(stack[t]) \in Seq(Below(t))
         /\ stack[t] # <<>> => Pc(t) = Head(stack[t]) /\ Pc(t) \in Label(t)
         /\ Pc(t) \in Below(t) \cup {"none"} => stack[t] \in Seq(Below(t))
<1>1. stack[t] \in Seq(Label(t)) /\ (stack[t] # <<>> => Tail(stack[t]) \in Seq(Below(t)))
  BY DEF StackInv, Shape
<1>2. stack[t] # <<>> => Pc(t) = Head(stack[t]) /\ Pc(t) \in Label(t)
  BY <1>1 DEF Pc
<1>3. Pc(t) # "none" => stack[t] # <<>>
  BY DEF Pc
<1>4. ASSUME Pc(t) \in Below(t) \cup {"none"} PROVE stack[t] \in Seq(Below(t))
  <2>1. CASE stack[t] = <<>>
    BY <2>1
  <2>2. CASE stack[t] # <<>>
    <3> DEFINE s == stack[t]
               B == Below(t)
    <3>1. Head(s) \in B /\ Tail(s) \in Seq(B) /\ s # <<>> /\ s \in Seq(Label(t))
      BY <1>1, <1>2, <1>4, <2>2, LabelFacts
    <3> HIDE DEF s, B
    <3>2. \A i \in 1..Len(s) : s[i] \in B
      <4> SUFFICES ASSUME NEW i \in 1..Len(s), i # 1 PROVE s[i] \in B
        BY <3>1
      <4>1. i - 1 \in 1..Len(Tail(s)) /\ s[i] = Tail(s)[i - 1]
        BY <3>1
      <4>2. QED
        BY <3>1, <4>1
    <3>3. s \in Seq(B)
      BY <3>1, <3>2
    <3>4. QED
      BY <3>3 DEF s, B
  <2>3. QED
    BY <2>1, <2>2
<1>5. QED
  BY <1>1, <1>2, <1>3, <1>4

LEMMA ReturnMoves ==
  ASSUME StackInv, NEW t \in Thread, Pc(t) # "none", Return(t)
  PROVE  Moves(t, Below(t) \cup {"none"})
<1> DEFINE r == Tail(stack[t])
<1>1. r \in Seq(Below(t)) /\ Becomes(t, r)
  <2>1. r \in Seq(Below(t))
    BY Rest
  <2>2. <<>> \o r = r
    BY <2>1
  <2>3. QED
    BY <2>1, <2>2 DEF Return, Goto
<1> HIDE DEF r
<1>2. Shape(t, r) /\ (r # <<>> => Head(r) \in Below(t))
  BY <1>1, OnReturn
<1>3. Moves(t, {IF r = <<>> THEN "none" ELSE Head(r)})
  BY <1>1, <1>2, BecomesMoves
<1>4. QED
  BY <1>2, <1>3 DEF Moves

LEMMA GotoMoves ==
  ASSUME StackInv, NEW t \in Thread, Pc(t) # "none", NEW l \in Label(t)
  PROVE  /\ Goto(t, <<l>>) => Moves(t, {l})
         /\ \A m \in Below(t) : Goto(t, <<l, m>>) => Moves(t, {l})
         /\ \A m, n \in Below(t) : Goto(t, <<l, m, n>>) => Moves(t, {l})
<1> DEFINE r == Tail(stack[t])
<1>1. r \in Seq(Below(t))
  BY Rest
<1> HIDE DEF r
<1>2. ASSUME NEW q \in Seq(Below(t)), Becomes(t, <<l>> \o q) PROVE Moves(t, {l})
  <2>1. Shape(t, <<l>> \o q) /\ <<l>> \o q # <<>> /\ Head(<<l>> \o q) = l
    BY OnTop
  <2>2. QED
    BY <1>2, <2>1, BecomesMoves
<1>3. ASSUME NEW m \in Below(t) PROVE <<m>> \o r \in Seq(Below(t)) /\ <<l, m>> \o r = <<l>> \o (<<m>> \o r)
  <2>1. <<m>> \o r \in Seq(Below(t))
    BY <1>1, OneMore
  <2>2. <<l, m>> \o r = <<l>> \o (<<m>> \o r)
    BY <1>1
  <2>3. QED
    BY <2>1, <2>2
<1>4. ASSUME NEW m \in Below(t), NEW n \in Below(t), Becomes(t, <<l, m, n>> \o r)
      PROVE  Moves(t, {l})
  <2>1. Shape(t, <<l, m, n>> \o r) /\ <<l, m, n>> \o r # <<>> /\ Head(<<l, m, n>> \o r) = l
    BY <1>1, ThreeOnTop
  <2>2. QED
    BY <1>4, <2>1, BecomesMoves
<1>5. QED
  BY <1>1, <1>2, <1>3, <1>4 DEF Goto, r

LEMMA CallMoves ==
  ASSUME StackInv, NEW t \in Thread, Pc(t) \in Below(t) \cup {"none"}, NEW l \in Label(t)
  PROVE  /\ Call(t, <<l>>) => Moves(t, {l})
         /\ \A m \in Below(t) : Call(t, <<l, m>>) => Moves(t, {l})
<1> DEFINE r == stack[t]
<1>1. r \in Seq(Below(t))
  BY Rest
<1> HIDE DEF r
<1>2. ASSUME NEW q \in Seq(Below(t)), Becomes(t, <<l>> \o q) PROVE Moves(t, {l})
  <2>1. Shape(t, <<l>> \o q) /\ <<l>> \o q # <<>> /\ Head(<<l>> \o q) = l
    BY OnTop
  <2>2. QED
    BY <1>2, <2>1, BecomesMoves
<1>3. ASSUME NEW m \in Below(t) PROVE <<m>> \o r \in Seq(Below(t)) /\ <<l, m>> \o r = <<l>> \o (<<m>> \o r)
  <2>1. <<m>> \o r \in Seq(Below(t))
    BY <1>1, OneMore
  <2>2. <<l, m>> \o r = <<l>> \o (<<m>> \o r)
    BY <1>1
  <2>3. QED
    BY <2>1, <2>2
<1>4. QED
  BY <1>1, <1>2, <1>3 DEF Call, r

LEMMA StackUnchanged == StackInv /\ UNCHANGED stack => Stays
BY DEF StackInv, Stays, Pc

LEMMA AtPc == \A t \in Thread : \A l : l # "none" => (At(t, l) <=> Pc(t) = l)
BY DEF At, Pc

\* Where a return may land.
Back(t) == Below(t) \cup {"none"}

LEMMA LibraryMoves ==
  ASSUME StackInv, NEW t \in Thread
  PROVE  /\ Push(t) => Pc(t) = "push" /\ Moves(t, IF fallback THEN Back(t) ELSE {"gate"})
         /\ ReadGate(t) => Pc(t) = "gate" /\ Moves(t, IF NeedsLock THEN {"lock"} ELSE {"read_fd"})
         /\ PushWithFds(t) => Pc(t) = "push_with_fds" /\ Moves(t, IF fallback THEN Back(t) ELSE {"lock"})
         /\ LockData(t) => Pc(t) = "lock" /\ Moves(t, {"read_fd"})
         /\ ReadFd(t) => Pc(t) = "read_fd" /\ Moves(t, IF data_fd = NULL THEN {"enter_fallback"} ELSE {"send"})
         /\ Send(t) => Pc(t) = "send" /\ Moves(t, IF Len(op[t].parts) = 1 THEN Back(t) ELSE {"send"})
         /\ SendFails(t) => Pc(t) = "send" /\ Moves(t, {"enter_fallback"})
         /\ EnterFallback(t) => Pc(t) = "enter_fallback" /\ Moves(t, IF fallback THEN Back(t) ELSE {"close"})
         /\ Close(t) => Pc(t) = "close" /\ Moves(t, {"rebuild"})
         /\ Rebuild(t) => Pc(t) = "rebuild" /\ Moves(t, {"on_fallback"})
         /\ OnFallback(t) => Pc(t) = "on_fallback" /\ Moves(t, Back(t))
<1> USE AtPc
<1>0. /\ Inside \subseteq Label(t)
      /\ Pc(t) = "push" => "gate" \in Label(t)
  <2>1. Pc(t) = "push" => Pc(t) \in Label(t)
    BY Rest
  <2>2. QED
    BY <2>1 DEF Label, Inside, Below, Above
<1>1. ASSUME Pc(t) # "none", Return(t) PROVE Moves(t, Back(t))
  BY <1>1, ReturnMoves DEF Back
<1>2. ASSUME Pc(t) # "none", NEW l \in Label(t), Goto(t, <<l>>) PROVE Moves(t, {l})
  BY <1>2, GotoMoves
<1>3. ASSUME Push(t) PROVE Pc(t) = "push" /\ Moves(t, IF fallback THEN Back(t) ELSE {"gate"})
  BY <1>0, <1>1, <1>2, <1>3 DEF Push
<1>4. ASSUME ReadGate(t) PROVE Pc(t) = "gate" /\ Moves(t, IF NeedsLock THEN {"lock"} ELSE {"read_fd"})
  <2>1. CASE NeedsLock
    BY <1>0, <1>2, <1>4, <2>1 DEF ReadGate, Inside
  <2>2. CASE ~NeedsLock
    BY <1>0, <1>2, <1>4, <2>2 DEF ReadGate, Inside
  <2>3. QED
    BY <2>1, <2>2
<1>5. ASSUME PushWithFds(t) PROVE Pc(t) = "push_with_fds" /\ Moves(t, IF fallback THEN Back(t) ELSE {"lock"})
  BY <1>0, <1>1, <1>2, <1>5 DEF PushWithFds, Inside
<1>6. ASSUME LockData(t) PROVE Pc(t) = "lock" /\ Moves(t, {"read_fd"})
  BY <1>0, <1>2, <1>6 DEF LockData, Inside
<1>7. ASSUME Pc(t) # "none", EndPush(t, FALSE) PROVE Moves(t, {"enter_fallback"})
  BY <1>0, <1>2, <1>7 DEF EndPush, Inside
<1>8. ASSUME Pc(t) # "none", EndPush(t, TRUE) PROVE Moves(t, Back(t))
  BY <1>1, <1>8 DEF EndPush, Return
<1>9. ASSUME ReadFd(t)
      PROVE  Pc(t) = "read_fd" /\ Moves(t, IF data_fd = NULL THEN {"enter_fallback"} ELSE {"send"})
  BY <1>0, <1>2, <1>7, <1>9 DEF ReadFd, Inside
<1>10. ASSUME Send(t) PROVE Pc(t) = "send" /\ Moves(t, IF Len(op[t].parts) = 1 THEN Back(t) ELSE {"send"})
  <2>1. CASE Len(op[t].parts) = 1
    BY <1>8, <1>10, <2>1 DEF Send
  <2>2. CASE Len(op[t].parts) # 1
    <3>1. UNCHANGED stack /\ Pc(t) = "send"
      BY <1>10, <2>2 DEF Send
    <3>2. QED
      BY <2>2, <3>1, StackUnchanged DEF Stays, Moves
  <2>3. QED
    BY <2>1, <2>2
<1>11. ASSUME SendFails(t) PROVE Pc(t) = "send" /\ Moves(t, {"enter_fallback"})
  BY <1>7, <1>11 DEF SendFails
<1>12. ASSUME EnterFallback(t)
       PROVE  Pc(t) = "enter_fallback" /\ Moves(t, IF fallback THEN Back(t) ELSE {"close"})
  BY <1>0, <1>1, <1>2, <1>12 DEF EnterFallback, AlreadyIn, Inside
<1>13. ASSUME Close(t) PROVE Pc(t) = "close" /\ Moves(t, {"rebuild"})
  BY <1>0, <1>2, <1>13 DEF Close, Inside
<1>14. ASSUME Rebuild(t) PROVE Pc(t) = "rebuild" /\ Moves(t, {"on_fallback"})
  BY <1>0, <1>2, <1>14 DEF Rebuild, Inside
<1>15. ASSUME OnFallback(t) PROVE Pc(t) = "on_fallback" /\ Moves(t, Back(t))
  BY <1>1, <1>15 DEF OnFallback, StopEventThread
<1>16. QED
  BY <1>3, <1>4, <1>5, <1>6, <1>9, <1>10, <1>11, <1>12, <1>13, <1>14, <1>15

LEMMA RenderMoves ==
  ASSUME StackInv
  PROVE  LET r == "render" IN
         /\ Select => /\ Pc(r) = "loop"
                      /\ Moves(r, IF ~fallback THEN {"write_index"}
                                  ELSE IF notice THEN {"publish"} ELSE {"refresh_done"})
         /\ Publish => Pc(r) = "publish" /\ Moves(r, {"BUFS"})
         /\ PushDmabufs("BUFS") =>
              /\ Pc(r) = "BUFS"
              /\ Moves(r, IF Reaches(data_fd) THEN {"INFOS"} ELSE {"enter_fallback"})
         /\ PushDmabufs("INFOS") =>
              /\ Pc(r) = "INFOS"
              /\ Moves(r, IF Reaches(data_fd) THEN Back(r) ELSE {"enter_fallback"})
         /\ OnExitFallback => Pc(r) = "on_exit_fallback" /\ Moves(r, {"push"})
         /\ ClipboardSync => Pc(r) = "clipboard_sync" /\ Moves(r, {"push"} \cup Back(r))
         /\ Selected => Pc(r) = "selected" /\ Moves(r, {"write_index", "refresh_done"})
         /\ WriteIndex => Pc(r) = "write_index" /\ Moves(r, IF shm_ptr THEN {"pend"} ELSE {"SIGSEGV"})
         /\ SetPending => Pc(r) = "pend" /\ Moves(r, Back(r))
         /\ RefreshDone => Pc(r) = "refresh_done" /\ Moves(r, {"enter_fallback"} \cup Back(r))
<1> DEFINE r == "render"
<1> USE AtPc
<1>0. /\ r \in Thread /\ Inside \subseteq Label(r)
      /\ {"write_index", "publish", "refresh_done", "BUFS", "INFOS", "push", "pend", "SIGSEGV"} \subseteq Label(r)
      /\ {"refresh_done", "selected", "on_exit_fallback", "start_event_thread", "clipboard_sync"} \subseteq Below(r)
  BY ThreadFacts DEF Label, Inside, Below, Above
<1>1. ASSUME Pc(r) # "none", Return(r) PROVE Moves(r, Back(r))
  BY <1>0, <1>1, ReturnMoves DEF Back
<1>2. ASSUME Pc(r) # "none", NEW l \in Label(r)
      PROVE  /\ Goto(r, <<l>>) => Moves(r, {l})
             /\ \A m \in Below(r) : Goto(r, <<l, m>>) => Moves(r, {l})
             /\ \A m, n \in Below(r) : Goto(r, <<l, m, n>>) => Moves(r, {l})
  BY <1>0, <1>2, GotoMoves
<1>3. ASSUME Pc(r) = "loop", NEW l \in Label(r)
      PROVE  /\ Call(r, <<l>>) => Moves(r, {l})
             /\ \A m \in Below(r) : Call(r, <<l, m>>) => Moves(r, {l})
  <2>1. "loop" \in Below(r)
    BY DEF Below
  <2>2. QED
    BY <1>0, <1>3, <2>1, CallMoves
<1>4. ASSUME Select
      PROVE  /\ Pc(r) = "loop"
             /\ Moves(r, IF ~fallback THEN {"write_index"} ELSE IF notice THEN {"publish"} ELSE {"refresh_done"})
  BY <1>0, <1>3, <1>4 DEF Select
<1>5. ASSUME Publish PROVE Pc(r) = "publish" /\ Moves(r, {"BUFS"})
  BY <1>0, <1>2, <1>5 DEF Publish
<1>6. ASSUME PushDmabufs("BUFS")
      PROVE  Pc(r) = "BUFS" /\ Moves(r, IF Reaches(data_fd) THEN {"INFOS"} ELSE {"enter_fallback"})
  BY <1>0, <1>2, <1>6 DEF PushDmabufs, Inside
<1>7. ASSUME PushDmabufs("INFOS")
      PROVE  Pc(r) = "INFOS" /\ Moves(r, IF Reaches(data_fd) THEN Back(r) ELSE {"enter_fallback"})
  BY <1>0, <1>1, <1>2, <1>7 DEF PushDmabufs, Inside, Return
<1>8. ASSUME OnExitFallback PROVE Pc(r) = "on_exit_fallback" /\ Moves(r, {"push"})
  BY <1>0, <1>2, <1>8 DEF OnExitFallback
<1>9. ASSUME ClipboardSync PROVE Pc(r) = "clipboard_sync" /\ Moves(r, {"push"} \cup Back(r))
  <2>1. Pc(r) = "clipboard_sync" /\ (Moves(r, {"push"}) \/ Moves(r, Back(r)))
    BY <1>0, <1>1, <1>2, <1>9 DEF ClipboardSync
  <2>2. QED
    BY <2>1 DEF Moves
<1>10. ASSUME Selected PROVE Pc(r) = "selected" /\ Moves(r, {"write_index", "refresh_done"})
  <2>1. Pc(r) = "selected" /\ (Moves(r, {"write_index"}) \/ Moves(r, {"refresh_done"}))
    BY <1>0, <1>2, <1>10 DEF Selected
  <2>2. QED
    BY <2>1 DEF Moves
<1>11. ASSUME WriteIndex PROVE Pc(r) = "write_index" /\ Moves(r, IF shm_ptr THEN {"pend"} ELSE {"SIGSEGV"})
  <2>1. Pc(r) = "write_index"
    BY <1>0, <1>11 DEF WriteIndex
  <2>2. CASE shm_ptr
    BY <1>0, <1>2, <1>11, <2>1, <2>2 DEF WriteIndex
  <2>3. CASE ~shm_ptr
    <3>1. <<>> \in Seq(Below(r)) /\ <<"SIGSEGV">> \o <<>> = <<"SIGSEGV">>
      OBVIOUS
    <3>2. Shape(r, <<"SIGSEGV">>) /\ Head(<<"SIGSEGV">>) = "SIGSEGV" /\ <<"SIGSEGV">> # <<>>
      BY <1>0, <3>1, OnTop
    <3>3. QED
      BY <1>0, <1>11, <2>1, <2>3, <3>2, BecomesMoves DEF WriteIndex
  <2>4. QED
    BY <2>2, <2>3
<1>12. ASSUME SetPending PROVE Pc(r) = "pend" /\ Moves(r, Back(r))
  BY <1>0, <1>1, <1>12 DEF SetPending
<1>13. ASSUME RefreshDone PROVE Pc(r) = "refresh_done" /\ Moves(r, {"enter_fallback"} \cup Back(r))
  <2>1. Pc(r) = "refresh_done" /\ (Moves(r, {"enter_fallback"}) \/ Moves(r, Back(r)))
    BY <1>0, <1>1, <1>2, <1>13 DEF RefreshDone, Inside
  <2>2. QED
    BY <2>1 DEF Moves
<1>14. QED
  BY <1>4, <1>5, <1>6, <1>7, <1>8, <1>9, <1>10, <1>11, <1>12, <1>13

\* The render thread starts the event thread.
LEMMA StartMoves ==
  ASSUME StackInv, StartEventThread
  PROVE  /\ Pc("render") = "start_event_thread"
         /\ StackInv' /\ Pc("render")' \in Back("render")
         /\ \A i \in Input : Pc(i)' = Pc(i)
         /\ Pc("event")' = Pc("event") \/ (Pc("event") = "none" /\ Pc("event")' = "poll")
<1> DEFINE r == "render"
<1>1. r \in Thread /\ "event" \in Thread /\ Pc(r) = "start_event_thread"
  BY ThreadFacts, AtPc DEF StartEventThread
<1>2. CASE Return(r)
  <2>1. Moves(r, Back(r))
    BY <1>1, <1>2, ReturnMoves DEF Back
  <2>2. QED
    BY <1>1, <2>1, ThreadFacts DEF Moves
<1>3. CASE /\ stack["event"] = <<>>
           /\ stack' = [stack EXCEPT ![r] = Tail(@), !["event"] = <<"poll">>]
  <2>1. Tail(stack[r]) \in Seq(Below(r))
    BY <1>1, Rest
  <2>2. /\ Shape(r, Tail(stack[r]))
        /\ Tail(stack[r]) # <<>> => Head(Tail(stack[r])) \in Below(r)
    BY <2>1, OnReturn
  <2>3. Shape("event", <<"poll">>) /\ <<"poll">> # <<>> /\ Head(<<"poll">>) = "poll"
    <3>1. <<>> \in Seq(Below("event")) /\ <<"poll">> \o <<>> = <<"poll">> /\ "poll" \in Label("event")
      BY DEF Label, Below
    <3>2. QED
      BY <3>1, OnTop
  <2>4. /\ DOMAIN stack' = Thread
        /\ stack'[r] = Tail(stack[r]) /\ stack'["event"] = <<"poll">>
        /\ \A u \in Thread : u # r /\ u # "event" => stack'[u] = stack[u]
    BY <1>1, <1>3 DEF StackInv
  <2>5. StackInv'
    BY <2>2, <2>3, <2>4 DEF StackInv
  <2>6. QED
    BY <1>1, <1>3, <2>2, <2>3, <2>4, <2>5, ThreadFacts DEF Pc, Back
<1>4. QED
  BY <1>2, <1>3 DEF StartEventThread

LEMMA EventMoves ==
  ASSUME StackInv
  PROVE  LET e == "event" IN
         /\ EventEnds => Pc(e) = "poll" /\ Moves(e, {"none"})
         /\ PollHangup => Pc(e) = "poll" /\ Moves(e, {"enter_fallback"})
         /\ \A s \in Service :
              HandleResourceRequest(s) => Pc(e) = "poll" /\ Moves(e, {"push_with_fds"})
         /\ ResourceSent =>
              Pc(e) = "sent" /\ Moves(e, IF fallback THEN Back(e) ELSE {"drop_gate"})
         /\ DropGate => Pc(e) = "drop_gate" /\ Moves(e, Back(e))
<1> DEFINE e == "event"
<1> USE AtPc
<1>0. /\ e \in Thread /\ "poll" \in Below(e) /\ "sent" \in Below(e)
      /\ {"enter_fallback", "push_with_fds", "drop_gate"} \subseteq Label(e)
  BY ThreadFacts DEF Label, Inside, Below, Above
<1>1. ASSUME Pc(e) # "none", Return(e) PROVE Moves(e, Back(e))
  BY <1>0, <1>1, ReturnMoves DEF Back
<1>2. ASSUME EventEnds PROVE Pc(e) = "poll" /\ Moves(e, {"none"})
  <2>1. Shape(e, <<>>)
    BY DEF Shape
  <2>2. QED
    BY <1>0, <1>2, <2>1, BecomesMoves DEF EventEnds
<1>3. ASSUME PollHangup PROVE Pc(e) = "poll" /\ Moves(e, {"enter_fallback"})
  BY <1>0, <1>3, CallMoves DEF PollHangup
<1>4. ASSUME NEW s \in Service, HandleResourceRequest(s)
      PROVE  Pc(e) = "poll" /\ Moves(e, {"push_with_fds"})
  BY <1>0, <1>4, CallMoves DEF HandleResourceRequest
<1>5. ASSUME ResourceSent PROVE Pc(e) = "sent" /\ Moves(e, IF fallback THEN Back(e) ELSE {"drop_gate"})
  <2>1. Pc(e) = "sent"
    BY <1>0, <1>5 DEF ResourceSent
  <2>2. CASE fallback
    BY <1>1, <1>5, <2>1, <2>2 DEF ResourceSent, Return
  <2>3. CASE ~fallback
    BY <1>0, <1>5, <2>1, <2>3, GotoMoves DEF ResourceSent
  <2>4. QED
    BY <2>2, <2>3
<1>6. ASSUME DropGate PROVE Pc(e) = "drop_gate" /\ Moves(e, Back(e))
  BY <1>0, <1>1, <1>6 DEF DropGate
<1>7. QED
  BY <1>2, <1>3, <1>4, <1>5, <1>6

LEMMA InputMoves ==
  ASSUME StackInv, NEW i \in Input, InputEvent(i)
  PROVE  Pc(i) = "none" /\ Moves(i, {"push"})
<1>1. i \in Thread /\ Pc(i) = "none" /\ "push" \in Label(i)
  BY ThreadFacts DEF InputEvent, Pc, Label, Above
<1>2. QED
  BY <1>1, CallMoves DEF InputEvent
-----------------------------------------------------------------------------
(* The send under way.                                                     *)

LEMMA TupleFacts ==
  /\ \A l \in Part : Head(<<l>>) = l /\ Tail(<<l>>) = <<>> /\ Len(<<l>>) = 1 /\ <<l>> # <<>>
  /\ \A l, m \in Part : /\ Head(<<l, m>>) = l /\ Tail(<<l, m>>) = <<m>> /\ Len(<<l, m>>) = 2
                        /\ <<l, m>> # <<>>
<1>1. ASSUME NEW l \in Part PROVE Head(<<l>>) = l /\ Tail(<<l>>) = <<>> /\ Len(<<l>>) = 1 /\ <<l>> # <<>>
  <2>1. Tail(<<l>>) = <<>>
    OBVIOUS
  <2>2. QED
    BY <2>1
<1>2. ASSUME NEW l \in Part, NEW m \in Part
      PROVE  Head(<<l, m>>) = l /\ Tail(<<l, m>>) = <<m>> /\ Len(<<l, m>>) = 2 /\ <<l, m>> # <<>>
  OBVIOUS
<1>3. QED
  BY <1>1, <1>2

LEMMA InputParts ==
  ASSUME NEW p \in Inputs, p # <<>>
  PROVE  /\ Head(p) \notin {"FDS", "NO_RES", "RES"}
         /\ Tail(p) \in Inputs
<1>1. {"EVENT", "CLIP", "TEXT"} \subseteq Part
  BY DEF Part
<1>2. CASE p = <<"EVENT">>
  <2>1. Head(p) = "EVENT" /\ Tail(p) = <<>>
    BY <1>1, <1>2, TupleFacts
  <2>2. QED
    BY <2>1 DEF Inputs
<1>3. CASE p = <<"TEXT">>
  <2>1. Head(p) = "TEXT" /\ Tail(p) = <<>>
    BY <1>1, <1>3, TupleFacts
  <2>2. QED
    BY <2>1 DEF Inputs
<1>4. CASE p = <<"CLIP", "TEXT">>
  <2>1. Head(p) = "CLIP" /\ Tail(p) = <<"TEXT">>
    BY <1>1, <1>4, TupleFacts
  <2>2. QED
    BY <2>1 DEF Inputs
<1>5. QED
  BY <1>2, <1>3, <1>4 DEF Inputs

LEMMA AnswerParts ==
  ASSUME NEW p \in Answers
  PROVE  /\ Len(p) = 1 => Head(p) \in {"FDS", "NO_RES"}
         /\ Len(p) # 1 => p = <<"RES", "FDS">> /\ Head(p) = "RES" /\ Tail(p) = <<"FDS">>
         /\ p = <<"FDS">> => Head(p) = "FDS"
<1>1. {"NO_RES", "RES", "FDS"} \subseteq Part
  BY DEF Part
<1>2. CASE p = <<"NO_RES">>
  <2>1. Head(p) = "NO_RES" /\ Len(p) = 1
    BY <1>1, <1>2, TupleFacts
  <2>2. QED
    BY <1>2, <2>1
<1>3. CASE p = <<"FDS">>
  <2>1. Head(p) = "FDS" /\ Len(p) = 1
    BY <1>1, <1>3, TupleFacts
  <2>2. QED
    BY <1>3, <2>1
<1>4. CASE p = <<"RES", "FDS">>
  <2>1. Head(p) = "RES" /\ Tail(p) = <<"FDS">> /\ Len(p) = 2 /\ "RES" # "FDS"
    BY <1>1, <1>4, TupleFacts
  <2>2. p # <<"FDS">>
    BY <1>1, <2>1, TupleFacts
  <2>3. QED
    BY <1>4, <2>1, <2>2
<1>5. QED
  BY <1>2, <1>3, <1>4 DEF Answers

LEMMA TailFacts ==
  ASSUME NEW p \in Parts, p # <<>>
  PROVE  /\ Head(p) \in Part /\ Tail(p) \in Parts
         /\ Len(p) # 1 => Tail(p) # <<>>
<1>1. CASE p \in {<<"EVENT">>, <<"TEXT">>, <<"NO_RES">>, <<"FDS">>}
  <2>1. \E l \in Part : p = <<l>>
    BY <1>1 DEF Part
  <2>2. Head(p) \in Part /\ Len(p) = 1 /\ Tail(p) = <<>>
    BY <2>1, TupleFacts
  <2>3. QED
    BY <2>2 DEF Parts
<1>2. CASE p \in {<<"CLIP", "TEXT">>, <<"RES", "FDS">>}
  <2>1. \E l \in Part, m \in {"TEXT", "FDS"} : p = <<l, m>>
    BY <1>2 DEF Part
  <2>2. Head(p) \in Part /\ Tail(p) \in {<<"TEXT">>, <<"FDS">>}
    BY <2>1, TupleFacts DEF Part
  <2>3. QED
    BY <2>2 DEF Parts
<1>3. QED
  BY <1>1, <1>2 DEF Parts

LEMMA PartFacts ==
  /\ Event \in Parts /\ Clipboard \in Parts /\ \A n \in 0..1 : Resource(n) \in Parts
  /\ Event # <<>> /\ Clipboard # <<>> /\ \A n \in 0..1 : Resource(n) # <<>>
  /\ <<>> \in Parts
BY DEF Parts, Part, Event, Clipboard, Resource

\* The send of thread t is now this, the others are what they were.
With(t, parts, fd, locked, service) ==
  /\ op' \in [Thread -> Op]
  /\ op'[t].parts = parts /\ op'[t].fd = fd /\ op'[t].locked = locked /\ op'[t].service = service
  /\ \A u \in Thread \ {t} : op'[u] = op[u]

LEMMA OpFacts ==
  ASSUME op \in [Thread -> Op], NEW t \in Thread
  PROVE  /\ Done(t) => With(t, <<>>, NULL, FALSE, op[t].service)
         /\ \A p \in Parts : Writes(t, p) => With(t, p, op[t].fd, op[t].locked, op[t].service)
         /\ \A b \in BOOLEAN : op' = [op EXCEPT ![t].locked = b]
              => With(t, op[t].parts, op[t].fd, b, op[t].service)
         /\ \A d \in Fd \cup {NULL} : op' = [op EXCEPT ![t].fd = d]
              => With(t, op[t].parts, d, op[t].locked, op[t].service)
         /\ \A p \in Parts, s \in Service : op' = [op EXCEPT ![t].parts = p, ![t].service = s]
              => With(t, p, op[t].fd, op[t].locked, s)
         /\ UNCHANGED op => With(t, op[t].parts, op[t].fd, op[t].locked, op[t].service)
<1>1. op[t] \in Op
  OBVIOUS
<1>2. \A o \in Op :
        /\ [o EXCEPT !.parts = <<>>, !.fd = NULL, !.locked = FALSE] \in Op
        /\ \A p \in Parts : [o EXCEPT !.parts = p] \in Op
        /\ \A b \in BOOLEAN : [o EXCEPT !.locked = b] \in Op
        /\ \A d \in Fd \cup {NULL} : [o EXCEPT !.fd = d] \in Op
        /\ \A p \in Parts, s \in Service : [o EXCEPT !.parts = p, !.service = s] \in Op
  <2>1. <<>> \in Parts
    BY PartFacts
  <2>2. QED
    BY <2>1 DEF Op
<1>3. ASSUME NEW o \in Op, op' = [op EXCEPT ![t] = o]
      PROVE  op' \in [Thread -> Op] /\ op'[t] = o /\ \A u \in Thread \ {t} : op'[u] = op[u]
  BY <1>3
<1>4. ASSUME Done(t) PROVE With(t, <<>>, NULL, FALSE, op[t].service)
  <2>1. op' = [op EXCEPT ![t] = [op[t] EXCEPT !.parts = <<>>, !.fd = NULL, !.locked = FALSE]]
    BY <1>1, <1>4 DEF Done
  <2>2. /\ op' \in [Thread -> Op] /\ op'[t] = [op[t] EXCEPT !.parts = <<>>, !.fd = NULL, !.locked = FALSE]
        /\ \A u \in Thread \ {t} : op'[u] = op[u]
    BY <1>1, <1>2, <1>3, <2>1
  <2>3. QED
    BY <1>1, <2>2 DEF Op, With
<1>5. ASSUME NEW p \in Parts, Writes(t, p) PROVE With(t, p, op[t].fd, op[t].locked, op[t].service)
  <2>1. /\ op' \in [Thread -> Op] /\ op'[t] = [op[t] EXCEPT !.parts = p]
        /\ \A u \in Thread \ {t} : op'[u] = op[u]
    BY <1>1, <1>2, <1>3, <1>5 DEF Writes
  <2>2. QED
    BY <1>1, <2>1 DEF Op, With
<1>6. ASSUME NEW b \in BOOLEAN, op' = [op EXCEPT ![t].locked = b]
      PROVE  With(t, op[t].parts, op[t].fd, b, op[t].service)
  <2>1. /\ op' \in [Thread -> Op] /\ op'[t] = [op[t] EXCEPT !.locked = b]
        /\ \A u \in Thread \ {t} : op'[u] = op[u]
    BY <1>1, <1>2, <1>3, <1>6
  <2>2. QED
    BY <1>1, <2>1 DEF Op, With
<1>7. ASSUME NEW d \in Fd \cup {NULL}, op' = [op EXCEPT ![t].fd = d]
      PROVE  With(t, op[t].parts, d, op[t].locked, op[t].service)
  <2>1. /\ op' \in [Thread -> Op] /\ op'[t] = [op[t] EXCEPT !.fd = d]
        /\ \A u \in Thread \ {t} : op'[u] = op[u]
    BY <1>1, <1>2, <1>3, <1>7
  <2>2. QED
    BY <1>1, <2>1 DEF Op, With
<1>8. ASSUME NEW p \in Parts, NEW s \in Service, op' = [op EXCEPT ![t].parts = p, ![t].service = s]
      PROVE  With(t, p, op[t].fd, op[t].locked, s)
  <2>1. op' = [op EXCEPT ![t] = [op[t] EXCEPT !.parts = p, !.service = s]]
    BY <1>1, <1>8
  <2>2. /\ op' \in [Thread -> Op] /\ op'[t] = [op[t] EXCEPT !.parts = p, !.service = s]
        /\ \A u \in Thread \ {t} : op'[u] = op[u]
    BY <1>1, <1>2, <1>3, <2>1
  <2>3. QED
    BY <1>1, <2>2 DEF Op, With
<1>9. UNCHANGED op => With(t, op[t].parts, op[t].fd, op[t].locked, op[t].service)
  BY <1>1 DEF With
<1>10. QED
  BY <1>4, <1>5, <1>6, <1>7, <1>8, <1>9

\* What each step of the library does to the send under way.
LEMMA LibraryOps ==
  ASSUME TypeOK, NEW t \in Thread, Pc(t) = "send" => op[t].parts # <<>>
  PROVE  LET Now(parts, fd, locked) == With(t, parts, fd, locked, op[t].service)
             Same  == Now(op[t].parts, op[t].fd, op[t].locked)
             Over  == Now(<<>>, NULL, FALSE)
         IN
         /\ Push(t) => IF fallback THEN Over ELSE Same
         /\ ReadGate(t) => Now(op[t].parts, op[t].fd, NeedsLock)
         /\ PushWithFds(t) => IF fallback THEN Over ELSE Now(op[t].parts, op[t].fd, TRUE)
         /\ ReadFd(t) => IF data_fd = NULL THEN Over ELSE Now(op[t].parts, data_fd, op[t].locked)
         /\ Send(t) => IF Len(op[t].parts) = 1 THEN Over ELSE Now(Tail(op[t].parts), op[t].fd, op[t].locked)
         /\ SendFails(t) => Over
         /\ LockData(t) \/ EnterFallback(t) \/ Close(t) \/ Rebuild(t) \/ OnFallback(t) => Same
<1> DEFINE Now(parts, fd, locked) == With(t, parts, fd, locked, op[t].service)
           Same  == Now(op[t].parts, op[t].fd, op[t].locked)
           Over  == Now(<<>>, NULL, FALSE)
<1>1. op \in [Thread -> Op] /\ op[t] \in Op
  BY DEF TypeOK
<1>2. (Done(t) => Over) /\ (UNCHANGED op => Same)
  BY <1>1, OpFacts
<1>3. Push(t) => IF fallback THEN Done(t) ELSE UNCHANGED op
  BY DEF Push
<1>4. ASSUME ReadGate(t) PROVE Now(op[t].parts, op[t].fd, NeedsLock)
  <2>1. NeedsLock \in BOOLEAN
    BY DEF TypeOK, NeedsLock
  <2>2. op' = [op EXCEPT ![t].locked = NeedsLock]
    BY <1>4 DEF ReadGate
  <2>3. QED
    BY <1>1, <2>1, <2>2, OpFacts
<1>5. ASSUME PushWithFds(t), ~fallback PROVE Now(op[t].parts, op[t].fd, TRUE)
  <2>1. op' = [op EXCEPT ![t].locked = TRUE] /\ TRUE \in BOOLEAN
    BY <1>5 DEF PushWithFds
  <2>2. QED
    BY <1>1, <2>1, OpFacts
<1>6. PushWithFds(t) /\ fallback => Done(t)
  BY DEF PushWithFds
<1>7. ASSUME ReadFd(t), data_fd # NULL PROVE Now(op[t].parts, data_fd, op[t].locked)
  <2>1. data_fd \in Fd \cup {NULL}
    BY DEF TypeOK
  <2>2. op' = [op EXCEPT ![t].fd = data_fd]
    BY <1>7 DEF ReadFd
  <2>3. QED
    BY <1>1, <2>1, <2>2, OpFacts
<1>8. ReadFd(t) /\ data_fd = NULL => Done(t)
  BY DEF ReadFd, EndPush
<1>9. ASSUME Send(t), Len(op[t].parts) # 1 PROVE Now(Tail(op[t].parts), op[t].fd, op[t].locked)
  <2>1. Tail(op[t].parts) \in Parts
    <3>1. Pc(t) = "send"
      BY <1>9, AtPc DEF Send
    <3>2. op[t].parts \in Parts /\ op[t].parts # <<>>
      BY <1>1, <3>1 DEF Op
    <3>3. ASSUME NEW p \in Parts, p # <<>> PROVE Tail(p) \in Parts
      BY <3>3, TailFacts
    <3>4. QED
      BY <3>2, <3>3
  <2>2. Writes(t, Tail(op[t].parts))
    BY <1>9 DEF Send
  <2>3. QED
    BY <1>1, <2>1, <2>2, OpFacts
<1>10. Send(t) /\ Len(op[t].parts) = 1 => Done(t)
  BY DEF Send, EndPush
<1>11. SendFails(t) => Done(t)
  BY DEF SendFails, EndPush
<1>12. LockData(t) \/ EnterFallback(t) \/ Close(t) \/ Rebuild(t) \/ OnFallback(t) => UNCHANGED op
  BY DEF LockData, EnterFallback, Close, Rebuild, OnFallback
<1> HIDE DEF Now, Same, Over
<1>13. QED
  BY <1>2, <1>3, <1>4, <1>5, <1>6, <1>7, <1>8, <1>9, <1>10, <1>11, <1>12 DEF Now, Same, Over
LEMMA OtherOps ==
  ASSUME TypeOK
  PROVE  LET Now(t, parts) == With(t, parts, op[t].fd, op[t].locked, op[t].service) IN
         /\ OnExitFallback => Now("render", Event)
         /\ ClipboardSync => Now("render", Clipboard) \/ UNCHANGED op
         /\ \A s \in Service : HandleResourceRequest(s) =>
              \E n \in 0..1 : With("event", Resource(n), op["event"].fd, op["event"].locked, s)
         /\ \A i \in Input : InputEvent(i) => \E m \in {Event, Clipboard} : Now(i, m)
<1> DEFINE Now(t, parts) == With(t, parts, op[t].fd, op[t].locked, op[t].service)
<1>1. op \in [Thread -> Op]
  BY DEF TypeOK
<1>2. \A t \in Thread, p \in Parts : Writes(t, p) => Now(t, p)
  BY <1>1, OpFacts
<1>3. Event \in Parts /\ Clipboard \in Parts /\ \A n \in 0..1 : Resource(n) \in Parts
  BY PartFacts
<1>4. OnExitFallback => Now("render", Event)
  BY <1>2, <1>3, ThreadFacts DEF OnExitFallback
<1>5. ClipboardSync => Now("render", Clipboard) \/ UNCHANGED op
  BY <1>2, <1>3, ThreadFacts DEF ClipboardSync
<1>6. ASSUME NEW s \in Service, HandleResourceRequest(s)
      PROVE  \E n \in 0..1 : With("event", Resource(n), op["event"].fd, op["event"].locked, s)
  <2>1. PICK n \in 0..1 : op' = [op EXCEPT !["event"].parts = Resource(n), !["event"].service = s]
    BY <1>6 DEF HandleResourceRequest
  <2>2. Resource(n) \in Parts
    BY <1>3
  <2>3. With("event", Resource(n), op["event"].fd, op["event"].locked, s)
    BY <1>1, <2>1, <2>2, OpFacts, ThreadFacts
  <2>4. QED
    BY <2>3
<1>7. \A i \in Input : InputEvent(i) => \E m \in {Event, Clipboard} : Now(i, m)
  <2>1. \A i \in Input : InputEvent(i) => \E m \in {Event, Clipboard} : Writes(i, m)
    BY DEF InputEvent
  <2>2. QED
    BY <1>2, <1>3, <2>1, ThreadFacts
<1> HIDE DEF Now
<1>8. QED
  BY <1>4, <1>5, <1>6, <1>7 DEF Now

\* The last two parts on the wire.
LEMMA WireFacts ==
  ASSUME NEW w \in Seq(Part), Len(w) \in 0..2, NEW x \in Part
  PROVE  /\ Append2(w, x) \in Seq(Part) /\ Len(Append2(w, x)) \in 1..2
         /\ Append2(w, x)[Len(Append2(w, x))] = x
         /\ Len(Append2(w, x)) = 2 => w # <<>> /\ Append2(w, x)[1] = w[Len(w)]
<1> DEFINE n == Len(w)
           a == Append2(w, x)
<1>1. n \in 0..2
  OBVIOUS
<1>2. CASE n < 2
  <2>1. a = Append(w, x)
    BY <1>2 DEF Append2
  <2>2. /\ Append(w, x) \in Seq(Part) /\ Len(Append(w, x)) = n + 1 /\ Append(w, x)[n + 1] = x
        /\ \A i \in 1..n : Append(w, x)[i] = w[i]
    OBVIOUS
  <2>3. a \in Seq(Part) /\ Len(a) = n + 1 /\ a[n + 1] = x /\ \A i \in 1..n : a[i] = w[i]
    BY <2>1, <2>2
  <2>4. n # 0 => w # <<>>
    OBVIOUS
  <2> HIDE DEF a, n
  <2>5. a \in Seq(Part) /\ Len(a) \in 1..2 /\ a[Len(a)] = x /\ (Len(a) = 2 => w # <<>> /\ a[1] = w[n])
    BY <1>1, <1>2, <2>3, <2>4
  <2>6. QED
    BY <2>5 DEF a, n
<1>3. CASE n = 2
  <2>1. w[2] \in Part /\ w # <<>>
    <3>1. 2 \in 1..Len(w)
      BY <1>3
    <3>2. QED
      BY <3>1
  <2>2. a = <<w[2], x>>
    BY <1>3 DEF Append2
  <2> HIDE DEF a
  <2>3. a \in Seq(Part) /\ Len(a) = 2 /\ a[2] = x /\ a[1] = w[2]
    BY <2>1, <2>2
  <2>4. QED
    BY <1>3, <2>1, <2>3 DEF a
<1> HIDE DEF n, a
<1>4. n < 2 \/ n = 2
  BY <1>1
<1>5. QED
  BY <1>2, <1>3, <1>4

-----------------------------------------------------------------------------
(* Every step keeps the types.                                             *)

LEMMA LibraryTypes ==
  ASSUME StackInv, TypeOK, LockInv, NEW t \in Thread, Library(t)
  PROVE  TypeOK'
<1> USE DEF gate, locks, conn, app, other, cnt
<1>1. Pc(t) = "send" => op[t].parts # <<>>
  BY DEF LockInv
<1>2. op' \in [Thread -> Op]
  BY <1>1, LibraryOps DEF Library, With
<1>3. CASE Push(t)
  BY <1>2, <1>3 DEF TypeOK, Push
<1>4. CASE ReadGate(t)
  BY <1>2, <1>4 DEF TypeOK, ReadGate
<1>5. CASE PushWithFds(t)
  BY <1>2, <1>5 DEF TypeOK, PushWithFds
<1>6. CASE LockData(t)
  BY <1>2, <1>6 DEF TypeOK, LockData
<1>7. CASE ReadFd(t)
  BY <1>2, <1>7 DEF TypeOK, ReadFd, EndPush
<1>8. CASE Send(t)
  <2>1. Head(op[t].parts) \in Part
    <3>1. op[t].parts # <<>>
      BY <1>1, <1>8, AtPc DEF Send
    <3>2. op[t].parts \in Parts
      BY DEF TypeOK, Op
    <3>3. ASSUME NEW p \in Parts, p # <<>> PROVE Head(p) \in Part
      BY <3>3, TailFacts
    <3>4. QED
      BY <3>1, <3>2, <3>3
  <2>2. wire' \in Seq(Part) /\ Len(wire') \in 0..2
    <3>1. wire' = Append2(wire, Head(op[t].parts)) /\ wire \in Seq(Part) /\ Len(wire) \in 0..2
      BY <1>8 DEF TypeOK, Send
    <3>2. QED
      BY <2>1, <3>1, WireFacts
  <2>3. requests' \in [Service -> {"none", "sent", "read", "answered"}]
    BY <1>8 DEF TypeOK, Send
  <2>4. data_lock' \in Thread \cup {NULL} /\ UNCHANGED <<gate, state_lock, conn, app, peer, notice, cnt>>
    BY <1>8 DEF TypeOK, Send, EndPush
  <2>5. QED
    BY <1>2, <2>2, <2>3, <2>4 DEF TypeOK
<1>9. CASE SendFails(t)
  BY <1>2, <1>9 DEF TypeOK, SendFails, EndPush
<1>10. CASE EnterFallback(t)
  BY <1>2, <1>10 DEF TypeOK, EnterFallback
<1>11. CASE Close(t)
  BY <1>2, <1>11 DEF TypeOK, Close
<1>12. CASE Rebuild(t)
  <2>1. wire' = <<>> /\ <<>> \in Seq(Part) /\ Len(<<>>) = 0
    BY <1>12 DEF Rebuild
  <2>2. data_needs_lock' \in BOOLEAN /\ services_sent_mask' \subseteq Service \cup {NULL}
    BY <1>12 DEF Rebuild, Arm
  <2>3. /\ data_fd' \in Fd \cup {NULL} /\ shm_ptr' \in BOOLEAN
        /\ peer' \in {"none", "deposited", "active", "rendering", "gone"}
    BY <1>12 DEF TypeOK, Rebuild
  <2>4. requests' \in [Service -> {"none", "sent", "read", "answered"}] /\ data_lock' = NULL /\ state_lock' = NULL
    BY <1>12 DEF Rebuild
  <2>5. UNCHANGED <<fallback, buffer_pending, app, notice, cnt>>
    BY <1>12 DEF Rebuild
  <2>6. QED
    BY <1>2, <2>1, <2>2, <2>3, <2>4, <2>5 DEF TypeOK
<1>13. CASE OnFallback(t)
  BY <1>2, <1>13 DEF TypeOK, OnFallback, StopEventThread
<1>14. QED
  BY <1>3, <1>4, <1>5, <1>6, <1>7, <1>8, <1>9, <1>10, <1>11, <1>12, <1>13 DEF Library

LEMMA RenderTypes ==
  ASSUME StackInv, TypeOK, LockInv, RenderStep
  PROVE  TypeOK'
<1> USE DEF gate, locks, conn, app, other, cnt
<1>1. CASE Select
  <2>1. notice' \in BOOLEAN
    BY <1>1 DEF TypeOK, Select
  <2>2. UNCHANGED <<gate, locks, conn, app, op, peer, requests, wire, cnt>>
    BY <1>1 DEF Select
  <2>3. QED
    BY <2>1, <2>2 DEF TypeOK
<1>2. CASE Publish
  BY <1>2 DEF TypeOK, Publish, Arm
<1>3. ASSUME NEW part \in {"BUFS", "INFOS"}, PushDmabufs(part) PROVE TypeOK'
  <2>1. wire' \in Seq(Part) /\ Len(wire') \in 0..2
    <3>1. part \in Part /\ (wire' = Append2(wire, part) \/ UNCHANGED wire)
      BY <1>3 DEF PushDmabufs, Part
    <3>2. QED
      BY <3>1, WireFacts DEF TypeOK
  <2>2. peer' \in {"none", "deposited", "active", "rendering", "gone"}
    BY <1>3 DEF TypeOK, PushDmabufs
  <2>3. UNCHANGED <<gate, locks, conn, app, op, notice, requests, cnt>>
    BY <1>3 DEF PushDmabufs
  <2>4. QED
    BY <2>1, <2>2, <2>3 DEF TypeOK
<1>4. CASE OnExitFallback
  BY <1>4, OtherOps DEF TypeOK, OnExitFallback, With
<1>5. CASE StartEventThread
  <2>1. event_running' \in BOOLEAN
    BY <1>5 DEF TypeOK, StartEventThread
  <2>2. UNCHANGED <<gate, locks, conn, audio_ctx, op, other, wire, cnt>>
    BY <1>5 DEF StartEventThread
  <2>3. QED
    BY <2>1, <2>2 DEF TypeOK
<1>6. CASE ClipboardSync
  BY <1>6, OtherOps DEF TypeOK, ClipboardSync, With
<1>7. CASE Selected
  BY <1>7 DEF TypeOK, Selected
<1>8. CASE WriteIndex
  BY <1>8 DEF TypeOK, WriteIndex
<1>9. CASE SetPending
  BY <1>9 DEF TypeOK, SetPending
<1>10. CASE RefreshDone
  <2>1. buffer_pending' \in BOOLEAN
    BY <1>10 DEF TypeOK, RefreshDone
  <2>2. faults' \in Nat /\ events' \in Nat
    BY <1>10 DEF TypeOK, RefreshDone, Fault
  <2>3. UNCHANGED <<gate, locks, fallback, data_fd, shm_ptr, app, op, other, wire>>
    BY <1>10 DEF RefreshDone
  <2>4. QED
    BY <2>1, <2>2, <2>3 DEF TypeOK
<1>11. CASE Library("render")
  BY <1>11, LibraryTypes, ThreadFacts
<1>12. QED
  BY <1>1, <1>2, <1>3, <1>4, <1>5, <1>6, <1>7, <1>8, <1>9, <1>10, <1>11 DEF RenderStep

LEMMA EventTypes ==
  ASSUME StackInv, TypeOK, LockInv, EventStep
  PROVE  TypeOK'
<1> USE DEF gate, locks, conn, app, other, cnt
<1>1. CASE EventEnds
  BY <1>1 DEF TypeOK, EventEnds
<1>2. CASE PollHangup
  BY <1>2 DEF TypeOK, PollHangup
<1>3. ASSUME NEW s \in Service, HandleResourceRequest(s) PROVE TypeOK'
  <2>1. op' \in [Thread -> Op]
    BY <1>3, OtherOps DEF With
  <2>2. QED
    BY <1>3, <2>1 DEF TypeOK, HandleResourceRequest
<1>4. CASE ResourceSent
  BY <1>4 DEF TypeOK, ResourceSent
<1>5. CASE DropGate
  <2>1. op["event"].service \in Service \cup {NULL}
    BY ThreadFacts DEF TypeOK, Op
  <2>2. services_sent_mask' \subseteq Service \cup {NULL}
    BY <1>5, <2>1 DEF TypeOK, DropGate
  <2>3. data_needs_lock' \in BOOLEAN
    BY <1>5 DEF TypeOK, DropGate
  <2>4. UNCHANGED <<locks, conn, app, op, other, wire, cnt>>
    BY <1>5 DEF DropGate
  <2>5. QED
    BY <2>2, <2>3, <2>4 DEF TypeOK
<1>6. CASE Library("event")
  BY <1>6, LibraryTypes, ThreadFacts
<1>7. QED
  BY <1>1, <1>2, <1>3, <1>4, <1>5, <1>6 DEF EventStep

LEMMA OtherTypes ==
  ASSUME StackInv, TypeOK, LockInv,
         \/ \E i \in Input : InputEvent(i) \/ Library(i)
         \/ HandedOut \/ ProducerGone \/ \E s \in Service : ProducerRequests(s)
  PROVE  TypeOK'
<1> USE DEF gate, locks, conn, app, other, cnt
<1>1. ASSUME NEW i \in Input, InputEvent(i) PROVE TypeOK'
  <2>1. op' \in [Thread -> Op]
    BY <1>1, OtherOps DEF With
  <2>2. QED
    BY <1>1, <2>1, ConsumerLibAssumption DEF TypeOK, InputEvent
<1>2. ASSUME NEW i \in Input, Library(i) PROVE TypeOK'
  BY <1>2, LibraryTypes, ThreadFacts
<1>3. CASE HandedOut
  BY <1>3 DEF TypeOK, HandedOut
<1>4. CASE ProducerGone
  BY <1>4 DEF TypeOK, ProducerGone, Fault
<1>5. ASSUME NEW s \in Service, ProducerRequests(s) PROVE TypeOK'
  BY <1>5 DEF TypeOK, ProducerRequests
<1>6. QED
  BY <1>1, <1>2, <1>3, <1>4, <1>5
-----------------------------------------------------------------------------
(* Every step keeps the locks' invariant.                                  *)

LEMMA BackFacts ==
  ASSUME NEW t
  PROVE  Back(t) \cap (Inside \cup {"push", "gate", "push_with_fds", "drop_gate", "publish", "BUFS",
                                    "INFOS", "write_index", "pend", "SIGSEGV"}) = {}
BY DEF Back, Below, Inside

LEMMA EventFacts == StackInv => Pc("event") \notin {"push", "gate"}
<1>1. StackInv => Pc("event") \in Label("event") \cup {"none"}
  BY Rest, ThreadFacts DEF Pc
<1>2. QED
  BY <1>1 DEF Label, Inside, Below, Above

LEMMA LibraryLocks ==
  ASSUME StackInv, TypeOK, LockInv, NEW t \in Thread, Library(t)
  PROVE  LockInv'
<1> USE DEF gate, locks, conn, app, other, cnt
<1>1. Pc(t) = "send" => op[t].parts # <<>>
  BY DEF LockInv
<1>2. /\ \A u \in Thread \ {t} : Pc(u)' = Pc(u) /\ op'[u] = op[u]
      /\ \A l \in Back(t) : l \notin {"close", "rebuild", "push", "gate", "push_with_fds", "lock", "read_fd", "send"}
  <2>1. \A u \in Thread \ {t} : Pc(u)' = Pc(u)
    BY LibraryMoves DEF Library, Moves
  <2>2. \A u \in Thread \ {t} : op'[u] = op[u]
    BY <1>1, LibraryOps DEF Library, With
  <2>3. QED
    BY <2>1, <2>2, BackFacts DEF Inside
<1>3. t # NULL
  BY ThreadFacts
<1> USE <1>1, <1>2, <1>3 DEF Writing, Moves, With
<1>4. CASE Push(t)
  <2>1. /\ Pc(t) = "push" /\ Pc(t)' \in (IF fallback THEN Back(t) ELSE {"gate"})
        /\ op'[t].parts = (IF fallback THEN <<>> ELSE op[t].parts)
    BY <1>4, LibraryMoves, LibraryOps
  <2>2. UNCHANGED locks
    BY <1>4 DEF Push
  <2>3. QED
    BY <2>1, <2>2 DEF LockInv
<1>5. CASE ReadGate(t)
  <2>1. /\ Pc(t) = "gate" /\ t # "event"
        /\ Pc(t)' \in (IF NeedsLock THEN {"lock"} ELSE {"read_fd"})
        /\ op'[t].parts = op[t].parts /\ op'[t].locked = NeedsLock
    BY <1>5, LibraryMoves, LibraryOps, EventFacts
  <2>2. UNCHANGED locks
    BY <1>5 DEF ReadGate
  <2>3. QED
    BY <2>1, <2>2 DEF LockInv
<1>6. CASE PushWithFds(t)
  <2>1. /\ Pc(t) = "push_with_fds" /\ Pc(t)' \in (IF fallback THEN Back(t) ELSE {"lock"})
        /\ ~fallback => op'[t].parts = op[t].parts /\ op'[t].locked
    BY <1>6, LibraryMoves, LibraryOps
  <2>2. UNCHANGED locks
    BY <1>6 DEF PushWithFds
  <2>3. QED
    BY <2>1, <2>2 DEF LockInv
<1>7. CASE LockData(t)
  <2>1. /\ Pc(t) = "lock" /\ Pc(t)' = "read_fd"
        /\ op'[t].parts = op[t].parts /\ op'[t].locked = op[t].locked
    BY <1>7, LibraryMoves, LibraryOps
  <2>2. data_lock = NULL /\ data_lock' = t /\ UNCHANGED state_lock
    BY <1>7 DEF LockData
  <2>3. QED
    BY <2>1, <2>2, ThreadFacts DEF LockInv
<1>8. ASSUME NEW ok \in BOOLEAN, EndPush(t, ok), UNCHANGED state_lock, Pc(t) \in Writing,
             Pc(t)' \in Back(t) \cup {"enter_fallback"}
      PROVE  LockInv'
  <2>1. data_lock' = IF op[t].locked THEN NULL ELSE data_lock
    BY <1>8 DEF EndPush
  <2>2. QED
    BY <1>8, <2>1 DEF LockInv
<1>9. CASE ReadFd(t)
  <2>1. Pc(t) = "read_fd" /\ Pc(t)' = IF data_fd = NULL THEN "enter_fallback" ELSE "send"
    BY <1>9, LibraryMoves
  <2>2. CASE data_fd = NULL
    BY <1>8, <1>9, <2>1, <2>2 DEF ReadFd
  <2>3. CASE data_fd # NULL
    <3>1. op'[t].parts = op[t].parts /\ op'[t].locked = op[t].locked
      BY <1>9, <2>3, LibraryOps
    <3>2. UNCHANGED locks
      BY <1>9, <2>3 DEF ReadFd
    <3>3. QED
      BY <2>1, <2>3, <3>1, <3>2 DEF LockInv
  <2>4. QED
    BY <2>2, <2>3
<1>10. CASE Send(t)
  <2>1. /\ Pc(t) = "send" /\ op[t].parts # <<>>
        /\ Pc(t)' \in IF Len(op[t].parts) = 1 THEN Back(t) ELSE {"send"}
    BY <1>10, LibraryMoves
  <2>2. CASE Len(op[t].parts) = 1
    BY <1>8, <1>10, <2>1, <2>2 DEF Send
  <2>3. CASE Len(op[t].parts) # 1
    <3>1. op'[t].parts = Tail(op[t].parts) /\ op'[t].locked = op[t].locked
      BY <1>10, <2>3, LibraryOps
    <3>2. Tail(op[t].parts) # <<>>
      <4>1. op[t].parts \in Parts
        BY DEF TypeOK, Op
      <4>2. QED
        BY <2>1, <2>3, <4>1, TailFacts
    <3>3. UNCHANGED locks
      BY <1>10, <2>3 DEF Send
    <3>4. QED
      BY <2>1, <2>3, <3>1, <3>2, <3>3 DEF LockInv
  <2>4. QED
    BY <2>2, <2>3
<1>11. CASE SendFails(t)
  <2>1. Pc(t) = "send" /\ Pc(t)' = "enter_fallback"
    BY <1>11, LibraryMoves
  <2>2. QED
    BY <1>8, <1>11, <2>1 DEF SendFails
<1>12. CASE EnterFallback(t)
  <2>1. Pc(t) = "enter_fallback" /\ Pc(t)' \in IF fallback THEN Back(t) ELSE {"close"}
    BY <1>12, LibraryMoves
  <2>2. state_lock = NULL /\ state_lock' = (IF fallback THEN state_lock ELSE t) /\ UNCHANGED data_lock
    BY <1>12 DEF EnterFallback, AlreadyIn
  <2>3. QED
    BY <2>1, <2>2, ThreadFacts DEF LockInv
<1>13. CASE Close(t)
  <2>1. Pc(t) = "close" /\ Pc(t)' = "rebuild"
    BY <1>13, LibraryMoves
  <2>2. data_lock = NULL /\ data_lock' = t /\ UNCHANGED state_lock
    BY <1>13 DEF Close
  <2>3. QED
    BY <2>1, <2>2, ThreadFacts DEF LockInv
<1>14. CASE Rebuild(t)
  <2>1. Pc(t) = "rebuild" /\ Pc(t)' = "on_fallback"
    BY <1>14, LibraryMoves
  <2>2. data_lock = t /\ state_lock = t
    BY <2>1 DEF LockInv
  <2>3. \A u \in Thread \ {t} : Pc(u) \notin {"close", "rebuild"} /\ ~(Pc(u) \in Writing /\ op[u].locked)
    BY <2>2 DEF LockInv
  <2>4. QED
    BY <2>1, <2>3 DEF LockInv
<1>15. CASE OnFallback(t)
  <2>1. Pc(t) = "on_fallback" /\ Pc(t)' \in Back(t)
    BY <1>15, LibraryMoves
  <2>2. UNCHANGED locks
    BY <1>15 DEF OnFallback
  <2>3. QED
    BY <2>1, <2>2 DEF LockInv
<1>16. QED
  BY <1>4, <1>5, <1>6, <1>7, <1>9, <1>10, <1>11, <1>12, <1>13, <1>14, <1>15 DEF Library

\* A thread that leaves the locks alone and starts no write.
LEMMA LocksKept ==
  ASSUME LockInv, UNCHANGED <<state_lock, data_lock>>, NEW t \in Thread,
         Pc(t)' \notin {"close", "rebuild", "push", "gate", "push_with_fds", "lock", "read_fd", "send"},
         \A u \in Thread \ {t} : Pc(u)' = Pc(u) /\ op'[u] = op[u]
  PROVE  LockInv'
BY DEF LockInv, Writing

LEMMA RenderLocks ==
  ASSUME StackInv, TypeOK, LockInv, RenderStep
  PROVE  LockInv'
<1> USE DEF gate, locks, conn, app, other, cnt
<1> DEFINE r == "render"
           Idle == Back(r) \cup {"publish", "BUFS", "INFOS", "write_index", "refresh_done", "pend", "SIGSEGV",
                                 "enter_fallback"}
<1>1. r \in Thread /\ r # "event"
  BY ThreadFacts
<1>2. \A l \in Idle : l \notin {"close", "rebuild", "push", "gate", "push_with_fds", "lock", "read_fd", "send"}
  BY BackFacts DEF Inside
<1> HIDE DEF Idle
<1>3. ASSUME \/ Select \/ Publish \/ PushDmabufs("BUFS") \/ PushDmabufs("INFOS")
             \/ Selected \/ WriteIndex \/ SetPending \/ RefreshDone
      PROVE  LockInv'
  <2>1. Pc(r)' \in Idle /\ \A u \in Thread \ {r} : Pc(u)' = Pc(u)
    BY <1>3, RenderMoves DEF Moves, Idle
  <2>2. UNCHANGED <<locks, op>>
    BY <1>3 DEF Select, Publish, PushDmabufs, Selected, WriteIndex, SetPending, RefreshDone
  <2>3. QED
    BY <1>1, <1>2, <2>1, <2>2, LocksKept
<1>4. ASSUME OnExitFallback PROVE LockInv'
  <2>1. Pc(r)' = "push" /\ \A u \in Thread \ {r} : Pc(u)' = Pc(u)
    BY <1>4, RenderMoves DEF Moves
  <2>2. op'[r].parts # <<>> /\ \A u \in Thread \ {r} : op'[u] = op[u]
    BY <1>4, OtherOps, PartFacts DEF With
  <2>3. UNCHANGED locks
    BY <1>4 DEF OnExitFallback
  <2>4. QED
    BY <1>1, <2>1, <2>2, <2>3 DEF LockInv, Writing
<1>5. ASSUME StartEventThread PROVE LockInv'
  <2>1. /\ Pc(r)' \in Idle /\ \A i \in Input : Pc(i)' = Pc(i)
        /\ Pc("event")' = Pc("event") \/ Pc("event")' = "poll"
    BY <1>5, StartMoves DEF Idle
  <2>2. UNCHANGED <<locks, op>>
    BY <1>5 DEF StartEventThread
  <2>3. QED
    BY <1>2, <2>1, <2>2, ThreadFacts DEF LockInv, Writing
<1>6. ASSUME ClipboardSync PROVE LockInv'
  <2>1. Pc(r)' \in Back(r) \cup {"push"} /\ \A u \in Thread \ {r} : Pc(u)' = Pc(u)
    BY <1>6, RenderMoves DEF Moves
  <2>2. (Pc(r)' = "push" => op'[r].parts # <<>>) /\ \A u \in Thread \ {r} : op'[u] = op[u]
    <3>1. CASE Writes(r, Clipboard)
      BY <1>1, <3>1, OpFacts, PartFacts DEF With, TypeOK
    <3>2. CASE Return(r) /\ UNCHANGED op
      <4>1. Pc(r) # "none"
        BY <1>6, RenderMoves
      <4>2. Pc(r)' \in Back(r)
        BY <1>1, <3>2, <4>1, ReturnMoves DEF Moves, Back
      <4>3. QED
        BY <3>2, <4>2, BackFacts
    <3>3. QED
      BY <1>6, <3>1, <3>2 DEF ClipboardSync
  <2>3. UNCHANGED locks
    BY <1>6 DEF ClipboardSync
  <2>4. QED
    BY <1>1, <1>2, <2>1, <2>2, <2>3 DEF LockInv, Writing, Idle
<1>7. CASE Library("render")
  BY <1>1, <1>7, LibraryLocks
<1>8. QED
  BY <1>3, <1>4, <1>5, <1>6, <1>7 DEF RenderStep

LEMMA EventLocks ==
  ASSUME StackInv, TypeOK, LockInv, EventStep
  PROVE  LockInv'
<1> USE DEF gate, locks, conn, app, other, cnt
<1> DEFINE e == "event"
           Idle == Back(e) \cup {"drop_gate", "enter_fallback"}
<1>1. e \in Thread
  BY ThreadFacts
<1>2. \A l \in Idle : l \notin {"close", "rebuild", "push", "gate", "push_with_fds", "lock", "read_fd", "send"}
  BY BackFacts DEF Inside
<1> HIDE DEF Idle
<1>3. ASSUME EventEnds \/ PollHangup \/ ResourceSent \/ DropGate
      PROVE  LockInv'
  <2>0. "none" \in Idle
    BY DEF Idle, Back
  <2>1. Pc(e)' \in Idle /\ \A u \in Thread \ {e} : Pc(u)' = Pc(u)
    BY <1>3, <2>0, EventMoves DEF Moves, Idle
  <2>2. UNCHANGED <<locks, op>>
    BY <1>3 DEF EventEnds, PollHangup, ResourceSent, DropGate
  <2>3. QED
    BY <1>1, <1>2, <2>1, <2>2, LocksKept
<1>4. ASSUME NEW s \in Service, HandleResourceRequest(s) PROVE LockInv'
  <2>1. Pc(e)' = "push_with_fds" /\ \A u \in Thread \ {e} : Pc(u)' = Pc(u)
    BY <1>4, EventMoves DEF Moves
  <2>2. op'[e].parts # <<>> /\ \A u \in Thread \ {e} : op'[u] = op[u]
    BY <1>4, OtherOps, PartFacts DEF With
  <2>3. UNCHANGED locks
    BY <1>4 DEF HandleResourceRequest
  <2>4. QED
    BY <1>1, <2>1, <2>2, <2>3 DEF LockInv, Writing
<1>5. CASE Library("event")
  BY <1>1, <1>5, LibraryLocks
<1>6. QED
  BY <1>3, <1>4, <1>5 DEF EventStep

LEMMA InputLocks ==
  ASSUME StackInv, TypeOK, LockInv, NEW i \in Input, InputEvent(i) \/ Library(i)
  PROVE  LockInv'
<1> USE DEF gate, locks, conn, app, other, cnt
<1>1. i \in Thread /\ i # "event"
  BY ThreadFacts
<1>2. ASSUME InputEvent(i) PROVE LockInv'
  <2>1. Pc(i)' = "push" /\ \A u \in Thread \ {i} : Pc(u)' = Pc(u)
    BY <1>2, InputMoves DEF Moves
  <2>2. op'[i].parts # <<>> /\ \A u \in Thread \ {i} : op'[u] = op[u]
    BY <1>2, OtherOps, PartFacts DEF With
  <2>3. UNCHANGED locks
    BY <1>2 DEF InputEvent
  <2>4. QED
    BY <1>1, <2>1, <2>2, <2>3 DEF LockInv, Writing
<1>3. QED
  BY <1>1, <1>2, LibraryLocks
-----------------------------------------------------------------------------
(* Every step keeps the teardown's invariant.                              *)

\* A step that touches neither side and takes no thread to a teardown.
LEMMA DepositKept ==
  ASSUME DepositInv, UNCHANGED <<fallback, peer, notice>>, NEW t \in Thread,
         Pc(t)' \notin {"close", "rebuild", "publish"},
         \A u \in Thread \ {t} : Pc(u)' = Pc(u)
  PROVE  DepositInv'
<1>1. Apart => Apart'
  BY DEF Apart
<1>2. Pc("render")' = "publish" => Pc("render") = "publish"
  BY ThreadFacts
<1>3. QED
  BY <1>1, <1>2 DEF DepositInv

LEMMA LibraryDeposit ==
  ASSUME StackInv, TypeOK, LockInv, DepositInv, NEW t \in Thread, Library(t)
  PROVE  DepositInv'
<1> USE DEF gate, locks, conn, app, other, cnt
<1>1. \A u \in Thread \ {t} : Pc(u)' = Pc(u)
  BY LibraryMoves DEF Library, Moves
<1>2. \A l \in Back(t) : l \notin {"close", "rebuild", "publish"}
  BY BackFacts DEF Inside
<1>3. ASSUME \/ Push(t) \/ ReadGate(t) \/ PushWithFds(t) \/ LockData(t) \/ ReadFd(t)
             \/ Send(t) \/ SendFails(t) \/ OnFallback(t)
      PROVE  DepositInv'
  <2>1. Pc(t)' \notin {"close", "rebuild", "publish"}
    <3>1. CASE Push(t) \/ ReadGate(t) \/ PushWithFds(t) \/ LockData(t)
      BY <1>2, <3>1, LibraryMoves DEF Moves
    <3>2. CASE ReadFd(t) \/ Send(t) \/ SendFails(t) \/ OnFallback(t)
      BY <1>2, <3>2, LibraryMoves DEF Moves
    <3>3. QED
      BY <1>3, <3>1, <3>2
  <2>2. UNCHANGED <<fallback, peer, notice>>
    BY <1>3 DEF Push, ReadGate, PushWithFds, LockData, ReadFd, Send, SendFails, OnFallback
  <2>3. QED
    BY <1>1, <2>1, <2>2, DepositKept
<1>4. CASE EnterFallback(t)
  <2>1. CASE fallback
    <3>1. Pc(t)' \notin {"close", "rebuild", "publish"}
      BY <1>2, <1>4, <2>1, LibraryMoves DEF Moves
    <3>2. UNCHANGED <<fallback, peer, notice>>
      BY <1>4, <2>1 DEF EnterFallback, AlreadyIn
    <3>3. QED
      BY <1>1, <3>1, <3>2, DepositKept
  <2>2. CASE ~fallback
    <3>1. Pc(t)' = "close" /\ fallback' /\ UNCHANGED <<peer, notice>>
      BY <1>4, <2>2, LibraryMoves DEF Moves, EnterFallback, AlreadyIn
    <3>2. peer \in Live /\ ~notice /\ Pc("render") # "publish" /\ Apart
      BY <2>2 DEF DepositInv, Apart
    <3>3. Pc("render")' # "publish"
      BY <1>1, <3>1, <3>2, ThreadFacts
    <3>4. \A u \in Thread \ {t} : Pc(u)' \notin {"close", "rebuild"}
      BY <1>1, <3>2 DEF Apart
    <3>5. QED
      BY <3>1, <3>2, <3>3, <3>4 DEF DepositInv
  <2>3. QED
    BY <2>1, <2>2
<1>5. ASSUME Pc(t) \in {"close", "rebuild"}
      PROVE  /\ fallback /\ ~notice /\ Pc("render") # "publish"
             /\ \A u \in Thread \ {t} : Pc(u)' \notin {"close", "rebuild"}
  <2>1. fallback /\ ~notice /\ Pc("render") # "publish"
    BY <1>5 DEF DepositInv, Apart
  <2>2. \A u \in Thread \ {t} : Pc(u) \notin {"close", "rebuild"}
    BY <1>5 DEF LockInv
  <2>3. QED
    BY <1>1, <2>1, <2>2
<1>6. CASE Close(t)
  <2>1. Pc(t) = "close" /\ Pc(t)' = "rebuild"
    BY <1>6, LibraryMoves DEF Moves
  <2>2. peer' = "none" /\ UNCHANGED <<fallback, notice>>
    BY <1>6 DEF Close
  <2>3. Pc("render")' # "publish"
    BY <1>1, <1>5, <2>1, ThreadFacts
  <2>4. QED
    BY <1>5, <2>1, <2>2, <2>3 DEF DepositInv
<1>7. CASE Rebuild(t)
  <2>1. Pc(t) = "rebuild" /\ Pc(t)' = "on_fallback"
    BY <1>7, LibraryMoves DEF Moves
  <2>2. UNCHANGED <<fallback, notice>>
    BY <1>7 DEF Rebuild
  <2>3. Pc("render")' # "publish"
    BY <1>1, <1>5, <2>1, ThreadFacts
  <2>4. QED
    BY <1>5, <2>1, <2>2, <2>3 DEF DepositInv
<1>8. QED
  BY <1>3, <1>4, <1>6, <1>7 DEF Library

LEMMA RenderDeposit ==
  ASSUME StackInv, TypeOK, LockInv, DepositInv, RenderStep
  PROVE  DepositInv'
<1> USE DEF gate, locks, conn, app, other, cnt
<1> DEFINE r == "render"
<1>1. r \in Thread /\ r # "event"
  BY ThreadFacts
<1>2. \A l \in Back(r) : l \notin {"close", "rebuild", "publish"}
  BY BackFacts DEF Inside
<1>3. CASE Select
  <2>1. \A u \in Thread \ {r} : Pc(u)' = Pc(u)
    BY <1>3, RenderMoves DEF Moves
  <2>2. UNCHANGED <<fallback, peer>>
    BY <1>3 DEF Select
  <2>3. CASE ~fallback \/ ~notice
    <3>1. Pc(r)' \in {"write_index", "refresh_done"}
      BY <1>3, <2>3, RenderMoves DEF Moves, DepositInv
    <3>2. UNCHANGED notice
      BY <1>3, <2>3 DEF Select
    <3>3. QED
      BY <1>1, <2>1, <2>2, <3>1, <3>2, DepositKept
  <2>4. CASE fallback /\ notice
    <3>1. Pc(r)' = "publish" /\ ~notice'
      BY <1>3, <2>4, RenderMoves DEF Moves, Select
    <3>2. peer \in Live /\ Apart
      BY <2>4 DEF DepositInv, Apart
    <3>3. Apart'
      BY <2>1, <3>1, <3>2 DEF Apart
    <3>4. QED
      BY <2>2, <2>4, <3>1, <3>2, <3>3 DEF DepositInv, Apart
  <2>5. QED
    BY <2>3, <2>4
<1>4. CASE Publish
  <2>1. Pc(r) = "publish" /\ Pc(r)' = "BUFS" /\ \A u \in Thread \ {r} : Pc(u)' = Pc(u)
    BY <1>4, RenderMoves DEF Moves
  <2>2. ~fallback' /\ UNCHANGED <<peer, notice>>
    BY <1>4 DEF Publish
  <2>3. peer \in Live /\ ~notice /\ Apart
    BY <2>1 DEF DepositInv
  <2>4. Apart'
    BY <2>1, <2>3 DEF Apart
  <2>5. QED
    BY <2>1, <2>2, <2>3, <2>4 DEF DepositInv, Apart
<1>5. ASSUME NEW part \in {"BUFS", "INFOS"}, PushDmabufs(part) PROVE DepositInv'
  <2>1. /\ Pc(r)' \notin {"close", "rebuild", "publish"}
        /\ \A u \in Thread \ {r} : Pc(u)' = Pc(u)
    BY <1>2, <1>5, RenderMoves DEF Moves
  <2>2. UNCHANGED <<fallback, notice>> /\ (UNCHANGED peer \/ (peer = "active" /\ peer' = "rendering"))
    BY <1>5 DEF PushDmabufs
  <2>3. CASE UNCHANGED peer
    BY <1>1, <2>1, <2>2, <2>3, DepositKept
  <2>4. CASE peer = "active" /\ peer' = "rendering"
    BY <2>1, <2>2, <2>4 DEF DepositInv, Live
  <2>5. QED
    BY <2>2, <2>3, <2>4
<1>6. ASSUME OnExitFallback \/ ClipboardSync \/ Selected \/ WriteIndex \/ SetPending \/ RefreshDone
      PROVE  DepositInv'
  <2>1. /\ Pc(r)' \notin {"close", "rebuild", "publish"}
        /\ \A u \in Thread \ {r} : Pc(u)' = Pc(u)
    BY <1>2, <1>6, RenderMoves DEF Moves
  <2>2. UNCHANGED <<fallback, peer, notice>>
    BY <1>6 DEF OnExitFallback, ClipboardSync, Selected, WriteIndex, SetPending, RefreshDone
  <2>3. QED
    BY <1>1, <2>1, <2>2, DepositKept
<1>7. CASE StartEventThread
  <2>1. /\ Pc(r)' \notin {"close", "rebuild", "publish"}
        /\ \A i \in Input : Pc(i)' = Pc(i)
        /\ Pc("event")' = Pc("event") \/ Pc("event")' = "poll"
    BY <1>2, <1>7, StartMoves
  <2>2. UNCHANGED <<fallback, peer, notice>>
    BY <1>7 DEF StartEventThread
  <2>3. \A u \in Thread : Pc(u)' = Pc(u) \/ Pc(u)' \notin {"close", "rebuild", "publish"}
    BY <2>1, ThreadFacts
  <2>4. Apart => Apart'
    BY <2>3 DEF Apart
  <2>5. QED
    BY <1>1, <2>1, <2>2, <2>3, <2>4 DEF DepositInv
<1>8. CASE Library("render")
  BY <1>1, <1>8, LibraryDeposit
<1>9. QED
  BY <1>3, <1>4, <1>5, <1>6, <1>7, <1>8 DEF RenderStep

LEMMA OtherDeposit ==
  ASSUME StackInv, TypeOK, LockInv, DepositInv,
         \/ EventStep
         \/ \E i \in Input : InputEvent(i) \/ Library(i)
         \/ HandedOut \/ ProducerGone \/ \E s \in Service : ProducerRequests(s)
  PROVE  DepositInv'
<1> USE DEF gate, locks, conn, app, other, cnt
<1> DEFINE e == "event"
<1>1. e \in Thread
  BY ThreadFacts
<1>2. \A l \in Back(e) : l \notin {"close", "rebuild", "publish"}
  BY BackFacts DEF Inside
<1>3. ASSUME EventEnds \/ PollHangup \/ (\E s \in Service : HandleResourceRequest(s)) \/ ResourceSent \/ DropGate
      PROVE  DepositInv'
  <2>1. /\ Pc(e)' \notin {"close", "rebuild", "publish"}
        /\ \A u \in Thread \ {e} : Pc(u)' = Pc(u)
    BY <1>2, <1>3, EventMoves DEF Moves
  <2>2. UNCHANGED <<fallback, peer, notice>>
    BY <1>3 DEF EventEnds, PollHangup, HandleResourceRequest, ResourceSent, DropGate
  <2>3. QED
    BY <1>1, <2>1, <2>2, DepositKept
<1>4. ASSUME NEW i \in Input, InputEvent(i) PROVE DepositInv'
  <2>1. i \in Thread /\ Pc(i)' = "push" /\ \A u \in Thread \ {i} : Pc(u)' = Pc(u)
    BY <1>4, InputMoves, ThreadFacts DEF Moves
  <2>2. UNCHANGED <<fallback, peer, notice>>
    BY <1>4 DEF InputEvent
  <2>3. QED
    BY <2>1, <2>2, DepositKept
<1>5. ASSUME HandedOut \/ ProducerGone PROVE DepositInv'
  <2>1. \A u \in Thread : Pc(u)' = Pc(u)
    BY <1>5 DEF HandedOut, ProducerGone, Pc
  <2>2. Pc("render")' = Pc("render") /\ (Apart => Apart')
    BY <2>1, ThreadFacts DEF Apart
  <2>3. \/ peer = "deposited" /\ peer' = "active" /\ notice' = TRUE /\ UNCHANGED fallback
        \/ peer \in Live /\ peer' \in Live /\ UNCHANGED <<fallback, notice>>
    BY <1>5 DEF HandedOut, ProducerGone, Live
  <2>4. QED
    BY <2>1, <2>2, <2>3 DEF DepositInv, Live
<1>6. ASSUME NEW s \in Service, ProducerRequests(s) PROVE DepositInv'
  <2>1. \A u \in Thread : Pc(u)' = Pc(u)
    BY <1>6 DEF ProducerRequests, Pc
  <2>2. Pc("render")' = Pc("render") /\ (Apart => Apart')
    BY <2>1, ThreadFacts DEF Apart
  <2>3. UNCHANGED <<fallback, peer, notice>>
    BY <1>6 DEF ProducerRequests
  <2>4. QED
    BY <2>1, <2>2, <2>3 DEF DepositInv
<1>7. QED
  BY <1>1, <1>3, <1>4, <1>5, <1>6, LibraryDeposit, ThreadFacts DEF EventStep
-----------------------------------------------------------------------------
(* Every step of the first session keeps it whole, or counts as a fault.   *)

Before == StackInv /\ TypeOK /\ LockInv /\ DepositInv

\* Nobody is in the library before the session has come, but at its door.
LEMMA AtTheDoor ==
  ASSUME Before, Whole, Coming, NEW t \in Thread
  PROVE  /\ fallback => Pc(t) \in {"none", "push", "loop", "publish"}
         /\ fallback /\ Pc(t) = "push" => t \in Input
         /\ ~fallback /\ Pc(t) \notin {"BUFS", "INFOS"} /\ t = "render" => peer = "rendering"
BY ThreadFacts DEF Coming

\* The channel is there for whoever writes.
LEMMA FirstReaches ==
  ASSUME Before, Whole, Coming
  PROVE  /\ Reaches(data_fd) <=> peer # "none" /\ peer # "gone"
         /\ Reaches(data_fd)
         /\ \A t \in Thread : Pc(t) = "send" => Reaches(op[t].fd)
BY DEF Whole, Reaches

\* While the event thread owes the descriptors nobody else writes.
LEMMA NoWriter ==
  ASSUME Before, Whole, Coming, Gate, Answer,
         wire # <<>>, wire[Len(wire)] = "RES", NEW t \in Thread \ {"event"}
  PROVE  Pc(t) \notin {"send", "BUFS", "INFOS"}
<1>1. Pc("event") = "send" /\ op["event"].service \in Service /\ requests[op["event"].service] = "read"
  BY DEF Answer
<1>2. op["event"].locked /\ data_lock = "event"
  BY <1>1, ThreadFacts DEF Before, LockInv, Writing
<1>3. data_needs_lock
  BY <1>1 DEF Gate
<1>4. Pc(t) # "send"
  BY <1>2, <1>3, ThreadFacts DEF Before, LockInv, Gate, Writing
<1>5. Pc("render") \notin {"BUFS", "INFOS"}
  BY <1>1 DEF Coming
<1>6. Pc(t) \in {"BUFS", "INFOS"} => t = "render"
  <2>1. Pc(t) \in Label(t) \cup {"none"}
    BY Rest DEF Before, Pc
  <2>2. QED
    BY <2>1 DEF Label, Inside, Below, Above
<1>7. QED
  BY <1>4, <1>5, <1>6
\* A step of one thread that changes neither the connection nor the wire.
LEMMA ThreadFirst ==
  ASSUME Before, Whole, Coming, Gate, Answer, NEW t \in Thread,
         UNCHANGED <<gate, fallback, data_fd, shm_ptr, peer, requests, wire>>,
         buffer_pending' => buffer_pending \/ peer = "rendering",
         \A u \in Thread \ {t} : Pc(u)' = Pc(u) /\ op'[u] = op[u],
         Pc(t)' \notin Failing, Pc(t)' = "send" => op'[t].fd = data_fd,
         Pc(t)' \in Writing /\ ~op'[t].locked => ~data_needs_lock,
         fallback => IF t = "render" THEN Pc(t)' \in {"loop", "publish"}
                     ELSE IF t = "event" THEN Pc(t)' = "none" ELSE Pc(t)' \in {"none", "push"},
         t = "render" => Pc(t)' \notin {"BUFS", "INFOS"} /\ (Pc(t)' = "publish" => fallback)
                         /\ (Pc(t) \in {"BUFS", "INFOS"} => fallback),
         t = "event" =>
           /\ Pc(t)' \in {"push_with_fds", "lock", "read_fd", "send"} =>
                /\ Pc(t) \in {"push_with_fds", "lock", "read_fd", "send"}
                /\ op'[t].parts = op[t].parts /\ op'[t].service = op[t].service
           /\ Pc(t)' \in {"sent", "drop_gate"} =>
                Pc(t) \in {"sent", "drop_gate"} /\ op'[t].service = op[t].service
           /\ Pc(t) = "send" => Pc(t)' = "send",
         t # "event" => op'[t].parts \in Inputs
  PROVE  FirstSession'
<1>1. Whole'
  BY DEF Whole
<1>2. Coming'
  BY ThreadFacts DEF Coming, gate
<1>3. Gate'
  BY DEF Gate, gate
<1>4. Answer'
  <2>1. CASE t = "event"
    BY <2>1, ThreadFacts DEF Answer, Pairs
  <2>2. CASE t # "event"
    BY <2>2, ThreadFacts DEF Answer, Pairs
  <2>3. QED
    BY <2>1, <2>2
<1>5. QED
  BY <1>1, <1>2, <1>3, <1>4 DEF FirstSession

LEMMA LibraryFirst ==
  ASSUME Before, Whole, Coming, Gate, Answer, NEW t \in Thread, Library(t)
  PROVE  FirstSession'
<1> USE DEF gate, locks, conn, app, other, cnt
<1>1. StackInv /\ TypeOK /\ LockInv
  BY DEF Before
<1>2. Pc(t) = "send" => op[t].parts # <<>>
  BY <1>1 DEF LockInv
<1>3. \A u \in Thread \ {t} : Pc(u)' = Pc(u) /\ op'[u] = op[u]
  <2>1. \A u \in Thread \ {t} : Pc(u)' = Pc(u)
    BY <1>1, LibraryMoves DEF Library, Moves
  <2>2. \A u \in Thread \ {t} : op'[u] = op[u]
    BY <1>1, <1>2, LibraryOps DEF Library, With
  <2>3. QED
    BY <2>1, <2>2
<1>4. /\ fallback => Pc(t) \in {"none", "push", "loop", "publish"}
      /\ fallback /\ Pc(t) = "push" => t \in Input
  BY AtTheDoor
<1>5. t # "event" => op[t].parts \in Inputs
  BY DEF Answer
<1>6. Pc(t) \notin {"enter_fallback", "close", "rebuild", "on_fallback"}
  BY DEF Whole, Failing
<1>7. CASE Push(t)
  <2>1. Pc(t) = "push" /\ t # "event"
    BY <1>1, <1>7, LibraryMoves, EventFacts
  <2>2. UNCHANGED <<gate, conn, other, wire>>
    BY <1>7 DEF Push
  <2>3. CASE fallback
    <3>1. t \in Input /\ Pc(t)' \in Back(t) /\ op'[t].parts = <<>>
      BY <1>1, <1>2, <1>4, <1>7, <2>1, <2>3, LibraryMoves, LibraryOps DEF Moves, With
    <3>2. Pc(t)' = "none" /\ <<>> \in Inputs
      BY <3>1, ThreadFacts DEF Back, Below, Inputs
    <3>3. QED
      BY <1>3, <2>2, <2>3, <3>1, <3>2, ThreadFirst, ThreadFacts DEF Failing, Writing
  <2>4. CASE ~fallback
    <3>1. Pc(t)' = "gate" /\ op'[t].parts = op[t].parts
      BY <1>1, <1>2, <1>7, <2>4, LibraryMoves, LibraryOps DEF Moves, With
    <3>2. QED
      BY <1>3, <1>5, <2>1, <2>2, <2>4, <3>1, ThreadFirst DEF Failing, Writing
  <2>5. QED
    BY <2>3, <2>4
<1>8. CASE ReadGate(t)
  <2>1. Pc(t) = "gate" /\ t # "event" /\ ~fallback
    BY <1>1, <1>4, <1>8, LibraryMoves, EventFacts
  <2>2. UNCHANGED <<gate, conn, other, wire>>
    BY <1>8 DEF ReadGate
  <2>3. /\ Pc(t)' = IF data_needs_lock THEN "lock" ELSE "read_fd"
        /\ op'[t].parts = op[t].parts
    BY <1>1, <1>2, <1>8, LibraryMoves, LibraryOps DEF Moves, With, NeedsLock
  <2>4. QED
    BY <1>3, <1>5, <2>1, <2>2, <2>3, ThreadFirst DEF Failing, Writing
<1>9. CASE PushWithFds(t)
  <2>1. Pc(t) = "push_with_fds" /\ ~fallback
    BY <1>1, <1>4, <1>9, LibraryMoves
  <2>2. UNCHANGED <<gate, conn, other, wire>>
    BY <1>9 DEF PushWithFds
  <2>3. Pc(t)' = "lock" /\ op'[t].parts = op[t].parts /\ op'[t].service = op[t].service
    BY <1>1, <1>2, <1>9, <2>1, LibraryMoves, LibraryOps DEF Moves, With
  <2>4. QED
    BY <1>3, <1>5, <2>1, <2>2, <2>3, ThreadFirst DEF Failing, Writing
<1>10. CASE LockData(t)
  <2>1. Pc(t) = "lock" /\ ~fallback /\ op[t].locked
    BY <1>1, <1>4, <1>10, LibraryMoves DEF LockInv
  <2>2. UNCHANGED <<gate, conn, other, wire>>
    BY <1>10 DEF LockData
  <2>3. /\ Pc(t)' = "read_fd" /\ op'[t].parts = op[t].parts /\ op'[t].service = op[t].service
        /\ op'[t].locked
    BY <1>1, <1>2, <1>10, <2>1, LibraryMoves, LibraryOps DEF Moves, With
  <2>4. QED
    BY <1>3, <1>5, <2>1, <2>2, <2>3, ThreadFirst DEF Failing, Writing
<1>11. CASE ReadFd(t)
  <2>1. Pc(t) = "read_fd" /\ ~fallback /\ data_fd # NULL
    BY <1>1, <1>4, <1>11, LibraryMoves DEF Whole
  <2>2. UNCHANGED <<gate, conn, other, wire>>
    BY <1>11 DEF ReadFd
  <2>3. /\ Pc(t)' = "send" /\ op'[t].parts = op[t].parts /\ op'[t].service = op[t].service
        /\ op'[t].locked = op[t].locked /\ op'[t].fd = data_fd
    BY <1>1, <1>2, <1>11, <2>1, LibraryMoves, LibraryOps DEF Moves, With
  <2>4. ~op[t].locked => ~data_needs_lock
    BY <2>1 DEF Gate, Writing
  <2>5. QED
    BY <1>3, <1>5, <2>1, <2>2, <2>3, <2>4, ThreadFirst DEF Failing, Writing
<1>12. ~SendFails(t)
  BY <1>1, FirstReaches, LibraryMoves DEF SendFails
<1>13. ~(EnterFallback(t) \/ Close(t) \/ Rebuild(t) \/ OnFallback(t))
  BY <1>1, <1>6, LibraryMoves
<1>14. CASE Send(t)
  <2> DEFINE x == Head(op[t].parts)
             n == Len(op[t].parts)
  <2>1. Pc(t) = "send" /\ ~fallback
    BY <1>1, <1>4, <1>14, LibraryMoves
  <2>2. /\ wire' = Append2(wire, x) /\ UNCHANGED <<gate, conn, peer, notice>>
        /\ requests' = IF x \in {"FDS", "NO_RES"}
                       THEN [requests EXCEPT ![op[t].service] = "answered"] ELSE requests
    BY <1>14 DEF Send
  <2>3. /\ Pc(t)' \in IF n = 1 THEN Back(t) ELSE {"send"}
        /\ n # 1 => /\ op'[t].parts = Tail(op[t].parts) /\ op'[t].fd = op[t].fd
                    /\ op'[t].locked = op[t].locked /\ op'[t].service = op[t].service
        /\ n = 1 => op'[t].parts = <<>> /\ op'[t].service = op[t].service
    BY <1>1, <1>2, <1>14, LibraryMoves, LibraryOps DEF Moves, With
  <2>4. Pc(t)' \notin Failing \cup {"publish", "BUFS", "INFOS"} /\ (Pc(t)' \in Writing => n # 1 /\ Pc(t)' = "send")
    BY <2>3, BackFacts DEF Failing, Writing, Inside
  <2>5. Whole'
    BY <1>3, <2>1, <2>2, <2>3, <2>4 DEF Whole, Writing
  <2>6. op[t].parts # <<>> /\ op[t].parts \in Parts /\ requests \in [Service -> {"none", "sent", "read", "answered"}]
    BY <1>1, <1>2, <2>1 DEF TypeOK, Op
  <2>7. t = "event" =>
          /\ op[t].service \in Service /\ requests[op[t].service] = "read" /\ op[t].parts \in Answers
          /\ n = 1 => x \in {"FDS", "NO_RES"}
          /\ n # 1 => x = "RES" /\ op'[t].parts = <<"FDS">>
          /\ op[t].parts = <<"FDS">> => x = "FDS"
    <3>1. t = "event" => op[t].service \in Service /\ requests[op[t].service] = "read" /\ op[t].parts \in Answers
      BY <2>1 DEF Answer
    <3>2. QED
      BY <2>3, <3>1, AnswerParts
  <2>8. t # "event" => x \notin {"FDS", "NO_RES", "RES"} /\ op'[t].parts \in Inputs
    <3>1. <<>> \in Inputs
      BY DEF Inputs
    <3>2. QED
      BY <1>5, <2>3, <2>6, <3>1, InputParts
  <2>9. requests' = IF t = "event" /\ n = 1 THEN [requests EXCEPT ![op[t].service] = "answered"] ELSE requests
    BY <2>2, <2>7, <2>8
  <2>10. x \in Part
    BY <2>6, TailFacts
  <2> HIDE DEF x, n
  <2>11. /\ \A s \in Service : requests'[s] = requests[s] \/ (requests[s] = "read" /\ requests'[s] = "answered")
         /\ t = "event" /\ n = 1 => requests'[op[t].service] = "answered"
         /\ t # "event" \/ n # 1 => UNCHANGED requests
    BY <2>6, <2>7, <2>9
  <2>12. Coming'
    <3>1. peer = "rendering" \/ t # "render"
      BY <2>1, AtTheDoor
    <3>2. \A s \in Service : requests'[s] # "none" => peer = "rendering"
      <4>1. \A s \in Service : requests[s] # "none" => peer = "rendering"
        BY DEF Coming
      <4>2. QED
        BY <2>11, <4>1
    <3>3. CASE t = "render"
      BY <1>3, <2>1, <2>2, <2>4, <3>1, <3>2, <3>3, ThreadFacts DEF Coming
    <3>4. CASE t # "render"
      BY <1>3, <2>1, <2>2, <2>4, <3>2, <3>4, ThreadFacts DEF Coming
    <3>5. QED
      BY <3>3, <3>4
  <2>13. Gate'
    BY <1>3, <2>1, <2>2, <2>3, <2>4, <2>6, <2>7, <2>9 DEF Gate, Writing
  <2>14. /\ wire' # <<>> /\ wire'[Len(wire')] = x
         /\ Len(wire') = 2 => wire # <<>> /\ wire'[1] = wire[Len(wire)]
    <3>1. wire \in Seq(Part) /\ Len(wire) \in 0..2
      BY <1>1 DEF TypeOK
    <3>2. LET w == Append2(wire, x) IN
          /\ w \in Seq(Part) /\ Len(w) \in 1..2 /\ w[Len(w)] = x
          /\ Len(w) = 2 => wire # <<>> /\ w[1] = wire[Len(wire)]
      BY <2>10, <3>1, WireFacts
    <3>3. \A w \in Seq(Part) : Len(w) \in 1..2 => w # <<>>
      OBVIOUS
    <3>4. QED
      BY <2>2, <3>2, <3>3
  <2>15. Answer'
    <3>1. /\ Pc("event")' \in {"push_with_fds", "lock", "read_fd", "send"} =>
               /\ op'["event"].service \in Service /\ requests'[op'["event"].service] = "read"
               /\ op'["event"].parts \in Answers
          /\ Pc("event")' \in {"sent", "drop_gate"} =>
               op'["event"].service \in Service /\ requests'[op'["event"].service] = "answered"
      <4>1. CASE t = "event" /\ n = 1
        <5>1. Pc(t)' \notin {"push_with_fds", "lock", "read_fd", "send"}
          BY <2>3, <4>1, BackFacts DEF Inside
        <5>2. QED
          BY <2>3, <2>7, <2>11, <4>1, <5>1
      <4>2. CASE t = "event" /\ n # 1
        <5>1. Pc(t)' = "send" /\ op'[t].parts \in Answers /\ UNCHANGED requests
          BY <2>3, <2>7, <2>11, <4>2 DEF Answers
        <5>2. QED
          BY <2>3, <2>7, <4>2, <5>1
      <4>3. CASE t # "event"
        <5>1. Pc("event")' = Pc("event") /\ op'["event"] = op["event"] /\ UNCHANGED requests
          BY <1>3, <2>11, <4>3, ThreadFacts
        <5>2. QED
          BY <5>1 DEF Answer
      <4>4. QED
        BY <4>1, <4>2, <4>3
    <3>2. \A u \in Thread \ {"event"} : op'[u].parts \in Inputs
      BY <1>3, <2>8 DEF Answer
    <3>3. x = "RES" => Pc("event")' = "send" /\ op'["event"].parts = <<"FDS">>
      BY <2>3, <2>7, <2>8
    <3>4. wire # <<>> /\ wire[Len(wire)] = "RES" => x = "FDS"
      BY <2>1, <2>7, NoWriter DEF Answer
    <3>5. QED
      BY <2>14, <3>1, <3>2, <3>3, <3>4 DEF Answer, Pairs
  <2>16. QED
    BY <2>5, <2>12, <2>13, <2>15 DEF FirstSession
<1>15. QED
  BY <1>7, <1>8, <1>9, <1>10, <1>11, <1>12, <1>13, <1>14 DEF Library
LEMMA RenderFirst ==
  ASSUME Before, Whole, Coming, Gate, Answer, faults = 0, faults' = 0, RenderStep
  PROVE  FirstSession'
<1> USE DEF gate, locks, conn, app, other, cnt
<1> DEFINE r == "render"
<1>1. StackInv /\ TypeOK /\ LockInv /\ DepositInv
  BY DEF Before
<1>2. r \in Thread /\ r # "event" /\ r \notin Input
  BY ThreadFacts
<1>3. /\ \A l \in Back(r) : l \notin Failing \cup Writing \cup {"publish", "BUFS", "INFOS"}
      /\ op[r].parts \in Inputs
  BY <1>2, BackFacts DEF Failing, Writing, Inside, Answer
<1>4. /\ fallback => Pc(r) \in {"loop", "publish"}
      /\ ~fallback /\ Pc(r) \notin {"BUFS", "INFOS"} => peer = "rendering"
  BY <1>2, AtTheDoor DEF Coming
<1>5. ASSUME UNCHANGED <<gate, fallback, data_fd, shm_ptr, peer, requests, wire>>,
             buffer_pending' => buffer_pending \/ peer = "rendering",
             \A u \in Thread \ {r} : Pc(u)' = Pc(u) /\ op'[u] = op[u],
             Pc(r)' \notin Failing \cup Writing \cup {"publish", "BUFS", "INFOS"},
             ~fallback, Pc(r) \notin {"BUFS", "INFOS"}, op'[r].parts \in Inputs
      PROVE  FirstSession'
  BY <1>2, <1>5, ThreadFirst, ThreadFacts DEF Writing
<1>6. CASE Select
  <2>1. UNCHANGED <<gate, locks, conn, app, op, peer, requests, wire>> /\ Pc(r) = "loop"
    BY <1>1, <1>6, RenderMoves DEF Select
  <2>2. \A u \in Thread \ {r} : Pc(u)' = Pc(u) /\ op'[u] = op[u]
    BY <1>1, <1>6, <2>1, RenderMoves DEF Moves
  <2>3. CASE ~fallback
    <3>1. Pc(r)' = "write_index"
      BY <1>1, <1>6, <2>3, RenderMoves DEF Moves
    <3>2. QED
      BY <1>3, <1>5, <2>1, <2>2, <2>3, <3>1 DEF Failing, Writing
  <2>4. CASE fallback
    <3>1. ~buffer_pending
      BY <2>4 DEF Coming
    <3>2. notice
      BY <1>6, <2>4, <3>1 DEF Select
    <3>3. Pc(r)' = "publish"
      BY <1>1, <1>6, <2>4, <3>2, RenderMoves DEF Moves
    <3>4. QED
      BY <1>2, <1>3, <2>1, <2>2, <2>4, <3>3, ThreadFirst DEF Failing, Writing
  <2>5. QED
    BY <2>3, <2>4
<1>7. CASE Publish
  <2>1. Pc(r) = "publish" /\ Pc(r)' = "BUFS" /\ \A u \in Thread \ {r} : Pc(u)' = Pc(u)
    BY <1>1, <1>7, RenderMoves DEF Moves
  <2>2. /\ ~fallback' /\ UNCHANGED <<data_fd, shm_ptr, buffer_pending, op, peer, requests, wire>>
        /\ data_needs_lock' = (Service # {}) /\ services_sent_mask' = {}
    BY <1>7 DEF Publish, Arm
  <2>3. fallback
    BY <1>1, <2>1 DEF DepositInv
  <2>4. UNCHANGED gate
    BY <2>2, <2>3 DEF Coming
  <2>5. peer = "active"
    BY <1>1, <2>1, <2>3 DEF DepositInv, Whole, Coming, Live
  <2>6. Whole'
    BY <1>2, <2>1, <2>2 DEF Whole, Failing
  <2>7. Coming'
    BY <2>1, <2>2, <2>3, <2>5 DEF Coming
  <2>8. Gate'
    BY <1>2, <2>1, <2>2, <2>4 DEF Gate, Writing
  <2>9. Answer'
    BY <1>2, <2>1, <2>2, ThreadFacts DEF Answer, Pairs
  <2>10. QED
    BY <2>6, <2>7, <2>8, <2>9 DEF FirstSession
<1>8. ASSUME NEW part \in {"BUFS", "INFOS"}, PushDmabufs(part) PROVE FirstSession'
  <2>1. Reaches(data_fd)
    BY FirstReaches
  <2>2. /\ Pc(r) = part /\ \A u \in Thread \ {r} : Pc(u)' = Pc(u)
        /\ Pc(r)' \in IF part = "BUFS" THEN {"INFOS"} ELSE Back(r)
    BY <1>1, <1>8, <2>1, RenderMoves DEF Moves
  <2>3. /\ UNCHANGED <<gate, conn, op, requests>> /\ wire' = Append2(wire, part)
        /\ peer' = IF part = "INFOS" /\ peer = "active" THEN "rendering" ELSE peer
    BY <1>8, <2>1 DEF PushDmabufs
  <2>4. ~fallback /\ peer = "active" /\ part # "RES" /\ part \in Part
    BY <2>2 DEF Coming, Part
  <2>5. Pc(r)' \notin Failing \cup Writing \cup {"publish", "BUFS"} /\ (Pc(r)' = "INFOS" <=> part = "BUFS")
    BY <1>3, <2>2 DEF Failing, Writing
  <2>6. Whole'
    BY <1>2, <2>2, <2>3, <2>4, <2>5 DEF Whole, Writing
  <2>7. Coming'
    BY <2>2, <2>3, <2>4, <2>5 DEF Coming
  <2>8. Gate'
    BY <1>2, <2>2, <2>3, <2>5 DEF Gate
  <2>9. /\ wire' # <<>> /\ wire'[Len(wire')] = part
        /\ Len(wire') = 2 => wire # <<>> /\ wire'[1] = wire[Len(wire)]
    <3>1. wire \in Seq(Part) /\ Len(wire) \in 0..2
      BY <1>1 DEF TypeOK
    <3>2. LET w == Append2(wire, part) IN
          /\ w \in Seq(Part) /\ Len(w) \in 1..2 /\ w[Len(w)] = part
          /\ Len(w) = 2 => wire # <<>> /\ w[1] = wire[Len(wire)]
      BY <2>4, <3>1, WireFacts
    <3>3. \A w \in Seq(Part) : Len(w) \in 1..2 => w # <<>>
      OBVIOUS
    <3>4. QED
      BY <2>3, <3>2, <3>3
  <2>10. ~(wire # <<>> /\ wire[Len(wire)] = "RES")
    BY <1>2, <2>2, NoWriter
  <2>11. Answer'
    <3>1. Pairs("RES", "FDS")'
      BY <2>9, <2>10 DEF Pairs
    <3>2. ~(wire' # <<>> /\ wire'[Len(wire')] = "RES")
      BY <2>4, <2>9
    <3>3. Pc("event")' = Pc("event") /\ UNCHANGED <<op, requests>>
      BY <1>2, <2>2, <2>3, ThreadFacts
    <3>4. QED
      BY <3>1, <3>2, <3>3 DEF Answer
  <2>12. QED
    BY <2>6, <2>7, <2>8, <2>11 DEF FirstSession
<1>9. ASSUME OnExitFallback \/ ClipboardSync PROVE FirstSession'
  <2>1. /\ Pc(r) \in {"on_exit_fallback", "clipboard_sync"} /\ \A u \in Thread \ {r} : Pc(u)' = Pc(u)
        /\ Pc(r)' \in {"push"} \cup Back(r)
    BY <1>1, <1>9, RenderMoves DEF Moves
  <2>2. op'[r].parts \in Inputs /\ \A u \in Thread \ {r} : op'[u] = op[u]
    <3>1. Event \in Inputs /\ Clipboard \in Inputs
      BY DEF Event, Clipboard, Inputs
    <3>2. QED
      BY <1>1, <1>3, <1>9, <3>1, OtherOps DEF With
  <2>3. UNCHANGED <<gate, conn, other, wire>>
    BY <1>9 DEF OnExitFallback, ClipboardSync
  <2>4. QED
    BY <1>3, <1>4, <1>5, <2>1, <2>2, <2>3 DEF Failing, Writing
<1>10. CASE StartEventThread
  <2>1. /\ Pc(r) = "start_event_thread" /\ Pc(r)' \in Back(r) /\ \A i \in Input : Pc(i)' = Pc(i)
        /\ Pc("event")' = Pc("event") \/ (Pc("event") = "none" /\ Pc("event")' = "poll")
    BY <1>1, <1>10, StartMoves
  <2>2. UNCHANGED <<gate, conn, op, other, wire>> /\ ~fallback
    BY <1>4, <1>10, <2>1 DEF StartEventThread
  <2>3. Pc(r)' \notin Failing \cup Writing \cup {"publish", "BUFS", "INFOS"}
    BY <1>3, <2>1
  <2>4. \A u \in Thread : Pc(u)' = Pc(u) \/ Pc(u)' \notin Failing \cup Writing
    BY <2>1, <2>3, ThreadFacts DEF Failing, Writing
  <2>5. Whole'
    BY <2>2, <2>4 DEF Whole, Writing
  <2>6. Coming'
    BY <1>4, <2>1, <2>2, <2>3 DEF Coming
  <2>7. Gate'
    BY <2>2, <2>4 DEF Gate
  <2>8. Answer'
    BY <2>1, <2>2 DEF Answer, Pairs
  <2>9. QED
    BY <2>5, <2>6, <2>7, <2>8 DEF FirstSession
<1>11. ASSUME Selected \/ WriteIndex \/ SetPending \/ RefreshDone PROVE FirstSession'
  <2>1. /\ Pc(r) \in {"selected", "write_index", "pend", "refresh_done"} /\ ~fallback /\ peer = "rendering"
        /\ \A u \in Thread \ {r} : Pc(u)' = Pc(u)
    BY <1>1, <1>4, <1>11, RenderMoves DEF Moves
  <2>2. UNCHANGED <<gate, fallback, data_fd, shm_ptr, op, other, wire>>
    BY <1>11 DEF Selected, WriteIndex, SetPending, RefreshDone
  <2>3. Pc(r)' \in {"write_index", "refresh_done", "pend"} \cup Back(r)
    <3>1. shm_ptr
      BY DEF Whole
    <3>2. CASE RefreshDone
      <4>1. Return(r)
        BY <1>1, <2>1, <3>2 DEF RefreshDone, Fault
      <4>2. Moves(r, Back(r))
        BY <1>1, <1>2, <2>1, <4>1, ReturnMoves DEF Back
      <4>3. QED
        BY <4>2 DEF Moves
    <3>3. QED
      BY <1>1, <1>11, <3>1, <3>2, RenderMoves DEF Moves
  <2>4. QED
    BY <1>3, <1>5, <2>1, <2>2, <2>3 DEF Failing, Writing
<1>12. CASE Library(r)
  BY <1>2, <1>12, LibraryFirst
<1>13. QED
  BY <1>6, <1>7, <1>8, <1>9, <1>10, <1>11, <1>12 DEF RenderStep

LEMMA EventFirst ==
  ASSUME Before, Whole, Coming, Gate, Answer, EventStep
  PROVE  FirstSession'
<1> USE DEF gate, locks, conn, app, other, cnt
<1> DEFINE e == "event"
<1>1. StackInv /\ TypeOK /\ LockInv
  BY DEF Before
<1>2. e \in Thread /\ e # "render" /\ e \notin Input
  BY ThreadFacts
<1>3. fallback => Pc(e) = "none"
  BY DEF Coming
<1>4. CASE EventEnds
  <2>1. Pc(e) = "poll" /\ Pc(e)' = "none" /\ \A u \in Thread \ {e} : Pc(u)' = Pc(u)
    BY <1>1, <1>4, EventMoves DEF Moves
  <2>2. UNCHANGED <<gate, conn, op, other, wire>>
    BY <1>4 DEF EventEnds
  <2>3. QED
    BY <1>2, <2>1, <2>2, ThreadFirst DEF Failing, Writing
<1>5. ~PollHangup
  BY DEF PollHangup, Whole
<1>6. ASSUME NEW s \in Service, HandleResourceRequest(s) PROVE FirstSession'
  <2>1. Pc(e) = "poll" /\ Pc(e)' = "push_with_fds" /\ \A u \in Thread \ {e} : Pc(u)' = Pc(u)
    BY <1>1, <1>6, EventMoves DEF Moves
  <2>2. PICK n \in 0..1 : With(e, Resource(n), op[e].fd, op[e].locked, s)
    BY <1>1, <1>6, OtherOps
  <2>3. /\ UNCHANGED <<gate, conn, peer, wire>> /\ ~fallback
        /\ requests[s] = "sent" /\ requests' = [requests EXCEPT ![s] = "read"]
        /\ requests \in [Service -> {"none", "sent", "read", "answered"}]
    BY <1>1, <1>6 DEF HandleResourceRequest, TypeOK
  <2>4. requests'[s] = "read" /\ \A x \in Service \ {s} : requests'[x] = requests[x]
    BY <2>3
  <2>5. op'[e].service = s /\ op'[e].parts \in Answers /\ \A u \in Thread \ {e} : op'[u] = op[u]
    BY <2>2 DEF With, Resource, Answers
  <2>6. Whole'
    BY <1>2, <2>1, <2>3, <2>5 DEF Whole, Failing
  <2>7. Coming'
    BY <1>2, <2>1, <2>3, <2>4, <2>5, ThreadFacts DEF Coming
  <2>8. Gate'
    <3>1. \A x \in services_sent_mask' : requests'[x] = "answered"
      <4>1. s \notin services_sent_mask
        BY <2>3 DEF Gate
      <4>2. \A x \in services_sent_mask : x \in Service /\ requests[x] = "answered"
        BY DEF Gate
      <4>3. QED
        BY <2>3, <2>4, <4>1, <4>2
    <3>2. QED
      BY <1>2, <2>1, <2>3, <2>5, <3>1 DEF Gate, Writing
  <2>9. Answer'
    <3>1. ~(wire # <<>> /\ wire[Len(wire)] = "RES")
      BY <2>1 DEF Answer
    <3>2. QED
      BY <2>1, <2>3, <2>4, <2>5, <3>1 DEF Answer, Pairs
  <2>10. QED
    BY <2>6, <2>7, <2>8, <2>9 DEF FirstSession
<1>7. CASE ResourceSent
  <2>1. Pc(e) = "sent" /\ ~fallback
    BY <1>1, <1>3, <1>7, EventMoves
  <2>2. Pc(e)' = "drop_gate" /\ \A u \in Thread \ {e} : Pc(u)' = Pc(u)
    BY <1>1, <1>7, <2>1, EventMoves DEF Moves
  <2>3. UNCHANGED <<gate, conn, op, other, wire>>
    BY <1>7 DEF ResourceSent
  <2>4. QED
    BY <1>2, <2>1, <2>2, <2>3, ThreadFirst DEF Failing, Writing
<1>8. CASE DropGate
  <2>1. /\ Pc(e) = "drop_gate" /\ Pc(e)' \in Back(e) /\ ~fallback
        /\ \A u \in Thread \ {e} : Pc(u)' = Pc(u)
    BY <1>1, <1>3, <1>8, EventMoves DEF Moves
  <2>2. /\ UNCHANGED <<conn, op, other, wire>>
        /\ services_sent_mask' = services_sent_mask \cup {op[e].service}
        /\ data_needs_lock' = (data_needs_lock /\ services_sent_mask' # Service)
    BY <1>8 DEF DropGate
  <2>3. op[e].service \in Service /\ requests[op[e].service] = "answered"
    BY <2>1 DEF Answer
  <2>4. Pc(e)' \notin Failing \cup Writing \cup {"push_with_fds", "lock"}
    BY <2>1, BackFacts DEF Failing, Writing, Inside
  <2>5. Whole'
    BY <1>2, <2>1, <2>2, <2>4 DEF Whole, Writing
  <2>6. Coming'
    BY <1>2, <2>1, <2>2, ThreadFacts DEF Coming
  <2>7. Gate'
    <3>1. services_sent_mask' \subseteq Service /\ \A x \in services_sent_mask' : requests'[x] = "answered"
      BY <2>2, <2>3 DEF Gate
    <3>2. data_needs_lock' \/ services_sent_mask' = Service
      BY <2>2, <2>3 DEF Gate
    <3>3. \A u \in Thread : Pc(u)' \in Writing /\ ~op'[u].locked => ~data_needs_lock'
      BY <2>1, <2>2, <2>4 DEF Gate
    <3>4. QED
      BY <3>1, <3>2, <3>3 DEF Gate
  <2>8. Answer'
    <3>1. ~(wire # <<>> /\ wire[Len(wire)] = "RES")
      BY <2>1 DEF Answer
    <3>2. QED
      BY <2>2, <2>3, <2>4, <3>1 DEF Answer, Pairs, Writing
  <2>9. QED
    BY <2>5, <2>6, <2>7, <2>8 DEF FirstSession
<1>9. CASE Library(e)
  BY <1>2, <1>9, LibraryFirst
<1>10. QED
  BY <1>4, <1>5, <1>6, <1>7, <1>8, <1>9 DEF EventStep

LEMMA OtherFirst ==
  ASSUME Before, Whole, Coming, Gate, Answer, faults = 0, faults' = 0,
         \/ \E i \in Input : InputEvent(i) \/ Library(i)
         \/ HandedOut \/ ProducerGone \/ \E s \in Service : ProducerRequests(s)
  PROVE  FirstSession'
<1> USE DEF gate, locks, conn, app, other, cnt
<1>1. StackInv /\ TypeOK /\ LockInv
  BY DEF Before
<1>2. ASSUME NEW i \in Input, InputEvent(i) PROVE FirstSession'
  <2>1. /\ i \in Thread /\ i # "render" /\ i # "event" /\ Pc(i)' = "push"
        /\ \A u \in Thread \ {i} : Pc(u)' = Pc(u)
    BY <1>1, <1>2, InputMoves, ThreadFacts DEF Moves
  <2>2. op'[i].parts \in Inputs /\ \A u \in Thread \ {i} : op'[u] = op[u]
    <3>1. Event \in Inputs /\ Clipboard \in Inputs
      BY DEF Event, Clipboard, Inputs
    <3>2. QED
      BY <1>1, <1>2, <3>1, OtherOps DEF With
  <2>3. UNCHANGED <<gate, conn, other, wire>>
    BY <1>2 DEF InputEvent
  <2>4. QED
    BY <2>1, <2>2, <2>3, ThreadFirst DEF Failing, Writing
<1>3. ASSUME NEW i \in Input, Library(i) PROVE FirstSession'
  BY <1>3, LibraryFirst, ThreadFacts
<1>4. ~ProducerGone
  BY <1>1 DEF ProducerGone, Fault
<1>5. ASSUME HandedOut \/ \E s \in Service : ProducerRequests(s) PROVE \A u \in Thread : Pc(u)' = Pc(u)
  BY <1>5 DEF HandedOut, ProducerRequests, Pc
<1>6. CASE HandedOut
  <2>1. UNCHANGED <<gate, conn, op, requests, wire>> /\ peer = "deposited" /\ peer' = "active"
    BY <1>6 DEF HandedOut
  <2>2. fallback
    BY <2>1 DEF Coming
  <2>3. Whole' /\ Gate' /\ Answer'
    BY <1>5, <1>6, <2>1, ThreadFacts DEF Whole, Gate, Answer, Pairs
  <2>4. Coming'
    BY <1>5, <1>6, <2>1, <2>2, ThreadFacts DEF Coming
  <2>5. QED
    BY <2>3, <2>4 DEF FirstSession
<1>7. ASSUME NEW s \in Service, ProducerRequests(s) PROVE FirstSession'
  <2>1. /\ UNCHANGED <<gate, conn, op, peer, wire>> /\ peer = "rendering"
        /\ requests[s] = "none" /\ requests' = [requests EXCEPT ![s] = "sent"]
        /\ requests \in [Service -> {"none", "sent", "read", "answered"}]
    BY <1>1, <1>7 DEF ProducerRequests, TypeOK
  <2>2. /\ requests'[s] = "sent" /\ \A x \in Service \ {s} : requests'[x] = requests[x]
        /\ \A u \in Thread : Pc(u)' = Pc(u)
    BY <1>5, <1>7, <2>1
  <2>3. Whole' /\ Coming'
    BY <2>1, <2>2, ThreadFacts DEF Whole, Coming
  <2>4. Gate'
    BY <2>1, <2>2 DEF Gate
  <2>5. Answer'
    <3>1. \A x \in Service : requests[x] \in {"read", "answered"} => requests'[x] = requests[x]
      BY <2>1, <2>2
    <3>2. QED
      BY <2>1, <2>2, <3>1, ThreadFacts DEF Answer, Pairs
  <2>6. QED
    BY <2>3, <2>4, <2>5 DEF FirstSession
<1>8. QED
  BY <1>2, <1>3, <1>4, <1>6, <1>7
-----------------------------------------------------------------------------
(* The invariant.                                                          *)

LEMMA InitInv == Init => Inv
<1> SUFFICES ASSUME Init PROVE Inv
  OBVIOUS
<1>1. /\ stack = [t \in Thread |-> IF t = "render" THEN <<"loop">> ELSE <<>>]
      /\ op = [t \in Thread |-> [parts |-> <<>>, fd |-> NULL, locked |-> FALSE, service |-> NULL]]
  BY DEF Init
<1>2. StackInv
  <2>1. Shape("render", <<"loop">>)
    <3>1. "loop" \in Label("render") /\ <<>> \in Seq(Below("render")) /\ <<"loop">> \o <<>> = <<"loop">>
      BY DEF Label, Below
    <3>2. QED
      BY <3>1, OnTop
  <2>2. \A t : Shape(t, <<>>)
    BY DEF Shape
  <2>3. QED
    BY <1>1, <2>1, <2>2 DEF StackInv
<1>3. Pc("render") = "loop" /\ \A t \in Thread \ {"render"} : Pc(t) = "none"
  BY <1>1, ThreadFacts DEF Pc
<1>4. /\ op \in [Thread -> Op]
      /\ \A t \in Thread : op[t].parts = <<>> /\ ~op[t].locked
  BY <1>1, PartFacts DEF Op
<1>5. /\ wire = <<>> /\ <<>> \in Seq(Part) /\ Len(<<>>) = 0
      /\ requests = [s \in Service |-> "none"]
  BY DEF Init
<1>6. TypeOK
  <2>1. /\ wire \in Seq(Part) /\ Len(wire) \in 0..2
        /\ requests \in [Service -> {"none", "sent", "read", "answered"}]
    BY <1>5
  <2>2. /\ fallback \in BOOLEAN /\ buffer_pending \in BOOLEAN /\ shm_ptr \in BOOLEAN
        /\ data_needs_lock \in BOOLEAN /\ event_running \in BOOLEAN /\ audio_ctx \in BOOLEAN
        /\ notice \in BOOLEAN
    BY DEF Init
  <2>3. /\ state_lock = NULL /\ data_lock = NULL /\ services_sent_mask = {} /\ data_fd \in Fd
        /\ peer = "deposited" /\ faults = 0 /\ events = 0
    BY DEF Init
  <2>4. QED
    BY <1>4, <2>1, <2>2, <2>3 DEF TypeOK
<1>7. \A t \in Thread : Pc(t) \in {"loop", "none"}
  BY <1>3
<1>8. LockInv /\ DepositInv
  BY <1>3, <1>7 DEF Init, LockInv, DepositInv, Writing
<1>9. Whole
  BY <1>7, ThreadFacts DEF Init, Whole, Failing
<1>10. Coming
  BY <1>3, <1>5, ThreadFacts DEF Init, Coming
<1>11. Gate
  BY <1>7 DEF Init, Gate, Writing
<1>12. Answer
  BY <1>3, <1>4, <1>5, ThreadFacts DEF Answer, Inputs, Pairs
<1>13. QED
  BY <1>2, <1>6, <1>8, <1>9, <1>10, <1>11, <1>12 DEF Inv, FirstSession

LEMMA NextStack ==
  ASSUME StackInv, Next
  PROVE  StackInv'
<1>1. ASSUME NEW t \in Thread, Library(t) PROVE StackInv'
  BY <1>1, LibraryMoves DEF Library, Moves
<1>2. ASSUME RenderStep PROVE StackInv'
  BY <1>1, <1>2, RenderMoves, StartMoves, ThreadFacts DEF RenderStep, Moves
<1>3. ASSUME EventStep PROVE StackInv'
  BY <1>1, <1>3, EventMoves, ThreadFacts DEF EventStep, Moves
<1>4. ASSUME NEW i \in Input, InputEvent(i) PROVE StackInv'
  BY <1>4, InputMoves DEF Moves
<1>5. ASSUME HandedOut \/ ProducerGone \/ \E s \in Service : ProducerRequests(s) PROVE StackInv'
  BY <1>5, StackUnchanged DEF HandedOut, ProducerGone, ProducerRequests, Stays
<1>6. QED
  BY <1>1, <1>2, <1>3, <1>4, <1>5, ThreadFacts DEF Next

\* Faults are counted, never forgotten.
LEMMA FaultsGrow ==
  ASSUME TypeOK, Next
  PROVE  faults' = 0 => faults = 0
<1> USE DEF cnt
<1>1. UNCHANGED faults \/ faults' = faults + 1
  <2>1. ASSUME NEW t, Library(t) PROVE UNCHANGED faults
    BY <2>1 DEF Library, Push, ReadGate, PushWithFds, LockData, ReadFd, Send, SendFails,
                EnterFallback, Close, Rebuild, OnFallback
  <2>2. ASSUME RenderStep PROVE UNCHANGED faults \/ faults' = faults + 1
    BY <2>1, <2>2 DEF RenderStep, Select, Publish, PushDmabufs, OnExitFallback, StartEventThread,
                      ClipboardSync, Selected, WriteIndex, SetPending, RefreshDone, Fault
  <2>3. ASSUME EventStep PROVE UNCHANGED faults
    BY <2>1, <2>3 DEF EventStep, EventEnds, PollHangup, HandleResourceRequest, ResourceSent, DropGate
  <2>4. QED
    BY <2>1, <2>2, <2>3 DEF Next, InputEvent, HandedOut, ProducerGone, ProducerRequests, Fault
<1>2. QED
  BY <1>1 DEF TypeOK

LEMMA NextInv == Inv /\ Next => Inv'
<1> SUFFICES ASSUME Inv, Next PROVE Inv'
  OBVIOUS
<1>1. StackInv /\ TypeOK /\ LockInv /\ DepositInv /\ Before
  BY DEF Inv, Before
<1>2. \/ RenderStep \/ EventStep
      \/ \E i \in Input : InputEvent(i) \/ Library(i)
      \/ HandedOut \/ ProducerGone \/ \E s \in Service : ProducerRequests(s)
  BY DEF Next
<1>3. StackInv'
  BY <1>1, NextStack
<1>4. TypeOK'
  BY <1>1, <1>2, RenderTypes, EventTypes, OtherTypes
<1>5. LockInv'
  <2>1. ASSUME HandedOut \/ ProducerGone \/ \E s \in Service : ProducerRequests(s) PROVE LockInv'
    <3>1. UNCHANGED <<stack, op, state_lock, data_lock>>
      BY <2>1 DEF HandedOut, ProducerGone, ProducerRequests, locks
    <3>2. QED
      BY <1>1, <3>1 DEF LockInv, Pc, Writing
  <2>2. QED
    BY <1>1, <1>2, <2>1, RenderLocks, EventLocks, InputLocks
<1>6. DepositInv'
  BY <1>1, <1>2, RenderDeposit, OtherDeposit
<1>7. FirstSession'
  <2>1. CASE faults' = 0
    <3>1. faults = 0 /\ Whole /\ Coming /\ Gate /\ Answer
      BY <1>1, <2>1, FaultsGrow DEF Inv, FirstSession
    <3>2. QED
      BY <1>1, <1>2, <2>1, <3>1, RenderFirst, EventFirst, OtherFirst
  <2>2. CASE faults' # 0
    BY <2>2 DEF FirstSession
  <2>3. QED
    BY <2>1, <2>2
<1>8. QED
  BY <1>3, <1>4, <1>5, <1>6, <1>7 DEF Inv

LEMMA StutterInv == Inv /\ UNCHANGED vars => Inv'
BY DEF Inv, vars, gate, locks, conn, app, other, cnt, StackInv, TypeOK, LockInv, DepositInv, Apart,
       FirstSession, Whole, Coming, Gate, Answer, Pairs, Pc, Writing

LEMMA SpecInv == Spec => []Inv
<1>1. Inv /\ [Next]_vars => Inv'
  BY NextInv, StutterInv
<1>2. QED
  BY <1>1, InitInv, PTL DEF Spec

-----------------------------------------------------------------------------
(* Theorems.                                                               *)

\* What struct display_ctx and struct consumer_state hold, and where the
\* threads of the library are: a call never returns into a teardown or into
\* the middle of a write (display_consumer.c, native_consumer.c).
THEOREM LibTypeCorrect == Spec => [](TypeOK /\ StackInv)
<1>1. Inv => TypeOK /\ StackInv
  BY DEF Inv
<1>2. QED
  BY <1>1, SpecInv, PTL

\* enter_fallback: whatever threads find the producer gone, and whenever, one
\* of them tears the connection down, and never a deposit whose FDS_READY is
\* still to be read.
THEOREM DepositAnsweredHolds == Spec => []DepositAnswered
<1>1. Inv => DepositAnswered
  BY AtPc DEF Inv, DepositInv, DepositAnswered, Live
<1>2. QED
  BY <1>1, SpecInv, PTL

\* push_input_event_with_fds against push_input_event: until a service's
\* descriptors are out every writer takes data_lock, and a writer that does
\* not take it finds nothing more to protect.
THEOREM ResourcesStayWhole == Spec => []ResourcesWhole
<1>1. Inv => ResourcesWhole
  BY DEF Inv, FirstSession, Answer, ResourcesWhole
<1>2. QED
  BY <1>1, SpecInv, PTL
=============================================================================
