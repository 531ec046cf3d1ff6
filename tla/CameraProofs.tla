----------------------------- MODULE CameraProofs ----------------------------
(***************************************************************************)
(* Theorems about CameraSlots.tla, for any finite set of clients and any     *)
(* bounds on frames, switches, losses and failures, and, at the end, about   *)
(* CameraNode.tla, for any number of cameras.                               *)
(*                                                                         *)
(* A client is not destroyed under a thread because its busy count is the   *)
(* number of those who hold it (HoldInv).  A slot is not packed under a     *)
(* producer because what is out of it (its READYs, its DONEs, and whoever   *)
(* copies it) is never more than the slot waits for and what was written    *)
(* off (OweInv).                                                            *)
(***************************************************************************)
EXTENDS CameraSlots, CameraNode, FiniteSetTheorems, TLAPS

-----------------------------------------------------------------------------
(* Types.                                                                  *)

Pcs      == {"idle", "wait", "sleep", "pack", "fanout", "count", "drop"}
Readers  == [pc : Pcs, slot : Slot, snap : SUBSET Client, sent : Nat]

TypeOK ==
  /\ clients \subseteq Client /\ freed \subseteq Client
  /\ busy \in [Client -> Int]
  /\ cur_slot \in Slot /\ slot_lock \in {NULL, "reader"}
  /\ slot_pending \in [Slot -> Nat] /\ written_off \in [Slot -> Nat]
  /\ ready \in [Client -> Seq(Slot)] /\ done \in [Client -> Seq(Slot)]
  /\ reader \in Readers
  /\ io_snap \subseteq Client /\ io_todo \subseteq io_snap \X {"ctrl", "stream"}
  /\ producer \in [Client -> {"none", "idle"} \cup Slot]

-----------------------------------------------------------------------------
(* Where the I/O thread and the clients' own threads are.                  *)

IoStacks ==
  {<<"loop">>, <<"dispatch">>,
   <<"start", "dispatch">>, <<"reset", "lock_cap", "open", "dispatch">>,
   <<"lock_cap", "open", "dispatch">>, <<"open", "dispatch">>,
   <<"stop", "dispatch">>, <<"lock_cap", "close", "dispatch">>, <<"close", "dispatch">>}

\* camera_free_resource, with the client held.
PutStacks ==
  {<<"stop", "put">>, <<"lock_cap", "close", "put">>, <<"close", "put">>, <<"put">>}

\* camera_release_client.
EndStacks ==
  {<<"stop", "destroy">>, <<"lock_cap", "close", "destroy">>, <<"close", "destroy">>, <<"destroy">>}

OwnStacks == {<<>>, <<"free">>} \cup PutStacks \cup EndStacks

StackInv ==
  /\ DOMAIN stack = Thread
  /\ stack["io"] \in IoStacks
  /\ \A c \in Client : stack[c] \in OwnStacks

-----------------------------------------------------------------------------
(* Who holds a client.                                                     *)

One(b) == IF b THEN 1 ELSE 0

Holders(c) == One(c \in reader.snap) + One(c \in io_snap) + One(stack[c] \in PutStacks)

HoldInv ==
  /\ \A c \in Client : busy[c] = Holders(c)
  /\ reader.pc \in {"idle", "wait", "sleep", "pack"} => reader.snap = {}
  /\ stack["io"] = <<"loop">> => io_snap = {}
  /\ clients \cap freed = {} /\ reader.snap \cap freed = {} /\ io_snap \cap freed = {}
  /\ \A c \in freed : stack[c] = <<>> /\ producer[c] = "none"
  /\ \A c \in Client : stack[c] \in EndStacks => c \notin clients /\ producer[c] = "none"
  /\ \A c \in Client : <<c, "stream">> \in io_todo => done[c] # <<>>

-----------------------------------------------------------------------------
(* What is out of a slot.                                                  *)

\* Of one client, with READYs q, copying k and DONEs z: READYs not read, a
\* copy under way, DONEs not read.
Cell == {"ready", "copy", "done"} \X Nat

Cells(q, k, z, s) ==
  {y \in Cell :
     \/ y[1] = "ready" /\ y[2] \in 1..Len(q) /\ q[y[2]] = s
     \/ y[1] = "copy"  /\ y[2] = 0 /\ k = s
     \/ y[1] = "done"  /\ y[2] \in 1..Len(z) /\ z[y[2]] = s}

Out(r, p, d, s) == {x \in Client \X Cell : x[2] \in Cells(r[x[1]], p[x[1]], d[x[1]], s)}

\* READYs that FanOut has sent and Count has not counted yet.
Uncounted(s) == IF reader.pc = "count" /\ reader.slot = s THEN reader.sent ELSE 0

Owed(s) == slot_pending[s] + written_off[s] + Uncounted(s)

OweInv ==
  /\ reader.pc \in {"pack", "fanout", "count"} => slot_pending[reader.slot] = 0
  /\ reader.pc = "count" => slot_lock = "reader"
  /\ \A s \in Slot :
       /\ IsFiniteSet(Out(ready, producer, done, s))
       /\ Cardinality(Out(ready, producer, done, s)) <= Owed(s)

-----------------------------------------------------------------------------
(* What is out: the lemmas.                                                *)

Elsewhere(c, f, g) == \A e \in Client \ {c} : f[e] = g[e]

OneToOne(A, B) == \E f \in [A -> B] : \A x, y \in A : f[x] = f[y] => x = y

\* A set that goes one to one into a finite one is finite and no larger.
LEMMA IntoFinite ==
  ASSUME NEW A, NEW B, IsFiniteSet(B), OneToOne(A, B)
  PROVE  IsFiniteSet(A) /\ Cardinality(A) <= Cardinality(B)
<1>1. PICK f \in [A -> B] : \A x, y \in A : f[x] = f[y] => x = y
  BY DEF OneToOne
<1>2. f \in Injection(A, B)
  BY <1>1 DEF Injection, IsInjective
<1> QED BY <1>2, FS_Injection

Sockets == [Client -> Seq(Slot)]
Copying == [Client -> {"none", "idle"} \cup Slot]

LEMMA SlotFacts == /\ "idle" \notin Slot /\ "none" \notin Slot
                   /\ "slot0" \in Slot /\ Slot # {}
  BY DEF Slot

\* What changes for one client, one to one, changes the whole one to one.
LEMMA OutMoves ==
  ASSUME NEW r, NEW p, NEW d, NEW r2, NEW p2, NEW d2, NEW s, NEW c \in Client, NEW M,
         Elsewhere(c, r2, r), Elsewhere(c, p2, p), Elsewhere(c, d2, d),
         OneToOne(Cells(r2[c], p2[c], d2[c], s), Cells(r[c], p[c], d[c], s) \ M),
         IsFiniteSet(Out(r, p, d, s))
  PROVE  /\ IsFiniteSet(Out(r2, p2, d2, s))
         /\ IsFiniteSet(Out(r, p, d, s) \ ({c} \X M))
         /\ Cardinality(Out(r2, p2, d2, s)) <= Cardinality(Out(r, p, d, s) \ ({c} \X M))
<1>0. PICK g \in [Cells(r2[c], p2[c], d2[c], s) -> Cells(r[c], p[c], d[c], s) \ M] :
        \A x, y \in Cells(r2[c], p2[c], d2[c], s) : g[x] = g[y] => x = y
  BY DEF OneToOne
<1> DEFINE A == Out(r2, p2, d2, s)
           B == Out(r, p, d, s) \ ({c} \X M)
           f == [x \in A |-> IF x[1] = c THEN <<c, g[x[2]]>> ELSE x]
<1>1. f \in [A -> B]
  <2> SUFFICES ASSUME NEW x \in A PROVE f[x] \in B
    OBVIOUS
  <2>1. PICK e \in Client, y \in Cell : x = <<e, y>> /\ y \in Cells(r2[e], p2[e], d2[e], s)
    BY DEF Out
  <2>2. CASE e = c
    <3>1. g[y] \in Cells(r[c], p[c], d[c], s) /\ g[y] \notin M
      BY <2>1, <2>2
    <3>2. g[y] \in Cell
      BY <3>1 DEF Cells
    <3>3. f[x] = <<c, g[y]>>
      BY <2>1, <2>2
    <3> QED BY <3>1, <3>2, <3>3 DEF Out
  <2>3. CASE e # c
    <3>1. y \in Cells(r[e], p[e], d[e], s)
      BY <2>1, <2>3 DEF Elsewhere
    <3>2. f[x] = <<e, y>>
      BY <2>1, <2>3
    <3> QED BY <3>1, <3>2, <2>3 DEF Out
  <2> QED BY <2>2, <2>3
<1>2. ASSUME NEW x \in A, NEW y \in A, f[x] = f[y] PROVE x = y
  <2>1. PICK e1 \in Client, y1 \in Cell : x = <<e1, y1>> /\ y1 \in Cells(r2[e1], p2[e1], d2[e1], s)
    BY DEF Out
  <2>2. PICK e2 \in Client, y2 \in Cell : y = <<e2, y2>> /\ y2 \in Cells(r2[e2], p2[e2], d2[e2], s)
    BY DEF Out
  <2>3. /\ f[x] = IF e1 = c THEN <<c, g[y1]>> ELSE <<e1, y1>>
        /\ f[y] = IF e2 = c THEN <<c, g[y2]>> ELSE <<e2, y2>>
    BY <2>1, <2>2
  <2> HIDE DEF f, A
  <2>4. e1 = e2
    BY <2>3, <1>2
  <2>5. CASE e1 = c
    <3>1. g[y1] = g[y2]
      BY <2>3, <2>4, <2>5, <1>2
    <3> QED BY <3>1, <2>1, <2>2, <2>4, <2>5, <1>0
  <2>6. CASE e1 # c
    BY <2>1, <2>2, <2>3, <2>4, <2>6, <1>2
  <2> QED BY <2>5, <2>6
<1>3. IsFiniteSet(B)
  BY FS_Subset
<1> HIDE DEF f, A, B
<1>4. IsFiniteSet(A) /\ Cardinality(A) <= Cardinality(B)
  BY <1>1, <1>2, <1>3, IntoFinite DEF OneToOne
<1> QED BY <1>3, <1>4 DEF A, B

\* Of one client: TakeReady moves a READY to the copy.
LEMMA CellsTaken ==
  ASSUME NEW q \in Seq(Slot), NEW z, NEW s \in Slot, q # <<>>
  PROVE  OneToOne(Cells(Tail(q), Head(q), z, s), Cells(q, "idle", z, s))
<1> DEFINE A == Cells(Tail(q), Head(q), z, s)
           B == Cells(q, "idle", z, s)
           g == [y \in A |-> IF y[1] = "ready" THEN <<"ready", y[2] + 1>>
                             ELSE IF y[1] = "copy" THEN <<"ready", 1>> ELSE y]
<1>1. /\ Len(Tail(q)) = Len(q) - 1 /\ Len(q) \in Nat /\ Len(q) >= 1 /\ Head(q) = q[1]
      /\ \A i \in 1..Len(Tail(q)) : Tail(q)[i] = q[i + 1]
  OBVIOUS
<1>2. ASSUME NEW x \in A
      PROVE  /\ g[x] \in B
             /\ \/ \E i \in Nat : i >= 1 /\ x = <<"ready", i>> /\ g[x] = <<"ready", i + 1>>
                \/ x = <<"copy", 0>> /\ g[x] = <<"ready", 1>>
                \/ \E i \in Nat : x = <<"done", i>> /\ g[x] = x
  <2>1. PICK w \in {"ready", "copy", "done"}, i \in Nat : x = <<w, i>>
    BY DEF Cells, Cell
  <2>2. CASE w = "ready"
    <3>1. i \in 1..Len(Tail(q)) /\ Tail(q)[i] = s
      BY <2>1, <2>2 DEF Cells
    <3>2. i + 1 \in Nat /\ i + 1 \in 1..Len(q) /\ q[i + 1] = s /\ i >= 1
      BY <3>1, <1>1
    <3>3. g[x] = <<"ready", i + 1>>
      BY <2>1, <2>2
    <3> HIDE DEF g
    <3>4. <<"ready", i + 1>> \in B
      BY <3>2 DEF Cells, Cell
    <3> QED BY <3>2, <3>3, <3>4, <2>1, <2>2
  <2>3. CASE w = "copy"
    <3>1. i = 0 /\ q[1] = s /\ 1 \in 1..Len(q)
      BY <2>1, <2>3, <1>1 DEF Cells
    <3>2. g[x] = <<"ready", 1>>
      BY <2>1, <2>3
    <3> HIDE DEF g
    <3>3. <<"ready", 1>> \in B
      BY <3>1 DEF Cells, Cell
    <3> QED BY <3>1, <3>2, <3>3, <2>1, <2>3
  <2>4. CASE w = "done"
    <3>1. g[x] = x
      BY <2>1, <2>4
    <3> HIDE DEF g
    <3>2. x \in B
      BY <2>1, <2>4 DEF Cells, Cell
    <3> QED BY <3>1, <3>2, <2>1, <2>4
  <2> QED BY <2>1, <2>2, <2>3, <2>4
<1>3. g \in [A -> B]
  BY <1>2
<1>4. \A x, y \in A : g[x] = g[y] => x = y
  <2> HIDE DEF g, A
  <2> QED BY <1>2
<1> HIDE DEF g, A, B
<1> QED BY <1>3, <1>4 DEF OneToOne, A, B

\* SendDone moves the copy to a DONE.
LEMMA CellsGiven ==
  ASSUME NEW q, NEW k \in Slot, NEW z \in Seq(Slot), NEW s \in Slot
  PROVE  OneToOne(Cells(q, "idle", Append(z, k), s), Cells(q, k, z, s))
<1> DEFINE n == Len(z) + 1
           A == Cells(q, "idle", Append(z, k), s)
           B == Cells(q, k, z, s)
           g == [y \in A |-> IF y = <<"done", n>> THEN <<"copy", 0>> ELSE y]
<1>1. /\ Len(Append(z, k)) = n /\ Len(z) \in Nat /\ n \in Nat /\ Append(z, k)[n] = k
      /\ \A i \in 1..Len(z) : Append(z, k)[i] = z[i]
      /\ "idle" # s
  BY SlotFacts
<1>2. ASSUME NEW x \in A
      PROVE  /\ g[x] \in B
             /\ x # <<"copy", 0>>
             /\ g[x] = IF x = <<"done", n>> THEN <<"copy", 0>> ELSE x
  <2>1. PICK w \in {"ready", "copy", "done"}, i \in Nat : x = <<w, i>>
    BY DEF Cells, Cell
  <2>2. CASE w = "ready"
    <3>1. g[x] = x /\ x # <<"copy", 0>> /\ x # <<"done", n>>
      BY <2>1, <2>2
    <3> HIDE DEF g
    <3>2. x \in B
      BY <2>1, <2>2 DEF Cells, Cell
    <3> QED BY <3>1, <3>2
  <2>3. CASE w = "copy"
    <3>1. "idle" = s
      BY <2>1, <2>3 DEF Cells
    <3> QED BY <3>1, <1>1
  <2>4. CASE w = "done" /\ i = n
    <3>1. g[x] = <<"copy", 0>> /\ x # <<"copy", 0>>
      BY <2>1, <2>4
    <3>2. k = s
      BY <2>1, <2>4, <1>1 DEF Cells
    <3> HIDE DEF g
    <3>3. <<"copy", 0>> \in B
      BY <3>2 DEF Cells, Cell
    <3> QED BY <3>1, <3>3, <2>1, <2>4
  <2>5. CASE w = "done" /\ i # n
    <3>1. g[x] = x /\ x # <<"copy", 0>> /\ x # <<"done", n>>
      BY <2>1, <2>5
    <3>2. i \in 1..n /\ Append(z, k)[i] = s
      BY <2>1, <2>5, <1>1 DEF Cells
    <3>3. i \in 1..Len(z) /\ z[i] = s
      BY <3>2, <2>5, <1>1
    <3> HIDE DEF g
    <3>4. <<"done", i>> \in B
      BY <3>3 DEF Cells, Cell
    <3> QED BY <3>1, <3>4, <2>1, <2>5
  <2> QED BY <2>1, <2>2, <2>3, <2>4, <2>5
<1>3. g \in [A -> B]
  BY <1>2
<1>4. \A x, y \in A : g[x] = g[y] => x = y
  <2> HIDE DEF g, A, n
  <2> QED BY <1>2
<1> HIDE DEF g, A, B
<1> QED BY <1>3, <1>4 DEF OneToOne, A, B

\* IoDone reads the oldest DONE.
LEMMA CellsRead ==
  ASSUME NEW q, NEW k, NEW z \in Seq(Slot), NEW s \in Slot, z # <<>>
  PROVE  OneToOne(Cells(q, k, Tail(z), s), Cells(q, k, z, s) \ {<<"done", 1>>})
<1> DEFINE A == Cells(q, k, Tail(z), s)
           B == Cells(q, k, z, s)
           g == [y \in A |-> IF y[1] = "done" THEN <<"done", y[2] + 1>> ELSE y]
<1>1. /\ Len(Tail(z)) = Len(z) - 1 /\ Len(z) \in Nat /\ Len(z) >= 1
      /\ \A i \in 1..Len(Tail(z)) : Tail(z)[i] = z[i + 1]
  OBVIOUS
<1>2. ASSUME NEW x \in A
      PROVE  /\ g[x] \in B /\ g[x] # <<"done", 1>>
             /\ \/ \E i \in Nat : i >= 1 /\ x = <<"done", i>> /\ g[x] = <<"done", i + 1>>
                \/ (\A i : x # <<"done", i>>) /\ g[x] = x
  <2>1. PICK w \in {"ready", "copy", "done"}, i \in Nat : x = <<w, i>>
    BY DEF Cells, Cell
  <2>2. CASE w = "done"
    <3>1. i \in 1..Len(Tail(z)) /\ Tail(z)[i] = s
      BY <2>1, <2>2 DEF Cells
    <3>2. i + 1 \in Nat /\ i + 1 \in 1..Len(z) /\ z[i + 1] = s /\ i >= 1 /\ i + 1 # 1
      BY <3>1, <1>1
    <3>3. g[x] = <<"done", i + 1>>
      BY <2>1, <2>2
    <3> HIDE DEF g
    <3>4. <<"done", i + 1>> \in B
      BY <3>2 DEF Cells, Cell
    <3> QED BY <3>2, <3>3, <3>4, <2>1, <2>2
  <2>3. CASE w # "done"
    <3>1. g[x] = x /\ (\A j : x # <<"done", j>>)
      BY <2>1, <2>3
    <3> HIDE DEF g
    <3>2. x \in B
      BY <2>1, <2>3 DEF Cells, Cell
    <3> QED BY <3>1, <3>2
  <2> QED BY <2>2, <2>3
<1>3. g \in [A -> B \ {<<"done", 1>>}]
  BY <1>2
<1>4. \A x, y \in A : g[x] = g[y] => x = y
  <2> HIDE DEF g, A
  <2> QED BY <1>2
<1> HIDE DEF g, A, B
<1> QED BY <1>3, <1>4 DEF OneToOne, A, B

LEMMA OutSame ==
  ASSUME NEW r, NEW p, NEW d, NEW r2, NEW p2, NEW d2, NEW s,
         \A e \in Client : Cells(r2[e], p2[e], d2[e], s) \subseteq Cells(r[e], p[e], d[e], s),
         IsFiniteSet(Out(r, p, d, s))
  PROVE  /\ IsFiniteSet(Out(r2, p2, d2, s))
         /\ Cardinality(Out(r2, p2, d2, s)) <= Cardinality(Out(r, p, d, s))
<1>1. Out(r2, p2, d2, s) \subseteq Out(r, p, d, s)
  BY DEF Out
<1> QED BY <1>1, FS_Subset

LEMMA OutTaken ==
  ASSUME NEW r \in Sockets, NEW p \in Copying, NEW d, NEW s \in Slot,
         NEW c \in Client, p[c] = "idle", r[c] # <<>>,
         NEW r2, NEW p2, r2[c] = Tail(r[c]), p2[c] = Head(r[c]),
         Elsewhere(c, r2, r), Elsewhere(c, p2, p),
         IsFiniteSet(Out(r, p, d, s))
  PROVE  /\ IsFiniteSet(Out(r2, p2, d, s))
         /\ Cardinality(Out(r2, p2, d, s)) <= Cardinality(Out(r, p, d, s))
<1>1. /\ r2[c] = Tail(r[c]) /\ p2[c] = Head(r[c]) /\ r[c] \in Seq(Slot)
      /\ Elsewhere(c, r2, r) /\ Elsewhere(c, p2, p) /\ Elsewhere(c, d, d)
  BY DEF Sockets, Elsewhere
<1>2. OneToOne(Cells(r2[c], p2[c], d[c], s), Cells(r[c], p[c], d[c], s))
  BY <1>1, CellsTaken
<1>3. OneToOne(Cells(r2[c], p2[c], d[c], s), Cells(r[c], p[c], d[c], s) \ {})
  BY <1>2
<1>4. Out(r, p, d, s) \ ({c} \X {}) = Out(r, p, d, s)
  OBVIOUS
<1>5. /\ IsFiniteSet(Out(r2, p2, d, s))
      /\ Cardinality(Out(r2, p2, d, s)) <= Cardinality(Out(r, p, d, s) \ ({c} \X {}))
  BY ONLY <1>1, <1>3, c \in Client, IsFiniteSet(Out(r, p, d, s)), OutMoves
<1> QED BY <1>4, <1>5

LEMMA OutGiven ==
  ASSUME NEW r, NEW p \in Copying, NEW d \in Sockets, NEW s \in Slot,
         NEW c \in Client, p[c] \in Slot,
         NEW p2, NEW d2, p2[c] = "idle", d2[c] = Append(d[c], p[c]),
         Elsewhere(c, p2, p), Elsewhere(c, d2, d),
         IsFiniteSet(Out(r, p, d, s))
  PROVE  /\ IsFiniteSet(Out(r, p2, d2, s))
         /\ Cardinality(Out(r, p2, d2, s)) <= Cardinality(Out(r, p, d, s))
<1>1. /\ d2[c] = Append(d[c], p[c]) /\ p2[c] = "idle" /\ d[c] \in Seq(Slot)
      /\ Elsewhere(c, r, r) /\ Elsewhere(c, p2, p) /\ Elsewhere(c, d2, d)
  BY DEF Sockets, Elsewhere
<1>2. OneToOne(Cells(r[c], p2[c], d2[c], s), Cells(r[c], p[c], d[c], s))
  BY <1>1, CellsGiven
<1>3. OneToOne(Cells(r[c], p2[c], d2[c], s), Cells(r[c], p[c], d[c], s) \ {})
  BY <1>2
<1>4. Out(r, p, d, s) \ ({c} \X {}) = Out(r, p, d, s)
  OBVIOUS
<1>5. /\ IsFiniteSet(Out(r, p2, d2, s))
      /\ Cardinality(Out(r, p2, d2, s)) <= Cardinality(Out(r, p, d, s) \ ({c} \X {}))
  BY ONLY <1>1, <1>3, c \in Client, IsFiniteSet(Out(r, p, d, s)), OutMoves
<1> QED BY <1>4, <1>5

LEMMA OutRead ==
  ASSUME NEW r, NEW p, NEW d \in Sockets, NEW s \in Slot,
         NEW c \in Client, d[c] # <<>>,
         NEW d2, d2[c] = Tail(d[c]), Elsewhere(c, d2, d),
         IsFiniteSet(Out(r, p, d, s))
  PROVE  /\ IsFiniteSet(Out(r, p, d2, s))
         /\ Cardinality(Out(r, p, d2, s)) + One(s = Head(d[c])) <= Cardinality(Out(r, p, d, s))
<1> DEFINE B == Out(r, p, d, s) \ ({c} \X {<<"done", 1>>})
           w == <<c, <<"done", 1>>>>
<1>1. /\ d2[c] = Tail(d[c]) /\ d[c] \in Seq(Slot)
      /\ Elsewhere(c, r, r) /\ Elsewhere(c, p, p) /\ Elsewhere(c, d2, d)
  BY DEF Sockets, Elsewhere
<1>2. OneToOne(Cells(r[c], p[c], d2[c], s), Cells(r[c], p[c], d[c], s) \ {<<"done", 1>>})
  BY <1>1, CellsRead
<1>3. /\ IsFiniteSet(Out(r, p, d2, s)) /\ IsFiniteSet(B)
      /\ Cardinality(Out(r, p, d2, s)) <= Cardinality(B)
  BY ONLY <1>1, <1>2, c \in Client, IsFiniteSet(Out(r, p, d, s)), OutMoves
<1>4. B = Out(r, p, d, s) \ {w}
  OBVIOUS
<1>5. Cardinality(B) = IF w \in Out(r, p, d, s)
                       THEN Cardinality(Out(r, p, d, s)) - 1 ELSE Cardinality(Out(r, p, d, s))
  <2>1. \A x : Cardinality(Out(r, p, d, s) \ {x})
                 = IF x \in Out(r, p, d, s)
                   THEN Cardinality(Out(r, p, d, s)) - 1 ELSE Cardinality(Out(r, p, d, s))
    BY ONLY IsFiniteSet(Out(r, p, d, s)), FS_RemoveElement
  <2> HIDE DEF B, w
  <2> QED BY <1>4, <2>1
<1>6. s = Head(d[c]) => w \in Out(r, p, d, s)
  <2> SUFFICES ASSUME s = Head(d[c]) PROVE w \in Out(r, p, d, s)
    OBVIOUS
  <2>1. 1 \in 1..Len(d[c]) /\ d[c][1] = s
    BY <1>1
  <2>2. <<"done", 1>> \in Cells(r[c], p[c], d[c], s)
    BY <2>1 DEF Cells, Cell
  <2>3. <<"done", 1>> \in Cell
    BY DEF Cell
  <2> QED BY <2>2, <2>3 DEF Out
<1>7. /\ Cardinality(Out(r, p, d2, s)) \in Nat /\ Cardinality(B) \in Nat
      /\ Cardinality(Out(r, p, d, s)) \in Nat
  BY <1>3, FS_CardinalityType
<1> HIDE DEF B
<1>8. CASE s = Head(d[c])
  BY <1>3, <1>5, <1>6, <1>7, <1>8 DEF One
<1>9. CASE s # Head(d[c])
  BY <1>3, <1>5, <1>7, <1>9 DEF One
<1> QED BY <1>8, <1>9

\* FanOut sends a READY of slot s0 to some of the clients in to.
LEMMA OutSent ==
  ASSUME NEW r \in Sockets, NEW p, NEW d, NEW s \in Slot, NEW s0 \in Slot,
         NEW to, to \subseteq Client, IsFiniteSet(to), NEW r2,
         \A e \in Client : r2[e] = r[e] \/ (e \in to /\ r2[e] = Append(r[e], s0)),
         IsFiniteSet(Out(r, p, d, s))
  PROVE  /\ IsFiniteSet(Out(r2, p, d, s))
         /\ Cardinality(Out(r2, p, d, s))
              <= Cardinality(Out(r, p, d, s)) + (IF s = s0 THEN Cardinality(to) ELSE 0)
<1> DEFINE new(c) == <<c, <<"ready", Len(r[c]) + 1>>>>
           N == {x \in Out(r2, p, d, s) : x \notin Out(r, p, d, s)}
           f == [x \in N |-> x[1]]
<1>1. ASSUME NEW x \in N PROVE x[1] \in to /\ s = s0 /\ x = new(x[1])
  <2>1. PICK c \in Client, y \in Cell :
          x = <<c, y>> /\ y \in Cells(r2[c], p[c], d[c], s) /\ y \notin Cells(r[c], p[c], d[c], s)
    BY DEF Out
  <2>2. PICK w \in {"ready", "copy", "done"}, i \in Nat : y = <<w, i>>
    BY DEF Cell
  <2>3. w = "ready"
    BY <2>1, <2>2 DEF Cells
  <2>4. i \in 1..Len(r2[c]) /\ r2[c][i] = s /\ ~(i \in 1..Len(r[c]) /\ r[c][i] = s)
    BY <2>1, <2>2, <2>3 DEF Cells
  <2>5. c \in to /\ r2[c] = Append(r[c], s0)
    BY <2>4
  <2>6. /\ r[c] \in Seq(Slot) /\ Len(r[c]) \in Nat /\ Len(r2[c]) = Len(r[c]) + 1
        /\ r2[c][Len(r[c]) + 1] = s0 /\ \A j \in 1..Len(r[c]) : r2[c][j] = r[c][j]
    BY <2>5 DEF Sockets
  <2>7. i = Len(r[c]) + 1 /\ s = s0
    BY <2>4, <2>6
  <2> QED BY <2>1, <2>2, <2>3, <2>5, <2>7
<1>2. f \in [N -> to]
  BY <1>1
<1>3. \A x, y \in N : f[x] = f[y] => x = y
  <2> TAKE x \in N, y \in N
  <2> HAVE f[x] = f[y]
  <2>1. x[1] = y[1]
    OBVIOUS
  <2>2. x = new(x[1]) /\ y = new(y[1])
    BY <1>1
  <2> HIDE DEF N, f
  <2> QED BY <2>1, <2>2
<1>4. IsFiniteSet(N) /\ Cardinality(N) <= Cardinality(to)
  <2>1. OneToOne(N, to)
    <3> HIDE DEF N, f
    <3> QED BY <1>2, <1>3 DEF OneToOne
  <2> HIDE DEF N
  <2> QED BY <2>1, IntoFinite
<1>5. IsFiniteSet(Out(r, p, d, s) \cup N) /\ Cardinality(Out(r, p, d, s) \cup N) <= Cardinality(Out(r, p, d, s)) + Cardinality(N)
  <2>1. Cardinality(Out(r, p, d, s) \cup N)
           = Cardinality(Out(r, p, d, s)) + Cardinality(N) - Cardinality(Out(r, p, d, s) \cap N)
    BY <1>4, FS_Union
  <2>2. Out(r, p, d, s) \cap N = {}
    OBVIOUS
  <2>3. Cardinality(Out(r, p, d, s)) \in Nat /\ Cardinality(N) \in Nat
    BY <1>4, FS_CardinalityType
  <2>4. IsFiniteSet(Out(r, p, d, s) \cup N)
    BY <1>4, FS_Union
  <2>5. Cardinality(Out(r, p, d, s) \cap N) = 0
    BY <2>2, FS_EmptySet
  <2> HIDE DEF N
  <2> QED BY <2>1, <2>3, <2>4, <2>5
<1>6. Out(r2, p, d, s) \subseteq Out(r, p, d, s) \cup N
  OBVIOUS
<1>7. IsFiniteSet(Out(r2, p, d, s)) /\ Cardinality(Out(r2, p, d, s)) <= Cardinality(Out(r, p, d, s) \cup N)
  BY <1>5, <1>6, FS_Subset
<1>8. s # s0 => N = {}
  BY <1>1
<1>9. /\ Cardinality(Out(r2, p, d, s)) \in Nat /\ Cardinality(Out(r, p, d, s)) \in Nat
      /\ Cardinality(Out(r, p, d, s) \cup N) \in Nat /\ Cardinality(N) \in Nat /\ Cardinality(to) \in Nat
  BY <1>4, <1>5, <1>7, FS_CardinalityType
<1> HIDE DEF N
<1> QED BY <1>4, <1>5, <1>7, <1>8, <1>9, FS_EmptySet

-----------------------------------------------------------------------------
(* Stacks.                                                                 *)

LEMMA ThreadFacts ==
  /\ "io" \in Thread /\ "io" \notin Client /\ \A c \in Client : c \in Thread /\ c # "io"
  /\ NULL # "reader" /\ NULL \notin Client
BY CameraAssumption DEF Thread

Labels == {"loop", "dispatch", "start", "reset", "lock_cap", "open", "stop", "close", "free",
           "put", "destroy"}

LEMMA SameSeq ==
  ASSUME NEW S, NEW v \in Seq(S), NEW w \in Seq(S), Len(v) = Len(w), \A i \in 1..Len(v) : v[i] = w[i]
  PROVE  v = w
OBVIOUS

\* Two and three labels at once.
LEMMA OnTop ==
  ASSUME NEW S, NEW l \in S, NEW m \in S, NEW o \in S
  PROVE  /\ <<>> \o <<o>> = <<o>>
         /\ <<l, m>> \o <<o>> = <<l, m, o>>
<1>1. <<>> \o <<o>> = <<o>>
  OBVIOUS
<1>2. <<l, m>> \o <<o>> = <<l, m, o>>
  <2> DEFINE v == <<l, m>> \o <<o>>
             w == <<l, m, o>>
  <2>1. v \in Seq(S) /\ Len(v) = 3 /\ v[1] = l /\ v[2] = m /\ v[3] = o
    OBVIOUS
  <2>2. w \in Seq(S) /\ Len(w) = 3 /\ w[1] = l /\ w[2] = m /\ w[3] = o
    OBVIOUS
  <2> HIDE DEF v, w
  <2>3. \A i \in 1..3 : i = 1 \/ i = 2 \/ i = 3
    OBVIOUS
  <2>4. v = w
    BY <2>1, <2>2, <2>3, SameSeq
  <2> QED BY <2>4 DEF v, w
<1> QED BY <1>1, <1>2

LEMMA ThreeOnTop ==
  ASSUME NEW l \in Labels, NEW m \in Labels, NEW n \in Labels, NEW o \in Labels
  PROVE  <<l, m, n>> \o <<o>> = <<l, m, n, o>>
<1> DEFINE v == <<l, m, n>> \o <<o>>
           w == <<l, m, n, o>>
<1>1. v \in Seq(Labels) /\ Len(v) = 4 /\ v[1] = l /\ v[2] = m /\ v[3] = n /\ v[4] = o
  OBVIOUS
<1>2. w \in Seq(Labels) /\ Len(w) = 4 /\ w[1] = l /\ w[2] = m /\ w[3] = n /\ w[4] = o
  OBVIOUS
<1> HIDE DEF v, w
<1>3. \A i \in 1..4 : i = 1 \/ i = 2 \/ i = 3 \/ i = 4
  OBVIOUS
<1>4. v = w
  BY <1>1, <1>2, <1>3, SameSeq
<1> QED BY <1>4 DEF v, w

\* What Goto leaves of each stack.
LEMMA PutFacts ==
  \A s \in PutStacks :
    /\ s # <<>> /\ s \notin EndStacks /\ s # <<"free">>
    /\ Head(s) \in {"stop", "lock_cap", "close", "put"}
    /\ Head(s) = "stop" => <<>> \o Tail(s) \in PutStacks
    /\ Head(s) = "stop" => <<"lock_cap", "close">> \o Tail(s) \in PutStacks
    /\ Head(s) \in {"lock_cap", "close"} => <<>> \o Tail(s) \in PutStacks
    /\ Head(s) = "put" => <<>> \o Tail(s) = <<>>
<1> TAKE s \in PutStacks
<1>1. CASE s = <<"stop", "put">>
  <2>1. Head(s) = "stop" /\ Tail(s) = <<"put">>
    BY <1>1
  <2>2. <<>> \o <<"put">> = <<"put">> /\ <<"lock_cap", "close">> \o <<"put">> = <<"lock_cap", "close", "put">>
    <3>1. "lock_cap" \in Labels /\ "close" \in Labels /\ "put" \in Labels
      BY DEF Labels
    <3> QED BY <3>1, OnTop
  <2> QED BY <1>1, <2>1, <2>2 DEF PutStacks, EndStacks
<1>2. CASE s = <<"lock_cap", "close", "put">>  BY <1>2 DEF PutStacks, EndStacks
<1>3. CASE s = <<"close", "put">>  BY <1>3 DEF PutStacks, EndStacks
<1>4. CASE s = <<"put">>  BY <1>4 DEF PutStacks, EndStacks
<1> QED BY <1>1, <1>2, <1>3, <1>4 DEF PutStacks

LEMMA EndFacts ==
  \A s \in EndStacks :
    /\ s # <<>> /\ s \notin PutStacks /\ s # <<"free">>
    /\ Head(s) \in {"stop", "lock_cap", "close", "destroy"}
    /\ Head(s) = "stop" => <<>> \o Tail(s) \in EndStacks
    /\ Head(s) = "stop" => <<"lock_cap", "close">> \o Tail(s) \in EndStacks
    /\ Head(s) \in {"lock_cap", "close"} => <<>> \o Tail(s) \in EndStacks
    /\ Head(s) = "destroy" => <<>> \o Tail(s) = <<>>
<1> TAKE s \in EndStacks
<1>1. CASE s = <<"stop", "destroy">>
  <2>1. Head(s) = "stop" /\ Tail(s) = <<"destroy">>
    BY <1>1
  <2>2. <<>> \o <<"destroy">> = <<"destroy">> /\ <<"lock_cap", "close">> \o <<"destroy">> = <<"lock_cap", "close", "destroy">>
    <3>1. "lock_cap" \in Labels /\ "close" \in Labels /\ "destroy" \in Labels
      BY DEF Labels
    <3> QED BY <3>1, OnTop
  <2> QED BY <1>1, <2>1, <2>2 DEF PutStacks, EndStacks
<1>2. CASE s = <<"lock_cap", "close", "destroy">>  BY <1>2 DEF PutStacks, EndStacks
<1>3. CASE s = <<"close", "destroy">>  BY <1>3 DEF PutStacks, EndStacks
<1>4. CASE s = <<"destroy">>  BY <1>4 DEF PutStacks, EndStacks
<1> QED BY <1>1, <1>2, <1>3, <1>4 DEF EndStacks

LEMMA FreeFacts ==
  /\ Head(<<"free">>) = "free" /\ <<"stop", "put">> \o Tail(<<"free">>) \in PutStacks
  /\ <<>> \o Tail(<<"free">>) = <<>>
  /\ <<>> \notin PutStacks /\ <<>> \notin EndStacks
  /\ <<"free">> \notin PutStacks /\ <<"free">> \notin EndStacks /\ <<"free">> # <<>>
  /\ <<"stop", "destroy">> \in EndStacks
BY DEF PutStacks, EndStacks

LEMMA IoFacts ==
  \A s \in IoStacks :
    /\ s # <<>>
    /\ Head(s) \in {"start", "stop", "reset", "lock_cap", "open", "close"} =>
         <<>> \o Tail(s) \in IoStacks /\ <<>> \o Tail(s) # <<"loop">>
    /\ Head(s) = "start" =>
         /\ <<"reset", "lock_cap", "open">> \o Tail(s) \in IoStacks
         /\ <<"reset", "lock_cap", "open">> \o Tail(s) # <<"loop">>
    /\ Head(s) = "stop" =>
         /\ <<"lock_cap", "close">> \o Tail(s) \in IoStacks
         /\ <<"lock_cap", "close">> \o Tail(s) # <<"loop">>
    /\ Head(s) = "loop" => s = <<"loop">> /\ <<"dispatch">> \o Tail(s) \in IoStacks
                           /\ <<"dispatch">> \o Tail(s) # <<"loop">>
    /\ Head(s) = "dispatch" =>
         /\ s # <<"loop">>
         /\ <<"loop">> \o Tail(s) = <<"loop">>
         /\ \A l \in {"start", "stop"} :
              <<l, "dispatch">> \o Tail(s) \in IoStacks /\ <<l, "dispatch">> \o Tail(s) # <<"loop">>
<1> TAKE s \in IoStacks
<1>1. CASE s = <<"loop">>  BY <1>1 DEF IoStacks
<1>2. CASE s = <<"dispatch">>  BY <1>2 DEF IoStacks
<1>3. CASE s = <<"start", "dispatch">>
  <2>1. Head(s) = "start" /\ Tail(s) = <<"dispatch">>
    BY <1>3
  <2>2. <<>> \o <<"dispatch">> = <<"dispatch">> /\ <<"reset", "lock_cap", "open">> \o <<"dispatch">> = <<"reset", "lock_cap", "open", "dispatch">>
    <3>1. "reset" \in Labels /\ "lock_cap" \in Labels /\ "open" \in Labels /\ "dispatch" \in Labels
      BY DEF Labels
    <3>2. <<>> \o <<"dispatch">> = <<"dispatch">>
      OBVIOUS
    <3>3. <<"reset", "lock_cap", "open">> \o <<"dispatch">> = <<"reset", "lock_cap", "open", "dispatch">>
      BY <3>1, ThreeOnTop
    <3> QED BY <3>2, <3>3
  <2> QED BY <1>3, <2>1, <2>2 DEF IoStacks
<1>4. CASE s = <<"reset", "lock_cap", "open", "dispatch">>  BY <1>4 DEF IoStacks
<1>5. CASE s = <<"lock_cap", "open", "dispatch">>  BY <1>5 DEF IoStacks
<1>6. CASE s = <<"open", "dispatch">>  BY <1>6 DEF IoStacks
<1>7. CASE s = <<"stop", "dispatch">>
  <2>1. Head(s) = "stop" /\ Tail(s) = <<"dispatch">>
    BY <1>7
  <2>2. <<>> \o <<"dispatch">> = <<"dispatch">> /\ <<"lock_cap", "close">> \o <<"dispatch">> = <<"lock_cap", "close", "dispatch">>
    <3>1. "lock_cap" \in Labels /\ "close" \in Labels /\ "dispatch" \in Labels
      BY DEF Labels
    <3> QED BY <3>1, OnTop
  <2> QED BY <1>7, <2>1, <2>2 DEF IoStacks
<1>8. CASE s = <<"lock_cap", "close", "dispatch">>  BY <1>8 DEF IoStacks
<1>9. CASE s = <<"close", "dispatch">>  BY <1>9 DEF IoStacks
<1> QED BY <1>1, <1>2, <1>3, <1>4, <1>5, <1>6, <1>7, <1>8, <1>9 DEF IoStacks

\* Who is inside client_start_record and client_stop_record stays of its kind.
Kept ==
  /\ DOMAIN stack' = Thread /\ stack'["io"] \in IoStacks
  /\ stack'["io"] = <<"loop">> => stack["io"] = <<"loop">>
  /\ \A c \in Client :
       /\ stack'[c] \in OwnStacks
       /\ stack'[c] \in PutStacks <=> stack[c] \in PutStacks
       /\ stack'[c] \in EndStacks => stack[c] \in EndStacks
       /\ stack[c] = <<>> => stack'[c] = <<>>

LEMMA StackUnchanged == StackInv /\ UNCHANGED stack => Kept
BY DEF StackInv, Kept

Recording == {"start", "stop", "reset", "lock_cap", "open", "close"}

\* How RecordStep moves a thread.
RecordGoto(t) ==
  \/ At(t, "start") /\ (Goto(t, <<>>) \/ Goto(t, <<"reset", "lock_cap", "open">>))
  \/ At(t, "stop") /\ (Goto(t, <<>>) \/ Goto(t, <<"lock_cap", "close">>))
  \/ \E l \in {"reset", "lock_cap", "open", "close"} : At(t, l) /\ Goto(t, <<>>)

LEMMA RecordGoes == ASSUME NEW t \in Thread, RecordStep(t) PROVE RecordGoto(t)
<1>1. CASE StartRecord(t)  BY <1>1 DEF StartRecord, RecordGoto
<1>2. CASE ResetSlots(t)  BY <1>2 DEF ResetSlots, RecordGoto
<1>3. CASE StopRecord(t)  BY <1>3 DEF StopRecord, RecordGoto
<1>4. CASE LockCap(t)  BY <1>4 DEF LockCap, RecordGoto
<1>5. CASE OpenCamera(t)  BY <1>5 DEF OpenCamera, RecordGoto
<1>6. CASE CloseCamera(t)  BY <1>6 DEF CloseCamera, RecordGoto
<1> QED BY <1>1, <1>2, <1>3, <1>4, <1>5, <1>6 DEF RecordStep

LEMMA IoRecords == ASSUME StackInv, RecordStep("io") PROVE Kept
<1>0. RecordGoto("io")
  BY RecordGoes, ThreadFacts
<1>1. \E ls : stack' = [stack EXCEPT !["io"] = ls \o Tail(@)]
               /\ ls \o Tail(stack["io"]) \in IoStacks /\ ls \o Tail(stack["io"]) # <<"loop">>
  BY <1>0, IoFacts DEF RecordGoto, At, Goto, StackInv
<1> QED BY <1>1, ThreadFacts DEF StackInv, Kept

LEMMA OwnRecords == ASSUME StackInv, NEW c \in Client, RecordStep(c) PROVE Kept
<1>0. RecordGoto(c) /\ c \in Thread /\ c # "io"
  BY RecordGoes, ThreadFacts
<1>1. stack[c] \in PutStacks \/ stack[c] \in EndStacks
  BY <1>0, FreeFacts DEF RecordGoto, At, StackInv, OwnStacks
<1>2. CASE stack[c] \in PutStacks
  <2>1. \E ls : stack' = [stack EXCEPT ![c] = ls \o Tail(@)] /\ ls \o Tail(stack[c]) \in PutStacks
    BY <1>0, <1>2, PutFacts DEF RecordGoto, At, Goto
  <2> QED BY <2>1, <1>0, <1>2, PutFacts DEF StackInv, Kept, OwnStacks
<1>3. CASE stack[c] \in EndStacks
  <2>1. \E ls : stack' = [stack EXCEPT ![c] = ls \o Tail(@)] /\ ls \o Tail(stack[c]) \in EndStacks
    BY <1>0, <1>3, EndFacts DEF RecordGoto, At, Goto
  <2> QED BY <2>1, <1>0, <1>3, EndFacts DEF StackInv, Kept, OwnStacks
<1> QED BY <1>1, <1>2, <1>3

-----------------------------------------------------------------------------
(* Who holds a client, step by step.                                       *)

LEMMA ReaderFacts ==
  \A r \in Readers :
    /\ r.pc \in Pcs /\ r.slot \in Slot /\ r.snap \subseteq Client /\ r.sent \in Nat
    /\ \A pc \in Pcs : /\ [r EXCEPT !.pc = pc] \in Readers
                       /\ [r EXCEPT !.pc = pc].pc = pc
                       /\ [r EXCEPT !.pc = pc].slot = r.slot
                       /\ [r EXCEPT !.pc = pc].snap = r.snap
                       /\ [r EXCEPT !.pc = pc].sent = r.sent
BY DEF Readers

Held == TypeOK /\ StackInv /\ HoldInv

\* A step that neither takes nor drops a client.
LEMMA HoldKept ==
  ASSUME HoldInv, Kept,
         UNCHANGED <<clients, freed, busy, io_snap>>, reader'.snap = reader.snap,
         reader'.pc \in {"idle", "wait", "sleep", "pack"} =>
           reader.pc \in {"idle", "wait", "sleep", "pack"},
         \A c \in Client : producer[c] = "none" => producer'[c] = "none",
         \A c \in Client : <<c, "stream">> \in io_todo' =>
                            <<c, "stream">> \in io_todo /\ (done[c] # <<>> => done'[c] # <<>>),
         TypeOK
  PROVE  StackInv' /\ HoldInv'
<1>1. StackInv'
  BY DEF Kept, StackInv
<1>2. \A c \in Client : busy'[c] = Holders(c)'
  BY DEF HoldInv, Kept, Holders
<1>3. /\ reader'.pc \in {"idle", "wait", "sleep", "pack"} => reader'.snap = {}
      /\ stack'["io"] = <<"loop">> => io_snap' = {}
      /\ clients' \cap freed' = {} /\ reader'.snap \cap freed' = {} /\ io_snap' \cap freed' = {}
  BY DEF HoldInv, Kept
<1>4. \A c \in freed' : stack'[c] = <<>> /\ producer'[c] = "none"
  BY DEF HoldInv, Kept, TypeOK
<1>5. \A c \in Client : stack'[c] \in EndStacks => c \notin clients' /\ producer'[c] = "none"
  BY DEF HoldInv, Kept
<1>6. \A c \in Client : <<c, "stream">> \in io_todo' => done'[c] # <<>>
  BY DEF HoldInv
<1> QED BY <1>1, <1>2, <1>3, <1>4, <1>5, <1>6 DEF HoldInv

LEMMA WriteOffTypes ==
  ASSUME TypeOK, NEW ss, WriteOff(ss)
  PROVE  slot_pending' \in [Slot -> Nat] /\ written_off' \in [Slot -> Nat]
BY DEF WriteOff, TypeOK

LEMMA ReaderKeeps ==
  ASSUME Held, Frame \/ WaitSlot \/ Reclaim
  PROVE  TypeOK' /\ StackInv' /\ HoldInv'
<1>0. TypeOK /\ StackInv /\ HoldInv /\ reader \in Readers /\ reader.pc \in {"idle", "wait", "sleep"}
  BY DEF Held, TypeOK, Frame, WaitSlot, Reclaim, Reader
<1>1. /\ UNCHANGED <<clients, freed, busy, cur_slot, slot_lock, ctrl, ready, done, stack, io_snap, io_todo, producer>>
      /\ reader' \in Readers /\ reader'.snap = reader.snap
      /\ slot_pending' \in [Slot -> Nat] /\ written_off' \in [Slot -> Nat]
  <2>1. CASE Frame
    <3>1. reader' = [reader EXCEPT !.pc = "wait", !.slot = cur_slot] /\ cur_slot \in Slot
      BY <2>1, <1>0 DEF Frame, TypeOK
    <3>2. reader' \in Readers /\ reader'.snap = reader.snap
      BY <3>1, <1>0 DEF Readers, Pcs
    <3> QED BY <2>1, <3>2, <1>0 DEF Frame, TypeOK, list, slots, sockets, prod
  <2>2. CASE WaitSlot
    <3>1. \E pc \in Pcs : reader' = [reader EXCEPT !.pc = pc]
      BY <2>2 DEF WaitSlot, Pcs
    <3> QED BY <2>2, <3>1, <1>0, ReaderFacts DEF WaitSlot, TypeOK, list, slots, sockets, prod
  <2>3. CASE Reclaim
    <3>1. reader' = [reader EXCEPT !.pc = "pack"] /\ "pack" \in Pcs
      BY <2>3 DEF Reclaim, Pcs
    <3>2. slot_pending' \in [Slot -> Nat] /\ written_off' \in [Slot -> Nat]
      BY <2>3, <1>0, WriteOffTypes DEF Reclaim
    <3> QED BY <2>3, <3>1, <3>2, <1>0, ReaderFacts DEF Reclaim, list, sockets, prod
  <2> QED BY <2>1, <2>2, <2>3
<1>2. Kept
  BY <1>0, <1>1, StackUnchanged
<1>3. TypeOK'
  BY <1>0, <1>1 DEF TypeOK
<1>4. StackInv' /\ HoldInv'
  BY <1>0, <1>1, <1>2, HoldKept
<1> QED BY <1>3, <1>4

\* A step that takes or drops clients for a snapshot, or a client for itself.
LEMMA HolderChanges ==
  ASSUME Held, StackInv', TypeOK', UNCHANGED <<clients, freed, io_todo, done, producer>>,
         \A c \in Client : busy'[c] = Holders(c)',
         reader'.pc \in {"idle", "wait", "sleep", "pack"} => reader'.snap = {},
         stack'["io"] = <<"loop">> => io_snap' = {},
         reader'.snap \subseteq reader.snap \cup clients, io_snap' = io_snap,
         \A c \in Client : stack[c] = <<>> => stack'[c] = <<>>,
         \A c \in Client : stack'[c] \in EndStacks => stack[c] \in EndStacks
  PROVE  HoldInv'
<1>1. clients' \cap freed' = {} /\ reader'.snap \cap freed' = {} /\ io_snap' \cap freed' = {}
  BY DEF HoldInv, Held
<1>2. \A c \in freed' : stack'[c] = <<>> /\ producer'[c] = "none"
  BY DEF HoldInv, Held, TypeOK
<1>3. \A c \in Client : stack'[c] \in EndStacks => c \notin clients' /\ producer'[c] = "none"
  BY DEF HoldInv, Held
<1>4. \A c \in Client : <<c, "stream">> \in io_todo' => done'[c] # <<>>
  BY DEF HoldInv, Held
<1> QED BY <1>1, <1>2, <1>3, <1>4 DEF HoldInv

LEMMA SnapshotKeeps ==
  ASSUME Held, Snapshot
  PROVE  TypeOK' /\ StackInv' /\ HoldInv'
<1>0. TypeOK /\ StackInv /\ HoldInv /\ reader \in Readers /\ reader.pc = "pack" /\ reader.snap = {}
      /\ clients \subseteq Client /\ busy \in [Client -> Int]
  BY DEF Held, TypeOK, HoldInv, Snapshot, Reader
<1>1. /\ reader' \in Readers /\ reader'.pc = "fanout" /\ reader'.snap = clients /\ reader'.slot = reader.slot
  BY <1>0 DEF Snapshot, Readers, Pcs
<1>2. /\ UNCHANGED <<clients, freed, cur_slot, slot_lock, slot_pending, written_off, ctrl, ready, done, stack,
                     io_snap, io_todo, producer>>
      /\ busy' = [c \in Client |-> IF c \in clients THEN busy[c] + 1 ELSE busy[c]]
  BY DEF Snapshot, Hold, slots, sockets, prod
<1>3. TypeOK'
  BY <1>0, <1>1, <1>2 DEF TypeOK
<1>4. StackInv' /\ UNCHANGED stack
  BY <1>0, <1>2 DEF StackInv
<1>5. \A c \in Client : busy'[c] = Holders(c)'
  BY <1>0, <1>1, <1>2 DEF HoldInv, Holders, One
<1>6. stack'["io"] = <<"loop">> => io_snap' = {}
  BY <1>0, <1>2 DEF HoldInv
<1>7. HoldInv'
  BY <1>0, <1>1, <1>2, <1>3, <1>4, <1>5, <1>6, HolderChanges
<1> QED BY <1>3, <1>4, <1>7

LEMMA CountedFacts ==
  ASSUME TypeOK
  PROVE  /\ IsFiniteSet(reader.snap \cap recording)
         /\ Counted(reader.snap \cap recording) \in Nat
<1>1. reader.snap \cap recording \subseteq Client /\ IsFiniteSet(Client)
  BY CameraAssumption, ReaderFacts DEF TypeOK
<1>2. IsFiniteSet(reader.snap \cap recording)
  BY <1>1, FS_Subset
<1> QED BY <1>2, FS_CardinalityType DEF Counted

LEMMA FanOutKeeps ==
  ASSUME Held, FanOut
  PROVE  TypeOK' /\ StackInv' /\ HoldInv'
<1> DEFINE to == reader.snap \cap recording
<1>0. TypeOK /\ StackInv /\ HoldInv /\ reader \in Readers /\ reader.pc = "fanout"
  BY DEF Held, TypeOK, FanOut, Reader
<1>1. /\ reader' \in Readers /\ reader'.pc = "count" /\ reader'.snap = reader.snap
  BY <1>0, CountedFacts DEF FanOut, Readers, Pcs
<1>2. UNCHANGED <<clients, freed, busy, cur_slot, slot_pending, written_off, ctrl, done, stack,
                  io_snap, io_todo, producer>> /\ slot_lock' = "reader"
  BY DEF FanOut, list, prod
<1>3. ready' \in [Client -> Seq(Slot)]
  <2>1. ready' = [c \in Client |-> IF c \in to /\ Len(ready[c]) < Room
                                  THEN Append(ready[c], reader.slot) ELSE ready[c]]
    BY DEF FanOut
  <2>2. \A c \in Client : ready[c] \in Seq(Slot) /\ Append(ready[c], reader.slot) \in Seq(Slot)
    BY <1>0, ReaderFacts DEF TypeOK
  <2> QED BY <2>1, <2>2
<1>4. TypeOK'
  BY <1>0, <1>1, <1>2, <1>3 DEF TypeOK
<1>5. Kept
  BY <1>0, <1>2, StackUnchanged
<1> QED BY <1>0, <1>1, <1>2, <1>4, <1>5, HoldKept

LEMMA CountKeeps ==
  ASSUME Held, Count
  PROVE  TypeOK' /\ StackInv' /\ HoldInv'
<1>0. TypeOK /\ StackInv /\ HoldInv /\ reader \in Readers /\ reader.pc = "count"
  BY DEF Held, TypeOK, Count, Reader
<1>1. /\ reader' \in Readers /\ reader'.pc = "drop" /\ reader'.snap = reader.snap
  <2>1. reader' = [reader EXCEPT !.pc = "drop"] /\ "drop" \in Pcs
    BY DEF Count, Pcs
  <2> QED BY <2>1, <1>0, ReaderFacts
<1>2. /\ UNCHANGED <<clients, freed, busy, written_off, ctrl, ready, done, stack, io_snap, io_todo, producer>>
      /\ slot_lock' = NULL /\ cur_slot' \in Slot
      /\ slot_pending' = [slot_pending EXCEPT ![reader.slot] = reader.sent]
  BY DEF Count, list, prod, sockets
<1>3. slot_pending' \in [Slot -> Nat]
  BY <1>0, <1>2, ReaderFacts DEF TypeOK
<1>4. TypeOK'
  BY <1>0, <1>1, <1>2, <1>3 DEF TypeOK
<1>5. Kept
  BY <1>0, <1>2, StackUnchanged
<1> QED BY <1>0, <1>1, <1>2, <1>4, <1>5, HoldKept

LEMMA ReleaseKeeps ==
  ASSUME Held, ReleaseSnapshot
  PROVE  TypeOK' /\ StackInv' /\ HoldInv'
<1>0. TypeOK /\ StackInv /\ HoldInv /\ busy \in [Client -> Int]
  BY DEF Held, TypeOK
<1>1. /\ reader' \in Readers /\ reader'.pc = "idle" /\ reader'.snap = {}
  BY SlotFacts DEF ReleaseSnapshot, Readers, Pcs
<1>2. /\ UNCHANGED <<clients, freed, cur_slot, slot_lock, slot_pending, written_off, ctrl, ready, done, stack,
                     io_snap, io_todo, producer>>
      /\ busy' = [c \in Client |-> IF c \in reader.snap THEN busy[c] - 1 ELSE busy[c]]
  BY DEF ReleaseSnapshot, Drop, slots, sockets, prod
<1>3. TypeOK'
  BY <1>0, <1>1, <1>2 DEF TypeOK
<1>4. StackInv' /\ UNCHANGED stack
  BY <1>0, <1>2 DEF StackInv
<1>5. \A c \in Client : busy'[c] = Holders(c)'
  BY <1>0, <1>1, <1>2 DEF HoldInv, Holders, One
<1>6. stack'["io"] = <<"loop">> => io_snap' = {}
  BY <1>0, <1>2 DEF HoldInv
<1>7. HoldInv'
  BY <1>0, <1>1, <1>2, <1>3, <1>4, <1>5, <1>6, HolderChanges
<1> QED BY <1>3, <1>4, <1>7

\* client_start_record and client_stop_record, on whichever thread.
LEMMA RecordKeeps ==
  ASSUME Held, NEW t \in Thread, RecordStep(t), Kept
  PROVE  TypeOK' /\ StackInv' /\ HoldInv'
<1>0. TypeOK /\ StackInv /\ HoldInv
  BY DEF Held
<1>1. UNCHANGED <<clients, freed, busy, ctrl, ready, done, reader, io_snap, io_todo, producer, slot_lock>>
  <2>1. CASE StartRecord(t)  BY <2>1 DEF StartRecord, list, slots, sockets, prod
  <2>2. CASE ResetSlots(t)  BY <2>2 DEF ResetSlots, list, slots, sockets, prod
  <2>3. CASE StopRecord(t)  BY <2>3 DEF StopRecord, list, slots, sockets, prod
  <2>4. CASE LockCap(t)  BY <2>4 DEF LockCap, list, slots, sockets, prod
  <2>5. CASE OpenCamera(t)  BY <2>5 DEF OpenCamera, list, slots, sockets, prod
  <2>6. CASE CloseCamera(t)  BY <2>6 DEF CloseCamera, list, slots, sockets, prod
  <2> QED BY <2>1, <2>2, <2>3, <2>4, <2>5, <2>6 DEF RecordStep
<1>2. cur_slot' \in Slot /\ slot_pending' \in [Slot -> Nat] /\ written_off' \in [Slot -> Nat]
  <2>1. CASE ResetSlots(t)
    BY <2>1, <1>0, WriteOffTypes, SlotFacts DEF ResetSlots
  <2>2. CASE UNCHANGED slots
    BY <2>2, <1>0 DEF slots, TypeOK
  <2>3. ResetSlots(t) \/ UNCHANGED slots
    BY DEF RecordStep, StartRecord, StopRecord, LockCap, OpenCamera, CloseCamera
  <2> QED BY <2>1, <2>2, <2>3
<1>3. TypeOK'
  BY <1>0, <1>1, <1>2 DEF TypeOK
<1> QED BY <1>0, <1>1, <1>3, HoldKept

LEMMA IoPollKeeps ==
  ASSUME Held, IoPoll
  PROVE  TypeOK' /\ StackInv' /\ HoldInv'
<1>0. TypeOK /\ StackInv /\ HoldInv /\ stack["io"] = <<"loop">> /\ io_snap = {}
      /\ clients \subseteq Client /\ busy \in [Client -> Int]
  <2>1. stack["io"] = <<"loop">>
    BY IoFacts DEF Held, StackInv, IoPoll, At
  <2> QED BY <2>1 DEF Held, TypeOK, HoldInv
<1>1. /\ UNCHANGED <<freed, clients, cur_slot, slot_lock, slot_pending, written_off, ready, done,
                     reader, producer>>
      /\ busy' = [c \in Client |-> IF c \in clients THEN busy[c] + 1 ELSE busy[c]]
      /\ io_snap' = clients /\ io_todo' = Readable(clients)
      /\ stack' = [stack EXCEPT !["io"] = <<"dispatch">> \o Tail(@)]
  BY DEF IoPoll, Hold, Goto, slots, sockets, prod
<1>2. io_todo' \subseteq io_snap' \X {"ctrl", "stream"}
  BY <1>1 DEF Readable
<1>3. TypeOK'
  <2>1. busy' \in [Client -> Int]
    BY <1>0, <1>1
  <2> QED BY <2>1, <1>0, <1>1, <1>2 DEF TypeOK
<1>4. /\ StackInv' /\ stack'["io"] # <<"loop">> /\ \A c \in Client : stack'[c] = stack[c]
  BY <1>0, <1>1, IoFacts, ThreadFacts DEF StackInv, IoPoll, At
<1>5. \A c \in Client : busy'[c] = Holders(c)'
  BY <1>0, <1>1, <1>4 DEF HoldInv, Holders, One
<1>6. \A c \in Client : <<c, "stream">> \in io_todo' => done'[c] # <<>>
  BY <1>1 DEF Readable
<1>7. HoldInv'
  BY <1>0, <1>1, <1>4, <1>5, <1>6 DEF HoldInv, TypeOK
<1> QED BY <1>3, <1>4, <1>7

LEMMA IoReleaseKeeps ==
  ASSUME Held, IoRelease
  PROVE  TypeOK' /\ StackInv' /\ HoldInv'
<1>0. TypeOK /\ StackInv /\ HoldInv /\ busy \in [Client -> Int] /\ io_todo = {}
  BY DEF Held, TypeOK, IoRelease
<1>1. /\ UNCHANGED <<freed, clients, cur_slot, slot_lock, slot_pending, written_off, ready, done,
                     reader, producer, io_todo>>
      /\ busy' = [c \in Client |-> IF c \in io_snap THEN busy[c] - 1 ELSE busy[c]]
      /\ io_snap' = {}
      /\ stack' = [stack EXCEPT !["io"] = <<"loop">> \o Tail(@)]
  BY DEF IoRelease, Drop, Goto, slots, sockets, prod
<1>3. TypeOK'
  <2>1. busy' \in [Client -> Int]
    BY <1>0, <1>1
  <2> QED BY <2>1, <1>0, <1>1 DEF TypeOK
<1>4. /\ StackInv' /\ \A c \in Client : stack'[c] = stack[c]
  <2>1. Head(stack["io"]) = "dispatch" /\ stack["io"] \in IoStacks /\ DOMAIN stack = Thread
    BY <1>0 DEF StackInv, IoRelease, At
  <2>2. stack'["io"] = <<"loop">> /\ <<"loop">> \in IoStacks
    BY <2>1, <1>1, IoFacts, ThreadFacts DEF IoStacks
  <2>3. DOMAIN stack' = Thread /\ \A c \in Client : stack'[c] = stack[c]
    BY <2>1, <1>1, ThreadFacts
  <2> QED BY <2>2, <2>3, <1>0 DEF StackInv
<1>5. \A c \in Client : busy'[c] = Holders(c)'
  BY <1>0, <1>1, <1>4 DEF HoldInv, Holders, One
<1>7. HoldInv'
  BY <1>0, <1>1, <1>4, <1>5 DEF HoldInv, TypeOK
<1> QED BY <1>3, <1>4, <1>7

LEMMA IoCtrlKeeps ==
  ASSUME Held, NEW c \in Client, IoCtrl(c)
  PROVE  TypeOK' /\ StackInv' /\ HoldInv'
<1>0. TypeOK /\ StackInv /\ HoldInv
  BY DEF Held
<1>1. /\ UNCHANGED <<freed, clients, busy, cur_slot, slot_lock, slot_pending, written_off, ready, done,
                     reader, producer, io_snap>>
      /\ io_todo' \subseteq io_todo
  BY DEF IoCtrl, list, slots, sockets, prod
<1>2. PICK l \in {"start", "stop"} : stack' = [stack EXCEPT !["io"] = <<l, "dispatch">> \o Tail(@)]
  BY DEF IoCtrl, Goto
<1>3. TypeOK'
  BY <1>0, <1>1 DEF TypeOK
<1>4. Kept
  BY <1>0, <1>2, IoFacts, ThreadFacts DEF StackInv, Kept, IoCtrl, At
<1> QED BY <1>0, <1>1, <1>3, <1>4, HoldKept

LEMMA IoDoneKeeps ==
  ASSUME Held, NEW c \in Client, IoDone(c)
  PROVE  TypeOK' /\ StackInv' /\ HoldInv'
<1> DEFINE s == Head(done[c])
<1>0. TypeOK /\ StackInv /\ HoldInv /\ reader \in Readers /\ <<c, "stream">> \in io_todo
  BY DEF Held, TypeOK, IoDone
<1>a. done[c] \in Seq(Slot) /\ done[c] # <<>> /\ s \in Slot /\ Tail(done[c]) \in Seq(Slot)
  BY <1>0 DEF TypeOK, HoldInv
<1>1. /\ UNCHANGED <<freed, clients, busy, cur_slot, slot_lock, ready, stack, producer, io_snap>>
      /\ io_todo' = io_todo \ {<<c, "stream">>}
      /\ done' = [done EXCEPT ![c] = Tail(@)]
  BY DEF IoDone, list, slots, sockets, prod
<1>2. /\ reader' \in Readers /\ reader'.snap = reader.snap
      /\ reader' # reader => reader.pc = "sleep"
      /\ slot_pending' \in [Slot -> Nat] /\ written_off' \in [Slot -> Nat]
  <2>1. CASE slot_pending[s] > 0
    <3>1. /\ slot_pending' = [slot_pending EXCEPT ![s] = @ - 1] /\ UNCHANGED written_off
          /\ reader' = IF Reader("sleep") /\ slot_pending[s] = 1
                       THEN [reader EXCEPT !.pc = "wait"] ELSE reader
      BY <2>1 DEF IoDone
    <3>2. slot_pending' \in [Slot -> Nat]
      BY <3>1, <2>1, <1>0, <1>a DEF TypeOK
    <3>3. "wait" \in Pcs
      BY DEF Pcs
    <3> QED BY <3>1, <3>2, <3>3, <1>0, ReaderFacts DEF TypeOK, Reader
  <2>2. CASE ~(slot_pending[s] > 0)
    <3>1. /\ written_off' = [written_off EXCEPT ![s] = IF @ > 0 THEN @ - 1 ELSE 0]
          /\ UNCHANGED <<slot_pending, reader>>
      BY <2>2 DEF IoDone
    <3> QED BY <3>1, <1>0, <1>a DEF TypeOK
  <2> QED BY <2>1, <2>2
<1>3. TypeOK'
  <2>1. done' \in [Client -> Seq(Slot)] /\ io_todo' \subseteq io_snap' \X {"ctrl", "stream"}
    BY <1>0, <1>1, <1>a DEF TypeOK
  <2> QED BY <2>1, <1>0, <1>1, <1>2 DEF TypeOK
<1>4. Kept
  BY <1>0, <1>1, StackUnchanged
<1>5. \A e \in Client : <<e, "stream">> \in io_todo' =>
                         <<e, "stream">> \in io_todo /\ (done[e] # <<>> => done'[e] # <<>>)
  BY <1>0, <1>1 DEF TypeOK
<1> QED BY <1>0, <1>1, <1>2, <1>3, <1>4, <1>5, HoldKept

LEMMA FreeKeeps ==
  ASSUME Held, NEW c \in Client, FreeResource(c)
  PROVE  TypeOK' /\ StackInv' /\ HoldInv'
<1>0. /\ TypeOK /\ StackInv /\ HoldInv /\ busy \in [Client -> Int]
      /\ stack[c] = <<"free">> /\ c \in Thread /\ c # "io"
  <2>1. stack[c] = <<"free">>
    BY PutFacts, EndFacts DEF Held, StackInv, OwnStacks, FreeResource, At
  <2> QED BY <2>1, ThreadFacts DEF Held, TypeOK
<1>1. /\ UNCHANGED <<freed, clients, cur_slot, slot_lock, slot_pending, written_off, ready, done,
                     reader, producer, io_snap, io_todo>>
  BY DEF FreeResource, slots, sockets, prod
<1>2. CASE c \in clients
  <2>1. /\ busy' = [e \in Client |-> IF e \in {c} THEN busy[e] + 1 ELSE busy[e]]
        /\ stack' = [stack EXCEPT ![c] = <<"stop", "put">> \o Tail(@)]
    BY <1>2 DEF FreeResource, Hold, Goto
  <2>2. /\ stack'[c] \in PutStacks /\ \A t \in Thread \ {c} : stack'[t] = stack[t]
        /\ DOMAIN stack' = Thread
    BY <1>0, <2>1, FreeFacts DEF StackInv
  <2>3. TypeOK'
    <3>1. busy' \in [Client -> Int]
      BY <1>0, <2>1
    <3> QED BY <3>1, <1>0, <1>1 DEF TypeOK
  <2>4. StackInv'
    BY <1>0, <2>2, ThreadFacts DEF StackInv, OwnStacks
  <2>5. \A e \in Client : busy'[e] = Holders(e)'
    <3>1. \A e \in Client \ {c} : stack'[e] = stack[e]
      BY <2>2, ThreadFacts
    <3>2. stack[c] \notin PutStacks
      BY <1>0, FreeFacts
    <3>3. busy'[c] = Holders(c)'
      BY <1>0, <1>1, <2>1, <2>2, <3>2 DEF HoldInv, Holders, One
    <3>4. \A e \in Client \ {c} : busy'[e] = Holders(e)'
      BY <1>0, <1>1, <2>1, <3>1 DEF HoldInv, Holders
    <3> QED BY <3>3, <3>4
  <2>6. /\ \A e \in Client : stack[e] = <<>> => stack'[e] = <<>>
        /\ \A e \in Client : stack'[e] \in EndStacks => stack[e] \in EndStacks
        /\ stack'["io"] = stack["io"]
    BY <1>0, <2>2, PutFacts, FreeFacts, ThreadFacts
  <2>7. HoldInv'
    BY <1>0, <1>1, <2>3, <2>4, <2>5, <2>6, HolderChanges DEF HoldInv
  <2> QED BY <2>3, <2>4, <2>7
<1>3. CASE c \notin clients
  <2>1. UNCHANGED busy /\ stack' = [stack EXCEPT ![c] = <<>> \o Tail(@)]
    BY <1>3 DEF FreeResource, Goto
  <2>2. Kept
    BY <1>0, <2>1, FreeFacts, ThreadFacts DEF StackInv, Kept, OwnStacks
  <2>3. TypeOK'
    BY <1>0, <1>1, <2>1 DEF TypeOK
  <2> QED BY <1>0, <1>1, <2>1, <2>2, <2>3, HoldKept
<1> QED BY <1>2, <1>3

LEMMA PutKeeps ==
  ASSUME Held, NEW c \in Client, PutClient(c)
  PROVE  TypeOK' /\ StackInv' /\ HoldInv'
<1>0. /\ TypeOK /\ StackInv /\ HoldInv /\ busy \in [Client -> Int]
      /\ stack[c] \in PutStacks /\ Head(stack[c]) = "put" /\ c \in Thread /\ c # "io"
  <2>1. stack[c] \in PutStacks
    BY FreeFacts, EndFacts DEF Held, StackInv, OwnStacks, PutClient, At
  <2> QED BY <2>1, ThreadFacts DEF Held, TypeOK, PutClient, At
<1>1. /\ UNCHANGED <<freed, clients, cur_slot, slot_lock, slot_pending, written_off, ready, done,
                     reader, producer, io_snap, io_todo>>
      /\ busy' = [e \in Client |-> IF e \in {c} THEN busy[e] - 1 ELSE busy[e]]
      /\ stack' = [stack EXCEPT ![c] = <<>> \o Tail(@)]
  BY DEF PutClient, Drop, Goto, slots, sockets, prod
<1>2. /\ stack'[c] = <<>> /\ \A t \in Thread \ {c} : stack'[t] = stack[t]
      /\ DOMAIN stack' = Thread
  BY <1>0, <1>1, PutFacts DEF StackInv
<1>3. TypeOK'
  <2>1. busy' \in [Client -> Int]
    BY <1>0, <1>1
  <2> QED BY <2>1, <1>0, <1>1 DEF TypeOK
<1>4. StackInv'
  BY <1>0, <1>2, ThreadFacts DEF StackInv, OwnStacks
<1>5. \A e \in Client : busy'[e] = Holders(e)'
  <2>1. \A e \in Client \ {c} : stack'[e] = stack[e]
    BY <1>2, ThreadFacts
  <2>2. stack'[c] \notin PutStacks
    BY <1>2, FreeFacts
  <2>3. busy'[c] = Holders(c)'
    BY <1>0, <1>1, <2>2 DEF HoldInv, Holders, One
  <2>4. \A e \in Client \ {c} : busy'[e] = Holders(e)'
    BY <1>0, <1>1, <2>1 DEF HoldInv, Holders
  <2> QED BY <2>3, <2>4
<1>6. /\ \A e \in Client : stack[e] = <<>> => stack'[e] = <<>>
      /\ \A e \in Client : stack'[e] \in EndStacks => stack[e] \in EndStacks
      /\ stack'["io"] = stack["io"]
  BY <1>0, <1>2, PutFacts, FreeFacts, ThreadFacts
<1>7. HoldInv'
  BY <1>0, <1>1, <1>3, <1>4, <1>5, <1>6, HolderChanges DEF HoldInv
<1> QED BY <1>3, <1>4, <1>7

\* Nobody holds a client with a busy count of 0.
LEMMA DestroyKeeps ==
  ASSUME Held, NEW c \in Client, DestroyClient(c)
  PROVE  TypeOK' /\ StackInv' /\ HoldInv'
<1>0. /\ TypeOK /\ StackInv /\ HoldInv
      /\ stack[c] \in EndStacks /\ Head(stack[c]) = "destroy" /\ c \in Thread /\ c # "io"
  <2>1. stack[c] \in EndStacks
    BY FreeFacts, PutFacts DEF Held, StackInv, OwnStacks, DestroyClient, At
  <2> QED BY <2>1, ThreadFacts DEF Held, DestroyClient, At
<1>1. /\ UNCHANGED <<clients, busy, cur_slot, slot_lock, slot_pending, written_off,
                     reader, producer, io_snap, io_todo>>
      /\ freed' = freed \cup {c}
      /\ ready' = [ready EXCEPT ![c] = <<>>] /\ done' = [done EXCEPT ![c] = <<>>]
      /\ stack' = [stack EXCEPT ![c] = <<>> \o Tail(@)]
  BY DEF DestroyClient, Goto, slots, prod
<1>2. c \notin reader.snap /\ c \notin io_snap
  <2>1. Holders(c) = 0
    BY <1>0 DEF DestroyClient, NoneBusy, HoldInv
  <2> QED BY <2>1 DEF Holders, One
<1>3. /\ stack'[c] = <<>> /\ \A t \in Thread \ {c} : stack'[t] = stack[t]
      /\ DOMAIN stack' = Thread
  BY <1>0, <1>1, EndFacts DEF StackInv
<1>4. TypeOK'
  BY <1>0, <1>1 DEF TypeOK
<1>5. StackInv'
  BY <1>0, <1>3, ThreadFacts DEF StackInv, OwnStacks
<1>6. \A e \in Client \ {c} : stack'[e] = stack[e] /\ done'[e] = done[e]
  BY <1>0, <1>1, <1>3, ThreadFacts DEF TypeOK
<1>7. \A e \in Client : busy'[e] = Holders(e)'
  <2>1. stack'[c] \notin PutStacks /\ stack[c] \notin PutStacks
    BY <1>0, <1>3, FreeFacts, EndFacts
  <2>2. busy'[c] = Holders(c)'
    BY <1>0, <1>1, <2>1 DEF HoldInv, Holders, One
  <2>3. \A e \in Client \ {c} : busy'[e] = Holders(e)'
    BY <1>0, <1>1, <1>6 DEF HoldInv, Holders
  <2> QED BY <2>2, <2>3
<1>8. clients' \cap freed' = {} /\ reader'.snap \cap freed' = {} /\ io_snap' \cap freed' = {}
  BY <1>0, <1>1, <1>2 DEF HoldInv
<1>9. \A e \in freed' : stack'[e] = <<>> /\ producer'[e] = "none"
  BY <1>0, <1>1, <1>3, <1>6 DEF HoldInv, TypeOK
<1>10. \A e \in Client : stack'[e] \in EndStacks => e \notin clients' /\ producer'[e] = "none"
  BY <1>0, <1>1, <1>3, <1>6, FreeFacts DEF HoldInv
<1>11. \A e \in Client : <<e, "stream">> \in io_todo' => done'[e] # <<>>
  BY <1>0, <1>1, <1>2, <1>6 DEF HoldInv, TypeOK
<1>12. stack'["io"] = <<"loop">> => io_snap' = {}
  BY <1>0, <1>1, <1>3, ThreadFacts DEF HoldInv
<1> QED BY <1>0, <1>1, <1>4, <1>5, <1>7, <1>8, <1>9, <1>10, <1>11, <1>12 DEF HoldInv

LEMMA ReleaseClientKeeps ==
  ASSUME Held, NEW c \in Client, ReleaseClient(c)
  PROVE  TypeOK' /\ StackInv' /\ HoldInv'
<1>0. TypeOK /\ StackInv /\ HoldInv /\ stack[c] = <<>> /\ c \in clients /\ c \in Thread /\ c # "io"
  BY ThreadFacts DEF Held, ReleaseClient
<1>1. /\ UNCHANGED <<freed, busy, cur_slot, slot_lock, slot_pending, written_off, ready, done,
                     reader, io_snap, io_todo>>
      /\ clients' = clients \ {c}
      /\ producer' = [producer EXCEPT ![c] = "none"]
      /\ stack' = [stack EXCEPT ![c] = <<"stop", "destroy">>]
  BY DEF ReleaseClient, slots, sockets
<1>2. /\ stack'[c] = <<"stop", "destroy">> /\ \A t \in Thread \ {c} : stack'[t] = stack[t]
      /\ DOMAIN stack' = Thread
      /\ stack'[c] \in EndStacks /\ stack'[c] \notin PutStacks /\ stack[c] \notin PutStacks
  BY <1>0, <1>1, FreeFacts, EndFacts DEF StackInv
<1>3. TypeOK'
  <2>1. producer' \in [Client -> {"none", "idle"} \cup Slot]
    BY <1>0, <1>1 DEF TypeOK
  <2> QED BY <1>0, <1>1, <2>1 DEF TypeOK
<1>4. StackInv'
  BY <1>0, <1>2, ThreadFacts DEF StackInv, OwnStacks
<1>5. /\ \A e \in Client \ {c} : stack'[e] = stack[e] /\ producer'[e] = producer[e]
      /\ producer'[c] = "none"
  BY <1>0, <1>1, <1>2, ThreadFacts DEF TypeOK
<1>6. \A e \in Client : busy'[e] = Holders(e)'
  <2>1. busy'[c] = Holders(c)'
    BY <1>0, <1>1, <1>2 DEF HoldInv, Holders
  <2>2. \A e \in Client \ {c} : busy'[e] = Holders(e)'
    BY <1>0, <1>1, <1>5 DEF HoldInv, Holders
  <2> QED BY <2>1, <2>2
<1>7. c \notin freed
  BY <1>0 DEF HoldInv
<1>8. \A e \in freed' : stack'[e] = <<>> /\ producer'[e] = "none"
  BY <1>0, <1>1, <1>5, <1>7 DEF HoldInv, TypeOK
<1>9. \A e \in Client : stack'[e] \in EndStacks => e \notin clients' /\ producer'[e] = "none"
  BY <1>0, <1>1, <1>5 DEF HoldInv
<1>10. stack'["io"] = stack["io"]
  BY <1>0, <1>2, ThreadFacts
<1> QED BY <1>0, <1>1, <1>3, <1>4, <1>6, <1>8, <1>9, <1>10 DEF HoldInv

LEMMA ProducerKeeps ==
  ASSUME Held, NEW c \in Client, UpdateRecording(c) \/ TakeReady(c) \/ SendDone(c)
  PROVE  TypeOK' /\ StackInv' /\ HoldInv'
<1>0. TypeOK /\ StackInv /\ HoldInv
  BY DEF Held
<1>1. /\ UNCHANGED <<clients, freed, busy, cur_slot, slot_lock, slot_pending, written_off, stack,
                     reader, io_snap, io_todo>>
      /\ producer[c] # "none"
  BY SlotFacts DEF UpdateRecording, TakeReady, SendDone, list, slots, threads
<1>2. /\ producer' \in [Client -> {"none", "idle"} \cup Slot]
      /\ ready' \in [Client -> Seq(Slot)] /\ done' \in [Client -> Seq(Slot)]
      /\ \A e \in Client : producer[e] = "none" => producer'[e] = "none"
      /\ \A e \in Client : done[e] # <<>> => done'[e] # <<>>
  <2>1. CASE UpdateRecording(c)
    BY <2>1, <1>0 DEF UpdateRecording, TypeOK
  <2>2. CASE TakeReady(c)
    <3>1. /\ ready[c] \in Seq(Slot) /\ ready[c] # <<>> /\ Head(ready[c]) \in Slot
          /\ Tail(ready[c]) \in Seq(Slot) /\ UNCHANGED done
          /\ producer' = [producer EXCEPT ![c] = Head(ready[c])]
          /\ ready' = [ready EXCEPT ![c] = Tail(@)]
      BY <2>2, <1>0 DEF TakeReady, TypeOK
    <3> QED BY <3>1, <1>0, <1>1 DEF TypeOK
  <2>3. CASE SendDone(c)
    <3>1. /\ producer[c] \in Slot /\ done[c] \in Seq(Slot) /\ UNCHANGED ready
          /\ done' = [done EXCEPT ![c] = Append(@, producer[c])]
          /\ producer' = [producer EXCEPT ![c] = "idle"]
      BY <2>3, <1>0 DEF SendDone, TypeOK
    <3>2. Append(done[c], producer[c]) \in Seq(Slot) /\ Append(done[c], producer[c]) # <<>>
      BY <3>1
    <3> QED BY <3>1, <3>2, <1>0, <1>1 DEF TypeOK
  <2> QED BY <2>1, <2>2, <2>3
<1>3. TypeOK'
  BY <1>0, <1>1, <1>2 DEF TypeOK
<1>4. Kept
  BY <1>0, <1>1, StackUnchanged
<1> QED BY <1>0, <1>1, <1>2, <1>3, <1>4, HoldKept

LEMMA LoseKeeps ==
  ASSUME Held, NEW c \in Client, LoseProducer(c)
  PROVE  TypeOK' /\ StackInv' /\ HoldInv'
<1>0. /\ TypeOK /\ StackInv /\ HoldInv /\ stack[c] = <<>> /\ producer[c] # "none"
      /\ c \in Thread /\ c # "io"
  BY ThreadFacts DEF Held, LoseProducer
<1>1. /\ UNCHANGED <<clients, freed, busy, cur_slot, slot_lock, slot_pending, written_off, ready, done,
                     reader, io_snap, io_todo>>
      /\ producer' = [producer EXCEPT ![c] = "none"]
      /\ stack' = [stack EXCEPT ![c] = <<"free">>]
  BY DEF LoseProducer, list, slots, sockets
<1>2. /\ stack'[c] = <<"free">> /\ \A t \in Thread \ {c} : stack'[t] = stack[t]
      /\ DOMAIN stack' = Thread
  BY <1>0, <1>1 DEF StackInv
<1>3. TypeOK'
  <2>1. producer' \in [Client -> {"none", "idle"} \cup Slot]
    BY <1>0, <1>1 DEF TypeOK
  <2> QED BY <1>0, <1>1, <2>1 DEF TypeOK
<1>4. StackInv'
  BY <1>0, <1>2, ThreadFacts DEF StackInv, OwnStacks
<1>5. /\ \A e \in Client \ {c} : stack'[e] = stack[e] /\ producer'[e] = producer[e]
      /\ producer'[c] = "none"
  BY <1>0, <1>1, <1>2, ThreadFacts DEF TypeOK
<1>6. \A e \in Client : busy'[e] = Holders(e)'
  <2>1. busy'[c] = Holders(c)'
    BY <1>0, <1>1, <1>2, FreeFacts DEF HoldInv, Holders
  <2>2. \A e \in Client \ {c} : busy'[e] = Holders(e)'
    BY <1>0, <1>1, <1>5 DEF HoldInv, Holders
  <2> QED BY <2>1, <2>2
<1>7. c \notin freed
  BY <1>0 DEF HoldInv
<1>8. \A e \in freed' : stack'[e] = <<>> /\ producer'[e] = "none"
  BY <1>0, <1>1, <1>5, <1>7 DEF HoldInv, TypeOK
<1>9. \A e \in Client : stack'[e] \in EndStacks => e \notin clients' /\ producer'[e] = "none"
  BY <1>0, <1>1, <1>2, <1>5, FreeFacts DEF HoldInv
<1>10. stack'["io"] = stack["io"]
  BY <1>0, <1>2, ThreadFacts
<1> QED BY <1>0, <1>1, <1>3, <1>4, <1>6, <1>8, <1>9, <1>10 DEF HoldInv

LEMMA NewKeeps ==
  ASSUME Held, NEW c \in Client, NewProducer(c)
  PROVE  TypeOK' /\ StackInv' /\ HoldInv'
<1>0. TypeOK /\ StackInv /\ HoldInv /\ c \in clients
  BY DEF Held, NewProducer
<1>1. /\ UNCHANGED <<clients, freed, busy, cur_slot, slot_lock, slot_pending, written_off, ready, done,
                     reader, stack, io_snap, io_todo>>
      /\ producer' = [producer EXCEPT ![c] = "idle"]
  BY DEF NewProducer, list, slots, sockets, threads
<1>2. TypeOK'
  <2>1. producer' \in [Client -> {"none", "idle"} \cup Slot]
    BY <1>0, <1>1 DEF TypeOK
  <2> QED BY <1>0, <1>1, <2>1 DEF TypeOK
<1>3. StackInv'
  BY <1>0, <1>1 DEF StackInv
<1>4. c \notin freed /\ stack[c] \notin EndStacks
  BY <1>0 DEF HoldInv
<1>5. \A e \in Client \ {c} : producer'[e] = producer[e]
  BY <1>0, <1>1 DEF TypeOK
<1>6. \A e \in Client : busy'[e] = Holders(e)'
  BY <1>0, <1>1 DEF HoldInv, Holders
<1>7. \A e \in freed' : stack'[e] = <<>> /\ producer'[e] = "none"
  BY <1>0, <1>1, <1>4, <1>5 DEF HoldInv, TypeOK
<1>8. \A e \in Client : stack'[e] \in EndStacks => e \notin clients' /\ producer'[e] = "none"
  BY <1>0, <1>1, <1>4, <1>5 DEF HoldInv
<1> QED BY <1>0, <1>1, <1>2, <1>3, <1>6, <1>7, <1>8 DEF HoldInv

LEMMA HeldInit == Init => Held
<1> SUFFICES ASSUME Init PROVE Held
  OBVIOUS
<1>1. TypeOK
  <2>1. /\ busy \in [Client -> Int] /\ freed \subseteq Client
        /\ slot_pending \in [Slot -> Nat] /\ written_off \in [Slot -> Nat]
    BY DEF Init
  <2>2. ready \in [Client -> Seq(Slot)] /\ done \in [Client -> Seq(Slot)]
    BY DEF Init
  <2>3. reader \in Readers
    BY SlotFacts DEF Init, Readers, Pcs
  <2> QED BY <2>1, <2>2, <2>3, SlotFacts DEF Init, TypeOK
<1>2. /\ DOMAIN stack = Thread /\ stack["io"] = <<"loop">> /\ \A c \in Client : stack[c] = <<>>
  BY ThreadFacts DEF Init
<1>3. StackInv
  BY <1>2, IoFacts DEF StackInv, OwnStacks, IoStacks
<1>4. HoldInv
  <2>1. reader.snap = {} /\ io_snap = {} /\ io_todo = {} /\ freed = {} /\ \A c \in Client : busy[c] = 0
    BY DEF Init
  <2>2. \A c \in Client : busy[c] = Holders(c)
    BY <1>2, <2>1, FreeFacts DEF Holders, One
  <2> QED BY <1>2, <2>1, <2>2, FreeFacts DEF HoldInv
<1> QED BY <1>1, <1>3, <1>4 DEF Held

LEMMA HeldNext == Held /\ [Next]_vars => Held'
<1> SUFFICES ASSUME Held, [Next]_vars PROVE TypeOK' /\ StackInv' /\ HoldInv'
  BY DEF Held
<1>0. TypeOK /\ StackInv /\ HoldInv
  BY DEF Held
<1>1. CASE Frame \/ WaitSlot \/ Reclaim  BY <1>1, ReaderKeeps
<1>2. CASE Snapshot  BY <1>2, SnapshotKeeps
<1>3. CASE FanOut  BY <1>3, FanOutKeeps
<1>4. CASE Count  BY <1>4, CountKeeps
<1>5. CASE ReleaseSnapshot  BY <1>5, ReleaseKeeps
<1>6. CASE IoPoll  BY <1>6, IoPollKeeps
<1>7. CASE IoRelease  BY <1>7, IoReleaseKeeps
<1>8. CASE RecordStep("io")  BY <1>0, <1>8, IoRecords, RecordKeeps, ThreadFacts
<1>9. ASSUME NEW c \in Client, IoCtrl(c)  PROVE TypeOK' /\ StackInv' /\ HoldInv'
  BY <1>9, IoCtrlKeeps
<1>10. ASSUME NEW c \in Client, IoDone(c)  PROVE TypeOK' /\ StackInv' /\ HoldInv'
  BY <1>10, IoDoneKeeps
<1>11. ASSUME NEW c \in Client, OwnerStep(c)  PROVE TypeOK' /\ StackInv' /\ HoldInv'
  <2>1. CASE FreeResource(c)  BY <2>1, FreeKeeps
  <2>2. CASE PutClient(c)  BY <2>2, PutKeeps
  <2>3. CASE DestroyClient(c)  BY <2>3, DestroyKeeps
  <2>4. CASE RecordStep(c)  BY <1>0, <2>4, OwnRecords, RecordKeeps, ThreadFacts
  <2> QED BY <1>11, <2>1, <2>2, <2>3, <2>4 DEF OwnerStep
<1>12. ASSUME NEW c \in Client, ReleaseClient(c)  PROVE TypeOK' /\ StackInv' /\ HoldInv'
  BY <1>12, ReleaseClientKeeps
<1>13. ASSUME NEW c \in Client, UpdateRecording(c) \/ TakeReady(c) \/ SendDone(c)
       PROVE  TypeOK' /\ StackInv' /\ HoldInv'
  BY <1>13, ProducerKeeps
<1>14. ASSUME NEW c \in Client, LoseProducer(c)  PROVE TypeOK' /\ StackInv' /\ HoldInv'
  BY <1>14, LoseKeeps
<1>15. ASSUME NEW c \in Client, NewProducer(c)  PROVE TypeOK' /\ StackInv' /\ HoldInv'
  BY <1>15, NewKeeps
<1>16. CASE UNCHANGED vars
  BY <1>0, <1>16 DEF vars, list, slots, hw, sockets, threads, prod, TypeOK, StackInv, HoldInv, Holders
<1> QED
  BY <1>1, <1>2, <1>3, <1>4, <1>5, <1>6, <1>7, <1>8, <1>9, <1>10, <1>11, <1>12, <1>13, <1>14, <1>15,
     <1>16 DEF Next, ReaderStep, IoStep

LEMMA SpecHeld == Spec => []Held
BY HeldInit, HeldNext, PTL DEF Spec

\* camera_release_client waits until nobody holds the client: neither the
\* frame callback, nor the I/O thread, nor camera_free_resource keeps one
\* that was destroyed.
THEOREM NobodyUsesFreed == Spec => []NoUseAfterFree
<1>1. Held => NoUseAfterFree
  <2> SUFFICES ASSUME Held, NEW c \in freed,
                      c \in reader.snap \cup io_snap \cup {e \in Client : At(e, "stop") \/ At(e, "put")}
               PROVE  FALSE
    BY DEF NoUseAfterFree
  <2>1. c \notin reader.snap /\ c \notin io_snap /\ stack[c] = <<>>
    BY DEF Held, HoldInv
  <2> QED BY <2>1 DEF At
<1> QED BY <1>1, SpecHeld, PTL

-----------------------------------------------------------------------------
(* What is out of a slot, step by step.                                    *)

OutOf(s) == Out(ready, producer, done, s)

Frames == Held /\ OweInv

\* Cells grow with a READY or a DONE, and with a copy.
LEMMA CellsFewer ==
  ASSUME NEW q, NEW k, NEW z, NEW q2, NEW k2, NEW z2, NEW s \in Slot,
         q2 = q \/ q2 = <<>>, k2 = k \/ k2 \in {"none", "idle"}, z2 = z \/ z2 = <<>>
  PROVE  Cells(q2, k2, z2, s) \subseteq Cells(q, k, z, s)
<1>1. Len(<<>>) = 0 /\ k2 \in {"none", "idle"} => k2 # s
  BY SlotFacts
<1> QED BY <1>1 DEF Cells

\* A step that sends nothing and leaves the slots.
LEMMA OweKept ==
  ASSUME Frames, UNCHANGED <<slot_pending, written_off>>,
         \A s \in Slot : IsFiniteSet(OutOf(s)') /\ Cardinality(OutOf(s)') <= Cardinality(OutOf(s)),
         \A s \in Slot : Uncounted(s)' = Uncounted(s),
         reader'.pc \in {"pack", "fanout", "count"} => slot_pending[reader'.slot] = 0,
         reader'.pc = "count" => slot_lock' = "reader"
  PROVE  OweInv'
<1> SUFFICES ASSUME NEW s \in Slot PROVE Cardinality(OutOf(s)') <= Owed(s)'
  BY DEF OweInv, OutOf
<1>1. Owed(s)' = Owed(s)
  BY DEF Owed
<1>2. Cardinality(OutOf(s)) <= Owed(s) /\ IsFiniteSet(OutOf(s))
  BY DEF Frames, OweInv, OutOf
<1>3. Cardinality(OutOf(s)) \in Nat /\ Cardinality(OutOf(s)') \in Nat
  BY <1>2, FS_CardinalityType
<1>4. Owed(s) \in Nat
  BY ReaderFacts DEF Frames, Held, TypeOK, Owed, Uncounted
<1> QED BY <1>1, <1>2, <1>3, <1>4

LEMMA SocketsKept ==
  ASSUME Frames, UNCHANGED <<ready, producer, done>>, NEW s \in Slot
  PROVE  IsFiniteSet(OutOf(s)') /\ Cardinality(OutOf(s)') <= Cardinality(OutOf(s))
<1>1. IsFiniteSet(OutOf(s)) /\ OutOf(s)' = OutOf(s)
  BY DEF Frames, OweInv, OutOf
<1>2. Cardinality(OutOf(s)) \in Nat
  BY <1>1, FS_CardinalityType
<1> QED BY <1>1, <1>2

\* Everything that is neither a frame of the reader, nor a reset, nor a
\* message on a stream.
LEMMA OthersOwe ==
  ASSUME Frames, UNCHANGED <<slot_pending, written_off, ready, producer, done, reader, slot_lock>>
  PROVE  OweInv'
<1>1. \A s \in Slot : Uncounted(s)' = Uncounted(s)
  BY DEF Uncounted
<1> QED BY <1>1, SocketsKept, OweKept DEF Frames, OweInv

LEMMA FrameOwes == ASSUME Frames, Frame PROVE OweInv'
<1>1. /\ reader \in Readers /\ cur_slot \in Slot /\ reader.pc = "idle"
      /\ reader' = [reader EXCEPT !.pc = "wait", !.slot = cur_slot]
      /\ UNCHANGED <<slot_pending, written_off, ready, producer, done, slot_lock>>
  BY DEF Frames, Held, TypeOK, Frame, Reader, slots, sockets, prod
<1>2. reader'.pc = "wait"
  BY <1>1 DEF Readers
<1>3. \A s \in Slot : Uncounted(s)' = Uncounted(s)
  BY <1>1, <1>2 DEF Uncounted
<1> QED BY <1>1, <1>2, <1>3, SocketsKept, OweKept

LEMMA WaitOwes == ASSUME Frames, WaitSlot PROVE OweInv'
<1>1. /\ reader \in Readers /\ reader.pc = "wait" /\ reader.slot \in Slot /\ slot_pending \in [Slot -> Nat]
      /\ reader' = [reader EXCEPT !.pc = IF SlotBusy THEN "sleep" ELSE "pack"]
      /\ UNCHANGED <<slot_pending, written_off, ready, producer, done, slot_lock>>
  BY ReaderFacts DEF Frames, Held, TypeOK, WaitSlot, Reader, slots, sockets, prod
<1>2. reader'.pc = (IF SlotBusy THEN "sleep" ELSE "pack") /\ reader'.slot = reader.slot
  BY <1>1 DEF Readers
<1>3. \A s \in Slot : Uncounted(s)' = Uncounted(s)
  BY <1>1, <1>2 DEF Uncounted
<1>4. ~SlotBusy => slot_pending[reader.slot] = 0
  BY <1>1 DEF SlotBusy
<1> QED BY <1>1, <1>2, <1>3, <1>4, SocketsKept, OweKept

LEMMA SnapshotOwes == ASSUME Frames, Snapshot PROVE OweInv'
<1>1. /\ reader \in Readers /\ reader.pc = "pack"
      /\ reader' = [reader EXCEPT !.pc = "fanout", !.snap = clients]
      /\ UNCHANGED <<slot_pending, written_off, ready, producer, done, slot_lock>>
  BY DEF Frames, Held, TypeOK, Snapshot, Reader, slots, sockets, prod
<1>2. reader'.pc = "fanout" /\ reader'.slot = reader.slot
  BY <1>1 DEF Readers
<1>3. \A s \in Slot : Uncounted(s)' = Uncounted(s)
  BY <1>1, <1>2 DEF Uncounted
<1>4. slot_pending[reader.slot] = 0
  BY <1>1 DEF Frames, OweInv
<1> QED BY <1>1, <1>2, <1>3, <1>4, SocketsKept, OweKept

LEMMA ReleaseOwes == ASSUME Frames, ReleaseSnapshot PROVE OweInv'
<1>1. /\ reader.pc = "drop" /\ reader'.pc = "idle"
      /\ UNCHANGED <<slot_pending, written_off, ready, producer, done, slot_lock>>
  BY DEF ReleaseSnapshot, Reader, slots, sockets, prod
<1>2. \A s \in Slot : Uncounted(s)' = Uncounted(s)
  BY <1>1 DEF Uncounted
<1> QED BY <1>1, <1>2, SocketsKept, OweKept

\* A count set to 0 goes to what is written off.
LEMMA WriteOffOwes ==
  ASSUME Frames, NEW ss, WriteOff(ss), UNCHANGED <<ready, producer, done>>,
         reader.pc # "count", reader'.pc # "count",
         reader'.pc \in {"pack", "fanout"} => reader.slot = reader'.slot /\ (reader.slot \in ss \/ reader'.pc = reader.pc)
  PROVE  OweInv'
<1>0. TypeOK /\ OweInv /\ reader \in Readers
  BY DEF Frames, Held, TypeOK
<1>1. \A s \in Slot : slot_pending'[s] + written_off'[s] = slot_pending[s] + written_off[s]
  BY <1>0 DEF WriteOff, TypeOK
<1>2. \A s \in Slot : Owed(s)' = Owed(s)
  BY <1>0, <1>1 DEF Owed, Uncounted, TypeOK
<1>3. \A s \in Slot : OutOf(s)' = OutOf(s)
  BY DEF OutOf
<1>4. \A s \in Slot : slot_pending'[s] = 0 \/ (slot_pending'[s] = slot_pending[s] /\ s \notin ss)
  BY DEF WriteOff
<1>5. reader'.pc \in {"pack", "fanout", "count"} => slot_pending'[reader'.slot] = 0
  BY <1>0, <1>4, ReaderFacts DEF OweInv
<1> QED BY <1>0, <1>2, <1>3, <1>5 DEF OweInv, OutOf

LEMMA ReclaimOwes == ASSUME Frames, Reclaim PROVE OweInv'
<1>1. /\ reader \in Readers /\ reader.pc = "sleep"
      /\ reader' = [reader EXCEPT !.pc = "pack"] /\ WriteOff({reader.slot})
      /\ UNCHANGED <<ready, producer, done>>
  BY DEF Frames, Held, TypeOK, Reclaim, Reader, sockets, prod
<1>2. reader'.pc = "pack" /\ reader'.slot = reader.slot
  BY <1>1 DEF Readers
<1> QED BY <1>1, <1>2, WriteOffOwes

LEMMA RecordOwes == ASSUME Frames, NEW t \in Thread, RecordStep(t) PROVE OweInv'
<1>1. CASE ResetSlots(t)
  <2>1. /\ WriteOff(Slot) /\ slot_lock = NULL
        /\ UNCHANGED <<ready, producer, done, reader>>
    BY <1>1 DEF ResetSlots, sockets, prod
  <2>2. reader.pc # "count"
    BY <2>1, ThreadFacts DEF Frames, OweInv
  <2> QED BY <2>1, <2>2, WriteOffOwes
<1>2. CASE StartRecord(t) \/ StopRecord(t) \/ LockCap(t) \/ OpenCamera(t) \/ CloseCamera(t)
  <2>1. UNCHANGED <<slot_pending, written_off, ready, producer, done, reader, slot_lock>>
    BY <1>2 DEF StartRecord, StopRecord, LockCap, OpenCamera, CloseCamera, slots, sockets, prod
  <2> QED BY <2>1, OthersOwe
<1> QED BY <1>1, <1>2 DEF RecordStep

\* What FanOut sends is what Count will count.
LEMMA FanOutOwes == ASSUME Frames, FanOut PROVE OweInv'
<1> DEFINE to == reader.snap \cap recording
           room(c) == Len(ready[c]) < Room
<1>0. TypeOK /\ OweInv /\ reader \in Readers /\ reader.pc = "fanout" /\ reader.slot \in Slot
  BY ReaderFacts DEF Frames, Held, TypeOK, FanOut, Reader
<1>1. /\ reader' = [reader EXCEPT !.pc = "count", !.sent = Counted(to)]
      /\ slot_lock' = "reader"
      /\ ready' = [c \in Client |-> IF c \in to /\ room(c) THEN Append(ready[c], reader.slot) ELSE ready[c]]
      /\ UNCHANGED <<slot_pending, written_off, producer, done>>
  BY DEF FanOut, prod
<1>2. to \subseteq Client /\ IsFiniteSet(to) /\ Counted(to) \in Nat /\ Counted(to) = Cardinality(to)
  BY <1>0, CountedFacts, ReaderFacts DEF Counted
<1>3. reader'.pc = "count" /\ reader'.slot = reader.slot /\ reader'.sent = Cardinality(to)
  BY <1>0, <1>1, <1>2 DEF Readers
<1>4. ASSUME NEW s \in Slot
      PROVE  IsFiniteSet(OutOf(s)') /\ Cardinality(OutOf(s)') <= Owed(s)'
  <2>1. IsFiniteSet(OutOf(s)) /\ Cardinality(OutOf(s)) <= Owed(s)
    BY <1>0 DEF OweInv, OutOf
  <2>2. ready \in Sockets
    BY <1>0 DEF TypeOK, Sockets
  <2>3. /\ IsFiniteSet(Out(ready', producer, done, s))
        /\ Cardinality(Out(ready', producer, done, s))
             <= Cardinality(OutOf(s)) + (IF s = reader.slot THEN Cardinality(to) ELSE 0)
    <3>1. \A e \in Client : ready'[e] = ready[e] \/ (e \in to /\ ready'[e] = Append(ready[e], reader.slot))
      BY <1>1
    <3>2. IsFiniteSet(Out(ready, producer, done, s)) /\ reader.slot \in Slot
      BY <1>0, <2>1 DEF OutOf
    <3> HIDE DEF to
    <3>3. /\ IsFiniteSet(Out(ready', producer, done, s))
          /\ Cardinality(Out(ready', producer, done, s))
               <= Cardinality(Out(ready, producer, done, s)) + (IF s = reader.slot THEN Cardinality(to) ELSE 0)
      BY ONLY <1>2, <2>2, <3>1, <3>2, s \in Slot, OutSent
    <3> QED BY <3>3 DEF OutOf
  <2>4. OutOf(s)' = Out(ready', producer, done, s)
    BY <1>1 DEF OutOf
  <2>5. Owed(s)' = Owed(s) + (IF s = reader.slot THEN Cardinality(to) ELSE 0)
    <3>1. Uncounted(s) = 0 /\ Uncounted(s)' = (IF s = reader.slot THEN Cardinality(to) ELSE 0)
      BY <1>0, <1>3 DEF Uncounted
    <3> HIDE DEF to
    <3> QED BY <1>0, <1>1, <1>2, <3>1 DEF Owed, TypeOK
  <2>6. Cardinality(OutOf(s)) \in Nat /\ Cardinality(OutOf(s)') \in Nat /\ Owed(s) \in Nat
    BY <1>0, <2>1, <2>3, <2>4, FS_CardinalityType DEF Owed, Uncounted, TypeOK
  <2> HIDE DEF to
  <2> QED BY <1>2, <2>1, <2>3, <2>4, <2>5, <2>6
<1>5. slot_pending'[reader'.slot] = 0
  BY <1>0, <1>1, <1>3 DEF OweInv
<1> QED BY <1>1, <1>3, <1>4, <1>5 DEF OweInv, OutOf

\* The slot waits for nothing until then, and nobody else counts meanwhile.
LEMMA CountOwes == ASSUME Frames, Count PROVE OweInv'
<1>0. TypeOK /\ OweInv /\ reader \in Readers /\ reader.pc = "count" /\ reader.slot \in Slot
  BY ReaderFacts DEF Frames, Held, TypeOK, Count, Reader
<1>1. /\ reader'.pc = "drop"
      /\ slot_pending' = [slot_pending EXCEPT ![reader.slot] = reader.sent]
      /\ UNCHANGED <<written_off, ready, producer, done>>
  BY <1>0 DEF Count, sockets, prod, Readers
<1>2. slot_pending[reader.slot] = 0
  BY <1>0 DEF OweInv
<1>3. \A s \in Slot : Owed(s)' = Owed(s)
  BY <1>0, <1>1, <1>2, ReaderFacts DEF Owed, Uncounted, TypeOK
<1>4. \A s \in Slot : OutOf(s)' = OutOf(s)
  BY <1>1 DEF OutOf
<1> QED BY <1>0, <1>1, <1>3, <1>4 DEF OweInv, OutOf

LEMMA IoDoneOwes == ASSUME Frames, NEW c \in Client, IoDone(c) PROVE OweInv'
<1> DEFINE s0 == Head(done[c])
<1>0. /\ TypeOK /\ HoldInv /\ OweInv /\ reader \in Readers /\ <<c, "stream">> \in io_todo
      /\ slot_lock = NULL
  BY DEF Frames, Held, TypeOK, IoDone
<1>1. done[c] \in Seq(Slot) /\ done[c] # <<>> /\ s0 \in Slot
  BY <1>0 DEF TypeOK, HoldInv
<1>2. reader.pc # "count"
  BY <1>0, ThreadFacts DEF OweInv
<1>3. /\ UNCHANGED <<ready, producer, slot_lock>>
      /\ done' = [done EXCEPT ![c] = Tail(@)]
      /\ \/ /\ slot_pending[s0] > 0 /\ slot_pending' = [slot_pending EXCEPT ![s0] = @ - 1]
            /\ UNCHANGED written_off
            /\ \/ reader' = reader
               \/ reader.pc = "sleep" /\ reader' = [reader EXCEPT !.pc = "wait"]
         \/ /\ ~(slot_pending[s0] > 0) /\ UNCHANGED <<slot_pending, reader>>
            /\ written_off' = [written_off EXCEPT ![s0] = IF @ > 0 THEN @ - 1 ELSE 0]
  BY DEF IoDone, prod, Reader
<1>4. /\ reader'.pc # "count"
      /\ reader'.pc \in {"pack", "fanout"} => reader' = reader
  BY <1>0, <1>2, <1>3, ReaderFacts DEF Readers
<1>5. ASSUME NEW s \in Slot
      PROVE  IsFiniteSet(OutOf(s)') /\ Cardinality(OutOf(s)') <= Owed(s)'
  <2>1. IsFiniteSet(OutOf(s)) /\ Cardinality(OutOf(s)) <= Owed(s)
    BY <1>0 DEF OweInv, OutOf
  <2>2. done \in Sockets
    BY <1>0 DEF TypeOK, Sockets
  <2>3. /\ IsFiniteSet(Out(ready, producer, done', s))
        /\ Cardinality(Out(ready, producer, done', s)) + One(s = s0) <= Cardinality(OutOf(s))
    <3>1. done'[c] = Tail(done[c]) /\ Elsewhere(c, done', done)
      BY <1>0, <1>3 DEF TypeOK, Elsewhere
    <3>2. IsFiniteSet(Out(ready, producer, done, s)) /\ done[c] # <<>>
      BY <1>1, <2>1 DEF OutOf
    <3>3. /\ IsFiniteSet(Out(ready, producer, done', s))
          /\ Cardinality(Out(ready, producer, done', s)) + One(s = Head(done[c]))
               <= Cardinality(Out(ready, producer, done, s))
      BY ONLY <2>2, <3>1, <3>2, s \in Slot, c \in Client, OutRead
    <3> QED BY <3>3 DEF OutOf
  <2>4. OutOf(s)' = Out(ready, producer, done', s)
    BY <1>3 DEF OutOf
  <2>5. Cardinality(OutOf(s)) \in Nat /\ Cardinality(OutOf(s)') \in Nat
    BY <2>1, <2>3, <2>4, FS_CardinalityType
  <2>6. /\ slot_pending[s] \in Nat /\ written_off[s] \in Nat
        /\ slot_pending \in [Slot -> Nat] /\ written_off \in [Slot -> Nat]
    BY <1>0 DEF TypeOK
  <2>7. Owed(s) = slot_pending[s] + written_off[s] /\ Owed(s)' = slot_pending'[s] + written_off'[s]
    <3>1. Uncounted(s) = 0 /\ Uncounted(s)' = 0
      BY <1>2, <1>4 DEF Uncounted
    <3>2. slot_pending'[s] \in Int /\ written_off'[s] \in Int
      BY <1>3, <2>6
    <3> QED BY <2>6, <3>1, <3>2 DEF Owed
  <2>8. CASE s = s0
    <3>1. One(s = s0) = 1
      BY <2>8 DEF One
    <3> HIDE DEF s0
    <3> QED BY <1>1, <1>3, <2>1, <2>3, <2>4, <2>5, <2>6, <2>7, <2>8, <3>1
  <2>9. CASE s # s0
    <3>1. One(s = s0) = 0
      BY <2>9 DEF One
    <3> HIDE DEF s0
    <3> QED BY <1>3, <2>1, <2>3, <2>4, <2>5, <2>6, <2>7, <2>9, <3>1
  <2> QED BY <2>8, <2>9
<1>6. reader'.pc \in {"pack", "fanout"} => slot_pending'[reader'.slot] = 0
  <2> SUFFICES ASSUME reader'.pc \in {"pack", "fanout"} PROVE slot_pending'[reader'.slot] = 0
    OBVIOUS
  <2>1. slot_pending[reader.slot] = 0 /\ reader.slot \in Slot /\ slot_pending \in [Slot -> Nat]
    BY <1>0, <1>4, ReaderFacts DEF OweInv, TypeOK
  <2> HIDE DEF s0
  <2> QED BY <1>1, <1>3, <1>4, <2>1
<1> QED BY <1>4, <1>5, <1>6 DEF OweInv, OutOf

\* Destroyed clients and lost producers take what they had with them.
LEMMA FewerOwe ==
  ASSUME Frames, NEW c \in Client, UNCHANGED <<slot_pending, written_off, reader, slot_lock>>,
         \A e \in Client : /\ ready'[e] = ready[e] \/ ready'[e] = <<>>
                           /\ done'[e] = done[e] \/ done'[e] = <<>>
                           /\ producer'[e] = producer[e] \/ producer'[e] \in {"none", "idle"}
  PROVE  OweInv'
<1>1. ASSUME NEW s \in Slot
      PROVE  IsFiniteSet(OutOf(s)') /\ Cardinality(OutOf(s)') <= Cardinality(OutOf(s))
  <2>1. IsFiniteSet(OutOf(s))
    BY DEF Frames, OweInv, OutOf
  <2>2. \A e \in Client : Cells(ready'[e], producer'[e], done'[e], s)
                             \subseteq Cells(ready[e], producer[e], done[e], s)
    BY CellsFewer
  <2>3. OutOf(s)' = Out(ready', producer', done', s)
    BY DEF OutOf
  <2> QED BY <2>1, <2>2, <2>3, OutSame DEF OutOf
<1>2. \A s \in Slot : Uncounted(s)' = Uncounted(s)
  BY DEF Uncounted
<1> QED BY <1>1, <1>2, OweKept DEF Frames, OweInv

LEMMA ProducerOwes ==
  ASSUME Frames, NEW c \in Client, TakeReady(c) \/ SendDone(c)
  PROVE  OweInv'
<1>0. /\ TypeOK /\ ready \in Sockets /\ done \in Sockets /\ producer \in Copying
      /\ UNCHANGED <<slot_pending, written_off, reader, slot_lock>>
  BY DEF Frames, Held, TypeOK, Sockets, Copying, TakeReady, SendDone, slots, threads
<1>1. ASSUME NEW s \in Slot
      PROVE  IsFiniteSet(OutOf(s)') /\ Cardinality(OutOf(s)') <= Cardinality(OutOf(s))
  <2>1. IsFiniteSet(OutOf(s))
    BY DEF Frames, OweInv, OutOf
  <2>2. OutOf(s)' = Out(ready', producer', done', s)
    BY DEF OutOf
  <2>3. CASE TakeReady(c)
    <3>1. /\ producer[c] = "idle" /\ ready[c] # <<>> /\ done' = done
          /\ producer' = [producer EXCEPT ![c] = Head(ready[c])]
          /\ ready' = [ready EXCEPT ![c] = Tail(@)]
      BY <2>3 DEF TakeReady
    <3>2. /\ ready'[c] = Tail(ready[c]) /\ producer'[c] = Head(ready[c])
          /\ Elsewhere(c, ready', ready) /\ Elsewhere(c, producer', producer)
      BY <1>0, <3>1 DEF TypeOK, Elsewhere
    <3>3. IsFiniteSet(Out(ready, producer, done, s)) /\ ready \in Sockets /\ producer \in Copying
          /\ producer[c] = "idle" /\ ready[c] # <<>>
      BY <1>0, <2>1, <3>1 DEF OutOf
    <3>4. /\ IsFiniteSet(Out(ready', producer', done, s))
          /\ Cardinality(Out(ready', producer', done, s)) <= Cardinality(Out(ready, producer, done, s))
      BY ONLY <3>2, <3>3, s \in Slot, c \in Client, OutTaken
    <3> QED BY <2>2, <3>1, <3>4 DEF OutOf
  <2>4. CASE SendDone(c)
    <3>1. /\ producer[c] \in Slot /\ ready' = ready
          /\ done' = [done EXCEPT ![c] = Append(@, producer[c])]
          /\ producer' = [producer EXCEPT ![c] = "idle"]
      BY <2>4 DEF SendDone
    <3>2. /\ done'[c] = Append(done[c], producer[c]) /\ producer'[c] = "idle"
          /\ Elsewhere(c, done', done) /\ Elsewhere(c, producer', producer)
      BY <1>0, <3>1 DEF TypeOK, Elsewhere
    <3>3. IsFiniteSet(Out(ready, producer, done, s)) /\ done \in Sockets /\ producer \in Copying
          /\ producer[c] \in Slot
      BY <1>0, <2>1, <3>1 DEF OutOf
    <3>4. /\ IsFiniteSet(Out(ready, producer', done', s))
          /\ Cardinality(Out(ready, producer', done', s)) <= Cardinality(Out(ready, producer, done, s))
      BY ONLY <3>2, <3>3, s \in Slot, c \in Client, OutGiven
    <3> QED BY <2>2, <3>1, <3>4 DEF OutOf
  <2> QED BY <2>3, <2>4
<1>2. \A s \in Slot : Uncounted(s)' = Uncounted(s)
  BY <1>0 DEF Uncounted
<1> QED BY <1>0, <1>1, <1>2, OweKept DEF Frames, OweInv

LEMMA OweInit == Init => OweInv
<1> SUFFICES ASSUME Init PROVE OweInv
  OBVIOUS
<1>1. /\ reader.pc = "idle" /\ \A s \in Slot : slot_pending[s] = 0 /\ written_off[s] = 0
      /\ \A c \in Client : ready[c] = <<>> /\ done[c] = <<>> /\ producer[c] = "idle"
  BY DEF Init
<1>2. ASSUME NEW s \in Slot
      PROVE  IsFiniteSet(Out(ready, producer, done, s)) /\ Cardinality(Out(ready, producer, done, s)) <= Owed(s)
  <2>1. ASSUME NEW c \in Client PROVE Cells(ready[c], producer[c], done[c], s) = {}
    <3>1. Len(<<>>) = 0 /\ "idle" # s
      BY SlotFacts
    <3> QED BY <1>1, <3>1 DEF Cells
  <2>2. Out(ready, producer, done, s) = {}
    BY <2>1 DEF Out
  <2>3. IsFiniteSet(Out(ready, producer, done, s)) /\ Cardinality(Out(ready, producer, done, s)) = 0
    BY <2>2, FS_EmptySet
  <2>4. Owed(s) = 0
    BY <1>1 DEF Owed, Uncounted
  <2> QED BY <2>3, <2>4
<1> QED BY <1>1, <1>2 DEF OweInv

\* Destroyed clients and lost producers, step by step.
LEMMA LeaveOwes ==
  ASSUME Frames, NEW c \in Client,
         DestroyClient(c) \/ ReleaseClient(c) \/ LoseProducer(c) \/ NewProducer(c)
  PROVE  OweInv'
<1>0. /\ ready \in Sockets /\ done \in Sockets /\ producer \in Copying
  BY DEF Frames, Held, TypeOK, Sockets, Copying
<1>1. UNCHANGED <<slot_pending, written_off, reader, slot_lock>>
  BY DEF DestroyClient, ReleaseClient, LoseProducer, NewProducer, slots, threads
<1>2. /\ ready' = ready \/ ready' = [ready EXCEPT ![c] = <<>>]
      /\ done' = done \/ done' = [done EXCEPT ![c] = <<>>]
      /\ \/ producer' = producer
         \/ producer' = [producer EXCEPT ![c] = "none"]
         \/ producer' = [producer EXCEPT ![c] = "idle"]
  BY DEF DestroyClient, ReleaseClient, LoseProducer, NewProducer, sockets, prod
<1>3. \A e \in Client : /\ ready'[e] = ready[e] \/ ready'[e] = <<>>
                        /\ done'[e] = done[e] \/ done'[e] = <<>>
                        /\ producer'[e] = producer[e] \/ producer'[e] \in {"none", "idle"}
  BY <1>0, <1>2 DEF Sockets, Copying
<1> QED BY <1>1, <1>3, FewerOwe

LEMMA OweNext == Frames /\ [Next]_vars => OweInv'
<1> SUFFICES ASSUME Frames, [Next]_vars PROVE OweInv'
  OBVIOUS
<1>1. CASE Frame  BY <1>1, FrameOwes
<1>2. CASE WaitSlot  BY <1>2, WaitOwes
<1>3. CASE Snapshot  BY <1>3, SnapshotOwes
<1>4. CASE FanOut  BY <1>4, FanOutOwes
<1>5. CASE Count  BY <1>5, CountOwes
<1>6. CASE ReleaseSnapshot  BY <1>6, ReleaseOwes
<1>7. CASE Reclaim  BY <1>7, ReclaimOwes
<1>8. ASSUME NEW t \in Thread, RecordStep(t) PROVE OweInv'
  BY <1>8, RecordOwes
<1>9. CASE IoPoll \/ IoRelease
  BY <1>9, OthersOwe DEF IoPoll, IoRelease, slots, sockets, prod
<1>10. ASSUME NEW c \in Client, IoCtrl(c) PROVE OweInv'
  BY <1>10, OthersOwe DEF IoCtrl, slots, prod
<1>11. ASSUME NEW c \in Client, IoDone(c) PROVE OweInv'
  BY <1>11, IoDoneOwes
<1>12. ASSUME NEW c \in Client, FreeResource(c) \/ PutClient(c) PROVE OweInv'
  BY <1>12, OthersOwe DEF FreeResource, PutClient, slots, sockets, prod
<1>13. ASSUME NEW c \in Client,
              DestroyClient(c) \/ ReleaseClient(c) \/ LoseProducer(c) \/ NewProducer(c)
       PROVE  OweInv'
  BY <1>13, LeaveOwes
<1>14. ASSUME NEW c \in Client, UpdateRecording(c) PROVE OweInv'
  BY <1>14, OthersOwe DEF UpdateRecording, slots, threads
<1>15. ASSUME NEW c \in Client, TakeReady(c) \/ SendDone(c) PROVE OweInv'
  BY <1>15, ProducerOwes
<1>16. CASE UNCHANGED vars
  BY <1>16, OthersOwe DEF vars, slots, sockets, threads, prod
<1> QED
  BY <1>1, <1>2, <1>3, <1>4, <1>5, <1>6, <1>7, <1>8, <1>9, <1>10, <1>11, <1>12, <1>13, <1>14, <1>15,
     <1>16, ThreadFacts DEF Next, ReaderStep, IoStep, OwnerStep

LEMMA SpecFrames == Spec => []Frames
<1>1. Init => Frames
  BY HeldInit, OweInit DEF Frames
<1>2. Frames /\ [Next]_vars => Frames'
  BY HeldNext, OweNext DEF Frames
<1> QED BY <1>1, <1>2, PTL DEF Spec

\* A frame is packed over one that a producer copies out only if a DONE of
\* that slot was written off, by the one second timeout or a reset, and is
\* still to come: the slot waits for nothing then, and the copy is out of it.
THEOREM NoFrameOverwritten == Spec => []NoOverwrite
<1>1. Frames => NoOverwrite
  <2> SUFFICES ASSUME Frames, NEW c \in Client, Reader("pack"), producer[c] = reader.slot
               PROVE  written_off[reader.slot] > 0
    BY DEF NoOverwrite
  <2> DEFINE s == reader.slot
             w == <<c, <<"copy", 0>>>>
  <2>1. /\ s \in Slot /\ slot_pending[s] = 0 /\ reader.pc = "pack" /\ written_off[s] \in Nat
    BY ReaderFacts DEF Frames, Held, OweInv, TypeOK, Reader
  <2>2. /\ IsFiniteSet(Out(ready, producer, done, s))
        /\ Cardinality(Out(ready, producer, done, s)) <= written_off[s]
    BY <2>1 DEF Frames, OweInv, Owed, Uncounted
  <2>3. w \in Out(ready, producer, done, s)
    <3>1. <<"copy", 0>> \in Cells(ready[c], producer[c], done[c], s) /\ <<"copy", 0>> \in Cell
      BY DEF Cells, Cell
    <3> QED BY <3>1 DEF Out
  <2>4. Cardinality(Out(ready, producer, done, s)) # 0
    BY ONLY <2>2, <2>3, FS_EmptySet
  <2>5. Cardinality(Out(ready, producer, done, s)) \in Nat
    BY ONLY <2>2, FS_CardinalityType
  <2> HIDE DEF s
  <2>6. written_off[s] > 0
    BY <2>1, <2>2, <2>4, <2>5
  <2> QED BY <2>6 DEF s
<1> QED BY <1>1, SpecFrames, PTL

-----------------------------------------------------------------------------
(* The webcams of CameraNode.tla, for any number of them.                    *)
(*                                                                         *)
(* Every handler ends in update_recording for the cameras it changed, so a    *)
(* camera takes itself for recording only with a control socket and a stream  *)
(* socket, and only after START (Reconciled).  When the consumer goes, both    *)
(* are taken from every camera there is (NodeInv), before another can come.  *)

Formats  == Size \cup {NONE}
Camera   == [node : BOOLEAN, streaming : BOOLEAN, recording : BOOLEAN, fd : Nat, io : BOOLEAN,
             shm : Nat \cup {NONE}, asked : BOOLEAN, frame : Nat \cup {NONE}, fmt : Formats]
CtrlMsg  == {"START", "STOP"} \X Cam
FrameMsg == {<<"OFFER">>} \cup ({"READY"} \X Nat)

NodeTypeOK ==
  /\ engine \in {"off", "on", "crashed"} /\ core \in {"none", "live", "broken", "dead"}
  /\ timer \in BOOLEAN /\ num \in Nat /\ ctrl_fd \in Nat /\ cam \in [Cam -> Camera]
  /\ call # NONE => call.n \in Nat /\ call.q \in {NONE, "real"}
  /\ server \in BOOLEAN /\ pw \in [Cam -> [offer : Formats, agreed : Formats, pool : Formats]]
  /\ session \in Nat /\ plive \in BOOLEAN /\ clive \in BOOLEAN
  /\ request \in {"none", "asked", "answered"}
  /\ ctrlq \in Seq(CtrlMsg) /\ gets \in [Cam -> Nat] /\ stream \in [Cam -> Seq(FrameMsg)] /\ rec \subseteq Cam

\* A call of KWin's that waits is of this session; an engine that was never started has
\* nothing; a camera that is not the consumer's has no socket and does not record, and none
\* does when the consumer is gone.
NodeInv ==
  /\ call # NONE => plive
  /\ engine = "off" => ctrl_fd = 0 /\ num = 0
  /\ \A i \in Cam : i > num => cam[i].fd = 0 /\ ~cam[i].recording
  /\ ~plive => ctrl_fd = 0 /\ \A i \in Cam : ~cam[i].recording

-----------------------------------------------------------------------------
(* What the handlers are made of.                                          *)

LEMMA CamFacts ==
  ASSUME NEW k \in Camera
  PROVE  /\ \A s \in BOOLEAN : [k EXCEPT !.streaming = s] \in Camera /\ [k EXCEPT !.streaming = s].streaming = s
                               /\ [k EXCEPT !.streaming = s].fd = k.fd
                               /\ [k EXCEPT !.streaming = s].recording = k.recording
         /\ \A f \in Formats : [k EXCEPT !.fmt = f] \in Camera /\ [k EXCEPT !.fmt = f].fd = k.fd
                               /\ [k EXCEPT !.fmt = f].recording = k.recording
         /\ Destroyed(k) \in Camera /\ Destroyed(k).fd = k.fd /\ ~Destroyed(k).recording
         /\ Created(k) \in Camera /\ Created(k).fd = k.fd
         /\ Created(k).recording => k.recording
         /\ Cleared(k) \in Camera /\ Cleared(k).fd = 0 /\ ~Cleared(k).recording
         /\ Requested(k) \in Camera /\ Requested(k).fd = k.fd
         /\ Requested(k).recording = k.recording
<1>1. \A s \in BOOLEAN : [k EXCEPT !.streaming = s] \in Camera /\ [k EXCEPT !.streaming = s].streaming = s
                               /\ [k EXCEPT !.streaming = s].fd = k.fd
                               /\ [k EXCEPT !.streaming = s].recording = k.recording
  BY DEF Camera
<1>2. \A f \in Formats : [k EXCEPT !.fmt = f] \in Camera /\ [k EXCEPT !.fmt = f].fd = k.fd
                               /\ [k EXCEPT !.fmt = f].recording = k.recording
  BY DEF Camera
<1>3. Destroyed(k) \in Camera /\ Destroyed(k).fd = k.fd /\ ~Destroyed(k).recording
  BY DEF Camera, Destroyed
<1>4. /\ Created(k) \in Camera /\ Created(k).fd = k.fd
      /\ Created(k).recording => k.recording
  BY DEF Camera, Created, Formats, Size
<1>5. Cleared(k) \in Camera /\ Cleared(k).fd = 0 /\ ~Cleared(k).recording
  BY DEF Camera, Cleared, Attached
<1>6. /\ Requested(k) \in Camera /\ Requested(k).fd = k.fd
      /\ Requested(k).recording = k.recording
  BY DEF Camera, Requested, Asks
<1>7. QED
  BY <1>1, <1>2, <1>3, <1>4, <1>5, <1>6

LEMMA AttachedFacts ==
  ASSUME NEW k \in Camera, NEW n \in Nat
  PROVE  Attached(k, n) \in Camera /\ Attached(k, n).fd = n /\ Attached(k, n).recording = k.recording
BY DEF Camera, Attached

LEMMA UpdatedFacts ==
  ASSUME NEW k \in Camera, NEW c \in Nat
  PROVE  /\ Updated(k, c) \in Camera /\ Updated(k, c).fd = k.fd
         /\ Updated(k, c).recording => c # 0 /\ k.fd # 0
         /\ Updated(k, c).recording => k.recording \/ Told(k, c) = "START"
         /\ Updated(k, c).recording => Told(k, c) \in {"nothing", "START"}
         /\ Told(k, c) \in {"nothing", "START", "STOP"}
<1>1. Wanted(k, c) \in BOOLEAN /\ (Wanted(k, c) => c # 0 /\ k.fd # 0)
  BY DEF Wanted, Camera
<1>2. Updated(k, c) \in Camera /\ Updated(k, c).fd = k.fd
      /\ Updated(k, c).recording = Wanted(k, c)
  BY <1>1 DEF Updated, Camera, Asks
<1>3. k.recording \in BOOLEAN
  BY DEF Camera
<1>4. /\ Told(k, c) \in {"nothing", "START", "STOP"}
      /\ Wanted(k, c) => k.recording \/ Told(k, c) = "START"
      /\ Wanted(k, c) => Told(k, c) \in {"nothing", "START"}
  BY <1>1, <1>3 DEF Told
<1>5. QED
  BY <1>1, <1>2, <1>4

TellsOf(f, c) == {i \in Cam : Told(f[i], c) # "nothing"}

\* One message about each camera that is told something.
Tells(ms, f, c) ==
  /\ ms \in Seq(CtrlMsg)
  /\ \A n \in 1..Len(ms) : /\ ms[n][2] \in Cam /\ ms[n] = <<Told(f[ms[n][2]], c), ms[n][2]>>
                           /\ Told(f[ms[n][2]], c) # "nothing"
                           /\ \A m \in 1..Len(ms) : m > n => ms[m][2] # ms[n][2]
  /\ \A i \in Cam : Told(f[i], c) # "nothing" => \E n \in 1..Len(ms) : ms[n][2] = i

LEMMA MessagesFacts ==
  ASSUME NEW f \in [Cam -> Camera], NEW c \in Nat,
         NEW s \in InOrder(TellsOf(f, c)), NEW ms, ms = Messages(f, c, s)
  PROVE  Tells(ms, f, c)
<1> DEFINE T == {i \in Cam : Told(f[i], c) # "nothing"}
<1>1. PICK l \in 0..NumCam : s \in [1..l -> T]
  BY DEF InOrder, SeqOf, TellsOf
<1>2. l \in Nat /\ s \in Seq(T) /\ Len(s) = l /\ DOMAIN s = 1..l
  BY <1>1
<1>3. Range(s) = T /\ \A m, n \in 1..l : m < n => s[m] < s[n]
  BY <1>2 DEF InOrder, TellsOf
<1>4. ms = [n \in 1..l |-> <<Told(f[s[n]], c), s[n]>>]
  BY <1>2 DEF Messages
<1>5. \A n \in 1..l : s[n] \in Cam /\ Told(f[s[n]], c) # "nothing" /\ Told(f[s[n]], c) \in {"START", "STOP"}
  <2>1. SUFFICES ASSUME NEW n \in 1..l
                 PROVE  s[n] \in Cam /\ Told(f[s[n]], c) # "nothing" /\ Told(f[s[n]], c) \in {"START", "STOP"}
    OBVIOUS
  <2>2. s[n] \in Cam /\ Told(f[s[n]], c) # "nothing" /\ f[s[n]] \in Camera
    BY <1>1
  <2>3. QED
    BY <2>2, UpdatedFacts
<1>6. /\ Len(ms) = l /\ DOMAIN ms = 1..l
      /\ \A n \in 1..l : ms[n] = <<Told(f[s[n]], c), s[n]>> /\ ms[n] \in CtrlMsg /\ ms[n][2] = s[n]
  <2>1. \A n \in 1..l : <<Told(f[s[n]], c), s[n]>> \in CtrlMsg
    BY <1>5 DEF CtrlMsg
  <2>2. ms \in [1..l -> CtrlMsg]
    BY <1>4, <2>1
  <2>3. QED
    BY <1>2, <1>4, <2>1, <2>2
<1>7. ms \in Seq(CtrlMsg)
  BY <1>2, <1>6, <1>4
<1>8. \A m, n \in 1..l : m > n => s[m] # s[n]
  BY <1>3, <1>5 DEF Cam
<1>9. \A i \in T : \E n \in 1..l : s[n] = i
  BY <1>2, <1>3 DEF Range
<1>10. \A i \in Cam : Told(f[i], c) # "nothing" => \E n \in 1..l : ms[n][2] = i
  BY <1>6, <1>9
<1>11. ASSUME NEW n \in 1..Len(ms)
       PROVE  /\ ms[n][2] \in Cam /\ ms[n] = <<Told(f[ms[n][2]], c), ms[n][2]>>
              /\ Told(f[ms[n][2]], c) # "nothing"
              /\ \A m \in 1..Len(ms) : m > n => ms[m][2] # ms[n][2]
  <2>1. n \in 1..l /\ ms[n][2] = s[n] /\ ms[n] = <<Told(f[s[n]], c), s[n]>>
    BY <1>6
  <2>2. s[n] \in Cam /\ Told(f[s[n]], c) # "nothing"
    BY <1>5, <2>1
  <2>3. \A m \in 1..Len(ms) : m > n => ms[m][2] # ms[n][2]
    BY <1>6, <1>8, <2>1
  <2>4. QED
    BY <2>1, <2>2, <2>3
<1>12. QED
  BY <1>6, <1>7, <1>10, <1>11 DEF Tells

\* In q the last message about i is START, at n.
Starts(q, i, n) == q[n] = <<"START", i>> /\ \A m \in n + 1..Len(q) : q[m][2] # i

\* Messages are sent: START is the last about i, or none is about i.
LEMMA Lengthened ==
  ASSUME NEW q \in Seq(CtrlMsg), NEW ms \in Seq(CtrlMsg), NEW o, o = q \o ms
  PROVE  /\ o \in Seq(CtrlMsg) /\ Len(q) \in Nat /\ Len(ms) \in Nat /\ Len(o) = Len(q) + Len(ms)
         /\ \A n \in 1..Len(q) : o[n] = q[n]
         /\ \A n \in Len(q) + 1..Len(o) : o[n] = ms[n - Len(q)] /\ n - Len(q) \in 1..Len(ms)
         /\ \A k \in 1..Len(ms) : o[Len(q) + k] = ms[k] /\ Len(q) + k \in 1..Len(o)
OBVIOUS

LEMMA HeardStart ==
  ASSUME NEW q \in Seq(CtrlMsg), NEW ms \in Seq(CtrlMsg), NEW o, o = q \o ms, NEW i,
         NEW k \in 1..Len(ms), Starts(ms, i, k)
  PROVE  \E n \in 1..Len(o) : Starts(o, i, n)
<1>1. /\ Len(q) \in Nat /\ Len(o) = Len(q) + Len(ms)
      /\ \A n \in Len(q) + 1..Len(o) : o[n] = ms[n - Len(q)] /\ n - Len(q) \in 1..Len(ms)
      /\ o[Len(q) + k] = ms[k] /\ Len(q) + k \in 1..Len(o)
  BY Lengthened
<1>2. ASSUME NEW m \in Len(q) + k + 1..Len(o) PROVE o[m][2] # i
  <2>1. m \in Len(q) + 1..Len(o) /\ m - Len(q) \in k + 1..Len(ms)
    BY <1>1
  <2>2. o[m] = ms[m - Len(q)]
    BY <1>1, <2>1
  <2>3. QED
    BY <2>1, <2>2 DEF Starts
<1>3. o[Len(q) + k] = <<"START", i>>
  BY <1>1 DEF Starts
<1>4. QED
  BY <1>1, <1>2, <1>3 DEF Starts

LEMMA HeardStill ==
  ASSUME NEW q \in Seq(CtrlMsg), NEW ms \in Seq(CtrlMsg), NEW o, o = q \o ms, NEW i,
         \A k \in 1..Len(ms) : ms[k][2] # i
  PROVE  /\ \A n \in 1..Len(q) : Starts(q, i, n) => Starts(o, i, n) /\ n \in 1..Len(o)
         /\ (\A n \in 1..Len(q) : q[n][2] # i) => \A n \in 1..Len(o) : o[n][2] # i
<1>1. /\ Len(q) \in Nat /\ Len(ms) \in Nat /\ Len(o) = Len(q) + Len(ms)
      /\ \A n \in 1..Len(q) : o[n] = q[n]
      /\ \A n \in Len(q) + 1..Len(o) : o[n] = ms[n - Len(q)] /\ n - Len(q) \in 1..Len(ms)
  BY Lengthened
<1>2. \A m \in Len(q) + 1..Len(o) : o[m][2] # i
  BY <1>1
<1>3. ASSUME NEW n \in 1..Len(q), q[n] = <<"START", i>>, \A m \in n + 1..Len(q) : q[m][2] # i
      PROVE  o[n] = <<"START", i>> /\ n \in 1..Len(o) /\ \A m \in n + 1..Len(o) : o[m][2] # i
  <2>1. o[n] = <<"START", i>> /\ n \in 1..Len(o)
    BY <1>1, <1>3
  <2>2. ASSUME NEW m \in n + 1..Len(o) PROVE o[m][2] # i
    <3>1. CASE m > Len(q)
      BY <1>1, <1>2, <3>1
    <3>2. CASE ~(m > Len(q))
      <4>1. m \in n + 1..Len(q) /\ m \in 1..Len(q)
        BY <1>1, <3>2
      <4>2. QED
        BY <1>1, <1>3, <4>1
    <3>3. QED
      BY <3>1, <3>2
  <2>3. QED
    BY <2>1, <2>2
<1>4. ASSUME \A n \in 1..Len(q) : q[n][2] # i, NEW n \in 1..Len(o)
      PROVE  o[n][2] # i
  <2>1. CASE n > Len(q)
    BY <1>1, <1>2, <2>1
  <2>2. CASE ~(n > Len(q))
    <3>1. n \in 1..Len(q)
      BY <1>1, <2>2
    <3>2. QED
      BY <1>1, <1>4, <3>1
  <2>3. QED
    BY <2>1, <2>2
<1>5. QED
  BY <1>3, <1>4 DEF Starts

\* The first message is handled.
LEMMA HeardNext ==
  ASSUME NodeTypeOK, CtrlHandleMsg, NEW i
  PROVE  Heard(i) => Heard(i)'
<1>1. /\ ctrlq \in Seq(CtrlMsg) /\ ctrlq # <<>> /\ ctrlq' = Tail(ctrlq)
      /\ rec' = IF Head(ctrlq)[1] = "START" THEN rec \cup {Head(ctrlq)[2]} ELSE rec \ {Head(ctrlq)[2]}
  BY DEF NodeTypeOK, CtrlHandleMsg
<1>2. /\ Head(ctrlq) = ctrlq[1] /\ Len(ctrlq) \in Nat /\ 1 \in 1..Len(ctrlq) /\ Len(ctrlq') = Len(ctrlq) - 1
      /\ \A n \in 1..Len(ctrlq') : ctrlq'[n] = ctrlq[n + 1] /\ n + 1 \in 1..Len(ctrlq)
  BY <1>1
<1>3. ASSUME NEW n \in 1..Len(ctrlq), ctrlq[n] = <<"START", i>>, \A m \in n + 1..Len(ctrlq) : ctrlq[m][2] # i
      PROVE  Heard(i)'
  <2>1. CASE n = 1
    <3>1. i \in rec'
      BY <1>1, <1>2, <1>3, <2>1
    <3>2. \A m \in 1..Len(ctrlq') : ctrlq'[m][2] # i
      <4>1. \A m \in 1..Len(ctrlq') : m + 1 \in n + 1..Len(ctrlq)
        BY <1>2, <2>1
      <4>2. QED
        BY <1>2, <1>3, <4>1
    <3>3. QED
      BY <3>1, <3>2 DEF Heard
  <2>2. CASE n # 1
    <3>1. n - 1 \in 1..Len(ctrlq') /\ ctrlq'[n - 1] = <<"START", i>>
      BY <1>2, <1>3, <2>2
    <3>2. \A m \in (n - 1) + 1..Len(ctrlq') : m \in 1..Len(ctrlq') /\ m + 1 \in n + 1..Len(ctrlq)
      BY <1>2, <2>2
    <3>3. \A m \in (n - 1) + 1..Len(ctrlq') : ctrlq'[m][2] # i
      BY <1>2, <1>3, <3>2
    <3>4. QED
      BY <3>1, <3>3 DEF Heard
  <2>3. QED
    BY <2>1, <2>2
<1>4. ASSUME i \in rec, \A n \in 1..Len(ctrlq) : ctrlq[n][2] # i
      PROVE  Heard(i)'
  <2>1. i \in rec'
    BY <1>1, <1>2, <1>4
  <2>2. \A m \in 1..Len(ctrlq') : ctrlq'[m][2] # i
    BY <1>2, <1>4
  <2>3. QED
    BY <2>1, <2>2 DEF Heard
<1>5. QED
  BY <1>3, <1>4 DEF Heard

LEMMA Reconciled ==
  ASSUME NodeTypeOK, RecordingHeard, NEW f \in [Cam -> Camera], NEW c \in Nat, NEW attached,
         Reconcile(f, c, attached), \A i \in Cam : f[i].recording => cam[i].recording,
         clive' = clive, rec' = rec
  PROVE  /\ cam' \in [Cam -> Camera] /\ ctrlq' \in Seq(CtrlMsg) /\ gets' \in [Cam -> Nat]
         /\ \A i \in Cam : cam'[i].fd = f[i].fd /\ (cam'[i].recording => c # 0 /\ f[i].fd # 0)
         /\ RecordingHeard'
<1>1. \A i \in Cam :
        /\ cam'[i] \in Camera /\ cam'[i].fd = f[i].fd
        /\ cam'[i].recording => c # 0 /\ f[i].fd # 0 /\ (f[i].recording \/ Told(f[i], c) = "START")
                                /\ Told(f[i], c) \in {"nothing", "START"}
  <2>1. SUFFICES ASSUME NEW i \in Cam
                 PROVE  /\ cam'[i] \in Camera /\ cam'[i].fd = f[i].fd
                        /\ cam'[i].recording =>
                             /\ c # 0 /\ f[i].fd # 0 /\ (f[i].recording \/ Told(f[i], c) = "START")
                             /\ Told(f[i], c) \in {"nothing", "START"}
    OBVIOUS
  <2>2. cam'[i] = IF i \in attached THEN Requested(Updated(f[i], c)) ELSE Updated(f[i], c)
    BY DEF Reconcile, Cam
  <2>3. f[i] \in Camera
    OBVIOUS
  <2>4. /\ Updated(f[i], c) \in Camera /\ Updated(f[i], c).fd = f[i].fd
        /\ Updated(f[i], c).recording =>
             /\ c # 0 /\ f[i].fd # 0 /\ (f[i].recording \/ Told(f[i], c) = "START")
             /\ Told(f[i], c) \in {"nothing", "START"}
    BY <2>3, UpdatedFacts
  <2>5. /\ Requested(Updated(f[i], c)) \in Camera
        /\ Requested(Updated(f[i], c)).fd = Updated(f[i], c).fd
        /\ Requested(Updated(f[i], c)).recording = Updated(f[i], c).recording
    BY <2>4, CamFacts
  <2>6. QED
    BY <2>2, <2>4, <2>5
<1>2. cam' \in [Cam -> Camera]
  <2>1. cam' = [i \in Cam |-> cam'[i]]
    BY DEF Reconcile, Cam
  <2>2. QED
    BY <1>1, <2>1
<1>3. gets' \in [Cam -> Nat]
  BY DEF Reconcile, Cam, NodeTypeOK
<1>4. PICK s, ms : /\ s \in InOrder(TellsOf(f, c))
                   /\ ms = Messages(f, c, s) /\ ctrlq' = ctrlq \o ms
  BY DEF Reconcile, Cam, TellsOf
<1>5. /\ ms \in Seq(CtrlMsg)
      /\ \A n \in 1..Len(ms) : /\ ms[n][2] \in Cam /\ ms[n] = <<Told(f[ms[n][2]], c), ms[n][2]>>
                               /\ Told(f[ms[n][2]], c) # "nothing"
                               /\ \A m \in 1..Len(ms) : m > n => ms[m][2] # ms[n][2]
      /\ \A i \in Cam : Told(f[i], c) # "nothing" => \E n \in 1..Len(ms) : ms[n][2] = i
  <2>1. Tells(ms, f, c)
    BY <1>4, MessagesFacts
  <2>2. QED
    BY <2>1 DEF Tells
<1>6. ctrlq' = ctrlq \o ms /\ ctrlq \in Seq(CtrlMsg)
  BY <1>4 DEF NodeTypeOK
<1>7. ctrlq' \in Seq(CtrlMsg)
  BY <1>5, <1>6, Lengthened
<1>8. ASSUME NEW i \in Cam, cam'[i].recording, clive
      PROVE  Heard(i)'
  <2>1. CASE Told(f[i], c) = "START"
    <3>1. PICK n \in 1..Len(ms) : ms[n][2] = i
      BY <1>5, <2>1
    <3>2. \A m \in n + 1..Len(ms) : m > n /\ m \in 1..Len(ms)
      BY <3>1
    <3>3. Starts(ms, i, n)
      BY <1>5, <2>1, <3>1, <3>2 DEF Starts
    <3>4. ctrlq \in Seq(CtrlMsg) /\ ms \in Seq(CtrlMsg) /\ ctrlq' = ctrlq \o ms /\ n \in 1..Len(ms)
      BY <1>5, <1>6, <3>1
    <3>5. \E k \in 1..Len(ctrlq') : Starts(ctrlq', i, k)
      BY <3>3, <3>4, HeardStart
    <3>6. QED
      BY <3>5 DEF Heard, Starts
  <2>2. CASE Told(f[i], c) = "nothing"
    <3>1. f[i].recording
      BY <1>1, <1>8, <2>2
    <3>2. Heard(i)
      BY <1>8, <3>1 DEF RecordingHeard, Cam
    <3>3. \A n \in 1..Len(ms) : ms[n][2] # i
      BY <1>5, <2>2
    <3>4. CASE i \in rec /\ \A n \in 1..Len(ctrlq) : ctrlq[n][2] # i
      <4>1. \A n \in 1..Len(ctrlq') : ctrlq'[n][2] # i
        BY <1>5, <1>6, <3>3, <3>4, HeardStill
      <4>2. QED
        BY <3>4, <4>1 DEF Heard
    <3>5. CASE \E n \in 1..Len(ctrlq) : Starts(ctrlq, i, n)
      <4>1. \E n \in 1..Len(ctrlq') : Starts(ctrlq', i, n)
        <5>1. \A n \in 1..Len(ctrlq) : Starts(ctrlq, i, n) => Starts(ctrlq', i, n) /\ n \in 1..Len(ctrlq')
          BY <1>5, <1>6, <3>3, HeardStill
        <5>2. QED
          BY <3>5, <5>1
      <4>2. QED
        BY <4>1 DEF Heard, Starts
    <3>6. QED
      BY <3>2, <3>4, <3>5 DEF Heard, Starts
  <2>3. QED
    BY <1>1, <1>8, <2>1, <2>2
<1>9. RecordingHeard'
  BY <1>8 DEF RecordingHeard, Cam
<1>10. QED
  BY <1>1, <1>2, <1>3, <1>7, <1>9

-----------------------------------------------------------------------------
(* The steps.                                                              *)

\* The cameras change in what no message tells.
Quietly == /\ cam' \in [Cam -> Camera] /\ ctrlq' = ctrlq /\ rec' = rec
           /\ \A i \in Cam : cam'[i].recording => cam[i].recording

LEMMA QuietHeard ==
  ASSUME RecordingHeard, Quietly, clive' => clive \/ \A i \in Cam : ~cam[i].recording
  PROVE  RecordingHeard'
<1>1. \A i \in Cam : Heard(i) => Heard(i)'
  BY DEF Heard, Quietly
<1>2. QED
  BY <1>1 DEF RecordingHeard, Quietly, Cam

NodeAll == NodeTypeOK /\ NodeInv /\ RecordingHeard

LEMMA StateChangedKeeps ==
  ASSUME NodeAll, NEW i \in Cam, StateChanged(i)
  PROVE  NodeAll'
<1> DEFINE f == [cam EXCEPT ![i].streaming = ~@]
<1>1. /\ Reconcile(f, ctrl_fd, {}) /\ engine' = engine /\ core' = core /\ timer' = timer /\ num' = num
      /\ ctrl_fd' = ctrl_fd /\ call' = call /\ server' = server /\ pw' = pw
      /\ session' = session /\ plive' = plive /\ clive' = clive /\ request' = request
      /\ stream' = stream /\ rec' = rec /\ Loop
  BY DEF StateChanged, Live, sess
<1>2. cam \in [Cam -> Camera] /\ ctrl_fd \in Nat
  BY DEF NodeAll, NodeTypeOK
<1>3. f \in [Cam -> Camera] /\ \A j \in Cam : f[j].recording = cam[j].recording /\ f[j].fd = cam[j].fd
  <2>1. cam[i] \in Camera
    BY <1>2
  <2>2. [cam[i] EXCEPT !.streaming = ~@] \in Camera /\ [cam[i] EXCEPT !.streaming = ~@].fd = cam[i].fd
        /\ [cam[i] EXCEPT !.streaming = ~@].recording = cam[i].recording
    BY <2>1 DEF Camera
  <2>3. f = [cam EXCEPT ![i] = [cam[i] EXCEPT !.streaming = ~@]]
    BY <1>2
  <2>4. QED
    BY <1>2, <2>2, <2>3
<1> HIDE DEF f
<1>4. /\ cam' \in [Cam -> Camera] /\ ctrlq' \in Seq(CtrlMsg) /\ gets' \in [Cam -> Nat]
      /\ \A j \in Cam : cam'[j].fd = f[j].fd /\ (cam'[j].recording => ctrl_fd # 0 /\ f[j].fd # 0)
      /\ RecordingHeard'
  BY <1>1, <1>2, <1>3, Reconciled DEF NodeAll
<1>5. NodeTypeOK'
  BY <1>1, <1>4 DEF NodeAll, NodeTypeOK
<1>6. NodeInv'
  BY <1>1, <1>3, <1>4 DEF NodeAll, NodeInv
<1>7. QED
  BY <1>4, <1>5, <1>6 DEF NodeAll

LEMMA CoreErrorKeeps ==
  ASSUME NodeAll, CoreError
  PROVE  NodeAll'
<1> DEFINE f == [i \in Cam |-> [cam[i] EXCEPT !.streaming = FALSE]]
<1>1. /\ Reconcile(f, ctrl_fd, {}) /\ engine' = engine /\ core' = "dead" /\ timer' = TRUE /\ num' = num
      /\ ctrl_fd' = ctrl_fd /\ call' = call /\ server' = server /\ pw' = pw
      /\ session' = session /\ plive' = plive /\ clive' = clive /\ request' = request
      /\ stream' = stream /\ rec' = rec /\ Loop
  BY DEF CoreError, sess, Cam
<1>2. cam \in [Cam -> Camera] /\ ctrl_fd \in Nat
  BY DEF NodeAll, NodeTypeOK
<1>3. f \in [Cam -> Camera] /\ \A j \in Cam : f[j].recording = cam[j].recording /\ f[j].fd = cam[j].fd
  <2>1. \A j \in Cam : cam[j] \in Camera
    BY <1>2
  <2>2. \A j \in Cam : f[j] \in Camera /\ f[j].recording = cam[j].recording /\ f[j].fd = cam[j].fd
    BY <2>1 DEF Camera
  <2>3. QED
    BY <2>2
<1> HIDE DEF f
<1>4. /\ cam' \in [Cam -> Camera] /\ ctrlq' \in Seq(CtrlMsg) /\ gets' \in [Cam -> Nat]
      /\ \A j \in Cam : cam'[j].fd = f[j].fd /\ (cam'[j].recording => ctrl_fd # 0 /\ f[j].fd # 0)
      /\ RecordingHeard'
  BY <1>1, <1>2, <1>3, Reconciled DEF NodeAll
<1>5. NodeTypeOK'
  BY <1>1, <1>4 DEF NodeAll, NodeTypeOK
<1>6. NodeInv'
  BY <1>1, <1>3, <1>4 DEF NodeAll, NodeInv
<1>7. QED
  BY <1>4, <1>5, <1>6 DEF NodeAll

\* The calls that change one camera, and tell nothing.
LEMMA OneCamKeeps ==
  ASSUME NodeAll, NEW i \in Cam, NEW k \in Camera, k.fd = cam[i].fd, k.recording = cam[i].recording,
         cam' = [cam EXCEPT ![i] = k], ctrlq' = ctrlq, rec' = rec, clive' = clive, num' = num,
         ctrl_fd' = ctrl_fd, engine' = engine, call' = call, plive' = plive
  PROVE  cam' \in [Cam -> Camera] /\ NodeInv' /\ RecordingHeard'
<1>1. cam \in [Cam -> Camera]
  BY DEF NodeAll, NodeTypeOK
<1>2. cam' \in [Cam -> Camera] /\ \A j \in Cam : cam'[j].fd = cam[j].fd /\ cam'[j].recording = cam[j].recording
  BY <1>1
<1>3. Quietly
  BY <1>2 DEF Quietly
<1>4. RecordingHeard'
  BY <1>3, QuietHeard DEF NodeAll
<1>5. NodeInv'
  BY <1>2 DEF NodeAll, NodeInv
<1>6. QED
  BY <1>2, <1>4, <1>5

LEMMA ParamChangedKeeps ==
  ASSUME NodeAll, NEW i \in Cam, ParamChanged(i)
  PROVE  NodeAll'
<1>1. /\ cam' = [cam EXCEPT ![i].fmt = pw[i].agreed]
      /\ pw' = [pw EXCEPT ![i].pool = pw[i].agreed, ![i].agreed = NONE]
      /\ ctrlq' = ctrlq /\ rec' = rec /\ clive' = clive /\ num' = num /\ ctrl_fd' = ctrl_fd /\ engine' = engine
      /\ call' = call /\ plive' = plive /\ core' = core /\ timer' = timer /\ server' = server
      /\ session' = session /\ request' = request /\ gets' = gets /\ stream' = stream
  BY DEF ParamChanged, sess, phone
<1>2. cam \in [Cam -> Camera] /\ pw \in [Cam -> [offer : Formats, agreed : Formats, pool : Formats]]
  BY DEF NodeAll, NodeTypeOK
<1> DEFINE k == [cam[i] EXCEPT !.fmt = pw[i].agreed]
<1>3. k \in Camera /\ k.fd = cam[i].fd /\ k.recording = cam[i].recording
  <2>1. cam[i] \in Camera /\ pw[i].agreed \in Formats
    BY <1>2
  <2>2. QED
    BY <2>1 DEF Camera
<1>4. cam' = [cam EXCEPT ![i] = k]
  BY <1>1, <1>2
<1> HIDE DEF k
<1>5. cam' \in [Cam -> Camera] /\ NodeInv' /\ RecordingHeard'
  BY <1>1, <1>3, <1>4, OneCamKeeps
<1>6. pw' \in [Cam -> [offer : Formats, agreed : Formats, pool : Formats]]
  <2>1. NONE \in Formats
    BY DEF Formats
  <2>2. \A j \in Cam : pw'[j] \in [offer : Formats, agreed : Formats, pool : Formats]
    BY <1>1, <1>2, <2>1
  <2>3. QED
    BY <1>1, <1>2, <2>2
<1>7. NodeTypeOK'
  BY <1>1, <1>5, <1>6 DEF NodeAll, NodeTypeOK
<1>8. QED
  BY <1>5, <1>7 DEF NodeAll

LEMMA ShmOfferKeeps ==
  ASSUME NodeAll, NEW i \in Cam, ShmOffer(i)
  PROVE  NodeAll'
<1>1. /\ cam' \in {[cam EXCEPT ![i].shm = cam[i].fd], [cam EXCEPT ![i].shm = NONE]}
      /\ stream' = [stream EXCEPT ![i] = Tail(@)] /\ stream[i] # <<>>
      /\ ctrlq' = ctrlq /\ rec' = rec /\ clive' = clive /\ num' = num /\ ctrl_fd' = ctrl_fd /\ engine' = engine
      /\ call' = call /\ plive' = plive /\ core' = core /\ timer' = timer /\ server' = server
      /\ session' = session /\ request' = request /\ gets' = gets /\ pw' = pw
  BY DEF ShmOffer, sess
<1>2. cam \in [Cam -> Camera] /\ stream \in [Cam -> Seq(FrameMsg)]
  BY DEF NodeAll, NodeTypeOK
<1>3. PICK v \in {cam[i].fd, NONE} : cam' = [cam EXCEPT ![i].shm = v]
  BY <1>1
<1> DEFINE k == [cam[i] EXCEPT !.shm = v]
<1>4. k \in Camera /\ k.fd = cam[i].fd /\ k.recording = cam[i].recording
  <2>1. cam[i] \in Camera
    BY <1>2
  <2>2. QED
    BY <1>3, <2>1 DEF Camera
<1>5. cam' = [cam EXCEPT ![i] = k]
  BY <1>2, <1>3
<1> HIDE DEF k
<1>6. cam' \in [Cam -> Camera] /\ NodeInv' /\ RecordingHeard'
  BY <1>1, <1>4, <1>5, OneCamKeeps
<1>7. stream' \in [Cam -> Seq(FrameMsg)]
  <2>1. Tail(stream[i]) \in Seq(FrameMsg)
    BY <1>1, <1>2
  <2>2. QED
    BY <1>1, <1>2, <2>1
<1>8. NodeTypeOK'
  BY <1>1, <1>6, <1>7 DEF NodeAll, NodeTypeOK
<1>9. QED
  BY <1>6, <1>8 DEF NodeAll

LEMMA ReadyKeeps ==
  ASSUME NodeAll, NEW i \in Cam, Ready(i)
  PROVE  NodeAll'
<1> DEFINE renegotiate == cam[i].node /\ cam[i].fmt # "real"
           k == [cam[i] EXCEPT !.frame = IF cam[i].shm = NONE THEN @ ELSE Head(stream[i])[2],
                               !.fmt = IF renegotiate THEN "real" ELSE @]
<1>1. /\ cam' = [cam EXCEPT ![i].frame = IF cam[i].shm = NONE THEN @ ELSE Head(stream[i])[2],
                            ![i].fmt = IF renegotiate THEN "real" ELSE @]
      /\ pw' = (IF renegotiate THEN [pw EXCEPT ![i].offer = "real"] ELSE pw)
      /\ stream' = [stream EXCEPT ![i] = Tail(@)] /\ stream[i] # <<>> /\ Head(stream[i])[1] = "READY"
      /\ ctrlq' = ctrlq /\ rec' = rec /\ clive' = clive /\ num' = num /\ ctrl_fd' = ctrl_fd /\ engine' = engine
      /\ call' = call /\ plive' = plive /\ core' = core /\ timer' = timer /\ server' = server
      /\ session' = session /\ request' = request /\ gets' = gets
  BY DEF Ready, sess
<1>2. /\ cam \in [Cam -> Camera] /\ stream \in [Cam -> Seq(FrameMsg)]
      /\ pw \in [Cam -> [offer : Formats, agreed : Formats, pool : Formats]]
  BY DEF NodeAll, NodeTypeOK
<1>3. "real" \in Formats
  BY DEF Formats, Size
<1>4. Tail(stream[i]) \in Seq(FrameMsg) /\ Head(stream[i])[2] \in Nat
  <2>1. Head(stream[i]) \in FrameMsg /\ Tail(stream[i]) \in Seq(FrameMsg)
    BY <1>1, <1>2
  <2>2. QED
    BY <1>1, <2>1 DEF FrameMsg
<1>5. k \in Camera /\ k.fd = cam[i].fd /\ k.recording = cam[i].recording
  <2>1. cam[i] \in Camera
    BY <1>2
  <2>2. QED
    BY <1>3, <1>4, <2>1 DEF Camera
<1>6. cam' = [cam EXCEPT ![i] = k]
  BY <1>1, <1>2
<1>7. pw' \in [Cam -> [offer : Formats, agreed : Formats, pool : Formats]]
  BY <1>1, <1>2, <1>3
<1> HIDE DEF k, renegotiate
<1>8. cam' \in [Cam -> Camera] /\ NodeInv' /\ RecordingHeard'
  BY <1>1, <1>5, <1>6, OneCamKeeps
<1>9. stream' \in [Cam -> Seq(FrameMsg)]
  BY <1>1, <1>2, <1>4
<1>10. NodeTypeOK'
  BY <1>1, <1>7, <1>8, <1>9 DEF NodeAll, NodeTypeOK
<1>11. QED
  BY <1>8, <1>10 DEF NodeAll

\* What the loop does with the cameras as they are, or another thread does without them.
LEMMA SameCamsKeep ==
  ASSUME NodeAll, cam' = cam, ctrlq' = ctrlq, rec' = rec, clive' = clive, num' = num, ctrl_fd' = ctrl_fd,
         engine' = engine, call' = call, plive' = plive
  PROVE  NodeInv' /\ RecordingHeard'
<1>1. Quietly
  BY DEF Quietly, NodeAll, NodeTypeOK
<1>2. RecordingHeard'
  BY <1>1, QuietHeard DEF NodeAll
<1>3. NodeInv'
  BY DEF NodeAll, NodeInv
<1>4. QED
  BY <1>2, <1>3

LEMMA NegotiateKeeps ==
  ASSUME NodeAll, NEW i \in Cam, Negotiate(i)
  PROVE  NodeAll'
<1>1. /\ pw' = [pw EXCEPT ![i].agreed = pw[i].offer]
      /\ cam' = cam /\ ctrlq' = ctrlq /\ rec' = rec /\ clive' = clive /\ num' = num /\ ctrl_fd' = ctrl_fd
      /\ engine' = engine /\ call' = call /\ plive' = plive /\ core' = core /\ timer' = timer
      /\ server' = server /\ session' = session /\ request' = request /\ gets' = gets /\ stream' = stream
  BY DEF Negotiate, eng, sess, phone
<1>2. NodeInv' /\ RecordingHeard'
  BY <1>1, SameCamsKeep
<1>3. pw' \in [Cam -> [offer : Formats, agreed : Formats, pool : Formats]]
  BY <1>1 DEF NodeAll, NodeTypeOK
<1>4. NodeTypeOK'
  BY <1>1, <1>3 DEF NodeAll, NodeTypeOK
<1>5. QED
  BY <1>2, <1>4 DEF NodeAll

LEMMA StreamHandleMsgKeeps ==
  ASSUME NodeAll, NEW i \in Cam, StreamHandleMsg(i)
  PROVE  NodeAll'
<1>1. /\ gets[i] > 0 /\ gets' = [gets EXCEPT ![i] = @ - 1]
      /\ stream' = [stream EXCEPT ![i] = Append(@, <<"OFFER">>)]
      /\ cam' = cam /\ ctrlq' = ctrlq /\ rec' = rec /\ clive' = clive /\ num' = num /\ ctrl_fd' = ctrl_fd
      /\ engine' = engine /\ call' = call /\ plive' = plive /\ core' = core /\ timer' = timer
      /\ server' = server /\ session' = session /\ request' = request /\ pw' = pw
  BY DEF StreamHandleMsg, eng, sess
<1>2. NodeInv' /\ RecordingHeard'
  BY <1>1, SameCamsKeep
<1>3. stream \in [Cam -> Seq(FrameMsg)] /\ gets \in [Cam -> Nat] /\ <<"OFFER">> \in FrameMsg
  BY DEF NodeAll, NodeTypeOK, FrameMsg
<1>4. Append(stream[i], <<"OFFER">>) \in Seq(FrameMsg)
  BY <1>3
<1>5. stream' \in [Cam -> Seq(FrameMsg)] /\ gets' \in [Cam -> Nat]
  BY <1>1, <1>3, <1>4
<1>6. NodeTypeOK'
  BY <1>1, <1>5 DEF NodeAll, NodeTypeOK
<1>7. QED
  BY <1>2, <1>6 DEF NodeAll

LEMMA FrameReadyKeeps ==
  ASSUME NodeAll, NEW i \in Cam, FrameReady(i)
  PROVE  NodeAll'
<1>1. /\ stream' = [stream EXCEPT ![i] = Append(@, <<"READY", session>>)]
      /\ cam' = cam /\ ctrlq' = ctrlq /\ rec' = rec /\ clive' = clive /\ num' = num /\ ctrl_fd' = ctrl_fd
      /\ engine' = engine /\ call' = call /\ plive' = plive /\ core' = core /\ timer' = timer
      /\ server' = server /\ session' = session /\ request' = request /\ pw' = pw /\ gets' = gets
  BY DEF FrameReady, eng, sess
<1>2. NodeInv' /\ RecordingHeard'
  BY <1>1, SameCamsKeep
<1>3. stream \in [Cam -> Seq(FrameMsg)] /\ <<"READY", session>> \in FrameMsg
  BY DEF NodeAll, NodeTypeOK, FrameMsg
<1>4. Append(stream[i], <<"READY", session>>) \in Seq(FrameMsg)
  BY <1>3
<1>5. stream' \in [Cam -> Seq(FrameMsg)]
  BY <1>1, <1>3, <1>4
<1>6. NodeTypeOK'
  BY <1>1, <1>5 DEF NodeAll, NodeTypeOK
<1>7. QED
  BY <1>2, <1>6 DEF NodeAll

LEMMA ServerKeeps ==
  ASSUME NodeAll, ServerGoes \/ ServerComes
  PROVE  NodeAll'
<1>1. /\ cam' = cam /\ ctrlq' = ctrlq /\ rec' = rec /\ clive' = clive /\ num' = num /\ ctrl_fd' = ctrl_fd
      /\ engine' = engine /\ call' = call /\ plive' = plive /\ timer' = timer /\ stream' = stream
      /\ session' = session /\ request' = request /\ gets' = gets
      /\ server' \in BOOLEAN /\ core' \in {core, "broken"}
      /\ pw' \in {pw, [i \in Cam |-> [pw[i] EXCEPT !.agreed = NONE, !.pool = NONE]]}
  BY DEF ServerGoes, ServerComes, eng, sess, phone, Cam
<1>2. NodeInv' /\ RecordingHeard'
  BY <1>1, SameCamsKeep
<1>3. pw' \in [Cam -> [offer : Formats, agreed : Formats, pool : Formats]]
  <2>1. NONE \in Formats /\ pw \in [Cam -> [offer : Formats, agreed : Formats, pool : Formats]]
    BY DEF Formats, NodeAll, NodeTypeOK
  <2>2. \A i \in Cam : [pw[i] EXCEPT !.agreed = NONE, !.pool = NONE] \in [offer : Formats, agreed : Formats, pool : Formats]
    BY <2>1
  <2>3. QED
    BY <1>1, <2>1, <2>2
<1>4. NodeTypeOK'
  BY <1>1, <1>3 DEF NodeAll, NodeTypeOK
<1>5. QED
  BY <1>2, <1>4 DEF NodeAll

LEMMA ReconnectTimerKeeps ==
  ASSUME NodeAll, ReconnectTimer
  PROVE  NodeAll'
<1> DEFINE back(i) == server /\ i <= num
<1>1. /\ core' \in {"live", "none"} /\ timer' \in BOOLEAN
      /\ cam' = [i \in Cam |-> IF back(i)
                               THEN [Created(Destroyed(cam[i])) EXCEPT !.io = cam[i].fd # 0]
                               ELSE Destroyed(cam[i])]
      /\ pw' = [i \in Cam |-> IF back(i) THEN Offering(cam'[i].fmt) ELSE pw[i]]
      /\ engine' = engine /\ num' = num /\ ctrl_fd' = ctrl_fd /\ call' = call /\ server' = server
      /\ session' = session /\ plive' = plive /\ clive' = clive /\ request' = request
      /\ ctrlq' = ctrlq /\ gets' = gets /\ stream' = stream /\ rec' = rec
  BY DEF ReconnectTimer, sess, phone, Cam
<1>2. cam \in [Cam -> Camera] /\ pw \in [Cam -> [offer : Formats, agreed : Formats, pool : Formats]]
  BY DEF NodeAll, NodeTypeOK
<1>3. \A i \in Cam : cam'[i] \in Camera /\ cam'[i].fd = cam[i].fd /\ ~cam'[i].recording
  <2>1. SUFFICES ASSUME NEW i \in Cam
                 PROVE  cam'[i] \in Camera /\ cam'[i].fd = cam[i].fd /\ ~cam'[i].recording
    OBVIOUS
  <2>2. cam[i] \in Camera
    BY <1>2
  <2>3. Destroyed(cam[i]) \in Camera /\ Destroyed(cam[i]).fd = cam[i].fd /\ ~Destroyed(cam[i]).recording
    BY <2>2, CamFacts
  <2> DEFINE k == Created(Destroyed(cam[i]))
  <2>4. k \in Camera /\ k.fd = cam[i].fd /\ ~k.recording
    BY <2>3, CamFacts
  <2> HIDE DEF k
  <2>5. LET b == cam[i].fd # 0 IN [k EXCEPT !.io = b] \in Camera /\ [k EXCEPT !.io = b].fd = k.fd
                                 /\ [k EXCEPT !.io = b].recording = k.recording
    BY <2>4 DEF Camera
  <2>6. QED
    BY <1>1, <2>3, <2>4, <2>5 DEF k
<1>4. cam' \in [Cam -> Camera]
  BY <1>1, <1>3
<1>5. pw' \in [Cam -> [offer : Formats, agreed : Formats, pool : Formats]]
  <2>1. NONE \in Formats /\ \A i \in Cam : cam'[i].fmt \in Formats
    BY <1>3 DEF Formats, Camera
  <2>2. \A i \in Cam : Offering(cam'[i].fmt) \in [offer : Formats, agreed : Formats, pool : Formats]
    BY <2>1 DEF Offering
  <2>3. QED
    BY <1>1, <1>2, <2>2
<1>6. Quietly
  BY <1>1, <1>3, <1>4 DEF Quietly
<1>7. RecordingHeard'
  BY <1>1, <1>6, QuietHeard DEF NodeAll
<1>8. NodeInv'
  BY <1>1, <1>3 DEF NodeAll, NodeInv
<1>9. NodeTypeOK'
  BY <1>1, <1>4, <1>5 DEF NodeAll, NodeTypeOK
<1>10. QED
  BY <1>7, <1>8, <1>9 DEF NodeAll

LEMMA ConnectKeeps ==
  ASSUME NodeAll, Connect
  PROVE  NodeAll'
<1>1. /\ ~plive /\ session' = session + 1 /\ plive' = TRUE /\ clive' = TRUE /\ request' = "asked"
      /\ cam' = cam /\ ctrlq' = ctrlq /\ rec' = rec /\ num' = num /\ ctrl_fd' = ctrl_fd
      /\ engine' = engine /\ call' = call /\ core' = core /\ timer' = timer
      /\ server' = server /\ pw' = pw /\ gets' = gets /\ stream' = stream
  BY DEF Connect, eng, phone
<1>2. \A i \in Cam : ~cam[i].recording
  BY <1>1 DEF NodeAll, NodeInv
<1>3. Quietly
  BY <1>1 DEF Quietly, NodeAll, NodeTypeOK
<1>4. RecordingHeard'
  BY <1>2, <1>3, QuietHeard DEF NodeAll
<1>5. NodeInv'
  BY <1>1 DEF NodeAll, NodeInv
<1>6. NodeTypeOK'
  BY <1>1 DEF NodeAll, NodeTypeOK
<1>7. QED
  BY <1>4, <1>5, <1>6 DEF NodeAll

LEMMA QueryMaxResKeeps ==
  ASSUME NodeAll, QueryMaxRes
  PROVE  NodeAll'
<1>1. /\ plive /\ engine' = "on" /\ request' = "answered"
      /\ core' \in {core, "live", "none"} /\ timer' \in BOOLEAN
      /\ cam' = cam /\ ctrlq' = ctrlq /\ rec' = rec /\ clive' = clive /\ num' = num /\ ctrl_fd' = ctrl_fd
      /\ plive' = plive /\ session' = session
      /\ server' = server /\ pw' = pw /\ gets' = gets /\ stream' = stream
  BY DEF QueryMaxRes, phone, NodeAll, NodeTypeOK
<1>2. call'.n \in Nat /\ call'.q \in {NONE, "real"}
  <2>1. PICK n \in 0..NumCam, q \in {NONE, "real"} : call' = [n |-> n, q |-> q]
    BY DEF QueryMaxRes
  <2>2. NumCam \in Nat
    BY CameraNodeAssumption
  <2>3. QED
    BY <2>1, <2>2
<1>3. Quietly
  BY <1>1 DEF Quietly, NodeAll, NodeTypeOK
<1>4. RecordingHeard'
  BY <1>1, <1>3, QuietHeard DEF NodeAll
<1>5. NodeInv'
  BY <1>1 DEF NodeAll, NodeInv
<1>6. NodeTypeOK'
  BY <1>1, <1>2 DEF NodeAll, NodeTypeOK
<1>7. QED
  BY <1>4, <1>5, <1>6 DEF NodeAll

LEMMA SetResourcesKeeps ==
  ASSUME NodeAll, SetResources
  PROVE  NodeAll'
<1>1. /\ call # NONE /\ call' = NONE /\ engine = "on" /\ plive /\ call.n \in Nat /\ call.q \in {NONE, "real"}
      /\ core' = core /\ timer' = timer /\ server' = server /\ rec' = rec /\ stream' = stream
      /\ session' = session /\ plive' = plive /\ clive' = clive /\ request' = request
  BY DEF SetResources, Loop, sess, NodeAll, NodeTypeOK, NodeInv
<1>2. cam \in [Cam -> Camera] /\ pw \in [Cam -> [offer : Formats, agreed : Formats, pool : Formats]]
      /\ session \in Nat
  BY DEF NodeAll, NodeTypeOK
<1>3. CASE core = "none" /\ NewNodes # {}
  <2>1. /\ engine' = "crashed" /\ ctrl_fd' = ctrl_fd /\ num' = num /\ cam' = cam /\ pw' = pw
        /\ ctrlq' = ctrlq /\ gets' = gets
    BY <1>3 DEF SetResources
  <2>2. Quietly
    BY <1>1, <1>2, <2>1 DEF Quietly
  <2>3. RecordingHeard'
    BY <1>1, <2>2, QuietHeard DEF NodeAll
  <2>4. NodeInv'
    BY <1>1, <2>1 DEF NodeAll, NodeInv
  <2>5. NodeTypeOK'
    BY <1>1, <2>1 DEF NodeAll, NodeTypeOK
  <2>6. QED
    BY <2>3, <2>4, <2>5 DEF NodeAll
<1>4. CASE ~(core = "none" /\ NewNodes # {})
  <2> DEFINE q(i) == [cam[i] EXCEPT !.fmt = IF ~cam[i].node /\ call.q # NONE THEN call.q ELSE @]
             f == [i \in Cam |-> IF i <= call.n THEN Attached(Created(q(i)), session)
                                 ELSE IF i <= num THEN Attached(Destroyed(cam[i]), 0) ELSE cam[i]]
  <2>1. /\ engine' = engine /\ ctrl_fd' = session /\ num' = call.n
        /\ Reconcile(f, session, 1..call.n)
        /\ pw' = [i \in Cam |-> IF i \in NewNodes THEN Offering(cam'[i].fmt) ELSE pw[i]]
    BY <1>4 DEF SetResources, Cam
  <2>2. \A i \in Cam : /\ f[i] \in Camera
                       /\ f[i].recording => cam[i].recording
                       /\ i > call.n => f[i].fd = 0 /\ ~f[i].recording
    <3>1. SUFFICES ASSUME NEW i \in Cam
                   PROVE  /\ f[i] \in Camera
                          /\ f[i].recording => cam[i].recording
                          /\ i > call.n => f[i].fd = 0 /\ ~f[i].recording
      OBVIOUS
    <3>2. cam[i] \in Camera
      BY <1>2
    <3>3. i \in Nat /\ num \in Nat
      BY DEF Cam, Cam, NodeAll, NodeTypeOK
    <3>4. CASE i <= call.n
      <4>1. q(i) \in Camera /\ q(i).recording = cam[i].recording
        BY <1>1, <3>2 DEF Camera, Formats, Size
      <4> HIDE DEF q
      <4>2. Created(q(i)) \in Camera /\ (Created(q(i)).recording => q(i).recording)
        BY <4>1, CamFacts
      <4> DEFINE k == Created(q(i))
      <4>3. f[i] = Attached(k, session)
        BY <3>4
      <4>4. k \in Camera
        BY <4>2
      <4> HIDE DEF k, f
      <4>5. Attached(k, session) \in Camera /\ Attached(k, session).recording = k.recording
        BY <1>2, <4>4, AttachedFacts
      <4>6. QED
        BY <1>1, <3>3, <3>4, <4>1, <4>2, <4>3, <4>5 DEF k
    <3>5. CASE ~(i <= call.n) /\ i <= num
      <4>1. Destroyed(cam[i]) \in Camera /\ ~Destroyed(cam[i]).recording
        BY <3>2, CamFacts
      <4> DEFINE k == Destroyed(cam[i])
      <4>2. f[i] = Attached(k, 0)
        BY <3>5
      <4>3. k \in Camera /\ ~k.recording /\ 0 \in Nat
        BY <4>1
      <4> HIDE DEF k, f
      <4>4. Attached(k, 0) \in Camera /\ Attached(k, 0).fd = 0 /\ Attached(k, 0).recording = k.recording
        BY <4>3, AttachedFacts
      <4>5. QED
        BY <4>2, <4>3, <4>4
    <3>6. CASE ~(i <= call.n) /\ ~(i <= num)
      <4>1. f[i] = cam[i]
        BY <3>6
      <4>2. cam[i].fd = 0 /\ ~cam[i].recording
        BY <3>3, <3>6 DEF NodeAll, NodeInv
      <4> HIDE DEF f
      <4>3. QED
        BY <3>2, <4>1, <4>2
    <3>7. QED
      BY <3>4, <3>5, <3>6
  <2>3. f \in [Cam -> Camera]
    BY <2>2
  <2> HIDE DEF f, q
  <2>4. /\ cam' \in [Cam -> Camera] /\ ctrlq' \in Seq(CtrlMsg) /\ gets' \in [Cam -> Nat]
        /\ \A i \in Cam : cam'[i].fd = f[i].fd /\ (cam'[i].recording => session # 0 /\ f[i].fd # 0)
        /\ RecordingHeard'
    BY <1>1, <1>2, <2>1, <2>2, <2>3, Reconciled DEF NodeAll
  <2>5. pw' \in [Cam -> [offer : Formats, agreed : Formats, pool : Formats]]
    <3>1. NONE \in Formats /\ \A i \in Cam : cam'[i].fmt \in Formats
      BY <2>4 DEF Formats, Camera
    <3>2. \A i \in Cam : Offering(cam'[i].fmt) \in [offer : Formats, agreed : Formats, pool : Formats]
      BY <3>1 DEF Offering
    <3>3. QED
      BY <1>2, <2>1, <3>2
  <2>6. NodeTypeOK'
    BY <1>1, <1>2, <2>1, <2>4, <2>5 DEF NodeAll, NodeTypeOK
  <2>7. NodeInv'
    BY <1>1, <2>1, <2>2, <2>4 DEF NodeInv
  <2>8. QED
    BY <2>4, <2>6, <2>7 DEF NodeAll
<1>5. QED
  BY <1>3, <1>4

\* anland_camera_clear takes the sockets from every camera of the consumer's.
LEMMA ClearFacts ==
  ASSUME NodeAll, Clear, engine # "crashed"
  PROVE  /\ ctrl_fd' \in {0, ctrl_fd} /\ ctrl_fd' = 0
         /\ cam' \in [Cam -> Camera]
         /\ \A i \in Cam : ~cam'[i].recording /\ (i > num => cam'[i].fd = 0)
<1>1. /\ cam \in [Cam -> Camera] /\ num \in Nat /\ engine \in {"off", "on", "crashed"}
      /\ \A i \in Cam : i > num => cam[i].fd = 0 /\ ~cam[i].recording
      /\ engine = "off" => ctrl_fd = 0 /\ num = 0
  BY DEF NodeAll, NodeTypeOK, NodeInv
<1>2. \A i \in Cam : i \in Nat /\ i > 0
  BY DEF Cam
<1>3. CASE engine = "on"
  <2>1. ctrl_fd' = 0 /\ cam' = [i \in Cam |-> IF i <= num THEN Cleared(cam[i]) ELSE cam[i]]
    BY <1>3 DEF Clear, Loop, Cam
  <2>2. \A i \in Cam : Cleared(cam[i]) \in Camera /\ Cleared(cam[i]).fd = 0 /\ ~Cleared(cam[i]).recording
    <3>1. \A i \in Cam : cam[i] \in Camera
      BY <1>1
    <3>2. QED
      BY <3>1, CamFacts
  <2>3. \A i \in Cam : cam'[i] \in Camera /\ ~cam'[i].recording /\ (i > num => cam'[i].fd = 0)
    BY <1>1, <1>2, <2>1, <2>2
  <2>4. QED
    BY <2>1, <2>3
<1>4. CASE engine = "off"
  <2>1. ctrl_fd' = ctrl_fd /\ cam' = cam
    BY <1>4 DEF Clear, Loop
  <2>2. QED
    BY <1>1, <1>2, <1>4, <2>1
<1>5. QED
  BY <1>1, <1>3, <1>4

LEMMA ClearsKeep ==
  ASSUME NodeAll, EnterFallback \/ ResourceInvalid
  PROVE  NodeAll'
<1>1. /\ Clear /\ engine # "crashed" /\ plive' \in {plive, FALSE} /\ request' \in {"none", "answered"}
      /\ plive' # plive => call = NONE
      /\ ctrlq' = ctrlq /\ rec' = rec /\ clive' = clive /\ num' = num
      /\ engine' = engine /\ call' = call /\ core' = core /\ timer' = timer /\ session' = session
      /\ server' = server /\ pw' = pw /\ gets' = gets /\ stream' = stream
  BY DEF EnterFallback, ResourceInvalid, phone
<1>2. /\ ctrl_fd' = 0 /\ cam' \in [Cam -> Camera]
      /\ \A i \in Cam : ~cam'[i].recording /\ (i > num => cam'[i].fd = 0)
  BY <1>1, ClearFacts
<1>3. Quietly
  BY <1>1, <1>2 DEF Quietly
<1>4. RecordingHeard'
  BY <1>1, <1>3, QuietHeard DEF NodeAll
<1>5. NodeInv'
  BY <1>1, <1>2 DEF NodeAll, NodeInv, NodeTypeOK
<1>6. NodeTypeOK'
  BY <1>1, <1>2 DEF NodeAll, NodeTypeOK
<1>7. QED
  BY <1>4, <1>5, <1>6 DEF NodeAll

LEMMA FreeResourceKeeps ==
  ASSUME NodeAll, CameraFreeResource
  PROVE  NodeAll'
<1>1. /\ clive' = FALSE /\ rec' = {}
      /\ cam' = cam /\ ctrlq' = ctrlq /\ num' = num /\ ctrl_fd' = ctrl_fd /\ plive' = plive
      /\ engine' = engine /\ call' = call /\ core' = core /\ timer' = timer /\ session' = session
      /\ server' = server /\ pw' = pw /\ gets' = gets /\ stream' = stream /\ request' = request
  BY DEF CameraFreeResource, eng
<1>2. RecordingHeard'
  BY <1>1 DEF RecordingHeard
<1>3. NodeInv'
  BY <1>1 DEF NodeAll, NodeInv
<1>4. NodeTypeOK'
  BY <1>1 DEF NodeAll, NodeTypeOK
<1>5. QED
  BY <1>2, <1>3, <1>4 DEF NodeAll

LEMMA CtrlHandleMsgKeeps ==
  ASSUME NodeAll, CtrlHandleMsg
  PROVE  NodeAll'
<1>1. /\ ctrlq # <<>> /\ ctrlq' = Tail(ctrlq)
      /\ rec' \in {rec \cup {Head(ctrlq)[2]}, rec \ {Head(ctrlq)[2]}}
      /\ cam' = cam /\ clive' = clive /\ num' = num /\ ctrl_fd' = ctrl_fd /\ plive' = plive
      /\ engine' = engine /\ call' = call /\ core' = core /\ timer' = timer /\ session' = session
      /\ server' = server /\ pw' = pw /\ gets' = gets /\ stream' = stream /\ request' = request
  BY DEF CtrlHandleMsg, eng, sess
<1>2. NodeTypeOK
  BY DEF NodeAll
<1>3. \A i : Heard(i) => Heard(i)'
  BY <1>2, HeardNext
<1>4. RecordingHeard'
  BY <1>1, <1>3 DEF RecordingHeard, NodeAll
<1>5. NodeInv'
  BY <1>1 DEF NodeAll, NodeInv
<1>6. ctrlq' \in Seq(CtrlMsg) /\ rec' \subseteq Cam
  <2>1. ctrlq \in Seq(CtrlMsg) /\ rec \subseteq Cam
    BY <1>2 DEF NodeTypeOK
  <2>2. Tail(ctrlq) \in Seq(CtrlMsg) /\ Head(ctrlq) \in CtrlMsg
    BY <1>1, <2>1
  <2>3. Head(ctrlq)[2] \in Cam
    BY <2>2 DEF CtrlMsg
  <2>4. QED
    BY <1>1, <2>1, <2>2, <2>3
<1>7. NodeTypeOK'
  BY <1>1, <1>2, <1>6 DEF NodeTypeOK
<1>8. QED
  BY <1>4, <1>5, <1>7 DEF NodeAll

-----------------------------------------------------------------------------
LEMMA NodeInitial ==
  ASSUME NodeInit
  PROVE  NodeAll
<1> DEFINE k == [node |-> FALSE, streaming |-> FALSE, recording |-> FALSE, fd |-> 0,
                 io |-> FALSE, shm |-> NONE, asked |-> FALSE, frame |-> NONE, fmt |-> NONE]
           p == [offer |-> NONE, agreed |-> NONE, pool |-> NONE]
<1>1. NodeTypeOK
  <2>1. k \in Camera /\ p \in [offer : Formats, agreed : Formats, pool : Formats]
    BY DEF Camera, Formats
  <2>2. cam = [i \in Cam |-> k] /\ pw = [i \in Cam |-> p]
    BY DEF NodeInit, Cam
  <2> HIDE DEF k, p
  <2>3. cam \in [Cam -> Camera] /\ pw \in [Cam -> [offer : Formats, agreed : Formats, pool : Formats]]
    BY <2>1, <2>2
  <2>4. /\ ctrlq = <<>> /\ gets = [i \in Cam |-> 0] /\ stream = [i \in Cam |-> <<>>] /\ rec = {}
        /\ engine = "off" /\ core = "none" /\ timer = FALSE /\ num = 0 /\ ctrl_fd = 0 /\ call = NONE
        /\ server \in BOOLEAN /\ session = 0 /\ plive = FALSE /\ clive = FALSE /\ request = "none"
    BY DEF NodeInit, Cam
  <2>5. ctrlq \in Seq(CtrlMsg) /\ gets \in [Cam -> Nat] /\ stream \in [Cam -> Seq(FrameMsg)] /\ rec \subseteq Cam
    BY <2>4
  <2>6. QED
    BY <2>3, <2>4, <2>5 DEF NodeTypeOK
<1>2. \A i \in Cam : cam[i].fd = 0 /\ cam[i].recording = FALSE
  BY DEF NodeInit, Cam
<1>3. NodeInv /\ RecordingHeard
  BY <1>2 DEF NodeInit, NodeInv, RecordingHeard, Cam
<1>4. QED
  BY <1>1, <1>3 DEF NodeAll

LEMMA NodeStep ==
  ASSUME NodeAll, [NodeNext]_nodeVars
  PROVE  NodeAll'
<1>1. CASE UNCHANGED nodeVars
  <2>1. /\ cam' = cam /\ ctrlq' = ctrlq /\ rec' = rec /\ clive' = clive /\ num' = num /\ ctrl_fd' = ctrl_fd
        /\ engine' = engine /\ call' = call /\ plive' = plive /\ core' = core /\ timer' = timer
        /\ server' = server /\ session' = session /\ request' = request /\ gets' = gets /\ stream' = stream
        /\ pw' = pw
    BY <1>1 DEF nodeVars, eng, sess, phone
  <2>2. NodeInv' /\ RecordingHeard'
    BY <2>1, SameCamsKeep
  <2>3. NodeTypeOK'
    BY <2>1 DEF NodeAll, NodeTypeOK
  <2>4. QED
    BY <2>2, <2>3 DEF NodeAll
<1>2. CASE \E i \in Cam : StateChanged(i) \/ Negotiate(i) \/ LoopStep(i) \/ ServiceStep(i)
  <2>1. PICK i \in Cam : StateChanged(i) \/ Negotiate(i) \/ LoopStep(i) \/ ServiceStep(i)
    BY <1>2
  <2>2. \/ StateChanged(i) \/ Negotiate(i) \/ ParamChanged(i) \/ ShmOffer(i) \/ Ready(i)
        \/ StreamHandleMsg(i) \/ FrameReady(i)
    BY <2>1 DEF LoopStep, ServiceStep
  <2>3. QED
    BY <2>2, StateChangedKeeps, NegotiateKeeps, ParamChangedKeeps, ShmOfferKeeps, ReadyKeeps,
       StreamHandleMsgKeeps, FrameReadyKeeps
<1>3. CASE \/ CoreError \/ ReconnectTimer \/ Connect \/ QueryMaxRes \/ SetResources
           \/ EnterFallback \/ ResourceInvalid \/ CameraFreeResource \/ CtrlHandleMsg
           \/ ServerGoes \/ ServerComes
  BY <1>3, CoreErrorKeeps, ReconnectTimerKeeps, ConnectKeeps, QueryMaxResKeeps, SetResourcesKeeps, ClearsKeep,
     FreeResourceKeeps, CtrlHandleMsgKeeps, ServerKeeps
<1>4. QED
  BY <1>1, <1>2, <1>3 DEF NodeNext, Cam

LEMMA SpecNode == NodeSpec => []NodeAll
<1>1. NodeInit => NodeAll
  BY NodeInitial
<1>2. NodeAll /\ [NodeNext]_nodeVars => NodeAll'
  BY NodeStep
<1>3. QED
  BY <1>1, <1>2, PTL DEF NodeSpec

\* What the engine, PipeWire and the service keep has its type; a camera that is not the
\* consumer's has no socket and does not record, none does between two consumers
\* (anland_camera_clear), and set_resources waits for its answer in the session that asked.
THEOREM NodesInOrder == NodeSpec => [](NodeTypeOK /\ NodeInv)
<1>1. NodeAll => NodeTypeOK /\ NodeInv
  BY DEF NodeAll
<1>2. QED
  BY <1>1, SpecNode, PTL

\* "recording: we've told the consumer to START on ctrl" (anland_camera.c): through
\* sessions, restarts of PipeWire and cameras that come and go, a camera that
\* update_recording takes for recording is one the present consumer's service records with
\* nothing unread about it, or about which the last unread message is START.
THEOREM RecordingIsHeard == NodeSpec => []RecordingHeard
<1>1. NodeAll => RecordingHeard
  BY DEF NodeAll
<1>2. QED
  BY <1>1, SpecNode, PTL

=============================================================================
