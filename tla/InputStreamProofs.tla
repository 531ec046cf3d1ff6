-------------------------- MODULE InputStreamProofs --------------------------
(***************************************************************************)
(* Theorems about InputStream.tla, for any number of devices, keys,         *)
(* contacts and records on the way.                                         *)
(*                                                                         *)
(* All records between the helper and the main thread are one sequence: the *)
(* posts, the socket and what is left of the record being written.  The     *)
(* main thread takes its first record, the helper appends to it, and every  *)
(* other step leaves it as it is.  The invariants say what the state after  *)
(* any prefix of it will be.                                                *)
(***************************************************************************)
EXTENDS InputStream, TLAPS

-----------------------------------------------------------------------------
(* The stream.                                                             *)

Rest(o)   == IF o.pending = NULL \/ helper = "gone" THEN <<>> ELSE <<o.pending>>
Coming(o) == o.wire \o Rest(o)
Stream(o) == posted \o Parse(Coming(o))

Presses(r, k) == r.rtype = "EVENT" /\ r.ev = KeyEv(k, TRUE)
Lifts(r, k) ==
  \/ r.rtype \in {"RESYNC", "END"}
  \/ r.rtype = "EVENT" /\ r.ev = KeyEv(k, FALSE)
EventOf(r, d) == r.rtype = "EVENT" /\ r.dev = d
Opens(r, d)   == r.rtype = "DEVICE" /\ r.dev = d

\* After the first n records of s, the Dev of d is generation g's.
GenAfter(s, n, d, g) ==
  \/ /\ \A i \in 1..n : ~Opens(s[i], d)
     /\ devs[d] # NULL /\ devs[d].gen = g
  \/ \E i \in 1..n :
       /\ Opens(s[i], d) /\ s[i].gen = g
       /\ \A j \in 1..n : j > i => ~Opens(s[j], d)

\* After the first n records of s, no contact of d is down.
QuietAfter(s, n, d) ==
  \/ /\ \A p \in desk : p[1] # d
     /\ \A i \in 1..n : ~EventOf(s[i], d)
  \/ \E i \in 1..n :
       /\ s[i].rtype = "RESYNC"
       /\ \A j \in 1..n : j > i => ~EventOf(s[j], d)

\* After s, key k is down.
HeldAfter(s, k) ==
  \/ k \in keyDown /\ \A i \in 1..Len(s) : ~Lifts(s[i], k)
  \/ \E i \in 1..Len(s) :
       Presses(s[i], k) /\ \A j \in 1..Len(s) : j > i => ~Lifts(s[j], k)

-----------------------------------------------------------------------------
(* The inductive invariant.                                                *)

\* The records of a device follow its DEVICE, and a DEVICE follows the marker
\* that lets go of the contacts of the last one.
RecordsInv(s) ==
  \A i \in 1..Len(s), d \in DevId :
    /\ EventOf(s[i], d) => GenAfter(s, i - 1, d, s[i].gen)
    /\ Opens(s[i], d) => QuietAfter(s, i - 1, d)

Shown(d) == g_devs[d] # NULL /\ g_devs[d].announced

\* What the helper adds next fits what is on the way.  lost: a marker is due.
HelperInv(s, lost) ==
  helper = "run" =>
    \A d \in DevId :
      /\ Shown(d) => GenAfter(s, Len(s), d, g_devs[d].gen)
      /\ ~Shown(d) /\ ~lost => QuietAfter(s, Len(s), d)

WillRelease(n, k) == \E i \in 1..Len(evq[n]) : evq[n][i] = KeyEv(k, FALSE)

\* Somebody holds the key, or its release is on its way to the helper, or the
\* helper is about to find the keyboard gone.
Holder(d, k) ==
  /\ Shown(d)
  /\ \/ g_devs[d].dead
     \/ g_devs[d].node \in KeyNode
          /\ (k \in down[g_devs[d].node] \/ WillRelease(g_devs[d].node, k))

KeysInv(s, lost) ==
  helper = "run" =>
    \A k \in Key : HeldAfter(s, k) => lost \/ \E d \in DevId : Holder(d, k)

LinkInv(s, lost) == RecordsInv(s) /\ HelperInv(s, lost) /\ KeysInv(s, lost)

\* The events of a node that is read, while it is read.
EventsInv ==
  /\ \A n \in KeyNode : evq[n] \in Seq(KeyEvent)
  /\ \A n \in TouchNode : evq[n] \in Seq(TouchEvent)
  /\ helper = "run" =>
       /\ \A n \in Node : evq[n] # <<>> => Tracked(n)
       /\ \A n \in KeyNode, k \in Key : \A i \in 1..Len(evq[n]) :
            evq[n][i] = KeyEv(k, TRUE) =>
              k \in down[n]
                \/ \E j \in 1..Len(evq[n]) : j > i /\ evq[n][j] = KeyEv(k, FALSE)

\* The end of the session is the end of the stream.
EndInv ==
  /\ \A i \in 1..Len(Stream(out)) :
       Stream(out)[i].rtype = "END" => i = Len(Stream(out)) /\ helper = "gone"
  /\ \A i \in 1..Len(posted) : posted[i].rtype = "END" => ~reader
  /\ ~reader => helper = "gone" /\ out.wire = <<>>
  /\ over => ~reader /\ posted = <<>> /\ keyDown = {} /\ desk = {}

IInv ==
  /\ TypeOK /\ ContactsOwned
  /\ LinkInv(Stream(out), out.resync)
  /\ EventsInv /\ EndInv

-----------------------------------------------------------------------------
(* Facts about the records.                                                *)

Out   == [wire : Seq(Record), pending : Record \cup {NULL}, resync : BOOLEAN, drops : Nat]
Line  == Seq(Posting)

LEMMA NullFacts ==
  /\ NULL \notin Node /\ NULL \notin Record /\ NULL \notin Entry /\ NULL \notin Dev
  /\ \A n \in KeyNode : n \notin TouchNode /\ n \in Node
  /\ \A n \in TouchNode : n \notin KeyNode /\ n \in Node
  /\ MAX_DROPS \in Nat /\ Slot0 \in Contact
BY StreamAssumption DEF Node

LEMMA RecordFacts ==
  /\ Resync \in Record /\ Bye \in Record /\ EndMark \in Posting
  /\ \A r \in Record : Post(r) \in Posting
  /\ \A r \in Record : r # Bye => Post(r) = r /\ r.rtype # "END"
  /\ Resync.rtype = "RESYNC" /\ EndMark.rtype = "END" /\ Resync # Bye
  /\ Post(Bye) = EndMark /\ Post(Resync) = Resync
<1>1. Resync \in Record /\ Bye \in Record /\ EndMark \in Posting
  BY DEF Resync, Bye, EndMark, Record, Posting
<1>2. Resync # Bye
  BY DEF Resync, Bye
<1>3. \A r \in Record : r.rtype # "END" /\ (r # Bye => r \in Posting)
  BY DEF Record, DeviceRecord, Posting, Bye
<1>4. Resync.rtype = "RESYNC" /\ EndMark.rtype = "END"
  BY DEF Resync, EndMark
<1>5. QED
  BY <1>1, <1>2, <1>3, <1>4 DEF Post

LEMMA MadeRecords ==
  ASSUME NEW d \in DevId, NEW g \in Nat, NEW e \in KeyEvent \cup TouchEvent
  PROVE  /\ Event(d, g, e) \in Record /\ Event(d, g, e) # Bye /\ Event(d, g, e).rtype = "EVENT"
         /\ Event(d, g, e).dev = d /\ Event(d, g, e).gen = g /\ Event(d, g, e).ev = e
         /\ Device(d, g) \in Record /\ Device(d, g) # Bye /\ Device(d, g).rtype = "DEVICE"
         /\ Device(d, g).dev = d /\ Device(d, g).gen = g
<1>1. Event(d, g, e).rtype = "EVENT" /\ Device(d, g).rtype = "DEVICE" /\ Bye.rtype = "BYE"
  BY DEF Event, Device, Bye
<1>2. Event(d, g, e) \in Record /\ Device(d, g) \in Record
  BY DEF Event, Device, Record, DeviceRecord
<1>3. QED
  BY <1>1, <1>2 DEF Event, Device

-----------------------------------------------------------------------------
(* Sequences: adding a record, taking the first, losing the last.          *)

Extends(s, t, r) ==
  /\ Len(s) \in Nat /\ Len(t) = Len(s) + 1
  /\ \A i \in 1..Len(s) : t[i] = s[i]
  /\ t[Len(t)] = r

Drops(s, t) ==
  /\ Len(t) \in Nat /\ Len(s) = Len(t) + 1
  /\ \A i \in 1..Len(t) : t[i] = s[i + 1]

Cuts(s, t) ==
  /\ Len(t) \in Nat /\ Len(s) = Len(t) + 1
  /\ \A i \in 1..Len(t) : t[i] = s[i]

LEMMA GenExtends ==
  ASSUME NEW s, NEW t, NEW r, Extends(s, t, r), NEW d, NEW g
  PROVE  /\ \A n \in 0..Len(s) : GenAfter(s, n, d, g) => GenAfter(t, n, d, g)
         /\ GenAfter(s, Len(s), d, g) /\ ~Opens(r, d) => GenAfter(t, Len(t), d, g)
         /\ Opens(r, d) /\ r.gen = g => GenAfter(t, Len(t), d, g)
<1>1. Len(s) \in Nat /\ Len(t) = Len(s) + 1 /\ t[Len(s) + 1] = r /\ \A i \in 1..Len(s) : t[i] = s[i]
  BY DEF Extends
<1>2. ASSUME NEW n \in 0..Len(s), GenAfter(s, n, d, g) PROVE GenAfter(t, n, d, g)
  <2>1. \A i \in 1..n : t[i] = s[i]
    BY <1>1
  <2>2. QED
    BY <1>2, <2>1, Zenon DEF GenAfter
<1>3. ASSUME GenAfter(t, Len(s), d, g), ~Opens(r, d) PROVE GenAfter(t, Len(s) + 1, d, g)
  <2>1. \A i \in 1..(Len(s) + 1) : i \in 1..Len(s) \/ (i = Len(s) + 1 /\ ~Opens(t[i], d))
    BY <1>1, <1>3
  <2>2. 1..Len(s) \subseteq 1..(Len(s) + 1)
    BY <1>1
  <2>3. QED
    BY <1>3, <2>1, <2>2, Zenon DEF GenAfter
<1>4. ASSUME Opens(r, d), r.gen = g PROVE GenAfter(t, Len(s) + 1, d, g)
  <2>1. Len(s) + 1 \in 1..(Len(s) + 1) /\ \A j \in 1..(Len(s) + 1) : ~(j > Len(s) + 1)
    BY <1>1
  <2>2. QED
    BY <1>1, <1>4, <2>1, Zenon DEF GenAfter
<1>5. QED
  BY <1>1, <1>2, <1>3, <1>4

LEMMA QuietExtends ==
  ASSUME NEW s, NEW t, NEW r, Extends(s, t, r), NEW d
  PROVE  /\ \A n \in 0..Len(s) : QuietAfter(s, n, d) => QuietAfter(t, n, d)
         /\ QuietAfter(s, Len(s), d) /\ ~EventOf(r, d) => QuietAfter(t, Len(t), d)
         /\ r.rtype = "RESYNC" => QuietAfter(t, Len(t), d)
<1>1. Len(s) \in Nat /\ Len(t) = Len(s) + 1 /\ t[Len(s) + 1] = r /\ \A i \in 1..Len(s) : t[i] = s[i]
  BY DEF Extends
<1>2. ASSUME NEW n \in 0..Len(s), QuietAfter(s, n, d) PROVE QuietAfter(t, n, d)
  <2>1. \A i \in 1..n : t[i] = s[i]
    BY <1>1
  <2>2. QED
    BY <1>2, <2>1, Zenon DEF QuietAfter
<1>3. ASSUME QuietAfter(t, Len(s), d), ~EventOf(r, d) PROVE QuietAfter(t, Len(s) + 1, d)
  <2>1. \A i \in 1..(Len(s) + 1) : i \in 1..Len(s) \/ (i = Len(s) + 1 /\ ~EventOf(t[i], d))
    BY <1>1, <1>3
  <2>2. 1..Len(s) \subseteq 1..(Len(s) + 1)
    BY <1>1
  <2>3. QED
    BY <1>3, <2>1, <2>2, Zenon DEF QuietAfter
<1>4. ASSUME r.rtype = "RESYNC" PROVE QuietAfter(t, Len(s) + 1, d)
  <2>1. Len(s) + 1 \in 1..(Len(s) + 1) /\ \A j \in 1..(Len(s) + 1) : ~(j > Len(s) + 1)
    BY <1>1
  <2>2. QED
    BY <1>1, <1>4, <2>1, Zenon DEF QuietAfter
<1>5. QED
  BY <1>1, <1>2, <1>3, <1>4

LEMMA HeldExtends ==
  ASSUME NEW s, NEW t, NEW r, Extends(s, t, r), NEW k, HeldAfter(t, k)
  PROVE  Presses(r, k) \/ (HeldAfter(s, k) /\ ~Lifts(r, k))
<1>1. Len(s) \in Nat /\ Len(t) = Len(s) + 1 /\ t[Len(s) + 1] = r /\ \A i \in 1..Len(s) : t[i] = s[i]
  BY DEF Extends
<1>2. /\ \A i \in 1..Len(s) : i \in 1..Len(t) /\ Len(t) > i
      /\ Len(t) \in 1..Len(t) /\ t[Len(t)] = r
      /\ \A i \in 1..Len(t) : i \in 1..Len(s) \/ i = Len(t)
  BY <1>1
<1>3. CASE k \in keyDown /\ \A i \in 1..Len(t) : ~Lifts(t[i], k)
  BY <1>1, <1>2, <1>3, Zenon DEF HeldAfter
<1>4. CASE \E i \in 1..Len(t) : Presses(t[i], k) /\ \A j \in 1..Len(t) : j > i => ~Lifts(t[j], k)
  <2>1. PICK i \in 1..Len(t) : Presses(t[i], k) /\ \A j \in 1..Len(t) : j > i => ~Lifts(t[j], k)
    BY <1>4
  <2>2. CASE i = Len(t)
    BY <1>2, <2>1, <2>2
  <2>3. CASE i \in 1..Len(s)
    BY <1>1, <1>2, <2>1, <2>3, Zenon DEF HeldAfter
  <2>4. QED
    BY <1>2, <2>2, <2>3
<1>5. QED
  BY <1>3, <1>4 DEF HeldAfter

LEMMA RecordsExtend ==
  ASSUME NEW s, NEW t, NEW r, Extends(s, t, r), RecordsInv(s),
         \A d \in DevId : EventOf(r, d) => GenAfter(s, Len(s), d, r.gen),
         \A d \in DevId : Opens(r, d) => QuietAfter(s, Len(s), d)
  PROVE  RecordsInv(t)
<1>1. Len(s) \in Nat /\ Len(t) = Len(s) + 1 /\ t[Len(s) + 1] = r /\ \A i \in 1..Len(s) : t[i] = s[i]
  BY DEF Extends
<1> SUFFICES ASSUME NEW i \in 1..Len(t), NEW d \in DevId
             PROVE  /\ EventOf(t[i], d) => GenAfter(t, i - 1, d, t[i].gen)
                    /\ Opens(t[i], d) => QuietAfter(t, i - 1, d)
  BY DEF RecordsInv
<1>2. i - 1 \in 0..Len(s)
  BY <1>1
<1>3. CASE i \in 1..Len(s)
  <2>1. t[i] = s[i]
    BY <1>1, <1>3
  <2>2. /\ EventOf(s[i], d) => GenAfter(s, i - 1, d, s[i].gen)
        /\ Opens(s[i], d) => QuietAfter(s, i - 1, d)
    BY <1>3 DEF RecordsInv
  <2>3. QED
    BY <1>2, <2>1, <2>2, GenExtends, QuietExtends
<1>4. CASE i = Len(s) + 1
  <2>1. t[i] = r /\ i - 1 = Len(s)
    BY <1>1, <1>4
  <2>2. QED
    BY <1>2, <2>1, GenExtends, QuietExtends
<1>5. QED
  BY <1>1, <1>3, <1>4

-----------------------------------------------------------------------------
(* The main thread takes the first record.                                 *)

\* The Dev of d, the contacts of d, the key k after record r.
DevFollows(r, d) ==
  IF Opens(r, d) THEN devs'[d] # NULL /\ devs'[d].gen = r.gen
  ELSE devs[d] # NULL => devs'[d] # NULL /\ devs'[d].gen = devs[d].gen
DeskFollows(r, d) ==
  r.rtype = "RESYNC" \/ (~EventOf(r, d) /\ \A p \in desk : p[1] # d) => \A p \in desk' : p[1] # d
KeyFollows(r, k) ==
  k \in keyDown' => Presses(r, k) \/ (k \in keyDown /\ ~Lifts(r, k))

LEMMA GenDrops ==
  ASSUME NEW s, NEW t, Drops(s, t), NEW d, NEW g, NEW n \in 0..Len(t),
         GenAfter(s, n + 1, d, g), DevFollows(s[1], d)
  PROVE  GenAfter(t, n, d, g)'
<1>1. /\ \A i \in 1..n : i + 1 \in 1..(n + 1) /\ t[i] = s[i + 1]
      /\ \A i \in 1..(n + 1) : i = 1 \/ (i - 1 \in 1..n /\ t[i - 1] = s[i])
      /\ 1 \in 1..(n + 1)
  <2>1. /\ \A i \in 1..n : i + 1 \in 1..(n + 1) /\ i \in 1..Len(t)
        /\ \A i \in 1..(n + 1) : i = 1 \/ (i - 1 \in 1..n /\ (i - 1) + 1 = i)
        /\ 1 \in 1..(n + 1)
    BY DEF Drops
  <2>2. \A i \in 1..n : t[i] = s[i + 1]
    BY <2>1 DEF Drops
  <2>3. QED
    BY <2>1, <2>2
<1>2. CASE \E i \in 1..(n + 1) : /\ Opens(s[i], d) /\ s[i].gen = g
                                /\ \A j \in 1..(n + 1) : j > i => ~Opens(s[j], d)
  <2>1. PICK i \in 1..(n + 1) : /\ Opens(s[i], d) /\ s[i].gen = g
                               /\ \A j \in 1..(n + 1) : j > i => ~Opens(s[j], d)
    BY <1>2
  <2>2. CASE i = 1
    <3>1. \A j \in 1..n : ~Opens(t[j], d)
      BY <1>1, <2>1, <2>2
    <3>2. QED
      BY <2>1, <2>2, <3>1 DEF GenAfter, DevFollows, Opens
  <2>3. CASE i # 1
    <3>1. i - 1 \in 1..n /\ t[i - 1] = s[i]
      BY <1>1, <2>3
    <3>2. \A j \in 1..n : j > i - 1 => ~Opens(t[j], d)
      BY <1>1, <2>1
    <3>3. QED
      BY <2>1, <3>1, <3>2 DEF GenAfter, Opens
  <2>4. QED
    BY <2>2, <2>3
<1>3. CASE (\A i \in 1..(n + 1) : ~Opens(s[i], d)) /\ devs[d] # NULL /\ devs[d].gen = g
  <2>1. ~Opens(s[1], d) /\ \A j \in 1..n : ~Opens(t[j], d)
    BY <1>1, <1>3
  <2>2. QED
    BY <1>3, <2>1 DEF GenAfter, DevFollows, Opens
<1>4. QED
  BY <1>2, <1>3 DEF GenAfter

LEMMA QuietDrops ==
  ASSUME NEW s, NEW t, Drops(s, t), NEW d, NEW n \in 0..Len(t),
         QuietAfter(s, n + 1, d), DeskFollows(s[1], d)
  PROVE  QuietAfter(t, n, d)'
<1>1. /\ \A i \in 1..n : i + 1 \in 1..(n + 1) /\ t[i] = s[i + 1]
      /\ \A i \in 1..(n + 1) : i = 1 \/ (i - 1 \in 1..n /\ t[i - 1] = s[i])
      /\ 1 \in 1..(n + 1)
  <2>1. /\ \A i \in 1..n : i + 1 \in 1..(n + 1) /\ i \in 1..Len(t)
        /\ \A i \in 1..(n + 1) : i = 1 \/ (i - 1 \in 1..n /\ (i - 1) + 1 = i)
        /\ 1 \in 1..(n + 1)
    BY DEF Drops
  <2>2. \A i \in 1..n : t[i] = s[i + 1]
    BY <2>1 DEF Drops
  <2>3. QED
    BY <2>1, <2>2
<1>2. CASE \E i \in 1..(n + 1) : /\ s[i].rtype = "RESYNC"
                                /\ \A j \in 1..(n + 1) : j > i => ~EventOf(s[j], d)
  <2>1. PICK i \in 1..(n + 1) : /\ s[i].rtype = "RESYNC"
                               /\ \A j \in 1..(n + 1) : j > i => ~EventOf(s[j], d)
    BY <1>2
  <2>2. CASE i = 1
    <3>1. \A j \in 1..n : ~EventOf(t[j], d)
      BY <1>1, <2>1, <2>2
    <3>2. QED
      BY <2>1, <2>2, <3>1 DEF QuietAfter, DeskFollows, EventOf
  <2>3. CASE i # 1
    <3>1. i - 1 \in 1..n /\ t[i - 1] = s[i]
      BY <1>1, <2>3
    <3>2. \A j \in 1..n : j > i - 1 => ~EventOf(t[j], d)
      BY <1>1, <2>1
    <3>3. QED
      BY <2>1, <3>1, <3>2 DEF QuietAfter, EventOf
  <2>4. QED
    BY <2>2, <2>3
<1>3. CASE (\A p \in desk : p[1] # d) /\ \A i \in 1..(n + 1) : ~EventOf(s[i], d)
  <2>1. ~EventOf(s[1], d) /\ \A j \in 1..n : ~EventOf(t[j], d)
    BY <1>1, <1>3
  <2>2. QED
    BY <1>3, <2>1 DEF QuietAfter, DeskFollows, EventOf
<1>4. QED
  BY <1>2, <1>3 DEF QuietAfter

LEMMA HeldDrops ==
  ASSUME NEW s, NEW t, Drops(s, t), NEW k, HeldAfter(t, k)', KeyFollows(s[1], k)
  PROVE  HeldAfter(s, k)
<1>1. /\ \A i \in 1..Len(t) : i + 1 \in 1..Len(s) /\ t[i] = s[i + 1]
      /\ \A i \in 1..Len(s) : i = 1 \/ (i - 1 \in 1..Len(t) /\ t[i - 1] = s[i])
      /\ 1 \in 1..Len(s)
  BY DEF Drops
<1>2. CASE \E i \in 1..Len(t) : Presses(t[i], k) /\ \A j \in 1..Len(t) : j > i => ~Lifts(t[j], k)
  <2>1. PICK i \in 1..Len(t) : Presses(t[i], k) /\ \A j \in 1..Len(t) : j > i => ~Lifts(t[j], k)
    BY <1>2
  <2>2. i + 1 \in 1..Len(s) /\ Presses(s[i + 1], k)
    BY <1>1, <2>1
  <2>3. \A j \in 1..Len(s) : j > i + 1 => ~Lifts(s[j], k)
    BY <1>1, <2>1
  <2>4. QED
    BY <2>2, <2>3 DEF HeldAfter
<1>3. CASE k \in keyDown' /\ \A i \in 1..Len(t) : ~Lifts(t[i], k)
  <2>1. \A j \in 1..Len(s) : j = 1 \/ ~Lifts(s[j], k)
    BY <1>1, <1>3
  <2>2. CASE Presses(s[1], k)
    BY <1>1, <2>1, <2>2 DEF HeldAfter
  <2>3. CASE k \in keyDown /\ ~Lifts(s[1], k)
    BY <2>1, <2>3 DEF HeldAfter
  <2>4. QED
    BY <1>3, <2>2, <2>3 DEF KeyFollows
<1>4. QED
  BY <1>2, <1>3 DEF HeldAfter, Presses, Lifts

LEMMA RecordsDrop ==
  ASSUME NEW s, NEW t, Drops(s, t), RecordsInv(s),
         \A d \in DevId : DevFollows(s[1], d) /\ DeskFollows(s[1], d)
  PROVE  RecordsInv(t)'
<1> SUFFICES ASSUME NEW i \in 1..Len(t), NEW d \in DevId
             PROVE  /\ EventOf(t[i], d) => GenAfter(t, i - 1, d, t[i].gen)'
                    /\ Opens(t[i], d) => QuietAfter(t, i - 1, d)'
  BY DEF RecordsInv, EventOf, Opens
<1>1. /\ i + 1 \in 1..Len(s) /\ t[i] = s[i + 1] /\ i - 1 \in 0..Len(t)
      /\ (i + 1) - 1 = i /\ (i - 1) + 1 = i
  BY DEF Drops
<1>2. /\ EventOf(s[i + 1], d) => GenAfter(s, i, d, s[i + 1].gen)
      /\ Opens(s[i + 1], d) => QuietAfter(s, i, d)
  BY <1>1 DEF RecordsInv
<1>3. QED
  BY <1>1, <1>2, GenDrops, QuietDrops

LEMMA LinkDrops ==
  ASSUME NEW s, NEW t, Drops(s, t), NEW b, LinkInv(s, b),
         UNCHANGED <<helper, g_devs, evq, down>>,
         \A d \in DevId : DevFollows(s[1], d) /\ DeskFollows(s[1], d),
         \A k \in Key : KeyFollows(s[1], k)
  PROVE  LinkInv(t, b)'
<1>1. RecordsInv(t)'
  BY RecordsDrop DEF LinkInv
<1>2. Len(t) \in 0..Len(t) /\ Len(s) = Len(t) + 1
  BY DEF Drops
<1>3. \A d \in DevId : /\ Shown(d)' <=> Shown(d)
                       /\ Shown(d) => g_devs'[d].gen = g_devs[d].gen
  BY DEF Shown
<1>4. HelperInv(t, b)'
  BY <1>2, <1>3, GenDrops, QuietDrops DEF LinkInv, HelperInv
<1>5. \A d \in DevId, k \in Key : Holder(d, k) => Holder(d, k)'
  BY DEF Holder, Shown, WillRelease
<1>6. KeysInv(t, b)'
  BY <1>5, HeldDrops DEF LinkInv, KeysInv
<1>7. QED
  BY <1>1, <1>4, <1>6 DEF LinkInv

-----------------------------------------------------------------------------
(* The helper adds records.                                                *)

LEMMA ParseFacts ==
  ASSUME NEW c \in Seq(Record)
  PROVE  /\ Parse(c) \in Line /\ Len(Parse(c)) = Len(c) /\ Len(c) \in Nat
         /\ \A i \in 1..Len(c) : Parse(c)[i] = Post(c[i]) /\ c[i] \in Record
<1>1. /\ Len(c) \in Nat /\ DOMAIN c = 1..Len(c)
      /\ \A i \in 1..Len(c) : c[i] \in Record /\ Post(c[i]) \in Posting
  BY RecordFacts
<1>2. Parse(c) = [i \in 1..Len(c) |-> Post(c[i])]
  BY <1>1 DEF Parse
<1>3. Parse(c) \in [1..Len(c) -> Posting]
  BY <1>1, <1>2
<1>4. Parse(c) \in Seq(Posting)
  BY <1>1, <1>3
<1>5. Len(Parse(c)) = Len(c)
  BY <1>1, <1>2
<1>6. QED
  BY <1>1, <1>2, <1>4, <1>5 DEF Line

LEMMA ConcatFacts ==
  ASSUME NEW T, NEW p \in Seq(T), NEW a \in Seq(T)
  PROVE  /\ Len(p \o a) = Len(p) + Len(a) /\ Len(p) \in Nat /\ Len(a) \in Nat
         /\ \A i \in 1..(Len(p) + Len(a)) :
              (p \o a)[i] = IF i <= Len(p) THEN p[i] ELSE a[i - Len(p)]
OBVIOUS

LEMMA LineExtends ==
  ASSUME NEW p \in Line, NEW c \in Seq(Record), NEW r \in Record
  PROVE  Extends(p \o Parse(c), p \o Parse(Append(c, r)), Post(r))
<1> DEFINE a == Parse(c)
           b == Parse(Append(c, r))
<1>1. Append(c, r) \in Seq(Record) /\ Len(Append(c, r)) = Len(c) + 1
  OBVIOUS
<1>2. /\ a \in Line /\ b \in Line /\ Len(a) = Len(c) /\ Len(b) = Len(c) + 1 /\ Len(c) \in Nat
  BY <1>1, ParseFacts
<1>3. \A i \in 1..Len(c) : b[i] = a[i]
  <2>1. \A i \in 1..Len(c) : Append(c, r)[i] = c[i] /\ i \in 1..Len(Append(c, r))
    BY <1>1
  <2>2. QED
    BY <1>1, <2>1, ParseFacts
<1>4. b[Len(c) + 1] = Post(r)
  <2>1. Append(c, r)[Len(c) + 1] = r /\ Len(c) + 1 \in 1..Len(Append(c, r))
    BY <1>1, <1>2
  <2>2. QED
    BY <1>1, <2>1, ParseFacts
<1> HIDE DEF a, b
<1>5. /\ Len(p \o a) = Len(p) + Len(a) /\ Len(p \o b) = Len(p) + Len(b)
      /\ Len(p) \in Nat
      /\ \A i \in 1..(Len(p) + Len(a)) : (p \o a)[i] = IF i <= Len(p) THEN p[i] ELSE a[i - Len(p)]
      /\ \A i \in 1..(Len(p) + Len(b)) : (p \o b)[i] = IF i <= Len(p) THEN p[i] ELSE b[i - Len(p)]
  BY <1>2, ConcatFacts DEF Line
<1>6. Extends(p \o a, p \o b, Post(r))
  <2>1. Len(p \o b) = Len(p \o a) + 1 /\ Len(p \o a) \in Nat
    BY <1>2, <1>5
  <2>2. \A i \in 1..Len(p \o a) : (p \o b)[i] = (p \o a)[i]
    <3> SUFFICES ASSUME NEW i \in 1..(Len(p) + Len(a)) PROVE (p \o b)[i] = (p \o a)[i]
      BY <1>5
    <3>1. i \in 1..(Len(p) + Len(b)) /\ (i <= Len(p) \/ i - Len(p) \in 1..Len(c))
      BY <1>2, <1>5
    <3>2. QED
      BY <1>3, <1>5, <3>1
  <2>3. (p \o b)[Len(p) + Len(b)] = b[Len(b)]
    BY <1>2, <1>5
  <2>4. QED
    BY <1>2, <1>4, <1>5, <2>1, <2>2, <2>3 DEF Extends
<1>7. QED
  BY <1>6 DEF a, b

LEMMA StreamType ==
  ASSUME TypeOK, NEW o \in Out
  PROVE  /\ Coming(o) \in Seq(Record) /\ posted \in Line /\ Stream(o) \in Line
         /\ Len(Stream(o)) \in Nat
<1>1. Coming(o) \in Seq(Record)
  <2>1. o.wire \in Seq(Record) /\ o.pending \in Record \cup {NULL}
    BY DEF Out
  <2>2. Rest(o) \in Seq(Record)
    BY <2>1 DEF Rest
  <2>3. QED
    BY <2>1, <2>2 DEF Coming
<1>2. posted \in Line /\ Parse(Coming(o)) \in Line
  BY <1>1, ParseFacts DEF TypeOK, Line
<1>3. QED
  BY <1>1, <1>2 DEF Stream, Line

\* flush_pending changes nothing of what is on the way.
LEMMA FlushFacts ==
  ASSUME NEW o \in Out, helper # "gone", NEW f \in FlushPending(o)
  PROVE  /\ f \in Out /\ Coming(f) = Coming(o)
         /\ f.resync = o.resync /\ f.drops = o.drops
<1>1. o.wire \in Seq(Record) /\ o.pending \in Record \cup {NULL}
  BY DEF Out
<1>2. CASE f = o
  BY <1>2
<1>3. CASE o.pending # NULL /\ f = [o EXCEPT !.wire = Append(@, o.pending), !.pending = NULL]
  <2>1. /\ f.wire = Append(o.wire, o.pending) /\ f.pending = NULL
        /\ f.resync = o.resync /\ f.drops = o.drops
    BY <1>3 DEF Out
  <2>2. Append(o.wire, o.pending) \in Seq(Record)
    BY <1>1, <1>3
  <2>3. f \in Out
    BY <1>3, <2>2 DEF Out
  <2>4. Coming(f) = f.wire \o <<>> /\ Coming(o) = o.wire \o <<o.pending>>
    BY <1>3, <2>1 DEF Coming, Rest
  <2>5. Append(o.wire, o.pending) \o <<>> = o.wire \o <<o.pending>>
    BY <1>1, <1>3
  <2>6. QED
    BY <2>1, <2>3, <2>4, <2>5
<1>4. QED
  BY <1>2, <1>3 DEF FlushPending

\* send_rec adds the record, or drops it and owes a marker.
LEMMA SendFacts ==
  ASSUME NEW o \in Out, helper # "gone", NEW r \in Record, NEW s \in SendRec(o, r)
  PROVE  /\ s \in Out
         /\ \/ Coming(s) = Coming(o) /\ s.resync /\ s.drops # 0
            \/ /\ Coming(s) = Append(Coming(o), r) /\ s.resync = o.resync
               /\ s.pending \in {NULL, r}
<1>1. PICK f \in FlushPending(o) :
        s \in IF f.pending # NULL \/ ~Room(f) THEN {Dropped(f)}
              ELSE { [f EXCEPT !.wire = Append(@, r), !.drops = 0],
                     [f EXCEPT !.pending = r, !.drops = 0] }
  BY DEF SendRec
<1>2. f \in Out /\ Coming(f) = Coming(o) /\ f.resync = o.resync
  BY FlushFacts
<1>3. f.wire \in Seq(Record) /\ f.drops \in Nat /\ r # NULL
  BY <1>2, NullFacts DEF Out
<1>4. CASE s = Dropped(f)
  <2>1. s.wire = f.wire /\ s.pending = f.pending /\ s.resync = TRUE
        /\ s.drops = (IF f.drops > MAX_DROPS THEN f.drops ELSE f.drops + 1)
    BY <1>2, <1>4 DEF Dropped, Out
  <2>2. s.drops \in Nat /\ s.drops # 0
    BY <1>3, <2>1, NullFacts
  <2>3. s \in Out
    <3>1. s = [f EXCEPT !.drops = s.drops, !.resync = TRUE]
      BY <1>2, <1>4, <2>1 DEF Dropped, Out
    <3>2. QED
      BY <1>2, <2>2, <3>1 DEF Out
  <2>4. Coming(s) = Coming(f)
    BY <2>1 DEF Coming, Rest
  <2>5. QED
    BY <1>2, <2>1, <2>2, <2>3, <2>4
<1>5. CASE f.pending = NULL /\ s = [f EXCEPT !.wire = Append(@, r), !.drops = 0]
  <2>1. s.wire = Append(f.wire, r) /\ s.pending = NULL /\ s.resync = f.resync
    BY <1>2, <1>5 DEF Out
  <2>2. s \in Out
    <3>1. Append(f.wire, r) \in Seq(Record)
      BY <1>3
    <3>2. QED
      BY <1>2, <1>5, <3>1 DEF Out
  <2>3. Coming(s) = s.wire \o <<>> /\ Coming(f) = f.wire \o <<>>
    BY <1>5, <2>1 DEF Coming, Rest
  <2>4. Append(f.wire, r) \o <<>> = Append(f.wire \o <<>>, r)
    BY <1>3
  <2>5. QED
    BY <1>2, <2>1, <2>2, <2>3, <2>4
<1>6. CASE f.pending = NULL /\ s = [f EXCEPT !.pending = r, !.drops = 0]
  <2>1. s.wire = f.wire /\ s.pending = r /\ s.resync = f.resync
    BY <1>2, <1>6 DEF Out
  <2>2. s \in Out
    BY <1>2, <1>3, <1>6 DEF Out
  <2>3. Coming(s) = f.wire \o <<r>> /\ Coming(f) = f.wire \o <<>>
    BY <1>3, <1>6, <2>1 DEF Coming, Rest
  <2>4. f.wire \o <<r>> = Append(f.wire \o <<>>, r)
    BY <1>3
  <2>5. QED
    BY <1>2, <2>1, <2>2, <2>3, <2>4
<1>7. QED
  BY <1>1, <1>4, <1>5, <1>6

\* recover_output adds the marker, or changes nothing of what is on the way.
LEMMA RecoverFacts ==
  ASSUME NEW o \in Out, helper # "gone", NEW s \in RecoverOutput(o)
  PROVE  /\ s \in Out
         /\ \/ Coming(s) = Coming(o) /\ s.resync = o.resync
            \/ Coming(s) = Append(Coming(o), Resync)
<1>1. PICK f \in FlushPending(o) : s \in IF f.pending = NULL /\ f.resync THEN SendResync(f) ELSE {f}
  BY DEF RecoverOutput
<1>2. f \in Out /\ Coming(f) = Coming(o) /\ f.resync = o.resync
  BY FlushFacts
<1>3. CASE s = f
  BY <1>2, <1>3
<1>4. CASE f.resync /\ s \in SendResync(f)
  <2>1. PICK q \in SendRec(f, Resync) :
          s = IF q.drops = 0 /\ q.pending = NULL THEN [q EXCEPT !.resync = FALSE] ELSE q
    BY <1>4 DEF SendResync
  <2>2. /\ q \in Out
        /\ \/ Coming(q) = Coming(f) /\ q.resync /\ q.drops # 0
           \/ Coming(q) = Append(Coming(f), Resync)
    BY <1>2, SendFacts, RecordFacts
  <2>3. CASE s = q
    <3>1. q.resync \in BOOLEAN
      BY <2>2 DEF Out
    <3>2. QED
      BY <1>2, <1>4, <2>2, <2>3, <3>1
  <2>4. CASE q.drops = 0 /\ s = [q EXCEPT !.resync = FALSE]
    <3>1. s \in Out /\ s.wire = q.wire /\ s.pending = q.pending
      BY <2>2, <2>4 DEF Out
    <3>2. Coming(s) = Coming(q)
      BY <3>1 DEF Coming, Rest
    <3>3. QED
      BY <1>2, <2>2, <2>4, <3>1, <3>2
  <2>5. QED
    BY <2>1, <2>3, <2>4
<1>5. QED
  BY <1>1, <1>3, <1>4

-----------------------------------------------------------------------------
(* What adding a record does to the invariants.                            *)

LEMMA LinkLost ==
  ASSUME NEW s, NEW b, LinkInv(s, b)
  PROVE  LinkInv(s, TRUE)
BY DEF LinkInv, HelperInv, KeysInv

\* After the marker nothing is down, whatever it was.
LEMMA LinkResync ==
  ASSUME NEW s, NEW t, NEW b, NEW c, Extends(s, t, Resync), LinkInv(s, b)
  PROVE  LinkInv(t, c)
<1>1. Resync.rtype = "RESYNC"
  BY DEF Resync
<1>2. \A d \in DevId : ~EventOf(Resync, d) /\ ~Opens(Resync, d)
  BY <1>1 DEF EventOf, Opens
<1>3. RecordsInv(t)
  BY <1>2, RecordsExtend DEF LinkInv
<1>4. HelperInv(t, c)
  BY <1>1, <1>2, GenExtends, QuietExtends DEF LinkInv, HelperInv
<1>5. \A k : ~Presses(Resync, k) /\ Lifts(Resync, k)
  BY <1>1 DEF Presses, Lifts
<1>6. KeysInv(t, c)
  BY <1>5, HeldExtends DEF KeysInv
<1>7. QED
  BY <1>3, <1>4, <1>6 DEF LinkInv

NoEndIn(s) == \A i \in 1..Len(s) : s[i].rtype # "END"

LEMMA NoEndExtends ==
  ASSUME NEW s, NEW t, NEW r, Extends(s, t, r), NoEndIn(s), r.rtype # "END"
  PROVE  NoEndIn(t)
<1>1. \A i \in 1..Len(t) : i \in 1..Len(s) \/ i = Len(t)
  BY DEF Extends
<1>2. QED
  BY <1>1 DEF Extends, NoEndIn

LEMMA RecoverLink ==
  ASSUME TypeOK, NEW o \in Out, helper # "gone", NEW s \in RecoverOutput(o),
         LinkInv(Stream(o), o.resync), NoEndIn(Stream(o))
  PROVE  s \in Out /\ LinkInv(Stream(s), s.resync) /\ NoEndIn(Stream(s))
<1>1. /\ s \in Out
      /\ \/ Coming(s) = Coming(o) /\ s.resync = o.resync
         \/ Coming(s) = Append(Coming(o), Resync)
  BY RecoverFacts
<1>2. CASE Coming(s) = Coming(o) /\ s.resync = o.resync
  BY <1>1, <1>2 DEF Stream
<1>3. CASE Coming(s) = Append(Coming(o), Resync)
  <2>1. Coming(o) \in Seq(Record) /\ posted \in Line /\ Resync \in Record /\ Post(Resync) = Resync
    BY StreamType, RecordFacts
  <2>2. Extends(Stream(o), Stream(s), Resync)
    BY <1>3, <2>1, LineExtends DEF Stream
  <2>3. Resync.rtype # "END"
    BY DEF Resync
  <2>4. QED
    BY <1>1, <2>2, <2>3, LinkResync, NoEndExtends
<1>4. QED
  BY <1>1, <1>2, <1>3

-----------------------------------------------------------------------------
(* Steps that leave the app alone.                                         *)

LEMMA AfterSame ==
  ASSUME UNCHANGED <<devs, desk, keyDown>>, NEW t
  PROVE  /\ RecordsInv(t) => RecordsInv(t)'
         /\ \A n, d, g : GenAfter(t, n, d, g) => GenAfter(t, n, d, g)'
         /\ \A n, d : QuietAfter(t, n, d) => QuietAfter(t, n, d)'
         /\ \A k : HeldAfter(t, k)' => HeldAfter(t, k)
<1>1. \A n, d, g : GenAfter(t, n, d, g) => GenAfter(t, n, d, g)'
  BY DEF GenAfter, Opens
<1>2. \A n, d : QuietAfter(t, n, d) => QuietAfter(t, n, d)'
  BY DEF QuietAfter, EventOf
<1>3. \A k : HeldAfter(t, k)' => HeldAfter(t, k)
  BY DEF HeldAfter, Presses, Lifts
<1>4. RecordsInv(t) => RecordsInv(t)'
  BY <1>1, <1>2 DEF RecordsInv, EventOf, Opens
<1>5. QED
  BY <1>1, <1>2, <1>3, <1>4

\* The stream stays; devices are shown no more only if a marker is due, and so
\* for those who hold keys.
LEMMA LinkSame ==
  ASSUME UNCHANGED <<devs, desk, keyDown, helper>>, NEW t, NEW b, NEW c, LinkInv(t, b),
         b => c,
         \A d \in DevId : Shown(d)' => Shown(d) /\ g_devs'[d].gen = g_devs[d].gen,
         \A d \in DevId : Shown(d) => Shown(d)' \/ c,
         \A d \in DevId, k \in Key : Holder(d, k) => Holder(d, k)' \/ c
  PROVE  LinkInv(t, c)'
<1>1. RecordsInv(t)'
  BY AfterSame DEF LinkInv
<1>2. HelperInv(t, c)'
  BY AfterSame DEF LinkInv, HelperInv
<1>3. KeysInv(t, c)'
  BY AfterSame DEF LinkInv, KeysInv
<1>4. QED
  BY <1>1, <1>2, <1>3 DEF LinkInv

\* The helper has left its loop.
LEMMA LinkOver ==
  ASSUME UNCHANGED <<devs, desk, keyDown>>, helper' # "run", NEW t, NEW c, RecordsInv(t)
  PROVE  LinkInv(t, c)'
BY AfterSame DEF LinkInv, HelperInv, KeysInv

LEMMA StreamSame ==
  ASSUME UNCHANGED <<out, posted, helper>>
  PROVE  Stream(out)' = Stream(out)
<1>1. Coming(out)' = Coming(out)
  BY DEF Coming, Rest
<1>2. QED
  BY <1>1 DEF Stream

\* Before the helper is gone the session has not ended.
LEMMA NoEnd ==
  ASSUME EndInv, helper # "gone"
  PROVE  /\ reader /\ ~over
         /\ NoEndIn(Stream(out))
BY DEF EndInv, NoEndIn

LEMMA EndKeeps ==
  ASSUME EndInv, helper # "gone", UNCHANGED <<posted, reader, over>>,
         NoEndIn(Stream(out)')
  PROVE  EndInv'
BY NoEnd DEF EndInv, NoEndIn

\* The helper goes on, or says goodbye: the stream is as its transport says.
LEMMA StreamNext ==
  ASSUME helper # "gone", helper' # "gone", posted' = posted
  PROVE  Stream(out)' = Stream(out')
<1>1. Rest(out)' = Rest(out')
  BY DEF Rest
<1>2. Coming(out)' = Coming(out')
  BY <1>1 DEF Coming
<1>3. QED
  BY <1>2 DEF Stream

LEMMA ContactsSame ==
  ASSUME ContactsOwned, UNCHANGED <<devs, desk>>
  PROVE  ContactsOwned'
BY DEF ContactsOwned

\* Steps of the user and of the hardware.
LEMMA UserStep ==
  ASSUME IInv, TypeOK', EventsInv',
         UNCHANGED <<helper, out, posted, reader, main>>,
         \A d \in DevId : Shown(d)' <=> Shown(d),
         \A d \in DevId : Shown(d) => g_devs'[d].gen = g_devs[d].gen,
         \A d \in DevId, k \in Key : Holder(d, k) => Holder(d, k)'
  PROVE  IInv'
<1>1. Stream(out)' = Stream(out) /\ UNCHANGED <<devs, desk, keyDown, over>> /\ out'.resync = out.resync
  BY StreamSame DEF main
<1>2. LinkInv(Stream(out), out.resync)
  BY DEF IInv
<1>3. LinkInv(Stream(out), out.resync)'
  BY <1>1, <1>2, LinkSame
<1>4. EndInv'
  BY <1>1 DEF IInv, EndInv
<1>5. QED
  BY <1>1, <1>3, <1>4, ContactsSame DEF IInv

-----------------------------------------------------------------------------
(* The user and the hardware.                                              *)

LEMMA KeyEvents ==
  /\ \A k \in Key : KeyEv(k, TRUE) \in KeyEvent /\ KeyEv(k, FALSE) \in KeyEvent
  /\ \A k, j : KeyEv(k, TRUE) # KeyEv(j, FALSE)
  /\ \A k, j : KeyEv(k, TRUE) = KeyEv(j, TRUE) => k = j
  /\ \A k, j : KeyEv(k, FALSE) = KeyEv(j, FALSE) => k = j
BY DEF KeyEv, KeyEvent

LEMMA TouchEvents ==
  /\ \A c \in Contact : SlotEv(c) \in TouchEvent
  /\ TrackEv(TRUE) \in TouchEvent /\ TrackEv(FALSE) \in TouchEvent
  /\ SynEv \in TouchEvent
BY DEF SlotEv, TrackEv, SynEv, TouchEvent

LEMMA AppendFacts ==
  ASSUME NEW T, NEW q \in Seq(T), NEW e \in T
  PROVE  /\ q \o <<e>> \in Seq(T) /\ Len(q) \in Nat /\ Len(q \o <<e>>) = Len(q) + 1
         /\ \A i \in 1..Len(q) : (q \o <<e>>)[i] = q[i]
         /\ (q \o <<e>>)[Len(q) + 1] = e
OBVIOUS

LEMMA PressOrReleaseStep ==
  ASSUME IInv, NEW n \in KeyNode, NEW k \in Key, PressOrRelease(n, k)
  PROVE  IInv'
<1> DEFINE e == KeyEv(k, k \notin down[n])
<1>1. /\ TypeOK /\ EventsInv /\ n \in Node
      /\ evq \in [Node -> Seq(KeyEvent \cup TouchEvent)] /\ evq[n] \in Seq(KeyEvent)
      /\ down \in [Node -> SUBSET (Key \cup Contact)]
  BY NullFacts DEF IInv, TypeOK, EventsInv
<1>2. /\ down' = [down EXCEPT ![n] = Toggled(@, k)]
      /\ evq' = IF Tracked(n) THEN [evq EXCEPT ![n] = @ \o <<e>>] ELSE evq
      /\ acts' = acts + 1
      /\ UNCHANGED <<plugged, kslot, plugs, helper, g_devs, out, posted, reader, main>>
  BY DEF PressOrRelease, Emit
<1>3. /\ e \in KeyEvent
      /\ k \in down[n] => e = KeyEv(k, FALSE) /\ down'[n] = down[n] \ {k}
      /\ k \notin down[n] => e = KeyEv(k, TRUE) /\ down'[n] = down[n] \cup {k}
  BY <1>1, <1>2, KeyEvents DEF Toggled
<1>4. \A m \in Node : m # n => down'[m] = down[m] /\ evq'[m] = evq[m]
  BY <1>1, <1>2
<1> HIDE DEF e
<1>5. /\ Tracked(n) => evq'[n] = evq[n] \o <<e>>
      /\ ~Tracked(n) => evq'[n] = evq[n]
      /\ evq' \in [Node -> Seq(KeyEvent \cup TouchEvent)]
      /\ evq'[n] \in Seq(KeyEvent)
  <2>1. evq[n] \o <<e>> \in Seq(KeyEvent) /\ evq[n] \o <<e>> \in Seq(KeyEvent \cup TouchEvent)
    BY <1>1, <1>3, AppendFacts
  <2>2. QED
    BY <1>1, <1>2, <2>1
<1>6. \A m : Tracked(m)' <=> Tracked(m)
  BY <1>2 DEF Tracked
<1>7. /\ Tracked(n) => /\ Len(evq[n]) \in Nat /\ Len(evq'[n]) = Len(evq[n]) + 1
                       /\ \A i \in 1..Len(evq[n]) : evq'[n][i] = evq[n][i]
                       /\ evq'[n][Len(evq[n]) + 1] = e
  BY <1>1, <1>3, <1>5, AppendFacts
<1>8. TypeOK'
  <2>1. down' \in [Node -> SUBSET (Key \cup Contact)]
    BY <1>1, <1>2 DEF Toggled
  <2>2. acts' \in Nat
    BY <1>1, <1>2 DEF TypeOK
  <2>3. QED
    BY <1>1, <1>2, <1>5, <2>1, <2>2 DEF TypeOK, main
<1>14. ASSUME helper = "run", NEW m \in KeyNode, NEW j \in Key, NEW i \in 1..Len(evq[m]),
              evq[m][i] = KeyEv(j, TRUE)
       PROVE  j \in down[m] \/ \E l \in 1..Len(evq[m]) : l > i /\ evq[m][l] = KeyEv(j, FALSE)
  BY <1>1, <1>14 DEF EventsInv
<1>9. ASSUME helper = "run", NEW m \in KeyNode, NEW j \in Key, NEW i \in 1..Len(evq'[m]),
             evq'[m][i] = KeyEv(j, TRUE)
      PROVE  j \in down'[m] \/ \E l \in 1..Len(evq'[m]) : l > i /\ evq'[m][l] = KeyEv(j, FALSE)
  <2>1. CASE m # n
    <3>1. evq'[m] = evq[m] /\ down'[m] = down[m]
      BY <1>4, <2>1, NullFacts
    <3>2. QED
      BY <1>14, <1>9, <3>1
  <2>2. CASE m = n /\ ~Tracked(n)
    <3>1. evq[n] = <<>>
      BY <1>1, <1>9, <2>2 DEF EventsInv
    <3>2. QED
      BY <1>5, <1>9, <2>2, <3>1
  <2>3. CASE m = n /\ Tracked(n) /\ i = Len(evq[n]) + 1
    BY <1>3, <1>7, <1>9, <2>3, KeyEvents
  <2>4. CASE m = n /\ Tracked(n) /\ i \in 1..Len(evq[n])
    <3>1. j \in down[n] \/ \E l \in 1..Len(evq[n]) : l > i /\ evq[n][l] = KeyEv(j, FALSE)
      <4>1. evq[n][i] = KeyEv(j, TRUE)
        BY <1>7, <1>9, <2>4
      <4>2. QED
        BY <1>14, <1>9, <2>4, <4>1
    <3>2. /\ \A l \in 1..Len(evq[n]) : l \in 1..Len(evq'[n]) /\ Len(evq'[n]) > l
          /\ Len(evq'[n]) \in 1..Len(evq'[n]) /\ evq'[n][Len(evq'[n])] = e
      BY <1>7, <2>4
    <3>3. CASE j \in down[n] /\ j = k
      BY <1>3, <2>4, <3>2, <3>3
    <3>4. CASE j \in down[n] /\ j # k
      BY <1>3, <2>4, <3>4
    <3>5. CASE \E l \in 1..Len(evq[n]) : l > i /\ evq[n][l] = KeyEv(j, FALSE)
      BY <1>7, <2>4, <3>2, <3>5
    <3>6. QED
      BY <3>1, <3>3, <3>4, <3>5
  <2>5. m = n /\ Tracked(n) => i = Len(evq[n]) + 1 \/ i \in 1..Len(evq[n])
    BY <1>7
  <2>6. QED
    BY <2>1, <2>2, <2>3, <2>4, <2>5
<1>10. EventsInv'
  <2>1. \A m \in KeyNode : evq'[m] \in Seq(KeyEvent)
    BY <1>1, <1>4, <1>5, NullFacts DEF EventsInv
  <2>2. \A m \in TouchNode : evq'[m] \in Seq(TouchEvent)
    BY <1>1, <1>4, NullFacts DEF EventsInv
  <2>3. helper' = "run" => \A m \in Node : evq'[m] # <<>> => Tracked(m)'
    BY <1>1, <1>2, <1>4, <1>5, <1>6 DEF EventsInv
  <2>4. QED
    BY <1>2, <1>9, <2>1, <2>2, <2>3 DEF EventsInv
<1>11. ASSUME NEW d \in DevId, NEW j \in Key, Holder(d, j)
       PROVE  Holder(d, j)'
  <2>1. g_devs[d] # NULL /\ Shown(d) /\ Shown(d)' /\ g_devs' = g_devs
    BY <1>2, <1>11 DEF Holder, Shown
  <2>2. CASE g_devs[d].dead
    BY <2>1, <2>2 DEF Holder
  <2>3. CASE ~g_devs[d].dead /\ g_devs[d].node # n
    BY <1>4, <1>11, <2>1, <2>3, NullFacts DEF Holder, WillRelease
  <2>4. CASE ~g_devs[d].dead /\ g_devs[d].node = n
    <3>1. Tracked(n)
      BY <2>1, <2>4 DEF Tracked
    <3>2. /\ \A l \in 1..Len(evq[n]) : l \in 1..Len(evq'[n])
          /\ Len(evq'[n]) \in 1..Len(evq'[n]) /\ evq'[n][Len(evq'[n])] = e
      BY <1>7, <3>1
    <3>3. CASE j \in down[n] /\ j = k
      BY <1>3, <2>1, <2>4, <3>2, <3>3 DEF Holder, WillRelease
    <3>4. CASE j \in down[n] /\ j # k
      BY <1>3, <2>1, <2>4, <3>4 DEF Holder
    <3>5. CASE WillRelease(n, j)
      BY <1>7, <2>1, <2>4, <3>1, <3>2, <3>5 DEF Holder, WillRelease
    <3>6. QED
      BY <1>11, <2>4, <3>3, <3>4, <3>5 DEF Holder
  <2>5. QED
    BY <2>2, <2>3, <2>4
<1>12. \A d \in DevId : (Shown(d)' <=> Shown(d)) /\ (Shown(d) => g_devs'[d].gen = g_devs[d].gen)
  BY <1>2 DEF Shown
<1>13. QED
  BY <1>2, <1>8, <1>10, <1>11, <1>12, UserStep

LEMMA TouchOrLiftStep ==
  ASSUME IInv, NEW n \in TouchNode, NEW c \in Contact, TouchOrLift(n, c)
  PROVE  IInv'
<1> DEFINE es == (IF kslot[n] = c THEN <<>> ELSE <<SlotEv(c)>>) \o <<TrackEv(c \notin down[n]), SynEv>>
<1>1. /\ TypeOK /\ EventsInv /\ n \in Node
      /\ evq \in [Node -> Seq(KeyEvent \cup TouchEvent)] /\ evq[n] \in Seq(TouchEvent)
      /\ down \in [Node -> SUBSET (Key \cup Contact)] /\ kslot \in [TouchNode -> Contact]
  BY NullFacts DEF IInv, TypeOK, EventsInv
<1>2. /\ down' = [down EXCEPT ![n] = Toggled(@, c)]
      /\ kslot' = [kslot EXCEPT ![n] = c]
      /\ evq' = IF Tracked(n) THEN [evq EXCEPT ![n] = @ \o es] ELSE evq
      /\ acts' = acts + 1
      /\ UNCHANGED <<plugged, plugs, helper, g_devs, out, posted, reader, main>>
  BY DEF TouchOrLift, Emit
<1>3. es \in Seq(TouchEvent)
  <2>1. TrackEv(c \notin down[n]) \in TouchEvent /\ SynEv \in TouchEvent /\ SlotEv(c) \in TouchEvent
    <3>1. CASE c \in down[n]
      <4>1. (c \notin down[n]) = FALSE
        BY <3>1
      <4>2. QED
        BY <4>1, TouchEvents
    <3>2. CASE c \notin down[n]
      <4>1. (c \notin down[n]) = TRUE
        BY <3>2
      <4>2. QED
        BY <4>1, TouchEvents
    <3>3. QED
      BY <3>1, <3>2
  <2>2. \A e1, e2, e3 \in TouchEvent :
          <<>> \o <<e1, e2>> \in Seq(TouchEvent) /\ <<e3>> \o <<e1, e2>> \in Seq(TouchEvent)
    OBVIOUS
  <2>3. QED
    BY <2>1, <2>2
<1>4. \A m \in Node : m # n => down'[m] = down[m] /\ evq'[m] = evq[m]
  BY <1>1, <1>2
<1> HIDE DEF es
<1>5. /\ ~Tracked(n) => evq'[n] = evq[n]
      /\ evq' \in [Node -> Seq(KeyEvent \cup TouchEvent)]
      /\ evq'[n] \in Seq(TouchEvent)
  <2>1. evq[n] \o es \in Seq(TouchEvent) /\ evq[n] \o es \in Seq(KeyEvent \cup TouchEvent)
    <3>1. evq[n] \o es \in Seq(TouchEvent)
      BY <1>1, <1>3
    <3>2. evq[n] \in Seq(KeyEvent \cup TouchEvent) /\ es \in Seq(KeyEvent \cup TouchEvent)
      BY <1>1, <1>3
    <3>3. QED
      BY <3>1, <3>2
  <2>2. QED
    BY <1>1, <1>2, <2>1
<1>6. \A m : Tracked(m)' <=> Tracked(m)
  BY <1>2 DEF Tracked
<1>7. TypeOK'
  <2>1. down' \in [Node -> SUBSET (Key \cup Contact)] /\ kslot' \in [TouchNode -> Contact]
    BY <1>1, <1>2 DEF Toggled
  <2>2. acts' \in Nat
    BY <1>1, <1>2 DEF TypeOK
  <2>3. QED
    BY <1>1, <1>2, <1>5, <2>1, <2>2 DEF TypeOK, main
<1>8. \A m \in KeyNode : down'[m] = down[m] /\ evq'[m] = evq[m]
  BY <1>4, NullFacts
<1>9. EventsInv'
  <2>1. \A m \in TouchNode : evq'[m] \in Seq(TouchEvent)
    BY <1>1, <1>4, <1>5, NullFacts DEF EventsInv
  <2>2. helper' = "run" => \A m \in Node : evq'[m] # <<>> => Tracked(m)'
    BY <1>1, <1>2, <1>4, <1>5, <1>6 DEF EventsInv
  <2>3. \A m \in KeyNode : evq'[m] \in Seq(KeyEvent)
    BY <1>1, <1>8 DEF EventsInv
  <2>4. ASSUME helper = "run", NEW m \in KeyNode, NEW j \in Key, NEW i \in 1..Len(evq'[m]),
               evq'[m][i] = KeyEv(j, TRUE)
        PROVE  j \in down'[m] \/ \E l \in 1..Len(evq'[m]) : l > i /\ evq'[m][l] = KeyEv(j, FALSE)
    <3>1. evq'[m] = evq[m] /\ down'[m] = down[m]
      BY <1>8
    <3>2. QED
      BY <1>1, <2>4, <3>1 DEF EventsInv
  <2>5. QED
    BY <1>2, <2>1, <2>2, <2>3, <2>4 DEF EventsInv
<1>10. \A d \in DevId : (Shown(d)' <=> Shown(d)) /\ (Shown(d) => g_devs'[d].gen = g_devs[d].gen)
  BY <1>2 DEF Shown
<1>11. ASSUME NEW d \in DevId, NEW k \in Key, Holder(d, k)
       PROVE  Holder(d, k)'
  <2>1. Shown(d)' /\ g_devs' = g_devs
    BY <1>2, <1>10, <1>11 DEF Holder
  <2>2. CASE g_devs[d].dead
    BY <2>1, <2>2 DEF Holder
  <2>3. CASE g_devs[d].node \in KeyNode
    BY <1>8, <1>11, <2>1, <2>3 DEF Holder, WillRelease
  <2>4. QED
    BY <1>11, <2>2, <2>3 DEF Holder
<1>12. QED
  BY <1>2, <1>7, <1>9, <1>10, <1>11, UserStep

\* What a device that goes has not been asked for is lost, but the helper
\* will find it gone.
LEMMA UnplugStep ==
  ASSUME IInv, NEW n \in Node, Unplug(n)
  PROVE  IInv'
<1>1. /\ TypeOK /\ EventsInv
      /\ evq \in [Node -> Seq(KeyEvent \cup TouchEvent)]
      /\ down \in [Node -> SUBSET (Key \cup Contact)] /\ kslot \in [TouchNode -> Contact]
      /\ g_devs \in [DevId -> Entry \cup {NULL}] /\ plugs \in Nat
  BY DEF IInv, TypeOK
<1>2. /\ plugs' = plugs + 1 /\ plugged' = plugged \ {n}
      /\ down' = [down EXCEPT ![n] = {}]
      /\ kslot' = IF n \in TouchNode THEN [kslot EXCEPT ![n] = Slot0] ELSE kslot
      /\ evq' = [evq EXCEPT ![n] = <<>>]
      /\ g_devs' = [d \in DevId |-> IF g_devs[d] # NULL /\ g_devs[d].node = n
                                    THEN [g_devs[d] EXCEPT !.dead = TRUE] ELSE g_devs[d]]
      /\ UNCHANGED <<acts, helper, out, posted, reader, main>>
  BY DEF Unplug
<1>3. \A m \in Node : IF m = n THEN down'[m] = {} /\ evq'[m] = <<>>
                      ELSE down'[m] = down[m] /\ evq'[m] = evq[m]
  BY <1>1, <1>2
<1>4. \A d \in DevId :
        \/ g_devs'[d] = g_devs[d] /\ (g_devs[d] # NULL => g_devs[d].node # n)
        \/ /\ g_devs[d] # NULL /\ g_devs[d].node = n
           /\ g_devs'[d] \in Entry /\ g_devs'[d].dead
           /\ g_devs'[d].node = n /\ g_devs'[d].gen = g_devs[d].gen
           /\ g_devs'[d].announced = g_devs[d].announced
  <2> SUFFICES ASSUME NEW d \in DevId, g_devs[d] # NULL, g_devs[d].node = n
               PROVE  /\ g_devs'[d] \in Entry /\ g_devs'[d].dead
                      /\ g_devs'[d].node = n /\ g_devs'[d].gen = g_devs[d].gen
                      /\ g_devs'[d].announced = g_devs[d].announced
    BY <1>2
  <2>1. g_devs'[d] = [g_devs[d] EXCEPT !.dead = TRUE] /\ g_devs[d] \in Entry
    BY <1>1, <1>2
  <2>2. QED
    BY <2>1 DEF Entry
<1>5. \A m \in Node : m # n => (Tracked(m) => Tracked(m)')
  <2> SUFFICES ASSUME NEW m \in Node, m # n, NEW d \in DevId,
                      g_devs[d] # NULL, g_devs[d].node = m, ~g_devs[d].dead
               PROVE  g_devs'[d] # NULL /\ g_devs'[d].node = m /\ ~g_devs'[d].dead
    BY DEF Tracked
  <2>1. QED
    BY <1>4
<1>6. TypeOK'
  <2>1. evq' \in [Node -> Seq(KeyEvent \cup TouchEvent)]
    <3>1. <<>> \in Seq(KeyEvent \cup TouchEvent)
      OBVIOUS
    <3>2. QED
      BY <1>1, <1>2, <3>1
  <2>2. down' \in [Node -> SUBSET (Key \cup Contact)] /\ kslot' \in [TouchNode -> Contact]
    BY <1>1, <1>2, NullFacts
  <2>3. g_devs' \in [DevId -> Entry \cup {NULL}]
    <3>1. \A d \in DevId : g_devs'[d] \in Entry \cup {NULL}
      BY <1>1, <1>4
    <3>2. QED
      BY <1>2, <3>1
  <2>4. plugs' \in Nat /\ plugged' \subseteq Node
    BY <1>1, <1>2 DEF TypeOK
  <2>5. QED
    BY <1>1, <1>2, <2>1, <2>2, <2>3, <2>4 DEF TypeOK, main
<1>7. EventsInv'
  <2>1. \A m \in KeyNode : evq'[m] \in Seq(KeyEvent)
    <3>1. <<>> \in Seq(KeyEvent)
      OBVIOUS
    <3>2. QED
      BY <1>1, <1>3, <3>1, NullFacts DEF EventsInv
  <2>2. \A m \in TouchNode : evq'[m] \in Seq(TouchEvent)
    <3>1. <<>> \in Seq(TouchEvent)
      OBVIOUS
    <3>2. QED
      BY <1>1, <1>3, <3>1, NullFacts DEF EventsInv
  <2>3. helper' = "run" => \A m \in Node : evq'[m] # <<>> => Tracked(m)'
    BY <1>1, <1>2, <1>3, <1>5 DEF EventsInv
  <2>4. ASSUME helper = "run", NEW m \in KeyNode, NEW j \in Key, NEW i \in 1..Len(evq'[m]),
               evq'[m][i] = KeyEv(j, TRUE)
        PROVE  j \in down'[m] \/ \E l \in 1..Len(evq'[m]) : l > i /\ evq'[m][l] = KeyEv(j, FALSE)
    <3>1. m # n
      <4>1. Len(<<>>) = 0
        OBVIOUS
      <4>2. QED
        BY <1>3, <2>4, <4>1, NullFacts
    <3>2. evq'[m] = evq[m] /\ down'[m] = down[m]
      BY <1>3, <3>1, NullFacts
    <3>3. QED
      BY <1>1, <2>4, <3>2 DEF EventsInv
  <2>5. QED
    BY <1>2, <2>1, <2>2, <2>3, <2>4 DEF EventsInv
<1>8. \A d \in DevId : (Shown(d)' <=> Shown(d)) /\ (Shown(d) => g_devs'[d].gen = g_devs[d].gen)
  BY <1>4, NullFacts DEF Shown
<1>9. ASSUME NEW d \in DevId, NEW k \in Key, Holder(d, k)
      PROVE  Holder(d, k)'
  <2>1. Shown(d)'
    BY <1>8, <1>9 DEF Holder
  <2>2. CASE g_devs'[d].dead
    BY <2>1, <2>2 DEF Holder
  <2>3. CASE ~g_devs'[d].dead
    <3>1. g_devs'[d] = g_devs[d] /\ g_devs[d].node # n
      BY <1>4, <1>9, <2>3 DEF Holder, Shown
    <3>2. QED
      BY <1>3, <1>9, <2>1, <2>3, <3>1, NullFacts DEF Holder, WillRelease
  <2>4. QED
    BY <2>2, <2>3
<1>10. QED
  BY <1>2, <1>6, <1>7, <1>8, <1>9, UserStep

LEMMA PlugStep ==
  ASSUME IInv, NEW n \in Node, Plug(n)
  PROVE  IInv'
<1>1. /\ plugs' = plugs + 1 /\ plugged' = plugged \cup {n}
      /\ UNCHANGED <<down, kslot, evq, acts, helper, g_devs, out, posted, reader, main>>
  BY DEF Plug
<1>2. TypeOK'
  <2>1. plugs' \in Nat /\ plugged' \subseteq Node
    BY <1>1 DEF IInv, TypeOK
  <2>2. QED
    BY <1>1, <2>1 DEF IInv, TypeOK, main
<1>3. EventsInv'
  BY <1>1 DEF IInv, EventsInv, Tracked
<1>4. \A d \in DevId : /\ (Shown(d)' <=> Shown(d)) /\ (Shown(d) => g_devs'[d].gen = g_devs[d].gen)
                       /\ \A k \in Key : Holder(d, k) => Holder(d, k)'
  BY <1>1 DEF Shown, Holder, WillRelease
<1>5. QED
  BY <1>1, <1>2, <1>3, <1>4, UserStep

\* A device that is opened is not shown yet.
LEMMA ScanStep ==
  ASSUME IInv, NEW n \in Node, ScanNewDevice(n)
  PROVE  IInv'
<1>1. PICK d \in DevId :
        /\ FreeId(d)
        /\ g_devs' = [g_devs EXCEPT ![d] = [node |-> n, gen |-> plugs,
                                            announced |-> FALSE, dead |-> FALSE]]
  BY DEF ScanNewDevice
<1>2. UNCHANGED <<kernel, helper, out, posted, reader, main>>
  BY DEF ScanNewDevice
<1>3. g_devs \in [DevId -> Entry \cup {NULL}] /\ plugs \in Nat /\ g_devs[d] = NULL
  BY <1>1 DEF IInv, TypeOK, FreeId
<1>4. /\ g_devs'[d] = [node |-> n, gen |-> plugs, announced |-> FALSE, dead |-> FALSE]
      /\ \A e \in DevId : e # d => g_devs'[e] = g_devs[e]
  BY <1>1, <1>3
<1>5. g_devs' \in [DevId -> Entry \cup {NULL}] /\ ~g_devs'[d].announced
  <2>1. [node |-> n, gen |-> plugs, announced |-> FALSE, dead |-> FALSE] \in Entry
    BY <1>3 DEF Entry
  <2>2. QED
    BY <1>1, <1>3, <2>1
<1>6. TypeOK'
  BY <1>2, <1>5 DEF IInv, TypeOK, kernel, main
<1>7. \A m : Tracked(m) => Tracked(m)'
  <2> SUFFICES ASSUME NEW m, NEW e \in DevId, g_devs[e] # NULL, g_devs[e].node = m, ~g_devs[e].dead
               PROVE  g_devs'[e] # NULL /\ g_devs'[e].node = m /\ ~g_devs'[e].dead
    BY DEF Tracked
  <2>1. QED
    BY <1>3, <1>4
<1>8. EventsInv'
  BY <1>2, <1>7 DEF IInv, EventsInv, kernel
<1>9. \A e \in DevId : (Shown(e)' <=> Shown(e)) /\ (Shown(e) => g_devs'[e].gen = g_devs[e].gen)
  BY <1>3, <1>4, <1>5 DEF Shown
<1>10. \A e \in DevId, k \in Key : Holder(e, k) => Holder(e, k)'
  <2>1. \A e \in DevId, k \in Key : Holder(e, k) => g_devs'[e] = g_devs[e]
    BY <1>3, <1>4 DEF Holder, Shown
  <2>2. QED
    BY <1>2, <2>1 DEF Holder, Shown, WillRelease, kernel
<1>11. QED
  BY <1>2, <1>6, <1>8, <1>9, <1>10, UserStep

-----------------------------------------------------------------------------
(* The helper.                                                             *)

LEMMA OutType == ASSUME TypeOK PROVE out \in Out
BY DEF TypeOK, Out

\* A step of the helper that does not end the session.
LEMMA HelperStep ==
  ASSUME IInv, helper # "gone", helper' \in {"run", "bye"},
         UNCHANGED <<plugged, down, kslot, acts, plugs, posted, reader, main>>,
         out' \in Out, g_devs' \in [DevId -> Entry \cup {NULL}],
         evq' \in [Node -> Seq(KeyEvent \cup TouchEvent)], EventsInv',
         NEW t, t = Stream(out'), NEW c, c = out'.resync,
         NoEndIn(t), LinkInv(t, c)'
  PROVE  IInv'
<1>1. Stream(out)' = t
  BY StreamNext
<1>2. TypeOK'
  BY DEF IInv, TypeOK, Out, main
<1>3. EndInv'
  BY <1>1, EndKeeps DEF IInv, main
<1>4. LinkInv(Stream(out), out.resync)'
  BY <1>1
<1>5. QED
  BY <1>2, <1>3, <1>4, ContactsSame DEF IInv, main

LEMMA RecoverStep ==
  ASSUME IInv, Recover
  PROVE  IInv'
<1>1. /\ out' \in RecoverOutput(out) /\ helper = "run"
      /\ UNCHANGED <<kernel, helper, g_devs, posted, reader, main>>
  BY DEF Recover, Running
<1>2. TypeOK /\ out \in Out /\ LinkInv(Stream(out), out.resync) /\ NoEndIn(Stream(out))
  BY <1>1, OutType, NoEnd DEF IInv
<1>3. out' \in Out /\ LinkInv(Stream(out'), out'.resync) /\ NoEndIn(Stream(out'))
  BY <1>1, <1>2, RecoverLink
<1>4. /\ \A d \in DevId : (Shown(d)' <=> Shown(d)) /\ g_devs'[d].gen = g_devs[d].gen
      /\ \A d \in DevId, k \in Key : Holder(d, k) => Holder(d, k)'
  BY <1>1 DEF Shown, Holder, WillRelease, kernel
<1>5. PICK t, c : t = Stream(out') /\ c = out'.resync
  OBVIOUS
<1>6. LinkInv(t, c) /\ NoEndIn(t)
  BY <1>3, <1>5
<1>7. LinkInv(t, c)'
  BY <1>1, <1>4, <1>6, LinkSame DEF main
<1>8. EventsInv'
  BY <1>1 DEF IInv, EventsInv, Tracked, kernel
<1>9. g_devs' \in [DevId -> Entry \cup {NULL}] /\ evq' \in [Node -> Seq(KeyEvent \cup TouchEvent)]
  BY <1>1 DEF IInv, TypeOK, kernel
<1>10. QED
  BY <1>1, <1>3, <1>5, <1>6, <1>7, <1>8, <1>9, HelperStep DEF kernel

\* What send_rec does to the stream.
LEMMA SendStream ==
  ASSUME TypeOK, NEW o \in Out, helper # "gone", NEW r \in Record, r # Bye,
         NEW s \in SendRec(o, r), NoEndIn(Stream(o))
  PROVE  /\ s \in Out /\ NoEndIn(Stream(s))
         /\ \/ Stream(s) = Stream(o) /\ s.resync = TRUE
            \/ Extends(Stream(o), Stream(s), r) /\ s.resync = o.resync
<1>1. /\ s \in Out
      /\ \/ Coming(s) = Coming(o) /\ s.resync /\ s.drops # 0
         \/ Coming(s) = Append(Coming(o), r) /\ s.resync = o.resync
  BY SendFacts
<1>2. s.resync \in BOOLEAN
  BY <1>1 DEF Out
<1>3. CASE Coming(s) = Coming(o) /\ s.resync
  BY <1>1, <1>2, <1>3 DEF Stream
<1>4. CASE Coming(s) = Append(Coming(o), r) /\ s.resync = o.resync
  <2>1. Coming(o) \in Seq(Record) /\ posted \in Line /\ Post(r) = r /\ r.rtype # "END"
    BY StreamType, RecordFacts
  <2>2. Extends(Stream(o), Stream(s), r)
    BY <1>4, <2>1, LineExtends DEF Stream
  <2>3. QED
    BY <1>1, <1>4, <2>1, <2>2, NoEndExtends
<1>5. QED
  BY <1>1, <1>3, <1>4

\* DEVICE is on the stream, whole or not.
LEMMA DeviceLink ==
  ASSUME UNCHANGED <<devs, desk, keyDown, helper>>, NEW s, NEW t, LinkInv(s, FALSE),
         helper = "run", NEW d \in DevId, ~Shown(d), NEW g, g_devs[d].gen = g,
         Extends(s, t, Device(d, g)), g_devs'[d].gen = g,
         \A e \in DevId : e # d => (Shown(e)' <=> Shown(e)) /\ g_devs'[e].gen = g_devs[e].gen,
         Shown(d)' \/ (~Shown(d)' /\ g_devs' = g_devs),
         \A e \in DevId, k \in Key : Holder(e, k) => Holder(e, k)'
  PROVE  LinkInv(t, FALSE)'
<1>1. /\ Device(d, g).rtype = "DEVICE" /\ Device(d, g).dev = d /\ Device(d, g).gen = g
  BY DEF Device
<1> DEFINE r == Device(d, g)
<1>2. /\ Opens(r, d) /\ r.gen = g
      /\ \A e : e # d => ~Opens(r, e)
      /\ \A e : ~EventOf(r, e)
      /\ \A k : ~Presses(r, k)
  BY <1>1 DEF Opens, EventOf, Presses
<1> HIDE DEF r
<1>3. Extends(s, t, r)
  BY DEF r
<1>4. RecordsInv(s) /\ HelperInv(s, FALSE) /\ KeysInv(s, FALSE)
  BY DEF LinkInv
<1>5. QuietAfter(s, Len(s), d)
  BY <1>4 DEF HelperInv
<1>6. RecordsInv(t)
  BY <1>2, <1>3, <1>4, <1>5, RecordsExtend
<1>7. ASSUME NEW e \in DevId, Shown(e)'
      PROVE  GenAfter(t, Len(t), e, g_devs'[e].gen)
  <2>1. CASE e = d
    BY <1>2, <1>3, <2>1, GenExtends
  <2>2. CASE e # d
    <3>1. GenAfter(s, Len(s), e, g_devs[e].gen)
      BY <1>4, <1>7, <2>2 DEF HelperInv
    <3>2. QED
      BY <1>2, <1>3, <2>2, <3>1, GenExtends
  <2>3. QED
    BY <2>1, <2>2
<1>8. ASSUME NEW e \in DevId, ~Shown(e)'
      PROVE  QuietAfter(t, Len(t), e)
  <2>1. ~Shown(e)
    BY <1>8 DEF Shown
  <2>2. QuietAfter(s, Len(s), e)
    BY <1>4, <2>1 DEF HelperInv
  <2>3. QED
    BY <1>2, <1>3, <2>2, QuietExtends
<1>9. HelperInv(t, FALSE)'
  BY <1>7, <1>8, AfterSame DEF HelperInv
<1>10. ASSUME NEW k \in Key, HeldAfter(t, k)
       PROVE  \E e \in DevId : Holder(e, k)'
  <2>1. HeldAfter(s, k)
    BY <1>2, <1>3, <1>10, HeldExtends
  <2>2. QED
    BY <1>4, <2>1 DEF KeysInv
<1>11. KeysInv(t, FALSE)'
  BY <1>10, AfterSame DEF KeysInv
<1>12. QED
  BY <1>6, <1>9, <1>11, AfterSame DEF LinkInv

LEMMA AnnounceStep ==
  ASSUME IInv, NEW d \in DevId, AnnouncePendingDevice(d)
  PROVE  IInv'
<1>1. PICK o \in RecoverOutput(out) :
        IF ~Ready(o)
        THEN out' = o /\ UNCHANGED g_devs
        ELSE /\ out' \in SendRec(o, Device(d, g_devs[d].gen))
             /\ IF Ready(out') THEN Announced(d) ELSE UNCHANGED g_devs
  BY DEF AnnouncePendingDevice
<1>2. /\ helper = "run" /\ g_devs[d] # NULL /\ ~g_devs[d].announced
      /\ UNCHANGED <<kernel, helper, posted, reader, main>>
  BY DEF AnnouncePendingDevice, Running
<1>3. TypeOK /\ out \in Out /\ LinkInv(Stream(out), out.resync) /\ NoEndIn(Stream(out))
  BY <1>2, OutType, NoEnd DEF IInv
<1>4. o \in Out /\ LinkInv(Stream(o), o.resync) /\ NoEndIn(Stream(o))
  BY <1>2, <1>3, RecoverLink
<1>5. g_devs \in [DevId -> Entry \cup {NULL}] /\ g_devs[d] \in Entry /\ g_devs[d].gen \in Nat
  BY <1>2, <1>3 DEF TypeOK, Entry
<1>6. /\ g_devs' = g_devs \/ (Announced(d) /\ Ready(out') /\ Ready(o))
      /\ Announced(d) => /\ g_devs' \in [DevId -> Entry \cup {NULL}]
                         /\ g_devs'[d] # NULL /\ g_devs'[d].announced
                         /\ g_devs'[d].gen = g_devs[d].gen /\ g_devs'[d].node = g_devs[d].node
                         /\ g_devs'[d].dead = g_devs[d].dead
                         /\ \A e \in DevId : e # d => g_devs'[e] = g_devs[e]
  <2>1. ASSUME Announced(d)
        PROVE  /\ g_devs' \in [DevId -> Entry \cup {NULL}]
               /\ g_devs'[d] # NULL /\ g_devs'[d].announced
               /\ g_devs'[d].gen = g_devs[d].gen /\ g_devs'[d].node = g_devs[d].node
               /\ g_devs'[d].dead = g_devs[d].dead
               /\ \A e \in DevId : e # d => g_devs'[e] = g_devs[e]
    <3>1. /\ g_devs'[d] = [g_devs[d] EXCEPT !.announced = TRUE]
          /\ \A e \in DevId : e # d => g_devs'[e] = g_devs[e]
          /\ g_devs' = [g_devs EXCEPT ![d] = [g_devs[d] EXCEPT !.announced = TRUE]]
      BY <1>5, <2>1 DEF Announced
    <3>2. [g_devs[d] EXCEPT !.announced = TRUE] \in Entry
      BY <1>5 DEF Entry
    <3>3. g_devs' \in [DevId -> Entry \cup {NULL}]
      BY <1>5, <3>1, <3>2
    <3>4. QED
      BY <1>5, <3>1, <3>2, <3>3, NullFacts DEF Entry
  <2>2. QED
    BY <1>1, <2>1
<1>7. \A e \in DevId, k \in Key : Holder(e, k) => Holder(e, k)'
  <2>1. \A m, k : WillRelease(m, k)' <=> WillRelease(m, k)
    BY <1>2 DEF WillRelease, kernel
  <2>2. ASSUME NEW e \in DevId, NEW k \in Key, Holder(e, k)
        PROVE  Holder(e, k)'
    <3>1. g_devs'[e] = g_devs[e]
      BY <1>2, <1>6, <2>2 DEF Holder, Shown
    <3>2. QED
      BY <1>2, <2>1, <2>2, <3>1 DEF Holder, Shown, kernel
  <2>3. QED
    BY <2>2
<1>8. PICK t, c : t = Stream(out') /\ c = out'.resync
  OBVIOUS
<1>9. out' \in Out /\ NoEndIn(t) /\ LinkInv(t, c)'
  <2>1. CASE ~Ready(o)
    <3>1. out' = o /\ g_devs' = g_devs
      BY <1>1, <2>1
    <3>2. LinkInv(t, c)
      BY <1>4, <1>8, <3>1
    <3>3. \A e \in DevId : Shown(e)' <=> Shown(e)
      BY <3>1 DEF Shown
    <3>4. LinkInv(t, c)'
      BY <1>2, <1>7, <3>1, <3>2, <3>3, LinkSame DEF main
    <3>5. QED
      BY <1>4, <1>8, <3>1, <3>4
  <2>2. CASE Ready(o)
    <3> DEFINE r == Device(d, g_devs[d].gen)
    <3>1. out' \in SendRec(o, r) /\ ~o.resync /\ o.resync = FALSE
      BY <1>1, <1>4, <2>2 DEF Ready, Out
    <3>2. r \in Record /\ r # Bye
      <4>1. \A g \in Nat : Device(d, g) \in Record /\ Device(d, g).rtype = "DEVICE"
        BY DEF Device, Record, DeviceRecord
      <4>2. QED
        BY <1>5, <4>1 DEF Bye
    <3> HIDE DEF r
    <3>3. /\ out' \in Out /\ NoEndIn(Stream(out'))
          /\ \/ Stream(out') = Stream(o) /\ out'.resync = TRUE
             \/ Extends(Stream(o), Stream(out'), r) /\ out'.resync = o.resync
      BY <1>2, <1>3, <1>4, <3>1, <3>2, SendStream
    <3>4. CASE Stream(out') = Stream(o) /\ out'.resync = TRUE
      <4>1. g_devs' = g_devs
        BY <1>6, <3>4 DEF Ready
      <4>2. LinkInv(t, TRUE)
        BY <1>4, <1>8, <3>4, LinkLost
      <4>3. \A e \in DevId : Shown(e)' <=> Shown(e)
        BY <4>1 DEF Shown
      <4>4. LinkInv(t, TRUE)'
        BY <1>2, <1>7, <4>1, <4>2, <4>3, LinkSame DEF main
      <4>5. QED
        BY <1>8, <3>3, <3>4, <4>4
    <3>5. CASE Extends(Stream(o), Stream(out'), r) /\ out'.resync = o.resync
      <4>1. PICK s : s = Stream(o)
        OBVIOUS
      <4>2. LinkInv(s, FALSE) /\ Extends(s, t, Device(d, g_devs[d].gen)) /\ c = FALSE
        BY <1>4, <1>8, <3>1, <3>5, <4>1 DEF r
      <4>3. /\ \A e \in DevId : e # d => (Shown(e)' <=> Shown(e)) /\ g_devs'[e].gen = g_devs[e].gen
            /\ Shown(d)' \/ (~Shown(d)' /\ g_devs' = g_devs)
            /\ g_devs'[d].gen = g_devs[d].gen /\ ~Shown(d)
        BY <1>2, <1>6 DEF Shown
      <4>4. PICK g : g = g_devs[d].gen
        OBVIOUS
      <4>5. LinkInv(t, FALSE)'
        BY <1>2, <1>7, <4>2, <4>3, <4>4, DeviceLink DEF main
      <4>6. QED
        BY <1>8, <3>3, <4>2, <4>5
    <3>6. QED
      BY <3>3, <3>4, <3>5
  <2>3. QED
    BY <2>1, <2>2
<1>10. \A m : Tracked(m) => Tracked(m)'
  <2> SUFFICES ASSUME NEW m, NEW e \in DevId, g_devs[e] # NULL, g_devs[e].node = m, ~g_devs[e].dead
               PROVE  g_devs'[e] # NULL /\ g_devs'[e].node = m /\ ~g_devs'[e].dead
    BY DEF Tracked
  <2>1. QED
    BY <1>6
<1>11. EventsInv'
  BY <1>2, <1>10 DEF IInv, EventsInv, kernel
<1>12. g_devs' \in [DevId -> Entry \cup {NULL}] /\ evq' \in [Node -> Seq(KeyEvent \cup TouchEvent)]
  BY <1>2, <1>3, <1>5, <1>6 DEF TypeOK, kernel
<1>13. QED
  BY <1>2, <1>8, <1>9, <1>11, <1>12, HelperStep DEF kernel

LEMMA DropFacts ==
  ASSUME NEW o \in Out
  PROVE  Dropped(o) \in Out /\ Coming(Dropped(o)) = Coming(o) /\ Dropped(o).resync = TRUE
<1>1. o.drops \in Nat
  BY DEF Out
<1>2. /\ Dropped(o).wire = o.wire /\ Dropped(o).pending = o.pending
      /\ Dropped(o).resync = TRUE
      /\ Dropped(o).drops = (IF o.drops > MAX_DROPS THEN o.drops ELSE o.drops + 1)
  BY DEF Dropped, Out
<1>3. Dropped(o).drops \in Nat
  BY <1>1, <1>2, NullFacts
<1>4. Dropped(o) = [o EXCEPT !.drops = Dropped(o).drops, !.resync = TRUE]
  BY <1>2 DEF Dropped, Out
<1>5. Dropped(o) \in Out
  BY <1>3, <1>4 DEF Out
<1>6. Coming(Dropped(o)) = Coming(o)
  BY <1>2 DEF Coming, Rest
<1>7. QED
  BY <1>2, <1>5, <1>6

LEMMA TailFacts ==
  ASSUME NEW T, NEW q \in Seq(T), q # <<>>
  PROVE  /\ Tail(q) \in Seq(T) /\ Len(q) \in Nat /\ Len(Tail(q)) = Len(q) - 1
         /\ Head(q) = q[1] /\ q[1] \in T /\ 1 \in 1..Len(q)
         /\ \A i \in 1..Len(q) : i > 1 => i - 1 \in 1..Len(Tail(q)) /\ Tail(q)[i - 1] = q[i]
         /\ \A i \in 1..Len(Tail(q)) : i + 1 \in 1..Len(q) /\ Tail(q)[i] = q[i + 1]
OBVIOUS

\* The helper reads an event of device d's node: what remains of it, and for
\* whom keys are still held.
LEMMA PumpEvents ==
  ASSUME TypeOK, EventsInv, helper = "run", NEW d \in DevId, g_devs[d] # NULL, ~g_devs[d].dead,
         evq[g_devs[d].node] # <<>>,
         evq' = [evq EXCEPT ![g_devs[d].node] = Tail(@)], UNCHANGED down,
         helper' = "run" => g_devs' = g_devs
  PROVE  /\ evq' \in [Node -> Seq(KeyEvent \cup TouchEvent)] /\ EventsInv'
         /\ Head(evq[g_devs[d].node]) \in KeyEvent \cup TouchEvent
         /\ g_devs' = g_devs =>
              \A k \in Key :
                /\ Head(evq[g_devs[d].node]) = KeyEv(k, TRUE) /\ Shown(d) => Holder(d, k)'
                /\ Head(evq[g_devs[d].node]) # KeyEv(k, FALSE) =>
                     \A e \in DevId : Holder(e, k) => Holder(e, k)'
<1> DEFINE n == g_devs[d].node
           q == evq[n]
<1>1. n \in Node /\ evq \in [Node -> Seq(KeyEvent \cup TouchEvent)] /\ q # <<>>
  BY DEF TypeOK, Entry
<1>2. /\ evq'[n] = Tail(q) /\ \A m \in Node : m # n => evq'[m] = evq[m]
      /\ q \in Seq(KeyEvent \cup TouchEvent)
  BY <1>1
<1>3. n \in KeyNode => q \in Seq(KeyEvent)
  BY DEF EventsInv
<1>4. n \in TouchNode => q \in Seq(TouchEvent)
  BY DEF EventsInv
<1>5. evq' = [evq EXCEPT ![n] = Tail(q)]
  OBVIOUS
<1> HIDE DEF q
<1>6. /\ Tail(q) \in Seq(KeyEvent \cup TouchEvent) /\ Head(q) \in KeyEvent \cup TouchEvent
      /\ n \in KeyNode => Tail(q) \in Seq(KeyEvent)
      /\ n \in TouchNode => Tail(q) \in Seq(TouchEvent) /\ Head(q) \in TouchEvent
  <2>1. Tail(q) \in Seq(KeyEvent \cup TouchEvent) /\ Head(q) \in KeyEvent \cup TouchEvent
    BY <1>1, <1>2, TailFacts
  <2>2. n \in KeyNode => Tail(q) \in Seq(KeyEvent)
    BY <1>1, <1>3, TailFacts
  <2>3. n \in TouchNode => Tail(q) \in Seq(TouchEvent) /\ Head(q) \in TouchEvent
    BY <1>1, <1>4, TailFacts
  <2>4. QED
    BY <2>1, <2>2, <2>3
<1>7. evq' \in [Node -> Seq(KeyEvent \cup TouchEvent)]
  BY <1>1, <1>5, <1>6
<1>8. /\ Len(q) \in Nat /\ Head(q) = q[1] /\ Len(Tail(q)) \in Nat
      /\ \A i \in 1..Len(q) : i > 1 => i - 1 \in 1..Len(Tail(q)) /\ Tail(q)[i - 1] = q[i]
      /\ \A i \in 1..Len(Tail(q)) : i + 1 \in 1..Len(q) /\ Tail(q)[i] = q[i + 1]
      /\ 1 \in 1..Len(q)
  BY <1>1, <1>2, TailFacts
<1>9. ASSUME NEW m \in KeyNode, NEW k \in Key, NEW i \in 1..Len(evq[m]), evq[m][i] = KeyEv(k, TRUE)
      PROVE  k \in down[m] \/ \E j \in 1..Len(evq[m]) : j > i /\ evq[m][j] = KeyEv(k, FALSE)
  BY <1>9 DEF EventsInv
<1>10. EventsInv'
  <2>1. \A m \in KeyNode : evq'[m] \in Seq(KeyEvent)
    BY <1>2, <1>6, NullFacts DEF EventsInv
  <2>2. \A m \in TouchNode : evq'[m] \in Seq(TouchEvent)
    BY <1>2, <1>6, NullFacts DEF EventsInv
  <2>3. helper' = "run" => \A m \in Node : evq'[m] # <<>> => Tracked(m)'
    <3>1. helper' = "run" => \A m : Tracked(m)' <=> Tracked(m)
      BY DEF Tracked
    <3>2. \A m \in Node : evq'[m] # <<>> => evq[m] # <<>>
      BY <1>1, <1>2 DEF q
    <3>3. QED
      BY <3>1, <3>2 DEF EventsInv
  <2>4. ASSUME NEW m \in KeyNode, NEW k \in Key, NEW i \in 1..Len(evq'[m]), evq'[m][i] = KeyEv(k, TRUE)
        PROVE  k \in down'[m] \/ \E j \in 1..Len(evq'[m]) : j > i /\ evq'[m][j] = KeyEv(k, FALSE)
    <3>1. CASE m # n
      <4>1. evq'[m] = evq[m]
        BY <1>2, <3>1, NullFacts
      <4>2. QED
        BY <1>9, <2>4, <4>1
    <3>2. CASE m = n
      <4>1. evq'[m] = Tail(q) /\ evq[m] = q /\ i \in 1..Len(Tail(q)) /\ Tail(q)[i] = KeyEv(k, TRUE)
        BY <1>2, <2>4, <3>2 DEF q
      <4>2. i + 1 \in 1..Len(q) /\ q[i + 1] = KeyEv(k, TRUE)
        BY <1>8, <4>1
      <4>3. k \in down[m] \/ \E j \in 1..Len(q) : j > i + 1 /\ q[j] = KeyEv(k, FALSE)
        BY <1>9, <4>1, <4>2
      <4>4. ASSUME NEW j \in 1..Len(q), j > i + 1, q[j] = KeyEv(k, FALSE)
            PROVE  j - 1 \in 1..Len(Tail(q)) /\ j - 1 > i /\ Tail(q)[j - 1] = KeyEv(k, FALSE)
        <5>1. j > 1 /\ j - 1 > i
          BY <1>8, <4>1, <4>4
        <5>2. QED
          BY <1>8, <4>4, <5>1
      <4>5. QED
        BY <4>1, <4>3, <4>4
    <3>3. QED
      BY <3>1, <3>2
  <2>5. QED
    BY <2>1, <2>2, <2>3, <2>4 DEF EventsInv
<1>11. ASSUME g_devs' = g_devs, NEW k \in Key, Head(q) = KeyEv(k, TRUE), Shown(d)
       PROVE  Holder(d, k)'
  <2>1. n \in KeyNode
    <3>1. KeyEv(k, TRUE) \notin TouchEvent
      BY DEF KeyEv, TouchEvent
    <3>2. QED
      BY <1>1, <1>6, <1>11, <3>1 DEF Node
  <2>2. k \in down[n] \/ \E j \in 1..Len(q) : j > 1 /\ q[j] = KeyEv(k, FALSE)
    <3>1. evq[n] = q /\ 1 \in 1..Len(evq[n]) /\ evq[n][1] = KeyEv(k, TRUE)
      BY <1>8, <1>11 DEF q
    <3>2. QED
      BY <1>9, <2>1, <3>1
  <2>3. k \in down'[n] \/ WillRelease(n, k)'
    <3>1. ASSUME NEW j \in 1..Len(q), j > 1, q[j] = KeyEv(k, FALSE)
          PROVE  WillRelease(n, k)'
      <4>1. j - 1 \in 1..Len(evq'[n]) /\ evq'[n][j - 1] = KeyEv(k, FALSE)
        BY <1>2, <1>8, <3>1
      <4>2. \E i \in 1..Len(evq'[n]) : evq'[n][i] = KeyEv(k, FALSE)
        BY <4>1
      <4>3. KeyEv(k, FALSE)' = KeyEv(k, FALSE)
        BY DEF KeyEv
      <4>4. QED
        BY <1>11, <4>2, <4>3 DEF WillRelease
    <3>2. QED
      BY <2>2, <3>1
  <2>4. QED
    BY <1>11, <2>1, <2>3 DEF Holder, Shown
<1>12. ASSUME g_devs' = g_devs, NEW k \in Key, Head(q) # KeyEv(k, FALSE), NEW e \in DevId, Holder(e, k)
       PROVE  Holder(e, k)'
  <2>1. Shown(e)'
    BY <1>12 DEF Holder, Shown
  <2>2. CASE WillRelease(g_devs[e].node, k) /\ g_devs[e].node \in KeyNode
    <3>1. PICK j \in 1..Len(evq[g_devs[e].node]) : evq[g_devs[e].node][j] = KeyEv(k, FALSE)
      BY <2>2 DEF WillRelease
    <3>2. CASE g_devs[e].node # n
      <4>1. evq'[g_devs[e].node] = evq[g_devs[e].node]
        BY <1>2, <2>2, <3>2, NullFacts
      <4>2. QED
        BY <1>12, <2>1, <2>2, <4>1 DEF Holder, WillRelease
    <3>3. CASE g_devs[e].node = n
      <4>1. j \in 1..Len(q) /\ q[j] = KeyEv(k, FALSE) /\ j # 1
        BY <1>8, <1>12, <3>1, <3>3 DEF q
      <4>2. j - 1 \in 1..Len(evq'[n]) /\ evq'[n][j - 1] = KeyEv(k, FALSE)
        <5>1. j > 1
          BY <1>8, <4>1
        <5>2. QED
          BY <1>2, <1>8, <4>1, <5>1
      <4>3. WillRelease(g_devs[e].node, k)'
        BY <1>12, <3>3, <4>2 DEF WillRelease, KeyEv
      <4>4. QED
        BY <1>12, <2>1, <2>2, <4>3 DEF Holder
    <3>4. QED
      BY <3>2, <3>3
  <2>3. CASE ~WillRelease(g_devs[e].node, k)
    BY <1>12, <2>1, <2>3 DEF Holder
  <2>4. QED
    BY <1>12, <2>1, <2>2, <2>3 DEF Holder
<1>13. QED
  BY <1>6, <1>7, <1>10, <1>11, <1>12 DEF q

\* An event of a device that is shown is on the stream.
LEMMA EventRecords ==
  ASSUME NEW s, NEW t, LinkInv(s, FALSE), helper = "run", NEW d \in DevId, Shown(d),
         NEW e, NEW r, r = Event(d, g_devs[d].gen, e), Extends(s, t, r)
  PROVE  /\ RecordsInv(t) /\ HelperInv(t, FALSE)
<1>1. r.rtype = "EVENT" /\ r.dev = d /\ r.gen = g_devs[d].gen /\ r.ev = e
  BY DEF Event
<1>2. /\ EventOf(r, d) /\ r.gen = g_devs[d].gen
      /\ \A x : x # d => ~EventOf(r, x)
      /\ \A x : ~Opens(r, x)
  BY <1>1 DEF Opens, EventOf
<1>3. Extends(s, t, r)
  OBVIOUS
<1>4. RecordsInv(s) /\ HelperInv(s, FALSE) /\ GenAfter(s, Len(s), d, g_devs[d].gen)
  BY DEF LinkInv, HelperInv
<1>5. RecordsInv(t)
  BY <1>2, <1>3, <1>4, RecordsExtend
<1>6. HelperInv(t, FALSE)
  <2>1. ASSUME NEW x \in DevId, Shown(x) PROVE GenAfter(t, Len(t), x, g_devs[x].gen)
    <3>1. GenAfter(s, Len(s), x, g_devs[x].gen)
      BY <1>4, <2>1 DEF HelperInv
    <3>2. QED
      BY <1>2, <1>3, <3>1, GenExtends
  <2>2. ASSUME NEW x \in DevId, ~Shown(x) PROVE QuietAfter(t, Len(t), x)
    <3>1. QuietAfter(s, Len(s), x) /\ x # d
      BY <1>4, <2>2 DEF HelperInv
    <3>2. QED
      BY <1>2, <1>3, <3>1, QuietExtends
  <2>3. QED
    BY <2>1, <2>2 DEF HelperInv
<1>7. QED
  BY <1>5, <1>6

LEMMA PumpStep ==
  ASSUME IInv, NEW d \in DevId, PumpDevice(d)
  PROVE  IInv'
<1> DEFINE n == g_devs[d].node
           e == Head(evq[n])
<1>1. /\ helper = "run" /\ g_devs[d] # NULL /\ ~g_devs[d].dead /\ evq[n] # <<>>
      /\ evq' = [evq EXCEPT ![n] = Tail(@)]
      /\ UNCHANGED <<plugged, down, kslot, acts, plugs, posted, reader, main>>
      /\ UNCHANGED <<devs, desk, keyDown>>
  BY DEF PumpDevice, Running, main
<1>2. TypeOK /\ EventsInv /\ out \in Out /\ LinkInv(Stream(out), out.resync) /\ NoEndIn(Stream(out))
  BY <1>1, OutType, NoEnd DEF IInv
<1>3. \/ helper' = helper /\ g_devs' = g_devs
      \/ helper' = "bye" /\ g_devs' = [x \in DevId |-> NULL]
  <2>1. IF g_devs[d].announced /\ out'.drops > MAX_DROPS
        THEN EndLoop ELSE UNCHANGED <<helper, g_devs>>
    BY DEF PumpDevice
  <2>2. QED
    BY <2>1 DEF EndLoop
<1>4. /\ evq' \in [Node -> Seq(KeyEvent \cup TouchEvent)] /\ EventsInv' /\ e \in KeyEvent \cup TouchEvent
      /\ g_devs' = g_devs =>
           \A k \in Key : /\ e = KeyEv(k, TRUE) /\ Shown(d) => Holder(d, k)'
                          /\ e # KeyEv(k, FALSE) => \A x \in DevId : Holder(x, k) => Holder(x, k)'
  BY <1>1, <1>2, <1>3, PumpEvents
<1>5. g_devs \in [DevId -> Entry \cup {NULL}] /\ g_devs[d].gen \in Nat
      /\ g_devs' \in [DevId -> Entry \cup {NULL}]
  BY <1>1, <1>2, <1>3 DEF TypeOK, Entry
<1> HIDE DEF n, e
<1>6. \/ out' = [out EXCEPT !.resync = TRUE]
      \/ /\ Shown(d)
         /\ \E o \in RecoverOutput(out) :
              IF Ready(o) THEN out' \in SendRec(o, Event(d, g_devs[d].gen, e))
              ELSE out' = Dropped(o)
  BY <1>1 DEF PumpDevice, HeldBack, Shown, n, e
<1> DEFINE Fits ==
      /\ out' \in Out /\ NoEndIn(Stream(out'))
      /\ \/ LinkInv(Stream(out'), TRUE) /\ out'.resync = TRUE
         \/ /\ Shown(d) /\ out'.resync = FALSE
            /\ \E o \in Out : /\ LinkInv(Stream(o), FALSE)
                              /\ Extends(Stream(o), Stream(out'), Event(d, g_devs[d].gen, e))
<1>7. Fits
  <2>1. CASE out' = [out EXCEPT !.resync = TRUE]
    <3>1. /\ out' \in Out /\ out'.resync = TRUE /\ out'.wire = out.wire /\ out'.pending = out.pending
      BY <1>2, <2>1 DEF Out
    <3>2. Coming(out') = Coming(out)
      BY <3>1 DEF Coming, Rest
    <3>3. Stream(out') = Stream(out)
      BY <3>2 DEF Stream
    <3>4. QED
      BY <1>2, <3>1, <3>3, LinkLost
  <2>2. ASSUME NEW o \in RecoverOutput(out), Shown(d),
               IF Ready(o) THEN out' \in SendRec(o, Event(d, g_devs[d].gen, e))
               ELSE out' = Dropped(o)
        PROVE  Fits
    <3>1. o \in Out /\ LinkInv(Stream(o), o.resync) /\ NoEndIn(Stream(o))
      BY <1>1, <1>2, RecoverLink
    <3>2. CASE ~Ready(o)
      <4>1. out' \in Out /\ Coming(out') = Coming(o) /\ out'.resync = TRUE
        BY <2>2, <3>1, <3>2, DropFacts
      <4>2. Stream(out') = Stream(o)
        BY <4>1 DEF Stream
      <4>3. QED
        BY <3>1, <4>1, <4>2, LinkLost
    <3>3. CASE Ready(o)
      <4>1. out' \in SendRec(o, Event(d, g_devs[d].gen, e)) /\ o.resync = FALSE
        BY <2>2, <3>1, <3>3 DEF Ready, Out
      <4>2. Event(d, g_devs[d].gen, e) \in Record /\ Event(d, g_devs[d].gen, e) # Bye
        BY <1>4, <1>5, MadeRecords
      <4>3. /\ out' \in Out /\ NoEndIn(Stream(out'))
            /\ \/ Stream(out') = Stream(o) /\ out'.resync = TRUE
               \/ /\ Extends(Stream(o), Stream(out'), Event(d, g_devs[d].gen, e))
                  /\ out'.resync = o.resync
        BY <1>1, <1>2, <3>1, <4>1, <4>2, SendStream
      <4>4. QED
        BY <2>2, <3>1, <4>1, <4>3, LinkLost
    <3>4. QED
      BY <3>2, <3>3
  <2>3. QED
    BY <1>6, <2>1, <2>2
<1>8. PICK t, c : t = Stream(out') /\ c = out'.resync
  OBVIOUS
<1>9. LinkInv(t, c)'
  <2>1. CASE LinkInv(t, TRUE) /\ c = TRUE
    <3>1. CASE helper' = "bye"
      BY <1>1, <2>1, <3>1, LinkOver DEF LinkInv
    <3>2. CASE helper' = helper /\ g_devs' = g_devs
      <4>1. \A x \in DevId : Shown(x)' <=> Shown(x)
        BY <3>2 DEF Shown
      <4>2. QED
        BY <1>1, <2>1, <3>2, <4>1, LinkSame
    <3>3. QED
      BY <1>3, <3>1, <3>2
  <2>2. ASSUME NEW s, Shown(d), c = FALSE, LinkInv(s, FALSE),
               Extends(s, t, Event(d, g_devs[d].gen, e))
        PROVE  LinkInv(t, c)'
    <3>1. PICK r, f : r = Event(d, g_devs[d].gen, e) /\ f = e
      OBVIOUS
    <3>2. /\ RecordsInv(t) /\ HelperInv(t, FALSE)
          /\ \A k \in Key : HeldAfter(t, k) =>
               f = KeyEv(k, TRUE) \/ (HeldAfter(s, k) /\ f # KeyEv(k, FALSE))
      <4>1. d \in DevId /\ helper = "run" /\ Shown(d) /\ LinkInv(s, FALSE)
            /\ r = Event(d, g_devs[d].gen, f) /\ Extends(s, t, r)
        BY <1>1, <2>2, <3>1
      <4>2. RecordsInv(t)
        BY ONLY <4>1, EventRecords
      <4>3. HelperInv(t, FALSE)
        BY ONLY <4>1, EventRecords
      <4>4. ASSUME NEW k \in Key, HeldAfter(t, k)
            PROVE  f = KeyEv(k, TRUE) \/ (HeldAfter(s, k) /\ f # KeyEv(k, FALSE))
        <5>1. Presses(r, k) \/ (HeldAfter(s, k) /\ ~Lifts(r, k))
          BY ONLY <4>1, <4>4, HeldExtends
        <5>2. r.rtype = "EVENT" /\ r.ev = f
          BY <4>1 DEF Event
        <5>3. QED
          BY <5>1, <5>2 DEF Presses, Lifts
      <4>5. QED
        BY <4>2, <4>3, <4>4
    <3>3. CASE helper' = "bye"
      BY <1>1, <3>2, <3>3, LinkOver
    <3>4. CASE helper' = helper /\ g_devs' = g_devs
      <4>1. RecordsInv(t)'
        BY <1>1, <3>2, AfterSame
      <4>2. HelperInv(t, FALSE)'
        <5>1. \A x \in DevId : Shown(x)' <=> Shown(x)
          BY <3>4 DEF Shown
        <5>2. QED
          BY <1>1, <3>2, <3>4, <5>1, AfterSame DEF HelperInv
      <4>3. KeysInv(t, FALSE)'
        <5>1. ASSUME NEW k \in Key, HeldAfter(t, k) PROVE \E x \in DevId : Holder(x, k)'
          <6>1. CASE e = KeyEv(k, TRUE)
            BY <1>4, <2>2, <3>4, <6>1
          <6>2. CASE HeldAfter(s, k) /\ e # KeyEv(k, FALSE)
            <7>1. \E x \in DevId : Holder(x, k)
              BY <1>1, <2>2, <6>2 DEF LinkInv, KeysInv
            <7>2. QED
              BY <1>4, <3>4, <6>2, <7>1
          <6>3. QED
            BY <3>1, <3>2, <5>1, <6>1, <6>2
        <5>2. QED
          BY <1>1, <5>1, AfterSame DEF KeysInv
      <4>4. QED
        BY <2>2, <4>1, <4>2, <4>3 DEF LinkInv
    <3>5. QED
      BY <1>3, <3>3, <3>4
  <2>3. QED
    BY <1>7, <1>8, <2>1, <2>2
<1>10. QED
  BY <1>1, <1>3, <1>4, <1>5, <1>7, <1>8, <1>9, HelperStep

\* A device is forgotten; the last one ends the loop.
LEMMA DeviceGoneStep ==
  ASSUME IInv, NEW d \in DevId, DeviceGone(d)
  PROVE  IInv'
<1>1. /\ helper = "run" /\ g_devs[d] # NULL /\ g_devs[d].dead
      /\ out' = [out EXCEPT !.resync = @ \/ g_devs[d].announced]
      /\ g_devs' = [g_devs EXCEPT ![d] = NULL]
      /\ helper' \in {helper, "bye"}
      /\ UNCHANGED <<plugged, down, kslot, evq, acts, plugs, posted, reader, main>>
      /\ UNCHANGED <<devs, desk, keyDown>>
  BY DEF DeviceGone, Running, main, kernel
<1>2. TypeOK /\ EventsInv /\ out \in Out /\ LinkInv(Stream(out), out.resync) /\ NoEndIn(Stream(out))
  BY <1>1, OutType, NoEnd DEF IInv
<1>3. g_devs \in [DevId -> Entry \cup {NULL}] /\ g_devs[d].announced \in BOOLEAN
  BY <1>1, <1>2 DEF TypeOK, Entry
<1>4. g_devs'[d] = NULL /\ \A x \in DevId : x # d => g_devs'[x] = g_devs[x]
  BY <1>1, <1>3
<1>5. /\ out'.wire = out.wire /\ out'.pending = out.pending
      /\ out'.resync = (out.resync \/ g_devs[d].announced)
  BY <1>1, <1>2 DEF Out
<1>6. out' \in Out
  <2>1. out.resync \in BOOLEAN
    BY <1>2 DEF Out
  <2>2. (out.resync \/ g_devs[d].announced) \in BOOLEAN
    OBVIOUS
  <2>3. QED
    BY <1>1, <1>2, <2>2 DEF Out
<1>7. Stream(out') = Stream(out)
  <2>1. Coming(out') = Coming(out)
    BY <1>5 DEF Coming, Rest
  <2>2. QED
    BY <2>1 DEF Stream
<1>8. PICK t, c, b : t = Stream(out') /\ c = out'.resync /\ b = out.resync
  OBVIOUS
<1>9. LinkInv(t, b) /\ (b => c) /\ NoEndIn(t)
  BY <1>2, <1>5, <1>7, <1>8
<1>10. LinkInv(t, c)'
  <2>1. CASE helper' = "bye"
    BY <1>1, <1>9, <2>1, LinkOver DEF LinkInv
  <2>2. CASE helper' = helper
    <3>1. \A x \in DevId : Shown(x)' => Shown(x) /\ g_devs'[x].gen = g_devs[x].gen
      BY <1>4 DEF Shown
    <3>2. \A x \in DevId : Shown(x) => Shown(x)' \/ c
      BY <1>4, <1>5, <1>8 DEF Shown
    <3>3. \A x \in DevId, k \in Key : Holder(x, k) => Holder(x, k)' \/ c
      BY <1>1, <1>4, <1>5, <1>8 DEF Holder, Shown, WillRelease
    <3>4. QED
      BY <1>1, <1>9, <2>2, <3>1, <3>2, <3>3, LinkSame
  <2>3. QED
    BY <1>1, <2>1, <2>2
<1>11. \A m : Tracked(m) => Tracked(m)'
  <2> SUFFICES ASSUME NEW m, NEW x \in DevId, g_devs[x] # NULL, g_devs[x].node = m, ~g_devs[x].dead
               PROVE  g_devs'[x] # NULL /\ g_devs'[x].node = m /\ ~g_devs'[x].dead
    BY DEF Tracked
  <2>1. QED
    BY <1>1, <1>4
<1>12. EventsInv'
  BY <1>1, <1>2, <1>11 DEF EventsInv
<1>13. g_devs' \in [DevId -> Entry \cup {NULL}] /\ evq' \in [Node -> Seq(KeyEvent \cup TouchEvent)]
  BY <1>1, <1>2, <1>3 DEF TypeOK
<1>14. QED
  BY <1>1, <1>6, <1>8, <1>9, <1>10, <1>12, <1>13, HelperStep

LEMMA LeaveLoopStep ==
  ASSUME IInv, LeaveLoop
  PROVE  IInv'
<1>1. /\ helper = "run" /\ helper' = "bye" /\ g_devs' = [d \in DevId |-> NULL]
      /\ UNCHANGED <<plugged, down, kslot, evq, acts, plugs, out, posted, reader, main>>
      /\ UNCHANGED <<devs, desk, keyDown>>
  BY DEF LeaveLoop, Running, EndLoop, kernel, main
<1>2. TypeOK /\ out \in Out /\ LinkInv(Stream(out), out.resync) /\ NoEndIn(Stream(out))
  BY <1>1, OutType, NoEnd DEF IInv
<1>3. PICK t, c : t = Stream(out') /\ c = out'.resync
  OBVIOUS
<1>4. LinkInv(t, c) /\ NoEndIn(t) /\ out' \in Out
  <2>1. Stream(out') = Stream(out) /\ out'.resync = out.resync
    BY <1>1
  <2>2. QED
    BY <1>1, <1>2, <1>3, <2>1
<1>5. LinkInv(t, c)'
  BY <1>1, <1>4, LinkOver DEF LinkInv
<1>6. EventsInv'
  BY <1>1 DEF IInv, EventsInv
<1>7. g_devs' \in [DevId -> Entry \cup {NULL}] /\ evq' \in [Node -> Seq(KeyEvent \cup TouchEvent)]
  BY <1>1, <1>2 DEF TypeOK
<1>8. QED
  BY <1>1, <1>3, <1>4, <1>5, <1>6, <1>7, HelperStep

\* A stream that is cut short keeps what it has.
LEMMA RecordsCut ==
  ASSUME NEW s, NEW t, NEW r, Extends(t, s, r), RecordsInv(s)
  PROVE  RecordsInv(t)
<1>1. /\ Len(t) \in Nat /\ Len(s) = Len(t) + 1
      /\ \A i \in 1..Len(t) : i \in 1..Len(s) /\ t[i] = s[i]
  BY DEF Extends
<1> SUFFICES ASSUME NEW i \in 1..Len(t), NEW d \in DevId
             PROVE  /\ EventOf(t[i], d) => GenAfter(t, i - 1, d, t[i].gen)
                    /\ Opens(t[i], d) => QuietAfter(t, i - 1, d)
  BY DEF RecordsInv
<1>2. /\ EventOf(s[i], d) => GenAfter(s, i - 1, d, s[i].gen)
      /\ Opens(s[i], d) => QuietAfter(s, i - 1, d)
  BY <1>1 DEF RecordsInv
<1>3. \A j \in 1..(i - 1) : t[j] = s[j]
  BY <1>1
<1>4. t[i] = s[i]
  BY <1>1
<1>5. \A g : GenAfter(s, i - 1, d, g) => GenAfter(t, i - 1, d, g)
  BY <1>3, Zenon DEF GenAfter
<1>6. QuietAfter(s, i - 1, d) => QuietAfter(t, i - 1, d)
  BY <1>3, Zenon DEF QuietAfter
<1>7. QED
  BY <1>2, <1>4, <1>5, <1>6

\* The helper ends with the session's last record, or without one.
LEMMA GoneStep ==
  ASSUME IInv, helper = "bye", helper' = "gone",
         UNCHANGED <<kernel, g_devs, posted, reader, main>>, out' \in Out,
         NEW t, t = Stream(out)', RecordsInv(t),
         \A i \in 1..Len(t) : t[i].rtype = "END" => i = Len(t)
  PROVE  IInv'
<1>1. UNCHANGED <<plugged, down, kslot, evq, acts, plugs, devs, desk, keyDown, over>>
  BY DEF kernel, main
<1>2. TypeOK'
  BY <1>1 DEF IInv, TypeOK, Out
<1>3. LinkInv(Stream(out), out.resync)'
  <2>1. \A c : LinkInv(t, c)'
    BY <1>1, LinkOver
  <2>2. QED
    BY <2>1
<1>4. EventsInv'
  BY <1>1 DEF IInv, EventsInv
<1>5. reader /\ ~over
  BY NoEnd DEF IInv
<1>6. EndInv'
  <2>1. \A i \in 1..Len(Stream(out)') : (Stream(out)')[i].rtype = "END" => i = Len(Stream(out)')
    OBVIOUS
  <2>2. \A i \in 1..Len(posted') : posted'[i].rtype = "END" => ~reader'
    BY DEF IInv, EndInv
  <2>3. QED
    BY <1>1, <1>5, <2>1, <2>2 DEF EndInv
<1>7. QED
  BY <1>1, <1>2, <1>3, <1>4, <1>6, ContactsSame DEF IInv

LEMMA SendByeStep ==
  ASSUME IInv, SendBye
  PROVE  IInv'
<1>1. /\ helper = "bye" /\ UNCHANGED <<kernel, g_devs, posted, reader, main>>
      /\ UNCHANGED <<devs, desk, keyDown>>
  BY DEF SendBye, main
<1>2. TypeOK /\ out \in Out /\ RecordsInv(Stream(out)) /\ NoEndIn(Stream(out))
  BY <1>1, OutType, NoEnd DEF IInv, LinkInv
<1>3. out.wire \in Seq(Record) /\ out.pending \in Record \cup {NULL} /\ posted \in Line
  BY <1>2, StreamType DEF Out
<1>4. out.wire \o <<>> = out.wire
  BY <1>3
<1>5. CASE helper' = "gone" /\ out' = out
  <2>1. Stream(out)' = posted \o Parse(out.wire)
    BY <1>1, <1>4, <1>5 DEF Stream, Coming, Rest, Parse
  <2>2. CASE out.pending = NULL
    <3>1. Stream(out) = posted \o Parse(out.wire)
      BY <1>4, <2>2 DEF Stream, Coming, Rest
    <3>2. QED
      BY <1>1, <1>2, <1>5, <2>1, <3>1, GoneStep DEF NoEndIn
  <2>3. CASE out.pending # NULL
    <3>1. out.pending \in Record /\ out.wire \o <<out.pending>> = Append(out.wire, out.pending)
      BY <1>3, <2>3
    <3>2. Stream(out) = posted \o Parse(Append(out.wire, out.pending))
      BY <1>1, <2>3, <3>1 DEF Stream, Coming, Rest
    <3>3. PICK t : t = Stream(out)'
      OBVIOUS
    <3>4. Extends(t, Stream(out), Post(out.pending))
      BY <1>3, <2>1, <3>1, <3>2, <3>3, LineExtends
    <3>5. RecordsInv(t)
      BY <1>2, <3>4, RecordsCut
    <3>6. \A i \in 1..Len(t) : t[i].rtype # "END"
      BY <1>2, <3>4 DEF NoEndIn, Extends
    <3>7. QED
      BY <1>1, <1>2, <1>5, <3>3, <3>5, <3>6, GoneStep
  <2>4. QED
    BY <2>2, <2>3
<1>6. CASE /\ Room(out) /\ out.pending # NULL /\ helper' = helper
           /\ out' = [out EXCEPT !.wire = Append(@, out.pending), !.pending = NULL]
  <2>1. out' \in FlushPending(out)
    BY <1>6 DEF FlushPending
  <2>2. out' \in Out /\ Coming(out') = Coming(out)
    BY <1>1, <1>2, <2>1, FlushFacts
  <2>3. PICK t, c : t = Stream(out') /\ c = out'.resync
    OBVIOUS
  <2>4. RecordsInv(t) /\ NoEndIn(t)
    BY <1>2, <2>2, <2>3 DEF Stream
  <2>5. LinkInv(t, c)'
    BY <1>1, <1>6, <2>4, LinkOver
  <2>6. EventsInv'
    BY <1>1, <1>6 DEF IInv, EventsInv, kernel
  <2>7. g_devs' \in [DevId -> Entry \cup {NULL}] /\ evq' \in [Node -> Seq(KeyEvent \cup TouchEvent)]
    BY <1>1, <1>2 DEF TypeOK, kernel
  <2>8. QED
    BY <1>1, <1>6, <2>2, <2>3, <2>4, <2>5, <2>6, <2>7, HelperStep DEF kernel
<1>7. CASE /\ out.pending = NULL /\ helper' = "gone"
           /\ out' = [out EXCEPT !.wire = Append(@, Bye)]
  <2>1. out'.wire = Append(out.wire, Bye) /\ Append(out.wire, Bye) \in Seq(Record)
    BY <1>2, <1>3, <1>7, RecordFacts DEF Out
  <2>2. out' \in Out
    BY <1>2, <1>7, <2>1 DEF Out
  <2>3. Append(out.wire, Bye) \o <<>> = Append(out.wire, Bye)
    BY <2>1
  <2>4. Stream(out)' = posted \o Parse(Append(out.wire, Bye))
    BY <1>1, <1>7, <2>1, <2>3 DEF Stream, Coming, Rest, Parse, Post, Bye, EndMark
  <2>5. Stream(out) = posted \o Parse(out.wire)
    BY <1>4, <1>7 DEF Stream, Coming, Rest
  <2>6. PICK t : t = Stream(out)'
    OBVIOUS
  <2>7. Extends(Stream(out), t, EndMark)
    BY <1>3, <2>4, <2>5, <2>6, LineExtends, RecordFacts
  <2>8. \A d \in DevId : ~EventOf(EndMark, d) /\ ~Opens(EndMark, d)
    BY RecordFacts DEF EventOf, Opens
  <2>9. RecordsInv(t)
    BY <1>2, <2>7, <2>8, RecordsExtend
  <2>10. \A i \in 1..Len(t) : t[i].rtype = "END" => i = Len(t)
    <3>1. \A i \in 1..Len(t) : i \in 1..Len(Stream(out)) \/ i = Len(t)
      BY <2>7 DEF Extends
    <3>2. QED
      BY <1>2, <2>7, <3>1 DEF NoEndIn, Extends
  <2>11. QED
    BY <1>1, <1>7, <2>2, <2>6, <2>9, <2>10, GoneStep
<1>8. QED
  BY <1>1, <1>5, <1>6, <1>7 DEF SendBye

-----------------------------------------------------------------------------
(* The worker moves records from the socket to the main thread.            *)

LEMMA SameSequence ==
  ASSUME NEW T, NEW s \in Seq(T), NEW t \in Seq(T), Len(s) = Len(t),
         \A i \in 1..Len(s) : s[i] = t[i]
  PROVE  s = t
OBVIOUS

LEMMA SplitFacts ==
  ASSUME NEW w \in Seq(Record), NEW n \in 1..Len(w)
  PROVE  /\ SubSeq(w, 1, n) \in Seq(Record) /\ Len(SubSeq(w, 1, n)) = n
         /\ SubSeq(w, n + 1, Len(w)) \in Seq(Record) /\ Len(SubSeq(w, n + 1, Len(w))) = Len(w) - n
         /\ \A i \in 1..n : SubSeq(w, 1, n)[i] = w[i]
         /\ \A i \in 1..(Len(w) - n) : SubSeq(w, n + 1, Len(w))[i] = w[n + i]
         /\ Len(w) \in Nat /\ n \in Nat /\ n <= Len(w)
<1>1. Len(w) \in Nat /\ n \in Nat /\ n <= Len(w) /\ 1 <= n
  OBVIOUS
<1>2. \A i \in 1..Len(w) : w[i] \in Record
  OBVIOUS
<1>3. /\ SubSeq(w, 1, n) = [i \in 1..n |-> w[i]]
      /\ SubSeq(w, n + 1, Len(w)) = [i \in 1..(Len(w) - n) |-> w[n + i]]
  <2>1. SubSeq(w, 1, n) = [i \in 1..(1 + n - 1) |-> w[i + 1 - 1]]
    OBVIOUS
  <2>2. QED
    BY <1>1, <2>1
<1>4. QED
  BY <1>1, <1>2, <1>3

LEMMA JoinFacts ==
  ASSUME NEW T, NEW p \in Seq(T), NEW a \in Seq(T), NEW s, s = p \o a
  PROVE  /\ s \in Seq(T) /\ Len(s) = Len(p) + Len(a) /\ Len(p) \in Nat /\ Len(a) \in Nat
         /\ \A i \in 1..Len(s) : s[i] = IF i <= Len(p) THEN p[i] ELSE a[i - Len(p)]
OBVIOUS

LEMMA ReadSplits ==
  ASSUME NEW p \in Line, NEW w \in Seq(Record), NEW n \in 1..Len(w), NEW z \in Seq(Record)
  PROVE  /\ p \o Parse(SubSeq(w, 1, n)) \in Line
         /\ Len(p \o Parse(SubSeq(w, 1, n))) = Len(p) + n
         /\ (p \o Parse(SubSeq(w, 1, n))) \o Parse(SubSeq(w, n + 1, Len(w)) \o z) = p \o Parse(w \o z)
         /\ Len(p \o Parse(w \o z)) = Len(p) + Len(w) + Len(z)
         /\ \A i \in 1..Len(p) : (p \o Parse(SubSeq(w, 1, n)))[i] = p[i]
         /\ \A i \in 1..n : (p \o Parse(SubSeq(w, 1, n)))[Len(p) + i] = Post(w[i])
<1>0. PICK a, b, pa, bz, wz, pbz, pwz, ppa, l, r :
        /\ a = SubSeq(w, 1, n) /\ b = SubSeq(w, n + 1, Len(w)) /\ bz = b \o z /\ wz = w \o z
        /\ pa = Parse(a) /\ pbz = Parse(bz) /\ pwz = Parse(wz)
        /\ ppa = p \o pa /\ l = ppa \o pbz /\ r = p \o pwz
  OBVIOUS
<1>1. /\ a \in Seq(Record) /\ Len(a) = n /\ b \in Seq(Record) /\ Len(b) = Len(w) - n
      /\ \A i \in 1..n : a[i] = w[i]
      /\ \A i \in 1..(Len(w) - n) : b[i] = w[n + i]
      /\ Len(w) \in Nat /\ n \in Nat /\ n <= Len(w) /\ Len(z) \in Nat /\ Len(p) \in Nat
  <2>1. Len(z) \in Nat /\ Len(p) \in Nat
    BY DEF Line
  <2>2. QED
    BY <1>0, <2>1, SplitFacts
<1>2. /\ bz \in Seq(Record) /\ Len(bz) = Len(w) - n + Len(z)
      /\ \A i \in 1..Len(bz) : bz[i] = IF i <= Len(b) THEN b[i] ELSE z[i - Len(b)]
      /\ wz \in Seq(Record) /\ Len(wz) = Len(w) + Len(z)
      /\ \A i \in 1..Len(wz) : wz[i] = IF i <= Len(w) THEN w[i] ELSE z[i - Len(w)]
  <2>1. bz = b \o z /\ wz = w \o z
    BY <1>0
  <2>2. /\ bz \in Seq(Record) /\ Len(bz) = Len(b) + Len(z)
        /\ \A i \in 1..Len(bz) : bz[i] = IF i <= Len(b) THEN b[i] ELSE z[i - Len(b)]
    <3>1. b \in Seq(Record) /\ z \in Seq(Record) /\ bz = b \o z
      BY <1>1, <2>1
    <3>2. QED
      BY ONLY <3>1, JoinFacts
  <2>3. /\ wz \in Seq(Record) /\ Len(wz) = Len(w) + Len(z)
        /\ \A i \in 1..Len(wz) : wz[i] = IF i <= Len(w) THEN w[i] ELSE z[i - Len(w)]
    BY <2>1, JoinFacts
  <2>4. QED
    BY <1>1, <2>2, <2>3
<1>3. /\ pa \in Line /\ Len(pa) = n /\ \A i \in 1..n : pa[i] = Post(w[i])
      /\ pbz \in Line /\ Len(pbz) = Len(bz) /\ \A i \in 1..Len(bz) : pbz[i] = Post(bz[i])
      /\ pwz \in Line /\ Len(pwz) = Len(wz) /\ \A i \in 1..Len(wz) : pwz[i] = Post(wz[i])
  <2>1. /\ a \in Seq(Record) /\ bz \in Seq(Record) /\ wz \in Seq(Record)
        /\ pa = Parse(a) /\ pbz = Parse(bz) /\ pwz = Parse(wz)
    BY <1>0, <1>1, <1>2
  <2>2. /\ pa \in Line /\ Len(pa) = Len(a) /\ \A i \in 1..Len(a) : pa[i] = Post(a[i])
        /\ pbz \in Line /\ Len(pbz) = Len(bz) /\ \A i \in 1..Len(bz) : pbz[i] = Post(bz[i])
        /\ pwz \in Line /\ Len(pwz) = Len(wz) /\ \A i \in 1..Len(wz) : pwz[i] = Post(wz[i])
    BY ONLY <2>1, ParseFacts
  <2>3. QED
    BY <1>1, <2>2
<1>4. /\ ppa \in Line /\ Len(ppa) = Len(p) + n
      /\ \A i \in 1..Len(ppa) : ppa[i] = IF i <= Len(p) THEN p[i] ELSE pa[i - Len(p)]
  <2>1. ppa = p \o pa
    BY <1>0
  <2>2. /\ ppa \in Line /\ Len(ppa) = Len(p) + Len(pa)
        /\ \A i \in 1..Len(ppa) : ppa[i] = IF i <= Len(p) THEN p[i] ELSE pa[i - Len(p)]
    <3>1. p \in Seq(Posting) /\ pa \in Seq(Posting) /\ ppa = p \o pa
      BY <1>3, <2>1 DEF Line
    <3>2. QED
      BY ONLY <3>1, JoinFacts DEF Line
  <2>3. QED
    BY <1>3, <2>2
<1>5. /\ l \in Line /\ Len(l) = Len(p) + n + Len(bz)
      /\ \A i \in 1..Len(l) : l[i] = IF i <= Len(ppa) THEN ppa[i] ELSE pbz[i - Len(ppa)]
      /\ r \in Line /\ Len(r) = Len(p) + Len(wz)
      /\ \A i \in 1..Len(r) : r[i] = IF i <= Len(p) THEN p[i] ELSE pwz[i - Len(p)]
  <2>1. l = ppa \o pbz /\ r = p \o pwz
    BY <1>0
  <2>2. /\ l \in Line /\ Len(l) = Len(ppa) + Len(pbz)
        /\ \A i \in 1..Len(l) : l[i] = IF i <= Len(ppa) THEN ppa[i] ELSE pbz[i - Len(ppa)]
    <3>1. ppa \in Seq(Posting) /\ pbz \in Seq(Posting) /\ l = ppa \o pbz
      BY <1>3, <1>4, <2>1 DEF Line
    <3>2. QED
      BY ONLY <3>1, JoinFacts DEF Line
  <2>3. /\ r \in Line /\ Len(r) = Len(p) + Len(pwz)
        /\ \A i \in 1..Len(r) : r[i] = IF i <= Len(p) THEN p[i] ELSE pwz[i - Len(p)]
    <3>1. p \in Seq(Posting) /\ pwz \in Seq(Posting) /\ r = p \o pwz
      BY <1>3, <2>1 DEF Line
    <3>2. QED
      BY ONLY <3>1, JoinFacts DEF Line
  <2>4. QED
    BY <1>3, <1>4, <2>2, <2>3
<1>6. Len(l) = Len(r)
  BY <1>1, <1>2, <1>5
<1>7. ASSUME NEW i \in 1..Len(l) PROVE l[i] = r[i]
  <2>1. CASE i <= Len(p)
    <3>1. i \in 1..Len(ppa) /\ i <= Len(ppa) /\ i \in 1..Len(r)
      BY <1>1, <1>4, <1>5, <1>6, <2>1
    <3>2. QED
      BY <1>4, <1>5, <2>1, <3>1
  <2>2. CASE i > Len(p) /\ i <= Len(p) + n
    <3>1. i - Len(p) \in 1..n /\ i - Len(p) \in 1..Len(wz) /\ i - Len(p) <= Len(w)
      BY <1>1, <1>2, <2>2
    <3>2. l[i] = pa[i - Len(p)] /\ r[i] = pwz[i - Len(p)]
      BY <1>1, <1>2, <1>4, <1>5, <1>6, <2>2
    <3>3. QED
      BY <1>2, <1>3, <3>1, <3>2
  <2>3. CASE i > Len(p) + n
    <3>1. PICK j \in 1..Len(bz) : i = Len(p) + n + j
      <4>1. i - (Len(p) + n) \in 1..Len(bz) /\ i = Len(p) + n + (i - (Len(p) + n))
        BY <1>1, <1>2, <1>5, <2>3
      <4>2. QED
        BY <4>1
    <3>2. n + j \in 1..Len(wz) /\ i - Len(p) = n + j /\ i - (Len(p) + n) = j /\ ~(i <= Len(p))
      BY <1>1, <1>2, <3>1
    <3>3. l[i] = pbz[j] /\ r[i] = pwz[n + j]
      BY <1>1, <1>4, <1>5, <1>6, <2>3, <3>2
    <3>4. bz[j] = wz[n + j]
      <4>1. CASE j <= Len(w) - n
        <5>1. j \in 1..(Len(w) - n) /\ n + j <= Len(w)
          BY <1>1, <1>2, <4>1
        <5>2. QED
          BY <1>1, <1>2, <3>2, <4>1, <5>1
      <4>2. CASE j > Len(w) - n
        <5>1. ~(n + j <= Len(w)) /\ (n + j) - Len(w) = j - (Len(w) - n) /\ ~(j <= Len(b))
          BY <1>1, <1>2, <4>2
        <5>2. bz[j] = z[j - (Len(w) - n)] /\ wz[n + j] = z[(n + j) - Len(w)]
          BY <1>1, <1>2, <3>2, <5>1
        <5>3. QED
          BY <5>1, <5>2
      <4>3. QED
        BY <1>1, <1>2, <4>1, <4>2
    <3>5. QED
      BY <1>3, <3>2, <3>3, <3>4
  <2>4. QED
    BY <1>1, <1>2, <1>5, <2>1, <2>2, <2>3
<1>8. l = r
  BY <1>5, <1>6, <1>7, SameSequence DEF Line
<1>9. \A i \in 1..Len(p) : ppa[i] = p[i]
  BY <1>1, <1>4
<1>10. \A i \in 1..n : ppa[Len(p) + i] = Post(w[i])
  <2> SUFFICES ASSUME NEW i \in 1..n PROVE ppa[Len(p) + i] = Post(w[i])
    OBVIOUS
  <2>1. Len(p) + i \in 1..Len(ppa) /\ ~(Len(p) + i <= Len(p)) /\ (Len(p) + i) - Len(p) = i
    BY <1>1, <1>4
  <2>2. QED
    BY <1>3, <1>4, <2>1
<1>11. QED
  <2>1. l = (p \o Parse(SubSeq(w, 1, n))) \o Parse(SubSeq(w, n + 1, Len(w)) \o z) /\ r = p \o Parse(w \o z)
    BY <1>0
  <2>2. ppa = p \o Parse(SubSeq(w, 1, n))
    BY <1>0
  <2>3. Len(r) = Len(p) + Len(w) + Len(z)
    BY <1>1, <1>2, <1>5
  <2>4. QED
    BY <1>4, <1>8, <1>9, <1>10, <2>1, <2>2, <2>3

LEMMA ReadRecordsStep ==
  ASSUME IInv, ReadRecords
  PROVE  IInv'
<1>1. PICK n \in 1..Len(out.wire) :
        /\ posted' = posted \o Parse(SubSeq(out.wire, 1, n))
        /\ reader' = (out.wire[n] # Bye)
        /\ out' = [out EXCEPT !.wire = SubSeq(@, n + 1, Len(@))]
  BY DEF ReadRecords
<1>2. /\ reader /\ UNCHANGED <<plugged, down, kslot, evq, acts, plugs, helper, g_devs>>
      /\ UNCHANGED <<devs, desk, keyDown, over>>
  BY DEF ReadRecords, kernel, main
<1>3. TypeOK /\ EventsInv /\ EndInv /\ ContactsOwned /\ out \in Out
      /\ LinkInv(Stream(out), out.resync)
  BY OutType DEF IInv
<1>4. /\ out.wire \in Seq(Record) /\ Rest(out) \in Seq(Record) /\ posted \in Line
      /\ Len(Rest(out)) \in Nat /\ Len(posted) \in Nat /\ Len(out.wire) \in Nat
  <2>1. out.wire \in Seq(Record) /\ out.pending \in Record \cup {NULL} /\ posted \in Line
    BY <1>3, StreamType DEF Out
  <2>2. Rest(out) \in Seq(Record)
    BY <2>1 DEF Rest
  <2>3. QED
    BY <2>1, <2>2 DEF Line
<1>5. /\ out'.wire = SubSeq(out.wire, n + 1, Len(out.wire)) /\ out'.pending = out.pending
      /\ out'.resync = out.resync /\ out'.wire \in Seq(Record) /\ Len(out'.wire) = Len(out.wire) - n
  <2>1. out'.wire = SubSeq(out.wire, n + 1, Len(out.wire)) /\ out'.pending = out.pending
        /\ out'.resync = out.resync
    BY <1>1, <1>3 DEF Out
  <2>2. QED
    BY <1>4, <2>1, SplitFacts
<1>6. out' \in Out
  BY <1>1, <1>3, <1>5 DEF Out
<1>7. /\ posted' \in Line /\ Len(posted') = Len(posted) + n
      /\ posted' \o Parse(out'.wire \o Rest(out)) = Stream(out)
      /\ Len(Stream(out)) = Len(posted) + Len(out.wire) + Len(Rest(out))
      /\ \A i \in 1..Len(posted) : posted'[i] = posted[i]
      /\ \A i \in 1..n : posted'[Len(posted) + i] = Post(out.wire[i])
  <2>1. PICK p, w, z : p = posted /\ w = out.wire /\ z = Rest(out)
    OBVIOUS
  <2>2. /\ p \o Parse(SubSeq(w, 1, n)) \in Line
        /\ Len(p \o Parse(SubSeq(w, 1, n))) = Len(p) + n
        /\ (p \o Parse(SubSeq(w, 1, n))) \o Parse(SubSeq(w, n + 1, Len(w)) \o z) = p \o Parse(w \o z)
        /\ Len(p \o Parse(w \o z)) = Len(p) + Len(w) + Len(z)
        /\ \A i \in 1..Len(p) : (p \o Parse(SubSeq(w, 1, n)))[i] = p[i]
        /\ \A i \in 1..n : (p \o Parse(SubSeq(w, 1, n)))[Len(p) + i] = Post(w[i])
    <3>1. p \in Line /\ w \in Seq(Record) /\ z \in Seq(Record) /\ n \in 1..Len(w)
      BY <1>4, <2>1
    <3>2. QED
      BY ONLY <3>1, ReadSplits
  <2>3. posted' = p \o Parse(SubSeq(w, 1, n))
    BY <1>1, <2>1
  <2>4. Stream(out) = p \o Parse(w \o z)
    BY <2>1 DEF Stream, Coming
  <2>5. QED
    BY <1>5, <2>1, <2>2, <2>3, <2>4
<1>8. Stream(out)' = Stream(out)
  <2>1. Rest(out)' = Rest(out)
    BY <1>2, <1>5 DEF Rest
  <2>2. QED
    BY <1>7, <2>1 DEF Stream, Coming
<1>9. TypeOK'
  <2>1. reader' \in BOOLEAN /\ posted' \in Seq(Posting)
    BY <1>1, <1>7 DEF Line
  <2>2. QED
    BY <1>2, <1>3, <1>6, <2>1 DEF TypeOK, Out
<1>10. LinkInv(Stream(out), out.resync)'
  <2>1. PICK t, c : t = Stream(out) /\ c = out.resync
    OBVIOUS
  <2>2. \A d \in DevId : /\ (Shown(d)' <=> Shown(d)) /\ g_devs'[d].gen = g_devs[d].gen
                         /\ \A k \in Key : Holder(d, k) => Holder(d, k)'
    BY <1>2 DEF Shown, Holder, WillRelease
  <2>3. LinkInv(t, c)'
    BY <1>2, <1>3, <2>1, <2>2, LinkSame
  <2>4. QED
    BY <1>5, <1>8, <2>1, <2>3
<1>11. EventsInv'
  BY <1>2, <1>3 DEF EventsInv, Tracked
<1>12. \A i \in 1..Len(posted') :
         \/ i \in 1..Len(posted) /\ posted'[i] = posted[i]
         \/ i - Len(posted) \in 1..n /\ posted'[i] = Post(out.wire[i - Len(posted)])
  <2> SUFFICES ASSUME NEW i \in 1..Len(posted'), i \notin 1..Len(posted)
               PROVE  i - Len(posted) \in 1..n /\ posted'[i] = Post(out.wire[i - Len(posted)])
    BY <1>7
  <2>1. i - Len(posted) \in 1..n /\ Len(posted) + (i - Len(posted)) = i
    BY <1>4, <1>7
  <2>2. QED
    BY <1>7, <2>1
<1>13. EndInv'
  <2>1. \A i \in 1..Len(Stream(out)') :
          (Stream(out)')[i].rtype = "END" => i = Len(Stream(out)') /\ helper' = "gone"
    BY <1>2, <1>3, <1>8 DEF EndInv
  <2>2. \A i \in 1..Len(posted') : Stream(out)[i] = posted'[i] /\ i \in 1..Len(Stream(out))
    <3>1. out'.wire \o Rest(out) \in Seq(Record)
      BY <1>4, <1>5
    <3>2. Parse(out'.wire \o Rest(out)) \in Line
      BY <3>1, ParseFacts
    <3>3. PICK p, a, s : p = posted' /\ a = Parse(out'.wire \o Rest(out)) /\ s = Stream(out)
      OBVIOUS
    <3>4. p \in Line /\ a \in Line /\ s = p \o a
      BY <1>7, <3>2, <3>3
    <3>5. /\ Len(s) = Len(p) + Len(a) /\ Len(p) \in Nat /\ Len(a) \in Nat
          /\ \A i \in 1..Len(s) : s[i] = IF i <= Len(p) THEN p[i] ELSE a[i - Len(p)]
      BY <3>4, JoinFacts DEF Line
    <3>6. QED
      BY <3>3, <3>5
  <2>3. ASSUME NEW i \in 1..Len(posted'), posted'[i].rtype = "END"
        PROVE  /\ out.wire[n] = Bye /\ n = Len(out.wire) /\ helper = "gone"
    <3>1. i = Len(Stream(out)) /\ helper = "gone"
      BY <1>3, <2>2, <2>3 DEF EndInv
    <3>2. i \notin 1..Len(posted)
      BY <1>2, <1>3, <1>12, <2>3 DEF EndInv
    <3>3. i - Len(posted) \in 1..n /\ posted'[i] = Post(out.wire[i - Len(posted)])
      BY <1>12, <3>2
    <3>4. i - Len(posted) = n /\ n = Len(out.wire)
      BY <1>4, <1>7, <3>1, <3>3
    <3>5. out.wire[n] \in Record
      BY <1>4
    <3>6. out.wire[n] = Bye
      BY <2>3, <3>3, <3>4, <3>5, RecordFacts
    <3>7. QED
      BY <3>1, <3>4, <3>6
  <2>4. out.wire[n] = Bye => n = Len(out.wire) /\ helper = "gone"
    <3>1. ASSUME out.wire[n] = Bye
          PROVE  \E i \in 1..Len(posted') : posted'[i].rtype = "END"
      <4>1. Len(posted) + n \in 1..Len(posted') /\ posted'[Len(posted) + n] = Post(Bye)
        BY <1>4, <1>7, <3>1
      <4>2. QED
        BY <4>1, RecordFacts
    <3>2. QED
      BY <2>3, <3>1
  <2>5. ~reader' => helper' = "gone" /\ out'.wire = <<>>
    <3>1. ASSUME ~reader' PROVE helper' = "gone" /\ out'.wire = <<>>
      <4>1. out.wire[n] = Bye
        BY <1>1, <3>1
      <4>2. helper = "gone" /\ Len(out'.wire) = 0
        BY <1>4, <1>5, <2>4, <4>1
      <4>3. QED
        BY <1>2, <1>5, <4>2
    <3>2. QED
      BY <3>1
  <2>6. ~over'
    BY <1>2, <1>3 DEF EndInv
  <2>7. \A i \in 1..Len(posted') : posted'[i].rtype = "END" => ~reader'
    BY <1>1, <2>3
  <2>8. QED
    BY <2>1, <2>5, <2>6, <2>7 DEF EndInv
<1>14. QED
  BY <1>2, <1>3, <1>9, <1>10, <1>11, <1>13, ContactsSame DEF IInv

LEMMA ReadEofStep ==
  ASSUME IInv, ReadEof
  PROVE  IInv'
<1>1. /\ reader /\ helper = "gone" /\ out.wire = <<>>
      /\ posted' = Append(posted, EndMark) /\ reader' = FALSE
      /\ UNCHANGED <<plugged, down, kslot, evq, acts, plugs, helper, g_devs, out>>
      /\ UNCHANGED <<devs, desk, keyDown, over>>
  BY DEF ReadEof, kernel, main
<1>2. TypeOK /\ EventsInv /\ EndInv /\ ContactsOwned /\ out \in Out /\ RecordsInv(Stream(out))
      /\ posted \in Seq(Posting)
  BY OutType DEF IInv, LinkInv, TypeOK
<1>3. Coming(out) = <<>>
  BY <1>1 DEF Coming, Rest
<1>4. Parse(<<>>) = <<>>
  <2>1. <<>> \in Seq(Record)
    OBVIOUS
  <2>2. Len(Parse(<<>>)) = 0 /\ Parse(<<>>) \in Seq(Posting)
    BY <2>1, ParseFacts DEF Line
  <2>3. QED
    BY <2>2
<1>5. Stream(out) = posted
  BY <1>2, <1>3, <1>4 DEF Stream
<1>6. EndMark \in Posting /\ EndMark.rtype = "END"
  BY RecordFacts
<1>7. posted' \in Seq(Posting)
  BY <1>1, <1>2, <1>6
<1>8. Stream(out)' = posted'
  <2>1. Coming(out)' = <<>>
    BY <1>1, <1>3 DEF Coming, Rest
  <2>2. Stream(out)' = posted' \o <<>>
    BY <1>4, <2>1 DEF Stream, Parse, Post, Bye, EndMark
  <2>3. QED
    BY <1>7, <2>2
<1>9. PICK s, t : s = Stream(out) /\ t = Stream(out)'
  OBVIOUS
<1>10. Extends(s, t, EndMark)
  BY <1>1, <1>2, <1>5, <1>6, <1>8, <1>9 DEF Extends
<1>11. RecordsInv(t)
  <2>1. \A d \in DevId : ~EventOf(EndMark, d) /\ ~Opens(EndMark, d)
    BY RecordFacts DEF EventOf, Opens
  <2>2. QED
    BY <1>2, <1>9, <1>10, <2>1, RecordsExtend
<1>12. LinkInv(Stream(out), out.resync)'
  <2>1. \A c : LinkInv(t, c)'
    BY <1>1, <1>11, LinkOver
  <2>2. QED
    BY <1>9, <2>1
<1>13. TypeOK'
  BY <1>1, <1>2, <1>7 DEF TypeOK
<1>14. EventsInv'
  BY <1>1, <1>2 DEF EventsInv
<1>15. EndInv'
  <2>1. \A i \in 1..Len(s) : s[i].rtype # "END"
    BY <1>1, <1>2, <1>5, <1>9 DEF EndInv
  <2>2. \A i \in 1..Len(t) : i \in 1..Len(s) \/ i = Len(t)
    BY <1>10 DEF Extends
  <2>3. \A i \in 1..Len(t) : t[i].rtype = "END" => i = Len(t)
    BY <1>10, <2>1, <2>2 DEF Extends
  <2>4. ~over'
    BY <1>1, <1>2 DEF EndInv
  <2>5. QED
    BY <1>1, <1>9, <2>3, <2>4 DEF EndInv
<1>16. QED
  BY <1>1, <1>2, <1>12, <1>13, <1>14, <1>15, ContactsSame DEF IInv

-----------------------------------------------------------------------------
(* The main thread takes the oldest post.                                  *)

LEMMA PostTaken ==
  ASSUME TypeOK, posted # <<>>, posted' = Tail(posted), UNCHANGED <<helper, out>>
  PROVE  /\ Drops(Stream(out), Stream(out)') /\ Stream(out)[1] = Head(posted)
         /\ Head(posted) \in Posting /\ posted' \in Seq(Posting)
         /\ Len(posted') \in Nat /\ Len(posted) = Len(posted') + 1
         /\ \A i \in 1..Len(posted') : i + 1 \in 1..Len(posted) /\ posted'[i] = posted[i + 1]
         /\ Len(posted) <= Len(Stream(out)) /\ 1 \in 1..Len(Stream(out))
<1>1. out \in Out
  BY OutType
<1>2. PICK x, p, q, s, t :
        x = Parse(Coming(out)) /\ p = posted /\ q = Tail(posted) /\ s = Stream(out) /\ t = Stream(out)'
  OBVIOUS
<1>3. x \in Seq(Posting) /\ p \in Seq(Posting) /\ p # <<>> /\ q = Tail(p)
  BY <1>1, <1>2, StreamType, ParseFacts DEF Line
<1>4. s = p \o x
  BY <1>2 DEF Stream
<1>5. t = q \o x
  <2>1. Parse(Coming(out))' = Parse(Coming(out))
    BY DEF Parse, Post, Bye, EndMark, Coming, Rest
  <2>2. QED
    BY <1>2, <2>1 DEF Stream
<1>6. /\ q \in Seq(Posting) /\ Len(p) \in Nat /\ Len(q) = Len(p) - 1 /\ 1 \in 1..Len(p)
      /\ Head(p) = p[1] /\ p[1] \in Posting
      /\ \A i \in 1..Len(q) : i + 1 \in 1..Len(p) /\ q[i] = p[i + 1]
  BY ONLY <1>3, TailFacts
<1>7. /\ Len(s) = Len(p) + Len(x) /\ Len(x) \in Nat
      /\ \A i \in 1..Len(s) : s[i] = IF i <= Len(p) THEN p[i] ELSE x[i - Len(p)]
  BY ONLY <1>3, <1>4, JoinFacts
<1>8. /\ Len(t) = Len(q) + Len(x)
      /\ \A i \in 1..Len(t) : t[i] = IF i <= Len(q) THEN q[i] ELSE x[i - Len(q)]
  BY ONLY <1>3, <1>5, <1>6, JoinFacts
<1>9. Drops(s, t)
  <2>1. Len(t) \in Nat /\ Len(s) = Len(t) + 1
    BY <1>6, <1>7, <1>8
  <2>2. ASSUME NEW i \in 1..Len(t) PROVE t[i] = s[i + 1]
    <3>1. i + 1 \in 1..Len(s)
      BY <2>1
    <3>2. CASE i <= Len(q)
      <4>1. i \in 1..Len(q) /\ i + 1 <= Len(p)
        BY <1>6, <2>1, <3>2
      <4>2. QED
        BY <1>6, <1>7, <1>8, <3>1, <3>2, <4>1
    <3>3. CASE ~(i <= Len(q))
      <4>1. ~(i + 1 <= Len(p)) /\ (i + 1) - Len(p) = i - Len(q)
        BY <1>6, <2>1, <3>3
      <4>2. QED
        BY <1>7, <1>8, <3>1, <3>3, <4>1
    <3>4. QED
      BY <3>2, <3>3
  <2>3. QED
    BY <2>1, <2>2 DEF Drops
<1>10. s[1] = Head(p) /\ 1 \in 1..Len(s) /\ Len(p) <= Len(s)
  BY <1>6, <1>7
<1>11. QED
  BY <1>2, <1>6, <1>9, <1>10

\* The app's state after record r.
Follows(r) ==
  /\ devs' \in [DevId -> Dev \cup {NULL}] /\ keyDown' \subseteq Key
  /\ desk' \subseteq DevId \X Contact /\ ContactsOwned'
  /\ \A d \in DevId : DevFollows(r, d) /\ DeskFollows(r, d)
  /\ \A k \in Key : KeyFollows(r, k)

LEMMA KeyEventFollows ==
  ASSUME TypeOK, ContactsOwned, NEW d \in DevId, NEW e \in KeyEvent, HandleKeyEvent(e),
         NEW r, EventOf(r, d), r.ev = e
  PROVE  Follows(r)
<1>1. /\ keyDown' = IF e.value THEN keyDown \cup {e.code} ELSE keyDown \ {e.code}
      /\ UNCHANGED <<devs, desk>>
  BY DEF HandleKeyEvent
<1>2. e.code \in Key /\ e.value \in BOOLEAN /\ e = [type |-> "key", code |-> e.code, value |-> e.value]
  BY DEF KeyEvent
<1>3. ~Opens(r, d) /\ r.rtype = "EVENT" /\ \A x : ~Opens(r, x)
  BY DEF EventOf, Opens
<1>4. \A x \in DevId : DevFollows(r, x) /\ DeskFollows(r, x)
  BY <1>1, <1>3 DEF DevFollows, DeskFollows
<1>5. ASSUME NEW k \in Key PROVE KeyFollows(r, k)
  <2>1. CASE e.value
    <3>1. e = KeyEv(e.code, TRUE)
      BY <1>2, <2>1 DEF KeyEv
    <3>2. e # KeyEv(k, FALSE)
      BY <2>1 DEF KeyEv
    <3>3. QED
      BY <1>1, <1>3, <2>1, <3>1, <3>2 DEF KeyFollows, Presses, Lifts
  <2>2. CASE ~e.value
    <3>1. e = KeyEv(k, FALSE) => k = e.code
      BY <1>2 DEF KeyEv
    <3>2. QED
      BY <1>1, <1>3, <2>2, <3>1 DEF KeyFollows, Lifts
  <2>3. QED
    BY <2>1, <2>2
<1>6. ContactsOwned'
  BY <1>1, ContactsSame
<1>7. keyDown' \subseteq Key /\ devs' \in [DevId -> Dev \cup {NULL}] /\ desk' \subseteq DevId \X Contact
  BY <1>1, <1>2 DEF TypeOK
<1>8. QED
  BY <1>4, <1>5, <1>6, <1>7 DEF Follows

\* An event of contacts changes the Dev it is of, and its contacts.
LEMMA TouchEventFollows ==
  ASSUME TypeOK, ContactsOwned, NEW d \in DevId, NEW e \in TouchEvent, devs[d] # NULL,
         IF e.type = "syn" THEN EndFrame(d) ELSE HandleAbsEvent(d, e),
         NEW r, EventOf(r, d), r.ev = e
  PROVE  Follows(r)
<1>1. /\ devs \in [DevId -> Dev \cup {NULL}] /\ devs[d] \in Dev
      /\ desk \subseteq DevId \X Contact /\ keyDown \subseteq Key
  BY DEF TypeOK
<1>2. /\ devs[d].gen \in Nat /\ devs[d].cur \in Contact /\ devs[d].track \subseteq Contact
      /\ devs[d].active \subseteq Contact /\ devs[d].dirty \in BOOLEAN
  BY <1>1 DEF Dev
<1>3. /\ r.rtype = "EVENT" /\ \A x : ~Opens(r, x)
      /\ \A k : ~Presses(r, k) /\ ~Lifts(r, k)
  <2>1. \A k, v : e # KeyEv(k, v)
    BY DEF TouchEvent, KeyEv
  <2>2. QED
    BY <2>1 DEF EventOf, Opens, Presses, Lifts
<1>4. CASE desk' = desk /\ keyDown' = keyDown /\ \E v \in Dev :
             v.gen = devs[d].gen /\ v.active = devs[d].active /\ devs' = [devs EXCEPT ![d] = v]
  <2>1. PICK v \in Dev : v.gen = devs[d].gen /\ v.active = devs[d].active /\ devs' = [devs EXCEPT ![d] = v]
    BY <1>4
  <2>2. devs'[d] = v /\ v # NULL /\ \A x \in DevId : x # d => devs'[x] = devs[x]
    BY <1>1, <2>1, NullFacts
  <2>3. devs' \in [DevId -> Dev \cup {NULL}]
    BY <1>1, <2>1
  <2>4. ContactsOwned'
    BY <1>1, <1>4, <2>1, <2>2 DEF ContactsOwned
  <2>5. \A x \in DevId : DevFollows(r, x) /\ DeskFollows(r, x)
    BY <1>3, <1>4, <2>1, <2>2 DEF DevFollows, DeskFollows
  <2>6. \A k \in Key : KeyFollows(r, k)
    BY <1>3, <1>4 DEF KeyFollows
  <2>7. QED
    BY <1>1, <1>4, <2>3, <2>4, <2>5, <2>6 DEF Follows
<1>5. CASE HandleAbsEvent(d, e)
  <2>1. desk' = desk /\ keyDown' = keyDown
    BY <1>5 DEF HandleAbsEvent
  <2>2. CASE e.type = "slot"
    <3>1. devs' = [devs EXCEPT ![d] = [devs[d] EXCEPT !.cur = e.code]]
      BY <1>1, <1>5, <2>2 DEF HandleAbsEvent
    <3>2. e.code \in Contact
      BY <2>2 DEF TouchEvent
    <3>3. PICK v : v = [devs[d] EXCEPT !.cur = e.code]
      OBVIOUS
    <3>4. v \in Dev /\ v.gen = devs[d].gen /\ v.active = devs[d].active
      BY <1>1, <3>2, <3>3 DEF Dev
    <3>5. QED
      BY <1>4, <2>1, <3>1, <3>3, <3>4
  <2>3. CASE e.type # "slot"
    <3>1. PICK w : w = IF e.value THEN devs[d].track \cup {devs[d].cur} ELSE devs[d].track \ {devs[d].cur}
      OBVIOUS
    <3>2. devs' = [devs EXCEPT ![d] = [devs[d] EXCEPT !.track = w, !.dirty = TRUE]]
      BY <1>1, <1>5, <2>3, <3>1 DEF HandleAbsEvent
    <3>3. w \subseteq Contact
      BY <1>2, <3>1
    <3>4. PICK v : v = [devs[d] EXCEPT !.track = w, !.dirty = TRUE]
      OBVIOUS
    <3>5. v \in Dev /\ v.gen = devs[d].gen /\ v.active = devs[d].active
      BY <1>1, <3>3, <3>4 DEF Dev
    <3>6. QED
      BY <1>4, <2>1, <3>2, <3>4, <3>5
  <2>4. QED
    BY <2>2, <2>3
<1>6. CASE EndFrame(d) /\ ~devs[d].dirty
  <2>1. desk' = desk /\ keyDown' = keyDown /\ devs' = devs
    BY <1>6 DEF EndFrame
  <2>2. devs' = [devs EXCEPT ![d] = devs[d]]
    BY <1>1, <2>1
  <2>3. QED
    BY <1>1, <1>4, <2>1, <2>2
<1>7. CASE EndFrame(d) /\ devs[d].dirty
  <2>1. /\ desk' = (desk \ OfDev(d, devs[d].active)) \cup OfDev(d, devs[d].track)
        /\ devs' = [devs EXCEPT ![d] = [devs[d] EXCEPT !.active = devs[d].track, !.dirty = FALSE]]
        /\ keyDown' = keyDown
    BY <1>1, <1>7 DEF EndFrame
  <2>2. PICK v : v = [devs[d] EXCEPT !.active = devs[d].track, !.dirty = FALSE]
    OBVIOUS
  <2>3. v \in Dev /\ v.gen = devs[d].gen /\ v.active = devs[d].track
    BY <1>1, <1>2, <2>2 DEF Dev
  <2>4. /\ devs'[d] = v /\ v # NULL /\ \A x \in DevId : x # d => devs'[x] = devs[x]
        /\ devs' \in [DevId -> Dev \cup {NULL}]
    BY <1>1, <2>1, <2>2, <2>3, NullFacts
  <2>5. desk' \subseteq DevId \X Contact
    BY <1>1, <1>2, <2>1 DEF OfDev
  <2>6. ASSUME NEW p \in desk' PROVE devs'[p[1]] # NULL /\ p[2] \in devs'[p[1]].active
    <3>1. CASE p \in OfDev(d, devs[d].track)
      BY <2>3, <2>4, <3>1 DEF OfDev
    <3>2. CASE p \in desk /\ p \notin OfDev(d, devs[d].active)
      <4>1. p[1] \in DevId /\ p = <<p[1], p[2]>> /\ devs[p[1]] # NULL /\ p[2] \in devs[p[1]].active
        BY <1>1, <3>2 DEF ContactsOwned
      <4>2. p[1] # d
        BY <3>2, <4>1 DEF OfDev
      <4>3. QED
        BY <2>4, <4>1, <4>2
    <3>3. QED
      BY <2>1, <2>6, <3>1, <3>2
  <2>7. \A x \in DevId : DevFollows(r, x)
    BY <1>3, <2>3, <2>4 DEF DevFollows
  <2>8. ASSUME NEW x \in DevId PROVE DeskFollows(r, x)
    <3>1. CASE x = d
      BY <1>3, <3>1 DEF DeskFollows
    <3>2. CASE x # d
      <4>1. \A p \in OfDev(d, devs[d].track) : p[1] # x
        BY <3>2 DEF OfDev
      <4>2. QED
        BY <1>3, <2>1, <4>1 DEF DeskFollows
    <3>3. QED
      BY <3>1, <3>2
  <2>9. \A k \in Key : KeyFollows(r, k)
    BY <1>3, <2>1 DEF KeyFollows
  <2>10. QED
    BY <1>1, <2>1, <2>4, <2>5, <2>6, <2>7, <2>8, <2>9 DEF Follows, ContactsOwned
<1>8. QED
  BY <1>5, <1>6, <1>7

\* Everything the app holds is let go of.
LEMMA ReleaseAll ==
  ASSUME TypeOK, ContactsOwned, ReleaseEverything
  PROVE  desk' = {} /\ keyDown' = {}
<1>1. /\ desk' = desk \ UNION {OfDev(d, devs[d].active) : d \in {e \in DevId : devs[e] # NULL}}
      /\ keyDown' = {}
  BY DEF ReleaseEverything
<1>2. ASSUME NEW p \in desk
      PROVE  p \in UNION {OfDev(d, devs[d].active) : d \in {e \in DevId : devs[e] # NULL}}
  <2>1. p = <<p[1], p[2]>> /\ p[1] \in DevId /\ devs[p[1]] # NULL /\ p[2] \in devs[p[1]].active
    BY DEF TypeOK, ContactsOwned
  <2>2. p \in OfDev(p[1], devs[p[1]].active)
    BY <2>1 DEF OfDev
  <2>3. QED
    BY <2>1, <2>2
<1>3. QED
  BY <1>1, <1>2

LEMMA ResyncFollows ==
  ASSUME TypeOK, ContactsOwned, NEW r, r.rtype = "RESYNC", ReleaseEverything,
         devs' = [d \in DevId |-> IF devs[d] = NULL THEN NULL
                                  ELSE [devs[d] EXCEPT !.active = {}, !.dirty = FALSE]]
  PROVE  Follows(r)
<1>1. desk' = {} /\ keyDown' = {}
  BY ReleaseAll
<1>2. ASSUME NEW d \in DevId
      PROVE  /\ devs'[d] \in Dev \cup {NULL}
             /\ devs[d] # NULL => devs'[d] # NULL /\ devs'[d].gen = devs[d].gen
  <2>1. CASE devs[d] = NULL
    BY <2>1
  <2>2. CASE devs[d] # NULL
    <3>1. devs[d] \in Dev /\ devs'[d] = [devs[d] EXCEPT !.active = {}, !.dirty = FALSE]
      BY <2>2 DEF TypeOK
    <3>2. [devs[d] EXCEPT !.active = {}, !.dirty = FALSE] \in Dev
      BY <3>1 DEF Dev
    <3>3. devs'[d].gen = devs[d].gen
      BY <3>1 DEF Dev
    <3>4. QED
      BY <3>1, <3>2, <3>3, NullFacts
  <2>3. QED
    BY <2>1, <2>2
<1>3. \A d \in DevId : DevFollows(r, d) /\ DeskFollows(r, d)
  BY <1>1, <1>2 DEF DevFollows, DeskFollows, Opens
<1>4. devs' \in [DevId -> Dev \cup {NULL}]
  BY <1>2
<1>5. QED
  BY <1>1, <1>3, <1>4 DEF Follows, ContactsOwned, KeyFollows

LEMMA DeviceFollows ==
  ASSUME TypeOK, ContactsOwned, NEW d \in DevId, NEW r, Opens(r, d), r.gen \in Nat,
         \A p \in desk : p[1] # d,
         devs' = [devs EXCEPT ![d] = NewDev(r.gen)], UNCHANGED <<keyDown, desk>>
  PROVE  Follows(r)
<1>1. NewDev(r.gen) \in Dev /\ NewDev(r.gen).gen = r.gen
  BY NullFacts DEF NewDev, Dev
<1>2. /\ devs' \in [DevId -> Dev \cup {NULL}] /\ devs'[d] = NewDev(r.gen) /\ devs'[d] # NULL
      /\ \A x \in DevId : x # d => devs'[x] = devs[x]
  BY <1>1, NullFacts DEF TypeOK
<1>3. /\ r.rtype = "DEVICE" /\ \A x : Opens(r, x) <=> x = d
      /\ \A k : ~Lifts(r, k)
  BY DEF Opens, Lifts
<1>4. \A x \in DevId : DevFollows(r, x)
  BY <1>1, <1>2, <1>3 DEF DevFollows
<1>5. \A x \in DevId : DeskFollows(r, x)
  BY <1>3 DEF DeskFollows
<1>6. ContactsOwned'
  BY <1>2 DEF ContactsOwned, TypeOK
<1>7. \A k \in Key : KeyFollows(r, k)
  BY <1>3 DEF KeyFollows
<1>8. QED
  BY <1>2, <1>4, <1>5, <1>6, <1>7 DEF Follows, TypeOK

LEMMA MainStepStep ==
  ASSUME IInv, MainStep
  PROVE  IInv'
<1>1. /\ posted # <<>> /\ posted' = Tail(posted)
      /\ UNCHANGED <<plugged, down, kslot, evq, acts, plugs, helper, g_devs, out, reader>>
  BY DEF MainStep, kernel
<1>2. TypeOK /\ EventsInv /\ EndInv /\ ContactsOwned /\ LinkInv(Stream(out), out.resync)
      /\ RecordsInv(Stream(out))
  BY DEF IInv, LinkInv
<1>3. PICK s, t, c, r : s = Stream(out) /\ t = Stream(out)' /\ c = out.resync /\ r = Head(posted)
  OBVIOUS
<1>4. /\ Drops(s, t) /\ s[1] = r /\ 1 \in 1..Len(s)
      /\ r \in Posting /\ posted' \in Seq(Posting)
      /\ Len(posted') \in Nat /\ Len(posted) = Len(posted') + 1
      /\ \A i \in 1..Len(posted') : i + 1 \in 1..Len(posted) /\ posted'[i] = posted[i + 1]
      /\ Len(posted) <= Len(s)
  BY <1>1, <1>2, <1>3, PostTaken
<1>5. /\ CASE r.rtype = "EVENT"  -> HandleEvent(r.dev, r.ev)
          [] r.rtype = "RESYNC" ->
               /\ ReleaseEverything
               /\ devs' = [d \in DevId |-> IF devs[d] = NULL THEN NULL
                             ELSE [devs[d] EXCEPT !.active = {}, !.dirty = FALSE]]
          [] r.rtype = "DEVICE" ->
               /\ devs' = [devs EXCEPT ![r.dev] = NewDev(r.gen)]
               /\ UNCHANGED <<keyDown, desk>>
          [] r.rtype = "END"    ->
               ReleaseEverything /\ devs' = [d \in DevId |-> NULL]
      /\ over' = (over \/ r.rtype = "END")
  BY <1>3 DEF MainStep
<1>6. r.rtype \in {"EVENT", "RESYNC", "DEVICE", "END"}
  BY <1>4 DEF Posting, DeviceRecord
<1>7. EventsInv'
  BY <1>1, <1>2 DEF EventsInv, Tracked
<1>8. ~over
  BY <1>1, <1>2 DEF EndInv
<1>9. \A i \in 1..Len(t) : t[i].rtype = "END" => i = Len(t) /\ helper = "gone"
  <2> SUFFICES ASSUME NEW i \in 1..Len(t), t[i].rtype = "END" PROVE i = Len(t) /\ helper = "gone"
    OBVIOUS
  <2>1. i + 1 \in 1..Len(s) /\ s[i + 1].rtype = "END" /\ Len(t) \in Nat /\ Len(s) = Len(t) + 1
    BY <1>4 DEF Drops
  <2>2. i + 1 = Len(s) /\ helper = "gone"
    BY <1>2, <1>3, <2>1 DEF EndInv
  <2>3. QED
    BY <2>1, <2>2
<1>10. \A i \in 1..Len(posted') : posted'[i].rtype = "END" => ~reader'
  BY <1>1, <1>2, <1>4 DEF EndInv
<1>11. ~reader' => helper' = "gone" /\ out'.wire = <<>>
  BY <1>1, <1>2 DEF EndInv
<1>12. ASSUME r.rtype # "END", Follows(r)
       PROVE  IInv'
  <2>1. over' = FALSE
    BY <1>5, <1>8, <1>12
  <2>2. TypeOK'
    <3>1. /\ devs' \in [DevId -> Dev \cup {NULL}] /\ keyDown' \subseteq Key
          /\ desk' \subseteq DevId \X Contact
      BY <1>12 DEF Follows
    <3>2. QED
      BY <1>1, <1>2, <1>4, <2>1, <3>1 DEF TypeOK
  <2>3. LinkInv(t, c)'
    <3>1. UNCHANGED <<helper, g_devs, evq, down>> /\ LinkInv(s, c)
      BY <1>1, <1>2, <1>3
    <3>2. /\ \A d \in DevId : DevFollows(s[1], d) /\ DeskFollows(s[1], d)
          /\ \A k \in Key : KeyFollows(s[1], k)
      BY <1>4, <1>12 DEF Follows
    <3>3. QED
      BY <1>4, <3>1, <3>2, LinkDrops
  <2>4. LinkInv(Stream(out), out.resync)'
    BY <1>1, <1>3, <2>3
  <2>5. EndInv'
    BY <1>1, <1>3, <1>9, <1>10, <1>11, <2>1 DEF EndInv
  <2>6. QED
    BY <1>7, <1>12, <2>2, <2>4, <2>5 DEF IInv, Follows
<1>13. CASE r.rtype = "EVENT"
  <2>1. r.dev \in DevId /\ r.ev \in KeyEvent \cup TouchEvent /\ EventOf(r, r.dev)
    BY <1>4, <1>13 DEF Posting, DeviceRecord, EventOf
  <2>2. devs[r.dev] # NULL
    <3>1. GenAfter(s, 1 - 1, r.dev, r.gen)
      BY <1>2, <1>3, <1>4, <2>1 DEF RecordsInv
    <3>2. \A i \in 1..(1 - 1) : FALSE
      OBVIOUS
    <3>3. QED
      BY <3>1, <3>2 DEF GenAfter
  <2>3. HandleEvent(r.dev, r.ev)
    BY <1>5, <1>13
  <2>4. CASE r.ev \in KeyEvent
    <3>1. r.ev.type = "key"
      BY <2>4 DEF KeyEvent
    <3>2. HandleKeyEvent(r.ev)
      BY <2>2, <2>3, <3>1 DEF HandleEvent
    <3>3. QED
      BY <1>2, <1>12, <1>13, <2>1, <2>4, <3>2, KeyEventFollows
  <2>5. CASE r.ev \in TouchEvent
    <3>1. r.ev.type # "key"
      BY <2>5 DEF TouchEvent
    <3>2. IF r.ev.type = "syn" THEN EndFrame(r.dev) ELSE HandleAbsEvent(r.dev, r.ev)
      BY <2>2, <2>3, <3>1 DEF HandleEvent
    <3>3. Follows(r)
      BY <1>2, <2>1, <2>2, <2>5, <3>2, TouchEventFollows
    <3>4. QED
      BY <1>12, <1>13, <3>3
  <2>6. QED
    BY <2>1, <2>4, <2>5
<1>14. CASE r.rtype = "RESYNC"
  <2>1. Follows(r)
    BY <1>2, <1>5, <1>14, ResyncFollows
  <2>2. QED
    BY <1>12, <1>14, <2>1
<1>15. CASE r.rtype = "DEVICE"
  <2>1. r.dev \in DevId /\ r.gen \in Nat /\ Opens(r, r.dev)
    BY <1>4, <1>15 DEF Posting, DeviceRecord, Opens
  <2>2. \A p \in desk : p[1] # r.dev
    <3>1. QuietAfter(s, 1 - 1, r.dev)
      BY <1>2, <1>3, <1>4, <2>1 DEF RecordsInv
    <3>2. \A i \in 1..(1 - 1) : FALSE
      OBVIOUS
    <3>3. QED
      BY <3>1, <3>2 DEF QuietAfter
  <2>3. devs' = [devs EXCEPT ![r.dev] = NewDev(r.gen)] /\ UNCHANGED <<keyDown, desk>>
    BY <1>5, <1>15
  <2>4. Follows(r)
    BY <1>2, <2>1, <2>2, <2>3, DeviceFollows
  <2>5. QED
    BY <1>12, <1>15, <2>4
<1>16. CASE r.rtype = "END"
  <2>1. ReleaseEverything /\ devs' = [d \in DevId |-> NULL] /\ over' = TRUE
    BY <1>5, <1>16
  <2>2. desk' = {} /\ keyDown' = {}
    BY <1>2, <2>1, ReleaseAll
  <2>3. Len(s) = 1 /\ helper = "gone"
    BY <1>2, <1>3, <1>4, <1>16 DEF EndInv
  <2>4. Len(posted') = 0 /\ posted' = <<>>
    BY <1>4, <2>3
  <2>5. ~reader
    <3>1. 1 \in 1..Len(posted) /\ posted[1] = r
      BY <1>1, <1>2, <1>3, <1>4 DEF TypeOK
    <3>2. QED
      BY <1>2, <1>16, <3>1 DEF EndInv
  <2>6. TypeOK'
    <3>1. devs' \in [DevId -> Dev \cup {NULL}]
      BY <2>1
    <3>2. QED
      BY <1>1, <1>2, <1>4, <2>1, <2>2, <3>1 DEF TypeOK
  <2>7. LinkInv(Stream(out), out.resync)'
    <3>1. Len(t) = 0
      <4>1. Len(t) \in Nat /\ Len(s) = Len(t) + 1
        BY <1>4 DEF Drops
      <4>2. \A n \in Nat : n + 1 = 1 => n = 0
        OBVIOUS
      <4>3. QED
        BY <2>3, <4>1, <4>2
    <3>2. \A b : LinkInv(t, b)'
      BY <1>1, <2>3, <3>1 DEF LinkInv, RecordsInv, HelperInv, KeysInv
    <3>3. QED
      BY <1>3, <3>2
  <2>8. EndInv'
    BY <1>1, <1>3, <1>9, <1>10, <1>11, <2>2, <2>4, <2>5 DEF EndInv
  <2>9. ContactsOwned'
    BY <2>2 DEF ContactsOwned
  <2>10. QED
    BY <1>7, <2>6, <2>7, <2>8, <2>9 DEF IInv
<1>17. QED
  BY <1>6, <1>13, <1>14, <1>15, <1>16

-----------------------------------------------------------------------------
(* The beginning.                                                          *)

LEMMA InitInv ==
  ASSUME Init
  PROVE  IInv
<1>1. /\ plugged = Node /\ down = [n \in Node |-> {}] /\ kslot = [n \in TouchNode |-> Slot0]
      /\ evq = [n \in Node |-> <<>>] /\ acts = 0 /\ plugs = 0 /\ helper = "run"
      /\ out = [wire |-> <<>>, pending |-> NULL, resync |-> FALSE, drops |-> 0]
      /\ posted = <<>> /\ reader = TRUE /\ keyDown = {} /\ desk = {} /\ over = FALSE
  BY DEF Init
<1>2. PICK order \in SetToSeqs(Node) :
        /\ g_devs = [d \in DevId |-> IF d \in DOMAIN order
                       THEN [node |-> order[d], gen |-> 0, announced |-> TRUE, dead |-> FALSE]
                       ELSE NULL]
        /\ devs = [d \in DevId |-> IF d \in DOMAIN order THEN NewDev(0) ELSE NULL]
  BY DEF Init
<1>3. \A d \in DOMAIN order : order[d] \in Node
  BY <1>2 DEF SetToSeqs
<1>4. NewDev(0) \in Dev /\ NewDev(0).gen = 0
  BY NullFacts DEF NewDev, Dev
<1>5. ASSUME NEW d \in DevId
      PROVE  /\ devs[d] \in Dev \cup {NULL} /\ g_devs[d] \in Entry \cup {NULL}
             /\ Shown(d) => devs[d] # NULL /\ devs[d].gen = g_devs[d].gen
  <2>1. CASE d \in DOMAIN order
    <3>1. /\ devs[d] = NewDev(0)
          /\ g_devs[d] = [node |-> order[d], gen |-> 0, announced |-> TRUE, dead |-> FALSE]
      BY <1>2, <2>1
    <3>2. g_devs[d] \in Entry /\ g_devs[d].gen = 0
      BY <1>3, <2>1, <3>1 DEF Entry
    <3>3. QED
      BY <1>4, <3>1, <3>2, NullFacts
  <2>2. CASE d \notin DOMAIN order
    BY <1>2, <2>2 DEF Shown
  <2>3. QED
    BY <2>1, <2>2
<1>6. TypeOK
  <2>1. devs \in [DevId -> Dev \cup {NULL}] /\ g_devs \in [DevId -> Entry \cup {NULL}]
    BY <1>2, <1>5
  <2>2. evq \in [Node -> Seq(KeyEvent \cup TouchEvent)] /\ kslot \in [TouchNode -> Contact]
        /\ down \in [Node -> SUBSET (Key \cup Contact)] /\ posted \in Seq(Posting)
    BY <1>1, NullFacts
  <2>3. out \in [wire : Seq(Record), pending : Record \cup {NULL}, resync : BOOLEAN, drops : Nat]
    BY <1>1
  <2>4. QED
    BY <1>1, <2>1, <2>2, <2>3 DEF TypeOK
<1>7. Stream(out) = <<>> /\ Len(Stream(out)) = 0
  <2>1. out.wire = <<>> /\ Rest(out) = <<>>
    BY <1>1 DEF Rest
  <2>2. Parse(<<>>) = <<>>
    <3>1. <<>> \in Seq(Record)
      OBVIOUS
    <3>2. Len(Parse(<<>>)) = 0 /\ Parse(<<>>) \in Seq(Posting)
      BY <3>1, ParseFacts DEF Line
    <3>3. QED
      BY <3>2
  <2>3. Coming(out) = <<>>
    BY <2>1 DEF Coming
  <2>4. Stream(out) = <<>>
    BY <1>1, <2>2, <2>3 DEF Stream
  <2>5. QED
    BY <2>4
<1>8. LinkInv(Stream(out), out.resync)
  <2>1. PICK s, c : s = Stream(out) /\ c = out.resync
    OBVIOUS
  <2>2. Len(s) = 0 /\ \A i \in 1..0 : FALSE
    BY <1>7, <2>1
  <2>3. RecordsInv(s)
    BY <2>2 DEF RecordsInv
  <2>4. HelperInv(s, c)
    BY <1>1, <1>5, <2>2 DEF HelperInv, GenAfter, QuietAfter
  <2>5. KeysInv(s, c)
    BY <1>1, <2>2 DEF KeysInv, HeldAfter
  <2>6. QED
    BY <2>1, <2>3, <2>4, <2>5 DEF LinkInv
<1>9. EventsInv
  <2>1. \A n \in Node : evq[n] = <<>>
    BY <1>1
  <2>2. <<>> \in Seq(KeyEvent) /\ <<>> \in Seq(TouchEvent) /\ Len(<<>>) = 0 /\ \A i \in 1..0 : FALSE
    OBVIOUS
  <2>3. \A n \in KeyNode : evq[n] = <<>>
    BY <2>1, NullFacts
  <2>4. \A n \in TouchNode : evq[n] = <<>>
    BY <2>1, NullFacts
  <2>5. ASSUME NEW n \in KeyNode, NEW i \in 1..Len(evq[n]) PROVE FALSE
    <3>1. Len(evq[n]) = 0
      BY <2>2, <2>3
    <3>2. QED
      BY <2>2, <2>5, <3>1
  <2>6. (\A n \in KeyNode : evq[n] \in Seq(KeyEvent)) /\ \A n \in TouchNode : evq[n] \in Seq(TouchEvent)
    BY <2>2, <2>3, <2>4
  <2>7. QED
    BY <2>1, <2>5, <2>6 DEF EventsInv
<1>10. EndInv
  BY <1>1, <1>7 DEF EndInv
<1>11. QED
  BY <1>1, <1>6, <1>8, <1>9, <1>10 DEF IInv, ContactsOwned

LEMMA StutterStep ==
  ASSUME IInv, UNCHANGED vars
  PROVE  IInv'
<1>1. /\ UNCHANGED <<plugged, down, kslot, evq, acts, plugs, helper, g_devs, out, posted, reader>>
      /\ UNCHANGED main
  BY DEF vars, kernel
<1>2. TypeOK'
  BY <1>1 DEF IInv, TypeOK, main
<1>3. EventsInv'
  BY <1>1 DEF IInv, EventsInv, Tracked
<1>4. \A d \in DevId : /\ (Shown(d)' <=> Shown(d)) /\ (Shown(d) => g_devs'[d].gen = g_devs[d].gen)
                       /\ \A k \in Key : Holder(d, k) => Holder(d, k)'
  BY <1>1 DEF Shown, Holder, WillRelease
<1>5. QED
  BY <1>1, <1>2, <1>3, <1>4, UserStep

LEMMA NextInv ==
  ASSUME IInv, [Next]_vars
  PROVE  IInv'
<1>1. CASE User
  BY <1>1, PressOrReleaseStep, TouchOrLiftStep, UnplugStep, PlugStep DEF User
<1>2. CASE Helper
  <2>1. CASE Recover
    BY <2>1, RecoverStep
  <2>2. ASSUME NEW n \in Node, ScanNewDevice(n) PROVE IInv'
    BY <2>2, ScanStep
  <2>3. ASSUME NEW d \in DevId, AnnouncePendingDevice(d) PROVE IInv'
    BY <2>3, AnnounceStep
  <2>4. ASSUME NEW d \in DevId, PumpDevice(d) PROVE IInv'
    BY <2>4, PumpStep
  <2>5. ASSUME NEW d \in DevId, DeviceGone(d) PROVE IInv'
    BY <2>5, DeviceGoneStep
  <2>6. CASE SendBye
    BY <2>6, SendByeStep
  <2>7. QED
    BY <1>2, <2>1, <2>2, <2>3, <2>4, <2>5, <2>6 DEF Helper
<1>3. CASE LeaveLoop
  BY <1>3, LeaveLoopStep
<1>4. CASE Worker
  BY <1>4, ReadRecordsStep, ReadEofStep DEF Worker
<1>5. CASE MainStep
  BY <1>5, MainStepStep
<1>6. CASE UNCHANGED vars
  BY <1>6, StutterStep
<1>7. QED
  BY <1>1, <1>2, <1>3, <1>4, <1>5, <1>6 DEF Next

LEMMA Inductive == Spec => []IInv
BY InitInv, NextInv, PTL DEF Spec

-----------------------------------------------------------------------------
(* What follows.                                                           *)

\* Everything between the kernel's events and what is held on the desktop has
\* its type: no step of the helper's transport or of the worker makes up a
\* record, and the main thread never sees a BYE.
THEOREM StreamTypeCorrect == Spec => []TypeOK
<1>1. IInv => TypeOK
  BY DEF IInv
<1>2. QED
  BY <1>1, Inductive, PTL

\* When everything has reached the main thread, a key down on the desktop is
\* held by somebody on a keyboard that is read; after the session nothing is down
\* (send_rec, recover_output, pump_device; handleRecord, releaseEverything).
THEOREM KeysComeUp == Spec => []NoStuckKey
<1>1. ASSUME IInv PROVE NoStuckKey
  <2>1. TypeOK /\ EndInv /\ KeysInv(Stream(out), out.resync)
    BY <1>1 DEF IInv, LinkInv
  <2>2. ASSUME Settled, helper = "run", NEW k \in keyDown PROVE k \in HeldKeys
    <3>1. /\ out.pending = NULL /\ ~out.resync /\ out.wire = <<>> /\ posted = <<>>
          /\ \A n \in Node : evq[n] = <<>>
          /\ \A d \in DevId : g_devs[d] # NULL => ~g_devs[d].dead
      BY <2>2 DEF Settled, Ready
    <3>2. Len(Stream(out)) = 0
      <4>1. Coming(out) = <<>>
        BY <3>1 DEF Coming, Rest
      <4>2. <<>> \in Seq(Record)
        OBVIOUS
      <4>3. Len(Parse(<<>>)) = 0 /\ Parse(<<>>) \in Seq(Posting)
        BY <4>2, ParseFacts DEF Line
      <4>4. Stream(out) = <<>> \o Parse(<<>>)
        BY <3>1, <4>1 DEF Stream
      <4>5. QED
        BY <4>3, <4>4
    <3>3. PICK s : s = Stream(out)
      OBVIOUS
    <3>4. Len(s) = 0 /\ \A i \in 1..0 : FALSE
      BY <3>2, <3>3
    <3>5. HeldAfter(s, k)
      BY <2>2, <3>4 DEF HeldAfter
    <3>6. PICK d \in DevId : Holder(d, k)
      BY <2>1, <2>2, <3>1, <3>3, <3>5 DEF KeysInv, TypeOK
    <3>7. /\ g_devs[d] # NULL /\ ~g_devs[d].dead /\ g_devs[d].node \in KeyNode
          /\ k \in down[g_devs[d].node] \/ WillRelease(g_devs[d].node, k)
      BY <3>1, <3>6 DEF Holder, Shown
    <3>8. ~WillRelease(g_devs[d].node, k)
      <4>1. evq[g_devs[d].node] = <<>>
        BY <3>1, <3>7, NullFacts
      <4>2. Len(evq[g_devs[d].node]) = 0
        BY <4>1
      <4>3. QED
        BY <3>4, <4>2 DEF WillRelease
    <3>9. QED
      BY <3>7, <3>8 DEF HeldKeys, Tracked
  <2>3. over => keyDown = {} /\ desk = {}
    BY <2>1 DEF EndInv
  <2>4. QED
    BY <2>2, <2>3 DEF NoStuckKey
<1>2. QED
  BY <1>1, Inductive, PTL

\* A contact on the desktop is always one that the app's Dev for it can lift,
\* and the next event is handled by the Dev of the device it came from, although
\* ids are used again (announce_pending_devices' marker before DEVICE; onDevice).
THEOREM DevicesMatch == Spec => []DevsMatch
<1>1. ASSUME IInv PROVE DevsMatch
  <2>1. TypeOK /\ ContactsOwned /\ RecordsInv(Stream(out))
    BY <1>1 DEF IInv, LinkInv
  <2>2. ASSUME posted # <<>>, Head(posted).rtype = "EVENT"
        PROVE  devs[Head(posted).dev].gen = Head(posted).gen
    <3>1. PICK s, p, x, r : s = Stream(out) /\ p = posted /\ x = Parse(Coming(out)) /\ r = Head(posted)
      OBVIOUS
    <3>2. p \in Seq(Posting) /\ x \in Seq(Posting) /\ s = p \o x /\ p # <<>>
      BY <2>1, <2>2, <3>1, OutType, StreamType, ParseFacts DEF Stream, Line
    <3>3. Head(p) = p[1] /\ p[1] \in Posting /\ 1 \in 1..Len(p) /\ Len(p) \in Nat
      BY ONLY <3>2, TailFacts
    <3>4. /\ Len(s) = Len(p) + Len(x) /\ Len(x) \in Nat
          /\ \A i \in 1..Len(s) : s[i] = IF i <= Len(p) THEN p[i] ELSE x[i - Len(p)]
      BY ONLY <3>2, JoinFacts
    <3>5. s[1] = r /\ 1 \in 1..Len(s)
      BY <3>1, <3>3, <3>4
    <3>6. r \in Posting /\ r.rtype = "EVENT"
      BY <2>2, <3>1, <3>3
    <3>7. r.dev \in DevId /\ EventOf(r, r.dev)
      BY <3>6 DEF Posting, DeviceRecord, EventOf
    <3>8. GenAfter(s, 1 - 1, r.dev, r.gen)
      BY <2>1, <3>1, <3>5, <3>7 DEF RecordsInv
    <3>9. \A i \in 1..(1 - 1) : FALSE
      OBVIOUS
    <3>10. devs[r.dev].gen = r.gen
      BY <3>8, <3>9 DEF GenAfter
    <3>11. QED
      BY <3>1, <3>10
  <2>3. QED
    BY <2>1, <2>2 DEF DevsMatch, EventsMatchDevice
<1>2. QED
  BY <1>1, Inductive, PTL

==============================================================================
