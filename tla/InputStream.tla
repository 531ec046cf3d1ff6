---------------------------- MODULE InputStream -----------------------------
(***************************************************************************)
(* The input stream of an immersive session: the root helper (input_grab.c) *)
(* reads grabbed devices and sends records that it drops rather than block, *)
(* the app's worker (InputGrab.java) reads them and posts them to the main  *)
(* thread, and the main thread (ImmersiveMode.java) holds keys and contacts *)
(* down on the desktop for them.  Devices come and go; a device id is used  *)
(* again for another node.  What was lost is made good by a marker,         *)
(* SYN_DROPPED for all devices, on which the app lets go of everything.     *)
(*                                                                         *)
(* Starts after the handshake; how a session begins and ends is             *)
(* GrabSession.tla's.  Motion and coordinates are left out.                 *)
(***************************************************************************)
EXTENDS Naturals, SequencesExt

CONSTANTS
  KeyNode,     \* input nodes with keys
  TouchNode,   \* input nodes with contacts (protocol B)
  Key,         \* key codes
  Contact,     \* slots of a touch node; the one named Slot0 is current at first
  Slot0,
  MaxDevices,  \* IGRAB_MAX_DEVICES
  MAX_DROPS,   \* MAX_DROPS
  Capacity,    \* bound: records the socket holds
  MaxPosted,   \* bound: posts the main thread is behind
  MaxActs,     \* bound: presses and releases by the user
  MaxPlugs,    \* bound: nodes unplugged or plugged in
  NULL

Node  == KeyNode \cup TouchNode
DevId == 1..MaxDevices

\* Events of a node; records of the stream and what the worker posts for them; the
\* helper's entry of a device, the app's object for it.
KeyEvent   == [type : {"key"}, code : Key, value : BOOLEAN]
TouchEvent == [type : {"slot"}, code : Contact] \cup [type : {"track"}, value : BOOLEAN]
                \cup [type : {"syn"}]
DeviceRecord == [rtype : {"EVENT"}, dev : DevId, gen : Nat, ev : KeyEvent \cup TouchEvent]
                  \cup [rtype : {"DEVICE"}, dev : DevId, gen : Nat]
Record  == DeviceRecord \cup [rtype : {"RESYNC", "BYE"}]
Posting == DeviceRecord \cup [rtype : {"RESYNC", "END"}]
Entry  == [node : Node, gen : Nat, announced : BOOLEAN, dead : BOOLEAN]
Dev    == [gen : Nat, cur : Contact, track : SUBSET Contact, active : SUBSET Contact,
           dirty : BOOLEAN]

ASSUME StreamAssumption ==
  /\ KeyNode \cap TouchNode = {} /\ Slot0 \in Contact
  /\ Cardinality(Node) <= MaxDevices
  /\ MaxDevices \in Nat \ {0} /\ MAX_DROPS \in Nat /\ Capacity \in Nat \ {0}
  /\ MaxPosted \in Nat /\ MaxActs \in Nat /\ MaxPlugs \in Nat
  /\ NULL \notin Node \cup Record \cup Entry \cup Dev

VARIABLES
  \* the hardware and the kernel
  plugged,  \* nodes that exist
  down,     \* [Node -> keys or contacts the user holds]
  kslot,    \* [TouchNode -> slot the kernel reported last]
  evq,      \* [Node -> events not read by the helper]
  acts, plugs,
  \* the helper
  helper,   \* "run", "bye" (left the main loop) or "gone"
  g_devs,   \* [DevId -> NULL or [node, gen, announced, dead]]
  out,      \* [wire: the socket, pending: g_pending, resync: g_need_resync, drops: g_drops]
  \* the app
  posted,   \* what the worker has posted to the main thread
  reader,   \* the worker is in its read loop
  devs,     \* [DevId -> NULL or the Dev of ImmersiveMode]
  keyDown,  \* keys held on the desktop
  desk,     \* contacts held on the desktop
  over      \* onEnded has run

kernel == <<plugged, down, kslot, evq, acts, plugs>>
main   == <<devs, keyDown, desk, over>>
vars   == <<kernel, helper, g_devs, out, posted, reader, main>>

-----------------------------------------------------------------------------
(* Records.  `gen' is not part of a record: it remembers which device (the  *)
(* count of plugs when it was opened) had the id when the record was made.  *)

Event(d, g, e) == [rtype |-> "EVENT", dev |-> d, gen |-> g, ev |-> e]
Device(d, g)   == [rtype |-> "DEVICE", dev |-> d, gen |-> g]
Resync         == [rtype |-> "RESYNC"]
Bye            == [rtype |-> "BYE"]
EndMark        == [rtype |-> "END"]   \* the app's own: main.post(finish)

KeyEv(k, v)  == [type |-> "key", code |-> k, value |-> v]
SlotEv(c)    == [type |-> "slot", code |-> c]
TrackEv(v)   == [type |-> "track", value |-> v]
SynEv        == [type |-> "syn"]

NewDev(g) == [gen |-> g, cur |-> Slot0, track |-> {}, active |-> {}, dirty |-> FALSE]

\* After the handshake: the nodes have been scanned in any order and announced.
Init ==
  /\ plugged = Node
  /\ down = [n \in Node |-> {}]
  /\ kslot = [n \in TouchNode |-> Slot0]
  /\ evq = [n \in Node |-> <<>>]
  /\ acts = 0 /\ plugs = 0
  /\ helper = "run"
  /\ \E order \in SetToSeqs(Node) :
       /\ g_devs = [d \in DevId |-> IF d \in DOMAIN order
                      THEN [node |-> order[d], gen |-> 0, announced |-> TRUE, dead |-> FALSE]
                      ELSE NULL]
       /\ devs = [d \in DevId |-> IF d \in DOMAIN order THEN NewDev(0) ELSE NULL]
  /\ out = [wire |-> <<>>, pending |-> NULL, resync |-> FALSE, drops |-> 0]
  /\ posted = <<>> /\ reader = TRUE
  /\ keyDown = {} /\ desk = {} /\ over = FALSE

-----------------------------------------------------------------------------
(* The user and the hardware.                                              *)

Tracked(n) == \E d \in DevId : g_devs[d] # NULL /\ g_devs[d].node = n /\ ~g_devs[d].dead

Toggled(S, x) == IF x \in S THEN S \ {x} ELSE S \cup {x}

\* Events of a node nobody has opened go to Android.
Emit(n, es) == evq' = IF Tracked(n) THEN [evq EXCEPT ![n] = @ \o es] ELSE evq

PressOrRelease(n, k) ==
  /\ n \in KeyNode \cap plugged /\ acts < MaxActs
  /\ acts' = acts + 1
  /\ down' = [down EXCEPT ![n] = Toggled(@, k)]
  /\ Emit(n, <<KeyEv(k, k \notin down[n])>>)
  /\ UNCHANGED <<plugged, kslot, plugs, helper, g_devs, out, posted, reader, main>>

\* The kernel reports a slot only when it is not the one reported last.
TouchOrLift(n, c) ==
  /\ n \in TouchNode \cap plugged /\ acts < MaxActs
  /\ acts' = acts + 1
  /\ down' = [down EXCEPT ![n] = Toggled(@, c)]
  /\ kslot' = [kslot EXCEPT ![n] = c]
  /\ Emit(n, (IF kslot[n] = c THEN <<>> ELSE <<SlotEv(c)>>)
             \o <<TrackEv(c \notin down[n]), SynEv>>)
  /\ UNCHANGED <<plugged, plugs, helper, g_devs, out, posted, reader, main>>

\* What was not read of a node that goes is lost with it.
Unplug(n) ==
  /\ n \in plugged /\ plugs < MaxPlugs
  /\ plugs' = plugs + 1
  /\ plugged' = plugged \ {n}
  /\ down' = [down EXCEPT ![n] = {}]
  /\ kslot' = IF n \in TouchNode THEN [kslot EXCEPT ![n] = Slot0] ELSE kslot
  /\ evq' = [evq EXCEPT ![n] = <<>>]
  /\ g_devs' = [d \in DevId |-> IF g_devs[d] # NULL /\ g_devs[d].node = n
                                THEN [g_devs[d] EXCEPT !.dead = TRUE] ELSE g_devs[d]]
  /\ UNCHANGED <<acts, helper, out, posted, reader, main>>

Plug(n) ==
  /\ n \in Node \ plugged /\ plugs < MaxPlugs
  /\ plugs' = plugs + 1
  /\ plugged' = plugged \cup {n}
  /\ UNCHANGED <<down, kslot, evq, acts, helper, g_devs, out, posted, reader, main>>

-----------------------------------------------------------------------------
(* The helper's transport.  Each operator gives the states it may leave     *)
(* `out' in: the socket takes a record whole, in part, or not at all.       *)

Room(o)    == Len(o.wire) < Capacity
Dropped(o) == [o EXCEPT !.drops = IF @ > MAX_DROPS THEN @ ELSE @ + 1, !.resync = TRUE]
Ready(o)   == o.pending = NULL /\ ~o.resync

FlushPending(o) ==
  {o} \cup IF o.pending # NULL /\ Room(o)
           THEN {[o EXCEPT !.wire = Append(@, o.pending), !.pending = NULL]}
           ELSE {}

SendRec(o, r) ==
  UNION { IF f.pending # NULL \/ ~Room(f)
          THEN {Dropped(f)}
          ELSE { [f EXCEPT !.wire = Append(@, r), !.drops = 0],
                 [f EXCEPT !.pending = r, !.drops = 0] }
        : f \in FlushPending(o) }

\* Mutant: taken for sent although it was dropped.
SendResyncOnce(o) == { [s EXCEPT !.resync = FALSE] : s \in SendRec(o, Resync) }
SendResync(o) ==
  { IF s.drops = 0 /\ s.pending = NULL THEN [s EXCEPT !.resync = FALSE] ELSE s
      : s \in SendRec(o, Resync) }

RecoverOutput(o) ==
  UNION { IF f.pending = NULL /\ f.resync THEN SendResync(f) ELSE {f}
        : f \in FlushPending(o) }

-----------------------------------------------------------------------------
(* The helper's main loop.                                                 *)

Running == helper = "run"
EndLoop == helper' = "bye" /\ g_devs' = [d \in DevId |-> NULL]   \* release_all

\* Driven by POLLOUT: also when the user has stopped moving.
\* Mutant: only with the next event.
NoRecover == Running /\ FALSE /\ UNCHANGED vars
Recover ==
  /\ Running /\ ~Ready(out)
  /\ out' \in RecoverOutput(out)
  /\ UNCHANGED <<kernel, helper, g_devs, posted, reader, main>>

\* scan_new_devices, for one of the nodes it finds: the first free id is used.
FreeId(d) == g_devs[d] = NULL /\ \A e \in 1..(d - 1) : g_devs[e] # NULL

ScanNewDevice(n) ==
  /\ Running /\ n \in plugged /\ ~Tracked(n)
  /\ \E d \in DevId :
       /\ FreeId(d)
       /\ g_devs' = [g_devs EXCEPT ![d] = [node |-> n, gen |-> plugs,
                                          announced |-> FALSE, dead |-> FALSE]]
  /\ UNCHANGED <<kernel, helper, out, posted, reader, main>>

Announced(d) == g_devs' = [g_devs EXCEPT ![d].announced = TRUE]

\* announce_pending_devices, for one device: after the marker of any loss, and
\* only announced once the record is on the stream whole.
AnnouncePendingDevice(d) ==
  /\ Running /\ g_devs[d] # NULL /\ ~g_devs[d].announced
  /\ \E o \in RecoverOutput(out) :
       IF ~Ready(o)
       THEN out' = o /\ UNCHANGED g_devs
       ELSE /\ out' \in SendRec(o, Device(d, g_devs[d].gen))
            /\ IF Ready(out') THEN Announced(d) ELSE UNCHANGED g_devs
  /\ UNCHANGED <<kernel, helper, posted, reader, main>>

\* A node's events stay with the helper until its DEVICE is on the stream.
\* Mutant: they are sent at once.
HeldBackNever(d) == FALSE
HeldBack(d) == ~g_devs[d].announced

\* pump_device, for one event.
PumpDevice(d) ==
  /\ Running /\ g_devs[d] # NULL
  /\ LET n == g_devs[d].node IN
     /\ ~g_devs[d].dead /\ evq[n] # <<>>
     /\ evq' = [evq EXCEPT ![n] = Tail(@)]
     /\ IF HeldBack(d)
        THEN out' = [out EXCEPT !.resync = TRUE]
        ELSE \E o \in RecoverOutput(out) :
               IF Ready(o) THEN out' \in SendRec(o, Event(d, g_devs[d].gen, Head(evq[n])))
               ELSE out' = Dropped(o)
     /\ IF g_devs[d].announced /\ out'.drops > MAX_DROPS
        THEN EndLoop ELSE UNCHANGED <<helper, g_devs>>
  /\ UNCHANGED <<plugged, down, kslot, acts, plugs, posted, reader, main>>

\* pump_device finds the node gone; the loop ends with the last device.
DeviceGone(d) ==
  /\ Running /\ g_devs[d] # NULL /\ g_devs[d].dead
  /\ out' = [out EXCEPT !.resync = @ \/ g_devs[d].announced]
  /\ g_devs' = [g_devs EXCEPT ![d] = NULL]
  /\ helper' = IF \A e \in DevId : g_devs'[e] = NULL THEN "bye" ELSE helper
  /\ UNCHANGED <<kernel, posted, reader, main>>

\* The toggle key, a signal, or silence of the app.
LeaveLoop ==
  /\ Running /\ EndLoop
  /\ UNCHANGED <<kernel, out, posted, reader, main>>

\* send_bye, blocking: the rest of a record first.  A socket that stays full
\* ends the wait, and what was to be sent is lost.
SendBye ==
  /\ helper = "bye"
  /\ IF ~Room(out) THEN helper' = "gone" /\ UNCHANGED out
     ELSE IF out.pending # NULL
     THEN /\ out' = [out EXCEPT !.wire = Append(@, out.pending), !.pending = NULL]
          /\ UNCHANGED helper
     ELSE out' = [out EXCEPT !.wire = Append(@, Bye)] /\ helper' = "gone"
  /\ UNCHANGED <<kernel, g_devs, posted, reader, main>>

-----------------------------------------------------------------------------
(* The app's worker.                                                       *)

Post(r) == IF r = Bye THEN EndMark ELSE r

\* Mutant: a DEVICE does not wait for the events of the same read.
ParseOvertaking(recs) ==
  LET IsDevice(r) == r.rtype = "DEVICE"
      IsOther(r)  == r.rtype # "DEVICE"
      order       == SelectSeq(recs, IsDevice) \o SelectSeq(recs, IsOther)
  IN [i \in DOMAIN recs |-> Post(order[i])]

\* What readLoop posts of one read().  Events are gathered and posted together,
\* but flushed before any other record and at the end: the main thread sees the
\* records in their order.
Parse(recs) == [i \in DOMAIN recs |-> Post(recs[i])]

\* read() returns any part of what is in the socket.
ReadRecords ==
  /\ reader /\ Len(posted) <= MaxPosted
  /\ \E n \in 1..Len(out.wire) :
       /\ posted' = posted \o Parse(SubSeq(out.wire, 1, n))
       /\ reader' = (out.wire[n] # Bye)
       /\ out' = [out EXCEPT !.wire = SubSeq(@, n + 1, Len(@))]
  /\ UNCHANGED <<kernel, helper, g_devs, main>>

ReadEof ==
  /\ reader /\ helper = "gone" /\ out.wire = <<>>
  /\ posted' = Append(posted, EndMark) /\ reader' = FALSE
  /\ UNCHANGED <<kernel, helper, g_devs, out, main>>

-----------------------------------------------------------------------------
(* The app's main thread.                                                  *)

OfDev(d, S) == {d} \X S

\* releaseEverything: contacts are cancelled and keys sent up.  In the middle
\* of a session the tracking state stays.
ReleaseEverything ==
  /\ desk' = desk \ UNION {OfDev(d, devs[d].active) : d \in {e \in DevId : devs[e] # NULL}}
  /\ keyDown' = {}

HandleKeyEvent(e) ==
  /\ keyDown' = IF e.value THEN keyDown \cup {e.code} ELSE keyDown \ {e.code}
  /\ UNCHANGED <<devs, desk>>

\* endFrame and dispatchContacts.
EndFrame(d) ==
  /\ IF devs[d].dirty
     THEN /\ desk' = (desk \ OfDev(d, devs[d].active)) \cup OfDev(d, devs[d].track)
          /\ devs' = [devs EXCEPT ![d].active = devs[d].track, ![d].dirty = FALSE]
     ELSE UNCHANGED <<desk, devs>>
  /\ UNCHANGED keyDown

HandleAbsEvent(d, e) ==
  /\ devs' = IF e.type = "slot" THEN [devs EXCEPT ![d].cur = e.code]
             ELSE [devs EXCEPT
                     ![d].track = IF e.value THEN @ \cup {devs[d].cur} ELSE @ \ {devs[d].cur},
                     ![d].dirty = TRUE]
  /\ UNCHANGED <<keyDown, desk>>

HandleEvent(d, e) ==
  CASE devs[d] = NULL   -> UNCHANGED <<devs, keyDown, desk>>
    [] e.type = "key"   -> HandleKeyEvent(e)
    [] e.type = "syn"   -> EndFrame(d)
    [] OTHER            -> HandleAbsEvent(d, e)

\* The oldest post.
MainStep ==
  /\ posted # <<>> /\ posted' = Tail(posted)
  /\ LET r == Head(posted) IN
     /\ CASE r.rtype = "EVENT"  -> HandleEvent(r.dev, r.ev)
          [] r.rtype = "RESYNC" ->
               /\ ReleaseEverything
               /\ devs' = [d \in DevId |-> IF devs[d] = NULL THEN NULL
                             ELSE [devs[d] EXCEPT !.active = {}, !.dirty = FALSE]]
          [] r.rtype = "DEVICE" ->
               /\ devs' = [devs EXCEPT ![r.dev] = NewDev(r.gen)]
               /\ UNCHANGED <<keyDown, desk>>
          [] r.rtype = "END"    ->
               ReleaseEverything /\ devs' = [d \in DevId |-> NULL]
     /\ over' = (over \/ r.rtype = "END")
  /\ UNCHANGED <<kernel, helper, g_devs, out, reader>>

-----------------------------------------------------------------------------
User ==
  \/ \E n \in KeyNode, k \in Key : PressOrRelease(n, k)
  \/ \E n \in TouchNode, c \in Contact : TouchOrLift(n, c)
  \/ \E n \in Node : Unplug(n) \/ Plug(n)

Helper ==
  \/ Recover
  \/ \E n \in Node : ScanNewDevice(n)
  \/ \E d \in DevId : AnnouncePendingDevice(d) \/ PumpDevice(d) \/ DeviceGone(d)
  \/ SendBye

Worker == ReadRecords \/ ReadEof

Next == User \/ Helper \/ LeaveLoop \/ Worker \/ MainStep

Spec == Init /\ [][Next]_vars

\* The helper's loop comes round every 250 ms; a socket that keeps getting
\* room takes a whole record in the end.
Fairness ==
  /\ SF_vars(Recover /\ out'.pending = NULL /\ Len(out'.wire) > Len(out.wire))
  /\ \A d \in DevId : WF_vars(PumpDevice(d)) /\ WF_vars(DeviceGone(d))
  /\ WF_vars(SendBye) /\ WF_vars(Worker) /\ WF_vars(MainStep)

FairSpec == Spec /\ Fairness

-----------------------------------------------------------------------------
(* Properties.                                                             *)

TypeOK ==
  /\ plugged \subseteq Node
  /\ down \in [Node -> SUBSET (Key \cup Contact)]
  /\ kslot \in [TouchNode -> Contact]
  /\ evq \in [Node -> Seq(KeyEvent \cup TouchEvent)]
  /\ acts \in Nat /\ plugs \in Nat
  /\ helper \in {"run", "bye", "gone"}
  /\ g_devs \in [DevId -> Entry \cup {NULL}]
  /\ out \in [wire : Seq(Record), pending : Record \cup {NULL}, resync : BOOLEAN, drops : Nat]
  /\ posted \in Seq(Posting)
  /\ reader \in BOOLEAN
  /\ devs \in [DevId -> Dev \cup {NULL}]
  /\ keyDown \subseteq Key
  /\ desk \subseteq DevId \X Contact
  /\ over \in BOOLEAN

\* Everything that happened has reached the main thread.
Settled ==
  /\ Ready(out) /\ out.wire = <<>> /\ posted = <<>>
  /\ \A n \in Node : evq[n] = <<>>
  /\ \A d \in DevId : g_devs[d] # NULL => ~g_devs[d].dead

HeldKeys == UNION {down[n] : n \in {m \in KeyNode : Tracked(m)}}

\* Whatever records were dropped and whatever was unplugged, no key stays down
\* on the desktop that nobody holds; nor anything at all after the session.
NoStuckKey ==
  /\ Settled /\ helper = "run" => keyDown \subseteq HeldKeys
  /\ over => keyDown = {} /\ desk = {}

\* A contact the app has put down is one it can still lift: no Dev is replaced
\* under its contacts, although ids are used again.
ContactsOwned ==
  \A p \in desk : devs[p[1]] # NULL /\ p[2] \in devs[p[1]].active

\* An event is handled by the Dev of the device it came from, not by that of
\* one that had the id before.
EventsMatchDevice ==
  posted # <<>> /\ Head(posted).rtype = "EVENT" /\ devs[Head(posted).dev] # NULL
    => devs[Head(posted).dev].gen = Head(posted).gen

\* Although ids are used again, the app's objects stand for the devices behind them.
DevsMatch == ContactsOwned /\ EventsMatchDevice

\* A loss gets to the main thread although the user may have stopped moving.
LossReported ==
  out.resync ~> (posted # <<>> /\ Head(posted) = Resync) \/ helper # "run"

-----------------------------------------------------------------------------
(* What a comment says, and the code does not do.  Not among the runs. *)

\* The same of contacts, as the comment in handleEvent has it: "let go of all
\* of it rather than strand a key or a contact on the desktop".
NoStuckContact ==
  Settled /\ helper = "run" /\ (\A n \in TouchNode : down[n] = {}) => desk = {}
=============================================================================
