---------------------------- MODULE GrabSession -----------------------------
(***************************************************************************)
(* The life of an immersive session: the main thread starts and stops it    *)
(* (ImmersiveMode.java, InputGrab.java), a worker launches the root helper,  *)
(* accepts its connection and reads it, and the helper (input_grab.c) grabs  *)
(* every input node exclusively until it finds a reason to let go.  While a  *)
(* node is grabbed Android does not see it, so whatever happens to the app   *)
(* must end with the grab released.                                         *)
(*                                                                         *)
(* What flows between READY and BYE is InputStream.tla's.                    *)
(***************************************************************************)
EXTENDS AppProcess, Sequences

CONSTANTS
  Node,         \* input nodes that can be grabbed
  MaxSessions,  \* bound: sessions started
  NULL

ASSUME GrabAssumption ==
  Node # {} /\ MaxSessions \in Nat /\ NULL \notin 1..MaxSessions

Session == 1..MaxSessions   \* killToken, socketName

VARIABLES
  ui,        \* ImmersiveMode: "off", "starting" or "active"
  token,     \* killToken
  running, stopping, finishedToken, endReported,
  server,    \* the session whose listener is open, or NULL
  client,    \* the session whose connection is in `client', or NULL
  worker,    \* [Session -> where run() is]
  posted,    \* main.post: <<"ready" or "finish", session>>
  kills,     \* sessions for which the delayed kill of stop() is pending
  pkills,    \* sessions whose helper a pkill is about to end
  helper,    \* [Session -> where the helper's main() is]
  link,      \* [Session -> connection: "none", "backlog", "open", "closed"]
  sent,      \* [Session -> READY and BYE not read by the worker]
  grab       \* [Node -> session that holds EVIOCGRAB, or NULL]

ctl      == <<ui, token, running, stopping, endReported>>
grabVars == <<ctl, finishedToken, server, client, worker, posted, kills, pkills, helper,
              link, sent, grab>>

GrabInit ==
  /\ ui = "off" /\ token = 0
  /\ running = FALSE /\ stopping = FALSE /\ finishedToken = NULL /\ endReported = FALSE
  /\ server = NULL /\ client = NULL
  /\ worker = [s \in Session |-> "none"]
  /\ posted = <<>> /\ kills = {} /\ pkills = {}
  /\ helper = [s \in Session |-> "none"]
  /\ link = [s \in Session |-> "none"]
  /\ sent = [s \in Session |-> <<>>]
  /\ grab = [n \in Node |-> NULL]

-----------------------------------------------------------------------------
(* Sockets and kills.                                                      *)

\* closeServer: a connection in the backlog is reset.
\* closeAll: the listener and the client, whichever session they belong to.
\* Mutant: the client is left to the helper's next send.
CloseServerOnly ==
  /\ server' = NULL /\ client' = NULL
  /\ link' = [s \in Session |-> IF link[s] = "backlog" /\ server = s THEN "closed" ELSE link[s]]

CloseAll ==
  /\ server' = NULL /\ client' = NULL
  /\ link' = [s \in Session |->
                IF (link[s] = "backlog" /\ server = s) \/ client = s THEN "closed" ELSE link[s]]

Released(s) == [n \in Node |-> IF grab[n] = s THEN NULL ELSE grab[n]]

\* killHelper: skipped for a helper known to be gone.
KillHelper(s) ==
  /\ pkills' = IF s = finishedToken THEN pkills ELSE pkills \cup {s}
  /\ finishedToken' = s

-----------------------------------------------------------------------------
(* Main thread.                                                            *)

\* ImmersiveMode.start and InputGrab.start.
GrabStart ==
  /\ Main /\ ui = "off" /\ ~running /\ token < MaxSessions
  /\ token' = token + 1
  /\ ui' = "starting"
  /\ running' = TRUE /\ stopping' = FALSE /\ finishedToken' = NULL /\ endReported' = FALSE
  /\ server' = token'
  /\ worker' = [worker EXCEPT ![token'] = "launch"]
  /\ UNCHANGED <<app, client, posted, kills, pkills, helper, link, sent, grab>>

\* The toggle key, a pause, a lost surface, the screen turned off.
GrabStop ==
  /\ Main /\ ui # "off" /\ running
  /\ stopping' = TRUE
  /\ CloseAll
  /\ kills' = kills \cup {token}
  /\ UNCHANGED <<app, ui, token, running, finishedToken, endReported, worker,
                 posted, pkills, helper, sent, grab>>

DelayedKill(s) ==
  /\ Main /\ s \in kills
  /\ kills' = kills \ {s}
  /\ KillHelper(s)
  /\ UNCHANGED <<app, ctl, server, client, worker, posted, helper, link, sent, grab>>

\* CONNECT_TIMEOUT_MS after acceptHelper took `server'.
AcceptTimeout(s) ==
  /\ Main /\ worker[s] = "accept" /\ server = s /\ client = NULL
  /\ server' = NULL
  /\ link' = [link EXCEPT ![s] = IF @ = "backlog" THEN "closed" ELSE @]
  /\ UNCHANGED <<app, ctl, finishedToken, client, worker, posted, kills, pkills, helper,
                 sent, grab>>

\* A post of the worker: onReady, or finish and onEnded.
MainPost ==
  /\ Main /\ posted # <<>> /\ posted' = Tail(posted)
  /\ IF Head(posted)[1] = "ready"
     THEN /\ ui' = IF running THEN "active" ELSE ui
          /\ UNCHANGED <<running, endReported>>
     ELSE IF endReported THEN UNCHANGED <<ui, running, endReported>>
     ELSE ui' = "off" /\ running' = FALSE /\ endReported' = TRUE
  /\ UNCHANGED <<app, token, stopping, finishedToken, server, client, worker,
                 kills, pkills, helper, link, sent, grab>>

-----------------------------------------------------------------------------
(* Worker.                                                                 *)

At(s, pc) == app.up /\ worker[s] = pc
Goto(s, pc) == worker' = [worker EXCEPT ![s] = pc]

\* su, which may be missing or refuse.
Launch(s) ==
  /\ At(s, "launch")
  /\ \/ /\ helper' = [helper EXCEPT ![s] = "launched"] /\ Goto(s, "accept")
        /\ UNCHANGED finishedToken
     \/ finishedToken' = s /\ Goto(s, "finally") /\ UNCHANGED helper
  /\ UNCHANGED <<app, ctl, server, client, posted, kills, pkills, link, sent, grab>>

\* acceptHelper: one peer only; without a listener nothing was ever grabbed.
AcceptHelper(s) ==
  /\ At(s, "accept")
  /\ \/ /\ link[s] = "backlog"
        /\ link' = [link EXCEPT ![s] = "open"] /\ server' = NULL /\ Goto(s, "accepted")
        /\ UNCHANGED finishedToken
     \/ /\ server # s
        /\ finishedToken' = s /\ Goto(s, "finally")
        /\ UNCHANGED <<link, server>>
  /\ UNCHANGED <<app, ctl, client, posted, kills, pkills, helper, sent, grab>>

SetClient(s) ==
  /\ At(s, "accepted")
  /\ client' = s /\ Goto(s, "check")
  /\ UNCHANGED <<app, ctl, finishedToken, server, posted, kills, pkills, helper, link,
                 sent, grab>>

CheckStopping(s) ==
  /\ At(s, "check")
  /\ Goto(s, IF stopping THEN "finally" ELSE "read")
  /\ UNCHANGED <<app, ctl, finishedToken, server, client, posted, kills, pkills, helper,
                 link, sent, grab>>

\* readLoop: a record, the end of the stream, or a socket closed under it.
ReadLoop(s) ==
  /\ At(s, "read")
  /\ \/ /\ link[s] = "open" /\ ~stopping /\ sent[s] # <<>>
        /\ sent' = [sent EXCEPT ![s] = Tail(@)]
        /\ IF Head(sent[s]) = "READY"
           THEN posted' = Append(posted, <<"ready", s>>) /\ UNCHANGED <<worker, finishedToken>>
           ELSE finishedToken' = s /\ Goto(s, "finally") /\ UNCHANGED posted
     \/ /\ stopping \/ link[s] = "closed" \/ (helper[s] = "dead" /\ sent[s] = <<>>)
        /\ Goto(s, "finally") /\ UNCHANGED <<sent, posted, finishedToken>>
  /\ UNCHANGED <<app, ctl, server, client, kills, pkills, helper, link, grab>>

FinallyClose(s) ==
  /\ At(s, "finally")
  /\ CloseAll /\ Goto(s, "kill")
  /\ UNCHANGED <<app, ctl, finishedToken, posted, kills, pkills, helper, sent, grab>>

FinallyReport(s) ==
  /\ At(s, "kill")
  /\ KillHelper(s)
  /\ posted' = Append(posted, <<"finish", s>>)
  /\ Goto(s, "done")
  /\ UNCHANGED <<app, ctl, server, client, kills, helper, link, sent, grab>>

\* The heartbeat thread writes while the read loop runs and the main thread
\* was alive a moment ago.
\* Mutant: without a look at the main thread.
BeatingBlindly(s) == At(s, "read") /\ running /\ ~stopping
Beating(s) == At(s, "read") /\ running /\ ~stopping /\ ~app.stalled

Worker(s) ==
  \/ Launch(s) \/ AcceptHelper(s) \/ SetClient(s) \/ CheckStopping(s) \/ ReadLoop(s)
  \/ FinallyClose(s) \/ FinallyReport(s)

-----------------------------------------------------------------------------
(* Helper.                                                                 *)

\* connect_abstract comes before anything is opened.
Connect(s) ==
  /\ helper[s] = "launched"
  /\ IF server = s /\ app.up
     THEN /\ link' = [link EXCEPT ![s] = "backlog"]
          /\ helper' = [helper EXCEPT ![s] = "scan"]
     ELSE helper' = [helper EXCEPT ![s] = "dead"] /\ UNCHANGED link
  /\ UNCHANGED <<app, ctl, finishedToken, server, client, worker, posted, kills, pkills,
                 sent, grab>>

Connected(s) == app.up /\ link[s] \in {"backlog", "open"}

\* scan_devices: a node another process holds is skipped; with none left the
\* helper says BYE and goes.
ScanDevices(s) ==
  /\ helper[s] = "scan"
  /\ grab' = [n \in Node |-> IF grab[n] = NULL THEN s ELSE grab[n]]
  /\ helper' = [helper EXCEPT ![s] = IF \E n \in Node : grab'[n] = s THEN "hello" ELSE "bye"]
  /\ UNCHANGED <<app, ctl, finishedToken, server, client, worker, posted, kills, pkills,
                 link, sent>>

LetGo(s, pc) == grab' = Released(s) /\ helper' = [helper EXCEPT ![s] = pc]

\* send_device_list.
SendDeviceList(s) ==
  /\ helper[s] = "hello"
  /\ IF Connected(s)
     THEN /\ sent' = [sent EXCEPT ![s] = Append(@, "READY")]
          /\ helper' = [helper EXCEPT ![s] = "loop"] /\ UNCHANGED grab
     ELSE LetGo(s, "dead") /\ UNCHANGED sent
  /\ UNCHANGED <<app, ctl, finishedToken, server, client, worker, posted, kills, pkills, link>>

\* The main loop ends: the peer is gone, or nothing was heard of it for
\* HEARTBEAT_TIMEOUT_MS.
PeerGone(s) == helper[s] = "loop" /\ ~Connected(s) /\ LetGo(s, "bye")
Silence(s)  == helper[s] = "loop" /\ Connected(s) /\ ~Beating(s) /\ LetGo(s, "bye")

\* The toggle key, a signal, the last device unplugged, too many drops.
EndLoop(s)  == helper[s] = "loop" /\ Connected(s) /\ LetGo(s, "bye")

LeaveLoop(s, Reason(_)) ==
  /\ Reason(s)
  /\ UNCHANGED <<app, ctl, finishedToken, server, client, worker, posted, kills, pkills,
                 link, sent>>

SendBye(s) ==
  /\ helper[s] = "bye"
  /\ sent' = IF Connected(s) THEN [sent EXCEPT ![s] = Append(@, "BYE")] ELSE sent
  /\ helper' = [helper EXCEPT ![s] = "dead"]
  /\ UNCHANGED <<app, ctl, finishedToken, server, client, worker, posted, kills, pkills,
                 link, grab>>

\* pkill -9, by the token in the helper's argv: the kernel drops the grabs.
Pkill(s) ==
  /\ s \in pkills
  /\ pkills' = pkills \ {s}
  /\ IF helper[s] = "none" THEN UNCHANGED <<helper, grab>> ELSE LetGo(s, "dead")
  /\ UNCHANGED <<app, ctl, finishedToken, server, client, worker, posted, kills,
                 link, sent>>

HelperStep(s) ==
  \/ Connect(s) \/ ScanDevices(s) \/ SendDeviceList(s)
  \/ LeaveLoop(s, PeerGone) \/ LeaveLoop(s, Silence)
  \/ SendBye(s)

-----------------------------------------------------------------------------
(* Properties.                                                             *)

Holds(s)   == \E n \in Node : grab[n] = s
Current(s) == s = token /\ running

\* What holds the input is a helper the app still reads, or one whose socket
\* is closed already, so that its next poll ends it: none is forgotten.
NoOrphanGrab ==
  \A s \in Session : Holds(s) => ~app.up \/ link[s] = "closed" \/ Current(s)

\* Stopped, crashed or wedged: the input goes back to Android.
Lost(s) == ~app.up \/ app.stalled \/ ~Current(s) \/ stopping
InputComesBack == \A s \in Session : Holds(s) /\ Lost(s) ~> ~Holds(s) \/ ~Lost(s)

\* A session that was stopped, or whose helper has gone, is over for the app
\* too, and the key starts the next one: "onEnded still fires once".
SessionEnds ==
  \A s \in Session :
    Current(s) /\ (stopping \/ helper[s] = "dead")
      ~> ~app.up \/ app.stalled \/ (~Current(s) /\ (token > s \/ ui = "off"))

\* A session that ends does so on both sides (InputGrab.java, run; input_grab.c, main).
EndsForBoth == InputComesBack /\ SessionEnds
=============================================================================
