----------------------------- MODULE CameraNode -----------------------------
(***************************************************************************)
(* anland_camera.c: the webcams KWin shows to Linux applications.  The       *)
(* PipeWire loop thread runs every callback of the nodes and of the stream   *)
(* sockets; KWin's main thread hands over the sockets of a new consumer      *)
(* (set_resources) and takes them away (clear), under the loop's lock but    *)
(* for one blocking question.  PipeWire restarts, consumers come and go, and *)
(* the phone's sockets outlive both (camera_service.c keeps a client's       *)
(* socket pairs for as long as its window).                                  *)
(*                                                                         *)
(* Frame slots and their DONEs are CameraSlots.tla's.                       *)
(***************************************************************************)
EXTENDS Naturals, SequencesExt

CONSTANTS
  NumCam,       \* cameras of the phone
  MaxSessions,  \* bound: consumer sessions
  MaxRestarts,  \* bound: times PipeWire goes away
  MaxMapFails,  \* bound: shared memory that cannot be mapped
  Unread,         \* bound: messages unread in one socket when another is sent
  NONE

ASSUME CameraNodeAssumption ==
  {NumCam, MaxSessions, MaxRestarts, MaxMapFails, Unread} \subseteq Nat

Cam  == 1..NumCam
Size == {"720p", "real"}   \* CAM_DEF_W x CAM_DEF_H, and what the phone delivers

VARIABLES
  engine,   \* g_cam: "off", "on", or "crashed" with all of KWin
  core,     \* "none", "live", "broken" (EPIPE not dispatched yet), "dead"
  timer,    \* reconnect_timer is armed
  num,      \* num_cameras
  ctrl_fd,     \* session whose control socket is in ctrl_fd, or 0
  cam,      \* [Cam -> struct cam]
  call,     \* set_resources between the question and the lock, or NULL
  \* PipeWire's server
  server, restarts,
  pw,       \* [Cam -> the node's format offered, agreed on, and in its buffers]
  \* the session, as the producer and the consumer see it
  session, plive, clive,
  request,  \* RESOURCES_REQUEST: "none", "asked" or "answered"
  \* camera_service.c
  ctrlq,    \* control messages not read by the I/O thread
  gets,     \* [Cam -> GET_SHMs not read]
  stream,   \* [Cam -> messages not read from stream_fd]
  rec,      \* cameras this client records
  mapFails

eng    == <<engine, core, timer, num, ctrl_fd, cam>>
sess   == <<session, plive, clive, request>>
phone  == <<ctrlq, gets, stream, rec>>
nodeVars   == <<eng, call, server, restarts, pw, sess, phone, mapFails>>

NodeInit ==
  /\ engine = "off" /\ core = "none" /\ timer = FALSE /\ num = 0 /\ ctrl_fd = 0
  /\ cam = [i \in Cam |-> [node |-> FALSE, streaming |-> FALSE, recording |-> FALSE, fd |-> 0,
                           io |-> FALSE, shm |-> NONE, asked |-> FALSE, frame |-> NONE, fmt |-> NONE]]
  /\ call = NONE
  /\ server \in BOOLEAN /\ restarts = 0
  /\ pw = [i \in Cam |-> [offer |-> NONE, agreed |-> NONE, pool |-> NONE]]
  /\ session = 0 /\ plive = FALSE /\ clive = FALSE /\ request = "none"
  /\ ctrlq = <<>> /\ gets = [i \in Cam |-> 0] /\ stream = [i \in Cam |-> <<>>] /\ rec = {}
  /\ mapFails = 0

-----------------------------------------------------------------------------
(* What the handlers are made of: functions of the engine's state that        *)
(* return a camera and the messages it sends.                                *)

\* update_recording, with the START or STOP it sends, and request_shm: the
\* argument is a camera already changed by the handler, c the control socket.
Wanted(k, c) == k.streaming /\ k.fd # 0 /\ c # 0
Told(k, c) ==
  IF Wanted(k, c) = k.recording THEN "nothing"
  ELSE IF Wanted(k, c) THEN "START"
  ELSE IF c # 0 THEN "STOP" ELSE "nothing"
Asks(k) == k.streaming /\ k.fd # 0 /\ k.shm = NONE /\ ~k.asked
Updated(k, c) ==
  [k EXCEPT !.recording = Wanted(k, c), !.asked = @ \/ (Told(k, c) = "START" /\ Asks(k))]

\* attach_fd before its update_recording; detach_fd with f = 0.
Attached(k, f) ==
  [k EXCEPT !.fd = f, !.io = f # 0, !.shm = NONE, !.asked = FALSE, !.frame = NONE]
\* Its second request_shm.
Requested(k) == [k EXCEPT !.asked = @ \/ Asks(k)]

\* create_node and destroy_node.
Created(k)   == IF k.node THEN k
                ELSE [k EXCEPT !.node = TRUE, !.streaming = FALSE, !.recording = FALSE,
                               !.fmt = IF @ = NONE THEN "720p" ELSE @]
Destroyed(k) == [k EXCEPT !.node = FALSE, !.io = FALSE, !.streaming = FALSE, !.recording = FALSE]

Offering(f) == [offer |-> f, agreed |-> NONE, pool |-> NONE]

\* Cameras in their order (there is one such list), and what is sent about them.
InOrder(S)        == {s \in SeqOf(S, NumCam) : Range(s) = S /\ \A m, n \in DOMAIN s : m < n => s[m] < s[n]}
Messages(f, c, s) == [n \in 1..Len(s) |-> <<Told(f[s[n]], c), s[n]>>]

\* Every camera goes from f[i], changed by a handler, through update_recording
\* and, after an attachment, request_shm.
Reconcile(f, c, attached) ==
  /\ cam' = [i \in Cam |-> IF i \in attached THEN Requested(Updated(f[i], c)) ELSE Updated(f[i], c)]
  /\ \E s \in InOrder({i \in Cam : Told(f[i], c) # "nothing"}) : ctrlq' = ctrlq \o Messages(f, c, s)
  /\ gets' = [i \in Cam |-> gets[i] + (IF cam'[i].asked /\ ~f[i].asked THEN 1 ELSE 0)]

Connected == core \in {"live", "broken"}   \* pw_connected

-----------------------------------------------------------------------------
(* Loop thread: nodes.                                                      *)

Loop == engine = "on"
Live == Loop /\ core = "live" /\ server

\* on_stream_state_changed: an application links to the node or leaves.
StateChanged(i) ==
  /\ Live /\ cam[i].node /\ Len(ctrlq) < Unread /\ gets[i] < Unread
  /\ pw[i].pool # NONE
  /\ Reconcile([cam EXCEPT ![i].streaming = ~@], ctrl_fd, {})
  /\ UNCHANGED <<engine, core, timer, num, ctrl_fd, call, server, restarts, pw, sess, stream, rec, mapFails>>

\* PipeWire takes up the format offered last; its event is under way.
Negotiate(i) ==
  /\ Live /\ cam[i].node
  /\ pw[i].agreed = NONE /\ pw[i].offer # pw[i].pool
  /\ pw' = [pw EXCEPT ![i].agreed = pw[i].offer]
  /\ UNCHANGED <<eng, call, server, restarts, sess, phone, mapFails>>

\* on_param_changed.
ParamChanged(i) ==
  /\ Live /\ pw[i].agreed # NONE
  /\ cam' = [cam EXCEPT ![i].fmt = pw[i].agreed]
  /\ pw' = [pw EXCEPT ![i].pool = pw[i].agreed, ![i].agreed = NONE]
  /\ UNCHANGED <<engine, core, timer, num, ctrl_fd, call, server, restarts, sess, phone, mapFails>>

-----------------------------------------------------------------------------
(* Loop thread: stream sockets.                                             *)

\* handle_stream_msg, SHM_OFFER.
ShmOffer(i) ==
  /\ Loop /\ cam[i].io /\ stream[i] # <<>> /\ Head(stream[i])[1] = "OFFER"
  /\ stream' = [stream EXCEPT ![i] = Tail(@)]
  /\ \/ cam' = [cam EXCEPT ![i].shm = cam[i].fd] /\ UNCHANGED mapFails
     \/ /\ mapFails < MaxMapFails /\ mapFails' = mapFails + 1
        /\ cam' = [cam EXCEPT ![i].shm = NONE]
  /\ UNCHANGED <<engine, core, timer, num, ctrl_fd, call, server, restarts, pw, sess, ctrlq, gets, rec>>

\* handle_stream_msg, READY: the frame is copied out, and the node follows its size.
Ready(i) ==
  /\ Loop /\ cam[i].io /\ stream[i] # <<>> /\ Head(stream[i])[1] = "READY"
  /\ stream' = [stream EXCEPT ![i] = Tail(@)]
  /\ LET renegotiate == cam[i].node /\ cam[i].fmt # "real"
     IN /\ cam' = [cam EXCEPT ![i].frame = IF cam[i].shm = NONE THEN @ ELSE Head(stream[i])[2],
                              ![i].fmt = IF renegotiate THEN "real" ELSE @]
        /\ pw' = IF renegotiate THEN [pw EXCEPT ![i].offer = "real"] ELSE pw
  /\ UNCHANGED <<engine, core, timer, num, ctrl_fd, call, server, restarts, sess, ctrlq, gets, rec, mapFails>>

-----------------------------------------------------------------------------
(* Loop thread: PipeWire's connection.                                      *)

\* The streams turn UNCONNECTED and on_core_error drops pw_connected.
CoreError ==
  /\ Loop /\ core = "broken"
  /\ core' = "dead" /\ timer' = TRUE
  /\ Reconcile([i \in Cam |-> [cam[i] EXCEPT !.streaming = FALSE]], ctrl_fd, {})
  /\ UNCHANGED <<engine, num, ctrl_fd, call, server, restarts, pw, sess, stream, rec, mapFails>>

\* on_reconnect_timer: tear down, build, create_nodes; or tear down and try again.
\* Mutant: a failed attempt is the last.
RearmNever == FALSE
Rearm == TRUE

ReconnectTimer ==
  /\ Loop /\ timer /\ (server \/ core = "dead")
  /\ core'  = IF server THEN "live" ELSE "none"
  /\ timer' = (~server /\ Rearm)
  /\ LET back(i) == server /\ i <= num IN
     /\ cam' = [i \in Cam |-> IF back(i)
                              THEN [Created(Destroyed(cam[i])) EXCEPT !.io = cam[i].fd # 0]
                              ELSE Destroyed(cam[i])]
     /\ pw' = [i \in Cam |-> IF back(i) THEN Offering(cam'[i].fmt) ELSE pw[i]]
  /\ UNCHANGED <<engine, num, ctrl_fd, call, server, restarts, sess, phone, mapFails>>

-----------------------------------------------------------------------------
(* Main thread.                                                            *)

\* A session begins; the service is asked for at once (onReconnectTimer).
Connect ==
  /\ ~plive /\ ~clive /\ engine # "crashed" /\ session < MaxSessions
  /\ session' = session + 1 /\ plive' = TRUE /\ clive' = TRUE /\ request' = "asked"
  /\ UNCHANGED <<eng, call, server, restarts, pw, phone, mapFails>>

\* set_resources up to the lock: the engine is started, and GET_INFO is
\* answered in time or not.
QueryMaxRes ==
  /\ plive /\ request = "asked" /\ engine # "crashed"
  /\ request' = "answered"
  /\ engine' = "on"
  /\ IF engine = "off"
     THEN core' = (IF server THEN "live" ELSE "none") /\ timer' = ~server
     ELSE UNCHANGED <<core, timer>>
  /\ \E n \in 0..NumCam :
       LET need_query == \E i \in 1..n : ~cam[i].node IN
       \E q \in IF need_query THEN {NONE, "real"} ELSE {NONE} : call' = [n |-> n, q |-> q]
  /\ UNCHANGED <<num, ctrl_fd, cam, server, restarts, pw, session, plive, clive, phone, mapFails>>

\* The locked part.  pw_stream_new on a core that is not there ends KWin.
NewNodes == {i \in 1..call.n : ~cam[i].node}
SetResources ==
  /\ Loop /\ call # NONE /\ call' = NONE
  /\ IF core = "none" /\ NewNodes # {}
     THEN engine' = "crashed" /\ UNCHANGED <<ctrl_fd, num, cam, pw, ctrlq, gets>>
     ELSE /\ UNCHANGED engine
          /\ ctrl_fd' = session /\ num' = call.n
          /\ Reconcile([i \in Cam |->
               IF i <= call.n
               THEN Attached(Created([cam[i] EXCEPT !.fmt = IF ~cam[i].node /\ call.q # NONE
                                                            THEN call.q ELSE @]), session)
               ELSE IF i <= num THEN Attached(Destroyed(cam[i]), 0) ELSE cam[i]],
               session, 1..call.n)
          /\ pw' = [i \in Cam |-> IF i \in NewNodes THEN Offering(cam'[i].fmt) ELSE pw[i]]
  /\ UNCHANGED <<core, timer, server, restarts, sess, stream, rec, mapFails>>

\* anland_camera_clear.
\* Mutant: only the control socket goes.
ClearedCtrl(k) == k
Cleared(k) == Attached([k EXCEPT !.recording = FALSE], 0)

Clear ==
  IF Loop THEN ctrl_fd' = 0 /\ cam' = [i \in Cam |-> IF i <= num THEN Cleared(cam[i]) ELSE cam[i]]
  ELSE UNCHANGED <<ctrl_fd, cam>>

\* enterFallback: the producer notices, or is the first to give up.
EnterFallback ==
  /\ plive /\ call = NONE /\ engine # "crashed"
  /\ plive' = FALSE /\ request' = "none" /\ Clear
  /\ UNCHANGED <<engine, core, timer, num, call, server, restarts, pw, session, clive, phone, mapFails>>

\* INPUT_TYPE_RESOURCE_INVALID.
ResourceInvalid ==
  /\ plive /\ request = "asked" /\ engine # "crashed"
  /\ request' = "answered" /\ Clear
  /\ UNCHANGED <<engine, core, timer, num, call, server, restarts, pw, session, plive, clive, phone, mapFails>>

-----------------------------------------------------------------------------
(* The consumer's camera service, for this client.                          *)

\* camera_free_resource.
CameraFreeResource ==
  /\ clive /\ clive' = FALSE
  /\ rec' = {}
  /\ UNCHANGED <<eng, call, server, restarts, pw, session, plive, request, ctrlq, gets, stream, mapFails>>

\* ctrl_handle_msg.
CtrlHandleMsg ==
  /\ ctrlq # <<>> /\ ctrlq' = Tail(ctrlq)
  /\ LET m == Head(ctrlq) IN rec' = IF m[1] = "START" THEN rec \cup {m[2]} ELSE rec \ {m[2]}
  /\ UNCHANGED <<eng, call, server, restarts, pw, sess, gets, stream, mapFails>>

\* stream_handle_msg, GET_SHM.
StreamHandleMsg(i) ==
  /\ gets[i] > 0 /\ gets' = [gets EXCEPT ![i] = @ - 1]
  /\ stream' = [stream EXCEPT ![i] = Append(@, <<"OFFER">>)]
  /\ UNCHANGED <<eng, call, server, restarts, pw, sess, ctrlq, rec, mapFails>>

\* cam_frame_ready: a frame of a camera the client records.
FrameReady(i) ==
  /\ i \in rec /\ Len(stream[i]) < Unread
  /\ stream' = [stream EXCEPT ![i] = Append(@, <<"READY", session>>)]
  /\ UNCHANGED <<eng, call, server, restarts, pw, sess, ctrlq, gets, rec, mapFails>>

-----------------------------------------------------------------------------
(* PipeWire's server.                                                      *)

ServerGoes ==
  /\ server /\ restarts < MaxRestarts /\ restarts' = restarts + 1
  /\ server' = FALSE /\ core' = IF core = "live" THEN "broken" ELSE core
  /\ pw' = [i \in Cam |-> [pw[i] EXCEPT !.agreed = NONE, !.pool = NONE]]
  /\ UNCHANGED <<engine, timer, num, ctrl_fd, cam, call, sess, phone, mapFails>>

ServerComes ==
  /\ ~server /\ server' = TRUE
  /\ UNCHANGED <<eng, call, restarts, pw, sess, phone, mapFails>>

-----------------------------------------------------------------------------
LoopStep(i) == ParamChanged(i) \/ ShmOffer(i) \/ Ready(i)
ServiceStep(i)   == StreamHandleMsg(i) \/ FrameReady(i)

NodeNext ==
  \/ \E i \in Cam : StateChanged(i) \/ Negotiate(i) \/ LoopStep(i) \/ ServiceStep(i)
  \/ CoreError \/ ReconnectTimer
  \/ Connect \/ QueryMaxRes \/ SetResources \/ EnterFallback \/ ResourceInvalid
  \/ CameraFreeResource \/ CtrlHandleMsg
  \/ ServerGoes \/ ServerComes

NodeSpec == NodeInit /\ [][NodeNext]_nodeVars

\* The threads run, PipeWire negotiates, and a camera that records delivers
\* frames.  Nobody has to open a camera, to connect or to answer, and PipeWire
\* may stay away.
Fairness ==
  /\ \A i \in Cam : WF_nodeVars(Negotiate(i)) /\ WF_nodeVars(ParamChanged(i))
                    /\ WF_nodeVars(ShmOffer(i)) /\ WF_nodeVars(Ready(i))
                    /\ WF_nodeVars(StreamHandleMsg(i)) /\ WF_nodeVars(FrameReady(i))
  /\ WF_nodeVars(CoreError) /\ WF_nodeVars(ReconnectTimer)
  /\ WF_nodeVars(SetResources) /\ WF_nodeVars(CtrlHandleMsg)

NodeFairSpec == NodeSpec /\ Fairness

-----------------------------------------------------------------------------
(* Properties.                                                             *)

\* Once the I/O thread has read the control socket, it will record i.
Heard(i) ==
  \/ \E n \in 1..Len(ctrlq) : ctrlq[n] = <<"START", i>> /\ \A m \in n + 1..Len(ctrlq) : ctrlq[m][2] # i
  \/ i \in rec /\ \A n \in 1..Len(ctrlq) : ctrlq[n][2] # i

\* "recording: we've told the consumer to START on ctrl": through sessions,
\* restarts of PipeWire and cameras that come and go, a camera the engine takes
\* for recording is one the present consumer has been told to start.
RecordingHeard ==
  \A i \in Cam : cam[i].recording /\ clive => Heard(i)

\* An application that keeps a camera open while the consumer is there gets its
\* frames, of this session and in the size of its buffers.
Feeding(i) ==
  engine = "on" /\ core = "live" /\ server /\ plive /\ clive /\ cam[i].streaming /\ cam[i].fd = session
Whole(i) == cam[i].frame = session /\ pw[i].pool = "real"
LiveFeed ==
  \A i \in Cam : Feeding(i) ~> Whole(i) \/ ~Feeding(i) \/ mapFails > 0

\* The nodes outlive consumers and come back with PipeWire.
NodesReturn ==
  \A i \in Cam : i <= num /\ server ~> engine = "crashed" \/ i > num \/ ~server
                                 \/ (cam[i].node /\ core = "live")

\* Whoever comes back, consumer or PipeWire, the cameras come back with their frames.
CamerasReturn == LiveFeed /\ NodesReturn

-----------------------------------------------------------------------------
(* What the comments say, and the code does not do.  Not among the runs. *)

\* anland_camera.h:22, "The camera only physically turns on when an app
\* actually consumes a node": a camera that records has somebody looking.
LensFollowsApp ==
  \A i \in Cam : i \in rec ~> i \notin rec \/ cam[i].streaming

\* anland_camera.c:57, "so the node always matches the real frames -- no
\* garbage, no truncation": on_process copies a frame into a buffer of its size.
NoTruncation ==
  \A i \in Cam : cam[i].streaming /\ cam[i].frame # NONE /\ cam[i].fd # 0 /\ core = "live"
                 => pw[i].pool \in {NONE, "real"}

\* The connection mirrors the audio engine's, for which a sound service that is
\* down is no failure (anland_audio.c:523): a consumer with cameras may come
\* while PipeWire is away.
NeedsNoPipeWire == engine # "crashed"
=============================================================================
