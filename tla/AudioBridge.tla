---------------------------- MODULE AudioBridge ----------------------------
(***************************************************************************)
(* The sound of a session: native_audio.c on the phone and anland_audio.c in *)
(* KWin, with the audio socket of the session between them.  The phone owns  *)
(* the hardware: it announces its format and the user's latency preset, and  *)
(* KWin's virtual devices follow.  Speakers are unplugged, presets change,   *)
(* PipeWire restarts, sessions end and begin, and nobody acknowledges an     *)
(* announcement.                                                            *)
(*                                                                         *)
(* The microphone's format is announced along with the speaker's and handled *)
(* by the same code; only the speaker's is kept here.  Samples are not told  *)
(* apart.                                                                   *)
(***************************************************************************)
EXTENDS Naturals, Sequences

CONSTANTS
  MaxSessions,  \* bound: sessions
  MaxEvents,    \* bound: devices that die, presets, mic switches and PipeWire restarts
  Room,         \* messages the socket holds
  NULL

ASSUME AudioAssumption ==
  {MaxSessions, MaxEvents, Room} \subseteq Nat

Format == {"48000", "44100"}   \* rate and channels; the first is DEFAULT_RATE
Preset == {"default", "low"}   \* quantum 0, or some frames

VARIABLES
  \* the library's session
  conn,      \* get_audio_fd: its number, or 0 in fallback
  session,   \* sessions so far
  up,        \* messages unread by KWin
  \* audio_bridge
  play,      \* the output stream: NULL, or [fmt, dead]
  play_rebuild, resend_formats,
  latency,   \* play_latency_ms
  mic_enabled,
  pt,        \* play thread: [pc, fd, had_fd]
  started,   \* capture thread: the microphone is open
  ui,        \* audio_set_latency: TRUE between its writes
  callback,  \* an error callback is on its way
  \* anland_audio
  audio_fd,  \* its session, or 0
  cur,       \* play_rate, play_channels and play_quantum
  core,      \* "live", "broken" (EPIPE not dispatched yet), "dead", "none"
  node,      \* what the virtual sink is asked for, or NULL
  server,    \* PipeWire's
  \* history: the play thread believes KWin was told what it was not
  lost,
  events

lib   == <<conn, session, up>>
dev   == <<play, play_rebuild, callback>>
opts  == <<resend_formats, latency, mic_enabled, ui>>
kwin  == <<audio_fd, cur, core, node, server>>
vars  == <<lib, dev, opts, pt, started, kwin, lost, events>>

Event == events < MaxEvents /\ events' = events + 1

Defaults == [fmt |-> "48000", quantum |-> "default"]

\* audio_start; KWin's engine is up for the whole of its session.
Init ==
  /\ conn = 0 /\ session = 0 /\ up = <<>>
  /\ play = [fmt |-> "44100", dead |-> FALSE]
  /\ play_rebuild = FALSE /\ resend_formats = FALSE /\ callback = FALSE
  /\ latency = "default" /\ mic_enabled \in BOOLEAN /\ ui = FALSE
  /\ pt = [pc |-> "top", fd |-> 0, had_fd |-> FALSE]
  /\ started = FALSE
  /\ audio_fd = 0 /\ cur = Defaults
  /\ server = TRUE /\ core = "live" /\ node = Defaults
  /\ lost = FALSE
  /\ events = 0

-----------------------------------------------------------------------------
(* The session, as its libraries open and close it.                         *)

\* The consumer leaves fallback; the producer is the one of before or another.
Connect ==
  /\ conn = 0 /\ audio_fd = 0 /\ session < MaxSessions
  /\ session' = session + 1 /\ conn' = session'
  /\ \/ UNCHANGED <<cur, node>>
     \/ cur' = Defaults /\ node' = IF core = "live" THEN Defaults ELSE NULL
  /\ UNCHANGED <<up, dev, opts, pt, started, audio_fd, core, server, lost, events>>

\* enter_fallback closes the socket.
EnterFallback ==
  /\ conn # 0 /\ conn' = 0 /\ up' = <<>>
  /\ UNCHANGED <<session, dev, opts, pt, started, kwin, lost, events>>

-----------------------------------------------------------------------------
(* Play thread.                                                            *)

Goto(pc) == pt' = [pt EXCEPT !.pc = pc]

Top ==
  /\ pt.pc = "top"
  /\ IF play_rebuild \/ play = NULL
     THEN play_rebuild' = FALSE /\ Goto("reopen")
     ELSE Goto("fd") /\ UNCHANGED play_rebuild
  /\ UNCHANGED <<lib, play, callback, opts, started, kwin, lost, events>>

\* reopen_play_stream: it fails, or a device is opened, the same or another.
ReopenFails ==
  /\ pt.pc = "reopen"
  /\ play' = NULL /\ Goto("top")
  /\ UNCHANGED <<lib, play_rebuild, callback, opts, started, kwin, lost, events>>

Reopen ==
  /\ pt.pc = "reopen"
  /\ \E f \in Format : play' = [fmt |-> f, dead |-> FALSE]
  /\ pt' = [pc |-> "fd", fd |-> 0, had_fd |-> FALSE]
  /\ resend_formats' = TRUE
  /\ UNCHANGED <<lib, play_rebuild, callback, latency, mic_enabled, ui, started, kwin, lost, events>>

\* current_fd: a session between two looks leaves had_fd as it was.
CurrentFd ==
  /\ pt.pc = "fd"
  /\ IF conn = 0
     THEN pt' = [pc |-> "top", fd |-> 0, had_fd |-> FALSE] /\ UNCHANGED lost
     ELSE /\ pt' = [pt EXCEPT !.pc = "offer", !.fd = conn]
          /\ lost' = (pt.had_fd /\ (lost \/ pt.fd # conn))
  /\ UNCHANGED <<lib, dev, opts, started, kwin, events>>

Offer ==
  /\ pt.pc = "offer"
  /\ IF ~pt.had_fd \/ resend_formats
     THEN resend_formats' = FALSE /\ Goto("send")
     ELSE Goto("poll") /\ UNCHANGED resend_formats
  /\ UNCHANGED <<lib, dev, latency, mic_enabled, ui, started, kwin, lost, events>>

\* send_format does not wait for room and does not look back.
SendFormat ==
  /\ pt.pc = "send"
  /\ LET sent == conn = pt.fd /\ Len(up) < Room
     IN /\ up' = IF sent THEN Append(up, <<"FORMAT", [fmt |-> play.fmt, quantum |-> latency]>>) ELSE up
        /\ lost' = ~sent
  /\ pt' = [pt EXCEPT !.pc = "poll", !.had_fd = TRUE]
  /\ UNCHANGED <<conn, session, dev, opts, started, kwin, events>>

\* poll and recv: nothing, a hangup, or sound that KWin's capture sent, for a
\* stream that may be dead.
CaptureProcess == core = "live" /\ server /\ audio_fd # 0 /\ audio_fd = conn
Poll ==
  /\ pt.pc = "poll" /\ Goto("top")
  /\ \/ UNCHANGED play_rebuild
     \/ CaptureProcess /\ conn = pt.fd /\ play.dead /\ play_rebuild' = TRUE
  /\ UNCHANGED <<lib, play, callback, opts, started, kwin, lost, events>>

-----------------------------------------------------------------------------
(* The device and the user.                                                *)

\* A route change, a torn down fast track: the stream is dead.
Disconnect ==
  /\ play # NULL /\ ~play.dead /\ Event
  /\ play' = [play EXCEPT !.dead = TRUE] /\ callback' = TRUE
  /\ UNCHANGED <<lib, play_rebuild, opts, pt, started, kwin, lost>>

\* play_error_cb, on a thread of AAudio's.
\* Mutant: it writes to the log only.
PlayErrorLog ==
  /\ callback /\ callback' = FALSE
  /\ UNCHANGED <<lib, play, play_rebuild, opts, pt, started, kwin, lost, events>>
PlayErrorCb ==
  /\ callback /\ callback' = FALSE /\ play_rebuild' = TRUE
  /\ UNCHANGED <<lib, play, opts, pt, started, kwin, lost, events>>

\* audio_set_latency: the preset, then the flag.
SetLatency ==
  /\ ~ui /\ Event
  /\ \E q \in Preset : latency' = q
  /\ ui' = TRUE
  /\ UNCHANGED <<lib, dev, resend_formats, mic_enabled, pt, started, kwin, lost>>

SetResend ==
  /\ ui /\ ui' = FALSE /\ resend_formats' = TRUE
  /\ UNCHANGED <<lib, dev, latency, mic_enabled, pt, started, kwin, lost, events>>

SetMicEnabled ==
  /\ Event
  /\ mic_enabled' = ~mic_enabled
  /\ UNCHANGED <<lib, dev, resend_formats, latency, ui, pt, started, kwin, lost>>

-----------------------------------------------------------------------------
(* Capture thread.                                                         *)

MicOff(fd) == ~mic_enabled \/ fd = 0

\* Off, or started and read: samples that go unless the socket is full, or none.
CaptureLoop ==
  /\ started' = ~MicOff(conn)
  /\ \/ started' /\ Len(up) < Room /\ up' = Append(up, <<"PCM">>)
     \/ UNCHANGED up
  /\ UNCHANGED <<conn, session, dev, opts, pt, kwin, lost, events>>

-----------------------------------------------------------------------------
(* KWin: main thread and PipeWire loop.                                     *)

\* anland_audio_set_fd, once the producer has picked up the session's sockets.
SetFd ==
  /\ conn # 0 /\ audio_fd = 0
  /\ audio_fd' = conn
  /\ UNCHANGED <<lib, dev, opts, pt, started, cur, core, node, server, lost, events>>

\* The socket hung up, or the producer lets go of the consumer.
Detach ==
  /\ audio_fd # 0 /\ audio_fd # conn
  /\ audio_fd' = 0
  /\ UNCHANGED <<lib, dev, opts, pt, started, cur, core, node, server, lost, events>>

\* on_audio_readable; apply_format records the format before it looks at
\* PipeWire, and a quantum of 0 does not reach the node.
\* Mutant: an announcement that finds PipeWire away is dropped.
RecordedIfLive(f) == IF core \in {"live", "broken"} THEN f ELSE cur
Recorded(f) == f

AudioReadable ==
  /\ audio_fd # 0 /\ audio_fd = conn /\ up # <<>> /\ up' = Tail(up)
  /\ IF Head(up)[1] = "PCM" \/ Head(up)[2] = cur THEN UNCHANGED <<cur, node>>
     ELSE LET f == Head(up)[2] IN
          /\ cur' = Recorded(f)
          /\ node' = IF node = NULL \/ core \notin {"live", "broken"} THEN node
                     ELSE [fmt |-> f.fmt, quantum |-> IF f.quantum = "default" THEN node.quantum
                                                      ELSE f.quantum]
  /\ UNCHANGED <<conn, session, dev, opts, pt, started, audio_fd, core, server, lost, events>>

CoreError ==
  /\ core = "broken" /\ core' = "dead"
  /\ UNCHANGED <<lib, dev, opts, pt, started, audio_fd, cur, node, server, lost, events>>

\* on_reconnect_timer: teardown_pw, build_pw; armed while there is no core.
ReconnectTimer ==
  /\ core \in {"dead", "none"} /\ (server \/ core = "dead")
  /\ core' = IF server THEN "live" ELSE "none"
  /\ node' = IF server THEN cur ELSE NULL
  /\ UNCHANGED <<lib, dev, opts, pt, started, audio_fd, cur, server, lost, events>>

ServerGoes ==
  /\ server /\ Event
  /\ server' = FALSE /\ core' = IF core = "live" THEN "broken" ELSE core
  /\ UNCHANGED <<lib, dev, opts, pt, started, audio_fd, cur, node, lost>>

ServerComes ==
  /\ ~server /\ server' = TRUE
  /\ UNCHANGED <<lib, dev, opts, pt, started, audio_fd, cur, core, node, lost, events>>

-----------------------------------------------------------------------------
PlayStep    == Top \/ CurrentFd \/ Offer \/ SendFormat \/ Poll
KwinStep    == SetFd \/ Detach \/ CoreError \/ ReconnectTimer

Next ==
  \/ Connect \/ EnterFallback
  \/ PlayStep \/ Reopen \/ ReopenFails \/ CaptureLoop
  \/ Disconnect \/ PlayErrorCb \/ SetLatency \/ SetResend \/ SetMicEnabled
  \/ KwinStep \/ AudioReadable
  \/ ServerGoes \/ ServerComes

Spec == Init /\ [][Next]_vars

\* Threads run, a device opens sooner or later, and a socket is read.  PipeWire
\* may stay away, and the user and the sessions owe nothing.
Fairness ==
  /\ WF_vars(PlayStep) /\ SF_vars(Reopen) /\ WF_vars(CaptureLoop)
  /\ WF_vars(PlayErrorCb) /\ WF_vars(SetResend)
  /\ WF_vars(SetFd) /\ WF_vars(Detach) /\ WF_vars(CoreError) /\ WF_vars(ReconnectTimer)
  /\ WF_vars(AudioReadable)

FairSpec == Spec /\ Fairness

-----------------------------------------------------------------------------
(* Properties.                                                             *)

Together == conn # 0 /\ audio_fd = conn
Agree ==
  /\ play # NULL /\ cur = [fmt |-> play.fmt, quantum |-> latency]
  /\ core = "live" => node.fmt = play.fmt

\* Presets and devices change at any moment, also while an announcement is
\* made or PipeWire is away: a session that lasts ends with KWin's sink in the
\* phone's format and KWin's record of the preset right, unless the phone was
\* wrong about having announced them.
FormatsAgree == <>[](Together /\ ~lost) => <>[]Agree

\* native_audio.c:54-58: a dead output stream is replaced, session or not.
PlaybackRecovers == play = NULL \/ play.dead ~> play # NULL /\ ~play.dead

\* The microphone does not stay open once the user or the session ended it.
MicObeys == started /\ (~mic_enabled \/ conn = 0) ~> ~started \/ (mic_enabled /\ conn # 0)

\* The phone's two streams come to be what the user and the session ask for
\* (native_audio.c, play_thread_func and cap_thread_func).
StreamsFollow == PlaybackRecovers /\ MicObeys

-----------------------------------------------------------------------------
(* What a comment says, and the code does not do.  Not among the runs. *)

\* native_audio.c:201, "once when the socket comes up (just left fallback), and
\* again whenever a preset changes": every session that lasts is announced to.
FormatsAnnounced == <>[]Together => <>[]Agree
=============================================================================
