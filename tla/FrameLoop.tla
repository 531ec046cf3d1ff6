------------------------------ MODULE FrameLoop ------------------------------
(***************************************************************************)
(* The frame loop between the render thread of the Android consumer         *)
(* (native_consumer.c, select_dmabuf, refresh_done) and the KWin backend    *)
(* (anland_backend.cpp, anland_output.cpp, anland_egl_backend.cpp,          *)
(* trigger_refresh): who may write a buffer when, which damage each buffer  *)
(* still lacks, and how the loop stops and starts with the session.         *)
(*                                                                         *)
(* How a session comes about is Session.tla's, and the consumer's other     *)
(* threads are ConsumerLib's: here a set of channels is deposited, picked   *)
(* up by the producer, in use, or gone.                                     *)
(***************************************************************************)
EXTENDS Naturals

CONSTANTS
  BufCount,   \* the window's buffers
  Region,     \* parts of the output
  NoBuffer,   \* no buffer
  MaxDamage,  \* bound: changes of the scene
  MaxFaults   \* bound: compositors killed, frames or buffers that come too late

Buf == 0..(BufCount - 1)

ASSUME FrameLoopAssumption ==
  /\ BufCount \in Nat /\ BufCount > 1 /\ NoBuffer \notin Buf
  /\ Region # {} /\ MaxDamage \in Nat /\ MaxFaults \in Nat

VARIABLES
  \* consumer
  c_pc,             \* render_thread_func: "dequeue", "select", "wait"
  anb,              \* the buffer it dequeued
  shown,            \* the buffer queued last
  fallback,         \* display_ctx.fallback
  buffer_pending,
  \* the set of channels
  link,             \* "deposited", "picked_up", "up", "gone"
  shm_index,        \* *shm_ptr
  buf_ready,        \* the eventfd's count
  fence,            \* messages on the fence channel
  \* producer
  m_inFallback, m_consumerReady, m_awaitingPresent,
  m_frame,          \* a frame is pending in the render loop
  m_inhibited,
  scheduled,        \* a repaint is scheduled in the render loop
  needsRepaint,     \* of the layer
  m_currentIndex,   \* the buffer painted now, or NoBuffer
  m_accumDamage,    \* [Buf -> what the buffer must be repainted]
  m_damageFlags,    \* buffers not painted since the last damage
  damage,           \* of the scene, since the last frame
  \* what buffers hold: the regions that differ from the scene
  stale,
  started,          \* history: a buffer-ready was seen in this session
  damages, faults

channels == <<link, shm_index, buf_ready, fence>>
app      == <<c_pc, anb, shown, fallback, buffer_pending>>
loop     == <<m_inFallback, m_consumerReady, m_awaitingPresent, m_frame, m_inhibited,
              scheduled, needsRepaint, started>>
layer    == <<m_currentIndex, m_accumDamage, m_damageFlags>>
scene    == <<damage, stale, damages>>
loopVars == <<channels, app, loop, layer, scene, faults>>

LoopInit ==
  /\ c_pc = "dequeue" /\ anb = NoBuffer /\ shown \in Buf
  /\ fallback = TRUE /\ buffer_pending = FALSE
  /\ link = "deposited" /\ shm_index = 0 /\ buf_ready = 0 /\ fence = 0
  /\ m_inFallback = TRUE /\ m_consumerReady = FALSE /\ m_awaitingPresent = FALSE
  /\ m_frame = FALSE /\ m_inhibited = TRUE
  /\ scheduled = FALSE /\ needsRepaint = FALSE /\ started = FALSE
  /\ m_currentIndex = NoBuffer
  /\ m_accumDamage = [b \in Buf |-> {}] /\ m_damageFlags = {}
  /\ damage = {} /\ stale = [b \in Buf |-> Region]
  /\ damages = 0 /\ faults = 0

Fault == faults < MaxFaults /\ faults' = faults + 1

-----------------------------------------------------------------------------
(* The consumer's render thread.                                           *)

\* dequeueBuffer: any buffer but the one the display reads.
Dequeue ==
  /\ c_pc = "dequeue"
  /\ anb' \in Buf \ {shown}
  /\ c_pc' = "select"
  /\ UNCHANGED <<shown, fallback, buffer_pending, channels, loop, layer, scene, faults>>

\* The index page starts at 0, and a new set replaces the old one.
NewChannels ==
  /\ link' = "deposited" /\ buf_ready' = 0 /\ fence' = 0
  /\ shm_index' = 0

\* try_exit_fallback finds nothing: the buffer goes back as it is.
SelectInFallback ==
  /\ c_pc = "select" /\ fallback /\ link = "deposited"
  /\ c_pc' = "wait"
  /\ UNCHANGED <<anb, shown, fallback, buffer_pending, channels, loop, layer, scene, faults>>

\* The buffers cannot be pushed: push_dmabufs_internal enters fallback again.
\* Mutant: without a new set.
RebuildNone == UNCHANGED channels
Rebuild == NewChannels

SelectPushFails ==
  /\ c_pc = "select" /\ fallback /\ link = "gone"
  /\ c_pc' = "wait"
  /\ Rebuild
  /\ UNCHANGED <<anb, shown, fallback, buffer_pending, loop, layer, scene, faults>>

Select ==
  /\ c_pc = "select"
  /\ fallback => link = "picked_up"
  /\ fallback' = FALSE
  /\ shm_index' = anb
  /\ buf_ready' = buf_ready + 1
  /\ buffer_pending' = TRUE
  /\ c_pc' = "wait"
  /\ UNCHANGED <<anb, shown, link, fence, loop, layer, scene, faults>>

QueueBuffer == c_pc' = "dequeue" /\ shown' = anb /\ anb' = NoBuffer

LoopRefreshDone ==
  /\ c_pc = "wait" /\ buffer_pending /\ fence > 0
  /\ fence' = fence - 1 /\ buffer_pending' = FALSE
  /\ QueueBuffer
  /\ UNCHANGED <<fallback, link, shm_index, buf_ready, loop, layer, scene, faults>>

NothingPending ==
  /\ c_pc = "wait" /\ ~buffer_pending
  /\ QueueBuffer
  /\ UNCHANGED <<fallback, buffer_pending, channels, loop, layer, scene, faults>>

\* EOF on the fence channel, or five seconds.
EnterFallback ==
  /\ c_pc = "wait" /\ buffer_pending /\ fence = 0
  /\ fallback' = TRUE /\ buffer_pending' = FALSE
  /\ NewChannels
  /\ QueueBuffer
  /\ \/ link = "gone" /\ UNCHANGED faults
     \/ link # "gone" /\ Fault
  /\ UNCHANGED <<loop, layer, scene>>

ConsumerStep ==
  \/ Dequeue \/ SelectInFallback \/ SelectPushFails \/ Select
  \/ LoopRefreshDone \/ NothingPending
  \/ link = "gone" /\ EnterFallback

-----------------------------------------------------------------------------
(* The producer's main thread: sessions.                                   *)

\* Between two events.
Idle == m_currentIndex = NoBuffer

\* try_exit_fallback, first half.
PickupFds ==
  /\ Idle /\ m_inFallback /\ link = "deposited"
  /\ link' = "picked_up"
  /\ UNCHANGED <<shm_index, buf_ready, fence, app, loop, layer, scene, faults>>

\* The buffers did not come in 100 ms.
ReceiveTimeout ==
  /\ link = "picked_up" /\ Fault
  /\ link' = "gone"
  /\ UNCHANGED <<shm_index, buf_ready, fence, app, loop, layer, scene>>

\* The rest of onReconnectTimer: importBuffers, resumeRendering.
Reconnect ==
  /\ Idle /\ m_inFallback /\ link = "picked_up" /\ ~fallback
  /\ link' = "up"
  /\ m_inFallback' = FALSE /\ m_consumerReady' = FALSE
  /\ m_accumDamage' = [b \in Buf |-> Region] /\ m_damageFlags' = Buf
  /\ m_inhibited' = FALSE
  /\ needsRepaint' = TRUE /\ scheduled' = TRUE
  /\ started' = FALSE
  /\ UNCHANGED <<shm_index, buf_ready, fence, app, m_awaitingPresent, m_frame, m_currentIndex,
                 scene, faults>>

\* A frame that awaits its buffer-ready is dropped.
FrameLeft == m_frame /\ ~m_awaitingPresent

\* AnlandBackend::enterFallback, AnlandOutput::stopRendering.
StopRendering ==
  /\ m_awaitingPresent' = FALSE
  /\ m_frame' = FrameLeft
  /\ m_inhibited' = TRUE
  /\ m_consumerReady' = FALSE /\ m_inFallback' = TRUE
  /\ m_accumDamage' = [b \in Buf |-> {}] /\ m_damageFlags' = {}

\* poll_input_event finds the consumer's end closed.
ProducerFallback ==
  /\ Idle /\ ~m_inFallback /\ link # "up"
  /\ StopRendering
  /\ UNCHANGED <<channels, app, scheduled, needsRepaint, started, m_currentIndex, scene, faults>>

\* The compositor is killed, and another one comes.
ProducerRestart ==
  /\ Fault
  /\ link' = IF link \in {"picked_up", "up"} THEN "gone" ELSE link
  /\ StopRendering
  /\ scheduled' = FALSE /\ needsRepaint' = FALSE /\ m_currentIndex' = NoBuffer
  /\ damage' = {} /\ stale' = [b \in Buf |-> Region]
  /\ UNCHANGED <<shm_index, buf_ready, fence, app, started, damages>>

-----------------------------------------------------------------------------
(* The producer's main thread: frames.                                     *)

\* A window changes.
SceneDamage(r) ==
  /\ Idle /\ damages < MaxDamage /\ damages' = damages + 1
  /\ damage' = damage \cup {r}
  /\ stale' = [b \in Buf |-> stale[b] \cup {r}]
  /\ scheduled' = TRUE
  /\ UNCHANGED <<channels, app, m_inFallback, m_consumerReady, m_awaitingPresent, m_frame,
                 m_inhibited, needsRepaint, started, layer, faults>>

\* onBufferReady and onConsumerReady.
OnBufferReady ==
  /\ Idle /\ ~m_inFallback /\ link = "up" /\ buf_ready > 0
  /\ buf_ready' = 0
  /\ m_consumerReady' = TRUE /\ started' = TRUE
  /\ m_awaitingPresent' = FALSE
  /\ m_frame' = (m_frame /\ ~m_awaitingPresent)
  /\ scheduled' = TRUE
  /\ UNCHANGED <<link, shm_index, fence, app, m_inFallback, m_inhibited, needsRepaint, layer,
                 scene, faults>>

\* The render loop composites when a repaint is scheduled and no frame is
\* pending; what the layer needs not repaint is presented as it is.
Composites == Idle /\ scheduled /\ ~m_inhibited /\ ~m_frame
Paints     == needsRepaint \/ damage # {}

\* doBeginFrame.  A set the consumer gave up shows the index it had.
DoBeginFrame ==
  /\ Composites /\ Paints
  /\ scheduled' = FALSE /\ needsRepaint' = FALSE
  /\ IF link = "up" THEN m_currentIndex' = shm_index ELSE m_currentIndex' \in Buf
  /\ UNCHANGED <<channels, app, m_inFallback, m_consumerReady, m_awaitingPresent, m_frame,
                 m_inhibited, started, m_accumDamage, m_damageFlags, scene, faults>>

\* present, notifyFramePresented, trigger_refresh: one message a frame.
HandsOver == m_consumerReady
\* Mutant: a frame is complete once it is handed over.
AwaitsNever == FALSE
Awaits == HandsOver

OutputPresent ==
  /\ m_consumerReady' = FALSE
  /\ fence' = IF HandsOver /\ link = "up" THEN fence + 1 ELSE fence
  /\ m_awaitingPresent' = Awaits
  /\ m_frame' = Awaits
  /\ UNCHANGED <<link, shm_index, buf_ready, m_inFallback, m_inhibited, started>>

\* Mutant: the frame's damage is owed to the buffers painted before.
OwedToOthers(b) == m_accumDamage[b]
Owed(b) == m_accumDamage[b] \cup damage
Flags == IF damage # {} THEN Buf ELSE m_damageFlags

DoEndFrame ==
  LET b == m_currentIndex
      flags == Flags \ {b} IN
  /\ b # NoBuffer
  /\ stale' = [stale EXCEPT ![b] = @ \ (m_accumDamage[b] \cup damage)]
  /\ m_accumDamage' = [x \in Buf |-> IF x = b THEN {} ELSE Owed(x)]
  /\ m_damageFlags' = flags
  /\ damage' = {}
  /\ needsRepaint' = (flags # {}) /\ scheduled' = (flags # {})
  /\ m_currentIndex' = NoBuffer
  /\ OutputPresent
  /\ UNCHANGED <<app, damages, faults>>

PresentUnpainted ==
  /\ Composites /\ ~Paints
  /\ scheduled' = FALSE
  /\ OutputPresent
  /\ UNCHANGED <<app, needsRepaint, layer, scene, faults>>

ProducerStep ==
  \/ PickupFds \/ Reconnect \/ ProducerFallback
  \/ OnBufferReady \/ DoBeginFrame \/ DoEndFrame \/ PresentUnpainted

LoopNext ==
  \/ ConsumerStep \/ EnterFallback
  \/ ProducerStep \/ ReceiveTimeout \/ ProducerRestart
  \/ \E r \in Region : SceneDamage(r)

LoopSpec == LoopInit /\ [][LoopNext]_loopVars

\* The render thread and the compositor's event loop run, and the loop serves
\* what is readable however often it composites in between.
LoopFairSpec == LoopSpec /\ WF_loopVars(ConsumerStep) /\ WF_loopVars(ProducerStep)
                         /\ SF_loopVars(OnBufferReady) /\ SF_loopVars(ProducerFallback)

-----------------------------------------------------------------------------
(* Properties                                                              *)

\* The lockstep of trigger_refresh's comment: once the consumer has asked for
\* a frame in this session, the compositor paints nothing but the buffer the
\* consumer dequeued for that frame and waits for, never one it has queued.
PaintsSelected ==
  m_currentIndex # NoBuffer /\ link = "up" /\ started => c_pc = "wait" /\ m_currentIndex = anb

\* "In lockstep the consumer always drains, so the one-message buffer never
\* fills": a message is the answer to the frame the render thread waits for.
AnswersSelected ==
  fence > 0 => fence = 1 /\ link \in {"up", "gone"} /\ c_pc = "wait" /\ buffer_pending

\* The two sides never drift apart by a frame: what is painted, and what is answered, is
\* the frame that the render thread waits for (trigger_refresh, get_selected_idx).
Lockstep == PaintsSelected /\ AnswersSelected

\* m_accumDamage and m_damageFlags: whichever buffer the consumer picks, and
\* whether or not it was painted for this frame, what is handed over shows the
\* scene as it is, and not as it was when that buffer was on display last.
HandedFresh == [][fence' > fence => stale'[shm_index] = {}]_loopVars

\* The loop does not stop, on an idle desktop either, and starts again after
\* every session lost: frames are answered forever.
LockstepRuns == []<><<LoopRefreshDone>>_loopVars

\* The last change of the scene reaches the display and stays there.
ScreenFresh == <>[](stale[shown] = {})

\* Frames and changes alike get through, on an idle desktop and after a session lost
\* (completeFrame, onBufferReady, doEndFrame).
LoopLives == LockstepRuns /\ ScreenFresh
=============================================================================
