----------------------------- MODULE FrameProofs -----------------------------
(***************************************************************************)
(* Frames and the buffers they are painted into, in both compositors.         *)
(*                                                                         *)
(* FrameLoop: the lockstep of render thread and KWin, and the damage a buffer *)
(* still lacks, for any number of buffers, regions, changes and faults.       *)
(*                                                                         *)
(* GnomeBackend: whatever the screens, the sets of channels and the mishaps,  *)
(* the stage's view can be painted, and an active consumer is one whose       *)
(* buffers fit it.  The helpers of meta-backend-anland.c are functions of the *)
(* backend, so the invariant is one of the backend, Fit(x), and each helper   *)
(* has a lemma.                                                            *)
(***************************************************************************)
EXTENDS FrameLoop, GnomeBackend, TLAPS

-----------------------------------------------------------------------------
(* FrameLoop.                                                              *)

LoopTypeOK ==
  /\ c_pc \in {"dequeue", "select", "wait"}
  /\ anb \in Buf \cup {NoBuffer} /\ shown \in Buf /\ shm_index \in Buf
  /\ fallback \in BOOLEAN /\ buffer_pending \in BOOLEAN
  /\ link \in {"deposited", "picked_up", "up", "gone"}
  /\ buf_ready \in Nat /\ fence \in Nat
  /\ m_inFallback \in BOOLEAN /\ m_consumerReady \in BOOLEAN /\ m_awaitingPresent \in BOOLEAN
  /\ m_frame \in BOOLEAN /\ m_inhibited \in BOOLEAN /\ scheduled \in BOOLEAN
  /\ needsRepaint \in BOOLEAN /\ started \in BOOLEAN
  /\ m_currentIndex \in Buf \cup {NoBuffer}
  /\ m_accumDamage \in [Buf -> SUBSET Region] /\ m_damageFlags \subseteq Buf
  /\ damage \subseteq Region /\ stale \in [Buf -> SUBSET Region]
  /\ damages \in Nat /\ faults \in Nat

\* The consumer: what it dequeued it holds until it queues it, and it waits for
\* an answer to what it selected.
ConsumerInv ==
  /\ c_pc # "dequeue" => anb \in Buf
  /\ buffer_pending => c_pc = "wait" /\ shm_index = anb /\ ~fallback
  /\ c_pc = "wait" /\ ~fallback => buffer_pending

\* A frame that the consumer waits for is in one place: its eventfd, the
\* compositor, or the fence channel.
Asked == IF c_pc = "wait" THEN 1 ELSE 0
HeldReady  == IF m_consumerReady THEN 1 ELSE 0

LinkInv ==
  /\ link = "deposited" => fallback /\ buf_ready = 0 /\ fence = 0
  /\ link = "picked_up" => /\ fence = 0
                           /\ fallback => buf_ready = 0
                           /\ ~fallback => c_pc = "wait" /\ buf_ready = 1
  /\ link = "up" => ~fallback /\ ~m_inFallback /\ buf_ready + HeldReady + fence = Asked
  /\ link = "gone" /\ fence > 0 => fence = 1 /\ c_pc = "wait" /\ buffer_pending

\* The compositor: between the first request of a session and the next answer
\* it either has the request or waits for another, and paints only with one.
FrameInv ==
  /\ m_frame = m_awaitingPresent
  /\ m_consumerReady => started /\ ~m_inFallback
  /\ m_currentIndex # NoBuffer => ~m_frame
  /\ link = "up" /\ started => m_frame \/ m_consumerReady
  /\ link = "up" /\ started /\ m_currentIndex # NoBuffer => m_currentIndex = shm_index

\* What a buffer lacks, the layer owes it; and it repaints until it owes nothing.
DamageInv ==
  ~m_inFallback =>
    /\ \A i \in Buf : stale[i] \subseteq m_accumDamage[i] \cup damage
    /\ \A i \in Buf : m_accumDamage[i] # {} => i \in m_damageFlags
    /\ m_currentIndex = NoBuffer /\ m_damageFlags # {} => needsRepaint

LoopInv == LoopTypeOK /\ ConsumerInv /\ LinkInv /\ FrameInv /\ DamageInv

-----------------------------------------------------------------------------
(* The steps, by what they leave alone.                                     *)

LEMMA BufFacts == 0 \in Buf /\ NoBuffer \notin Buf /\ \A i \in Buf : i # NoBuffer
  BY FrameLoopAssumption DEF Buf

LEMMA LoopInitInv == LoopInit => LoopInv
  <1> SUFFICES ASSUME LoopInit PROVE LoopInv
    OBVIOUS
  <1>1. LoopTypeOK
    BY BufFacts DEF LoopInit, LoopTypeOK
  <1>2. ConsumerInv /\ LinkInv /\ FrameInv /\ DamageInv
    BY DEF LoopInit, ConsumerInv, LinkInv, FrameInv, DamageInv
  <1> QED
    BY <1>1, <1>2 DEF LoopInv

\* The render thread touches neither the compositor nor the scene.
LEMMA ConsumerSteps ==
  ASSUME LoopInv, ConsumerStep \/ EnterFallback
  PROVE  LoopInv'
  <1> USE DEF LoopInv
  <1>1. /\ UNCHANGED <<loop, layer, scene>>
        /\ link' \in {link, "deposited"} /\ DamageInv'
    BY DEF ConsumerStep, Dequeue, SelectInFallback, SelectPushFails, Rebuild, NewChannels, Select,
           LoopRefreshDone, NothingPending, EnterFallback, loop, layer, scene, channels, DamageInv
  <1>2. CASE Dequeue
    <2>1. LoopTypeOK' /\ ConsumerInv'
      BY <1>1, <1>2, BufFacts DEF Dequeue, LoopTypeOK, ConsumerInv, channels, loop, layer, scene
    <2>2. LinkInv' /\ FrameInv'
      BY <1>1, <1>2 DEF Dequeue, LinkInv, FrameInv, Asked, HeldReady, channels, loop, layer, scene
    <2> QED
      BY <1>1, <2>1, <2>2
  <1>3. CASE SelectInFallback
    <2>1. LoopTypeOK' /\ ConsumerInv'
      BY <1>1, <1>3 DEF SelectInFallback, LoopTypeOK, ConsumerInv, channels, loop, layer, scene
    <2>2. LinkInv' /\ FrameInv'
      BY <1>1, <1>3 DEF SelectInFallback, LinkInv, FrameInv, Asked, HeldReady, channels, loop, layer, scene
    <2> QED
      BY <1>1, <2>1, <2>2
  <1>4. CASE SelectPushFails
    <2>1. LoopTypeOK' /\ ConsumerInv'
      BY <1>1, <1>4, BufFacts DEF SelectPushFails, Rebuild, NewChannels, LoopTypeOK, ConsumerInv, loop, layer, scene
    <2>2. LinkInv' /\ FrameInv'
      BY <1>1, <1>4 DEF SelectPushFails, Rebuild, NewChannels, LinkInv, FrameInv, loop, layer, scene
    <2> QED
      BY <1>1, <2>1, <2>2
  <1>5. CASE Select
    <2>0. buf_ready' \in Nat
      BY <1>5 DEF Select, LoopTypeOK
    <2>1. LoopTypeOK' /\ ConsumerInv'
      BY <1>1, <1>5, <2>0 DEF Select, LoopTypeOK, ConsumerInv, loop, layer, scene
    <2>2. LinkInv'
      BY <1>1, <1>5 DEF Select, LoopTypeOK, ConsumerInv, LinkInv, Asked, HeldReady, loop
    <2>3. FrameInv'
      BY <1>1, <1>5 DEF Select, LoopTypeOK, FrameInv, LinkInv, Asked, HeldReady, loop, layer
    <2> QED
      BY <1>1, <2>1, <2>2, <2>3
  <1>6. CASE LoopRefreshDone
    <2>0. fence' \in Nat
      BY <1>6 DEF LoopRefreshDone, LoopTypeOK
    <2>1. LoopTypeOK' /\ ConsumerInv'
      BY <1>1, <1>6, <2>0, BufFacts DEF LoopRefreshDone, QueueBuffer, LoopTypeOK, ConsumerInv, loop, layer, scene
    <2>2. LinkInv'
      BY <1>1, <1>6 DEF LoopRefreshDone, QueueBuffer, LoopTypeOK, ConsumerInv, LinkInv, Asked, HeldReady, loop
    <2>3. FrameInv'
      BY <1>1, <1>6 DEF LoopRefreshDone, QueueBuffer, FrameInv, loop, layer
    <2> QED
      BY <1>1, <2>1, <2>2, <2>3
  <1>7. CASE NothingPending
    <2>1. LoopTypeOK' /\ ConsumerInv'
      BY <1>1, <1>7, BufFacts DEF NothingPending, QueueBuffer, LoopTypeOK, ConsumerInv, channels, loop, layer, scene
    <2>2. LinkInv'
      BY <1>1, <1>7 DEF NothingPending, QueueBuffer, LoopTypeOK, ConsumerInv, LinkInv, Asked, HeldReady, channels, loop
    <2>3. FrameInv'
      BY <1>1, <1>7 DEF NothingPending, QueueBuffer, FrameInv, channels, loop, layer
    <2> QED
      BY <1>1, <2>1, <2>2, <2>3
  <1>8. CASE EnterFallback
    <2>1. LoopTypeOK'
      <3>1. faults' \in Nat
        BY <1>8 DEF EnterFallback, Fault, LoopTypeOK
      <3> QED
        BY <1>1, <1>8, <3>1, BufFacts DEF EnterFallback, QueueBuffer, NewChannels, LoopTypeOK, ConsumerInv, loop, layer, scene
    <2>2. ConsumerInv' /\ LinkInv' /\ FrameInv'
      BY <1>1, <1>8 DEF EnterFallback, QueueBuffer, NewChannels, ConsumerInv, LinkInv, FrameInv, loop, layer
    <2> QED
      BY <1>1, <2>1, <2>2
  <1> QED
    BY <1>2, <1>3, <1>4, <1>5, <1>6, <1>7, <1>8 DEF ConsumerStep

\* A session comes and goes.
LEMMA SessionSteps ==
  ASSUME LoopInv, \/ PickupFds \/ ReceiveTimeout \/ Reconnect \/ ProducerFallback
              \/ ProducerRestart
  PROVE  LoopInv'
  <1> USE DEF LoopInv
  <1>1. CASE PickupFds
    <2>1. LoopTypeOK' /\ ConsumerInv'
      BY <1>1 DEF PickupFds, LoopTypeOK, ConsumerInv, app, loop, layer, scene
    <2>2. LinkInv'
      BY <1>1 DEF PickupFds, ConsumerInv, LinkInv, Asked, HeldReady, app, loop
    <2>3. FrameInv' /\ DamageInv'
      BY <1>1 DEF PickupFds, FrameInv, DamageInv, app, loop, layer, scene
    <2> QED
      BY <2>1, <2>2, <2>3
  <1>2. CASE ReceiveTimeout
    <2>1. LoopTypeOK'
      <3>1. faults' \in Nat
        BY <1>2 DEF ReceiveTimeout, Fault, LoopTypeOK
      <3> QED
        BY <1>2, <3>1 DEF ReceiveTimeout, LoopTypeOK, app, loop, layer, scene
    <2>2. ConsumerInv' /\ LinkInv' /\ FrameInv' /\ DamageInv'
      BY <1>2 DEF ReceiveTimeout, ConsumerInv, LinkInv, FrameInv, DamageInv, Asked, HeldReady, app, loop,
                  layer, scene
    <2> QED
      BY <2>1, <2>2
  <1>3. CASE Reconnect
    <2>1. LoopTypeOK' /\ ConsumerInv'
      BY <1>3 DEF Reconnect, LoopTypeOK, ConsumerInv, app, scene
    <2>2. LinkInv'
      BY <1>3 DEF Reconnect, LoopTypeOK, ConsumerInv, LinkInv, Asked, HeldReady, app
    <2>3. FrameInv'
      BY <1>3 DEF Reconnect, Idle, FrameInv, app
    <2>4. DamageInv'
      BY <1>3 DEF Reconnect, LoopTypeOK, DamageInv, scene
    <2> QED
      BY <2>1, <2>2, <2>3, <2>4
  <1>4. CASE ProducerFallback
    <2>1. LoopTypeOK' /\ ConsumerInv'
      BY <1>4 DEF ProducerFallback, StopRendering, FrameLeft, LoopTypeOK, ConsumerInv, app, channels, scene
    <2>2. LinkInv' /\ DamageInv'
      BY <1>4 DEF ProducerFallback, StopRendering, LinkInv, ConsumerInv, Asked, HeldReady, DamageInv, app,
                  channels, scene
    <2>3. FrameInv'
      BY <1>4 DEF ProducerFallback, StopRendering, FrameLeft, Idle, LoopTypeOK, FrameInv, app, channels
    <2> QED
      BY <2>1, <2>2, <2>3
  <1>5. CASE ProducerRestart
    <2>1. LoopTypeOK'
      <3>1. faults' \in Nat
        BY <1>5 DEF ProducerRestart, Fault, LoopTypeOK
      <3> QED
        BY <1>5, <3>1 DEF ProducerRestart, StopRendering, FrameLeft, LoopTypeOK, app
    <2>2. ConsumerInv' /\ DamageInv'
      BY <1>5 DEF ProducerRestart, StopRendering, ConsumerInv, DamageInv, app
    <2>3. LinkInv'
      BY <1>5 DEF ProducerRestart, LoopTypeOK, ConsumerInv, LinkInv, Asked, HeldReady, app
    <2>4. FrameInv'
      BY <1>5 DEF ProducerRestart, StopRendering, FrameLeft, LoopTypeOK, FrameInv, app
    <2> QED
      BY <2>1, <2>2, <2>3, <2>4
  <1> QED
    BY <1>1, <1>2, <1>3, <1>4, <1>5

\* Frames: the scene changes, a request is read, the layer is painted.
LEMMA FrameSteps ==
  ASSUME LoopInv, \/ \E r \in Region : SceneDamage(r)
              \/ OnBufferReady \/ DoBeginFrame
  PROVE  LoopInv'
  <1> USE DEF LoopInv
  <1>1. CASE \E r \in Region : SceneDamage(r)
    <2>1. PICK r \in Region : SceneDamage(r)
      BY <1>1
    <2>2. LoopTypeOK'
      <3>1. damages' \in Nat
        BY <2>1 DEF SceneDamage, LoopTypeOK
      <3> QED
        BY <2>1, <3>1 DEF SceneDamage, LoopTypeOK, app, channels, layer
    <2>3. ConsumerInv' /\ LinkInv' /\ FrameInv'
      BY <2>1 DEF SceneDamage, ConsumerInv, LinkInv, FrameInv, Asked, HeldReady, app, channels, layer
    <2>4. DamageInv'
      BY <2>1 DEF SceneDamage, LoopTypeOK, DamageInv, layer
    <2> QED
      BY <2>2, <2>3, <2>4
  <1>2. CASE OnBufferReady
    <2>1. LoopTypeOK' /\ ConsumerInv'
      BY <1>2 DEF OnBufferReady, LoopTypeOK, ConsumerInv, app, layer, scene
    <2>2. LinkInv'
      BY <1>2 DEF OnBufferReady, LoopTypeOK, LinkInv, ConsumerInv, Asked, HeldReady, app
    <2>3. FrameInv' /\ DamageInv'
      BY <1>2 DEF OnBufferReady, Idle, LoopTypeOK, FrameInv, DamageInv, app, layer, scene
    <2> QED
      BY <2>1, <2>2, <2>3
  <1>3. CASE DoBeginFrame
    <2>0. m_currentIndex' \in Buf
      BY <1>3 DEF DoBeginFrame, LoopTypeOK
    <2>1. LoopTypeOK' /\ ConsumerInv'
      <3>1. ConsumerInv'
        BY <1>3 DEF DoBeginFrame, ConsumerInv, app, channels
      <3>2. LoopTypeOK'
        <4>1. /\ scheduled' = FALSE /\ needsRepaint' = FALSE
              /\ UNCHANGED <<c_pc, anb, shown, fallback, buffer_pending>>
              /\ UNCHANGED <<link, shm_index, buf_ready, fence>>
              /\ UNCHANGED <<m_inFallback, m_consumerReady, m_awaitingPresent, m_frame>>
              /\ UNCHANGED <<m_inhibited, started, m_accumDamage, m_damageFlags>>
              /\ UNCHANGED <<damage, stale, damages, faults>>
          BY <1>3 DEF DoBeginFrame, app, channels, scene
        <4>2. m_currentIndex' \in Buf \cup {NoBuffer}
          BY <2>0
        <4>3. (c_pc \in {"dequeue", "select", "wait"})'
          BY <4>1, <4>2 DEF LoopTypeOK
        <4>4. (/\ anb \in Buf \cup {NoBuffer} /\ shown \in Buf /\ shm_index \in Buf
              /\ fallback \in BOOLEAN /\ buffer_pending \in BOOLEAN
              /\ link \in {"deposited", "picked_up", "up", "gone"})'
          BY <4>1, <4>2 DEF LoopTypeOK
        <4>5. (/\ buf_ready \in Nat /\ fence \in Nat
              /\ m_inFallback \in BOOLEAN /\ m_consumerReady \in BOOLEAN /\ m_awaitingPresent \in BOOLEAN
              /\ m_frame \in BOOLEAN /\ m_inhibited \in BOOLEAN /\ scheduled \in BOOLEAN)'
          BY <4>1, <4>2 DEF LoopTypeOK
        <4>6. (/\ needsRepaint \in BOOLEAN /\ started \in BOOLEAN
              /\ m_currentIndex \in Buf \cup {NoBuffer})'
          BY <4>1, <4>2 DEF LoopTypeOK
        <4>7. (/\ m_accumDamage \in [Buf -> SUBSET Region] /\ m_damageFlags \subseteq Buf)'
          BY <4>1, <4>2 DEF LoopTypeOK
        <4>8. (/\ damage \subseteq Region /\ stale \in [Buf -> SUBSET Region]
              /\ damages \in Nat /\ faults \in Nat)'
          BY <4>1, <4>2 DEF LoopTypeOK
        <4> QED
          BY <4>3, <4>4, <4>5, <4>6, <4>7, <4>8 DEF LoopTypeOK
      <3> QED
        BY <3>1, <3>2
    <2>2. LinkInv'
      BY <1>3 DEF DoBeginFrame, LinkInv, ConsumerInv, Asked, HeldReady, app, channels
    <2>3. FrameInv'
      BY <1>3 DEF DoBeginFrame, Composites, LoopTypeOK, FrameInv, app, channels
    <2>4. DamageInv'
      BY <1>3, BufFacts DEF DoBeginFrame, LoopTypeOK, DamageInv, app, channels, scene
    <2> QED
      BY <2>1, <2>2, <2>3, <2>4
  <1> QED
    BY <1>1, <1>2, <1>3

\* The compositor presents: with a request it answers it, and waits.
LEMMA PresentSteps ==
  ASSUME LoopInv, DoEndFrame \/ PresentUnpainted
  PROVE  /\ LoopInv'
         /\ fence' > fence => stale'[shm_index] = {}
  <1> USE DEF LoopInv
  <1>1. /\ OutputPresent /\ UNCHANGED <<app, damages, faults>>
        /\ ~m_frame /\ m_currentIndex' = NoBuffer
    BY DEF DoEndFrame, PresentUnpainted, Composites, Idle, FrameInv, layer, scene
  <1>2. ConsumerInv'
    BY <1>1 DEF OutputPresent, ConsumerInv, app
  <1>3. LinkInv'
    BY <1>1 DEF OutputPresent, HandsOver, LoopTypeOK, LinkInv, ConsumerInv, Asked, HeldReady, app
  <1>4. FrameInv'
    BY <1>1 DEF OutputPresent, HandsOver, Awaits, LoopTypeOK, FrameInv, app
  <1>5. fence' \in Nat /\ (fence' > fence => m_consumerReady /\ link = "up")
    BY <1>1 DEF OutputPresent, HandsOver, LoopTypeOK
  <1>6. CASE DoEndFrame
    <2> DEFINE i == m_currentIndex
               flags == Flags \ {i}
    <2>0. /\ i \in Buf /\ flags \subseteq Buf
          /\ stale' = [stale EXCEPT ![i] = @ \ (m_accumDamage[i] \cup damage)]
          /\ m_accumDamage' = [x \in Buf |-> IF x = i THEN {} ELSE Owed(x)]
          /\ m_damageFlags' = flags /\ damage' = {} /\ needsRepaint' = (flags # {})
          /\ scheduled' = (flags # {})
      BY <1>6 DEF DoEndFrame, Flags, LoopTypeOK
    <2>1. LoopTypeOK'
      BY <1>1, <1>5, <2>0 DEF OutputPresent, Awaits, HandsOver, Owed, LoopTypeOK, app
    <2>2. DamageInv'
      <3> SUFFICES ASSUME ~m_inFallback PROVE DamageInv'
        BY <1>1 DEF OutputPresent, DamageInv
      <3>1. ASSUME NEW x \in Buf
            PROVE  /\ stale'[x] \subseteq m_accumDamage'[x] \cup damage'
                   /\ m_accumDamage'[x] # {} => x \in m_damageFlags'
        BY <2>0 DEF Flags, Owed, LoopTypeOK, DamageInv
      <3> QED
        BY <2>0, <3>1 DEF DamageInv
    <2>3. ASSUME fence' > fence PROVE stale'[shm_index] = {}
      <3>1. i = shm_index /\ ~m_inFallback
        BY <1>5, <2>0, <2>3, BufFacts DEF FrameInv
      <3>2. stale[i] \subseteq m_accumDamage[i] \cup damage
        BY <2>0, <3>1 DEF DamageInv
      <3> QED
        BY <2>0, <3>1, <3>2 DEF LoopTypeOK
    <2> QED
      BY <1>2, <1>3, <1>4, <2>1, <2>2, <2>3
  <1>7. CASE PresentUnpainted
    <2>1. LoopTypeOK'
      BY <1>1, <1>5, <1>7 DEF PresentUnpainted, OutputPresent, Awaits, HandsOver, LoopTypeOK, app, layer, scene
    <2>2. DamageInv'
      BY <1>1, <1>7 DEF PresentUnpainted, OutputPresent, DamageInv, layer, scene
    <2>3. ASSUME fence' > fence PROVE stale'[shm_index] = {}
      <3>1. ~m_inFallback /\ m_currentIndex = NoBuffer /\ ~needsRepaint /\ damage = {}
        BY <1>5, <1>7, <2>3 DEF FrameInv, PresentUnpainted, Composites, Idle, Paints
      <3>2. m_accumDamage[shm_index] = {} /\ stale[shm_index] \subseteq m_accumDamage[shm_index]
        BY <3>1 DEF DamageInv, LoopTypeOK
      <3> QED
        BY <1>7, <3>2 DEF PresentUnpainted, scene
    <2> QED
      BY <1>2, <1>3, <1>4, <2>1, <2>2, <2>3
  <1> QED
    BY <1>6, <1>7

LEMMA LoopNextInv == LoopInv /\ [LoopNext]_loopVars => LoopInv'
  <1> SUFFICES ASSUME LoopInv, [LoopNext]_loopVars PROVE LoopInv'
    OBVIOUS
  <1>1. CASE UNCHANGED loopVars
    BY <1>1 DEF LoopInv, LoopTypeOK, ConsumerInv, LinkInv, FrameInv, DamageInv, Asked, HeldReady, loopVars, channels,
                app, loop, layer, scene
  <1> QED
    BY <1>1, ConsumerSteps, SessionSteps, FrameSteps, PresentSteps DEF LoopNext, ProducerStep

LEMMA LoopInvariance == LoopSpec => []LoopInv
  <1>1. LoopInit => LoopInv
    BY LoopInitInv
  <1>2. LoopInv /\ [LoopNext]_loopVars => LoopInv'
    BY LoopNextInv
  <1> QED
    BY <1>1, <1>2, PTL DEF LoopSpec

-----------------------------------------------------------------------------
\* Every variable keeps its type, for any number of buffers.
THEOREM FrameTypeCorrect == LoopSpec => []LoopTypeOK
  BY LoopInvariance, PTL DEF LoopInv

\* Once the consumer has asked for a frame in a session, the compositor paints
\* only the buffer that the render thread dequeued and waits for; and there is
\* never more than one answer, which is to that frame (trigger_refresh,
\* get_selected_idx): for any number of buffers, faults and changes.
THEOREM LockstepHolds == LoopSpec => []Lockstep
  <1>1. LoopInv => Lockstep
    <2> SUFFICES ASSUME LoopInv PROVE PaintsSelected /\ AnswersSelected
      BY DEF Lockstep
    <2>1. PaintsSelected
      BY DEF LoopInv, LoopTypeOK, ConsumerInv, LinkInv, FrameInv, Asked, HeldReady, PaintsSelected
    <2>2. AnswersSelected
      BY DEF LoopInv, LoopTypeOK, ConsumerInv, LinkInv, Asked, HeldReady, AnswersSelected
    <2> QED
      BY <2>1, <2>2
  <1> QED
    BY <1>1, LoopInvariance, PTL

\* Whichever buffer the consumer picks, and whether or not it was painted for
\* this frame, it shows the scene as it is when it is handed over
\* (m_accumDamage, m_damageFlags).
THEOREM FramesAreFresh == LoopSpec => HandedFresh
  <1>1. LoopInv /\ [LoopNext]_loopVars => [fence' > fence => stale'[shm_index] = {}]_loopVars
    <2> SUFFICES ASSUME LoopInv, LoopNext PROVE fence' > fence => stale'[shm_index] = {}
      OBVIOUS
    <2>1. DoEndFrame \/ PresentUnpainted \/ fence' \in {fence, fence - 1, 0}
      BY DEF LoopNext, ConsumerStep, ProducerStep, Dequeue, SelectInFallback, SelectPushFails, Rebuild,
             NewChannels, Select, LoopRefreshDone, NothingPending, EnterFallback, PickupFds, Reconnect,
             ProducerFallback, OnBufferReady, DoBeginFrame, ReceiveTimeout, ProducerRestart,
             SceneDamage, channels
    <2>2. fence \in Nat
      BY DEF LoopInv, LoopTypeOK
    <2> QED
      BY <2>1, <2>2, PresentSteps
  <1> QED
    BY <1>1, LoopInvariance, PTL DEF LoopSpec, HandedFresh

-----------------------------------------------------------------------------
(* GnomeBackend.                                                           *)

Mode == [size : Sizes, rate : Rates]

Backend ==
  [transport : {"none", "fallback", "active"}, set : Sets \cup {NULL}, size : Sizes \cup {NULL},
   active : BOOLEAN, timer : BOOLEAN, info : Mode, mode : Mode, view : Mode \cup {NULL},
   stage : BOOLEAN, inhibited : BOOLEAN, pending : BOOLEAN, current : Bufs \cup {NULL},
   onscreen : Bufs \cup {0}, clock : {"idle", "scheduled", "pending"}, halted : BOOLEAN]

Channel == [bufs : BOOLEAN, ready : Nat, fence : Nat, input : Seq(Rates \cup {"bad"})]

Broker == [up : BOOLEAN, screen : Mode \cup {NULL}, offer : Sets \cup {NULL}, asked : BOOLEAN]

App == [set : Sets \cup {NULL}, st : {"offered", "active", "gone"}, size : Sizes, idx : Bufs,
        waits : BOOLEAN]

TypeOK ==
  /\ b \in Backend
  /\ pc \in {"loop", "pickup", "receive", "activate"}
  /\ daemon \in Broker
  /\ control \in {"none", "up", "hup"} /\ ctlq \in Seq(Sets)
  /\ c \in App
  /\ told \in BOOLEAN /\ chan \in [Sets -> Channel]
  /\ snag \in BOOLEAN /\ mishaps \in Nat

\* A view that can be painted, as ViewsUsable has it of the backend.
Paintable(x) ==
  /\ x.clock = "pending" => x.stage /\ x.pending
  /\ x.halted => x.stage /\ x.inhibited

\* An active consumer: its channels are open, its buffers are of the size of
\* the view, which runs at the rate of its display, and the timer has stopped.
Served(x) ==
  /\ x.active => /\ x.transport = "active" /\ x.stage /\ ~x.timer
                 /\ x.view = [size |-> x.size, rate |-> x.info.rate]
                 /\ x.size = x.info.size
  /\ x.transport = "active" => x.set # NULL /\ x.size # NULL

Fit(x) == Paintable(x) /\ Served(x)

-----------------------------------------------------------------------------
(* The helpers of meta-backend-anland.c.                                    *)

\* Holding the frame clock and letting it go keep a backend fit.
LEMMA Updates ==
  /\ \A x \in Backend, v \in BOOLEAN : [x EXCEPT !.inhibited = v, !.halted = v] \in Backend
  /\ \A x \in Backend, v \in BOOLEAN : [x EXCEPT !.stage = v] \in Backend
  /\ \A x \in Backend, v \in Mode : [x EXCEPT !.mode = v] \in Backend
  /\ \A x \in Backend, v \in Bufs \cup {0}, w \in {"idle", "scheduled", "pending"} :
       [x EXCEPT !.onscreen = v, !.clock = w, !.active = FALSE, !.current = NULL,
                 !.pending = FALSE] \in Backend
  /\ \A x \in Backend, v \in BOOLEAN, w \in {"fallback", "none"} :
       [x EXCEPT !.transport = w, !.timer = v, !.set = NULL] \in Backend
  /\ \A x \in Backend, w \in {"fallback", "none"} :
       [x EXCEPT !.transport = w, !.set = NULL] \in Backend
  <1>1. \A x \in Backend, v \in BOOLEAN : [x EXCEPT !.inhibited = v, !.halted = v] \in Backend
    BY DEF Backend
  <1>2. \A x \in Backend, v \in BOOLEAN : [x EXCEPT !.stage = v] \in Backend
    BY DEF Backend
  <1>3. \A x \in Backend, v \in Mode : [x EXCEPT !.mode = v] \in Backend
    BY DEF Backend
  <1>4. \A x \in Backend, v \in Bufs \cup {0}, w \in {"idle", "scheduled", "pending"} :
       [x EXCEPT !.onscreen = v, !.clock = w, !.active = FALSE, !.current = NULL,
                 !.pending = FALSE] \in Backend
    BY DEF Backend
  <1>5. \A x \in Backend, v \in BOOLEAN, w \in {"fallback", "none"} :
       [x EXCEPT !.transport = w, !.timer = v, !.set = NULL] \in Backend
    BY DEF Backend
  <1>6. \A x \in Backend, w \in {"fallback", "none"} :
       [x EXCEPT !.transport = w, !.set = NULL] \in Backend
    BY DEF Backend
  <1> QED
    BY <1>1, <1>2, <1>3, <1>4, <1>5, <1>6

LEMMA InhibitFit ==
  ASSUME NEW x \in Backend, Fit(x)
  PROVE  /\ Inhibit(x) \in Backend /\ Fit(Inhibit(x)) /\ Inhibit(x).active = x.active
         /\ Uninhibit(x) \in Backend /\ Fit(Uninhibit(x)) /\ Uninhibit(x).active = x.active
  <1>1. Inhibit(x) \in Backend /\ Uninhibit(x) \in Backend
    BY Updates DEF Inhibit, Uninhibit
  <1>2. /\ Fit(Inhibit(x)) /\ Inhibit(x).active = x.active
        /\ Fit(Uninhibit(x)) /\ Uninhibit(x).active = x.active
    BY DEF Backend, Fit, Paintable, Served, Inhibit, Uninhibit
  <1> QED
    BY <1>1, <1>2

\* Letting the view go does; it is done for a backend without a consumer only.
LEMMA ReleaseFit ==
  ASSUME NEW x \in Backend, Fit(x)
  PROVE  /\ ReleaseView(x) \in Backend /\ Fit(ReleaseView(x))
         /\ ReleaseView(x).active = x.active
         /\ ReleaseView(x).transport = x.transport /\ ReleaseView(x).set = x.set
  <1>1. ReleaseView(x) \in Backend
    BY InhibitFit, Updates DEF ReleaseView
  <1>2. Fit(ReleaseView(x)) /\ ReleaseView(x).active = x.active
    BY DEF Backend, Fit, Paintable, Served, ReleaseView, Uninhibit
  <1>3. ReleaseView(x).transport = x.transport /\ ReleaseView(x).set = x.set
    BY DEF Backend, ReleaseView, Uninhibit
  <1> QED
    BY <1>1, <1>2, <1>3

\* deactivate_consumer leaves a view that can be painted, whatever it waited for.
LEMMA DeactivateFit ==
  ASSUME NEW x \in Backend, Fit(x)
  PROVE  /\ Deactivate(x) \in Backend /\ Fit(Deactivate(x)) /\ ~Deactivate(x).active
         /\ Deactivate(x).info = x.info /\ Deactivate(x).view = x.view
         /\ Deactivate(x).mode = x.mode
  <1> DEFINE y == [x EXCEPT
                !.onscreen = IF x.stage /\ x.current # NULL /\ @ = x.current THEN 0 ELSE @,
                !.clock    = IF x.stage /\ x.pending THEN "idle" ELSE @,
                !.active = FALSE, !.current = NULL, !.pending = FALSE]
  <1>1. y \in Backend
    <2>1. /\ (IF x.stage /\ x.current # NULL /\ x.onscreen = x.current THEN 0 ELSE x.onscreen)
             \in Bufs \cup {0}
          /\ (IF x.stage /\ x.pending THEN "idle" ELSE x.clock)
             \in {"idle", "scheduled", "pending"}
      BY DEF Backend
    <2> QED
      BY <2>1, Updates
  <1>2. Fit(y)
    BY DEF Backend, Fit, Paintable, Served
  <1>3. Deactivate(x) = Inhibit(y)
    BY DEF Deactivate
  <1>4. ~y.active /\ y.info = x.info /\ y.view = x.view /\ y.mode = x.mode
    BY DEF Backend
  <1>5. /\ Inhibit(y).info = y.info /\ Inhibit(y).view = y.view /\ Inhibit(y).mode = y.mode
    <2> HIDE DEF y
    <2> QED
      BY <1>1 DEF Backend, Inhibit
  <1> QED
    <2> HIDE DEF y
    <2> QED
      BY <1>1, <1>2, <1>3, <1>4, <1>5, InhibitFit

\* So do a transport that falls back and one that is thrown away.
LEMMA FallbackFit ==
  ASSUME NEW x \in Backend, Fit(x)
  PROVE  /\ Fallback(x) \in Backend /\ Fit(Fallback(x)) /\ ~Fallback(x).active
         /\ Cleared(x) \in Backend /\ Fit(Cleared(x)) /\ ~Cleared(x).active
  <1> DEFINE d == Deactivate(x)
  <1>1. d \in Backend /\ Fit(d) /\ ~d.active
    BY DeactivateFit
  <1>2. /\ Fallback(x) = IF x.transport # "active" THEN x
                         ELSE [d EXCEPT !.transport = "fallback", !.timer = TRUE, !.set = NULL]
        /\ Cleared(x) = [d EXCEPT !.transport = "none", !.set = NULL]
    BY DEF Fallback, Cleared
  <1> HIDE DEF d
  <1>3. /\ [d EXCEPT !.transport = "fallback", !.timer = TRUE, !.set = NULL] \in Backend
        /\ [d EXCEPT !.transport = "none", !.set = NULL] \in Backend
    BY <1>1, Updates
  <1>4. /\ Fit([d EXCEPT !.transport = "fallback", !.timer = TRUE, !.set = NULL])
        /\ ~[d EXCEPT !.transport = "fallback", !.timer = TRUE, !.set = NULL].active
        /\ Fit([d EXCEPT !.transport = "none", !.set = NULL])
        /\ ~[d EXCEPT !.transport = "none", !.set = NULL].active
    BY <1>1 DEF Backend, Fit, Paintable, Served
  <1>5. x.transport # "active" => ~x.active
    BY DEF Fit, Served, Backend
  <1> QED
    BY <1>2, <1>3, <1>4, <1>5

\* update_virtual_monitor may change the mode of a monitor without a consumer.
LEMMA SetModeFit ==
  ASSUME NEW x \in Backend, Fit(x)
  PROVE  /\ SetMode(x) \in Backend /\ Fit(SetMode(x)) /\ SetMode(x).active = x.active
         /\ SetMode(x).transport = x.transport
  <1> DEFINE y == ReleaseView(x)
  <1>1. /\ y \in Backend /\ Fit(y) /\ y.active = x.active /\ y.transport = x.transport
        /\ SetMode(x) = [y EXCEPT !.mode = x.info] /\ x.info \in Mode
    BY ReleaseFit DEF SetMode, Backend
  <1> HIDE DEF y
  <1>2. [y EXCEPT !.mode = x.info] \in Backend
    BY <1>1, Updates
  <1>3. Fit([y EXCEPT !.mode = x.info]) /\ [y EXCEPT !.mode = x.info].active = y.active
        /\ [y EXCEPT !.mode = x.info].transport = y.transport
    BY <1>1 DEF Backend, Fit, Paintable, Served
  <1> QED
    BY <1>1, <1>2, <1>3

-----------------------------------------------------------------------------
(* The invariant.  While the main loop is blocked nobody is served, and the   *)
(* transport is what the call it is blocked in has made of it.               *)

MainLoopInv ==
  /\ pc # "loop" => ~b.active
  /\ pc \in {"pickup", "receive"} => b.transport = "fallback"
  /\ pc = "activate" => b.transport = "active"

Inv == TypeOK /\ Fit(b) /\ MainLoopInv

\* The backend on its own: what the main loop's steps must come to.
Sound(x, l) ==
  /\ x \in Backend /\ Fit(x)
  /\ l \in {"loop", "pickup", "receive", "activate"}
  /\ l # "loop" => ~x.active
  /\ l \in {"pickup", "receive"} => x.transport = "fallback"
  /\ l = "activate" => x.transport = "active"

\* The other variables.
World ==
  /\ daemon \in Broker
  /\ control \in {"none", "up", "hup"} /\ ctlq \in Seq(Sets)
  /\ c \in App
  /\ told \in BOOLEAN /\ chan \in [Sets -> Channel]
  /\ snag \in BOOLEAN /\ mishaps \in Nat

LEMMA InvSplit == Inv <=> Sound(b, pc) /\ World
  BY DEF Inv, Sound, World, TypeOK, MainLoopInv

\* After setup nothing is served.
LEMMA InitInv == Init => Inv
  <1> SUFFICES ASSUME Init PROVE Inv
    OBVIOUS
  <1>1. PICK m \in Screens, s \in Sets :
       /\ b = [transport |-> "fallback", set |-> NULL, size |-> NULL, active |-> FALSE,
               timer |-> TRUE, info |-> m, mode |-> m, view |-> NULL, stage |-> FALSE,
               inhibited |-> FALSE, pending |-> FALSE, current |-> NULL,
               onscreen |-> 0, clock |-> "idle", halted |-> FALSE]
       /\ daemon = [up |-> TRUE, screen |-> m, offer |-> s, asked |-> FALSE]
       /\ c = [set |-> s, st |-> "offered", size |-> m.size, idx |-> 1, waits |-> FALSE]
    BY DEF Init
  <1>2. m \in Mode /\ m.size \in Sizes
    BY GnomeBackendAssumption DEF Mode
  <1>3. b \in Backend
    BY <1>1, <1>2 DEF Backend
  <1>4. Fit(b) /\ b.active = FALSE
    BY <1>1 DEF Fit, Paintable, Served
  <1>5. Sound(b, pc)
    BY <1>3, <1>4 DEF Sound, Init
  <1>6. Empty \in Channel
    BY DEF Empty, Channel
  <1>7. World
    <2>1. daemon \in Broker /\ c \in App
      BY <1>1, <1>2 DEF Broker, App, Bufs
    <2>2. chan \in [Sets -> Channel]
      BY <1>6 DEF Init
    <2>3. control = "up" /\ ctlq = <<>> /\ told = FALSE /\ snag = FALSE /\ mishaps = 0
      BY DEF Init
    <2>4. ctlq \in Seq(Sets)
      BY <2>3
    <2> QED
      BY <2>1, <2>2, <2>3, <2>4 DEF World
  <1> QED
    BY <1>5, <1>7, InvSplit

\* The daemon's and the consumer's part change one piece at a time.
LEMMA BrokerTypes ==
  ASSUME NEW d \in Broker
  PROVE  /\ \A v \in BOOLEAN : [d EXCEPT !.asked = v] \in Broker /\ [d EXCEPT !.up = v] \in Broker
         /\ \A s \in Sets \cup {NULL} : [d EXCEPT !.offer = s] \in Broker
         /\ \A s \in Sets, m \in Mode : [d EXCEPT !.offer = s, !.screen = m] \in Broker
         /\ [d EXCEPT !.offer = NULL, !.asked = FALSE] \in Broker
         /\ [up |-> FALSE, screen |-> NULL, offer |-> NULL, asked |-> FALSE] \in Broker
  BY DEF Broker

LEMMA AppTypes ==
  /\ \A s \in Sets, z \in Sizes :
       [set |-> s, st |-> "offered", size |-> z, idx |-> 1, waits |-> FALSE] \in App
  /\ \A x \in App : /\ [x EXCEPT !.set = NULL, !.st = "gone", !.waits = FALSE] \in App
                   /\ [x EXCEPT !.st = "active"] \in App
                   /\ [x EXCEPT !.waits = FALSE] \in App
                   /\ [x EXCEPT !.waits = TRUE, !.idx = 3 - @] \in App
                   /\ x.size \in Sizes /\ x.idx \in Bufs
  <1>1. \A x \in App : 3 - x.idx \in Bufs /\ x.size \in Sizes /\ x.idx \in Bufs
    BY DEF App, Bufs
  <1>2. \A x \in App, i \in Bufs : [x EXCEPT !.waits = TRUE, !.idx = i] \in App
    BY DEF App
  <1>3. \A s \in Sets, z \in Sizes :
          [set |-> s, st |-> "offered", size |-> z, idx |-> 1, waits |-> FALSE] \in App
    BY DEF App, Bufs
  <1>4. \A x \in App : /\ [x EXCEPT !.set = NULL, !.st = "gone", !.waits = FALSE] \in App
                       /\ [x EXCEPT !.st = "active"] \in App
                       /\ [x EXCEPT !.waits = FALSE] \in App
    BY DEF App
  <1> QED
    BY <1>1, <1>2, <1>3, <1>4

-----------------------------------------------------------------------------
(* The steps of the main loop: reconnect_cb and what it calls.               *)

\* meta_anland_transport_connect.
LEMMA ConnectFit ==
  ASSUME Inv, b.transport = "none", daemon.screen # NULL
  PROVE  Sound(Connected, "pickup")
  <1> DEFINE y == [b EXCEPT !.transport = "fallback", !.info = daemon.screen]
  <1>1. y \in Backend
    <2>1. daemon.screen \in Mode /\ b \in Backend
      BY DEF Inv, TypeOK, Broker
    <2> QED
      BY <2>1 DEF Backend
  <1>2. Fit(y) /\ ~y.active /\ y.transport = "fallback"
    BY DEF Inv, TypeOK, Backend, Fit, Paintable, Served
  <1>3. Connected = SetMode(y)
    BY DEF Connected
  <1> QED
    <2> HIDE DEF y
    <2> QED
      BY <1>1, <1>2, <1>3, SetModeFit DEF Sound

LEMMA TickSound == ASSUME Inv, Tick PROVE Sound(b', pc') /\ World'
  <1>0. b \in Backend /\ Fit(b) /\ b.timer /\ ~b.active
    BY DEF Inv, TypeOK, Tick, Fit, Served
  <1>1. CASE b.transport = "active" /\ pc' = "activate" /\ UNCHANGED <<b, daemon, control, ctlq>>
    BY <1>0, <1>1, InvSplit DEF Tick, Sound, World
  <1>2. CASE /\ b' = Cleared(b) /\ control' = "none" /\ ctlq' = <<>>
             /\ UNCHANGED <<pc, daemon>>
    BY <1>0, <1>2, FallbackFit, InvSplit DEF Tick, Sound, World
  <1>3. CASE /\ b.transport = "fallback" /\ pc' = "pickup"
             /\ daemon' = [daemon EXCEPT !.asked = TRUE] /\ UNCHANGED <<b, control, ctlq>>
    BY <1>0, <1>3, InvSplit, BrokerTypes DEF Tick, Sound, World
  <1>4. CASE /\ b.transport = "none" /\ daemon.screen # NULL /\ b' = Connected
             /\ control' = "up" /\ pc' = "pickup"
             /\ daemon' = [daemon EXCEPT !.asked = TRUE] /\ UNCHANGED ctlq
    <2>1. Sound(b', pc')
      BY <1>4, ConnectFit
    <2>2. World'
      BY <1>4, InvSplit, BrokerTypes DEF Tick, World
    <2> QED
      BY <2>1, <2>2
  <1> QED
    BY <1>1, <1>2, <1>3, <1>4 DEF Tick

LEMMA PickupSound ==
  ASSUME Inv, PickupReady \/ PickupNoConsumer \/ PickupDaemonLost
  PROVE  Sound(b', pc') /\ World'
  <1>0. b \in Backend /\ Fit(b) /\ ~b.active /\ b.transport = "fallback"
    BY DEF Inv, TypeOK, MainLoopInv, PickupReady, PickupNoConsumer, PickupDaemonLost
  <1>1. CASE PickupReady
    <2>1. Head(ctlq) \in Sets /\ Tail(ctlq) \in Seq(Sets)
      BY <1>1 DEF PickupReady, Inv, TypeOK
    <2>2. [b EXCEPT !.set = Head(ctlq)] \in Backend
      BY <1>0, <2>1 DEF Backend
    <2>3. Sound([b EXCEPT !.set = Head(ctlq)], "receive")
      BY <1>0, <2>2 DEF Backend, Sound, Fit, Paintable, Served
    <2> QED
      BY <1>1, <2>1, <2>3, InvSplit DEF PickupReady, World
  <1>2. CASE PickupNoConsumer
    BY <1>0, <1>2, InvSplit DEF PickupNoConsumer, Sound, World
  <1>3. CASE PickupDaemonLost
    BY <1>0, <1>3, InvSplit, FallbackFit DEF PickupDaemonLost, Sound, World
  <1> QED
    BY <1>1, <1>2, <1>3

\* Any update of one channel.
LEMMA ChannelTypes ==
  ASSUME NEW h \in [Sets -> Channel], NEW s
  PROVE  /\ \A v \in BOOLEAN : [h EXCEPT ![s].bufs = v] \in [Sets -> Channel]
         /\ [h EXCEPT ![s].ready = 0] \in [Sets -> Channel]
         /\ [h EXCEPT ![s].ready = @ + 1] \in [Sets -> Channel]
         /\ [h EXCEPT ![s].fence = @ + 1] \in [Sets -> Channel]
         /\ (s \in Sets /\ h[s].fence > 0 => [h EXCEPT ![s].fence = @ - 1] \in [Sets -> Channel])
         /\ \A e \in Rates \cup {"bad"} :
              [h EXCEPT ![s].input = Append(@, e)] \in [Sets -> Channel]
         /\ (s \in Sets /\ h[s].input # <<>> =>
               /\ [h EXCEPT ![s].input = Tail(@)] \in [Sets -> Channel]
               /\ Head(h[s].input) \in Rates \cup {"bad"})
  <1>1. \A k \in Channel : /\ \A v \in BOOLEAN : [k EXCEPT !.bufs = v] \in Channel
                           /\ \A v \in Nat : /\ [k EXCEPT !.ready = v] \in Channel
                                            /\ [k EXCEPT !.fence = v] \in Channel
                           /\ \A v \in Seq(Rates \cup {"bad"}) : [k EXCEPT !.input = v] \in Channel
    BY DEF Channel
  <1>2. \A k \in Channel : /\ k.ready + 1 \in Nat /\ k.fence + 1 \in Nat
                           /\ k.fence > 0 => k.fence - 1 \in Nat
    BY DEF Channel
  <1>3. \A k \in Channel :
          /\ \A e \in Rates \cup {"bad"} : Append(k.input, e) \in Seq(Rates \cup {"bad"})
          /\ k.input # <<>> => /\ Tail(k.input) \in Seq(Rates \cup {"bad"})
                              /\ Head(k.input) \in Rates \cup {"bad"}
    BY DEF Channel
  <1> HIDE DEF Channel
  <1>4. \A k \in Channel : [h EXCEPT ![s] = k] \in [Sets -> Channel]
    OBVIOUS
  <1>5. s \notin Sets => \A k : [h EXCEPT ![s] = k] = h
    OBVIOUS
  <1> QED
    BY <1>1, <1>2, <1>3, <1>4, <1>5

\* receive_buffers.
LEMMA ReceiveSound ==
  ASSUME Inv, ReceiveBuffers \/ ReceiveFails
  PROVE  Sound(b', pc') /\ World'
  <1>0. b \in Backend /\ Fit(b) /\ ~b.active /\ b.transport = "fallback"
    BY DEF Inv, TypeOK, MainLoopInv, ReceiveBuffers, ReceiveFails
  <1>1. CASE ReceiveBuffers
    <2>1. b.set # NULL /\ c.size \in Sizes /\ c.size # NULL
      BY <1>1, GnomeBackendAssumption, AppTypes DEF ReceiveBuffers, Linked, ConsumerEnd, Inv, TypeOK
    <2>2. [b EXCEPT !.transport = "active", !.size = c.size] \in Backend
      BY <1>0, <2>1 DEF Backend
    <2>3. Sound([b EXCEPT !.transport = "active", !.size = c.size], "activate")
      BY <1>0, <2>1, <2>2 DEF Backend, Sound, Fit, Paintable, Served
    <2>4. World'
      BY <1>1, InvSplit, ChannelTypes DEF ReceiveBuffers, World
    <2> QED
      BY <1>1, <2>3, <2>4 DEF ReceiveBuffers
  <1>2. CASE ReceiveFails
    <2>1. [b EXCEPT !.set = NULL] \in Backend
      BY <1>0 DEF Backend
    <2>2. Sound([b EXCEPT !.set = NULL], "loop")
      BY <1>0, <2>1 DEF Backend, Sound, Fit, Paintable, Served
    <2>3. World'
      BY <1>2, InvSplit DEF ReceiveFails, World, Mishap
    <2> QED
      BY <1>2, <2>2, <2>3 DEF ReceiveFails
  <1> QED
    BY <1>1, <1>2

\* activate_consumer, and an answer that the frame clock is held.
LEMMA ActivateSound ==
  ASSUME Inv, ActivateAnotherSize \/ ActivateNotYet \/ ActivateFails \/ Activate
  PROVE  Sound(b', pc') /\ World'
  <1>0. b \in Backend /\ Fit(b) /\ ~b.active /\ b.transport = "active"
    BY DEF Inv, TypeOK, MainLoopInv, ActivateAnotherSize, ActivateNotYet, ActivateFails, Activate
  <1>1. Held \in Backend /\ Fit(Held)
    <2>1. (b.stage \/ b.view # NULL) \in BOOLEAN
      BY <1>0 DEF Backend
    <2>2. Held \in Backend
      BY <1>0, <2>1, Updates DEF Held
    <2>3. Fit(Held)
      BY <1>0 DEF Held, Fit, Paintable, Served, Backend
    <2> QED
      BY <2>2, <2>3
  <1>2. /\ ~Held.active /\ Held.transport = "active" /\ Held.size = b.size /\ Held.info = b.info
        /\ Held.view = b.view /\ (b.view # NULL => Held.stage) /\ Held.set = b.set
    BY <1>0 DEF Held, Backend
  <1>3. World'
    <2>1. UNCHANGED <<daemon, control, ctlq, c, told, chan>>
      BY DEF ActivateAnotherSize, ActivateNotYet, ActivateFails, Activate
    <2>2. mishaps \in Nat /\ (mishaps' = mishaps \/ mishaps' = mishaps + 1)
      BY DEF ActivateAnotherSize, ActivateNotYet, ActivateFails, Activate, Mishap, Inv, TypeOK
    <2>3. snag' = snag \/ snag' = (snag \/ ~Linked)
      BY DEF ActivateAnotherSize, ActivateNotYet, ActivateFails, Activate
    <2>4. snag' \in BOOLEAN
      BY <2>3 DEF Inv, TypeOK
    <2> QED
      BY <2>1, <2>2, <2>4, InvSplit DEF World
  <1>4. CASE ActivateAnotherSize
    <2> DEFINE y == [b EXCEPT !.info.size = b.size]
    <2>1. b.size \in Sizes
      BY <1>0 DEF Backend, Fit, Served
    <2>2. y \in Backend /\ Fit(y) /\ ~y.active
      <3>1. [b.info EXCEPT !.size = b.size] \in Mode
        BY <1>0, <2>1 DEF Backend, Mode
      <3>2. \A m \in Mode : [b EXCEPT !.info = m] \in Backend
        BY <1>0 DEF Backend
      <3>3. y = [b EXCEPT !.info = [b.info EXCEPT !.size = b.size]]
        BY <1>0 DEF Backend
      <3>4. y \in Backend
        BY <3>1, <3>2, <3>3
      <3>5. Fit(y) /\ ~y.active
        BY <1>0 DEF Backend, Fit, Paintable, Served
      <3> QED
        BY <3>4, <3>5
    <2>3. b' = SetMode(y) /\ pc' = "loop"
      BY <1>4 DEF ActivateAnotherSize
    <2> HIDE DEF y
    <2> QED
      BY <1>3, <2>2, <2>3, SetModeFit DEF Sound
  <1>5. CASE ActivateNotYet
    BY <1>1, <1>3, <1>5 DEF ActivateNotYet, Sound
  <1>6. CASE ActivateFails
    BY <1>1, <1>3, <1>6, FallbackFit DEF ActivateFails, Sound
  <1>7. CASE Activate
    <2> DEFINE y == Inhibit(Held)
    <2>1. /\ y \in Backend /\ Fit(y)
          /\ y.transport = "active" /\ y.set = b.set /\ y.size = b.size /\ y.info = b.info
          /\ y.view = b.view /\ (b.view # NULL => y.stage)
      <3>1. y \in Backend /\ Fit(y)
        BY <1>1, InhibitFit
      <3>2. \A x \in Backend : /\ Inhibit(x).transport = x.transport /\ Inhibit(x).set = x.set
                               /\ Inhibit(x).size = x.size /\ Inhibit(x).info = x.info
                               /\ Inhibit(x).view = x.view /\ Inhibit(x).stage = x.stage
        BY DEF Backend, Inhibit
      <3> QED
        BY <1>1, <1>2, <3>1, <3>2
    <2>2. Activated = [y EXCEPT !.active = TRUE, !.current = NULL, !.timer = FALSE]
      BY DEF Activated
    <2>3. b.size = b.info.size /\ b.view # NULL
          /\ b.view = [size |-> b.size, rate |-> b.info.rate]
      BY <1>7 DEF Activate, Matches
    <2> HIDE DEF y
    <2>4. Activated \in Backend
      BY <2>1, <2>2 DEF Backend
    <2>5. Fit(Activated) /\ Activated.transport = "active"
      BY <2>1, <2>2, <2>3 DEF Backend, Fit, Paintable, Served
    <2> DEFINE z == Fallback(Activated)
    <2>6. z \in Backend /\ Fit(z) /\ ~z.active
      BY <2>4, <2>5, FallbackFit
    <2> HIDE DEF z
    <2>7. [z EXCEPT !.timer = FALSE] \in Backend
      BY <2>6 DEF Backend
    <2>8. Fit([z EXCEPT !.timer = FALSE])
      BY <2>6 DEF Backend, Fit, Paintable, Served
    <2>9. pc' = "loop" /\ (b' = Activated \/ b' = [z EXCEPT !.timer = FALSE])
      BY <1>7 DEF Activate, z
    <2> QED
      BY <1>3, <2>4, <2>5, <2>7, <2>8, <2>9 DEF Sound
  <1> QED
    BY <1>4, <1>5, <1>6, <1>7

-----------------------------------------------------------------------------
(* The sources of an active consumer, the frame clock, the monitors.          *)

\* In the loop itself, whatever is fit is sound.
LEMMA LoopSound == ASSUME NEW x \in Backend, Fit(x) PROVE Sound(x, "loop")
  BY DEF Sound

LEMMA BufferReadySound == ASSUME Inv, BufferReady PROVE Sound(b', pc') /\ World'
  <1>0. b \in Backend /\ Fit(b) /\ b.active /\ c.idx \in Bufs
    BY AppTypes DEF Inv, TypeOK, BufferReady
  <1>1. World'
    BY InvSplit, ChannelTypes DEF BufferReady, World
  <1> DEFINE y == [b EXCEPT !.pending = FALSE, !.clock = "scheduled"]
  <1>2. y \in Backend /\ Fit(y) /\ y.current = b.current
    <2>1. y \in Backend
      BY <1>0 DEF Backend
    <2>2. Fit(y) /\ y.current = b.current
      BY <1>0 DEF Backend, Fit, Paintable, Served
    <2> QED
      BY <2>1, <2>2
  <1> HIDE DEF y
  <1>3. Selected(y) \in Backend /\ Fit(Selected(y))
    <2>1. \A v \in Bufs \cup {0} :
            /\ [y EXCEPT !.onscreen = v, !.current = c.idx] \in Backend
            /\ Fit([y EXCEPT !.onscreen = v, !.current = c.idx])
      <3>1. \A v \in Bufs \cup {0} : [y EXCEPT !.onscreen = v, !.current = c.idx] \in Backend
        BY <1>0, <1>2 DEF Backend
      <3>2. \A v \in Bufs \cup {0} : Fit([y EXCEPT !.onscreen = v, !.current = c.idx])
        BY <1>0, <1>2 DEF Backend, Fit, Paintable, Served
      <3> QED
        BY <3>1, <3>2
    <2>2. (IF y.current # c.idx THEN c.idx ELSE y.onscreen) \in Bufs \cup {0}
      BY <1>0, <1>2 DEF Backend
    <2> QED
      BY <2>1, <2>2 DEF Selected
  <1>4. pc' = "loop" /\ (b' = Fallback(b) \/ b' = Uninhibit(Selected(y)))
    BY DEF BufferReady, y
  <1> QED
    BY <1>0, <1>1, <1>3, <1>4, InhibitFit, FallbackFit, LoopSound

LEMMA PresentSound == ASSUME Inv, Present \/ PaintPlaceholder PROVE Sound(b', pc') /\ World'
  <1>0. b \in Backend /\ Fit(b) /\ b.clock = "scheduled"
    BY DEF Inv, TypeOK, Present, PaintPlaceholder
  <1>1. World'
    <2>1. Answered \in [Sets -> Channel]
      BY ChannelTypes DEF Answered, Inv, TypeOK
    <2>2. (chan' = Answered \/ chan' = chan) /\ UNCHANGED <<daemon, control, ctlq, c, told, snag, mishaps>>
      BY DEF Present, PaintPlaceholder
    <2> QED
      BY <2>1, <2>2, InvSplit DEF World
  <1> DEFINE y == [b EXCEPT !.clock = "idle"]
             z == [b EXCEPT !.pending = TRUE, !.clock = "pending"]
  <1>2. y \in Backend /\ z \in Backend
    BY <1>0 DEF Backend
  <1>3. Fit(y) /\ (b.active => Fit(z))
    BY <1>0 DEF Backend, Fit, Paintable, Served
  <1>4. pc' = "loop" /\ (b' = y \/ b' = Fallback(y) \/ (b.active /\ b' = Inhibit(z)))
    BY DEF Present, PaintPlaceholder
  <1> HIDE DEF y, z
  <1> QED
    BY <1>1, <1>2, <1>3, <1>4, InhibitFit, FallbackFit, LoopSound

LEMMA InputSound == ASSUME Inv, InputDispatch PROVE Sound(b', pc') /\ World'
  <1>0. b \in Backend /\ Fit(b) /\ pc' = "loop" /\ chan \in [Sets -> Channel]
    BY DEF Inv, TypeOK, InputDispatch
  <1>1. CASE b' = Fallback(b) /\ UNCHANGED chan
    BY <1>0, <1>1, FallbackFit, LoopSound, InvSplit DEF InputDispatch, World
  <1>2. CASE /\ Linked /\ chan[b.set].input # <<>>
             /\ LET ev == Head(chan[b.set].input)
                IN b' = IF ev = "bad" THEN Fallback(b) ELSE DisplayRefresh(ev)
             /\ chan' = [chan EXCEPT ![b.set].input = Tail(@)]
    <2> DEFINE ev == Head(chan[b.set].input)
    <2>1. b.set \in Sets
      BY <1>0, <1>2 DEF Linked, ConsumerEnd, Backend
    <2>2. ev \in Rates \cup {"bad"} /\ chan' \in [Sets -> Channel]
      BY <1>0, <1>2, <2>1, ChannelTypes
    <2>3. World'
      BY <2>2, InvSplit DEF InputDispatch, World
    <2>4. ASSUME NEW r \in Rates
          PROVE  DisplayRefresh(r) \in Backend /\ Fit(DisplayRefresh(r))
      <3> DEFINE d == Deactivate(b)
                 y == [d EXCEPT !.info.rate = r]
                 z == SetMode(y)
      <3>1. d \in Backend /\ Fit(d) /\ ~d.active
        BY <1>0, DeactivateFit
      <3> HIDE DEF d
      <3>2. y \in Backend
        <4>1. [d.info EXCEPT !.rate = r] \in Mode
          BY <3>1 DEF Backend, Mode
        <4>2. \A m \in Mode : [d EXCEPT !.info = m] \in Backend
          BY <3>1 DEF Backend
        <4>3. y = [d EXCEPT !.info = [d.info EXCEPT !.rate = r]]
          BY <3>1 DEF Backend
        <4> QED
          BY <4>1, <4>2, <4>3
      <3>3. Fit(y) /\ ~y.active
        BY <3>1 DEF Backend, Fit, Paintable, Served
      <3> HIDE DEF y
      <3>4. z \in Backend /\ Fit(z) /\ ~z.active
        BY <3>2, <3>3, SetModeFit
      <3> HIDE DEF z
      <3>5. [z EXCEPT !.timer = TRUE] \in Backend
        BY <3>4 DEF Backend
      <3>6. Fit([z EXCEPT !.timer = TRUE])
        BY <3>4 DEF Backend, Fit, Paintable, Served
      <3>7. DisplayRefresh(r) = b \/ DisplayRefresh(r) = [z EXCEPT !.timer = TRUE]
        BY DEF DisplayRefresh, d, y, z
      <3> QED
        BY <1>0, <3>5, <3>6, <3>7
    <2>5. b' = Fallback(b) \/ \E r \in Rates : b' = DisplayRefresh(r)
      BY <1>2, <2>2
    <2> QED
      BY <1>0, <2>3, <2>4, <2>5, FallbackFit, LoopSound
  <1> QED
    BY <1>1, <1>2 DEF InputDispatch

\* update_stage and a change of the monitors: the view that is let go has
\* nobody to present to.
LEMMA StageSound == ASSUME Inv, UpdateStage \/ MonitorsChanged PROVE Sound(b', pc') /\ World'
  <1>0. b \in Backend /\ Fit(b) /\ pc' = "loop"
    BY DEF Inv, TypeOK, UpdateStage, MonitorsChanged
  <1>1. World'
    BY InvSplit DEF UpdateStage, MonitorsChanged, World, Mishap
  <1> DEFINE d == IF b.active THEN Deactivate(b) ELSE b
             y == ReleaseView(d)
  <1>2. d \in Backend /\ Fit(d) /\ ~d.active
    BY <1>0, DeactivateFit
  <1> HIDE DEF d
  <1>3. y \in Backend /\ Fit(y) /\ ~y.active
    BY <1>2, ReleaseFit
  <1> HIDE DEF y
  <1>4. ASSUME NEW t \in BOOLEAN, NEW v \in Mode
        PROVE  /\ [y EXCEPT !.view = v, !.onscreen = 0, !.clock = "idle", !.timer = t] \in Backend
               /\ Fit([y EXCEPT !.view = v, !.onscreen = 0, !.clock = "idle", !.timer = t])
               /\ [y EXCEPT !.onscreen = 0, !.clock = "idle", !.timer = t] \in Backend
               /\ Fit([y EXCEPT !.onscreen = 0, !.clock = "idle", !.timer = t])
    <2>1. /\ [y EXCEPT !.view = v, !.onscreen = 0, !.clock = "idle", !.timer = t] \in Backend
          /\ [y EXCEPT !.onscreen = 0, !.clock = "idle", !.timer = t] \in Backend
      BY <1>3 DEF Backend
    <2>2. /\ Fit([y EXCEPT !.view = v, !.onscreen = 0, !.clock = "idle", !.timer = t])
          /\ Fit([y EXCEPT !.onscreen = 0, !.clock = "idle", !.timer = t])
      BY <1>3 DEF Backend, Fit, Paintable, Served
    <2> QED
      BY <2>1, <2>2
  <1>5. (y.timer \/ Resumes) \in BOOLEAN /\ b.mode \in Mode
    BY <1>0 DEF Backend
  <1>6. \/ b' = [y EXCEPT !.view = b.mode, !.onscreen = 0, !.clock = "idle",
                         !.timer = y.timer \/ Resumes]
        \/ b' = [y EXCEPT !.onscreen = 0, !.clock = "idle", !.timer = y.timer \/ Resumes]
    BY DEF UpdateStage, MonitorsChanged, y, d
  <1> QED
    BY <1>0, <1>1, <1>4, <1>5, <1>6, LoopSound

-----------------------------------------------------------------------------
(* The daemon and the consumer leave the backend alone.                      *)

LEMMA LeftTypes == ASSUME Inv PROVE Left(chan) \in [Sets -> Channel]
  <1>1. \A n \in Nat : [Empty EXCEPT !.ready = n] \in Channel
    <2>1. Empty \in Channel
      BY DEF Empty, Channel
    <2> QED
      BY <2>1 DEF Channel
  <1>2. \A s \in Sets : chan[s] \in Channel /\ chan[s].ready \in Nat
    BY DEF Inv, TypeOK, Channel
  <1>3. \A s \in Sets : (IF s = b.set THEN chan[s].ready ELSE 0) \in Nat
    BY <1>2
  <1> QED
    BY <1>1, <1>2, <1>3 DEF Left

\* Sets of channels are made, lost and replaced.
LEMMA SetsWorld ==
  ASSUME Inv, \/ \E z \in Sizes : Deposit(z)
              \/ Gone /\ UNCHANGED daemon
              \/ Gone /\ daemon' = [daemon EXCEPT !.offer = NULL],
         UNCHANGED <<control, ctlq, snag>>, mishaps' \in Nat
  PROVE  World'
  <1>0. Left(chan) \in [Sets -> Channel] /\ Empty \in Channel
    BY LeftTypes DEF Empty, Channel
  <1>1. CASE \E z \in Sizes : Deposit(z)
    <2>1. PICK z \in Sizes, s \in Sets :
            /\ c' = [set |-> s, st |-> "offered", size |-> z, idx |-> 1, waits |-> FALSE]
            /\ daemon' = [daemon EXCEPT !.offer = s]
            /\ chan' = [Left(chan) EXCEPT ![s] = Empty]
            /\ told' = FALSE
      BY <1>1 DEF Deposit
    <2>2. chan' \in [Sets -> Channel]
      BY <1>0, <2>1
    <2> QED
      BY <2>1, <2>2, InvSplit, BrokerTypes, AppTypes DEF World
  <1>2. CASE Gone /\ (UNCHANGED daemon \/ daemon' = [daemon EXCEPT !.offer = NULL])
    <2>1. daemon' \in Broker
      BY <1>2, BrokerTypes DEF Inv, TypeOK
    <2>2. c' \in App
      BY <1>2, AppTypes DEF Gone, Inv, TypeOK
    <2> QED
      BY <1>0, <1>2, <2>1, <2>2, InvSplit DEF World, Gone
  <1> QED
    BY <1>1, <1>2

LEMMA DaemonWorld ==
  ASSUME Inv, Deliver \/ DaemonDies \/ DaemonReturns \/ Evicted
  PROVE  World' /\ UNCHANGED <<b, pc>>
  <1>1. CASE Deliver
    <2>1. daemon.offer \in Sets
      BY <1>1 DEF Deliver, Inv, TypeOK, Broker
    <2>2. ctlq' \in Seq(Sets)
      BY <1>1, <2>1 DEF Deliver, Inv, TypeOK
    <2>3. (told \/ daemon.offer = c.set) \in BOOLEAN
      BY DEF Inv, TypeOK
    <2> QED
      BY <1>1, <2>2, <2>3, InvSplit, BrokerTypes DEF Deliver, World
  <1>2. CASE DaemonDies
    <2>1. daemon' \in Broker /\ control' \in {"none", "up", "hup"}
      BY <1>2, BrokerTypes DEF DaemonDies, Inv, TypeOK
    <2>2. mishaps' \in Nat
      BY <1>2 DEF DaemonDies, Mishap, Inv, TypeOK
    <2> QED
      BY <1>2, <2>1, <2>2, InvSplit DEF DaemonDies, World
  <1>3. CASE DaemonReturns
    BY <1>3, InvSplit, BrokerTypes DEF DaemonReturns, World
  <1>4. CASE Evicted
    <2>1. daemon' \in Broker
      BY <1>4, BrokerTypes DEF Evicted, Inv, TypeOK
    <2>2. mishaps' \in Nat
      BY <1>4 DEF Evicted, Mishap, Inv, TypeOK
    <2> QED
      BY <1>4, <2>1, <2>2, InvSplit DEF Evicted, World
  <1> QED
    BY <1>1, <1>2, <1>3, <1>4

LEMMA ConsumerWorld ==
  ASSUME Inv, \/ ConsumerConnects \/ ConsumerDies \/ PushesBuffers \/ SendsEvent
              \/ SelectsBuffer \/ RefreshDone \/ LosesProducer \/ RefreshTimeout
  PROVE  World' /\ UNCHANGED <<b, pc>>
  <1>0. chan \in [Sets -> Channel] /\ c.size \in Sizes /\ mishaps \in Nat
    BY AppTypes DEF Inv, TypeOK
  <1>1. CASE ConsumerConnects
    <2>1. PICK m \in Screens, s \in Sets :
            /\ c' = [set |-> s, st |-> "offered", size |-> m.size, idx |-> 1, waits |-> FALSE]
            /\ daemon' = [daemon EXCEPT !.offer = s, !.screen = m]
            /\ chan' = [chan EXCEPT ![s] = Empty]
      BY <1>1 DEF ConsumerConnects
    <2>2. m \in Mode /\ m.size \in Sizes /\ Empty \in Channel
      BY GnomeBackendAssumption DEF Mode, Empty, Channel
    <2>3. chan' \in [Sets -> Channel]
      BY <1>0, <2>1, <2>2
    <2> QED
      BY <1>1, <2>1, <2>2, <2>3, InvSplit, BrokerTypes, AppTypes DEF ConsumerConnects, World
  <1>2. CASE ConsumerDies
    BY <1>0, <1>2, SetsWorld DEF ConsumerDies
  <1>3. CASE PushesBuffers
    BY <1>3, InvSplit, ChannelTypes, AppTypes DEF PushesBuffers, World
  <1>4. CASE SendsEvent
    <2>1. PICK ev \in Rates \cup {"bad"} : chan' = [chan EXCEPT ![c.set].input = Append(@, ev)]
      BY <1>4 DEF SendsEvent
    <2>2. chan' \in [Sets -> Channel]
      BY <1>0, <2>1, ChannelTypes
    <2> QED
      BY <1>0, <1>4, <2>2, InvSplit DEF SendsEvent, World, Mishap
  <1>5. CASE SelectsBuffer
    BY <1>5, InvSplit, ChannelTypes, AppTypes DEF SelectsBuffer, World
  <1>6. CASE RefreshDone
    <2>1. c.set \in Sets => chan' \in [Sets -> Channel]
      BY <1>0, <1>6, ChannelTypes DEF RefreshDone
    <2>2. c.set \notin Sets => chan' = chan
      BY <1>0, <1>6 DEF RefreshDone
    <2> QED
      BY <1>0, <1>6, <2>1, <2>2, InvSplit, AppTypes DEF RefreshDone, World
  <1>7. CASE LosesProducer \/ RefreshTimeout
    <2>1. FallsBack /\ mishaps' \in Nat
      BY <1>0, <1>7 DEF LosesProducer, RefreshTimeout, Mishap
    <2> QED
      BY <1>0, <2>1, SetsWorld DEF FallsBack
  <1> QED
    BY <1>1, <1>2, <1>3, <1>4, <1>5, <1>6, <1>7

-----------------------------------------------------------------------------
LEMMA NextInv == Inv /\ [Next]_vars => Inv'
  <1> SUFFICES ASSUME Inv, [Next]_vars PROVE Sound(b', pc') /\ World'
    BY InvSplit DEF Sound, World, Inv, TypeOK, MainLoopInv
  <1>1. CASE Tick
    BY <1>1, TickSound
  <1>2. CASE PickupReady \/ PickupNoConsumer \/ PickupDaemonLost
    BY <1>2, PickupSound
  <1>3. CASE ReceiveBuffers \/ ReceiveFails
    BY <1>3, ReceiveSound
  <1>4. CASE ActivateAnotherSize \/ ActivateNotYet \/ ActivateFails \/ Activate
    BY <1>4, ActivateSound
  <1>5. CASE BufferReady
    BY <1>5, BufferReadySound
  <1>6. CASE Present \/ PaintPlaceholder
    BY <1>6, PresentSound
  <1>7. CASE InputDispatch
    BY <1>7, InputSound
  <1>8. CASE UpdateStage \/ MonitorsChanged
    BY <1>8, StageSound
  <1>9. CASE Deliver \/ DaemonDies \/ DaemonReturns \/ Evicted
    BY <1>9, DaemonWorld, InvSplit DEF Sound
  <1>10. CASE \/ ConsumerConnects \/ ConsumerDies \/ PushesBuffers \/ SendsEvent
              \/ SelectsBuffer \/ RefreshDone \/ LosesProducer \/ RefreshTimeout
    BY <1>10, ConsumerWorld, InvSplit DEF Sound
  <1>11. CASE UNCHANGED vars
    BY <1>11, InvSplit DEF Sound, World, vars
  <1> QED
    BY <1>1, <1>2, <1>3, <1>4, <1>5, <1>6, <1>7, <1>8, <1>9, <1>10, <1>11 DEF Next, Loop

LEMMA Invariance == Spec => []Inv
  <1>1. Init => Inv
    BY InitInv
  <1>2. Inv /\ [Next]_vars => Inv'
    BY NextInv
  <1> QED
    BY <1>1, <1>2, PTL DEF Spec

\* Every variable keeps its type, whatever sizes, rates and sets there are.
THEOREM GnomeTypeCorrect == Spec => []TypeOK
  BY Invariance, PTL DEF Inv

\* However a consumer, the daemon, the monitor or its mode is lost, the view
\* that remains can be painted: the frame clock neither waits for a frame that
\* nobody completes nor stays held (deactivate_consumer, release_stage_view).
THEOREM ViewsStayUsable == Spec => []ViewsUsable
  <1>1. Inv => ViewsUsable
    BY DEF Inv, Fit, Paintable, ViewsUsable
  <1> QED
    BY <1>1, Invariance, PTL

\* A consumer is active only over a working transport, with a set of channels,
\* on a view that has its buffers' size and its display's rate; and the timer
\* that looks for another one has stopped (activate_consumer; whoever changes
\* the view or the rate deactivates the consumer first).
BuffersFitView ==
  b.active => /\ b.transport = "active" /\ b.set # NULL /\ ~b.timer
              /\ b.view = [size |-> b.size, rate |-> b.info.rate]
THEOREM ActiveOnMatchingView == Spec => []BuffersFitView
  <1>1. Inv => BuffersFitView
    BY DEF Inv, Fit, Served, BuffersFitView
  <1> QED
    BY <1>1, Invariance, PTL
=============================================================================
