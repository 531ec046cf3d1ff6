------------------------------ MODULE Session -------------------------------
(***************************************************************************)
(* How a session comes up, fails and comes back: the daemon of Daemon.tla   *)
(* with the two libraries as its clients, and the data channel between      *)
(* them.  There is no "peer is online" message: each side stays in fallback *)
(* until the daemon has handed the consumer's descriptors to the producer,  *)
(* and each side finds out by itself that the other one is gone.            *)
(*                                                                         *)
(* display_consumer.c is seen from outside its threads (ConsumerLib.tla     *)
(* looks inside).  A consumer or producer process is one connection of      *)
(* Daemon.tla; a restarted process is another one.                          *)
(***************************************************************************)
EXTENDS Daemon

CONSTANTS
  Mortal,   \* bound: connections whose process may die
  MaxLate   \* bound: timeouts that fire although the answer was under way

ASSUME SessionAssumption ==
  /\ Mortal \subseteq Conn
  /\ MaxLate \in Nat

VARIABLES
  c_phase,  \* consumer library: "none" (no context), "connecting", "fallback", "active"
  c_set,    \* the descriptors it created last; NULL if their HELLO was not sent
  p_phase,  \* producer library: "none", "hello", "fallback", "pickup", "receive", "active"
  p_set,    \* the descriptors the producer has picked up, or NULL
  pushed,   \* sets whose data channel holds an unread BUFS_READY
  late      \* timeouts that came too early so far

lib   == <<c_phase, c_set, p_phase, p_set, pushed, late>>
svars == <<vars, lib>>

SessionInit ==
  /\ Init
  /\ c_phase = [c \in ConsumerConn |-> "none"]
  /\ c_set = [c \in ConsumerConn |-> NULL]
  /\ p_phase = [p \in ProducerConn |-> "none"]
  /\ p_set = [p \in ProducerConn |-> NULL]
  /\ pushed = {}
  /\ late = 0

-----------------------------------------------------------------------------
(* The two ends of a set's channels.                                       *)

\* The consumer closes its ends when it falls back or dies.
ConsumerEnd(s) == c_set[s.owner] = s

Carries(queue, s) == \E i \in DOMAIN queue : queue[i].arg = s

\* The other ends travel with the descriptors: deposited with the daemon, in
\* a message nobody has read yet, or picked up.
ProducerEnd(s) ==
  \/ s \in open_fds
  \/ Carries(toDaemon[s.owner], s)
  \/ \E p \in ProducerConn : Carries(toClient[p], s) \/ p_set[p] = s

\* A timeout although the answer is under way: the peer was slow or asleep.
TooLate == late < MaxLate /\ late' = late + 1

-----------------------------------------------------------------------------
(* Consumer library.                                                       *)

NextSet(c) == [owner |-> c, gen |-> hellos[c] + 1, n |-> MAX_FDS]

\* connect_to_deamon: channels are created and deposited; starts in fallback.
ConsumerStart(c) ==
  /\ c_phase[c] = "none"
  /\ hellos[c] = 0
  /\ SendConsumerHello(c, MAX_FDS)
  /\ c_phase' = [c_phase EXCEPT ![c] = "connecting"]
  /\ c_set' = [c_set EXCEPT ![c] = NextSet(c)]
  /\ UNCHANGED <<p_phase, p_set, pushed, late>>

\* do_connect then sends the screen, whatever comes of it, and enters the
\* render loop.
ConsumerScreen(c, s) ==
  /\ c_phase[c] = "connecting"
  /\ SendScreenInfo(c, s) \/ (~Served(c) /\ UNCHANGED vars)
  /\ c_phase' = [c_phase EXCEPT ![c] = "fallback"]
  /\ UNCHANGED <<c_set, p_phase, p_set, pushed, late>>

\* The HELLO of a rebuilt set.  A daemon that is gone, or has evicted this
\* consumer, makes the send fail, which nobody looks at.
\* Mutant: nothing is deposited again.
RebuildSilently(c) ==
  /\ pushed' = pushed \ {c_set[c]}
  /\ c_set' = [c_set EXCEPT ![c] = NULL]
  /\ UNCHANGED vars

Rebuild(c) ==
  /\ pushed' = pushed \ {c_set[c]}
  /\ IF Served(c)
     THEN /\ SendConsumerHello(c, MAX_FDS)
          /\ c_set' = [c_set EXCEPT ![c] = NextSet(c)]
     ELSE /\ c_set' = [c_set EXCEPT ![c] = NULL]
          /\ UNCHANGED vars

\* try_exit_fallback, from the next select_dmabuf: FDS_READY is there, so the
\* buffers are pushed.
ConsumerExit(c) ==
  /\ c_phase[c] = "fallback"
  /\ peer[c] = "open" /\ toClient[c] # <<>>
  /\ c_set[c] # NULL /\ ProducerEnd(c_set[c])
  /\ ClientRead(c)
  /\ c_phase' = [c_phase EXCEPT ![c] = "active"]
  /\ pushed' = pushed \cup {c_set[c]}
  /\ UNCHANGED <<c_set, p_phase, p_set, late>>

\* The same, but the producer has given the descriptors up meanwhile: the push
\* fails, and enter_fallback deposits a fresh set at once.  (A consumer the
\* daemon has dropped cannot.)
ConsumerExitFails(c) ==
  /\ c_phase[c] = "fallback"
  /\ peer[c] = "open" /\ toClient[c] # <<>>
  /\ ~(c_set[c] # NULL /\ ProducerEnd(c_set[c]))
  /\ IF Served(c)
     THEN /\ Len(toDaemon[c]) < MaxQueue /\ hellos[c] < MaxHello
          /\ toClient' = [toClient EXCEPT ![c] = Tail(@)]
          /\ toDaemon' = [toDaemon EXCEPT ![c] = Append(@, Msg("CONSUMER_HELLO", NextSet(c)))]
          /\ hellos' = [hellos EXCEPT ![c] = @ + 1]
          /\ c_set' = [c_set EXCEPT ![c] = NextSet(c)]
          /\ UNCHANGED <<daemonState, backlog, peer>>
     ELSE /\ ClientRead(c)
          /\ c_set' = [c_set EXCEPT ![c] = NULL]
  /\ UNCHANGED <<c_phase, p_phase, p_set, pushed, late>>

\* A hangup of the data or fence channel, or a failed send: enter_fallback.
ConsumerLoses(c) ==
  /\ c_phase[c] = "active" /\ peer[c] = "open"
  /\ ~ProducerEnd(c_set[c])
  /\ c_phase' = [c_phase EXCEPT ![c] = "fallback"]
  /\ Rebuild(c)
  /\ UNCHANGED <<p_phase, p_set, late>>

\* Nobody will ever read the message that carries s: its producer has been
\* evicted and gives up every tick before it reads.
Stranded(s) ==
  \A p \in ProducerConn :
    p_set[p] # s /\ (Carries(toClient[p], s) => p_phase[p] = "fallback" /\ ~Served(p))

\* refresh_done's 5 s timeout: the other ends are open, but nobody renders.
ConsumerTimeout(c) ==
  /\ c_phase[c] = "active" /\ peer[c] = "open"
  /\ ProducerEnd(c_set[c])
  /\ IF Stranded(c_set[c]) THEN UNCHANGED late ELSE TooLate
  /\ c_phase' = [c_phase EXCEPT ![c] = "fallback"]
  /\ Rebuild(c)
  /\ UNCHANGED <<p_phase, p_set>>

\* disconnect(), or the process dies, before its HELLO too.
ConsumerDies(c) ==
  /\ c \in Mortal
  /\ ClientClose(c)
  /\ c_phase' = [c_phase EXCEPT ![c] = "none"]
  /\ c_set' = [c_set EXCEPT ![c] = NULL]
  /\ pushed' = pushed \ {c_set[c]}
  /\ UNCHANGED <<p_phase, p_set, late>>

-----------------------------------------------------------------------------
(* Producer library.                                                       *)

\* connect_to_deamon: HELLO, then a blocking wait for the screen.
ProducerStart(p) ==
  /\ p_phase[p] = "none"
  /\ SendProducerHello(p, NULL)
  /\ p_phase' = [p_phase EXCEPT ![p] = "hello"]
  /\ UNCHANGED <<c_phase, c_set, p_set, pushed, late>>

ProducerScreen(p) ==
  /\ p_phase[p] = "hello"
  /\ ClientRead(p)
  /\ Head(toClient[p]).type = "SCREEN_INFO"
  /\ p_phase' = [p_phase EXCEPT ![p] = "fallback"]
  /\ UNCHANGED <<c_phase, c_set, p_set, pushed, late>>

\* A tick of the reconnect timer: pickup_fds asks.  (On a dead connection the
\* send fails and the tick is over.)
ProducerPickup(p) ==
  /\ p_phase[p] = "fallback"
  /\ SendPickup(p)
  /\ p_phase' = [p_phase EXCEPT ![p] = "pickup"]
  /\ UNCHANGED <<c_phase, c_set, p_set, pushed, late>>

\* The oldest FDS_READY is taken, be it the answer to an earlier request;
\* nothing else is taken for one.
ProducerPickedUp(p) ==
  /\ p_phase[p] = "pickup"
  /\ ClientRead(p)
  /\ Head(toClient[p]).type = "FDS_READY"
  /\ p_set' = [p_set EXCEPT ![p] = Head(toClient[p]).arg]
  /\ p_phase' = [p_phase EXCEPT ![p] = "receive"]
  /\ UNCHANGED <<c_phase, c_set, pushed, late>>

\* 100 ms without an answer, or the daemon hung up.
PickupUnderWay(p) == toClient[p] # <<>> \/ (Served(p) /\ toDaemon[p] # <<>>)
ProducerPickupTimeout(p) ==
  /\ p_phase[p] = "pickup" /\ peer[p] = "open"
  /\ IF PickupUnderWay(p) THEN TooLate ELSE UNCHANGED late
  /\ p_phase' = [p_phase EXCEPT ![p] = "fallback"]
  /\ UNCHANGED <<vars, c_phase, c_set, p_set, pushed>>

\* Mutant: the descriptors are enough.
BufsHereUnchecked(p) == ConsumerEnd(p_set[p])
BufsHere(p) == ConsumerEnd(p_set[p]) /\ p_set[p] \in pushed

\* receive_dmabufs: only with both descriptors and buffers in hand does the
\* producer leave fallback.
ProducerReceive(p) ==
  /\ p_phase[p] = "receive"
  /\ BufsHere(p)
  /\ pushed' = pushed \ {p_set[p]}
  /\ p_phase' = [p_phase EXCEPT ![p] = "active"]
  /\ UNCHANGED <<vars, c_phase, c_set, p_set, late>>

\* release_consumer_resources.
Release(p) == p_set' = [p_set EXCEPT ![p] = NULL]

\* 100 ms without BUFS_READY, although the consumer is there.
ProducerReceiveTimeout(p) ==
  /\ p_phase[p] = "receive"
  /\ ConsumerEnd(p_set[p])
  /\ TooLate
  /\ p_phase' = [p_phase EXCEPT ![p] = "fallback"]
  /\ Release(p)
  /\ UNCHANGED <<vars, c_phase, c_set, pushed>>

\* A hangup of the data channel or a failed send: enter_fallback when active,
\* the end of the tick in receive_dmabufs.
ProducerLoses(p) ==
  /\ p_phase[p] \in {"receive", "active"}
  /\ ~ConsumerEnd(p_set[p])
  /\ p_phase' = [p_phase EXCEPT ![p] = "fallback"]
  /\ Release(p)
  /\ UNCHANGED <<vars, c_phase, c_set, pushed, late>>

ProducerDies(p) ==
  /\ p \in Mortal
  /\ ClientClose(p)
  /\ p_phase' = [p_phase EXCEPT ![p] = "none"]
  /\ p_set' = [p_set EXCEPT ![p] = NULL]
  /\ UNCHANGED <<c_phase, c_set, pushed, late>>

-----------------------------------------------------------------------------
Connect(c) == ClientConnect(c) /\ UNCHANGED lib

ConsumerStep(c) ==
  \/ ConsumerStart(c)
  \/ \E s \in Screen : ConsumerScreen(c, s)
  \/ ConsumerExit(c) \/ ConsumerExitFails(c) \/ ConsumerLoses(c)

ProducerStep(p) ==
  \/ ProducerStart(p) \/ ProducerScreen(p)
  \/ ProducerPickup(p) \/ ProducerPickedUp(p)
  \/ ProducerReceive(p) \/ ProducerLoses(p)

SessionNext ==
  \/ DaemonNext /\ UNCHANGED lib
  \/ \E c \in Conn : Connect(c)
  \/ \E c \in ConsumerConn : ConsumerStep(c) \/ ConsumerTimeout(c) \/ ConsumerDies(c)
  \/ \E p \in ProducerConn :
       \/ ProducerStep(p)
       \/ ProducerPickupTimeout(p) \/ ProducerReceiveTimeout(p) \/ ProducerDies(p)

SessionSpec == SessionInit /\ [][SessionNext]_svars

\* The daemon's loop, the render thread of the consumer and the producer's
\* timer run; the timer's tick ends when nothing is under way.
SessionFairness ==
  /\ WF_svars(EpollWait /\ UNCHANGED lib)
  /\ WF_svars((\E e \in batch : SkipStaleEvent(e) \/ HandleHangup(e) \/ HandleClientData(e))
                /\ UNCHANGED lib)
  /\ WF_svars(HandleNewConnection /\ UNCHANGED lib)
  /\ \A c \in Conn : WF_svars(Connect(c))
  /\ \A c \in ConsumerConn :
       /\ WF_svars(ConsumerStep(c))
       /\ WF_svars(Stranded(c_set[c]) /\ ConsumerTimeout(c))
  /\ \A p \in ProducerConn :
       /\ WF_svars(ProducerStep(p))
       /\ WF_svars(~PickupUnderWay(p) /\ ProducerPickupTimeout(p))

FairSession == SessionSpec /\ SessionFairness

-----------------------------------------------------------------------------
(* Properties.                                                             *)

\* A producer never renders for a consumer that believes there is none.
ProducerActiveLast ==
  \A p \in ProducerConn :
    p_phase[p] = "active" /\ ConsumerEnd(p_set[p]) => c_phase[p_set[p].owner] = "active"

\* Two compositors never hold the channels of the same set.
ChannelsExclusive ==
  \A p, q \in ProducerConn : p_set[p] # NULL /\ p_set[p] = p_set[q] => p = q

Paired(c, p) == c_phase[c] = "active" /\ p_phase[p] = "active" /\ p_set[p] = c_set[c]
Usable(c)    == peer[c] = "open" /\ Accepted(c)

\* However connections were made, timed out and died before, a session is up
\* for good in the end, if a consumer and a producer are left that can have one.
SessionForms ==
  <>[]( \/ \E c \in ConsumerConn, p \in ProducerConn : Paired(c, p)
        \/ ~\E c \in ConsumerConn : Usable(c)
        \/ ~\E p \in ProducerConn : Usable(p) )
=============================================================================
