---------------------------- MODULE DaemonProofs ----------------------------
(***************************************************************************)
(* Theorems about Daemon.tla and about Session.tla, which puts the libraries *)
(* in the place of its clients: for any number of connections, addresses,    *)
(* screens and restarts, and any bound on HELLOs, queues and timeouts.      *)
(*                                                                         *)
(* The invariants are proved in layers, each inductive relative to the one  *)
(* before it: types, ownership of the client structs and the content of the *)
(* inboxes; then the batch of events; then deposits, flags and descriptors; *)
(* last the numbering of the sets, and with it the refinement of            *)
(* Rendezvous.tla.                                                          *)
(***************************************************************************)
EXTENDS Session, TLAPS

-----------------------------------------------------------------------------
(* Layer 1: types, structs and inboxes.                                    *)

\* A HELLO names the connection it came through, and a connection only
\* carries the HELLO of its role.
InboxInv ==
  \A c \in Conn : \A i \in 1..Len(toDaemon[c]) :
    /\ toDaemon[c][i].type = "CONSUMER_HELLO" => toDaemon[c][i].arg.owner = c
    /\ toDaemon[c][i].type = "PRODUCER_HELLO" => c \in ProducerConn

BaseInv == TypeOK /\ RolesOwnStructs /\ InboxInv

\* NULL is distinct from everything a variable may hold beside it.
LEMMA NullFacts ==
  /\ NULL \notin Conn /\ NULL \notin Addr /\ NULL \notin Screen /\ NULL \notin FdSet
  /\ ConsumerConn \subseteq Conn /\ ProducerConn \subseteq Conn
  /\ \A c \in ConsumerConn : c \notin ProducerConn
  /\ MaxHello \in Nat /\ MaxQueue \in Nat
BY DaemonAssumption DEF Conn

\* Stray descriptors are nothing a consumer's HELLO could carry.
LEMMA StrayFacts ==
  /\ NULL \notin StrayFds
  /\ FdSet \cap StrayFds = {}
BY DaemonAssumption

\* Posting a message keeps the type of the outgoing queues.
LEMMA PostType ==
  ASSUME NEW q \in [Conn -> Seq(DaemonMsg)], NEW c \in Conn \cup {NULL}, NEW m \in DaemonMsg
  PROVE  Post(q, c, m) \in [Conn -> Seq(DaemonMsg)]
<1>1. CASE c \in Conn
  <2>1. Append(q[c], m) \in Seq(DaemonMsg)
    BY <1>1
  <2>2. QED
    BY <2>1 DEF Post
<1>2. CASE c = NULL
  BY <1>2 DEF Post
<1>3. QED
  BY <1>1, <1>2

\* The messages the daemon sends.
LEMMA DaemonMsgs ==
  /\ \A s \in FdSet \cup {NULL} : Msg("FDS_READY", s) \in DaemonMsg
  /\ \A s \in Screen : Msg("SCREEN_INFO", s) \in DaemonMsg
BY DEF Msg, DaemonMsg

\* The variables try_deliver_fds writes keep their types.
LEMMA TryDeliverType ==
  ASSUME TypeOK, NEW s \in FdSet \cup {NULL}, NEW k \in Conn \cup {NULL},
         NEW p \in ProducerConn \cup {NULL}, TryDeliver(s, k, p)
  PROVE  /\ toClient' \in [Conn -> Seq(DaemonMsg)]
         /\ deposited_fds' \in FdSet \cup {NULL}
         /\ open_fds' \subseteq FdSet \cup StrayFds
         /\ producer_waiting_fds' \in BOOLEAN
         /\ handed' \subseteq ProducerConn \X FdSet
<1>1. CASE CanDeliver(s, p)
  <2>1. s \in FdSet /\ p \in ProducerConn
    BY <1>1 DEF CanDeliver, Complete
  <2>2. Post(toClient, p, Msg("FDS_READY", s)) \in [Conn -> Seq(DaemonMsg)]
    BY <2>1, PostType, DaemonMsgs, NullFacts DEF TypeOK
  <2>3. toClient' \in [Conn -> Seq(DaemonMsg)]
    BY <1>1, <2>2, PostType, DaemonMsgs DEF TryDeliver
  <2>4. handed' \subseteq ProducerConn \X FdSet
    BY <1>1, <2>1 DEF TryDeliver, TypeOK
  <2>5. QED
    BY <1>1, <2>3, <2>4 DEF TryDeliver, TypeOK
<1>2. CASE ~CanDeliver(s, p)
  BY <1>2 DEF TryDeliver, TypeOK
<1>3. QED
  BY <1>1, <1>2

\* So do those StoreFds writes.
LEMMA StoreFdsType ==
  ASSUME BaseInv, NEW s \in FdSet, NEW k \in Conn, StoreFds(s, k)
  PROVE  /\ toClient' \in [Conn -> Seq(DaemonMsg)]
         /\ deposited_fds' \in FdSet \cup {NULL}
         /\ open_fds' \subseteq FdSet \cup StrayFds
         /\ producer_waiting_fds' \in BOOLEAN
         /\ handed' \subseteq ProducerConn \X FdSet
<1>1. CASE producer_waiting_fds
  <2>1. ConnOf(producer) \in ProducerConn \cup {NULL}
    BY DEF BaseInv, RolesOwnStructs, ConnOf
  <2>2. TryDeliver(s, k, ConnOf(producer))
    BY <1>1 DEF StoreFds
  <2>3. QED
    BY <2>1, <2>2, TryDeliverType DEF BaseInv
<1>2. CASE ~producer_waiting_fds
  BY <1>2 DEF StoreFds, BaseInv, TypeOK
<1>3. QED
  BY <1>1, <1>2

\* What Tail does to a nonempty sequence.
LEMMA TailFacts ==
  ASSUME NEW S, NEW s \in Seq(S), s # <<>>
  PROVE  /\ Tail(s) \in Seq(S)
         /\ Len(Tail(s)) = Len(s) - 1
         /\ \A i \in 1..Len(Tail(s)) : i + 1 \in 1..Len(s) /\ Tail(s)[i] = s[i + 1]
OBVIOUS

\* Removing the oldest message, or all of them, keeps types and content.
LEMMA InboxShrinks ==
  ASSUME NEW c \in Conn \cup {NULL}, NEW d \in Conn \cup {NULL}, BaseInv,
         c # NULL => toDaemon[c] # <<>>,
         toDaemon' = Discard(IF c = NULL THEN toDaemon
                             ELSE [toDaemon EXCEPT ![c] = Tail(@)], d)
  PROVE  toDaemon' \in [Conn -> Seq(ClientMsg)] /\ InboxInv'
<1> DEFINE q == IF c = NULL THEN toDaemon ELSE [toDaemon EXCEPT ![c] = Tail(@)]
<1>1. toDaemon \in [Conn -> Seq(ClientMsg)]
  BY DEF BaseInv, TypeOK
<1>2. ASSUME NEW x \in Conn
      PROVE  /\ q[x] \in Seq(ClientMsg)
             /\ \A i \in 1..Len(q[x]) : \E j \in 1..Len(toDaemon[x]) : q[x][i] = toDaemon[x][j]
  <2>1. CASE x = c
    <3>1. q[x] = Tail(toDaemon[x]) /\ toDaemon[x] # <<>> /\ toDaemon[x] \in Seq(ClientMsg)
      BY <1>1, <2>1, NullFacts
    <3> HIDE DEF q
    <3>2. QED
      BY <3>1, TailFacts
  <2>2. CASE x # c
    BY <1>1, <2>2
  <2>3. QED
    BY <2>1, <2>2
<1>3. toDaemon' = [x \in Conn |-> IF x = d THEN <<>> ELSE q[x]]
  BY DEF Discard
<1> HIDE DEF q
<1>4. toDaemon' \in [Conn -> Seq(ClientMsg)]
  <2>1. <<>> \in Seq(ClientMsg)
    OBVIOUS
  <2>2. QED
    BY <1>2, <1>3, <2>1
<1>5. InboxInv'
  <2> SUFFICES ASSUME NEW x \in Conn, NEW i \in 1..Len(toDaemon'[x])
               PROVE  /\ toDaemon'[x][i].type = "CONSUMER_HELLO" => toDaemon'[x][i].arg.owner = x
                      /\ toDaemon'[x][i].type = "PRODUCER_HELLO" => x \in ProducerConn
    BY DEF InboxInv
  <2>1. x # d
    <3>1. x = d => toDaemon'[x] = <<>>
      BY <1>3
    <3>2. Len(<<>>) = 0
      OBVIOUS
    <3>3. QED
      BY <3>1, <3>2
  <2>2. toDaemon'[x] = q[x]
    BY <1>3, <2>1
  <2>3. PICK j \in 1..Len(toDaemon[x]) : toDaemon'[x][i] = toDaemon[x][j]
    <3>1. i \in 1..Len(q[x])
      BY <2>2, Zenon
    <3>2. \E j \in 1..Len(toDaemon[x]) : q[x][i] = toDaemon[x][j]
      BY <1>2, <3>1
    <3>3. QED
      BY <2>2, <3>2
  <2>4. QED
    BY <2>3 DEF BaseInv, InboxInv
<1>6. QED
  BY <1>4, <1>5

\* The message a handler reads.
LEMMA HeadFacts ==
  ASSUME BaseInv, NEW c \in Conn, toDaemon[c] # <<>>
  PROVE  /\ Head(toDaemon[c]) \in ClientMsg
         /\ Head(toDaemon[c]).type = "CONSUMER_HELLO" =>
              Head(toDaemon[c]).arg \in FdSet /\ Head(toDaemon[c]).arg.owner = c
         /\ Head(toDaemon[c]).type = "PRODUCER_HELLO" => c \in ProducerConn
         /\ Head(toDaemon[c]).type = "SCREEN_INFO" => Head(toDaemon[c]).arg \in Screen
         /\ Head(toDaemon[c]).type \in {"PRODUCER_HELLO", "MISPLACED", "FOREIGN"} =>
              Head(toDaemon[c]).arg \in {NULL} \cup StrayFds
<1>1. toDaemon[c] \in Seq(ClientMsg) /\ 1 \in 1..Len(toDaemon[c]) /\ Head(toDaemon[c]) = toDaemon[c][1]
  BY DEF BaseInv, TypeOK
<1>2. Head(toDaemon[c]) \in ClientMsg
  BY <1>1
<1>3. QED
  BY <1>1, <1>2 DEF BaseInv, InboxInv, ClientMsg

\* What drop_client leaves of the roles and the heap.
LEMMA DropClientBase ==
  ASSUME BaseInv, NEW a \in Roles, NEW y \in {NULL} \cup StrayFds, DropClient(a, y)
  PROVE  /\ RolesOwnStructs'
         /\ toDaemon' \in [Conn -> Seq(ClientMsg)] /\ InboxInv'
         /\ consumer' \in Addr \cup {NULL} /\ producer' \in Addr \cup {NULL}
         /\ ctrl_fd' \in [Addr -> Conn \cup {NULL}]
         /\ deposited_fds' \in FdSet \cup {NULL}
         /\ open_fds' \subseteq FdSet \cup StrayFds
         /\ producer_waiting_screen' \in BOOLEAN /\ producer_waiting_fds' \in BOOLEAN
<1>1. a \in Addr /\ ctrl_fd[a] \in Conn
  BY NullFacts DEF BaseInv, RolesOwnStructs, Roles, TypeOK
<1>2. toDaemon' \in [Conn -> Seq(ClientMsg)] /\ InboxInv'
  BY <1>1, InboxShrinks, NullFacts DEF DropClient
<1>3. RolesOwnStructs'
  <2>1. ctrl_fd' = [ctrl_fd EXCEPT ![a] = NULL] /\ ctrl_fd \in [Addr -> Conn \cup {NULL}]
    BY DEF DropClient, BaseInv, TypeOK
  <2>2. Allocated' = Allocated \ {a}
    BY <1>1, <2>1 DEF Allocated
  <2>3. consumer # producer
    BY <1>1, NullFacts DEF BaseInv, RolesOwnStructs, Roles
  <2>4. Roles' = Roles \ {a}
    BY <2>3 DEF DropClient, Roles
  <2>5. QED
    BY <1>1, <2>1, <2>2, <2>3, <2>4, NullFacts DEF BaseInv, RolesOwnStructs, DropClient, Roles, TypeOK
<1>4. QED
  BY <1>1, <1>2, <1>3 DEF DropClient, BaseInv, TypeOK

\* The first state.
LEMMA BaseInit == Init => BaseInv
<1> SUFFICES ASSUME Init PROVE BaseInv
  OBVIOUS
<1> USE NullFacts DEF Init
<1>1. TypeOK
  <2>1. /\ ctrl_fd \in [Addr -> Conn \cup {NULL}]
        /\ peer \in [Conn -> {"none", "open", "closed"}]
        /\ hellos \in [Conn -> 0..MaxHello]
    OBVIOUS
  <2>2. <<>> \in Seq(Conn) /\ <<>> \in Seq(ClientMsg) /\ <<>> \in Seq(DaemonMsg)
    OBVIOUS
  <2>3. toDaemon \in [Conn -> Seq(ClientMsg)] /\ toClient \in [Conn -> Seq(DaemonMsg)]
    BY <2>2
  <2>4. QED
    BY <2>1, <2>2, <2>3 DEF TypeOK
<1>2. RolesOwnStructs
  BY DEF RolesOwnStructs, Allocated, Roles
<1>3. InboxInv
  <2>1. Len(<<>>) = 0
    OBVIOUS
  <2>2. QED
    BY <2>1 DEF InboxInv
<1>4. QED
  BY <1>1, <1>2, <1>3 DEF BaseInv

\* What epoll_wait reports.
LEMMA ReadyType ==
  ASSUME BaseInv PROVE ReadyEvents \subseteq Event
<1>1. AcceptEvent \in Event
  BY DEF AcceptEvent, Event
<1>2. ASSUME NEW a \in Allocated
      PROVE  [ptr |-> a, conn |-> ctrl_fd[a], hup |-> peer[ctrl_fd[a]] = "closed"] \in Event
  <2>1. a \in Addr /\ ctrl_fd[a] \in Conn
    BY DEF Allocated, BaseInv, TypeOK
  <2>2. (peer[ctrl_fd[a]] = "closed") \in BOOLEAN
    OBVIOUS
  <2>3. QED
    BY <2>1, <2>2 DEF Event
<1>3. QED
  BY <1>1, <1>2 DEF ReadyEvents

\* Nothing but the batch changes.
LEMMA EpollBase ==
  ASSUME BaseInv, EpollWait \/ \E e \in batch : SkipStaleEvent(e)
  PROVE  BaseInv'
<1>1. batch' \subseteq Event
  <2>1. CASE EpollWait
    BY <2>1, ReadyType DEF EpollWait
  <2>2. CASE \E e \in batch : SkipStaleEvent(e)
    BY <2>2 DEF SkipStaleEvent, BaseInv, TypeOK
  <2>3. QED
    BY <2>1, <2>2
<1>2. UNCHANGED <<ctx, ctrl_fd, open_fds, backlog, clients, toDaemon, toClient, handed>>
  BY DEF EpollWait, SkipStaleEvent
<1>3. TypeOK'
  BY <1>1, <1>2 DEF BaseInv, TypeOK, ctx, clients
<1>4. RolesOwnStructs' /\ InboxInv'
  BY <1>2 DEF BaseInv, RolesOwnStructs, InboxInv, Allocated, Roles, ctx, clients
<1>5. QED
  BY <1>3, <1>4 DEF BaseInv

LEMMA HangupBase ==
  ASSUME BaseInv, NEW e \in batch, HandleHangup(e)
  PROVE  BaseInv'
<1>1. e.ptr \in Roles /\ DropClient(e.ptr, NULL)
  BY DEF HandleHangup, Roles
<1>2. TypeOK'
  BY <1>1, DropClientBase DEF HandleHangup, BaseInv, TypeOK, clients
<1>3. QED
  BY <1>1, <1>2, DropClientBase DEF BaseInv

\* The connection an event of a current client is read from.
LEMMA ClientOfEvent ==
  ASSUME BaseInv, NEW e \in batch, HandleClientData(e)
  PROVE  /\ e.ptr \in Roles /\ e.ptr \in Addr
         /\ ctrl_fd[e.ptr] \in Conn
         /\ toDaemon[ctrl_fd[e.ptr]] # <<>>
BY NullFacts DEF HandleClientData, BaseInv, RolesOwnStructs, Roles, TypeOK

LEMMA ClientDataBase ==
  ASSUME BaseInv, NEW e \in batch, HandleClientData(e)
  PROVE  BaseInv'
<1> DEFINE c == ctrl_fd[e.ptr]
           m == Head(toDaemon[c])
<1>1. e.ptr \in Roles /\ e.ptr \in Addr /\ c \in Conn /\ toDaemon[c] # <<>>
  BY ClientOfEvent
<1>2. /\ m \in ClientMsg
      /\ m.type = "CONSUMER_HELLO" => m.arg \in FdSet /\ m.arg.owner = c
      /\ m.type = "SCREEN_INFO" => m.arg \in Screen
      /\ m.type \in {"MISPLACED", "FOREIGN"} => m.arg \in {NULL} \cup StrayFds
  BY <1>1, HeadFacts
<1>3. /\ batch' \subseteq Event
      /\ UNCHANGED <<status, backlog, peer, hellos>>
  BY DEF HandleClientData, BaseInv, TypeOK, clients
<1>4. CASE ReadForeign(e.ptr, m)
  <2>1. m.arg \in {NULL} \cup StrayFds /\ DropClient(e.ptr, m.arg)
    BY <1>2, <1>4 DEF ReadForeign
  <2>2. QED
    BY <1>1, <1>3, <1>4, <2>1, DropClientBase DEF ReadForeign, BaseInv, TypeOK
<1>5. ASSUME toDaemon' = [toDaemon EXCEPT ![c] = Tail(@)]
      PROVE  toDaemon' \in [Conn -> Seq(ClientMsg)] /\ InboxInv'
  <2>1. toDaemon' = Discard([toDaemon EXCEPT ![c] = Tail(@)], NULL)
    <3>1. toDaemon \in [Conn -> Seq(ClientMsg)]
      BY DEF BaseInv, TypeOK
    <3>2. QED
      BY <1>5, <3>1, NullFacts DEF Discard
  <2>2. QED
    BY <1>1, <2>1, InboxShrinks, NullFacts
<1>6. ASSUME UNCHANGED <<consumer, producer, ctrl_fd>>
      PROVE  RolesOwnStructs'
  BY <1>6 DEF BaseInv, RolesOwnStructs, Allocated, Roles
<1>7. CASE toDaemon' = [toDaemon EXCEPT ![c] = Tail(@)] /\ ReadConsumerHello(e.ptr, m)
  <2>1. CASE e.ptr = consumer /\ m.arg.n = MAX_FDS
    <3>1. StoreFds(m.arg, c) /\ m.arg \in FdSet
      BY <1>2, <1>7, <2>1 DEF ReadConsumerHello
    <3>2. QED
      BY <1>1, <1>3, <1>5, <1>6, <1>7, <3>1, StoreFdsType DEF ReadConsumerHello, BaseInv, TypeOK
  <2>2. CASE ~(e.ptr = consumer /\ m.arg.n = MAX_FDS)
    BY <1>3, <1>5, <1>6, <1>7, <2>2 DEF ReadConsumerHello, BaseInv, TypeOK
  <2>3. QED
    BY <2>1, <2>2
<1>8. CASE toDaemon' = [toDaemon EXCEPT ![c] = Tail(@)] /\ ReadScreenInfo(e.ptr, m)
  <2>1. m \in DaemonMsg /\ m.arg \in Screen
    BY <1>2, <1>8 DEF ReadScreenInfo, DaemonMsg, ClientMsg
  <2>2. producer # NULL => ctrl_fd[producer] \in Conn
    BY NullFacts DEF BaseInv, RolesOwnStructs
  <2>3. toClient' \in [Conn -> Seq(DaemonMsg)]
    <3>1. toClient' = toClient \/ (producer # NULL /\ toClient' = Post(toClient, ctrl_fd[producer], m))
      BY <1>8 DEF ReadScreenInfo
    <3>2. toClient \in [Conn -> Seq(DaemonMsg)]
      BY DEF BaseInv, TypeOK
    <3>3. producer # NULL => Post(toClient, ctrl_fd[producer], m) \in [Conn -> Seq(DaemonMsg)]
      BY <2>1, <2>2, <3>2, PostType
    <3>4. QED
      BY <3>1, <3>2, <3>3
  <2>4. QED
    BY <1>3, <1>5, <1>6, <1>8, <2>1, <2>3 DEF ReadScreenInfo, BaseInv, TypeOK
<1>9. CASE toDaemon' = [toDaemon EXCEPT ![c] = Tail(@)] /\ ReadPickup(e.ptr, m)
  <2>1. CASE e.ptr = producer
    <3>1. c \in ProducerConn /\ ConnOf(consumer) \in Conn \cup {NULL}
      BY <1>1, <2>1, NullFacts DEF BaseInv, RolesOwnStructs, ConnOf, Roles
    <3>2. TryDeliver(deposited_fds, ConnOf(consumer), c)
      BY <1>9, <2>1 DEF ReadPickup
    <3>3. QED
      BY <1>3, <1>5, <1>6, <1>9, <3>1, <3>2, TryDeliverType DEF ReadPickup, BaseInv, TypeOK
  <2>2. CASE e.ptr # producer
    BY <1>3, <1>5, <1>6, <1>9, <2>2 DEF ReadPickup, BaseInv, TypeOK
  <2>3. QED
    BY <2>1, <2>2
<1>10. CASE toDaemon' = [toDaemon EXCEPT ![c] = Tail(@)] /\ ReadMisplaced(e.ptr, m)
  <2>1. m.arg \in {NULL} \cup StrayFds /\ open_fds' = open_fds \cup ({m.arg} \ {NULL})
    BY <1>2, <1>10 DEF ReadMisplaced
  <2>2. open_fds' \subseteq FdSet \cup StrayFds
    BY <2>1 DEF BaseInv, TypeOK
  <2>3. QED
    BY <1>3, <1>5, <1>6, <1>10, <2>2 DEF ReadMisplaced, BaseInv, TypeOK
<1>11. QED
  BY <1>4, <1>7, <1>8, <1>9, <1>10 DEF HandleClientData

\* The struct of an accepted connection replaces that of the evicted client.
LEMMA InstallBase ==
  ASSUME BaseInv, NEW c \in Conn, toDaemon[c] # <<>>,
         NEW old \in {consumer, producer}, NEW a \in FreshAddr(old), Install(a, c, old)
  PROVE  /\ toDaemon' \in [Conn -> Seq(ClientMsg)] /\ InboxInv'
         /\ ctrl_fd' \in [Addr -> Conn \cup {NULL}]
         /\ a \in Addr /\ a \notin Roles /\ a # NULL
         /\ ctrl_fd'[a] = c
         /\ \A x \in Addr : x # a /\ x # old => ctrl_fd'[x] = ctrl_fd[x]
         /\ Allocated' = (Roles \ {old}) \cup {a}
<1>1. a \in Addr /\ a \notin Roles /\ a # NULL
  BY NullFacts DEF FreshAddr, BaseInv, RolesOwnStructs
<1>2. ConnOf(old) \in Conn \cup {NULL} /\ c # NULL
  BY NullFacts DEF ConnOf, BaseInv, TypeOK
<1>3. toDaemon' \in [Conn -> Seq(ClientMsg)] /\ InboxInv'
  <2>1. toDaemon' = Discard(IF c = NULL THEN toDaemon
                            ELSE [toDaemon EXCEPT ![c] = Tail(@)], ConnOf(old))
    BY <1>2 DEF Install
  <2>2. QED
    BY <1>2, <2>1, InboxShrinks
<1>4. ctrl_fd' = [x \in Addr |-> IF x = a THEN c ELSE IF x = old THEN NULL ELSE ctrl_fd[x]]
  BY DEF Install
<1>5. ctrl_fd' \in [Addr -> Conn \cup {NULL}]
  BY <1>4 DEF BaseInv, TypeOK
<1>6. Allocated' = (Allocated \ {old}) \cup {a}
  BY <1>1, <1>2, <1>4 DEF Allocated
<1>7. QED
  BY <1>1, <1>3, <1>4, <1>5, <1>6 DEF BaseInv, RolesOwnStructs

LEMMA AcceptConsumerBase ==
  ASSUME BaseInv, NEW c \in Conn, toDaemon[c] # <<>>,
         AcceptConsumer(c, Head(toDaemon[c])),
         batch' \subseteq batch, backlog' \in Seq(Conn), UNCHANGED <<status, clients>>
  PROVE  BaseInv'
<1> DEFINE m == Head(toDaemon[c])
<1>1. m.type = "CONSUMER_HELLO" /\ m.arg \in FdSet /\ c \in ConsumerConn
  BY HeadFacts DEF AcceptConsumer, FdSet
<1>2. StoreFds(m.arg, c)
  BY DEF AcceptConsumer
<1>3. PICK a \in FreshAddr(consumer) : Install(a, c, consumer) /\ consumer' = a
  BY DEF AcceptConsumer
<1>4. /\ toDaemon' \in [Conn -> Seq(ClientMsg)] /\ InboxInv'
      /\ ctrl_fd' \in [Addr -> Conn \cup {NULL}]
      /\ a \in Addr /\ a \notin Roles /\ a # NULL
      /\ ctrl_fd'[a] = c
      /\ \A x \in Addr : x # a /\ x # consumer => ctrl_fd'[x] = ctrl_fd[x]
      /\ Allocated' = (Roles \ {consumer}) \cup {a}
  BY <1>3, InstallBase
<1>5. UNCHANGED <<producer, stored_screen, producer_waiting_screen>> /\ consumer' = a
  BY <1>3 DEF AcceptConsumer
<1>6. consumer # NULL => consumer # producer
  BY NullFacts DEF BaseInv, RolesOwnStructs
<1>7. RolesOwnStructs'
  <2>1. Allocated' = Roles'
    BY <1>4, <1>5, <1>6 DEF Roles
  <2>2. producer # NULL => producer \in Addr /\ producer # a /\ producer # consumer
    BY <1>4, <1>6 DEF Roles, BaseInv, TypeOK
  <2>3. QED
    BY <1>1, <1>4, <1>5, <2>1, <2>2 DEF RolesOwnStructs, BaseInv
<1>8. TypeOK'
  BY <1>1, <1>2, <1>4, <1>5, StoreFdsType DEF BaseInv, TypeOK, clients
<1>9. QED
  BY <1>4, <1>7, <1>8 DEF BaseInv

LEMMA AcceptProducerBase ==
  ASSUME BaseInv, NEW c \in Conn, toDaemon[c] # <<>>,
         AcceptProducer(c, Head(toDaemon[c])),
         batch' \subseteq batch, backlog' \in Seq(Conn), UNCHANGED <<status, clients>>
  PROVE  BaseInv'
<1>1. c \in ProducerConn
  BY HeadFacts DEF AcceptProducer
<1>2. PICK a \in FreshAddr(producer) : Install(a, c, producer) /\ producer' = a
  BY DEF AcceptProducer
<1>3. /\ toDaemon' \in [Conn -> Seq(ClientMsg)] /\ InboxInv'
      /\ ctrl_fd' \in [Addr -> Conn \cup {NULL}]
      /\ a \in Addr /\ a \notin Roles /\ a # NULL
      /\ ctrl_fd'[a] = c
      /\ \A x \in Addr : x # a /\ x # producer => ctrl_fd'[x] = ctrl_fd[x]
      /\ Allocated' = (Roles \ {producer}) \cup {a}
  BY <1>2, InstallBase
<1>4. /\ UNCHANGED <<consumer, stored_screen, deposited_fds, handed>>
      /\ producer' = a
      /\ producer_waiting_fds' = FALSE
      /\ producer_waiting_screen' = (stored_screen = NULL)
  BY <1>2 DEF AcceptProducer
<1>5. producer # NULL => consumer # producer
  BY NullFacts DEF BaseInv, RolesOwnStructs
<1>6. RolesOwnStructs'
  <2>1. Allocated' = Roles'
    BY <1>3, <1>4, <1>5 DEF Roles
  <2>2. consumer # NULL => consumer \in Addr /\ consumer # a /\ consumer # producer
    BY <1>3, <1>5 DEF Roles, BaseInv, TypeOK
  <2>3. QED
    BY <1>1, <1>3, <1>4, <2>1, <2>2 DEF RolesOwnStructs, BaseInv
<1>7. toClient' \in [Conn -> Seq(DaemonMsg)]
  <2>1. toClient \in [Conn -> Seq(DaemonMsg)]
    BY DEF BaseInv, TypeOK
  <2>2. stored_screen # NULL => Msg("SCREEN_INFO", stored_screen) \in DaemonMsg
    BY DaemonMsgs DEF BaseInv, TypeOK
  <2>3. QED
    BY <2>1, <2>2, PostType DEF AcceptProducer
<1>8. TypeOK'
  <2>1. /\ Head(toDaemon[c]).arg \in {NULL} \cup StrayFds
        /\ open_fds' = open_fds \cup ({Head(toDaemon[c]).arg} \ {NULL})
    BY HeadFacts DEF AcceptProducer
  <2>2. open_fds' \subseteq FdSet \cup StrayFds
    BY <2>1 DEF BaseInv, TypeOK
  <2>3. QED
    BY <1>3, <1>4, <1>7, <2>2 DEF BaseInv, TypeOK, clients
<1>9. QED
  BY <1>3, <1>6, <1>8 DEF BaseInv

\* A connection that is not taken over is refused, with what came with its
\* first message.
LEMMA NewConnection ==
  ASSUME BaseInv, HandleNewConnection, Head(backlog) \in Conn
  PROVE  LET c == Head(backlog) IN
         \/ toDaemon[c] # <<>> /\ AcceptConsumer(c, Head(toDaemon[c]))
         \/ toDaemon[c] # <<>> /\ AcceptProducer(c, Head(toDaemon[c]))
         \/ \E y \in {NULL} \cup StrayFds : Refuse(c, y)
<1> DEFINE c == Head(backlog)
<1>1. toDaemon[c] # <<>> /\ Head(toDaemon[c]).type \in {"MISPLACED", "FOREIGN"} =>
        Head(toDaemon[c]).arg \in {NULL} \cup StrayFds
  BY HeadFacts
<1>2. QED
  BY <1>1 DEF HandleNewConnection

LEMMA NewConnectionBase ==
  ASSUME BaseInv, HandleNewConnection
  PROVE  BaseInv'
<1> DEFINE c == Head(backlog)
<1>1. c \in Conn /\ backlog' \in Seq(Conn)
  <2>1. backlog \in Seq(Conn) /\ backlog # <<>> /\ backlog' = Tail(backlog)
    BY DEF HandleNewConnection, BaseInv, TypeOK
  <2>2. QED
    BY <2>1
<1>2. batch' \subseteq batch /\ UNCHANGED <<status, clients>>
  BY DEF HandleNewConnection
<1> HIDE DEF c
<1>3. CASE toDaemon[c] # <<>> /\ AcceptConsumer(c, Head(toDaemon[c]))
  BY <1>1, <1>2, <1>3, AcceptConsumerBase
<1>4. CASE toDaemon[c] # <<>> /\ AcceptProducer(c, Head(toDaemon[c]))
  BY <1>1, <1>2, <1>4, AcceptProducerBase
<1>5. ASSUME NEW y \in {NULL} \cup StrayFds, Refuse(c, y)
      PROVE  BaseInv'
  <2>1. toDaemon' = Discard(IF NULL = NULL THEN toDaemon
                            ELSE [toDaemon EXCEPT ![NULL] = Tail(@)], c)
    BY <1>5 DEF Refuse
  <2>2. toDaemon' \in [Conn -> Seq(ClientMsg)] /\ InboxInv'
    BY <1>1, <2>1, InboxShrinks
  <2>3. QED
    BY <1>1, <1>2, <1>5, <2>2
    DEF Refuse, BaseInv, TypeOK, RolesOwnStructs, Allocated, Roles, clients
<1>6. QED
  BY <1>1, <1>3, <1>4, <1>5, NewConnection DEF c

\* The end of the process, and its start.
LEMMA TeardownBase ==
  ASSUME BaseInv, Teardown
  PROVE  BaseInv'
<1> USE NullFacts DEF Teardown
<1>1. TypeOK'
  <2>1. ctrl_fd' \in [Addr -> Conn \cup {NULL}]
    OBVIOUS
  <2>2. <<>> \in Seq(Conn) /\ <<>> \in Seq(ClientMsg)
    OBVIOUS
  <2>3. toDaemon' \in [Conn -> Seq(ClientMsg)]
    BY <2>2
  <2>4. QED
    BY <2>1, <2>2, <2>3 DEF BaseInv, TypeOK, clients
<1>2. RolesOwnStructs'
  BY DEF RolesOwnStructs, Allocated, Roles
<1>3. InboxInv'
  <2>1. \A c \in Conn : toDaemon'[c] = <<>>
    OBVIOUS
  <2>2. Len(<<>>) = 0
    OBVIOUS
  <2>3. QED
    BY <2>1, <2>2 DEF InboxInv
<1>4. QED
  BY <1>1, <1>2, <1>3 DEF BaseInv

LEMMA StatusBase ==
  ASSUME BaseInv, Stop \/ Restart
  PROVE  BaseInv'
BY DEF Stop, Restart, BaseInv, TypeOK, RolesOwnStructs, Allocated, Roles, InboxInv, clients

\* What a send does to the inboxes, whatever it does to the client's own queue.
Sends(c, m) ==
  /\ toDaemon' = [toDaemon EXCEPT ![c] = Append(@, m)]
  /\ UNCHANGED <<daemonState, backlog, peer>>

\* A message a client may send keeps the inboxes well formed.
LEMMA SendBase ==
  ASSUME BaseInv, NEW c \in Conn, NEW m \in ClientMsg, Sends(c, m),
         toClient' \in [Conn -> Seq(DaemonMsg)],
         m.type = "CONSUMER_HELLO" => m.arg.owner = c,
         m.type = "PRODUCER_HELLO" => c \in ProducerConn,
         hellos' \in [Conn -> 0..MaxHello]
  PROVE  BaseInv'
<1>1. toDaemon \in [Conn -> Seq(ClientMsg)]
  BY DEF BaseInv, TypeOK
<1>2. toDaemon' = [toDaemon EXCEPT ![c] = Append(@, m)]
  BY DEF Sends
<1>3. Append(toDaemon[c], m) \in Seq(ClientMsg)
  BY <1>1
<1>4. toDaemon' \in [Conn -> Seq(ClientMsg)]
  BY <1>1, <1>2, <1>3
<1>5. InboxInv'
  <2> SUFFICES ASSUME NEW x \in Conn, NEW i \in 1..Len(toDaemon'[x])
               PROVE  /\ toDaemon'[x][i].type = "CONSUMER_HELLO" => toDaemon'[x][i].arg.owner = x
                      /\ toDaemon'[x][i].type = "PRODUCER_HELLO" => x \in ProducerConn
    BY DEF InboxInv
  <2>1. CASE x # c
    BY <1>1, <1>2, <2>1 DEF BaseInv, InboxInv
  <2>2. CASE x = c
    <3>1. toDaemon'[x] = Append(toDaemon[c], m)
      BY <1>1, <1>2, <2>2
    <3>2. (i \in 1..Len(toDaemon[c]) /\ toDaemon'[x][i] = toDaemon[c][i]) \/ toDaemon'[x][i] = m
      BY <1>1, <3>1
    <3>3. QED
      BY <2>2, <3>2 DEF BaseInv, InboxInv
  <2>3. QED
    BY <2>1, <2>2
<1>6. TypeOK'
  BY <1>4 DEF Sends, BaseInv, TypeOK, daemonState, ctx
<1>7. RolesOwnStructs'
  BY DEF Sends, BaseInv, RolesOwnStructs, Allocated, Roles, daemonState, ctx
<1>8. QED
  BY <1>5, <1>6, <1>7 DEF BaseInv

\* The sends of Daemon.tla are such sends.
LEMMA ClientSends ==
  ASSUME BaseInv, NEW c \in Conn, NEW m, ClientSend(c, m)
  PROVE  Sends(c, m) /\ toClient' \in [Conn -> Seq(DaemonMsg)]
BY DEF ClientSend, Sends, BaseInv, TypeOK

LEMMA ClientBase ==
  ASSUME BaseInv, ClientNext
  PROVE  BaseInv'
<1> PICK c \in Conn :
      \/ ClientConnect(c)
      \/ SendHello(c)
      \/ \E s \in Screen : SendScreenInfo(c, s)
      \/ SendPickup(c)
      \/ SendForeign(c)
      \/ ClientRead(c)
      \/ ClientClose(c)
  BY DEF ClientNext
<1>1. CASE ClientConnect(c)
  <2>1. backlog' \in Seq(Conn)
    BY <1>1 DEF ClientConnect, BaseInv, TypeOK
  <2>2. QED
    BY <1>1, <2>1
    DEF ClientConnect, BaseInv, TypeOK, RolesOwnStructs, Allocated, Roles, InboxInv, daemonState, ctx
<1>2. CASE \E n \in FdCount : SendConsumerHello(c, n)
  <2> PICK n \in FdCount : SendConsumerHello(c, n)
    BY <1>2
  <2> DEFINE m == Msg("CONSUMER_HELLO", [owner |-> c, gen |-> hellos[c] + 1, n |-> n])
  <2>1. c \in ConsumerConn /\ hellos[c] < MaxHello /\ hellos[c] \in 0..MaxHello
    BY DEF SendConsumerHello, BaseInv, TypeOK
  <2>2. hellos[c] + 1 \in 1..MaxHello
    BY <2>1, NullFacts
  <2>3. m \in ClientMsg /\ m.type = "CONSUMER_HELLO" /\ m.arg.owner = c
    BY <2>1, <2>2 DEF Msg, ClientMsg, FdSet
  <2>4. hellos' \in [Conn -> 0..MaxHello]
    BY <2>1, <2>2 DEF SendConsumerHello, BaseInv, TypeOK
  <2>5. Sends(c, m) /\ toClient' \in [Conn -> Seq(DaemonMsg)]
    BY ClientSends DEF SendConsumerHello
  <2> HIDE DEF m
  <2>6. QED
    BY <2>3, <2>4, <2>5, SendBase
<1>3. CASE \E x \in {NULL} \cup StrayFds : SendProducerHello(c, x)
  <2> PICK x \in {NULL} \cup StrayFds : SendProducerHello(c, x)
    BY <1>3
  <2>1. Msg("PRODUCER_HELLO", x) \in ClientMsg
    BY StrayFacts DEF Msg, ClientMsg
  <2>2. hellos' \in [Conn -> 0..MaxHello]
    BY DaemonAssumption DEF SendProducerHello, BaseInv, TypeOK
  <2>3. QED
    BY <2>1, <2>2, ClientSends, SendBase DEF SendProducerHello, Msg
<1>4. ASSUME NEW m \in ClientMsg, m.type \in {"SCREEN_INFO", "PICKUP_FDS", "MISPLACED", "FOREIGN"},
             ClientSend(c, m), UNCHANGED hellos
      PROVE  BaseInv'
  <2>1. hellos' \in [Conn -> 0..MaxHello]
    BY <1>4 DEF BaseInv, TypeOK
  <2>2. QED
    BY <1>4, <2>1, ClientSends, SendBase
<1>5. CASE \E s \in Screen : SendScreenInfo(c, s)
  <2> PICK s \in Screen : SendScreenInfo(c, s)
    BY <1>5
  <2>1. Msg("SCREEN_INFO", s) \in ClientMsg /\ Msg("SCREEN_INFO", s).type = "SCREEN_INFO"
    BY DEF Msg, ClientMsg
  <2>2. QED
    BY <1>4, <2>1 DEF SendScreenInfo
<1>6. CASE SendPickup(c)
  <2>1. Msg("PICKUP_FDS", NULL) \in ClientMsg /\ Msg("PICKUP_FDS", NULL).type = "PICKUP_FDS"
    BY DEF Msg, ClientMsg
  <2>2. QED
    BY <1>4, <1>6, <2>1 DEF SendPickup
<1>7. CASE SendForeign(c)
  <2>1. PICK type \in {"MISPLACED", "FOREIGN"}, x \in {NULL} \cup StrayFds :
          ClientSend(c, Msg(type, x)) /\ UNCHANGED hellos
    BY <1>7 DEF SendForeign, NotSent
  <2>2. Msg(type, x) \in ClientMsg /\ Msg(type, x).type = type
    BY StrayFacts DEF Msg, ClientMsg
  <2>3. QED
    BY <1>4, <2>1, <2>2
<1>8. CASE ClientRead(c)
  <2>1. toClient \in [Conn -> Seq(DaemonMsg)] /\ toClient[c] # <<>>
    BY <1>8 DEF ClientRead, BaseInv, TypeOK
  <2>2. Tail(toClient[c]) \in Seq(DaemonMsg)
    BY <2>1, TailFacts
  <2>3. toClient' \in [Conn -> Seq(DaemonMsg)]
    BY <1>8, <2>1, <2>2 DEF ClientRead
  <2>4. QED
    BY <1>8, <2>3
    DEF ClientRead, BaseInv, TypeOK, RolesOwnStructs, Allocated, Roles, InboxInv, daemonState, ctx, clients
<1>9. CASE ClientClose(c)
  <2>1. toClient' \in [Conn -> Seq(DaemonMsg)]
    <3>1. <<>> \in Seq(DaemonMsg)
      OBVIOUS
    <3>2. QED
      BY <1>9, <3>1 DEF ClientClose, BaseInv, TypeOK
  <2>2. QED
    BY <1>9, <2>1
    DEF ClientClose, BaseInv, TypeOK, RolesOwnStructs, Allocated, Roles, InboxInv, daemonState, ctx
<1>10. QED
  BY <1>1, <1>2, <1>3, <1>5, <1>6, <1>7, <1>8, <1>9 DEF SendHello, NotSent

\* Layer 1 is inductive.
LEMMA BaseStep == BaseInv /\ [Next]_vars => BaseInv'
<1> SUFFICES ASSUME BaseInv, [Next]_vars PROVE BaseInv'
  OBVIOUS
<1>1. CASE EpollWait \/ \E e \in batch : SkipStaleEvent(e)
  BY <1>1, EpollBase
<1>2. CASE \E e \in batch : HandleHangup(e)
  BY <1>2, HangupBase
<1>3. CASE \E e \in batch : HandleClientData(e)
  BY <1>3, ClientDataBase
<1>4. CASE HandleNewConnection
  BY <1>4, NewConnectionBase
<1>5. CASE Stop \/ Restart
  BY <1>5, StatusBase
<1>6. CASE Destroy \/ Kill
  BY <1>6, TeardownBase DEF Destroy, Kill
<1>7. CASE ClientNext
  BY <1>7, ClientBase
<1>8. CASE UNCHANGED vars
  BY <1>8 DEF vars, ctx, clients, BaseInv, TypeOK, RolesOwnStructs, Allocated, Roles, InboxInv
<1>9. QED
  BY <1>1, <1>2, <1>3, <1>4, <1>5, <1>6, <1>7, <1>8 DEF Next, DaemonNext

\* Every variable keeps its type.
THEOREM TypeCorrect == Spec => []TypeOK
<1>1. BaseInv => TypeOK
  BY DEF BaseInv
<1>2. QED
  BY BaseInit, BaseStep, <1>1, PTL DEF Spec

\* client structs: no leak, no use after free.
THEOREM StructsOwned == Spec => []RolesOwnStructs
<1>1. BaseInv => RolesOwnStructs
  BY DEF BaseInv
<1>2. QED
  BY BaseInit, BaseStep, <1>1, PTL DEF Spec

-----------------------------------------------------------------------------
(* Layer 2: the batch of events.                                           *)

\* epoll reports a client once.  The listening socket's event is the only one
\* that can hand an address to a new client: as long as it is pending, a
\* client of the batch loses its struct to nothing but its own event.
BatchInv ==
  /\ \A e, f \in batch : e.ptr = f.ptr => e = f
  /\ AcceptEvent \in batch =>
       \A e \in batch : e.ptr # NULL => e.ptr \in Roles /\ ctrl_fd[e.ptr] = e.conn
  /\ EventsReachTheirClient

\* A step that takes nothing but one event, and frees nothing but its client.
LEMMA BatchShrinks ==
  ASSUME BaseInv, BatchInv, NEW e \in batch, batch' = batch \ {e},
         Roles' \in {Roles, Roles \ {e.ptr}},
         \A x \in Roles : x # e.ptr => ctrl_fd'[x] = ctrl_fd[x],
         e.ptr \in Roles' => ctrl_fd'[e.ptr] = ctrl_fd[e.ptr]
  PROVE  BatchInv'
<1>1. \A f \in batch' : f \in batch /\ f.ptr # e.ptr
  BY DEF BatchInv
<1>2. \A f \in batch' : f.ptr \in Roles => f.ptr \in Roles' /\ ctrl_fd'[f.ptr] = ctrl_fd[f.ptr]
  BY <1>1
<1>3. EventsReachTheirClient'
  BY <1>1, <1>2 DEF BatchInv, EventsReachTheirClient
<1>4. QED
  BY <1>1, <1>2, <1>3 DEF BatchInv, AcceptEvent

LEMMA EpollBatch ==
  ASSUME BaseInv, EpollWait
  PROVE  BatchInv'
<1>1. \A e \in ReadyEvents :
        \/ e = AcceptEvent
        \/ e.ptr \in Allocated /\ e.conn = ctrl_fd[e.ptr]
             /\ e.hup = (peer[ctrl_fd[e.ptr]] = "closed")
             /\ e = [ptr |-> e.ptr, conn |-> e.conn, hup |-> e.hup]
  BY DEF ReadyEvents, Allocated
<1>2. batch' = ReadyEvents /\ UNCHANGED <<consumer, producer, ctrl_fd>>
  BY DEF EpollWait, ctx
<1>3. Allocated = Roles /\ NULL \notin Roles /\ AcceptEvent.ptr = NULL
  BY DEF BaseInv, RolesOwnStructs, Roles, AcceptEvent
<1>4. \A e, f \in ReadyEvents : e.ptr = f.ptr => e = f
  BY <1>1, <1>3
<1>5. \A e \in ReadyEvents : e.ptr # NULL => e.ptr \in Roles /\ ctrl_fd[e.ptr] = e.conn
  BY <1>1, <1>3
<1>6. \A e \in ReadyEvents : e.ptr \in Roles => ctrl_fd[e.ptr] = e.conn
  BY <1>1, <1>3
<1>7. Roles' = Roles
  BY <1>2 DEF Roles
<1>8. QED
  BY <1>2, <1>4, <1>5, <1>6, <1>7 DEF BatchInv, EventsReachTheirClient, AcceptEvent

\* The roles drop_client leaves.
LEMMA DropClientRoles ==
  ASSUME BaseInv, NEW a \in Roles, NEW y \in {NULL} \cup StrayFds, DropClient(a, y)
  PROVE  /\ Roles' = Roles \ {a}
         /\ \A x \in Addr : x # a => ctrl_fd'[x] = ctrl_fd[x]
<1>1. a \in Addr /\ consumer # producer
  BY NullFacts DEF BaseInv, RolesOwnStructs, Roles, TypeOK
<1>2. QED
  BY <1>1 DEF DropClient, Roles, BaseInv, TypeOK

LEMMA NewConnectionBatch ==
  ASSUME BaseInv, BatchInv, HandleNewConnection
  PROVE  BatchInv'
<1> DEFINE c == Head(backlog)
<1>1. AcceptEvent \in batch /\ batch' = batch \ {AcceptEvent} /\ c \in Conn
  BY DEF HandleNewConnection, BaseInv, TypeOK
<1>2. \A e \in batch' : e \in batch /\ e.ptr # NULL /\ e.ptr \in Roles /\ ctrl_fd[e.ptr] = e.conn
  BY <1>1 DEF BatchInv, AcceptEvent
<1>3. ASSUME NEW old \in {consumer, producer}, NEW a \in FreshAddr(old), Install(a, c, old),
             toDaemon[c] # <<>>, Roles' \subseteq (Roles \ {old}) \cup {a}
      PROVE  \A e \in batch' : e.ptr \in Roles' => ctrl_fd'[e.ptr] = e.conn
  <2>1. a \notin Roles /\ \A x \in Addr : x # a /\ x # old => ctrl_fd'[x] = ctrl_fd[x]
    BY <1>1, <1>3, InstallBase
  <2>2. Roles \subseteq Addr
    BY DEF Roles, BaseInv, TypeOK
  <2>3. QED
    BY <1>2, <1>3, <2>1, <2>2
<1>4. EventsReachTheirClient'
  <2>1. CASE toDaemon[c] # <<>> /\ AcceptConsumer(c, Head(toDaemon[c]))
    <3>1. PICK a \in FreshAddr(consumer) : Install(a, c, consumer) /\ consumer' = a
      BY <2>1 DEF AcceptConsumer
    <3>2. consumer # NULL => consumer # producer
      BY NullFacts DEF BaseInv, RolesOwnStructs
    <3>3. Roles' \subseteq (Roles \ {consumer}) \cup {a}
      BY <2>1, <3>1, <3>2 DEF AcceptConsumer, Roles
    <3>4. QED
      BY <1>3, <2>1, <3>1, <3>3 DEF EventsReachTheirClient
  <2>2. CASE toDaemon[c] # <<>> /\ AcceptProducer(c, Head(toDaemon[c]))
    <3>1. PICK a \in FreshAddr(producer) : Install(a, c, producer) /\ producer' = a
      BY <2>2 DEF AcceptProducer
    <3>2. producer # NULL => consumer # producer
      BY NullFacts DEF BaseInv, RolesOwnStructs
    <3>3. Roles' \subseteq (Roles \ {producer}) \cup {a}
      BY <2>2, <3>1, <3>2 DEF AcceptProducer, Roles
    <3>4. QED
      BY <1>3, <2>2, <3>1, <3>3 DEF EventsReachTheirClient
  <2>3. CASE \E y : Refuse(c, y)
    BY <1>2, <2>3 DEF EventsReachTheirClient, Refuse
  <2>4. QED
    BY <2>1, <2>2, <2>3 DEF HandleNewConnection
<1>5. QED
  BY <1>1, <1>2, <1>4 DEF BatchInv

\* Steps that take no event of a client that stays, and move no struct.
LEMMA SameBatch ==
  ASSUME BatchInv, UNCHANGED <<batch, consumer, producer, ctrl_fd>>
  PROVE  BatchInv'
BY DEF BatchInv, EventsReachTheirClient, Roles

LEMMA BatchStep == BaseInv /\ BatchInv /\ [Next]_vars => BatchInv'
<1> SUFFICES ASSUME BaseInv, BatchInv, [Next]_vars PROVE BatchInv'
  OBVIOUS
<1>1. CASE EpollWait
  BY <1>1, EpollBatch
<1>2. CASE \E e \in batch : SkipStaleEvent(e)
  <2> PICK e \in batch : SkipStaleEvent(e)
    BY <1>2
  <2>1. batch' = batch \ {e} /\ Roles' = Roles /\ ctrl_fd' = ctrl_fd
    BY DEF SkipStaleEvent, Roles, ctx
  <2>2. QED
    BY <2>1, BatchShrinks
<1>3. CASE \E e \in batch : HandleHangup(e)
  <2> PICK e \in batch : HandleHangup(e)
    BY <1>3
  <2>1. e.ptr \in Roles /\ DropClient(e.ptr, NULL) /\ batch' = batch \ {e}
    BY DEF HandleHangup, Roles
  <2>2. Roles' = Roles \ {e.ptr} /\ \A x \in Addr : x # e.ptr => ctrl_fd'[x] = ctrl_fd[x]
    BY <2>1, DropClientRoles
  <2>3. Roles \subseteq Addr
    BY DEF Roles, BaseInv, TypeOK
  <2>4. QED
    BY <2>1, <2>2, <2>3, BatchShrinks
<1>4. CASE \E e \in batch : HandleClientData(e)
  <2> PICK e \in batch : HandleClientData(e)
    BY <1>4
  <2> DEFINE m == Head(toDaemon[ctrl_fd[e.ptr]])
  <2>1. e.ptr \in Roles /\ batch' = batch \ {e} /\ Roles \subseteq Addr
    BY DEF HandleClientData, Roles, BaseInv, TypeOK
  <2>2. CASE ReadForeign(e.ptr, m)
    <3>1. m.arg \in {NULL} \cup StrayFds /\ DropClient(e.ptr, m.arg)
      BY <2>2, ClientOfEvent, HeadFacts DEF ReadForeign
    <3>2. Roles' = Roles \ {e.ptr} /\ \A x \in Addr : x # e.ptr => ctrl_fd'[x] = ctrl_fd[x]
      BY <2>1, <3>1, DropClientRoles
    <3>3. QED
      BY <2>1, <3>2, BatchShrinks
  <2>3. CASE \/ ReadConsumerHello(e.ptr, m) \/ ReadScreenInfo(e.ptr, m)
             \/ ReadPickup(e.ptr, m) \/ ReadMisplaced(e.ptr, m)
    <3>1. Roles' = Roles /\ ctrl_fd' = ctrl_fd
      BY <2>3 DEF ReadConsumerHello, ReadScreenInfo, ReadPickup, ReadMisplaced, Roles
    <3>2. QED
      BY <2>1, <3>1, BatchShrinks
  <2>4. QED
    BY <2>2, <2>3 DEF HandleClientData
<1>5. CASE HandleNewConnection
  BY <1>5, NewConnectionBatch
<1>6. CASE Stop \/ Restart
  BY <1>6, SameBatch DEF Stop, Restart
<1>7. CASE Destroy \/ Kill
  BY <1>7 DEF Destroy, Kill, Teardown, BatchInv, EventsReachTheirClient
<1>8. CASE ClientNext
  BY <1>8, SameBatch
  DEF ClientNext, ClientConnect, SendHello, SendConsumerHello, SendProducerHello, SendScreenInfo,
      SendPickup, SendForeign, ClientSend, ClientRead, ClientClose, daemonState, ctx
<1>9. CASE UNCHANGED vars
  BY <1>9, SameBatch DEF vars, ctx
<1>10. QED
  BY <1>1, <1>2, <1>3, <1>4, <1>5, <1>6, <1>7, <1>8, <1>9 DEF Next, DaemonNext

\* daemon_run's guard suffices: whatever address is freed and allocated again
\* while a batch is handled, an event is handled for its own connection.
THEOREM EventsSafe == Spec => []EventsReachTheirClient
<1>1. Init => BaseInv /\ BatchInv
  BY BaseInit DEF Init, BatchInv, EventsReachTheirClient
<1>2. BaseInv /\ BatchInv /\ [Next]_vars => BaseInv' /\ BatchInv'
  BY BaseStep, BatchStep
<1>3. BatchInv => EventsReachTheirClient
  BY DEF BatchInv
<1>4. QED
  BY <1>1, <1>2, <1>3, PTL DEF Spec

-----------------------------------------------------------------------------
(* Layer 3: deposits, descriptors and waiting flags.                       *)

\* A connection the daemon knows of was made, so that it stays closed once
\* its client has closed it.
KnownConns ==
  /\ \A a \in Addr : ctrl_fd[a] # NULL => peer[ctrl_fd[a]] \in {"open", "closed"}
  /\ \A i \in 1..Len(backlog) : peer[backlog[i]] \in {"open", "closed"}

HandInv ==
  /\ DepositIsConsumers
  /\ FdsAccounted
  /\ ScreenRendezvous
  /\ NoMissedHandOver
  /\ KnownConns

\* try_deliver_fds leaves a deposit or a waiting producer, not both, unless
\* the producer is dead.
LEMMA TryDeliverHand ==
  ASSUME BaseInv, HandInv, NEW s \in FdSet \cup {NULL}, NEW k, NEW p, TryDeliver(s, k, p)
  PROVE  /\ deposited_fds' \in {NULL, s}
         /\ open_fds' \ StrayFds = {deposited_fds'} \ {NULL}
         /\ producer_waiting_fds' /\ p # NULL /\ Complete(deposited_fds') => peer[p] # "open"
<1>1. (open_fds \ {deposited_fds}) \ StrayFds = {} /\ s \notin StrayFds
  BY StrayFacts DEF HandInv, FdsAccounted
<1>2. CASE CanDeliver(s, p)
  BY <1>1, <1>2 DEF TryDeliver, Complete
<1>3. CASE ~CanDeliver(s, p)
  BY <1>1, <1>3 DEF TryDeliver, CanDeliver
<1>4. QED
  BY <1>2, <1>3

\* So does a deposit.
LEMMA StoreFdsHand ==
  ASSUME BaseInv, HandInv, NEW s \in FdSet, NEW k, StoreFds(s, k)
  PROVE  /\ deposited_fds' \in {NULL, s}
         /\ open_fds' \ StrayFds = {deposited_fds'} \ {NULL}
         /\ producer_waiting_fds' =>
              producer # NULL /\ (Complete(deposited_fds') => peer[ctrl_fd[producer]] = "closed")
<1>1. CASE producer_waiting_fds
  <2>1. producer # NULL /\ producer \in Addr /\ ctrl_fd[producer] \in ProducerConn
    BY <1>1 DEF HandInv, NoMissedHandOver, BaseInv, RolesOwnStructs, TypeOK
  <2>2. ConnOf(producer) = ctrl_fd[producer] /\ ctrl_fd[producer] # NULL
    BY <2>1, NullFacts DEF ConnOf
  <2>3. TryDeliver(s, k, ConnOf(producer))
    BY <1>1 DEF StoreFds
  <2>4. peer[ctrl_fd[producer]] \in {"open", "closed"}
    BY <2>1, <2>2 DEF HandInv, KnownConns
  <2>5. QED
    BY <2>1, <2>2, <2>3, <2>4, TryDeliverHand
<1>2. CASE ~producer_waiting_fds
  BY <1>2, NullFacts, StrayFacts DEF StoreFds, HandInv, FdsAccounted
<1>3. QED
  BY <1>1, <1>2

\* drop_client takes the state of the role along.
LEMMA DropClientHand ==
  ASSUME BaseInv, HandInv, NEW a \in Roles, NEW y \in {NULL} \cup StrayFds, DropClient(a, y),
         UNCHANGED <<stored_screen, backlog, clients>>
  PROVE  HandInv'
<1>1. a \in Addr /\ (consumer # NULL => consumer # producer)
  BY NullFacts DEF BaseInv, RolesOwnStructs, Roles, TypeOK
<1>2. ctrl_fd' = [ctrl_fd EXCEPT ![a] = NULL] /\ ctrl_fd \in [Addr -> Conn \cup {NULL}]
  BY DEF DropClient, BaseInv, TypeOK
<1>3. KnownConns'
  BY <1>1, <1>2 DEF HandInv, KnownConns, clients
<1>4. CASE a = consumer
  <2>1. /\ consumer' = NULL /\ deposited_fds' = NULL
        /\ open_fds' = (open_fds \ {deposited_fds}) \cup ({y} \ {NULL})
        /\ UNCHANGED <<producer, producer_waiting_screen, producer_waiting_fds>>
    BY <1>4 DEF DropClient
  <2>2. FdsAccounted' /\ DepositIsConsumers' /\ ScreenRendezvous'
    BY <2>1 DEF HandInv, FdsAccounted, DepositIsConsumers, ScreenRendezvous
  <2>3. NoMissedHandOver'
    BY <2>1 DEF HandInv, NoMissedHandOver, Complete
  <2>4. QED
    BY <1>3, <2>2, <2>3 DEF HandInv
<1>5. CASE a # consumer
  <2>1. /\ producer' = NULL /\ ~producer_waiting_screen' /\ ~producer_waiting_fds'
        /\ open_fds' = open_fds \cup ({y} \ {NULL})
        /\ UNCHANGED <<consumer, deposited_fds>>
    BY <1>5 DEF DropClient
  <2>2. FdsAccounted' /\ ScreenRendezvous' /\ NoMissedHandOver'
    BY <2>1 DEF HandInv, FdsAccounted, ScreenRendezvous, NoMissedHandOver
  <2>3. DepositIsConsumers'
    BY <1>1, <1>2, <1>5, <2>1 DEF HandInv, DepositIsConsumers, BaseInv, TypeOK
  <2>4. QED
    BY <1>3, <2>2, <2>3 DEF HandInv
<1>6. QED
  BY <1>4, <1>5

\* Steps of the clients and of the loop that touch none of this.
LEMMA SameHand ==
  ASSUME HandInv,
         UNCHANGED <<consumer, producer, stored_screen, deposited_fds, producer_waiting_screen,
                     producer_waiting_fds, ctrl_fd>>,
         open_fds' \ StrayFds = open_fds \ StrayFds,
         KnownConns',
         \A c \in Conn : peer[c] = "closed" => peer'[c] = "closed",
         producer # NULL => ctrl_fd[producer] \in Conn
  PROVE  HandInv'
<1>1. DepositIsConsumers' /\ FdsAccounted' /\ ScreenRendezvous'
  BY DEF HandInv, DepositIsConsumers, FdsAccounted, ScreenRendezvous
<1>2. NoMissedHandOver'
  BY DEF HandInv, NoMissedHandOver, Complete
<1>3. QED
  BY <1>1, <1>2 DEF HandInv

LEMMA ClientDataHand ==
  ASSUME BaseInv, HandInv, NEW e \in batch, HandleClientData(e)
  PROVE  HandInv'
<1> DEFINE c == ctrl_fd[e.ptr]
           m == Head(toDaemon[c])
<1>1. e.ptr \in Roles /\ e.ptr \in Addr /\ c \in Conn /\ toDaemon[c] # <<>>
  BY ClientOfEvent
<1>2. /\ m.type = "CONSUMER_HELLO" => m.arg \in FdSet /\ m.arg.owner = c
      /\ m.type = "SCREEN_INFO" => m.arg \in Screen
      /\ m.type \in {"MISPLACED", "FOREIGN"} => m.arg \in {NULL} \cup StrayFds
  BY <1>1, HeadFacts
<1>3. UNCHANGED <<backlog, clients>>
  BY DEF HandleClientData
<1>4. ctrl_fd' = ctrl_fd => KnownConns'
  BY <1>3 DEF HandInv, KnownConns, clients
<1>5. producer # NULL => ctrl_fd[producer] \in Conn
  BY NullFacts DEF BaseInv, RolesOwnStructs
<1> HIDE DEF m
<1>6. CASE ReadForeign(e.ptr, m)
  BY <1>1, <1>2, <1>3, <1>6, DropClientHand DEF ReadForeign
<1>7. CASE ReadConsumerHello(e.ptr, m)
  <2>1. UNCHANGED <<stored_screen, producer_waiting_screen, consumer, producer, ctrl_fd>>
    BY <1>7 DEF ReadConsumerHello
  <2>2. CASE e.ptr = consumer /\ m.arg.n = MAX_FDS
    <3>1. StoreFds(m.arg, c) /\ m.arg \in FdSet /\ m.arg.owner = c
      BY <1>2, <1>7, <2>2 DEF ReadConsumerHello
    <3>2. /\ deposited_fds' \in {NULL, m.arg}
          /\ open_fds' \ StrayFds = {deposited_fds'} \ {NULL}
          /\ producer_waiting_fds' =>
               producer # NULL /\ (Complete(deposited_fds') => peer[ctrl_fd[producer]] = "closed")
      BY <3>1, StoreFdsHand
    <3>3. consumer # NULL
      BY <1>1, <2>2 DEF Roles
    <3>4. DepositIsConsumers'
      BY <2>1, <2>2, <3>1, <3>2, <3>3 DEF DepositIsConsumers
    <3>5. NoMissedHandOver'
      BY <1>3, <2>1, <3>2 DEF NoMissedHandOver, Complete, clients
    <3>6. FdsAccounted' /\ ScreenRendezvous'
      BY <2>1, <3>2 DEF HandInv, FdsAccounted, ScreenRendezvous
    <3>7. QED
      BY <1>4, <2>1, <3>4, <3>5, <3>6 DEF HandInv
  <2>3. CASE ~(e.ptr = consumer /\ m.arg.n = MAX_FDS)
    BY <1>3, <1>4, <1>5, <1>7, <2>3, SameHand DEF ReadConsumerHello, clients
  <2>4. QED
    BY <2>2, <2>3
<1>8. CASE ReadScreenInfo(e.ptr, m)
  <2>1. UNCHANGED <<deposited_fds, open_fds, producer_waiting_fds, consumer, producer, ctrl_fd>>
    BY <1>8 DEF ReadScreenInfo
  <2>2. DepositIsConsumers' /\ FdsAccounted' /\ NoMissedHandOver'
    BY <1>3, <2>1 DEF HandInv, DepositIsConsumers, FdsAccounted, NoMissedHandOver, Complete, clients
  <2>3. ScreenRendezvous'
    <3>1. m.arg # NULL
      BY <1>2, <1>8, NullFacts DEF ReadScreenInfo
    <3>2. producer_waiting_screen \in BOOLEAN
      BY DEF BaseInv, TypeOK
    <3>3. QED
      BY <1>8, <2>1, <3>1, <3>2 DEF ReadScreenInfo, HandInv, ScreenRendezvous
  <2>4. QED
    BY <1>4, <2>1, <2>2, <2>3 DEF HandInv
<1>9. CASE ReadPickup(e.ptr, m)
  <2>1. UNCHANGED <<stored_screen, producer_waiting_screen, consumer, producer, ctrl_fd>>
    BY <1>9 DEF ReadPickup
  <2>2. CASE e.ptr = producer
    <3>1. TryDeliver(deposited_fds, ConnOf(consumer), c) /\ deposited_fds \in FdSet \cup {NULL}
      BY <1>9, <2>2 DEF ReadPickup, BaseInv, TypeOK
    <3>2. /\ deposited_fds' \in {NULL, deposited_fds}
          /\ open_fds' \ StrayFds = {deposited_fds'} \ {NULL}
          /\ producer_waiting_fds' /\ Complete(deposited_fds') => peer[c] # "open"
      BY <1>1, <3>1, NullFacts, TryDeliverHand
    <3>3. producer # NULL /\ peer[c] \in {"open", "closed"}
      BY <1>1, <2>2, NullFacts DEF Roles, HandInv, KnownConns
    <3>4. NoMissedHandOver'
      BY <1>3, <2>1, <2>2, <3>2, <3>3 DEF NoMissedHandOver, Complete, clients
    <3>5. DepositIsConsumers' /\ FdsAccounted' /\ ScreenRendezvous'
      BY <2>1, <3>2 DEF HandInv, DepositIsConsumers, FdsAccounted, ScreenRendezvous
    <3>6. QED
      BY <1>4, <2>1, <3>4, <3>5 DEF HandInv
  <2>3. CASE e.ptr # producer
    BY <1>3, <1>4, <1>5, <1>9, <2>3, SameHand DEF ReadPickup, clients
  <2>4. QED
    BY <2>2, <2>3
<1>10. CASE ReadMisplaced(e.ptr, m)
  <2>1. open_fds' \ StrayFds = open_fds \ StrayFds
    BY <1>2, <1>10 DEF ReadMisplaced
  <2>2. QED
    BY <1>3, <1>4, <1>5, <1>10, <2>1, SameHand DEF ReadMisplaced, clients
<1>11. QED
  BY <1>6, <1>7, <1>8, <1>9, <1>10 DEF HandleClientData, m

\* The connection accepted is one that was made, and so are all others.
LEMMA AcceptKnown ==
  ASSUME BaseInv, HandInv, HandleNewConnection
  PROVE  /\ Head(backlog) \in Conn
         /\ peer[Head(backlog)] \in {"open", "closed"}
         /\ \A i \in 1..Len(backlog') : peer'[backlog'[i]] \in {"open", "closed"}
<1>1. backlog \in Seq(Conn) /\ backlog # <<>> /\ backlog' = Tail(backlog) /\ peer' = peer
  BY DEF HandleNewConnection, BaseInv, TypeOK, clients
<1>2. \A i \in 1..Len(backlog) : peer[backlog[i]] \in {"open", "closed"}
  BY DEF HandInv, KnownConns
<1>3. Head(backlog) = backlog[1] /\ 1 \in 1..Len(backlog) /\ Head(backlog) \in Conn
  BY <1>1
<1>4. \A i \in 1..Len(backlog') : i + 1 \in 1..Len(backlog) /\ backlog'[i] = backlog[i + 1]
  BY <1>1, TailFacts
<1>5. QED
  BY <1>1, <1>2, <1>3, <1>4

LEMMA InstallKnown ==
  ASSUME BaseInv, HandInv, HandleNewConnection, NEW c \in Conn, c = Head(backlog),
         NEW old, NEW a, Install(a, c, old)
  PROVE  KnownConns'
<1>1. /\ peer[c] \in {"open", "closed"}
      /\ \A i \in 1..Len(backlog') : peer'[backlog'[i]] \in {"open", "closed"}
  BY AcceptKnown
<1>2. ctrl_fd' = [x \in Addr |-> IF x = a THEN c ELSE IF x = old THEN NULL ELSE ctrl_fd[x]]
  BY DEF Install
<1>3. peer' = peer
  BY DEF HandleNewConnection, clients
<1>4. QED
  BY <1>1, <1>2, <1>3 DEF HandInv, KnownConns

LEMMA NewConnectionHand ==
  ASSUME BaseInv, HandInv, HandleNewConnection
  PROVE  HandInv'
<1> DEFINE c == Head(backlog)
           m == Head(toDaemon[c])
<1>1. c \in Conn /\ peer' = peer
  BY AcceptKnown DEF HandleNewConnection, clients
<1> HIDE DEF m
<1>2. CASE toDaemon[c] # <<>> /\ AcceptConsumer(c, m)
  <2>1. m.type = "CONSUMER_HELLO" /\ m.arg \in FdSet /\ m.arg.owner = c
    BY <1>1, <1>2, HeadFacts DEF AcceptConsumer, m
  <2>2. PICK a \in FreshAddr(consumer) : Install(a, c, consumer) /\ consumer' = a
    BY <1>2 DEF AcceptConsumer
  <2>3. /\ a # NULL /\ a \notin Roles /\ ctrl_fd'[a] = c
        /\ \A x \in Addr : x # a /\ x # consumer => ctrl_fd'[x] = ctrl_fd[x]
    BY <1>1, <1>2, <2>2, InstallBase
  <2>4. producer # NULL =>
          producer \in Addr /\ producer # a /\ producer # consumer /\ ctrl_fd'[producer] = ctrl_fd[producer]
    BY <2>3, NullFacts DEF Roles, BaseInv, TypeOK, RolesOwnStructs
  <2>5. /\ deposited_fds' \in {NULL, m.arg}
        /\ open_fds' \ StrayFds = {deposited_fds'} \ {NULL}
        /\ producer_waiting_fds' =>
             producer # NULL /\ (Complete(deposited_fds') => peer[ctrl_fd[producer]] = "closed")
    BY <1>2, <2>1, StoreFdsHand DEF AcceptConsumer
  <2>6. UNCHANGED <<producer, stored_screen, producer_waiting_screen>>
    BY <1>2 DEF AcceptConsumer
  <2>7. DepositIsConsumers' /\ FdsAccounted' /\ ScreenRendezvous'
    BY <2>1, <2>2, <2>3, <2>5, <2>6
    DEF HandInv, DepositIsConsumers, FdsAccounted, ScreenRendezvous
  <2>8. NoMissedHandOver'
    BY <1>1, <2>4, <2>5, <2>6 DEF NoMissedHandOver, Complete
  <2>9. KnownConns'
    BY <1>1, <2>2, InstallKnown
  <2>10. QED
    BY <2>7, <2>8, <2>9 DEF HandInv
<1>3. CASE toDaemon[c] # <<>> /\ AcceptProducer(c, m)
  <2>1. PICK a \in FreshAddr(producer) : Install(a, c, producer) /\ producer' = a
    BY <1>3 DEF AcceptProducer
  <2>2. /\ a # NULL /\ a \notin Roles /\ ctrl_fd'[a] = c
        /\ \A x \in Addr : x # a /\ x # producer => ctrl_fd'[x] = ctrl_fd[x]
    BY <1>1, <1>3, <2>1, InstallBase
  <2>3. consumer # NULL =>
          consumer \in Addr /\ consumer # a /\ consumer # producer /\ ctrl_fd'[consumer] = ctrl_fd[consumer]
    BY <2>2, NullFacts DEF Roles, BaseInv, TypeOK, RolesOwnStructs
  <2>4. /\ UNCHANGED <<consumer, stored_screen, deposited_fds>>
        /\ producer' = a
        /\ producer_waiting_fds' = FALSE
        /\ producer_waiting_screen' = (stored_screen = NULL)
    BY <1>3, <2>1 DEF AcceptProducer
  <2>5. open_fds' \ StrayFds = open_fds \ StrayFds
    <3>1. m.arg \in {NULL} \cup StrayFds /\ open_fds' = open_fds \cup ({m.arg} \ {NULL})
      BY <1>1, <1>3, HeadFacts DEF AcceptProducer, m
    <3>2. QED
      BY <3>1
  <2>6. DepositIsConsumers' /\ FdsAccounted' /\ ScreenRendezvous' /\ NoMissedHandOver'
    BY <2>2, <2>3, <2>4, <2>5
    DEF HandInv, DepositIsConsumers, FdsAccounted, ScreenRendezvous, NoMissedHandOver
  <2>7. KnownConns'
    BY <1>1, <2>1, InstallKnown
  <2>8. QED
    BY <2>6, <2>7 DEF HandInv
<1>4. ASSUME NEW y \in {NULL} \cup StrayFds, Refuse(c, y)
      PROVE  HandInv'
  <2>1. KnownConns' /\ open_fds' \ StrayFds = open_fds \ StrayFds
    BY <1>1, <1>4, AcceptKnown DEF Refuse, HandInv, KnownConns
  <2>2. producer # NULL => ctrl_fd[producer] \in Conn
    BY NullFacts DEF BaseInv, RolesOwnStructs
  <2>3. QED
    BY <1>1, <1>4, <2>1, <2>2, SameHand DEF Refuse
<1>5. QED
  BY <1>1, <1>2, <1>3, <1>4, NewConnection DEF m

\* A client's step changes only its own end of its own connection.
LEMMA ClientHand ==
  ASSUME BaseInv, HandInv, ClientNext
  PROVE  HandInv'
<1>1. UNCHANGED <<consumer, producer, stored_screen, deposited_fds, producer_waiting_screen,
                  producer_waiting_fds, ctrl_fd, open_fds>>
  BY DEF ClientNext, ClientConnect, SendHello, SendConsumerHello, SendProducerHello, SendScreenInfo,
         SendPickup, SendForeign, ClientSend, ClientRead, ClientClose, daemonState, ctx
<1>2. PICK c \in Conn :
        \/ ClientConnect(c)
        \/ ClientClose(c)
        \/ UNCHANGED <<peer, backlog>>
  BY DEF ClientNext, SendHello, SendConsumerHello, SendProducerHello, SendScreenInfo,
         SendPickup, SendForeign, ClientSend, ClientRead, daemonState, clients
<1>3. producer # NULL => ctrl_fd[producer] \in Conn
  BY NullFacts DEF BaseInv, RolesOwnStructs
<1>4. /\ peer \in [Conn -> {"none", "open", "closed"}] /\ backlog \in Seq(Conn)
      /\ ctrl_fd \in [Addr -> Conn \cup {NULL}]
  BY DEF BaseInv, TypeOK
<1>5. KnownConns' /\ \A d \in Conn : peer[d] = "closed" => peer'[d] = "closed"
  <2>1. CASE ClientConnect(c)
    <3>1. peer' = [peer EXCEPT ![c] = "open"] /\ peer[c] = "none" /\ backlog' = Append(backlog, c)
      BY <2>1 DEF ClientConnect
    <3>2. \A i \in 1..Len(backlog') :
            backlog'[i] = c \/ (i \in 1..Len(backlog) /\ backlog'[i] = backlog[i])
      BY <1>4, <3>1
    <3>3. \A d \in Conn : peer[d] \in {"open", "closed"} => peer'[d] = peer[d]
      BY <1>4, <3>1
    <3>4. \A i \in 1..Len(backlog') : peer'[backlog'[i]] \in {"open", "closed"}
      BY <1>4, <3>1, <3>2, <3>3 DEF HandInv, KnownConns
    <3>5. \A a \in Addr : ctrl_fd'[a] # NULL => peer'[ctrl_fd'[a]] \in {"open", "closed"}
      BY <1>1, <1>4, <3>3 DEF HandInv, KnownConns
    <3>6. QED
      BY <3>3, <3>4, <3>5 DEF KnownConns
  <2>2. CASE ClientClose(c)
    <3>1. peer' = [peer EXCEPT ![c] = "closed"] /\ backlog' = backlog
      BY <2>2 DEF ClientClose
    <3>2. \A d \in Conn : peer'[d] \in {peer[d], "closed"}
      BY <1>4, <3>1
    <3>3. \A i \in 1..Len(backlog) : backlog[i] \in Conn
      BY <1>4
    <3>4. QED
      BY <1>1, <1>4, <3>1, <3>2, <3>3 DEF HandInv, KnownConns
  <2>3. CASE UNCHANGED <<peer, backlog>>
    BY <1>1, <2>3 DEF HandInv, KnownConns
  <2>4. QED
    BY <1>2, <2>1, <2>2, <2>3
<1>6. QED
  BY <1>1, <1>3, <1>5, SameHand

LEMMA HandStep == BaseInv /\ HandInv /\ [Next]_vars => HandInv'
<1> SUFFICES ASSUME BaseInv, HandInv, [Next]_vars PROVE HandInv'
  OBVIOUS
<1>1. producer # NULL => ctrl_fd[producer] \in Conn
  BY NullFacts DEF BaseInv, RolesOwnStructs
<1>2. ASSUME UNCHANGED <<ctx, ctrl_fd, open_fds, backlog, clients>>
      PROVE  HandInv'
  <2>1. KnownConns'
    BY <1>2 DEF HandInv, KnownConns, clients
  <2>2. QED
    BY <1>1, <1>2, <2>1, SameHand DEF ctx, clients
<1>3. CASE EpollWait \/ \E e \in batch : SkipStaleEvent(e)
  BY <1>2, <1>3 DEF EpollWait, SkipStaleEvent
<1>4. CASE \E e \in batch : HandleHangup(e)
  BY <1>4, DropClientHand DEF HandleHangup, Roles
<1>5. CASE \E e \in batch : HandleClientData(e)
  BY <1>5, ClientDataHand
<1>6. CASE HandleNewConnection
  BY <1>6, NewConnectionHand
<1>7. CASE Stop \/ Restart
  <2>1. KnownConns'
    BY <1>7 DEF Stop, Restart, HandInv, KnownConns, clients
  <2>2. QED
    BY <1>1, <1>7, <2>1, SameHand DEF Stop, Restart, clients
<1>8. CASE Destroy \/ Kill
  <2>1. Len(<<>>) = 0
    OBVIOUS
  <2>2. QED
    BY <1>8, <2>1
    DEF Destroy, Kill, Teardown, HandInv, DepositIsConsumers, FdsAccounted, ScreenRendezvous,
        NoMissedHandOver, KnownConns
<1>9. CASE ClientNext
  BY <1>9, ClientHand
<1>10. CASE UNCHANGED vars
  BY <1>2, <1>10 DEF vars
<1>11. QED
  BY <1>3, <1>4, <1>5, <1>6, <1>7, <1>8, <1>9, <1>10 DEF Next, DaemonNext

\* The conjunction of the layers, from which the theorems below follow.
LEMMA HandCorrect == Spec => [](BaseInv /\ HandInv)
<1>1. Init => BaseInv /\ HandInv
  <2>1. Len(<<>>) = 0
    OBVIOUS
  <2>2. QED
    BY <2>1, BaseInit
    DEF Init, HandInv, DepositIsConsumers, FdsAccounted, ScreenRendezvous, NoMissedHandOver, KnownConns
<1>2. BaseInv /\ HandInv /\ [Next]_vars => BaseInv' /\ HandInv'
  BY BaseStep, HandStep
<1>3. QED
  BY <1>1, <1>2, PTL DEF Spec

\* A future producer is never handed the set of a consumer that left.
THEOREM DepositOwned == Spec => []DepositIsConsumers
<1>1. BaseInv /\ HandInv => DepositIsConsumers
  BY DEF HandInv
<1>2. QED
  BY HandCorrect, <1>1, PTL

\* Whatever the order of requests, deposits, evictions and deaths, and
\* whatever else the clients send: of the sets in consumers' HELLOs none stays
\* open in the daemon but the one deposited.
THEOREM HelloFdsAccounted == Spec => []FdsAccounted
<1>1. BaseInv /\ HandInv => FdsAccounted
  BY DEF HandInv
<1>2. QED
  BY HandCorrect, <1>1, PTL

\* Clients that send descriptors in consumers' HELLOs only leave no descriptor open in the daemon
\* but the deposit of the consumer connected now.
THEOREM NoFdLeak ==
  ASSUME StrayFds = {}
  PROVE  Spec => [](open_fds = {deposited_fds} \ {NULL})
<1>1. BaseInv /\ HandInv => open_fds = {deposited_fds} \ {NULL}
  BY DEF HandInv, FdsAccounted
<1>2. QED
  BY HandCorrect, <1>1, PTL

\* The two halves of a hand-over find each other in either order.
THEOREM HandOverComplete == Spec => []NoMissedHandOver
<1>1. BaseInv /\ HandInv => NoMissedHandOver
  BY DEF HandInv
<1>2. QED
  BY HandCorrect, <1>1, PTL

\* A producer waits for the screen exactly while none is known.
THEOREM ScreenComplete == Spec => []ScreenRendezvous
<1>1. BaseInv /\ HandInv => ScreenRendezvous
  BY DEF HandInv
<1>2. QED
  BY HandCorrect, <1>1, PTL

-----------------------------------------------------------------------------
(* What goes out, and to whom.                                             *)

\* What NoStaleHandOver says of a single step.
FreshHandOver ==
  \A h \in handed' \ handed :
    /\ Complete(h[2])
    /\ consumer' # NULL /\ ctrl_fd'[consumer'] = h[2].owner
    /\ producer # NULL /\ ctrl_fd[producer] = h[1]

\* try_deliver_fds hands out what it was called with, to whom it was called
\* for.
LEMMA TryDeliverHands ==
  ASSUME NEW s, NEW k, NEW p, TryDeliver(s, k, p), NEW h \in handed' \ handed
  PROVE  h = <<p, s>> /\ p # NULL /\ Complete(s)
BY DEF TryDeliver, CanDeliver

\* A deposit goes out, if it does, to the producer connected.
LEMMA StoreFdsHands ==
  ASSUME NEW s, NEW k, StoreFds(s, k), NEW h \in handed' \ handed
  PROVE  h[1] = ctrl_fd[producer] /\ h[2] = s /\ producer # NULL /\ Complete(s)
<1>1. TryDeliver(s, k, ConnOf(producer))
  BY DEF StoreFds
<1>2. h = <<ConnOf(producer), s>> /\ ConnOf(producer) # NULL /\ Complete(s)
  BY <1>1, TryDeliverHands
<1>3. QED
  BY <1>2 DEF ConnOf

LEMMA HandOverStep == BaseInv /\ HandInv /\ [Next]_vars => FreshHandOver
<1> SUFFICES ASSUME BaseInv, HandInv, [Next]_vars PROVE FreshHandOver
  OBVIOUS
<1>1. ASSUME handed' = handed PROVE FreshHandOver
  BY <1>1 DEF FreshHandOver
<1>2. ASSUME NEW e \in batch, HandleClientData(e)
      PROVE  FreshHandOver
  <2> DEFINE c == ctrl_fd[e.ptr]
             m == Head(toDaemon[c])
  <2>1. e.ptr \in Roles /\ c \in Conn /\ toDaemon[c] # <<>>
    BY <1>2, ClientOfEvent
  <2>2. m.type = "CONSUMER_HELLO" => m.arg.owner = c
    BY <2>1, HeadFacts
  <2> HIDE DEF m
  <2>3. CASE ReadConsumerHello(e.ptr, m)
    <3>1. UNCHANGED <<consumer, ctrl_fd>> /\ m.type = "CONSUMER_HELLO"
      BY <2>3 DEF ReadConsumerHello
    <3>2. CASE e.ptr = consumer /\ m.arg.n = MAX_FDS
      <4>1. StoreFds(m.arg, c)
        BY <2>3, <3>2 DEF ReadConsumerHello
      <4>2. \A h \in handed' \ handed :
              h[1] = ctrl_fd[producer] /\ h[2] = m.arg /\ producer # NULL /\ Complete(m.arg)
        BY <4>1, StoreFdsHands
      <4>3. QED
        BY <2>1, <2>2, <3>1, <3>2, <4>2 DEF FreshHandOver, Roles
    <3>3. CASE ~(e.ptr = consumer /\ m.arg.n = MAX_FDS)
      BY <1>1, <2>3, <3>3 DEF ReadConsumerHello
    <3>4. QED
      BY <3>2, <3>3
  <2>4. CASE ReadPickup(e.ptr, m)
    <3>1. UNCHANGED <<consumer, ctrl_fd>>
      BY <2>4 DEF ReadPickup
    <3>2. CASE e.ptr = producer
      <4>1. TryDeliver(deposited_fds, ConnOf(consumer), c)
        BY <2>4, <3>2 DEF ReadPickup
      <4>2. \A h \in handed' \ handed : h = <<c, deposited_fds>> /\ Complete(deposited_fds)
        BY <4>1, TryDeliverHands
      <4>3. deposited_fds # NULL => consumer # NULL /\ deposited_fds.owner = ctrl_fd[consumer]
        BY DEF HandInv, DepositIsConsumers
      <4>4. QED
        BY <2>1, <3>1, <3>2, <4>2, <4>3 DEF FreshHandOver, Roles, Complete
    <3>3. CASE e.ptr # producer
      BY <1>1, <2>4, <3>3 DEF ReadPickup
    <3>4. QED
      BY <3>2, <3>3
  <2>5. CASE ReadScreenInfo(e.ptr, m) \/ ReadMisplaced(e.ptr, m) \/ ReadForeign(e.ptr, m)
    BY <1>1, <2>5 DEF ReadScreenInfo, ReadMisplaced, ReadForeign
  <2>6. QED
    BY <1>2, <2>3, <2>4, <2>5 DEF HandleClientData, m
<1>3. CASE HandleNewConnection
  <2> DEFINE c == Head(backlog)
             m == Head(toDaemon[c])
  <2>1. c \in Conn
    BY <1>3, AcceptKnown
  <2>2. CASE toDaemon[c] # <<>> /\ AcceptConsumer(c, m)
    <3>1. m.arg.owner = c
      BY <2>1, <2>2, HeadFacts DEF AcceptConsumer
    <3>2. PICK a \in FreshAddr(consumer) : Install(a, c, consumer) /\ consumer' = a
      BY <2>2 DEF AcceptConsumer
    <3>3. a # NULL /\ ctrl_fd'[a] = c
      BY <1>3, <2>1, <2>2, <3>2, InstallBase
    <3>4. \A h \in handed' \ handed :
            h[1] = ctrl_fd[producer] /\ h[2] = m.arg /\ producer # NULL /\ Complete(m.arg)
      BY <2>2, StoreFdsHands DEF AcceptConsumer
    <3>5. QED
      BY <3>1, <3>2, <3>3, <3>4 DEF FreshHandOver
  <2>3. CASE AcceptProducer(c, m) \/ \E y : Refuse(c, y)
    BY <1>1, <2>3 DEF AcceptProducer, Refuse
  <2>4. QED
    BY <1>3, <2>2, <2>3 DEF HandleNewConnection
<1>4. CASE EpollWait \/ (\E e \in batch : SkipStaleEvent(e) \/ HandleHangup(e))
           \/ Stop \/ Destroy \/ Kill \/ Restart
  BY <1>1, <1>4
  DEF EpollWait, SkipStaleEvent, HandleHangup, Stop, Destroy, Kill, Restart, Teardown
<1>5. CASE ClientNext
  BY <1>1, <1>5
  DEF ClientNext, ClientConnect, SendHello, SendConsumerHello, SendProducerHello, SendScreenInfo,
      SendPickup, SendForeign, ClientSend, ClientRead, ClientClose, daemonState
<1>6. CASE UNCHANGED vars
  BY <1>1, <1>6 DEF vars
<1>7. QED
  BY <1>2, <1>3, <1>4, <1>5, <1>6 DEF Next, DaemonNext

\* The daemon hands over only complete sets of the consumer of that moment,
\* to the producer of that moment.
THEOREM HandOversFresh == Spec => NoStaleHandOver
<1>1. BaseInv /\ HandInv /\ [Next]_vars => [FreshHandOver]_vars
  BY HandOverStep
<1>2. Spec => [][FreshHandOver]_vars
  BY HandCorrect, <1>1, PTL DEF Spec
<1>3. QED
  BY <1>2 DEF NoStaleHandOver, FreshHandOver

-----------------------------------------------------------------------------
(* The daemon implements Rendezvous.tla: each of its steps is a step of the  *)
(* rendezvous or changes nothing of it.  That takes one invariant more: a    *)
(* set of descriptors that was offered is never offered again, which the     *)
(* numbering of a connection's HELLOs gives.                                *)

(* Layer 4: no set is offered twice.                                       *)

\* The sets that have been offered: handed over, or deposited now.
Spent == {h[2] : h \in handed} \cup ({deposited_fds} \ {NULL})

IsHello(c, i) == i \in 1..Len(toDaemon[c]) /\ toDaemon[c][i].type = "CONSUMER_HELLO"
Gen(c, i)     == toDaemon[c][i].arg.gen

\* The sets of one connection carry increasing numbers, from those offered
\* over those in its inbox to the number of HELLOs it has sent.
GenInv ==
  /\ \A s \in Spent : s.gen <= hellos[s.owner]
  /\ \A h \in handed : h[2] # deposited_fds
  /\ \A c \in Conn : \A i \in 1..Len(toDaemon[c]) : IsHello(c, i) =>
       /\ Gen(c, i) <= hellos[c]
       /\ \A s \in Spent : s.owner = c => s.gen < Gen(c, i)
       /\ \A j \in 1..Len(toDaemon[c]) : IsHello(c, j) /\ i < j => Gen(c, i) < Gen(c, j)

\* At least k messages are gone from the front of c's inbox, and none is new.
LosesAtLeast(c, k) ==
  \E n \in Nat : n >= k /\ \A i \in 1..Len(toDaemon'[c]) :
    i + n \in 1..Len(toDaemon[c]) /\ toDaemon'[c][i] = toDaemon[c][i + n]

\* What is offered now and was not before is older than what its connection
\* still has in its inbox.
OffersInOrder ==
  \A s \in Spent' \ Spent :
    /\ s.owner \in Conn /\ s.gen <= hellos[s.owner]
    /\ \A i \in 1..Len(toDaemon'[s.owner]) : IsHello(s.owner, i)' => s.gen < Gen(s.owner, i)'

LEMMA GenShrinks ==
  ASSUME BaseInv, GenInv, hellos' = hellos, OffersInOrder,
         \A c \in Conn : LosesAtLeast(c, 0),
         \A h \in handed' : h[2] # deposited_fds'
  PROVE  GenInv'
<1>1. \A s \in Spent' : s.gen <= hellos'[s.owner]
  BY DEF GenInv, OffersInOrder
<1>2. ASSUME NEW c \in Conn, NEW i \in 1..Len(toDaemon'[c]), IsHello(c, i)'
      PROVE  /\ Gen(c, i)' <= hellos'[c]
             /\ \A s \in Spent' : s.owner = c => s.gen < Gen(c, i)'
             /\ \A j \in 1..Len(toDaemon'[c]) : IsHello(c, j)' /\ i < j => Gen(c, i)' < Gen(c, j)'
  <2>1. PICK n \in Nat : \A j \in 1..Len(toDaemon'[c]) :
                           j + n \in 1..Len(toDaemon[c]) /\ toDaemon'[c][j] = toDaemon[c][j + n]
    BY DEF LosesAtLeast
  <2>2. \A j \in 1..Len(toDaemon'[c]) : IsHello(c, j)' =>
          j + n \in 1..Len(toDaemon[c]) /\ IsHello(c, j + n) /\ Gen(c, j)' = Gen(c, j + n)
    <3> SUFFICES ASSUME NEW j \in 1..Len(toDaemon'[c]), IsHello(c, j)'
                 PROVE  j + n \in 1..Len(toDaemon[c]) /\ IsHello(c, j + n) /\ Gen(c, j)' = Gen(c, j + n)
      OBVIOUS
    <3>1. j + n \in 1..Len(toDaemon[c]) /\ toDaemon'[c][j] = toDaemon[c][j + n]
      BY <2>1
    <3>2. QED
      BY <3>1 DEF IsHello, Gen
  <2>3. Gen(c, i)' <= hellos'[c]
    BY <1>2, <2>2 DEF GenInv
  <2>4. \A s \in Spent' : s.owner = c => s.gen < Gen(c, i)'
    BY <1>2, <2>2 DEF GenInv, OffersInOrder
  <2>5. \A j \in 1..Len(toDaemon'[c]) : i < j => i + n < j + n
    BY <2>1
  <2>6. \A j \in 1..Len(toDaemon'[c]) : IsHello(c, j)' /\ i < j => Gen(c, i)' < Gen(c, j)'
    BY <1>2, <2>2, <2>5 DEF GenInv
  <2>7. QED
    BY <2>3, <2>4, <2>6
<1>3. QED
  BY <1>1, <1>2 DEF GenInv

\* A step that offers nothing new.
LEMMA GenSame ==
  ASSUME BaseInv, GenInv, hellos' = hellos, handed' = handed,
         deposited_fds' \in {NULL, deposited_fds},
         \A c \in Conn : LosesAtLeast(c, 0)
  PROVE  GenInv'
<1>1. Spent' \subseteq Spent
  BY DEF Spent
<1>2. \A h \in handed' : h[2] # deposited_fds'
  <2>1. \A h \in handed : h[2] # NULL
    BY NullFacts DEF BaseInv, TypeOK
  <2>2. QED
    BY <2>1 DEF GenInv
<1>3. QED
  BY <1>1, <1>2, GenShrinks DEF OffersInOrder

\* A witness for LosesAtLeast.
LEMMA LosesIntro ==
  ASSUME NEW c, NEW k \in Nat, NEW n \in Nat, n >= k,
         \A i \in 1..Len(toDaemon'[c]) :
           i + n \in 1..Len(toDaemon[c]) /\ toDaemon'[c][i] = toDaemon[c][i + n]
  PROVE  LosesAtLeast(c, k)
BY DEF LosesAtLeast

\* Reading or discarding messages.
LEMMA InboxLoses ==
  ASSUME BaseInv, NEW c \in Conn \cup {NULL}, NEW d \in Conn \cup {NULL},
         c # NULL => toDaemon[c] # <<>>,
         toDaemon' = Discard(IF c = NULL THEN toDaemon
                             ELSE [toDaemon EXCEPT ![c] = Tail(@)], d)
  PROVE  /\ \A x \in Conn : LosesAtLeast(x, 0)
         /\ c # NULL => LosesAtLeast(c, 1)
<1> DEFINE q == IF c = NULL THEN toDaemon ELSE [toDaemon EXCEPT ![c] = Tail(@)]
<1>1. toDaemon \in [Conn -> Seq(ClientMsg)]
  BY DEF BaseInv, TypeOK
<1>2. ASSUME NEW x \in Conn
      PROVE  toDaemon'[x] = IF x = d THEN <<>> ELSE IF x = c THEN Tail(toDaemon[x]) ELSE toDaemon[x]
  <2>1. q[x] = IF x = c THEN Tail(toDaemon[x]) ELSE toDaemon[x]
    BY <1>1, NullFacts
  <2>2. toDaemon' = [y \in Conn |-> IF y = d THEN <<>> ELSE q[y]]
    BY DEF Discard
  <2> HIDE DEF q
  <2>3. QED
    BY <2>1, <2>2
<1>3. 0 \in Nat /\ 1 \in Nat /\ 0 >= 0 /\ 1 >= 1 /\ 1 >= 0
  OBVIOUS
<1>4. ASSUME NEW x \in Conn, x = d, NEW k \in {0, 1}
      PROVE  LosesAtLeast(x, k)
  <2>1. toDaemon'[x] = <<>>
    BY <1>2, <1>4
  <2>2. \A i \in 1..Len(toDaemon'[x]) :
          i + 1 \in 1..Len(toDaemon[x]) /\ toDaemon'[x][i] = toDaemon[x][i + 1]
    BY <2>1
  <2>3. k \in Nat /\ 1 >= k
    OBVIOUS
  <2>4. QED
    BY <1>3, <2>2, <2>3, LosesIntro, Zenon
<1>5. ASSUME NEW x \in Conn, x # d, x = c, NEW k \in {0, 1}
      PROVE  LosesAtLeast(x, k)
  <2>1. toDaemon'[x] = Tail(toDaemon[x]) /\ toDaemon[x] \in Seq(ClientMsg) /\ toDaemon[x] # <<>>
    BY <1>1, <1>2, <1>5, NullFacts
  <2>2. \A i \in 1..Len(Tail(toDaemon[x])) :
          i + 1 \in 1..Len(toDaemon[x]) /\ Tail(toDaemon[x])[i] = toDaemon[x][i + 1]
    <3> HIDE DEF q
    <3>1. QED
      BY <2>1, TailFacts
  <2>3. \A i \in 1..Len(toDaemon'[x]) :
          i + 1 \in 1..Len(toDaemon[x]) /\ toDaemon'[x][i] = toDaemon[x][i + 1]
    BY <2>1, <2>2, Zenon
  <2>4. k \in Nat /\ 1 >= k
    OBVIOUS
  <2>5. QED
    BY <1>3, <2>3, <2>4, LosesIntro, Zenon
<1>6. ASSUME NEW x \in Conn, x # d, x # c
      PROVE  LosesAtLeast(x, 0)
  <2>1. toDaemon'[x] = toDaemon[x] /\ toDaemon[x] \in Seq(ClientMsg)
    BY <1>1, <1>2, <1>6
  <2>2. \A i \in 1..Len(toDaemon'[x]) :
          i + 0 \in 1..Len(toDaemon[x]) /\ toDaemon'[x][i] = toDaemon[x][i + 0]
    BY <2>1
  <2>3. QED
    BY <1>3, <2>2, LosesIntro, Zenon
<1>7. QED
  BY <1>4, <1>5, <1>6

\* Offering the oldest HELLO of a connection, which leaves its inbox.
LEMMA GenOffers ==
  ASSUME BaseInv, GenInv, hellos' = hellos, NEW c \in Conn, toDaemon[c] # <<>>,
         Head(toDaemon[c]).type = "CONSUMER_HELLO",
         \A x \in Conn : LosesAtLeast(x, 0), LosesAtLeast(c, 1),
         NEW s, s = Head(toDaemon[c]).arg,
         \/ /\ deposited_fds' = s /\ handed' = handed
         \/ /\ deposited_fds' = NULL
            /\ \A h \in handed' : h \in handed \/ h[2] = s
  PROVE  GenInv'
<1>1. /\ 1 \in 1..Len(toDaemon[c]) /\ IsHello(c, 1) /\ s.gen = Gen(c, 1)
      /\ Len(toDaemon[c]) \in Nat
  <2>1. toDaemon[c] \in Seq(ClientMsg)
    BY DEF BaseInv, TypeOK
  <2>2. QED
    BY <2>1 DEF IsHello, Gen
<1>2. s \in FdSet /\ s.owner = c
  BY HeadFacts
<1>3. s.gen <= hellos[c] /\ s \notin Spent
  <2>1. s.gen \in Nat
    BY <1>2 DEF FdSet
  <2>2. QED
    BY <1>1, <1>2, <2>1 DEF GenInv
<1>4. \A i \in 1..Len(toDaemon'[c]) : IsHello(c, i)' => s.gen < Gen(c, i)'
  <2>1. PICK n \in Nat : n >= 1 /\ \A i \in 1..Len(toDaemon'[c]) :
                           i + n \in 1..Len(toDaemon[c]) /\ toDaemon'[c][i] = toDaemon[c][i + n]
    BY DEF LosesAtLeast
  <2>2. ASSUME NEW i \in 1..Len(toDaemon'[c]), IsHello(c, i)'
        PROVE  s.gen < Gen(c, i)'
    <3>1. i + n \in 1..Len(toDaemon[c]) /\ toDaemon'[c][i] = toDaemon[c][i + n]
      BY <2>1
    <3>2. IsHello(c, i + n) /\ Gen(c, i)' = Gen(c, i + n)
      BY <2>2, <3>1 DEF IsHello, Gen
    <3>3. 1 < i + n
      BY <2>1
    <3>4. QED
      BY <1>1, <3>1, <3>2, <3>3 DEF GenInv
  <2>3. QED
    BY <2>2
<1>5. Spent' \subseteq Spent \cup {s}
  BY DEF Spent
<1>6. OffersInOrder
  BY <1>2, <1>3, <1>4, <1>5 DEF OffersInOrder
<1>7. \A h \in handed' : h[2] # deposited_fds'
  <2>1. \A h \in handed : h[2] # NULL /\ h[2] \in Spent
    BY NullFacts DEF BaseInv, TypeOK, Spent
  <2>2. s # NULL
    BY <1>2, NullFacts
  <2>3. QED
    BY <1>3, <2>1, <2>2
<1>8. QED
  BY <1>6, <1>7, GenShrinks

\* What a deposit does to what has been offered.
LEMMA StoreFdsOffers ==
  ASSUME NEW s, NEW k, StoreFds(s, k)
  PROVE  \/ deposited_fds' = s /\ handed' = handed
         \/ deposited_fds' = NULL /\ \A h \in handed' : h \in handed \/ h[2] = s
BY DEF StoreFds, TryDeliver

\* What a request does.
LEMMA PickupOffers ==
  ASSUME NEW k, NEW p, TryDeliver(deposited_fds, k, p)
  PROVE  \/ deposited_fds' = deposited_fds /\ handed' = handed
         \/ /\ deposited_fds' = NULL /\ deposited_fds # NULL
            /\ \A h \in handed' : h \in handed \/ h[2] = deposited_fds
BY DEF TryDeliver, CanDeliver, Complete

\* A deposit that is handed over has been offered already.
LEMMA GenHandsOver ==
  ASSUME BaseInv, BaseInv', GenInv, hellos' = hellos, \A c \in Conn : LosesAtLeast(c, 0),
         deposited_fds' = NULL, deposited_fds # NULL,
         \A h \in handed' : h \in handed \/ h[2] = deposited_fds
  PROVE  GenInv'
<1>1. Spent' \subseteq Spent
  BY DEF Spent
<1>2. \A h \in handed' : h[2] # deposited_fds'
  BY NullFacts DEF BaseInv, TypeOK
<1>3. QED
  BY <1>1, <1>2, GenShrinks DEF OffersInOrder

LEMMA ClientDataGen ==
  ASSUME BaseInv, BaseInv', GenInv, NEW e \in batch, HandleClientData(e)
  PROVE  GenInv'
<1> DEFINE c == ctrl_fd[e.ptr]
           m == Head(toDaemon[c])
<1>1. e.ptr \in Roles /\ c \in Conn /\ c # NULL /\ toDaemon[c] # <<>> /\ hellos' = hellos
  BY ClientOfEvent, NullFacts DEF HandleClientData, clients
<1> HIDE DEF m
<1>2. CASE ReadForeign(e.ptr, m)
  <2>1. toDaemon' = Discard(IF NULL = NULL THEN toDaemon
                            ELSE [toDaemon EXCEPT ![NULL] = Tail(@)], c)
    BY <1>2 DEF ReadForeign, DropClient
  <2>2. \A x \in Conn : LosesAtLeast(x, 0)
    BY <1>1, <2>1, InboxLoses
  <2>3. handed' = handed /\ deposited_fds' \in {NULL, deposited_fds}
    BY <1>2 DEF ReadForeign, DropClient
  <2>4. QED
    BY <1>1, <2>2, <2>3, GenSame
<1>3. ASSUME toDaemon' = [toDaemon EXCEPT ![c] = Tail(@)]
      PROVE  (\A x \in Conn : LosesAtLeast(x, 0)) /\ LosesAtLeast(c, 1)
  <2>1. toDaemon' = Discard([toDaemon EXCEPT ![c] = Tail(@)], NULL)
    <3>1. DOMAIN toDaemon = Conn /\ toDaemon \in [Conn -> Seq(ClientMsg)]
      BY DEF BaseInv, TypeOK
    <3>2. QED
      BY <1>3, <3>1, NullFacts DEF Discard
  <2>2. toDaemon' = Discard(IF c = NULL THEN toDaemon ELSE [toDaemon EXCEPT ![c] = Tail(@)], NULL)
    BY <1>1, <2>1
  <2>3. QED
    BY <1>1, <2>2, InboxLoses
<1>4. CASE toDaemon' = [toDaemon EXCEPT ![c] = Tail(@)] /\ ReadConsumerHello(e.ptr, m)
  <2>1. CASE e.ptr = consumer /\ m.arg.n = MAX_FDS
    <3>1. StoreFds(m.arg, c) /\ m.type = "CONSUMER_HELLO"
      BY <1>4, <2>1 DEF ReadConsumerHello
    <3>2. \/ deposited_fds' = m.arg /\ handed' = handed
          \/ deposited_fds' = NULL /\ \A h \in handed' : h \in handed \/ h[2] = m.arg
      BY <3>1, StoreFdsOffers
    <3>3. QED
      BY <1>1, <1>3, <1>4, <3>1, <3>2, GenOffers DEF m
  <2>2. CASE ~(e.ptr = consumer /\ m.arg.n = MAX_FDS)
    BY <1>1, <1>3, <1>4, <2>2, GenSame DEF ReadConsumerHello
  <2>3. QED
    BY <2>1, <2>2
<1>5. CASE toDaemon' = [toDaemon EXCEPT ![c] = Tail(@)] /\ ReadScreenInfo(e.ptr, m)
  BY <1>1, <1>3, <1>5, GenSame DEF ReadScreenInfo
<1>6. CASE toDaemon' = [toDaemon EXCEPT ![c] = Tail(@)] /\ ReadPickup(e.ptr, m)
  <2>1. CASE e.ptr = producer
    <3>1. TryDeliver(deposited_fds, ConnOf(consumer), c)
      BY <1>6, <2>1 DEF ReadPickup
    <3>2. \/ deposited_fds' = deposited_fds /\ handed' = handed
          \/ /\ deposited_fds' = NULL /\ deposited_fds # NULL
             /\ \A h \in handed' : h \in handed \/ h[2] = deposited_fds
      BY <3>1, PickupOffers
    <3>3. QED
      BY <1>1, <1>3, <1>6, <3>2, GenSame, GenHandsOver
  <2>2. CASE e.ptr # producer
    BY <1>1, <1>3, <1>6, <2>2, GenSame DEF ReadPickup
  <2>3. QED
    BY <2>1, <2>2
<1>7. CASE toDaemon' = [toDaemon EXCEPT ![c] = Tail(@)] /\ ReadMisplaced(e.ptr, m)
  BY <1>1, <1>3, <1>7, GenSame DEF ReadMisplaced
<1>8. QED
  BY <1>2, <1>4, <1>5, <1>6, <1>7 DEF HandleClientData, m

LEMMA NewConnectionGen ==
  ASSUME BaseInv, GenInv, HandleNewConnection
  PROVE  GenInv'
<1> DEFINE c == Head(backlog)
           m == Head(toDaemon[c])
<1>1. c \in Conn /\ c # NULL /\ hellos' = hellos
  BY NullFacts DEF HandleNewConnection, BaseInv, TypeOK, clients
<1> HIDE DEF c, m
<1>2. ASSUME NEW old \in {consumer, producer}, NEW a, Install(a, c, old), toDaemon[c] # <<>>
      PROVE  (\A x \in Conn : LosesAtLeast(x, 0)) /\ LosesAtLeast(c, 1)
  <2>1. ConnOf(old) \in Conn \cup {NULL}
    BY NullFacts DEF ConnOf, BaseInv, TypeOK
  <2>2. toDaemon' = Discard(IF c = NULL THEN toDaemon
                            ELSE [toDaemon EXCEPT ![c] = Tail(@)], ConnOf(old))
    BY <1>1, <1>2 DEF Install
  <2>3. QED
    BY <1>1, <1>2, <2>1, <2>2, InboxLoses
<1>3. CASE toDaemon[c] # <<>> /\ AcceptConsumer(c, m)
  <2>1. (\A x \in Conn : LosesAtLeast(x, 0)) /\ LosesAtLeast(c, 1)
    BY <1>2, <1>3 DEF AcceptConsumer
  <2>2. \/ deposited_fds' = m.arg /\ handed' = handed
        \/ deposited_fds' = NULL /\ \A h \in handed' : h \in handed \/ h[2] = m.arg
    BY <1>3, StoreFdsOffers DEF AcceptConsumer
  <2>3. m.type = "CONSUMER_HELLO"
    BY <1>3 DEF AcceptConsumer
  <2>4. QED
    BY <1>1, <1>3, <2>1, <2>2, <2>3, GenOffers DEF m
<1>4. CASE toDaemon[c] # <<>> /\ AcceptProducer(c, m)
  <2>1. \A x \in Conn : LosesAtLeast(x, 0)
    BY <1>2, <1>4 DEF AcceptProducer
  <2>2. QED
    BY <1>1, <1>4, <2>1, GenSame DEF AcceptProducer
<1>5. ASSUME NEW y, Refuse(c, y)
      PROVE  GenInv'
  <2>1. toDaemon' = Discard(IF NULL = NULL THEN toDaemon
                            ELSE [toDaemon EXCEPT ![NULL] = Tail(@)], c)
    BY <1>5 DEF Refuse
  <2>2. \A x \in Conn : LosesAtLeast(x, 0)
    BY <1>1, <2>1, InboxLoses
  <2>3. QED
    BY <1>1, <1>5, <2>2, GenSame DEF Refuse
<1>6. QED
  BY <1>3, <1>4, <1>5 DEF HandleNewConnection, c, m

\* Steps that leave the inboxes alone, or empty them all.
LEMMA QuietGen ==
  ASSUME BaseInv, GenInv, hellos' = hellos, handed' = handed,
         deposited_fds' \in {NULL, deposited_fds},
         toDaemon' = toDaemon \/ toDaemon' = [c \in Conn |-> <<>>]
  PROVE  GenInv'
<1>1. ASSUME NEW c \in Conn PROVE LosesAtLeast(c, 0)
  <2>1. toDaemon[c] \in Seq(ClientMsg)
    BY DEF BaseInv, TypeOK
  <2>2. toDaemon'[c] = toDaemon[c] \/ toDaemon'[c] = <<>>
    BY Zenon
  <2>3. \A i \in 1..Len(toDaemon'[c]) :
          i + 0 \in 1..Len(toDaemon[c]) /\ toDaemon'[c][i] = toDaemon[c][i + 0]
    BY <2>1, <2>2
  <2>4. 0 \in Nat /\ 0 >= 0
    OBVIOUS
  <2>5. QED
    BY <2>3, <2>4, LosesIntro, Zenon
<1>2. QED
  BY <1>1, GenSame

\* A message that is sent: a HELLO carries the next number of its connection.
LEMMA SendGen ==
  ASSUME BaseInv, GenInv, NEW c \in Conn, NEW m \in ClientMsg, Sends(c, m),
         \/ m.type = "CONSUMER_HELLO" /\ m.arg.gen = hellos[c] + 1 /\ hellos' = [hellos EXCEPT ![c] = @ + 1]
         \/ m.type # "CONSUMER_HELLO" /\ \A x \in Conn : hellos[x] <= hellos'[x] /\ hellos'[x] \in Nat
  PROVE  GenInv'
<1>1. /\ toDaemon \in [Conn -> Seq(ClientMsg)] /\ toDaemon[c] \in Seq(ClientMsg)
      /\ hellos \in [Conn -> 0..MaxHello]
      /\ \A x \in Conn : hellos[x] \in Nat
  BY DEF BaseInv, TypeOK
<1>2. toDaemon' = [toDaemon EXCEPT ![c] = Append(@, m)] /\ UNCHANGED <<deposited_fds, handed>>
  BY DEF Sends, daemonState, ctx
<1>3. Spent' = Spent /\ \A s \in Spent : s.owner \in Conn /\ s.gen \in Nat
  <2>1. Spent' = Spent
    BY <1>2 DEF Spent
  <2>2. Spent \subseteq FdSet
    BY DEF Spent, BaseInv, TypeOK
  <2>3. \A s \in FdSet : s.owner \in Conn /\ s.gen \in Nat
    BY NullFacts DEF FdSet
  <2>4. QED
    BY <2>1, <2>2, <2>3
<1>4. \A x \in Conn : hellos[x] <= hellos'[x] /\ hellos'[x] \in Nat
  <2>1. CASE hellos' = [hellos EXCEPT ![c] = @ + 1]
    <3>1. \A x \in Conn : hellos'[x] = IF x = c THEN hellos[x] + 1 ELSE hellos[x]
      BY <1>1, <2>1
    <3>2. QED
      BY <1>1, <3>1
  <2>2. QED
    BY <2>1
<1>5. \A s \in Spent' : s.gen <= hellos'[s.owner]
  BY <1>1, <1>3, <1>4 DEF GenInv
<1>6. ASSUME NEW x \in Conn, NEW i \in 1..Len(toDaemon'[x]), IsHello(x, i)'
      PROVE  \/ i \in 1..Len(toDaemon[x]) /\ IsHello(x, i) /\ Gen(x, i)' = Gen(x, i)
             \/ /\ x = c /\ i = Len(toDaemon[c]) + 1 /\ Gen(x, i)' = hellos[c] + 1
                /\ hellos'[c] = hellos[c] + 1
  <2>1. CASE x # c
    BY <1>1, <1>2, <1>6, <2>1 DEF IsHello, Gen
  <2>2. CASE x = c
    <3>1. toDaemon'[x] = Append(toDaemon[c], m)
      BY <1>1, <1>2, <2>2
    <3>2. CASE i \in 1..Len(toDaemon[c])
      BY <1>1, <1>6, <2>2, <3>1, <3>2 DEF IsHello, Gen
    <3>3. CASE i \notin 1..Len(toDaemon[c])
      <4>1. i = Len(toDaemon[c]) + 1 /\ toDaemon'[x][i] = m
        BY <1>1, <3>1, <3>3
      <4>2. QED
        BY <1>1, <1>6, <2>2, <4>1 DEF IsHello, Gen
    <3>4. QED
      BY <3>2, <3>3
  <2>3. QED
    BY <2>1, <2>2
<1>7. ASSUME NEW x \in Conn, NEW i \in 1..Len(toDaemon[x]), IsHello(x, i)
      PROVE  /\ Gen(x, i) \in Nat /\ Gen(x, i) <= hellos[x]
             /\ \A s \in Spent : s.owner = x => s.gen < Gen(x, i)
             /\ \A j \in 1..Len(toDaemon[x]) : IsHello(x, j) /\ i < j => Gen(x, i) < Gen(x, j)
  <2>1. toDaemon[x][i] \in ClientMsg
    BY <1>1
  <2>2. toDaemon[x][i].arg \in FdSet
    BY <1>7, <2>1 DEF IsHello, ClientMsg
  <2>3. Gen(x, i) \in Nat
    BY <2>2 DEF Gen, FdSet
  <2>4. QED
    BY <1>7, <2>3 DEF GenInv
<1>8. ASSUME NEW x \in Conn, NEW i \in 1..Len(toDaemon'[x]), IsHello(x, i)'
      PROVE  /\ Gen(x, i)' <= hellos'[x]
             /\ \A s \in Spent' : s.owner = x => s.gen < Gen(x, i)'
  <2>1. CASE i \in 1..Len(toDaemon[x]) /\ IsHello(x, i) /\ Gen(x, i)' = Gen(x, i)
    BY <1>1, <1>3, <1>4, <1>7, <2>1
  <2>2. CASE x = c /\ Gen(x, i)' = hellos[c] + 1 /\ hellos'[c] = hellos[c] + 1
    BY <1>1, <1>3, <2>2 DEF GenInv
  <2>3. QED
    BY <1>6, <1>8, <2>1, <2>2
<1>9. ASSUME NEW x \in Conn, NEW i \in 1..Len(toDaemon'[x]), IsHello(x, i)',
             NEW j \in 1..Len(toDaemon'[x]), IsHello(x, j)', i < j
      PROVE  Gen(x, i)' < Gen(x, j)'
  <2>1. i \in 1..Len(toDaemon[x]) /\ IsHello(x, i) /\ Gen(x, i)' = Gen(x, i)
    <3>1. Len(toDaemon'[x]) <= Len(toDaemon[x]) + 1 /\ Len(toDaemon[x]) \in Nat
      BY <1>1, <1>2
    <3>2. x = c => i # Len(toDaemon[c]) + 1
      BY <1>9, <3>1
    <3>3. QED
      BY <1>6, <1>9, <3>2
  <2>2. CASE j \in 1..Len(toDaemon[x]) /\ IsHello(x, j) /\ Gen(x, j)' = Gen(x, j)
    BY <1>7, <1>9, <2>1, <2>2
  <2>3. CASE x = c /\ Gen(x, j)' = hellos[c] + 1
    BY <1>1, <1>7, <2>1, <2>3
  <2>4. QED
    BY <1>6, <1>9, <2>2, <2>3
<1>10. \A h \in handed' : h[2] # deposited_fds'
  BY <1>2 DEF GenInv
<1>11. QED
  BY <1>5, <1>8, <1>9, <1>10 DEF GenInv

LEMMA ClientGen ==
  ASSUME BaseInv, GenInv, ClientNext
  PROVE  GenInv'
<1> PICK c \in Conn :
      \/ ClientConnect(c)
      \/ SendHello(c)
      \/ \E s \in Screen : SendScreenInfo(c, s)
      \/ SendPickup(c)
      \/ SendForeign(c)
      \/ ClientRead(c)
      \/ ClientClose(c)
  BY DEF ClientNext
<1>1. \A x \in Conn : hellos[x] \in Nat /\ hellos[x] <= hellos[x]
  BY DEF BaseInv, TypeOK
<1>2. CASE ClientConnect(c) \/ ClientRead(c) \/ ClientClose(c)
  BY <1>2, QuietGen DEF ClientConnect, ClientRead, ClientClose, daemonState, ctx, clients
<1>3. CASE \E n \in FdCount : SendConsumerHello(c, n)
  <2> PICK n \in FdCount : SendConsumerHello(c, n)
    BY <1>3
  <2> DEFINE m == Msg("CONSUMER_HELLO", [owner |-> c, gen |-> hellos[c] + 1, n |-> n])
  <2>1. c \in ConsumerConn /\ hellos[c] < MaxHello /\ hellos[c] \in Nat
    BY <1>1 DEF SendConsumerHello
  <2>2. hellos[c] + 1 \in 1..MaxHello
    BY <2>1, NullFacts
  <2>3. m \in ClientMsg /\ m.type = "CONSUMER_HELLO" /\ m.arg.gen = hellos[c] + 1
    BY <2>1, <2>2 DEF Msg, ClientMsg, FdSet
  <2>4. Sends(c, m) /\ hellos' = [hellos EXCEPT ![c] = @ + 1]
    BY ClientSends DEF SendConsumerHello
  <2> HIDE DEF m
  <2>5. QED
    BY <2>3, <2>4, SendGen
<1>4. ASSUME NEW m \in ClientMsg, m.type # "CONSUMER_HELLO", ClientSend(c, m),
             \A x \in Conn : hellos[x] <= hellos'[x] /\ hellos'[x] \in Nat
      PROVE  GenInv'
  BY <1>4, ClientSends, SendGen
<1>5. CASE \E y \in {NULL} \cup StrayFds : SendProducerHello(c, y)
  <2> PICK y \in {NULL} \cup StrayFds : SendProducerHello(c, y)
    BY <1>5
  <2>1. \A x \in Conn : hellos'[x] = IF x = c THEN 1 ELSE hellos[x]
    BY DEF SendProducerHello, BaseInv, TypeOK
  <2>2. \A x \in Conn : hellos[x] <= hellos'[x] /\ hellos'[x] \in Nat
    BY <1>1, <2>1 DEF SendProducerHello
  <2>3. Msg("PRODUCER_HELLO", y) \in ClientMsg /\ Msg("PRODUCER_HELLO", y).type # "CONSUMER_HELLO"
    BY StrayFacts DEF Msg, ClientMsg
  <2>4. QED
    BY <1>4, <2>2, <2>3 DEF SendProducerHello
<1>6. CASE \E s \in Screen : SendScreenInfo(c, s)
  <2> PICK s \in Screen : SendScreenInfo(c, s)
    BY <1>6
  <2>1. Msg("SCREEN_INFO", s) \in ClientMsg /\ Msg("SCREEN_INFO", s).type # "CONSUMER_HELLO"
    BY DEF Msg, ClientMsg
  <2>2. QED
    BY <1>1, <1>4, <2>1 DEF SendScreenInfo
<1>7. CASE SendPickup(c)
  <2>1. Msg("PICKUP_FDS", NULL) \in ClientMsg /\ Msg("PICKUP_FDS", NULL).type # "CONSUMER_HELLO"
    BY DEF Msg, ClientMsg
  <2>2. QED
    BY <1>1, <1>4, <1>7, <2>1 DEF SendPickup
<1>8. CASE SendForeign(c)
  <2>1. PICK type \in {"MISPLACED", "FOREIGN"}, y \in {NULL} \cup StrayFds :
          ClientSend(c, Msg(type, y)) /\ UNCHANGED hellos
    BY <1>8 DEF SendForeign, NotSent
  <2>2. Msg(type, y) \in ClientMsg /\ Msg(type, y).type # "CONSUMER_HELLO"
    BY StrayFacts DEF Msg, ClientMsg
  <2>3. QED
    BY <1>1, <1>4, <2>1, <2>2
<1>9. QED
  BY <1>2, <1>3, <1>5, <1>6, <1>7, <1>8 DEF SendHello, NotSent

\* Layer 4 is inductive.
LEMMA GenStep == BaseInv /\ GenInv /\ [Next]_vars => GenInv'
<1> SUFFICES ASSUME BaseInv, GenInv, [Next]_vars PROVE GenInv'
  OBVIOUS
<1>1. BaseInv'
  BY BaseStep
<1>2. CASE \E e \in batch : HandleClientData(e)
  BY <1>1, <1>2, ClientDataGen
<1>3. CASE \E e \in batch : HandleHangup(e)
  <2> PICK e \in batch : HandleHangup(e)
    BY <1>3
  <2>1. /\ e.ptr \in Roles
        /\ DropClient(e.ptr, NULL) /\ UNCHANGED <<hellos, handed>>
    BY DEF HandleHangup, Roles, clients
  <2>2. ctrl_fd[e.ptr] \in Conn
    BY <2>1, NullFacts DEF Roles, BaseInv, RolesOwnStructs
  <2>3. toDaemon' = Discard(IF NULL = NULL THEN toDaemon
                            ELSE [toDaemon EXCEPT ![NULL] = Tail(@)], ctrl_fd[e.ptr])
    BY <2>1 DEF DropClient
  <2>4. \A x \in Conn : LosesAtLeast(x, 0)
    BY <2>2, <2>3, InboxLoses
  <2>5. deposited_fds' \in {NULL, deposited_fds}
    BY <2>1 DEF DropClient
  <2>6. QED
    BY <2>1, <2>4, <2>5, GenSame
<1>4. CASE HandleNewConnection
  BY <1>4, NewConnectionGen
<1>5. CASE EpollWait \/ (\E e \in batch : SkipStaleEvent(e)) \/ Stop \/ Restart \/ Destroy \/ Kill
  BY <1>5, QuietGen DEF EpollWait, SkipStaleEvent, Stop, Restart, Destroy, Kill, Teardown, ctx, clients
<1>6. CASE ClientNext
  BY <1>6, ClientGen
<1>7. CASE UNCHANGED vars
  BY <1>7, QuietGen DEF vars, ctx, clients
<1>8. QED
  BY <1>2, <1>3, <1>4, <1>5, <1>6, <1>7 DEF Next, DaemonNext

-----------------------------------------------------------------------------
(* Every step is one of the rendezvous.                                    *)

\* The offer a set of descriptors makes, and the asker a producer makes.
Standing(s) == IF Complete(s) THEN s ELSE NULL
Live(p)     == IF p # NULL /\ peer[p] = "open" THEN p ELSE NULL

RStep == R!Next \/ UNCHANGED R!vars

\* A producer that waits is connected.
LEMMA WaiterConnected ==
  ASSUME BaseInv, HandInv, producer_waiting_fds
  PROVE  /\ producer \in Addr /\ producer # NULL
         /\ ctrl_fd[producer] \in ProducerConn /\ ctrl_fd[producer] # NULL
         /\ ConnOf(producer) = ctrl_fd[producer]
         /\ AbstractAsker = Live(ctrl_fd[producer])
<1>1. producer # NULL /\ producer \in Addr /\ ctrl_fd[producer] \in ProducerConn
  BY DEF HandInv, NoMissedHandOver, BaseInv, TypeOK, RolesOwnStructs
<1>2. QED
  BY <1>1, NullFacts DEF ConnOf, AbstractAsker, Live

\* What is deposited and who waits stay the same.
LEMMA Stutters ==
  ASSUME UNCHANGED <<deposited_fds, producer_waiting_fds, handed>>,
         producer_waiting_fds =>
           (peer'[ctrl_fd'[producer']] = "open" /\ ctrl_fd'[producer'] = ctrl_fd[producer]
              /\ peer[ctrl_fd[producer]] = "open")
             \/ (peer'[ctrl_fd'[producer']] # "open" /\ peer[ctrl_fd[producer]] # "open")
  PROVE  RStep
<1>1. AbstractOffer' = AbstractOffer
  BY DEF AbstractOffer, Complete
<1>2. AbstractAsker' = AbstractAsker
  BY DEF AbstractAsker
<1>3. QED
  BY <1>1, <1>2 DEF RStep, R!vars

LEMMA QuietStutters ==
  ASSUME UNCHANGED <<deposited_fds, producer_waiting_fds, handed, peer, ctrl_fd, producer>>
  PROVE  RStep
BY Stutters

\* An offer and an asker meet, or both stand.
LEMMA Meets ==
  ASSUME NEW o, NEW p,
         \/ /\ o # NULL /\ p # NULL
            /\ handed' = handed \cup {<<p, o>>} /\ AbstractOffer' = NULL /\ AbstractAsker' = NULL
         \/ /\ o = NULL \/ p = NULL
            /\ handed' = handed /\ AbstractOffer' = o /\ AbstractAsker' = p
  PROVE  R!Meet(o, p)
BY DEF R!Meet

\* try_deliver_fds for the producer connected.
LEMMA TryDeliverMeets ==
  ASSUME NEW s, NEW k, NEW p, p # NULL, s = NULL => ~Complete(s),
         TryDeliver(s, k, p), peer' = peer, ctrl_fd'[producer'] = p
  PROVE  R!Meet(Standing(s), Live(p))
<1>1. CASE CanDeliver(s, p)
  <2>1. Standing(s) = s /\ Live(p) = p /\ s # NULL
    BY <1>1 DEF CanDeliver, Standing, Live
  <2>2. handed' = handed \cup {<<p, s>>} /\ deposited_fds' = NULL /\ producer_waiting_fds' = FALSE
    BY <1>1 DEF TryDeliver
  <2>3. AbstractOffer' = NULL /\ AbstractAsker' = NULL
    BY <2>2 DEF AbstractOffer, AbstractAsker, Complete
  <2>4. QED
    BY <2>1, <2>2, <2>3, Meets
<1>2. CASE ~CanDeliver(s, p)
  <2>1. Standing(s) = NULL \/ Live(p) = NULL
    BY <1>2 DEF CanDeliver, Standing, Live
  <2>2. handed' = handed /\ deposited_fds' = s /\ producer_waiting_fds' = TRUE
    BY <1>2 DEF TryDeliver
  <2>3. AbstractOffer' = Standing(s) /\ AbstractAsker' = Live(p)
    BY <2>2 DEF AbstractOffer, AbstractAsker, Complete, Standing, Live
  <2>4. QED
    BY <2>1, <2>2, <2>3, Meets
<1>3. QED
  BY <1>1, <1>2

\* A deposit, for the producer that waits, if one does.
LEMMA StoreFdsMeets ==
  ASSUME BaseInv, HandInv, NEW s, NEW k, StoreFds(s, k), UNCHANGED <<peer, producer>>,
         producer # NULL => ctrl_fd'[producer] = ctrl_fd[producer]
  PROVE  R!Meet(Standing(s), AbstractAsker)
<1>1. CASE producer_waiting_fds
  <2>1. /\ producer # NULL /\ ctrl_fd[producer] # NULL /\ ConnOf(producer) = ctrl_fd[producer]
        /\ AbstractAsker = Live(ctrl_fd[producer])
    BY <1>1, WaiterConnected
  <2>2. TryDeliver(s, k, ctrl_fd[producer])
    BY <1>1, <2>1 DEF StoreFds
  <2>3. QED
    BY <2>1, <2>2, TryDeliverMeets DEF Complete
<1>2. CASE ~producer_waiting_fds
  <2>1. deposited_fds' = s /\ producer_waiting_fds' = producer_waiting_fds /\ handed' = handed
    BY <1>2 DEF StoreFds
  <2>2. AbstractAsker = NULL /\ AbstractAsker' = NULL /\ AbstractOffer' = Standing(s)
    BY <1>2, <2>1 DEF AbstractAsker, AbstractOffer, Standing, Complete
  <2>3. QED
    BY <2>1, <2>2, Meets
<1>3. QED
  BY <1>1, <1>2

\* A HELLO that is read brings a set that was never handed over.
LEMMA HelloFresh ==
  ASSUME BaseInv, GenInv, NEW c \in Conn, toDaemon[c] # <<>>,
         Head(toDaemon[c]).type = "CONSUMER_HELLO"
  PROVE  \A x \in handed : x[2] # Head(toDaemon[c]).arg
<1> DEFINE s == Head(toDaemon[c]).arg
<1>1. /\ 1 \in 1..Len(toDaemon[c]) /\ IsHello(c, 1) /\ s.gen = Gen(c, 1)
  <2>1. toDaemon[c] \in Seq(ClientMsg)
    BY DEF BaseInv, TypeOK
  <2>2. QED
    BY <2>1 DEF IsHello, Gen
<1>2. s \in FdSet /\ s.owner = c
  BY HeadFacts
<1>3. s.gen \in Nat
  BY <1>2 DEF FdSet
<1> HIDE DEF s
<1>4. s \notin Spent
  BY <1>1, <1>2, <1>3 DEF GenInv
<1>5. QED
  BY <1>4 DEF Spent, s

\* So the set of a HELLO is an offer, or, incomplete, withdraws the last one.
LEMMA HelloSteps ==
  ASSUME BaseInv, HandInv, GenInv, NEW c \in Conn, toDaemon[c] # <<>>,
         Head(toDaemon[c]).type = "CONSUMER_HELLO",
         NEW k, StoreFds(Head(toDaemon[c]).arg, k), UNCHANGED <<peer, producer>>,
         producer # NULL => ctrl_fd'[producer] = ctrl_fd[producer]
  PROVE  RStep
<1> DEFINE s == Head(toDaemon[c]).arg
<1>1. s \in FdSet /\ \A x \in handed : x[2] # s
  BY HeadFacts, HelloFresh
<1>2. R!Meet(Standing(s), AbstractAsker)
  BY StoreFdsMeets
<1> HIDE DEF s
<1>3. CASE Complete(s)
  BY <1>1, <1>2, <1>3 DEF Standing, RStep, R!Next, R!Offer
<1>4. CASE ~Complete(s)
  BY <1>2, <1>4 DEF Standing, RStep, R!Next, R!Withdraw
<1>5. QED
  BY <1>3, <1>4

\* A consumer that goes withdraws its offer, a producer leaves.
LEMMA DropSteps ==
  ASSUME BaseInv, HandInv, NEW a \in Roles, NEW y \in {NULL} \cup StrayFds, DropClient(a, y), UNCHANGED <<peer, handed>>
  PROVE  RStep
<1>1. CASE a = consumer
  <2>1. deposited_fds' = NULL /\ UNCHANGED <<producer, producer_waiting_fds>>
    BY <1>1 DEF DropClient
  <2>2. AbstractAsker' = AbstractAsker
    <3>1. CASE producer_waiting_fds
      <4>1. ctrl_fd'[producer] = ctrl_fd[producer]
        BY <1>1, <3>1, WaiterConnected, DropClientRoles, NullFacts DEF BaseInv, RolesOwnStructs
      <4>2. QED
        BY <2>1, <4>1 DEF AbstractAsker
    <3>2. CASE ~producer_waiting_fds
      BY <2>1, <3>2 DEF AbstractAsker
    <3>3. QED
      BY <3>1, <3>2
  <2>3. AbstractOffer' = NULL
    BY <2>1 DEF AbstractOffer, Complete
  <2>4. R!Meet(NULL, AbstractAsker)
    BY <2>2, <2>3, Meets
  <2>5. QED
    BY <2>4 DEF RStep, R!Next, R!Withdraw
<1>2. CASE a # consumer
  <2>1. producer_waiting_fds' = FALSE /\ deposited_fds' = deposited_fds
    BY <1>2 DEF DropClient
  <2>2. AbstractAsker' = NULL /\ AbstractOffer' = AbstractOffer
    BY <2>1 DEF AbstractAsker, AbstractOffer, Complete
  <2>3. R!Meet(AbstractOffer, NULL)
    BY <2>2, Meets
  <2>4. QED
    BY <2>3 DEF RStep, R!Next, R!Leave
<1>3. QED
  BY <1>1, <1>2

LEMMA ClientDataSteps ==
  ASSUME BaseInv, HandInv, GenInv, NEW e \in batch, HandleClientData(e)
  PROVE  RStep
<1> DEFINE c == ctrl_fd[e.ptr]
           m == Head(toDaemon[c])
<1>1. e.ptr \in Roles /\ c \in Conn /\ toDaemon[c] # <<>> /\ peer' = peer
  BY ClientOfEvent DEF HandleClientData, clients
<1> HIDE DEF m
<1>2. CASE ReadForeign(e.ptr, m)
  <2>1. m.arg \in {NULL} \cup StrayFds /\ DropClient(e.ptr, m.arg)
    BY <1>1, <1>2, HeadFacts DEF ReadForeign, m
  <2>2. QED
    BY <1>1, <1>2, <2>1, DropSteps DEF ReadForeign
<1>3. CASE ReadConsumerHello(e.ptr, m)
  <2>1. CASE e.ptr = consumer /\ m.arg.n = MAX_FDS
    <3>1. m.type = "CONSUMER_HELLO" /\ StoreFds(m.arg, c) /\ UNCHANGED <<producer, ctrl_fd>>
      BY <1>3, <2>1 DEF ReadConsumerHello
    <3>2. QED
      BY <1>1, <3>1, HelloSteps DEF m
  <2>2. CASE ~(e.ptr = consumer /\ m.arg.n = MAX_FDS)
    BY <1>1, <1>3, <2>2, QuietStutters DEF ReadConsumerHello
  <2>3. QED
    BY <2>1, <2>2
<1>4. CASE ReadScreenInfo(e.ptr, m) \/ ReadMisplaced(e.ptr, m)
  BY <1>1, <1>4, QuietStutters DEF ReadScreenInfo, ReadMisplaced
<1>5. CASE ReadPickup(e.ptr, m)
  <2>1. CASE e.ptr = producer
    <3>1. TryDeliver(deposited_fds, ConnOf(consumer), c) /\ UNCHANGED <<producer, ctrl_fd>>
      BY <1>5, <2>1 DEF ReadPickup
    <3>2. c \in ProducerConn /\ c # NULL
      BY <1>1, <2>1, NullFacts DEF Roles, BaseInv, RolesOwnStructs
    <3>3. R!Meet(Standing(deposited_fds), Live(c))
      BY <1>1, <2>1, <3>1, <3>2, TryDeliverMeets DEF Complete
    <3>4. AbstractOffer = Standing(deposited_fds)
      BY DEF AbstractOffer, Standing
    <3>5. CASE Live(c) = c
      BY <3>2, <3>3, <3>4, <3>5 DEF RStep, R!Next, R!Ask
    <3>6. CASE Live(c) = NULL
      BY <3>3, <3>4, <3>6 DEF RStep, R!Next, R!Leave
    <3>7. QED
      BY <3>5, <3>6 DEF Live
  <2>2. CASE e.ptr # producer
    BY <1>1, <1>5, <2>2, QuietStutters DEF ReadPickup
  <2>3. QED
    BY <2>1, <2>2
<1>6. QED
  BY <1>2, <1>3, <1>4, <1>5 DEF HandleClientData, m

LEMMA NewConnectionSteps ==
  ASSUME BaseInv, HandInv, GenInv, HandleNewConnection
  PROVE  RStep
<1> DEFINE c == Head(backlog)
           m == Head(toDaemon[c])
<1>1. c \in Conn /\ peer' = peer
  BY AcceptKnown DEF HandleNewConnection, clients
<1> HIDE DEF c, m
<1>2. CASE toDaemon[c] # <<>> /\ AcceptConsumer(c, m)
  <2>1. m.type = "CONSUMER_HELLO" /\ StoreFds(m.arg, c) /\ producer' = producer
    BY <1>2 DEF AcceptConsumer
  <2>2. PICK a \in FreshAddr(consumer) : Install(a, c, consumer)
    BY <1>2 DEF AcceptConsumer
  <2>3. a \notin Roles /\ \A x \in Addr : x # a /\ x # consumer => ctrl_fd'[x] = ctrl_fd[x]
    BY <1>1, <1>2, <2>2, InstallBase
  <2>4. producer # NULL => producer \in Addr /\ producer # a /\ producer # consumer
    BY <2>3, NullFacts DEF Roles, BaseInv, TypeOK, RolesOwnStructs
  <2>5. QED
    BY <1>1, <1>2, <2>1, <2>3, <2>4, HelloSteps DEF m
<1>3. CASE AcceptProducer(c, m)
  <2>1. producer_waiting_fds' = FALSE /\ UNCHANGED <<deposited_fds, handed>>
    BY <1>3 DEF AcceptProducer
  <2>2. AbstractAsker' = NULL /\ AbstractOffer' = AbstractOffer
    BY <2>1 DEF AbstractAsker, AbstractOffer, Complete
  <2>3. R!Meet(AbstractOffer, NULL)
    BY <2>1, <2>2, Meets
  <2>4. QED
    BY <2>3 DEF RStep, R!Next, R!Leave
<1>4. CASE \E y : Refuse(c, y)
  BY <1>1, <1>4, QuietStutters DEF Refuse
<1>5. QED
  BY <1>2, <1>3, <1>4 DEF HandleNewConnection, c, m

\* A client that connects is nobody's waiting producer yet; one that closes
\* may be.
LEMMA ClientSteps ==
  ASSUME BaseInv, HandInv, ClientNext
  PROVE  RStep
<1>1. UNCHANGED <<deposited_fds, producer_waiting_fds, handed, ctrl_fd, producer>>
  BY DEF ClientNext, ClientConnect, SendHello, SendConsumerHello, SendProducerHello, SendScreenInfo,
         SendPickup, SendForeign, ClientSend, ClientRead, ClientClose, daemonState, ctx
<1>2. PICK c \in Conn : ClientConnect(c) \/ ClientClose(c) \/ UNCHANGED peer
  BY DEF ClientNext, SendHello, SendConsumerHello, SendProducerHello, SendScreenInfo,
         SendPickup, SendForeign, ClientSend, ClientRead, clients
<1>3. peer \in [Conn -> {"none", "open", "closed"}]
  BY DEF BaseInv, TypeOK
<1>4. producer_waiting_fds =>
        /\ ctrl_fd[producer] \in Conn /\ peer[ctrl_fd[producer]] \in {"open", "closed"}
  BY WaiterConnected, NullFacts DEF HandInv, KnownConns
<1>5. CASE ClientConnect(c)
  <2>1. peer' = [peer EXCEPT ![c] = "open"] /\ peer[c] = "none"
    BY <1>5 DEF ClientConnect
  <2>2. producer_waiting_fds => peer'[ctrl_fd[producer]] = peer[ctrl_fd[producer]]
    BY <1>3, <1>4, <2>1
  <2>3. QED
    BY <1>1, <2>2, Stutters
<1>6. CASE ClientClose(c)
  <2>1. peer' = [peer EXCEPT ![c] = "closed"]
    BY <1>6 DEF ClientClose
  <2>2. CASE producer_waiting_fds /\ ctrl_fd[producer] = c
    <3>1. peer'[c] = "closed"
      BY <1>3, <2>1
    <3>2. AbstractAsker' = NULL /\ AbstractOffer' = AbstractOffer
      BY <1>1, <2>2, <3>1 DEF AbstractAsker, AbstractOffer, Complete
    <3>3. R!Meet(AbstractOffer, NULL)
      BY <1>1, <3>2, Meets
    <3>4. QED
      BY <3>3 DEF RStep, R!Next, R!Leave
  <2>3. CASE ~(producer_waiting_fds /\ ctrl_fd[producer] = c)
    <3>1. producer_waiting_fds => peer'[ctrl_fd[producer]] = peer[ctrl_fd[producer]]
      BY <1>3, <1>4, <2>1, <2>3
    <3>2. QED
      BY <1>1, <3>1, Stutters
  <2>4. QED
    BY <2>2, <2>3
<1>7. CASE UNCHANGED peer
  BY <1>1, <1>7, QuietStutters
<1>8. QED
  BY <1>2, <1>5, <1>6, <1>7

LEMMA RendezvousStep == BaseInv /\ HandInv /\ GenInv /\ [Next]_vars => RStep
<1> SUFFICES ASSUME BaseInv, HandInv, GenInv, [Next]_vars PROVE RStep
  OBVIOUS
<1>1. CASE \E e \in batch : HandleClientData(e)
  BY <1>1, ClientDataSteps
<1>2. CASE \E e \in batch : HandleHangup(e)
  BY <1>2, DropSteps DEF HandleHangup, Roles, clients
<1>3. CASE HandleNewConnection
  BY <1>3, NewConnectionSteps
<1>4. CASE EpollWait \/ (\E e \in batch : SkipStaleEvent(e)) \/ Stop \/ Restart
  BY <1>4, QuietStutters DEF EpollWait, SkipStaleEvent, Stop, Restart, ctx, clients
<1>5. CASE Destroy \/ Kill
  <2>1. producer_waiting_fds' = FALSE /\ deposited_fds' = NULL /\ handed' = handed
    BY <1>5 DEF Destroy, Kill, Teardown
  <2>2. AbstractAsker' = NULL /\ AbstractOffer' = NULL
    BY <2>1 DEF AbstractAsker, AbstractOffer, Complete
  <2>3. R!Meet(NULL, NULL)
    BY <2>1, <2>2, Meets
  <2>4. QED
    BY <2>3 DEF RStep, R!Next, R!Forget
<1>6. CASE ClientNext
  BY <1>6, ClientSteps
<1>7. CASE UNCHANGED vars
  BY <1>7, QuietStutters DEF vars, ctx, clients
<1>8. QED
  BY <1>1, <1>2, <1>3, <1>4, <1>5, <1>6, <1>7 DEF Next, DaemonNext

\* The daemon, its event loop, its reused addresses and its clients that come,
\* send and die in any order, is nothing but the rendezvous.
THEOREM RendezvousImplemented == Spec => ImplementsRendezvous
<1>1. Init => GenInv
  <2>1. Len(<<>>) = 0
    OBVIOUS
  <2>2. QED
    BY <2>1 DEF Init, GenInv, Spent
<1>2. Spec => []GenInv
  BY <1>1, GenStep, BaseInit, BaseStep, PTL DEF Spec
<1>3. Init => R!Init
  BY DEF Init, R!Init, AbstractOffer, AbstractAsker, Complete
<1>4. BaseInv /\ HandInv /\ GenInv /\ [Next]_vars => [R!Next]_R!vars
  BY RendezvousStep DEF RStep
<1>5. QED
  BY <1>2, <1>3, <1>4, HandCorrect, PTL DEF Spec, ImplementsRendezvous, R!Spec

-----------------------------------------------------------------------------
(* What the rendezvous promises.                                           *)

LEMMA OfferOnceStep ==
  BaseInv /\ BaseInv' /\ EveryOfferOnce /\ [R!Next]_R!vars => EveryOfferOnce'
<1> SUFFICES ASSUME BaseInv, BaseInv', EveryOfferOnce, [R!Next]_R!vars
             PROVE  EveryOfferOnce'
  OBVIOUS
<1>1. (\A x \in handed : x[2] # NULL) /\ (\A x \in handed' : x[2] # NULL)
  BY NullFacts DEF BaseInv, TypeOK
<1>2. ASSUME NEW o, NEW p, R!Meet(o, p), \A x \in handed : x[2] # o
      PROVE  EveryOfferOnce'
  <2>1. CASE o # NULL /\ p # NULL
    <3>1. handed' = handed \cup {<<p, o>>} /\ AbstractOffer' = NULL /\ AbstractAsker' = NULL
      BY <1>2, <2>1 DEF R!Meet
    <3>2. \A x, y \in handed' : x[2] = y[2] => x = y
      BY <1>2, <3>1 DEF EveryOfferOnce, R!HandedOnce
    <3>3. QED
      BY <1>1, <3>1, <3>2 DEF EveryOfferOnce, R!HandedOnce, R!NobodyWaits
  <2>2. CASE o = NULL \/ p = NULL
    <3>1. handed' = handed /\ AbstractOffer' = o /\ AbstractAsker' = p
      BY <1>2, <2>2 DEF R!Meet
    <3>2. QED
      BY <1>2, <2>2, <3>1 DEF EveryOfferOnce, R!HandedOnce, R!NobodyWaits
  <2>3. QED
    BY <2>1, <2>2
<1>3. CASE \E o \in FdSet : R!Offer(o)
  BY <1>2, <1>3 DEF R!Offer
<1>4. CASE (\E p \in ProducerConn : R!Ask(p)) \/ R!Leave
  <2>1. \A x \in handed : x[2] # AbstractOffer
    BY DEF EveryOfferOnce, R!HandedOnce
  <2>2. QED
    BY <1>2, <1>4, <2>1 DEF R!Ask, R!Leave
<1>5. CASE R!Withdraw \/ R!Forget
  BY <1>1, <1>2, <1>5 DEF R!Withdraw, R!Forget
<1>6. CASE UNCHANGED R!vars
  BY <1>6 DEF R!vars, EveryOfferOnce, R!HandedOnce, R!NobodyWaits
<1>7. QED
  BY <1>3, <1>4, <1>5, <1>6 DEF R!Next

\* A deposited set goes to one producer at most, and never to a second one.
THEOREM OfferedOnce == Spec => []EveryOfferOnce
<1>1. Init => EveryOfferOnce
  BY DEF Init, EveryOfferOnce, R!NobodyWaits, R!HandedOnce, AbstractOffer, Complete
<1>2. Spec => [](BaseInv /\ HandInv) /\ [][R!Next]_R!vars
  BY HandCorrect, RendezvousImplemented DEF ImplementsRendezvous, R!Spec
<1>3. QED
  BY <1>1, <1>2, OfferOnceStep, PTL DEF Spec

-----------------------------------------------------------------------------
(* What the consumer is told.                                              *)

\* What ConsumerToldOnce says of a single step.
Told ==
  \A c \in ConsumerConn : peer'[c] = "open" =>
    (Len(toClient'[c]) > Len(toClient[c]) <=> \E h \in handed' \ handed : h[2].owner = c)

\* Nothing is handed over and no consumer's queue grows.
LEMMA QuietTells ==
  ASSUME BaseInv, handed' = handed,
         \A c \in ConsumerConn : peer'[c] = "open" =>
           toClient'[c] = toClient[c]
             \/ (toClient[c] # <<>> /\ toClient'[c] = Tail(toClient[c]))
  PROVE  Told
<1> SUFFICES ASSUME NEW c \in ConsumerConn, peer'[c] = "open"
             PROVE  ~(Len(toClient'[c]) > Len(toClient[c]))
  BY DEF Told
<1>1. toClient[c] \in Seq(DaemonMsg)
  BY NullFacts DEF BaseInv, TypeOK
<1>2. CASE toClient'[c] = toClient[c]
  BY <1>1, <1>2
<1>3. CASE toClient[c] # <<>> /\ toClient'[c] = Tail(toClient[c])
  <2>1. Len(Tail(toClient[c])) = Len(toClient[c]) - 1 /\ Len(toClient[c]) \in Nat
    BY <1>1, <1>3
  <2>2. QED
    BY <1>3, <2>1
<1>4. QED
  BY <1>2, <1>3

\* Posting to a connection adds one message to that queue, if its client is
\* there, and leaves the others alone.
LEMMA PostAt ==
  ASSUME NEW q \in [Conn -> Seq(DaemonMsg)], NEW c \in Conn \cup {NULL}, NEW m \in DaemonMsg,
         NEW x \in Conn
  PROVE  /\ x # c => Post(q, c, m)[x] = q[x]
         /\ x = c /\ peer[x] = "open" => Len(Post(q, c, m)[x]) = Len(q[x]) + 1
<1>1. c # NULL => c \in Conn
  OBVIOUS
<1>2. CASE x # c
  BY <1>2 DEF Post
<1>3. CASE x = c /\ peer[x] = "open"
  <2>1. Post(q, c, m)[x] = Append(q[x], m)
    BY <1>3, NullFacts DEF Post
  <2>2. \A r \in Seq(DaemonMsg) : Len(Append(r, m)) = Len(r) + 1
    OBVIOUS
  <2>3. q[x] \in Seq(DaemonMsg)
    OBVIOUS
  <2>4. QED
    BY ONLY <1>3, <2>1, <2>2, <2>3
<1>4. QED
  BY <1>2, <1>3

\* try_deliver_fds tells the consumer it is called for, and nobody else, when
\* the set goes out.
LEMMA TryDeliverTells ==
  ASSUME BaseInv, NEW s \in FdSet \cup {NULL}, NEW k \in Conn \cup {NULL},
         NEW p \in ProducerConn \cup {NULL}, TryDeliver(s, k, p), peer' = peer,
         Complete(s) => k = s.owner /\ \A h \in handed : h[2] # s
  PROVE  Told
<1>1. CASE CanDeliver(s, p)
  <2>1. /\ s \in FdSet /\ p \in ProducerConn /\ p \in Conn
        /\ k = s.owner /\ k \in ConsumerConn /\ k # p
    <3>1. s # NULL /\ Complete(s) /\ p # NULL
      BY <1>1 DEF CanDeliver, Complete
    <3>2. s \in FdSet /\ p \in ProducerConn /\ k = s.owner
      BY <3>1
    <3>3. s.owner \in ConsumerConn
      BY <3>2 DEF FdSet
    <3>4. QED
      BY <3>2, <3>3, NullFacts
  <2>2. \A h \in handed : h[2] # s
    BY <1>1 DEF CanDeliver
  <2> DEFINE q == Post(toClient, p, Msg("FDS_READY", s))
  <2>3. toClient \in [Conn -> Seq(DaemonMsg)] /\ q \in [Conn -> Seq(DaemonMsg)]
    <3>1. toClient \in [Conn -> Seq(DaemonMsg)]
      BY DEF BaseInv, TypeOK
    <3>2. QED
      BY <2>1, <3>1, PostType, DaemonMsgs
  <2>4. toClient' = Post(q, k, Msg("FDS_READY", NULL)) /\ handed' = handed \cup {<<p, s>>}
    BY <1>1 DEF TryDeliver
  <2>5. \A x \in ConsumerConn : q[x] = toClient[x]
    <3> SUFFICES ASSUME NEW x \in ConsumerConn PROVE q[x] = toClient[x]
      OBVIOUS
    <3>1. x \in Conn /\ x # p /\ p \in Conn \cup {NULL} /\ Msg("FDS_READY", s) \in DaemonMsg
      BY <2>1, NullFacts, DaemonMsgs
    <3>2. x # p => Post(toClient, p, Msg("FDS_READY", s))[x] = toClient[x]
      BY ONLY <2>3, <3>1, PostAt
    <3>3. QED
      BY <3>1, <3>2
  <2> HIDE DEF q
  <2>6. handed' \ handed = {<<p, s>>}
    BY <2>2, <2>4
  <2>7. ASSUME NEW c \in ConsumerConn, peer'[c] = "open", c = k
        PROVE  /\ Len(toClient'[c]) > Len(toClient[c])
               /\ \E h \in handed' \ handed : h[2].owner = c
    <3>1. c \in Conn /\ Msg("FDS_READY", NULL) \in DaemonMsg
      BY NullFacts, DaemonMsgs
    <3>2. Len(Post(q, k, Msg("FDS_READY", NULL))[c]) = Len(q[c]) + 1
      BY <2>3, <2>7, <3>1, PostAt
    <3>3. Len(toClient[c]) \in Nat
      BY <2>3, <3>1
    <3>4. Len(toClient'[c]) = Len(toClient[c]) + 1
      BY <2>4, <2>5, <2>7, <3>2
    <3>5. <<p, s>> \in handed' \ handed /\ <<p, s>>[2] = s /\ s.owner = c
      BY <2>1, <2>6, <2>7
    <3>6. QED
      BY <3>3, <3>4, <3>5
  <2>8. ASSUME NEW c \in ConsumerConn, peer'[c] = "open", c # k
        PROVE  /\ ~(Len(toClient'[c]) > Len(toClient[c]))
               /\ ~\E h \in handed' \ handed : h[2].owner = c
    <3>1. c \in Conn /\ Msg("FDS_READY", NULL) \in DaemonMsg
      BY NullFacts, DaemonMsgs
    <3>2. Post(q, k, Msg("FDS_READY", NULL))[c] = q[c]
      BY <2>3, <2>8, <3>1, PostAt
    <3>3. Len(toClient[c]) \in Nat
      BY <2>3, <3>1
    <3>4. QED
      BY <2>1, <2>4, <2>5, <2>6, <2>8, <3>2, <3>3
  <2>9. QED
    BY <2>7, <2>8 DEF Told
<1>2. CASE ~CanDeliver(s, p)
  BY <1>2, QuietTells DEF TryDeliver
<1>3. QED
  BY <1>1, <1>2

\* So does a deposit, for the consumer it comes from.
LEMMA StoreFdsTells ==
  ASSUME BaseInv, HandInv, NEW s \in FdSet, StoreFds(s, s.owner), peer' = peer,
         \A h \in handed : h[2] # s
  PROVE  Told
<1>1. s.owner \in Conn
  BY NullFacts DEF FdSet
<1>2. CASE producer_waiting_fds
  <2>1. ConnOf(producer) \in ProducerConn
    BY <1>2, WaiterConnected
  <2>2. TryDeliver(s, s.owner, ConnOf(producer))
    BY <1>2 DEF StoreFds
  <2>3. QED
    BY <1>1, <2>1, <2>2, TryDeliverTells
<1>3. CASE ~producer_waiting_fds
  BY <1>3, QuietTells DEF StoreFds
<1>4. QED
  BY <1>2, <1>3

\* A message for a producer is none for a consumer.
LEMMA ProducerTells ==
  ASSUME BaseInv, NEW p \in ProducerConn, NEW m \in DaemonMsg,
         toClient' = Post(toClient, p, m), handed' = handed
  PROVE  Told
<1>1. toClient \in [Conn -> Seq(DaemonMsg)] /\ p \in Conn
  BY NullFacts DEF BaseInv, TypeOK
<1>2. ASSUME NEW c \in ConsumerConn PROVE toClient'[c] = toClient[c]
  <2>1. c \in Conn /\ c # p
    BY NullFacts
  <2>2. QED
    BY <1>1, <2>1, PostAt
<1>3. QED
  BY <1>2, QuietTells

LEMMA ClientDataTells ==
  ASSUME BaseInv, HandInv, GenInv, NEW e \in batch, HandleClientData(e)
  PROVE  Told
<1> DEFINE c == ctrl_fd[e.ptr]
           m == Head(toDaemon[c])
<1>1. e.ptr \in Roles /\ c \in Conn /\ toDaemon[c] # <<>> /\ peer' = peer
  BY ClientOfEvent DEF HandleClientData, clients
<1>2. /\ m.type = "CONSUMER_HELLO" => m.arg \in FdSet /\ m.arg.owner = c
      /\ m.type = "SCREEN_INFO" => m.arg \in Screen
      /\ m.type = "CONSUMER_HELLO" => \A h \in handed : h[2] # m.arg
  BY <1>1, HeadFacts, HelloFresh
<1> HIDE DEF m
<1>3. ASSUME UNCHANGED <<toClient, handed>> PROVE Told
  BY <1>3, QuietTells
<1>4. CASE ReadConsumerHello(e.ptr, m)
  <2>1. CASE e.ptr = consumer /\ m.arg.n = MAX_FDS
    <3>1. m.type = "CONSUMER_HELLO" /\ StoreFds(m.arg, c)
      BY <1>4, <2>1 DEF ReadConsumerHello
    <3>2. QED
      BY <1>1, <1>2, <3>1, StoreFdsTells
  <2>2. CASE ~(e.ptr = consumer /\ m.arg.n = MAX_FDS)
    BY <1>3, <1>4, <2>2 DEF ReadConsumerHello
  <2>3. QED
    BY <2>1, <2>2
<1>5. CASE ReadScreenInfo(e.ptr, m)
  <2>1. CASE e.ptr = consumer /\ producer_waiting_screen /\ producer # NULL
    <3>1. toClient' = Post(toClient, ctrl_fd[producer], m) /\ handed' = handed
      BY <1>5, <2>1 DEF ReadScreenInfo
    <3>2. ctrl_fd[producer] \in ProducerConn
      BY <2>1 DEF BaseInv, RolesOwnStructs
    <3>3. m \in DaemonMsg
      <4>1. m \in ClientMsg /\ m.type = "SCREEN_INFO"
        BY <1>1, <1>5, HeadFacts DEF ReadScreenInfo, m
      <4>2. QED
        BY <4>1 DEF ClientMsg, DaemonMsg
    <3>4. QED
      BY <3>1, <3>2, <3>3, ProducerTells
  <2>2. CASE ~(e.ptr = consumer /\ producer_waiting_screen /\ producer # NULL)
    BY <1>3, <1>5, <2>2 DEF ReadScreenInfo
  <2>3. QED
    BY <2>1, <2>2
<1>6. CASE ReadPickup(e.ptr, m)
  <2>1. CASE e.ptr = producer
    <3>1. TryDeliver(deposited_fds, ConnOf(consumer), c)
      BY <1>6, <2>1 DEF ReadPickup
    <3>2. deposited_fds \in FdSet \cup {NULL} /\ ConnOf(consumer) \in Conn \cup {NULL}
      BY NullFacts DEF BaseInv, TypeOK, ConnOf
    <3>3. c \in ProducerConn
      BY <1>1, <2>1, NullFacts DEF Roles, BaseInv, RolesOwnStructs
    <3>4. Complete(deposited_fds) => ConnOf(consumer) = deposited_fds.owner
      BY DEF Complete, HandInv, DepositIsConsumers, ConnOf
    <3>5. \A h \in handed : h[2] # deposited_fds
      BY DEF GenInv
    <3>6. QED
      BY <1>1, <3>1, <3>2, <3>3, <3>4, <3>5, TryDeliverTells
  <2>2. CASE e.ptr # producer
    BY <1>3, <1>6, <2>2 DEF ReadPickup
  <2>3. QED
    BY <2>1, <2>2
<1>7. CASE ReadMisplaced(e.ptr, m) \/ ReadForeign(e.ptr, m)
  BY <1>3, <1>7 DEF ReadMisplaced, ReadForeign
<1>8. QED
  BY <1>4, <1>5, <1>6, <1>7 DEF HandleClientData, m

LEMMA NewConnectionTells ==
  ASSUME BaseInv, HandInv, GenInv, HandleNewConnection
  PROVE  Told
<1> DEFINE c == Head(backlog)
           m == Head(toDaemon[c])
<1>1. c \in Conn /\ peer' = peer
  BY AcceptKnown DEF HandleNewConnection, clients
<1> HIDE DEF c, m
<1>2. ASSUME UNCHANGED <<toClient, handed>> PROVE Told
  BY <1>2, QuietTells
<1>3. CASE toDaemon[c] # <<>> /\ AcceptConsumer(c, m)
  <2>1. m.type = "CONSUMER_HELLO" /\ StoreFds(m.arg, c)
    BY <1>3 DEF AcceptConsumer
  <2>2. m.arg \in FdSet /\ m.arg.owner = c /\ \A h \in handed : h[2] # m.arg
    BY <1>1, <1>3, <2>1, HeadFacts, HelloFresh DEF m
  <2>3. QED
    BY <1>1, <2>1, <2>2, StoreFdsTells
<1>4. CASE toDaemon[c] # <<>> /\ AcceptProducer(c, m)
  <2>1. CASE stored_screen # NULL
    <3>1. c \in ProducerConn
      BY <1>1, <1>4, HeadFacts DEF AcceptProducer, m
    <3>2. Msg("SCREEN_INFO", stored_screen) \in DaemonMsg
      BY <2>1, DaemonMsgs DEF BaseInv, TypeOK
    <3>3. QED
      BY <1>4, <2>1, <3>1, <3>2, ProducerTells DEF AcceptProducer
  <2>2. CASE stored_screen = NULL
    BY <1>2, <1>4, <2>2 DEF AcceptProducer
  <2>3. QED
    BY <2>1, <2>2
<1>5. CASE \E y : Refuse(c, y)
  BY <1>2, <1>5 DEF Refuse
<1>6. QED
  BY <1>3, <1>4, <1>5 DEF HandleNewConnection, c, m

\* A client that reads shortens its queue, and one that closes is told
\* nothing any more.
LEMMA ClientTells ==
  ASSUME BaseInv, ClientNext
  PROVE  Told
<1>1. handed' = handed
  BY DEF ClientNext, ClientConnect, SendHello, SendConsumerHello, SendProducerHello, SendScreenInfo,
         SendPickup, SendForeign, ClientSend, ClientRead, ClientClose, daemonState
<1>2. PICK c \in Conn : ClientRead(c) \/ ClientClose(c) \/ UNCHANGED toClient
  BY DEF ClientNext, ClientConnect, SendHello, SendConsumerHello, SendProducerHello, SendScreenInfo,
         SendPickup, SendForeign, ClientSend
<1>3. /\ toClient \in [Conn -> Seq(DaemonMsg)]
      /\ peer \in [Conn -> {"none", "open", "closed"}]
      /\ ConsumerConn \subseteq Conn
  BY NullFacts DEF BaseInv, TypeOK
<1>4. CASE ClientRead(c)
  <2>1. toClient[c] # <<>> /\ toClient' = [toClient EXCEPT ![c] = Tail(@)]
    BY <1>4 DEF ClientRead
  <2>2. \A x \in ConsumerConn :
          toClient'[x] = toClient[x] \/ (toClient[x] # <<>> /\ toClient'[x] = Tail(toClient[x]))
    BY <1>3, <2>1
  <2>3. QED
    BY <1>1, <2>2, QuietTells
<1>5. CASE ClientClose(c)
  <2>1. /\ peer' = [peer EXCEPT ![c] = "closed"]
        /\ toClient' = [toClient EXCEPT ![c] = <<>>]
    BY <1>5 DEF ClientClose
  <2>2. \A x \in ConsumerConn : peer'[x] = "open" => toClient'[x] = toClient[x]
    BY <1>3, <2>1
  <2>3. QED
    BY <1>1, <2>2, QuietTells
<1>6. CASE UNCHANGED toClient
  BY <1>1, <1>6, QuietTells
<1>7. QED
  BY <1>2, <1>4, <1>5, <1>6

LEMMA ToldStep == BaseInv /\ HandInv /\ GenInv /\ [Next]_vars => Told
<1> SUFFICES ASSUME BaseInv, HandInv, GenInv, [Next]_vars PROVE Told
  OBVIOUS
<1>1. ASSUME UNCHANGED <<toClient, handed>> PROVE Told
  BY <1>1, QuietTells
<1>2. CASE \E e \in batch : HandleClientData(e)
  BY <1>2, ClientDataTells
<1>3. CASE HandleNewConnection
  BY <1>3, NewConnectionTells
<1>4. CASE EpollWait \/ (\E e \in batch : SkipStaleEvent(e) \/ HandleHangup(e))
           \/ Stop \/ Destroy \/ Kill \/ Restart
  BY <1>1, <1>4
  DEF EpollWait, SkipStaleEvent, HandleHangup, Stop, Destroy, Kill, Restart, Teardown
<1>5. CASE ClientNext
  BY <1>5, ClientTells
<1>6. CASE UNCHANGED vars
  BY <1>1, <1>6 DEF vars
<1>7. QED
  BY <1>2, <1>3, <1>4, <1>5, <1>6 DEF Next, DaemonNext

\* A consumer hears FDS_READY exactly once for each of its sets that goes out,
\* in the step that hands it over, and never otherwise.
THEOREM ConsumerTold == Spec => ConsumerToldOnce
<1>1. Init => GenInv
  <2>1. Len(<<>>) = 0
    OBVIOUS
  <2>2. QED
    BY <2>1 DEF Init, GenInv, Spent
<1>2. Spec => []GenInv
  BY <1>1, GenStep, BaseInit, BaseStep, PTL DEF Spec
<1>3. BaseInv /\ HandInv /\ GenInv /\ [Next]_vars => [Told]_vars
  BY ToldStep
<1>4. Spec => [][Told]_vars
  BY <1>2, <1>3, HandCorrect, PTL DEF Spec
<1>5. QED
  BY <1>4 DEF ConsumerToldOnce, Told

-----------------------------------------------------------------------------
(* What the producer is told.                                              *)

\* A connection is accepted once: what waits in the backlog is in no struct.
FreshConns ==
  /\ \A i, j \in 1..Len(backlog) : backlog[i] = backlog[j] => i = j
  /\ \A i \in 1..Len(backlog) : \A a \in Addr : ctrl_fd[a] # backlog[i]

\* Nothing new in the backlog, nothing new in the structs.
LEMMA SameFresh ==
  ASSUME BaseInv, FreshConns, backlog' = backlog,
         \A a \in Addr : ctrl_fd'[a] \in {ctrl_fd[a], NULL}
  PROVE  FreshConns'
<1>1. \A i \in 1..Len(backlog) : backlog[i] # NULL
  BY NullFacts DEF BaseInv, TypeOK
<1>2. QED
  BY <1>1 DEF FreshConns

LEMMA NewConnectionFresh ==
  ASSUME BaseInv, FreshConns, HandleNewConnection
  PROVE  FreshConns'
<1> DEFINE c == Head(backlog)
<1>1. /\ backlog \in Seq(Conn) /\ backlog # <<>> /\ backlog' = Tail(backlog)
      /\ ctrl_fd \in [Addr -> Conn \cup {NULL}]
  BY DEF HandleNewConnection, BaseInv, TypeOK
<1>2. c = backlog[1] /\ 1 \in 1..Len(backlog) /\ c \in Conn
  BY <1>1
<1>3. \A i \in 1..Len(backlog') :
        i + 1 \in 1..Len(backlog) /\ i + 1 # 1 /\ backlog'[i] = backlog[i + 1]
  BY <1>1, TailFacts
<1>4. \A i, j \in 1..Len(backlog') : backlog'[i] = backlog'[j] => i = j
  <2> SUFFICES ASSUME NEW i \in 1..Len(backlog'), NEW j \in 1..Len(backlog'),
                      backlog'[i] = backlog'[j]
               PROVE  i = j
    OBVIOUS
  <2>1. i + 1 = j + 1
    BY <1>3 DEF FreshConns
  <2>2. QED
    BY <2>1
<1>5. ASSUME NEW i \in 1..Len(backlog'), NEW a \in Addr,
             ctrl_fd'[a] \in {ctrl_fd[a], NULL, c}
      PROVE  ctrl_fd'[a] # backlog'[i]
  <2>1. /\ i + 1 \in 1..Len(backlog) /\ backlog[i + 1] # c /\ backlog[i + 1] # NULL
        /\ backlog[i + 1] # ctrl_fd[a]
    BY <1>1, <1>2, <1>3, NullFacts DEF FreshConns
  <2>2. QED
    BY <1>3, <1>5, <2>1
<1>6. ASSUME NEW a, NEW old, Install(a, c, old)
      PROVE  \A x \in Addr : ctrl_fd'[x] \in {ctrl_fd[x], NULL, c}
  BY <1>6 DEF Install
<1>7. \A x \in Addr : ctrl_fd'[x] \in {ctrl_fd[x], NULL, c}
  BY <1>2, <1>6, NewConnection DEF AcceptConsumer, AcceptProducer, Refuse
<1>8. QED
  BY <1>4, <1>5, <1>7 DEF FreshConns

LEMMA FreshStep == BaseInv /\ HandInv /\ FreshConns /\ [Next]_vars => FreshConns'
<1> SUFFICES ASSUME BaseInv, HandInv, FreshConns, [Next]_vars PROVE FreshConns'
  OBVIOUS
<1>1. CASE HandleNewConnection
  BY <1>1, NewConnectionFresh
<1>2. ASSUME NEW a, NEW y, DropClient(a, y), backlog' = backlog
      PROVE  FreshConns'
  <2>1. \A x \in Addr : ctrl_fd'[x] \in {ctrl_fd[x], NULL}
    BY <1>2 DEF DropClient, BaseInv, TypeOK
  <2>2. QED
    BY <1>2, <2>1, SameFresh
<1>3. CASE \E e \in batch : HandleHangup(e)
  BY <1>2, <1>3 DEF HandleHangup
<1>4. CASE \E e \in batch : HandleClientData(e)
  <2> PICK e \in batch : HandleClientData(e)
    BY <1>4
  <2>1. backlog' = backlog
    BY DEF HandleClientData
  <2>2. ctrl_fd' = ctrl_fd \/ \E y : DropClient(e.ptr, y)
    BY DEF HandleClientData, ReadConsumerHello, ReadScreenInfo, ReadPickup, ReadMisplaced, ReadForeign
  <2>3. QED
    BY <1>2, <2>1, <2>2, SameFresh
<1>5. CASE Destroy \/ Kill
  <2>1. backlog' = <<>> /\ Len(<<>>) = 0
    BY <1>5 DEF Destroy, Kill, Teardown
  <2>2. QED
    BY <2>1 DEF FreshConns
<1>6. ASSUME NEW c \in Conn, ClientConnect(c)
      PROVE  FreshConns'
  <2>1. /\ peer[c] = "none" /\ backlog' = Append(backlog, c) /\ ctrl_fd' = ctrl_fd
        /\ backlog \in Seq(Conn)
    BY <1>6 DEF ClientConnect, daemonState, BaseInv, TypeOK
  <2>2. \A i \in 1..Len(backlog') :
          (i \in 1..Len(backlog) /\ backlog'[i] = backlog[i]) \/ (i = Len(backlog) + 1 /\ backlog'[i] = c)
    BY <2>1
  <2>3. /\ \A i \in 1..Len(backlog) : backlog[i] # c
        /\ \A a \in Addr : ctrl_fd[a] # c
    BY <2>1, NullFacts DEF HandInv, KnownConns
  <2>4. QED
    BY <2>1, <2>2, <2>3 DEF FreshConns
<1>7. CASE ClientNext
  <2>1. PICK c \in Conn : ClientConnect(c) \/ UNCHANGED <<ctrl_fd, backlog>>
    BY <1>7 DEF ClientNext, SendHello, SendConsumerHello, SendProducerHello, SendScreenInfo,
                SendPickup, SendForeign, ClientSend, ClientRead, ClientClose, daemonState
  <2>2. QED
    BY <1>6, <2>1, SameFresh
<1>8. CASE EpollWait \/ (\E e \in batch : SkipStaleEvent(e)) \/ Stop \/ Restart \/ UNCHANGED vars
  BY <1>8, SameFresh DEF EpollWait, SkipStaleEvent, Stop, Restart, vars
<1>9. QED
  BY <1>1, <1>3, <1>4, <1>5, <1>7, <1>8 DEF Next, DaemonNext

\* What ScreenToldOnce says of a single step.
ScreenTold ==
  \A p \in ProducerConn : peer'[p] = "open" =>
    ScreensSent(p) = IF Knows(p)' /\ ~Knows(p) THEN {stored_screen'} ELSE {}

\* What a producer's queue may become without a screen being sent.
NoScreen(q, r) ==
  \/ r = q
  \/ q # <<>> /\ r = Tail(q)
  \/ \E s \in FdSet \cup {NULL} : r = Append(q, Msg("FDS_READY", s))

LEMMA NoScreenSent ==
  ASSUME NEW q \in Seq(DaemonMsg), NEW r, NoScreen(q, r), NEW s \in Screen
  PROVE  r # Append(q, Msg("SCREEN_INFO", s))
<1> DEFINE m == Msg("SCREEN_INFO", s)
<1>1. m \in DaemonMsg /\ \A t \in FdSet \cup {NULL} : Msg("FDS_READY", t) \in DaemonMsg /\ Msg("FDS_READY", t) # m
  BY DaemonMsgs DEF Msg
<1> HIDE DEF m
<1>2. Len(Append(q, m)) = Len(q) + 1 /\ Append(q, m)[Len(q) + 1] = m /\ Len(q) \in Nat
  BY <1>1
<1>3. CASE r = q
  BY <1>2, <1>3
<1>4. CASE q # <<>> /\ r = Tail(q)
  <2>1. Len(r) = Len(q) - 1
    BY <1>4
  <2>2. Len(r) # Len(Append(q, m))
    BY <1>2, <2>1
  <2>3. QED
    BY <2>2 DEF m
<1>5. CASE \E t \in FdSet \cup {NULL} : r = Append(q, Msg("FDS_READY", t))
  <2> PICK t \in FdSet \cup {NULL} : r = Append(q, Msg("FDS_READY", t))
    BY <1>5
  <2> DEFINE f == Msg("FDS_READY", t)
  <2>1. f \in DaemonMsg /\ f # m /\ r = Append(q, f)
    BY <1>1
  <2> HIDE DEF f
  <2>2. Append(q, f)[Len(q) + 1] = f
    BY <2>1
  <2>3. QED
    BY <1>2, <2>1, <2>2 DEF m
<1>6. QED
  BY <1>3, <1>4, <1>5 DEF NoScreen

\* No screen is sent, and nobody comes to know one.
LEMMA QuietScreen ==
  ASSUME BaseInv,
         \A p \in ProducerConn : peer'[p] = "open" => NoScreen(toClient[p], toClient'[p]),
         \A p \in ProducerConn : Knows(p)' => Knows(p)
  PROVE  ScreenTold
<1> SUFFICES ASSUME NEW p \in ProducerConn, peer'[p] = "open"
             PROVE  ScreensSent(p) = {}
  BY DEF ScreenTold
<1>1. toClient[p] \in Seq(DaemonMsg)
  BY NullFacts DEF BaseInv, TypeOK
<1>2. QED
  BY <1>1, NoScreenSent DEF ScreensSent

\* The screen is sent to the one producer that comes to know it.
LEMMA PostScreen ==
  ASSUME BaseInv, NEW p \in ProducerConn, NEW s \in Screen,
         toClient' = Post(toClient, p, Msg("SCREEN_INFO", s)), peer' = peer,
         stored_screen' = s, Knows(p)', ~Knows(p),
         \A x \in ProducerConn : x # p => ~Knows(x)'
  PROVE  ScreenTold
<1>1. toClient \in [Conn -> Seq(DaemonMsg)] /\ p \in Conn /\ p # NULL
  BY NullFacts DEF BaseInv, TypeOK
<1> SUFFICES ASSUME NEW x \in ProducerConn, peer'[x] = "open"
             PROVE  ScreensSent(x) = IF Knows(x)' /\ ~Knows(x) THEN {stored_screen'} ELSE {}
  BY DEF ScreenTold
<1>2. CASE x # p
  <2>1. toClient'[x] = toClient[x] /\ toClient[x] \in Seq(DaemonMsg)
    BY <1>1, <1>2, NullFacts DEF Post
  <2>2. \A t \in Screen : toClient'[x] # Append(toClient[x], Msg("SCREEN_INFO", t))
    BY <2>1, NoScreenSent DEF NoScreen
  <2>3. QED
    BY <1>2, <2>2 DEF ScreensSent
<1>3. CASE x = p
  <2>1. toClient'[x] = Append(toClient[x], Msg("SCREEN_INFO", s)) /\ toClient[x] \in Seq(DaemonMsg)
    BY <1>1, <1>3 DEF Post
  <2>2. ASSUME NEW t \in Screen, toClient'[x] = Append(toClient[x], Msg("SCREEN_INFO", t))
        PROVE  t = s
    <3> DEFINE q == toClient[x]
               m == Msg("SCREEN_INFO", s)
               n == Msg("SCREEN_INFO", t)
    <3>1. m \in DaemonMsg /\ n \in DaemonMsg /\ m.arg = s /\ n.arg = t
      BY DaemonMsgs DEF Msg
    <3>2. q \in Seq(DaemonMsg) /\ Append(q, m) = Append(q, n)
      BY <2>1, <2>2
    <3> HIDE DEF q, m, n
    <3>3. Append(q, m)[Len(q) + 1] = m /\ Append(q, n)[Len(q) + 1] = n
      BY <3>1, <3>2
    <3>4. QED
      BY <3>1, <3>2, <3>3
  <2>3. ScreensSent(x) = {s}
    BY <2>1, <2>2 DEF ScreensSent
  <2>4. QED
    BY <1>3, <2>3
<1>4. QED
  BY <1>2, <1>3

\* A hand-over is no screen.
LEMMA TryDeliverNoScreen ==
  ASSUME BaseInv, NEW s \in FdSet \cup {NULL}, NEW k \in ConsumerConn \cup {NULL},
         NEW p \in ProducerConn \cup {NULL}, TryDeliver(s, k, p)
  PROVE  \A x \in ProducerConn : NoScreen(toClient[x], toClient'[x])
<1> SUFFICES ASSUME NEW x \in ProducerConn PROVE NoScreen(toClient[x], toClient'[x])
  OBVIOUS
<1>1. CASE CanDeliver(s, p)
  <2> DEFINE q == Post(toClient, p, Msg("FDS_READY", s))
  <2>1. /\ toClient \in [Conn -> Seq(DaemonMsg)] /\ x \in Conn /\ x # k
        /\ p \in Conn
    BY <1>1, NullFacts DEF BaseInv, TypeOK, CanDeliver
  <2>2. q[x] = toClient[x] \/ q[x] = Append(toClient[x], Msg("FDS_READY", s))
    BY <2>1 DEF Post
  <2>3. q \in [Conn -> Seq(DaemonMsg)]
    BY <2>1, PostType, DaemonMsgs
  <2> HIDE DEF q
  <2>4. Post(q, k, Msg("FDS_READY", NULL))[x] = q[x]
    BY <2>1, <2>3 DEF Post
  <2>5. toClient' = Post(q, k, Msg("FDS_READY", NULL))
    BY <1>1 DEF TryDeliver, q
  <2>6. QED
    BY <2>2, <2>4, <2>5 DEF NoScreen
<1>2. CASE ~CanDeliver(s, p)
  BY <1>2 DEF TryDeliver, NoScreen
<1>3. QED
  BY <1>1, <1>2

LEMMA StoreFdsNoScreen ==
  ASSUME BaseInv, HandInv, NEW s \in FdSet, NEW k \in ConsumerConn, StoreFds(s, k)
  PROVE  \A x \in ProducerConn : NoScreen(toClient[x], toClient'[x])
<1>1. CASE producer_waiting_fds
  <2>1. ConnOf(producer) \in ProducerConn
    BY <1>1, WaiterConnected
  <2>2. QED
    BY <1>1, <2>1, TryDeliverNoScreen DEF StoreFds
<1>2. CASE ~producer_waiting_fds
  BY <1>2 DEF StoreFds, NoScreen
<1>3. QED
  BY <1>1, <1>2

\* A client that is dropped takes its knowledge along.
LEMMA DropNoScreen ==
  ASSUME BaseInv, NEW a \in Roles, NEW y, DropClient(a, y), UNCHANGED <<stored_screen, toClient>>
  PROVE  ScreenTold
<1>1. a \in Addr /\ (consumer # NULL => consumer # producer) /\ ctrl_fd \in [Addr -> Conn \cup {NULL}]
  BY NullFacts DEF BaseInv, RolesOwnStructs, Roles, TypeOK
<1>2. \A p \in ProducerConn : Knows(p)' => Knows(p)
  BY <1>1, NullFacts DEF DropClient, Knows, Roles
<1>3. QED
  BY <1>2, QuietScreen DEF NoScreen

LEMMA ClientDataScreens ==
  ASSUME BaseInv, HandInv, NEW e \in batch, HandleClientData(e)
  PROVE  ScreenTold
<1> DEFINE c == ctrl_fd[e.ptr]
           m == Head(toDaemon[c])
<1>1. e.ptr \in Roles /\ c \in Conn /\ toDaemon[c] # <<>> /\ peer' = peer
  BY ClientOfEvent DEF HandleClientData, clients
<1>2. /\ m \in ClientMsg
      /\ m.type = "CONSUMER_HELLO" => m.arg \in FdSet /\ m.arg.owner = c
      /\ m.type = "SCREEN_INFO" => m.arg \in Screen
  BY <1>1, HeadFacts
<1>3. /\ e.ptr = consumer => c \in ConsumerConn
      /\ e.ptr = producer => c \in ProducerConn
      /\ ConnOf(consumer) \in ConsumerConn \cup {NULL}
      /\ deposited_fds \in FdSet \cup {NULL}
  BY <1>1, NullFacts DEF BaseInv, RolesOwnStructs, Roles, ConnOf, TypeOK
<1> HIDE DEF m
<1>4. ASSUME UNCHANGED <<producer, ctrl_fd, stored_screen>>,
             \A p \in ProducerConn : NoScreen(toClient[p], toClient'[p])
      PROVE  ScreenTold
  BY <1>4, QuietScreen DEF Knows
<1>5. CASE ReadConsumerHello(e.ptr, m)
  <2>1. CASE e.ptr = consumer /\ m.arg.n = MAX_FDS
    <3>1. StoreFds(m.arg, c) /\ m.arg \in FdSet /\ c \in ConsumerConn
      BY <1>2, <1>3, <1>5, <2>1 DEF ReadConsumerHello
    <3>2. QED
      BY <1>4, <1>5, <3>1, StoreFdsNoScreen DEF ReadConsumerHello
  <2>2. CASE ~(e.ptr = consumer /\ m.arg.n = MAX_FDS)
    BY <1>4, <1>5, <2>2 DEF ReadConsumerHello, NoScreen
  <2>3. QED
    BY <2>1, <2>2
<1>6. CASE ReadPickup(e.ptr, m)
  <2>1. CASE e.ptr = producer
    <3>1. TryDeliver(deposited_fds, ConnOf(consumer), c) /\ c \in ProducerConn
      BY <1>3, <1>6, <2>1 DEF ReadPickup
    <3>2. QED
      BY <1>3, <1>4, <1>6, <3>1, TryDeliverNoScreen DEF ReadPickup
  <2>2. CASE e.ptr # producer
    BY <1>4, <1>6, <2>2 DEF ReadPickup, NoScreen
  <2>3. QED
    BY <2>1, <2>2
<1>7. CASE ReadScreenInfo(e.ptr, m)
  <2>1. m.type = "SCREEN_INFO" /\ m.arg \in Screen /\ m = Msg("SCREEN_INFO", m.arg)
    BY <1>2, <1>7 DEF ReadScreenInfo, ClientMsg, Msg
  <2>2. CASE e.ptr = consumer /\ producer_waiting_screen
    <3>1. producer # NULL /\ stored_screen = NULL
      BY <2>2 DEF HandInv, ScreenRendezvous
    <3>2. ctrl_fd[producer] \in ProducerConn
      BY <3>1 DEF BaseInv, RolesOwnStructs
    <3>3. /\ toClient' = Post(toClient, ctrl_fd[producer], Msg("SCREEN_INFO", m.arg))
          /\ stored_screen' = m.arg /\ UNCHANGED <<producer, ctrl_fd>>
      BY <1>7, <2>1, <2>2, <3>1 DEF ReadScreenInfo
    <3>4. m.arg # NULL
      BY <2>1, NullFacts
    <3>5. Knows(ctrl_fd[producer])' /\ ~Knows(ctrl_fd[producer])
      BY <3>1, <3>3, <3>4 DEF Knows
    <3>6. \A x \in ProducerConn : x # ctrl_fd[producer] => ~Knows(x)'
      BY <3>3 DEF Knows
    <3>7. PICK p \in ProducerConn : p = ctrl_fd[producer]
      BY <3>2
    <3>8. Knows(p)' /\ ~Knows(p) /\ \A x \in ProducerConn : x # p => ~Knows(x)'
      BY <3>3, <3>5, <3>6, <3>7 DEF Knows
    <3>9. QED
      BY <1>1, <2>1, <3>3, <3>7, <3>8, PostScreen
  <2>3. CASE ~(e.ptr = consumer /\ producer_waiting_screen)
    <3>1. toClient' = toClient /\ UNCHANGED <<producer, ctrl_fd>>
      BY <1>7, <2>3 DEF ReadScreenInfo
    <3>2. stored_screen' = stored_screen \/ producer = NULL \/ stored_screen # NULL
      BY <1>7, <2>3 DEF ReadScreenInfo, HandInv, ScreenRendezvous
    <3>3. \A p \in ProducerConn : Knows(p)' => Knows(p)
      BY <3>1, <3>2 DEF Knows
    <3>4. QED
      BY <3>1, <3>3, QuietScreen DEF NoScreen
  <2>4. QED
    BY <2>2, <2>3
<1>8. CASE ReadMisplaced(e.ptr, m)
  BY <1>4, <1>8 DEF ReadMisplaced, NoScreen
<1>9. CASE ReadForeign(e.ptr, m)
  BY <1>1, <1>9, DropNoScreen DEF ReadForeign
<1>10. QED
  BY <1>5, <1>6, <1>7, <1>8, <1>9 DEF HandleClientData, m

LEMMA NewConnectionScreens ==
  ASSUME BaseInv, HandInv, FreshConns, HandleNewConnection
  PROVE  ScreenTold
<1> DEFINE c == Head(backlog)
           m == Head(toDaemon[c])
<1>1. c \in Conn /\ peer' = peer
  BY AcceptKnown DEF HandleNewConnection, clients
<1>2. \A a \in Addr : ctrl_fd[a] # c
  <2>1. c = backlog[1] /\ 1 \in 1..Len(backlog)
    BY DEF HandleNewConnection, BaseInv, TypeOK
  <2>2. QED
    BY <2>1 DEF FreshConns
<1> HIDE DEF m
<1>3. CASE toDaemon[c] # <<>> /\ AcceptConsumer(c, m)
  <2>1. m.type = "CONSUMER_HELLO" /\ m.arg \in FdSet /\ m.arg.owner = c /\ c \in ConsumerConn
    BY <1>1, <1>3, HeadFacts DEF AcceptConsumer, m, FdSet
  <2>2. PICK a \in FreshAddr(consumer) : Install(a, c, consumer) /\ consumer' = a
    BY <1>3 DEF AcceptConsumer
  <2>3. /\ a # NULL /\ a \notin Roles
        /\ \A x \in Addr : x # a /\ x # consumer => ctrl_fd'[x] = ctrl_fd[x]
    BY <1>1, <1>3, <2>2, InstallBase
  <2>4. producer # NULL => ctrl_fd'[producer] = ctrl_fd[producer]
    BY <2>3, NullFacts DEF Roles, BaseInv, TypeOK, RolesOwnStructs
  <2>5. UNCHANGED <<producer, stored_screen>> /\ StoreFds(m.arg, c)
    BY <1>3 DEF AcceptConsumer
  <2>6. \A p \in ProducerConn : Knows(p)' => Knows(p)
    BY <2>4, <2>5 DEF Knows
  <2>7. QED
    BY <2>1, <2>5, <2>6, StoreFdsNoScreen, QuietScreen
<1>4. CASE toDaemon[c] # <<>> /\ AcceptProducer(c, m)
  <2>1. c \in ProducerConn /\ c # NULL
    BY <1>1, <1>4, HeadFacts, NullFacts DEF AcceptProducer, m
  <2>2. PICK a \in FreshAddr(producer) : Install(a, c, producer) /\ producer' = a
    BY <1>4 DEF AcceptProducer
  <2>3. a # NULL /\ ctrl_fd'[a] = c
    BY <1>1, <1>4, <2>2, InstallBase
  <2>4. ~Knows(c)
    BY <1>2 DEF Knows, BaseInv, TypeOK
  <2>5. stored_screen' = stored_screen /\ \A x \in ProducerConn : x # c => ~Knows(x)'
    BY <1>4, <2>2, <2>3 DEF AcceptProducer, Knows
  <2>6. CASE stored_screen # NULL
    <3>1. stored_screen \in Screen /\ toClient' = Post(toClient, c, Msg("SCREEN_INFO", stored_screen))
      BY <1>4, <2>6 DEF AcceptProducer, BaseInv, TypeOK
    <3>2. PICK s \in Screen : s = stored_screen
      BY <3>1
    <3>3. PICK p \in ProducerConn : p = c
      BY <2>1
    <3>4. Knows(p)' /\ ~Knows(p) /\ \A x \in ProducerConn : x # p => ~Knows(x)'
      BY <2>2, <2>3, <2>4, <2>5, <2>6, <3>3 DEF Knows
    <3>5. QED
      BY <1>1, <2>5, <3>1, <3>2, <3>3, <3>4, PostScreen
  <2>7. CASE stored_screen = NULL
    <3>1. toClient' = toClient /\ \A p \in ProducerConn : ~Knows(p)'
      BY <1>4, <2>5, <2>7 DEF AcceptProducer, Knows
    <3>2. QED
      BY <3>1, QuietScreen DEF NoScreen
  <2>8. QED
    BY <2>6, <2>7
<1>5. CASE \E y : Refuse(c, y)
  BY <1>5, QuietScreen DEF Refuse, NoScreen, Knows
<1>6. QED
  BY <1>1, <1>3, <1>4, <1>5, NewConnection DEF m

LEMMA ScreenStep == BaseInv /\ HandInv /\ FreshConns /\ [Next]_vars => ScreenTold
<1> SUFFICES ASSUME BaseInv, HandInv, FreshConns, [Next]_vars PROVE ScreenTold
  OBVIOUS
<1>1. CASE \E e \in batch : HandleClientData(e)
  BY <1>1, ClientDataScreens
<1>2. CASE HandleNewConnection
  BY <1>2, NewConnectionScreens
<1>3. CASE \E e \in batch : HandleHangup(e)
  BY <1>3, DropNoScreen DEF HandleHangup, Roles
<1>4. CASE EpollWait \/ (\E e \in batch : SkipStaleEvent(e)) \/ Stop \/ Restart \/ UNCHANGED vars
  BY <1>4, QuietScreen DEF EpollWait, SkipStaleEvent, Stop, Restart, vars, ctx, NoScreen, Knows
<1>5. CASE Destroy \/ Kill
  BY <1>5, QuietScreen DEF Destroy, Kill, Teardown, NoScreen, Knows
<1>6. CASE ClientNext
  <2>1. UNCHANGED <<producer, ctrl_fd, stored_screen>>
    BY <1>6
    DEF ClientNext, ClientConnect, SendHello, SendConsumerHello, SendProducerHello, SendScreenInfo,
        SendPickup, SendForeign, ClientSend, ClientRead, ClientClose, daemonState, ctx
  <2>2. PICK c \in Conn : ClientRead(c) \/ ClientClose(c) \/ UNCHANGED toClient
    BY <1>6 DEF ClientNext, ClientConnect, SendHello, SendConsumerHello, SendProducerHello,
                SendScreenInfo, SendPickup, SendForeign, ClientSend
  <2>3. /\ toClient \in [Conn -> Seq(DaemonMsg)]
        /\ peer \in [Conn -> {"none", "open", "closed"}]
        /\ ProducerConn \subseteq Conn
    BY NullFacts DEF BaseInv, TypeOK
  <2>4. CASE ClientRead(c)
    <3>1. toClient[c] # <<>> /\ toClient' = [toClient EXCEPT ![c] = Tail(@)]
      BY <2>4 DEF ClientRead
    <3>2. \A p \in ProducerConn : NoScreen(toClient[p], toClient'[p])
      BY <2>3, <3>1 DEF NoScreen
    <3>3. QED
      BY <2>1, <3>2, QuietScreen DEF Knows
  <2>5. CASE ClientClose(c)
    <3>1. /\ peer' = [peer EXCEPT ![c] = "closed"]
          /\ toClient' = [toClient EXCEPT ![c] = <<>>]
      BY <2>5 DEF ClientClose
    <3>2. \A p \in ProducerConn : peer'[p] = "open" => NoScreen(toClient[p], toClient'[p])
      BY <2>3, <3>1 DEF NoScreen
    <3>3. QED
      BY <2>1, <3>2, QuietScreen DEF Knows
  <2>6. CASE UNCHANGED toClient
    BY <2>1, <2>6, QuietScreen DEF NoScreen, Knows
  <2>7. QED
    BY <2>2, <2>4, <2>5, <2>6
<1>7. QED
  BY <1>1, <1>2, <1>3, <1>4, <1>5, <1>6 DEF Next, DaemonNext

\* Producer and screen find each other in either order: the producer is sent
\* the screen in the step after which both are there, once.
THEOREM ScreensTold == Spec => ScreenToldOnce
<1>1. Init => FreshConns
  <2>1. Len(<<>>) = 0
    OBVIOUS
  <2>2. QED
    BY <2>1 DEF Init, FreshConns
<1>2. Spec => []FreshConns
  BY <1>1, FreshStep, HandCorrect, PTL DEF Spec
<1>3. BaseInv /\ HandInv /\ FreshConns /\ [Next]_vars => [ScreenTold]_vars
  BY ScreenStep
<1>4. Spec => [][ScreenTold]_vars
  BY <1>2, <1>3, HandCorrect, PTL DEF Spec
<1>5. QED
  BY <1>4 DEF ScreenToldOnce, ScreenTold

-----------------------------------------------------------------------------
(* Sessions.  A session is a behaviour of the daemon, but for one step: a   *)
(* consumer that reads FDS_READY and cannot push its buffers answers it at   *)
(* once with its next HELLO.  So the daemon's invariants hold in every       *)
(* session; to them come what the libraries' own variables say about the     *)
(* sets: a set travels to one producer, under a number its consumer never    *)
(* uses again.                                                             *)

DaemonInv == BaseInv /\ HandInv /\ GenInv /\ EveryOfferOnce

\* ConsumerExitFails, as the daemon sees it.
ReadAndHello(c) ==
  /\ hellos[c] < MaxHello /\ toClient[c] # <<>>
  /\ toClient' = [toClient EXCEPT ![c] = Tail(@)]
  /\ Sends(c, Msg("CONSUMER_HELLO", NextSet(c)))
  /\ hellos' = [hellos EXCEPT ![c] = @ + 1]

DaemonStep == [Next]_vars \/ \E c \in ConsumerConn : ReadAndHello(c)

-----------------------------------------------------------------------------
(* What the libraries hold.                                                *)

LibTypes ==
  /\ c_phase \in [ConsumerConn -> {"none", "connecting", "fallback", "active"}]
  /\ c_set \in [ConsumerConn -> FdSet \cup {NULL}]
  /\ p_phase \in [ProducerConn -> {"none", "hello", "fallback", "pickup", "receive", "active"}]
  /\ p_set \in [ProducerConn -> FdSet \cup {NULL}]
  /\ pushed \subseteq FdSet
  /\ late \in Nat

\* Every FDS_READY in the mail of a producer carries a set handed to it.
MailOf(queues, pairs) ==
  \A p \in ProducerConn : \A i \in 1..Len(queues[p]) :
    queues[p][i].type = "FDS_READY" => <<p, queues[p][i].arg>> \in pairs

\* A consumer holds the ends of a set it has announced itself.
OwnSets ==
  \A c \in ConsumerConn : c_set[c] # NULL => c_set[c].owner = c /\ c_set[c].gen <= hellos[c]

\* Buffers wait in the channel of the set their consumer is active with.
PushedInv == \A s \in pushed : c_set[s.owner] = s /\ c_phase[s.owner] = "active"

\* A producer holds the ends of a set handed to it, whenever it may use them.
PickedUp ==
  \A p \in ProducerConn :
    /\ p_set[p] # NULL => <<p, p_set[p]>> \in handed
    /\ p_phase[p] \in {"receive", "active"} => p_set[p] # NULL

LibInv ==
  LibTypes /\ MailOf(toClient, handed) /\ OwnSets /\ PushedInv /\ PickedUp /\ ProducerActiveLast

Inv == DaemonInv /\ LibInv

-----------------------------------------------------------------------------
(* Every step is the daemon's, a client's, or the one that is two.          *)

\* Each action of the libraries does what some client of the daemon may do.
LEMMA SessionSteps == BaseInv /\ [SessionNext]_svars => DaemonStep
<1> SUFFICES ASSUME BaseInv, [SessionNext]_svars PROVE DaemonStep
  OBVIOUS
<1> USE DEF DaemonStep
<1>1. ASSUME NEW c \in Conn, ClientConnect(c) \/ ClientRead(c) \/ ClientClose(c)
      PROVE  DaemonStep
  BY <1>1 DEF Next, ClientNext
<1>2. ASSUME NEW c \in ConsumerConn, SendConsumerHello(c, MAX_FDS) \/ \E s \in Screen : SendScreenInfo(c, s)
      PROVE  DaemonStep
  BY <1>2, NullFacts, DaemonAssumption DEF Next, ClientNext, SendHello
<1>3. ASSUME NEW p \in ProducerConn, SendProducerHello(p, NULL) \/ SendPickup(p)
      PROVE  DaemonStep
  BY <1>3, NullFacts DEF Next, ClientNext, SendHello
<1>4. CASE DaemonNext
  BY <1>4 DEF Next
<1>5. ASSUME NEW c \in Conn, Connect(c) PROVE DaemonStep
  BY <1>1, <1>5 DEF Connect
<1>6. ASSUME NEW c \in ConsumerConn, ConsumerStep(c) \/ ConsumerTimeout(c) \/ ConsumerDies(c)
      PROVE  DaemonStep
  <2>1. CASE Rebuild(c)
    BY <1>2, <2>1 DEF Rebuild
  <2>2. CASE ConsumerStart(c) \/ \E s \in Screen : ConsumerScreen(c, s)
    BY <1>2, <2>2 DEF ConsumerStart, ConsumerScreen
  <2>3. CASE ConsumerExit(c) \/ ConsumerDies(c)
    BY <1>1, <2>3, NullFacts DEF ConsumerExit, ConsumerDies
  <2>4. CASE ConsumerExitFails(c)
    <3>1. CASE Served(c)
      BY <2>4, <3>1 DEF ConsumerExitFails, ReadAndHello, Sends
    <3>2. CASE ~Served(c)
      BY <1>1, <2>4, <3>2, NullFacts DEF ConsumerExitFails
    <3>3. QED
      BY <3>1, <3>2
  <2>5. QED
    BY <1>6, <2>1, <2>2, <2>3, <2>4 DEF ConsumerStep, ConsumerLoses, ConsumerTimeout
<1>7. ASSUME NEW p \in ProducerConn,
             ProducerStep(p) \/ ProducerPickupTimeout(p) \/ ProducerReceiveTimeout(p) \/ ProducerDies(p)
      PROVE  DaemonStep
  <2>1. CASE ProducerStart(p) \/ ProducerPickup(p)
    BY <1>3, <2>1 DEF ProducerStart, ProducerPickup
  <2>2. CASE ProducerScreen(p) \/ ProducerPickedUp(p) \/ ProducerDies(p)
    BY <1>1, <2>2, NullFacts DEF ProducerScreen, ProducerPickedUp, ProducerDies
  <2>3. CASE ProducerReceive(p) \/ ProducerLoses(p) \/ ProducerPickupTimeout(p) \/ ProducerReceiveTimeout(p)
    BY <2>3 DEF ProducerReceive, ProducerLoses, ProducerPickupTimeout, ProducerReceiveTimeout
  <2>4. QED
    BY <1>7, <2>1, <2>2, <2>3 DEF ProducerStep
<1>8. CASE UNCHANGED svars
  BY <1>8 DEF svars
<1>9. QED
  BY <1>4, <1>5, <1>6, <1>7, <1>8 DEF SessionNext

\* The set a consumer announces next.
LEMMA NextSetFacts ==
  ASSUME BaseInv, NEW c \in ConsumerConn, hellos[c] < MaxHello
  PROVE  /\ NextSet(c) \in FdSet /\ NextSet(c).owner = c /\ NextSet(c).gen = hellos[c] + 1
         /\ hellos[c] \in Nat
<1>1. hellos[c] \in 0..MaxHello
  BY NullFacts DEF BaseInv, TypeOK
<1>2. hellos[c] + 1 \in 1..MaxHello
  BY <1>1, NullFacts
<1>3. QED
  BY <1>1, <1>2, DaemonAssumption DEF NextSet, FdSet

\* The step that is two keeps what the daemon's own steps keep.
LEMMA ReadAndHelloStays ==
  ASSUME DaemonInv, NEW c \in ConsumerConn, ReadAndHello(c)
  PROVE  DaemonInv'
<1> DEFINE m == Msg("CONSUMER_HELLO", NextSet(c))
<1>1. c \in Conn /\ BaseInv /\ HandInv /\ GenInv
  BY NullFacts DEF DaemonInv
<1>2. m \in ClientMsg /\ m.type = "CONSUMER_HELLO" /\ m.arg.owner = c /\ m.arg.gen = hellos[c] + 1
  BY <1>1, NextSetFacts DEF ReadAndHello, Msg, ClientMsg
<1>3. toClient' \in [Conn -> Seq(DaemonMsg)]
  <2>1. toClient \in [Conn -> Seq(DaemonMsg)] /\ toClient[c] # <<>>
    BY <1>1 DEF ReadAndHello, BaseInv, TypeOK
  <2>2. Tail(toClient[c]) \in Seq(DaemonMsg)
    BY <1>1, <2>1, TailFacts
  <2>3. QED
    BY <2>1, <2>2 DEF ReadAndHello
<1>4. hellos' \in [Conn -> 0..MaxHello] /\ hellos' = [hellos EXCEPT ![c] = @ + 1]
  <2>1. hellos \in [Conn -> 0..MaxHello] /\ hellos[c] < MaxHello
    BY <1>1 DEF ReadAndHello, BaseInv, TypeOK
  <2>2. hellos[c] + 1 \in 0..MaxHello
    BY <1>1, <2>1, NullFacts
  <2>3. QED
    BY <2>1, <2>2 DEF ReadAndHello
<1>5. Sends(c, m) /\ UNCHANGED <<ctx, ctrl_fd, open_fds, batch, handed, backlog, peer>>
  BY DEF ReadAndHello, Sends, daemonState
<1> HIDE DEF m
<1>6. BaseInv'
  BY <1>1, <1>2, <1>3, <1>4, <1>5, SendBase
<1>7. GenInv'
  BY <1>1, <1>2, <1>4, <1>5, SendGen
<1>8. HandInv'
  <2>1. producer # NULL => ctrl_fd[producer] \in Conn
    BY <1>1, NullFacts DEF BaseInv, RolesOwnStructs
  <2>2. KnownConns'
    BY <1>1, <1>5 DEF HandInv, KnownConns
  <2>3. QED
    BY <1>1, <1>5, <2>1, <2>2, SameHand DEF ctx
<1>9. EveryOfferOnce'
  <2>1. UNCHANGED R!vars
    BY <1>5 DEF R!vars, AbstractOffer, AbstractAsker, Complete, ctx
  <2>2. QED
    BY <1>1, <1>6, <2>1, OfferOnceStep DEF DaemonInv
<1>10. QED
  BY <1>6, <1>7, <1>8, <1>9 DEF DaemonInv

LEMMA DaemonStays == DaemonInv /\ DaemonStep => DaemonInv'
<1> SUFFICES ASSUME DaemonInv, DaemonStep PROVE DaemonInv'
  OBVIOUS
<1>1. CASE [Next]_vars
  <2>1. BaseInv' /\ HandInv' /\ GenInv'
    BY <1>1, BaseStep, HandStep, GenStep DEF DaemonInv
  <2>2. [R!Next]_R!vars
    BY <1>1, RendezvousStep DEF DaemonInv, RStep
  <2>3. QED
    BY <2>1, <2>2, OfferOnceStep DEF DaemonInv
<1>2. CASE \E c \in ConsumerConn : ReadAndHello(c)
  BY <1>2, ReadAndHelloStays
<1>3. QED
  BY <1>1, <1>2 DEF DaemonStep

-----------------------------------------------------------------------------
(* Mail.                                                                   *)

\* Posting a message, that of a set only to the producer it is handed to.
LEMMA PostMail ==
  ASSUME NEW q \in [Conn -> Seq(DaemonMsg)], NEW pairs, MailOf(q, pairs),
         NEW c \in Conn \cup {NULL}, NEW m,
         c \in ProducerConn /\ m.type = "FDS_READY" => <<c, m.arg>> \in pairs
  PROVE  MailOf(Post(q, c, m), pairs)
<1> DEFINE r == Post(q, c, m)
<1> SUFFICES ASSUME NEW p \in ProducerConn, NEW i \in 1..Len(r[p]), r[p][i].type = "FDS_READY"
             PROVE  <<p, r[p][i].arg>> \in pairs
  BY DEF MailOf
<1>1. CASE r[p] = q[p]
  BY <1>1 DEF MailOf
<1>2. CASE p = c /\ r[p] = Append(q[p], m)
  <2>1. q[p] \in Seq(DaemonMsg)
    BY NullFacts
  <2>2. (i \in 1..Len(q[p]) /\ r[p][i] = q[p][i]) \/ r[p][i] = m
    BY <1>2, <2>1
  <2> HIDE DEF r
  <2>3. QED
    BY <1>2, <2>2 DEF MailOf
<1>3. QED
  BY <1>1, <1>2, NullFacts DEF Post

\* Queues that only lose their oldest message, or all of them.
LEMMA MailShrinks ==
  ASSUME BaseInv, MailOf(toClient, handed), NEW c \in Conn, handed' = handed,
         \/ toClient[c] # <<>> /\ toClient' = [toClient EXCEPT ![c] = Tail(@)]
         \/ toClient' = [toClient EXCEPT ![c] = <<>>]
  PROVE  MailOf(toClient, handed)'
<1> SUFFICES ASSUME NEW p \in ProducerConn, NEW i \in 1..Len(toClient'[p]),
                    toClient'[p][i].type = "FDS_READY"
             PROVE  <<p, toClient'[p][i].arg>> \in handed
  BY DEF MailOf
<1>1. toClient \in [Conn -> Seq(DaemonMsg)] /\ p \in Conn
  BY NullFacts DEF BaseInv, TypeOK
<1>2. \E j \in 1..Len(toClient[p]) : toClient'[p][i] = toClient[p][j]
  <2>1. CASE p # c
    BY <1>1, <2>1
  <2>2. CASE p = c /\ toClient'[p] = <<>>
    BY <2>2
  <2>3. CASE p = c /\ toClient[p] # <<>> /\ toClient'[p] = Tail(toClient[p])
    <3>1. toClient[p] \in Seq(DaemonMsg) /\ i \in 1..Len(Tail(toClient[p]))
      BY <1>1, <2>3
    <3>2. i + 1 \in 1..Len(toClient[p]) /\ Tail(toClient[p])[i] = toClient[p][i + 1]
      BY <2>3, <3>1, TailFacts
    <3>3. QED
      BY <2>3, <3>2
  <2>4. QED
    BY <1>1, <2>1, <2>2, <2>3
<1>3. QED
  BY <1>2 DEF MailOf

\* What is handed over adds to the pairs.
LEMMA MoreMail ==
  ASSUME NEW q, NEW pairs, NEW more, MailOf(q, pairs), pairs \subseteq more
  PROVE  MailOf(q, more)
BY DEF MailOf

LEMMA TryDeliverMail ==
  ASSUME BaseInv, MailOf(toClient, handed), NEW s, NEW k \in ConsumerConn \cup {NULL},
         NEW p \in ProducerConn \cup {NULL}, s \in FdSet \cup {NULL}, TryDeliver(s, k, p)
  PROVE  MailOf(toClient, handed)' /\ handed \subseteq handed'
<1>1. CASE CanDeliver(s, p)
  <2> DEFINE m == Msg("FDS_READY", s)
             q == Post(toClient, p, m)
  <2>1. /\ handed' = handed \cup {<<p, s>>}
        /\ toClient' = Post(q, k, Msg("FDS_READY", NULL))
    BY <1>1 DEF TryDeliver
  <2>2. toClient \in [Conn -> Seq(DaemonMsg)] /\ m \in DaemonMsg /\ p \in Conn \cup {NULL}
        /\ k \in Conn \cup {NULL} /\ k \notin ProducerConn
    BY DaemonMsgs, NullFacts DEF BaseInv, TypeOK
  <2>3. MailOf(toClient, handed')
    BY <2>1, MoreMail
  <2>4. m.arg = s
    BY DEF Msg
  <2> HIDE DEF m
  <2>5. q \in [Conn -> Seq(DaemonMsg)]
    BY <2>2, PostType
  <2>6. MailOf(q, handed')
    BY <2>1, <2>2, <2>3, <2>4, PostMail
  <2> HIDE DEF q
  <2>7. MailOf(Post(q, k, Msg("FDS_READY", NULL)), handed')
    BY <2>2, <2>5, <2>6, PostMail
  <2>8. QED
    BY <2>1, <2>7
<1>2. CASE ~CanDeliver(s, p)
  BY <1>2 DEF TryDeliver
<1>3. QED
  BY <1>1, <1>2

LEMMA StoreFdsMail ==
  ASSUME BaseInv, MailOf(toClient, handed), NEW s \in FdSet, NEW k \in ConsumerConn, StoreFds(s, k)
  PROVE  MailOf(toClient, handed)' /\ handed \subseteq handed'
<1>1. CASE producer_waiting_fds
  <2>1. ConnOf(producer) \in ProducerConn \cup {NULL}
    BY DEF BaseInv, RolesOwnStructs, ConnOf
  <2>2. QED
    BY <1>1, <2>1, TryDeliverMail DEF StoreFds
<1>2. CASE ~producer_waiting_fds
  BY <1>2 DEF StoreFds
<1>3. QED
  BY <1>1, <1>2

\* A screen is not taken for a set.
LEMMA ScreenMail ==
  ASSUME BaseInv, MailOf(toClient, handed), NEW c \in Conn, NEW m, m.type = "SCREEN_INFO",
         toClient' = toClient \/ toClient' = Post(toClient, c, m), handed' = handed
  PROVE  MailOf(toClient, handed)' /\ handed \subseteq handed'
<1>1. toClient \in [Conn -> Seq(DaemonMsg)]
  BY DEF BaseInv, TypeOK
<1>2. MailOf(Post(toClient, c, m), handed)
  BY <1>1, PostMail
<1>3. QED
  BY <1>2

LEMMA MailStays ==
  ASSUME BaseInv, MailOf(toClient, handed), DaemonStep
  PROVE  MailOf(toClient, handed)' /\ handed \subseteq handed'
<1>1. CASE UNCHANGED <<toClient, handed>>
  BY <1>1
<1>2. ASSUME NEW e \in batch, HandleClientData(e)
      PROVE  MailOf(toClient, handed)' /\ handed \subseteq handed'
  <2> DEFINE c == ctrl_fd[e.ptr]
             m == Head(toDaemon[c])
  <2>1. e.ptr \in Roles /\ c \in Conn /\ toDaemon[c] # <<>>
    BY <1>2, ClientOfEvent
  <2>2. m.type = "CONSUMER_HELLO" => m.arg \in FdSet
    BY <2>1, HeadFacts
  <2>3. /\ e.ptr = consumer => c \in ConsumerConn
        /\ e.ptr = producer => c \in ProducerConn
        /\ ConnOf(consumer) \in ConsumerConn \cup {NULL}
        /\ producer # NULL => ctrl_fd[producer] \in Conn
        /\ deposited_fds \in FdSet \cup {NULL}
    BY <2>1, NullFacts DEF BaseInv, RolesOwnStructs, Roles, ConnOf, TypeOK
  <2> HIDE DEF m
  <2>4. CASE ReadConsumerHello(e.ptr, m)
    BY <2>2, <2>3, <2>4, StoreFdsMail DEF ReadConsumerHello
  <2>5. CASE ReadScreenInfo(e.ptr, m)
    <3>1. CASE UNCHANGED toClient
      BY <1>1, <2>5, <3>1 DEF ReadScreenInfo
    <3>2. CASE producer # NULL /\ toClient' = Post(toClient, ctrl_fd[producer], m)
      BY <2>3, <2>5, <3>2, ScreenMail DEF ReadScreenInfo
    <3>3. QED
      BY <2>5, <3>1, <3>2 DEF ReadScreenInfo
  <2>6. CASE ReadPickup(e.ptr, m)
    BY <2>3, <2>6, TryDeliverMail DEF ReadPickup
  <2>7. CASE ReadMisplaced(e.ptr, m) \/ ReadForeign(e.ptr, m)
    BY <1>1, <2>7 DEF ReadMisplaced, ReadForeign
  <2>8. QED
    BY <1>2, <2>4, <2>5, <2>6, <2>7 DEF HandleClientData, m
<1>3. CASE HandleNewConnection
  <2> DEFINE c == Head(backlog)
             m == Head(toDaemon[c])
  <2>1. c \in Conn
    BY <1>3 DEF HandleNewConnection, BaseInv, TypeOK
  <2>2. toDaemon[c] # <<>> /\ m.type = "CONSUMER_HELLO" => m.arg \in FdSet /\ c \in ConsumerConn
    <3>1. \A s \in FdSet : s.owner \in ConsumerConn
      BY DEF FdSet
    <3>2. QED
      BY <2>1, <3>1, HeadFacts
  <2> HIDE DEF c, m
  <2>3. CASE toDaemon[c] # <<>> /\ AcceptConsumer(c, m)
    BY <2>2, <2>3, StoreFdsMail DEF AcceptConsumer
  <2>4. CASE AcceptProducer(c, m)
    <3>1. Msg("SCREEN_INFO", stored_screen).type = "SCREEN_INFO"
      BY DEF Msg
    <3>2. QED
      BY <2>1, <2>4, <3>1, ScreenMail DEF AcceptProducer
  <2>5. CASE \E y : Refuse(c, y)
    BY <1>1, <2>5 DEF Refuse
  <2>6. QED
    BY <1>3, <2>3, <2>4, <2>5 DEF HandleNewConnection, c, m
<1>4. ASSUME NEW c \in Conn, ClientRead(c) \/ ClientClose(c)
      PROVE  MailOf(toClient, handed)' /\ handed \subseteq handed'
  BY <1>4, MailShrinks DEF ClientRead, ClientClose, daemonState
<1>5. ASSUME NEW c \in ConsumerConn, ReadAndHello(c)
      PROVE  MailOf(toClient, handed)' /\ handed \subseteq handed'
  BY <1>5, MailShrinks, NullFacts DEF ReadAndHello, Sends, daemonState
<1>6. ASSUME NEW c \in Conn,
             ClientConnect(c) \/ SendHello(c) \/ (\E s \in Screen : SendScreenInfo(c, s))
               \/ SendPickup(c) \/ SendForeign(c)
      PROVE  UNCHANGED <<toClient, handed>>
  BY <1>6 DEF ClientConnect, SendHello, SendConsumerHello, SendProducerHello, SendScreenInfo,
              SendPickup, SendForeign, ClientSend, daemonState
<1>7. CASE EpollWait \/ (\E e \in batch : SkipStaleEvent(e) \/ HandleHangup(e))
           \/ Stop \/ Destroy \/ Kill \/ Restart \/ UNCHANGED vars
  BY <1>1, <1>7 DEF EpollWait, SkipStaleEvent, HandleHangup, Stop, Destroy, Kill, Teardown, Restart, vars
<1>8. CASE ClientNext
  BY <1>1, <1>4, <1>6, <1>8 DEF ClientNext
<1>9. QED
  BY <1>2, <1>3, <1>5, <1>7, <1>8 DEF DaemonStep, Next, DaemonNext

\* Nobody's HELLOs are taken back.
LEMMA HellosGrow ==
  ASSUME BaseInv, DaemonStep
  PROVE  \A c \in Conn : hellos[c] \in Nat /\ hellos'[c] \in Nat /\ hellos[c] <= hellos'[c]
<1>1. hellos \in [Conn -> 0..MaxHello]
  BY DEF BaseInv, TypeOK
<1>2. CASE hellos' = hellos
  BY <1>1, <1>2, NullFacts
<1>3. ASSUME NEW c \in Conn, hellos' = [hellos EXCEPT ![c] = @ + 1]
      PROVE  \A d \in Conn : hellos[d] \in Nat /\ hellos'[d] \in Nat /\ hellos[d] <= hellos'[d]
  <2>1. \A d \in Conn : hellos'[d] = IF d = c THEN hellos[d] + 1 ELSE hellos[d]
    BY <1>1, <1>3
  <2>2. QED
    BY <1>1, <2>1, NullFacts
<1>4. ASSUME NEW c \in Conn, NEW y, SendProducerHello(c, y)
      PROVE  \A d \in Conn : hellos[d] \in Nat /\ hellos'[d] \in Nat /\ hellos[d] <= hellos'[d]
  <2>1. hellos[c] = 0 /\ \A d \in Conn : hellos'[d] = IF d = c THEN 1 ELSE hellos[d]
    BY <1>1, <1>4 DEF SendProducerHello
  <2>2. QED
    BY <1>1, <2>1, NullFacts
<1>5. CASE DaemonNext \/ UNCHANGED vars
  BY <1>2, <1>5 DEF DaemonNext, EpollWait, SkipStaleEvent, HandleHangup, HandleClientData,
                    HandleNewConnection, Stop, Destroy, Kill, Teardown, Restart, clients, vars
<1>6. ASSUME NEW c \in Conn, NEW n, SendConsumerHello(c, n)
      PROVE  \A d \in Conn : hellos[d] \in Nat /\ hellos'[d] \in Nat /\ hellos[d] <= hellos'[d]
  BY <1>3, <1>6 DEF SendConsumerHello
<1>7. ASSUME NEW c \in Conn,
             ClientConnect(c) \/ (\E s \in Screen : SendScreenInfo(c, s)) \/ SendPickup(c)
               \/ SendForeign(c) \/ ClientRead(c) \/ ClientClose(c)
      PROVE  hellos' = hellos
  BY <1>7 DEF ClientConnect, SendScreenInfo, SendPickup, SendForeign, ClientRead, ClientClose, clients
<1>8. CASE ClientNext
  BY <1>2, <1>4, <1>6, <1>7, <1>8 DEF ClientNext, SendHello
<1>9. CASE \E c \in ConsumerConn : ReadAndHello(c)
  BY <1>3, <1>9, NullFacts DEF ReadAndHello
<1>10. QED
  BY <1>5, <1>8, <1>9 DEF DaemonStep, Next

-----------------------------------------------------------------------------
(* The libraries' own variables.                                           *)

\* What every step leaves in place.
Grows ==
  /\ MailOf(toClient, handed)'
  /\ handed \subseteq handed'
  /\ \A c \in Conn : hellos[c] \in Nat /\ hellos'[c] \in Nat /\ hellos[c] <= hellos'[c]

\* A producer holds a set its consumer has announced, and no later one.
LEMMA HeldIsOld ==
  ASSUME Inv, NEW p \in ProducerConn, p_set[p] # NULL
  PROVE  /\ p_set[p] \in FdSet /\ p_set[p].owner \in ConsumerConn
         /\ p_set[p].gen \in Nat /\ p_set[p].gen <= hellos[p_set[p].owner]
<1>1. <<p, p_set[p]>> \in handed /\ p_set[p] \in FdSet
  BY DEF Inv, LibInv, PickedUp, LibTypes
<1>2. p_set[p] \in Spent
  BY <1>1 DEF Spent
<1>3. QED
  BY <1>1, <1>2 DEF Inv, DaemonInv, GenInv, FdSet

\* A consumer gives its ends up, and may announce fresh ones.
LEMMA SetReplaced ==
  ASSUME Inv, Grows, NEW c \in ConsumerConn, NEW x, NEW v,
         x = NULL \/ (x = NextSet(c) /\ hellos[c] < MaxHello /\ hellos'[c] = hellos[c] + 1),
         v \in {"none", "connecting", "fallback"},
         c_set' = [c_set EXCEPT ![c] = x], c_phase' = [c_phase EXCEPT ![c] = v],
         pushed' = pushed \ {c_set[c]} \/ (c_phase[c] # "active" /\ pushed' = pushed),
         UNCHANGED <<p_phase, p_set>>, late' \in Nat
  PROVE  LibInv'
<1>1. /\ c_set \in [ConsumerConn -> FdSet \cup {NULL}]
      /\ c_phase \in [ConsumerConn -> {"none", "connecting", "fallback", "active"}]
      /\ pushed \subseteq FdSet /\ c \in Conn
  BY NullFacts DEF Inv, LibInv, LibTypes
<1>2. x # NULL => x \in FdSet /\ x.owner = c /\ x.gen = hellos[c] + 1 /\ x.gen = hellos'[c]
                  /\ hellos[c] \in Nat
  BY NextSetFacts DEF Inv, DaemonInv
<1>3. /\ \A d \in ConsumerConn : c_set'[d] = IF d = c THEN x ELSE c_set[d]
      /\ \A d \in ConsumerConn : c_phase'[d] = IF d = c THEN v ELSE c_phase[d]
  BY <1>1
<1>4. LibTypes'
  BY <1>1, <1>2 DEF Inv, LibInv, LibTypes
<1>5. OwnSets'
  <2> SUFFICES ASSUME NEW d \in ConsumerConn, c_set'[d] # NULL
               PROVE  c_set'[d].owner = d /\ c_set'[d].gen <= hellos'[d]
    BY DEF OwnSets
  <2>1. CASE d = c
    BY <1>2, <1>3, <2>1
  <2>2. CASE d # c
    <3>1. c_set'[d] = c_set[d] /\ c_set[d].owner = d /\ c_set[d].gen <= hellos[d] /\ c_set[d] \in FdSet
      BY <1>1, <1>3, <2>2 DEF Inv, LibInv, OwnSets
    <3>2. c_set[d].gen \in Nat /\ d \in Conn
      BY <3>1, NullFacts DEF FdSet
    <3>3. QED
      BY <3>1, <3>2 DEF Grows
  <2>3. QED
    BY <2>1, <2>2
<1>6. PushedInv'
  <2> SUFFICES ASSUME NEW s \in pushed'
               PROVE  c_set'[s.owner] = s /\ c_phase'[s.owner] = "active"
    BY DEF PushedInv
  <2>1. s \in pushed /\ c_set[s.owner] = s /\ c_phase[s.owner] = "active"
    BY DEF Inv, LibInv, PushedInv
  <2>2. s.owner \in ConsumerConn /\ s.owner # c
    BY <1>1, <2>1 DEF FdSet
  <2>3. QED
    BY <1>3, <2>1, <2>2
<1>7. PickedUp'
  BY DEF Inv, LibInv, PickedUp, Grows
<1>8. ProducerActiveLast'
  <2> SUFFICES ASSUME NEW p \in ProducerConn, p_phase[p] = "active",
                      c_set'[p_set[p].owner] = p_set[p]
               PROVE  c_phase'[p_set[p].owner] = "active"
    BY DEF ProducerActiveLast, ConsumerEnd
  <2>1. p_set[p] # NULL
    BY DEF Inv, LibInv, PickedUp
  <2>2. p_set[p].owner \in ConsumerConn /\ p_set[p].gen \in Nat /\ p_set[p].gen <= hellos[p_set[p].owner]
    BY <2>1, HeldIsOld
  <2>3. p_set[p].owner # c
    <3> SUFFICES ASSUME p_set[p].owner = c PROVE FALSE
      OBVIOUS
    <3>1. p_set[p] = x
      BY <1>3, <2>2
    <3>2. p_set[p].gen = hellos[c] + 1 /\ hellos[c] \in Nat
      BY <1>2, <2>1, <3>1
    <3>3. QED
      BY <2>2, <3>2
  <2>4. c_set[p_set[p].owner] = p_set[p] /\ c_phase'[p_set[p].owner] = c_phase[p_set[p].owner]
    BY <1>3, <2>2, <2>3
  <2>5. QED
    BY <2>4 DEF Inv, LibInv, ProducerActiveLast, ConsumerEnd
<1>9. QED
  BY <1>4, <1>5, <1>6, <1>7, <1>8 DEF LibInv, Grows

\* A consumer keeps its ends; it may get active and push its buffers.
LEMMA SetKept ==
  ASSUME Inv, Grows, NEW c \in ConsumerConn, NEW v,
         c_phase[c] # "active", v \in {"fallback", "active"},
         UNCHANGED <<c_set, p_phase, p_set, late>>, c_phase' = [c_phase EXCEPT ![c] = v],
         pushed' = pushed \/ (v = "active" /\ c_set[c] # NULL /\ pushed' = pushed \cup {c_set[c]})
  PROVE  LibInv'
<1>1. /\ c_set \in [ConsumerConn -> FdSet \cup {NULL}]
      /\ c_phase \in [ConsumerConn -> {"none", "connecting", "fallback", "active"}]
      /\ pushed \subseteq FdSet /\ c \in Conn
  BY NullFacts DEF Inv, LibInv, LibTypes
<1>2. \A d \in ConsumerConn : c_phase'[d] = IF d = c THEN v ELSE c_phase[d]
  BY <1>1
<1>3. LibTypes'
  BY <1>1 DEF Inv, LibInv, LibTypes
<1>4. OwnSets'
  <2>1. \A d \in ConsumerConn : c_set[d] # NULL => c_set[d].gen \in Nat
    BY <1>1 DEF FdSet
  <2>2. QED
    BY <2>1, NullFacts DEF Inv, LibInv, OwnSets, Grows
<1>5. PushedInv'
  <2> SUFFICES ASSUME NEW s \in pushed'
               PROVE  c_set[s.owner] = s /\ c_phase'[s.owner] = "active"
    BY DEF PushedInv
  <2>1. CASE s \in pushed
    <3>1. c_set[s.owner] = s /\ c_phase[s.owner] = "active" /\ s.owner \in ConsumerConn
      BY <1>1, <2>1 DEF Inv, LibInv, PushedInv, FdSet
    <3>2. QED
      BY <1>2, <3>1
  <2>2. CASE s = c_set[c] /\ c_set[c] # NULL /\ v = "active"
    BY <1>2, <2>2 DEF Inv, LibInv, OwnSets
  <2>3. QED
    BY <2>1, <2>2
<1>6. PickedUp'
  BY DEF Inv, LibInv, PickedUp, Grows
<1>7. ProducerActiveLast'
  <2> SUFFICES ASSUME NEW p \in ProducerConn, p_phase[p] = "active",
                      c_set[p_set[p].owner] = p_set[p]
               PROVE  c_phase'[p_set[p].owner] = "active"
    BY DEF ProducerActiveLast, ConsumerEnd
  <2>1. p_set[p] # NULL
    BY DEF Inv, LibInv, PickedUp
  <2>2. p_set[p].owner \in ConsumerConn
    BY <2>1, HeldIsOld
  <2>3. c_phase[p_set[p].owner] = "active"
    BY DEF Inv, LibInv, ProducerActiveLast, ConsumerEnd
  <2>4. QED
    BY <1>2, <2>2, <2>3
<1>8. QED
  BY <1>3, <1>4, <1>5, <1>6, <1>7 DEF LibInv, Grows

\* A producer's step: what it holds afterwards was handed to it, and it only
\* gets active with a consumer that is.
LEMMA ProducerMoves ==
  ASSUME Inv, Grows, NEW p \in ProducerConn, NEW x \in FdSet \cup {NULL}, NEW v,
         v \in {"none", "hello", "fallback", "pickup", "receive", "active"},
         x # NULL => <<p, x>> \in handed,
         v \in {"receive", "active"} => x # NULL,
         v = "active" => c_set[x.owner] = x /\ c_phase[x.owner] = "active",
         p_set' = [p_set EXCEPT ![p] = x], p_phase' = [p_phase EXCEPT ![p] = v],
         UNCHANGED <<c_phase, c_set>>, pushed' \subseteq pushed, late' \in Nat
  PROVE  LibInv'
<1>1. /\ p_set \in [ProducerConn -> FdSet \cup {NULL}]
      /\ p_phase \in [ProducerConn -> {"none", "hello", "fallback", "pickup", "receive", "active"}]
  BY DEF Inv, LibInv, LibTypes
<1>2. /\ \A q \in ProducerConn : p_set'[q] = IF q = p THEN x ELSE p_set[q]
      /\ \A q \in ProducerConn : p_phase'[q] = IF q = p THEN v ELSE p_phase[q]
  BY <1>1
<1>3. LibTypes'
  BY <1>1 DEF Inv, LibInv, LibTypes
<1>4. OwnSets'
  <2>1. \A d \in ConsumerConn : c_set[d] # NULL => c_set[d].gen \in Nat
    BY DEF Inv, LibInv, LibTypes, FdSet
  <2>2. QED
    BY <2>1, NullFacts DEF Inv, LibInv, OwnSets, Grows
<1>5. PushedInv'
  BY DEF Inv, LibInv, PushedInv
<1>6. PickedUp'
  BY <1>2 DEF Inv, LibInv, PickedUp, Grows
<1>7. ProducerActiveLast'
  BY <1>2 DEF Inv, LibInv, ProducerActiveLast, ConsumerEnd
<1>8. QED
  BY <1>3, <1>4, <1>5, <1>6, <1>7 DEF LibInv, Grows

\* The daemon and the kernel.
LEMMA LibUnchanged ==
  ASSUME Inv, Grows, UNCHANGED lib
  PROVE  LibInv'
<1>1. LibTypes' /\ PushedInv' /\ PickedUp' /\ ProducerActiveLast'
  BY DEF Inv, LibInv, LibTypes, PushedInv, PickedUp, ProducerActiveLast, ConsumerEnd, lib, Grows
<1>2. OwnSets'
  <2>1. \A d \in ConsumerConn : c_set[d] # NULL => c_set[d].gen \in Nat
    BY DEF Inv, LibInv, LibTypes, FdSet
  <2>2. QED
    BY <2>1, NullFacts DEF Inv, LibInv, OwnSets, Grows, lib
<1>3. QED
  BY <1>1, <1>2 DEF LibInv, Grows

LEMMA ConsumerStays ==
  ASSUME Inv, Grows, NEW c \in ConsumerConn,
         ConsumerStep(c) \/ ConsumerTimeout(c) \/ ConsumerDies(c)
  PROVE  LibInv'
<1>1. late \in Nat /\ c \in Conn /\ hellos \in [Conn -> 0..MaxHello]
  BY NullFacts DEF Inv, LibInv, LibTypes, DaemonInv, BaseInv, TypeOK
<1>2. ASSUME NEW n, SendConsumerHello(c, n)
      PROVE  hellos[c] < MaxHello /\ hellos'[c] = hellos[c] + 1
  BY <1>1, <1>2 DEF SendConsumerHello
<1>3. CASE ConsumerStart(c)
  BY <1>1, <1>2, <1>3, SetReplaced DEF ConsumerStart
<1>4. CASE \E s \in Screen : ConsumerScreen(c, s)
  BY <1>4, SetKept DEF ConsumerScreen
<1>5. CASE ConsumerExit(c)
  BY <1>5, SetKept DEF ConsumerExit
<1>6. CASE ConsumerExitFails(c)
  <2>1. c_phase[c] = "fallback" /\ c_phase' = [c_phase EXCEPT ![c] = "fallback"]
    BY <1>6 DEF ConsumerExitFails, Inv, LibInv, LibTypes
  <2>2. \E x : /\ c_set' = [c_set EXCEPT ![c] = x]
               /\ x = NULL \/ (x = NextSet(c) /\ hellos[c] < MaxHello /\ hellos'[c] = hellos[c] + 1)
    BY <1>1, <1>6 DEF ConsumerExitFails
  <2>3. UNCHANGED <<p_phase, p_set, pushed, late>>
    BY <1>6 DEF ConsumerExitFails
  <2>4. QED
    BY <1>1, <2>1, <2>2, <2>3, SetReplaced
<1>7. CASE Rebuild(c) /\ c_phase' = [c_phase EXCEPT ![c] = "fallback"]
             /\ UNCHANGED <<p_phase, p_set>> /\ late' \in Nat
  BY <1>2, <1>7, SetReplaced DEF Rebuild
<1>8. CASE ConsumerLoses(c)
  BY <1>1, <1>7, <1>8 DEF ConsumerLoses
<1>9. CASE ConsumerTimeout(c)
  <2>1. late' \in Nat
    BY <1>1, <1>9 DEF ConsumerTimeout, TooLate
  <2>2. QED
    BY <1>7, <1>9, <2>1 DEF ConsumerTimeout
<1>10. CASE ConsumerDies(c)
  BY <1>1, <1>10, SetReplaced DEF ConsumerDies
<1>11. QED
  BY <1>3, <1>4, <1>5, <1>6, <1>8, <1>9, <1>10 DEF ConsumerStep

LEMMA ProducerStays ==
  ASSUME Inv, Grows, NEW p \in ProducerConn,
         ProducerStep(p) \/ ProducerPickupTimeout(p) \/ ProducerReceiveTimeout(p) \/ ProducerDies(p)
  PROVE  LibInv'
<1>1. /\ late \in Nat /\ p_set \in [ProducerConn -> FdSet \cup {NULL}] /\ pushed \subseteq FdSet
      /\ p_set[p] # NULL => <<p, p_set[p]>> \in handed
      /\ p_phase[p] \in {"receive", "active"} => p_set[p] # NULL
  BY DEF Inv, LibInv, LibTypes, PickedUp
<1>2. p_set' = p_set => p_set' = [p_set EXCEPT ![p] = p_set[p]]
  BY <1>1
<1>3. CASE ProducerStart(p) \/ ProducerScreen(p) \/ ProducerPickup(p)
  <2>1. \E v \in {"hello", "fallback", "pickup"} : p_phase' = [p_phase EXCEPT ![p] = v]
    BY <1>3 DEF ProducerStart, ProducerScreen, ProducerPickup
  <2>2. UNCHANGED <<c_phase, c_set, p_set, pushed, late>>
    BY <1>3 DEF ProducerStart, ProducerScreen, ProducerPickup
  <2>3. QED
    BY <1>1, <1>2, <2>1, <2>2, ProducerMoves
<1>4. CASE ProducerPickedUp(p)
  <2> DEFINE x == Head(toClient[p]).arg
  <2>1. toClient[p] # <<>> /\ Head(toClient[p]).type = "FDS_READY"
    BY <1>4 DEF ProducerPickedUp, ClientRead
  <2>2. toClient[p] \in Seq(DaemonMsg)
    BY NullFacts DEF Inv, DaemonInv, BaseInv, TypeOK
  <2>3. 1 \in 1..Len(toClient[p]) /\ Head(toClient[p]) = toClient[p][1]
    BY <2>1, <2>2
  <2>4. <<p, x>> \in handed
    BY <2>1, <2>3 DEF Inv, LibInv, MailOf
  <2>5. x \in FdSet /\ x # NULL
    BY <2>4, NullFacts DEF Inv, DaemonInv, BaseInv, TypeOK
  <2>6. /\ p_set' = [p_set EXCEPT ![p] = x] /\ p_phase' = [p_phase EXCEPT ![p] = "receive"]
        /\ UNCHANGED <<c_phase, c_set, pushed, late>>
    BY <1>4 DEF ProducerPickedUp
  <2> HIDE DEF x
  <2>7. QED
    BY <1>1, <2>4, <2>5, <2>6, ProducerMoves
<1>5. CASE ProducerPickupTimeout(p)
  <2>1. late' \in Nat
    BY <1>1, <1>5 DEF ProducerPickupTimeout, TooLate
  <2>2. /\ p_phase' = [p_phase EXCEPT ![p] = "fallback"]
        /\ UNCHANGED <<c_phase, c_set, p_set, pushed>>
    BY <1>5 DEF ProducerPickupTimeout
  <2>3. QED
    BY <1>1, <1>2, <2>1, <2>2, ProducerMoves
<1>6. CASE ProducerReceive(p)
  <2>1. /\ p_phase[p] = "receive" /\ p_set[p] \in pushed
        /\ p_phase' = [p_phase EXCEPT ![p] = "active"]
        /\ pushed' \subseteq pushed
        /\ UNCHANGED <<c_phase, c_set, p_set, late>>
    BY <1>6 DEF ProducerReceive, BufsHere
  <2>2. c_set[p_set[p].owner] = p_set[p] /\ c_phase[p_set[p].owner] = "active"
    BY <2>1 DEF Inv, LibInv, PushedInv
  <2>3. QED
    BY <1>1, <1>2, <2>1, <2>2, ProducerMoves
<1>7. CASE ProducerReceiveTimeout(p) \/ ProducerLoses(p) \/ ProducerDies(p)
  <2>1. late' \in Nat
    BY <1>1, <1>7 DEF ProducerReceiveTimeout, ProducerLoses, ProducerDies, TooLate
  <2>2. \E v \in {"none", "fallback"} : p_phase' = [p_phase EXCEPT ![p] = v]
    BY <1>7 DEF ProducerReceiveTimeout, ProducerLoses, ProducerDies
  <2>3. p_set' = [p_set EXCEPT ![p] = NULL] /\ UNCHANGED <<c_phase, c_set, pushed>>
    BY <1>7 DEF ProducerReceiveTimeout, ProducerLoses, ProducerDies, Release
  <2>4. QED
    BY <1>1, <2>1, <2>2, <2>3, ProducerMoves
<1>8. QED
  BY <1>3, <1>4, <1>5, <1>6, <1>7 DEF ProducerStep

LEMMA SessionStarts == SessionInit => Inv
<1> SUFFICES ASSUME SessionInit PROVE Inv
  OBVIOUS
<1>1. Init
  BY DEF SessionInit
<1>2. Len(<<>>) = 0
  OBVIOUS
<1>3. HandInv
  BY <1>1, <1>2 DEF Init, HandInv, DepositIsConsumers, FdsAccounted, ScreenRendezvous,
                    NoMissedHandOver, KnownConns
<1>4. GenInv
  BY <1>1, <1>2 DEF Init, GenInv, Spent
<1>5. EveryOfferOnce
  BY <1>1 DEF Init, EveryOfferOnce, R!NobodyWaits, R!HandedOnce, AbstractOffer, Complete
<1>6. MailOf(toClient, handed)
  BY <1>1, <1>2, NullFacts DEF Init, MailOf
<1>7. LibTypes /\ OwnSets /\ PushedInv /\ PickedUp /\ ProducerActiveLast
  BY DEF SessionInit, LibTypes, OwnSets, PushedInv, PickedUp, ProducerActiveLast
<1>8. QED
  BY <1>1, <1>3, <1>4, <1>5, <1>6, <1>7, BaseInit DEF Inv, DaemonInv, LibInv

LEMMA SessionStays == Inv /\ [SessionNext]_svars => Inv'
<1> SUFFICES ASSUME Inv, [SessionNext]_svars PROVE Inv'
  OBVIOUS
<1>1. DaemonStep
  BY SessionSteps DEF Inv, DaemonInv
<1>2. DaemonInv'
  BY <1>1, DaemonStays DEF Inv
<1>3. Grows
  BY <1>1, MailStays, HellosGrow DEF Inv, DaemonInv, LibInv, Grows
<1>4. LibInv'
  <2>1. CASE UNCHANGED lib
    BY <1>3, <2>1, LibUnchanged
  <2>2. CASE \E c \in ConsumerConn : ConsumerStep(c) \/ ConsumerTimeout(c) \/ ConsumerDies(c)
    BY <1>3, <2>2, ConsumerStays
  <2>3. CASE \E p \in ProducerConn :
               \/ ProducerStep(p)
               \/ ProducerPickupTimeout(p) \/ ProducerReceiveTimeout(p) \/ ProducerDies(p)
    BY <1>3, <2>3, ProducerStays
  <2>4. QED
    BY <2>1, <2>2, <2>3 DEF SessionNext, Connect, svars
<1>5. QED
  BY <1>2, <1>4 DEF Inv

LEMMA SessionCorrect == SessionSpec => []Inv
BY SessionStarts, SessionStays, PTL DEF SessionSpec

-----------------------------------------------------------------------------
(* Theorems.                                                               *)

\* display_producer.c, release_consumer_resources and pickup_fds; however
\* compositors are replaced, no two of them hold the channels of one set.
THEOREM OneHolder == SessionSpec => []ChannelsExclusive
<1>1. Inv => ChannelsExclusive
  <2> SUFFICES ASSUME Inv, NEW p \in ProducerConn, NEW q \in ProducerConn,
                      p_set[p] # NULL, p_set[p] = p_set[q]
               PROVE  p = q
    BY DEF ChannelsExclusive
  <2>1. <<p, p_set[p]>> \in handed /\ <<q, p_set[p]>> \in handed
    BY DEF Inv, LibInv, PickedUp
  <2>2. <<p, p_set[p]>> = <<q, p_set[p]>>
    BY <2>1 DEF Inv, DaemonInv, EveryOfferOnce, R!HandedOnce
  <2>3. QED
    BY <2>2
<1>2. QED
  BY <1>1, SessionCorrect, PTL

\* try_exit_fallback on both sides: a compositor that renders for a consumer
\* renders for one that has left fallback, and pushed these very buffers.
THEOREM ConsumerActiveFirst == SessionSpec => []ProducerActiveLast
<1>1. Inv => ProducerActiveLast
  BY DEF Inv, LibInv
<1>2. QED
  BY <1>1, SessionCorrect, PTL

\* What the daemon promises, it promises to these clients too: a session is a
\* behaviour of the rendezvous, although its consumers read and send at once.
THEOREM SessionRendezvous == SessionSpec => ImplementsRendezvous
<1>1. SessionInit => R!Init
  BY DEF SessionInit, Init, R!Init, AbstractOffer, AbstractAsker, Complete
<1>2. Inv /\ [SessionNext]_svars => [R!Next]_R!vars
  <2> SUFFICES ASSUME Inv, [SessionNext]_svars PROVE [R!Next]_R!vars
    OBVIOUS
  <2>1. CASE [Next]_vars
    BY <2>1, RendezvousStep DEF RStep, Inv, DaemonInv
  <2>2. CASE \E c \in ConsumerConn : ReadAndHello(c)
    BY <2>2, QuietStutters DEF ReadAndHello, Sends, daemonState, ctx, RStep
  <2>3. QED
    BY <2>1, <2>2, SessionSteps DEF DaemonStep, Inv, DaemonInv
<1>3. QED
  BY <1>1, <1>2, SessionCorrect, PTL DEF SessionSpec, ImplementsRendezvous, R!Spec
=============================================================================
