------------------------------- MODULE Daemon -------------------------------
(***************************************************************************)
(* anland-daemon: the broker that introduces one consumer (the Android app  *)
(* that owns the screen) to one producer (the Linux compositor).  It keeps  *)
(* at most one client of each role, remembers the last screen_info, holds   *)
(* the descriptors the consumer deposited, and hands them to the producer   *)
(* when it asks; afterwards the two talk directly and the daemon is idle.   *)
(*                                                                         *)
(* It is one thread around epoll_wait: a batch of events is fetched, and    *)
(* handled one by one while clients keep connecting, sending and dying.     *)
(* The environment here is any client that speaks the protocol of           *)
(* common/protocol.h; Session.tla replaces it by the two libraries.         *)
(***************************************************************************)
EXTENDS Naturals, Sequences, FiniteSets

CONSTANTS
  ConsumerConn,  \* connections made by consumer processes
  ProducerConn,  \* connections made by producer processes
  Addr,          \* heap addresses calloc() can return for a struct client
  Screen,        \* values of struct screen_info
  NULL,          \* no client, no screen, nothing deposited
  FdCount,       \* how many descriptors a CONSUMER_HELLO may carry
  MAX_FDS,       \* DISPLAY_DEPOSITED_FD_COUNT
  Faults,        \* bound: which of "stop", "kill" and "foreign" may happen
  MaxHello,      \* bound: HELLOs sent on one connection
  StrayFds,      \* descriptors that a client may send where none belong
  MaxQueue       \* bound: messages of a client the daemon has not read

Conn == ConsumerConn \cup ProducerConn

\* One deposited set of descriptors: who sent it, its how-manyeth HELLO it
\* was, and how many descriptors it holds.
FdSet == [owner : ConsumerConn, gen : 1..MaxHello, n : FdCount]
Complete(s) == s # NULL /\ s.n = MAX_FDS

ASSUME DaemonAssumption ==
  /\ ConsumerConn \cap ProducerConn = {}
  /\ FdCount \subseteq Nat \ {0}
  /\ MAX_FDS \in FdCount
  /\ MaxHello \in Nat \ {0}
  /\ MaxQueue \in Nat \ {0}
  /\ FdSet \cap StrayFds = {}
  /\ NULL \notin Conn \cup Addr \cup Screen \cup FdSet \cup StrayFds

Msg(type, arg) == [type |-> type, arg |-> arg]
ClientMsg ==
  [type : {"CONSUMER_HELLO"}, arg : FdSet]
    \cup [type : {"SCREEN_INFO"}, arg : Screen]
    \cup [type : {"PICKUP_FDS"}, arg : {NULL}]
    \cup [type : {"PRODUCER_HELLO", "MISPLACED", "FOREIGN"}, arg : {NULL} \cup StrayFds]
DaemonMsg ==
  [type : {"SCREEN_INFO"}, arg : Screen]
    \cup [type : {"FDS_READY"}, arg : FdSet \cup {NULL}]

VARIABLES
  \* struct daemon_ctx
  consumer, producer,      \* role pointers: an address or NULL
  stored_screen,           \* NULL while !has_screen_info
  deposited_fds,           \* NULL while deposited_fd_count = 0
  producer_waiting_screen,
  producer_waiting_fds,
  status,                  \* "running", "stopping" (running = false) or "down"
  \* the daemon's share of the kernel and of the heap
  ctrl_fd,                 \* [Addr -> connection of the client struct, or NULL if free]
  open_fds,                \* received descriptor sets the daemon has not closed
  batch,                   \* events fetched by epoll_wait, not handled yet
  backlog,                 \* connections waiting for accept()
  \* the clients
  peer,                    \* their end of each connection: "none", "open", "closed"
  hellos,                  \* HELLOs sent on each connection
  toDaemon, toClient,      \* the two directions of each connection
  \* history: the pairs <<producer connection, set of descriptors>> sent
  handed

ctx     == <<consumer, producer, stored_screen, deposited_fds,
             producer_waiting_screen, producer_waiting_fds, status>>
clients == <<peer, hellos>>
vars    == <<ctx, ctrl_fd, open_fds, batch, backlog, clients, toDaemon, toClient, handed>>

Allocated   == {a \in Addr : ctrl_fd[a] # NULL}
Roles       == {consumer, producer} \ {NULL}
Accepted(c) == \E a \in Addr : ctrl_fd[a] = c
Queued(c)   == \E i \in DOMAIN backlog : backlog[i] = c
\* The daemon holds the other end of c (or the kernel does, before accept).
Served(c)   == Accepted(c) \/ Queued(c)
ConnOf(a)   == IF a = NULL THEN NULL ELSE ctrl_fd[a]

Event      == [ptr : Addr \cup {NULL}, conn : Conn \cup {NULL}, hup : BOOLEAN]
AcceptEvent == [ptr |-> NULL, conn |-> NULL, hup |-> FALSE]

-----------------------------------------------------------------------------
Init ==
  /\ consumer = NULL /\ producer = NULL
  /\ stored_screen = NULL
  /\ deposited_fds = NULL
  /\ producer_waiting_screen = FALSE
  /\ producer_waiting_fds = FALSE
  /\ status = "running"
  /\ ctrl_fd = [a \in Addr |-> NULL]
  /\ open_fds = {}
  /\ batch = {}
  /\ backlog = <<>>
  /\ peer = [c \in Conn |-> "none"]
  /\ hellos = [c \in Conn |-> 0]
  /\ toDaemon = [c \in Conn |-> <<>>]
  /\ toClient = [c \in Conn |-> <<>>]
  /\ handed = {}

-----------------------------------------------------------------------------
(* Helpers of the handlers.                                                *)

\* send_all / send_fds: reaches a client whose end is open, and fails
\* (EPIPE, nothing is delivered) otherwise.  queues is toClient so far.
Post(queues, c, m) ==
  IF c # NULL /\ peer[c] = "open" THEN [queues EXCEPT ![c] = Append(@, m)] ELSE queues

\* Mutant: sends whatever is deposited, be it nothing.
CanDeliverAny(s, p) == p # NULL /\ peer[p] = "open"

CanDeliver(s, p) == p # NULL /\ Complete(s) /\ peer[p] = "open"

\* Mutant: the deposit outlives its delivery.
TryDeliverKeeping(s, k, p) ==
  IF CanDeliver(s, p)
  THEN /\ toClient' = Post(Post(toClient, p, Msg("FDS_READY", s)), k, Msg("FDS_READY", NULL))
       /\ deposited_fds' = s
       /\ open_fds' = (open_fds \ {deposited_fds}) \cup {s}
       /\ producer_waiting_fds' = FALSE
       /\ handed' = handed \cup {<<p, s>>}
  ELSE /\ deposited_fds' = s
       /\ open_fds' = (open_fds \ {deposited_fds}) \cup ({s} \ {NULL})
       /\ producer_waiting_fds' = TRUE
       /\ UNCHANGED <<toClient, handed>>

\* Mutant: the consumer is told before the descriptors are sent.
TryDeliverTelling(s, k, p) ==
  LET told == Post(toClient, k, Msg("FDS_READY", NULL)) IN
  IF CanDeliver(s, p)
  THEN /\ toClient' = Post(told, p, Msg("FDS_READY", s))
       /\ deposited_fds' = NULL
       /\ open_fds' = open_fds \ {deposited_fds}
       /\ producer_waiting_fds' = FALSE
       /\ handed' = handed \cup {<<p, s>>}
  ELSE /\ toClient' = told
       /\ deposited_fds' = s
       /\ open_fds' = (open_fds \ {deposited_fds}) \cup ({s} \ {NULL})
       /\ producer_waiting_fds' = TRUE
       /\ UNCHANGED handed

\* try_deliver_fds with s deposited, the consumer on connection k and the
\* producer on connection p.  Without a producer, a complete deposit or a
\* successful send the request is remembered and the deposit kept.
TryDeliver(s, k, p) ==
  IF CanDeliver(s, p)
  THEN /\ toClient' = Post(Post(toClient, p, Msg("FDS_READY", s)), k, Msg("FDS_READY", NULL))
       /\ deposited_fds' = NULL
       /\ open_fds' = (open_fds \ {deposited_fds}) \ {s}
       /\ producer_waiting_fds' = FALSE
       /\ handed' = handed \cup {<<p, s>>}
  ELSE /\ deposited_fds' = s
       /\ open_fds' = (open_fds \ {deposited_fds}) \cup ({s} \ {NULL})
       /\ producer_waiting_fds' = TRUE
       /\ UNCHANGED <<toClient, handed>>

\* Mutant: the previous deposit is overwritten, not closed.
StoreFdsOverwriting(s, k) ==
  IF producer_waiting_fds
  THEN TryDeliver(s, k, ConnOf(producer))
  ELSE /\ deposited_fds' = s
       /\ open_fds' = open_fds \cup {s}
       /\ UNCHANGED <<producer_waiting_fds, toClient, handed>>

\* Mutant: a producer that asked first is not served by a later deposit.
StoreFdsOnly(s, k) ==
  /\ deposited_fds' = s
  /\ open_fds' = (open_fds \ {deposited_fds}) \cup {s}
  /\ UNCHANGED <<producer_waiting_fds, toClient, handed>>

\* A consumer's descriptors replace the deposit (clear_deposited_fds first)
\* and go out at once to a producer that already asked.
StoreFds(s, k) ==
  IF producer_waiting_fds
  THEN TryDeliver(s, k, ConnOf(producer))
  ELSE /\ deposited_fds' = s
       /\ open_fds' = (open_fds \ {deposited_fds}) \cup {s}
       /\ UNCHANGED <<producer_waiting_fds, toClient, handed>>

\* close() on connection c: what the client sent and nobody read is gone.
Discard(queues, c) == [x \in Conn |-> IF x = c THEN <<>> ELSE queues[x]]

\* Mutant: the deposit of a consumer survives it.
DropClientOnly(a, x) ==
  /\ ctrl_fd' = [ctrl_fd EXCEPT ![a] = NULL]
  /\ toDaemon' = Discard(toDaemon, ctrl_fd[a])
  /\ IF a = consumer
     THEN /\ consumer' = NULL
          /\ UNCHANGED <<producer, producer_waiting_screen, producer_waiting_fds>>
     ELSE /\ producer' = NULL
          /\ UNCHANGED <<consumer, producer_waiting_screen, producer_waiting_fds>>
  /\ open_fds' = open_fds \cup ({x} \ {NULL})
  /\ UNCHANGED deposited_fds

\* drop_client: the role goes first, with the state that belongs to it, then
\* client_free closes the connection and frees the struct.  x is what came
\* with the message that made the daemon do it: nobody closes that.
DropClient(a, x) ==
  /\ ctrl_fd' = [ctrl_fd EXCEPT ![a] = NULL]
  /\ toDaemon' = Discard(toDaemon, ctrl_fd[a])
  /\ IF a = consumer
     THEN /\ consumer' = NULL
          /\ deposited_fds' = NULL
          /\ open_fds' = (open_fds \ {deposited_fds}) \cup ({x} \ {NULL})
          /\ UNCHANGED <<producer, producer_waiting_screen, producer_waiting_fds>>
     ELSE /\ producer' = NULL
          /\ producer_waiting_screen' = FALSE
          /\ producer_waiting_fds' = FALSE
          /\ open_fds' = open_fds \cup ({x} \ {NULL})
          /\ UNCHANGED <<consumer, deposited_fds>>

-----------------------------------------------------------------------------
(* daemon_run: fetch a batch, then handle its events in any order.         *)

ReadyEvents ==
  {[ptr |-> a, conn |-> ctrl_fd[a], hup |-> peer[ctrl_fd[a]] = "closed"] :
      a \in {b \in Allocated : toDaemon[ctrl_fd[b]] # <<>> \/ peer[ctrl_fd[b]] = "closed"}}
    \cup (IF backlog # <<>> THEN {AcceptEvent} ELSE {})

EpollWait ==
  /\ status = "running"
  /\ batch = {}
  /\ ReadyEvents # {}
  /\ batch' = ReadyEvents
  /\ UNCHANGED <<ctx, ctrl_fd, open_fds, backlog, clients, toDaemon, toClient, handed>>

\* The client was freed earlier in this batch: its event is ignored.
SkipStaleEvent(e) ==
  /\ e \in batch /\ e.ptr # NULL
  /\ e.ptr \notin {consumer, producer}
  /\ batch' = batch \ {e}
  /\ UNCHANGED <<ctx, ctrl_fd, open_fds, backlog, clients, toDaemon, toClient, handed>>

HandleHangup(e) ==
  /\ e \in batch /\ e.ptr # NULL
  /\ e.ptr \in {consumer, producer}
  /\ e.hup
  /\ batch' = batch \ {e}
  /\ DropClient(e.ptr, NULL)
  /\ UNCHANGED <<stored_screen, status, backlog, clients, toClient, handed>>

\* CONSUMER_HELLO again on the consumer's own connection: it fell back and
\* rebuilt its channels.  A set of the wrong size is closed unread.
ReadConsumerHello(a, m) ==
  /\ m.type = "CONSUMER_HELLO"
  /\ IF a = consumer /\ m.arg.n = MAX_FDS
     THEN StoreFds(m.arg, ctrl_fd[a])
     ELSE UNCHANGED <<deposited_fds, open_fds, producer_waiting_fds, toClient, handed>>
  /\ UNCHANGED <<stored_screen, producer_waiting_screen, consumer, producer, ctrl_fd>>

ReadScreenInfo(a, m) ==
  /\ m.type = "SCREEN_INFO"
  /\ IF a = consumer
     THEN /\ stored_screen' = m.arg
          /\ IF producer_waiting_screen /\ producer # NULL
             THEN /\ toClient' = Post(toClient, ctrl_fd[producer], m)
                  /\ producer_waiting_screen' = FALSE
             ELSE UNCHANGED <<toClient, producer_waiting_screen>>
     ELSE UNCHANGED <<stored_screen, toClient, producer_waiting_screen>>
  /\ UNCHANGED <<deposited_fds, open_fds, producer_waiting_fds, consumer, producer, ctrl_fd, handed>>

ReadPickup(a, m) ==
  /\ m.type = "PICKUP_FDS"
  /\ IF a = producer
     THEN TryDeliver(deposited_fds, ConnOf(consumer), ctrl_fd[a])
     ELSE UNCHANGED <<deposited_fds, open_fds, producer_waiting_fds, toClient, handed>>
  /\ UNCHANGED <<stored_screen, producer_waiting_screen, consumer, producer, ctrl_fd>>

\* A message that means nothing from this client (a HELLO of the other role, a
\* second one of the producer's own, an unknown type) is ignored, and its descriptors stay open.  (So do those
\* with a SCREEN_INFO or a PICKUP_FDS: this message before that one.)
ReadMisplaced(a, m) ==
  /\ m.type = "MISPLACED"
  /\ open_fds' = open_fds \cup ({m.arg} \ {NULL})
  /\ UNCHANGED <<deposited_fds, producer_waiting_fds, toClient, handed, stored_screen,
                 producer_waiting_screen, consumer, producer, ctrl_fd>>

\* A header whose size no payload of this protocol version has.
ReadForeign(a, m) ==
  /\ m.type = "FOREIGN"
  /\ DropClient(a, m.arg)
  /\ UNCHANGED <<stored_screen, toClient, handed>>

\* handle_client_data: one message per event.
HandleClientData(e) ==
  /\ e \in batch /\ e.ptr # NULL
  /\ e.ptr \in {consumer, producer}
  /\ ~e.hup
  /\ batch' = batch \ {e}
  /\ LET c == ctrl_fd[e.ptr] IN
     /\ toDaemon[c] # <<>>
     /\ LET m == Head(toDaemon[c]) IN
        \/ /\ toDaemon' = [toDaemon EXCEPT ![c] = Tail(@)]
           /\ \/ ReadConsumerHello(e.ptr, m)
              \/ ReadScreenInfo(e.ptr, m)
              \/ ReadPickup(e.ptr, m)
              \/ ReadMisplaced(e.ptr, m)
        \/ ReadForeign(e.ptr, m)
  /\ UNCHANGED <<status, backlog, clients>>

\* What calloc() may return: it runs before the client at old is evicted.
\* Mutant: eviction first, so that its address may come back at once.
FreshAddrLate(old) == (Addr \ Allocated) \cup ({old} \ {NULL})
FreshAddr(old) == Addr \ Allocated

\* The struct of connection c, whose HELLO has been read, at the fresh address
\* a replaces the one at old.
\* Mutant: the evicted client's struct is not freed.
InstallLeaking(a, c, old) ==
  /\ ctrl_fd' = [ctrl_fd EXCEPT ![a] = c]
  /\ toDaemon' = Discard([toDaemon EXCEPT ![c] = Tail(@)], ConnOf(old))

Install(a, c, old) ==
  /\ ctrl_fd' = [x \in Addr |-> IF x = a THEN c ELSE IF x = old THEN NULL ELSE ctrl_fd[x]]
  /\ toDaemon' = Discard([toDaemon EXCEPT ![c] = Tail(@)], ConnOf(old))

\* Mutant: a producer that comes before the screen is not told later.
AcceptProducerNow(c, m) ==
  /\ m.type = "PRODUCER_HELLO"
  /\ \E a \in FreshAddr(producer) : Install(a, c, producer) /\ producer' = a
  /\ producer_waiting_fds' = FALSE
  /\ producer_waiting_screen' = FALSE
  /\ toClient' = IF stored_screen # NULL
                 THEN Post(toClient, c, Msg("SCREEN_INFO", stored_screen))
                 ELSE toClient
  /\ open_fds' = open_fds \cup ({m.arg} \ {NULL})
  /\ UNCHANGED <<consumer, stored_screen, deposited_fds, handed>>

\* The newcomer takes the role over; the deposit of the one it evicts is
\* cleared before its own is stored.
AcceptConsumer(c, m) ==
  /\ m.type = "CONSUMER_HELLO"
  /\ \E a \in FreshAddr(consumer) : Install(a, c, consumer) /\ consumer' = a
  /\ StoreFds(m.arg, c)
  /\ UNCHANGED <<producer, stored_screen, producer_waiting_screen>>

AcceptProducer(c, m) ==
  /\ m.type = "PRODUCER_HELLO"
  /\ \E a \in FreshAddr(producer) : Install(a, c, producer) /\ producer' = a
  /\ producer_waiting_fds' = FALSE
  /\ producer_waiting_screen' = (stored_screen = NULL)
  /\ toClient' = IF stored_screen # NULL
                 THEN Post(toClient, c, Msg("SCREEN_INFO", stored_screen))
                 ELSE toClient
  /\ open_fds' = open_fds \cup ({m.arg} \ {NULL})
  /\ UNCHANGED <<consumer, stored_screen, deposited_fds, handed>>

\* The connection is closed again: no HELLO in its first message, or none at
\* all.  The descriptors x that came with it are not.
Refuse(c, x) ==
  /\ toDaemon' = Discard(toDaemon, c)
  /\ open_fds' = open_fds \cup ({x} \ {NULL})
  /\ UNCHANGED <<consumer, producer, stored_screen, deposited_fds, producer_waiting_screen,
                 producer_waiting_fds, ctrl_fd, toClient, handed>>

\* The client died before it sent anything: the blocking read returns.
Abandoned(c) == toDaemon[c] = <<>> /\ peer[c] = "closed"

\* accept() and a blocking read of the first message: nothing else is served
\* until the client has sent it or has gone.
HandleNewConnection ==
  /\ AcceptEvent \in batch
  /\ batch' = batch \ {AcceptEvent}
  /\ backlog # <<>>
  /\ backlog' = Tail(backlog)
  /\ LET c == Head(backlog) IN
     \/ /\ toDaemon[c] # <<>>
        /\ \/ AcceptConsumer(c, Head(toDaemon[c]))
           \/ AcceptProducer(c, Head(toDaemon[c]))
           \/ /\ Head(toDaemon[c]).type \in {"MISPLACED", "FOREIGN"}
              /\ Refuse(c, Head(toDaemon[c]).arg)
     \/ Abandoned(c) /\ Refuse(c, NULL)
  /\ UNCHANGED <<status, clients>>

-----------------------------------------------------------------------------
(* Start and stop.                                                         *)

\* SIGINT / SIGTERM: daemon_stop clears running; the loop reads it only when
\* the batch is done.
Stop ==
  /\ "stop" \in Faults
  /\ status = "running"
  /\ status' = "stopping"
  /\ UNCHANGED <<consumer, producer, stored_screen, deposited_fds, producer_waiting_screen,
                 producer_waiting_fds, ctrl_fd, open_fds, batch, backlog, clients,
                 toDaemon, toClient, handed>>

\* What the end of the process leaves: no client, no deposit, and the
\* connections nobody accepted reset.
Teardown ==
  /\ status' = "down"
  /\ consumer' = NULL /\ producer' = NULL
  /\ stored_screen' = NULL
  /\ deposited_fds' = NULL
  /\ open_fds' = {}
  /\ producer_waiting_screen' = FALSE
  /\ producer_waiting_fds' = FALSE
  /\ ctrl_fd' = [a \in Addr |-> NULL]
  /\ batch' = {}
  /\ backlog' = <<>>
  /\ toDaemon' = [c \in Conn |-> <<>>]
  /\ UNCHANGED <<clients, toClient, handed>>

\* The loop has seen running = false: daemon_destroy.
Destroy == status = "stopping" /\ batch = {} /\ Teardown

\* The process is killed, at any point.
Kill == "kill" \in Faults /\ status # "down" /\ Teardown

\* The service starts daemon_create again in a fresh process.
Restart ==
  /\ status = "down"
  /\ status' = "running"
  /\ UNCHANGED <<consumer, producer, stored_screen, deposited_fds, producer_waiting_screen,
                 producer_waiting_fds, ctrl_fd, open_fds, batch, backlog, clients,
                 toDaemon, toClient, handed>>

DaemonNext ==
  \/ EpollWait
  \/ \E e \in batch : SkipStaleEvent(e) \/ HandleHangup(e) \/ HandleClientData(e)
  \/ HandleNewConnection
  \/ Stop \/ Destroy \/ Kill \/ Restart

-----------------------------------------------------------------------------
(* The clients.                                                            *)

daemonState == <<ctx, ctrl_fd, open_fds, batch, handed>>

\* connect_unix: succeeds as soon as the listening socket has queued it.
ClientConnect(c) ==
  /\ peer[c] = "none"
  /\ status # "down"
  /\ peer' = [peer EXCEPT ![c] = "open"]
  /\ backlog' = Append(backlog, c)
  /\ UNCHANGED <<daemonState, hellos, toDaemon, toClient>>

\* A send on a connection the daemon has closed fails and changes nothing.
ClientSend(c, m) ==
  /\ peer[c] = "open" /\ Served(c)
  /\ Len(toDaemon[c]) < MaxQueue
  /\ toDaemon' = [toDaemon EXCEPT ![c] = Append(@, m)]
  /\ UNCHANGED <<daemonState, backlog, peer, toClient>>

\* The HELLO that opens a connection, or a consumer's next one with a fresh
\* set of descriptors.
SendConsumerHello(c, n) ==
  /\ c \in ConsumerConn /\ hellos[c] < MaxHello
  /\ hellos' = [hellos EXCEPT ![c] = @ + 1]
  /\ ClientSend(c, Msg("CONSUMER_HELLO", [owner |-> c, gen |-> hellos[c] + 1, n |-> n]))

SendProducerHello(c, x) ==
  /\ c \in ProducerConn /\ hellos[c] = 0
  /\ hellos' = [hellos EXCEPT ![c] = 1]
  /\ ClientSend(c, Msg("PRODUCER_HELLO", x))

SendScreenInfo(c, s) ==
  /\ c \in ConsumerConn /\ hellos[c] > 0
  /\ ClientSend(c, Msg("SCREEN_INFO", s))
  /\ UNCHANGED hellos

SendPickup(c) ==
  /\ c \in ProducerConn /\ hellos[c] > 0
  /\ ClientSend(c, Msg("PICKUP_FDS", NULL))
  /\ UNCHANGED hellos

\* A client that does not keep to this protocol, or to this version of it.
\* recv_fds takes descriptors with any header, and only those of a consumer's
\* HELLO are looked at.
NotSent == {x \in StrayFds \ open_fds : \A c \in Conn : \A i \in DOMAIN toDaemon[c] : toDaemon[c][i].arg # x}

SendForeign(c) ==
  /\ "foreign" \in Faults
  /\ \/ ClientSend(c, Msg("FOREIGN", NULL))
     \/ \E type \in {"MISPLACED", "FOREIGN"}, x \in NotSent : ClientSend(c, Msg(type, x))
  /\ UNCHANGED hellos

ClientRead(c) ==
  /\ peer[c] = "open" /\ toClient[c] # <<>>
  /\ toClient' = [toClient EXCEPT ![c] = Tail(@)]
  /\ UNCHANGED <<daemonState, backlog, clients, toDaemon>>

\* disconnect(), or the death of the process: what was sent stays readable,
\* what was not read is lost.
ClientClose(c) ==
  /\ peer[c] = "open"
  /\ peer' = [peer EXCEPT ![c] = "closed"]
  /\ toClient' = [toClient EXCEPT ![c] = <<>>]
  /\ UNCHANGED <<daemonState, backlog, hellos, toDaemon>>

SendHello(c) ==
  \/ \E n \in FdCount : SendConsumerHello(c, n)
  \/ \E x \in {NULL} \cup NotSent : SendProducerHello(c, x)

ClientNext ==
  \E c \in Conn :
    \/ ClientConnect(c)
    \/ SendHello(c)
    \/ \E s \in Screen : SendScreenInfo(c, s)
    \/ SendPickup(c)
    \/ SendForeign(c)
    \/ ClientRead(c)
    \/ ClientClose(c)

Next == DaemonNext \/ ClientNext

Spec == Init /\ [][Next]_vars

\* The daemon's thread runs; a client that has connected sends its HELLO or
\* dies (nothing the libraries do between the two waits for anybody).
Fairness ==
  /\ WF_vars(EpollWait)
  /\ WF_vars(\E e \in batch : SkipStaleEvent(e) \/ HandleHangup(e) \/ HandleClientData(e))
  /\ WF_vars(HandleNewConnection)
  /\ \A c \in Conn : WF_vars(hellos[c] = 0 /\ SendHello(c))

FairSpec == Spec /\ Fairness

-----------------------------------------------------------------------------
(* Properties.                                                             *)

TypeOK ==
  /\ consumer \in Addr \cup {NULL} /\ producer \in Addr \cup {NULL}
  /\ stored_screen \in Screen \cup {NULL}
  /\ deposited_fds \in FdSet \cup {NULL}
  /\ producer_waiting_screen \in BOOLEAN
  /\ producer_waiting_fds \in BOOLEAN
  /\ status \in {"running", "stopping", "down"}
  /\ ctrl_fd \in [Addr -> Conn \cup {NULL}]
  /\ open_fds \subseteq FdSet \cup StrayFds
  /\ batch \subseteq Event
  /\ backlog \in Seq(Conn)
  /\ peer \in [Conn -> {"none", "open", "closed"}]
  /\ hellos \in [Conn -> 0..MaxHello]
  /\ toDaemon \in [Conn -> Seq(ClientMsg)]
  /\ toClient \in [Conn -> Seq(DaemonMsg)]
  /\ handed \subseteq ProducerConn \X FdSet

\* Every client struct on the heap holds a role and a connection of that
\* role: none is leaked by an eviction or a hangup, none is used after free.
RolesOwnStructs ==
  /\ Allocated = Roles
  /\ consumer # NULL => ctrl_fd[consumer] \in ConsumerConn
  /\ producer # NULL => ctrl_fd[producer] \in ProducerConn

\* drop_client's comment and the guard of daemon_run: an event that is not
\* skipped as stale is handled for the connection it was fetched for, even
\* though freed addresses are reused within a batch.
EventsReachTheirClient ==
  \A e \in batch : e.ptr \in Roles => ctrl_fd[e.ptr] = e.conn

\* What is deposited was sent by the consumer connected now ("a future
\* producer must never be handed this stale set").
DepositIsConsumers ==
  deposited_fds # NULL => consumer # NULL /\ deposited_fds.owner = ctrl_fd[consumer]

\* A live producer and a complete deposit never wait for each other.
NoMissedHandOver ==
  producer_waiting_fds =>
    /\ producer # NULL
    /\ Complete(deposited_fds) => peer[ctrl_fd[producer]] = "closed"

\* The flag that ScreenToldOnce rests on: the connected producer waits for a
\* screen exactly while none is known.
ScreenRendezvous ==
  producer_waiting_screen <=> (producer # NULL /\ stored_screen = NULL)

\* Of the sets that came in consumers' HELLOs the daemon holds exactly the
\* deposit open: each is closed or handed on, once, over replacements,
\* evictions, hangups and failed sends.  What else stays open came with a
\* message that has no use for descriptors; if no client sends any there,
\* StrayFds is empty and nothing leaks.
FdsAccounted == open_fds \ StrayFds = {deposited_fds} \ {NULL}

\* Only complete sets of the consumer connected at that moment are handed
\* over, to the producer connected at that moment.
NoStaleHandOver ==
  [][\A h \in handed' \ handed :
        /\ Complete(h[2])
        /\ consumer' # NULL /\ ctrl_fd'[consumer'] = h[2].owner
        /\ producer # NULL /\ ctrl_fd[producer] = h[1]]_vars

\* The consumer is told FDS_READY when, and only when, its set went out.
ConsumerToldOnce ==
  [][\A c \in ConsumerConn : peer'[c] = "open" =>
        (Len(toClient'[c]) > Len(toClient[c])
           <=> \E h \in handed' \ handed : h[2].owner = c)]_vars

\* Producer and screen find each other in either order, over evictions,
\* hangups and restarts: the producer is sent the screen in the step from which
\* on it is connected and one is known, and in no other.
Knows(p) == producer # NULL /\ ctrl_fd[producer] = p /\ stored_screen # NULL
ScreensSent(p) == {s \in Screen : toClient'[p] = Append(toClient[p], Msg("SCREEN_INFO", s))}
ScreenToldOnce ==
  [][\A p \in ProducerConn : peer'[p] = "open" =>
        ScreensSent(p) = IF Knows(p)' /\ ~Knows(p) THEN {stored_screen'} ELSE {}]_vars

\* The abstract rendezvous: the complete deposit is the offer, a waiting
\* producer that is still there is the asker.
AbstractOffer == IF Complete(deposited_fds) THEN deposited_fds ELSE NULL
AbstractAsker ==
  IF producer_waiting_fds /\ peer[ctrl_fd[producer]] = "open" THEN ctrl_fd[producer] ELSE NULL

R == INSTANCE Rendezvous WITH
       Offers <- FdSet, Producers <- ProducerConn,
       offer <- AbstractOffer, asker <- AbstractAsker

\* The daemon implements the rendezvous, and so inherits what it promises.
ImplementsRendezvous == R!Spec
EveryOfferOnce == R!NobodyWaits /\ R!HandedOnce
=============================================================================
