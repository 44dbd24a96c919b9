------------------------------ MODULE RofConnRx ------------------------------
(***************************************************************************)
(* The receive path of a connection: the rx thread of crofsock reads       *)
(* messages from the socket and stores them in the rxqueues of crofconn    *)
(* (recv_message(), handle_recv()), crofconn's own thread hands them to    *)
(* the application (handle_rx_messages()), and the two control each other: *)
(* a full queue disables reception, the end of a round enables it again.   *)
(*                                                                         *)
(* The flags rx_disabled and rx_thread_working are atomics, the queues and *)
(* the registration of the read event have locks of their own, and nothing *)
(* spans two of them, so each access is a step.  sd is registered edge     *)
(* triggered (EPOLLET): see edge.  What the handshake decides is taken     *)
(* from RofConn: HELLO and FEATURES_REPLY move the state on, echo messages *)
(* are answered on the spot and never reach a queue.  The reassembly of    *)
(* multipart messages is left out.                                         *)
(***************************************************************************)
EXTENDS Integers, Sequences, FiniteSets

CONSTANTS
    Msgs,          \* message contents
    Scenarios,     \* the situations a behaviour may be about: see Scenario
    QueueMaxSize,  \* rxqueue_max_size (128 in the code)
    WireBound      \* BOUND: messages in the kernel's receive buffer

QUEUE_OAM == 0
QUEUE_MGMT == 1
QUEUE_FLOW == 2
QUEUE_PKT == 3
QUEUE_MAX == 4
QueueIds == {QUEUE_OAM, QUEUE_MGMT, QUEUE_FLOW, QUEUE_PKT}

\* msgs and classes: what the peer sends, and the rx queues it belongs to;
\* weight: rxweights, messages taken from a queue before the next one is served;
\* sessions: BOUND, how often the connection is opened;
\* controller: HELLO is followed by the exchange of features;
\* closes: the peer and the application may close;
\* throws: handling a message may throw a runtime_error.
Scenario == [msgs : SUBSET Msgs, classes : SUBSET QueueIds, weight : Nat \ {0},
             sessions : Nat \ {0}, controller : BOOLEAN, closes : BOOLEAN, throws : BOOLEAN]
ASSUME ScenariosAssumption == \A c \in Scenarios : c \in Scenario
ASSUME SizesAssumption == QueueMaxSize \in Nat \ {0} /\ WireBound \in Nat

HELLO == [type |-> "HELLO"]
FEATURES_REPLY == [type |-> "FEATURES_REPLY"]
EOF == [type |-> "EOF"]   \* the peer's shutdown

VARIABLES
    scenario,            \* which situation this behaviour is about; it never changes
    state,               \* state of crofconn
    sock,                \* state of crofsock
    session,             \* BOUND: number of the current session
    wire,                \* what the peer has sent and recv() has not returned
    greeted, featured,   \* the peer has sent HELLO, FEATURES_REPLY
    readfd,              \* EPOLLIN is registered for sd in the rx thread
    edge,                \* epoll holds a read event for the rx thread
    rx_disabled,
    rxwake, hndwake,     \* wakeups pending for the rx thread, crofconn's thread
    rxqueues,
    rx_thread_working, rx_thread_scheduled,
    rxpc, rxmsg,         \* the rx thread's position and the message in its hand
    hndpc, queue_id, num, keep_running  \* handle_rx_messages(): its loops

connvars == <<scenario, state, sock, session>>
peervars == <<wire, greeted, featured>>
fdvars == <<readfd, edge>>
wakevars == <<rxwake, hndwake>>
rxvars == <<rxpc, rxmsg>>
workvars == <<rx_thread_working, rx_thread_scheduled>>
hndvars == <<hndpc, queue_id, num, keep_running>>
vars == <<scenario, state, sock, session, wire, greeted, featured, readfd, edge,
          rx_disabled, rxwake, hndwake, rxqueues, rx_thread_working,
          rx_thread_scheduled, rxpc, rxmsg, hndpc, queue_id, num, keep_running>>

Message == [class : QueueIds, msg : Msgs]
Nothing == [class |-> QUEUE_MAX]

Init ==
    /\ scenario \in Scenarios
    /\ state = "NEGOTIATING" /\ sock = "ESTABLISHED" /\ session = 1
    /\ wire = <<>> /\ greeted = FALSE /\ featured = FALSE
    /\ readfd = TRUE /\ edge = FALSE
    /\ rx_disabled = FALSE
    /\ rxwake = FALSE /\ hndwake = FALSE
    /\ rxqueues = [q \in QueueIds |-> <<>>]
    /\ rx_thread_working = FALSE /\ rx_thread_scheduled = FALSE
    /\ rxpc = "epoll" /\ rxmsg = Nothing
    /\ hndpc = "epoll" /\ queue_id = QUEUE_OAM /\ num = 0 /\ keep_running = 1

-----------------------------------------------------------------------------
(* The peer *)

PeerSends(m) ==
    /\ sock = "ESTABLISHED"
    /\ Len(wire) < WireBound
    /\ EOF \notin {wire[i] : i \in DOMAIN wire}
    /\ wire' = Append(wire, m)
    /\ edge' = (edge \/ readfd)
    /\ UNCHANGED <<connvars, readfd, rx_disabled, wakevars, rxqueues, workvars,
                   rxvars, hndvars>>

PeerHello == ~greeted /\ greeted' = TRUE /\ PeerSends(HELLO) /\ UNCHANGED featured

PeerFeatures ==
    /\ state = "NEGOTIATING2" /\ ~featured
    /\ featured' = TRUE
    /\ PeerSends(FEATURES_REPLY)
    /\ UNCHANGED greeted

\* An ordinary message; no peer sends one before its HELLO.
PeerMessage ==
    /\ greeted
    /\ \E m \in [class : scenario.classes, msg : scenario.msgs] : PeerSends(m)
    /\ UNCHANGED <<greeted, featured>>

PeerClose == scenario.closes /\ PeerSends(EOF) /\ UNCHANGED <<greeted, featured>>

-----------------------------------------------------------------------------
(* crofsock::close() and the next session *)

\* close() holds tlock: drops the events of sd, closes it, resets rx_disabled.
SockClose ==
    /\ sock' = "IDLE"
    /\ wire' = <<>>
    /\ readfd' = FALSE /\ edge' = FALSE
    /\ rx_disabled' = FALSE

\* crofconn::close(): STATE_CLOSING, crofsock::close(), STATE_DISCONNECTED.
AppClose ==
    /\ scenario.closes
    /\ state # "DISCONNECTED"
    /\ SockClose
    /\ state' = "DISCONNECTED"
    /\ UNCHANGED <<scenario, session, greeted, featured, wakevars, rxqueues, workvars,
                   rxvars, hndvars>>

\* tcp_connect() or tcp_accept() again: STATE_NEGOTIATING on a new sd.  The
\* rxqueues keep their entries (the code clears a copy of each), and
\* rx_disabled its value.
AppOpen ==
    /\ state = "DISCONNECTED" /\ sock = "IDLE"
    /\ session < scenario.sessions
    /\ session' = session + 1
    /\ state' = "NEGOTIATING" /\ sock' = "ESTABLISHED"
    /\ greeted' = FALSE /\ featured' = FALSE
    /\ readfd' = TRUE /\ edge' = FALSE
    /\ UNCHANGED <<scenario, wire, rx_disabled, wakevars, rxqueues, workvars, rxvars,
                   hndvars>>

-----------------------------------------------------------------------------
(* The rx thread: crofsock::recv_message() and crofconn::handle_recv() *)

RxUnchanged == UNCHANGED <<scenario, greeted, featured, session, workvars, hndvars>>

RxReadEvent ==
    /\ rxpc = "epoll"
    /\ edge /\ readfd
    /\ edge' = FALSE
    /\ rxpc' = "loop"
    /\ UNCHANGED <<state, sock, wire, readfd, rx_disabled, wakevars, rxqueues, rxmsg>>
    /\ RxUnchanged

RxWakeup ==
    /\ rxpc = "epoll"
    /\ rxwake
    /\ rxwake' = FALSE
    /\ rxpc' = IF sock = "ESTABLISHED" THEN "loop" ELSE "epoll"
    /\ UNCHANGED <<state, sock, wire, fdvars, rx_disabled, hndwake, rxqueues, rxmsg>>
    /\ RxUnchanged

\* The loop ends: reception disabled, socket gone, or EAGAIN.
RxReturn ==
    /\ rxpc = "loop"
    /\ rx_disabled \/ sock = "IDLE" \/ wire = <<>>
    /\ rxpc' = "epoll"
    /\ UNCHANGED <<state, sock, wire, fdvars, rx_disabled, wakevars, rxqueues, rxmsg>>
    /\ RxUnchanged

Reading ==
    /\ rxpc = "loop"
    /\ ~rx_disabled /\ sock = "ESTABLISHED" /\ wire # <<>>

\* HELLO and, for a controller, FEATURES_REPLY: see RofConn.
RxHandshake ==
    /\ Reading
    /\ Head(wire) \in {HELLO, FEATURES_REPLY}
    /\ wire' = Tail(wire)
    /\ state' = CASE Head(wire) = HELLO /\ state = "NEGOTIATING" ->
                        IF scenario.controller THEN "NEGOTIATING2" ELSE "ESTABLISHED"
                  [] Head(wire) = FEATURES_REPLY /\ state = "NEGOTIATING2" ->
                        "ESTABLISHED"
                  [] OTHER -> state
    /\ UNCHANGED <<sock, fdvars, rx_disabled, wakevars, rxqueues, rxvars>>
    /\ RxUnchanged

\* Any other message: dropped at once unless the handshake has got far enough.
RxMessage ==
    /\ Reading
    /\ Head(wire) \in Message
    /\ wire' = Tail(wire)
    /\ IF state \in {"NEGOTIATING2", "ESTABLISHED"}
         THEN rxpc' = "store" /\ rxmsg' = Head(wire)
         ELSE UNCHANGED rxvars
    /\ UNCHANGED <<state, sock, fdvars, rx_disabled, wakevars, rxqueues>>
    /\ RxUnchanged

\* VARIANT: stored without enforcement, a full queue drops the message.
RxStoreUnenforced ==
    /\ rxpc = "store"
    /\ IF Len(rxqueues[rxmsg.class]) < QueueMaxSize
         THEN rxqueues' = [rxqueues EXCEPT ![rxmsg.class] = Append(@, rxmsg.msg)]
         ELSE UNCHANGED rxqueues
    /\ rxpc' = "capacity"
    /\ UNCHANGED <<rxmsg, state, sock, wire, fdvars, rx_disabled, wakevars>>
    /\ RxUnchanged

\* The message is stored even in a full queue.  A disconnect in the meantime
\* has reset ofp_version: then it is deleted.
RxStore ==
    /\ rxpc = "store"
    /\ IF state \in {"NEGOTIATING2", "ESTABLISHED"}
         THEN /\ rxqueues' = [rxqueues EXCEPT ![rxmsg.class] = Append(@, rxmsg.msg)]
              /\ rxpc' = "capacity"
              /\ UNCHANGED rxmsg
         ELSE /\ rxpc' = "loop" /\ rxmsg' = Nothing
              /\ UNCHANGED rxqueues
    /\ UNCHANGED <<state, sock, wire, fdvars, rx_disabled, wakevars>>
    /\ RxUnchanged

\* crofqueue::capacity()
capacity(q) ==
    IF Len(rxqueues[q]) < QueueMaxSize THEN QueueMaxSize - Len(rxqueues[q]) ELSE 0

RxCapacity ==
    /\ rxpc = "capacity"
    /\ rxpc' = IF capacity(rxmsg.class) = 0 THEN "disable" ELSE "wake"
    /\ rxmsg' = Nothing
    /\ UNCHANGED <<state, sock, wire, fdvars, rx_disabled, wakevars, rxqueues>>
    /\ RxUnchanged

\* VARIANT: only the read event is dropped, the loop of recv_message() goes on.
RxDisableEventOnly ==
    /\ rxpc = "disable"
    /\ rxpc' = "dropfd"
    /\ UNCHANGED <<rx_disabled, state, sock, wire, fdvars, wakevars, rxqueues, rxmsg>>
    /\ RxUnchanged

\* rx_disable(): first the flag, then the read event.
RxDisable ==
    /\ rxpc = "disable"
    /\ rx_disabled' = TRUE
    /\ rxpc' = "dropfd"
    /\ UNCHANGED <<state, sock, wire, fdvars, wakevars, rxqueues, rxmsg>>
    /\ RxUnchanged

RxDropReadFd ==
    /\ rxpc = "dropfd"
    /\ IF sock = "ESTABLISHED"
         THEN readfd' = FALSE /\ edge' = FALSE
         ELSE UNCHANGED fdvars
    /\ rxpc' = "wake"
    /\ UNCHANGED <<state, sock, wire, rx_disabled, wakevars, rxqueues, rxmsg>>
    /\ RxUnchanged

\* "wakeup working thread in state ESTABLISHED; otherwise keep sleeping"
RxWake ==
    /\ rxpc = "wake"
    /\ hndwake' = (hndwake \/ (state = "ESTABLISHED" /\ ~rx_thread_working))
    /\ rxpc' = "loop"
    /\ UNCHANGED <<state, sock, wire, fdvars, rx_disabled, rxwake, rxqueues, rxmsg>>
    /\ RxUnchanged

\* recv() returns 0: crofsock::close(), then crofconn::handle_closed().
RxPeerShutdown ==
    /\ Reading
    /\ Head(wire) = EOF
    /\ SockClose
    /\ rxpc' = "closed"
    /\ UNCHANGED <<state, wakevars, rxqueues, rxmsg>>
    /\ RxUnchanged

\* handle_closed() lets crofconn's thread finish its round.
RxClosed ==
    /\ rxpc = "closed"
    /\ ~rx_thread_scheduled /\ ~rx_thread_working
    /\ state' = "DISCONNECTED"
    /\ rxpc' = "epoll"
    /\ UNCHANGED <<sock, wire, fdvars, rx_disabled, wakevars, rxqueues, rxmsg>>
    /\ RxUnchanged

\* ... but does not wait for more than 60 seconds.
RxClosedLate ==
    /\ rxpc = "closed"
    /\ rx_thread_scheduled \/ rx_thread_working
    /\ state' = "DISCONNECTED"
    /\ rxpc' = "epoll"
    /\ UNCHANGED <<sock, wire, fdvars, rx_disabled, wakevars, rxqueues, rxmsg>>
    /\ RxUnchanged

-----------------------------------------------------------------------------
(* crofconn's thread: handle_rx_messages() *)

HndUnchanged == UNCHANGED <<connvars, peervars, rxvars>>

HndWakeup ==
    /\ hndpc = "epoll"
    /\ hndwake
    /\ hndwake' = FALSE
    /\ rx_thread_working' = TRUE /\ rx_thread_scheduled' = FALSE
    /\ keep_running' = 1 /\ queue_id' = QUEUE_OAM /\ num' = 0
    /\ hndpc' = "scan"
    /\ UNCHANGED <<fdvars, rx_disabled, rxwake, rxqueues>>
    /\ HndUnchanged

\* The connection has left STATE_ESTABLISHED: the round is given up.
HndStop ==
    /\ hndpc \in {"scan", "take", "again"}
    /\ state # "ESTABLISHED"
    /\ rx_thread_working' = FALSE
    /\ rx_thread_scheduled' = (rx_thread_scheduled \/ hndpc = "again")
    /\ hndpc' = "epoll" /\ queue_id' = QUEUE_OAM /\ num' = 0 /\ keep_running' = 1
    /\ UNCHANGED <<fdvars, rx_disabled, wakevars, rxqueues>>
    /\ HndUnchanged

\* The loop over the queues goes on, or is through.
NextQueue ==
    /\ num' = 0
    /\ IF queue_id + 1 < QUEUE_MAX
         THEN queue_id' = queue_id + 1 /\ hndpc' = "scan"
         ELSE queue_id' = QUEUE_OAM /\ hndpc' = "again"

HndScan ==
    /\ hndpc = "scan"
    /\ state = "ESTABLISHED"
    /\ IF rxqueues[queue_id] = <<>>
         THEN NextQueue
         ELSE hndpc' = "take" /\ UNCHANGED <<queue_id, num>>
    /\ UNCHANGED <<keep_running, fdvars, rx_disabled, wakevars, rxqueues, workvars>>
    /\ HndUnchanged

\* One message is retrieved and handed to the application.
HndTake ==
    /\ hndpc = "take"
    /\ state = "ESTABLISHED"
    /\ rxqueues[queue_id] # <<>>
    /\ rxqueues' = [rxqueues EXCEPT ![queue_id] = Tail(@)]
    /\ IF num + 1 < scenario.weight
         THEN num' = num + 1 /\ UNCHANGED hndpc
         ELSE num' = 0 /\ hndpc' = "reschedule"
    /\ UNCHANGED <<queue_id, keep_running, fdvars, rx_disabled, wakevars, workvars>>
    /\ HndUnchanged

\* The handler throws: the rest of this pass is skipped.
HndThrow ==
    /\ scenario.throws
    /\ hndpc = "take"
    /\ state = "ESTABLISHED"
    /\ rxqueues[queue_id] # <<>>
    /\ rxqueues' = [rxqueues EXCEPT ![queue_id] = Tail(@)]
    /\ num' = 0 /\ queue_id' = QUEUE_OAM
    /\ IF keep_running = 0
         THEN hndpc' = "done" /\ UNCHANGED keep_running
         ELSE hndpc' = "scan" /\ keep_running' = keep_running - 1
    /\ UNCHANGED <<fdvars, rx_disabled, wakevars, workvars>>
    /\ HndUnchanged

HndQueueEmpty ==
    /\ hndpc = "take"
    /\ state = "ESTABLISHED"
    /\ rxqueues[queue_id] = <<>>
    /\ hndpc' = "reschedule" /\ num' = 0
    /\ UNCHANGED <<queue_id, keep_running, fdvars, rx_disabled, wakevars, rxqueues,
                   workvars>>
    /\ HndUnchanged

\* VARIANT: after a queue has been served the pass starts over.
HndRescheduleStrict ==
    /\ hndpc = "reschedule"
    /\ hndwake' = (hndwake \/ rxqueues[queue_id] # <<>>)
    /\ num' = 0 /\ queue_id' = QUEUE_OAM /\ hndpc' = "again"
    /\ UNCHANGED <<keep_running, fdvars, rx_disabled, rxwake, rxqueues, workvars>>
    /\ HndUnchanged

\* A queue with messages left asks for another round.
HndReschedule ==
    /\ hndpc = "reschedule"
    /\ hndwake' = (hndwake \/ rxqueues[queue_id] # <<>>)
    /\ NextQueue
    /\ UNCHANGED <<keep_running, fdvars, rx_disabled, rxwake, rxqueues, workvars>>
    /\ HndUnchanged

\* while (keep_running--): there are two passes over the queues.
HndAgain ==
    /\ hndpc = "again"
    /\ state = "ESTABLISHED"
    /\ IF keep_running = 0
         THEN hndpc' = "done" /\ UNCHANGED keep_running
         ELSE hndpc' = "scan" /\ keep_running' = keep_running - 1
    /\ UNCHANGED <<queue_id, num, fdvars, rx_disabled, wakevars, rxqueues, workvars>>
    /\ HndUnchanged

HndDone ==
    /\ hndpc = "done"
    /\ rx_thread_working' = FALSE
    /\ hndpc' = "disabled"
    /\ UNCHANGED <<queue_id, num, keep_running, rx_thread_scheduled, fdvars,
                   rx_disabled, wakevars, rxqueues>>
    /\ HndUnchanged

\* VARIANT: reception is enabled again only if the queue served last is empty.
HndTestDisabledLastQueue ==
    /\ hndpc = "disabled"
    /\ hndpc' = IF rx_disabled /\ rxqueues[QUEUE_PKT] = <<>> THEN "enable" ELSE "epoll"
    /\ keep_running' = 1
    /\ UNCHANGED <<queue_id, num, fdvars, rx_disabled, wakevars, rxqueues, workvars>>
    /\ HndUnchanged

HndTestDisabled ==
    /\ hndpc = "disabled"
    /\ hndpc' = IF rx_disabled THEN "enable" ELSE "epoll"
    /\ keep_running' = 1
    /\ UNCHANGED <<queue_id, num, fdvars, rx_disabled, wakevars, rxqueues, workvars>>
    /\ HndUnchanged

\* rx_enable(): the flag, the read event (EPOLL_CTL_MOD polls sd), the wakeup.
HndEnable ==
    /\ hndpc = "enable"
    /\ rx_disabled' = FALSE
    /\ hndpc' = IF sock = "ESTABLISHED" THEN "addfd" ELSE "epoll"
    /\ UNCHANGED <<queue_id, num, keep_running, fdvars, wakevars, rxqueues, workvars>>
    /\ HndUnchanged

HndAddReadFd ==
    /\ hndpc = "addfd"
    /\ IF sock = "ESTABLISHED"
         THEN readfd' = TRUE /\ edge' = (edge \/ wire # <<>>)
         ELSE UNCHANGED fdvars
    /\ hndpc' = "wakerx"
    /\ UNCHANGED <<queue_id, num, keep_running, rx_disabled, wakevars, rxqueues,
                   workvars>>
    /\ HndUnchanged

HndWakeRx ==
    /\ hndpc = "wakerx"
    /\ rxwake' = TRUE
    /\ hndpc' = "epoll"
    /\ UNCHANGED <<queue_id, num, keep_running, fdvars, rx_disabled, hndwake, rxqueues,
                   workvars>>
    /\ HndUnchanged

-----------------------------------------------------------------------------

Peer == PeerHello \/ PeerFeatures \/ PeerMessage \/ PeerClose
App == AppClose \/ AppOpen
Rx == \/ RxReadEvent \/ RxWakeup \/ RxReturn \/ RxHandshake \/ RxMessage
      \/ RxStore \/ RxCapacity \/ RxDisable \/ RxDropReadFd \/ RxWake
      \/ RxPeerShutdown \/ RxClosed \/ RxClosedLate
Hnd == \/ HndWakeup \/ HndStop \/ HndScan \/ HndTake \/ HndThrow \/ HndQueueEmpty
       \/ HndReschedule \/ HndAgain \/ HndDone \/ HndTestDisabled \/ HndEnable
       \/ HndAddReadFd \/ HndWakeRx

Next == Peer \/ App \/ Rx \/ Hnd

Spec == Init /\ [][Next]_vars

\* The kernel schedules both threads; the peer and the application are free.
FairSpec == Spec /\ WF_vars(Rx) /\ WF_vars(Hnd)

-----------------------------------------------------------------------------
(* Properties *)

TypeOK ==
    /\ scenario \in Scenarios
    /\ state \in {"NEGOTIATING", "NEGOTIATING2", "ESTABLISHED", "DISCONNECTED"}
    /\ sock \in {"ESTABLISHED", "IDLE"}
    /\ session \in 1..scenario.sessions
    /\ wire \in Seq(Message \union {HELLO, FEATURES_REPLY, EOF})
    /\ {greeted, featured, readfd, edge, rx_disabled, rxwake, hndwake,
        rx_thread_working, rx_thread_scheduled} \subseteq BOOLEAN
    /\ rxqueues \in [QueueIds -> Seq(Msgs)]
    /\ rxpc \in {"epoll", "loop", "store", "capacity", "disable", "dropfd",
                 "wake", "closed"}
    /\ rxmsg \in Message \union {Nothing}
    /\ hndpc \in {"epoll", "scan", "take", "reschedule", "again", "done",
                  "disabled", "enable", "addfd", "wakerx"}
    /\ queue_id \in QueueIds /\ num \in Nat /\ keep_running \in 0..1

\* Both threads are asleep and nothing in the program will wake them.
Asleep == rxpc = "epoll" /\ hndpc = "epoll" /\ ~rxwake /\ ~hndwake

\* Back pressure works: a queue outgrows its maximum by one message at most,
\* however the rx thread's rx_disable() and the other thread's rx_enable()
\* interleave (handle_recv() stores with enforce = true).  The entries of
\* earlier sessions are not removed, so each session may add one.
QueueBounded == \A q \in QueueIds : Len(rxqueues[q]) <= QueueMaxSize + session

\* handle_recv() and handle_rx_messages() keep the queues and their own
\* positions in them sound, and the queues bounded.
QueuesSound == TypeOK /\ QueueBounded

\* Back pressure ends: reception is never disabled with both threads asleep,
\* which would stop the connection for ever ("Once, the application starts
\* reading message from the rxqueues, we reenable the socket").  It may be when
\* a session follows another one: see the README.
Undisturbed == ~scenario.closes /\ ~scenario.throws
StandstillFree ==
    sock = "ESTABLISHED" /\ state # "DISCONNECTED" /\ Asleep => ~rx_disabled
NoStandstill == Undisturbed => StandstillFree

\* The read event agrees with rx_disabled once both threads are asleep:
\* otherwise the peer's messages raise no event any more.
Listening == sock = "ESTABLISHED" /\ Asleep /\ ~rx_disabled => readfd

\* No message waits in a queue of an established connection while both
\* threads sleep ("wakeup working thread in state ESTABLISHED").
NoLostWakeup ==
    state = "ESTABLISHED" /\ sock = "ESTABLISHED" /\ Asleep
        => \A q \in QueueIds : rxqueues[q] = <<>>

\* handle_closed(): "work on packets in reception queue first, then signal
\* shutdown"; the 60 seconds may pass (RxClosedLate), which is not meant.
DrainedFirst ==
    [][RxClosed /\ state = "ESTABLISHED"
         => \A q \in QueueIds : rxqueues[q] = <<>>]_vars

\* A message that waits is served as long as messages keep being stored, also
\* one that a lost wakeup has left behind, and whatever its class.
Served(q) ==
    \/ state # "ESTABLISHED"
    \/ rxqueues[q] = <<>>
    \/ hndpc = "take" /\ queue_id = q
EventuallyServed ==
    Undisturbed /\ ([]<><<RxStore>>_vars) => \A q \in QueueIds : rxqueues[q] # <<>> ~> Served(q)

\* Within one session a message that is stored is neither dropped behind others
\* nor duplicated nor overtaken on its way from the peer to the application,
\* per class and with reception on and off: the receive path implements
\* MsgChannel.  (A message that arrives before the handshake has got far enough
\* is dropped at the front, a delivery to nobody.)
InHand(q) == IF rxpc = "store" /\ rxmsg.class = q THEN <<rxmsg.msg>> ELSE <<>>
Ascending(P) ==
    {f \in [1..Cardinality(P) -> P] : \A i, j \in DOMAIN f : i < j => f[i] < f[j]}
Own(q) == {i \in DOMAIN wire : wire[i] \in Message /\ wire[i].class = q}
OnWire(q) ==
    LET place == CHOOSE f \in Ascending(Own(q)) : TRUE
    IN  [k \in 1..Cardinality(Own(q)) |-> wire[place[k]].msg]
Channel == INSTANCE MsgChannel WITH
    Channels <- QueueIds,
    chan <- [q \in QueueIds |-> IF scenario.closes THEN <<>> ELSE rxqueues[q] \o InHand(q) \o OnWire(q)]
FifoPerClass == Channel!Spec
=============================================================================
