------------------------------- MODULE RofConn -------------------------------
(***************************************************************************)
(* One OpenFlow control connection (crofconn): the handshake, its timers   *)
(* and the supervision of the established connection.                      *)
(*                                                                         *)
(* Three threads run its code: "app" calls tcp_connect(), tcp_accept() and *)
(* close(), and begins the handshake itself if it accepts, or if connect() *)
(* succeeds at once; "rx" is crofsock's receive thread, which completes a  *)
(* pending connect, delivers the peer's messages to handle_recv() and      *)
(* reports the end of the transport connection; "hnd" runs the timers and  *)
(* handle_rx_messages().                                                   *)
(* run_finite_state_machine() tests the state before it takes tlock, and   *)
(* calls the environment after releasing it.                               *)
(***************************************************************************)
EXTENDS Naturals, FiniteSets

CONSTANTS
    Versions,       \* OpenFlow versions, as numbers of the wire protocol
    versionbitmap,  \* the versions this side announces
    mode,           \* "CONTROLLER" or "DATAPATH"
    Openings,       \* how the application may open it: TRUE: tcp_accept(), FALSE: tcp_connect(reconnect = true)
    Hellos,         \* HELLO messages the peer may send
    MaxSessions     \* BOUND: transport connections

OFP_VERSION_UNKNOWN == 0
OFP10_VERSION == 1
OFP12_VERSION == 3
OFP13_VERSION == 4

\* A version is an octet of the header.
ASSUME VersionsAssumption ==
    /\ Versions \subseteq 1 .. 255
    /\ versionbitmap \subseteq Versions /\ versionbitmap # {}
ASSUME ModeAssumption ==
    mode \in {"CONTROLLER", "DATAPATH"} /\ Openings \subseteq BOOLEAN
\* A HELLO has a version in its header and at most one version bitmap.
ASSUME HelloAssumption ==
    Hellos \subseteq [version : Versions, bitmaps : SUBSET SUBSET Versions]
ASSUME SessionsAssumption == MaxSessions \in Nat

VARIABLES
    sock,         \* state of the underlying crofsock
    reconnect,    \* TIMER_ID_RECONNECT of crofsock is running
    sessions,     \* transport connections so far (bound)
    passive,      \* mode of the crofsock: opened by tcp_accept()
    early,        \* the app thread has begun the handshake, or still may (history)
    state,        \* state of the finite state machine
    ofp_version,
    flag_hello_sent, flag_hello_rcvd,
    timers,       \* timers of this connection in the hnd thread
    wakeup,       \* the hnd thread has been woken for this connection
    tlock,        \* the thread that holds tlock, or "none"
    pc,           \* where each thread is
    goal,         \* argument of a thread's run_finite_state_machine()
    next,         \* where it continues when that call returns
    hello,        \* the HELLO in the hands of hello_rcvd()
    told,         \* the last thing the environment has been told
    dpid,         \* a FEATURES.reply has arrived in this session (history)
    lonely        \* an error that is none of HELLO's stopped the HELLO timer

vars == <<sock, reconnect, sessions, passive, early, state, ofp_version, flag_hello_sent,
          flag_hello_rcvd, timers, wakeup, tlock, pc, goal, next, hello, told,
          dpid, lonely>>
sockvars == <<sock, reconnect, sessions, passive, early>>
negvars == <<ofp_version, flag_hello_sent, flag_hello_rcvd>>
history == <<told, dpid, lonely>>

Threads == {"app", "rx", "hnd"}
WAIT_FOR_HELLO == "hello"
WAIT_FOR_FEATURES == "features"
WAIT_FOR_ECHO == "echo"
NEED_LIFE_CHECK == "lifecheck"
Timers == {WAIT_FOR_HELLO, WAIT_FOR_FEATURES, WAIT_FOR_ECHO, NEED_LIFE_CHECK}
NoHello == [version |-> OFP_VERSION_UNKNOWN]

States == {"DISCONNECTED", "CONNECT_PENDING", "ACCEPT_PENDING", "NEGOTIATING",
           "NEGOTIATING2", "ESTABLISHED"}
Goals == States \union {"NEGOTIATION_FAILED", "CLOSING", "CONNECT_REFUSED",
                        "CONNECT_FAILED"}

Init ==
    /\ sock = "IDLE" /\ reconnect = FALSE /\ sessions = 0 /\ passive = FALSE /\ early = FALSE
    /\ state = "DISCONNECTED"
    /\ ofp_version = OFP_VERSION_UNKNOWN
    /\ flag_hello_sent = FALSE /\ flag_hello_rcvd = FALSE
    /\ timers = {} /\ wakeup = FALSE
    /\ tlock = "none"
    /\ pc = [t \in Threads |-> IF t = "app" THEN "start" ELSE "idle"]
    /\ goal = [t \in Threads |-> "DISCONNECTED"]
    /\ next = [t \in Threads |-> "idle"]
    /\ hello = NoHello
    /\ told = "down" /\ dpid = FALSE /\ lonely = FALSE

-----------------------------------------------------------------------------
(* Control flow of a thread *)

At(t, where) == pc[t] = where
Goto(t, where) == /\ pc' = [pc EXCEPT ![t] = where]
                  /\ UNCHANGED <<goal, next>>

\* Call run_finite_state_machine(new), then go on at ret.
CallFsm(t, new, ret) ==
    /\ pc' = [pc EXCEPT ![t] = "fsm"]
    /\ goal' = [goal EXCEPT ![t] = new]
    /\ next' = [next EXCEPT ![t] = ret]

\* Forget the call: the thread is at its continuation.
Returned(t) ==
    /\ pc' = [pc EXCEPT ![t] = next[t]]
    /\ goal' = [goal EXCEPT ![t] = "DISCONNECTED"]
    /\ next' = [next EXCEPT ![t] = "idle"]

-----------------------------------------------------------------------------
(* run_finite_state_machine() *)

\* The test before the lock is taken.
FsmTest(t) ==
    /\ At(t, "fsm")
    /\ IF state = goal[t] THEN Returned(t) ELSE Goto(t, "fsm_body")
    /\ UNCHANGED <<sockvars, state, negvars, timers, wakeup, tlock, hello,
                   history>>

\* STATE_NEGOTIATION_FAILED and STATE_CLOSING close the socket and fall
\* through to STATE_DISCONNECTED.
FsmDisconnect(t) ==
    /\ At(t, "fsm_body") /\ tlock = "none"
    /\ goal[t] \in {"NEGOTIATION_FAILED", "CLOSING", "DISCONNECTED"}
    /\ sock' = IF goal[t] = "DISCONNECTED" THEN sock ELSE "IDLE"
    /\ state' = "DISCONNECTED"
    /\ timers' = {}
    /\ ofp_version' = OFP_VERSION_UNKNOWN
    /\ flag_hello_sent' = FALSE
    /\ flag_hello_rcvd' = FALSE
    /\ dpid' = FALSE
    /\ early' = (early /\ goal["app"] = "NEGOTIATING")
    /\ Goto(t, "callback")
    /\ UNCHANGED <<reconnect, sessions, passive, wakeup, tlock, hello, told, lonely>>

FsmPending(t) ==
    /\ At(t, "fsm_body") /\ tlock = "none"
    /\ goal[t] \in {"CONNECT_PENDING", "ACCEPT_PENDING"}
    /\ state' = goal[t]
    /\ ofp_version' = OFP_VERSION_UNKNOWN
    /\ Returned(t)
    /\ UNCHANGED <<sockvars, flag_hello_sent, flag_hello_rcvd, timers, wakeup,
                   tlock, hello, history>>

FsmFailed(t) ==
    /\ At(t, "fsm_body") /\ tlock = "none"
    /\ goal[t] \in {"CONNECT_REFUSED", "CONNECT_FAILED"}
    /\ state' = "DISCONNECTED"
    /\ Goto(t, "callback")
    /\ UNCHANGED <<sockvars, negvars, timers, wakeup, tlock, hello, history>>

\* STATE_NEGOTIATING: the flags are read without a lock that protects them.
FsmNegotiating(t) ==
    /\ At(t, "fsm_body") /\ tlock = "none"
    /\ goal[t] = "NEGOTIATING"
    /\ tlock' = t
    /\ state' = "NEGOTIATING"
    /\ lonely' = FALSE
    /\ Goto(t, IF flag_hello_rcvd THEN "neg_hello" ELSE "neg_timer")
    /\ UNCHANGED <<sockvars, negvars, timers, wakeup, hello, told, dpid>>

\* Variant of FsmNegotiatingTimer that forgets the timer.
FsmNegotiatingUntimed(t) ==
    /\ At(t, "neg_timer")
    /\ Goto(t, "neg_hello")
    /\ UNCHANGED <<sockvars, state, negvars, timers, wakeup, tlock, hello,
                   history>>

FsmNegotiatingTimer(t) ==
    /\ At(t, "neg_timer")
    /\ timers' = timers \union {WAIT_FOR_HELLO}
    /\ Goto(t, "neg_hello")
    /\ UNCHANGED <<sockvars, state, negvars, wakeup, tlock, hello, history>>

\* Variant of FsmNegotiatingHello that returns without releasing tlock.
FsmNegotiatingLocked(t) ==
    /\ At(t, "neg_hello")
    /\ flag_hello_sent' = TRUE
    /\ Returned(t)
    /\ UNCHANGED <<sockvars, state, ofp_version, flag_hello_rcvd, timers,
                   wakeup, tlock, hello, history>>

\* send_hello_message(), under hello_lock, unless a HELLO has been sent.
FsmNegotiatingHello(t) ==
    /\ At(t, "neg_hello")
    /\ flag_hello_sent' = TRUE
    /\ tlock' = "none"
    /\ Returned(t)
    /\ UNCHANGED <<sockvars, state, ofp_version, flag_hello_rcvd, timers,
                   wakeup, hello, history>>

\* STATE_NEGOTIATING2: ask for the features.
FsmNegotiating2(t) ==
    /\ At(t, "fsm_body") /\ tlock = "none"
    /\ goal[t] = "NEGOTIATING2"
    /\ state' = "NEGOTIATING2"
    /\ timers' = (timers \ {WAIT_FOR_HELLO}) \union {WAIT_FOR_FEATURES}
    /\ Returned(t)
    /\ UNCHANGED <<sockvars, negvars, wakeup, tlock, hello, history>>

\* Variant of FsmEstablished that forgets to start the periodic checks.
FsmEstablishedUnchecked(t) ==
    /\ At(t, "fsm_body") /\ tlock = "none"
    /\ goal[t] = "ESTABLISHED"
    /\ state' = "ESTABLISHED"
    /\ timers' = timers \ {WAIT_FOR_HELLO}
    /\ Goto(t, "callback")
    /\ UNCHANGED <<sockvars, negvars, wakeup, tlock, hello, history>>

FsmEstablished(t) ==
    /\ At(t, "fsm_body") /\ tlock = "none"
    /\ goal[t] = "ESTABLISHED"
    /\ state' = "ESTABLISHED"
    /\ timers' = (timers \ {WAIT_FOR_HELLO}) \union {NEED_LIFE_CHECK}
    /\ Goto(t, "callback")
    /\ UNCHANGED <<sockvars, negvars, wakeup, tlock, hello, history>>

\* The environment is called after tlock has been released.
FsmCallback(t) ==
    /\ At(t, "callback")
    /\ told' = IF goal[t] = "ESTABLISHED" THEN "up" ELSE "down"
    /\ Returned(t)
    /\ UNCHANGED <<sockvars, state, negvars, timers, wakeup, tlock, hello, dpid,
                   lonely>>

Fsm(t) ==
    \/ FsmTest(t) \/ FsmDisconnect(t) \/ FsmPending(t) \/ FsmFailed(t)
    \/ FsmNegotiating(t) \/ FsmNegotiatingTimer(t) \/ FsmNegotiatingHello(t)
    \/ FsmNegotiating2(t) \/ FsmEstablished(t) \/ FsmCallback(t)

-----------------------------------------------------------------------------
(* crofsock::tcp_connect(), in the thread t that calls it *)

\* The socket is closed, the connection is told, and only then the reconnect
\* timer is set; a TLS handshake that fails sets none.
Refused(t) ==
    /\ sock' = "IDLE"
    /\ \/ \E g \in {"CONNECT_REFUSED", "CONNECT_FAILED"} : CallFsm(t, g, "backoff")
       \/ CallFsm(t, "DISCONNECTED", "idle")
    /\ UNCHANGED sessions

\* The rx thread has the descriptor before the handshake begins.
Connected(t) ==
    /\ sessions < MaxSessions
    /\ sock' = "ESTABLISHED"
    /\ sessions' = sessions + 1
    /\ CallFsm(t, "NEGOTIATING", "idle")

\* EINPROGRESS or a TLS handshake, and the rx thread waits for the result; or a
\* system call throws, in t or later in the rx thread, and nobody watches sd.
Pending(t) ==
    /\ sock' \in {"CONNECTING", "STUCK"}
    /\ Goto(t, "idle")
    /\ UNCHANGED sessions

Dial(t) == Pending(t) \/ Connected(t) \/ Refused(t)

Backoff(t) ==
    /\ At(t, "backoff")
    /\ reconnect' = TRUE
    /\ Goto(t, "idle")
    /\ UNCHANGED <<sock, sessions, passive, early, state, negvars, timers, wakeup, tlock,
                   hello, history>>

-----------------------------------------------------------------------------
(* The application *)

AppOpen ==
    /\ At("app", "start")
    /\ passive' \in Openings
    /\ IF passive' THEN CallFsm("app", "ACCEPT_PENDING", "accept")
                   ELSE CallFsm("app", "CONNECT_PENDING", "connect")
    /\ UNCHANGED <<sock, reconnect, sessions, early, state, negvars, timers, wakeup, tlock,
                   hello, history>>

AppConnect ==
    /\ At("app", "connect")
    /\ Dial("app")
    /\ early' = (sock' = "ESTABLISHED")
    /\ UNCHANGED <<reconnect, passive, state, negvars, timers, wakeup, tlock, hello,
                   history>>

\* crofsock::tcp_accept() gives sd to the rx thread, then calls
\* handle_tcp_accepted().
AppAccept ==
    /\ At("app", "accept")
    /\ sock' = "ESTABLISHED"
    /\ sessions' = sessions + 1
    /\ early' = TRUE
    /\ CallFsm("app", "NEGOTIATING", "idle")
    /\ UNCHANGED <<reconnect, passive, state, negvars, timers, wakeup, tlock, hello,
                   history>>

\* Or a system call throws before that.
AppAcceptThrows ==
    /\ At("app", "accept")
    /\ sock' = "STUCK"
    /\ Goto("app", "idle")
    /\ UNCHANGED <<reconnect, sessions, passive, early, state, negvars, timers, wakeup,
                   tlock, hello, history>>

\* close()
AppClose ==
    /\ At("app", "idle")
    /\ CallFsm("app", "CLOSING", "closed")
    /\ UNCHANGED <<sockvars, state, negvars, timers, wakeup, tlock, hello,
                   history>>

App == AppOpen \/ AppConnect \/ AppAccept \/ AppAcceptThrows \/ AppClose

-----------------------------------------------------------------------------
(* The rx thread: connection management *)

\* handle_read_event_rxthread() in STATE_TCP_CONNECTING: the pending connect, or
\* the TLS handshake after it, is over.
RxConnects ==
    /\ At("rx", "idle")
    /\ sock = "CONNECTING"
    /\ Connected("rx") \/ Refused("rx")
    /\ UNCHANGED <<reconnect, passive, early, state, negvars, timers, wakeup, tlock, hello,
                   history>>

\* crofsock's reconnect timer: tcp_connect(true), whose exception is swallowed.
RxReconnect ==
    /\ At("rx", "idle")
    /\ reconnect
    /\ reconnect' = FALSE
    /\ Dial("rx")
    /\ UNCHANGED <<passive, early, state, negvars, timers, wakeup, tlock, hello, history>>

\* The peer closes the transport connection.  handle_closed() waits for the
\* hnd thread to finish with the received messages, for a minute at most.
RxClosed ==
    /\ At("rx", "idle")
    /\ sock = "ESTABLISHED"
    /\ sock' = "IDLE"
    /\ reconnect' = ~passive
    /\ CallFsm("rx", "DISCONNECTED", "idle")
    /\ UNCHANGED <<sessions, passive, early, state, negvars, timers, wakeup, tlock, hello,
                   history>>

-----------------------------------------------------------------------------
(* The rx thread: handle_recv() *)

Receiving == At("rx", "idle") /\ sock = "ESTABLISHED"
HandshakeStates == {"CONNECT_PENDING", "ACCEPT_PENDING", "NEGOTIATING"}

\* Variant of RxHello that handles a HELLO in any state.
RxHelloAlways(m) ==
    /\ Receiving
    /\ hello' = m
    /\ Goto("rx", "hello_reply")
    /\ UNCHANGED <<sockvars, state, negvars, timers, wakeup, tlock, history>>

\* HELLO is handled in the states of the handshake only.  In NEGOTIATING2 and
\* ESTABLISHED it is stored for the application like any other message.
RxHello(m) ==
    /\ Receiving
    /\ state \in HandshakeStates
    /\ hello' = m
    /\ Goto("rx", "hello_reply")
    /\ UNCHANGED <<sockvars, state, negvars, timers, wakeup, tlock, history>>

HelloReply ==
    /\ At("rx", "hello_reply")
    /\ flag_hello_sent' = TRUE
    /\ Goto("rx", "hello_seen")
    /\ UNCHANGED <<sockvars, state, ofp_version, flag_hello_rcvd, timers,
                   wakeup, tlock, hello, history>>

HelloSeen ==
    /\ At("rx", "hello_seen")
    /\ flag_hello_rcvd' = TRUE
    /\ timers' = timers \ {WAIT_FOR_HELLO}
    /\ Goto("rx", "hello_version")
    /\ UNCHANGED <<sockvars, state, ofp_version, flag_hello_sent, wakeup,
                   tlock, hello, history>>

\* Step 1 of hello_rcvd(): OpenFlow 1.0 and 1.2 know no version bitmap.
versionbitmap_peer(m) ==
    IF m.version \in {OFP10_VERSION, OFP12_VERSION} \/ m.bitmaps = {}
    THEN {m.version}
    ELSE UNION m.bitmaps

Highest(vs) == CHOOSE v \in vs : \A w \in vs : w <= v

\* Step 2: the highest version that both sides support.
HelloVersion ==
    LET common == versionbitmap \intersect versionbitmap_peer(hello) IN
    /\ At("rx", "hello_version")
    /\ hello' = NoHello
    /\ IF common = {}
       THEN /\ CallFsm("rx", "NEGOTIATION_FAILED", "idle")
            /\ UNCHANGED ofp_version
       ELSE /\ ofp_version' = Highest(common)
            /\ Goto("rx", "hello_test")
    /\ UNCHANGED <<sockvars, state, flag_hello_sent, flag_hello_rcvd, timers,
                   wakeup, tlock, history>>

\* ofp_version is read again, and once more for the next state.
HelloTest ==
    /\ At("rx", "hello_test")
    /\ IF ofp_version = OFP_VERSION_UNKNOWN
       THEN CallFsm("rx", "DISCONNECTED", "idle")
       ELSE Goto("rx", "hello_done")
    /\ UNCHANGED <<sockvars, state, negvars, timers, wakeup, tlock, hello,
                   history>>

\* Variant of HelloDone that takes no notice of the version.
HelloDoneSkipsFeatures ==
    /\ At("rx", "hello_done")
    /\ CallFsm("rx", "ESTABLISHED", "idle")
    /\ UNCHANGED <<sockvars, state, negvars, timers, wakeup, tlock, hello,
                   history>>

HelloDone ==
    /\ At("rx", "hello_done")
    /\ CallFsm("rx",
               IF mode = "CONTROLLER" /\ ofp_version >= OFP13_VERSION
               THEN "NEGOTIATING2" ELSE "ESTABLISHED", "idle")
    /\ UNCHANGED <<sockvars, state, negvars, timers, wakeup, tlock, hello,
                   history>>

\* error_rcvd(): every error stops the HELLO timer; OFPET_HELLO_FAILED ends
\* NEGOTIATING, OFPET_BAD_REQUEST ends NEGOTIATING2.
RxError(type) ==
    /\ Receiving
    /\ state \in HandshakeStates \union {"NEGOTIATING2"}
    /\ timers' = timers \ {WAIT_FOR_HELLO}
    /\ IF \/ state = "NEGOTIATING" /\ type = "HELLO_FAILED"
          \/ state = "NEGOTIATING2" /\ type = "BAD_REQUEST"
       THEN /\ CallFsm("rx", "NEGOTIATION_FAILED", "idle")
            /\ UNCHANGED lonely
       ELSE /\ lonely' = TRUE
            /\ UNCHANGED <<pc, goal, next>>
    /\ UNCHANGED <<sockvars, state, negvars, wakeup, tlock, hello, told, dpid>>

\* features_reply_rcvd()
RxFeaturesReply ==
    /\ Receiving
    /\ state = "NEGOTIATING2"
    /\ timers' = timers \ {WAIT_FOR_FEATURES}
    /\ dpid' = TRUE
    /\ CallFsm("rx", "ESTABLISHED", "idle")
    /\ UNCHANGED <<sockvars, state, negvars, wakeup, tlock, hello, told, lonely>>

\* echo_reply_rcvd(): stop waiting, then schedule the next check.
RxEchoReply ==
    /\ Receiving
    /\ state = "ESTABLISHED"
    /\ timers' = timers \ {WAIT_FOR_ECHO}
    /\ Goto("rx", "echo_reply")
    /\ UNCHANGED <<sockvars, state, negvars, wakeup, tlock, hello, history>>

EchoReplyDone ==
    /\ At("rx", "echo_reply")
    /\ timers' = timers \union {NEED_LIFE_CHECK}
    /\ Goto("rx", "idle")
    /\ UNCHANGED <<sockvars, state, negvars, wakeup, tlock, hello, history>>

\* A message for the application: stored, and the hnd thread is woken.  In the
\* other states such a message is dropped.
RxMessage ==
    /\ Receiving
    /\ state = "ESTABLISHED"
    /\ ~At("hnd", "rx_work")
    /\ wakeup' = TRUE
    /\ UNCHANGED <<sockvars, state, negvars, timers, tlock, pc, goal, next,
                   hello, history>>

Rx == \/ RxConnects \/ RxReconnect \/ RxClosed
      \/ \E m \in Hellos : RxHello(m)
      \/ HelloReply \/ HelloSeen \/ HelloVersion \/ HelloTest \/ HelloDone
      \/ \E type \in {"HELLO_FAILED", "BAD_REQUEST", "OTHER"} : RxError(type)
      \/ RxFeaturesReply \/ RxEchoReply \/ EchoReplyDone \/ RxMessage

-----------------------------------------------------------------------------
(* The hnd thread *)

\* A timer that has expired leaves the set before its handler runs.
Expires(timer) == At("hnd", "idle") /\ timer \in timers

\* hello_expired() reads state and flag_hello_rcvd, then acts on it.
HelloExpired ==
    /\ Expires(WAIT_FOR_HELLO)
    /\ timers' = timers \ {WAIT_FOR_HELLO}
    /\ IF state = "ESTABLISHED" \/ flag_hello_rcvd
       THEN UNCHANGED <<pc, goal, next>>
       ELSE CallFsm("hnd", "NEGOTIATION_FAILED", "idle")
    /\ UNCHANGED <<sockvars, state, negvars, wakeup, tlock, hello, history>>

FeaturesExpired ==
    /\ Expires(WAIT_FOR_FEATURES)
    /\ timers' = timers \ {WAIT_FOR_FEATURES}
    /\ CallFsm("hnd", "NEGOTIATION_FAILED", "idle")
    /\ UNCHANGED <<sockvars, state, negvars, wakeup, tlock, hello, history>>

\* echo_request_expired(): run_finite_state_machine(STATE_CLOSING), then
\* handle_closed().
EchoExpired ==
    /\ Expires(WAIT_FOR_ECHO)
    /\ timers' = timers \ {WAIT_FOR_ECHO}
    /\ CallFsm("hnd", "CLOSING", "echo_closed")
    /\ UNCHANGED <<sockvars, state, negvars, wakeup, tlock, hello, history>>

EchoClosed ==
    /\ At("hnd", "echo_closed")
    /\ CallFsm("hnd", "DISCONNECTED", "idle")
    /\ UNCHANGED <<sockvars, state, negvars, timers, wakeup, tlock, hello,
                   history>>

\* send_echo_request().  While the socket is congested or a barrier request is
\* pending the check is postponed, a step that changes nothing here.
LifeCheck ==
    /\ Expires(NEED_LIFE_CHECK)
    /\ timers' = (timers \ {NEED_LIFE_CHECK}) \union {WAIT_FOR_ECHO}
    /\ UNCHANGED <<sockvars, state, negvars, wakeup, tlock, pc, goal, next,
                   hello, history>>

\* handle_rx_messages(): periodic checks pause while messages are handled.
HndWakeup ==
    /\ At("hnd", "idle")
    /\ wakeup
    /\ wakeup' = FALSE
    /\ timers' = timers \ {NEED_LIFE_CHECK}
    /\ Goto("hnd", "rx_work")
    /\ UNCHANGED <<sockvars, state, negvars, tlock, hello, history>>

\* The queues have been served, or the connection is not established any more.
HndServed ==
    /\ At("hnd", "rx_work")
    /\ Goto("hnd", IF state = "ESTABLISHED" THEN "rx_done" ELSE "idle")
    /\ UNCHANGED <<sockvars, state, negvars, timers, wakeup, tlock, hello,
                   history>>

\* Variant of HndDone that forgets to resume the periodic checks.
HndDoneUnchecked ==
    /\ At("hnd", "rx_done")
    /\ Goto("hnd", "idle")
    /\ UNCHANGED <<sockvars, state, negvars, timers, wakeup, tlock, hello,
                   history>>

HndDone ==
    /\ At("hnd", "rx_done")
    /\ timers' = timers \union {NEED_LIFE_CHECK}
    /\ Goto("hnd", "idle")
    /\ UNCHANGED <<sockvars, state, negvars, wakeup, tlock, hello, history>>

Hnd == \/ HelloExpired \/ FeaturesExpired \/ EchoExpired \/ EchoClosed
       \/ LifeCheck \/ HndWakeup \/ HndServed \/ HndDone

-----------------------------------------------------------------------------

Next == App \/ Rx \/ Hnd \/ \E t \in Threads : Fsm(t) \/ Backoff(t)

Spec == Init /\ [][Next]_vars

-----------------------------------------------------------------------------
(* Properties *)

Pcs == {"start", "connect", "accept", "backoff", "idle", "closed", "fsm", "fsm_body",
        "neg_timer", "neg_hello", "hello_reply", "hello_seen", "hello_version",
        "hello_test", "hello_done", "echo_reply", "callback", "echo_closed", "rx_work", "rx_done"}

\* Type invariant; in addition tlock is held exactly inside STATE_NEGOTIATING.
TypeOK ==
    /\ sock \in {"IDLE", "CONNECTING", "STUCK", "ESTABLISHED"}
    /\ reconnect \in BOOLEAN /\ passive \in BOOLEAN /\ early \in BOOLEAN
    /\ sessions \in Nat
    /\ state \in States
    /\ ofp_version \in versionbitmap \union {OFP_VERSION_UNKNOWN}
    /\ flag_hello_sent \in BOOLEAN /\ flag_hello_rcvd \in BOOLEAN
    /\ timers \subseteq Timers
    /\ wakeup \in BOOLEAN
    /\ tlock \in Threads \union {"none"}
    /\ \A t \in Threads : tlock = t <=> pc[t] \in {"neg_timer", "neg_hello"}
    /\ pc \in [Threads -> Pcs]
    /\ goal \in [Threads -> Goals]
    /\ next \in [Threads -> Pcs]
    /\ hello \in Hellos \union {NoHello}
    /\ pc["rx"] \in {"hello_reply", "hello_seen", "hello_version"} => hello \in Hellos
    /\ told \in {"up", "down"}
    /\ dpid \in BOOLEAN /\ lonely \in BOOLEAN

\* No thread is inside the connection's code.
Quiet == \A t \in Threads : pc[t] \in {"idle", "closed"}

\* Somebody has an eye on the connection: from the beginning of the handshake a
\* timer is running that ends the wait for the peer, whatever HELLO, error,
\* timeout, disconnect and close() have raced with one another.  The exception
\* is an error that is none of HELLO's: error_rcvd() stops the HELLO timer and
\* keeps waiting; another, a connection that has fallen back because the app
\* thread has begun the handshake while the rx thread received the HELLO.
FallenBack == early /\ flag_hello_rcvd /\ state = "NEGOTIATING"
Supervised ==
    Quiet =>
        /\ state = "NEGOTIATING" /\ ~lonely => WAIT_FOR_HELLO \in timers \/ FallenBack
        /\ state = "NEGOTIATING2" => WAIT_FOR_FEATURES \in timers
        /\ state = "ESTABLISHED" => \/ {WAIT_FOR_ECHO, NEED_LIFE_CHECK} \intersect timers # {}
                                    \/ wakeup

\* A controller speaks OpenFlow 1.3 on a connection it regards as established
\* only after the FEATURES.reply of this session has told it the datapath.
FeaturesFirst ==
    mode = "CONTROLLER" /\ state = "ESTABLISHED" /\ ofp_version >= OFP13_VERSION
        => dpid

\* run_finite_state_machine() in STATE_DISCONNECTED: "stop periodic checks for
\* connection state (OAM)".
ChecksStopped ==
    Quiet /\ state = "DISCONNECTED" =>
        timers \intersect {NEED_LIFE_CHECK, WAIT_FOR_ECHO} = {}

\* is_established() "returns true for an established connection", which has
\* a transport connection.
EstablishedIsConnected ==
    Quiet /\ state = "ESTABLISHED" => sock = "ESTABLISHED"

\* The application learns of established and closed connections in the order
\* in which they happen.
EnvironmentKnows ==
    Quiet /\ told = "up" => state = "ESTABLISHED"

\* A HELLO that arrives before tcp_accept() has entered STATE_NEGOTIATING moves
\* the connection on ("hello_rcvd() will enter STATE_NEGOTIATING2 directly"):
\* the handshake never falls back while the transport connection lasts.
Rank == [s \in States |->
           CASE s = "ESTABLISHED" -> 3 [] s = "NEGOTIATING2" -> 2
             [] s = "NEGOTIATING" -> 1 [] OTHER -> 0]
NeverFallsBack ==
    [][state' \in {"NEGOTIATING", "NEGOTIATING2"} => Rank[state] < Rank[state']]_state

\* The same as long as handshakes begin in the thread that receives the HELLO: a
\* connection of this side whose connect() was not complete at once.  Nothing
\* else, no error, timeout, close() or reconnect, makes a handshake fall back.
OnlyEarlyFallsBack ==
    [][~early /\ state' \in {"NEGOTIATING", "NEGOTIATING2"} => Rank[state] < Rank[state']]_state

\* The same for every connection of this side, connected at once or not.
ActiveNeverFallsBack ==
    [][~passive /\ state' \in {"NEGOTIATING", "NEGOTIATING2"} => Rank[state] < Rank[state']]_state

-----------------------------------------------------------------------------
(* Fairness: each thread runs on when it is inside the code, a timer that   *)
(* is set expires and is served (cthread looks at the timers in every round *)
(* of its loop).  The peer and the application owe nothing.                 *)
RxInside == HelloReply \/ HelloSeen \/ HelloVersion \/ HelloTest \/ HelloDone
            \/ EchoReplyDone
Inside(t) ==
    \/ Fsm(t) \/ Backoff(t)
    \/ t = "app" /\ (AppOpen \/ AppConnect \/ AppAccept \/ AppAcceptThrows)
    \/ t = "rx" /\ RxInside
    \/ t = "hnd" /\ (EchoClosed \/ HndServed \/ HndDone)
Fairness ==
    /\ \A t \in Threads : WF_vars(Inside(t))
    /\ WF_vars(RxReconnect) /\ WF_vars(RxConnects) /\ WF_vars(HndWakeup)
    /\ WF_vars(HelloExpired) /\ WF_vars(FeaturesExpired)
    /\ WF_vars(EchoExpired) /\ WF_vars(LifeCheck)
FairSpec == Spec /\ Fairness

\* The handshake ends: with an established connection, or with none.  (One that
\* the app thread has begun may fall back to NEGOTIATING, see NeverFallsBack.)
HandshakeEnds ==
    state \in {"NEGOTIATING", "NEGOTIATING2"}
        ~> state \in {"ESTABLISHED", "DISCONNECTED"} \/ lonely \/ FallenBack

\* A connection does not outlive its transport connection for ever, even if a
\* late HELLO or FEATURES.reply has revived it after the close, unless the app
\* thread has made it fall back.
NoZombie ==
    state # "DISCONNECTED" /\ sock = "IDLE"
        ~> state = "DISCONNECTED" \/ sock # "IDLE" \/ FallenBack

=============================================================================
