------------------------------- MODULE RofSock -------------------------------
(***************************************************************************)
(* The connection of a crofsock: listen, accept and connect over TCP or    *)
(* TLS, loss of the connection, backoff and reconnect, and close().        *)
(*                                                                         *)
(* close(), tcp_connect() and tls_connect() are called by the application  *)
(* in its own thread and by the socket's rx thread; only the body of       *)
(* close() is protected by tlock.  FLAG_CLOSING is tested and set in two   *)
(* steps before tlock is taken.  Any system call of listen(), tcp_accept() *)
(* and tcp_connect() may fail and throws: out of the application's call,   *)
(* or into the rx thread's loop, which swallows it.  The messages are      *)
(* those of RofSockTx and RofConnRx; SSL is the outcome of a handshake.    *)
(***************************************************************************)
EXTENDS Integers, FiniteSets

CONSTANTS
    Fds,          \* BOUND: descriptor numbers of the process, without -1
    BackoffMax,   \* reconnect_backoff_max, 60 in the code
    Tls,          \* TRUE: the application uses TLS
    Passive,      \* TRUE: it listens and accepts, too
    Serial        \* TRUE: the application calls only while the rx thread waits

ASSUME FdsAssumption == IsFiniteSet(Fds) /\ Fds # {} /\ -1 \notin Fds
ASSUME BackoffMaxAssumption == BackoffMax \in Nat \ {0}
ASSUME FlagsAssumption == Tls \in BOOLEAN /\ Passive \in BOOLEAN /\ Serial \in BOOLEAN

VARIABLES
    state,       \* socket_state_t
    sd,
    closing,     \* FLAG_CLOSING
    tls,         \* FLAG_TLS_IN_USE
    reconnect,   \* FLAG_RECONNECT_ON_FAILURE
    backoff,     \* reconnect_backoff_current
    timer,       \* TIMER_ID_RECONNECT is set on the rx thread
    wake,        \* the rx thread has been woken for this socket
    rfd, wfd,    \* descriptors the rx thread watches for reading, writing
    net,         \* what the kernel knows of a descriptor
    edge,        \* descriptors with an unreported read edge
    lock,        \* who holds tlock
    pc, ret,     \* per thread: position, and where close() returns to
    rec,         \* per thread: argument of tcp_connect()
    asked,       \* the application's last call (history)
    threw,       \* an exception has ended the last attempt to open (history)
    orphans      \* what listen() has left open in an idle socket (history)

socket == <<state, sd, closing, tls, reconnect, backoff, timer>>
kernel == <<wake, rfd, wfd, net, edge>>
control == <<lock, pc, ret, rec>>
history == <<asked, threw, orphans>>
vars == <<socket, kernel, control, history>>

Threads == {"app", "rx"}
TlsStates == {"TLS_CONNECTING", "TLS_ACCEPTING", "TLS_ESTABLISHED"}
TcpStates == {"LISTENING", "TCP_CONNECTING", "TCP_ACCEPTING", "TCP_ESTABLISHED"}
States == {"IDLE"} \union TcpStates \union TlsStates
None == -1

Init ==
    /\ state = "IDLE" /\ sd = None
    /\ closing = FALSE /\ tls = FALSE /\ reconnect = FALSE
    /\ backoff = 1 /\ timer = FALSE /\ wake = FALSE
    /\ rfd = {} /\ wfd = {} /\ edge = {}
    /\ net = [f \in Fds |-> "closed"]
    /\ lock = "none" /\ asked = "none" /\ threw = FALSE /\ orphans = {}
    /\ pc = [t \in Threads |-> "idle"]
    /\ ret = [t \in Threads |-> "idle"]
    /\ rec = [t \in Threads |-> FALSE]

At(t, where) == pc[t] = where
Goto(t, where) == pc' = [pc EXCEPT ![t] = where]
\* A thread's control moves on and nothing of lock, ret and rec changes.
Move(t, where) == Goto(t, where) /\ UNCHANGED <<lock, ret, rec, history>>
CallClose(t, back) ==
    /\ Goto(t, "close") /\ ret' = [ret EXCEPT ![t] = back]
    /\ UNCHANGED <<lock, rec, history>>
\* An exception leaves the call; no handler here undoes what it has done.
Throw(t) == Goto(t, "idle") /\ threw' = TRUE /\ UNCHANGED <<lock, ret, rec, asked>>
\* What an earlier exception has left behind is dealt with.
Afresh(t, where) ==
    Goto(t, where) /\ threw' = FALSE /\ UNCHANGED <<lock, ret, rec, asked, orphans>>

Quiet == \A t \in Threads : At(t, "idle")
MayStart(t) == At(t, "idle") /\ (Serial => Quiet)

-----------------------------------------------------------------------------
(* close() *)

CloseTest(t) ==
    /\ At(t, "close")
    /\ Move(t, IF closing THEN ret[t] ELSE "close_flag")
    /\ UNCHANGED <<socket, kernel>>

CloseFlag(t) ==
    /\ At(t, "close_flag")
    /\ closing' = TRUE
    /\ Move(t, "close_lock")
    /\ UNCHANGED <<state, sd, tls, reconnect, backoff, timer, kernel>>

CloseLock(t) ==
    /\ At(t, "close_lock") /\ lock = "none"
    /\ lock' = t /\ Goto(t, "close_tls")
    /\ UNCHANGED <<socket, kernel, ret, rec, history>>

\* The TLS layer goes first: a socket without it is TCP_ESTABLISHED.
CloseTls(t) ==
    /\ At(t, "close_tls")
    /\ IF state \in TlsStates THEN state' = "TCP_ESTABLISHED" /\ tls' = FALSE
       ELSE UNCHANGED <<state, tls>>
    /\ Move(t, "close_tcp")
    /\ UNCHANGED <<sd, closing, reconnect, backoff, timer, kernel>>

\* The descriptor is deregistered and closed, but not that of an idle socket.
\* drop_timer() is called for the tx thread, where no timer is ever set: the one
\* of the rx thread remains.
CloseTcp(t) ==
    /\ At(t, "close_tcp")
    /\ IF state \in TcpStates
       THEN /\ state' = "IDLE" /\ sd' = None
            /\ rfd' = rfd \ {sd} /\ wfd' = wfd \ {sd} /\ edge' = edge \ {sd}
            /\ net' = IF sd \in Fds THEN [net EXCEPT ![sd] = "closed"] ELSE net
       ELSE UNCHANGED <<state, sd, rfd, wfd, edge, net>>
    /\ Afresh(t, "close_end")
    /\ UNCHANGED <<closing, tls, reconnect, backoff, timer, wake>>

\* FLAG_CLOSING is reset only if the socket is still idle.
CloseEnd(t) ==
    /\ At(t, "close_end")
    /\ closing' = (closing /\ state # "IDLE")
    /\ lock' = "none" /\ Goto(t, ret[t])
    /\ UNCHANGED <<state, sd, tls, reconnect, backoff, timer, kernel, ret, rec, history>>

-----------------------------------------------------------------------------
(* backoff_reconnect() *)

NextBackoff(b) == IF b >= BackoffMax THEN BackoffMax ELSE 2 * b

BackoffReconnect(reset) ==
    /\ timer' = TRUE
    /\ backoff' = IF timer THEN backoff ELSE IF reset THEN 1 ELSE NextBackoff(backoff)

\* The end of a failed connect or of a lost connection.
Backoff(t, where, reset) ==
    /\ At(t, where)
    /\ IF reconnect THEN BackoffReconnect(reset) ELSE UNCHANGED <<timer, backoff>>
    /\ Move(t, "idle")
    /\ UNCHANGED <<state, sd, closing, tls, reconnect, kernel>>
Failed(t) == Backoff(t, "failed", FALSE)
Lost(t) == Backoff(t, "lost", TRUE)

-----------------------------------------------------------------------------
(* tcp_connect() *)

ConnectTest(t) ==
    /\ At(t, "connect")
    /\ IF state = "IDLE" THEN Move(t, "open") ELSE CallClose(t, "open")
    /\ UNCHANGED <<socket, kernel>>

\* tcp_connect() that forgets the caller's choice.
ConnectOpenOnce(t) ==
    /\ At(t, "open")
    /\ timer' = FALSE /\ reconnect' = FALSE /\ state' = "TCP_CONNECTING"
    /\ \E f \in Fds :
        /\ net[f] = "closed"
        /\ sd' = f /\ net' = [net EXCEPT ![f] = "socket"]
    /\ Afresh(t, "dial")
    /\ UNCHANGED <<closing, tls, backoff, wake, rfd, wfd, edge>>

\* The timer is dropped, the flags are set and a descriptor is opened; sd is
\* overwritten whatever it was.
ConnectOpen(t) ==
    /\ At(t, "open")
    /\ timer' = FALSE /\ reconnect' = rec[t] /\ state' = "TCP_CONNECTING"
    /\ \E f \in Fds :
        /\ net[f] = "closed"
        /\ sd' = f /\ net' = [net EXCEPT ![f] = "socket"]
    /\ Afresh(t, "dial")
    /\ UNCHANGED <<closing, tls, backoff, wake, rfd, wfd, edge>>

\* socket() fails.
OpenThrows(t) ==
    /\ At(t, "open")
    /\ timer' = FALSE /\ reconnect' = rec[t] /\ state' = "TCP_CONNECTING"
    /\ sd' = None
    /\ Throw(t)
    /\ UNCHANGED <<closing, tls, backoff, kernel, orphans>>

\* fcntl(), setsockopt() or bind() fails, or getsockname() or getpeername() of a
\* connect() that has succeeded at once: state and sd stay as they are, nobody
\* watches sd, and no reconnect is scheduled.
DialThrows(t) ==
    /\ At(t, "dial")
    /\ net' = net \/ (sd \in Fds /\ net' = [net EXCEPT ![sd] = "up"])
    /\ Throw(t)
    /\ UNCHANGED <<socket, wake, rfd, wfd, edge, orphans>>

\* A pending connect() the rx thread is not told of.
DialPendingUnwatched(t) ==
    /\ At(t, "dial") /\ sd \in Fds
    /\ net' = [net EXCEPT ![sd] = "syn"]
    /\ Move(t, "idle")
    /\ UNCHANGED <<socket, wake, rfd, wfd, edge>>

\* connect() returns EINPROGRESS and the rx thread waits for the outcome.
\* On a descriptor another thread has closed meanwhile, it fails.
DialPending(t) ==
    /\ At(t, "dial") /\ sd \in Fds
    /\ net' = [net EXCEPT ![sd] = "syn"] /\ wfd' = wfd \union {sd}
    /\ Move(t, "idle")
    /\ UNCHANGED <<socket, wake, rfd, edge>>

DialFails(t) ==
    /\ At(t, "dial")
    /\ CallClose(t, "failed")
    /\ UNCHANGED <<socket, kernel>>

\* A connection is established: connect() at once, or at the rx thread.
Establish(t, next) ==
    /\ state' = "TCP_ESTABLISHED"
    /\ wfd' = wfd \ {sd} /\ rfd' = rfd \union ({sd} \cap Fds)
    /\ wake' = TRUE
    /\ Afresh(t, next)
    /\ UNCHANGED <<sd, closing, tls, reconnect, backoff, timer, edge>>

DialAtOnce(t) ==
    /\ At(t, "dial") /\ sd \in Fds
    /\ net' = [net EXCEPT ![sd] = "up"]
    /\ Establish(t, IF tls THEN "tls_connect" ELSE "idle")

-----------------------------------------------------------------------------
(* tls_connect() and tls_accept(), called again until the handshake is over *)

TlsOpen(t) ==
    /\ At(t, "tls_connect") /\ state \in {"IDLE", "TCP_CONNECTING"}
    /\ tls' = TRUE
    /\ Move(t, "connect")
    /\ UNCHANGED <<state, sd, closing, reconnect, backoff, timer, kernel>>

TlsBegin(t) ==
    /\ At(t, "tls_connect") \/ At(t, "tls_accept")
    /\ state = "TCP_ESTABLISHED"
    /\ state' = IF At(t, "tls_connect") THEN "TLS_CONNECTING" ELSE "TLS_ACCEPTING"
    /\ UNCHANGED <<sd, closing, tls, reconnect, backoff, timer, kernel, control, history>>

\* No SSL context, no certificate or no key.
TlsThrows(t) ==
    /\ At(t, "tls_connect") \/ At(t, "tls_accept")
    /\ state = "TCP_ESTABLISHED"
    /\ Throw(t)
    /\ UNCHANGED <<socket, kernel, orphans>>

InHandshake(t) == \/ At(t, "tls_connect") /\ state = "TLS_CONNECTING"
                  \/ At(t, "tls_accept") /\ state = "TLS_ACCEPTING"

TlsWant(t) ==
    /\ InHandshake(t)
    /\ Move(t, "idle")
    /\ UNCHANGED <<socket, kernel>>

\* Success: the rx thread goes on to receive.
TlsDone(t) ==
    /\ InHandshake(t)
    /\ state' = "TLS_ESTABLISHED"
    /\ Move(t, IF t = "rx" THEN "event" ELSE "idle")
    /\ UNCHANGED <<sd, closing, tls, reconnect, backoff, timer, kernel>>

\* The handshake or the verification of the peer fails: close(), and the
\* environment is told; no reconnect is scheduled.
TlsFails(t) ==
    /\ InHandshake(t)
    /\ CallClose(t, "idle")
    /\ UNCHANGED <<socket, kernel>>

\* Established already, or an exception before anything is touched.
TlsOther(t) ==
    /\ \/ At(t, "tls_connect") /\ state \notin {"IDLE", "TCP_CONNECTING", "TCP_ESTABLISHED", "TLS_CONNECTING"}
       \/ At(t, "tls_accept") /\ state \notin {"TCP_ESTABLISHED", "TLS_ACCEPTING"}
    /\ Move(t, "idle")
    /\ UNCHANGED <<socket, kernel>>

-----------------------------------------------------------------------------
(* listen() and tcp_accept() *)

Listen(t) ==
    /\ At(t, "listen")
    /\ timer' = FALSE /\ reconnect' = FALSE /\ state' = "LISTENING"
    /\ \E f \in Fds : /\ net[f] = "closed"
                      /\ sd' = f /\ net' = [net EXCEPT ![f] = "up"] /\ rfd' = rfd \union {f}
    /\ Afresh(t, "idle")
    /\ UNCHANGED <<closing, tls, backoff, wake, wfd, edge>>

\* socket() fails, or a later call up to ::listen(): the new descriptor is in sd
\* and the state, set last, is the old one.  No close() closes sd in an idle socket.
ListenThrows(t) ==
    /\ At(t, "listen")
    /\ timer' = FALSE /\ reconnect' = FALSE
    /\ \/ sd' = None /\ UNCHANGED <<net, orphans>>
       \/ \E f \in Fds :
            /\ net[f] = "closed"
            /\ sd' = f /\ net' = [net EXCEPT ![f] = "socket"]
            /\ orphans' = IF state = "IDLE" THEN orphans \union {f} ELSE orphans
    /\ Throw(t)
    /\ UNCHANGED <<state, closing, tls, backoff, wake, rfd, wfd, edge>>

\* tcp_accept() of a descriptor the peer's connect() has opened.
Accept(t) ==
    /\ At(t, "accept")
    /\ timer' = FALSE /\ reconnect' = FALSE
    /\ \E f \in Fds : /\ net[f] = "closed"
                      /\ sd' = f /\ net' = [net EXCEPT ![f] = "up"] /\ rfd' = rfd \union {f}
    /\ state' = "TCP_ESTABLISHED" /\ wake' = TRUE
    /\ Afresh(t, IF tls THEN "tls_accept" ELSE "idle")
    /\ UNCHANGED <<closing, tls, backoff, wfd, edge>>

\* getpeername() of a peer that has gone already, or another call, fails.
AcceptThrows(t) ==
    /\ At(t, "accept")
    /\ timer' = FALSE /\ reconnect' = FALSE
    /\ \E f \in Fds : net[f] = "closed" /\ sd' = f /\ net' = [net EXCEPT ![f] = "up"]
    /\ state' = "TCP_ACCEPTING"
    /\ Throw(t)
    /\ UNCHANGED <<closing, tls, backoff, wake, rfd, wfd, edge, orphans>>

-----------------------------------------------------------------------------
(* Calls of the application *)

AppCall(what, where, back, r, withTls) ==
    /\ MayStart("app")
    /\ asked' = what
    /\ pc' = [pc EXCEPT !["app"] = where]
    /\ ret' = [ret EXCEPT !["app"] = back]
    /\ rec' = [rec EXCEPT !["app"] = r]
    /\ tls' = (tls \/ withTls)
    /\ UNCHANGED <<state, sd, closing, reconnect, backoff, timer, kernel, lock, threw, orphans>>

\* crofsock's destructor and crofconn::close() call it without looking at state.
AppClose == AppCall("close", "close", "idle", FALSE, FALSE)
AppConnect(r) == AppCall("tcp", "connect", "idle", r, FALSE)
AppTlsConnect(r) == Tls /\ AppCall("tls", "tls_connect", "idle", r, FALSE)
\* listen() closes an open descriptor, tcp_accept() whatever is not idle; it is
\* called with a descriptor, so there is one.
AppListen ==
    Passive /\ AppCall("listen", IF sd # None THEN "close" ELSE "listen", "listen", FALSE, FALSE)
AppAccept(withTls) ==
    /\ Passive /\ (withTls => Tls /\ state = "IDLE") /\ Fds \ orphans # {}
    /\ AppCall("accept", IF state # "IDLE" THEN "close" ELSE "accept", "accept", FALSE, withTls)

App == \/ AppClose \/ AppListen
       \/ \E r \in BOOLEAN : AppConnect(r) \/ AppTlsConnect(r) \/ AppAccept(r)

-----------------------------------------------------------------------------
(* The rx thread *)

\* The handlers ignore whatever comes while FLAG_CLOSING is set.
Begin(next) == Move("rx", IF closing THEN "idle" ELSE next)

RxWakeup ==
    /\ MayStart("rx") /\ wake
    /\ wake' = FALSE /\ Begin("event")
    /\ UNCHANGED <<socket, rfd, wfd, net, edge>>

RxRead ==
    /\ MayStart("rx") /\ edge \cap rfd # {}
    /\ edge' = edge \ rfd /\ Begin("event")
    /\ UNCHANGED <<socket, wake, rfd, wfd, net>>

\* Level-triggered: reported until it is deregistered.
RxWrite ==
    /\ MayStart("rx") /\ \E f \in wfd : net[f] \in {"up", "down", "refused"}
    /\ Begin("event")
    /\ UNCHANGED <<socket, kernel>>

\* handle_timeout(): the timer is gone when it is called.
RxTimer ==
    /\ MayStart("rx") /\ timer
    /\ timer' = FALSE
    /\ rec' = [rec EXCEPT !["rx"] = TRUE]
    /\ Goto("rx", IF tls THEN "tls_connect" ELSE "connect")
    /\ UNCHANGED <<state, sd, closing, tls, reconnect, backoff, kernel, lock, ret, history>>

\* handle_read_event_rxthread(): what getsockopt(SO_ERROR) says is acted upon
\* in the next step, when another thread may have closed the socket.
RxConnecting ==
    /\ At("rx", "event") /\ state = "TCP_CONNECTING" /\ sd \in Fds
    /\ CASE net[sd] \in {"up", "down"} -> Move("rx", "established")
         [] net[sd] = "refused" -> CallClose("rx", "failed")
         [] OTHER -> Move("rx", "idle")
    /\ UNCHANGED <<socket, kernel>>

\* SO_ERROR may also be 0 while the connect is pending, when a wakeup of an
\* earlier connection comes now: sd is not watched any more, and getpeername()
\* throws.  So does getsockopt() of a descriptor that is closed.
RxConnectThrows ==
    /\ At("rx", "event") /\ state = "TCP_CONNECTING"
    /\ sd \in Fds => net[sd] # "refused"
    /\ wfd' = wfd \ {sd}
    /\ Throw("rx")
    /\ UNCHANGED <<socket, wake, rfd, net, edge, orphans>>

RxEstablished ==
    /\ At("rx", "established")
    /\ UNCHANGED net
    /\ Establish("rx", IF tls THEN "tls_connect" ELSE "idle")

RxHandshake ==
    /\ At("rx", "event") /\ state \in {"TLS_CONNECTING", "TLS_ACCEPTING"}
    /\ Move("rx", IF state = "TLS_CONNECTING" THEN "tls_connect" ELSE "tls_accept")
    /\ UNCHANGED <<socket, kernel>>

\* recv_message(): end of file or an error closes, anything else is not seen
\* here.  A socket whose flag does not fit its state does not receive.
RxReceive ==
    /\ At("rx", "event")
    /\ state \in {"TCP_ESTABLISHED", "TLS_ESTABLISHED"}
    /\ IF tls = (state = "TLS_ESTABLISHED") /\ sd \in Fds /\ net[sd] = "down"
       THEN CallClose("rx", "lost")
       ELSE Move("rx", "idle")
    /\ UNCHANGED <<socket, kernel>>

\* A listening socket tells its environment; any other state does nothing.
RxOther ==
    /\ At("rx", "event") /\ state \in {"IDLE", "LISTENING", "TCP_ACCEPTING"}
    /\ Move("rx", "idle")
    /\ UNCHANGED <<socket, kernel>>

Step(t) ==
    \/ CloseTest(t) \/ CloseFlag(t) \/ CloseLock(t) \/ CloseTls(t) \/ CloseTcp(t)
    \/ CloseEnd(t) \/ Failed(t) \/ Lost(t) \/ ConnectTest(t) \/ ConnectOpen(t)
    \/ OpenThrows(t) \/ DialPending(t) \/ DialFails(t) \/ DialAtOnce(t) \/ DialThrows(t)
    \/ TlsOpen(t) \/ TlsBegin(t) \/ TlsThrows(t) \/ TlsWant(t) \/ TlsDone(t) \/ TlsFails(t)
    \/ TlsOther(t) \/ Listen(t) \/ ListenThrows(t) \/ Accept(t) \/ AcceptThrows(t)
RxStep == \/ RxConnecting \/ RxConnectThrows \/ RxEstablished \/ RxHandshake \/ RxReceive \/ RxOther
Rx == RxWakeup \/ RxRead \/ RxWrite \/ RxTimer \/ RxStep

-----------------------------------------------------------------------------
(* The kernel and the peer *)

Net(f, from, to) ==
    /\ net[f] = from /\ net' = [net EXCEPT ![f] = to]
    /\ UNCHANGED <<socket, wake, rfd, wfd, control, history>>
NetUp(f) == Net(f, "syn", "up") /\ UNCHANGED edge
NetRefused(f) == Net(f, "syn", "refused") /\ UNCHANGED edge
\* The peer goes: an end of file to read.
NetDown(f) == (state # "LISTENING" \/ f # sd) /\ Net(f, "up", "down") /\ edge' = edge \union {f}
\* The peer sends: handshake or messages.
NetData(f) ==
    /\ net[f] = "up" /\ f \notin edge /\ edge' = edge \union {f}
    /\ UNCHANGED <<socket, wake, rfd, wfd, net, control, history>>
Kernel == \E f \in Fds : NetUp(f) \/ NetRefused(f) \/ NetDown(f) \/ NetData(f)

Next == App \/ Rx \/ Kernel \/ \E t \in Threads : Step(t)

Spec == Init /\ [][Next]_vars

-----------------------------------------------------------------------------
(* Properties *)

Pcs == {"idle", "close", "close_flag", "close_lock", "close_tls", "close_tcp",
        "close_end", "failed", "lost", "connect", "open", "dial", "tls_connect",
        "tls_accept", "listen", "accept", "event", "established"}

TypeOK ==
    /\ state \in States /\ sd \in Fds \union {None}
    /\ closing \in BOOLEAN /\ tls \in BOOLEAN /\ reconnect \in BOOLEAN
    /\ backoff \in Nat \ {0} /\ timer \in BOOLEAN /\ wake \in BOOLEAN
    /\ rfd \subseteq Fds /\ wfd \subseteq Fds /\ edge \subseteq Fds
    /\ net \in [Fds -> {"closed", "socket", "syn", "up", "down", "refused"}]
    /\ lock \in Threads \union {"none"}
    /\ pc \in [Threads -> Pcs] /\ ret \in [Threads -> Pcs]
    /\ rec \in [Threads -> BOOLEAN]
    /\ asked \in {"none", "close", "tcp", "tls", "listen", "accept"}
    /\ threw \in BOOLEAN /\ orphans \subseteq Fds

\* No descriptor is lost but by a listen() that throws: when no call is under
\* way, all others are closed but sd, and the state lets close() close sd.
NoLeak ==
    Quiet => /\ {f \in Fds : net[f] # "closed"} = ({sd} \ {None}) \union orphans
             /\ sd \in Fds \ orphans => state # "IDLE"

\* FLAG_CLOSING, which makes the handlers deaf, does not outlive close().
CloseCompletes == Quiet => ~closing

\* Whatever the socket waits for is watched: a pending connect for its outcome,
\* an open connection and a listening socket for reading.  Not so after a system
\* call that threw in the middle, until the next call of the application.
NotDeaf ==
    Quiet /\ ~threw => /\ state = "TCP_CONNECTING" => sd \in wfd
                       /\ state \notin {"IDLE", "TCP_CONNECTING"} => sd \in rfd

\* The wait before the next attempt stays below twice reconnect_backoff_max.
BackoffBounded == backoff < 2 * BackoffMax

\* Between calls the socket is whole, whatever failed half way in an earlier one:
\* tcp_connect(), tls_connect(), tcp_accept(), close() and the handlers leave
\* nothing open that close() would not close, no flag that would make the socket
\* deaf, no unwatched connection unless they throw, and the wait bounded.
SocketIntact == TypeOK /\ NoLeak /\ CloseCompletes /\ NotDeaf /\ BackoffBounded

\* Whatever listen() opens before it throws is closed in the end.
ListenLosesNothing == orphans = {}

\* The wait never exceeds reconnect_backoff_max.
BackoffMaxKept == backoff <= BackoffMax

\* Once close() has returned the socket opens no connection by itself.
ClosedStaysClosed ==
    [][asked = "close" /\ asked' = "close" /\ Quiet /\ state = "IDLE" => state' = "IDLE"
        /\ pc'["rx"] # "connect"]_vars

\* A connection asked for with tls_connect() is never open without TLS.
TlsStaysTls == Quiet /\ asked = "tls" => state # "TCP_ESTABLISHED"

-----------------------------------------------------------------------------
(* Fairness: each thread goes on with what it has begun, the rx thread serves *)
(* its events and timers, and the peer is reachable again and again.          *)
Fairness ==
    /\ \A t \in Threads : WF_vars(Step(t))
    /\ WF_vars(RxWakeup) /\ SF_vars(RxRead) /\ SF_vars(RxWrite) /\ SF_vars(RxTimer)
    /\ WF_vars(RxStep)
    /\ \A t \in Threads : SF_vars(DialPending(t))
    /\ \A f \in Fds : SF_vars(NetUp(f)) /\ WF_vars(NetUp(f) \/ NetRefused(f))
FairSpec == Spec /\ Fairness

\* Automatic reconnect: an application without TLS that calls tcp_connect(true)
\* and then leaves the socket alone has a connection again and again, however often the peer
\* refuses or goes, as long as an attempt can succeed and none ends with an exception.
KeepsTrying ==
    []~tls /\ <>[](asked = "tcp" /\ rec["app"] /\ At("app", "idle") /\ ~threw)
        => []<>(state = "TCP_ESTABLISHED")

\* The same whatever a system call does: once the reconnect timer has expired,
\* an attempt that throws is not the last one.
TriesAfterThrow ==
    []~tls /\ <>[](asked = "tcp" /\ rec["app"] /\ At("app", "idle"))
        => []<>~(threw /\ rec["rx"])

\* The same for tls_connect(true): the socket does not fall idle for good.
TlsKeepsTrying ==
    <>[](asked = "tls" /\ rec["app"] /\ At("app", "idle")) => []<>(state # "IDLE")
=============================================================================
