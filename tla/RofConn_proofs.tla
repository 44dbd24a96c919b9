--------------------------- MODULE RofConn_proofs ---------------------------
(***************************************************************************)
(* Proofs about the handshake and the supervision of a crofconn, for any   *)
(* versions, HELLO messages and number of sessions, in both modes, whether *)
(* connect() is complete, refused or pending when it returns.              *)
(***************************************************************************)
EXTENDS RofConn, WellFoundedInduction, TLAPS

(***************************************************************************)
(* hello_rcvd() finds a highest version whenever there is a common one.    *)
(***************************************************************************)
LEMMA HighestVersion ==
    ASSUME NEW vs \in SUBSET (1 .. 255), vs # {}
    PROVE  Highest(vs) \in vs
<1> DEFINE Less == {p \in Nat \X Nat : p[1] < p[2]}
           Rest == {255 - v : v \in vs}
<1>0. \A v \in vs : v \in Nat /\ 255 - v \in Nat
  OBVIOUS
<1>1. Rest \subseteq Nat /\ Rest # {}
  <2>1. PICK v \in vs : TRUE
    OBVIOUS
  <2>2. 255 - v \in Rest
    BY <2>1
  <2>3. QED
    BY <1>0, <2>2
<1>2. \E r \in Rest : \A q \in Rest : <<q, r>> \notin Less
  <2>1. IsWellFoundedOn(Less, Nat)
    BY NatLessThanWellFounded, Zenon DEF OpToRel
  <2> HIDE DEF Less, Rest
  <2>2. QED
    BY <1>1, <2>1, WFMin
<1>3. PICK v \in vs : \A w \in vs : <<255 - w, 255 - v>> \notin Less
  BY <1>2
<1>4. \A w \in vs : w <= v
  <2> TAKE w \in vs
  <2>1. ~(255 - w < 255 - v)
    BY <1>0, <1>3
  <2>2. QED
    BY <1>0, <2>1
<1>5. QED
  BY <1>4 DEF Highest

(***************************************************************************)
(* The parts of the inductive invariant.                                   *)
(***************************************************************************)
Entering == {"fsm", "fsm_body"}
Locking == {"neg_timer", "neg_hello"}
Within == Entering \union Locking \union {"callback"}
Judging == {"hello_version", "hello_test", "hello_done"}
Greeting == {"hello_reply", "hello_seen"} \union Judging
Waiting == {"CONNECT_PENDING", "ACCEPT_PENDING"}
Failed == {"CONNECT_REFUSED", "CONNECT_FAILED"}
Raised == {"NEGOTIATING", "NEGOTIATING2", "ESTABLISHED"}

\* Which thread runs what, and with which argument.
Positions ==
    /\ pc["app"] \in Within \union {"start", "connect", "accept", "backoff", "idle", "closed"}
    /\ pc["rx"] \in Within \union Greeting \union {"backoff", "idle", "echo_reply"}
    /\ pc["hnd"] \in Within \union {"idle", "echo_closed", "rx_work", "rx_done"}
    /\ next["app"] \in {"idle", "connect", "accept", "backoff", "closed"}
    /\ next["rx"] \in {"idle", "backoff"}
    /\ next["hnd"] \in {"idle", "echo_closed"}
Arguments ==
    /\ \A t \in Threads : pc[t] \in Locking => goal[t] = "NEGOTIATING"
    /\ \A t \in Threads : pc[t] \notin Within => goal[t] = "DISCONNECTED"
    /\ goal["app"] \in Waiting \union Failed \union {"DISCONNECTED", "CLOSING", "NEGOTIATING"}
    /\ goal["rx"] \in Goals \ (Waiting \union {"CLOSING"})
    /\ goal["hnd"] \in {"DISCONNECTED", "NEGOTIATION_FAILED", "CLOSING"}

\* A thread whose tcp_connect() has failed goes on to set the reconnect timer.
Failing(t) == pc[t] = "backoff" \/ goal[t] \in Failed

\* Nothing happens before tcp_connect() or tcp_accept() has an outcome, and only
\* a connection that the application has opened by tcp_connect() connects again.
Opening == pc["app"] \in {"start", "connect", "accept"} \/ goal["app"] \in Waiting
           \/ Failing("app")
Opened ==
    /\ Opening => /\ sock = "IDLE" /\ ~reconnect /\ pc["rx"] = "idle" /\ pc["hnd"] = "idle"
                  /\ timers = {} /\ ~wakeup /\ ~flag_hello_rcvd
                  /\ state \notin Raised
    /\ next["app"] = "connect" => goal["app"] = "CONNECT_PENDING"
    /\ next["app"] = "accept" => goal["app"] = "ACCEPT_PENDING"
    /\ (pc["app"] = "accept" \/ goal["app"] = "ACCEPT_PENDING") => passive
    /\ (pc["app"] = "connect" \/ goal["app"] = "CONNECT_PENDING" \/ Failing("app")) => ~passive
    /\ (sock = "CONNECTING" \/ reconnect \/ goal["rx"] = "NEGOTIATING" \/ Failing("rx"))
          => ~passive
    /\ goal["app"] = "NEGOTIATING" => early

\* The rx thread handles a message of a session only while no other is begun.
OneSession ==
    /\ reconnect \/ Failing("rx") => sock = "IDLE"
    /\ Failing("rx") => ~reconnect
    /\ \A t \in {"app", "rx"} : next[t] = "backoff" => goal[t] \in Failed
    /\ (pc["rx"] \in Greeting \/ goal["rx"] \in Raised) => sock # "CONNECTING" /\ ~reconnect

\* While hello_rcvd() runs no other thread raises the state, and a version that
\* has gone has gone with flag_hello_rcvd.
Greeted ==
    /\ (pc["rx"] \in Greeting \/ goal["rx"] = "NEGOTIATING2")
          => state \notin {"NEGOTIATING2", "ESTABLISHED"}
    /\ (pc["rx"] = "hello_test" /\ ofp_version = OFP_VERSION_UNKNOWN) => ~flag_hello_rcvd

\* FeaturesFirst, from the moment the rx thread has decided on ESTABLISHED.
FeaturesKnown ==
    (/\ mode = "CONTROLLER"
     /\ state = "ESTABLISHED" \/ goal["rx"] = "ESTABLISHED"
     /\ ofp_version >= OFP13_VERSION) => dpid

\* The rx thread is about to leave the state behind.
Leaving ==
    /\ pc["rx"] \in Entering /\ goal["rx"] = "DISCONNECTED"
    /\ pc["rx"] = "fsm" => state # "DISCONNECTED"

\* A connection that connects again begins its next session from scratch, unless
\* the app thread is still at the beginning of the last one.
Anew ==
    (/\ sock = "CONNECTING" \/ reconnect \/ Failing("rx")
        \/ (goal["rx"] = "NEGOTIATING" /\ pc["rx"] \in Entering)
     /\ ~Leaving)
    => ~flag_hello_rcvd /\ (early \/ state \notin Raised)

\* The rx thread will move on from NEGOTIATING.
MovingOn ==
    \/ pc["rx"] \in Judging
    \/ pc["rx"] \in Entering /\ goal["rx"] # "NEGOTIATING"

\* What flag_hello_rcvd is a sign of.
HelloKnown ==
    /\ (flag_hello_rcvd /\ state = "DISCONNECTED") =>
         \/ pc["rx"] \in Judging
         \/ /\ pc["rx"] \in Entering
            /\ goal["rx"] \in {"NEGOTIATING2", "ESTABLISHED", "NEGOTIATION_FAILED"}
    /\ (flag_hello_rcvd /\ state = "NEGOTIATING" /\ ~early) => MovingOn

\* Supervised, with what the threads inside the code are about to do.
Entrant(g) == \E t \in Threads : pc[t] \in Entering /\ goal[t] # g
Timed ==
    /\ (state = "NEGOTIATING" /\ ~lonely) =>
         \/ WAIT_FOR_HELLO \in timers \/ (early /\ flag_hello_rcvd) \/ MovingOn
         \/ Entrant("NEGOTIATING")
         \/ \E t \in Threads : pc[t] = "neg_timer"
    /\ state = "NEGOTIATING2" => (WAIT_FOR_FEATURES \in timers \/ Entrant("NEGOTIATING2"))
    /\ state = "ESTABLISHED" =>
         \/ WAIT_FOR_ECHO \in timers \/ NEED_LIFE_CHECK \in timers \/ wakeup
         \/ pc["rx"] = "echo_reply" \/ pc["hnd"] \in {"rx_work", "rx_done"}
         \/ Entrant("ESTABLISHED")

ConnInv ==
    /\ TypeOK /\ Positions /\ Arguments /\ Opened /\ OneSession /\ Greeted
    /\ FeaturesKnown /\ Anew /\ HelloKnown /\ Timed


\* run_finite_state_machine(): the test, the pending states and the failures.
LEMMA FsmEnters ==
    ASSUME ConnInv, NEW t \in Threads,
           FsmTest(t) \/ FsmPending(t) \/ FsmFailed(t) \/ FsmCallback(t) \/ Backoff(t)
    PROVE  ConnInv'
<1>0. pc \in [Threads -> Pcs] /\ goal \in [Threads -> Goals] /\ next \in [Threads -> Pcs]
  BY DEF ConnInv, TypeOK
<1> USE DEF ConnInv, At, Goto, CallFsm, Returned, sockvars, negvars, history, Threads,
            Entering, Locking, Within, Judging, Greeting, Waiting, Failed, Raised,
            Positions, Arguments, Opening, Opened, Failing, OneSession,
            WAIT_FOR_HELLO, WAIT_FOR_FEATURES, WAIT_FOR_ECHO, NEED_LIFE_CHECK
<1>1. CASE FsmTest(t)
  <2>1. TypeOK'
    BY <1>0, <1>1 DEF FsmTest, TypeOK, Pcs, States, Goals, Timers
  <2>2. Positions' /\ Arguments' /\ Opened' /\ OneSession'
    BY <1>0, <1>1 DEF FsmTest, Goals, States, Anew, Leaving
  <2>3. Greeted' /\ FeaturesKnown' /\ HelloKnown' /\ Anew'
    BY <1>0, <1>1 DEF FsmTest, Greeted, FeaturesKnown, HelloKnown, Anew, Leaving,
             MovingOn, OFP_VERSION_UNKNOWN, OFP13_VERSION
  <2>4. Timed'
    BY <1>0, <1>1 DEF FsmTest, Timed, Entrant, MovingOn, HelloKnown, Anew, Leaving
  <2>5. QED
    BY <2>1, <2>2, <2>3, <2>4
<1>2. CASE FsmPending(t)
  <2>1. TypeOK'
    BY <1>0, <1>2 DEF FsmPending, TypeOK, Pcs, States, Goals, Timers
  <2>2. Positions' /\ Arguments' /\ Opened' /\ OneSession'
    BY <1>0, <1>2 DEF FsmPending, Goals, States, Anew, Leaving
  <2>3. Greeted' /\ FeaturesKnown' /\ HelloKnown' /\ Anew'
    BY <1>0, <1>2 DEF FsmPending, Greeted, FeaturesKnown, HelloKnown, Anew, Leaving,
             MovingOn, OFP_VERSION_UNKNOWN, OFP13_VERSION
  <2>4. Timed'
    BY <1>0, <1>2 DEF FsmPending, Timed, Entrant, MovingOn, HelloKnown, Anew, Leaving
  <2>5. QED
    BY <2>1, <2>2, <2>3, <2>4
<1>3. CASE FsmFailed(t)
  <2>1. TypeOK'
    BY <1>0, <1>3 DEF FsmFailed, TypeOK, Pcs, States, Goals, Timers
  <2>2. Positions' /\ Arguments' /\ Opened' /\ OneSession'
    BY <1>0, <1>3 DEF FsmFailed, Goals, States, Anew, Leaving
  <2>3. Greeted' /\ FeaturesKnown' /\ HelloKnown' /\ Anew'
    BY <1>0, <1>3 DEF FsmFailed, Greeted, FeaturesKnown, HelloKnown, Anew, Leaving,
             MovingOn, OFP_VERSION_UNKNOWN, OFP13_VERSION
  <2>4. Timed'
    BY <1>0, <1>3 DEF FsmFailed, Timed, Entrant, MovingOn, HelloKnown, Anew, Leaving
  <2>5. QED
    BY <2>1, <2>2, <2>3, <2>4
<1>4. CASE FsmCallback(t)
  <2>1. TypeOK'
    BY <1>0, <1>4 DEF FsmCallback, TypeOK, Pcs, States, Goals, Timers
  <2>2. Positions' /\ Arguments' /\ Opened' /\ OneSession'
    BY <1>0, <1>4 DEF FsmCallback, Goals, States, Anew, Leaving
  <2>3. Greeted' /\ FeaturesKnown' /\ HelloKnown' /\ Anew'
    BY <1>0, <1>4 DEF FsmCallback, Greeted, FeaturesKnown, HelloKnown, Anew, Leaving,
             MovingOn, OFP_VERSION_UNKNOWN, OFP13_VERSION
  <2>4. Timed'
    BY <1>0, <1>4 DEF FsmCallback, Timed, Entrant, MovingOn, HelloKnown, Anew, Leaving
  <2>5. QED
    BY <2>1, <2>2, <2>3, <2>4
<1>5. CASE Backoff(t)
  <2>1. TypeOK'
    BY <1>0, <1>5 DEF Backoff, TypeOK, Pcs, States, Goals, Timers
  <2>2. Positions' /\ Arguments' /\ Opened' /\ OneSession'
    BY <1>0, <1>5 DEF Backoff, Goals, States, Anew, Leaving
  <2>3. Greeted' /\ FeaturesKnown' /\ HelloKnown' /\ Anew'
    BY <1>0, <1>5 DEF Backoff, Greeted, FeaturesKnown, HelloKnown, Anew, Leaving,
             MovingOn, OFP_VERSION_UNKNOWN, OFP13_VERSION
  <2>4. Timed'
    BY <1>0, <1>5 DEF Backoff, Timed, Entrant, MovingOn, HelloKnown, Anew, Leaving
  <2>5. QED
    BY <2>1, <2>2, <2>3, <2>4
<1> QED
  BY <1>1, <1>2, <1>3, <1>4, <1>5

\* STATE_DISCONNECTED resets the flags, the version and the timers.
LEMMA FsmLeaves ==
    ASSUME ConnInv, NEW t \in Threads,
           FsmDisconnect(t)
    PROVE  ConnInv'
<1>0. pc \in [Threads -> Pcs] /\ goal \in [Threads -> Goals] /\ next \in [Threads -> Pcs]
  BY DEF ConnInv, TypeOK
<1> USE DEF ConnInv, At, Goto, CallFsm, Returned, sockvars, negvars, history, Threads,
            Entering, Locking, Within, Judging, Greeting, Waiting, Failed, Raised,
            Positions, Arguments, Opening, Opened, Failing, OneSession,
            WAIT_FOR_HELLO, WAIT_FOR_FEATURES, WAIT_FOR_ECHO, NEED_LIFE_CHECK
<1>1. CASE FsmDisconnect(t)
  <2>1. TypeOK'
    <3>1. (flag_hello_sent \in BOOLEAN /\ flag_hello_rcvd \in BOOLEAN /\ dpid \in BOOLEAN)'
      BY <1>1 DEF FsmDisconnect, TypeOK
    <3>2. QED
      BY <1>0, <1>1, <3>1 DEF FsmDisconnect, TypeOK, Pcs, States, Goals, Timers
  <2>2. Positions' /\ Arguments' /\ Opened' /\ OneSession'
    <3>1. (goal["app"] = "NEGOTIATING" => early)'
      BY <1>1 DEF FsmDisconnect
    <3>2. QED
      BY <1>0, <1>1, <3>1 DEF FsmDisconnect, Goals, States, Anew, Leaving
  <2>3. Greeted' /\ FeaturesKnown' /\ HelloKnown' /\ Anew'
    BY <1>0, <1>1 DEF FsmDisconnect, Greeted, FeaturesKnown, HelloKnown, Anew, Leaving,
             MovingOn, OFP_VERSION_UNKNOWN, OFP13_VERSION
  <2>4. Timed'
    BY <1>0, <1>1 DEF FsmDisconnect, Timed, Entrant, MovingOn, HelloKnown, Anew, Leaving
  <2>5. QED
    BY <2>1, <2>2, <2>3, <2>4
<1> QED
  BY <1>1

\* The states of the handshake set the timers that end them.
LEMMA FsmRaises ==
    ASSUME ConnInv, NEW t \in Threads,
           \/ FsmNegotiating(t) \/ FsmNegotiatingTimer(t) \/ FsmNegotiatingHello(t)
           \/ FsmNegotiating2(t) \/ FsmEstablished(t)
    PROVE  ConnInv'
<1>0. pc \in [Threads -> Pcs] /\ goal \in [Threads -> Goals] /\ next \in [Threads -> Pcs]
  BY DEF ConnInv, TypeOK
<1> USE DEF ConnInv, At, Goto, CallFsm, Returned, sockvars, negvars, history, Threads,
            Entering, Locking, Within, Judging, Greeting, Waiting, Failed, Raised,
            Positions, Arguments, Opening, Opened, Failing, OneSession,
            WAIT_FOR_HELLO, WAIT_FOR_FEATURES, WAIT_FOR_ECHO, NEED_LIFE_CHECK
<1>1. CASE FsmNegotiating(t)
  <2>1. TypeOK'
    <3>1. (lonely \in BOOLEAN)'
      BY <1>1 DEF FsmNegotiating, TypeOK
    <3>2. QED
      BY <1>0, <1>1, <3>1 DEF FsmNegotiating, TypeOK, Pcs, States, Goals, Timers
  <2>2. Positions' /\ Arguments' /\ Opened' /\ OneSession'
    BY <1>0, <1>1 DEF FsmNegotiating, Goals, States, Anew, Leaving
  <2>3. Greeted' /\ FeaturesKnown' /\ HelloKnown' /\ Anew'
    BY <1>0, <1>1 DEF FsmNegotiating, Greeted, FeaturesKnown, HelloKnown, Anew, Leaving,
             MovingOn, OFP_VERSION_UNKNOWN, OFP13_VERSION
  <2>4. Timed'
    BY <1>0, <1>1 DEF FsmNegotiating, Timed, Entrant, MovingOn, HelloKnown, Anew, Leaving
  <2>5. QED
    BY <2>1, <2>2, <2>3, <2>4
<1>2. CASE FsmNegotiatingTimer(t)
  <2>1. TypeOK'
    BY <1>0, <1>2 DEF FsmNegotiatingTimer, TypeOK, Pcs, States, Goals, Timers
  <2>2. Positions' /\ Arguments' /\ Opened' /\ OneSession'
    BY <1>0, <1>2 DEF FsmNegotiatingTimer, Goals, States, Anew, Leaving
  <2>3. Greeted' /\ FeaturesKnown' /\ HelloKnown' /\ Anew'
    BY <1>0, <1>2 DEF FsmNegotiatingTimer, Greeted, FeaturesKnown, HelloKnown, Anew, Leaving,
             MovingOn, OFP_VERSION_UNKNOWN, OFP13_VERSION
  <2>4. Timed'
    BY <1>0, <1>2 DEF FsmNegotiatingTimer, Timed, Entrant, MovingOn, HelloKnown, Anew, Leaving
  <2>5. QED
    BY <2>1, <2>2, <2>3, <2>4
<1>3. CASE FsmNegotiatingHello(t)
  <2>1. TypeOK'
    BY <1>0, <1>3 DEF FsmNegotiatingHello, TypeOK, Pcs, States, Goals, Timers
  <2>2. Positions' /\ Arguments' /\ Opened' /\ OneSession'
    BY <1>0, <1>3 DEF FsmNegotiatingHello, Goals, States, Anew, Leaving
  <2>3. Greeted' /\ FeaturesKnown' /\ HelloKnown' /\ Anew'
    BY <1>0, <1>3 DEF FsmNegotiatingHello, Greeted, FeaturesKnown, HelloKnown, Anew, Leaving,
             MovingOn, OFP_VERSION_UNKNOWN, OFP13_VERSION
  <2>4. Timed'
    BY <1>0, <1>3 DEF FsmNegotiatingHello, Timed, Entrant, MovingOn, HelloKnown, Anew, Leaving
  <2>5. QED
    BY <2>1, <2>2, <2>3, <2>4
<1>4. CASE FsmNegotiating2(t)
  <2>1. TypeOK'
    BY <1>0, <1>4 DEF FsmNegotiating2, TypeOK, Pcs, States, Goals, Timers
  <2>2. Positions' /\ Arguments' /\ Opened' /\ OneSession'
    BY <1>0, <1>4 DEF FsmNegotiating2, Goals, States, Anew, Leaving
  <2>3. Greeted' /\ FeaturesKnown' /\ HelloKnown' /\ Anew'
    BY <1>0, <1>4 DEF FsmNegotiating2, Greeted, FeaturesKnown, HelloKnown, Anew, Leaving,
             MovingOn, OFP_VERSION_UNKNOWN, OFP13_VERSION
  <2>4. Timed'
    BY <1>0, <1>4 DEF FsmNegotiating2, Timed, Entrant, MovingOn, HelloKnown, Anew, Leaving
  <2>5. QED
    BY <2>1, <2>2, <2>3, <2>4
<1>5. CASE FsmEstablished(t)
  <2>1. TypeOK'
    BY <1>0, <1>5 DEF FsmEstablished, TypeOK, Pcs, States, Goals, Timers
  <2>2. Positions' /\ Arguments' /\ Opened' /\ OneSession'
    BY <1>0, <1>5 DEF FsmEstablished, Goals, States, Anew, Leaving
  <2>3. Greeted' /\ FeaturesKnown' /\ HelloKnown' /\ Anew'
    BY <1>0, <1>5 DEF FsmEstablished, Greeted, FeaturesKnown, HelloKnown, Anew, Leaving,
             MovingOn, OFP_VERSION_UNKNOWN, OFP13_VERSION
  <2>4. Timed'
    BY <1>0, <1>5 DEF FsmEstablished, Timed, Entrant, MovingOn, HelloKnown, Anew, Leaving
  <2>5. QED
    BY <2>1, <2>2, <2>3, <2>4
<1> QED
  BY <1>1, <1>2, <1>3, <1>4, <1>5

\* The application opens and closes the connection.
LEMMA AppSteps ==
    ASSUME ConnInv, AppOpen \/ AppAccept \/ AppAcceptThrows \/ AppClose
    PROVE  ConnInv'
<1>0. pc \in [Threads -> Pcs] /\ goal \in [Threads -> Goals] /\ next \in [Threads -> Pcs]
  BY DEF ConnInv, TypeOK
<1> USE DEF ConnInv, At, Goto, CallFsm, Returned, sockvars, negvars, history, Threads,
            Entering, Locking, Within, Judging, Greeting, Waiting, Failed, Raised,
            Positions, Arguments, Opening, Opened, Failing, OneSession,
            WAIT_FOR_HELLO, WAIT_FOR_FEATURES, WAIT_FOR_ECHO, NEED_LIFE_CHECK
<1>1. CASE AppOpen
  <2>1. TypeOK'
    <3>1. (passive \in BOOLEAN)'
      BY <1>1, ModeAssumption DEF AppOpen
    <3>2. QED
      BY <1>0, <1>1, <3>1 DEF AppOpen, TypeOK, Pcs, States, Goals, Timers
  <2>2. Positions' /\ Arguments' /\ Opened' /\ OneSession'
    BY <1>0, <1>1 DEF AppOpen, Goals, States, Anew, Leaving
  <2>3. Greeted' /\ FeaturesKnown' /\ HelloKnown' /\ Anew'
    BY <1>0, <1>1 DEF AppOpen, Greeted, FeaturesKnown, HelloKnown, Anew, Leaving,
             MovingOn, OFP_VERSION_UNKNOWN, OFP13_VERSION
  <2>4. Timed'
    BY <1>0, <1>1 DEF AppOpen, Timed, Entrant, MovingOn, HelloKnown, Anew, Leaving
  <2>5. QED
    BY <2>1, <2>2, <2>3, <2>4
<1>2. CASE AppAcceptThrows
  <2>1. TypeOK'
    BY <1>0, <1>2 DEF AppAcceptThrows, TypeOK, Pcs, States, Goals, Timers
  <2>2. Positions' /\ Arguments' /\ Opened' /\ OneSession'
    BY <1>0, <1>2 DEF AppAcceptThrows, Goals, States, Anew, Leaving
  <2>3. Greeted' /\ FeaturesKnown' /\ HelloKnown' /\ Anew'
    BY <1>0, <1>2 DEF AppAcceptThrows, Greeted, FeaturesKnown, HelloKnown, Anew, Leaving,
             MovingOn, OFP_VERSION_UNKNOWN, OFP13_VERSION
  <2>4. Timed'
    BY <1>0, <1>2 DEF AppAcceptThrows, Timed, Entrant, MovingOn, HelloKnown, Anew, Leaving
  <2>5. QED
    BY <2>1, <2>2, <2>3, <2>4
<1>3. CASE AppAccept
  <2>1. TypeOK'
    BY <1>0, <1>3 DEF AppAccept, TypeOK, Pcs, States, Goals, Timers
  <2>2. Positions' /\ Arguments' /\ Opened' /\ OneSession'
    BY <1>0, <1>3 DEF AppAccept, Goals, States, Anew, Leaving
  <2>3. Greeted' /\ FeaturesKnown' /\ HelloKnown' /\ Anew'
    BY <1>0, <1>3 DEF AppAccept, Greeted, FeaturesKnown, HelloKnown, Anew, Leaving,
             MovingOn, OFP_VERSION_UNKNOWN, OFP13_VERSION
  <2>4. Timed'
    BY <1>0, <1>3 DEF AppAccept, Timed, Entrant, MovingOn, HelloKnown, Anew, Leaving
  <2>5. QED
    BY <2>1, <2>2, <2>3, <2>4
<1>4. CASE AppClose
  <2>1. TypeOK'
    BY <1>0, <1>4 DEF AppClose, TypeOK, Pcs, States, Goals, Timers
  <2>2. Positions' /\ Arguments' /\ Opened' /\ OneSession'
    BY <1>0, <1>4 DEF AppClose, Goals, States, Anew, Leaving
  <2>3. Greeted' /\ FeaturesKnown' /\ HelloKnown' /\ Anew'
    BY <1>0, <1>4 DEF AppClose, Greeted, FeaturesKnown, HelloKnown, Anew, Leaving,
             MovingOn, OFP_VERSION_UNKNOWN, OFP13_VERSION
  <2>4. Timed'
    BY <1>0, <1>4 DEF AppClose, Timed, Entrant, MovingOn, HelloKnown, Anew, Leaving
  <2>5. QED
    BY <2>1, <2>2, <2>3, <2>4
<1> QED
  BY <1>1, <1>2, <1>3, <1>4

\* crofsock::tcp_connect() in the thread of the application.
LEMMA AppDials ==
    ASSUME ConnInv, AppConnect
    PROVE  ConnInv'
<1>0. pc \in [Threads -> Pcs] /\ goal \in [Threads -> Goals] /\ next \in [Threads -> Pcs]
  BY DEF ConnInv, TypeOK
<1> USE DEF ConnInv, At, Goto, CallFsm, Returned, sockvars, negvars, history, Threads,
            Entering, Locking, Within, Judging, Greeting, Waiting, Failed, Raised,
            Positions, Arguments, Opening, Opened, Failing, OneSession,
            WAIT_FOR_HELLO, WAIT_FOR_FEATURES, WAIT_FOR_ECHO, NEED_LIFE_CHECK
<1>1. CASE AppConnect /\ Pending("app")
  <2>1. TypeOK'
    BY <1>0, <1>1 DEF AppConnect, Pending, TypeOK, Pcs, States, Goals, Timers
  <2>2. Positions' /\ Arguments' /\ Opened' /\ OneSession'
    BY <1>0, <1>1 DEF AppConnect, Pending, Goals, States, Anew, Leaving
  <2>3. Greeted' /\ FeaturesKnown' /\ HelloKnown' /\ Anew'
    BY <1>0, <1>1 DEF AppConnect, Pending, Greeted, FeaturesKnown, HelloKnown, Anew, Leaving,
             MovingOn, OFP_VERSION_UNKNOWN, OFP13_VERSION
  <2>4. Timed'
    BY <1>0, <1>1 DEF AppConnect, Pending, Timed, Entrant, MovingOn, HelloKnown, Anew, Leaving
  <2>5. QED
    BY <2>1, <2>2, <2>3, <2>4
<1>2. CASE AppConnect /\ Connected("app")
  <2>1. TypeOK'
    BY <1>0, <1>2 DEF AppConnect, Connected, TypeOK, Pcs, States, Goals, Timers
  <2>2. Positions' /\ Arguments' /\ Opened' /\ OneSession'
    <3>1. early'
      BY <1>2 DEF AppConnect, Connected
    <3>2. QED
      BY <1>0, <1>2, <3>1 DEF AppConnect, Connected, Goals, States, Anew, Leaving
  <2>3. Greeted' /\ FeaturesKnown' /\ HelloKnown' /\ Anew'
    BY <1>0, <1>2 DEF AppConnect, Connected, Greeted, FeaturesKnown, HelloKnown, Anew, Leaving,
             MovingOn, OFP_VERSION_UNKNOWN, OFP13_VERSION
  <2>4. Timed'
    BY <1>0, <1>2 DEF AppConnect, Connected, Timed, Entrant, MovingOn, HelloKnown, Anew, Leaving
  <2>5. QED
    BY <2>1, <2>2, <2>3, <2>4
<1>3. CASE AppConnect /\ Refused("app")
  <2>1. TypeOK'
    BY <1>0, <1>3 DEF AppConnect, Refused, TypeOK, Pcs, States, Goals, Timers
  <2>2. Positions' /\ Arguments' /\ Opened' /\ OneSession'
    BY <1>0, <1>3 DEF AppConnect, Refused, Goals, States, Anew, Leaving
  <2>3. Greeted' /\ FeaturesKnown' /\ HelloKnown' /\ Anew'
    BY <1>0, <1>3 DEF AppConnect, Refused, Greeted, FeaturesKnown, HelloKnown, Anew, Leaving,
             MovingOn, OFP_VERSION_UNKNOWN, OFP13_VERSION
  <2>4. Timed'
    BY <1>0, <1>3 DEF AppConnect, Refused, Timed, Entrant, MovingOn, HelloKnown, Anew, Leaving
  <2>5. QED
    BY <2>1, <2>2, <2>3, <2>4
<1> QED
  BY <1>1, <1>2, <1>3 DEF AppConnect, Dial

\* The rx thread connects, and learns of the end of a session.
LEMMA RxLinks ==
    ASSUME ConnInv, RxConnects \/ RxReconnect \/ RxClosed
    PROVE  ConnInv'
<1>0. pc \in [Threads -> Pcs] /\ goal \in [Threads -> Goals] /\ next \in [Threads -> Pcs]
  BY DEF ConnInv, TypeOK
<1> USE DEF ConnInv, At, Goto, CallFsm, Returned, sockvars, negvars, history, Threads,
            Entering, Locking, Within, Judging, Greeting, Waiting, Failed, Raised,
            Positions, Arguments, Opening, Opened, Failing, OneSession,
            WAIT_FOR_HELLO, WAIT_FOR_FEATURES, WAIT_FOR_ECHO, NEED_LIFE_CHECK
<1>1. CASE RxConnects /\ Connected("rx")
  <2>1. TypeOK'
    BY <1>0, <1>1 DEF RxConnects, Connected, TypeOK, Pcs, States, Goals, Timers
  <2>2. Positions' /\ Arguments' /\ Opened' /\ OneSession'
    BY <1>0, <1>1 DEF RxConnects, Connected, Goals, States, Anew, Leaving
  <2>3. Greeted' /\ FeaturesKnown' /\ HelloKnown' /\ Anew'
    BY <1>0, <1>1 DEF RxConnects, Connected, Greeted, FeaturesKnown, HelloKnown, Anew, Leaving,
             MovingOn, OFP_VERSION_UNKNOWN, OFP13_VERSION
  <2>4. Timed'
    BY <1>0, <1>1 DEF RxConnects, Connected, Timed, Entrant, MovingOn, HelloKnown, Anew, Leaving
  <2>5. QED
    BY <2>1, <2>2, <2>3, <2>4
<1>2. CASE RxConnects /\ Refused("rx")
  <2>1. TypeOK'
    BY <1>0, <1>2 DEF RxConnects, Refused, TypeOK, Pcs, States, Goals, Timers
  <2>2. Positions' /\ Arguments' /\ Opened' /\ OneSession'
    BY <1>0, <1>2 DEF RxConnects, Refused, Goals, States, Anew, Leaving
  <2>3. Greeted' /\ FeaturesKnown' /\ HelloKnown' /\ Anew'
    BY <1>0, <1>2 DEF RxConnects, Refused, Greeted, FeaturesKnown, HelloKnown, Anew, Leaving,
             MovingOn, OFP_VERSION_UNKNOWN, OFP13_VERSION
  <2>4. Timed'
    BY <1>0, <1>2 DEF RxConnects, Refused, Timed, Entrant, MovingOn, HelloKnown, Anew, Leaving
  <2>5. QED
    BY <2>1, <2>2, <2>3, <2>4
<1>3. CASE RxReconnect /\ Pending("rx")
  <2>1. TypeOK'
    <3>1. (reconnect \in BOOLEAN)'
      BY <1>3 DEF RxReconnect
    <3>2. QED
      BY <1>0, <1>3, <3>1 DEF RxReconnect, Pending, TypeOK, Pcs, States, Goals, Timers
  <2>2. Positions' /\ Arguments' /\ Opened' /\ OneSession'
    BY <1>0, <1>3 DEF RxReconnect, Pending, Goals, States, Anew, Leaving
  <2>3. Greeted' /\ FeaturesKnown' /\ HelloKnown' /\ Anew'
    BY <1>0, <1>3 DEF RxReconnect, Pending, Greeted, FeaturesKnown, HelloKnown, Anew, Leaving,
             MovingOn, OFP_VERSION_UNKNOWN, OFP13_VERSION
  <2>4. Timed'
    BY <1>0, <1>3 DEF RxReconnect, Pending, Timed, Entrant, MovingOn, HelloKnown, Anew, Leaving
  <2>5. QED
    BY <2>1, <2>2, <2>3, <2>4
<1>4. CASE RxReconnect /\ Connected("rx")
  <2>1. TypeOK'
    <3>1. (reconnect \in BOOLEAN)'
      BY <1>4 DEF RxReconnect
    <3>2. QED
      BY <1>0, <1>4, <3>1 DEF RxReconnect, Connected, TypeOK, Pcs, States, Goals, Timers
  <2>2. Positions' /\ Arguments' /\ Opened' /\ OneSession'
    BY <1>0, <1>4 DEF RxReconnect, Connected, Goals, States, Anew, Leaving
  <2>3. Greeted' /\ FeaturesKnown' /\ HelloKnown' /\ Anew'
    BY <1>0, <1>4 DEF RxReconnect, Connected, Greeted, FeaturesKnown, HelloKnown, Anew, Leaving,
             MovingOn, OFP_VERSION_UNKNOWN, OFP13_VERSION
  <2>4. Timed'
    BY <1>0, <1>4 DEF RxReconnect, Connected, Timed, Entrant, MovingOn, HelloKnown, Anew, Leaving
  <2>5. QED
    BY <2>1, <2>2, <2>3, <2>4
<1>5. CASE RxReconnect /\ Refused("rx")
  <2>1. TypeOK'
    <3>1. (reconnect \in BOOLEAN)'
      BY <1>5 DEF RxReconnect
    <3>2. QED
      BY <1>0, <1>5, <3>1 DEF RxReconnect, Refused, TypeOK, Pcs, States, Goals, Timers
  <2>2. Positions' /\ Arguments' /\ Opened' /\ OneSession'
    BY <1>0, <1>5 DEF RxReconnect, Refused, Goals, States, Anew, Leaving
  <2>3. Greeted' /\ FeaturesKnown' /\ HelloKnown' /\ Anew'
    BY <1>0, <1>5 DEF RxReconnect, Refused, Greeted, FeaturesKnown, HelloKnown, Anew, Leaving,
             MovingOn, OFP_VERSION_UNKNOWN, OFP13_VERSION
  <2>4. Timed'
    BY <1>0, <1>5 DEF RxReconnect, Refused, Timed, Entrant, MovingOn, HelloKnown, Anew, Leaving
  <2>5. QED
    BY <2>1, <2>2, <2>3, <2>4
<1>6. CASE RxClosed
  <2>1. TypeOK'
    BY <1>0, <1>6 DEF RxClosed, TypeOK, Pcs, States, Goals, Timers
  <2>2. Positions' /\ Arguments' /\ Opened' /\ OneSession'
    BY <1>0, <1>6 DEF RxClosed, Goals, States, Anew, Leaving
  <2>3. Greeted' /\ FeaturesKnown' /\ HelloKnown' /\ Anew'
    BY <1>0, <1>6 DEF RxClosed, Greeted, FeaturesKnown, HelloKnown, Anew, Leaving,
             MovingOn, OFP_VERSION_UNKNOWN, OFP13_VERSION
  <2>4. Timed'
    BY <1>0, <1>6 DEF RxClosed, Timed, Entrant, MovingOn, HelloKnown, Anew, Leaving
  <2>5. QED
    BY <2>1, <2>2, <2>3, <2>4
<1> QED
  BY <1>1, <1>2, <1>3, <1>4, <1>5, <1>6 DEF RxConnects, RxReconnect, Dial

\* handle_recv() hands a HELLO to hello_rcvd().
LEMMA RxHears ==
    ASSUME ConnInv, NEW m \in Hellos, RxHello(m)
    PROVE  ConnInv'
<1>0. pc \in [Threads -> Pcs] /\ goal \in [Threads -> Goals] /\ next \in [Threads -> Pcs]
  BY DEF ConnInv, TypeOK
<1> USE DEF ConnInv, At, Goto, CallFsm, Returned, sockvars, negvars, history, Threads,
            Entering, Locking, Within, Judging, Greeting, Waiting, Failed, Raised,
            Positions, Arguments, Opening, Opened, Failing, OneSession,
            WAIT_FOR_HELLO, WAIT_FOR_FEATURES, WAIT_FOR_ECHO, NEED_LIFE_CHECK
<1>1. CASE RxHello(m)
  <2>1. TypeOK'
    BY <1>0, <1>1 DEF RxHello, Receiving, HandshakeStates, TypeOK, Pcs, States, Goals, Timers
  <2>2. Positions' /\ Arguments' /\ Opened' /\ OneSession'
    BY <1>0, <1>1 DEF RxHello, Receiving, HandshakeStates, Goals, States, Anew, Leaving
  <2>3. Greeted' /\ FeaturesKnown' /\ HelloKnown' /\ Anew'
    BY <1>0, <1>1 DEF RxHello, Receiving, HandshakeStates, Greeted, FeaturesKnown, HelloKnown, Anew, Leaving,
             MovingOn, OFP_VERSION_UNKNOWN, OFP13_VERSION
  <2>4. Timed'
    BY <1>0, <1>1 DEF RxHello, Receiving, HandshakeStates, Timed, Entrant, MovingOn, HelloKnown, Anew, Leaving
  <2>5. QED
    BY <2>1, <2>2, <2>3, <2>4
<1> QED
  BY <1>1

\* hello_rcvd().
LEMMA RxGreets ==
    ASSUME ConnInv, HelloReply \/ HelloSeen \/ HelloVersion \/ HelloTest \/ HelloDone
    PROVE  ConnInv'
<1>0. pc \in [Threads -> Pcs] /\ goal \in [Threads -> Goals] /\ next \in [Threads -> Pcs]
  BY DEF ConnInv, TypeOK
<1> USE DEF ConnInv, At, Goto, CallFsm, Returned, sockvars, negvars, history, Threads,
            Entering, Locking, Within, Judging, Greeting, Waiting, Failed, Raised,
            Positions, Arguments, Opening, Opened, Failing, OneSession,
            WAIT_FOR_HELLO, WAIT_FOR_FEATURES, WAIT_FOR_ECHO, NEED_LIFE_CHECK
<1>1. CASE HelloReply
  <2>1. TypeOK'
    BY <1>0, <1>1 DEF HelloReply, TypeOK, Pcs, States, Goals, Timers
  <2>2. Positions' /\ Arguments' /\ Opened' /\ OneSession'
    BY <1>0, <1>1 DEF HelloReply, Goals, States, Anew, Leaving
  <2>3. Greeted' /\ FeaturesKnown' /\ HelloKnown' /\ Anew'
    BY <1>0, <1>1 DEF HelloReply, Greeted, FeaturesKnown, HelloKnown, Anew, Leaving,
             MovingOn, OFP_VERSION_UNKNOWN, OFP13_VERSION
  <2>4. Timed'
    BY <1>0, <1>1 DEF HelloReply, Timed, Entrant, MovingOn, HelloKnown, Anew, Leaving
  <2>5. QED
    BY <2>1, <2>2, <2>3, <2>4
<1>2. CASE HelloSeen
  <2>1. TypeOK'
    BY <1>0, <1>2 DEF HelloSeen, TypeOK, Pcs, States, Goals, Timers
  <2>2. Positions' /\ Arguments' /\ Opened' /\ OneSession'
    BY <1>0, <1>2 DEF HelloSeen, Goals, States, Anew, Leaving
  <2>3. Greeted' /\ FeaturesKnown' /\ HelloKnown' /\ Anew'
    BY <1>0, <1>2 DEF HelloSeen, Greeted, FeaturesKnown, HelloKnown, Anew, Leaving,
             MovingOn, OFP_VERSION_UNKNOWN, OFP13_VERSION
  <2>4. Timed'
    BY <1>0, <1>2 DEF HelloSeen, Timed, Entrant, MovingOn, HelloKnown, Anew, Leaving
  <2>5. QED
    BY <2>1, <2>2, <2>3, <2>4
<1>3. CASE HelloVersion
  <2> DEFINE common == versionbitmap \intersect versionbitmap_peer(hello)
  <2>0. common # {} => Highest(common) \in versionbitmap \ {OFP_VERSION_UNKNOWN}
    BY VersionsAssumption, HighestVersion DEF OFP_VERSION_UNKNOWN
  <2>1. TypeOK'
    <3>1. (ofp_version \in versionbitmap \union {OFP_VERSION_UNKNOWN})'
      BY <1>3, <2>0 DEF HelloVersion, TypeOK
    <3>2. QED
      BY <1>0, <1>3, <3>1 DEF HelloVersion, TypeOK, Pcs, States, Goals
  <2>2. Positions' /\ Arguments' /\ Opened' /\ OneSession'
    BY <1>0, <1>3, <2>0 DEF HelloVersion, Goals, States, Anew, Leaving
  <2>3. Greeted' /\ FeaturesKnown' /\ HelloKnown' /\ Anew'
    BY <1>0, <1>3, <2>0 DEF HelloVersion, Greeted, FeaturesKnown, HelloKnown, Anew, Leaving,
             MovingOn, OFP_VERSION_UNKNOWN, OFP13_VERSION
  <2>4. Timed'
    BY <1>0, <1>3, <2>0 DEF HelloVersion, Timed, Entrant, MovingOn, HelloKnown, Anew, Leaving
  <2>5. QED
    BY <2>1, <2>2, <2>3, <2>4
<1>4. CASE HelloTest
  <2>1. TypeOK'
    BY <1>0, <1>4 DEF HelloTest, TypeOK, Pcs, States, Goals, Timers
  <2>2. Positions' /\ Arguments' /\ Opened' /\ OneSession'
    BY <1>0, <1>4 DEF HelloTest, Goals, States, Anew, Leaving
  <2>3. Greeted' /\ FeaturesKnown' /\ HelloKnown' /\ Anew'
    BY <1>0, <1>4 DEF HelloTest, Greeted, FeaturesKnown, HelloKnown, Anew, Leaving,
             MovingOn, OFP_VERSION_UNKNOWN, OFP13_VERSION
  <2>4. Timed'
    BY <1>0, <1>4 DEF HelloTest, Timed, Entrant, MovingOn, HelloKnown, Anew, Leaving
  <2>5. QED
    BY <2>1, <2>2, <2>3, <2>4
<1>5. CASE HelloDone
  <2>1. TypeOK'
    BY <1>0, <1>5 DEF HelloDone, TypeOK, Pcs, States, Goals, Timers
  <2>2. Positions' /\ Arguments' /\ Opened' /\ OneSession'
    BY <1>0, <1>5 DEF HelloDone, Goals, States, Anew, Leaving
  <2>3. Greeted' /\ FeaturesKnown' /\ HelloKnown' /\ Anew'
    BY <1>0, <1>5 DEF HelloDone, Greeted, FeaturesKnown, HelloKnown, Anew, Leaving,
             MovingOn, OFP_VERSION_UNKNOWN, OFP13_VERSION
  <2>4. Timed'
    BY <1>0, <1>5 DEF HelloDone, Timed, Entrant, MovingOn, HelloKnown, Anew, Leaving
  <2>5. QED
    BY <2>1, <2>2, <2>3, <2>4
<1> QED
  BY <1>1, <1>2, <1>3, <1>4, <1>5

\* The other messages of the peer.
LEMMA RxReceives ==
    ASSUME ConnInv, NEW type,
           RxError(type) \/ RxFeaturesReply \/ RxEchoReply \/ EchoReplyDone \/ RxMessage
    PROVE  ConnInv'
<1>0. pc \in [Threads -> Pcs] /\ goal \in [Threads -> Goals] /\ next \in [Threads -> Pcs]
  BY DEF ConnInv, TypeOK
<1> USE DEF ConnInv, At, Goto, CallFsm, Returned, sockvars, negvars, history, Threads,
            Entering, Locking, Within, Judging, Greeting, Waiting, Failed, Raised,
            Positions, Arguments, Opening, Opened, Failing, OneSession,
            WAIT_FOR_HELLO, WAIT_FOR_FEATURES, WAIT_FOR_ECHO, NEED_LIFE_CHECK
<1>1. CASE RxError(type)
  <2>1. TypeOK'
    <3>1. (lonely \in BOOLEAN)'
      BY <1>1 DEF RxError, Receiving, TypeOK
    <3>2. QED
      BY <1>0, <1>1, <3>1 DEF RxError, Receiving, TypeOK, Pcs, States, Goals, Timers
  <2>2. Positions' /\ Arguments' /\ Opened' /\ OneSession'
    BY <1>0, <1>1 DEF RxError, Receiving, HandshakeStates, Goals, States, Anew, Leaving
  <2>3. Greeted' /\ FeaturesKnown' /\ HelloKnown' /\ Anew'
    BY <1>0, <1>1 DEF RxError, Receiving, HandshakeStates, Greeted, FeaturesKnown, HelloKnown, Anew, Leaving,
             MovingOn, OFP_VERSION_UNKNOWN, OFP13_VERSION
  <2>4. Timed'
    BY <1>0, <1>1 DEF RxError, Receiving, HandshakeStates, Timed, Entrant, MovingOn, HelloKnown, Anew, Leaving
  <2>5. QED
    BY <2>1, <2>2, <2>3, <2>4
<1>2. CASE RxFeaturesReply
  <2>1. TypeOK'
    BY <1>0, <1>2 DEF RxFeaturesReply, Receiving, TypeOK, Pcs, States, Goals, Timers
  <2>2. Positions' /\ Arguments' /\ Opened' /\ OneSession'
    BY <1>0, <1>2 DEF RxFeaturesReply, Receiving, Goals, States, Anew, Leaving
  <2>3. Greeted' /\ FeaturesKnown' /\ HelloKnown' /\ Anew'
    BY <1>0, <1>2 DEF RxFeaturesReply, Receiving, Greeted, FeaturesKnown, HelloKnown, Anew, Leaving,
             MovingOn, OFP_VERSION_UNKNOWN, OFP13_VERSION
  <2>4. Timed'
    BY <1>0, <1>2 DEF RxFeaturesReply, Receiving, Timed, Entrant, MovingOn, HelloKnown, Anew, Leaving
  <2>5. QED
    BY <2>1, <2>2, <2>3, <2>4
<1>3. CASE RxEchoReply
  <2>1. TypeOK'
    BY <1>0, <1>3 DEF RxEchoReply, Receiving, TypeOK, Pcs, States, Goals, Timers
  <2>2. Positions' /\ Arguments' /\ Opened' /\ OneSession'
    BY <1>0, <1>3 DEF RxEchoReply, Receiving, Goals, States, Anew, Leaving
  <2>3. Greeted' /\ FeaturesKnown' /\ HelloKnown' /\ Anew'
    BY <1>0, <1>3 DEF RxEchoReply, Receiving, Greeted, FeaturesKnown, HelloKnown, Anew, Leaving,
             MovingOn, OFP_VERSION_UNKNOWN, OFP13_VERSION
  <2>4. Timed'
    BY <1>0, <1>3 DEF RxEchoReply, Receiving, Timed, Entrant, MovingOn, HelloKnown, Anew, Leaving
  <2>5. QED
    BY <2>1, <2>2, <2>3, <2>4
<1>4. CASE EchoReplyDone
  <2>1. TypeOK'
    BY <1>0, <1>4 DEF EchoReplyDone, TypeOK, Pcs, States, Goals, Timers
  <2>2. Positions' /\ Arguments' /\ Opened' /\ OneSession'
    BY <1>0, <1>4 DEF EchoReplyDone, Goals, States, Anew, Leaving
  <2>3. Greeted' /\ FeaturesKnown' /\ HelloKnown' /\ Anew'
    BY <1>0, <1>4 DEF EchoReplyDone, Greeted, FeaturesKnown, HelloKnown, Anew, Leaving,
             MovingOn, OFP_VERSION_UNKNOWN, OFP13_VERSION
  <2>4. Timed'
    BY <1>0, <1>4 DEF EchoReplyDone, Timed, Entrant, MovingOn, HelloKnown, Anew, Leaving
  <2>5. QED
    BY <2>1, <2>2, <2>3, <2>4
<1>5. CASE RxMessage
  <2>1. TypeOK'
    BY <1>0, <1>5 DEF RxMessage, Receiving, TypeOK, Pcs, States, Goals, Timers
  <2>2. Positions' /\ Arguments' /\ Opened' /\ OneSession'
    BY <1>0, <1>5 DEF RxMessage, Receiving, Goals, States, Anew, Leaving
  <2>3. Greeted' /\ FeaturesKnown' /\ HelloKnown' /\ Anew'
    BY <1>0, <1>5 DEF RxMessage, Receiving, Greeted, FeaturesKnown, HelloKnown, Anew, Leaving,
             MovingOn, OFP_VERSION_UNKNOWN, OFP13_VERSION
  <2>4. Timed'
    BY <1>0, <1>5 DEF RxMessage, Receiving, Timed, Entrant, MovingOn, HelloKnown, Anew, Leaving
  <2>5. QED
    BY <2>1, <2>2, <2>3, <2>4
<1> QED
  BY <1>1, <1>2, <1>3, <1>4, <1>5

\* The timers, and the hnd thread.
LEMMA HndSteps ==
    ASSUME ConnInv, \/ HelloExpired \/ FeaturesExpired \/ EchoExpired \/ EchoClosed \/ LifeCheck
           \/ HndWakeup \/ HndServed \/ HndDone
    PROVE  ConnInv'
<1>0. pc \in [Threads -> Pcs] /\ goal \in [Threads -> Goals] /\ next \in [Threads -> Pcs]
  BY DEF ConnInv, TypeOK
<1> USE DEF ConnInv, At, Goto, CallFsm, Returned, sockvars, negvars, history, Threads,
            Entering, Locking, Within, Judging, Greeting, Waiting, Failed, Raised,
            Positions, Arguments, Opening, Opened, Failing, OneSession,
            WAIT_FOR_HELLO, WAIT_FOR_FEATURES, WAIT_FOR_ECHO, NEED_LIFE_CHECK
<1>1. CASE HelloExpired
  <2>1. TypeOK'
    BY <1>0, <1>1 DEF HelloExpired, Expires, TypeOK, Pcs, States, Goals, Timers
  <2>2. Positions' /\ Arguments' /\ Opened' /\ OneSession'
    BY <1>0, <1>1 DEF HelloExpired, Expires, Goals, States, Anew, Leaving
  <2>3. Greeted' /\ FeaturesKnown' /\ HelloKnown' /\ Anew'
    BY <1>0, <1>1 DEF HelloExpired, Expires, Greeted, FeaturesKnown, HelloKnown, Anew, Leaving,
             MovingOn, OFP_VERSION_UNKNOWN, OFP13_VERSION
  <2>4. Timed'
    BY <1>0, <1>1 DEF HelloExpired, Expires, Timed, Entrant, MovingOn, HelloKnown, Anew, Leaving
  <2>5. QED
    BY <2>1, <2>2, <2>3, <2>4
<1>2. CASE FeaturesExpired
  <2>1. TypeOK'
    BY <1>0, <1>2 DEF FeaturesExpired, Expires, TypeOK, Pcs, States, Goals, Timers
  <2>2. Positions' /\ Arguments' /\ Opened' /\ OneSession'
    BY <1>0, <1>2 DEF FeaturesExpired, Expires, Goals, States, Anew, Leaving
  <2>3. Greeted' /\ FeaturesKnown' /\ HelloKnown' /\ Anew'
    BY <1>0, <1>2 DEF FeaturesExpired, Expires, Greeted, FeaturesKnown, HelloKnown, Anew, Leaving,
             MovingOn, OFP_VERSION_UNKNOWN, OFP13_VERSION
  <2>4. Timed'
    BY <1>0, <1>2 DEF FeaturesExpired, Expires, Timed, Entrant, MovingOn, HelloKnown, Anew, Leaving
  <2>5. QED
    BY <2>1, <2>2, <2>3, <2>4
<1>3. CASE EchoExpired
  <2>1. TypeOK'
    BY <1>0, <1>3 DEF EchoExpired, Expires, TypeOK, Pcs, States, Goals, Timers
  <2>2. Positions' /\ Arguments' /\ Opened' /\ OneSession'
    BY <1>0, <1>3 DEF EchoExpired, Expires, Goals, States, Anew, Leaving
  <2>3. Greeted' /\ FeaturesKnown' /\ HelloKnown' /\ Anew'
    BY <1>0, <1>3 DEF EchoExpired, Expires, Greeted, FeaturesKnown, HelloKnown, Anew, Leaving,
             MovingOn, OFP_VERSION_UNKNOWN, OFP13_VERSION
  <2>4. Timed'
    BY <1>0, <1>3 DEF EchoExpired, Expires, Timed, Entrant, MovingOn, HelloKnown, Anew, Leaving
  <2>5. QED
    BY <2>1, <2>2, <2>3, <2>4
<1>4. CASE EchoClosed
  <2>1. TypeOK'
    BY <1>0, <1>4 DEF EchoClosed, Expires, TypeOK, Pcs, States, Goals, Timers
  <2>2. Positions' /\ Arguments' /\ Opened' /\ OneSession'
    BY <1>0, <1>4 DEF EchoClosed, Expires, Goals, States, Anew, Leaving
  <2>3. Greeted' /\ FeaturesKnown' /\ HelloKnown' /\ Anew'
    BY <1>0, <1>4 DEF EchoClosed, Expires, Greeted, FeaturesKnown, HelloKnown, Anew, Leaving,
             MovingOn, OFP_VERSION_UNKNOWN, OFP13_VERSION
  <2>4. Timed'
    BY <1>0, <1>4 DEF EchoClosed, Expires, Timed, Entrant, MovingOn, HelloKnown, Anew, Leaving
  <2>5. QED
    BY <2>1, <2>2, <2>3, <2>4
<1>5. CASE LifeCheck
  <2>1. TypeOK'
    BY <1>0, <1>5 DEF LifeCheck, Expires, TypeOK, Pcs, States, Goals, Timers
  <2>2. Positions' /\ Arguments' /\ Opened' /\ OneSession'
    BY <1>0, <1>5 DEF LifeCheck, Expires, Goals, States, Anew, Leaving
  <2>3. Greeted' /\ FeaturesKnown' /\ HelloKnown' /\ Anew'
    BY <1>0, <1>5 DEF LifeCheck, Expires, Greeted, FeaturesKnown, HelloKnown, Anew, Leaving,
             MovingOn, OFP_VERSION_UNKNOWN, OFP13_VERSION
  <2>4. Timed'
    BY <1>0, <1>5 DEF LifeCheck, Expires, Timed, Entrant, MovingOn, HelloKnown, Anew, Leaving
  <2>5. QED
    BY <2>1, <2>2, <2>3, <2>4
<1>6. CASE HndWakeup
  <2>1. TypeOK'
    <3>1. (wakeup \in BOOLEAN)'
      BY <1>6 DEF HndWakeup, TypeOK
    <3>2. QED
      BY <1>0, <1>6, <3>1 DEF HndWakeup, TypeOK, Pcs, States, Goals, Timers
  <2>2. Positions' /\ Arguments' /\ Opened' /\ OneSession'
    BY <1>0, <1>6 DEF HndWakeup, Expires, Goals, States, Anew, Leaving
  <2>3. Greeted' /\ FeaturesKnown' /\ HelloKnown' /\ Anew'
    BY <1>0, <1>6 DEF HndWakeup, Expires, Greeted, FeaturesKnown, HelloKnown, Anew, Leaving,
             MovingOn, OFP_VERSION_UNKNOWN, OFP13_VERSION
  <2>4. Timed'
    BY <1>0, <1>6 DEF HndWakeup, Expires, Timed, Entrant, MovingOn, HelloKnown, Anew, Leaving
  <2>5. QED
    BY <2>1, <2>2, <2>3, <2>4
<1>7. CASE HndServed
  <2>1. TypeOK'
    BY <1>0, <1>7 DEF HndServed, Expires, TypeOK, Pcs, States, Goals, Timers
  <2>2. Positions' /\ Arguments' /\ Opened' /\ OneSession'
    BY <1>0, <1>7 DEF HndServed, Expires, Goals, States, Anew, Leaving
  <2>3. Greeted' /\ FeaturesKnown' /\ HelloKnown' /\ Anew'
    BY <1>0, <1>7 DEF HndServed, Expires, Greeted, FeaturesKnown, HelloKnown, Anew, Leaving,
             MovingOn, OFP_VERSION_UNKNOWN, OFP13_VERSION
  <2>4. Timed'
    BY <1>0, <1>7 DEF HndServed, Expires, Timed, Entrant, MovingOn, HelloKnown, Anew, Leaving
  <2>5. QED
    BY <2>1, <2>2, <2>3, <2>4
<1>8. CASE HndDone
  <2>1. TypeOK'
    BY <1>0, <1>8 DEF HndDone, Expires, TypeOK, Pcs, States, Goals, Timers
  <2>2. Positions' /\ Arguments' /\ Opened' /\ OneSession'
    BY <1>0, <1>8 DEF HndDone, Expires, Goals, States, Anew, Leaving
  <2>3. Greeted' /\ FeaturesKnown' /\ HelloKnown' /\ Anew'
    BY <1>0, <1>8 DEF HndDone, Expires, Greeted, FeaturesKnown, HelloKnown, Anew, Leaving,
             MovingOn, OFP_VERSION_UNKNOWN, OFP13_VERSION
  <2>4. Timed'
    BY <1>0, <1>8 DEF HndDone, Expires, Timed, Entrant, MovingOn, HelloKnown, Anew, Leaving
  <2>5. QED
    BY <2>1, <2>2, <2>3, <2>4
<1> QED
  BY <1>1, <1>2, <1>3, <1>4, <1>5, <1>6, <1>7, <1>8

LEMMA ConnInit == Init => ConnInv
<1> SUFFICES ASSUME Init PROVE ConnInv
  OBVIOUS
<1>0. /\ pc = [t \in Threads |-> IF t = "app" THEN "start" ELSE "idle"]
      /\ goal = [t \in Threads |-> "DISCONNECTED"] /\ next = [t \in Threads |-> "idle"]
  BY DEF Init
<1>1. TypeOK
  <2>1. /\ reconnect \in BOOLEAN /\ passive \in BOOLEAN /\ early \in BOOLEAN /\ wakeup \in BOOLEAN
        /\ flag_hello_sent \in BOOLEAN /\ flag_hello_rcvd \in BOOLEAN
        /\ dpid \in BOOLEAN /\ lonely \in BOOLEAN
    BY DEF Init
  <2>2. pc \in [Threads -> Pcs] /\ goal \in [Threads -> Goals] /\ next \in [Threads -> Pcs]
    BY <1>0 DEF Pcs, Goals, States
  <2>3. \A t \in Threads : tlock = t <=> pc[t] \in {"neg_timer", "neg_hello"}
    BY <1>0 DEF Init, Threads
  <2>4. QED
    BY <1>0, <2>1, <2>2, <2>3 DEF Init, TypeOK, States, Threads
<1>2. Positions /\ Arguments /\ Opened /\ OneSession
  BY <1>0 DEF Init, Positions, Arguments, Opened, Opening, OneSession, Threads, Goals, States,
              Entering, Locking, Within, Judging, Greeting, Waiting, Failed, Raised, Failing
<1>3. Greeted /\ FeaturesKnown /\ Anew /\ HelloKnown /\ Timed
  BY <1>0 DEF Init, Greeted, FeaturesKnown, Anew, HelloKnown, Timed, Threads, Raised,
              Judging, Greeting, OFP_VERSION_UNKNOWN
<1>4. QED
  BY <1>1, <1>2, <1>3 DEF ConnInv

LEMMA ConnNext == ConnInv /\ [Next]_vars => ConnInv'
<1> SUFFICES ASSUME ConnInv, [Next]_vars PROVE ConnInv'
  OBVIOUS
<1>1. CASE App
  BY <1>1, AppSteps, AppDials DEF App
<1>2. CASE Rx
  BY <1>2, RxLinks, RxHears, RxGreets, RxReceives DEF Rx
<1>3. CASE Hnd
  BY <1>3, HndSteps DEF Hnd
<1>4. ASSUME NEW t \in Threads, Fsm(t) \/ Backoff(t) PROVE ConnInv'
  BY <1>4, FsmEnters, FsmLeaves, FsmRaises DEF Fsm
<1>5. CASE UNCHANGED vars
  BY <1>5 DEF vars, ConnInv, TypeOK, Positions, Arguments, Opened, Opening, Failing, OneSession, Greeted,
              FeaturesKnown, Anew, Leaving, HelloKnown, MovingOn, Timed, Entrant
<1>6. QED
  BY <1>1, <1>2, <1>3, <1>4, <1>5 DEF Next

LEMMA Invariance == Spec => []ConnInv
BY ConnInit, ConnNext, PTL DEF Spec

(***************************************************************************)
(* Type correctness; run_finite_state_machine() holds tlock exactly while  *)
(* it is in STATE_NEGOTIATING, in whatever thread.                         *)
(***************************************************************************)
THEOREM TypeCorrect == Spec => []TypeOK
<1>1. ConnInv => TypeOK
  BY DEF ConnInv
<1>2. QED
  BY <1>1, Invariance, PTL

(***************************************************************************)
(* A controller regards an OpenFlow 1.3 connection as established only     *)
(* after features_reply_rcvd(), in any interleaving of the HELLO, the      *)
(* timers, a disconnect and close().                                       *)
(***************************************************************************)
THEOREM FeaturesComeFirst == Spec => []FeaturesFirst
<1>1. ConnInv => FeaturesFirst
  BY DEF ConnInv, FeaturesKnown, FeaturesFirst
<1>2. QED
  BY <1>1, Invariance, PTL

(***************************************************************************)
(* Whenever no thread is inside the connection's code, a timer is running  *)
(* that ends the wait for the peer: the HELLO timer, the one for the       *)
(* features or a periodic check, for any number of sessions, and whichever *)
(* thread completes the connect.  Two cases are excused, as in Supervised: *)
(* an error that is none of HELLO's has stopped the timer (lonely), or the *)
(* app thread has made the handshake fall back (FallenBack).               *)
(***************************************************************************)
THEOREM AlwaysSupervised == Spec => []Supervised
<1>1. ConnInv => Supervised
  BY DEF ConnInv, Timed, Entrant, MovingOn, Supervised, FallenBack, Quiet, Entering, Judging,
         Threads
<1>2. QED
  BY <1>1, Invariance, PTL

(***************************************************************************)
(* The handshake never falls back while it runs in the thread that         *)
(* receives the HELLO, whatever errors, timeouts, close() and reconnects   *)
(* happen: a new session begins only when the last one has been left.  It  *)
(* may fall back only if the application's own thread begins it: after     *)
(* tcp_accept(), or if connect() succeeds at once.                         *)
(***************************************************************************)
THEOREM HandshakeMovesForward == Spec => OnlyEarlyFallsBack
<1>1. ASSUME ConnInv, [Next]_vars
      PROVE  [~early /\ state' \in {"NEGOTIATING", "NEGOTIATING2"}
                 => Rank[state] < Rank[state']]_state
  <2> SUFFICES ASSUME Next, state' # state, ~early, state' \in {"NEGOTIATING", "NEGOTIATING2"}
               PROVE  Rank[state] < Rank[state']
    BY <1>1 DEF vars
  <2>1. PICK t \in Threads : FsmNegotiating(t) \/ FsmNegotiating2(t)
    <3>1. ~App /\ ~Hnd
      BY DEF App, AppOpen, AppConnect, AppAccept, AppAcceptThrows, AppClose, Hnd, HelloExpired, FeaturesExpired,
             EchoExpired, EchoClosed, LifeCheck, HndWakeup, HndServed, HndDone
    <3>2. ~Rx
      BY DEF Rx, RxConnects, RxReconnect, RxClosed, RxHello, HelloReply,
             HelloSeen, HelloVersion, HelloTest, HelloDone, RxError, RxFeaturesReply,
             RxEchoReply, EchoReplyDone, RxMessage
    <3>3. PICK t \in Threads : Fsm(t)
      BY <3>1, <3>2 DEF Next, Backoff
    <3>4. QED
      BY <3>3 DEF Fsm, FsmTest, FsmDisconnect, FsmPending, FsmFailed, FsmNegotiatingTimer,
                  FsmNegotiatingHello, FsmEstablished, FsmCallback
  <2>2. t = "rx" /\ pc[t] = "fsm_body"
    BY <1>1, <2>1 DEF FsmNegotiating, FsmNegotiating2, At, ConnInv, Arguments, Opened, Threads,
                          Waiting, Failed
  <2>3. state \in States /\ state' \in States
    BY <1>1, <2>1 DEF ConnInv, TypeOK, States
  <2>4. CASE FsmNegotiating(t)
    <3>1. state \notin Raised /\ state' = "NEGOTIATING"
      BY <1>1, <2>2, <2>4 DEF FsmNegotiating, ConnInv, Anew, Leaving, Entering
    <3>2. QED
      BY <2>3, <3>1 DEF Rank, Raised, States
  <2>5. CASE FsmNegotiating2(t)
    <3>1. state \notin {"NEGOTIATING2", "ESTABLISHED"} /\ state' = "NEGOTIATING2"
      BY <1>1, <2>2, <2>5 DEF FsmNegotiating2, ConnInv, Greeted
    <3>2. QED
      BY <2>3, <3>1 DEF Rank, States
  <2>6. QED
    BY <2>1, <2>4, <2>5
<1>2. QED
  BY <1>1, Invariance, PTL DEF Spec, OnlyEarlyFallsBack
=============================================================================
