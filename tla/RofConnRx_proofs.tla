------------------------- MODULE RofConnRx_proofs -------------------------
(***************************************************************************)
(* Proofs about the receive path, for any sizes, weights and contents, and *)
(* for any number of sessions.                                             *)
(***************************************************************************)
EXTENDS RofConnRx, FiniteSetTheorems, SequenceTheorems, WellFoundedInduction, TLAPS

Wired == Message \union {HELLO, FEATURES_REPLY, EOF}

(***************************************************************************)
(* The rx thread has a message in its hand where it is going to use one.   *)
(***************************************************************************)
RxInv == /\ TypeOK
         /\ rxpc \in {"store", "capacity"} => rxmsg \in Message

LEMMA QueueTail ==
    ASSUME NEW S, NEW s \in Seq(S), s # <<>>
    PROVE  Tail(s) \in Seq(S) /\ Len(Tail(s)) = Len(s) - 1 /\ Head(s) \in S /\ Len(s) \in Nat \ {0}
  OBVIOUS

LEMMA QueueAppend ==
    ASSUME NEW S, NEW s \in Seq(S), NEW e \in S
    PROVE  Append(s, e) \in Seq(S) /\ Len(Append(s, e)) = Len(s) + 1 /\ Len(s) \in Nat
  OBVIOUS

(***************************************************************************)
(* No step of the peer, the application or the two threads breaks a type.  *)
(***************************************************************************)
LEMMA TypeStep == RxInv /\ [Next]_vars => RxInv'
<1> SUFFICES ASSUME RxInv, [Next]_vars PROVE RxInv'
  OBVIOUS
<1> USE DEF RxInv
<1>0. /\ \A q \in QueueIds : q \in 0..3 /\ rxqueues[q] \in Seq(Msgs)
      /\ wire \in Seq(Wired) /\ scenario \in Scenario /\ QUEUE_OAM \in QueueIds
      /\ session \in Nat /\ queue_id \in 0..3 /\ keep_running \in 0..1
  BY ScenariosAssumption DEF TypeOK, QueueIds, QUEUE_OAM, QUEUE_MGMT, QUEUE_FLOW, QUEUE_PKT, Wired,
     Scenario
<1>1. CASE Peer
  <2>1. ASSUME NEW m \in Wired, PeerSends(m), greeted' \in BOOLEAN, featured' \in BOOLEAN
        PROVE  RxInv'
    <3>1. wire' \in Seq(Wired) /\ edge' \in BOOLEAN
      BY <1>0, <2>1, QueueAppend DEF PeerSends, TypeOK
    <3>2. QED
      BY <2>1, <3>1 DEF PeerSends, TypeOK, Wired, connvars, wakevars, workvars, rxvars, hndvars
  <2>2. CASE PeerHello
    BY <2>1, <2>2 DEF PeerHello, Wired, TypeOK
  <2>3. CASE PeerFeatures
    BY <2>1, <2>3 DEF PeerFeatures, Wired, TypeOK
  <2>4. CASE PeerMessage
    <3>1. [class : scenario.classes, msg : scenario.msgs] \subseteq Wired
      BY <1>0 DEF Scenario, Wired, Message
    <3>2. PICK m \in Wired : PeerSends(m)
      BY <2>4, <3>1 DEF PeerMessage
    <3>3. QED
      BY <2>1, <2>4, <3>2 DEF PeerMessage, TypeOK
  <2>5. CASE PeerClose
    BY <2>1, <2>5 DEF PeerClose, Wired, TypeOK
  <2>6. QED
    BY <1>1, <2>2, <2>3, <2>4, <2>5 DEF Peer
<1>2. CASE AppClose
  <2>1. wire' = <<>> /\ wire' \in Seq(Wired)
    BY <1>2 DEF AppClose, SockClose
  <2>2. QED
    BY <1>2, <2>1 DEF AppClose, SockClose, TypeOK, wakevars, workvars, rxvars, hndvars, Wired
<1>3. CASE AppOpen
  <2>1. session' \in 1..scenario.sessions
    BY <1>0, <1>3 DEF AppOpen, TypeOK, Scenario
  <2>2. QED
    BY <1>3, <2>1 DEF AppOpen, TypeOK, wakevars, workvars, rxvars, hndvars
<1>4. ASSUME RxUnchanged PROVE UNCHANGED <<scenario, greeted, featured, session, rx_thread_working,
             rx_thread_scheduled, hndpc, queue_id, num, keep_running>>
  BY <1>4 DEF RxUnchanged, workvars, hndvars
<1>5. CASE RxReadEvent
  BY <1>4, <1>5 DEF RxReadEvent, TypeOK, wakevars
<1>6. CASE RxWakeup
  BY <1>4, <1>6 DEF RxWakeup, TypeOK, fdvars
<1>7. CASE RxReturn
  BY <1>4, <1>7 DEF RxReturn, TypeOK, fdvars, wakevars
<1>8. ASSUME wire # <<>> PROVE Head(wire) \in Wired /\ Tail(wire) \in Seq(Wired)
  BY <1>0, <1>8, QueueTail
<1>9. CASE RxHandshake
  <2>1. wire' \in Seq(Wired) /\ state' \in {"NEGOTIATING", "NEGOTIATING2", "ESTABLISHED", "DISCONNECTED"}
    BY <1>8, <1>9 DEF RxHandshake, Reading, TypeOK
  <2>2. QED
    BY <1>4, <1>9, <2>1 DEF RxHandshake, TypeOK, fdvars, wakevars, rxvars, Wired
<1>10. CASE RxMessage
  <2>1. wire' \in Seq(Wired) /\ Head(wire) \in Message
    BY <1>8, <1>10 DEF RxMessage, Reading
  <2>2. QED
    BY <1>4, <1>10, <2>1 DEF RxMessage, TypeOK, fdvars, wakevars, rxvars, Wired
<1>11. CASE RxStore
  <2>1. rxmsg \in Message /\ rxmsg.class \in QueueIds /\ rxmsg.msg \in Msgs
    BY <1>11 DEF RxStore, Message
  <2>2. Append(rxqueues[rxmsg.class], rxmsg.msg) \in Seq(Msgs)
    BY <1>0, <2>1, QueueAppend
  <2>3. rxqueues' \in [QueueIds -> Seq(Msgs)]
    BY <1>11, <2>1, <2>2 DEF RxStore, TypeOK
  <2>4. QED
    BY <1>4, <1>11, <2>1, <2>3 DEF RxStore, TypeOK, fdvars, wakevars
<1>12. CASE RxCapacity
  BY <1>4, <1>12 DEF RxCapacity, TypeOK, fdvars, wakevars
<1>13. CASE RxDisable
  BY <1>4, <1>13 DEF RxDisable, TypeOK, fdvars, wakevars
<1>14. CASE RxDropReadFd
  BY <1>4, <1>14 DEF RxDropReadFd, TypeOK, fdvars, wakevars
<1>15. CASE RxWake
  BY <1>4, <1>15 DEF RxWake, TypeOK, fdvars
<1>16. CASE RxPeerShutdown
  <2>1. wire' = <<>> /\ wire' \in Seq(Wired)
    BY <1>16 DEF RxPeerShutdown, SockClose
  <2>2. QED
    BY <1>4, <1>16, <2>1 DEF RxPeerShutdown, SockClose, TypeOK, wakevars, Wired
<1>17. CASE RxClosed \/ RxClosedLate
  BY <1>4, <1>17 DEF RxClosed, RxClosedLate, TypeOK, fdvars, wakevars
<1>18. ASSUME HndUnchanged PROVE UNCHANGED <<scenario, state, sock, session, wire, greeted, featured,
                                             rxpc, rxmsg>>
  BY <1>18 DEF HndUnchanged, connvars, peervars, rxvars
<1>19. CASE HndWakeup
  <2>1. keep_running' \in 0..1 /\ num' \in Nat /\ queue_id' \in QueueIds
    BY <1>0, <1>19 DEF HndWakeup
  <2>2. QED
    BY <1>18, <1>19, <2>1 DEF HndWakeup, TypeOK, fdvars
<1>20. CASE HndStop
  <2>1. keep_running' \in 0..1 /\ num' \in Nat /\ queue_id' \in QueueIds
    BY <1>0, <1>20 DEF HndStop
  <2>2. rx_thread_scheduled' \in BOOLEAN
    BY <1>20 DEF HndStop
  <2>3. /\ rx_thread_working' = FALSE /\ hndpc' = "epoll" /\ HndUnchanged
        /\ UNCHANGED <<readfd, edge, rx_disabled, rxwake, hndwake, rxqueues>>
    BY <1>20 DEF HndStop, fdvars, wakevars
  <2>4. QED
    BY <1>18, <2>1, <2>2, <2>3 DEF TypeOK
<1>21. ASSUME NextQueue PROVE queue_id' \in QueueIds /\ num' \in Nat /\ hndpc' \in {"scan", "again"}
  BY <1>0, <1>21 DEF NextQueue, QueueIds, QUEUE_OAM, QUEUE_MGMT, QUEUE_FLOW, QUEUE_PKT, QUEUE_MAX
<1>22. CASE HndScan
  BY <1>18, <1>21, <1>22 DEF HndScan, TypeOK, fdvars, wakevars, workvars
<1>23. ASSUME rxqueues[queue_id] # <<>>, rxqueues' = [rxqueues EXCEPT ![queue_id] = Tail(@)]
       PROVE  rxqueues' \in [QueueIds -> Seq(Msgs)]
  <2>1. Tail(rxqueues[queue_id]) \in Seq(Msgs)
    BY <1>0, <1>23, QueueTail DEF TypeOK
  <2>2. QED
    BY <1>23, <2>1 DEF TypeOK
<1>24. CASE HndTake
  BY <1>0, <1>18, <1>23, <1>24 DEF HndTake, TypeOK, fdvars, wakevars, workvars
<1>25. CASE HndThrow
  BY <1>0, <1>18, <1>23, <1>25 DEF HndThrow, TypeOK, fdvars, wakevars, workvars
<1>26. CASE HndQueueEmpty
  BY <1>18, <1>26 DEF HndQueueEmpty, TypeOK, fdvars, wakevars, workvars
<1>27. CASE HndReschedule
  BY <1>18, <1>21, <1>27 DEF HndReschedule, TypeOK, fdvars, workvars
<1>28. CASE HndAgain
  BY <1>0, <1>18, <1>28 DEF HndAgain, TypeOK, fdvars, wakevars, workvars
<1>29. CASE HndDone
  BY <1>18, <1>29 DEF HndDone, TypeOK, fdvars, wakevars
<1>30. CASE HndTestDisabled
  BY <1>18, <1>30 DEF HndTestDisabled, TypeOK, fdvars, wakevars, workvars
<1>31. CASE HndEnable
  BY <1>18, <1>31 DEF HndEnable, TypeOK, fdvars, wakevars, workvars
<1>32. CASE HndAddReadFd
  BY <1>18, <1>32 DEF HndAddReadFd, TypeOK, fdvars, wakevars, workvars
<1>33. CASE HndWakeRx
  BY <1>18, <1>33 DEF HndWakeRx, TypeOK, fdvars, workvars
<1>34. CASE UNCHANGED vars
  BY <1>34 DEF vars, TypeOK
<1>35. QED
  BY <1>1, <1>2, <1>3, <1>5, <1>6, <1>7, <1>9, <1>10, <1>11, <1>12, <1>13, <1>14, <1>15, <1>16,
     <1>17, <1>19, <1>20, <1>22, <1>24, <1>25, <1>26, <1>27, <1>28, <1>29, <1>30, <1>31, <1>32,
     <1>33, <1>34 DEF Next, App, Rx, Hnd

(***************************************************************************)
(* The initial state has the types.                                        *)
(***************************************************************************)
LEMMA InitTypes == Init => RxInv
<1> SUFFICES ASSUME Init PROVE RxInv
  OBVIOUS
<1>1. scenario \in Scenario /\ 1 \in 1..scenario.sessions
  BY ScenariosAssumption DEF Init, Scenario
<1>2. wire \in Seq(Wired) /\ rxqueues \in [QueueIds -> Seq(Msgs)] /\ session \in 1..scenario.sessions
  BY <1>1 DEF Init
<1>3. queue_id \in QueueIds /\ num \in Nat /\ keep_running \in 0..1
  BY DEF Init, QueueIds
<1>4. QED
  BY <1>2, <1>3 DEF Init, RxInv, TypeOK, Wired

(***************************************************************************)
(* Back pressure.  A round of handle_rx_messages() takes a message from    *)
(* each queue that has one before it enables reception, unless a handler   *)
(* throws; so a queue that the current round has passed has room for one   *)
(* more message within the bound, and at the bound the rx thread is        *)
(* stopped, or about to stop itself.                                       *)
(***************************************************************************)
Bound == QueueMaxSize + session

Stopping(q) == \/ rx_disabled \/ sock = "IDLE" \/ rxpc = "disable"
               \/ rxpc = "capacity" /\ rxmsg.class = q

Passed(q) == \/ hndpc \in {"again", "done", "disabled", "enable"}
             \/ /\ hndpc \in {"scan", "take", "reschedule"}
                /\ \/ keep_running = 0 \/ q < queue_id
                   \/ q = queue_id /\ (hndpc = "reschedule" \/ num > 0)

Within(q) == /\ Len(rxqueues[q]) <= Bound
             /\ Len(rxqueues[q]) = Bound => Stopping(q)
             /\ Passed(q) => Len(rxqueues[q]) < Bound
             /\ Passed(q) /\ Len(rxqueues[q]) + 1 = Bound => Stopping(q)

BoundInv == /\ RxInv
            /\ rx_disabled => rxpc \notin {"store", "capacity", "disable"}
            /\ sock = "IDLE" => state = "DISCONNECTED" \/ rxpc = "closed"
            /\ \A q \in QueueIds : Within(q)

NoneThrows == \A c \in Scenarios : ~c.throws

(***************************************************************************)
(* Steps that neither store a message nor bring a pass forward nor let the *)
(* rx thread go on.                                                        *)
(***************************************************************************)
LEMMA BoundKept ==
    ASSUME BoundInv, RxInv', UNCHANGED <<rxqueues, session>>,
           rx_disabled' => rxpc' \notin {"store", "capacity", "disable"},
           sock' = "IDLE" => state' = "DISCONNECTED" \/ rxpc' = "closed",
           \A q \in QueueIds : Stopping(q) => Stopping(q)' \/ Len(rxqueues[q]) < QueueMaxSize,
           \A q \in QueueIds : Passed(q)' => Passed(q) \/ rxqueues[q] = <<>>
    PROVE  BoundInv'
<1>1. /\ session \in Nat \ {0} /\ QueueMaxSize \in Nat \ {0} /\ Bound \in Nat /\ Bound' = Bound
      /\ Bound - 1 >= QueueMaxSize
  BY SizesAssumption, ScenariosAssumption DEF BoundInv, RxInv, TypeOK, Bound, Scenario
<1>2. ASSUME NEW q \in QueueIds PROVE Within(q)'
  <2>1. Len(rxqueues[q]) \in Nat /\ rxqueues[q]' = rxqueues[q] /\ Within(q)
    BY DEF BoundInv, RxInv, TypeOK
  <2>2. Len(rxqueues[q]) <= Bound /\ (Len(rxqueues[q]) = Bound => Stopping(q)')
    BY <1>1, <2>1 DEF Within
  <2>3. ASSUME Passed(q)'
        PROVE  Len(rxqueues[q]) < Bound /\ (Len(rxqueues[q]) + 1 = Bound => Stopping(q)')
    <3>1. CASE Passed(q)
      BY <1>1, <2>1, <3>1 DEF Within
    <3>2. CASE rxqueues[q] = <<>>
      <4>1. Len(rxqueues[q]) = 0
        BY <3>2
      <4>2. QED
        BY <1>1, <4>1
    <3>3. QED
      BY <2>3, <3>1, <3>2
  <2>4. QED
    BY <1>1, <2>1, <2>2, <2>3 DEF Within
<1>3. QED
  BY <1>2 DEF BoundInv

LEMMA BoundStep ==
    ASSUME NoneThrows, BoundInv, [Next]_vars
    PROVE  BoundInv'
<1>0. RxInv /\ RxInv'
  BY TypeStep DEF BoundInv
<1>1. /\ session \in Nat \ {0} /\ QueueMaxSize \in Nat \ {0} /\ Bound \in Nat
      /\ Bound - 1 >= QueueMaxSize
      /\ \A q \in QueueIds : Len(rxqueues[q]) \in Nat /\ rxqueues[q] \in Seq(Msgs) /\ q \in 0..3
      /\ rxqueues \in [QueueIds -> Seq(Msgs)]
      /\ queue_id \in 0..3 /\ queue_id \in QueueIds /\ keep_running \in 0..1 /\ num \in Nat
  <2>1. /\ session \in Nat \ {0} /\ QueueMaxSize \in Nat \ {0} /\ Bound \in Nat
        /\ Bound - 1 >= QueueMaxSize
    BY <1>0, SizesAssumption, ScenariosAssumption DEF RxInv, TypeOK, Bound, Scenario
  <2>2. QueueIds \subseteq 0..3
    BY DEF QueueIds, QUEUE_OAM, QUEUE_MGMT, QUEUE_FLOW, QUEUE_PKT
  <2>3. /\ rxqueues \in [QueueIds -> Seq(Msgs)]
        /\ \A q \in QueueIds : Len(rxqueues[q]) \in Nat /\ rxqueues[q] \in Seq(Msgs)
        /\ queue_id \in QueueIds /\ keep_running \in 0..1 /\ num \in Nat
    BY <1>0 DEF RxInv, TypeOK
  <2>4. QED
    BY <2>1, <2>2, <2>3
<1>2. ~scenario.throws
  BY <1>0 DEF NoneThrows, RxInv, TypeOK
<1>3. /\ rx_disabled => rxpc \notin {"store", "capacity", "disable"}
      /\ sock = "IDLE" => state = "DISCONNECTED" \/ rxpc = "closed"
      /\ \A q \in QueueIds : Within(q)
  BY DEF BoundInv
\* What the rx thread leaves alone, and crofconn's thread.
<1>4. ASSUME RxUnchanged PROVE UNCHANGED session /\ \A q : Passed(q)' = Passed(q)
  BY <1>4 DEF RxUnchanged, hndvars, Passed
<1>5. ASSUME HndUnchanged PROVE UNCHANGED <<session, state, sock, rxpc, rxmsg>>
  BY <1>5 DEF HndUnchanged, connvars, rxvars
<1>6. CASE Peer
  <2>1. \E m : PeerSends(m)
    BY <1>6 DEF Peer, PeerHello, PeerFeatures, PeerMessage, PeerClose
  <2>2. UNCHANGED <<session, state, sock, rx_disabled, rxqueues, rxpc, rxmsg, hndpc, queue_id, num,
                    keep_running>>
    BY <2>1 DEF PeerSends, connvars, rxvars, hndvars
  <2>3. QED
    BY <1>0, <1>3, <2>2, BoundKept DEF Stopping, Passed
<1>7. CASE AppClose
  <2>1. /\ sock' = "IDLE" /\ state' = "DISCONNECTED" /\ rx_disabled' = FALSE
        /\ UNCHANGED <<session, rxqueues, rxpc, rxmsg, hndpc, queue_id, num, keep_running>>
    BY <1>7 DEF AppClose, SockClose, rxvars, hndvars
  <2>2. QED
    BY <1>0, <2>1, BoundKept DEF Stopping, Passed
<1>8. CASE AppOpen
  <2>1. /\ session' = session + 1 /\ sock' = "ESTABLISHED"
        /\ UNCHANGED <<rx_disabled, rxqueues, rxpc, rxmsg, hndpc, queue_id, num, keep_running>>
    BY <1>8 DEF AppOpen, rxvars, hndvars
  <2>2. \A q \in QueueIds : Within(q)'
    BY <1>1, <1>3, <2>1 DEF Within, Bound, Passed
  <2>3. QED
    BY <1>0, <1>3, <2>1, <2>2 DEF BoundInv
<1>9. CASE RxReadEvent \/ RxWakeup \/ RxReturn \/ RxHandshake \/ RxMessage
  <2>1. /\ UNCHANGED <<sock, rx_disabled, rxqueues>> /\ RxUnchanged
        /\ rxpc \in {"epoll", "loop"} /\ rxpc' \in {"epoll", "loop", "store"}
        /\ rxpc' = "store" => ~rx_disabled /\ sock = "ESTABLISHED"
        /\ sock = "IDLE" => state' = state
    BY <1>9 DEF RxReadEvent, RxWakeup, RxReturn, RxHandshake, RxMessage, Reading, rxvars
  <2>2. QED
    BY <1>0, <1>3, <1>4, <2>1, BoundKept DEF Stopping
<1>10. CASE RxStore
  <2>0. rxmsg \in Message /\ rxmsg.class \in QueueIds /\ rxmsg.msg \in Msgs /\ ~rx_disabled
        /\ UNCHANGED <<sock, state, rx_disabled>> /\ rxpc = "store" /\ RxUnchanged
    BY <1>0, <1>3, <1>10 DEF RxStore, RxInv, Message
  <2>1. CASE state \notin {"NEGOTIATING2", "ESTABLISHED"}
    <3>1. UNCHANGED rxqueues /\ rxpc' = "loop"
      BY <1>10, <2>1 DEF RxStore
    <3>2. QED
      BY <1>0, <1>3, <1>4, <2>0, <3>1, BoundKept DEF Stopping
  <2>2. CASE state \in {"NEGOTIATING2", "ESTABLISHED"}
    <3> DEFINE c == rxmsg.class
    <3>1. /\ rxqueues' = [rxqueues EXCEPT ![c] = Append(@, rxmsg.msg)]
          /\ rxpc' = "capacity" /\ UNCHANGED rxmsg
      BY <1>10, <2>2 DEF RxStore
    <3>2. \A q \in QueueIds : ~Stopping(q)
      BY <1>3, <2>0, <2>2 DEF Stopping
    <3>3. /\ Len(rxqueues'[c]) = Len(rxqueues[c]) + 1
          /\ \A q \in QueueIds : q # c => rxqueues'[q] = rxqueues[q]
      BY <1>1, <2>0, <3>1, QueueAppend
    <3>4. Bound' = Bound /\ \A q : Passed(q)' = Passed(q)
      BY <1>4, <2>0 DEF Bound
    <3>5. ASSUME NEW q \in QueueIds PROVE Within(q)'
      <4>1. /\ Len(rxqueues[q]) < Bound
            /\ Passed(q) => Len(rxqueues[q]) + 1 < Bound
        BY <1>1, <1>3, <3>2 DEF Within
      <4>2. CASE q = c
        <5>1. Stopping(q)'
          BY <3>1, <4>2 DEF Stopping
        <5>2. QED
          BY <1>1, <3>3, <3>4, <4>1, <4>2, <5>1 DEF Within
      <4>3. CASE q # c
        BY <1>1, <3>3, <3>4, <4>1, <4>3 DEF Within
      <4>4. QED
        BY <4>2, <4>3
    <3>6. QED
      BY <1>0, <1>3, <2>0, <2>2, <3>1, <3>5 DEF BoundInv
  <2>3. QED
    BY <2>1, <2>2
<1>11. CASE RxCapacity
  <2>1. /\ rxpc = "capacity" /\ rxmsg \in Message /\ rxmsg.class \in QueueIds
        /\ rxpc' = (IF capacity(rxmsg.class) = 0 THEN "disable" ELSE "wake")
        /\ UNCHANGED <<sock, state, rx_disabled, rxqueues>> /\ RxUnchanged
    BY <1>0, <1>11 DEF RxCapacity, RxInv, Message
  <2>2. rxpc' = "disable" \/ Len(rxqueues[rxmsg.class]) < QueueMaxSize
    BY <1>1, <2>1 DEF capacity
  <2>3. QED
    BY <1>0, <1>3, <1>4, <2>1, <2>2, BoundKept DEF Stopping
<1>12. CASE RxDisable
  <2>1. rxpc' = "dropfd" /\ rx_disabled' = TRUE /\ UNCHANGED <<sock, state, rxqueues>> /\ RxUnchanged
        /\ rxpc = "disable"
    BY <1>12 DEF RxDisable
  <2>2. QED
    BY <1>0, <1>3, <1>4, <2>1, BoundKept DEF Stopping
<1>13. CASE RxDropReadFd \/ RxWake
  <2>1. /\ UNCHANGED <<sock, state, rx_disabled, rxqueues>> /\ RxUnchanged
        /\ rxpc \in {"dropfd", "wake"} /\ rxpc' \in {"wake", "loop"}
    BY <1>13 DEF RxDropReadFd, RxWake
  <2>2. QED
    BY <1>0, <1>3, <1>4, <2>1, BoundKept DEF Stopping
<1>14. CASE RxPeerShutdown
  <2>1. sock' = "IDLE" /\ rxpc' = "closed" /\ UNCHANGED rxqueues /\ RxUnchanged
    BY <1>14 DEF RxPeerShutdown, SockClose
  <2>2. QED
    BY <1>0, <1>4, <2>1, BoundKept DEF Stopping
<1>15. CASE RxClosed \/ RxClosedLate
  <2>1. /\ state' = "DISCONNECTED" /\ rxpc = "closed" /\ rxpc' = "epoll"
        /\ UNCHANGED <<sock, rx_disabled, rxqueues>> /\ RxUnchanged
    BY <1>15 DEF RxClosed, RxClosedLate
  <2>2. QED
    BY <1>0, <1>4, <2>1, BoundKept DEF Stopping
<1>16. CASE HndWakeup \/ HndStop \/ HndDone \/ HndTestDisabled \/ HndAddReadFd \/ HndWakeRx
  <2>1. /\ UNCHANGED <<rx_disabled, rxqueues>> /\ HndUnchanged
        /\ \A q \in QueueIds : Passed(q)' => Passed(q)
    <3>1. CASE HndWakeup
      BY <1>1, <3>1 DEF HndWakeup, Passed, QUEUE_OAM
    <3>2. CASE HndStop
      BY <3>2 DEF HndStop, Passed
    <3>3. CASE HndDone \/ HndTestDisabled \/ HndAddReadFd \/ HndWakeRx
      BY <3>3 DEF HndDone, HndTestDisabled, HndAddReadFd, HndWakeRx, Passed
    <3>4. QED
      BY <1>16, <3>1, <3>2, <3>3
  <2>2. QED
    BY <1>0, <1>3, <1>5, <2>1, BoundKept DEF Stopping
<1>17. ASSUME NextQueue, UNCHANGED keep_running,
              NEW q \in QueueIds, hndpc \in {"scan", "reschedule"}, Passed(q)'
       PROVE  Passed(q) \/ q = queue_id
  <2>1. CASE queue_id + 1 < QUEUE_MAX
    BY <1>1, <1>17, <2>1 DEF NextQueue, Passed
  <2>2. CASE ~(queue_id + 1 < QUEUE_MAX)
    BY <1>1, <1>17, <2>2 DEF Passed, QUEUE_MAX
  <2>3. QED
    BY <2>1, <2>2
<1>18. CASE HndScan
  <2>1. UNCHANGED <<rx_disabled, rxqueues, keep_running>> /\ HndUnchanged /\ hndpc = "scan"
    BY <1>18 DEF HndScan
  <2>2. \A q \in QueueIds : Passed(q)' => Passed(q) \/ rxqueues[q] = <<>>
    <3>1. CASE rxqueues[queue_id] = <<>>
      BY <1>17, <1>18, <2>1, <3>1 DEF HndScan
    <3>2. CASE rxqueues[queue_id] # <<>>
      BY <1>18, <3>2 DEF HndScan, Passed
    <3>3. QED
      BY <3>1, <3>2
  <2>3. QED
    BY <1>0, <1>3, <1>5, <2>1, <2>2, BoundKept DEF Stopping
<1>19. CASE HndTake
  <2>1. /\ rxqueues[queue_id] # <<>> /\ rxqueues' = [rxqueues EXCEPT ![queue_id] = Tail(@)]
        /\ UNCHANGED <<rx_disabled, keep_running, queue_id>> /\ HndUnchanged /\ hndpc = "take"
        /\ hndpc' \in {"take", "reschedule"}
        /\ IF num + 1 < scenario.weight THEN num' = num + 1 ELSE num' = 0 /\ hndpc' = "reschedule"
    BY <1>19 DEF HndTake
  <2>2. /\ Len(rxqueues'[queue_id]) = Len(rxqueues[queue_id]) - 1
        /\ Len(rxqueues[queue_id]) \in Nat \ {0}
        /\ \A q \in QueueIds : q # queue_id => rxqueues'[q] = rxqueues[q]
    BY <1>1, <2>1, QueueTail
  <2>3. Bound' = Bound /\ \A q : Stopping(q)' = Stopping(q)
    BY <1>5, <2>1 DEF Bound, Stopping
  <2>4. ASSUME NEW q \in QueueIds, q # queue_id PROVE Within(q)'
    <3>1. Passed(q)' => Passed(q)
      BY <2>1, <2>4 DEF Passed
    <3>2. QED
      BY <1>3, <2>2, <2>3, <2>4, <3>1 DEF Within
  <2>5. Within(queue_id)' /\ UNCHANGED queue_id
    <3>1. PICK q \in QueueIds : q = queue_id
      BY <1>1
    <3>2. Within(q) /\ Len(rxqueues'[q]) = Len(rxqueues[q]) - 1 /\ Len(rxqueues[q]) \in Nat \ {0}
      BY <1>3, <2>2, <3>1
    <3>3. Within(q)'
      BY <1>1, <2>3, <3>2 DEF Within
    <3>4. QED
      BY <2>1, <3>1, <3>3
  <2>6. QED
    BY <1>0, <1>3, <1>5, <2>1, <2>4, <2>5 DEF BoundInv
<1>20. CASE HndQueueEmpty
  <2>1. /\ UNCHANGED <<rx_disabled, rxqueues, keep_running, queue_id>> /\ HndUnchanged
        /\ rxqueues[queue_id] = <<>> /\ hndpc = "take" /\ hndpc' = "reschedule"
    BY <1>20 DEF HndQueueEmpty
  <2>2. \A q \in QueueIds : Passed(q)' => Passed(q) \/ rxqueues[q] = <<>>
    BY <2>1 DEF Passed
  <2>3. QED
    BY <1>0, <1>3, <1>5, <2>1, <2>2, BoundKept DEF Stopping
<1>21. CASE HndReschedule
  <2>1. /\ UNCHANGED <<rx_disabled, rxqueues, keep_running>> /\ HndUnchanged /\ NextQueue
        /\ hndpc = "reschedule"
    BY <1>21 DEF HndReschedule
  <2>2. \A q \in QueueIds : Passed(q)' => Passed(q)
    BY <1>17, <2>1 DEF Passed
  <2>3. QED
    BY <1>0, <1>3, <1>5, <2>1, <2>2, BoundKept DEF Stopping
<1>22. CASE HndAgain
  <2>1. UNCHANGED <<rx_disabled, rxqueues>> /\ HndUnchanged /\ hndpc = "again"
    BY <1>22 DEF HndAgain
  <2>2. \A q \in QueueIds : Passed(q)
    BY <2>1 DEF Passed
  <2>3. QED
    BY <1>0, <1>3, <1>5, <2>1, <2>2, BoundKept DEF Stopping
<1>23. CASE HndEnable
  <2>1. /\ UNCHANGED rxqueues /\ HndUnchanged /\ rx_disabled' = FALSE
        /\ hndpc = "enable" /\ hndpc' \in {"addfd", "epoll"}
    BY <1>23 DEF HndEnable
  <2>2. \A q \in QueueIds : Passed(q) /\ ~Passed(q)'
    BY <2>1 DEF Passed
  <2>3. \A q \in QueueIds : Within(q)'
    BY <1>1, <1>3, <1>5, <2>1, <2>2 DEF Within, Bound
  <2>4. QED
    BY <1>0, <1>3, <1>5, <2>1, <2>3 DEF BoundInv
<1>24. CASE UNCHANGED vars
  BY <1>0, <1>3, <1>24, BoundKept DEF vars, Stopping, Passed
<1>25. QED
  BY <1>2, <1>6, <1>7, <1>8, <1>9, <1>10, <1>11, <1>12, <1>13, <1>14, <1>15, <1>16, <1>18, <1>19,
     <1>20, <1>21, <1>22, <1>23, <1>24 DEF Next, App, Rx, Hnd, HndThrow

(***************************************************************************)
(* QueuesSound: if no handler throws, handle_recv() and                    *)
(* handle_rx_messages() let no queue outgrow its maximum by more than one  *)
(* message per session, for all sizes and weights.                         *)
(***************************************************************************)
THEOREM BackPressure == ASSUME NoneThrows PROVE Spec => []QueuesSound
<1>1. Init => BoundInv
  <2> SUFFICES ASSUME Init PROVE BoundInv
    OBVIOUS
  <2>1. RxInv
    BY InitTypes
  <2>2. \A q \in QueueIds : Len(rxqueues[q]) = 0 /\ ~Passed(q)
    BY DEF Init, Passed
  <2>3. Bound \in Nat \ {0}
    BY SizesAssumption DEF Init, Bound
  <2>4. \A q \in QueueIds : Within(q)
    BY <2>2, <2>3 DEF Within
  <2>5. QED
    BY <2>1, <2>4 DEF Init, BoundInv
<1>2. BoundInv => QueuesSound
  BY DEF BoundInv, RxInv, QueuesSound, QueueBounded, Within, Bound
<1>3. BoundInv /\ [Next]_vars => BoundInv'
  BY BoundStep
<1>4. QED
  BY <1>1, <1>2, <1>3, PTL DEF Spec

(***************************************************************************)
(* The end of back pressure.  Whoever disables reception passes on to its  *)
(* test: the rx thread wakes the other one, unless that one is at work     *)
(* and will look at rx_disabled itself.                                    *)
(***************************************************************************)
Working == hndpc \in {"scan", "take", "reschedule", "again", "done"}
Attentive == \/ rxpc \in {"dropfd", "wake"} \/ hndwake
             \/ Working \/ hndpc \in {"disabled", "enable"}
Ends == EOF \in {wire[i] : i \in DOMAIN wire}
StandInv ==
    Undisturbed =>
        /\ state \in {"NEGOTIATING", "ESTABLISHED"}
        /\ rx_thread_working <=> Working
        /\ rxpc \in {"store", "capacity", "disable", "dropfd", "wake"} => state = "ESTABLISHED"
        /\ rxpc # "closed" /\ ~Ends
        /\ rx_disabled => Attentive
        /\ Working => state = "ESTABLISHED"
        /\ hndwake => state = "ESTABLISHED"

NoneNegotiates == \A c \in Scenarios : ~c.controller

(***************************************************************************)
(* What the peer has sent: a shutdown only where one is allowed.           *)
(***************************************************************************)
LEMMA WireEnds ==
    ASSUME NEW w \in Seq(Wired), NEW m \in Wired
    PROVE  /\ EOF \in {Append(w, m)[i] : i \in DOMAIN Append(w, m)} =>
                  m = EOF \/ EOF \in {w[i] : i \in DOMAIN w}
           /\ w # <<>> => /\ Head(w) = EOF => EOF \in {w[i] : i \in DOMAIN w}
                          /\ EOF \in {Tail(w)[i] : i \in DOMAIN Tail(w)} =>
                                 EOF \in {w[i] : i \in DOMAIN w}
<1>1. \A i \in DOMAIN Append(w, m) : Append(w, m)[i] = m \/ (i \in DOMAIN w /\ Append(w, m)[i] = w[i])
  OBVIOUS
<1>2. w # <<>> => 1 \in DOMAIN w /\ Head(w) = w[1]
  OBVIOUS
<1>3. w # <<>> => \A i \in DOMAIN Tail(w) : i + 1 \in DOMAIN w /\ Tail(w)[i] = w[i + 1]
  OBVIOUS
<1>4. QED
  BY <1>1, <1>2, <1>3

LEMMA ScenarioKept == [Next]_vars => scenario' = scenario
<1>1. ASSUME Rx PROVE scenario' = scenario
  BY <1>1 DEF Rx, RxReadEvent, RxWakeup, RxReturn, RxHandshake, RxMessage, RxStore, RxCapacity,
     RxDisable, RxDropReadFd, RxWake, RxPeerShutdown, RxClosed, RxClosedLate, RxUnchanged
<1>2. ASSUME Hnd PROVE scenario' = scenario
  BY <1>2 DEF Hnd, HndWakeup, HndStop, HndScan, HndTake, HndThrow, HndQueueEmpty, HndReschedule,
     HndAgain, HndDone, HndTestDisabled, HndEnable, HndAddReadFd, HndWakeRx, HndUnchanged, connvars
<1>3. ASSUME Peer \/ App PROVE scenario' = scenario
  BY <1>3 DEF Peer, PeerHello, PeerFeatures, PeerMessage, PeerClose, PeerSends, App, AppClose,
     AppOpen, connvars
<1>4. QED
  BY <1>1, <1>2, <1>3 DEF Next, vars

LEMMA PeerGoesOn ==
    ASSUME TypeOK, ~scenario.closes, Peer
    PROVE  \E m \in Wired : PeerSends(m) /\ m # EOF
<1>1. CASE PeerHello \/ PeerFeatures
  BY <1>1 DEF PeerHello, PeerFeatures, Wired, HELLO, FEATURES_REPLY, EOF
<1>2. CASE PeerMessage
  <2>1. scenario.classes \subseteq QueueIds /\ scenario.msgs \subseteq Msgs
    BY ScenariosAssumption DEF TypeOK, Scenario
  <2>2. PICK m \in [class : scenario.classes, msg : scenario.msgs] : PeerSends(m)
    BY <1>2 DEF PeerMessage
  <2>3. m \in Message
    BY <2>1 DEF Message
  <2>4. m # EOF
    BY <2>3 DEF Message, EOF
  <2>5. QED
    BY <2>2, <2>3, <2>4 DEF Wired
<1>3. QED
  BY <1>1, <1>2 DEF Peer, PeerClose

LEMMA StandStep ==
    ASSUME NoneNegotiates, RxInv, StandInv, [Next]_vars
    PROVE  StandInv'
<1>0. RxInv /\ RxInv'
  BY TypeStep
<1>1. scenario' = scenario
  BY ScenarioKept
<1> SUFFICES ASSUME Undisturbed
             PROVE  /\ state' \in {"NEGOTIATING", "ESTABLISHED"}
                    /\ rx_thread_working' <=> Working'
                    /\ rxpc' \in {"store", "capacity", "disable", "dropfd", "wake"} =>
                           state' = "ESTABLISHED"
                    /\ rxpc' # "closed" /\ ~Ends'
                    /\ rx_disabled' => Attentive'
                    /\ Working' => state' = "ESTABLISHED"
                    /\ hndwake' => state' = "ESTABLISHED"
  BY <1>1 DEF StandInv, Undisturbed
<1>2. /\ ~scenario.closes /\ ~scenario.throws /\ ~scenario.controller /\ wire \in Seq(Wired)
      /\ rx_thread_working \in BOOLEAN
  BY <1>0 DEF Undisturbed, NoneNegotiates, RxInv, TypeOK, Wired
<1>3. /\ state \in {"NEGOTIATING", "ESTABLISHED"}
      /\ rx_thread_working <=> Working
      /\ rxpc \in {"store", "capacity", "disable", "dropfd", "wake"} => state = "ESTABLISHED"
      /\ rxpc # "closed" /\ ~Ends
      /\ rx_disabled => Attentive
      /\ Working => state = "ESTABLISHED"
      /\ hndwake => state = "ESTABLISHED"
  BY DEF StandInv
<1>4. CASE Peer
  <2>1. PICK m \in Wired : PeerSends(m) /\ m # EOF
    BY <1>0, <1>2, <1>4, PeerGoesOn DEF RxInv
  <2>2. wire' = Append(wire, m) /\ UNCHANGED <<state, rx_disabled, hndwake, rx_thread_working, rxpc, hndpc>>
    BY <2>1 DEF PeerSends, connvars, wakevars, workvars, rxvars, hndvars
  <2>3. ~Ends'
    BY <1>2, <1>3, <2>1, <2>2, WireEnds DEF Ends
  <2>4. QED
    BY <1>3, <2>2, <2>3 DEF Working, Attentive
<1>5. CASE App
  BY <1>2, <1>3, <1>5 DEF App, AppClose, AppOpen
<1>6. ASSUME UNCHANGED wire PROVE Ends' = Ends
  BY <1>6 DEF Ends
<1>7. ASSUME wire # <<>>, wire' = Tail(wire) PROVE ~Ends'
  BY <1>2, <1>3, <1>7, WireEnds DEF Ends, Wired
<1>8. ASSUME RxUnchanged PROVE UNCHANGED <<rx_thread_working, hndpc>> /\ Working' = Working
  BY <1>8 DEF RxUnchanged, workvars, hndvars, Working
<1>9. CASE RxReadEvent \/ RxWakeup \/ RxReturn
  <2>1. /\ RxUnchanged /\ rxpc' \in {"epoll", "loop"} /\ rxpc \in {"epoll", "loop"}
        /\ UNCHANGED <<state, wire, rx_disabled, hndwake>>
    BY <1>9 DEF RxReadEvent, RxWakeup, RxReturn, wakevars
  <2>2. QED
    BY <1>3, <1>6, <1>8, <2>1 DEF Attentive
<1>10. CASE RxHandshake
  <2>1. /\ RxUnchanged /\ UNCHANGED <<rxpc, rx_disabled, hndwake>> /\ wire # <<>> /\ wire' = Tail(wire)
    BY <1>10 DEF RxHandshake, Reading, wakevars, rxvars
  <2>2. state' \in {state, "ESTABLISHED"}
    BY <1>2, <1>10 DEF RxHandshake
  <2>3. QED
    BY <1>3, <1>7, <1>8, <2>1, <2>2 DEF Attentive
<1>11. CASE RxMessage
  <2>1. /\ RxUnchanged /\ UNCHANGED <<state, rx_disabled, hndwake>> /\ wire # <<>>
        /\ wire' = Tail(wire) /\ ~rx_disabled /\ rxpc = "loop"
        /\ (rxpc' = "store" /\ state \in {"NEGOTIATING2", "ESTABLISHED"}) \/ rxpc' = "loop"
    BY <1>11 DEF RxMessage, Reading, wakevars, rxvars
  <2>2. QED
    BY <1>3, <1>7, <1>8, <2>1 DEF Attentive
<1>12. CASE RxStore \/ RxCapacity \/ RxDisable \/ RxDropReadFd
  <2>1. /\ RxUnchanged /\ UNCHANGED <<state, wire, hndwake>>
        /\ rxpc \in {"store", "capacity", "disable", "dropfd"}
        /\ rxpc' \in {"loop", "capacity", "disable", "dropfd", "wake"}
        /\ rx_disabled' => rxpc' \in {"dropfd", "wake"} \/ (rx_disabled /\ rxpc # "dropfd")
    BY <1>12 DEF RxStore, RxCapacity, RxDisable, RxDropReadFd, wakevars
  <2>2. QED
    BY <1>3, <1>6, <1>8, <2>1 DEF Attentive
<1>13. CASE RxWake
  <2>1. /\ RxUnchanged /\ UNCHANGED <<state, wire, rx_disabled>> /\ rxpc = "wake" /\ rxpc' = "loop"
        /\ hndwake' = (hndwake \/ (state = "ESTABLISHED" /\ ~rx_thread_working))
    BY <1>13 DEF RxWake
  <2>2. state = "ESTABLISHED" /\ (hndwake' \/ Working)
    BY <1>3, <2>1
  <2>3. QED
    BY <1>3, <1>6, <1>8, <2>1, <2>2 DEF Attentive
<1>14. ~RxPeerShutdown /\ ~RxClosed /\ ~RxClosedLate
  BY <1>2, <1>3, WireEnds DEF RxPeerShutdown, RxClosed, RxClosedLate, Reading, Ends, Wired
<1>15. ASSUME HndUnchanged PROVE UNCHANGED <<state, wire, rxpc>> /\ Ends' = Ends
  BY <1>15 DEF HndUnchanged, connvars, peervars, rxvars, Ends
<1>16. CASE HndWakeup
  <2>1. /\ HndUnchanged /\ rx_thread_working' = TRUE /\ hndpc' = "scan" /\ hndwake' = FALSE
        /\ UNCHANGED rx_disabled /\ hndwake
    BY <1>16 DEF HndWakeup
  <2>2. Working'
    BY <2>1 DEF Working
  <2>3. QED
    BY <1>3, <1>15, <2>1, <2>2 DEF Attentive
<1>17. ~HndStop \/ ~(hndpc \in {"scan", "take", "again"})
  BY <1>3 DEF HndStop, Working
<1>18. CASE HndScan \/ HndTake \/ HndQueueEmpty \/ HndReschedule \/ HndAgain
  <2>1. /\ HndUnchanged /\ UNCHANGED <<rx_disabled, rx_thread_working>>
        /\ Working /\ Working' /\ (hndwake' => hndwake \/ state = "ESTABLISHED")
    BY <1>3, <1>18 DEF HndScan, HndTake, HndQueueEmpty, HndReschedule, HndAgain, NextQueue, Working,
       wakevars, workvars
  <2>2. QED
    BY <1>3, <1>15, <2>1 DEF Attentive
<1>19. CASE HndDone \/ HndTestDisabled \/ HndEnable
  <2>1. /\ HndUnchanged /\ UNCHANGED hndwake
        /\ ~Working' /\ rx_thread_working' = FALSE
        /\ rx_disabled' => rx_disabled /\ hndpc' \in {"disabled", "enable"}
    <3>1. CASE HndDone
      BY <3>1 DEF HndDone, Working, wakevars
    <3>2. CASE HndTestDisabled
      BY <1>2, <1>3, <3>2 DEF HndTestDisabled, Working, wakevars, workvars
    <3>3. CASE HndEnable
      BY <1>2, <1>3, <3>3 DEF HndEnable, Working, wakevars, workvars
    <3>4. QED
      BY <1>19, <3>1, <3>2, <3>3
  <2>2. QED
    BY <1>3, <1>15, <2>1 DEF Attentive
<1>20. CASE HndAddReadFd \/ HndWakeRx
  <2>1. /\ HndUnchanged /\ UNCHANGED <<hndwake, rx_disabled, rx_thread_working>>
        /\ hndpc \in {"addfd", "wakerx"} /\ hndpc' \in {"wakerx", "epoll"}
    BY <1>20 DEF HndAddReadFd, HndWakeRx, wakevars, workvars
  <2>2. QED
    BY <1>3, <1>15, <2>1 DEF Attentive, Working
<1>21. CASE UNCHANGED vars
  BY <1>3, <1>21 DEF vars, Ends, Working, Attentive
<1>22. QED
  BY <1>2, <1>4, <1>5, <1>9, <1>10, <1>11, <1>12, <1>13, <1>14, <1>16, <1>17, <1>18, <1>19, <1>20,
     <1>21 DEF Next, Rx, Hnd, HndThrow, HndStop

(***************************************************************************)
(* NoStandstill: reception that a full queue has disabled is enabled again *)
(* as long as no handler throws and nobody closes, however the two threads *)
(* interleave.  It takes a connection that is established by HELLO alone:  *)
(* in NEGOTIATING2 nobody is woken.                                        *)
(***************************************************************************)
THEOREM BackPressureEnds == ASSUME NoneNegotiates PROVE Spec => []NoStandstill
<1> DEFINE Inv == RxInv /\ StandInv
<1>1. Init => Inv
  <2> SUFFICES ASSUME Init PROVE Inv
    OBVIOUS
  <2>1. ~Ends
    BY DEF Init, Ends
  <2>2. QED
    BY <2>1, InitTypes DEF Init, StandInv, Working
<1>2. Inv => NoStandstill
  BY DEF StandInv, NoStandstill, StandstillFree, Asleep, Attentive, Working
<1>3. Inv /\ [Next]_vars => Inv'
  BY TypeStep, StandStep
<1>4. QED
  BY <1>1, <1>2, <1>3, PTL DEF Spec
-----------------------------------------------------------------------------
(***************************************************************************)
(* The refinement.  First, about OnWire: a finite set of positions has one *)
(* ascending enumeration.                                                  *)
(***************************************************************************)
LEMMA SmallestIn ==
    ASSUME NEW S \in SUBSET Nat, S # {}
    PROVE  \E m \in S : \A n \in S : m <= n
<1> DEFINE Less == {p \in Nat \X Nat : p[1] < p[2]}
<1>1. \A a, b \in Nat : <<a, b>> \notin Less => b <= a
  OBVIOUS
<1>2. IsWellFoundedOn(Less, Nat)
  BY NatLessThanWellFounded, Zenon DEF OpToRel
<1> HIDE DEF Less
<1>3. \E m \in S : \A n \in S : <<n, m>> \notin Less
  BY <1>2, WFMin
<1>4. QED
  BY <1>1, <1>3

\* An ascending enumeration leaves no position out.
LEMMA AscendingOnto ==
    ASSUME NEW P \in SUBSET Nat, IsFiniteSet(P), NEW f \in Ascending(P)
    PROVE  /\ Cardinality(P) \in Nat /\ f \in [1..Cardinality(P) -> P]
           /\ \A i, j \in 1..Cardinality(P) : i < j <=> f[i] < f[j]
           /\ \A p \in P : \E i \in 1..Cardinality(P) : f[i] = p
<1> DEFINE n == Cardinality(P)
<1>1. n \in Nat
  BY FS_CardinalityType
<1>2. f \in [1..n -> P] /\ \A i, j \in 1..n : i < j => f[i] < f[j]
  BY DEF Ascending
<1>3. IsFiniteSet(1..n) /\ Cardinality(1..n) = n
  BY <1>1, FS_Interval
<1> HIDE DEF n
<1>4. \A i, j \in 1..n : i < j <=> f[i] < f[j]
  <2>1. ASSUME NEW i \in 1..n, NEW j \in 1..n, f[i] < f[j] PROVE i < j
    <3>1. f[i] \in Nat /\ f[j] \in Nat /\ (j < i => f[j] < f[i])
      BY <1>2
    <3>2. QED
      BY <1>1, <2>1, <3>1
  <2>2. QED
    BY <1>2, <2>1
<1>5. ASSUME NEW p \in P, \A i \in 1..n : f[i] # p PROVE FALSE
  <2>1. f \in [1..n -> P \ {p}]
    BY <1>2, <1>5
  <2>2. IsFiniteSet(P \ {p}) /\ Cardinality(P \ {p}) = n - 1
    BY FS_RemoveElement DEF n
  <2>3. PICK i, j \in 1..n : i # j /\ f[i] = f[j]
    <3> DEFINE D == 1..n
               R == P \ {p}
    <3>1. /\ IsFiniteSet(D) /\ IsFiniteSet(R) /\ Cardinality(R) < Cardinality(D)
          /\ f \in [D -> R]
      BY <1>1, <1>3, <2>1, <2>2
    <3> HIDE DEF D, R
    <3>2. \E i, j \in D : i # j /\ f[i] = f[j]
      BY <3>1, FS_PigeonHole
    <3>3. QED
      BY <3>2 DEF D
  <2>4. f[i] \in P /\ f[i] \in Nat /\ (i < j \/ j < i)
    <3>1. f[i] \in P
      BY <1>2
    <3>2. i \in Int /\ j \in Int
      BY <1>1
    <3>3. f[i] \in Nat
      BY <3>1
    <3>4. i < j \/ j < i
      BY <2>3, <3>2
    <3>5. QED
      BY <3>1, <3>3, <3>4
  <2>5. QED
    BY <1>2, <2>3, <2>4
<1>6. QED
  BY <1>1, <1>2, <1>4, <1>5 DEF n

LEMMA AscendingUnique ==
    ASSUME NEW P \in SUBSET Nat, IsFiniteSet(P), NEW f \in Ascending(P), NEW g \in Ascending(P)
    PROVE  f = g
<1> DEFINE n == Cardinality(P)
           Differ == {k \in 1..n : f[k] # g[k]}
<1>1. /\ n \in Nat /\ f \in [1..n -> P] /\ \A i, j \in 1..n : i < j <=> f[i] < f[j]
      /\ \A p \in P : \E i \in 1..n : f[i] = p
  BY AscendingOnto
<1>2. /\ g \in [1..n -> P] /\ \A i, j \in 1..n : i < j <=> g[i] < g[j]
      /\ \A p \in P : \E i \in 1..n : g[i] = p
  BY AscendingOnto
<1> HIDE DEF n
<1>3. ASSUME Differ # {} PROVE FALSE
  <2>1. PICK k \in Differ : \A i \in Differ : k <= i
    <3>1. Differ \in SUBSET Nat
      BY <1>1
    <3> HIDE DEF Differ
    <3>2. QED
      BY <1>3, <3>1, SmallestIn
  <2>2. k \in 1..n /\ f[k] # g[k] /\ f[k] \in P /\ g[k] \in P /\ f[k] \in Nat /\ g[k] \in Nat
    BY <1>1, <1>2, <2>1
  <2>3. ASSUME NEW i \in 1..n, i < k PROVE f[i] = g[i]
    BY <1>1, <2>1, <2>2, <2>3
  <2>4. CASE f[k] < g[k]
    <3>1. PICK j \in 1..n : g[j] = f[k]
      BY <1>2, <2>2
    <3>2. j < k
      BY <1>2, <2>2, <2>4, <3>1
    <3>3. f[j] = f[k] /\ f[j] < f[k]
      BY <1>1, <2>2, <2>3, <3>1, <3>2
    <3>4. QED
      BY <2>2, <3>3
  <2>5. CASE g[k] < f[k]
    <3>1. PICK j \in 1..n : f[j] = g[k]
      BY <1>1, <2>2
    <3>2. j < k
      BY <1>1, <2>2, <2>5, <3>1
    <3>3. g[j] = g[k] /\ g[j] < g[k]
      BY <1>2, <2>2, <2>3, <3>1, <3>2
    <3>4. QED
      BY <2>2, <3>3
  <2>6. QED
    BY <2>2, <2>4, <2>5
<1>4. \A k \in 1..n : f[k] = g[k]
  BY <1>3
<1>5. QED
  BY <1>1, <1>2, <1>4

\* A position behind all others is enumerated last.
LEMMA AscendingLonger ==
    ASSUME NEW P \in SUBSET Nat, IsFiniteSet(P), NEW f \in Ascending(P),
           NEW p \in Nat, \A i \in P : i < p
    PROVE  /\ IsFiniteSet(P \union {p}) /\ Cardinality(P \union {p}) = Cardinality(P) + 1
           /\ [k \in 1..(Cardinality(P) + 1) |-> IF k = Cardinality(P) + 1 THEN p ELSE f[k]]
                  \in Ascending(P \union {p})
<1> DEFINE n == Cardinality(P)
           Q == P \union {p}
           g == [k \in 1..(n + 1) |-> IF k = n + 1 THEN p ELSE f[k]]
<1>1. n \in Nat /\ f \in [1..n -> P] /\ \A i, j \in 1..n : i < j <=> f[i] < f[j]
  BY AscendingOnto
<1>2. IsFiniteSet(Q) /\ Cardinality(Q) = n + 1
  BY FS_AddElement
<1> HIDE DEF n
<1>3. g \in [1..(n + 1) -> Q]
  BY <1>1
<1>4. ASSUME NEW i \in 1..(n + 1), NEW j \in 1..(n + 1), i < j PROVE g[i] < g[j]
  <2>1. i \in 1..n /\ g[i] = f[i] /\ f[i] \in P
    BY <1>1, <1>4
  <2>2. CASE j = n + 1
    BY <2>1, <2>2
  <2>3. CASE j # n + 1
    BY <1>1, <1>4, <2>1, <2>3
  <2>4. QED
    BY <2>2, <2>3
<1>5. g \in Ascending(Q)
  BY <1>2, <1>3, <1>4 DEF Ascending
<1>6. QED
  BY <1>2, <1>5 DEF n

\* Positions that move down by one keep their order.
LEMMA AscendingMoved ==
    ASSUME NEW P \in SUBSET (Nat \ {0}), IsFiniteSet(P), NEW f \in Ascending(P),
           NEW Q, Q = {i - 1 : i \in P}
    PROVE  /\ Q \in SUBSET Nat /\ IsFiniteSet(Q) /\ Cardinality(Q) = Cardinality(P)
           /\ [k \in 1..Cardinality(P) |-> f[k] - 1] \in Ascending(Q)
<1> DEFINE n == Cardinality(P)
           g == [k \in 1..n |-> f[k] - 1]
           h == [i \in P |-> i - 1]
<1>1. n \in Nat /\ f \in [1..n -> P] /\ \A i, j \in 1..n : i < j <=> f[i] < f[j]
  <2>1. P \in SUBSET Nat
    OBVIOUS
  <2>2. QED
    BY <2>1, AscendingOnto
<1>2. IsFiniteSet(Q) /\ Cardinality(Q) = n
  <2>1. h \in Bijection(P, Q)
    <3>1. h \in [P -> Q]
      OBVIOUS
    <3>2. \A i, j \in P : h[i] = h[j] => i = j
      OBVIOUS
    <3>3. \A q \in Q : \E i \in P : h[i] = q
      OBVIOUS
    <3> HIDE DEF h
    <3>4. QED
      BY <3>1, <3>2, <3>3 DEF Bijection, Injection, Surjection, IsInjective
  <2>2. ExistsBijection(P, Q)
    BY <2>1 DEF ExistsBijection
  <2>3. QED
    BY <2>2, FS_Bijection
<1> HIDE DEF n, h
<1>3. g \in [1..n -> Q] /\ Q \in SUBSET Nat
  <2>1. \A k \in 1..n : f[k] \in P /\ f[k] - 1 \in Q
    BY <1>1
  <2>2. QED
    BY <2>1
<1>4. ASSUME NEW i \in 1..n, NEW j \in 1..n, i < j PROVE g[i] < g[j]
  <2>1. f[i] \in P /\ f[j] \in P /\ f[i] < f[j] /\ g[i] = f[i] - 1 /\ g[j] = f[j] - 1
    BY <1>1, <1>4
  <2>2. f[i] \in Nat /\ f[j] \in Nat
    BY <2>1
  <2>3. QED
    BY <2>1, <2>2
<1>5. g \in Ascending(Q)
  BY <1>2, <1>3, <1>4 DEF Ascending
<1>6. QED
  BY <1>2, <1>3, <1>5 DEF n

\* Position 1 is enumerated first.
LEMMA AscendingRest ==
    ASSUME NEW P \in SUBSET (Nat \ {0}), IsFiniteSet(P), NEW f \in Ascending(P), 1 \in P
    PROVE  /\ f[1] = 1 /\ Cardinality(P) \in Nat \ {0}
           /\ IsFiniteSet(P \ {1}) /\ Cardinality(P \ {1}) = Cardinality(P) - 1
           /\ [k \in 1..(Cardinality(P) - 1) |-> f[k + 1]] \in Ascending(P \ {1})
<1> DEFINE n == Cardinality(P)
           Q == P \ {1}
           g == [k \in 1..(n - 1) |-> f[k + 1]]
<1>1. /\ n \in Nat /\ f \in [1..n -> P] /\ \A i, j \in 1..n : i < j <=> f[i] < f[j]
      /\ \A p \in P : \E i \in 1..n : f[i] = p
  <2>1. P \in SUBSET Nat
    OBVIOUS
  <2>2. QED
    BY <2>1, AscendingOnto
<1>2. IsFiniteSet(Q) /\ Cardinality(Q) = n - 1
  BY FS_RemoveElement
<1> HIDE DEF n
<1>3. PICK j \in 1..n : f[j] = 1
  BY <1>1
<1>4. 1 \in 1..n /\ f[1] \in Nat \ {0} /\ f[1] = 1
  <2>1. 1 \in 1..n /\ f[1] \in P
    BY <1>1, <1>3
  <2>2. ~(f[1] < f[j])
    <3>1. f[1] \in Nat \ {0}
      BY <2>1
    <3>2. QED
      BY <1>3, <3>1
  <2>3. ~(j < 1) /\ (1 < j => f[1] < f[j])
    BY <1>1, <1>3, <2>1
  <2>4. j = 1
    BY <1>1, <2>2, <2>3
  <2>5. QED
    BY <1>3, <2>1, <2>4
<1>5. g \in [1..(n - 1) -> Q]
  <2>1. ASSUME NEW k \in 1..(n - 1) PROVE f[k + 1] \in Q
    <3>1. k + 1 \in 1..n /\ 1 < k + 1
      BY <1>1
    <3>2. f[k + 1] \in P /\ f[1] < f[k + 1]
      BY <1>1, <1>4, <3>1
    <3>3. QED
      BY <1>4, <3>2
  <2>2. QED
    BY <2>1
<1>6. ASSUME NEW i \in 1..(n - 1), NEW k \in 1..(n - 1), i < k PROVE g[i] < g[k]
  <2>1. i + 1 \in 1..n /\ k + 1 \in 1..n /\ i + 1 < k + 1
    BY <1>1, <1>6
  <2>2. QED
    BY <1>1, <2>1
<1>7. g \in Ascending(Q)
  BY <1>2, <1>5, <1>6 DEF Ascending
<1>8. QED
  BY <1>1, <1>2, <1>4, <1>7 DEF n

(***************************************************************************)
(* What the messages of a class on the wire are, of any wire.              *)
(***************************************************************************)
OwnOf(w, q) == {i \in DOMAIN w : w[i] \in Message /\ w[i].class = q}
OnWireOf(w, q) ==
    LET place == CHOOSE f \in Ascending(OwnOf(w, q)) : TRUE
    IN  [k \in 1..Cardinality(OwnOf(w, q)) |-> w[place[k]].msg]
Sorted(w, q) == Ascending(OwnOf(w, q)) # {}

LEMMA OwnPositions ==
    ASSUME NEW w \in Seq(Wired), NEW q
    PROVE  /\ OwnOf(w, q) \in SUBSET (Nat \ {0}) /\ OwnOf(w, q) \in SUBSET Nat
           /\ IsFiniteSet(OwnOf(w, q)) /\ OwnOf(w, q) \subseteq 1..Len(w) /\ Len(w) \in Nat
<1>1. DOMAIN w = 1..Len(w) /\ Len(w) \in Nat
  OBVIOUS
<1>2. OwnOf(w, q) \in SUBSET (1..Len(w))
  BY <1>1 DEF OwnOf
<1>3. IsFiniteSet(OwnOf(w, q))
  <2>1. IsFiniteSet(1..Len(w))
    BY <1>1, FS_Interval
  <2>2. QED
    BY <1>2, <2>1, FS_Subset
<1>4. QED
  BY <1>1, <1>2, <1>3

\* Any ascending enumeration gives OnWire.
LEMMA OnWireBy ==
    ASSUME NEW w \in Seq(Wired), NEW q, NEW f \in Ascending(OwnOf(w, q))
    PROVE  /\ OnWireOf(w, q) = [k \in 1..Cardinality(OwnOf(w, q)) |-> w[f[k]].msg]
           /\ OnWireOf(w, q) \in Seq(Msgs) /\ Len(OnWireOf(w, q)) = Cardinality(OwnOf(w, q))
<1> DEFINE P == OwnOf(w, q)
           place == CHOOSE g \in Ascending(P) : TRUE
           n == Cardinality(P)
           z == [k \in 1..n |-> w[f[k]].msg]
<1>1. P \in SUBSET Nat /\ IsFiniteSet(P)
  BY OwnPositions
<1>2. place \in Ascending(P) /\ f \in Ascending(P)
  OBVIOUS
<1>3. place = f
  <2> HIDE DEF P, place
  <2>1. QED
    BY <1>1, <1>2, AscendingUnique
<1>4. n \in Nat /\ f \in [1..n -> P]
  <2> HIDE DEF P
  <2>1. QED
    BY <1>1, <1>2, AscendingOnto
<1>5. OnWireOf(w, q) = z
  BY <1>3 DEF OnWireOf
<1>6. \A k \in 1..n : w[f[k]].msg \in Msgs
  <2>1. \A i \in P : w[i].msg \in Msgs
    BY DEF OwnOf, Message
  <2> HIDE DEF P, n
  <2>2. QED
    BY <1>4, <2>1
<1> HIDE DEF P, n
<1>7. z \in Seq(Msgs) /\ Len(z) = n
  BY <1>4, <1>6
<1>8. QED
  BY <1>5, <1>7 DEF P, n

LEMMA OnWireEmpty ==
    ASSUME NEW q
    PROVE  Sorted(<<>>, q) /\ OnWireOf(<<>>, q) = <<>>
<1>1. OwnOf(<<>>, q) = {} /\ Cardinality({}) = 0
  BY FS_EmptySet DEF OwnOf
<1>2. [k \in {} |-> 0] \in Ascending({})
  BY <1>1 DEF Ascending
<1>3. [k \in 1..0 |-> 0] = <<>> /\ 1..0 = {}
  OBVIOUS
<1>4. OnWireOf(<<>>, q) = <<>>
  BY <1>1, <1>3 DEF OnWireOf
<1>5. QED
  BY <1>1, <1>2, <1>4 DEF Sorted

\* The peer sends at the end of the wire.
LEMMA OnWireAppend ==
    ASSUME NEW w \in Seq(Wired), NEW m \in Wired, NEW q \in QueueIds, Sorted(w, q)
    PROVE  /\ Sorted(Append(w, m), q)
           /\ OnWireOf(Append(w, m), q) = IF m \in Message /\ m.class = q
                                          THEN Append(OnWireOf(w, q), m.msg) ELSE OnWireOf(w, q)
<1> DEFINE v == Append(w, m)
           N == Len(w) + 1
           P == OwnOf(w, q)
           n == Cardinality(P)
<1>1. /\ v \in Seq(Wired) /\ Len(w) \in Nat /\ Len(v) = N /\ v[N] = m
      /\ DOMAIN v = 1..N /\ DOMAIN w = 1..Len(w) /\ \A i \in 1..Len(w) : v[i] = w[i]
  OBVIOUS
<1>2. P \in SUBSET Nat /\ IsFiniteSet(P) /\ P \subseteq 1..Len(w)
  BY OwnPositions
<1>3. PICK f \in Ascending(P) : TRUE
  BY DEF Sorted
<1>4. n \in Nat /\ f \in [1..n -> P]
  BY <1>2, AscendingOnto
<1>5. \A i \in P : v[i] = w[i]
  BY <1>1, <1>2
<1>6. OnWireOf(w, q) = [k \in 1..n |-> w[f[k]].msg] /\ OnWireOf(w, q) \in Seq(Msgs)
      /\ Len(OnWireOf(w, q)) = n
  BY OnWireBy
<1>7. CASE m \in Message /\ m.class = q
  <2> DEFINE g == [k \in 1..(n + 1) |-> IF k = n + 1 THEN N ELSE f[k]]
             y == OnWireOf(w, q)
             z == OnWireOf(v, q)
  <2>1. OwnOf(v, q) = P \union {N}
    BY <1>1, <1>7 DEF OwnOf
  <2>2. g \in Ascending(OwnOf(v, q)) /\ Cardinality(OwnOf(v, q)) = n + 1
    <3>1. N \in Nat /\ \A i \in P : i < N
      BY <1>1, <1>2
    <3> HIDE DEF P, N
    <3>2. QED
      BY <1>2, <2>1, <3>1, AscendingLonger
  <2>3. z = [k \in 1..(n + 1) |-> v[g[k]].msg] /\ z \in Seq(Msgs) /\ Len(z) = n + 1
    <3> HIDE DEF g, n, v
    <3>1. QED
      BY <1>1, <2>2, OnWireBy
  <2>4. m.msg \in Msgs
    BY <1>7 DEF Message
  <2>5. y \in Seq(Msgs) /\ Len(y) = n
    BY <1>6
  <2>6. y = [k \in 1..n |-> w[f[k]].msg]
    BY <1>6
  <2> HIDE DEF P, n, N, v, z, y
  <2>7. ASSUME NEW k \in 1..(n + 1) PROVE z[k] = Append(y, m.msg)[k]
    <3>1. CASE k = n + 1
      <4>1. z[k] = m.msg
        BY <1>1, <1>4, <2>3, <3>1
      <4>2. Append(y, m.msg)[k] = m.msg
        BY <1>4, <2>4, <2>5, <3>1, AppendProperties
      <4>3. QED
        BY <4>1, <4>2
    <3>2. CASE k # n + 1
      <4>1. k \in 1..n /\ f[k] \in P
        BY <1>4, <3>2
      <4>2. z[k] = w[f[k]].msg
        BY <1>5, <2>3, <3>2, <4>1
      <4>3. Append(y, m.msg)[k] = y[k]
        BY <1>4, <2>4, <2>5, <4>1, AppendProperties
      <4>4. y[k] = w[f[k]].msg
        BY <2>6, <4>1
      <4>5. QED
        BY <4>2, <4>3, <4>4
    <3>3. QED
      BY <3>1, <3>2
  <2>8. Append(y, m.msg) \in Seq(Msgs) /\ Len(Append(y, m.msg)) = n + 1
    BY <1>4, <2>4, <2>5, AppendProperties
  <2>9. z = Append(y, m.msg)
    BY <2>3, <2>7, <2>8, SeqEqual
  <2>10. QED
    BY <1>7, <2>2, <2>9 DEF z, y, v, Sorted
<1>8. CASE ~(m \in Message /\ m.class = q)
  <2>1. OwnOf(v, q) = P
    BY <1>1, <1>8 DEF OwnOf
  <2>2. OnWireOf(v, q) = [k \in 1..n |-> v[f[k]].msg]
    <3>1. f \in Ascending(OwnOf(v, q))
      BY <2>1
    <3> HIDE DEF v
    <3>2. OnWireOf(v, q) = [k \in 1..Cardinality(OwnOf(v, q)) |-> v[f[k]].msg]
      BY <1>1, <3>1, OnWireBy
    <3>3. QED
      BY <2>1, <3>2
  <2>3. \A k \in 1..n : v[f[k]].msg = w[f[k]].msg
    BY <1>4, <1>5
  <2>4. OnWireOf(v, q) = OnWireOf(w, q)
    BY <1>6, <2>2, <2>3
  <2>5. QED
    BY <1>3, <1>8, <2>1, <2>4 DEF Sorted
<1>9. QED
  BY <1>7, <1>8

\* recv_message() reads at the front of the wire.
LEMMA OnWireTail ==
    ASSUME NEW w \in Seq(Wired), w # <<>>, NEW q \in QueueIds, Sorted(w, q)
    PROVE  /\ Sorted(Tail(w), q)
           /\ OnWireOf(w, q) = IF Head(w) \in Message /\ Head(w).class = q
                               THEN <<Head(w).msg>> \o OnWireOf(Tail(w), q)
                               ELSE OnWireOf(Tail(w), q)
<1> DEFINE t == Tail(w)
           P == OwnOf(w, q)
           R == P \ {1}
           Q == OwnOf(t, q)
           n == Cardinality(P)
           r == Cardinality(R)
           y == OnWireOf(w, q)
           z == OnWireOf(t, q)
<1>1. /\ t \in Seq(Wired) /\ Len(w) \in Nat \ {0} /\ Len(t) = Len(w) - 1 /\ Head(w) = w[1]
      /\ DOMAIN w = 1..Len(w) /\ DOMAIN t = 1..(Len(w) - 1)
      /\ \A i \in 1..(Len(w) - 1) : t[i] = w[i + 1]
  OBVIOUS
<1>2. P \in SUBSET (Nat \ {0}) /\ P \in SUBSET Nat /\ IsFiniteSet(P) /\ P \subseteq 1..Len(w)
  BY OwnPositions
<1>3. PICK f \in Ascending(P) : TRUE
  BY DEF Sorted
<1>4. n \in Nat /\ f \in [1..n -> P]
  BY <1>2, AscendingOnto
<1>5. y = [k \in 1..n |-> w[f[k]].msg] /\ y \in Seq(Msgs) /\ Len(y) = n
  BY OnWireBy
<1>6. Q = {i - 1 : i \in R}
  <2>1. ASSUME NEW i \in Q PROVE i \in {p - 1 : p \in R}
    <3>1. i \in 1..(Len(w) - 1) /\ w[i + 1] \in Message /\ w[i + 1].class = q
      BY <1>1 DEF OwnOf
    <3>2. i + 1 \in R /\ i = (i + 1) - 1
      BY <1>1, <3>1 DEF OwnOf
    <3>3. QED
      BY <3>2
  <2>2. ASSUME NEW i \in R PROVE i - 1 \in Q
    <3>1. i \in 2..Len(w) /\ w[i] \in Message /\ w[i].class = q
      BY <1>1 DEF OwnOf
    <3>2. i - 1 \in 1..(Len(w) - 1) /\ t[i - 1] = w[i]
      BY <1>1, <3>1
    <3>3. QED
      BY <1>1, <3>1, <3>2 DEF OwnOf
  <2>3. QED
    BY <2>1, <2>2
<1>7. \A i \in R : i - 1 \in Nat /\ t[i - 1] = w[i]
  <2>1. ASSUME NEW i \in R PROVE i - 1 \in Nat /\ t[i - 1] = w[i]
    <3>1. i \in 2..Len(w)
      BY <1>1, <1>2
    <3>2. i - 1 \in 1..(Len(w) - 1) /\ i = (i - 1) + 1
      BY <1>1, <3>1
    <3>3. QED
      BY <1>1, <3>2
  <2>2. QED
    BY <2>1
<1>8. 1 \in P <=> Head(w) \in Message /\ Head(w).class = q
  BY <1>1 DEF OwnOf
<1>9. ASSUME NEW g \in Ascending(R), IsFiniteSet(R)
      PROVE  /\ Sorted(t, q) /\ r \in Nat /\ z = [k \in 1..r |-> w[g[k]].msg]
             /\ z \in Seq(Msgs) /\ Len(z) = r
  <2> DEFINE h == [k \in 1..r |-> g[k] - 1]
  <2>1. R \in SUBSET (Nat \ {0}) /\ R \in SUBSET Nat
    BY <1>2
  <2>2. r \in Nat /\ g \in [1..r -> R]
    <3> HIDE DEF R
    <3>1. QED
      BY <1>9, <2>1, AscendingOnto
  <2>3. h \in Ascending(Q) /\ Cardinality(Q) = r
    <3> HIDE DEF R, Q
    <3>1. QED
      BY <1>6, <1>9, <2>1, AscendingMoved
  <2>4. z = [k \in 1..r |-> t[h[k]].msg] /\ z \in Seq(Msgs) /\ Len(z) = r
    <3> HIDE DEF h, r, t
    <3>1. h \in Ascending(OwnOf(t, q))
      BY <2>3
    <3>2. QED
      BY <1>1, <2>3, <3>1, OnWireBy
  <2>5. \A k \in 1..r : t[h[k]].msg = w[g[k]].msg
    BY <1>7, <2>2
  <2>6. z = [k \in 1..r |-> w[g[k]].msg]
    BY <2>4, <2>5
  <2>7. QED
    BY <2>2, <2>3, <2>4, <2>6 DEF Sorted
<1>10. CASE 1 \in P
  <2> DEFINE g == [k \in 1..(n - 1) |-> f[k + 1]]
             a == Head(w).msg
  <2>1. f[1] = 1 /\ n \in Nat \ {0} /\ IsFiniteSet(R) /\ r = n - 1 /\ g \in Ascending(R)
    <3> HIDE DEF P
    <3>1. QED
      BY <1>2, <1>10, AscendingRest
  <2>2. Sorted(t, q) /\ z = [k \in 1..r |-> w[g[k]].msg] /\ z \in Seq(Msgs) /\ Len(z) = n - 1
    BY <1>9, <2>1
  <2>3. <<a>> \in Seq(Msgs) /\ Len(<<a>>) = 1 /\ <<a>>[1] = a
    BY <1>8, <1>10 DEF Message
  <2> HIDE DEF P, R, n, r, y, z, a, g
  <2>4. /\ <<a>> \o z \in Seq(Msgs) /\ Len(<<a>> \o z) = n
        /\ \A k \in 1..n : (<<a>> \o z)[k] = IF k <= 1 THEN <<a>>[k] ELSE z[k - 1]
    BY <2>1, <2>2, <2>3, ConcatProperties
  <2>5. ASSUME NEW k \in 1..n PROVE y[k] = (<<a>> \o z)[k]
    <3>1. CASE k = 1
      <4>1. y[k] = a
        BY <1>1, <1>5, <2>1, <3>1 DEF a
      <4>2. QED
        BY <2>3, <2>4, <3>1, <4>1
    <3>2. CASE k # 1
      <4>1. k - 1 \in 1..(n - 1) /\ (k - 1) + 1 = k /\ k > 1
        BY <2>1, <3>2
      <4>2. z[k - 1] = w[f[k]].msg
        BY <2>1, <2>2, <4>1 DEF g
      <4>3. QED
        BY <1>5, <2>4, <4>1, <4>2
    <3>3. QED
      BY <3>1, <3>2
  <2>6. y = <<a>> \o z
    BY <1>5, <2>4, <2>5, SeqEqual
  <2>7. QED
    BY <1>8, <1>10, <2>2, <2>6 DEF y, z, a
<1>11. CASE 1 \notin P
  <2>1. R = P
    BY <1>11
  <2>2. Sorted(t, q) /\ z = [k \in 1..r |-> w[f[k]].msg]
    BY <1>2, <1>3, <1>9, <2>1
  <2>3. y = z
    BY <1>5, <2>1, <2>2
  <2>4. QED
    BY <1>8, <1>11, <2>2, <2>3
<1>12. QED
  BY <1>10, <1>11

(***************************************************************************)
(* Where a message of the receive path moves while nobody closes: onto the *)
(* wire, from the wire, into a queue, to the application, or nowhere.      *)
(***************************************************************************)
FifoInv ==
    ~scenario.closes =>
        /\ state # "DISCONNECTED" /\ rxpc # "closed" /\ ~Ends
        /\ state = "NEGOTIATING" => rxpc # "store" /\ \A q \in QueueIds : rxqueues[q] = <<>>
        /\ \A q \in QueueIds : Sorted(wire, q)

Sent(m) == wire' = Append(wire, m) /\ UNCHANGED <<state, rxqueues, rxpc, rxmsg>>
Greeted ==
    /\ wire # <<>> /\ Head(wire) \notin Message /\ wire' = Tail(wire)
    /\ rxpc = "loop" /\ rxpc' = "loop" /\ UNCHANGED rxqueues
    /\ state' # "DISCONNECTED" /\ (state' = "NEGOTIATING" => state = "NEGOTIATING")
Read ==
    /\ wire # <<>> /\ Head(wire) \in Message /\ wire' = Tail(wire)
    /\ rxpc = "loop" /\ UNCHANGED <<state, rxqueues>>
Received == Read /\ state # "NEGOTIATING" /\ rxpc' = "store" /\ rxmsg' = Head(wire)
Dropped == Read /\ state = "NEGOTIATING" /\ rxpc' = "loop"
Stored ==
    /\ rxpc = "store" /\ rxmsg \in Message /\ rxpc' = "capacity"
    /\ rxqueues' = [rxqueues EXCEPT ![rxmsg.class] = Append(@, rxmsg.msg)]
    /\ UNCHANGED <<state, wire>>
Handed(q) ==
    /\ rxqueues[q] # <<>> /\ rxqueues' = [rxqueues EXCEPT ![q] = Tail(@)]
    /\ UNCHANGED <<state, wire, rxpc, rxmsg>>
Kept ==
    /\ UNCHANGED <<state, wire, rxqueues>>
    /\ \/ UNCHANGED <<rxpc, rxmsg>>
       \/ rxpc # "store" /\ rxpc' \notin {"store", "closed"}

LEMMA MessageMoves ==
    ASSUME RxInv, FifoInv, ~scenario.closes, [Next]_vars
    PROVE  \/ \E m \in Wired : m # EOF /\ Sent(m)
           \/ Greeted \/ Received \/ Dropped \/ Stored
           \/ \E q \in QueueIds : Handed(q)
           \/ Kept
<1>1. /\ TypeOK /\ wire \in Seq(Wired) /\ state \in {"NEGOTIATING", "NEGOTIATING2", "ESTABLISHED"}
      /\ rxpc # "closed" /\ ~Ends /\ queue_id \in QueueIds
      /\ (state = "NEGOTIATING" => rxpc # "store")
      /\ (rxpc \in {"store", "capacity"} => rxmsg \in Message)
  BY DEF RxInv, FifoInv, TypeOK, Wired
<1>2. CASE Peer
  <2>1. PICK m \in Wired : PeerSends(m) /\ m # EOF
    BY <1>1, <1>2, PeerGoesOn
  <2>2. QED
    BY <2>1 DEF PeerSends, Sent, connvars, rxvars
<1>3. ~App
  BY <1>1 DEF App, AppClose, AppOpen
<1>4. CASE RxReadEvent \/ RxWakeup \/ RxReturn
  <2>1. /\ UNCHANGED <<state, wire, rxqueues>> /\ rxpc \in {"epoll", "loop"}
        /\ rxpc' \in {"epoll", "loop"}
    BY <1>4 DEF RxReadEvent, RxWakeup, RxReturn
  <2>2. QED
    BY <2>1 DEF Kept
<1>5. CASE RxHandshake
  <2>1. /\ wire # <<>> /\ wire' = Tail(wire) /\ rxpc = "loop" /\ UNCHANGED <<rxpc, rxqueues>>
        /\ Head(wire) \in {HELLO, FEATURES_REPLY} /\ state' \in {state, "NEGOTIATING2", "ESTABLISHED"}
    BY <1>5 DEF RxHandshake, Reading, rxvars
  <2>2. HELLO \notin Message /\ FEATURES_REPLY \notin Message
    BY DEF Message, HELLO, FEATURES_REPLY
  <2>3. QED
    BY <1>1, <2>1, <2>2 DEF Greeted
<1>6. CASE RxMessage
  BY <1>1, <1>6 DEF RxMessage, Reading, Received, Dropped, Read, rxvars
<1>7. CASE RxStore
  BY <1>1, <1>7 DEF RxStore, Stored
<1>8. CASE RxCapacity \/ RxDisable \/ RxDropReadFd \/ RxWake
  <2>1. /\ UNCHANGED <<state, wire, rxqueues>> /\ rxpc \in {"capacity", "disable", "dropfd", "wake"}
        /\ rxpc' \in {"disable", "dropfd", "wake", "loop"}
    BY <1>8 DEF RxCapacity, RxDisable, RxDropReadFd, RxWake
  <2>2. QED
    BY <2>1 DEF Kept
<1>9. ~RxPeerShutdown /\ ~RxClosed /\ ~RxClosedLate
  BY <1>1, WireEnds DEF RxPeerShutdown, RxClosed, RxClosedLate, Reading, Ends, Wired
<1>10. ASSUME HndUnchanged PROVE UNCHANGED <<state, wire, rxpc, rxmsg>>
  BY <1>10 DEF HndUnchanged, connvars, peervars, rxvars
<1>11. CASE HndTake \/ HndThrow
  BY <1>1, <1>10, <1>11 DEF HndTake, HndThrow, Handed
<1>12. CASE HndWakeup \/ HndStop \/ HndScan \/ HndQueueEmpty \/ HndReschedule \/ HndAgain \/ HndDone
            \/ HndTestDisabled \/ HndEnable \/ HndAddReadFd \/ HndWakeRx
  <2>1. HndUnchanged /\ UNCHANGED rxqueues
    BY <1>12 DEF HndWakeup, HndStop, HndScan, HndQueueEmpty, HndReschedule, HndAgain, HndDone,
       HndTestDisabled, HndEnable, HndAddReadFd, HndWakeRx
  <2>2. QED
    BY <1>10, <2>1 DEF Kept
<1>13. CASE UNCHANGED vars
  BY <1>13 DEF vars, Kept
<1>14. QED
  BY <1>2, <1>3, <1>4, <1>5, <1>6, <1>7, <1>8, <1>9, <1>11, <1>12, <1>13 DEF Next, Rx, Hnd

LEMMA FifoStep ==
    ASSUME RxInv, FifoInv, [Next]_vars
    PROVE  FifoInv'
<1>1. scenario' = scenario
  BY ScenarioKept
<1> SUFFICES ASSUME ~scenario.closes
             PROVE  /\ state' # "DISCONNECTED" /\ rxpc' # "closed" /\ ~Ends'
                    /\ state' = "NEGOTIATING" => /\ rxpc' # "store"
                                                 /\ \A q \in QueueIds : rxqueues'[q] = <<>>
                    /\ \A q \in QueueIds : Sorted(wire', q)
  <2>1. (\A q \in QueueIds : Sorted(wire, q))' <=> \A q \in QueueIds : Sorted(wire', q)
    BY DEF Sorted, OwnOf
  <2>2. QED
    BY <1>1, <2>1 DEF FifoInv
<1>2. /\ wire \in Seq(Wired) /\ state # "DISCONNECTED" /\ rxpc # "closed" /\ ~Ends
      /\ state = "NEGOTIATING" => rxpc # "store" /\ \A q \in QueueIds : rxqueues[q] = <<>>
      /\ \A q \in QueueIds : Sorted(wire, q)
  BY DEF RxInv, FifoInv, TypeOK, Wired
<1>3. ASSUME NEW m \in Wired, m # EOF, Sent(m) PROVE ~Ends' /\ \A q \in QueueIds : Sorted(wire', q)
  BY <1>2, <1>3, WireEnds, OnWireAppend DEF Sent, Ends
<1>4. ASSUME wire # <<>>, wire' = Tail(wire) PROVE ~Ends' /\ \A q \in QueueIds : Sorted(wire', q)
  BY <1>2, <1>4, WireEnds, OnWireTail DEF Ends, Wired
<1>5. ASSUME UNCHANGED wire PROVE ~Ends' /\ \A q \in QueueIds : Sorted(wire', q)
  BY <1>2, <1>5 DEF Ends
<1>6. ASSUME NEW m \in Wired, m # EOF, Sent(m)
      PROVE  UNCHANGED <<state, rxpc, rxqueues>>
  BY <1>6 DEF Sent
<1>7. CASE Greeted \/ Received \/ Dropped
  BY <1>2, <1>4, <1>7 DEF Greeted, Received, Dropped, Read
<1>8. CASE Stored
  BY <1>2, <1>5, <1>8 DEF Stored
<1>9. ASSUME NEW q \in QueueIds, Handed(q) PROVE state # "NEGOTIATING" /\ UNCHANGED <<state, wire, rxpc>>
  BY <1>2, <1>9 DEF Handed
<1>10. CASE Kept
  BY <1>2, <1>5, <1>10 DEF Kept
<1>11. QED
  BY <1>2, <1>3, <1>5, <1>6, <1>7, <1>8, <1>9, <1>10, MessageMoves

(***************************************************************************)
(* What is under way in a class: stored, in the rx thread's hand, or on    *)
(* the wire.                                                               *)
(***************************************************************************)
InHandOf(pc, m, q) == IF pc = "store" /\ m.class = q THEN <<m.msg>> ELSE <<>>
Joined(s, t, u) == s \o t \o u
WayOf(queues, pc, m, w, q) == Joined(queues[q], InHandOf(pc, m, q), OnWireOf(w, q))
UnderWay(q) == WayOf(rxqueues, rxpc, rxmsg, wire, q)

LEMMA JoinedAppend ==
    ASSUME NEW s \in Seq(Msgs), NEW t \in Seq(Msgs), NEW u \in Seq(Msgs), NEW x \in Msgs
    PROVE  Joined(s, t, Append(u, x)) = Append(Joined(s, t, u), x)
<1>1. s \o t \in Seq(Msgs)
  OBVIOUS
<1>2. \A v \in Seq(Msgs) : v \o Append(u, x) = Append(v \o u, x)
  OBVIOUS
<1>3. QED
  BY <1>1, <1>2 DEF Joined

LEMMA JoinedMoves ==
    ASSUME NEW s \in Seq(Msgs), NEW u \in Seq(Msgs), NEW x \in Msgs
    PROVE  /\ Joined(s, <<x>>, u) = Joined(s, <<>>, <<x>> \o u)
           /\ Joined(Append(s, x), <<>>, u) = Joined(s, <<x>>, u)
<1>1. <<x>> \in Seq(Msgs) /\ <<x>> \o u \in Seq(Msgs) /\ Append(s, x) \in Seq(Msgs)
  OBVIOUS
<1>2. s \o <<>> = s /\ Append(s, x) \o <<>> = Append(s, x)
  BY <1>1, ConcatEmptySeq
<1>3. s \o <<x>> = Append(s, x) /\ (s \o <<x>>) \o u = s \o (<<x>> \o u)
  BY <1>1, ConcatAssociative, AppendIsConcat
<1>4. QED
  BY <1>2, <1>3 DEF Joined

LEMMA JoinedFront ==
    ASSUME NEW s \in Seq(Msgs), NEW t \in Seq(Msgs), NEW u \in Seq(Msgs), s # <<>>
    PROVE  Joined(s, t, u) # <<>> /\ Tail(Joined(s, t, u)) = Joined(Tail(s), t, u)
<1>1. ASSUME NEW v \in Seq(Msgs), NEW w \in Seq(Msgs), v # <<>>
      PROVE  v \o w \in Seq(Msgs) /\ v \o w # <<>> /\ Tail(v \o w) = Tail(v) \o w
  <2>1. /\ v \o w \in Seq(Msgs) /\ Len(v \o w) = Len(v) + Len(w) /\ Len(v) \in Nat \ {0}
        /\ Len(w) \in Nat
        /\ \A i \in 1..(Len(v) + Len(w)) : (v \o w)[i] = IF i <= Len(v) THEN v[i] ELSE w[i - Len(v)]
    BY <1>1, ConcatProperties
  <2>2. /\ Tail(v) \in Seq(Msgs) /\ Len(Tail(v)) = Len(v) - 1
        /\ \A i \in 1..(Len(v) - 1) : Tail(v)[i] = v[i + 1]
    BY <1>1, HeadTailProperties
  <2>3. /\ Tail(v) \o w \in Seq(Msgs) /\ Len(Tail(v) \o w) = Len(v) - 1 + Len(w)
        /\ \A i \in 1..(Len(v) - 1 + Len(w)) :
               (Tail(v) \o w)[i] = IF i <= Len(v) - 1 THEN Tail(v)[i] ELSE w[i - (Len(v) - 1)]
    BY <2>2, ConcatProperties
  <2>4. v \o w # <<>>
    BY <2>1
  <2>5. /\ Tail(v \o w) \in Seq(Msgs) /\ Len(Tail(v \o w)) = Len(v) + Len(w) - 1
        /\ \A i \in 1..(Len(v) + Len(w) - 1) : Tail(v \o w)[i] = (v \o w)[i + 1]
    BY <2>1, <2>4, HeadTailProperties
  <2>6. ASSUME NEW i \in 1..(Len(v) + Len(w) - 1) PROVE Tail(v \o w)[i] = (Tail(v) \o w)[i]
    <3>1. i + 1 \in 1..(Len(v) + Len(w)) /\ i \in 1..(Len(v) - 1 + Len(w)) /\ i \in Nat
      BY <2>1
    <3>2. CASE i <= Len(v) - 1
      BY <2>1, <2>2, <2>3, <2>5, <3>1, <3>2
    <3>3. CASE ~(i <= Len(v) - 1)
      <4>1. (v \o w)[i + 1] = w[(i + 1) - Len(v)]
        BY <2>1, <3>1, <3>3
      <4>2. (Tail(v) \o w)[i] = w[i - (Len(v) - 1)]
        BY <2>3, <3>1, <3>3
      <4>3. (i + 1) - Len(v) = i - (Len(v) - 1)
        BY <2>1, <3>1
      <4>4. QED
        BY <2>5, <4>1, <4>2, <4>3
    <3>4. QED
      BY <3>2, <3>3
  <2>7. Len(Tail(v \o w)) = Len(Tail(v) \o w)
    BY <2>1, <2>3, <2>5
  <2>8. QED
    BY <2>1, <2>3, <2>4, <2>5, <2>6, <2>7, SeqEqual
<1>2. s \o t \in Seq(Msgs) /\ s \o t # <<>> /\ Tail(s \o t) = Tail(s) \o t
  BY <1>1
<1>3. (s \o t) \o u # <<>> /\ Tail((s \o t) \o u) = Tail(s \o t) \o u
  BY <1>1, <1>2
<1>4. QED
  BY <1>2, <1>3 DEF Joined

LEMMA JoinedEmpty ==
    ASSUME NEW u \in Seq(Msgs), NEW x \in Msgs
    PROVE  /\ Joined(<<>>, <<>>, u) = u
           /\ <<x>> \o u # <<>> /\ Tail(<<x>> \o u) = u
<1>1. /\ <<>> \o <<>> = <<>> /\ <<>> \o u = u /\ <<x>> \in Seq(Msgs) /\ <<x>> # <<>>
      /\ Tail(<<x>>) = <<>> /\ <<>> \in Seq(Msgs)
  OBVIOUS
<1>2. Joined(<<x>>, <<>>, u) # <<>> /\ Tail(Joined(<<x>>, <<>>, u)) = Joined(<<>>, <<>>, u)
  <2>1. \A s, t \in Seq(Msgs) : s # <<>> =>
            Joined(s, t, u) # <<>> /\ Tail(Joined(s, t, u)) = Joined(Tail(s), t, u)
    BY JoinedFront
  <2>2. QED
    BY <1>1, <2>1
<1>3. <<x>> \o <<>> = <<x>>
  BY <1>1, ConcatEmptySeq
<1>4. QED
  BY <1>1, <1>2, <1>3 DEF Joined

LEMMA UnderWayIs ==
    /\ [q \in QueueIds |-> IF scenario.closes THEN <<>> ELSE rxqueues[q] \o InHand(q) \o OnWire(q)]
         = [q \in QueueIds |-> IF scenario.closes THEN <<>> ELSE UnderWay(q)]
    /\ [q \in QueueIds |-> IF scenario.closes THEN <<>> ELSE rxqueues[q] \o InHand(q) \o OnWire(q)]'
         = [q \in QueueIds |-> IF scenario'.closes THEN <<>>
                               ELSE WayOf(rxqueues', rxpc', rxmsg', wire', q)]
<1>1. \A q \in QueueIds : InHand(q) = InHandOf(rxpc, rxmsg, q) /\ OnWire(q) = OnWireOf(wire, q)
  BY DEF InHand, InHandOf, OnWire, OnWireOf, Own, OwnOf
<1>2. \A q \in QueueIds : InHand(q)' = InHandOf(rxpc', rxmsg', q) /\ OnWire(q)' = OnWireOf(wire', q)
  BY DEF InHand, InHandOf, OnWire, OnWireOf, Own, OwnOf, Ascending
<1>3. \A q \in QueueIds : UnderWay(q) = rxqueues[q] \o InHand(q) \o OnWire(q)
  BY <1>1 DEF UnderWay, WayOf, Joined
<1>4. \A q \in QueueIds : WayOf(rxqueues', rxpc', rxmsg', wire', q)
                            = rxqueues'[q] \o InHand(q)' \o OnWire(q)'
  BY <1>2 DEF WayOf, Joined
<1>5. QED
  BY <1>3, <1>4

\* What a move does to the messages under way, class by class.
LEMMA WayStep ==
    ASSUME RxInv, FifoInv, ~scenario.closes, NEW q \in QueueIds,
           NEW before, before = UnderWay(q),
           NEW after, after = WayOf(rxqueues', rxpc', rxmsg', wire', q)
    PROVE  /\ \A m \in Wired : Sent(m) => after = IF m \in Message /\ m.class = q
                                                  THEN Append(before, m.msg) ELSE before
           /\ Greeted \/ Received \/ Stored \/ Kept => after = before
           /\ Dropped => IF Head(wire).class = q THEN before # <<>> /\ after = Tail(before)
                         ELSE after = before
           /\ \A c \in QueueIds : Handed(c) => IF c = q THEN before # <<>> /\ after = Tail(before)
                                               ELSE after = before
<1> DEFINE A == rxqueues[q]
           H == InHandOf(rxpc, rxmsg, q)
           W == OnWireOf(wire, q)
           T == OnWireOf(Tail(wire), q)
           m1 == Head(wire)
<1>1. /\ wire \in Seq(Wired) /\ Sorted(wire, q) /\ rxqueues \in [QueueIds -> Seq(Msgs)]
      /\ state = "NEGOTIATING" => rxpc # "store" /\ A = <<>>
      /\ rxpc = "store" => rxmsg \in Message
  BY DEF RxInv, FifoInv, TypeOK, Wired
<1>2. ASSUME NEW w \in Seq(Wired), Sorted(w, q) PROVE OnWireOf(w, q) \in Seq(Msgs)
  <2>1. PICK f \in Ascending(OwnOf(w, q)) : TRUE
    BY <1>2 DEF Sorted
  <2>2. QED
    BY OnWireBy
<1>3. A \in Seq(Msgs) /\ H \in Seq(Msgs) /\ W \in Seq(Msgs)
  <2>1. rxpc = "store" => rxmsg.msg \in Msgs
    BY <1>1 DEF Message
  <2>2. <<>> \in Seq(Msgs) /\ \A x \in Msgs : <<x>> \in Seq(Msgs)
    OBVIOUS
  <2>3. H \in Seq(Msgs)
    BY <2>1, <2>2 DEF InHandOf
  <2>4. QED
    BY <1>1, <1>2, <2>3
<1>4. before = Joined(A, H, W)
  BY DEF UnderWay, WayOf
<1>5. after = Joined(rxqueues'[q], InHandOf(rxpc', rxmsg', q), OnWireOf(wire', q))
  BY DEF WayOf
<1>6. ASSUME NEW m \in Wired, Sent(m)
      PROVE  after = IF m \in Message /\ m.class = q THEN Append(before, m.msg) ELSE before
  <2>1. after = Joined(A, H, OnWireOf(Append(wire, m), q))
    BY <1>5, <1>6 DEF Sent
  <2>2. OnWireOf(Append(wire, m), q) = IF m \in Message /\ m.class = q THEN Append(W, m.msg) ELSE W
    BY <1>1, OnWireAppend
  <2>3. m \in Message => m.msg \in Msgs
    BY DEF Message
  <2> HIDE DEF A, H, W
  <2>4. CASE m \in Message /\ m.class = q
    <3>1. m.msg \in Msgs /\ after = Joined(A, H, Append(W, m.msg))
      BY <2>1, <2>2, <2>3, <2>4
    <3>2. after = Append(Joined(A, H, W), m.msg)
      BY <1>3, <3>1, JoinedAppend
    <3>3. QED
      BY <1>4, <2>4, <3>2
  <2>5. QED
    BY <1>4, <2>1, <2>2, <2>4
<1>7. ASSUME wire # <<>>
      PROVE  /\ W = IF m1 \in Message /\ m1.class = q THEN <<m1.msg>> \o T ELSE T
             /\ T \in Seq(Msgs) /\ (m1 \in Message => m1.msg \in Msgs)
  <2>1. /\ Sorted(Tail(wire), q) /\ Tail(wire) \in Seq(Wired)
        /\ W = IF m1 \in Message /\ m1.class = q THEN <<m1.msg>> \o T ELSE T
    BY <1>1, <1>7, OnWireTail, QueueTail
  <2>2. QED
    BY <1>2, <2>1 DEF Message
<1>8. ASSUME Greeted PROVE after = before
  <2>1. wire # <<>> /\ m1 \notin Message /\ after = Joined(A, H, T)
    BY <1>5, <1>8 DEF Greeted, InHandOf
  <2> HIDE DEF A, H, W, T, m1
  <2>2. QED
    BY <1>4, <1>7, <2>1
<1>9. ASSUME Received PROVE after = before
  <2>1. H = <<>> /\ wire # <<>> /\ m1 \in Message /\ after = Joined(A, InHandOf("store", m1, q), T)
    BY <1>5, <1>9 DEF Received, Read, InHandOf
  <2>2. InHandOf("store", m1, q) = IF m1.class = q THEN <<m1.msg>> ELSE <<>>
    BY DEF InHandOf
  <2> HIDE DEF A, H, W, T, m1
  <2>3. CASE m1.class = q
    <3>1. W = <<m1.msg>> \o T /\ T \in Seq(Msgs) /\ m1.msg \in Msgs
      BY <1>7, <2>1, <2>3
    <3>2. Joined(A, <<m1.msg>>, T) = Joined(A, <<>>, <<m1.msg>> \o T)
      BY <1>3, <3>1, JoinedMoves
    <3>3. QED
      BY <1>4, <2>1, <2>2, <2>3, <3>1, <3>2
  <2>4. QED
    BY <1>4, <1>7, <2>1, <2>2, <2>3
<1>10. ASSUME Dropped
       PROVE  IF Head(wire).class = q THEN before # <<>> /\ after = Tail(before)
              ELSE after = before
  <2>1. H = <<>> /\ A = <<>> /\ wire # <<>> /\ m1 \in Message /\ after = Joined(A, H, T)
    BY <1>1, <1>5, <1>10 DEF Dropped, Read, InHandOf
  <2> HIDE DEF A, H, W, T, m1
  <2>2. before = W /\ after = T
    BY <1>3, <1>4, <1>7, <2>1, JoinedEmpty
  <2>3. m1.class = q => W # <<>> /\ Tail(W) = T
    BY <1>7, <2>1, JoinedEmpty
  <2>4. QED
    BY <1>7, <2>1, <2>2, <2>3 DEF m1
<1>11. ASSUME Stored PROVE after = before
  <2>1. InHandOf(rxpc', rxmsg', q) = <<>> /\ OnWireOf(wire', q) = W
    BY <1>11 DEF Stored, InHandOf
  <2>2. /\ H = IF rxmsg.class = q THEN <<rxmsg.msg>> ELSE <<>>
        /\ rxqueues'[q] = IF rxmsg.class = q THEN Append(A, rxmsg.msg) ELSE A
        /\ rxmsg.msg \in Msgs
    BY <1>1, <1>11 DEF Stored, InHandOf, Message
  <2> HIDE DEF A, H, W, T, m1
  <2>3. QED
    BY <1>3, <1>4, <1>5, <2>1, <2>2, JoinedMoves
<1>12. ASSUME Kept PROVE after = before
  <2>1. rxqueues'[q] = A /\ OnWireOf(wire', q) = W /\ InHandOf(rxpc', rxmsg', q) = H
    BY <1>12 DEF Kept, InHandOf
  <2> HIDE DEF A, H, W, T, m1
  <2>2. QED
    BY <1>4, <1>5, <2>1
<1>13. ASSUME NEW c \in QueueIds, Handed(c)
       PROVE  IF c = q THEN before # <<>> /\ after = Tail(before) ELSE after = before
  <2>1. InHandOf(rxpc', rxmsg', q) = H /\ OnWireOf(wire', q) = W
    BY <1>13 DEF Handed
  <2>2. rxqueues'[q] = IF c = q THEN Tail(A) ELSE A
    BY <1>1, <1>13 DEF Handed
  <2>3. c = q => A # <<>>
    BY <1>13 DEF Handed
  <2> HIDE DEF A, H, W, T, m1
  <2>4. QED
    BY <1>3, <1>4, <1>5, <2>1, <2>2, <2>3, JoinedFront
<1>14. QED
  BY <1>6, <1>8, <1>9, <1>10, <1>11, <1>12, <1>13

(***************************************************************************)
(* The receive path implements MsgChannel: for any sizes and weights, with *)
(* reception on and off, a throwing handler or not, the messages of a      *)
(* class reach the application in the order in which the peer sent them,   *)
(* once each, as long as nobody closes.                                    *)
(***************************************************************************)
THEOREM ReceivesInOrder == Spec => FifoPerClass
<1> DEFINE Path == [q \in QueueIds |->
                        IF scenario.closes THEN <<>> ELSE rxqueues[q] \o InHand(q) \o OnWire(q)]
<1>1. Init => RxInv /\ FifoInv /\ Channel!Init
  <2> SUFFICES ASSUME Init PROVE FifoInv /\ Channel!Init
    BY InitTypes
  <2>1. /\ \A q \in QueueIds : rxqueues[q] = <<>> /\ Sorted(wire, q) /\ OnWireOf(wire, q) = <<>>
        /\ ~Ends /\ state = "NEGOTIATING" /\ rxpc = "epoll"
    BY OnWireEmpty DEF Init, Ends
  <2>2. ASSUME NEW q \in QueueIds PROVE UnderWay(q) = <<>>
    <3>1. <<>> \o <<>> \o <<>> = <<>>
      OBVIOUS
    <3>2. QED
      BY <2>1, <3>1 DEF UnderWay, WayOf, Joined, InHandOf
  <2>3. FifoInv
    BY <2>1 DEF FifoInv
  <2>4. Path = [q \in QueueIds |-> <<>>]
    <3>1. Path = [q \in QueueIds |-> IF scenario.closes THEN <<>> ELSE UnderWay(q)]
      BY UnderWayIs
    <3> HIDE DEF Path
    <3>2. QED
      BY <2>2, <3>1
  <2>5. QED
    BY <2>3, <2>4 DEF Channel!Init
<1>2. RxInv /\ FifoInv /\ [Next]_vars => RxInv' /\ FifoInv'
  BY TypeStep, FifoStep
<1>3. RxInv /\ FifoInv /\ [Next]_vars => [Channel!Next]_Path
  <2> SUFFICES ASSUME RxInv, FifoInv, [Next]_vars PROVE Channel!Next \/ Path' = Path
    OBVIOUS
  <2>1. PICK before : before = [q \in QueueIds |-> IF scenario.closes THEN <<>> ELSE UnderWay(q)]
    OBVIOUS
  <2>2. PICK after : after = [q \in QueueIds |-> IF scenario.closes THEN <<>>
                                                 ELSE WayOf(rxqueues', rxpc', rxmsg', wire', q)]
    OBVIOUS
  <2>3. Path = before /\ Path' = after
    BY <2>1, <2>2, UnderWayIs, ScenarioKept
  <2>4. CASE scenario.closes
    BY <2>1, <2>2, <2>3, <2>4
  <2>5. CASE ~scenario.closes
    <3>1. ASSUME NEW q \in QueueIds
          PROVE  /\ \A m \in Wired : Sent(m) => after[q] = IF m \in Message /\ m.class = q
                                                           THEN Append(before[q], m.msg) ELSE before[q]
                 /\ Greeted \/ Received \/ Stored \/ Kept => after[q] = before[q]
                 /\ Dropped => IF Head(wire).class = q
                               THEN before[q] # <<>> /\ after[q] = Tail(before[q])
                               ELSE after[q] = before[q]
                 /\ \A c \in QueueIds : Handed(c) => IF c = q
                                                     THEN before[q] # <<>> /\ after[q] = Tail(before[q])
                                                     ELSE after[q] = before[q]
      <4>1. before[q] = UnderWay(q) /\ after[q] = WayOf(rxqueues', rxpc', rxmsg', wire', q)
        BY <2>1, <2>2, <2>5
      <4>2. QED
        BY <2>5, <4>1, WayStep
    <3>2. DOMAIN before = QueueIds /\ DOMAIN after = QueueIds /\ before = [q \in QueueIds |-> before[q]]
          /\ after = [q \in QueueIds |-> after[q]]
      BY <2>1, <2>2
    <3>3. ASSUME NEW c \in QueueIds, before[c] # <<>>, after[c] = Tail(before[c]),
                 \A q \in QueueIds : q # c => after[q] = before[q]
          PROVE  Channel!Next
      <4>1. after = [before EXCEPT ![c] = Tail(@)]
        BY <3>2, <3>3
      <4>2. Channel!Deliver(c)
        BY <2>3, <3>3, <4>1 DEF Channel!Deliver
      <4>3. QED
        BY <4>2 DEF Channel!Next
    <3>4. ASSUME NEW c \in QueueIds, NEW x \in Msgs, after[c] = Append(before[c], x),
                 \A q \in QueueIds : q # c => after[q] = before[q]
          PROVE  Channel!Next
      <4>1. after = [before EXCEPT ![c] = Append(@, x)]
        BY <3>2, <3>4
      <4>2. Channel!Accept(c, x)
        BY <2>3, <4>1 DEF Channel!Accept
      <4>3. QED
        BY <4>2 DEF Channel!Next
    <3>5. ASSUME \A q \in QueueIds : after[q] = before[q] PROVE Path' = Path
      BY <2>3, <3>2, <3>5
    <3>6. ASSUME NEW m \in Wired, Sent(m) PROVE Channel!Next \/ Path' = Path
      <4>1. CASE m \in Message
        <5>1. m.class \in QueueIds /\ m.msg \in Msgs
          BY <4>1 DEF Message
        <5>2. after[m.class] = Append(before[m.class], m.msg)
              /\ \A q \in QueueIds : q # m.class => after[q] = before[q]
          BY <3>1, <3>6, <4>1, <5>1
        <5>3. QED
          BY <3>4, <5>1, <5>2
      <4>2. CASE m \notin Message
        BY <3>1, <3>5, <3>6, <4>2
      <4>3. QED
        BY <4>1, <4>2
    <3>7. CASE Greeted \/ Received \/ Stored \/ Kept
      BY <3>1, <3>5, <3>7
    <3>8. CASE Dropped
      <4>1. Head(wire).class \in QueueIds
        BY <3>8 DEF Dropped, Read, Message
      <4>2. PICK c \in QueueIds : c = Head(wire).class
        BY <4>1
      <4>3. before[c] # <<>> /\ after[c] = Tail(before[c])
            /\ \A q \in QueueIds : q # c => after[q] = before[q]
        BY <3>1, <3>8, <4>2
      <4>4. QED
        BY <3>3, <4>3
    <3>9. ASSUME NEW c \in QueueIds, Handed(c) PROVE Channel!Next
      <4>1. before[c] # <<>> /\ after[c] = Tail(before[c])
            /\ \A q \in QueueIds : q # c => after[q] = before[q]
        BY <3>1, <3>9
      <4>2. QED
        BY <3>3, <4>1
    <3>10. QED
      BY <2>5, <3>6, <3>7, <3>8, <3>9, MessageMoves
  <2>6. QED
    BY <2>4, <2>5
<1>4. QED
  BY <1>1, <1>2, <1>3, PTL DEF Spec, FifoPerClass, Channel!Spec
=============================================================================
