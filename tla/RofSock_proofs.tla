--------------------------- MODULE RofSock_proofs ---------------------------
(***************************************************************************)
(* Proofs about the connection of a crofsock, for any set of descriptors   *)
(* and any reconnect_backoff_max.                                          *)
(***************************************************************************)
EXTENDS RofSock, TLAPS

(***************************************************************************)
(* Part 1.  What holds however the threads interleave.                     *)
(***************************************************************************)
TypeInv == TypeOK /\ BackoffBounded

\* The wait doubles until it has reached reconnect_backoff_max.
LEMMA NextBackoffBounded ==
    ASSUME NEW b \in Nat \ {0}
    PROVE  NextBackoff(b) \in Nat \ {0} /\ NextBackoff(b) < 2 * BackoffMax
BY BackoffMaxAssumption DEF NextBackoff

LEMMA TypeInit == Init => TypeInv
<1> SUFFICES ASSUME Init PROVE TypeInv
  OBVIOUS
<1>1. /\ state \in States /\ sd \in Fds \union {None} /\ lock \in Threads \union {"none"}
      /\ closing \in BOOLEAN /\ tls \in BOOLEAN /\ reconnect \in BOOLEAN
      /\ timer \in BOOLEAN /\ wake \in BOOLEAN
      /\ rfd \subseteq Fds /\ wfd \subseteq Fds /\ edge \subseteq Fds
      /\ threw \in BOOLEAN /\ orphans \subseteq Fds
  BY DEF Init, States
<1>2. pc \in [Threads -> Pcs] /\ ret \in [Threads -> Pcs] /\ rec \in [Threads -> BOOLEAN]
  BY DEF Init, Pcs
<1>3. backoff \in Nat \ {0} /\ BackoffBounded
  BY BackoffMaxAssumption DEF Init, BackoffBounded
<1>4. QED
  BY <1>1, <1>2, <1>3 DEF Init, TypeInv, TypeOK

\* The body of close().
LEMMA TypeClose ==
    ASSUME TypeInv, NEW t \in Threads,
           \/ CloseTest(t) \/ CloseFlag(t) \/ CloseLock(t) \/ CloseTls(t)
           \/ CloseTcp(t) \/ CloseEnd(t)
    PROVE  TypeInv'
<1> USE DEF TypeInv, TypeOK, BackoffBounded, socket, kernel, control, history, Move,
            Afresh, Goto, At
<1>1. CASE CloseTest(t) BY <1>1 DEF CloseTest, Pcs
<1>2. CASE CloseFlag(t) BY <1>2 DEF CloseFlag, Pcs
<1>3. CASE CloseLock(t) BY <1>3 DEF CloseLock, Pcs
<1>4. CASE CloseTls(t)
  <2>1. state' \in States
    BY <1>4 DEF CloseTls, States, TcpStates
  <2>2. tls' \in BOOLEAN
    BY <1>4 DEF CloseTls
  <2>3. QED
    BY <1>4, <2>1, <2>2 DEF CloseTls, Pcs
<1>5. CASE CloseTcp(t) BY <1>5 DEF CloseTcp, Pcs, States
<1>6. CASE CloseEnd(t) BY <1>6 DEF CloseEnd
<1> QED BY <1>1, <1>2, <1>3, <1>4, <1>5, <1>6

\* tcp_connect() and backoff_reconnect().
LEMMA TypeConnect ==
    ASSUME TypeInv, NEW t \in Threads,
           \/ Failed(t) \/ Lost(t) \/ ConnectTest(t) \/ ConnectOpen(t)
           \/ OpenThrows(t) \/ DialPending(t) \/ DialFails(t) \/ DialAtOnce(t) \/ DialThrows(t)
    PROVE  TypeInv'
<1> USE DEF TypeInv, TypeOK, BackoffBounded, socket, kernel, control, history, Move,
            Afresh, Throw, Goto, At, CallClose
<1>0. ASSUME NEW where, NEW reset \in BOOLEAN, Backoff(t, where, reset) PROVE TypeInv'
  <2>1. backoff' \in Nat \ {0} /\ backoff' < 2 * BackoffMax
    BY <1>0, NextBackoffBounded, BackoffMaxAssumption DEF Backoff, BackoffReconnect
  <2>2. timer' \in BOOLEAN
    BY <1>0 DEF Backoff, BackoffReconnect
  <2>3. QED
    BY <1>0, <2>1, <2>2 DEF Backoff, Pcs
<1>1. CASE Failed(t) BY <1>0, <1>1 DEF Failed
<1>2. CASE Lost(t) BY <1>0, <1>2 DEF Lost
<1>3. CASE ConnectTest(t) BY <1>3 DEF ConnectTest, Pcs
<1>4. CASE ConnectOpen(t) BY <1>4 DEF ConnectOpen, Pcs, States, TcpStates
<1>5. CASE DialPending(t) BY <1>5 DEF DialPending, Pcs
<1>6. CASE DialFails(t) BY <1>6 DEF DialFails, Pcs
<1>7. CASE DialAtOnce(t) BY <1>7 DEF DialAtOnce, Establish, Pcs, States, TcpStates
<1>8. CASE OpenThrows(t) BY <1>8 DEF OpenThrows, Pcs, States, TcpStates
<1>9. CASE DialThrows(t) BY <1>9 DEF DialThrows, Pcs
<1> QED BY <1>1, <1>2, <1>3, <1>4, <1>5, <1>6, <1>7, <1>8, <1>9

\* tls_connect(), tls_accept(), listen() and tcp_accept().
LEMMA TypeTls ==
    ASSUME TypeInv, NEW t \in Threads,
           \/ TlsOpen(t) \/ TlsBegin(t) \/ TlsThrows(t) \/ TlsWant(t) \/ TlsDone(t)
           \/ TlsFails(t) \/ TlsOther(t) \/ Listen(t) \/ ListenThrows(t) \/ Accept(t)
           \/ AcceptThrows(t)
    PROVE  TypeInv'
<1> USE DEF TypeInv, TypeOK, BackoffBounded, socket, kernel, control, history, Move,
            Afresh, Throw, Goto, At, CallClose
<1>1. CASE TlsOpen(t) BY <1>1 DEF TlsOpen, Pcs
<1>2. CASE TlsBegin(t) BY <1>2 DEF TlsBegin, States, TlsStates
<1>3. CASE TlsWant(t) BY <1>3 DEF TlsWant, Pcs
<1>4. CASE TlsDone(t) BY <1>4 DEF TlsDone, Pcs, States, TlsStates
<1>5. CASE TlsFails(t) BY <1>5 DEF TlsFails, Pcs
<1>6. CASE TlsOther(t) BY <1>6 DEF TlsOther, Pcs
<1>7. CASE Listen(t) BY <1>7 DEF Listen, Pcs, States, TcpStates
<1>8. CASE Accept(t) BY <1>8 DEF Accept, Pcs, States, TcpStates
<1>9. CASE TlsThrows(t) BY <1>9 DEF TlsThrows, Pcs
<1>10. CASE ListenThrows(t) BY <1>10 DEF ListenThrows, Pcs
<1>11. CASE AcceptThrows(t) BY <1>11 DEF AcceptThrows, Pcs, States, TcpStates
<1> QED BY <1>1, <1>2, <1>3, <1>4, <1>5, <1>6, <1>7, <1>8, <1>9, <1>10, <1>11

LEMMA TypeApp == TypeInv /\ App => TypeInv'
<1> SUFFICES ASSUME TypeInv, App PROVE TypeInv'
  OBVIOUS
<1>1. ASSUME NEW what \in {"close", "tcp", "tls", "listen", "accept"}, NEW where \in Pcs,
             NEW back \in Pcs, NEW r \in BOOLEAN, NEW withTls \in BOOLEAN,
             AppCall(what, where, back, r, withTls)
      PROVE  TypeInv'
  BY <1>1 DEF AppCall, TypeInv, TypeOK, BackoffBounded, kernel, Threads
<1>2. {"close", "idle", "connect", "tls_connect", "listen", "accept"} \subseteq Pcs
  BY DEF Pcs
<1>3. CASE AppClose BY <1>1, <1>2, <1>3 DEF AppClose
<1>4. CASE AppListen BY <1>1, <1>2, <1>4 DEF AppListen
<1>5. ASSUME NEW r \in BOOLEAN, AppConnect(r) PROVE TypeInv'
  BY <1>1, <1>2, <1>5 DEF AppConnect
<1>6. ASSUME NEW r \in BOOLEAN, AppTlsConnect(r) PROVE TypeInv'
  BY <1>1, <1>2, <1>6 DEF AppTlsConnect
<1>7. ASSUME NEW r \in BOOLEAN, AppAccept(r) PROVE TypeInv'
  BY <1>1, <1>2, <1>7 DEF AppAccept
<1> QED BY <1>3, <1>4, <1>5, <1>6, <1>7 DEF App

LEMMA TypeRx == TypeInv /\ Rx => TypeInv'
<1> SUFFICES ASSUME TypeInv, Rx PROVE TypeInv'
  OBVIOUS
<1> USE DEF TypeInv, TypeOK, BackoffBounded, socket, kernel, control, history, Move,
            Afresh, Throw, Goto, At, CallClose, Begin, Threads, Pcs
<1>1. CASE RxWakeup BY <1>1 DEF RxWakeup
<1>2. CASE RxRead BY <1>2 DEF RxRead
<1>3. CASE RxWrite BY <1>3 DEF RxWrite
<1>4. CASE RxTimer BY <1>4 DEF RxTimer
<1>5. CASE RxConnecting BY <1>5 DEF RxConnecting
<1>6. CASE RxEstablished BY <1>6 DEF RxEstablished, Establish, States, TcpStates
<1>7. CASE RxHandshake BY <1>7 DEF RxHandshake
<1>8. CASE RxReceive BY <1>8 DEF RxReceive
<1>9. CASE RxOther BY <1>9 DEF RxOther
<1>10. CASE RxConnectThrows BY <1>10 DEF RxConnectThrows
<1> QED BY <1>1, <1>2, <1>3, <1>4, <1>5, <1>6, <1>7, <1>8, <1>9, <1>10 DEF Rx, RxStep

LEMMA TypeKernel == TypeInv /\ Kernel => TypeInv'
BY DEF Kernel, Net, NetUp, NetRefused, NetDown, NetData, TypeInv, TypeOK, BackoffBounded,
       socket, control, history

LEMMA TypeNext == TypeInv /\ [Next]_vars => TypeInv'
<1> SUFFICES ASSUME TypeInv, [Next]_vars PROVE TypeInv'
  OBVIOUS
<1>1. ASSUME NEW t \in Threads, Step(t) PROVE TypeInv'
  BY <1>1, TypeClose, TypeConnect, TypeTls DEF Step
<1>2. CASE UNCHANGED vars
  BY <1>2 DEF vars, socket, kernel, control, history, TypeInv, TypeOK, BackoffBounded
<1>3. QED
  BY <1>1, <1>2, TypeApp, TypeRx, TypeKernel DEF Next

(***************************************************************************)
(* tcp_connect(), listen(), close() and the handlers keep the variables of *)
(* the socket in their types and the wait before the next attempt below    *)
(* twice reconnect_backoff_max, whatever the threads do at the same time.  *)
(***************************************************************************)
THEOREM TypeCorrect == Spec => [](TypeOK /\ BackoffBounded)
<1>1. TypeInv => TypeOK /\ BackoffBounded
  BY DEF TypeInv
<1>2. QED
  BY <1>1, TypeInit, TypeNext, PTL DEF Spec

(***************************************************************************)
(* Part 2.  An application that calls only while the rx thread waits.      *)
(*                                                                         *)
(* The parts of the invariant: one thread at a time is inside; where close *)
(* may return to; tlock and FLAG_CLOSING are those of the close() under    *)
(* way; sd is the socket's only descriptor, but for those a listen() has   *)
(* left in it when it was idle; what the earlier steps of a call have      *)
(* achieved; and whatever is open is watched, unless an exception has come *)
(* between.                                                                *)
(***************************************************************************)
Holding == {"close_tls", "close_tcp", "close_end"}
Closing == {"close_lock"} \union Holding
InClose == {"close", "close_flag"} \union Closing

Alone == At("app", "idle") \/ At("rx", "idle")
Returns == \A t \in Threads :
    pc[t] \in InClose => ret[t] \in {"idle", "open", "failed", "lost", "listen", "accept"}
Locked == \A t \in Threads : lock = t <=> pc[t] \in Holding
Flagged == closing <=> \E t \in Threads : pc[t] \in Closing
OneDescriptor ==
    /\ state = "IDLE" => sd \in orphans \union {None}
    /\ sd \in orphans => state = "IDLE"
    /\ \A f \in Fds : net[f] # "closed" <=> f = sd \/ f \in orphans
Achieved == \A t \in Threads :
    /\ pc[t] = "close_tcp" => state \notin TlsStates
    /\ pc[t] \in {"close_end", "open", "failed", "lost", "accept"} => state = "IDLE"
    /\ pc[t] = "listen" => state = "IDLE" \/ sd = None
    /\ pc[t] \in {"dial", "established"} => state = "TCP_CONNECTING" /\ sd \in Fds
Watched ==
    /\ state = "TCP_CONNECTING" /\ ~threw =>
         (sd \in wfd \/ \E t \in Threads : pc[t] \in InClose \union {"dial"})
    /\ state \notin {"IDLE", "TCP_CONNECTING"} /\ ~threw => sd \in rfd

SerialInv ==
    /\ TypeInv /\ Alone /\ Returns /\ Locked /\ Flagged
    /\ OneDescriptor /\ Achieved /\ Watched

LEMMA SerialInit == Init => SerialInv
<1> SUFFICES ASSUME Init PROVE SerialInv
  OBVIOUS
<1>1. \A t \in Threads : pc[t] = "idle"
  BY DEF Init
<1>2. Alone /\ Returns /\ Achieved /\ Watched
  BY <1>1 DEF Init, Alone, Returns, Achieved, Watched, At, Threads, InClose, Closing, Holding
<1>3. Locked
  BY <1>1 DEF Init, Locked, Threads, Holding
<1>4. Flagged
  BY <1>1 DEF Init, Flagged, Closing, Holding
<1>5. OneDescriptor
  BY FdsAssumption DEF Init, OneDescriptor, None
<1>6. QED
  BY <1>2, <1>3, <1>4, <1>5, TypeInit DEF SerialInv

\* A thread that is inside is there alone.
LEMMA Others ==
    ASSUME Alone, NEW t \in Threads, pc[t] # "idle", NEW u \in Threads, u # t
    PROVE  pc[u] = "idle"
BY DEF Alone, At, Threads

LEMMA SerialClose ==
    ASSUME SerialInv, NEW t \in Threads,
           \/ CloseTest(t) \/ CloseFlag(t) \/ CloseLock(t) \/ CloseTls(t)
           \/ CloseTcp(t) \/ CloseEnd(t)
    PROVE  (SerialInv)'
<1>0. TypeInv'
  BY TypeClose DEF SerialInv
<1>1. \A u \in Threads : u # t => pc[u] = "idle" /\ (pc[u])' = "idle"
  BY Others DEF SerialInv, TypeInv, TypeOK, At, Move, Afresh, Goto, CloseTest, CloseFlag, CloseLock,
                CloseTls, CloseTcp, CloseEnd
<1>2. pc \in [Threads -> Pcs] /\ sd \in Fds \union {None}
  BY DEF SerialInv, TypeInv, TypeOK
<1> USE DEF SerialInv, Alone, Returns, Locked, Flagged, OneDescriptor, Achieved, Watched,
            Holding, Closing, InClose, socket, kernel, history, Move, Afresh, Goto, At, Threads
<1>3. CASE CloseTest(t)
  BY <1>0, <1>1, <1>2, <1>3 DEF CloseTest
<1>4. CASE CloseFlag(t)
  BY <1>0, <1>1, <1>2, <1>4 DEF CloseFlag
<1>5. CASE CloseLock(t)
  BY <1>0, <1>1, <1>2, <1>5 DEF CloseLock
<1>6. CASE CloseTls(t)
  BY <1>0, <1>1, <1>2, <1>6 DEF CloseTls, TlsStates
<1>7. CASE CloseTcp(t)
  <2>1. pc[t] = "close_tcp" /\ (pc[t])' = "close_end" /\ UNCHANGED <<lock, ret, closing, orphans>>
    BY <1>2, <1>7 DEF CloseTcp
  <2>2. state' = "IDLE" /\ sd' \in orphans \union {None}
    BY <1>7, <2>1 DEF CloseTcp, TcpStates, TlsStates, TypeInv, TypeOK, States
  <2>3. OneDescriptor'
    <3>1. CASE state \in TcpStates
      <4>1. sd \notin orphans /\ sd' = None
        BY <1>7, <3>1 DEF CloseTcp, TcpStates
      <4>2. \A f \in Fds : net'[f] = IF f = sd THEN "closed" ELSE net[f]
        BY <1>2, <1>7, <3>1 DEF CloseTcp, TypeInv, TypeOK
      <4>3. QED
        BY <2>1, <2>2, <4>1, <4>2, FdsAssumption DEF None
    <3>2. CASE state \notin TcpStates
      BY <1>7, <2>1, <2>2, <3>2 DEF CloseTcp
    <3>3. QED
      BY <3>1, <3>2
  <2>4. Alone' /\ Returns' /\ Locked' /\ Flagged'
    BY <1>1, <1>2, <2>1
  <2>5. Achieved' /\ Watched'
    BY <1>1, <1>2, <2>1, <2>2
  <2>6. QED
    BY <1>0, <2>3, <2>4, <2>5
<1>8. CASE CloseEnd(t)
  BY <1>0, <1>1, <1>2, <1>8 DEF CloseEnd
<1> QED BY <1>3, <1>4, <1>5, <1>6, <1>7, <1>8

LEMMA SerialConnect ==
    ASSUME SerialInv, NEW t \in Threads,
           \/ Failed(t) \/ Lost(t) \/ ConnectTest(t) \/ ConnectOpen(t)
           \/ OpenThrows(t) \/ DialPending(t) \/ DialFails(t) \/ DialAtOnce(t) \/ DialThrows(t)
    PROVE  (SerialInv)'
<1>0. TypeInv'
  BY TypeConnect DEF SerialInv
<1>1. \A u \in Threads : u # t => pc[u] = "idle" /\ (pc[u])' = "idle"
  BY Others DEF SerialInv, TypeInv, TypeOK, At, Move, Afresh, Throw, Goto, CallClose, Failed,
                Lost, Backoff, ConnectTest, ConnectOpen, OpenThrows, DialPending, DialFails,
                DialAtOnce, DialThrows, Establish
<1>2. pc \in [Threads -> Pcs] /\ ret \in [Threads -> Pcs] /\ sd \in Fds \union {None}
  BY DEF SerialInv, TypeInv, TypeOK
<1> USE DEF SerialInv, Alone, Returns, Locked, Flagged, OneDescriptor, Achieved, Watched,
            Holding, Closing, InClose, socket, kernel, history, Move, Afresh, Throw, Goto, At,
            CallClose, Threads
<1>3. CASE Failed(t)
  BY <1>0, <1>1, <1>2, <1>3 DEF Failed, Backoff
<1>4. CASE Lost(t)
  BY <1>0, <1>1, <1>2, <1>4 DEF Lost, Backoff
<1>5. CASE ConnectTest(t)
  BY <1>0, <1>1, <1>2, <1>5 DEF ConnectTest
<1>6. CASE ConnectOpen(t)
  BY <1>0, <1>1, <1>2, <1>6, FdsAssumption DEF ConnectOpen, None, TypeInv, TypeOK
<1>7. CASE DialPending(t)
  BY <1>0, <1>1, <1>2, <1>7 DEF DialPending, TypeInv, TypeOK
<1>8. CASE DialFails(t)
  BY <1>0, <1>1, <1>2, <1>8 DEF DialFails
<1>9. CASE DialAtOnce(t)
  BY <1>0, <1>1, <1>2, <1>9, FdsAssumption DEF DialAtOnce, Establish, None, TypeInv, TypeOK
<1>10. CASE OpenThrows(t)
  BY <1>0, <1>1, <1>2, <1>10, FdsAssumption DEF OpenThrows, None, TypeInv, TypeOK
<1>11. CASE DialThrows(t)
  BY <1>0, <1>1, <1>2, <1>11, FdsAssumption DEF DialThrows, None, TypeInv, TypeOK
<1> QED BY <1>3, <1>4, <1>5, <1>6, <1>7, <1>8, <1>9, <1>10, <1>11

LEMMA SerialTls ==
    ASSUME SerialInv, NEW t \in Threads,
           \/ TlsOpen(t) \/ TlsBegin(t) \/ TlsThrows(t) \/ TlsWant(t) \/ TlsDone(t)
           \/ TlsFails(t) \/ TlsOther(t) \/ Listen(t) \/ ListenThrows(t) \/ Accept(t)
           \/ AcceptThrows(t)
    PROVE  (SerialInv)'
<1>0. TypeInv'
  BY TypeTls DEF SerialInv
<1>1. \A u \in Threads : u # t => pc[u] = "idle" /\ (pc[u])' = "idle"
  BY Others DEF SerialInv, TypeInv, TypeOK, At, Move, Afresh, Throw, Goto, CallClose, control,
                InHandshake, TlsOpen, TlsBegin, TlsThrows, TlsWant, TlsDone, TlsFails, TlsOther,
                Listen, ListenThrows, Accept, AcceptThrows
<1>2. pc \in [Threads -> Pcs] /\ ret \in [Threads -> Pcs] /\ sd \in Fds \union {None}
  BY DEF SerialInv, TypeInv, TypeOK
<1> USE DEF SerialInv, Alone, Returns, Locked, Flagged, OneDescriptor, Achieved, Watched,
            Holding, Closing, InClose, socket, kernel, control, history, Move, Afresh, Throw,
            Goto, At, CallClose, Threads, InHandshake
<1>3. CASE TlsOpen(t)
  BY <1>0, <1>1, <1>2, <1>3 DEF TlsOpen
<1>4. CASE TlsBegin(t)
  BY <1>0, <1>1, <1>2, <1>4 DEF TlsBegin
<1>5. CASE TlsWant(t)
  BY <1>0, <1>1, <1>2, <1>5 DEF TlsWant
<1>6. CASE TlsDone(t)
  BY <1>0, <1>1, <1>2, <1>6 DEF TlsDone
<1>7. CASE TlsFails(t)
  BY <1>0, <1>1, <1>2, <1>7 DEF TlsFails
<1>8. CASE TlsOther(t)
  BY <1>0, <1>1, <1>2, <1>8 DEF TlsOther
<1>9. CASE Listen(t)
  BY <1>0, <1>1, <1>2, <1>9, FdsAssumption DEF Listen, None, TypeInv, TypeOK
<1>10. CASE Accept(t)
  BY <1>0, <1>1, <1>2, <1>10, FdsAssumption DEF Accept, None, TypeInv, TypeOK
<1>11. CASE TlsThrows(t)
  BY <1>0, <1>1, <1>2, <1>11 DEF TlsThrows
<1>12. CASE ListenThrows(t)
  BY <1>0, <1>1, <1>2, <1>12, FdsAssumption DEF ListenThrows, None, TypeInv, TypeOK
<1>13. CASE AcceptThrows(t)
  BY <1>0, <1>1, <1>2, <1>13, FdsAssumption DEF AcceptThrows, None, TypeInv, TypeOK
<1> QED BY <1>3, <1>4, <1>5, <1>6, <1>7, <1>8, <1>9, <1>10, <1>11, <1>12, <1>13

\* Under Serial a call, and a round of the rx thread, begin with nobody inside.
LEMMA SerialApp ==
    ASSUME SerialInv, Serial, App
    PROVE  (SerialInv)'
<1>0. TypeInv'
  BY TypeApp DEF SerialInv
<1>1. pc \in [Threads -> Pcs] /\ ret \in [Threads -> Pcs]
  BY DEF SerialInv, TypeInv, TypeOK
<1> USE DEF Alone, Returns, Locked, Flagged, OneDescriptor, Achieved, Watched,
            Holding, Closing, InClose, At, Threads
<1>2. ASSUME NEW what, NEW where \in {"close", "connect", "tls_connect", "listen", "accept"},
             NEW back \in {"idle", "listen", "accept"}, NEW r, NEW withTls,
             AppCall(what, where, back, r, withTls),
             where = "accept" => state = "IDLE",
             where = "listen" => sd = None
      PROVE  (SerialInv)'
  <2>1. \A t \in Threads : pc[t] = "idle"
    BY <1>2 DEF AppCall, MayStart, Quiet
  <2>2. (pc["app"])' = where /\ (ret["app"])' = back /\ (pc["rx"])' = "idle"
    BY <1>1, <1>2, <2>1 DEF AppCall
  <2>3. UNCHANGED <<state, sd, closing, lock, rfd, wfd, net, threw, orphans>>
    BY <1>2 DEF AppCall, kernel
  <2>4. Alone' /\ Returns'
    BY <2>2
  <2>5. Locked' /\ Flagged'
    BY <2>1, <2>2, <2>3 DEF SerialInv
  <2>6. OneDescriptor' /\ Achieved' /\ Watched'
    BY <1>2, <2>1, <2>2, <2>3 DEF SerialInv
  <2>7. QED
    BY <1>0, <2>4, <2>5, <2>6 DEF SerialInv
<1>3. CASE AppClose BY <1>2, <1>3 DEF AppClose
<1>4. CASE AppListen BY <1>2, <1>4 DEF AppListen
<1>5. ASSUME NEW r \in BOOLEAN, AppConnect(r) PROVE (SerialInv)'
  BY <1>2, <1>5 DEF AppConnect
<1>6. ASSUME NEW r \in BOOLEAN, AppTlsConnect(r) PROVE (SerialInv)'
  BY <1>2, <1>6 DEF AppTlsConnect
<1>7. ASSUME NEW r \in BOOLEAN, AppAccept(r) PROVE (SerialInv)'
  BY <1>2, <1>7 DEF AppAccept
<1> QED BY <1>3, <1>4, <1>5, <1>6, <1>7 DEF App

LEMMA SerialRx ==
    ASSUME SerialInv, Serial, Rx
    PROVE  (SerialInv)'
<1>0. TypeInv'
  BY TypeRx DEF SerialInv
<1>1. pc \in [Threads -> Pcs] /\ ret \in [Threads -> Pcs]
  BY DEF SerialInv, TypeInv, TypeOK
<1>2. pc["app"] = "idle" /\ (pc["app"])' = "idle"
  BY <1>1 DEF SerialInv, Alone, At, Threads, Rx, RxStep, RxWakeup, RxRead, RxWrite, RxTimer,
              RxConnecting, RxConnectThrows, RxEstablished, RxHandshake, RxReceive, RxOther,
              Establish, Begin, MayStart, Quiet, Move, Afresh, Throw, Goto, CallClose
<1> USE DEF SerialInv, Alone, Returns, Locked, Flagged, OneDescriptor, Achieved, Watched,
            Holding, Closing, InClose, At, Threads, socket, kernel, history, Move, Afresh, Throw, Goto,
            CallClose, Begin, MayStart
<1>3. CASE RxWakeup BY <1>0, <1>1, <1>2, <1>3 DEF RxWakeup
<1>4. CASE RxRead BY <1>0, <1>1, <1>2, <1>4 DEF RxRead
<1>5. CASE RxWrite BY <1>0, <1>1, <1>2, <1>5 DEF RxWrite
<1>6. CASE RxTimer BY <1>0, <1>1, <1>2, <1>6 DEF RxTimer
<1>7. CASE RxConnecting BY <1>0, <1>1, <1>2, <1>7 DEF RxConnecting
<1>8. CASE RxEstablished
  <2>1. sd \in Fds
    BY <1>8 DEF RxEstablished, TypeInv, TypeOK
  <2>2. QED
    BY <1>0, <1>1, <1>2, <1>8, <2>1, FdsAssumption DEF RxEstablished, Establish, None
<1>9. CASE RxHandshake BY <1>0, <1>1, <1>2, <1>9 DEF RxHandshake
<1>10. CASE RxReceive BY <1>0, <1>1, <1>2, <1>10 DEF RxReceive
<1>11. CASE RxOther BY <1>0, <1>1, <1>2, <1>11 DEF RxOther
<1>12. CASE RxConnectThrows BY <1>0, <1>1, <1>2, <1>12 DEF RxConnectThrows
<1> QED BY <1>3, <1>4, <1>5, <1>6, <1>7, <1>8, <1>9, <1>10, <1>11, <1>12 DEF Rx, RxStep

LEMMA SerialKernel ==
    ASSUME SerialInv, Kernel
    PROVE  (SerialInv)'
<1>0. TypeInv'
  BY TypeKernel DEF SerialInv
<1>1. UNCHANGED <<state, sd, closing, lock, rfd, wfd, pc, ret, threw, orphans>>
  BY DEF Kernel, Net, NetUp, NetRefused, NetDown, NetData, socket, control, history
<1>2. Alone' /\ Returns' /\ Locked' /\ Flagged' /\ Achieved' /\ Watched'
  BY <1>1 DEF SerialInv, Alone, Returns, Locked, Flagged, Achieved, Watched, At
<1>3. \A f \in Fds : net'[f] # "closed" <=> net[f] # "closed"
  BY DEF Kernel, Net, NetUp, NetRefused, NetDown, NetData, SerialInv, TypeInv, TypeOK
<1>4. OneDescriptor'
  BY <1>1, <1>3 DEF SerialInv, OneDescriptor
<1>5. QED
  BY <1>0, <1>2, <1>4 DEF SerialInv

LEMMA SerialNext == Serial /\ SerialInv /\ [Next]_vars => (SerialInv)'
<1> SUFFICES ASSUME Serial, SerialInv, [Next]_vars PROVE (SerialInv)'
  OBVIOUS
<1>1. ASSUME NEW t \in Threads, Step(t) PROVE (SerialInv)'
  BY <1>1, SerialClose, SerialConnect, SerialTls DEF Step
<1>2. CASE UNCHANGED vars
  <2>1. TypeInv'
    BY <1>2, TypeNext DEF SerialInv
  <2>2. QED
    BY <1>2, <2>1 DEF vars, socket, kernel, control, history, SerialInv, Alone, Returns, Locked, Flagged,
                      OneDescriptor, Achieved, Watched, At
<1>3. QED
  BY <1>1, <1>2, SerialApp, SerialRx, SerialKernel DEF Next

\* Between calls the parts of the invariant say that the socket is whole.
LEMMA SerialWhole == SerialInv => SocketIntact
<1> SUFFICES ASSUME SerialInv PROVE SocketIntact
  OBVIOUS
<1>1. TypeOK /\ BackoffBounded
  BY DEF SerialInv, TypeInv
<1>2. CloseCompletes
  BY DEF CloseCompletes, Quiet, At, SerialInv, Flagged, Closing, Holding
<1>3. NotDeaf
  BY DEF NotDeaf, Quiet, At, SerialInv, OneDescriptor, Watched, InClose, Closing, Holding
<1>4. NoLeak
  BY <1>1, FdsAssumption DEF NoLeak, SerialInv, OneDescriptor, TypeOK, None
<1>5. QED
  BY <1>1, <1>2, <1>3, <1>4 DEF SocketIntact

(***************************************************************************)
(* An application that calls only while the rx thread waits finds the      *)
(* socket whole after every call and every event, whatever system call of  *)
(* listen(), tcp_accept(), tcp_connect() and the TLS handshake has failed: *)
(* the next close() closes all that is open but what a listen() has left   *)
(* in an idle socket, no FLAG_CLOSING remains, and what is open is watched *)
(* unless an exception has ended the call that opened it.  Without Serial, *)
(* close() races with the rx thread and may leave it deaf.                 *)
(***************************************************************************)
THEOREM SocketStaysWhole ==
    ASSUME Serial
    PROVE  Spec => []SocketIntact
<1>1. SerialInv /\ [Next]_vars => (SerialInv)'
  BY SerialNext
<1>2. QED
  BY <1>1, SerialInit, SerialWhole, PTL DEF Spec
=============================================================================
