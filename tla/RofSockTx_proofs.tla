-------------------------- MODULE RofSockTx_proofs --------------------------
(***************************************************************************)
(* Proofs about the transmit path of crofsock, for any number of senders,  *)
(* any queue sizes, weights and word size.                                 *)
(***************************************************************************)
EXTENDS RofSockTx, FiniteSetTheorems, SequenceTheorems, TLAPS

USE DEF QUEUE_OAM, QUEUE_MGMT, QUEUE_FLOW, QUEUE_PKT

(***************************************************************************)
(* Clearing a copy of a queue leaves the queue's length and only marks its *)
(* message objects as deleted.                                             *)
(***************************************************************************)
LEMMA ClearedCopiesShape ==
    ASSUME TypeOK
    PROVE  /\ ClearedCopies \in [QueueIds -> Seq(Entry)]
           /\ \A q \in QueueIds : Len(ClearedCopies[q]) = Len(txqueues[q])
<1> DEFINE C(q) == [i \in DOMAIN txqueues[q] |->
                      [txqueues[q][i] EXCEPT !.live = FALSE]]
<1>1. ASSUME NEW q \in QueueIds
      PROVE  C(q) \in Seq(Entry) /\ Len(C(q)) = Len(txqueues[q])
  <2>1. txqueues[q] \in Seq(Entry)
    BY <1>1 DEF TypeOK, QueueType
  <2>2. DOMAIN txqueues[q] = 1..Len(txqueues[q]) /\ Len(txqueues[q]) \in Nat
    BY <2>1
  <2>3. \A i \in 1..Len(txqueues[q]) : txqueues[q][i] \in Entry
    BY <2>1
  <2>4. \A i \in 1..Len(txqueues[q]) :
           [txqueues[q][i] EXCEPT !.live = FALSE] \in Entry
    BY <2>3 DEF Entry
  <2>5. QED
    BY <2>2, <2>4
<1>2. ClearedCopies = [q \in QueueIds |-> C(q)]
  BY DEF ClearedCopies
<1>3. QED
  BY <1>1, <1>2

(***************************************************************************)
(* The counter's word is larger than what queues and senders can hold.     *)
(***************************************************************************)
LEMMA WordBounds ==
    /\ WordSize \in Nat
    /\ QueueBound \in Nat
    /\ Cardinality(Senders) \in Nat
    /\ 4 * QueueBound + 2 + Cardinality(Senders) < WordSize
    /\ 1 < WordSize
<1>1. Cardinality(Senders) \in Nat
  BY SendersAssumption, FS_CardinalityType
<1>2. QueueBound \in Nat
  BY SizesAssumption DEF QueueBound
<1>3. QED
  BY <1>1, <1>2, WordAssumption

(***************************************************************************)
(* A group of variables that does not change keeps its type.               *)
(***************************************************************************)
LEMMA TypesKept ==
    ASSUME TypeOK
    PROVE  /\ UNCHANGED sockvars => SockType'
           /\ UNCHANGED <<tx_is_running, congested, blocked, wakeup, writefd,
                          writable, broken>> => FlagType'
           /\ UNCHANGED <<pending, threshold>> => CountType'
           /\ UNCHANGED <<txqueues, txbuffer>> /\ txpc' # "send" => QueueType'
           /\ UNCHANGED <<txqueues, txbuffer, txpc>> => QueueType'
           /\ UNCHANGED sendvars => SendType'
           /\ UNCHANGED txvars => LoopType'
<1> USE DEF TypeOK
<1>1. UNCHANGED sockvars => SockType'
  BY DEF sockvars, SockType
<1>2. UNCHANGED <<tx_is_running, congested, blocked, wakeup, writefd,
                  writable, broken>> => FlagType'
  BY DEF FlagType
<1>3. UNCHANGED <<pending, threshold>> => CountType'
  BY DEF CountType
<1>4. UNCHANGED <<txqueues, txbuffer>> /\ txpc' # "send" => QueueType'
  BY DEF QueueType
<1>5. UNCHANGED <<txqueues, txbuffer, txpc>> => QueueType'
  BY DEF QueueType
<1>6. UNCHANGED sendvars => SendType'
  BY DEF sendvars, SendType
<1>7. UNCHANGED txvars => LoopType'
  BY DEF txvars, LoopType
<1>8. QED
  BY <1>1, <1>2, <1>3, <1>4, <1>5, <1>6, <1>7

(***************************************************************************)
(* Every step keeps the variables in their types: in particular a message  *)
(* is in hand whenever send_from_queue() is about to call ::send().        *)
(***************************************************************************)
THEOREM TypeCorrect == Spec => []TypeOK
<1>1. Init => TypeOK
  <2> SUFFICES ASSUME Init PROVE TypeOK
    OBVIOUS
  <2> USE DEF Init
  <2>1. SockType
    BY DEF SockType
  <2>2. FlagType
    BY DEF FlagType
  <2>3. CountType
    BY WordBounds DEF CountType
  <2>4. QueueType
    BY DEF QueueType, Buffer
  <2>5. SendType
    BY DEF SendType
  <2>6. LoopType
    BY DEF LoopType, QueueIds, TxPcs
  <2>7. QED
    BY <2>1, <2>2, <2>3, <2>4, <2>5, <2>6 DEF TypeOK
<1>2. TypeOK /\ [Next]_vars => TypeOK'
  <2> SUFFICES ASSUME TypeOK, [Next]_vars PROVE TypeOK'
    OBVIOUS
  <2> USE TypesKept DEF TypeOK, sockvars, congvars, envvars, sendvars, txvars
  <2>1. ASSUME NEW s \in Senders, NEW q \in Classes, NEW m \in Msgs,
               NEW e \in BOOLEAN,
               SendMessage(s, [class |-> q, msg |-> m, enforce |-> e])
        PROVE  TypeOK'
    BY <2>1, ClassesAssumption DEF SendMessage, SendType, Request
  <2>2. ASSUME NEW s \in Senders, SendStore(s) PROVE TypeOK'
    <3> DEFINE r == sendreq[s]
    <3>1. r \in Request
      BY <2>2 DEF SendStore, SendType
    <3>2. txqueues' \in [QueueIds -> Seq(Entry)]
      <4>1. [msg |-> r.msg, live |-> TRUE] \in Entry /\ r.class \in QueueIds
        BY <3>1 DEF Request, Entry
      <4>2. Append(txqueues[r.class], [msg |-> r.msg, live |-> TRUE])
               \in Seq(Entry)
        BY <4>1 DEF QueueType
      <4>3. QED
        BY <2>2, <4>1, <4>2 DEF SendStore, QueueType
    <3>3. QueueType'
      BY <2>2, <3>2 DEF SendStore, QueueType
    <3>4. SendType'
      BY <2>2 DEF SendStore, SendType
    <3>5. QED
      BY <2>2, <3>3, <3>4 DEF SendStore
  <2>3. ASSUME NEW s \in Senders, SendQueueFull(s) PROVE TypeOK'
    BY <2>3 DEF SendQueueFull, SendType
  <2>4. ASSUME NEW s \in Senders, SendCount(s) PROVE TypeOK'
    BY <2>4, WordBounds DEF SendCount, SendType, CountType, Inc
  <2>5. ASSUME NEW s \in Senders, SendWake(s) PROVE TypeOK'
    BY <2>5 DEF SendWake, SendType, FlagType
  <2>6. CASE TxWakeup
    BY <2>6 DEF TxWakeup, FlagType, LoopType, TxPcs
  <2>7. CASE TxWriteEvent
    BY <2>7 DEF TxWriteEvent, FlagType, LoopType, TxPcs
  <2>8. CASE TxEnter
    <3>1. FlagType'
      BY <2>8 DEF TxEnter, FlagType
    <3>2. LoopType'
      <4>1. CASE state = "IDLE"
        BY <2>8, <4>1 DEF TxEnter, LoopType, TxPcs
      <4>2. CASE state # "IDLE"
        <5>1. txpc' = "fetch" /\ queue_id' = 0 /\ num' = 0
          BY <2>8, <4>2 DEF TxEnter
        <5>2. reschedule' \in BOOLEAN
          BY <2>8, <4>2, Zenon DEF TxEnter
        <5>3. QED
          BY <5>1, <5>2 DEF LoopType, QueueIds, TxPcs
      <4>3. QED
        BY <4>1, <4>2
    <3>3. QED
      BY <2>8, <3>1, <3>2 DEF TxEnter
  <2>9. CASE TxStop
    BY <2>9 DEF TxStop, FlagType, LoopType, QueueIds, TxPcs, Return
  <2>10. CASE TxRetrieve
    <3>1. txqueues[queue_id] \in Seq(Entry) /\ txqueues[queue_id] # <<>>
      BY <2>10 DEF TxRetrieve, QueueType, LoopType
    <3>2. Head(txqueues[queue_id]) \in Entry
      BY <3>1
    <3>3. txbuffer' \in Buffer /\ txbuffer' # Empty
      BY <2>10, <3>2, SizesAssumption
      DEF TxRetrieve, Entry, Buffer, Empty, LoopType
    <3>4. txqueues' \in [QueueIds -> Seq(Entry)]
      <4>1. Tail(txqueues[queue_id]) \in Seq(Entry)
        BY <3>1
      <4>2. QED
        BY <2>10, <4>1 DEF TxRetrieve, QueueType
    <3>5. QueueType' /\ LoopType'
      BY <2>10, <3>3, <3>4 DEF TxRetrieve, QueueType, LoopType, TxPcs
    <3>6. QED
      BY <2>10, <3>5 DEF TxRetrieve
  <2>11. CASE TxQueueEmpty
    BY <2>11 DEF TxQueueEmpty, MayFetch, LoopType, TxPcs
  <2>12. CASE TxResume
    BY <2>12 DEF TxResume, MayFetch, QueueType, LoopType, TxPcs
  <2>13. CASE TxSend
    <3>1. PICK k \in 1..txbuffer.left :
             /\ txbuffer' = IF k = txbuffer.left
                            THEN Empty ELSE [txbuffer EXCEPT !.left = @ - k]
             /\ pending' = IF k = txbuffer.left THEN Dec(pending) ELSE pending
      BY <2>13 DEF TxSend
    <3>2. txbuffer \in [msg : Msgs, live : BOOLEAN, from : QueueIds,
                        left : 1..Fragments]
      BY <2>13 DEF TxSend, QueueType, Buffer
    <3>3. k # txbuffer.left => txbuffer.left - k \in 1..Fragments
      BY <3>2, SizesAssumption
    <3>4. txbuffer' \in Buffer
      BY <3>1, <3>2, <3>3 DEF Buffer
    <3>5. CountType'
      BY <2>13, <3>1, WordBounds DEF TxSend, CountType, Dec
    <3>6. QueueType' /\ LoopType'
      BY <2>13, <3>4 DEF TxSend, NextRound, QueueType, LoopType, TxPcs
    <3>7. FlagType'
      BY <2>13 DEF TxSend, FlagType
    <3>8. QED
      BY <2>13, <3>5, <3>6, <3>7 DEF TxSend
  <2>14. CASE TxCongestion
    <3>1. CountType'
      BY <2>14, WordBounds DEF TxCongestion, CountType
    <3>2. FlagType'
      BY <2>14 DEF TxCongestion, FlagType
    <3>3. LoopType'
      BY <2>14 DEF TxCongestion, Return, LoopType, QueueIds, TxPcs
    <3>4. QED
      BY <2>14, <3>1, <3>2, <3>3 DEF TxCongestion, Return
  <2>15. CASE TxError
    BY <2>15 DEF TxError, FlagType, LoopType, QueueIds, TxPcs, Return
  <2>16. CASE TxWantRead
    BY <2>16 DEF TxWantRead, LoopType, QueueIds, TxPcs, Return
  <2>17. CASE TxUnable
    BY <2>17 DEF TxUnable, LoopType, TxPcs, NextRound
  <2>18. CASE TxNext
    BY <2>18 DEF TxNext, LoopType, QueueIds, TxPcs
  <2>19. CASE TxSolve
    <3>1. FlagType'
      BY <2>19, Zenon DEF TxSolve, FlagType
    <3>2. LoopType'
      <4>1. CASE reschedule
        <5>1. txpc' = "fetch" /\ queue_id' = 0 /\ num' = 0
          BY <2>19, <4>1 DEF TxSolve
        <5>2. reschedule' \in BOOLEAN
          BY <2>19, <4>1, Zenon DEF TxSolve
        <5>3. QED
          BY <5>1, <5>2 DEF LoopType, QueueIds, TxPcs
      <4>2. CASE ~reschedule
        BY <2>19, <4>2 DEF TxSolve, LoopType, TxPcs
      <4>3. QED
        BY <4>1, <4>2
    <3>3. QED
      BY <2>19, <3>1, <3>2 DEF TxSolve
  <2>20. CASE TxExit
    BY <2>20 DEF TxExit, FlagType, LoopType, QueueIds, TxPcs, Return
  <2>21. CASE TxRecheck
    BY <2>21 DEF TxRecheck, FlagType, LoopType, TxPcs
  <2>22. CASE CloseBegin
    BY <2>22 DEF CloseBegin, SockType
  <2>23. CASE CloseDisable
    BY <2>23 DEF CloseDisable, SockType
  <2>24. CASE CloseDown
    BY <2>24 DEF CloseDown, SockType, FlagType
  <2>25. CASE CloseReset
    BY <2>25 DEF CloseReset, SockType
  <2>26. CASE Connect
    BY <2>26, ClearedCopiesShape DEF Connect, SockType, QueueType
  <2>27. CASE Established
    <3>1. SockType'
      BY <2>27 DEF Established, SockType
    <3>2. FlagType'
      BY <2>27 DEF Established, FlagType
    <3>3. QED
      BY <2>27, <3>1, <3>2 DEF Established
  <2>28. CASE PeerReads
    BY <2>28 DEF PeerReads, FlagType
  <2>29. CASE ConnectionBreaks
    BY <2>29 DEF ConnectionBreaks, FlagType
  <2>30. CASE UNCHANGED vars
    BY <2>30 DEF vars
  <2>31. QED
    BY <2>1, <2>2, <2>3, <2>4, <2>5, <2>6, <2>7, <2>8, <2>9, <2>10, <2>11, <2>12, <2>13, <2>14, <2>15, <2>16, <2>17, <2>18, <2>19, <2>20, <2>21, <2>22, <2>23, <2>24, <2>25, <2>26, <2>27, <2>28, <2>29, <2>30
    DEF Next, Send, SendSteps, Tx, Close
<1>3. QED
  BY <1>1, <1>2, PTL DEF Spec

(***************************************************************************)
(* Facts about the two numbers behind txqueue_pending_pkts.                *)
(***************************************************************************)
LEMMA QueueLengths ==
    ASSUME TypeOK
    PROVE  /\ Len(txqueues[0]) \in Nat /\ Len(txqueues[1]) \in Nat
           /\ Len(txqueues[2]) \in Nat /\ Len(txqueues[3]) \in Nat
BY DEF TypeOK, QueueType, QueueIds

\* The messages in the queues, and the one in txbuffer.
Queued == Len(txqueues[0]) + Len(txqueues[1]) +
          Len(txqueues[2]) + Len(txqueues[3])
InBuffer == IF txbuffer = Empty THEN 0 ELSE 1

\* Backlog is the sum of the four queue lengths and the message in hand.
LEMMA BacklogSum ==
    ASSUME TypeOK
    PROVE  Queued \in Nat /\ InBuffer \in {0, 1} /\ Backlog = Queued + InBuffer
<1>1. Queued \in Nat
  <2> DEFINE a == Len(txqueues[0])
             b == Len(txqueues[1])
             c == Len(txqueues[2])
             d == Len(txqueues[3])
  <2>1. a \in Nat /\ b \in Nat /\ c \in Nat /\ d \in Nat
    BY QueueLengths
  <2>2. Queued = a + b + c + d
    BY DEF Queued
  <2> HIDE DEF a, b, c, d
  <2>3. QED
    BY <2>1, <2>2
<1>2. InBuffer \in {0, 1}
  BY DEF InBuffer
<1>3. QED
  BY <1>1, <1>2 DEF Backlog, Queued, InBuffer

\* While the queues are bounded so is the number of messages to send.
LEMMA BacklogFacts ==
    ASSUME TypeOK, QueuesBounded
    PROVE  /\ \A q \in QueueIds : Len(txqueues[q]) \in 0..QueueBound
           /\ Backlog \in 0..(4 * QueueBound + 1)
<1>1. \A q \in QueueIds : Len(txqueues[q]) \in 0..QueueBound
  BY WordBounds DEF TypeOK, QueueType, QueuesBounded
<1>2. /\ Len(txqueues[0]) <= QueueBound /\ Len(txqueues[1]) <= QueueBound
      /\ Len(txqueues[2]) <= QueueBound /\ Len(txqueues[3]) <= QueueBound
  BY DEF QueuesBounded, QueueIds
<1>3. Queued <= 4 * QueueBound
  <2> DEFINE a == Len(txqueues[0])
             b == Len(txqueues[1])
             c == Len(txqueues[2])
             d == Len(txqueues[3])
  <2>1. a \in Nat /\ b \in Nat /\ c \in Nat /\ d \in Nat
    BY QueueLengths
  <2>2. Queued = a + b + c + d
    BY DEF Queued
  <2>3. a <= QueueBound /\ b <= QueueBound /\ c <= QueueBound /\ d <= QueueBound
    BY <1>2
  <2> HIDE DEF a, b, c, d
  <2>4. QED
    BY <2>1, <2>2, <2>3, WordBounds
<1>4. QED
  BY <1>1, <1>3, BacklogSum, WordBounds

\* One queue gets longer or shorter by n.
LEMMA QueuedStep ==
    ASSUME TypeOK, NEW c \in QueueIds, NEW n \in Int,
           \A q \in QueueIds : Len(txqueues'[q]) =
              IF q = c THEN Len(txqueues[q]) + n ELSE Len(txqueues[q])
    PROVE  Queued' = Queued + n
<1> DEFINE l(q) == Len(txqueues[q])
           k(q) == Len(txqueues'[q])
<1>1. /\ k(0) = IF 0 = c THEN l(0) + n ELSE l(0)
      /\ k(1) = IF 1 = c THEN l(1) + n ELSE l(1)
      /\ k(2) = IF 2 = c THEN l(2) + n ELSE l(2)
      /\ k(3) = IF 3 = c THEN l(3) + n ELSE l(3)
  BY DEF QueueIds
<1>2. l(0) \in Nat /\ l(1) \in Nat /\ l(2) \in Nat /\ l(3) \in Nat
  BY QueueLengths
<1>3. c = 0 \/ c = 1 \/ c = 2 \/ c = 3
  BY DEF QueueIds
<1>4. Queued' = k(0) + k(1) + k(2) + k(3) /\ Queued = l(0) + l(1) + l(2) + l(3)
  BY DEF Queued
<1> HIDE DEF l, k
<1>5. QED
  BY <1>1, <1>2, <1>3, <1>4

\* The senders between store() and the increment form a finite set.
LEMMA UncountedFacts ==
    /\ IsFiniteSet(Uncounted)
    /\ Cardinality(Uncounted) \in 0..Cardinality(Senders)
<1>1. Uncounted \subseteq Senders
  BY DEF Uncounted
<1>2. IsFiniteSet(Uncounted) /\ Cardinality(Uncounted) <= Cardinality(Senders)
  BY <1>1, SendersAssumption, FS_Subset
<1>3. QED
  BY <1>2, FS_CardinalityType, WordBounds

\* Incrementing and decrementing the word follows the difference it stands for.
LEMMA WordSteps ==
    ASSUME NEW d \in Int, -WordSize < d, d < WordSize - 1
    PROVE  /\ Inc(Word(d)) = Word(d + 1)
           /\ -WordSize + 1 < d => Dec(Word(d)) = Word(d - 1)
BY WordBounds DEF Inc, Dec, Word

\* A step that stores, removes and counts nothing keeps the balance.
LEMMA BalanceKept ==
    ASSUME TypeOK, QueuesBounded, PendingCount,
           pending' = pending,
           \A s \in Senders : (sendpc[s] = "count")' <=> sendpc[s] = "count",
           \A q \in QueueIds : Len(txqueues'[q]) = Len(txqueues[q]),
           (txbuffer = Empty)' <=> txbuffer = Empty
    PROVE  QueuesBounded' /\ PendingCount'
<1>1. Uncounted' = Uncounted
  BY DEF Uncounted
<1>2. Backlog' = Backlog
  BY DEF Backlog, QueueIds, Empty
<1>3. QED
  BY <1>1, <1>2 DEF QueuesBounded, PendingCount, Word

(***************************************************************************)
(* txqueue_pending_pkts equals the number of messages in the queues and in *)
(* txbuffer less those that are stored and not yet counted, in unsigned    *)
(* arithmetic, in every state of every session.                            *)
(***************************************************************************)
THEOREM PendingCountHolds == Spec => [](QueuesBounded /\ PendingCount)
<1>1. Init => QueuesBounded /\ PendingCount
  <2> SUFFICES ASSUME Init PROVE QueuesBounded /\ PendingCount
    OBVIOUS
  <2>1. Uncounted = {}
    BY DEF Init, Uncounted
  <2>2. Cardinality(Uncounted) = 0
    BY <2>1, FS_EmptySet
  <2>3. \A q \in QueueIds : Len(txqueues[q]) = 0
    BY DEF Init
  <2>4. Backlog = 0
    BY <2>3 DEF Init, Backlog, QueueIds
  <2>5. QED
    BY <2>2, <2>3, <2>4, WordBounds DEF Init, QueuesBounded, PendingCount, Word
<1>2. TypeOK /\ TypeOK' /\ QueuesBounded /\ PendingCount /\ [Next]_vars
         => (QueuesBounded /\ PendingCount)'
  <2> SUFFICES ASSUME TypeOK, TypeOK', QueuesBounded, PendingCount, [Next]_vars
               PROVE  (QueuesBounded /\ PendingCount)'
    OBVIOUS
  <2> DEFINE Card == Cardinality(Uncounted)
             Goal == (QueuesBounded /\ PendingCount)'
  <2> USE DEF sockvars, congvars, envvars, sendvars, txvars
  <2>1. ASSUME NEW s \in Senders, SendStore(s) PROVE Goal
    <3> DEFINE c == sendreq[s].class
    <3>1. c \in QueueIds /\ Len(txqueues[c]) + 1 <= QueueBound
      BY <2>1, BacklogFacts, SizesAssumption
      DEF SendStore, TypeOK, SendType, Request, QueueFull, QueueBound
    <3>2. \A q \in QueueIds : Len(txqueues'[q]) =
             IF q = c THEN Len(txqueues[q]) + 1 ELSE Len(txqueues[q])
      BY <2>1, <3>1 DEF SendStore, TypeOK, QueueType
    <3>3. Backlog' = Backlog + 1
      <4>1. Queued' = Queued + 1
        BY <3>1, <3>2, QueuedStep
      <4>2. InBuffer' = InBuffer
        BY <2>1 DEF SendStore, InBuffer
      <4>3. Backlog' = Queued' + InBuffer'
        BY BacklogSum DEF Backlog, Queued, InBuffer
      <4>4. QED
        BY <4>1, <4>2, <4>3, BacklogSum
    <3>4. Uncounted' = Uncounted \union {s} /\ s \notin Uncounted
      BY <2>1 DEF SendStore, Uncounted, TypeOK, SendType
    <3>5. Cardinality(Uncounted') = Card + 1
      BY <3>4, UncountedFacts, FS_AddElement
    <3>6. QueuesBounded'
      BY <3>1, <3>2 DEF QueuesBounded
    <3>7. Backlog' - Cardinality(Uncounted') = Backlog - Card
      BY <3>3, <3>5, BacklogFacts, UncountedFacts
    <3>8. QED
      BY <2>1, <3>6, <3>7 DEF SendStore, PendingCount
  <2>2. ASSUME NEW s \in Senders, SendCount(s) PROVE Goal
    <3>1. Uncounted' = Uncounted \ {s} /\ s \in Uncounted
      BY <2>2 DEF SendCount, Uncounted, TypeOK, SendType
    <3>2. Cardinality(Uncounted') = Card - 1
      BY <3>1, UncountedFacts, FS_RemoveElement
    <3>3. Backlog' = Backlog
      BY <2>2 DEF SendCount, Backlog
    <3>4. Backlog' - Cardinality(Uncounted') = (Backlog - Card) + 1
      BY <3>2, <3>3, BacklogFacts, UncountedFacts
    <3>5. pending' = Word((Backlog - Card) + 1)
      BY <2>2, WordSteps, BacklogFacts, UncountedFacts, WordBounds
      DEF SendCount, PendingCount
    <3>6. QED
      BY <2>2, <3>4, <3>5 DEF SendCount, PendingCount, QueuesBounded
  <2>3. CASE TxRetrieve
    <3>1. queue_id \in QueueIds /\ txbuffer = Empty /\ txbuffer' # Empty
      BY <2>3 DEF TxRetrieve, TypeOK, LoopType, QueueType
    <3>2. \A q \in QueueIds : Len(txqueues'[q]) =
             IF q = queue_id THEN Len(txqueues[q]) - 1 ELSE Len(txqueues[q])
      BY <2>3, <3>1 DEF TxRetrieve, TypeOK, QueueType
    <3>3. Backlog' = Backlog
      <4>1. \A q \in QueueIds : Len(txqueues[q]) \in Nat
        BY DEF TypeOK, QueueType
      <4>2. \A q \in QueueIds : Len(txqueues'[q]) =
             IF q = queue_id THEN Len(txqueues[q]) + (-1) ELSE Len(txqueues[q])
        BY <3>2, <4>1
      <4>3. Queued' = Queued - 1
        <5>1. Queued' = Queued + (-1)
          BY <3>1, <4>2, QueuedStep
        <5>2. QED
          BY <5>1, BacklogSum
      <4>4. InBuffer' = 1 /\ InBuffer = 0
        BY <3>1 DEF InBuffer, Empty
      <4>5. Backlog' = Queued' + InBuffer'
        BY BacklogSum DEF Backlog, Queued, InBuffer
      <4>6. QED
        BY <4>3, <4>4, <4>5, BacklogSum
    <3>4. Uncounted' = Uncounted
      BY <2>3 DEF TxRetrieve, Uncounted
    <3>5. PendingCount'
      BY <2>3, <3>3, <3>4 DEF TxRetrieve, PendingCount
    <3>6. QueuesBounded'
      BY <3>2, BacklogFacts, WordBounds DEF QueuesBounded
    <3>7. QED
      BY <3>5, <3>6
  <2>4. CASE TxSend
    <3>1. PICK k \in 1..txbuffer.left :
             /\ txbuffer' = IF k = txbuffer.left
                            THEN Empty ELSE [txbuffer EXCEPT !.left = @ - k]
             /\ pending' = IF k = txbuffer.left THEN Dec(pending) ELSE pending
      BY <2>4 DEF TxSend
    <3>2. txbuffer # Empty
      BY <2>4 DEF TxSend, TypeOK, QueueType
    <3>3. CASE k # txbuffer.left
      <4>1. txbuffer \in [msg : Msgs, live : BOOLEAN, from : QueueIds,
                          left : 1..Fragments]
        BY <3>2 DEF TypeOK, QueueType, Buffer
      <4>2. txbuffer' # Empty
        BY <3>1, <3>3, <4>1 DEF Empty
      <4>3. QED
        BY <2>4, <3>1, <3>2, <3>3, <4>2, BalanceKept DEF TxSend
    <3>4. CASE k = txbuffer.left
      <4>1. Backlog' = Backlog - 1 /\ Backlog >= 1
        <5>1. InBuffer' = 0 /\ InBuffer = 1
          BY <3>1, <3>2, <3>4 DEF InBuffer, Empty
        <5>2. Queued' = Queued
          BY <2>4 DEF TxSend, Queued
        <5>3. Backlog' = Queued' + InBuffer'
          BY BacklogSum DEF Backlog, Queued, InBuffer
        <5>4. QED
          BY <5>1, <5>2, <5>3, BacklogSum
      <4>2. Uncounted' = Uncounted
        BY <2>4 DEF TxSend, Uncounted
      <4>3. pending' = Word((Backlog - Card) - 1)
        <5>1. /\ Backlog - Card \in Int
              /\ -WordSize + 1 < Backlog - Card
              /\ Backlog - Card < WordSize - 1
          BY <4>1, BacklogFacts, UncountedFacts, WordBounds
        <5>2. Dec(Word(Backlog - Card)) = Word((Backlog - Card) - 1)
          BY <5>1, WordSteps, WordBounds
        <5>3. QED
          BY <3>1, <3>4, <5>2 DEF PendingCount
      <4>4. Backlog' - Cardinality(Uncounted') = (Backlog - Card) - 1
        BY <4>1, <4>2, BacklogFacts, UncountedFacts
      <4>5. QED
        BY <2>4, <4>3, <4>4 DEF TxSend, PendingCount, QueuesBounded
    <3>5. QED
      BY <3>3, <3>4
  <2>5. CASE Connect
    BY <2>5, ClearedCopiesShape, BalanceKept DEF Connect
  <2>6. ASSUME NEW s \in Senders, NEW r \in Request, SendMessage(s, r)
        PROVE  Goal
    BY <2>6, BalanceKept DEF SendMessage, TypeOK, SendType
  <2>7. ASSUME NEW s \in Senders, SendQueueFull(s) \/ SendWake(s) PROVE Goal
    BY <2>7, BalanceKept DEF SendQueueFull, SendWake, TypeOK, SendType
  <2>8. ASSUME UNCHANGED <<pending, sendpc, txqueues, txbuffer>> PROVE Goal
    BY <2>8, BalanceKept
  <2>9. CASE TxWakeup \/ TxWriteEvent \/ TxEnter \/ TxStop \/ TxQueueEmpty \/ TxResume \/ TxCongestion
    BY <2>9, <2>8 DEF TxWakeup, TxWriteEvent, TxEnter, TxStop, TxQueueEmpty, TxResume, TxCongestion
  <2>10. CASE TxError \/ TxWantRead \/ TxUnable \/ TxNext \/ TxSolve \/ TxExit \/ TxRecheck
    BY <2>10, <2>8 DEF TxError, TxWantRead, TxUnable, TxNext, TxSolve, TxExit, TxRecheck
  <2>11. CASE Close \/ Established \/ PeerReads \/ ConnectionBreaks
    BY <2>11, <2>8 DEF Close, CloseBegin, CloseDisable, CloseDown, CloseReset,
                       Established, PeerReads, ConnectionBreaks
  <2>12. CASE UNCHANGED vars
    BY <2>12, <2>8 DEF vars
  <2>13. \A q \in Classes, m \in Msgs, e \in BOOLEAN :
            [class |-> q, msg |-> m, enforce |-> e] \in Request
    BY ClassesAssumption DEF Request
  <2>14. QED
    BY <2>1, <2>2, <2>3, <2>4, <2>5, <2>6, <2>7, <2>9, <2>10, <2>11, <2>12,
       <2>13 DEF Next, Send, SendSteps, Tx
<1>3. QED
  BY <1>1, <1>2, TypeCorrect, PTL DEF Spec

\* A counter at zero and a message to send: some sender has yet to count it.
LEMMA UncountedSender ==
    ASSUME TypeOK, QueuesBounded, PendingCount, pending = 0, Backlog > 0
    PROVE  \E s \in Senders : sendpc[s] = "count"
<1> DEFINE Card == Cardinality(Uncounted)
<1>1. Backlog \in Nat /\ Card \in Nat /\ Card < WordSize
  BY BacklogFacts, UncountedFacts, WordBounds
<1>2. Card = Backlog
  BY <1>1, WordBounds DEF PendingCount, Word
<1>3. Uncounted # {}
  BY <1>1, <1>2, FS_EmptySet
<1>4. QED
  BY <1>3 DEF Uncounted

\* What NoLostWakeup needs to know about close(), the flags and the start.
LEMMA FlagsKept ==
    ASSUME TypeOK, [Next]_vars, CloseProtocol, RunningFlag, NothingBeforeSession,
           ~UseTLS
    PROVE  (CloseProtocol /\ RunningFlag /\ NothingBeforeSession)'
<1> USE DEF sockvars, congvars, envvars, sendvars, txvars
<1>1. CloseProtocol'
  <2>1. CASE UNCHANGED sockvars
    BY <2>1 DEF CloseProtocol
  <2>2. CASE CloseBegin
    BY <2>2 DEF CloseBegin, CloseProtocol
  <2>3. CASE CloseDisable
    BY <2>3 DEF CloseDisable, CloseProtocol
  <2>4. CASE CloseDown
    BY <2>4 DEF CloseDown, CloseProtocol
  <2>5. CASE CloseReset
    BY <2>5 DEF CloseReset, CloseProtocol
  <2>6. CASE Connect
    BY <2>6 DEF Connect, CloseProtocol
  <2>7. CASE Established
    BY <2>7 DEF Established, CloseProtocol
  <2>8. ASSUME NEW s \in Senders, Send(s) PROVE UNCHANGED sockvars
    BY <2>8 DEF Send, SendSteps, SendMessage, SendStore, SendQueueFull,
                SendCount, SendWake
  <2>9. ASSUME Tx PROVE UNCHANGED sockvars
    BY <2>9 DEF Tx, TxWakeup, TxWriteEvent, TxEnter, TxStop, TxRetrieve,
                TxQueueEmpty, TxResume, TxSend, TxCongestion, TxError,
                TxWantRead, TxUnable, TxNext, TxSolve, TxExit, TxRecheck
  <2>10. QED
    BY <2>1, <2>2, <2>3, <2>4, <2>5, <2>6, <2>7, <2>8, <2>9
    DEF Next, Close, PeerReads, ConnectionBreaks, vars
<1>2. RunningFlag'
  <2>1. CASE UNCHANGED <<tx_is_running, txpc>>
    BY <2>1 DEF RunningFlag
  <2>2. ASSUME NEW s \in Senders, Send(s) PROVE UNCHANGED <<tx_is_running, txpc>>
    BY <2>2 DEF Send, SendSteps, SendMessage, SendStore, SendQueueFull,
                SendCount, SendWake
  <2>3. CASE TxWakeup \/ TxWriteEvent \/ TxEnter \/ TxStop
    BY <2>3 DEF TxWakeup, TxWriteEvent, TxEnter, TxStop, Return, RunningFlag
  <2>4. CASE TxRetrieve \/ TxQueueEmpty \/ TxResume
    BY <2>4 DEF TxRetrieve, TxQueueEmpty, TxResume, MayFetch, RunningFlag
  <2>5. CASE TxSend \/ TxUnable
    BY <2>5 DEF TxSend, TxUnable, NextRound, RunningFlag
  <2>6. CASE TxCongestion \/ TxError \/ TxWantRead
    BY <2>6 DEF TxCongestion, TxError, TxWantRead, Return, RunningFlag
  <2>7. CASE TxNext \/ TxSolve \/ TxExit \/ TxRecheck
    BY <2>7 DEF TxNext, TxSolve, TxExit, TxRecheck, Return, RunningFlag
  <2>8. CASE Close \/ Connect \/ Established \/ PeerReads \/ ConnectionBreaks
    BY <2>1, <2>8 DEF Close, CloseBegin, CloseDisable, CloseDown, CloseReset,
                      Connect, Established, PeerReads, ConnectionBreaks
  <2>9. QED
    BY <2>1, <2>2, <2>3, <2>4, <2>5, <2>6, <2>7, <2>8 DEF Next, Tx, vars
<1>3. NothingBeforeSession'
  <2>1. SUFFICES ASSUME session' = 0
                 PROVE  /\ state' # "ESTABLISHED"
                        /\ \A q \in QueueIds : Len(txqueues'[q]) = 0
                        /\ txbuffer' = Empty
                        /\ \A s \in Senders : sendpc'[s] = "idle"
    BY DEF NothingBeforeSession, Empty
  <2>2. ~Established
    BY <2>1 DEF Established, TypeOK, SockType
  <2>3. session = 0
    <3>1. UNCHANGED session \/ Established
      <4>1. ASSUME NEW s \in Senders, Send(s) PROVE UNCHANGED session
        BY <4>1 DEF Send, SendSteps, SendMessage, SendStore, SendQueueFull,
                    SendCount, SendWake
      <4>2. ASSUME Tx PROVE UNCHANGED session
        BY <4>2 DEF Tx, TxWakeup, TxWriteEvent, TxEnter, TxStop, TxRetrieve,
                    TxQueueEmpty, TxResume, TxSend, TxCongestion, TxError,
                    TxWantRead, TxUnable, TxNext, TxSolve, TxExit, TxRecheck
      <4>3. QED
        BY <4>1, <4>2 DEF Next, Close, CloseBegin, CloseDisable, CloseDown,
                          CloseReset, Connect, PeerReads, ConnectionBreaks, vars
    <3>2. QED
      BY <2>1, <2>2, <3>1
  <2>4. /\ state # "ESTABLISHED"
        /\ \A q \in QueueIds : Len(txqueues[q]) = 0
        /\ txbuffer = Empty
        /\ \A s \in Senders : sendpc[s] = "idle"
    BY <2>3 DEF NothingBeforeSession
  <2>5. \A q \in QueueIds : txqueues[q] = <<>>
    BY <2>4 DEF TypeOK, QueueType
  <2>6. CASE UNCHANGED <<state, txqueues, txbuffer, sendpc>>
    BY <2>4, <2>6
  <2>7. CASE Connect
    BY <2>4, <2>7, ClearedCopiesShape DEF Connect
  <2>8. ASSUME NEW s \in Senders PROVE ~Send(s)
    BY <2>4, <2>8 DEF Send, SendSteps, SendMessage, SendStore, SendQueueFull,
                      SendCount, SendWake
  <2>9. ASSUME Tx PROVE UNCHANGED <<state, txqueues, txbuffer, sendpc>>
    BY <2>4, <2>9 DEF Tx, TxWakeup, TxWriteEvent, TxEnter, TxStop, TxRetrieve,
                TxQueueEmpty, TxResume, TxSend, TxCongestion, TxError, MayFetch,
                TxWantRead, TxUnable, TxNext, TxSolve, TxExit, TxRecheck
  <2>10. ASSUME Close PROVE UNCHANGED <<txqueues, txbuffer, sendpc>>
                            /\ (UNCHANGED state \/ state' = "IDLE")
    BY <2>10 DEF Close, CloseBegin, CloseDisable, CloseDown, CloseReset
  <2>11. QED
    BY <2>2, <2>4, <2>6, <2>7, <2>8, <2>9, <2>10
    DEF Next, PeerReads, ConnectionBreaks, vars
<1>4. QED
  BY <1>1, <1>2, <1>3

(***************************************************************************)
(* No lost wakeup, on TCP: whatever the interleaving of any number of      *)
(* senders with the tail of send_from_queue(), a message is never left     *)
(* behind with the tx thread asleep and nobody about to wake it.           *)
(***************************************************************************)
THEOREM NoWakeupIsLost ==
    ASSUME ~UseTLS
    PROVE  Spec => []NoLostWakeup
<1>1. Init => WakeupInv
  <2> SUFFICES ASSUME Init PROVE WakeupInv
    OBVIOUS
  <2>1. CloseProtocol /\ RunningFlag
    BY DEF Init, CloseProtocol, RunningFlag
  <2>2. NothingBeforeSession
    BY DEF Init, NothingBeforeSession
  <2>3. NoLostWakeup
    BY DEF Init, NoLostWakeup, TxAsleep
  <2>4. QED
    BY <2>1, <2>2, <2>3 DEF WakeupInv
<1>2. /\ TypeOK /\ TypeOK' /\ QueuesBounded /\ PendingCount
      /\ WakeupInv /\ [Next]_vars
      => WakeupInv'
  <2> SUFFICES ASSUME TypeOK, TypeOK', QueuesBounded, PendingCount, WakeupInv,
                      [Next]_vars
               PROVE  WakeupInv'
    OBVIOUS
  <2> USE DEF sockvars, congvars, envvars, sendvars, txvars
  <2>1. CloseProtocol /\ RunningFlag /\ NothingBeforeSession /\ NoLostWakeup
    BY DEF WakeupInv
  <2>2. (CloseProtocol /\ RunningFlag /\ NothingBeforeSession)'
    BY <2>1, FlagsKept
  <2>3. SUFFICES ASSUME session' = 1, TxAsleep', ~blocked'
                 PROVE  TxDue'
    BY <2>2 DEF WakeupInv, NoLostWakeup
  <2>4. /\ state' = "ESTABLISHED" /\ ~closing' /\ ~broken'
        /\ txpc' = "epoll" /\ Backlog' > 0
    BY <2>3 DEF TxAsleep
  <2>5. ASSUME UNCHANGED <<state, session, closing, broken, blocked, txpc,
                           txqueues, txbuffer>>
        PROVE  TxDue
    <3>1. TxAsleep
      BY <2>4, <2>5 DEF TxAsleep, Backlog
    <3>2. QED
      BY <2>1, <2>3, <2>5, <3>1 DEF NoLostWakeup
  <2>6. ASSUME NEW s \in Senders, Send(s) PROVE TxDue'
    <3>1. CASE SendStore(s)
      <4>1. sendpc'[s] = "count"
        BY <2>6, <3>1 DEF SendStore, TypeOK, SendType
      <4>2. QED
        BY <4>1 DEF TxDue
    <3>2. CASE SendCount(s)
      <4>1. sendpc'[s] = "wake"
        BY <2>6, <3>2 DEF SendCount, TypeOK, SendType
      <4>2. QED
        BY <4>1 DEF TxDue
    <3>3. CASE SendWake(s)
      <4>1. ~tx_is_running
        BY <2>1, <2>4, <3>3 DEF SendWake, RunningFlag
      <4>2. QED
        BY <3>3, <4>1 DEF SendWake, TxDue
    <3>4. ASSUME UNCHANGED <<sockvars, congvars, envvars, txvars, txqueues,
                             txbuffer, wakeup, writefd>>,
                 sendpc[s] \in {"idle", "store"},
                 \A t \in Senders \ {s} : sendpc'[t] = sendpc[t]
          PROVE  TxDue'
      <4>1. TxDue
        BY <2>5, <3>4
      <4>2. QED
        BY <3>4, <4>1 DEF TxDue
    <3>5. CASE SendQueueFull(s)
      BY <3>4, <3>5 DEF SendQueueFull, TypeOK, SendType
    <3>6. ASSUME NEW r, SendMessage(s, r) PROVE TxDue'
      BY <3>4, <3>6 DEF SendMessage, TypeOK, SendType
    <3>7. QED
      BY <2>6, <3>1, <3>2, <3>3, <3>5, <3>6 DEF Send, SendSteps
  <2>7. ASSUME Tx PROVE TxDue'
    <3>1. CASE TxWakeup
      BY <2>4, <3>1 DEF TxWakeup
    <3>2. CASE TxEnter
      BY <2>4, <3>2 DEF TxEnter
    <3>3. CASE TxStop
      BY <2>1, <2>4, <3>3 DEF TxStop, CloseProtocol
    <3>4. CASE TxCongestion
      BY <3>4 DEF TxCongestion, TxDue
    <3>5. CASE TxError
      BY <2>4, <3>5 DEF TxError
    <3>6. CASE TxRecheck
      <4>1. Backlog' = Backlog /\ Backlog > 0 /\ pending \in Nat
        <5>1. Backlog' = Backlog
          BY <3>6 DEF TxRecheck, Backlog
        <5>2. pending \in Nat
          BY WordBounds DEF TypeOK, CountType
        <5>3. QED
          BY <2>4, <5>1, <5>2
      <4>2. CASE pending > 0
        BY <2>3, <3>6, <4>2 DEF TxRecheck, TxDue
      <4>3. CASE pending = 0
        BY <3>6, <4>1, <4>3, UncountedSender DEF TxRecheck, TxDue
      <4>4. QED
        BY <4>1, <4>2, <4>3
    <3>7. CASE TxWriteEvent \/ TxRetrieve \/ TxQueueEmpty \/ TxResume \/ TxNext
      BY <2>4, <3>7 DEF TxWriteEvent, TxRetrieve, TxQueueEmpty, TxResume, TxNext
    <3>8. CASE TxSend \/ TxUnable \/ TxSolve \/ TxExit
      BY <2>4, <3>8 DEF TxSend, TxUnable, TxSolve, TxExit, NextRound, Return
    <3>9. QED
      BY <2>7, <3>1, <3>2, <3>3, <3>4, <3>5, <3>6, <3>7, <3>8 DEF Tx, TxWantRead
  <2>8. CASE Close
    BY <2>1, <2>4, <2>8 DEF Close, CloseBegin, CloseDisable, CloseDown,
                            CloseReset, CloseProtocol
  <2>9. CASE Connect
    BY <2>4, <2>9 DEF Connect
  <2>10. CASE Established
    <3>1. session = 0
      BY <2>3, <2>10 DEF Established, TypeOK, SockType
    <3>2. \A q \in QueueIds : Len(txqueues'[q]) = 0
      BY <2>1, <2>10, <3>1 DEF Established, NothingBeforeSession
    <3>3. txbuffer' = Empty
      BY <2>1, <2>10, <3>1 DEF Established, NothingBeforeSession
    <3>4. Backlog' = 0
      <4>1. /\ Len(txqueues'[0]) = 0 /\ Len(txqueues'[1]) = 0
            /\ Len(txqueues'[2]) = 0 /\ Len(txqueues'[3]) = 0
        BY <3>2 DEF QueueIds
      <4>2. (txbuffer = Empty)'
        BY <3>3 DEF Empty
      <4>3. QED
        BY <4>1, <4>2 DEF Backlog
    <3>5. QED
      BY <2>4, <3>4
  <2>11. CASE ConnectionBreaks
    BY <2>4, <2>11 DEF ConnectionBreaks
  <2>12. CASE PeerReads \/ UNCHANGED vars
    <3>1. TxDue
      BY <2>5, <2>12 DEF PeerReads, vars
    <3>2. QED
      BY <2>12, <3>1 DEF PeerReads, vars, TxDue
  <2>13. QED
    BY <2>6, <2>7, <2>8, <2>9, <2>10, <2>11, <2>12 DEF Next
<1>3. WakeupInv => NoLostWakeup
  BY DEF WakeupInv
<1>4. QED
  BY <1>1, <1>2, <1>3, TypeCorrect, PendingCountHolds, PTL DEF Spec
-----------------------------------------------------------------------------
(***************************************************************************)
(* The refinement.  What a class of messages has still to be sent is the   *)
(* contents of its queue, after the message in txbuffer if that is one of  *)
(* them.                                                                   *)
(***************************************************************************)
Contents(s) == [i \in DOMAIN s |-> s[i].msg]
InHand(q) == txbuffer # Empty /\ txbuffer.from = q

\* Contents of a queue that is appended to, or whose first message is taken.
LEMMA ContentsOf ==
    ASSUME NEW s \in Seq(Entry)
    PROVE  /\ Contents(s) \in Seq(Msgs)
           /\ \A e \in Entry : Contents(Append(s, e)) = Append(Contents(s), e.msg)
           /\ s # <<>> => /\ Head(s) \in Entry /\ Tail(s) \in Seq(Entry)
                          /\ <<Head(s).msg>> \o Contents(Tail(s)) = Contents(s)
<1>1. ASSUME NEW t \in Seq(Entry)
      PROVE  /\ Contents(t) \in Seq(Msgs) /\ Len(Contents(t)) = Len(t) /\ Len(t) \in Nat
             /\ \A i \in 1..Len(t) : Contents(t)[i] = t[i].msg /\ t[i] \in Entry /\ t[i].msg \in Msgs
  <2>1. DOMAIN t = 1..Len(t) /\ Len(t) \in Nat /\ \A i \in 1..Len(t) : t[i] \in Entry
    OBVIOUS
  <2>2. \A i \in 1..Len(t) : t[i].msg \in Msgs
    BY <2>1 DEF Entry
  <2>3. QED
    BY <2>1, <2>2 DEF Contents
<1>2. ASSUME NEW e \in Entry PROVE Contents(Append(s, e)) = Append(Contents(s), e.msg)
  <2>1. Append(s, e) \in Seq(Entry) /\ Len(Append(s, e)) = Len(s) + 1
    OBVIOUS
  <2>2. e.msg \in Msgs
    BY DEF Entry
  <2>3. /\ Append(Contents(s), e.msg) \in Seq(Msgs)
        /\ Len(Append(Contents(s), e.msg)) = Len(s) + 1
    BY <1>1, <2>2
  <2>4. ASSUME NEW i \in 1..(Len(s) + 1)
        PROVE  Contents(Append(s, e))[i] = Append(Contents(s), e.msg)[i]
    <3>1. Contents(Append(s, e))[i] = Append(s, e)[i].msg
      BY <1>1, <2>1
    <3>2. CASE i = Len(s) + 1
      <4>1. Append(s, e)[i] = e
        BY <1>1, <3>2
      <4>2. Append(Contents(s), e.msg)[i] = e.msg
        BY <1>1, <3>2
      <4>3. QED
        BY <3>1, <4>1, <4>2
    <3>3. CASE i \in 1..Len(s)
      <4>1. Append(s, e)[i] = s[i]
        BY <1>1, <3>3
      <4>2. Append(Contents(s), e.msg)[i] = Contents(s)[i]
        BY <1>1, <3>3
      <4>3. QED
        BY <1>1, <3>1, <3>3, <4>1, <4>2
    <3>4. QED
      BY <1>1, <3>2, <3>3
  <2>5. Contents(Append(s, e)) \in Seq(Msgs) /\ Len(Contents(Append(s, e))) = Len(s) + 1
    <3> DEFINE r == Append(s, e)
    <3>1. r \in Seq(Entry) /\ Len(r) = Len(s) + 1
      BY <2>1
    <3> HIDE DEF r
    <3>2. Contents(r) \in Seq(Msgs) /\ Len(Contents(r)) = Len(s) + 1
      BY <1>1, <3>1
    <3>3. QED
      BY <3>2 DEF r
  <2>6. QED
    BY <2>3, <2>4, <2>5, SeqEqual
<1>3. ASSUME s # <<>>
      PROVE  /\ Head(s) \in Entry /\ Tail(s) \in Seq(Entry)
             /\ <<Head(s).msg>> \o Contents(Tail(s)) = Contents(s)
  <2>1. /\ Head(s) \in Entry /\ Tail(s) \in Seq(Entry) /\ Len(Tail(s)) = Len(s) - 1
        /\ \A i \in 1..Len(Tail(s)) : Tail(s)[i] = s[i + 1]
        /\ Head(s) = s[1] /\ Len(s) \in Nat \ {0}
    BY <1>3, HeadTailProperties, EmptySeq
  <2> DEFINE h == <<Head(s).msg>>
             t == Contents(Tail(s))
  <2>2. h \in Seq(Msgs) /\ Len(h) = 1 /\ h[1] = Head(s).msg
    BY <2>1 DEF Entry
  <2>3. /\ t \in Seq(Msgs) /\ Len(t) = Len(s) - 1
        /\ \A i \in 1..(Len(s) - 1) : t[i] = s[i + 1].msg
    <3> DEFINE r == Tail(s)
    <3>1. r \in Seq(Entry) /\ Len(r) = Len(s) - 1 /\ \A i \in 1..Len(r) : r[i] = s[i + 1]
      BY <2>1
    <3> HIDE DEF r
    <3>2. /\ Contents(r) \in Seq(Msgs) /\ Len(Contents(r)) = Len(r)
          /\ \A i \in 1..Len(r) : Contents(r)[i] = r[i].msg
      BY <1>1, <3>1
    <3>3. /\ Contents(r) \in Seq(Msgs) /\ Len(Contents(r)) = Len(s) - 1
          /\ \A i \in 1..(Len(s) - 1) : Contents(r)[i] = s[i + 1].msg
      BY <3>1, <3>2, Zenon
    <3>4. QED
      BY <3>3 DEF r
  <2> HIDE DEF h, t
  <2>4. /\ h \o t \in Seq(Msgs) /\ Len(h \o t) = Len(s)
        /\ \A i \in 1..Len(s) : (h \o t)[i] = IF i <= 1 THEN h[i] ELSE t[i - 1]
    <3>1. /\ h \o t \in Seq(Msgs) /\ Len(h \o t) = Len(h) + Len(t)
          /\ \A i \in 1..(Len(h) + Len(t)) :
                (h \o t)[i] = IF i <= Len(h) THEN h[i] ELSE t[i - Len(h)]
      BY <2>2, <2>3, ConcatProperties, Zenon
    <3>2. Len(h) = 1 /\ Len(t) = Len(s) - 1 /\ 1 + (Len(s) - 1) = Len(s)
      BY <2>1, <2>2, <2>3
    <3>3. QED
      BY <3>1, <3>2, Zenon
  <2>5. ASSUME NEW i \in 1..Len(s) PROVE (h \o t)[i] = Contents(s)[i]
    <3>1. CASE i = 1
      BY <1>1, <2>1, <2>2, <2>4, <3>1
    <3>2. CASE i # 1
      <4>1. i - 1 \in 1..(Len(s) - 1)
        BY <2>1, <3>2
      <4>2. t[i - 1] = s[(i - 1) + 1].msg
        BY <2>3, <4>1
      <4>3. Contents(s)[i] = s[i].msg /\ (h \o t)[i] = t[i - 1]
        <5>1. Contents(s)[i] = s[i].msg
          BY <1>1
        <5>2. (h \o t)[i] = t[i - 1]
          BY <2>1, <2>4, <3>2
        <5>3. QED
          BY <5>1, <5>2
      <4>4. (i - 1) + 1 = i
        BY <2>1
      <4>5. QED
        BY <4>2, <4>3, <4>4
    <3>3. QED
      BY <3>1, <3>2
  <2>6. h \o t = Contents(s)
    BY <1>1, <2>4, <2>5, SeqEqual
  <2>7. QED
    BY <2>1, <2>6 DEF h, t
<1>4. QED
  BY <1>1, <1>2, <1>3

\* A message in hand goes before those of the queue.
LEMMA Prepended ==
    ASSUME NEW S, NEW m \in S, NEW s \in Seq(S)
    PROVE  /\ <<m>> \o s # <<>> /\ Tail(<<m>> \o s) = s
           /\ \A e \in S : <<m>> \o Append(s, e) = Append(<<m>> \o s, e)
<1>1. /\ <<m>> \in Seq(S) /\ Len(<<m>>) = 1 /\ <<m>>[1] = m
      /\ Len(s) \in Nat
  OBVIOUS
<1>2. /\ <<m>> \o s \in Seq(S) /\ Len(<<m>> \o s) = Len(s) + 1
      /\ \A i \in 1..(Len(s) + 1) : (<<m>> \o s)[i] = IF i <= 1 THEN <<m>>[i] ELSE s[i - 1]
  BY <1>1, ConcatProperties
<1>3. <<m>> \o s # <<>>
  BY <1>1, <1>2, EmptySeq
<1>4. Tail(<<m>> \o s) = s
  <2> DEFINE u == <<m>> \o s
  <2>1. /\ Tail(u) \in Seq(S) /\ Len(Tail(u)) = Len(u) - 1
        /\ \A i \in 1..Len(Tail(u)) : Tail(u)[i] = u[i + 1]
    BY <1>2, <1>3, HeadTailProperties
  <2>2. Len(u) = Len(s) + 1 /\ \A i \in 1..Len(s) : u[i + 1] = s[(i + 1) - 1]
    BY <1>1, <1>2
  <2> HIDE DEF u
  <2>3. Len(Tail(u)) = Len(s)
    BY <1>1, <2>1, <2>2
  <2>4. \A i \in 1..Len(s) : Tail(u)[i] = s[i]
    <3>1. ASSUME NEW i \in 1..Len(s) PROVE Tail(u)[i] = s[i]
      <4>1. (i + 1) - 1 = i
        BY <1>1
      <4>2. QED
        BY <2>1, <2>2, <2>3, <4>1
    <3>2. QED
      BY <3>1
  <2>5. QED
    BY <2>1, <2>3, <2>4, SeqEqual DEF u
<1>5. ASSUME NEW e \in S PROVE <<m>> \o Append(s, e) = Append(<<m>> \o s, e)
  <2>1. <<e>> \in Seq(S)
    OBVIOUS
  <2>2. Append(s, e) = s \o <<e>> /\ Append(<<m>> \o s, e) = (<<m>> \o s) \o <<e>>
    BY <1>2, AppendIsConcat
  <2>3. QED
    BY <1>1, <2>1, <2>2, ConcatAssociative
<1>6. QED
  BY <1>3, <1>4, <1>5

\* Unsent in these terms.
LEMMA UnsentIs ==
    \A q : Unsent(q) = IF InHand(q) THEN <<txbuffer.msg>> \o Contents(txqueues[q])
                                    ELSE Contents(txqueues[q])
BY DEF Unsent, InHand, Contents

LEMMA UnsentIsNext ==
    \A q : Unsent(q)' = IF InHand(q)' THEN <<txbuffer'.msg>> \o Contents(txqueues'[q])
                                      ELSE Contents(txqueues'[q])
BY DEF Unsent, InHand, Contents

\* Whatever leaves queues and buffer alone is a stuttering step.
LEMMA UnsentKept ==
    ASSUME UNCHANGED <<txqueues, txbuffer>>
    PROVE  UNCHANGED [q \in QueueIds |-> Unsent(q)]
BY DEF Unsent

\* send_message() accepts a message.
LEMMA StoreAccepts ==
    ASSUME TypeOK, NEW s \in Senders, SendStore(s)
    PROVE  \E c \in QueueIds, m \in Msgs : Channel!Accept(c, m)
<1>0. PICK c \in QueueIds, m \in Msgs : sendreq[s].class = c /\ sendreq[s].msg = m
  BY DEF SendStore, TypeOK, SendType, Request
<1> DEFINE e == [msg |-> m, live |-> TRUE]
<1>1. c \in QueueIds /\ m \in Msgs /\ e \in Entry
  BY DEF Entry
<1>2. /\ txqueues' = [txqueues EXCEPT ![c] = Append(@, e)] /\ txbuffer' = txbuffer
      /\ txqueues \in [QueueIds -> Seq(Entry)] /\ txbuffer \in Buffer
  BY <1>0 DEF SendStore, TypeOK, QueueType
<1>3. e.msg = m
  OBVIOUS
<1> HIDE DEF e
<1>4. ASSUME NEW q \in QueueIds, q # c PROVE Unsent(q)' = Unsent(q)
  <2>1. txqueues'[q] = txqueues[q]
    BY <1>2, <1>4
  <2>2. QED
    BY <1>2, <2>1 DEF Unsent
<1>5. Unsent(c)' = Append(Unsent(c), m)
  <2>1. txqueues'[c] = Append(txqueues[c], e) /\ txqueues[c] \in Seq(Entry)
    BY <1>1, <1>2
  <2>2. /\ Contents(txqueues'[c]) = Append(Contents(txqueues[c]), m)
        /\ Contents(txqueues[c]) \in Seq(Msgs)
    BY <1>1, <1>3, <2>1, ContentsOf
  <2>3. InHand(c)' <=> InHand(c)
    BY <1>2 DEF InHand
  <2>4. CASE InHand(c)
    <3>1. txbuffer.msg \in Msgs
      BY <1>2, <2>4 DEF InHand, Buffer
    <3>2. <<txbuffer.msg>> \o Append(Contents(txqueues[c]), m)
            = Append(<<txbuffer.msg>> \o Contents(txqueues[c]), m)
      BY <1>1, <2>2, <3>1, Prepended
    <3>3. QED
      BY <1>2, <2>2, <2>3, <2>4, <3>2, UnsentIs, UnsentIsNext
  <2>5. CASE ~InHand(c)
    BY <2>2, <2>3, <2>5, UnsentIs, UnsentIsNext
  <2>6. QED
    BY <2>4, <2>5
<1>6. Channel!Accept(c, m)
  BY <1>1, <1>4, <1>5 DEF Channel!Accept
<1>7. QED
  BY <1>1, <1>6

\* The first message of a queue is still the first of its class in txbuffer.
LEMMA RetrieveStutters ==
    ASSUME TypeOK, TxRetrieve
    PROVE  UNCHANGED [q \in QueueIds |-> Unsent(q)]
<1>1. /\ queue_id \in QueueIds /\ txbuffer = Empty /\ txqueues[queue_id] # <<>>
      /\ txqueues' = [txqueues EXCEPT ![queue_id] = Tail(@)]
      /\ txqueues \in [QueueIds -> Seq(Entry)]
  BY DEF TxRetrieve, TypeOK, QueueType, LoopType
<1>2. txbuffer' # Empty /\ txbuffer'.from = queue_id /\ txbuffer'.msg = Head(txqueues[queue_id]).msg
  BY DEF TxRetrieve, Empty
<1>3. ASSUME NEW q \in QueueIds PROVE Unsent(q)' = Unsent(q)
  <2>1. ~InHand(q) /\ (InHand(q)' <=> q = queue_id)
    BY <1>1, <1>2 DEF InHand
  <2>2. CASE q # queue_id
    <3>1. txqueues'[q] = txqueues[q]
      BY <1>1, <2>2
    <3>2. QED
      BY <2>1, <2>2, <3>1, UnsentIs, UnsentIsNext
  <2>3. CASE q = queue_id
    <3>1. txqueues'[q] = Tail(txqueues[q]) /\ txqueues[q] \in Seq(Entry) /\ txqueues[q] # <<>>
      BY <1>1, <2>3
    <3>2. <<Head(txqueues[q]).msg>> \o Contents(Tail(txqueues[q])) = Contents(txqueues[q])
      BY <3>1, ContentsOf
    <3>3. QED
      BY <1>2, <2>1, <2>3, <3>1, <3>2, UnsentIs, UnsentIsNext
  <2>4. QED
    BY <2>2, <2>3
<1>4. QED
  BY <1>3

\* ::send() delivers a message when it takes the last fragment.
LEMMA SendDelivers ==
    ASSUME TypeOK, TxSend
    PROVE  \/ UNCHANGED [q \in QueueIds |-> Unsent(q)]
           \/ \E c \in QueueIds : Channel!Deliver(c)
<1>1. PICK k \in 1..txbuffer.left :
         txbuffer' = IF k = txbuffer.left THEN Empty ELSE [txbuffer EXCEPT !.left = @ - k]
  BY DEF TxSend
<1>2. /\ txbuffer \in [msg : Msgs, live : BOOLEAN, from : QueueIds, left : 1..Fragments]
      /\ txbuffer # Empty /\ txqueues' = txqueues
      /\ txqueues \in [QueueIds -> Seq(Entry)]
  BY DEF TxSend, TypeOK, QueueType, Buffer
<1>3. CASE k # txbuffer.left
  <2>1. txbuffer' # Empty /\ txbuffer'.msg = txbuffer.msg /\ txbuffer'.from = txbuffer.from
    BY <1>1, <1>2, <1>3 DEF Empty
  <2>2. ASSUME NEW q \in QueueIds PROVE Unsent(q)' = Unsent(q)
    BY <1>2, <2>1, UnsentIs, UnsentIsNext DEF InHand
  <2>3. QED
    BY <2>2
<1>4. CASE k = txbuffer.left
  <2>0. PICK c \in QueueIds, m \in Msgs : txbuffer.from = c /\ txbuffer.msg = m
    BY <1>2
  <2> DEFINE t == Contents(txqueues[c])
  <2>1. txbuffer' = Empty /\ c \in QueueIds /\ m \in Msgs
    BY <1>1, <1>2, <1>4
  <2>2. ASSUME NEW q \in QueueIds, q # c PROVE Unsent(q)' = Unsent(q)
    BY <1>2, <2>0, <2>1, <2>2, UnsentIs, UnsentIsNext DEF InHand
  <2>3. Unsent(c) = <<m>> \o t /\ Unsent(c)' = t
    BY <1>2, <2>0, <2>1, UnsentIs, UnsentIsNext DEF InHand
  <2>4. t \in Seq(Msgs)
    BY <1>2, <2>1, ContentsOf
  <2> HIDE DEF t
  <2>5. Unsent(c) # <<>> /\ Unsent(c)' = Tail(Unsent(c))
    BY <2>1, <2>3, <2>4, Prepended
  <2>6. Channel!Deliver(c)
    BY <2>1, <2>2, <2>5 DEF Channel!Deliver
  <2>7. QED
    BY <2>1, <2>6
<1>5. QED
  BY <1>3, <1>4

\* Connecting again marks the messages of the queues as deleted, nothing else.
LEMMA ConnectStutters ==
    ASSUME TypeOK, Connect
    PROVE  UNCHANGED [q \in QueueIds |-> Unsent(q)]
<1>1. txqueues' = ClearedCopies /\ txbuffer' = txbuffer
  BY DEF Connect
<1>2. ASSUME NEW q \in QueueIds PROVE Contents(txqueues'[q]) = Contents(txqueues[q])
  <2>1. txqueues[q] \in Seq(Entry)
    BY DEF TypeOK, QueueType
  <2>2. txqueues'[q] = [i \in DOMAIN txqueues[q] |-> [txqueues[q][i] EXCEPT !.live = FALSE]]
    BY <1>1 DEF ClearedCopies
  <2>3. \A i \in DOMAIN txqueues[q] : [txqueues[q][i] EXCEPT !.live = FALSE].msg = txqueues[q][i].msg
    BY <2>1 DEF Entry
  <2>4. DOMAIN txqueues'[q] = DOMAIN txqueues[q]
        /\ \A i \in DOMAIN txqueues[q] : txqueues'[q][i].msg = txqueues[q][i].msg
    BY <2>2, <2>3
  <2>5. QED
    BY <2>4 DEF Contents
<1>3. \A q \in QueueIds : Unsent(q)' = Unsent(q)
  BY <1>1, <1>2, UnsentIs, UnsentIsNext DEF InHand
<1>4. QED
  BY <1>3

(***************************************************************************)
(* The transmit path implements MsgChannel: for any number of senders and  *)
(* sessions, whatever congestion, TLS, errors and close() do in between,   *)
(* the messages of a class leave in the order in which they were stored,   *)
(* once each.                                                              *)
(***************************************************************************)
THEOREM TransmitsInOrder == Spec => FifoPerClass
<1>1. Init => Channel!Init
  <2> SUFFICES ASSUME Init PROVE Channel!Init
    OBVIOUS
  <2>1. ASSUME NEW q \in QueueIds PROVE Unsent(q) = <<>>
    BY DEF Init, Unsent
  <2>2. QED
    BY <2>1 DEF Channel!Init
<1>2. TypeOK /\ [Next]_vars => [Channel!Next]_[q \in QueueIds |-> Unsent(q)]
  <2> SUFFICES ASSUME TypeOK, [Next]_vars PROVE [Channel!Next]_[q \in QueueIds |-> Unsent(q)]
    OBVIOUS
  <2> USE DEF sockvars, congvars, envvars, sendvars, txvars
  <2>1. ASSUME NEW s \in Senders, SendStore(s) PROVE Channel!Next
    BY <2>1, StoreAccepts DEF Channel!Next
  <2>2. CASE TxRetrieve
    BY <2>2, RetrieveStutters
  <2>3. CASE TxSend
    BY <2>3, SendDelivers DEF Channel!Next
  <2>4. CASE Connect
    BY <2>4, ConnectStutters
  <2>5. ASSUME UNCHANGED <<txqueues, txbuffer>> PROVE UNCHANGED [q \in QueueIds |-> Unsent(q)]
    BY <2>5, UnsentKept
  <2>6. ASSUME NEW s \in Senders, NEW r, SendMessage(s, r) PROVE UNCHANGED <<txqueues, txbuffer>>
    BY <2>6 DEF SendMessage
  <2>7. ASSUME NEW s \in Senders, SendQueueFull(s) \/ SendCount(s) \/ SendWake(s)
        PROVE  UNCHANGED <<txqueues, txbuffer>>
    BY <2>7 DEF SendQueueFull, SendCount, SendWake
  <2>8. ASSUME TxWakeup \/ TxWriteEvent \/ TxEnter \/ TxStop \/ TxQueueEmpty \/ TxResume \/ TxCongestion
        PROVE  UNCHANGED <<txqueues, txbuffer>>
    BY <2>8 DEF TxWakeup, TxWriteEvent, TxEnter, TxStop, TxQueueEmpty, TxResume, TxCongestion
  <2>9. ASSUME TxError \/ TxWantRead \/ TxUnable \/ TxNext \/ TxSolve \/ TxExit \/ TxRecheck
        PROVE  UNCHANGED <<txqueues, txbuffer>>
    BY <2>9 DEF TxError, TxWantRead, TxUnable, TxNext, TxSolve, TxExit, TxRecheck
  <2>10. ASSUME Close \/ Established \/ PeerReads \/ ConnectionBreaks
         PROVE  UNCHANGED <<txqueues, txbuffer>>
    BY <2>10 DEF Close, CloseBegin, CloseDisable, CloseDown, CloseReset,
                 Established, PeerReads, ConnectionBreaks
  <2>11. CASE UNCHANGED vars
    BY <2>5, <2>11 DEF vars
  <2>12. QED
    BY <2>1, <2>2, <2>3, <2>4, <2>5, <2>6, <2>7, <2>8, <2>9, <2>10, <2>11
    DEF Next, Send, SendSteps, Tx
<1>3. QED
  BY <1>1, <1>2, TypeCorrect, PTL DEF Spec, FifoPerClass, Channel!Spec
=============================================================================
