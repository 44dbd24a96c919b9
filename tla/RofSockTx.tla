------------------------------ MODULE RofSockTx ------------------------------
(***************************************************************************)
(* The transmit path of crofsock: any number of application threads call   *)
(* send_message(), one tx thread runs send_from_queue(), and some thread   *)
(* (the rx thread or the application) calls close() and connects again.    *)
(*                                                                         *)
(* The three share the tx queues (each with a lock of its own), the atomic *)
(* counter txqueue_pending_pkts, the atomic tx_is_running and the flags.   *)
(* Nothing else orders them, so every access to one of these is a step of  *)
(* its own here.  A call of send_message() that is refused (transmission   *)
(* disabled, not established) deletes its message and changes nothing: it  *)
(* is a stuttering step.                                                   *)
(***************************************************************************)
EXTENDS Integers, Sequences, FiniteSets

CONSTANTS
    Senders,       \* application threads that call send_message()
    Msgs,          \* message contents
    Classes,       \* the tx queues the application uses, a subset of QueueIds
    txweights,     \* messages sent from a queue before the next one is served
    QueueMaxSize,  \* queue_max_size of each crofqueue (128 in the code)
    EnforceBound,  \* BOUND: length up to which enforced stores are explored
    Fragments,     \* BOUND: ::send() calls a message may need
    WordSize,      \* number of values of an unsigned int (2^32 in the code)
    UseTLS,        \* TRUE: the session is STATE_TLS_ESTABLISHED
    MaxSessions    \* BOUND: how often the socket gets established

QUEUE_OAM == 0     \* echo request and reply
QUEUE_MGMT == 1    \* everything that is not in another class
QUEUE_FLOW == 2    \* flow, group, table and port mods, barriers
QUEUE_PKT == 3     \* packet-in, packet-out
QUEUE_MAX == 4
QueueIds == {QUEUE_OAM, QUEUE_MGMT, QUEUE_FLOW, QUEUE_PKT}

\* No queue of the model gets longer than this.
QueueBound == IF QueueMaxSize > EnforceBound THEN QueueMaxSize ELSE EnforceBound

ASSUME SendersAssumption == IsFiniteSet(Senders)
ASSUME ClassesAssumption == Classes \subseteq QueueIds
ASSUME WeightsAssumption == txweights \in [QueueIds -> Nat \ {0}]
ASSUME SizesAssumption ==
    /\ QueueMaxSize \in Nat
    /\ EnforceBound \in Nat
    /\ Fragments \in Nat \ {0}
    /\ MaxSessions \in Nat
ASSUME TLSAssumption == UseTLS \in BOOLEAN
\* The counter is wide enough for every message that fits into memory.
ASSUME WordAssumption ==
    /\ WordSize \in Nat
    /\ 4 * QueueBound + 2 + Cardinality(Senders) < WordSize

VARIABLES
    state,          \* connection state, reduced to what the tx path tests
    session,        \* number of the current session (history)
    closing,        \* FLAG_CLOSING
    closepc,        \* progress of close(), which holds tlock while # "none"
    tx_disabled,
    tx_is_running,
    congested,      \* FLAG_CONGESTED
    blocked,        \* FLAG_TX_BLOCK_QUEUEING
    pending,        \* txqueue_pending_pkts, an unsigned word
    threshold,      \* txqueue_size_tx_threshold
    txqueues,
    txbuffer,       \* the message being sent and its unsent fragments
    wakeup,         \* this socket is in the wakeup set of the tx thread
    writefd,        \* EPOLLOUT registered for sd in the tx thread
    writable,       \* the kernel's send buffer has room
    broken,         \* ::send() fails with an error other than EAGAIN
    sendpc, sendreq,                \* each sender's position and argument
    txpc, queue_id, num, reschedule \* the tx thread's position in its loops

sockvars == <<state, session, closing, closepc, tx_disabled>>
congvars == <<congested, blocked, threshold>>
envvars == <<writable, broken>>
sendvars == <<sendpc, sendreq>>
txvars == <<txpc, queue_id, num, reschedule>>
vars == <<state, session, closing, closepc, tx_disabled, tx_is_running,
          congested, blocked, pending, threshold, txqueues, txbuffer, wakeup,
          writefd, writable, broken, sendpc, sendreq, txpc, queue_id, num,
          reschedule>>

\* A message object: its content, and whether it still is allocated.
Entry == [msg : Msgs, live : BOOLEAN]
Empty == [left |-> 0]
Buffer == {Empty} \union
          [msg : Msgs, live : BOOLEAN, from : QueueIds, left : 1..Fragments]
Request == [class : QueueIds, msg : Msgs, enforce : BOOLEAN]
NoRequest == [enforce |-> FALSE]

\* Unsigned arithmetic on std::atomic_uint.
Word(n) == IF n < 0 THEN n + WordSize ELSE n
Inc(w) == IF w = WordSize - 1 THEN 0 ELSE w + 1
Dec(w) == IF w = 0 THEN WordSize - 1 ELSE w - 1

-----------------------------------------------------------------------------

Init ==
    /\ state = "IDLE" /\ session = 0
    /\ closing = FALSE /\ closepc = "none"
    /\ tx_disabled = FALSE /\ tx_is_running = FALSE
    /\ congested = FALSE /\ blocked = FALSE
    /\ pending = 0 /\ threshold = 0
    /\ txqueues = [q \in QueueIds |-> <<>>]
    /\ txbuffer = Empty
    /\ wakeup = FALSE /\ writefd = FALSE
    /\ writable = TRUE /\ broken = FALSE
    /\ sendpc = [s \in Senders |-> "idle"]
    /\ sendreq = [s \in Senders |-> NoRequest]
    /\ txpc = "epoll" /\ queue_id = QUEUE_OAM /\ num = 0 /\ reschedule = FALSE

-----------------------------------------------------------------------------
(* send_message(), run by application thread s *)

\* The tests at the top of send_message(); echo messages are always enforced.
SendMessage(s, r) ==
    /\ sendpc[s] = "idle"
    /\ ~tx_disabled
    /\ state = "ESTABLISHED"
    /\ r.class = QUEUE_OAM => r.enforce
    /\ sendpc' = [sendpc EXCEPT ![s] = "store"]
    /\ sendreq' = [sendreq EXCEPT ![s] = r]
    /\ UNCHANGED <<sockvars, congvars, envvars, txvars, tx_is_running, pending,
                   txqueues, txbuffer, wakeup, writefd>>

\* crofqueue::store(): a queue at its maximum refuses what is not enforced.
QueueFull(r) == ~r.enforce /\ Len(txqueues[r.class]) >= QueueMaxSize

SendStore(s) ==
    LET r == sendreq[s] IN
    /\ sendpc[s] = "store"
    /\ ~QueueFull(r)
    /\ r.enforce => Len(txqueues[r.class]) < EnforceBound
    /\ txqueues' = [txqueues EXCEPT ![r.class] =
                      Append(@, [msg |-> r.msg, live |-> TRUE])]
    /\ sendpc' = [sendpc EXCEPT ![s] = "count"]
    /\ sendreq' = [sendreq EXCEPT ![s] = NoRequest]
    /\ UNCHANGED <<sockvars, congvars, envvars, txvars, tx_is_running, pending,
                   txbuffer, wakeup, writefd>>

\* eRofQueueFull: the message is deleted, nobody is woken.
SendQueueFull(s) ==
    /\ sendpc[s] = "store"
    /\ QueueFull(sendreq[s])
    /\ sendpc' = [sendpc EXCEPT ![s] = "idle"]
    /\ sendreq' = [sendreq EXCEPT ![s] = NoRequest]
    /\ UNCHANGED <<sockvars, congvars, envvars, txvars, tx_is_running, pending,
                   txqueues, txbuffer, wakeup, writefd>>

\* txqueue_pending_pkts++ follows the store, it is not part of it.
SendCount(s) ==
    /\ sendpc[s] = "count"
    /\ pending' = Inc(pending)
    /\ sendpc' = [sendpc EXCEPT ![s] = "wake"]
    /\ UNCHANGED <<sockvars, congvars, envvars, txvars, tx_is_running,
                   txqueues, txbuffer, wakeup, writefd, sendreq>>

\* Wake the tx thread unless it is running; then return to the caller.
SendWake(s) ==
    /\ sendpc[s] = "wake"
    /\ wakeup' = (wakeup \/ ~tx_is_running)
    /\ sendpc' = [sendpc EXCEPT ![s] = "idle"]
    /\ UNCHANGED <<sockvars, congvars, envvars, txvars, tx_is_running, pending,
                   txqueues, txbuffer, writefd, sendreq>>

-----------------------------------------------------------------------------
(* The tx thread: cthread::run_loop(), handle_wakeup(),                     *)
(* handle_write_event() and send_from_queue()                              *)

\* get_state() takes tlock, which close() holds from begin to end.
TLockFree == closepc = "none"

TxWakeup ==
    /\ txpc = "epoll"
    /\ wakeup
    /\ wakeup' = FALSE
    /\ txpc' = IF closing THEN "epoll" ELSE "enter"
    /\ UNCHANGED <<sockvars, congvars, envvars, sendvars, tx_is_running,
                   pending, txqueues, txbuffer, writefd, queue_id, num,
                   reschedule>>

TxWriteEvent ==
    /\ txpc = "epoll"
    /\ writefd /\ writable
    /\ ~closing
    /\ congested' = FALSE
    /\ writefd' = FALSE
    /\ txpc' = "enter"
    /\ UNCHANGED <<sockvars, blocked, threshold, envvars, sendvars,
                   tx_is_running, pending, txqueues, txbuffer, wakeup,
                   queue_id, num, reschedule>>

\* send_from_queue() returns, its local variables are gone.
Return(pc) ==
    /\ txpc' = pc
    /\ queue_id' = QUEUE_OAM
    /\ num' = 0
    /\ reschedule' = FALSE

TxEnter ==
    /\ txpc = "enter"
    /\ TLockFree
    /\ IF state = "IDLE"
       THEN /\ txpc' = "epoll"
            /\ UNCHANGED <<tx_is_running, queue_id, num, reschedule>>
       ELSE /\ tx_is_running' = TRUE
            /\ txpc' = "fetch"
            /\ queue_id' = QUEUE_OAM
            /\ num' = 0
            /\ reschedule' = FALSE
    /\ UNCHANGED <<sockvars, congvars, envvars, sendvars, pending, txqueues,
                   txbuffer, wakeup, writefd>>

\* Transmission has been disabled or the connection is gone.
TxStop ==
    /\ txpc = "fetch"
    /\ TLockFree
    /\ tx_disabled \/ state # "ESTABLISHED"
    /\ tx_is_running' = FALSE
    /\ Return("epoll")
    /\ UNCHANGED <<sockvars, congvars, envvars, sendvars, pending, txqueues,
                   txbuffer, wakeup, writefd>>

MayFetch ==
    /\ txpc = "fetch"
    /\ TLockFree
    /\ ~tx_disabled
    /\ state = "ESTABLISHED"

\* Variant of TxRetrieve that reads the queue's first message and leaves it there.
TxRetrieveKeeps ==
    /\ MayFetch
    /\ txbuffer = Empty
    /\ txqueues[queue_id] # <<>>
    /\ LET e == Head(txqueues[queue_id])
       IN  \E f \in 1..Fragments :
              txbuffer' = [msg |-> e.msg, live |-> e.live,
                           from |-> queue_id, left |-> f]
    /\ txpc' = "send"
    /\ UNCHANGED <<sockvars, congvars, envvars, sendvars, tx_is_running, txqueues,
                   pending, wakeup, writefd, queue_id, num, reschedule>>

\* No fragment is pending: pack the queue's first message into txbuffer.
TxRetrieve ==
    /\ MayFetch
    /\ txbuffer = Empty
    /\ txqueues[queue_id] # <<>>
    /\ LET e == Head(txqueues[queue_id])
       IN  \E f \in 1..Fragments :
              txbuffer' = [msg |-> e.msg, live |-> e.live,
                           from |-> queue_id, left |-> f]
    /\ txqueues' = [txqueues EXCEPT ![queue_id] = Tail(@)]
    /\ txpc' = "send"
    /\ UNCHANGED <<sockvars, congvars, envvars, sendvars, tx_is_running,
                   pending, wakeup, writefd, queue_id, num, reschedule>>

\* Variant of TxQueueEmpty that goes on without a message.
TxQueueEmptySends ==
    /\ MayFetch
    /\ txbuffer = Empty
    /\ txqueues[queue_id] = <<>>
    /\ txpc' = "send"
    /\ UNCHANGED <<sockvars, congvars, envvars, sendvars, tx_is_running,
                   pending, txqueues, txbuffer, wakeup, writefd, queue_id, num,
                   reschedule>>

\* The queue is empty: leave the inner loop.
TxQueueEmpty ==
    /\ MayFetch
    /\ txbuffer = Empty
    /\ txqueues[queue_id] = <<>>
    /\ txpc' = "next"
    /\ UNCHANGED <<sockvars, congvars, envvars, sendvars, tx_is_running,
                   pending, txqueues, txbuffer, wakeup, writefd, queue_id, num,
                   reschedule>>

\* A fragment of an earlier message is pending: send it first.
TxResume ==
    /\ MayFetch
    /\ txbuffer # Empty
    /\ txpc' = "send"
    /\ UNCHANGED <<sockvars, congvars, envvars, sendvars, tx_is_running,
                   pending, txqueues, txbuffer, wakeup, writefd, queue_id, num,
                   reschedule>>

\* The end of the inner loop's body: num counts up to the queue's weight.
NextRound ==
    /\ num' = num + 1
    /\ txpc' = IF num + 1 < txweights[queue_id] THEN "fetch" ELSE "next"
    /\ UNCHANGED <<queue_id, reschedule>>

\* Variant of TxSend that counts every successful ::send() as a message sent.
TxSendCountsFragments ==
    /\ txpc = "send"
    /\ state = "ESTABLISHED"
    /\ writable /\ ~broken
    /\ \E k \in 1..txbuffer.left :
          txbuffer' = IF k = txbuffer.left
                      THEN Empty ELSE [txbuffer EXCEPT !.left = @ - k]
    /\ pending' = Dec(pending)
    /\ writable' \in BOOLEAN
    /\ congested' = FALSE
    /\ NextRound
    /\ UNCHANGED <<sockvars, blocked, threshold, broken, sendvars,
                   tx_is_running, txqueues, wakeup, writefd>>

\* ::send() or SSL_write() takes the first k fragments; room may run out.
TxSend ==
    /\ txpc = "send"
    /\ state = "ESTABLISHED"
    /\ writable /\ ~broken
    /\ \E k \in 1..txbuffer.left :
          /\ txbuffer' = IF k = txbuffer.left
                         THEN Empty ELSE [txbuffer EXCEPT !.left = @ - k]
          /\ pending' = IF k = txbuffer.left THEN Dec(pending) ELSE pending
    /\ writable' \in BOOLEAN
    /\ congested' = FALSE
    /\ NextRound
    /\ UNCHANGED <<sockvars, blocked, threshold, broken, sendvars,
                   tx_is_running, txqueues, wakeup, writefd>>

\* EAGAIN or SSL_ERROR_WANT_WRITE: wait for a write event, block queueing.
TxCongestion ==
    /\ txpc = "send"
    /\ state = "ESTABLISHED"
    /\ ~writable /\ ~broken
    /\ tx_is_running' = FALSE
    /\ congested' = TRUE
    /\ writefd' = TRUE
    /\ blocked' = TRUE
    /\ threshold' = IF blocked THEN threshold ELSE pending \div 2
    /\ Return("epoll")
    /\ UNCHANGED <<sockvars, envvars, sendvars, pending, txqueues, txbuffer,
                   wakeup>>

\* Any other error: give up; the rx thread meets the error as well.
TxError ==
    /\ txpc = "send"
    /\ state = "ESTABLISHED"
    /\ broken
    /\ tx_is_running' = FALSE
    /\ Return("epoll")
    /\ UNCHANGED <<sockvars, congvars, envvars, sendvars, pending, txqueues,
                   txbuffer, wakeup, writefd>>

\* SSL_ERROR_WANT_READ returns with tx_is_running still set.
TxWantRead ==
    /\ UseTLS
    /\ txpc = "send"
    /\ state = "ESTABLISHED"
    /\ ~broken
    /\ Return("epoll")
    /\ UNCHANGED <<sockvars, congvars, envvars, sendvars, tx_is_running,
                   pending, txqueues, txbuffer, wakeup, writefd>>

\* close() took effect between the test of the state and the switch over it.
TxUnable ==
    /\ txpc = "send"
    /\ state # "ESTABLISHED"
    /\ NextRound
    /\ UNCHANGED <<sockvars, congvars, envvars, sendvars, tx_is_running,
                   pending, txqueues, txbuffer, wakeup, writefd>>

\* Variant of TxNext that serves a queue until it is empty.
TxNextStrict ==
    /\ txpc = "next"
    /\ UNCHANGED reschedule
    /\ IF txqueues[queue_id] # <<>>
       THEN /\ txpc' = "fetch"
            /\ num' = 0
            /\ UNCHANGED queue_id
       ELSE IF queue_id = QUEUE_PKT
       THEN /\ txpc' = "solve"
            /\ UNCHANGED <<queue_id, num>>
       ELSE /\ txpc' = "fetch"
            /\ queue_id' = queue_id + 1
            /\ num' = 0
    /\ UNCHANGED <<sockvars, congvars, envvars, sendvars, tx_is_running,
                   pending, txqueues, txbuffer, wakeup, writefd>>

\* Leave the inner loop: note whether this queue has to be served again.
TxNext ==
    /\ txpc = "next"
    /\ reschedule' = (reschedule \/ txqueues[queue_id] # <<>>)
    /\ IF queue_id = QUEUE_PKT
       THEN /\ txpc' = "solve"
            /\ UNCHANGED <<queue_id, num>>
       ELSE /\ txpc' = "fetch"
            /\ queue_id' = queue_id + 1
            /\ num' = 0
    /\ UNCHANGED <<sockvars, congvars, envvars, sendvars, tx_is_running,
                   pending, txqueues, txbuffer, wakeup, writefd>>

\* All queues have been served once: congestion_solved_indication() when the
\* backlog has shrunk to the threshold; start over or leave the outer loop.
TxSolve ==
    /\ txpc = "solve"
    /\ blocked' = (blocked /\ (congested \/ pending > threshold))
    /\ IF reschedule
       THEN /\ txpc' = "fetch"
            /\ queue_id' = QUEUE_OAM
            /\ num' = 0
            /\ reschedule' = FALSE
       ELSE /\ txpc' = "exit"
            /\ UNCHANGED <<queue_id, num, reschedule>>
    /\ UNCHANGED <<sockvars, congested, threshold, envvars, sendvars,
                   tx_is_running, pending, txqueues, txbuffer, wakeup, writefd>>

TxExit ==
    /\ txpc = "exit"
    /\ tx_is_running' = FALSE
    /\ Return("recheck")
    /\ UNCHANGED <<sockvars, congvars, envvars, sendvars, pending, txqueues,
                   txbuffer, wakeup, writefd>>

\* Variant of TxRecheck that returns without looking at the counter again.
TxRecheckOmitted ==
    /\ txpc = "recheck"
    /\ txpc' = "epoll"
    /\ UNCHANGED <<sockvars, congvars, envvars, sendvars, tx_is_running,
                   pending, txqueues, txbuffer, wakeup, writefd, queue_id, num,
                   reschedule>>

\* Messages stored while tx_is_running was set did not wake anybody.
TxRecheck ==
    /\ txpc = "recheck"
    /\ wakeup' = (wakeup \/ (pending > 0 /\ ~blocked))
    /\ txpc' = "epoll"
    /\ UNCHANGED <<sockvars, congvars, envvars, sendvars, tx_is_running,
                   pending, txqueues, txbuffer, writefd, queue_id, num,
                   reschedule>>

Tx == \/ TxWakeup \/ TxWriteEvent \/ TxEnter \/ TxStop \/ TxRetrieve
      \/ TxQueueEmpty \/ TxResume \/ TxSend \/ TxCongestion \/ TxError
      \/ TxWantRead \/ TxUnable \/ TxNext \/ TxSolve \/ TxExit \/ TxRecheck

-----------------------------------------------------------------------------
(* close(), tcp_connect() and tcp_accept() *)

CloseBegin ==
    /\ state = "ESTABLISHED"
    /\ ~closing
    /\ closing' = TRUE
    /\ closepc' = "disable"
    /\ UNCHANGED <<state, session, tx_disabled, tx_is_running, congvars,
                   pending, txqueues, txbuffer, wakeup, writefd, envvars,
                   sendvars, txvars>>

CloseDisable ==
    /\ closepc = "disable"
    /\ tx_disabled' = TRUE
    /\ closepc' = "down"
    /\ UNCHANGED <<state, session, closing, tx_is_running, congvars, pending,
                   txqueues, txbuffer, wakeup, writefd, envvars, sendvars,
                   txvars>>

\* The descriptor leaves both threads and is closed; state = STATE_IDLE.
CloseDown ==
    /\ closepc = "down"
    /\ writefd' = FALSE
    /\ state' = "IDLE"
    /\ closepc' = "reset"
    /\ UNCHANGED <<session, closing, tx_disabled, tx_is_running, congvars,
                   pending, txqueues, txbuffer, wakeup, envvars, sendvars,
                   txvars>>

\* "reset internal variables for next round"
CloseReset ==
    /\ closepc = "reset"
    /\ tx_disabled' = FALSE
    /\ closing' = FALSE
    /\ closepc' = "none"
    /\ UNCHANGED <<state, session, tx_is_running, congvars, pending, txqueues,
                   txbuffer, wakeup, writefd, envvars, sendvars, txvars>>

\* "for (auto queue : txqueues) queue.clear();" clears a copy of each queue:
\* the message objects are deleted, the queues keep the pointers to them.
ClearedCopies ==
    [q \in QueueIds |-> [i \in DOMAIN txqueues[q] |->
                           [txqueues[q][i] EXCEPT !.live = FALSE]]]

\* tcp_connect(), tcp_accept(), up to STATE_TCP_CONNECTING/ACCEPTING.
Connect ==
    /\ state = "IDLE"
    /\ closepc = "none"
    /\ session < MaxSessions
    /\ txqueues' = ClearedCopies
    /\ state' = "CONNECTING"
    /\ UNCHANGED <<session, closing, closepc, tx_disabled, tx_is_running,
                   congvars, pending, txbuffer, wakeup, writefd, envvars,
                   sendvars, txvars>>

\* STATE_TCP_ESTABLISHED or STATE_TLS_ESTABLISHED, on a new descriptor.
Established ==
    /\ state = "CONNECTING"
    /\ state' = "ESTABLISHED"
    /\ session' = session + 1
    /\ writable' = TRUE
    /\ broken' = FALSE
    /\ UNCHANGED <<closing, closepc, tx_disabled, tx_is_running, congvars,
                   pending, txqueues, txbuffer, wakeup, writefd, sendvars,
                   txvars>>

Close == CloseBegin \/ CloseDisable \/ CloseDown \/ CloseReset

-----------------------------------------------------------------------------
(* The kernel and the peer *)

PeerReads ==
    /\ ~writable
    /\ writable' = TRUE
    /\ UNCHANGED <<sockvars, tx_is_running, congvars, pending, txqueues,
                   txbuffer, wakeup, writefd, broken, sendvars, txvars>>

ConnectionBreaks ==
    /\ state = "ESTABLISHED"
    /\ ~broken
    /\ broken' = TRUE
    /\ UNCHANGED <<sockvars, tx_is_running, congvars, pending, txqueues,
                   txbuffer, wakeup, writefd, writable, sendvars, txvars>>

-----------------------------------------------------------------------------

SendSteps(s) == SendStore(s) \/ SendQueueFull(s) \/ SendCount(s) \/ SendWake(s)

Send(s) ==
    \/ \E q \in Classes, m \in Msgs, e \in BOOLEAN :
          SendMessage(s, [class |-> q, msg |-> m, enforce |-> e])
    \/ SendSteps(s)

Next ==
    \/ \E s \in Senders : Send(s)
    \/ Tx
    \/ Close \/ Connect \/ Established
    \/ PeerReads \/ ConnectionBreaks

Spec == Init /\ [][Next]_vars

-----------------------------------------------------------------------------
(* Properties *)

TxPcs == {"epoll", "enter", "fetch", "send", "next", "solve", "exit", "recheck"}

SockType ==
    /\ state \in {"IDLE", "CONNECTING", "ESTABLISHED"}
    /\ session \in Nat
    /\ closepc \in {"none", "disable", "down", "reset"}
    /\ closing \in BOOLEAN
    /\ tx_disabled \in BOOLEAN
FlagType ==
    /\ tx_is_running \in BOOLEAN
    /\ congested \in BOOLEAN
    /\ blocked \in BOOLEAN
    /\ wakeup \in BOOLEAN
    /\ writefd \in BOOLEAN
    /\ writable \in BOOLEAN
    /\ broken \in BOOLEAN
CountType ==
    /\ pending \in 0..(WordSize - 1)
    /\ threshold \in 0..(WordSize - 1)
QueueType ==
    /\ txqueues \in [QueueIds -> Seq(Entry)]
    /\ txbuffer \in Buffer
    /\ txpc = "send" => txbuffer # Empty
SendType ==
    /\ sendpc \in [Senders -> {"idle", "store", "count", "wake"}]
    /\ sendreq \in [Senders -> Request \union {NoRequest}]
    /\ \A s \in Senders : sendpc[s] = "store" => sendreq[s] \in Request
LoopType ==
    /\ txpc \in TxPcs
    /\ queue_id \in QueueIds
    /\ num \in Nat
    /\ reschedule \in BOOLEAN

\* Type invariant of the transmit path; the tx thread has a fragment in hand
\* whenever it is about to call ::send().
TypeOK == /\ SockType /\ FlagType /\ CountType
          /\ QueueType /\ SendType /\ LoopType

\* Messages in the tx queues and in txbuffer.
Backlog ==
    Len(txqueues[QUEUE_OAM]) + Len(txqueues[QUEUE_MGMT]) +
    Len(txqueues[QUEUE_FLOW]) + Len(txqueues[QUEUE_PKT]) +
    (IF txbuffer = Empty THEN 0 ELSE 1)

\* Senders between store() and txqueue_pending_pkts++.
Uncounted == {s \in Senders : sendpc[s] = "count"}

\* txqueue_pending_pkts counts the messages of the queues and the txbuffer, up
\* to the messages whose sender has stored them and has not counted them yet:
\* with these the counter runs behind, and below zero it wraps around.  The
\* schedule of send_from_queue() and the congestion threshold rest on it.
PendingCount == pending = Word(Backlog - Cardinality(Uncounted))

\* Somebody is going to make the tx thread run send_from_queue() again.
TxDue ==
    \/ wakeup
    \/ writefd
    \/ \E s \in Senders : sendpc[s] \in {"count", "wake"}

\* An idle tx thread of an open connection that has something to send.
TxAsleep ==
    /\ state = "ESTABLISHED"
    /\ ~closing /\ ~broken
    /\ txpc = "epoll"
    /\ Backlog > 0

\* No lost wakeup: whatever the interleaving of send_message() with the end of
\* send_from_queue(), a message is never left in a queue with the tx thread
\* asleep and nobody to wake it, unless queueing is blocked.
NoLostWakeup ==
    session = 1 /\ TxAsleep /\ ~blocked => TxDue
(* The invariant that carries the proofs of PendingCount and NoLostWakeup. *)

\* No store makes a queue longer than the larger of the two limits.
QueuesBounded == \A q \in QueueIds : Len(txqueues[q]) <= QueueBound

\* close() owns FLAG_CLOSING and tx_disabled, and keeps the state in step.
CloseProtocol ==
    /\ closing <=> closepc # "none"
    /\ tx_disabled => closing
    /\ closepc \in {"disable", "down"} => state = "ESTABLISHED"
    /\ closepc = "reset" => state = "IDLE"

\* tx_is_running says where the tx thread is.
RunningFlag ==
    tx_is_running <=> txpc \in {"fetch", "send", "next", "solve", "exit"}

\* Nothing has been sent before the first session.
NothingBeforeSession ==
    session = 0 =>
        /\ state # "ESTABLISHED"
        /\ \A q \in QueueIds : Len(txqueues[q]) = 0
        /\ txbuffer = Empty
        /\ \A s \in Senders : sendpc[s] = "idle"

TxInv ==
    /\ TypeOK
    /\ QueuesBounded
    /\ PendingCount

WakeupInv ==
    /\ CloseProtocol
    /\ RunningFlag
    /\ NothingBeforeSession
    /\ NoLostWakeup

\* The tx thread of a connection whose queueing is blocked still gets woken:
\* "called when a congestion situation on the control connection has been
\* solved" needs a tx thread that finds out.
CongestionEnds == session = 1 /\ TxAsleep /\ blocked => TxDue

\* The threshold for unblocking is taken from the size of the tx queues when
\* the congestion occurred, so it never exceeds what the queues can hold.
ThresholdWithinQueues == blocked => 2 * threshold <= 4 * QueueBound + 1

\* tcp_connect() and tcp_accept() remove the messages of the previous session:
\* the tx thread never packs a message object that has been deleted.
OnlyLiveMessages == txbuffer # Empty => txbuffer.live

\* The messages of class q that the network has not got completely.
Unsent(q) ==
    LET msgs == [i \in DOMAIN txqueues[q] |-> txqueues[q][i].msg]
    IN  IF txbuffer # Empty /\ txbuffer.from = q
        THEN <<txbuffer.msg>> \o msgs ELSE msgs

Channel == INSTANCE MsgChannel WITH Channels <- QueueIds,
                                    chan <- [q \in QueueIds |-> Unsent(q)]

\* Refinement: with senders, weighted queues and messages sent in fragments each
\* class still is a FIFO channel: send_message() adds at the end, and
\* send_from_queue() takes from the front, once, also when it is interrupted by
\* congestion or close().  (That what leaves the front has been sent, and not
\* been overwritten, is a matter of PendingCount: only a sent message is
\* subtracted from the counter.)
FifoPerClass == Channel!Spec

-----------------------------------------------------------------------------
(* Fairness: the tx thread and a thread inside send_message() or close()    *)
(* keep running, and the peer keeps reading.  Nobody has to call            *)
(* send_message() or close().                                               *)
Fairness ==
    /\ WF_vars(Tx)
    /\ \A s \in Senders : WF_vars(SendSteps(s))
    /\ WF_vars(CloseDisable \/ CloseDown \/ CloseReset)
    /\ WF_vars(PeerReads)

FairSpec == Spec /\ Fairness

Down == state # "ESTABLISHED" \/ broken

\* No class is starved: unless queueing stays blocked for ever, a queue that
\* holds a message is served, even if the senders keep all queues busy.
EventuallyServed ==
    []<>(~blocked) =>
        \A q \in Classes :
            txqueues[q] # <<>> ~> Down \/ (txbuffer # Empty /\ txbuffer.from = q)

=============================================================================
