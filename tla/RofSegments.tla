----------------------------- MODULE RofSegments -----------------------------
(***************************************************************************)
(* Transactions and multipart messages of crofconn: pending requests with  *)
(* their timeouts, the segmentation of long replies by the sender and      *)
(* their reassembly by the receiver, with the timers and limits of both    *)
(* tables.                                                                 *)
(*                                                                         *)
(* The application sends requests in its own thread; the rx thread takes   *)
(* messages from the wire and ends the transaction they belong to; the     *)
(* connection's thread reassembles them and runs the timers.  A reply is   *)
(* the set of its array elements, all of one size.                         *)
(***************************************************************************)
EXTENDS Naturals, FiniteSets, Sequences

CONSTANTS
    Xids,              \* transaction ids, each used once
    Version,           \* negotiated OpenFlow version: 10, 12, 13 or 14
    Kinds,             \* multipart types in use
    MaxItems,          \* BOUND: elements of a reply
    ItemLength,        \* length of an element
    Threshold,         \* segmentation_threshold, 65535 by default
    MaxLength,         \* MAX_LENGTH of a segment's array, 64000
    SegmentsMax,       \* pending_segments_max, 256 by default
    SegmentsTimeout,   \* timeout_segments
    Timeouts,          \* timeouts the application chooses
    MaxTime,           \* BOUND: the clock stops here
    Slow,              \* TRUE: time may pass while a reply is in transit
    SameExpiry         \* TRUE: two requests may expire at the very same time

ASSUME XidsAssumption == IsFiniteSet(Xids)
ASSUME VersionAssumption == Version \in {10, 12, 13, 14}
ASSUME KindsAssumption == {"none", "cut"} \cap Kinds = {}
ASSUME LengthsAssumption ==
    /\ ItemLength \in Nat \ {0} /\ Threshold \in Nat /\ MaxLength \in Nat \ {0}
    /\ MaxItems \in Nat /\ SegmentsMax \in Nat
ASSUME TimesAssumption ==
    SegmentsTimeout \in Nat \ {0} /\ Timeouts \subseteq Nat \ {0} /\ MaxTime \in Nat
ASSUME FlagsAssumption == Slow \in BOOLEAN /\ SameExpiry \in BOOLEAN

VARIABLES
    now,
    pending,   \* pending_requests: a set ordered, and compared, by expiry only
    ptimer,    \* expiry of TIMER_ID_PENDING_REQUESTS, or Never
    popped,    \* transactions check_pending_requests() has taken, not yet reported
    segs,      \* pending_segments
    stimer,    \* expiry of TIMER_ID_PENDING_SEGMENTS, or Never
    out,       \* the peer's messages not yet in its transmit queue
    wire,      \* messages on their way
    rxq,       \* messages received and not handled yet
    fate,      \* what became of a transaction (history)
    reply,     \* the reply the peer has given (history)
    got        \* what the application has received for it (history)

requests == <<pending, ptimer, popped>>
segments == <<segs, stimer>>
history == <<fate, reply, got>>
vars == <<now, requests, segments, out, wire, rxq, history>>

Never == MaxTime + 1
Later(t) == IF now + t > MaxTime THEN Never ELSE now + t
Items == SUBSET (1..MaxItems)
NoReply == [kind |-> "none", items |-> {}]

Init ==
    /\ now = 0
    /\ pending = {} /\ ptimer = Never /\ popped = {}
    /\ segs = <<>> /\ stimer = Never
    /\ out = [x \in Xids |-> <<>>] /\ wire = <<>> /\ rxq = <<>>
    /\ fate = [x \in Xids |-> "none"]
    /\ reply = [x \in Xids |-> NoReply]
    /\ got = [x \in Xids |-> <<>>]

-----------------------------------------------------------------------------
(* Pending requests *)

FirstPending(p) == CHOOSE t \in p : \A u \in p : t.at <= u.at

\* add_pending_request(): std::set::insert() ignores a request that expires at
\* the same time as another one.
AddPending(x, at) ==
    LET p == IF \E t \in pending : t.at = at THEN pending
             ELSE pending \union {[xid |-> x, at |-> at]} IN
    /\ pending' = p
    /\ ptimer' = IF pending = {} \/ FirstPending(pending).xid # FirstPending(p).xid
                 THEN FirstPending(p).at ELSE ptimer

\* send_message(): the request is pending before it is on its way.
Request(x, t) ==
    /\ fate[x] = "none" /\ now + t <= MaxTime
    /\ SameExpiry \/ \A u \in pending : u.at # now + t
    /\ AddPending(x, now + t)
    /\ fate' = [fate EXCEPT ![x] = "waiting"]
    /\ UNCHANGED <<now, popped, segments, out, wire, rxq, reply, got>>

\* check_pending_requests(), begun by its timer: one expired transaction is
\* taken under the lock and reported without it, until none has expired.
CheckBegins ==
    /\ ptimer <= now /\ popped = {}
    /\ IF pending = {} THEN ptimer' = Never /\ UNCHANGED <<pending, popped>>
       ELSE IF FirstPending(pending).at > now
       THEN ptimer' = FirstPending(pending).at /\ UNCHANGED <<pending, popped>>
       ELSE /\ popped' = {FirstPending(pending)}
            /\ pending' = pending \ popped' /\ UNCHANGED ptimer
    /\ UNCHANGED <<now, segments, out, wire, rxq, history>>

\* handle_transaction_timeout(); the loop goes round again.
CheckReports ==
    /\ popped # {}
    /\ LET x == (CHOOSE t \in popped : TRUE).xid IN
       fate' = [fate EXCEPT ![x] = IF @ = "waiting" THEN "timeout" ELSE @]
    /\ popped' = {}
    /\ UNCHANGED <<now, pending, ptimer, segments, out, wire, rxq, reply, got>>

-----------------------------------------------------------------------------
(* The sender: segment_and_send_message() *)

\* Multipart types that are split, per version.
Splits(v) ==
    CASE v = 12 -> {"FLOW", "TABLE", "QUEUE", "GROUP", "GROUP_DESC"}
      [] v = 13 -> {"FLOW", "TABLE", "PORT_STATS", "QUEUE", "GROUP", "GROUP_DESC",
                    "TABLE_FEATURES", "PORT_DESC", "METER", "METER_CONFIG"}
      [] OTHER -> {}

\* The number of elements of a segment: one more is added while the array is
\* shorter than MAX_LENGTH.
SegmentItems == (MaxLength + ItemLength - 1) \div ItemLength

\* The elements of the i-th segment, in the order of the array.
Place(items, e) == Cardinality({d \in items : d <= e})
Slice(items, i) ==
    {e \in items : Place(items, e) \in ((i - 1) * SegmentItems + 1)..(i * SegmentItems)}
Sliced(x, kind, items, n) ==
    [i \in 1..n |-> [xid |-> x, kind |-> kind, more |-> i # n, items |-> Slice(items, i)]]

\* Arrays cut in whole segments only: what does not fill one is left out.
CutWhole(x, kind, items) ==
    Sliced(x, kind, items, Cardinality(items) \div SegmentItems)

\* segment_flow_stats_reply() and its relatives: OFPMPF_REPLY_MORE on every
\* segment but the last one.
Cut(x, kind, items) ==
    Sliced(x, kind, items, (Cardinality(items) + SegmentItems - 1) \div SegmentItems)

\* A long message of a kind that is not split is ignored.
Transmitted(x, kind, items) ==
    IF Cardinality(items) * ItemLength <= Threshold \/ kind = "METER_FEATURES"
    THEN <<[xid |-> x, kind |-> kind, more |-> FALSE, items |-> items]>>
    ELSE IF kind \in Splits(Version) THEN Cut(x, kind, items) ELSE <<>>

\* The peer answers a request.
Reply(x, kind, items) ==
    /\ fate[x] # "none" /\ reply[x] = NoReply
    /\ reply' = [reply EXCEPT ![x] = [kind |-> kind, items |-> items]]
    /\ out' = [out EXCEPT ![x] = Transmitted(x, kind, items)]
    /\ UNCHANGED <<now, requests, segments, wire, rxq, fate, got>>

\* rofsock.send_message(): segment by segment, as other threads send theirs.
Send(x) ==
    /\ out[x] # <<>>
    /\ out' = [out EXCEPT ![x] = Tail(@)]
    /\ wire' = Append(wire, Head(out[x]))
    /\ UNCHANGED <<now, requests, segments, rxq, history>>

-----------------------------------------------------------------------------
(* The receiver *)

\* Any message ends all transactions.
ReceiveAny ==
    /\ wire # <<>>
    /\ wire' = Tail(wire) /\ rxq' = Append(rxq, Head(wire))
    /\ pending' = {}
    /\ UNCHANGED <<now, ptimer, popped, segments, out, history>>

\* crofconn::handle_recv(): the first message with its xid ends a transaction.
Receive ==
    /\ wire # <<>>
    /\ wire' = Tail(wire) /\ rxq' = Append(rxq, Head(wire))
    /\ pending' = {t \in pending : t.xid # Head(wire).xid}
    /\ UNCHANGED <<now, ptimer, popped, segments, out, history>>

\* clone() and store_and_merge_msg(): types whose arrays are merged.
Merges == {"FLOW", "TABLE", "PORT_STATS", "QUEUE", "GROUP", "GROUP_DESC", "METER",
           "METER_CONFIG", "TABLE_FEATURES", "PORT_DESC"}
Merge(s, m) == IF m.kind \in Merges THEN s.items \union m.items ELSE s.items

Deliver(m) ==
    /\ got' = [got EXCEPT ![m.xid] = Append(@, m.items)]
    /\ fate' = [fate EXCEPT ![m.xid] = IF @ = "waiting" THEN "answered" ELSE @]
    /\ UNCHANGED reply

\* set_pending_segment() tests the limit for a known xid, too.
Full == Cardinality(DOMAIN segs) >= SegmentsMax

Fresh(m) == [kind |-> m.kind, items |-> m.items, at |-> Later(SegmentsTimeout)]
StartSegmentTimer == stimer' = IF stimer = Never THEN Later(SegmentsTimeout) ELSE stimer
Known(m) == m.xid \in DOMAIN segs

\* A segment with more to follow.  At the limit, and for a message of another
\* type, an exception drops it.
HandleMore(m) ==
    /\ m.more
    /\ IF Full \/ (Known(m) /\ segs[m.xid].kind # m.kind)
       THEN UNCHANGED segments
       ELSE /\ segs' = IF Known(m)
                       THEN [segs EXCEPT ![m.xid].items = Merge(segs[m.xid], m)]
                       ELSE [x \in DOMAIN segs \union {m.xid} |->
                                IF x = m.xid THEN Fresh(m) ELSE segs[x]]
            /\ StartSegmentTimer
    /\ UNCHANGED history

\* The last segment of a message.
HandleLast(m) ==
    /\ ~m.more /\ Known(m)
    /\ IF Full \/ segs[m.xid].kind # m.kind
       THEN UNCHANGED <<segments, history>>
       ELSE /\ Deliver([m EXCEPT !.items = Merge(segs[m.xid], m)])
            /\ segs' = [x \in DOMAIN segs \ {m.xid} |-> segs[x]]
            /\ StartSegmentTimer

\* A message that is complete, or that nothing is known of.
HandleWhole(m) ==
    /\ ~m.more /\ ~Known(m)
    /\ Deliver(m)
    /\ UNCHANGED segments

\* Below OpenFlow 1.3 every message is handed over as it is.
HandlePlain(m) ==
    /\ Deliver(m)
    /\ UNCHANGED segments

Handle ==
    /\ rxq # <<>> /\ popped = {}
    /\ rxq' = Tail(rxq)
    /\ IF Version \in {10, 12} THEN HandlePlain(Head(rxq))
       ELSE HandleMore(Head(rxq)) \/ HandleLast(Head(rxq)) \/ HandleWhole(Head(rxq))
    /\ UNCHANGED <<now, requests, out, wire>>

\* check_pending_segments() that does not set its timer again.
CheckSegmentsOnce ==
    /\ stimer <= now /\ popped = {}
    /\ segs' = [x \in {y \in DOMAIN segs : segs[y].at > now} |-> segs[x]]
    /\ stimer' = Never
    /\ fate' = [x \in Xids |-> IF x \in DOMAIN segs \ DOMAIN segs' /\ fate[x] = "waiting"
                                THEN "lost" ELSE fate[x]]
    /\ UNCHANGED <<now, requests, out, wire, rxq, reply, got>>

\* check_pending_segments()
CheckSegments ==
    /\ stimer <= now /\ popped = {}
    /\ segs' = [x \in {y \in DOMAIN segs : segs[y].at > now} |-> segs[x]]
    /\ stimer' = IF segs' = <<>> THEN Never ELSE Later(SegmentsTimeout)
    /\ fate' = [x \in Xids |-> IF x \in DOMAIN segs \ DOMAIN segs' /\ fate[x] = "waiting"
                                THEN "lost" ELSE fate[x]]
    /\ UNCHANGED <<now, requests, out, wire, rxq, reply, got>>

\* The connection is lost: clear_pending_requests(), clear_pending_segments().
Disconnect ==
    /\ popped = {}
    /\ pending' = {} /\ ptimer' = Never /\ segs' = <<>> /\ stimer' = Never
    /\ out' = [x \in Xids |-> <<>>] /\ wire' = <<>> /\ rxq' = <<>>
    /\ fate' = [x \in Xids |-> IF fate[x] = "waiting" THEN "cut" ELSE fate[x]]
    /\ reply' = [x \in Xids |-> IF fate[x] = "none" THEN reply[x] ELSE [NoReply EXCEPT !.kind = "cut"]]
    /\ UNCHANGED <<now, popped, got>>

\* Time passes; a timer that is due is served first.
Tick ==
    /\ now < MaxTime /\ ptimer > now /\ stimer > now /\ popped = {}
    /\ Slow \/ (wire = <<>> /\ rxq = <<>> /\ \A x \in Xids : out[x] = <<>>)
    /\ now' = now + 1
    /\ UNCHANGED <<requests, segments, out, wire, rxq, history>>

Next ==
    \/ \E x \in Xids : \/ \E t \in Timeouts : Request(x, t)
                       \/ \E k \in Kinds, i \in Items : Reply(x, k, i)
                       \/ Send(x)
    \/ CheckBegins \/ CheckReports \/ Receive \/ Handle \/ CheckSegments
    \/ Disconnect \/ Tick

Spec == Init /\ [][Next]_vars

-----------------------------------------------------------------------------
(* Properties *)

Message == [xid : Xids, kind : Kinds, more : BOOLEAN, items : Items]

TypeOK ==
    /\ now \in 0..MaxTime /\ ptimer \in 0..Never /\ stimer \in 0..Never
    /\ pending \subseteq [xid : Xids, at : 0..MaxTime]
    /\ popped \subseteq [xid : Xids, at : 0..MaxTime]
    /\ DOMAIN segs \subseteq Xids
    /\ \A x \in DOMAIN segs : segs[x] \in [kind : Kinds, items : Items, at : 0..Never]
    /\ out \in [Xids -> Seq(Message)] /\ wire \in Seq(Message) /\ rxq \in Seq(Message)
    /\ fate \in [Xids -> {"none", "waiting", "answered", "timeout", "cut", "lost"}]
    /\ reply \in [Xids -> [kind : Kinds \union {"none", "cut"}, items : Items]]

\* No request is forgotten by the clock: as long as one is pending, a timer
\* runs that is not later than the earliest of them, or its handler is at work.
RequestsTimed == pending # {} => ptimer <= FirstPending(pending).at \/ popped # {}

\* A message that is never completed does not stay for ever: the timer runs
\* and removes it within twice timeout_segments of its first segment.
SegmentsTimed ==
    segs # <<>> => /\ stimer # Never \/ now + SegmentsTimeout > MaxTime
                   /\ \A x \in DOMAIN segs : now < segs[x].at + SegmentsTimeout

\* What is handed to the application as the answer to a request is the peer's
\* reply, whole and once, however it was cut and interleaved with others.
Reassembled ==
    \A x \in Xids : fate[x] = "answered" /\ reply[x].kind # "cut" => got[x] = <<reply[x].items>>

\* The same of whatever is handed over, after an expiry, too.
NeverTruncated ==
    \A x \in Xids : got[x] # <<>> /\ reply[x].kind # "cut" => got[x] = <<reply[x].items>>

\* The length of what is sent fits the 16 bit of the header's field.
SegmentFits ==
    \A i \in DOMAIN wire : Cardinality(wire[i].items) * ItemLength <= Threshold

\* Both tables of crofconn are watched by their timers in every order of
\* add_pending_request(), drop, expiry, reassembly and disconnect.
TablesTimed == TypeOK /\ RequestsTimed /\ SegmentsTimed

\* segment_and_send_message() and handle_rx_multipart_message() are inverse to
\* one another: the pieces fit, and together they are the reply.
RepliesWhole == SegmentFits /\ Reassembled

-----------------------------------------------------------------------------
(* Fairness: the threads serve their queues and timers, and time passes.     *)
Fairness == /\ \A x \in Xids : WF_vars(Send(x))
            /\ WF_vars(Receive) /\ WF_vars(Handle) /\ WF_vars(CheckBegins)
            /\ WF_vars(CheckReports) /\ WF_vars(CheckSegments) /\ WF_vars(Tick)
FairSpec == Spec /\ Fairness

\* Every request ends: with an answer, a timeout, the end of the connection, or
\* with an answer whose segments did not arrive in time.
RequestsEnd == \A x \in Xids : fate[x] = "waiting" ~> fate[x] # "waiting"

\* The application learns of the end of every request.
RequestsReported ==
    \A x \in Xids : fate[x] = "waiting" ~> fate[x] \in {"answered", "timeout", "cut"}
=============================================================================
