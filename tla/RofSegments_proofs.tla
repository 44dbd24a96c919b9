------------------------ MODULE RofSegments_proofs ------------------------
(***************************************************************************)
(* Proofs about pending requests, segmentation and reassembly, for any     *)
(* number of transactions, any sizes, limits and timeouts.                 *)
(***************************************************************************)
EXTENDS RofSegments, FiniteSetTheorems, WellFoundedInduction, TLAPS

(***************************************************************************)
(* A set of natural numbers that is not empty has a smallest element.      *)
(***************************************************************************)
LEMMA NatMin ==
    ASSUME NEW S \in SUBSET Nat, S # {}
    PROVE  \E m \in S : \A n \in S : m <= n
<1> DEFINE R == {ss \in Nat \X Nat : ss[1] < ss[2]}
<1>1. IsWellFoundedOn(R, Nat)
  BY NatLessThanWellFounded, Zenon DEF OpToRel
<1>2. \E m \in S : \A n \in S : ~(<<n, m>> \in R)
  <2> HIDE DEF R
  <2> QED
    BY <1>1, WFMin
<1>3. \A a, b \in Nat : a < b => <<a, b>> \in R
  OBVIOUS
<1> HIDE DEF R
<1>4. PICK m \in S : \A n \in S : ~(<<n, m>> \in R)
  BY <1>2
<1>5. ASSUME NEW n \in S PROVE m <= n
  <2>1. m \in Nat /\ n \in Nat
    OBVIOUS
  <2>2. ~(n < m)
    BY <1>3, <1>4, <2>1
  <2>3. QED
    BY <2>1, <2>2
<1>6. QED
  BY <1>5

(***************************************************************************)
(* FirstPending() returns a pending request that none expires before.      *)
(***************************************************************************)
Requests == [xid : Xids, at : 0..MaxTime]

LEMMA FirstIsEarliest ==
    ASSUME NEW p \in SUBSET Requests, p # {}
    PROVE  FirstPending(p) \in p /\ \A t \in p : FirstPending(p).at <= t.at
<1> DEFINE S == {t.at : t \in p}
<1>1. S \in SUBSET Nat /\ S # {}
  BY TimesAssumption DEF Requests
<1>2. PICK m \in S : \A n \in S : m <= n
  BY <1>1, NatMin
<1>3. \E t \in p : \A u \in p : t.at <= u.at
  BY <1>2
<1>4. QED
  BY <1>3 DEF FirstPending

(***************************************************************************)
(* A segment holds one element at least.                                   *)
(***************************************************************************)
LEMMA DivBounds ==
    ASSUME NEW a \in Nat, NEW b \in Nat \ {0}
    PROVE  /\ (a + b - 1) \div b \in Nat
           /\ ((a + b - 1) \div b) * b <= a + b - 1
           /\ a <= ((a + b - 1) \div b) * b
<1> DEFINE q == (a + b - 1) \div b
<1>1. a + b - 1 \in Nat
  OBVIOUS
<1>2. q \in Int /\ q * b <= a + b - 1 /\ a + b - 1 < (q + 1) * b
  BY <1>1
<1>3. QED
  BY <1>2

-----------------------------------------------------------------------------
(***************************************************************************)
(* The inductive invariant of the two timers.  The request timer is never  *)
(* later than a pending request, although it is only set again when the    *)
(* first request changes, which add_pending_request() finds by comparing   *)
(* transaction ids: an id is never pending before it is used.  The segment *)
(* timer is never later than timeout_segments after a segment's expiry.    *)
(***************************************************************************)
Segment == [kind : Kinds, items : Items, at : 0..Never]

SegmentTimer ==
    /\ now <= stimer
    /\ stimer # Never => stimer <= now + SegmentsTimeout
    /\ \A x \in DOMAIN segs :
          IF stimer = Never THEN MaxTime < segs[x].at + SegmentsTimeout
                            ELSE stimer < segs[x].at + SegmentsTimeout
    /\ DOMAIN segs # {} /\ stimer = Never => now + SegmentsTimeout > MaxTime

TimersInv ==
    /\ TypeOK
    /\ segs \in [DOMAIN segs -> Segment]
    /\ \A t \in pending : fate[t.xid] # "none"
    /\ \A t \in pending : ptimer <= t.at
    /\ SegmentTimer

(***************************************************************************)
(* The array of a reply is finite, and a segment holds one element at      *)
(* least, so that a reply is cut into a number of segments.                *)
(***************************************************************************)
LEMMA SegmentCount ==
    ASSUME NEW items \in Items
    PROVE  /\ SegmentItems \in Nat \ {0}
           /\ IsFiniteSet(items) /\ Cardinality(items) \in Nat
           /\ (Cardinality(items) + SegmentItems - 1) \div SegmentItems \in Nat
<1>1. SegmentItems \in Nat /\ MaxLength <= SegmentItems * ItemLength
  BY DivBounds, LengthsAssumption DEF SegmentItems
<1>2. SegmentItems # 0
  BY <1>1, LengthsAssumption
<1>3. IsFiniteSet(items) /\ Cardinality(items) \in Nat
  <2>1. IsFiniteSet(1..MaxItems) /\ items \subseteq 1..MaxItems
    BY FS_Interval, LengthsAssumption DEF Items
  <2>2. IsFiniteSet(items)
    BY <2>1, FS_Subset
  <2>3. QED
    BY <2>2, FS_CardinalityType
<1>4. QED
  BY <1>1, <1>2, <1>3, DivBounds

(***************************************************************************)
(* What segment_and_send_message() sends are messages of the transaction.  *)
(***************************************************************************)
LEMMA TransmittedType ==
    ASSUME NEW x \in Xids, NEW k \in Kinds, NEW items \in Items
    PROVE  /\ Transmitted(x, k, items) \in Seq(Message)
           /\ \A i \in DOMAIN Transmitted(x, k, items) :
                 /\ Transmitted(x, k, items)[i].xid = x
                 /\ Transmitted(x, k, items)[i].kind = k
                 /\ Transmitted(x, k, items)[i].items \subseteq items
<1> DEFINE n == (Cardinality(items) + SegmentItems - 1) \div SegmentItems
           M(i) == [xid |-> x, kind |-> k, more |-> i # n, items |-> Slice(items, i)]
<1>1. n \in Nat
  BY SegmentCount
<1>2. \A i \in 1..n : M(i) \in Message /\ Slice(items, i) \subseteq items
  BY DEF Message, Items, Slice
<1> HIDE DEF n
<1>3. Cut(x, k, items) = [i \in 1..n |-> M(i)]
  BY DEF Cut, Sliced, n
<1>4. /\ Cut(x, k, items) \in Seq(Message)
      /\ \A i \in DOMAIN Cut(x, k, items) :
            /\ Cut(x, k, items)[i].xid = x
            /\ Cut(x, k, items)[i].kind = k
            /\ Cut(x, k, items)[i].items \subseteq items
  BY <1>1, <1>2, <1>3
<1>5. <<[xid |-> x, kind |-> k, more |-> FALSE, items |-> items]>> \in Seq(Message)
  BY DEF Message
<1>6. QED
  BY <1>4, <1>5 DEF Transmitted

(***************************************************************************)
(* No step lets a timer lapse.                                             *)
(***************************************************************************)
LEMMA TimersStep == TimersInv /\ [Next]_vars => TimersInv'
<1> SUFFICES ASSUME TimersInv, [Next]_vars PROVE TimersInv'
  OBVIOUS
<1> USE TimesAssumption DEF TimersInv
<1>0. /\ now \in Nat /\ now <= MaxTime /\ Never = MaxTime + 1 /\ MaxTime \in Nat
      /\ pending \in SUBSET Requests /\ SegmentsTimeout \in Nat \ {0}
  BY DEF TypeOK, Never, Requests
<1>1. ASSUME NEW x \in Xids, NEW t \in Timeouts, Request(x, t) PROVE TimersInv'
  <2> DEFINE new == [xid |-> x, at |-> now + t]
             p == IF \E u \in pending : u.at = now + t THEN pending
                  ELSE pending \union {new}
  <2>1. new \in Requests /\ now + t \in 0..MaxTime
    BY <1>0, <1>1 DEF Request, Requests
  <2>2. p \in SUBSET Requests /\ p # {} /\ pending \subseteq p /\ p \subseteq pending \union {new}
    BY <1>0, <2>1
  <2> HIDE DEF p
  <2>3. pending' = p /\ ptimer' = (IF pending = {} \/ FirstPending(pending).xid # FirstPending(p).xid
                                   THEN FirstPending(p).at ELSE ptimer)
    BY <1>1 DEF Request, AddPending, p
  <2>4. FirstPending(p) \in p /\ \A u \in p : FirstPending(p).at <= u.at
    BY <2>2, FirstIsEarliest
  <2>5. pending # {} => FirstPending(pending) \in pending
    BY <1>0, FirstIsEarliest
  <2>6. ptimer' \in 0..Never /\ pending' \subseteq [xid : Xids, at : 0..MaxTime]
    BY <2>2, <2>3, <2>4, <1>0 DEF TypeOK, Requests
  <2>7. \A u \in pending' : ptimer' <= u.at
    <3>1. CASE pending = {} \/ FirstPending(pending).xid # FirstPending(p).xid
      BY <3>1, <2>3, <2>4
    <3>2. CASE pending # {} /\ FirstPending(pending).xid = FirstPending(p).xid
      <4>1. FirstPending(pending).xid # x
        BY <3>2, <2>5, <1>1 DEF Request
      <4>2. FirstPending(p) \in pending
        BY <4>1, <3>2, <2>4, <2>2
      <4>3. ptimer <= FirstPending(p).at
        BY <4>2
      <4>4. FirstPending(p) \in Requests /\ ptimer \in Int
        BY <2>2, <2>4, <1>0 DEF TypeOK, Never
      <4>5. QED
        BY <4>3, <4>4, <3>2, <2>2, <2>3, <2>4, <1>0 DEF Requests
    <3>3. QED
      BY <3>1, <3>2
  <2>8. fate' \in [Xids -> {"none", "waiting", "answered", "timeout", "cut", "lost"}]
        /\ \A u \in pending' : fate'[u.xid] # "none"
    BY <1>1, <2>2, <2>3, <1>0 DEF Request, TypeOK, Requests
  <2>9. TypeOK'
    BY <1>1, <2>6, <2>8 DEF TypeOK, Request, segments, Message, Items
  <2>10. SegmentTimer'
    BY <1>1 DEF SegmentTimer, Request, segments
  <2>11. (segs \in [DOMAIN segs -> Segment])'
    BY <1>1 DEF Request, segments
  <2>12. QED
    BY <2>7, <2>8, <2>9, <2>10, <2>11
<1>2. ASSUME NEW x \in Xids, NEW k \in Kinds, NEW i \in Items, Reply(x, k, i) PROVE TimersInv'
  <2>1. out' \in [Xids -> Seq(Message)]
    BY <1>2, TransmittedType DEF Reply, TypeOK
  <2>2. reply' \in [Xids -> [kind : Kinds \union {"none", "cut"}, items : Items]]
    BY <1>2 DEF Reply, TypeOK
  <2>3. QED
    BY <1>2, <2>1, <2>2 DEF Reply, TypeOK, SegmentTimer, requests, segments
<1>3. ASSUME NEW x \in Xids, Send(x) PROVE TimersInv'
  <2>1. out[x] \in Seq(Message) /\ out[x] # <<>> /\ wire \in Seq(Message)
    BY <1>3 DEF Send, TypeOK
  <2>2. Tail(out[x]) \in Seq(Message) /\ Append(wire, Head(out[x])) \in Seq(Message)
    BY <2>1
  <2>3. out' \in [Xids -> Seq(Message)] /\ wire' \in Seq(Message)
    BY <1>3, <2>2 DEF Send, TypeOK
  <2>4. QED
    BY <1>3, <2>3 DEF Send, TypeOK, SegmentTimer, requests, segments, history
<1>4. CASE CheckBegins
  <2>1. pending # {} => FirstPending(pending) \in pending
                        /\ \A u \in pending : FirstPending(pending).at <= u.at
    BY <1>0, FirstIsEarliest
  <2>2. UNCHANGED <<now, segs, stimer, out, wire, rxq, fate, reply, got>>
    BY <1>4 DEF CheckBegins, segments, history
  <2>3. CASE pending = {}
    BY <1>4, <1>0, <2>2, <2>3 DEF CheckBegins, TypeOK, SegmentTimer
  <2>4. CASE pending # {} /\ FirstPending(pending).at > now
    <3>1. ptimer' = FirstPending(pending).at /\ UNCHANGED <<pending, popped>>
      BY <1>4, <2>4 DEF CheckBegins
    <3>2. ptimer' \in 0..Never
      BY <3>1, <2>1, <2>4, <1>0 DEF Requests
    <3>3. QED
      BY <1>0, <2>1, <2>2, <2>4, <3>1, <3>2 DEF TypeOK, SegmentTimer
  <2>5. CASE pending # {} /\ ~(FirstPending(pending).at > now)
    <3>1. popped' = {FirstPending(pending)} /\ pending' = pending \ popped' /\ ptimer' = ptimer
      BY <1>4, <2>5 DEF CheckBegins
    <3>2. popped' \subseteq [xid : Xids, at : 0..MaxTime]
      BY <3>1, <2>1, <2>5, <1>0 DEF Requests
    <3>3. QED
      BY <2>2, <3>1, <3>2 DEF TypeOK, SegmentTimer
  <2>6. QED
    BY <2>3, <2>4, <2>5
<1>5. CASE CheckReports
  <2>1. fate' \in [Xids -> {"none", "waiting", "answered", "timeout", "cut", "lost"}]
        /\ \A u \in Xids : fate[u] # "none" => fate'[u] # "none"
    BY <1>5 DEF CheckReports, TypeOK
  <2>2. QED
    BY <1>0, <1>5, <2>1 DEF CheckReports, TypeOK, SegmentTimer, segments, Requests
<1>6. CASE Receive
  <2>1. wire \in Seq(Message) /\ rxq \in Seq(Message) /\ wire # <<>>
    BY <1>6 DEF Receive, TypeOK
  <2>2. Tail(wire) \in Seq(Message) /\ Append(rxq, Head(wire)) \in Seq(Message)
    BY <2>1
  <2>3. QED
    BY <1>6, <2>2 DEF Receive, TypeOK, SegmentTimer, segments, history
<1>7. CASE Handle
  <2> DEFINE m == Head(rxq)
  <2>1. rxq \in Seq(Message) /\ rxq # <<>> /\ rxq' = Tail(rxq)
    BY <1>7 DEF Handle, TypeOK
  <2>2. m \in Message /\ rxq' \in Seq(Message)
    BY <2>1
  <2> HIDE DEF m
  <2>3. UNCHANGED <<now, pending, ptimer, popped, out, wire>>
    BY <1>7 DEF Handle, requests
  <2>4. ASSUME NEW items, Deliver([m EXCEPT !.items = items])
        PROVE  /\ fate' \in [Xids -> {"none", "waiting", "answered", "timeout", "cut", "lost"}]
               /\ \A u \in Xids : fate[u] # "none" => fate'[u] # "none"
               /\ reply' = reply
    BY <2>2, <2>4 DEF Deliver, TypeOK, Message
  <2>5. ASSUME Deliver(m)
        PROVE  /\ fate' \in [Xids -> {"none", "waiting", "answered", "timeout", "cut", "lost"}]
               /\ \A u \in Xids : fate[u] # "none" => fate'[u] # "none"
               /\ reply' = reply
    BY <2>2, <2>5 DEF Deliver, TypeOK, Message
  <2>6. ASSUME UNCHANGED segments,
               fate' \in [Xids -> {"none", "waiting", "answered", "timeout", "cut", "lost"}],
               \A u \in Xids : fate[u] # "none" => fate'[u] # "none", reply' = reply
        PROVE  TimersInv'
    BY <1>0, <2>2, <2>3, <2>6 DEF TypeOK, SegmentTimer, segments, Requests
  <2>7. Later(SegmentsTimeout) \in 0..Never
        /\ (Later(SegmentsTimeout) = Never => now + SegmentsTimeout > MaxTime)
        /\ (Later(SegmentsTimeout) # Never => Later(SegmentsTimeout) = now + SegmentsTimeout)
    BY <1>0 DEF Later, Never
  <2>8. CASE HandleMore(m)
    <3>1. UNCHANGED <<fate, reply, got>>
      BY <2>8 DEF HandleMore, history
    <3>2. CASE UNCHANGED segments
      BY <3>1, <3>2, <2>6 DEF TypeOK
    <3>3. CASE /\ segs' = IF Known(m)
                       THEN [segs EXCEPT ![m.xid].items = Merge(segs[m.xid], m)]
                       ELSE [x \in DOMAIN segs \union {m.xid} |->
                                IF x = m.xid THEN Fresh(m) ELSE segs[x]]
               /\ StartSegmentTimer
      <4>1. Fresh(m) \in Segment /\ Fresh(m).at = Later(SegmentsTimeout)
        BY <2>2, <2>7 DEF Fresh, Segment, Message
      <4>2. CASE Known(m)
        <5>1. Merge(segs[m.xid], m) \in Items
          BY <4>2, <2>2 DEF Known, Merge, Message, Segment, Items
        <5>2. /\ DOMAIN segs' = DOMAIN segs /\ segs' \in [DOMAIN segs -> Segment]
              /\ \A x \in DOMAIN segs : segs'[x].at = segs[x].at
          BY <3>3, <4>2, <5>1 DEF Known, Segment
        <5>3. DOMAIN segs # {}
          BY <4>2 DEF Known
        <5>4. stimer' \in 0..Never /\ SegmentTimer'
          <6>1. stimer = Never => Later(SegmentsTimeout) = Never
            BY <1>0, <2>7, <5>3 DEF SegmentTimer
          <6>2. stimer' = stimer
            BY <6>1, <3>3 DEF StartSegmentTimer
          <6>3. QED
            BY <2>3, <5>2, <6>2 DEF SegmentTimer, TypeOK
        <5>5. QED
          BY <1>0, <2>2, <2>3, <3>1, <5>2, <5>4 DEF TypeOK, Segment
      <4>3. CASE ~Known(m)
        <5>1. /\ DOMAIN segs' = DOMAIN segs \union {m.xid}
              /\ segs' = [x \in DOMAIN segs \union {m.xid} |->
                                IF x = m.xid THEN Fresh(m) ELSE segs[x]]
              /\ m.xid \notin DOMAIN segs /\ m.xid \in Xids
          BY <3>3, <4>3, <2>2 DEF Known, Message
        <5>2. segs' \in [DOMAIN segs' -> Segment]
          BY <4>1, <5>1
        <5>3. \A x \in DOMAIN segs' : segs'[x].at = (IF x = m.xid THEN Later(SegmentsTimeout)
                                                      ELSE segs[x].at)
          BY <4>1, <5>1
        <5>4. stimer' \in 0..Never /\ SegmentTimer'
          <6>1. stimer' = IF stimer = Never THEN Later(SegmentsTimeout) ELSE stimer
            BY <3>3 DEF StartSegmentTimer
          <6>2. stimer \in 0..Never /\ \A x \in DOMAIN segs : segs[x].at \in Nat
            BY <1>0 DEF TypeOK, Segment
          <6>3. CASE stimer = Never /\ DOMAIN segs # {}
            <7>1. stimer' = Never /\ Later(SegmentsTimeout) = Never
                  /\ now + SegmentsTimeout > MaxTime
              BY <1>0, <2>7, <6>1, <6>3 DEF SegmentTimer
            <7>2. \A x \in DOMAIN segs' : MaxTime < segs'[x].at + SegmentsTimeout
              <8>1. \A x \in DOMAIN segs : MaxTime < segs[x].at + SegmentsTimeout
                BY <6>3 DEF SegmentTimer
              <8>2. MaxTime < Never + SegmentsTimeout
                BY <1>0
              <8>3. QED
                BY <5>1, <5>3, <7>1, <8>1, <8>2
            <7>3. Never' = Never
              BY DEF Never
            <7>4. QED
              BY <1>0, <2>3, <7>1, <7>2, <7>3 DEF SegmentTimer
          <6>4. CASE stimer = Never /\ DOMAIN segs = {}
            BY <1>0, <2>3, <2>7, <5>1, <5>3, <6>1, <6>2, <6>4 DEF SegmentTimer
          <6>5. CASE stimer # Never
            BY <1>0, <2>3, <2>7, <5>1, <5>3, <6>1, <6>2, <6>5 DEF SegmentTimer
          <6>6. QED
            BY <6>3, <6>4, <6>5
        <5>5. QED
          BY <1>0, <2>2, <2>3, <3>1, <5>1, <5>2, <5>4 DEF TypeOK, Segment
      <4>4. QED
        BY <4>2, <4>3
    <3>4. QED
      BY <2>8, <3>2, <3>3 DEF HandleMore
  <2>9. CASE HandleLast(m)
    <3>1. CASE UNCHANGED <<segments, history>>
      BY <3>1, <2>6 DEF TypeOK, history
    <3>2. CASE /\ Deliver([m EXCEPT !.items = Merge(segs[m.xid], m)])
               /\ segs' = [x \in DOMAIN segs \ {m.xid} |-> segs[x]]
               /\ StartSegmentTimer
      <4>1. /\ DOMAIN segs' = DOMAIN segs \ {m.xid}
            /\ segs' \in [DOMAIN segs' -> Segment]
            /\ \A x \in DOMAIN segs' : segs'[x] = segs[x]
        BY <3>2
      <4>2. DOMAIN segs # {}
        BY <2>9 DEF HandleLast, Known
      <4>3. stimer = Never => Later(SegmentsTimeout) = Never
        BY <1>0, <2>7, <4>2 DEF SegmentTimer
      <4>4. stimer' = stimer
        BY <4>3, <3>2 DEF StartSegmentTimer
      <4>5. SegmentTimer'
        BY <2>3, <4>1, <4>2, <4>4 DEF SegmentTimer
      <4>6. QED
        BY <1>0, <2>2, <2>3, <2>4, <3>2, <4>1, <4>4, <4>5 DEF TypeOK, Segment, Requests
    <3>3. QED
      BY <2>9, <3>1, <3>2 DEF HandleLast
  <2>10. CASE HandleWhole(m)
    BY <2>10, <2>5, <2>6 DEF HandleWhole
  <2>11. CASE HandlePlain(m)
    BY <2>11, <2>5, <2>6 DEF HandlePlain
  <2>12. QED
    BY <1>7, <2>8, <2>9, <2>10, <2>11 DEF Handle, m
<1>8. CASE CheckSegments
  <2>1. stimer <= now /\ UNCHANGED <<now, pending, ptimer, popped, out, wire, rxq, reply, got>>
    BY <1>8 DEF CheckSegments, requests
  <2>2. /\ DOMAIN segs' \subseteq DOMAIN segs
        /\ segs' \in [DOMAIN segs' -> Segment]
        /\ \A x \in DOMAIN segs' : segs'[x] = segs[x] /\ segs[x].at > now
    BY <1>8 DEF CheckSegments
  <2>3. DOMAIN segs' = {} => segs' = <<>>
    BY <2>2
  <2>4. stimer' = IF segs' = <<>> THEN Never ELSE Later(SegmentsTimeout)
    BY <1>8 DEF CheckSegments
  <2>5. stimer' \in 0..Never /\ SegmentTimer'
    <3>1. \A x \in DOMAIN segs' : segs'[x].at \in Nat
      BY <2>2, <1>0 DEF Segment
    <3>2. CASE segs' = <<>>
      BY <1>0, <2>1, <2>4, <3>2 DEF SegmentTimer
    <3>3. CASE segs' # <<>>
      <4>1. stimer' = Later(SegmentsTimeout)
        BY <3>3, <2>4
      <4>2. CASE now + SegmentsTimeout > MaxTime
        BY <1>0, <2>1, <2>2, <3>1, <4>1, <4>2 DEF SegmentTimer, Later
      <4>3. CASE ~(now + SegmentsTimeout > MaxTime)
        BY <1>0, <2>1, <2>2, <3>1, <4>1, <4>3 DEF SegmentTimer, Later
      <4>4. QED
        BY <4>2, <4>3
    <3>4. QED
      BY <3>2, <3>3
  <2>6. fate' \in [Xids -> {"none", "waiting", "answered", "timeout", "cut", "lost"}]
        /\ \A u \in Xids : fate[u] # "none" => fate'[u] # "none"
    BY <1>8 DEF CheckSegments, TypeOK
  <2>7. QED
    BY <1>0, <2>1, <2>2, <2>5, <2>6 DEF TypeOK, Segment, Requests
<1>9. CASE Disconnect
  <2>1. /\ pending' = {} /\ ptimer' = Never /\ segs' = <<>> /\ stimer' = Never
        /\ out' = [x \in Xids |-> <<>>] /\ wire' = <<>> /\ rxq' = <<>>
        /\ UNCHANGED <<now, popped, got>>
    BY <1>9 DEF Disconnect
  <2>2. fate' \in [Xids -> {"none", "waiting", "answered", "timeout", "cut", "lost"}]
    BY <1>9 DEF Disconnect, TypeOK
  <2>3. reply' \in [Xids -> [kind : Kinds \union {"none", "cut"}, items : Items]]
    BY <1>9 DEF Disconnect, TypeOK, NoReply, Items
  <2>4. SegmentTimer'
    BY <1>0, <2>1 DEF SegmentTimer
  <2>5. QED
    BY <1>0, <2>1, <2>2, <2>3, <2>4 DEF TypeOK
<1>10. CASE Tick
  <2>1. now' = now + 1 /\ now < MaxTime /\ now < stimer
        /\ UNCHANGED <<pending, ptimer, popped, segs, stimer, out, wire, rxq, fate, reply, got>>
    BY <1>10 DEF Tick, requests, segments, history
  <2>2. SegmentTimer'
    BY <1>0, <2>1 DEF SegmentTimer, TypeOK
  <2>3. QED
    BY <1>0, <2>1, <2>2 DEF TypeOK
<1>11. CASE UNCHANGED vars
  BY <1>11 DEF vars, requests, segments, history, TypeOK, SegmentTimer
<1>12. QED
  BY <1>1, <1>2, <1>3, <1>4, <1>5, <1>6, <1>7, <1>8, <1>9, <1>10, <1>11 DEF Next

(***************************************************************************)
(* Nothing is pending at first, and no timer runs.                         *)
(***************************************************************************)
LEMMA TimersInit == Init => TimersInv
<1> SUFFICES ASSUME Init PROVE TimersInv
  OBVIOUS
<1>1. now = 0 /\ Never \in Nat /\ MaxTime \in Nat /\ Never = MaxTime + 1
  BY TimesAssumption DEF Init, Never
<1>2. TypeOK
  BY <1>1 DEF Init, TypeOK, NoReply, Items
<1>3. SegmentTimer
  BY <1>1 DEF Init, SegmentTimer
<1>4. QED
  BY <1>2, <1>3 DEF Init, TimersInv

(***************************************************************************)
(* TablesTimed: whatever the order of add_pending_request(), of receptions *)
(* and expiries, of segments and of a disconnect, a pending request is     *)
(* never later than the timer that reports it, and no unfinished message   *)
(* outlives twice timeout_segments.                                        *)
(***************************************************************************)
THEOREM TimersNeverLapse == Spec => []TablesTimed
<1>1. Init => TimersInv
  BY TimersInit
<1>2. TimersInv => TablesTimed
  <2> SUFFICES ASSUME TimersInv PROVE TablesTimed
    OBVIOUS
  <2> USE DEF TimersInv
  <2>1. RequestsTimed
    <3>1. pending \in SUBSET Requests
      BY DEF TypeOK, Requests
    <3>2. QED
      BY <3>1, FirstIsEarliest DEF RequestsTimed
  <2>2. SegmentsTimed
    <3>1. DOMAIN segs = {} => segs = <<>>
      OBVIOUS
    <3>2. now \in Nat /\ now <= MaxTime /\ stimer \in Nat /\ MaxTime \in Nat
          /\ Never = MaxTime + 1 /\ \A x \in DOMAIN segs : segs[x].at \in Nat
      BY TimesAssumption DEF TypeOK, Never, Segment
    <3>3. ASSUME NEW x \in DOMAIN segs PROVE now < segs[x].at + SegmentsTimeout
      <4>1. CASE stimer = Never
        BY <3>2, <4>1, TimesAssumption DEF SegmentTimer
      <4>2. CASE stimer # Never
        BY <3>2, <4>2, TimesAssumption DEF SegmentTimer
      <4>3. QED
        BY <4>1, <4>2
    <3>4. segs # <<>> => stimer # Never \/ now + SegmentsTimeout > MaxTime
      BY <3>1 DEF SegmentTimer
    <3>5. QED
      BY <3>3, <3>4 DEF SegmentsTimed
  <2>3. QED
    BY <2>1, <2>2 DEF TablesTimed
<1>3. QED
  BY <1>1, <1>2, TimersStep, PTL DEF Spec

-----------------------------------------------------------------------------
(***************************************************************************)
(* Where reassembly is sound: not in OpenFlow 1.2, whose replies are cut   *)
(* but never put together again; with fewer transactions than the table    *)
(* of segments has places, because set_pending_segment() refuses more; and *)
(* when a full segment is not longer than the threshold.                   *)
(***************************************************************************)
Reassembles ==
    /\ Version # 12
    /\ Cardinality(Xids) < SegmentsMax
    /\ MaxLength + ItemLength - 1 <= Threshold
    /\ "METER_FEATURES" \notin Kinds

Rng(q) == {q[i] : i \in DOMAIN q}
Of(q, x) == {m \in Rng(q) : m.xid = x}

\* The messages of transaction x that have not been handled yet, and what of
\* its reply the receiver holds or will see.
InFlight(x) == Of(rxq, x) \union Of(wire, x) \union Of(out[x], x)
Held(x) == IF x \in DOMAIN segs THEN segs[x].items ELSE {}
Ahead(x) == UNION {m.items : m \in InFlight(x)}

\* A last segment is the last of its transaction, in a queue and across two.
LastInside(q) == \A i, j \in DOMAIN q : i < j /\ q[i].xid = q[j].xid => q[i].more
LastBefore(q, r) == \A m \in Rng(q), n \in Rng(r) : m.xid = n.xid => m.more
Ordered ==
    /\ LastInside(rxq) /\ LastInside(wire) /\ LastBefore(rxq, wire)
    /\ \A x \in Xids : /\ LastInside(out[x])
                       /\ LastBefore(rxq, out[x]) /\ LastBefore(wire, out[x])

\* A message of a reply: of its type, within the threshold, and with more to
\* follow only where replies are cut.
Fits(m) == /\ m.kind = reply[m.xid].kind
           /\ Cardinality(m.items) * ItemLength <= Threshold
           /\ m.more => m.kind \in Splits(Version)
Segmented == \A x \in Xids : /\ \A m \in InFlight(x) : Fits(m)
                             /\ \A m \in Rng(out[x]) : m.xid = x

Unreplied ==
    \A x \in Xids :
        /\ fate[x] = "none" => reply[x] = NoReply
        /\ reply[x] = NoReply => /\ InFlight(x) = {} /\ x \notin DOMAIN segs
                                 /\ fate[x] # "answered"
        /\ x \in DOMAIN segs => segs[x].kind = reply[x].kind /\ segs[x].kind \in Splits(Version)
Complete ==
    \A x \in Xids :
        /\ fate[x] \in {"none", "waiting"} => got[x] = <<>>
        /\ fate[x] = "waiting" /\ InFlight(x) # {} =>
              Held(x) \union Ahead(x) = reply[x].items
        /\ fate[x] = "answered" /\ reply[x].kind # "cut" =>
              got[x] = <<reply[x].items>> /\ InFlight(x) = {}

(***************************************************************************)
(* The inductive invariant of reassembly: while a request waits, the       *)
(* pieces that are held and the pieces under way make up its reply.        *)
(***************************************************************************)
ReplyInv ==
    /\ TimersInv
    /\ got \in [Xids -> Seq(Items)]
    /\ Version \in {10, 12} => segs = <<>>
    /\ Ordered /\ Segmented /\ Unreplied /\ Complete

(***************************************************************************)
(* A message moves from the head of a queue to the end of the next one.    *)
(***************************************************************************)
LEMMA TakeFirst ==
    ASSUME NEW q \in Seq(Message), q # <<>>
    PROVE  /\ Head(q) \in Message /\ Tail(q) \in Seq(Message)
           /\ Rng(q) = Rng(Tail(q)) \union {Head(q)}
           /\ \A x : Of(q, x) = Of(Tail(q), x) \union Of(<<Head(q)>>, x)
           /\ LastInside(q) => /\ LastInside(Tail(q))
                               /\ LastBefore(<<Head(q)>>, Tail(q))
<1>1. /\ Len(q) \in Nat \ {0} /\ DOMAIN q = 1..Len(q) /\ Head(q) = q[1]
      /\ Tail(q) \in Seq(Message) /\ Len(Tail(q)) = Len(q) - 1
      /\ \A i \in 1..Len(Tail(q)) : Tail(q)[i] = q[i + 1]
      /\ Head(q) \in Message
  OBVIOUS
<1>2. DOMAIN Tail(q) = 1..(Len(q) - 1)
  BY <1>1
<1>3. Rng(q) = Rng(Tail(q)) \union {Head(q)}
  <2>1. \A i \in DOMAIN q : q[i] = Head(q) \/ q[i] \in Rng(Tail(q))
    <3> SUFFICES ASSUME NEW i \in DOMAIN q, i # 1 PROVE q[i] \in Rng(Tail(q))
      BY <1>1
    <3>1. i - 1 \in DOMAIN Tail(q) /\ Tail(q)[i - 1] = q[i]
      BY <1>1, <1>2
    <3>2. QED
      BY <3>1 DEF Rng
  <2>2. \A i \in DOMAIN Tail(q) : i + 1 \in DOMAIN q /\ Tail(q)[i] = q[i + 1]
    BY <1>1, <1>2
  <2>3. 1 \in DOMAIN q
    BY <1>1
  <2>4. Rng(q) \subseteq Rng(Tail(q)) \union {Head(q)}
    BY <2>1 DEF Rng
  <2>5. Rng(Tail(q)) \subseteq Rng(q) /\ Head(q) \in Rng(q)
    BY <1>1, <2>2, <2>3 DEF Rng
  <2>6. QED
    BY <2>4, <2>5
<1>4. Rng(<<Head(q)>>) = {Head(q)}
  BY DEF Rng
<1>5. \A x : Of(q, x) = Of(Tail(q), x) \union Of(<<Head(q)>>, x)
  BY <1>3, <1>4 DEF Of
<1>6. ASSUME LastInside(q) PROVE LastInside(Tail(q)) /\ LastBefore(<<Head(q)>>, Tail(q))
  <2>1. \A i \in DOMAIN Tail(q) : i + 1 \in DOMAIN q /\ Tail(q)[i] = q[i + 1]
    BY <1>1, <1>2
  <2>2. LastInside(Tail(q))
    BY <1>1, <1>2, <1>6, <2>1 DEF LastInside
  <2>3. \A i \in DOMAIN Tail(q) : Head(q).xid = Tail(q)[i].xid => Head(q).more
    BY <1>1, <1>2, <1>6, <2>1 DEF LastInside
  <2>4. QED
    BY <2>2, <2>3, <1>4 DEF LastBefore, Rng
<1>7. QED
  BY <1>1, <1>3, <1>5, <1>6

LEMMA PutLast ==
    ASSUME NEW q \in Seq(Message), NEW m \in Message
    PROVE  /\ Append(q, m) \in Seq(Message)
           /\ Rng(Append(q, m)) = Rng(q) \union {m}
           /\ \A x : Of(Append(q, m), x) = Of(q, x) \union Of(<<m>>, x)
           /\ LastInside(q) /\ LastBefore(q, <<m>>) => LastInside(Append(q, m))
<1>1. /\ Len(q) \in Nat /\ DOMAIN q = 1..Len(q) /\ Append(q, m) \in Seq(Message)
      /\ Len(Append(q, m)) = Len(q) + 1
      /\ \A i \in 1..Len(q) : Append(q, m)[i] = q[i]
      /\ Append(q, m)[Len(q) + 1] = m
  OBVIOUS
<1>2. DOMAIN Append(q, m) = 1..(Len(q) + 1)
  BY <1>1
<1>3. Rng(Append(q, m)) = Rng(q) \union {m}
  <2>1. \A i \in DOMAIN Append(q, m) : Append(q, m)[i] = m \/ Append(q, m)[i] \in Rng(q)
    <3> SUFFICES ASSUME NEW i \in DOMAIN Append(q, m), i # Len(q) + 1
                 PROVE  Append(q, m)[i] \in Rng(q)
      BY <1>1, <1>2
    <3>1. i \in DOMAIN q /\ Append(q, m)[i] = q[i]
      BY <1>1, <1>2
    <3>2. QED
      BY <3>1 DEF Rng
  <2>2. \A i \in DOMAIN q : i \in DOMAIN Append(q, m) /\ Append(q, m)[i] = q[i]
    BY <1>1, <1>2
  <2>3. Len(q) + 1 \in DOMAIN Append(q, m)
    BY <1>1, <1>2
  <2>4. QED
    BY <1>1, <2>1, <2>2, <2>3 DEF Rng
<1>4. Rng(<<m>>) = {m}
  BY DEF Rng
<1>5. \A x : Of(Append(q, m), x) = Of(q, x) \union Of(<<m>>, x)
  BY <1>3, <1>4 DEF Of
<1>6. ASSUME LastInside(q), LastBefore(q, <<m>>) PROVE LastInside(Append(q, m))
  <2>1. \A i \in DOMAIN q : q[i].xid = m.xid => q[i].more
    BY <1>6, <1>4 DEF LastBefore, Rng
  <2>2. SUFFICES ASSUME NEW i \in DOMAIN Append(q, m), NEW j \in DOMAIN Append(q, m), i < j,
                        Append(q, m)[i].xid = Append(q, m)[j].xid
                 PROVE  Append(q, m)[i].more
    BY DEF LastInside
  <2>3. i \in DOMAIN q /\ Append(q, m)[i] = q[i]
    BY <1>1, <1>2, <2>2
  <2>4. CASE j = Len(q) + 1
    BY <1>1, <2>1, <2>2, <2>3, <2>4
  <2>5. CASE j # Len(q) + 1
    <3>1. j \in DOMAIN q /\ Append(q, m)[j] = q[j]
      BY <1>1, <1>2, <2>5
    <3>2. QED
      BY <1>6, <2>2, <2>3, <3>1 DEF LastInside
  <2>6. QED
    BY <2>4, <2>5
<1>7. QED
  BY <1>1, <1>3, <1>5, <1>6

(***************************************************************************)
(* The place of an element in the array, and the segment it is cut into.   *)
(***************************************************************************)
LEMMA PlaceBounds ==
    ASSUME NEW items \in Items, NEW e \in items
    PROVE  Place(items, e) \in 1..Cardinality(items)
<1> DEFINE below == {d \in items : d <= e}
<1>1. IsFiniteSet(items) /\ Cardinality(items) \in Nat
  BY SegmentCount
<1>2. IsFiniteSet(below) /\ Cardinality(below) <= Cardinality(items) /\ Cardinality(below) \in Nat
  <2>1. below \in SUBSET items
    OBVIOUS
  <2> HIDE DEF below
  <2>2. IsFiniteSet(below) /\ Cardinality(below) <= Cardinality(items)
    BY <1>1, <2>1, FS_Subset
  <2>3. QED
    BY <2>2, FS_CardinalityType
<1>3. e \in below
  BY LengthsAssumption DEF Items
<1>4. Cardinality(below) # 0
  <2> HIDE DEF below
  <2> QED
    BY <1>2, <1>3, FS_EmptySet
<1>5. QED
  BY <1>1, <1>2, <1>4 DEF Place

LEMMA PlaceInjective ==
    ASSUME NEW items \in Items, NEW d \in items, NEW e \in items, d < e
    PROVE  Place(items, d) < Place(items, e)
<1> DEFINE D == {c \in items : c <= d}
           E == {c \in items : c <= e}
<1>1. items \subseteq Nat /\ IsFiniteSet(items) /\ d \in Nat /\ e \in Nat
  BY SegmentCount, LengthsAssumption DEF Items
<1>2. D \in SUBSET E /\ e \in E /\ e \notin D /\ E \in SUBSET items
  <2>1. \A c \in items : c \in Nat /\ (c <= d => c <= e)
    BY <1>1
  <2>2. e <= e /\ ~(e <= d)
    BY <1>1
  <2>3. QED
    BY <2>1, <2>2
<1> HIDE DEF D, E
<1>3. IsFiniteSet(E)
  BY <1>1, <1>2, FS_Subset
<1>4. Cardinality(D) <= Cardinality(E) /\ Cardinality(D) # Cardinality(E) /\ IsFiniteSet(D)
  BY <1>2, <1>3, FS_Subset
<1>5. Cardinality(D) \in Nat /\ Cardinality(E) \in Nat
  BY <1>3, <1>4, FS_CardinalityType
<1>6. QED
  BY <1>4, <1>5 DEF Place, D, E

(***************************************************************************)
(* A segment has at most SegmentItems elements.                            *)
(***************************************************************************)
LEMMA SliceSize ==
    ASSUME NEW items \in Items, NEW i \in Nat \ {0}
    PROVE  Cardinality(Slice(items, i)) \in Nat /\ Cardinality(Slice(items, i)) <= SegmentItems
<1> DEFINE S == Slice(items, i)
           lo == (i - 1) * SegmentItems + 1
           hi == i * SegmentItems
           f == [e \in S |-> Place(items, e)]
<1>1. SegmentItems \in Nat /\ lo \in Int /\ hi \in Int /\ hi = lo + SegmentItems - 1
  BY SegmentCount
<1>2. IsFiniteSet(lo..hi) /\ Cardinality(lo..hi) <= SegmentItems
  <2> HIDE DEF lo, hi
  <2>1. IsFiniteSet(lo..hi) /\ Cardinality(lo..hi) = (IF lo > hi THEN 0 ELSE hi - lo + 1)
    BY <1>1, FS_Interval
  <2>2. QED
    BY <1>1, <2>1
<1>3. S \subseteq items /\ items \subseteq Nat /\ \A e \in S : Place(items, e) \in lo..hi
  BY DEF Slice, Items
<1>4. \A d, e \in S : d # e => Place(items, d) # Place(items, e)
  <2> SUFFICES ASSUME NEW d \in S, NEW e \in S, d # e PROVE Place(items, d) # Place(items, e)
    OBVIOUS
  <2>0. d \in items /\ e \in items /\ d \in Nat /\ e \in Nat
    BY <1>3
  <2> HIDE DEF S
  <2>1. d < e \/ e < d
    BY <2>0
  <2>2. Place(items, d) \in 1..Cardinality(items) /\ Place(items, e) \in 1..Cardinality(items)
    BY <2>0, PlaceBounds
  <2>3. d < e => Place(items, d) < Place(items, e)
    BY <2>0, PlaceInjective
  <2>4. e < d => Place(items, e) < Place(items, d)
    BY <2>0, PlaceInjective
  <2>5. QED
    BY <2>1, <2>2, <2>3, <2>4, SegmentCount
<1>5. f \in Injection(S, lo..hi)
  <2> HIDE DEF S, lo, hi
  <2> QED
    BY <1>3, <1>4 DEF Injection, IsInjective
<1> HIDE DEF S, lo, hi, f
<1>6. IsFiniteSet(S) /\ Cardinality(S) <= Cardinality(lo..hi)
  BY <1>2, <1>5, FS_Injection
<1>7. Cardinality(S) \in Nat /\ Cardinality(lo..hi) \in Nat
  BY <1>2, <1>6, FS_CardinalityType
<1>8. Cardinality(S) <= SegmentItems
  BY <1>1, <1>2, <1>6, <1>7
<1>9. QED
  BY <1>7, <1>8 DEF S

(***************************************************************************)
(* Every element of a reply is in one of its segments.                     *)
(***************************************************************************)
LEMMA SlicesCover ==
    ASSUME NEW items \in Items, NEW e \in items
    PROVE  \E i \in 1..((Cardinality(items) + SegmentItems - 1) \div SegmentItems) :
              e \in Slice(items, i)
<1> DEFINE c == Cardinality(items)
           s == SegmentItems
           p == Place(items, e)
           n == (c + s - 1) \div s
           i == (p + s - 1) \div s
<1>1. c \in Nat /\ s \in Nat \ {0} /\ p \in Nat /\ 1 <= p /\ p <= c
  BY SegmentCount, PlaceBounds
<1>2. n \in Nat /\ c <= n * s /\ i \in Nat /\ i * s <= p + s - 1 /\ p <= i * s
  <2> HIDE DEF c, s, p
  <2> QED
    BY <1>1, DivBounds
<1> HIDE DEF c, s, p, n, i
<1>3. i # 0
  BY <1>1, <1>2
<1>4. i * s = (i - 1) * s + s
  BY <1>1, <1>2
<1>5. (i - 1) * s + 1 <= p
  <2>1. (i - 1) * s \in Int
    BY <1>1, <1>2
  <2>2. QED
    BY <1>1, <1>2, <1>4, <2>1
<1>6. i <= n
  <2> SUFFICES ASSUME n + 1 <= i PROVE FALSE
    BY <1>2
  <2>1. (n + 1) * s <= i * s
    BY <1>1, <1>2
  <2>2. (n + 1) * s = n * s + s /\ n * s \in Nat /\ i * s \in Nat
    BY <1>1, <1>2
  <2>3. QED
    BY <1>1, <1>2, <2>1, <2>2
<1>7. e \in Slice(items, i)
  <2>1. (i - 1) * s + 1 \in Int /\ i * s \in Int
    BY <1>1, <1>2
  <2>2. p \in ((i - 1) * s + 1)..(i * s)
    BY <1>1, <1>2, <1>5, <2>1
  <2>3. QED
    BY <2>2 DEF Slice, p, s
<1>8. QED
  BY <1>2, <1>3, <1>6, <1>7 DEF n, c, s

(***************************************************************************)
(* What segment_and_send_message() makes of a reply: pieces that fit, the  *)
(* last one and only the last one without OFPMPF_REPLY_MORE, which         *)
(* together are the reply, unless it is ignored.                           *)
(***************************************************************************)
LEMMA TransmittedWhole ==
    ASSUME Reassembles, NEW x \in Xids, NEW k \in Kinds, NEW items \in Items
    PROVE  LET T == Transmitted(x, k, items) IN
           /\ LastInside(T)
           /\ \A m \in Rng(T) : /\ m.xid = x /\ m.kind = k
                                /\ Cardinality(m.items) * ItemLength <= Threshold
                                /\ m.more => k \in Splits(Version)
           /\ Rng(T) # {} => UNION {m.items : m \in Rng(T)} = items
<1> DEFINE n == (Cardinality(items) + SegmentItems - 1) \div SegmentItems
           T == Transmitted(x, k, items)
           one == [xid |-> x, kind |-> k, more |-> FALSE, items |-> items]
<1>1. CASE Cardinality(items) * ItemLength <= Threshold
  <2>1. T = <<one>>
    BY <1>1 DEF Transmitted
  <2>2. one.xid = x /\ one.kind = k /\ ~one.more /\ one.items = items
    OBVIOUS
  <2> HIDE DEF one
  <2>3. Rng(<<one>>) = {one}
    BY DEF Rng
  <2>4. LastInside(<<one>>)
    BY DEF LastInside
  <2>5. UNION {m.items : m \in {one}} = items
    BY <2>2
  <2>6. QED
    BY <1>1, <2>1, <2>2, <2>3, <2>4, <2>5
<1>2. CASE ~(Cardinality(items) * ItemLength <= Threshold) /\ k \in Splits(Version)
  <2> DEFINE M(i) == [xid |-> x, kind |-> k, more |-> i # n, items |-> Slice(items, i)]
  <2>1. T = [i \in 1..n |-> M(i)]
    BY <1>2 DEF Transmitted, Cut, Sliced, Reassembles
  <2>2. n \in Nat /\ SegmentItems \in Nat
    BY SegmentCount
  <2>3. \A e \in items : \E i \in 1..n : e \in Slice(items, i)
    BY SlicesCover
  <2>4. \A i \in 1..n : Slice(items, i) \subseteq items
    BY DEF Slice
  <2>5. \A i \in 1..n : Cardinality(Slice(items, i)) * ItemLength <= Threshold
    <3> SUFFICES ASSUME NEW i \in 1..n PROVE Cardinality(Slice(items, i)) * ItemLength <= Threshold
      OBVIOUS
    <3> DEFINE z == Cardinality(Slice(items, i))
    <3>1. z \in Nat /\ z <= SegmentItems
      BY <2>2, SliceSize
    <3>2. SegmentItems * ItemLength <= MaxLength + ItemLength - 1
      BY DivBounds, LengthsAssumption DEF SegmentItems
    <3> HIDE DEF z
    <3>3. z * ItemLength <= SegmentItems * ItemLength /\ z * ItemLength \in Nat
          /\ SegmentItems * ItemLength \in Nat
      BY <2>2, <3>1, LengthsAssumption
    <3>4. z * ItemLength <= Threshold
      BY <3>2, <3>3, LengthsAssumption DEF Reassembles
    <3>5. QED
      BY <3>4 DEF z
  <2> HIDE DEF n, T
  <2>6. Rng(T) = {M(i) : i \in 1..n}
    BY <2>1 DEF Rng
  <2>7. LastInside(T)
    <3>1. \A i \in 1..n : i # n => T[i].more
      BY <2>1, Zenon
    <3>2. \A i, j \in 1..n : i < j => i # n
      BY <2>2
    <3>3. DOMAIN T = 1..n
      BY <2>1
    <3>4. QED
      BY <3>1, <3>2, <3>3 DEF LastInside
  <2>8. UNION {m.items : m \in Rng(T)} = items
    <3>1. \A i \in 1..n : M(i) \in Rng(T) /\ M(i).items = Slice(items, i)
      BY <2>6
    <3>2. \A m \in Rng(T) : \E i \in 1..n : m.items = Slice(items, i)
      BY <2>6
    <3> HIDE DEF M
    <3>3. items \subseteq UNION {m.items : m \in Rng(T)}
      BY <2>3, <3>1
    <3>4. UNION {m.items : m \in Rng(T)} \subseteq items
      BY <2>4, <3>2
    <3>5. QED
      BY <3>3, <3>4
  <2>9. \A m \in Rng(T) : /\ m.xid = x /\ m.kind = k
                          /\ Cardinality(m.items) * ItemLength <= Threshold
                          /\ m.more => k \in Splits(Version)
    BY <1>2, <2>5, <2>6
  <2>10. QED
    BY <2>7, <2>8, <2>9 DEF T
<1>3. CASE ~(Cardinality(items) * ItemLength <= Threshold) /\ k \notin Splits(Version)
  <2>1. T = <<>>
    BY <1>3 DEF Transmitted, Reassembles
  <2>2. Rng(<<>>) = {} /\ LastInside(<<>>)
    BY DEF Rng, LastInside
  <2>3. QED
    BY <2>1, <2>2
<1>4. QED
  BY <1>1, <1>2, <1>3

(***************************************************************************)
(* A step that moves no message and ends a request at most.                *)
(***************************************************************************)
LEMMA QuietStep ==
    ASSUME ReplyInv, TimersInv', UNCHANGED <<segs, out, wire, rxq, reply, got>>,
           \A x \in Xids : \/ fate'[x] = fate[x]
                           \/ fate[x] = "none" /\ fate'[x] = "waiting"
                           \/ fate[x] = "waiting" /\ fate'[x] = "timeout"
    PROVE  ReplyInv'
<1>1. \A x : InFlight(x)' = InFlight(x) /\ Held(x)' = Held(x) /\ Ahead(x)' = Ahead(x)
  BY DEF InFlight, Held, Ahead
<1>2. Ordered'
  BY DEF ReplyInv, Ordered
<1>3. Segmented'
  BY <1>1 DEF ReplyInv, Segmented, Fits
<1>4. Unreplied'
  BY <1>1 DEF ReplyInv, Unreplied
<1>5. Complete'
  BY <1>1 DEF ReplyInv, Unreplied, Complete
<1>6. QED
  BY <1>2, <1>3, <1>4, <1>5 DEF ReplyInv

(***************************************************************************)
(* A step of the queues that keeps the messages of every transaction.      *)
(***************************************************************************)
LEMMA MovingStep ==
    ASSUME ReplyInv, TimersInv', UNCHANGED <<segs, fate, reply, got>>, Ordered',
           \A x \in Xids : InFlight(x)' = InFlight(x),
           \A x \in Xids : \A m \in Rng(out'[x]) : m.xid = x
    PROVE  ReplyInv'
<1>1. \A x \in Xids : Held(x)' = Held(x) /\ Ahead(x)' = Ahead(x)
  BY DEF Held, Ahead
<1>2. Segmented'
  BY DEF ReplyInv, Segmented, Fits
<1>3. Unreplied'
  BY DEF ReplyInv, Unreplied
<1>4. Complete'
  BY <1>1 DEF ReplyInv, Complete
<1>5. QED
  BY <1>2, <1>3, <1>4 DEF ReplyInv

(***************************************************************************)
(* The peer's reply: nothing of the transaction was under way before.      *)
(***************************************************************************)
LEMMA ReplyingStep ==
    ASSUME Reassembles, ReplyInv, TimersInv',
           NEW x \in Xids, NEW k \in Kinds, NEW items \in Items, Reply(x, k, items)
    PROVE  ReplyInv'
<1> DEFINE T == Transmitted(x, k, items)
<1>1. /\ LastInside(T)
      /\ \A m \in Rng(T) : /\ m.xid = x /\ m.kind = k
                           /\ Cardinality(m.items) * ItemLength <= Threshold
                           /\ m.more => k \in Splits(Version)
      /\ Rng(T) # {} => UNION {m.items : m \in Rng(T)} = items
  BY TransmittedWhole
<1> HIDE DEF T
<1>2. /\ out' = [out EXCEPT ![x] = T] /\ reply' = [reply EXCEPT ![x] = [kind |-> k, items |-> items]]
      /\ UNCHANGED <<segs, wire, rxq, fate, got>> /\ fate[x] # "none" /\ reply[x] = NoReply
  BY DEF Reply, T, segments
<1>3. out \in [Xids -> Seq(Message)] /\ DOMAIN reply = Xids
  BY DEF ReplyInv, TimersInv, TypeOK
<1>4. /\ out'[x] = T /\ reply'[x] = [kind |-> k, items |-> items]
      /\ \A y \in Xids : y # x => out'[y] = out[y] /\ reply'[y] = reply[y]
  BY <1>2, <1>3
<1>5. InFlight(x) = {} /\ x \notin DOMAIN segs /\ fate[x] # "answered"
  BY <1>2 DEF ReplyInv, Unreplied
<1>6. Of(rxq, x) = {} /\ Of(wire, x) = {}
  BY <1>5 DEF InFlight
<1>7. /\ InFlight(x)' = Rng(T)
      /\ \A y \in Xids : y # x => InFlight(y)' = InFlight(y)
  <2>1. Of(T, x) = Rng(T)
    BY <1>1 DEF Of
  <2>2. QED
    BY <1>2, <1>4, <1>6, <2>1 DEF InFlight
<1>8. k # "none" /\ k # "cut" /\ reply'[x] # NoReply /\ reply'[x].kind = k /\ reply'[x].items = items
  BY <1>4, KindsAssumption DEF NoReply
<1>9. Ordered'
  <2>1. LastBefore(rxq, T) /\ LastBefore(wire, T)
    BY <1>1, <1>6 DEF LastBefore, Of
  <2>2. QED
    BY <1>1, <1>2, <1>4, <2>1 DEF ReplyInv, Ordered
<1>10. Segmented'
  <2>1. ASSUME NEW y \in Xids, y # x PROVE \A m \in InFlight(y) : Fits(m)'
    <3>1. \A m \in InFlight(y) : Fits(m) /\ m.xid = y
      BY DEF ReplyInv, Segmented, InFlight, Of
    <3>2. QED
      BY <1>4, <2>1, <3>1 DEF Fits
  <2>2. \A m \in Rng(T) : Fits(m)'
    BY <1>1, <1>8 DEF Fits
  <2>3. \A y \in Xids : \A m \in Rng(out'[y]) : m.xid = y
    BY <1>1, <1>4 DEF ReplyInv, Segmented
  <2>4. QED
    BY <1>7, <2>1, <2>2, <2>3 DEF Segmented
<1>11. Unreplied'
  BY <1>2, <1>4, <1>5, <1>7, <1>8 DEF ReplyInv, Unreplied
<1>12. Complete'
  <2>1. \A y \in Xids : y # x => Held(y)' = Held(y) /\ Ahead(y)' = Ahead(y)
    BY <1>2, <1>7 DEF Held, Ahead
  <2>2. Held(x)' = {} /\ Ahead(x)' = UNION {m.items : m \in Rng(T)}
    BY <1>2, <1>5, <1>7 DEF Held, Ahead
  <2>3. fate[x] \in {"none", "waiting"} => got[x] = <<>>
    BY DEF ReplyInv, Complete
  <2>4. ASSUME NEW y \in Xids, y # x
        PROVE  /\ fate[y] \in {"none", "waiting"} => got[y] = <<>>
               /\ fate[y] = "waiting" /\ InFlight(y)' # {} =>
                      Held(y)' \union Ahead(y)' = reply'[y].items
               /\ fate[y] = "answered" /\ reply'[y].kind # "cut" =>
                     got[y] = <<reply'[y].items>> /\ InFlight(y)' = {}
    BY <1>4, <1>7, <2>1, <2>4 DEF ReplyInv, Complete
  <2>5. InFlight(x)' # {} => Held(x)' \union Ahead(x)' = reply'[x].items
    BY <1>1, <1>7, <1>8, <2>2
  <2>6. QED
    BY <1>2, <1>5, <2>3, <2>4, <2>5 DEF Complete
<1>13. QED
  BY <1>2, <1>9, <1>10, <1>11, <1>12 DEF ReplyInv

(***************************************************************************)
(* The sender's and the receiver's queues.                                 *)
(***************************************************************************)
LEMMA SendingStep ==
    ASSUME ReplyInv, TimersInv', NEW x \in Xids, Send(x)
    PROVE  ReplyInv'
<1> DEFINE h == Head(out[x])
           t == Tail(out[x])
<1>1. /\ out' = [out EXCEPT ![x] = t] /\ wire' = Append(wire, h) /\ out[x] # <<>>
      /\ UNCHANGED <<segs, rxq, fate, reply, got>>
  BY DEF Send, segments, history
<1>2. out \in [Xids -> Seq(Message)] /\ wire \in Seq(Message)
  BY DEF ReplyInv, TimersInv, TypeOK
<1>3. /\ h \in Message /\ Rng(out[x]) = Rng(t) \union {h}
      /\ \A y : Of(out[x], y) = Of(t, y) \union Of(<<h>>, y)
      /\ LastInside(out[x]) => LastInside(t) /\ LastBefore(<<h>>, t)
  BY <1>1, <1>2, TakeFirst
<1> HIDE DEF h, t
<1>4. /\ Rng(wire') = Rng(wire) \union {h}
      /\ \A y : Of(wire', y) = Of(wire, y) \union Of(<<h>>, y)
      /\ LastInside(wire) /\ LastBefore(wire, <<h>>) => LastInside(wire')
  BY <1>1, <1>2, <1>3, PutLast
<1>5. Rng(<<h>>) = {h}
  BY DEF Rng
<1>6. out'[x] = t /\ \A y \in Xids : y # x => out'[y] = out[y]
  BY <1>1, <1>2
<1>7. \A y \in Xids : \A m \in Rng(out[y]) : m.xid = y
  BY DEF ReplyInv, Segmented
<1>8. h.xid = x
  BY <1>3, <1>7
<1>9. \A y \in Xids : y # x => Of(<<h>>, y) = {}
  BY <1>5, <1>8 DEF Of
<1>10. \A y \in Xids : InFlight(y)' = InFlight(y)
  <2>1. InFlight(x)' = InFlight(x)
    BY <1>1, <1>3, <1>4, <1>6 DEF InFlight
  <2>2. ASSUME NEW y \in Xids, y # x PROVE InFlight(y)' = InFlight(y)
    BY <1>1, <1>4, <1>6, <1>9, <2>2 DEF InFlight
  <2>3. QED
    BY <2>1, <2>2
<1>11. Ordered'
  <2> USE DEF ReplyInv, Ordered
  <2>1. LastInside(t) /\ LastBefore(<<h>>, t)
    BY <1>3
  <2>2. LastInside(wire') /\ LastBefore(rxq, wire')
    BY <1>3, <1>4, <1>5 DEF LastBefore
  <2>3. LastBefore(rxq, t) /\ LastBefore(wire', t)
    BY <1>3, <1>4, <1>5, <2>1 DEF LastBefore
  <2>4. ASSUME NEW y \in Xids, y # x PROVE LastBefore(wire', out[y])
    BY <1>4, <1>7, <1>8, <2>4 DEF LastBefore
  <2>5. QED
    BY <1>1, <1>6, <2>1, <2>2, <2>3, <2>4
<1>12. \A y \in Xids : \A m \in Rng(out'[y]) : m.xid = y
  BY <1>3, <1>6, <1>7
<1>13. QED
  BY <1>1, <1>10, <1>11, <1>12, MovingStep

LEMMA ReceivingStep ==
    ASSUME ReplyInv, TimersInv', Receive
    PROVE  ReplyInv'
<1> DEFINE h == Head(wire)
<1>1. /\ wire' = Tail(wire) /\ rxq' = Append(rxq, h) /\ wire # <<>>
      /\ UNCHANGED <<segs, out, fate, reply, got>>
  BY DEF Receive, segments, history
<1>2. rxq \in Seq(Message) /\ wire \in Seq(Message)
  BY DEF ReplyInv, TimersInv, TypeOK
<1>3. /\ h \in Message /\ Rng(wire) = Rng(wire') \union {h}
      /\ \A y : Of(wire, y) = Of(wire', y) \union Of(<<h>>, y)
      /\ LastInside(wire) => LastInside(wire') /\ LastBefore(<<h>>, wire')
  BY <1>1, <1>2, TakeFirst
<1> HIDE DEF h
<1>4. /\ Rng(rxq') = Rng(rxq) \union {h}
      /\ \A y : Of(rxq', y) = Of(rxq, y) \union Of(<<h>>, y)
      /\ LastInside(rxq) /\ LastBefore(rxq, <<h>>) => LastInside(rxq')
  BY <1>1, <1>2, <1>3, PutLast
<1>5. Rng(<<h>>) = {h}
  BY DEF Rng
<1>6. \A y \in Xids : InFlight(y)' = InFlight(y)
  BY <1>1, <1>3, <1>4 DEF InFlight
<1>7. Ordered'
  <2> USE DEF ReplyInv, Ordered
  <2>1. LastInside(wire') /\ LastBefore(<<h>>, wire')
    BY <1>3
  <2>2. LastInside(rxq')
    BY <1>3, <1>4, <1>5 DEF LastBefore
  <2>3. LastBefore(rxq', wire')
    BY <1>3, <1>4, <1>5, <2>1 DEF LastBefore
  <2>4. \A y \in Xids : LastBefore(rxq', out[y]) /\ LastBefore(wire', out[y])
    BY <1>3, <1>4 DEF LastBefore
  <2>5. QED
    BY <1>1, <2>1, <2>2, <2>3, <2>4
<1>8. \A y \in Xids : \A m \in Rng(out'[y]) : m.xid = y
  BY <1>1 DEF ReplyInv, Segmented
<1>9. QED
  BY <1>1, <1>6, <1>7, <1>8, MovingStep

(***************************************************************************)
(* The receiver handles the first message of its queue.  A last segment    *)
(* has nothing of its transaction behind it; the table of segments is      *)
(* never full, and the segment a message is merged with is of its type.    *)
(***************************************************************************)
LEMMA HandlingStep ==
    ASSUME Reassembles, ReplyInv, TimersInv', Handle
    PROVE  ReplyInv'
<1>1. rxq # <<>> /\ rxq' = Tail(rxq) /\ UNCHANGED <<out, wire>>
  BY DEF Handle
<1>2. /\ rxq \in Seq(Message) /\ out \in [Xids -> Seq(Message)]
      /\ DOMAIN segs \subseteq Xids /\ segs \in [DOMAIN segs -> Segment]
      /\ fate \in [Xids -> {"none", "waiting", "answered", "timeout", "cut", "lost"}]
      /\ got \in [Xids -> Seq(Items)]
  BY DEF ReplyInv, TimersInv, TypeOK
<1>0. Head(rxq) \in Message /\ Head(rxq).xid \in Xids
  BY <1>1, <1>2, TakeFirst DEF Message
<1> PICK m \in Message : m = Head(rxq)
  BY <1>0
<1> PICK x \in Xids : x = m.xid
  BY <1>0
<1>3. /\ m \in Message /\ Rng(rxq) = Rng(rxq') \union {m}
      /\ \A y : Of(rxq, y) = Of(rxq', y) \union Of(<<m>>, y)
      /\ LastInside(rxq) => LastInside(rxq') /\ LastBefore(<<m>>, rxq')
  BY <1>1, <1>2, TakeFirst
<1>4. x \in Xids /\ m.kind \in Kinds /\ m.items \in Items
  BY <1>3 DEF Message
<1>5. Rng(<<m>>) = {m}
  BY DEF Rng
<1>6. Of(<<m>>, x) = {m} /\ \A y : y # x => Of(<<m>>, y) = {}
  BY <1>5 DEF Of
<1>7. /\ InFlight(x) = InFlight(x)' \union {m}
      /\ \A y \in Xids : y # x => InFlight(y)' = InFlight(y)
  <2>1. InFlight(x) = InFlight(x)' \union {m}
    BY <1>1, <1>3, <1>6 DEF InFlight
  <2>2. ASSUME NEW y \in Xids, y # x PROVE InFlight(y)' = InFlight(y)
    BY <1>1, <1>3, <1>6, <2>2 DEF InFlight
  <2>3. QED
    BY <2>1, <2>2
<1>8. Fits(m)
  BY <1>4, <1>7 DEF ReplyInv, Segmented
<1>9. reply[x].kind = m.kind /\ reply[x].kind # "none" /\ reply[x].kind # "cut"
      /\ reply[x] # NoReply /\ fate[x] # "none" /\ fate[x] # "answered"
  <2>1. reply[x].kind = m.kind
    BY <1>8 DEF Fits
  <2>2. reply[x].kind # "none" /\ reply[x].kind # "cut"
    BY <1>4, <2>1, KindsAssumption
  <2>3. reply[x] # NoReply
    BY <2>2 DEF NoReply
  <2>4. fate[x] # "none"
    BY <1>4, <2>3 DEF ReplyInv, Unreplied
  <2>5. fate[x] # "answered"
    BY <1>4, <1>7, <2>2 DEF ReplyInv, Complete
  <2>6. QED
    BY <2>1, <2>2, <2>3, <2>4, <2>5
<1>10. ~m.more => InFlight(x)' = {}
  <2> SUFFICES ASSUME ~m.more PROVE InFlight(x)' = {}
    OBVIOUS
  <2>1. LastBefore(<<m>>, rxq') /\ LastBefore(<<m>>, wire) /\ LastBefore(<<m>>, out[x])
    BY <1>3, <1>4, <1>5 DEF ReplyInv, Ordered, LastBefore
  <2>2. Of(rxq', x) = {} /\ Of(wire, x) = {} /\ Of(out[x], x) = {}
    BY <1>5, <2>1 DEF LastBefore, Of
  <2>3. QED
    BY <1>1, <2>2 DEF InFlight
<1>11. Ordered'
  BY <1>1, <1>3 DEF ReplyInv, Ordered, LastBefore
<1>12. ASSUME UNCHANGED reply PROVE Segmented'
  <2>1. \A y \in Xids : InFlight(y)' \subseteq InFlight(y)
    BY <1>7
  <2>2. QED
    BY <1>1, <1>12, <2>1 DEF ReplyInv, Segmented, Fits
<1>13. ~Full
  <2>1. Cardinality(DOMAIN segs) <= Cardinality(Xids)
    BY <1>2, XidsAssumption, FS_Subset
  <2>2. Cardinality(DOMAIN segs) \in Nat /\ Cardinality(Xids) \in Nat
    BY <1>2, XidsAssumption, FS_Subset, FS_CardinalityType
  <2>3. QED
    BY <2>1, <2>2, LengthsAssumption DEF Full, Reassembles
<1>14. Ahead(x) = Ahead(x)' \union m.items
  BY <1>7 DEF Ahead
<1>15. \A y \in Xids : y # x => Ahead(y)' = Ahead(y)
  BY <1>7 DEF Ahead
\* A message that completes the reply.
<1>16. ASSUME ~m.more, NEW items, items = Held(x) \union m.items,
              x \notin DOMAIN segs', \A y \in Xids : y # x => Held(y)' = Held(y),
              \A y \in DOMAIN segs' : y \in DOMAIN segs /\ segs'[y] = segs[y],
              Version \in {10, 12} => segs' = <<>>,
              got' = [got EXCEPT ![x] = Append(@, items)],
              fate' = [fate EXCEPT ![x] = IF @ = "waiting" THEN "answered" ELSE @],
              UNCHANGED reply
       PROVE  ReplyInv'
  <2>1. InFlight(x)' = {} /\ Ahead(x)' = {}
    BY <1>10, <1>16 DEF Ahead
  <2>2. items \in Items
    BY <1>2, <1>4, <1>16 DEF Held, Items, Segment
  <2>3. got[x] \in Seq(Items) /\ got' \in [Xids -> Seq(Items)]
    BY <1>2, <1>4, <1>16, <2>2
  <2>4. fate[x] = "waiting" => items = reply[x].items /\ got[x] = <<>>
    BY <1>4, <1>7, <1>14, <1>16, <2>1 DEF ReplyInv, Complete
  <2>5. fate[x] = "waiting" => got'[x] = <<reply[x].items>>
    <3>1. got'[x] = Append(got[x], items)
      BY <1>2, <1>4, <1>16
    <3>2. Append(<<>>, items) = <<items>>
      BY <2>2
    <3>3. QED
      BY <2>4, <3>1, <3>2, Zenon
  <2>6. /\ fate'[x] # "none" /\ fate'[x] # "waiting"
        /\ fate'[x] = "answered" => fate[x] = "waiting"
        /\ \A y \in Xids : y # x => fate'[y] = fate[y] /\ got'[y] = got[y]
    BY <1>2, <1>4, <1>9, <1>16
  <2>7. Unreplied'
    BY <1>7, <1>9, <1>16, <2>1, <2>6 DEF ReplyInv, Unreplied
  <2>8. Complete'
    <3>1. ASSUME NEW y \in Xids, y # x
          PROVE  /\ fate'[y] \in {"none", "waiting"} => got'[y] = <<>>
                 /\ fate'[y] = "waiting" /\ InFlight(y)' # {} =>
                        Held(y)' \union Ahead(y)' = reply'[y].items
                 /\ fate'[y] = "answered" /\ reply'[y].kind # "cut" =>
                       got'[y] = <<reply'[y].items>> /\ InFlight(y)' = {}
      BY <1>7, <1>15, <1>16, <2>6, <3>1 DEF ReplyInv, Complete
    <3>2. QED
      BY <1>16, <2>1, <2>5, <2>6, <3>1 DEF Complete
  <2>9. QED
    BY <1>11, <1>12, <1>16, <2>3, <2>7, <2>8 DEF ReplyInv
<1>17. CASE Version \in {10, 12}
  <2>1. Deliver(m) /\ UNCHANGED segments /\ segs = <<>>
    BY <1>17 DEF Handle, HandlePlain, ReplyInv
  <2>2. ~m.more
    BY <1>8, <1>17 DEF Fits, Splits, Reassembles
  <2>3. m.items = Held(x) \union m.items /\ x \notin DOMAIN segs
    BY <2>1 DEF Held
  <2>4. UNCHANGED segs
    BY <2>1 DEF segments
  <2>5. QED
    BY <1>16, <2>1, <2>2, <2>3, <2>4 DEF Deliver, Held
<1>18. CASE Version \notin {10, 12}
  <2>0. HandleMore(m) \/ HandleLast(m) \/ HandleWhole(m)
    BY <1>18 DEF Handle
  <2>1. Splits(Version) \subseteq Merges
    BY <1>18, VersionAssumption DEF Splits, Merges
  <2>2. x \in DOMAIN segs => segs[x].kind = m.kind /\ m.kind \in Merges
    BY <1>4, <1>9, <2>1 DEF ReplyInv, Unreplied
  <2>3. CASE HandleWhole(m)
    <3>1. Deliver(m) /\ ~m.more /\ UNCHANGED segs /\ x \notin DOMAIN segs
      BY <2>3 DEF HandleWhole, segments, Known
    <3>2. m.items = Held(x) \union m.items
      BY <3>1 DEF Held
    <3>3. QED
      BY <1>16, <1>18, <3>1, <3>2 DEF Deliver, Held
  <2>4. CASE HandleLast(m)
    <3> DEFINE items == Held(x) \union m.items
    <3>1. x \in DOMAIN segs /\ ~m.more
      BY <2>4 DEF HandleLast, Known
    <3>2. Merge(segs[x], m) = items
      BY <2>2, <3>1 DEF Merge, Held
    <3>3. /\ Deliver([m EXCEPT !.items = items])
          /\ segs' = [y \in DOMAIN segs \ {x} |-> segs[y]]
      BY <1>13, <2>2, <2>4, <3>1, <3>2 DEF HandleLast
    <3>4. [m EXCEPT !.items = items].xid = x /\ [m EXCEPT !.items = items].items = items
      BY <1>3 DEF Message
    <3> HIDE DEF items
    <3>5. /\ got' = [got EXCEPT ![x] = Append(@, items)]
          /\ fate' = [fate EXCEPT ![x] = IF @ = "waiting" THEN "answered" ELSE @]
          /\ UNCHANGED reply
      BY <3>3, <3>4 DEF Deliver
    <3>6. x \notin DOMAIN segs' /\ \A y \in Xids : y # x => Held(y)' = Held(y)
      BY <3>3 DEF Held
    <3>7. \A y \in DOMAIN segs' : y \in DOMAIN segs /\ segs'[y] = segs[y]
      BY <3>3
    <3>8. items = Held(x) \union m.items
      BY DEF items
    <3>9. QED
      BY <1>16, <1>18, <3>1, <3>5, <3>6, <3>7, <3>8
  <2>5. CASE HandleMore(m)
    <3>1. m.more /\ UNCHANGED <<fate, reply, got>>
      BY <2>5 DEF HandleMore, history
    <3>2. m.kind \in Splits(Version)
      BY <1>8, <3>1 DEF Fits
    <3>3. segs' = IF x \in DOMAIN segs
                  THEN [segs EXCEPT ![x].items = Merge(segs[x], m)]
                  ELSE [y \in DOMAIN segs \union {x} |-> IF y = x THEN Fresh(m) ELSE segs[y]]
      BY <1>13, <2>2, <2>5 DEF HandleMore, Known
    <3>4. /\ x \in DOMAIN segs' /\ segs'[x].kind = m.kind
          /\ segs'[x].items = Held(x) \union m.items
          /\ DOMAIN segs' = DOMAIN segs \union {x}
          /\ \A y \in DOMAIN segs : y # x => segs'[y] = segs[y]
      <4>1. CASE x \in DOMAIN segs
        <5>1. Merge(segs[x], m) = Held(x) \union m.items
          BY <2>2, <4>1 DEF Merge, Held
        <5>2. segs[x] \in Segment
          BY <1>2, <4>1
        <5>3. QED
          BY <1>2, <2>2, <3>3, <4>1, <5>1, <5>2 DEF Segment
      <4>2. CASE x \notin DOMAIN segs
        BY <3>3, <4>2 DEF Fresh, Held
      <4>3. QED
        BY <4>1, <4>2
    <3>5. Held(x)' = Held(x) \union m.items /\ \A y \in Xids : y # x => Held(y)' = Held(y)
      BY <3>4 DEF Held
    <3>6. Unreplied'
      BY <1>7, <1>9, <3>1, <3>2, <3>4 DEF ReplyInv, Unreplied
    <3>7. Complete'
      <4>1. ASSUME NEW y \in Xids, y # x
            PROVE  Held(y)' \union Ahead(y)' = Held(y) \union Ahead(y) /\ InFlight(y)' = InFlight(y)
        BY <1>7, <1>15, <3>5, <4>1
      <4>2. Held(x)' \union Ahead(x)' = Held(x) \union Ahead(x) /\ InFlight(x) # {}
        BY <1>7, <1>14, <3>5
      <4>3. QED
        BY <1>9, <3>1, <4>1, <4>2 DEF ReplyInv, Complete
    <3>8. QED
      BY <1>2, <1>11, <1>12, <1>18, <3>1, <3>6, <3>7 DEF ReplyInv
  <2>6. QED
    BY <2>0, <2>3, <2>4, <2>5
<1>19. QED
  BY <1>17, <1>18

(***************************************************************************)
(* Expired segments are dropped, and with them the claim on their reply.   *)
(***************************************************************************)
LEMMA DroppingStep ==
    ASSUME ReplyInv, TimersInv', CheckSegments
    PROVE  ReplyInv'
<1>1. /\ segs' = [x \in {y \in DOMAIN segs : segs[y].at > now} |-> segs[x]]
      /\ fate' = [x \in Xids |-> IF x \in DOMAIN segs \ DOMAIN segs' /\ fate[x] = "waiting"
                                 THEN "lost" ELSE fate[x]]
      /\ UNCHANGED <<out, wire, rxq, reply, got>>
  BY DEF CheckSegments
<1>2. /\ DOMAIN segs' \subseteq DOMAIN segs
      /\ \A x \in DOMAIN segs' : segs'[x] = segs[x]
  BY <1>1
<1>3. \A x \in Xids : InFlight(x)' = InFlight(x) /\ Ahead(x)' = Ahead(x)
  BY <1>1 DEF InFlight, Ahead
<1>4. \A x \in Xids : \/ fate'[x] = fate[x] /\ (fate[x] = "waiting" => Held(x)' = Held(x))
                      \/ fate'[x] = "lost" /\ fate[x] = "waiting"
  <2> SUFFICES ASSUME NEW x \in Xids
               PROVE  \/ fate'[x] = fate[x] /\ (fate[x] = "waiting" => Held(x)' = Held(x))
                      \/ fate'[x] = "lost" /\ fate[x] = "waiting"
    OBVIOUS
  <2>1. CASE x \in DOMAIN segs \ DOMAIN segs' /\ fate[x] = "waiting"
    BY <1>1, <2>1
  <2>2. CASE x \notin DOMAIN segs \ DOMAIN segs'
    BY <1>1, <1>2, <2>2 DEF Held
  <2>3. CASE fate[x] # "waiting"
    BY <1>1, <2>3
  <2>4. QED
    BY <2>1, <2>2, <2>3
<1>5. Ordered'
  BY <1>1 DEF ReplyInv, Ordered
<1>6. Segmented'
  BY <1>1, <1>3 DEF ReplyInv, Segmented, Fits
<1>7. Unreplied'
  BY <1>1, <1>2, <1>3, <1>4 DEF ReplyInv, Unreplied
<1>8. Complete'
  BY <1>1, <1>3, <1>4 DEF ReplyInv, Complete
<1>9. Version \in {10, 12} => segs' = <<>>
  <2>1. segs = <<>> => DOMAIN segs' = {}
    BY <1>2
  <2>2. DOMAIN segs' = {} => segs' = <<>>
    BY <1>1
  <2>3. QED
    BY <2>1, <2>2 DEF ReplyInv
<1>10. QED
  BY <1>1, <1>5, <1>6, <1>7, <1>8, <1>9 DEF ReplyInv

(***************************************************************************)
(* A disconnect clears every queue; replies given before are void.         *)
(***************************************************************************)
LEMMA CuttingStep ==
    ASSUME ReplyInv, TimersInv', Disconnect
    PROVE  ReplyInv'
<1>1. /\ segs' = <<>> /\ out' = [x \in Xids |-> <<>>] /\ wire' = <<>> /\ rxq' = <<>>
      /\ fate' = [x \in Xids |-> IF fate[x] = "waiting" THEN "cut" ELSE fate[x]]
      /\ reply' = [x \in Xids |-> IF fate[x] = "none" THEN reply[x] ELSE [NoReply EXCEPT !.kind = "cut"]]
      /\ got' = got
  BY DEF Disconnect
<1>2. Rng(<<>>) = {} /\ LastInside(<<>>)
  BY DEF Rng, LastInside
<1>3. \A x \in Xids : InFlight(x)' = {} /\ out'[x] = <<>>
  BY <1>1, <1>2 DEF InFlight, Of
<1>4. \A x \in Xids : IF fate[x] = "none" THEN fate'[x] = "none" /\ reply'[x] = NoReply
                      ELSE fate'[x] # "none" /\ fate'[x] # "waiting" /\ reply'[x].kind = "cut"
                           /\ reply'[x] # NoReply
  BY <1>1 DEF ReplyInv, Unreplied, NoReply
<1>5. Ordered'
  BY <1>1, <1>2, <1>3 DEF Ordered, LastBefore
<1>6. Segmented'
  BY <1>2, <1>3 DEF Segmented
<1>7. Unreplied'
  BY <1>1, <1>3, <1>4 DEF Unreplied
<1>8. Complete'
  BY <1>1, <1>3, <1>4 DEF ReplyInv, Complete
<1>9. QED
  BY <1>1, <1>5, <1>6, <1>7, <1>8 DEF ReplyInv

LEMMA ReplyStep ==
    ASSUME Reassembles, ReplyInv, [Next]_vars
    PROVE  ReplyInv'
<1>0. TimersInv' /\ fate \in [Xids -> {"none", "waiting", "answered", "timeout", "cut", "lost"}]
  BY TimersStep DEF ReplyInv, TimersInv, TypeOK
<1>1. ASSUME NEW x \in Xids, NEW t \in Timeouts, Request(x, t) PROVE ReplyInv'
  BY <1>0, <1>1, QuietStep DEF Request, segments
<1>2. ASSUME NEW x \in Xids, NEW k \in Kinds, NEW i \in Items, Reply(x, k, i) PROVE ReplyInv'
  BY <1>0, <1>2, ReplyingStep
<1>3. ASSUME NEW x \in Xids, Send(x) PROVE ReplyInv'
  BY <1>0, <1>3, SendingStep
<1>4. CASE CheckBegins
  BY <1>0, <1>4, QuietStep DEF CheckBegins, segments, history
<1>5. CASE CheckReports
  BY <1>0, <1>5, QuietStep DEF CheckReports, segments
<1>6. CASE Receive
  BY <1>0, <1>6, ReceivingStep
<1>7. CASE Handle
  BY <1>0, <1>7, HandlingStep
<1>8. CASE CheckSegments
  BY <1>0, <1>8, DroppingStep
<1>9. CASE Disconnect
  BY <1>0, <1>9, CuttingStep
<1>10. CASE Tick
  BY <1>0, <1>10, QuietStep DEF Tick, segments, history
<1>11. CASE UNCHANGED vars
  BY <1>0, <1>11, QuietStep DEF vars, segments, history
<1>12. QED
  BY <1>1, <1>2, <1>3, <1>4, <1>5, <1>6, <1>7, <1>8, <1>9, <1>10, <1>11 DEF Next

(***************************************************************************)
(* RepliesWhole: where reassembly is sound, an answered request has got    *)
(* the peer's reply, whole and once, however segment_and_send_message()    *)
(* cut it and however its segments met those of other transactions, late   *)
(* timers and disconnects; and every segment fits the header's length.     *)
(***************************************************************************)
THEOREM AnswersWhole == ASSUME Reassembles PROVE Spec => []RepliesWhole
<1>1. Init => ReplyInv
  <2> SUFFICES ASSUME Init PROVE ReplyInv
    OBVIOUS
  <2>1. TimersInv
    BY TimersInit
  <2>2. Rng(<<>>) = {} /\ LastInside(<<>>)
    BY DEF Rng, LastInside
  <2>3. \A x \in Xids : InFlight(x) = {} /\ out[x] = <<>>
    BY <2>2 DEF Init, InFlight, Of
  <2>4. Ordered /\ Segmented
    BY <2>2, <2>3 DEF Init, Ordered, LastBefore, Segmented
  <2>5. Unreplied /\ Complete
    BY <2>3 DEF Init, Unreplied, Complete
  <2>6. QED
    BY <2>1, <2>4, <2>5 DEF Init, ReplyInv
<1>2. ReplyInv => RepliesWhole
  <2> SUFFICES ASSUME ReplyInv PROVE RepliesWhole
    OBVIOUS
  <2>1. SegmentFits
    <3>1. wire \in Seq(Message)
      BY DEF ReplyInv, TimersInv, TypeOK
    <3>2. ASSUME NEW i \in DOMAIN wire
          PROVE  wire[i] \in Of(wire, wire[i].xid) /\ wire[i].xid \in Xids
      <4>1. wire[i] \in Message /\ wire[i] \in Rng(wire)
        BY <3>1 DEF Rng
      <4>2. QED
        BY <4>1 DEF Of, Message
    <3>3. \A i \in DOMAIN wire : Fits(wire[i])
      BY <3>2 DEF ReplyInv, Segmented, InFlight
    <3>4. QED
      BY <3>3 DEF SegmentFits, Fits
  <2>2. Reassembled
    BY DEF ReplyInv, Complete, Reassembled
  <2>3. QED
    BY <2>1, <2>2 DEF RepliesWhole
<1>3. ReplyInv /\ [Next]_vars => ReplyInv'
  BY ReplyStep
<1>4. QED
  BY <1>1, <1>2, <1>3, PTL DEF Spec

=============================================================================
