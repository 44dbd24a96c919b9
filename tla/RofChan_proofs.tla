--------------------------- MODULE RofChan_proofs ---------------------------
(***************************************************************************)
(* Proofs about the ownership of control connections, for any number of    *)
(* connections, channels and auxiliary ids.                                *)
(***************************************************************************)
EXTENDS RofChan, FiniteSetTheorems, SequenceTheorems, TLAPS

(***************************************************************************)
(* Part 1.  Types.                                                         *)
(***************************************************************************)
Ids == 0..(Cardinality(Chans) - 1)
ConnRec == [life : BOOLEAN, env : {"null", "base"} \cup Chans, aux : Aux,
            state : {"pending", "up", "down"}, kind : Kinds, passive : BOOLEAN]
ChanRec == [life : {"none", "live", "trash"}, kind : Kinds, id : Ids, named : BOOLEAN,
            conns : [Aux -> Conns \cup {NoConn}], trash : SUBSET Conns,
            timer : BOOLEAN, last : Aux, stuck : BOOLEAN]
Stages == {"idle", "in", "has", "add", "put", "tell", "env", "stuck"}
ThrRec == [calls : Seq(Calls), stage : Stages, arg : {-1} \cup Nat \cup Chans]

ThrType ==
    /\ thr \in [Conns -> ThrRec]
    /\ \A c \in Conns :
          /\ Len(thr[c].calls) <= 2
          /\ thr[c].stage \in {"add", "tell"} => thr[c].arg \in Ids
          /\ thr[c].stage \in {"in", "put", "env", "stuck"} => thr[c].arg \in Chans

TypeInv ==
    /\ conn \in [Conns -> ConnRec] /\ chan \in [Chans -> ChanRec] /\ ThrType
    /\ timers \in [Kinds -> BOOLEAN] /\ lost \subseteq Conns

LEMMA TypesAgree == TypeInv => TypeOK
BY DEF TypeInv, ThrType, ThrRec, Stages, TypeOK, ConnRec, ChanRec, Ids

(***************************************************************************)
(* A smallest element, for Min of FiniteSetsExt.                           *)
(***************************************************************************)
LEMMA MinIn ==
    ASSUME NEW S \in SUBSET Nat, S # {}
    PROVE  Min(S) \in S /\ \A n \in S : Min(S) <= n
<1> DEFINE Less == {p \in Nat \X Nat : p[1] < p[2]}
<1>1. \A a, b \in Nat : <<a, b>> \notin Less => b <= a
  OBVIOUS
<1>2. IsWellFoundedOn(Less, Nat)
  BY NatLessThanWellFounded, Zenon DEF OpToRel
<1> HIDE DEF Less
<1>3. \E m \in S : \A n \in S : <<n, m>> \notin Less
  BY <1>2, WFMin
<1>4. \E m \in S : \A n \in S : m <= n
  BY <1>1, <1>3
<1>5. QED
  BY <1>4 DEF Min

LEMMA ChanCount == Cardinality(Chans) \in Nat
BY ObjectsAssumption, FS_CardinalityType

(***************************************************************************)
(* While memory for a channel is left, an id is left for it: the channels  *)
(* that live are fewer than the ids.                                       *)
(***************************************************************************)
LEMMA FreeIdIn ==
    ASSUME NEW k \in Kinds, Free # {}
    PROVE  FreeId(k) \in Ids
<1> DEFINE Used == {h \in Chans : Live(h)}
           Untaken == {i \in 0..Cardinality(Chans) : WithId(k, i) = {}}
<1>1. IsFiniteSet(Used) /\ Cardinality(Used) < Cardinality(Chans)
  <2>1. Used \in SUBSET Chans /\ Used # Chans
    BY DEF Free, Live
  <2> HIDE DEF Used
  <2>2. /\ IsFiniteSet(Used) /\ Cardinality(Used) <= Cardinality(Chans)
        /\ Cardinality(Chans) # Cardinality(Used)
    BY <2>1, ObjectsAssumption, FS_Subset
  <2>3. QED
    BY <2>2, ChanCount, FS_CardinalityType
<1>2. \E i \in Ids : WithId(k, i) = {}
  <2> SUFFICES ASSUME \A i \in Ids : WithId(k, i) # {} PROVE FALSE
    OBVIOUS
  <2> DEFINE f == [i \in Ids |-> CHOOSE h \in WithId(k, i) : TRUE]
  <2>1. \A i \in Ids : f[i] \in Used /\ chan[f[i]].id = i
    BY DEF WithId
  <2>2. f \in [Ids -> Used]
    BY <2>1
  <2>3. IsFiniteSet(Ids) /\ Cardinality(Ids) = Cardinality(Chans)
    <3>1. Cardinality(Chans) - 1 \in Int /\ 0 \in Int
      BY ChanCount
    <3>2. QED
      BY <3>1, ChanCount, FS_Interval DEF Ids
  <2>4. PICK i, j \in Ids : i # j /\ f[i] = f[j]
    <3> HIDE DEF f, Used
    <3>1. QED
      BY <1>1, <2>2, <2>3, FS_PigeonHole
  <2>5. QED
    BY <2>1, <2>4
<1>3. Untaken \in SUBSET Nat /\ Untaken # {}
  BY <1>2, ChanCount DEF Ids
<1>4. FreeId(k) \in Untaken
  BY <1>3, MinIn DEF FreeId
<1>5. \A j \in Untaken : FreeId(k) <= j
  BY <1>3, MinIn DEF FreeId
<1>6. QED
  BY <1>2, <1>4, <1>5, ChanCount DEF Ids

(***************************************************************************)
(* What the operators on connections and channels do to each field.        *)
(***************************************************************************)
LEMMA NoObjectType == NoObject \in ConnRec
BY AuxAssumption DEF NoObject, ConnRec, Kinds

LEMMA DeletedFields ==
    ASSUME conn \in [Conns -> ConnRec], NEW C \in SUBSET Conns
    PROVE  /\ Deleted(C) \in [Conns -> ConnRec]
           /\ \A d \in Conns : Deleted(C)[d] = IF d \in C THEN NoObject ELSE conn[d]
BY NoObjectType DEF Deleted

LEMMA DetachedFields ==
    ASSUME conn \in [Conns -> ConnRec], NEW C \in SUBSET Conns
    PROVE  /\ Detached(C) \in [Conns -> ConnRec]
           /\ \A d \in Conns :
                /\ Detached(C)[d].life = conn[d].life
                /\ Detached(C)[d].aux = conn[d].aux
                /\ Detached(C)[d].passive = conn[d].passive
                /\ Detached(C)[d].env = IF d \in C THEN "null" ELSE conn[d].env
BY DEF Detached, ConnRec

LEMMA TrashFields ==
    ASSUME NEW ch \in ChanRec, NEW C \in SUBSET Conns
    PROVE  /\ Trash(ch, C) \in ChanRec
           /\ Trash(ch, C).life = ch.life /\ Trash(ch, C).kind = ch.kind
           /\ Trash(ch, C).id = ch.id /\ Trash(ch, C).stuck = ch.stuck
           /\ Trash(ch, C).trash = ch.trash \cup C
           /\ Trash(ch, C).timer
           /\ \A a \in Aux : Trash(ch, C).conns[a] =
                               IF ch.conns[a] \in C THEN NoConn ELSE ch.conns[a]
<1>1. ch.conns \in [Aux -> Conns \cup {NoConn}]
  BY DEF ChanRec
<1>2. [a \in Aux |-> IF ch.conns[a] \in C THEN NoConn ELSE ch.conns[a]]
          \in [Aux -> Conns \cup {NoConn}]
  BY <1>1
<1>3. QED
  BY <1>1, <1>2 DEF Trash, ChanRec

LEMMA NoChannelFields ==
    /\ Chans # {} => NoChannel \in ChanRec
    /\ NoChannel.life = "none" /\ NoChannel.trash = {}
    /\ NoChannel.stuck = FALSE /\ \A a \in Aux : NoChannel.conns[a] = NoConn
<1> DEFINE none == [a \in Aux |-> NoConn]
<1>1. none \in [Aux -> Conns \cup {NoConn}] /\ 0 \in Aux
  BY AuxAssumption
<1>2. Chans # {} => 0 \in Ids
  <2>1. Chans # {} => Cardinality(Chans) # 0
    BY ObjectsAssumption, FS_EmptySet
  <2>2. QED
    BY <2>1, ChanCount DEF Ids
<1>3. NoChannel =
        [life |-> "none", kind |-> "ctl", id |-> 0, named |-> FALSE, conns |-> none, trash |-> {},
         timer |-> FALSE, last |-> 0, stuck |-> FALSE]
  BY DEF NoChannel
<1>4. \A a \in Aux : none[a] = NoConn
  OBVIOUS
<1> HIDE DEF none
<1>5. QED
  BY <1>1, <1>2, <1>3, <1>4 DEF ChanRec, Kinds

LEMMA NewChannelFields ==
    ASSUME NEW k \in Kinds, NEW i \in Ids
    PROVE  /\ NewChannel(k, i) \in ChanRec
           /\ NewChannel(k, i).life = "live" /\ NewChannel(k, i).kind = k
           /\ NewChannel(k, i).trash = {}
           /\ NewChannel(k, i).stuck = FALSE
           /\ \A a \in Aux : NewChannel(k, i).conns[a] = NoConn
<1>1. NoChannel \in ChanRec
  <2>1. Cardinality(Chans) # 0
    BY ChanCount DEF Ids
  <2>2. Chans # {}
    BY <2>1, FS_EmptySet
  <2>3. QED
    BY <2>2, NoChannelFields
<1>2. /\ NoChannel.trash = {} /\ NoChannel.stuck = FALSE
      /\ \A a \in Aux : NoChannel.conns[a] = NoConn
  BY NoChannelFields
<1>3. QED
  BY <1>1, <1>2 DEF NewChannel, ChanRec

\* crofchan::add_conn(conn) makes new of channel ch: c takes its place, old
\* leaves it.
Joined(new, ch, c, old) ==
    /\ new \in ChanRec
    /\ new.life = ch.life /\ new.stuck = ch.stuck /\ new.kind = ch.kind
    /\ new.trash = ch.trash \cup old
    /\ (old # {} \/ ch.timer) => new.timer
    /\ \A a \in Aux : new.conns[a] = IF a = conn[c].aux THEN c
                                    ELSE IF ch.conns[a] \in old THEN NoConn ELSE ch.conns[a]

LEMMA AddToFields ==
    ASSUME NEW ch \in ChanRec, NEW c \in Conns, conn \in [Conns -> ConnRec],
           NEW old \in SUBSET Conns, old = {ch.conns[conn[c].aux]} \ {NoConn}
    PROVE  Joined(AddTo(ch, c), ch, c, old)
<1> DEFINE new == IF old = {} THEN ch ELSE Trash(ch, old)
<1>1. conn[c].aux \in Aux /\ old \in SUBSET Conns /\ NoConn \notin old
  BY DEF ConnRec, ChanRec
<1>2. /\ new \in ChanRec /\ new.life = ch.life /\ new.stuck = ch.stuck /\ new.kind = ch.kind
      /\ new.trash = ch.trash \cup old
      /\ (old # {} \/ ch.timer) => new.timer
      /\ \A a \in Aux : new.conns[a] = IF ch.conns[a] \in old THEN NoConn ELSE ch.conns[a]
  <2>1. CASE old = {}
    BY <2>1
  <2>2. CASE old # {}
    BY <1>1, <2>2, TrashFields
  <2>3. QED
    BY <2>1, <2>2
<1>3. AddTo(ch, c) = [new EXCEPT !.conns[conn[c].aux] = c, !.named = TRUE]
  BY DEF AddTo
<1> DEFINE cs == [new.conns EXCEPT ![conn[c].aux] = c]
<1>4. AddTo(ch, c) = [new EXCEPT !.conns = cs, !.named = TRUE]
  BY <1>3
<1> HIDE DEF new
<1>5. new.conns \in [Aux -> Conns \cup {NoConn}]
  BY <1>2 DEF ChanRec
<1>6. /\ cs \in [Aux -> Conns \cup {NoConn}]
      /\ \A a \in Aux : cs[a] = IF a = conn[c].aux THEN c ELSE new.conns[a]
  BY <1>1, <1>5
<1> HIDE DEF cs
<1>7. AddTo(ch, c) \in ChanRec
  BY <1>2, <1>4, <1>6 DEF ChanRec
<1>8. QED
  BY <1>2, <1>4, <1>6, <1>7 DEF ChanRec, Joined

(***************************************************************************)
(* Part 2.  Every action keeps the types.                                  *)
(***************************************************************************)
LEMMA InitTyped == Init => TypeInv
<1> SUFFICES ASSUME Init PROVE TypeInv
  OBVIOUS
<1>1. conn \in [Conns -> ConnRec]
  BY NoObjectType DEF Init
<1>2. chan \in [Chans -> ChanRec]
  BY NoChannelFields DEF Init
<1>3. ThrType
  <2>1. <<>> \in Seq(Calls) /\ Len(<<>>) = 0
    OBVIOUS
  <2>2. QED
    BY <2>1 DEF Init, ThrType, ThrRec, Stages, Idle
<1>4. timers \in [Kinds -> BOOLEAN] /\ lost \subseteq Conns
  BY DEF Init
<1>5. QED
  BY <1>1, <1>2, <1>3, <1>4 DEF TypeInv

\* The end of a callback, and its steps.
LEMMA DoneTyped ==
    ASSUME ThrType, NEW c \in Conns, Busy(c), Done(c)
    PROVE  ThrType'
<1>1. thr[c].calls \in Seq(Calls) /\ thr[c].calls # <<>> /\ Len(thr[c].calls) <= 2
  BY DEF ThrType, ThrRec, Busy
<1>2. Tail(thr[c].calls) \in Seq(Calls) /\ Len(Tail(thr[c].calls)) <= 2
  BY <1>1
<1>3. /\ Next1(c) \in ThrRec /\ Next1(c).stage = "idle"
      /\ Next1(c).calls = Tail(thr[c].calls)
  BY <1>2 DEF Next1, Idle, ThrRec, Stages
<1>4. thr' \in [Conns -> ThrRec]
  BY <1>3 DEF Done, ThrType
<1>5. \A d \in Conns : thr'[d] = IF d = c THEN Next1(c) ELSE thr[d]
  BY DEF Done, ThrType
<1>6. QED
  BY <1>2, <1>3, <1>4, <1>5 DEF ThrType

LEMMA GoTyped ==
    ASSUME ThrType, NEW c \in Conns, NEW stage \in Stages,
           NEW arg \in {-1} \cup Nat \cup Chans, Go(c, stage, arg),
           stage \in {"add", "tell"} => arg \in Ids,
           stage \in {"in", "put", "env", "stuck"} => arg \in Chans
    PROVE  ThrType'
<1> DEFINE new == [thr[c] EXCEPT !.stage = stage, !.arg = arg]
<1>1. thr' = [thr EXCEPT ![c] = new]
  BY DEF Go, ThrType
<1>2. new \in ThrRec /\ new.stage = stage /\ new.arg = arg /\ new.calls = thr[c].calls
  BY DEF ThrType, ThrRec
<1> HIDE DEF new
<1>3. \A d \in Conns : thr'[d] = IF d = c THEN new ELSE thr[d]
  BY <1>1 DEF ThrType
<1>4. QED
  BY <1>1, <1>2, <1>3 DEF ThrType

LEMMA EventTyped ==
    ASSUME TypeInv, NEW c \in Conns, NEW state \in {"pending", "up", "down"},
           NEW calls \in Seq(Calls), Len(calls) <= 2, Event(c, state, calls)
    PROVE  TypeInv'
<1>1. conn' \in [Conns -> ConnRec]
  BY DEF TypeInv, ConnRec, Event
<1>2. thr' = [thr EXCEPT ![c].calls = calls]
  BY DEF Event
<1>3. ThrType'
  BY <1>2 DEF ThrType, TypeInv, ThrRec
<1>4. QED
  BY <1>1, <1>3 DEF TypeInv, Event

LEMMA FirstFreeIn == Free # {} => FirstFree \in Free /\ Free \subseteq Chans
BY DEF FirstFree, Free

LEMMA RoomIsFree == Room => Free # {}
<1> SUFFICES ASSUME Room, Free = {} PROVE FALSE
  OBVIOUS
<1>1. IsFiniteSet(Pending) /\ Cardinality(Pending) \in Nat
  <2>1. Pending \subseteq Conns
    BY DEF Pending
  <2> HIDE DEF Pending
  <2>2. QED
    BY <2>1, ObjectsAssumption, FS_Subset, FS_CardinalityType
<1>2. Cardinality(Free) = 0
  BY FS_EmptySet
<1>3. QED
  BY <1>1, <1>2 DEF Room

\* A new channel takes the place of one that is free.
LEMMA CreatesTyped ==
    ASSUME TypeInv, NEW k \in Kinds, NEW i \in Ids, Free # {},
           chan' = [chan EXCEPT ![FirstFree] = NewChannel(k, i)]
    PROVE  chan' \in [Chans -> ChanRec]
BY FirstFreeIn, NewChannelFields DEF TypeInv

\* Connection c takes place a of channel h, and no other field changes that
\* ownership depends on.
Placing(h, a, c) ==
    /\ chan' \in [Chans -> ChanRec]
    /\ \A g \in Chans :
          /\ chan'[g].life = chan[g].life /\ chan'[g].kind = chan[g].kind
          /\ chan'[g].stuck = chan[g].stuck /\ chan'[g].trash = chan[g].trash
          /\ chan'[g].timer = chan[g].timer
          /\ \A b \in Aux : chan'[g].conns[b] = IF g = h /\ b = a THEN c ELSE chan[g].conns[b]

LEMMA PlacingHolds ==
    ASSUME TypeInv, NEW h \in Chans, NEW a \in Aux, NEW c \in Conns,
           \/ chan' = [chan EXCEPT ![h].conns[a] = c]
           \/ chan' = [chan EXCEPT ![h].conns[a] = c, ![h].last = a]
    PROVE  Placing(h, a, c)
<1> DEFINE cs == [chan[h].conns EXCEPT ![a] = c]
<1>1. chan \in [Chans -> ChanRec] /\ chan[h] \in ChanRec
  BY DEF TypeInv
<1>2. \/ chan' = [chan EXCEPT ![h] = [chan[h] EXCEPT !.conns = cs]]
      \/ chan' = [chan EXCEPT ![h] = [chan[h] EXCEPT !.conns = cs, !.last = a]]
  BY <1>1
<1>3. /\ cs \in [Aux -> Conns \cup {NoConn}]
      /\ \A b \in Aux : cs[b] = IF b = a THEN c ELSE chan[h].conns[b]
  BY <1>1 DEF ChanRec
<1> HIDE DEF cs
<1>4. PICK ch \in {[chan[h] EXCEPT !.conns = cs], [chan[h] EXCEPT !.conns = cs, !.last = a]} :
        chan' = [chan EXCEPT ![h] = ch]
  BY <1>2
<1>5. /\ ch \in ChanRec /\ ch.conns = cs /\ ch.life = chan[h].life /\ ch.kind = chan[h].kind
      /\ ch.stuck = chan[h].stuck /\ ch.trash = chan[h].trash /\ ch.timer = chan[h].timer
  BY <1>1, <1>3 DEF ChanRec
<1>6. QED
  BY <1>1, <1>3, <1>4, <1>5 DEF Placing

\* The auxiliary id that add_conn() chooses; what it holds is overwritten.
LEMMA NextAuxIn ==
    ASSUME TypeInv, NEW h \in Chans, NEW c \in Conns, AddConnNext(h, c)
    PROVE  \E a \in Aux : /\ conn' = [conn EXCEPT ![c] = Connecting(h, a)]
                          /\ Placing(h, a, c)
                          /\ lost' = lost \cup ({chan[h].conns[a]} \ {NoConn})
<1> DEFINE full == FreeTries(h) = {}
           a == IF full THEN chan[h].last ELSE Tried(h, Min(FreeTries(h)))
<1>1. FreeTries(h) \in SUBSET Nat
  BY DEF FreeTries
<1>2. ~full => Min(FreeTries(h)) \in FreeTries(h)
  BY <1>1, MinIn
<1>3. chan[h].last \in Aux
  BY DEF TypeInv, ChanRec
<1>4. \A n \in Nat : Tried(h, n) \in Aux
  <2>1. Cardinality(Aux) \in Nat /\ chan[h].last \in Nat /\ Cardinality(Aux) > 0
    BY <1>3, AuxAssumption, FS_CardinalityType
  <2>2. QED
    BY <2>1, AuxAssumption DEF Tried
<1>5. a \in Aux
  BY <1>1, <1>2, <1>3, <1>4
<1>6. /\ conn' = [conn EXCEPT ![c] = Connecting(h, a)]
      /\ chan' = [chan EXCEPT ![h].conns[a] = c, ![h].last = a]
      /\ lost' = lost \cup ({chan[h].conns[a]} \ {NoConn})
  BY DEF AddConnNext
<1> HIDE DEF a, full
<1>7. Placing(h, a, c)
  BY <1>5, <1>6, PlacingHolds
<1>8. QED
  BY <1>5, <1>6, <1>7

\* drop_ctl() and drop_dpt().
LEMMA DropsTyped ==
    ASSUME TypeInv, NEW h \in Chans,
           conn' = Detached(Members(h)), chan' = Dropped(h),
           timers' = [timers EXCEPT ![chan[h].kind] = TRUE]
    PROVE  /\ conn' \in [Conns -> ConnRec] /\ chan' \in [Chans -> ChanRec]
           /\ timers' \in [Kinds -> BOOLEAN]
<1>1. Members(h) \in SUBSET Conns /\ chan[h] \in ChanRec /\ chan[h].kind \in Kinds
  BY DEF Members, TypeInv, ChanRec
<1>2. Trash(chan[h], Members(h)) \in ChanRec
  BY <1>1, TrashFields
<1>3. chan' = [chan EXCEPT ![h] = [Trash(chan[h], Members(h)) EXCEPT !.life = "trash"]]
  BY DEF Dropped, TypeInv
<1>4. [Trash(chan[h], Members(h)) EXCEPT !.life = "trash"] \in ChanRec
  BY <1>2 DEF ChanRec
<1>5. timers' \in [Kinds -> BOOLEAN]
  BY <1>1 DEF TypeInv
<1>6. QED
  BY <1>1, <1>3, <1>4, <1>5, DetachedFields DEF TypeInv

LEMMA ApplicationTyped == TypeInv /\ Application => TypeInv'
<1> SUFFICES ASSUME TypeInv, Application PROVE TypeInv'
  OBVIOUS
<1>1. ASSUME NEW k \in AppKinds, AddChannel(k) PROVE TypeInv'
  <2>1. k \in Kinds
    BY KindsAssumption DEF Kinds
  <2>2. chan' \in [Chans -> ChanRec]
    BY <1>1, <2>1, RoomIsFree, FreeIdIn, CreatesTyped DEF AddChannel
  <2>3. QED
    BY <1>1, <2>2 DEF AddChannel, TypeInv, ThrType
<1>2. ASSUME NEW h \in Chans, NEW a \in Aux, NEW c \in Conns
      PROVE  Connecting(h, a) \in ConnRec
  BY DEF Connecting, ConnRec, TypeInv, ChanRec
<1>3. ASSUME NEW h \in Chans, NEW a \in Aux, NEW c \in Conns, AddConn(h, a, c)
      PROVE  TypeInv'
  <2> DEFINE old == {chan[h].conns[a]} \ {NoConn}
  <2>1. old \in SUBSET Conns
    BY DEF TypeInv, ChanRec
  <2>2. /\ conn' = [Deleted(old) EXCEPT ![c] = Connecting(h, a)]
        /\ chan' = [chan EXCEPT ![h].conns[a] = c]
        /\ thr' = thr /\ timers' = timers /\ lost' = lost
    BY <1>3 DEF AddConn
  <2> HIDE DEF old
  <2>3. Deleted(old) \in [Conns -> ConnRec]
    BY <2>1, DeletedFields DEF TypeInv
  <2>4. chan' \in [Chans -> ChanRec]
    BY <2>2, PlacingHolds DEF Placing
  <2>5. QED
    BY <1>2, <2>2, <2>3, <2>4 DEF TypeInv, ThrType
<1>4. ASSUME NEW h \in Chans, NEW c \in Conns, AddConnNext(h, c)
      PROVE  TypeInv'
  <2>1. PICK a \in Aux : /\ conn' = [conn EXCEPT ![c] = Connecting(h, a)]
                         /\ Placing(h, a, c)
                         /\ lost' = lost \cup ({chan[h].conns[a]} \ {NoConn})
    BY <1>4, NextAuxIn
  <2>2. conn' \in [Conns -> ConnRec] /\ chan' \in [Chans -> ChanRec]
    BY <1>2, <2>1 DEF TypeInv, Placing
  <2>3. lost' \subseteq Conns
    BY <2>1 DEF TypeInv, ChanRec
  <2>4. QED
    BY <1>4, <2>2, <2>3 DEF AddConnNext, TypeInv, ThrType
<1>5. ASSUME NEW h \in Chans, NEW a \in Aux, DropConn(h, a)
      PROVE  TypeInv'
  <2> DEFINE C == IF a = 0 THEN Members(h) ELSE {chan[h].conns[a]}
  <2>1. C \in SUBSET Conns
    BY <1>5 DEF DropConn, Members, TypeInv, ChanRec
  <2>2. /\ conn' = Detached(C) /\ chan' = [chan EXCEPT ![h] = Trash(@, C)]
        /\ UNCHANGED <<thr, timers, lost>>
    BY <1>5 DEF DropConn
  <2> HIDE DEF C
  <2>3. QED
    BY <2>1, <2>2, DetachedFields, TrashFields DEF TypeInv, ThrType
<1>6. ASSUME NEW h \in Chans, DropChannel(h)
      PROVE  TypeInv'
  BY <1>6, DropsTyped DEF DropChannel, TypeInv, ThrType
<1>7. QED
  BY <1>1, <1>3, <1>4, <1>5, <1>6 DEF Application

LEMMA PeersTyped == TypeInv /\ Peers => TypeInv'
<1> SUFFICES ASSUME TypeInv, Peers PROVE TypeInv'
  OBVIOUS
<1>1. ASSUME NEW c \in Conns, NEW k \in PassiveKinds, NEW a \in Aux, Accept(c, k, a)
      PROVE  TypeInv'
  <2>1. conn' \in [Conns -> ConnRec]
    BY <1>1, KindsAssumption DEF Accept, TypeInv, ConnRec, Kinds
  <2>2. QED
    BY <1>1, <2>1 DEF Accept, TypeInv, ThrType
<1>2. ASSUME NEW calls \in {<<>>, <<"established">>, <<"closed">>, <<"accept_failed">>,
                           <<"negotiation_failed", "closed">>}
      PROVE  calls \in Seq(Calls) /\ Len(calls) <= 2
  <2>1. {"established", "closed", "accept_failed", "negotiation_failed"} \subseteq Calls
    BY DEF Calls
  <2>2. CASE calls = <<>>
    BY <2>2
  <2>3. ASSUME NEW x \in Calls PROVE <<x>> \in Seq(Calls) /\ Len(<<x>>) = 1
    OBVIOUS
  <2>4. ASSUME NEW x \in Calls, NEW y \in Calls
        PROVE  <<x, y>> \in Seq(Calls) /\ Len(<<x, y>>) = 2
    OBVIOUS
  <2>5. CASE calls \in {<<"established">>, <<"closed">>, <<"accept_failed">>}
    BY <2>1, <2>3, <2>5
  <2>6. CASE calls = <<"negotiation_failed", "closed">>
    BY <2>1, <2>4, <2>6
  <2>7. QED
    BY <2>2, <2>5, <2>6
<1>3. ASSUME NEW c \in Conns, Established(c) \/ Closed(c) \/ Failed(c) \/ Reconnect(c)
      PROVE  TypeInv'
  <2>1. PICK state \in {"pending", "up", "down"},
             calls \in {<<>>, <<"established">>, <<"closed">>, <<"accept_failed">>,
                       <<"negotiation_failed", "closed">>} : Event(c, state, calls)
    BY <1>3 DEF Established, Closed, Failed, Failures, Reconnect
  <2>2. QED
    BY <1>2, <2>1, EventTyped
<1>4. QED
  BY <1>1, <1>3 DEF Peers

LEMMA TimeoutsTyped == TypeInv /\ Timeouts => TypeInv'
<1> SUFFICES ASSUME TypeInv, Timeouts PROVE TypeInv'
  OBVIOUS
<1>1. ASSUME NEW h \in Chans, DropConnsDeletion(h) PROVE TypeInv'
  <2>1. chan[h] \in ChanRec /\ chan[h].trash \in SUBSET Conns
    BY DEF TypeInv, ChanRec
  <2>2. chan' = [chan EXCEPT ![h] = [chan[h] EXCEPT !.timer = FALSE, !.trash = {}]]
    BY <1>1 DEF DropConnsDeletion, TypeInv
  <2>3. [chan[h] EXCEPT !.timer = FALSE, !.trash = {}] \in ChanRec
    BY <2>1 DEF ChanRec
  <2>4. chan' \in [Chans -> ChanRec]
    BY <2>2, <2>3 DEF TypeInv
  <2>5. conn' \in [Conns -> ConnRec]
    BY <1>1, <2>1, DeletedFields DEF DropConnsDeletion, TypeInv
  <2>6. QED
    BY <1>1, <2>4, <2>5 DEF DropConnsDeletion, TypeInv, ThrType
<1>2. ASSUME NEW k \in Kinds, DropChannelsDeletion(k) PROVE TypeInv'
  <2> DEFINE H == {h \in Chans : chan[h].life = "trash" /\ chan[h].kind = k}
             C == UNION {chan[h].trash \cup Members(h) : h \in H}
  <2>1. C \in SUBSET Conns
    BY DEF TypeInv, ChanRec, Members
  <2>2. /\ timers' = [timers EXCEPT ![k] = FALSE]
        /\ chan' = [h \in Chans |-> IF h \in H THEN NoChannel ELSE chan[h]]
        /\ conn' = Deleted(C) /\ lost' = lost /\ thr' = thr
    BY <1>2 DEF DropChannelsDeletion
  <2>3. chan' \in [Chans -> ChanRec]
    BY <2>2, NoChannelFields DEF TypeInv
  <2>4. timers' \in [Kinds -> BOOLEAN]
    BY <2>2 DEF TypeInv
  <2> HIDE DEF C, H
  <2>5. QED
    BY <2>1, <2>2, <2>3, <2>4, DeletedFields DEF TypeInv, ThrType
<1>3. QED
  BY <1>1, <1>2 DEF Timeouts

\* crofchan::add_conn(conn): c moves from the base into channel h; old, with
\* the same id, has to leave it.
MovesIn(c, h, old) ==
    /\ old = {chan[h].conns[conn[c].aux]} \ {NoConn}
    /\ chan[h].life # "none"
    /\ chan' = [chan EXCEPT ![h] = AddTo(chan[h], c)]
    /\ conn' = [d \in Conns |-> IF d \in old THEN [conn[d] EXCEPT !.env = "null"]
                              ELSE IF d = c THEN [conn[d] EXCEPT !.env = h]
                              ELSE conn[d]]

LEMMA MovesInHolds ==
    ASSUME TypeInv, NEW c \in Conns, BaseAdds(c)
    PROVE  /\ Target(c) \in Chans
           /\ \E old \in SUBSET Conns : MovesIn(c, Target(c), old)
<1> DEFINE h == Target(c)
           old == {chan[h].conns[conn[c].aux]} \ {NoConn}
<1>1. h \in Chans /\ conn[c].aux \in Aux
  BY DEF BaseAdds, At, Target, TypeInv, ConnRec, ThrType
<1>2. chan[h] \in ChanRec
  BY <1>1 DEF TypeInv
<1>3. old \in SUBSET Conns
  BY <1>1, <1>2 DEF ChanRec
<1>4. MovesIn(c, h, old)
  BY <1>1 DEF BaseAdds, MovesIn, TypeInv
<1>5. QED
  BY <1>1, <1>3, <1>4

\* crofchan::handle_closed(): c leaves channel h, which becomes ch, for its
\* deletion set.
Erased(c, h, ch) ==
    /\ chan' = [chan EXCEPT ![h] = ch]
    /\ ch.life = chan[h].life /\ ch.kind = chan[h].kind /\ ch.stuck = chan[h].stuck
    /\ ch.trash = chan[h].trash \cup {c} /\ ch.timer
    /\ \A b \in Aux : ch.conns[b] = IF b = conn[c].aux THEN NoConn ELSE chan[h].conns[b]

LEMMA ErasedHolds ==
    ASSUME TypeInv, NEW c \in Conns, AuxClosed(c), Target(c) \in Chans, conn[c].aux \in Aux,
           chan[Target(c)].conns[conn[c].aux] # NoConn
    PROVE  \E ch \in ChanRec : Erased(c, Target(c), ch)
<1> DEFINE h == Target(c)
           a == conn[c].aux
           cs == [chan[h].conns EXCEPT ![a] = NoConn]
           ch == [chan[h] EXCEPT !.conns = cs, !.trash = @ \cup {c}, !.timer = TRUE]
<1>1. chan \in [Chans -> ChanRec] /\ chan[h] \in ChanRec
  BY DEF TypeInv
<1>2. chan' = [chan EXCEPT ![h] = ch]
  BY <1>1 DEF AuxClosed
<1>3. /\ cs \in [Aux -> Conns \cup {NoConn}]
      /\ \A b \in Aux : cs[b] = IF b = a THEN NoConn ELSE chan[h].conns[b]
  BY <1>1 DEF ChanRec
<1> HIDE DEF cs, h
<1>4. /\ ch \in ChanRec /\ ch.conns = cs /\ ch.life = chan[h].life /\ ch.kind = chan[h].kind
      /\ ch.stuck = chan[h].stuck /\ ch.trash = chan[h].trash \cup {c} /\ ch.timer
  BY <1>1, <1>3 DEF ChanRec
<1>5. Erased(c, h, ch)
  BY <1>2, <1>3, <1>4 DEF Erased
<1>6. QED
  BY <1>4, <1>5 DEF h

\* crofbase::set_ctl() and set_dpt() find the channel or create it.
LEMMA SetsTyped ==
    ASSUME TypeInv, NEW c \in Conns, BaseSets(c)
    PROVE  TypeInv'
<1> DEFINE k == conn[c].kind
           found == WithId(k, Target(c))
<1>1. k \in Kinds /\ Target(c) \in Ids
  BY DEF BaseSets, At, Target, TypeInv, ConnRec, ThrType
<1>2. CASE found # {}
  <2> DEFINE h == CHOOSE x \in found : TRUE
  <2>1. h \in found /\ found \subseteq Chans
    BY <1>2 DEF WithId
  <2>2. Go(c, "put", h) /\ UNCHANGED chan
    BY <1>2 DEF BaseSets, SetChannel
  <2> HIDE DEF h
  <2>3. ThrType'
    BY <2>1, <2>2, GoTyped DEF TypeInv, Stages
  <2>4. QED
    BY <2>2, <2>3 DEF BaseSets, TypeInv
<1>3. CASE found = {}
  <2>1. /\ Free # {} /\ chan' = [chan EXCEPT ![FirstFree] = NewChannel(k, Target(c))]
        /\ Go(c, "put", FirstFree)
    BY <1>3 DEF BaseSets, SetChannel
  <2>2. FirstFree \in Chans
    BY <2>1, FirstFreeIn
  <2>3. ThrType'
    BY <2>1, <2>2, GoTyped DEF TypeInv, Stages
  <2> HIDE DEF k
  <2>4. chan' \in [Chans -> ChanRec]
    BY <1>1, <2>1, CreatesTyped
  <2>5. QED
    BY <2>3, <2>4 DEF BaseSets, TypeInv
<1>4. QED
  BY <1>2, <1>3

LEMMA TellsTyped ==
    ASSUME TypeInv, NEW c \in Conns, BaseTells(c)
    PROVE  TypeInv'
<1> DEFINE k == conn[c].kind
<1>1. k \in Kinds /\ Target(c) \in Ids
  BY DEF BaseTells, At, Target, TypeInv, ConnRec, ThrType
<1>2. ThrType'
  BY DoneTyped DEF BaseTells, At, TypeInv
<1>3. chan' \in [Chans -> ChanRec]
  <2>1. CASE WithId(k, Target(c)) # {}
    BY <2>1 DEF BaseTells, TypeInv
  <2>2. CASE WithId(k, Target(c)) = {}
    <3>1. Free # {} /\ chan' = [chan EXCEPT ![FirstFree] = NewChannel(k, Target(c))]
      BY <2>2 DEF BaseTells
    <3> HIDE DEF k
    <3>2. QED
      BY <1>1, <3>1, CreatesTyped
  <2>3. QED
    BY <2>1, <2>2
<1>4. QED
  BY <1>2, <1>3 DEF BaseTells, TypeInv

LEMMA BaseTyped ==
    ASSUME TypeInv, NEW c \in Conns,
           \/ NoEnv(c) \/ Vanished(c) \/ BaseDeletes(c) \/ BaseLooksUp(c)
           \/ BaseFindsDpt(c) \/ BaseSets(c) \/ BaseAdds(c) \/ BaseTells(c)
    PROVE  TypeInv'
<1>1. CASE NoEnv(c) \/ Vanished(c)
  <2>1. Busy(c) /\ Done(c) /\ UNCHANGED <<conn, chan, timers, lost>>
    BY <1>1 DEF NoEnv, Vanished, At
  <2>2. QED
    BY <2>1, DoneTyped DEF TypeInv
<1>2. CASE BaseDeletes(c)
  <2>1. ThrType'
    BY <1>2, DoneTyped DEF BaseDeletes, At, TypeInv
  <2>2. conn' \in [Conns -> ConnRec]
    BY <1>2, DeletedFields DEF BaseDeletes, TypeInv
  <2>3. QED
    BY <1>2, <2>1, <2>2 DEF BaseDeletes, TypeInv
<1>3. CASE BaseLooksUp(c)
  <2>1. CASE conn[c].kind = "ctl"
    <3>1. "ctl" \in Kinds /\ Free # {}
      BY <1>3, <2>1 DEF BaseLooksUp, Kinds
    <3>2. FreeId("ctl") \in Ids
      BY <3>1, FreeIdIn
    <3>3. ThrType'
      BY <1>3, <2>1, <3>2, GoTyped, ChanCount DEF BaseLooksUp, Ids, Stages, TypeInv
    <3>4. chan' \in [Chans -> ChanRec]
      BY <1>3, <2>1, <3>1, <3>2, CreatesTyped DEF BaseLooksUp
    <3>5. QED
      BY <1>3, <3>3, <3>4 DEF BaseLooksUp, TypeInv
  <2>2. CASE conn[c].kind # "ctl"
    <3>1. PICK i \in {0, 1} : Go(c, "has", i)
      BY <1>3, <2>2 DEF BaseLooksUp
    <3>2. ThrType'
      BY <3>1, GoTyped DEF TypeInv, Stages
    <3>3. QED
      BY <1>3, <2>2, <3>2 DEF BaseLooksUp, TypeInv
  <2>3. QED
    BY <2>1, <2>2
<1>4. CASE BaseFindsDpt(c)
  <2>1. CASE thr[c].arg = 0 \/ OfDatapath = {}
    <3>1. "dpt" \in Kinds /\ Free # {}
      BY <1>4, <2>1 DEF BaseFindsDpt, Kinds
    <3>2. FreeId("dpt") \in Ids
      BY <3>1, FreeIdIn
    <3>3. ThrType'
      BY <1>4, <2>1, <3>2, GoTyped, ChanCount DEF BaseFindsDpt, Ids, Stages, TypeInv
    <3>4. chan' \in [Chans -> ChanRec]
      BY <1>4, <2>1, <3>1, <3>2, CreatesTyped DEF BaseFindsDpt
    <3>5. QED
      BY <1>4, <3>3, <3>4 DEF BaseFindsDpt, TypeInv
  <2>2. CASE ~(thr[c].arg = 0 \/ OfDatapath = {})
    <3> DEFINE i == chan[CHOOSE h \in OfDatapath : TRUE].id
    <3>1. (CHOOSE h \in OfDatapath : TRUE) \in Chans
      BY <2>2 DEF OfDatapath
    <3>2. i \in Ids
      BY <3>1 DEF TypeInv, ChanRec
    <3>3. Go(c, "add", i) /\ UNCHANGED chan
      BY <1>4, <2>2 DEF BaseFindsDpt
    <3> HIDE DEF i
    <3>4. ThrType'
      BY <3>2, <3>3, GoTyped, ChanCount DEF Ids, Stages, TypeInv
    <3>5. QED
      BY <1>4, <3>3, <3>4 DEF BaseFindsDpt, TypeInv
  <2>3. QED
    BY <2>1, <2>2
<1>5. CASE BaseSets(c)
  BY <1>5, SetsTyped
<1>6. CASE BaseTells(c)
  BY <1>6, TellsTyped
<1>7. CASE BaseAdds(c)
  <2> DEFINE h == Target(c)
  <2>1. h \in Chans
    BY <1>7, MovesInHolds
  <2>2. PICK old \in SUBSET Conns : MovesIn(c, h, old)
    BY <1>7, MovesInHolds
  <2>3. ThrType'
    <3>1. chan[h].id \in Ids
      BY <2>1 DEF TypeInv, ChanRec
    <3>2. Go(c, "tell", chan[h].id)
      BY <1>7 DEF BaseAdds
    <3> HIDE DEF h
    <3>3. QED
      BY <3>1, <3>2, GoTyped, ChanCount DEF Ids, Stages, TypeInv
  <2> HIDE DEF h
  <2>4. conn' \in [Conns -> ConnRec]
    BY <2>1, <2>2 DEF MovesIn, TypeInv, ConnRec
  <2>5. chan' \in [Chans -> ChanRec]
    <3>1. AddTo(chan[h], c) \in ChanRec
      <4>1. /\ old = {chan[h].conns[conn[c].aux]} \ {NoConn} /\ conn \in [Conns -> ConnRec]
            /\ chan[h] \in ChanRec
        BY <2>1, <2>2 DEF MovesIn, TypeInv
      <4>2. Joined(AddTo(chan[h], c), chan[h], c, old)
        BY <4>1, AddToFields
      <4>3. QED
        BY <4>2 DEF Joined
    <3>2. QED
      BY <2>1, <2>2, <3>1 DEF MovesIn, TypeInv
  <2>6. QED
    BY <1>7, <2>3, <2>4, <2>5 DEF BaseAdds, TypeInv
<1>8. QED
  BY <1>1, <1>2, <1>3, <1>4, <1>5, <1>6, <1>7

LEMMA ChannelTyped ==
    ASSUME TypeInv, NEW c \in Conns,
           ChannelPasses(c) \/ ChannelEnter(c) \/ AuxClosed(c) \/ MainClosed(c) \/ EnvClosed(c)
    PROVE  TypeInv'
<1>1. CASE ChannelPasses(c)
  BY <1>1, DoneTyped DEF ChannelPasses, At, TypeInv
<1>2. CASE ChannelEnter(c)
  <2>1. ThrType'
    BY <1>2, GoTyped DEF ChannelEnter, HasChannel, At, TypeInv, Stages
  <2>2. QED
    BY <1>2, <2>1 DEF ChannelEnter, TypeInv
<1>3. CASE AuxClosed(c)
  <2>1. ThrType' /\ timers' = timers
    BY <1>3, DoneTyped DEF AuxClosed, Executes, At, TypeInv
  <2>2. conn' \in [Conns -> ConnRec] /\ chan' \in [Chans -> ChanRec]
    <3>1. CASE chan[Target(c)].conns[conn[c].aux] = NoConn
      BY <1>3, <3>1 DEF AuxClosed, TypeInv
    <3>2. CASE chan[Target(c)].conns[conn[c].aux] # NoConn
      <4>1. Target(c) \in Chans /\ conn[c].aux \in Aux
        BY <1>3 DEF Target, AuxClosed, Executes, At, TypeInv, ThrType, ConnRec
      <4>2. PICK ch \in ChanRec : Erased(c, Target(c), ch)
        BY <1>3, <3>2, <4>1, ErasedHolds
      <4>3. conn' = [conn EXCEPT ![c].env = "null"]
        BY <1>3, <3>2 DEF AuxClosed
      <4>4. QED
        BY <4>1, <4>2, <4>3 DEF Erased, TypeInv, ConnRec
    <3>3. QED
      BY <3>1, <3>2
  <2>3. lost' \subseteq Conns
    <3>1. Target(c) \in Chans /\ conn[c].aux \in Aux
      BY <1>3 DEF Target, AuxClosed, Executes, At, TypeInv, ThrType, ConnRec
    <3>2. chan[Target(c)].conns[conn[c].aux] \in Conns \cup {NoConn}
      BY <3>1 DEF TypeInv, ChanRec
    <3>3. QED
      BY <1>3, <3>2 DEF AuxClosed, TypeInv
  <2>4. QED
    BY <2>1, <2>2, <2>3 DEF TypeInv
<1>4. CASE MainClosed(c)
  <2> DEFINE h == Target(c)
             others == Members(h) \ {chan[h].conns[0]}
             passive == {d \in Members(h) : conn[d].passive}
  <2>1. /\ h \in Chans /\ chan[h] \in ChanRec /\ Busy(c)
        /\ timers' = timers /\ lost' = lost
    BY <1>4 DEF Target, MainClosed, Executes, At, TypeInv, ThrType
  <2>2. CASE \E d \in others : conn[d].passive
    <3>1. /\ chan' = [chan EXCEPT ![h].stuck = TRUE] /\ Go(c, "stuck", h) /\ conn' = conn
      BY <1>4, <2>2 DEF MainClosed
    <3> HIDE DEF h
    <3>2. ThrType'
      BY <2>1, <3>1, GoTyped DEF TypeInv, Stages
    <3>3. chan' \in [Chans -> ChanRec]
      BY <2>1, <3>1 DEF TypeInv, ChanRec
    <3>4. QED
      BY <2>1, <3>1, <3>2, <3>3 DEF TypeInv
  <2>3. CASE ~\E d \in others : conn[d].passive
    <3>1. /\ chan' = [chan EXCEPT ![h] = IF passive = {} THEN @ ELSE Trash(@, passive)]
          /\ conn' = [d \in Conns |->
                         IF d \in passive THEN [conn[d] EXCEPT !.env = "null"]
                         ELSE IF d \in others THEN [conn[d] EXCEPT !.state = "down"]
                         ELSE conn[d]]
          /\ Go(c, "env", h)
      BY <1>4, <2>3 DEF MainClosed
    <3>2. passive \in SUBSET Conns
      BY <2>1 DEF Members, TypeInv, ChanRec
    <3> HIDE DEF h, passive, others
    <3>3. ThrType'
      BY <2>1, <3>1, GoTyped DEF TypeInv, Stages
    <3>4. chan' \in [Chans -> ChanRec]
      BY <2>1, <3>1, <3>2, TrashFields DEF TypeInv
    <3>5. conn' \in [Conns -> ConnRec]
      BY <3>1 DEF TypeInv, ConnRec
    <3>6. QED
      BY <2>1, <3>3, <3>4, <3>5 DEF TypeInv
  <2>4. QED
    BY <2>2, <2>3
<1>5. CASE EnvClosed(c)
  <2> DEFINE h == thr[c].arg
  <2>1. ThrType' /\ lost' = lost /\ h \in Chans
    BY <1>5, DoneTyped DEF EnvClosed, At, TypeInv, ThrType
  <2>2. CASE Live(h) /\ chan[h].kind = "dpt"
    BY <1>5, <2>1, <2>2, DropsTyped DEF EnvClosed, Target, TypeInv
  <2>3. CASE ~(Live(h) /\ chan[h].kind = "dpt")
    BY <1>5, <2>1, <2>3 DEF EnvClosed, Target, TypeInv
  <2>4. QED
    BY <2>2, <2>3
<1>6. QED
  BY <1>1, <1>2, <1>3, <1>4, <1>5

LEMMA NextTyped == TypeInv /\ [Next]_vars => TypeInv'
<1>1. TypeInv /\ UNCHANGED vars => TypeInv'
  BY DEF vars, TypeInv, ThrType
<1>2. ASSUME TypeInv, NEW c \in Conns, Deliver(c) PROVE TypeInv'
  BY <1>2, BaseTyped, ChannelTyped DEF Deliver
<1>3. QED
  BY <1>1, <1>2, ApplicationTyped, PeersTyped, TimeoutsTyped DEF Next

(***************************************************************************)
(* The model's TypeOK, in every state of every instance: no channel gets   *)
(* an id outside of the range it searches, however often connections and   *)
(* channels come and go.                                                   *)
(***************************************************************************)
THEOREM TypeCorrect == Spec => []TypeOK
<1>1. Spec => []TypeInv
  BY InitTyped, NextTyped, PTL DEF Spec
<1>2. QED
  BY <1>1, TypesAgree, PTL

(***************************************************************************)
(* Part 3.  Ownership.  A connection and its channel name each other; what *)

(***************************************************************************)
(* Part 3.  Ownership.  A connection and its channel name each other, but  *)
(* for those that are lost; what has no environment any more is in one     *)
(* deletion set; and memory that holds no channel holds no connections.    *)
(***************************************************************************)
Placed ==
    /\ \A c \in Conns : conn[c].env # "null" => conn[c].life
    /\ \A c \in lost : conn[c].env \in Chans
    /\ \A c \in Conns, h \in Chans, a \in Aux :
          (chan[h].conns[a] = c) <=> (conn[c].env = h /\ conn[c].aux = a /\ c \notin lost)
Discarded ==
    /\ \A c \in Conns : conn[c].life /\ conn[c].env = "null" =>
                            \E h \in Chans : c \in chan[h].trash
    /\ \A c \in Conns, h \in Chans :
          c \in chan[h].trash => conn[c].life /\ conn[c].env = "null"
    /\ \A c \in Conns, g, h \in Chans :
          c \in chan[g].trash /\ c \in chan[h].trash => g = h
Emptied ==
    \A h \in Chans : chan[h].life = "none" =>
        chan[h].trash = {} /\ \A a \in Aux : chan[h].conns[a] = NoConn

Owned == Placed /\ Discarded /\ Emptied

\* What a step leaves of a connection whose thread does not move: the base
\* keeps its own, and what leaves a channel is in the channel's deletion set
\* until it is deleted.
Steady(d) ==
    /\ conn'[d].life => conn[d].life
    /\ conn[d].env = "base" => conn'[d].env = "base"
    /\ \A h \in Chans : /\ conn[d].env = h =>
                              ~conn'[d].life \/ conn'[d].env = h \/ d \in chan'[h].trash
                        /\ d \in chan[h].trash => ~conn'[d].life \/ d \in chan'[h].trash

LEMMA EnvKinds == TypeInv => \A c \in Conns : conn[c].env \in {"null", "base"} \cup Chans
BY DEF TypeInv, ConnRec

LEMMA Names == "null" \notin Chans /\ "base" \notin Chans /\ NoConn \notin Conns
BY ObjectsAssumption DEF NoConn

LEMMA MemberIs ==
    ASSUME TypeInv, Owned, NEW h \in Chans, NEW c \in Conns
    PROVE  (c \in Members(h)) <=> (conn[c].env = h /\ c \notin lost)
<1>1. conn[c].aux \in Aux
  BY DEF TypeInv, ConnRec
<1>2. QED
  BY <1>1, Names DEF Members, Owned, Placed

\* A step that moves no connection.
LEMMA NothingMoves ==
    ASSUME TypeInv, Owned, lost' = lost,
           \A c \in Conns : /\ conn'[c].life = conn[c].life /\ conn'[c].env = conn[c].env
                            /\ conn'[c].aux = conn[c].aux,
           \A h \in Chans : /\ chan'[h].life = chan[h].life /\ chan'[h].trash = chan[h].trash
                            /\ chan'[h].conns = chan[h].conns
    PROVE  Owned' /\ \A d \in Conns : Steady(d)
<1>1. lost \subseteq Conns
  BY DEF TypeInv
<1>2. Placed'
  BY <1>1 DEF Owned, Placed
<1>3. Discarded' /\ Emptied'
  BY DEF Owned, Discarded, Emptied
<1>4. \A d \in Conns : Steady(d)
  BY DEF Steady
<1>5. QED
  BY <1>2, <1>3, <1>4 DEF Owned

\* A channel is created in free memory.
LEMMA Creates ==
    ASSUME TypeInv, Owned, conn' = conn, lost' = lost, NEW k \in Kinds, NEW i \in Ids, Free # {},
           chan' = [chan EXCEPT ![FirstFree] = NewChannel(k, i)]
    PROVE  Owned' /\ \A d \in Conns : Steady(d)
<1>1. FirstFree \in Chans /\ chan[FirstFree].life = "none"
  BY FirstFreeIn DEF Free
<1> DEFINE new == NewChannel(k, i)
<1>2. /\ new.life = "live" /\ new.trash = {}
      /\ \A a \in Aux : new.conns[a] = NoConn
  BY NewChannelFields
<1> HIDE DEF new
<1>3. \A h \in Chans : chan'[h] = IF h = FirstFree THEN new ELSE chan[h]
  BY <1>1 DEF TypeInv, new
<1>4. \A h \in Chans, a \in Aux : chan'[h].conns[a] = chan[h].conns[a]
  BY <1>1, <1>2, <1>3 DEF Owned, Emptied
<1>5. \A h \in Chans : chan'[h].trash = chan[h].trash
  BY <1>1, <1>2, <1>3 DEF Owned, Emptied
<1>6. Placed'
  BY <1>4 DEF Owned, Placed
<1>7. Discarded'
  BY <1>5 DEF Owned, Discarded
<1>8. Emptied'
  BY <1>2, <1>3 DEF Owned, Emptied
<1>9. \A d \in Conns : Steady(d)
  BY <1>5 DEF Steady
<1>10. QED
  BY <1>6, <1>7, <1>8, <1>9 DEF Owned

\* The connections C leave channel h for its deletion set: drop_conn(),
\* clear() and handle_closed().
LEMMA Leaves ==
    ASSUME TypeInv, Owned, NEW h \in Chans, NEW C \in SUBSET Conns, lost' = lost,
           C \subseteq Members(h),
           \A c \in Conns : /\ conn'[c].life = conn[c].life /\ conn'[c].aux = conn[c].aux
                            /\ conn'[c].env = IF c \in C THEN "null" ELSE conn[c].env,
           \A g \in Chans \ {h} : chan'[g] = chan[g],
           chan[h].life # "none", chan'[h].life # "none",
           chan'[h].trash = chan[h].trash \cup C,
           \A a \in Aux : chan'[h].conns[a] =
                            IF chan[h].conns[a] \in C THEN NoConn ELSE chan[h].conns[a]
    PROVE  Owned' /\ \A d \in Conns : Steady(d)
<1>0. \A c \in C : conn[c].env = h /\ c \notin lost
  BY MemberIs
<1>1. Placed'
  <2>1. \A c \in Conns : conn'[c].env # "null" => conn'[c].life
    BY DEF Owned, Placed
  <2>2. ASSUME NEW c \in Conns, NEW g \in Chans, NEW a \in Aux
        PROVE  (chan'[g].conns[a] = c) <=> (conn'[c].env = g /\ conn'[c].aux = a /\ c \notin lost')
    <3>1. (chan[g].conns[a] = c) <=> (conn[c].env = g /\ conn[c].aux = a /\ c \notin lost)
      BY DEF Owned, Placed
    <3>2. CASE g = h
      BY <1>0, <3>1, <3>2, Names
    <3>3. CASE g # h
      BY <1>0, <3>1, <3>3, Names
    <3>4. QED
      BY <3>2, <3>3
  <2>3. \A c \in lost' : conn'[c].env \in Chans
    BY <1>0 DEF Owned, Placed, TypeInv
  <2>4. QED
    BY <2>1, <2>2, <2>3 DEF Placed
<1>2. \A g \in Chans : chan'[g].trash = IF g = h THEN chan[g].trash \cup C ELSE chan[g].trash
  OBVIOUS
<1>3. \A c \in C : conn[c].life /\ conn[c].env # "null"
  BY <1>0, Names DEF Owned, Placed
<1>4. Discarded'
  <2>1. \A c \in Conns : conn'[c].life /\ conn'[c].env = "null" =>
                            \E g \in Chans : c \in chan'[g].trash
    BY <1>2 DEF Owned, Discarded
  <2>2. \A c \in Conns, g \in Chans :
          c \in chan'[g].trash => conn'[c].life /\ conn'[c].env = "null"
    BY <1>2, <1>3 DEF Owned, Discarded
  <2>3. \A c \in Conns, f, g \in Chans :
          c \in chan'[f].trash /\ c \in chan'[g].trash => f = g
    BY <1>2, <1>3 DEF Owned, Discarded
  <2>4. QED
    BY <2>1, <2>2, <2>3 DEF Discarded
<1>5. Emptied'
  BY DEF Owned, Emptied
<1>6. \A d \in Conns : Steady(d)
  BY <1>0, <1>2, Names DEF Steady
<1>7. QED
  BY <1>1, <1>4, <1>5, <1>6 DEF Owned

\* crofchan::handle_closed() of auxiliary connection c empties the place of
\* its id, whatever the place x holds, and leaves c to the timer.
LEMMA Erases ==
    ASSUME TypeInv, Owned, NEW h \in Chans, NEW c \in Conns, NEW x \in Conns, NEW a \in Aux,
           chan[h].conns[a] = x, conn[c].life, conn[c].aux = a, chan[h].life # "none",
           conn[c].env = h \/ c \in chan[h].trash,
           lost' = (lost \cup {x}) \ {c},
           \A d \in Conns : /\ conn'[d].life = conn[d].life /\ conn'[d].aux = conn[d].aux
                            /\ conn'[d].env = IF d = c THEN "null" ELSE conn[d].env,
           \A g \in Chans \ {h} : chan'[g] = chan[g],
           chan'[h].life = chan[h].life, chan'[h].trash = chan[h].trash \cup {c},
           \A b \in Aux : chan'[h].conns[b] = IF b = a THEN NoConn ELSE chan[h].conns[b]
    PROVE  Owned' /\ \A d \in Conns : Steady(d)
<1>1. conn[x].env = h /\ conn[x].aux = a /\ x \notin lost
  BY DEF Owned, Placed
<1>2. conn[c].env = h \/ conn[c].env = "null"
  BY DEF Owned, Discarded
<1>3. Placed'
  <2>1. \A d \in Conns : conn'[d].env # "null" => conn'[d].life
    BY DEF Owned, Placed
  <2>2. \A d \in lost' : conn'[d].env \in Chans
    <3>1. ASSUME NEW d \in lost' PROVE d \in Conns /\ d # c /\ (d = x \/ d \in lost)
      BY <3>1 DEF TypeInv
    <3>2. QED
      BY <1>1, <3>1 DEF Owned, Placed
  <2>3. ASSUME NEW d \in Conns, NEW g \in Chans, NEW b \in Aux
        PROVE  (chan'[g].conns[b] = d) <=> (conn'[d].env = g /\ conn'[d].aux = b /\ d \notin lost')
    <3>1. (chan[g].conns[b] = d) <=> (conn[d].env = g /\ conn[d].aux = b /\ d \notin lost)
      BY DEF Owned, Placed
    <3>2. chan'[g].conns[b] = IF g = h /\ b = a THEN NoConn ELSE chan[g].conns[b]
      BY <1>1
    <3>3. CASE d = c
      BY <1>2, <3>1, <3>2, <3>3, Names
    <3>4. CASE d # c /\ d = x
      BY <1>1, <3>1, <3>2, <3>4, Names
    <3>5. CASE d # c /\ d # x
      BY <3>1, <3>2, <3>5, Names
    <3>6. QED
      BY <3>3, <3>4, <3>5
  <2>4. QED
    BY <2>1, <2>2, <2>3 DEF Placed
<1>4. \A g \in Chans : chan'[g].trash = IF g = h THEN chan[g].trash \cup {c} ELSE chan[g].trash
  OBVIOUS
<1>5. Discarded'
  <2>1. \A d \in Conns : conn'[d].life /\ conn'[d].env = "null" =>
                            \E g \in Chans : d \in chan'[g].trash
    BY <1>4 DEF Owned, Discarded
  <2>2. \A d \in Conns, g \in Chans :
          d \in chan'[g].trash => conn'[d].life /\ conn'[d].env = "null"
    BY <1>4 DEF Owned, Discarded
  <2>3. ASSUME NEW g \in Chans, c \in chan[g].trash PROVE g = h
    BY <2>3, Names DEF Owned, Discarded
  <2>4. \A d \in Conns, f, g \in Chans :
          d \in chan'[f].trash /\ d \in chan'[g].trash => f = g
    BY <1>4, <2>3 DEF Owned, Discarded
  <2>5. QED
    BY <2>1, <2>2, <2>4 DEF Discarded
<1>6. Emptied'
  BY DEF Owned, Emptied
<1>7. \A d \in Conns : Steady(d)
  BY <1>2, <1>4, Names DEF Steady
<1>8. QED
  BY <1>3, <1>5, <1>6, <1>7 DEF Owned

\* The deletion sets of the channels H are deleted, and the channels G of them
\* with the connections they hold.
LEMMA Deletes ==
    ASSUME TypeInv, Owned, NEW H \in SUBSET Chans, NEW G \in SUBSET H,
           NEW C \in SUBSET Conns, lost' = lost,
           \A c \in Conns : (c \in C) <=> \/ \E h \in H : c \in chan[h].trash
                                         \/ \E h \in G : c \in Members(h),
           conn' = Deleted(C),
           \A h \in Chans : chan'[h].trash = IF h \in H THEN {} ELSE chan[h].trash,
           \A h \in Chans, a \in Aux : chan'[h].conns[a] =
                                         IF h \in G THEN NoConn ELSE chan[h].conns[a],
           \A h \in Chans : h \in G \/ chan'[h].life = chan[h].life
    PROVE  Owned' /\ \A d \in Conns : Steady(d)
<1>1. \A c \in Conns : conn'[c] = IF c \in C THEN NoObject ELSE conn[c]
  BY DeletedFields DEF TypeInv
<1>2. NoObject.env = "null" /\ NoObject.life = FALSE
  BY DEF NoObject
<1>3. \A c \in C : conn[c].env = "null" \/ (conn[c].env \in G /\ c \notin lost)
  <2>1. \A c \in Conns, h \in H : c \in chan[h].trash => conn[c].env = "null"
    BY DEF Owned, Discarded
  <2>2. \A c \in Conns, h \in G : c \in Members(h) => conn[c].env = h /\ c \notin lost
    BY MemberIs
  <2>3. QED
    BY <2>1, <2>2
<1>4. \A c \in Conns : conn[c].env \in G /\ c \notin lost => c \in C
  <2>1. \A c \in Conns, h \in G : conn[c].env = h /\ c \notin lost => c \in Members(h)
    BY MemberIs
  <2>2. QED
    BY <2>1
<1>5. Placed'
  <2>1. \A c \in Conns : conn'[c].env # "null" => conn'[c].life
    BY <1>1, <1>2 DEF Owned, Placed
  <2>2. \A c \in lost' : conn'[c].env \in Chans
    <3>1. ASSUME NEW c \in lost PROVE c \in Conns /\ c \notin C
      BY <1>3, Names DEF Owned, Placed, TypeInv
    <3>2. QED
      BY <1>1, <3>1 DEF Owned, Placed
  <2>3. ASSUME NEW d \in Conns, NEW g \in Chans, NEW b \in Aux
        PROVE  (chan'[g].conns[b] = d) <=> (conn'[d].env = g /\ conn'[d].aux = b /\ d \notin lost')
    <3>1. (chan[g].conns[b] = d) <=> (conn[d].env = g /\ conn[d].aux = b /\ d \notin lost)
      BY DEF Owned, Placed
    <3>2. CASE d \in C
      <4>1. conn'[d].env # g
        BY <1>1, <1>2, <3>2, Names
      <4>2. chan'[g].conns[b] # d
        BY <1>3, <3>1, <3>2, Names
      <4>3. QED
        BY <4>1, <4>2
    <3>3. CASE d \notin C
      <4>1. conn'[d] = conn[d]
        BY <1>1, <3>3
      <4>2. CASE g \in G
        BY <1>4, <3>3, <4>1, <4>2, Names
      <4>3. CASE g \notin G
        BY <3>1, <4>1, <4>3
      <4>4. QED
        BY <4>2, <4>3
    <3>4. QED
      BY <3>2, <3>3
  <2>4. QED
    BY <2>1, <2>2, <2>3 DEF Placed
<1>6. Discarded'
  <2>1. \A c \in Conns : conn'[c].life /\ conn'[c].env = "null" =>
                            \E h \in Chans : c \in chan'[h].trash
    BY <1>1, <1>2 DEF Owned, Discarded
  <2>2. \A c \in Conns, h \in Chans :
          c \in chan'[h].trash => conn'[c].life /\ conn'[c].env = "null"
    <3>1. ASSUME NEW c \in Conns, NEW h \in Chans, c \in chan'[h].trash
          PROVE  c \in chan[h].trash /\ h \notin H
      BY <3>1
    <3>2. ASSUME NEW c \in Conns, NEW h \in Chans, c \in chan'[h].trash
          PROVE  c \notin C
      <4>1. c \in chan[h].trash /\ h \notin H /\ conn[c].env = "null"
        BY <3>1, <3>2 DEF Owned, Discarded
      <4>2. ASSUME NEW g \in H PROVE c \notin chan[g].trash
        BY <4>1 DEF Owned, Discarded
      <4>3. ASSUME NEW g \in G PROVE c \notin Members(g)
        BY <4>1, MemberIs, Names
      <4>4. QED
        BY <4>2, <4>3
    <3>3. QED
      BY <1>1, <3>1, <3>2 DEF Owned, Discarded
  <2>3. \A c \in Conns, g, h \in Chans :
          c \in chan'[g].trash /\ c \in chan'[h].trash => g = h
    BY DEF Owned, Discarded
  <2>4. QED
    BY <2>1, <2>2, <2>3 DEF Discarded
<1>7. Emptied'
  BY DEF Owned, Emptied
<1>8. ASSUME NEW d \in Conns PROVE Steady(d)
  <2>1. CASE d \in C
    BY <1>1, <1>2, <1>3, <2>1, Names DEF Steady
  <2>2. CASE d \notin C
    <3>1. conn'[d] = conn[d]
      BY <1>1, <2>2
    <3>2. \A h \in Chans : d \in chan[h].trash => d \in chan'[h].trash
      BY <2>2
    <3>3. QED
      BY <3>1, <3>2 DEF Steady
  <2>3. QED
    BY <2>1, <2>2
<1>9. QED
  BY <1>5, <1>6, <1>7, <1>8 DEF Owned

\* A new connection takes a place in channel h, and what held it is deleted or
\* forgotten: crofchan::add_conn(auxid) and add_conn().
LEMMA Connects ==
    ASSUME TypeInv, Owned, NEW h \in Chans, NEW a \in Aux, NEW c \in Conns, NEW old \in SUBSET Conns,
           old = {chan[h].conns[a]} \ {NoConn}, Live(h), ~conn[c].life, Placing(h, a, c),
           \/ conn' = [Deleted(old) EXCEPT ![c] = Connecting(h, a)] /\ lost' = lost
           \/ conn' = [conn EXCEPT ![c] = Connecting(h, a)] /\ lost' = lost \cup old
    PROVE  Owned' /\ \A d \in Conns \ {c} : Steady(d)
<1>1. Deleted(old) \in [Conns -> ConnRec] /\ conn \in [Conns -> ConnRec]
  BY DeletedFields DEF TypeInv
<1>2. \A d \in Conns : Deleted(old)[d] = IF d \in old THEN NoObject ELSE conn[d]
  BY DeletedFields DEF TypeInv
<1>3. conn[c].env = "null" /\ c \notin lost
  BY Names DEF Owned, Placed
<1>4. \A d \in old : conn[d].env = h /\ conn[d].aux = a /\ d \notin lost
  BY Names DEF Owned, Placed
<1>5. c \notin old
  BY <1>3, <1>4, Names
<1>6. /\ NoObject.env = "null" /\ NoObject.life = FALSE /\ Connecting(h, a).life = TRUE
      /\ Connecting(h, a).env = h /\ Connecting(h, a).aux = a
  BY DEF NoObject, Connecting
<1>7. conn'[c].env = h /\ conn'[c].aux = a /\ conn'[c].life = TRUE /\ c \notin lost'
  BY <1>1, <1>3, <1>5, <1>6
<1>8. \A d \in old : \/ conn'[d].env = "null" /\ conn'[d].life = FALSE /\ lost' = lost
                     \/ conn'[d] = conn[d] /\ d \in lost'
  BY <1>1, <1>2, <1>5, <1>6
<1>9. \A d \in Conns : d # c /\ d \notin old =>
                         conn'[d] = conn[d] /\ (d \in lost' <=> d \in lost)
  BY <1>1, <1>2
<1> HIDE DEF Connecting
<1>10. Placed'
  <2>1. \A d \in Conns : conn'[d].env # "null" => conn'[d].life
    BY <1>7, <1>8, <1>9 DEF Owned, Placed
  <2>2. \A d \in lost' : conn'[d].env \in Chans
    <3>1. ASSUME NEW d \in lost' PROVE d \in Conns /\ (d \in old \/ d \in lost)
      BY <3>1 DEF TypeInv
    <3>2. \A d \in lost : conn[d].env \in Chans
      BY DEF Owned, Placed
    <3>3. ASSUME NEW d \in lost' PROVE conn'[d].env \in Chans
      BY <1>4, <1>7, <1>8, <1>9, <3>1, <3>2, <3>3
    <3>4. QED
      BY <3>3
  <2>3. ASSUME NEW d \in Conns, NEW g \in Chans, NEW b \in Aux
        PROVE  (chan'[g].conns[b] = d) <=> (conn'[d].env = g /\ conn'[d].aux = b /\ d \notin lost')
    <3>1. (chan[g].conns[b] = d) <=> (conn[d].env = g /\ conn[d].aux = b /\ d \notin lost)
      BY DEF Owned, Placed
    <3>2. chan'[g].conns[b] = IF g = h /\ b = a THEN c ELSE chan[g].conns[b]
      BY DEF Placing
    <3>3. CASE d = c
      BY <1>3, <1>7, <3>1, <3>2, <3>3, Names
    <3>4. CASE d # c /\ d \in old
      <4>1. chan'[g].conns[b] # d
        BY <1>4, <3>1, <3>2, <3>4, Names
      <4>2. conn'[d].env = "null" \/ d \in lost'
        BY <1>8, <3>4
      <4>3. QED
        BY <4>1, <4>2, Names
    <3>5. CASE d # c /\ d \notin old
      BY <1>9, <3>1, <3>2, <3>5, Names
    <3>6. QED
      BY <3>3, <3>4, <3>5
  <2>4. QED
    BY <2>1, <2>2, <2>3 DEF Placed
<1>11. \A g \in Chans : chan'[g].trash = chan[g].trash
  BY DEF Placing
<1>12. Discarded'
  <2>1. \A d \in Conns : conn'[d].life /\ conn'[d].env = "null" =>
                            \E g \in Chans : d \in chan'[g].trash
    <3>1. ASSUME NEW d \in Conns, conn'[d].life, conn'[d].env = "null"
          PROVE  conn[d].life /\ conn[d].env = "null"
      BY <1>4, <1>7, <1>8, <1>9, <3>1, Names
    <3>2. QED
      BY <1>11, <3>1 DEF Owned, Discarded
  <2>2. \A d \in Conns, g \in Chans :
          d \in chan'[g].trash => conn'[d].life /\ conn'[d].env = "null"
    <3>1. ASSUME NEW d \in Conns, NEW g \in Chans, d \in chan[g].trash
          PROVE  conn[d].life /\ conn[d].env = "null"
      BY <3>1 DEF Owned, Discarded
    <3>2. ASSUME NEW d \in Conns, NEW g \in Chans, d \in chan[g].trash
          PROVE  d # c /\ d \notin old
      BY <1>4, <3>1, <3>2, Names
    <3>3. QED
      BY <1>9, <1>11, <3>1, <3>2
  <2>3. \A d \in Conns, f, g \in Chans :
          d \in chan'[f].trash /\ d \in chan'[g].trash => f = g
    BY <1>11 DEF Owned, Discarded
  <2>4. QED
    BY <2>1, <2>2, <2>3 DEF Discarded
<1>13. Emptied'
  BY DEF Owned, Emptied, Placing, Live
<1>14. ASSUME NEW d \in Conns, d # c PROVE Steady(d)
  <2>1. CASE d \in old
    BY <1>4, <1>8, <1>11, <2>1, Names DEF Steady
  <2>2. CASE d \notin old
    BY <1>9, <1>11, <1>14, <2>2 DEF Steady
  <2>3. QED
    BY <2>1, <2>2
<1>15. QED
  BY <1>10, <1>12, <1>13, <1>14 DEF Owned

\* crofchan::add_conn(conn): the move from the base, and what it replaces.
LEMMA Moves ==
    ASSUME TypeInv, Owned, NEW c \in Conns, NEW h \in Chans, lost' = lost,
           NEW old \in SUBSET Conns, MovesIn(c, h, old), conn[c].env = "base"
    PROVE  /\ Owned' /\ \A d \in Conns \ {c} : Steady(d)
           /\ Joined(chan'[h], chan[h], c, old) /\ \A g \in Chans \ {h} : chan'[g] = chan[g]
<1>1. /\ old = {chan[h].conns[conn[c].aux]} \ {NoConn} /\ chan[h].life # "none"
      /\ conn \in [Conns -> ConnRec] /\ conn[c].aux \in Aux /\ chan[h] \in ChanRec
  BY DEF MovesIn, TypeInv, ConnRec
<1>2. \A g \in Chans : chan'[g] = IF g = h THEN AddTo(chan[h], c) ELSE chan[g]
  BY DEF MovesIn, TypeInv
<1>3. Joined(chan'[h], chan[h], c, old)
  <2>1. Joined(AddTo(chan[h], c), chan[h], c, old)
    BY <1>1, AddToFields
  <2>2. QED
    BY <1>2, <2>1
<1>4. \A d \in old : /\ conn[d].env = h /\ conn[d].aux = conn[c].aux /\ conn[d].life
                     /\ d \notin lost
  BY <1>1, Names DEF Owned, Placed
<1>5. c \notin old /\ conn[c].life /\ c \notin lost
  BY <1>4, Names DEF Owned, Placed
<1>6. \A d \in Conns :
        /\ conn'[d].life = conn[d].life /\ conn'[d].aux = conn[d].aux
        /\ conn'[d].env = IF d \in old THEN "null" ELSE IF d = c THEN h ELSE conn[d].env
  BY <1>1 DEF MovesIn, ConnRec
<1>7. Placed'
  <2>1. \A d \in Conns : conn'[d].env # "null" => conn'[d].life
    BY <1>5, <1>6 DEF Owned, Placed
  <2>2. \A d \in lost' : conn'[d].env \in Chans
    <3>1. \A d \in lost : d \in Conns /\ d \notin old /\ d # c /\ conn[d].env \in Chans
      BY <1>4, <1>5 DEF Owned, Placed, TypeInv
    <3>2. QED
      BY <1>6, <3>1
  <2>3. ASSUME NEW d \in Conns, NEW g \in Chans, NEW b \in Aux
        PROVE  (chan'[g].conns[b] = d) <=> (conn'[d].env = g /\ conn'[d].aux = b /\ d \notin lost')
    <3>1. (chan[g].conns[b] = d) <=> (conn[d].env = g /\ conn[d].aux = b /\ d \notin lost)
      BY DEF Owned, Placed
    <3>2. /\ g # h => chan'[g].conns[b] = chan[g].conns[b]
          /\ g = h => chan'[g].conns[b] =
                         IF b = conn[c].aux THEN c
                         ELSE IF chan[g].conns[b] \in old THEN NoConn ELSE chan[g].conns[b]
      BY <1>2, <1>3 DEF Joined
    <3>3. /\ conn'[d].aux = conn[d].aux
          /\ conn'[d].env = IF d \in old THEN "null" ELSE IF d = c THEN h ELSE conn[d].env
      BY <1>6
    <3>4. CASE d = c
      BY <1>1, <1>5, <3>1, <3>2, <3>3, <3>4, Names
    <3>5. CASE d # c /\ d \in old
      BY <1>4, <3>1, <3>2, <3>3, <3>5, Names
    <3>6. CASE d # c /\ d \notin old
      <4>1. chan[h].conns[conn[c].aux] # d
        BY <1>1, <3>6, Names
      <4>2. QED
        BY <3>1, <3>2, <3>3, <3>6, <4>1, Names
    <3>7. QED
      BY <3>4, <3>5, <3>6
  <2>4. QED
    BY <2>1, <2>2, <2>3 DEF Placed
<1>8. \A g \in Chans : chan'[g].trash = IF g = h THEN chan[g].trash \cup old ELSE chan[g].trash
  BY <1>2, <1>3 DEF Joined
<1>9. Discarded'
  <2>1. \A d \in Conns : conn'[d].life /\ conn'[d].env = "null" =>
                            \E g \in Chans : d \in chan'[g].trash
    <3>1. ASSUME NEW d \in Conns, conn'[d].life, conn'[d].env = "null"
          PROVE  d \in old \/ (conn[d].life /\ conn[d].env = "null")
      BY <1>6, <3>1, Names
    <3>2. QED
      BY <1>8, <3>1 DEF Owned, Discarded
  <2>2. \A d \in Conns, g \in Chans :
          d \in chan'[g].trash => conn'[d].life /\ conn'[d].env = "null"
    <3>1. ASSUME NEW d \in Conns, NEW g \in Chans, d \in chan[g].trash
          PROVE  conn[d].life /\ conn[d].env = "null"
      BY <3>1 DEF Owned, Discarded
    <3>2. ASSUME NEW d \in Conns, NEW g \in Chans, d \in chan[g].trash
          PROVE  conn'[d].life /\ conn'[d].env = "null"
      <4>1. d # c
        BY <3>1, <3>2
      <4>2. QED
        BY <1>6, <3>1, <3>2, <4>1
    <3>3. \A d \in old : conn'[d].life /\ conn'[d].env = "null"
      BY <1>4, <1>6
    <3>4. QED
      BY <1>8, <3>2, <3>3
  <2>3. \A d \in Conns, f, g \in Chans :
          d \in chan'[f].trash /\ d \in chan'[g].trash => f = g
    <3>1. ASSUME NEW d \in old, NEW g \in Chans PROVE d \notin chan[g].trash
      BY <1>4, Names DEF Owned, Discarded
    <3>2. QED
      BY <1>8, <3>1 DEF Owned, Discarded
  <2>4. QED
    BY <2>1, <2>2, <2>3 DEF Discarded
<1>10. Emptied'
  BY <1>1, <1>2, <1>3 DEF Owned, Emptied, Joined
<1>11. ASSUME NEW d \in Conns, d # c PROVE Steady(d)
  <2>1. CASE d \in old
    BY <1>4, <1>6, <1>8, <2>1, Names DEF Steady
  <2>2. CASE d \notin old
    BY <1>6, <1>8, <1>11, <2>2 DEF Steady
  <2>3. QED
    BY <2>1, <2>2
<1>12. QED
  BY <1>2, <1>3, <1>7, <1>9, <1>10, <1>11 DEF Owned

(***************************************************************************)
(* Part 4.  The threads.  A thread has a place inside a callback only      *)
(* while it delivers one; while it moves a connection from the base, the   *)
(* connection is still the base's; and a thread that has looked a channel  *)
(* up and enters it finds its connection still there, in the deletion set  *)
(* of that channel, or deleted: connections do not change channels.        *)
(***************************************************************************)
Calling ==
    /\ \A c \in Conns : thr[c].stage # "idle" => thr[c].calls # <<>>
    /\ \A c \in Conns : thr[c].stage \in {"has", "add", "put"} => conn[c].env = "base"
    /\ \A c \in Conns : thr[c].stage = "in" =>
                            \/ ~conn[c].life \/ conn[c].env = thr[c].arg
                            \/ c \in chan[thr[c].arg].trash

OwnInv == TypeInv /\ Owned /\ DeletionTimed /\ Calling

\* A step in which only the thread of c moves.
LEMMA CallingKept ==
    ASSUME TypeInv, Calling, NEW c \in Conns,
           \A d \in Conns \ {c} : thr'[d] = thr[d],
           \A d \in Conns \ {c} : thr[d].calls # <<>> => Steady(d),
           /\ thr'[c].stage # "idle" => thr'[c].calls # <<>>
           /\ thr'[c].stage \in {"has", "add", "put"} => conn'[c].env = "base"
           /\ thr'[c].stage = "in" => conn'[c].env = thr'[c].arg
    PROVE  Calling'
<1>1. ASSUME NEW d \in Conns, d # c, thr[d].stage = "in"
      PROVE  \/ ~conn'[d].life \/ conn'[d].env = thr'[d].arg
             \/ d \in chan'[thr'[d].arg].trash
  <2>1. thr[d].arg \in Chans /\ thr'[d] = thr[d] /\ Steady(d)
    BY <1>1 DEF Calling, TypeInv, ThrType
  <2>2. ~conn[d].life \/ conn[d].env = thr[d].arg \/ d \in chan[thr[d].arg].trash
    BY <1>1 DEF Calling
  <2>3. QED
    BY <2>1, <2>2 DEF Steady
<1>2. ASSUME NEW d \in Conns, d # c, thr[d].stage \in {"has", "add", "put"}
      PROVE  conn'[d].env = "base"
  BY <1>2 DEF Calling, Steady
<1>3. ASSUME NEW d \in Conns
      PROVE  /\ thr'[d].stage # "idle" => thr'[d].calls # <<>>
             /\ thr'[d].stage \in {"has", "add", "put"} => conn'[d].env = "base"
             /\ thr'[d].stage = "in" => \/ ~conn'[d].life \/ conn'[d].env = thr'[d].arg
                                        \/ d \in chan'[thr'[d].arg].trash
  <2>1. CASE d = c
    BY <2>1
  <2>2. CASE d # c
    BY <1>1, <1>2, <2>2 DEF Calling
  <2>3. QED
    BY <2>1, <2>2
<1>4. QED
  BY <1>3 DEF Calling

\* Without the threads.
LEMMA CallingQuiet ==
    ASSUME TypeInv, Calling, thr' = thr,
           \A d \in Conns : thr[d].calls # <<>> => Steady(d)
    PROVE  Calling'
<1>1. ASSUME NEW d \in Conns, thr[d].stage = "in"
      PROVE  \/ ~conn'[d].life \/ conn'[d].env = thr[d].arg
             \/ d \in chan'[thr[d].arg].trash
  <2>1. thr[d].arg \in Chans /\ Steady(d)
    BY <1>1 DEF Calling, TypeInv, ThrType
  <2>2. ~conn[d].life \/ conn[d].env = thr[d].arg \/ d \in chan[thr[d].arg].trash
    BY <1>1 DEF Calling
  <2>3. QED
    BY <2>1, <2>2 DEF Steady
<1>2. ASSUME NEW d \in Conns, thr[d].stage \in {"has", "add", "put"}
      PROVE  conn'[d].env = "base"
  BY <1>2 DEF Calling, Steady
<1>3. QED
  BY <1>1, <1>2 DEF Calling

LEMMA DoneIs ==
    ASSUME TypeInv, NEW c \in Conns, Done(c)
    PROVE  thr'[c].stage = "idle" /\ \A d \in Conns \ {c} : thr'[d] = thr[d]
BY DEF Done, Next1, Idle, TypeInv, ThrType

LEMMA GoIs ==
    ASSUME TypeInv, NEW c \in Conns, NEW stage, NEW arg, Go(c, stage, arg)
    PROVE  /\ thr'[c].stage = stage /\ thr'[c].arg = arg /\ thr'[c].calls = thr[c].calls
           /\ \A d \in Conns \ {c} : thr'[d] = thr[d]
<1>1. thr \in [Conns -> ThrRec]
  BY DEF TypeInv, ThrType
<1> DEFINE new == [thr[c] EXCEPT !.stage = stage, !.arg = arg]
<1>2. thr' = [thr EXCEPT ![c] = new]
  BY <1>1 DEF Go
<1>3. new.stage = stage /\ new.arg = arg /\ new.calls = thr[c].calls
  BY <1>1 DEF ThrRec
<1> HIDE DEF new
<1>4. QED
  BY <1>1, <1>2, <1>3

LEMMA InitOwned == Init => OwnInv
<1> SUFFICES ASSUME Init PROVE OwnInv
  OBVIOUS
<1>1. TypeInv
  BY InitTyped
<1>2. \A c \in Conns : conn[c].life = FALSE /\ conn[c].env = "null"
  BY DEF Init, NoObject
<1>3. \A h \in Chans : chan[h] = NoChannel
  BY DEF Init
<1>4. lost = {}
  BY DEF Init
<1>5. Owned
  BY <1>2, <1>3, <1>4, NoChannelFields, Names DEF Owned, Placed, Discarded, Emptied
<1>6. DeletionTimed
  BY <1>3, NoChannelFields DEF DeletionTimed
<1>7. Calling
  BY DEF Init, Idle, Calling
<1>8. QED
  BY <1>1, <1>5, <1>6, <1>7 DEF OwnInv

LEMMA UnusedIs ==
    ASSUME NEW c \in Conns, New(c)
    PROVE  ~conn[c].life /\ thr[c].calls = <<>>
BY DEF New, Unused, Alive, Busy

\* What is common to drop_ctl(), drop_dpt() and handle_closed().
LEMMA DropsOwned ==
    ASSUME OwnInv, NEW h \in Chans, Live(h), lost' = lost,
           conn' = Detached(Members(h)), chan' = Dropped(h),
           timers' = [timers EXCEPT ![chan[h].kind] = TRUE]
    PROVE  Owned' /\ DeletionTimed' /\ \A d \in Conns : Steady(d)
<1> DEFINE C == Members(h)
           new == [Trash(chan[h], C) EXCEPT !.life = "trash"]
<1>1. TypeInv /\ Owned /\ chan[h] \in ChanRec /\ C \in SUBSET Conns
  BY DEF OwnInv, TypeInv, ChanRec, Members
<1>2. \A g \in Chans : chan'[g] = IF g = h THEN new ELSE chan[g]
  BY <1>1 DEF Dropped, TypeInv
<1>3. /\ Trash(chan[h], C) \in ChanRec
      /\ Trash(chan[h], C).kind = chan[h].kind
      /\ Trash(chan[h], C).trash = chan[h].trash \cup C
      /\ Trash(chan[h], C).timer
      /\ \A a \in Aux : Trash(chan[h], C).conns[a] =
                         IF chan[h].conns[a] \in C THEN NoConn ELSE chan[h].conns[a]
  BY <1>1, TrashFields
<1>4. /\ new.life = "trash" /\ new.kind = chan[h].kind
      /\ new.trash = chan[h].trash \cup C /\ new.timer
      /\ \A a \in Aux : new.conns[a] =
                         IF chan[h].conns[a] \in C THEN NoConn ELSE chan[h].conns[a]
  BY <1>1, <1>3 DEF ChanRec
<1> HIDE DEF new
<1>5. \A d \in Conns : /\ conn'[d].life = conn[d].life /\ conn'[d].aux = conn[d].aux
                       /\ conn'[d].env = IF d \in C THEN "null" ELSE conn[d].env
  BY <1>1, DetachedFields DEF TypeInv
<1>6. Owned' /\ \A d \in Conns : Steady(d)
  BY <1>1, <1>2, <1>4, <1>5, Leaves DEF Live
<1>7. DeletionTimed'
  <2>1. timers \in [Kinds -> BOOLEAN] /\ chan[h].kind \in Kinds
    BY <1>1 DEF TypeInv, ChanRec
  <2>2. \A g \in Chans : chan'[g].trash # {} => chan'[g].timer
    BY <1>2, <1>4 DEF OwnInv, DeletionTimed
  <2>3. \A g \in Chans : chan'[g].life = "trash" => timers'[chan'[g].kind]
    <3>1. \A g \in Chans : chan[g].kind \in Kinds /\ chan'[g].kind = chan[g].kind
      BY <1>1, <1>2, <1>4 DEF TypeInv, ChanRec
    <3>2. \A k \in Kinds : timers[k] => timers'[k]
      BY <2>1
    <3>3. timers'[chan[h].kind]
      BY <2>1
    <3>4. QED
      BY <1>2, <3>1, <3>2, <3>3 DEF OwnInv, DeletionTimed
  <2>4. QED
    BY <2>2, <2>3 DEF DeletionTimed
<1>8. QED
  BY <1>6, <1>7

LEMMA CreatesTimed ==
    ASSUME OwnInv, NEW k \in Kinds, NEW i \in Ids, Free # {}, timers' = timers,
           chan' = [chan EXCEPT ![FirstFree] = NewChannel(k, i)]
    PROVE  DeletionTimed'
<1> DEFINE new == NewChannel(k, i)
<1>1. new.life = "live" /\ new.trash = {}
  BY NewChannelFields
<1> HIDE DEF new
<1>2. FirstFree \in Chans
  BY FirstFreeIn DEF Free
<1>3. \A h \in Chans : chan'[h] = IF h = FirstFree THEN new ELSE chan[h]
  BY <1>2 DEF OwnInv, TypeInv, new
<1>4. QED
  BY <1>1, <1>3 DEF OwnInv, DeletionTimed

LEMMA ApplicationOwned ==
    ASSUME OwnInv, Application
    PROVE  Owned' /\ DeletionTimed' /\ Calling'
<1> USE DEF OwnInv
<1>1. ASSUME NEW k \in AppKinds, AddChannel(k)
      PROVE  Owned' /\ DeletionTimed' /\ Calling'
  <2>1. k \in Kinds /\ Free # {} /\ FreeId(k) \in Ids
    BY <1>1, KindsAssumption, RoomIsFree, FreeIdIn DEF Kinds, AddChannel
  <2>2. /\ chan' = [chan EXCEPT ![FirstFree] = NewChannel(k, FreeId(k))]
        /\ conn' = conn /\ thr' = thr /\ timers' = timers /\ lost' = lost
    BY <1>1 DEF AddChannel
  <2>3. Owned' /\ \A d \in Conns : Steady(d)
    BY <2>1, <2>2, Creates
  <2>4. DeletionTimed'
    BY <2>1, <2>2, CreatesTimed
  <2>5. Calling'
    BY <2>2, <2>3, CallingQuiet
  <2>6. QED
    BY <2>3, <2>4, <2>5
<1>2. ASSUME NEW h \in Chans, NEW a \in Aux, NEW c \in Conns, NEW old \in SUBSET Conns,
             old = {chan[h].conns[a]} \ {NoConn}, Live(h), New(c),
             \/ conn' = [Deleted(old) EXCEPT ![c] = Connecting(h, a)] /\ lost' = lost
             \/ conn' = [conn EXCEPT ![c] = Connecting(h, a)] /\ lost' = lost \cup old,
             Placing(h, a, c), thr' = thr, timers' = timers
      PROVE  Owned' /\ DeletionTimed' /\ Calling'
  <2>1. ~conn[c].life /\ thr[c].calls = <<>>
    BY <1>2, UnusedIs
  <2>2. Owned' /\ \A d \in Conns \ {c} : Steady(d)
    BY <1>2, <2>1, Connects
  <2>3. DeletionTimed'
    BY <1>2 DEF Placing, DeletionTimed
  <2>4. Calling'
    BY <1>2, <2>1, <2>2, CallingQuiet
  <2>5. QED
    BY <2>2, <2>3, <2>4
<1>3. ASSUME NEW h \in Chans, NEW a \in Aux, NEW c \in Conns, AddConn(h, a, c)
      PROVE  Owned' /\ DeletionTimed' /\ Calling'
  <2> DEFINE old == {chan[h].conns[a]} \ {NoConn}
  <2>1. old \in SUBSET Conns
    BY DEF TypeInv, ChanRec
  <2>2. /\ conn' = [Deleted(old) EXCEPT ![c] = Connecting(h, a)]
        /\ chan' = [chan EXCEPT ![h].conns[a] = c]
        /\ thr' = thr /\ timers' = timers /\ lost' = lost /\ Live(h) /\ New(c)
    BY <1>3 DEF AddConn
  <2>3. Placing(h, a, c)
    BY <2>2, PlacingHolds
  <2>4. QED
    BY <1>2, <2>1, <2>2, <2>3
<1>4. ASSUME NEW h \in Chans, NEW c \in Conns, AddConnNext(h, c)
      PROVE  Owned' /\ DeletionTimed' /\ Calling'
  <2>1. PICK a \in Aux : /\ conn' = [conn EXCEPT ![c] = Connecting(h, a)]
                         /\ Placing(h, a, c)
                         /\ lost' = lost \cup ({chan[h].conns[a]} \ {NoConn})
    BY <1>4, NextAuxIn
  <2> DEFINE old == {chan[h].conns[a]} \ {NoConn}
  <2>2. old \in SUBSET Conns /\ lost' = lost \cup old
    BY <2>1 DEF TypeInv, ChanRec
  <2>3. thr' = thr /\ timers' = timers /\ Live(h) /\ New(c)
    BY <1>4 DEF AddConnNext
  <2>4. QED
    BY <1>2, <2>1, <2>2, <2>3
<1>5. ASSUME NEW h \in Chans, NEW a \in Aux, DropConn(h, a)
      PROVE  Owned' /\ DeletionTimed' /\ Calling'
  <2> DEFINE C == IF a = 0 THEN Members(h) ELSE {chan[h].conns[a]}
  <2>1. C \in SUBSET Conns /\ C \subseteq Members(h)
    BY <1>5 DEF DropConn, Members, TypeInv, ChanRec
  <2>2. /\ conn' = Detached(C) /\ chan' = [chan EXCEPT ![h] = Trash(@, C)]
        /\ thr' = thr /\ timers' = timers /\ lost' = lost /\ Live(h)
    BY <1>5 DEF DropConn
  <2> HIDE DEF C
  <2>3. \A d \in Conns : /\ conn'[d].life = conn[d].life /\ conn'[d].aux = conn[d].aux
                         /\ conn'[d].env = IF d \in C THEN "null" ELSE conn[d].env
    BY <2>1, <2>2, DetachedFields DEF TypeInv
  <2>4. chan[h] \in ChanRec
    BY DEF TypeInv
  <2> DEFINE new == Trash(chan[h], C)
  <2>5. \A g \in Chans : chan'[g] = IF g = h THEN new ELSE chan[g]
    BY <2>2 DEF TypeInv
  <2>6. /\ new.life = chan[h].life /\ new.kind = chan[h].kind
        /\ new.trash = chan[h].trash \cup C /\ new.timer
        /\ \A b \in Aux : new.conns[b] = IF chan[h].conns[b] \in C THEN NoConn ELSE chan[h].conns[b]
    BY <2>1, <2>4, TrashFields
  <2> HIDE DEF new
  <2>7. Owned' /\ \A d \in Conns : Steady(d)
    BY <2>1, <2>2, <2>3, <2>5, <2>6, Leaves DEF Live
  <2>8. DeletionTimed'
    BY <2>2, <2>5, <2>6 DEF DeletionTimed
  <2>9. Calling'
    BY <2>2, <2>7, CallingQuiet
  <2>10. QED
    BY <2>7, <2>8, <2>9
<1>6. ASSUME NEW h \in Chans, DropChannel(h)
      PROVE  Owned' /\ DeletionTimed' /\ Calling'
  <2>1. /\ thr' = thr /\ Live(h) /\ lost' = lost
        /\ conn' = Detached(Members(h)) /\ chan' = Dropped(h)
        /\ timers' = [timers EXCEPT ![chan[h].kind] = TRUE]
    BY <1>6 DEF DropChannel
  <2>2. Owned' /\ DeletionTimed' /\ \A d \in Conns : Steady(d)
    BY <2>1, DropsOwned
  <2>3. QED
    BY <2>1, <2>2, CallingQuiet
<1>7. QED
  BY <1>1, <1>3, <1>4, <1>5, <1>6 DEF Application

LEMMA PeersOwned ==
    ASSUME OwnInv, Peers
    PROVE  Owned' /\ DeletionTimed' /\ Calling'
<1> USE DEF OwnInv
<1>1. ASSUME NEW c \in Conns, NEW k \in PassiveKinds, NEW a \in Aux, Accept(c, k, a)
      PROVE  Owned' /\ DeletionTimed' /\ Calling'
  <2> DEFINE new == [life |-> TRUE, env |-> "base", aux |-> a,
                     state |-> "pending", kind |-> k, passive |-> TRUE]
  <2>1. /\ conn' = [conn EXCEPT ![c] = new] /\ New(c)
        /\ UNCHANGED <<chan, thr, timers, lost>>
    BY <1>1 DEF Accept
  <2>2. new.life = TRUE /\ new.env = "base"
    OBVIOUS
  <2> HIDE DEF new
  <2>3. \A d \in Conns : conn'[d] = IF d = c THEN new ELSE conn[d]
    BY <2>1 DEF TypeInv
  <2>4. ~conn[c].life /\ thr[c].calls = <<>>
    BY <2>1, UnusedIs
  <2>5. conn[c].env = "null" /\ c \notin lost /\ lost \subseteq Conns
    BY <2>4, Names DEF Owned, Placed, TypeInv
  <2>6. Placed'
    BY <2>1, <2>2, <2>3, <2>4, <2>5, Names DEF Owned, Placed
  <2>7. Discarded'
    BY <2>1, <2>2, <2>3, <2>4 DEF Owned, Discarded
  <2>8. Emptied' /\ DeletionTimed'
    BY <2>1 DEF Owned, Emptied, DeletionTimed
  <2>9. \A d \in Conns : thr[d].calls # <<>> => Steady(d)
    BY <2>1, <2>3, <2>4 DEF Steady
  <2>10. Calling'
    BY <2>1, <2>9, CallingQuiet
  <2>11. QED
    BY <2>6, <2>7, <2>8, <2>10 DEF Owned
<1>2. ASSUME NEW c \in Conns, Established(c) \/ Closed(c) \/ Failed(c) \/ Reconnect(c)
      PROVE  Owned' /\ DeletionTimed' /\ Calling'
  <2>1. PICK state \in {"pending", "up", "down"},
             calls \in {<<>>, <<"established">>, <<"closed">>, <<"accept_failed">>,
                       <<"negotiation_failed", "closed">>} : Event(c, state, calls)
    BY <1>2 DEF Established, Closed, Failed, Failures, Reconnect
  <2>2. /\ conn' = [conn EXCEPT ![c].state = state] /\ ~Busy(c)
        /\ UNCHANGED <<chan, timers, lost>>
        /\ \A d \in Conns \ {c} : thr'[d] = thr[d]
        /\ thr'[c].stage = thr[c].stage
    BY <2>1 DEF Event, TypeInv, ThrType, ThrRec
  <2>3. \A d \in Conns : /\ conn'[d].life = conn[d].life /\ conn'[d].env = conn[d].env
                         /\ conn'[d].aux = conn[d].aux
    BY <2>2 DEF TypeInv, ConnRec
  <2>4. Owned' /\ \A d \in Conns : Steady(d)
    BY <2>2, <2>3, NothingMoves
  <2>5. DeletionTimed'
    BY <2>2 DEF DeletionTimed
  <2>6. thr'[c].stage = "idle"
    BY <2>2 DEF Calling, Busy
  <2>7. Calling'
    BY <2>2, <2>4, <2>6, CallingKept
  <2>8. QED
    BY <2>4, <2>5, <2>7
<1>3. QED
  BY <1>1, <1>2 DEF Peers

LEMMA TimeoutsOwned ==
    ASSUME OwnInv, Timeouts
    PROVE  Owned' /\ DeletionTimed' /\ Calling'
<1> USE DEF OwnInv
<1>1. ASSUME NEW h \in Chans, DropConnsDeletion(h)
      PROVE  Owned' /\ DeletionTimed' /\ Calling'
  <2> DEFINE C == chan[h].trash
             new == [chan[h] EXCEPT !.timer = FALSE, !.trash = {}]
  <2>1. chan[h] \in ChanRec /\ C \in SUBSET Conns
    BY DEF TypeInv, ChanRec
  <2>2. /\ chan' = [chan EXCEPT ![h] = new] /\ conn' = Deleted(C)
        /\ thr' = thr /\ timers' = timers /\ lost' = lost
    BY <1>1 DEF DropConnsDeletion, TypeInv
  <2>3. /\ new.life = chan[h].life /\ new.conns = chan[h].conns /\ new.trash = {}
        /\ new.kind = chan[h].kind
    BY <2>1 DEF ChanRec
  <2> HIDE DEF new
  <2>4. \A g \in Chans : chan'[g] = IF g = h THEN new ELSE chan[g]
    BY <2>2 DEF TypeInv
  <2>5. Owned' /\ \A d \in Conns : Steady(d)
    <3> DEFINE G == {}
               H == {h}
    <3>1. \A c \in Conns : (c \in C) <=> \/ \E g \in H : c \in chan[g].trash
                                         \/ \E g \in G : c \in Members(g)
      OBVIOUS
    <3>2. H \in SUBSET Chans /\ G \in SUBSET H
      OBVIOUS
    <3>3. /\ \A g \in Chans : chan'[g].trash = IF g \in H THEN {} ELSE chan[g].trash
          /\ \A g \in Chans, a \in Aux : chan'[g].conns[a] =
                                           IF g \in G THEN NoConn ELSE chan[g].conns[a]
          /\ \A g \in Chans : g \in G \/ chan'[g].life = chan[g].life
      BY <2>3, <2>4
    <3> HIDE DEF C, G, H
    <3>4. QED
      BY <2>1, <2>2, <3>1, <3>2, <3>3, Deletes
  <2>6. DeletionTimed'
    BY <2>2, <2>3, <2>4 DEF DeletionTimed
  <2>7. Calling'
    BY <2>2, <2>5, CallingQuiet
  <2>8. QED
    BY <2>5, <2>6, <2>7
<1>2. ASSUME NEW k \in Kinds, DropChannelsDeletion(k)
      PROVE  Owned' /\ DeletionTimed' /\ Calling'
  <2> DEFINE H == {h \in Chans : chan[h].life = "trash" /\ chan[h].kind = k}
             C == UNION {chan[h].trash \cup Members(h) : h \in H}
  <2>1. C \in SUBSET Conns
    BY DEF TypeInv, ChanRec, Members
  <2>2. /\ timers' = [timers EXCEPT ![k] = FALSE]
        /\ chan' = [h \in Chans |-> IF h \in H THEN NoChannel ELSE chan[h]]
        /\ conn' = Deleted(C) /\ thr' = thr /\ lost' = lost
    BY <1>2 DEF DropChannelsDeletion
  <2>3. \A c \in Conns : (c \in C) <=> \/ \E h \in H : c \in chan[h].trash
                                       \/ \E h \in H : c \in Members(h)
    OBVIOUS
  <2>4. H \in SUBSET Chans /\ H \in SUBSET H
    OBVIOUS
  <2>5. \A h \in Chans \ H : chan[h].life = "trash" => chan[h].kind # k
    OBVIOUS
  <2> HIDE DEF H, C
  <2>6. \A h \in Chans : chan'[h] = IF h \in H THEN NoChannel ELSE chan[h]
    BY <2>2
  <2>7. \A h \in Chans, a \in Aux : chan'[h].conns[a] =
                                      IF h \in H THEN NoConn ELSE chan[h].conns[a]
    BY <2>6, NoChannelFields
  <2>8. \A h \in Chans : /\ chan'[h].trash = IF h \in H THEN {} ELSE chan[h].trash
                         /\ h \in H \/ chan'[h].life = chan[h].life
    BY <2>6, NoChannelFields
  <2>9. Owned' /\ \A d \in Conns : Steady(d)
    BY <2>1, <2>2, <2>3, <2>4, <2>7, <2>8, Deletes
  <2>10. DeletionTimed'
    <3>1. \A h \in Chans : chan'[h].trash # {} => chan'[h].timer
      BY <2>6, NoChannelFields DEF DeletionTimed
    <3>2. \A h \in Chans : chan'[h].life = "trash" =>
                             chan'[h] = chan[h] /\ chan[h].kind # k /\ chan[h].kind \in Kinds
      BY <2>5, <2>6, NoChannelFields DEF TypeInv, ChanRec
    <3>3. \A j \in Kinds : j # k => timers'[j] = timers[j]
      BY <2>2 DEF TypeInv
    <3>4. \A h \in Chans : chan'[h].life = "trash" => timers'[chan'[h].kind]
      BY <3>2, <3>3 DEF DeletionTimed
    <3>5. QED
      BY <3>1, <3>4 DEF DeletionTimed
  <2>11. Calling'
    BY <2>2, <2>9, CallingQuiet
  <2>12. QED
    BY <2>9, <2>10, <2>11
<1>3. QED
  BY <1>1, <1>2 DEF Timeouts

\* The end of a callback that moves nothing.
LEMMA DoneOwned ==
    ASSUME OwnInv, NEW c \in Conns, Done(c), UNCHANGED <<conn, chan, timers, lost>>
    PROVE  Owned' /\ DeletionTimed' /\ Calling'
<1>1. Owned' /\ \A d \in Conns : Steady(d)
  BY NothingMoves DEF OwnInv
<1>2. DeletionTimed'
  BY DEF OwnInv, DeletionTimed
<1>3. Calling'
  BY <1>1, DoneIs, CallingKept DEF OwnInv
<1>4. QED
  BY <1>1, <1>2, <1>3

LEMMA BaseOwned ==
    ASSUME OwnInv, NEW c \in Conns,
           \/ NoEnv(c) \/ Vanished(c) \/ BaseDeletes(c) \/ BaseLooksUp(c)
           \/ BaseFindsDpt(c) \/ BaseSets(c) \/ BaseAdds(c) \/ BaseTells(c)
    PROVE  Owned' /\ DeletionTimed' /\ Calling'
<1> USE DEF OwnInv
<1>1. CASE NoEnv(c) \/ Vanished(c)
  BY <1>1, DoneOwned DEF NoEnv, Vanished
<1>2. CASE BaseDeletes(c)
  <2>1. Done(c) /\ conn' = Deleted({c}) /\ UNCHANGED <<chan, timers, lost>> /\ conn[c].env = "base"
    BY <1>2 DEF BaseDeletes
  <2>2. \A d \in Conns : conn'[d] = IF d = c THEN NoObject ELSE conn[d]
    BY <2>1, DeletedFields DEF TypeInv
  <2>3. NoObject.env = "null" /\ NoObject.life = FALSE
    BY DEF NoObject
  <2>4. Placed'
    <3>1. \A d \in Conns : conn'[d].env # "null" => conn'[d].life
      BY <2>2, <2>3 DEF Owned, Placed
    <3>2. \A d \in lost' : conn'[d].env \in Chans
      <4>1. \A d \in lost : d \in Conns /\ conn[d].env \in Chans
        BY DEF Owned, Placed, TypeInv
      <4>2. c \notin lost
        BY <2>1, <4>1, Names
      <4>3. QED
        BY <2>1, <2>2, <4>1, <4>2
    <3>3. ASSUME NEW d \in Conns, NEW h \in Chans, NEW a \in Aux
          PROVE  (chan'[h].conns[a] = d) <=> (conn'[d].env = h /\ conn'[d].aux = a /\ d \notin lost')
      <4>1. (chan'[h].conns[a] = d) <=> (conn[d].env = h /\ conn[d].aux = a /\ d \notin lost')
        BY <2>1 DEF Owned, Placed
      <4>2. CASE d = c
        BY <2>1, <2>2, <2>3, <4>1, <4>2, Names
      <4>3. CASE d # c
        BY <2>2, <4>1, <4>3
      <4>4. QED
        BY <4>2, <4>3
    <3>4. QED
      BY <3>1, <3>2, <3>3 DEF Placed
  <2>5. Discarded'
    <3>1. \A h \in Chans : c \notin chan[h].trash
      BY <2>1 DEF Owned, Discarded
    <3>2. QED
      BY <2>1, <2>2, <2>3, <3>1 DEF Owned, Discarded
  <2>6. Emptied' /\ DeletionTimed'
    BY <2>1 DEF Owned, Emptied, DeletionTimed
  <2>7. \A d \in Conns \ {c} : Steady(d)
    BY <2>1, <2>2 DEF Steady
  <2>8. Calling'
    BY <2>1, <2>7, DoneIs, CallingKept
  <2>9. QED
    BY <2>4, <2>5, <2>6, <2>8 DEF Owned
<1>3. ASSUME NEW k \in Kinds, NEW i \in Ids, Free # {},
             NEW stage \in {"add", "put"}, NEW arg,
             \/ Go(c, stage, arg) /\ conn[c].env = "base" /\ Busy(c)
             \/ Done(c),
             conn' = conn, timers' = timers, lost' = lost,
             chan' = [chan EXCEPT ![FirstFree] = NewChannel(k, i)]
      PROVE  Owned' /\ DeletionTimed' /\ Calling'
  <2>1. Owned' /\ \A d \in Conns : Steady(d)
    BY <1>3, Creates
  <2>2. DeletionTimed'
    BY <1>3, CreatesTimed
  <2>3. Calling'
    <3>1. CASE Go(c, stage, arg) /\ conn[c].env = "base" /\ Busy(c)
      BY <1>3, <2>1, <3>1, GoIs, CallingKept DEF Busy
    <3>2. CASE Done(c)
      BY <2>1, <3>2, DoneIs, CallingKept
    <3>3. QED
      BY <1>3, <3>1, <3>2
  <2>4. QED
    BY <2>1, <2>2, <2>3
<1>4. ASSUME NEW stage \in {"has", "add", "put"}, NEW arg, Go(c, stage, arg), Busy(c),
             UNCHANGED <<conn, chan, timers, lost>>, conn[c].env = "base"
      PROVE  Owned' /\ DeletionTimed' /\ Calling'
  <2>1. Owned' /\ \A d \in Conns : Steady(d)
    BY <1>4, NothingMoves
  <2>2. DeletionTimed'
    BY <1>4 DEF DeletionTimed
  <2>3. Calling'
    BY <1>4, <2>1, GoIs, CallingKept DEF Busy
  <2>4. QED
    BY <2>1, <2>2, <2>3
<1>5. CASE BaseLooksUp(c)
  <2>1. conn[c].env = "base" /\ Busy(c) /\ UNCHANGED <<conn, timers, lost>>
    BY <1>5 DEF BaseLooksUp, At
  <2>2. CASE conn[c].kind = "ctl"
    <3>1. "ctl" \in Kinds /\ Free # {} /\ FreeId("ctl") \in Ids
      BY <1>5, <2>2, FreeIdIn DEF Kinds, BaseLooksUp
    <3>2. QED
      BY <1>3, <1>5, <2>1, <2>2, <3>1 DEF BaseLooksUp
  <2>3. CASE conn[c].kind # "ctl"
    BY <1>4, <1>5, <2>1, <2>3 DEF BaseLooksUp
  <2>4. QED
    BY <2>2, <2>3
<1>6. CASE BaseFindsDpt(c)
  <2>1. conn[c].env = "base" /\ Busy(c) /\ UNCHANGED <<conn, timers, lost>>
    BY <1>6 DEF BaseFindsDpt, At, Calling
  <2>2. CASE thr[c].arg = 0 \/ OfDatapath = {}
    <3>1. "dpt" \in Kinds /\ Free # {} /\ FreeId("dpt") \in Ids
      BY <1>6, <2>2, FreeIdIn DEF Kinds, BaseFindsDpt
    <3>2. QED
      BY <1>3, <1>6, <2>1, <2>2, <3>1 DEF BaseFindsDpt
  <2>3. CASE ~(thr[c].arg = 0 \/ OfDatapath = {})
    BY <1>4, <1>6, <2>1, <2>3 DEF BaseFindsDpt
  <2>4. QED
    BY <2>2, <2>3
<1>7. CASE BaseSets(c)
  <2> DEFINE k == conn[c].kind
  <2>1. /\ conn[c].env = "base" /\ Busy(c) /\ UNCHANGED <<conn, timers, lost>>
        /\ k \in Kinds /\ Target(c) \in Ids
    BY <1>7 DEF BaseSets, At, Calling, Target, TypeInv, ConnRec, ThrType
  <2>2. CASE WithId(k, Target(c)) # {}
    BY <1>4, <1>7, <2>1, <2>2 DEF BaseSets, SetChannel
  <2>3. CASE WithId(k, Target(c)) = {}
    <3>1. /\ Free # {} /\ chan' = [chan EXCEPT ![FirstFree] = NewChannel(k, Target(c))]
          /\ Go(c, "put", FirstFree)
      BY <1>7, <2>3 DEF BaseSets, SetChannel
    <3> HIDE DEF k
    <3>2. QED
      BY <1>3, <2>1, <3>1
  <2>4. QED
    BY <2>2, <2>3
<1>8. CASE BaseTells(c)
  <2> DEFINE k == conn[c].kind
  <2>1. /\ Done(c) /\ UNCHANGED <<conn, timers, lost>>
        /\ k \in Kinds /\ Target(c) \in Ids
    BY <1>8 DEF BaseTells, At, Target, TypeInv, ConnRec, ThrType
  <2>2. CASE WithId(k, Target(c)) # {}
    BY <1>8, <2>1, <2>2, DoneOwned DEF BaseTells
  <2>3. CASE WithId(k, Target(c)) = {}
    <3>1. Free # {} /\ chan' = [chan EXCEPT ![FirstFree] = NewChannel(k, Target(c))]
      BY <1>8, <2>3 DEF BaseTells
    <3> HIDE DEF k
    <3>2. QED
      BY <1>3, <2>1, <3>1
  <2>4. QED
    BY <2>2, <2>3
<1>9. CASE BaseAdds(c)
  <2> DEFINE h == Target(c)
  <2>1. h \in Chans
    BY <1>9, MovesInHolds
  <2>2. PICK old \in SUBSET Conns : MovesIn(c, h, old)
    BY <1>9, MovesInHolds
  <2>3. /\ conn[c].env = "base" /\ Go(c, "tell", chan[h].id) /\ Busy(c)
        /\ timers' = timers /\ lost' = lost
    BY <1>9 DEF BaseAdds, At, Calling
  <2> HIDE DEF h
  <2>4. /\ Owned' /\ \A d \in Conns \ {c} : Steady(d)
        /\ Joined(chan'[h], chan[h], c, old) /\ \A g \in Chans \ {h} : chan'[g] = chan[g]
    BY <2>1, <2>2, <2>3, Moves
  <2>5. Calling'
    BY <2>3, <2>4, GoIs, CallingKept DEF Busy
  <2>6. DeletionTimed'
    <3>1. /\ chan'[h].life = chan[h].life /\ chan'[h].kind = chan[h].kind
          /\ chan'[h].trash = chan[h].trash \cup old
          /\ (old # {} \/ chan[h].timer) => chan'[h].timer
      BY <2>4 DEF Joined
    <3>2. \A g \in Chans : chan'[g].trash # {} => chan'[g].timer
      BY <2>4, <3>1 DEF DeletionTimed
    <3>3. \A g \in Chans : chan'[g].life = "trash" => timers'[chan'[g].kind]
      BY <2>3, <2>4, <3>1 DEF DeletionTimed
    <3>4. QED
      BY <3>2, <3>3 DEF DeletionTimed
  <2>7. QED
    BY <2>4, <2>5, <2>6
<1>10. QED
  BY <1>1, <1>2, <1>5, <1>6, <1>7, <1>8, <1>9

LEMMA ChannelOwned ==
    ASSUME OwnInv, NEW c \in Conns,
           ChannelPasses(c) \/ ChannelEnter(c) \/ AuxClosed(c) \/ MainClosed(c) \/ EnvClosed(c)
    PROVE  Owned' /\ DeletionTimed' /\ Calling'
<1> USE DEF OwnInv
<1>1. CASE ChannelPasses(c)
  BY <1>1, DoneOwned DEF ChannelPasses
<1>2. CASE ChannelEnter(c)
  <2>1. Go(c, "in", conn[c].env) /\ Busy(c) /\ UNCHANGED <<conn, chan, timers, lost>>
    BY <1>2 DEF ChannelEnter, At
  <2>2. Owned' /\ \A d \in Conns : Steady(d)
    BY <2>1, NothingMoves
  <2>3. DeletionTimed'
    BY <2>1 DEF DeletionTimed
  <2>4. /\ thr'[c].stage = "in" /\ thr'[c].arg = conn[c].env /\ thr'[c].calls = thr[c].calls
        /\ \A d \in Conns \ {c} : thr'[d] = thr[d]
    BY <2>1, GoIs
  <2>5. Calling'
    BY <2>1, <2>2, <2>4, CallingKept DEF Busy
  <2>6. QED
    BY <2>2, <2>3, <2>5
<1>3. CASE AuxClosed(c)
  <2> DEFINE h == Target(c)
             a == conn[c].aux
             x == chan[h].conns[a]
  <2>1. /\ h \in Chans /\ a \in Aux /\ chan[h] \in ChanRec /\ conn[c].life
        /\ conn[c].env = h \/ c \in chan[h].trash
        /\ Done(c) /\ timers' = timers /\ chan[h].life # "none"
    BY <1>3 DEF AuxClosed, Executes, Alive, At, Target, TypeInv, ThrType, ConnRec, Calling
  <2>2. CASE x = NoConn
    BY <1>3, <2>1, <2>2, DoneOwned DEF AuxClosed
  <2>3. CASE x # NoConn
    <3>1. PICK ch \in ChanRec : Erased(c, h, ch)
      BY <1>3, <2>1, <2>3, ErasedHolds
    <3>2. conn' = [conn EXCEPT ![c].env = "null"] /\ lost' = (lost \cup {x}) \ {c}
      BY <1>3, <2>3 DEF AuxClosed
    <3>3. \A d \in Conns : /\ conn'[d].life = conn[d].life /\ conn'[d].aux = conn[d].aux
                           /\ conn'[d].env = IF d = c THEN "null" ELSE conn[d].env
      BY <3>2 DEF TypeInv, ConnRec
    <3>4. \A g \in Chans : chan'[g] = IF g = h THEN ch ELSE chan[g]
      BY <3>1 DEF Erased, TypeInv
    <3>5. /\ ch.life = chan[h].life /\ ch.kind = chan[h].kind
          /\ ch.trash = chan[h].trash \cup {c} /\ ch.timer
          /\ \A b \in Aux : ch.conns[b] = IF b = a THEN NoConn ELSE chan[h].conns[b]
      BY <3>1 DEF Erased
    <3>6. x \in Conns
      BY <2>1, <2>3 DEF ChanRec
    <3> HIDE DEF h, a
    <3>7. Owned' /\ \A d \in Conns : Steady(d)
      <4>1. conn[c].aux = a
        BY DEF a
      <4>2. /\ \A g \in Chans \ {h} : chan'[g] = chan[g]
            /\ chan'[h].life = chan[h].life /\ chan'[h].trash = chan[h].trash \cup {c}
            /\ \A b \in Aux : chan'[h].conns[b] = IF b = a THEN NoConn ELSE chan[h].conns[b]
        BY <2>1, <3>4, <3>5
      <4>3. QED
        BY <2>1, <3>2, <3>3, <3>6, <4>1, <4>2, Erases
    <3>8. DeletionTimed'
      BY <2>1, <3>4, <3>5 DEF DeletionTimed
    <3>9. Calling'
      BY <2>1, <3>7, DoneIs, CallingKept
    <3>10. QED
      BY <3>7, <3>8, <3>9
  <2>4. QED
    BY <2>2, <2>3
<1>4. CASE MainClosed(c)
  <2> DEFINE h == Target(c)
             others == Members(h) \ {chan[h].conns[0]}
             passive == {d \in Members(h) : conn[d].passive}
  <2>1. /\ h \in Chans /\ chan[h] \in ChanRec /\ Busy(c)
        /\ timers' = timers /\ lost' = lost /\ chan[h].life # "none"
    BY <1>4 DEF Target, MainClosed, Executes, At, TypeInv, ThrType
  <2>2. CASE \E d \in others : conn[d].passive
    <3>1. /\ chan' = [chan EXCEPT ![h].stuck = TRUE] /\ Go(c, "stuck", h) /\ conn' = conn
      BY <1>4, <2>2 DEF MainClosed
    <3> HIDE DEF h
    <3>2. \A g \in Chans : /\ chan'[g].life = chan[g].life /\ chan'[g].trash = chan[g].trash
                           /\ chan'[g].conns = chan[g].conns /\ chan'[g].timer = chan[g].timer
                           /\ chan'[g].kind = chan[g].kind
      BY <3>1 DEF TypeInv, ChanRec
    <3>3. Owned' /\ \A d \in Conns : Steady(d)
      BY <2>1, <3>1, <3>2, NothingMoves
    <3>4. DeletionTimed'
      BY <2>1, <3>2 DEF DeletionTimed
    <3>5. Calling'
      BY <2>1, <3>1, <3>3, GoIs, CallingKept DEF Busy
    <3>6. QED
      BY <3>3, <3>4, <3>5
  <2>3. CASE ~\E d \in others : conn[d].passive
    <3>1. /\ chan' = [chan EXCEPT ![h] = IF passive = {} THEN @ ELSE Trash(@, passive)]
          /\ conn' = [d \in Conns |->
                         IF d \in passive THEN [conn[d] EXCEPT !.env = "null"]
                         ELSE IF d \in others THEN [conn[d] EXCEPT !.state = "down"]
                         ELSE conn[d]]
          /\ Go(c, "env", h)
      BY <1>4, <2>3 DEF MainClosed
    <3>2. passive \in SUBSET Conns /\ passive \subseteq Members(h)
      BY <2>1 DEF Members, TypeInv, ChanRec
    <3> DEFINE new == IF passive = {} THEN chan[h] ELSE Trash(chan[h], passive)
    <3>3. \A g \in Chans : chan'[g] = IF g = h THEN new ELSE chan[g]
      BY <3>1 DEF TypeInv
    <3> HIDE DEF h, passive, others
    <3>4. /\ new.life = chan[h].life /\ new.kind = chan[h].kind
          /\ new.trash = chan[h].trash \cup passive
          /\ (passive # {} \/ chan[h].timer) => new.timer
          /\ \A b \in Aux : new.conns[b] =
                             IF chan[h].conns[b] \in passive THEN NoConn ELSE chan[h].conns[b]
      <4>1. CASE passive = {}
        BY <4>1
      <4>2. CASE passive # {}
        BY <2>1, <3>2, <4>2, TrashFields
      <4>3. QED
        BY <4>1, <4>2
    <3> HIDE DEF new
    <3>5. \A d \in Conns : /\ conn'[d].life = conn[d].life /\ conn'[d].aux = conn[d].aux
                           /\ conn'[d].env = IF d \in passive THEN "null" ELSE conn[d].env
      BY <3>1 DEF TypeInv, ConnRec
    <3>6. Owned' /\ \A d \in Conns : Steady(d)
      BY <2>1, <3>2, <3>3, <3>4, <3>5, Leaves
    <3>7. DeletionTimed'
      BY <2>1, <3>3, <3>4 DEF DeletionTimed
    <3>8. Calling'
      BY <2>1, <3>1, <3>6, GoIs, CallingKept DEF Busy
    <3>9. QED
      BY <3>6, <3>7, <3>8
  <2>4. QED
    BY <2>2, <2>3
<1>5. CASE EnvClosed(c)
  <2> DEFINE h == Target(c)
  <2>1. Done(c) /\ h \in Chans /\ lost' = lost
    BY <1>5 DEF EnvClosed, At, Target, TypeInv, ThrType
  <2>2. CASE Live(h) /\ chan[h].kind = "dpt"
    <3>1. /\ conn' = Detached(Members(h)) /\ chan' = Dropped(h)
          /\ timers' = [timers EXCEPT ![chan[h].kind] = TRUE]
      BY <1>5, <2>2 DEF EnvClosed
    <3>2. Owned' /\ DeletionTimed' /\ \A d \in Conns : Steady(d)
      BY <2>1, <2>2, <3>1, DropsOwned
    <3>3. Calling'
      BY <2>1, <3>2, DoneIs, CallingKept
    <3>4. QED
      BY <3>2, <3>3
  <2>3. CASE ~(Live(h) /\ chan[h].kind = "dpt")
    BY <1>5, <2>1, <2>3, DoneOwned DEF EnvClosed
  <2>4. QED
    BY <2>2, <2>3
<1>6. QED
  BY <1>1, <1>2, <1>3, <1>4, <1>5

LEMMA NextOwned == OwnInv /\ [Next]_vars => OwnInv'
<1> SUFFICES ASSUME OwnInv, [Next]_vars PROVE OwnInv'
  OBVIOUS
<1>1. TypeInv'
  BY NextTyped DEF OwnInv
<1>2. Owned' /\ DeletionTimed' /\ Calling'
  <2>1. CASE UNCHANGED vars
    BY <2>1 DEF vars, OwnInv, Owned, Placed, Discarded, Emptied, DeletionTimed, Calling
  <2>2. ASSUME NEW c \in Conns, Deliver(c) PROVE Owned' /\ DeletionTimed' /\ Calling'
    BY <2>2, BaseOwned, ChannelOwned DEF Deliver
  <2>3. QED
    BY <2>1, <2>2, ApplicationOwned, PeersOwned, TimeoutsOwned DEF Next
<1>3. QED
  BY <1>1, <1>2 DEF OwnInv

\* One owner: the environment of a connection decides which.
LEMMA OneOwner ==
    ASSUME TypeInv, Owned
    PROVE  OwnedOnce
<1> SUFFICES ASSUME NEW c \in Conns
             PROVE  /\ Cardinality(Owners(c)) = (IF Alive(c) /\ c \notin lost THEN 1 ELSE 0)
                    /\ \A h \in Chans : (c \in Members(h)) <=>
                                            (Alive(c) /\ conn[c].env = h /\ c \notin lost)
  BY DEF OwnedOnce
<1>1. conn[c].aux \in Aux /\ conn[c].env \in {"null", "base"} \cup Chans
  BY DEF TypeInv, ConnRec
<1>2. \A h \in Chans : (c \in Members(h)) <=> (Alive(c) /\ conn[c].env = h /\ c \notin lost)
  BY MemberIs, Names DEF Owned, Placed, Alive
<1> DEFINE Base == {e \in {"base"} : conn[c].env = e}
           Place == {p \in Chans \X Aux : chan[p[1]].conns[p[2]] = c}
           Sets == {h \in Chans : c \in chan[h].trash}
<1>3. Owners(c) = Base \cup Place \cup Sets
  BY DEF Owners
<1>4. CASE ~(Alive(c) /\ c \notin lost)
  <2>1. conn[c].env = "null" \/ (c \in lost /\ conn[c].env \in Chans)
    BY <1>4 DEF Alive, Owned, Placed
  <2>2. Base = {} /\ Sets = {}
    BY <1>4, <2>1, Names DEF Alive, Owned, Placed, Discarded
  <2>3. Place = {}
    BY <2>1, Names DEF Owned, Placed
  <2>4. Owners(c) = {}
    BY <1>3, <2>2, <2>3
  <2>5. QED
    BY <1>2, <1>4, <2>4, FS_EmptySet
<1>5. CASE Alive(c) /\ c \notin lost
  <2>1. \E x : Owners(c) = {x}
    <3>1. CASE conn[c].env = "base"
      <4>1. Base = {"base"} /\ Place = {} /\ Sets = {}
        BY <3>1, Names DEF Owned, Placed, Discarded
      <4>2. QED
        BY <1>3, <4>1
    <3>2. CASE conn[c].env \in Chans
      <4>1. Base = {} /\ Sets = {}
        BY <3>2, Names DEF Owned, Discarded
      <4>2. Place = {<<conn[c].env, conn[c].aux>>}
        BY <1>1, <1>5, <3>2 DEF Owned, Placed
      <4>3. QED
        BY <1>3, <4>1, <4>2
    <3>3. CASE conn[c].env = "null"
      <4>1. Base = {} /\ Place = {}
        BY <3>3, Names DEF Owned, Placed
      <4>2. PICK h \in Chans : c \in chan[h].trash
        BY <1>5, <3>3 DEF Alive, Owned, Discarded
      <4>3. Sets = {h}
        BY <4>2 DEF Owned, Discarded
      <4>4. QED
        BY <1>3, <4>1, <4>3
    <3>4. QED
      BY <1>1, <3>1, <3>2, <3>3
  <2>2. QED
    BY <1>2, <1>5, <2>1, FS_Singleton
<1>6. QED
  BY <1>4, <1>5

(***************************************************************************)
(* Every connection that exists and is not lost has one owner (the base, a *)
(* place in one channel's map, or one deletion set), it calls back the     *)
(* channel that holds it, and every deletion set has a timer; for any      *)
(* number of connections, channels and ids, and any order of what          *)
(* applications, peers, timers and threads in the middle of a callback do. *)
(* The lost ones are erased by the handle_closed() of one they replaced,   *)
(* or overwritten by add_conn() on a full channel: the theorem says that   *)
(* nothing else loses one.                                                 *)
(***************************************************************************)
THEOREM OwnershipKept == Spec => []OwnershipInv
<1>1. OwnInv /\ [Next]_vars => OwnInv'
  BY NextOwned
<1>2. Spec => []OwnInv
  BY <1>1, InitOwned, PTL DEF Spec
<1>3. OwnInv => OwnershipInv
  BY TypesAgree, OneOwner DEF OwnInv, OwnershipInv
<1>4. QED
  BY <1>2, <1>3, PTL

(***************************************************************************)
(* Part 5.  Main connections alone.  The closed callback of a main         *)
(* connection blocks its own thread when another passive connection is in  *)
(* the channel, and that one would have to be an auxiliary one.            *)
(***************************************************************************)
MainOnly == \A c \in Conns : conn[c].life /\ conn[c].passive => conn[c].aux = 0
FreeInv == OwnInv /\ MainOnly /\ NoSelfDeadlock

\* No step makes a passive connection of another kind, or puts one elsewhere.
LEMMA MainKept ==
    ASSUME TypeInv, MainOnly,
           \A c \in Conns : conn'[c].life /\ conn'[c].passive =>
                               \/ conn'[c].aux = 0
                               \/ /\ conn[c].life /\ conn[c].passive
                                  /\ conn'[c].aux = conn[c].aux
    PROVE  MainOnly'
BY DEF MainOnly

LEMMA ObjectIdle == NoObject.life = FALSE
BY DEF NoObject

LEMMA ApplicationMain == TypeInv /\ MainOnly /\ Application => MainOnly'
<1> SUFFICES ASSUME TypeInv, MainOnly, Application PROVE MainOnly'
  OBVIOUS
<1>1. ASSUME NEW k \in AppKinds, AddChannel(k) PROVE MainOnly'
  BY <1>1 DEF AddChannel, MainOnly
<1>2. ASSUME NEW h \in Chans, NEW a \in Aux PROVE Connecting(h, a).passive = FALSE
  BY DEF Connecting
<1>3. ASSUME NEW h \in Chans, NEW a \in Aux, NEW c \in Conns, AddConn(h, a, c) PROVE MainOnly'
  <2> DEFINE old == {chan[h].conns[a]} \ {NoConn}
  <2>1. old \in SUBSET Conns /\ conn' = [Deleted(old) EXCEPT ![c] = Connecting(h, a)]
    BY <1>3 DEF AddConn, TypeInv, ChanRec
  <2> HIDE DEF old
  <2>2. \A d \in Conns : conn'[d] \in {Connecting(h, a), NoObject, conn[d]}
    BY <2>1, DeletedFields DEF TypeInv
  <2>3. QED
    BY <1>2, <2>2, ObjectIdle, MainKept
<1>4. ASSUME NEW h \in Chans, NEW c \in Conns, AddConnNext(h, c) PROVE MainOnly'
  <2>1. PICK a \in Aux : /\ conn' = [conn EXCEPT ![c] = Connecting(h, a)]
                         /\ Placing(h, a, c)
                         /\ lost' = lost \cup ({chan[h].conns[a]} \ {NoConn})
    BY <1>4, NextAuxIn
  <2>2. \A d \in Conns : conn'[d] \in {Connecting(h, a), conn[d]}
    BY <2>1 DEF TypeInv
  <2>3. QED
    BY <1>2, <2>2, MainKept
<1>5. ASSUME NEW C \in SUBSET Conns, conn' = Detached(C) PROVE MainOnly'
  BY <1>5, DetachedFields, MainKept DEF TypeInv
<1>6. ASSUME NEW h \in Chans, NEW a \in Aux, DropConn(h, a) PROVE MainOnly'
  <2> DEFINE C == IF a = 0 THEN Members(h) ELSE {chan[h].conns[a]}
  <2>1. C \in SUBSET Conns /\ conn' = Detached(C)
    BY <1>6 DEF DropConn, Members, TypeInv, ChanRec
  <2>2. QED
    BY <1>5, <2>1
<1>7. ASSUME NEW h \in Chans, DropChannel(h) PROVE MainOnly'
  <2>1. Members(h) \in SUBSET Conns /\ conn' = Detached(Members(h))
    BY <1>7 DEF DropChannel, Members, TypeInv, ChanRec
  <2>2. QED
    BY <1>5, <2>1
<1>8. QED
  BY <1>1, <1>3, <1>4, <1>6, <1>7 DEF Application

LEMMA OtherMain ==
    ASSUME PassiveAux \subseteq {0}, TypeInv, MainOnly,
           Peers \/ Timeouts \/ (\E c \in Conns : Deliver(c)) \/ UNCHANGED vars
    PROVE  MainOnly'
<1>1. CASE Peers
  <2>1. ASSUME NEW c \in Conns, NEW k \in PassiveKinds, NEW a \in Aux, Accept(c, k, a)
        PROVE  MainOnly'
    <3>1. a = 0
      BY <2>1 DEF Accept
    <3>2. \A d \in Conns : conn'[d].aux = 0 \/ conn'[d] = conn[d]
      BY <2>1, <3>1 DEF Accept, TypeInv
    <3>3. QED
      BY <3>2, MainKept
  <2>2. ASSUME NEW c \in Conns, Established(c) \/ Closed(c) \/ Failed(c) \/ Reconnect(c)
        PROVE  MainOnly'
    <3>1. PICK state, calls : Event(c, state, calls)
      BY <2>2 DEF Established, Closed, Failed, Reconnect
    <3>2. \A d \in Conns : /\ conn'[d].life = conn[d].life /\ conn'[d].aux = conn[d].aux
                           /\ conn'[d].passive = conn[d].passive
      BY <3>1 DEF Event, TypeInv, ConnRec
    <3>3. QED
      BY <3>2, MainKept
  <2>3. QED
    BY <1>1, <2>1, <2>2 DEF Peers
<1>2. ASSUME NEW C \in SUBSET Conns, conn' = Deleted(C) PROVE MainOnly'
  <2>1. \A d \in Conns : conn'[d] \in {NoObject, conn[d]}
    BY <1>2, DeletedFields DEF TypeInv
  <2>2. QED
    BY <2>1, ObjectIdle, MainKept
<1>3. CASE Timeouts
  <2>1. ASSUME NEW h \in Chans, DropConnsDeletion(h) PROVE MainOnly'
    BY <1>2, <2>1 DEF DropConnsDeletion, TypeInv, ChanRec
  <2>2. ASSUME NEW k \in Kinds, DropChannelsDeletion(k) PROVE MainOnly'
    <3> DEFINE H == {h \in Chans : chan[h].life = "trash" /\ chan[h].kind = k}
               C == UNION {chan[h].trash \cup Members(h) : h \in H}
    <3>1. C \in SUBSET Conns /\ conn' = Deleted(C)
      BY <2>2 DEF DropChannelsDeletion, TypeInv, ChanRec, Members
    <3>2. QED
      BY <1>2, <3>1
  <2>3. QED
    BY <1>3, <2>1, <2>2 DEF Timeouts
<1>4. CASE UNCHANGED vars
  BY <1>4 DEF vars, MainOnly
<1>5. ASSUME NEW c \in Conns, Deliver(c) PROVE MainOnly'
  <2>1. CASE conn' = conn
    BY <2>1 DEF MainOnly
  <2>2. ASSUME \A d \in Conns : /\ conn'[d].life = conn[d].life /\ conn'[d].aux = conn[d].aux
                                /\ conn'[d].passive = conn[d].passive
        PROVE  MainOnly'
    BY <2>2, MainKept
  <2>3. CASE BaseDeletes(c)
    BY <1>2, <2>3 DEF BaseDeletes
  <2>4. CASE BaseAdds(c)
    <3>1. PICK old \in SUBSET Conns : MovesIn(c, Target(c), old)
      BY <2>4, MovesInHolds
    <3>2. QED
      BY <2>2, <3>1 DEF MovesIn, TypeInv, ConnRec
  <2>5. CASE AuxClosed(c)
    BY <2>1, <2>2, <2>5 DEF AuxClosed, TypeInv, ConnRec
  <2>6. CASE MainClosed(c)
    BY <2>1, <2>2, <2>6 DEF MainClosed, TypeInv, ConnRec
  <2>7. CASE EnvClosed(c)
    <3>1. conn' = conn \/ conn' = Detached(Members(thr[c].arg))
      BY <2>7 DEF EnvClosed, Target
    <3>2. Members(thr[c].arg) \in SUBSET Conns
      BY <2>7 DEF EnvClosed, At, TypeInv, ThrType, ChanRec, Members
    <3>3. QED
      BY <2>1, <2>2, <3>1, <3>2, DetachedFields DEF TypeInv
  <2>8. CASE \/ NoEnv(c) \/ Vanished(c) \/ BaseLooksUp(c) \/ BaseFindsDpt(c) \/ BaseSets(c)
             \/ BaseTells(c) \/ ChannelPasses(c) \/ ChannelEnter(c)
    BY <2>1, <2>8 DEF NoEnv, Vanished, BaseLooksUp, BaseFindsDpt, BaseSets, BaseTells,
                      ChannelPasses, ChannelEnter
  <2>9. QED
    BY <1>5, <2>3, <2>4, <2>5, <2>6, <2>7, <2>8 DEF Deliver
<1>6. QED
  BY <1>1, <1>3, <1>4, <1>5

LEMMA NoneBlocks ==
    ASSUME OwnInv, MainOnly, NoSelfDeadlock, [Next]_vars
    PROVE  NoSelfDeadlock'
<1>1. TypeInv /\ Owned /\ Calling /\ \A h \in Chans : chan[h] \in ChanRec /\ ~chan[h].stuck
  BY DEF OwnInv, TypeInv, NoSelfDeadlock
<1>2. ASSUME NEW k \in Kinds, NEW i \in Ids,
             chan' = [chan EXCEPT ![FirstFree] = NewChannel(k, i)]
      PROVE  NoSelfDeadlock'
  <2>2. NewChannel(k, i).stuck = FALSE
    BY NewChannelFields
  <2>3. \A h \in Chans : chan'[h] \in {NewChannel(k, i), chan[h]}
    BY <1>1, <1>2 DEF TypeInv
  <2>4. QED
    BY <1>1, <2>2, <2>3 DEF NoSelfDeadlock
<1>3. ASSUME NEW h \in Chans, NEW C \in SUBSET Conns,
             \A g \in Chans : \/ chan'[g] = chan[g]
                              \/ chan'[g] = Trash(chan[h], C)
                              \/ chan'[g] = [Trash(chan[h], C) EXCEPT !.life = "trash"]
      PROVE  NoSelfDeadlock'
  <2>1. Trash(chan[h], C) \in ChanRec /\ Trash(chan[h], C).stuck = FALSE
    <3>1. Trash(chan[h], C).stuck = chan[h].stuck /\ Trash(chan[h], C) \in ChanRec
      BY <1>1, TrashFields
    <3>2. QED
      BY <1>1, <3>1 DEF ChanRec
  <2>2. [Trash(chan[h], C) EXCEPT !.life = "trash"].stuck = FALSE
    BY <2>1 DEF ChanRec
  <2>3. QED
    BY <1>1, <1>3, <2>1, <2>2 DEF NoSelfDeadlock
<1>4. ASSUME NEW h \in Chans, chan' = Dropped(h) PROVE NoSelfDeadlock'
  <2>1. Members(h) \in SUBSET Conns
    BY <1>1 DEF Members, TypeInv, ChanRec
  <2>2. \A g \in Chans : \/ chan'[g] = chan[g]
                         \/ chan'[g] = [Trash(chan[h], Members(h)) EXCEPT !.life = "trash"]
    BY <1>1, <1>4 DEF Dropped, TypeInv
  <2>3. QED
    BY <1>3, <2>1, <2>2
<1>5. CASE chan' = chan
  BY <1>1, <1>5 DEF NoSelfDeadlock
<1>6. ASSUME \A g \in Chans : chan'[g].stuck = chan[g].stuck PROVE NoSelfDeadlock'
  BY <1>1, <1>6 DEF NoSelfDeadlock
<1>7. CASE Application
  <2>1. ASSUME NEW k \in AppKinds, AddChannel(k) PROVE NoSelfDeadlock'
    <3>1. k \in Kinds /\ Free # {} /\ chan' = [chan EXCEPT ![FirstFree] = NewChannel(k, FreeId(k))]
      BY <2>1, KindsAssumption, RoomIsFree DEF Kinds, AddChannel
    <3>2. FreeId(k) \in Ids
      BY <3>1, FreeIdIn
    <3>3. QED
      BY <1>2, <3>1, <3>2
  <2>2. ASSUME NEW h \in Chans, NEW a \in Aux, NEW c \in Conns, AddConn(h, a, c)
        PROVE  NoSelfDeadlock'
    <3>1. chan' = [chan EXCEPT ![h].conns[a] = c]
      BY <2>2 DEF AddConn
    <3>2. Placing(h, a, c)
      BY <1>1, <3>1, PlacingHolds
    <3>3. QED
      BY <1>6, <3>2 DEF Placing
  <2>3. ASSUME NEW h \in Chans, NEW c \in Conns, AddConnNext(h, c) PROVE NoSelfDeadlock'
    <3>1. PICK a \in Aux : /\ conn' = [conn EXCEPT ![c] = Connecting(h, a)]
                           /\ Placing(h, a, c)
                           /\ lost' = lost \cup ({chan[h].conns[a]} \ {NoConn})
      BY <1>1, <2>3, NextAuxIn
    <3>2. QED
      BY <1>6, <3>1 DEF Placing
  <2>4. ASSUME NEW h \in Chans, NEW a \in Aux, DropConn(h, a) PROVE NoSelfDeadlock'
    <3> DEFINE C == IF a = 0 THEN Members(h) ELSE {chan[h].conns[a]}
    <3>1. C \in SUBSET Conns /\ chan' = [chan EXCEPT ![h] = Trash(@, C)]
      BY <1>1, <2>4 DEF DropConn, Members, TypeInv, ChanRec
    <3> HIDE DEF C
    <3>2. \A g \in Chans : chan'[g] = chan[g] \/ chan'[g] = Trash(chan[h], C)
      BY <1>1, <3>1 DEF TypeInv
    <3>3. QED
      BY <1>3, <3>1, <3>2
  <2>5. ASSUME NEW h \in Chans, DropChannel(h) PROVE NoSelfDeadlock'
    BY <1>4, <2>5 DEF DropChannel
  <2>6. QED
    BY <1>7, <2>1, <2>2, <2>3, <2>4, <2>5 DEF Application
<1>8. CASE Peers
  BY <1>5, <1>8 DEF Peers, Accept, Established, Closed, Failed, Reconnect, Event
<1>9. CASE Timeouts
  <2>1. ASSUME NEW h \in Chans, DropConnsDeletion(h) PROVE NoSelfDeadlock'
    <3>1. chan' = [chan EXCEPT ![h] = [chan[h] EXCEPT !.timer = FALSE, !.trash = {}]]
      BY <1>1, <2>1 DEF DropConnsDeletion, TypeInv
    <3>2. QED
      BY <1>1, <1>6, <3>1 DEF TypeInv, ChanRec
  <2>2. ASSUME NEW k \in Kinds, DropChannelsDeletion(k) PROVE NoSelfDeadlock'
    BY <1>1, <2>2, NoChannelFields DEF DropChannelsDeletion, NoSelfDeadlock
  <2>3. QED
    BY <1>9, <2>1, <2>2 DEF Timeouts
<1>10. ASSUME NEW c \in Conns, Deliver(c) PROVE NoSelfDeadlock'
  <2>1. CASE NoEnv(c) \/ Vanished(c) \/ BaseDeletes(c) \/ ChannelPasses(c) \/ ChannelEnter(c)
    BY <1>5, <2>1 DEF NoEnv, Vanished, BaseDeletes, ChannelPasses, ChannelEnter
  <2>2. CASE BaseLooksUp(c) \/ BaseFindsDpt(c)
    <3>1. {"ctl", "dpt"} \subseteq Kinds
      BY DEF Kinds
    <3>2. ASSUME NEW k \in Kinds, Free # {},
                 chan' = [chan EXCEPT ![FirstFree] = NewChannel(k, FreeId(k))]
          PROVE  NoSelfDeadlock'
      BY <1>2, <3>2, FreeIdIn
    <3>3. QED
      BY <1>5, <2>2, <3>1, <3>2 DEF BaseLooksUp, BaseFindsDpt
  <2>3. CASE BaseSets(c) \/ BaseTells(c)
    <3>1. Target(c) \in Ids /\ conn[c].kind \in Kinds
      BY <1>1, <2>3 DEF BaseSets, BaseTells, At, Target, TypeInv, ThrType, ConnRec
    <3>2. chan' = chan \/ chan' = [chan EXCEPT ![FirstFree] = NewChannel(conn[c].kind, Target(c))]
      BY <2>3 DEF BaseSets, BaseTells, SetChannel
    <3>3. QED
      BY <1>2, <1>5, <3>1, <3>2
  <2>4. CASE BaseAdds(c)
    <3>1. PICK old \in SUBSET Conns : MovesIn(c, Target(c), old)
      BY <1>1, <2>4, MovesInHolds
    <3>2. Target(c) \in Chans /\ conn \in [Conns -> ConnRec]
      BY <1>1, <2>4, MovesInHolds DEF TypeInv
    <3>3. Joined(AddTo(chan[Target(c)], c), chan[Target(c)], c, old)
      <4>1. old = {chan[Target(c)].conns[conn[c].aux]} \ {NoConn} /\ chan[Target(c)] \in ChanRec
        BY <1>1, <3>1, <3>2 DEF MovesIn
      <4>2. QED
        BY <3>2, <4>1, AddToFields
    <3>4. AddTo(chan[Target(c)], c).stuck = chan[Target(c)].stuck
      BY <3>3 DEF Joined
    <3>5. \A g \in Chans : chan'[g] = chan[g] \/ (g = Target(c) /\ chan'[g] = AddTo(chan[g], c))
      BY <1>1, <3>1, <3>2 DEF MovesIn, TypeInv
    <3>6. QED
      BY <1>6, <3>4, <3>5
  <2>5. CASE AuxClosed(c)
    <3>1. /\ Target(c) \in Chans /\ conn[c].aux \in Aux
      BY <1>1, <2>5 DEF AuxClosed, Executes, At, Target, TypeInv, ThrType, ConnRec
    <3>2. CASE chan[Target(c)].conns[conn[c].aux] = NoConn
      BY <1>5, <2>5, <3>2 DEF AuxClosed
    <3>3. CASE chan[Target(c)].conns[conn[c].aux] # NoConn
      <4>1. PICK ch \in ChanRec : Erased(c, Target(c), ch)
        BY <1>1, <2>5, <3>1, <3>3, ErasedHolds
      <4>2. QED
        BY <1>1, <3>1, <4>1 DEF Erased, NoSelfDeadlock, TypeInv
    <3>4. QED
      BY <3>2, <3>3
  <2>6. CASE MainClosed(c)
    <3> DEFINE h == Target(c)
               others == Members(h) \ {chan[h].conns[0]}
               passive == {d \in Members(h) : conn[d].passive}
    <3>1. h \in Chans
      BY <1>1, <2>6 DEF Target, MainClosed, Executes, At, TypeInv, ThrType
    <3>2. ASSUME NEW d \in others, conn[d].passive PROVE FALSE
      <4>1. d \in Conns /\ conn[d].env = h /\ conn[d].aux \in Aux /\ d \notin lost
        <5>1. d \in Conns /\ d \in Members(h)
          BY <1>1, <3>1 DEF Members, TypeInv, ChanRec
        <5>2. QED
          BY <1>1, <3>1, <5>1, MemberIs DEF TypeInv, ConnRec
      <4>2. chan[h].conns[conn[d].aux] = d /\ conn[d].life
        BY <1>1, <3>1, <4>1, Names DEF Owned, Placed
      <4>3. conn[d].aux = 0
        BY <3>2, <4>1, <4>2 DEF MainOnly
      <4>4. QED
        BY <4>2, <4>3
    <3>3. chan' = [chan EXCEPT ![h] = IF passive = {} THEN @ ELSE Trash(@, passive)]
      BY <2>6, <3>2 DEF MainClosed
    <3>4. passive \in SUBSET Conns
      BY <1>1, <3>1 DEF Members, TypeInv, ChanRec
    <3> HIDE DEF h, passive, others
    <3>5. \A g \in Chans : chan'[g] = chan[g] \/ chan'[g] = Trash(chan[h], passive)
      BY <1>1, <3>1, <3>3 DEF TypeInv
    <3>6. QED
      BY <1>3, <3>1, <3>4, <3>5
  <2>7. CASE EnvClosed(c)
    <3>1. Target(c) \in Chans
      BY <1>1, <2>7 DEF EnvClosed, At, Target, TypeInv, ThrType
    <3>2. chan' = chan \/ chan' = Dropped(Target(c))
      BY <2>7 DEF EnvClosed
    <3>3. QED
      BY <1>4, <1>5, <3>1, <3>2
  <2>8. QED
    BY <1>10, <2>1, <2>2, <2>3, <2>4, <2>5, <2>6, <2>7 DEF Deliver
<1>11. QED
  BY <1>5, <1>7, <1>8, <1>9, <1>10 DEF Next, vars

(***************************************************************************)
(* With main connections only, no thread ever waits for a lock it holds    *)
(* itself: what blocks one is a passive auxiliary connection.              *)
(***************************************************************************)
THEOREM MainsNeverBlock ==
    ASSUME PassiveAux \subseteq {0}
    PROVE  Spec => []NoSelfDeadlock
<1>1. Init => FreeInv
  <2>1. Init => MainOnly
    BY ObjectIdle DEF Init, MainOnly
  <2>2. Init => NoSelfDeadlock
    BY NoChannelFields DEF Init, NoSelfDeadlock
  <2>3. QED
    BY <2>1, <2>2, InitOwned DEF FreeInv
<1>2. FreeInv /\ [Next]_vars => FreeInv'
  <2> SUFFICES ASSUME FreeInv, [Next]_vars PROVE FreeInv'
    OBVIOUS
  <2>1. OwnInv /\ TypeInv /\ MainOnly /\ NoSelfDeadlock
    BY DEF FreeInv, OwnInv
  <2>2. OwnInv'
    BY <2>1, NextOwned
  <2>3. NoSelfDeadlock'
    BY <2>1, NoneBlocks
  <2>4. MainOnly'
    BY <2>1, ApplicationMain, OtherMain DEF Next
  <2>5. QED
    BY <2>2, <2>3, <2>4 DEF FreeInv
<1>3. Spec => []FreeInv
  BY <1>1, <1>2, PTL DEF Spec
<1>4. FreeInv => NoSelfDeadlock
  BY DEF FreeInv
<1>5. QED
  BY <1>3, <1>4, PTL
=============================================================================
