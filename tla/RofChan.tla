------------------------------ MODULE RofChan ------------------------------
(***************************************************************************)
(* Who owns a control connection, and who deletes it.  A crofbase accepts  *)
(* connections from its listening sockets and owns each of them until it   *)
(* is established; then the connection moves into the channel (crofchan)   *)
(* of a controller (crofctl) or of a datapath (crofdpt), which the base    *)
(* finds or creates.  An application adds channels and connects them too.  *)
(* What leaves a channel, or the base, is not deleted at once: the caller  *)
(* may be running inside it.  It is put into a deletion set, and a timer   *)
(* deletes the whole set later.                                            *)
(*                                                                         *)
(* Every connection has a thread of its own, which delivers the callbacks  *)
(* of crofconn::run_finite_state_machine() after its lock is released;     *)
(* applications call from other threads, and the timers are served by the  *)
(* management thread.  Connection and channel objects are re-used here     *)
(* once they are deleted, as memory is.                                    *)
(***************************************************************************)
EXTENDS Integers, FiniteSets, Sequences, FiniteSetsExt

CONSTANTS
    Conns,        \* crofconn objects
    Chans,        \* crofchan objects (each with its crofctl or crofdpt)
    Aux,          \* auxiliary ids 0..n (256 of them in the code)
    PassiveAux,   \* auxiliary ids of connections the peers open
    PassiveKinds, \* kinds of channels that the peers' connections go to
    AppKinds      \* kinds of channels the application adds connections to

ASSUME AuxAssumption == /\ IsFiniteSet(Aux) /\ 0 \in Aux
                        /\ Aux = 0..(Cardinality(Aux) - 1)
                        /\ PassiveAux \subseteq Aux
ASSUME KindsAssumption == AppKinds \subseteq {"ctl", "dpt"} /\ PassiveKinds \subseteq {"ctl", "dpt"}
ASSUME ObjectsAssumption == /\ IsFiniteSet(Conns) /\ "no connection" \notin Conns
                            /\ IsFiniteSet(Chans) /\ Chans \cap {"null", "base"} = {}

VARIABLES
    conn,     \* conn[c]: the connection object
    chan,     \* chan[h]: the channel object
    thr,      \* thr[c]: what the thread of c still has to deliver
    timers,   \* timers[k]: the base's deletion timer for channels of kind k runs
    lost      \* connections that somebody else has removed from their place
              \* in a channel's map, and forgotten (history)

vars == <<conn, chan, thr, timers, lost>>

NoConn == "no connection"
Kinds == {"ctl", "dpt"}
Calls == {"established", "negotiation_failed", "closed", "accept_failed"}

\* Memory that holds no object.
NoObject == [life |-> FALSE, env |-> "null", aux |-> 0, state |-> "down",
             kind |-> "ctl", passive |-> FALSE]
NoChannel == [life |-> "none", kind |-> "ctl", id |-> 0, named |-> FALSE,
              conns |-> [a \in Aux |-> NoConn], trash |-> {},
              timer |-> FALSE, last |-> 0, stuck |-> FALSE]
Idle == [calls |-> <<>>, stage |-> "idle", arg |-> -1]

Alive(c) == conn[c].life
Live(h) == chan[h].life = "live"
Members(h) == {chan[h].conns[a] : a \in Aux} \ {NoConn}
Pending == {c \in Conns : Alive(c) /\ conn[c].env = "base"}
Busy(c) == thr[c].calls # <<>>
\* Memory is not used again before everybody has forgotten it.
Knows(c, h) == \/ conn[c].env = h
               \/ thr[c].stage \in {"put", "in", "env", "stuck"} /\ thr[c].arg = h
Free == {h \in Chans : chan[h].life = "none" /\ \A c \in Conns : ~Knows(c, h)}

\* The bound on channel objects: an accepted connection finds one left.
Room == Cardinality(Free) > Cardinality(Pending)
Reserve == Cardinality(Free) >= Cardinality(Pending)
Unused(c) == ~Alive(c) /\ ~Busy(c)
New(c) == Unused(c) /\ c = CHOOSE d \in Conns : Unused(d)

TypeOK ==
    /\ conn \in [Conns -> [life : BOOLEAN, env : {"null", "base"} \cup Chans,
                           aux : Aux, state : {"pending", "up", "down"},
                           kind : Kinds, passive : BOOLEAN]]
    /\ chan \in [Chans -> [life : {"none", "live", "trash"}, kind : Kinds,
                           id : 0..(Cardinality(Chans) - 1), named : BOOLEAN,
                           conns : [Aux -> Conns \cup {NoConn}],
                           trash : SUBSET Conns, timer : BOOLEAN,
                           last : Aux, stuck : BOOLEAN]]
    /\ \A c \in Conns :
          /\ thr[c].stage \in {"idle", "in", "has", "add", "put", "tell", "env", "stuck"}
          /\ \A i \in DOMAIN thr[c].calls : thr[c].calls[i] \in Calls
          /\ Len(thr[c].calls) <= 2
    /\ timers \in [Kinds -> BOOLEAN]
    /\ lost \subseteq Conns

Init ==
    /\ conn = [c \in Conns |-> NoObject]
    /\ chan = [h \in Chans |-> NoChannel]
    /\ thr = [c \in Conns |-> Idle]
    /\ timers = [k \in Kinds |-> FALSE]
    /\ lost = {}

-----------------------------------------------------------------------------
(* Timers, deletion, and the channel's map of connections.                 *)

\* A timer that runs is not armed again, so it may expire at any moment after
\* its set has got something new.

\* delete c, for every c of C: cthread::drop() does not wait for a thread
\* that is executing a callback of the object.
Deleted(C) == [c \in Conns |-> IF c \in C THEN NoObject ELSE conn[c]]

\* Connections that leave channel h by clear(), drop_conn() or drop_ctl():
\* environment removed, closed without a callback, left to the timer.
Detached(C) ==
    [c \in Conns |-> IF c \in C THEN [conn[c] EXCEPT !.env = "null", !.state = "down"]
                                ELSE conn[c]]
Trash(ch, C) ==
    [ch EXCEPT !.trash = @ \cup C, !.timer = TRUE,
               !.conns = [a \in Aux |-> IF @[a] \in C THEN NoConn ELSE @[a]]]

\* crofchan::handle_timeout(): the whole deletion set, whenever it was filled.
DropConnsDeletionDown(h) ==
    LET C == {c \in chan[h].trash : conn[c].state = "down"} IN
    /\ chan[h].timer
    /\ chan' = [chan EXCEPT ![h].timer = (C # chan[h].trash),
                            ![h].trash = @ \ C]
    /\ conn' = Deleted(C)
    /\ UNCHANGED <<thr, timers, lost>>
DropConnsDeletion(h) ==
    /\ chan[h].timer
    /\ chan' = [chan EXCEPT ![h].timer = FALSE, ![h].trash = {}]
    /\ conn' = Deleted(chan[h].trash)
    /\ UNCHANGED <<thr, timers, lost>>

\* The kind k channel with number id, or with the datapath's id.
WithId(k, id) == {h \in Chans : Live(h) /\ chan[h].kind = k /\ chan[h].id = id}
OfDatapath == {h \in Chans : Live(h) /\ chan[h].kind = "dpt" /\ chan[h].named}

FreeId(k) == Min({i \in 0..Cardinality(Chans) : WithId(k, i) = {}})
NewChannel(k, id) == [NoChannel EXCEPT !.life = "live", !.kind = k, !.id = id]
FirstFree == CHOOSE h \in Free : TRUE

-----------------------------------------------------------------------------
\* crofbase::handle_read_event(): accept() and a new crofconn of the base.
Accept(c, k, a) ==
    /\ New(c) /\ Room
    /\ a \in (IF k = "ctl" THEN {0} ELSE PassiveAux)
    /\ conn' = [conn EXCEPT ![c] = [life |-> TRUE, env |-> "base", aux |-> a,
                              state |-> "pending", kind |-> k, passive |-> TRUE]]
    /\ UNCHANGED <<chan, thr, timers, lost>>

-----------------------------------------------------------------------------
(* The application's operations on channels and their connections.         *)

\* crofbase::add_ctl(), add_dpt()
AddChannel(k) ==
    /\ Room
    /\ chan' = [chan EXCEPT ![FirstFree] = NewChannel(k, FreeId(k))]
    /\ UNCHANGED <<conn, thr, timers, lost>>

\* Applications replace and drop main connections they opened; of others
\* they drop the channel.
Own(h, a) == a = 0 /\ chan[h].conns[0] # NoConn => ~conn[chan[h].conns[0]].passive

Connecting(h, a) == [life |-> TRUE, env |-> h, aux |-> a, state |-> "pending",
                     kind |-> chan[h].kind, passive |-> FALSE]

\* crofchan::add_conn(auxid) deletes a connection in its way at once, whatever
\* its thread is doing; then the application connects the new one.
AddConnKeep(h, a, c) ==
    /\ Live(h) /\ ~chan[h].stuck /\ New(c) /\ chan[h].kind \in AppKinds
    /\ conn' = [conn EXCEPT ![c] = Connecting(h, a)]
    /\ chan' = [chan EXCEPT ![h].conns[a] = c]
    /\ UNCHANGED <<thr, timers, lost>>
AddConn(h, a, c) ==
    /\ Live(h) /\ ~chan[h].stuck /\ New(c) /\ chan[h].kind \in AppKinds
    /\ Own(h, a)
    /\ conn' = [Deleted({chan[h].conns[a]} \ {NoConn}) EXCEPT ![c] = Connecting(h, a)]
    /\ chan' = [chan EXCEPT ![h].conns[a] = c]
    /\ UNCHANGED <<thr, timers, lost>>

\* crofchan::add_conn(): cnt counts down from the number of ids in the test
\* of the loop, so it is 0 when the last id tried is free, and wraps below 0
\* when none is: the first is refused, the second replaces a connection.
Tried(h, n) == (chan[h].last + n) % Cardinality(Aux)
FreeTries(h) == {n \in 0..(Cardinality(Aux) - 1) : chan[h].conns[Tried(h, n)] = NoConn}
AddConnNext(h, c) ==
    /\ Live(h) /\ ~chan[h].stuck /\ New(c) /\ chan[h].kind \in AppKinds
    /\ LET full == FreeTries(h) = {}
           a == IF full THEN chan[h].last ELSE Tried(h, Min(FreeTries(h))) IN
       /\ ~full => Min(FreeTries(h)) # Cardinality(Aux) - 1
       /\ conn' = [conn EXCEPT ![c] = Connecting(h, a)]
       /\ chan' = [chan EXCEPT ![h].conns[a] = c, ![h].last = a]
       /\ lost' = lost \cup ({chan[h].conns[a]} \ {NoConn})
    /\ UNCHANGED <<thr, timers>>

\* crofchan::drop_conn(auxid): number 0 takes all others with it.
DropConn(h, a) ==
    /\ Live(h) /\ ~chan[h].stuck /\ (a # 0 => chan[h].conns[a] # NoConn)
    /\ Own(h, a)
    /\ LET C == IF a = 0 THEN Members(h) ELSE {chan[h].conns[a]} IN
       /\ conn' = Detached(C)
       /\ chan' = [chan EXCEPT ![h] = Trash(@, C)]
    /\ UNCHANGED <<thr, timers, lost>>

\* crofbase::drop_ctl(), drop_dpt(): the channel is cleared, which leaves
\* its connections in its own deletion set, and goes into the base's.
Dropped(h) == [chan EXCEPT ![h] = [Trash(@, Members(h)) EXCEPT !.life = "trash"]]

DropChannel(h) ==
    /\ Live(h) /\ ~chan[h].stuck /\ Reserve
    /\ conn' = Detached(Members(h))
    /\ chan' = Dropped(h)
    /\ timers' = [timers EXCEPT ![chan[h].kind] = TRUE]
    /\ UNCHANGED <<thr, lost>>

\* crofbase::handle_timeout(): every channel of the deletion set; ~crofchan()
\* deletes its deletion set and its connections, and waits for its lock.
DropChannelsDeletion(k) ==
    LET H == {h \in Chans : chan[h].life = "trash" /\ chan[h].kind = k}
        C == UNION {chan[h].trash \cup Members(h) : h \in H} IN
    /\ timers[k] /\ \A h \in H : ~chan[h].stuck
    /\ timers' = [timers EXCEPT ![k] = FALSE]
    /\ chan' = [h \in Chans |-> IF h \in H THEN NoChannel ELSE chan[h]]
    /\ conn' = Deleted(C)
    /\ UNCHANGED <<thr, lost>>

-----------------------------------------------------------------------------
(* What happens to a connection, and the callbacks of its thread.          *)

\* run_finite_state_machine(): without an environment there are no calls, and
\* what happens to the connection is nobody's business any more.
Event(c, state, calls) ==
    /\ conn[c].env # "null" /\ ~Busy(c)
    /\ conn' = [conn EXCEPT ![c].state = state]
    /\ thr' = [thr EXCEPT ![c].calls = calls]
    /\ UNCHANGED <<chan, timers, lost>>

Established(c) == conn[c].state = "pending" /\ Event(c, "up", <<"established">>)
Closed(c) == conn[c].state = "up" /\ Event(c, "down", <<"closed">>)
\* STATE_ACCEPT_FAILED is one call; STATE_NEGOTIATION_FAILED falls through to
\* STATE_DISCONNECTED and makes two.
Failures == {<<"accept_failed">>, <<"negotiation_failed", "closed">>}
Failed(c) ==
    /\ conn[c].passive /\ conn[c].state = "pending"
    /\ \E calls \in Failures : Event(c, "down", calls)
\* Connections the application opened report a failure to it and try again.
Reconnect(c) ==
    /\ ~conn[c].passive /\ conn[c].state = "down"
    /\ Event(c, "pending", <<>>)

Next1(c) == [Idle EXCEPT !.calls = Tail(thr[c].calls)]
Done(c) == thr' = [thr EXCEPT ![c] = Next1(c)]
At(c, stage) == Busy(c) /\ thr[c].stage = stage
Call(c, call) == Head(thr[c].calls) = call
Go(c, stage, arg) == thr' = [thr EXCEPT ![c].stage = stage, ![c].arg = arg]

\* call_env() throws eRofConnNotFound when the environment is gone; caught.
HasChannel(c) == conn[c].env \in Chans /\ chan[conn[c].env].life # "none"
NoEnv(c) ==
    /\ At(c, "idle") /\ conn[c].env # "base" /\ ~HasChannel(c)
    /\ Done(c)
    /\ UNCHANGED <<conn, chan, timers, lost>>

\* A thread whose connection or channel has been deleted meanwhile, and which
\* goes on to use it, works on memory of nobody: what it does is undefined, and
\* here it ends (see NoUseAfterDelete).
Target(c) == thr[c].arg
Vanished(c) ==
    /\ Busy(c)
    /\ \/ ~Alive(c) /\ thr[c].stage # "env"
       \/ thr[c].stage \in {"in", "put", "env"} /\ chan[Target(c)].life = "none"
    /\ Done(c)
    /\ UNCHANGED <<conn, chan, timers, lost>>

\* crofbase::handle_closed(), handle_accept_failed(), and
\* handle_negotiation_failed(): delete the connection that is calling.
BaseDeletes(c) ==
    /\ At(c, "idle") /\ conn[c].env = "base" /\ ~Call(c, "established")
    /\ Done(c)
    /\ conn' = Deleted({c})
    /\ UNCHANGED <<chan, timers, lost>>

\* crofbase::handle_established(conn) looks the datapath up (BOUND: there is
\* memory for a channel whenever one is created) ...
BaseLooksUp(c) ==
    /\ At(c, "idle") /\ conn[c].env = "base" /\ Call(c, "established")
    /\ IF conn[c].kind = "ctl"
       THEN /\ Free # {}
            /\ chan' = [chan EXCEPT ![FirstFree] = NewChannel("ctl", FreeId("ctl"))]
            /\ Go(c, "add", FreeId("ctl"))
       ELSE /\ Go(c, "has", IF OfDatapath = {} THEN 0 ELSE 1)
            /\ UNCHANGED chan
    /\ UNCHANGED <<conn, timers, lost>>

\* ... creates it when it was not found, in a second step under its lock ...
BaseFindsDpt(c) ==
    /\ At(c, "has")
    /\ IF thr[c].arg = 0 \/ OfDatapath = {}
       THEN /\ Free # {}
            /\ chan' = [chan EXCEPT ![FirstFree] = NewChannel("dpt", FreeId("dpt"))]
            /\ Go(c, "add", FreeId("dpt"))
       ELSE /\ Go(c, "add", chan[CHOOSE h \in OfDatapath : TRUE].id)
            /\ UNCHANGED chan
    /\ UNCHANGED <<conn, timers, lost>>

\* ... finds the channel with set_dpt(dptid), or creates it again when the
\* application has dropped it in between ...
SetChannel(c, stage) ==
    LET k == conn[c].kind
        found == WithId(k, Target(c)) IN
    IF found # {}
    THEN Go(c, stage, CHOOSE h \in found : TRUE) /\ UNCHANGED chan
    ELSE /\ Free # {}
         /\ chan' = [chan EXCEPT ![FirstFree] = NewChannel(k, Target(c))]
         /\ Go(c, stage, FirstFree)
BaseSets(c) ==
    /\ At(c, "add")
    /\ SetChannel(c, "put")
    /\ UNCHANGED <<conn, timers, lost>>

\* crofchan::add_conn(conn): a connection with the same id is not closed, but
\* loses its environment and is left to the timer.
AddTo(ch, c) ==
    LET a == conn[c].aux
        old == {ch.conns[a]} \ {NoConn} IN
    [(IF old = {} THEN ch ELSE Trash(ch, old)) EXCEPT !.conns[a] = c, !.named = TRUE]

\* ... moves the connection into it, even if it has been dropped since ...
BaseAdds(c) ==
    LET h == Target(c)
        old == {chan[h].conns[conn[c].aux]} \ {NoConn} IN
    /\ At(c, "put") /\ chan[h].life # "none" /\ ~chan[h].stuck
    /\ chan' = [chan EXCEPT ![h] = AddTo(@, c)]
    /\ conn' = [d \in Conns |-> IF d \in old THEN [conn[d] EXCEPT !.env = "null"]
                                ELSE IF d = c THEN [conn[d] EXCEPT !.env = h]
                                ELSE conn[d]]
    /\ Go(c, "tell", chan[h].id)
    /\ UNCHANGED <<timers, lost>>

\* ... and tells the application of set_dpt(dptid), which may create it again.
BaseTells(c) ==
    /\ At(c, "tell") /\ Alive(c)
    /\ IF WithId(conn[c].kind, Target(c)) # {}
       THEN UNCHANGED chan
       ELSE /\ Free # {}
            /\ chan' = [chan EXCEPT ![FirstFree] = NewChannel(conn[c].kind, Target(c))]
    /\ Done(c)
    /\ UNCHANGED <<conn, timers, lost>>

\* crofchan::handle_established() and handle_negotiation_failed() only pass
\* the event on to the application; so does handle_closed() of a connection
\* that the application opened itself.
ChannelPasses(c) ==
    /\ At(c, "idle") /\ HasChannel(c)
    /\ ~Call(c, "closed") \/ (~conn[c].passive /\ conn[c].aux # 0)
    /\ Done(c)
    /\ UNCHANGED <<conn, chan, timers, lost>>

\* call_env(env) returns the channel; handle_closed() starts later.
ChannelEnter(c) ==
    /\ At(c, "idle") /\ HasChannel(c) /\ Call(c, "closed")
    /\ conn[c].passive \/ conn[c].aux = 0
    /\ Go(c, "in", conn[c].env)
    /\ UNCHANGED <<conn, chan, timers, lost>>

\* Thread c executes handle_closed() of its target.
Executes(c) ==
    /\ Alive(c) /\ At(c, "in")
    /\ chan[Target(c)].life # "none" /\ ~chan[Target(c)].stuck

\* crofchan::handle_closed() of an auxiliary connection that a peer opened:
\* what the map holds under its id is erased, be it this one or another that
\* has taken the place; this one is left to the timer.
AuxClosed(c) ==
    LET h == Target(c)
        a == conn[c].aux IN
    /\ Executes(c) /\ conn[c].passive /\ a # 0
    /\ IF chan[h].conns[a] = NoConn
       THEN UNCHANGED <<chan, conn, lost>>
       ELSE /\ chan' = [chan EXCEPT ![h].conns[a] = NoConn, ![h].trash = @ \cup {c},
                                    ![h].timer = TRUE]
            /\ conn' = [conn EXCEPT ![c].env = "null"]
            /\ lost' = (lost \cup {chan[h].conns[a]}) \ {c}
    /\ Done(c)
    /\ UNCHANGED timers

\* crofchan::handle_closed() of the main connection closes the others under
\* the read lock.  The callback of one that a peer opened asks for the write
\* lock of the same map in the same thread, and waits for ever.  Otherwise
\* the passive ones, the main one included, are left to the timer.
MainClosed(c) ==
    LET h == Target(c)
        others == Members(h) \ {chan[h].conns[0]}
        passive == {d \in Members(h) : conn[d].passive} IN
    /\ Executes(c) /\ conn[c].aux = 0
    /\ IF \E d \in others : conn[d].passive
       THEN /\ chan' = [chan EXCEPT ![h].stuck = TRUE]
            /\ Go(c, "stuck", h)
            /\ UNCHANGED conn
       ELSE /\ chan' = [chan EXCEPT ![h] = IF passive = {} THEN @ ELSE Trash(@, passive)]
            /\ conn' = [d \in Conns |->
                         IF d \in passive THEN [conn[d] EXCEPT !.env = "null"]
                         ELSE IF d \in others THEN [conn[d] EXCEPT !.state = "down"]
                         ELSE conn[d]]
            /\ Go(c, "env", h)
    /\ UNCHANGED <<timers, lost>>

\* ... and then the environment is told, without another look at c.
\* crofbase::handle_closed(dpt) drops the datapath.  handle_closed(ctl) asks
\* the channel for connection 0, which throws eRofChanNotFound when a peer had
\* opened it, because it was erased before; the exception ends the thread's
\* remaining calls.
EnvClosedKeep(c) ==
    /\ At(c, "env") /\ chan[Target(c)].life # "none"
    /\ Done(c)
    /\ UNCHANGED <<conn, chan, timers, lost>>
EnvClosed(c) ==
    LET h == Target(c) IN
    /\ At(c, "env") /\ chan[h].life # "none"
    /\ IF Live(h) /\ chan[h].kind = "dpt"
       THEN /\ ~chan[h].stuck
            /\ conn' = Detached(Members(h))
            /\ chan' = Dropped(h)
            /\ timers' = [timers EXCEPT !["dpt"] = TRUE]
       ELSE UNCHANGED <<conn, chan, timers>>
    /\ Done(c)
    /\ UNCHANGED lost

-----------------------------------------------------------------------------
Application ==
    \/ \E k \in AppKinds : AddChannel(k)
    \/ \E h \in Chans, a \in Aux, c \in Conns : AddConn(h, a, c)
    \/ \E h \in Chans, c \in Conns : AddConnNext(h, c)
    \/ \E h \in Chans, a \in Aux : DropConn(h, a)
    \/ \E h \in Chans : DropChannel(h)

Peers ==
    \/ \E c \in Conns, k \in PassiveKinds, a \in Aux : Accept(c, k, a)
    \/ \E c \in Conns : \/ Established(c) \/ Closed(c) \/ Failed(c) \/ Reconnect(c)

Deliver(c) ==
    /\ Busy(c)
    /\ \/ NoEnv(c) \/ Vanished(c) \/ BaseDeletes(c)
       \/ BaseLooksUp(c) \/ BaseFindsDpt(c) \/ BaseSets(c) \/ BaseAdds(c) \/ BaseTells(c)
       \/ ChannelPasses(c) \/ ChannelEnter(c)
       \/ AuxClosed(c) \/ MainClosed(c) \/ EnvClosed(c)

Timeouts ==
    \/ \E h \in Chans : DropConnsDeletion(h)
    \/ \E k \in Kinds : DropChannelsDeletion(k)

Next == \/ Application \/ Peers \/ Timeouts
        \/ \E c \in Conns : Deliver(c)

Spec == Init /\ [][Next]_vars

\* The connections' threads run, and timers expire and are served.
FairSpec ==
    /\ Spec
    /\ \A c \in Conns : WF_vars(Deliver(c))
    /\ \A h \in Chans : WF_vars(DropConnsDeletion(h))
    /\ \A k \in Kinds : WF_vars(DropChannelsDeletion(k))

-----------------------------------------------------------------------------
(* Properties.                                                             *)

\* Who owns connection c: the base while it is pending, a place in a
\* channel's map, a channel's deletion set.
Owners(c) ==
    {e \in {"base"} : conn[c].env = e}
        \cup {p \in Chans \X Aux : chan[p[1]].conns[p[2]] = c}
        \cup {h \in Chans : c \in chan[h].trash}

\* A connection that exists has exactly one owner, an owner owns only
\* connections that exist, and it calls back exactly the channel that holds
\* it: nothing is lost or deleted twice while connections move from the base
\* to a channel, replace each other and are dropped (add_conn(), drop_conn(),
\* handle_closed(), clear()).  The exceptions are lost: connections erased
\* by the handle_closed() of one they have replaced, or overwritten by
\* add_conn() on a full channel.  Nobody owns, and nobody deletes, those.
OwnedOnce ==
    \A c \in Conns :
        /\ Cardinality(Owners(c)) = (IF Alive(c) /\ c \notin lost THEN 1 ELSE 0)
        /\ \A h \in Chans : (c \in Members(h)) <=>
                                (Alive(c) /\ conn[c].env = h /\ c \notin lost)

\* Nothing is lost.
NothingLost == lost = {}

\* No connection is deleted while a thread has still to deliver one of its
\* callbacks: what the deferred deletion is for.
NoUseAfterDelete ==
    [][\A c \in Conns : Alive(c) /\ ~Alive(c)' => ~Busy(c)']_vars

\* What waits in a deletion set has a timer: deleting is never forgotten,
\* although a timer that is running is not armed again.
DeletionTimed ==
    /\ \A h \in Chans : chan[h].trash # {} => chan[h].timer
    /\ \A h \in Chans : chan[h].life = "trash" => timers[chan[h].kind]

\* Ownership: one owner for each connection and a timer for each deletion set,
\* through every move of add_conn(), drop_conn(), clear() and handle_closed().
OwnershipInv == TypeOK /\ OwnedOnce /\ DeletionTimed

\* What left its channel is deleted in the end, although further connections
\* are dropped again and again: a deletion set is empty infinitely often, unless
\* a thread that has blocked itself in a dropped channel (see NoSelfDeadlock)
\* blocks the deletion too.
DeletionBlocked == \E h \in Chans : chan[h].life = "trash" /\ chan[h].stuck
DeletionHappens == \A h \in Chans : []<>(chan[h].trash = {} \/ DeletionBlocked)

MainDown(h, k) ==
    /\ Live(h) /\ chan[h].kind = k
    /\ \E c \in Conns : /\ chan[h].conns[0] = c
                        /\ conn[c].passive /\ conn[c].state = "down"
MainReplaced(h, k) == Live(h) /\ ~chan[h].stuck =>
                          chan[h].conns[0] # NoConn /\ ~MainDown(h, k)

\* A datapath whose main connection has ended is dropped, unless the peer's
\* next connection has taken the place (crofchan::handle_closed() and
\* crofbase::handle_closed(dpt)), or the thread has blocked itself before it
\* could do so (see NoSelfDeadlock).
DatapathDropped ==
    \A h \in Chans : MainDown(h, "dpt") ~> MainReplaced(h, "dpt")

\* "if main connection is passive, delete crofctl instance"
\* (crofbase::handle_closed(ctl)).
ControllerDropped ==
    \A h \in Chans : MainDown(h, "ctl") ~> MainReplaced(h, "ctl")

\* "if datapath for dpid already exists add connection there or create new
\* crofdpt instance": there is one instance for a datapath.
OneDatapath == Cardinality(OfDatapath) <= 1

\* A channel with connections has a main connection, or is_established() and
\* send_message() end in an exception of std::map::at().
MainPresent ==
    \A h \in Chans : Live(h) /\ Members(h) # {} => chan[h].conns[0] # NoConn

\* No thread waits for a lock that it holds itself.
NoSelfDeadlock == \A h \in Chans : ~chan[h].stuck
=============================================================================
