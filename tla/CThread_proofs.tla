-------------------------- MODULE CThread_proofs --------------------------
(***************************************************************************)
(* Proofs about the event loop of cthread, for any number of environments, *)
(* descriptors and timers.                                                 *)
(***************************************************************************)
EXTENDS CThread, WellFoundedInduction, TLAPS

(***************************************************************************)
(* A set of natural numbers that is not empty has a smallest element.      *)
(***************************************************************************)
LEMMA Smallest ==
    ASSUME NEW S \in SUBSET Nat, S # {}
    PROVE  \E m \in S : \A n \in S : m <= n
<1> DEFINE R == {p \in Nat \X Nat : p[1] < p[2]}
<1>1. \E m \in S : \A n \in S : <<n, m>> \notin R
  <2>1. IsWellFoundedOn(R, Nat)
    BY NatLessThanWellFounded, Zenon DEF OpToRel
  <2> HIDE DEF R
  <2> QED
    BY <2>1, WFMin
<1>2. \A a, b \in Nat : <<a, b>> \notin R => b <= a
  OBVIOUS
<1> HIDE DEF R
<1>3. QED
  BY <1>1, <1>2

AllIds == UNION {TimerIds[e] : e \in Envs}

(***************************************************************************)
(* The first element of ordered_timers, which are ordered by expiry and    *)
(* id, is one that none expires before.                                    *)
(***************************************************************************)
LEMMA FirstExpires ==
    ASSUME timers \subseteq Timer, timers # {}
    PROVE  First \in timers /\ \A u \in timers : First.at <= u.at
<1>1. \A t \in timers : t.at \in Nat /\ t.id \in Nat
  BY TimerIdsAssumption, MaxTimeAssumption DEF Timer
<1>2. \E t \in timers : \A u \in timers : ~Before(u, t)
  <2> DEFINE S == {t.at : t \in timers}
  <2>1. S \in SUBSET Nat /\ S # {}
    BY <1>1
  <2>2. PICK m \in S : \A n \in S : m <= n
    BY <2>1, Smallest
  <2> DEFINE L == {t \in timers : t.at = m}
             I == {t.id : t \in L}
  <2>3. I \in SUBSET Nat /\ I # {}
    BY <1>1
  <2>4. PICK i \in I : \A n \in I : i <= n
    BY <2>3, Smallest
  <2>5. PICK t \in timers : t.at = m /\ t.id = i
    BY <2>4
  <2>6. ASSUME NEW u \in timers PROVE ~Before(u, t)
    <3>1. m <= u.at /\ (u.at = m => i <= u.id)
      BY <2>2, <2>4
    <3>2. QED
      BY <1>1, <2>5, <3>1 DEF Before
  <2>7. QED
    BY <2>6
<1>3. First \in timers /\ \A u \in timers : ~Before(u, First)
  BY <1>2 DEF First
<1>4. QED
  BY <1>1, <1>3 DEF Before

(***************************************************************************)
(* The timer ids of different environments differ: ordered_timers does not *)
(* tell equal ids apart, and emplace() would drop the second timer.        *)
(***************************************************************************)
OwnIds == \A d, e \in Envs : d # e => TimerIds[d] \cap TimerIds[e] = {}

OwnTimers == \A t \in timers : t.id \in TimerIds[t.env]
Kept == OwnIds => TimersKept

(***************************************************************************)
(* The inductive invariant of the loop.                                    *)
(***************************************************************************)
IInv == TypeOK /\ OwnTimers /\ NoLostWakeup /\ Kept /\ NoOversleep

(***************************************************************************)
(* add_timer() replaces a timer of the same environment and id, and wakes  *)
(* a loop that would sleep past the new one.                               *)
(***************************************************************************)
LEMMA AddTimerStep ==
    ASSUME IInv, NEW self \in BOOLEAN, NEW e \in Envs, NEW id \in TimerIds[e],
           NEW at \in 0..MaxTime, AddTimer(self, e, id, at)
    PROVE  IInv'
<1> USE DEF IInv
<1> DEFINE new == [env |-> e, id |-> id, at |-> at]
           rest == timers \ Of(e, id)
<1>1. new \in Timer /\ new.env = e /\ new.id = id /\ new.at = at
  BY DEF Timer
<1>2. OwnIds => {t \in rest : ~Before(t, new) /\ ~Before(new, t)} = {}
  <2> SUFFICES ASSUME OwnIds, NEW t \in timers, t \notin Of(e, id), ~Before(t, new), ~Before(new, t)
               PROVE  FALSE
    OBVIOUS
  <2>1. t.at \in Nat /\ at \in Nat /\ t.id \in Nat /\ id \in Nat /\ t.env \in Envs
    BY TimerIdsAssumption, MaxTimeAssumption DEF TypeOK, Timer
  <2>2. t.at = at /\ t.id = id
    BY <1>1, <2>1 DEF Before
  <2>3. t.env # e
    BY <2>2 DEF Of
  <2>4. QED
    BY <2>1, <2>2, <2>3 DEF OwnIds, OwnTimers
<1>3. /\ timers' \in {rest, rest \union {new}} /\ (OwnIds => timers' = rest \union {new})
      /\ armed' = armed \union {<<e, id>>}
      /\ UNCHANGED <<envs, wakeups, event_fd, fds, ready, running, now, deadline, thrown>>
      /\ MayCall(self) /\ ThenWrite(self, timers = {} \/ at < First.at)
  BY <1>2 DEF AddTimer, timevars
<1>4. /\ UNCHANGED <<pc, events, batch, called, ret, carg>>
      /\ cpc' = cpc \/ (cpc = "idle" /\ cpc' = "write")
  BY <1>3 DEF ThenWrite, MayCall, loopvars, callvars
<1>5. TypeOK'
  <2>1. timers' \subseteq Timer
    BY <1>1, <1>3 DEF TypeOK
  <2>2. armed' \subseteq Envs \X UNION {TimerIds[d] : d \in Envs}
    BY <1>3 DEF TypeOK
  <2>3. QED
    BY <1>3, <1>4, <2>1, <2>2 DEF TypeOK
<1>6. OwnTimers'
  BY <1>1, <1>3 DEF OwnTimers
<1>7. NoLostWakeup'
  BY <1>3, <1>4 DEF NoLostWakeup, Signalled
<1>8. Kept'
  <2> SUFFICES ASSUME OwnIds PROVE TimersKept'
    BY DEF Kept
  <2>0. TimersKept /\ timers' = rest \union {new}
    BY <1>3 DEF Kept
  <2>1. \A t \in rest : ~(t.env = e /\ t.id = id)
    BY DEF Of
  <2>2. \A t, u \in timers' : t.env = u.env /\ t.id = u.id => t = u
    <3> HIDE DEF new, rest
    <3>1. \A t \in rest : t \in timers
      BY DEF rest
    <3>2. QED
      BY <1>1, <2>0, <2>1, <3>1 DEF TimersKept
  <2>3. armed' = {<<t.env, t.id>> : t \in timers'}
    <3>1. \A t \in timers : t \in rest \/ <<t.env, t.id>> = <<e, id>>
      BY DEF Of
    <3>2. \A a \in armed' : \E t \in timers' : a = <<t.env, t.id>>
      <4>1. <<new.env, new.id>> = <<e, id>> /\ new \in timers'
        BY <1>1, <2>0
      <4> HIDE DEF new, rest
      <4>2. QED
        BY <1>3, <2>0, <3>1, <4>1 DEF TimersKept
    <3>3. \A t \in timers' : <<t.env, t.id>> \in armed'
      <4>1. <<new.env, new.id>> = <<e, id>> /\ rest \subseteq timers
        BY <1>1
      <4> HIDE DEF new, rest
      <4>2. QED
        BY <1>3, <2>0, <4>1 DEF TimersKept
    <3>4. QED
      BY <3>2, <3>3
  <2>4. QED
    BY <2>2, <2>3 DEF TimersKept
<1>9. NoOversleep'
  <2> SUFFICES ASSUME pc = "epoll", ~Signalled',
                      NEW t \in timers'
               PROVE  deadline <= t.at \/ deadline <= now
    BY <1>3, <1>4 DEF NoOversleep
  <2>1. ~Signalled
    BY <1>3, <1>4 DEF Signalled
  <2>2. ~self /\ cpc' # "write"
    BY <1>3 DEF MayCall, Signalled
  <2>3. timers # {} /\ ~(at < First.at)
    BY <1>3, <2>2 DEF ThenWrite
  <2>4. First \in timers
    BY <2>3, FirstExpires DEF TypeOK
  <2>5. CASE t \in timers
    BY <2>1, <2>5 DEF NoOversleep
  <2>6. CASE t = new
    <3>1. First.at \in Nat /\ at \in Nat /\ deadline \in Nat
      BY <2>4, MaxTimeAssumption DEF TypeOK, Timer, Forever
    <3>2. deadline <= First.at \/ deadline <= now
      BY <2>1, <2>4 DEF NoOversleep
    <3>3. QED
      BY <1>1, <2>3, <2>6, <3>1, <3>2
  <2>7. QED
    BY <1>3, <2>5, <2>6
<1>10. QED
  BY <1>5, <1>6, <1>7, <1>8, <1>9

(***************************************************************************)
(* Timers are only removed, each with its entry in armed.                  *)
(***************************************************************************)
LEMMA Removed ==
    ASSUME OwnTimers, Kept, TypeOK, timers' \subseteq timers, armed' \subseteq armed,
           TimersKept => armed' = {a \in armed : \E t \in timers' : a = <<t.env, t.id>>}
    PROVE  OwnTimers' /\ Kept' /\ timers' \subseteq Timer
           /\ armed' \subseteq Envs \X UNION {TimerIds[d] : d \in Envs}
<1>1. OwnTimers' /\ timers' \subseteq Timer
  BY DEF OwnTimers, TypeOK
<1>2. armed' \subseteq Envs \X UNION {TimerIds[d] : d \in Envs}
  BY DEF TypeOK
<1>3. Kept'
  BY DEF Kept, TimersKept
<1>4. QED
  BY <1>1, <1>2, <1>3

LEMMA LoopStep ==
    ASSUME IInv, [Next]_vars
    PROVE  IInv'
<1> USE DEF IInv
<1>0. ASSUME UNCHANGED <<timers, armed>> PROVE OwnTimers' /\ Kept'
  BY <1>0 DEF OwnTimers, Kept, TimersKept
<1>1. timers # {} => First \in timers /\ First \in Timer /\ \A u \in timers : First.at <= u.at
  BY FirstExpires DEF TypeOK
\* Operations of a handler or of the other thread.
<1>2. ASSUME NEW self \in BOOLEAN, NEW e \in Envs, NEW id \in TimerIds[e], DropTimer(self, e, id)
      PROVE  IInv'
  <2>1. /\ timers' = timers \ Of(e, id) /\ armed' = armed \ {<<e, id>>}
        /\ event_fd' = (event_fd \/ ~self)
        /\ UNCHANGED <<envs, wakeups, fds, ready, running, now, deadline, thrown, cpc, carg, pc,
                       events, batch, called, ret>>
    BY <1>2 DEF DropTimer, timevars, callvars, loopvars
  <2>2. TimersKept => armed' = {a \in armed : \E t \in timers' : a = <<t.env, t.id>>}
    <3>1. \A t \in timers : <<t.env, t.id>> = <<e, id>> <=> t \in Of(e, id)
      BY DEF Of
    <3>2. QED
      BY <2>1, <3>1 DEF TimersKept
  <2>3. OwnTimers' /\ Kept' /\ timers' \subseteq Timer
        /\ armed' \subseteq Envs \X UNION {TimerIds[d] : d \in Envs}
    BY <2>1, <2>2, Removed
  <2>4. event_fd' \in BOOLEAN /\ (event_fd => event_fd')
    BY <2>1
  <2>5. TypeOK'
    BY <2>1, <2>3, <2>4 DEF TypeOK
  <2>6. NoLostWakeup' /\ NoOversleep'
    BY <2>1, <2>4 DEF NoLostWakeup, NoOversleep, Signalled
  <2>7. QED
    BY <2>3, <2>5, <2>6
<1>3. ASSUME NEW self \in BOOLEAN, NEW e \in Envs, Wakeup(self, e) PROVE IInv'
  <2>1. /\ UNCHANGED <<envs, timers, armed, fds, ready, running, now, deadline, thrown, carg, pc,
                       events, batch, called, ret>>
        /\ wakeups' = wakeups \union {e}
        /\ \/ event_fd' = TRUE /\ cpc' = cpc
           \/ event_fd' = event_fd /\ cpc = "idle" /\ cpc' = "write"
    BY <1>3 DEF Wakeup, MayCall, ThenWrite, timevars, callvars, loopvars
  <2>2. TypeOK'
    BY <2>1 DEF TypeOK
  <2>3. NoLostWakeup' /\ NoOversleep'
    BY <2>1 DEF NoLostWakeup, NoOversleep, Signalled
  <2>4. QED
    BY <1>0, <2>1, <2>2, <2>3
<1>4. ASSUME NEW self \in BOOLEAN, NEW e \in Envs, NEW f \in Fds, AddFd(self, e, f) PROVE IInv'
  BY <1>0, <1>4 DEF AddFd, TypeOK, NoLostWakeup, NoOversleep, Signalled, timevars, callvars, loopvars
<1>5. ASSUME NEW self \in BOOLEAN, Operation(self) PROVE IInv'
  BY <1>2, <1>3, <1>4, <1>5, AddTimerStep DEF Operation
<1>6. ASSUME NEW self \in BOOLEAN, FdOperation(self) PROVE IInv'
  <2>1. PICK f \in Fds : DropFd(self, f)
    BY <1>6 DEF FdOperation
  <2>2. QED
    BY <1>0, <2>1 DEF DropFd, TypeOK, NoLostWakeup, NoOversleep, Signalled, timevars, callvars,
       loopvars
<1>7. CASE WriteEventFd \/ StopWrite
  <2>1. /\ event_fd' = TRUE /\ cpc' \in {"idle", "join"}
        /\ UNCHANGED <<envs, wakeups, timers, armed, fds, ready, running, now, deadline, thrown, carg,
                       pc, events, batch, called, ret>>
    BY <1>7 DEF WriteEventFd, StopWrite, timevars, loopvars
  <2>2. QED
    BY <1>0, <2>1 DEF TypeOK, NoLostWakeup, NoOversleep, Signalled
\* The destruction of an environment.
<1>8. ASSUME NEW e \in Envs, DestroyWakeup(e) PROVE IInv'
  BY <1>0, <1>8 DEF DestroyWakeup, TypeOK, NoLostWakeup, NoOversleep, Signalled, timevars, loopvars
<1>9. CASE DestroyFds
  <2>1. /\ fds' \in [Fds -> Envs \union {None}] /\ ready' \subseteq Fds
        /\ cpc = "drop_fds" /\ cpc' = "drop_timers"
        /\ UNCHANGED <<carg, envs, wakeups, event_fd, timers, armed, running, now, deadline, thrown,
                       pc, events, batch, called, ret>>
    BY <1>9 DEF DestroyFds, TypeOK, timevars, loopvars
  <2>2. QED
    BY <1>0, <2>1 DEF TypeOK, NoLostWakeup, NoOversleep, Signalled
<1>10. CASE DestroyTimers
  <2>1. /\ timers' = {t \in timers : t.env # carg} /\ armed' = {a \in armed : a[1] # carg}
        /\ event_fd' = (event_fd \/ timers' # timers) /\ cpc = "drop_timers" /\ cpc' = "erase"
        /\ UNCHANGED <<carg, envs, wakeups, fds, ready, running, now, deadline, thrown, pc, events,
                       batch, called, ret>>
    BY <1>10 DEF DestroyTimers, timevars, loopvars
  <2>2. TimersKept => armed' = {a \in armed : \E t \in timers' : a = <<t.env, t.id>>}
    <3>1. \A t \in timers : <<t.env, t.id>>[1] = t.env
      OBVIOUS
    <3>2. QED
      BY <2>1, <3>1 DEF TimersKept
  <2>3. OwnTimers' /\ Kept' /\ timers' \subseteq Timer
        /\ armed' \subseteq Envs \X UNION {TimerIds[d] : d \in Envs}
    BY <2>1, <2>2, Removed
  <2>4. event_fd' \in BOOLEAN /\ (event_fd => event_fd') /\ timers' \subseteq timers
    BY <2>1
  <2>5. TypeOK'
    BY <2>1, <2>3, <2>4 DEF TypeOK
  <2>6. NoLostWakeup' /\ NoOversleep'
    BY <2>1, <2>4 DEF NoLostWakeup, NoOversleep, Signalled
  <2>7. QED
    BY <2>3, <2>5, <2>6
<1>11. CASE DestroyErase \/ Stop
  BY <1>0, <1>11 DEF DestroyErase, Stop, TypeOK, NoLostWakeup, NoOversleep, Signalled, timevars,
     loopvars
\* The loop.
<1>12. CASE Top
  <2>1. /\ pc' \in {"epoll", "out"}
        /\ UNCHANGED <<envs, wakeups, event_fd, timers, armed, fds, ready, running, now, thrown, events,
                       batch, called, ret, cpc, carg>> /\ pc = "top"
    BY <1>12 DEF Top, Shared, callvars
  <2>2. /\ deadline' \in 0..Forever
        /\ pc' = "epoll" => \A t \in timers : deadline' <= t.at \/ deadline' <= now
    <3>1. now \in Nat /\ now <= MaxTime /\ Forever = MaxTime + 1 /\ MaxTime \in Nat
          /\ \A t \in timers : t.at \in 0..MaxTime
      BY MaxTimeAssumption DEF TypeOK, Forever, Timer
    <3>2. CASE ~running
      BY <1>12, <3>2 DEF Top, TypeOK
    <3>3. CASE running /\ timers = {}
      BY <1>12, <3>1, <3>3 DEF Top
    <3>4. CASE running /\ timers # {}
      <4>1. deadline' = (IF First.at < now THEN now ELSE First.at) /\ First.at \in 0..MaxTime
        BY <1>1, <1>12, <3>1, <3>4 DEF Top
      <4>2. QED
        BY <1>1, <3>1, <3>4, <4>1
    <3>5. QED
      BY <3>2, <3>3, <3>4
  <2>3. TypeOK'
    BY <2>1, <2>2 DEF TypeOK, LoopPcs
  <2>4. NoLostWakeup' /\ NoOversleep'
    BY <2>1, <2>2 DEF NoLostWakeup, NoOversleep, Signalled
  <2>5. QED
    BY <1>0, <2>1, <2>3, <2>4
<1>13. CASE Epoll
  <2>1. /\ UNCHANGED <<envs, wakeups, event_fd, timers, armed, fds, running, now, thrown, batch, called,
                       ret, cpc, carg>>
        /\ ready' = {} /\ pc' \in {"timers", "out"} /\ deadline' = Forever /\ pc = "epoll"
        /\ events' = ready \union (IF event_fd THEN {EVENT_FD} ELSE {})
    BY <1>13 DEF Epoll, callvars
  <2>2. deadline' \in 0..Forever
    BY <2>1, MaxTimeAssumption DEF Forever
  <2>3. QED
    BY <1>0, <2>1, <2>2 DEF TypeOK, LoopPcs, NoLostWakeup, NoOversleep, Signalled
<1>14. CASE Expire
  <2>1. /\ timers # {} /\ timers' = timers \ {First} /\ armed' = armed \ {<<First.env, First.id>>}
        /\ pc = "timers" /\ pc' \in {"timeout", "out"} /\ called' \in {First.env, called}
        /\ UNCHANGED <<ret, envs, wakeups, event_fd, fds, ready, running, now, deadline, thrown,
                       events, batch, cpc, carg>>
    BY <1>14 DEF Expire, Expired, timevars, callvars
  <2>2. PICK f \in timers : f = First
    BY <1>1, <2>1
  <2>3. TimersKept => armed' = {a \in armed : \E t \in timers' : a = <<t.env, t.id>>}
    <3>1. TimersKept => \A t \in timers : <<t.env, t.id>> = <<f.env, f.id>> => t = f
      BY DEF TimersKept
    <3>2. QED
      BY <2>1, <2>2, <3>1 DEF TimersKept
  <2>4. OwnTimers' /\ Kept' /\ timers' \subseteq Timer
        /\ armed' \subseteq Envs \X UNION {TimerIds[d] : d \in Envs}
    BY <2>1, <2>3, Removed
  <2>5. called' \in Envs \union {None}
    BY <1>1, <2>1 DEF TypeOK, Timer
  <2>6. QED
    BY <2>1, <2>4, <2>5 DEF TypeOK, LoopPcs, NoLostWakeup, NoOversleep, Signalled
<1>15. ASSUME UNCHANGED <<Shared, timevars, callvars>>, pc # "wakeups", pc # "out", pc' # "epoll",
              pc' \in LoopPcs, ret' \in {"top", "timers", "batch", "fds"},
              called' \in Envs \union {None}, events' \subseteq events, batch' \subseteq batch
       PROVE  IInv'
  BY <1>0, <1>15 DEF Shared, timevars, callvars, TypeOK, NoLostWakeup, NoOversleep, Signalled
<1>16. CASE HandleTimeout
  BY <1>15, <1>16 DEF HandleTimeout, Invoke, TypeOK, LoopPcs
<1>17. CASE TimersDone \/ WakeupsDone
  BY <1>15, <1>17 DEF TimersDone, WakeupsDone, TypeOK, LoopPcs
<1>18. CASE ReadEventFd
  BY <1>0, <1>18 DEF ReadEventFd, TypeOK, LoopPcs, NoLostWakeup, NoOversleep, Signalled, timevars,
     callvars
<1>19. CASE TakeWakeups
  BY <1>0, <1>19 DEF TakeWakeups, TypeOK, LoopPcs, NoLostWakeup, NoOversleep, Signalled, timevars,
     callvars
<1>20. ASSUME NEW e \in Envs, HandleWakeup(e) PROVE IInv'
  BY <1>15, <1>20 DEF HandleWakeup, Invoke, TypeOK, LoopPcs
<1>21. ASSUME NEW f \in Fds, HandleEvent(f) PROVE IInv'
  BY <1>15, <1>21 DEF HandleEvent, Invoke, TypeOK, LoopPcs
<1>22. CASE RoundDone
  BY <1>15, <1>22 DEF RoundDone, TypeOK, LoopPcs
<1>23. CASE Return
  BY <1>15, <1>23 DEF Return, TypeOK, LoopPcs
<1>24. CASE Throw
  BY <1>0, <1>24 DEF Throw, Shared, callvars, TypeOK, LoopPcs, NoLostWakeup, NoOversleep, Signalled
\* Clock and kernel.
<1>25. CASE Tick
  <2>1. now' \in 0..MaxTime /\ now' = now + 1 /\ now \in Nat
        /\ UNCHANGED <<envs, wakeups, event_fd, timers, armed, fds, ready, running, deadline, thrown,
                       pc, events, batch, called, ret, cpc, carg>>
    BY <1>25, MaxTimeAssumption DEF Tick, Shared, loopvars, callvars, TypeOK
  <2>2. deadline <= now => deadline <= now'
    BY <2>1, MaxTimeAssumption DEF TypeOK, Forever
  <2>3. QED
    BY <1>0, <2>1, <2>2 DEF TypeOK, NoLostWakeup, NoOversleep, Signalled
<1>26. ASSUME NEW f \in Fds, Edge(f) PROVE IInv'
  BY <1>0, <1>26 DEF Edge, TypeOK, NoLostWakeup, NoOversleep, Signalled, timevars, loopvars, callvars
<1>27. CASE UNCHANGED vars
  BY <1>0, <1>27 DEF vars, TypeOK, NoLostWakeup, NoOversleep, Signalled
<1>28. CASE Client
  BY <1>5, <1>6, <1>7, <1>8, <1>9, <1>10, <1>11, <1>28 DEF Client
<1>29. CASE Loop
  BY <1>12, <1>13, <1>14, <1>16, <1>17, <1>18, <1>19, <1>20, <1>21, <1>22, <1>23, <1>24, <1>29 DEF Loop
<1>30. CASE Handler
  BY <1>5, <1>6, <1>30 DEF Handler
<1>31. QED
  BY <1>25, <1>26, <1>27, <1>28, <1>29, <1>30 DEF Next

(***************************************************************************)
(* The loop has nothing to do at first.                                    *)
(***************************************************************************)
LEMMA LoopInit == Init => IInv
<1> SUFFICES ASSUME Init PROVE IInv
  OBVIOUS
<1>1. now \in 0..MaxTime /\ deadline \in 0..Forever
  BY MaxTimeAssumption DEF Init, Forever
<1>2. TypeOK
  BY <1>1 DEF Init, TypeOK, LoopPcs
<1>3. QED
  BY <1>2 DEF Init, IInv, OwnTimers, NoLostWakeup, Kept, TimersKept, NoOversleep

(***************************************************************************)
(* LoopInv: no wakeup() is lost between the set and the eventfd, and each  *)
(* timer added is kept, once, until it is dropped or expires, whatever     *)
(* handlers and other threads do in between, if no two environments use    *)
(* the same timer id.                                                      *)
(***************************************************************************)
THEOREM NothingIsForgotten == ASSUME OwnIds PROVE Spec => []LoopInv
<1>1. IInv => LoopInv
  BY DEF IInv, Kept, LoopInv
<1>2. IInv /\ [Next]_vars => IInv'
  BY LoopStep
<1>3. QED
  BY <1>1, <1>2, LoopInit, PTL DEF Spec

(***************************************************************************)
(* NoOversleep: run_loop() computes its timeout, releases tlock and then   *)
(* sleeps, and yet never sleeps past a timer, because add_timer() wakes it *)
(* when the new timer is the first.                                        *)
(***************************************************************************)
THEOREM NeverOversleeps == Spec => []NoOversleep
<1>1. IInv => NoOversleep
  BY DEF IInv
<1>2. IInv /\ [Next]_vars => IInv'
  BY LoopStep
<1>3. QED
  BY <1>1, <1>2, LoopInit, PTL DEF Spec

=============================================================================
