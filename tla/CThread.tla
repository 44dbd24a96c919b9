------------------------------- MODULE CThread -------------------------------
(***************************************************************************)
(* One cthread: the loop that waits in epoll_pwait() for file descriptors, *)
(* wakeups and timers and calls the environments they belong to, and the   *)
(* operations by which another thread, or a handler inside the loop, asks  *)
(* for such a call.                                                        *)
(*                                                                         *)
(* tlock protects each operation on wakeups, ordered_timers and fds; the   *)
(* eventfd is written after it has been released, and handlers run without *)
(* any lock.  Time is counted in milliseconds from an arbitrary origin.    *)
(***************************************************************************)
EXTENDS Naturals, FiniteSets

CONSTANTS
    Envs,        \* cthread_env instances
    Fds,         \* file descriptor numbers
    TimerIds,    \* [Envs -> SUBSET Nat]: timer ids an environment uses
    MaxTime,     \* BOUND: the clock stops here
    Throws,      \* TRUE: a handler may throw a runtime_error
    MayDestroy   \* TRUE: the other thread may destroy an environment

ASSUME TimerIdsAssumption == TimerIds \in [Envs -> SUBSET Nat]
ASSUME MaxTimeAssumption == MaxTime \in Nat
ASSUME FlagsAssumption == Throws \in BOOLEAN /\ MayDestroy \in BOOLEAN

VARIABLES
    envs,       \* cthread_env::envs, the environments that exist
    wakeups,    \* environments to be woken
    event_fd,   \* the eventfd's counter is not zero
    timers,     \* ordered_timers
    armed,      \* timers added and neither dropped nor expired (history)
    fds,        \* environment a registered descriptor belongs to
    ready,      \* edges epoll has not reported yet
    now,
    running,
    thrown,     \* a handler has thrown an exception (history)
    pc,         \* where the loop is
    deadline,   \* when epoll_pwait() returns at the latest
    events,     \* what epoll_pwait() has returned and is not handled yet
    batch,      \* environments handle_wakeup() has still to call
    called,     \* the environment whose handler runs
    ret,        \* where the loop goes on when the handler returns
    cpc, carg   \* position and argument of the other thread

vars == <<envs, wakeups, event_fd, timers, armed, fds, ready, now, running,
          thrown, pc, deadline, events, batch, called, ret, cpc, carg>>
Shared == <<envs, wakeups, event_fd, timers, armed, fds, ready, running>>
timevars == <<now, deadline, thrown>>
loopvars == <<pc, events, batch, called, ret>>
callvars == <<cpc, carg>>

None == "none"
EVENT_FD == "event_fd"
Timer == [env : Envs, id : UNION {TimerIds[e] : e \in Envs}, at : 0..MaxTime]
Forever == MaxTime + 1    \* the timeout of one hour for a thread without timers

\* ctimer::operator<, which does not look at the environment.
Before(t, u) == IF t.at = u.at THEN t.id < u.id ELSE t.at < u.at
First == CHOOSE t \in timers : \A u \in timers : ~Before(u, t)
Expired == timers # {} /\ First.at <= now
Of(e, id) == {t \in timers : t.env = e /\ t.id = id}

Init ==
    /\ envs = Envs /\ wakeups = {} /\ event_fd = FALSE
    /\ timers = {} /\ armed = {}
    /\ fds = [f \in Fds |-> None] /\ ready = {}
    /\ now = 0 /\ running = TRUE /\ thrown = FALSE
    /\ pc = "top" /\ deadline = Forever /\ events = {} /\ batch = {}
    /\ called = None /\ ret = "top"
    /\ cpc = "idle" /\ carg = None

-----------------------------------------------------------------------------
(* Operations, called by a handler of this thread (self) or by another      *)
(* thread.  Only the other thread has to write to the eventfd afterwards.   *)

MayCall(self) == IF self THEN pc = "call" ELSE cpc = "idle"
\* The call ends here, or goes on with the write to the eventfd.
ThenWrite(self, needed) ==
    IF ~self /\ needed THEN cpc' = "write" /\ UNCHANGED <<carg, loopvars>>
    ELSE UNCHANGED <<callvars, loopvars>>

\* add_timer(), as if it never had to wake the loop.
AddTimerSilently(self, e, id, at) ==
    /\ MayCall(self) /\ e \in envs /\ id \in TimerIds[e] /\ at > now
    /\ timers' = (timers \ Of(e, id)) \union {[env |-> e, id |-> id, at |-> at]}
    /\ armed' = armed \union {<<e, id>>}
    /\ UNCHANGED <<envs, wakeups, event_fd, fds, ready, running, timevars, callvars, loopvars>>

\* add_timer() that leaves an earlier timer of the same id in place.
AddTimerTwice(self, e, id, at) ==
    /\ MayCall(self) /\ e \in envs /\ id \in TimerIds[e] /\ at > now
    /\ timers' = timers \union {[env |-> e, id |-> id, at |-> at]}
    /\ armed' = armed \union {<<e, id>>}
    /\ ThenWrite(self, timers = {} \/ at < First.at)
    /\ UNCHANGED <<envs, wakeups, event_fd, fds, ready, running, timevars>>

\* add_timer(): std::set::emplace() does nothing when an equal timer exists.
AddTimer(self, e, id, at) ==
    LET new == [env |-> e, id |-> id, at |-> at]
        rest == timers \ Of(e, id)
        equal == {t \in rest : ~Before(t, new) /\ ~Before(new, t)}
        do_wakeup == timers = {} \/ at < First.at IN
    /\ MayCall(self) /\ e \in envs /\ id \in TimerIds[e] /\ at > now
    /\ timers' = IF equal = {} THEN rest \union {new} ELSE rest
    /\ armed' = armed \union {<<e, id>>}
    /\ ThenWrite(self, do_wakeup)
    /\ UNCHANGED <<envs, wakeups, event_fd, fds, ready, running, timevars>>

\* drop_timer(): writes to the eventfd with tlock held.
DropTimer(self, e, id) ==
    /\ MayCall(self) /\ Of(e, id) # {}
    /\ timers' = timers \ Of(e, id)
    /\ armed' = armed \ {<<e, id>>}
    /\ event_fd' = (event_fd \/ ~self)
    /\ UNCHANGED <<envs, wakeups, fds, ready, running, timevars, callvars, loopvars>>

\* wakeup(env): the first half under tlock, the write without it.
Wakeup(self, e) ==
    /\ MayCall(self) /\ e \in envs
    /\ wakeups' = wakeups \union {e}
    /\ IF self THEN event_fd' = TRUE /\ UNCHANGED <<callvars, loopvars>>
       ELSE UNCHANGED event_fd /\ ThenWrite(self, TRUE)
    /\ UNCHANGED <<envs, timers, armed, fds, ready, running, timevars>>

WriteEventFd ==
    /\ cpc = "write"
    /\ event_fd' = TRUE
    /\ cpc' = "idle" /\ UNCHANGED carg
    /\ UNCHANGED <<envs, wakeups, timers, armed, fds, ready, running, timevars, loopvars>>

\* add_fd() with add_read_fd() or add_write_fd().  Data that wait are an edge.
AddFd(self, e, f) ==
    /\ MayCall(self) /\ e \in envs /\ fds[f] = None
    /\ fds' = [fds EXCEPT ![f] = e]
    /\ UNCHANGED <<envs, wakeups, event_fd, timers, armed, ready, running, timevars,
                   callvars, loopvars>>

\* drop_read_fd(), drop_write_fd(), drop_fd(): what epoll has not reported goes.
DropFd(self, f) ==
    /\ MayCall(self) /\ fds[f] # None
    /\ fds' = [fds EXCEPT ![f] = None]
    /\ ready' = ready \ {f}
    /\ UNCHANGED <<envs, wakeups, event_fd, timers, armed, running, timevars,
                   callvars, loopvars>>

Operation(self) ==
    \E e \in Envs :
        \/ \E id \in TimerIds[e] : \/ \E at \in 0..MaxTime : AddTimer(self, e, id, at)
                                   \/ DropTimer(self, e, id)
        \/ Wakeup(self, e)
        \/ \E f \in Fds : AddFd(self, e, f)
FdOperation(self) == \E f \in Fds : DropFd(self, f)

-----------------------------------------------------------------------------
(* The other thread destroys an environment: drop(env), then ~cthread_env.  *)

DestroyWakeup(e) ==
    /\ MayDestroy /\ cpc = "idle" /\ e \in envs
    /\ wakeups' = wakeups \ {e}
    /\ cpc' = "drop_fds" /\ carg' = e
    /\ UNCHANGED <<envs, event_fd, timers, armed, fds, ready, running, timevars, loopvars>>

DestroyFds ==
    /\ cpc = "drop_fds"
    /\ fds' = [f \in Fds |-> IF fds[f] = carg THEN None ELSE fds[f]]
    /\ ready' = {f \in ready : fds[f] # carg}
    /\ cpc' = "drop_timers" /\ UNCHANGED carg
    /\ UNCHANGED <<envs, wakeups, event_fd, timers, armed, running, timevars, loopvars>>

DestroyTimers ==
    /\ cpc = "drop_timers"
    /\ timers' = {t \in timers : t.env # carg}
    /\ armed' = {a \in armed : a[1] # carg}
    /\ event_fd' = (event_fd \/ timers' # timers)
    /\ cpc' = "erase" /\ UNCHANGED carg
    /\ UNCHANGED <<envs, wakeups, fds, ready, running, timevars, loopvars>>

DestroyErase ==
    /\ cpc = "erase"
    /\ envs' = envs \ {carg}
    /\ cpc' = "idle" /\ carg' = None
    /\ UNCHANGED <<wakeups, event_fd, timers, armed, fds, ready, running, timevars, loopvars>>

\* stop(): running is reset before the loop is woken; the caller then joins.
Stop ==
    /\ cpc = "idle" /\ running
    /\ running' = FALSE
    /\ cpc' = "write_join" /\ UNCHANGED carg
    /\ UNCHANGED <<envs, wakeups, event_fd, timers, armed, fds, ready, timevars, loopvars>>

\* stop() that relies on the loop to look at running by itself.
StopQuietly ==
    /\ cpc = "write_join" /\ cpc' = "join"
    /\ UNCHANGED <<Shared, timevars, carg, loopvars>>

StopWrite ==
    /\ cpc = "write_join"
    /\ event_fd' = TRUE
    /\ cpc' = "join" /\ UNCHANGED carg
    /\ UNCHANGED <<envs, wakeups, timers, armed, fds, ready, running, timevars, loopvars>>

Client == \/ Operation(FALSE) \/ FdOperation(FALSE) \/ WriteEventFd
          \/ (\E e \in Envs : DestroyWakeup(e)) \/ DestroyFds \/ DestroyTimers
          \/ DestroyErase \/ Stop \/ StopWrite

-----------------------------------------------------------------------------
(* The loop: run_loop() and handle_wakeup().                                *)

\* The timeout of the next epoll_pwait(), from the first timer.
Top ==
    /\ pc = "top"
    /\ IF running
       THEN /\ deadline' = IF timers = {} THEN Forever
                           ELSE IF First.at < now THEN now ELSE First.at
            /\ pc' = "epoll"
       ELSE pc' = "out" /\ UNCHANGED deadline
    /\ UNCHANGED <<Shared, now, thrown, events, batch, called, ret, callvars>>

\* epoll_pwait() returns.
Epoll ==
    /\ pc = "epoll"
    /\ event_fd \/ ready # {} \/ now >= deadline
    /\ events' = ready \union (IF event_fd THEN {EVENT_FD} ELSE {})
    /\ ready' = {}
    /\ pc' = IF running THEN "timers" ELSE "out"
    /\ deadline' = Forever
    /\ UNCHANGED <<envs, wakeups, event_fd, timers, armed, fds, running, now, thrown,
                   batch, called, ret, callvars>>

\* A call of a handler that begins with the lookup of its environment.
Invoke(e, back) ==
    /\ pc' = "call" /\ called' = e /\ ret' = back

\* The first timer has expired.  Its environment is looked up after tlock has
\* been released; if it is gone, eThreadNotFound ends the round and the events.
Expire ==
    /\ pc = "timers" /\ Expired
    /\ timers' = timers \ {First}
    /\ armed' = armed \ {<<First.env, First.id>>}
    /\ IF running THEN /\ pc' = "timeout" /\ called' = First.env /\ UNCHANGED ret
       ELSE pc' = "out" /\ UNCHANGED <<called, ret>>
    /\ UNCHANGED <<envs, wakeups, event_fd, fds, ready, running, timevars, events,
                   batch, callvars>>

HandleTimeout ==
    /\ pc = "timeout"
    /\ IF called \in envs THEN Invoke(called, "timers") /\ UNCHANGED events
       ELSE pc' = "top" /\ events' = {} /\ called' = None /\ UNCHANGED ret
    /\ UNCHANGED <<Shared, timevars, batch, callvars>>

TimersDone ==
    /\ pc = "timers" /\ ~Expired
    /\ pc' = "fds"
    /\ UNCHANGED <<Shared, timevars, events, batch, called, ret, callvars>>

\* The eventfd is read, then handle_wakeup() takes the set under tlock.
ReadEventFd ==
    /\ pc = "fds" /\ running /\ EVENT_FD \in events
    /\ event_fd' = FALSE
    /\ events' = events \ {EVENT_FD}
    /\ pc' = "wakeups"
    /\ UNCHANGED <<envs, wakeups, timers, armed, fds, ready, running, timevars,
                   batch, called, ret, callvars>>

TakeWakeups ==
    /\ pc = "wakeups"
    /\ batch' = wakeups
    /\ wakeups' = {}
    /\ pc' = "batch"
    /\ UNCHANGED <<envs, event_fd, timers, armed, fds, ready, running, timevars,
                   events, called, ret, callvars>>

\* handle_wakeup() skips an environment that is gone.
HandleWakeup(e) ==
    /\ pc = "batch" /\ e \in batch
    /\ batch' = batch \ {e}
    /\ IF e \in envs THEN Invoke(e, "batch") ELSE UNCHANGED <<pc, called, ret>>
    /\ UNCHANGED <<Shared, timevars, events, callvars>>

WakeupsDone ==
    /\ pc = "batch" /\ batch = {}
    /\ pc' = "fds"
    /\ UNCHANGED <<Shared, timevars, events, batch, called, ret, callvars>>

\* handle_read_event(), handle_write_event(): the environment is found by the
\* number of the descriptor; an unknown one is skipped.
HandleEvent(f) ==
    /\ pc = "fds" /\ running /\ f \in events \ {EVENT_FD}
    /\ events' = events \ {f}
    /\ IF fds[f] # None /\ fds[f] \in envs THEN Invoke(fds[f], "fds")
       ELSE UNCHANGED <<pc, called, ret>>
    /\ UNCHANGED <<Shared, timevars, batch, callvars>>

RoundDone ==
    /\ pc = "fds" /\ (events = {} \/ ~running)
    /\ pc' = IF events = {} THEN "top" ELSE "out"
    /\ UNCHANGED <<Shared, timevars, events, batch, called, ret, callvars>>

\* The handler returns.
Return ==
    /\ pc = "call"
    /\ pc' = ret /\ called' = None /\ ret' = "top"
    /\ UNCHANGED <<Shared, timevars, events, batch, callvars>>

\* The handler throws: the outer catch clause begins a new round.
Throw ==
    /\ pc = "call" /\ Throws
    /\ pc' = "top" /\ called' = None /\ ret' = "top"
    /\ events' = {} /\ batch' = {} /\ thrown' = TRUE
    /\ UNCHANGED <<Shared, now, deadline, callvars>>

Loop == \/ Top \/ Epoll \/ Expire \/ HandleTimeout \/ TimersDone \/ ReadEventFd \/ TakeWakeups
        \/ (\E e \in Envs : HandleWakeup(e)) \/ WakeupsDone
        \/ (\E f \in Fds : HandleEvent(f)) \/ RoundDone \/ Return \/ Throw

Handler == pc = "call" /\ (Operation(TRUE) \/ FdOperation(TRUE))

-----------------------------------------------------------------------------
(* Clock and kernel *)

Tick ==
    /\ now < MaxTime
    /\ now' = now + 1
    /\ UNCHANGED <<Shared, deadline, thrown, loopvars, callvars>>

\* New data, or room for new data: an edge of a registered descriptor.
Edge(f) ==
    /\ fds[f] # None /\ f \notin ready
    /\ ready' = ready \union {f}
    /\ UNCHANGED <<envs, wakeups, event_fd, timers, armed, fds, running, timevars,
                   loopvars, callvars>>

Next == Client \/ Loop \/ Handler \/ Tick \/ \E f \in Fds : Edge(f)

Spec == Init /\ [][Next]_vars

-----------------------------------------------------------------------------
(* Properties *)

LoopPcs == {"top", "epoll", "timers", "timeout", "fds", "wakeups", "batch", "call", "out"}

TypeOK ==
    /\ envs \subseteq Envs /\ wakeups \subseteq Envs /\ batch \subseteq Envs
    /\ timers \subseteq Timer
    /\ armed \subseteq Envs \X UNION {TimerIds[e] : e \in Envs}
    /\ fds \in [Fds -> Envs \union {None}]
    /\ ready \subseteq Fds /\ events \subseteq Fds \union {EVENT_FD}
    /\ now \in 0..MaxTime /\ deadline \in 0..Forever
    /\ event_fd \in BOOLEAN /\ running \in BOOLEAN /\ thrown \in BOOLEAN
    /\ pc \in LoopPcs /\ ret \in {"top", "timers", "batch", "fds"}
    /\ called \in Envs \union {None}
    /\ cpc \in {"idle", "write", "drop_fds", "drop_timers", "erase",
                "write_join", "join"}
    /\ carg \in Envs \union {None}

\* The eventfd is readable, or will be by the step of a thread inside wakeup().
Signalled == event_fd \/ cpc \in {"write", "write_join"}

\* A wakeup is not lost between the set and the eventfd: an environment in the
\* set finds the eventfd readable, or the loop about to take the set, in
\* whatever order wakeup() and handle_wakeup() interleave.
NoLostWakeup == wakeups # {} => Signalled \/ pc \in {"wakeups", "out"}

\* The loop does not sleep past a timer: it computes its timeout, releases
\* tlock and then sleeps; whoever adds an earlier timer meanwhile wakes it.
NoOversleep ==
    pc = "epoll" => Signalled \/ \A t \in timers : deadline <= t.at \/ deadline <= now

\* add_timer() keeps its promise: each timer added and neither dropped nor
\* expired is in ordered_timers, once.
TimersKept ==
    /\ armed = {<<t.env, t.id>> : t \in timers}
    /\ \A t, u \in timers : t.env = u.env /\ t.id = u.id => t = u

\* What other threads ask for while the loop runs is recorded and stays
\* recorded until the loop takes it: wakeups with the eventfd, timers by id.
LoopInv == TypeOK /\ NoLostWakeup /\ TimersKept

\* A handler runs in an environment that exists.
NoCallIntoDead == pc = "call" => called \in envs

\* An edge that epoll_pwait() has reported is handled in the same round.
NoEdgeLost == [][\A f \in Fds : f \in events /\ f \notin events' /\ fds[f] \in envs =>
                    pc' \in {"call", "out"}]_vars

-----------------------------------------------------------------------------
(* Fairness: the loop runs on, handlers return, a thread inside an operation *)
(* completes it, and time passes.                                            *)
Fairness ==
    /\ WF_vars(Loop)
    /\ WF_vars(WriteEventFd \/ DestroyFds \/ DestroyTimers \/ DestroyErase \/ StopWrite)
    /\ WF_vars(Tick)
FairSpec == Spec /\ Fairness

\* Whoever is woken is called, unless it goes, the thread is stopped or an
\* exception of another handler ends the round.
WakeupServed ==
    \A e \in Envs :
        e \in wakeups ~> \/ pc = "call" /\ called = e
                         \/ e \notin envs \/ ~running \/ thrown

\* A timer whose time has come expires.
TimersExpire ==
    \A e \in Envs : \A id \in TimerIds[e] :
        <<e, id>> \in armed ~> <<e, id>> \notin armed \/ ~running
            \/ \E t \in timers : t.env = e /\ t.id = id /\ t.at > now

\* stop() ends the loop, which pthread_join() waits for.
StopEnds == ~running ~> pc = "out"

\* Whatever run_loop() is asked for happens: wakeups and timers are delivered,
\* and stop() ends it, although handlers call back, throw and go.
Served == WakeupServed /\ TimersExpire /\ StopEnds
=============================================================================
