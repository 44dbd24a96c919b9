------------------------------- MODULE RofRole -------------------------------
(***************************************************************************)
(* The roles of the controllers attached to a datapath element: crofbase   *)
(* keeps the controllers (rofctls), the cached generation id and, through  *)
(* role_request_rcvd(), the rule that there is one master.                 *)
(*                                                                         *)
(* A controller's messages are handled by the thread of its connection,    *)
(* which comes from a pool: with a pool of one thread a request is handled *)
(* to its end before the next one (OneThread), with more of them any two   *)
(* interleave, since role_request_rcvd() takes no lock.  Controllers come  *)
(* and go in the rx thread in either case.  A refused request (stale, bad  *)
(* role) is answered with an error and changes nothing: a stuttering step. *)
(***************************************************************************)
EXTENDS Integers

CONSTANTS
    MaxCtls,     \* BOUND: controllers attached at a time
    HalfRange,   \* half the number of generation ids (2^63 in the code)
    OneThread    \* TRUE: one thread handles the messages of all controllers

ASSUME MaxCtlsAssumption == MaxCtls \in Nat \ {0}
ASSUME HalfRangeAssumption == HalfRange \in Nat \ {0}
ASSUME OneThreadAssumption == OneThread \in BOOLEAN

Ctls == 0 .. MaxCtls - 1       \* cctlid values; MaxCtls stands for rofctls.end()
GenerationIds == 0 .. 2 * HalfRange - 1
CtlRoles == {"EQUAL", "MASTER", "SLAVE"}
Requests == [role : CtlRoles \union {"NOCHANGE"}, gen : GenerationIds]
NoRequest == [role |-> "NOCHANGE", gen |-> 0]

VARIABLES
    rofctls,                  \* ids of the attached controllers
    ctlrole,                  \* role of each controller
    generation_is_defined, cached_generation_id,
    pc, req,                  \* what is done for each controller, its request
    it                        \* the iterator of the loop over rofctls

rolevars == <<rofctls, ctlrole, generation_is_defined, cached_generation_id, pc, req, it>>
genvars == <<generation_is_defined, cached_generation_id>>

\* cofrole::distance() < 0, a subtraction of signed 64 bit words.
Older(g, h) ==
    LET diff == g - h IN
    IF diff < 0 THEN diff >= -HalfRange ELSE diff >= HalfRange

RoleInit ==
    /\ rofctls = {}
    /\ ctlrole = [c \in Ctls |-> "EQUAL"]
    /\ generation_is_defined = FALSE /\ cached_generation_id = 0
    /\ pc = [c \in Ctls |-> "idle"]
    /\ req = [c \in Ctls |-> NoRequest]
    /\ it = [c \in Ctls |-> MaxCtls]

-----------------------------------------------------------------------------
(* Connections, in the rx thread *)

\* handle_established() of a connection: add_ctl() takes the lowest free id.
Attach(c) ==
    /\ c \notin rofctls
    /\ \A d \in Ctls : d < c => d \in rofctls
    /\ rofctls' = rofctls \union {c}
    /\ ctlrole' = [ctlrole EXCEPT ![c] = "EQUAL"]
    /\ UNCHANGED <<genvars, pc, req, it>>

\* handle_closed() of a passive main connection: drop_ctl().  It has waited for
\* the connection's own thread.
Detach(c) ==
    /\ c \in rofctls
    /\ pc[c] = "idle"
    /\ rofctls' = rofctls \ {c}
    /\ ctlrole' = [ctlrole EXCEPT ![c] = "EQUAL"]
    /\ UNCHANGED <<genvars, pc, req, it>>

\* An active main connection closes or gets established again.
Reset(c) ==
    /\ c \in rofctls
    /\ pc[c] = "idle"
    /\ ctlrole' = [ctlrole EXCEPT ![c] = "EQUAL"]
    /\ UNCHANGED <<rofctls, genvars, pc, req, it>>

-----------------------------------------------------------------------------
(* Messages, in the thread of controller c's connection *)

\* The thread is free to handle a message of c.
ThreadFree(c) ==
    /\ c \in rofctls
    /\ pc[c] = "idle"
    /\ OneThread => \A d \in Ctls : pc[d] = "idle"

\* VARIANT: generation ids are compared as unsigned words.
RequestUnsigned(c, r) ==
    /\ ThreadFree(c)
    /\ generation_is_defined => r.gen >= cached_generation_id
    /\ req' = [req EXCEPT ![c] = r]
    /\ pc' = [pc EXCEPT ![c] = "cache"]
    /\ UNCHANGED <<rofctls, ctlrole, genvars, it>>

\* A request whose generation id is not older than the cached one.
RoleRequest(c, r) ==
    /\ ThreadFree(c)
    /\ generation_is_defined => ~Older(r.gen, cached_generation_id)
    /\ req' = [req EXCEPT ![c] = r]
    /\ pc' = [pc EXCEPT ![c] = "cache"]
    /\ UNCHANGED <<rofctls, ctlrole, genvars, it>>

\* An older generation id does not matter to a controller that wants to be equal.
RequestOlder(c, r) ==
    /\ ThreadFree(c)
    /\ generation_is_defined /\ Older(r.gen, cached_generation_id)
    /\ r.role = "EQUAL"
    /\ req' = [req EXCEPT ![c] = r]
    /\ pc' = [pc EXCEPT ![c] = "become"]
    /\ UNCHANGED <<rofctls, ctlrole, genvars, it>>

\* The ids the loop comes to after id d.
Following(d) ==
    {e \in rofctls \union {MaxCtls} :
        e > d /\ \A f \in rofctls : f > d => e <= f}

\* VARIANT: NOCHANGE falls through to the case that sets the role.
CacheFallsThrough(c) ==
    /\ pc[c] = "cache"
    /\ cached_generation_id' = req[c].gen
    /\ generation_is_defined' = TRUE
    /\ pc' = [pc EXCEPT ![c] = IF req[c].role = "MASTER" THEN "demote" ELSE "become"]
    /\ \E e \in Following(-1) :
           it' = [it EXCEPT ![c] = IF req[c].role = "MASTER" THEN e ELSE @]
    /\ UNCHANGED <<rofctls, ctlrole, req>>

Cache(c) ==
    /\ pc[c] = "cache"
    /\ cached_generation_id' = req[c].gen
    /\ generation_is_defined' = TRUE
    /\ pc' = [pc EXCEPT ![c] = CASE req[c].role = "MASTER" -> "demote"
                                 [] req[c].role = "NOCHANGE" -> "idle"
                                 [] OTHER -> "become"]
    /\ \E e \in Following(-1) :
           it' = [it EXCEPT ![c] = IF req[c].role = "MASTER" THEN e ELSE @]
    /\ req' = IF req[c].role = "NOCHANGE" THEN [req EXCEPT ![c] = NoRequest] ELSE req
    /\ UNCHANGED <<rofctls, ctlrole>>

\* VARIANT: the loop ends at the controller who asks.
DemoteStops(c) ==
    LET d == it[c] IN
    /\ pc[c] = "demote"
    /\ d # MaxCtls
    /\ ctlrole' = IF d # c /\ ctlrole[d] = "MASTER"
                 THEN [ctlrole EXCEPT ![d] = "SLAVE"]
                 ELSE ctlrole
    /\ \E e \in Following(d) : it' = [it EXCEPT ![c] = IF d = c THEN MaxCtls ELSE e]
    /\ UNCHANGED <<rofctls, genvars, pc, req>>

\* "find any other controller and set them back to role SLAVE"
Demote(c) ==
    LET d == it[c] IN
    /\ pc[c] = "demote"
    /\ d # MaxCtls
    /\ ctlrole' = IF d # c /\ ctlrole[d] = "MASTER"
                 THEN [ctlrole EXCEPT ![d] = "SLAVE"]
                 ELSE ctlrole
    /\ \E e \in Following(d) : it' = [it EXCEPT ![c] = e]
    /\ UNCHANGED <<rofctls, genvars, pc, req>>

DemoteDone(c) ==
    /\ pc[c] = "demote"
    /\ it[c] = MaxCtls
    /\ pc' = [pc EXCEPT ![c] = "become"]
    /\ UNCHANGED <<rofctls, ctlrole, genvars, req, it>>

\* The new role is set and told to the controller.
Become(c) ==
    /\ pc[c] = "become"
    /\ ctlrole' = [ctlrole EXCEPT ![c] = req[c].role]
    /\ pc' = [pc EXCEPT ![c] = "idle"]
    /\ req' = [req EXCEPT ![c] = NoRequest]
    /\ UNCHANGED <<rofctls, genvars, it>>

\* VARIANT: a message type whose case lacks check_role().
CheckRoleOmitted(c) ==
    /\ ThreadFree(c)
    /\ pc' = [pc EXCEPT ![c] = "modify"]
    /\ UNCHANGED <<rofctls, ctlrole, genvars, req, it>>

\* A message that modifies the datapath: check_role(), then the handler.
CheckRole(c) ==
    /\ ThreadFree(c)
    /\ ctlrole[c] # "SLAVE"
    /\ pc' = [pc EXCEPT ![c] = "modify"]
    /\ UNCHANGED <<rofctls, ctlrole, genvars, req, it>>

Modify(c) ==
    /\ pc[c] = "modify"
    /\ pc' = [pc EXCEPT ![c] = "idle"]
    /\ UNCHANGED <<rofctls, ctlrole, genvars, req, it>>

RoleNext ==
    \E c \in Ctls :
        \/ Attach(c) \/ Detach(c) \/ Reset(c)
        \/ \E r \in Requests : RoleRequest(c, r) \/ RequestOlder(c, r)
        \/ Cache(c) \/ Demote(c) \/ DemoteDone(c) \/ Become(c)
        \/ CheckRole(c) \/ Modify(c)

RoleSpec == RoleInit /\ [][RoleNext]_rolevars

-----------------------------------------------------------------------------
(* Properties *)

RoleTypeOK ==
    /\ rofctls \subseteq Ctls
    /\ ctlrole \in [Ctls -> CtlRoles]
    /\ generation_is_defined \in BOOLEAN
    /\ cached_generation_id \in GenerationIds
    /\ pc \in [Ctls -> {"idle", "cache", "demote", "become", "modify"}]
    /\ req \in [Ctls -> Requests]
    /\ it \in [Ctls -> 0 .. MaxCtls]

\* role_request_rcvd() promotes a controller after it has demoted every other
\* master, while controllers come and go: there is never a second master.
AtMostOneMaster ==
    \A c, d \in rofctls : ctlrole[c] = "MASTER" /\ ctlrole[d] = "MASTER" => c = d

\* The cached generation id never goes back, also when it wraps around: a
\* request that was stale once stays stale until its id is half a turn behind.
GenerationForward ==
    [][generation_is_defined
         => ~Older(cached_generation_id', cached_generation_id)]_rolevars

\* A controller that another one has demoted modifies the datapath no more:
\* the role check_role() has seen still holds when the handler runs.
SlavesDoNotModify == \A c \in Ctls : pc[c] = "modify" => ctlrole[c] # "SLAVE"

\* The loop of role_request_rcvd() stands on a controller that is attached: an
\* erased one leaves the iterator dangling.
IteratorValid ==
    \A c \in Ctls : pc[c] = "demote" => it[c] \in rofctls \union {MaxCtls}

\* What makes AtMostOneMaster inductive: one request at a time, no master among
\* the controllers the loop has passed, none at all when the new one is set.
Serial == \A c, d \in Ctls : pc[c] # "idle" /\ pc[d] # "idle" => c = d
DemotedSoFar ==
    \A c \in Ctls : pc[c] = "demote" =>
        \A d \in rofctls : d < it[c] /\ d # c => ctlrole[d] # "MASTER"
DemotedAll ==
    \A c \in Ctls : pc[c] = "become" /\ req[c].role = "MASTER" =>
        \A d \in rofctls : d # c => ctlrole[d] # "MASTER"
Promotable ==
    \A c \in Ctls :
        /\ pc[c] \in {"demote", "become"} => req[c].role \in CtlRoles
        /\ pc[c] = "demote" => req[c].role = "MASTER"
        /\ pc[c] = "cache" /\ generation_is_defined
             => ~Older(req[c].gen, cached_generation_id)
        /\ pc[c] # "idle" => c \in rofctls
RoleInv ==
    /\ RoleTypeOK
    /\ Serial
    /\ AtMostOneMaster
    /\ DemotedSoFar
    /\ DemotedAll
    /\ Promotable
    /\ SlavesDoNotModify
=============================================================================
