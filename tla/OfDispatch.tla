------------------------------ MODULE OfDispatch ------------------------------
(* Requests, replies and notifications between a controller and a datapath over one established    *)
(* connection, by message type: crofdpt is the object a controller application sends its requests  *)
(* with and is told of answers and timeouts by, crofctl the object that dispatches the requests to *)
(* the datapath application and turns its exceptions into errors. Between them, a message waits in *)
(* the transmit queue of its type, is parsed by the peer's crofsock and waits in the receive queue *)
(* of its type. How queues are served and limited is the subject of RofSockTx and RofConnRx; here  *)
(* any queue may be served next.                                                                   *)
(* crofdpt keeps a copy of the ports of the datapath ("snooping"); the model has one port.         *)
EXTENDS OfErrors, Sequences, SequencesExt, FiniteSets

CONSTANTS
  Vers,          \* the OpenFlow versions negotiated, a subset of Versions
  Sends,         \* <<version, sender>>: the calls the controller application makes
  Throws,        \* <<version, class, exception>>: what the handlers of the datapath application may throw
  Roles,         \* the roles the controller asks for
  SharedXids,    \* whether the xids both sides count from a random start may coincide
  MaxUp          \* bound: messages on their way to the controller when another one follows

ASSUME DispatchAssumption ==
  /\ Vers \subseteq Versions /\ MaxUp \in Nat /\ SharedXids \in BOOLEAN
  /\ Roles \subseteq {"NOCHANGE", "EQUAL", "MASTER", "SLAVE", "invalid"}

(* The requests of later versions. In an earlier one length() of the message throws, and nothing is   *)
(* sent, as OfMessages shows.                                                                        *)
From12Classes == {"cofmsg_group_mod", "cofmsg_table_mod", "cofmsg_role_request", "cofmsg_group_stats_request"}
From13Classes == {"cofmsg_get_async_config_request", "cofmsg_set_async_config", "cofmsg_meter_mod",
  "cofmsg_meter_stats_request", "cofmsg_meter_config_stats_request", "cofmsg_port_desc_stats_request",
  "cofmsg_table_features_stats_request"}
NoForm == ({1} \X From12Classes) \cup ({1, 3} \X From13Classes)
ASSUME SendsAssumption == \A t \in Sends : <<t[1], t[2].class>> \notin NoForm

VARIABLES
  ver,       \* the negotiated version
  role,      \* crofctl::role
  async,     \* crofctl::async_config, by name
  port,      \* the port of the datapath: "absent", "down" or "up"
  ports,     \* crofdpt::ports, the copy of it
  xid,       \* the xid of the last request: xids are counted, and the model uses the lowest free one
  net,       \* net[o]: messages sent to the object o and not yet parsed, in the order they were sent
  inbox,     \* inbox[o][q]: the receive queue q in front of the object o
  owed,      \* requests the datapath application has taken and not yet answered
  pending,   \* crofconn::pending_requests of the controller's connection
  asked,     \* the class of the last request with a timeout, or "none"
  told,      \* what the controller application has been told of that request
  dropped,   \* the objects whose environment has been redirected to nobody
  leaked     \* whether a message object was neither dispatched nor deleted (history)

vars == <<ver, role, async, port, ports, xid, net, inbox, owed, pending, asked, told, dropped, leaked>>

Objects == {"crofctl", "crofdpt"}
Queues == {"PKT", "FLOW", "MGMT"}
PortStates == {"absent", "down", "up"}

-----------------------------------------------------------------------------
(* Types and switches, for the version v and a header h written by a constructor. *)

Header(m) == Constructor[m.class][ver]
StatsRequest(v) == cofmsg_stats_request[v].type
StatsReply(v) == cofmsg_stats_reply[v].type
ByVersion(v, of10, of12, of13) == IF v = 1 THEN of10 ELSE IF v = 3 THEN of12 ELSE of13

(* The class crofsock creates for a header: {} when it refuses the message. *)
parse_message(v, h) ==
  CASE h.type = StatsRequest(v) ->
         Case(ofp_stats_types_of[v],
              ByVersion(v, parse_of10_stats_request, parse_of12_stats_request, parse_of13_stats_request), h.stats)
    [] h.type = StatsReply(v) ->
         Case(ofp_stats_types_of[v],
              ByVersion(v, parse_of10_stats_reply, parse_of12_stats_reply, parse_of13_stats_reply), h.stats)
    [] OTHER ->
         Case(ofp_type_of[v], ByVersion(v, parse_of10_message, parse_of12_message, parse_of13_message), h.type)

(* The case of crofctl::handle_recv and of crofdpt::handle_recv: {} when it is the default. *)
ctl_handle_recv(v, h) ==
  IF h.type = StatsRequest(v)
    THEN {Open(c) : c \in Case(ofp_stats_types_of[v], ByVersion(v, ctl_stats_of10, ctl_stats_of12, ctl_stats_of13), h.stats)}
    ELSE Case(ofp_type_of[v], ByVersion(v, ctl_recv_of10, ctl_recv_of12, ctl_recv_of13), h.type)
dpt_handle_recv(v, h) ==
  IF h.type = StatsReply(v)
    THEN Case(ofp13_multipart_types, multipart_reply_rcvd, h.stats)
    ELSE Case(ofp_type_of[v], ByVersion(v, dpt_recv_of10, dpt_recv_of12, dpt_recv_of13), h.type)

handle_transaction_timeout_nostats(v, h) ==
  Case(ofp_type_of[v], ByVersion(v, timeout_of10, timeout_of12, timeout_of13), h.type)
(* What a timeout of a pending request is reported as: {} when it is not reported. *)
handle_transaction_timeout(v, h) ==
  IF h.type = StatsRequest(v)
    THEN Case(ofp_stats_types_of[v], ByVersion(v, timeout_stats_of10, timeout_stats_of12, timeout_stats_of13), h.stats)
    ELSE Case(ofp_type_of[v], ByVersion(v, timeout_of10, timeout_of12, timeout_of13), h.type)

QueueOf(cases, v, h) ==
  LET q == Case(ofp_type_of[v], cases, h.type) IN IF q = {} THEN "MGMT" ELSE CHOOSE x \in q : TRUE
txqueue(v, h) == QueueOf(ByVersion(v, txqueue_of10, txqueue_of12, txqueue_of13), v, h)
rxqueue(v, h) == QueueOf(ByVersion(v, rxqueue_of10, rxqueue_of12, rxqueue_of13), v, h)

-----------------------------------------------------------------------------
(* Messages. data holds what the model tells apart of the contents. *)

Msg(c, x, d) == [class |-> c, xid |-> x, data |-> d]
ErrorMsg(x, e) == Msg("cofmsg_error", x, <<e>>)
(* The xid of a message the datapath starts; it may be the one of a request. *)
OwnXid == 2
NotifyXids == {OwnXid} \cup (IF SharedXids THEN {0, 1} ELSE {})

(* The contents an application chooses for a message of class c. *)
Payloads(c) ==
  CASE c = "cofmsg_role_request" -> {<<r>> : r \in Roles}
    [] c = "cofmsg_set_async_config" -> {<<"default">>, <<"muted">>}
    [] c = "cofmsg_port_mod" -> {<<"down">>}
    [] OTHER -> {<<>>}

(* The reply the datapath application sends to a request it has taken. *)
Answer == [cofmsg_features_request |-> "cofmsg_features_reply", cofmsg_get_config_request |-> "cofmsg_get_config_reply",
  cofmsg_desc_stats_request |-> "cofmsg_desc_stats_reply", cofmsg_flow_stats_request |-> "cofmsg_flow_stats_reply",
  cofmsg_aggr_stats_request |-> "cofmsg_aggr_stats_reply", cofmsg_table_stats_request |-> "cofmsg_table_stats_reply",
  cofmsg_port_stats_request |-> "cofmsg_port_stats_reply", cofmsg_queue_stats_request |-> "cofmsg_queue_stats_reply",
  cofmsg_group_stats_request |-> "cofmsg_group_stats_reply",
  cofmsg_group_desc_stats_request |-> "cofmsg_group_desc_stats_reply",
  cofmsg_group_features_stats_request |-> "cofmsg_group_features_stats_reply",
  cofmsg_table_features_stats_request |-> "cofmsg_table_features_stats_reply",
  cofmsg_port_desc_stats_request |-> "cofmsg_port_desc_stats_reply",
  cofmsg_experimenter_stats_request |-> "cofmsg_experimenter_stats_reply",
  cofmsg_meter_stats_request |-> "cofmsg_meter_stats_reply",
  cofmsg_meter_config_stats_request |-> "cofmsg_meter_config_stats_reply",
  cofmsg_meter_features_stats_request |-> "cofmsg_meter_features_stats_reply",
  cofmsg_barrier_request |-> "cofmsg_barrier_reply", cofmsg_role_request |-> "cofmsg_role_reply",
  cofmsg_queue_get_config_request |-> "cofmsg_queue_get_config_reply",
  cofmsg_get_async_config_request |-> "cofmsg_get_async_config_reply", cofmsg_experimenter |-> "cofmsg_experimenter"]
(* crofctl answers these itself, in the case of the request. *)
AnsweredAtOnce == {"cofmsg_role_request", "cofmsg_get_async_config_request"}

Waiting(o) == {net[o][i] : i \in DOMAIN net[o]} \cup UNION {{inbox[o][q][i] : i \in DOMAIN inbox[o][q]} : q \in Queues}
Underway(o) == Len(net[o]) + Len(inbox[o]["PKT"]) + Len(inbox[o]["FLOW"]) + Len(inbox[o]["MGMT"])
Free(x) == \A m \in Waiting("crofdpt") : m.xid # x

(* Bounds. Messages are on their way together when they can affect each other: those about the      *)
(* ports; a request that is repeated and the late answer to the first one; and, where xids may      *)
(* coincide, a notification and a request.                                                          *)
AboutPorts == {"cofmsg_features_reply", "cofmsg_port_desc_stats_reply", "cofmsg_port_status"}
WithPorts == AboutPorts \cup {"cofmsg_features_request", "cofmsg_port_desc_stats_request", "cofmsg_port_mod", "none"}
OnTheirWay == {m.class : m \in Waiting("crofctl") \cup Waiting("crofdpt") \cup owed}
MaySend(c) ==
  /\ Underway("crofctl") = 0 /\ owed = {} /\ Underway("crofdpt") < MaxUp
  /\ \/ OnTheirWay = {}
     \/ OnTheirWay \cup {c} \subseteq WithPorts
     \/ c = asked /\ c \in DOMAIN Answer /\ OnTheirWay \subseteq {Answer[c]}
MayNotify(c) ==
  /\ Underway("crofdpt") < MaxUp
  /\ \/ SharedXids
     \/ OnTheirWay = {} /\ asked = "none"
     \/ OnTheirWay \cup {c, asked} \subseteq WithPorts

-----------------------------------------------------------------------------
Init ==
  /\ ver \in Vers
  /\ role = "EQUAL" /\ async = "default"
  /\ port = "absent" /\ ports = "absent"
  /\ xid = 0
  /\ net = [o \in Objects |-> <<>>]
  /\ inbox = [o \in Objects |-> [q \in Queues |-> <<>>]]
  /\ owed = {} /\ pending = {} /\ asked = "none" /\ told = {}
  /\ dropped = {} /\ leaked = FALSE

(* crofdpt::send_port_mod_message changes the copy of the port before the message is sent. *)
SnoopPortMod(c, d) ==
  ports' = IF c = "cofmsg_port_mod" /\ ports # "absent" THEN d[1] ELSE ports

(* crofdpt::send_*(): a new xid; with a timeout, the connection remembers the request before it     *)
(* queues the message; a full queue deletes the message and leaves the request behind. (A channel   *)
(* without connection refuses with an exception before that, and nothing but the copy of the port   *)
(* has changed.) Bounds: one request at a time, and an xid is used again when nothing carries it.   *)
Send(s, d, queued) ==
  /\ dropped = {} /\ pending = {} /\ (asked # "none" => told # {})
  /\ MaySend(s.class)
  /\ <<ver, s>> \in Sends /\ d \in Payloads(s.class)
  /\ xid' \in 0..1 /\ Free(xid') /\ \A x \in 0..1 : Free(x) => xid' <= x
  /\ SnoopPortMod(s.class, d)
  /\ pending' = IF s.timed THEN {[xid |-> xid', class |-> s.class]} ELSE {}
  /\ asked' = IF s.timed THEN s.class ELSE "none"
  /\ told' = {}
  /\ net' = IF queued THEN [net EXCEPT !["crofctl"] = Append(@, Msg(s.class, xid', d))] ELSE net
  /\ UNCHANGED <<ver, role, async, port, inbox, owed, dropped, leaked>>

(* The peer's crofsock reads the next message of one of the transmit queues and parses it. What it  *)
(* cannot parse it answers with an error itself; what it can, the connection drops a pending        *)
(* request for, whatever the message is, and stores in its receive queue.                           *)
Parse(o) ==
  \E i \in DOMAIN net[o] :
    LET m == net[o][i]
        h == Header(m)
        peer == CHOOSE p \in Objects : p # o
        class == parse_message(ver, h)
        e == IF h.type \in {StatsRequest(ver), StatsReply(ver)} THEN "eBadRequestBadStat" ELSE "eBadRequestBadType"
    IN /\ \A j \in 1..(i - 1) : txqueue(ver, Header(net[o][j])) # txqueue(ver, h)
       /\ IF class = {}
            THEN /\ net' = [net EXCEPT ![o] = RemoveAt(@, i), ![peer] = Append(@, ErrorMsg(m.xid, e))]
                 /\ UNCHANGED <<inbox, pending>>
            ELSE /\ net' = [net EXCEPT ![o] = RemoveAt(@, i)]
                 /\ inbox' = [inbox EXCEPT ![o][rxqueue(ver, h)] = Append(@, m)]
                 /\ pending' = IF o = "crofdpt" THEN {p \in pending : p.xid # m.xid} ELSE pending
  /\ UNCHANGED <<ver, role, async, port, ports, xid, owed, asked, told, dropped, leaked>>

-----------------------------------------------------------------------------
(* crofctl::handle_recv *)

(* The catch clauses: an error message for what is caught, unless its class refuses the version:    *)
(* then the exception of its constructor leaves handle_recv and the message is not deleted.         *)
Raise(m, e) ==
  /\ net' = IF e \in DOMAIN Caught /\ ver \in DOMAIN Caught[e]
              THEN [net EXCEPT !["crofdpt"] = Append(@, ErrorMsg(m.xid, e))] ELSE net
  /\ leaked' = (leaked \/ (e \in DOMAIN Caught /\ ver \notin DOMAIN Caught[e]))
  /\ UNCHANGED <<port, owed>>

(* is_slave(): there are no roles in OpenFlow 1.0. *)
is_slave == ver # 1 /\ role = "SLAVE"

(* Exceptions before anything has changed: check_role(), a role that is not one, and a generation   *)
(* id that crofbase::role_request_rcvd() finds stale (RofRole has the generation ids).              *)
Rejections(m, checked) ==
  (IF checked /\ is_slave THEN {"eBadRequestIsSlave"} ELSE {})
    \cup (IF m.data = <<"invalid">> THEN {"eRoleRequestBadRole"} ELSE {})
    \cup (IF m.data \in {<<"MASTER">>, <<"SLAVE">>} THEN {"eRoleRequestStale"} ELSE {})
Rejected(m, checked) == (checked /\ is_slave) \/ m.data = <<"invalid">>

(* What crofctl and crofbase keep themselves changes before the handler of the application is       *)
(* called: a new role, which resets the asynchronous configuration, or that configuration.          *)
role_request_rcvd(m) ==
  LET changes == m.class = "cofmsg_role_request" /\ m.data # <<"NOCHANGE">>
  IN /\ role' = IF changes THEN m.data[1] ELSE role
     /\ async' = IF m.class = "cofmsg_set_async_config" THEN m.data[1] ELSE IF changes THEN "default" ELSE async

(* The handler of the application returns: crofctl answers some requests at once; a port            *)
(* modification is applied; other answers are owed.                                                 *)
Return(m) ==
  LET c == m.class
      reply == Msg(Answer[c], m.xid, <<>>)
  IN /\ port' = IF c = "cofmsg_port_mod" /\ port # "absent" THEN m.data[1] ELSE port
     /\ net' = IF c \in AnsweredAtOnce THEN [net EXCEPT !["crofdpt"] = Append(@, reply)] ELSE net
     /\ owed' = IF c \in DOMAIN Answer \ AnsweredAtOnce THEN owed \cup {reply} ELSE owed
     /\ UNCHANGED leaked

(* The environment is gone: call_env() throws where the application would have been called, which   *)
(* is caught. What crofctl does without it is done.                                                 *)
ReturnAlone(m) ==
  /\ async' = IF m.class = "cofmsg_set_async_config" THEN m.data[1] ELSE async
  /\ net' = IF m.class = "cofmsg_get_async_config_request"
              THEN [net EXCEPT !["crofdpt"] = Append(@, Msg(Answer[m.class], m.xid, <<>>))] ELSE net
  /\ UNCHANGED <<role, port, owed, leaked>>

(* One message of the receive queue q, to the end of handle_recv, where it is deleted. *)
HandleAtCtl(q) ==
  /\ inbox["crofctl"][q] # <<>>
  /\ inbox' = [inbox EXCEPT !["crofctl"][q] = Tail(@)]
  /\ LET m == Head(inbox["crofctl"][q])
         case == ctl_handle_recv(ver, Header(m))
         checked == \E k \in case : k.checked
     IN \/ /\ \E e \in Rejections(m, checked) : ("crofctl" \in dropped => e # "eRoleRequestStale") /\ Raise(m, e)
           /\ UNCHANGED <<role, async>>
        \/ "crofctl" \in dropped /\ ~Rejected(m, checked) /\ ReturnAlone(m)
        \/ /\ "crofctl" \notin dropped /\ ~Rejected(m, checked)
           /\ IF case = {} THEN UNCHANGED <<role, async, port, owed, net, leaked>>
              ELSE /\ role_request_rcvd(m)
                   /\ \/ Return(m)
                      \/ \E t \in Throws : t[1] = ver /\ t[2] = m.class /\ Raise(m, t[3])
  /\ UNCHANGED <<ver, ports, xid, pending, asked, told, dropped>>

-----------------------------------------------------------------------------
(* The datapath application and the senders of crofctl. *)

(* crofctl has a sender for messages of class c. *)
Sendable(c) == \E s \in CtlSenders : s.class = c

(* A reply to a request taken earlier; it carries the port if its class has ports. *)
Reply(r) ==
  /\ r \in owed /\ dropped = {} /\ Sendable(r.class)
  /\ owed' = owed \ {r}
  /\ net' = [net EXCEPT !["crofdpt"] = Append(@,
       IF r.class \in {"cofmsg_features_reply", "cofmsg_port_desc_stats_reply"} THEN [r EXCEPT !.data = <<port>>] ELSE r)]
  /\ UNCHANGED <<ver, role, async, port, ports, xid, inbox, pending, asked, told, dropped, leaked>>

(* The masks of async_config: which notifications a controller in a role receives in OpenFlow 1.3. *)
Notifications == {"cofmsg_packet_in", "cofmsg_flow_removed", "cofmsg_port_status"}
Mask(config) ==
  IF config = "default" THEN [master |-> Notifications, slave |-> {"cofmsg_port_status"}]
                        ELSE [master |-> {}, slave |-> {}]
(* send_packet_in_message, send_flow_removed_message and send_port_status_message: whether the      *)
(* message is sent. OpenFlow 1.2 hides all but the port status from a slave.                        *)
Passes(c) ==
  CASE ver = 3 -> c = "cofmsg_port_status" \/ ~is_slave
    [] ver = 4 -> c \in (IF role = "SLAVE" THEN Mask(async).slave ELSE Mask(async).master)
    [] OTHER -> TRUE

Notify(c, x) ==
  /\ c \in {"cofmsg_packet_in", "cofmsg_flow_removed", "cofmsg_experimenter"} /\ x \in NotifyXids
  /\ dropped = {} /\ MayNotify(c) /\ Sendable(c)
  /\ c = "cofmsg_experimenter" \/ Passes(c)
  /\ net' = [net EXCEPT !["crofdpt"] = Append(@, Msg(c, x, <<>>))]
  /\ UNCHANGED <<ver, role, async, port, ports, xid, inbox, owed, pending, asked, told, dropped, leaked>>

(* The port changes, and the application sends a port status, which the filter may discard. *)
PortEvent(p, x) ==
  /\ p \in {"absent", "up"} \ {port} /\ x \in NotifyXids
  /\ dropped = {} /\ MayNotify("cofmsg_port_status") /\ Sendable("cofmsg_port_status")
  /\ port' = p
  /\ LET reason == IF port = "absent" THEN "OFPPR_ADD" ELSE IF p = "absent" THEN "OFPPR_DELETE" ELSE "OFPPR_MODIFY"
     IN net' = IF Passes("cofmsg_port_status")
                 THEN [net EXCEPT !["crofdpt"] = Append(@, Msg("cofmsg_port_status", x, <<p, reason>>))] ELSE net
  /\ UNCHANGED <<ver, role, async, ports, xid, inbox, owed, pending, asked, told, dropped, leaked>>

(* Another controller becomes master (crofbase::role_request_rcvd). *)
Demoted ==
  /\ ver # 1 /\ role = "MASTER"
  /\ role' = "SLAVE"
  /\ UNCHANGED <<ver, async, port, ports, xid, net, inbox, owed, pending, asked, told, dropped, leaked>>

-----------------------------------------------------------------------------
(* crofdpt *)

port_status_rcvd_ports_modify(d) == IF d[2] = "OFPPR_ADD" THEN d[1] ELSE "absent"
(* port_status_rcvd: by its reason. *)
port_status_rcvd_ports(d) == IF d[2] = "OFPPR_DELETE" THEN "absent" ELSE d[1]

(* crofdpt::handle_recv and the *_rcvd functions. *)
HandleAtDpt(q) ==
  /\ inbox["crofdpt"][q] # <<>>
  /\ inbox' = [inbox EXCEPT !["crofdpt"][q] = Tail(@)]
  /\ LET m == Head(inbox["crofdpt"][q])
         case == dpt_handle_recv(ver, Header(m))
         taken == \E k \in case : ver \in k.ports
     IN /\ ports' = IF ~taken THEN ports
                    ELSE IF m.class = "cofmsg_port_status" THEN port_status_rcvd_ports(m.data) ELSE m.data[1]
        /\ told' = IF "crofdpt" \notin dropped /\ m.xid = xid /\ asked # "none" /\ m.class \notin Notifications
                     THEN told \cup {<<"answer", k.cast>> : k \in case} ELSE told
  /\ UNCHANGED <<ver, role, async, port, xid, net, owed, pending, asked, dropped, leaked>>

(* A pending request expires: handle_transaction_timeout. *)
Timeout ==
  /\ pending # {}
  /\ pending' = {}
  /\ told' = IF "crofdpt" \in dropped THEN told
             ELSE told \cup {<<"timeout", c>> : c \in UNION {handle_transaction_timeout(ver, Header(p)) : p \in pending}}
  /\ UNCHANGED <<ver, role, async, port, ports, xid, net, inbox, owed, asked, dropped, leaked>>

(* crofbase::drop_ctl() and drop_dpt(): the environment of the object is redirected, so that         *)
(* call_env() throws, and its connections are closed, which deletes what waits.                      *)
(* Bound: when a message waits for it, nothing else is under way, and the role is the first one.     *)
Drop(o) ==
  /\ dropped = {} /\ Underway(o) > 0 /\ owed = {} /\ pending = {} /\ role = "EQUAL"
  /\ \A p \in Objects \ {o} : Underway(p) = 0
  /\ dropped' = {o}
  /\ UNCHANGED <<ver, role, async, port, ports, xid, net, inbox, owed, pending, asked, told, leaked>>

Clear(o) ==
  /\ o \in dropped /\ Underway(o) > 0
  /\ net' = [p \in Objects |-> <<>>]
  /\ inbox' = [inbox EXCEPT ![o] = [q \in Queues |-> <<>>]]
  /\ UNCHANGED <<ver, role, async, port, ports, xid, owed, pending, asked, told, dropped, leaked>>

Next ==
  \/ \E s \in DptSenders : \E d \in Payloads(s.class), queued \in BOOLEAN : Send(s, d, queued)
  \/ \E o \in Objects : Parse(o)
  \/ \E q \in Queues : HandleAtCtl(q) \/ HandleAtDpt(q)
  \/ \E r \in owed : Reply(r)
  \/ \E c \in Notifications \cup {"cofmsg_experimenter"}, x \in NotifyXids : Notify(c, x)
  \/ \E p \in PortStates, x \in NotifyXids : PortEvent(p, x)
  \/ Demoted
  \/ Timeout
  \/ \E o \in Objects : Drop(o) \/ Clear(o)

(* The receive thread of the connection takes a message of every queue within a round of its        *)
(* weights, and the thread that owns the connection checks the pending requests when they expire.   *)
Fairness == WF_vars(Timeout) /\ \A q \in Queues : WF_vars(HandleAtDpt(q))

Spec == Init /\ [][Next]_vars /\ Fairness

-----------------------------------------------------------------------------
TypeOK ==
  /\ ver \in Vers /\ role \in {"EQUAL", "MASTER", "SLAVE"} /\ async \in {"default", "muted"}
  /\ port \in PortStates /\ ports \in PortStates /\ xid \in 0..1
  /\ \A o \in Objects : \A m \in Waiting(o) : m.class \in DOMAIN Constructor /\ m.xid \in 0..OwnXid
  /\ \A r \in owed : r.class \in DOMAIN Constructor
  /\ Cardinality(pending) <= 1 /\ asked \in (DOMAIN Constructor) \cup {"none"}
  /\ dropped \subseteq Objects /\ leaked \in BOOLEAN

(* A message reaches the handler written for it: the type its constructor wrote is parsed into the  *)
(* class that was sent, and the case of crofctl or crofdpt casts to that class, so the cast does    *)
(* not fail and no message falls to a default case.                                                 *)
Delivered ==
  \A o \in Objects, q \in Queues : \A i \in DOMAIN inbox[o][q] :
    LET m == inbox[o][q][i]
        case == IF o = "crofctl" THEN ctl_handle_recv(ver, Header(m)) ELSE dpt_handle_recv(ver, Header(m))
    IN parse_message(ver, Header(m)) = {m.class} /\ {k.cast : k \in case} = {m.class}

(* What the application is told of a request is about this request: the reply that answers it, an   *)
(* error, or the timeout of that reply.                                                             *)
RightOutcome ==
  \A t \in told : \/ t[2] = Answer[asked]
                  \/ t = <<"answer", "cofmsg_error">>

(* An error carries the numbers that its version gives to the type and code the exception stands    *)
(* for, where the version has them.                                                                 *)
ErrorNamed ==
  \A m \in Waiting("crofdpt") : m.class = "cofmsg_error" =>
    LET e == m.data[1] sent == Caught[e][ver] names == ErrorNumbers[ver]
    IN /\ TypeName(e) \in DOMAIN names => sent.type = names[TypeName(e)]
       /\ CodeName[e] \in DOMAIN names => sent.code = names[CodeName[e]]

(* Every message object is deleted, whatever its handler throws. *)
Reclaimed == ~leaked

(* handle_recv() of both objects and the timeout reports agree on the classes of a transaction: a   *)
(* message meets its own handler, and the application is told of its own request.                   *)
RightHandler == TypeOK /\ Delivered /\ RightOutcome

(* What a handler of the application throws becomes the error it stands for in the negotiated       *)
(* version, and the message is deleted all the same.                                                *)
ErrorsHandled == ErrorNamed /\ Reclaimed

(* The copy of the ports is the port of the datapath once every message about it has been handled,  *)
(* in the versions whose features reply has the ports, but for what a port modification has set.    *)
Settled == /\ "crofdpt" \notin dropped
           /\ \A m \in Waiting("crofdpt") : m.class \notin AboutPorts
           /\ \A m \in Waiting("crofctl") : m.class # "cofmsg_port_mod"
PortsTracked == ver \in {1, 3} /\ Settled /\ "down" \notin {port, ports} => ports = port

(* Every request with a timeout ends: the application is told of an answer or of the timeout. *)
Answered == (asked # "none") ~> (told # {} \/ "crofdpt" \in dropped)

-----------------------------------------------------------------------------
(* Claims that the code does not keep; the README names the runs that show it. *)

(* "You may throw any of the OpenFlow related exceptions defined by rofl-common within these handler *)
(* methods. rofl-common will detect such exceptions and generate appropriate error messages".       *)
ErrorSent ==
  [][\A q \in Queues, t \in Throws :
       LET m == Head(inbox["crofctl"][q]) IN
       inbox["crofctl"][q] # <<>> /\ t[1] = ver /\ t[2] = m.class /\ HandleAtCtl(q) /\ ~is_slave /\ dropped = {} /\ owed' = owed
         => \E i \in DOMAIN net'["crofdpt"] : net'["crofdpt"][i].xid = m.xid]_vars

(* A request has one outcome. *)
OneOutcome == Cardinality(told) <= 1

(* The copy of the ports is right in every version, whoever writes to it. *)
PortsTrackedAlways == Settled => ports = port
=============================================================================
