------------------------ MODULE Controllers_proofs ------------------------
(***************************************************************************)
(* Proofs about the controllers of a datapath element: RofRole, their      *)
(* roles in crofbase, and OfDispatch, the messages between crofctl and     *)
(* crofdpt.                                                                *)
(*                                                                         *)
(* RofRole, for any number of controllers and any range of generation ids: *)
(* type correctness holds with any number of threads; the other theorems   *)
(* assume OneThread, a pool with one thread: with more of them they are    *)
(* false (RofRole_masters.cfg).                                            *)
(*                                                                         *)
(* OfDispatch, for any set of versions, senders, exceptions and roles, and *)
(* any bound on the messages under way.  The invariants are Types and      *)
(* Forms (what can be on its way), OneRequest (whose answer it is),        *)
(* PortsFollow (the ports it has) and ErrorsFollow (its numbers).          *)
(***************************************************************************)
EXTENDS OfDispatch, RofRole, FiniteSetTheorems, TLAPS

-----------------------------------------------------------------------------
(* RofRole: types *)

\* Become() sets one of the three roles of a controller: NOCHANGE never gets
\* that far.  This is what RoleTypeOK needs to be inductive.
Promoted ==
    \A c \in Ctls : pc[c] \in {"demote", "become"} => req[c].role \in CtlRoles

RoleTypeInv == RoleTypeOK /\ Promoted

\* An iterator of the loop over rofctls moves on to an id or to the end.
LEMMA FollowingType ==
    ASSUME rofctls \subseteq Ctls, NEW d, NEW e \in Following(d)
    PROVE  e \in 0 .. MaxCtls
  BY MaxCtlsAssumption DEF Following, Ctls

\* Every step of crofbase keeps the types and Promoted.
LEMMA RoleTypeStep == RoleTypeInv /\ [RoleNext]_rolevars => RoleTypeInv'
<1> SUFFICES ASSUME RoleTypeInv, [RoleNext]_rolevars PROVE RoleTypeInv'
  OBVIOUS
<1> USE DEF RoleTypeInv, RoleTypeOK, Promoted
<1>0. NoRequest \in Requests
  BY HalfRangeAssumption DEF NoRequest, Requests, GenerationIds
<1>1. CASE UNCHANGED rolevars
  BY <1>1 DEF rolevars
<1>2. ASSUME NEW c \in Ctls, Attach(c) PROVE RoleTypeInv'
  BY <1>2 DEF Attach, genvars, CtlRoles
<1>3. ASSUME NEW c \in Ctls, Detach(c) PROVE RoleTypeInv'
  BY <1>3 DEF Detach, genvars, CtlRoles
<1>4. ASSUME NEW c \in Ctls, Reset(c) PROVE RoleTypeInv'
  BY <1>4 DEF Reset, genvars, CtlRoles
<1>5. ASSUME NEW c \in Ctls, NEW r \in Requests, RoleRequest(c, r) PROVE RoleTypeInv'
  BY <1>5 DEF RoleRequest, ThreadFree, genvars
<1>6. ASSUME NEW c \in Ctls, NEW r \in Requests, RequestOlder(c, r) PROVE RoleTypeInv'
  BY <1>6 DEF RequestOlder, ThreadFree, genvars, CtlRoles
<1>7. ASSUME NEW c \in Ctls, Cache(c) PROVE RoleTypeInv'
  <2>1. it' \in [Ctls -> 0 .. MaxCtls]
    BY <1>7, FollowingType DEF Cache
  <2>2. cached_generation_id' \in GenerationIds
    BY <1>7 DEF Cache, Requests
  <2>3. req' \in [Ctls -> Requests]
    BY <1>7, <1>0 DEF Cache
  <2>4. Promoted'
    BY <1>7 DEF Cache, Requests, CtlRoles
  <2>5. pc' \in [Ctls -> {"idle", "cache", "demote", "become", "modify"}]
    BY <1>7 DEF Cache
  <2> QED
    BY <1>7, <2>1, <2>2, <2>3, <2>4, <2>5 DEF Cache
<1>8. ASSUME NEW c \in Ctls, Demote(c) PROVE RoleTypeInv'
  <2>1. it' \in [Ctls -> 0 .. MaxCtls]
    BY <1>8, FollowingType DEF Demote
  <2> QED
    BY <1>8, <2>1 DEF Demote, genvars, CtlRoles
<1>9. ASSUME NEW c \in Ctls, DemoteDone(c) PROVE RoleTypeInv'
  BY <1>9 DEF DemoteDone, genvars
<1>10. ASSUME NEW c \in Ctls, Become(c) PROVE RoleTypeInv'
  BY <1>10, <1>0 DEF Become, genvars
<1>11. ASSUME NEW c \in Ctls, CheckRole(c) PROVE RoleTypeInv'
  BY <1>11 DEF CheckRole, ThreadFree, genvars
<1>12. ASSUME NEW c \in Ctls, Modify(c) PROVE RoleTypeInv'
  BY <1>12 DEF Modify, genvars
<1> QED
  BY <1>1, <1>2, <1>3, <1>4, <1>5, <1>6, <1>7, <1>8, <1>9, <1>10, <1>11, <1>12
  DEF RoleNext

\* crofbase starts without controllers and without a generation id.
LEMMA RoleTypeInit == RoleInit => RoleTypeInv
<1> SUFFICES ASSUME RoleInit PROVE RoleTypeInv
  OBVIOUS
<1>1. 0 \in GenerationIds /\ MaxCtls \in 0 .. MaxCtls
  BY MaxCtlsAssumption, HalfRangeAssumption DEF GenerationIds
<1>2. NoRequest \in Requests
  BY <1>1 DEF NoRequest, Requests
<1> QED
  BY <1>1, <1>2 DEF RoleInit, RoleTypeInv, RoleTypeOK, Promoted, CtlRoles

\* Type correctness: every controller has one of the three roles, the cached
\* generation id is one, and the loop's iterator an id or the end, whatever the
\* number of threads that handle role requests.
THEOREM RolesTyped == RoleSpec => []RoleTypeOK
<1>1. RoleSpec => []RoleTypeInv
  BY RoleTypeInit, RoleTypeStep, PTL DEF RoleSpec
<1>2. RoleTypeInv => RoleTypeOK
  BY DEF RoleTypeInv
<1> QED
  BY <1>1, <1>2, PTL
-----------------------------------------------------------------------------
(* RofRole: one master, the parts of RoleInv beyond the types *)

\* The loop skips nobody: what lies before the next id lies before this one,
\* or is this one.
LEMMA FollowingSkipsNone ==
    ASSUME rofctls \subseteq Ctls, NEW d \in 0 .. MaxCtls, NEW e \in Following(d),
           NEW f \in rofctls, f < e
    PROVE  f <= d
  BY MaxCtlsAssumption DEF Following, Ctls

\* No controller lies before the first one.
LEMMA FollowingFirst ==
    ASSUME rofctls \subseteq Ctls, NEW e \in Following(-1), NEW f \in rofctls
    PROVE  ~(f < e)
  BY MaxCtlsAssumption DEF Following, Ctls

\* With one thread every step of crofbase preserves RoleInv.
LEMMA RoleStep ==
    ASSUME OneThread
    PROVE  RoleInv /\ [RoleNext]_rolevars => RoleInv'
<1> SUFFICES ASSUME RoleInv, [RoleNext]_rolevars PROVE RoleInv'
  OBVIOUS
<1>0. RoleTypeOK'
  <2>1. RoleTypeInv
    BY DEF RoleInv, RoleTypeInv, Promoted, Promotable
  <2> QED
    BY <2>1, RoleTypeStep DEF RoleTypeInv
<1> USE <1>0 DEF RoleInv, RoleTypeOK, Serial, AtMostOneMaster, DemotedSoFar, DemotedAll,
             Promotable, SlavesDoNotModify
<1>1. CASE UNCHANGED rolevars
  BY <1>1 DEF rolevars
<1>2. ASSUME NEW c \in Ctls, Attach(c) PROVE RoleInv'
  BY <1>2 DEF Attach, genvars
<1>3. ASSUME NEW c \in Ctls, Detach(c) PROVE RoleInv'
  BY <1>3 DEF Detach, genvars
<1>4. ASSUME NEW c \in Ctls, Reset(c) PROVE RoleInv'
  BY <1>4 DEF Reset, genvars
<1>5. ASSUME NEW c \in Ctls, NEW r \in Requests, RoleRequest(c, r) PROVE RoleInv'
  BY <1>5 DEF RoleRequest, ThreadFree, genvars
<1>6. ASSUME NEW c \in Ctls, NEW r \in Requests, RequestOlder(c, r) PROVE RoleInv'
  BY <1>6 DEF RequestOlder, ThreadFree, genvars, CtlRoles
<1>7. ASSUME NEW c \in Ctls, Cache(c) PROVE RoleInv'
  <2>1. Serial' /\ AtMostOneMaster' /\ DemotedAll' /\ SlavesDoNotModify'
    BY <1>7 DEF Cache
  <2>2. DemotedSoFar'
    BY <1>7, FollowingFirst DEF Cache
  <2>3. Promotable'
    BY <1>7 DEF Cache, Requests, CtlRoles
  <2> QED
    BY <2>1, <2>2, <2>3
<1>8. ASSUME NEW c \in Ctls, Demote(c) PROVE RoleInv'
  <2>1. AtMostOneMaster' /\ DemotedAll' /\ Promotable' /\ Serial'
    BY <1>8 DEF Demote, genvars
  <2>2. DemotedSoFar'
    <3> SUFFICES ASSUME NEW b \in Ctls, pc'[b] = "demote",
                        NEW d \in rofctls', d < it'[b], d # b
                 PROVE  ctlrole'[d] # "MASTER"
      OBVIOUS
    <3>1. b = c /\ d \in rofctls /\ d \in Ctls
      BY <1>8 DEF Demote
    <3>2. d <= it[c]
      BY <1>8, <3>1, FollowingSkipsNone DEF Demote
    <3> QED
      BY <1>8, <3>1, <3>2, MaxCtlsAssumption DEF Demote, Ctls
  <2>3. SlavesDoNotModify'
    BY <1>8 DEF Demote
  <2> QED
    BY <2>1, <2>2, <2>3
<1>9. ASSUME NEW c \in Ctls, DemoteDone(c) PROVE RoleInv'
  <2>1. \A d \in rofctls : d < it[c]
    BY <1>9, MaxCtlsAssumption DEF DemoteDone, Ctls
  <2> QED
    BY <1>9, <2>1 DEF DemoteDone, genvars
<1>10. ASSUME NEW c \in Ctls, Become(c) PROVE RoleInv'
  <2>1. Serial' /\ Promotable' /\ DemotedAll' /\ DemotedSoFar' /\ SlavesDoNotModify'
    BY <1>10 DEF Become, genvars
  <2>2. AtMostOneMaster'
    BY <1>10 DEF Become
  <2> QED
    BY <2>1, <2>2
<1>11. ASSUME NEW c \in Ctls, CheckRole(c) PROVE RoleInv'
  BY <1>11 DEF CheckRole, ThreadFree, genvars
<1>12. ASSUME NEW c \in Ctls, Modify(c) PROVE RoleInv'
  BY <1>12 DEF Modify, genvars
<1> QED
  BY <1>1, <1>2, <1>3, <1>4, <1>5, <1>6, <1>7, <1>8, <1>9, <1>10, <1>11, <1>12
  DEF RoleNext

\* RoleInv holds initially and is preserved.
LEMMA RoleInvariant ==
    ASSUME OneThread
    PROVE  RoleSpec => []RoleInv
<1>1. RoleInit => RoleInv
  BY RoleTypeInit DEF RoleInit, RoleInv, RoleTypeInv, Serial, AtMostOneMaster, DemotedSoFar,
                  DemotedAll, Promotable, SlavesDoNotModify
<1> QED
  BY <1>1, RoleStep, PTL DEF RoleSpec

\* role_request_rcvd() keeps a single master, however controllers attach,
\* detach and reconnect during its loop over rofctls.
THEOREM OneMaster ==
    ASSUME OneThread
    PROVE  RoleSpec => []AtMostOneMaster
<1>1. RoleInv => AtMostOneMaster
  BY DEF RoleInv
<1> QED
  BY <1>1, RoleInvariant, PTL

\* The distance of a generation id to itself is not negative.
LEMMA NotOlderThanItself ==
    ASSUME NEW g \in GenerationIds
    PROVE  ~Older(g, g)
  BY HalfRangeAssumption DEF Older, GenerationIds

\* The cached generation id never moves back, wrapping around included.
THEOREM GenerationsMoveForward ==
    ASSUME OneThread
    PROVE  RoleSpec => GenerationForward
<1>1. RoleInv /\ [RoleNext]_rolevars
        => [generation_is_defined
              => ~Older(cached_generation_id', cached_generation_id)]_rolevars
  <2> SUFFICES ASSUME RoleInv, [RoleNext]_rolevars, generation_is_defined
               PROVE  ~Older(cached_generation_id', cached_generation_id)
    OBVIOUS
  <2>1. CASE cached_generation_id' = cached_generation_id
    BY <2>1, NotOlderThanItself DEF RoleInv, RoleTypeOK
  <2>2. ASSUME NEW c \in Ctls, Cache(c)
        PROVE  ~Older(cached_generation_id', cached_generation_id)
    BY <2>2 DEF Cache, RoleInv, Promotable
  <2> QED
    BY <2>1, <2>2 DEF RoleNext, rolevars, genvars, Attach, Detach, Reset, RoleRequest,
                      RequestOlder, Demote, DemoteDone, Become, CheckRole, Modify
<1> QED
  BY <1>1, RoleInvariant, PTL DEF RoleSpec, GenerationForward

-----------------------------------------------------------------------------
(* Headers: what the constructors of OfTypes write *)

\* The type and the statistics type that the constructor of a class writes into the header.
TypeOf(c, v) == Constructor[c][v].type
StatsOf(c, v) == Constructor[c][v].stats
Headed(c, v, t, s) == TypeOf(c, v) = t /\ StatsOf(c, v) = s

\* Constructors that give cofmsg() one type number write it in every version, and no statistics type.
LEMMA TypedHeader ==
  ASSUME NEW t \in Nat, NEW v \in Versions
  PROVE  Typed(t)[v].type = t /\ Typed(t)[v].stats = NoStats
  BY DEF Typed

\* Constructors that distinguish OpenFlow 1.0 write the number u there, and t in later versions.
LEMMA Typed10Header ==
  ASSUME NEW t \in Nat, NEW u \in Nat, NEW v \in Versions
  PROVE  /\ Typed10(Typed(t), u)[v].type = IF v = 1 THEN u ELSE t
         /\ Typed10(Typed(t), u)[v].stats = NoStats
<1>2. Typed(t) = [w \in Versions |-> [type |-> t, stats |-> NoStats]]
  BY DEF Typed
<1>3. Typed10(Typed(t), u) = [w \in Versions |-> [type |-> IF w = 1 THEN u ELSE t, stats |-> NoStats]]
  BY <1>2 DEF Typed10, Versions
<1> QED
  BY <1>3

\* Constructors of statistics messages add the number s of the statistics type to it.
LEMMA StatsHeader ==
  ASSUME NEW t \in Nat, NEW u \in Nat, NEW s \in Nat, NEW v \in Versions
  PROVE  /\ WithStats(Typed10(Typed(t), u), s)[v].type = IF v = 1 THEN u ELSE t
         /\ WithStats(Typed10(Typed(t), u), s)[v].stats = s
<1>2. Typed(t) = [w \in Versions |-> [type |-> t, stats |-> NoStats]]
  BY DEF Typed
<1>3. Typed10(Typed(t), u) = [w \in Versions |-> [type |-> IF w = 1 THEN u ELSE t, stats |-> NoStats]]
  BY <1>2 DEF Typed10, Versions
<1>4. WithStats(Typed10(Typed(t), u), s) = [w \in Versions |-> [type |-> IF w = 1 THEN u
        ELSE t, stats |-> s]]
  BY <1>3 DEF WithStats, Versions
<1> QED
  BY <1>4

\* Constructors of vendor statistics write the statistics type r in OpenFlow 1.0, s in later versions.
LEMMA Stats10Header ==
  ASSUME NEW t \in Nat, NEW u \in Nat, NEW s \in Nat, NEW r \in Nat, NEW v \in Versions
  PROVE  /\ Stats10(WithStats(Typed10(Typed(t), u), s), r)[v].type = IF v = 1 THEN u ELSE t
         /\ Stats10(WithStats(Typed10(Typed(t), u), s), r)[v].stats = IF v = 1 THEN r ELSE s
<1>2. Typed(t) = [w \in Versions |-> [type |-> t, stats |-> NoStats]]
  BY DEF Typed
<1>3. Typed10(Typed(t), u) = [w \in Versions |-> [type |-> IF w = 1 THEN u ELSE t, stats |-> NoStats]]
  BY <1>2 DEF Typed10, Versions
<1>4. WithStats(Typed10(Typed(t), u), s) = [w \in Versions |-> [type |-> IF w = 1 THEN u
        ELSE t, stats |-> s]]
  BY <1>3 DEF WithStats, Versions
<1>5. Stats10(WithStats(Typed10(Typed(t), u), s), r)
        = [w \in Versions |-> [type |-> IF w = 1 THEN u ELSE t, stats |-> IF w = 1 THEN r ELSE s]]
  BY <1>4 DEF Stats10, Versions
<1> QED
  BY <1>5

\* Constructor has the constructor of every class that can be sent under the name of the class.
LEMMA Names ==
  /\ Constructor["cofmsg_barrier_request"] = cofmsg_barrier_request
  /\ Constructor["cofmsg_barrier_reply"] = cofmsg_barrier_reply
  /\ Constructor["cofmsg_get_config_request"] = cofmsg_get_config_request
  /\ Constructor["cofmsg_get_config_reply"] = cofmsg_get_config_reply
  /\ Constructor["cofmsg_set_config"] = cofmsg_set_config
  /\ Constructor["cofmsg_error"] = cofmsg_error
  /\ Constructor["cofmsg_experimenter"] = cofmsg_experimenter
  /\ Constructor["cofmsg_features_request"] = cofmsg_features_request
  /\ Constructor["cofmsg_features_reply"] = cofmsg_features_reply
  /\ Constructor["cofmsg_flow_removed"] = cofmsg_flow_removed
  /\ Constructor["cofmsg_group_mod"] = cofmsg_group_mod
  /\ Constructor["cofmsg_packet_in"] = cofmsg_packet_in
  /\ Constructor["cofmsg_packet_out"] = cofmsg_packet_out
  /\ Constructor["cofmsg_port_status"] = cofmsg_port_status
  /\ Constructor["cofmsg_get_async_config_request"] = cofmsg_get_async_config_request
  /\ Constructor["cofmsg_get_async_config_reply"] = cofmsg_get_async_config_reply
  /\ Constructor["cofmsg_set_async_config"] = cofmsg_set_async_config
  /\ Constructor["cofmsg_flow_mod"] = cofmsg_flow_mod
  /\ Constructor["cofmsg_meter_mod"] = cofmsg_meter_mod
  /\ Constructor["cofmsg_port_mod"] = cofmsg_port_mod
  /\ Constructor["cofmsg_queue_get_config_request"] = cofmsg_queue_get_config_request
  /\ Constructor["cofmsg_queue_get_config_reply"] = cofmsg_queue_get_config_reply
  /\ Constructor["cofmsg_role_request"] = cofmsg_role_request
  /\ Constructor["cofmsg_role_reply"] = cofmsg_role_reply
  /\ Constructor["cofmsg_stats_request"] = cofmsg_stats_request
  /\ Constructor["cofmsg_stats_reply"] = cofmsg_stats_reply
  /\ Constructor["cofmsg_table_mod"] = cofmsg_table_mod
  /\ Constructor["cofmsg_aggr_stats_request"] = cofmsg_aggr_stats_request
  /\ Constructor["cofmsg_aggr_stats_reply"] = cofmsg_aggr_stats_reply
  /\ Constructor["cofmsg_desc_stats_request"] = cofmsg_desc_stats_request
  /\ Constructor["cofmsg_desc_stats_reply"] = cofmsg_desc_stats_reply
  /\ Constructor["cofmsg_experimenter_stats_request"] = cofmsg_experimenter_stats_request
  /\ Constructor["cofmsg_experimenter_stats_reply"] = cofmsg_experimenter_stats_reply
  /\ Constructor["cofmsg_flow_stats_request"] = cofmsg_flow_stats_request
  /\ Constructor["cofmsg_flow_stats_reply"] = cofmsg_flow_stats_reply
  /\ Constructor["cofmsg_group_desc_stats_request"] = cofmsg_group_desc_stats_request
  /\ Constructor["cofmsg_group_desc_stats_reply"] = cofmsg_group_desc_stats_reply
  /\ Constructor["cofmsg_group_features_stats_request"] = cofmsg_group_features_stats_request
  /\ Constructor["cofmsg_group_features_stats_reply"] = cofmsg_group_features_stats_reply
  /\ Constructor["cofmsg_group_stats_request"] = cofmsg_group_stats_request
  /\ Constructor["cofmsg_group_stats_reply"] = cofmsg_group_stats_reply
  /\ Constructor["cofmsg_meter_config_stats_request"] = cofmsg_meter_config_stats_request
  /\ Constructor["cofmsg_meter_config_stats_reply"] = cofmsg_meter_config_stats_reply
  /\ Constructor["cofmsg_meter_features_stats_request"] = cofmsg_meter_features_stats_request
  /\ Constructor["cofmsg_meter_features_stats_reply"] = cofmsg_meter_features_stats_reply
  /\ Constructor["cofmsg_meter_stats_request"] = cofmsg_meter_stats_request
  /\ Constructor["cofmsg_meter_stats_reply"] = cofmsg_meter_stats_reply
  /\ Constructor["cofmsg_port_desc_stats_request"] = cofmsg_port_desc_stats_request
  /\ Constructor["cofmsg_port_desc_stats_reply"] = cofmsg_port_desc_stats_reply
  /\ Constructor["cofmsg_port_stats_request"] = cofmsg_port_stats_request
  /\ Constructor["cofmsg_port_stats_reply"] = cofmsg_port_stats_reply
  /\ Constructor["cofmsg_queue_stats_request"] = cofmsg_queue_stats_request
  /\ Constructor["cofmsg_queue_stats_reply"] = cofmsg_queue_stats_reply
  /\ Constructor["cofmsg_table_features_stats_request"] = cofmsg_table_features_stats_request
  /\ Constructor["cofmsg_table_features_stats_reply"] = cofmsg_table_features_stats_reply
  /\ Constructor["cofmsg_table_stats_request"] = cofmsg_table_stats_request
  /\ Constructor["cofmsg_table_stats_reply"] = cofmsg_table_stats_reply
  BY DEF Constructor

\* The numbers of the message and statistics types, as openflow10.h, openflow12.h and openflow13.h have
\* them.
LEMMA Numbers ==
  /\ ofp10_stats_types.OFPST_AGGREGATE = 2
  /\ ofp10_stats_types.OFPST_DESC = 0
  /\ ofp10_stats_types.OFPST_VENDOR = 65535
  /\ ofp10_type.OFPT_BARRIER_REPLY = 19
  /\ ofp10_type.OFPT_BARRIER_REQUEST = 18
  /\ ofp10_type.OFPT_PORT_MOD = 15
  /\ ofp10_type.OFPT_QUEUE_GET_CONFIG_REPLY = 21
  /\ ofp10_type.OFPT_QUEUE_GET_CONFIG_REQUEST = 20
  /\ ofp10_type.OFPT_STATS_REPLY = 17
  /\ ofp10_type.OFPT_STATS_REQUEST = 16
  /\ ofp12_type.OFPT_BARRIER_REPLY = 21
  /\ ofp12_type.OFPT_BARRIER_REQUEST = 20
  /\ ofp12_type.OFPT_GROUP_MOD = 15
  /\ ofp13_multipart_types.OFPMP_EXPERIMENTER = 65535
  /\ ofp13_type.OFPT_MULTIPART_REQUEST = 18
  /\ ofp_multipart_types.OFPMP_AGGREGATE = 2
  /\ ofp_multipart_types.OFPMP_DESC = 0
  /\ ofp_multipart_types.OFPMP_FLOW = 1
  /\ ofp_multipart_types.OFPMP_GROUP = 6
  /\ ofp_multipart_types.OFPMP_GROUP_DESC = 7
  /\ ofp_multipart_types.OFPMP_GROUP_FEATURES = 8
  /\ ofp_multipart_types.OFPMP_METER = 9
  /\ ofp_multipart_types.OFPMP_METER_CONFIG = 10
  /\ ofp_multipart_types.OFPMP_METER_FEATURES = 11
  /\ ofp_multipart_types.OFPMP_PORT_DESC = 13
  /\ ofp_multipart_types.OFPMP_PORT_STATS = 4
  /\ ofp_multipart_types.OFPMP_QUEUE = 5
  /\ ofp_multipart_types.OFPMP_TABLE = 3
  /\ ofp_multipart_types.OFPMP_TABLE_FEATURES = 12
  /\ ofp_type.OFPT_ERROR = 1
  /\ ofp_type.OFPT_EXPERIMENTER = 4
  /\ ofp_type.OFPT_FEATURES_REPLY = 6
  /\ ofp_type.OFPT_FEATURES_REQUEST = 5
  /\ ofp_type.OFPT_FLOW_MOD = 14
  /\ ofp_type.OFPT_FLOW_REMOVED = 11
  /\ ofp_type.OFPT_GET_ASYNC_REPLY = 27
  /\ ofp_type.OFPT_GET_ASYNC_REQUEST = 26
  /\ ofp_type.OFPT_GET_CONFIG_REPLY = 8
  /\ ofp_type.OFPT_GET_CONFIG_REQUEST = 7
  /\ ofp_type.OFPT_METER_MOD = 29
  /\ ofp_type.OFPT_MULTIPART_REPLY = 19
  /\ ofp_type.OFPT_PACKET_IN = 10
  /\ ofp_type.OFPT_PACKET_OUT = 13
  /\ ofp_type.OFPT_PORT_MOD = 16
  /\ ofp_type.OFPT_PORT_STATUS = 12
  /\ ofp_type.OFPT_QUEUE_GET_CONFIG_REPLY = 23
  /\ ofp_type.OFPT_QUEUE_GET_CONFIG_REQUEST = 22
  /\ ofp_type.OFPT_ROLE_REPLY = 25
  /\ ofp_type.OFPT_ROLE_REQUEST = 24
  /\ ofp_type.OFPT_SET_ASYNC = 28
  /\ ofp_type.OFPT_SET_CONFIG = 9
  /\ ofp_type.OFPT_TABLE_MOD = 17
  BY DEF ofp10_stats_types, ofp10_type, ofp12_type, ofp13_multipart_types, ofp13_type,
     ofp_multipart_types, ofp_type

\* The headers of the classes with one type number.
LEMMA TypedClasses ==
  ASSUME NEW v \in Versions PROVE
    /\ Headed("cofmsg_get_config_request", v, 7, NoStats)
    /\ Headed("cofmsg_get_config_reply", v, 8, NoStats)
    /\ Headed("cofmsg_set_config", v, 9, NoStats)
    /\ Headed("cofmsg_error", v, 1, NoStats)
    /\ Headed("cofmsg_experimenter", v, 4, NoStats)
    /\ Headed("cofmsg_features_request", v, 5, NoStats)
    /\ Headed("cofmsg_features_reply", v, 6, NoStats)
    /\ Headed("cofmsg_flow_removed", v, 11, NoStats)
    /\ Headed("cofmsg_group_mod", v, 15, NoStats)
    /\ Headed("cofmsg_packet_in", v, 10, NoStats)
    /\ Headed("cofmsg_packet_out", v, 13, NoStats)
    /\ Headed("cofmsg_port_status", v, 12, NoStats)
    /\ Headed("cofmsg_get_async_config_request", v, 26, NoStats)
    /\ Headed("cofmsg_get_async_config_reply", v, 27, NoStats)
    /\ Headed("cofmsg_set_async_config", v, 28, NoStats)
    /\ Headed("cofmsg_flow_mod", v, 14, NoStats)
    /\ Headed("cofmsg_meter_mod", v, 29, NoStats)
    /\ Headed("cofmsg_role_request", v, 24, NoStats)
    /\ Headed("cofmsg_role_reply", v, 25, NoStats)
    /\ Headed("cofmsg_table_mod", v, 17, NoStats)
  BY Names, Numbers, TypedHeader
     DEF Headed, TypeOf, StatsOf, cofmsg_get_config_request, cofmsg_get_config_reply, cofmsg_set_config,
     cofmsg_error, cofmsg_experimenter, cofmsg_features_request, cofmsg_features_reply,
     cofmsg_flow_removed, cofmsg_group_mod, cofmsg_packet_in, cofmsg_packet_out, cofmsg_port_status,
     cofmsg_get_async_config_request, cofmsg_get_async_config_reply, cofmsg_set_async_config,
     cofmsg_flow_mod, cofmsg_meter_mod, cofmsg_role_request, cofmsg_role_reply, cofmsg_table_mod

\* The headers of the classes with a type number of their own in OpenFlow 1.0.
LEMMA Typed10Classes ==
  ASSUME NEW v \in Versions PROVE
    /\ Headed("cofmsg_barrier_request", v, IF v = 1 THEN 18 ELSE 20, NoStats)
    /\ Headed("cofmsg_barrier_reply", v, IF v = 1 THEN 19 ELSE 21, NoStats)
    /\ Headed("cofmsg_port_mod", v, IF v = 1 THEN 15 ELSE 16, NoStats)
    /\ Headed("cofmsg_queue_get_config_request", v, IF v = 1 THEN 20 ELSE 22, NoStats)
    /\ Headed("cofmsg_queue_get_config_reply", v, IF v = 1 THEN 21 ELSE 23, NoStats)
<1>1. Headed("cofmsg_barrier_request", v, IF v = 1 THEN 18 ELSE 20, NoStats)
  <2>1. cofmsg_barrier_request = Typed10(Typed(20), 18)
    BY Numbers DEF cofmsg_barrier_request
  <2> QED
    BY <2>1, Names, Typed10Header DEF Headed, TypeOf, StatsOf
<1>2. Headed("cofmsg_barrier_reply", v, IF v = 1 THEN 19 ELSE 21, NoStats)
  <2>1. cofmsg_barrier_reply = Typed10(Typed(21), 19)
    BY Numbers DEF cofmsg_barrier_reply
  <2> QED
    BY <2>1, Names, Typed10Header DEF Headed, TypeOf, StatsOf
<1>3. Headed("cofmsg_port_mod", v, IF v = 1 THEN 15 ELSE 16, NoStats)
  <2>1. cofmsg_port_mod = Typed10(Typed(16), 15)
    BY Numbers DEF cofmsg_port_mod
  <2> QED
    BY <2>1, Names, Typed10Header DEF Headed, TypeOf, StatsOf
<1>4. Headed("cofmsg_queue_get_config_request", v, IF v = 1 THEN 20 ELSE 22, NoStats)
  <2>1. cofmsg_queue_get_config_request = Typed10(Typed(22), 20)
    BY Numbers DEF cofmsg_queue_get_config_request
  <2> QED
    BY <2>1, Names, Typed10Header DEF Headed, TypeOf, StatsOf
<1>5. Headed("cofmsg_queue_get_config_reply", v, IF v = 1 THEN 21 ELSE 23, NoStats)
  <2>1. cofmsg_queue_get_config_reply = Typed10(Typed(23), 21)
    BY Numbers DEF cofmsg_queue_get_config_reply
  <2> QED
    BY <2>1, Names, Typed10Header DEF Headed, TypeOf, StatsOf
<1> QED
  BY <1>1, <1>2, <1>3, <1>4, <1>5

\* The headers of the statistics requests.
LEMMA RequestClasses ==
  ASSUME NEW v \in Versions PROVE
    /\ Headed("cofmsg_aggr_stats_request", v, IF v = 1 THEN 16 ELSE 18, 2)
    /\ Headed("cofmsg_desc_stats_request", v, IF v = 1 THEN 16 ELSE 18, 0)
    /\ Headed("cofmsg_experimenter_stats_request", v, IF v = 1 THEN 16 ELSE 18, 65535)
    /\ Headed("cofmsg_flow_stats_request", v, IF v = 1 THEN 16 ELSE 18, 1)
    /\ Headed("cofmsg_group_desc_stats_request", v, IF v = 1 THEN 16 ELSE 18, 7)
    /\ Headed("cofmsg_group_features_stats_request", v, IF v = 1 THEN 16 ELSE 18, 8)
    /\ Headed("cofmsg_group_stats_request", v, IF v = 1 THEN 16 ELSE 18, 6)
    /\ Headed("cofmsg_meter_config_stats_request", v, IF v = 1 THEN 16 ELSE 18, 10)
    /\ Headed("cofmsg_meter_features_stats_request", v, IF v = 1 THEN 16 ELSE 18, 11)
    /\ Headed("cofmsg_meter_stats_request", v, IF v = 1 THEN 16 ELSE 18, 9)
    /\ Headed("cofmsg_port_desc_stats_request", v, IF v = 1 THEN 16 ELSE 18, 13)
    /\ Headed("cofmsg_port_stats_request", v, IF v = 1 THEN 16 ELSE 18, 4)
    /\ Headed("cofmsg_queue_stats_request", v, IF v = 1 THEN 16 ELSE 18, 5)
    /\ Headed("cofmsg_table_features_stats_request", v, IF v = 1 THEN 16 ELSE 18, 12)
    /\ Headed("cofmsg_table_stats_request", v, IF v = 1 THEN 16 ELSE 18, 3)
<1>0. cofmsg_stats_request = Typed10(Typed(18), 16)
  BY Numbers DEF cofmsg_stats_request
<1>1. Headed("cofmsg_aggr_stats_request", v, IF v = 1 THEN 16 ELSE 18, 2)
  <2>1. cofmsg_aggr_stats_request = Stats10(WithStats(Typed10(Typed(18), 16), 2), 2)
    BY <1>0, Numbers DEF cofmsg_aggr_stats_request
  <2> QED
    BY <2>1, Names, Stats10Header DEF Headed, TypeOf, StatsOf
<1>2. Headed("cofmsg_desc_stats_request", v, IF v = 1 THEN 16 ELSE 18, 0)
  <2>1. cofmsg_desc_stats_request = Stats10(WithStats(Typed10(Typed(18), 16), 0), 0)
    BY <1>0, Numbers DEF cofmsg_desc_stats_request
  <2> QED
    BY <2>1, Names, Stats10Header DEF Headed, TypeOf, StatsOf
<1>3. Headed("cofmsg_experimenter_stats_request", v, IF v = 1 THEN 16 ELSE 18, 65535)
  <2>1. cofmsg_experimenter_stats_request = Stats10(WithStats(Typed10(Typed(18), 16), 65535), 65535)
    BY <1>0, Numbers DEF cofmsg_experimenter_stats_request
  <2> QED
    BY <2>1, Names, Stats10Header DEF Headed, TypeOf, StatsOf
<1>4. Headed("cofmsg_flow_stats_request", v, IF v = 1 THEN 16 ELSE 18, 1)
  <2>1. cofmsg_flow_stats_request = WithStats(Typed10(Typed(18), 16), 1)
    BY <1>0, Numbers DEF cofmsg_flow_stats_request
  <2> QED
    BY <2>1, Names, StatsHeader DEF Headed, TypeOf, StatsOf
<1>5. Headed("cofmsg_group_desc_stats_request", v, IF v = 1 THEN 16 ELSE 18, 7)
  <2>1. cofmsg_group_desc_stats_request = WithStats(Typed10(Typed(18), 16), 7)
    BY <1>0, Numbers DEF cofmsg_group_desc_stats_request
  <2> QED
    BY <2>1, Names, StatsHeader DEF Headed, TypeOf, StatsOf
<1>6. Headed("cofmsg_group_features_stats_request", v, IF v = 1 THEN 16 ELSE 18, 8)
  <2>1. cofmsg_group_features_stats_request = WithStats(Typed10(Typed(18), 16), 8)
    BY <1>0, Numbers DEF cofmsg_group_features_stats_request
  <2> QED
    BY <2>1, Names, StatsHeader DEF Headed, TypeOf, StatsOf
<1>7. Headed("cofmsg_group_stats_request", v, IF v = 1 THEN 16 ELSE 18, 6)
  <2>1. cofmsg_group_stats_request = WithStats(Typed10(Typed(18), 16), 6)
    BY <1>0, Numbers DEF cofmsg_group_stats_request
  <2> QED
    BY <2>1, Names, StatsHeader DEF Headed, TypeOf, StatsOf
<1>8. Headed("cofmsg_meter_config_stats_request", v, IF v = 1 THEN 16 ELSE 18, 10)
  <2>1. cofmsg_meter_config_stats_request = WithStats(Typed10(Typed(18), 16), 10)
    BY <1>0, Numbers DEF cofmsg_meter_config_stats_request
  <2> QED
    BY <2>1, Names, StatsHeader DEF Headed, TypeOf, StatsOf
<1>9. Headed("cofmsg_meter_features_stats_request", v, IF v = 1 THEN 16 ELSE 18, 11)
  <2>1. cofmsg_meter_features_stats_request = WithStats(Typed10(Typed(18), 16), 11)
    BY <1>0, Numbers DEF cofmsg_meter_features_stats_request
  <2> QED
    BY <2>1, Names, StatsHeader DEF Headed, TypeOf, StatsOf
<1>10. Headed("cofmsg_meter_stats_request", v, IF v = 1 THEN 16 ELSE 18, 9)
  <2>1. cofmsg_meter_stats_request = WithStats(Typed10(Typed(18), 16), 9)
    BY <1>0, Numbers DEF cofmsg_meter_stats_request
  <2> QED
    BY <2>1, Names, StatsHeader DEF Headed, TypeOf, StatsOf
<1>11. Headed("cofmsg_port_desc_stats_request", v, IF v = 1 THEN 16 ELSE 18, 13)
  <2>1. cofmsg_port_desc_stats_request = WithStats(Typed10(Typed(18), 16), 13)
    BY <1>0, Numbers DEF cofmsg_port_desc_stats_request
  <2> QED
    BY <2>1, Names, StatsHeader DEF Headed, TypeOf, StatsOf
<1>12. Headed("cofmsg_port_stats_request", v, IF v = 1 THEN 16 ELSE 18, 4)
  <2>1. cofmsg_port_stats_request = WithStats(Typed10(Typed(18), 16), 4)
    BY <1>0, Numbers DEF cofmsg_port_stats_request
  <2> QED
    BY <2>1, Names, StatsHeader DEF Headed, TypeOf, StatsOf
<1>13. Headed("cofmsg_queue_stats_request", v, IF v = 1 THEN 16 ELSE 18, 5)
  <2>1. cofmsg_queue_stats_request = WithStats(Typed10(Typed(18), 16), 5)
    BY <1>0, Numbers DEF cofmsg_queue_stats_request
  <2> QED
    BY <2>1, Names, StatsHeader DEF Headed, TypeOf, StatsOf
<1>14. Headed("cofmsg_table_features_stats_request", v, IF v = 1 THEN 16 ELSE 18, 12)
  <2>1. cofmsg_table_features_stats_request = WithStats(Typed10(Typed(18), 16), 12)
    BY <1>0, Numbers DEF cofmsg_table_features_stats_request
  <2> QED
    BY <2>1, Names, StatsHeader DEF Headed, TypeOf, StatsOf
<1>15. Headed("cofmsg_table_stats_request", v, IF v = 1 THEN 16 ELSE 18, 3)
  <2>1. cofmsg_table_stats_request = WithStats(Typed10(Typed(18), 16), 3)
    BY <1>0, Numbers DEF cofmsg_table_stats_request
  <2> QED
    BY <2>1, Names, StatsHeader DEF Headed, TypeOf, StatsOf
<1> QED
  BY <1>1, <1>2, <1>3, <1>4, <1>5, <1>6, <1>7, <1>8, <1>9, <1>10, <1>11, <1>12, <1>13, <1>14, <1>15

\* The headers of the statistics replies.
LEMMA ReplyClasses ==
  ASSUME NEW v \in Versions PROVE
    /\ Headed("cofmsg_aggr_stats_reply", v, IF v = 1 THEN 17 ELSE 19, 2)
    /\ Headed("cofmsg_desc_stats_reply", v, IF v = 1 THEN 17 ELSE 19, 0)
    /\ Headed("cofmsg_experimenter_stats_reply", v, IF v = 1 THEN 17 ELSE 19, 65535)
    /\ Headed("cofmsg_flow_stats_reply", v, IF v = 1 THEN 17 ELSE 19, 1)
    /\ Headed("cofmsg_group_desc_stats_reply", v, IF v = 1 THEN 17 ELSE 19, 7)
    /\ Headed("cofmsg_group_features_stats_reply", v, IF v = 1 THEN 17 ELSE 19, 8)
    /\ Headed("cofmsg_group_stats_reply", v, IF v = 1 THEN 17 ELSE 19, 6)
    /\ Headed("cofmsg_meter_config_stats_reply", v, IF v = 1 THEN 17 ELSE 19, 10)
    /\ Headed("cofmsg_meter_features_stats_reply", v, IF v = 1 THEN 17 ELSE 19, 11)
    /\ Headed("cofmsg_meter_stats_reply", v, IF v = 1 THEN 17 ELSE 19, 9)
    /\ Headed("cofmsg_port_desc_stats_reply", v, IF v = 1 THEN 17 ELSE 19, 13)
    /\ Headed("cofmsg_port_stats_reply", v, IF v = 1 THEN 17 ELSE 19, 4)
    /\ Headed("cofmsg_queue_stats_reply", v, IF v = 1 THEN 17 ELSE 19, 5)
    /\ Headed("cofmsg_table_features_stats_reply", v, IF v = 1 THEN 17 ELSE 19, 12)
    /\ Headed("cofmsg_table_stats_reply", v, IF v = 1 THEN 17 ELSE 19, 3)
<1>0. cofmsg_stats_reply = Typed10(Typed(19), 17)
  BY Numbers DEF cofmsg_stats_reply
<1>1. Headed("cofmsg_aggr_stats_reply", v, IF v = 1 THEN 17 ELSE 19, 2)
  <2>1. cofmsg_aggr_stats_reply = Stats10(WithStats(Typed10(Typed(19), 17), 2), 2)
    BY <1>0, Numbers DEF cofmsg_aggr_stats_reply
  <2> QED
    BY <2>1, Names, Stats10Header DEF Headed, TypeOf, StatsOf
<1>2. Headed("cofmsg_desc_stats_reply", v, IF v = 1 THEN 17 ELSE 19, 0)
  <2>1. cofmsg_desc_stats_reply = Stats10(WithStats(Typed10(Typed(19), 17), 0), 0)
    BY <1>0, Numbers DEF cofmsg_desc_stats_reply
  <2> QED
    BY <2>1, Names, Stats10Header DEF Headed, TypeOf, StatsOf
<1>3. Headed("cofmsg_experimenter_stats_reply", v, IF v = 1 THEN 17 ELSE 19, 65535)
  <2>1. cofmsg_experimenter_stats_reply = Stats10(WithStats(Typed10(Typed(19), 17), 65535), 65535)
    BY <1>0, Numbers DEF cofmsg_experimenter_stats_reply
  <2> QED
    BY <2>1, Names, Stats10Header DEF Headed, TypeOf, StatsOf
<1>4. Headed("cofmsg_flow_stats_reply", v, IF v = 1 THEN 17 ELSE 19, 1)
  <2>1. cofmsg_flow_stats_reply = WithStats(Typed10(Typed(19), 17), 1)
    BY <1>0, Numbers DEF cofmsg_flow_stats_reply
  <2> QED
    BY <2>1, Names, StatsHeader DEF Headed, TypeOf, StatsOf
<1>5. Headed("cofmsg_group_desc_stats_reply", v, IF v = 1 THEN 17 ELSE 19, 7)
  <2>1. cofmsg_group_desc_stats_reply = WithStats(Typed10(Typed(19), 17), 7)
    BY <1>0, Numbers DEF cofmsg_group_desc_stats_reply
  <2> QED
    BY <2>1, Names, StatsHeader DEF Headed, TypeOf, StatsOf
<1>6. Headed("cofmsg_group_features_stats_reply", v, IF v = 1 THEN 17 ELSE 19, 8)
  <2>1. cofmsg_group_features_stats_reply = WithStats(Typed10(Typed(19), 17), 8)
    BY <1>0, Numbers DEF cofmsg_group_features_stats_reply
  <2> QED
    BY <2>1, Names, StatsHeader DEF Headed, TypeOf, StatsOf
<1>7. Headed("cofmsg_group_stats_reply", v, IF v = 1 THEN 17 ELSE 19, 6)
  <2>1. cofmsg_group_stats_reply = WithStats(Typed10(Typed(19), 17), 6)
    BY <1>0, Numbers DEF cofmsg_group_stats_reply
  <2> QED
    BY <2>1, Names, StatsHeader DEF Headed, TypeOf, StatsOf
<1>8. Headed("cofmsg_meter_config_stats_reply", v, IF v = 1 THEN 17 ELSE 19, 10)
  <2>1. cofmsg_meter_config_stats_reply = WithStats(Typed10(Typed(19), 17), 10)
    BY <1>0, Numbers DEF cofmsg_meter_config_stats_reply
  <2> QED
    BY <2>1, Names, StatsHeader DEF Headed, TypeOf, StatsOf
<1>9. Headed("cofmsg_meter_features_stats_reply", v, IF v = 1 THEN 17 ELSE 19, 11)
  <2>1. cofmsg_meter_features_stats_reply = WithStats(Typed10(Typed(19), 17), 11)
    BY <1>0, Numbers DEF cofmsg_meter_features_stats_reply
  <2> QED
    BY <2>1, Names, StatsHeader DEF Headed, TypeOf, StatsOf
<1>10. Headed("cofmsg_meter_stats_reply", v, IF v = 1 THEN 17 ELSE 19, 9)
  <2>1. cofmsg_meter_stats_reply = WithStats(Typed10(Typed(19), 17), 9)
    BY <1>0, Numbers DEF cofmsg_meter_stats_reply
  <2> QED
    BY <2>1, Names, StatsHeader DEF Headed, TypeOf, StatsOf
<1>11. Headed("cofmsg_port_desc_stats_reply", v, IF v = 1 THEN 17 ELSE 19, 13)
  <2>1. cofmsg_port_desc_stats_reply = WithStats(Typed10(Typed(19), 17), 13)
    BY <1>0, Numbers DEF cofmsg_port_desc_stats_reply
  <2> QED
    BY <2>1, Names, StatsHeader DEF Headed, TypeOf, StatsOf
<1>12. Headed("cofmsg_port_stats_reply", v, IF v = 1 THEN 17 ELSE 19, 4)
  <2>1. cofmsg_port_stats_reply = WithStats(Typed10(Typed(19), 17), 4)
    BY <1>0, Numbers DEF cofmsg_port_stats_reply
  <2> QED
    BY <2>1, Names, StatsHeader DEF Headed, TypeOf, StatsOf
<1>13. Headed("cofmsg_queue_stats_reply", v, IF v = 1 THEN 17 ELSE 19, 5)
  <2>1. cofmsg_queue_stats_reply = WithStats(Typed10(Typed(19), 17), 5)
    BY <1>0, Numbers DEF cofmsg_queue_stats_reply
  <2> QED
    BY <2>1, Names, StatsHeader DEF Headed, TypeOf, StatsOf
<1>14. Headed("cofmsg_table_features_stats_reply", v, IF v = 1 THEN 17 ELSE 19, 12)
  <2>1. cofmsg_table_features_stats_reply = WithStats(Typed10(Typed(19), 17), 12)
    BY <1>0, Numbers DEF cofmsg_table_features_stats_reply
  <2> QED
    BY <2>1, Names, StatsHeader DEF Headed, TypeOf, StatsOf
<1>15. Headed("cofmsg_table_stats_reply", v, IF v = 1 THEN 17 ELSE 19, 3)
  <2>1. cofmsg_table_stats_reply = WithStats(Typed10(Typed(19), 17), 3)
    BY <1>0, Numbers DEF cofmsg_table_stats_reply
  <2> QED
    BY <2>1, Names, StatsHeader DEF Headed, TypeOf, StatsOf
<1> QED
  BY <1>1, <1>2, <1>3, <1>4, <1>5, <1>6, <1>7, <1>8, <1>9, <1>10, <1>11, <1>12, <1>13, <1>14, <1>15

-----------------------------------------------------------------------------
(* Switches: what crofsock creates, and what crofctl and crofdpt handle *)

\* The classes that are not about statistics.
PlainClasses == {"cofmsg_barrier_request", "cofmsg_barrier_reply", "cofmsg_get_config_request",
  "cofmsg_get_config_reply", "cofmsg_set_config", "cofmsg_error", "cofmsg_experimenter",
  "cofmsg_features_request", "cofmsg_features_reply", "cofmsg_flow_removed", "cofmsg_group_mod",
  "cofmsg_packet_in", "cofmsg_packet_out", "cofmsg_port_status", "cofmsg_get_async_config_request",
  "cofmsg_get_async_config_reply", "cofmsg_set_async_config", "cofmsg_flow_mod", "cofmsg_meter_mod",
  "cofmsg_port_mod", "cofmsg_queue_get_config_request", "cofmsg_queue_get_config_reply",
  "cofmsg_role_request", "cofmsg_role_reply", "cofmsg_table_mod"}

\* The statistics and multipart requests, and their replies.
StatsRequests == {"cofmsg_aggr_stats_request", "cofmsg_desc_stats_request",
  "cofmsg_experimenter_stats_request",
  "cofmsg_flow_stats_request", "cofmsg_group_desc_stats_request", "cofmsg_group_features_stats_request",
  "cofmsg_group_stats_request", "cofmsg_meter_config_stats_request",
    "cofmsg_meter_features_stats_request",
  "cofmsg_meter_stats_request", "cofmsg_port_desc_stats_request", "cofmsg_port_stats_request",
  "cofmsg_queue_stats_request", "cofmsg_table_features_stats_request", "cofmsg_table_stats_request"}
StatsReplies == {"cofmsg_aggr_stats_reply", "cofmsg_desc_stats_reply", "cofmsg_experimenter_stats_reply",
  "cofmsg_flow_stats_reply", "cofmsg_group_desc_stats_reply", "cofmsg_group_features_stats_reply",
  "cofmsg_group_stats_reply", "cofmsg_meter_config_stats_reply", "cofmsg_meter_features_stats_reply",
  "cofmsg_meter_stats_reply", "cofmsg_port_desc_stats_reply", "cofmsg_port_stats_reply",
  "cofmsg_queue_stats_reply", "cofmsg_table_features_stats_reply", "cofmsg_table_stats_reply"}

\* Of the plain classes, those that a controller sends and those that a datapath sends.
CtlPlain == {"cofmsg_packet_out", "cofmsg_barrier_request", "cofmsg_role_request", "cofmsg_flow_mod",
  "cofmsg_group_mod",
  "cofmsg_table_mod", "cofmsg_port_mod", "cofmsg_set_config", "cofmsg_queue_get_config_request",
  "cofmsg_get_async_config_request", "cofmsg_set_async_config", "cofmsg_meter_mod", "cofmsg_error",
  "cofmsg_experimenter", "cofmsg_features_request", "cofmsg_get_config_request"}
DptPlain == {"cofmsg_features_reply", "cofmsg_get_config_reply", "cofmsg_barrier_reply",
  "cofmsg_role_reply",
  "cofmsg_queue_get_config_reply", "cofmsg_get_async_config_reply", "cofmsg_experimenter",
    "cofmsg_packet_in",
  "cofmsg_flow_removed", "cofmsg_port_status", "cofmsg_error"}

\* crofsock::parse_of10_message creates for a type number an object of the class that writes it; nothing
\* is created for the number of a group modification, which OpenFlow 1.0 has not.
LEMMA Parse10 ==
  ASSUME NEW c \in PlainClasses, c # "cofmsg_group_mod"
  PROVE  \A L \in DOMAIN parse_of10_message : ofp10_type[L] = TypeOf(c, 1) => parse_of10_message[L] = c
  BY TypedClasses, Typed10Classes DEF Headed, PlainClasses, parse_of10_message, ofp10_type, Versions

\* crofsock::parse_of12_message creates for a type number an object of the class that writes it.
LEMMA Parse12 ==
  ASSUME NEW c \in PlainClasses
  PROVE  \A L \in DOMAIN parse_of12_message : ofp12_type[L] = TypeOf(c, 3) => parse_of12_message[L] = c
  BY TypedClasses, Typed10Classes DEF Headed, PlainClasses, parse_of12_message, ofp12_type, Versions

\* crofsock::parse_of13_message creates for a type number an object of the class that writes it.
LEMMA Parse13 ==
  ASSUME NEW c \in PlainClasses
  PROVE  \A L \in DOMAIN parse_of13_message : ofp13_type[L] = TypeOf(c, 4) => parse_of13_message[L] = c
  BY TypedClasses, Typed10Classes DEF Headed, PlainClasses, parse_of13_message, ofp13_type, Versions

\* crofctl::handle_recv casts, in OpenFlow 1.0, what crofsock creates to its own class, and has a case for
\* every message of a controller.
LEMMA Ctl10 ==
  /\ \A L \in DOMAIN ctl_recv_of10 : L \in DOMAIN parse_of10_message /\
       ctl_recv_of10[L].cast = parse_of10_message[L]
  /\ \A L \in DOMAIN parse_of10_message : parse_of10_message[L] \in CtlPlain => L \in DOMAIN ctl_recv_of10
  BY DEF ctl_recv_of10, parse_of10_message, Open, Checked, CtlPlain

\* The same in OpenFlow 1.2, but for the messages about asynchronous events, which have no form there.
LEMMA Ctl12 ==
  /\ \A L \in DOMAIN ctl_recv_of12 : L \in DOMAIN parse_of12_message /\
       ctl_recv_of12[L].cast = parse_of12_message[L]
  /\ \A L \in DOMAIN parse_of12_message : parse_of12_message[L] \in CtlPlain /\
       <<3, parse_of12_message[L]>> \notin NoForm => L \in DOMAIN ctl_recv_of12
  BY DEF ctl_recv_of12, parse_of12_message, Open, Checked, CtlPlain, NoForm, From12Classes, From13Classes

\* The same in OpenFlow 1.3.
LEMMA Ctl13 ==
  /\ \A L \in DOMAIN ctl_recv_of13 : L \in DOMAIN parse_of13_message /\
       ctl_recv_of13[L].cast = parse_of13_message[L]
  /\ \A L \in DOMAIN parse_of13_message : parse_of13_message[L] \in CtlPlain => L \in DOMAIN ctl_recv_of13
  BY DEF ctl_recv_of13, parse_of13_message, Open, Checked, CtlPlain

\* crofdpt::handle_recv casts, in OpenFlow 1.0, what crofsock creates to its own class, has a case for
\* every message of a datapath, and takes the ports from the messages about them and from no other.
LEMMA Dpt10 ==
  /\ \A L \in DOMAIN dpt_recv_of10 : L \in DOMAIN parse_of10_message /\
       dpt_recv_of10[L].cast = parse_of10_message[L]
        /\ (1 \in dpt_recv_of10[L].ports <=> parse_of10_message[L] \in {"cofmsg_features_reply",
             "cofmsg_port_status"})
  /\ \A L \in DOMAIN parse_of10_message : parse_of10_message[L] \in DptPlain => L \in DOMAIN dpt_recv_of10
  BY DEF dpt_recv_of10, parse_of10_message, Told, DptPlain, features_reply_rcvd, get_config_reply_rcvd,
     barrier_reply_rcvd,
    flow_removed_rcvd, packet_in_rcvd, port_status_rcvd, experimenter_rcvd, error_rcvd,
      queue_get_config_reply_rcvd

\* The same in OpenFlow 1.2, but for the reply about asynchronous events.
LEMMA Dpt12 ==
  /\ \A L \in DOMAIN dpt_recv_of12 : L \in DOMAIN parse_of12_message /\
       dpt_recv_of12[L].cast = parse_of12_message[L]
        /\ (3 \in dpt_recv_of12[L].ports <=> parse_of12_message[L] \in {"cofmsg_features_reply",
             "cofmsg_port_status"})
  /\ \A L \in DOMAIN parse_of12_message : parse_of12_message[L] \in
       DptPlain \ {"cofmsg_get_async_config_reply"} => L \in DOMAIN dpt_recv_of12
  BY DEF dpt_recv_of12, parse_of12_message, Told, DptPlain, features_reply_rcvd, get_config_reply_rcvd,
     barrier_reply_rcvd,
    flow_removed_rcvd, packet_in_rcvd, port_status_rcvd, experimenter_rcvd, error_rcvd,
      queue_get_config_reply_rcvd, role_reply_rcvd

\* The same in OpenFlow 1.3, where only port status messages have ports: the features reply has none.
LEMMA Dpt13 ==
  /\ \A L \in DOMAIN dpt_recv_of13 : L \in DOMAIN parse_of13_message /\
       dpt_recv_of13[L].cast = parse_of13_message[L]
        /\ (4 \in dpt_recv_of13[L].ports <=> parse_of13_message[L] = "cofmsg_port_status")
  /\ \A L \in DOMAIN parse_of13_message : parse_of13_message[L] \in DptPlain => L \in DOMAIN dpt_recv_of13
  BY DEF dpt_recv_of13, parse_of13_message, Told, DptPlain, features_reply_rcvd, get_config_reply_rcvd,
     barrier_reply_rcvd,
    flow_removed_rcvd, packet_in_rcvd, port_status_rcvd, experimenter_rcvd, error_rcvd,
      queue_get_config_reply_rcvd, role_reply_rcvd,
    get_async_config_reply_rcvd

\* The object that crofsock creates and the handler it reaches are of the class c that was sent, where
\* there is one.
Agrees(P, K, c) == P = {} \/ (P = {c} /\ {k.cast : k \in K} = {c})

\* Two switches over the numbers E and F agree where each of their labels for t names the class c, and
\* where the second has a label for every number of the first.
LEMMA CaseAgrees ==
  ASSUME NEW E, NEW F, NEW P, NEW K, NEW c, NEW t,
         \A L \in DOMAIN P : E[L] = t => P[L] = c /\ \E M \in DOMAIN K : F[M] = t,
         \A M \in DOMAIN K : F[M] = t => K[M].cast = c
  PROVE  Agrees(Case(E, P, t), Case(F, K, t), c)
<1>1. \A p \in Case(E, P, t) : p = c
  BY DEF Case
<1>2. \A k \in Case(F, K, t) : k.cast = c
  BY DEF Case
<1>3. Case(E, P, t) # {} => Case(F, K, t) # {}
  BY DEF Case
<1> QED
  BY <1>1, <1>2, <1>3 DEF Agrees

\* crofctl and crofsock have the same switches over the statistics requests.
LEMMA StatsTables ==
  /\ ctl_stats_of10 = parse_of10_stats_request
  /\ ctl_stats_of12 = parse_of12_stats_request
  /\ ctl_stats_of13 = parse_of13_stats_request
  BY DEF ctl_stats_of10, parse_of10_stats_request, ctl_stats_of12, parse_of12_stats_request,
     ctl_stats_of13, parse_of13_stats_request

\* The enumerations that each version uses.
LEMMA VersionTables ==
  /\ ofp_type_of[1] = ofp10_type /\ ofp_type_of[3] = ofp12_type /\ ofp_type_of[4] = ofp13_type
  /\ ofp_stats_types_of[1] = ofp10_stats_types /\ ofp_stats_types_of[3] = ofp12_stats_types /\
       ofp_stats_types_of[4] = ofp13_multipart_types
  BY DEF ofp_type_of, ofp_stats_types_of, Versions

\* The type numbers under which statistics travel.
LEMMA StatsTypes ==
  ASSUME NEW v \in Versions
  PROVE  /\ StatsRequest(v) = (IF v = 1 THEN 16 ELSE 18)
         /\ StatsReply(v) = (IF v = 1 THEN 17 ELSE 19)
<1>1. cofmsg_stats_request = Typed10(Typed(18), 16) /\ cofmsg_stats_reply = Typed10(Typed(19), 17)
  BY Numbers DEF cofmsg_stats_request, cofmsg_stats_reply
<1> QED
  BY <1>1, Typed10Header DEF StatsRequest, StatsReply

\* The switches of crofsock over the statistics types create the class that writes the number.
LEMMA Request10 ==
  ASSUME NEW c \in StatsRequests
  PROVE  \A L \in DOMAIN parse_of10_stats_request : ofp10_stats_types[L] = StatsOf(c, 1)
         => parse_of10_stats_request[L] = c
  BY RequestClasses DEF Headed, StatsRequests, parse_of10_stats_request, ofp10_stats_types, Versions

LEMMA Request12 ==
  ASSUME NEW c \in StatsRequests
  PROVE  \A L \in DOMAIN parse_of12_stats_request : ofp12_stats_types[L] = StatsOf(c, 3)
         => parse_of12_stats_request[L] = c
  BY RequestClasses DEF Headed, StatsRequests, parse_of12_stats_request, ofp12_stats_types, Versions

LEMMA Request13 ==
  ASSUME NEW c \in StatsRequests
  PROVE  \A L \in DOMAIN parse_of13_stats_request : ofp13_multipart_types[L] = StatsOf(c, 4)
         => parse_of13_stats_request[L] = c
  BY RequestClasses DEF Headed, StatsRequests, parse_of13_stats_request, ofp13_multipart_types, Versions

LEMMA Reply10 ==
  ASSUME NEW c \in StatsReplies
  PROVE  \A L \in DOMAIN parse_of10_stats_reply : ofp10_stats_types[L] = StatsOf(c, 1)
         => parse_of10_stats_reply[L] = c
  BY ReplyClasses DEF Headed, StatsReplies, parse_of10_stats_reply, ofp10_stats_types, Versions

LEMMA Reply12 ==
  ASSUME NEW c \in StatsReplies
  PROVE  \A L \in DOMAIN parse_of12_stats_reply : ofp12_stats_types[L] = StatsOf(c, 3)
         => parse_of12_stats_reply[L] = c
  BY ReplyClasses DEF Headed, StatsReplies, parse_of12_stats_reply, ofp12_stats_types, Versions

LEMMA Reply13 ==
  ASSUME NEW c \in StatsReplies
  PROVE  \A L \in DOMAIN parse_of13_stats_reply : ofp13_multipart_types[L] = StatsOf(c, 4)
         => parse_of13_stats_reply[L] = c
  BY ReplyClasses DEF Headed, StatsReplies, parse_of13_stats_reply, ofp13_multipart_types, Versions

\* crofdpt::multipart_reply_rcvd casts to the class that writes the number, in every version.
LEMMA MultipartReplies ==
  ASSUME NEW c \in StatsReplies, NEW v \in Versions
  PROVE  \A L \in DOMAIN multipart_reply_rcvd : ofp13_multipart_types[L] = StatsOf(c, v)
         => multipart_reply_rcvd[L].cast = c
  BY ReplyClasses DEF Headed, StatsReplies, multipart_reply_rcvd, ofp13_multipart_types, Versions, Told,
  desc_stats_reply_rcvd, table_stats_reply_rcvd, port_stats_reply_rcvd, flow_stats_reply_rcvd,
    aggregate_stats_reply_rcvd,
  queue_stats_reply_rcvd, group_stats_reply_rcvd, group_desc_stats_reply_rcvd,
    group_features_stats_reply_rcvd,
  meter_stats_reply_rcvd, meter_config_stats_reply_rcvd, meter_features_stats_reply_rcvd,
    table_features_stats_reply_rcvd,
  port_desc_stats_reply_rcvd, experimenter_stats_reply_rcvd

\* Of the multipart replies only the port description has ports, in OpenFlow 1.3.
LEMMA MultipartPorts ==
  \A L \in DOMAIN multipart_reply_rcvd :
    /\ multipart_reply_rcvd[L].ports \subseteq {4}
    /\ 4 \in multipart_reply_rcvd[L].ports => multipart_reply_rcvd[L].cast =
         "cofmsg_port_desc_stats_reply"
  BY DEF multipart_reply_rcvd, Told,
  desc_stats_reply_rcvd, table_stats_reply_rcvd, port_stats_reply_rcvd, flow_stats_reply_rcvd,
    aggregate_stats_reply_rcvd,
  queue_stats_reply_rcvd, group_stats_reply_rcvd, group_desc_stats_reply_rcvd,
    group_features_stats_reply_rcvd,
  meter_stats_reply_rcvd, meter_config_stats_reply_rcvd, meter_features_stats_reply_rcvd,
    table_features_stats_reply_rcvd,
  port_desc_stats_reply_rcvd, experimenter_stats_reply_rcvd

\* crofdpt::multipart_reply_rcvd has a case for every statistics type ...
LEMMA MultipartTypes ==
  \A n \in (0..13) \cup {65535} : \E M \in DOMAIN multipart_reply_rcvd : ofp13_multipart_types[M] = n
  BY DEF multipart_reply_rcvd, ofp13_multipart_types

\* ... and so for every one that crofsock parses, in every version.
LEMMA MultipartTypesOf ==
  /\ \A L \in DOMAIN parse_of10_stats_reply : ofp10_stats_types[L] \in (0..13) \cup {65535}
  /\ \A L \in DOMAIN parse_of12_stats_reply : ofp12_stats_types[L] \in (0..13) \cup {65535}
  /\ \A L \in DOMAIN parse_of13_stats_reply : ofp13_multipart_types[L] \in (0..13) \cup {65535}
  BY DEF parse_of10_stats_reply, ofp10_stats_types, parse_of12_stats_reply, ofp12_stats_types,
     parse_of13_stats_reply, ofp13_multipart_types

-----------------------------------------------------------------------------
(* Delivery: a message meets the handler of its class *)

\* What a controller sends, and what a datapath sends.
FromCtl == CtlPlain \cup StatsRequests
FromDpt == DptPlain \cup StatsReplies

\* A message of a controller that has a form in the version is parsed as an object of its class, and
\* crofctl hands it to the handler of that class; or neither of them knows it.
LEMMA CtlDelivers ==
  ASSUME NEW v \in Versions, NEW c \in FromCtl, <<v, c>> \notin NoForm
  PROVE  Agrees(parse_message(v, Constructor[c][v]), ctl_handle_recv(v, Constructor[c][v]), c)
<1> DEFINE h == Constructor[c][v]
<1>1. h.type = TypeOf(c, v) /\ h.stats = StatsOf(c, v)
  BY DEF TypeOf, StatsOf
<1> HIDE DEF h
<1>2. CASE c \in StatsRequests
  <2> DEFINE P == Case(ofp_stats_types_of[v], ByVersion(v, parse_of10_stats_request,
        parse_of12_stats_request, parse_of13_stats_request), h.stats)
             K == {Open(d) : d \in P}
  <2>1. h.type = StatsRequest(v) /\ h.type # StatsReply(v)
    BY <1>1, <1>2, RequestClasses, StatsTypes DEF Headed, StatsRequests
  <2>2. parse_message(v, h) = P /\ ctl_handle_recv(v, h) = K
    BY <2>1, StatsTables DEF parse_message, ctl_handle_recv, ByVersion
  <2>3. \A p \in P : p = c
    BY <1>1, <1>2, VersionTables, Request10, Request12, Request13 DEF Case, ByVersion, Versions
  <2> HIDE DEF P
  <2>4. P # {} => K = {Open(c)}
    BY <2>3
  <2>5. P # {} => P = {c} /\ {k.cast : k \in {Open(c)}} = {c}
    BY <2>3 DEF Open
  <2>6. Agrees(P, K, c)
    BY <2>4, <2>5 DEF Agrees
  <2> QED
    BY <2>2, <2>6 DEF h
<1>3. CASE c \in CtlPlain
  <2>1. h.type # StatsRequest(v) /\ (h.type = StatsReply(v)
          => v = 1 /\ c = "cofmsg_table_mod" /\ h.stats = NoStats)
    BY <1>1, <1>3, TypedClasses, Typed10Classes, StatsTypes DEF Headed, CtlPlain
  <2>2. CASE h.type = StatsReply(v)
    <3>1. parse_message(v, h) = Case(ofp10_stats_types, parse_of10_stats_reply, NoStats)
      BY <2>1, <2>2, VersionTables DEF parse_message, ByVersion
    <3>2. Case(ofp10_stats_types, parse_of10_stats_reply, NoStats) = {}
      BY DEF Case, ofp10_stats_types, parse_of10_stats_reply, NoStats
    <3> QED
      BY <3>1, <3>2 DEF Agrees, h
  <2>3. CASE h.type # StatsReply(v)
    <3>0. c \in PlainClasses
      BY <1>3 DEF CtlPlain, PlainClasses
    <3>1. parse_message(v, h) = Case(ofp_type_of[v],
            ByVersion(v, parse_of10_message, parse_of12_message, parse_of13_message), h.type)
      BY <2>1, <2>3 DEF parse_message
    <3>2. ctl_handle_recv(v, h) = Case(ofp_type_of[v],
            ByVersion(v, ctl_recv_of10, ctl_recv_of12, ctl_recv_of13), h.type)
      BY <2>1, <2>3 DEF ctl_handle_recv
    <3>3. CASE v = 1
      <4>1. c # "cofmsg_group_mod"
        BY <3>3 DEF NoForm, From12Classes, From13Classes
      <4>2. Agrees(Case(ofp10_type, parse_of10_message, h.type), Case(ofp10_type, ctl_recv_of10, h.type),
              c)
        BY <1>1, <1>3, <3>0, <3>3, <4>1, Parse10, Ctl10, CaseAgrees
      <4> QED
        BY <3>1, <3>2, <3>3, <4>2, VersionTables DEF ByVersion, h
    <3>4. CASE v = 3
      <4>2. Agrees(Case(ofp12_type, parse_of12_message, h.type), Case(ofp12_type, ctl_recv_of12, h.type),
              c)
        BY <1>1, <1>3, <3>0, <3>4, Parse12, Ctl12, CaseAgrees
      <4> QED
        BY <3>1, <3>2, <3>4, <4>2, VersionTables DEF ByVersion, h
    <3>5. CASE v = 4
      <4>2. Agrees(Case(ofp13_type, parse_of13_message, h.type), Case(ofp13_type, ctl_recv_of13, h.type),
              c)
        BY <1>1, <1>3, <3>0, <3>5, Parse13, Ctl13, CaseAgrees
      <4> QED
        BY <3>1, <3>2, <3>5, <4>2, VersionTables DEF ByVersion, h
    <3> QED
      BY <3>3, <3>4, <3>5 DEF Versions
  <2> QED
    BY <2>2, <2>3
<1> QED
  BY <1>2, <1>3 DEF FromCtl

\* The messages that have ports in OpenFlow 1.0 and 1.2.
AboutPort == {"cofmsg_features_reply", "cofmsg_port_status"}

\* A message of a datapath meets the handler of its class in crofdpt, which takes the ports from a
\* features reply or a port status in OpenFlow 1.0 and 1.2, and from a port status or a port description
\* in 1.3.
LEMMA DptDelivers ==
  ASSUME NEW v \in Versions, NEW c \in FromDpt, <<v, c>> # <<3, "cofmsg_get_async_config_reply">>
  PROVE  /\ Agrees(parse_message(v, Constructor[c][v]), dpt_handle_recv(v, Constructor[c][v]), c)
         /\ v \in {1, 3} => \A k \in dpt_handle_recv(v, Constructor[c][v]) : v \in k.ports
              <=> c \in AboutPort
         /\ \A k \in dpt_handle_recv(v, Constructor[c][v]) : v \in k.ports
              => c \in AboutPort \cup {"cofmsg_port_desc_stats_reply"}
<1> DEFINE h == Constructor[c][v]
<1>1. h.type = TypeOf(c, v) /\ h.stats = StatsOf(c, v)
  BY DEF TypeOf, StatsOf
<1> HIDE DEF h
<1>2. CASE c \in StatsReplies
  <2> DEFINE P == Case(ofp_stats_types_of[v], ByVersion(v, parse_of10_stats_reply,
        parse_of12_stats_reply, parse_of13_stats_reply), h.stats)
  <2>1. h.type = StatsReply(v) /\ h.type # StatsRequest(v)
    BY <1>1, <1>2, ReplyClasses, StatsTypes DEF Headed, StatsReplies
  <2>2. parse_message(v, h) = P /\ dpt_handle_recv(v, h) = Case(ofp13_multipart_types,
          multipart_reply_rcvd, h.stats)
    BY <2>1 DEF parse_message, dpt_handle_recv
  <2>3. \A M \in DOMAIN multipart_reply_rcvd : ofp13_multipart_types[M] = h.stats
          => multipart_reply_rcvd[M].cast = c
    BY <1>1, <1>2, MultipartReplies
  <2>4. Agrees(P, Case(ofp13_multipart_types, multipart_reply_rcvd, h.stats), c)
    <3>1. CASE v = 1
      <4>1. Agrees(Case(ofp10_stats_types, parse_of10_stats_reply, h.stats),
              Case(ofp13_multipart_types, multipart_reply_rcvd, h.stats), c)
        BY <1>1, <1>2, <2>3, <3>1, Reply10, MultipartTypes, MultipartTypesOf, CaseAgrees
      <4> QED
        BY <3>1, <4>1, VersionTables DEF ByVersion
    <3>2. CASE v = 3
      <4>1. Agrees(Case(ofp12_stats_types, parse_of12_stats_reply, h.stats),
              Case(ofp13_multipart_types, multipart_reply_rcvd, h.stats), c)
        BY <1>1, <1>2, <2>3, <3>2, Reply12, MultipartTypes, MultipartTypesOf, CaseAgrees
      <4> QED
        BY <3>2, <4>1, VersionTables DEF ByVersion
    <3>3. CASE v = 4
      <4>1. Agrees(Case(ofp13_multipart_types, parse_of13_stats_reply, h.stats),
              Case(ofp13_multipart_types, multipart_reply_rcvd, h.stats), c)
        BY <1>1, <1>2, <2>3, <3>3, Reply13, MultipartTypes, MultipartTypesOf, CaseAgrees
      <4> QED
        BY <3>3, <4>1, VersionTables DEF ByVersion
    <3> QED
      BY <3>1, <3>2, <3>3 DEF Versions
  <2>5. c \notin AboutPort
    BY <1>2 DEF StatsReplies, AboutPort
  <2>6. \A k \in Case(ofp13_multipart_types, multipart_reply_rcvd, h.stats) :
          k.ports \subseteq {4} /\ (4 \in k.ports => k.cast = "cofmsg_port_desc_stats_reply")
    BY MultipartPorts DEF Case
  <2>7. \A k \in Case(ofp13_multipart_types, multipart_reply_rcvd, h.stats) : k.cast = c
    BY <2>3 DEF Case
  <2> QED
    BY <2>2, <2>4, <2>5, <2>6, <2>7 DEF h
<1>3. CASE c \in DptPlain
  <2>1. h.type # StatsRequest(v) /\ h.type # StatsReply(v)
    BY <1>1, <1>3, TypedClasses, Typed10Classes, StatsTypes DEF Headed, DptPlain
  <2>2. c \in PlainClasses /\ c # "cofmsg_group_mod"
    BY <1>3 DEF DptPlain, PlainClasses
  <2>3. parse_message(v, h) = Case(ofp_type_of[v],
          ByVersion(v, parse_of10_message, parse_of12_message, parse_of13_message), h.type)
    BY <2>1 DEF parse_message
  <2>4. dpt_handle_recv(v, h) = Case(ofp_type_of[v],
          ByVersion(v, dpt_recv_of10, dpt_recv_of12, dpt_recv_of13), h.type)
    BY <2>1 DEF dpt_handle_recv
  <2>5. CASE v = 1
    <3>1. Agrees(Case(ofp10_type, parse_of10_message, h.type), Case(ofp10_type, dpt_recv_of10, h.type), c)
      BY <1>1, <1>3, <2>2, <2>5, Parse10, Dpt10, CaseAgrees
    <3>2. \A k \in Case(ofp10_type, dpt_recv_of10, h.type) : v \in k.ports <=> c \in AboutPort
      BY <1>1, <2>2, <2>5, Parse10, Dpt10 DEF Case, AboutPort
    <3> QED
      BY <2>3, <2>4, <2>5, <3>1, <3>2, VersionTables DEF ByVersion, h
  <2>6. CASE v = 3
    <3>1. Agrees(Case(ofp12_type, parse_of12_message, h.type), Case(ofp12_type, dpt_recv_of12, h.type), c)
      BY <1>1, <1>3, <2>2, <2>6, Parse12, Dpt12, CaseAgrees
    <3>2. \A k \in Case(ofp12_type, dpt_recv_of12, h.type) : v \in k.ports <=> c \in AboutPort
      BY <1>1, <2>2, <2>6, Parse12, Dpt12 DEF Case, AboutPort
    <3> QED
      BY <2>3, <2>4, <2>6, <3>1, <3>2, VersionTables DEF ByVersion, h
  <2>7. CASE v = 4
    <3>1. Agrees(Case(ofp13_type, parse_of13_message, h.type), Case(ofp13_type, dpt_recv_of13, h.type), c)
      BY <1>1, <1>3, <2>2, <2>7, Parse13, Dpt13, CaseAgrees
    <3>2. \A k \in Case(ofp13_type, dpt_recv_of13, h.type) : v \in k.ports => c \in AboutPort
      BY <1>1, <2>2, <2>7, Parse13, Dpt13 DEF Case, AboutPort
    <3> QED
      BY <2>3, <2>4, <2>7, <3>1, <3>2, VersionTables DEF ByVersion, h
  <2> QED
    BY <2>5, <2>6, <2>7 DEF Versions
<1> QED
  BY <1>2, <1>3 DEF FromDpt

-----------------------------------------------------------------------------
(* Senders, answers, timeouts and queues *)

\* The requests with a timeout that are not about statistics.
TimedPlain == {"cofmsg_features_request", "cofmsg_get_config_request", "cofmsg_barrier_request",
  "cofmsg_role_request",
  "cofmsg_queue_get_config_request", "cofmsg_get_async_config_request", "cofmsg_experimenter"}

\* The requests with a timeout, and the classes of their answers.
LEMMA Answers ==
  /\ DOMAIN Answer = TimedPlain \cup StatsRequests
  /\ \A c \in DOMAIN Answer : Answer[c] \in FromDpt
  BY DEF Answer, TimedPlain, StatsRequests, FromDpt, DptPlain, StatsReplies

\* Every send_*() of crofdpt makes a message of a controller, with a timeout where the message has an
\* answer.
LEMMA Senders ==
  ASSUME NEW s \in DptSenders
  PROVE  s.class \in FromCtl /\ s.timed \in BOOLEAN /\ (s.timed <=> s.class \in DOMAIN Answer)
<1>1. \/ \E c \in DOMAIN Answer : s = Request(c)
      \/ \E c \in CtlPlain \ TimedPlain : s = Message(c)
  BY Answers DEF DptSenders, TimedPlain, StatsRequests, CtlPlain, dpt_send_features_request,
    dpt_send_get_config_request,
  dpt_send_desc_stats_request, dpt_send_flow_stats_request, dpt_send_aggr_stats_request,
  dpt_send_table_stats_request, dpt_send_port_stats_request, dpt_send_queue_stats_request,
  dpt_send_group_stats_request, dpt_send_group_desc_stats_request,
  dpt_send_group_features_stats_request, dpt_send_table_features_stats_request,
  dpt_send_port_desc_stats_request, dpt_send_experimenter_stats_request,
  dpt_send_meter_stats_request, dpt_send_meter_config_stats_request,
  dpt_send_meter_features_stats_request, dpt_send_packet_out_message, dpt_send_barrier_request,
  dpt_send_role_request, dpt_send_flow_mod_message, dpt_send_group_mod_message,
  dpt_send_table_mod_message, dpt_send_port_mod_message, dpt_send_set_config_message,
  dpt_send_queue_get_config_request, dpt_send_get_async_config_request,
  dpt_send_set_async_config_message, dpt_send_meter_mod_message, dpt_send_error_message,
  dpt_send_experimenter_message
<1>2. DOMAIN Answer \subseteq FromCtl /\ (CtlPlain \ TimedPlain) \cap DOMAIN Answer = {}
  BY Answers DEF TimedPlain, StatsRequests, FromCtl, CtlPlain
<1>3. CASE \E c \in DOMAIN Answer : s = Request(c)
  BY <1>2, <1>3 DEF Request
<1>4. CASE \E c \in CtlPlain \ TimedPlain : s = Message(c)
  BY <1>2, <1>4 DEF Message, FromCtl
<1> QED
  BY <1>1, <1>3, <1>4

\* handle_transaction_timeout finds, from the type of a pending request, the handler for the timeout of
\* the answer to that very class, or none.
LEMMA TimeoutTold ==
  ASSUME NEW v \in Versions, NEW c \in DOMAIN Answer
  PROVE  handle_transaction_timeout(v, Constructor[c][v]) \subseteq {Answer[c]}
<1> DEFINE h == Constructor[c][v]
<1>1. h.type = TypeOf(c, v) /\ h.stats = StatsOf(c, v)
  BY DEF TypeOf, StatsOf
<1> HIDE DEF h
<1>2. CASE c \in StatsRequests
  <2>1. h.type = StatsRequest(v) /\ h.type # StatsReply(v)
    BY <1>1, <1>2, RequestClasses, StatsTypes DEF Headed, StatsRequests
  <2>2. handle_transaction_timeout(v, h)
          = Case(ofp_stats_types_of[v], ByVersion(v, timeout_stats_of10, timeout_stats_of12,
            timeout_stats_of13), h.stats)
    BY <2>1 DEF handle_transaction_timeout
  <2>3. /\ \A L \in DOMAIN timeout_stats_of10 : ofp10_stats_types[L] = StatsOf(c, 1)
             => timeout_stats_of10[L] = Answer[c]
        /\ \A L \in DOMAIN timeout_stats_of12 : ofp12_stats_types[L] = StatsOf(c, 3)
             => timeout_stats_of12[L] = Answer[c]
        /\ \A L \in DOMAIN timeout_stats_of13 : ofp13_multipart_types[L] = StatsOf(c, 4)
             => timeout_stats_of13[L] = Answer[c]
    BY <1>2, RequestClasses DEF Headed, StatsRequests, Answer, timeout_stats_of10, timeout_stats_of12,
       timeout_stats_of13,
      ofp10_stats_types, ofp12_stats_types, ofp13_multipart_types, Versions
  <2> QED
    BY <1>1, <2>2, <2>3, VersionTables DEF Case, ByVersion, Versions, h
<1>3. CASE c \in TimedPlain
  <2>1. h.type # StatsRequest(v)
    BY <1>1, <1>3, TypedClasses, Typed10Classes, StatsTypes DEF Headed, TimedPlain
  <2>2. handle_transaction_timeout(v, h) = Case(ofp_type_of[v],
          ByVersion(v, timeout_of10, timeout_of12, timeout_of13), h.type)
    BY <2>1 DEF handle_transaction_timeout
  <2>3. /\ \A L \in DOMAIN timeout_of10 : ofp10_type[L] = TypeOf(c, 1) => timeout_of10[L] = Answer[c]
        /\ \A L \in DOMAIN timeout_of12 : ofp12_type[L] = TypeOf(c, 3) => timeout_of12[L] = Answer[c]
        /\ \A L \in DOMAIN timeout_of13 : ofp13_type[L] = TypeOf(c, 4) => timeout_of13[L] = Answer[c]
    BY <1>3, TypedClasses, Typed10Classes
       DEF Headed, TimedPlain, Answer, timeout_of10, timeout_of12, timeout_of13, ofp10_type, ofp12_type,
      ofp13_type, Versions
  <2> QED
    BY <1>1, <2>2, <2>3, VersionTables DEF Case, ByVersion, Versions, h
<1> QED
  BY <1>2, <1>3, Answers

\* Every received message has one of the four receive queues of crofconn.
LEMMA QueueType ==
  ASSUME NEW v \in Versions, NEW h
  PROVE  rxqueue(v, h) \in Queues
<1>1. \A q \in Case(ofp_type_of[v], ByVersion(v, rxqueue_of10, rxqueue_of12, rxqueue_of13), h.type) :
        q \in Queues
  BY DEF Case, ByVersion, Queues, rxqueue_of10, rxqueue_of12, rxqueue_of13
<1> QED
  BY <1>1 DEF rxqueue, QueueOf, Queues

\* The messages about the ports share one transmit and one receive queue, so that they stay in order.
LEMMA AboutQueue ==
  ASSUME NEW v \in {1, 3}, NEW c \in AboutPort
  PROVE  txqueue(v, Constructor[c][v]) = "MGMT" /\ rxqueue(v, Constructor[c][v]) = "MGMT"
<1> DEFINE h == Constructor[c][v]
<1>1. h.type = TypeOf(c, v)
  BY DEF TypeOf
<1> HIDE DEF h
<1>2. h.type \in {6, 12}
  BY <1>1, TypedClasses DEF Headed, AboutPort, Versions
<1>3. Case(ofp_type_of[v], ByVersion(v, rxqueue_of10, rxqueue_of12, rxqueue_of13), h.type) = {}
  BY <1>2, VersionTables DEF Case, ByVersion, rxqueue_of10, rxqueue_of12, ofp10_type, ofp12_type
<1>4. Case(ofp_type_of[v], ByVersion(v, txqueue_of10, txqueue_of12, txqueue_of13), h.type) = {}
  BY <1>2, VersionTables DEF Case, ByVersion, txqueue_of10, txqueue_of12, ofp10_type, ofp12_type
<1> QED
  BY <1>3, <1>4 DEF rxqueue, txqueue, QueueOf, h

-----------------------------------------------------------------------------
(* Sequences: queues of messages *)

\* Every element of a sequence is in S.
All(s, S) == \A i \in DOMAIN s : s[i] \in S

\* Appending an element of S, taking the first element, and removing one keep the rest in S.
LEMMA AppendAll ==
  ASSUME NEW M, NEW S, NEW s \in Seq(M), NEW m \in M
  PROVE  /\ Append(s, m) \in Seq(M)
         /\ All(s, S) /\ m \in S => All(Append(s, m), S)
  BY DEF All

LEMMA TailAll ==
  ASSUME NEW M, NEW S, NEW s \in Seq(M), s # <<>>
  PROVE  /\ Tail(s) \in Seq(M) /\ Head(s) \in M
         /\ All(s, S) => All(Tail(s), S) /\ Head(s) \in S
  BY DEF All

\* What is left of a sequence after one element has been removed from it.
LEMMA RemoveElements ==
  ASSUME NEW M, NEW s \in Seq(M), NEW i \in DOMAIN s
  PROVE  /\ RemoveAt(s, i) \in Seq(M) /\ Len(RemoveAt(s, i)) = Len(s) - 1
         /\ \A k \in 1 .. Len(s) - 1 : RemoveAt(s, i)[k] = IF k < i THEN s[k] ELSE s[k + 1]
<1>1. SubSeq(s, 1, i - 1) \in Seq(M) /\ SubSeq(s, i + 1, Len(s)) \in Seq(M)
  OBVIOUS
<1>2. Len(SubSeq(s, 1, i - 1)) = i - 1 /\ Len(SubSeq(s, i + 1, Len(s))) = Len(s) - i
  OBVIOUS
<1>3. /\ \A k \in 1 .. i - 1 : SubSeq(s, 1, i - 1)[k] = s[k]
      /\ \A k \in 1 .. Len(s) - i : SubSeq(s, i + 1, Len(s))[k] = s[i + k]
  OBVIOUS
<1>4. \A a, b \in Seq(M) :
        /\ a \o b \in Seq(M) /\ Len(a \o b) = Len(a) + Len(b)
        /\ \A k \in 1 .. Len(a) + Len(b) : (a \o b)[k] = IF k <= Len(a) THEN a[k] ELSE b[k - Len(a)]
  OBVIOUS
<1> DEFINE a == SubSeq(s, 1, i - 1)
           b == SubSeq(s, i + 1, Len(s))
<1>5. RemoveAt(s, i) = a \o b
  BY DEF RemoveAt
<1>6. /\ a \in Seq(M) /\ b \in Seq(M) /\ Len(a) = i - 1 /\ Len(b) = Len(s) - i
      /\ \A k \in 1 .. i - 1 : a[k] = s[k]
      /\ \A k \in 1 .. Len(s) - i : b[k] = s[i + k]
      /\ i \in 1 .. Len(s) /\ Len(s) \in Nat
  BY <1>1, <1>2, <1>3
<1> HIDE DEF a, b
<1> DEFINE t == a \o b
<1>7. /\ t \in Seq(M) /\ Len(t) = Len(a) + Len(b)
      /\ \A k \in 1 .. Len(a) + Len(b) : t[k] = IF k <= Len(a) THEN a[k] ELSE b[k - Len(a)]
  BY <1>4, <1>6
<1> HIDE DEF t
<1>8. /\ t \in Seq(M) /\ Len(t) = Len(s) - 1
      /\ \A k \in 1 .. Len(s) - 1 : t[k] = IF k <= i - 1 THEN a[k] ELSE b[k - (i - 1)]
  <2>1. Len(a) + Len(b) = Len(s) - 1 /\ Len(a) = i - 1
    BY <1>6
  <2> QED
    BY <1>7, <2>1
<1>9. ASSUME NEW k \in 1 .. Len(s) - 1, k < i PROVE t[k] = s[k]
  <2>1. k <= i - 1 /\ k \in 1 .. i - 1
    BY <1>6, <1>9
  <2> QED
    BY <1>6, <1>8, <2>1
<1>10. ASSUME NEW k \in 1 .. Len(s) - 1, ~(k < i) PROVE t[k] = s[k + 1]
  <2>1. k - (i - 1) \in 1 .. Len(s) - i /\ i + (k - (i - 1)) = k + 1 /\ ~(k <= i - 1)
    BY <1>6, <1>10
  <2>2. t[k] = b[k - (i - 1)]
    BY <1>8, <2>1
  <2>3. b[k - (i - 1)] = s[i + (k - (i - 1))]
    BY <1>6, <2>1
  <2> QED
    BY <2>1, <2>2, <2>3
<1> QED
  BY <1>5, <1>8, <1>9, <1>10 DEF t

LEMMA RemoveAll ==
  ASSUME NEW M, NEW S, NEW s \in Seq(M), NEW i \in DOMAIN s
  PROVE  /\ RemoveAt(s, i) \in Seq(M) /\ s[i] \in M
         /\ All(s, S) => All(RemoveAt(s, i), S) /\ s[i] \in S
<1> DEFINE t == RemoveAt(s, i)
<1>1. t \in Seq(M) /\ Len(t) = Len(s) - 1 /\ s[i] \in M
  BY RemoveElements
<1>2. \A k \in 1 .. Len(s) - 1 : t[k] = IF k < i THEN s[k] ELSE s[k + 1]
  BY RemoveElements
<1> HIDE DEF t
<1>3. All(s, S) => All(t, S) /\ s[i] \in S
  BY <1>1, <1>2 DEF All
<1> QED
  BY <1>1, <1>3 DEF t

\* Ports x and p agree; the ports of an application that modified one are not compared.
Agree(x, p) == x = p \/ "down" \in {x, p}

\* Messages about the ports, sequences without them, and sequences whose last message about the ports has
\* p.
About(m) == m.class \in AboutPort
Silent(s) == \A i \in DOMAIN s : ~About(s[i])
LastAgrees(s, p) ==
  \A i \in DOMAIN s :
    About(s[i]) /\ (\A j \in DOMAIN s : j > i => ~About(s[j])) => Agree(s[i].data[1], p)

\* How these change when a message is queued, when the first one is taken, and when one is parsed.
LEMMA SilentAppend ==
  ASSUME NEW M, NEW s \in Seq(M), NEW m \in M, NEW p
  PROVE  /\ Silent(Append(s, m)) <=> Silent(s) /\ ~About(m)
         /\ LastAgrees(s, p) /\ ~About(m) => LastAgrees(Append(s, m), p)
         /\ Agree(m.data[1], p) /\ About(m) => LastAgrees(Append(s, m), p)
<1>1. /\ Append(s, m) \in Seq(M) /\ Len(Append(s, m)) = Len(s) + 1
      /\ \A i \in 1 .. Len(s) : Append(s, m)[i] = s[i]
      /\ Append(s, m)[Len(s) + 1] = m
      /\ Len(s) \in Nat
  OBVIOUS
<1> DEFINE a == Append(s, m)
<1> HIDE DEF a
<1>2. DOMAIN a = 1 .. Len(s) + 1 /\ DOMAIN s = 1 .. Len(s)
  BY <1>1 DEF a
<1>3. /\ \A i \in DOMAIN s : a[i] = s[i]
      /\ a[Len(s) + 1] = m
  BY <1>1, <1>2 DEF a
<1>4. Silent(a) <=> Silent(s) /\ ~About(m)
  BY <1>1, <1>2, <1>3 DEF Silent
<1>5. ASSUME LastAgrees(s, p), ~About(m) PROVE LastAgrees(a, p)
  BY <1>1, <1>2, <1>3, <1>5 DEF LastAgrees
<1>6. ASSUME Agree(m.data[1], p), About(m) PROVE LastAgrees(a, p)
  BY <1>1, <1>2, <1>3, <1>6 DEF LastAgrees
<1> QED
  BY <1>4, <1>5, <1>6 DEF a

LEMMA SilentTail ==
  ASSUME NEW M, NEW s \in Seq(M), s # <<>>, NEW p
  PROVE  /\ Silent(s) <=> Silent(Tail(s)) /\ ~About(Head(s))
         /\ LastAgrees(s, p) => LastAgrees(Tail(s), p)
         /\ LastAgrees(s, p) /\ Silent(Tail(s)) /\ About(Head(s)) => Agree(Head(s).data[1], p)
<1>1. /\ Tail(s) \in Seq(M) /\ Len(Tail(s)) = Len(s) - 1 /\ Len(s) \in Nat \ {0}
      /\ \A i \in 1 .. Len(s) - 1 : Tail(s)[i] = s[i + 1]
      /\ Head(s) = s[1]
  OBVIOUS
<1> DEFINE t == Tail(s)
<1> HIDE DEF t
<1>2. DOMAIN t = 1 .. Len(s) - 1 /\ DOMAIN s = 1 .. Len(s)
  BY <1>1 DEF t
<1>3. /\ \A i \in DOMAIN t : t[i] = s[i + 1]
      /\ \A i \in DOMAIN s : i = 1 \/ (i - 1 \in DOMAIN t /\ s[i] = t[i - 1])
  BY <1>1, <1>2 DEF t
<1>4. Silent(s) <=> Silent(t) /\ ~About(Head(s))
  <2>1. Silent(s) => Silent(t) /\ ~About(Head(s))
    BY <1>1, <1>2, <1>3 DEF Silent
  <2>2. Silent(t) /\ ~About(Head(s)) => Silent(s)
    BY <1>1, <1>3 DEF Silent
  <2> QED
    BY <2>1, <2>2
<1>5. ASSUME LastAgrees(s, p) PROVE LastAgrees(t, p)
  <2> SUFFICES ASSUME NEW i \in DOMAIN t, About(t[i]), \A j \in DOMAIN t : j > i => ~About(t[j])
               PROVE  Agree(t[i].data[1], p)
    BY DEF LastAgrees
  <2>1. i + 1 \in DOMAIN s /\ s[i + 1] = t[i]
    BY <1>1, <1>2, <1>3
  <2>2. ASSUME NEW j \in DOMAIN s, j > i + 1 PROVE ~About(s[j])
    <3>1. j - 1 \in DOMAIN t /\ j - 1 > i /\ s[j] = t[j - 1]
      BY <1>1, <1>2, <1>3, <2>2
    <3> QED
      BY <3>1
  <2> QED
    BY <1>5, <2>1, <2>2 DEF LastAgrees
<1>6. ASSUME LastAgrees(s, p), Silent(t), About(Head(s)) PROVE Agree(Head(s).data[1], p)
  BY <1>1, <1>2, <1>3, <1>6 DEF LastAgrees, Silent
<1> QED
  BY <1>4, <1>5, <1>6 DEF t

LEMMA SilentRemove ==
  ASSUME NEW M, NEW s \in Seq(M), NEW i \in DOMAIN s, NEW p,
         \A j \in 1 .. i - 1 : About(s[i]) => ~About(s[j])
  PROVE  /\ Silent(s) <=> Silent(RemoveAt(s, i)) /\ ~About(s[i])
         /\ LastAgrees(s, p) => LastAgrees(RemoveAt(s, i), p)
         /\ LastAgrees(s, p) /\ Silent(RemoveAt(s, i)) /\ About(s[i]) => Agree(s[i].data[1], p)
<1> DEFINE t == RemoveAt(s, i)
<1>1. t \in Seq(M) /\ Len(t) = Len(s) - 1 /\ i \in 1 .. Len(s) /\ Len(s) \in Nat
  BY RemoveElements
<1>2. \A k \in 1 .. Len(s) - 1 : t[k] = IF k < i THEN s[k] ELSE s[k + 1]
  BY RemoveElements
<1> HIDE DEF t
<1>3. DOMAIN t = 1 .. Len(s) - 1 /\ DOMAIN s = 1 .. Len(s)
  BY <1>1
<1>4. \A k \in DOMAIN s : k = i \/ (k < i /\ k \in DOMAIN t /\ s[k] = t[k]) \/
        (k > i /\ k - 1 \in DOMAIN t /\ s[k] = t[k - 1])
  BY <1>1, <1>2, <1>3
<1>5. Silent(s) <=> Silent(t) /\ ~About(s[i])
  BY <1>1, <1>2, <1>3, <1>4 DEF Silent
<1>6. ASSUME LastAgrees(s, p) PROVE LastAgrees(t, p)
  <2> SUFFICES ASSUME NEW k \in DOMAIN t, About(t[k]), \A j \in DOMAIN t : j > k => ~About(t[j])
               PROVE  Agree(t[k].data[1], p)
    BY DEF LastAgrees
  <2> DEFINE n == IF k < i THEN k ELSE k + 1
  <2>1. n \in DOMAIN s /\ s[n] = t[k] /\ n # i
    BY <1>1, <1>2, <1>3
  <2>2. ASSUME NEW j \in DOMAIN s, j > n PROVE ~About(s[j])
    <3>1. CASE j = i
      BY <1>1, <1>3, <2>1, <2>2, <3>1
    <3>2. CASE j < i
      BY <1>1, <1>2, <1>3, <2>2, <3>2
    <3>3. CASE j > i
      <4>1. j - 1 \in DOMAIN t /\ j - 1 > k /\ s[j] = t[j - 1]
        BY <1>1, <1>2, <1>3, <2>1, <2>2, <3>3
      <4> QED
        BY <4>1
    <3> QED
      BY <1>1, <1>3, <3>1, <3>2, <3>3
  <2> HIDE DEF n
  <2> QED
    BY <1>6, <2>1, <2>2 DEF LastAgrees
<1>7. ASSUME LastAgrees(s, p), Silent(t), About(s[i]) PROVE Agree(s[i].data[1], p)
  BY <1>1, <1>3, <1>4, <1>7 DEF LastAgrees, Silent
<1> QED
  BY <1>5, <1>6, <1>7 DEF t

-----------------------------------------------------------------------------
(* Types: the messages there can be *)

\* What handlers end with: the exceptions of the application and those of the library itself.
Exceptions == {t[3] : t \in Throws} \cup
  {"eBadRequestBadStat", "eBadRequestBadType", "eBadRequestIsSlave", "eRoleRequestBadRole",
    "eRoleRequestStale"}

\* What messages carry: an exception, a selection of the sender, the port, or the port and what happened
\* to it.
Reasons == {"OFPPR_ADD", "OFPPR_DELETE", "OFPPR_MODIFY"}
Errors == {<<e>> : e \in Exceptions}
Selections == {<<>>} \cup {<<r>> : r \in Roles} \cup {<<"default">>, <<"muted">>, <<"down">>}
Statuses == {d \in {<<p, r>> : p \in PortStates, r \in Reasons} : d[2] = "OFPPR_DELETE"
  => d[1] = "absent"}
Contents == Errors \cup Selections \cup {<<p>> : p \in PortStates} \cup Statuses

\* Every message there can be, those that can be on their way to crofctl and to crofdpt, the answers the
\* application of the datapath owes, and the messages that crofsock creates an object for.
Messages == [class : FromCtl \cup FromDpt, xid : 0 .. OwnXid, data : Contents]
ToCtl(v) ==
  {m \in Messages :
     /\ m.class \in FromCtl /\ <<v, m.class>> \notin NoForm
     /\ m.class = "cofmsg_error" \/ m.data \in Payloads(m.class)}
ToDpt(v) ==
  {m \in Messages :
     /\ m.class \in FromDpt /\ <<v, m.class>> # <<3, "cofmsg_get_async_config_reply">>
     /\ m.class = "cofmsg_port_status" => m.data \in Statuses
     /\ m.class \in {"cofmsg_features_reply", "cofmsg_port_desc_stats_reply"}
          => m.data \in {<<p>> : p \in PortStates}
     /\ m.class = "cofmsg_error" => m.data \in Errors}
Replies == {m \in Messages : m.class \in FromDpt /\ m.data = <<>>
  /\ m.class \notin {"cofmsg_get_async_config_reply", "cofmsg_port_status", "cofmsg_error"}}
Known(v) == {m \in Messages : parse_message(v, Constructor[m.class][v]) # {}}

\* What waits for an object, with n on its connection and b in its receive queues, is in S.
Carried(n, b, S) == All(n, S) /\ \A q \in Queues : All(b[q], S)

\* The inductive invariant of the types ...
Types ==
  /\ ver \in Vers /\ role \in {"EQUAL", "MASTER", "SLAVE"} /\ async \in {"default", "muted"}
  /\ port \in PortStates /\ ports \in PortStates /\ xid \in 0 .. 1
  /\ net \in [Objects -> Seq(Messages)] /\ inbox \in [Objects -> [Queues -> Seq(Messages)]]
  /\ owed \subseteq Replies
  /\ asked \in DOMAIN Answer \cup {"none"}
  /\ pending = {} \/ (asked # "none" /\ pending = {[xid |-> xid, class |-> asked]})
  /\ dropped \in {{}, {"crofctl"}, {"crofdpt"}} /\ leaked \in BOOLEAN

\* ... and of the messages: those on the way have a form in the version and come from the right side, and
\* what the receive queues and owed hold has been parsed.
Forms ==
  /\ Carried(net["crofctl"], inbox["crofctl"], ToCtl(ver))
  /\ Carried(net["crofdpt"], inbox["crofdpt"], ToDpt(ver))
  /\ \A o \in Objects, q \in Queues : All(inbox[o][q], Known(ver))

\* Error messages have a form in every version, both ways.
LEMMA ErrorForms ==
  ASSUME NEW v, NEW x \in 0 .. OwnXid, NEW e \in Exceptions
  PROVE  ErrorMsg(x, e) \in ToCtl(v) /\ ErrorMsg(x, e) \in ToDpt(v)
<1>1. <<e>> \in Errors /\ <<e>> \in Contents
  BY DEF Errors, Contents
<1>2. "cofmsg_error" \in FromCtl /\ "cofmsg_error" \in FromDpt
  BY DEF FromCtl, CtlPlain, FromDpt, DptPlain
<1>3. <<v, "cofmsg_error">> \notin NoForm
  BY DEF NoForm, From12Classes, From13Classes
<1> QED
  BY <1>1, <1>2, <1>3 DEF ErrorMsg, Msg, ToCtl, ToDpt, Messages

\* What recv() and parse_message() do to a connection: the first message of its transmit queue is parsed
\* into its receive queue, or is dropped and answered with an error to the other side.
LEMMA ParseEffect ==
  ASSUME Types, NEW o \in Objects, Parse(o)
  PROVE  \E i \in DOMAIN net[o], p \in Objects \ {o} :
           /\ \A j \in 1 .. i - 1 : txqueue(ver, Header(net[o][j])) # txqueue(ver, Header(net[o][i]))
           /\ net' \in [Objects -> Seq(Messages)] /\ inbox' \in [Objects -> [Queues -> Seq(Messages)]]
           /\ net'[o] = RemoveAt(net[o], i)
           /\ \/ \E e \in {"eBadRequestBadStat", "eBadRequestBadType"} :
                   inbox' = inbox /\ net'[p] = Append(net[p], ErrorMsg(net[o][i].xid, e)) /\
                     net[o][i] \notin Known(ver)
              \/ /\ net'[p] = net[p] /\ net[o][i] \in Known(ver)
                 /\ inbox' = [inbox EXCEPT ![o][rxqueue(ver, Header(net[o][i]))] = Append(@, net[o][i])]
           /\ pending' = pending \/ pending' = {}
<1>1. PICK i \in DOMAIN net[o] :
        LET m == net[o][i]
            h == Header(m)
            peer == CHOOSE p \in Objects : p # o
            class == parse_message(ver, h)
            e == IF h.type \in {StatsRequest(ver), StatsReply(ver)} THEN "eBadRequestBadStat"
              ELSE "eBadRequestBadType"
        IN /\ \A j \in 1..(i - 1) : txqueue(ver, Header(net[o][j])) # txqueue(ver, h)
           /\ IF class = {}
                THEN /\ net' = [net EXCEPT ![o] = RemoveAt(@, i), ![peer] = Append(@, ErrorMsg(m.xid, e))]
                     /\ UNCHANGED <<inbox, pending>>
                ELSE /\ net' = [net EXCEPT ![o] = RemoveAt(@, i)]
                     /\ inbox' = [inbox EXCEPT ![o][rxqueue(ver, h)] = Append(@, m)]
                     /\ pending' = IF o = "crofdpt" THEN {p \in pending : p.xid # m.xid} ELSE pending
  BY DEF Parse
<1> DEFINE m == net[o][i]
           peer == CHOOSE p \in Objects : p # o
           e == IF Header(m).type \in {StatsRequest(ver), StatsReply(ver)} THEN "eBadRequestBadStat"
             ELSE "eBadRequestBadType"
<1>2. peer \in Objects \ {o}
  BY DEF Objects
<1>3. net[o] \in Seq(Messages) /\ net[peer] \in Seq(Messages) /\ m \in Messages /\
        RemoveAt(net[o], i) \in Seq(Messages)
  BY <1>2, RemoveAll DEF Types
<1>4. e \in {"eBadRequestBadStat", "eBadRequestBadType"} /\ ErrorMsg(m.xid, e) \in Messages
  BY <1>3, ErrorForms DEF Exceptions, ToCtl, Messages
<1>5. rxqueue(ver, Header(m)) \in Queues
  BY QueueType, DispatchAssumption DEF Types
<1>6. CASE parse_message(ver, Header(m)) = {}
  <2>1. net' = [net EXCEPT ![o] = RemoveAt(@, i), ![peer] = Append(@, ErrorMsg(m.xid, e))] /\
          inbox' = inbox /\ pending' = pending
    BY <1>1, <1>6
  <2> HIDE DEF peer, e, m
  <2>2. Append(net[peer], ErrorMsg(m.xid, e)) \in Seq(Messages)
    BY <1>3, <1>4
  <2>3. net' \in [Objects -> Seq(Messages)] /\ net'[o] = RemoveAt(net[o], i) /\
          net'[peer] = Append(net[peer], ErrorMsg(m.xid, e))
    BY <1>2, <1>3, <2>1, <2>2 DEF Types
  <2>4. m \notin Known(ver)
    BY <1>6 DEF Known, Header
  <2> QED
    BY <1>1, <1>2, <1>4, <2>1, <2>3, <2>4 DEF Types, m
<1>7. CASE parse_message(ver, Header(m)) # {}
  <2>1. /\ net' = [net EXCEPT ![o] = RemoveAt(@, i)]
        /\ inbox' = [inbox EXCEPT ![o][rxqueue(ver, Header(m))] = Append(@, m)]
        /\ pending' = IF o = "crofdpt" THEN {p \in pending : p.xid # m.xid} ELSE pending
    BY <1>1, <1>7
  <2>2. m \in Known(ver)
    BY <1>3, <1>7 DEF Known, Header
  <2> HIDE DEF m
  <2>3. pending' = pending \/ pending' = {}
    BY <2>1 DEF Types
  <2>4. net' \in [Objects -> Seq(Messages)] /\ net'[o] = RemoveAt(net[o], i) /\
          \A p \in Objects \ {o} : net'[p] = net[p]
    BY <1>3, <2>1 DEF Types
  <2>5. inbox' \in [Objects -> [Queues -> Seq(Messages)]]
    BY <1>3, <1>5, <2>1 DEF Types
  <2> HIDE DEF peer
  <2> QED
    BY <1>1, <1>2, <2>1, <2>2, <2>3, <2>4, <2>5 DEF m
<1> QED
  BY <1>6, <1>7

\* The answer to a request.
ReplyTo(m) == Msg(Answer[m.class], m.xid, <<>>)

\* What the handler of m can end with: the application's exceptions, the refusal of a slave, and those of
\* check_role().
Raised(m) == {t[3] : t \in {u \in Throws : u[1] = ver /\ u[2] = m.class}}
  \cup (IF is_slave THEN {"eBadRequestIsSlave"} ELSE {})
  \cup (IF m.data = <<"invalid">> THEN {"eRoleRequestBadRole"} ELSE {})
  \cup (IF m.data \in {<<"MASTER">>, <<"SLAVE">>} THEN {"eRoleRequestStale"} ELSE {})

\* What crofctl::handle_recv() does: the first message of a receive queue is handled, which can end with
\* an error, an answer, an answer that the application owes, or a change of the role, the events or the
\* port.
LEMMA CtlEffect ==
  ASSUME Types, NEW q \in Queues, HandleAtCtl(q)
  PROVE  LET m == Head(inbox["crofctl"][q]) IN
         /\ inbox["crofctl"][q] # <<>> /\ inbox' = [inbox EXCEPT !["crofctl"][q] = Tail(@)]
         /\ \/ net' = net
            \/ \E e \in Raised(m) : e \in DOMAIN Caught /\ ver \in DOMAIN Caught[e]
                  /\ net' = [net EXCEPT !["crofdpt"] = Append(@, ErrorMsg(m.xid, e))]
            \/ m.class \in AnsweredAtOnce /\ net' = [net EXCEPT !["crofdpt"] = Append(@, ReplyTo(m))]
         /\ \/ owed' = owed
            \/ m.class \in DOMAIN Answer \ AnsweredAtOnce /\ owed' = owed \cup {ReplyTo(m)}
         /\ \/ port' = port
            \/ m.class = "cofmsg_port_mod" /\ port # "absent" /\ port' = m.data[1]
         /\ \/ role' = role
            \/ m.class = "cofmsg_role_request" /\ m.data \notin {<<"NOCHANGE">>, <<"invalid">>} /\
                 role' = m.data[1]
         /\ \/ async' \in {async, "default"}
            \/ m.class = "cofmsg_set_async_config" /\ async' = m.data[1]
         /\ \/ leaked' = leaked
            \/ \E e \in Raised(m) : leaked' = (leaked \/
                 (e \in DOMAIN Caught /\ ver \notin DOMAIN Caught[e]))
         /\ UNCHANGED <<ver, ports, xid, pending, asked, told, dropped>>
<1> DEFINE m == Head(inbox["crofctl"][q])
           case == ctl_handle_recv(ver, Header(m))
           checked == \E k \in case : k.checked
<1>1. /\ inbox["crofctl"][q] # <<>> /\ inbox' = [inbox EXCEPT !["crofctl"][q] = Tail(@)]
      /\ UNCHANGED <<ver, ports, xid, pending, asked, told, dropped>>
      /\ \/ /\ \E e \in Rejections(m, checked) : ("crofctl" \in dropped => e # "eRoleRequestStale") /\
                 Raise(m, e)
            /\ UNCHANGED <<role, async>>
         \/ "crofctl" \in dropped /\ ~Rejected(m, checked) /\ ReturnAlone(m)
         \/ /\ "crofctl" \notin dropped /\ ~Rejected(m, checked)
            /\ IF case = {} THEN UNCHANGED <<role, async, port, owed, net, leaked>>
               ELSE /\ role_request_rcvd(m)
                    /\ \/ Return(m)
                       \/ \E t \in Throws : t[1] = ver /\ t[2] = m.class /\ Raise(m, t[3])
  BY DEF HandleAtCtl
<1> HIDE DEF m, case, checked
<1>2. ASSUME NEW e \in Raised(m), Raise(m, e)
      PROVE  /\ \/ net' = net
                \/ e \in DOMAIN Caught /\ ver \in DOMAIN Caught[e] /\
                     net' = [net EXCEPT !["crofdpt"] = Append(@, ErrorMsg(m.xid, e))]
             /\ leaked' = (leaked \/ (e \in DOMAIN Caught /\ ver \notin DOMAIN Caught[e]))
             /\ UNCHANGED <<port, owed>>
  BY <1>2 DEF Raise
<1>3. role_request_rcvd(m) /\ ~Rejected(m, checked) =>
        /\ \/ role' = role
           \/ m.class = "cofmsg_role_request" /\ m.data \notin {<<"NOCHANGE">>, <<"invalid">>} /\
                role' = m.data[1]
        /\ \/ async' \in {async, "default"}
           \/ m.class = "cofmsg_set_async_config" /\ async' = m.data[1]
  BY DEF role_request_rcvd, Rejected
<1>4. Return(m) =>
        /\ net' = net \/ (m.class \in AnsweredAtOnce /\
             net' = [net EXCEPT !["crofdpt"] = Append(@, ReplyTo(m))])
        /\ \/ owed' = owed
           \/ m.class \in DOMAIN Answer \ AnsweredAtOnce /\ owed' = owed \cup {ReplyTo(m)}
        /\ \/ port' = port
           \/ m.class = "cofmsg_port_mod" /\ port # "absent" /\ port' = m.data[1]
        /\ leaked' = leaked
  BY DEF Return, ReplyTo
<1>5. ReturnAlone(m) =>
        /\ net' = net \/ (m.class \in AnsweredAtOnce /\
             net' = [net EXCEPT !["crofdpt"] = Append(@, ReplyTo(m))])
        /\ UNCHANGED <<role, port, owed, leaked>>
        /\ async' = async \/ (m.class = "cofmsg_set_async_config" /\ async' = m.data[1])
  BY DEF ReturnAlone, ReplyTo, AnsweredAtOnce
<1>6. CASE \E e \in Rejections(m, checked) : Raise(m, e) /\ UNCHANGED <<role, async>>
  <2>1. PICK e \in Rejections(m, checked) : Raise(m, e) /\ UNCHANGED <<role, async>>
    BY <1>6
  <2>2. e \in Raised(m)
    BY DEF Rejections, Raised
  <2> QED
    BY <1>1, <1>2, <2>1, <2>2 DEF m
<1>7. CASE "crofctl" \in dropped /\ ~Rejected(m, checked) /\ ReturnAlone(m)
  BY <1>1, <1>5, <1>7 DEF m
<1>8. CASE UNCHANGED <<role, async, port, owed, net, leaked>>
  BY <1>1, <1>8 DEF m
<1>9. CASE ~Rejected(m, checked) /\ role_request_rcvd(m) /\ Return(m)
  BY <1>1, <1>3, <1>4, <1>9 DEF m
<1>10. CASE /\ ~Rejected(m, checked) /\ role_request_rcvd(m)
            /\ \E t \in Throws : t[1] = ver /\ t[2] = m.class /\ Raise(m, t[3])
  <2>1. PICK t \in Throws : t[1] = ver /\ t[2] = m.class /\ Raise(m, t[3])
    BY <1>10
  <2>2. t[3] \in Raised(m)
    BY <2>1 DEF Raised
  <2> QED
    BY <1>1, <1>2, <1>3, <1>10, <2>1, <2>2 DEF m
<1> QED
  BY <1>1, <1>6, <1>7, <1>8, <1>9, <1>10

\* What handlers end with is an exception.
LEMMA RaisedTypes ==
  ASSUME NEW m PROVE Raised(m) \subseteq Exceptions
  BY DEF Raised, Exceptions

\* What a role request, a change of the events and a port modification carry.
LEMMA CtlContents ==
  ASSUME NEW v, NEW m \in ToCtl(v)
  PROVE  /\ m.class = "cofmsg_role_request" => m.data \in {<<r>> : r \in Roles}
         /\ m.class = "cofmsg_set_async_config" => m.data \in {<<"default">>, <<"muted">>}
         /\ m.class = "cofmsg_port_mod" => m.data = <<"down">>
  BY DEF ToCtl, Payloads

\* The answers to requests are messages that a datapath can send.
LEMMA ReplyForms ==
  ASSUME NEW v, NEW m \in ToCtl(v), m.class \in DOMAIN Answer
  PROVE  /\ m.class \in AnsweredAtOnce => ReplyTo(m) \in ToDpt(v)
         /\ m.class \notin AnsweredAtOnce => ReplyTo(m) \in Replies
<1>1. Answer[m.class] \in FromDpt
  BY Answers
<1>2. <<>> \in Contents
  BY DEF Contents, Selections
<1>3. ReplyTo(m) \in Messages
  BY <1>1, <1>2 DEF ReplyTo, Msg, ToCtl, Messages
<1>4. \A c \in DOMAIN Answer :
        /\ Answer[c] \notin {"cofmsg_port_status", "cofmsg_error"}
        /\ Answer[c] = "cofmsg_get_async_config_reply" => c = "cofmsg_get_async_config_request"
        /\ c \in AnsweredAtOnce => Answer[c] \notin {"cofmsg_features_reply",
             "cofmsg_port_desc_stats_reply"}
  BY DEF Answer, AnsweredAtOnce
<1>5. v = 3 => m.class # "cofmsg_get_async_config_request"
  BY DEF ToCtl, NoForm, From12Classes, From13Classes
<1>6. ReplyTo(m).class = Answer[m.class] /\ ReplyTo(m).data = <<>>
  BY DEF ReplyTo, Msg
<1>7. m.class \in AnsweredAtOnce => ReplyTo(m) \in ToDpt(v)
  BY <1>1, <1>3, <1>4, <1>5, <1>6 DEF ToDpt
<1>8. m.class \notin AnsweredAtOnce => ReplyTo(m) \in Replies
  BY <1>1, <1>3, <1>4, <1>6 DEF Replies, AnsweredAtOnce
<1> QED
  BY <1>7, <1>8

\* Every class that is sent has a constructor.
LEMMA ClassNames ==
  FromCtl \subseteq DOMAIN Constructor /\ FromDpt \subseteq DOMAIN Constructor
<1>1. CtlPlain \subseteq DOMAIN Constructor /\ DptPlain \subseteq DOMAIN Constructor
  BY DEF Constructor, CtlPlain, DptPlain
<1>2. StatsRequests \subseteq DOMAIN Constructor /\ StatsReplies \subseteq DOMAIN Constructor
  BY DEF Constructor, StatsRequests, StatsReplies
<1> QED
  BY <1>1, <1>2 DEF FromCtl, FromDpt

\* What crofdpt::handle_recv() does to the copy of the ports, to the pending request and to what is told.
LEMMA DptEffect ==
  ASSUME Types, Forms, NEW q \in Queues, HandleAtDpt(q)
  PROVE  LET m == Head(inbox["crofdpt"][q]) IN
         /\ inbox["crofdpt"][q] # <<>> /\ inbox' = [inbox EXCEPT !["crofdpt"][q] = Tail(@)]
         /\ m \in ToDpt(ver) /\ m \in Known(ver)
         /\ \/ ports' = ports /\ (ver \in {1, 3} => ~About(m))
            \/ ports' = m.data[1] /\ m.data[1] \in PortStates /\ (ver \in {1, 3} => About(m))
         /\ \/ told' = told
            \/ "crofdpt" \notin dropped /\ m.xid = xid /\ asked # "none" /\ m.class \notin Notifications
               /\ told' = told \cup {<<"answer", m.class>>}
         /\ UNCHANGED <<ver, role, async, port, xid, net, owed, pending, asked, dropped, leaked>>
<1> DEFINE m == Head(inbox["crofdpt"][q])
           case == dpt_handle_recv(ver, Header(m))
           taken == \E k \in case : ver \in k.ports
<1>1. /\ inbox["crofdpt"][q] # <<>> /\ inbox' = [inbox EXCEPT !["crofdpt"][q] = Tail(@)]
      /\ ports' = IF ~taken THEN ports
                  ELSE IF m.class = "cofmsg_port_status" THEN port_status_rcvd_ports(m.data)
                       ELSE m.data[1]
      /\ told' = IF "crofdpt" \notin dropped /\ m.xid = xid /\ asked # "none" /\
           m.class \notin Notifications
                   THEN told \cup {<<"answer", k.cast>> : k \in case} ELSE told
      /\ UNCHANGED <<ver, role, async, port, xid, net, owed, pending, asked, dropped, leaked>>
  BY DEF HandleAtDpt
<1>2. inbox["crofdpt"][q] \in Seq(Messages)
  BY DEF Types, Objects
<1>3. All(inbox["crofdpt"][q], ToDpt(ver)) /\ All(inbox["crofdpt"][q], Known(ver))
  BY DEF Forms, Carried, Objects
<1>4. m \in ToDpt(ver) /\ m \in Known(ver)
  BY <1>1, <1>2, <1>3, TailAll
<1> HIDE DEF m
<1>5. ver \in Versions /\ m.class \in FromDpt /\ <<ver, m.class>> # <<3, "cofmsg_get_async_config_reply">>
  BY <1>4, DispatchAssumption DEF Types, ToDpt
<1>6. /\ Agrees(parse_message(ver, Header(m)), case, m.class)
      /\ ver \in {1, 3} => \A k \in case : ver \in k.ports <=> m.class \in AboutPort
      /\ \A k \in case : ver \in k.ports => m.class \in AboutPort \cup {"cofmsg_port_desc_stats_reply"}
  BY <1>5, DptDelivers DEF Header
<1>7. parse_message(ver, Header(m)) # {}
  BY <1>4 DEF Known, Header
<1> HIDE DEF case
<1>8. {k.cast : k \in case} = {m.class} /\ case # {}
  BY <1>6, <1>7 DEF Agrees
<1>9. taken => m.class \in AboutPort \cup {"cofmsg_port_desc_stats_reply"}
  BY <1>6
<1>10. ver \in {1, 3} => (taken <=> About(m))
  BY <1>6, <1>8 DEF About
<1> HIDE DEF taken
<1>11. {<<"answer", k.cast>> : k \in case} = {<<"answer", m.class>>}
  BY <1>8
<1>12. ASSUME taken
       PROVE  ports' = m.data[1] /\ m.data[1] \in PortStates
  <2>1. CASE m.class = "cofmsg_port_status"
    <3>1. m.data \in Statuses
      BY <1>4, <2>1 DEF ToDpt
    <3>2. PICK p \in PortStates, r \in Reasons : m.data = <<p, r>> /\ (r = "OFPPR_DELETE" => p = "absent")
      BY <3>1 DEF Statuses
    <3> QED
      BY <1>1, <1>12, <2>1, <3>2 DEF port_status_rcvd_ports
  <2>2. CASE m.class # "cofmsg_port_status"
    <3>1. m.class \in {"cofmsg_features_reply", "cofmsg_port_desc_stats_reply"}
      BY <1>9, <1>12, <2>2 DEF AboutPort
    <3>2. m.data \in {<<p>> : p \in PortStates}
      BY <1>4, <3>1 DEF ToDpt
    <3> QED
      BY <1>1, <1>12, <2>2, <3>2
  <2> QED
    BY <2>1, <2>2
<1> QED
  BY <1>1, <1>4, <1>10, <1>11, <1>12 DEF m

\* What the senders of crofdpt put into their messages.
LEMMA PayloadForms ==
  ASSUME NEW c, NEW d \in Payloads(c)
  PROVE  d \in Contents
  BY DEF Payloads, Contents, Selections

\* What send_*() queues has a form in the negotiated version, and a timeout if it has an answer.
LEMMA SendForms ==
  ASSUME Types, NEW s \in DptSenders, NEW d \in Payloads(s.class), NEW queued \in BOOLEAN,
         Send(s, d, queued)
  PROVE  /\ Msg(s.class, xid', d) \in ToCtl(ver) /\ Msg(s.class, xid', d) \in Messages
         /\ s.timed \in BOOLEAN /\ (s.timed <=> s.class \in DOMAIN Answer)
<1>1. /\ s.class \in FromCtl /\ s.timed \in BOOLEAN /\ (s.timed <=> s.class \in DOMAIN Answer)
  BY Senders
<1>2. <<ver, s>> \in Sends /\ xid' \in 0 .. OwnXid
  BY DEF Send, OwnXid
<1>3. <<ver, s.class>> \notin NoForm
  BY <1>2, SendsAssumption
<1>4. d \in Contents
  BY PayloadForms
<1>5. Msg(s.class, xid', d) \in Messages
  BY <1>1, <1>2, <1>4 DEF Msg, Messages
<1> QED
  BY <1>1, <1>3, <1>5 DEF ToCtl, Msg

-----------------------------------------------------------------------------
(* Types: every step *)

\* send_*() of crofdpt keeps the types and the forms.
LEMMA SendTypes ==
  ASSUME Types, Forms, NEW s \in DptSenders, NEW d \in Payloads(s.class), NEW queued \in BOOLEAN,
         Send(s, d, queued)
  PROVE  Types' /\ Forms'
<1> DEFINE m == Msg(s.class, xid', d)
<1>1. m \in ToCtl(ver) /\ m \in Messages /\ s.timed \in BOOLEAN /\ (s.timed <=> s.class \in DOMAIN Answer)
  BY SendForms
<1> HIDE DEF m
<1>2. /\ UNCHANGED <<ver, role, async, port, inbox, owed, dropped, leaked>>
      /\ xid' \in 0 .. 1
      /\ ports' \in {ports, d[1]} /\ (ports' # ports => s.class = "cofmsg_port_mod")
      /\ pending' = IF s.timed THEN {[xid |-> xid', class |-> s.class]} ELSE {}
      /\ asked' = IF s.timed THEN s.class ELSE "none"
      /\ net' = net \/ net' = [net EXCEPT !["crofctl"] = Append(@, m)]
  BY DEF Send, SnoopPortMod, m
<1>3. ports' \in PortStates
  BY <1>2 DEF Types, Payloads, PortStates
<1>4. "crofctl" \in Objects /\ "crofdpt" \in Objects /\ "crofctl" # "crofdpt"
  BY DEF Objects
<1>5. net["crofctl"] \in Seq(Messages)
  BY <1>4 DEF Types
<1>6. Append(net["crofctl"], m) \in Seq(Messages)
      /\ (All(net["crofctl"], ToCtl(ver)) => All(Append(net["crofctl"], m), ToCtl(ver)))
  BY <1>1, <1>5, AppendAll
<1>7. /\ net' \in [Objects -> Seq(Messages)]
      /\ net'["crofctl"] \in {net["crofctl"], Append(net["crofctl"], m)} /\
           net'["crofdpt"] = net["crofdpt"]
  BY <1>2, <1>4, <1>6 DEF Types
<1>8. asked' \in DOMAIN Answer \cup {"none"}
      /\ (pending' = {} \/ (asked' # "none" /\ pending' = {[xid |-> xid', class |-> asked']}))
  <2>1. "none" \notin DOMAIN Answer
    BY DEF Answer
  <2> QED
    BY <1>1, <1>2, <2>1
<1>9. Types'
  BY <1>2, <1>3, <1>7, <1>8 DEF Types
<1>10. Forms'
  BY <1>2, <1>6, <1>7 DEF Forms, Carried
<1> QED
  BY <1>9, <1>10

\* What is parsed stays with its object; the other side may be sent an error.
LEMMA ParseCarried ==
  ASSUME Types, NEW o \in Objects, NEW p \in Objects \ {o}, Parse(o)
  PROVE  /\ \A S : Carried(net[o], inbox[o], S) => Carried(net'[o], inbox'[o], S)
         /\ \A S : (\A x \in 0 .. OwnXid, e \in {"eBadRequestBadStat", "eBadRequestBadType"} :
              ErrorMsg(x, e) \in S)
                  => (Carried(net[p], inbox[p], S) => Carried(net'[p], inbox'[p], S))
         /\ (\A x \in Objects, q \in Queues : All(inbox[x][q], Known(ver)))
              => \A x \in Objects, q \in Queues : All(inbox'[x][q], Known(ver))
<1>1. PICK i \in DOMAIN net[o], y \in Objects \ {o} :
        /\ \A j \in 1 .. i - 1 : txqueue(ver, Header(net[o][j])) # txqueue(ver, Header(net[o][i]))
        /\ net' \in [Objects -> Seq(Messages)] /\ inbox' \in [Objects -> [Queues -> Seq(Messages)]]
        /\ net'[o] = RemoveAt(net[o], i)
        /\ \/ \E e \in {"eBadRequestBadStat", "eBadRequestBadType"} :
                inbox' = inbox /\ net'[y] = Append(net[y], ErrorMsg(net[o][i].xid, e)) /\
                  net[o][i] \notin Known(ver)
           \/ /\ net'[y] = net[y] /\ net[o][i] \in Known(ver)
              /\ inbox' = [inbox EXCEPT ![o][rxqueue(ver, Header(net[o][i]))] = Append(@, net[o][i])]
        /\ pending' = pending \/ pending' = {}
  BY ParseEffect
<1> DEFINE m == net[o][i]
           k == rxqueue(ver, Header(m))
<1>2. y = p
  BY DEF Objects
<1>3. net[o] \in Seq(Messages) /\ net[p] \in Seq(Messages)
  BY DEF Types
<1>4. m \in Messages /\ m.xid \in 0 .. OwnXid
      /\ \A S : All(net[o], S) => All(RemoveAt(net[o], i), S) /\ m \in S
  <2>1. m \in Messages
    BY <1>3
  <2>2. \A S : All(net[o], S) => All(RemoveAt(net[o], i), S) /\ m \in S
    BY <1>3, RemoveAll
  <2> QED
    BY <2>1, <2>2 DEF Messages
<1>5. k \in Queues
  BY QueueType, DispatchAssumption DEF Types
<1> HIDE DEF k, m
<1>6. \A S : All(net[o], S) => All(net'[o], S)
  BY <1>1, <1>4
<1>7. ASSUME NEW S, \A x \in 0 .. OwnXid, e \in {"eBadRequestBadStat", "eBadRequestBadType"} :
             ErrorMsg(x, e) \in S
      PROVE  All(net[p], S) => All(net'[p], S)
  <2>1. \A e \in {"eBadRequestBadStat", "eBadRequestBadType"} : ErrorMsg(m.xid, e) \in Messages /\
          ErrorMsg(m.xid, e) \in S
    <3>1. ASSUME NEW e \in {"eBadRequestBadStat", "eBadRequestBadType"}
                 PROVE ErrorMsg(m.xid, e) \in ToCtl(ver)
      BY <1>4, ErrorForms DEF Exceptions
    <3> QED
      BY <1>4, <1>7, <3>1 DEF ToCtl
  <2>2. \A a \in Messages : a \in S /\ All(net[p], S) => All(Append(net[p], a), S)
    BY <1>3, AppendAll
  <2>3. \A e \in {"eBadRequestBadStat", "eBadRequestBadType"} : All(net[p], S)
          => All(Append(net[p], ErrorMsg(m.xid, e)), S)
    BY <2>1, <2>2
  <2> QED
    BY <1>1, <1>2, <2>3 DEF m
<1>8. ASSUME NEW x \in Objects, NEW q \in Queues
      PROVE  inbox'[x][q] = inbox[x][q] \/ (x = o /\ m \in Known(ver) /\
             inbox'[x][q] = Append(inbox[x][q], m))
  <2>1. CASE inbox' = inbox
    BY <2>1
  <2>2. CASE m \in Known(ver) /\ inbox' = [inbox EXCEPT ![o][k] = Append(@, m)]
    BY <1>5, <2>2 DEF Types
  <2> QED
    BY <1>1, <2>1, <2>2 DEF m, k
<1>9. \A x \in Objects, q \in Queues : inbox[x][q] \in Seq(Messages)
  BY DEF Types
<1>10. ASSUME NEW x \in Objects, NEW q \in Queues, NEW S, All(inbox[x][q], S), x = o /\ m \in Known(ver)
              => m \in S
       PROVE  All(inbox'[x][q], S)
  <2>1. m \in S => All(Append(inbox[x][q], m), S)
    BY <1>4, <1>9, <1>10, AppendAll
  <2> QED
    BY <1>8, <1>10, <2>1
<1>11. ASSUME NEW S, Carried(net[o], inbox[o], S) PROVE Carried(net'[o], inbox'[o], S)
  BY <1>4, <1>6, <1>10, <1>11 DEF Carried
<1>12. ASSUME NEW S, \A x \in 0 .. OwnXid, e \in {"eBadRequestBadStat", "eBadRequestBadType"} :
              ErrorMsg(x, e) \in S,
              Carried(net[p], inbox[p], S)
       PROVE  Carried(net'[p], inbox'[p], S)
  BY <1>7, <1>10, <1>12 DEF Carried
<1>13. ASSUME NEW x \in Objects, NEW q \in Queues, All(inbox[x][q], Known(ver))
              PROVE All(inbox'[x][q], Known(ver))
  BY <1>10, <1>13
<1> QED
  BY <1>11, <1>12, <1>13

\* Parsing a received message keeps the types and the forms.
LEMMA ParseTypes ==
  ASSUME Types, Forms, NEW o \in Objects, Parse(o)
  PROVE  Types' /\ Forms'
<1>1. UNCHANGED <<ver, role, async, port, ports, xid, owed, asked, told, dropped, leaked>>
  BY DEF Parse
<1>2. /\ net' \in [Objects -> Seq(Messages)] /\ inbox' \in [Objects -> [Queues -> Seq(Messages)]]
      /\ pending' = pending \/ pending' = {}
  BY ParseEffect
<1>3. Types'
  BY <1>1, <1>2 DEF Types
<1>4. \A x \in 0 .. OwnXid, e \in {"eBadRequestBadStat", "eBadRequestBadType"} :
        ErrorMsg(x, e) \in ToCtl(ver) /\ ErrorMsg(x, e) \in ToDpt(ver)
  BY ErrorForms DEF Exceptions
<1>5. Carried(net'["crofctl"], inbox'["crofctl"], ToCtl(ver)) /\
        Carried(net'["crofdpt"], inbox'["crofdpt"], ToDpt(ver))
  <2>1. CASE o = "crofctl"
    <3>1. "crofdpt" \in Objects \ {o}
      BY <2>1 DEF Objects
    <3> QED
      BY <1>4, <2>1, <3>1, ParseCarried DEF Forms
  <2>2. CASE o = "crofdpt"
    <3>1. "crofctl" \in Objects \ {o}
      BY <2>2 DEF Objects
    <3> QED
      BY <1>4, <2>2, <3>1, ParseCarried DEF Forms
  <2> QED
    BY <2>1, <2>2 DEF Objects
<1>6. \A x \in Objects, q \in Queues : All(inbox'[x][q], Known(ver))
  <2>1. PICK p \in Objects : p # o
    BY DEF Objects
  <2> QED
    BY <2>1, ParseCarried DEF Forms
<1>7. Forms'
  BY <1>1, <1>5, <1>6 DEF Forms
<1> QED
  BY <1>3, <1>7

\* A message leaves the receive queue q of the object o.
LEMMA TakeForms ==
  ASSUME Types, NEW o \in Objects, NEW q \in Queues, inbox[o][q] # <<>>,
         inbox' = [inbox EXCEPT ![o][q] = Tail(@)]
  PROVE  /\ inbox' \in [Objects -> [Queues -> Seq(Messages)]]
         /\ \A p \in Objects, r \in Queues : \A S : All(inbox[p][r], S) => All(inbox'[p][r], S)
         /\ \A S : All(inbox[o][q], S) => Head(inbox[o][q]) \in S
         /\ Head(inbox[o][q]) \in Messages
<1>1. inbox[o][q] \in Seq(Messages)
  BY DEF Types
<1>2. Tail(inbox[o][q]) \in Seq(Messages) /\ Head(inbox[o][q]) \in Messages
      /\ \A S : All(inbox[o][q], S) => All(Tail(inbox[o][q]), S) /\ Head(inbox[o][q]) \in S
  BY <1>1, TailAll
<1>3. inbox' \in [Objects -> [Queues -> Seq(Messages)]]
  BY <1>2 DEF Types
<1>4. \A p \in Objects, r \in Queues : inbox'[p][r] = inbox[p][r] \/
        (p = o /\ r = q /\ inbox'[p][r] = Tail(inbox[o][q]))
  BY DEF Types
<1> QED
  BY <1>2, <1>3, <1>4

\* crofctl::handle_recv() keeps the types and the forms.
LEMMA HandleAtCtlTypes ==
  ASSUME Types, Forms, NEW q \in Queues, HandleAtCtl(q)
  PROVE  Types' /\ Forms'
<1> DEFINE m == Head(inbox["crofctl"][q])
<1>1. /\ inbox["crofctl"][q] # <<>> /\ inbox' = [inbox EXCEPT !["crofctl"][q] = Tail(@)]
      /\ \/ net' = net
         \/ \E e \in Raised(m) : e \in DOMAIN Caught /\ ver \in DOMAIN Caught[e]
               /\ net' = [net EXCEPT !["crofdpt"] = Append(@, ErrorMsg(m.xid, e))]
         \/ m.class \in AnsweredAtOnce /\ net' = [net EXCEPT !["crofdpt"] = Append(@, ReplyTo(m))]
      /\ \/ owed' = owed
         \/ m.class \in DOMAIN Answer \ AnsweredAtOnce /\ owed' = owed \cup {ReplyTo(m)}
      /\ \/ port' = port
         \/ m.class = "cofmsg_port_mod" /\ port # "absent" /\ port' = m.data[1]
      /\ \/ role' = role
         \/ m.class = "cofmsg_role_request" /\ m.data \notin {<<"NOCHANGE">>, <<"invalid">>} /\
              role' = m.data[1]
      /\ \/ async' \in {async, "default"}
         \/ m.class = "cofmsg_set_async_config" /\ async' = m.data[1]
      /\ \/ leaked' = leaked
         \/ \E e \in Raised(m) : leaked' = (leaked \/
              (e \in DOMAIN Caught /\ ver \notin DOMAIN Caught[e]))
      /\ UNCHANGED <<ver, ports, xid, pending, asked, told, dropped>>
  BY CtlEffect
<1> HIDE DEF m
<1>2. "crofctl" \in Objects /\ "crofdpt" \in Objects
  BY DEF Objects
<1>3. /\ inbox' \in [Objects -> [Queues -> Seq(Messages)]]
      /\ \A p \in Objects, r \in Queues : \A S : All(inbox[p][r], S) => All(inbox'[p][r], S)
      /\ m \in ToCtl(ver) /\ m \in Messages
  <2>1. All(inbox["crofctl"][q], ToCtl(ver))
    BY DEF Forms, Carried
  <2> QED
    BY <1>1, <1>2, <2>1, TakeForms DEF m
<1>4. /\ m.class = "cofmsg_role_request" => m.data \in {<<r>> : r \in Roles}
      /\ m.class = "cofmsg_set_async_config" => m.data \in {<<"default">>, <<"muted">>}
      /\ m.class = "cofmsg_port_mod" => m.data = <<"down">>
  BY <1>3, CtlContents
<1>5. role' \in {"EQUAL", "MASTER", "SLAVE"}
  <2>1. ASSUME m.class = "cofmsg_role_request", m.data \notin {<<"NOCHANGE">>, <<"invalid">>}
        PROVE  m.data[1] \in {"EQUAL", "MASTER", "SLAVE"}
    <3>1. PICK r \in Roles : m.data = <<r>>
      BY <1>4, <2>1
    <3> QED
      BY <2>1, <3>1, DispatchAssumption
  <2> QED
    BY <1>1, <2>1 DEF Types
<1>6. async' \in {"default", "muted"} /\ port' \in PortStates /\ leaked' \in BOOLEAN
  <2>1. async' \in {"default", "muted"}
    BY <1>1, <1>4 DEF Types
  <2>2. port' \in PortStates
    BY <1>1, <1>4 DEF Types, PortStates
  <2>3. leaked' \in BOOLEAN
    BY <1>1 DEF Types
  <2> QED
    BY <2>1, <2>2, <2>3
<1>7. owed' \subseteq Replies
  BY <1>1, <1>3, ReplyForms DEF Types
<1>8. \/ net' = net
      \/ \E a \in ToDpt(ver) : a \in Messages /\ net' = [net EXCEPT !["crofdpt"] = Append(@, a)]
  <2>1. \A e \in Raised(m) : ErrorMsg(m.xid, e) \in ToDpt(ver) /\ ErrorMsg(m.xid, e) \in Messages
    <3>1. m.xid \in 0 .. OwnXid
      BY <1>3 DEF Messages
    <3> QED
      BY <3>1, RaisedTypes, ErrorForms DEF ToDpt
  <2>2. m.class \in AnsweredAtOnce => ReplyTo(m) \in ToDpt(ver) /\ ReplyTo(m) \in Messages
    <3>1. AnsweredAtOnce \subseteq DOMAIN Answer
      BY DEF AnsweredAtOnce, Answer
    <3> QED
      BY <1>3, <3>1, ReplyForms DEF ToDpt
  <2> QED
    BY <1>1, <2>1, <2>2
<1>9. net' \in [Objects -> Seq(Messages)] /\ All(net'["crofdpt"], ToDpt(ver)) /\
        net'["crofctl"] = net["crofctl"]
  <2>1. net["crofdpt"] \in Seq(Messages) /\ All(net["crofdpt"], ToDpt(ver))
    BY <1>2 DEF Types, Forms, Carried
  <2>2. \A a \in Messages : a \in ToDpt(ver) => Append(net["crofdpt"], a) \in Seq(Messages) /\
          All(Append(net["crofdpt"], a), ToDpt(ver))
    BY <2>1, AppendAll
  <2> QED
    BY <1>2, <1>8, <2>1, <2>2 DEF Types
<1>10. Types'
  BY <1>1, <1>3, <1>5, <1>6, <1>7, <1>9 DEF Types
<1>11. Forms'
  BY <1>1, <1>2, <1>3, <1>9 DEF Forms, Carried
<1> QED
  BY <1>10, <1>11

\* A message is queued for the object o.
LEMMA PutForms ==
  ASSUME Types, NEW o \in Objects, NEW a \in Messages, net' = [net EXCEPT ![o] = Append(@, a)]
  PROVE  /\ net' \in [Objects -> Seq(Messages)] /\ net'[o] = Append(net[o], a)
         /\ \A S : All(net[o], S) /\ a \in S => All(net'[o], S)
         /\ \A p \in Objects \ {o} : net'[p] = net[p]
<1>1. net[o] \in Seq(Messages)
  BY DEF Types
<1>2. Append(net[o], a) \in Seq(Messages) /\ \A S : All(net[o], S) /\ a \in S => All(Append(net[o], a), S)
  BY <1>1, AppendAll
<1> QED
  BY <1>2 DEF Types

\* A message that a datapath can send is queued for crofdpt.
LEMMA QueueForms ==
  ASSUME Types, Forms, NEW a \in ToDpt(ver), net' = [net EXCEPT !["crofdpt"] = Append(@, a)]
  PROVE  /\ net' \in [Objects -> Seq(Messages)] /\ All(net'["crofdpt"], ToDpt(ver))
         /\ net'["crofctl"] = net["crofctl"]
<1>1. a \in Messages
  BY DEF ToDpt
<1>2. "crofctl" \in Objects \ {"crofdpt"} /\ "crofdpt" \in Objects
  BY DEF Objects
<1>3. All(net["crofdpt"], ToDpt(ver))
  BY DEF Forms, Carried
<1> QED
  BY <1>1, <1>2, <1>3, PutForms

\* The message with which the application gives the owed answer r: it has the port where the answer has
\* ports.
Answering(r) ==
  IF r.class \in {"cofmsg_features_reply", "cofmsg_port_desc_stats_reply"}
    THEN [r EXCEPT !.data = <<port>>] ELSE r

\* What the application answers is a message that a datapath can send.
LEMMA AnsweringForms ==
  ASSUME Types, NEW r \in owed
  PROVE  /\ Answering(r) \in ToDpt(ver) /\ Answering(r).class = r.class /\ Answering(r).xid = r.xid
         /\ r.class \in {"cofmsg_features_reply", "cofmsg_port_desc_stats_reply"}
              => Answering(r).data = <<port>>
         /\ r.class \notin {"cofmsg_port_status", "cofmsg_error"}
<1>1. r \in Messages /\ r.class \in FromDpt /\ r.data = <<>>
      /\ r.class \notin {"cofmsg_get_async_config_reply", "cofmsg_port_status", "cofmsg_error"}
  BY DEF Types, Replies
<1>2. <<port>> \in Contents /\ port \in PortStates
  BY DEF Types, Contents
<1>3. CASE r.class \in {"cofmsg_features_reply", "cofmsg_port_desc_stats_reply"}
  <2>1. Answering(r) = [r EXCEPT !.data = <<port>>]
    BY <1>3 DEF Answering
  <2>2. Answering(r) \in Messages /\ Answering(r).class = r.class /\ Answering(r).xid = r.xid /\
          Answering(r).data = <<port>>
    BY <1>1, <1>2, <2>1 DEF Messages
  <2> QED
    BY <1>1, <1>2, <1>3, <2>2 DEF ToDpt
<1>4. CASE r.class \notin {"cofmsg_features_reply", "cofmsg_port_desc_stats_reply"}
  BY <1>1, <1>4 DEF ToDpt, Answering
<1> QED
  BY <1>3, <1>4

\* What an answer of the application does.
LEMMA ReplyEffect ==
  ASSUME NEW r, Reply(r)
  PROVE  /\ r \in owed /\ owed' = owed \ {r} /\ dropped = {}
         /\ net' = [net EXCEPT !["crofdpt"] = Append(@, Answering(r))]
         /\ UNCHANGED <<ver, role, async, port, ports, xid, inbox, pending, asked, told, dropped, leaked>>
  BY DEF Reply, Answering

\* An answer of the application keeps the types and the forms.
LEMMA ReplyTypes ==
  ASSUME Types, Forms, NEW r \in owed, Reply(r)
  PROVE  Types' /\ Forms'
<1>1. /\ owed' = owed \ {r} /\ net' = [net EXCEPT !["crofdpt"] = Append(@, Answering(r))]
      /\ UNCHANGED <<ver, role, async, port, ports, xid, inbox, pending, asked, told, dropped, leaked>>
  BY ReplyEffect
<1>2. /\ net' \in [Objects -> Seq(Messages)] /\ All(net'["crofdpt"], ToDpt(ver)) /\
           net'["crofctl"] = net["crofctl"]
  BY <1>1, AnsweringForms, QueueForms
<1>3. Types'
  BY <1>1, <1>2 DEF Types
<1> QED
  BY <1>1, <1>2, <1>3 DEF Forms, Carried

\* The notifications of a datapath are messages that a datapath can send.
LEMMA NotifyForms ==
  ASSUME NEW v, NEW x \in NotifyXids
  PROVE  /\ \A c \in {"cofmsg_packet_in", "cofmsg_flow_removed", "cofmsg_experimenter"} :
              Msg(c, x, <<>>) \in ToDpt(v)
         /\ \A d \in Statuses : Msg("cofmsg_port_status", x, d) \in ToDpt(v)
<1>1. x \in 0 .. OwnXid
  BY DEF NotifyXids, OwnXid
<1>2. <<>> \in Contents /\ Statuses \subseteq Contents
  BY DEF Contents, Selections
<1>3. {"cofmsg_packet_in", "cofmsg_flow_removed", "cofmsg_experimenter",
        "cofmsg_port_status"} \subseteq FromDpt
  BY DEF FromDpt, DptPlain
<1>4. \A c \in {"cofmsg_packet_in", "cofmsg_flow_removed", "cofmsg_experimenter"} :
        Msg(c, x, <<>>) \in Messages
  BY <1>1, <1>2, <1>3 DEF Msg, Messages
<1>5. \A d \in Statuses : Msg("cofmsg_port_status", x, d) \in Messages
  BY <1>1, <1>2, <1>3 DEF Msg, Messages
<1>6. \A c \in {"cofmsg_packet_in", "cofmsg_flow_removed", "cofmsg_experimenter"} :
        Msg(c, x, <<>>) \in ToDpt(v)
  BY <1>3, <1>4 DEF Msg, ToDpt
<1>7. \A d \in Statuses : Msg("cofmsg_port_status", x, d) \in ToDpt(v)
  BY <1>3, <1>5 DEF Msg, ToDpt
<1> QED
  BY <1>6, <1>7

\* A notification of the datapath keeps the types and the forms.
LEMMA NotifyTypes ==
  ASSUME Types, Forms, NEW c, NEW x \in NotifyXids, Notify(c, x)
  PROVE  Types' /\ Forms'
<1>1. /\ c \in {"cofmsg_packet_in", "cofmsg_flow_removed", "cofmsg_experimenter"}
      /\ net' = [net EXCEPT !["crofdpt"] = Append(@, Msg(c, x, <<>>))]
      /\ UNCHANGED <<ver, role, async, port, ports, xid, inbox, owed, pending, asked, told, dropped,
           leaked>>
  BY DEF Notify
<1>2. Msg(c, x, <<>>) \in ToDpt(ver)
  BY <1>1, NotifyForms
<1>3. /\ net' \in [Objects -> Seq(Messages)] /\ All(net'["crofdpt"], ToDpt(ver)) /\
           net'["crofctl"] = net["crofctl"]
  BY <1>1, <1>2, QueueForms
<1>4. Types'
  BY <1>1, <1>3 DEF Types
<1> QED
  BY <1>1, <1>3, <1>4 DEF Forms, Carried

\* A change of the port of the datapath, and the status message that tells of it.
LEMMA PortEventEffect ==
  ASSUME Types, NEW p, NEW x \in NotifyXids, PortEvent(p, x)
  PROVE  /\ port' = p /\ p \in PortStates /\ p # port
         /\ \/ net' = net /\ ~Passes("cofmsg_port_status")
            \/ \E d \in Statuses : d[1] = p /\ net' = [net EXCEPT !["crofdpt"] = Append(@,
                 Msg("cofmsg_port_status", x, d))]
         /\ dropped = {}
         /\ UNCHANGED <<ver, role, async, ports, xid, inbox, owed, pending, asked, told, dropped, leaked>>
<1> DEFINE reason == IF port = "absent" THEN "OFPPR_ADD" ELSE IF p = "absent" THEN "OFPPR_DELETE"
      ELSE "OFPPR_MODIFY"
<1>1. /\ p \in {"absent", "up"} \ {port} /\ port' = p /\ dropped = {}
      /\ net' = IF Passes("cofmsg_port_status")
                  THEN [net EXCEPT !["crofdpt"] = Append(@, Msg("cofmsg_port_status", x, <<p, reason>>))]
                       ELSE net
      /\ UNCHANGED <<ver, role, async, ports, xid, inbox, owed, pending, asked, told, dropped, leaked>>
  BY DEF PortEvent
<1>2. reason \in Reasons /\ (reason = "OFPPR_DELETE" => p = "absent") /\ p \in PortStates
  BY <1>1 DEF Reasons, PortStates
<1> HIDE DEF reason
<1>3. <<p, reason>> \in Statuses /\ <<p, reason>>[1] = p
  BY <1>2 DEF Statuses
<1> QED
  BY <1>1, <1>2, <1>3

\* A change of the port keeps the types and the forms.
LEMMA PortEventTypes ==
  ASSUME Types, Forms, NEW p, NEW x \in NotifyXids, PortEvent(p, x)
  PROVE  Types' /\ Forms'
<1>1. /\ port' = p /\ p \in PortStates
      /\ \/ net' = net
         \/ \E d \in Statuses : net' = [net EXCEPT !["crofdpt"] = Append(@,
              Msg("cofmsg_port_status", x, d))]
      /\ UNCHANGED <<ver, role, async, ports, xid, inbox, owed, pending, asked, told, dropped, leaked>>
  BY PortEventEffect
<1>2. CASE net' = net
  BY <1>1, <1>2 DEF Types, Forms, Carried
<1>3. CASE \E d \in Statuses : net' = [net EXCEPT !["crofdpt"] = Append(@,
           Msg("cofmsg_port_status", x, d))]
  <2>1. /\ net' \in [Objects -> Seq(Messages)] /\ All(net'["crofdpt"], ToDpt(ver)) /\
             net'["crofctl"] = net["crofctl"]
    BY <1>3, NotifyForms, QueueForms
  <2>2. Types'
    BY <1>1, <2>1 DEF Types
  <2> QED
    BY <1>1, <2>1, <2>2 DEF Forms, Carried
<1> QED
  BY <1>1, <1>2, <1>3

\* crofdpt::handle_recv() keeps the types and the forms.
LEMMA HandleAtDptTypes ==
  ASSUME Types, Forms, NEW q \in Queues, HandleAtDpt(q)
  PROVE  Types' /\ Forms'
<1> DEFINE m == Head(inbox["crofdpt"][q])
<1>1. /\ inbox["crofdpt"][q] # <<>> /\ inbox' = [inbox EXCEPT !["crofdpt"][q] = Tail(@)]
      /\ ports' = ports \/ (ports' = m.data[1] /\ m.data[1] \in PortStates)
      /\ UNCHANGED <<ver, role, async, port, xid, net, owed, pending, asked, dropped, leaked>>
  BY DptEffect
<1> HIDE DEF m
<1>2. /\ inbox' \in [Objects -> [Queues -> Seq(Messages)]]
      /\ \A p \in Objects, r \in Queues : \A S : All(inbox[p][r], S) => All(inbox'[p][r], S)
  <2>1. "crofdpt" \in Objects
    BY DEF Objects
  <2> QED
    BY <1>1, <2>1, TakeForms
<1>3. Types'
  BY <1>1, <1>2 DEF Types
<1>4. Forms'
  BY <1>1, <1>2 DEF Forms, Carried, Objects
<1> QED
  BY <1>3, <1>4

\* So do a demotion, a timeout, and the loss of a connection.
LEMMA OtherTypes ==
  ASSUME Types, Forms
  PROVE  /\ Demoted => Types' /\ Forms'
         /\ Timeout => Types' /\ Forms'
         /\ \A o \in Objects : Drop(o) => Types' /\ Forms'
         /\ UNCHANGED vars => Types' /\ Forms'
<1>1. ASSUME Demoted PROVE Types' /\ Forms'
  BY <1>1 DEF Demoted, Types, Forms, Carried
<1>2. ASSUME Timeout PROVE Types' /\ Forms'
  BY <1>2 DEF Timeout, Types, Forms, Carried
<1>3. ASSUME NEW o \in Objects, Drop(o) PROVE Types' /\ Forms'
  BY <1>3 DEF Drop, Types, Forms, Carried, Objects
<1>4. ASSUME UNCHANGED vars PROVE Types' /\ Forms'
  BY <1>4 DEF vars, Types, Forms, Carried
<1> QED
  BY <1>1, <1>2, <1>3, <1>4

\* What was waiting for an object whose connection is lost is dropped.
LEMMA ClearTypes ==
  ASSUME Types, Forms, NEW o \in Objects, Clear(o)
  PROVE  Types' /\ Forms'
<1>1. /\ net' = [p \in Objects |-> <<>>]
      /\ inbox' = [inbox EXCEPT ![o] = [q \in Queues |-> <<>>]]
      /\ UNCHANGED <<ver, role, async, port, ports, xid, owed, pending, asked, told, dropped, leaked>>
  BY DEF Clear
<1>2. /\ net' \in [Objects -> Seq(Messages)] /\ inbox' \in [Objects -> [Queues -> Seq(Messages)]]
  BY <1>1 DEF Types
<1>3. \A S : All(<<>>, S)
  BY DEF All
<1>4. /\ \A p \in Objects : net'[p] = <<>>
      /\ \A p \in Objects, q \in Queues : inbox'[p][q] = inbox[p][q] \/ inbox'[p][q] = <<>>
  BY <1>1 DEF Types
<1>5. Types'
  BY <1>1, <1>2 DEF Types
<1>6. Forms'
  BY <1>1, <1>3, <1>4 DEF Forms, Carried, Objects
<1> QED
  BY <1>5, <1>6

\* Every step keeps the types and the forms.
LEMMA TypesKept ==
  Types /\ Forms /\ [Next]_vars => Types' /\ Forms'
<1> SUFFICES ASSUME Types, Forms, [Next]_vars PROVE Types' /\ Forms'
  OBVIOUS
<1>1. ASSUME NEW s \in DptSenders, NEW d \in Payloads(s.class), NEW queued \in BOOLEAN,
             Send(s, d, queued) PROVE Types' /\ Forms'
  BY <1>1, SendTypes
<1>2. ASSUME NEW o \in Objects, Parse(o) PROVE Types' /\ Forms'
  BY <1>2, ParseTypes
<1>3. ASSUME NEW q \in Queues, HandleAtCtl(q) PROVE Types' /\ Forms'
  BY <1>3, HandleAtCtlTypes
<1>4. ASSUME NEW q \in Queues, HandleAtDpt(q) PROVE Types' /\ Forms'
  BY <1>4, HandleAtDptTypes
<1>5. ASSUME NEW r \in owed, Reply(r) PROVE Types' /\ Forms'
  BY <1>5, ReplyTypes
<1>6. ASSUME NEW c, NEW x \in NotifyXids, Notify(c, x) PROVE Types' /\ Forms'
  BY <1>6, NotifyTypes
<1>7. ASSUME NEW p, NEW x \in NotifyXids, PortEvent(p, x) PROVE Types' /\ Forms'
  BY <1>7, PortEventTypes
<1>8. ASSUME NEW o \in Objects, Clear(o) PROVE Types' /\ Forms'
  BY <1>8, ClearTypes
<1> QED
  BY <1>1, <1>2, <1>3, <1>4, <1>5, <1>6, <1>7, <1>8, OtherTypes DEF Next

\* They hold when the connection has been established.
LEMMA TypesInitially ==
  Init => Types /\ Forms
<1> SUFFICES ASSUME Init PROVE Types /\ Forms
  OBVIOUS
<1>1. \A S : All(<<>>, S)
  BY DEF All
<1>2. Types
  <2>1. net \in [Objects -> Seq(Messages)] /\ inbox \in [Objects -> [Queues -> Seq(Messages)]]
    BY DEF Init
  <2>2. ver \in Vers /\ owed = {} /\ pending = {} /\ asked = "none" /\ dropped = {}
    BY DEF Init
  <2>3. role \in {"EQUAL", "MASTER", "SLAVE"} /\ async \in {"default", "muted"} /\ port \in PortStates /\
          ports \in PortStates
        /\ xid \in 0 .. 1
    BY DEF Init, PortStates
  <2>4. leaked \in BOOLEAN
    BY DEF Init
  <2> QED
    BY <2>1, <2>2, <2>3, <2>4 DEF Types
<1>3. Forms
  BY <1>1 DEF Init, Forms, Carried, Objects
<1> QED
  BY <1>2, <1>3

\* The types and the forms hold in every behaviour.
LEMMA Typing ==
  Spec => [](Types /\ Forms)
  BY TypesInitially, TypesKept, PTL DEF Spec

-----------------------------------------------------------------------------
(* Types: what they imply *)

\* The messages waiting for an object are those of its queues.
LEMMA WaitingIn ==
  ASSUME Types, NEW o \in Objects, NEW m \in Waiting(o)
  PROVE  \/ \E i \in DOMAIN net[o] : m = net[o][i]
         \/ \E q \in Queues : \E i \in DOMAIN inbox[o][q] : m = inbox[o][q][i]
  BY DEF Waiting

\* What waits for an object is a message for it that has a form in the version.
LEMMA WaitingForms ==
  ASSUME Types, Forms
  PROVE  /\ \A m \in Waiting("crofctl") : m \in ToCtl(ver)
         /\ \A m \in Waiting("crofdpt") : m \in ToDpt(ver)
<1>1. "crofctl" \in Objects /\ "crofdpt" \in Objects
  BY DEF Objects
<1>2. ASSUME NEW m \in Waiting("crofctl") PROVE m \in ToCtl(ver)
  <2>1. \/ \E i \in DOMAIN net["crofctl"] : m = net["crofctl"][i]
        \/ \E q \in Queues : \E i \in DOMAIN inbox["crofctl"][q] : m = inbox["crofctl"][q][i]
    BY <1>1, WaitingIn
  <2> QED
    BY <2>1 DEF Forms, Carried, All
<1>3. ASSUME NEW m \in Waiting("crofdpt") PROVE m \in ToDpt(ver)
  <2>1. \/ \E i \in DOMAIN net["crofdpt"] : m = net["crofdpt"][i]
        \/ \E q \in Queues : \E i \in DOMAIN inbox["crofdpt"][q] : m = inbox["crofdpt"][q][i]
    BY <1>1, WaitingIn
  <2> QED
    BY <2>1 DEF Forms, Carried, All
<1> QED
  BY <1>2, <1>3

\* Types and Forms say what TypeOK says ...
LEMMA TypesImply ==
  Types /\ Forms => TypeOK
<1> SUFFICES ASSUME Types, Forms PROVE TypeOK
  OBVIOUS
<1>1. Objects = {"crofctl", "crofdpt"}
  BY DEF Objects
<1>2. ASSUME NEW o \in Objects, NEW m \in Waiting(o)
             PROVE m.class \in DOMAIN Constructor /\ m.xid \in 0 .. OwnXid
  <2>1. m \in Messages /\ (m.class \in FromCtl \/ m.class \in FromDpt)
    BY <1>1, <1>2, WaitingForms DEF ToCtl, ToDpt
  <2>2. m.xid \in 0 .. OwnXid
    BY <2>1 DEF Messages
  <2> QED
    BY <2>1, <2>2, ClassNames
<1>3. ASSUME NEW r \in owed PROVE r.class \in DOMAIN Constructor
  BY ClassNames DEF Types, Replies
<1>4. Cardinality(pending) <= 1
  <2>1. Cardinality({}) = 0 /\ \A p : Cardinality({p}) = 1
    BY FS_EmptySet, FS_Singleton
  <2>2. pending = {} \/ \E p : pending = {p}
    BY DEF Types
  <2>3. Cardinality(pending) \in {0, 1}
    BY <2>1, <2>2
  <2> QED
    BY <2>3
<1>5. asked \in DOMAIN Constructor \cup {"none"}
  <2>1. DOMAIN Answer \subseteq FromCtl
    BY Answers DEF FromCtl, CtlPlain, TimedPlain
  <2> QED
    BY <2>1, ClassNames DEF Types
<1>6. dropped \subseteq Objects
  BY DEF Types, Objects
<1> QED
  BY <1>2, <1>3, <1>4, <1>5, <1>6 DEF Types, TypeOK

\* ... and that whatever waits for an object meets the handler of its class.
LEMMA FormsImply ==
  Types /\ Forms => Delivered
<1> SUFFICES ASSUME Types, Forms, NEW o \in Objects, NEW q \in Queues, NEW i \in DOMAIN inbox[o][q]
             PROVE  LET m == inbox[o][q][i]
                        case == IF o = "crofctl" THEN ctl_handle_recv(ver, Header(m))
                          ELSE dpt_handle_recv(ver, Header(m))
                    IN parse_message(ver, Header(m)) = {m.class} /\ {k.cast : k \in case} = {m.class}
  BY DEF Delivered
<1> DEFINE m == inbox[o][q][i]
<1>1. m \in Known(ver) /\ (m \in ToCtl(ver) \/ m \in ToDpt(ver)) /\
        (o = "crofctl" => m \in ToCtl(ver)) /\ (o # "crofctl" => m \in ToDpt(ver))
  BY DEF Forms, Carried, All, Objects
<1>2. ver \in Versions
  BY DispatchAssumption DEF Types
<1> HIDE DEF m
<1>3. parse_message(ver, Header(m)) # {}
  BY <1>1 DEF Known, Header
<1>4. CASE o = "crofctl"
  <2>1. m.class \in FromCtl /\ <<ver, m.class>> \notin NoForm
    BY <1>1, <1>4 DEF ToCtl
  <2>2. Agrees(parse_message(ver, Header(m)), ctl_handle_recv(ver, Header(m)), m.class)
    BY <1>2, <2>1, CtlDelivers DEF Header
  <2> QED
    BY <1>3, <1>4, <2>2 DEF Agrees, m
<1>5. CASE o # "crofctl"
  <2>1. m.class \in FromDpt /\ <<ver, m.class>> # <<3, "cofmsg_get_async_config_reply">>
    BY <1>1, <1>5 DEF ToDpt
  <2>2. Agrees(parse_message(ver, Header(m)), dpt_handle_recv(ver, Header(m)), m.class)
    BY <1>2, <2>1, DptDelivers DEF Header
  <2> QED
    BY <1>3, <1>5, <2>2 DEF Agrees, m
<1> QED
  BY <1>4, <1>5

\* Type correctness of the two objects and of the messages between them, for any set of versions, senders,
\* exceptions and roles.
THEOREM TypeCorrect == Spec => []TypeOK
  BY Typing, TypesImply, PTL

\* Every message on its way to crofctl or crofdpt is taken there for what it is: crofsock creates an
\* object of its class, and handle_recv() casts it to that class and calls the handler of it (crofctl.cc,
\* crofdpt.cc, crofsock.cc, all the switches over versions, types and statistics types).
THEOREM HandledByItsHandler == Spec => []Delivered
  BY Typing, FormsImply, PTL

-----------------------------------------------------------------------------
(* Transactions: the application is told of its own request *)

\* What the last request, of class a, and its answer, with transaction id x, can be on the way.
CtlOfRequest(a) == {m \in Messages : m.class \in DOMAIN Answer => m.class = a}
DptOfRequest(x, a) == {m \in Messages : m.xid = x /\ a # "none"
  => m.class \in {Answer[a], "cofmsg_error"}}

\* The inductive invariant of transactions: all that is on its way belongs to the last request, and what
\* has been told of it is its answer or its timeout.
OneRequest ==
  /\ Carried(net["crofctl"], inbox["crofctl"], CtlOfRequest(asked))
  /\ Carried(net["crofdpt"], inbox["crofdpt"], DptOfRequest(xid, asked))
  /\ \A r \in owed : asked # "none" /\ r.class = Answer[asked]
  /\ RightOutcome

\* Nothing is on its way to an object.
LEMMA NothingUnderway ==
  ASSUME Types, NEW o \in Objects, Underway(o) = 0
  PROVE  net[o] = <<>> /\ \A q \in Queues : inbox[o][q] = <<>>
<1>1. net[o] \in Seq(Messages) /\ \A q \in Queues : inbox[o][q] \in Seq(Messages)
  BY DEF Types
<1>2. Len(net[o]) \in Nat /\ \A q \in Queues : Len(inbox[o][q]) \in Nat
  BY <1>1
<1>3. Queues = {"PKT", "FLOW", "MGMT"}
  BY DEF Queues
<1>4. Len(net[o]) = 0 /\ Len(inbox[o]["PKT"]) = 0 /\ Len(inbox[o]["FLOW"]) = 0 /\
        Len(inbox[o]["MGMT"]) = 0
  <2>1. \A a, b, c, d \in Nat : a + b + c + d = 0 => a = 0 /\ b = 0 /\ c = 0 /\ d = 0
    OBVIOUS
  <2>2. Len(net[o]) + Len(inbox[o]["PKT"]) + Len(inbox[o]["FLOW"]) + Len(inbox[o]["MGMT"]) = 0
    BY DEF Underway
  <2> QED
    BY <1>2, <1>3, <2>1, <2>2
<1>5. \A s \in Seq(Messages) : Len(s) = 0 => s = <<>>
  OBVIOUS
<1> QED
  BY <1>1, <1>3, <1>4, <1>5

\* Empty queues hold nothing wrong.
LEMMA EmptyCarried ==
  ASSUME NEW S, NEW n, NEW b, n = <<>>, \A q \in Queues : b[q] = <<>>
  PROVE  Carried(n, b, S)
  BY DEF Carried, All

\* send_*() begins a new request when nothing of the last one is on its way.
LEMMA SendRequest ==
  ASSUME Types, Forms, OneRequest,
         NEW s \in DptSenders, NEW d \in Payloads(s.class), NEW queued \in BOOLEAN, Send(s, d, queued)
  PROVE  OneRequest'
<1> DEFINE m == Msg(s.class, xid', d)
<1>1. m \in Messages /\ (s.timed <=> s.class \in DOMAIN Answer)
  BY SendForms
<1>2. m.class = s.class
  BY DEF Msg
<1> HIDE DEF m
<1>3. /\ UNCHANGED <<inbox, owed>> /\ Underway("crofctl") = 0 /\ owed = {} /\ Free(xid')
      /\ asked' = (IF s.timed THEN s.class ELSE "none") /\ told' = {}
      /\ net' = net \/ net' = [net EXCEPT !["crofctl"] = Append(@, m)]
  BY DEF Send, MaySend, m
<1>4. "crofctl" \in Objects /\ "crofdpt" \in Objects \ {"crofctl"}
  BY DEF Objects
<1>5. Carried(net'["crofctl"], inbox'["crofctl"], CtlOfRequest(asked'))
  <2>1. net["crofctl"] = <<>> /\ \A q \in Queues : inbox["crofctl"][q] = <<>>
    BY <1>3, <1>4, NothingUnderway
  <2>2. Carried(net["crofctl"], inbox["crofctl"], CtlOfRequest(asked'))
    BY <2>1, EmptyCarried
  <2>3. m \in CtlOfRequest(asked')
    BY <1>1, <1>2, <1>3 DEF CtlOfRequest
  <2>4. All(net'["crofctl"], CtlOfRequest(asked'))
    BY <1>1, <1>3, <1>4, <2>2, <2>3, PutForms DEF Carried
  <2> QED
    BY <1>3, <2>2, <2>4 DEF Carried
<1>6. Carried(net'["crofdpt"], inbox'["crofdpt"], DptOfRequest(xid', asked'))
  <2>1. net'["crofdpt"] = net["crofdpt"]
    BY <1>1, <1>3, <1>4, PutForms
  <2>2. ASSUME NEW a \in Waiting("crofdpt") PROVE a \in DptOfRequest(xid', asked')
    BY <1>3, <2>2, WaitingForms DEF Free, ToDpt, DptOfRequest
  <2>3. Carried(net["crofdpt"], inbox["crofdpt"], DptOfRequest(xid', asked'))
    <3>1. \A i \in DOMAIN net["crofdpt"] : net["crofdpt"][i] \in Waiting("crofdpt")
      BY DEF Waiting
    <3>2. \A q \in Queues : \A i \in DOMAIN inbox["crofdpt"][q] :
            inbox["crofdpt"][q][i] \in Waiting("crofdpt")
      BY DEF Waiting
    <3> QED
      BY <2>2, <3>1, <3>2 DEF Carried, All
  <2> QED
    BY <1>3, <2>1, <2>3
<1> QED
  BY <1>3, <1>5, <1>6 DEF OneRequest, RightOutcome

\* An error can be an answer to every request.
LEMMA ErrorOfRequest ==
  ASSUME NEW x \in 0 .. OwnXid, NEW e \in Exceptions, NEW y, NEW a
  PROVE  ErrorMsg(x, e) \in CtlOfRequest(a) /\ ErrorMsg(x, e) \in DptOfRequest(y, a) /\
         ErrorMsg(x, e) \in Messages
<1>1. ErrorMsg(x, e) \in ToCtl(1)
  BY ErrorForms
<1>2. ErrorMsg(x, e) \in Messages
  BY <1>1 DEF ToCtl
<1>3. "cofmsg_error" \notin DOMAIN Answer
  BY DEF Answer
<1>4. ErrorMsg(x, e).class = "cofmsg_error"
  BY DEF ErrorMsg, Msg
<1> QED
  BY <1>2, <1>3, <1>4 DEF CtlOfRequest, DptOfRequest

\* Parsing keeps what is on its way with the last request.
LEMMA ParseRequest ==
  ASSUME Types, OneRequest, NEW o \in Objects, Parse(o)
  PROVE  OneRequest'
<1>1. UNCHANGED <<xid, owed, asked, told>>
  BY DEF Parse
<1>2. \A x \in 0 .. OwnXid, e \in {"eBadRequestBadStat", "eBadRequestBadType"} :
        ErrorMsg(x, e) \in CtlOfRequest(asked) /\ ErrorMsg(x, e) \in DptOfRequest(xid, asked)
  BY ErrorOfRequest DEF Exceptions
<1>3. /\ Carried(net'["crofctl"], inbox'["crofctl"], CtlOfRequest(asked))
      /\ Carried(net'["crofdpt"], inbox'["crofdpt"], DptOfRequest(xid, asked))
  <2>1. CASE o = "crofctl"
    <3>1. "crofdpt" \in Objects \ {o}
      BY <2>1 DEF Objects
    <3> QED
      BY <1>2, <2>1, <3>1, ParseCarried DEF OneRequest
  <2>2. CASE o = "crofdpt"
    <3>1. "crofctl" \in Objects \ {o}
      BY <2>2 DEF Objects
    <3> QED
      BY <1>2, <2>2, <3>1, ParseCarried DEF OneRequest
  <2> QED
    BY <2>1, <2>2 DEF Objects
<1> QED
  BY <1>1, <1>3 DEF OneRequest, RightOutcome

\* crofctl::handle_recv() answers the request it has received.
LEMMA HandleAtCtlRequest ==
  ASSUME Types, Forms, OneRequest, NEW q \in Queues, HandleAtCtl(q)
  PROVE  OneRequest'
<1> DEFINE m == Head(inbox["crofctl"][q])
<1>1. /\ inbox["crofctl"][q] # <<>> /\ inbox' = [inbox EXCEPT !["crofctl"][q] = Tail(@)]
      /\ \/ net' = net
         \/ \E e \in Raised(m) : net' = [net EXCEPT !["crofdpt"] = Append(@, ErrorMsg(m.xid, e))]
         \/ m.class \in AnsweredAtOnce /\ net' = [net EXCEPT !["crofdpt"] = Append(@, ReplyTo(m))]
      /\ \/ owed' = owed
         \/ m.class \in DOMAIN Answer \ AnsweredAtOnce /\ owed' = owed \cup {ReplyTo(m)}
      /\ UNCHANGED <<ver, xid, asked, told>>
  <2>1. /\ \/ net' = net
           \/ \E e \in Raised(m) : e \in DOMAIN Caught /\ ver \in DOMAIN Caught[e]
                 /\ net' = [net EXCEPT !["crofdpt"] = Append(@, ErrorMsg(m.xid, e))]
           \/ m.class \in AnsweredAtOnce /\ net' = [net EXCEPT !["crofdpt"] = Append(@, ReplyTo(m))]
    BY CtlEffect
  <2>2. /\ inbox["crofctl"][q] # <<>> /\ inbox' = [inbox EXCEPT !["crofctl"][q] = Tail(@)]
        /\ \/ owed' = owed
           \/ m.class \in DOMAIN Answer \ AnsweredAtOnce /\ owed' = owed \cup {ReplyTo(m)}
        /\ UNCHANGED <<ver, xid, asked, told>>
    BY CtlEffect
  <2> HIDE DEF m
  <2> QED
    BY <2>1, <2>2
<1> HIDE DEF m
<1>2. "crofctl" \in Objects \ {"crofdpt"} /\ "crofdpt" \in Objects
  BY DEF Objects
<1>3. /\ \A p \in Objects, r \in Queues : \A S : All(inbox[p][r], S) => All(inbox'[p][r], S)
      /\ \A S : All(inbox["crofctl"][q], S) => m \in S
  BY <1>1, <1>2, TakeForms DEF m
<1>4. m \in ToCtl(ver) /\ m \in CtlOfRequest(asked)
  BY <1>3 DEF Forms, OneRequest, Carried
<1>5. m.class \in DOMAIN Answer => asked # "none" /\ ReplyTo(m).class = Answer[asked] /\
        ReplyTo(m) \in Messages
  <2>1. "none" \notin DOMAIN Answer
    BY DEF Answer
  <2>2. ReplyTo(m).class = Answer[m.class]
    BY DEF ReplyTo, Msg
  <2>3. m.class \in DOMAIN Answer => ReplyTo(m) \in Messages
    BY <1>4, ReplyForms DEF ToDpt, Replies
  <2> QED
    BY <1>4, <2>1, <2>2, <2>3 DEF CtlOfRequest
<1>6. AnsweredAtOnce \subseteq DOMAIN Answer
  BY DEF AnsweredAtOnce, Answer
<1>7. \/ net' = net
      \/ \E a \in Messages : a \in DptOfRequest(xid, asked) /\
           net' = [net EXCEPT !["crofdpt"] = Append(@, a)]
  <2>1. \A e \in Raised(m) : ErrorMsg(m.xid, e) \in DptOfRequest(xid, asked) /\
          ErrorMsg(m.xid, e) \in Messages
    <3>1. m.xid \in 0 .. OwnXid
      BY <1>4 DEF ToCtl, Messages
    <3> QED
      BY <3>1, RaisedTypes, ErrorOfRequest
  <2>2. m.class \in AnsweredAtOnce => ReplyTo(m) \in DptOfRequest(xid, asked) /\ ReplyTo(m) \in Messages
    BY <1>5, <1>6 DEF DptOfRequest
  <2> QED
    BY <1>1, <2>1, <2>2
<1>8. net'["crofctl"] = net["crofctl"] /\ All(net'["crofdpt"], DptOfRequest(xid, asked))
  <2>1. All(net["crofdpt"], DptOfRequest(xid, asked))
    BY DEF OneRequest, Carried
  <2> QED
    BY <1>2, <1>7, <2>1, PutForms
<1>9. /\ Carried(net'["crofctl"], inbox'["crofctl"], CtlOfRequest(asked))
      /\ Carried(net'["crofdpt"], inbox'["crofdpt"], DptOfRequest(xid, asked))
  BY <1>2, <1>3, <1>8 DEF OneRequest, Carried
<1>10. \A r \in owed' : asked # "none" /\ r.class = Answer[asked]
  BY <1>1, <1>5 DEF OneRequest
<1> QED
  BY <1>1, <1>9, <1>10 DEF OneRequest, RightOutcome

\* A message queued for crofdpt that the last request can get.
LEMMA QueueRequest ==
  ASSUME Types, OneRequest, NEW a \in DptOfRequest(xid, asked),
         net' = [net EXCEPT !["crofdpt"] = Append(@, a)],
         owed' \subseteq owed, UNCHANGED <<xid, inbox, asked, told>>
  PROVE  OneRequest'
<1>1. a \in Messages
  BY DEF DptOfRequest
<1>2. "crofctl" \in Objects \ {"crofdpt"} /\ "crofdpt" \in Objects
  BY DEF Objects
<1>3. All(net["crofdpt"], DptOfRequest(xid, asked))
  BY DEF OneRequest, Carried
<1>4. net'["crofctl"] = net["crofctl"] /\ All(net'["crofdpt"], DptOfRequest(xid, asked))
  BY <1>1, <1>2, <1>3, PutForms
<1>5. /\ Carried(net'["crofctl"], inbox'["crofctl"], CtlOfRequest(asked))
      /\ Carried(net'["crofdpt"], inbox'["crofdpt"], DptOfRequest(xid, asked))
  BY <1>4 DEF OneRequest, Carried
<1> QED
  BY <1>5 DEF OneRequest, RightOutcome

\* The application answers the request that it owes an answer.
LEMMA ReplyRequest ==
  ASSUME Types, OneRequest, NEW r \in owed, Reply(r)
  PROVE  OneRequest'
<1>1. /\ owed' = owed \ {r} /\ net' = [net EXCEPT !["crofdpt"] = Append(@, Answering(r))]
      /\ UNCHANGED <<xid, inbox, asked, told>>
  BY ReplyEffect
<1>2. Answering(r) \in Messages /\ Answering(r).class = Answer[asked]
  BY AnsweringForms DEF ToDpt, OneRequest
<1>3. Answering(r) \in DptOfRequest(xid, asked)
  BY <1>2 DEF DptOfRequest
<1> QED
  BY <1>1, <1>3, QueueRequest

\* Where the transaction ids of both sides do not coincide, no notification is taken for an answer.
LEMMA NotifyRequest ==
  ASSUME ~SharedXids, Types, OneRequest, NEW c, NEW p, NEW x \in NotifyXids, Notify(c, x) \/
         PortEvent(p, x)
  PROVE  OneRequest'
<1>1. x = OwnXid /\ xid # OwnXid
  BY DEF NotifyXids, Types, OwnXid
<1>2. UNCHANGED <<xid, inbox, owed, asked, told>>
  BY DEF Notify, PortEvent
<1>3. \/ net' = net
      \/ \E a \in Messages : a.xid = x /\ net' = [net EXCEPT !["crofdpt"] = Append(@, a)]
  <2>1. CASE Notify(c, x)
    <3>1. /\ c \in {"cofmsg_packet_in", "cofmsg_flow_removed", "cofmsg_experimenter"}
          /\ net' = [net EXCEPT !["crofdpt"] = Append(@, Msg(c, x, <<>>))]
      BY <2>1 DEF Notify
    <3>2. Msg(c, x, <<>>) \in Messages
      BY <3>1, NotifyForms DEF ToDpt
    <3>3. Msg(c, x, <<>>).xid = x
      BY DEF Msg
    <3> QED
      BY <3>1, <3>2, <3>3
  <2>2. CASE PortEvent(p, x)
    <3>1. \/ net' = net
          \/ \E d \in Statuses : net' = [net EXCEPT !["crofdpt"] = Append(@,
               Msg("cofmsg_port_status", x, d))]
      BY <2>2, PortEventEffect
    <3>2. \A d \in Statuses : Msg("cofmsg_port_status", x, d) \in Messages
      BY NotifyForms DEF ToDpt
    <3>3. \A d \in Statuses : Msg("cofmsg_port_status", x, d).xid = x
      BY DEF Msg
    <3> QED
      BY <3>1, <3>2, <3>3
  <2> QED
    BY <2>1, <2>2
<1>4. CASE net' = net
  BY <1>2, <1>4 DEF OneRequest, Carried, RightOutcome
<1>5. CASE \E a \in Messages : a.xid = x /\ net' = [net EXCEPT !["crofdpt"] = Append(@, a)]
  BY <1>1, <1>2, <1>5, QueueRequest DEF DptOfRequest
<1> QED
  BY <1>3, <1>4, <1>5

\* crofdpt::handle_recv() tells of the answer to the last request.
LEMMA HandleAtDptRequest ==
  ASSUME Types, Forms, OneRequest, NEW q \in Queues, HandleAtDpt(q)
  PROVE  OneRequest'
<1> DEFINE m == Head(inbox["crofdpt"][q])
<1>1. /\ inbox["crofdpt"][q] # <<>> /\ inbox' = [inbox EXCEPT !["crofdpt"][q] = Tail(@)]
      /\ \/ told' = told
         \/ m.xid = xid /\ asked # "none" /\ told' = told \cup {<<"answer", m.class>>}
      /\ UNCHANGED <<xid, net, owed, asked>>
  BY DptEffect
<1> HIDE DEF m
<1>2. "crofdpt" \in Objects
  BY DEF Objects
<1>3. /\ \A p \in Objects, r \in Queues : \A S : All(inbox[p][r], S) => All(inbox'[p][r], S)
      /\ \A S : All(inbox["crofdpt"][q], S) => m \in S
  BY <1>1, <1>2, TakeForms DEF m
<1>4. m \in DptOfRequest(xid, asked)
  BY <1>3 DEF OneRequest, Carried
<1>5. \A t \in told' : t[2] = Answer[asked] \/ t = <<"answer", "cofmsg_error">>
  <2>1. m.xid = xid /\ asked # "none" => m.class \in {Answer[asked], "cofmsg_error"}
    BY <1>4 DEF DptOfRequest
  <2> QED
    BY <1>1, <2>1 DEF OneRequest, RightOutcome
<1>6. /\ Carried(net'["crofctl"], inbox'["crofctl"], CtlOfRequest(asked))
      /\ Carried(net'["crofdpt"], inbox'["crofdpt"], DptOfRequest(xid, asked))
  BY <1>1, <1>3 DEF OneRequest, Carried, Objects
<1> QED
  BY <1>1, <1>5, <1>6 DEF OneRequest, RightOutcome

\* The timeout that is told is the one of the last request.
LEMMA TimeoutRequest ==
  ASSUME Types, OneRequest, Timeout
  PROVE  OneRequest'
<1> DEFINE reports == UNION {handle_transaction_timeout(ver, Header(p)) : p \in pending}
<1>1. /\ pending # {} /\ told' \in {told, told \cup {<<"timeout", c>> : c \in reports}}
      /\ UNCHANGED <<xid, net, inbox, owed, asked>>
  BY DEF Timeout
<1>2. pending = {[xid |-> xid, class |-> asked]} /\ asked \in DOMAIN Answer
  BY <1>1 DEF Types
<1>3. reports \subseteq {Answer[asked]}
  <2>1. \A p \in pending : p.class = asked
    BY <1>2
  <2>2. handle_transaction_timeout(ver, Constructor[asked][ver]) \subseteq {Answer[asked]}
    BY <1>2, TimeoutTold, DispatchAssumption DEF Types
  <2>3. \A p \in pending : handle_transaction_timeout(ver, Header(p)) \subseteq {Answer[asked]}
    BY <2>1, <2>2 DEF Header
  <2> QED
    BY <2>3
<1> HIDE DEF reports
<1>4. \A t \in told' : t[2] = Answer[asked] \/ t = <<"answer", "cofmsg_error">>
  BY <1>1, <1>3 DEF OneRequest, RightOutcome
<1> QED
  BY <1>1, <1>4 DEF OneRequest, Carried, RightOutcome

\* With its connection, all that was on its way to an object is gone.
LEMMA ClearRequest ==
  ASSUME Types, OneRequest, NEW o \in Objects, Clear(o)
  PROVE  OneRequest'
<1>1. /\ net' = [p \in Objects |-> <<>>]
      /\ inbox' = [inbox EXCEPT ![o] = [q \in Queues |-> <<>>]]
      /\ UNCHANGED <<xid, owed, asked, told>>
  BY DEF Clear
<1>2. \A S : All(<<>>, S)
  BY DEF All
<1>3. /\ \A p \in Objects : net'[p] = <<>>
      /\ \A p \in Objects, q \in Queues : inbox'[p][q] = inbox[p][q] \/ inbox'[p][q] = <<>>
  BY <1>1 DEF Types
<1>4. /\ Carried(net'["crofctl"], inbox'["crofctl"], CtlOfRequest(asked))
      /\ Carried(net'["crofdpt"], inbox'["crofdpt"], DptOfRequest(xid, asked))
  BY <1>2, <1>3 DEF OneRequest, Carried, Objects
<1> QED
  BY <1>1, <1>4 DEF OneRequest, RightOutcome

\* A demotion and the loss of a connection leave the request alone.
LEMMA OtherRequest ==
  ASSUME OneRequest
  PROVE  /\ Demoted => OneRequest'
         /\ \A o \in Objects : Drop(o) => OneRequest'
         /\ UNCHANGED vars => OneRequest'
  BY DEF Demoted, Drop, vars, OneRequest, Carried, RightOutcome

\* Every step keeps OneRequest, where transaction ids do not coincide.
LEMMA RequestKept ==
  ASSUME ~SharedXids
  PROVE  Types /\ Forms /\ OneRequest /\ [Next]_vars => OneRequest'
<1> SUFFICES ASSUME Types, Forms, OneRequest, [Next]_vars PROVE OneRequest'
  OBVIOUS
<1>1. ASSUME NEW s \in DptSenders, NEW d \in Payloads(s.class), NEW queued \in BOOLEAN,
             Send(s, d, queued) PROVE OneRequest'
  BY <1>1, SendRequest
<1>2. ASSUME NEW o \in Objects, Parse(o) PROVE OneRequest'
  BY <1>2, ParseRequest
<1>3. ASSUME NEW q \in Queues, HandleAtCtl(q) PROVE OneRequest'
  BY <1>3, HandleAtCtlRequest
<1>4. ASSUME NEW q \in Queues, HandleAtDpt(q) PROVE OneRequest'
  BY <1>4, HandleAtDptRequest
<1>5. ASSUME NEW r \in owed, Reply(r) PROVE OneRequest'
  BY <1>5, ReplyRequest
<1>6. ASSUME NEW c, NEW p, NEW x \in NotifyXids, Notify(c, x) \/ PortEvent(p, x) PROVE OneRequest'
  BY <1>6, NotifyRequest
<1>7. ASSUME Timeout PROVE OneRequest'
  BY <1>7, TimeoutRequest
<1>8. ASSUME NEW o \in Objects, Clear(o) PROVE OneRequest'
  BY <1>8, ClearRequest
<1> QED
  BY <1>1, <1>2, <1>3, <1>4, <1>5, <1>6, <1>7, <1>8, OtherRequest DEF Next

\* Nothing is on its way at first.
LEMMA RequestInitially ==
  Init => OneRequest
<1> SUFFICES ASSUME Init PROVE OneRequest
  OBVIOUS
<1>1. \A S : All(<<>>, S)
  BY DEF All
<1>2. \A o \in Objects : net[o] = <<>> /\ \A q \in Queues : inbox[o][q] = <<>>
  BY DEF Init
<1>3. /\ Carried(net["crofctl"], inbox["crofctl"], CtlOfRequest(asked))
      /\ Carried(net["crofdpt"], inbox["crofdpt"], DptOfRequest(xid, asked))
  BY <1>1, <1>2 DEF Carried, Objects
<1> QED
  BY <1>3 DEF Init, OneRequest, RightOutcome

\* handle_recv() of both objects and handle_transaction_timeout() agree on the classes of a transaction: a
\* message meets its own handler, and the application is told of its own request and of no other. Both
\* sides count their transaction ids on their own; with ids that coincide (SharedXids) a notification with
\* the id of a pending request is taken for its answer and the theorem is false.
THEOREM OwnOutcome ==
  ASSUME ~SharedXids
  PROVE  Spec => []RightHandler
<1>1. Init => OneRequest
  BY RequestInitially
<1>2. Types /\ Forms /\ OneRequest /\ [Next]_vars => OneRequest'
  BY RequestKept
<1>3. Types /\ Forms /\ OneRequest => RightHandler
  BY TypesImply, FormsImply DEF OneRequest, RightHandler
<1> QED
  BY <1>1, <1>2, <1>3, Typing, PTL DEF Spec

-----------------------------------------------------------------------------
(* Ports: the copy follows the port *)

\* crofsock creates an object for every message about the ports.
LEMMA AboutParsed ==
  ASSUME NEW v \in {1, 3}, NEW c \in AboutPort
  PROVE  parse_message(v, Constructor[c][v]) # {}
<1> DEFINE h == Constructor[c][v]
<1>1. h.type = TypeOf(c, v)
  BY DEF TypeOf
<1> HIDE DEF h
<1>2. h.type \in {6, 12}
  BY <1>1, TypedClasses DEF Headed, AboutPort, Versions
<1>3. /\ \A n \in {6, 12} : \E L \in DOMAIN parse_of10_message : ofp10_type[L] = n
      /\ \A n \in {6, 12} : \E L \in DOMAIN parse_of12_message : ofp12_type[L] = n
  <2>1. /\ {"OFPT_FEATURES_REPLY", "OFPT_PORT_STATUS"} \subseteq DOMAIN parse_of10_message
        /\ {"OFPT_FEATURES_REPLY", "OFPT_PORT_STATUS"} \subseteq DOMAIN parse_of12_message
    BY DEF parse_of10_message, parse_of12_message
  <2>2. /\ ofp10_type["OFPT_FEATURES_REPLY"] = 6 /\ ofp10_type["OFPT_PORT_STATUS"] = 12
        /\ ofp12_type["OFPT_FEATURES_REPLY"] = 6 /\ ofp12_type["OFPT_PORT_STATUS"] = 12
    BY DEF ofp10_type, ofp12_type
  <2> QED
    BY <2>1, <2>2
<1>4. /\ Case(ofp10_type, parse_of10_message, h.type) # {}
      /\ Case(ofp12_type, parse_of12_message, h.type) # {}
  BY <1>2, <1>3 DEF Case
<1>5. h.type # StatsRequest(v) /\ h.type # StatsReply(v)
  BY <1>2, StatsTypes DEF Versions
<1>6. parse_message(v, h) = Case(ofp_type_of[v],
        ByVersion(v, parse_of10_message, parse_of12_message, parse_of13_message), h.type)
  BY <1>5 DEF parse_message
<1> QED
  BY <1>4, <1>6, VersionTables DEF ByVersion, h

\* With n on the connection and b in the receive queues, the last message about the ports, wherever it is,
\* has the port p of the datapath; without one the copy x has it.
Follows(n, b, x, p) ==
  /\ Silent(b["PKT"]) /\ Silent(b["FLOW"])
  /\ LastAgrees(n, p)
  /\ Silent(n) => LastAgrees(b["MGMT"], p)
  /\ Silent(n) /\ Silent(b["MGMT"]) => Agree(x, p)

\* The inductive invariant of the copied ports.
PortsFollow ==
  ver \in {1, 3} /\ "crofdpt" \notin dropped =>
    /\ Follows(net["crofdpt"], inbox["crofdpt"], ports, port)
    /\ "crofctl" \in dropped => Silent(net["crofdpt"])

\* A modified port is not compared any more.
LEMMA FollowsDown ==
  ASSUME NEW n, NEW b, NEW x, NEW p, Follows(n, b, x, p)
  PROVE  /\ Follows(n, b, "down", p) /\ Follows(n, b, x, "down")
  BY DEF Follows, Agree, LastAgrees

\* A message that is not about the ports is queued.
LEMMA FollowsOther ==
  ASSUME NEW n \in Seq(Messages), NEW b, NEW x, NEW p, NEW m \in Messages, ~About(m), Follows(n, b, x, p)
  PROVE  Follows(Append(n, m), b, x, p) /\ (Silent(n) => Silent(Append(n, m)))
<1>1. /\ Silent(Append(n, m)) <=> Silent(n)
      /\ LastAgrees(n, p) => LastAgrees(Append(n, m), p)
  BY SilentAppend
<1> QED
  BY <1>1 DEF Follows

\* A message that has the port is queued.
LEMMA FollowsAbout ==
  ASSUME NEW n \in Seq(Messages), NEW b, NEW x, NEW p, NEW y, NEW m \in Messages, About(m),
         Agree(m.data[1], y),
         Follows(n, b, x, p)
  PROVE  Follows(Append(n, m), b, x, y)
<1>1. ~Silent(Append(n, m)) /\ LastAgrees(Append(n, m), y)
  BY SilentAppend
<1> QED
  BY <1>1 DEF Follows

\* A message is parsed and put into its receive queue.
LEMMA FollowsParse ==
  ASSUME NEW n \in Seq(Messages), NEW b \in [Queues -> Seq(Messages)], NEW x, NEW p, NEW i \in DOMAIN n,
         NEW k \in Queues,
         \A j \in 1 .. i - 1 : About(n[i]) => ~About(n[j]),
         About(n[i]) => k = "MGMT",
         Follows(n, b, x, p)
  PROVE  /\ Follows(RemoveAt(n, i), [b EXCEPT ![k] = Append(@, n[i])], x, p)
         /\ Silent(n) => Silent(RemoveAt(n, i))
<1> DEFINE m == n[i]
           t == RemoveAt(n, i)
           c == [b EXCEPT ![k] = Append(@, m)]
<1>1. /\ Silent(n) <=> Silent(t) /\ ~About(m)
      /\ LastAgrees(n, p) => LastAgrees(t, p)
      /\ LastAgrees(n, p) /\ Silent(t) /\ About(m) => Agree(m.data[1], p)
  BY SilentRemove
<1>2. m \in Messages
  OBVIOUS
<1>3. /\ c[k] = Append(b[k], m) /\ b[k] \in Seq(Messages)
      /\ \A q \in Queues : q # k => c[q] = b[q]
  OBVIOUS
<1>4. "PKT" \in Queues /\ "FLOW" \in Queues /\ "MGMT" \in Queues
  BY DEF Queues
<1> HIDE DEF m, t, c
<1>5. /\ Silent(Append(b[k], m)) <=> Silent(b[k]) /\ ~About(m)
      /\ LastAgrees(b[k], p) /\ ~About(m) => LastAgrees(Append(b[k], m), p)
      /\ Agree(m.data[1], p) /\ About(m) => LastAgrees(Append(b[k], m), p)
  BY <1>2, <1>3, SilentAppend
<1>6. CASE About(m)
  <2>1. c["PKT"] = b["PKT"] /\ c["FLOW"] = b["FLOW"] /\ c["MGMT"] = Append(b["MGMT"], m) /\ k = "MGMT"
    BY <1>3, <1>4, <1>6 DEF m
  <2> QED
    BY <1>1, <1>5, <1>6, <2>1 DEF Follows, m, t, c
<1>7. CASE ~About(m)
  <2>1. \A q \in Queues : (Silent(c[q]) <=> Silent(b[q])) /\ (LastAgrees(b[q], p) => LastAgrees(c[q], p))
    BY <1>3, <1>5, <1>7
  <2> QED
    BY <1>1, <1>4, <1>7, <2>1 DEF Follows, m, t, c
<1> QED
  BY <1>6, <1>7

\* A message is taken from a receive queue.
LEMMA FollowsTake ==
  ASSUME NEW n, NEW b \in [Queues -> Seq(Messages)], NEW x, NEW p, NEW y, NEW q \in Queues, b[q] # <<>>,
         About(Head(b[q])) => y = Head(b[q]).data[1],
         ~About(Head(b[q])) => y = x,
         Follows(n, b, x, p)
  PROVE  Follows(n, [b EXCEPT ![q] = Tail(@)], y, p)
<1> DEFINE m == Head(b[q])
           c == [b EXCEPT ![q] = Tail(@)]
<1>1. /\ c[q] = Tail(b[q]) /\ b[q] \in Seq(Messages)
      /\ \A r \in Queues : r # q => c[r] = b[r]
  OBVIOUS
<1>2. /\ Silent(b[q]) <=> Silent(Tail(b[q])) /\ ~About(m)
      /\ LastAgrees(b[q], p) => LastAgrees(Tail(b[q]), p)
      /\ LastAgrees(b[q], p) /\ Silent(Tail(b[q])) /\ About(m) => Agree(m.data[1], p)
  BY <1>1, SilentTail
<1>3. Queues = {"PKT", "FLOW", "MGMT"}
  BY DEF Queues
<1>4. (About(m) => y = m.data[1]) /\ (~About(m) => y = x)
  OBVIOUS
<1> HIDE DEF m, c
<1>5. CASE q = "MGMT"
  <2>1. c["PKT"] = b["PKT"] /\ c["FLOW"] = b["FLOW"] /\ c["MGMT"] = Tail(b["MGMT"])
    BY <1>1, <1>3, <1>5
  <2> QED
    BY <1>2, <1>4, <1>5, <2>1 DEF Follows, c
<1>6. CASE q # "MGMT"
  <2>1. Silent(b[q])
    BY <1>3, <1>6 DEF Follows
  <2>2. Silent(c[q]) /\ y = x
    BY <1>1, <1>2, <1>4, <2>1
  <2>3. c["MGMT"] = b["MGMT"] /\ Silent(c["PKT"]) /\ Silent(c["FLOW"])
    BY <1>1, <1>3, <1>6, <2>2 DEF Follows
  <2> QED
    BY <2>2, <2>3 DEF Follows, c
<1> QED
  BY <1>5, <1>6

\* A step that sends crofdpt nothing about the ports.
LEMMA QuietPorts ==
  ASSUME Types, PortsFollow, UNCHANGED <<ver, dropped>>, inbox'["crofdpt"] = inbox["crofdpt"],
         \/ net'["crofdpt"] = net["crofdpt"]
         \/ \E a \in Messages : ~About(a) /\ net'["crofdpt"] = Append(net["crofdpt"], a),
         ports' \in {ports, "down"}, port' \in {port, "down"}
  PROVE  PortsFollow'
<1> SUFFICES ASSUME ver \in {1, 3}, "crofdpt" \notin dropped
             PROVE  /\ Follows(net["crofdpt"], inbox["crofdpt"], ports, port)'
                    /\ ("crofctl" \in dropped => Silent(net["crofdpt"]))'
  BY DEF PortsFollow
<1>1. Follows(net["crofdpt"], inbox["crofdpt"], ports, port) /\
        ("crofctl" \in dropped => Silent(net["crofdpt"]))
  BY DEF PortsFollow
<1>2. net["crofdpt"] \in Seq(Messages)
  BY DEF Types, Objects
<1>3. Follows(net'["crofdpt"], inbox["crofdpt"], ports, port) /\
        ("crofctl" \in dropped => Silent(net'["crofdpt"]))
  BY <1>1, <1>2, FollowsOther
<1>4. Follows(net'["crofdpt"], inbox["crofdpt"], ports', port)
  BY <1>3, FollowsDown
<1>5. Follows(net'["crofdpt"], inbox["crofdpt"], ports', port')
  BY <1>4, FollowsDown
<1> QED
  BY <1>3, <1>5

\* send_*() of crofdpt sends crofdpt nothing.
LEMMA SendPorts ==
  ASSUME Types, Forms, PortsFollow,
         NEW s \in DptSenders, NEW d \in Payloads(s.class), NEW queued \in BOOLEAN, Send(s, d, queued)
  PROVE  PortsFollow'
<1> DEFINE m == Msg(s.class, xid', d)
<1>1. m \in Messages
  BY SendForms
<1> HIDE DEF m
<1>2. /\ UNCHANGED <<ver, dropped, inbox, port>>
      /\ ports' \in {ports, d[1]} /\ (ports' # ports => s.class = "cofmsg_port_mod")
      /\ net' = net \/ net' = [net EXCEPT !["crofctl"] = Append(@, m)]
  BY DEF Send, SnoopPortMod, m
<1>3. ports' \in {ports, "down"}
  BY <1>2 DEF Payloads
<1>4. net'["crofdpt"] = net["crofdpt"]
  BY <1>1, <1>2, PutForms DEF Objects
<1> QED
  BY <1>2, <1>3, <1>4, QuietPorts

\* Errors are not about the ports.
LEMMA NotAboutError ==
  ASSUME NEW x \in 0 .. OwnXid, NEW e \in Exceptions
  PROVE  ErrorMsg(x, e) \in Messages /\ ~About(ErrorMsg(x, e))
  BY ErrorOfRequest DEF ErrorMsg, Msg, About, AboutPort

\* Parsing keeps the messages about the ports in order, as they share their queues.
LEMMA ParsePorts ==
  ASSUME Types, Forms, PortsFollow, NEW o \in Objects, Parse(o)
  PROVE  PortsFollow'
<1>1. UNCHANGED <<ver, port, ports, dropped>>
  BY DEF Parse
<1>2. PICK i \in DOMAIN net[o], p \in Objects \ {o} :
        /\ \A j \in 1 .. i - 1 : txqueue(ver, Header(net[o][j])) # txqueue(ver, Header(net[o][i]))
        /\ net' \in [Objects -> Seq(Messages)] /\ inbox' \in [Objects -> [Queues -> Seq(Messages)]]
        /\ net'[o] = RemoveAt(net[o], i)
        /\ \/ \E e \in {"eBadRequestBadStat", "eBadRequestBadType"} :
                inbox' = inbox /\ net'[p] = Append(net[p], ErrorMsg(net[o][i].xid, e)) /\
                  net[o][i] \notin Known(ver)
           \/ /\ net'[p] = net[p] /\ net[o][i] \in Known(ver)
              /\ inbox' = [inbox EXCEPT ![o][rxqueue(ver, Header(net[o][i]))] = Append(@, net[o][i])]
        /\ pending' = pending \/ pending' = {}
  BY ParseEffect
<1> DEFINE m == net[o][i]
           k == rxqueue(ver, Header(m))
<1>3. net[o] \in Seq(Messages) /\ net[p] \in Seq(Messages) /\ inbox[o] \in [Queues -> Seq(Messages)]
  BY DEF Types
<1>4. m \in Messages /\ m.xid \in 0 .. OwnXid
  <2>1. m \in Messages
    BY <1>3
  <2> QED
    BY <2>1 DEF Messages
<1>5. k \in Queues
  BY QueueType, DispatchAssumption DEF Types
<1>6. CASE o = "crofctl"
  <2>1. p = "crofdpt" /\ "crofdpt" \in Objects
    BY <1>6 DEF Objects
  <2>2. \A e \in {"eBadRequestBadStat", "eBadRequestBadType"} : ErrorMsg(m.xid, e) \in Messages /\
          ~About(ErrorMsg(m.xid, e))
    BY <1>4, NotAboutError DEF Exceptions
  <2>3. \/ net'["crofdpt"] = net["crofdpt"]
        \/ \E a \in Messages : ~About(a) /\ net'["crofdpt"] = Append(net["crofdpt"], a)
    BY <1>2, <2>1, <2>2
  <2> HIDE DEF m, k
  <2>4. inbox'["crofdpt"] = inbox["crofdpt"]
    <3>1. CASE inbox' = inbox
      BY <3>1
    <3>2. CASE inbox' = [inbox EXCEPT !["crofctl"][k] = Append(@, m)]
      BY <2>1, <3>2 DEF Types
    <3> QED
      BY <1>2, <1>6, <3>1, <3>2 DEF m, k
  <2> QED
    BY <1>1, <2>3, <2>4, QuietPorts
<1>7. CASE o = "crofdpt"
  <2> SUFFICES ASSUME ver \in {1, 3}, "crofdpt" \notin dropped
               PROVE  /\ Follows(net'["crofdpt"], inbox'["crofdpt"], ports, port)
                      /\ "crofctl" \in dropped => Silent(net'["crofdpt"])
    BY <1>1 DEF PortsFollow
  <2>1. /\ Follows(net["crofdpt"], inbox["crofdpt"], ports, port)
        /\ "crofctl" \in dropped => Silent(net["crofdpt"])
    BY DEF PortsFollow
  <2>2. \A a \in Messages : About(a) => txqueue(ver, Header(a)) = "MGMT" /\
          rxqueue(ver, Header(a)) = "MGMT" /\ a \in Known(ver)
    BY AboutQueue, AboutParsed DEF About, Header, Known
  <2>3. \A j \in 1 .. i - 1 : About(m) => ~About(net[o][j])
    <3> SUFFICES ASSUME NEW j \in 1 .. i - 1, About(m), About(net[o][j]) PROVE FALSE
      OBVIOUS
    <3>1. net[o][j] \in Messages
      BY <1>3
    <3> QED
      BY <1>2, <1>4, <2>2, <3>1
  <2>4. About(m) => k = "MGMT"
    BY <1>4, <2>2
  <2>5. /\ Follows(RemoveAt(net[o], i), [inbox[o] EXCEPT ![k] = Append(@, m)], ports, port)
        /\ Silent(net[o]) => Silent(RemoveAt(net[o], i))
    BY <1>3, <1>5, <1>7, <2>1, <2>3, <2>4, FollowsParse
  <2>6. CASE m \in Known(ver)
    <3>1. inbox' = [inbox EXCEPT ![o][k] = Append(@, m)]
      BY <1>2, <2>6
    <3> HIDE DEF m, k
    <3>2. inbox'[o] = [inbox[o] EXCEPT ![k] = Append(@, m)]
      BY <3>1 DEF Types
    <3> QED
      BY <1>2, <1>7, <2>1, <2>5, <3>2
  <2>7. CASE m \notin Known(ver)
    <3>1. inbox' = inbox /\ net'[o] = RemoveAt(net[o], i)
      BY <1>2, <2>7
    <3>2. ~About(m)
      BY <1>4, <2>2, <2>7
    <3>3. /\ Silent(net[o]) <=> Silent(RemoveAt(net[o], i))
          /\ LastAgrees(net[o], port) => LastAgrees(RemoveAt(net[o], i), port)
      BY <1>3, <2>3, <3>2, SilentRemove
    <3> QED
      BY <1>7, <2>1, <3>1, <3>3 DEF Follows
  <2> QED
    BY <2>6, <2>7
<1> QED
  BY <1>6, <1>7 DEF Objects

\* crofctl::handle_recv() sends answers and errors, and a port modification changes the port.
LEMMA HandleAtCtlPorts ==
  ASSUME Types, Forms, PortsFollow, NEW q \in Queues, HandleAtCtl(q)
  PROVE  PortsFollow'
<1> DEFINE m == Head(inbox["crofctl"][q])
<1>1. /\ \/ net' = net
         \/ \E e \in Raised(m) : e \in DOMAIN Caught /\ ver \in DOMAIN Caught[e]
               /\ net' = [net EXCEPT !["crofdpt"] = Append(@, ErrorMsg(m.xid, e))]
         \/ m.class \in AnsweredAtOnce /\ net' = [net EXCEPT !["crofdpt"] = Append(@, ReplyTo(m))]
  BY CtlEffect
<1>2. /\ inbox["crofctl"][q] # <<>> /\ inbox' = [inbox EXCEPT !["crofctl"][q] = Tail(@)]
      /\ \/ port' = port
         \/ m.class = "cofmsg_port_mod" /\ port # "absent" /\ port' = m.data[1]
      /\ UNCHANGED <<ver, ports, dropped>>
  BY CtlEffect
<1> HIDE DEF m
<1>3. "crofctl" \in Objects /\ "crofdpt" \in Objects
  BY DEF Objects
<1>4. m \in ToCtl(ver) /\ m.xid \in 0 .. OwnXid
  <2>1. All(inbox["crofctl"][q], ToCtl(ver))
    BY DEF Forms, Carried
  <2>2. m \in ToCtl(ver)
    BY <1>2, <1>3, <2>1, TakeForms DEF m
  <2> QED
    BY <2>2 DEF ToCtl, Messages
<1>5. port' \in {port, "down"}
  BY <1>2, <1>4, CtlContents
<1>6. inbox'["crofdpt"] = inbox["crofdpt"]
  BY <1>2, <1>3 DEF Types
<1>7. \A e \in Raised(m) : ErrorMsg(m.xid, e) \in Messages /\ ~About(ErrorMsg(m.xid, e))
  BY <1>4, RaisedTypes, NotAboutError
<1>8. m.class \in AnsweredAtOnce => ReplyTo(m) \in Messages /\ ~About(ReplyTo(m))
  <2>1. AnsweredAtOnce \subseteq DOMAIN Answer /\ \A c \in AnsweredAtOnce : Answer[c] \notin AboutPort
    BY DEF AnsweredAtOnce, Answer, AboutPort
  <2>2. ReplyTo(m).class = Answer[m.class]
    BY DEF ReplyTo, Msg
  <2>3. m.class \in AnsweredAtOnce => ReplyTo(m) \in Messages
    BY <1>4, <2>1, ReplyForms DEF ToDpt
  <2> QED
    BY <2>1, <2>2, <2>3 DEF About
<1>9. \/ net'["crofdpt"] = net["crofdpt"]
      \/ \E a \in Messages : ~About(a) /\ net'["crofdpt"] = Append(net["crofdpt"], a)
  <2>1. \/ net' = net
        \/ \E a \in Messages : ~About(a) /\ net' = [net EXCEPT !["crofdpt"] = Append(@, a)]
    BY <1>1, <1>7, <1>8
  <2> QED
    BY <1>3, <2>1, PutForms
<1> QED
  BY <1>2, <1>5, <1>6, <1>9, QuietPorts

\* A message with the port it is about is sent to crofdpt.
LEMMA TellPorts ==
  ASSUME Types, PortsFollow, NEW a \in Messages, About(a), a.data[1] = port',
         net' = [net EXCEPT !["crofdpt"] = Append(@, a)], dropped = {}, UNCHANGED <<ver, ports, inbox,
           dropped>>
  PROVE  PortsFollow'
<1>1. net'["crofdpt"] = Append(net["crofdpt"], a) /\ net["crofdpt"] \in Seq(Messages)
  BY PutForms DEF Objects, Types
<1>2. Agree(a.data[1], port')
  BY DEF Agree
<1>3. ASSUME ver \in {1, 3}
      PROVE  Follows(net'["crofdpt"], inbox["crofdpt"], ports, port')
  <2>1. Follows(net["crofdpt"], inbox["crofdpt"], ports, port)
    BY <1>3 DEF PortsFollow
  <2> QED
    BY <1>1, <1>2, <2>1, FollowsAbout
<1> QED
  BY <1>3 DEF PortsFollow

\* A features reply has the port of the datapath at that time.
LEMMA ReplyPorts ==
  ASSUME Types, Forms, PortsFollow, NEW r \in owed, Reply(r)
  PROVE  PortsFollow'
<1>1. /\ net' = [net EXCEPT !["crofdpt"] = Append(@, Answering(r))] /\ dropped = {}
      /\ UNCHANGED <<ver, port, ports, inbox, dropped>>
  BY ReplyEffect
<1>2. Answering(r) \in Messages /\ (r.class = "cofmsg_features_reply" => Answering(r).data = <<port>>)
      /\ Answering(r).class = r.class /\ r.class # "cofmsg_port_status"
  BY AnsweringForms DEF ToDpt
<1>3. CASE About(Answering(r))
  <2>1. Answering(r).data[1] = port'
    BY <1>1, <1>2, <1>3 DEF About, AboutPort
  <2> QED
    BY <1>1, <1>2, <1>3, <2>1, TellPorts
<1>4. CASE ~About(Answering(r))
  <2>1. net'["crofdpt"] = Append(net["crofdpt"], Answering(r))
    BY <1>1, <1>2, PutForms DEF Objects
  <2> QED
    BY <1>1, <1>2, <1>4, <2>1, QuietPorts
<1> QED
  BY <1>3, <1>4

\* The other notifications are not about the ports.
LEMMA NotifyPorts ==
  ASSUME Types, Forms, PortsFollow, NEW c, NEW x \in NotifyXids, Notify(c, x)
  PROVE  PortsFollow'
<1>1. /\ c \in {"cofmsg_packet_in", "cofmsg_flow_removed", "cofmsg_experimenter"}
      /\ net' = [net EXCEPT !["crofdpt"] = Append(@, Msg(c, x, <<>>))]
      /\ UNCHANGED <<ver, port, ports, inbox, dropped>>
  BY DEF Notify
<1>2. Msg(c, x, <<>>) \in Messages
  BY <1>1, NotifyForms DEF ToDpt
<1>3. ~About(Msg(c, x, <<>>))
  BY <1>1 DEF About, AboutPort, Msg
<1>4. net'["crofdpt"] = Append(net["crofdpt"], Msg(c, x, <<>>))
  BY <1>1, <1>2, PutForms DEF Objects
<1> QED
  BY <1>1, <1>2, <1>3, <1>4, QuietPorts

\* A port status has the changed port, or is suppressed: then the port is not compared.
LEMMA PortEventPorts ==
  ASSUME Types, Forms, PortsFollow, NEW p, NEW x \in NotifyXids, PortEvent(p, x)
  PROVE  PortsFollow'
<1>1. /\ port' = p
      /\ \/ net' = net /\ ~Passes("cofmsg_port_status")
         \/ \E d \in Statuses : d[1] = p /\ net' = [net EXCEPT !["crofdpt"] = Append(@,
              Msg("cofmsg_port_status", x, d))]
      /\ dropped = {}
      /\ UNCHANGED <<ver, ports, inbox, dropped>>
  BY PortEventEffect
<1>2. CASE ver \notin {1, 3}
  BY <1>1, <1>2 DEF PortsFollow
<1>3. CASE ver \in {1, 3}
  <2>1. Passes("cofmsg_port_status")
    BY <1>3 DEF Passes
  <2>2. PICK d \in Statuses : d[1] = p /\ net' = [net EXCEPT !["crofdpt"] = Append(@,
          Msg("cofmsg_port_status", x, d))]
    BY <1>1, <2>1
  <2> DEFINE a == Msg("cofmsg_port_status", x, d)
  <2>3. a \in Messages /\ About(a) /\ a.data = d
    <3>1. a \in Messages
      BY NotifyForms DEF ToDpt
    <3> QED
      BY <3>1 DEF About, AboutPort, Msg
  <2> HIDE DEF a
  <2> QED
    BY <1>1, <2>2, <2>3, TellPorts DEF a
<1> QED
  BY <1>2, <1>3

\* crofdpt::handle_recv() copies the port of the message.
LEMMA HandleAtDptPorts ==
  ASSUME Types, Forms, PortsFollow, NEW q \in Queues, HandleAtDpt(q)
  PROVE  PortsFollow'
<1> DEFINE m == Head(inbox["crofdpt"][q])
<1>1. /\ inbox["crofdpt"][q] # <<>> /\ inbox' = [inbox EXCEPT !["crofdpt"][q] = Tail(@)]
      /\ \/ ports' = ports /\ (ver \in {1, 3} => ~About(m))
         \/ ports' = m.data[1] /\ (ver \in {1, 3} => About(m))
      /\ UNCHANGED <<ver, port, net, dropped>>
  BY DptEffect
<1>2. inbox["crofdpt"] \in [Queues -> Seq(Messages)] /\
        inbox'["crofdpt"] = [inbox["crofdpt"] EXCEPT ![q] = Tail(@)]
  BY <1>1 DEF Types, Objects
<1>3. ASSUME ver \in {1, 3}, "crofdpt" \notin dropped
      PROVE  Follows(net["crofdpt"], inbox'["crofdpt"], ports', port) /\
             ("crofctl" \in dropped => Silent(net["crofdpt"]))
  <2>1. /\ Follows(net["crofdpt"], inbox["crofdpt"], ports, port)
        /\ "crofctl" \in dropped => Silent(net["crofdpt"])
    BY <1>3 DEF PortsFollow
  <2>2. (About(m) => ports' = m.data[1]) /\ (~About(m) => ports' = ports)
    BY <1>1, <1>3
  <2>3. Follows(net["crofdpt"], [inbox["crofdpt"] EXCEPT ![q] = Tail(@)], ports', port)
    BY <1>1, <1>2, <2>1, <2>2, FollowsTake
  <2> QED
    BY <1>2, <2>1, <2>3
<1> QED
  BY <1>1, <1>3 DEF PortsFollow

\* The loss of the connection of crofdpt ends the comparison; that of crofctl is the end of messages to
\* crofdpt.
LEMMA DropPorts ==
  ASSUME Types, PortsFollow, NEW o \in Objects, Drop(o)
  PROVE  PortsFollow'
<1>1. /\ dropped = {} /\ dropped' = {o} /\ \A p \in Objects \ {o} : Underway(p) = 0
      /\ UNCHANGED <<ver, port, ports, net, inbox>>
  BY DEF Drop
<1>2. CASE o = "crofdpt"
  BY <1>1, <1>2 DEF PortsFollow
<1>3. CASE o = "crofctl"
  <2>1. net["crofdpt"] = <<>>
    BY <1>1, <1>3, NothingUnderway DEF Objects
  <2>2. Silent(net["crofdpt"])
    BY <2>1 DEF Silent
  <2> QED
    BY <1>1, <2>2 DEF PortsFollow
<1> QED
  BY <1>2, <1>3 DEF Objects

\* Dropping what waits for crofctl changes nothing about the ports.
LEMMA ClearPorts ==
  ASSUME Types, PortsFollow, NEW o \in Objects, Clear(o)
  PROVE  PortsFollow'
<1>1. /\ o \in dropped /\ net' = [p \in Objects |-> <<>>]
      /\ inbox' = [inbox EXCEPT ![o] = [q \in Queues |-> <<>>]]
      /\ UNCHANGED <<ver, port, ports, dropped>>
  BY DEF Clear
<1>2. CASE o = "crofdpt"
  BY <1>1, <1>2 DEF PortsFollow
<1>3. CASE o = "crofctl"
  <2>1. net'["crofdpt"] = <<>> /\ inbox'["crofdpt"] = inbox["crofdpt"]
    BY <1>1, <1>3 DEF Types, Objects
  <2>2. Silent(<<>>) /\ LastAgrees(<<>>, port)
    BY DEF Silent, LastAgrees
  <2> QED
    BY <1>1, <1>3, <2>1, <2>2 DEF PortsFollow, Follows
<1> QED
  BY <1>2, <1>3 DEF Objects

\* Every step keeps PortsFollow.
LEMMA PortsKept ==
  Types /\ Forms /\ PortsFollow /\ [Next]_vars => PortsFollow'
<1> SUFFICES ASSUME Types, Forms, PortsFollow, [Next]_vars PROVE PortsFollow'
  OBVIOUS
<1>1. ASSUME NEW s \in DptSenders, NEW d \in Payloads(s.class), NEW queued \in BOOLEAN,
             Send(s, d, queued) PROVE PortsFollow'
  BY <1>1, SendPorts
<1>2. ASSUME NEW o \in Objects, Parse(o) PROVE PortsFollow'
  BY <1>2, ParsePorts
<1>3. ASSUME NEW q \in Queues, HandleAtCtl(q) PROVE PortsFollow'
  BY <1>3, HandleAtCtlPorts
<1>4. ASSUME NEW q \in Queues, HandleAtDpt(q) PROVE PortsFollow'
  BY <1>4, HandleAtDptPorts
<1>5. ASSUME NEW r \in owed, Reply(r) PROVE PortsFollow'
  BY <1>5, ReplyPorts
<1>6. ASSUME NEW c, NEW x \in NotifyXids, Notify(c, x) PROVE PortsFollow'
  BY <1>6, NotifyPorts
<1>7. ASSUME NEW p, NEW x \in NotifyXids, PortEvent(p, x) PROVE PortsFollow'
  BY <1>7, PortEventPorts
<1>8. ASSUME Demoted \/ Timeout \/ UNCHANGED vars PROVE PortsFollow'
  <2>1. UNCHANGED <<ver, port, ports, net, inbox, dropped>>
    BY <1>8 DEF Demoted, Timeout, vars
  <2> QED
    BY <2>1, QuietPorts
<1>9. ASSUME NEW o \in Objects, Drop(o) PROVE PortsFollow'
  BY <1>9, DropPorts
<1>10. ASSUME NEW o \in Objects, Clear(o) PROVE PortsFollow'
  BY <1>10, ClearPorts
<1> QED
  BY <1>1, <1>2, <1>3, <1>4, <1>5, <1>6, <1>7, <1>8, <1>9, <1>10 DEF Next

\* It holds when the connection has been established.
LEMMA PortsInitially ==
  Init => PortsFollow
<1> SUFFICES ASSUME Init PROVE PortsFollow
  OBVIOUS
<1>1. /\ net["crofdpt"] = <<>> /\ \A q \in Queues : inbox["crofdpt"][q] = <<>>
      /\ port = ports
  BY DEF Init, Objects
<1>2. \A p : Silent(<<>>) /\ LastAgrees(<<>>, p)
  BY DEF Silent, LastAgrees
<1> QED
  BY <1>1, <1>2 DEF PortsFollow, Follows, Agree, Queues

\* It implies PortsTracked: when no message about the ports is left, the copy is the port.
LEMMA PortsSettle ==
  PortsFollow => PortsTracked
<1> SUFFICES ASSUME PortsFollow, ver \in {1, 3}, Settled, "down" \notin {port, ports} PROVE ports = port
  BY DEF PortsTracked
<1>1. /\ Follows(net["crofdpt"], inbox["crofdpt"], ports, port)
  BY DEF PortsFollow, Settled
<1>2. AboutPort \subseteq AboutPorts
  BY DEF AboutPort, AboutPorts
<1>3. Silent(net["crofdpt"]) /\ Silent(inbox["crofdpt"]["MGMT"])
  <2>1. \A m \in Waiting("crofdpt") : ~About(m)
    BY <1>2 DEF Settled, About
  <2>2. \A i \in DOMAIN net["crofdpt"] : net["crofdpt"][i] \in Waiting("crofdpt")
    BY DEF Waiting
  <2>3. \A i \in DOMAIN inbox["crofdpt"]["MGMT"] : inbox["crofdpt"]["MGMT"][i] \in Waiting("crofdpt")
    BY DEF Waiting, Queues
  <2> QED
    BY <2>1, <2>2, <2>3 DEF Silent
<1> QED
  BY <1>1, <1>3 DEF Follows, Agree

\* The copy of the ports that crofdpt keeps is the port of the datapath as soon as every message about the
\* ports has been handled (crofdpt::features_reply_rcvd, crofdpt::port_status_rcvd).
THEOREM PortsCopied ==
  Spec => []PortsTracked
  BY PortsInitially, PortsKept, PortsSettle, Typing, PTL DEF Spec

-----------------------------------------------------------------------------
(* Errors: the numbers of an exception *)

\* The error e goes out with the numbers that the version has for its type and for its code.
RightNumbers(e, v) ==
  LET sent == Caught[e][v] names == ErrorNumbers[v]
  IN /\ TypeName(e) \in DOMAIN names => sent.type = names[TypeName(e)]
     /\ CodeName[e] \in DOMAIN names => sent.code = names[CodeName[e]]

\* The table t gives n the number that f gives it.
From(t, f, n) == n \in DOMAIN f /\ t[n] = f[n]

\* The families of exceptions, the catch clauses, and the numbers that OpenFlow 1.2 and 1.3 share.
Families == {eHello, eBadRequest, eBadAction, eBadInst, eBadMatch, eFlowMod, eGroupMod,
  ePortMod, eTableMod, eQueueOp, eSwitchConfig, eRoleRequest, eMeterMod, eTableFeaturesReq}
Clauses == {catch_bad_request, catch_bad_request_more, catch_switch_config, catch_flow_mod,
  catch_group_mod, catch_group_mod_more, catch_port_mod, catch_table_mod, catch_bad_action,
  catch_bad_action_more, catch_bad_inst, catch_bad_match, catch_bad_match_more,
  catch_role_request, catch_meter_mod, catch_meter_mod_more}
Codes == {ofp_error_type, ofp_hello_failed_code, ofp_bad_request_code, ofp_bad_action_code,
  ofp_bad_instruction_code, ofp_bad_match_code, ofp_flow_mod_failed_code, ofp_group_mod_failed_code,
  ofp_port_mod_failed_code, ofp_table_mod_failed_code, ofp_queue_op_failed_code,
  ofp_switch_config_failed_code, ofp_role_request_failed_code, ofp_meter_mod_failed_code,
  ofp_table_features_failed_code}

\* What tables have together one of them has.
LEMMA Merged ==
  ASSUME NEW S, NEW n \in DOMAIN Together(S)
  PROVE  \E f \in S : From(Together(S), f, n)
<1>1. \E f \in S : n \in DOMAIN f
  BY DEF Together
<1>2. (CHOOSE f \in S : n \in DOMAIN f) \in S /\ n \in DOMAIN (CHOOSE f \in S : n \in DOMAIN f)
  BY <1>1
<1> QED
  BY <1>2 DEF Together, From

\* The exceptions, the errors sent for them and the numbers of a version come from one of their tables.
LEMMA Parts ==
  /\ \A e \in DOMAIN CodeName : \E F \in Families : From(CodeName, F, e)
  /\ \A e \in DOMAIN Caught : \E F \in Clauses : From(Caught, F, e)
  /\ \A v \in Versions : \A n \in DOMAIN ErrorNumbers[v] : \E F \in ErrorTables(v) :
       From(ErrorNumbers[v], F, n)
  BY Merged DEF CodeName, Caught, ErrorNumbers, Families, Clauses

\* No exception belongs to two families.
LEMMA FamiliesApart ==
  /\ \A F, G \in Families : \A e \in DOMAIN F : e \in DOMAIN G => F = G
  /\ \A t, u \in DOMAIN Family : \A e \in Family[t] : e \in Family[u] => t = u
<1>1. \A F, G \in Families : \A e \in DOMAIN F : e \in DOMAIN G => F = G
  BY DEF Families, eHello, eBadRequest, eBadAction, eBadInst, eBadMatch, eFlowMod, eGroupMod,
    ePortMod, eTableMod, eQueueOp, eSwitchConfig, eRoleRequest, eMeterMod, eTableFeaturesReq
<1>2. \A t, u \in DOMAIN Family : \A e \in Family[t] : e \in Family[u] => t = u
  BY DEF Family, eHello, eBadRequest, eBadAction, eBadInst, eBadMatch, eFlowMod, eGroupMod,
    ePortMod, eTableMod, eQueueOp, eSwitchConfig, eRoleRequest, eMeterMod, eTableFeaturesReq
<1> QED
  BY <1>1, <1>2

\* So an exception has the type of its family and the code that its family gives it.
LEMMA FamilyNames ==
  ASSUME NEW F \in Families, NEW t \in DOMAIN Family, Family[t] = DOMAIN F, NEW e \in DOMAIN F
  PROVE  TypeName(e) = t /\ (e \in DOMAIN CodeName => CodeName[e] = F[e])
<1>1. e \in DOMAIN CodeName => CodeName[e] = F[e]
  BY FamiliesApart, Parts DEF From
<1>2. \A u \in DOMAIN Family : e \in Family[u] => u = t
  BY FamiliesApart
<1> QED
  BY <1>1, <1>2 DEF TypeName

\* No code belongs to two enumerations of OpenFlow 1.3.
LEMMA CodesApart ==
  ASSUME NEW F \in Codes, NEW G \in Codes, NEW n \in DOMAIN F, n \in DOMAIN G PROVE F = G
<1> USE DEF Codes, ofp_error_type, ofp_hello_failed_code, ofp_bad_request_code, ofp_bad_action_code,
    ofp_bad_instruction_code, ofp_bad_match_code, ofp_flow_mod_failed_code, ofp_group_mod_failed_code,
    ofp_port_mod_failed_code, ofp_table_mod_failed_code, ofp_queue_op_failed_code,
    ofp_switch_config_failed_code, ofp_role_request_failed_code, ofp_meter_mod_failed_code,
    ofp_table_features_failed_code
<1>1. CASE F = ofp_error_type
  BY <1>1
<1>2. CASE F = ofp_hello_failed_code
  BY <1>2
<1>3. CASE F = ofp_bad_request_code
  BY <1>3
<1>4. CASE F = ofp_bad_action_code
  BY <1>4
<1>5. CASE F = ofp_bad_instruction_code
  BY <1>5
<1>6. CASE F = ofp_bad_match_code
  BY <1>6
<1>7. CASE F = ofp_flow_mod_failed_code
  BY <1>7
<1>8. CASE F = ofp_group_mod_failed_code
  BY <1>8
<1>9. CASE F = ofp_port_mod_failed_code
  BY <1>9
<1>10. CASE F = ofp_table_mod_failed_code
  BY <1>10
<1>11. CASE F = ofp_queue_op_failed_code
  BY <1>11
<1>12. CASE F = ofp_switch_config_failed_code
  BY <1>12
<1>13. CASE F = ofp_role_request_failed_code
  BY <1>13
<1>14. CASE F = ofp_meter_mod_failed_code
  BY <1>14
<1>15. CASE F = ofp_table_features_failed_code
  BY <1>15
<1> QED
  BY <1>1, <1>2, <1>3, <1>4, <1>5, <1>6, <1>7, <1>8, <1>9, <1>10, <1>11, <1>12, <1>13, <1>14, <1>15

\* The two codes that OpenFlow 1.2 has under another name.
Odd == {"OFPBAC_BAD_EXPERIMENTER_TYPE", "OFPBIC_UNSUP_EXP_INST"}

\* A version has, where it has the names of G at all, the numbers of G.
SameNumbers(v, G) == \A n \in DOMAIN G : n \in DOMAIN ErrorNumbers[v] => ErrorNumbers[v][n] = G[n]

\* OpenFlow 1.2 and 1.3 have the same numbers for the names that both know, but for these two.
LEMMA Numbers12 ==
  ASSUME NEW v \in {3, 4}, NEW F \in ErrorTables(v), NEW n \in DOMAIN F, n \notin Odd
  PROVE  \E G \in Codes : From(F, G, n)
<1>1. CASE v = 3
  <2>1. CASE F = ofp12_error_type
    <3>1. From(F, ofp_error_type, n)
      BY <2>1 DEF Odd, From, ofp12_error_type, ofp_error_type
    <3> QED
      BY <3>1 DEF Codes
  <2>2. CASE F = ofp12_hello_failed_code
    <3>1. From(F, ofp_hello_failed_code, n)
      BY <2>2 DEF Odd, From, ofp12_hello_failed_code, ofp_hello_failed_code
    <3> QED
      BY <3>1 DEF Codes
  <2>3. CASE F = ofp12_bad_request_code
    <3>1. From(F, ofp_bad_request_code, n)
      BY <2>3 DEF Odd, From, ofp12_bad_request_code, ofp_bad_request_code
    <3> QED
      BY <3>1 DEF Codes
  <2>4. CASE F = ofp12_bad_action_code
    <3>1. From(F, ofp_bad_action_code, n)
      BY <2>4 DEF Odd, From, ofp12_bad_action_code, ofp_bad_action_code
    <3> QED
      BY <3>1 DEF Codes
  <2>5. CASE F = ofp12_bad_instruction_code
    <3>1. From(F, ofp_bad_instruction_code, n)
      BY <2>5 DEF Odd, From, ofp12_bad_instruction_code, ofp_bad_instruction_code
    <3> QED
      BY <3>1 DEF Codes
  <2>6. CASE F = ofp12_bad_match_code
    <3>1. From(F, ofp_bad_match_code, n)
      BY <2>6 DEF Odd, From, ofp12_bad_match_code, ofp_bad_match_code
    <3> QED
      BY <3>1 DEF Codes
  <2>7. CASE F = ofp12_flow_mod_failed_code
    <3>1. From(F, ofp_flow_mod_failed_code, n)
      BY <2>7 DEF Odd, From, ofp12_flow_mod_failed_code, ofp_flow_mod_failed_code
    <3> QED
      BY <3>1 DEF Codes
  <2>8. CASE F = ofp12_group_mod_failed_code
    <3>1. From(F, ofp_group_mod_failed_code, n)
      BY <2>8 DEF Odd, From, ofp12_group_mod_failed_code, ofp_group_mod_failed_code
    <3> QED
      BY <3>1 DEF Codes
  <2>9. CASE F = ofp12_port_mod_failed_code
    <3>1. From(F, ofp_port_mod_failed_code, n)
      BY <2>9 DEF Odd, From, ofp12_port_mod_failed_code, ofp_port_mod_failed_code
    <3> QED
      BY <3>1 DEF Codes
  <2>10. CASE F = ofp12_table_mod_failed_code
    <3>1. From(F, ofp_table_mod_failed_code, n)
      BY <2>10 DEF Odd, From, ofp12_table_mod_failed_code, ofp_table_mod_failed_code
    <3> QED
      BY <3>1 DEF Codes
  <2>11. CASE F = ofp12_queue_op_failed_code
    <3>1. From(F, ofp_queue_op_failed_code, n)
      BY <2>11 DEF Odd, From, ofp12_queue_op_failed_code, ofp_queue_op_failed_code
    <3> QED
      BY <3>1 DEF Codes
  <2>12. CASE F = ofp12_switch_config_failed_code
    <3>1. From(F, ofp_switch_config_failed_code, n)
      BY <2>12 DEF Odd, From, ofp12_switch_config_failed_code, ofp_switch_config_failed_code
    <3> QED
      BY <3>1 DEF Codes
  <2>13. CASE F = ofp12_role_request_failed_code
    <3>1. From(F, ofp_role_request_failed_code, n)
      BY <2>13 DEF Odd, From, ofp12_role_request_failed_code, ofp_role_request_failed_code
    <3> QED
      BY <3>1 DEF Codes
  <2> QED
    BY <1>1, <2>1, <2>2, <2>3, <2>4, <2>5, <2>6, <2>7, <2>8, <2>9, <2>10, <2>11, <2>12, <2>13
       DEF ErrorTables
<1>2. CASE v = 4
  <2>1. ErrorTables(4) = Codes
    BY DEF ErrorTables, Codes, ofp_error_type, ofp_hello_failed_code, ofp_bad_request_code,
      ofp_bad_action_code, ofp_bad_instruction_code, ofp_bad_match_code,
      ofp_flow_mod_failed_code, ofp_group_mod_failed_code, ofp_port_mod_failed_code,
      ofp_table_mod_failed_code, ofp_queue_op_failed_code, ofp_switch_config_failed_code,
      ofp_role_request_failed_code, ofp_meter_mod_failed_code, ofp_table_features_failed_code,
      ofp13_error_type, ofp13_hello_failed_code, ofp13_bad_request_code, ofp13_bad_action_code,
      ofp13_bad_instruction_code, ofp13_bad_match_code, ofp13_flow_mod_failed_code,
      ofp13_group_mod_failed_code, ofp13_port_mod_failed_code, ofp13_table_mod_failed_code,
      ofp13_queue_op_failed_code, ofp13_switch_config_failed_code,
      ofp13_role_request_failed_code, ofp13_meter_mod_failed_code,
      ofp13_table_features_failed_code
  <2> QED
    BY <1>2, <2>1 DEF From
<1> QED
  BY <1>1, <1>2

\* The error classes do not use them.
LEMMA NoOdd ==
  ASSUME NEW G \in Codes PROVE DOMAIN G \cap Odd = {}
  BY DEF Odd, Codes, ofp_error_type, ofp_hello_failed_code, ofp_bad_request_code, ofp_bad_action_code,
    ofp_bad_instruction_code, ofp_bad_match_code, ofp_flow_mod_failed_code, ofp_group_mod_failed_code,
    ofp_port_mod_failed_code, ofp_table_mod_failed_code, ofp_queue_op_failed_code,
    ofp_switch_config_failed_code, ofp_role_request_failed_code, ofp_meter_mod_failed_code,
    ofp_table_features_failed_code

\* So the numbers that the error classes use are those of OpenFlow 1.2 and 1.3 ...
LEMMA Standard ==
  ASSUME NEW v \in {3, 4}, NEW G \in Codes PROVE SameNumbers(v, G)
<1> SUFFICES ASSUME NEW n \in DOMAIN G, n \in DOMAIN ErrorNumbers[v] PROVE ErrorNumbers[v][n] = G[n]
  BY DEF SameNumbers
<1>1. PICK F \in ErrorTables(v) : From(ErrorNumbers[v], F, n)
  BY Parts DEF Versions
<1>2. n \notin Odd
  BY NoOdd
<1>3. PICK H \in Codes : From(F, H, n)
  BY <1>1, <1>2, Numbers12 DEF From
<1>4. H = G
  BY <1>3, CodesApart DEF From
<1> QED
  BY <1>1, <1>3, <1>4 DEF From

\* ... and, for bad requests and bad actions, of 1.0; the other error classes have numbers of their own
\* for 1.0.
LEMMA Standard10 ==
  /\ SameNumbers(1, ofp_bad_request_code) /\ SameNumbers(1, ofp_bad_action_code)
  /\ \A n \in DOMAIN ofp_flow_mod_failed_code \cap DOMAIN ErrorNumbers[1] :
       From(ErrorNumbers[1], ofp10_flow_mod_failed_code, n)
  /\ \A t \in {"OFPET_BAD_REQUEST", "OFPET_BAD_ACTION", "OFPET_FLOW_MOD_FAILED"} :
       t \in DOMAIN ErrorNumbers[1] => From(ErrorNumbers[1], ofp10_error_type, t)
<1> USE DEF From, ofp10_error_type, ofp10_hello_failed_code, ofp10_bad_request_code,
    ofp10_bad_action_code, ofp10_flow_mod_failed_code, ofp10_port_mod_failed_code,
      ofp10_queue_op_failed_code
<1>1. \A F \in ErrorTables(1) : \A n \in DOMAIN F : n \in DOMAIN ofp_bad_request_code
        => F[n] = ofp_bad_request_code[n]
  BY DEF ErrorTables, ofp_bad_request_code
<1>2. \A F \in ErrorTables(1) : \A n \in DOMAIN F : n \in DOMAIN ofp_bad_action_code
        => F[n] = ofp_bad_action_code[n]
  BY DEF ErrorTables, ofp_bad_action_code
<1>3. \A F \in ErrorTables(1) : \A n \in DOMAIN F : n \in DOMAIN ofp_flow_mod_failed_code
        => From(F, ofp10_flow_mod_failed_code, n)
  BY DEF ErrorTables, ofp_flow_mod_failed_code
<1>4. \A F \in ErrorTables(1) : \A t \in {"OFPET_BAD_REQUEST", "OFPET_BAD_ACTION",
        "OFPET_FLOW_MOD_FAILED"} :
        t \in DOMAIN F => From(F, ofp10_error_type, t)
  BY DEF ErrorTables
<1> HIDE DEF ofp10_error_type, ofp10_hello_failed_code, ofp10_bad_request_code,
    ofp10_bad_action_code, ofp10_flow_mod_failed_code, ofp10_port_mod_failed_code,
      ofp10_queue_op_failed_code
<1>5. \A n \in DOMAIN ErrorNumbers[1] : \E F \in ErrorTables(1) : From(ErrorNumbers[1], F, n)
  BY Parts DEF Versions
<1> QED
  BY <1>1, <1>2, <1>3, <1>4, <1>5 DEF SameNumbers

\* The exceptions that are not caught under their own name.
OtherNames == {"eBadVersion", "eBadActionBadExperimenterType", "eRoleRequestUnsupported"}

\* A catch clause sends, for the exceptions of the family F, the type t and the code they are named for,
\* in one of the sets of versions vss.
ByName(clause, F, t, codes, vss) ==
  \A e \in DOMAIN clause \ OtherNames :
    /\ e \in DOMAIN F /\ F[e] \in DOMAIN codes
    /\ \E vs \in vss : clause[e] = Error(vs, ofp_error_type[t], codes[F[e]])

\* The numbers that t and codes have are those of the version.
NumbersOf(v, t, codes) ==
  /\ SameNumbers(v, codes)
  /\ t \in DOMAIN ErrorNumbers[v] => ErrorNumbers[v][t] = ofp_error_type[t]

\* An error that is sent by name has the numbers of its version.
LEMMA NamedRight ==
  ASSUME NEW clause, NEW F \in Families, NEW t \in DOMAIN Family, NEW codes, NEW vss,
         Family[t] = DOMAIN F, ByName(clause, F, t, codes, vss), \A vs \in vss : \A w \in vs :
           NumbersOf(w, t, codes),
         NEW e \in DOMAIN CodeName, From(Caught, clause, e), e \notin OtherNames,
           NEW v \in DOMAIN Caught[e]
  PROVE  RightNumbers(e, v)
<1>1. e \in DOMAIN F /\ F[e] \in DOMAIN codes
  BY DEF ByName, From
<1>2. PICK vs \in vss : Caught[e] = Error(vs, ofp_error_type[t], codes[F[e]])
  BY DEF ByName, From
<1>3. v \in vs /\ Caught[e][v] = [type |-> ofp_error_type[t], code |-> codes[F[e]]]
  BY <1>2 DEF Error
<1>4. TypeName(e) = t /\ CodeName[e] = F[e]
  BY <1>1, FamilyNames
<1>5. NumbersOf(v, t, codes)
  BY <1>3
<1> QED
  BY <1>1, <1>3, <1>4, <1>5 DEF RightNumbers, NumbersOf, SameNumbers

\* Every catch clause but the one for flow modifications sends errors by name.
LEMMA ClausesByName ==
  /\ ByName(catch_bad_request, eBadRequest, "OFPET_BAD_REQUEST", ofp_bad_request_code,
       {Anywhere, From12, From13})
  /\ ByName(catch_bad_request_more, eBadRequest, "OFPET_BAD_REQUEST", ofp_bad_request_code,
       {Anywhere, From12, From13})
  /\ ByName(catch_bad_action, eBadAction, "OFPET_BAD_ACTION", ofp_bad_action_code,
       {Anywhere, From12, From13})
  /\ ByName(catch_bad_action_more, eBadAction, "OFPET_BAD_ACTION", ofp_bad_action_code,
       {Anywhere, From12, From13})
  /\ ByName(catch_switch_config, eSwitchConfig, "OFPET_SWITCH_CONFIG_FAILED",
       ofp_switch_config_failed_code, {From12, From13})
  /\ ByName(catch_group_mod, eGroupMod, "OFPET_GROUP_MOD_FAILED", ofp_group_mod_failed_code,
       {From12, From13})
  /\ ByName(catch_group_mod_more, eGroupMod, "OFPET_GROUP_MOD_FAILED", ofp_group_mod_failed_code,
       {From12, From13})
  /\ ByName(catch_port_mod, ePortMod, "OFPET_PORT_MOD_FAILED", ofp_port_mod_failed_code, {From12, From13})
  /\ ByName(catch_table_mod, eTableMod, "OFPET_TABLE_MOD_FAILED", ofp_table_mod_failed_code,
       {From12, From13})
  /\ ByName(catch_bad_inst, eBadInst, "OFPET_BAD_INSTRUCTION", ofp_bad_instruction_code, {From12, From13})
  /\ ByName(catch_bad_match, eBadMatch, "OFPET_BAD_MATCH", ofp_bad_match_code, {From12, From13})
  /\ ByName(catch_bad_match_more, eBadMatch, "OFPET_BAD_MATCH", ofp_bad_match_code, {From12, From13})
  /\ ByName(catch_role_request, eRoleRequest, "OFPET_ROLE_REQUEST_FAILED", ofp_role_request_failed_code,
       {From12, From13})
  /\ ByName(catch_meter_mod, eMeterMod, "OFPET_METER_MOD_FAILED", ofp_meter_mod_failed_code,
       {From12, From13})
  /\ ByName(catch_meter_mod_more, eMeterMod, "OFPET_METER_MOD_FAILED", ofp_meter_mod_failed_code,
       {From12, From13})
<1>1. ByName(catch_bad_request, eBadRequest, "OFPET_BAD_REQUEST", ofp_bad_request_code,
        {Anywhere, From12, From13})
  BY DEF ByName, OtherNames, catch_bad_request, eBadRequest, cofmsg_error_bad_request,
    ofp_bad_request_code
<1>2. ByName(catch_bad_request_more, eBadRequest, "OFPET_BAD_REQUEST", ofp_bad_request_code,
        {Anywhere, From12, From13})
  BY DEF ByName, OtherNames, catch_bad_request_more, eBadRequest, cofmsg_error_bad_request,
    ofp_bad_request_code
<1>3. ByName(catch_bad_action, eBadAction, "OFPET_BAD_ACTION", ofp_bad_action_code,
        {Anywhere, From12, From13})
  BY DEF ByName, OtherNames, catch_bad_action, eBadAction, cofmsg_error_bad_action,
    cofmsg_error_bad_action_more, ofp_bad_action_code
<1>4. ByName(catch_bad_action_more, eBadAction, "OFPET_BAD_ACTION", ofp_bad_action_code,
        {Anywhere, From12, From13})
  BY DEF ByName, OtherNames, catch_bad_action_more, eBadAction, cofmsg_error_bad_action,
    cofmsg_error_bad_action_more, ofp_bad_action_code
<1>5. ByName(catch_switch_config, eSwitchConfig, "OFPET_SWITCH_CONFIG_FAILED",
        ofp_switch_config_failed_code, {From12, From13})
  BY DEF ByName, OtherNames, catch_switch_config, eSwitchConfig, cofmsg_error_switch_config_failed,
    ofp_switch_config_failed_code
<1>6. ByName(catch_group_mod, eGroupMod, "OFPET_GROUP_MOD_FAILED", ofp_group_mod_failed_code,
        {From12, From13})
  BY DEF ByName, OtherNames, catch_group_mod, eGroupMod, cofmsg_error_group_mod_failed,
    cofmsg_error_group_mod_failed_more, ofp_group_mod_failed_code
<1>7. ByName(catch_group_mod_more, eGroupMod, "OFPET_GROUP_MOD_FAILED", ofp_group_mod_failed_code,
        {From12, From13})
  BY DEF ByName, OtherNames, catch_group_mod_more, eGroupMod, cofmsg_error_group_mod_failed,
    cofmsg_error_group_mod_failed_more, ofp_group_mod_failed_code
<1>8. ByName(catch_port_mod, ePortMod, "OFPET_PORT_MOD_FAILED", ofp_port_mod_failed_code,
        {From12, From13})
  BY DEF ByName, OtherNames, catch_port_mod, ePortMod, cofmsg_error_port_mod_failed,
    ofp_port_mod_failed_code
<1>9. ByName(catch_table_mod, eTableMod, "OFPET_TABLE_MOD_FAILED", ofp_table_mod_failed_code,
        {From12, From13})
  BY DEF ByName, OtherNames, catch_table_mod, eTableMod, cofmsg_error_table_mod_failed,
    ofp_table_mod_failed_code
<1>10. ByName(catch_bad_inst, eBadInst, "OFPET_BAD_INSTRUCTION", ofp_bad_instruction_code,
         {From12, From13})
  BY DEF ByName, OtherNames, catch_bad_inst, eBadInst, cofmsg_error_bad_inst, ofp_bad_instruction_code
<1>11. ByName(catch_bad_match, eBadMatch, "OFPET_BAD_MATCH", ofp_bad_match_code, {From12, From13})
  BY DEF ByName, OtherNames, catch_bad_match, eBadMatch, cofmsg_error_bad_match,
    cofmsg_error_bad_match_more, ofp_bad_match_code
<1>12. ByName(catch_bad_match_more, eBadMatch, "OFPET_BAD_MATCH", ofp_bad_match_code, {From12, From13})
  BY DEF ByName, OtherNames, catch_bad_match_more, eBadMatch, cofmsg_error_bad_match,
    cofmsg_error_bad_match_more, ofp_bad_match_code
<1>13. ByName(catch_role_request, eRoleRequest, "OFPET_ROLE_REQUEST_FAILED",
         ofp_role_request_failed_code, {From12, From13})
  BY DEF ByName, OtherNames, catch_role_request, eRoleRequest, cofmsg_error_role_request_failed,
    ofp_role_request_failed_code
<1>14. ByName(catch_meter_mod, eMeterMod, "OFPET_METER_MOD_FAILED", ofp_meter_mod_failed_code,
         {From12, From13})
  BY DEF ByName, OtherNames, catch_meter_mod, eMeterMod, cofmsg_error_meter_mod,
    cofmsg_error_meter_mod_more, ofp_meter_mod_failed_code
<1>15. ByName(catch_meter_mod_more, eMeterMod, "OFPET_METER_MOD_FAILED", ofp_meter_mod_failed_code,
         {From12, From13})
  BY DEF ByName, OtherNames, catch_meter_mod_more, eMeterMod, cofmsg_error_meter_mod,
    cofmsg_error_meter_mod_more, ofp_meter_mod_failed_code
<1> QED
  BY <1>1, <1>2, <1>3, <1>4, <1>5, <1>6, <1>7, <1>8, <1>9, <1>10, <1>11, <1>12, <1>13, <1>14, <1>15

\* What is not sent in OpenFlow 1.0 has the numbers of 1.2 and 1.3; the other two families have these
\* everywhere.
LEMMA NumbersFit ==
  ASSUME NEW t \in DOMAIN ofp_error_type, NEW codes \in Codes
  PROVE  /\ \A vs \in {From12, From13} : \A v \in vs : NumbersOf(v, t, codes)
         /\ <<t, codes>> \in {<<"OFPET_BAD_REQUEST", ofp_bad_request_code>>, <<"OFPET_BAD_ACTION",
              ofp_bad_action_code>>}
              => \A vs \in {Anywhere, From12, From13} : \A v \in vs : NumbersOf(v, t, codes)
<1>1. \A v \in {3, 4} : NumbersOf(v, t, codes)
  <2>1. ofp_error_type \in Codes
    BY DEF Codes
  <2> QED
    BY <2>1, Standard DEF NumbersOf, SameNumbers
<1>2. <<t, codes>> \in {<<"OFPET_BAD_REQUEST", ofp_bad_request_code>>, <<"OFPET_BAD_ACTION",
        ofp_bad_action_code>>}
        => NumbersOf(1, t, codes)
  <2>1. \A u \in {"OFPET_BAD_REQUEST", "OFPET_BAD_ACTION"} : ofp10_error_type[u] = ofp_error_type[u]
    BY DEF ofp10_error_type, ofp_error_type
  <2> QED
    BY <2>1, Standard10 DEF NumbersOf, From
<1> QED
  BY <1>1, <1>2 DEF Anywhere, From12, From13, Versions

\* Flow modifications: OpenFlow 1.0 has numbers of its own.
LEMMA FlowModRight ==
  ASSUME NEW e \in DOMAIN CodeName, From(Caught, catch_flow_mod, e), NEW v \in DOMAIN Caught[e]
  PROVE  RightNumbers(e, v)
<1> DEFINE n == eFlowMod[e]
<1>1. /\ e \in DOMAIN eFlowMod /\ n \in DOMAIN ofp_flow_mod_failed_code
      /\ \/ \E vs \in {From12, From13} :
              Caught[e] = Error(vs, ofp_error_type.OFPET_FLOW_MOD_FAILED, ofp_flow_mod_failed_code[n])
         \/ \E k : /\ n \in DOMAIN ofp10_flow_mod_failed_code => k = ofp10_flow_mod_failed_code[n]
                   /\ n \in DOMAIN ofp12_flow_mod_failed_code
                   /\ Caught[e] = Error10(Error(Anywhere, ofp12_error_type.OFPET_FLOW_MOD_FAILED,
                        ofp12_flow_mod_failed_code[n]),
                                          ofp10_error_type.OFPET_FLOW_MOD_FAILED, k)
  BY DEF From, catch_flow_mod, eFlowMod, cofmsg_error_flow_mod_failed, cofmsg_error_flow_mod_failed_more,
    cofmsg_error_flow_mod_failed_eperm, ofp_flow_mod_failed_code, ofp12_flow_mod_failed_code,
      ofp10_flow_mod_failed_code
<1>2. TypeName(e) = "OFPET_FLOW_MOD_FAILED" /\ CodeName[e] = n
  <2>1. eFlowMod \in Families /\ "OFPET_FLOW_MOD_FAILED" \in DOMAIN Family /\
          Family["OFPET_FLOW_MOD_FAILED"] = DOMAIN eFlowMod
    BY DEF Families, Family
  <2> QED
    BY <1>1, <2>1, FamilyNames
<1> HIDE DEF n
<1>3. /\ \A u \in {3, 4} : /\ NumbersOf(u, "OFPET_FLOW_MOD_FAILED", ofp_flow_mod_failed_code)
      /\ \A m \in DOMAIN ofp12_flow_mod_failed_code :
           From(ofp12_flow_mod_failed_code, ofp_flow_mod_failed_code, m)
      /\ ofp12_error_type.OFPET_FLOW_MOD_FAILED = ofp_error_type.OFPET_FLOW_MOD_FAILED
  <2>1. "OFPET_FLOW_MOD_FAILED" \in DOMAIN ofp_error_type /\ ofp_flow_mod_failed_code \in Codes
    BY DEF ofp_error_type, Codes
  <2>2. \A m \in DOMAIN ofp12_flow_mod_failed_code :
          From(ofp12_flow_mod_failed_code, ofp_flow_mod_failed_code, m)
    BY DEF From, ofp12_flow_mod_failed_code, ofp_flow_mod_failed_code
  <2>3. ofp12_error_type.OFPET_FLOW_MOD_FAILED = ofp_error_type.OFPET_FLOW_MOD_FAILED
    BY DEF ofp12_error_type, ofp_error_type
  <2> QED
    BY <2>1, <2>2, <2>3, NumbersFit DEF From12
<1>4. CASE \E vs \in {From12, From13} :
             Caught[e] = Error(vs, ofp_error_type.OFPET_FLOW_MOD_FAILED, ofp_flow_mod_failed_code[n])
  <2>1. v \in {3, 4} /\ Caught[e][v] = [type |-> ofp_error_type.OFPET_FLOW_MOD_FAILED,
          code |-> ofp_flow_mod_failed_code[n]]
    BY <1>4 DEF Error, From12, From13
  <2> QED
    BY <1>1, <1>2, <1>3, <2>1 DEF RightNumbers, NumbersOf, SameNumbers
<1>5. ASSUME NEW k, n \in DOMAIN ofp10_flow_mod_failed_code => k = ofp10_flow_mod_failed_code[n],
             n \in DOMAIN ofp12_flow_mod_failed_code,
             Caught[e] = Error10(Error(Anywhere, ofp12_error_type.OFPET_FLOW_MOD_FAILED,
               ofp12_flow_mod_failed_code[n]),
                                 ofp10_error_type.OFPET_FLOW_MOD_FAILED, k)
      PROVE  RightNumbers(e, v)
  <2>1. v \in Versions
    BY <1>5 DEF Error10, Error, Anywhere
  <2>2. CASE v = 1
    <3>1. Caught[e][v] = [type |-> ofp10_error_type.OFPET_FLOW_MOD_FAILED, code |-> k]
      BY <1>5, <2>2 DEF Error10, Error, Anywhere, Versions
    <3> QED
      BY <1>1, <1>2, <1>5, <2>2, <3>1, Standard10 DEF RightNumbers, From
  <2>3. CASE v \in {3, 4}
    <3>1. Caught[e][v] = [type |-> ofp12_error_type.OFPET_FLOW_MOD_FAILED,
            code |-> ofp12_flow_mod_failed_code[n]]
      BY <1>5, <2>3 DEF Error10, Error, Anywhere, Versions
    <3> QED
      BY <1>1, <1>2, <1>3, <1>5, <2>3, <3>1 DEF RightNumbers, NumbersOf, SameNumbers, From
  <2> QED
    BY <2>1, <2>2, <2>3 DEF Versions
<1> QED
  BY <1>1, <1>4, <1>5

\* The two exceptions whose error goes by another name meet no number of that name, or the same number.
LEMMA OtherCodes ==
  /\ \A v \in Versions : "OFPRRFC_UNSUPPORTED" \notin DOMAIN ErrorNumbers[v]
  /\ \A v \in Versions : "OFPBAC_BAD_EXPERIMENTER_TYPE" \in DOMAIN ErrorNumbers[v] =>
       v = 3 /\ ErrorNumbers[v]["OFPBAC_BAD_EXPERIMENTER_TYPE"] = 3
<1>1. \A F \in ErrorTables(1) : DOMAIN F \cap {"OFPRRFC_UNSUPPORTED", "OFPBAC_BAD_EXPERIMENTER_TYPE"} = {}
  BY DEF ErrorTables, ofp10_error_type, ofp10_hello_failed_code, ofp10_bad_request_code,
    ofp10_bad_action_code, ofp10_flow_mod_failed_code, ofp10_port_mod_failed_code,
      ofp10_queue_op_failed_code
<1>2. \A F \in ErrorTables(3) : "OFPRRFC_UNSUPPORTED" \notin DOMAIN F
        /\ ("OFPBAC_BAD_EXPERIMENTER_TYPE" \in DOMAIN F => F["OFPBAC_BAD_EXPERIMENTER_TYPE"] = 3)
  BY DEF ErrorTables, ofp12_error_type, ofp12_hello_failed_code, ofp12_bad_request_code,
     ofp12_bad_action_code,
    ofp12_bad_instruction_code, ofp12_bad_match_code, ofp12_flow_mod_failed_code,
    ofp12_group_mod_failed_code, ofp12_port_mod_failed_code, ofp12_table_mod_failed_code,
    ofp12_queue_op_failed_code, ofp12_switch_config_failed_code, ofp12_role_request_failed_code
<1>3. \A F \in ErrorTables(4) : DOMAIN F \cap {"OFPRRFC_UNSUPPORTED", "OFPBAC_BAD_EXPERIMENTER_TYPE"} = {}
  BY DEF ErrorTables, ofp13_error_type, ofp13_hello_failed_code, ofp13_bad_request_code,
     ofp13_bad_action_code,
    ofp13_bad_instruction_code, ofp13_bad_match_code, ofp13_flow_mod_failed_code,
    ofp13_group_mod_failed_code, ofp13_port_mod_failed_code, ofp13_table_mod_failed_code,
    ofp13_queue_op_failed_code, ofp13_switch_config_failed_code, ofp13_role_request_failed_code,
    ofp13_meter_mod_failed_code, ofp13_table_features_failed_code
<1> QED
  BY <1>1, <1>2, <1>3, Parts DEF From, Versions

LEMMA OtherRight ==
  ASSUME NEW e \in {"eBadActionBadExperimenterType", "eRoleRequestUnsupported"},
         e \in DOMAIN CodeName, e \in DOMAIN Caught, NEW v \in DOMAIN Caught[e]
  PROVE  RightNumbers(e, v)
<1>1. PICK clause \in Clauses : From(Caught, clause, e)
  BY Parts
<1>2. /\ clause = IF e = "eRoleRequestUnsupported" THEN catch_role_request ELSE catch_bad_action
  BY <1>1 DEF From, Clauses, catch_bad_request, catch_bad_request_more, catch_switch_config,
     catch_flow_mod,
    catch_group_mod, catch_group_mod_more, catch_port_mod, catch_table_mod, catch_bad_action,
    catch_bad_action_more, catch_bad_inst, catch_bad_match, catch_bad_match_more,
    catch_role_request, catch_meter_mod, catch_meter_mod_more
<1>3. /\ {eBadAction, eRoleRequest} \subseteq Families
      /\ {"OFPET_BAD_ACTION", "OFPET_ROLE_REQUEST_FAILED"} \subseteq DOMAIN Family
      /\ Family["OFPET_BAD_ACTION"] = DOMAIN eBadAction /\
           Family["OFPET_ROLE_REQUEST_FAILED"] = DOMAIN eRoleRequest
  BY DEF Families, Family
<1>4. /\ {"OFPET_BAD_ACTION", "OFPET_ROLE_REQUEST_FAILED"} \subseteq DOMAIN ofp_error_type
      /\ {ofp_bad_action_code, ofp_role_request_failed_code} \subseteq Codes
      /\ ofp_bad_action_code["OFPBAC_BAD_EXP_TYPE"] = 3
  BY DEF ofp_error_type, Codes, ofp_bad_action_code
<1>5. CASE e = "eBadActionBadExperimenterType"
  <2>1. e \in DOMAIN eBadAction /\ eBadAction[e] = "OFPBAC_BAD_EXPERIMENTER_TYPE"
    BY <1>5 DEF eBadAction
  <2>2. TypeName(e) = "OFPET_BAD_ACTION" /\ CodeName[e] = "OFPBAC_BAD_EXPERIMENTER_TYPE"
    BY <1>3, <2>1, FamilyNames
  <2>3. Caught[e] = Error(Anywhere, ofp_error_type["OFPET_BAD_ACTION"],
          ofp_bad_action_code["OFPBAC_BAD_EXP_TYPE"])
    BY <1>1, <1>2, <1>5 DEF From, catch_bad_action, cofmsg_error_bad_action
  <2>4. v \in Versions /\ Caught[e][v] = [type |-> ofp_error_type["OFPET_BAD_ACTION"], code |-> 3]
    BY <1>4, <2>3 DEF Error, Anywhere
  <2>5. NumbersOf(v, "OFPET_BAD_ACTION", ofp_bad_action_code)
    BY <1>4, <2>4, NumbersFit DEF Anywhere
  <2> QED
    BY <2>2, <2>4, <2>5, OtherCodes DEF RightNumbers, NumbersOf
<1>6. CASE e = "eRoleRequestUnsupported"
  <2>1. e \in DOMAIN eRoleRequest /\ eRoleRequest[e] = "OFPRRFC_UNSUPPORTED"
    BY <1>6 DEF eRoleRequest
  <2>2. TypeName(e) = "OFPET_ROLE_REQUEST_FAILED" /\ CodeName[e] = "OFPRRFC_UNSUPPORTED"
    BY <1>3, <2>1, FamilyNames
  <2>3. Caught[e] = Error(From12, ofp_error_type["OFPET_ROLE_REQUEST_FAILED"],
          ofp_role_request_failed_code["OFPRRFC_UNSUP"])
    BY <1>1, <1>2, <1>6 DEF From, catch_role_request, cofmsg_error_role_request_failed
  <2>4. v \in From12 /\ Caught[e][v].type = ofp_error_type["OFPET_ROLE_REQUEST_FAILED"]
    BY <2>3 DEF Error
  <2>5. NumbersOf(v, "OFPET_ROLE_REQUEST_FAILED", ofp_role_request_failed_code) /\ v \in Versions
    BY <1>4, <2>4, NumbersFit DEF From12, Versions
  <2> QED
    BY <2>2, <2>4, <2>5, OtherCodes DEF RightNumbers, NumbersOf
<1> QED
  BY <1>5, <1>6

\* The family F has the type t, and its errors are sent by name or as one of the exceptions above.
Fits(F, t, codes) ==
  /\ F \in Families /\ t \in DOMAIN Family /\ Family[t] = DOMAIN F
  /\ t \in DOMAIN ofp_error_type /\ codes \in Codes

\* Every error that is sent has the numbers of its version.
LEMMA ErrorTable ==
  ASSUME NEW v \in Versions, NEW e \in DOMAIN CodeName, e \in DOMAIN Caught, v \in DOMAIN Caught[e]
  PROVE  RightNumbers(e, v)
<1>1. PICK clause \in Clauses : From(Caught, clause, e)
  BY Parts
<1>2. e # "eBadVersion"
  <2>1. \A F \in Families : "eBadVersion" \notin DOMAIN F
    BY DEF Families, eHello, eBadRequest, eBadAction, eBadInst, eBadMatch, eFlowMod, eGroupMod,
    ePortMod, eTableMod, eQueueOp, eSwitchConfig, eRoleRequest, eMeterMod, eTableFeaturesReq
  <2> QED
    BY <2>1, Parts DEF From
<1>3. CASE e \in OtherNames
  BY <1>2, <1>3, OtherRight DEF OtherNames
<1>4. CASE clause = catch_flow_mod
  BY <1>1, <1>4, FlowModRight

<1>5. ASSUME NEW F, NEW t, NEW codes, Fits(F, t, codes), ByName(clause, F, t, codes, {From12, From13})
      PROVE  e \in OtherNames \/ RightNumbers(e, v)
  <2>1. \A vs \in {From12, From13} : \A w \in vs : NumbersOf(w, t, codes)
    BY <1>5, NumbersFit DEF Fits
  <2> QED
    BY <1>1, <1>5, <2>1, NamedRight DEF Fits
<1>6. ASSUME NEW F, NEW t, NEW codes, Fits(F, t, codes),
             ByName(clause, F, t, codes, {Anywhere, From12, From13}),
             <<t, codes>> \in {<<"OFPET_BAD_REQUEST", ofp_bad_request_code>>, <<"OFPET_BAD_ACTION",
               ofp_bad_action_code>>}
      PROVE  e \in OtherNames \/ RightNumbers(e, v)
  <2>1. \A vs \in {Anywhere, From12, From13} : \A w \in vs : NumbersOf(w, t, codes)
    BY <1>6, NumbersFit DEF Fits
  <2> QED
    BY <1>1, <1>6, <2>1, NamedRight DEF Fits
<1>7. /\ Fits(eBadRequest, "OFPET_BAD_REQUEST", ofp_bad_request_code)
      /\ Fits(eBadAction, "OFPET_BAD_ACTION", ofp_bad_action_code)
      /\ Fits(eSwitchConfig, "OFPET_SWITCH_CONFIG_FAILED", ofp_switch_config_failed_code)
      /\ Fits(eGroupMod, "OFPET_GROUP_MOD_FAILED", ofp_group_mod_failed_code)
      /\ Fits(ePortMod, "OFPET_PORT_MOD_FAILED", ofp_port_mod_failed_code)
      /\ Fits(eTableMod, "OFPET_TABLE_MOD_FAILED", ofp_table_mod_failed_code)
      /\ Fits(eBadInst, "OFPET_BAD_INSTRUCTION", ofp_bad_instruction_code)
      /\ Fits(eBadMatch, "OFPET_BAD_MATCH", ofp_bad_match_code)
      /\ Fits(eRoleRequest, "OFPET_ROLE_REQUEST_FAILED", ofp_role_request_failed_code)
      /\ Fits(eMeterMod, "OFPET_METER_MOD_FAILED", ofp_meter_mod_failed_code)
  BY DEF Fits, Families, Family, Codes, ofp_error_type
<1>8. CASE clause \in {catch_bad_request, catch_bad_request_more}
  BY <1>3, <1>6, <1>7, <1>8, ClausesByName
<1>9. CASE clause \in {catch_bad_action, catch_bad_action_more}
  BY <1>3, <1>6, <1>7, <1>9, ClausesByName
<1>10. CASE clause \in {catch_switch_config}
  BY <1>3, <1>5, <1>7, <1>10, ClausesByName
<1>11. CASE clause \in {catch_group_mod, catch_group_mod_more}
  BY <1>3, <1>5, <1>7, <1>11, ClausesByName
<1>12. CASE clause \in {catch_port_mod}
  BY <1>3, <1>5, <1>7, <1>12, ClausesByName
<1>13. CASE clause \in {catch_table_mod}
  BY <1>3, <1>5, <1>7, <1>13, ClausesByName
<1>14. CASE clause \in {catch_bad_inst}
  BY <1>3, <1>5, <1>7, <1>14, ClausesByName
<1>15. CASE clause \in {catch_bad_match, catch_bad_match_more}
  BY <1>3, <1>5, <1>7, <1>15, ClausesByName
<1>16. CASE clause \in {catch_role_request}
  BY <1>3, <1>5, <1>7, <1>16, ClausesByName
<1>17. CASE clause \in {catch_meter_mod, catch_meter_mod_more}
  BY <1>3, <1>5, <1>7, <1>17, ClausesByName
<1> QED
  BY <1>3, <1>4, <1>8, <1>9, <1>10, <1>11, <1>12, <1>13, <1>14, <1>15, <1>16, <1>17 DEF Clauses

\* What the library itself throws is caught in every version that has the error.
LEMMA OwnErrors ==
  /\ \A e \in {"eBadRequestBadStat", "eBadRequestBadType", "eBadRequestIsSlave"} :
       e \in DOMAIN CodeName /\ e \in DOMAIN Caught /\ DOMAIN Caught[e] = Versions
  /\ \A e \in {"eRoleRequestBadRole", "eRoleRequestStale"} :
       e \in DOMAIN CodeName /\ e \in DOMAIN Caught /\ DOMAIN Caught[e] = {3, 4}
<1> DEFINE Refused == {"eBadRequestBadStat", "eBadRequestBadType", "eBadRequestIsSlave"}
           RoleRefused == {"eRoleRequestBadRole", "eRoleRequestStale"}
<1>1. Refused \subseteq DOMAIN eBadRequest /\ RoleRefused \subseteq DOMAIN eRoleRequest
  BY DEF eBadRequest, eRoleRequest
<1>2. /\ Refused \subseteq DOMAIN catch_bad_request \cup DOMAIN catch_bad_request_more
      /\ RoleRefused \subseteq DOMAIN catch_role_request
  BY DEF catch_bad_request, catch_bad_request_more, catch_role_request
<1>3. Refused \cup RoleRefused \subseteq DOMAIN CodeName \cap DOMAIN Caught
  BY <1>1, <1>2 DEF CodeName, Caught, Together
<1>4. ASSUME NEW e \in Refused \cup RoleRefused, NEW clause \in Clauses, e \in DOMAIN clause
      PROVE  DOMAIN clause[e] = IF e \in Refused THEN Versions ELSE {3, 4}
  <2>1. clause \in IF e \in Refused THEN {catch_bad_request, catch_bad_request_more}
          ELSE {catch_role_request}
    BY <1>4 DEF Clauses, catch_bad_request, catch_bad_request_more, catch_switch_config, catch_flow_mod,
    catch_group_mod, catch_group_mod_more, catch_port_mod, catch_table_mod, catch_bad_action,
    catch_bad_action_more, catch_bad_inst, catch_bad_match, catch_bad_match_more,
    catch_role_request, catch_meter_mod, catch_meter_mod_more
  <2>2. \E t, c : clause[e] = Error(IF e \in Refused THEN Anywhere ELSE From12, t, c)
    BY <1>4, <2>1 DEF catch_bad_request, catch_bad_request_more, catch_role_request,
      cofmsg_error_bad_request, cofmsg_error_role_request_failed
  <2> QED
    BY <2>2 DEF Error, Anywhere, From12
<1> QED
  BY <1>3, <1>4, Parts DEF From

-----------------------------------------------------------------------------
(* Errors: what is sent for an exception *)

\* What the handlers of the application throw are exceptions of rofl-common that their error class sends
\* in the version at hand. The others leave the handler's message unfreed and the peer without an error.
SendableThrows ==
  \A t \in Throws : t[3] \in DOMAIN CodeName /\ (t[3] \in DOMAIN Caught => t[1] \in DOMAIN Caught[t[3]])

\* The errors that are sent to crofctl, and those that are sent to crofdpt.
CtlErrors == {m \in Messages : m.class = "cofmsg_error"
  => m.data \in {<<>>, <<"eBadRequestBadStat">>, <<"eBadRequestBadType">>}}
DptErrors(v) == {m \in Messages : m.class = "cofmsg_error" => RightNumbers(m.data[1], v)}

\* The inductive invariant of errors: those on the way have the numbers of their version, and no message
\* is lost.
ErrorsFollow ==
  /\ Carried(net["crofctl"], inbox["crofctl"], CtlErrors)
  /\ Carried(net["crofdpt"], inbox["crofdpt"], DptErrors(ver))
  /\ leaked = FALSE

\* There is no role request in OpenFlow 1.0.
LEMMA NoRoleRequest10 ==
  parse_message(1, Constructor["cofmsg_role_request"][1]) = {}
<1> DEFINE h == Constructor["cofmsg_role_request"][1]
<1>1. h.type = TypeOf("cofmsg_role_request", 1)
  BY DEF TypeOf
<1> HIDE DEF h
<1>2. h.type = 24
  BY <1>1, TypedClasses DEF Headed, Versions
<1>3. h.type # StatsRequest(1) /\ h.type # StatsReply(1)
  BY <1>2, StatsTypes DEF Versions
<1>4. \A L \in DOMAIN parse_of10_message : ofp10_type[L] # 24
  BY DEF parse_of10_message, ofp10_type
<1>5. Case(ofp10_type, parse_of10_message, h.type) = {}
  BY <1>2, <1>4 DEF Case
<1> QED
  BY <1>3, <1>5, VersionTables DEF parse_message, ByVersion, h

\* What a handler ends with can be sent as an error.
LEMMA RaisedNumbers ==
  ASSUME SendableThrows, Types, NEW m \in ToCtl(ver), m \in Known(ver), m \in CtlErrors,
         NEW e \in Raised(m)
  PROVE  e \in DOMAIN CodeName /\ (e \in DOMAIN Caught
         => ver \in DOMAIN Caught[e] /\ RightNumbers(e, ver))
<1>1. ver \in Versions
  BY DispatchAssumption DEF Types
<1>2. \/ \E t \in Throws : t[1] = ver /\ e = t[3]
      \/ e = "eBadRequestIsSlave"
      \/ e \in {"eRoleRequestBadRole", "eRoleRequestStale"} /\
           m.data \in {<<"invalid">>, <<"MASTER">>, <<"SLAVE">>}
  BY DEF Raised
<1>3. e \in DOMAIN CodeName /\ (e \in DOMAIN Caught => ver \in DOMAIN Caught[e])
  <2>1. CASE \E t \in Throws : t[1] = ver /\ e = t[3]
    BY <2>1 DEF SendableThrows
  <2>2. CASE e = "eBadRequestIsSlave"
    BY <1>1, <2>2, OwnErrors
  <2>3. CASE e \in {"eRoleRequestBadRole", "eRoleRequestStale"} /\
             m.data \in {<<"invalid">>, <<"MASTER">>, <<"SLAVE">>}
    <3>1. m.class # "cofmsg_error"
      BY <2>3 DEF CtlErrors
    <3>2. m.data \in Payloads(m.class)
      BY <3>1 DEF ToCtl
    <3>3. m.class = "cofmsg_role_request"
      BY <2>3, <3>2 DEF Payloads
    <3>4. ver # 1
      BY <3>3, NoRoleRequest10 DEF Known
    <3> QED
      BY <1>1, <2>3, <3>4, OwnErrors DEF Versions
  <2> QED
    BY <1>2, <2>1, <2>2, <2>3
<1> QED
  BY <1>1, <1>3, ErrorTable

\* The errors that crofsock and the handlers send are of these kinds.
LEMMA ErrorKinds ==
  ASSUME NEW x \in 0 .. OwnXid, NEW e \in Exceptions, NEW v
  PROVE  /\ ErrorMsg(x, e) \in Messages
         /\ e \in {"eBadRequestBadStat", "eBadRequestBadType"} => ErrorMsg(x, e) \in CtlErrors
         /\ RightNumbers(e, v) => ErrorMsg(x, e) \in DptErrors(v)
<1>1. ErrorMsg(x, e) \in Messages
  BY ErrorOfRequest
<1>2. ErrorMsg(x, e).class = "cofmsg_error" /\ ErrorMsg(x, e).data = <<e>>
  BY DEF ErrorMsg, Msg
<1>3. ErrorMsg(x, e).data[1] = e
  BY <1>2
<1>4. e \in {"eBadRequestBadStat", "eBadRequestBadType"} => ErrorMsg(x, e) \in CtlErrors
  BY <1>1, <1>2 DEF CtlErrors
<1>5. RightNumbers(e, v) => ErrorMsg(x, e) \in DptErrors(v)
  BY <1>1, <1>3 DEF DptErrors
<1> QED
  BY <1>1, <1>4, <1>5

\* send_*() of crofdpt sends no error.
LEMMA SendErrors ==
  ASSUME Types, Forms, ErrorsFollow,
         NEW s \in DptSenders, NEW d \in Payloads(s.class), NEW queued \in BOOLEAN, Send(s, d, queued)
  PROVE  ErrorsFollow'
<1> DEFINE m == Msg(s.class, xid', d)
<1>1. m \in ToCtl(ver) /\ m \in Messages
  BY SendForms
<1>2. m.class = "cofmsg_error" => m.data = <<>>
  <2>1. m.class = s.class /\ m.data = d
    BY DEF Msg
  <2>2. s.class = "cofmsg_error" => d = <<>>
    BY DEF Payloads
  <2> QED
    BY <2>1, <2>2
<1> HIDE DEF m
<1>3. /\ UNCHANGED <<ver, inbox, leaked>>
      /\ net' = net \/ net' = [net EXCEPT !["crofctl"] = Append(@, m)]
  BY DEF Send, m
<1>4. "crofctl" \in Objects /\ "crofdpt" \in Objects \ {"crofctl"}
  BY DEF Objects
<1>5. m \in CtlErrors
  BY <1>1, <1>2 DEF CtlErrors
<1>6. /\ All(net["crofctl"], CtlErrors) => All(net'["crofctl"], CtlErrors)
      /\ net'["crofdpt"] = net["crofdpt"]
  BY <1>1, <1>3, <1>4, <1>5, PutForms
<1> QED
  BY <1>3, <1>6 DEF ErrorsFollow, Carried

\* A message that cannot be parsed is answered with one of two errors.
LEMMA ParseErrors ==
  ASSUME Types, ErrorsFollow, NEW o \in Objects, Parse(o)
  PROVE  ErrorsFollow'
<1>1. UNCHANGED <<ver, leaked>> /\ ver \in Versions
  BY DispatchAssumption DEF Parse, Types
<1>2. \A x \in 0 .. OwnXid, e \in {"eBadRequestBadStat", "eBadRequestBadType"} :
        ErrorMsg(x, e) \in CtlErrors /\ ErrorMsg(x, e) \in DptErrors(ver)
  <2>1. \A e \in {"eBadRequestBadStat", "eBadRequestBadType"} : e \in Exceptions /\ RightNumbers(e, ver)
    BY <1>1, OwnErrors, ErrorTable DEF Exceptions
  <2> QED
    BY <2>1, ErrorKinds
<1>3. /\ Carried(net'["crofctl"], inbox'["crofctl"], CtlErrors)
      /\ Carried(net'["crofdpt"], inbox'["crofdpt"], DptErrors(ver))
  <2>1. CASE o = "crofctl"
    <3>1. "crofdpt" \in Objects \ {o}
      BY <2>1 DEF Objects
    <3> QED
      BY <1>2, <2>1, <3>1, ParseCarried DEF ErrorsFollow
  <2>2. CASE o = "crofdpt"
    <3>1. "crofctl" \in Objects \ {o}
      BY <2>2 DEF Objects
    <3> QED
      BY <1>2, <2>2, <3>1, ParseCarried DEF ErrorsFollow
  <2> QED
    BY <2>1, <2>2 DEF Objects
<1> QED
  BY <1>1, <1>3 DEF ErrorsFollow

\* crofctl::handle_recv() catches what a handler throws, sends the error, and deletes the message.
LEMMA HandleAtCtlErrors ==
  ASSUME SendableThrows, Types, Forms, ErrorsFollow, NEW q \in Queues, HandleAtCtl(q)
  PROVE  ErrorsFollow'
<1> DEFINE m == Head(inbox["crofctl"][q])
<1>1. /\ \/ net' = net
         \/ \E e \in Raised(m) : e \in DOMAIN Caught /\ ver \in DOMAIN Caught[e]
               /\ net' = [net EXCEPT !["crofdpt"] = Append(@, ErrorMsg(m.xid, e))]
         \/ m.class \in AnsweredAtOnce /\ net' = [net EXCEPT !["crofdpt"] = Append(@, ReplyTo(m))]
  BY CtlEffect
<1>2. /\ inbox["crofctl"][q] # <<>> /\ inbox' = [inbox EXCEPT !["crofctl"][q] = Tail(@)]
      /\ \/ leaked' = leaked
         \/ \E e \in Raised(m) : leaked' = (leaked \/
              (e \in DOMAIN Caught /\ ver \notin DOMAIN Caught[e]))
      /\ UNCHANGED ver
  BY CtlEffect
<1> HIDE DEF m
<1>3. "crofctl" \in Objects \ {"crofdpt"} /\ "crofdpt" \in Objects
  BY DEF Objects
<1>4. /\ \A p \in Objects, r \in Queues : \A S : All(inbox[p][r], S) => All(inbox'[p][r], S)
      /\ \A S : All(inbox["crofctl"][q], S) => m \in S
  BY <1>2, <1>3, TakeForms DEF m
<1>5. m \in ToCtl(ver) /\ m \in Known(ver) /\ m \in CtlErrors
  BY <1>3, <1>4 DEF Forms, ErrorsFollow, Carried
<1>6. \A e \in Raised(m) : e \in DOMAIN Caught => ver \in DOMAIN Caught[e] /\ RightNumbers(e, ver)
  BY <1>5, RaisedNumbers
<1>7. leaked' = FALSE
  BY <1>2, <1>6 DEF ErrorsFollow
<1>8. \/ net' = net
      \/ \E a \in Messages : a \in DptErrors(ver) /\ net' = [net EXCEPT !["crofdpt"] = Append(@, a)]
  <2>1. \A e \in Raised(m) : e \in DOMAIN Caught
          => ErrorMsg(m.xid, e) \in DptErrors(ver) /\ ErrorMsg(m.xid, e) \in Messages
    <3>1. m.xid \in 0 .. OwnXid
      BY <1>5 DEF ToCtl, Messages
    <3> QED
      BY <1>6, <3>1, RaisedTypes, ErrorKinds
  <2>2. m.class \in AnsweredAtOnce => ReplyTo(m) \in DptErrors(ver) /\ ReplyTo(m) \in Messages
    <3>1. AnsweredAtOnce \subseteq DOMAIN Answer /\ \A c \in AnsweredAtOnce : Answer[c] # "cofmsg_error"
      BY DEF AnsweredAtOnce, Answer
    <3>2. ReplyTo(m).class = Answer[m.class]
      BY DEF ReplyTo, Msg
    <3>3. m.class \in AnsweredAtOnce => ReplyTo(m) \in Messages
      BY <1>5, <3>1, ReplyForms DEF ToDpt
    <3> QED
      BY <3>1, <3>2, <3>3 DEF DptErrors
  <2> QED
    BY <1>1, <2>1, <2>2
<1>9. net'["crofctl"] = net["crofctl"] /\ All(net'["crofdpt"], DptErrors(ver))
  <2>1. All(net["crofdpt"], DptErrors(ver))
    BY DEF ErrorsFollow, Carried
  <2> QED
    BY <1>3, <1>8, <2>1, PutForms
<1>10. /\ Carried(net'["crofctl"], inbox'["crofctl"], CtlErrors)
       /\ Carried(net'["crofdpt"], inbox'["crofdpt"], DptErrors(ver))
  BY <1>3, <1>4, <1>9 DEF ErrorsFollow, Carried
<1> QED
  BY <1>2, <1>7, <1>10 DEF ErrorsFollow

\* A message that is not an error is queued for crofdpt.
LEMMA QueueErrors ==
  ASSUME Types, ErrorsFollow, NEW a \in Messages, a.class # "cofmsg_error",
         net' = net \/ net' = [net EXCEPT !["crofdpt"] = Append(@, a)], UNCHANGED <<ver, inbox, leaked>>
  PROVE  ErrorsFollow'
<1>1. "crofctl" \in Objects \ {"crofdpt"} /\ "crofdpt" \in Objects
  BY DEF Objects
<1>2. a \in DptErrors(ver)
  BY DEF DptErrors
<1>3. /\ net'["crofctl"] = net["crofctl"]
      /\ All(net["crofdpt"], DptErrors(ver)) => All(net'["crofdpt"], DptErrors(ver))
  BY <1>1, <1>2, PutForms
<1> QED
  BY <1>3 DEF ErrorsFollow, Carried

\* Answers and notifications are no errors.
LEMMA ReplyErrors ==
  ASSUME Types, ErrorsFollow, NEW r \in owed, Reply(r)
  PROVE  ErrorsFollow'
<1>1. net' = [net EXCEPT !["crofdpt"] = Append(@, Answering(r))] /\ UNCHANGED <<ver, inbox, leaked>>
  BY ReplyEffect
<1>2. Answering(r) \in Messages /\ Answering(r).class # "cofmsg_error"
  BY AnsweringForms DEF ToDpt
<1> QED
  BY <1>1, <1>2, QueueErrors

LEMMA NotifyErrors ==
  ASSUME Types, ErrorsFollow, NEW c, NEW p, NEW x \in NotifyXids, Notify(c, x) \/ PortEvent(p, x)
  PROVE  ErrorsFollow'
<1>1. UNCHANGED <<ver, inbox, leaked>>
  BY DEF Notify, PortEvent
<1>2. CASE Notify(c, x)
  <2>1. /\ c \in {"cofmsg_packet_in", "cofmsg_flow_removed", "cofmsg_experimenter"}
        /\ net' = [net EXCEPT !["crofdpt"] = Append(@, Msg(c, x, <<>>))]
    BY <1>2 DEF Notify
  <2>2. Msg(c, x, <<>>) \in Messages
    BY <2>1, NotifyForms DEF ToDpt
  <2>3. Msg(c, x, <<>>).class # "cofmsg_error"
    BY <2>1 DEF Msg
  <2> QED
    BY <1>1, <2>1, <2>2, <2>3, QueueErrors
<1>3. CASE PortEvent(p, x)
  <2>1. \/ net' = net
        \/ \E d \in Statuses : net' = [net EXCEPT !["crofdpt"] = Append(@,
             Msg("cofmsg_port_status", x, d))]
    BY <1>3, PortEventEffect
  <2>2. \A d \in Statuses : Msg("cofmsg_port_status", x, d) \in Messages
    BY NotifyForms DEF ToDpt
  <2>3. \A d \in Statuses : Msg("cofmsg_port_status", x, d).class # "cofmsg_error"
    BY DEF Msg
  <2>4. CASE net' = net
    BY <1>1, <2>4 DEF ErrorsFollow, Carried
  <2> QED
    BY <1>1, <2>1, <2>2, <2>3, <2>4, QueueErrors
<1> QED
  BY <1>2, <1>3

\* crofdpt::handle_recv() sends nothing.
LEMMA HandleAtDptErrors ==
  ASSUME Types, Forms, ErrorsFollow, NEW q \in Queues, HandleAtDpt(q)
  PROVE  ErrorsFollow'
<1>1. /\ inbox["crofdpt"][q] # <<>> /\ inbox' = [inbox EXCEPT !["crofdpt"][q] = Tail(@)]
      /\ UNCHANGED <<ver, net, leaked>>
  BY DptEffect
<1>2. \A p \in Objects, r \in Queues : \A S : All(inbox[p][r], S) => All(inbox'[p][r], S)
  BY <1>1, TakeForms DEF Objects
<1> QED
  BY <1>1, <1>2 DEF ErrorsFollow, Carried, Objects

\* With its connection, the errors on their way to an object are gone.
LEMMA ClearErrors ==
  ASSUME Types, ErrorsFollow, NEW o \in Objects, Clear(o)
  PROVE  ErrorsFollow'
<1>1. /\ net' = [p \in Objects |-> <<>>]
      /\ inbox' = [inbox EXCEPT ![o] = [q \in Queues |-> <<>>]]
      /\ UNCHANGED <<ver, leaked>>
  BY DEF Clear
<1>2. \A S : All(<<>>, S)
  BY DEF All
<1>3. /\ \A p \in Objects : net'[p] = <<>>
      /\ \A p \in Objects, q \in Queues : inbox'[p][q] = inbox[p][q] \/ inbox'[p][q] = <<>>
  BY <1>1 DEF Types
<1> QED
  BY <1>1, <1>2, <1>3 DEF ErrorsFollow, Carried, Objects

\* Every step keeps ErrorsFollow.
LEMMA ErrorsKept ==
  ASSUME SendableThrows
  PROVE  Types /\ Forms /\ ErrorsFollow /\ [Next]_vars => ErrorsFollow'
<1> SUFFICES ASSUME Types, Forms, ErrorsFollow, [Next]_vars PROVE ErrorsFollow'
  OBVIOUS
<1>1. ASSUME NEW s \in DptSenders, NEW d \in Payloads(s.class), NEW queued \in BOOLEAN,
             Send(s, d, queued) PROVE ErrorsFollow'
  BY <1>1, SendErrors
<1>2. ASSUME NEW o \in Objects, Parse(o) PROVE ErrorsFollow'
  BY <1>2, ParseErrors
<1>3. ASSUME NEW q \in Queues, HandleAtCtl(q) PROVE ErrorsFollow'
  BY <1>3, HandleAtCtlErrors
<1>4. ASSUME NEW q \in Queues, HandleAtDpt(q) PROVE ErrorsFollow'
  BY <1>4, HandleAtDptErrors
<1>5. ASSUME NEW r \in owed, Reply(r) PROVE ErrorsFollow'
  BY <1>5, ReplyErrors
<1>6. ASSUME NEW c, NEW p, NEW x \in NotifyXids, Notify(c, x) \/ PortEvent(p, x) PROVE ErrorsFollow'
  BY <1>6, NotifyErrors
<1>7. ASSUME Demoted \/ Timeout \/ (\E o \in Objects : Drop(o)) \/ UNCHANGED vars PROVE ErrorsFollow'
  <2>1. UNCHANGED <<ver, net, inbox, leaked>>
    BY <1>7 DEF Demoted, Timeout, Drop, vars
  <2> QED
    BY <2>1 DEF ErrorsFollow, Carried
<1>8. ASSUME NEW o \in Objects, Clear(o) PROVE ErrorsFollow'
  BY <1>8, ClearErrors
<1> QED
  BY <1>1, <1>2, <1>3, <1>4, <1>5, <1>6, <1>7, <1>8 DEF Next

\* No error is on its way at first.
LEMMA ErrorsInitially ==
  Init => ErrorsFollow
<1> SUFFICES ASSUME Init PROVE ErrorsFollow
  OBVIOUS
<1>1. \A S : All(<<>>, S)
  BY DEF All
<1>2. \A o \in Objects : net[o] = <<>> /\ \A q \in Queues : inbox[o][q] = <<>>
  BY DEF Init
<1> QED
  BY <1>1, <1>2 DEF Init, ErrorsFollow, Carried, Objects

\* It implies ErrorsHandled.
LEMMA ErrorsSuffice ==
  Types /\ ErrorsFollow => ErrorsHandled
<1> SUFFICES ASSUME Types, ErrorsFollow PROVE ErrorNamed /\ Reclaimed
  BY DEF ErrorsHandled
<1>1. ASSUME NEW m \in Waiting("crofdpt") PROVE m \in DptErrors(ver)
  <2>1. \/ \E i \in DOMAIN net["crofdpt"] : m = net["crofdpt"][i]
        \/ \E q \in Queues : \E i \in DOMAIN inbox["crofdpt"][q] : m = inbox["crofdpt"][q][i]
    BY <1>1, WaitingIn DEF Objects
  <2> QED
    BY <2>1 DEF ErrorsFollow, Carried, All
<1>2. ErrorNamed
  BY <1>1 DEF ErrorNamed, DptErrors, RightNumbers
<1> QED
  BY <1>2 DEF ErrorsFollow, Reclaimed

\* What a handler of the application throws becomes the error it stands for in the negotiated version, and
\* the message is deleted all the same (the catch clauses of crofctl::handle_recv, the error classes of
\* cofmsg_error.h). It is assumed that the exception is one that its error class sends in that version:
\* where the class refuses, the second exception leaves handle_recv() and the message is not deleted.
THEOREM ErrorsSent ==
  ASSUME SendableThrows
  PROVE  Spec => []ErrorsHandled
<1>1. Init => ErrorsFollow
  BY ErrorsInitially
<1>2. Types /\ Forms /\ ErrorsFollow /\ [Next]_vars => ErrorsFollow'
  BY ErrorsKept
<1>3. Types /\ ErrorsFollow => ErrorsHandled
  BY ErrorsSuffice
<1> QED
  BY <1>1, <1>2, <1>3, Typing, PTL DEF Spec
=============================================================================
