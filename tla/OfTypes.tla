------------------------------ MODULE OfTypes ------------------------------
(* Message types and the switches over them: the type numbers of each OpenFlow version, the type  *)
(* and multipart type every message class writes (its constructor), the class crofsock creates    *)
(* for a type it reads, the case of crofctl and crofdpt it is dispatched to and its queues.       *)
(* A switch is a record from case labels to what the case does; see Case.                         *)
EXTENDS Naturals

(* The versions the switches know: OpenFlow 1.0, 1.2 and 1.3. *)
Versions == {1, 3, 4}

(* What the case of a switch does whose label has the value t: a singleton, or {} for default. *)
Case(enum, cases, t) == {cases[n] : n \in {k \in DOMAIN cases : enum[k] = t}}

(* The message types (openflow_common.h has those of the namespace the constructors use). *)
ofp_type == [OFPT_HELLO |-> 0, OFPT_ERROR |-> 1, OFPT_ECHO_REQUEST |-> 2, OFPT_ECHO_REPLY |-> 3,
  OFPT_EXPERIMENTER |-> 4, OFPT_FEATURES_REQUEST |-> 5, OFPT_FEATURES_REPLY |-> 6,
  OFPT_GET_CONFIG_REQUEST |-> 7, OFPT_GET_CONFIG_REPLY |-> 8, OFPT_SET_CONFIG |-> 9,
  OFPT_PACKET_IN |-> 10, OFPT_FLOW_REMOVED |-> 11, OFPT_PORT_STATUS |-> 12,
  OFPT_PACKET_OUT |-> 13, OFPT_FLOW_MOD |-> 14, OFPT_GROUP_MOD |-> 15, OFPT_PORT_MOD |-> 16,
  OFPT_TABLE_MOD |-> 17, OFPT_MULTIPART_REQUEST |-> 18, OFPT_MULTIPART_REPLY |-> 19,
  OFPT_STATS_REQUEST |-> 18, OFPT_STATS__REPLY |-> 19, OFPT_BARRIER_REQUEST |-> 20,
  OFPT_BARRIER_REPLY |-> 21, OFPT_QUEUE_GET_CONFIG_REQUEST |-> 22,
  OFPT_QUEUE_GET_CONFIG_REPLY |-> 23, OFPT_ROLE_REQUEST |-> 24, OFPT_ROLE_REPLY |-> 25,
  OFPT_GET_ASYNC_REQUEST |-> 26, OFPT_GET_ASYNC_REPLY |-> 27, OFPT_SET_ASYNC |-> 28,
  OFPT_METER_MOD |-> 29]
ofp10_type == [OFPT_HELLO |-> 0, OFPT_ERROR |-> 1, OFPT_ECHO_REQUEST |-> 2,
  OFPT_ECHO_REPLY |-> 3, OFPT_VENDOR |-> 4, OFPT_FEATURES_REQUEST |-> 5,
  OFPT_FEATURES_REPLY |-> 6, OFPT_GET_CONFIG_REQUEST |-> 7, OFPT_GET_CONFIG_REPLY |-> 8,
  OFPT_SET_CONFIG |-> 9, OFPT_PACKET_IN |-> 10, OFPT_FLOW_REMOVED |-> 11,
  OFPT_PORT_STATUS |-> 12, OFPT_PACKET_OUT |-> 13, OFPT_FLOW_MOD |-> 14, OFPT_PORT_MOD |-> 15,
  OFPT_STATS_REQUEST |-> 16, OFPT_STATS_REPLY |-> 17, OFPT_BARRIER_REQUEST |-> 18,
  OFPT_BARRIER_REPLY |-> 19, OFPT_QUEUE_GET_CONFIG_REQUEST |-> 20,
  OFPT_QUEUE_GET_CONFIG_REPLY |-> 21]
ofp12_type == [OFPT_HELLO |-> 0, OFPT_ERROR |-> 1, OFPT_ECHO_REQUEST |-> 2,
  OFPT_ECHO_REPLY |-> 3, OFPT_EXPERIMENTER |-> 4, OFPT_FEATURES_REQUEST |-> 5,
  OFPT_FEATURES_REPLY |-> 6, OFPT_GET_CONFIG_REQUEST |-> 7, OFPT_GET_CONFIG_REPLY |-> 8,
  OFPT_SET_CONFIG |-> 9, OFPT_PACKET_IN |-> 10, OFPT_FLOW_REMOVED |-> 11,
  OFPT_PORT_STATUS |-> 12, OFPT_PACKET_OUT |-> 13, OFPT_FLOW_MOD |-> 14, OFPT_GROUP_MOD |-> 15,
  OFPT_PORT_MOD |-> 16, OFPT_TABLE_MOD |-> 17, OFPT_MULTIPART_REQUEST |-> 18,
  OFPT_MULTIPART_REPLY |-> 19, OFPT_STATS_REQUEST |-> 18, OFPT_STATS_REPLY |-> 19,
  OFPT_BARRIER_REQUEST |-> 20, OFPT_BARRIER_REPLY |-> 21, OFPT_QUEUE_GET_CONFIG_REQUEST |-> 22,
  OFPT_QUEUE_GET_CONFIG_REPLY |-> 23, OFPT_ROLE_REQUEST |-> 24, OFPT_ROLE_REPLY |-> 25,
  OFPT_GET_ASYNC_REQUEST |-> 26, OFPT_GET_ASYNC_REPLY |-> 27, OFPT_SET_ASYNC |-> 28,
  OFPT_METER_MOD |-> 29]
ofp13_type == [OFPT_HELLO |-> 0, OFPT_ERROR |-> 1, OFPT_ECHO_REQUEST |-> 2,
  OFPT_ECHO_REPLY |-> 3, OFPT_EXPERIMENTER |-> 4, OFPT_FEATURES_REQUEST |-> 5,
  OFPT_FEATURES_REPLY |-> 6, OFPT_GET_CONFIG_REQUEST |-> 7, OFPT_GET_CONFIG_REPLY |-> 8,
  OFPT_SET_CONFIG |-> 9, OFPT_PACKET_IN |-> 10, OFPT_FLOW_REMOVED |-> 11,
  OFPT_PORT_STATUS |-> 12, OFPT_PACKET_OUT |-> 13, OFPT_FLOW_MOD |-> 14, OFPT_GROUP_MOD |-> 15,
  OFPT_PORT_MOD |-> 16, OFPT_TABLE_MOD |-> 17, OFPT_MULTIPART_REQUEST |-> 18,
  OFPT_MULTIPART_REPLY |-> 19, OFPT_BARRIER_REQUEST |-> 20, OFPT_BARRIER_REPLY |-> 21,
  OFPT_QUEUE_GET_CONFIG_REQUEST |-> 22, OFPT_QUEUE_GET_CONFIG_REPLY |-> 23,
  OFPT_ROLE_REQUEST |-> 24, OFPT_ROLE_REPLY |-> 25, OFPT_GET_ASYNC_REQUEST |-> 26,
  OFPT_GET_ASYNC_REPLY |-> 27, OFPT_SET_ASYNC |-> 28, OFPT_METER_MOD |-> 29]

(* The statistics and multipart types. *)
ofp_multipart_types == [OFPMP_DESC |-> 0, OFPMP_FLOW |-> 1, OFPMP_AGGREGATE |-> 2,
  OFPMP_TABLE |-> 3, OFPMP_PORT_STATS |-> 4, OFPMP_QUEUE |-> 5, OFPMP_GROUP |-> 6,
  OFPMP_GROUP_DESC |-> 7, OFPMP_GROUP_FEATURES |-> 8, OFPMP_METER |-> 9,
  OFPMP_METER_CONFIG |-> 10, OFPMP_METER_FEATURES |-> 11, OFPMP_TABLE_FEATURES |-> 12,
  OFPMP_PORT_DESC |-> 13, OFPMP_EXPERIMENTER |-> 65535]
ofp10_stats_types == [OFPST_DESC |-> 0, OFPST_FLOW |-> 1, OFPST_AGGREGATE |-> 2,
  OFPST_TABLE |-> 3, OFPST_PORT |-> 4, OFPST_QUEUE |-> 5, OFPST_VENDOR |-> 65535]
ofp12_stats_types == [OFPST_DESC |-> 0, OFPST_FLOW |-> 1, OFPST_AGGREGATE |-> 2,
  OFPST_TABLE |-> 3, OFPST_PORT |-> 4, OFPST_QUEUE |-> 5, OFPST_GROUP |-> 6,
  OFPST_GROUP_DESC |-> 7, OFPST_GROUP_FEATURES |-> 8, OFPST_EXPERIMENTER |-> 65535]
ofp13_multipart_types == [OFPMP_DESC |-> 0, OFPMP_FLOW |-> 1, OFPMP_AGGREGATE |-> 2,
  OFPMP_TABLE |-> 3, OFPMP_PORT_STATS |-> 4, OFPMP_QUEUE |-> 5, OFPMP_GROUP |-> 6,
  OFPMP_GROUP_DESC |-> 7, OFPMP_GROUP_FEATURES |-> 8, OFPMP_METER |-> 9,
  OFPMP_METER_CONFIG |-> 10, OFPMP_METER_FEATURES |-> 11, OFPMP_TABLE_FEATURES |-> 12,
  OFPMP_PORT_DESC |-> 13, OFPMP_EXPERIMENTER |-> 65535]

ofp_type_of == [v \in Versions |->
  CASE v = 1 -> ofp10_type [] v = 3 -> ofp12_type [] v = 4 -> ofp13_type]
ofp_stats_types_of ==
  [v \in Versions |->
    CASE v = 1 -> ofp10_stats_types [] v = 3 -> ofp12_stats_types [] v = 4 -> ofp13_multipart_types]

(* A message that is not one of statistics. *)
NoStats == 70000
(* The constructors: what each class writes into the header, by version. *)
Typed(t) == [v \in Versions |-> [type |-> t, stats |-> NoStats]]
WithStats(msg, s) == [v \in Versions |-> [msg[v] EXCEPT !.stats = s]]
Typed10(msg, t) == [msg EXCEPT ![1].type = t]
Stats10(msg, s) == [msg EXCEPT ![1].stats = s]
cofmsg_barrier_request ==
  Typed10(Typed(ofp12_type.OFPT_BARRIER_REQUEST), ofp10_type.OFPT_BARRIER_REQUEST)
cofmsg_barrier_reply == Typed10(Typed(ofp12_type.OFPT_BARRIER_REPLY), ofp10_type.OFPT_BARRIER_REPLY)
cofmsg_get_config_request == Typed(ofp_type.OFPT_GET_CONFIG_REQUEST)
cofmsg_get_config_reply == Typed(ofp_type.OFPT_GET_CONFIG_REPLY)
cofmsg_set_config == Typed(ofp_type.OFPT_SET_CONFIG)
cofmsg_error == Typed(ofp_type.OFPT_ERROR)
cofmsg_experimenter == Typed(ofp_type.OFPT_EXPERIMENTER)
cofmsg_features_request == Typed(ofp_type.OFPT_FEATURES_REQUEST)
cofmsg_features_reply == Typed(ofp_type.OFPT_FEATURES_REPLY)
cofmsg_flow_removed == Typed(ofp_type.OFPT_FLOW_REMOVED)
cofmsg_group_mod == Typed(ofp12_type.OFPT_GROUP_MOD)
cofmsg_packet_in == Typed(ofp_type.OFPT_PACKET_IN)
cofmsg_packet_out == Typed(ofp_type.OFPT_PACKET_OUT)
cofmsg_port_status == Typed(ofp_type.OFPT_PORT_STATUS)
cofmsg_get_async_config_request == Typed(ofp_type.OFPT_GET_ASYNC_REQUEST)
cofmsg_get_async_config_reply == Typed(ofp_type.OFPT_GET_ASYNC_REPLY)
cofmsg_set_async_config == Typed(ofp_type.OFPT_SET_ASYNC)
cofmsg_flow_mod == Typed(ofp_type.OFPT_FLOW_MOD)
cofmsg_meter_mod == Typed(ofp_type.OFPT_METER_MOD)
cofmsg_port_mod == Typed10(Typed(ofp_type.OFPT_PORT_MOD), ofp10_type.OFPT_PORT_MOD)
cofmsg_queue_get_config_request ==
  Typed10(Typed(ofp_type.OFPT_QUEUE_GET_CONFIG_REQUEST), ofp10_type.OFPT_QUEUE_GET_CONFIG_REQUEST)
cofmsg_queue_get_config_reply ==
  Typed10(Typed(ofp_type.OFPT_QUEUE_GET_CONFIG_REPLY), ofp10_type.OFPT_QUEUE_GET_CONFIG_REPLY)
cofmsg_role_request == Typed(ofp_type.OFPT_ROLE_REQUEST)
cofmsg_role_reply == Typed(ofp_type.OFPT_ROLE_REPLY)
cofmsg_stats_request ==
  Typed10(Typed(ofp13_type.OFPT_MULTIPART_REQUEST), ofp10_type.OFPT_STATS_REQUEST)
cofmsg_stats_reply == Typed10(Typed(ofp_type.OFPT_MULTIPART_REPLY), ofp10_type.OFPT_STATS_REPLY)
cofmsg_table_mod == Typed(ofp_type.OFPT_TABLE_MOD)
cofmsg_aggr_stats_request ==
  Stats10(WithStats(cofmsg_stats_request, ofp_multipart_types.OFPMP_AGGREGATE), ofp10_stats_types.OFPST_AGGREGATE)
cofmsg_aggr_stats_reply ==
  Stats10(WithStats(cofmsg_stats_reply, ofp_multipart_types.OFPMP_AGGREGATE), ofp10_stats_types.OFPST_AGGREGATE)
cofmsg_desc_stats_request ==
  Stats10(WithStats(cofmsg_stats_request, ofp_multipart_types.OFPMP_DESC), ofp10_stats_types.OFPST_DESC)
cofmsg_desc_stats_reply ==
  Stats10(WithStats(cofmsg_stats_reply, ofp_multipart_types.OFPMP_DESC), ofp10_stats_types.OFPST_DESC)
cofmsg_experimenter_stats_request ==
  Stats10(WithStats(cofmsg_stats_request, ofp13_multipart_types.OFPMP_EXPERIMENTER), ofp10_stats_types.OFPST_VENDOR)
cofmsg_experimenter_stats_reply ==
  Stats10(WithStats(cofmsg_stats_reply, ofp13_multipart_types.OFPMP_EXPERIMENTER), ofp10_stats_types.OFPST_VENDOR)
cofmsg_flow_stats_request == WithStats(cofmsg_stats_request, ofp_multipart_types.OFPMP_FLOW)
cofmsg_flow_stats_reply == WithStats(cofmsg_stats_reply, ofp_multipart_types.OFPMP_FLOW)
cofmsg_group_desc_stats_request ==
  WithStats(cofmsg_stats_request, ofp_multipart_types.OFPMP_GROUP_DESC)
cofmsg_group_desc_stats_reply == WithStats(cofmsg_stats_reply, ofp_multipart_types.OFPMP_GROUP_DESC)
cofmsg_group_features_stats_request ==
  WithStats(cofmsg_stats_request, ofp_multipart_types.OFPMP_GROUP_FEATURES)
cofmsg_group_features_stats_reply ==
  WithStats(cofmsg_stats_reply, ofp_multipart_types.OFPMP_GROUP_FEATURES)
cofmsg_group_stats_request == WithStats(cofmsg_stats_request, ofp_multipart_types.OFPMP_GROUP)
cofmsg_group_stats_reply == WithStats(cofmsg_stats_reply, ofp_multipart_types.OFPMP_GROUP)
cofmsg_meter_config_stats_request ==
  WithStats(cofmsg_stats_request, ofp_multipart_types.OFPMP_METER_CONFIG)
cofmsg_meter_config_stats_reply ==
  WithStats(cofmsg_stats_reply, ofp_multipart_types.OFPMP_METER_CONFIG)
cofmsg_meter_features_stats_request ==
  WithStats(cofmsg_stats_request, ofp_multipart_types.OFPMP_METER_FEATURES)
cofmsg_meter_features_stats_reply ==
  WithStats(cofmsg_stats_reply, ofp_multipart_types.OFPMP_METER_FEATURES)
cofmsg_meter_stats_request == WithStats(cofmsg_stats_request, ofp_multipart_types.OFPMP_METER)
cofmsg_meter_stats_reply == WithStats(cofmsg_stats_reply, ofp_multipart_types.OFPMP_METER)
cofmsg_port_desc_stats_request ==
  WithStats(cofmsg_stats_request, ofp_multipart_types.OFPMP_PORT_DESC)
cofmsg_port_desc_stats_reply == WithStats(cofmsg_stats_reply, ofp_multipart_types.OFPMP_PORT_DESC)
cofmsg_port_stats_request == WithStats(cofmsg_stats_request, ofp_multipart_types.OFPMP_PORT_STATS)
cofmsg_port_stats_reply == WithStats(cofmsg_stats_reply, ofp_multipart_types.OFPMP_PORT_STATS)
cofmsg_queue_stats_request == WithStats(cofmsg_stats_request, ofp_multipart_types.OFPMP_QUEUE)
cofmsg_queue_stats_reply == WithStats(cofmsg_stats_reply, ofp_multipart_types.OFPMP_QUEUE)
cofmsg_table_features_stats_request ==
  WithStats(cofmsg_stats_request, ofp_multipart_types.OFPMP_TABLE_FEATURES)
cofmsg_table_features_stats_reply ==
  WithStats(cofmsg_stats_reply, ofp_multipart_types.OFPMP_TABLE_FEATURES)
cofmsg_table_stats_request == WithStats(cofmsg_stats_request, ofp_multipart_types.OFPMP_TABLE)
cofmsg_table_stats_reply == WithStats(cofmsg_stats_reply, ofp_multipart_types.OFPMP_TABLE)

(* The constructor of a class, by its name. *)
Constructor == [cofmsg_barrier_request |-> cofmsg_barrier_request,
  cofmsg_barrier_reply |-> cofmsg_barrier_reply,
  cofmsg_get_config_request |-> cofmsg_get_config_request,
  cofmsg_get_config_reply |-> cofmsg_get_config_reply, cofmsg_set_config |-> cofmsg_set_config,
  cofmsg_error |-> cofmsg_error, cofmsg_experimenter |-> cofmsg_experimenter,
  cofmsg_features_request |-> cofmsg_features_request,
  cofmsg_features_reply |-> cofmsg_features_reply, cofmsg_flow_removed |-> cofmsg_flow_removed,
  cofmsg_group_mod |-> cofmsg_group_mod, cofmsg_packet_in |-> cofmsg_packet_in,
  cofmsg_packet_out |-> cofmsg_packet_out, cofmsg_port_status |-> cofmsg_port_status,
  cofmsg_get_async_config_request |-> cofmsg_get_async_config_request,
  cofmsg_get_async_config_reply |-> cofmsg_get_async_config_reply,
  cofmsg_set_async_config |-> cofmsg_set_async_config, cofmsg_flow_mod |-> cofmsg_flow_mod,
  cofmsg_meter_mod |-> cofmsg_meter_mod, cofmsg_port_mod |-> cofmsg_port_mod,
  cofmsg_queue_get_config_request |-> cofmsg_queue_get_config_request,
  cofmsg_queue_get_config_reply |-> cofmsg_queue_get_config_reply,
  cofmsg_role_request |-> cofmsg_role_request, cofmsg_role_reply |-> cofmsg_role_reply,
  cofmsg_stats_request |-> cofmsg_stats_request, cofmsg_stats_reply |-> cofmsg_stats_reply,
  cofmsg_table_mod |-> cofmsg_table_mod,
  cofmsg_aggr_stats_request |-> cofmsg_aggr_stats_request,
  cofmsg_aggr_stats_reply |-> cofmsg_aggr_stats_reply,
  cofmsg_desc_stats_request |-> cofmsg_desc_stats_request,
  cofmsg_desc_stats_reply |-> cofmsg_desc_stats_reply,
  cofmsg_experimenter_stats_request |-> cofmsg_experimenter_stats_request,
  cofmsg_experimenter_stats_reply |-> cofmsg_experimenter_stats_reply,
  cofmsg_flow_stats_request |-> cofmsg_flow_stats_request,
  cofmsg_flow_stats_reply |-> cofmsg_flow_stats_reply,
  cofmsg_group_desc_stats_request |-> cofmsg_group_desc_stats_request,
  cofmsg_group_desc_stats_reply |-> cofmsg_group_desc_stats_reply,
  cofmsg_group_features_stats_request |-> cofmsg_group_features_stats_request,
  cofmsg_group_features_stats_reply |-> cofmsg_group_features_stats_reply,
  cofmsg_group_stats_request |-> cofmsg_group_stats_request,
  cofmsg_group_stats_reply |-> cofmsg_group_stats_reply,
  cofmsg_meter_config_stats_request |-> cofmsg_meter_config_stats_request,
  cofmsg_meter_config_stats_reply |-> cofmsg_meter_config_stats_reply,
  cofmsg_meter_features_stats_request |-> cofmsg_meter_features_stats_request,
  cofmsg_meter_features_stats_reply |-> cofmsg_meter_features_stats_reply,
  cofmsg_meter_stats_request |-> cofmsg_meter_stats_request,
  cofmsg_meter_stats_reply |-> cofmsg_meter_stats_reply,
  cofmsg_port_desc_stats_request |-> cofmsg_port_desc_stats_request,
  cofmsg_port_desc_stats_reply |-> cofmsg_port_desc_stats_reply,
  cofmsg_port_stats_request |-> cofmsg_port_stats_request,
  cofmsg_port_stats_reply |-> cofmsg_port_stats_reply,
  cofmsg_queue_stats_request |-> cofmsg_queue_stats_request,
  cofmsg_queue_stats_reply |-> cofmsg_queue_stats_reply,
  cofmsg_table_features_stats_request |-> cofmsg_table_features_stats_request,
  cofmsg_table_features_stats_reply |-> cofmsg_table_features_stats_reply,
  cofmsg_table_stats_request |-> cofmsg_table_stats_request,
  cofmsg_table_stats_reply |-> cofmsg_table_stats_reply]

(* crofsock: the class that is created for a received type, and for a multipart type. *)
parse_of10_message == [OFPT_ERROR |-> "cofmsg_error", OFPT_VENDOR |-> "cofmsg_experimenter",
  OFPT_FEATURES_REQUEST |-> "cofmsg_features_request",
  OFPT_FEATURES_REPLY |-> "cofmsg_features_reply",
  OFPT_GET_CONFIG_REQUEST |-> "cofmsg_get_config_request",
  OFPT_GET_CONFIG_REPLY |-> "cofmsg_get_config_reply", OFPT_SET_CONFIG |-> "cofmsg_set_config",
  OFPT_PACKET_OUT |-> "cofmsg_packet_out", OFPT_PACKET_IN |-> "cofmsg_packet_in",
  OFPT_FLOW_MOD |-> "cofmsg_flow_mod", OFPT_FLOW_REMOVED |-> "cofmsg_flow_removed",
  OFPT_PORT_MOD |-> "cofmsg_port_mod", OFPT_PORT_STATUS |-> "cofmsg_port_status",
  OFPT_BARRIER_REQUEST |-> "cofmsg_barrier_request",
  OFPT_BARRIER_REPLY |-> "cofmsg_barrier_reply",
  OFPT_QUEUE_GET_CONFIG_REQUEST |-> "cofmsg_queue_get_config_request",
  OFPT_QUEUE_GET_CONFIG_REPLY |-> "cofmsg_queue_get_config_reply"]
parse_of10_stats_request == [OFPST_DESC |-> "cofmsg_desc_stats_request",
  OFPST_FLOW |-> "cofmsg_flow_stats_request", OFPST_AGGREGATE |-> "cofmsg_aggr_stats_request",
  OFPST_TABLE |-> "cofmsg_table_stats_request", OFPST_PORT |-> "cofmsg_port_stats_request",
  OFPST_QUEUE |-> "cofmsg_queue_stats_request",
  OFPST_VENDOR |-> "cofmsg_experimenter_stats_request"]
parse_of10_stats_reply == [OFPST_DESC |-> "cofmsg_desc_stats_reply",
  OFPST_FLOW |-> "cofmsg_flow_stats_reply", OFPST_AGGREGATE |-> "cofmsg_aggr_stats_reply",
  OFPST_TABLE |-> "cofmsg_table_stats_reply", OFPST_PORT |-> "cofmsg_port_stats_reply",
  OFPST_QUEUE |-> "cofmsg_queue_stats_reply",
  OFPST_VENDOR |-> "cofmsg_experimenter_stats_reply"]
parse_of12_message == [OFPT_ERROR |-> "cofmsg_error",
  OFPT_EXPERIMENTER |-> "cofmsg_experimenter",
  OFPT_FEATURES_REQUEST |-> "cofmsg_features_request",
  OFPT_FEATURES_REPLY |-> "cofmsg_features_reply",
  OFPT_GET_CONFIG_REQUEST |-> "cofmsg_get_config_request",
  OFPT_GET_CONFIG_REPLY |-> "cofmsg_get_config_reply", OFPT_SET_CONFIG |-> "cofmsg_set_config",
  OFPT_PACKET_OUT |-> "cofmsg_packet_out", OFPT_PACKET_IN |-> "cofmsg_packet_in",
  OFPT_FLOW_MOD |-> "cofmsg_flow_mod", OFPT_FLOW_REMOVED |-> "cofmsg_flow_removed",
  OFPT_GROUP_MOD |-> "cofmsg_group_mod", OFPT_PORT_MOD |-> "cofmsg_port_mod",
  OFPT_PORT_STATUS |-> "cofmsg_port_status", OFPT_TABLE_MOD |-> "cofmsg_table_mod",
  OFPT_BARRIER_REQUEST |-> "cofmsg_barrier_request",
  OFPT_BARRIER_REPLY |-> "cofmsg_barrier_reply",
  OFPT_QUEUE_GET_CONFIG_REQUEST |-> "cofmsg_queue_get_config_request",
  OFPT_QUEUE_GET_CONFIG_REPLY |-> "cofmsg_queue_get_config_reply",
  OFPT_ROLE_REQUEST |-> "cofmsg_role_request", OFPT_ROLE_REPLY |-> "cofmsg_role_reply",
  OFPT_GET_ASYNC_REQUEST |-> "cofmsg_get_async_config_request",
  OFPT_GET_ASYNC_REPLY |-> "cofmsg_get_async_config_reply",
  OFPT_SET_ASYNC |-> "cofmsg_set_async_config"]
parse_of12_stats_request == [OFPST_DESC |-> "cofmsg_desc_stats_request",
  OFPST_FLOW |-> "cofmsg_flow_stats_request", OFPST_AGGREGATE |-> "cofmsg_aggr_stats_request",
  OFPST_TABLE |-> "cofmsg_table_stats_request", OFPST_PORT |-> "cofmsg_port_stats_request",
  OFPST_QUEUE |-> "cofmsg_queue_stats_request", OFPST_GROUP |-> "cofmsg_group_stats_request",
  OFPST_GROUP_DESC |-> "cofmsg_group_desc_stats_request",
  OFPST_GROUP_FEATURES |-> "cofmsg_group_features_stats_request",
  OFPST_EXPERIMENTER |-> "cofmsg_experimenter_stats_request"]
parse_of12_stats_reply == [OFPST_DESC |-> "cofmsg_desc_stats_reply",
  OFPST_FLOW |-> "cofmsg_flow_stats_reply", OFPST_AGGREGATE |-> "cofmsg_aggr_stats_reply",
  OFPST_TABLE |-> "cofmsg_table_stats_reply", OFPST_PORT |-> "cofmsg_port_stats_reply",
  OFPST_QUEUE |-> "cofmsg_queue_stats_reply", OFPST_GROUP |-> "cofmsg_group_stats_reply",
  OFPST_GROUP_DESC |-> "cofmsg_group_desc_stats_reply",
  OFPST_GROUP_FEATURES |-> "cofmsg_group_features_stats_reply",
  OFPST_EXPERIMENTER |-> "cofmsg_experimenter_stats_reply"]
parse_of13_message == [OFPT_ERROR |-> "cofmsg_error",
  OFPT_EXPERIMENTER |-> "cofmsg_experimenter",
  OFPT_FEATURES_REQUEST |-> "cofmsg_features_request",
  OFPT_FEATURES_REPLY |-> "cofmsg_features_reply",
  OFPT_GET_CONFIG_REQUEST |-> "cofmsg_get_config_request",
  OFPT_GET_CONFIG_REPLY |-> "cofmsg_get_config_reply", OFPT_SET_CONFIG |-> "cofmsg_set_config",
  OFPT_PACKET_OUT |-> "cofmsg_packet_out", OFPT_PACKET_IN |-> "cofmsg_packet_in",
  OFPT_FLOW_MOD |-> "cofmsg_flow_mod", OFPT_FLOW_REMOVED |-> "cofmsg_flow_removed",
  OFPT_GROUP_MOD |-> "cofmsg_group_mod", OFPT_PORT_MOD |-> "cofmsg_port_mod",
  OFPT_PORT_STATUS |-> "cofmsg_port_status", OFPT_TABLE_MOD |-> "cofmsg_table_mod",
  OFPT_BARRIER_REQUEST |-> "cofmsg_barrier_request",
  OFPT_BARRIER_REPLY |-> "cofmsg_barrier_reply",
  OFPT_QUEUE_GET_CONFIG_REQUEST |-> "cofmsg_queue_get_config_request",
  OFPT_QUEUE_GET_CONFIG_REPLY |-> "cofmsg_queue_get_config_reply",
  OFPT_ROLE_REQUEST |-> "cofmsg_role_request", OFPT_ROLE_REPLY |-> "cofmsg_role_reply",
  OFPT_GET_ASYNC_REQUEST |-> "cofmsg_get_async_config_request",
  OFPT_GET_ASYNC_REPLY |-> "cofmsg_get_async_config_reply",
  OFPT_SET_ASYNC |-> "cofmsg_set_async_config", OFPT_METER_MOD |-> "cofmsg_meter_mod"]
parse_of13_stats_request == [OFPMP_DESC |-> "cofmsg_desc_stats_request",
  OFPMP_FLOW |-> "cofmsg_flow_stats_request", OFPMP_AGGREGATE |-> "cofmsg_aggr_stats_request",
  OFPMP_TABLE |-> "cofmsg_table_stats_request",
  OFPMP_PORT_STATS |-> "cofmsg_port_stats_request",
  OFPMP_QUEUE |-> "cofmsg_queue_stats_request", OFPMP_GROUP |-> "cofmsg_group_stats_request",
  OFPMP_GROUP_DESC |-> "cofmsg_group_desc_stats_request",
  OFPMP_GROUP_FEATURES |-> "cofmsg_group_features_stats_request",
  OFPMP_METER |-> "cofmsg_meter_stats_request",
  OFPMP_METER_CONFIG |-> "cofmsg_meter_config_stats_request",
  OFPMP_METER_FEATURES |-> "cofmsg_meter_features_stats_request",
  OFPMP_TABLE_FEATURES |-> "cofmsg_table_features_stats_request",
  OFPMP_PORT_DESC |-> "cofmsg_port_desc_stats_request",
  OFPMP_EXPERIMENTER |-> "cofmsg_experimenter_stats_request"]
parse_of13_stats_reply == [OFPMP_DESC |-> "cofmsg_desc_stats_reply",
  OFPMP_FLOW |-> "cofmsg_flow_stats_reply", OFPMP_AGGREGATE |-> "cofmsg_aggr_stats_reply",
  OFPMP_TABLE |-> "cofmsg_table_stats_reply", OFPMP_PORT_STATS |-> "cofmsg_port_stats_reply",
  OFPMP_QUEUE |-> "cofmsg_queue_stats_reply", OFPMP_GROUP |-> "cofmsg_group_stats_reply",
  OFPMP_GROUP_DESC |-> "cofmsg_group_desc_stats_reply",
  OFPMP_GROUP_FEATURES |-> "cofmsg_group_features_stats_reply",
  OFPMP_METER |-> "cofmsg_meter_stats_reply",
  OFPMP_METER_CONFIG |-> "cofmsg_meter_config_stats_reply",
  OFPMP_METER_FEATURES |-> "cofmsg_meter_features_stats_reply",
  OFPMP_TABLE_FEATURES |-> "cofmsg_table_features_stats_reply",
  OFPMP_PORT_DESC |-> "cofmsg_port_desc_stats_reply",
  OFPMP_EXPERIMENTER |-> "cofmsg_experimenter_stats_reply"]

(* crofctl::handle_recv: the class a case casts to before it calls the handler of the application, *)
(* and whether the case begins with check_role().                                                  *)
Open(class) == [cast |-> class, checked |-> FALSE]
Checked(class) == [cast |-> class, checked |-> TRUE]
ctl_recv_of10 == [OFPT_VENDOR |-> Open("cofmsg_experimenter"),
  OFPT_ERROR |-> Open("cofmsg_error"),
  OFPT_FEATURES_REQUEST |-> Open("cofmsg_features_request"),
  OFPT_GET_CONFIG_REQUEST |-> Open("cofmsg_get_config_request"),
  OFPT_SET_CONFIG |-> Open("cofmsg_set_config"), OFPT_PACKET_OUT |-> Open("cofmsg_packet_out"),
  OFPT_FLOW_MOD |-> Open("cofmsg_flow_mod"), OFPT_PORT_MOD |-> Open("cofmsg_port_mod"),
  OFPT_BARRIER_REQUEST |-> Open("cofmsg_barrier_request"),
  OFPT_QUEUE_GET_CONFIG_REQUEST |-> Open("cofmsg_queue_get_config_request")]
ctl_stats_of10 == [OFPST_DESC |-> "cofmsg_desc_stats_request",
  OFPST_FLOW |-> "cofmsg_flow_stats_request", OFPST_AGGREGATE |-> "cofmsg_aggr_stats_request",
  OFPST_TABLE |-> "cofmsg_table_stats_request", OFPST_PORT |-> "cofmsg_port_stats_request",
  OFPST_QUEUE |-> "cofmsg_queue_stats_request",
  OFPST_VENDOR |-> "cofmsg_experimenter_stats_request"]
ctl_recv_of12 == [OFPT_EXPERIMENTER |-> Open("cofmsg_experimenter"),
  OFPT_ERROR |-> Open("cofmsg_error"),
  OFPT_FEATURES_REQUEST |-> Open("cofmsg_features_request"),
  OFPT_GET_CONFIG_REQUEST |-> Checked("cofmsg_get_config_request"),
  OFPT_SET_CONFIG |-> Checked("cofmsg_set_config"),
  OFPT_PACKET_OUT |-> Checked("cofmsg_packet_out"),
  OFPT_FLOW_MOD |-> Checked("cofmsg_flow_mod"), OFPT_GROUP_MOD |-> Checked("cofmsg_group_mod"),
  OFPT_PORT_MOD |-> Checked("cofmsg_port_mod"), OFPT_TABLE_MOD |-> Checked("cofmsg_table_mod"),
  OFPT_BARRIER_REQUEST |-> Open("cofmsg_barrier_request"),
  OFPT_QUEUE_GET_CONFIG_REQUEST |-> Open("cofmsg_queue_get_config_request"),
  OFPT_ROLE_REQUEST |-> Open("cofmsg_role_request")]
ctl_stats_of12 == [OFPST_DESC |-> "cofmsg_desc_stats_request",
  OFPST_FLOW |-> "cofmsg_flow_stats_request", OFPST_AGGREGATE |-> "cofmsg_aggr_stats_request",
  OFPST_TABLE |-> "cofmsg_table_stats_request", OFPST_PORT |-> "cofmsg_port_stats_request",
  OFPST_QUEUE |-> "cofmsg_queue_stats_request", OFPST_GROUP |-> "cofmsg_group_stats_request",
  OFPST_GROUP_DESC |-> "cofmsg_group_desc_stats_request",
  OFPST_GROUP_FEATURES |-> "cofmsg_group_features_stats_request",
  OFPST_EXPERIMENTER |-> "cofmsg_experimenter_stats_request"]
ctl_recv_of13 == [OFPT_EXPERIMENTER |-> Open("cofmsg_experimenter"),
  OFPT_ERROR |-> Open("cofmsg_error"),
  OFPT_FEATURES_REQUEST |-> Open("cofmsg_features_request"),
  OFPT_GET_CONFIG_REQUEST |-> Checked("cofmsg_get_config_request"),
  OFPT_SET_CONFIG |-> Checked("cofmsg_set_config"),
  OFPT_PACKET_OUT |-> Checked("cofmsg_packet_out"),
  OFPT_FLOW_MOD |-> Checked("cofmsg_flow_mod"), OFPT_GROUP_MOD |-> Checked("cofmsg_group_mod"),
  OFPT_PORT_MOD |-> Checked("cofmsg_port_mod"), OFPT_TABLE_MOD |-> Checked("cofmsg_table_mod"),
  OFPT_BARRIER_REQUEST |-> Open("cofmsg_barrier_request"),
  OFPT_QUEUE_GET_CONFIG_REQUEST |-> Open("cofmsg_queue_get_config_request"),
  OFPT_ROLE_REQUEST |-> Open("cofmsg_role_request"),
  OFPT_GET_ASYNC_REQUEST |-> Open("cofmsg_get_async_config_request"),
  OFPT_SET_ASYNC |-> Open("cofmsg_set_async_config"),
  OFPT_METER_MOD |-> Checked("cofmsg_meter_mod")]
ctl_stats_of13 == [OFPMP_DESC |-> "cofmsg_desc_stats_request",
  OFPMP_FLOW |-> "cofmsg_flow_stats_request", OFPMP_AGGREGATE |-> "cofmsg_aggr_stats_request",
  OFPMP_TABLE |-> "cofmsg_table_stats_request",
  OFPMP_PORT_STATS |-> "cofmsg_port_stats_request",
  OFPMP_QUEUE |-> "cofmsg_queue_stats_request", OFPMP_GROUP |-> "cofmsg_group_stats_request",
  OFPMP_GROUP_DESC |-> "cofmsg_group_desc_stats_request",
  OFPMP_GROUP_FEATURES |-> "cofmsg_group_features_stats_request",
  OFPMP_METER |-> "cofmsg_meter_stats_request",
  OFPMP_METER_CONFIG |-> "cofmsg_meter_config_stats_request",
  OFPMP_METER_FEATURES |-> "cofmsg_meter_features_stats_request",
  OFPMP_TABLE_FEATURES |-> "cofmsg_table_features_stats_request",
  OFPMP_PORT_DESC |-> "cofmsg_port_desc_stats_request",
  OFPMP_EXPERIMENTER |-> "cofmsg_experimenter_stats_request"]

(* crofdpt: what the receiving functions cast to, and the versions in which they take over the      *)
(* ports of the message.                                                                            *)
Told(class) == [cast |-> class, ports |-> {}]
features_reply_rcvd == [Told("cofmsg_features_reply") EXCEPT !.ports = {1, 3}]
get_config_reply_rcvd == Told("cofmsg_get_config_reply")
desc_stats_reply_rcvd == Told("cofmsg_desc_stats_reply")
table_stats_reply_rcvd == Told("cofmsg_table_stats_reply")
port_stats_reply_rcvd == Told("cofmsg_port_stats_reply")
flow_stats_reply_rcvd == Told("cofmsg_flow_stats_reply")
aggregate_stats_reply_rcvd == Told("cofmsg_aggr_stats_reply")
queue_stats_reply_rcvd == Told("cofmsg_queue_stats_reply")
group_stats_reply_rcvd == Told("cofmsg_group_stats_reply")
group_desc_stats_reply_rcvd == Told("cofmsg_group_desc_stats_reply")
group_features_stats_reply_rcvd == Told("cofmsg_group_features_stats_reply")
meter_stats_reply_rcvd == Told("cofmsg_meter_stats_reply")
meter_config_stats_reply_rcvd == Told("cofmsg_meter_config_stats_reply")
meter_features_stats_reply_rcvd == Told("cofmsg_meter_features_stats_reply")
table_features_stats_reply_rcvd == Told("cofmsg_table_features_stats_reply")
port_desc_stats_reply_rcvd == [Told("cofmsg_port_desc_stats_reply") EXCEPT !.ports = {4}]
experimenter_stats_reply_rcvd == Told("cofmsg_experimenter_stats_reply")
barrier_reply_rcvd == Told("cofmsg_barrier_reply")
flow_removed_rcvd == Told("cofmsg_flow_removed")
packet_in_rcvd == Told("cofmsg_packet_in")
port_status_rcvd == [Told("cofmsg_port_status") EXCEPT !.ports = {1, 3, 4}]
experimenter_rcvd == Told("cofmsg_experimenter")
error_rcvd == Told("cofmsg_error")
role_reply_rcvd == Told("cofmsg_role_reply")
queue_get_config_reply_rcvd == Told("cofmsg_queue_get_config_reply")
get_async_config_reply_rcvd == Told("cofmsg_get_async_config_reply")
multipart_reply_rcvd == [OFPMP_DESC |-> desc_stats_reply_rcvd,
  OFPMP_FLOW |-> flow_stats_reply_rcvd, OFPMP_AGGREGATE |-> aggregate_stats_reply_rcvd,
  OFPMP_TABLE |-> table_stats_reply_rcvd, OFPMP_PORT_STATS |-> port_stats_reply_rcvd,
  OFPMP_QUEUE |-> queue_stats_reply_rcvd, OFPMP_GROUP |-> group_stats_reply_rcvd,
  OFPMP_GROUP_DESC |-> group_desc_stats_reply_rcvd,
  OFPMP_GROUP_FEATURES |-> group_features_stats_reply_rcvd,
  OFPMP_METER |-> meter_stats_reply_rcvd, OFPMP_METER_CONFIG |-> meter_config_stats_reply_rcvd,
  OFPMP_METER_FEATURES |-> meter_features_stats_reply_rcvd,
  OFPMP_TABLE_FEATURES |-> table_features_stats_reply_rcvd,
  OFPMP_PORT_DESC |-> port_desc_stats_reply_rcvd,
  OFPMP_EXPERIMENTER |-> experimenter_stats_reply_rcvd]
dpt_recv_of10 == [OFPT_VENDOR |-> experimenter_rcvd, OFPT_ERROR |-> error_rcvd,
  OFPT_FEATURES_REPLY |-> features_reply_rcvd, OFPT_GET_CONFIG_REPLY |-> get_config_reply_rcvd,
  OFPT_PACKET_IN |-> packet_in_rcvd, OFPT_FLOW_REMOVED |-> flow_removed_rcvd,
  OFPT_PORT_STATUS |-> port_status_rcvd, OFPT_BARRIER_REPLY |-> barrier_reply_rcvd,
  OFPT_QUEUE_GET_CONFIG_REPLY |-> queue_get_config_reply_rcvd]
dpt_recv_of12 == [OFPT_EXPERIMENTER |-> experimenter_rcvd, OFPT_ERROR |-> error_rcvd,
  OFPT_FEATURES_REPLY |-> features_reply_rcvd, OFPT_GET_CONFIG_REPLY |-> get_config_reply_rcvd,
  OFPT_PACKET_IN |-> packet_in_rcvd, OFPT_FLOW_REMOVED |-> flow_removed_rcvd,
  OFPT_PORT_STATUS |-> port_status_rcvd, OFPT_BARRIER_REPLY |-> barrier_reply_rcvd,
  OFPT_QUEUE_GET_CONFIG_REPLY |-> queue_get_config_reply_rcvd,
  OFPT_ROLE_REPLY |-> role_reply_rcvd]
dpt_recv_of13 == [OFPT_EXPERIMENTER |-> experimenter_rcvd, OFPT_ERROR |-> error_rcvd,
  OFPT_FEATURES_REPLY |-> features_reply_rcvd, OFPT_GET_CONFIG_REPLY |-> get_config_reply_rcvd,
  OFPT_PACKET_IN |-> packet_in_rcvd, OFPT_FLOW_REMOVED |-> flow_removed_rcvd,
  OFPT_PORT_STATUS |-> port_status_rcvd, OFPT_BARRIER_REPLY |-> barrier_reply_rcvd,
  OFPT_QUEUE_GET_CONFIG_REPLY |-> queue_get_config_reply_rcvd,
  OFPT_ROLE_REPLY |-> role_reply_rcvd, OFPT_GET_ASYNC_REPLY |-> get_async_config_reply_rcvd]

(* crofdpt::handle_transaction_timeout: the reply whose absence the application is told of. *)
timeout_of10 == [OFPT_FEATURES_REQUEST |-> "cofmsg_features_reply",
  OFPT_GET_CONFIG_REQUEST |-> "cofmsg_get_config_reply",
  OFPT_BARRIER_REQUEST |-> "cofmsg_barrier_reply",
  OFPT_QUEUE_GET_CONFIG_REQUEST |-> "cofmsg_queue_get_config_reply",
  OFPT_VENDOR |-> "cofmsg_experimenter"]
timeout_stats_of10_swapped == [OFPST_DESC |-> "cofmsg_desc_stats_reply",
  OFPST_FLOW |-> "cofmsg_aggr_stats_reply", OFPST_AGGREGATE |-> "cofmsg_flow_stats_reply",
  OFPST_TABLE |-> "cofmsg_table_stats_reply", OFPST_PORT |-> "cofmsg_port_stats_reply",
  OFPST_QUEUE |-> "cofmsg_queue_stats_reply", OFPST_VENDOR |-> "cofmsg_experimenter_stats_reply"]
timeout_stats_of10 == [OFPST_DESC |-> "cofmsg_desc_stats_reply",
  OFPST_FLOW |-> "cofmsg_flow_stats_reply", OFPST_AGGREGATE |-> "cofmsg_aggr_stats_reply",
  OFPST_TABLE |-> "cofmsg_table_stats_reply", OFPST_PORT |-> "cofmsg_port_stats_reply",
  OFPST_QUEUE |-> "cofmsg_queue_stats_reply",
  OFPST_VENDOR |-> "cofmsg_experimenter_stats_reply"]
timeout_of12 == [OFPT_FEATURES_REQUEST |-> "cofmsg_features_reply",
  OFPT_GET_CONFIG_REQUEST |-> "cofmsg_get_config_reply",
  OFPT_BARRIER_REQUEST |-> "cofmsg_barrier_reply",
  OFPT_QUEUE_GET_CONFIG_REQUEST |-> "cofmsg_queue_get_config_reply",
  OFPT_ROLE_REQUEST |-> "cofmsg_role_reply",
  OFPT_GET_ASYNC_REQUEST |-> "cofmsg_get_async_config_reply",
  OFPT_EXPERIMENTER |-> "cofmsg_experimenter"]
timeout_stats_of12 == [OFPST_DESC |-> "cofmsg_desc_stats_reply",
  OFPST_FLOW |-> "cofmsg_flow_stats_reply", OFPST_AGGREGATE |-> "cofmsg_aggr_stats_reply",
  OFPST_TABLE |-> "cofmsg_table_stats_reply", OFPST_PORT |-> "cofmsg_port_stats_reply",
  OFPST_QUEUE |-> "cofmsg_queue_stats_reply", OFPST_GROUP |-> "cofmsg_group_stats_reply",
  OFPST_GROUP_DESC |-> "cofmsg_group_desc_stats_reply",
  OFPST_GROUP_FEATURES |-> "cofmsg_group_features_stats_reply",
  OFPST_EXPERIMENTER |-> "cofmsg_experimenter_stats_reply"]
timeout_of13 == [OFPT_FEATURES_REQUEST |-> "cofmsg_features_reply",
  OFPT_GET_CONFIG_REQUEST |-> "cofmsg_get_config_reply",
  OFPT_BARRIER_REQUEST |-> "cofmsg_barrier_reply",
  OFPT_QUEUE_GET_CONFIG_REQUEST |-> "cofmsg_queue_get_config_reply",
  OFPT_ROLE_REQUEST |-> "cofmsg_role_reply",
  OFPT_GET_ASYNC_REQUEST |-> "cofmsg_get_async_config_reply",
  OFPT_EXPERIMENTER |-> "cofmsg_experimenter"]
timeout_stats_of13 == [OFPMP_DESC |-> "cofmsg_desc_stats_reply",
  OFPMP_FLOW |-> "cofmsg_flow_stats_reply", OFPMP_AGGREGATE |-> "cofmsg_aggr_stats_reply",
  OFPMP_TABLE |-> "cofmsg_table_stats_reply", OFPMP_PORT_STATS |-> "cofmsg_port_stats_reply",
  OFPMP_QUEUE |-> "cofmsg_queue_stats_reply", OFPMP_GROUP |-> "cofmsg_group_stats_reply",
  OFPMP_GROUP_DESC |-> "cofmsg_group_desc_stats_reply",
  OFPMP_GROUP_FEATURES |-> "cofmsg_group_features_stats_reply",
  OFPMP_METER |-> "cofmsg_meter_stats_reply",
  OFPMP_METER_CONFIG |-> "cofmsg_meter_config_stats_reply",
  OFPMP_METER_FEATURES |-> "cofmsg_meter_features_stats_reply",
  OFPMP_TABLE_FEATURES |-> "cofmsg_table_features_stats_reply",
  OFPMP_PORT_DESC |-> "cofmsg_port_desc_stats_reply",
  OFPMP_EXPERIMENTER |-> "cofmsg_experimenter_stats_reply"]

(* The senders of crofdpt and crofctl: the class of the message, and whether a reply is awaited. *)
Request(class) == [class |-> class, timed |-> TRUE]
Message(class) == [class |-> class, timed |-> FALSE]
dpt_send_features_request == Request("cofmsg_features_request")
dpt_send_get_config_request == Request("cofmsg_get_config_request")
dpt_send_desc_stats_request == Request("cofmsg_desc_stats_request")
dpt_send_flow_stats_request == Request("cofmsg_flow_stats_request")
dpt_send_aggr_stats_request == Request("cofmsg_aggr_stats_request")
dpt_send_table_stats_request == Request("cofmsg_table_stats_request")
dpt_send_port_stats_request == Request("cofmsg_port_stats_request")
dpt_send_queue_stats_request == Request("cofmsg_queue_stats_request")
dpt_send_group_stats_request == Request("cofmsg_group_stats_request")
dpt_send_group_desc_stats_request == Request("cofmsg_group_desc_stats_request")
dpt_send_group_features_stats_request == Request("cofmsg_group_features_stats_request")
dpt_send_table_features_stats_request == Request("cofmsg_table_features_stats_request")
dpt_send_port_desc_stats_request == Request("cofmsg_port_desc_stats_request")
dpt_send_experimenter_stats_request == Request("cofmsg_experimenter_stats_request")
dpt_send_meter_stats_request == Request("cofmsg_meter_stats_request")
dpt_send_meter_config_stats_request == Request("cofmsg_meter_config_stats_request")
dpt_send_meter_features_stats_request == Request("cofmsg_meter_features_stats_request")
dpt_send_packet_out_message == Message("cofmsg_packet_out")
dpt_send_barrier_request == Request("cofmsg_barrier_request")
dpt_send_role_request == Request("cofmsg_role_request")
dpt_send_flow_mod_message == Message("cofmsg_flow_mod")
dpt_send_group_mod_message == Message("cofmsg_group_mod")
dpt_send_table_mod_message == Message("cofmsg_table_mod")
dpt_send_port_mod_message == Message("cofmsg_port_mod")
dpt_send_set_config_message == Message("cofmsg_set_config")
dpt_send_queue_get_config_request == Request("cofmsg_queue_get_config_request")
dpt_send_get_async_config_request == Request("cofmsg_get_async_config_request")
dpt_send_set_async_config_message == Message("cofmsg_set_async_config")
dpt_send_meter_mod_message == Message("cofmsg_meter_mod")
dpt_send_error_message == Message("cofmsg_error")
dpt_send_experimenter_message == Request("cofmsg_experimenter")
DptSenders == {dpt_send_features_request, dpt_send_get_config_request,
  dpt_send_desc_stats_request, dpt_send_flow_stats_request, dpt_send_aggr_stats_request,
  dpt_send_table_stats_request, dpt_send_port_stats_request, dpt_send_queue_stats_request,
  dpt_send_group_stats_request, dpt_send_group_desc_stats_request,
  dpt_send_group_features_stats_request, dpt_send_table_features_stats_request,
  dpt_send_port_desc_stats_request, dpt_send_experimenter_stats_request,
  dpt_send_meter_stats_request, dpt_send_meter_config_stats_request,
  dpt_send_meter_features_stats_request, dpt_send_packet_out_message, dpt_send_barrier_request,
  dpt_send_role_request, dpt_send_flow_mod_message, dpt_send_group_mod_message,
  dpt_send_table_mod_message, dpt_send_port_mod_message, dpt_send_set_config_message,
  dpt_send_queue_get_config_request, dpt_send_get_async_config_request,
  dpt_send_set_async_config_message, dpt_send_meter_mod_message, dpt_send_error_message,
  dpt_send_experimenter_message}
ctl_send_features_reply == Message("cofmsg_features_reply")
ctl_send_get_config_reply == Message("cofmsg_get_config_reply")
ctl_send_desc_stats_reply == Message("cofmsg_desc_stats_reply")
ctl_send_flow_stats_reply == Message("cofmsg_flow_stats_reply")
ctl_send_aggr_stats_reply == Message("cofmsg_aggr_stats_reply")
ctl_send_table_stats_reply == Message("cofmsg_table_stats_reply")
ctl_send_port_stats_reply == Message("cofmsg_port_stats_reply")
ctl_send_queue_stats_reply == Message("cofmsg_queue_stats_reply")
ctl_send_group_stats_reply == Message("cofmsg_group_stats_reply")
ctl_send_group_desc_stats_reply == Message("cofmsg_group_desc_stats_reply")
ctl_send_group_features_stats_reply == Message("cofmsg_group_features_stats_reply")
ctl_send_table_features_stats_reply == Message("cofmsg_table_features_stats_reply")
ctl_send_port_desc_stats_reply == Message("cofmsg_port_desc_stats_reply")
ctl_send_experimenter_stats_reply == Message("cofmsg_experimenter_stats_reply")
ctl_send_meter_stats_reply == Message("cofmsg_meter_stats_reply")
ctl_send_meter_config_stats_reply == Message("cofmsg_meter_config_stats_reply")
ctl_send_meter_features_stats_reply == Message("cofmsg_meter_features_stats_reply")
ctl_send_packet_in_message == Message("cofmsg_packet_in")
ctl_send_barrier_reply == Message("cofmsg_barrier_reply")
ctl_send_role_reply == Message("cofmsg_role_reply")
ctl_send_error_message == Message("cofmsg_error")
ctl_send_experimenter_message == Request("cofmsg_experimenter")
ctl_send_flow_removed_message == Message("cofmsg_flow_removed")
ctl_send_port_status_message == Message("cofmsg_port_status")
ctl_send_queue_get_config_reply == Message("cofmsg_queue_get_config_reply")
ctl_send_get_async_config_reply == Message("cofmsg_get_async_config_reply")
CtlSenders == {ctl_send_features_reply, ctl_send_get_config_reply, ctl_send_desc_stats_reply,
  ctl_send_flow_stats_reply, ctl_send_aggr_stats_reply, ctl_send_table_stats_reply,
  ctl_send_port_stats_reply, ctl_send_queue_stats_reply, ctl_send_group_stats_reply,
  ctl_send_group_desc_stats_reply, ctl_send_group_features_stats_reply,
  ctl_send_table_features_stats_reply, ctl_send_port_desc_stats_reply,
  ctl_send_experimenter_stats_reply, ctl_send_meter_stats_reply,
  ctl_send_meter_config_stats_reply, ctl_send_meter_features_stats_reply,
  ctl_send_packet_in_message, ctl_send_barrier_reply, ctl_send_role_reply,
  ctl_send_error_message, ctl_send_experimenter_message, ctl_send_flow_removed_message,
  ctl_send_port_status_message, ctl_send_queue_get_config_reply,
  ctl_send_get_async_config_reply}

(* The queue a message is sent from (crofsock) and received into (crofconn); others go to "MGMT". *)
txqueue_of10 == [OFPT_PACKET_IN |-> "PKT", OFPT_PACKET_OUT |-> "PKT", OFPT_FLOW_MOD |-> "FLOW",
  OFPT_FLOW_REMOVED |-> "FLOW", OFPT_BARRIER_REPLY |-> "FLOW", OFPT_BARRIER_REQUEST |-> "FLOW"]
txqueue_of12 == [OFPT_PACKET_IN |-> "PKT", OFPT_PACKET_OUT |-> "PKT", OFPT_FLOW_MOD |-> "FLOW",
  OFPT_FLOW_REMOVED |-> "FLOW", OFPT_GROUP_MOD |-> "FLOW", OFPT_PORT_MOD |-> "FLOW",
  OFPT_TABLE_MOD |-> "FLOW", OFPT_BARRIER_REPLY |-> "FLOW", OFPT_BARRIER_REQUEST |-> "FLOW"]
txqueue_of13 == [OFPT_PACKET_IN |-> "PKT", OFPT_PACKET_OUT |-> "PKT", OFPT_FLOW_MOD |-> "FLOW",
  OFPT_FLOW_REMOVED |-> "FLOW", OFPT_GROUP_MOD |-> "FLOW", OFPT_PORT_MOD |-> "FLOW",
  OFPT_TABLE_MOD |-> "FLOW", OFPT_BARRIER_REPLY |-> "FLOW", OFPT_BARRIER_REQUEST |-> "FLOW"]
rxqueue_of10 == [OFPT_PACKET_IN |-> "PKT", OFPT_PACKET_OUT |-> "PKT", OFPT_FLOW_MOD |-> "FLOW",
  OFPT_FLOW_REMOVED |-> "FLOW", OFPT_STATS_REQUEST |-> "FLOW", OFPT_STATS_REPLY |-> "FLOW",
  OFPT_BARRIER_REQUEST |-> "FLOW", OFPT_BARRIER_REPLY |-> "FLOW"]
rxqueue_of12 == [OFPT_PACKET_IN |-> "PKT", OFPT_PACKET_OUT |-> "PKT", OFPT_FLOW_MOD |-> "FLOW",
  OFPT_FLOW_REMOVED |-> "FLOW", OFPT_GROUP_MOD |-> "FLOW", OFPT_PORT_MOD |-> "FLOW",
  OFPT_TABLE_MOD |-> "FLOW", OFPT_STATS_REQUEST |-> "FLOW", OFPT_STATS_REPLY |-> "FLOW",
  OFPT_BARRIER_REQUEST |-> "FLOW", OFPT_BARRIER_REPLY |-> "FLOW"]
rxqueue_of13 == [OFPT_PACKET_IN |-> "PKT", OFPT_PACKET_OUT |-> "PKT", OFPT_FLOW_MOD |-> "FLOW",
  OFPT_FLOW_REMOVED |-> "FLOW", OFPT_GROUP_MOD |-> "FLOW", OFPT_PORT_MOD |-> "FLOW",
  OFPT_TABLE_MOD |-> "FLOW", OFPT_MULTIPART_REQUEST |-> "FLOW", OFPT_MULTIPART_REPLY |-> "FLOW",
  OFPT_BARRIER_REQUEST |-> "FLOW", OFPT_BARRIER_REPLY |-> "FLOW"]
=============================================================================
