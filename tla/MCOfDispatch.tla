--------------------------- MODULE MCOfDispatch ---------------------------
EXTENDS OfDispatch

(* Requests of later versions that are sent in an earlier one all the same: descriptions and features *)
(* of groups and meters.                                                                             *)
SentAnyway == {"cofmsg_group_desc_stats_request", "cofmsg_group_features_stats_request", "cofmsg_meter_features_stats_request"}
AllSends == {<<v, s>> \in Versions \X DptSenders :
  /\ s.class \in From12Classes \cup SentAnyway => v >= 3
  /\ s.class \in From13Classes \cup {"cofmsg_meter_features_stats_request"} => v = 4}
PortRequests == {<<v, s>> \in AllSends : s.class \in {"cofmsg_features_request", "cofmsg_port_desc_stats_request"}}
Foreign == {1} \X {s \in DptSenders : s.class \in SentAnyway}

(* Which handlers throw what: the exceptions that concern their messages. *)
Concerns == [cofmsg_packet_out |-> DOMAIN eBadRequest,
  cofmsg_flow_mod |-> DOMAIN eFlowMod \cup DOMAIN eBadAction \cup DOMAIN eBadInst \cup DOMAIN eBadMatch,
  cofmsg_group_mod |-> DOMAIN eGroupMod, cofmsg_port_mod |-> DOMAIN ePortMod,
  cofmsg_table_mod |-> DOMAIN eTableMod, cofmsg_set_config |-> DOMAIN eSwitchConfig,
  cofmsg_role_request |-> DOMAIN eRoleRequest, cofmsg_meter_mod |-> DOMAIN eMeterMod,
  cofmsg_queue_stats_request |-> DOMAIN eQueueOp, cofmsg_table_features_stats_request |-> DOMAIN eTableFeaturesReq]
AllThrows == UNION {{<<v, c, e>> : v \in Versions, e \in Concerns[c]} : c \in DOMAIN Concerns}

(* The exceptions whose error class refuses the version, those of port modifications in OpenFlow 1.0 among them. *)
Refused == {t \in AllThrows : t[3] \in DOMAIN Caught /\ t[1] \notin DOMAIN Caught[t[3]]}
GoodThrows == AllThrows \ Refused
QueueThrows == {t \in AllThrows : t[3] \in DOMAIN eQueueOp}
AllRoles == {"NOCHANGE", "EQUAL", "MASTER", "SLAVE", "invalid"}
None == {}
=============================================================================
