------------------------------ MODULE OfMessages ------------------------------
(***************************************************************************)
(* The codecs of the messages: one definition per class of                  *)
(* openflow/messages/*.cc, from its length(), pack() and unpack(), as a      *)
(* function of the protocol version.                                         *)
(***************************************************************************)
EXTENDS OfElements

cofmsg == For({1, 3, 4, 5}, As(Rec(ofp_header, <<"version", "type", "xid">>), ofp_header,
    <<<<"length", "len">>>>))
cofmsg_stats_request ==
     [v \in {1} |-> Over(cofmsg[v], As(Rec(ofp10_stats_request, <<>>), ofp10_stats_request,
         <<<<"type", "stats_type">>, <<"flags", "stats_flags">>>>))]
  @@ [v \in {3, 4, 5} |-> Over(cofmsg[v], As(Rec(ofp13_multipart_request, <<>>),
         ofp13_multipart_request, <<<<"type", "stats_type">>, <<"flags", "stats_flags">>>>))]
cofmsg_aggr_stats_request ==
     [v \in {1} |-> Over(cofmsg_stats_request[v], Body(Room(Size(ofp10_stats_request)),
         "aggr_stats", Of(cofaggr_stats_request[v])))]
  @@ [v \in {3, 4} |-> Over(cofmsg_stats_request[v], Body(Room(Size(ofp13_multipart_request)),
         "aggr_stats", Of(cofaggr_stats_request[v])))]
cofmsg_stats_reply ==
     [v \in {1} |-> Over(cofmsg[v], As(Rec(ofp10_stats_reply, <<>>), ofp10_stats_reply,
         <<<<"type", "stats_type">>, <<"flags", "stats_flags">>>>))]
  @@ [v \in {3, 4, 5} |-> Over(cofmsg[v], As(Rec(ofp13_multipart_reply, <<>>),
         ofp13_multipart_reply, <<<<"type", "stats_type">>, <<"flags", "stats_flags">>>>))]
cofmsg_aggr_stats_reply ==
     [v \in {1} |-> Over(cofmsg_stats_reply[v], Body(Room(Size(ofp10_stats_reply)),
         "aggr_stats", Of(cofaggr_stats_reply[v])))]
  @@ [v \in {3, 4} |-> Over(cofmsg_stats_reply[v], Body(Room(Size(ofp13_multipart_reply)),
         "aggr_stats", Of(cofaggr_stats_reply[v])))]
cofmsg_get_async_config_request == [v \in {4} |-> Over(cofmsg[v], Room(Size(ofp_header)))]
cofmsg_get_async_config_reply == [v \in {4} |-> Over(cofmsg[v], Body(Room(Size(ofp13_header)),
    "async_config", Of(cofasync_config[v])))]
cofmsg_set_async_config == [v \in {4} |-> Over(cofmsg[v], Body(Room(Size(ofp13_header)),
    "async_config", Of(cofasync_config[v])))]
cofmsg_barrier_request == [v \in {1, 3, 4, 5} |-> Over(cofmsg[v], Body(Room(Size(ofp_header)),
    "body", Octets))]
cofmsg_barrier_reply == [v \in {1, 3, 4, 5} |-> Over(cofmsg[v], Body(Room(Size(ofp_header)),
    "body", Octets))]
cofmsg_get_config_reply == [v \in {1, 3, 4, 5} |-> Over(cofmsg[v], Rec(ofp10_switch_config,
    <<"flags", "miss_send_len">>))]
cofmsg_set_config == [v \in {1, 3, 4, 5} |-> Over(cofmsg[v], Rec(ofp10_switch_config,
    <<"flags", "miss_send_len">>))]
cofmsg_desc_stats_request ==
     [v \in {1} |-> Over(cofmsg_stats_request[v], Room(Size(ofp10_stats_request)))]
  @@ [v \in {3, 4, 5} |-> Over(cofmsg_stats_request[v], Room(Size(ofp13_multipart_request)))]
cofmsg_desc_stats_reply ==
     [v \in {1} |-> Over(cofmsg_stats_reply[v], Body(Room(Size(ofp10_stats_reply)),
         "desc_stats", Of(cofdesc_stats_reply[v])))]
  @@ [v \in {3, 4} |-> Over(cofmsg_stats_reply[v], Body(Room(Size(ofp13_multipart_reply)),
         "desc_stats", Of(cofdesc_stats_reply[v])))]
cofmsg_echo_request == [v \in {1, 3, 4, 5} |-> Over(cofmsg[v], Body(Room(Size(ofp_header)),
    "body", Octets))]
cofmsg_echo_reply == [v \in {1, 3, 4, 5} |-> Over(cofmsg[v], Body(Room(Size(ofp_header)),
    "body", Octets))]
cofmsg_error == [v \in {1, 3, 4, 5} |-> Over(cofmsg[v], Body(As(Rec(ofp_error_msg, <<>>),
    ofp_error_msg, <<<<"type", "err_type">>, <<"code", "err_code">>>>), "body", Octets))]
cofmsg_experimenter ==
     [v \in {1} |-> Over(cofmsg[v], Body(As(Rec(ofp10_vendor_header, <<>>),
         ofp10_vendor_header, <<<<"vendor", "exp_id">>>>), "body", Octets))]
  @@ [v \in {3, 4, 5} |-> Over(cofmsg[v],
         Body(Load(Store(Room(Size(ofp12_experimenter_header)), ofp12_experimenter_header,
         <<<<"experimenter", "exp_id">>, <<"exp_type", "exp_type">>>>),
         ofp13_experimenter_header, <<<<"experimenter", "exp_id">>, <<"exp_type",
         "exp_type">>>>), "body", Octets))]
cofmsg_experimenter_stats_request ==
     [v \in {1} |-> Over(cofmsg_stats_request[v],
         Body(As(Room(Size(ofp10_stats_request) + Size(ofp10_vendor_stats_header)),
         Shift(ofp10_vendor_stats_header, Size(ofp10_stats_request)), <<<<"vendor",
         "exp_id">>>>), "exp_body", Octets))]
  @@ [v \in {3, 4, 5} |-> Over(cofmsg_stats_request[v],
         Body(As(Room(Size(ofp13_multipart_request) + Size(ofp13_experimenter_multipart_header)), Shift(ofp13_experimenter_multipart_header, Size(ofp13_multipart_request)), <<<<"experimenter", "exp_id">>, <<"exp_type", "exp_type">>>>), "exp_body", Octets))]
cofmsg_experimenter_stats_reply ==
     [v \in {1} |-> Over(cofmsg_stats_reply[v],
         Body(As(Room(Size(ofp10_stats_reply) + Size(ofp10_vendor_stats_header)),
         Shift(ofp10_vendor_stats_header, Size(ofp10_stats_reply)), <<<<"vendor",
         "exp_id">>>>), "exp_body", Octets))]
  @@ [v \in {3, 4, 5} |-> Over(cofmsg_stats_reply[v],
         Body(As(Room(Size(ofp13_multipart_reply) + Size(ofp13_experimenter_multipart_header)),
         Shift(ofp13_experimenter_multipart_header, Size(ofp13_multipart_reply)),
         <<<<"experimenter", "exp_id">>, <<"exp_type", "exp_type">>>>), "exp_body", Octets))]
cofmsg_features_reply ==
     [v \in {1} |-> Over(cofmsg[v], Body(As(Rec(ofp10_switch_features, <<"n_buffers",
         "n_tables", "capabilities", "actions">>), ofp10_switch_features, <<<<"datapath_id",
         "dpid">>>>), "ports", Lists))]
  @@ [v \in {3} |-> Over(cofmsg[v], Body(As(Rec(ofp12_switch_features, <<"n_buffers",
         "n_tables", "capabilities">>), ofp12_switch_features, <<<<"datapath_id", "dpid">>>>),
         "ports", Lists))]
  @@ [v \in {4, 5} |-> Over(cofmsg[v], As(Rec(ofp13_switch_features, <<"n_buffers", "n_tables",
         "capabilities">>), ofp13_switch_features, <<<<"datapath_id", "dpid">>,
         <<"auxiliary_id", "auxid">>>>))]
cofmsg_flow_mod == [v \in {1, 3, 4} |-> Over(cofmsg[v], Body(Room(Size(ofp_header)), "flowmod",
    Of(cofflowmod[v])))]
cofmsg_flow_removed ==
     [v \in {1} |-> Over(cofmsg[v], Inner(Rec(ofp10_flow_removed, <<"cookie", "priority",
         "reason", "duration_sec", "duration_nsec", "idle_timeout", "packet_count",
         "byte_count">>), "match", ofp10_flow_removed, "match", Size(ofp10_match)))]
  @@ [v \in {3, 4} |-> Over(cofmsg[v],
         Need(Body(RecIn(Size(ofp13_flow_removed) - Size(ofp13_match), ofp13_flow_removed,
         <<"cookie", "priority", "reason", "table_id", "duration_sec", "duration_nsec",
         "idle_timeout", "hard_timeout", "packet_count", "byte_count">>), "match",
         Of(cofmatch[v])), Size(ofp13_flow_removed)))]
cofmsg_flow_stats_request ==
     [v \in {1} |-> Over(cofmsg_stats_request[v], Body(Room(Size(ofp10_stats_request)),
         "flow_stats", Of(cofflow_stats_request[v])))]
  @@ [v \in {3, 4} |-> Over(cofmsg_stats_request[v], Body(Room(Size(ofp13_multipart_request)),
         "flow_stats", Of(cofflow_stats_request[v])))]
cofmsg_flow_stats_reply ==
     [v \in {1} |-> Over(cofmsg_stats_reply[v], Body(Room(Size(ofp10_stats_reply)),
         "flowstatsarray", Lists))]
  @@ [v \in {3, 4} |-> Over(cofmsg_stats_reply[v], Body(Room(Size(ofp13_multipart_reply)),
         "flowstatsarray", Lists))]
cofmsg_group_desc_stats_request == [v \in {1, 3, 4, 5} |-> Over(cofmsg_stats_request[v],
    Room(Size(ofp13_multipart_request)))]
cofmsg_group_desc_stats_reply == [v \in {3, 4} |-> Over(cofmsg_stats_reply[v],
    Body(Room(Size(ofp13_multipart_reply)), "groupdescstatsarray", Lists))]
cofmsg_group_features_stats_request == [v \in {1, 3, 4, 5} |-> Over(cofmsg_stats_request[v],
    Room(Size(ofp13_multipart_request)))]
cofmsg_group_features_stats_reply == [v \in {3, 4} |-> Over(cofmsg_stats_reply[v],
    Body(Room(Size(ofp13_multipart_reply)), "group_features_stats",
    Of(cofgroup_features_stats_reply[v])))]
cofmsg_group_mod == [v \in {3, 4} |-> Over(cofmsg[v], Body(Room(Size(ofp_header)), "groupmod",
    Of(cofgroupmod[v])))]
cofmsg_group_stats_request == [v \in {3, 4} |-> Over(cofmsg_stats_request[v],
    Body(Room(Size(ofp13_multipart_request)), "group_stats", Of(cofgroup_stats_request[v])))]
cofmsg_group_stats_reply == [v \in {3, 4} |-> Over(cofmsg_stats_reply[v],
    Body(Room(Size(ofp13_multipart_reply)), "groupstatsarray", Lists))]
cofmsg_hello == [v \in {1, 3, 4, 5} |-> Over(cofmsg[v], Quiet(Body(Room(Size(ofp_header)),
    "helloelems", Lists)))]
cofmsg_meter_config_stats_request == [v \in {4} |-> Over(cofmsg_stats_request[v],
    Body(Room(Size(ofp13_multipart_request)), "meter_config", Of(cofmeter_config_request[v])))]
cofmsg_meter_config_stats_reply == [v \in {4} |-> Over(cofmsg_stats_reply[v],
    Body(Room(Size(ofp13_multipart_reply)), "array", Lists))]
cofmsg_meter_features_stats_request == [v \in {1, 3, 4, 5} |-> Over(cofmsg_stats_request[v],
    Room(Size(ofp13_multipart_request)))]
cofmsg_meter_features_stats_reply == [v \in {4} |-> Over(cofmsg_stats_reply[v],
    Body(Room(Size(ofp13_multipart_reply)), "meter_features", Of(cofmeter_features_reply[v])))]
cofmsg_meter_mod == [v \in {4} |-> Over(cofmsg[v], Body(Rec(ofp13_meter_mod, <<"command",
    "flags", "meter_id">>), "meter_bands", Lists))]
cofmsg_meter_stats_request == [v \in {4} |-> Over(cofmsg_stats_request[v],
    Body(Room(Size(ofp13_multipart_request)), "meter_stats", Of(cofmeter_stats_request[v])))]
cofmsg_meter_stats_reply == [v \in {4} |-> Over(cofmsg_stats_reply[v],
    Body(Room(Size(ofp13_multipart_reply)), "meterstatsarray", Lists))]
cofmsg_packet_in ==
     [v \in {1} |-> Over(cofmsg[v], Need(Body(RecIn(Size(ofp10_packet_in) - 2, ofp10_packet_in,
         <<"buffer_id", "total_len", "in_port", "reason">>), "packet", Octets),
         Size(ofp10_packet_in)))]
  @@ [v \in {3} |-> Over(cofmsg[v],
         Need(GapBody(OwnBody(RecIn(Size(ofp12_packet_in) - Size(ofp12_match), ofp12_packet_in,
         <<"buffer_id", "total_len", "reason", "table_id">>), "match", Of(cofmatch[v])),
         "packet", Octets, 2), Size(ofp12_packet_in)))]
  @@ [v \in {4} |-> Over(cofmsg[v],
         Need(GapBody(OwnBody(RecIn(Size(ofp13_packet_in) - Size(ofp13_match), ofp13_packet_in,
         <<"buffer_id", "total_len", "reason", "table_id", "cookie">>), "match",
         Of(cofmatch[v])), "packet", Octets, 2), Size(ofp13_packet_in)))]
cofmsg_packet_out ==
     [v \in {1} |-> Over(cofmsg[v], Body(OwnBody(Fill(Rec(ofp10_packet_out, <<"buffer_id",
         "in_port">>), ofp10_packet_out, <<"actions_len">>), "actions", Lists), "packet",
         Octets))]
  @@ [v \in {3, 4, 5} |-> Over(cofmsg[v], Body(OwnBody(Fill(Rec(ofp12_packet_out,
         <<"buffer_id", "in_port">>), ofp12_packet_out, <<"actions_len">>), "actions", Lists),
         "packet", Octets))]
cofmsg_port_desc_stats_request == [v \in {4} |-> Over(cofmsg_stats_request[v],
    Room(Size(ofp13_multipart_request)))]
cofmsg_port_desc_stats_reply == [v \in {4} |-> Over(cofmsg_stats_reply[v],
    Body(Room(Size(ofp13_multipart_reply)), "ports", Lists))]
cofmsg_port_mod ==
     [v \in {1} |-> Over(cofmsg[v], As(Rec(ofp10_port_mod, <<"config", "mask", "advertise">>),
         ofp10_port_mod, <<<<"port_no", "portno">>, <<"hw_addr", "lladdr">>>>))]
  @@ [v \in {3} |-> Over(cofmsg[v], As(RecIn(Size(ofp12_port_mod), ofp13_port_mod, <<"config",
         "mask", "advertise">>), ofp13_port_mod, <<<<"port_no", "portno">>, <<"hw_addr",
         "lladdr">>>>))]
  @@ [v \in {4} |-> Over(cofmsg[v], As(Rec(ofp13_port_mod, <<"config", "mask", "advertise">>),
         ofp13_port_mod, <<<<"port_no", "portno">>, <<"hw_addr", "lladdr">>>>))]
cofmsg_port_stats_request ==
     [v \in {1} |-> Over(cofmsg_stats_request[v],
         Inner(Room(Size(ofp10_stats_request) + Size(ofp10_port_stats_request)), "port_stats",
         ofp10_stats_request, "body", Size(ofp10_port_stats_request)))]
  @@ [v \in {3} |-> Over(cofmsg_stats_request[v],
         Inner(Room(Size(ofp12_stats_request) + Size(ofp12_port_stats_request)), "port_stats",
         ofp12_stats_request, "body", Size(ofp12_port_stats_request)))]
  @@ [v \in {4} |-> Over(cofmsg_stats_request[v],
         Inner(Room(Size(ofp13_multipart_request) + Size(ofp13_port_stats_request)),
         "port_stats", ofp13_multipart_request, "body", Size(ofp13_port_stats_request)))]
cofmsg_port_stats_reply ==
     [v \in {1} |-> Over(cofmsg_stats_reply[v], Body(Room(Size(ofp10_stats_reply)),
         "portstatsarray", Lists))]
  @@ [v \in {3} |-> Over(cofmsg_stats_reply[v], Body(Room(Size(ofp12_stats_reply)),
         "portstatsarray", Lists))]
  @@ [v \in {4} |-> Over(cofmsg_stats_reply[v], Body(Room(Size(ofp13_multipart_reply)),
         "portstatsarray", Lists))]
cofmsg_port_status ==
     [v \in {1} |-> Over(cofmsg[v], Inner(Rec(ofp10_port_status, <<"reason">>), "port",
         ofp10_port_status, "desc", Size(ofp10_port)))]
  @@ [v \in {3} |-> Over(cofmsg[v], Inner(Rec(ofp12_port_status, <<"reason">>), "port",
         ofp12_port_status, "desc", Size(ofp12_port)))]
  @@ [v \in {4} |-> Over(cofmsg[v], Inner(Rec(ofp13_port_status, <<"reason">>), "port",
         ofp13_port_status, "desc", Size(ofp13_port)))]
  @@ [v \in {5} |-> Over(cofmsg[v], Body(RecIn(Size(ofp14_port_status) - Size(ofp14_port),
         ofp14_port_status, <<"reason">>), "port", Of(cofport[v])))]
cofmsg_queue_get_config_request ==
     [v \in {1} |-> Over(cofmsg[v], As(Rec(ofp10_queue_get_config_request, <<>>),
         ofp10_queue_get_config_request, <<<<"port", "portno">>>>))]
  @@ [v \in {3} |-> Over(cofmsg[v], As(RecIn(Size(ofp12_queue_get_config_request),
         ofp13_queue_get_config_request, <<>>), ofp13_queue_get_config_request, <<<<"port",
         "portno">>>>))]
  @@ [v \in {4} |-> Over(cofmsg[v], As(Rec(ofp13_queue_get_config_request, <<>>),
         ofp13_queue_get_config_request, <<<<"port", "portno">>>>))]
cofmsg_queue_get_config_reply ==
     [v \in {1} |-> Over(cofmsg[v], Body(As(Rec(ofp10_queue_get_config_reply, <<>>),
         ofp10_queue_get_config_reply, <<<<"port", "portno">>>>), "queues", Lists))]
  @@ [v \in {3} |-> Over(cofmsg[v], Body(As(RecIn(Size(ofp12_queue_get_config_reply),
         ofp13_queue_get_config_reply, <<>>), ofp13_queue_get_config_reply, <<<<"port",
         "portno">>>>), "queues", Lists))]
  @@ [v \in {4} |-> Over(cofmsg[v], Body(As(Rec(ofp13_queue_get_config_reply, <<>>),
         ofp13_queue_get_config_reply, <<<<"port", "portno">>>>), "queues", Lists))]
cofmsg_queue_stats_request ==
     [v \in {1} |-> Over(cofmsg_stats_request[v], Body(Room(Size(ofp10_stats_request)),
         "queue_stats", Of(cofqueue_stats_request[v])))]
  @@ [v \in {3} |-> Over(cofmsg_stats_request[v], Body(Room(Size(ofp12_stats_request)),
         "queue_stats", Of(cofqueue_stats_request[v])))]
  @@ [v \in {4} |-> Over(cofmsg_stats_request[v], Body(Room(Size(ofp13_multipart_request)),
         "queue_stats", Of(cofqueue_stats_request[v])))]
cofmsg_queue_stats_reply ==
     [v \in {1} |-> Over(cofmsg_stats_reply[v], Body(Room(Size(ofp10_stats_reply)),
         "queuestatsarray", Lists))]
  @@ [v \in {3} |-> Over(cofmsg_stats_reply[v], Body(Room(Size(ofp12_stats_reply)),
         "queuestatsarray", Lists))]
  @@ [v \in {4} |-> Over(cofmsg_stats_reply[v], Body(Room(Size(ofp13_multipart_reply)),
         "queuestatsarray", Lists))]
cofmsg_role_request ==
     [v \in {3} |-> Over(cofmsg[v], Body(Room(Size(ofp12_header)), "role", Of(cofrole[v])))]
  @@ [v \in {4} |-> Over(cofmsg[v], Body(Room(Size(ofp13_header)), "role", Of(cofrole[v])))]
cofmsg_role_reply ==
     [v \in {3} |-> Over(cofmsg[v], Body(Room(Size(ofp12_header)), "role", Of(cofrole[v])))]
  @@ [v \in {4} |-> Over(cofmsg[v], Body(Room(Size(ofp13_header)), "role", Of(cofrole[v])))]
cofmsg_table_features_stats_request == [v \in {4} |-> Over(cofmsg_stats_request[v],
    Body(Room(Size(ofp13_multipart_request)), "tables", Lists))]
cofmsg_table_features_stats_reply == [v \in {4} |-> Over(cofmsg_stats_reply[v],
    Body(Room(Size(ofp13_multipart_request)), "tables", Lists))]
cofmsg_table_mod == [v \in {3, 4} |-> Over(cofmsg[v], Rec(ofp13_table_mod, <<"table_id",
    "config">>))]
cofmsg_table_stats_request ==
     [v \in {1} |-> Over(cofmsg_stats_request[v], Room(Size(ofp10_stats_request)))]
  @@ [v \in {3} |-> Over(cofmsg_stats_request[v], Room(Size(ofp12_stats_request)))]
  @@ [v \in {4} |-> Over(cofmsg_stats_request[v], Room(Size(ofp13_multipart_request)))]
cofmsg_table_stats_reply ==
     [v \in {1} |-> Over(cofmsg_stats_reply[v], Body(Room(Size(ofp10_stats_reply)),
         "tablestatsarray", Lists))]
  @@ [v \in {3} |-> Over(cofmsg_stats_reply[v], Body(Room(Size(ofp12_stats_reply)),
         "tablestatsarray", Lists))]
  @@ [v \in {4} |-> Over(cofmsg_stats_reply[v], Body(Room(Size(ofp13_multipart_reply)),
         "tablestatsarray", Lists))]
=============================================================================
