------------------------------ MODULE OfElements ------------------------------
(***************************************************************************)
(* The codecs of what messages contain: match, actions, instructions,       *)
(* ports, buckets, statistics, properties.  One definition per class of     *)
(* openflow/*.cc, from its length(), pack() and unpack(), as a function of   *)
(* the protocol version (1, 3, 4, 5 for OpenFlow 1.0, 1.2, 1.3, 1.4); the    *)
(* versions missing from its domain are those for which it throws           *)
(* eBadVersion.  The lists of these elements are in OfLists.                 *)
(***************************************************************************)
EXTENDS OpenFlow14

(* Structs private to one class. *)
cofrole_role_t == Struct(<<<<"role", U32>>, <<"pad", Arr(U8, 4)>>, <<"generation_id", U64>>>>)
cofgroupmod_ofp_group_mod == Packed(<<<<"command", U16>>, <<"type", U8>>, <<"pad", U8>>,
    <<"group_id", U32>>, <<"buckets", Arr(U8, 0)>>>>)
cofasync_async_config_t == Struct(<<<<"packet_in_mask", Arr(U32, 2)>>, <<"port_status_mask",
    Arr(U32, 2)>>, <<"flow_removed_mask", Arr(U32, 2)>>>>)
cofflowmod_ofp10_flow_mod == Packed(<<<<"match", ofp10_match>>, <<"cookie", U64>>, <<"command",
    U16>>, <<"idle_timeout", U16>>, <<"hard_timeout", U16>>, <<"priority", U16>>,
    <<"buffer_id", U32>>, <<"out_port", U16>>, <<"flags", U16>>, <<"actions", Arr(U8, 0)>>>>)
cofflowmod_ofp13_flow_mod == Packed(<<<<"cookie", U64>>, <<"cookie_mask", U64>>, <<"table_id",
    U8>>, <<"command", U8>>, <<"idle_timeout", U16>>, <<"hard_timeout", U16>>, <<"priority",
    U16>>, <<"buffer_id", U32>>, <<"out_port", U32>>, <<"out_group", U32>>, <<"flags", U16>>,
    <<"pad", Arr(U8, 2)>>, <<"match", Arr(U8, 0)>>>>)

cofaction == For({1, 3, 4}, Rec(ofp_action, <<"type", "len">>))
cofaction_output ==
     [v \in {1} |-> Over(cofaction[v], As(Rec(ofp10_action_output, <<"max_len">>),
         ofp10_action_output, <<<<"port", "port_no">>>>))]
  @@ [v \in {3, 4} |-> Over(cofaction[v], As(Rec(ofp13_action_output, <<"max_len">>),
         ofp13_action_output, <<<<"port", "port_no">>>>))]
cofaction_set_vlan_vid == [v \in {1} |-> Over(cofaction[v], Rec(ofp10_action_vlan_vid,
    <<"vlan_vid">>))]
cofaction_set_vlan_pcp == [v \in {1} |-> Over(cofaction[v], Rec(ofp10_action_vlan_pcp,
    <<"vlan_pcp">>))]
cofaction_strip_vlan == [v \in {1} |-> Over(cofaction[v], Room(Size(ofp10_action_header)))]
cofaction_set_dl_src == [v \in {1} |-> Over(cofaction[v], As(Rec(ofp10_action_dl_addr, <<>>),
    ofp10_action_dl_addr, <<<<"dl_addr", "macaddr">>>>))]
cofaction_set_dl_dst == [v \in {1} |-> Over(cofaction[v], As(Rec(ofp10_action_dl_addr, <<>>),
    ofp10_action_dl_addr, <<<<"dl_addr", "macaddr">>>>))]
cofaction_set_nw_src == [v \in {1} |-> Over(cofaction[v], As(Rec(ofp10_action_nw_addr, <<>>),
    ofp10_action_nw_addr, <<<<"nw_addr", "addr">>>>))]
cofaction_set_nw_dst == [v \in {1} |-> Over(cofaction[v], As(Rec(ofp10_action_nw_addr, <<>>),
    ofp10_action_nw_addr, <<<<"nw_addr", "addr">>>>))]
cofaction_set_nw_tos == [v \in {1} |-> Over(cofaction[v], Rec(ofp10_action_nw_tos,
    <<"nw_tos">>))]
cofaction_set_tp_src == [v \in {1} |-> Over(cofaction[v], As(Rec(ofp10_action_tp_port, <<>>),
    ofp10_action_tp_port, <<<<"tp_port", "tp_src">>>>))]
cofaction_set_tp_dst == [v \in {1} |-> Over(cofaction[v], As(Rec(ofp10_action_tp_port, <<>>),
    ofp10_action_tp_port, <<<<"tp_port", "tp_dst">>>>))]
cofaction_enqueue == [v \in {1} |-> Over(cofaction[v], As(Rec(ofp10_action_enqueue,
    <<"queue_id">>), ofp10_action_enqueue, <<<<"port", "port_no">>>>))]
cofaction_vendor == [v \in {1} |-> Over(cofaction[v],
    Padded(Body(As(Rec(ofp10_action_vendor_header, <<>>), ofp10_action_vendor_header,
    <<<<"vendor", "exp_id">>>>), "exp_body", Octets)))]
cofaction_set_mpls_ttl == [v \in {3, 4} |-> Over(cofaction[v], Rec(ofp13_action_mpls_ttl,
    <<"mpls_ttl">>))]
cofaction_dec_mpls_ttl == [v \in {3, 4} |-> Over(cofaction[v], Room(Size(ofp13_action_header)))]
cofaction_push_vlan == [v \in {3, 4} |-> Over(cofaction[v], As(Rec(ofp13_action_push, <<>>),
    ofp13_action_push, <<<<"ethertype", "eth_type">>>>))]
cofaction_pop_vlan == [v \in {3, 4} |-> Over(cofaction[v], Room(Size(ofp13_action_header)))]
cofaction_push_mpls == [v \in {3, 4} |-> Over(cofaction[v], As(Rec(ofp13_action_push, <<>>),
    ofp13_action_push, <<<<"ethertype", "eth_type">>>>))]
(* mutant: unpack() loads the ethertype from the field behind it *)
cofaction_pop_mpls_pad == [v \in {3, 4} |-> Over(cofaction[v],
    Load(Store(Rec(ofp13_action_pop_mpls, <<>>), ofp13_action_pop_mpls, <<<<"ethertype", "eth_type">>>>),
         ofp13_action_pop_mpls, <<<<"pad", "eth_type">>>>))]

cofaction_pop_mpls == [v \in {3, 4} |-> Over(cofaction[v], As(Rec(ofp13_action_pop_mpls, <<>>),
    ofp13_action_pop_mpls, <<<<"ethertype", "eth_type">>>>))]
cofaction_group == [v \in {3, 4} |-> Over(cofaction[v], Rec(ofp13_action_group,
    <<"group_id">>))]
cofaction_set_nw_ttl == [v \in {3, 4} |-> Over(cofaction[v], Rec(ofp13_action_nw_ttl,
    <<"nw_ttl">>))]
cofaction_dec_nw_ttl == [v \in {3, 4} |-> Over(cofaction[v], Room(Size(ofp13_action_header)))]
cofaction_copy_ttl_out == [v \in {3, 4} |-> Over(cofaction[v], Room(Size(ofp13_action_header)))]
cofaction_copy_ttl_in == [v \in {3, 4} |-> Over(cofaction[v], Room(Size(ofp13_action_header)))]
cofaction_set_queue == [v \in {3, 4} |-> Over(cofaction[v], Rec(ofp13_action_set_queue,
    <<"queue_id">>))]
cofaction_set_field == [v \in {3, 4} |-> Over(cofaction[v],
    Padded(OwnBody(Room(Size(ofp_action_header) - 4), "oxm", Oxm)))]
cofaction_experimenter == [v \in {3, 4} |-> Over(cofaction[v],
    Padded(Body(As(Rec(ofp13_action_experimenter_header, <<>>),
    ofp13_action_experimenter_header, <<<<"experimenter", "exp_id">>>>), "exp_body", Octets)))]
cofaction_push_pbb == [v \in {3, 4} |-> Over(cofaction[v], As(Rec(ofp13_action_push, <<>>),
    ofp13_action_push, <<<<"ethertype", "eth_type">>>>))]
cofaction_pop_pbb == [v \in {3, 4} |-> Over(cofaction[v], Room(Size(ofp13_action_header)))]
cofmatch ==
     For({1}, Rec(ofp10_match, <<"wildcards", "in_port", "dl_src", "dl_dst", "dl_vlan",
         "dl_vlan_pcp", "dl_type", "nw_tos", "nw_proto", "nw_src", "nw_dst", "tp_src",
         "tp_dst">>))
  @@ For({3, 4}, Padded(Body(Fill(RecIn(2 * Size(U16), ofp13_match, <<"type">>), ofp13_match,
         <<"length">>), "matches", Oxms)))
cofaggr_stats_request ==
     For({1}, Inner(Rec(ofp10_flow_stats_request, <<"table_id", "out_port">>), "match",
         ofp10_flow_stats_request, "match", 40))
  @@ [v \in {3, 4} |-> Body(RecIn(Size(ofp12_flow_stats_request) - Size(ofp12_match),
         ofp12_flow_stats_request, <<"table_id", "out_port", "out_group", "cookie",
         "cookie_mask">>), "match", Of(cofmatch[v]))]
cofaggr_stats_reply ==
     For({1}, Rec(ofp10_aggregate_stats_reply, <<"packet_count", "byte_count", "flow_count">>))
  @@ For({3, 4}, Rec(ofp12_aggregate_stats_reply, <<"packet_count", "byte_count",
         "flow_count">>))
cofasync_config == For({4}, Rec(cofasync_async_config_t, <<"packet_in_mask",
    "port_status_mask", "flow_removed_mask">>))
cofbucket ==
     For({3}, Quiet(Padded(Body(Fill(RecIn(16, ofp12_bucket, <<"weight", "watch_port",
         "watch_group">>), ofp12_bucket, <<"len">>), "actions", Lists))))
  @@ For({4}, Quiet(Padded(Body(Fill(RecIn(16, ofp13_bucket, <<"weight", "watch_port",
         "watch_group">>), ofp13_bucket, <<"len">>), "actions", Lists))))
cofbucket_counter ==
     For({3}, Rec(ofp12_bucket_counter, <<"packet_count", "byte_count">>))
  @@ For({4}, Rec(ofp13_bucket_counter, <<"packet_count", "byte_count">>))
cofdesc_stats_reply ==
     For({1}, Rec(ofp10_desc_stats, <<"mfr_desc", "hw_desc", "sw_desc", "serial_num",
         "dp_desc">>))
  @@ For({3}, Rec(ofp12_desc_stats, <<"mfr_desc", "hw_desc", "sw_desc", "serial_num",
         "dp_desc">>))
  @@ For({4}, RecIn(Size(ofp13_desc), ofp12_desc_stats, <<"mfr_desc", "hw_desc", "sw_desc",
         "serial_num", "dp_desc">>))
cofflowmod ==
     For({1}, Body(Inner(Rec(cofflowmod_ofp10_flow_mod, <<"cookie", "command", "idle_timeout",
         "hard_timeout", "priority", "buffer_id", "out_port", "flags">>), "match",
         cofflowmod_ofp10_flow_mod, "match", Size(ofp10_match)), "actions", Lists))
  @@ [v \in {3, 4} |-> Need(Body(OwnBody(Rec(cofflowmod_ofp13_flow_mod, <<"cookie",
         "cookie_mask", "table_id", "command", "idle_timeout", "hard_timeout", "priority",
         "buffer_id", "out_port", "out_group", "flags">>), "match", Of(cofmatch[v])),
         "instructions", Lists), Size(cofflowmod_ofp13_flow_mod) + Size(ofp13_match))]
cofflow_stats_request ==
     For({1}, Inner(Rec(ofp10_flow_stats_request, <<"table_id", "out_port">>), "match",
         ofp10_flow_stats_request, "match", 40))
  @@ [v \in {3, 4} |-> Body(RecIn(Size(ofp12_flow_stats_request) - Size(ofp12_match),
         ofp12_flow_stats_request, <<"table_id", "out_port", "out_group", "cookie",
         "cookie_mask">>), "match", Of(cofmatch[v]))]
cofflow_stats_reply ==
     For({1}, Body(Inner(Fill(Rec(ofp10_flow_stats, <<"table_id", "duration_sec",
         "duration_nsec", "priority", "idle_timeout", "hard_timeout", "cookie", "packet_count",
         "byte_count">>), ofp10_flow_stats, <<"length">>), "match", ofp10_flow_stats, "match",
         Size(ofp10_match)), "actions", Lists))
  @@ [v \in {3} |-> Need(Body(OwnBody(Fill(RecIn(Size(ofp12_flow_stats) - Size(ofp12_match),
         ofp12_flow_stats, <<"table_id", "duration_sec", "duration_nsec", "priority",
         "idle_timeout", "hard_timeout", "cookie", "packet_count", "byte_count">>),
         ofp12_flow_stats, <<"length">>), "match", Of(cofmatch[v])), "instructions", Lists),
         Size(ofp12_flow_stats))]
  @@ [v \in {4} |-> Need(Body(OwnBody(Fill(RecIn(Size(ofp13_flow_stats) - Size(ofp13_match),
         ofp13_flow_stats, <<"table_id", "duration_sec", "duration_nsec", "priority",
         "idle_timeout", "hard_timeout", "flags", "cookie", "packet_count", "byte_count">>),
         ofp13_flow_stats, <<"length">>), "match", Of(cofmatch[v])), "instructions", Lists),
         Size(ofp13_flow_stats))]
cofgroup_desc_stats_reply ==
     For({3}, Body(Fill(Rec(ofp12_group_desc_stats, <<"type", "group_id">>),
         ofp12_group_desc_stats, <<"length">>), "buckets", Lists))
  @@ For({4}, Body(Fill(Rec(ofp13_group_desc, <<"type", "group_id">>), ofp13_group_desc,
         <<"length">>), "buckets", Lists))
cofgroup_features_stats_reply == For({3, 4}, Rec(ofp12_group_features_stats, <<"types",
    "capabilities", "max_groups", "actions">>))
cofgroupmod == For({3, 4}, Body(Rec(cofgroupmod_ofp_group_mod, <<"command", "type",
    "group_id">>), "buckets", Lists))
cofgroup_stats_request ==
     For({3}, Rec(ofp12_group_stats_request, <<"group_id">>))
  @@ For({4}, Rec(ofp13_group_stats_request, <<"group_id">>))
cofgroup_stats_reply ==
     For({3}, Body(Fill(Rec(ofp12_group_stats, <<"group_id", "ref_count", "packet_count",
         "byte_count">>), ofp12_group_stats, <<"length">>), "bucket_counters", Lists16))
  @@ For({4}, Body(Fill(Rec(ofp13_group_stats, <<"group_id", "ref_count", "packet_count",
         "byte_count", "duration_sec", "duration_nsec">>), ofp13_group_stats, <<"length">>),
         "bucket_counters", Lists16))
cofhello_elem_versionbitmap == For({1, 3, 4, 5}, Padded(OwnBody(Rec(ofp13_hello_elem_header,
    <<"type", "length">>), "bitmaps", Words)))
cofinstruction == For({3, 4}, Fill(Rec(ofp_instruction, <<"type">>), ofp_instruction,
    <<"len">>))
cofinstruction_actions == [v \in {3, 4} |-> Over(cofinstruction[v],
    Body(Room(Size(ofp13_instruction_actions)), "actions", Lists))]
cofinstruction_goto_table == [v \in {3, 4} |-> Over(cofinstruction[v],
    Rec(ofp13_instruction_goto_table, <<"table_id">>))]
cofinstruction_write_metadata == [v \in {3, 4} |-> Over(cofinstruction[v],
    Rec(ofp13_instruction_write_metadata, <<"metadata", "metadata_mask">>))]
cofinstruction_meter == [v \in {4} |-> Over(cofinstruction[v], Rec(ofp13_instruction_meter,
    <<"meter_id">>))]
cofinstruction_experimenter == [v \in {3, 4} |-> Over(cofinstruction[v],
    Body(As(Rec(ofp13_instruction_experimenter, <<>>), ofp13_instruction_experimenter,
    <<<<"experimenter", "exp_id">>>>), "exp_body", Octets))]
cofmeter_band == For({4}, Body(Rec(ofp13_meter_band_header, <<"type", "len", "rate",
    "burst_size">>), "body", Octets))
cofmeter_band_dscp_remark == [v \in {4} |-> Over(cofmeter_band[v],
    Rec(ofp13_meter_band_dscp_remark, <<"prec_level">>))]
cofmeter_band_experimenter == [v \in {4} |-> Over(cofmeter_band[v],
    Body(As(Rec(ofp13_meter_band_experimenter, <<>>), ofp13_meter_band_experimenter,
    <<<<"experimenter", "exp_id">>>>), "exp_body", Octets))]
cofmeter_band_stats == For({4}, Rec(ofp13_meter_band_stats, <<"packet_band_count",
    "byte_band_count">>))
cofmeter_config_request == For({4}, Rec(ofp13_meter_multipart_request, <<"meter_id">>))
cofmeter_config_reply == For({4}, Body(Fill(Rec(ofp13_meter_config, <<"flags", "meter_id">>),
    ofp13_meter_config, <<"length">>), "mbands", Lists))
cofmeter_features_reply == For({4}, Rec(ofp13_meter_features, <<"max_meter", "band_types",
    "capabilities", "max_bands", "max_color">>))
cofmeter_stats_request == For({4}, Rec(ofp13_meter_multipart_request, <<"meter_id">>))
cofmeter_stats_reply == For({4}, Body(Fill(Rec(ofp13_meter_stats, <<"meter_id", "flow_count",
    "packet_in_count", "byte_in_count", "duration_sec", "duration_nsec">>), ofp13_meter_stats,
    <<"len">>), "mbstats", Lists16))
cofpacket_queue ==
     For({1}, OwnBody(Rec(ofp10_packet_queue, <<"queue_id", "len">>), "queue_props", Lists))
  @@ For({3, 4}, OwnBody(As(Rec(ofp13_packet_queue, <<"queue_id", "len">>), ofp13_packet_queue,
         <<<<"port", "port_no">>>>), "queue_props", Lists))
cofport ==
     For({1}, As(Rec(ofp10_port, <<"name", "config", "state", "curr", "advertised",
         "supported", "peer">>), ofp10_port, <<<<"port_no", "portno">>, <<"hw_addr",
         "hwaddr">>>>))
  @@ For({3}, As(Rec(ofp12_port, <<"name", "config", "state", "curr", "advertised",
         "supported", "peer", "curr_speed", "max_speed">>), ofp12_port, <<<<"port_no",
         "portno">>, <<"hw_addr", "hwaddr">>>>))
  @@ For({4}, As(RecIn(Size(ofp13_port), ofp12_port, <<"name", "config", "state", "curr",
         "advertised", "supported", "peer", "curr_speed", "max_speed">>), ofp12_port,
         <<<<"port_no", "portno">>, <<"hw_addr", "hwaddr">>>>))
  @@ For({5}, Body(As(Rec(ofp14_port, <<"name", "config", "state">>), ofp14_port,
         <<<<"port_no", "portno">>, <<"hw_addr", "hwaddr">>>>), "properties", Lists))
cofportdesc_prop == For({5}, As(Rec(ofp14_port_desc_prop_header, <<"type">>),
    ofp14_port_desc_prop_header, <<<<"length", "len">>>>))
cofportdesc_prop_ethernet == [v \in {5} |-> Over(cofportdesc_prop[v],
    Rec(ofp14_port_desc_prop_ethernet, <<"curr", "advertised", "supported", "peer",
    "curr_speed", "max_speed">>))]
cofportdesc_prop_optical == [v \in {5} |-> Over(cofportdesc_prop[v],
    Conv(Conv(Rec(ofp14_port_desc_prop_optical, <<"supported", "tx_min_freq_lmda",
    "tx_max_freq_lmda", "tx_grid_freq_lmda", "rx_min_freq_lmda", "rx_max_freq_lmda",
    "rx_grid_freq_lmda">>), ofp14_port_desc_prop_optical, "tx_pwr_min", 4),
    ofp14_port_desc_prop_optical, "tx_pwr_max", 4))]
cofportdesc_prop_experimenter == [v \in {5} |-> Over(cofportdesc_prop[v],
    Body(As(Rec(ofp14_port_desc_prop_experimenter, <<"exp_type">>),
    ofp14_port_desc_prop_experimenter, <<<<"experimenter", "exp_id">>>>), "exp_body", Octets))]
cofport_stats_request ==
     For({1}, Rec(ofp10_port_stats_request, <<"port_no">>))
  @@ For({3}, Rec(ofp12_port_stats_request, <<"port_no">>))
  @@ For({4}, Rec(ofp13_port_stats_request, <<"port_no">>))
cofport_stats_reply ==
     For({1}, Rec(ofp10_port_stats, <<"port_no", "rx_packets", "tx_packets", "rx_bytes",
         "tx_bytes", "rx_dropped", "tx_dropped", "rx_errors", "tx_errors", "rx_frame_err",
         "rx_over_err", "rx_crc_err", "collisions">>))
  @@ For({3}, Rec(ofp12_port_stats, <<"port_no", "rx_packets", "tx_packets", "rx_bytes",
         "tx_bytes", "rx_dropped", "tx_dropped", "rx_errors", "tx_errors", "rx_frame_err",
         "rx_over_err", "rx_crc_err", "collisions">>))
  @@ For({4}, Rec(ofp13_port_stats, <<"port_no", "rx_packets", "tx_packets", "rx_bytes",
         "tx_bytes", "rx_dropped", "tx_dropped", "rx_errors", "tx_errors", "rx_frame_err",
         "rx_over_err", "rx_crc_err", "collisions", "duration_sec", "duration_nsec">>))
cofqueue_prop == For({1, 3, 4}, Rec(ofp13_queue_prop_header, <<"property", "len">>))
cofqueue_prop_min_rate == [v \in {1, 3, 4} |-> Over(cofqueue_prop[v],
    As(Rec(ofp13_queue_prop_min_rate, <<>>), ofp13_queue_prop_min_rate, <<<<"rate",
    "min_rate">>>>))]
cofqueue_prop_max_rate == [v \in {1, 3, 4} |-> Over(cofqueue_prop[v],
    As(Rec(ofp13_queue_prop_max_rate, <<>>), ofp13_queue_prop_max_rate, <<<<"rate",
    "max_rate">>>>))]
cofqueue_prop_experimenter == [v \in {1, 3, 4} |-> Over(cofqueue_prop[v],
    Body(As(Rec(ofp13_queue_prop_experimenter, <<>>), ofp13_queue_prop_experimenter,
    <<<<"experimenter", "exp_id">>>>), "exp_body", Octets))]
cofqueue_stats_request ==
     For({1}, Rec(ofp10_queue_stats_request, <<"port_no", "queue_id">>))
  @@ For({3}, Rec(ofp12_queue_stats_request, <<"port_no", "queue_id">>))
  @@ For({4}, Rec(ofp13_queue_stats_request, <<"port_no", "queue_id">>))
cofqueue_stats_reply ==
     For({1}, Rec(ofp10_queue_stats, <<"port_no", "queue_id", "tx_bytes", "tx_packets",
         "tx_errors">>))
  @@ For({3}, Rec(ofp12_queue_stats, <<"port_no", "queue_id", "tx_bytes", "tx_packets",
         "tx_errors">>))
  @@ For({4}, Rec(ofp13_queue_stats, <<"port_no", "queue_id", "tx_bytes", "tx_packets",
         "tx_errors", "duration_sec", "duration_nsec">>))
(* mutants: unpack() checks for the role alone; unpack() wants more than pack() writes *)
cofrole_unchecked == For({3, 4}, Need(Rec(cofrole_role_t, <<"role", "generation_id">>), 4))
cofrole_strict    == For({3, 4}, Need(Rec(cofrole_role_t, <<"role", "generation_id">>), 17))

cofrole == For({3, 4}, Rec(cofrole_role_t, <<"role", "generation_id">>))
coftable_feature_prop_instructions == For({1, 3, 4, 5},
    Padded(Body(Rec(ofp13_table_feature_prop_header, <<"type", "length">>), "instructions_ids",
    Skipped(Words))))
coftable_feature_prop_next_tables == For({1, 3, 4, 5},
    Padded(OwnBody(Rec(ofp13_table_feature_prop_header, <<"type", "length">>),
    "next_table_ids", Octets)))
coftable_feature_prop_actions == For({1, 3, 4, 5},
    Padded(OwnBody(Rec(ofp13_table_feature_prop_header, <<"type", "length">>), "actions",
    Words)))
coftable_feature_prop_oxm == For({1, 3, 4, 5},
    Padded(OwnBody(Rec(ofp13_table_feature_prop_header, <<"type", "length">>), "oxm_ids",
    Words)))
coftable_features == For({4}, Body(Fill(Rec(ofp13_table_features, <<"table_id", "name",
    "metadata_match", "metadata_write", "config", "max_entries">>), ofp13_table_features,
    <<"length">>), "properties", Lists))
coftablemod_prop == For({5}, As(Rec(ofp14_table_mod_prop_header, <<"type">>),
    ofp14_table_mod_prop_header, <<<<"length", "len">>>>))
coftablemod_prop_eviction == [v \in {5} |-> Over(coftablemod_prop[v],
    Rec(ofp14_table_mod_prop_eviction, <<"flags">>))]
coftablemod_prop_vacancy == [v \in {5} |-> Over(coftablemod_prop[v],
    Rec(ofp14_table_mod_prop_vacancy, <<"vacancy_down", "vacancy_up", "vacancy">>))]
coftablemod_prop_experimenter == [v \in {5} |-> Over(coftablemod_prop[v],
    Body(As(Rec(ofp14_table_mod_prop_experimenter, <<"exp_type">>),
    ofp14_table_mod_prop_experimenter, <<<<"experimenter", "exp_id">>>>), "exp_body", Octets))]
coftable_stats_reply ==
     For({1}, Rec(ofp10_table_stats, <<"table_id", "name", "wildcards", "max_entries",
         "active_count", "lookup_count", "matched_count">>))
  @@ For({3}, Rec(ofp12_table_stats, <<"table_id", "name", "match", "wildcards",
         "write_actions", "apply_actions", "write_setfields", "apply_setfields",
         "metadata_match", "metadata_write", "instructions", "config", "max_entries",
         "active_count", "lookup_count", "matched_count">>))
  @@ For({4}, Rec(ofp13_table_stats, <<"table_id", "active_count", "lookup_count",
         "matched_count">>))
=============================================================================
