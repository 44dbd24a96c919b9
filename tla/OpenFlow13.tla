------------------------------ MODULE OpenFlow13 ------------------------------
(* The structs of openflow/openflow13.h (OpenFlow 1.3) that the codecs use, field by field. *)
EXTENDS OpenFlow12

ofp13_header == Struct(<<<<"version", U8>>, <<"type", U8>>,
  <<"length", U16>>, <<"xid", U32>>>>)
ofp13_port == Struct(<<<<"port_no", U32>>, <<"pad", Arr(U8, 4)>>,
  <<"hw_addr", Arr(U8, 6)>>, <<"pad2", Arr(U8, 2)>>,
  <<"name", Arr(U8, 16)>>, <<"config", U32>>, <<"state", U32>>,
  <<"curr", U32>>, <<"advertised", U32>>, <<"supported", U32>>,
  <<"peer", U32>>, <<"curr_speed", U32>>, <<"max_speed", U32>>>>)
ofp13_queue_prop_header == Struct(<<<<"property", U16>>, <<"len", U16>>,
  <<"pad", Arr(U8, 4)>>>>)
ofp13_packet_queue == Struct(<<<<"queue_id", U32>>, <<"port", U32>>,
  <<"len", U16>>, <<"pad", Arr(U8, 6)>>,
  <<"properties", Arr(ofp13_queue_prop_header, 0)>>>>)
ofp13_queue_prop_min_rate == Struct(<<
  <<"prop_header", ofp13_queue_prop_header>>, <<"rate", U16>>,
  <<"pad", Arr(U8, 6)>>>>)
ofp13_queue_prop_max_rate == Struct(<<
  <<"prop_header", ofp13_queue_prop_header>>, <<"rate", U16>>,
  <<"pad", Arr(U8, 6)>>>>)
ofp13_queue_prop_experimenter == Struct(<<
  <<"prop_header", ofp13_queue_prop_header>>, <<"experimenter", U32>>,
  <<"pad", Arr(U8, 4)>>, <<"data", Arr(U8, 0)>>>>)
ofp13_match == Struct(<<<<"type", U16>>, <<"length", U16>>,
  <<"oxm_fields", Arr(U8, 0)>>, <<"pad", Arr(U8, 4)>>>>)
ofp13_instruction_goto_table == Struct(<<<<"type", U16>>, <<"len", U16>>,
  <<"table_id", U8>>, <<"pad", Arr(U8, 3)>>>>)
ofp13_instruction_write_metadata == Struct(<<<<"type", U16>>,
  <<"len", U16>>, <<"pad", Arr(U8, 4)>>, <<"metadata", U64>>,
  <<"metadata_mask", U64>>>>)
ofp13_action_header == Struct(<<<<"type", U16>>, <<"len", U16>>,
  <<"pad", Arr(U8, 4)>>>>)
ofp13_instruction_actions == Struct(<<<<"type", U16>>, <<"len", U16>>,
  <<"pad", Arr(U8, 4)>>, <<"actions", Arr(ofp13_action_header, 0)>>>>)
ofp13_instruction_meter == Struct(<<<<"type", U16>>, <<"len", U16>>,
  <<"meter_id", U32>>>>)
ofp13_instruction_experimenter == Struct(<<<<"type", U16>>, <<"len", U16>>,
  <<"experimenter", U32>>, <<"body", Arr(U8, 0)>>>>)
ofp13_action_output == Struct(<<<<"type", U16>>, <<"len", U16>>,
  <<"port", U32>>, <<"max_len", U16>>, <<"pad", Arr(U8, 6)>>>>)
ofp13_action_group == Struct(<<<<"type", U16>>, <<"len", U16>>,
  <<"group_id", U32>>>>)
ofp13_action_set_queue == Struct(<<<<"type", U16>>, <<"len", U16>>,
  <<"queue_id", U32>>>>)
ofp13_action_mpls_ttl == Struct(<<<<"type", U16>>, <<"len", U16>>,
  <<"mpls_ttl", U8>>, <<"pad", Arr(U8, 3)>>>>)
ofp13_action_nw_ttl == Struct(<<<<"type", U16>>, <<"len", U16>>,
  <<"nw_ttl", U8>>, <<"pad", Arr(U8, 3)>>>>)
ofp13_action_push == Struct(<<<<"type", U16>>, <<"len", U16>>,
  <<"ethertype", U16>>, <<"pad", Arr(U8, 2)>>>>)
ofp13_action_pop_mpls == Struct(<<<<"type", U16>>, <<"len", U16>>,
  <<"ethertype", U16>>, <<"pad", Arr(U8, 2)>>>>)
ofp13_action_experimenter_header == Struct(<<<<"type", U16>>,
  <<"len", U16>>, <<"experimenter", U32>>, <<"data", Arr(U8, 0)>>>>)
ofp13_switch_features == Struct(<<<<"header", ofp13_header>>,
  <<"datapath_id", U64>>, <<"n_buffers", U32>>, <<"n_tables", U8>>,
  <<"auxiliary_id", U8>>, <<"pad", Arr(U8, 2)>>, <<"capabilities", U32>>,
  <<"reserved", U32>>>>)
ofp13_table_mod == Struct(<<<<"header", ofp13_header>>, <<"table_id", U8>>,
  <<"pad", Arr(U8, 3)>>, <<"config", U32>>>>)
ofp13_bucket == Struct(<<<<"len", U16>>, <<"weight", U16>>,
  <<"watch_port", U32>>, <<"watch_group", U32>>, <<"pad", Arr(U8, 4)>>,
  <<"actions", Arr(ofp13_action_header, 0)>>>>)
ofp13_port_mod == Struct(<<<<"header", ofp13_header>>, <<"port_no", U32>>,
  <<"pad", Arr(U8, 4)>>, <<"hw_addr", Arr(U8, 6)>>, <<"pad2", Arr(U8, 2)>>,
  <<"config", U32>>, <<"mask", U32>>, <<"advertise", U32>>,
  <<"pad3", Arr(U8, 4)>>>>)
ofp13_meter_band_header == Struct(<<<<"type", U16>>, <<"len", U16>>,
  <<"rate", U32>>, <<"burst_size", U32>>, <<"body", Arr(U8, 0)>>>>)
ofp13_meter_mod == Struct(<<<<"header", ofp13_header>>, <<"command", U16>>,
  <<"flags", U16>>, <<"meter_id", U32>>,
  <<"bands", Arr(ofp13_meter_band_header, 0)>>>>)
ofp13_meter_band_dscp_remark == Struct(<<<<"type", U16>>, <<"len", U16>>,
  <<"rate", U32>>, <<"burst_size", U32>>, <<"prec_level", U8>>,
  <<"pad", Arr(U8, 3)>>>>)
ofp13_meter_band_experimenter == Struct(<<<<"type", U16>>, <<"len", U16>>,
  <<"rate", U32>>, <<"burst_size", U32>>, <<"experimenter", U32>>,
  <<"body", Arr(U8, 0)>>>>)
ofp13_multipart_request == Struct(<<<<"header", ofp13_header>>,
  <<"type", U16>>, <<"flags", U16>>, <<"pad", Arr(U8, 4)>>,
  <<"body", Arr(U8, 0)>>>>)
ofp13_multipart_reply == Struct(<<<<"header", ofp13_header>>,
  <<"type", U16>>, <<"flags", U16>>, <<"pad", Arr(U8, 4)>>,
  <<"body", Arr(U8, 0)>>>>)
ofp13_desc == Struct(<<<<"mfr_desc", Arr(U8, 256)>>,
  <<"hw_desc", Arr(U8, 256)>>, <<"sw_desc", Arr(U8, 256)>>,
  <<"serial_num", Arr(U8, 32)>>, <<"dp_desc", Arr(U8, 256)>>>>)
ofp13_flow_stats == Struct(<<<<"length", U16>>, <<"table_id", U8>>,
  <<"pad", U8>>, <<"duration_sec", U32>>, <<"duration_nsec", U32>>,
  <<"priority", U16>>, <<"idle_timeout", U16>>, <<"hard_timeout", U16>>,
  <<"flags", U16>>, <<"pad2", Arr(U8, 4)>>, <<"cookie", U64>>,
  <<"packet_count", U64>>, <<"byte_count", U64>>, <<"match", ofp13_match>>>>)
ofp13_table_stats == Struct(<<<<"table_id", U8>>, <<"pad", Arr(U8, 3)>>,
  <<"active_count", U32>>, <<"lookup_count", U64>>, <<"matched_count", U64>>>>)
ofp13_table_feature_prop_header == Struct(<<<<"type", U16>>,
  <<"length", U16>>>>)
ofp13_table_features == Struct(<<<<"length", U16>>, <<"table_id", U8>>,
  <<"pad", Arr(U8, 5)>>, <<"name", Arr(U8, 32)>>,
  <<"metadata_match", U64>>, <<"metadata_write", U64>>, <<"config", U32>>,
  <<"max_entries", U32>>,
  <<"properties", Arr(ofp13_table_feature_prop_header, 0)>>>>)
ofp13_port_stats_request == Struct(<<<<"port_no", U32>>,
  <<"pad", Arr(U8, 4)>>>>)
ofp13_port_stats == Struct(<<<<"port_no", U32>>, <<"pad", Arr(U8, 4)>>,
  <<"rx_packets", U64>>, <<"tx_packets", U64>>, <<"rx_bytes", U64>>,
  <<"tx_bytes", U64>>, <<"rx_dropped", U64>>, <<"tx_dropped", U64>>,
  <<"rx_errors", U64>>, <<"tx_errors", U64>>, <<"rx_frame_err", U64>>,
  <<"rx_over_err", U64>>, <<"rx_crc_err", U64>>, <<"collisions", U64>>,
  <<"duration_sec", U32>>, <<"duration_nsec", U32>>>>)
ofp13_queue_stats_request == Struct(<<<<"port_no", U32>>,
  <<"queue_id", U32>>>>)
ofp13_queue_stats == Struct(<<<<"port_no", U32>>, <<"queue_id", U32>>,
  <<"tx_bytes", U64>>, <<"tx_packets", U64>>, <<"tx_errors", U64>>,
  <<"duration_sec", U32>>, <<"duration_nsec", U32>>>>)
ofp13_group_stats_request == Struct(<<<<"group_id", U32>>,
  <<"pad", Arr(U8, 4)>>>>)
ofp13_bucket_counter == Struct(<<<<"packet_count", U64>>,
  <<"byte_count", U64>>>>)
ofp13_group_stats == Struct(<<<<"length", U16>>, <<"pad", Arr(U8, 2)>>,
  <<"group_id", U32>>, <<"ref_count", U32>>, <<"pad2", Arr(U8, 4)>>,
  <<"packet_count", U64>>, <<"byte_count", U64>>, <<"duration_sec", U32>>,
  <<"duration_nsec", U32>>, <<"bucket_stats", Arr(ofp13_bucket_counter, 0)>>>>)
ofp13_group_desc == Struct(<<<<"length", U16>>, <<"type", U8>>,
  <<"pad", U8>>, <<"group_id", U32>>, <<"buckets", Arr(ofp13_bucket, 0)>>>>)
ofp13_meter_multipart_request == Struct(<<<<"meter_id", U32>>,
  <<"pad", Arr(U8, 4)>>>>)
ofp13_meter_band_stats == Struct(<<<<"packet_band_count", U64>>,
  <<"byte_band_count", U64>>>>)
ofp13_meter_stats == Struct(<<<<"meter_id", U32>>, <<"len", U16>>,
  <<"pad", Arr(U8, 6)>>, <<"flow_count", U32>>, <<"packet_in_count", U64>>,
  <<"byte_in_count", U64>>, <<"duration_sec", U32>>,
  <<"duration_nsec", U32>>, <<"band_stats", Arr(ofp13_meter_band_stats, 0)>>>>)
ofp13_meter_config == Struct(<<<<"length", U16>>, <<"flags", U16>>,
  <<"meter_id", U32>>, <<"bands", Arr(ofp13_meter_band_header, 0)>>>>)
ofp13_meter_features == Struct(<<<<"max_meter", U32>>,
  <<"band_types", U32>>, <<"capabilities", U32>>, <<"max_bands", U8>>,
  <<"max_color", U8>>, <<"pad", Arr(U8, 2)>>>>)
ofp13_experimenter_multipart_header == Struct(<<<<"experimenter", U32>>,
  <<"exp_type", U32>>>>)
ofp13_queue_get_config_request == Struct(<<<<"header", ofp13_header>>,
  <<"port", U32>>, <<"pad", Arr(U8, 4)>>>>)
ofp13_queue_get_config_reply == Struct(<<<<"header", ofp13_header>>,
  <<"port", U32>>, <<"pad", Arr(U8, 4)>>,
  <<"queues", Arr(ofp13_packet_queue, 0)>>>>)
ofp13_packet_in == Struct(<<<<"header", ofp13_header>>,
  <<"buffer_id", U32>>, <<"total_len", U16>>, <<"reason", U8>>,
  <<"table_id", U8>>, <<"cookie", U64>>, <<"match", ofp13_match>>>>)
ofp13_flow_removed == Struct(<<<<"header", ofp13_header>>,
  <<"cookie", U64>>, <<"priority", U16>>, <<"reason", U8>>,
  <<"table_id", U8>>, <<"duration_sec", U32>>, <<"duration_nsec", U32>>,
  <<"idle_timeout", U16>>, <<"hard_timeout", U16>>,
  <<"packet_count", U64>>, <<"byte_count", U64>>, <<"match", ofp13_match>>>>)
ofp13_port_status == Struct(<<<<"header", ofp13_header>>, <<"reason", U8>>,
  <<"pad", Arr(U8, 7)>>, <<"desc", ofp13_port>>>>)
ofp13_hello_elem_header == Struct(<<<<"type", U16>>, <<"length", U16>>>>)
ofp13_experimenter_header == Struct(<<<<"header", ofp13_header>>,
  <<"experimenter", U32>>, <<"exp_type", U32>>, <<"body", Arr(U8, 0)>>>>)

(* The OFP_ASSERTs that follow the structs in the header. *)
ASSUME OpenFlow13Asserts ==
    /\ Size(ofp13_header) = 8 /\ Size(ofp13_port) = 64
    /\ Size(ofp13_queue_prop_header) = 8 /\ Size(ofp13_packet_queue) = 16
    /\ Size(ofp13_queue_prop_min_rate) = 16 /\ Size(ofp13_queue_prop_max_rate) = 16
    /\ Size(ofp13_queue_prop_experimenter) = 16 /\ Size(ofp13_match) = 8
    /\ Size(ofp13_instruction_goto_table) = 8 /\ Size(ofp13_instruction_write_metadata) = 24
    /\ Size(ofp13_action_header) = 8 /\ Size(ofp13_instruction_actions) = 8
    /\ Size(ofp13_instruction_meter) = 8 /\ Size(ofp13_instruction_experimenter) = 8
    /\ Size(ofp13_action_output) = 16 /\ Size(ofp13_action_group) = 8
    /\ Size(ofp13_action_set_queue) = 8 /\ Size(ofp13_action_mpls_ttl) = 8
    /\ Size(ofp13_action_nw_ttl) = 8 /\ Size(ofp13_action_push) = 8
    /\ Size(ofp13_action_pop_mpls) = 8 /\ Size(ofp13_action_experimenter_header) = 8
    /\ Size(ofp13_switch_features) = 32 /\ Size(ofp13_table_mod) = 16
    /\ Size(ofp13_bucket) = 16 /\ Size(ofp13_port_mod) = 40
    /\ Size(ofp13_meter_band_header) = 12 /\ Size(ofp13_meter_mod) = 16
    /\ Size(ofp13_meter_band_dscp_remark) = 16 /\ Size(ofp13_meter_band_experimenter) = 16
    /\ Size(ofp13_multipart_request) = 16 /\ Size(ofp13_multipart_reply) = 16
    /\ Size(ofp13_desc) = 1056 /\ Size(ofp13_flow_stats) = 56
    /\ Size(ofp13_table_stats) = 24 /\ Size(ofp13_table_feature_prop_header) = 4
    /\ Size(ofp13_table_features) = 64 /\ Size(ofp13_port_stats_request) = 8
    /\ Size(ofp13_port_stats) = 112 /\ Size(ofp13_queue_stats_request) = 8
    /\ Size(ofp13_queue_stats) = 40 /\ Size(ofp13_group_stats_request) = 8
    /\ Size(ofp13_bucket_counter) = 16 /\ Size(ofp13_group_stats) = 40
    /\ Size(ofp13_group_desc) = 8 /\ Size(ofp13_meter_multipart_request) = 8
    /\ Size(ofp13_meter_band_stats) = 16 /\ Size(ofp13_meter_stats) = 40
    /\ Size(ofp13_meter_config) = 8 /\ Size(ofp13_meter_features) = 16
    /\ Size(ofp13_experimenter_multipart_header) = 8 /\ Size(ofp13_queue_get_config_request) = 16
    /\ Size(ofp13_queue_get_config_reply) = 16 /\ Size(ofp13_packet_in) = 32
    /\ Size(ofp13_flow_removed) = 56 /\ Size(ofp13_port_status) = 80
    /\ Size(ofp13_hello_elem_header) = 4 /\ Size(ofp13_experimenter_header) = 16
=============================================================================
