------------------------------ MODULE OpenFlow12 ------------------------------
(* The structs of openflow/openflow12.h (OpenFlow 1.2) that the codecs use, field by field. *)
EXTENDS OpenFlow10

ofp12_header == Struct(<<<<"version", U8>>, <<"type", U8>>,
  <<"length", U16>>, <<"xid", U32>>>>)
ofp12_port == Struct(<<<<"port_no", U32>>, <<"pad", Arr(U8, 4)>>,
  <<"hw_addr", Arr(U8, 6)>>, <<"pad2", Arr(U8, 2)>>,
  <<"name", Arr(U8, 16)>>, <<"config", U32>>, <<"state", U32>>,
  <<"curr", U32>>, <<"advertised", U32>>, <<"supported", U32>>,
  <<"peer", U32>>, <<"curr_speed", U32>>, <<"max_speed", U32>>>>)
ofp12_switch_features == Struct(<<<<"header", ofp12_header>>,
  <<"datapath_id", U64>>, <<"n_buffers", U32>>, <<"n_tables", U8>>,
  <<"pad", Arr(U8, 3)>>, <<"capabilities", U32>>, <<"reserved", U32>>,
  <<"ports", Arr(ofp12_port, 0)>>>>)
ofp12_port_status == Struct(<<<<"header", ofp12_header>>, <<"reason", U8>>,
  <<"pad", Arr(U8, 7)>>, <<"desc", ofp12_port>>>>)
ofp12_port_mod == Struct(<<<<"header", ofp12_header>>, <<"port_no", U32>>,
  <<"pad", Arr(U8, 4)>>, <<"hw_addr", Arr(U8, 6)>>, <<"pad2", Arr(U8, 2)>>,
  <<"config", U32>>, <<"mask", U32>>, <<"advertise", U32>>,
  <<"pad3", Arr(U8, 4)>>>>)
ofp12_match == Struct(<<<<"type", U16>>, <<"length", U16>>,
  <<"oxm_fields", Arr(U8, 4)>>>>)
ofp12_packet_in == Struct(<<<<"header", ofp12_header>>,
  <<"buffer_id", U32>>, <<"total_len", U16>>, <<"reason", U8>>,
  <<"table_id", U8>>, <<"match", ofp12_match>>>>)
ofp12_action_header == Struct(<<<<"type", U16>>, <<"len", U16>>,
  <<"pad", Arr(U8, 4)>>>>)
ofp12_packet_out == Struct(<<<<"header", ofp12_header>>,
  <<"buffer_id", U32>>, <<"in_port", U32>>, <<"actions_len", U16>>,
  <<"pad", Arr(U8, 6)>>, <<"actions", Arr(ofp12_action_header, 0)>>>>)
ofp12_bucket == Struct(<<<<"len", U16>>, <<"weight", U16>>,
  <<"watch_port", U32>>, <<"watch_group", U32>>, <<"pad", Arr(U8, 4)>>,
  <<"actions", Arr(ofp12_action_header, 0)>>>>)
ofp12_stats_request == Struct(<<<<"header", ofp12_header>>,
  <<"type", U16>>, <<"flags", U16>>, <<"pad", Arr(U8, 4)>>,
  <<"body", Arr(U8, 0)>>>>)
ofp12_stats_reply == Struct(<<<<"header", ofp12_header>>, <<"type", U16>>,
  <<"flags", U16>>, <<"pad", Arr(U8, 4)>>, <<"body", Arr(U8, 0)>>>>)
ofp12_desc_stats == Struct(<<<<"mfr_desc", Arr(U8, 256)>>,
  <<"hw_desc", Arr(U8, 256)>>, <<"sw_desc", Arr(U8, 256)>>,
  <<"serial_num", Arr(U8, 32)>>, <<"dp_desc", Arr(U8, 256)>>>>)
ofp12_flow_stats_request == Struct(<<<<"table_id", U8>>,
  <<"pad", Arr(U8, 3)>>, <<"out_port", U32>>, <<"out_group", U32>>,
  <<"pad2", Arr(U8, 4)>>, <<"cookie", U64>>, <<"cookie_mask", U64>>,
  <<"match", ofp12_match>>>>)
ofp12_flow_stats == Struct(<<<<"length", U16>>, <<"table_id", U8>>,
  <<"pad", U8>>, <<"duration_sec", U32>>, <<"duration_nsec", U32>>,
  <<"priority", U16>>, <<"idle_timeout", U16>>, <<"hard_timeout", U16>>,
  <<"pad2", Arr(U8, 6)>>, <<"cookie", U64>>, <<"packet_count", U64>>,
  <<"byte_count", U64>>, <<"match", ofp12_match>>>>)
ofp12_aggregate_stats_reply == Struct(<<<<"packet_count", U64>>,
  <<"byte_count", U64>>, <<"flow_count", U32>>, <<"pad", Arr(U8, 4)>>>>)
ofp12_table_stats == Struct(<<<<"table_id", U8>>, <<"pad", Arr(U8, 7)>>,
  <<"name", Arr(U8, 32)>>, <<"match", U64>>, <<"wildcards", U64>>,
  <<"write_actions", U32>>, <<"apply_actions", U32>>,
  <<"write_setfields", U64>>, <<"apply_setfields", U64>>,
  <<"metadata_match", U64>>, <<"metadata_write", U64>>,
  <<"instructions", U32>>, <<"config", U32>>, <<"max_entries", U32>>,
  <<"active_count", U32>>, <<"lookup_count", U64>>, <<"matched_count", U64>>>>)
ofp12_port_stats_request == Struct(<<<<"port_no", U32>>,
  <<"pad", Arr(U8, 4)>>>>)
ofp12_port_stats == Struct(<<<<"port_no", U32>>, <<"pad", Arr(U8, 4)>>,
  <<"rx_packets", U64>>, <<"tx_packets", U64>>, <<"rx_bytes", U64>>,
  <<"tx_bytes", U64>>, <<"rx_dropped", U64>>, <<"tx_dropped", U64>>,
  <<"rx_errors", U64>>, <<"tx_errors", U64>>, <<"rx_frame_err", U64>>,
  <<"rx_over_err", U64>>, <<"rx_crc_err", U64>>, <<"collisions", U64>>>>)
ofp12_group_stats_request == Struct(<<<<"group_id", U32>>,
  <<"pad", Arr(U8, 4)>>>>)
ofp12_bucket_counter == Struct(<<<<"packet_count", U64>>,
  <<"byte_count", U64>>>>)
ofp12_group_stats == Struct(<<<<"length", U16>>, <<"pad", Arr(U8, 2)>>,
  <<"group_id", U32>>, <<"ref_count", U32>>, <<"pad2", Arr(U8, 4)>>,
  <<"packet_count", U64>>, <<"byte_count", U64>>,
  <<"bucket_stats", Arr(ofp12_bucket_counter, 0)>>>>)
ofp12_group_desc_stats == Struct(<<<<"length", U16>>, <<"type", U8>>,
  <<"pad", U8>>, <<"group_id", U32>>, <<"buckets", Arr(ofp12_bucket, 0)>>>>)
ofp12_group_features_stats == Struct(<<<<"types", U32>>,
  <<"capabilities", U32>>, <<"max_groups", Arr(U32, 4)>>,
  <<"actions", Arr(U32, 4)>>>>)
ofp12_experimenter_header == Struct(<<<<"header", ofp12_header>>,
  <<"experimenter", U32>>, <<"exp_type", U32>>, <<"body", Arr(U8, 0)>>>>)
ofp12_queue_prop_header == Struct(<<<<"property", U16>>, <<"len", U16>>,
  <<"pad", Arr(U8, 4)>>>>)
ofp12_packet_queue == Struct(<<<<"queue_id", U32>>, <<"port", U32>>,
  <<"len", U16>>, <<"pad", Arr(U8, 6)>>,
  <<"properties", Arr(ofp12_queue_prop_header, 0)>>>>)
ofp12_queue_get_config_request == Struct(<<<<"header", ofp12_header>>,
  <<"port", U32>>, <<"pad", Arr(U8, 4)>>>>)
ofp12_queue_get_config_reply == Struct(<<<<"header", ofp12_header>>,
  <<"port", U32>>, <<"pad", Arr(U8, 4)>>,
  <<"queues", Arr(ofp12_packet_queue, 0)>>>>)
ofp12_queue_stats_request == Struct(<<<<"port_no", U32>>,
  <<"queue_id", U32>>>>)
ofp12_queue_stats == Struct(<<<<"port_no", U32>>, <<"queue_id", U32>>,
  <<"tx_bytes", U64>>, <<"tx_packets", U64>>, <<"tx_errors", U64>>>>)

(* The OFP_ASSERTs that follow the structs in the header. *)
ASSUME OpenFlow12Asserts ==
    /\ Size(ofp12_header) = 8 /\ Size(ofp12_port) = 64
    /\ Size(ofp12_switch_features) = 32 /\ Size(ofp12_port_status) = 80
    /\ Size(ofp12_port_mod) = 40 /\ Size(ofp12_match) = 8
    /\ Size(ofp12_packet_in) = 24 /\ Size(ofp12_action_header) = 8
    /\ Size(ofp12_packet_out) = 24 /\ Size(ofp12_bucket) = 16
    /\ Size(ofp12_stats_request) = 16 /\ Size(ofp12_stats_reply) = 16
    /\ Size(ofp12_desc_stats) = 1056 /\ Size(ofp12_flow_stats_request) = 40
    /\ Size(ofp12_flow_stats) = 56 /\ Size(ofp12_aggregate_stats_reply) = 24
    /\ Size(ofp12_table_stats) = 128 /\ Size(ofp12_port_stats_request) = 8
    /\ Size(ofp12_port_stats) = 104 /\ Size(ofp12_group_stats_request) = 8
    /\ Size(ofp12_bucket_counter) = 16 /\ Size(ofp12_group_stats) = 32
    /\ Size(ofp12_group_desc_stats) = 8 /\ Size(ofp12_group_features_stats) = 40
    /\ Size(ofp12_experimenter_header) = 16 /\ Size(ofp12_queue_prop_header) = 8
    /\ Size(ofp12_packet_queue) = 16 /\ Size(ofp12_queue_get_config_request) = 16
    /\ Size(ofp12_queue_get_config_reply) = 16 /\ Size(ofp12_queue_stats_request) = 8
    /\ Size(ofp12_queue_stats) = 32
=============================================================================
