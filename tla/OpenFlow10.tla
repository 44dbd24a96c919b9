------------------------------ MODULE OpenFlow10 ------------------------------
(* The structs of openflow/openflow10.h (OpenFlow 1.0) that the codecs use, field by field. *)
EXTENDS OpenFlowCommon

ofp10_header == Struct(<<<<"version", U8>>, <<"type", U8>>,
  <<"length", U16>>, <<"xid", U32>>>>)
ofp10_switch_config == Struct(<<<<"header", ofp10_header>>,
  <<"flags", U16>>, <<"miss_send_len", U16>>>>)
ofp10_port == Struct(<<<<"port_no", U16>>, <<"hw_addr", Arr(U8, 6)>>,
  <<"name", Arr(U8, 16)>>, <<"config", U32>>, <<"state", U32>>,
  <<"curr", U32>>, <<"advertised", U32>>, <<"supported", U32>>,
  <<"peer", U32>>>>)
ofp10_switch_features == Struct(<<<<"header", ofp10_header>>,
  <<"datapath_id", U64>>, <<"n_buffers", U32>>, <<"n_tables", U8>>,
  <<"pad", Arr(U8, 3)>>, <<"capabilities", U32>>, <<"actions", U32>>,
  <<"ports", Arr(ofp10_port, 0)>>>>)
ofp10_port_status == Struct(<<<<"header", ofp10_header>>, <<"reason", U8>>,
  <<"pad", Arr(U8, 7)>>, <<"desc", ofp10_port>>>>)
ofp10_port_mod == Struct(<<<<"header", ofp10_header>>, <<"port_no", U16>>,
  <<"hw_addr", Arr(U8, 6)>>, <<"config", U32>>, <<"mask", U32>>,
  <<"advertise", U32>>, <<"pad", Arr(U8, 4)>>>>)
ofp10_packet_in == Struct(<<<<"header", ofp10_header>>,
  <<"buffer_id", U32>>, <<"total_len", U16>>, <<"in_port", U16>>,
  <<"reason", U8>>, <<"pad", U8>>, <<"data", Arr(U8, 0)>>>>)
ofp10_action_header == Struct(<<<<"type", U16>>, <<"len", U16>>,
  <<"pad", Arr(U8, 4)>>>>)
ofp10_action_output == Struct(<<<<"type", U16>>, <<"len", U16>>,
  <<"port", U16>>, <<"max_len", U16>>>>)
ofp10_action_vlan_vid == Struct(<<<<"type", U16>>, <<"len", U16>>,
  <<"vlan_vid", U16>>, <<"pad", Arr(U8, 2)>>>>)
ofp10_action_vlan_pcp == Struct(<<<<"type", U16>>, <<"len", U16>>,
  <<"vlan_pcp", U8>>, <<"pad", Arr(U8, 3)>>>>)
ofp10_action_dl_addr == Struct(<<<<"type", U16>>, <<"len", U16>>,
  <<"dl_addr", Arr(U8, 6)>>, <<"pad", Arr(U8, 6)>>>>)
ofp10_action_nw_addr == Struct(<<<<"type", U16>>, <<"len", U16>>,
  <<"nw_addr", U32>>>>)
ofp10_action_tp_port == Struct(<<<<"type", U16>>, <<"len", U16>>,
  <<"tp_port", U16>>, <<"pad", Arr(U8, 2)>>>>)
ofp10_action_nw_tos == Struct(<<<<"type", U16>>, <<"len", U16>>,
  <<"nw_tos", U8>>, <<"pad", Arr(U8, 3)>>>>)
ofp10_action_vendor_header == Struct(<<<<"type", U16>>, <<"len", U16>>,
  <<"vendor", U32>>, <<"data", Arr(U8, 0)>>>>)
ofp10_packet_out == Struct(<<<<"header", ofp10_header>>,
  <<"buffer_id", U32>>, <<"in_port", U16>>, <<"actions_len", U16>>,
  <<"actions", Arr(ofp10_action_header, 0)>>>>)
ofp10_match == Struct(<<<<"wildcards", U32>>, <<"in_port", U16>>,
  <<"dl_src", Arr(U8, 6)>>, <<"dl_dst", Arr(U8, 6)>>, <<"dl_vlan", U16>>,
  <<"dl_vlan_pcp", U8>>, <<"pad1", Arr(U8, 1)>>, <<"dl_type", U16>>,
  <<"nw_tos", U8>>, <<"nw_proto", U8>>, <<"pad2", Arr(U8, 2)>>,
  <<"nw_src", U32>>, <<"nw_dst", U32>>, <<"tp_src", U16>>, <<"tp_dst", U16>>>>)
ofp10_flow_removed == Struct(<<<<"header", ofp10_header>>,
  <<"match", ofp10_match>>, <<"cookie", U64>>, <<"priority", U16>>,
  <<"reason", U8>>, <<"pad", Arr(U8, 1)>>, <<"duration_sec", U32>>,
  <<"duration_nsec", U32>>, <<"idle_timeout", U16>>,
  <<"pad2", Arr(U8, 2)>>, <<"packet_count", U64>>, <<"byte_count", U64>>>>)
ofp10_stats_request == Struct(<<<<"header", ofp10_header>>,
  <<"type", U16>>, <<"flags", U16>>, <<"body", Arr(U8, 0)>>>>)
ofp10_stats_reply == Struct(<<<<"header", ofp10_header>>, <<"type", U16>>,
  <<"flags", U16>>, <<"body", Arr(U8, 0)>>>>)
ofp10_desc_stats == Struct(<<<<"mfr_desc", Arr(U8, 256)>>,
  <<"hw_desc", Arr(U8, 256)>>, <<"sw_desc", Arr(U8, 256)>>,
  <<"serial_num", Arr(U8, 32)>>, <<"dp_desc", Arr(U8, 256)>>>>)
ofp10_flow_stats_request == Struct(<<<<"match", ofp10_match>>,
  <<"table_id", U8>>, <<"pad", U8>>, <<"out_port", U16>>>>)
ofp10_flow_stats == Struct(<<<<"length", U16>>, <<"table_id", U8>>,
  <<"pad", U8>>, <<"match", ofp10_match>>, <<"duration_sec", U32>>,
  <<"duration_nsec", U32>>, <<"priority", U16>>, <<"idle_timeout", U16>>,
  <<"hard_timeout", U16>>, <<"pad2", Arr(U8, 6)>>, <<"cookie", U64>>,
  <<"packet_count", U64>>, <<"byte_count", U64>>,
  <<"actions", Arr(ofp10_action_header, 0)>>>>)
ofp10_aggregate_stats_reply == Struct(<<<<"packet_count", U64>>,
  <<"byte_count", U64>>, <<"flow_count", U32>>, <<"pad", Arr(U8, 4)>>>>)
ofp10_table_stats == Struct(<<<<"table_id", U8>>, <<"pad", Arr(U8, 3)>>,
  <<"name", Arr(U8, 32)>>, <<"wildcards", U32>>, <<"max_entries", U32>>,
  <<"active_count", U32>>, <<"lookup_count", U64>>, <<"matched_count", U64>>>>)
ofp10_port_stats_request == Struct(<<<<"port_no", U16>>,
  <<"pad", Arr(U8, 6)>>>>)
ofp10_port_stats == Struct(<<<<"port_no", U16>>, <<"pad", Arr(U8, 6)>>,
  <<"rx_packets", U64>>, <<"tx_packets", U64>>, <<"rx_bytes", U64>>,
  <<"tx_bytes", U64>>, <<"rx_dropped", U64>>, <<"tx_dropped", U64>>,
  <<"rx_errors", U64>>, <<"tx_errors", U64>>, <<"rx_frame_err", U64>>,
  <<"rx_over_err", U64>>, <<"rx_crc_err", U64>>, <<"collisions", U64>>>>)
ofp10_vendor_stats_header == Struct(<<<<"vendor", U32>>>>)
ofp10_vendor_header == Struct(<<<<"header", ofp10_header>>,
  <<"vendor", U32>>, <<"body", Arr(U8, 0)>>>>)
ofp10_queue_prop_header == Struct(<<<<"property", U16>>, <<"len", U16>>,
  <<"pad", Arr(U8, 4)>>>>)
ofp10_packet_queue == Struct(<<<<"queue_id", U32>>, <<"len", U16>>,
  <<"pad", Arr(U8, 2)>>, <<"properties", Arr(ofp10_queue_prop_header, 0)>>>>)
ofp10_queue_get_config_request == Struct(<<<<"header", ofp10_header>>,
  <<"port", U16>>, <<"pad", Arr(U8, 2)>>>>)
ofp10_queue_get_config_reply == Struct(<<<<"header", ofp10_header>>,
  <<"port", U16>>, <<"pad", Arr(U8, 6)>>,
  <<"queues", Arr(ofp10_packet_queue, 0)>>>>)
ofp10_action_enqueue == Struct(<<<<"type", U16>>, <<"len", U16>>,
  <<"port", U16>>, <<"pad", Arr(U8, 6)>>, <<"queue_id", U32>>>>)
ofp10_queue_stats_request == Struct(<<<<"port_no", U16>>,
  <<"pad", Arr(U8, 2)>>, <<"queue_id", U32>>>>)
ofp10_queue_stats == Struct(<<<<"port_no", U16>>, <<"pad", Arr(U8, 2)>>,
  <<"queue_id", U32>>, <<"tx_bytes", U64>>, <<"tx_packets", U64>>,
  <<"tx_errors", U64>>>>)

(* The OFP_ASSERTs that follow the structs in the header. *)
ASSUME OpenFlow10Asserts ==
    /\ Size(ofp10_header) = 8 /\ Size(ofp10_switch_config) = 12
    /\ Size(ofp10_port) = 48 /\ Size(ofp10_switch_features) = 32
    /\ Size(ofp10_port_status) = 64 /\ Size(ofp10_port_mod) = 32
    /\ Size(ofp10_packet_in) = 20 /\ Size(ofp10_action_header) = 8
    /\ Size(ofp10_action_output) = 8 /\ Size(ofp10_action_vlan_vid) = 8
    /\ Size(ofp10_action_vlan_pcp) = 8 /\ Size(ofp10_action_dl_addr) = 16
    /\ Size(ofp10_action_nw_addr) = 8 /\ Size(ofp10_action_tp_port) = 8
    /\ Size(ofp10_action_nw_tos) = 8 /\ Size(ofp10_action_vendor_header) = 8
    /\ Size(ofp10_packet_out) = 16 /\ Size(ofp10_match) = 40
    /\ Size(ofp10_flow_removed) = 88 /\ Size(ofp10_stats_request) = 12
    /\ Size(ofp10_stats_reply) = 12 /\ Size(ofp10_desc_stats) = 1056
    /\ Size(ofp10_flow_stats_request) = 44 /\ Size(ofp10_flow_stats) = 88
    /\ Size(ofp10_aggregate_stats_reply) = 24 /\ Size(ofp10_table_stats) = 64
    /\ Size(ofp10_port_stats_request) = 8 /\ Size(ofp10_port_stats) = 104
    /\ Size(ofp10_vendor_stats_header) = 4 /\ Size(ofp10_vendor_header) = 12
    /\ Size(ofp10_queue_prop_header) = 8 /\ Size(ofp10_packet_queue) = 8
    /\ Size(ofp10_queue_get_config_request) = 12 /\ Size(ofp10_queue_get_config_reply) = 16
    /\ Size(ofp10_action_enqueue) = 16 /\ Size(ofp10_queue_stats_request) = 8
    /\ Size(ofp10_queue_stats) = 32
=============================================================================
