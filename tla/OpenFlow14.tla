------------------------------ MODULE OpenFlow14 ------------------------------
(* The structs of openflow/openflow14.h (OpenFlow 1.4) that the codecs use, field by field. *)
EXTENDS OpenFlow13

ofp14_header == Struct(<<<<"version", U8>>, <<"type", U8>>,
  <<"length", U16>>, <<"xid", U32>>>>)
ofp14_table_mod_prop_header == Struct(<<<<"type", U16>>, <<"length", U16>>>>)
ofp14_table_mod_prop_eviction == Struct(<<<<"type", U16>>,
  <<"length", U16>>, <<"flags", U32>>>>)
ofp14_table_mod_prop_vacancy == Struct(<<<<"type", U16>>,
  <<"length", U16>>, <<"vacancy_down", U8>>, <<"vacancy_up", U8>>,
  <<"vacancy", U8>>, <<"pad", Arr(U8, 1)>>>>)
ofp14_table_mod_prop_experimenter == Struct(<<<<"type", U16>>,
  <<"length", U16>>, <<"experimenter", U32>>, <<"exp_type", U32>>,
  <<"experimenter_data", Arr(U32, 0)>>>>)
ofp14_port_desc_prop_header == Struct(<<<<"type", U16>>, <<"length", U16>>>>)
ofp14_port_desc_prop_ethernet == Struct(<<<<"type", U16>>,
  <<"length", U16>>, <<"pad", Arr(U8, 4)>>, <<"curr", U32>>,
  <<"advertised", U32>>, <<"supported", U32>>, <<"peer", U32>>,
  <<"curr_speed", U32>>, <<"max_speed", U32>>>>)
ofp14_port_desc_prop_optical == Struct(<<<<"type", U16>>,
  <<"length", U16>>, <<"pad", Arr(U8, 4)>>, <<"supported", U32>>,
  <<"tx_min_freq_lmda", U32>>, <<"tx_max_freq_lmda", U32>>,
  <<"tx_grid_freq_lmda", U32>>, <<"rx_min_freq_lmda", U32>>,
  <<"rx_max_freq_lmda", U32>>, <<"rx_grid_freq_lmda", U32>>,
  <<"tx_pwr_min", U16>>, <<"tx_pwr_max", U16>>>>)
ofp14_port_desc_prop_experimenter == Struct(<<<<"type", U16>>,
  <<"length", U16>>, <<"experimenter", U32>>, <<"exp_type", U32>>,
  <<"experimenter_data", Arr(U32, 0)>>>>)
ofp14_port == Struct(<<<<"port_no", U32>>, <<"length", U16>>,
  <<"pad", Arr(U8, 2)>>, <<"hw_addr", Arr(U8, 6)>>, <<"pad2", Arr(U8, 2)>>,
  <<"name", Arr(U8, 16)>>, <<"config", U32>>, <<"state", U32>>,
  <<"properties", Arr(ofp14_port_desc_prop_header, 0)>>>>)
ofp14_port_status == Struct(<<<<"header", ofp14_header>>, <<"reason", U8>>,
  <<"pad", Arr(U8, 7)>>, <<"desc", ofp14_port>>>>)

(* The OFP_ASSERTs that follow the structs in the header. *)
ASSUME OpenFlow14Asserts ==
    /\ Size(ofp14_header) = 8 /\ Size(ofp14_table_mod_prop_header) = 4
    /\ Size(ofp14_table_mod_prop_eviction) = 8 /\ Size(ofp14_table_mod_prop_vacancy) = 8
    /\ Size(ofp14_table_mod_prop_experimenter) = 12 /\ Size(ofp14_port_desc_prop_header) = 4
    /\ Size(ofp14_port_desc_prop_ethernet) = 32 /\ Size(ofp14_port_desc_prop_optical) = 40
    /\ Size(ofp14_port_desc_prop_experimenter) = 12 /\ Size(ofp14_port) = 40
    /\ Size(ofp14_port_status) = 56
=============================================================================
