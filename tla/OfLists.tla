------------------------------ MODULE OfLists ------------------------------
(***************************************************************************)
(* The list classes: pack() concatenates the elements, unpack() walks the   *)
(* buffer in a loop.  A list record says what the loop does:                 *)
(*   elems  the codecs of the classes its elements have                      *)
(*   floor  the loop goes on while at least this many octets are left        *)
(*   step   how far one iteration advances: by a constant ("fixed"), by the  *)
(*          length field of the element ("field"), by that rounded up to 8   *)
(*          ("padded"), or by length() of the element just read ("elem")     *)
(*   key    "index": elements are numbered as they come; "class": one        *)
(*          element per class; "member": under a member of the element just  *)
(*          read; "field": under the field keyat, loaded from the buffer     *)
(*   here   the element is unpacked from the current position                *)
(*   other  an element of a type the loop has no case for is passed over      *)
(*          ("skip"), refused ("throw"), or left where it is, and the loop    *)
(*          with it ("stay"); "none" where the loop looks at no type          *)
(***************************************************************************)
EXTENDS OfMessages

ListOf(es, floor) ==
    [elems |-> es, floor |-> floor, step |-> "field", key |-> "index", keyat |-> <<>>, here |-> TRUE,
     other |-> "none"]
Fixed(l)          == [l EXCEPT !.step = "fixed"]
PaddedStep(l)     == [l EXCEPT !.step = "padded"]
ByElem(l)         == [l EXCEPT !.step = "elem"]
PerClass(l)       == [l EXCEPT !.key = "class"]
ByMember(l)       == [l EXCEPT !.key = "member"]
Keyed(l, S, f, m) == [l EXCEPT !.key = "field", !.keyat = FieldAs(S, f, m)]
AtStart(l)        == [l EXCEPT !.here = FALSE]
Others(l, way)    == [l EXCEPT !.other = way]

(* A list of elements of constant length. *)
Array(e, S) == Fixed(ListOf(<<e>>, Size(S)))

cofactions ==
  [v \in {1} |-> Others(ListOf(<<cofaction_output[v], cofaction_set_vlan_vid[v], cofaction_set_vlan_pcp[v],
       cofaction_strip_vlan[v], cofaction_set_dl_src[v], cofaction_set_dl_dst[v],
       cofaction_set_nw_src[v], cofaction_set_nw_dst[v], cofaction_set_nw_tos[v],
       cofaction_set_tp_src[v], cofaction_set_tp_dst[v], cofaction_enqueue[v],
       cofaction_vendor[v]>>, Size(ofp_action_header)), "skip")]
  @@ [v \in {3, 4} |-> Others(ListOf(<<cofaction_output[v], cofaction_copy_ttl_out[v],
       cofaction_copy_ttl_in[v], cofaction_set_mpls_ttl[v], cofaction_dec_mpls_ttl[v],
       cofaction_push_vlan[v], cofaction_pop_vlan[v], cofaction_push_mpls[v],
       cofaction_pop_mpls[v], cofaction_set_queue[v], cofaction_group[v], cofaction_set_nw_ttl[v],
       cofaction_dec_nw_ttl[v], cofaction_set_field[v], cofaction_push_pbb[v],
       cofaction_pop_pbb[v], cofaction_experimenter[v]>>,
       Size(ofp_action_header)), "skip")]

(* The default case does not advance: the loop never gets past an element that *)
(* add_inst(type) made generic, or that the peer's version knows and this does *)
(* not.                                                                        *)
cofinstructions ==
  [v \in {3} |-> Others(PerClass(ByElem(ListOf(<<cofinstruction_goto_table[v],
       cofinstruction_write_metadata[v], cofinstruction_actions[v],
       cofinstruction_experimenter[v]>>, 1))), "stay")]
  @@ [v \in {4} |-> Others(PerClass(ByElem(ListOf(<<cofinstruction_goto_table[v],
       cofinstruction_write_metadata[v], cofinstruction_actions[v],
       cofinstruction_meter[v], cofinstruction_experimenter[v]>>, 1))), "stay")]

cofqueue_props == [v \in {1, 3, 4} |-> Others(PerClass(ByElem(ListOf(<<cofqueue_prop_min_rate[v],
    cofqueue_prop_max_rate[v], cofqueue_prop_experimenter[v]>>, Size(ofp13_queue_prop_header)))), "skip")]

cofportdesc_props == [v \in {5} |-> Others(PerClass(ByElem(ListOf(<<cofportdesc_prop_ethernet[v],
    cofportdesc_prop_optical[v], cofportdesc_prop_experimenter[v]>>,
    Size(ofp14_port_desc_prop_header)))), "skip")]

coftablemod_props == [v \in {5} |-> Others(PerClass(ByElem(ListOf(<<coftablemod_prop_eviction[v],
    coftablemod_prop_vacancy[v], coftablemod_prop_experimenter[v]>>,
    Size(ofp14_table_mod_prop_header)))), "skip")]

coftable_feature_props == [v \in {1, 3, 4, 5} |-> Others(PerClass(PaddedStep(ListOf(<<
    coftable_feature_prop_instructions[v], coftable_feature_prop_next_tables[v],
    coftable_feature_prop_actions[v], coftable_feature_prop_oxm[v]>>, 1))),
    "throw")]

cofmeter_bands == [v \in {4} |-> Others(ListOf(<<cofmeter_band[v], cofmeter_band_dscp_remark[v],
    cofmeter_band_experimenter[v]>>, Size(ofp13_meter_band_header)), "skip")]

(* while (buflen > sizeof header): a header without a body is not an element *)
cofhelloelems == [v \in {1, 3, 4, 5} |->
    Others(PerClass(PaddedStep(ListOf(<<cofhello_elem_versionbitmap[v]>>,
        Size(ofp13_hello_elem_header) + 1))), "skip")]

cofbuckets == [v \in {3, 4} |-> ListOf(<<cofbucket[v]>>, 1)]

coftables == [v \in {4} |->
    Keyed(ListOf(<<coftable_features[v]>>, 1), ofp13_table_features, "table_id", "table_id")]

cofports ==
     [v \in {1} |-> ByMember(Array(cofport[v], ofp10_port))]
  @@ [v \in {3} |-> ByMember(Array(cofport[v], ofp12_port))]
  @@ [v \in {4} |-> ByMember(Array(cofport[v], ofp13_port))]

cofbucket_counters ==
     [v \in {3} |-> Array(cofbucket_counter[v], ofp12_bucket_counter)]
  @@ [v \in {4} |-> Array(cofbucket_counter[v], ofp13_bucket_counter)]

cofmeter_band_stats_array == [v \in {4} |-> Array(cofmeter_band_stats[v], ofp13_meter_band_stats)]

cofflowstatsarray ==
     [v \in {1} |-> Array(cofflow_stats_reply[v], ofp10_flow_stats)]
  @@ [v \in {3} |-> ListOf(<<cofflow_stats_reply[v]>>, Size(ofp12_flow_stats))]
  @@ [v \in {4} |-> ListOf(<<cofflow_stats_reply[v]>>, Size(ofp13_flow_stats))]

cofgroupdescstatsarray ==
     [v \in {3} |-> Keyed(ListOf(<<cofgroup_desc_stats_reply[v]>>, Size(ofp12_group_desc_stats)),
         ofp12_group_desc_stats, "group_id", "group_id")]
  @@ [v \in {4} |-> Keyed(ListOf(<<cofgroup_desc_stats_reply[v]>>, Size(ofp13_group_desc)),
         ofp13_group_desc, "group_id", "group_id")]

(* mutant: each entry is unpacked from the start of the array *)
cofgroupstatsarray_start ==
     [v \in {3} |-> AtStart(Keyed(ListOf(<<cofgroup_stats_reply[v]>>, Size(ofp12_group_stats)),
         ofp12_group_stats, "group_id", "group_id"))]
  @@ [v \in {4} |-> AtStart(Keyed(ListOf(<<cofgroup_stats_reply[v]>>, Size(ofp13_group_stats)),
         ofp13_group_stats, "group_id", "group_id"))]

cofgroupstatsarray ==
     [v \in {3} |-> Keyed(ListOf(<<cofgroup_stats_reply[v]>>, Size(ofp12_group_stats)),
         ofp12_group_stats, "group_id", "group_id")]
  @@ [v \in {4} |-> Keyed(ListOf(<<cofgroup_stats_reply[v]>>, Size(ofp13_group_stats)),
         ofp13_group_stats, "group_id", "group_id")]

(* add_meter_config(index++).unpack(buf, ...): buf, not buf + offset *)
cofmeterconfigarray == [v \in {4} |->
    AtStart(ListOf(<<cofmeter_config_reply[v]>>, Size(ofp13_meter_config)))]
cofmeterstatsarray == [v \in {4} |->
    AtStart(ListOf(<<cofmeter_stats_reply[v]>>, Size(ofp13_meter_stats)))]

(* while (buflen > sizeof queue): a last queue without properties is dropped *)
cofpacket_queues ==
     [v \in {1} |-> Keyed(ListOf(<<cofpacket_queue[v]>>, Size(ofp10_packet_queue) + 1),
         ofp10_packet_queue, "queue_id", "queue_id")]
  @@ [v \in {3, 4} |-> Keyed(ListOf(<<cofpacket_queue[v]>>, Size(ofp13_packet_queue) + 1),
         ofp13_packet_queue, "queue_id", "queue_id")]

(* OpenFlow 1.0 entries are walked with the struct of OpenFlow 1.2. *)
cofportstatsarray ==
     [v \in {1, 3} |-> Keyed(Array(cofport_stats_reply[v], ofp12_port_stats),
         ofp12_port_stats, "port_no", "port_no")]
  @@ [v \in {4} |-> Keyed(Array(cofport_stats_reply[v], ofp13_port_stats),
         ofp13_port_stats, "port_no", "port_no")]
cofqueuestatsarray ==
     [v \in {1, 3} |-> Keyed(Array(cofqueue_stats_reply[v], ofp12_queue_stats),
         ofp12_queue_stats, "port_no", "port_no")]
  @@ [v \in {4} |-> Keyed(Array(cofqueue_stats_reply[v], ofp13_queue_stats),
         ofp13_queue_stats, "port_no", "port_no")]

coftablestatsarray ==
     [v \in {1} |-> Keyed(Array(coftable_stats_reply[v], ofp10_table_stats),
         ofp10_table_stats, "table_id", "table_id")]
  @@ [v \in {3} |-> Keyed(Array(coftable_stats_reply[v], ofp12_table_stats),
         ofp12_table_stats, "table_id", "table_id")]
  @@ [v \in {4} |-> Keyed(Array(coftable_stats_reply[v], ofp13_table_stats),
         ofp13_table_stats, "table_id", "table_id")]
=============================================================================
