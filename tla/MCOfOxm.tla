------------------------------ MODULE MCOfOxm ------------------------------
EXTENDS OfOxm

BasicNames == {n \in DOMAIN Oxms : Oxms[n].key[2] = OFPXMC_OPENFLOW_BASIC}
ExpNames   == {n \in DOMAIN Oxms : Oxms[n].key[2] = OFPXMC_EXPERIMENTER}
AllNames   == BasicNames \cup ExpNames
Registers  == {"packet_register", "ofb_in_port"}
FewNames   == {"ofb_vlan_vid", "ofb_ip_proto"}
Protocols  == {"ofx_nw_proto", "ofb_tcp_dst"}
=============================================================================
