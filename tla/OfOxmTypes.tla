---------------------------- MODULE OfOxmTypes ----------------------------
(***************************************************************************)
(* The OXM TLVs: the type constants of the openflow headers and the         *)
(* coxmatch classes that carry one value, or a value and a mask, each.      *)
(* An id is the first word of a TLV: class, field, mask flag and length of   *)
(* the body.                                                                 *)
(***************************************************************************)
EXTENDS Naturals

OFPXMC_OPENFLOW_BASIC == 32768
OFPXMC_PACKET_REGS    == 32769
OFPXMC_EXPERIMENTER   == 65535

Basic(f, n)     == [class |-> OFPXMC_OPENFLOW_BASIC, field |-> f, hasmask |-> FALSE, len |-> n]
Expr(f, n)      == [class |-> OFPXMC_EXPERIMENTER,   field |-> f, hasmask |-> FALSE, len |-> n]
HAS_MASK(id)    == [id EXCEPT !.hasmask = TRUE]

OXM_TLV_BASIC == [
  IN_PORT |-> Basic(0, 4), IN_PHY_PORT |-> Basic(1, 4), METADATA |-> Basic(2, 8),
  METADATA_MASK |-> HAS_MASK(Basic(2, 16)), ETH_DST |-> Basic(3, 6),
  ETH_DST_MASK |-> HAS_MASK(Basic(3, 12)), ETH_SRC |-> Basic(4, 6),
  ETH_SRC_MASK |-> HAS_MASK(Basic(4, 12)), ETH_TYPE |-> Basic(5, 2),
  VLAN_VID |-> Basic(6, 2), VLAN_VID_MASK |-> HAS_MASK(Basic(6, 4)),
  VLAN_PCP |-> Basic(7, 1), IP_DSCP |-> Basic(8, 1), IP_ECN |-> Basic(9, 1),
  IP_PROTO |-> Basic(10, 1), IPV4_SRC |-> Basic(11, 4),
  IPV4_SRC_MASK |-> HAS_MASK(Basic(11, 8)), IPV4_DST |-> Basic(12, 4),
  IPV4_DST_MASK |-> HAS_MASK(Basic(12, 8)), TCP_SRC |-> Basic(13, 2),
  TCP_DST |-> Basic(14, 2), UDP_SRC |-> Basic(15, 2), UDP_DST |-> Basic(16, 2),
  SCTP_SRC |-> Basic(17, 2), SCTP_DST |-> Basic(18, 2), ICMPV4_TYPE |-> Basic(19, 1),
  ICMPV4_CODE |-> Basic(20, 1), ARP_OP |-> Basic(21, 2), ARP_SPA |-> Basic(22, 4),
  ARP_SPA_MASK |-> HAS_MASK(Basic(22, 8)), ARP_TPA |-> Basic(23, 4),
  ARP_TPA_MASK |-> HAS_MASK(Basic(23, 8)), ARP_SHA |-> Basic(24, 6),
  ARP_SHA_MASK |-> HAS_MASK(Basic(24, 12)), ARP_THA |-> Basic(25, 6),
  ARP_THA_MASK |-> HAS_MASK(Basic(25, 12)), IPV6_SRC |-> Basic(26, 16),
  IPV6_SRC_MASK |-> HAS_MASK(Basic(26, 32)), IPV6_DST |-> Basic(27, 16),
  IPV6_DST_MASK |-> HAS_MASK(Basic(27, 32)), IPV6_FLABEL |-> Basic(28, 4),
  IPV6_FLABEL_MASK |-> HAS_MASK(Basic(28, 8)), ICMPV6_TYPE |-> Basic(29, 1),
  ICMPV6_CODE |-> Basic(30, 1), IPV6_ND_TARGET |-> Basic(31, 16),
  IPV6_ND_SLL |-> Basic(32, 6), IPV6_ND_TLL |-> Basic(33, 6), MPLS_LABEL |-> Basic(34, 4),
  MPLS_TC |-> Basic(35, 1), MPLS_BOS |-> Basic(36, 1), PBB_ISID |-> Basic(37, 3),
  PBB_ISID_MASK |-> HAS_MASK(Basic(37, 6)), TUNNEL_ID |-> Basic(38, 8),
  TUNNEL_ID_MASK |-> HAS_MASK(Basic(38, 16)), IPV6_EXTHDR |-> Basic(39, 4),
  IPV6_EXTHDR_MASK |-> HAS_MASK(Basic(39, 8))]
OXM_TLV_EXPR == [
  NW_SRC |-> Expr(0, 4), NW_SRC_MASK |-> HAS_MASK(Expr(0, 8)), NW_DST |-> Expr(1, 4),
  NW_DST_MASK |-> HAS_MASK(Expr(1, 8)), NW_PROTO |-> Expr(2, 1), NW_TOS |-> Expr(3, 1),
  TP_SRC |-> Expr(4, 2), TP_DST |-> Expr(5, 2)]

(* The base classes, by the octets of their value.  length(), pack() and     *)
(* unpack() of all of them follow TlvLength and Adjusted below; coxmatch_exp *)
(* has a body of any length behind its experimenter id.                       *)
coxmatch_8 == [octets |-> 1, exp |-> 0]
coxmatch_16 == [octets |-> 2, exp |-> 0]
coxmatch_24 == [octets |-> 3, exp |-> 0]
coxmatch_32 == [octets |-> 4, exp |-> 0]
coxmatch_48 == [octets |-> 6, exp |-> 0]
coxmatch_64 == [octets |-> 8, exp |-> 0]
coxmatch_128 == [octets |-> 16, exp |-> 0]
(* The experimenter id: 2 stands for ROFL_EXP_ID, 1 for another one. *)
coxmatch_exp(e, n) == [octets |-> n, exp |-> e]

(* A class: its base, the id its constructors pass on, and the one passed on *)
(* with a mask (the same when it has no constructor with a mask).            *)
Tlv(base, id)          == [base |-> base, id |-> id, masked |-> HAS_MASK(id)]
Masked(base, id, idm)  == [base |-> base, id |-> id, masked |-> idm]

coxmatch_ofb_in_port == Tlv(coxmatch_32, OXM_TLV_BASIC.IN_PORT)
coxmatch_ofb_in_phy_port == Tlv(coxmatch_32, OXM_TLV_BASIC.IN_PHY_PORT)
coxmatch_ofb_metadata == Masked(coxmatch_64, OXM_TLV_BASIC.METADATA, OXM_TLV_BASIC.METADATA_MASK)
coxmatch_ofb_eth_dst == Masked(coxmatch_48, OXM_TLV_BASIC.ETH_DST, OXM_TLV_BASIC.ETH_DST_MASK)
coxmatch_ofb_eth_src == Masked(coxmatch_48, OXM_TLV_BASIC.ETH_SRC, OXM_TLV_BASIC.ETH_SRC_MASK)
coxmatch_ofb_eth_type == Tlv(coxmatch_16, OXM_TLV_BASIC.ETH_TYPE)
coxmatch_ofb_vlan_vid == Masked(coxmatch_16, OXM_TLV_BASIC.VLAN_VID, OXM_TLV_BASIC.VLAN_VID_MASK)
coxmatch_ofb_vlan_pcp == Tlv(coxmatch_8, OXM_TLV_BASIC.VLAN_PCP)
coxmatch_ofb_ip_dscp == Tlv(coxmatch_8, OXM_TLV_BASIC.IP_DSCP)
coxmatch_ofb_ip_ecn == Tlv(coxmatch_8, OXM_TLV_BASIC.IP_ECN)
coxmatch_ofb_ip_proto == Tlv(coxmatch_8, OXM_TLV_BASIC.IP_PROTO)
coxmatch_ofb_ipv4_src == Masked(coxmatch_32, OXM_TLV_BASIC.IPV4_SRC, OXM_TLV_BASIC.IPV4_SRC_MASK)
coxmatch_ofb_ipv4_dst == Masked(coxmatch_32, OXM_TLV_BASIC.IPV4_DST, OXM_TLV_BASIC.IPV4_DST_MASK)
coxmatch_ofb_ipv6_src == Masked(coxmatch_128, OXM_TLV_BASIC.IPV6_SRC, OXM_TLV_BASIC.IPV6_SRC_MASK)
coxmatch_ofb_ipv6_dst == Masked(coxmatch_128, OXM_TLV_BASIC.IPV6_DST, OXM_TLV_BASIC.IPV6_DST_MASK)
coxmatch_ofb_ipv6_nd_target == Tlv(coxmatch_128, OXM_TLV_BASIC.IPV6_ND_TARGET)
coxmatch_ofb_tcp_src == Tlv(coxmatch_16, OXM_TLV_BASIC.TCP_SRC)
coxmatch_ofb_tcp_dst == Tlv(coxmatch_16, OXM_TLV_BASIC.TCP_DST)
coxmatch_ofb_udp_src == Tlv(coxmatch_16, OXM_TLV_BASIC.UDP_SRC)
coxmatch_ofb_udp_dst == Tlv(coxmatch_16, OXM_TLV_BASIC.UDP_DST)
coxmatch_ofb_sctp_src == Tlv(coxmatch_16, OXM_TLV_BASIC.SCTP_SRC)
coxmatch_ofb_sctp_dst == Tlv(coxmatch_16, OXM_TLV_BASIC.SCTP_DST)
coxmatch_ofb_icmpv4_type == Tlv(coxmatch_8, OXM_TLV_BASIC.ICMPV4_TYPE)
coxmatch_ofb_icmpv4_code == Tlv(coxmatch_8, OXM_TLV_BASIC.ICMPV4_CODE)
coxmatch_ofb_arp_opcode == Tlv(coxmatch_16, OXM_TLV_BASIC.ARP_OP)
coxmatch_ofb_arp_spa == Masked(coxmatch_32, OXM_TLV_BASIC.ARP_SPA, OXM_TLV_BASIC.ARP_SPA_MASK)
coxmatch_ofb_arp_tpa == Masked(coxmatch_32, OXM_TLV_BASIC.ARP_TPA, OXM_TLV_BASIC.ARP_TPA_MASK)
coxmatch_ofb_arp_sha == Masked(coxmatch_48, OXM_TLV_BASIC.ARP_SHA, OXM_TLV_BASIC.ARP_SHA_MASK)
coxmatch_ofb_arp_tha == Masked(coxmatch_48, OXM_TLV_BASIC.ARP_THA, OXM_TLV_BASIC.ARP_THA_MASK)
coxmatch_ofb_ipv6_flabel ==
    Masked(coxmatch_32, OXM_TLV_BASIC.IPV6_FLABEL, OXM_TLV_BASIC.IPV6_FLABEL_MASK)
coxmatch_ofb_icmpv6_type == Tlv(coxmatch_8, OXM_TLV_BASIC.ICMPV6_TYPE)
coxmatch_ofb_icmpv6_code == Tlv(coxmatch_8, OXM_TLV_BASIC.ICMPV6_CODE)
coxmatch_ofb_ipv6_nd_sll == Tlv(coxmatch_48, OXM_TLV_BASIC.IPV6_ND_SLL)
coxmatch_ofb_ipv6_nd_tll == Tlv(coxmatch_48, OXM_TLV_BASIC.IPV6_ND_TLL)
coxmatch_ofb_mpls_label == Tlv(coxmatch_32, OXM_TLV_BASIC.MPLS_LABEL)
coxmatch_ofb_mpls_tc == Tlv(coxmatch_8, OXM_TLV_BASIC.MPLS_TC)
coxmatch_ofb_mpls_bos == Tlv(coxmatch_8, OXM_TLV_BASIC.MPLS_BOS)
coxmatch_ofb_tunnel_id == Masked(coxmatch_64, OXM_TLV_BASIC.TUNNEL_ID, OXM_TLV_BASIC.TUNNEL_ID_MASK)
coxmatch_ofb_pbb_isid == Masked(coxmatch_24, OXM_TLV_BASIC.PBB_ISID, OXM_TLV_BASIC.PBB_ISID_MASK)
coxmatch_ofb_ipv6_exthdr ==
    Masked(coxmatch_16, OXM_TLV_BASIC.IPV6_EXTHDR, OXM_TLV_BASIC.IPV6_EXTHDR_MASK)
coxmatch_ofx_nw_proto == Tlv(coxmatch_exp(2, 1), OXM_TLV_EXPR.NW_PROTO)
coxmatch_ofx_nw_tos == Tlv(coxmatch_exp(2, 1), OXM_TLV_EXPR.NW_TOS)
coxmatch_ofx_nw_src == Masked(coxmatch_exp(2, 4), OXM_TLV_EXPR.NW_SRC, OXM_TLV_EXPR.NW_SRC_MASK)
coxmatch_ofx_nw_dst == Masked(coxmatch_exp(2, 4), OXM_TLV_EXPR.NW_DST, OXM_TLV_EXPR.NW_DST_MASK)
coxmatch_ofx_tp_src == Tlv(coxmatch_exp(2, 2), OXM_TLV_EXPR.TP_SRC)
coxmatch_ofx_tp_dst == Tlv(coxmatch_exp(2, 2), OXM_TLV_EXPR.TP_DST)
coxmatch_packet_register(n) ==
    LET id == [class |-> OFPXMC_PACKET_REGS, field |-> n, hasmask |-> FALSE, len |-> 8]
    IN  Masked(coxmatch_64, id, [HAS_MASK(id) EXCEPT !.len = 16])
=============================================================================
