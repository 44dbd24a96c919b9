------------------------------- MODULE OfOxm -------------------------------
(***************************************************************************)
(* coxmatches: the OXM TLVs of a match, kept in a map under their type.     *)
(* One object (matches) is filled by its user, packed, unpacked into a      *)
(* second one, or copied to it.  TLVs are heap objects: live counts those    *)
(* allocated and not deleted.  copy_matches() takes the lock of its source   *)
(* once for the list of ids and once more per TLV.                           *)
(***************************************************************************)
EXTENDS OfOxmTypes, Integers, Sequences, FiniteSets, TLC
LOCAL INSTANCE SequencesExt
LOCAL INSTANCE FiniteSetsExt

CONSTANTS Names,       \* the accessors in use
          BareNames,   \* those whose set_*() may be left without a value
          MaxOxms,     \* bound on the TLVs of a match
          Concurrent   \* the source is changed while it is copied or unpacked

VARIABLES matches,     \* type |-> TLV, the object its user works on
          target,      \* type |-> TLV, the object unpacked or copied to
          wire,        \* the packed TLVs
          pos,         \* octets of wire consumed by unpack()
          ids,         \* types copy_matches() has still to copy
          live,        \* TLVs allocated
          step         \* "idle", "unpack", "copy", "unpacked", "copied", "astray", "threw"

vars == <<matches, target, wire, pos, ids, live, step>>

(* The key of a TLV: experimenter id, class and field, in the order of the   *)
(* 64 bit number; the mask flag and the length of the id are not part of it.  *)
OXM_ROFL_OFB_TYPE(id)    == <<0, id.class, id.field>>
OXM_ROFL_OFX_TYPE(id)    == <<2, id.class, id.field>>
OXM_EXPR_OFX_TYPE(w, id) == <<w, id.class, id.field>>

Before(k, l) == \E i \in 1..3 : k[i] < l[i] /\ \A j \in 1..(i - 1) : k[j] = l[j]

-----------------------------------------------------------------------------
(* TLV objects: a value of `octets' octets ("zero" or "v"), a mask ("full"   *)
(* or "m") and, in front of the value, the experimenter id.                  *)
(* "full" stands for the ones of a TLV without a mask.  coxmatch_48 has 48 of *)
(* them when it is constructed and 64 when it is unpacked; nothing packs or   *)
(* compares them.                                                             *)

ExpOctets(t) == t.octets + IF t.mask = "full" THEN 0 ELSE t.octets

TlvLength(t) ==
    4 + IF t.exp > 0 THEN 4 + ExpOctets(t) ELSE (IF t.id.hasmask THEN 2 ELSE 1) * t.octets

(* adjust_oxm_length() *)
Adjusted(t) == [t EXCEPT !.id.len = TlvLength(t) - 4]
OnSet(t)    == IF t.exp > 0 THEN Adjusted(t) ELSE t      \* coxmatch_exp: with every value and mask
(* mutant: the length in the id is left as it was *)
OnPack_stale(t) == t
OnPack(t) == IF t.exp > 0 THEN t ELSE Adjusted(t)        \* the others: when packed

(* The constructors without, with a value, and with a value and a mask. *)
NewBare(c) == [id |-> c.id, exp |-> c.base.exp, value |-> "zero", mask |-> "full",
               octets |-> IF c.base.exp > 0 THEN 0 ELSE c.base.octets]
New(c)       == OnSet([NewBare(c) EXCEPT !.value = "v", !.octets = c.base.octets])
NewMasked(c) == OnSet([New(c) EXCEPT !.id = HAS_MASK(c.masked), !.mask = "m"])

SetValue(c, t) == OnSet([t EXCEPT !.value = "v", !.octets = c.base.octets])
SetMask(t)     == OnSet([t EXCEPT !.id.hasmask = TRUE, !.mask = "m"])

-----------------------------------------------------------------------------
(* The accessors of coxmatches: the TLV class add_*() and set_*() create,    *)
(* the key they store it under, the key add_*() with a mask looks for before, *)
(* and which add_*() there are.                                              *)

Accessors(c, k) == [tlv |-> c, key |-> k, old |-> k, plain |-> TRUE, masked |-> FALSE]
Plain(c, k)  == Accessors(c, k)
Either(c, k) == [Accessors(c, k) EXCEPT !.masked = TRUE]
Always(c, k) == [Accessors(c, k) EXCEPT !.masked = TRUE, !.plain = FALSE]

ofb_in_port == Plain(coxmatch_ofb_in_port, OXM_ROFL_OFB_TYPE(OXM_TLV_BASIC.IN_PORT))
ofb_in_phy_port == Plain(coxmatch_ofb_in_phy_port, OXM_ROFL_OFB_TYPE(OXM_TLV_BASIC.IN_PHY_PORT))
ofb_metadata == Either(coxmatch_ofb_metadata, OXM_ROFL_OFB_TYPE(OXM_TLV_BASIC.METADATA))
ofb_eth_dst == Either(coxmatch_ofb_eth_dst, OXM_ROFL_OFB_TYPE(OXM_TLV_BASIC.ETH_DST))
ofb_eth_src == Either(coxmatch_ofb_eth_src, OXM_ROFL_OFB_TYPE(OXM_TLV_BASIC.ETH_SRC))
ofb_eth_type == Plain(coxmatch_ofb_eth_type, OXM_ROFL_OFB_TYPE(OXM_TLV_BASIC.ETH_TYPE))
ofb_vlan_vid == Either(coxmatch_ofb_vlan_vid, OXM_ROFL_OFB_TYPE(OXM_TLV_BASIC.VLAN_VID))
ofb_vlan_pcp == Plain(coxmatch_ofb_vlan_pcp, OXM_ROFL_OFB_TYPE(OXM_TLV_BASIC.VLAN_PCP))
ofb_ip_dscp == Plain(coxmatch_ofb_ip_dscp, OXM_ROFL_OFB_TYPE(OXM_TLV_BASIC.IP_DSCP))
ofb_ip_ecn == Plain(coxmatch_ofb_ip_ecn, OXM_ROFL_OFB_TYPE(OXM_TLV_BASIC.IP_ECN))
ofb_ip_proto == Plain(coxmatch_ofb_ip_proto, OXM_ROFL_OFB_TYPE(OXM_TLV_BASIC.IP_PROTO))
ofb_ipv4_src == Either(coxmatch_ofb_ipv4_src, OXM_ROFL_OFB_TYPE(OXM_TLV_BASIC.IPV4_SRC))
ofb_ipv4_dst == Either(coxmatch_ofb_ipv4_dst, OXM_ROFL_OFB_TYPE(OXM_TLV_BASIC.IPV4_DST))
ofb_ipv6_src == Either(coxmatch_ofb_ipv6_src, OXM_ROFL_OFB_TYPE(OXM_TLV_BASIC.IPV6_SRC))
ofb_ipv6_dst == Either(coxmatch_ofb_ipv6_dst, OXM_ROFL_OFB_TYPE(OXM_TLV_BASIC.IPV6_DST))
ofb_tcp_src == Plain(coxmatch_ofb_tcp_src, OXM_ROFL_OFB_TYPE(OXM_TLV_BASIC.TCP_SRC))
ofb_tcp_dst == Plain(coxmatch_ofb_tcp_dst, OXM_ROFL_OFB_TYPE(OXM_TLV_BASIC.TCP_DST))
ofb_udp_src == Plain(coxmatch_ofb_udp_src, OXM_ROFL_OFB_TYPE(OXM_TLV_BASIC.UDP_SRC))
ofb_udp_dst == Plain(coxmatch_ofb_udp_dst, OXM_ROFL_OFB_TYPE(OXM_TLV_BASIC.UDP_DST))
ofb_sctp_src == Plain(coxmatch_ofb_sctp_src, OXM_ROFL_OFB_TYPE(OXM_TLV_BASIC.SCTP_SRC))
ofb_sctp_dst == Plain(coxmatch_ofb_sctp_dst, OXM_ROFL_OFB_TYPE(OXM_TLV_BASIC.SCTP_DST))
ofb_icmpv4_type == Plain(coxmatch_ofb_icmpv4_type, OXM_ROFL_OFB_TYPE(OXM_TLV_BASIC.ICMPV4_TYPE))
ofb_icmpv4_code == Plain(coxmatch_ofb_icmpv4_code, OXM_ROFL_OFB_TYPE(OXM_TLV_BASIC.ICMPV4_CODE))
ofb_arp_opcode == Plain(coxmatch_ofb_arp_opcode, OXM_ROFL_OFB_TYPE(OXM_TLV_BASIC.ARP_OP))
ofb_arp_spa == Either(coxmatch_ofb_arp_spa, OXM_ROFL_OFB_TYPE(OXM_TLV_BASIC.ARP_SPA))
ofb_arp_tpa == Either(coxmatch_ofb_arp_tpa, OXM_ROFL_OFB_TYPE(OXM_TLV_BASIC.ARP_TPA))
ofb_arp_sha == Either(coxmatch_ofb_arp_sha, OXM_ROFL_OFB_TYPE(OXM_TLV_BASIC.ARP_SHA))
ofb_arp_tha == Either(coxmatch_ofb_arp_tha, OXM_ROFL_OFB_TYPE(OXM_TLV_BASIC.ARP_THA))
ofb_ipv6_flabel == Either(coxmatch_ofb_ipv6_flabel, OXM_ROFL_OFB_TYPE(OXM_TLV_BASIC.IPV6_FLABEL))
ofb_icmpv6_type == Plain(coxmatch_ofb_icmpv6_type, OXM_ROFL_OFB_TYPE(OXM_TLV_BASIC.ICMPV6_TYPE))
ofb_icmpv6_code == Plain(coxmatch_ofb_icmpv6_code, OXM_ROFL_OFB_TYPE(OXM_TLV_BASIC.ICMPV6_CODE))
ofb_ipv6_nd_target ==
    Plain(coxmatch_ofb_ipv6_nd_target, OXM_ROFL_OFB_TYPE(OXM_TLV_BASIC.IPV6_ND_TARGET))
ofb_ipv6_nd_sll == Plain(coxmatch_ofb_ipv6_nd_sll, OXM_ROFL_OFB_TYPE(OXM_TLV_BASIC.IPV6_ND_SLL))
ofb_ipv6_nd_tll == Plain(coxmatch_ofb_ipv6_nd_tll, OXM_ROFL_OFB_TYPE(OXM_TLV_BASIC.IPV6_ND_TLL))
ofb_mpls_label == Plain(coxmatch_ofb_mpls_label, OXM_ROFL_OFB_TYPE(OXM_TLV_BASIC.MPLS_LABEL))
ofb_mpls_tc == Plain(coxmatch_ofb_mpls_tc, OXM_ROFL_OFB_TYPE(OXM_TLV_BASIC.MPLS_TC))
ofb_mpls_bos == Plain(coxmatch_ofb_mpls_bos, OXM_ROFL_OFB_TYPE(OXM_TLV_BASIC.MPLS_BOS))
ofb_tunnel_id == Either(coxmatch_ofb_tunnel_id, OXM_ROFL_OFB_TYPE(OXM_TLV_BASIC.TUNNEL_ID))
ofb_pbb_isid == Either(coxmatch_ofb_pbb_isid, OXM_ROFL_OFB_TYPE(OXM_TLV_BASIC.PBB_ISID))
ofb_ipv6_exthdr == Either(coxmatch_ofb_ipv6_exthdr, OXM_ROFL_OFB_TYPE(OXM_TLV_BASIC.IPV6_EXTHDR))
ofx_nw_proto == Plain(coxmatch_ofx_nw_proto, OXM_ROFL_OFX_TYPE(OXM_TLV_EXPR.NW_PROTO))
ofx_nw_src == Always(coxmatch_ofx_nw_src, OXM_ROFL_OFX_TYPE(OXM_TLV_EXPR.NW_SRC))
ofx_nw_dst == Always(coxmatch_ofx_nw_dst, OXM_ROFL_OFX_TYPE(OXM_TLV_EXPR.NW_DST))
ofx_nw_tos == Plain(coxmatch_ofx_nw_tos, OXM_ROFL_OFX_TYPE(OXM_TLV_EXPR.NW_TOS))
ofx_tp_src == Plain(coxmatch_ofx_tp_src, OXM_ROFL_OFX_TYPE(OXM_TLV_EXPR.TP_SRC))
ofx_tp_dst == Plain(coxmatch_ofx_tp_dst, OXM_ROFL_OFX_TYPE(OXM_TLV_EXPR.TP_DST))
(* add_packet_register(n, value, mask) looks for the key of n, not of its id. *)
packet_register ==
    LET c == coxmatch_packet_register(3)
    IN  [Either(c, OXM_ROFL_OFB_TYPE(c.id)) EXCEPT !.old = <<0, 0, 0>>]
exp_match ==
    LET c == Tlv(coxmatch_exp(1, 4), Expr(7, 4)) IN Plain(c, OXM_EXPR_OFX_TYPE(1, c.id))

Oxms == [
    ofb_in_port |-> ofb_in_port, ofb_in_phy_port |-> ofb_in_phy_port, ofb_metadata
    |-> ofb_metadata, ofb_eth_dst |-> ofb_eth_dst, ofb_eth_src |-> ofb_eth_src, ofb_eth_type
    |-> ofb_eth_type, ofb_vlan_vid |-> ofb_vlan_vid, ofb_vlan_pcp |-> ofb_vlan_pcp, ofb_ip_dscp
    |-> ofb_ip_dscp, ofb_ip_ecn |-> ofb_ip_ecn, ofb_ip_proto |-> ofb_ip_proto, ofb_ipv4_src
    |-> ofb_ipv4_src, ofb_ipv4_dst |-> ofb_ipv4_dst, ofb_ipv6_src |-> ofb_ipv6_src, ofb_ipv6_dst
    |-> ofb_ipv6_dst, ofb_tcp_src |-> ofb_tcp_src, ofb_tcp_dst |-> ofb_tcp_dst, ofb_udp_src
    |-> ofb_udp_src, ofb_udp_dst |-> ofb_udp_dst, ofb_sctp_src |-> ofb_sctp_src, ofb_sctp_dst
    |-> ofb_sctp_dst, ofb_icmpv4_type |-> ofb_icmpv4_type, ofb_icmpv4_code |-> ofb_icmpv4_code,
    ofb_arp_opcode |-> ofb_arp_opcode, ofb_arp_spa |-> ofb_arp_spa, ofb_arp_tpa |-> ofb_arp_tpa,
    ofb_arp_sha |-> ofb_arp_sha, ofb_arp_tha |-> ofb_arp_tha, ofb_ipv6_flabel
    |-> ofb_ipv6_flabel, ofb_icmpv6_type |-> ofb_icmpv6_type, ofb_icmpv6_code
    |-> ofb_icmpv6_code, ofb_ipv6_nd_target |-> ofb_ipv6_nd_target, ofb_ipv6_nd_sll
    |-> ofb_ipv6_nd_sll, ofb_ipv6_nd_tll |-> ofb_ipv6_nd_tll, ofb_mpls_label |-> ofb_mpls_label,
    ofb_mpls_tc |-> ofb_mpls_tc, ofb_mpls_bos |-> ofb_mpls_bos, ofb_tunnel_id |-> ofb_tunnel_id,
    ofb_pbb_isid |-> ofb_pbb_isid, ofb_ipv6_exthdr |-> ofb_ipv6_exthdr, ofx_nw_proto
    |-> ofx_nw_proto, ofx_nw_src |-> ofx_nw_src, ofx_nw_dst |-> ofx_nw_dst, ofx_nw_tos
    |-> ofx_nw_tos, ofx_tp_src |-> ofx_tp_src, ofx_tp_dst |-> ofx_tp_dst, packet_register
    |-> packet_register, exp_match |-> exp_match]

-----------------------------------------------------------------------------
Has(m, k) == k \in DOMAIN m
Without(m, k) == [l \in DOMAIN m \ {k} |-> m[l]]
Deleted(m, k) == IF Has(m, k) THEN 1 ELSE 0

Free == step = "idle" \/ Concurrent
Room(k) == Has(matches, k) \/ Cardinality(DOMAIN matches) < MaxOxms

Keep == UNCHANGED <<target, wire, pos, ids, step>>

(* mutant: what was stored under the key is overwritten *)
Add_leak(f) ==
    /\ Free /\ f.plain /\ Room(f.key)
    /\ matches' = (f.key :> New(f.tlv)) @@ matches
    /\ live'    = live + 1
    /\ Keep

(* add_*(value): what was stored under the key is deleted. *)
Add(f) ==
    /\ Free /\ f.plain /\ Room(f.key)
    /\ matches' = (f.key :> New(f.tlv)) @@ matches
    /\ live'    = live + 1 - Deleted(matches, f.key)
    /\ Keep

(* add_*(value, mask): likewise, if it finds the old one. *)
AddMasked(f) ==
    /\ Free /\ f.masked /\ Room(f.key)
    /\ matches' = (f.key :> NewMasked(f.tlv)) @@ matches
    /\ live'    = live + 1 - Deleted(matches, f.old)
    /\ Keep

(* set_*(): creates the TLV unless it is there; its user may set the value   *)
(* or the mask of what it returns.                                           *)
Found(f) == IF Has(matches, f.key) THEN matches[f.key] ELSE NewBare(f.tlv)

Set(f, t) ==
    /\ Free /\ Room(f.key)
    /\ matches' = (f.key :> t) @@ matches
    /\ live'    = live + 1 - Deleted(matches, f.key)
    /\ Keep

Drop(f) ==
    /\ Free /\ Has(matches, f.key)
    /\ matches' = Without(matches, f.key)
    /\ live'    = live - 1
    /\ Keep

clear ==
    /\ Free /\ matches # <<>>
    /\ matches' = <<>>
    /\ live'    = live - Cardinality(DOMAIN matches)
    /\ Keep

-----------------------------------------------------------------------------
(* pack(): the TLVs in the order of their keys, each adjusting its length.   *)
Start(i) == FoldLeft(LAMBDA n, t : n + TlvLength(t), 0, SubSeq(wire, 1, i - 1))
Octets   == Start(Len(wire) + 1)

InOrder == SetToSortSeq(DOMAIN matches, Before)

Pack ==
    /\ step = "idle" /\ matches # <<>>
    /\ matches' = [k \in DOMAIN matches |-> OnPack(matches[k])]
    /\ wire'    = [i \in 1..Cardinality(DOMAIN matches) |-> matches'[InOrder[i]]]
    /\ pos' = 0 /\ step' = "unpack" /\ target' = <<>>
    /\ UNCHANGED <<ids, live>>

(* The cases of unpack(): the types of each class it knows.  Any other type of *)
(* an experimenter is stored by add_exp_match(); packet registers have no case. *)
UnpackBasic == {Oxms[f].key : f \in {g \in DOMAIN Oxms : Oxms[g].tlv.id.class = OFPXMC_OPENFLOW_BASIC}}
UnpackExp   == {Oxms[f].key : f \in {g \in DOMAIN Oxms : Oxms[g].tlv.id.class = OFPXMC_EXPERIMENTER}}

WireKey(t) == OXM_EXPR_OFX_TYPE(t.exp, t.id)

Stored(t) == WireKey(t) \in UnpackBasic \cup UnpackExp

Advance(t) == 4 + t.id.len

(* One iteration of unpack(): the TLV at pos is stored under its type, then   *)
(* pos advances by the length field.                                          *)
Here == {i \in DOMAIN wire : Start(i) = pos}

UnpackNext ==
    /\ step = "unpack" /\ Octets - pos >= 4
    /\ IF Here = {}
       THEN step' = "astray" /\ UNCHANGED <<target, live, pos>>
       ELSE LET t == wire[Max(Here)]
            IN  /\ IF Stored(t)
                   THEN /\ target' = (WireKey(t) :> t) @@ target
                        /\ live'   = live + 1 - Deleted(target, WireKey(t))
                   ELSE UNCHANGED <<target, live>>
                /\ IF Octets - pos >= Advance(t) THEN pos' = pos + Advance(t) /\ UNCHANGED step
                                                 ELSE step' = "unpacked" /\ UNCHANGED pos
    /\ UNCHANGED <<matches, wire, ids>>

UnpackEnd ==
    /\ step = "unpack" /\ Octets - pos < 4
    /\ step' = "unpacked"
    /\ UNCHANGED <<matches, target, wire, pos, ids, live>>

-----------------------------------------------------------------------------
(* copy_matches(): get_ids() under the lock of the source ... *)
CopyStart ==
    /\ step = "idle" /\ matches # <<>>
    /\ ids' = DOMAIN matches /\ step' = "copy" /\ target' = <<>>
    /\ UNCHANGED <<matches, wire, pos, live>>

(* ... then the TLVs, each under the lock again; get_*() throws eOxmInval     *)
(* when one is gone.  There is no case for packet registers.                  *)
CopyCases == UnpackBasic \cup UnpackExp

CopyNext(k) ==
    /\ step = "copy" /\ k \in ids /\ \A l \in ids : l = k \/ Before(k, l)
    /\ ids' = ids \ {k}
    /\ IF k \notin CopyCases
       THEN UNCHANGED <<target, live, step>>
       ELSE IF Has(matches, k)
       THEN target' = (k :> matches[k]) @@ target /\ live' = live + 1 /\ UNCHANGED step
       ELSE step' = "threw" /\ UNCHANGED <<target, live>>
    /\ UNCHANGED <<matches, wire, pos>>

CopyEnd ==
    /\ step = "copy" /\ ids = {}
    /\ step' = "copied"
    /\ UNCHANGED <<matches, target, wire, pos, ids, live>>

(* The target is destroyed. *)
Destroy ==
    /\ step \in {"unpacked", "copied", "astray", "threw"}
    /\ live' = live - Cardinality(DOMAIN target)
    /\ target' = <<>> /\ wire' = <<>> /\ pos' = 0 /\ ids' = {} /\ step' = "idle"
    /\ UNCHANGED matches

-----------------------------------------------------------------------------
Init ==
    /\ matches = <<>> /\ target = <<>> /\ wire = <<>> /\ pos = 0 /\ ids = {} /\ live = 0
    /\ step = "idle"

CopySteps == (\E k \in ids : CopyNext(k)) \/ CopyEnd

Next ==
    \/ \E n \in Names : Add(Oxms[n])
    \/ \E n \in Names : AddMasked(Oxms[n])
    \/ \E n \in Names : Set(Oxms[n], SetValue(Oxms[n].tlv, Found(Oxms[n])))
    \/ \E n \in Names : Has(matches, Oxms[n].key) /\ Set(Oxms[n], SetMask(Found(Oxms[n])))
    \/ \E n \in BareNames : Set(Oxms[n], Found(Oxms[n]))
    \/ \E n \in Names : Drop(Oxms[n])
    \/ clear
    \/ Pack \/ UnpackNext \/ UnpackEnd
    \/ CopyStart \/ CopySteps
    \/ Destroy

Spec == Init /\ [][Next]_vars /\ WF_vars(UnpackNext) /\ WF_vars(UnpackEnd) /\ WF_vars(CopySteps)

-----------------------------------------------------------------------------
(* contains(): the ids it looks for are the types shifted by 32 bits, to where *)
(* a key has the experimenter id (k[2] stands for the type word there).        *)
Shifted(k) == <<k[2], 0, 0>>
Same(t, u) == t.id = u.id                        \* coxmatch::operator==

contains(m, o, strict) ==
    /\ IF strict THEN Cardinality(DOMAIN m) = Cardinality(DOMAIN o)
                 ELSE Cardinality(DOMAIN m) <= Cardinality(DOMAIN o)
    /\ \A k \in DOMAIN m : Has(o, Shifted(k)) /\ Same(m[k], o[k])

(* operator== of coxmatches *)
Equal(m, o) ==
    /\ Cardinality(DOMAIN m) = Cardinality(DOMAIN o)
    /\ \A k \in DOMAIN m : Has(o, k) /\ Same(m[k], o[k])

-----------------------------------------------------------------------------
(* Properties. *)

(* The fields have the values of their types. *)
TypeOK ==
    /\ live \in Nat /\ pos \in Nat
    /\ Cardinality(DOMAIN matches) <= MaxOxms
    /\ step \in {"idle", "unpack", "copy", "unpacked", "copied", "astray", "threw"}

(* A TLV is found again under the type its own id has: whichever of add_*(), *)
(* set_*(), unpack() and copy_matches() has stored it, has_*(), get_*() and   *)
(* drop_*() of the same name reach it.                                        *)
OwnKey ==
    \A m \in {matches, target} : \A k \in DOMAIN m :
        k = OXM_EXPR_OFX_TYPE(m[k].exp, m[k].id)

(* TLVs are neither leaked nor deleted twice: those allocated are exactly     *)
(* those the two objects hold.                                                *)
NoOrphan == live = Cardinality(DOMAIN matches) + Cardinality(DOMAIN target)

(* What pack() has written unpack() reads back, all of it: the length fields  *)
(* lead from TLV to TLV although the lengths the user has set values and      *)
(* masks with were not in the ids before.                                     *)
TripWhole ==
    /\ step # "astray"
    /\ step = "unpacked" =>
          /\ pos = Octets
          /\ DOMAIN target = {WireKey(wire[i]) : i \in DOMAIN wire}
          /\ \A i \in DOMAIN wire : target[WireKey(wire[i])] = wire[i]

(* A copy has every TLV of the original and compares equal to it. *)
CopyWhole ==
    /\ step # "threw"
    /\ step = "copied" => target = matches /\ Equal(target, matches)

(* The accessors of coxmatches keep the object sound in any order of calls:   *)
(* every TLV under its own type, none leaked and none deleted twice.          *)
MatchIntact == TypeOK /\ OwnKey /\ NoOrphan

(* unpack() of what pack() has written, and copy_matches(), end, and with the *)
(* whole match.                                                               *)
MatchWhole ==
    /\ step = "unpack" ~> step = "unpacked" /\ TripWhole
    /\ step = "copy"   ~> step = "copied" /\ CopyWhole

(* A match contains itself (the comment on contains(): all elements of one    *)
(* must be present in the other).                                             *)
ContainsSelf == contains(matches, matches, FALSE)

(* A match may be copied while another thread drops one of its TLVs: the class *)
(* locks itself for that.                                                      *)
CopyNeverThrows == step # "threw"

(* Two matches that compare equal have the same values (the comment in        *)
(* contains(): both TLVs must have identical values).                          *)
EqualValues ==
    step = "copied" /\ Equal(target, matches) =>
        \A k \in DOMAIN target : target[k].value = matches[k].value
=============================================================================
