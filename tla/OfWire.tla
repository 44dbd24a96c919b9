------------------------------- MODULE OfWire -------------------------------
(***************************************************************************)
(* An object on its way over the wire: one process packs it, another one    *)
(* unpacks what it is handed, which is the whole of it or, when the peer's   *)
(* message is shorter than its type demands, less.  Lists are unpacked by a  *)
(* loop, one step per iteration.                                             *)
(***************************************************************************)
EXTENDS OfLists
LOCAL INSTANCE SequencesExt
LOCAL INSTANCE FiniteSetsExt

CONSTANTS Objects,    \* the <<class, version>> pairs of codecs that travel
          Sequels,    \* the <<class, version>> pairs of lists that travel
          Foreign,    \* those that may hold an element of an unknown type
          MaxElems    \* bound on the elements of a list

VARIABLES job,        \* what travels: class, version, codec and lengths, or loop and elements
          phase,      \* "idle", "wire", "loop", "read", "refused", "ignored"
          wire,       \* the stored fields and parts, in the order of storing
          given,      \* octets handed to unpack()
          off,        \* position of the list loop
          out         \* what unpack() has loaded

vars == <<job, phase, wire, given, off, out>>

Codecs == [
    cofaction |-> cofaction, cofaction_output |-> cofaction_output, cofaction_set_vlan_vid
    |-> cofaction_set_vlan_vid, cofaction_set_vlan_pcp |-> cofaction_set_vlan_pcp,
    cofaction_strip_vlan |-> cofaction_strip_vlan, cofaction_set_dl_src |->
    cofaction_set_dl_src, cofaction_set_dl_dst |-> cofaction_set_dl_dst,
    cofaction_set_nw_src |-> cofaction_set_nw_src, cofaction_set_nw_dst |->
    cofaction_set_nw_dst, cofaction_set_nw_tos |-> cofaction_set_nw_tos,
    cofaction_set_tp_src |-> cofaction_set_tp_src, cofaction_set_tp_dst |->
    cofaction_set_tp_dst, cofaction_enqueue |-> cofaction_enqueue, cofaction_vendor |->
    cofaction_vendor, cofaction_set_mpls_ttl |-> cofaction_set_mpls_ttl,
    cofaction_dec_mpls_ttl |-> cofaction_dec_mpls_ttl, cofaction_push_vlan |->
    cofaction_push_vlan, cofaction_pop_vlan |-> cofaction_pop_vlan, cofaction_push_mpls |->
    cofaction_push_mpls, cofaction_pop_mpls |-> cofaction_pop_mpls, cofaction_group |->
    cofaction_group, cofaction_set_nw_ttl |-> cofaction_set_nw_ttl, cofaction_dec_nw_ttl |->
    cofaction_dec_nw_ttl, cofaction_copy_ttl_out |-> cofaction_copy_ttl_out,
    cofaction_copy_ttl_in |-> cofaction_copy_ttl_in, cofaction_set_queue |->
    cofaction_set_queue, cofaction_set_field |-> cofaction_set_field, cofaction_experimenter
    |-> cofaction_experimenter, cofaction_push_pbb |-> cofaction_push_pbb, cofaction_pop_pbb
    |-> cofaction_pop_pbb, cofmatch |-> cofmatch, cofaggr_stats_request |->
    cofaggr_stats_request, cofaggr_stats_reply |-> cofaggr_stats_reply, cofasync_config |->
    cofasync_config, cofbucket |-> cofbucket, cofbucket_counter |-> cofbucket_counter,
    cofdesc_stats_reply |-> cofdesc_stats_reply, cofflowmod |-> cofflowmod,
    cofflow_stats_request |-> cofflow_stats_request, cofflow_stats_reply |->
    cofflow_stats_reply, cofgroup_desc_stats_reply |-> cofgroup_desc_stats_reply,
    cofgroup_features_stats_reply |-> cofgroup_features_stats_reply, cofgroupmod |->
    cofgroupmod, cofgroup_stats_request |-> cofgroup_stats_request, cofgroup_stats_reply |->
    cofgroup_stats_reply, cofhello_elem_versionbitmap |-> cofhello_elem_versionbitmap,
    cofinstruction |-> cofinstruction, cofinstruction_actions |-> cofinstruction_actions,
    cofinstruction_goto_table |-> cofinstruction_goto_table, cofinstruction_write_metadata
    |-> cofinstruction_write_metadata, cofinstruction_meter |-> cofinstruction_meter,
    cofinstruction_experimenter |-> cofinstruction_experimenter, cofmeter_band |->
    cofmeter_band, cofmeter_band_dscp_remark |-> cofmeter_band_dscp_remark,
    cofmeter_band_experimenter |-> cofmeter_band_experimenter, cofmeter_band_stats |->
    cofmeter_band_stats, cofmeter_config_request |-> cofmeter_config_request,
    cofmeter_config_reply |-> cofmeter_config_reply, cofmeter_features_reply |->
    cofmeter_features_reply, cofmeter_stats_request |-> cofmeter_stats_request,
    cofmeter_stats_reply |-> cofmeter_stats_reply, cofpacket_queue |-> cofpacket_queue,
    cofport |-> cofport, cofportdesc_prop |-> cofportdesc_prop, cofportdesc_prop_ethernet
    |-> cofportdesc_prop_ethernet, cofportdesc_prop_optical |-> cofportdesc_prop_optical,
    cofportdesc_prop_experimenter |-> cofportdesc_prop_experimenter, cofport_stats_request
    |-> cofport_stats_request, cofport_stats_reply |-> cofport_stats_reply, cofqueue_prop
    |-> cofqueue_prop, cofqueue_prop_min_rate |-> cofqueue_prop_min_rate,
    cofqueue_prop_max_rate |-> cofqueue_prop_max_rate, cofqueue_prop_experimenter |->
    cofqueue_prop_experimenter, cofqueue_stats_request |-> cofqueue_stats_request,
    cofqueue_stats_reply |-> cofqueue_stats_reply, cofrole |-> cofrole,
    coftable_feature_prop_instructions |-> coftable_feature_prop_instructions,
    coftable_feature_prop_next_tables |-> coftable_feature_prop_next_tables,
    coftable_feature_prop_actions |-> coftable_feature_prop_actions,
    coftable_feature_prop_oxm |-> coftable_feature_prop_oxm, coftable_features |->
    coftable_features, coftablemod_prop |-> coftablemod_prop, coftablemod_prop_eviction |->
    coftablemod_prop_eviction, coftablemod_prop_vacancy |-> coftablemod_prop_vacancy,
    coftablemod_prop_experimenter |-> coftablemod_prop_experimenter, coftable_stats_reply
    |-> coftable_stats_reply, cofmsg |-> cofmsg, cofmsg_stats_request |->
    cofmsg_stats_request, cofmsg_aggr_stats_request |-> cofmsg_aggr_stats_request,
    cofmsg_stats_reply |-> cofmsg_stats_reply, cofmsg_aggr_stats_reply |->
    cofmsg_aggr_stats_reply, cofmsg_get_async_config_request |->
    cofmsg_get_async_config_request, cofmsg_get_async_config_reply |->
    cofmsg_get_async_config_reply, cofmsg_set_async_config |-> cofmsg_set_async_config,
    cofmsg_barrier_request |-> cofmsg_barrier_request, cofmsg_barrier_reply |->
    cofmsg_barrier_reply, cofmsg_get_config_reply |-> cofmsg_get_config_reply,
    cofmsg_set_config |-> cofmsg_set_config, cofmsg_desc_stats_request |->
    cofmsg_desc_stats_request, cofmsg_desc_stats_reply |-> cofmsg_desc_stats_reply,
    cofmsg_echo_request |-> cofmsg_echo_request, cofmsg_echo_reply |-> cofmsg_echo_reply,
    cofmsg_error |-> cofmsg_error, cofmsg_experimenter |-> cofmsg_experimenter,
    cofmsg_experimenter_stats_request |-> cofmsg_experimenter_stats_request,
    cofmsg_experimenter_stats_reply |-> cofmsg_experimenter_stats_reply,
    cofmsg_features_reply |-> cofmsg_features_reply, cofmsg_flow_mod |-> cofmsg_flow_mod,
    cofmsg_flow_removed |-> cofmsg_flow_removed, cofmsg_flow_stats_request |->
    cofmsg_flow_stats_request, cofmsg_flow_stats_reply |-> cofmsg_flow_stats_reply,
    cofmsg_group_desc_stats_request |-> cofmsg_group_desc_stats_request,
    cofmsg_group_desc_stats_reply |-> cofmsg_group_desc_stats_reply,
    cofmsg_group_features_stats_request |-> cofmsg_group_features_stats_request,
    cofmsg_group_features_stats_reply |-> cofmsg_group_features_stats_reply,
    cofmsg_group_mod |-> cofmsg_group_mod, cofmsg_group_stats_request |->
    cofmsg_group_stats_request, cofmsg_group_stats_reply |-> cofmsg_group_stats_reply,
    cofmsg_hello |-> cofmsg_hello, cofmsg_meter_config_stats_request |->
    cofmsg_meter_config_stats_request, cofmsg_meter_config_stats_reply |->
    cofmsg_meter_config_stats_reply, cofmsg_meter_features_stats_request |->
    cofmsg_meter_features_stats_request, cofmsg_meter_features_stats_reply |->
    cofmsg_meter_features_stats_reply, cofmsg_meter_mod |-> cofmsg_meter_mod,
    cofmsg_meter_stats_request |-> cofmsg_meter_stats_request, cofmsg_meter_stats_reply |->
    cofmsg_meter_stats_reply, cofmsg_packet_in |-> cofmsg_packet_in, cofmsg_packet_out |->
    cofmsg_packet_out, cofmsg_port_desc_stats_request |-> cofmsg_port_desc_stats_request,
    cofmsg_port_desc_stats_reply |-> cofmsg_port_desc_stats_reply, cofmsg_port_mod |->
    cofmsg_port_mod, cofmsg_port_stats_request |-> cofmsg_port_stats_request,
    cofmsg_port_stats_reply |-> cofmsg_port_stats_reply, cofmsg_port_status |->
    cofmsg_port_status, cofmsg_queue_get_config_request |-> cofmsg_queue_get_config_request,
    cofmsg_queue_get_config_reply |-> cofmsg_queue_get_config_reply,
    cofmsg_queue_stats_request |-> cofmsg_queue_stats_request, cofmsg_queue_stats_reply |->
    cofmsg_queue_stats_reply, cofmsg_role_request |-> cofmsg_role_request, cofmsg_role_reply
    |-> cofmsg_role_reply, cofmsg_table_features_stats_request |->
    cofmsg_table_features_stats_request, cofmsg_table_features_stats_reply |->
    cofmsg_table_features_stats_reply, cofmsg_table_mod |-> cofmsg_table_mod,
    cofmsg_table_stats_request |-> cofmsg_table_stats_request, cofmsg_table_stats_reply |->
    cofmsg_table_stats_reply]

ListClasses == [
    cofactions |-> cofactions, cofinstructions |-> cofinstructions, cofqueue_props |->
    cofqueue_props, cofportdesc_props |-> cofportdesc_props, coftablemod_props |->
    coftablemod_props, coftable_feature_props |-> coftable_feature_props, cofmeter_bands |->
    cofmeter_bands, cofhelloelems |-> cofhelloelems, cofbuckets |-> cofbuckets, coftables
    |-> coftables, cofports |-> cofports, cofbucket_counters |-> cofbucket_counters,
    cofmeter_band_stats_array |-> cofmeter_band_stats_array, cofflowstatsarray |->
    cofflowstatsarray, cofgroupdescstatsarray |-> cofgroupdescstatsarray, cofgroupstatsarray
    |-> cofgroupstatsarray, cofmeterconfigarray |-> cofmeterconfigarray, cofmeterstatsarray
    |-> cofmeterstatsarray, cofpacket_queues |-> cofpacket_queues, cofportstatsarray |->
    cofportstatsarray, cofqueuestatsarray |-> cofqueuestatsarray, coftablestatsarray |->
    coftablestatsarray]


-----------------------------------------------------------------------------
(* Objects. *)

PackedParts(c, z) ==
    [i \in DOMAIN c.parts |-> [at |-> PartAt(c, z, i), width |-> z[i],
                               member |-> c.parts[i].name, conv |-> z[i]]]

(* pack(): the fields, then the parts, into length() octets. *)
Pack(n, v, c, z) ==
    /\ phase = "idle"
    /\ job'   = [kind |-> "object", class |-> n, version |-> v, codec |-> c, parts |-> z]
    /\ phase' = "wire"
    /\ wire'  = c.put \o PackedParts(c, z)
    /\ given' = Length(c, z)
    /\ UNCHANGED <<off, out>>

Codec == job.codec
Whole == Length(Codec, job.parts)

(* A peer's message that ends inside the fixed part; its length field says so. *)
Cuts(c) == {k \in UNION {{f.at + f.width - 1, f.at + f.width} : f \in Range(c.put)}
                     \cup {c.fixed - 1} : 0 < k /\ k < c.fixed}

Truncate(k) ==
    /\ phase = "wire" /\ job.kind = "object" /\ given = Whole
    /\ k \in Cuts(Codec)
    /\ given' = k
    /\ UNCHANGED <<job, phase, wire, off, out>>

Overlap(s, at, w) == s.at < at + w /\ at < s.at + s.width

(* Where the w octets at `at' come from: the last thing stored there. *)
Slice(at, w) ==
    LET hits == {i \in DOMAIN wire : Overlap(wire[i], at, w)}
        s    == wire[Max(hits)]
    IN  IF hits # {} /\ s.at <= at /\ at + w <= s.at + s.width
        THEN [of |-> s.member, from |-> at - s.at, width |-> w, conv |-> s.conv]
        ELSE [of |-> "mixed", from |-> 0, width |-> w, conv |-> w]

PartCount(c, i) ==
    CASE c.parts[i].count = Rest -> given - PartAt(c, job.parts, i)
      [] c.parts[i].count = Own  -> job.parts[i]
      [] OTHER                   -> c.parts[i].count

LoadedFields(c) ==
    [m \in {f.member : f \in Range(c.get)} |->
        LET f == c.get[Max({i \in DOMAIN c.get : c.get[i].member = m})]
        IN  [from |-> Slice(f.at, f.width), conv |-> f.conv]]

LoadedParts(c) ==
    [i \in DOMAIN c.parts |-> [at |-> PartAt(c, job.parts, i), width |-> PartCount(c, i)]]

(* unpack() throws, or just returns, when its buffer is too short for it or *)
(* for one of the objects it contains.                                       *)
TooShort(c) ==
    \/ given < c.need
    \/ \E i \in DOMAIN c.parts : PartCount(c, i) > 0 /\ PartCount(c, i) < c.parts[i].need

Unpack ==
    /\ phase = "wire" /\ job.kind = "object"
    /\ IF TooShort(Codec)
       THEN phase' = (IF Codec.quiet THEN "ignored" ELSE "refused") /\ UNCHANGED out
       ELSE phase' = "read" /\ out' = [fields |-> LoadedFields(Codec), parts |-> LoadedParts(Codec)]
    /\ UNCHANGED <<job, wire, given, off>>

-----------------------------------------------------------------------------
(* Lists. *)

Bare(c, z) == c.fixed + BodyLength(c, z, Len(c.parts))     \* length without padding

(* The elements a list may hold: their class, what length() says of them and *)
(* what their length field says.                                             *)
Known(l) == UNION {
    {[class |-> i, length |-> Length(l.elems[i], z),
      field |-> IF l.step = "padded" THEN Bare(l.elems[i], z) ELSE Length(l.elems[i], z)] :
        z \in PartSizes(l.elems[i])} : i \in DOMAIN l.elems}

(* An element of a type that the loop has no case for: a peer may know more   *)
(* types, and add_inst() makes instructions of any.                           *)
Stranger == [class |-> 0, length |-> 8, field |-> 8]
Strange(es) == {i \in DOMAIN es : es[i].class = 0}

Contents(l, foreign) ==
    LET Elems == Known(l) \cup (IF foreign /\ l.other # "none" THEN {Stranger} ELSE {}) IN
    {es \in UNION {[1..n -> Elems] : n \in 0..MaxElems} :
        l.key = "class" => \A i, j \in DOMAIN es : i # j => es[i].class # es[j].class}

ListLength(es) == FoldLeft(LAMBDA n, e : n + e.length, 0, es)
Start(es, i)   == ListLength(SubSeq(es, 1, i - 1))

PackList(n, v, l, es) ==
    /\ phase = "idle"
    /\ job'   = [kind |-> "list", class |-> n, version |-> v, loop |-> l, elems |-> es]
    /\ phase' = "loop"
    /\ given' = ListLength(es)
    /\ off'   = 0
    /\ out'   = <<>>
    /\ UNCHANGED wire

TheList  == job.loop
Here     == {i \in DOMAIN job.elems : Start(job.elems, i) = off}
ElemHere == Max(Here)           \* the element that starts where the loop is

Advance(l, e) ==
    CASE e.class = 0 /\ l.other = "stay" -> 0
      [] l.step = "fixed"  -> l.floor
      [] l.step = "field"  -> e.field
      [] l.step = "padded" -> RoundUp(e.field, 8)
      [] l.step = "elem"   -> e.length

(* The key the element is stored under; a field of the buffer is the key only *)
(* if it is the very field the element keeps that member in.                  *)
KeyOf(l, i) ==
    CASE l.key = "index"  -> Cardinality(DOMAIN out) + 1
      [] l.key = "class"  -> job.elems[i].class
      [] l.key = "member" -> i
      [] l.key = "field"  -> IF l.keyat \in Range(l.elems[job.elems[i].class].put) THEN i ELSE -i

(* One iteration: an element is unpacked and stored, the position advances;   *)
(* where no element starts, what is read next is no element.  An element of    *)
(* another type is not stored.                                                *)
UnpackNext ==
    /\ phase = "loop" /\ given - off >= TheList.floor
    /\ IF Here = {} \/ (ElemHere \in Strange(job.elems) /\ TheList.other = "throw")
       THEN phase' = "refused" /\ UNCHANGED <<off, out>>
       ELSE LET e == job.elems[ElemHere]
                n == Advance(TheList, e)
            IN  /\ out' = IF e.class = 0 THEN out
                          ELSE (KeyOf(TheList, ElemHere) :>
                                  [elem |-> IF TheList.here THEN ElemHere ELSE 1,
                                   whole |-> TheList.step # "fixed" \/ n = e.length]) @@ out
                /\ off' = off + n
                /\ UNCHANGED phase
    /\ UNCHANGED <<job, wire, given>>

UnpackEnd ==
    /\ phase = "loop" /\ given - off < TheList.floor
    /\ phase' = "read"
    /\ UNCHANGED <<job, wire, given, off, out>>

-----------------------------------------------------------------------------
Discard ==
    /\ phase \in {"read", "refused", "ignored"}
    /\ phase' = "idle" /\ job' = <<>> /\ wire' = <<>> /\ given' = 0 /\ off' = 0 /\ out' = <<>>

Init ==
    /\ phase = "idle" /\ job = <<>> /\ wire = <<>> /\ given = 0 /\ off = 0 /\ out = <<>>

Next ==
    \/ \E o \in Objects : \E c \in {Codecs[o[1]][o[2]]} : \E z \in PartSizes(c) : Pack(o[1], o[2], c, z)
    \/ \E o \in Sequels : \E l \in {ListClasses[o[1]][o[2]]} : 
          \E es \in Contents(l, o \in Foreign) : PackList(o[1], o[2], l, es)
    \/ phase = "wire" /\ \E k \in 1..given : Truncate(k)
    \/ Unpack
    \/ UnpackNext
    \/ UnpackEnd
    \/ Discard

Spec == Init /\ [][Next]_vars /\ WF_vars(Unpack) /\ WF_vars(UnpackNext) /\ WF_vars(UnpackEnd)

-----------------------------------------------------------------------------
(* Properties. *)

Object == job # <<>> /\ job.kind = "object"
List   == job # <<>> /\ job.kind = "list"

(* Jobs, buffers and positions stay within their bounds. *)
TypeOK ==
    /\ phase \in {"idle", "wire", "loop", "read", "refused", "ignored"}
    /\ given \in Nat /\ off \in Nat
    /\ job = <<>> <=> phase = "idle"
    /\ Object => <<job.class, job.version>> \in Objects
    /\ List   => <<job.class, job.version>> \in Sequels /\ Len(job.elems) <= MaxElems

(* pack() of every class writes within the length() octets its caller has    *)
(* allocated, for every version and every length of what the object contains. *)
PackFits ==
    phase = "wire" /\ Object => \A s \in Range(wire) : s.at >= 0 /\ s.at + s.width <= Whole

(* unpack() accepts whatever pack() of the same class and version produced:   *)
(* it refuses (eBadSyntax, eInvalid, or by returning without a word) only     *)
(* buffers shorter than length(), and no list loses its way, unless it refuses *)
(* elements of types it does not know.                                         *)
StrangerRefused ==
    phase = "refused" /\ List /\ TheList.other = "throw" /\ Strange(job.elems) # {}
AcceptsOwn ==
    phase \in {"refused", "ignored"} => (Object /\ given < Whole) \/ StrangerRefused

(* What has been packed comes back: every member unpack() loads is loaded     *)
(* from exactly the octets pack() stored it in, through a conversion of the   *)
(* same width as the field, nothing stored later covers it, and the objects   *)
(* contained are handed their own octets (and no octet of padding when they    *)
(* keep all they are given).                                                  *)
RoundTrip ==
    phase = "read" /\ Object /\ given = Whole =>
        /\ \A m \in DOMAIN out.fields :
              \E w \in 1..Whole :
                 out.fields[m] = [from |-> [of |-> m, from |-> 0, width |-> w, conv |-> w], conv |-> w]
        /\ \A i \in DOMAIN out.parts : job.parts[i] > 0 =>
              /\ Slice(out.parts[i].at, job.parts[i]).of = Codec.parts[i].name
              /\ IF Codec.parts[i].raw THEN out.parts[i].width = job.parts[i]
                                       ELSE out.parts[i].width >= job.parts[i]

(* A buffer that ends inside the fixed part is refused before anything behind *)
(* its end is read: the check at the top of unpack() covers all it loads.     *)
NoHalfRead ==
    phase = "read" /\ Object =>
        /\ \A f \in Range(Codec.get) : f.at + f.width <= given
        /\ \A i \in DOMAIN out.parts : out.parts[i].width = 0
                                        \/ out.parts[i].at + out.parts[i].width <= given

(* pack() and unpack() of a class are inverse to one another in each version: *)
(* what is written fits, is accepted, and every member comes back.            *)
ObjectTrip == TypeOK /\ PackFits /\ AcceptsOwn /\ RoundTrip

(* The loop of a list yields each element once, under its own key and from    *)
(* its own octets, whatever the lengths of the elements before it, and nothing *)
(* of the elements whose type it does not know.                               *)
ListRoundTrip == phase = "read" /\ List =>
    LET known == DOMAIN job.elems \ Strange(job.elems)
        key   == [i \in known |->
                    CASE TheList.key = "class" -> job.elems[i].class
                      [] TheList.key = "index" -> Cardinality({j \in known : j <= i})
                      [] OTHER                 -> i]
    IN  /\ DOMAIN out = Range(key)
        /\ \A i \in known : out[key[i]] = [elem |-> i, whole |-> TRUE]

(* The loop that unpack() of a list class runs ends, no element makes it stand *)
(* still, and then every element pack() has written has been read, unless it   *)
(* has refused one whose type it does not know.                                *)
ListsRead ==
    phase = "loop" ~> (phase = "read" /\ ListRoundTrip) \/ StrangerRefused
=============================================================================
