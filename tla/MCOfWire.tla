------------------------------ MODULE MCOfWire ------------------------------
EXTENDS OfWire

AllObjects == {<<n, v>> \in (DOMAIN Codecs) \X {1, 3, 4, 5} : v \in DOMAIN Codecs[n]}
AllLists   == {<<n, v>> \in (DOMAIN ListClasses) \X {1, 3, 4, 5} : v \in DOMAIN ListClasses[n]}

(* What the code does not carry over the wire unchanged: see the README. *)
PacketIn10 == {<<"cofmsg_packet_in", 1>>}
Vendor     == {<<"cofaction_vendor", 1>>, <<"cofaction_experimenter", 3>>, <<"cofaction_experimenter", 4>>}
Optical    == {<<"cofportdesc_prop_optical", 5>>}
Meters     == {<<"cofmeterconfigarray", 4>>, <<"cofmeterstatsarray", 4>>}
Queues     == {<<"cofpacket_queues", v>> : v \in {1, 3, 4}} \cup {<<"cofqueuestatsarray", 1>>}
Ports10    == {<<"cofportstatsarray", 1>>}
Flows10    == {<<"cofflowstatsarray", 1>>}

GoodObjects == AllObjects \ (PacketIn10 \cup Vendor \cup Optical)
GoodLists   == AllLists \ (Meters \cup Queues \cup Ports10 \cup Flows10)
None        == {}

\* Lists that get past an element of a type they do not know.
PassesOn    == {o \in GoodLists : ListClasses[o[1]][o[2]].other # "stay"}
=============================================================================
