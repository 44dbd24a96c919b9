------------------------------ MODULE OpenFlowCommon ------------------------------
(* The structs of openflow/openflow_common.h (what all versions share) that the codecs use, field by field. *)
EXTENDS OfLayout

ofp_header == Struct(<<<<"version", U8>>, <<"type", U8>>,
  <<"length", U16>>, <<"xid", U32>>, <<"body", Arr(U8, 0)>>>>)
ofp_error_msg == Struct(<<<<"header", ofp_header>>, <<"type", U16>>,
  <<"code", U16>>, <<"data", Arr(U8, 0)>>>>)
ofp_instruction == Struct(<<<<"type", U16>>, <<"len", U16>>,
  <<"body", Arr(U8, 0)>>>>)
ofp_action == Struct(<<<<"type", U16>>, <<"len", U16>>,
  <<"body", Arr(U8, 0)>>>>)
ofp_action_header == Struct(<<<<"type", U16>>, <<"len", U16>>,
  <<"pad", Arr(U8, 4)>>>>)

(* The OFP_ASSERTs that follow the structs in the header. *)
ASSUME OpenFlowCommonAsserts ==
    /\ Size(ofp_header) = 8 /\ Size(ofp_error_msg) = 12
    /\ Size(ofp_instruction) = 4 /\ Size(ofp_action) = 4
    /\ Size(ofp_action_header) = 8
=============================================================================
