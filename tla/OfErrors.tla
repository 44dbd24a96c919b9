------------------------------ MODULE OfErrors ------------------------------
(* Errors: the numbers of the error types and codes in each OpenFlow version, the exceptions an    *)
(* application may throw with the code each stands for, the error message classes, and the catch   *)
(* clauses of crofctl::handle_recv that turn one into the other.                                   *)
EXTENDS OfTypes

(* Error types and codes; openflow_common.h has those the error message classes use. *)
ofp_error_type == [OFPET_HELLO_FAILED |-> 0, OFPET_BAD_REQUEST |-> 1, OFPET_BAD_ACTION |-> 2,
  OFPET_BAD_INSTRUCTION |-> 3, OFPET_BAD_MATCH |-> 4, OFPET_FLOW_MOD_FAILED |-> 5,
  OFPET_GROUP_MOD_FAILED |-> 6, OFPET_PORT_MOD_FAILED |-> 7, OFPET_TABLE_MOD_FAILED |-> 8,
  OFPET_QUEUE_OP_FAILED |-> 9, OFPET_SWITCH_CONFIG_FAILED |-> 10,
  OFPET_ROLE_REQUEST_FAILED |-> 11, OFPET_METER_MOD_FAILED |-> 12,
  OFPET_TABLE_FEATURES_FAILED |-> 13, OFPET_EXPERIMENTER |-> 65535]
ofp_hello_failed_code == [OFPHFC_INCOMPATIBLE |-> 0, OFPHFC_EPERM |-> 1]
ofp_bad_request_code == [OFPBRC_BAD_VERSION |-> 0, OFPBRC_BAD_TYPE |-> 1, OFPBRC_BAD_STAT |-> 2,
  OFPBRC_BAD_EXPERIMENTER |-> 3, OFPBRC_BAD_EXP_TYPE |-> 4, OFPBRC_EPERM |-> 5,
  OFPBRC_BAD_LEN |-> 6, OFPBRC_BUFFER_EMPTY |-> 7, OFPBRC_BUFFER_UNKNOWN |-> 8,
  OFPBRC_BAD_TABLE_ID |-> 9, OFPBRC_IS_SLAVE |-> 10, OFPBRC_BAD_PORT |-> 11,
  OFPBRC_BAD_PACKET |-> 12, OFPBRC_MULTIPART_BUFFER_OVERFLOW |-> 13]
ofp_bad_action_code == [OFPBAC_BAD_TYPE |-> 0, OFPBAC_BAD_LEN |-> 1,
  OFPBAC_BAD_EXPERIMENTER |-> 2, OFPBAC_BAD_EXP_TYPE |-> 3, OFPBAC_BAD_OUT_PORT |-> 4,
  OFPBAC_BAD_ARGUMENT |-> 5, OFPBAC_EPERM |-> 6, OFPBAC_TOO_MANY |-> 7, OFPBAC_BAD_QUEUE |-> 8,
  OFPBAC_BAD_OUT_GROUP |-> 9, OFPBAC_MATCH_INCONSISTENT |-> 10, OFPBAC_UNSUPPORTED_ORDER |-> 11,
  OFPBAC_BAD_TAG |-> 12, OFPBAC_BAD_SET_TYPE |-> 13, OFPBAC_BAD_SET_LEN |-> 14,
  OFPBAC_BAD_SET_ARGUMENT |-> 15]
ofp_bad_instruction_code == [OFPBIC_UNKNOWN_INST |-> 0, OFPBIC_UNSUP_INST |-> 1,
  OFPBIC_BAD_TABLE_ID |-> 2, OFPBIC_UNSUP_METADATA |-> 3, OFPBIC_UNSUP_METADATA_MASK |-> 4,
  OFPBIC_BAD_EXPERIMENTER |-> 5, OFPBIC_BAD_EXP_TYPE |-> 6, OFPBIC_BAD_LEN |-> 7,
  OFPBIC_EPERM |-> 8]
ofp_bad_match_code == [OFPBMC_BAD_TYPE |-> 0, OFPBMC_BAD_LEN |-> 1, OFPBMC_BAD_TAG |-> 2,
  OFPBMC_BAD_DL_ADDR_MASK |-> 3, OFPBMC_BAD_NW_ADDR_MASK |-> 4, OFPBMC_BAD_WILDCARDS |-> 5,
  OFPBMC_BAD_FIELD |-> 6, OFPBMC_BAD_VALUE |-> 7, OFPBMC_BAD_MASK |-> 8,
  OFPBMC_BAD_PREREQ |-> 9, OFPBMC_DUP_FIELD |-> 10, OFPBMC_EPERM |-> 11]
ofp_flow_mod_failed_code == [OFPFMFC_UNKNOWN |-> 0, OFPFMFC_TABLE_FULL |-> 1,
  OFPFMFC_BAD_TABLE_ID |-> 2, OFPFMFC_OVERLAP |-> 3, OFPFMFC_EPERM |-> 4,
  OFPFMFC_BAD_TIMEOUT |-> 5, OFPFMFC_BAD_COMMAND |-> 6, OFPFMFC_BAD_FLAGS |-> 7]
ofp_group_mod_failed_code == [OFPGMFC_GROUP_EXISTS |-> 0, OFPGMFC_INVALID_GROUP |-> 1,
  OFPGMFC_WEIGHT_UNSUPPORTED |-> 2, OFPGMFC_OUT_OF_GROUPS |-> 3, OFPGMFC_OUT_OF_BUCKETS |-> 4,
  OFPGMFC_CHAINING_UNSUPPORTED |-> 5, OFPGMFC_WATCH_UNSUPPORTED |-> 6, OFPGMFC_LOOP |-> 7,
  OFPGMFC_UNKNOWN_GROUP |-> 8, OFPGMFC_CHAINED_GROUP |-> 9, OFPGMFC_BAD_TYPE |-> 10,
  OFPGMFC_BAD_COMMAND |-> 11, OFPGMFC_BAD_BUCKET |-> 12, OFPGMFC_BAD_WATCH |-> 13,
  OFPGMFC_EPERM |-> 14]
ofp_port_mod_failed_code == [OFPPMFC_BAD_PORT |-> 0, OFPPMFC_BAD_HW_ADDR |-> 1,
  OFPPMFC_BAD_CONFIG |-> 2, OFPPMFC_BAD_ADVERTISE |-> 3, OFPPMFC_EPERM |-> 4]
ofp_table_mod_failed_code == [OFPTMFC_BAD_TABLE |-> 0, OFPTMFC_BAD_CONFIG |-> 1,
  OFPTMFC_EPERM |-> 2]
ofp_queue_op_failed_code == [OFPQOFC_BAD_PORT |-> 0, OFPQOFC_BAD_QUEUE |-> 1,
  OFPQOFC_EPERM |-> 2]
ofp_switch_config_failed_code == [OFPSCFC_BAD_FLAGS |-> 0, OFPSCFC_BAD_LEN |-> 1,
  OFPSCFC_EPERM |-> 2]
ofp_role_request_failed_code == [OFPRRFC_STALE |-> 0, OFPRRFC_UNSUP |-> 1,
  OFPRRFC_BAD_ROLE |-> 2]
ofp_meter_mod_failed_code == [OFPMMFC_UNKNOWN |-> 0, OFPMMFC_METER_EXISTS |-> 1,
  OFPMMFC_INVALID_METER |-> 2, OFPMMFC_UNKNOWN_METER |-> 3, OFPMMFC_BAD_COMMAND |-> 4,
  OFPMMFC_BAD_FLAGS |-> 5, OFPMMFC_BAD_RATE |-> 6, OFPMMFC_BAD_BURST |-> 7,
  OFPMMFC_BAD_BAND |-> 8, OFPMMFC_BAD_BAND_VALUE |-> 9, OFPMMFC_OUT_OF_METERS |-> 10,
  OFPMMFC_OUT_OF_BANDS |-> 11]
ofp_table_features_failed_code == [OFPTFFC_BAD_TABLE |-> 0, OFPTFFC_BAD_METADATA |-> 1,
  OFPTFFC_BAD_TYPE |-> 2, OFPTFFC_BAD_LEN |-> 3, OFPTFFC_BAD_ARGUMENT |-> 4,
  OFPTFFC_EPERM |-> 5]
ofp10_error_type == [OFPET_HELLO_FAILED |-> 0, OFPET_BAD_REQUEST |-> 1, OFPET_BAD_ACTION |-> 2,
  OFPET_FLOW_MOD_FAILED |-> 3, OFPET_PORT_MOD_FAILED |-> 4, OFPET_QUEUE_OP_FAILED |-> 5]
ofp10_hello_failed_code == [OFPHFC_INCOMPATIBLE |-> 0, OFPHFC_EPERM |-> 1]
ofp10_bad_request_code == [OFPBRC_BAD_VERSION |-> 0, OFPBRC_BAD_TYPE |-> 1,
  OFPBRC_BAD_STAT |-> 2, OFPBRC_BAD_VENDOR |-> 3, OFPBRC_BAD_SUBTYPE |-> 4, OFPBRC_EPERM |-> 5,
  OFPBRC_BAD_LEN |-> 6, OFPBRC_BUFFER_EMPTY |-> 7, OFPBRC_BUFFER_UNKNOWN |-> 8]
ofp10_bad_action_code == [OFPBAC_BAD_TYPE |-> 0, OFPBAC_BAD_LEN |-> 1, OFPBAC_BAD_VENDOR |-> 2,
  OFPBAC_BAD_VENDOR_TYPE |-> 3, OFPBAC_BAD_OUT_PORT |-> 4, OFPBAC_BAD_ARGUMENT |-> 5,
  OFPBAC_EPERM |-> 6, OFPBAC_TOO_MANY |-> 7, OFPBAC_BAD_QUEUE |-> 8]
ofp10_flow_mod_failed_code == [OFPFMFC_ALL_TABLES_FULL |-> 0, OFPFMFC_OVERLAP |-> 1,
  OFPFMFC_EPERM |-> 2, OFPFMFC_BAD_EMERG_TIMEOUT |-> 3, OFPFMFC_BAD_COMMAND |-> 4,
  OFPFMFC_UNSUPPORTED |-> 5]
ofp10_port_mod_failed_code == [OFPPMFC_BAD_PORT |-> 0, OFPPMFC_BAD_HW_ADDR |-> 1]
ofp10_queue_op_failed_code == [OFPQOFC_BAD_PORT |-> 0, OFPQOFC_BAD_QUEUE |-> 1,
  OFPQOFC_EPERM |-> 2]
ofp12_error_type == [OFPET_HELLO_FAILED |-> 0, OFPET_BAD_REQUEST |-> 1, OFPET_BAD_ACTION |-> 2,
  OFPET_BAD_INSTRUCTION |-> 3, OFPET_BAD_MATCH |-> 4, OFPET_FLOW_MOD_FAILED |-> 5,
  OFPET_GROUP_MOD_FAILED |-> 6, OFPET_PORT_MOD_FAILED |-> 7, OFPET_TABLE_MOD_FAILED |-> 8,
  OFPET_QUEUE_OP_FAILED |-> 9, OFPET_SWITCH_CONFIG_FAILED |-> 10,
  OFPET_ROLE_REQUEST_FAILED |-> 11, OFPET_EXPERIMENTER |-> 65535]
ofp12_hello_failed_code == [OFPHFC_INCOMPATIBLE |-> 0, OFPHFC_EPERM |-> 1]
ofp12_bad_request_code == [OFPBRC_BAD_VERSION |-> 0, OFPBRC_BAD_TYPE |-> 1,
  OFPBRC_BAD_STAT |-> 2, OFPBRC_BAD_EXPERIMENTER |-> 3, OFPBRC_BAD_EXP_TYPE |-> 4,
  OFPBRC_EPERM |-> 5, OFPBRC_BAD_LEN |-> 6, OFPBRC_BUFFER_EMPTY |-> 7,
  OFPBRC_BUFFER_UNKNOWN |-> 8, OFPBRC_BAD_TABLE_ID |-> 9, OFPBRC_IS_SLAVE |-> 10,
  OFPBRC_BAD_PORT |-> 11, OFPBRC_BAD_PACKET |-> 12]
ofp12_bad_action_code == [OFPBAC_BAD_TYPE |-> 0, OFPBAC_BAD_LEN |-> 1,
  OFPBAC_BAD_EXPERIMENTER |-> 2, OFPBAC_BAD_EXPERIMENTER_TYPE |-> 3, OFPBAC_BAD_OUT_PORT |-> 4,
  OFPBAC_BAD_ARGUMENT |-> 5, OFPBAC_EPERM |-> 6, OFPBAC_TOO_MANY |-> 7, OFPBAC_BAD_QUEUE |-> 8,
  OFPBAC_BAD_OUT_GROUP |-> 9, OFPBAC_MATCH_INCONSISTENT |-> 10, OFPBAC_UNSUPPORTED_ORDER |-> 11,
  OFPBAC_BAD_TAG |-> 12]
ofp12_bad_instruction_code == [OFPBIC_UNKNOWN_INST |-> 0, OFPBIC_UNSUP_INST |-> 1,
  OFPBIC_BAD_TABLE_ID |-> 2, OFPBIC_UNSUP_METADATA |-> 3, OFPBIC_UNSUP_METADATA_MASK |-> 4,
  OFPBIC_UNSUP_EXP_INST |-> 5]
ofp12_bad_match_code == [OFPBMC_BAD_TYPE |-> 0, OFPBMC_BAD_LEN |-> 1, OFPBMC_BAD_TAG |-> 2,
  OFPBMC_BAD_DL_ADDR_MASK |-> 3, OFPBMC_BAD_NW_ADDR_MASK |-> 4, OFPBMC_BAD_WILDCARDS |-> 5,
  OFPBMC_BAD_FIELD |-> 6, OFPBMC_BAD_VALUE |-> 7, OFPBMC_BAD_MASK |-> 8,
  OFPBMC_BAD_PREREQ |-> 9, OFPBMC_DUP_FIELD |-> 10, OFPBMC_EPERM |-> 11]
ofp12_flow_mod_failed_code == [OFPFMFC_UNKNOWN |-> 0, OFPFMFC_TABLE_FULL |-> 1,
  OFPFMFC_BAD_TABLE_ID |-> 2, OFPFMFC_OVERLAP |-> 3, OFPFMFC_EPERM |-> 4,
  OFPFMFC_BAD_TIMEOUT |-> 5, OFPFMFC_BAD_COMMAND |-> 6]
ofp12_group_mod_failed_code == [OFPGMFC_GROUP_EXISTS |-> 0, OFPGMFC_INVALID_GROUP |-> 1,
  OFPGMFC_WEIGHT_UNSUPPORTED |-> 2, OFPGMFC_OUT_OF_GROUPS |-> 3, OFPGMFC_OUT_OF_BUCKETS |-> 4,
  OFPGMFC_CHAINING_UNSUPPORTED |-> 5, OFPGMFC_WATCH_UNSUPPORTED |-> 6, OFPGMFC_LOOP |-> 7,
  OFPGMFC_UNKNOWN_GROUP |-> 8, OFPGMFC_CHAINED_GROUP |-> 9, OFPGMFC_BAD_TYPE |-> 10,
  OFPGMFC_BAD_COMMAND |-> 11, OFPGMFC_BAD_BUCKET |-> 12, OFPGMFC_BAD_WATCH |-> 13,
  OFPGMFC_EPERM |-> 14]
ofp12_port_mod_failed_code == [OFPPMFC_BAD_PORT |-> 0, OFPPMFC_BAD_HW_ADDR |-> 1,
  OFPPMFC_BAD_CONFIG |-> 2, OFPPMFC_BAD_ADVERTISE |-> 3]
ofp12_table_mod_failed_code == [OFPTMFC_BAD_TABLE |-> 0, OFPTMFC_BAD_CONFIG |-> 1]
ofp12_queue_op_failed_code == [OFPQOFC_BAD_PORT |-> 0, OFPQOFC_BAD_QUEUE |-> 1,
  OFPQOFC_EPERM |-> 2]
ofp12_switch_config_failed_code == [OFPSCFC_BAD_FLAGS |-> 0, OFPSCFC_BAD_LEN |-> 1]
ofp12_role_request_failed_code == [OFPRRFC_STALE |-> 0, OFPRRFC_UNSUP |-> 1,
  OFPRRFC_BAD_ROLE |-> 2]
ofp13_error_type == [OFPET_HELLO_FAILED |-> 0, OFPET_BAD_REQUEST |-> 1, OFPET_BAD_ACTION |-> 2,
  OFPET_BAD_INSTRUCTION |-> 3, OFPET_BAD_MATCH |-> 4, OFPET_FLOW_MOD_FAILED |-> 5,
  OFPET_GROUP_MOD_FAILED |-> 6, OFPET_PORT_MOD_FAILED |-> 7, OFPET_TABLE_MOD_FAILED |-> 8,
  OFPET_QUEUE_OP_FAILED |-> 9, OFPET_SWITCH_CONFIG_FAILED |-> 10,
  OFPET_ROLE_REQUEST_FAILED |-> 11, OFPET_METER_MOD_FAILED |-> 12,
  OFPET_TABLE_FEATURES_FAILED |-> 13, OFPET_EXPERIMENTER |-> 65535]
ofp13_hello_failed_code == [OFPHFC_INCOMPATIBLE |-> 0, OFPHFC_EPERM |-> 1]
ofp13_bad_request_code == [OFPBRC_BAD_VERSION |-> 0, OFPBRC_BAD_TYPE |-> 1,
  OFPBRC_BAD_STAT |-> 2, OFPBRC_BAD_EXPERIMENTER |-> 3, OFPBRC_BAD_EXP_TYPE |-> 4,
  OFPBRC_EPERM |-> 5, OFPBRC_BAD_LEN |-> 6, OFPBRC_BUFFER_EMPTY |-> 7,
  OFPBRC_BUFFER_UNKNOWN |-> 8, OFPBRC_BAD_TABLE_ID |-> 9, OFPBRC_IS_SLAVE |-> 10,
  OFPBRC_BAD_PORT |-> 11, OFPBRC_BAD_PACKET |-> 12, OFPBRC_MULTIPART_BUFFER_OVERFLOW |-> 13]
ofp13_bad_action_code == [OFPBAC_BAD_TYPE |-> 0, OFPBAC_BAD_LEN |-> 1,
  OFPBAC_BAD_EXPERIMENTER |-> 2, OFPBAC_BAD_EXP_TYPE |-> 3, OFPBAC_BAD_OUT_PORT |-> 4,
  OFPBAC_BAD_ARGUMENT |-> 5, OFPBAC_EPERM |-> 6, OFPBAC_TOO_MANY |-> 7, OFPBAC_BAD_QUEUE |-> 8,
  OFPBAC_BAD_OUT_GROUP |-> 9, OFPBAC_MATCH_INCONSISTENT |-> 10, OFPBAC_UNSUPPORTED_ORDER |-> 11,
  OFPBAC_BAD_TAG |-> 12, OFPBAC_BAD_SET_TYPE |-> 13, OFPBAC_BAD_SET_LEN |-> 14,
  OFPBAC_BAD_SET_ARGUMENT |-> 15]
ofp13_bad_instruction_code == [OFPBIC_UNKNOWN_INST |-> 0, OFPBIC_UNSUP_INST |-> 1,
  OFPBIC_BAD_TABLE_ID |-> 2, OFPBIC_UNSUP_METADATA |-> 3, OFPBIC_UNSUP_METADATA_MASK |-> 4,
  OFPBIC_BAD_EXPERIMENTER |-> 5, OFPBIC_BAD_EXP_TYPE |-> 6, OFPBIC_BAD_LEN |-> 7,
  OFPBIC_EPERM |-> 8]
ofp13_bad_match_code == [OFPBMC_BAD_TYPE |-> 0, OFPBMC_BAD_LEN |-> 1, OFPBMC_BAD_TAG |-> 2,
  OFPBMC_BAD_DL_ADDR_MASK |-> 3, OFPBMC_BAD_NW_ADDR_MASK |-> 4, OFPBMC_BAD_WILDCARDS |-> 5,
  OFPBMC_BAD_FIELD |-> 6, OFPBMC_BAD_VALUE |-> 7, OFPBMC_BAD_MASK |-> 8,
  OFPBMC_BAD_PREREQ |-> 9, OFPBMC_DUP_FIELD |-> 10, OFPBMC_EPERM |-> 11]
ofp13_flow_mod_failed_code == [OFPFMFC_UNKNOWN |-> 0, OFPFMFC_TABLE_FULL |-> 1,
  OFPFMFC_BAD_TABLE_ID |-> 2, OFPFMFC_OVERLAP |-> 3, OFPFMFC_EPERM |-> 4,
  OFPFMFC_BAD_TIMEOUT |-> 5, OFPFMFC_BAD_COMMAND |-> 6, OFPFMFC_BAD_FLAGS |-> 7]
ofp13_group_mod_failed_code == [OFPGMFC_GROUP_EXISTS |-> 0, OFPGMFC_INVALID_GROUP |-> 1,
  OFPGMFC_WEIGHT_UNSUPPORTED |-> 2, OFPGMFC_OUT_OF_GROUPS |-> 3, OFPGMFC_OUT_OF_BUCKETS |-> 4,
  OFPGMFC_CHAINING_UNSUPPORTED |-> 5, OFPGMFC_WATCH_UNSUPPORTED |-> 6, OFPGMFC_LOOP |-> 7,
  OFPGMFC_UNKNOWN_GROUP |-> 8, OFPGMFC_CHAINED_GROUP |-> 9, OFPGMFC_BAD_TYPE |-> 10,
  OFPGMFC_BAD_COMMAND |-> 11, OFPGMFC_BAD_BUCKET |-> 12, OFPGMFC_BAD_WATCH |-> 13,
  OFPGMFC_EPERM |-> 14]
ofp13_port_mod_failed_code == [OFPPMFC_BAD_PORT |-> 0, OFPPMFC_BAD_HW_ADDR |-> 1,
  OFPPMFC_BAD_CONFIG |-> 2, OFPPMFC_BAD_ADVERTISE |-> 3, OFPPMFC_EPERM |-> 4]
ofp13_table_mod_failed_code == [OFPTMFC_BAD_TABLE |-> 0, OFPTMFC_BAD_CONFIG |-> 1,
  OFPTMFC_EPERM |-> 2]
ofp13_queue_op_failed_code == [OFPQOFC_BAD_PORT |-> 0, OFPQOFC_BAD_QUEUE |-> 1,
  OFPQOFC_EPERM |-> 2]
ofp13_switch_config_failed_code == [OFPSCFC_BAD_FLAGS |-> 0, OFPSCFC_BAD_LEN |-> 1,
  OFPSCFC_EPERM |-> 2]
ofp13_role_request_failed_code == [OFPRRFC_STALE |-> 0, OFPRRFC_UNSUP |-> 1,
  OFPRRFC_BAD_ROLE |-> 2]
ofp13_meter_mod_failed_code == [OFPMMFC_UNKNOWN |-> 0, OFPMMFC_METER_EXISTS |-> 1,
  OFPMMFC_INVALID_METER |-> 2, OFPMMFC_UNKNOWN_METER |-> 3, OFPMMFC_BAD_COMMAND |-> 4,
  OFPMMFC_BAD_FLAGS |-> 5, OFPMMFC_BAD_RATE |-> 6, OFPMMFC_BAD_BURST |-> 7,
  OFPMMFC_BAD_BAND |-> 8, OFPMMFC_BAD_BAND_VALUE |-> 9, OFPMMFC_OUT_OF_METERS |-> 10,
  OFPMMFC_OUT_OF_BANDS |-> 11]
ofp13_table_features_failed_code == [OFPTFFC_BAD_TABLE |-> 0, OFPTFFC_BAD_METADATA |-> 1,
  OFPTFFC_BAD_TYPE |-> 2, OFPTFFC_BAD_LEN |-> 3, OFPTFFC_BAD_ARGUMENT |-> 4,
  OFPTFFC_EPERM |-> 5]

(* Tables with different names, as one. *)
Together(tables) ==
  [n \in UNION {DOMAIN f : f \in tables} |-> (CHOOSE f \in tables : n \in DOMAIN f)[n]]

(* All error names of a version. *)
ErrorTables(v) ==
  CASE v = 1 -> {ofp10_error_type, ofp10_hello_failed_code, ofp10_bad_request_code,
          ofp10_bad_action_code, ofp10_flow_mod_failed_code,
          ofp10_port_mod_failed_code, ofp10_queue_op_failed_code}
    [] v = 3 -> {ofp12_error_type, ofp12_hello_failed_code, ofp12_bad_request_code,
          ofp12_bad_action_code, ofp12_bad_instruction_code, ofp12_bad_match_code,
          ofp12_flow_mod_failed_code, ofp12_group_mod_failed_code,
          ofp12_port_mod_failed_code, ofp12_table_mod_failed_code,
          ofp12_queue_op_failed_code, ofp12_switch_config_failed_code,
          ofp12_role_request_failed_code}
    [] v = 4 -> {ofp13_error_type, ofp13_hello_failed_code, ofp13_bad_request_code,
          ofp13_bad_action_code, ofp13_bad_instruction_code, ofp13_bad_match_code,
          ofp13_flow_mod_failed_code, ofp13_group_mod_failed_code,
          ofp13_port_mod_failed_code, ofp13_table_mod_failed_code,
          ofp13_queue_op_failed_code, ofp13_switch_config_failed_code,
          ofp13_role_request_failed_code, ofp13_meter_mod_failed_code,
          ofp13_table_features_failed_code}
ErrorNumbers == [v \in Versions |-> Together(ErrorTables(v))]

(* The exceptions of openflow_rofl_exceptions.h: error type and code by name. *)
eHello == [eHelloIncompatible |-> "OFPHFC_INCOMPATIBLE", eHelloEperm |-> "OFPHFC_EPERM"]
eBadRequest == [eBadRequestBadVersion |-> "OFPBRC_BAD_VERSION",
  eBadRequestBadType |-> "OFPBRC_BAD_TYPE", eBadRequestBadStat |-> "OFPBRC_BAD_STAT",
  eBadRequestBadExperimenter |-> "OFPBRC_BAD_EXPERIMENTER",
  eBadRequestBadExpType |-> "OFPBRC_BAD_EXP_TYPE", eBadRequestEperm |-> "OFPBRC_EPERM",
  eBadRequestBadLen |-> "OFPBRC_BAD_LEN", eBadRequestBufferEmpty |-> "OFPBRC_BUFFER_EMPTY",
  eBadRequestBufferUnknown |-> "OFPBRC_BUFFER_UNKNOWN",
  eBadRequestBadTableId |-> "OFPBRC_BAD_TABLE_ID", eBadRequestIsSlave |-> "OFPBRC_IS_SLAVE",
  eBadRequestBadPort |-> "OFPBRC_BAD_PORT", eBadRequestBadPacket |-> "OFPBRC_BAD_PACKET",
  eBadRequestMultipartBufferOverflow |-> "OFPBRC_MULTIPART_BUFFER_OVERFLOW"]
eBadAction == [eBadActionBadType |-> "OFPBAC_BAD_TYPE", eBadActionBadLen |-> "OFPBAC_BAD_LEN",
  eBadActionBadExperimenter |-> "OFPBAC_BAD_EXPERIMENTER",
  eBadActionBadExperimenterType |-> "OFPBAC_BAD_EXPERIMENTER_TYPE",
  eBadActionBadOutPort |-> "OFPBAC_BAD_OUT_PORT",
  eBadActionBadArgument |-> "OFPBAC_BAD_ARGUMENT", eBadActionEperm |-> "OFPBAC_EPERM",
  eBadActionTooMany |-> "OFPBAC_TOO_MANY", eBadActionBadQueue |-> "OFPBAC_BAD_QUEUE",
  eBadActionBadOutGroup |-> "OFPBAC_BAD_OUT_GROUP",
  eBadActionMatchInconsistent |-> "OFPBAC_MATCH_INCONSISTENT",
  eBadActionUnsupportedOrder |-> "OFPBAC_UNSUPPORTED_ORDER",
  eBadActionBadTag |-> "OFPBAC_BAD_TAG", eBadActionBadSetType |-> "OFPBAC_BAD_SET_TYPE",
  eBadActionBadSetLen |-> "OFPBAC_BAD_SET_LEN",
  eBadActionBadSetArgument |-> "OFPBAC_BAD_SET_ARGUMENT"]
eBadInst == [eBadInstUnknownInst |-> "OFPBIC_UNKNOWN_INST",
  eBadInstUnsupInst |-> "OFPBIC_UNSUP_INST", eBadInstBadTableId |-> "OFPBIC_BAD_TABLE_ID",
  eBadInstUnsupMetadata |-> "OFPBIC_UNSUP_METADATA",
  eBadInstUnsupMetadataMask |-> "OFPBIC_UNSUP_METADATA_MASK",
  eBadInstBadExperimenter |-> "OFPBIC_BAD_EXPERIMENTER",
  eBadInstBadExpType |-> "OFPBIC_BAD_EXP_TYPE", eBadInstBadLen |-> "OFPBIC_BAD_LEN",
  eBadInstEperm |-> "OFPBIC_EPERM"]
eBadMatch == [eBadMatchBadType |-> "OFPBMC_BAD_TYPE", eBadMatchBadLen |-> "OFPBMC_BAD_LEN",
  eBadMatchBadTag |-> "OFPBMC_BAD_TAG", eBadMatchBadDlAddrMask |-> "OFPBMC_BAD_DL_ADDR_MASK",
  eBadMatchBadNwAddrMask |-> "OFPBMC_BAD_NW_ADDR_MASK",
  eBadMatchBadWildcards |-> "OFPBMC_BAD_WILDCARDS", eBadMatchBadField |-> "OFPBMC_BAD_FIELD",
  eBadMatchBadValue |-> "OFPBMC_BAD_VALUE", eBadMatchBadMask |-> "OFPBMC_BAD_MASK",
  eBadMatchBadPrereq |-> "OFPBMC_BAD_PREREQ", eBadMatchDupField |-> "OFPBMC_DUP_FIELD",
  eBadMatchEperm |-> "OFPBMC_EPERM"]
eFlowMod == [eFlowModUnknown |-> "OFPFMFC_UNKNOWN", eFlowModTableFull |-> "OFPFMFC_TABLE_FULL",
  eFlowModBadTableId |-> "OFPFMFC_BAD_TABLE_ID", eFlowModOverlap |-> "OFPFMFC_OVERLAP",
  eFlowModEperm |-> "OFPFMFC_EPERM", eFlowModBadTimeout |-> "OFPFMFC_BAD_TIMEOUT",
  eFlowModBadCommand |-> "OFPFMFC_BAD_COMMAND", eFlowModBadFlags |-> "OFPFMFC_BAD_FLAGS"]
eGroupMod == [eGroupModExists |-> "OFPGMFC_GROUP_EXISTS",
  eGroupModInvalGroup |-> "OFPGMFC_INVALID_GROUP",
  eGroupModWeightUnsupported |-> "OFPGMFC_WEIGHT_UNSUPPORTED",
  eGroupModOutOfGroups |-> "OFPGMFC_OUT_OF_GROUPS",
  eGroupModOutOfBuckets |-> "OFPGMFC_OUT_OF_BUCKETS",
  eGroupModChainingUnsupported |-> "OFPGMFC_CHAINING_UNSUPPORTED",
  eGroupModWatchUnsupported |-> "OFPGMFC_WATCH_UNSUPPORTED", eGroupModLoop |-> "OFPGMFC_LOOP",
  eGroupModUnknownGroup |-> "OFPGMFC_UNKNOWN_GROUP",
  eGroupModChainedGroup |-> "OFPGMFC_CHAINED_GROUP", eGroupModBadType |-> "OFPGMFC_BAD_TYPE",
  eGroupModBadCommand |-> "OFPGMFC_BAD_COMMAND", eGroupModBadBucket |-> "OFPGMFC_BAD_BUCKET",
  eGroupModBadWatch |-> "OFPGMFC_BAD_WATCH", eGroupModEperm |-> "OFPGMFC_EPERM"]
ePortMod == [ePortModBadPort |-> "OFPPMFC_BAD_PORT",
  ePortModBadHwAddr |-> "OFPPMFC_BAD_HW_ADDR", ePortModBadConfig |-> "OFPPMFC_BAD_CONFIG",
  ePortModBadAdvertise |-> "OFPPMFC_BAD_ADVERTISE", ePortModEperm |-> "OFPPMFC_EPERM"]
eTableMod == [eTableModBadTable |-> "OFPTMFC_BAD_TABLE",
  eTableModBadConfig |-> "OFPTMFC_BAD_CONFIG", eTableModEperm |-> "OFPTMFC_EPERM"]
eQueueOp == [eQueueOpBadPort |-> "OFPQOFC_BAD_PORT", eQueueOpBadQueue |-> "OFPQOFC_BAD_QUEUE",
  eQueueOpEperm |-> "OFPQOFC_EPERM"]
eSwitchConfig == [eSwitchConfigBadFlags |-> "OFPSCFC_BAD_FLAGS",
  eSwitchConfigBadLen |-> "OFPSCFC_BAD_LEN", eSwitchConfigEPerm |-> "OFPSCFC_EPERM"]
eRoleRequest == [eRoleRequestStale |-> "OFPRRFC_STALE",
  eRoleRequestUnsupported |-> "OFPRRFC_UNSUPPORTED", eRoleRequestBadRole |-> "OFPRRFC_BAD_ROLE"]
eMeterMod == [eMeterModUnknown |-> "OFPMMFC_UNKNOWN",
  eMeterModMeterExists |-> "OFPMMFC_METER_EXISTS",
  eMeterModInvalidMeter |-> "OFPMMFC_INVALID_METER",
  eMeterModUnknownMeter |-> "OFPMMFC_UNKNOWN_METER",
  eMeterModBadCommand |-> "OFPMMFC_BAD_COMMAND", eMeterModBadFlags |-> "OFPMMFC_BAD_FLAGS",
  eMeterModBadRate |-> "OFPMMFC_BAD_RATE", eMeterModBadBurst |-> "OFPMMFC_BAD_BURST",
  eMeterModBadBand |-> "OFPMMFC_BAD_BAND", eMeterModBadBandValue |-> "OFPMMFC_BAD_BAND_VALUE",
  eMeterModOutOfMeters |-> "OFPMMFC_OUT_OF_METERS",
  eMeterModOutOfBands |-> "OFPMMFC_OUT_OF_BANDS"]
eTableFeaturesReq == [eTableFeaturesReqBadTable |-> "OFPTFFC_BAD_TABLE",
  eTableFeaturesReqBadMetaData |-> "OFPTFFC_BAD_METADATA",
  eTableFeaturesReqBadType |-> "OFPTFFC_BAD_TYPE",
  eTableFeaturesReqBadLen |-> "OFPTFFC_BAD_LEN",
  eTableFeaturesReqBadArgument |-> "OFPTFFC_BAD_ARGUMENT",
  eTableFeaturesReqEperm |-> "OFPTFFC_EPERM"]
(* The error type of an exception: that of its family. *)
Family == [OFPET_HELLO_FAILED |-> DOMAIN eHello, OFPET_BAD_REQUEST |-> DOMAIN eBadRequest,
  OFPET_BAD_ACTION |-> DOMAIN eBadAction, OFPET_BAD_INSTRUCTION |-> DOMAIN eBadInst,
  OFPET_BAD_MATCH |-> DOMAIN eBadMatch, OFPET_FLOW_MOD_FAILED |-> DOMAIN eFlowMod,
  OFPET_GROUP_MOD_FAILED |-> DOMAIN eGroupMod, OFPET_PORT_MOD_FAILED |-> DOMAIN ePortMod,
  OFPET_TABLE_MOD_FAILED |-> DOMAIN eTableMod, OFPET_QUEUE_OP_FAILED |-> DOMAIN eQueueOp,
  OFPET_SWITCH_CONFIG_FAILED |-> DOMAIN eSwitchConfig,
  OFPET_ROLE_REQUEST_FAILED |-> DOMAIN eRoleRequest,
  OFPET_METER_MOD_FAILED |-> DOMAIN eMeterMod,
  OFPET_TABLE_FEATURES_FAILED |-> DOMAIN eTableFeaturesReq]
CodeName == Together({eHello, eBadRequest, eBadAction, eBadInst, eBadMatch, eFlowMod, eGroupMod,
  ePortMod, eTableMod, eQueueOp, eSwitchConfig, eRoleRequest, eMeterMod, eTableFeaturesReq})
TypeName(e) == CHOOSE t \in DOMAIN Family : e \in Family[t]
(* The error message classes: type and code by version. A version outside the domain makes the      *)
(* constructor throw eBadVersion.                                                                   *)
Anywhere == Versions
From12 == {3, 4}
From13 == {4}
Only10 == {1}
Error(vs, t, c) == [v \in vs |-> [type |-> t, code |-> c]]
Error10(e, t, c) == [e EXCEPT ![1] = [type |-> t, code |-> c]]
cofmsg_error_bad_request == [
  bad_len |-> Error(Anywhere, ofp_error_type.OFPET_BAD_REQUEST,
      ofp_bad_request_code.OFPBRC_BAD_LEN),
  bad_version |-> Error(Anywhere, ofp_error_type.OFPET_BAD_REQUEST,
      ofp_bad_request_code.OFPBRC_BAD_VERSION),
  bad_type |-> Error(Anywhere, ofp_error_type.OFPET_BAD_REQUEST,
      ofp_bad_request_code.OFPBRC_BAD_TYPE),
  bad_stat |-> Error(Anywhere, ofp_error_type.OFPET_BAD_REQUEST,
      ofp_bad_request_code.OFPBRC_BAD_STAT),
  bad_experimenter |-> Error(Anywhere, ofp_error_type.OFPET_BAD_REQUEST,
      ofp_bad_request_code.OFPBRC_BAD_EXPERIMENTER),
  bad_exp_type |-> Error(Anywhere, ofp_error_type.OFPET_BAD_REQUEST,
      ofp_bad_request_code.OFPBRC_BAD_EXP_TYPE),
  eperm |-> Error(Anywhere, ofp_error_type.OFPET_BAD_REQUEST, ofp_bad_request_code.OFPBRC_EPERM),
  buffer_empty |-> Error(Anywhere, ofp_error_type.OFPET_BAD_REQUEST,
      ofp_bad_request_code.OFPBRC_BUFFER_EMPTY),
  buffer_unknown |-> Error(Anywhere, ofp_error_type.OFPET_BAD_REQUEST,
      ofp_bad_request_code.OFPBRC_BUFFER_UNKNOWN),
  bad_table_id |-> Error(Anywhere, ofp_error_type.OFPET_BAD_REQUEST,
      ofp_bad_request_code.OFPBRC_BAD_TABLE_ID),
  is_slave |-> Error(Anywhere, ofp_error_type.OFPET_BAD_REQUEST,
      ofp_bad_request_code.OFPBRC_IS_SLAVE),
  bad_port |-> Error(Anywhere, ofp_error_type.OFPET_BAD_REQUEST,
      ofp_bad_request_code.OFPBRC_BAD_PORT),
  bad_packet |-> Error(Anywhere, ofp_error_type.OFPET_BAD_REQUEST,
      ofp_bad_request_code.OFPBRC_BAD_PACKET),
  multipart_buffer_overflow |-> Error(Anywhere, ofp_error_type.OFPET_BAD_REQUEST,
      ofp_bad_request_code.OFPBRC_MULTIPART_BUFFER_OVERFLOW)]
cofmsg_error_bad_action == [
  bad_type |-> Error(Anywhere, ofp_error_type.OFPET_BAD_ACTION,
      ofp_bad_action_code.OFPBAC_BAD_TYPE),
  bad_len |-> Error(Anywhere, ofp_error_type.OFPET_BAD_ACTION, ofp_bad_action_code.OFPBAC_BAD_LEN),
  bad_experimenter |-> Error(Anywhere, ofp_error_type.OFPET_BAD_ACTION,
      ofp_bad_action_code.OFPBAC_BAD_EXPERIMENTER),
  bad_experimenter_type |-> Error(Anywhere, ofp_error_type.OFPET_BAD_ACTION,
      ofp_bad_action_code.OFPBAC_BAD_EXP_TYPE),
  bad_out_port |-> Error(Anywhere, ofp_error_type.OFPET_BAD_ACTION,
      ofp_bad_action_code.OFPBAC_BAD_OUT_PORT),
  bad_argument |-> Error(Anywhere, ofp_error_type.OFPET_BAD_ACTION,
      ofp_bad_action_code.OFPBAC_BAD_ARGUMENT),
  eperm |-> Error(Anywhere, ofp_error_type.OFPET_BAD_ACTION, ofp_bad_action_code.OFPBAC_EPERM),
  too_many |-> Error(Anywhere, ofp_error_type.OFPET_BAD_ACTION,
      ofp_bad_action_code.OFPBAC_TOO_MANY)]
cofmsg_error_bad_action_more == [
  bad_queue |-> Error(Anywhere, ofp_error_type.OFPET_BAD_ACTION,
      ofp_bad_action_code.OFPBAC_BAD_QUEUE),
  bad_out_group |-> Error(From12, ofp_error_type.OFPET_BAD_ACTION,
      ofp_bad_action_code.OFPBAC_BAD_OUT_GROUP),
  match_inconsistent |-> Error(From12, ofp_error_type.OFPET_BAD_ACTION,
      ofp_bad_action_code.OFPBAC_MATCH_INCONSISTENT),
  unsupported_order |-> Error(From12, ofp_error_type.OFPET_BAD_ACTION,
      ofp_bad_action_code.OFPBAC_UNSUPPORTED_ORDER),
  bad_tag |-> Error(From12, ofp_error_type.OFPET_BAD_ACTION, ofp_bad_action_code.OFPBAC_BAD_TAG),
  bad_set_len |-> Error(From13, ofp_error_type.OFPET_BAD_ACTION,
      ofp_bad_action_code.OFPBAC_BAD_SET_LEN),
  bad_set_type |-> Error(From13, ofp_error_type.OFPET_BAD_ACTION,
      ofp_bad_action_code.OFPBAC_BAD_SET_TYPE),
  bad_set_argument |-> Error(From13, ofp_error_type.OFPET_BAD_ACTION,
      ofp_bad_action_code.OFPBAC_BAD_SET_ARGUMENT)]
cofmsg_error_bad_inst == [
  unknown_inst |-> Error(From12, ofp_error_type.OFPET_BAD_INSTRUCTION,
      ofp_bad_instruction_code.OFPBIC_UNKNOWN_INST),
  unsup_inst |-> Error(From12, ofp_error_type.OFPET_BAD_INSTRUCTION,
      ofp_bad_instruction_code.OFPBIC_UNSUP_INST),
  bad_table_id |-> Error(From12, ofp_error_type.OFPET_BAD_INSTRUCTION,
      ofp_bad_instruction_code.OFPBIC_BAD_TABLE_ID),
  unsup_metadata |-> Error(From12, ofp_error_type.OFPET_BAD_INSTRUCTION,
      ofp_bad_instruction_code.OFPBIC_UNSUP_METADATA),
  unsup_metadata_mask |-> Error(From12, ofp_error_type.OFPET_BAD_INSTRUCTION,
      ofp_bad_instruction_code.OFPBIC_UNSUP_METADATA_MASK),
  bad_experimenter |-> Error(From12, ofp_error_type.OFPET_BAD_INSTRUCTION,
      ofp_bad_instruction_code.OFPBIC_BAD_EXPERIMENTER),
  bad_exp_type |-> Error(From13, ofp_error_type.OFPET_BAD_INSTRUCTION,
      ofp_bad_instruction_code.OFPBIC_BAD_EXP_TYPE),
  bad_len |-> Error(From13, ofp_error_type.OFPET_BAD_INSTRUCTION,
      ofp_bad_instruction_code.OFPBIC_BAD_LEN),
  eperm |-> Error(From13, ofp_error_type.OFPET_BAD_INSTRUCTION,
      ofp_bad_instruction_code.OFPBIC_EPERM)]
cofmsg_error_bad_match == [
  bad_type |-> Error(From12, ofp_error_type.OFPET_BAD_MATCH, ofp_bad_match_code.OFPBMC_BAD_TYPE),
  bad_len |-> Error(From12, ofp_error_type.OFPET_BAD_MATCH, ofp_bad_match_code.OFPBMC_BAD_LEN),
  bad_tag |-> Error(From12, ofp_error_type.OFPET_BAD_MATCH, ofp_bad_match_code.OFPBMC_BAD_TAG),
  bad_dladdr_mask |-> Error(From12, ofp_error_type.OFPET_BAD_MATCH,
      ofp_bad_match_code.OFPBMC_BAD_DL_ADDR_MASK),
  bad_nwaddr_mask |-> Error(From12, ofp_error_type.OFPET_BAD_MATCH,
      ofp_bad_match_code.OFPBMC_BAD_NW_ADDR_MASK),
  bad_wildcards |-> Error(From12, ofp_error_type.OFPET_BAD_MATCH,
      ofp_bad_match_code.OFPBMC_BAD_WILDCARDS),
  bad_field |-> Error(From12, ofp_error_type.OFPET_BAD_MATCH, ofp_bad_match_code.OFPBMC_BAD_FIELD),
  bad_value |-> Error(From12, ofp_error_type.OFPET_BAD_MATCH, ofp_bad_match_code.OFPBMC_BAD_VALUE)]
cofmsg_error_bad_match_more == [
  bad_mask |-> Error(From12, ofp_error_type.OFPET_BAD_MATCH, ofp_bad_match_code.OFPBMC_BAD_MASK),
  bad_prereq |-> Error(From12, ofp_error_type.OFPET_BAD_MATCH,
      ofp_bad_match_code.OFPBMC_BAD_PREREQ),
  dup_field |-> Error(From12, ofp_error_type.OFPET_BAD_MATCH, ofp_bad_match_code.OFPBMC_DUP_FIELD),
  eperm |-> Error(From12, ofp_error_type.OFPET_BAD_MATCH, ofp_bad_match_code.OFPBMC_EPERM)]
cofmsg_error_hello_failed == [
  incompatible |-> Error(Anywhere, ofp_error_type.OFPET_HELLO_FAILED,
      ofp_hello_failed_code.OFPHFC_INCOMPATIBLE),
  eperm |-> Error(From12, ofp_error_type.OFPET_HELLO_FAILED, ofp_hello_failed_code.OFPHFC_EPERM)]
cofmsg_error_switch_config_failed == [
  bad_flags |-> Error(From12, ofp_error_type.OFPET_SWITCH_CONFIG_FAILED,
      ofp_switch_config_failed_code.OFPSCFC_BAD_FLAGS),
  bad_len |-> Error(From12, ofp_error_type.OFPET_SWITCH_CONFIG_FAILED,
      ofp_switch_config_failed_code.OFPSCFC_BAD_LEN),
  eperm |-> Error(From12, ofp_error_type.OFPET_SWITCH_CONFIG_FAILED,
      ofp_switch_config_failed_code.OFPSCFC_EPERM)]
cofmsg_error_flow_mod_failed == [
  unknown |-> Error(From12, ofp_error_type.OFPET_FLOW_MOD_FAILED,
      ofp_flow_mod_failed_code.OFPFMFC_UNKNOWN),
  table_full |-> Error10(Error(Anywhere, ofp12_error_type.OFPET_FLOW_MOD_FAILED,
      ofp12_flow_mod_failed_code.OFPFMFC_TABLE_FULL), ofp10_error_type.OFPET_FLOW_MOD_FAILED,
      ofp10_flow_mod_failed_code.OFPFMFC_ALL_TABLES_FULL),
  bad_table_id |-> Error(From12, ofp_error_type.OFPET_FLOW_MOD_FAILED,
      ofp_flow_mod_failed_code.OFPFMFC_BAD_TABLE_ID),
  overlap |-> Error10(Error(Anywhere, ofp12_error_type.OFPET_FLOW_MOD_FAILED,
      ofp12_flow_mod_failed_code.OFPFMFC_OVERLAP), ofp10_error_type.OFPET_FLOW_MOD_FAILED,
      ofp10_flow_mod_failed_code.OFPFMFC_OVERLAP)]
cofmsg_error_flow_mod_failed_eperm_not10 ==
  Error(Anywhere, ofp12_error_type.OFPET_FLOW_MOD_FAILED, ofp12_flow_mod_failed_code.OFPFMFC_EPERM)
cofmsg_error_flow_mod_failed_eperm ==
  Error10(Error(Anywhere, ofp12_error_type.OFPET_FLOW_MOD_FAILED,
      ofp12_flow_mod_failed_code.OFPFMFC_EPERM),
    ofp10_error_type.OFPET_FLOW_MOD_FAILED, ofp10_flow_mod_failed_code.OFPFMFC_EPERM)
cofmsg_error_flow_mod_failed_more == [
  bad_timeout |-> Error10(Error(Anywhere, ofp12_error_type.OFPET_FLOW_MOD_FAILED,
      ofp12_flow_mod_failed_code.OFPFMFC_BAD_TIMEOUT), ofp10_error_type.OFPET_FLOW_MOD_FAILED,
      ofp10_flow_mod_failed_code.OFPFMFC_BAD_EMERG_TIMEOUT),
  bad_command |-> Error10(Error(Anywhere, ofp12_error_type.OFPET_FLOW_MOD_FAILED,
      ofp12_flow_mod_failed_code.OFPFMFC_BAD_COMMAND), ofp10_error_type.OFPET_FLOW_MOD_FAILED,
      ofp10_flow_mod_failed_code.OFPFMFC_BAD_COMMAND),
  unsupported |-> Error(Only10, ofp10_error_type.OFPET_FLOW_MOD_FAILED,
      ofp10_flow_mod_failed_code.OFPFMFC_UNSUPPORTED),
  bad_flags |-> Error(From13, ofp_error_type.OFPET_FLOW_MOD_FAILED,
      ofp_flow_mod_failed_code.OFPFMFC_BAD_FLAGS)]
cofmsg_error_group_mod_failed == [
  group_exists |-> Error(From12, ofp_error_type.OFPET_GROUP_MOD_FAILED,
      ofp_group_mod_failed_code.OFPGMFC_GROUP_EXISTS),
  inval_group |-> Error(From12, ofp_error_type.OFPET_GROUP_MOD_FAILED,
      ofp_group_mod_failed_code.OFPGMFC_INVALID_GROUP),
  weight_unsupported |-> Error(From12, ofp_error_type.OFPET_GROUP_MOD_FAILED,
      ofp_group_mod_failed_code.OFPGMFC_WEIGHT_UNSUPPORTED),
  out_of_groups |-> Error(From12, ofp_error_type.OFPET_GROUP_MOD_FAILED,
      ofp_group_mod_failed_code.OFPGMFC_OUT_OF_GROUPS),
  out_of_buckets |-> Error(From12, ofp_error_type.OFPET_GROUP_MOD_FAILED,
      ofp_group_mod_failed_code.OFPGMFC_OUT_OF_BUCKETS),
  chaining_unsupported |-> Error(From12, ofp_error_type.OFPET_GROUP_MOD_FAILED,
      ofp_group_mod_failed_code.OFPGMFC_CHAINING_UNSUPPORTED),
  watch_unsupported |-> Error(From12, ofp_error_type.OFPET_GROUP_MOD_FAILED,
      ofp_group_mod_failed_code.OFPGMFC_WATCH_UNSUPPORTED)]
cofmsg_error_group_mod_failed_more == [
  loop |-> Error(From12, ofp_error_type.OFPET_GROUP_MOD_FAILED,
      ofp_group_mod_failed_code.OFPGMFC_LOOP),
  unknown_group |-> Error(From12, ofp_error_type.OFPET_GROUP_MOD_FAILED,
      ofp_group_mod_failed_code.OFPGMFC_UNKNOWN_GROUP),
  chained_group |-> Error(From12, ofp_error_type.OFPET_GROUP_MOD_FAILED,
      ofp_group_mod_failed_code.OFPGMFC_CHAINED_GROUP),
  bad_type |-> Error(From12, ofp_error_type.OFPET_GROUP_MOD_FAILED,
      ofp_group_mod_failed_code.OFPGMFC_BAD_TYPE),
  bad_command |-> Error(From12, ofp_error_type.OFPET_GROUP_MOD_FAILED,
      ofp_group_mod_failed_code.OFPGMFC_BAD_COMMAND),
  bad_bucket |-> Error(From12, ofp_error_type.OFPET_GROUP_MOD_FAILED,
      ofp_group_mod_failed_code.OFPGMFC_BAD_BUCKET),
  bad_watch |-> Error(From12, ofp_error_type.OFPET_GROUP_MOD_FAILED,
      ofp_group_mod_failed_code.OFPGMFC_BAD_WATCH),
  eperm |-> Error(From12, ofp_error_type.OFPET_GROUP_MOD_FAILED,
      ofp_group_mod_failed_code.OFPGMFC_EPERM)]
cofmsg_error_port_mod_failed == [
  bad_port |-> Error(From12, ofp_error_type.OFPET_PORT_MOD_FAILED,
      ofp_port_mod_failed_code.OFPPMFC_BAD_PORT),
  bad_hwaddr |-> Error(From12, ofp_error_type.OFPET_PORT_MOD_FAILED,
      ofp_port_mod_failed_code.OFPPMFC_BAD_HW_ADDR),
  bad_config |-> Error(From12, ofp_error_type.OFPET_PORT_MOD_FAILED,
      ofp_port_mod_failed_code.OFPPMFC_BAD_CONFIG),
  bad_advertise |-> Error(From12, ofp_error_type.OFPET_PORT_MOD_FAILED,
      ofp_port_mod_failed_code.OFPPMFC_BAD_ADVERTISE),
  eperm |-> Error(From12, ofp_error_type.OFPET_PORT_MOD_FAILED,
      ofp_port_mod_failed_code.OFPPMFC_EPERM)]
cofmsg_error_table_mod_failed == [
  bad_table |-> Error(From12, ofp_error_type.OFPET_TABLE_MOD_FAILED,
      ofp_table_mod_failed_code.OFPTMFC_BAD_TABLE),
  bad_config |-> Error(From12, ofp_error_type.OFPET_TABLE_MOD_FAILED,
      ofp_table_mod_failed_code.OFPTMFC_BAD_CONFIG),
  eperm |-> Error(From12, ofp_error_type.OFPET_TABLE_MOD_FAILED,
      ofp_table_mod_failed_code.OFPTMFC_EPERM)]
cofmsg_error_role_request_failed == [
  stale |-> Error(From12, ofp_error_type.OFPET_ROLE_REQUEST_FAILED,
      ofp_role_request_failed_code.OFPRRFC_STALE),
  unsupported |-> Error(From12, ofp_error_type.OFPET_ROLE_REQUEST_FAILED,
      ofp_role_request_failed_code.OFPRRFC_UNSUP),
  bad_role |-> Error(From12, ofp_error_type.OFPET_ROLE_REQUEST_FAILED,
      ofp_role_request_failed_code.OFPRRFC_BAD_ROLE)]
cofmsg_error_meter_mod == [
  unknown |-> Error(From13, ofp_error_type.OFPET_METER_MOD_FAILED,
      ofp_meter_mod_failed_code.OFPMMFC_UNKNOWN),
  meter_exists |-> Error(From13, ofp_error_type.OFPET_METER_MOD_FAILED,
      ofp_meter_mod_failed_code.OFPMMFC_METER_EXISTS),
  invalid_meter |-> Error(From13, ofp_error_type.OFPET_METER_MOD_FAILED,
      ofp_meter_mod_failed_code.OFPMMFC_INVALID_METER),
  unknown_meter |-> Error(From13, ofp_error_type.OFPET_METER_MOD_FAILED,
      ofp_meter_mod_failed_code.OFPMMFC_UNKNOWN_METER),
  bad_command |-> Error(From13, ofp_error_type.OFPET_METER_MOD_FAILED,
      ofp_meter_mod_failed_code.OFPMMFC_BAD_COMMAND),
  bad_flags |-> Error(From13, ofp_error_type.OFPET_METER_MOD_FAILED,
      ofp_meter_mod_failed_code.OFPMMFC_BAD_FLAGS),
  bad_rate |-> Error(From13, ofp_error_type.OFPET_METER_MOD_FAILED,
      ofp_meter_mod_failed_code.OFPMMFC_BAD_RATE),
  bad_burst |-> Error(From13, ofp_error_type.OFPET_METER_MOD_FAILED,
      ofp_meter_mod_failed_code.OFPMMFC_BAD_BURST)]
cofmsg_error_meter_mod_more == [
  bad_band |-> Error(From13, ofp_error_type.OFPET_METER_MOD_FAILED,
      ofp_meter_mod_failed_code.OFPMMFC_BAD_BAND),
  bad_band_value |-> Error(From13, ofp_error_type.OFPET_METER_MOD_FAILED,
      ofp_meter_mod_failed_code.OFPMMFC_BAD_BAND_VALUE),
  out_of_meters |-> Error(From13, ofp_error_type.OFPET_METER_MOD_FAILED,
      ofp_meter_mod_failed_code.OFPMMFC_OUT_OF_METERS),
  out_of_bands |-> Error(From13, ofp_error_type.OFPET_METER_MOD_FAILED,
      ofp_meter_mod_failed_code.OFPMMFC_OUT_OF_BANDS)]

(* crofctl::handle_recv: the exceptions it catches, with the error message it sends for each. The   *)
(* clauses for the base classes, exception and runtime_error only write to the log.                 *)
catch_bad_request == [eBadVersion |-> cofmsg_error_bad_request.bad_version,
  eBadRequestBadVersion |-> cofmsg_error_bad_request.bad_version,
  eBadRequestBadType |-> cofmsg_error_bad_request.bad_type,
  eBadRequestBadStat |-> cofmsg_error_bad_request.bad_stat,
  eBadRequestBadExperimenter |-> cofmsg_error_bad_request.bad_experimenter,
  eBadRequestBadExpType |-> cofmsg_error_bad_request.bad_exp_type,
  eBadRequestEperm |-> cofmsg_error_bad_request.eperm,
  eBadRequestBadLen |-> cofmsg_error_bad_request.bad_len]
catch_bad_request_more == [eBadRequestBufferEmpty |-> cofmsg_error_bad_request.buffer_empty,
  eBadRequestBufferUnknown |-> cofmsg_error_bad_request.buffer_unknown,
  eBadRequestBadTableId |-> cofmsg_error_bad_request.bad_table_id,
  eBadRequestIsSlave |-> cofmsg_error_bad_request.is_slave,
  eBadRequestBadPort |-> cofmsg_error_bad_request.bad_port,
  eBadRequestBadPacket |-> cofmsg_error_bad_request.bad_packet,
  eBadRequestMultipartBufferOverflow |-> cofmsg_error_bad_request.multipart_buffer_overflow]
catch_switch_config == [eSwitchConfigBadFlags |-> cofmsg_error_switch_config_failed.bad_flags,
  eSwitchConfigBadLen |-> cofmsg_error_switch_config_failed.bad_len,
  eSwitchConfigEPerm |-> cofmsg_error_switch_config_failed.eperm]
catch_flow_mod == [eFlowModUnknown |-> cofmsg_error_flow_mod_failed.unknown,
  eFlowModTableFull |-> cofmsg_error_flow_mod_failed.table_full,
  eFlowModBadTableId |-> cofmsg_error_flow_mod_failed.bad_table_id,
  eFlowModOverlap |-> cofmsg_error_flow_mod_failed.overlap,
  eFlowModEperm |-> cofmsg_error_flow_mod_failed_eperm,
  eFlowModBadTimeout |-> cofmsg_error_flow_mod_failed_more.bad_timeout,
  eFlowModBadCommand |-> cofmsg_error_flow_mod_failed_more.bad_command,
  eFlowModBadFlags |-> cofmsg_error_flow_mod_failed_more.bad_flags]
catch_group_mod == [eGroupModExists |-> cofmsg_error_group_mod_failed.group_exists,
  eGroupModInvalGroup |-> cofmsg_error_group_mod_failed.inval_group,
  eGroupModWeightUnsupported |-> cofmsg_error_group_mod_failed.weight_unsupported,
  eGroupModOutOfGroups |-> cofmsg_error_group_mod_failed.out_of_groups,
  eGroupModOutOfBuckets |-> cofmsg_error_group_mod_failed.out_of_buckets,
  eGroupModChainingUnsupported |-> cofmsg_error_group_mod_failed.chaining_unsupported,
  eGroupModWatchUnsupported |-> cofmsg_error_group_mod_failed.watch_unsupported,
  eGroupModLoop |-> cofmsg_error_group_mod_failed_more.loop]
catch_group_mod_more == [eGroupModUnknownGroup |-> cofmsg_error_group_mod_failed_more.unknown_group,
  eGroupModChainedGroup |-> cofmsg_error_group_mod_failed_more.chained_group,
  eGroupModBadType |-> cofmsg_error_group_mod_failed_more.bad_type,
  eGroupModBadCommand |-> cofmsg_error_group_mod_failed_more.bad_command,
  eGroupModBadBucket |-> cofmsg_error_group_mod_failed_more.bad_bucket,
  eGroupModBadWatch |-> cofmsg_error_group_mod_failed_more.bad_watch,
  eGroupModEperm |-> cofmsg_error_group_mod_failed_more.eperm]
catch_port_mod == [ePortModBadPort |-> cofmsg_error_port_mod_failed.bad_port,
  ePortModBadHwAddr |-> cofmsg_error_port_mod_failed.bad_hwaddr,
  ePortModBadConfig |-> cofmsg_error_port_mod_failed.bad_config,
  ePortModBadAdvertise |-> cofmsg_error_port_mod_failed.bad_advertise,
  ePortModEperm |-> cofmsg_error_port_mod_failed.eperm]
catch_table_mod == [eTableModBadTable |-> cofmsg_error_table_mod_failed.bad_table,
  eTableModBadConfig |-> cofmsg_error_table_mod_failed.bad_config,
  eTableModEperm |-> cofmsg_error_table_mod_failed.eperm]
catch_bad_action == [eBadActionBadType |-> cofmsg_error_bad_action.bad_type,
  eBadActionBadLen |-> cofmsg_error_bad_action.bad_len,
  eBadActionBadExperimenter |-> cofmsg_error_bad_action.bad_experimenter,
  eBadActionBadExperimenterType |-> cofmsg_error_bad_action.bad_experimenter_type,
  eBadActionBadOutPort |-> cofmsg_error_bad_action.bad_out_port,
  eBadActionBadArgument |-> cofmsg_error_bad_action.bad_argument,
  eBadActionEperm |-> cofmsg_error_bad_action.eperm,
  eBadActionTooMany |-> cofmsg_error_bad_action.too_many]
catch_bad_action_more == [eBadActionBadQueue |-> cofmsg_error_bad_action_more.bad_queue,
  eBadActionBadOutGroup |-> cofmsg_error_bad_action_more.bad_out_group,
  eBadActionMatchInconsistent |-> cofmsg_error_bad_action_more.match_inconsistent,
  eBadActionUnsupportedOrder |-> cofmsg_error_bad_action_more.unsupported_order,
  eBadActionBadTag |-> cofmsg_error_bad_action_more.bad_tag,
  eBadActionBadSetType |-> cofmsg_error_bad_action_more.bad_set_type,
  eBadActionBadSetLen |-> cofmsg_error_bad_action_more.bad_set_len,
  eBadActionBadSetArgument |-> cofmsg_error_bad_action_more.bad_set_argument]
catch_bad_inst == [eBadInstUnknownInst |-> cofmsg_error_bad_inst.unknown_inst,
  eBadInstUnsupInst |-> cofmsg_error_bad_inst.unsup_inst,
  eBadInstBadTableId |-> cofmsg_error_bad_inst.bad_table_id,
  eBadInstUnsupMetadata |-> cofmsg_error_bad_inst.unsup_metadata,
  eBadInstUnsupMetadataMask |-> cofmsg_error_bad_inst.unsup_metadata_mask,
  eBadInstBadExperimenter |-> cofmsg_error_bad_inst.bad_experimenter,
  eBadInstBadExpType |-> cofmsg_error_bad_inst.bad_exp_type,
  eBadInstBadLen |-> cofmsg_error_bad_inst.bad_len,
  eBadInstEperm |-> cofmsg_error_bad_inst.eperm]
catch_bad_match == [eBadMatchBadType |-> cofmsg_error_bad_match.bad_type,
  eBadMatchBadLen |-> cofmsg_error_bad_match.bad_len,
  eBadMatchBadTag |-> cofmsg_error_bad_match.bad_tag,
  eBadMatchBadDlAddrMask |-> cofmsg_error_bad_match.bad_dladdr_mask,
  eBadMatchBadNwAddrMask |-> cofmsg_error_bad_match.bad_nwaddr_mask,
  eBadMatchBadWildcards |-> cofmsg_error_bad_match.bad_wildcards,
  eBadMatchBadField |-> cofmsg_error_bad_match.bad_field,
  eBadMatchBadValue |-> cofmsg_error_bad_match.bad_value]
catch_bad_match_more == [eBadMatchBadMask |-> cofmsg_error_bad_match_more.bad_mask,
  eBadMatchBadPrereq |-> cofmsg_error_bad_match_more.bad_prereq,
  eBadMatchDupField |-> cofmsg_error_bad_match_more.dup_field,
  eBadMatchEperm |-> cofmsg_error_bad_match_more.eperm]
catch_role_request == [eRoleRequestStale |-> cofmsg_error_role_request_failed.stale,
  eRoleRequestUnsupported |-> cofmsg_error_role_request_failed.unsupported,
  eRoleRequestBadRole |-> cofmsg_error_role_request_failed.bad_role]
catch_meter_mod == [eMeterModUnknown |-> cofmsg_error_meter_mod.unknown,
  eMeterModMeterExists |-> cofmsg_error_meter_mod.meter_exists,
  eMeterModInvalidMeter |-> cofmsg_error_meter_mod.invalid_meter,
  eMeterModUnknownMeter |-> cofmsg_error_meter_mod.unknown_meter,
  eMeterModBadCommand |-> cofmsg_error_meter_mod.bad_command,
  eMeterModBadFlags |-> cofmsg_error_meter_mod.bad_flags,
  eMeterModBadRate |-> cofmsg_error_meter_mod.bad_rate,
  eMeterModBadBurst |-> cofmsg_error_meter_mod.bad_burst]
catch_meter_mod_more == [eMeterModBadBand |-> cofmsg_error_meter_mod_more.bad_band,
  eMeterModBadBandValue |-> cofmsg_error_meter_mod_more.bad_band_value,
  eMeterModOutOfMeters |-> cofmsg_error_meter_mod_more.out_of_meters,
  eMeterModOutOfBands |-> cofmsg_error_meter_mod_more.out_of_bands]
Caught == Together({catch_bad_request, catch_bad_request_more, catch_switch_config, catch_flow_mod,
  catch_group_mod, catch_group_mod_more, catch_port_mod, catch_table_mod, catch_bad_action,
  catch_bad_action_more, catch_bad_inst, catch_bad_match, catch_bad_match_more,
  catch_role_request, catch_meter_mod, catch_meter_mod_more})
=============================================================================
