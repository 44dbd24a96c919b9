------------------------------ MODULE MCRofRole ------------------------------
(* RofRole on small instances. *)
EXTENDS RofRole
=============================================================================
