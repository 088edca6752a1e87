---------------------------- MODULE MCJobStream ----------------------------
(* The durable stream on small instances; see the cfgs for the bounds. *)
EXTENDS JobStream
=============================================================================
