----------------------------- MODULE MCFirehose -----------------------------
(* Firehose on small instances: see the .cfg files for the values. *)
EXTENDS Firehose
=============================================================================
