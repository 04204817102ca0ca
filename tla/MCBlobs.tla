------------------------------ MODULE MCBlobs -------------------------------
(* Blobs on small instances: see the .cfg files for the values. *)
EXTENDS Blobs, TLC

Symmetric == Permutations(Cids) \cup Permutations(Uris) \cup Permutations(Keys)
=============================================================================
