---------------------------- MODULE MCRepoWrite -----------------------------
(* RepoWrite on small instances: see the .cfg files for the values. *)
EXTENDS RepoWrite, TLC

CONSTANTS a, b, post

\* Two likes of one post.
SubjectOf == [c \in {a, b} |-> post]

Symmetric == Permutations(Writers) \cup Permutations(Rkeys) \cup Permutations(Cids)
=============================================================================
