------------------------------ MODULE MCReaders ------------------------------
EXTENDS Readers

(* Post 2 answers post 1. *)
MCReply == [p \in Posts |-> IF p = 1 THEN None ELSE [parent |-> p - 1, root |-> 1]]
(* Only the profile is ever changed to say something else. *)
MCSays == [p \in Paths |-> IF p = Profile THEN Texts ELSE {1}]
(* In some order that is not that of the revisions. *)
Digit(text) == IF text = None THEN 0 ELSE text
MCTreeCid == [said \in [Paths -> Said] |-> 100 + 9 * Digit(said[0]) + 3 * Digit(said[2]) + Digit(said[1])]
=============================================================================
