---------------------------- MODULE EventStream ----------------------------
(***************************************************************************)
(* What com.atproto.sync.subscribeRepos gives a consumer, free of the      *)
(* poller, the pages, the cutover and the buffers that provide it.         *)
(*                                                                         *)
(* Events carry the sequence numbers 1..issued.  Some are withdrawn later  *)
(* (account deletion removes the rows of the account).  A consumer has a   *)
(* position; within a stream it receives events in increasing order and    *)
(* only misses an event that was withdrawn.  Its position is moved other   *)
(* than by a delivery only when it opens a stream: at the live end when it *)
(* gives no cursor, at the start of the retention window when its cursor   *)
(* is too old (and it is told so).                                         *)
(*                                                                         *)
(* The first event of a stream may lie at or before the position.  That    *)
(* takes the position back to it, and the stream goes on from there: all   *)
(* that is still published from it up to the old position comes again, in  *)
(* order.  This is the only repetition: after its first event a stream     *)
(* gives nothing twice.                                                    *)
(***************************************************************************)
EXTENDS Integers

CONSTANT Clients

VARIABLES
  issued,    \* the number of events sequenced so far
  withdrawn, \* the sequence numbers whose event was deleted
  got,       \* got[c]: the position of consumer c
  open,      \* open[c]: consumer c has a stream
  fresh      \* fresh[c]: nothing was delivered on that stream yet

streamVars == <<issued, withdrawn, got, open, fresh>>

Init ==
  /\ issued = 0
  /\ withdrawn = {}
  /\ got = [c \in Clients |-> 0]
  /\ open = [c \in Clients |-> FALSE]
  /\ fresh = [c \in Clients |-> FALSE]

Publish ==
  /\ issued' = issued + 1
  /\ UNCHANGED <<withdrawn, got, open, fresh>>

Withdraw ==
  /\ \E W \in SUBSET (1..issued) : withdrawn' = withdrawn \cup W
  /\ UNCHANGED <<issued, got, open, fresh>>

\* Nothing that is still published lies between the position p and event e.
NoGap(p, e) == \A q \in 1..issued : p < q /\ q < e => q \in withdrawn

\* The next event; or, as the first of a stream, one that takes the position back.
Deliver(c) ==
  /\ open[c]
  /\ \E e \in 1..issued :
       /\ e > got[c] \/ fresh[c]
       /\ NoGap(got[c], e)
       /\ got' = [got EXCEPT ![c] = e]
  /\ fresh' = [fresh EXCEPT ![c] = FALSE]
  /\ UNCHANGED <<issued, withdrawn, open>>

\* Only here may the position move without a delivery.
Open(c) ==
  /\ ~open[c]
  /\ open' = [open EXCEPT ![c] = TRUE]
  /\ fresh' = [fresh EXCEPT ![c] = TRUE]
  /\ \E p \in 0..issued : got' = [got EXCEPT ![c] = p]
  /\ UNCHANGED <<issued, withdrawn>>

\* One stream is closed, or all of them when the server stops.
Close ==
  /\ \E C \in SUBSET Clients :
       /\ open' = [c \in Clients |-> open[c] /\ c \notin C]
       /\ fresh' = [c \in Clients |-> fresh[c] /\ c \notin C]
  /\ UNCHANGED <<issued, withdrawn, got>>

Next ==
  \/ Publish
  \/ Withdraw
  \/ \E c \in Clients : Deliver(c) \/ Open(c)
  \/ Close

Spec == Init /\ [][Next]_streamVars
=============================================================================
