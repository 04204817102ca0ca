------------------------------ MODULE Requests ------------------------------
(***************************************************************************)
(* Requests for one account, in progress at the same time: each is at some *)
(* await of its handler.  OAuthStore and EmailTokens share them, the       *)
(* status of the account and its password.                                 *)
(***************************************************************************)
EXTENDS Naturals, Sequences, FiniteSets

CONSTANTS
  None,
  MaxRequests   \* bound: requests in a behaviour

ASSUME RequestsAssumption == MaxRequests \in Nat

VARIABLES
  status,    \* of the account: "up", "down" (taken down), or "none" (deleted)
  password,  \* the version of the account password
  req        \* request -> how far its handler has come, and what it has read

Requests == 1..MaxRequests
Idle == [op |-> None, at |-> "new"]

RequestsInit == status = "up" /\ password = 0 /\ req = [r \in Requests |-> Idle]

At(r, op, step) == req[r].op = op /\ req[r].at = step
Go(r, q) == req' = [req EXCEPT ![r] = q]
To(r, step) == Go(r, [req[r] EXCEPT !.at = step])
End(r) == Go(r, [op |-> req[r].op, at |-> "end"])

(* Requests begin in the order of their numbers. *)
Begin(r, q) ==
  /\ req[r] = Idle /\ \A s \in 1..(r - 1) : req[s] # Idle
  /\ Go(r, q)
=============================================================================
