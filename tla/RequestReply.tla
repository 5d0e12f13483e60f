---------------------------- MODULE RequestReply ----------------------------
(***************************************************************************)
(* What a batching inference service promises its callers, without queue,  *)
(* event and loop: a call is outstanding until it ends in one of three     *)
(* ways, and it ends once.  Answered, it has the result of its own input.  *)
(*                                                                         *)
(* A request identity stands for one call at a time; it is used again      *)
(* after the call has ended.                                               *)
(***************************************************************************)
CONSTANTS
  Requests,  \* request identities
  None       \* no answer

VARIABLES
  outcome,   \* how each call stands
  answer     \* answer[r]: the request whose result the caller of r was given

calls == <<outcome, answer>>

Pending == {r \in Requests : outcome[r] = "pending"}

CallsInit ==
  /\ outcome = [r \in Requests |-> "idle"]
  /\ answer = [r \in Requests |-> None]

Submit(r) ==
  /\ outcome[r] = "idle"
  /\ outcome' = [outcome EXCEPT ![r] = "pending"]
  /\ UNCHANGED answer

(* A batch ends: some outstanding calls are answered, others fail.         *)
Reply(answered, failed) ==
  /\ answered \cap failed = {}
  /\ outcome' = [r \in Requests |-> CASE r \in answered -> "answered"
                                      [] r \in failed -> "failed"
                                      [] OTHER -> outcome[r]]
  /\ answer' = [r \in Requests |-> IF r \in answered THEN r ELSE answer[r]]

Cancel(r) ==
  /\ outcome[r] = "pending"
  /\ outcome' = [outcome EXCEPT ![r] = "cancelled"]
  /\ UNCHANGED answer

Return(r) ==
  /\ outcome[r] \in {"answered", "failed", "cancelled"}
  /\ outcome' = [outcome EXCEPT ![r] = "idle"]
  /\ answer' = [answer EXCEPT ![r] = None]

CallsNext ==
  \/ \E r \in Requests : Submit(r) \/ Cancel(r) \/ Return(r)
  \/ \E answered, failed \in SUBSET Pending : Reply(answered, failed)

CallsSpec == CallsInit /\ [][CallsNext]_calls
=============================================================================
