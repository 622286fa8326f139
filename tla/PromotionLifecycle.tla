------------------------- MODULE PromotionLifecycle -------------------------
(***************************************************************************)
(* What the promotion service promises about each candidate, whatever the  *)
(* number of requests in flight and whatever fails: it moves along the     *)
(* states of types.go one transition and one version at a time, a          *)
(* rejection and a rollback are final, only a checked candidate is         *)
(* approved, only an approved one is published, and approval is the only   *)
(* step by which a personal candidate becomes a workspace one.             *)
(***************************************************************************)
EXTENDS Naturals

CONSTANT CandidateIds

VARIABLES
  phase,    \* the state of each candidate, "none" before it is created
  version,  \* how often it was written
  scope     \* who may see it

vars == <<phase, version, scope>>

Init ==
  /\ phase = [id \in CandidateIds |-> "none"]
  /\ version = [id \in CandidateIds |-> 0]
  /\ scope = [id \in CandidateIds |-> "personal"]

(* A candidate in one of the phases from is written once more. *)
Move(id, from, to, s) ==
  /\ phase[id] \in from
  /\ phase' = [phase EXCEPT ![id] = to]
  /\ version' = [version EXCEPT ![id] = @ + 1]
  /\ scope' = [scope EXCEPT ![id] = s]

Propose(id) == \E s \in {"personal", "workspace"} : Move(id, {"none"}, "candidate", s)

(* An inspection, the first one or a recheck; it withdraws an approval. *)
Inspect(id) ==
  \E to \in {"checked", "blocked"} :
    Move(id, {"candidate", "checked", "blocked", "approved"}, to, scope[id])

Approve(id)  == Move(id, {"checked"}, "approved", "workspace")
Reject(id)   == Move(id, {"checked", "blocked"}, "rejected", scope[id])
Publish(id)  == scope[id] = "workspace" /\ Move(id, {"approved"}, "published", "workspace")
RollBack(id) == Move(id, {"published"}, "rolled_back", scope[id])

Next ==
  \E id \in CandidateIds :
    Propose(id) \/ Inspect(id) \/ Approve(id) \/ Reject(id) \/ Publish(id) \/ RollBack(id)

Spec == Init /\ [][Next]_vars
=============================================================================
