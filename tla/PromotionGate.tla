---------------------------- MODULE PromotionGate ----------------------------
(***************************************************************************)
(* The decision functions of internal/promotion/service.go: who may see a  *)
(* candidate, what blocks it, what a reviewer may approve and what the     *)
(* inspection repeated before a publication must still show.               *)
(***************************************************************************)
EXTENDS PromotionTypes

Rank == [r \in Roles |-> CASE r = "viewer" -> 1 [] r = "editor" -> 2
                           [] r = "admin" -> 3 [] r = "owner" -> 4]

RoleAtLeast(p, minimum) == Rank[p.role] >= Rank[minimum]

IsAuthor(p, c) == p.user = c.author

CanRead(p, c) ==
  /\ p.workspace = c.workspace
  /\ c.scope = "workspace" \/ RoleAtLeast(p, "admin") \/ IsAuthor(p, c)

(* The condition under which inspectAndPersist leaves a candidate blocked. *)
BlockedBy(i) == i.duplicate \/ ~i.evidence \/ ~i.valid

-----------------------------------------------------------------------------
(* Faulty: a conflict is accepted on the resolve flag alone. *)
ReviewGateNoReason(c, in) ==
  /\ c.inspection # None
  /\ c.inspection.decision # "SKIP"
  /\ ~BlockedBy(c.inspection)
  /\ c.draft.sourced
  /\ c.draft.kind = "skill" => c.draft.evaluated

(* promotionGate.  The decision is always one of the four: the backends    *)
(* produce no other.                                                       *)
ReviewGate(c, in) ==
  /\ c.inspection # None
  /\ c.inspection.decision # "SKIP"
  /\ ~BlockedBy(c.inspection)
  /\ c.inspection.conflict => in.resolve /\ in.reasoned
  /\ c.draft.sourced
  /\ c.draft.kind = "skill" => c.draft.evaluated

-----------------------------------------------------------------------------
(* The revision a publication must find: the one the author pinned, else   *)
(* the one the stored inspection saw.  Absent means that there is none.    *)
ExpectedRevision(c) ==
  IF c.draft.expected # Absent THEN c.draft.expected ELSE c.inspection.current

(* The revision-race check at the end of validateFreshInspection. *)
RevisionUnchanged(c, latest) ==
  c.draft.kind = "skill" /\ c.inspection # None /\ ExpectedRevision(c) # Absent
    => latest.current = ExpectedRevision(c)

(* Faulty: a conflict that appeared after the review is not noticed. *)
FreshInspectionIgnoringConflict(c, latest) ==
  /\ latest.decision # "SKIP"
  /\ ~BlockedBy(latest)
  /\ RevisionUnchanged(c, latest)

(* Faulty: the skill may have changed since the review. *)
FreshInspectionIgnoringRevision(c, latest) ==
  /\ latest.decision # "SKIP"
  /\ ~BlockedBy(latest)
  /\ latest.conflict => c.review # None /\ c.review.resolve

(* validateFreshInspection *)
ValidateFreshInspection(c, latest) ==
  /\ latest.decision # "SKIP"
  /\ ~BlockedBy(latest)
  /\ latest.conflict => c.review # None /\ c.review.resolve
  /\ RevisionUnchanged(c, latest)
=============================================================================
