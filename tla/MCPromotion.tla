----------------------------- MODULE MCPromotion -----------------------------
(***************************************************************************)
(* Instances of PromotionService for TLC.                                  *)
(***************************************************************************)
EXTENDS PromotionProperties, TLC

CONSTANTS ws, alice, adam, s1, kb1, t1, t2

(* An author without administrative rights and a reviewer. *)
Alice == [workspace |-> ws, user |-> alice, role |-> "editor"]
Adam  == [workspace |-> ws, user |-> adam,  role |-> "admin"]

MCBoth     == {Alice, Adam}
MCReviewer == {p \in MCBoth : p.role = "admin"}

Body(decision, resolve, reasoned) ==
  [decision |-> decision, resolve |-> resolve, reasoned |-> reasoned, promote |-> TRUE]

(* Every approval a reviewer may send, and the rejection. *)
MCReviews ==
  {Body("approved", r, n) : r, n \in BOOLEAN}
  \cup {[Body("approved", TRUE, TRUE) EXCEPT !.promote = FALSE], Body("rejected", FALSE, TRUE)}

MCDecide  == {b \in MCReviews : b.promote /\ b.reasoned /\ (b.decision = "approved" => b.resolve)}
MCApprove == {b \in MCDecide : b.decision = "approved"}

(* A skill that is new or replaces whatever the review sees, and one whose *)
(* author pinned the revision it replaces.                                 *)
SkillDraft(content, expected) ==
  [kind |-> "skill", target |-> s1, content |-> content, expected |-> expected,
   sourced |-> TRUE, evaluated |-> TRUE]

FreeSkill   == SkillDraft(t1, Absent)
PinnedSkill == SkillDraft(t1, t2)
Unevaluated == [FreeSkill EXCEPT !.evaluated = FALSE]

Statement(content) ==
  [kind |-> "knowledge", target |-> kb1, content |-> content, expected |-> Absent,
   sourced |-> TRUE, evaluated |-> FALSE]

Unsourced == [Statement(t1) EXCEPT !.sourced = FALSE]

MCAnySkill        == {FreeSkill, PinnedSkill, Unevaluated}
MCSkillDrafts     == {FreeSkill, PinnedSkill}
MCOneSkill        == {d \in MCSkillDrafts : d.expected = Absent}
MCKnowledgeDrafts == {Statement(t1), Statement(t2), Unsourced}
MCBothDrafts      == {FreeSkill, Statement(t1)}

(* t1 and t2 score as a conflict. *)
MCSimilar == {<<t1, t2>>, <<t2, t1>>}

(* Nothing tells two requests, two new candidates or two new knowledge     *)
(* entries apart.                                                          *)
Symmetry ==
  Permutations(Workers) \cup Permutations(CandidateIds) \cup Permutations(KnowledgeIds)
=============================================================================
