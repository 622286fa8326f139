--------------------------- MODULE PromotionTypes ---------------------------
(***************************************************************************)
(* The data of internal/promotion/types.go, reduced to what the promotion  *)
(* gate, the service and the two backends tell apart.                      *)
(*                                                                         *)
(*  - A text (a skill body, a knowledge statement) is an element of        *)
(*    Contents.  Texts are taken after normalizeText, and a revision is    *)
(*    the content it hashes (contentRevision), so that one value plays     *)
(*    both parts and the empty revision is Absent.                         *)
(*  - A draft that failed validateInput never becomes a candidate; Drafts  *)
(*    is the set of well-formed drafts a caller may submit.                *)
(***************************************************************************)
EXTENDS Naturals

CONSTANTS
  CandidateIds,    \* what newCandidateID can return
  Workspaces,      \* X-LeeClaw-Workspace-ID
  Users,           \* X-LeeClaw-User-ID
  SkillNames,      \* names under viking://agent/skills
  KnowledgeBases,  \* WeKnora knowledge bases of the workspaces
  KnowledgeIds,    \* identifiers WeKnora gives to manual knowledge
  Contents,        \* texts with at least one visible character
  Blank,           \* the text of a skill file that holds only white space
  Absent,          \* no content, no revision
  Principals,      \* the callers of the promotion API
  Drafts,          \* the drafts they submit
  ReviewInputs,    \* the bodies of their review requests
  None             \* a nil pointer; a file or a request that does not exist

-----------------------------------------------------------------------------
Kinds     == {"knowledge", "skill"}
Scopes    == {"personal", "workspace"}
States    == {"candidate", "checked", "blocked", "approved", "rejected",
              "published", "rolled_back"}
Decisions == {"CREATE", "UPDATE", "SKIP", "CONFLICT"}
Roles     == {"viewer", "editor", "admin", "owner"}

(* What a skill name may hold on the server. *)
SkillValues == Contents \cup {Blank, Absent}

Principal == [workspace: Workspaces, user: Users, role: Roles]

(* target is the skill name or the knowledge base; expected is             *)
(* SkillDraft.ExpectedRevision; sourced says that the draft names the      *)
(* sources its kind requires; evaluated that BehaviorDiff is not empty and *)
(* the recorded regression eval is "passed".                               *)
Draft == [kind: Kinds, target: SkillNames \cup KnowledgeBases,
          content: Contents, expected: Contents \cup {Absent},
          sourced: BOOLEAN, evaluated: BOOLEAN]

(* current stands for CurrentExists, CurrentContent and CurrentRevision;   *)
(* valid for BlockingReason = "" and ValidationStatus # "invalid".         *)
Inspection == [decision: Decisions, evidence: BOOLEAN, duplicate: BOOLEAN,
               conflict: BOOLEAN, valid: BOOLEAN, current: SkillValues]

(* reasoned: the reviewer's Reason is not empty. *)
Review == [decision: {"approved", "rejected"}, resolve: BOOLEAN, reasoned: BOOLEAN]

(* The body of a review request (ReviewInput). *)
ReviewInput == [decision: {"approved", "rejected"}, resolve: BOOLEAN,
                reasoned: BOOLEAN, promote: BOOLEAN]

(* RollbackSnapshot included: action "create" goes with the delete_created *)
(* snapshots, "update" with restore_previous_skill and previous.           *)
Publication == [resource: SkillNames \cup KnowledgeIds,
                action: {"create", "update"}, previous: SkillValues]

Candidate == [id: CandidateIds, version: Nat \ {0}, scope: Scopes, state: States,
              workspace: Workspaces, author: Users, draft: Drafts,
              inspection: Inspection \cup {None}, review: Review \cup {None},
              publication: Publication \cup {None}]

-----------------------------------------------------------------------------
(* Drafts, reviews and callers are of their types, a knowledge draft has no         *)
(* expected revision, and a skill (knowledge) draft targets a skill name   *)
(* (knowledge base).                                                       *)
ASSUME InputsAssumption ==
  /\ Principals \subseteq Principal
  /\ Drafts \subseteq Draft
  /\ ReviewInputs \subseteq ReviewInput
  /\ \A d \in Drafts :
       \/ d.kind = "skill" /\ d.target \in SkillNames
       \/ d.kind = "knowledge" /\ d.target \in KnowledgeBases /\ d.expected = Absent

(* The sentinels are different from the values they stand beside. *)
ASSUME SentinelAssumption ==
  /\ Absent \notin Contents \cup {Blank}
  /\ Blank \notin Contents
  /\ None \notin Candidate
  /\ None \notin Inspection
  /\ None \notin Review
  /\ None \notin Publication
=============================================================================
