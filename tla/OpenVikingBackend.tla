------------------------- MODULE OpenVikingBackend --------------------------
(***************************************************************************)
(* internal/promotion/openviking_backend.go and the part of the OpenViking *)
(* server it talks to: the shared skills under viking://agent/skills.      *)
(***************************************************************************)
EXTENDS PromotionTypes

VARIABLE skills  \* skill name -> its content, Absent when there is no such skill

SkillsType == skills \in [SkillNames -> SkillValues]

(* The server may hold skills that were there before the first promotion. *)
SkillsInit == skills \in [SkillNames -> SkillValues]

-----------------------------------------------------------------------------
(* verifyTraceability: the sources, if the draft names any, are readable   *)
(* by the caller or they are not.                                          *)
Traces(d) == IF d.sourced THEN BOOLEAN ELSE {FALSE}

(* An inspection that stopped before the skill was read: the principal is  *)
(* incomplete, the strict validation failed or the read did.               *)
SkillUnread(traced) ==
  [decision |-> "CREATE", evidence |-> traced, duplicate |-> FALSE,
   conflict |-> FALSE, valid |-> FALSE, current |-> Absent]

(* The draft pins a revision and the server has another one, or none. *)
BaseMoved(d, current) == d.expected # Absent /\ d.expected # current

(* An inspection that found current under the draft's name. *)
SkillRead(d, traced, current) ==
  [decision  |-> IF BaseMoved(d, current) THEN "CONFLICT"
                 ELSE IF current = d.content THEN "SKIP"
                 ELSE IF current = Absent THEN "CREATE" ELSE "UPDATE",
   evidence  |-> traced,
   duplicate |-> current = d.content,
   conflict  |-> BaseMoved(d, current),
   valid     |-> traced,
   current   |-> current]

(* Inspect: every result the server's answers can lead to. *)
SkillInspections(d) ==
  UNION {{SkillUnread(t), SkillRead(d, t, skills[d.target])} : t \in Traces(d)}

-----------------------------------------------------------------------------
(* Faulty: the snapshot of an update says that the skill was created. *)
SkillPublicationAlwaysCreated(c) ==
  [resource |-> c.draft.target, action |-> "create", previous |-> Absent]

(* What Publish returns: PUT when the inspection saw the skill, POST when  *)
(* it did not; the snapshot keeps what the inspection saw.                 *)
SkillPublication(c) ==
  [resource |-> c.draft.target,
   action   |-> IF c.inspection.current = Absent THEN "create" ELSE "update",
   previous |-> c.inspection.current]

(* The server carries the PUT or POST out.  Nothing in the request names   *)
(* the revision to be replaced.                                            *)
SkillPublish(c) == skills' = [skills EXCEPT ![c.draft.target] = c.draft.content]

(* The server may refuse to PUT a skill it does not have and to POST one   *)
(* it has.                                                                 *)
SkillPublishRefusable(c) ==
  (c.inspection.current = Absent) # (skills[c.draft.target] = Absent)

(* Rollback: DELETE what was created, PUT back what was replaced.          *)
SkillRollback(c) ==
  LET s == c.publication.resource IN
  /\ \/ c.publication.action = "create" /\ skills[s] # Absent
     \/ c.publication.action = "update" /\ c.publication.previous # Blank
  /\ skills' = [skills EXCEPT ![s] = c.publication.previous]

(* Rollback refuses to restore a blank text, and the server may refuse to  *)
(* delete or replace a skill it does not have.                             *)
SkillRollbackRefusable(c) ==
  \/ c.publication.action = "update" /\ c.publication.previous = Blank
  \/ skills[c.publication.resource] = Absent

(* Other OpenViking clients write and delete shared skills. *)
SkillEdit(s, value) ==
  /\ value # skills[s]
  /\ skills' = [skills EXCEPT ![s] = value]
=============================================================================
