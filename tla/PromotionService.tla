-------------------------- MODULE PromotionService --------------------------
(***************************************************************************)
(* Service of internal/promotion/service.go with its store and its two     *)
(* backends.  Every HTTP request runs in a goroutine of its own, so the    *)
(* steps of several requests interleave: a request reads the candidate     *)
(* (one store call), keeps its own copy across the calls to the backend,   *)
(* and writes the copy back with one conditional store call.               *)
(*                                                                         *)
(* A request that the code refuses before it has any effect changes        *)
(* nothing; there is no step for it.                                       *)
(***************************************************************************)
EXTENDS PromotionGate, PromotionStore, OpenVikingBackend, WeKnoraBackend

CONSTANTS
  Workers,     \* the requests that may be in flight at the same time
  MaxVersion,  \* bound: no request starts on a candidate written so often
  Faults,      \* the process, its disk and its HTTP calls may fail
  Edits        \* other clients write to OpenViking and WeKnora

ASSUME SwitchesAssumption == Faults \in BOOLEAN /\ Edits \in BOOLEAN

VARIABLE job  \* worker -> the request it runs: where it is and its copy c

vars == <<store, skills, knowledge, job>>

(* What a request does next: an inspection that will be stored, the        *)
(* inspection before a publication, a backend call, the store update.  A   *)
(* lost call is one nobody waits for any more and the server may still     *)
(* carry out.                                                              *)
Pcs == {"inspect", "preinspect", "publish", "rollback", "update",
        "lost publish", "lost rollback"}

Job == [pc: Pcs, c: Candidate]

ASSUME JobSentinelAssumption == None \notin Job

TypeOK ==
  /\ StoreType
  /\ SkillsType
  /\ KnowledgeType
  /\ job \in [Workers -> Job \cup {None}]

Init ==
  /\ StoreInit
  /\ SkillsInit
  /\ KnowledgeInit
  /\ job = [w \in Workers |-> None]

-----------------------------------------------------------------------------
At(w, pc) == job[w] # None /\ job[w].pc = pc

Continue(w, pc, c) == job' = [job EXCEPT ![w] = [pc |-> pc, c |-> c]]

Finish(w) == job' = [job EXCEPT ![w] = None]

RemoteUnchanged == UNCHANGED <<skills, knowledge>>

(* A new request of caller p finds candidate id (Service.Get). *)
Opens(w, p, id) ==
  /\ job[w] = None
  /\ store[id] # None
  /\ CanRead(p, store[id])
  /\ store[id].version < MaxVersion

-----------------------------------------------------------------------------
(* Faulty: the version is left at its zero value. *)
NewCandidateUnversioned(p, id, d, scope) ==
  [id |-> id, version |-> 0, scope |-> scope, state |-> "candidate",
   workspace |-> p.workspace, author |-> p.user, draft |-> d,
   inspection |-> None, review |-> None, publication |-> None]

NewCandidate(p, id, d, scope) ==
  [id |-> id, version |-> 1, scope |-> scope, state |-> "candidate",
   workspace |-> p.workspace, author |-> p.user, draft |-> d,
   inspection |-> None, review |-> None, publication |-> None]

Create(w, p, id, d, scope) ==
  /\ job[w] = None
  /\ scope = "workspace" => RoleAtLeast(p, "editor")
  /\ LET c == NewCandidate(p, id, d, scope) IN
     /\ StoreCreate(c)
     /\ Continue(w, "inspect", c)
  /\ RemoteUnchanged

(* The states Recheck does not refuse. *)
Recheckable(c) == c.state \notin {"published", "rolled_back", "rejected"}

Recheck(w, p, id) ==
  /\ Opens(w, p, id)
  /\ Recheckable(store[id])
  /\ IsAuthor(p, store[id]) \/ RoleAtLeast(p, "admin")
  /\ Continue(w, "inspect", store[id])
  /\ UNCHANGED store /\ RemoteUnchanged

(* The candidate as a reviewer's decision leaves it. *)
Reviewed(c, in) ==
  [c EXCEPT !.review = [decision |-> in.decision,
                        resolve  |-> in.decision = "approved" /\ in.resolve,
                        reasoned |-> in.reasoned],
            !.state = in.decision,
            !.scope = IF in.decision = "approved" THEN "workspace" ELSE @]

BeginReview(w, p, id, in) ==
  /\ RoleAtLeast(p, "admin")
  /\ Opens(w, p, id)
  /\ store[id].state \in {"checked", "blocked"}
  /\ in.decision = "approved" =>
       /\ ReviewGate(store[id], in)
       /\ store[id].scope = "personal" => in.promote
  /\ Continue(w, "update", Reviewed(store[id], in))
  /\ UNCHANGED store /\ RemoteUnchanged

BeginPublish(w, p, id) ==
  /\ RoleAtLeast(p, "admin")
  /\ Opens(w, p, id)
  /\ store[id].state = "approved" /\ store[id].scope = "workspace"
  /\ store[id].review # None /\ store[id].review.decision = "approved"
  /\ Continue(w, "preinspect", store[id])
  /\ UNCHANGED store /\ RemoteUnchanged

BeginRollback(w, p, id) ==
  /\ RoleAtLeast(p, "admin")
  /\ Opens(w, p, id)
  /\ store[id].state = "published" /\ store[id].publication # None
  /\ Continue(w, "rollback", store[id])
  /\ UNCHANGED store /\ RemoteUnchanged

-----------------------------------------------------------------------------
Inspections(d) ==
  IF d.kind = "skill" THEN SkillInspections(d) ELSE KnowledgeInspections(d)

(* inspectAndPersist up to the update: create and recheck. *)
Inspected(c, i) ==
  [c EXCEPT !.inspection = i, !.state = IF BlockedBy(i) THEN "blocked" ELSE "checked"]

Inspect(w) ==
  /\ At(w, "inspect")
  /\ \E i \in Inspections(job[w].c.draft) : Continue(w, "update", Inspected(job[w].c, i))
  /\ UNCHANGED store /\ RemoteUnchanged

(* The inspection that Publish repeats. *)
PreInspect(w) ==
  /\ At(w, "preinspect")
  /\ \E latest \in Inspections(job[w].c.draft) :
       \/ /\ ValidateFreshInspection(job[w].c, latest)
          /\ Continue(w, "publish", [job[w].c EXCEPT !.inspection = latest])
       \/ ~ValidateFreshInspection(job[w].c, latest) /\ Finish(w)
  /\ UNCHANGED store /\ RemoteUnchanged

Published(c, pub) == [c EXCEPT !.publication = pub, !.state = "published"]

PublishSkill(w) ==
  /\ At(w, "publish") /\ job[w].c.draft.kind = "skill"
  /\ SkillPublish(job[w].c)
  /\ Continue(w, "update", Published(job[w].c, SkillPublication(job[w].c)))
  /\ UNCHANGED <<store, knowledge>>

PublishKnowledge(w) ==
  /\ At(w, "publish") /\ job[w].c.draft.kind = "knowledge"
  /\ \E k \in KnowledgeIds :
       /\ KnowledgePublish(job[w].c, k)
       /\ Continue(w, "update", Published(job[w].c, KnowledgePublication(k)))
  /\ UNCHANGED <<store, skills>>

(* Faulty: the rollback is recorded but the state is not. *)
RolledBackStillPublished(c) == c

RolledBack(c) == [c EXCEPT !.state = "rolled_back"]

RollbackSkill(w) ==
  /\ At(w, "rollback") /\ job[w].c.draft.kind = "skill"
  /\ SkillRollback(job[w].c)
  /\ Continue(w, "update", RolledBack(job[w].c))
  /\ UNCHANGED <<store, knowledge>>

RollbackKnowledge(w) ==
  /\ At(w, "rollback") /\ job[w].c.draft.kind = "knowledge"
  /\ KnowledgeRollback(job[w].c)
  /\ Continue(w, "update", RolledBack(job[w].c))
  /\ UNCHANGED <<store, skills>>

(* The backend refuses the call; nothing is written. *)
Refused(w) ==
  /\ \/ /\ At(w, "publish") /\ job[w].c.draft.kind = "skill"
        /\ SkillPublishRefusable(job[w].c)
     \/ /\ At(w, "rollback") /\ job[w].c.draft.kind = "skill"
        /\ SkillRollbackRefusable(job[w].c)
     \/ /\ At(w, "rollback") /\ job[w].c.draft.kind = "knowledge"
        /\ KnowledgeRollbackRefusable(job[w].c)
  /\ Finish(w)
  /\ UNCHANGED store /\ RemoteUnchanged

(* Service.update: the copy is stored, or another request was faster. *)
Update(w) ==
  /\ At(w, "update")
  /\ \/ StoreUpdate(job[w].c)
     \/ VersionConflict(job[w].c) /\ UNCHANGED store
  /\ Finish(w)
  /\ RemoteUnchanged

-----------------------------------------------------------------------------
LostPc(pc) ==
  CASE pc = "publish"  -> "lost publish"
    [] pc = "rollback" -> "lost rollback"
    [] OTHER           -> pc

(* The caller of a publish or rollback call gives up waiting (timeout of   *)
(* the HTTP client, cancelled request context, dead connection).           *)
LoseCall(w) ==
  /\ Faults
  /\ At(w, "publish") \/ At(w, "rollback")
  /\ Continue(w, LostPc(job[w].pc), job[w].c)
  /\ UNCHANGED store /\ RemoteUnchanged

(* The server carries out a call that nobody waits for. *)
LostCallLands(w) ==
  /\ \/ /\ At(w, "lost publish") /\ job[w].c.draft.kind = "skill"
        /\ SkillPublish(job[w].c) /\ UNCHANGED knowledge
     \/ /\ At(w, "lost publish") /\ job[w].c.draft.kind = "knowledge"
        /\ \E k \in KnowledgeIds : KnowledgePublish(job[w].c, k)
        /\ UNCHANGED skills
     \/ /\ At(w, "lost rollback") /\ job[w].c.draft.kind = "skill"
        /\ SkillRollback(job[w].c) /\ UNCHANGED knowledge
     \/ /\ At(w, "lost rollback") /\ job[w].c.draft.kind = "knowledge"
        /\ KnowledgeRollback(job[w].c) /\ UNCHANGED skills
  /\ Finish(w)
  /\ UNCHANGED store

LostCallVanishes(w) ==
  /\ At(w, "lost publish") \/ At(w, "lost rollback")
  /\ Finish(w)
  /\ UNCHANGED store /\ RemoteUnchanged

(* The candidate file cannot be written; the rename did not happen. *)
WriteFails(w) ==
  /\ Faults
  /\ At(w, "update")
  /\ Finish(w)
  /\ UNCHANGED store /\ RemoteUnchanged

(* The process dies and starts again: every request is gone except the     *)
(* calls that already left for a server.                                   *)
Crash ==
  /\ Faults
  /\ \E w \in Workers : job[w] # None
  /\ job' = [w \in Workers |->
               IF job[w] # None /\ job[w].pc \notin {"inspect", "preinspect", "update"}
               THEN [job[w] EXCEPT !.pc = LostPc(@)] ELSE None]
  /\ UNCHANGED store /\ RemoteUnchanged

Edit ==
  /\ Edits
  /\ \/ \E s \in SkillNames, v \in SkillValues : SkillEdit(s, v) /\ UNCHANGED knowledge
     \/ \E k \in KnowledgeIds : KnowledgeEdit(k) /\ UNCHANGED skills
  /\ UNCHANGED <<store, job>>

-----------------------------------------------------------------------------
(* A caller sends a request. *)
Begin(w) ==
  \E p \in Principals, id \in CandidateIds :
    \/ \E d \in Drafts, scope \in Scopes : Create(w, p, id, d, scope)
    \/ Recheck(w, p, id)
    \/ \E in \in ReviewInputs : BeginReview(w, p, id, in)
    \/ BeginPublish(w, p, id)
    \/ BeginRollback(w, p, id)

(* The request makes its next step. *)
Proceed(w) ==
  \/ Inspect(w)
  \/ PreInspect(w)
  \/ PublishSkill(w)
  \/ PublishKnowledge(w)
  \/ RollbackSkill(w)
  \/ RollbackKnowledge(w)
  \/ Refused(w)
  \/ Update(w)
  \/ LostCallLands(w)
  \/ LostCallVanishes(w)

(* Its next step fails. *)
Fail(w) == LoseCall(w) \/ WriteFails(w)

Next ==
  \/ \E w \in Workers : Begin(w) \/ Proceed(w) \/ Fail(w)
  \/ Crash
  \/ Edit

Spec == Init /\ [][Next]_vars

(* Goroutines are scheduled, a server answers, or the client's timeout     *)
(* gives the call up (LoseCall): a request that can go on does.  Nothing   *)
(* has to fail.                                                            *)
FairSpec == Spec /\ \A w \in Workers : WF_vars(Proceed(w))
=============================================================================
