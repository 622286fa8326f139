-------------------------- MODULE PromotionProofs ---------------------------
(***************************************************************************)
(* Theorems about the promotion service, for any number of requests,       *)
(* candidates, callers and assets, any bound on the versions, with or      *)
(* without failures and other clients.                                     *)
(***************************************************************************)
EXTENDS PromotionProperties, TLAPS

(* An inspection, whatever the servers answer, is a well-formed record.    *)
LEMMA InspectionsWellFormed ==
  ASSUME SkillsType, KnowledgeType, NEW d \in Drafts, NEW i \in Inspections(d)
  PROVE  i \in Inspection
<1>1. CASE d.kind = "skill"
  <2>1. d.target \in SkillNames /\ d \in Draft
    BY <1>1, InputsAssumption DEF Draft
  <2>2. skills[d.target] \in SkillValues
    BY <2>1 DEF SkillsType
  <2>3. \A t \in BOOLEAN : SkillUnread(t) \in Inspection
    BY DEF SkillUnread, Inspection, Decisions, SkillValues
  <2>4. \A t \in BOOLEAN : SkillRead(d, t, skills[d.target]) \in Inspection
    BY <2>1, <2>2 DEF SkillRead, BaseMoved, Inspection, Decisions, Draft
  <2>5. Traces(d) \subseteq BOOLEAN
    BY DEF Traces
  <2>6. QED
    BY <1>1, <2>3, <2>4, <2>5 DEF Inspections, SkillInspections
<1>2. CASE d.kind # "skill"
  <2>1. Verdicts(d) \subseteq Decisions
    BY DEF Verdicts, Decisions
  <2>2. \A e, v \in BOOLEAN, r \in Decisions : KnowledgeInspection(e, v, r) \in Inspection
    BY DEF KnowledgeInspection, Inspection, SkillValues
  <2>3. QED
    BY <1>2, <2>1, <2>2 DEF Inspections, KnowledgeInspections, Decisions
<1>3. QED
  BY <1>1, <1>2

(* The records a request builds from a well-formed candidate are           *)
(* well-formed candidates with the same identifier and version.            *)
LEMMA CopiesWellFormed ==
  ASSUME NEW c \in Candidate
  PROVE  /\ \A i \in Inspection :
              /\ Inspected(c, i) \in Candidate
              /\ Inspected(c, i).id = c.id /\ Inspected(c, i).version = c.version
              /\ [c EXCEPT !.inspection = i] \in Candidate
         /\ \A in \in ReviewInput :
              /\ Reviewed(c, in) \in Candidate
              /\ Reviewed(c, in).id = c.id /\ Reviewed(c, in).version = c.version
              /\ Reviewed(c, in).review \in Review
         /\ \A pub \in Publication :
              /\ Published(c, pub) \in Candidate
              /\ Published(c, pub).id = c.id /\ Published(c, pub).version = c.version
         /\ RolledBack(c) \in Candidate
         /\ RolledBack(c).id = c.id /\ RolledBack(c).version = c.version
         /\ [c EXCEPT !.version = @ + 1] \in Candidate
<1>1. \A i \in Inspection :
        /\ Inspected(c, i) \in Candidate
        /\ Inspected(c, i).id = c.id /\ Inspected(c, i).version = c.version
        /\ [c EXCEPT !.inspection = i] \in Candidate
  BY DEF Inspected, Candidate, States
<1>2. \A in \in ReviewInput :
        /\ Reviewed(c, in) \in Candidate
        /\ Reviewed(c, in).id = c.id /\ Reviewed(c, in).version = c.version
        /\ Reviewed(c, in).review \in Review
  <2>1. TAKE in \in ReviewInput
  <2> DEFINE resolve == in.decision = "approved" /\ in.resolve
             review  == [decision |-> in.decision, resolve |-> resolve,
                         reasoned |-> in.reasoned]
  <2>2. resolve \in BOOLEAN
    BY Zenon
  <2>3. review \in Review
    <3>1. in.decision \in {"approved", "rejected"} /\ in.reasoned \in BOOLEAN
      BY DEF ReviewInput
    <3> HIDE DEF resolve
    <3>2. QED
      BY <2>2, <3>1 DEF Review
  <2> HIDE DEF review
  <2>4. /\ Reviewed(c, in) = [c EXCEPT !.review = review, !.state = in.decision,
                                !.scope = IF in.decision = "approved" THEN "workspace" ELSE @]
        /\ in.decision \in States
    BY DEF Reviewed, review, ReviewInput, States
  <2>5. QED
    BY <2>3, <2>4 DEF Candidate, Scopes
<1>3. \A pub \in Publication :
        /\ Published(c, pub) \in Candidate
        /\ Published(c, pub).id = c.id /\ Published(c, pub).version = c.version
  BY DEF Published, Candidate, States
<1>4. /\ RolledBack(c) \in Candidate
      /\ RolledBack(c).id = c.id /\ RolledBack(c).version = c.version
  BY DEF RolledBack, Candidate, States
<1>5. [c EXCEPT !.version = @ + 1] \in Candidate
  BY DEF Candidate
<1>6. QED
  BY <1>1, <1>2, <1>3, <1>4, <1>5

-----------------------------------------------------------------------------
(* What a request makes of a consistent candidate is a consistent          *)
(* candidate with the same identifier and version.                         *)
LEMMA SuccessorSound ==
  ASSUME NEW s \in Candidate, NEW c \in Candidate, CandidateSound(s), Successor(s, c)
  PROVE  c.id = s.id /\ c.version = s.version /\ CandidateSound(c)
<1>1. CASE Recheckable(s) /\ c.inspection # None /\ c = Inspected(s, c.inspection)
  BY <1>1 DEF Inspected, CandidateSound, Candidate
<1>2. CASE /\ s.state \in {"checked", "blocked"}
           /\ \E in \in ReviewInput :
                (in.decision = "approved" => ReviewGate(s, in)) /\ c = Reviewed(s, in)
  <2>1. PICK in \in ReviewInput :
          (in.decision = "approved" => ReviewGate(s, in)) /\ c = Reviewed(s, in)
    BY <1>2
  <2>2. /\ c.id = s.id /\ c.version = s.version /\ c.state = in.decision
        /\ c.inspection = s.inspection /\ c.draft = s.draft
    BY <2>1 DEF Reviewed, Candidate
  <2>3. s.inspection # None
    BY <1>2 DEF CandidateSound
  <2>4. CASE in.decision = "approved"
    <3>1. ReviewGate(s, in)
      BY <2>1, <2>4
    <3>2. c.scope = "workspace" /\ c.review.decision = "approved" /\ c.review.reasoned = in.reasoned
      BY <2>1, <2>4 DEF Reviewed, Candidate
    <3>3. c.review # None
      BY <2>1, CopiesWellFormed, SentinelAssumption
    <3>4. c.inspection.conflict => c.review.resolve
      BY <2>1, <2>2, <2>4, <3>1 DEF ReviewGate, Reviewed, Candidate, ReviewInput
    <3>5. c.inspection.conflict => c.review.reasoned
      BY <2>2, <3>1, <3>2 DEF ReviewGate
    <3>6. PassedGate(c)
      BY <2>2, <3>1, <3>2, <3>3, <3>4 DEF ReviewGate, PassedGate
    <3>7. QED
      BY <2>2, <2>3, <2>4, <3>5, <3>6 DEF CandidateSound
  <2>5. CASE in.decision = "rejected"
    BY <2>2, <2>3, <2>5 DEF CandidateSound
  <2>6. QED
    BY <2>4, <2>5 DEF ReviewInput
<1>3. CASE /\ s.state = "approved" /\ c.inspection # None /\ c.publication # None
           /\ ValidateFreshInspection(s, c.inspection)
           /\ c = Published([s EXCEPT !.inspection = c.inspection], c.publication)
  <2>1. /\ c.id = s.id /\ c.version = s.version /\ c.state = "published"
        /\ c.scope = s.scope /\ c.review = s.review /\ c.draft = s.draft
    BY <1>3 DEF Published, Candidate
  <2>2. PassedGate(s)
    BY <1>3 DEF CandidateSound
  <2>3. PassedGate(c)
    BY <1>3, <2>1, <2>2 DEF PassedGate, ValidateFreshInspection
  <2>4. QED
    BY <1>3, <2>1, <2>3 DEF CandidateSound
<1>4. CASE s.state = "published" /\ c = RolledBack(s)
  BY <1>4 DEF RolledBack, CandidateSound, PassedGate, Candidate
<1>5. QED
  BY <1>1, <1>2, <1>3, <1>4 DEF Successor

(* The number of writes says nothing about the rest of a candidate. *)
LEMMA VersionIsIndependent ==
  ASSUME NEW c \in Candidate, CandidateSound(c)
  PROVE  /\ [c EXCEPT !.version = @ + 1].id = c.id
         /\ [c EXCEPT !.version = @ + 1].version = c.version + 1
         /\ CandidateSound([c EXCEPT !.version = @ + 1])
BY DEF CandidateSound, PassedGate, Candidate

-----------------------------------------------------------------------------
(* A request in flight carries a well-formed candidate.                    *)
LEMMA JobsTyped ==
  ASSUME TypeOK, NEW w \in Workers, job[w] # None
  PROVE  job[w] \in Job /\ job[w].c \in Candidate /\ job[w].c.draft \in Drafts
BY DEF TypeOK, Job, Candidate

(* A stored candidate is well-formed. *)
LEMMA StoredTyped ==
  ASSUME TypeOK, NEW id \in CandidateIds, store[id] # None
  PROVE  store[id] \in Candidate /\ store[id].draft \in Drafts /\ store[id].version \in Nat
BY DEF TypeOK, StoreType, Candidate

(* A step by which a request goes on, or ends, and that leaves the store   *)
(* alone preserves the invariant if what the request goes on with is sound. *)
LEMMA ContinueSound ==
  ASSUME InductiveInvariant, UNCHANGED store, SkillsType', KnowledgeType',
         NEW w \in Workers, NEW pc \in Pcs, NEW c \in Candidate,
         JobSound([pc |-> pc, c |-> c]), Continue(w, pc, c)
  PROVE  InductiveInvariant'
<1>1. [pc |-> pc, c |-> c] \in Job
  BY DEF Job
<1>2. job' \in [Workers -> Job \cup {None}]
  BY <1>1 DEF Continue, InductiveInvariant, TypeOK
<1>3. StoreType' /\ StoreSound'
  BY DEF InductiveInvariant, TypeOK, StoreType, StoreSound, Exists
<1>4. ASSUME NEW v \in Workers, job'[v] # None
      PROVE  JobSound(job[v])'
  <2>1. job'[v] = IF v = w THEN [pc |-> pc, c |-> c] ELSE job[v]
    BY DEF Continue, InductiveInvariant, TypeOK
  <2>2. JobSound(job'[v])
    BY <1>4, <2>1 DEF InductiveInvariant, JobsSound
  <2>3. QED
    BY <2>2 DEF JobSound
<1>5. QED
  BY <1>2, <1>3, <1>4 DEF InductiveInvariant, TypeOK, JobsSound

LEMMA FinishSound ==
  ASSUME InductiveInvariant, UNCHANGED store, SkillsType', KnowledgeType',
         NEW w \in Workers, Finish(w)
  PROVE  InductiveInvariant'
<1>1. job' \in [Workers -> Job \cup {None}]
  BY DEF Finish, InductiveInvariant, TypeOK
<1>2. StoreType' /\ StoreSound'
  BY DEF InductiveInvariant, TypeOK, StoreType, StoreSound, Exists
<1>3. ASSUME NEW v \in Workers, job'[v] # None
      PROVE  JobSound(job[v])'
  <2>1. JobSound(job'[v])
    BY <1>3 DEF Finish, InductiveInvariant, TypeOK, JobsSound
  <2>2. QED
    BY <2>1 DEF JobSound
<1>4. QED
  BY <1>1, <1>2, <1>3 DEF InductiveInvariant, TypeOK, JobsSound

(* Refused, lost and failed calls leave the servers as they are. *)
LEMMA RemoteSound ==
  ASSUME TypeOK, RemoteUnchanged
  PROVE  SkillsType' /\ KnowledgeType'
BY DEF TypeOK, RemoteUnchanged, SkillsType, KnowledgeType

-----------------------------------------------------------------------------
(* A version is not newer than itself. *)
LEMMA NotNewerThanItself == \A n \in Nat : n <= n
OBVIOUS

(* The copy a new request made of the stored candidate id. *)
LEMMA FirstCopySound ==
  ASSUME InductiveInvariant, NEW id \in CandidateIds, store[id] # None,
         NEW pc \in Pcs, NEW c, c.id = id, c.version = store[id].version,
         Descends(pc, c, store[id]),
         pc \in {"publish", "lost publish"} => c.inspection # None,
         pc \in {"rollback", "lost rollback"} => c.publication # None
  PROVE  JobSound([pc |-> pc, c |-> c])
<1> DEFINE j == [pc |-> pc, c |-> c]
<1>1. store[id].version \in Nat
  BY StoredTyped DEF InductiveInvariant
<1>2. store[id].version <= store[id].version
  BY <1>1, NotNewerThanItself, Zenon
<1>3. j.pc = pc /\ j.c = c
  OBVIOUS
<1> HIDE DEF j
<1>4. JobSound(j)
  BY <1>2, <1>3 DEF JobSound
<1>5. QED
  BY <1>4 DEF j

(* The copy a request goes on with after a step of its own. *)
LEMMA NextCopySound ==
  ASSUME InductiveInvariant, NEW w \in Workers, job[w] # None,
         NEW pc \in Pcs, NEW c, c.id = job[w].c.id, c.version = job[w].c.version,
         Descends(job[w].pc, job[w].c, store[c.id]) => Descends(pc, c, store[c.id]),
         pc \in {"publish", "lost publish"} => c.inspection # None,
         pc \in {"rollback", "lost rollback"} => c.publication # None
  PROVE  JobSound([pc |-> pc, c |-> c])
<1>1. JobSound(job[w])
  BY DEF InductiveInvariant, JobsSound
<1>2. QED
  BY <1>1 DEF JobSound

LEMMA CreateSound ==
  ASSUME InductiveInvariant, NEW w \in Workers, NEW p \in Principals,
         NEW id \in CandidateIds, NEW d \in Drafts, NEW scope \in Scopes,
         Create(w, p, id, d, scope)
  PROVE  InductiveInvariant'
<1> DEFINE c == NewCandidate(p, id, d, scope)
<1>1. p.workspace \in Workspaces /\ p.user \in Users
  BY InputsAssumption DEF Principal
<1>2. c \in Candidate
  BY <1>1 DEF NewCandidate, Candidate, States
<1>3. c.id = id /\ c.version = 1 /\ c.state = "candidate"
  BY DEF NewCandidate
<1>4. CandidateSound(c)
  BY <1>3 DEF CandidateSound
<1>5. /\ store[id] = None /\ store' = [store EXCEPT ![id] = c]
      /\ job' = [job EXCEPT ![w] = [pc |-> "inspect", c |-> c]]
      /\ RemoteUnchanged
  BY <1>3 DEF Create, StoreCreate, Continue
<1>6. c # None
  BY <1>2, SentinelAssumption
<1> HIDE DEF c
<1>7. [pc |-> "inspect", c |-> c] \in Job
  BY <1>2 DEF Job, Pcs
<1>8. TypeOK'
  <2>1. StoreType'
    BY <1>2, <1>5 DEF StoreType, InductiveInvariant, TypeOK
  <2>2. job' \in [Workers -> Job \cup {None}]
    BY <1>5, <1>7 DEF InductiveInvariant, TypeOK
  <2>3. QED
    BY <2>1, <2>2, <1>5, RemoteSound DEF InductiveInvariant, TypeOK
<1>9. store'[id] = c /\ \A o \in CandidateIds : o # id => store'[o] = store[o]
  BY <1>5 DEF InductiveInvariant, TypeOK, StoreType
<1>10. StoreSound'
  BY <1>3, <1>4, <1>9 DEF InductiveInvariant, StoreSound, Exists
<1>11. ASSUME NEW v \in Workers, job'[v] # None
       PROVE  JobSound(job[v])'
  <2>1. CASE v = w
    <3>1. job'[v] = [pc |-> "inspect", c |-> c]
      BY <1>5, <2>1 DEF InductiveInvariant, TypeOK
    <3>2. Descends("inspect", c, c)
      BY <1>3 DEF Descends, Recheckable
    <3>3. QED
      BY <1>3, <1>6, <1>9, <3>1, <3>2 DEF JobSound
  <2>2. CASE v # w
    <3>1. job'[v] = job[v]
      BY <1>5, <2>2 DEF InductiveInvariant, TypeOK
    <3>2. JobSound(job[v])
      BY <1>11, <3>1 DEF InductiveInvariant, JobsSound
    <3>3. job[v].c.id \in CandidateIds /\ job[v].c.id # id
      BY <1>5, <1>11, <3>1, <3>2, JobsTyped DEF InductiveInvariant, JobSound, Candidate
    <3>4. QED
      BY <1>9, <3>1, <3>2, <3>3 DEF JobSound
  <2>3. QED
    BY <2>1, <2>2
<1>12. QED
  BY <1>8, <1>10, <1>11 DEF InductiveInvariant, JobsSound

LEMMA BeginSound ==
  ASSUME InductiveInvariant, NEW w \in Workers, NEW p \in Principals, NEW id \in CandidateIds,
         \/ Recheck(w, p, id)
         \/ \E in \in ReviewInputs : BeginReview(w, p, id, in)
         \/ BeginPublish(w, p, id)
         \/ BeginRollback(w, p, id)
  PROVE  InductiveInvariant'
<1>1. store[id] # None /\ UNCHANGED store /\ RemoteUnchanged
  BY DEF Recheck, BeginReview, BeginPublish, BeginRollback, Opens
<1>2. /\ store[id] \in Candidate /\ store[id].id = id
      /\ CandidateSound(store[id])
  BY <1>1, StoredTyped DEF InductiveInvariant, StoreSound, Exists
<1>3. SkillsType' /\ KnowledgeType'
  BY <1>1, RemoteSound DEF InductiveInvariant
<1>4. CASE Recheck(w, p, id)
  <2>1. Descends("inspect", store[id], store[id])
    BY <1>4 DEF Recheck, Descends
  <2>2. JobSound([pc |-> "inspect", c |-> store[id]])
    BY <1>1, <1>2, <2>1, FirstCopySound DEF Pcs
  <2>3. QED
    BY <1>1, <1>2, <1>3, <1>4, <2>2, ContinueSound DEF Recheck, Pcs
<1>5. CASE \E in \in ReviewInputs : BeginReview(w, p, id, in)
  <2>1. PICK in \in ReviewInputs : BeginReview(w, p, id, in)
    BY <1>5
  <2>2. in \in ReviewInput
    BY InputsAssumption
  <2>3. Descends("update", Reviewed(store[id], in), store[id])
    BY <2>1, <2>2 DEF BeginReview, Descends, Successor
  <2>4. /\ Reviewed(store[id], in) \in Candidate
        /\ Reviewed(store[id], in).id = id
        /\ Reviewed(store[id], in).version = store[id].version
    BY <1>2, <2>2, CopiesWellFormed
  <2>5. JobSound([pc |-> "update", c |-> Reviewed(store[id], in)])
    BY <1>1, <2>3, <2>4, FirstCopySound DEF Pcs
  <2>6. QED
    BY <1>1, <1>3, <2>1, <2>4, <2>5, ContinueSound DEF BeginReview, Pcs
<1>6. CASE BeginPublish(w, p, id)
  <2>1. Descends("preinspect", store[id], store[id])
    BY <1>6 DEF BeginPublish, Descends
  <2>2. JobSound([pc |-> "preinspect", c |-> store[id]])
    BY <1>1, <1>2, <2>1, FirstCopySound DEF Pcs
  <2>3. QED
    BY <1>1, <1>2, <1>3, <1>6, <2>2, ContinueSound DEF BeginPublish, Pcs
<1>7. CASE BeginRollback(w, p, id)
  <2>1. Descends("rollback", store[id], store[id])
    BY <1>7 DEF BeginRollback, Descends
  <2>2. JobSound([pc |-> "rollback", c |-> store[id]])
    BY <1>1, <1>2, <1>7, <2>1, FirstCopySound DEF BeginRollback, Pcs
  <2>3. QED
    BY <1>1, <1>2, <1>3, <1>7, <2>2, ContinueSound DEF BeginRollback, Pcs
<1>8. QED
  BY <1>4, <1>5, <1>6, <1>7

-----------------------------------------------------------------------------
(* The publication a backend returns is a well-formed record. *)
LEMMA PublicationsWellFormed ==
  ASSUME TypeOK
  PROVE  /\ \A c \in Candidate : c.inspection # None /\ c.draft.kind = "skill"
              => SkillPublication(c) \in Publication
         /\ \A k \in KnowledgeIds : KnowledgePublication(k) \in Publication
<1>1. ASSUME NEW c \in Candidate, c.inspection # None, c.draft.kind = "skill"
      PROVE  SkillPublication(c) \in Publication
  <2>1. c.draft \in Drafts /\ c.inspection \in Inspection
    BY <1>1 DEF Candidate
  <2>2. c.draft.target \in SkillNames
    BY <1>1, <2>1, InputsAssumption
  <2>3. c.inspection.current \in SkillValues
    BY <2>1 DEF Inspection
  <2>4. QED
    BY <2>2, <2>3 DEF SkillPublication, Publication
<1>2. ASSUME NEW k \in KnowledgeIds
      PROVE  KnowledgePublication(k) \in Publication
  BY DEF KnowledgePublication, Publication, SkillValues
<1>3. QED
  BY <1>1, <1>2

(* The servers hold well-formed assets after every call. *)
LEMMA SkillPublishTyped ==
  ASSUME TypeOK, NEW c \in Candidate, c.draft.kind = "skill", SkillPublish(c)
  PROVE  SkillsType'
<1>1. c.draft \in Drafts
  BY DEF Candidate
<1>2. c.draft.content \in SkillValues /\ c.draft.target \in SkillNames
  BY <1>1, InputsAssumption DEF Draft, SkillValues
<1>3. QED
  BY <1>2 DEF TypeOK, SkillsType, SkillPublish

LEMMA KnowledgePublishTyped ==
  ASSUME TypeOK, NEW c \in Candidate, c.draft.kind = "knowledge",
         NEW k \in KnowledgeIds, KnowledgePublish(c, k)
  PROVE  KnowledgeType'
<1>1. c.draft \in Drafts
  BY DEF Candidate
<1>2. c.draft.content \in Contents /\ c.draft.target \in KnowledgeBases
  BY <1>1, InputsAssumption DEF Draft
<1>3. [kb |-> c.draft.target, statement |-> c.draft.content, live |-> TRUE] \in Entry
  BY <1>2 DEF Entry
<1>4. QED
  BY <1>3 DEF TypeOK, KnowledgeType, KnowledgePublish, NewEntry

LEMMA SkillRollbackTyped ==
  ASSUME TypeOK, NEW c \in Candidate, c.publication # None, SkillRollback(c)
  PROVE  SkillsType'
<1>1. c.publication.previous \in SkillValues
  BY DEF Candidate, Publication
<1>2. QED
  BY <1>1 DEF TypeOK, SkillsType, SkillRollback

(* Taking an entry off the server leaves well-formed entries. *)
LEMMA RemoveEntryTyped ==
  ASSUME TypeOK, NEW k \in Live, knowledge' = [knowledge EXCEPT ![k].live = FALSE]
  PROVE  KnowledgeType'
<1>1. knowledge[k] \in Entry
  BY DEF TypeOK, KnowledgeType, Live
<1>2. [knowledge[k] EXCEPT !.live = FALSE] \in Entry
  BY <1>1 DEF Entry
<1>3. QED
  BY <1>2 DEF TypeOK, KnowledgeType

LEMMA KnowledgeRollbackTyped ==
  ASSUME TypeOK, NEW c, KnowledgeRollback(c)
  PROVE  KnowledgeType'
BY RemoveEntryTyped DEF KnowledgeRollback

LEMMA EditTyped ==
  ASSUME TypeOK, Edit
  PROVE  SkillsType' /\ KnowledgeType'
<1>1. CASE \E s \in SkillNames, v \in SkillValues : SkillEdit(s, v) /\ UNCHANGED knowledge
  BY <1>1 DEF TypeOK, SkillsType, KnowledgeType, SkillEdit
<1>2. CASE \E k \in KnowledgeIds : KnowledgeEdit(k) /\ UNCHANGED skills
  <2>1. PICK k \in KnowledgeIds : KnowledgeEdit(k) /\ UNCHANGED skills
    BY <1>2
  <2>2. CASE \E kb \in KnowledgeBases, t \in Contents : NewEntry(k, kb, t)
    <3>1. PICK kb \in KnowledgeBases, t \in Contents : NewEntry(k, kb, t)
      BY <2>2
    <3>2. [kb |-> kb, statement |-> t, live |-> TRUE] \in Entry
      BY DEF Entry
    <3>3. QED
      BY <2>1, <3>1, <3>2 DEF TypeOK, SkillsType, KnowledgeType, NewEntry
  <2>3. CASE k \in Live /\ knowledge' = [knowledge EXCEPT ![k].live = FALSE]
    BY <2>1, <2>3, RemoveEntryTyped DEF TypeOK, SkillsType
  <2>4. QED
    BY <2>1, <2>2, <2>3 DEF KnowledgeEdit
<1>3. QED
  BY <1>1, <1>2 DEF Edit

-----------------------------------------------------------------------------
(* The invariant across the steps of a request in flight. *)
LEMMA InspectSound ==
  ASSUME InductiveInvariant, NEW w \in Workers, Inspect(w)
  PROVE  InductiveInvariant'
<1> DEFINE c == job[w].c
<1>1. job[w] # None /\ job[w].pc = "inspect" /\ UNCHANGED store /\ RemoteUnchanged
  BY DEF Inspect, At
<1>2. c \in Candidate /\ c.draft \in Drafts /\ SkillsType' /\ KnowledgeType'
  BY <1>1, JobsTyped, RemoteSound DEF InductiveInvariant
<1>3. PICK i \in Inspections(c.draft) : Continue(w, "update", Inspected(c, i))
  BY DEF Inspect
<1>4. i \in Inspection
  BY <1>2, InspectionsWellFormed DEF InductiveInvariant, TypeOK
<1>5. /\ Inspected(c, i) \in Candidate
      /\ Inspected(c, i).id = c.id /\ Inspected(c, i).version = c.version
  BY <1>2, <1>4, CopiesWellFormed
<1>6. Inspected(c, i).inspection = i /\ i # None
  BY <1>2, <1>4, SentinelAssumption DEF Inspected, Candidate
<1>7. ASSUME NEW s, Descends(job[w].pc, c, s)
      PROVE  Descends("update", Inspected(c, i), s)
  BY <1>1, <1>6, <1>7 DEF Descends, Successor
<1> HIDE DEF c
<1>8. JobSound([pc |-> "update", c |-> Inspected(c, i)])
  BY <1>1, <1>5, <1>7, NextCopySound DEF Pcs, c
<1>9. QED
  BY <1>1, <1>2, <1>3, <1>5, <1>8, ContinueSound DEF Pcs

LEMMA PreInspectSound ==
  ASSUME InductiveInvariant, NEW w \in Workers, PreInspect(w)
  PROVE  InductiveInvariant'
<1> DEFINE c == job[w].c
<1>1. job[w] # None /\ job[w].pc = "preinspect" /\ UNCHANGED store /\ RemoteUnchanged
  BY DEF PreInspect, At
<1>2. c \in Candidate /\ c.draft \in Drafts /\ SkillsType' /\ KnowledgeType'
  BY <1>1, JobsTyped, RemoteSound DEF InductiveInvariant
<1>3. CASE Finish(w)
  BY <1>1, <1>2, <1>3, FinishSound
<1>4. CASE \E latest \in Inspections(c.draft) :
             /\ ValidateFreshInspection(c, latest)
             /\ Continue(w, "publish", [c EXCEPT !.inspection = latest])
  <2>1. PICK i \in Inspections(c.draft) :
          /\ ValidateFreshInspection(c, i)
          /\ Continue(w, "publish", [c EXCEPT !.inspection = i])
    BY <1>4
  <2> DEFINE next == [c EXCEPT !.inspection = i]
  <2>2. i \in Inspection /\ i # None
    BY <1>2, InspectionsWellFormed, SentinelAssumption DEF InductiveInvariant, TypeOK
  <2>3. /\ next \in Candidate /\ next.inspection = i
        /\ next.id = c.id /\ next.version = c.version
    BY <1>2, <2>2, CopiesWellFormed DEF Candidate
  <2>4. ASSUME NEW s, Descends(job[w].pc, c, s)
        PROVE  Descends("publish", next, s)
    BY <1>1, <2>1, <2>3, <2>4 DEF Descends
  <2> HIDE DEF c, next
  <2>5. JobSound([pc |-> "publish", c |-> next])
    BY <1>1, <2>2, <2>3, <2>4, NextCopySound DEF Pcs, c
  <2>6. QED
    BY <1>1, <1>2, <2>1, <2>3, <2>5, ContinueSound DEF Pcs, next
<1>5. QED
  BY <1>3, <1>4 DEF PreInspect

(* A backend call that succeeded leads to the update. *)
LEMMA CallSound ==
  ASSUME InductiveInvariant, NEW w \in Workers,
         \/ PublishSkill(w) \/ PublishKnowledge(w)
         \/ RollbackSkill(w) \/ RollbackKnowledge(w)
  PROVE  InductiveInvariant'
<1> DEFINE c == job[w].c
<1>1. /\ job[w] # None /\ job[w].pc \in {"publish", "rollback"} /\ UNCHANGED store
      /\ TypeOK
  BY DEF PublishSkill, PublishKnowledge, RollbackSkill, RollbackKnowledge, At, InductiveInvariant
<1>2. c \in Candidate /\ JobSound(job[w])
  BY <1>1, JobsTyped DEF InductiveInvariant, JobsSound
<1>3. ASSUME job[w].pc = "publish", SkillsType', KnowledgeType',
             NEW pub \in Publication, Continue(w, "update", Published(c, pub)),
             c.draft.kind = "skill" => pub = SkillPublication(c)
      PROVE  InductiveInvariant'
  <2>1. /\ Published(c, pub) \in Candidate
        /\ Published(c, pub).id = c.id /\ Published(c, pub).version = c.version
    BY <1>2, CopiesWellFormed
  <2>2. pub # None /\ c.inspection # None
    BY <1>2, <1>3, SentinelAssumption DEF JobSound
  <2>3. /\ Published(c, pub).publication = pub
        /\ Published(c, pub).inspection = c.inspection
        /\ Published(c, pub).draft = c.draft
    BY <1>2 DEF Published, Candidate
  <2>4. SkillPublication(Published(c, pub)) = SkillPublication(c)
    BY <2>3 DEF SkillPublication
  <2>5. ASSUME NEW s, Descends("publish", c, s)
        PROVE  Descends("update", Published(c, pub), s)
    <3>1. /\ s.state = "approved" /\ ValidateFreshInspection(s, c.inspection)
          /\ c = [s EXCEPT !.inspection = c.inspection]
      BY <2>5 DEF Descends
    <3>2. c.draft = s.draft
      BY <1>2, <3>1 DEF Candidate
    <3>3. Successor(s, Published(c, pub))
      BY <1>3, <2>2, <2>3, <2>4, <3>1, <3>2 DEF Successor
    <3>4. QED
      BY <3>3 DEF Descends
  <2> HIDE DEF c
  <2>6. JobSound([pc |-> "update", c |-> Published(c, pub)])
    BY <1>1, <1>3, <2>1, <2>5, NextCopySound DEF Pcs, c
  <2>7. QED
    BY <1>1, <1>3, <2>1, <2>6, ContinueSound DEF Pcs
<1>4. ASSUME job[w].pc = "rollback", SkillsType', KnowledgeType',
             Continue(w, "update", RolledBack(c))
      PROVE  InductiveInvariant'
  <2>1. /\ RolledBack(c) \in Candidate
        /\ RolledBack(c).id = c.id /\ RolledBack(c).version = c.version
    BY <1>2, CopiesWellFormed
  <2>2. ASSUME NEW s, Descends("rollback", c, s)
        PROVE  Descends("update", RolledBack(c), s)
    BY <2>2 DEF Descends, Successor
  <2> HIDE DEF c
  <2>3. JobSound([pc |-> "update", c |-> RolledBack(c)])
    BY <1>1, <1>4, <2>1, <2>2, NextCopySound DEF Pcs, c
  <2>4. QED
    BY <1>1, <1>4, <2>1, <2>3, ContinueSound DEF Pcs
<1>5. CASE PublishSkill(w)
  <2>1. /\ job[w].pc = "publish" /\ c.draft.kind = "skill" /\ SkillPublish(c)
        /\ Continue(w, "update", Published(c, SkillPublication(c)))
        /\ UNCHANGED knowledge
    BY <1>5 DEF PublishSkill, At
  <2>2. SkillPublication(c) \in Publication
    BY <1>1, <1>2, <2>1, PublicationsWellFormed DEF JobSound
  <2>3. SkillsType' /\ KnowledgeType'
    BY <1>1, <1>2, <2>1, SkillPublishTyped DEF TypeOK, KnowledgeType
  <2>4. QED
    BY <1>3, <2>1, <2>2, <2>3
<1>6. CASE PublishKnowledge(w)
  <2>1. PICK k \in KnowledgeIds :
          /\ job[w].pc = "publish" /\ c.draft.kind = "knowledge" /\ KnowledgePublish(c, k)
          /\ Continue(w, "update", Published(c, KnowledgePublication(k)))
          /\ UNCHANGED skills
    BY <1>6 DEF PublishKnowledge, At
  <2>2. KnowledgePublication(k) \in Publication
    BY <1>1, PublicationsWellFormed
  <2>3. SkillsType' /\ KnowledgeType'
    BY <1>1, <1>2, <2>1, KnowledgePublishTyped DEF TypeOK, SkillsType
  <2>4. QED
    BY <1>3, <2>1, <2>2, <2>3
<1>7. CASE RollbackSkill(w)
  <2>1. /\ job[w].pc = "rollback" /\ SkillRollback(c)
        /\ Continue(w, "update", RolledBack(c)) /\ UNCHANGED knowledge
    BY <1>7 DEF RollbackSkill, At
  <2>2. SkillsType' /\ KnowledgeType'
    BY <1>1, <1>2, <2>1, SkillRollbackTyped DEF JobSound, TypeOK, KnowledgeType
  <2>3. QED
    BY <1>4, <2>1, <2>2
<1>8. CASE RollbackKnowledge(w)
  <2>1. /\ job[w].pc = "rollback" /\ KnowledgeRollback(c)
        /\ Continue(w, "update", RolledBack(c)) /\ UNCHANGED skills
    BY <1>8 DEF RollbackKnowledge, At
  <2>2. SkillsType' /\ KnowledgeType'
    BY <1>1, <2>1, KnowledgeRollbackTyped DEF TypeOK, SkillsType
  <2>3. QED
    BY <1>4, <2>1, <2>2
<1>9. QED
  BY <1>5, <1>6, <1>7, <1>8

(* The update writes the request's copy only over the version it was made  *)
(* from; every other copy of that version becomes an old one.              *)
LEMMA UpdateSound ==
  ASSUME InductiveInvariant, NEW w \in Workers, Update(w)
  PROVE  InductiveInvariant'
<1> DEFINE c == job[w].c
           id == c.id
           new == [c EXCEPT !.version = @ + 1]
<1>1. job[w] # None /\ job[w].pc = "update" /\ Finish(w) /\ RemoteUnchanged
  BY DEF Update, At
<1>2. c \in Candidate /\ id \in CandidateIds /\ SkillsType' /\ KnowledgeType'
  BY <1>1, JobsTyped, RemoteSound DEF InductiveInvariant, Candidate
<1>3. CASE UNCHANGED store
  BY <1>1, <1>2, <1>3, FinishSound
<1>4. CASE StoreUpdate(c)
  <2>1. /\ store[id] # None /\ store[id].version = c.version
        /\ store' = [store EXCEPT ![id] = new]
    BY <1>4 DEF StoreUpdate
  <2>2. /\ store[id] \in Candidate /\ CandidateSound(store[id])
        /\ store[id].version \in Nat /\ store[id].id = id
    BY <1>2, <2>1, StoredTyped DEF InductiveInvariant, StoreSound, Exists
  <2>3. Successor(store[id], c)
    BY <1>1, <2>1 DEF InductiveInvariant, JobsSound, JobSound, Descends
  <2>4. CandidateSound(c)
    BY <1>2, <2>2, <2>3, SuccessorSound
  <2>5. /\ new \in Candidate /\ new.id = id /\ new.version = store[id].version + 1
        /\ CandidateSound(new) /\ new # None
    BY <1>2, <2>1, <2>4, CopiesWellFormed, VersionIsIndependent, SentinelAssumption
  <2> HIDE DEF c, id, new
  <2>6. store'[id] = new /\ \A o \in CandidateIds : o # id => store'[o] = store[o]
    BY <1>2, <2>1 DEF InductiveInvariant, TypeOK, StoreType
  <2>7. TypeOK'
    <3>1. StoreType'
      BY <1>2, <2>1, <2>5 DEF InductiveInvariant, TypeOK, StoreType
    <3>2. job' \in [Workers -> Job \cup {None}]
      BY <1>1 DEF InductiveInvariant, TypeOK, Finish
    <3>3. QED
      BY <1>2, <3>1, <3>2 DEF TypeOK
  <2>8. StoreSound'
    BY <1>2, <2>5, <2>6 DEF InductiveInvariant, StoreSound, Exists
  <2>9. ASSUME NEW v \in Workers, job'[v] # None
        PROVE  JobSound(job[v])'
    <3>1. job'[v] = job[v] /\ job[v] # None
      BY <1>1, <2>9 DEF InductiveInvariant, TypeOK, Finish
    <3>2. JobSound(job[v]) /\ job[v].c.id \in CandidateIds /\ job[v].c.version \in Nat
      BY <3>1, JobsTyped DEF InductiveInvariant, JobsSound, Candidate
    <3>3. CASE job[v].c.id # id
      BY <2>6, <3>1, <3>2, <3>3 DEF JobSound
    <3>4. CASE job[v].c.id = id
      <4>1. job[v].c.version <= store[id].version
        BY <3>2, <3>4 DEF JobSound
      <4>2. job[v].c.version <= new.version /\ job[v].c.version # new.version
        BY <2>2, <2>5, <3>2, <4>1
      <4>3. QED
        BY <2>5, <2>6, <3>1, <3>2, <3>4, <4>2 DEF JobSound
    <3>5. QED
      BY <3>3, <3>4
  <2>10. QED
    BY <2>7, <2>8, <2>9 DEF InductiveInvariant, JobsSound
<1>5. QED
  BY <1>3, <1>4 DEF Update

LEMMA FaultsSound ==
  ASSUME InductiveInvariant, NEW w \in Workers,
         \/ Refused(w) \/ LoseCall(w) \/ LostCallLands(w)
         \/ LostCallVanishes(w) \/ WriteFails(w)
  PROVE  InductiveInvariant'
<1>1. job[w] # None /\ UNCHANGED store /\ TypeOK
  BY DEF Refused, LoseCall, LostCallLands, LostCallVanishes, WriteFails, At, InductiveInvariant
<1>2. job[w].c \in Candidate /\ JobSound(job[w])
  BY <1>1, JobsTyped DEF InductiveInvariant, JobsSound
<1>3. CASE Refused(w) \/ LostCallVanishes(w) \/ WriteFails(w)
  BY <1>1, <1>3, RemoteSound, FinishSound DEF Refused, LostCallVanishes, WriteFails
<1>4. CASE LoseCall(w)
  <2> DEFINE pc == LostPc(job[w].pc)
  <2>1. /\ job[w].pc \in {"publish", "rollback"} /\ RemoteUnchanged
        /\ Continue(w, pc, job[w].c)
    BY <1>4 DEF LoseCall, At
  <2>2. /\ job[w].pc = "publish" => pc = "lost publish"
        /\ job[w].pc = "rollback" => pc = "lost rollback"
    BY DEF LostPc
  <2> HIDE DEF pc
  <2>3. pc \in Pcs
    BY <2>1, <2>2 DEF Pcs
  <2>4. ASSUME NEW s, Descends(job[w].pc, job[w].c, s)
        PROVE  Descends(pc, job[w].c, s)
    BY <2>1, <2>2, <2>4 DEF Descends
  <2>5. /\ pc \in {"publish", "lost publish"} => job[w].c.inspection # None
        /\ pc \in {"rollback", "lost rollback"} => job[w].c.publication # None
    BY <1>2, <2>1, <2>2 DEF JobSound
  <2>6. JobSound([pc |-> pc, c |-> job[w].c])
    BY <1>1, <2>3, <2>4, <2>5, NextCopySound
  <2>7. SkillsType' /\ KnowledgeType'
    BY <1>1, <2>1, RemoteSound
  <2>8. QED
    BY <1>1, <1>2, <2>1, <2>3, <2>6, <2>7, ContinueSound
<1>5. CASE LostCallLands(w)
  <2>1. Finish(w)
    BY <1>5 DEF LostCallLands
  <2>2. SkillsType' /\ KnowledgeType'
    <3>1. CASE At(w, "lost publish") /\ job[w].c.draft.kind = "skill"
      BY <1>1, <1>2, <1>5, <3>1, SkillPublishTyped
      DEF LostCallLands, At, TypeOK, KnowledgeType
    <3>2. CASE At(w, "lost publish") /\ job[w].c.draft.kind = "knowledge"
      BY <1>1, <1>2, <1>5, <3>2, KnowledgePublishTyped
      DEF LostCallLands, At, TypeOK, SkillsType
    <3>3. CASE At(w, "lost rollback") /\ job[w].c.draft.kind = "skill"
      BY <1>1, <1>2, <1>5, <3>3, SkillRollbackTyped
      DEF LostCallLands, At, JobSound, TypeOK, KnowledgeType
    <3>4. CASE At(w, "lost rollback") /\ job[w].c.draft.kind = "knowledge"
      BY <1>1, <1>5, <3>4, KnowledgeRollbackTyped
      DEF LostCallLands, At, TypeOK, SkillsType
    <3>5. QED
      BY <1>5, <3>1, <3>2, <3>3, <3>4 DEF LostCallLands
  <2>3. QED
    BY <1>1, <2>1, <2>2, FinishSound
<1>6. QED
  BY <1>3, <1>4, <1>5

LEMMA CrashSound ==
  ASSUME InductiveInvariant, Crash
  PROVE  InductiveInvariant'
<1>1. UNCHANGED store /\ SkillsType' /\ KnowledgeType' /\ StoreType' /\ StoreSound'
  BY RemoteSound DEF Crash, InductiveInvariant, TypeOK, StoreType, StoreSound, Exists
<1>2. ASSUME NEW w \in Workers
      PROVE  /\ job'[w] \in Job \cup {None}
             /\ job'[w] # None => JobSound(job[w])'
  <2>1. CASE job'[w] = None
    BY <2>1
  <2>2. CASE job'[w] # None
    <3> DEFINE pc == LostPc(job[w].pc)
    <3>1. /\ job[w] # None /\ job[w].pc \notin {"inspect", "preinspect", "update"}
          /\ job'[w] = [job[w] EXCEPT !.pc = pc]
      BY <2>2 DEF Crash
    <3>2. job[w] \in Job /\ JobSound(job[w])
      BY <3>1, JobsTyped DEF InductiveInvariant, JobsSound
    <3>3. /\ job[w].pc \in {"publish", "lost publish"} => pc = "lost publish"
          /\ job[w].pc \in {"rollback", "lost rollback"} => pc = "lost rollback"
      BY DEF LostPc
    <3>4. job[w].pc \in {"publish", "lost publish", "rollback", "lost rollback"}
      BY <3>1, <3>2 DEF Job, Pcs
    <3> HIDE DEF pc
    <3>5. /\ job'[w] \in Job /\ job'[w].c = job[w].c /\ job'[w].pc = pc
      BY <3>1, <3>2, <3>3, <3>4 DEF Job, Pcs
    <3>6. ASSUME NEW s, Descends(job[w].pc, job[w].c, s)
          PROVE  Descends(pc, job[w].c, s)
      BY <3>3, <3>4, <3>6 DEF Descends
    <3>7. /\ pc \in {"publish", "lost publish"} => job[w].c.inspection # None
          /\ pc \in {"rollback", "lost rollback"} => job[w].c.publication # None
      BY <3>2, <3>3, <3>4 DEF JobSound
    <3>8. JobSound(job[w])'
      BY <1>1, <3>2, <3>5, <3>6, <3>7 DEF JobSound
    <3>9. QED
      BY <3>5, <3>8
  <2>3. QED
    BY <2>1, <2>2
<1>3. job' \in [Workers -> Job \cup {None}]
  BY <1>2 DEF Crash
<1>4. QED
  BY <1>1, <1>2, <1>3 DEF InductiveInvariant, TypeOK, JobsSound

LEMMA EditSound ==
  ASSUME InductiveInvariant, Edit
  PROVE  InductiveInvariant'
<1>1. UNCHANGED <<store, job>>
  BY DEF Edit
<1>2. SkillsType' /\ KnowledgeType'
  BY EditTyped DEF InductiveInvariant
<1>3. QED
  BY <1>1, <1>2
  DEF InductiveInvariant, TypeOK, StoreType, StoreSound, Exists, JobsSound, JobSound

-----------------------------------------------------------------------------
LEMMA InitSound == Init => InductiveInvariant
<1> SUFFICES ASSUME Init PROVE InductiveInvariant
  OBVIOUS
<1>1. \A id \in CandidateIds : store[id] = None
  BY DEF Init, StoreInit
<1>2. \A w \in Workers : job[w] = None
  BY DEF Init
<1>3. TypeOK
  BY DEF Init, TypeOK, StoreInit, StoreType, SkillsInit, SkillsType, KnowledgeInit, KnowledgeType
<1>4. QED
  BY <1>1, <1>2, <1>3 DEF InductiveInvariant, StoreSound, JobsSound, Exists

LEMMA NextSound == InductiveInvariant /\ [Next]_vars => InductiveInvariant'
<1> SUFFICES ASSUME InductiveInvariant, [Next]_vars PROVE InductiveInvariant'
  OBVIOUS
<1>1. CASE \E w \in Workers : Begin(w)
  <2>1. PICK w \in Workers, p \in Principals, id \in CandidateIds :
          \/ \E d \in Drafts, scope \in Scopes : Create(w, p, id, d, scope)
          \/ Recheck(w, p, id)
          \/ \E in \in ReviewInputs : BeginReview(w, p, id, in)
          \/ BeginPublish(w, p, id)
          \/ BeginRollback(w, p, id)
    BY <1>1 DEF Begin
  <2>2. QED
    BY <2>1, CreateSound, BeginSound
<1>2. CASE \E w \in Workers : Proceed(w) \/ Fail(w)
  BY <1>2, InspectSound, PreInspectSound, CallSound, UpdateSound, FaultsSound DEF Proceed, Fail
<1>3. CASE Crash
  BY <1>3, CrashSound
<1>4. CASE Edit
  BY <1>4, EditSound
<1>5. CASE UNCHANGED vars
  BY <1>5 DEF vars, InductiveInvariant, TypeOK, StoreType, SkillsType, KnowledgeType,
              StoreSound, Exists, JobsSound, JobSound
<1>6. QED
  BY <1>1, <1>2, <1>3, <1>4, <1>5 DEF Next

(* The stored candidates are consistent, and every request in flight works *)
(* on the stored version or has lost the race for it, in every reachable   *)
(* state: any interleaving of Create, Recheck, Review, Publish and         *)
(* Rollback, with crashes, lost calls and other clients.                   *)
THEOREM InvariantHolds == Spec => []InductiveInvariant
<1>1. QED
  BY InitSound, NextSound, PTL DEF Spec

(* Every record the service, its store and the servers hold is of its type. *)
THEOREM TypeCorrect == Spec => []TypeOK
<1>1. InductiveInvariant => TypeOK
  BY DEF InductiveInvariant
<1>2. QED
  BY <1>1, InvariantHolds, PTL

(* No candidate is shared except through the Promotion Gate. *)
THEOREM GateHolds == Spec => []SharedOnlyThroughGate
<1>1. InductiveInvariant => SharedOnlyThroughGate
  <2> SUFFICES ASSUME InductiveInvariant, NEW id \in CandidateIds, Exists(id),
                      store[id].state \in {"approved", "published", "rolled_back"}
               PROVE  /\ PassedGate(store[id])
                      /\ store[id].state = "approved"
                           => (store[id].inspection.conflict => store[id].review.reasoned)
                      /\ store[id].state # "approved" => store[id].publication # None
    BY DEF SharedOnlyThroughGate
  <2>1. CandidateSound(store[id])
    BY DEF InductiveInvariant, StoreSound
  <2>2. QED
    BY <2>1 DEF CandidateSound
<1>2. QED
  BY <1>1, InvariantHolds, PTL

-----------------------------------------------------------------------------
(* A step of the service writes a new candidate, or writes over a stored   *)
(* one what a request soundly made of it, or writes nothing.               *)
StoreStep ==
  \/ UNCHANGED store
  \/ \E c \in Candidate :
       /\ store[c.id] = None /\ c.version = 1 /\ c.state = "candidate"
       /\ store' = [store EXCEPT ![c.id] = c]
  \/ \E c \in Candidate :
       /\ store[c.id] # None /\ Successor(store[c.id], c)
       /\ store' = [store EXCEPT ![c.id] = [c EXCEPT !.version = @ + 1]]

LEMMA StepsOfTheStore == InductiveInvariant /\ [Next]_vars => StoreStep
<1> SUFFICES ASSUME InductiveInvariant, [Next]_vars, store' # store PROVE StoreStep
  BY DEF StoreStep
<1>1. CASE \E w \in Workers : Begin(w)
  <2>1. PICK w \in Workers, p \in Principals, id \in CandidateIds, d \in Drafts, scope \in Scopes :
          Create(w, p, id, d, scope)
    BY <1>1 DEF Begin, Recheck, BeginReview, BeginPublish, BeginRollback
  <2> DEFINE c == NewCandidate(p, id, d, scope)
  <2>2. p.workspace \in Workspaces /\ p.user \in Users
    BY InputsAssumption DEF Principal
  <2>3. c \in Candidate /\ c.id = id /\ c.version = 1 /\ c.state = "candidate"
    BY <2>2 DEF NewCandidate, Candidate, States
  <2>4. store[c.id] = None /\ store' = [store EXCEPT ![c.id] = c]
    BY <2>1 DEF Create, StoreCreate
  <2>5. QED
    BY <2>3, <2>4 DEF StoreStep
<1>2. CASE \E w \in Workers : Proceed(w) \/ Fail(w)
  <2>1. PICK w \in Workers : Update(w)
    BY <1>2 DEF Proceed, Fail, Inspect, PreInspect, PublishSkill, PublishKnowledge, RollbackSkill,
                RollbackKnowledge, Refused, LoseCall, LostCallLands, LostCallVanishes, WriteFails
  <2> DEFINE c == job[w].c
  <2>2. job[w] # None /\ job[w].pc = "update" /\ StoreUpdate(c)
    BY <2>1 DEF Update, At
  <2>3. c \in Candidate
    BY <2>2, JobsTyped DEF InductiveInvariant
  <2>4. /\ store[c.id] # None /\ c.version = store[c.id].version
        /\ store' = [store EXCEPT ![c.id] = [c EXCEPT !.version = @ + 1]]
    BY <2>2 DEF StoreUpdate
  <2>5. Successor(store[c.id], c)
    BY <2>2, <2>4 DEF InductiveInvariant, JobsSound, JobSound, Descends
  <2>6. QED
    BY <2>3, <2>4, <2>5 DEF StoreStep
<1>3. QED
  BY <1>1, <1>2 DEF Next, Crash, Edit, vars

(* A skill becomes published only over the revision its approval was for:  *)
(* whatever other clients and other requests do between the approval, the  *)
(* inspection repeated by Publish and the update.                          *)
THEOREM RevisionHolds == Spec => PublishedOverReviewedRevision
<1> DEFINE Kept(id) ==
      /\ Exists(id) /\ store[id].state = "approved"
      /\ store'[id].state = "published" /\ store[id].draft.kind = "skill"
      /\ ExpectedRevision(store[id]) # Absent
      => store'[id].publication.previous = ExpectedRevision(store[id])
<1>1. InductiveInvariant /\ [Next]_vars => [\A id \in CandidateIds : Kept(id)]_store
  <2> SUFFICES ASSUME InductiveInvariant, [Next]_vars, NEW id \in CandidateIds,
                      Exists(id), store[id].state = "approved",
                      store'[id].state = "published", store[id].draft.kind = "skill",
                      ExpectedRevision(store[id]) # Absent
               PROVE  store'[id].publication.previous = ExpectedRevision(store[id])
    OBVIOUS
  <2>1. StoreStep /\ store[id] \in Candidate /\ store \in [CandidateIds -> Candidate \cup {None}]
    BY StepsOfTheStore, StoredTyped DEF InductiveInvariant, Exists, TypeOK, StoreType
  <2>2. PICK c \in Candidate :
          /\ c.id = id /\ Successor(store[id], c)
          /\ store' = [store EXCEPT ![id] = [c EXCEPT !.version = @ + 1]]
    BY <2>1 DEF StoreStep, Exists
  <2>3. /\ store'[id].state = c.state /\ store'[id].publication = c.publication
    BY <2>1, <2>2 DEF Candidate
  <2>4. c.state = "published"
    BY <2>3
  <2>5. /\ c.publication = SkillPublication(c)
        /\ ValidateFreshInspection(store[id], c.inspection)
    <3>1. ~(c = Inspected(store[id], c.inspection))
      BY <2>1, <2>4 DEF Inspected, Candidate
    <3>2. ~(c = RolledBack(store[id]))
      BY <2>1, <2>4 DEF RolledBack, Candidate
    <3>3. QED
      BY <2>2, <3>1, <3>2 DEF Successor
  <2>6. store[id].inspection # None
    BY <2>1 DEF InductiveInvariant, StoreSound, CandidateSound
  <2>7. c.inspection.current = ExpectedRevision(store[id])
    BY <2>5, <2>6 DEF ValidateFreshInspection, RevisionUnchanged
  <2>8. QED
    BY <2>3, <2>5, <2>7 DEF SkillPublication
<1>2. QED
  BY <1>1, InvariantHolds, PTL DEF Spec, PublishedOverReviewedRevision

-----------------------------------------------------------------------------
(* Writing n as the next version of candidate id is a move of the          *)
(* lifecycle.                                                              *)
LEMMA WriteIsMove ==
  ASSUME TypeOK, NEW id \in CandidateIds, NEW n \in Candidate, NEW from, NEW to, NEW sc,
         n.state = to, n.scope = sc,
         store' = [store EXCEPT ![id] = n],
         n.version = (IF Exists(id) THEN store[id].version ELSE 0) + 1,
         (IF Exists(id) THEN store[id].state ELSE "none") \in from
  PROVE  Lifecycle!Move(id, from, to, sc)
<1>1. n # None
  BY SentinelAssumption
<1>2. store'[id] = n /\ \A o \in CandidateIds : o # id => store'[o] = store[o]
  BY DEF TypeOK, StoreType
<1> DEFINE phase   == [o \in CandidateIds |-> IF Exists(o) THEN store[o].state ELSE "none"]
           version == [o \in CandidateIds |-> IF Exists(o) THEN store[o].version ELSE 0]
           scope   == [o \in CandidateIds |-> IF Exists(o) THEN store[o].scope ELSE "personal"]
<1>4. phase[id] \in from
  OBVIOUS
<1>5. \A o \in CandidateIds :
        /\ phase'[o] = IF o = id THEN n.state ELSE phase[o]
        /\ version'[o] = IF o = id THEN n.version ELSE version[o]
        /\ scope'[o] = IF o = id THEN n.scope ELSE scope[o]
  BY <1>1, <1>2 DEF Exists
<1>6. \A f, g, v :
        /\ f = [o \in CandidateIds |-> f[o]] /\ g = [o \in CandidateIds |-> g[o]]
        /\ \A o \in CandidateIds : g[o] = IF o = id THEN v ELSE f[o]
        => g = [f EXCEPT ![id] = v]
  OBVIOUS
<1>7. /\ phase = [o \in CandidateIds |-> phase[o]] /\ phase' = [o \in CandidateIds |-> phase'[o]]
      /\ version = [o \in CandidateIds |-> version[o]] /\ version' = [o \in CandidateIds |-> version'[o]]
      /\ scope = [o \in CandidateIds |-> scope[o]] /\ scope' = [o \in CandidateIds |-> scope'[o]]
  OBVIOUS
<1>8. /\ phase' = [phase EXCEPT ![id] = n.state]
      /\ version' = [version EXCEPT ![id] = n.version]
      /\ scope' = [scope EXCEPT ![id] = n.scope]
  <2> HIDE DEF phase, version, scope
  <2>1. phase' = [phase EXCEPT ![id] = n.state]
    BY ONLY <1>5, <1>6, <1>7, Zenon
  <2>2. version' = [version EXCEPT ![id] = n.version]
    BY ONLY <1>5, <1>6, <1>7, Zenon
  <2>3. scope' = [scope EXCEPT ![id] = n.scope]
    BY ONLY <1>5, <1>6, <1>7, Zenon
  <2>. QED
    BY <2>1, <2>2, <2>3
<1>9. n.version = version[id] + 1
  OBVIOUS
<1>10. QED
  BY <1>4, <1>8, <1>9 DEF Lifecycle!Move

LEMMA StepIsLifecycleStep ==
  InductiveInvariant /\ [Next]_vars => [Lifecycle!Next]_(Lifecycle!vars)
<1> SUFFICES ASSUME InductiveInvariant, [Next]_vars
             PROVE  Lifecycle!Next \/ UNCHANGED Lifecycle!vars
  OBVIOUS
<1>1. StoreStep /\ TypeOK
  BY StepsOfTheStore DEF InductiveInvariant
<1>2. CASE UNCHANGED store
  BY <1>2 DEF Lifecycle!vars, Exists
<1>3. CASE \E c \in Candidate :
             /\ store[c.id] = None /\ c.version = 1 /\ c.state = "candidate"
             /\ store' = [store EXCEPT ![c.id] = c]
  <2>1. PICK c \in Candidate :
          /\ store[c.id] = None /\ c.version = 1 /\ c.state = "candidate"
          /\ store' = [store EXCEPT ![c.id] = c]
    BY <1>3
  <2>2. c.id \in CandidateIds /\ c.scope \in {"personal", "workspace"} /\ ~Exists(c.id)
    BY <2>1 DEF Candidate, Scopes, Exists
  <2> DEFINE none == {"none"}
  <2>3. /\ c.version = (IF Exists(c.id) THEN store[c.id].version ELSE 0) + 1
        /\ (IF Exists(c.id) THEN store[c.id].state ELSE "none") \in none
    BY <2>1, <2>2
  <2> HIDE DEF none
  <2>4. Lifecycle!Move(c.id, none, "candidate", c.scope)
    BY <1>1, <2>1, <2>2, <2>3, WriteIsMove
  <2>5. QED
    BY <2>2, <2>4 DEF Lifecycle!Next, Lifecycle!Propose, none
<1>4. CASE \E c \in Candidate :
             /\ store[c.id] # None /\ Successor(store[c.id], c)
             /\ store' = [store EXCEPT ![c.id] = [c EXCEPT !.version = @ + 1]]
  <2>1. PICK c \in Candidate :
          /\ store[c.id] # None /\ Successor(store[c.id], c)
          /\ store' = [store EXCEPT ![c.id] = [c EXCEPT !.version = @ + 1]]
    BY <1>4
  <2> DEFINE id == c.id
             s == store[id]
             n == [c EXCEPT !.version = @ + 1]
  <2>2. id \in CandidateIds /\ Exists(id)
    BY <2>1 DEF Candidate, Exists
  <2>3. s \in Candidate /\ CandidateSound(s)
    BY <1>1, <2>1, <2>2, StoredTyped DEF InductiveInvariant, StoreSound
  <2>4. c.version = s.version
    BY <2>1, <2>3, SuccessorSound
  <2>5. n \in Candidate /\ n.version = s.version + 1 /\ n.state = c.state /\ n.scope = c.scope
    BY <2>4, CopiesWellFormed DEF Candidate
  <2> DEFINE scope == [o \in CandidateIds |-> IF Exists(o) THEN store[o].scope ELSE "personal"]
  <2>6. ASSUME NEW from, s.state \in from, NEW to, c.state = to, NEW sc, c.scope = sc
        PROVE  Lifecycle!Move(id, from, to, sc)
    <3> HIDE DEF n
    <3>1. store' = [store EXCEPT ![id] = n]
      BY <2>1 DEF n
    <3>2. QED
      BY <1>1, <2>2, <2>5, <2>6, <3>1, WriteIsMove
  <2>7. CASE Recheckable(s) /\ c.inspection # None /\ c = Inspected(s, c.inspection)
    <3>1. /\ s.state \in {"candidate", "checked", "blocked", "approved"}
          /\ c.state \in {"checked", "blocked"} /\ c.scope = s.scope
      BY <2>3, <2>7 DEF Recheckable, Inspected, Candidate, States
    <3>2. c.scope = scope[id]
      BY <2>2, <3>1
    <3> DEFINE open == {"candidate", "checked", "blocked", "approved"}
    <3>3. s.state \in open
      BY <3>1
    <3>4. Lifecycle!Move(id, open, c.state, c.scope)
      BY <2>6, <3>3
    <3>5. Lifecycle!Inspect(id)
      BY <3>1, <3>2, <3>4 DEF Lifecycle!Inspect, Lifecycle!Move
    <3>6. QED
      BY <2>2, <3>5 DEF Lifecycle!Next
  <2>8. CASE /\ s.state \in {"checked", "blocked"}
             /\ \E in \in ReviewInput :
                  (in.decision = "approved" => ReviewGate(s, in)) /\ c = Reviewed(s, in)
    <3>1. PICK in \in ReviewInput :
            (in.decision = "approved" => ReviewGate(s, in)) /\ c = Reviewed(s, in)
      BY <2>8
    <3>2. /\ c.state = in.decision
          /\ c.scope = IF in.decision = "approved" THEN "workspace" ELSE s.scope
      BY <2>3, <3>1 DEF Reviewed, Candidate
    <3>3. CASE in.decision = "approved"
      <4>1. s.state = "checked"
        BY <2>3, <2>8, <3>1, <3>3 DEF CandidateSound, ReviewGate
      <4>2. Lifecycle!Approve(id)
        BY <2>6, <3>2, <3>3, <4>1 DEF Lifecycle!Approve
      <4>3. QED
        BY <2>2, <4>2 DEF Lifecycle!Next
    <3>4. CASE in.decision = "rejected"
      <4>1. c.state = "rejected" /\ c.scope = scope[id]
        BY <2>2, <3>2, <3>4
      <4> DEFINE inspected == {"checked", "blocked"}
      <4>2. s.state \in inspected
        BY <2>8
      <4>3. Lifecycle!Move(id, inspected, "rejected", c.scope)
        BY <2>6, <4>1, <4>2
      <4>4. Lifecycle!Reject(id)
        BY <4>1, <4>3 DEF Lifecycle!Reject, Lifecycle!Move
      <4>5. QED
        BY <2>2, <4>4 DEF Lifecycle!Next
    <3>5. QED
      BY <3>3, <3>4 DEF ReviewInput
  <2>9. CASE /\ s.state = "approved" /\ c.inspection # None /\ c.publication # None
             /\ c = Published([s EXCEPT !.inspection = c.inspection], c.publication)
    <3>1. c.state = "published" /\ c.scope = s.scope
      BY <2>3, <2>9 DEF Published, Candidate
    <3>2. s.scope = "workspace"
      BY <2>3, <2>9 DEF CandidateSound, PassedGate
    <3>3. Lifecycle!Publish(id)
      BY <2>2, <2>6, <2>9, <3>1, <3>2 DEF Lifecycle!Publish
    <3>4. QED
      BY <2>2, <3>3 DEF Lifecycle!Next
  <2>10. CASE s.state = "published" /\ c = RolledBack(s)
    <3>1. c.state = "rolled_back" /\ c.scope = scope[id]
      BY <2>2, <2>3, <2>10 DEF RolledBack, Candidate
    <3> DEFINE published == {"published"}
    <3>2. s.state \in published
      BY <2>10
    <3>3. Lifecycle!Move(id, published, "rolled_back", c.scope)
      BY <2>6, <3>1, <3>2
    <3>4. Lifecycle!RollBack(id)
      BY <3>1, <3>3 DEF Lifecycle!RollBack, Lifecycle!Move
    <3>5. QED
      BY <2>2, <3>4 DEF Lifecycle!Next
  <2>11. QED
    BY <2>1, <2>7, <2>8, <2>9, <2>10 DEF Successor
<1>5. QED
  BY <1>1, <1>2, <1>3, <1>4 DEF StoreStep

(* The service implements the abstract lifecycle of a candidate. *)
THEOREM LifecycleHolds == Spec => ImplementsLifecycle
<1>1. Init => Lifecycle!Init
  BY DEF Init, StoreInit, Exists, Lifecycle!Init
<1>2. QED
  BY <1>1, StepIsLifecycleStep, InvariantHolds, PTL
  DEF Spec, ImplementsLifecycle, Lifecycle!Spec
=============================================================================
