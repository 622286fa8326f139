---------------------------- MODULE ServerProofs ----------------------------
(***************************************************************************)
(* Theorems about the records of the promotion service and what is on the  *)
(* servers: that a rollback of knowledge is exact, for any requests,       *)
(* failures and other clients, and, for requests that come one at a time,  *)
(* that the records match the servers.                                     *)
(***************************************************************************)
EXTENDS PromotionProofs

(* The candidates that exist in memory or on disk: the stored ones and the *)
(* copies that requests hold, whatever version they were made from.        *)
Copies == {store[id] : id \in {i \in CandidateIds : Exists(i)}}
          \cup {job[w].c : w \in {v \in Workers : job[v] # None}}

(* A copy that names a knowledge entry. *)
Claims(c) == c.draft.kind = "knowledge" /\ c.publication # None

(* The entry k was made for the draft of c. *)
MadeFor(k, c) ==
  /\ k \in KnowledgeIds /\ knowledge[k] # None
  /\ knowledge[k].kb = c.draft.target /\ knowledge[k].statement = c.draft.content

(* The inductive invariant behind KnowledgeRollbackIsExact: a copy names   *)
(* an entry that was made for it, copies of two candidates name two        *)
(* entries, and what a copy records as rolled back is gone.                *)
EntriesSound ==
  \A x \in Copies : Claims(x) =>
    /\ MadeFor(x.publication.resource, x)
    /\ \A y \in Copies : Claims(y) /\ y.id # x.id
         => y.publication.resource # x.publication.resource
    /\ x.state = "rolled_back" => x.publication.resource \notin Live

-----------------------------------------------------------------------------
LEMMA CopiesTyped ==
  ASSUME InductiveInvariant, NEW x \in Copies
  PROVE  x \in Candidate
BY StoredTyped, JobsTyped DEF Copies, Exists, InductiveInvariant

(* An entry keeps its knowledge base and statement for good, its           *)
(* identifier is not used again, and it never comes back.                  *)
EntriesKept ==
  \A k \in KnowledgeIds : knowledge[k] # None =>
    /\ knowledge'[k] # None
    /\ knowledge'[k].kb = knowledge[k].kb /\ knowledge'[k].statement = knowledge[k].statement
    /\ k \notin Live => k \notin Live'

LEMMA NewEntryKeeps ==
  ASSUME TypeOK, NEW k \in KnowledgeIds, NEW kb, NEW t, NewEntry(k, kb, t)
  PROVE  /\ EntriesKept
         /\ knowledge[k] = None
         /\ knowledge'[k] = [kb |-> kb, statement |-> t, live |-> TRUE]
         /\ \A o \in KnowledgeIds : o # k => knowledge'[o] = knowledge[o]
BY DEF TypeOK, KnowledgeType, NewEntry, EntriesKept, Live

LEMMA RemovalKeeps ==
  ASSUME TypeOK, NEW k \in Live, knowledge' = [knowledge EXCEPT ![k].live = FALSE]
  PROVE  EntriesKept /\ Live' = Live \ {k}
<1>1. k \in KnowledgeIds /\ knowledge[k] \in Entry
  BY DEF TypeOK, KnowledgeType, Live
<1> DEFINE e == [knowledge[k] EXCEPT !.live = FALSE]
<1>2. /\ e \in Entry /\ e # None /\ ~e.live
      /\ e.kb = knowledge[k].kb /\ e.statement = knowledge[k].statement
  BY <1>1, EntrySentinelAssumption DEF Entry
<1>3. knowledge' = [knowledge EXCEPT ![k] = e]
  OBVIOUS
<1> HIDE DEF e
<1>4. knowledge'[k] = e /\ \A o \in KnowledgeIds : o # k => knowledge'[o] = knowledge[o]
  BY <1>1, <1>3 DEF TypeOK, KnowledgeType
<1>5. Live' = Live \ {k}
  BY <1>2, <1>4 DEF Live
<1>6. QED
  BY <1>2, <1>4, <1>5 DEF EntriesKept

LEMMA StillKeeps ==
  ASSUME UNCHANGED knowledge
  PROVE  EntriesKept
BY DEF EntriesKept, Live

LEMMA StepKeepsEntries ==
  ASSUME TypeOK, [Next]_vars
  PROVE  EntriesKept
<1>1. CASE UNCHANGED knowledge
  BY <1>1, StillKeeps
<1>2. CASE \E k \in KnowledgeIds : \E kb, t : NewEntry(k, kb, t)
  BY <1>2, NewEntryKeeps
<1>3. CASE \E k \in Live : knowledge' = [knowledge EXCEPT ![k].live = FALSE]
  BY <1>3, RemovalKeeps
<1>4. \/ UNCHANGED knowledge
      \/ \E k \in KnowledgeIds : \E kb, t : NewEntry(k, kb, t)
      \/ \E k \in Live : knowledge' = [knowledge EXCEPT ![k].live = FALSE]
  <2>1. CASE \E w \in Workers : Begin(w)
    BY <2>1 DEF Begin, Create, Recheck, BeginReview, BeginPublish, BeginRollback, RemoteUnchanged
  <2>2. CASE \E w \in Workers : Proceed(w)
    <3>1. PICK w \in Workers : Proceed(w)
      BY <2>2
    <3>2. CASE PublishKnowledge(w)
      BY <3>2 DEF PublishKnowledge, KnowledgePublish
    <3>3. CASE RollbackKnowledge(w)
      BY <3>3 DEF RollbackKnowledge, KnowledgeRollback
    <3>4. CASE LostCallLands(w)
      BY <3>4 DEF LostCallLands, KnowledgePublish, KnowledgeRollback
    <3>5. QED
      BY <3>1, <3>2, <3>3, <3>4
      DEF Proceed, Inspect, PreInspect, PublishSkill, RollbackSkill, Refused, Update,
          LostCallVanishes, RemoteUnchanged
  <2>3. CASE \E w \in Workers : Fail(w)
    BY <2>3 DEF Fail, LoseCall, WriteFails, RemoteUnchanged
  <2>4. CASE Crash
    BY <2>4 DEF Crash, RemoteUnchanged
  <2>5. CASE Edit
    BY <2>5 DEF Edit, KnowledgeEdit
  <2>6. CASE UNCHANGED vars
    BY <2>6 DEF vars
  <2>7. QED
    BY <2>1, <2>2, <2>3, <2>4, <2>5, <2>6 DEF Next
<1>5. QED
  BY <1>1, <1>2, <1>3, <1>4

-----------------------------------------------------------------------------
(* x is a version of y that names the same entry. *)
Follows(x, y) == x.id = y.id /\ x.draft = y.draft /\ x.publication = y.publication

(* The copies of the next state that name an entry were there before, at   *)
(* most in another state or version, and nothing is recorded as rolled     *)
(* back before it is gone.                                                 *)
LEMMA FollowedCopies ==
  ASSUME EntriesSound, EntriesKept,
         \A x \in Copies' : Claims(x) =>
           \E y \in Copies :
             /\ Follows(x, y)
             /\ x.state = "rolled_back"
                  => y.state = "rolled_back" \/ x.publication.resource \notin Live'
  PROVE  EntriesSound'
<1> SUFFICES ASSUME NEW x \in Copies', Claims(x)
             PROVE  /\ MadeFor(x.publication.resource, x)'
                    /\ \A z \in Copies' : Claims(z) /\ z.id # x.id
                         => z.publication.resource # x.publication.resource
                    /\ x.state = "rolled_back" => x.publication.resource \notin Live'
  BY DEF EntriesSound
<1>1. PICK y \in Copies :
        /\ Follows(x, y)
        /\ x.state = "rolled_back"
             => y.state = "rolled_back" \/ x.publication.resource \notin Live'
  OBVIOUS
<1>2. Claims(y)
  BY <1>1 DEF Follows, Claims
<1>3. MadeFor(y.publication.resource, y) /\ (y.state = "rolled_back" => y.publication.resource \notin Live)
  BY <1>2 DEF EntriesSound
<1>4. MadeFor(x.publication.resource, x)'
  BY <1>1, <1>3 DEF MadeFor, Follows, EntriesKept
<1>5. x.state = "rolled_back" => x.publication.resource \notin Live'
  BY <1>1, <1>3 DEF MadeFor, Follows, EntriesKept
<1>6. ASSUME NEW z \in Copies', Claims(z), z.id # x.id
      PROVE  z.publication.resource # x.publication.resource
  <2>1. PICK u \in Copies : Follows(z, u)
    BY <1>6
  <2>2. Claims(u) /\ u.id # y.id
    BY <1>1, <1>6, <2>1 DEF Follows, Claims
  <2>3. u.publication.resource # y.publication.resource
    BY <1>2, <2>2 DEF EntriesSound
  <2>4. QED
    BY <1>1, <2>1, <2>3 DEF Follows
<1>7. QED
  BY <1>4, <1>5, <1>6

LEMMA ContinueCopies ==
  ASSUME TypeOK, UNCHANGED store, NEW w \in Workers, NEW pc, NEW c, Continue(w, pc, c)
  PROVE  \A x \in Copies' : x \in Copies \/ x = c
<1> SUFFICES ASSUME NEW x \in Copies' PROVE x \in Copies \/ x = c
  OBVIOUS
<1>1. CASE \E id \in CandidateIds : Exists(id) /\ x = store[id]
  BY <1>1 DEF Copies
<1>2. CASE \E v \in Workers : job'[v] # None /\ x = job'[v].c
  <2>1. PICK v \in Workers : job'[v] # None /\ x = job'[v].c
    BY <1>2
  <2>2. job'[v] = IF v = w THEN [pc |-> pc, c |-> c] ELSE job[v]
    BY DEF Continue, TypeOK
  <2>3. QED
    BY <2>1, <2>2 DEF Copies
<1>3. QED
  BY <1>1, <1>2 DEF Copies, Exists

LEMMA FinishCopies ==
  ASSUME TypeOK, UNCHANGED store, NEW w \in Workers, Finish(w)
  PROVE  \A x \in Copies' : x \in Copies
<1> SUFFICES ASSUME NEW x \in Copies' PROVE x \in Copies
  OBVIOUS
<1>1. CASE \E id \in CandidateIds : Exists(id) /\ x = store[id]
  BY <1>1 DEF Copies
<1>2. CASE \E v \in Workers : job'[v] # None /\ x = job'[v].c
  <2>1. PICK v \in Workers : job'[v] # None /\ x = job'[v].c
    BY <1>2
  <2>2. job'[v] = IF v = w THEN None ELSE job[v]
    BY DEF Finish, TypeOK
  <2>3. QED
    BY <2>1, <2>2 DEF Copies
<1>3. QED
  BY <1>1, <1>2 DEF Copies, Exists

(* A request goes on with a copy that names what its last one named. *)
LEMMA ContinueEntries ==
  ASSUME InductiveInvariant, EntriesSound, EntriesKept, UNCHANGED store,
         NEW w \in Workers, NEW pc, NEW c, Continue(w, pc, c),
         Claims(c) => \E y \in Copies :
           /\ Follows(c, y)
           /\ c.state = "rolled_back"
                => y.state = "rolled_back" \/ c.publication.resource \notin Live'
  PROVE  EntriesSound'
<1>1. \A x \in Copies' : x \in Copies \/ x = c
  BY ContinueCopies DEF InductiveInvariant
<1>2. \A x : Follows(x, x)
  BY DEF Follows
<1>3. QED
  BY <1>1, <1>2, FollowedCopies

LEMMA FinishEntries ==
  ASSUME InductiveInvariant, EntriesSound, EntriesKept, UNCHANGED store,
         NEW w \in Workers, Finish(w)
  PROVE  EntriesSound'
<1>1. \A x \in Copies' : x \in Copies
  BY FinishCopies DEF InductiveInvariant
<1>2. \A x : Follows(x, x)
  BY DEF Follows
<1>3. QED
  BY <1>1, <1>2, FollowedCopies

-----------------------------------------------------------------------------
(* The invariant across the steps of the service. *)
LEMMA CreateEntries ==
  ASSUME InductiveInvariant, EntriesSound, EntriesKept, NEW w \in Workers, NEW p \in Principals,
         NEW id \in CandidateIds, NEW d \in Drafts, NEW scope \in Scopes,
         Create(w, p, id, d, scope)
  PROVE  EntriesSound'
<1> DEFINE c == NewCandidate(p, id, d, scope)
<1>1. c.id = id /\ c.publication = None
  BY DEF NewCandidate
<1>2. /\ store' = [store EXCEPT ![id] = c]
      /\ job' = [job EXCEPT ![w] = [pc |-> "inspect", c |-> c]]
  BY <1>1 DEF Create, StoreCreate, Continue
<1> HIDE DEF c
<1>3. ASSUME NEW x \in Copies' PROVE x \in Copies \/ x = c
  <2>1. CASE \E i \in CandidateIds : store'[i] # None /\ x = store'[i]
    BY <1>2, <2>1 DEF Copies, Exists, InductiveInvariant, TypeOK, StoreType
  <2>2. CASE \E v \in Workers : job'[v] # None /\ x = job'[v].c
    BY <1>2, <2>2 DEF Copies, InductiveInvariant, TypeOK
  <2>3. QED
    BY <2>1, <2>2 DEF Copies, Exists
<1>4. \A x : Follows(x, x)
  BY DEF Follows
<1>5. \A x \in Copies' : Claims(x) => x \in Copies
  BY <1>1, <1>3 DEF Claims
<1>6. QED
  BY <1>4, <1>5, FollowedCopies

LEMMA BeginEntries ==
  ASSUME InductiveInvariant, EntriesSound, EntriesKept, NEW w \in Workers,
         NEW p \in Principals, NEW id \in CandidateIds,
         \/ Recheck(w, p, id)
         \/ \E in \in ReviewInputs : BeginReview(w, p, id, in)
         \/ BeginPublish(w, p, id)
         \/ BeginRollback(w, p, id)
  PROVE  EntriesSound'
<1>1. store[id] # None /\ UNCHANGED store
  BY DEF Recheck, BeginReview, BeginPublish, BeginRollback, Opens
<1>2. store[id] \in Copies /\ store[id] \in Candidate
  BY <1>1, StoredTyped DEF Copies, Exists, InductiveInvariant
<1>3. PICK pc, c :
        /\ Continue(w, pc, c) /\ Follows(c, store[id])
        /\ c.state = "rolled_back" => store[id].state = "rolled_back"
  <2>1. CASE Recheck(w, p, id) \/ BeginPublish(w, p, id) \/ BeginRollback(w, p, id)
    <3>1. PICK pc : Continue(w, pc, store[id])
      BY <2>1 DEF Recheck, BeginPublish, BeginRollback
    <3>2. Follows(store[id], store[id])
      BY DEF Follows
    <3>3. QED
      BY <3>1, <3>2
  <2>2. CASE \E in \in ReviewInputs : BeginReview(w, p, id, in)
    <3>1. PICK in \in ReviewInputs : BeginReview(w, p, id, in)
      BY <2>2
    <3>2. in.decision # "rolled_back"
      BY InputsAssumption DEF ReviewInput
    <3>3. /\ Follows(Reviewed(store[id], in), store[id])
          /\ Reviewed(store[id], in).state = in.decision
      BY <1>2 DEF Reviewed, Follows, Candidate
    <3>4. QED
      BY <3>1, <3>2, <3>3 DEF BeginReview
  <2>3. QED
    BY <2>1, <2>2
<1>4. QED
  BY <1>1, <1>2, <1>3, ContinueEntries

(* The entry that a publication creates is new, so that no other copy can  *)
(* name it.                                                                *)
LEMMA PublishKnowledgeEntries ==
  ASSUME InductiveInvariant, EntriesSound, EntriesKept, NEW w \in Workers, PublishKnowledge(w)
  PROVE  EntriesSound'
<1>0. PICK c : c = job[w].c
  OBVIOUS
<1>1. PICK k \in KnowledgeIds :
        /\ job[w] # None /\ NewEntry(k, c.draft.target, c.draft.content)
        /\ Continue(w, "update", Published(c, KnowledgePublication(k)))
        /\ UNCHANGED store
  BY <1>0 DEF PublishKnowledge, KnowledgePublish, At
<1> DEFINE new == Published(c, KnowledgePublication(k))
<1>2. c \in Copies /\ c \in Candidate
  BY <1>0, <1>1, JobsTyped DEF Copies, InductiveInvariant
<1>3. /\ new.id = c.id /\ new.draft = c.draft /\ new.state = "published"
      /\ new.publication.resource = k
  BY <1>2 DEF Published, KnowledgePublication, Candidate
<1>4. \A x \in Copies' : x \in Copies \/ x = new
  BY <1>1, ContinueCopies DEF InductiveInvariant
<1>5. /\ knowledge[k] = None
      /\ knowledge'[k] = [kb |-> c.draft.target, statement |-> c.draft.content, live |-> TRUE]
  BY <1>1, NewEntryKeeps DEF InductiveInvariant
<1>6. knowledge'[k] # None
  <2>1. c.draft.kind = "knowledge" /\ c.draft \in Drafts
    BY <1>0, <1>2 DEF PublishKnowledge, Candidate
  <2>2. c.draft.target \in KnowledgeBases /\ c.draft.content \in Contents
    BY <2>1, InputsAssumption DEF Draft
  <2>3. knowledge'[k] \in Entry
    BY <1>5, <2>2 DEF Entry
  <2>4. QED
    BY <2>3, EntrySentinelAssumption
<1> HIDE DEF new
<1>7. MadeFor(k, new)'
  BY <1>3, <1>5, <1>6 DEF MadeFor
<1>8. ASSUME NEW y \in Copies, Claims(y) PROVE y.publication.resource # k
  BY <1>5, <1>8 DEF EntriesSound, MadeFor
<1> SUFFICES ASSUME NEW x \in Copies', Claims(x)
             PROVE  /\ MadeFor(x.publication.resource, x)'
                    /\ \A z \in Copies' : Claims(z) /\ z.id # x.id
                         => z.publication.resource # x.publication.resource
                    /\ x.state = "rolled_back" => x.publication.resource \notin Live'
  BY DEF EntriesSound
<1>9. CASE x = new
  BY <1>3, <1>4, <1>7, <1>8, <1>9
<1>10. CASE x # new
  <2>1. x \in Copies
    BY <1>4, <1>10
  <2>2. /\ MadeFor(x.publication.resource, x)
        /\ x.state = "rolled_back" => x.publication.resource \notin Live
    BY <2>1 DEF EntriesSound
  <2>3. MadeFor(x.publication.resource, x)'
    BY <2>2 DEF MadeFor, EntriesKept
  <2>4. x.state = "rolled_back" => x.publication.resource \notin Live'
    BY <2>2 DEF MadeFor, EntriesKept
  <2>5. ASSUME NEW z \in Copies', Claims(z), z.id # x.id
        PROVE  z.publication.resource # x.publication.resource
    <3>1. CASE z = new
      BY <1>3, <1>8, <2>1, <3>1
    <3>2. CASE z # new
      BY <1>4, <2>1, <2>5, <3>2 DEF EntriesSound
    <3>3. QED
      BY <3>1, <3>2
  <2>6. QED
    BY <2>3, <2>4, <2>5
<1>11. QED
  BY <1>9, <1>10

(* The entry is gone when the request goes on to record it as rolled back. *)
LEMMA RollbackKnowledgeEntries ==
  ASSUME InductiveInvariant, EntriesSound, EntriesKept, NEW w \in Workers, RollbackKnowledge(w)
  PROVE  EntriesSound'
<1> DEFINE c == job[w].c
<1>1. /\ job[w] # None /\ UNCHANGED store /\ KnowledgeRollback(c)
      /\ Continue(w, "update", RolledBack(c))
  BY DEF RollbackKnowledge, At
<1>2. c \in Copies /\ c \in Candidate
  BY <1>1, JobsTyped DEF Copies, InductiveInvariant
<1>3. Follows(RolledBack(c), c)
  BY <1>2 DEF RolledBack, Follows, Candidate
<1>4. c.publication.resource \notin Live'
  BY <1>1, RemovalKeeps DEF KnowledgeRollback, InductiveInvariant
<1> HIDE DEF c
<1>5. QED
  BY <1>1, <1>2, <1>3, <1>4, ContinueEntries DEF Follows

LEMMA ProceedEntries ==
  ASSUME InductiveInvariant, EntriesSound, EntriesKept, NEW w \in Workers,
         \/ Inspect(w) \/ PreInspect(w) \/ PublishSkill(w) \/ RollbackSkill(w)
  PROVE  EntriesSound'
<1> DEFINE c == job[w].c
<1>1. job[w] # None /\ UNCHANGED store
  BY DEF Inspect, PreInspect, PublishSkill, RollbackSkill, At
<1>2. c \in Copies /\ c \in Candidate
  BY <1>1, JobsTyped DEF Copies, InductiveInvariant
<1>3. CASE Inspect(w)
  <2>1. PICK i : Continue(w, "update", Inspected(c, i))
    BY <1>3 DEF Inspect
  <2>2. Follows(Inspected(c, i), c) /\ Inspected(c, i).state # "rolled_back"
    BY <1>2 DEF Inspected, Follows, Candidate
  <2> HIDE DEF c
  <2>3. QED
    BY <1>1, <1>2, <2>1, <2>2, ContinueEntries
<1>4. CASE PreInspect(w)
  <2>1. CASE Finish(w)
    BY <1>1, <2>1, FinishEntries
  <2>2. CASE \E i : Continue(w, "publish", [c EXCEPT !.inspection = i])
    <3>1. PICK i : Continue(w, "publish", [c EXCEPT !.inspection = i])
      BY <2>2
    <3> DEFINE next == [c EXCEPT !.inspection = i]
    <3>2. Follows(next, c) /\ next.state = c.state
      BY <1>2 DEF Follows, Candidate
    <3> HIDE DEF c, next
    <3>3. QED
      BY <1>1, <1>2, <3>1, <3>2, ContinueEntries DEF next
  <2>3. QED
    BY <1>4, <2>1, <2>2 DEF PreInspect
<1>5. CASE PublishSkill(w)
  <2>1. /\ Continue(w, "update", Published(c, SkillPublication(c)))
        /\ c.draft.kind = "skill"
    BY <1>5 DEF PublishSkill
  <2>2. ~Claims(Published(c, SkillPublication(c)))
    BY <1>2, <2>1 DEF Claims, Published, Candidate
  <2> HIDE DEF c
  <2>3. QED
    BY <1>1, <2>1, <2>2, ContinueEntries
<1>6. CASE RollbackSkill(w)
  <2>1. Continue(w, "update", RolledBack(c)) /\ c.draft.kind = "skill"
    BY <1>6 DEF RollbackSkill
  <2>2. ~Claims(RolledBack(c))
    BY <1>2, <2>1 DEF Claims, RolledBack, Candidate
  <2> HIDE DEF c
  <2>3. QED
    BY <1>1, <2>1, <2>2, ContinueEntries
<1>7. QED
  BY <1>3, <1>4, <1>5, <1>6

LEMMA UpdateEntries ==
  ASSUME InductiveInvariant, EntriesSound, EntriesKept, NEW w \in Workers, Update(w)
  PROVE  EntriesSound'
<1> DEFINE c == job[w].c
           new == [c EXCEPT !.version = @ + 1]
<1>1. job[w] # None /\ Finish(w)
  BY DEF Update, At
<1>2. c \in Copies /\ c \in Candidate
  BY <1>1, JobsTyped DEF Copies, InductiveInvariant
<1>3. CASE UNCHANGED store
  BY <1>1, <1>3, FinishEntries
<1>4. CASE StoreUpdate(c)
  <2>1. store' = [store EXCEPT ![c.id] = new]
    BY <1>4 DEF StoreUpdate
  <2>2. Follows(new, c) /\ new.state = c.state
    BY <1>2 DEF Follows, Candidate
  <2> HIDE DEF c, new
  <2>3. ASSUME NEW x \in Copies' PROVE x \in Copies \/ x = new
    <3>1. CASE \E i \in CandidateIds : store'[i] # None /\ x = store'[i]
      BY <2>1, <3>1 DEF Copies, Exists, InductiveInvariant, TypeOK, StoreType
    <3>2. CASE \E v \in Workers : job'[v] # None /\ x = job'[v].c
      BY <1>1, <3>2 DEF Copies, Finish, InductiveInvariant, TypeOK
    <3>3. QED
      BY <3>1, <3>2 DEF Copies, Exists
  <2>4. \A x : Follows(x, x)
    BY DEF Follows
  <2>5. QED
    BY <1>2, <2>2, <2>3, <2>4, FollowedCopies
<1>5. QED
  BY <1>3, <1>4 DEF Update

LEMMA FaultsEntries ==
  ASSUME InductiveInvariant, EntriesSound, EntriesKept, NEW w \in Workers,
         \/ Refused(w) \/ LoseCall(w) \/ LostCallLands(w)
         \/ LostCallVanishes(w) \/ WriteFails(w)
  PROVE  EntriesSound'
<1>1. UNCHANGED store
  BY DEF Refused, LoseCall, LostCallLands, LostCallVanishes, WriteFails
<1>2. CASE Refused(w) \/ LostCallLands(w) \/ LostCallVanishes(w) \/ WriteFails(w)
  BY <1>1, <1>2, FinishEntries DEF Refused, LostCallLands, LostCallVanishes, WriteFails
<1>3. CASE LoseCall(w)
  <2>1. job[w] # None /\ Continue(w, LostPc(job[w].pc), job[w].c)
    BY <1>3 DEF LoseCall, At
  <2>2. job[w].c \in Copies /\ Follows(job[w].c, job[w].c)
    BY <2>1 DEF Copies, Follows
  <2>3. QED
    BY <1>1, <2>1, <2>2, ContinueEntries
<1>4. QED
  BY <1>2, <1>3

LEMMA CrashEntries ==
  ASSUME InductiveInvariant, EntriesSound, EntriesKept, Crash \/ Edit \/ UNCHANGED vars
  PROVE  EntriesSound'
<1>1. UNCHANGED store
  BY DEF Crash, Edit, vars
<1>2. ASSUME NEW v \in Workers, job'[v] # None
      PROVE  job[v] # None /\ job'[v].c = job[v].c
  <2>1. CASE Crash
    <3>1. job[v] # None /\ job'[v] = [job[v] EXCEPT !.pc = LostPc(@)]
      BY <1>2, <2>1 DEF Crash
    <3>2. job[v] \in Job
      BY <3>1, JobsTyped DEF InductiveInvariant
    <3>3. QED
      BY <3>1, <3>2 DEF Job
  <2>2. QED
    BY <1>2, <2>1 DEF Edit, vars
<1>3. \A x \in Copies' : x \in Copies
  BY <1>1, <1>2 DEF Copies, Exists
<1>4. \A x : Follows(x, x)
  BY DEF Follows
<1>5. QED
  BY <1>3, <1>4, FollowedCopies

LEMMA EntriesStep == InductiveInvariant /\ EntriesSound /\ [Next]_vars => EntriesSound'
<1> SUFFICES ASSUME InductiveInvariant, EntriesSound, [Next]_vars PROVE EntriesSound'
  OBVIOUS
<1>1. EntriesKept
  BY StepKeepsEntries DEF InductiveInvariant
<1>2. CASE \E w \in Workers : Begin(w)
  <2>1. PICK w \in Workers, p \in Principals, id \in CandidateIds :
          \/ \E d \in Drafts, scope \in Scopes : Create(w, p, id, d, scope)
          \/ Recheck(w, p, id)
          \/ \E in \in ReviewInputs : BeginReview(w, p, id, in)
          \/ BeginPublish(w, p, id)
          \/ BeginRollback(w, p, id)
    BY <1>2 DEF Begin
  <2>2. QED
    BY <1>1, <2>1, CreateEntries, BeginEntries
<1>3. CASE \E w \in Workers : Proceed(w) \/ Fail(w)
  BY <1>1, <1>3, ProceedEntries, PublishKnowledgeEntries, RollbackKnowledgeEntries,
     UpdateEntries, FaultsEntries DEF Proceed, Fail
<1>4. CASE Crash \/ Edit \/ UNCHANGED vars
  BY <1>1, <1>4, CrashEntries
<1>5. QED
  BY <1>2, <1>3, <1>4 DEF Next

(* The entry of a rolled back candidate is gone for good, and no two       *)
(* candidates claim one entry, however requests interleave and whichever   *)
(* of them fail (WeKnoraBackend.Publish, Rollback).                        *)
THEOREM RollbackIsExact == Spec => []KnowledgeRollbackIsExact
<1>1. Init => EntriesSound
  BY DEF Init, StoreInit, EntriesSound, Copies, Exists
<1>2. InductiveInvariant /\ EntriesSound => KnowledgeRollbackIsExact
  <2> SUFFICES ASSUME InductiveInvariant, EntriesSound, NEW a \in CandidateIds, NEW b \in CandidateIds,
                      Exists(a), Claims(store[a])
               PROVE  /\ store[a].state = "rolled_back" => store[a].publication.resource \notin Live
                      /\ a # b /\ Exists(b) /\ Claims(store[b])
                           => store[b].publication.resource # store[a].publication.resource
    BY DEF KnowledgeRollbackIsExact, Claims
  <2>1. store[a] \in Copies /\ store[a].id = a
    BY DEF Copies, InductiveInvariant, StoreSound
  <2>2. ASSUME a # b, Exists(b), Claims(store[b])
        PROVE  store[b].publication.resource # store[a].publication.resource
    <3>1. store[b] \in Copies /\ store[b].id = b
      BY <2>2 DEF Copies, InductiveInvariant, StoreSound
    <3>2. QED
      BY <2>1, <2>2, <3>1 DEF EntriesSound
  <2>3. QED
    BY <2>1, <2>2 DEF EntriesSound
<1>3. QED
  BY <1>1, <1>2, EntriesStep, InvariantHolds, PTL DEF Spec

-----------------------------------------------------------------------------
(* Requests that come one at a time, calls that do not fail and no other   *)
(* client: what RecordsMatchServers and RollbackUndoesPromotion take.      *)
OneAtATime == ~Faults /\ ~Edits /\ \A v, w \in Workers : v = w

(* The request at hand works on the stored version. *)
NobodyOvertakes ==
  \A w \in Workers : job[w] # None =>
    /\ job[w].c.version = store[job[w].c.id].version
    /\ job[w].pc \notin {"lost publish", "lost rollback"}

(* The snapshot of a published skill is the one its inspection took. *)
SnapshotKept(c) ==
  c.draft.kind = "skill" /\ c.state \in {"published", "rolled_back"}
    => c.publication = SkillPublication(c)

SnapshotsKept == \A id \in CandidateIds : Exists(id) => SnapshotKept(store[id])

(* An entry was made for a candidate. *)
EntriesHaveCandidates ==
  \A k \in KnowledgeIds : knowledge[k] # None =>
    \E id \in CandidateIds : Exists(id) /\ store[id].draft.target = knowledge[k].kb

(* The servers hold for c what its record says. *)
Matches(c) ==
  /\ c.draft.kind = "skill" =>
       /\ c.state = "published" => skills[c.draft.target] = c.draft.content
       /\ c.state = "rolled_back" => skills[c.draft.target] = c.inspection.current
  /\ c.draft.kind = "knowledge" =>
       EntriesOf(c) = IF c.state = "published" THEN {c.publication.resource} ELSE {}

Updating(id) == \E w \in Workers : At(w, "update") /\ job[w].c.id = id

(* Between the backend call and the update the copy of the request agrees  *)
(* with the servers, at any other time the stored candidate does.          *)
StoredMatch ==
  \A id \in CandidateIds : Exists(id) /\ Alone(id) /\ ~Updating(id) => Matches(store[id])

UpdateMatches ==
  \A w \in Workers : At(w, "update") /\ Alone(job[w].c.id) => Matches(job[w].c)

(* The inductive invariant behind the two properties. *)
ServersSound ==
  /\ NobodyOvertakes
  /\ SnapshotsKept
  /\ EntriesHaveCandidates
  /\ StoredMatch
  /\ UpdateMatches

-----------------------------------------------------------------------------
(* What the request at hand works on.                                      *)
LEMMA AtHand ==
  ASSUME InductiveInvariant, NobodyOvertakes, NEW w \in Workers, job[w] # None
  PROVE  /\ job[w].c \in Candidate /\ job[w].c.id \in CandidateIds
         /\ Exists(job[w].c.id)
         /\ store[job[w].c.id] \in Candidate /\ store[job[w].c.id].id = job[w].c.id
         /\ CandidateSound(store[job[w].c.id])
         /\ job[w].c.version = store[job[w].c.id].version
         /\ Descends(job[w].pc, job[w].c, store[job[w].c.id])
<1>1. job[w].c \in Candidate /\ JobSound(job[w])
  BY JobsTyped DEF InductiveInvariant, JobsSound
<1>2. job[w].c.id \in CandidateIds
  BY <1>1 DEF Candidate
<1>3. Exists(job[w].c.id) /\ job[w].c.version = store[job[w].c.id].version
  BY <1>1 DEF NobodyOvertakes, JobSound, Exists
<1>4. Descends(job[w].pc, job[w].c, store[job[w].c.id])
  BY <1>1, <1>3 DEF JobSound
<1>5. /\ store[job[w].c.id] \in Candidate /\ store[job[w].c.id].id = job[w].c.id
      /\ CandidateSound(store[job[w].c.id])
  BY <1>2, <1>3, StoredTyped DEF InductiveInvariant, StoreSound, Exists
<1>6. QED
  BY <1>1, <1>2, <1>3, <1>4, <1>5

(* What a request writes keeps the draft; it keeps the snapshot of a skill. *)
LEMMA SuccessorKeeps ==
  ASSUME NEW s \in Candidate, NEW c \in Candidate, Successor(s, c), SnapshotKept(s)
  PROVE  c.draft = s.draft /\ SnapshotKept(c)
<1>1. CASE Recheckable(s) /\ c = Inspected(s, c.inspection)
  BY <1>1 DEF Inspected, SnapshotKept, Candidate
<1>2. CASE \E in \in ReviewInput : c = Reviewed(s, in)
  <2>1. PICK in \in ReviewInput : c = Reviewed(s, in)
    BY <1>2
  <2>2. c.draft = s.draft /\ c.state = in.decision
    BY <2>1 DEF Reviewed, Candidate
  <2>3. c.state \in {"approved", "rejected"}
    BY <2>2 DEF ReviewInput
  <2>4. QED
    BY <2>2, <2>3 DEF SnapshotKept
<1>3. CASE /\ s.draft.kind = "skill" => c.publication = SkillPublication(c)
           /\ c = Published([s EXCEPT !.inspection = c.inspection], c.publication)
  <2>1. c.draft = s.draft
    BY <1>3 DEF Published, Candidate
  <2>2. QED
    BY <1>3, <2>1 DEF SnapshotKept
<1>4. CASE s.state = "published" /\ c = RolledBack(s)
  BY <1>4 DEF RolledBack, SnapshotKept, SkillPublication, Candidate
<1>5. QED
  BY <1>1, <1>2, <1>3, <1>4 DEF Successor

(* Whether a candidate agrees with the servers depends on its target only, *)
(* and a candidate that is neither published nor rolled back makes no      *)
(* other claim than that nothing is there.                                 *)
LEMMA SameServersMatch ==
  ASSUME NEW c, RemoteUnchanged
  PROVE  Matches(c) <=> Matches(c)'
BY DEF Matches, RemoteUnchanged, EntriesOf, Live

LEMMA OpenMatch ==
  ASSUME NEW s, NEW c, Matches(s), c.draft = s.draft,
         s.state # "published", c.state \notin {"published", "rolled_back"}
  PROVE  Matches(c)
BY DEF Matches, EntriesOf

(* The step of a request that leaves the store and the servers alone and   *)
(* neither begins nor ends an update.                                      *)
LEMMA QuietStep ==
  ASSUME InductiveInvariant, ServersSound, OneAtATime, NEW w \in Workers,
         UNCHANGED store, RemoteUnchanged, ~At(w, "update"), ~At(w, "update")',
         job'[w] # None =>
           /\ job'[w].c.version = store[job'[w].c.id].version
           /\ job'[w].pc \notin {"lost publish", "lost rollback"}
  PROVE  ServersSound'
<1>1. \A v \in Workers : v = w
  BY DEF OneAtATime
<1>2. NobodyOvertakes'
  BY <1>1 DEF NobodyOvertakes
<1>3. SnapshotsKept'
  BY DEF ServersSound, SnapshotsKept, Exists
<1>4. EntriesHaveCandidates'
  BY DEF ServersSound, EntriesHaveCandidates, Exists, RemoteUnchanged
<1>5. UpdateMatches'
  BY <1>1 DEF UpdateMatches
<1>6. ASSUME NEW id \in CandidateIds, Exists(id)', Alone(id)'
      PROVE  Matches(store[id])'
  <2>1. Exists(id) /\ Alone(id) /\ ~Updating(id)
    BY <1>1, <1>6 DEF Exists, Alone, Updating
  <2>2. PICK s : s = store[id]
    OBVIOUS
  <2>3. Matches(s)
    BY <2>1, <2>2 DEF ServersSound, StoredMatch
  <2>4. Matches(s)' /\ s = store'[id]
    BY <2>2, <2>3, SameServersMatch
  <2>5. QED
    BY <2>4 DEF Matches, EntriesOf
<1>7. QED
  BY <1>2, <1>3, <1>4, <1>5, <1>6 DEF ServersSound, StoredMatch

(* The step of a request that goes on to update its candidate with c.      *)
LEMMA StepToUpdate ==
  ASSUME InductiveInvariant, ServersSound, OneAtATime, NEW w \in Workers, NEW c \in Candidate,
         UNCHANGED store, ~At(w, "update"), Continue(w, "update", c), Exists(c.id),
         c.version = store[c.id].version, c.draft = store[c.id].draft,
         EntriesHaveCandidates',
         \A x \in Candidate : x.draft.target # c.draft.target /\ Matches(x) => Matches(x)',
         Alone(c.id) /\ Matches(store[c.id]) => Matches(c)'
  PROVE  ServersSound'
<1>1. \A v \in Workers : v = w
  BY DEF OneAtATime
<1>2. job'[w].pc = "update" /\ job'[w].c = c /\ job'[w] # None
  <2>1. job'[w] = [pc |-> "update", c |-> c]
    BY DEF Continue, InductiveInvariant, TypeOK
  <2>2. job'[w] \in Job
    BY <2>1 DEF Job, Pcs
  <2>3. QED
    BY <2>1, <2>2, JobSentinelAssumption
<1>3. NobodyOvertakes'
  BY <1>1, <1>2 DEF NobodyOvertakes
<1>4. SnapshotsKept'
  BY DEF ServersSound, SnapshotsKept, Exists
<1>5. \A id \in CandidateIds : Exists(id) /\ Alone(id) => Matches(store[id])
  BY <1>1 DEF ServersSound, StoredMatch, Updating
<1>6. c.id \in CandidateIds
  BY DEF Candidate
<1>7. UpdateMatches'
  <2>1. Alone(c.id)' => Matches(c)'
    BY <1>5, <1>6 DEF Alone, Exists
  <2>2. QED
    BY <1>1, <1>2, <2>1 DEF UpdateMatches, At, Alone, Exists, Matches, EntriesOf
<1>8. ASSUME NEW id \in CandidateIds, Exists(id)', Alone(id)', ~Updating(id)'
      PROVE  Matches(store[id])'
  <2>1. Exists(id) /\ Alone(id)
    BY <1>8 DEF Exists, Alone
  <2>2. id # c.id
    BY <1>1, <1>2, <1>8 DEF Updating, At
  <2>3. PICK s : s = store[id]
    OBVIOUS
  <2>4. s \in Candidate /\ s.draft.target # c.draft.target
    BY <1>6, <2>1, <2>2, <2>3, StoredTyped DEF Alone, Exists, InductiveInvariant
  <2>5. Matches(s)' /\ s = store'[id]
    BY <1>5, <2>1, <2>3, <2>4
  <2>6. QED
    BY <2>5 DEF Matches, EntriesOf
<1>9. QED
  BY <1>3, <1>4, <1>7, <1>8 DEF ServersSound, StoredMatch

(* A step that makes a copy which the servers need not agree with more     *)
(* than with the stored candidate.                                         *)
LEMMA ReviewServers ==
  ASSUME InductiveInvariant, ServersSound, OneAtATime, NEW w \in Workers, NEW c \in Candidate,
         UNCHANGED store, RemoteUnchanged, ~At(w, "update"), Continue(w, "update", c),
         Exists(c.id), c.version = store[c.id].version, c.draft = store[c.id].draft,
         store[c.id].state # "published", c.state \notin {"published", "rolled_back"}
  PROVE  ServersSound'
<1>1. EntriesHaveCandidates'
  BY DEF ServersSound, EntriesHaveCandidates, Exists, RemoteUnchanged
<1>2. \A x : Matches(x) => Matches(x)'
  BY SameServersMatch
<1>3. Matches(store[c.id]) => Matches(c)
  BY OpenMatch
<1>4. QED
  BY <1>1, <1>2, <1>3, StepToUpdate

LEMMA BeginServers ==
  ASSUME InductiveInvariant, ServersSound, OneAtATime, NEW w \in Workers,
         NEW p \in Principals, NEW id \in CandidateIds,
         \/ Recheck(w, p, id)
         \/ \E in \in ReviewInputs : BeginReview(w, p, id, in)
         \/ BeginPublish(w, p, id)
         \/ BeginRollback(w, p, id)
  PROVE  ServersSound'
<1>1. /\ job[w] = None /\ Exists(id) /\ UNCHANGED store /\ RemoteUnchanged
      /\ ~At(w, "update")
  BY DEF Recheck, BeginReview, BeginPublish, BeginRollback, Opens, Exists, At
<1>2. store[id] \in Candidate /\ store[id].id = id
  BY <1>1, StoredTyped DEF InductiveInvariant, StoreSound, Exists
<1>3. CASE Recheck(w, p, id) \/ BeginPublish(w, p, id) \/ BeginRollback(w, p, id)
  <2>1. PICK pc \in {"inspect", "preinspect", "rollback"} : Continue(w, pc, store[id])
    BY <1>3 DEF Recheck, BeginPublish, BeginRollback
  <2>2. /\ job'[w].pc = pc /\ job'[w].c = store[id]
        /\ store'[id].version = store[id].version
    BY <1>1, <2>1 DEF Continue, InductiveInvariant, TypeOK
  <2>3. ~At(w, "update")' /\ job'[w].pc \notin {"lost publish", "lost rollback"}
    BY <2>2 DEF At
  <2>4. job'[w].c.version = store[job'[w].c.id].version
    BY <1>2, <2>2
  <2>5. QED
    BY <1>1, <2>3, <2>4, QuietStep
<1>4. CASE \E in \in ReviewInputs : BeginReview(w, p, id, in)
  <2>1. PICK in \in ReviewInputs : BeginReview(w, p, id, in)
    BY <1>4
  <2> DEFINE c == Reviewed(store[id], in)
  <2>2. in \in ReviewInput /\ store[id].state \in {"checked", "blocked"}
        /\ Continue(w, "update", c)
    BY <2>1, InputsAssumption DEF BeginReview
  <2>3. c \in Candidate /\ c.id = id /\ c.version = store[id].version
    BY <1>2, <2>2, CopiesWellFormed
  <2>4. c.draft = store[id].draft /\ c.state = in.decision
    BY <1>2 DEF Reviewed, Candidate
  <2>5. c.state \notin {"published", "rolled_back"}
    BY <2>2, <2>4 DEF ReviewInput
  <2> HIDE DEF c
  <2>6. QED
    BY <1>1, <2>2, <2>3, <2>4, <2>5, ReviewServers
<1>5. QED
  BY <1>3, <1>4

(* A new candidate is on no server, since no entry is there for its target *)
(* when it is alone on it.                                                 *)
LEMMA CreateServers ==
  ASSUME InductiveInvariant, ServersSound, OneAtATime, NEW w \in Workers, NEW p \in Principals,
         NEW id \in CandidateIds, NEW d \in Drafts, NEW scope \in Scopes,
         Create(w, p, id, d, scope)
  PROVE  ServersSound'
<1>1. PICK c : c = NewCandidate(p, id, d, scope)
  OBVIOUS
<1>2. c.id = id /\ c.version = 1 /\ c.state = "candidate" /\ c.draft = d
  BY <1>1 DEF NewCandidate
<1>3. /\ store[id] = None /\ store' = [store EXCEPT ![id] = c]
      /\ job[w] = None /\ job' = [job EXCEPT ![w] = [pc |-> "inspect", c |-> c]]
      /\ RemoteUnchanged
  BY <1>1, <1>2 DEF Create, StoreCreate, Continue
<1>4. c # None
  <2>1. p.workspace \in Workspaces /\ p.user \in Users
    BY InputsAssumption DEF Principal
  <2>2. c \in Candidate
    BY <1>1, <2>1 DEF NewCandidate, Candidate, States
  <2>3. QED
    BY <2>2, SentinelAssumption
<1>5. /\ store'[id] = c /\ \A o \in CandidateIds : o # id => store'[o] = store[o]
      /\ job'[w].pc = "inspect" /\ job'[w].c = c
  BY <1>3 DEF InductiveInvariant, TypeOK, StoreType
<1>6. \A v \in Workers : v = w
  BY DEF OneAtATime
<1>7. NobodyOvertakes'
  BY <1>2, <1>5, <1>6 DEF NobodyOvertakes
<1>8. SnapshotsKept'
  BY <1>2, <1>5 DEF ServersSound, SnapshotsKept, SnapshotKept, Exists
<1>9. EntriesHaveCandidates'
  BY <1>3, <1>5 DEF ServersSound, EntriesHaveCandidates, Exists, RemoteUnchanged
<1>10. UpdateMatches'
  BY <1>5, <1>6 DEF UpdateMatches, At
<1>11. ASSUME NEW o \in CandidateIds, Exists(o)', Alone(o)'
       PROVE  Matches(store[o])'
  <2>1. CASE o = id
    <3>1. \A k \in KnowledgeIds : knowledge[k] # None => knowledge[k].kb # d.target
      BY <1>2, <1>3, <1>4, <1>5, <1>11, <2>1 DEF ServersSound, EntriesHaveCandidates, Alone, Exists
    <3>2. EntriesOf(c)' = {}
      BY <1>2, <1>3, <3>1 DEF EntriesOf, Live, RemoteUnchanged
    <3>3. Matches(c)'
      BY <1>2, <3>2 DEF Matches
    <3>4. QED
      BY <1>5, <2>1, <3>3 DEF Matches, EntriesOf
  <2>2. CASE o # id
    <3>1. PICK s : s = store[o]
      OBVIOUS
    <3>2. Exists(o) /\ Alone(o) /\ ~Updating(o) /\ store'[o] = s
      BY <1>3, <1>5, <1>6, <1>11, <2>2, <3>1 DEF Exists, Alone, Updating, At
    <3>3. Matches(s)
      BY <3>1, <3>2 DEF ServersSound, StoredMatch
    <3>4. Matches(s)'
      BY <1>3, <3>3, SameServersMatch
    <3>5. QED
      BY <3>2, <3>4 DEF Matches, EntriesOf
  <2>3. QED
    BY <2>1, <2>2
<1>12. QED
  BY <1>7, <1>8, <1>9, <1>10, <1>11 DEF ServersSound, StoredMatch

LEMMA InspectServers ==
  ASSUME InductiveInvariant, ServersSound, OneAtATime, NEW w \in Workers,
         Inspect(w) \/ PreInspect(w)
  PROVE  ServersSound'
<1> DEFINE c == job[w].c
           s == store[c.id]
<1>1. /\ job[w] # None /\ ~At(w, "update") /\ UNCHANGED store /\ RemoteUnchanged
      /\ NobodyOvertakes /\ TypeOK
  BY DEF Inspect, PreInspect, At, ServersSound, InductiveInvariant
<1>2. /\ c \in Candidate /\ Exists(c.id) /\ s \in Candidate
      /\ c.version = s.version /\ Descends(job[w].pc, c, s)
  BY <1>1, AtHand
<1>3. CASE Inspect(w)
  <2>1. PICK i \in Inspections(c.draft) : Continue(w, "update", Inspected(c, i))
    BY <1>3 DEF Inspect
  <2>2. i \in Inspection
    BY <1>1, <1>2, <2>1, InspectionsWellFormed DEF TypeOK, Candidate
  <2>3. c = s /\ Recheckable(s)
    BY <1>2, <1>3 DEF Inspect, At, Descends
  <2> DEFINE new == Inspected(c, i)
  <2>4. new \in Candidate /\ new.id = c.id /\ new.version = c.version
    BY <1>2, <2>2, CopiesWellFormed
  <2>5. new.draft = c.draft /\ new.state \in {"blocked", "checked"}
    BY <1>2 DEF Inspected, Candidate
  <2>6. s.state # "published"
    BY <2>3 DEF Recheckable
  <2> HIDE DEF c, new
  <2>7. QED
    BY <1>1, <1>2, <2>1, <2>3, <2>4, <2>5, <2>6, ReviewServers DEF new
<1>4. CASE PreInspect(w)
  <2>1. CASE Finish(w)
    <3>1. job'[w] = None
      BY <1>1, <2>1 DEF Finish, TypeOK
    <3>2. QED
      BY <1>1, <3>1, QuietStep DEF At
  <2>2. CASE \E i : Continue(w, "publish", [c EXCEPT !.inspection = i])
    <3>1. PICK i : Continue(w, "publish", [c EXCEPT !.inspection = i])
      BY <2>2
    <3>2. job'[w] = [pc |-> "publish", c |-> [c EXCEPT !.inspection = i]]
      BY <1>1, <3>1 DEF Continue, TypeOK
    <3>3. /\ job'[w].pc = "publish" /\ job'[w].c.version = s.version
          /\ job'[w].c.id = c.id
      BY <1>2, <3>2 DEF Candidate
    <3> HIDE DEF c
    <3>4. QED
      BY <1>1, <3>3, QuietStep DEF At
  <2>3. QED
    BY <1>4, <2>1, <2>2 DEF PreInspect
<1>5. QED
  BY <1>3, <1>4

LEMMA PublishSkillServers ==
  ASSUME InductiveInvariant, ServersSound, OneAtATime, NEW w \in Workers, PublishSkill(w)
  PROVE  ServersSound'
<1>1. PICK c, s : c = job[w].c /\ s = store[c.id]
  OBVIOUS
<1>2. /\ job[w] # None /\ job[w].pc = "publish" /\ ~At(w, "update") /\ UNCHANGED <<store, knowledge>>
      /\ NobodyOvertakes /\ TypeOK /\ c.draft.kind = "skill" /\ SkillPublish(c)
      /\ Continue(w, "update", Published(c, SkillPublication(c)))
  BY <1>1 DEF PublishSkill, At, ServersSound, InductiveInvariant
<1>3. /\ c \in Candidate /\ Exists(c.id) /\ s \in Candidate
      /\ c.version = s.version /\ Descends("publish", c, s) /\ JobSound(job[w])
  BY <1>1, <1>2, AtHand DEF InductiveInvariant, JobsSound
<1>4. c.draft = s.draft /\ c.inspection # None
  BY <1>1, <1>2, <1>3 DEF Descends, JobSound, Candidate
<1>5. PICK new : new = Published(c, SkillPublication(c))
  OBVIOUS
<1>6. SkillPublication(c) \in Publication
  BY <1>2, <1>3, <1>4, PublicationsWellFormed
<1>7. /\ new \in Candidate /\ new.id = c.id /\ new.version = c.version
  BY <1>3, <1>5, <1>6, CopiesWellFormed
<1>8. new.draft = c.draft /\ new.state = "published"
  BY <1>3, <1>5 DEF Published, Candidate
<1>9. c.draft.target \in SkillNames
  BY <1>2, <1>3, InputsAssumption DEF Candidate
<1>10. /\ skills'[c.draft.target] = c.draft.content
       /\ \A t : t # c.draft.target => skills'[t] = skills[t]
  BY <1>2, <1>9 DEF SkillPublish, TypeOK, SkillsType
<1>11. EntriesHaveCandidates'
  BY <1>2 DEF ServersSound, EntriesHaveCandidates, Exists
<1>12. ASSUME NEW x, x.draft.target # c.draft.target, Matches(x)
       PROVE  Matches(x)'
  BY <1>2, <1>10, <1>12 DEF Matches, EntriesOf, Live
<1>13. Matches(new)'
  BY <1>2, <1>8, <1>10 DEF Matches
<1>14. /\ Exists(new.id) /\ new.version = store[new.id].version
       /\ new.draft = store[new.id].draft
  BY <1>1, <1>3, <1>4, <1>7, <1>8
<1>15. Continue(w, "update", new)
  BY <1>2, <1>5
<1>16. QED
  BY <1>2, <1>7, <1>8, <1>11, <1>12, <1>13, <1>14, <1>15, StepToUpdate

LEMMA RollbackSkillServers ==
  ASSUME InductiveInvariant, ServersSound, OneAtATime, NEW w \in Workers, RollbackSkill(w)
  PROVE  ServersSound'
<1>1. PICK c, s : c = job[w].c /\ s = store[c.id]
  OBVIOUS
<1>2. /\ job[w] # None /\ job[w].pc = "rollback" /\ ~At(w, "update") /\ UNCHANGED <<store, knowledge>>
      /\ NobodyOvertakes /\ TypeOK /\ c.draft.kind = "skill" /\ SkillRollback(c)
      /\ Continue(w, "update", RolledBack(c))
  BY <1>1 DEF RollbackSkill, At, ServersSound, InductiveInvariant
<1>3. /\ c \in Candidate /\ c.id \in CandidateIds /\ Exists(c.id) /\ s \in Candidate
      /\ c.version = s.version /\ Descends("rollback", c, s)
  BY <1>1, <1>2, AtHand
<1>4. c = s /\ s.state = "published"
  BY <1>3 DEF Descends
<1>5. PICK new : new = RolledBack(c)
  OBVIOUS
<1>6. /\ new \in Candidate /\ new.id = c.id /\ new.version = c.version
  BY <1>3, <1>5, CopiesWellFormed
<1>7. new.draft = c.draft /\ new.state = "rolled_back" /\ new.inspection = c.inspection
  BY <1>3, <1>5 DEF RolledBack, Candidate
<1>8. c.draft.target \in SkillNames
  BY <1>2, <1>3, InputsAssumption DEF Candidate
<1>9. c.publication = SkillPublication(c)
  BY <1>1, <1>2, <1>3, <1>4 DEF ServersSound, SnapshotsKept, SnapshotKept
<1>10. c.publication.resource = c.draft.target /\ c.publication.previous = c.inspection.current
  BY <1>9 DEF SkillPublication
<1>11. skills' = [skills EXCEPT ![c.draft.target] = c.inspection.current]
  BY <1>2, <1>10 DEF SkillRollback
<1>12. /\ skills'[c.draft.target] = c.inspection.current
       /\ \A t : t # c.draft.target => skills'[t] = skills[t]
  BY <1>2, <1>8, <1>11 DEF TypeOK, SkillsType
<1>13. EntriesHaveCandidates'
  BY <1>2 DEF ServersSound, EntriesHaveCandidates, Exists
<1>14. ASSUME NEW x, x.draft.target # c.draft.target, Matches(x)
       PROVE  Matches(x)'
  BY <1>2, <1>12, <1>14 DEF Matches, EntriesOf, Live
<1>15. Matches(new)'
  BY <1>2, <1>7, <1>12 DEF Matches
<1>16. /\ Exists(new.id) /\ new.version = store[new.id].version
       /\ new.draft = store[new.id].draft
  BY <1>1, <1>3, <1>4, <1>6, <1>7
<1>17. Continue(w, "update", new)
  BY <1>2, <1>5
<1>18. QED
  BY <1>2, <1>6, <1>7, <1>13, <1>14, <1>15, <1>16, <1>17, StepToUpdate

LEMMA PublishKnowledgeServers ==
  ASSUME InductiveInvariant, ServersSound, OneAtATime, NEW w \in Workers, PublishKnowledge(w)
  PROVE  ServersSound'
<1>1. PICK c, s : c = job[w].c /\ s = store[c.id]
  OBVIOUS
<1>2. PICK k \in KnowledgeIds :
        /\ job[w] # None /\ job[w].pc = "publish" /\ ~At(w, "update") /\ UNCHANGED <<store, skills>>
        /\ NobodyOvertakes /\ TypeOK /\ c.draft.kind = "knowledge"
        /\ NewEntry(k, c.draft.target, c.draft.content)
        /\ Continue(w, "update", Published(c, KnowledgePublication(k)))
  BY <1>1 DEF PublishKnowledge, KnowledgePublish, At, ServersSound, InductiveInvariant
<1>3. /\ c \in Candidate /\ c.id \in CandidateIds /\ Exists(c.id) /\ s \in Candidate
      /\ c.version = s.version /\ Descends("publish", c, s)
  BY <1>1, <1>2, AtHand
<1>4. c.draft = s.draft /\ s.state = "approved"
  BY <1>3 DEF Descends, Candidate
<1>5. PICK new : new = Published(c, KnowledgePublication(k))
  OBVIOUS
<1>6. KnowledgePublication(k) \in Publication
  BY <1>2, PublicationsWellFormed
<1>7. /\ new \in Candidate /\ new.id = c.id /\ new.version = c.version
  BY <1>3, <1>5, <1>6, CopiesWellFormed
<1>8. new.draft = c.draft /\ new.state = "published" /\ new.publication.resource = k
  BY <1>3, <1>5 DEF Published, KnowledgePublication, Candidate
<1>9. /\ knowledge[k] = None
      /\ knowledge'[k] = [kb |-> c.draft.target, statement |-> c.draft.content, live |-> TRUE]
      /\ \A o \in KnowledgeIds : o # k => knowledge'[o] = knowledge[o]
  BY <1>2, NewEntryKeeps
<1>10. /\ knowledge'[k].kb = c.draft.target /\ knowledge'[k].statement = c.draft.content
       /\ knowledge'[k].live
  BY <1>9
<1>11. knowledge'[k] # None
  <2>1. c.draft.target \in KnowledgeBases /\ c.draft.content \in Contents
    BY <1>2, <1>3, InputsAssumption DEF Candidate, Draft
  <2>2. knowledge'[k] \in Entry
    BY <1>9, <2>1 DEF Entry
  <2>3. QED
    BY <2>2, EntrySentinelAssumption
<1>12. EntriesHaveCandidates'
  <2> SUFFICES ASSUME NEW o \in KnowledgeIds, knowledge'[o] # None
               PROVE  \E id \in CandidateIds : Exists(id) /\ store[id].draft.target = knowledge'[o].kb
    BY <1>2 DEF EntriesHaveCandidates, Exists
  <2>1. CASE o = k
    BY <1>1, <1>3, <1>4, <1>10, <2>1
  <2>2. CASE o # k
    BY <1>9, <2>2 DEF ServersSound, EntriesHaveCandidates
  <2>3. QED
    BY <2>1, <2>2
<1>13. ASSUME NEW x
       PROVE  EntriesOf(x)' =
                IF x.draft.target = c.draft.target /\ x.draft.content = c.draft.content
                THEN EntriesOf(x) \cup {k} ELSE EntriesOf(x)
  BY <1>2, <1>9, <1>10, <1>11 DEF EntriesOf, Live
<1>14. ASSUME NEW x, x.draft.target # c.draft.target, Matches(x)
       PROVE  Matches(x)'
  BY <1>2, <1>13, <1>14 DEF Matches
<1>15. Matches(s) => Matches(new)'
  <2>1. ASSUME Matches(s) PROVE EntriesOf(new)' = {k}
    <3>1. EntriesOf(s) = {}
      BY <1>2, <1>4, <2>1 DEF Matches
    <3>2. EntriesOf(new) = EntriesOf(s)
      BY <1>4, <1>8 DEF EntriesOf
    <3>3. QED
      BY <1>8, <1>13, <3>1, <3>2
  <2>2. QED
    BY <1>2, <1>8, <2>1 DEF Matches
<1>16. /\ Exists(new.id) /\ new.version = store[new.id].version
       /\ new.draft = store[new.id].draft /\ s = store[new.id]
  BY <1>1, <1>3, <1>4, <1>7, <1>8
<1>17. Continue(w, "update", new)
  BY <1>2, <1>5
<1>18. QED
  BY <1>2, <1>7, <1>8, <1>12, <1>14, <1>15, <1>16, <1>17, StepToUpdate

(* The entry that is removed was made for the draft of this candidate, so  *)
(* that no candidate with another target misses it.                        *)
LEMMA RollbackKnowledgeServers ==
  ASSUME InductiveInvariant, EntriesSound, ServersSound, OneAtATime, NEW w \in Workers,
         RollbackKnowledge(w)
  PROVE  ServersSound'
<1>1. PICK c, s, k : c = job[w].c /\ s = store[c.id] /\ k = c.publication.resource
  OBVIOUS
<1>2. /\ job[w] # None /\ job[w].pc = "rollback" /\ ~At(w, "update") /\ UNCHANGED <<store, skills>>
      /\ NobodyOvertakes /\ TypeOK /\ c.draft.kind = "knowledge"
      /\ k \in Live /\ knowledge' = [knowledge EXCEPT ![k].live = FALSE]
      /\ Continue(w, "update", RolledBack(c))
  BY <1>1 DEF RollbackKnowledge, KnowledgeRollback, At, ServersSound, InductiveInvariant
<1>3. /\ c \in Candidate /\ c.id \in CandidateIds /\ Exists(c.id) /\ s \in Candidate
      /\ c.version = s.version /\ Descends("rollback", c, s) /\ JobSound(job[w])
  BY <1>1, <1>2, AtHand DEF InductiveInvariant, JobsSound
<1>4. c = s /\ s.state = "published"
  BY <1>3 DEF Descends
<1>5. knowledge[k].kb = c.draft.target
  <2>1. c \in Copies /\ Claims(c)
    BY <1>1, <1>2, <1>3 DEF Copies, Claims, JobSound
  <2>2. QED
    BY <1>1, <2>1 DEF EntriesSound, MadeFor
<1>6. PICK new : new = RolledBack(c)
  OBVIOUS
<1>7. /\ new \in Candidate /\ new.id = c.id /\ new.version = c.version
  BY <1>3, <1>6, CopiesWellFormed
<1>8. new.draft = c.draft /\ new.state = "rolled_back"
  BY <1>3, <1>6 DEF RolledBack, Candidate
<1>9. /\ Live' = Live \ {k}
      /\ \A o \in KnowledgeIds : knowledge[o] # None =>
           /\ knowledge'[o].kb = knowledge[o].kb
           /\ knowledge'[o].statement = knowledge[o].statement
  BY <1>2, RemovalKeeps DEF EntriesKept
<1>10. \A o \in KnowledgeIds : knowledge'[o] # None => knowledge[o] # None
  BY <1>2 DEF Live, TypeOK, KnowledgeType
<1>11. EntriesHaveCandidates'
  BY <1>2, <1>9, <1>10 DEF ServersSound, EntriesHaveCandidates, Exists
<1>12. ASSUME NEW x PROVE EntriesOf(x)' = EntriesOf(x) \ {k}
  BY <1>9 DEF EntriesOf, Live
<1>13. ASSUME NEW x, x.draft.target # c.draft.target, Matches(x)
       PROVE  Matches(x)'
  <2>1. k \notin EntriesOf(x)
    BY <1>5, <1>13 DEF EntriesOf
  <2>2. EntriesOf(x)' = EntriesOf(x)
    BY <1>12, <2>1
  <2>3. QED
    BY <1>2, <1>13, <2>2 DEF Matches
<1>14. Matches(s) => Matches(new)'
  <2>1. ASSUME Matches(s) PROVE EntriesOf(new)' = {}
    <3>1. EntriesOf(s) = {k}
      BY <1>1, <1>2, <1>4, <2>1 DEF Matches
    <3>2. EntriesOf(new) = EntriesOf(s)
      BY <1>4, <1>8 DEF EntriesOf
    <3>3. QED
      BY <1>12, <3>1, <3>2
  <2>2. QED
    BY <1>2, <1>8, <2>1 DEF Matches
<1>15. /\ Exists(new.id) /\ new.version = store[new.id].version
       /\ new.draft = store[new.id].draft /\ s = store[new.id]
  BY <1>1, <1>3, <1>4, <1>7, <1>8
<1>16. Continue(w, "update", new)
  BY <1>2, <1>6
<1>17. QED
  BY <1>2, <1>7, <1>8, <1>11, <1>13, <1>14, <1>15, <1>16, StepToUpdate

(* The update stores what the servers agree with already. *)
LEMMA UpdateServers ==
  ASSUME InductiveInvariant, ServersSound, OneAtATime, NEW w \in Workers, Update(w)
  PROVE  ServersSound'
<1>1. PICK c, s, new : c = job[w].c /\ s = store[c.id] /\ new = [c EXCEPT !.version = @ + 1]
  OBVIOUS
<1>2. /\ job[w] # None /\ job[w].pc = "update" /\ At(w, "update") /\ Finish(w) /\ RemoteUnchanged
      /\ NobodyOvertakes /\ TypeOK
  BY DEF Update, At, ServersSound, InductiveInvariant
<1>3. /\ c \in Candidate /\ c.id \in CandidateIds /\ Exists(c.id) /\ s \in Candidate
      /\ c.version = s.version /\ Descends("update", c, s)
  BY <1>1, <1>2, AtHand
<1>4. store' = [store EXCEPT ![c.id] = new]
  BY <1>1, <1>3 DEF Update, StoreUpdate, VersionConflict
<1>5. /\ store'[c.id] = new /\ \A o \in CandidateIds : o # c.id => store'[o] = store[o]
      /\ job'[w] = None /\ \A v \in Workers : v = w
  BY <1>2, <1>3, <1>4 DEF TypeOK, StoreType, Finish, OneAtATime
<1>6. /\ new.draft = c.draft /\ new.state = c.state /\ new.publication = c.publication
      /\ new.inspection = c.inspection /\ new \in Candidate /\ new # None
  BY <1>1, <1>3, CopiesWellFormed, SentinelAssumption DEF Candidate
<1>7. c.draft = s.draft /\ SnapshotKept(c)
  <2>1. Successor(s, c) /\ SnapshotKept(s)
    BY <1>1, <1>3 DEF Descends, ServersSound, SnapshotsKept
  <2>2. QED
    BY <1>3, <2>1, SuccessorKeeps
<1>8. NobodyOvertakes'
  BY <1>5 DEF NobodyOvertakes
<1>9. SnapshotsKept'
  <2>1. SnapshotKept(new)
    BY <1>6, <1>7 DEF SnapshotKept, SkillPublication
  <2>2. QED
    BY <1>5, <2>1 DEF ServersSound, SnapshotsKept, Exists
<1>10. ASSUME NEW o \in CandidateIds
       PROVE  /\ Exists(o) <=> Exists(o)'
              /\ Exists(o) => store'[o].draft = store[o].draft
  <2>1. CASE o = c.id
    <3>1. store'[o] = new /\ store[o] = s
      BY <1>1, <1>5, <2>1
    <3>2. new.draft = s.draft /\ s # None /\ new # None
      BY <1>1, <1>3, <1>6, <1>7 DEF Exists
    <3>3. QED
      BY <3>1, <3>2 DEF Exists
  <2>2. CASE o # c.id
    BY <1>5, <2>2 DEF Exists
  <2>3. QED
    BY <2>1, <2>2
<1>11. EntriesHaveCandidates'
  BY <1>2, <1>10 DEF ServersSound, EntriesHaveCandidates, RemoteUnchanged
<1>12. UpdateMatches'
  BY <1>5 DEF UpdateMatches, At
<1>13. ASSUME NEW o \in CandidateIds, Exists(o)', Alone(o)'
       PROVE  Matches(store[o])'
  <2>1. Exists(o) /\ Alone(o)
    BY <1>10, <1>13 DEF Alone
  <2>2. CASE o = c.id
    <3>1. Matches(c)
      BY <1>1, <1>2, <2>1, <2>2 DEF ServersSound, UpdateMatches
    <3>2. Matches(new)
      BY <1>6, <3>1 DEF Matches, EntriesOf
    <3>3. Matches(new)'
      BY <1>2, <3>2, SameServersMatch
    <3>4. QED
      BY <1>5, <2>2, <3>3 DEF Matches, EntriesOf
  <2>3. CASE o # c.id
    <3>1. PICK x : x = store[o]
      OBVIOUS
    <3>2. ~Updating(o)
      BY <1>1, <1>5, <2>3 DEF Updating
    <3>3. Matches(x)
      BY <2>1, <3>1, <3>2 DEF ServersSound, StoredMatch
    <3>4. Matches(x)' /\ store'[o] = x
      BY <1>2, <1>5, <2>3, <3>1, <3>3, SameServersMatch
    <3>5. QED
      BY <3>4 DEF Matches, EntriesOf
  <2>4. QED
    BY <2>2, <2>3
<1>14. QED
  BY <1>8, <1>9, <1>11, <1>12, <1>13 DEF ServersSound, StoredMatch

LEMMA RefusedServers ==
  ASSUME InductiveInvariant, ServersSound, OneAtATime, NEW w \in Workers, Refused(w)
  PROVE  ServersSound'
<1>1. /\ ~At(w, "update") /\ Finish(w) /\ UNCHANGED store /\ RemoteUnchanged
  BY DEF Refused, At
<1>2. job'[w] = None
  BY <1>1 DEF Finish, InductiveInvariant, TypeOK
<1>3. QED
  BY <1>1, <1>2, QuietStep DEF At

LEMMA ServersStep ==
  ASSUME OneAtATime, InductiveInvariant, EntriesSound, ServersSound, [Next]_vars
  PROVE  ServersSound'
<1>1. CASE \E w \in Workers : Begin(w)
  <2>1. PICK w \in Workers, p \in Principals, id \in CandidateIds :
          \/ \E d \in Drafts, scope \in Scopes : Create(w, p, id, d, scope)
          \/ Recheck(w, p, id)
          \/ \E in \in ReviewInputs : BeginReview(w, p, id, in)
          \/ BeginPublish(w, p, id)
          \/ BeginRollback(w, p, id)
    BY <1>1 DEF Begin
  <2>2. QED
    BY <2>1, CreateServers, BeginServers
<1>2. CASE \E w \in Workers : Proceed(w)
  <2>1. PICK w \in Workers : Proceed(w)
    BY <1>2
  <2>2. ~LostCallLands(w) /\ ~LostCallVanishes(w)
    BY DEF LostCallLands, LostCallVanishes, At, ServersSound, NobodyOvertakes
  <2>3. QED
    BY <2>1, <2>2, InspectServers, PublishSkillServers, RollbackSkillServers,
       PublishKnowledgeServers, RollbackKnowledgeServers, RefusedServers, UpdateServers DEF Proceed
<1>3. CASE UNCHANGED vars
  <2>1. UNCHANGED <<store, skills, knowledge, job>>
    BY <1>3 DEF vars
  <2>2. NobodyOvertakes' /\ SnapshotsKept' /\ EntriesHaveCandidates'
    BY <2>1 DEF ServersSound, NobodyOvertakes, SnapshotsKept, EntriesHaveCandidates, Exists
  <2>3. StoredMatch'
    BY <2>1 DEF ServersSound, StoredMatch, Exists, Alone, Updating, At, Matches, EntriesOf, Live
  <2>4. UpdateMatches'
    BY <2>1 DEF ServersSound, UpdateMatches, Exists, Alone, At, Matches, EntriesOf, Live
  <2>5. QED
    BY <2>2, <2>3, <2>4 DEF ServersSound
<1>4. ~Crash /\ ~Edit /\ \A w \in Workers : ~Fail(w)
  BY DEF OneAtATime, Crash, Edit, Fail, LoseCall, WriteFails
<1>5. QED
  BY <1>1, <1>2, <1>3, <1>4 DEF Next

LEMMA ServersHold ==
  ASSUME OneAtATime
  PROVE  Spec => [](InductiveInvariant /\ ServersSound)
<1>1. Init => EntriesSound /\ ServersSound
  BY DEF Init, StoreInit, KnowledgeInit, EntriesSound, Copies, Exists, ServersSound, NobodyOvertakes,
         SnapshotsKept, EntriesHaveCandidates, StoredMatch, UpdateMatches, At
<1>2. InductiveInvariant /\ EntriesSound /\ ServersSound /\ [Next]_vars => ServersSound'
  BY ServersStep
<1>3. QED
  BY <1>1, <1>2, EntriesStep, InvariantHolds, PTL DEF Spec

(* While no request is in flight the stored candidate agrees with the      *)
(* servers.                                                                *)
LEMMA QuietMatch ==
  ASSUME InductiveInvariant, ServersSound, Quiet, NEW id \in CandidateIds, Exists(id), Alone(id)
  PROVE  Matches(store[id])
BY DEF ServersSound, StoredMatch, Updating, At, Quiet

(* When requests come one at a time and do not fail, and nobody else       *)
(* writes, what a published candidate claims to have put on a server is    *)
(* there, for any candidates, drafts and orders of requests.               *)
THEOREM RecordsAreTrue == ASSUME OneAtATime PROVE Spec => []RecordsMatchServers
<1>1. InductiveInvariant /\ ServersSound => RecordsMatchServers
  BY QuietMatch DEF RecordsMatchServers, Matches
<1>2. QED
  BY <1>1, ServersHold, PTL

(* Under the same conditions a rollback gives back the skill that the      *)
(* inspection saw and removes the knowledge that the promotion created.    *)
THEOREM RollbackUndoes == ASSUME OneAtATime PROVE Spec => []RollbackUndoesPromotion
<1>1. InductiveInvariant /\ ServersSound => RollbackUndoesPromotion
  <2> SUFFICES ASSUME InductiveInvariant, ServersSound, Quiet, NEW id \in CandidateIds,
                      Exists(id), Alone(id), store[id].state = "rolled_back"
               PROVE  IF store[id].draft.kind = "skill"
                      THEN skills[store[id].draft.target] = store[id].inspection.current
                      ELSE EntriesOf(store[id]) = {}
    BY DEF RollbackUndoesPromotion
  <2>1. Matches(store[id])
    BY QuietMatch
  <2>2. store[id].draft.kind \in {"skill", "knowledge"}
    BY StoredTyped, InputsAssumption DEF InductiveInvariant, Exists
  <2>3. QED
    BY <2>1, <2>2 DEF Matches
<1>2. QED
  BY <1>1, ServersHold, PTL
=============================================================================
