------------------------ MODULE PromotionProperties -------------------------
(***************************************************************************)
(* What the promotion service guarantees, and what its documentation says  *)
(* of it.                                                                  *)
(***************************************************************************)
EXTENDS PromotionService

Exists(id) == store[id] # None

(* The gate, as a statement about a stored candidate: an admin approved    *)
(* it, in workspace scope, on an inspection that found no reason to block  *)
(* it, and any conflict the inspection shows was accepted by the reviewer. *)
PassedGate(c) ==
  /\ c.scope = "workspace"
  /\ c.review # None /\ c.review.decision = "approved"
  /\ c.inspection # None
  /\ c.inspection.decision # "SKIP" /\ ~BlockedBy(c.inspection)
  /\ c.inspection.conflict => c.review.resolve
  /\ c.draft.sourced /\ (c.draft.kind = "skill" => c.draft.evaluated)

(* A candidate is approved, published or rolled back only with a review    *)
(* and an inspection that together satisfy the Promotion Gate, although    *)
(* rechecks, reviews and publications of it interleave and a recheck       *)
(* replaces the inspection an approval was based on (Review, Recheck,      *)
(* Publish).                                                               *)
SharedOnlyThroughGate ==
  \A id \in CandidateIds :
    Exists(id) /\ store[id].state \in {"approved", "published", "rolled_back"}
      => /\ PassedGate(store[id])
         /\ store[id].state = "approved"
              => (store[id].inspection.conflict => store[id].review.reasoned)
         /\ store[id].state # "approved" => store[id].publication # None

(* The promise of PromotionLifecycle, under any interleaving of requests,  *)
(* crash or failed call: no rejection or rollback is undone by a request   *)
(* that read the candidate before, no version is written twice (Update).   *)
Lifecycle == INSTANCE PromotionLifecycle WITH
  phase   <- [id \in CandidateIds |-> IF Exists(id) THEN store[id].state ELSE "none"],
  version <- [id \in CandidateIds |-> IF Exists(id) THEN store[id].version ELSE 0],
  scope   <- [id \in CandidateIds |-> IF Exists(id) THEN store[id].scope ELSE "personal"]

ImplementsLifecycle == Lifecycle!Spec

-----------------------------------------------------------------------------
(* The inductive invariant behind the two properties above.                *)

(* What the state of a candidate says about the rest of its record. *)
CandidateSound(c) ==
  /\ c.state # "candidate" => c.inspection # None
  /\ c.state = "checked" => ~BlockedBy(c.inspection)
  /\ c.state = "blocked" => BlockedBy(c.inspection)
  /\ c.state \in {"approved", "published", "rolled_back"} => PassedGate(c)
  /\ c.state = "approved" => (c.inspection.conflict => c.review.reasoned)
  /\ c.state \in {"published", "rolled_back"} => c.publication # None

StoreSound ==
  \A id \in CandidateIds : Exists(id) => store[id].id = id /\ CandidateSound(store[id])

(* c is what a request made of the stored candidate s and will write. *)
Successor(s, c) ==
  \/ Recheckable(s) /\ c.inspection # None /\ c = Inspected(s, c.inspection)
  \/ /\ s.state \in {"checked", "blocked"}
     /\ \E in \in ReviewInput :
          (in.decision = "approved" => ReviewGate(s, in)) /\ c = Reviewed(s, in)
  \/ /\ s.state = "approved" /\ c.inspection # None /\ c.publication # None
     /\ ValidateFreshInspection(s, c.inspection)
     /\ s.draft.kind = "skill" => c.publication = SkillPublication(c)
     /\ c = Published([s EXCEPT !.inspection = c.inspection], c.publication)
  \/ s.state = "published" /\ c = RolledBack(s)

(* How the copy c of a request at pc relates to the stored candidate s,    *)
(* as long as s is the version the request read.                           *)
Descends(pc, c, s) ==
  /\ pc = "inspect" => c = s /\ Recheckable(s)
  /\ pc = "preinspect" => c = s /\ s.state = "approved"
  /\ pc \in {"publish", "lost publish"} =>
       /\ s.state = "approved"
       /\ ValidateFreshInspection(s, c.inspection)
       /\ c = [s EXCEPT !.inspection = c.inspection]
  /\ pc \in {"rollback", "lost rollback"} => c = s /\ s.state = "published"
  /\ pc = "update" => Successor(s, c)

(* A request works on a candidate that exists, on a version that is not    *)
(* newer than the stored one, and has what its next call dereferences.     *)
JobSound(j) ==
  /\ store[j.c.id] # None
  /\ j.c.version <= store[j.c.id].version
  /\ j.c.version = store[j.c.id].version => Descends(j.pc, j.c, store[j.c.id])
  /\ j.pc \in {"publish", "lost publish"} => j.c.inspection # None
  /\ j.pc \in {"rollback", "lost rollback"} => j.c.publication # None

JobsSound == \A w \in Workers : job[w] # None => JobSound(job[w])

(* The stored candidates are consistent and every request either works on  *)
(* the stored version or has lost the race for it.                         *)
InductiveInvariant == TypeOK /\ StoreSound /\ JobsSound

-----------------------------------------------------------------------------
(* A skill candidate becomes published only over the revision its approval *)
(* was given for, when there was one: the revision the author pinned or    *)
(* the one the approved inspection had seen, although other clients change *)
(* the skill between the two inspections and although the candidate may be *)
(* rechecked and approved again while the publication is under way         *)
(* (validateFreshInspection, Store.Update).                                *)
PublishedOverReviewedRevision ==
  [][\A id \in CandidateIds :
       /\ Exists(id) /\ store[id].state = "approved"
       /\ store'[id].state = "published" /\ store[id].draft.kind = "skill"
       /\ ExpectedRevision(store[id]) # Absent
       => store'[id].publication.previous = ExpectedRevision(store[id])]_store

(* The knowledge entry of a rolled back candidate is gone for good, and no *)
(* two candidates claim one entry, so that rolling one of them back cannot *)
(* remove what the other published (WeKnoraBackend.Publish, Rollback).     *)
KnowledgeRollbackIsExact ==
  \A a, b \in CandidateIds :
    /\ Exists(a) /\ store[a].draft.kind = "knowledge" /\ store[a].publication # None
    => /\ store[a].state = "rolled_back" => store[a].publication.resource \notin Live
       /\ /\ a # b /\ Exists(b) /\ store[b].draft.kind = "knowledge"
          /\ store[b].publication # None
          => store[b].publication.resource # store[a].publication.resource

-----------------------------------------------------------------------------
(* The relation between the records of the service and the servers, seen   *)
(* while no request is in flight, for a candidate that is alone on its     *)
(* target.                                                                 *)
Quiet == \A w \in Workers : job[w] = None

Alone(id) ==
  \A other \in CandidateIds \ {id} :
    Exists(other) => store[other].draft.target # store[id].draft.target

EntriesOf(c) ==
  {k \in Live : knowledge[k].kb = c.draft.target /\ knowledge[k].statement = c.draft.content}

(* What a published candidate claims to have put on a server is there, a   *)
(* skill under its name, a statement exactly once; and a statement that is *)
(* not published is not there.  It takes requests that come one at a time, *)
(* calls that do not fail and no other client (Publish, Rollback).         *)
RecordsMatchServers ==
  Quiet => \A id \in CandidateIds :
    LET c == store[id] IN
    Exists(id) /\ Alone(id) =>
      /\ c.draft.kind = "skill" /\ c.state = "published"
           => skills[c.draft.target] = c.draft.content
      /\ c.draft.kind = "knowledge"
           => EntriesOf(c) = IF c.state = "published" THEN {c.publication.resource} ELSE {}

(* README.md: a rollback removes the knowledge this promotion created,     *)
(* deletes the skill it created or gives back the content it replaced.     *)
RollbackUndoesPromotion ==
  Quiet => \A id \in CandidateIds :
    LET c == store[id] IN
    Exists(id) /\ Alone(id) /\ c.state = "rolled_back" =>
      IF c.draft.kind = "skill"
      THEN skills[c.draft.target] = c.inspection.current
      ELSE EntriesOf(c) = {}

-----------------------------------------------------------------------------
(* Of the requests that want to write one version of a candidate one gets  *)
(* through: optimistic locking never makes all of them fail.  It needs an  *)
(* update that does not fail and a process that keeps running (update,     *)
(* Store.Update).                                                          *)
ContendersMakeProgress ==
  \A id \in CandidateIds, v \in 1..MaxVersion :
    (\E w \in Workers : At(w, "update") /\ job[w].c.id = id /\ job[w].c.version = v)
      ~> (Exists(id) /\ store[id].version > v)

(* Every request ends, whatever fails. *)
RequestsEnd == \A w \in Workers : (job[w] # None) ~> (job[w] = None)

-----------------------------------------------------------------------------
(* The statements below are made by the documentation or by the code about *)
(* itself; the code does not keep them.                                    *)

(* README.md: nothing gets round the Promotion Gate into the formal asset  *)
(* stores.  The backend call of a publication never writes the asset of a  *)
(* candidate that stands rejected.                                         *)
RejectedIsNeverWritten ==
  [][\A w \in Workers :
       At(w, "publish") /\ job'[w] # None /\ job'[w].pc = "update"
         => store[job[w].c.id].state # "rejected"]_vars

(* README.md: an existing skill is replaced only when the review saw that  *)
(* revision of it, or the author pinned it.                                *)
NoUnseenRevisionReplaced ==
  [][\A w \in Workers :
       /\ At(w, "publish") /\ job'[w] # None /\ job'[w].pc = "update"
       /\ job'[w].c.publication.action = "update"
       => ExpectedRevision(store[job[w].c.id]) = job'[w].c.publication.previous]_vars
=============================================================================
