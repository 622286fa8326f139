---------------------------- MODULE ReleaseProofs ----------------------------
(***************************************************************************)
(* Proof that the files of the registry implement OntologyRelease: for any *)
(* number of processes and any failures, every replaced manifest is one    *)
(* registration, publication or activation, every replaced binding one     *)
(* binding, and no other file operation shows, provided that no two        *)
(* processes change one ontology directory (SoleOwner).                    *)
(***************************************************************************)
EXTENDS OntologyProofs

(***************************************************************************)
(* The invariant that RegistryInvariant lacks for it: what is listed was   *)
(* one of the snapshots that may be registered, and a publication keeps    *)
(* in mind, from the payload it has read until it writes the manifest,     *)
(* that its version is fit to be published.                                *)
(***************************************************************************)
ShaIn(d, v) == FindVersion(manifest[d], v).sha

ListedAreSnapshots ==
  \A d \in FileNames : manifest[d] # None =>
    \A i \in DOMAIN manifest[d].versions : manifest[d].versions[i].sha \in Snapshots

ReviewSound(p) ==
  LET j == job[p] IN j # None =>
    /\ j.op = "register" => j.meta.sha \in Snapshots
    /\ j.op = "publish" /\ j.pc = "read" =>
         ListsIn(Dir(p), j.version) /\ j.meta.sha = ShaIn(Dir(p), j.version)
    /\ j.op = "publish" /\ j.pc \in {"index", "manifest"} =>
         ListsIn(Dir(p), j.version) /\ Reviewed(ShaIn(Dir(p), j.version))

ReleaseInvariant == ListedAreSnapshots /\ \A p \in Processes : ReviewSound(p)

-----------------------------------------------------------------------------
(* What a change of a manifest shows: its versions, contents, states.      *)

LEMMA RegistrationShows ==
  ASSUME NEW m \in Manifest, Apart(m), NEW meta \in Meta, NEW n \in WithVersion(m, meta),
         \A i \in DOMAIN m.versions : FileName[m.versions[i].version] # FileName[meta.version]
  PROVE  /\ n.active = m.active
         /\ \A u : Lists(n, u) <=> Lists(m, u) \/ u = meta.version
         /\ ~ Lists(m, meta.version)
         /\ FindVersion(n, meta.version) = meta
         /\ \A u : Lists(m, u) => FindVersion(n, u) = FindVersion(m, u)
<1>1. n \in Manifest /\ n.active = m.active
  BY WithVersionShape
<1>2. /\ Apart(n) /\ Grows(m, n) /\ Lists(n, meta.version)
      /\ \A j \in DOMAIN n.versions :
           n.versions[j] = meta \/ \E i \in DOMAIN m.versions : n.versions[j] = m.versions[i]
  BY WithVersionGrows
<1>3. ASSUME NEW u, Lists(n, u)
      PROVE  \/ u = meta.version /\ FindVersion(n, u) = meta
             \/ Lists(m, u) /\ FindVersion(n, u) = FindVersion(m, u)
  <2> DEFINE j == EntryOf(n, u)
  <2>1. j \in DOMAIN n.versions /\ n.versions[j].version = u /\ FindVersion(n, u) = n.versions[j]
    BY <1>1, <1>2, <1>3, FindEntry
  <2>2. CASE n.versions[j] = meta
    BY <2>1, <2>2
  <2>3. ASSUME NEW i \in DOMAIN m.versions, n.versions[j] = m.versions[i]
        PROVE  Lists(m, u) /\ FindVersion(n, u) = FindVersion(m, u)
    BY <2>1, <2>3, FindUnique
  <2>. QED
    BY <1>2, <2>1, <2>2, <2>3
<1>4. ~ Lists(m, meta.version)
  BY FindEntry
<1>5. \A u : Lists(m, u) => Lists(n, u)
  BY <1>2 DEF Grows
<1>. QED
  BY <1>1, <1>2, <1>3, <1>4, <1>5

LEMMA PublicationShows ==
  ASSUME NEW m \in Manifest, Apart(m), NEW v \in Versions, Lists(m, v)
  PROVE  LET n == MarkPublished(m, v) IN
         /\ n.active = v
         /\ \A u : Lists(n, u) <=> Lists(m, u)
         /\ \A u : Lists(m, u) => FindVersion(n, u).sha = FindVersion(m, u).sha
         /\ \A u : IsPublished(n, u) <=> IsPublished(m, u) \/ u = v
<1> DEFINE n == MarkPublished(m, v)
           e == EntryOf(m, v)
<1>1. /\ n \in Manifest /\ n.active = v /\ IsPublished(n, v)
      /\ DOMAIN n.versions = DOMAIN m.versions
      /\ \A i \in DOMAIN m.versions : n.versions[i].version = m.versions[i].version
      /\ Apart(n) /\ Grows(m, n)
  BY MarkPublishedGrows
<1>2. e \in DOMAIN m.versions /\ m.versions[e].version = v
  BY FindEntry
<1>3. \A i \in DOMAIN m.versions : i # e => n.versions[i] = m.versions[i]
  BY <1>2 DEF MarkPublished, Manifest
<1>4. ASSUME NEW u, Lists(n, u)
      PROVE  Lists(m, u) /\ (u # v => FindVersion(n, u) = FindVersion(m, u))
  <2> DEFINE j == EntryOf(n, u)
  <2>1. j \in DOMAIN n.versions /\ n.versions[j].version = u /\ FindVersion(n, u) = n.versions[j]
    BY <1>1, <1>4, FindEntry
  <2>2. j \in DOMAIN m.versions /\ m.versions[j].version = u
    BY <1>1, <2>1
  <2>3. Lists(m, u) /\ FindVersion(m, u) = m.versions[j]
    BY <2>2, FindUnique
  <2>4. u # v => j # e
    BY <1>2, <2>2
  <2>. QED
    BY <1>3, <2>1, <2>2, <2>3, <2>4
<1>5. \A u : Lists(n, u) <=> Lists(m, u)
  BY <1>1, <1>4 DEF Grows
<1>6. \A u : Lists(m, u) => FindVersion(n, u).sha = FindVersion(m, u).sha
  BY <1>1 DEF Grows
<1>7. \A u : IsPublished(n, u) <=> IsPublished(m, u) \/ u = v
  BY <1>1, <1>4, <1>5 DEF IsPublished
<1>. QED
  BY <1>1, <1>5, <1>6, <1>7, Zenon

LEMMA ActivationShows ==
  ASSUME NEW m \in Manifest, NEW v \in Versions
  PROVE  LET n == [m EXCEPT !.active = v] IN
         /\ n.active = v /\ n.versions = m.versions
         /\ \A u : Lists(n, u) = Lists(m, u) /\ FindVersion(n, u) = FindVersion(m, u)
<1> DEFINE n == [m EXCEPT !.active = v]
<1>1. n.active = v /\ n.versions = m.versions
  BY DEF Manifest
<1>2. \A u : EntriesOf(n, u) = EntriesOf(m, u)
  BY <1>1 DEF EntriesOf
<1>3. ASSUME NEW u PROVE Lists(n, u) = Lists(m, u) /\ FindVersion(n, u) = FindVersion(m, u)
  <2>1. EntriesOf(n, u) = EntriesOf(m, u)
    BY <1>2
  <2>2. EntryOf(n, u) = EntryOf(m, u)
    BY <2>1, Zenon DEF EntryOf
  <2>. QED
    BY <1>1, <2>1, <2>2 DEF Lists, FindVersion
<1>. QED
  BY <1>1, <1>3

-----------------------------------------------------------------------------
(* The invariant.                                                          *)

LEMMA StaysReviewed ==
  ASSUME IInv, FilesGrow, NEW q \in Processes, ReviewSound(q), job'[q] = job[q]
  PROVE  ReviewSound(q)'
<1> SUFFICES ASSUME job[q] # None PROVE ReviewSound(q)'
  BY DEF ReviewSound
<1> DEFINE j == job[q]
<1>1. j.op = "publish" => Dir(q) \in FileNames
  BY Running
<1>2. j.op = "publish" /\ ListsIn(Dir(q), j.version) =>
        ListsIn(Dir(q), j.version)' /\ ShaIn(Dir(q), j.version)' = ShaIn(Dir(q), j.version)
  BY <1>1 DEF FilesGrow, Grows, ListsIn, ShaIn, Dir
<1>. QED
  BY <1>2 DEF ReviewSound, Dir

(* A request that is, and after its step will be, no publication. *)
LEMMA NothingToReview ==
  ASSUME IInv, NEW p \in Processes, ReviewSound(p), job[p] # None, NEW STATE j,
         job' = [job EXCEPT ![p] = j], j.op # "publish",
         j.op = "register" => job[p].op = "register" /\ j.meta = job[p].meta
  PROVE  ReviewSound(p)'
<1>1. job'[p] = j
  BY OthersIdle
<1>. QED
  BY <1>1 DEF ReviewSound

LEMMA EndsReviewed ==
  ASSUME IInv, NEW p \in Processes, job' = [job EXCEPT ![p] = None]
  PROVE  ReviewSound(p)'
BY OthersIdle DEF ReviewSound

LEMMA BeginsReviewed ==
  ASSUME IInv, NEW p \in Processes, Begin(p)
  PROVE  ReviewSound(p)'
<1>1. ASSUME NEW o \in Snapshots, RegisterVersion(p, o)
      PROVE  ReviewSound(p)'
  <2> DEFINE j == [Request("register", "stat") EXCEPT
                     !.id = o.id, !.version = o.version, !.meta = NewMeta(o)]
  <2>1. j.op = "register" /\ j.meta.sha = o
    BY DEF Request, NewMeta
  <2>2. job' = [job EXCEPT ![p] = j]
    BY <1>1 DEF RegisterVersion, Start
  <2> HIDE DEF j
  <2>3. job'[p] = j
    BY <2>2, OthersIdle
  <2>. QED
    BY <2>1, <2>3 DEF ReviewSound
<1>2. ASSUME NEW op \in {"publish", "activate", "bind", "resolve"}, NEW j,
             job' = [job EXCEPT ![p] = j], j.op = op, j.pc \notin {"read", "manifest"},
             op = "publish" => j.pc = "get"
      PROVE  ReviewSound(p)'
  BY <1>2, OthersIdle DEF ReviewSound
<1>3. ASSUME NEW id \in OntologyIds, NEW v \in Versions, Publish(p, id, v)
      PROVE  ReviewSound(p)'
  <2> DEFINE j == [Request("publish", "get") EXCEPT !.id = id, !.version = v]
  <2>1. j.op = "publish" /\ j.pc = "get" /\ job' = [job EXCEPT ![p] = j]
    BY <1>3 DEF Publish, Start, Request
  <2> HIDE DEF j
  <2>. QED
    BY <1>2, <2>1
<1>4. ASSUME NEW id \in OntologyIds, NEW v \in Versions, Activate(p, id, v)
      PROVE  ReviewSound(p)'
  <2> DEFINE j == [Request("activate", "index") EXCEPT !.id = id, !.version = v]
  <2>1. j.op = "activate" /\ j.pc = "index" /\ job' = [job EXCEPT ![p] = j]
    BY <1>4 DEF Activate, Start, Request
  <2> HIDE DEF j
  <2>. QED
    BY <1>2, <2>1
<1>5. ASSUME NEW k \in KnowledgeBases, NEW id \in OntologyIds, NEW mode, NEW v,
             BindKnowledgeBase(p, k, id, mode, v)
      PROVE  ReviewSound(p)'
  <2> DEFINE j == [Request("bind", "check") EXCEPT !.kb = k, !.id = id, !.mode = mode, !.version = v]
  <2>1. j.op = "bind" /\ j.pc = "check" /\ job' = [job EXCEPT ![p] = j]
    BY <1>5 DEF BindKnowledgeBase, Start, Request
  <2> HIDE DEF j
  <2>. QED
    BY <1>2, <2>1
<1>6. ASSUME NEW k \in KnowledgeBases, Resolve(p, k)
      PROVE  ReviewSound(p)'
  <2> DEFINE j == [Request("resolve", "lookup") EXCEPT !.kb = k]
  <2>1. j.op = "resolve" /\ j.pc = "lookup" /\ job' = [job EXCEPT ![p] = j]
    BY <1>6 DEF Resolve, Start, Request
  <2> HIDE DEF j
  <2>. QED
    BY <1>2, <2>1
<1>. QED
  BY <1>1, <1>3, <1>4, <1>5, <1>6 DEF Begin

LEMMA ProceedsReviewed ==
  ASSUME IInv, NEW p \in Processes, ReviewSound(p), Proceed(p)
  PROVE  ReviewSound(p)'
<1>0. job[p] # None
  BY DEF Proceed, StatPayload, WritePayload, IndexVersion, GetEntry, ReadForPublish,
     ReadForResolve, IndexPublication, IndexActivation, WriteManifest, CheckBinding,
     WriteBinding, AppendAudit, LookupBinding, FollowBinding, At
<1>1. /\ job[p] \in Job /\ JobSound(p) /\ job[p].pc \in StepsOf(job[p].op)
      /\ job[p].op \in {"register", "publish", "activate"} =>
           Dir(p) \in FileNames /\ job[p].version \in Versions
  BY <1>0, Running
<1>2. CASE StatPayload(p) \/ WritePayload(p)
  <2>1. job[p].op = "register"
    BY <1>1, <1>2 DEF StatPayload, WritePayload, At, StepsOf, Job
  <2>2. ASSUME NEW pc, job' = [job EXCEPT ![p] = [job[p] EXCEPT !.pc = pc]]
        PROVE  ReviewSound(p)'
    <3> DEFINE j == [job[p] EXCEPT !.pc = pc]
    <3>1. j.op = "register" /\ j.meta = job[p].meta
      BY <1>1, <2>1 DEF Job
    <3>2. job' = [job EXCEPT ![p] = j]
      BY <2>2
    <3> HIDE DEF j
    <3>. QED
      BY <1>0, <2>1, <3>1, <3>2, NothingToReview
  <2>. QED
    BY <1>2, <2>2, EndsReviewed DEF StatPayload, WritePayload, Go, Continue, Answer
<1>3. CASE IndexVersion(p)
  <2>1. job[p].op = "register"
    BY <1>3 DEF IndexVersion
  <2>2. ASSUME NEW n, job' = [job EXCEPT ![p] = [job[p] EXCEPT !.pc = "manifest", !.new = n]]
        PROVE  ReviewSound(p)'
    <3> DEFINE j == [job[p] EXCEPT !.pc = "manifest", !.new = n]
    <3>1. j.op = "register" /\ j.meta = job[p].meta
      BY <1>1, <2>1 DEF Job
    <3>2. job' = [job EXCEPT ![p] = j]
      BY <2>2
    <3> HIDE DEF j
    <3>. QED
      BY <1>0, <2>1, <3>1, <3>2, NothingToReview
  <2>. QED
    BY <1>3, <2>2, EndsReviewed DEF IndexVersion, Continue, Answer
<1>4. CASE GetEntry(p)
  <2> DEFINE m == manifest[Dir(p)]
             j == [job[p] EXCEPT !.pc = "read", !.meta = FindVersion(m, job[p].version)]
  <2>1. /\ job[p].op \in {"publish", "resolve"}
    BY <1>1, <1>4 DEF GetEntry, At, StepsOf, Job
  <2>2. CASE ~ (m # None /\ Lists(m, job[p].version))
    BY <1>4, <2>2, EndsReviewed DEF GetEntry, Answer
  <2>3. CASE m # None /\ Lists(m, job[p].version)
    <3>1. job' = [job EXCEPT ![p] = j] /\ manifest' = manifest
      BY <1>4, <2>3 DEF GetEntry, Continue, files
    <3>2. /\ j.op = job[p].op /\ j.pc = "read" /\ j.id = job[p].id /\ j.version = job[p].version
          /\ j.meta = FindVersion(m, job[p].version)
      BY <1>1 DEF Job
    <3>3. ListsIn(Dir(p), job[p].version)
      BY <2>3 DEF ListsIn
    <3> HIDE DEF j
    <3>4. job'[p] = j
      BY <3>1, OthersIdle
    <3>. QED
      BY <2>1, <3>1, <3>2, <3>3, <3>4 DEF ReviewSound, Dir, ShaIn, ListsIn
  <2>. QED
    BY <2>2, <2>3
<1>5. CASE ReadForPublish(p)
  <2> DEFINE o == payload[Dir(p)][File(p)]
             j == [job[p] EXCEPT !.pc = "index"]
  <2>1. job[p].op = "publish" /\ job[p].pc = "read" /\ manifest' = manifest
    BY <1>5 DEF ReadForPublish, At, files
  <2>2. CASE ~ (o = job[p].meta.sha /\ EnsurePublishable(o))
    BY <1>5, <2>2, EndsReviewed DEF ReadForPublish, Answer
  <2>3. CASE o = job[p].meta.sha /\ EnsurePublishable(o)
    <3>1. job' = [job EXCEPT ![p] = j]
      BY <1>5, <2>3 DEF ReadForPublish, Go, Continue
    <3>2. /\ j.op = "publish" /\ j.pc = "index" /\ j.id = job[p].id /\ j.version = job[p].version
      BY <1>1, <2>1 DEF Job
    <3>3. Reviewed(job[p].meta.sha)
      BY <2>3 DEF EnsurePublishable, Reviewed
    <3>4. ListsIn(Dir(p), job[p].version) /\ Reviewed(ShaIn(Dir(p), job[p].version))
      BY <1>0, <2>1, <3>3 DEF ReviewSound
    <3> HIDE DEF j
    <3>5. job'[p] = j
      BY <3>1, OthersIdle
    <3>. QED
      BY <2>1, <3>2, <3>4, <3>5 DEF ReviewSound, Dir, ShaIn, ListsIn
  <2>. QED
    BY <2>2, <2>3
<1>6. CASE ReadForResolve(p)
  BY <1>6, EndsReviewed DEF ReadForResolve, Answer
<1>7. CASE IndexPublication(p)
  <2> DEFINE m == manifest[Dir(p)]
             n == MarkPublished(m, job[p].version)
             j == [job[p] EXCEPT !.pc = "manifest", !.new = n]
  <2>1. job[p].op = "publish" /\ job[p].pc = "index" /\ manifest' = manifest
    BY <1>7 DEF IndexPublication, At, files
  <2>2. job' = [job EXCEPT ![p] = None] \/ job' = [job EXCEPT ![p] = j]
    BY <1>7 DEF IndexPublication, Continue, Answer
  <2> HIDE DEF n
  <2>3. j.op = "publish" /\ j.pc = "manifest" /\ j.id = job[p].id /\ j.version = job[p].version
    BY <1>1, <2>1 DEF Job
  <2>4. ListsIn(Dir(p), job[p].version) /\ Reviewed(ShaIn(Dir(p), job[p].version))
    BY <1>0, <2>1 DEF ReviewSound
  <2> HIDE DEF j
  <2>5. CASE job' = [job EXCEPT ![p] = j]
    <3>1. job'[p] = j
      BY <2>5, OthersIdle
    <3>. QED
      BY <2>1, <2>3, <2>4, <3>1 DEF ReviewSound, Dir, ShaIn, ListsIn
  <2>. QED
    BY <2>2, <2>5, EndsReviewed
<1>8. CASE IndexActivation(p)
  <2> DEFINE n == [manifest[Dir(p)] EXCEPT !.active = job[p].version]
             j == [job[p] EXCEPT !.pc = "manifest", !.new = n]
  <2>1. job' = [job EXCEPT ![p] = None] \/ job' = [job EXCEPT ![p] = j]
    BY <1>8 DEF IndexActivation, Continue, Answer
  <2> HIDE DEF n
  <2>2. j.op = "activate"
    BY <1>1, <1>8 DEF IndexActivation, Job
  <2> HIDE DEF j
  <2>. QED
    BY <1>0, <2>1, <2>2, EndsReviewed, NothingToReview
<1>9. CASE WriteManifest(p)
  <2> DEFINE j == [job[p] EXCEPT !.pc = "audit"]
  <2>1. job' = [job EXCEPT ![p] = j]
    BY <1>9 DEF WriteManifest, Go, Continue
  <2>2. j.op = job[p].op /\ j.pc = "audit" /\ j.meta = job[p].meta
    BY <1>1 DEF Job
  <2> HIDE DEF j
  <2>3. job'[p] = j
    BY <2>1, OthersIdle
  <2>. QED
    BY <1>0, <2>2, <2>3 DEF ReviewSound
<1>10. CASE CheckBinding(p) \/ WriteBinding(p)
  <2>1. job[p].op = "bind"
    BY <1>1, <1>10 DEF CheckBinding, WriteBinding, At, StepsOf, Job
  <2>2. ASSUME NEW pc, job' = [job EXCEPT ![p] = [job[p] EXCEPT !.pc = pc]]
        PROVE  ReviewSound(p)'
    <3> DEFINE j == [job[p] EXCEPT !.pc = pc]
    <3>1. j.op = "bind"
      BY <1>1, <2>1 DEF Job
    <3>2. job' = [job EXCEPT ![p] = j]
      BY <2>2
    <3> HIDE DEF j
    <3>. QED
      BY <1>0, <3>1, <3>2, NothingToReview
  <2>. QED
    BY <1>10, <2>2, EndsReviewed DEF CheckBinding, WriteBinding, Go, Continue, Answer
<1>11. CASE AppendAudit(p)
  BY <1>11, EndsReviewed DEF AppendAudit, Answer
<1>12. CASE LookupBinding(p)
  <2> DEFINE b == binding[FileName[job[p].kb]]
             j == [job[p] EXCEPT !.pc = "follow", !.id = b.id, !.mode = b.mode,
                                 !.version = b.version]
  <2>1. job' = [job EXCEPT ![p] = None] \/ job' = [job EXCEPT ![p] = j]
    BY <1>12 DEF LookupBinding, Continue, Answer
  <2>2. job[p].op = "resolve"
    BY <1>1, <1>12 DEF LookupBinding, At, StepsOf, Job
  <2>3. j.op = "resolve"
    BY <1>1, <2>2 DEF Job
  <2> HIDE DEF j
  <2>. QED
    BY <1>0, <2>1, <2>3, EndsReviewed, NothingToReview
<1>13. CASE FollowBinding(p)
  <2> DEFINE v == BoundVersion(job[p], manifest[Dir(p)])
             j == [job[p] EXCEPT !.pc = "get", !.version = v]
  <2>1. job' = [job EXCEPT ![p] = None] \/ job' = [job EXCEPT ![p] = j]
    BY <1>13 DEF FollowBinding, Continue, Answer
  <2>2. job[p].op = "resolve"
    BY <1>1, <1>13 DEF FollowBinding, At, StepsOf, Job
  <2> HIDE DEF v
  <2>3. j.op = "resolve"
    BY <1>1, <2>2 DEF Job
  <2> HIDE DEF j
  <2>. QED
    BY <1>0, <2>1, <2>3, EndsReviewed, NothingToReview
<1>. QED
  BY <1>2, <1>3, <1>4, <1>5, <1>6, <1>7, <1>8, <1>9, <1>10, <1>11, <1>12, <1>13 DEF Proceed

LEMMA FailsReviewed ==
  ASSUME IInv, NEW p \in Processes, Fail(p)
  PROVE  ReviewSound(p)'
BY EndsReviewed DEF Fail, ReadFails, WriteFails, Crash, Answer

(* Only the three requests that change a manifest replace one, and only a  *)
(* binding a binding.                                                      *)
LEMMA QuietRegistry ==
  ASSUME NEW p \in Processes, Begin(p) \/ Proceed(p) \/ Fail(p)
  PROVE  /\ WriteManifest(p) \/ manifest' = manifest
         /\ WriteBinding(p) \/ binding' = binding
<1>1. CASE Begin(p)
  BY <1>1 DEF Begin, RegisterVersion, Publish, Activate, BindKnowledgeBase, Resolve, Start, files
<1>2. CASE Proceed(p)
  BY <1>2 DEF Proceed, StatPayload, WritePayload, IndexVersion, GetEntry, ReadForPublish,
     ReadForResolve, IndexPublication, IndexActivation, WriteManifest, CheckBinding,
     WriteBinding, AppendAudit, LookupBinding, FollowBinding, files
<1>3. CASE Fail(p)
  BY <1>3 DEF Fail, ReadFails, WriteFails, Crash, files
<1>. QED
  BY <1>1, <1>2, <1>3

(* The manifest that is written, and the one before it. *)
LEMMA Replacing ==
  ASSUME IInv, NEW p \in Processes, WriteManifest(p)
  PROVE  /\ job[p] # None /\ job[p] \in Job /\ job[p].pc = "manifest" /\ NewSound(p)
         /\ Dir(p) \in FileNames /\ job[p].version \in Versions
         /\ job[p].op \in {"register", "publish", "activate"}
         /\ manifest'[Dir(p)] = job[p].new /\ job[p].new # None
         /\ job[p].new \in Manifest /\ Apart(job[p].new)
         /\ \A d \in FileNames : d # Dir(p) => manifest'[d] = manifest[d]
         /\ UNCHANGED binding
         /\ manifest[Dir(p)] # None =>
              manifest[Dir(p)] \in Manifest /\ Apart(manifest[Dir(p)])
         /\ job[p].op = "register" => RegisterSound(p) /\ job[p].meta \in Meta
<1>1. job[p] # None /\ job[p].pc = "manifest" /\ UNCHANGED binding
  BY DEF WriteManifest, At
<1>2. job[p] \in Job /\ JobSound(p) /\ job[p].op \in {"register", "publish", "activate"}
  BY <1>1, Running DEF StepsOf, Job
<1>3. Dir(p) \in FileNames /\ job[p].version \in Versions
  BY <1>1, <1>2, Running
<1>4. NewSound(p) /\ (job[p].op = "register" => RegisterSound(p))
  BY <1>1, <1>2 DEF JobSound
<1>5. job[p].new \in Manifest /\ FileName[job[p].new.id] = Dir(p) /\ Apart(job[p].new)
  BY <1>1, NewManifest
<1>6. /\ manifest'[Dir(p)] = job[p].new
      /\ \A d \in FileNames : d # Dir(p) => manifest'[d] = manifest[d]
  BY <1>3, <1>5 DEF WriteManifest, IInv, TypeOK
<1>7. manifest[Dir(p)] # None => manifest[Dir(p)] \in Manifest /\ Apart(manifest[Dir(p)])
  BY <1>3 DEF IInv, TypeOK, RegistryInvariant, ManifestSound, Apart
<1>8. job[p].op = "register" => job[p].meta \in Meta
  BY <1>4 DEF RegisterSound, NewMeta, Meta, Ontology
<1>. QED
  BY <1>1, <1>2, <1>3, <1>4, <1>5, <1>6, <1>7, <1>8, SentinelAssumption

(* The manifest a registration starts from: a new one, or the one there is. *)
LEMMA Registering ==
  ASSUME IInv, NEW p \in Processes, WriteManifest(p), job[p].op = "register"
  PROVE  LET meta == job[p].meta
             m    == manifest[Dir(p)]
             old  == IF m = None THEN EmptyManifest(meta.sha) ELSE m
         IN  /\ old \in Manifest /\ Apart(old) /\ job[p].new \in WithVersion(old, meta)
             /\ \A i \in DOMAIN old.versions :
                  FileName[old.versions[i].version] # FileName[meta.version]
             /\ meta.version = job[p].version /\ meta.state = "candidate"
             /\ \A u : Lists(old, u) <=> ListsIn(Dir(p), u)
             /\ old.active = ActiveIn(Dir(p))
<1> DEFINE meta == job[p].meta
           m    == manifest[Dir(p)]
           old  == IF m = None THEN EmptyManifest(meta.sha) ELSE m
<1>1. RegisterSound(p) /\ meta \in Meta /\ NewSound(p) /\ job[p].pc = "manifest"
  BY Replacing
<1>2. meta.sha \in Ontology /\ meta.version = job[p].version /\ meta.state = "candidate"
  BY <1>1 DEF RegisterSound, NewMeta
<1>3. job[p].new \in WithVersion(old, meta)
  BY <1>1 DEF NewSound
<1>4. CASE m = None
  <2>1. <<>> \in Seq(Meta) /\ DOMAIN <<>> = {}
    OBVIOUS
  <2>2. EmptyManifest(meta.sha).active = None /\ EmptyManifest(meta.sha).versions = <<>>
    BY DEF EmptyManifest
  <2>3. EmptyManifest(meta.sha) \in Manifest
    BY <1>2, <2>1 DEF EmptyManifest, Manifest, Ontology
  <2>4. old = EmptyManifest(meta.sha)
    BY <1>4
  <2> HIDE DEF old
  <2>5. old \in Manifest /\ DOMAIN old.versions = {} /\ old.active = None
    BY <2>1, <2>2, <2>3, <2>4
  <2>6. Apart(old) /\ \A u : ~ Lists(old, u)
    BY <2>5 DEF Apart, Lists, EntriesOf
  <2>7. \A u : ~ ListsIn(Dir(p), u)
    BY <1>4 DEF ListsIn
  <2>8. ActiveIn(Dir(p)) = None
    BY <1>4 DEF ActiveIn
  <2>. QED
    BY <1>2, <1>3, <2>5, <2>6, <2>7, <2>8 DEF old
<1>5. CASE m # None
  <2>1. old = m /\ m \in Manifest /\ Apart(m)
    BY <1>5, Replacing
  <2>2. \A i \in DOMAIN m.versions : FileName[m.versions[i].version] # FileName[meta.version]
    BY <1>1, <1>2, <1>5 DEF RegisterSound, File
  <2>3. ActiveIn(Dir(p)) = m.active /\ \A u : Lists(m, u) <=> ListsIn(Dir(p), u)
    BY <1>5 DEF ActiveIn, ListsIn
  <2>. QED
    BY <1>2, <1>3, <2>1, <2>2, <2>3
<1>. QED
  BY <1>4, <1>5

LEMMA WritesSnapshots ==
  ASSUME IInv, ReleaseInvariant, NEW p \in Processes, WriteManifest(p)
  PROVE  ListedAreSnapshots'
<1> DEFINE m == manifest[Dir(p)]
           n == job[p].new
           Known(x) == \A i \in DOMAIN x.versions : x.versions[i].sha \in Snapshots
<1>1. m # None => m \in Manifest /\ Apart(m) /\ Known(m)
  BY Replacing DEF ReleaseInvariant, ListedAreSnapshots
<1>2. ASSUME job[p].op = "register" PROVE Known(n)
  <2> DEFINE meta == job[p].meta
             old  == IF m = None THEN EmptyManifest(meta.sha) ELSE m
  <2>1. meta.sha \in Snapshots /\ meta \in Meta
    BY <1>2, Replacing DEF ReleaseInvariant, ReviewSound
  <2>2. /\ old \in Manifest /\ Apart(old) /\ n \in WithVersion(old, meta)
        /\ \A i \in DOMAIN old.versions :
             FileName[old.versions[i].version] # FileName[meta.version]
    BY <1>2, Registering
  <2>3. Known(old)
    <3>1. DOMAIN EmptyManifest(meta.sha).versions = {}
      BY DEF EmptyManifest
    <3>. QED
      BY <1>1, <3>1
  <2> HIDE DEF old
  <2>4. \A i \in DOMAIN n.versions :
          n.versions[i] = meta \/ \E k \in DOMAIN old.versions : n.versions[i] = old.versions[k]
    BY <2>1, <2>2, WithVersionGrows
  <2>. QED
    BY <2>1, <2>3, <2>4
<1>3. ASSUME job[p].op = "publish" PROVE Known(n)
  <2>1. ListsIn(Dir(p), job[p].version) /\ n = MarkPublished(m, job[p].version)
    BY <1>3, Replacing DEF NewSound
  <2>2. m # None /\ Lists(m, job[p].version) /\ job[p].version \in Versions
    BY <2>1, Replacing DEF ListsIn
  <2>3. /\ DOMAIN n.versions = DOMAIN m.versions
        /\ \A i \in DOMAIN m.versions : n.versions[i].sha = m.versions[i].sha
    BY <1>1, <2>1, <2>2, MarkPublishedGrows
  <2>. QED
    BY <1>1, <2>2, <2>3
<1>4. ASSUME job[p].op = "activate" PROVE Known(n)
  <2>1. PublishedIn(Dir(p), job[p].version) /\ n = [m EXCEPT !.active = job[p].version]
    BY <1>4, Replacing DEF NewSound
  <2>2. m # None /\ n.versions = m.versions
    BY <1>1, <2>1 DEF PublishedIn, Manifest
  <2>. QED
    BY <1>1, <2>2
<1>5. Known(n)
  BY <1>2, <1>3, <1>4, Replacing
<1> HIDE DEF n
<1>6. ASSUME NEW d \in FileNames, manifest'[d] # None
      PROVE  \A i \in DOMAIN manifest'[d].versions : manifest'[d].versions[i].sha \in Snapshots
  <2>1. CASE d = Dir(p)
    BY <1>5, <2>1, Replacing DEF n
  <2>2. CASE d # Dir(p)
    <3>1. manifest'[d] = manifest[d]
      BY <2>2, Replacing
    <3>. QED
      BY <1>6, <3>1 DEF ReleaseInvariant, ListedAreSnapshots
  <2>. QED
    BY <2>1, <2>2
<1>. QED
  BY <1>6 DEF ListedAreSnapshots

LEMMA NextReviewed ==
  ASSUME IInv, ReleaseInvariant, [Next]_vars
  PROVE  ReleaseInvariant'
<1>1. ASSUME NEW p \in Processes, Begin(p) \/ Proceed(p) \/ Fail(p)
      PROVE  ReleaseInvariant'
  <2>1. FilesGrow /\ \A q \in Processes : q # p => job'[q] = job[q]
    BY <1>1, ProcessSound DEF SoundStep
  <2>2. ReviewSound(p)'
    BY <1>1, BeginsReviewed, ProceedsReviewed, FailsReviewed DEF ReleaseInvariant
  <2>3. \A q \in Processes : ReviewSound(q)'
    BY <2>1, <2>2, StaysReviewed DEF ReleaseInvariant
  <2>4. ListedAreSnapshots'
    <3>1. CASE WriteManifest(p)
      BY <3>1, WritesSnapshots
    <3>2. CASE manifest' = manifest
      BY <3>2 DEF ReleaseInvariant, ListedAreSnapshots
    <3>. QED
      BY <1>1, <3>1, <3>2, QuietRegistry
  <2>. QED
    BY <2>3, <2>4 DEF ReleaseInvariant
<1>2. CASE UNCHANGED vars
  <2>1. UNCHANGED <<manifest, job>>
    BY <1>2 DEF vars
  <2>2. ListedAreSnapshots'
    BY <2>1 DEF ReleaseInvariant, ListedAreSnapshots
  <2>3. ASSUME NEW p \in Processes PROVE ReviewSound(p)'
    BY <2>1 DEF ReleaseInvariant, ReviewSound, ListsIn, ShaIn, Dir
  <2>. QED
    BY <2>2, <2>3 DEF ReleaseInvariant
<1>. QED
  BY <1>1, <1>2 DEF Next

-----------------------------------------------------------------------------
(* The refinement mapping, and what it is of one directory and version.    *)
ContentIn(d, v) == IF ListsIn(d, v) THEN ShaIn(d, v) ELSE None
BoundBy(f) == IF binding[f] = None THEN None
              ELSE <<FileName[binding[f].id], binding[f].version>>

ContentMap   == [d \in FileNames |-> [v \in Versions |-> ContentIn(d, v)]]
PublishedMap == [d \in FileNames |-> {v \in Versions : PublishedIn(d, v)}]
ActiveMap    == [d \in FileNames |-> ActiveIn(d)]
BoundMap     == [f \in FileNames |-> BoundBy(f)]

LEMMA MapsUnchanged ==
  /\ manifest' = manifest => UNCHANGED <<ContentMap, PublishedMap, ActiveMap>>
  /\ binding' = binding => UNCHANGED BoundMap
BY DEF ContentMap, PublishedMap, ActiveMap, BoundMap, ContentIn, ShaIn, BoundBy, ListsIn,
   PublishedIn, ActiveIn

(* A manifest that is replaced changes the image of its directory only. *)
LEMMA OneDirectory ==
  ASSUME NEW d \in FileNames, \A e \in FileNames : e # d => manifest'[e] = manifest[e]
  PROVE  /\ ContentMap' = [ContentMap EXCEPT ![d] = [v \in Versions |-> ContentIn(d, v)']]
         /\ PublishedMap' = [PublishedMap EXCEPT ![d] = {v \in Versions : PublishedIn(d, v)'}]
         /\ ActiveMap' = [ActiveMap EXCEPT ![d] = ActiveIn(d)']
<1>1. ASSUME NEW e \in FileNames, e # d
      PROVE  /\ ActiveIn(e)' = ActiveIn(e)
             /\ \A v : ContentIn(e, v)' = ContentIn(e, v) /\ (PublishedIn(e, v)' <=> PublishedIn(e, v))
  BY <1>1 DEF ContentIn, ShaIn, ListsIn, PublishedIn, ActiveIn
<1>2. ContentMap' = [ContentMap EXCEPT ![d] = [v \in Versions |-> ContentIn(d, v)']]
  <2>1. \A e \in FileNames : e # d => [v \in Versions |-> ContentIn(e, v)'] = [v \in Versions |-> ContentIn(e, v)]
    BY <1>1
  <2>. QED
    BY <2>1 DEF ContentMap
<1>3. PublishedMap' = [PublishedMap EXCEPT ![d] = {v \in Versions : PublishedIn(d, v)'}]
  <2>1. \A e \in FileNames : e # d => {v \in Versions : PublishedIn(e, v)'} = {v \in Versions : PublishedIn(e, v)}
    BY <1>1
  <2>. QED
    BY <2>1 DEF PublishedMap
<1>4. ActiveMap' = [ActiveMap EXCEPT ![d] = ActiveIn(d)']
  BY <1>1 DEF ActiveMap
<1>. QED
  BY <1>2, <1>3, <1>4

(* The actions of OntologyRelease in terms of the map. *)
LEMMA RegisterMaps ==
  ASSUME NEW d, NEW v, NEW c, ContentMap[d][v] = None,
         ContentMap' = [ContentMap EXCEPT ![d][v] = c], UNCHANGED <<PublishedMap, ActiveMap, BoundMap>>
  PROVE  Release!Register(d, v, c)
BY Zenon DEF Release!Register, ContentMap, PublishedMap, ActiveMap, BoundMap, ContentIn, ShaIn, BoundBy

LEMMA PublishMaps ==
  ASSUME NEW d, NEW v, ContentMap[d][v] \in {o \in Snapshots : Reviewed(o)},
         PublishedMap' = [PublishedMap EXCEPT ![d] = @ \cup {v}],
         ActiveMap' = [ActiveMap EXCEPT ![d] = v], UNCHANGED <<ContentMap, BoundMap>>
  PROVE  Release!Publish(d, v)
BY Zenon DEF Release!Publish, ContentMap, PublishedMap, ActiveMap, BoundMap, ContentIn, ShaIn, BoundBy

LEMMA ActivateMaps ==
  ASSUME NEW d, NEW v, v \in PublishedMap[d],
         ActiveMap' = [ActiveMap EXCEPT ![d] = v], UNCHANGED <<ContentMap, PublishedMap, BoundMap>>
  PROVE  Release!Activate(d, v)
BY Zenon DEF Release!Activate, ContentMap, PublishedMap, ActiveMap, BoundMap, ContentIn, ShaIn, BoundBy

LEMMA BindMaps ==
  ASSUME NEW k, NEW d, NEW v,
         v = None => ActiveMap[d] # None, v # None => v \in PublishedMap[d],
         BoundMap' = [BoundMap EXCEPT ![k] = <<d, v>>], UNCHANGED <<ContentMap, PublishedMap, ActiveMap>>
  PROVE  Release!Bind(k, d, v)
BY Zenon DEF Release!Bind, ContentMap, PublishedMap, ActiveMap, BoundMap, ContentIn, ShaIn, BoundBy

LEMMA StutterMaps ==
  ASSUME UNCHANGED <<ContentMap, PublishedMap, ActiveMap, BoundMap>>
  PROVE  UNCHANGED Release!vars
BY Zenon DEF Release!vars, ContentMap, PublishedMap, ActiveMap, BoundMap, ContentIn, ShaIn, BoundBy

-----------------------------------------------------------------------------
(* Each file operation is one step of OntologyRelease or a stutter.        *)

LEMMA RegistrationMaps ==
  ASSUME IInv, ReleaseInvariant, NEW p \in Processes, WriteManifest(p), job[p].op = "register"
  PROVE  Release!Next
<1>1. PICK d \in FileNames, v \in Versions : d = Dir(p) /\ v = job[p].version
  BY Replacing
<1> DEFINE meta == job[p].meta
           n    == job[p].new
           old  == IF manifest[d] = None THEN EmptyManifest(meta.sha) ELSE manifest[d]
<1>2. /\ meta \in Meta /\ job[p] # None
      /\ manifest'[d] = n /\ n # None /\ binding' = binding
      /\ \A e \in FileNames : e # d => manifest'[e] = manifest[e]
  BY <1>1, Replacing
<1>3. /\ old \in Manifest /\ Apart(old) /\ n \in WithVersion(old, meta)
      /\ \A i \in DOMAIN old.versions : FileName[old.versions[i].version] # FileName[meta.version]
      /\ meta.version = v /\ meta.state = "candidate"
      /\ \A u : Lists(old, u) <=> ListsIn(d, u)
      /\ old.active = ActiveIn(d)
  BY <1>1, Registering
<1>4. PICK c \in Snapshots : c = meta.sha
  BY <1>2 DEF ReleaseInvariant, ReviewSound
<1>5. \A u : ListsIn(d, u) => old = manifest[d]
  BY DEF ListsIn
<1> HIDE DEF old, n, meta
<1>6. /\ n.active = old.active
      /\ \A u : Lists(n, u) <=> Lists(old, u) \/ u = v
      /\ ~ Lists(old, v)
      /\ FindVersion(n, v) = meta
      /\ \A u : Lists(old, u) => FindVersion(n, u) = FindVersion(old, u)
  BY <1>2, <1>3, RegistrationShows
<1>7. ASSUME NEW u
      PROVE  /\ ContentIn(d, u)' = IF u = v THEN c ELSE ContentIn(d, u)
             /\ PublishedIn(d, u)' <=> PublishedIn(d, u)
  <2>1. ListsIn(d, u)' <=> ListsIn(d, u) \/ u = v
    BY <1>2, <1>3, <1>6 DEF ListsIn
  <2>2. u # v /\ ListsIn(d, u) => FindVersion(manifest'[d], u) = FindVersion(manifest[d], u)
    BY <1>2, <1>3, <1>5, <1>6
  <2>3. FindVersion(manifest'[d], v) = meta /\ ~ ListsIn(d, v)
    BY <1>2, <1>3, <1>6
  <2>4. \/ u = v /\ ListsIn(d, u)' /\ FindVersion(manifest'[d], u) = meta /\ ~ ListsIn(d, u)
        \/ /\ u # v /\ ListsIn(d, u) /\ ListsIn(d, u)'
           /\ FindVersion(manifest'[d], u) = FindVersion(manifest[d], u)
        \/ u # v /\ ~ ListsIn(d, u) /\ ~ ListsIn(d, u)'
    BY <2>1, <2>2, <2>3
  <2>5. PublishedIn(d, u)' <=> ListsIn(d, u)' /\ FindVersion(manifest'[d], u).state = "published"
    BY DEF PublishedIn, ListsIn, IsPublished
  <2>6. PublishedIn(d, u) <=> ListsIn(d, u) /\ FindVersion(manifest[d], u).state = "published"
    BY DEF PublishedIn, ListsIn, IsPublished
  <2>. QED
    BY <1>3, <1>4, <2>4, <2>5, <2>6 DEF ContentIn, ShaIn
<1>8. ActiveIn(d)' = ActiveIn(d)
  BY <1>2, <1>3, <1>6 DEF ActiveIn
<1>9. ContentMap' = [ContentMap EXCEPT ![d][v] = c]
  <2>1. [u \in Versions |-> ContentIn(d, u)'] = [[u \in Versions |-> ContentIn(d, u)] EXCEPT ![v] = c]
    BY <1>7
  <2>2. ContentMap[d] = [u \in Versions |-> ContentIn(d, u)]
    BY DEF ContentMap
  <2>3. ContentMap' = [ContentMap EXCEPT ![d] = [u \in Versions |-> ContentIn(d, u)']]
    BY <1>2, OneDirectory
  <2>. QED
    BY <2>1, <2>2, <2>3
<1>10. ContentMap[d][v] = None
  BY <1>3, <1>6 DEF ContentMap, ContentIn
<1>11. PublishedMap' = PublishedMap /\ ActiveMap' = ActiveMap
  <2>1. {u \in Versions : PublishedIn(d, u)'} = PublishedMap[d] /\ ActiveIn(d)' = ActiveMap[d]
    BY <1>7, <1>8 DEF PublishedMap, ActiveMap
  <2>2. /\ PublishedMap' = [PublishedMap EXCEPT ![d] = PublishedMap[d]]
        /\ ActiveMap' = [ActiveMap EXCEPT ![d] = ActiveMap[d]]
    BY <1>2, <2>1, OneDirectory
  <2>. QED
    BY <2>2 DEF PublishedMap, ActiveMap
<1>12. Release!Register(d, v, c)
  BY <1>2, <1>9, <1>10, <1>11, MapsUnchanged, RegisterMaps
<1>. QED
  BY <1>12 DEF Release!Next

LEMMA PublicationMaps ==
  ASSUME IInv, ReleaseInvariant, NEW p \in Processes, WriteManifest(p), job[p].op = "publish"
  PROVE  Release!Next
<1>1. PICK d \in FileNames, v \in Versions : d = Dir(p) /\ v = job[p].version
  BY Replacing
<1> DEFINE m == manifest[d]
           n == job[p].new
<1>2. /\ manifest'[d] = n /\ n # None /\ binding' = binding /\ job[p] # None
      /\ \A e \in FileNames : e # d => manifest'[e] = manifest[e]
      /\ m # None => m \in Manifest /\ Apart(m)
  BY <1>1, Replacing
<1>3. ListsIn(d, v) /\ n = MarkPublished(m, v)
  BY <1>1, Replacing DEF NewSound
<1>4. ListsIn(d, v) /\ Reviewed(ShaIn(d, v))
  BY <1>1, Replacing DEF ReleaseInvariant, ReviewSound
<1>5. m # None /\ Lists(m, v)
  BY <1>3 DEF ListsIn
<1>6. ShaIn(d, v) \in Snapshots
  BY <1>2, <1>5, FindEntry DEF ReleaseInvariant, ListedAreSnapshots, ShaIn
<1>7. /\ n.active = v
      /\ \A u : Lists(n, u) <=> Lists(m, u)
      /\ \A u : Lists(m, u) => FindVersion(n, u).sha = FindVersion(m, u).sha
      /\ \A u : IsPublished(n, u) <=> IsPublished(m, u) \/ u = v
  BY <1>2, <1>3, <1>5, PublicationShows
<1> HIDE DEF n
<1>8. ASSUME NEW u
      PROVE  /\ ContentIn(d, u)' = ContentIn(d, u)
             /\ PublishedIn(d, u)' <=> PublishedIn(d, u) \/ u = v
  <2>1. ListsIn(d, u)' <=> ListsIn(d, u)
    BY <1>2, <1>5, <1>7 DEF ListsIn
  <2>2. ListsIn(d, u) => ShaIn(d, u)' = ShaIn(d, u)
    BY <1>2, <1>7 DEF ListsIn, ShaIn
  <2>3. PublishedIn(d, u)' <=> PublishedIn(d, u) \/ u = v
    BY <1>2, <1>5, <1>7 DEF PublishedIn
  <2>. QED
    BY <2>1, <2>2, <2>3 DEF ContentIn
<1>9. ActiveIn(d)' = v
  BY <1>2, <1>7 DEF ActiveIn
<1>10. ContentMap' = ContentMap
  <2>1. [u \in Versions |-> ContentIn(d, u)'] = ContentMap[d]
    BY <1>8 DEF ContentMap
  <2>2. ContentMap' = [ContentMap EXCEPT ![d] = ContentMap[d]]
    BY <1>2, <2>1, OneDirectory
  <2>. QED
    BY <2>2 DEF ContentMap
<1>11. PublishedMap' = [PublishedMap EXCEPT ![d] = @ \cup {v}]
  <2>1. {u \in Versions : PublishedIn(d, u)'} = PublishedMap[d] \cup {v}
    BY <1>8 DEF PublishedMap
  <2>. QED
    BY <1>2, <2>1, OneDirectory
<1>12. ActiveMap' = [ActiveMap EXCEPT ![d] = v]
  BY <1>2, <1>9, OneDirectory
<1>13. ContentMap[d][v] \in {o \in Snapshots : Reviewed(o)}
  BY <1>4, <1>6 DEF ContentMap, ContentIn
<1>14. Release!Publish(d, v)
  BY <1>2, <1>10, <1>11, <1>12, <1>13, MapsUnchanged, PublishMaps
<1>. QED
  BY <1>14 DEF Release!Next

LEMMA ActivationMaps ==
  ASSUME IInv, NEW p \in Processes, WriteManifest(p), job[p].op = "activate"
  PROVE  Release!Next
<1>1. PICK d \in FileNames, v \in Versions : d = Dir(p) /\ v = job[p].version
  BY Replacing
<1> DEFINE m == manifest[d]
           n == job[p].new
<1>2. /\ manifest'[d] = n /\ n # None /\ binding' = binding
      /\ \A e \in FileNames : e # d => manifest'[e] = manifest[e]
      /\ m # None => m \in Manifest /\ Apart(m)
  BY <1>1, Replacing
<1>3. PublishedIn(d, v) /\ n = [m EXCEPT !.active = v]
  BY <1>1, Replacing DEF NewSound
<1>4. m # None
  BY <1>3 DEF PublishedIn
<1>5. /\ n.active = v
      /\ \A u : Lists(n, u) = Lists(m, u) /\ FindVersion(n, u) = FindVersion(m, u)
  BY <1>2, <1>3, <1>4, ActivationShows
<1> HIDE DEF n
<1>6. ASSUME NEW u
      PROVE  ContentIn(d, u)' = ContentIn(d, u) /\ (PublishedIn(d, u)' <=> PublishedIn(d, u))
  BY <1>2, <1>4, <1>5 DEF ContentIn, ShaIn, ListsIn, PublishedIn, IsPublished
<1>7. ActiveIn(d)' = v
  BY <1>2, <1>5 DEF ActiveIn
<1>8. ContentMap' = ContentMap
  <2>1. [u \in Versions |-> ContentIn(d, u)'] = ContentMap[d]
    BY <1>6 DEF ContentMap
  <2>2. ContentMap' = [ContentMap EXCEPT ![d] = ContentMap[d]]
    BY <1>2, <2>1, OneDirectory
  <2>. QED
    BY <2>2 DEF ContentMap
<1>9. PublishedMap' = PublishedMap
  <2>1. {u \in Versions : PublishedIn(d, u)'} = PublishedMap[d]
    BY <1>6 DEF PublishedMap
  <2>2. PublishedMap' = [PublishedMap EXCEPT ![d] = PublishedMap[d]]
    BY <1>2, <2>1, OneDirectory
  <2>. QED
    BY <2>2 DEF PublishedMap
<1>10. ActiveMap' = [ActiveMap EXCEPT ![d] = v]
  BY <1>2, <1>7, OneDirectory
<1>11. v \in PublishedMap[d]
  BY <1>3 DEF PublishedMap
<1>12. Release!Activate(d, v)
  BY <1>2, <1>8, <1>9, <1>10, <1>11, MapsUnchanged, ActivateMaps
<1>. QED
  BY <1>12 DEF Release!Next

LEMMA BindingMaps ==
  ASSUME IInv, NEW p \in Processes, WriteBinding(p)
  PROVE  Release!Next
<1>1. job[p] # None /\ job[p].pc = "binding" /\ manifest' = manifest
  BY DEF WriteBinding, At
<1>2. job[p] \in Job /\ JobSound(p) /\ job[p].op = "bind"
  BY <1>1, Running DEF StepsOf, Job
<1>3. /\ job[p].id \in OntologyIds /\ job[p].kb \in KnowledgeBases
      /\ job[p].version \in Versions \cup {None}
      /\ Bindable(job[p].id, job[p].mode, job[p].version)
  BY <1>1, <1>2 DEF JobSound, Job
<1>4. PICK d \in FileNames, k \in FileNames, v \in Versions \cup {None} :
        d = FileName[job[p].id] /\ k = FileName[job[p].kb] /\ v = job[p].version
  BY <1>3, NamesTyped
<1> DEFINE b == [kb |-> job[p].kb, id |-> job[p].id, mode |-> job[p].mode, version |-> job[p].version]
<1>5. binding' = [binding EXCEPT ![k] = b]
  BY <1>4 DEF WriteBinding
<1>6. b # None
  <2>1. job[p].mode \in {"active", "pinned"}
    BY <1>1, <1>2 DEF Job, JobSound
  <2>2. b \in Binding
    BY <1>3, <2>1 DEF Binding
  <2>. QED
    BY <2>2, SentinelAssumption
<1>7. b.id = job[p].id /\ b.version = job[p].version
  OBVIOUS
<1> HIDE DEF b
<1>8. ASSUME NEW f \in FileNames
      PROVE  BoundBy(f)' = IF f = k THEN <<d, v>> ELSE BoundBy(f)
  <2>1. binding'[f] = IF f = k THEN b ELSE binding[f]
    BY <1>5 DEF IInv, TypeOK
  <2>2. CASE f = k
    BY <1>4, <1>6, <1>7, <2>1, <2>2 DEF BoundBy
  <2>3. CASE f # k
    BY <2>1, <2>3 DEF BoundBy
  <2>. QED
    BY <2>2, <2>3
<1>9. BoundMap' = [BoundMap EXCEPT ![k] = <<d, v>>]
  BY <1>8 DEF BoundMap
<1>10. v = None => ActiveMap[d] # None
  BY <1>3, <1>4 DEF Bindable, ActiveMap
<1>11. v # None => v \in PublishedMap[d]
  BY <1>3, <1>4 DEF Bindable, PublishedMap
<1>12. Release!Bind(k, d, v)
  BY <1>1, <1>9, <1>10, <1>11, MapsUnchanged, BindMaps
<1>. QED
  BY <1>12 DEF Release!Next

LEMMA StepMaps ==
  ASSUME IInv, ReleaseInvariant, [Next]_vars
  PROVE  [Release!Next]_(Release!vars)
<1>1. ASSUME UNCHANGED <<manifest, binding>>
      PROVE  UNCHANGED Release!vars
  BY <1>1, MapsUnchanged, StutterMaps
<1>2. ASSUME NEW p \in Processes, Begin(p) \/ Proceed(p) \/ Fail(p)
      PROVE  [Release!Next]_(Release!vars)
  <2>1. CASE WriteManifest(p)
    <3>1. job[p].op \in {"register", "publish", "activate"}
      BY <2>1, Replacing
    <3>. QED
      BY <2>1, <3>1, RegistrationMaps, PublicationMaps, ActivationMaps
  <2>2. CASE WriteBinding(p)
    BY <2>2, BindingMaps
  <2>3. CASE UNCHANGED <<manifest, binding>>
    BY <1>1, <2>3
  <2>. QED
    BY <1>2, <2>1, <2>2, <2>3, QuietRegistry
<1>3. CASE UNCHANGED vars
  BY <1>1, <1>3 DEF vars
<1>. QED
  BY <1>2, <1>3 DEF Next

LEMMA InitMaps == Init => Release!Init
<1> SUFFICES ASSUME Init PROVE Release!Init
  OBVIOUS
<1>1. \A d \in FileNames : manifest[d] = None /\ binding[d] = None
  BY DEF Init
<1>2. /\ \A d \in FileNames, v \in Versions : ContentIn(d, v) = None /\ ~ PublishedIn(d, v)
      /\ \A d \in FileNames : ActiveIn(d) = None /\ BoundBy(d) = None
  BY <1>1 DEF ContentIn, ListsIn, PublishedIn, ActiveIn, BoundBy
<1>3. /\ ContentMap = [d \in FileNames |-> [v \in Versions |-> None]]
      /\ PublishedMap = [d \in FileNames |-> {}]
      /\ ActiveMap = [d \in FileNames |-> None]
      /\ BoundMap = [d \in FileNames |-> None]
  BY <1>2 DEF ContentMap, PublishedMap, ActiveMap, BoundMap
<1>. QED
  BY <1>3, Zenon
  DEF Release!Init, ContentMap, PublishedMap, ActiveMap, BoundMap, ContentIn, ShaIn, BoundBy

LEMMA InitReviewed == Init => ReleaseInvariant
BY DEF Init, ReleaseInvariant, ListedAreSnapshots, ReviewSound

(* What is listed was submitted, and what is about to be published was     *)
(* read and found fit, whatever other processes and failures do.           *)
THEOREM PublicationsAreReviewed ==
  ASSUME SoleOwner
  PROVE  Spec => []ReleaseInvariant
<1>1. Init => ReleaseInvariant
  BY InitReviewed
<1>2. IInv /\ ReleaseInvariant /\ [Next]_vars => ReleaseInvariant'
  BY NextReviewed
<1>3. Spec => []IInv
  BY RegistryIsSound DEF IInv
<1>. QED
  BY <1>1, <1>2, <1>3, PTL DEF Spec

(* The files of the registry keep the promise of its documentation,        *)
(* whatever fails between two of them.                                     *)
THEOREM RegistryImplementsRelease ==
  ASSUME SoleOwner
  PROVE  Spec => ImplementsRelease
<1>1. Init => Release!Init
  BY InitMaps
<1>2. IInv /\ ReleaseInvariant /\ [Next]_vars => [Release!Next]_(Release!vars)
  BY StepMaps
<1>3. Spec => []IInv
  BY RegistryIsSound DEF IInv
<1>. QED
  BY <1>1, <1>2, <1>3, PublicationsAreReviewed, PTL DEF Spec, ImplementsRelease, Release!Spec
=============================================================================
