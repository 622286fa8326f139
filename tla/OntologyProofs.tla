--------------------------- MODULE OntologyProofs ---------------------------
(***************************************************************************)
(* Proofs about OntologyRegistry: for any number of processes, ontologies  *)
(* and knowledge bases, any way of naming files and any failures, what a   *)
(* knowledge base is bound to can be served, provided that no two          *)
(* processes change one ontology directory (SoleOwner).                    *)
(***************************************************************************)
EXTENDS OntologyProperties, SequenceTheorems, TLAPS

-----------------------------------------------------------------------------
(* Manifests.                                                              *)

(* No two versions of a manifest share a file. *)
Apart(m) ==
  \A i, j \in DOMAIN m.versions :
    FileName[m.versions[i].version] = FileName[m.versions[j].version] => i = j

(* Every version of m is in n, with its content; published ones unchanged. *)
Grows(m, n) ==
  /\ \A v : Lists(m, v) =>
       Lists(n, v) /\ FindVersion(n, v).sha = FindVersion(m, v).sha
  /\ \A v : IsPublished(m, v) =>
       IsPublished(n, v) /\ FindVersion(n, v) = FindVersion(m, v)
  /\ m.active # None => n.active # None

(* findVersion returns the one entry of a version. *)
LEMMA FindUnique ==
  ASSUME NEW m \in Manifest, Apart(m), NEW i \in DOMAIN m.versions
  PROVE  /\ Lists(m, m.versions[i].version)
         /\ EntryOf(m, m.versions[i].version) = i
         /\ FindVersion(m, m.versions[i].version) = m.versions[i]
<1> DEFINE v == m.versions[i].version
<1>1. m.versions \in Seq(Meta)
  BY DEF Manifest
<1>2. EntriesOf(m, v) = {i}
  BY <1>1 DEF EntriesOf, Apart
<1>3. EntryOf(m, v) = i
  <2>1. i \in Int
    BY <1>1
  <2>2. \A j \in {i} : i <= j
    BY <2>1
  <2>. QED
    BY <1>2, <2>2, Zenon DEF EntryOf
<1>. QED
  BY <1>2, <1>3 DEF Lists, FindVersion

LEMMA FindEntry ==
  ASSUME NEW m \in Manifest, Apart(m), NEW v, Lists(m, v)
  PROVE  /\ EntryOf(m, v) \in DOMAIN m.versions
         /\ m.versions[EntryOf(m, v)].version = v
         /\ FindVersion(m, v) = m.versions[EntryOf(m, v)]
<1>1. PICK i \in DOMAIN m.versions : m.versions[i].version = v
  BY DEF Lists, EntriesOf
<1>. QED
  BY <1>1, FindUnique DEF FindVersion

(* InsertAt puts e at place k and keeps the others in their order. *)
LEMMA InsertAtShape ==
  ASSUME NEW s \in Seq(Meta), NEW k \in 1..(Len(s) + 1), NEW e \in Meta
  PROVE  /\ InsertAt(s, k, e) \in Seq(Meta)
         /\ Len(InsertAt(s, k, e)) = Len(s) + 1
         /\ \A j \in 1..(Len(s) + 1) :
              InsertAt(s, k, e)[j] = IF j < k THEN s[j] ELSE IF j = k THEN e ELSE s[j - 1]
<1> DEFINE a == SubSeq(s, 1, k - 1)
           b == SubSeq(s, k, Len(s))
           c == a \o <<e>>
<1>1. Len(s) \in Nat /\ k \in Nat
  OBVIOUS
<1>2. a \in Seq(Meta) /\ Len(a) = k - 1 /\ \A j \in 1..(k - 1) : a[j] = s[j]
  OBVIOUS
<1>3. /\ b \in Seq(Meta) /\ Len(b) = Len(s) - k + 1
      /\ \A j \in 1..(Len(s) - k + 1) : b[j] = s[j + k - 1]
  OBVIOUS
<1>4. <<e>> \in Seq(Meta) /\ Len(<<e>>) = 1 /\ <<e>>[1] = e
  OBVIOUS
<1>5. InsertAt(s, k, e) = c \o b
  BY DEF InsertAt
<1> HIDE DEF a, b
<1>6. /\ c \in Seq(Meta) /\ Len(c) = Len(a) + 1
      /\ \A j \in 1..(Len(a) + 1) : c[j] = IF j <= Len(a) THEN a[j] ELSE <<e>>[j - Len(a)]
  BY ONLY <1>2, <1>4, ConcatProperties, Zenon
<1> HIDE DEF c
<1>7. /\ c \o b \in Seq(Meta) /\ Len(c \o b) = Len(c) + Len(b)
      /\ \A j \in 1..(Len(c) + Len(b)) :
           (c \o b)[j] = IF j <= Len(c) THEN c[j] ELSE b[j - Len(c)]
  BY <1>3, <1>6, ConcatProperties
<1>8. ASSUME NEW j \in 1..(Len(s) + 1)
      PROVE  (c \o b)[j] = IF j < k THEN s[j] ELSE IF j = k THEN e ELSE s[j - 1]
  <2>1. j \in 1..(Len(c) + Len(b)) /\ Len(c) = k /\ j \in Nat
    <3>1. Len(a) = k - 1 /\ Len(c) = Len(a) + 1 /\ Len(b) = Len(s) - k + 1
      BY ONLY <1>2, <1>3, <1>6, Zenon
    <3>. QED
      BY ONLY <1>1, <1>8, <3>1
  <2>2. CASE j < k
    <3>1. j \in 1..(k - 1) /\ j <= Len(a) /\ j <= Len(c) /\ j \in 1..(Len(a) + 1)
      <4>1. Len(a) = k - 1 /\ Len(c) = k /\ k \in Nat /\ j \in Nat /\ j >= 1
        BY <1>1, <1>2, <2>1
      <4>. QED
        BY ONLY <4>1, <2>2
    <3>2. (c \o b)[j] = c[j]
      BY ONLY <1>7, <2>1, <3>1
    <3>3. c[j] = a[j] /\ a[j] = s[j]
      BY ONLY <1>2, <1>6, <3>1
    <3>. QED
      BY ONLY <2>2, <3>2, <3>3
  <2>3. CASE j = k
    <3>1. k <= Len(c) /\ k \in 1..(Len(a) + 1) /\ ~ (k <= Len(a)) /\ k - Len(a) = 1
      BY ONLY <1>1, <1>2, <2>1, <2>3
    <3>2. (c \o b)[j] = c[k]
      BY ONLY <1>7, <2>1, <2>3, <3>1
    <3>3. c[k] = <<e>>[k - Len(a)]
      BY ONLY <1>6, <3>1
    <3>. QED
      BY ONLY <3>1, <3>2, <3>3, <1>1, <1>4, <2>3
  <2>4. CASE j > k
    <3>1. (c \o b)[j] = b[j - k]
      BY <1>1, <1>7, <2>1, <2>4
    <3>2. j - k \in 1..(Len(s) - k + 1) /\ j - k + k - 1 = j - 1
      BY <1>1, <2>1, <2>4
    <3>3. b[j - k] = s[j - k + k - 1]
      BY <1>3, <3>2
    <3>. QED
      BY <3>1, <3>2, <3>3, <1>1, <2>1, <2>4
  <2>. QED
    BY <1>1, <2>1, <2>2, <2>3, <2>4
<1>9. Len(c \o b) = Len(s) + 1
  BY <1>1, <1>2, <1>3, <1>6, <1>7
<1>. QED
  BY <1>5, <1>7, <1>8, <1>9

(* Where the new entry and the others are after the sort. *)
LEMMA WithVersionShape ==
  ASSUME NEW m \in Manifest, NEW meta \in Meta, NEW n \in WithVersion(m, meta)
  PROVE  /\ n \in Manifest /\ n.id = m.id /\ n.active = m.active
         /\ Len(n.versions) = Len(m.versions) + 1
         /\ \E k \in 1..(Len(m.versions) + 1) :
              \A j \in 1..(Len(m.versions) + 1) :
                n.versions[j] = IF j < k THEN m.versions[j]
                                ELSE IF j = k THEN meta ELSE m.versions[j - 1]
<1>1. m.versions \in Seq(Meta)
  BY DEF Manifest
<1>2. PICK k \in 1..(Len(m.versions) + 1) :
        n = [m EXCEPT !.versions = InsertAt(m.versions, k, meta)]
  BY DEF WithVersion
<1>3. n.versions = InsertAt(m.versions, k, meta)
  BY <1>2 DEF Manifest
<1>4. /\ n.versions \in Seq(Meta)
      /\ Len(n.versions) = Len(m.versions) + 1
      /\ \A j \in 1..(Len(m.versions) + 1) :
           n.versions[j] = IF j < k THEN m.versions[j]
                           ELSE IF j = k THEN meta ELSE m.versions[j - 1]
  <2> DEFINE s == m.versions
             t == n.versions
  <2>1. s \in Seq(Meta) /\ k \in 1..(Len(s) + 1) /\ t = InsertAt(s, k, meta)
    BY <1>1, <1>3
  <2> HIDE DEF s, t
  <2>2. /\ t \in Seq(Meta)
        /\ Len(t) = Len(s) + 1
        /\ \A j \in 1..(Len(s) + 1) :
             t[j] = IF j < k THEN s[j] ELSE IF j = k THEN meta ELSE s[j - 1]
    <3>1. s \in Seq(Meta) /\ k \in 1..(Len(s) + 1) /\ meta \in Meta
      BY <2>1
    <3>2. /\ InsertAt(s, k, meta) \in Seq(Meta)
          /\ Len(InsertAt(s, k, meta)) = Len(s) + 1
          /\ \A j \in 1..(Len(s) + 1) :
               InsertAt(s, k, meta)[j]
                 = IF j < k THEN s[j] ELSE IF j = k THEN meta ELSE s[j - 1]
      BY <3>1, InsertAtShape
    <3>3. t = InsertAt(s, k, meta)
      BY <2>1
    <3>. QED
      BY ONLY <3>2, <3>3, Zenon
  <2>. QED
    BY ONLY <2>2, ZenonT(60) DEF s, t
<1>5. n \in Manifest /\ n.id = m.id /\ n.active = m.active
  BY <1>2, <1>3, <1>4 DEF Manifest
<1>. QED
  BY <1>4, <1>5

LEMMA WithVersionGrows ==
  ASSUME NEW m \in Manifest, Apart(m), NEW meta \in Meta, NEW n \in WithVersion(m, meta),
         \A i \in DOMAIN m.versions : FileName[m.versions[i].version] # FileName[meta.version]
  PROVE  /\ Apart(n) /\ Grows(m, n) /\ Lists(n, meta.version)
         /\ \A j \in DOMAIN n.versions :
              n.versions[j] = meta \/ \E i \in DOMAIN m.versions : n.versions[j] = m.versions[i]
<1>1. /\ n \in Manifest /\ n.id = m.id /\ n.active = m.active
      /\ Len(n.versions) = Len(m.versions) + 1
  BY WithVersionShape
<1>2. PICK k \in 1..(Len(m.versions) + 1) :
        \A j \in 1..(Len(m.versions) + 1) :
          n.versions[j] = IF j < k THEN m.versions[j]
                          ELSE IF j = k THEN meta ELSE m.versions[j - 1]
  BY WithVersionShape
<1>3. m.versions \in Seq(Meta) /\ n.versions \in Seq(Meta)
  BY <1>1 DEF Manifest
<1>4. DOMAIN m.versions = 1..Len(m.versions) /\ DOMAIN n.versions = 1..(Len(m.versions) + 1)
      /\ Len(m.versions) \in Nat
  BY <1>1, <1>3
<1> DEFINE old(j) == IF j < k THEN j ELSE j - 1
<1>5. ASSUME NEW j \in DOMAIN n.versions
      PROVE  \/ j = k /\ n.versions[j] = meta
             \/ j # k /\ old(j) \in DOMAIN m.versions /\ n.versions[j] = m.versions[old(j)]
  <2>1. j \in 1..(Len(m.versions) + 1) /\ Len(m.versions) \in Nat /\ k \in 1..(Len(m.versions) + 1)
    BY <1>4
  <2>2. n.versions[j] = IF j < k THEN m.versions[j]
                        ELSE IF j = k THEN meta ELSE m.versions[j - 1]
    BY <1>2, <2>1
  <2>3. CASE j < k
    BY <2>1, <2>2, <2>3, <1>4
  <2>4. CASE j = k
    BY <2>1, <2>2, <2>4
  <2>5. CASE j > k
    BY <2>1, <2>2, <2>5, <1>4
  <2>. QED
    BY <2>1, <2>3, <2>4, <2>5
<1>6. Apart(n)
  <2> SUFFICES ASSUME NEW i \in DOMAIN n.versions, NEW j \in DOMAIN n.versions,
                      FileName[n.versions[i].version] = FileName[n.versions[j].version]
               PROVE  i = j
    BY DEF Apart
  <2>1. CASE i = k \/ j = k
    BY <2>1, <1>5
  <2>2. CASE i # k /\ j # k
    <3>1. /\ n.versions[i] = m.versions[old(i)] /\ old(i) \in DOMAIN m.versions
          /\ n.versions[j] = m.versions[old(j)] /\ old(j) \in DOMAIN m.versions
      BY <2>2, <1>5
    <3>2. old(i) = old(j)
      BY <3>1 DEF Apart
    <3>. QED
      BY <2>2, <3>2, <1>4
  <2>. QED
    BY <2>1, <2>2
<1>7. ASSUME NEW v, Lists(m, v)
      PROVE  Lists(n, v) /\ FindVersion(n, v) = FindVersion(m, v)
  <2> DEFINE i == EntryOf(m, v)
             j == IF i < k THEN i ELSE i + 1
  <2>1. i \in DOMAIN m.versions /\ m.versions[i].version = v /\ FindVersion(m, v) = m.versions[i]
    BY <1>7, FindEntry
  <2> HIDE DEF i
  <2>2. i \in 1..Len(m.versions) /\ j \in 1..(Len(m.versions) + 1) /\ j \in DOMAIN n.versions
    BY <2>1, <1>4
  <2>3. n.versions[j] = m.versions[i]
    <3>1. CASE i < k
      BY <2>2, <3>1, <1>2
    <3>2. CASE ~ (i < k)
      <4>1. j = i + 1 /\ ~ (j < k) /\ j # k /\ j - 1 = i
        BY <2>2, <3>2
      <4>. QED
        BY <2>2, <4>1, <1>2
    <3>. QED
      BY <3>1, <3>2
  <2>. QED
    BY <2>1, <2>2, <2>3, <1>1, <1>6, FindUnique
<1>8. Grows(m, n)
  BY <1>1, <1>7 DEF Grows, IsPublished
<1>9. Lists(n, meta.version)
  BY <1>2, <1>4, <1>1, <1>6, FindUnique
<1>. QED
  BY <1>5, <1>6, <1>8, <1>9

LEMMA MarkPublishedGrows ==
  ASSUME NEW m \in Manifest, Apart(m), NEW v \in Versions, Lists(m, v)
  PROVE  LET n == MarkPublished(m, v) IN
         /\ n \in Manifest /\ n.id = m.id /\ n.active = v /\ IsPublished(n, v)
         /\ DOMAIN n.versions = DOMAIN m.versions
         /\ \A i \in DOMAIN m.versions : n.versions[i].version = m.versions[i].version
                                         /\ n.versions[i].sha = m.versions[i].sha
         /\ Apart(n) /\ Grows(m, n)
<1> DEFINE n == MarkPublished(m, v)
           e == EntryOf(m, v)
<1>1. e \in DOMAIN m.versions /\ m.versions[e].version = v
  BY FindEntry
<1>2. m.versions \in Seq(Meta)
  BY DEF Manifest
<1>3. n.versions = [m.versions EXCEPT ![e] = [m.versions[e] EXCEPT !.state = "published"]]
  BY DEF MarkPublished, Manifest
<1>4. n.versions \in Seq(Meta) /\ DOMAIN n.versions = DOMAIN m.versions
  <2>1. [m.versions[e] EXCEPT !.state = "published"] \in Meta
    <3>1. m.versions[e] \in Meta
      BY <1>1, <1>2
    <3>. QED
      BY <3>1 DEF Meta
  <2>. QED
    BY <2>1, <1>1, <1>2, <1>3
<1>5. n \in Manifest /\ n.id = m.id /\ n.active = v
  BY <1>3, <1>4 DEF MarkPublished, Manifest
<1>6. ASSUME NEW i \in DOMAIN m.versions
      PROVE  /\ n.versions[i].version = m.versions[i].version
             /\ n.versions[i].sha = m.versions[i].sha
             /\ m.versions[i].state = "published" => n.versions[i] = m.versions[i]
             /\ i = e => n.versions[i].state = "published"
  <2>1. m.versions[i] \in Meta
    BY <1>2
  <2>2. CASE i = e
    BY <2>1, <2>2, <1>3 DEF Meta
  <2>3. CASE i # e
    BY <2>1, <2>3, <1>3, <1>1
  <2>. QED
    BY <2>2, <2>3
<1>7. Apart(n)
  BY <1>4, <1>6 DEF Apart
<1>8. ASSUME NEW u, Lists(m, u)
      PROVE  /\ Lists(n, u) /\ FindVersion(n, u).sha = FindVersion(m, u).sha
             /\ FindVersion(m, u).state = "published" => FindVersion(n, u) = FindVersion(m, u)
  <2> DEFINE i == EntryOf(m, u)
  <2>1. i \in DOMAIN m.versions /\ m.versions[i].version = u /\ FindVersion(m, u) = m.versions[i]
    BY <1>8, FindEntry
  <2>2. Lists(n, u) /\ FindVersion(n, u) = n.versions[i]
    BY <2>1, <1>4, <1>5, <1>6, <1>7, FindUnique
  <2>. QED
    BY <2>1, <2>2, <1>6
<1>9. Grows(m, n)
  <2>1. v # None
    BY NoneAssumption DEF Names
  <2>. QED
    BY <1>5, <1>8, <2>1 DEF Grows, IsPublished
<1>10. IsPublished(n, v)
  BY <1>1, <1>4, <1>5, <1>6, <1>7, FindUnique DEF IsPublished
<1>. QED
  BY <1>4, <1>5, <1>6, <1>7, <1>9, <1>10

LEMMA ActivationGrows ==
  ASSUME NEW m \in Manifest, NEW v \in Versions
  PROVE  LET n == [m EXCEPT !.active = v] IN
         /\ n \in Manifest /\ n.id = m.id /\ n.active = v /\ n.versions = m.versions
         /\ Grows(m, n)
         /\ \A u : IsPublished(m, u) => IsPublished(n, u)
<1> DEFINE n == [m EXCEPT !.active = v]
<1>1. n \in Manifest /\ n.id = m.id /\ n.active = v /\ n.versions = m.versions
  BY DEF Manifest
<1>2. \A u : EntriesOf(n, u) = EntriesOf(m, u)
  BY <1>1 DEF EntriesOf
<1>3. ASSUME NEW u
      PROVE  Lists(n, u) = Lists(m, u) /\ FindVersion(n, u) = FindVersion(m, u)
  <2>1. EntriesOf(n, u) = EntriesOf(m, u)
    BY <1>2
  <2>2. EntryOf(n, u) = EntryOf(m, u)
    BY <2>1, Zenon DEF EntryOf
  <2>. QED
    BY <1>1, <2>1, <2>2 DEF Lists, FindVersion
<1>. QED
  BY <1>1, <1>3, NoneAssumption DEF Grows, IsPublished, Names

-----------------------------------------------------------------------------
(* The files.                                                              *)

IInv == TypeOK /\ RegistryInvariant

(* Nothing that was listed, published, active or served is lost. *)
FilesGrow ==
  /\ \A d \in FileNames : manifest[d] # None =>
       manifest'[d] # None /\ Grows(manifest[d], manifest'[d])
  /\ \A d \in FileNames, v \in Versions : ListsIn(d, v) =>
       payload'[d][FileName[v]] = payload[d][FileName[v]]

LEMMA NamesTyped ==
  /\ \A id \in OntologyIds : FileName[id] \in FileNames
  /\ \A v \in Versions : FileName[v] \in FileNames
  /\ \A k \in KnowledgeBases : FileName[k] \in FileNames
BY FileNameAssumption DEF Names

(* What the files promise in a state they promise in the next one. *)
LEMMA PromisesKept ==
  ASSUME FilesGrow, NEW d \in FileNames, NEW v
  PROVE  /\ ListsIn(d, v) => ListsIn(d, v)'
         /\ PublishedIn(d, v) =>
              PublishedIn(d, v)' /\ FindVersion(manifest'[d], v) = FindVersion(manifest[d], v)
         /\ ActiveIn(d) # None => (ActiveIn(d) # None)'
         /\ v \in Versions /\ Served(d, v) => Served(d, v)'
<1>1. ListsIn(d, v) => ListsIn(d, v)'
  BY DEF FilesGrow, Grows, ListsIn
<1>2. PublishedIn(d, v) =>
        PublishedIn(d, v)' /\ FindVersion(manifest'[d], v) = FindVersion(manifest[d], v)
  BY DEF FilesGrow, Grows, PublishedIn
<1>3. ActiveIn(d) # None => (ActiveIn(d) # None)'
  BY DEF FilesGrow, Grows, ActiveIn
<1>4. PublishedIn(d, v) => ListsIn(d, v)
  BY DEF PublishedIn, ListsIn, IsPublished
<1>5. v \in Versions /\ Served(d, v) => Served(d, v)'
  BY <1>2, <1>4 DEF FilesGrow, Served
<1>. QED
  BY <1>1, <1>2, <1>3, <1>5

LEMMA BindableKept ==
  ASSUME FilesGrow, NEW id \in OntologyIds, NEW mode, NEW v, Bindable(id, mode, v)
  PROVE  Bindable(id, mode, v)'
<1>1. FileName[id] \in FileNames
  BY NamesTyped
<1>. QED
  BY <1>1, PromisesKept DEF Bindable

LEMMA HappenedKept ==
  ASSUME FilesGrow, NEW e \in Event, Happened(e)
  PROVE  Happened(e)'
<1>1. FileName[e.id] \in FileNames
  BY NamesTyped DEF Event
<1>2. /\ ListsIn(FileName[e.id], e.version) => ListsIn(FileName[e.id], e.version)'
      /\ PublishedIn(FileName[e.id], e.version) => PublishedIn(FileName[e.id], e.version)'
  BY <1>1, PromisesKept
<1>. QED
  BY <1>2 DEF Happened, Event

(* What a sound manifest says of a version it lists. *)
LEMMA SoundEntry ==
  ASSUME TypeOK, NEW d \in FileNames, ManifestSound(d), NEW v, ListsIn(d, v)
  PROVE  /\ v \in Versions
         /\ FindVersion(manifest[d], v) \in Meta
         /\ FindVersion(manifest[d], v).version = v
         /\ payload[d][FileName[v]] = FindVersion(manifest[d], v).sha
<1> DEFINE m == manifest[d]
<1>1. m \in Manifest /\ m # None
  BY DEF TypeOK, ListsIn
<1>2. Apart(m)
  BY <1>1 DEF ManifestSound, Apart
<1>3. /\ EntryOf(m, v) \in DOMAIN m.versions
      /\ m.versions[EntryOf(m, v)].version = v
      /\ FindVersion(m, v) = m.versions[EntryOf(m, v)]
  BY <1>1, <1>2, FindEntry DEF ListsIn
<1>4. m.versions[EntryOf(m, v)] \in Meta
  BY <1>1, <1>3 DEF Manifest
<1>5. payload[d][FileName[v]] = m.versions[EntryOf(m, v)].sha
  BY <1>1, <1>3 DEF ManifestSound
<1>6. v \in Versions
  BY <1>3, <1>4 DEF Meta
<1>. QED
  BY <1>3, <1>4, <1>5, <1>6

LEMMA PublishedIsServed ==
  ASSUME TypeOK, NEW d \in FileNames, ManifestSound(d), NEW v, PublishedIn(d, v)
  PROVE  Served(d, v)
BY SoundEntry DEF PublishedIn, ListsIn, IsPublished, Served

(* A binding can be followed. *)
LEMMA BindableIsServed ==
  ASSUME TypeOK, \A d \in FileNames : ManifestSound(d),
         NEW id \in OntologyIds, NEW mode, NEW v, Bindable(id, mode, v)
  PROVE  LET d == FileName[id]
             u == IF mode = "active" THEN manifest[d].active ELSE v
         IN manifest[d] # None /\ u # None /\ Served(d, u)
<1> DEFINE d == FileName[id]
           u == IF mode = "active" THEN manifest[d].active ELSE v
<1>1. d \in FileNames
  BY NamesTyped
<1>2. manifest[d] # None /\ u # None /\ PublishedIn(d, u)
  <2>1. CASE mode = "active"
    BY <1>1, <2>1 DEF Bindable, ActiveIn, ManifestSound, PublishedIn
  <2>2. CASE mode # "active"
    BY <1>1, <2>2 DEF Bindable, PublishedIn
  <2>. QED
    BY <2>1, <2>2
<1>. QED
  BY <1>1, <1>2, PublishedIsServed

-----------------------------------------------------------------------------
(* The steps of one process.                                               *)

(* Directories of which p owns no ontology are as they were. *)
Elsewhere(p) ==
  \A d \in FileNames : (\A id \in Owns[p] : FileName[id] # d) =>
    manifest'[d] = manifest[d] /\ payload'[d] = payload[d]

(* A step of p that its own knowledge justifies. *)
SoundStep(p) ==
  /\ \A q \in Processes : q # p => job'[q] = job[q]
  /\ FilesGrow
  /\ Elsewhere(p)
  /\ \A d \in FileNames : ManifestSound(d)'
  /\ \A f \in FileNames : binding'[f] = binding[f] \/ BindingSound(f)'
  /\ \A e \in audit' : e \in audit \/ Happened(e)'
  /\ JobSound(p)'
  /\ answer' # "failed"

(* An event of a request that is about to be recorded is one. *)
LEMMA EventTyped ==
  ASSUME TypeOK, NEW p \in Processes, job[p] # None, JobSound(p), job[p].pc = "audit"
  PROVE  EventOf(job[p]) \in Event
<1>1. job[p] \in Job
  BY DEF TypeOK
<1>2. job[p].op \in {"register", "publish", "activate", "bind"}
  BY <1>1 DEF JobSound, StepsOf, Job
<1>3. job[p].id \in OntologyIds
  BY <1>1, <1>2, OwnsAssumption DEF JobSound, Job
<1>. QED
  BY <1>1, <1>2, <1>3 DEF EventOf, Event, Job

(* The knowledge of the other processes survives it. *)
LEMMA OthersKept ==
  ASSUME SoleOwner, TypeOK, NEW p \in Processes, FilesGrow, Elsewhere(p),
         NEW q \in Processes, q # p, JobSound(q), job'[q] = job[q]
  PROVE  JobSound(q)'
<1> DEFINE j == job[q]
<1> SUFFICES ASSUME j # None PROVE JobSound(q)'
  BY DEF JobSound
<1>1. j \in Job
  BY DEF TypeOK
<1>2. ASSUME j.op \in {"register", "publish", "activate"}
      PROVE  /\ Dir(q) \in FileNames
             /\ manifest'[Dir(q)] = manifest[Dir(q)] /\ payload'[Dir(q)] = payload[Dir(q)]
  <2>1. j.id \in Owns[q] /\ j.id \in OntologyIds
    BY <1>2, OwnsAssumption DEF JobSound
  <2>2. Dir(q) \in FileNames
    BY <2>1, NamesTyped DEF Dir
  <2>3. \A id \in Owns[p] : FileName[id] # Dir(q)
    BY <2>1 DEF SoleOwner, Dir
  <2>. QED
    BY <2>2, <2>3 DEF Elsewhere
<1>3. j.op = "register" => RegisterSound(q)'
  <2> HAVE j.op = "register"
  <2>1. RegisterSound(q)
    BY DEF JobSound
  <2>. QED
    BY <1>2, <2>1 DEF RegisterSound, Dir, File
<1>4. j.pc = "binding" => Bindable(j.id, j.mode, j.version)'
  <2> HAVE j.pc = "binding"
  <2>1. j.op = "bind"
    BY <1>1 DEF JobSound, StepsOf, Job
  <2>2. j.id \in OntologyIds
    BY <1>1, <2>1 DEF JobSound, Job
  <2>. QED
    BY <2>2, BindableKept DEF JobSound
<1>5. j.op = "resolve" => ResolveSound(q)'
  <2> HAVE j.op = "resolve"
  <2>1. ResolveSound(q)
    BY DEF JobSound
  <2>2. j.pc # "lookup" => j.id \in OntologyIds /\ Dir(q) \in FileNames
    BY <1>1, <2>1, NamesTyped DEF ResolveSound, Job, Dir
  <2>3. j.pc = "follow" => Bindable(j.id, j.mode, j.version)'
    BY <2>1, <2>2, BindableKept DEF ResolveSound
  <2>4. j.pc \in {"get", "read"} =>
          /\ j.version \in Versions /\ Served(Dir(q), j.version)'
          /\ FindVersion(manifest'[Dir(q)], j.version) = FindVersion(manifest[Dir(q)], j.version)
    BY <1>1, <2>1, <2>2, PromisesKept DEF ResolveSound, Served, Job, Dir
  <2>. QED
    BY <2>1, <2>2, <2>3, <2>4 DEF ResolveSound, Dir
<1>6. j.pc = "manifest" => NewSound(q)'
  <2> HAVE j.pc = "manifest"
  <2>1. NewSound(q)
    BY DEF JobSound
  <2>2. j.op \in {"register", "publish", "activate"}
    BY <1>1 DEF JobSound, StepsOf, Job
  <2>. QED
    BY <1>2, <2>1, <2>2 DEF NewSound, Dir, ListsIn, PublishedIn
<1>7. j.pc = "audit" => Happened(EventOf(j))'
  <2> HAVE j.pc = "audit"
  <2>1. EventOf(j) \in Event
    BY EventTyped
  <2>. QED
    BY <2>1, HappenedKept DEF JobSound
<1>. QED
  BY <1>3, <1>4, <1>5, <1>6, <1>7 DEF JobSound

LEMMA SoundStepKeeps ==
  ASSUME SoleOwner, IInv, TypeOK', NEW p \in Processes, SoundStep(p)
  PROVE  IInv'
<1>1. \A q \in Processes : JobSound(q)'
  BY OthersKept DEF IInv, RegistryInvariant, SoundStep
<1>2. ASSUME NEW f \in FileNames PROVE BindingSound(f)'
  <2> SUFFICES ASSUME binding'[f] = binding[f], binding[f] # None
               PROVE  BindingSound(f)'
    BY <1>2 DEF SoundStep, BindingSound
  <2>1. binding[f].id \in OntologyIds
    BY DEF IInv, TypeOK, Binding
  <2>2. Bindable(binding[f].id, binding[f].mode, binding[f].version)
    BY DEF IInv, RegistryInvariant, BindingSound
  <2>3. Bindable(binding[f].id, binding[f].mode, binding[f].version)'
    BY <2>1, <2>2, BindableKept DEF SoundStep
  <2>. QED
    BY <2>3 DEF BindingSound
<1>3. ASSUME NEW e \in audit' PROVE Happened(e)'
  <2>1. CASE e \in audit
    <3>1. e \in Event /\ Happened(e)
      BY <2>1 DEF IInv, TypeOK, RegistryInvariant, AuditIsTrue
    <3>. QED
      BY <3>1, HappenedKept DEF SoundStep
  <2>. QED
    BY <1>3, <2>1 DEF SoundStep
<1>. QED
  BY <1>1, <1>2, <1>3 DEF IInv, RegistryInvariant, AuditIsTrue, SoundStep

-----------------------------------------------------------------------------
(* Steps that change no file.                                              *)

LEMMA QuietFiles ==
  ASSUME IInv, UNCHANGED files
  PROVE  /\ FilesGrow
         /\ \A p \in Processes : Elsewhere(p)
         /\ \A d \in FileNames : ManifestSound(d)'
BY DEF IInv, RegistryInvariant, files, FilesGrow, Grows, Elsewhere, ManifestSound

(* A request ends, well or not, but not with a binding it cannot serve. *)
LEMMA Answered ==
  ASSUME IInv, NEW p \in Processes, UNCHANGED files, job' = [job EXCEPT ![p] = None],
         answer' \in (Answers \cup {None}) \ {"failed"}
  PROVE  TypeOK' /\ SoundStep(p)
<1>1. TypeOK'
  BY DEF IInv, TypeOK, files
<1>2. job'[p] = None /\ \A q \in Processes : q # p => job'[q] = job[q]
  BY DEF IInv, TypeOK
<1>3. JobSound(p)'
  BY <1>2 DEF JobSound
<1>. QED
  BY <1>1, <1>2, <1>3, QuietFiles DEF SoundStep, files

(* A request goes on, having read a file. *)
LEMMA WentOn ==
  ASSUME IInv, NEW p \in Processes, UNCHANGED files, NEW STATE j,
         job' = [job EXCEPT ![p] = j], j \in Job, JobSound(p)', answer' = None
  PROVE  TypeOK' /\ SoundStep(p)
<1>1. TypeOK'
  BY DEF IInv, TypeOK, files
<1>2. \A q \in Processes : q # p => job'[q] = job[q]
  BY DEF IInv, TypeOK
<1>3. answer' # "failed"
  BY AnswerSentinelAssumption DEF Answers
<1>. QED
  BY <1>1, <1>2, <1>3, QuietFiles DEF SoundStep, files

(* A request of p that begins knows nothing of the files. *)
LEMMA BeginSound ==
  ASSUME IInv, NEW p \in Processes, Begin(p)
  PROVE  TypeOK' /\ SoundStep(p)
<1>1. ASSUME NEW o \in Snapshots, RegisterVersion(p, o)
      PROVE  TypeOK' /\ SoundStep(p)
  <2> DEFINE j == [Request("register", "stat") EXCEPT
                     !.id = o.id, !.version = o.version, !.meta = NewMeta(o)]
  <2>1. o \in Ontology /\ o.id \in Owns[p] /\ o.id \in OntologyIds /\ o.version \in Versions
    BY <1>1, SnapshotsAssumption, OwnsAssumption DEF RegisterVersion, Ontology
  <2>2. NewMeta(o) \in Meta /\ NewMeta(o).sha = o
    BY <2>1 DEF NewMeta, Meta
  <2>3. /\ j \in Job /\ j.pc = "stat" /\ j.op = "register" /\ j.id = o.id
        /\ j.version = o.version /\ j.meta = NewMeta(o) /\ j.kb = None
    BY <2>1, <2>2 DEF Request, Job, Pcs
  <2>4. UNCHANGED files /\ job' = [job EXCEPT ![p] = j] /\ answer' = None
    BY <1>1 DEF RegisterVersion, Start
  <2> HIDE DEF j
  <2>5. job'[p] = j
    BY <2>4 DEF IInv, TypeOK
  <2>6. RegisterSound(p)'
    BY <2>1, <2>2, <2>3, <2>5 DEF RegisterSound
  <2>7. JobSound(p)'
    <3>1. o.version # None
      BY <2>1, NoneAssumption DEF Names
    <3>. QED
      BY <2>1, <2>3, <2>5, <2>6, <3>1 DEF JobSound, StepsOf
  <2>. QED
    BY <2>3, <2>4, <2>7, WentOn
<1>2. ASSUME NEW id \in OntologyIds, NEW v \in Versions, Publish(p, id, v) \/ Activate(p, id, v)
      PROVE  TypeOK' /\ SoundStep(p)
  <2>1. PICK pc \in {"get", "index"}, op \in {"publish", "activate"} :
          /\ op = "publish" => pc = "get"
          /\ op = "activate" => pc = "index"
          /\ id \in Owns[p]
          /\ Start(p, [Request(op, pc) EXCEPT !.id = id, !.version = v])
    BY <1>2 DEF Publish, Activate
  <2> DEFINE j == [Request(op, pc) EXCEPT !.id = id, !.version = v]
  <2>2. /\ j \in Job /\ j.pc = pc /\ j.op = op /\ j.id = id /\ j.version = v /\ j.kb = None
    BY <2>1 DEF Request, Job, Pcs
  <2>3. UNCHANGED files /\ job' = [job EXCEPT ![p] = j] /\ answer' = None
    BY <2>1 DEF Start
  <2> HIDE DEF j
  <2>4. job'[p] = j
    BY <2>3 DEF IInv, TypeOK
  <2>5. JobSound(p)'
    <3>1. v # None
      BY NoneAssumption DEF Names
    <3>. QED
      BY <2>1, <2>2, <2>4, <3>1 DEF JobSound, StepsOf
  <2>. QED
    BY <2>2, <2>3, <2>5, WentOn
<1>3. ASSUME NEW k \in KnowledgeBases, NEW id \in OntologyIds, NEW mode \in {"active", "pinned"},
             NEW v \in Versions \cup {None}, BindKnowledgeBase(p, k, id, mode, v)
      PROVE  TypeOK' /\ SoundStep(p)
  <2> DEFINE j == [Request("bind", "check") EXCEPT
                     !.kb = k, !.id = id, !.mode = mode, !.version = v]
  <2>1. /\ j \in Job /\ j.pc = "check" /\ j.op = "bind" /\ j.id = id /\ j.version = v
        /\ j.kb = k /\ j.mode = mode
    BY DEF Request, Job, Pcs
  <2>2. /\ UNCHANGED files /\ job' = [job EXCEPT ![p] = j] /\ answer' = None
        /\ mode = "active" <=> v = None
    BY <1>3 DEF BindKnowledgeBase, Start
  <2> HIDE DEF j
  <2>3. job'[p] = j
    BY <2>2 DEF IInv, TypeOK
  <2>4. JobSound(p)'
    <3>1. id # None /\ k # None
      BY NoneAssumption DEF Names
    <3>. QED
      BY <2>1, <2>2, <2>3, <3>1 DEF JobSound, StepsOf
  <2>. QED
    BY <2>1, <2>2, <2>4, WentOn
<1>4. ASSUME NEW k \in KnowledgeBases, Resolve(p, k)
      PROVE  TypeOK' /\ SoundStep(p)
  <2> DEFINE j == [Request("resolve", "lookup") EXCEPT !.kb = k]
  <2>1. j \in Job /\ j.pc = "lookup" /\ j.op = "resolve" /\ j.kb = k
    BY DEF Request, Job, Pcs
  <2>2. UNCHANGED files /\ job' = [job EXCEPT ![p] = j] /\ answer' = None
    BY <1>4 DEF Resolve, Start
  <2> HIDE DEF j
  <2>3. job'[p] = j
    BY <2>2 DEF IInv, TypeOK
  <2>4. JobSound(p)'
    <3>1. k # None
      BY NoneAssumption DEF Names
    <3>. QED
      BY <2>1, <2>3, <3>1 DEF JobSound, StepsOf, ResolveSound
  <2>. QED
    BY <2>1, <2>2, <2>4, WentOn
<1>. QED
  BY <1>1, <1>2, <1>3, <1>4 DEF Begin

(* What the steps of request p know of it. *)
LEMMA Running ==
  ASSUME IInv, NEW p \in Processes, job[p] # None
  PROVE  /\ job[p] \in Job /\ JobSound(p) /\ job[p].pc \in StepsOf(job[p].op)
         /\ job[p].op \in {"register", "publish", "activate"} =>
              /\ job[p].id \in Owns[p] /\ job[p].id \in OntologyIds /\ Dir(p) \in FileNames
              /\ job[p].version \in Versions /\ File(p) \in FileNames /\ job[p].kb = None
         /\ job[p].op = "bind" => job[p].id \in OntologyIds /\ Dir(p) \in FileNames
<1>1. job[p] \in Job /\ JobSound(p)
  BY DEF IInv, TypeOK, RegistryInvariant
<1>2. ASSUME job[p].op \in {"register", "publish", "activate"}
      PROVE  /\ job[p].id \in Owns[p] /\ job[p].id \in OntologyIds
             /\ job[p].version \in Versions /\ job[p].kb = None
  BY <1>1, <1>2, OwnsAssumption DEF JobSound, Job
<1>3. job[p].op = "bind" => job[p].id \in OntologyIds
  BY <1>1 DEF JobSound, Job
<1>. QED
  BY <1>1, <1>2, <1>3, NamesTyped DEF JobSound, Dir, File

LEMMA StatPayloadSound ==
  ASSUME IInv, NEW p \in Processes, StatPayload(p)
  PROVE  TypeOK' /\ SoundStep(p)
<1>1. job[p] # None /\ job[p].pc = "stat" /\ UNCHANGED files
  BY DEF StatPayload, At
<1>2. job[p] \in Job /\ JobSound(p) /\ job[p].op = "register"
  BY <1>1, Running DEF StepsOf, Job
<1>3. CASE payload[Dir(p)][File(p)] = None
  <2> DEFINE j == [job[p] EXCEPT !.pc = "payload"]
  <2>1. job' = [job EXCEPT ![p] = j] /\ answer' = None
    BY <1>3 DEF StatPayload, Go, Continue
  <2>2. /\ j \in Job /\ j.pc = "payload" /\ j.op = "register" /\ j.id = job[p].id
        /\ j.version = job[p].version /\ j.meta = job[p].meta /\ j.kb = job[p].kb
    BY <1>2 DEF Job, Pcs
  <2> HIDE DEF j
  <2>3. job'[p] = j
    BY <2>1 DEF IInv, TypeOK
  <2>4. RegisterSound(p)'
    BY <1>1, <1>2, <1>3, <2>2, <2>3 DEF JobSound, RegisterSound, Dir, File, files
  <2>5. JobSound(p)'
    BY <1>1, <1>2, <2>2, <2>3, <2>4 DEF JobSound, StepsOf
  <2>. QED
    BY <1>1, <2>1, <2>2, <2>5, WentOn
<1>4. CASE payload[Dir(p)][File(p)] # None
  BY <1>1, <1>4, Answered DEF StatPayload, Answer, Answers
<1>. QED
  BY <1>3, <1>4

LEMMA IndexVersionSound ==
  ASSUME IInv, NEW p \in Processes, IndexVersion(p)
  PROVE  TypeOK' /\ SoundStep(p)
<1> DEFINE o == job[p].meta.sha
           m == IF manifest[Dir(p)] = None THEN EmptyManifest(o) ELSE manifest[Dir(p)]
<1>1. job[p] # None /\ job[p].pc = "index" /\ job[p].op = "register" /\ UNCHANGED files
  BY DEF IndexVersion, At
<1>2. job[p] \in Job /\ JobSound(p) /\ RegisterSound(p) /\ Dir(p) \in FileNames
  BY <1>1, Running DEF JobSound
<1>3. o \in Ontology /\ job[p].meta = NewMeta(o) /\ o.id = job[p].id /\ job[p].meta \in Meta
  BY <1>2 DEF RegisterSound, NewMeta, Meta, Ontology
<1>4. m \in Manifest /\ FileName[m.id] = Dir(p)
  <2>1. CASE manifest[Dir(p)] = None
    BY <1>3, <2>1 DEF EmptyManifest, Manifest, Ontology, Dir
  <2>2. CASE manifest[Dir(p)] # None
    BY <1>2, <2>2 DEF IInv, TypeOK, RegistryInvariant, ManifestSound
  <2>. QED
    BY <2>1, <2>2
<1>5. CASE m.domain # o.domain
  BY <1>1, <1>5, Answered DEF IndexVersion, Answer, Answers
<1>6. CASE m.domain = o.domain
  <2>1. PICK n \in WithVersion(m, job[p].meta) :
          Continue(p, [job[p] EXCEPT !.pc = "manifest", !.new = n])
    BY <1>6 DEF IndexVersion
  <2>2. n \in Manifest /\ n.id = m.id
    BY <1>3, <1>4, <2>1, WithVersionShape
  <2> DEFINE j == [job[p] EXCEPT !.pc = "manifest", !.new = n]
  <2>3. job' = [job EXCEPT ![p] = j] /\ answer' = None
    BY <2>1 DEF Continue
  <2>4. /\ j \in Job /\ j.pc = "manifest" /\ j.op = "register" /\ j.id = job[p].id /\ j.new = n
        /\ j.version = job[p].version /\ j.meta = job[p].meta /\ j.kb = job[p].kb
    BY <1>1, <1>2, <2>2 DEF Job, Pcs
  <2> HIDE DEF j
  <2>5. job'[p] = j
    BY <2>3 DEF IInv, TypeOK
  <2>6. RegisterSound(p)'
    BY <1>1, <1>2, <2>4, <2>5 DEF RegisterSound, Dir, File, files
  <2>7. NewSound(p)'
    <3>1. n # None /\ FileName[n.id] = Dir(p)
      BY <1>4, <2>2, SentinelAssumption
    <3>. QED
      BY <1>1, <2>1, <2>4, <2>5, <3>1 DEF NewSound, Dir, files
  <2>8. JobSound(p)'
    BY <1>1, <1>2, <2>4, <2>5, <2>6, <2>7 DEF JobSound, StepsOf
  <2>. QED
    BY <1>1, <2>3, <2>4, <2>8, WentOn
<1>. QED
  BY <1>5, <1>6

(* A request that resolves a binding finds what it looks for. *)
LEMMA GetEntrySound ==
  ASSUME IInv, NEW p \in Processes, GetEntry(p)
  PROVE  TypeOK' /\ SoundStep(p)
<1> DEFINE m == manifest[Dir(p)]
           v == job[p].version
<1>1. job[p] # None /\ job[p].pc = "get" /\ UNCHANGED files
  BY DEF GetEntry, At
<1>2. job[p] \in Job /\ JobSound(p) /\ job[p].op \in {"publish", "resolve"}
  BY <1>1, Running DEF StepsOf, Job
<1>3. job[p].op = "resolve" => ResolveSound(p) /\ Served(Dir(p), v) /\ job[p].id \in OntologyIds
  BY <1>1, <1>2 DEF JobSound, ResolveSound, Job
<1>4. Dir(p) \in FileNames
  <2>1. CASE job[p].op = "publish"
    BY <1>1, <2>1, Running
  <2>2. CASE job[p].op = "resolve"
    BY <1>3, <2>2, NamesTyped DEF Dir
  <2>. QED
    BY <1>2, <2>1, <2>2
<1>5. CASE ListsIn(Dir(p), v)
  <2> DEFINE j == [job[p] EXCEPT !.pc = "read", !.meta = FindVersion(m, v)]
  <2>1. job' = [job EXCEPT ![p] = j] /\ answer' = None
    BY <1>5 DEF GetEntry, Continue, ListsIn
  <2>2. FindVersion(m, v) \in Meta
    BY <1>4, <1>5, SoundEntry DEF IInv, RegistryInvariant
  <2>3. /\ j \in Job /\ j.pc = "read" /\ j.op = job[p].op /\ j.id = job[p].id
        /\ j.version = v /\ j.meta = FindVersion(m, v) /\ j.kb = job[p].kb
    BY <1>2, <2>2 DEF Job, Pcs
  <2> HIDE DEF j
  <2>4. job'[p] = j
    BY <2>1 DEF IInv, TypeOK
  <2>5. j.op = "resolve" => ResolveSound(p)'
    <3> HAVE j.op = "resolve"
    <3>1. job[p].id # None /\ v # None /\ Served(Dir(p), v)
      BY <1>1, <1>3, <2>3 DEF ResolveSound
    <3>2. Dir(p)' = Dir(p) /\ manifest' = manifest /\ payload' = payload
      BY <1>1, <2>3, <2>4 DEF Dir, files
    <3>3. Served(Dir(p), v)'
      BY <2>3, <2>4, <3>1, <3>2 DEF Served, PublishedIn
    <3>4. j.version = job'[p].version
      BY <2>4
    <3>. QED
      BY <2>3, <2>4, <3>1, <3>2, <3>3 DEF ResolveSound
  <2>6. JobSound(p)'
    BY <1>1, <1>2, <2>2, <2>3, <2>4, <2>5 DEF JobSound, StepsOf
  <2>. QED
    BY <1>1, <2>1, <2>3, <2>6, WentOn
<1>6. CASE ~ ListsIn(Dir(p), v)
  <2>1. job[p].op # "resolve"
    BY <1>3, <1>6 DEF Served, PublishedIn, ListsIn, IsPublished
  <2>. QED
    BY <1>1, <1>6, <2>1, Answered DEF GetEntry, ListsIn, Answer, Answers
<1>. QED
  BY <1>5, <1>6

LEMMA ReadForPublishSound ==
  ASSUME IInv, NEW p \in Processes, ReadForPublish(p)
  PROVE  TypeOK' /\ SoundStep(p)
<1> DEFINE o == payload[Dir(p)][File(p)]
<1>1. job[p] # None /\ job[p].op = "publish" /\ UNCHANGED files
  BY DEF ReadForPublish, At
<1>2. job[p] \in Job /\ JobSound(p)
  BY <1>1, Running
<1>3. CASE o = job[p].meta.sha /\ EnsurePublishable(o)
  <2> DEFINE j == [job[p] EXCEPT !.pc = "index"]
  <2>1. job' = [job EXCEPT ![p] = j] /\ answer' = None
    BY <1>3 DEF ReadForPublish, Go, Continue
  <2>2. /\ j \in Job /\ j.pc = "index" /\ j.op = "publish" /\ j.id = job[p].id
        /\ j.version = job[p].version /\ j.kb = job[p].kb
    BY <1>1, <1>2 DEF Job, Pcs
  <2> HIDE DEF j
  <2>3. job'[p] = j
    BY <2>1 DEF IInv, TypeOK
  <2>4. JobSound(p)'
    BY <1>1, <1>2, <2>2, <2>3 DEF JobSound, StepsOf
  <2>. QED
    BY <1>1, <2>1, <2>2, <2>4, WentOn
<1>4. CASE ~ (o = job[p].meta.sha /\ EnsurePublishable(o))
  BY <1>1, <1>4, Answered DEF ReadForPublish, Answer, Answers
<1>. QED
  BY <1>3, <1>4

(* The checksum and the state of a version being resolved are right. *)
LEMMA ReadForResolveSound ==
  ASSUME IInv, NEW p \in Processes, ReadForResolve(p)
  PROVE  TypeOK' /\ SoundStep(p)
<1>1. job[p] # None /\ job[p].pc = "read" /\ job[p].op = "resolve" /\ UNCHANGED files
  BY DEF ReadForResolve, At
<1>2. ResolveSound(p)
  BY <1>1, Running DEF JobSound
<1>3. payload[Dir(p)][File(p)] = job[p].meta.sha /\ job[p].meta.state = "published"
  BY <1>1, <1>2 DEF ResolveSound, Served, PublishedIn, IsPublished, File
<1>. QED
  BY <1>1, <1>3, Answered DEF ReadForResolve, Answer, Answers

(* Publish and Activate replace the manifest they have read. *)
LEMMA IndexSound ==
  ASSUME IInv, NEW p \in Processes, IndexPublication(p) \/ IndexActivation(p)
  PROVE  TypeOK' /\ SoundStep(p)
<1> DEFINE m == manifest[Dir(p)]
           v == job[p].version
<1>1. /\ job[p] # None /\ job[p].pc = "index" /\ UNCHANGED files
      /\ job[p].op \in {"publish", "activate"}
  BY DEF IndexPublication, IndexActivation, At
<1>2. job[p] \in Job /\ JobSound(p) /\ Dir(p) \in FileNames /\ v \in Versions
  BY <1>1, Running
<1>3. m # None => m \in Manifest /\ Apart(m) /\ FileName[m.id] = Dir(p)
  BY <1>2 DEF IInv, TypeOK, RegistryInvariant, ManifestSound, Apart
<1> DEFINE Replaces(n) ==
             /\ ListsIn(Dir(p), v)
             /\ \/ job[p].op = "publish" /\ n = MarkPublished(m, v)
                \/ /\ job[p].op = "activate" /\ n = [m EXCEPT !.active = v]
                   /\ PublishedIn(Dir(p), v)
             /\ Continue(p, [job[p] EXCEPT !.pc = "manifest", !.new = n])
<1>4. (\E a \in {"missing", "refused"} : Answer(p, a)) \/ \E n : Replaces(n)
  <2>1. CASE IndexPublication(p)
    <3>1. CASE ListsIn(Dir(p), v)
      <4>1. Replaces(MarkPublished(m, v))
        BY <2>1, <3>1 DEF IndexPublication, ListsIn
      <4>. QED
        BY <4>1
    <3>2. CASE ~ ListsIn(Dir(p), v)
      BY <2>1, <3>2 DEF IndexPublication, ListsIn
    <3>. QED
      BY <3>1, <3>2
  <2>2. CASE IndexActivation(p)
    <3>1. CASE PublishedIn(Dir(p), v)
      <4>1. Replaces([m EXCEPT !.active = v])
        BY <2>2, <3>1 DEF IndexActivation, ListsIn, PublishedIn, IsPublished
      <4>. QED
        BY <4>1
    <3>2. CASE ~ PublishedIn(Dir(p), v)
      BY <2>2, <3>2 DEF IndexActivation, PublishedIn, IsPublished
    <3>. QED
      BY <3>1, <3>2
  <2>. QED
    BY <2>1, <2>2
<1>5. CASE \E a \in {"missing", "refused"} : Answer(p, a)
  BY <1>1, <1>5, Answered DEF Answer, Answers
<1>6. CASE \E n : Replaces(n)
  <2>1. PICK n : Replaces(n)
    BY <1>6
  <2>2. m # None
    BY <2>1 DEF ListsIn
  <2>3. n \in Manifest /\ n.id = m.id
    <3>1. m \in Manifest /\ Apart(m) /\ Lists(m, v) /\ v \in Versions
      BY <1>2, <1>3, <2>1, <2>2 DEF ListsIn
    <3>2. MarkPublished(m, v) \in Manifest /\ MarkPublished(m, v).id = m.id
      BY <3>1, MarkPublishedGrows
    <3>3. [m EXCEPT !.active = v] \in Manifest /\ [m EXCEPT !.active = v].id = m.id
      BY <3>1, ActivationGrows
    <3>. QED
      BY <2>1, <3>2, <3>3
  <2> DEFINE j == [job[p] EXCEPT !.pc = "manifest", !.new = n]
  <2>4. job' = [job EXCEPT ![p] = j] /\ answer' = None
    BY <2>1 DEF Continue
  <2>5. /\ j \in Job /\ j.pc = "manifest" /\ j.op = job[p].op /\ j.id = job[p].id /\ j.new = n
        /\ j.version = v /\ j.kb = job[p].kb
    BY <1>1, <1>2, <2>3 DEF Job, Pcs
  <2> HIDE DEF j
  <2>6. job'[p] = j
    BY <2>4 DEF IInv, TypeOK
  <2>7. NewSound(p)'
    <3>1. n # None /\ FileName[n.id] = Dir(p)
      BY <1>3, <2>2, <2>3, SentinelAssumption
    <3>. QED
      BY <1>1, <2>1, <2>5, <2>6, <3>1 DEF NewSound, Dir, files, ListsIn, PublishedIn
  <2>8. JobSound(p)'
    BY <1>1, <1>2, <2>5, <2>6, <2>7 DEF JobSound, StepsOf
  <2>. QED
    BY <1>1, <2>4, <2>5, <2>8, WentOn
<1>. QED
  BY <1>4, <1>5, <1>6

LEMMA CheckBindingSound ==
  ASSUME IInv, NEW p \in Processes, CheckBinding(p)
  PROVE  TypeOK' /\ SoundStep(p)
<1> DEFINE m == manifest[Dir(p)]
           v == job[p].version
<1>1. job[p] # None /\ job[p].pc = "check" /\ UNCHANGED files
  BY DEF CheckBinding, At
<1>2. job[p] \in Job /\ JobSound(p) /\ job[p].op = "bind"
  BY <1>1, Running DEF StepsOf, Job
<1>3. CASE m # None /\ (IF job[p].mode = "active" THEN m.active # None ELSE IsPublished(m, v))
  <2> DEFINE j == [job[p] EXCEPT !.pc = "binding"]
  <2>1. job' = [job EXCEPT ![p] = j] /\ answer' = None
    BY <1>3 DEF CheckBinding, Go, Continue
  <2>2. /\ j \in Job /\ j.pc = "binding" /\ j.op = "bind" /\ j.id = job[p].id
        /\ j.version = v /\ j.kb = job[p].kb /\ j.mode = job[p].mode
    BY <1>2 DEF Job, Pcs
  <2> HIDE DEF j
  <2>3. job'[p] = j
    BY <2>1 DEF IInv, TypeOK
  <2>4. manifest' = manifest /\ (j.mode = "active" <=> j.version = None)
    BY <1>1, <1>2, <2>2 DEF JobSound, files
  <2>5. Bindable(job[p].id, job[p].mode, job[p].version)'
    BY <1>3, <2>2, <2>3, <2>4 DEF Bindable, ActiveIn, PublishedIn, Dir
  <2>6. JobSound(p)'
    BY <1>1, <1>2, <2>2, <2>3, <2>5 DEF JobSound, StepsOf
  <2>. QED
    BY <1>1, <2>1, <2>2, <2>6, WentOn
<1>4. CASE ~ (m # None /\ (IF job[p].mode = "active" THEN m.active # None ELSE IsPublished(m, v)))
  BY <1>1, <1>4, Answered DEF CheckBinding, Answer, Answers
<1>. QED
  BY <1>3, <1>4

(* The job that has read a binding, where LookupBinding leaves it.         *)
Following(x, b) ==
  [x EXCEPT !.pc = "follow", !.id = b.id, !.mode = b.mode, !.version = b.version]

LEMMA FollowShape ==
  ASSUME NEW x \in Job, NEW b, b.id \in OntologyIds, b.mode \in {"active", "pinned"},
         b.version \in Versions \cup {None}
  PROVE  /\ Following(x, b) \in Job /\ Following(x, b).pc = "follow"
         /\ Following(x, b).op = x.op /\ Following(x, b).id = b.id
         /\ Following(x, b).version = b.version /\ Following(x, b).kb = x.kb
         /\ Following(x, b).mode = b.mode
<1>1. "follow" \in Pcs
  BY DEF Pcs
<1>2. b.mode \in {"active", "pinned", "none"} /\ b.id \in OntologyIds \cup {None}
  OBVIOUS
<1>. QED
  BY <1>1, <1>2 DEF Job, Following

LEMMA LookupBindingSound ==
  ASSUME IInv, NEW p \in Processes, LookupBinding(p)
  PROVE  TypeOK' /\ SoundStep(p)
<1> DEFINE f == FileName[job[p].kb]
           b == binding[f]
<1>1. job[p] # None /\ job[p].pc = "lookup" /\ UNCHANGED files
  BY DEF LookupBinding, At
<1>2. job[p] \in Job /\ JobSound(p) /\ job[p].op = "resolve"
  BY <1>1, Running DEF StepsOf, Job
<1>3. f \in FileNames
  BY <1>1, <1>2, NamesTyped DEF JobSound, Job
<1>4. CASE b = None
  BY <1>1, <1>4, Answered DEF LookupBinding, Answer, Answers
<1>5. CASE b # None
  <2> DEFINE j == Following(job[p], b)
  <2>1. job' = [job EXCEPT ![p] = j] /\ answer' = None
    BY <1>5 DEF LookupBinding, Continue, Following
  <2>2. b \in Binding /\ Bindable(b.id, b.mode, b.version)
    BY <1>3, <1>5 DEF IInv, TypeOK, RegistryInvariant, BindingSound
  <2>3. /\ j \in Job /\ j.pc = "follow" /\ j.op = "resolve" /\ j.id = b.id
        /\ j.version = b.version /\ j.kb = job[p].kb /\ j.mode = b.mode
    <3>1. /\ b.id \in OntologyIds /\ b.mode \in {"active", "pinned"}
          /\ b.version \in Versions \cup {None}
      BY <2>2 DEF Binding
    <3>. QED
      BY <1>2, <3>1, FollowShape
  <2> HIDE DEF j
  <2>4. job'[p] = j
    BY <2>1 DEF IInv, TypeOK
  <2>5. manifest' = manifest /\ j.id # None
    BY <1>1, <2>2, <2>3, NoneAssumption DEF files, Binding, Names
  <2>6. Bindable(job[p].id, job[p].mode, job[p].version)'
    BY <2>2, <2>3, <2>4, <2>5 DEF Bindable, ActiveIn, PublishedIn
  <2>7. ResolveSound(p)'
    BY <2>3, <2>4, <2>5, <2>6 DEF ResolveSound
  <2>8. JobSound(p)'
    BY <1>1, <1>2, <2>3, <2>4, <2>7 DEF JobSound, StepsOf
  <2>. QED
    BY <1>1, <2>1, <2>3, <2>8, WentOn
<1>. QED
  BY <1>4, <1>5

(* A binding that has been read leads to a version that is served. *)
LEMMA FollowBindingSound ==
  ASSUME IInv, NEW p \in Processes, FollowBinding(p)
  PROVE  TypeOK' /\ SoundStep(p)
<1> DEFINE m == manifest[Dir(p)]
           v == BoundVersion(job[p], m)
<1>1. job[p] # None /\ job[p].pc = "follow" /\ UNCHANGED files
  BY DEF FollowBinding, At
<1>2. job[p] \in Job /\ JobSound(p) /\ job[p].op = "resolve"
  BY <1>1, Running DEF StepsOf, Job
<1>3. job[p].id \in OntologyIds /\ Bindable(job[p].id, job[p].mode, job[p].version)
  BY <1>1, <1>2 DEF JobSound, ResolveSound, Job
<1>4. m # None /\ v # None /\ Served(Dir(p), v)
  BY <1>3, BindableIsServed DEF BoundVersion, Dir, IInv, RegistryInvariant
<1>5. v \in Versions
  <2>1. Dir(p) \in FileNames /\ ListsIn(Dir(p), v)
    BY <1>3, <1>4, NamesTyped DEF Served, PublishedIn, IsPublished, ListsIn, Dir
  <2>. QED
    BY <2>1, SoundEntry DEF IInv, RegistryInvariant
<1> DEFINE j == [job[p] EXCEPT !.pc = "get", !.version = v]
<1>6. job' = [job EXCEPT ![p] = j] /\ answer' = None
  BY <1>4 DEF FollowBinding, Continue
<1>7. /\ j \in Job /\ j.pc = "get" /\ j.op = "resolve" /\ j.id = job[p].id
      /\ j.version = v /\ j.kb = job[p].kb
  BY <1>2, <1>5 DEF Job, Pcs
<1> HIDE DEF j, v
<1>8. job'[p] = j
  BY <1>6 DEF IInv, TypeOK
<1>9. manifest' = manifest /\ payload' = payload /\ j.id # None
  BY <1>1, <1>3, <1>7, NoneAssumption DEF files, Names
<1>10. Served(Dir(p), job[p].version)'
  BY <1>4, <1>7, <1>8, <1>9 DEF Served, PublishedIn, Dir
<1>11. ResolveSound(p)'
  BY <1>4, <1>7, <1>8, <1>9, <1>10 DEF ResolveSound
<1>12. JobSound(p)'
  BY <1>1, <1>2, <1>7, <1>8, <1>11 DEF JobSound, StepsOf
<1>. QED
  BY <1>1, <1>6, <1>7, <1>12, WentOn

LEMMA QuietFailureSound ==
  ASSUME IInv, NEW p \in Processes, ReadFails(p) \/ Crash(p)
  PROVE  TypeOK' /\ SoundStep(p)
BY Answered, AnswerSentinelAssumption DEF ReadFails, Crash, Answer, Answers

-----------------------------------------------------------------------------
(* Steps that change a file.                                               *)

(* A directory in which one file changes, of which the manifest, if there  *)
(* is one, lists no version.                                               *)
LEMMA UnlistedFile ==
  ASSUME IInv, NEW p \in Processes, job[p] # None, job[p].op = "register",
         Dir(p) \in FileNames, File(p) \in FileNames, NEW STATE c,
         payload' = [payload EXCEPT ![Dir(p)][File(p)] = c],
         UNCHANGED manifest,
         manifest[Dir(p)] # None =>
           \A i \in DOMAIN manifest[Dir(p)].versions :
             FileName[manifest[Dir(p)].versions[i].version] # File(p)
  PROVE  FilesGrow /\ Elsewhere(p) /\ \A d \in FileNames : ManifestSound(d)'
<1>1. /\ \A d \in FileNames : d # Dir(p) => payload'[d] = payload[d]
      /\ \A f \in FileNames : f # File(p) => payload'[Dir(p)][f] = payload[Dir(p)][f]
  BY DEF IInv, TypeOK
<1>2. ASSUME NEW d \in FileNames, manifest[d] # None, NEW i \in DOMAIN manifest[d].versions
      PROVE  payload'[d][FileName[manifest[d].versions[i].version]]
               = payload[d][FileName[manifest[d].versions[i].version]]
  <2>1. manifest[d].versions[i] \in Meta
    BY <1>2 DEF IInv, TypeOK, Manifest
  <2>2. manifest[d].versions[i].version \in Versions
    BY <2>1 DEF Meta
  <2>. QED
    BY <1>1, <1>2, <2>2, NamesTyped
<1>3. ASSUME NEW d \in FileNames PROVE ManifestSound(d)'
  <2>1. ManifestSound(d) /\ manifest' = manifest
    BY DEF IInv, RegistryInvariant
  <2>. QED
    BY ONLY <1>2, <2>1 DEF ManifestSound
<1>4. ASSUME NEW d \in FileNames, NEW v \in Versions, ListsIn(d, v)
      PROVE  payload'[d][FileName[v]] = payload[d][FileName[v]]
  <2>1. PICK i \in DOMAIN manifest[d].versions : manifest[d].versions[i].version = v
    BY <1>4 DEF ListsIn, Lists, EntriesOf
  <2>. QED
    BY <1>2, <1>4, <2>1 DEF ListsIn
<1>5. FilesGrow
  BY <1>4 DEF FilesGrow, Grows
<1>6. Elsewhere(p)
  <2>1. job[p].id \in Owns[p]
    BY Running
  <2>. QED
    BY <1>1, <2>1 DEF Elsewhere, Dir
<1>. QED
  BY <1>3, <1>5, <1>6

(* The step of request p that changes files and goes on or ends. *)
LEMMA OthersIdle ==
  ASSUME IInv, NEW p \in Processes, NEW STATE j, job' = [job EXCEPT ![p] = j]
  PROVE  job'[p] = j /\ \A q \in Processes : q # p => job'[q] = job[q]
BY DEF IInv, TypeOK

LEMMA WritePayloadSound ==
  ASSUME IInv, NEW p \in Processes, WritePayload(p)
  PROVE  TypeOK' /\ SoundStep(p)
<1> DEFINE o == job[p].meta.sha
           j == [job[p] EXCEPT !.pc = "index"]
           m == manifest[Dir(p)]
<1>1. /\ job[p] # None /\ job[p].pc = "payload" /\ UNCHANGED <<manifest, binding, audit>>
      /\ payload' = [payload EXCEPT ![Dir(p)][File(p)] = o]
      /\ job' = [job EXCEPT ![p] = j] /\ answer' = None
  BY DEF WritePayload, At, Go, Continue
<1>2. job[p] \in Job /\ JobSound(p) /\ job[p].op = "register"
  BY <1>1, Running DEF StepsOf, Job
<1>3. /\ RegisterSound(p) /\ Dir(p) \in FileNames /\ File(p) \in FileNames
      /\ o \in Ontology /\ payload[Dir(p)][File(p)] = None
  BY <1>1, <1>2, Running DEF JobSound, RegisterSound
<1>4. m # None => \A i \in DOMAIN m.versions : FileName[m.versions[i].version] # File(p)
  <2> SUFFICES ASSUME m # None, NEW i \in DOMAIN m.versions,
                      FileName[m.versions[i].version] = File(p)
               PROVE  FALSE
    OBVIOUS
  <2>1. m.versions[i].sha = None
    BY <1>3 DEF IInv, RegistryInvariant, ManifestSound
  <2>2. m.versions[i] \in Meta
    BY <1>3 DEF IInv, TypeOK, Manifest
  <2>. QED
    BY <2>1, <2>2, SentinelAssumption DEF Meta
<1>5. FilesGrow /\ Elsewhere(p) /\ \A d \in FileNames : ManifestSound(d)'
  BY <1>1, <1>2, <1>3, <1>4, UnlistedFile
<1>6. /\ j \in Job /\ j.pc = "index" /\ j.op = "register" /\ j.id = job[p].id
      /\ j.version = job[p].version /\ j.meta = job[p].meta /\ j.kb = job[p].kb
  BY <1>2 DEF Job, Pcs
<1> HIDE DEF j
<1>7. job'[p] = j /\ \A q \in Processes : q # p => job'[q] = job[q]
  BY <1>1, OthersIdle
<1>8. TypeOK'
  BY <1>1, <1>3, <1>6 DEF IInv, TypeOK
<1>9. payload'[Dir(p)][File(p)] = o
  BY <1>1, <1>3 DEF IInv, TypeOK
<1>10. RegisterSound(p)'
  <2>1. /\ job'[p].meta = job[p].meta /\ job'[p].id = job[p].id /\ job'[p].pc = "index"
        /\ job'[p].version = job[p].version /\ manifest' = manifest
    BY <1>1, <1>6, <1>7
  <2>2. Dir(p)' = Dir(p) /\ File(p)' = File(p)
    BY <2>1 DEF Dir, File
  <2>. QED
    BY <1>3, <1>4, <1>9, <2>1, <2>2 DEF RegisterSound
<1>11. JobSound(p)'
  BY <1>1, <1>2, <1>6, <1>7, <1>10 DEF JobSound, StepsOf
<1>12. answer' # "failed"
  BY <1>1, AnswerSentinelAssumption DEF Answers
<1>. QED
  BY <1>1, <1>5, <1>7, <1>8, <1>11, <1>12 DEF SoundStep

(* A payload is removed that no manifest lists. *)
LEMMA WriteFailsSound ==
  ASSUME IInv, NEW p \in Processes, WriteFails(p)
  PROVE  TypeOK' /\ SoundStep(p)
<1>1. CASE UNCHANGED files
  BY <1>1, Answered DEF WriteFails, Answer, Answers
<1>2. CASE ~ UNCHANGED files
  <2>1. /\ job[p] # None /\ job[p].pc = "manifest" /\ job[p].op = "register"
        /\ payload' = [payload EXCEPT ![Dir(p)][File(p)] = None]
        /\ UNCHANGED <<manifest, binding, audit>>
        /\ job' = [job EXCEPT ![p] = None] /\ answer' = "unavailable"
    BY <1>2 DEF WriteFails, At, Answer, files
  <2>2. JobSound(p) /\ Dir(p) \in FileNames /\ File(p) \in FileNames
    BY <2>1, Running
  <2>3. manifest[Dir(p)] # None =>
          \A i \in DOMAIN manifest[Dir(p)].versions :
            FileName[manifest[Dir(p)].versions[i].version] # File(p)
    BY <2>1, <2>2 DEF JobSound, RegisterSound
  <2>4. FilesGrow /\ Elsewhere(p) /\ \A d \in FileNames : ManifestSound(d)'
    BY <2>1, <2>2, <2>3, UnlistedFile
  <2>5. job'[p] = None /\ \A q \in Processes : q # p => job'[q] = job[q]
    BY <2>1, OthersIdle
  <2>6. TypeOK'
    BY <2>1, <2>2 DEF IInv, TypeOK, Answers
  <2>7. JobSound(p)'
    BY <2>5 DEF JobSound
  <2>. QED
    BY <2>1, <2>4, <2>5, <2>6, <2>7 DEF SoundStep
<1>. QED
  BY <1>1, <1>2

LEMMA WriteBindingSound ==
  ASSUME IInv, NEW p \in Processes, WriteBinding(p)
  PROVE  TypeOK' /\ SoundStep(p)
<1> DEFINE b == [kb |-> job[p].kb, id |-> job[p].id, mode |-> job[p].mode,
                 version |-> job[p].version]
           j == [job[p] EXCEPT !.pc = "audit"]
<1>1. /\ job[p] # None /\ job[p].pc = "binding" /\ UNCHANGED <<payload, manifest, audit>>
      /\ binding' = [binding EXCEPT ![FileName[job[p].kb]] = b]
      /\ job' = [job EXCEPT ![p] = j] /\ answer' = None
  BY DEF WriteBinding, At, Go, Continue
<1>2. /\ job[p] \in Job /\ JobSound(p) /\ job[p].op = "bind"
      /\ job[p].id \in OntologyIds /\ Dir(p) \in FileNames
  BY <1>1, Running DEF StepsOf, Job
<1>3. Bindable(job[p].id, job[p].mode, job[p].version)
  BY <1>1, <1>2 DEF JobSound
<1>4. b \in Binding
  BY <1>1, <1>2 DEF JobSound, Job, Binding
<1>5. /\ j \in Job /\ j.pc = "audit" /\ j.op = "bind" /\ j.id = job[p].id
      /\ j.version = job[p].version /\ j.kb = job[p].kb /\ j.mode = job[p].mode
  BY <1>2 DEF Job, Pcs
<1>6. b.id = job[p].id /\ b.mode = job[p].mode /\ b.version = job[p].version
  OBVIOUS
<1> HIDE DEF j, b
<1>7. job'[p] = j /\ \A q \in Processes : q # p => job'[q] = job[q]
  BY <1>1, OthersIdle
<1>8. TypeOK'
  BY <1>1, <1>4, <1>5 DEF IInv, TypeOK
<1>9. FilesGrow /\ Elsewhere(p) /\ \A d \in FileNames : ManifestSound(d)'
  BY <1>1 DEF FilesGrow, Grows, Elsewhere, ManifestSound, IInv, RegistryInvariant
<1>10. ASSUME NEW f \in FileNames
       PROVE  binding'[f] = binding[f] \/ BindingSound(f)'
  <2>1. binding'[f] = binding[f] \/ binding'[f] = b
    BY <1>1 DEF IInv, TypeOK
  <2>2. CASE binding'[f] = b
    BY <1>1, <1>3, <1>6, <2>2 DEF BindingSound, Bindable, ActiveIn, PublishedIn
  <2>. QED
    BY <2>1, <2>2
<1>11. Happened(EventOf(job[p]))'
  <2>1. job[p].version # None => PublishedIn(FileName[job[p].id], job[p].version)
    BY <1>3 DEF Bindable
  <2>2. manifest' = manifest
    BY <1>1
  <2>. QED
    BY <1>5, <1>7, <2>1, <2>2 DEF Happened, EventOf, PublishedIn
<1>12. JobSound(p)'
  BY <1>1, <1>2, <1>5, <1>7, <1>11 DEF JobSound, StepsOf
<1>13. answer' # "failed"
  BY <1>1, AnswerSentinelAssumption DEF Answers
<1>. QED
  BY <1>1, <1>7, <1>8, <1>9, <1>10, <1>12, <1>13 DEF SoundStep

LEMMA AppendAuditSound ==
  ASSUME IInv, NEW p \in Processes, AppendAudit(p)
  PROVE  TypeOK' /\ SoundStep(p)
<1>1. /\ job[p] # None /\ job[p].pc = "audit" /\ UNCHANGED <<payload, manifest, binding>>
      /\ audit' = audit \cup {EventOf(job[p])}
      /\ job' = [job EXCEPT ![p] = None] /\ answer' = "ok"
  BY DEF AppendAudit, At, Answer
<1>2. JobSound(p) /\ Happened(EventOf(job[p])) /\ EventOf(job[p]) \in Event
  BY <1>1, Running, EventTyped DEF JobSound, IInv
<1>3. job'[p] = None /\ \A q \in Processes : q # p => job'[q] = job[q]
  BY <1>1, OthersIdle
<1>4. TypeOK'
  BY <1>1, <1>2 DEF IInv, TypeOK, Answers
<1>5. FilesGrow /\ Elsewhere(p) /\ \A d \in FileNames : ManifestSound(d)'
  BY <1>1 DEF FilesGrow, Grows, Elsewhere, ManifestSound, IInv, RegistryInvariant
<1>6. ASSUME NEW e \in audit' PROVE e \in audit \/ Happened(e)'
  <2>1. CASE e = EventOf(job[p])
    <3>1. Happened(e) /\ manifest' = manifest
      BY <1>1, <1>2, <2>1
    <3>. QED
      BY <3>1 DEF Happened, ListsIn, PublishedIn
  <2>. QED
    BY <1>1, <1>6, <2>1
<1>7. JobSound(p)'
  BY <1>3 DEF JobSound
<1>. QED
  BY <1>1, <1>3, <1>4, <1>5, <1>6, <1>7 DEF SoundStep

(* What replaces a manifest: it lists what the old one listed and the      *)
(* version in question, in files that have the content it says.            *)
LEMMA NewManifest ==
  ASSUME IInv, NEW p \in Processes, job[p] # None, job[p].pc = "manifest"
  PROVE  LET m == manifest[Dir(p)]
             n == job[p].new
         IN /\ n \in Manifest /\ FileName[n.id] = Dir(p)
            /\ Apart(n)
            /\ m # None => Grows(m, n)
            /\ \A i \in DOMAIN n.versions :
                 payload[Dir(p)][FileName[n.versions[i].version]] = n.versions[i].sha
            /\ n.active # None => IsPublished(n, n.active)
            /\ job[p].op = "register" => Lists(n, job[p].version)
            /\ job[p].op # "register" => IsPublished(n, job[p].version)
<1> DEFINE m == manifest[Dir(p)]
           n == job[p].new
           v == job[p].version
           Backed(x) == \A i \in DOMAIN x.versions :
                          payload[Dir(p)][FileName[x.versions[i].version]] = x.versions[i].sha
<1>1. /\ job[p] \in Job /\ JobSound(p) /\ NewSound(p) /\ job[p].op \in {"register", "publish", "activate"}
      /\ Dir(p) \in FileNames /\ v \in Versions
  <2>1. job[p] \in Job /\ JobSound(p) /\ job[p].op \in {"register", "publish", "activate"}
    BY Running DEF StepsOf, Job
  <2>. QED
    BY <2>1, Running DEF JobSound
<1>2. n \in Manifest /\ FileName[n.id] = Dir(p)
  BY <1>1 DEF NewSound, Job
<1>3. m # None => m \in Manifest /\ Apart(m) /\ Backed(m) /\ (m.active # None => IsPublished(m, m.active))
  BY <1>1 DEF IInv, TypeOK, RegistryInvariant, ManifestSound, Apart
<1>4. CASE job[p].op = "register"
  <2> DEFINE meta == job[p].meta
             old == IF m = None THEN EmptyManifest(meta.sha) ELSE m
  <2>1. /\ meta.sha \in Ontology /\ meta.version = v /\ meta \in Meta
        /\ payload[Dir(p)][FileName[v]] = meta.sha
    <3>1. RegisterSound(p)
      BY <1>1, <1>4 DEF JobSound
    <3>. QED
      BY <3>1 DEF RegisterSound, NewMeta, Meta, Ontology, File
  <2>2. n \in WithVersion(old, meta)
    BY <1>1, <1>4 DEF NewSound
  <2>3. CASE m = None
    <3>1. old = EmptyManifest(meta.sha)
      BY <2>3
    <3>2. /\ old \in Manifest /\ old.active = None /\ DOMAIN old.versions = {}
      <4>1. <<>> \in Seq(Meta) /\ DOMAIN <<>> = {}
        OBVIOUS
      <4>2. meta.sha.id \in OntologyIds /\ meta.sha.domain \in Domains
        BY <2>1 DEF Ontology
      <4>3. EmptyManifest(meta.sha) \in Manifest
        BY <4>1, <4>2 DEF EmptyManifest, Manifest
      <4>4. EmptyManifest(meta.sha).active = None /\ EmptyManifest(meta.sha).versions = <<>>
        BY DEF EmptyManifest
      <4>. QED
        BY <3>1, <4>1, <4>3, <4>4
    <3>3. Apart(old) /\ \A i \in DOMAIN old.versions : FileName[old.versions[i].version] # FileName[meta.version]
      BY <3>2 DEF Apart
    <3> HIDE DEF old
    <3>4. /\ Apart(n) /\ Lists(n, meta.version)
          /\ \A i \in DOMAIN n.versions :
               n.versions[i] = meta \/ \E k \in DOMAIN old.versions : n.versions[i] = old.versions[k]
      BY <2>1, <2>2, <3>2, <3>3, WithVersionGrows
    <3>5. n.active = None
      BY <2>1, <2>2, <3>2, WithVersionShape
    <3>6. Backed(n)
      BY <2>1, <3>2, <3>4
    <3>. QED
      BY <1>2, <1>4, <2>1, <2>3, <3>4, <3>5, <3>6
  <2>4. CASE m # None
    <3>1. old = m
      BY <2>4
    <3>2. \A i \in DOMAIN m.versions : FileName[m.versions[i].version] # FileName[meta.version]
      BY <1>1, <1>4, <2>1, <2>4 DEF JobSound, RegisterSound, File
    <3>3. /\ Apart(n) /\ Grows(m, n) /\ Lists(n, meta.version)
          /\ \A i \in DOMAIN n.versions :
               n.versions[i] = meta \/ \E k \in DOMAIN m.versions : n.versions[i] = m.versions[k]
      BY <1>3, <2>1, <2>2, <2>4, <3>1, <3>2, WithVersionGrows
    <3>4. n.active = m.active
      BY <1>3, <2>1, <2>2, <2>4, <3>1, WithVersionShape
    <3>5. Backed(n)
      BY <1>3, <2>1, <2>4, <3>3
    <3>6. n.active # None => IsPublished(n, n.active)
      BY <1>3, <2>4, <3>3, <3>4 DEF Grows
    <3>. QED
      BY <1>2, <1>4, <2>1, <3>3, <3>5, <3>6
  <2>. QED
    BY <2>3, <2>4
<1>5. CASE job[p].op = "publish"
  <2>1. ListsIn(Dir(p), v) /\ n = MarkPublished(m, v)
    BY <1>1, <1>5 DEF NewSound
  <2>2. m # None /\ Lists(m, v)
    BY <2>1 DEF ListsIn
  <2>3. /\ n.active = v /\ IsPublished(n, v) /\ DOMAIN n.versions = DOMAIN m.versions
        /\ \A i \in DOMAIN m.versions : n.versions[i].version = m.versions[i].version
                                        /\ n.versions[i].sha = m.versions[i].sha
        /\ Apart(n) /\ Grows(m, n)
    BY <1>1, <1>3, <2>1, <2>2, MarkPublishedGrows
  <2>4. Backed(n)
    BY <1>3, <2>2, <2>3
  <2>. QED
    BY <1>2, <1>5, <2>3, <2>4
<1>6. CASE job[p].op = "activate"
  <2>1. PublishedIn(Dir(p), v) /\ n = [m EXCEPT !.active = v]
    BY <1>1, <1>6 DEF NewSound
  <2>2. m # None /\ IsPublished(m, v)
    BY <2>1 DEF PublishedIn
  <2>3. n.active = v /\ n.versions = m.versions /\ Grows(m, n) /\ IsPublished(n, v)
    BY <1>1, <1>3, <2>1, <2>2, ActivationGrows
  <2>4. Backed(n) /\ Apart(n)
    BY <1>3, <2>2, <2>3 DEF Apart
  <2>. QED
    BY <1>2, <1>6, <2>3, <2>4
<1>. QED
  BY <1>1, <1>4, <1>5, <1>6

LEMMA WriteManifestSound ==
  ASSUME IInv, NEW p \in Processes, WriteManifest(p)
  PROVE  TypeOK' /\ SoundStep(p)
<1> DEFINE n == job[p].new
           j == [job[p] EXCEPT !.pc = "audit"]
<1>1. /\ job[p] # None /\ job[p].pc = "manifest" /\ UNCHANGED <<payload, binding, audit>>
      /\ manifest' = [manifest EXCEPT ![FileName[n.id]] = n]
      /\ job' = [job EXCEPT ![p] = j] /\ answer' = None
  BY DEF WriteManifest, At, Go, Continue
<1>2. /\ job[p] \in Job /\ JobSound(p) /\ job[p].op \in {"register", "publish", "activate"}
      /\ job[p].id \in Owns[p] /\ Dir(p) \in FileNames /\ job[p].version \in Versions
  <2>1. job[p].op \in {"register", "publish", "activate"}
    BY <1>1, Running DEF StepsOf, Job
  <2>. QED
    BY <1>1, <2>1, Running
<1>3. /\ n \in Manifest /\ FileName[n.id] = Dir(p)
      /\ Apart(n)
      /\ manifest[Dir(p)] # None => Grows(manifest[Dir(p)], n)
      /\ \A i \in DOMAIN n.versions :
           payload[Dir(p)][FileName[n.versions[i].version]] = n.versions[i].sha
      /\ n.active # None => IsPublished(n, n.active)
      /\ job[p].op = "register" => Lists(n, job[p].version)
      /\ job[p].op # "register" => IsPublished(n, job[p].version)
  BY <1>1, NewManifest
<1>4. n # None
  BY <1>3, SentinelAssumption
<1>5. /\ manifest'[Dir(p)] = n
      /\ \A d \in FileNames : d # Dir(p) => manifest'[d] = manifest[d]
  BY <1>1, <1>2, <1>3 DEF IInv, TypeOK
<1>6. /\ j \in Job /\ j.pc = "audit" /\ j.op = job[p].op /\ j.id = job[p].id
      /\ j.version = job[p].version /\ j.kb = job[p].kb /\ j.meta = job[p].meta
  BY <1>2 DEF Job, Pcs
<1> HIDE DEF j, n
<1>7. job'[p] = j /\ \A q \in Processes : q # p => job'[q] = job[q]
  BY <1>1, OthersIdle
<1>8. TypeOK'
  BY <1>1, <1>2, <1>3, <1>6 DEF IInv, TypeOK
<1>9. FilesGrow
  <2>1. ASSUME NEW d \in FileNames, manifest[d] # None
        PROVE  manifest'[d] # None /\ Grows(manifest[d], manifest'[d])
    <3>1. CASE d = Dir(p)
      BY <1>3, <1>4, <1>5, <2>1, <3>1
    <3>2. CASE d # Dir(p)
      BY <1>5, <2>1, <3>2 DEF Grows
    <3>. QED
      BY <3>1, <3>2
  <2>. QED
    BY <1>1, <2>1 DEF FilesGrow
<1>10. Elsewhere(p)
  BY <1>1, <1>2, <1>5 DEF Elsewhere, Dir
<1>11. ASSUME NEW d \in FileNames PROVE ManifestSound(d)'
  <2>1. CASE d = Dir(p)
    BY <1>1, <1>3, <1>5, <2>1 DEF ManifestSound, Apart
  <2>2. CASE d # Dir(p)
    <3>1. ManifestSound(d)
      BY DEF IInv, RegistryInvariant
    <3>2. manifest'[d] = manifest[d] /\ payload' = payload
      BY ONLY <1>1, <1>5, <2>2
    <3>. QED
      BY ONLY <3>1, <3>2 DEF ManifestSound, IsPublished, EntriesOf, Lists
  <2>. QED
    BY <2>1, <2>2
<1>12. Happened(EventOf(job[p]))'
  <2>1. /\ job[p].op = "register" => manifest'[Dir(p)] # None /\ Lists(manifest'[Dir(p)], job[p].version)
        /\ job[p].op # "register" => manifest'[Dir(p)] # None /\ IsPublished(manifest'[Dir(p)], job[p].version)
    BY <1>3, <1>4, <1>5
  <2>. QED
    BY <1>2, <1>6, <1>7, <2>1 DEF Happened, EventOf, ListsIn, PublishedIn, Dir
<1>13. JobSound(p)'
  <2>1. j.op = "register" => RegisterSound(p)'
    <3> HAVE j.op = "register"
    <3>1. RegisterSound(p)
      BY <1>1, <1>2, <1>6 DEF JobSound
    <3>2. j.pc # "payload" /\ j.pc \notin {"index", "manifest"}
      BY <1>6
    <3>. QED
      BY <1>6, <1>7, <3>1, <3>2 DEF RegisterSound
  <2>. QED
    BY <1>1, <1>2, <1>6, <1>7, <1>12, <2>1 DEF JobSound, StepsOf
<1>14. answer' # "failed"
  BY <1>1, AnswerSentinelAssumption DEF Answers
<1>. QED
  BY <1>1, <1>7, <1>8, <1>9, <1>10, <1>11, <1>13, <1>14 DEF SoundStep

-----------------------------------------------------------------------------
LEMMA InitSound == Init => IInv
<1> SUFFICES ASSUME Init PROVE IInv
  OBVIOUS
<1>1. TypeOK
  BY DEF Init, TypeOK
<1>2. RegistryInvariant
  BY AnswerSentinelAssumption
     DEF Init, RegistryInvariant, ManifestSound, BindingSound, JobSound, AuditIsTrue, Answers
<1>. QED
  BY <1>1, <1>2 DEF IInv

(* Every step of a process is justified by what it knows. *)
LEMMA ProcessSound ==
  ASSUME IInv, NEW p \in Processes, Begin(p) \/ Proceed(p) \/ Fail(p)
  PROVE  TypeOK' /\ SoundStep(p)
<1>1. CASE Begin(p)
  BY <1>1, BeginSound
<1>2. CASE Proceed(p)
  BY <1>2, StatPayloadSound, WritePayloadSound, IndexVersionSound, GetEntrySound,
     ReadForPublishSound, ReadForResolveSound, IndexSound, WriteManifestSound,
     CheckBindingSound, WriteBindingSound, AppendAuditSound, LookupBindingSound,
     FollowBindingSound
  DEF Proceed
<1>3. CASE Fail(p)
  BY <1>3, QuietFailureSound, WriteFailsSound DEF Fail
<1>. QED
  BY <1>1, <1>2, <1>3

LEMMA NextSound ==
  ASSUME SoleOwner, IInv, [Next]_vars
  PROVE  IInv'
<1>1. CASE Next
  BY <1>1, ProcessSound, SoundStepKeeps DEF Next
<1>2. CASE UNCHANGED vars
  <2>1. /\ payload' = payload /\ manifest' = manifest /\ binding' = binding
        /\ audit' = audit /\ job' = job /\ answer' = answer
    BY <1>2 DEF vars
  <2>2. TypeOK'
    BY <2>1 DEF IInv, TypeOK
  <2>3. ASSUME NEW d \in FileNames PROVE ManifestSound(d)'
    BY <2>1 DEF IInv, RegistryInvariant, ManifestSound
  <2>4. ASSUME NEW id, NEW mode, NEW v, Bindable(id, mode, v)
        PROVE  Bindable(id, mode, v)'
    BY <2>1, <2>4 DEF Bindable, ActiveIn, PublishedIn
  <2>5. ASSUME NEW f \in FileNames PROVE BindingSound(f)'
    BY <2>1, <2>4 DEF IInv, RegistryInvariant, BindingSound
  <2>6. ASSUME NEW e, Happened(e) PROVE Happened(e)'
    BY <2>1, <2>6 DEF Happened, ListsIn, PublishedIn
  <2>7. ASSUME NEW p \in Processes PROVE JobSound(p)'
    <3>1. JobSound(p) /\ job'[p] = job[p]
      BY <2>1 DEF IInv, RegistryInvariant
    <3>2. RegisterSound(p) => RegisterSound(p)'
      BY <2>1 DEF RegisterSound, Dir, File
    <3>3. NewSound(p) => NewSound(p)'
      BY <2>1 DEF NewSound, Dir, ListsIn, PublishedIn
    <3>4. ResolveSound(p) => ResolveSound(p)'
      BY <2>1, <2>4 DEF ResolveSound, Served, PublishedIn, Dir
    <3>. QED
      BY <2>4, <2>6, <3>1, <3>2, <3>3, <3>4 DEF JobSound
  <2>. QED
    BY <2>1, <2>2, <2>3, <2>5, <2>6, <2>7 DEF IInv, RegistryInvariant, AuditIsTrue
<1>. QED
  BY <1>1, <1>2

(* Where no two processes change one ontology directory, every file and    *)
(* every request knows what the invariant says, whatever fails.            *)
THEOREM RegistryIsSound ==
  ASSUME SoleOwner
  PROVE  Spec => [](TypeOK /\ RegistryInvariant)
<1>1. Init => IInv
  BY InitSound
<1>2. IInv /\ [Next]_vars => IInv'
  BY NextSound
<1>. QED
  BY <1>1, <1>2, PTL DEF Spec, IInv

(* The files and the requests have the shapes they should have.            *)
THEOREM Typed ==
  ASSUME SoleOwner
  PROVE  Spec => []TypeOK
BY RegistryIsSound, PTL

(* ResolveForKnowledgeBase never fails on a knowledge base that is bound.  *)
THEOREM BoundAlwaysServed ==
  ASSUME SoleOwner
  PROVE  Spec => []BoundIsServed
<1>1. TypeOK /\ RegistryInvariant => BoundIsServed
  <2> SUFFICES ASSUME TypeOK, RegistryInvariant, NEW f \in FileNames, binding[f] # None
               PROVE  LET d == FileName[binding[f].id] IN
                        manifest[d] # None /\ Served(d, BoundVersion(binding[f], manifest[d]))
    BY DEF BoundIsServed, RegistryInvariant
  <2>1. binding[f].id \in OntologyIds
    BY DEF TypeOK, Binding
  <2>2. Bindable(binding[f].id, binding[f].mode, binding[f].version)
    BY DEF RegistryInvariant, BindingSound
  <2>. QED
    BY <2>1, <2>2, BindableIsServed DEF RegistryInvariant, BoundVersion
<1>. QED
  BY <1>1, RegistryIsSound, PTL

(* The audit log tells of nothing that did not happen or was undone.       *)
THEOREM AuditAlwaysTrue ==
  ASSUME SoleOwner
  PROVE  Spec => []AuditIsTrue
<1>1. RegistryInvariant => AuditIsTrue
  BY DEF RegistryInvariant
<1>. QED
  BY <1>1, RegistryIsSound, PTL
=============================================================================
