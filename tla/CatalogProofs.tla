---------------------------- MODULE CatalogProofs ----------------------------
(***************************************************************************)
(* Proofs about the federated catalog of the ontologies in scope, and what *)
(* it means for a question, for any number of ontologies and concepts.     *)
(***************************************************************************)
EXTENDS ContextProofs

(***************************************************************************)
(* Sorting and merging                                                     *)
(***************************************************************************)

(* Concepts that a sort can put in order.                                  *)
AreRanked(S) == IsFiniteSet(S) /\ \A t \in S : Rank(t.label) \in Nat

(* A least concept in front of the others in order.                        *)
LEMMA SortedInFront ==
  ASSUME NEW S, AreRanked(S), NEW m \in S,
         \A t \in S : Rank(m.label) <= Rank(t.label),
         NEW r \in SortTerms(S \ {m})
  PROVE  SortTerms(S) # {}
<1> DEFINE n == Cardinality(S)
           s == [i \in 1..n |-> IF i = 1 THEN m ELSE r[i - 1]]
<1>1. n \in Nat /\ Cardinality(S \ {m}) = n - 1 /\ n >= 1
  <2>1. n \in Nat /\ n # 0
    BY FS_CardinalityType, FS_EmptySet DEF AreRanked
  <2>2. Cardinality(S \ {m}) = n - 1
    BY FS_RemoveElement DEF AreRanked
  <2> HIDE DEF n
  <2> QED BY <2>1, <2>2
<1>2. /\ r \in [1..(n - 1) -> S \ {m}]
      /\ \A i, j \in 1..(n - 1) : i # j => r[i] # r[j]
      /\ \A i, j \in 1..(n - 1) : i < j => Rank(r[i].label) <= Rank(r[j].label)
  <2>1. r \in SetToSeqs(S \ {m}) /\ \A i, j \in DOMAIN r : i < j => Rank(r[i].label) <= Rank(r[j].label)
    BY DEF SortTerms
  <2>2. r \in [1..(n - 1) -> S \ {m}] /\ \A i, j \in 1..(n - 1) : i # j => r[i] # r[j]
    BY <1>1, <2>1 DEF SetToSeqs
  <2> QED BY <2>1, <2>2
<1> HIDE DEF n
<1>3. \A i \in 1..n : i # 1 => i - 1 \in 1..(n - 1) /\ s[i] = r[i - 1] /\ s[i] \in S \ {m}
  BY <1>1, <1>2
<1>4. 1 \in 1..n => s[1] = m
  OBVIOUS
<1>5. s \in [1..n -> S]
  BY <1>2, <1>3, <1>4
<1>6. ASSUME NEW i \in 1..n, NEW j \in 1..n, i # j PROVE s[i] # s[j]
  BY <1>1, <1>2, <1>3, <1>4, <1>6
<1>7. ASSUME NEW i \in 1..n, NEW j \in 1..n, i < j
      PROVE  Rank(s[i].label) <= Rank(s[j].label)
  <2>1. j # 1 /\ s[j] \in S /\ s[j] = r[j - 1] /\ j - 1 \in 1..(n - 1)
    BY <1>1, <1>3, <1>7
  <2>2. CASE i = 1
    BY <1>4, <2>1, <2>2
  <2>3. CASE i # 1
    <3>1. s[i] = r[i - 1] /\ i - 1 \in 1..(n - 1) /\ i - 1 < j - 1
      BY <1>1, <1>3, <1>7, <2>3
    <3> QED BY <1>2, <2>1, <3>1
  <2> QED BY <2>2, <2>3
<1> HIDE DEF s
<1>8. s \in SetToSeqs(S)
  BY <1>5, <1>6 DEF SetToSeqs, n
<1>9. DOMAIN s = 1..n
  BY <1>5
<1> QED BY <1>7, <1>8, <1>9 DEF SortTerms

(* Finitely many concepts can be sorted by their labels.                   *)
LEMMA SortExists ==
  ASSUME NEW S, AreRanked(S)
  PROVE  SortTerms(S) # {}
<1> DEFINE Bad == {n \in Nat : \E T : AreRanked(T) /\ Cardinality(T) = n /\ SortTerms(T) = {}}
<1>1. SUFFICES ASSUME Bad # {} PROVE FALSE
  BY FS_CardinalityType DEF AreRanked
<1>2. PICK n \in Bad : \A k \in Bad : n <= k
  BY <1>1, LeastExists
<1>3. PICK T : AreRanked(T) /\ Cardinality(T) = n /\ SortTerms(T) = {}
  BY <1>2
<1>4. CASE T = {}
  <2>1. Cardinality({}) = 0 /\ 1..0 = {}
    BY FS_EmptySet
  <2>2. <<>> \in [{} -> {}] /\ DOMAIN <<>> = {}
    BY EmptySeq
  <2>3. <<>> \in SetToSeqs({})
    BY <2>1, <2>2 DEF SetToSeqs
  <2>4. <<>> \in SortTerms({})
    BY <2>2, <2>3 DEF SortTerms
  <2> QED BY <1>3, <1>4, <2>4
<1>5. CASE T # {}
  <2> DEFINE ranks == {Rank(t.label) : t \in T}
  <2>1. ranks \in SUBSET Nat /\ ranks # {}
    BY <1>3, <1>5 DEF AreRanked
  <2>2. PICK least \in ranks : \A k \in ranks : least <= k
    BY <2>1, LeastExists
  <2>3. PICK m \in T : \A t \in T : Rank(m.label) <= Rank(t.label)
    BY <2>2
  <2>4. AreRanked(T \ {m}) /\ Cardinality(T \ {m}) = n - 1
    BY <1>3, FS_RemoveElement DEF AreRanked
  <2>5. n \in Nat /\ Cardinality(T \ {m}) \in Nat
    BY <1>2, <2>4, FS_CardinalityType DEF AreRanked
  <2>6. n - 1 \notin Bad
    BY <1>2, <2>5
  <2>7. SortTerms(T \ {m}) # {}
    BY <2>4, <2>5, <2>6
  <2> HIDE DEF ranks
  <2> QED BY <1>3, <2>3, <2>7, SortedInFront
<1> QED BY <1>4, <1>5

(* A sort lists what it sorts.                                             *)
LEMMA SortIsExact ==
  ASSUME NEW S, IsFiniteSet(S), NEW s \in SortTerms(S)
  PROVE  IsSequence(s) /\ Range(s) = S
<1> DEFINE n == Cardinality(S)
<1>1. n \in Nat /\ s \in [1..n -> S] /\ \A i, j \in 1..n : i # j => s[i] # s[j]
  BY FS_CardinalityType DEF SortTerms, SetToSeqs
<1>2. s \in Injection(1..n, S)
  BY <1>1 DEF Injection, IsInjective
<1>3. Cardinality(1..n) = n
  BY <1>1, FS_Interval
<1>4. s \in Surjection(1..n, S)
  BY <1>2, <1>3, FS_Injection
<1>5. Range(s) = S
  BY <1>1, <1>4 DEF Range, Surjection
<1> HIDE DEF n
<1>6. s \in Seq(S)
  BY <1>1, SeqDef
<1> QED BY <1>5, <1>6, SequencesAre

LEMMA ContainedIsInRange ==
  ASSUME NEW s, IsSequence(s), NEW x
  PROVE  Contains(s, x) <=> x \in Range(s)
<1>1. DOMAIN s = 1..Len(s)
  BY LenProperties DEF IsSequence
<1> QED BY <1>1, Zenon DEF Contains, Range

(* The function that MergeSources is computed by, on the first n values.   *)
Merges(f, s, n) ==
  f = [m \in 0..n |-> IF m = 0 THEN <<>> ELSE AddNew(f[m - 1], s[m])]

LEMMA MergesExists ==
  ASSUME NEW s, NEW n \in Nat
  PROVE  \E f : Merges(f, s, n)
<1> DEFINE Bad == {m \in Nat : ~\E f : Merges(f, s, m)}
<1>1. SUFFICES ASSUME Bad # {} PROVE FALSE
  OBVIOUS
<1>2. PICK m \in Bad : \A k \in Bad : m <= k
  BY <1>1, LeastExists
<1>3. m \in Nat /\ ~\E f : Merges(f, s, m)
  BY <1>2
<1>4. CASE m = 0
  <2> DEFINE z == [i \in 0..0 |-> <<>>]
  <2>1. z = [i \in 0..0 |-> IF i = 0 THEN <<>> ELSE AddNew(z[i - 1], s[i])]
    OBVIOUS
  <2> QED BY <1>3, <1>4, <2>1 DEF Merges
<1>5. CASE m > 0
  <2>1. m - 1 \in Nat /\ m - 1 \notin Bad
    BY <1>2, <1>5
  <2>2. PICK f : Merges(f, s, m - 1)
    BY <2>1
  <2> DEFINE g == [i \in 0..m |-> IF i = 0 THEN <<>> ELSE AddNew(f[i - 1], s[i])]
  <2>3. \A i \in 0..(m - 1) : f[i] = IF i = 0 THEN <<>> ELSE AddNew(f[i - 1], s[i])
    BY <2>2, Zenon DEF Merges
  <2>4. \A i \in 0..(m - 1) : i \in 0..m
    BY <2>1
  <2>5. \A i \in 0..(m - 1) : g[i] = f[i]
    BY <2>3, <2>4
  <2>6. \A i \in 0..m : i # 0 => g[i - 1] = f[i - 1]
    <3>1. \A i \in 0..m : i # 0 => i - 1 \in 0..(m - 1)
      BY <2>1
    <3> HIDE DEF g
    <3> QED BY <2>5, <3>1
  <2>7. g = [i \in 0..m |-> IF i = 0 THEN <<>> ELSE AddNew(g[i - 1], s[i])]
    BY <2>6, Zenon
  <2> QED BY <1>3, <2>7 DEF Merges
<1> QED BY <1>3, <1>4, <1>5

LEMMA AddNewRange ==
  ASSUME NEW S, NEW s \in Seq(S), NEW x \in S
  PROVE  AddNew(s, x) \in Seq(S) /\ Range(AddNew(s, x)) = Range(s) \cup {x}
<1>1. Len(s) \in Nat /\ DOMAIN s = 1..Len(s)
  BY LenProperties
<1>2. CASE Contains(s, x)
  <2>1. x \in Range(s)
    BY <1>2, SequencesAre, ContainedIsInRange
  <2> QED BY <1>2, <2>1 DEF AddNew
<1>3. CASE ~Contains(s, x)
  <2> DEFINE t == Append(s, x)
  <2>1. /\ t \in Seq(S) /\ Len(t) = Len(s) + 1 /\ t[Len(s) + 1] = x
        /\ \A i \in 1..Len(s) : t[i] = s[i]
    BY AppendProperties
  <2> HIDE DEF t
  <2>2. DOMAIN t = DOMAIN s \cup {Len(s) + 1}
    BY <1>1, <2>1, LenProperties
  <2>3. Range(t) = Range(s) \cup {x}
    BY <1>1, <2>1, <2>2 DEF Range
  <2> QED BY <1>3, <2>1, <2>3 DEF AddNew, t
<1> QED BY <1>2, <1>3

(* Merged sources are the sources of both.                                 *)
LEMMA MergeRange ==
  ASSUME NEW a, NEW b, IsSequence(a), IsSequence(b)
  PROVE  IsSequence(MergeSources(a, b)) /\ Range(MergeSources(a, b)) = Range(a) \cup Range(b)
<1> DEFINE S == Range(a) \cup Range(b)
           s == a \o b
           f == CHOOSE f : Merges(f, s, Len(s))
           UpTo(n) == {s[i] : i \in 1..n}
           Good(n) == f[n] \in Seq(S) /\ Range(f[n]) = UpTo(n)
<1>1. a \in Seq(S) /\ b \in Seq(S)
  BY SeqMonotonic DEF IsSequence
<1>2. s \in Seq(S) /\ Range(s) = S
  BY <1>1, ConcatProperties, ConcatRange
<1>3. MergeSources(a, b) = f[Len(s)]
  BY DEF MergeSources, Merges
<1> HIDE DEF S, s
<1>4. Len(s) \in Nat /\ DOMAIN s = 1..Len(s) /\ \A i \in 1..Len(s) : s[i] \in S
  BY <1>2, LenProperties, ElementOfSeq
<1>5. Merges(f, s, Len(s))
  BY <1>4, MergesExists
<1> HIDE DEF f
<1>6. \A i \in 0..Len(s) : f[i] = IF i = 0 THEN <<>> ELSE AddNew(f[i - 1], s[i])
  BY <1>5, Zenon DEF Merges
<1> DEFINE Bad == {i \in 0..Len(s) : ~Good(i)}
<1>7. Bad = {}
  <2>1. SUFFICES ASSUME Bad # {} PROVE FALSE
    OBVIOUS
  <2>2. Bad \in SUBSET Nat
    BY <1>4
  <2>3. PICK m \in Bad : \A k \in Bad : m <= k
    BY <2>1, <2>2, LeastExists
  <2>4. m \in 0..Len(s) /\ ~Good(m)
    BY <2>3
  <2>5. CASE m = 0
    <3>1. f[m] = <<>> /\ UpTo(m) = {}
      BY <1>6, <2>4, <2>5
    <3>2. <<>> \in Seq(S) /\ DOMAIN <<>> = {}
      BY EmptySeq
    <3>3. Range(<<>>) = {}
      BY <3>2 DEF Range
    <3> QED BY <2>4, <3>1, <3>2, <3>3
  <2>6. CASE m # 0
    <3>1. m \in Nat /\ m - 1 \in 0..Len(s) /\ ~(m <= m - 1) /\ m \in 1..Len(s)
      BY <1>4, <2>4, <2>6
    <3>2. Good(m - 1)
      <4> HIDE DEF Good
      <4> QED BY <2>3, <3>1
    <3>3. f[m] = AddNew(f[m - 1], s[m]) /\ s[m] \in S
      BY <1>4, <1>6, <2>4, <2>6, <3>1
    <3>4. f[m] \in Seq(S) /\ Range(f[m]) = Range(f[m - 1]) \cup {s[m]}
      BY <3>2, <3>3, AddNewRange
    <3>5. 1..m = (1..(m - 1)) \cup {m}
      BY <3>1
    <3>6. UpTo(m) = UpTo(m - 1) \cup {s[m]}
      BY <3>5
    <3> QED BY <2>4, <3>2, <3>4, <3>6
  <2> QED BY <2>5, <2>6
<1>8. Good(Len(s))
  <2>1. Len(s) \in 0..Len(s)
    BY <1>4
  <2> HIDE DEF Good
  <2> QED BY <1>7, <2>1
<1>9. UpTo(Len(s)) = S
  BY <1>2, <1>4 DEF Range
<1>10. IsSequence(f[Len(s)])
  BY <1>8, SequencesAre
<1> QED BY <1>3, <1>8, <1>9, <1>10 DEF S

(***************************************************************************)
(* Federation                                                              *)
(***************************************************************************)

(* A term is in conflict in what has been federated so far.                *)
InConflict(acc, t) == \E c \in acc.conflicts : c.term = t.label

(* What a concept leaves behind: its label leads to its id, and its id to  *)
(* a concept of its label that has its sources, unless there is a conflict *)
(* about its label.                                                        *)
LabelSettled(acc, t) ==
  /\ t.label \in DOMAIN acc.labelToId
  /\ acc.labelToId[t.label] = t.id \/ InConflict(acc, t)

ConceptSettled(acc, t) ==
  /\ t.id \in DOMAIN acc.byId
  /\ \/ InConflict(acc, t)
     \/ /\ acc.byId[t.id].label = t.label
        /\ Range(t.sources) \subseteq Range(acc.byId[t.id].sources)

Settled(acc, t) == LabelSettled(acc, t) /\ ConceptSettled(acc, t)

IsFederation(acc) ==
  /\ IsFiniteSet(DOMAIN acc.byId)
  /\ \A id \in DOMAIN acc.byId : IsConcept(acc.byId[id])

(* A concept that is merged into one of its id and label.                  *)
LEMMA MergedConcept ==
  ASSUME NEW c, IsConcept(c), NEW t, IsConcept(t)
  PROVE  LET m == [c EXCEPT !.aliases = @ \cup t.aliases, !.sources = MergeSources(@, t.sources)] IN
         IsConcept(m) /\ m.label = c.label /\ Range(m.sources) = Range(c.sources) \cup Range(t.sources)
<1> DEFINE m == [c EXCEPT !.aliases = @ \cup t.aliases, !.sources = MergeSources(@, t.sources)]
<1>1. PICK s : s = MergeSources(c.sources, t.sources)
  OBVIOUS
<1>2. PICK a : a = c.aliases \cup t.aliases
  OBVIOUS
<1>3. PICK d : d = [c EXCEPT !.aliases = a]
  OBVIOUS
<1>4. /\ d = [id |-> c.id, label |-> c.label, aliases |-> a, sources |-> c.sources]
      /\ d.sources = c.sources
  BY <1>3 DEF IsConcept
<1>5. m = [d EXCEPT !.sources = s]
  BY <1>1, <1>2, <1>3, <1>4
<1> HIDE DEF m
<1>6. m = [id |-> c.id, label |-> c.label, aliases |-> a, sources |-> s]
  BY <1>4, <1>5
<1>7. IsSequence(s) /\ Range(s) = Range(c.sources) \cup Range(t.sources)
  BY <1>1, MergeRange DEF IsConcept
<1>8. c.label \in Range(LabelOrder)
  BY DEF IsConcept
<1>9. m.label = c.label /\ m.id = c.id /\ m.aliases = a /\ m.sources = s
  BY <1>6
<1>10. IsConcept(m)
  BY <1>6, <1>7, <1>8, <1>9 DEF IsConcept
<1> QED BY <1>7, <1>9, <1>10 DEF m

(* The three ways to go on with a concept: its id is new, is that of a     *)
(* concept with another label, or of one with its label.                   *)
LEMMA FederateTermCases ==
  ASSUME NEW acc, IsFederation(acc), NEW t, IsConcept(t)
  PROVE  LET next == FederateTerm(acc, t) IN
         /\ acc.conflicts \subseteq next.conflicts
         /\ \/ /\ t.id \notin DOMAIN acc.byId
               /\ next.byId = Assign(acc.byId, t.id, t)
            \/ /\ t.id \in DOMAIN acc.byId /\ acc.byId[t.id].label # t.label
               /\ next.byId = acc.byId /\ InConflict(next, t)
            \/ /\ t.id \in DOMAIN acc.byId /\ acc.byId[t.id].label = t.label
               /\ \E m : /\ next.byId = Assign(acc.byId, t.id, m)
                         /\ IsConcept(m) /\ m.label = t.label
                         /\ Range(m.sources) = Range(acc.byId[t.id].sources) \cup Range(t.sources)
         /\ \/ /\ t.label \in DOMAIN acc.labelToId /\ acc.labelToId[t.label] # t.id
               /\ next.labelToId = acc.labelToId /\ InConflict(next, t)
            \/ /\ t.label \in DOMAIN acc.labelToId => acc.labelToId[t.label] = t.id
               /\ next.labelToId = Assign(acc.labelToId, t.label, t.id)
<1> DEFINE next      == FederateTerm(acc, t)
           ambiguous == t.label \in DOMAIN acc.labelToId /\ acc.labelToId[t.label] # t.id
           known     == t.id \in DOMAIN acc.byId
           renamed   == known /\ acc.byId[t.id].label # t.label
           merged    == [acc.byId[t.id] EXCEPT !.aliases = @ \cup t.aliases,
                                               !.sources = MergeSources(@, t.sources)]
           labelled  == {[term |-> t.label, sameLabel |-> TRUE]}
           named     == {[term |-> t.label, sameLabel |-> FALSE]}
<1>1. next = [byId      |-> IF renamed THEN acc.byId
                            ELSE Assign(acc.byId, t.id, IF known THEN merged ELSE t),
              labelToId |-> IF ambiguous THEN acc.labelToId ELSE Assign(acc.labelToId, t.label, t.id),
              conflicts |-> acc.conflicts \cup (IF ambiguous THEN labelled ELSE {})
                                          \cup (IF renamed THEN named ELSE {})]
  BY Zenon DEF FederateTerm
<1>2. known => IsConcept(merged) /\ merged.label = acc.byId[t.id].label
               /\ Range(merged.sources) = Range(acc.byId[t.id].sources) \cup Range(t.sources)
  BY MergedConcept DEF IsFederation
<1> HIDE DEF next, merged
<1>3. /\ next.byId = IF renamed THEN acc.byId
                     ELSE Assign(acc.byId, t.id, IF known THEN merged ELSE t)
      /\ next.labelToId = IF ambiguous THEN acc.labelToId ELSE Assign(acc.labelToId, t.label, t.id)
      /\ next.conflicts = acc.conflicts \cup (IF ambiguous THEN labelled ELSE {})
                                        \cup (IF renamed THEN named ELSE {})
  BY <1>1
<1>4. ambiguous => InConflict(next, t)
  <2>1. ambiguous => [term |-> t.label, sameLabel |-> TRUE] \in next.conflicts
    BY <1>3
  <2>2. [term |-> t.label, sameLabel |-> TRUE].term = t.label
    OBVIOUS
  <2> QED BY <2>1, <2>2, Zenon DEF InConflict
<1>5. renamed => InConflict(next, t)
  <2>1. renamed => [term |-> t.label, sameLabel |-> FALSE] \in next.conflicts
    BY <1>3
  <2>2. [term |-> t.label, sameLabel |-> FALSE].term = t.label
    OBVIOUS
  <2> QED BY <2>1, <2>2, Zenon DEF InConflict
<1>6. acc.conflicts \subseteq next.conflicts
  BY <1>3
<1>7. CASE ~known
  BY <1>3, <1>4, <1>6, <1>7 DEF next
<1>8. CASE renamed
  BY <1>3, <1>4, <1>5, <1>6, <1>8 DEF next
<1>9. CASE known /\ ~renamed
  <2>1. next.byId = Assign(acc.byId, t.id, merged)
    BY <1>3, <1>9
  <2>2. acc.byId[t.id].label = t.label /\ merged.label = t.label
    BY <1>2, <1>9
  <2> QED BY <1>2, <1>3, <1>4, <1>6, <1>9, <2>1, <2>2 DEF next
<1> QED BY <1>7, <1>8, <1>9

(* A concept that is federated is settled, and those before it stay so.    *)
LEMMA FederateTermSettles ==
  ASSUME NEW acc, IsFederation(acc), NEW t, IsConcept(t)
  PROVE  /\ IsFederation(FederateTerm(acc, t))
         /\ Settled(FederateTerm(acc, t), t)
         /\ \A u : Settled(acc, u) => Settled(FederateTerm(acc, t), u)
<1> DEFINE next == FederateTerm(acc, t)
<1>1. /\ acc.conflicts \subseteq next.conflicts
      /\ \/ /\ t.id \notin DOMAIN acc.byId
            /\ next.byId = Assign(acc.byId, t.id, t)
         \/ /\ t.id \in DOMAIN acc.byId /\ acc.byId[t.id].label # t.label
            /\ next.byId = acc.byId /\ InConflict(next, t)
         \/ /\ t.id \in DOMAIN acc.byId /\ acc.byId[t.id].label = t.label
            /\ \E m : /\ next.byId = Assign(acc.byId, t.id, m)
                      /\ IsConcept(m) /\ m.label = t.label
                      /\ Range(m.sources) = Range(acc.byId[t.id].sources) \cup Range(t.sources)
      /\ \/ /\ t.label \in DOMAIN acc.labelToId /\ acc.labelToId[t.label] # t.id
            /\ next.labelToId = acc.labelToId /\ InConflict(next, t)
         \/ /\ t.label \in DOMAIN acc.labelToId => acc.labelToId[t.label] = t.id
            /\ next.labelToId = Assign(acc.labelToId, t.label, t.id)
  BY FederateTermCases, Zenon
<1> HIDE DEF next
<1>2. \A u : InConflict(acc, u) => InConflict(next, u)
  BY <1>1 DEF InConflict
<1>3. LabelSettled(next, t) /\ \A u : LabelSettled(acc, u) => LabelSettled(next, u)
  <2>1. CASE /\ t.label \in DOMAIN acc.labelToId /\ acc.labelToId[t.label] # t.id
             /\ next.labelToId = acc.labelToId /\ InConflict(next, t)
    BY <1>2, <2>1 DEF LabelSettled
  <2>2. CASE /\ t.label \in DOMAIN acc.labelToId => acc.labelToId[t.label] = t.id
             /\ next.labelToId = Assign(acc.labelToId, t.label, t.id)
    <3>1. /\ DOMAIN next.labelToId = DOMAIN acc.labelToId \cup {t.label}
          /\ next.labelToId[t.label] = t.id
          /\ \A z \in DOMAIN acc.labelToId : next.labelToId[z] = acc.labelToId[z]
      <4>1. PICK f, g, x, y : f = acc.labelToId /\ g = next.labelToId /\ x = t.label /\ y = t.id
        OBVIOUS
      <4>2. g = Assign(f, x, y)
        BY <2>2, <4>1
      <4>3. /\ DOMAIN g = DOMAIN f \cup {x} /\ g[x] = y
            /\ \A z \in DOMAIN f : z # x => g[z] = f[z]
        BY <4>2 DEF Assign
      <4> QED BY <2>2, <4>1, <4>3
    <3> QED BY <1>2, <3>1 DEF LabelSettled
  <2> QED BY <1>1, <2>1, <2>2
<1>4. /\ IsFederation(next) /\ ConceptSettled(next, t)
      /\ \A u : ConceptSettled(acc, u) => ConceptSettled(next, u)
  <2>1. CASE t.id \notin DOMAIN acc.byId /\ next.byId = Assign(acc.byId, t.id, t)
    <3>1. /\ DOMAIN next.byId = DOMAIN acc.byId \cup {t.id} /\ next.byId[t.id] = t
          /\ \A z \in DOMAIN acc.byId : next.byId[z] = acc.byId[z]
      <4>1. PICK f, g, x, y : f = acc.byId /\ g = next.byId /\ x = t.id /\ y = t
        OBVIOUS
      <4>2. g = Assign(f, x, y)
        BY <2>1, <4>1
      <4>3. /\ DOMAIN g = DOMAIN f \cup {x} /\ g[x] = y
            /\ \A z \in DOMAIN f : z # x => g[z] = f[z]
        BY <4>2 DEF Assign
      <4> QED BY <2>1, <4>1, <4>3
    <3>2. IsFiniteSet(DOMAIN next.byId)
      BY <3>1, FS_AddElement DEF IsFederation
    <3>3. \A id \in DOMAIN next.byId : IsConcept(next.byId[id])
      BY <3>1 DEF IsFederation
    <3>4. ConceptSettled(next, t) /\ \A u : ConceptSettled(acc, u) => ConceptSettled(next, u)
      BY <1>2, <3>1 DEF ConceptSettled
    <3> QED BY <3>2, <3>3, <3>4 DEF IsFederation
  <2>2. CASE /\ t.id \in DOMAIN acc.byId
             /\ next.byId = acc.byId /\ InConflict(next, t)
    BY <1>2, <2>2 DEF ConceptSettled, IsFederation
  <2>3. ASSUME t.id \in DOMAIN acc.byId, acc.byId[t.id].label = t.label, NEW m,
               next.byId = Assign(acc.byId, t.id, m), IsConcept(m), m.label = t.label,
               Range(m.sources) = Range(acc.byId[t.id].sources) \cup Range(t.sources)
        PROVE  /\ IsFederation(next) /\ ConceptSettled(next, t)
               /\ \A u : ConceptSettled(acc, u) => ConceptSettled(next, u)
    <3>1. /\ DOMAIN next.byId = DOMAIN acc.byId /\ next.byId[t.id] = m
          /\ \A z \in DOMAIN acc.byId : z # t.id => next.byId[z] = acc.byId[z]
      <4>1. PICK f, g, x, y : f = acc.byId /\ g = next.byId /\ x = t.id /\ y = m
        OBVIOUS
      <4>2. g = Assign(f, x, y)
        BY <2>3, <4>1
      <4>3. /\ DOMAIN g = DOMAIN f \cup {x} /\ g[x] = y
            /\ \A z \in DOMAIN f : z # x => g[z] = f[z]
        BY <4>2 DEF Assign
      <4> QED BY <2>3, <4>1, <4>3
    <3>2. \A id \in DOMAIN next.byId : IsConcept(next.byId[id])
      BY <2>3, <3>1 DEF IsFederation
    <3>3. IsFederation(next)
      BY <3>1, <3>2 DEF IsFederation
    <3>4. ConceptSettled(next, t)
      BY <2>3, <3>1 DEF ConceptSettled
    <3>5. ASSUME NEW u, ConceptSettled(acc, u) PROVE ConceptSettled(next, u)
      <4>1. u.id \in DOMAIN acc.byId
        BY <3>5 DEF ConceptSettled
      <4>2. CASE u.id # t.id
        BY <1>2, <3>1, <3>5, <4>2 DEF ConceptSettled
      <4>3. CASE u.id = t.id
        BY <1>2, <2>3, <3>1, <3>5, <4>3 DEF ConceptSettled
      <4> QED BY <4>2, <4>3
    <3> QED BY <3>3, <3>4, <3>5
  <2> QED BY <1>1, <2>1, <2>2, <2>3
<1> QED BY <1>3, <1>4 DEF next, Settled

(* The function that FederateTerms is computed by, on the first n terms.   *)
Federates(f, ts, n) ==
  f = [m \in 0..n |-> IF m = 0 THEN NothingYet ELSE FederateTerm(f[m - 1], ts[m])]

LEMMA FederatesExists ==
  ASSUME NEW ts, NEW n \in Nat
  PROVE  \E f : Federates(f, ts, n)
<1> DEFINE Bad == {m \in Nat : ~\E f : Federates(f, ts, m)}
<1>1. SUFFICES ASSUME Bad # {} PROVE FALSE
  OBVIOUS
<1>2. PICK m \in Bad : \A k \in Bad : m <= k
  BY <1>1, LeastExists
<1>3. m \in Nat /\ ~\E f : Federates(f, ts, m)
  BY <1>2
<1>4. CASE m = 0
  <2> DEFINE z == [i \in 0..0 |-> NothingYet]
  <2>1. z = [i \in 0..0 |-> IF i = 0 THEN NothingYet ELSE FederateTerm(z[i - 1], ts[i])]
    OBVIOUS
  <2> QED BY <1>3, <1>4, <2>1 DEF Federates
<1>5. CASE m > 0
  <2>1. m - 1 \in Nat /\ m - 1 \notin Bad
    BY <1>2, <1>5
  <2>2. PICK f : Federates(f, ts, m - 1)
    BY <2>1
  <2> DEFINE g == [i \in 0..m |-> IF i = 0 THEN NothingYet ELSE FederateTerm(f[i - 1], ts[i])]
  <2>3. \A i \in 0..(m - 1) : f[i] = IF i = 0 THEN NothingYet ELSE FederateTerm(f[i - 1], ts[i])
    BY <2>2, Zenon DEF Federates
  <2>4. \A i \in 0..(m - 1) : i \in 0..m
    BY <2>1
  <2>5. \A i \in 0..(m - 1) : g[i] = f[i]
    BY <2>3, <2>4
  <2>6. \A i \in 0..m : i # 0 => g[i - 1] = f[i - 1]
    <3>1. \A i \in 0..m : i # 0 => i - 1 \in 0..(m - 1)
      BY <2>1
    <3> HIDE DEF g
    <3> QED BY <2>5, <3>1
  <2>7. g = [i \in 0..m |-> IF i = 0 THEN NothingYet ELSE FederateTerm(g[i - 1], ts[i])]
    BY <2>6, Zenon
  <2> QED BY <1>3, <2>7 DEF Federates
<1> QED BY <1>3, <1>4, <1>5

(* After a list of concepts each one is settled.                           *)
LEMMA FederationSettles ==
  ASSUME NEW ts, IsSequence(ts), \A t \in Range(ts) : IsConcept(t)
  PROVE  /\ IsFederation(FederateTerms(ts))
         /\ \A t \in Range(ts) : Settled(FederateTerms(ts), t)
<1> DEFINE f == CHOOSE f : Federates(f, ts, Len(ts))
           Good(n) == IsFederation(f[n]) /\ \A i \in 1..n : Settled(f[n], ts[i])
<1>1. Len(ts) \in Nat /\ DOMAIN ts = 1..Len(ts) /\ \A i \in 1..Len(ts) : IsConcept(ts[i])
  BY LenProperties DEF IsSequence, Range
<1>2. FederateTerms(ts) = f[Len(ts)]
  BY DEF FederateTerms, Federates
<1>3. Federates(f, ts, Len(ts))
  BY <1>1, FederatesExists
<1> HIDE DEF f
<1>4. \A i \in 0..Len(ts) : f[i] = IF i = 0 THEN NothingYet ELSE FederateTerm(f[i - 1], ts[i])
  BY <1>3, Zenon DEF Federates
<1> DEFINE Bad == {i \in 0..Len(ts) : ~Good(i)}
<1>5. Bad = {}
  <2>1. SUFFICES ASSUME Bad # {} PROVE FALSE
    OBVIOUS
  <2>2. Bad \in SUBSET Nat
    BY <1>1
  <2>3. PICK m \in Bad : \A k \in Bad : m <= k
    BY <2>1, <2>2, LeastExists
  <2>4. m \in 0..Len(ts) /\ ~Good(m)
    BY <2>3
  <2>5. CASE m = 0
    <3>1. f[m] = NothingYet /\ 1..m = {}
      BY <1>4, <2>4, <2>5
    <3>2. DOMAIN NothingYet.byId = {}
      BY EmptySeq DEF NothingYet
    <3>3. IsFederation(NothingYet)
      BY <3>2, FS_EmptySet DEF IsFederation
    <3> QED BY <2>4, <3>1, <3>3
  <2>6. CASE m # 0
    <3>1. m \in Nat /\ m - 1 \in 0..Len(ts) /\ ~(m <= m - 1) /\ m \in 1..Len(ts)
      BY <1>1, <2>4, <2>6
    <3>2. Good(m - 1)
      <4> HIDE DEF Good
      <4> QED BY <2>3, <3>1
    <3>3. f[m] = FederateTerm(f[m - 1], ts[m]) /\ IsConcept(ts[m])
      BY <1>1, <1>4, <2>4, <2>6, <3>1
    <3>4. /\ IsFederation(f[m]) /\ Settled(f[m], ts[m])
          /\ \A u : Settled(f[m - 1], u) => Settled(f[m], u)
      BY <3>2, <3>3, FederateTermSettles
    <3>5. \A i \in 1..m : i # m => i \in 1..(m - 1)
      BY <3>1
    <3> QED BY <2>4, <3>2, <3>4, <3>5
  <2> QED BY <2>5, <2>6
<1>6. Good(Len(ts))
  <2>1. Len(ts) \in 0..Len(ts)
    BY <1>1
  <2> HIDE DEF Good
  <2> QED BY <1>5, <2>1
<1> QED BY <1>1, <1>2, <1>6 DEF Range

(***************************************************************************)
(* The catalog of the ontologies in scope                                  *)
(***************************************************************************)
IsPublished(o) == \E kb \in KnowledgeBases : o \in Ontologies[kb]

Compiled(o, k) == {CompileTerm(t, Overlay) : t \in o.terms[k]}

(* What the registry resolves: the published ontologies of some bases.     *)
AreResolved(ontologies) ==
  IsSequence(ontologies) /\ \A item \in Range(ontologies) : IsPublished(item.ontology)

(* The concepts of one kind that the ontologies declare.                   *)
DeclaredIn(ontologies, k) == UNION {Compiled(item.ontology, k) : item \in Range(ontologies)}

LEMMA CompiledConcept ==
  ASSUME NEW t, IsConcept(t)
  PROVE  LET c == CompileTerm(t, Overlay) IN IsConcept(c) /\ c.id = t.id /\ c.label = t.label
<1> DEFINE ov  == IF t.label \in DOMAIN Overlay THEN Overlay[t.label] ELSE NoOverlay
           own == IF t.sources = <<>> THEN <<"entity_graph">> ELSE t.sources
           c   == CompileTerm(t, Overlay)
<1>1. IsSequence(own)
  <2>1. <<"entity_graph">> \in Seq({"entity_graph"})
    OBVIOUS
  <2> QED BY <2>1, SequencesAre DEF IsConcept
<1>2. IsSequence(ov.sources) \/ ov.sources = <<>>
  BY OntologiesAssumption DEF NoOverlay
<1>3. PICK s : s = IF ov.sources = <<>> THEN own ELSE ov.sources
  OBVIOUS
<1>4. IsSequence(s)
  BY <1>1, <1>2, <1>3
<1>5. PICK a : a = t.aliases \cup ov.aliases
  OBVIOUS
<1>6. PICK d : d = [t EXCEPT !.aliases = a]
  OBVIOUS
<1>7. d = [id |-> t.id, label |-> t.label, aliases |-> a, sources |-> t.sources]
  BY <1>6 DEF IsConcept
<1>8. c = [d EXCEPT !.sources = s]
  BY <1>3, <1>5, <1>6 DEF CompileTerm
<1> HIDE DEF c
<1>9. c = [id |-> t.id, label |-> t.label, aliases |-> a, sources |-> s]
  BY <1>7, <1>8
<1>10. c.id = t.id /\ c.label = t.label /\ c.aliases = a /\ c.sources = s
  BY <1>9
<1>11. IsConcept(c)
  BY <1>4, <1>9, <1>10 DEF IsConcept
<1> QED BY <1>10, <1>11 DEF c

(* Labels have ranks, so that finitely many concepts can be sorted.        *)
LEMMA ConceptsAreRanked ==
  ASSUME NEW S, IsFiniteSet(S), \A t \in S : IsConcept(t)
  PROVE  AreRanked(S)
<1>1. Len(LabelOrder) \in Nat /\ DOMAIN LabelOrder = 1..Len(LabelOrder)
  BY OntologiesAssumption, LenProperties DEF IsSequence
<1>2. ASSUME NEW t \in S PROVE Rank(t.label) \in Nat
  <2>1. PICK i \in DOMAIN LabelOrder : LabelOrder[i] = t.label
    BY DEF IsConcept, Range
  <2>2. Rank(t.label) \in DOMAIN LabelOrder
    BY <2>1 DEF Rank
  <2> QED BY <1>1, <2>2
<1> QED BY <1>2 DEF AreRanked

(* A published ontology compiles to concepts that have their own ids.      *)
LEMMA CompiledTerms ==
  ASSUME NEW o, IsPublished(o), NEW k \in Kinds
  PROVE  /\ IsFiniteSet(Compiled(o, k)) /\ \A c \in Compiled(o, k) : IsConcept(c)
         /\ \A c, d \in Compiled(o, k) : c.id = d.id => c = d
<1>1. /\ IsFiniteSet(o.terms[k]) /\ \A t \in o.terms[k] : IsConcept(t)
      /\ \A t, u \in o.terms[k] : t.id = u.id => t = u
  BY OntologiesAssumption DEF IsPublished
<1> DEFINE f == [t \in o.terms[k] |-> CompileTerm(t, Overlay)]
<1>2. f \in Surjection(o.terms[k], Compiled(o, k))
  BY DEF Surjection, Compiled
<1>3. IsFiniteSet(Compiled(o, k))
  BY <1>1, <1>2, FS_Surjection
<1>4. \A t \in o.terms[k] : IsConcept(CompileTerm(t, Overlay)) /\ CompileTerm(t, Overlay).id = t.id
  BY <1>1, CompiledConcept
<1> QED BY <1>1, <1>3, <1>4 DEF Compiled

LEMMA CompiledCatalog ==
  ASSUME NEW o, IsPublished(o), NEW k \in Kinds
  PROVE  LET s == CompileCatalog(o, Overlay)[k] IN IsSequence(s) /\ Range(s) = Compiled(o, k)
<1> DEFINE s == CompileCatalog(o, Overlay)[k]
<1>1. s = CHOOSE r \in SortTerms(Compiled(o, k)) : TRUE
  BY DEF CompileCatalog, Compiled
<1>2. IsFiniteSet(Compiled(o, k)) /\ SortTerms(Compiled(o, k)) # {}
  BY CompiledTerms, ConceptsAreRanked, SortExists
<1>3. s \in SortTerms(Compiled(o, k))
  BY <1>1, <1>2
<1> HIDE DEF s
<1>4. IsSequence(s) /\ Range(s) = Compiled(o, k)
  BY <1>2, <1>3, SortIsExact
<1> QED BY <1>4 DEF s

(* What Catalogs gives to FederateCatalogs.                                *)
Inputs(ontologies) ==
  [i \in DOMAIN ontologies |->
    [namespace |-> ontologies[i].namespace,
     terms     |-> CompileCatalog(ontologies[i].ontology, Overlay)]]

LEMMA FederatedKind ==
  ASSUME NEW ontologies, AreResolved(ontologies), NEW k \in Kinds
  PROVE  LET merged == FederateKind(k, Inputs(ontologies)) IN
         IsFederation(merged) /\ \A t \in DeclaredIn(ontologies, k) : Settled(merged, t)
<1> DEFINE inputs == Inputs(ontologies)
           ss == [i \in DOMAIN inputs |-> inputs[i].terms[k]]
           ts == FlattenSeq(ss)
<1>1. Len(ontologies) \in Nat /\ DOMAIN ontologies = 1..Len(ontologies)
  BY LenProperties DEF AreResolved, IsSequence
<1>2. DOMAIN ss = DOMAIN ontologies /\ ss = [i \in DOMAIN ss |-> ss[i]]
  BY DEF Inputs
<1>3. ASSUME NEW i \in DOMAIN ss
      PROVE  IsSequence(ss[i]) /\ Range(ss[i]) = Compiled(ontologies[i].ontology, k)
  <2>1. ss[i] = CompileCatalog(ontologies[i].ontology, Overlay)[k]
    BY <1>2 DEF Inputs
  <2>2. IsPublished(ontologies[i].ontology)
    BY <1>2 DEF AreResolved, Range
  <2> QED BY <2>1, <2>2, CompiledCatalog
<1>4. FederateKind(k, inputs) = FederateTerms(ts)
  BY DEF FederateKind
<1> HIDE DEF ss
<1>5. IsSequence(ss)
  BY <1>1, <1>2, FunctionsOfIndexes
<1>6. IsSequence(ts) /\ Range(ts) = UNION {Range(ss[i]) : i \in DOMAIN ss}
  BY <1>3, <1>5, FlattenSequences
<1>7. Range(ts) = DeclaredIn(ontologies, k)
  <2>1. DeclaredIn(ontologies, k) = UNION {Compiled(ontologies[i].ontology, k) : i \in DOMAIN ontologies}
    BY DEF DeclaredIn, Range
  <2>2. UNION {Range(ss[i]) : i \in DOMAIN ss}
          = UNION {Compiled(ontologies[i].ontology, k) : i \in DOMAIN ontologies}
    BY <1>2, <1>3
  <2> QED BY <1>6, <2>1, <2>2
<1>8. \A t \in Range(ts) : IsConcept(t)
  BY <1>7, CompiledTerms DEF DeclaredIn, AreResolved
<1> HIDE DEF ts
<1> QED BY <1>4, <1>6, <1>7, <1>8, FederationSettles

(* The catalogs of several ontologies: the sorted concepts of the          *)
(* federation of each kind, and all conflicts.                             *)
LEMMA FederatedCatalog ==
  ASSUME NEW ontologies, AreResolved(ontologies), Len(ontologies) # 1,
         NEW catalog \in Catalogs(ontologies), NEW k \in Kinds
  PROVE  LET merged == FederateKind(k, Inputs(ontologies)) IN
         /\ merged.conflicts \subseteq catalog.conflicts
         /\ Range(catalog.terms[k]) = {merged.byId[id] : id \in DOMAIN merged.byId}
<1> DEFINE inputs == Inputs(ontologies)
           merged == [x \in Kinds |-> FederateKind(x, inputs)]
<1>1. Len(inputs) = Len(ontologies)
  <2>1. Len(ontologies) \in Nat /\ DOMAIN inputs = 1..Len(ontologies)
        /\ inputs = [i \in DOMAIN inputs |-> inputs[i]]
    BY LenProperties DEF AreResolved, IsSequence, Inputs
  <2> HIDE DEF inputs
  <2>2. IsSequence(inputs)
    BY <2>1, FunctionsOfIndexes
  <2> QED BY <2>1, <2>2, LenProperties DEF IsSequence
<1>2. catalog \in FederateCatalogs(inputs)
  BY DEF Catalogs, Inputs
<1>3. \E terms : /\ \A x \in Kinds : terms[x] \in SortTerms(Range(merged[x].byId))
                 /\ catalog = [terms     |-> terms,
                               conflicts |-> UNION {merged[x].conflicts : x \in Kinds}]
  BY <1>1, <1>2, Zenon DEF FederateCatalogs
<1>4. merged[k] = FederateKind(k, inputs)
  OBVIOUS
<1>5. merged[k].conflicts \subseteq catalog.conflicts
  <2> HIDE DEF merged
  <2>1. catalog.conflicts = UNION {merged[x].conflicts : x \in Kinds}
    BY <1>3
  <2> QED BY <2>1
<1> HIDE DEF merged
<1>6. catalog.terms[k] \in SortTerms(Range(merged[k].byId))
  BY <1>3
<1>7. IsFiniteSet(Range(merged[k].byId))
  <2> DEFINE F == merged[k].byId
             f == [id \in DOMAIN F |-> F[id]]
  <2>1. IsFiniteSet(DOMAIN F)
    BY <1>4, FederatedKind DEF IsFederation
  <2>2. f \in Surjection(DOMAIN F, Range(F))
    BY DEF Surjection, Range
  <2> QED BY <2>1, <2>2, FS_Surjection
<1>8. Range(catalog.terms[k]) = Range(merged[k].byId)
  BY <1>6, <1>7, SortIsExact
<1> QED BY <1>4, <1>5, <1>8 DEF Range

(* The catalog of one ontology is that ontology's.                         *)
LEMMA CatalogOfOne ==
  ASSUME NEW ontologies, AreResolved(ontologies), Len(ontologies) = 1,
         NEW catalog \in Catalogs(ontologies), NEW k \in Kinds
  PROVE  LET o == ontologies[1].ontology IN
         /\ IsPublished(o) /\ DeclaredIn(ontologies, k) = Compiled(o, k)
         /\ IsSequence(catalog.terms[k]) /\ Range(catalog.terms[k]) = Compiled(o, k)
<1> DEFINE o == ontologies[1].ontology
<1>1. DOMAIN ontologies = {1}
  BY LenProperties DEF AreResolved, IsSequence
<1>2. IsPublished(o) /\ DeclaredIn(ontologies, k) = Compiled(o, k)
  BY <1>1 DEF AreResolved, DeclaredIn, Range
<1>3. catalog.terms[k] = CompileCatalog(o, Overlay)[k]
  <2> DEFINE inputs == Inputs(ontologies)
  <2>1. DOMAIN inputs = 1..1 /\ inputs = [i \in DOMAIN inputs |-> inputs[i]]
        /\ inputs[1].terms = CompileCatalog(o, Overlay)
    BY <1>1 DEF Inputs
  <2>2. catalog \in FederateCatalogs(inputs)
    BY DEF Catalogs, Inputs
  <2> HIDE DEF inputs
  <2>3. IsSequence(inputs)
    BY <2>1, FunctionsOfIndexes
  <2>4. Len(inputs) = 1
    BY <2>1, <2>3, LenProperties DEF IsSequence
  <2>5. catalog = [terms |-> inputs[1].terms, conflicts |-> {}]
    BY <2>2, <2>4 DEF FederateCatalogs
  <2> QED BY <2>1, <2>5
<1> QED BY <1>2, <1>3, CompiledCatalog

(* A catalog without a conflict about any of some words: it has every      *)
(* concept that is declared under one of them, with all its sources.       *)
LEMMA CatalogKeepsConcepts ==
  ASSUME NEW ontologies, AreResolved(ontologies), NEW catalog \in Catalogs(ontologies),
         NEW words, \A c \in catalog.conflicts : c.term \notin words, NEW k \in Kinds
  PROVE  /\ \A t \in DeclaredIn(ontologies, k) : t.label \in words =>
              \E c \in Range(catalog.terms[k]) :
                c.label = t.label /\ IsConcept(c) /\ Range(t.sources) \subseteq Range(c.sources)
         /\ \A t, u \in DeclaredIn(ontologies, k) :
              t.label \in words /\ u.label \in words /\ t.id = u.id => t.label = u.label
         /\ Len(ontologies) # 1 =>
              \A t, u \in DeclaredIn(ontologies, k) :
                t.label \in words /\ t.label = u.label => t.id = u.id
<1>1. CASE Len(ontologies) = 1
  <2> DEFINE o == ontologies[1].ontology
  <2>1. /\ IsPublished(o) /\ DeclaredIn(ontologies, k) = Compiled(o, k)
        /\ Range(catalog.terms[k]) = Compiled(o, k)
    BY <1>1, CatalogOfOne
  <2>2. /\ \A c \in Compiled(o, k) : IsConcept(c)
        /\ \A c, d \in Compiled(o, k) : c.id = d.id => c = d
    BY <2>1, CompiledTerms
  <2> QED BY <1>1, <2>1, <2>2
<1>2. CASE Len(ontologies) # 1
  <2> DEFINE merged == FederateKind(k, Inputs(ontologies))
  <2>1. /\ merged.conflicts \subseteq catalog.conflicts
        /\ Range(catalog.terms[k]) = {merged.byId[id] : id \in DOMAIN merged.byId}
    BY <1>2, FederatedCatalog
  <2>2. IsFederation(merged) /\ \A t \in DeclaredIn(ontologies, k) : Settled(merged, t)
    BY FederatedKind
  <2> HIDE DEF merged
  <2>3. ASSUME NEW t \in DeclaredIn(ontologies, k), t.label \in words
        PROVE  /\ t.label \in DOMAIN merged.labelToId /\ merged.labelToId[t.label] = t.id
               /\ t.id \in DOMAIN merged.byId /\ merged.byId[t.id].label = t.label
               /\ Range(t.sources) \subseteq Range(merged.byId[t.id].sources)
    <3>1. ~InConflict(merged, t)
      BY <2>1, <2>3 DEF InConflict
    <3> QED BY <2>2, <3>1 DEF Settled, LabelSettled, ConceptSettled
  <2>4. ASSUME NEW t \in DeclaredIn(ontologies, k), t.label \in words
        PROVE  \E c \in Range(catalog.terms[k]) :
                 c.label = t.label /\ IsConcept(c) /\ Range(t.sources) \subseteq Range(c.sources)
    BY <2>1, <2>2, <2>3, <2>4 DEF IsFederation
  <2> QED BY <2>3, <2>4
<1> QED BY <1>1, <1>2

(***************************************************************************)
(* The plan of a request is one of its ontologies                          *)
(***************************************************************************)
PlanIsOfCatalog ==
  stage \in {"retrieving", "fallback", "answered"} =>
    /\ AreResolved(request.ontologies)
    /\ \E catalog \in Catalogs(request.ontologies) : plan = Plan(request.question, catalog)

LEMMA ResolutionsAreResolved ==
  ASSUME NEW bases \in Scopes, NEW ontologies \in Resolutions(bases)
  PROVE  AreResolved(ontologies)
<1> DEFINE resolved(f, kb) == IF f[kb] = Unbound THEN <<>>
                              ELSE <<[namespace |-> kb, ontology |-> f[kb]]>>
<1>1. PICK f : /\ \A kb \in Range(bases) : f[kb] \in Ontologies[kb] \cup {Unbound}
               /\ ontologies = FlattenSeq([i \in DOMAIN bases |-> resolved(f, bases[i])])
  BY Zenon DEF Resolutions
<1> DEFINE ss == [i \in DOMAIN bases |-> resolved(f, bases[i])]
<1>2. /\ Len(bases) \in Nat /\ DOMAIN bases = 1..Len(bases)
      /\ \A i \in DOMAIN bases : bases[i] \in KnowledgeBases
  BY ScopesAssumption, LenProperties, ElementOfSeq
<1>3. DOMAIN ss = 1..Len(bases) /\ ss = [i \in DOMAIN ss |-> ss[i]]
  BY <1>2
<1>4. ASSUME NEW i \in DOMAIN ss
      PROVE  IsSequence(ss[i]) /\ \A item \in Range(ss[i]) : IsPublished(item.ontology)
  <2> DEFINE kb == bases[i]
             item == [namespace |-> kb, ontology |-> f[kb]]
  <2>1. kb \in Range(bases) /\ kb \in KnowledgeBases
    BY <1>2, <1>3 DEF Range
  <2>2. CASE f[kb] = Unbound
    <3>1. ss[i] = <<>>
      BY <2>2
    <3> QED BY <3>1, EmptyIsFacts, EmptySeq DEF AreFacts, Range
  <2>3. CASE f[kb] # Unbound
    <3>1. ss[i] = <<item>>
      BY <2>3
    <3>2. IsPublished(item.ontology)
      BY <1>1, <2>1, <2>3 DEF IsPublished
    <3> HIDE DEF item
    <3>3. <<item>> \in Seq({item}) /\ DOMAIN <<item>> = {1} /\ <<item>>[1] = item
      OBVIOUS
    <3>4. Range(<<item>>) = {item} /\ IsSequence(<<item>>)
      BY <3>3, SequencesAre DEF Range
    <3> QED BY <3>1, <3>2, <3>4
  <2> QED BY <2>2, <2>3
<1>5. ontologies = FlattenSeq(ss)
  BY <1>1
<1> HIDE DEF ss
<1>6. IsSequence(ss)
  BY <1>2, <1>3, FunctionsOfIndexes
<1>7. IsSequence(ontologies) /\ Range(ontologies) = UNION {Range(ss[i]) : i \in DOMAIN ss}
  BY <1>4, <1>5, <1>6, FlattenSequences
<1> QED BY <1>4, <1>7 DEF AreResolved

LEMMA PlanStays ==
  ASSUME PlanIsOfCatalog, request' = request, plan' = plan,
         stage' = stage \/ stage \in {"retrieving", "fallback"}
  PROVE  PlanIsOfCatalog'
BY DEF PlanIsOfCatalog

LEMMA PlansAreOfCatalogs == Spec => []PlanIsOfCatalog
<1>1. Init => PlanIsOfCatalog
  BY DEF Init, PlanIsOfCatalog
<1>2. ASSUME PlanIsOfCatalog, [Next]_vars PROVE PlanIsOfCatalog'
  <2>1. CASE UNCHANGED vars
    BY <1>2, <2>1, PlanStays DEF vars
  <2>2. CASE Ask
    <3>1. PICK question \in Questions, bases \in Scopes :
            \E ontologies \in Resolutions(bases), domain \in Domains \cup {NoDomain},
               down \in SUBSET Range(bases) : Retrieve(question, bases, ontologies, domain, down)
      BY <2>2, Zenon DEF Ask
    <3>2. PICK ontologies \in Resolutions(bases), domain \in Domains \cup {NoDomain},
               down \in SUBSET Range(bases) : Retrieve(question, bases, ontologies, domain, down)
      BY <3>1
    <3>3. AreResolved(ontologies)
      BY ResolutionsAreResolved
    <3>4. /\ request'.question = question /\ request'.ontologies = ontologies
          /\ \E catalog \in Catalogs(ontologies) : plan' = Plan(question, catalog)
      BY <3>2 DEF Retrieve
    <3> QED BY <3>3, <3>4 DEF PlanIsOfCatalog
  <2>3. CASE Refuse
    BY <2>3 DEF Refuse, PlanIsOfCatalog
  <2>4. CASE Returns
    <3>1. ASSUME NEW source, NEW r, Return(source, r) PROVE PlanIsOfCatalog'
      BY <1>2, <3>1, PlanStays DEF Return
    <3> QED BY <2>4, <3>1 DEF Returns, EntityGraphReturns, BusinessDataReturns, WikiReturns,
                              OntologyReturns, RetrieverFails
  <2>5. CASE Assemble
    BY <1>2, <2>5, PlanStays DEF Assemble
  <2>6. CASE Fallback
    BY <1>2, <2>6, PlanStays DEF Fallback
  <2> QED BY <1>2, <2>1, <2>2, <2>3, <2>4, <2>5, <2>6 DEF Next, Returns
<1> QED BY <1>1, <1>2, PTL DEF Spec

(* A complete answer was planned with a catalog of the ontologies in scope *)
(* that has no conflict about a word of the question.                      *)
LEMMA CompleteIsUnambiguous ==
  ASSUME ContextInvariant, PlanIsOfCatalog, Answered, pack.complete
  PROVE  /\ AreResolved(request.ontologies)
         /\ Blocking(plan, items) = {}
         /\ \E catalog \in Catalogs(request.ontologies) :
              /\ plan = Plan(request.question, catalog)
              /\ \A c \in catalog.conflicts : c.term \notin Words
<1>1. PICK catalog \in Catalogs(request.ontologies) : plan = Plan(request.question, catalog)
  BY DEF PlanIsOfCatalog, Answered
<1>2. pack = AssemblePack(plan, items)
  BY DEF ContextInvariant, PackIsAssembled
<1>3. Blocking(plan, items) = {}
  BY <1>2, PackFields
<1>4. plan.blockingIssues = {}
  BY <1>3 DEF Blocking
<1>5. plan.blockingIssues = {c.term : c \in RelevantConflicts(request.question, catalog)}
  BY <1>1 DEF Plan
<1>6. \A c \in catalog.conflicts : c.term \notin Words
  BY <1>4, <1>5 DEF RelevantConflicts, Words
<1> QED BY <1>1, <1>3, <1>6 DEF PlanIsOfCatalog, Answered

LEMMA DeclaredIsDeclaredIn ==
  ASSUME NEW k
  PROVE  Declared(k) = DeclaredIn(request.ontologies, k)
BY DEF Declared, DeclaredIn, Compiled

(***************************************************************************)
(* What an agent may rely on                                               *)
(***************************************************************************)

(* An ontology that gives no label to two of its concepts of one kind.     *)
ConceptsNamedApart ==
  \A kb \in KnowledgeBases : \A o \in Ontologies[kb] : \A k \in Kinds :
    \A t, u \in o.terms[k] : t.label = u.label => t.id = u.id

(* A complete answer never rests on a label that the ontologies in scope   *)
(* give to two concepts, or on two labels that they give to one.           *)
THEOREM AmbiguitiesBlock ==
  ASSUME ConceptsNamedApart
  PROVE  Spec => []AmbiguityBlocks
<1>1. ContextInvariant /\ PlanIsOfCatalog => AmbiguityBlocks
  <2> SUFFICES ASSUME ContextInvariant, PlanIsOfCatalog, Answered, pack.complete,
                      NEW k \in Kinds, NEW t \in Declared(k), NEW u \in Declared(k),
                      t.label \in Words
               PROVE  /\ t.label = u.label => t.id = u.id
                      /\ t.id = u.id /\ u.label \in Words => t.label = u.label
    BY DEF AmbiguityBlocks
  <2> DEFINE onts == request.ontologies
  <2>1. PICK catalog \in Catalogs(onts) : \A c \in catalog.conflicts : c.term \notin Words
    BY CompleteIsUnambiguous
  <2>2. AreResolved(onts)
    BY CompleteIsUnambiguous
  <2>3. t \in DeclaredIn(onts, k) /\ u \in DeclaredIn(onts, k)
    BY DeclaredIsDeclaredIn
  <2>4. /\ u.label \in Words /\ t.id = u.id => t.label = u.label
        /\ Len(onts) # 1 => (t.label = u.label => t.id = u.id)
    BY <2>1, <2>2, <2>3, CatalogKeepsConcepts
  <2>5. ASSUME Len(onts) = 1, t.label = u.label PROVE t.id = u.id
    <3> DEFINE o == onts[1].ontology
    <3>1. DOMAIN onts = {1}
      BY <2>2, <2>5, LenProperties DEF AreResolved, IsSequence
    <3>2. IsPublished(o) /\ t \in Compiled(o, k) /\ u \in Compiled(o, k)
      BY <2>2, <2>3, <3>1 DEF AreResolved, DeclaredIn, Range
    <3>3. PICK x \in o.terms[k], y \in o.terms[k] :
            t = CompileTerm(x, Overlay) /\ u = CompileTerm(y, Overlay)
      BY <3>2 DEF Compiled
    <3>4. IsConcept(x) /\ IsConcept(y)
      BY <3>2, OntologiesAssumption DEF IsPublished
    <3>5. t.id = x.id /\ t.label = x.label /\ u.id = y.id /\ u.label = y.label
      BY <3>3, <3>4, CompiledConcept
    <3>6. x.label = y.label => x.id = y.id
      BY <3>2 DEF ConceptsNamedApart, IsPublished
    <3> QED BY <2>5, <3>5, <3>6
  <2> QED BY <2>4, <2>5
<1> QED BY <1>1, ContextIsSound, PlansAreOfCatalogs, PTL

(* A question for the current state, of a property that prefers the        *)
(* business system, is planned with the business system required.          *)
LEMMA LivePlans ==
  ASSUME NEW q, NEW catalog, MatchedPropertyPrefers(q, catalog, "business_data"),
         "current" \in q.cues, "schema" \notin q.cues, "definition" \notin q.cues
  PROVE  LET steps == Plan(q, catalog).steps IN
         "business_data" \in DOMAIN steps /\ steps["business_data"]
<1>1. PICK optional : SourceChoices(q, catalog) = Choice({"business_data"}, optional)
  BY Zenon DEF SourceChoices
<1>2. /\ "business_data" \in DOMAIN SourceChoices(q, catalog)
      /\ SourceChoices(q, catalog)["business_data"]
  BY <1>1 DEF Choice
<1>3. /\ "business_data" \in DOMAIN PlanSteps(q, catalog)
      /\ PlanSteps(q, catalog)["business_data"] = SourceChoices(q, catalog)["business_data"]
  BY <1>2 DEF PlanSteps, Restrict, Sources
<1>4. Plan(q, catalog).steps = PlanSteps(q, catalog)
  BY DEF Plan
<1> QED BY <1>2, <1>3, <1>4

LEMMA PackStatus ==
  ASSUME NEW p, NEW results, NEW r \in Range(results), r.satisfied
  PROVE  LET k == AssemblePack(p, results) IN
         r.source \in DOMAIN k.status /\ k.status[r.source]
<1> DEFINE status == [s \in {x.source : x \in Range(results)} |->
                       \E x \in Range(results) : x.source = s /\ x.satisfied]
           k == AssemblePack(p, results)
<1>1. k.status = status
  BY DEF AssemblePack
<1> QED BY <1>1

(* A complete answer to a question for the current state had the business  *)
(* system's content, if any ontology in scope prefers it for a property    *)
(* that the question names.                                                *)
THEOREM LiveDataIsNeeded == Spec => []LiveQuestionsNeedLiveData
<1>1. ContextInvariant /\ PlanIsOfCatalog => LiveQuestionsNeedLiveData
  <2> SUFFICES ASSUME ContextInvariant, PlanIsOfCatalog, Answered, pack.complete,
                      Cued("current"), ~Cued("schema"), ~Cued("definition"),
                      NEW t \in Declared("property"), t.label \in Words,
                      Contains(t.sources, "business_data")
               PROVE  "business_data" \in DOMAIN pack.status /\ pack.status["business_data"]
    BY DEF LiveQuestionsNeedLiveData
  <2>1. PICK catalog \in Catalogs(request.ontologies) :
          plan = Plan(request.question, catalog) /\ \A c \in catalog.conflicts : c.term \notin Words
    BY CompleteIsUnambiguous
  <2>2. AreResolved(request.ontologies) /\ Blocking(plan, items) = {}
    BY CompleteIsUnambiguous
  <2>3. t \in DeclaredIn(request.ontologies, "property") /\ "property" \in Kinds
    BY DeclaredIsDeclaredIn DEF Kinds
  <2>4. PICK c \in Range(catalog.terms["property"]) :
          c.label = t.label /\ IsConcept(c) /\ Range(t.sources) \subseteq Range(c.sources)
    BY <2>1, <2>2, <2>3, CatalogKeepsConcepts
  <2>5. MatchedPropertyPrefers(request.question, catalog, "business_data")
    <3>1. c \in MatchedTerms(Words, catalog, "property")
      BY <2>4 DEF MatchedTerms, TermMatches
    <3>2. IsConcept(t)
      BY <2>2, <2>3, CompiledTerms DEF DeclaredIn, AreResolved
    <3>3. "business_data" \in Range(c.sources)
      BY <2>4, <3>2, ContainedIsInRange DEF IsConcept
    <3>4. Contains(c.sources, "business_data")
      BY <2>4, <3>3, ContainedIsInRange DEF IsConcept
    <3> QED BY <3>1, <3>4 DEF MatchedPropertyPrefers, Words
  <2>6. "business_data" \in DOMAIN plan.steps /\ plan.steps["business_data"]
    BY <2>1, <2>5, LivePlans DEF Cued
  <2>7. running = {}
    BY DEF ContextInvariant, ItemsAreSound, Answered
  <2>8. PICK r \in Range(items) : r.source = "business_data"
    BY <2>6, <2>7 DEF ContextInvariant, TypeOK
  <2>9. r.required
    BY <2>6, <2>8 DEF ContextInvariant, ItemsAreSound, IsItem
  <2>10. r.satisfied
    BY <2>2, <2>9 DEF Blocking
  <2>11. pack = AssemblePack(plan, items)
    BY DEF ContextInvariant, PackIsAssembled
  <2> QED BY <2>8, <2>10, <2>11, PackStatus
<1> QED BY <1>1, ContextIsSound, PlansAreOfCatalogs, PTL

(***************************************************************************)
(* One value for a property                                                *)
(***************************************************************************)

(* The business gateway states facts of the domain of every ontology that  *)
(* has the business system among the sources of a property: the domain is  *)
(* part of what it is asked.                                               *)
GatewayAnswersInDomain ==
  \A kb \in KnowledgeBases : \A o \in Ontologies[kb] :
    \/ \A t \in Compiled(o, "property") : "business_data" \notin Range(t.sources)
    \/ \A reply \in BusinessReplies : InDomain(Range(reply), o.domain)

(* The sources that are preferred for what a question names are sources of *)
(* properties of the catalog.                                              *)
LEMMA PreferredAreOfCatalog ==
  ASSUME NEW q, NEW catalog, IsSequence(catalog.terms["property"]),
         \A t \in Range(catalog.terms["property"]) : IsSequence(t.sources)
  PROVE  LET preferred == PreferredSources(q, catalog) IN
         /\ IsSequence(preferred)
         /\ \A s \in Range(preferred) :
              \E t \in Range(catalog.terms["property"]) : s \in Range(t.sources)
<1> DEFINE terms == catalog.terms["property"]
           ss == [i \in DOMAIN terms |-> IF TermMatches(q.words, terms[i]) THEN terms[i].sources
                                         ELSE <<>>]
<1>1. Len(terms) \in Nat /\ DOMAIN terms = 1..Len(terms)
  BY LenProperties DEF IsSequence
<1>2. IsSequence(<<>>) /\ Range(<<>>) = {}
  BY EmptyIsFacts, EmptySeq DEF AreFacts, Range
<1>3. \A i \in DOMAIN ss : IsSequence(ss[i]) /\ (ss[i] = terms[i].sources \/ ss[i] = <<>>)
  BY <1>2 DEF Range
<1>4. DOMAIN ss = DOMAIN terms /\ ss = [i \in DOMAIN ss |-> ss[i]]
  OBVIOUS
<1>5. PreferredSources(q, catalog) = MergeSources(<<>>, FlattenSeq(ss))
  BY Zenon DEF PreferredSources
<1> HIDE DEF ss
<1>6. IsSequence(ss)
  BY <1>1, <1>4, FunctionsOfIndexes
<1>7. IsSequence(FlattenSeq(ss)) /\ Range(FlattenSeq(ss)) = UNION {Range(ss[i]) : i \in DOMAIN ss}
  BY <1>3, <1>6, FlattenSequences
<1>8. /\ IsSequence(PreferredSources(q, catalog))
      /\ Range(PreferredSources(q, catalog)) = UNION {Range(ss[i]) : i \in DOMAIN ss}
  BY <1>2, <1>5, <1>7, MergeRange
<1>9. ASSUME NEW s \in Range(PreferredSources(q, catalog))
      PROVE  \E t \in Range(terms) : s \in Range(t.sources)
  <2>1. PICK i \in DOMAIN ss : s \in Range(ss[i])
    BY <1>8
  <2>2. ss[i] = terms[i].sources /\ terms[i] \in Range(terms)
    BY <1>2, <1>3, <1>4, <2>1 DEF Range
  <2> QED BY <2>1, <2>2
<1> QED BY <1>8, <1>9

(* A catalog in which no property prefers the business system: it is not   *)
(* asked.                                                                  *)
LEMMA NotPreferredIsNotPlanned ==
  ASSUME NEW q, NEW catalog, IsSequence(catalog.terms["property"]),
         \A t \in Range(catalog.terms["property"]) :
           IsSequence(t.sources) /\ "business_data" \notin Range(t.sources)
  PROVE  "business_data" \notin DOMAIN Plan(q, catalog).steps
<1> DEFINE preferred == PreferredSources(q, catalog)
<1>1. IsSequence(preferred) /\ "business_data" \notin Range(preferred)
  BY PreferredAreOfCatalog
<1>2. ~MatchedPropertyPrefers(q, catalog, "business_data")
  BY ContainedIsInRange DEF MatchedPropertyPrefers, MatchedTerms
<1>3. preferred # <<>> => Head(preferred) \in Range(preferred)
  BY <1>1, HeadTailProperties DEF IsSequence
<1> HIDE DEF preferred
<1>4. \E required, optional : /\ SourceChoices(q, catalog) = Choice(required, optional)
                              /\ "business_data" \notin required \cup optional
  <2> DEFINE C == SourceChoices(q, catalog)
             preferredBusiness == MatchedPropertyPrefers(q, catalog, "business_data")
  <2>1. \/ C = Choice({"ontology_graph"}, {})
        \/ C = Choice({"wiki_rag"}, {"ontology_graph"})
        \/ C = Choice({"wiki_rag"}, {})
        \/ C = Choice({"entity_graph"}, {"wiki_rag"})
        \/ C = Choice({"entity_graph"}, {})
        \/ preferred # <<>> /\ C = Choice({Head(preferred)}, Range(preferred))
    BY <1>2 DEF SourceChoices, preferred
  <2> HIDE DEF C
  <2>2. preferred # <<>> => "business_data" \notin {Head(preferred)} \cup Range(preferred)
    BY <1>1, <1>3
  <2>3. /\ "business_data" \notin {"ontology_graph"} \cup {}
        /\ "business_data" \notin {"wiki_rag"} \cup {"ontology_graph"}
        /\ "business_data" \notin {"wiki_rag"} \cup {}
        /\ "business_data" \notin {"entity_graph"} \cup {"wiki_rag"}
        /\ "business_data" \notin {"entity_graph"} \cup {}
    OBVIOUS
  <2>4. \E required, optional : /\ C = Choice(required, optional)
                                /\ "business_data" \notin required \cup optional
    BY <2>1, <2>2, <2>3, Zenon
  <2> QED BY <2>4 DEF C
<1>5. PICK required, optional : /\ SourceChoices(q, catalog) = Choice(required, optional)
                                /\ "business_data" \notin required \cup optional
  BY <1>4
<1>6. DOMAIN SourceChoices(q, catalog) = required \cup optional
  BY <1>5 DEF Choice
<1>7. DOMAIN Plan(q, catalog).steps \subseteq DOMAIN SourceChoices(q, catalog)
  BY DEF Plan, PlanSteps, Restrict
<1> QED BY <1>5, <1>6, <1>7

(* With one ontology in scope and no domain of the caller, every fact that *)
(* has arrived is of the ontology's domain.                                *)
OneDomain == Len(request.ontologies) = 1 /\ request.domain = NoDomain

FactsAreInDomain ==
  /\ stage \in {"idle", "failed"} => running = {}
  /\ stage \in {"answered", "fallback"} => pack.facts = AssemblePack(plan, items).facts
  /\ OneDomain =>
       \A r \in Range(items) : InDomain(Range(r.assertions), request.ontologies[1].ontology.domain)

LEMMA ReturnKeepsDomain ==
  ASSUME ContextInvariant, FactsAreInDomain, NEW source, NEW r, Return(source, r), IsResult(r),
         OneDomain => InDomain(Range(r.assertions), request.ontologies[1].ontology.domain)
  PROVE  FactsAreInDomain'
<1> DEFINE it == Gather(plan, source, r)
           d  == request.ontologies[1].ontology.domain
<1>1. /\ source \in running /\ running' = running \ {source} /\ items' = Append(items, it)
      /\ stage' = stage /\ request' = request /\ plan' = plan /\ pack' = pack
  BY DEF Return
<1>2. it.assertions = r.assertions \/ it.assertions = <<>>
  BY DEF Gather
<1> HIDE DEF it
<1>3. stage \notin {"answered", "fallback"}
  BY <1>1 DEF ContextInvariant, ItemsAreSound
<1>4. Range(items') = Range(items) \cup {it}
  BY <1>1, AppendedItem DEF ContextInvariant, ItemsAreSound
<1>5. InDomain(Range(<<>>), d)
  BY EmptySeq DEF InDomain, Range
<1>6. OneDomain => InDomain(Range(it.assertions), d)
  BY <1>2, <1>5
<1>7. OneDomain' = OneDomain
  BY <1>1 DEF OneDomain
<1> QED BY <1>1, <1>3, <1>4, <1>6, <1>7 DEF FactsAreInDomain

LEMMA RetrieversKeepDomain ==
  ASSUME GatewayAnswersInDomain, ContextInvariant, PlanIsOfCatalog, FactsAreInDomain, Returns
  PROVE  FactsAreInDomain'
<1> DEFINE d == request.ontologies[1].ontology.domain
<1>1. CASE EntityGraphReturns
  <2>1. PICK held \in [DOMAIN request.bases -> Views] :
          Return("entity_graph",
            RetrieveEntities(request.bases,
              [i \in DOMAIN held |-> IF request.bases[i] \in request.down THEN Unreachable ELSE held[i]],
              request.question.words, DomainOf(request), ScopeOf(request), plan.targets))
    BY <1>1, Zenon DEF EntityGraphReturns
  <2> DEFINE views == [i \in DOMAIN held |->
                         IF request.bases[i] \in request.down THEN Unreachable ELSE held[i]]
             r == RetrieveEntities(request.bases, views, request.question.words,
                                   DomainOf(request), ScopeOf(request), plan.targets)
  <2>2. IsSequence(request.bases)
    BY DEF ContextInvariant, GapsAreKept
  <2>3. DOMAIN held = DOMAIN request.bases /\ \A i \in DOMAIN request.bases : held[i] \in Views
    OBVIOUS
  <2>4. \A i \in DOMAIN request.bases : views[i] \in Views \/ views[i] = Unreachable
    BY <2>3
  <2>5. Return("entity_graph", r)
    BY <2>1
  <2> HIDE DEF views
  <2>6. IsResult(r) /\ InDomain(Range(r.assertions), DomainOf(request))
    BY <2>2, <2>4, EntityResults
  <2> HIDE DEF r
  <2>7. OneDomain => DomainOf(request) = d
    BY DEF OneDomain, DomainOf
  <2> QED BY <2>5, <2>6, <2>7, ReturnKeepsDomain
<1>2. CASE BusinessDataReturns
  <2>1. PICK reply \in BusinessReplies : Return("business_data", RetrieveBusinessData(reply))
    BY <1>2 DEF BusinessDataReturns
  <2> DEFINE r == RetrieveBusinessData(reply)
  <2>2. IsResult(r) /\ \A x \in Range(r.assertions) : \E y \in Range(reply) : x.slot = y.slot
    BY BusinessResults
  <2>3. ASSUME OneDomain PROVE InDomain(Range(r.assertions), d)
    <3>1. "business_data" \in running
      BY <2>1 DEF Return
    <3>2. "business_data" \in DOMAIN plan.steps /\ stage = "retrieving"
      BY <3>1 DEF ContextInvariant, TypeOK, ItemsAreSound, FactsAreInDomain
    <3>3. AreResolved(request.ontologies)
      BY <3>2 DEF PlanIsOfCatalog
    <3>4. PICK catalog \in Catalogs(request.ontologies) : plan = Plan(request.question, catalog)
      BY <3>2 DEF PlanIsOfCatalog
    <3> DEFINE o == request.ontologies[1].ontology
    <3>5. /\ IsPublished(o) /\ "property" \in Kinds
          /\ IsSequence(catalog.terms["property"])
          /\ Range(catalog.terms["property"]) = Compiled(o, "property")
      BY <2>3, <3>3, CatalogOfOne DEF OneDomain, Kinds
    <3>6. \A t \in Compiled(o, "property") : IsSequence(t.sources)
      BY <3>5, CompiledTerms DEF IsConcept
    <3>7. ~\A t \in Compiled(o, "property") : "business_data" \notin Range(t.sources)
      BY <3>2, <3>4, <3>5, <3>6, NotPreferredIsNotPlanned
    <3>8. InDomain(Range(reply), o.domain)
      BY <3>5, <3>7 DEF GatewayAnswersInDomain, IsPublished
    <3> HIDE DEF r
    <3> QED BY <2>2, <3>8 DEF InDomain
  <2> QED BY <2>1, <2>2, <2>3, ReturnKeepsDomain
<1> DEFINE Quiet(r) == IsResult(r) /\ r.assertions = <<>>
<1>3. ASSUME NEW source, NEW r, Return(source, r), Quiet(r) PROVE FactsAreInDomain'
  <2>1. InDomain(Range(<<>>), d)
    BY EmptySeq DEF InDomain, Range
  <2> QED BY <1>3, <2>1, ReturnKeepsDomain
<1>4. /\ \A found : Quiet(RetrieveWiki(found))
      /\ \A its, words : Quiet(RetrieveOntologies(its, words))
      /\ Quiet(AnError)
  BY SimpleResults
<1> HIDE DEF Quiet
<1>5. CASE WikiReturns
  BY <1>3, <1>4, <1>5 DEF WikiReturns
<1>6. CASE OntologyReturns
  BY <1>3, <1>4, <1>6 DEF OntologyReturns
<1>7. CASE RetrieverFails
  BY <1>3, <1>4, <1>7 DEF RetrieverFails
<1> QED BY <1>1, <1>2, <1>5, <1>6, <1>7 DEF Returns

LEMMA DomainsAreKept ==
  ASSUME GatewayAnswersInDomain
  PROVE  Spec => []FactsAreInDomain
<1>1. Init => FactsAreInDomain
  <2> SUFFICES ASSUME Init PROVE FactsAreInDomain
    OBVIOUS
  <2>1. stage = "idle" /\ running = {} /\ items = <<>>
    BY DEF Init
  <2>2. Range(<<>>) = {}
    BY EmptySeq DEF Range
  <2> QED BY <2>1, <2>2 DEF FactsAreInDomain
<1>2. ASSUME ContextInvariant, PlanIsOfCatalog, FactsAreInDomain, [Next]_vars
      PROVE  FactsAreInDomain'
  <2>1. ASSUME stage' = stage, running' = running, items' = items, request' = request,
               plan' = plan, pack' = pack
        PROVE  FactsAreInDomain'
    <3>1. AssemblePack(plan, items)' = AssemblePack(plan, items)
      BY <2>1, Zenon
    <3>2. OneDomain' = OneDomain
      BY <2>1 DEF OneDomain
    <3> QED BY <1>2, <2>1, <3>1, <3>2 DEF FactsAreInDomain
  <2>2. CASE UNCHANGED vars
    BY <2>1, <2>2 DEF vars
  <2>3. CASE Ask
    <3>1. /\ stage' = "retrieving"
          /\ \E s : items' = [i \in DOMAIN s |-> Gather(plan', s[i], NoResult)]
      BY <2>3, Zenon DEF Ask, Retrieve
    <3>2. PICK s : items' = [i \in DOMAIN s |-> Gather(plan', s[i], NoResult)]
      BY <3>1
    <3>3. \A x : Gather(plan', x, NoResult).assertions = <<>>
      BY NoResultFields DEF Gather
    <3>4. \A r \in Range(items') : r.assertions = <<>>
      BY <3>2, <3>3 DEF Range
    <3>5. Range(<<>>) = {}
      BY EmptySeq DEF Range
    <3> QED BY <3>1, <3>4, <3>5 DEF FactsAreInDomain, InDomain
  <2>4. CASE Refuse
    <3>1. stage' = "failed" /\ running' = {} /\ items' = <<>>
      BY <2>4 DEF Refuse
    <3>2. Range(<<>>) = {}
      BY EmptySeq DEF Range
    <3> QED BY <3>1, <3>2 DEF FactsAreInDomain
  <2>5. CASE Returns
    BY <1>2, <2>5, RetrieversKeepDomain
  <2>6. CASE Assemble
    <3>1. /\ stage' \in {"fallback", "answered"} /\ running' = running /\ items' = items
          /\ request' = request /\ plan' = plan
      BY <2>6 DEF Assemble
    <3>2. pack' = AssemblePack(plan, items)
      BY <2>6 DEF Assemble
    <3>3. AssemblePack(plan, items)' = AssemblePack(plan, items)
      BY <3>1, Zenon
    <3>4. pack'.facts = (AssemblePack(plan, items).facts)'
      BY <3>2, <3>3
    <3>5. OneDomain' = OneDomain
      BY <3>1 DEF OneDomain
    <3> QED BY <1>2, <3>1, <3>4, <3>5 DEF FactsAreInDomain
  <2>7. CASE Fallback
    <3>1. PICK found : pack' = [pack EXCEPT !.knowledge = found, !.fallback = found # {}]
      BY <2>7 DEF Fallback
    <3>2. /\ stage = "fallback" /\ stage' = "answered" /\ running' = running /\ items' = items
          /\ request' = request /\ plan' = plan
      BY <2>7 DEF Fallback
    <3>3. pack'.facts = pack.facts
      <4>1. IsPack(pack)
        BY <1>2 DEF ContextInvariant, PackIsAssembled
      <4>2. PICK k : k = [pack EXCEPT !.knowledge = found]
        OBVIOUS
      <4>3. pack' = [k EXCEPT !.fallback = found # {}]
        BY <3>1, <4>2
      <4>4. IsPack(k) /\ k.facts = pack.facts
        BY <4>1, <4>2 DEF IsPack
      <4> QED BY <4>3, <4>4 DEF IsPack
    <3>4. AssemblePack(plan, items)' = AssemblePack(plan, items)
      BY <3>2, Zenon
    <3>5. pack'.facts = (AssemblePack(plan, items).facts)'
      BY <1>2, <3>2, <3>3, <3>4 DEF FactsAreInDomain
    <3>6. OneDomain' = OneDomain
      BY <3>2 DEF OneDomain
    <3> QED BY <1>2, <3>2, <3>5, <3>6 DEF FactsAreInDomain
  <2> QED BY <1>2, <2>2, <2>3, <2>4, <2>5, <2>6, <2>7 DEF Next, Returns
<1> QED BY <1>1, <1>2, ContextIsSound, PlansAreOfCatalogs, PTL DEF Spec

(* Of the facts of one slot at most one is accepted, and it was stated.    *)
LEMMA AcceptedOnce ==
  ASSUME NEW s, AreFacts(s), NEW v \in Arbitrate(s), NEW f \in v.accepted
  PROVE  /\ f \in Range(s) /\ f.slot = v.slot /\ v.accepted = {f}
         /\ v = ArbitrateSlot(s, v.slot)
<1>1. PICK slot \in {x.slot : x \in Range(s)} : v = ArbitrateSlot(s, slot)
  BY Zenon DEF Arbitrate
<1> DEFINE candidates == {i \in DOMAIN s : s[i].slot = slot}
           first      == s[Min(candidates)]
           valid      == {i \in candidates : s[i].valid /\ ScopeCompatible(s[i].scope, first.scope)}
           top        == s[FirstBest(s, valid)]
<1>2. /\ v.slot = slot /\ v.accepted \in {{}, {top}}
      /\ v.accepted # {} => valid # {}
  <2> DEFINE conflicts == {i \in valid : s[i].value # top.value /\ ~IsSupersededBy(s[i], top)}
             second    == s[FirstBest(s, conflicts)]
             verdict(status, accepted) == [slot |-> slot, status |-> status, accepted |-> accepted]
  <2>1. v = IF valid = {} THEN verdict("no_valid_assertion", {})
            ELSE IF conflicts = {} THEN verdict("accepted", {top})
            ELSE IF Score(top) - Score(second) <= DefaultDelta THEN verdict("unresolved_conflict", {})
            ELSE verdict("accepted_with_conflict", {top})
    BY <1>1, Zenon DEF ArbitrateSlot
  <2> HIDE DEF valid, top, conflicts, second
  <2> QED BY <2>1
<1>3. valid \in SUBSET (DOMAIN s) /\ \A i \in valid : s[i].slot = slot
  OBVIOUS
<1> HIDE DEF valid
<1>4. Len(s) \in Nat /\ DOMAIN s = 1..Len(s)
  BY LenProperties DEF AreFacts, IsSequence
<1>5. valid # {} => FirstBest(s, valid) \in valid
  BY <1>3, <1>4, FirstBestExists DEF AreFacts, Range
<1> HIDE DEF top
<1>6. f = top /\ v.accepted = {f}
  BY <1>2
<1>7. f \in Range(s) /\ f.slot = slot
  BY <1>2, <1>3, <1>5, <1>6 DEF Range, top
<1> QED BY <1>1, <1>2, <1>6, <1>7

(* With one ontology in scope, an answer never holds two values of one     *)
(* property of a subject, whichever systems stated them.                   *)
THEOREM PropertiesHaveOneValue ==
  ASSUME GatewayAnswersInDomain
  PROVE  Spec => []OneValuePerProperty
<1>1. ContextInvariant /\ FactsAreInDomain => OneValuePerProperty
  <2> SUFFICES ASSUME ContextInvariant, FactsAreInDomain, Answered, OneDomain,
                      NEW f \in pack.facts, NEW g \in pack.facts,
                      f.slot[1] = g.slot[1], f.slot[2][2] = g.slot[2][2]
               PROVE  f.value = g.value
    BY DEF OneValuePerProperty, OneDomain
  <2> DEFINE d == request.ontologies[1].ontology.domain
             s == FactsOf(items)
  <2>1. pack.facts = UNION {v.accepted : v \in Arbitrate(s)}
    BY PackFields DEF FactsAreInDomain, Answered
  <2>2. AreFacts(s) /\ Range(s) = UNION {Range(r.assertions) : r \in Range(items)}
    BY FactsOfItems DEF ContextInvariant, ItemsAreSound, IsItem
  <2>3. InDomain(Range(s), d)
    BY <2>2 DEF FactsAreInDomain, InDomain
  <2> HIDE DEF s
  <2>4. PICK v \in Arbitrate(s) : f \in v.accepted
    BY <2>1
  <2>5. PICK w \in Arbitrate(s) : g \in w.accepted
    BY <2>1
  <2>6. /\ f \in Range(s) /\ f.slot = v.slot /\ v.accepted = {f} /\ v = ArbitrateSlot(s, v.slot)
        /\ g \in Range(s) /\ g.slot = w.slot /\ w.accepted = {g} /\ w = ArbitrateSlot(s, w.slot)
    BY <2>2, <2>4, <2>5, AcceptedOnce
  <2>7. f.slot = g.slot
    BY <2>3, <2>6 DEF InDomain
  <2> QED BY <2>6, <2>7
<1> QED BY <1>1, ContextIsSound, DomainsAreKept, PTL
=============================================================================
